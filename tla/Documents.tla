----------------------------- MODULE Documents -----------------------------
(***************************************************************************)
(* What cberl's functions do to documents: how a request is converted on   *)
(* its way from the API to a libcouchbase command, and how the response is *)
(* converted on its way back.  Processes share one connection, whose       *)
(* worker runs one request after another (Cberl); other clients of the     *)
(* bucket write documents meanwhile.                                       *)
(*                                                                         *)
(* External, as src/ uses it: the servers keep a CAS value per version of  *)
(* a document, compare it with that of a request unless it is 0, and keep  *)
(* a document's flags when something is appended to it.                    *)
(***************************************************************************)
EXTENDS Integers, Sequences, FiniteSets, FiniteSetsExt

CONSTANTS
  Processes,    \* processes that use the connection
  Keys,         \* document keys
  Values,       \* values of documents
  Other,        \* a term that is none of Values
  Crash,        \* a decoder's exception
  Workload,     \* the requests the processes make
  Nodes,        \* number of nodes that can hold a copy of a document
  MaxCalls,     \* bound on the number of calls
  MaxForeign    \* bound on the number of writes by other clients

(* A persist_to of -1 asks for as many nodes as 16 bits can count.          *)
ASSUME NodesAssumption    == Nodes \in 1..65535
ASSUME MaxCallsAssumption == MaxCalls \in Nat
ASSUME MaxForeignAssumption == MaxForeign \in Nat

VARIABLES
  docs,       \* the bucket: the current version of each document
  copies,     \* on how many nodes it is persisted
  lastCas,    \* the CAS value of the latest version in the bucket
  queue,      \* requests posted to the worker; it works on the head
  waiting,    \* the number of the call each process waits in, 0 if none
  calls,      \* number of calls so far
  foreign,    \* number of writes by other clients
  seen,       \* the CAS value each process has last got for each key
  written,    \* history: versions of documents, with what was asked for
  acks,       \* history: CAS values returned by writes
  reads       \* history: what get has returned

bucketVars == <<docs, copies, lastCas, foreign>>
callVars   == <<queue, waiting, calls, seen>>
vars       == <<bucketVars, callVars, written, acks, reads>>

Encoders == {"none", "json", "raw"}

Writes == {"add", "replace", "set"}

(* Wrong: append and prepend are swapped. *)
StoreOperationIdSwapped ==
  [add |-> 1, replace |-> 2, set |-> 3, append |-> 5, prepend |-> 4]

(* get_store_operation_id/1. *)
StoreOperationId ==
  [add |-> 1, replace |-> 2, set |-> 3, append |-> 4, prepend |-> 5]

(* The forms of an item: cas is one of Cas where the API takes a CAS value  *)
(* and NoCas where it takes none.                                           *)
StoreItems(Cas) ==
  [op : DOMAIN StoreOperationId, key : Keys, value : Values, enc : Encoders, cas : Cas]

ArithmeticItems(Cas) ==
  [op : {"arithmetic"}, key : Keys, delta : Int, default : Nat \cup {-1}, cas : Cas]

PersistTo == {-1} \cup 0..65535

DurabilityItems(Cas) ==
  [op : {"durability"}, key : Keys, persist : PersistTo, cas : Cas]

Items(Cas, NoCas) ==
  StoreItems(Cas) \cup ArithmeticItems(NoCas) \cup DurabilityItems(Cas)
    \cup [op : {"remove"}, key : Keys, cas : Cas]
    \cup [op : {"get"}, key : Keys, cas : NoCas]

(* Items of one request go to one function of the API. *)
Function(item) == IF item.op \in DOMAIN StoreOperationId THEN "store" ELSE item.op

ASSUME WorkloadAssumption ==
  \A items \in Workload :
    /\ items \in Seq(Items(BOOLEAN, {FALSE})) /\ items # <<>>
    /\ \A i \in DOMAIN items : Function(items[i]) = Function(items[1])

(* A body is what was written, piece by piece; one piece unless something   *)
(* was appended or prepended.  CAS values start at 1.                       *)
Piece == [enc : Encoders, val : Values] \cup [enc : {"number"}, val : Nat]

Document == [cas : Nat, flags : 0..3, body : Seq(Piece)]

NoDoc == [cas |-> 0, flags |-> 0, body |-> <<>>]

Errors == {"success", "key_enoent", "not_stored", "key_eexists", "delta_badval", "etimedout"}

Answer == [key : Keys, err : Errors, cas : Nat, flags : 0..3, body : Seq(Piece)]

Request == [call : Nat, todo : SUBSET Nat, out : Seq(Answer), items : Seq(Items(Nat, {0}))]

(* A request has an answer for each of its items that is not to be done.    *)
InProgress(r) ==
  /\ r.todo \subseteq DOMAIN r.items
  /\ Len(r.out) + Cardinality(r.todo) = Len(r.items)

TypeOK ==
  /\ docs \in [Keys -> Document]
  /\ \A k \in Keys : docs[k].cas <= lastCas /\ (docs[k].cas = 0 <=> docs[k] = NoDoc)
  /\ copies \in [Keys -> 0..Nodes]
  /\ lastCas \in Nat
  /\ queue \in Seq(Request)
  /\ \A i \in DOMAIN queue : queue[i].call <= calls /\ InProgress(queue[i])
  /\ waiting \in [Processes -> 0..calls]
  /\ calls \in 0..MaxCalls
  /\ foreign \in 0..MaxForeign
  /\ seen \in [Processes -> [Keys -> 0..lastCas]]

Init ==
  /\ docs = [k \in Keys |-> NoDoc]
  /\ copies = [k \in Keys |-> 0]
  /\ lastCas = 0 /\ foreign = 0
  /\ queue = <<>>
  /\ waiting = [p \in Processes |-> 0]
  /\ calls = 0
  /\ seen = [p \in Processes |-> [k \in Keys |-> 0]]
  /\ written = {} /\ acks = {} /\ reads = {}

-----------------------------------------------------------------------------
(* From the API to the command.                                             *)

(* Wrong: a bit for each encoder. *)
EncoderIdAsBits == [none |-> 0, json |-> 2, raw |-> 4]

(* encode/2: the flags that go with a value. *)
EncoderId == [none |-> 0, json |-> 1, raw |-> 2]

Encode(item) == <<[enc |-> item.enc, val |-> item.value]>>

(* lcb_storage_t. *)
Storage == <<"add", "replace", "set", "append", "prepend">>

(* bulk_store/3 and StoreRequest. *)
StoreCommand(item) ==
  [op |-> Storage[StoreOperationId[item.op]], key |-> item.key, cas |-> item.cas,
   flags |-> EncoderId[item.enc], body |-> Encode(item)]

(* bulk_arithmetic/3 and ArithmeticRequest: no default, no document. *)
ArithmeticCommand(item) ==
  [op |-> "arithmetic", key |-> item.key, cas |-> 0, delta |-> item.delta,
   create |-> item.default # -1,
   initial |-> IF item.default = -1 THEN 0 ELSE item.default]

(* Wrong: a negative number of nodes means none. *)
DurabilityCommandClamped(item) ==
  [op |-> "durability", key |-> item.key, cas |-> item.cas,
   persist |-> Min({Max({item.persist, 0}), Nodes})]

(* DurabilityRequestOptions: an int becomes a 16-bit unsigned number, which *)
(* cap_max makes libcouchbase reduce to the number of nodes.                *)
DurabilityCommand(item) ==
  [op |-> "durability", key |-> item.key, cas |-> item.cas,
   persist |-> Min({item.persist % 65536, Nodes})]

(* Wrong: a CAS value that is not passed on. *)
CommandWithoutCas(item) ==
  CASE item.op \in DOMAIN StoreOperationId -> [StoreCommand(item) EXCEPT !.cas = 0]
    [] item.op = "arithmetic" -> ArithmeticCommand(item)
    [] item.op = "durability" -> DurabilityCommand(item)
    [] item.op \in {"get", "remove"} -> [op |-> item.op, key |-> item.key, cas |-> 0]

(* What Connection makes of an item of a request. *)
Command(item) ==
  CASE item.op \in DOMAIN StoreOperationId -> StoreCommand(item)
    [] item.op = "arithmetic" -> ArithmeticCommand(item)
    [] item.op = "durability" -> DurabilityCommand(item)
    [] item.op = "get"        -> [op |-> "get", key |-> item.key, cas |-> 0]
    [] item.op = "remove"     -> [op |-> "remove", key |-> item.key, cas |-> item.cas]

-----------------------------------------------------------------------------
(* The servers.                                                             *)
IsNumber(d) == Len(d.body) = 1 /\ d.body[1].enc = "number"

Number(n) == <<[enc |-> "number", val |-> Max({n, 0})]>>

Refusal(cmd, d) ==
  CASE d = NoDoc /\ \/ cmd.op \in {"get", "remove", "durability"}
                    \/ cmd.op = "arithmetic" /\ ~cmd.create
                    \/ cmd.op # "add" /\ cmd.cas # 0 -> "key_enoent"
    [] d = NoDoc /\ cmd.op \in {"replace", "append", "prepend"}
                    /\ cmd.cas = 0 -> "not_stored"
    [] cmd.op = "add" /\ (d # NoDoc \/ cmd.cas # 0) -> "key_eexists"
    [] d # NoDoc /\ cmd.cas \notin {0, d.cas} -> "key_eexists"
    [] d # NoDoc /\ cmd.op = "arithmetic" /\ cmd.cas \in {0, d.cas}
                    /\ ~IsNumber(d) -> "delta_badval"
    [] OTHER -> "success"

NewFlags(cmd, d) == IF cmd.op \in Writes THEN cmd.flags ELSE d.flags

NewBody(cmd, d) ==
  CASE cmd.op \in Writes    -> cmd.body
    [] cmd.op = "append"    -> d.body \o cmd.body
    [] cmd.op = "prepend"   -> cmd.body \o d.body
    [] cmd.op = "arithmetic" ->
         IF d = NoDoc THEN Number(cmd.initial) ELSE Number(d.body[1].val + cmd.delta)

IsWrite(cmd) == cmd.op \notin {"get", "durability"}

(* The version of the document that a command leaves. *)
Served(cmd, d) ==
  IF cmd.op = "remove" THEN NoDoc
  ELSE IF IsWrite(cmd)
    THEN [cas |-> lastCas + 1, flags |-> NewFlags(cmd, d), body |-> NewBody(cmd, d)]
    ELSE d

NewVersion(k, d) ==
  /\ docs' = [docs EXCEPT ![k] = d]
  /\ copies' = [copies EXCEPT ![k] = IF d = NoDoc THEN 0 ELSE 1]
  /\ lastCas' = IF d = NoDoc THEN lastCas ELSE d.cas

-----------------------------------------------------------------------------
(* From the response to the result.                                         *)

(* Wrong: a document without its flags. *)
ResponseWithoutFlags(cmd, err, d) ==
  [key |-> cmd.key, err |-> err, cas |-> d.cas, flags |-> 0, body |-> d.body]

(* Wrong: the CAS value of the request instead of the new one. *)
ResponseWithOldCas(cmd, err, d) ==
  [key |-> cmd.key, err |-> err, cas |-> cmd.cas, flags |-> d.flags, body |-> d.body]

(* The callback's response: what it adds to the list. *)
Response(cmd, err, d) ==
  [key |-> cmd.key, err |-> err, cas |-> d.cas, flags |-> d.flags, body |-> d.body]

(* decode/2: the terms that may come of a body.  binary_to_term does not    *)
(* look beyond the first term.  No clause takes other flags.                *)
Decode(flags, body) ==
  CASE flags = 0 -> {IF Len(body) = 1 /\ body[1].enc = "none" THEN body[1].val ELSE Other}
    [] flags = 1 -> IF Len(body) = 1 /\ body[1].enc = "json" THEN {body[1].val}
                    ELSE {Other, Crash}
    [] flags = 2 -> IF body[1].enc = "raw" THEN {body[1].val} ELSE {Other, Crash}
    [] OTHER -> {Crash}

-----------------------------------------------------------------------------
(* An item with the CAS value that p has seen, if it asks for one ("cas" is *)
(* TRUE).                                                                   *)
WithCas(p, item) == [item EXCEPT !.cas = IF item.cas THEN seen[p][item.key] ELSE 0]

Call(p, items) ==
  /\ waiting[p] = 0 /\ calls < MaxCalls
  /\ calls' = calls + 1
  /\ waiting' = [waiting EXCEPT ![p] = calls + 1]
  /\ queue' = Append(queue,
       [call |-> calls + 1, todo |-> DOMAIN items, out |-> <<>>,
        items |-> [i \in DOMAIN items |-> WithCas(p, items[i])]])
  /\ UNCHANGED <<bucketVars, seen, written, acks, reads>>

(* {error, timeout}: the request stays where it is. *)
Timeout(p) ==
  /\ waiting[p] # 0
  /\ waiting' = [waiting EXCEPT ![p] = 0]
  /\ UNCHANGED <<bucketVars, queue, calls, seen, written, acks, reads>>

(* The callback adds its response to the list of the running request. *)
Answered(i, response) ==
  LET r == queue[1]
  IN  [queue EXCEPT ![1] = [r EXCEPT !.todo = r.todo \ {i}, !.out = Append(r.out, response)]]

(* A node works on an item of the running request and the callback adds the *)
(* response.  The items of one request reach several nodes: any order.  A   *)
(* command that took effect may still be answered too late.                 *)
Execute(i) ==
  LET item == Head(queue).items[i]
      cmd  == Command(item)
      d    == docs[cmd.key]
      err  == Refusal(cmd, d)
      new  == IF err = "success" THEN Served(cmd, d) ELSE d
  IN  /\ i \in Head(queue).todo
      /\ cmd.op = "durability" /\ err = "success" => copies[cmd.key] >= cmd.persist
      /\ \E e \in {err, "etimedout"} : queue' = Answered(i, Response(cmd, e, new))
      /\ IF new = d THEN UNCHANGED <<docs, copies, lastCas>> ELSE NewVersion(cmd.key, new)
      /\ written' = written \cup
           IF new.cas = d.cas THEN {}
           ELSE {[key |-> cmd.key, cas |-> new.cas, by |-> item.op, call |-> Head(queue).call,
                  doc |-> new, value |-> IF item.op \in Writes THEN item.value ELSE Other]}
      /\ UNCHANGED <<foreign, waiting, calls, seen, acks, reads>>

(* The copies a durability request waits for do not come in time. *)
ExecuteTimeout(i) ==
  LET cmd == Command(Head(queue).items[i])
  IN  /\ i \in Head(queue).todo /\ cmd.op = "durability"
      /\ queue' = Answered(i, Response(cmd, "etimedout", docs[cmd.key]))
      /\ UNCHANGED <<bucketVars, waiting, calls, seen, written, acks, reads>>

(* What a request has told the process p: CAS values, and what get returns. *)
Successes(r) == {j \in DOMAIN r.out : r.out[j].err = "success"}

Learn(p, r) ==
  seen' = [seen EXCEPT ![p] = [k \in Keys |->
             Max({@[k]} \cup {r.out[j].cas : j \in {n \in Successes(r) : r.out[n].key = k}})]]

(* bulk_get/3 maps decode/2 over the responses: an exception for one of     *)
(* them takes the results of all.                                           *)
Decodings(r) ==
  {f \in [Successes(r) -> Values \cup {Other, Crash}] :
     \A j \in Successes(r) : f[j] \in Decode(r.out[j].flags, r.out[j].body)}

Results(r, f) ==
  {[key |-> r.out[j].key, cas |-> r.out[j].cas, value |-> f[j]] :
     j \in {n \in Successes(r) : f[n] = Crash \/ \A m \in Successes(r) : f[m] # Crash}}

Return(p, r) ==
  /\ waiting' = [waiting EXCEPT ![p] = 0]
  /\ Learn(p, r)
  /\ IF r.items[1].op = "get"
       THEN /\ \E f \in Decodings(r) : reads' = reads \cup Results(r, f)
            /\ UNCHANGED acks
       ELSE /\ UNCHANGED reads
            /\ acks' = acks \cup
                 IF r.items[1].op \in {"remove", "durability"} THEN {}
                 ELSE {[call |-> r.call, key |-> r.out[j].key, cas |-> r.out[j].cas] :
                         j \in Successes(r)}

(* The worker returns the responses; a process that has given up does not   *)
(* see them.                                                                *)
Reply ==
  LET r == Head(queue)
  IN  /\ queue # <<>> /\ r.todo = {}
      /\ queue' = Tail(queue)
      /\ \/ \E p \in Processes : waiting[p] = r.call /\ Return(p, r)
         \/ /\ \A p \in Processes : waiting[p] # r.call
            /\ UNCHANGED <<waiting, seen, acks, reads>>
      /\ UNCHANGED <<bucketVars, calls, written>>

(* {error, Reason} for the whole request: lcb_get or one of its siblings    *)
(* fails and nothing is executed, or lcb_wait does when all has been.       *)
ReplyError ==
  LET r == Head(queue)
  IN  /\ queue # <<>> /\ r.todo \in {{}, DOMAIN r.items}
      /\ queue' = Tail(queue)
      /\ waiting' = [p \in Processes |-> IF waiting[p] = r.call THEN 0 ELSE waiting[p]]
      /\ UNCHANGED <<bucketVars, calls, seen, written, acks, reads>>

-----------------------------------------------------------------------------
(* The rest of the world: a version reaches the disk of another node, ...   *)
Persist(k) ==
  /\ docs[k] # NoDoc /\ copies[k] < Nodes
  /\ copies' = [copies EXCEPT ![k] = @ + 1]
  /\ UNCHANGED <<docs, lastCas, foreign, callVars, written, acks, reads>>

(* ... and a client that is not cberl stores something, with its own flags. *)
ForeignStore(k, v) ==
  /\ foreign < MaxForeign
  /\ foreign' = foreign + 1
  /\ \E flags \in {0, 3} :
       LET d == [cas |-> lastCas + 1, flags |-> flags, body |-> <<[enc |-> "none", val |-> v]>>]
       IN  /\ NewVersion(k, d)
           /\ written' = written \cup {[key |-> k, cas |-> d.cas, by |-> "foreign", call |-> 0,
                                        doc |-> d, value |-> v]}
  /\ UNCHANGED <<callVars, acks, reads>>

Next ==
  \/ \E p \in Processes : Timeout(p) \/ \E items \in Workload : Call(p, items)
  \/ queue # <<>> /\ \E i \in Head(queue).todo : Execute(i) \/ ExecuteTimeout(i)
  \/ Reply \/ ReplyError
  \/ \E k \in Keys : Persist(k) \/ \E v \in Values : ForeignStore(k, v)

Spec == Init /\ [][Next]_vars

-----------------------------------------------------------------------------
(* A value comes with the CAS value of the version it was read from,        *)
(* whoever wrote that version (a call, an append to what another call or    *)
(* another client stored, a counter or another client) and whatever has     *)
(* been written since: it is decoded from the body of that version by the   *)
(* flags of that version (StoreRequest, GetResponse and decode/2 keep the   *)
(* three together, in bulk requests too).  A version that a call stored as  *)
(* a whole is read as what that call was given, with any encoder, and never *)
(* makes a reader crash; one of another client does only if cberl has no    *)
(* decoder for its flags.                                                   *)
CasIdentifiesValue ==
  \A r \in reads, w \in written :
    r.key = w.key /\ r.cas = w.cas /\ w.by # "remove" =>
      /\ r.value \in Decode(w.doc.flags, w.doc.body)
      /\ w.by \in Writes => r.value = w.value
      /\ w.by = "foreign" => r.value = IF w.doc.flags = 0 THEN w.value ELSE Crash

(* {ok, Cas} names the version that this very call has written, also if     *)
(* other requests and clients write between its execution and its return.   *)
AckNamesOwnVersion ==
  \A a \in acks : \E w \in written :
    w.call = a.call /\ w.key = a.key /\ w.cas = a.cas

(* In a step item i of the running request has been executed.               *)
Executed(i) ==
  /\ queue # <<>> /\ queue' # <<>>
  /\ queue'[1].call = queue[1].call
  /\ i \in queue[1].todo \ queue'[1].todo

ItemStep(A(_)) ==
  queue # <<>> => \A i \in Head(queue).todo : Executed(i) => A(Head(queue).items[i])

(* A request with a CAS value never changes another version than that one:  *)
(* read-modify-write loops lose no update.                                  *)
Guarded(item) ==
  docs'[item.key] # docs[item.key] => item.cas \in {0, docs[item.key].cas}

NoLostUpdate == [][ItemStep(Guarded)]_vars

(* add creates documents and never overwrites one; replace, append and      *)
(* prepend never create one; get and durability change nothing.  append and *)
(* prepend put what they were given after and before what they find, and    *)
(* keep its flags.                                                          *)
Effect(item) ==
  docs'[item.key] # docs[item.key] =>
    /\ item.op \notin {"get", "durability"}
    /\ item.op = "add" => docs[item.key] = NoDoc
    /\ item.op \in {"replace", "append", "prepend", "remove"} => docs[item.key] # NoDoc
    /\ item.op = "arithmetic" /\ item.default = -1 => docs[item.key] # NoDoc
    /\ item.op \in {"append", "prepend"} => docs'[item.key].flags = docs[item.key].flags
    /\ item.op = "append"  => docs'[item.key].body = docs[item.key].body \o Encode(item)
    /\ item.op = "prepend" => docs'[item.key].body = Encode(item) \o docs[item.key].body

EffectIsAsAsked == [][ItemStep(Effect)]_vars

(* durability answers ok only for a version that is on as many nodes as was *)
(* asked for.  A persist_to of -1 asks for all of them, since it becomes a  *)
(* number of 16 bits without a sign (as does the replicate_to that the      *)
(* README passes as -1).                                                    *)
Durable(item) ==
  LET out == queue'[1].out
  IN  item.op = "durability" /\ out[Len(out)].err = "success" =>
        /\ copies[item.key] >= Min({item.persist, Nodes})
        /\ item.persist = -1 => copies[item.key] = Nodes

DurableWhenTold == [][ItemStep(Durable)]_vars
=============================================================================
