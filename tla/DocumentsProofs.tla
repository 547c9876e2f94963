-------------------------- MODULE DocumentsProofs --------------------------
(***************************************************************************)
(* Proofs about documents, for any processes, keys, values and requests,   *)
(* and any number of calls: what a command does to a document is what its  *)
(* item asked for, and CAS values and values keep together on their way    *)
(* from the API to the servers and back.                                   *)
(***************************************************************************)
EXTENDS Documents, FiniteSetTheorems, SequenceTheorems, WellFoundedInduction, TLAPS

StoreOps == {"add", "replace", "set", "append", "prepend"}

(* A version that was written as a whole is what encode/2 makes of the      *)
(* value, or what another client has stored.                                *)
AsWritten(w) ==
  /\ w.by \in Writes =>
       \E enc \in Encoders : /\ w.doc.flags = EncoderId[enc]
                             /\ w.doc.body = <<[enc |-> enc, val |-> w.value]>>
  /\ w.by = "foreign" => /\ w.doc.flags \in {0, 3}
                         /\ w.doc.body = <<[enc |-> "none", val |-> w.value]>>

(* The history of the bucket has no version from the future, and only a     *)
(* removal is recorded with the CAS value of no document.                   *)
Histories ==
  /\ written \subseteq [key : Keys, cas : 0..lastCas,
                        by : StoreOps \cup {"arithmetic", "remove", "foreign"},
                        call : Nat, doc : Document, value : Values \cup {Other}]
  /\ \A w \in written : AsWritten(w) /\ (w.by # "remove" => w.cas # 0)
  /\ reads \subseteq [key : Keys, cas : 0..lastCas, value : Values \cup {Other, Crash}]
  /\ acks \subseteq [call : Nat, key : Keys, cas : Nat]

(* v, a document or an answer, is the version that its CAS value names.     *)
Carries(key, v, versions) ==
  \A w \in versions :
    w.key = key /\ w.cas = v.cas /\ w.by # "remove" =>
      v.flags = w.doc.flags /\ v.body = w.doc.body

(* What a reader of the version w may get.                                  *)
ReadsAs(value, w) ==
  /\ value \in Decode(w.doc.flags, w.doc.body)
  /\ w.by \in Writes => value = w.value
  /\ w.by = "foreign" => value = IF w.doc.flags = 0 THEN w.value ELSE Crash

(* The requests of one function, whose successes tell a new CAS value.      *)
TellsCas(r) == r.items[1].op \notin {"get", "remove", "durability"}

AnswersFit(r, versions, last) ==
  /\ r.items # <<>>
  /\ \A i \in DOMAIN r.items : Function(r.items[i]) = Function(r.items[1])
  /\ \A j \in DOMAIN r.out :
       /\ r.out[j].cas <= last
       /\ Carries(r.out[j].key, r.out[j], versions)
       /\ TellsCas(r) /\ r.out[j].err = "success" =>
            \E w \in versions :
              w.call = r.call /\ w.key = r.out[j].key /\ w.cas = r.out[j].cas

CallsInOrder ==
  \A i, j \in DOMAIN queue : i < j => queue[i].call < queue[j].call

IInv ==
  /\ TypeOK
  /\ Histories
  /\ \A k \in Keys : Carries(k, docs[k], written)
  /\ \A i \in DOMAIN queue : AnswersFit(queue[i], written, lastCas)
  /\ CallsInOrder
  /\ CasIdentifiesValue
  /\ AckNamesOwnVersion

-----------------------------------------------------------------------------
(* Items and commands.                                                      *)

LEMMA Operations == DOMAIN StoreOperationId = StoreOps
  BY DEF StoreOps, StoreOperationId

LEMMA StorageOfOperation ==
  ASSUME NEW op \in StoreOps
  PROVE  Storage[StoreOperationId[op]] = op
  BY DEF StoreOps, StoreOperationId, Storage

(* The operation of an item says which of the forms it has.                 *)
LEMMA ItemForm ==
  ASSUME NEW Cas, NEW NoCas, NEW item \in Items(Cas, NoCas)
  PROVE  /\ item.key \in Keys
         /\ item.op \in StoreOps \cup {"arithmetic", "durability", "remove", "get"}
         /\ item.op \in StoreOps \cup {"durability", "remove"} => item.cas \in Cas
         /\ item.op \in {"arithmetic", "get"} => item.cas \in NoCas
         /\ item.op \in StoreOps => item \in StoreItems(Cas)
         /\ item.op = "arithmetic" => item \in ArithmeticItems(NoCas)
         /\ item.op = "durability" => item \in DurabilityItems(Cas)
<1> USE DEF StoreOps
<1>1. CASE item \in StoreItems(Cas)
  BY <1>1, Operations DEF StoreItems
<1>2. CASE item \in ArithmeticItems(NoCas)
  BY <1>2 DEF ArithmeticItems
<1>3. CASE item \in DurabilityItems(Cas)
  BY <1>3 DEF DurabilityItems
<1>4. CASE item \in [op : {"remove"}, key : Keys, cas : Cas]
  BY <1>4
<1>5. CASE item \in [op : {"get"}, key : Keys, cas : NoCas]
  BY <1>5
<1> QED BY <1>1, <1>2, <1>3, <1>4, <1>5 DEF Items

LEMMA StoreCommandForm ==
  ASSUME NEW item \in Items(Nat, {0}), item.op \in StoreOps
  PROVE  Command(item) = [op |-> item.op, key |-> item.key, cas |-> item.cas,
                          flags |-> EncoderId[item.enc], body |-> Encode(item)]
<1>1. Command(item) = StoreCommand(item)
  BY Operations DEF Command, StoreOps
<1>2. Storage[StoreOperationId[item.op]] = item.op
  BY StorageOfOperation
<1> QED BY <1>1, <1>2 DEF StoreCommand

(* What becomes of an item on its way to libcouchbase: nothing gets lost.   *)
LEMMA CommandForm ==
  ASSUME NEW item \in Items(Nat, {0})
  PROVE  Command(item).op = item.op /\ Command(item).key = item.key
         /\ Command(item).cas = item.cas
<1>1. /\ item.op \in StoreOps \cup {"arithmetic", "durability", "remove", "get"}
      /\ item.op \in {"arithmetic", "get"} => item.cas = 0
  BY ItemForm
<1>2. CASE item.op \in StoreOps
  BY <1>2, StoreCommandForm
<1>3. CASE item.op = "arithmetic"
  <2>1. Command(item) = ArithmeticCommand(item)
    BY <1>3, Operations DEF Command, StoreOps
  <2> QED BY <1>1, <1>3, <2>1 DEF ArithmeticCommand, StoreOps
<1>4. CASE item.op = "durability"
  <2>1. Command(item) = DurabilityCommand(item)
    BY <1>4, Operations DEF Command, StoreOps
  <2> QED BY <1>4, <2>1 DEF DurabilityCommand, StoreOps
<1>5. CASE item.op \in {"get", "remove"}
  <2>1. Command(item) = [op |-> item.op, key |-> item.key, cas |-> item.cas]
    BY <1>1, <1>5, Operations DEF Command, StoreOps
  <2> QED BY <1>5, <2>1 DEF StoreOps
<1> QED BY <1>1, <1>2, <1>3, <1>4, <1>5

LEMMA MinOfTwo ==
  ASSUME NEW a \in Int, NEW b \in Int
  PROVE  Min({a, b}) = IF a <= b THEN a ELSE b
  BY DEF Min

LEMMA MaxOfTwo ==
  ASSUME NEW a \in Int, NEW b \in Int
  PROVE  Max({a, b}) = IF a <= b THEN b ELSE a
  BY DEF Max

LEMMA UnsignedOfNonNegative ==
  ASSUME NEW p \in Int, 0 <= p, p <= 65535
  PROVE  p % 65536 = p
  OBVIOUS

LEMMA UnsignedOfNegative ==
  ASSUME NEW p \in Int, p + 1 = 0
  PROVE  p % 65536 = 65535
  OBVIOUS

LEMMA PersistToForm ==
  ASSUME NEW p \in PersistTo
  PROVE  p = -1 \/ (p \in Int /\ 0 <= p /\ p <= 65535)
  BY DEF PersistTo

(* A set of natural numbers with a bound has a largest one.                 *)
LEMMA Largest ==
  ASSUME NEW n \in Nat, NEW S, S \subseteq 0..n, S # {}
  PROVE  Max(S) \in S
<1> DEFINE gaps == {n - x : x \in S}
           less == {p \in Nat \X Nat : p[1] < p[2]}
<1>1. gaps \subseteq Nat /\ gaps # {}
  <2>1. PICK x \in S : x \in 0..n
    OBVIOUS
  <2>2. n - x \in gaps
    OBVIOUS
  <2>3. ASSUME NEW y \in S PROVE n - y \in Nat
    <3>1. y \in 0..n
      OBVIOUS
    <3> QED BY <3>1
  <2> QED BY <2>2, <2>3
<1>2. IsWellFoundedOn(less, Nat)
  BY NatLessThanWellFounded DEF OpToRel
<1>3. PICK g \in gaps : \A y \in gaps : ~ (<<y, g>> \in less)
  <2> HIDE DEF gaps, less
  <2> QED BY <1>1, <1>2, WFMin
<1>4. \A y \in gaps : y >= g
  <2> SUFFICES ASSUME NEW y \in gaps PROVE y >= g
    OBVIOUS
  <2>1. y \in Nat /\ g \in Nat
    BY <1>1
  <2>2. ~ (<<y, g>> \in less)
    BY <1>3
  <2> HIDE DEF gaps
  <2>3. y < g => <<y, g>> \in less
    BY <2>1
  <2> QED BY <2>1, <2>2, <2>3
<1>5. \A x \in S : n - g >= x
  BY <1>1, <1>4
<1>6. n - g \in S
  BY <1>3
<1> QED BY <1>5, <1>6 DEF Max

(* The servers check the CAS value and what the operation needs.            *)
LEMMA Checks ==
  ASSUME NEW cmd, NEW d, Refusal(cmd, d) = "success"
  PROVE  /\ cmd.cas # 0 => d # NoDoc /\ cmd.cas = d.cas
         /\ cmd.op = "add" => d = NoDoc
         /\ cmd.op \in {"get", "remove", "durability", "replace", "append", "prepend"}
              => d # NoDoc
         /\ cmd.op = "arithmetic" => (IF d = NoDoc THEN cmd.create ELSE IsNumber(d))
  BY DEF Refusal

(* The version that an item leaves of a document.                           *)
Outcome(item) == Refusal(Command(item), docs[item.key])

Left(item) ==
  IF Outcome(item) = "success" THEN Served(Command(item), docs[item.key])
  ELSE docs[item.key]

LEMMA EncodedForm ==
  ASSUME NEW item \in StoreItems(Nat)
  PROVE  Encode(item) \in Seq(Piece) /\ EncoderId[item.enc] \in 0..2
<1>1. item.enc \in Encoders /\ item.value \in Values
  BY DEF StoreItems
<1>2. [enc |-> item.enc, val |-> item.value] \in Piece
  BY <1>1 DEF Piece
<1>3. EncoderId[item.enc] \in 0..2
  BY <1>1 DEF EncoderId, Encoders
<1> QED BY <1>2, <1>3 DEF Encode

LEMMA NumberForm ==
  ASSUME NEW n \in Int
  PROVE  Number(n) \in Seq(Piece)
<1>1. Max({n, 0}) \in Nat
  BY MaxOfTwo
<1>2. [enc |-> "number", val |-> Max({n, 0})] \in Piece
  BY <1>1 DEF Piece
<1> QED BY <1>2 DEF Number

LEMMA IsNumberForm ==
  ASSUME NEW d \in Document, IsNumber(d)
  PROVE  d.body[1].val \in Nat
<1>1. d.body \in Seq(Piece) /\ Len(d.body) = 1 /\ d.body[1].enc = "number"
  BY DEF IsNumber, Document
<1>2. d.body[1] \in Piece
  BY <1>1, ElementOfSeq
<1> QED BY <1>1, <1>2 DEF Piece, Encoders

LEMMA DocumentForm ==
  ASSUME NEW d \in Document
  PROVE  d.cas \in Nat /\ d.flags \in 0..3 /\ d.body \in Seq(Piece)
  BY DEF Document

LEMMA NoDocForm == NoDoc \in Document /\ NoDoc.cas = 0
<1>1. <<>> \in Seq(Piece)
  BY EmptySeq
<1> QED BY <1>1 DEF NoDoc, Document

(* What a successful write puts into a document.                            *)
LEMMA NewContent ==
  ASSUME NEW item \in Items(Nat, {0}), NEW d \in Document,
         item.op \in StoreOps \cup {"arithmetic"},
         Refusal(Command(item), d) = "success"
  PROVE  /\ NewFlags(Command(item), d) \in 0..3
         /\ NewBody(Command(item), d) \in Seq(Piece)
         /\ item.op \in Writes => /\ NewFlags(Command(item), d) = EncoderId[item.enc]
                                  /\ NewBody(Command(item), d) = Encode(item)
         /\ item.op \notin Writes => NewFlags(Command(item), d) = d.flags
         /\ item.op = "append"  => NewBody(Command(item), d) = d.body \o Encode(item)
         /\ item.op = "prepend" => NewBody(Command(item), d) = Encode(item) \o d.body
<1> DEFINE cmd == Command(item)
<1>1. d.flags \in 0..3 /\ d.body \in Seq(Piece)
  BY DocumentForm
<1>2. CASE item.op \in StoreOps
  <2>1. /\ cmd.op = item.op /\ cmd.flags = EncoderId[item.enc] /\ cmd.body = Encode(item)
    BY <1>2, StoreCommandForm
  <2>2. Encode(item) \in Seq(Piece) /\ EncoderId[item.enc] \in 0..2
    BY <1>2, ItemForm, EncodedForm
  <2> HIDE DEF cmd
  <2>3. /\ NewFlags(cmd, d) \in 0..3
        /\ NewFlags(cmd, d) = IF item.op \in Writes THEN EncoderId[item.enc] ELSE d.flags
    BY <1>1, <2>1, <2>2 DEF NewFlags
  <2>4. CASE item.op \in Writes
    <3>1. NewBody(cmd, d) = cmd.body
      BY <2>1, <2>4 DEF NewBody, Writes
    <3> QED BY <2>1, <2>2, <2>3, <2>4, <3>1 DEF Writes, cmd
  <2>5. CASE item.op = "append"
    <3>1. NewBody(cmd, d) = d.body \o cmd.body
      BY <2>1, <2>5 DEF NewBody, Writes
    <3> QED BY <1>1, <2>1, <2>2, <2>3, <2>5, <3>1, ConcatProperties DEF Writes, cmd
  <2>6. CASE item.op = "prepend"
    <3>1. NewBody(cmd, d) = cmd.body \o d.body
      BY <2>1, <2>6 DEF NewBody, Writes
    <3> QED BY <1>1, <2>1, <2>2, <2>3, <2>6, <3>1, ConcatProperties DEF Writes, cmd
  <2> QED BY <1>2, <2>4, <2>5, <2>6 DEF StoreOps, Writes
<1>3. CASE item.op = "arithmetic"
  <2>1. item.delta \in Int /\ item.default \in Nat \cup {-1}
    BY <1>3, ItemForm DEF ArithmeticItems
  <2>2. cmd = ArithmeticCommand(item)
    BY <1>3, Operations DEF Command, StoreOps
  <2>3. cmd.op = "arithmetic" /\ cmd.delta \in Int /\ cmd.initial \in Nat
    BY <2>1, <2>2 DEF ArithmeticCommand
  <2>4. NewFlags(cmd, d) = d.flags
    BY <2>3 DEF NewFlags, Writes
  <2>5. d # NoDoc => d.body[1].val \in Nat
    BY <2>3, Checks, IsNumberForm
  <2>6. NewBody(cmd, d) \in Seq(Piece)
    <3>1. NewBody(cmd, d) = IF d = NoDoc THEN Number(cmd.initial)
                            ELSE Number(d.body[1].val + cmd.delta)
      BY <2>3 DEF NewBody, Writes
    <3>2. CASE d = NoDoc
      BY <2>3, <3>1, <3>2, NumberForm
    <3>3. CASE d # NoDoc
      <4>1. d.body[1].val + cmd.delta \in Int
        BY <2>3, <2>5, <3>3
      <4> QED BY <3>1, <3>3, <4>1, NumberForm
    <3> QED BY <3>2, <3>3
  <2> QED BY <1>1, <1>3, <2>4, <2>6 DEF Writes
<1> QED BY <1>2, <1>3

(* A command leaves the version it found, a new one, or none; and it        *)
(* changes a document only as its item has asked.                           *)
LEMMA LeftForm ==
  ASSUME TypeOK, NEW item \in Items(Nat, {0})
  PROVE  /\ Left(item) \in Document
         /\ \/ Left(item) = docs[item.key]
            \/ Left(item) = NoDoc /\ docs[item.key] # NoDoc /\ item.op = "remove"
            \/ Left(item).cas = lastCas + 1 /\ item.op \in StoreOps \cup {"arithmetic"}
         /\ item.op \in StoreOps \cup {"arithmetic"} /\ Outcome(item) = "success"
              => Left(item).cas = lastCas + 1
         /\ item.op \in Writes /\ Left(item) # docs[item.key]
              => /\ Left(item).flags = EncoderId[item.enc]
                 /\ Left(item).body = Encode(item)
         /\ item.op \in {"append", "prepend"}
              => Left(item).flags = docs[item.key].flags
         /\ item.op = "append" /\ Left(item) # docs[item.key]
              => Left(item).body = docs[item.key].body \o Encode(item)
         /\ item.op = "prepend" /\ Left(item) # docs[item.key]
              => Left(item).body = Encode(item) \o docs[item.key].body
<1> DEFINE cmd == Command(item)
           d == docs[item.key]
<1>1. /\ item.key \in Keys /\ d \in Document /\ lastCas \in Nat
      /\ item.op \in StoreOps \cup {"arithmetic", "durability", "remove", "get"}
      /\ cmd.op = item.op
  BY ItemForm, CommandForm DEF TypeOK
<1> HIDE DEF cmd, d
<1>2. CASE Outcome(item) # "success"
  BY <1>1, <1>2 DEF Left, d
<1>3. CASE Outcome(item) = "success"
  <2>1. Left(item) = Served(cmd, d) /\ Refusal(cmd, d) = "success"
    BY <1>3 DEF Left, Outcome, cmd, d
  <2>2. CASE item.op = "remove"
    BY <1>1, <2>1, <2>2, Checks, NoDocForm DEF Served, StoreOps, Writes, d
  <2>3. CASE item.op \in {"get", "durability"}
    BY <1>1, <2>1, <2>3 DEF Served, IsWrite, StoreOps, Writes, d
  <2>4. CASE item.op \in StoreOps \cup {"arithmetic"}
    <3>1. Left(item) = [cas |-> lastCas + 1, flags |-> NewFlags(cmd, d),
                        body |-> NewBody(cmd, d)]
      BY <1>1, <2>1, <2>4 DEF Served, IsWrite, StoreOps
    <3>2. /\ NewFlags(cmd, d) \in 0..3 /\ NewBody(cmd, d) \in Seq(Piece)
          /\ item.op \in Writes => /\ NewFlags(cmd, d) = EncoderId[item.enc]
                                   /\ NewBody(cmd, d) = Encode(item)
          /\ item.op \notin Writes => NewFlags(cmd, d) = d.flags
          /\ item.op = "append"  => NewBody(cmd, d) = d.body \o Encode(item)
          /\ item.op = "prepend" => NewBody(cmd, d) = Encode(item) \o d.body
      BY <1>1, <2>1, <2>4, NewContent DEF cmd
    <3>3. Left(item) \in Document
      BY <1>1, <3>1, <3>2 DEF Document
    <3>4. {"append", "prepend"} \cap Writes = {}
      BY DEF Writes
    <3> QED BY <1>1, <2>4, <3>1, <3>2, <3>3, <3>4 DEF d
  <2> QED BY <1>1, <2>2, <2>3, <2>4
<1> QED BY <1>2, <1>3

(* ... and only if it found what it needs.                                  *)
LEMMA LeftAsAsked ==
  ASSUME TypeOK, NEW item \in Items(Nat, {0}), Left(item) # docs[item.key]
  PROVE  /\ item.cas \in {0, docs[item.key].cas}
         /\ item.op \notin {"get", "durability"}
         /\ item.op = "add" => docs[item.key] = NoDoc
         /\ item.op \in {"replace", "append", "prepend", "remove"} => docs[item.key] # NoDoc
         /\ item.op = "arithmetic" => docs[item.key] # NoDoc \/ Command(item).create
<1>1. Refusal(Command(item), docs[item.key]) = "success"
  BY DEF Left, Outcome
<1>2. /\ Command(item).op = item.op /\ Command(item).cas = item.cas
      /\ item.op \in StoreOps \cup {"arithmetic", "durability", "remove", "get"}
  BY ItemForm, CommandForm
<1>3. item.op \notin {"get", "durability"}
  BY LeftForm, NoDocForm DEF StoreOps
<1> QED BY <1>1, <1>2, <1>3, Checks

-----------------------------------------------------------------------------
(* The queue.                                                               *)

LEMMA QueueForm ==
  ASSUME TypeOK
  PROVE  /\ Len(queue) \in Nat /\ DOMAIN queue = 1..Len(queue)
         /\ \A n \in DOMAIN queue : queue[n] \in Request
  BY LenProperties, ElementOfSeq DEF TypeOK

LEMMA RequestForm ==
  ASSUME NEW r \in Request
  PROVE  /\ r.call \in Nat /\ r.todo \subseteq Nat
         /\ r.out \in Seq(Answer) /\ DOMAIN r.out = 1..Len(r.out) /\ Len(r.out) \in Nat
         /\ \A j \in DOMAIN r.out : r.out[j] \in Answer
         /\ r.items \in Seq(Items(Nat, {0})) /\ DOMAIN r.items = 1..Len(r.items)
         /\ \A n \in DOMAIN r.items : r.items[n] \in Items(Nat, {0})
         /\ Len(r.items) \in Nat
<1>1. /\ r.call \in Nat /\ r.todo \subseteq Nat
      /\ r.out \in Seq(Answer) /\ r.items \in Seq(Items(Nat, {0}))
  BY DEF Request
<1> QED BY <1>1, LenProperties, ElementOfSeq

(* The running request.                                                     *)
LEMMA Running ==
  ASSUME TypeOK, queue # <<>>
  PROVE  /\ 1 \in DOMAIN queue /\ Head(queue) = queue[1] /\ queue[1] \in Request
         /\ queue[1].todo \subseteq DOMAIN queue[1].items
         /\ \A i \in queue[1].todo : queue[1].items[i] \in Items(Nat, {0})
<1>1. 1 \in DOMAIN queue /\ queue[1] \in Request
  BY QueueForm, EmptySeq DEF TypeOK
<1>2. queue[1].todo \subseteq DOMAIN queue[1].items
  BY <1>1 DEF TypeOK, InProgress
<1>3. Head(queue) = queue[1]
  BY DEF TypeOK
<1> QED BY <1>1, <1>2, <1>3, RequestForm

LEMMA AnsweredForm ==
  ASSUME TypeOK, queue # <<>>, NEW i \in queue[1].todo, NEW a \in Answer,
         queue' = Answered(i, a)
  PROVE  /\ queue' \in Seq(Request) /\ DOMAIN queue' = DOMAIN queue /\ queue' # <<>>
         /\ \A n \in DOMAIN queue : n # 1 => queue'[n] = queue[n]
         /\ queue'[1].call = queue[1].call /\ queue'[1].items = queue[1].items
         /\ queue'[1].todo = queue[1].todo \ {i}
         /\ queue'[1].out = Append(queue[1].out, a)
<1> DEFINE r == [queue[1] EXCEPT !.todo = queue[1].todo \ {i},
                           !.out = Append(queue[1].out, a)]
<1>1. /\ queue \in Seq(Request) /\ 1 \in 1..Len(queue) /\ queue[1] \in Request
      /\ DOMAIN queue = 1..Len(queue)
  BY Running, QueueForm DEF TypeOK
<1>2. /\ r.call = queue[1].call /\ r.items = queue[1].items
      /\ r.todo = queue[1].todo \ {i} /\ r.out = Append(queue[1].out, a)
  BY <1>1 DEF Request
<1>3. Append(queue[1].out, a) \in Seq(Answer)
  BY <1>1, RequestForm, AppendProperties
<1>4. r \in Request
  BY <1>1, <1>3 DEF Request
<1>5. queue' = [queue EXCEPT ![1] = r]
  BY DEF Answered
<1> HIDE DEF r
<1>6. queue' \in Seq(Request) /\ Len(queue') = Len(queue)
  BY <1>1, <1>4, <1>5, ExceptSeq
<1>7. \A n \in 1..Len(queue) : queue'[n] = IF n = 1 THEN r ELSE queue[n]
  BY <1>1, <1>4, <1>5, ExceptSeq
<1>8. DOMAIN queue' = 1..Len(queue)
  BY <1>6, LenProperties
<1> QED BY <1>1, <1>2, <1>6, <1>7, <1>8, EmptySeq

LEMMA TailForm ==
  ASSUME TypeOK, queue # <<>>, queue' = Tail(queue)
  PROVE  /\ queue' \in Seq(Request) /\ DOMAIN queue' = 1..(Len(queue) - 1)
         /\ \A n \in DOMAIN queue' : queue'[n] = queue[n + 1] /\ n + 1 \in DOMAIN queue
<1>1. /\ Tail(queue) \in Seq(Request) /\ Len(Tail(queue)) = Len(queue) - 1
      /\ \A n \in 1..Len(Tail(queue)) : Tail(queue)[n] = queue[n + 1]
  BY HeadTailProperties DEF TypeOK
<1> QED BY <1>1, QueueForm, LenProperties

(* What a node and the callback do with an item.                            *)
LEMMA ExecuteForm ==
  ASSUME IInv, queue # <<>>, NEW i \in Head(queue).todo, Execute(i)
  PROVE  LET item == queue[1].items[i]
             d    == docs[item.key]
             new  == Left(item)
         IN  /\ i \in queue[1].todo /\ item \in Items(Nat, {0})
             /\ \E e \in {Outcome(item), "etimedout"} :
                  queue' = Answered(i, Response(Command(item), e, new))
             /\ item.op = "durability" /\ Outcome(item) = "success"
                  => copies[item.key] >= Command(item).persist
             /\ IF new = d THEN UNCHANGED <<docs, copies, lastCas>>
                ELSE NewVersion(item.key, new)
             /\ written' = written \cup
                  IF new.cas = d.cas THEN {}
                  ELSE {[key |-> item.key, cas |-> new.cas, by |-> item.op,
                         call |-> queue[1].call, doc |-> new,
                         value |-> IF item.op \in Writes THEN item.value ELSE Other]}
             /\ UNCHANGED <<foreign, waiting, calls, seen, acks, reads>>
<1> DEFINE item == queue[1].items[i]
<1>1. Head(queue) = queue[1] /\ i \in queue[1].todo /\ item \in Items(Nat, {0})
  BY Running DEF IInv
<1>2. Command(item).op = item.op /\ Command(item).key = item.key
  BY <1>1, CommandForm
<1> HIDE DEF item
<1> QED BY <1>1, <1>2 DEF Execute, Outcome, Left, item

LEMMA ExecuteTimeoutForm ==
  ASSUME IInv, queue # <<>>, NEW i \in Head(queue).todo, ExecuteTimeout(i)
  PROVE  LET item == queue[1].items[i]
         IN  /\ i \in queue[1].todo /\ item \in Items(Nat, {0}) /\ item.op = "durability"
             /\ queue' = Answered(i, Response(Command(item), "etimedout", docs[item.key]))
             /\ UNCHANGED <<bucketVars, waiting, calls, seen, written, acks, reads>>
<1> DEFINE item == queue[1].items[i]
<1>1. Head(queue) = queue[1] /\ i \in queue[1].todo /\ item \in Items(Nat, {0})
  BY Running DEF IInv
<1>2. Command(item).op = item.op /\ Command(item).key = item.key
  BY <1>1, CommandForm
<1> HIDE DEF item
<1> QED BY <1>1, <1>2 DEF ExecuteTimeout, item

LEMMA ResponseForm ==
  ASSUME NEW item \in Items(Nat, {0}), NEW e \in Errors, NEW d \in Document
  PROVE  /\ Response(Command(item), e, d) \in Answer
         /\ Response(Command(item), e, d).key = item.key
         /\ Response(Command(item), e, d).err = e
         /\ Response(Command(item), e, d).cas = d.cas
         /\ Response(Command(item), e, d).flags = d.flags
         /\ Response(Command(item), e, d).body = d.body
<1>1. Command(item).key = item.key /\ item.key \in Keys
  BY ItemForm, CommandForm
<1> QED BY <1>1, DocumentForm DEF Response, Answer

LEMMA OutcomeForm ==
  ASSUME NEW item
  PROVE  Outcome(item) \in Errors
  BY DEF Outcome, Refusal, Errors
-----------------------------------------------------------------------------
(* What is known of a version stays true: no step writes an old one again.  *)

NoOldVersion ==
  /\ written \subseteq written' /\ lastCas' \in Nat /\ lastCas <= lastCas'
  /\ \A w \in written' \ written : w.by # "remove" => w.cas > lastCas

LEMMA CarriesStays ==
  ASSUME IInv, NoOldVersion, NEW key, NEW v, v.cas \in Nat, v.cas <= lastCas,
         Carries(key, v, written)
  PROVE  Carries(key, v, written')
<1>1. SUFFICES ASSUME NEW w \in written', w.key = key, w.cas = v.cas, w.by # "remove"
               PROVE  v.flags = w.doc.flags /\ v.body = w.doc.body
  BY DEF Carries
<1>2. lastCas \in Nat
  BY DEF IInv, TypeOK
<1>3. w \in written
  BY <1>1, <1>2 DEF NoOldVersion
<1> QED BY <1>1, <1>3 DEF Carries

LEMMA FitStays ==
  ASSUME IInv, NoOldVersion, NEW r \in Request, AnswersFit(r, written, lastCas)
  PROVE  AnswersFit(r, written', lastCas')
<1>1. SUFFICES ASSUME NEW j \in DOMAIN r.out
               PROVE  /\ r.out[j].cas <= lastCas'
                      /\ Carries(r.out[j].key, r.out[j], written')
                      /\ TellsCas(r) /\ r.out[j].err = "success" =>
                           \E w \in written' : /\ w.call = r.call /\ w.key = r.out[j].key
                                               /\ w.cas = r.out[j].cas
  BY DEF AnswersFit, TellsCas
<1>2. /\ r.out[j].cas \in Nat /\ r.out[j].cas <= lastCas /\ lastCas \in Nat
      /\ Carries(r.out[j].key, r.out[j], written)
  BY RequestForm DEF AnswersFit, IInv, TypeOK, Answer
<1>3. Carries(r.out[j].key, r.out[j], written')
  BY <1>2, CarriesStays
<1> QED BY <1>2, <1>3 DEF AnswersFit, NoOldVersion

(* Histories that only grow keep their promises.                            *)
LEMMA ReadsStay ==
  ASSUME IInv, NoOldVersion, reads' = reads
  PROVE  CasIdentifiesValue'
<1> SUFFICES ASSUME NEW r \in reads, NEW w \in written',
                    r.key = w.key, r.cas = w.cas, w.by # "remove"
             PROVE  ReadsAs(r.value, w)
  BY DEF CasIdentifiesValue, ReadsAs
<1>1. r.cas <= lastCas /\ r.cas \in Nat /\ lastCas \in Nat
  BY DEF IInv, TypeOK, Histories
<1>2. w \in written
  BY <1>1 DEF NoOldVersion
<1> QED BY <1>2 DEF IInv, CasIdentifiesValue, ReadsAs

LEMMA AcksStay ==
  ASSUME IInv, NoOldVersion, acks' = acks
  PROVE  AckNamesOwnVersion'
  BY DEF IInv, AckNamesOwnVersion, NoOldVersion

(* The queue after an answer.                                               *)
LEMMA AnsweredStep ==
  ASSUME IInv, NoOldVersion, queue # <<>>, NEW i \in queue[1].todo, NEW a \in Answer,
         queue' = Answered(i, a), calls' = calls,
         a.cas <= lastCas', Carries(a.key, a, written'),
         TellsCas(queue[1]) /\ a.err = "success" =>
           \E w \in written' : /\ w.call = queue[1].call /\ w.key = a.key /\ w.cas = a.cas
  PROVE  /\ queue' \in Seq(Request)
         /\ \A n \in DOMAIN queue' : InProgress(queue'[n])
         /\ \A n \in DOMAIN queue' : AnswersFit(queue'[n], written', lastCas')
         /\ CallsInOrder'
<1>1. /\ queue' \in Seq(Request) /\ DOMAIN queue' = DOMAIN queue
      /\ \A n \in DOMAIN queue : n # 1 => queue'[n] = queue[n]
      /\ queue'[1].call = queue[1].call /\ queue'[1].items = queue[1].items
      /\ queue'[1].todo = queue[1].todo \ {i}
      /\ queue'[1].out = Append(queue[1].out, a)
  BY AnsweredForm DEF IInv
<1>2. /\ 1 \in DOMAIN queue /\ queue[1] \in Request
      /\ \A n \in DOMAIN queue : queue[n] \in Request
      /\ InProgress(queue[1]) /\ AnswersFit(queue[1], written, lastCas)
  BY Running, QueueForm DEF IInv, TypeOK
<1>3. /\ queue[1].out \in Seq(Answer) /\ Len(queue[1].out) \in Nat
      /\ DOMAIN queue[1].out = 1..Len(queue[1].out)
      /\ DOMAIN queue[1].items = 1..Len(queue[1].items) /\ Len(queue[1].items) \in Nat
  BY <1>2, RequestForm
<1>4. /\ Len(queue'[1].out) = Len(queue[1].out) + 1
      /\ DOMAIN queue'[1].out = 1..(Len(queue[1].out) + 1)
      /\ \A j \in 1..Len(queue[1].out) : queue'[1].out[j] = queue[1].out[j]
      /\ queue'[1].out[Len(queue[1].out) + 1] = a
  BY <1>1, <1>3, AppendProperties, LenProperties
<1>5. InProgress(queue'[1])
  <2>1. IsFiniteSet(queue[1].todo)
    <3>1. IsFiniteSet(1..Len(queue[1].items))
      BY <1>3, FS_Interval
    <3>2. queue[1].todo \in SUBSET (1..Len(queue[1].items))
      BY <1>2, <1>3 DEF InProgress
    <3> QED BY <3>1, <3>2, FS_Subset
  <2>2. /\ Cardinality(queue[1].todo) \in Nat
        /\ Cardinality(queue'[1].todo) = Cardinality(queue[1].todo) - 1
    BY <1>1, <2>1, FS_CardinalityType, FS_RemoveElement
  <2> QED BY <1>1, <1>2, <1>3, <1>4, <2>2 DEF InProgress
<1>6. AnswersFit(queue'[1], written', lastCas')
  <2>2. AnswersFit(queue[1], written', lastCas')
    BY <1>2, FitStays
  <2>4. ASSUME NEW j \in DOMAIN queue'[1].out
        PROVE  /\ queue'[1].out[j].cas <= lastCas'
               /\ Carries(queue'[1].out[j].key, queue'[1].out[j], written')
               /\ TellsCas(queue'[1]) /\ queue'[1].out[j].err = "success" =>
                    \E w \in written' : /\ w.call = queue'[1].call
                                        /\ w.key = queue'[1].out[j].key
                                        /\ w.cas = queue'[1].out[j].cas
    <3>1. CASE j = Len(queue[1].out) + 1
      <4>1. queue'[1].out[j] = a
        BY <1>4, <3>1
      <4> QED BY <1>1, <4>1 DEF TellsCas
    <3>2. CASE j \in DOMAIN queue[1].out
      <4>1. queue'[1].out[j] = queue[1].out[j]
        BY <1>3, <1>4, <3>2
      <4> QED BY <1>1, <2>2, <3>2, <4>1 DEF AnswersFit, TellsCas
    <3> QED BY <1>3, <1>4, <3>1, <3>2
  <2> QED BY <1>1, <2>2, <2>4 DEF AnswersFit
<1>7. ASSUME NEW n \in DOMAIN queue, n # 1
      PROVE  InProgress(queue'[n]) /\ AnswersFit(queue'[n], written', lastCas')
  <2>1. queue[n] \in Request /\ InProgress(queue[n]) /\ AnswersFit(queue[n], written, lastCas)
    BY <1>2 DEF IInv, TypeOK
  <2>2. AnswersFit(queue[n], written', lastCas')
    BY <2>1, FitStays
  <2>3. queue'[n] = queue[n]
    BY <1>1, <1>7
  <2> QED BY <2>1, <2>2, <2>3
<1>8. CallsInOrder'
  <2>1. \A n \in DOMAIN queue : queue'[n].call = queue[n].call
    BY <1>1
  <2> QED BY <1>1, <2>1 DEF CallsInOrder, IInv
<1> QED BY <1>1, <1>5, <1>6, <1>7, <1>8

(* The bucket after an item has been executed.                              *)
LEMMA ExecuteBucket ==
  ASSUME IInv, queue # <<>>, NEW i \in Head(queue).todo, Execute(i)
  PROVE  LET item == queue[1].items[i]
             new  == Left(item)
         IN  /\ docs' = [docs EXCEPT ![item.key] = new]
             /\ lastCas' \in Nat /\ lastCas <= lastCas' /\ new.cas <= lastCas'
             /\ new.cas # docs[item.key].cas => new.cas \in {0, lastCas + 1}
             /\ new.cas = lastCas + 1 => lastCas' = lastCas + 1
             /\ copies' \in [Keys -> 0..Nodes]
<1> DEFINE item == queue[1].items[i]
           d    == docs[item.key]
           new  == Left(item)
<1>1. /\ item \in Items(Nat, {0}) /\ item.key \in Keys
      /\ IF new = d THEN UNCHANGED <<docs, copies, lastCas>> ELSE NewVersion(item.key, new)
  BY ExecuteForm, ItemForm
<1>2. /\ docs \in [Keys -> Document] /\ d \in Document /\ d.cas <= lastCas /\ d.cas \in Nat
      /\ copies \in [Keys -> 0..Nodes] /\ lastCas \in Nat
  BY <1>1, DocumentForm DEF IInv, TypeOK
<1>3. \/ new = d
      \/ new = NoDoc /\ d # NoDoc
      \/ new.cas = lastCas + 1
  BY <1>1, LeftForm DEF IInv
<1>4. NoDoc.cas = 0
  BY NoDocForm
<1> HIDE DEF item, new
<1> SUFFICES /\ docs' = [docs EXCEPT ![item.key] = new]
             /\ lastCas' \in Nat /\ lastCas <= lastCas' /\ new.cas <= lastCas'
             /\ new.cas # d.cas => new.cas \in {0, lastCas + 1}
             /\ new.cas = lastCas + 1 => lastCas' = lastCas + 1
             /\ copies' \in [Keys -> 0..Nodes]
  BY DEF item, new
<1>5. CASE new = d
  BY <1>1, <1>2, <1>5
<1>6. CASE new # d /\ new = NoDoc
  <2>1. /\ docs' = [docs EXCEPT ![item.key] = new] /\ lastCas' = lastCas
        /\ copies' = [copies EXCEPT ![item.key] = 0]
    BY <1>1, <1>6 DEF NewVersion
  <2>2. 0 \in 0..Nodes
    BY NodesAssumption
  <2>3. copies' \in [Keys -> 0..Nodes]
    BY <1>2, <2>1, <2>2
  <2> QED BY <1>2, <1>4, <1>6, <2>1, <2>3
<1>7. CASE new # d /\ new # NoDoc
  <2>1. /\ docs' = [docs EXCEPT ![item.key] = new] /\ lastCas' = new.cas
        /\ copies' = [copies EXCEPT ![item.key] = 1]
    BY <1>1, <1>7 DEF NewVersion
  <2>2. 1 \in 0..Nodes
    BY NodesAssumption
  <2>3. copies' \in [Keys -> 0..Nodes]
    BY <1>2, <2>1, <2>2
  <2>4. new.cas = lastCas + 1
    BY <1>3, <1>7
  <2> QED BY <1>2, <2>1, <2>3, <2>4
<1> QED BY <1>5, <1>6, <1>7

LEMMA ExecuteStep ==
  ASSUME IInv, queue # <<>>, NEW i \in Head(queue).todo, Execute(i)
  PROVE  IInv'
<1> DEFINE item == queue[1].items[i]
           d    == docs[item.key]
           new  == Left(item)
           w    == [key |-> item.key, cas |-> new.cas, by |-> item.op, call |-> queue[1].call,
                    doc |-> new,
                    value |-> IF item.op \in Writes THEN item.value ELSE Other]
<1>1. /\ i \in queue[1].todo /\ item \in Items(Nat, {0}) /\ item.key \in Keys
      /\ written' = written \cup IF new.cas = d.cas THEN {} ELSE {w}
      /\ UNCHANGED <<foreign, waiting, calls, seen, acks, reads>>
  BY ExecuteForm, ItemForm
<1>2. /\ docs \in [Keys -> Document] /\ d \in Document /\ d.cas <= lastCas /\ d.cas \in Nat
      /\ lastCas \in Nat /\ queue[1] \in Request /\ queue[1].call \in Nat /\ TypeOK
  BY <1>1, DocumentForm, Running, RequestForm DEF IInv, TypeOK
<1>3. /\ docs' = [docs EXCEPT ![item.key] = new]
      /\ lastCas' \in Nat /\ lastCas <= lastCas' /\ new.cas <= lastCas'
      /\ new.cas # d.cas => new.cas \in {0, lastCas + 1}
      /\ new.cas = lastCas + 1 => lastCas' = lastCas + 1
      /\ copies' \in [Keys -> 0..Nodes]
  BY ExecuteBucket
<1>4. /\ new \in Document /\ new.cas \in Nat
      /\ new = d \/ (new = NoDoc /\ item.op = "remove") \/ new.cas = lastCas + 1
      /\ item.op \in StoreOps \cup {"arithmetic"} /\ Outcome(item) = "success"
           => new.cas = lastCas + 1
      /\ item.op \in Writes /\ new # d => /\ new.flags = EncoderId[item.enc]
                                         /\ new.body = Encode(item)
      /\ new # d => item.op \in StoreOps \cup {"arithmetic", "remove"}
  BY <1>1, <1>2, LeftForm, DocumentForm
<1>5. /\ item.op \in Writes => item.value \in Values /\ item.enc \in Encoders
      /\ NoDoc.cas = 0 /\ Writes \subseteq StoreOps
  <2>1. Writes \subseteq StoreOps
    BY DEF Writes, StoreOps
  <2>2. item.op \in Writes => item \in StoreItems(Nat)
    BY <1>1, <2>1, ItemForm
  <2> QED BY <2>1, <2>2, NoDocForm DEF StoreItems
<1> HIDE DEF item, new
<1>6. new.cas # d.cas =>
        /\ w \in [key : Keys, cas : 0..lastCas',
                  by : StoreOps \cup {"arithmetic", "remove", "foreign"}, call : Nat,
                  doc : Document, value : Values \cup {Other}]
        /\ AsWritten(w) /\ (w.by # "remove" => w.cas = lastCas + 1)
  <2> SUFFICES ASSUME new.cas # d.cas
               PROVE  /\ w \in [key : Keys, cas : 0..lastCas',
                                by : StoreOps \cup {"arithmetic", "remove", "foreign"},
                                call : Nat, doc : Document, value : Values \cup {Other}]
                      /\ AsWritten(w) /\ (w.by # "remove" => w.cas = lastCas + 1)
    OBVIOUS
  <2>1. item.op \in StoreOps \cup {"arithmetic", "remove"} /\ item.op # "foreign"
    BY <1>4 DEF StoreOps
  <2>2. item.op # "remove" => new.cas = lastCas + 1
    BY <1>4
  <2>3. AsWritten(w)
    BY <1>4, <1>5, <2>1 DEF AsWritten, Encode
  <2> QED BY <1>1, <1>2, <1>3, <1>4, <1>5, <2>1, <2>2, <2>3
<1>7. NoOldVersion /\ Histories'
  <2>1. \A v \in written' \ written : v = w /\ new.cas # d.cas
    BY <1>1
  <2>2. NoOldVersion
    BY <1>1, <1>2, <1>3, <1>6, <2>1 DEF NoOldVersion
  <2>3. Histories'
    <3>1. \A v \in written' : v \in written \/ (v = w /\ new.cas # d.cas)
      BY <2>1
    <3>2. 0..lastCas \subseteq 0..lastCas' /\ lastCas + 1 # 0
      BY <1>2, <1>3
    <3>3. written' \subseteq [key : Keys, cas : 0..lastCas',
                             by : StoreOps \cup {"arithmetic", "remove", "foreign"},
                             call : Nat, doc : Document, value : Values \cup {Other}]
      BY <1>6, <3>1, <3>2 DEF IInv, Histories
    <3>4. \A v \in written' : AsWritten(v) /\ (v.by # "remove" => v.cas # 0)
      BY <1>6, <3>1, <3>2 DEF IInv, Histories
    <3> QED BY <1>1, <3>2, <3>3, <3>4 DEF IInv, Histories, AsWritten
  <2> QED BY <2>2, <2>3
<1>8. Carries(item.key, new, written')
  <2>1. CASE new = d
    BY <1>1, <1>2, <1>7, <2>1, CarriesStays DEF IInv
  <2>2. CASE new # d
    <3>1. SUFFICES ASSUME NEW v \in written', v.key = item.key, v.cas = new.cas, v.by # "remove"
                   PROVE  new.flags = v.doc.flags /\ new.body = v.doc.body
      BY DEF Carries
    <3>2. v.cas # 0
      BY <1>7, <3>1 DEF Histories
    <3>3. new.cas = lastCas + 1
      BY <1>4, <1>5, <2>2, <3>1, <3>2
    <3>4. v = w
      BY <1>1, <1>2, <3>1, <3>3 DEF IInv, Histories
    <3> QED BY <3>4
  <2> QED BY <2>1, <2>2
<1>9. \A k \in Keys : Carries(k, docs'[k], written')
  <2> TAKE k \in Keys
  <2>1. CASE k = item.key
    BY <1>2, <1>3, <1>8, <2>1
  <2>2. CASE k # item.key
    <3>1. docs'[k] = docs[k] /\ docs[k].cas \in Nat /\ docs[k].cas <= lastCas
      BY <1>2, <1>3, <2>2, DocumentForm DEF IInv, TypeOK
    <3> QED BY <1>7, <3>1, CarriesStays DEF IInv
  <2> QED BY <2>1, <2>2
<1>10. PICK e \in {Outcome(item), "etimedout"} :
         queue' = Answered(i, Response(Command(item), e, new))
  BY ExecuteForm DEF item, new
<1>11. PICK a \in Answer : /\ queue' = Answered(i, a) /\ a.key = item.key /\ a.err = e
                          /\ a.cas = new.cas /\ a.flags = new.flags /\ a.body = new.body
  <2>1. e \in Errors
    BY OutcomeForm DEF Errors
  <2> QED BY <1>1, <1>4, <1>10, <2>1, ResponseForm
<1>12. Carries(a.key, a, written')
  BY <1>8, <1>11 DEF Carries
<1>13. TellsCas(queue[1]) /\ a.err = "success" =>
         \E v \in written' : v.call = queue[1].call /\ v.key = a.key /\ v.cas = a.cas
  <2>1. SUFFICES ASSUME TellsCas(queue[1]), a.err = "success"
                 PROVE  w \in written' /\ w.call = queue[1].call /\ w.key = a.key
                        /\ w.cas = a.cas
    OBVIOUS
  <2>2. Outcome(item) = "success"
    BY <1>10, <1>11, <2>1
  <2>3. item.op \in StoreOps \cup {"arithmetic"}
    <3>1. Function(item) = Function(queue[1].items[1])
      BY <1>1, <1>2, Running DEF IInv, AnswersFit, item
    <3>2. item.op \in StoreOps \cup {"arithmetic", "durability", "remove", "get"}
      BY <1>1, ItemForm
    <3> QED BY <2>1, <3>1, <3>2, Operations DEF Function, TellsCas, StoreOps
  <2> QED BY <1>1, <1>2, <1>4, <1>11, <2>2, <2>3
<1>14. /\ queue' \in Seq(Request)
       /\ \A n \in DOMAIN queue' : InProgress(queue'[n])
       /\ \A n \in DOMAIN queue' : AnswersFit(queue'[n], written', lastCas')
       /\ CallsInOrder'
  BY <1>1, <1>3, <1>7, <1>11, <1>12, <1>13, AnsweredStep
<1>15. \A n \in DOMAIN queue' : queue'[n].call <= calls'
  <2>1. \A n \in DOMAIN queue : queue[n].call <= calls
    BY <1>2 DEF TypeOK
  <2> QED BY <1>1, <1>2, <1>11, <2>1, AnsweredForm
<1>16. TypeOK'
  <2>1. docs' \in [Keys -> Document]
    BY <1>2, <1>3, <1>4
  <2>2. \A k \in Keys : docs'[k].cas <= lastCas' /\ (docs'[k].cas = 0 <=> docs'[k] = NoDoc)
    <3> TAKE k \in Keys
    <3>1. docs[k].cas <= lastCas /\ docs[k].cas \in Nat /\ (docs[k].cas = 0 <=> docs[k] = NoDoc)
      BY <1>2, DocumentForm DEF TypeOK
    <3>2. new.cas = 0 <=> new = NoDoc
      BY <1>1, <1>2, <1>4, <1>5 DEF TypeOK
    <3> QED BY <1>2, <1>3, <3>1, <3>2
  <2>3. seen' \in [Processes -> [Keys -> 0..lastCas']]
    <3>1. 0..lastCas \subseteq 0..lastCas'
      BY <1>2, <1>3
    <3> QED BY <1>1, <1>2, <3>1 DEF TypeOK
  <2> QED BY <1>1, <1>2, <1>3, <1>14, <1>15, <2>1, <2>2, <2>3 DEF TypeOK
<1>17. CasIdentifiesValue' /\ AckNamesOwnVersion'
  BY <1>1, <1>7, ReadsStay, AcksStay
<1> QED BY <1>7, <1>9, <1>14, <1>16, <1>17 DEF IInv

LEMMA ExecuteTimeoutStep ==
  ASSUME IInv, queue # <<>>, NEW i \in Head(queue).todo, ExecuteTimeout(i)
  PROVE  IInv'
<1> DEFINE item == queue[1].items[i]
           d    == docs[item.key]
<1>1. /\ i \in queue[1].todo /\ item \in Items(Nat, {0}) /\ item.key \in Keys
      /\ queue' = Answered(i, Response(Command(item), "etimedout", d))
      /\ UNCHANGED <<docs, copies, lastCas, foreign, waiting, calls, seen, written, acks, reads>>
  BY ExecuteTimeoutForm, ItemForm DEF bucketVars
<1>2. /\ d \in Document /\ d.cas <= lastCas /\ lastCas \in Nat
      /\ Carries(item.key, d, written) /\ TypeOK
  BY <1>1 DEF IInv, TypeOK
<1> HIDE DEF item
<1>3. PICK a \in Answer : /\ queue' = Answered(i, a) /\ a.key = item.key /\ a.err = "etimedout"
                         /\ a.cas = d.cas /\ a.flags = d.flags /\ a.body = d.body
  BY <1>1, <1>2, ResponseForm DEF Errors
<1>4. NoOldVersion
  BY <1>1, <1>2 DEF NoOldVersion
<1>5. Carries(a.key, a, written')
  BY <1>1, <1>2, <1>3 DEF Carries
<1>6. /\ queue' \in Seq(Request)
      /\ \A n \in DOMAIN queue' : InProgress(queue'[n])
      /\ \A n \in DOMAIN queue' : AnswersFit(queue'[n], written', lastCas')
      /\ CallsInOrder'
  BY <1>1, <1>2, <1>3, <1>4, <1>5, AnsweredStep
<1>7. \A n \in DOMAIN queue' : queue'[n].call <= calls'
  <2>1. \A n \in DOMAIN queue : queue[n].call <= calls
    BY <1>2 DEF TypeOK
  <2> QED BY <1>1, <1>2, <1>3, <2>1, AnsweredForm
<1>8. TypeOK'
  BY <1>1, <1>2, <1>6, <1>7 DEF TypeOK
<1>9. Histories' /\ \A k \in Keys : Carries(k, docs'[k], written')
  BY <1>1 DEF IInv, Histories, AsWritten
<1> QED BY <1>1, <1>4, <1>6, <1>8, <1>9, ReadsStay, AcksStay DEF IInv

(* The other steps leave written versions as they are.                      *)
LEMMA TailStep ==
  ASSUME IInv, queue # <<>>, queue' = Tail(queue), UNCHANGED <<written, lastCas, calls>>
  PROVE  /\ queue' \in Seq(Request)
         /\ \A n \in DOMAIN queue' : queue'[n].call <= calls' /\ InProgress(queue'[n])
         /\ \A n \in DOMAIN queue' : AnswersFit(queue'[n], written', lastCas')
         /\ CallsInOrder'
<1>1. /\ queue' \in Seq(Request) /\ DOMAIN queue' = 1..(Len(queue) - 1)
      /\ \A n \in DOMAIN queue' : queue'[n] = queue[n + 1] /\ n + 1 \in DOMAIN queue
  BY TailForm DEF IInv
<1>2. CallsInOrder'
  <2> SUFFICES ASSUME NEW m \in DOMAIN queue', NEW n \in DOMAIN queue', m < n
               PROVE  queue'[m].call < queue'[n].call
    BY DEF CallsInOrder
  <2>1. m + 1 < n + 1 /\ m + 1 \in DOMAIN queue /\ n + 1 \in DOMAIN queue
    BY <1>1
  <2> QED BY <1>1, <2>1 DEF IInv, CallsInOrder
<1>3. \A n \in DOMAIN queue : /\ queue[n].call <= calls /\ InProgress(queue[n])
                             /\ AnswersFit(queue[n], written, lastCas)
  BY DEF IInv, TypeOK
<1> QED BY <1>1, <1>2, <1>3

LEMMA LearnForm ==
  ASSUME IInv, NEW p \in Processes, NEW r \in Request, AnswersFit(r, written, lastCas),
         Learn(p, r)
  PROVE  seen' \in [Processes -> [Keys -> 0..lastCas]]
<1> DEFINE told(k) == {r.out[j].cas : j \in {n \in Successes(r) : r.out[n].key = k}}
           new(k)  == Max({seen[p][k]} \cup told(k))
<1>1. seen \in [Processes -> [Keys -> 0..lastCas]] /\ lastCas \in Nat
  BY DEF IInv, TypeOK
<1>2. ASSUME NEW k \in Keys
      PROVE  new(k) \in 0..lastCas
  <2>1. \A j \in Successes(r) : r.out[j].cas \in 0..lastCas
    BY RequestForm, <1>1 DEF Successes, AnswersFit, Answer
  <2>2. {seen[p][k]} \cup told(k) \subseteq 0..lastCas
    BY <1>1, <2>1
  <2> HIDE DEF told
  <2>3. new(k) \in {seen[p][k]} \cup told(k)
    BY <1>1, <2>2, Largest
  <2> QED BY <2>2, <2>3
<1>3. seen' = [seen EXCEPT ![p] = [k \in Keys |-> new(k)]]
  BY DEF Learn
<1> HIDE DEF new
<1> QED BY <1>1, <1>2, <1>3

(* encode/2, the flags and decode/2 fit together.                           *)
LEMMA DecodeEncode ==
  ASSUME NEW enc \in Encoders, NEW v
  PROVE  Decode(EncoderId[enc], <<[enc |-> enc, val |-> v]>>) = {v}
<1>1. CASE enc = "none"
  BY <1>1 DEF Decode, EncoderId
<1>2. CASE enc = "json"
  BY <1>2 DEF Decode, EncoderId
<1>3. CASE enc = "raw"
  BY <1>3 DEF Decode, EncoderId
<1> QED BY <1>1, <1>2, <1>3 DEF Encoders

LEMMA DecodeForeign ==
  ASSUME NEW flags \in {0, 3}, NEW v
  PROVE  Decode(flags, <<[enc |-> "none", val |-> v]>>) = {IF flags = 0 THEN v ELSE Crash}
<1>1. CASE flags = 0
  BY <1>1 DEF Decode
<1>2. CASE flags = 3
  BY <1>2 DEF Decode
<1> QED BY <1>1, <1>2

(* What bulk_get/3 returns is what was written under that CAS value.        *)
LEMMA ResultsFit ==
  ASSUME IInv, NEW r \in Request, AnswersFit(r, written, lastCas), NEW f \in Decodings(r),
         NEW x \in Results(r, f)
  PROVE  /\ x \in [key : Keys, cas : 0..lastCas, value : Values \cup {Other, Crash}]
         /\ \A w \in written : x.key = w.key /\ x.cas = w.cas /\ w.by # "remove"
              => ReadsAs(x.value, w)
<1>1. PICK j \in Successes(r) : x = [key |-> r.out[j].key, cas |-> r.out[j].cas, value |-> f[j]]
  BY DEF Results
<1>2. /\ j \in DOMAIN r.out /\ r.out[j].key \in Keys /\ r.out[j].cas \in 0..lastCas
      /\ Carries(r.out[j].key, r.out[j], written)
  BY RequestForm DEF Successes, AnswersFit, Answer, IInv, TypeOK
<1>3. /\ f[j] \in Values \cup {Other, Crash}
      /\ f[j] \in Decode(r.out[j].flags, r.out[j].body)
  BY DEF Decodings
<1>4. ASSUME NEW w \in written, x.key = w.key, x.cas = w.cas, w.by # "remove"
      PROVE  ReadsAs(x.value, w)
  <2>1. x.value \in Decode(w.doc.flags, w.doc.body)
    BY <1>1, <1>2, <1>3, <1>4 DEF Carries
  <2>2. AsWritten(w)
    BY DEF IInv, Histories
  <2>3. ASSUME w.by \in Writes PROVE x.value = w.value
    <3>1. PICK enc \in Encoders : /\ w.doc.flags = EncoderId[enc]
                                 /\ w.doc.body = <<[enc |-> enc, val |-> w.value]>>
      BY <2>2, <2>3 DEF AsWritten
    <3>2. Decode(w.doc.flags, w.doc.body) = {w.value}
      BY <3>1, DecodeEncode
    <3> QED BY <2>1, <3>2
  <2>4. ASSUME w.by = "foreign" PROVE x.value = IF w.doc.flags = 0 THEN w.value ELSE Crash
    <3>1. w.doc.flags \in {0, 3} /\ w.doc.body = <<[enc |-> "none", val |-> w.value]>>
      BY <2>2, <2>4 DEF AsWritten
    <3>2. Decode(w.doc.flags, w.doc.body) = {IF w.doc.flags = 0 THEN w.value ELSE Crash}
      BY <3>1, DecodeForeign
    <3> QED BY <2>1, <3>2
  <2> QED BY <2>1, <2>3, <2>4 DEF ReadsAs
<1> QED BY <1>1, <1>2, <1>3, <1>4

LEMMA ReturnStep ==
  ASSUME IInv, NEW p \in Processes, NEW r \in Request, AnswersFit(r, written, lastCas),
         Return(p, r), UNCHANGED <<bucketVars, calls, written>>
  PROVE  /\ Histories' /\ CasIdentifiesValue' /\ AckNamesOwnVersion'
         /\ waiting' \in [Processes -> 0..calls]
         /\ seen' \in [Processes -> [Keys -> 0..lastCas]]
<1>1. waiting' \in [Processes -> 0..calls] /\ seen' \in [Processes -> [Keys -> 0..lastCas]]
  BY LearnForm DEF Return, IInv, TypeOK
<1>2. lastCas' = lastCas /\ written' = written
  BY DEF bucketVars
<1>3. CASE r.items[1].op = "get"
  <2>1. PICK f \in Decodings(r) : reads' = reads \cup Results(r, f) /\ acks' = acks
    BY <1>3 DEF Return
  <2>2. \A x \in Results(r, f) :
          /\ x \in [key : Keys, cas : 0..lastCas, value : Values \cup {Other, Crash}]
          /\ \A w \in written : x.key = w.key /\ x.cas = w.cas /\ w.by # "remove"
               => ReadsAs(x.value, w)
    BY ResultsFit
  <2>3. Histories'
    BY <1>2, <2>1, <2>2 DEF IInv, Histories, AsWritten
  <2>4. CasIdentifiesValue'
    BY <1>2, <2>1, <2>2 DEF IInv, CasIdentifiesValue, ReadsAs
  <2>5. AckNamesOwnVersion'
    BY <1>2, <2>1 DEF IInv, AckNamesOwnVersion
  <2> QED BY <1>1, <2>3, <2>4, <2>5
<1>4. CASE r.items[1].op # "get"
  <2> DEFINE new == IF r.items[1].op \in {"remove", "durability"} THEN {}
                    ELSE {[call |-> r.call, key |-> r.out[j].key, cas |-> r.out[j].cas] :
                            j \in Successes(r)}
  <2>1. reads' = reads /\ acks' = acks \cup new
    BY <1>4 DEF Return
  <2>2. ASSUME NEW a \in new
        PROVE  /\ a \in [call : Nat, key : Keys, cas : Nat]
               /\ \E w \in written : w.call = a.call /\ w.key = a.key /\ w.cas = a.cas
    <3>1. TellsCas(r)
      BY <1>4, <2>2 DEF TellsCas
    <3>2. PICK j \in Successes(r) :
            a = [call |-> r.call, key |-> r.out[j].key, cas |-> r.out[j].cas]
      BY <2>2
    <3>3. j \in DOMAIN r.out /\ r.out[j].err = "success" /\ r.call \in Nat
          /\ r.out[j].key \in Keys /\ r.out[j].cas \in Nat
      BY RequestForm DEF Successes, Answer
    <3>4. \E w \in written : w.call = r.call /\ w.key = r.out[j].key /\ w.cas = r.out[j].cas
      BY <3>1, <3>3 DEF AnswersFit
    <3> QED BY <3>2, <3>3, <3>4
  <2> HIDE DEF new
  <2>3. Histories'
    BY <1>2, <2>1, <2>2 DEF IInv, Histories, AsWritten
  <2>4. CasIdentifiesValue'
    BY <1>2, <2>1 DEF IInv, CasIdentifiesValue
  <2>5. AckNamesOwnVersion'
    BY <1>2, <2>1, <2>2 DEF IInv, AckNamesOwnVersion
  <2> QED BY <1>1, <2>3, <2>4, <2>5
<1> QED BY <1>3, <1>4

LEMMA ReplyStep ==
  ASSUME IInv, Reply
  PROVE  IInv'
<1> DEFINE r == Head(queue)
<1>1. /\ queue # <<>> /\ queue' = Tail(queue) /\ UNCHANGED <<bucketVars, calls, written>>
      /\ \/ \E p \in Processes : Return(p, r)
         \/ UNCHANGED <<waiting, seen, acks, reads>>
  BY DEF Reply
<1>2. r \in Request /\ AnswersFit(r, written, lastCas)
  BY <1>1, Running DEF IInv
<1>3. UNCHANGED <<docs, copies, lastCas, foreign>>
  BY <1>1 DEF bucketVars
<1> HIDE DEF r
<1>4. /\ Histories' /\ CasIdentifiesValue' /\ AckNamesOwnVersion'
      /\ waiting' \in [Processes -> 0..calls]
      /\ seen' \in [Processes -> [Keys -> 0..lastCas]]
  <2>1. CASE \E p \in Processes : Return(p, r)
    BY <1>1, <1>2, <2>1, ReturnStep
  <2>2. CASE UNCHANGED <<waiting, seen, acks, reads>>
    BY <1>1, <1>3, <2>2
       DEF IInv, TypeOK, Histories, AsWritten, CasIdentifiesValue, AckNamesOwnVersion
  <2> QED BY <1>1, <2>1, <2>2
<1>5. /\ queue' \in Seq(Request)
      /\ \A n \in DOMAIN queue' : queue'[n].call <= calls' /\ InProgress(queue'[n])
      /\ \A n \in DOMAIN queue' : AnswersFit(queue'[n], written', lastCas')
      /\ CallsInOrder'
  BY <1>1, <1>3, TailStep
<1>6. TypeOK'
  BY <1>1, <1>3, <1>4, <1>5 DEF IInv, TypeOK
<1>7. \A k \in Keys : Carries(k, docs'[k], written')
  BY <1>1, <1>3 DEF IInv
<1> QED BY <1>4, <1>5, <1>6, <1>7 DEF IInv

LEMMA ReplyErrorStep ==
  ASSUME IInv, ReplyError
  PROVE  IInv'
<1>1. /\ queue # <<>> /\ queue' = Tail(queue)
      /\ UNCHANGED <<docs, copies, lastCas, foreign, calls, seen, written, acks, reads>>
  BY DEF ReplyError, bucketVars
<1>2. waiting' \in [Processes -> 0..calls]
  <2>1. \A p \in Processes : waiting[p] \in 0..calls /\ 0 \in 0..calls
    BY DEF IInv, TypeOK
  <2> QED BY <2>1 DEF ReplyError
<1>3. /\ queue' \in Seq(Request)
      /\ \A n \in DOMAIN queue' : queue'[n].call <= calls' /\ InProgress(queue'[n])
      /\ \A n \in DOMAIN queue' : AnswersFit(queue'[n], written', lastCas')
      /\ CallsInOrder'
  BY <1>1, TailStep
<1>4. TypeOK'
  BY <1>1, <1>2, <1>3 DEF IInv, TypeOK
<1>5. Histories' /\ CasIdentifiesValue' /\ AckNamesOwnVersion'
  BY <1>1 DEF IInv, Histories, AsWritten, CasIdentifiesValue, AckNamesOwnVersion
<1>6. \A k \in Keys : Carries(k, docs'[k], written')
  BY <1>1 DEF IInv
<1> QED BY <1>3, <1>4, <1>5, <1>6 DEF IInv

LEMMA WithCasForm ==
  ASSUME TypeOK, NEW p \in Processes, NEW item \in Items(BOOLEAN, {FALSE})
  PROVE  WithCas(p, item) \in Items(Nat, {0}) /\ WithCas(p, item).op = item.op
<1> DEFINE c == IF item.cas THEN seen[p][item.key] ELSE 0
           new == WithCas(p, item)
<1>1. item.key \in Keys
  BY ItemForm
<1>2. c \in Nat
  BY <1>1 DEF TypeOK
<1>3. new = [item EXCEPT !.cas = c]
  BY DEF WithCas
<1> HIDE DEF c, new
<1>4. CASE item \in StoreItems(BOOLEAN)
  <2>1. new \in StoreItems(Nat) /\ new.op = item.op
    BY <1>2, <1>3, <1>4, Operations DEF StoreItems
  <2> QED BY <2>1 DEF Items, new
<1>5. CASE item \in ArithmeticItems({FALSE})
  <2>1. c = 0
    BY <1>5 DEF ArithmeticItems, c
  <2>2. new \in ArithmeticItems({0}) /\ new.op = item.op
    BY <2>1, <1>3, <1>5 DEF ArithmeticItems
  <2> QED BY <2>2 DEF Items, new
<1>6. CASE item \in DurabilityItems(BOOLEAN)
  <2>1. new \in DurabilityItems(Nat) /\ new.op = item.op
    BY <1>2, <1>3, <1>6 DEF DurabilityItems
  <2> QED BY <2>1 DEF Items, new
<1>7. CASE item \in [op : {"remove"}, key : Keys, cas : BOOLEAN]
  <2>1. new \in [op : {"remove"}, key : Keys, cas : Nat] /\ new.op = item.op
    BY <1>2, <1>3, <1>7
  <2> QED BY <2>1 DEF Items, new
<1>8. CASE item \in [op : {"get"}, key : Keys, cas : {FALSE}]
  <2>1. c = 0
    BY <1>8 DEF c
  <2>2. new \in [op : {"get"}, key : Keys, cas : {0}] /\ new.op = item.op
    BY <2>1, <1>3, <1>8
  <2> QED BY <2>2 DEF Items, new
<1> QED BY <1>4, <1>5, <1>6, <1>7, <1>8 DEF Items

LEMMA CallStep ==
  ASSUME IInv, NEW p \in Processes, NEW items \in Workload, Call(p, items)
  PROVE  IInv'
<1> DEFINE new == [i \in DOMAIN items |-> WithCas(p, items[i])]
           r   == [call |-> calls + 1, todo |-> DOMAIN items, out |-> <<>>, items |-> new]
<1>1. /\ calls < MaxCalls /\ calls' = calls + 1 /\ queue' = Append(queue, r)
      /\ waiting' = [waiting EXCEPT ![p] = calls + 1]
      /\ UNCHANGED <<docs, copies, lastCas, foreign, seen, written, acks, reads>>
  BY DEF Call, bucketVars
<1>2. /\ items \in Seq(Items(BOOLEAN, {FALSE})) /\ items # <<>>
      /\ \A i \in DOMAIN items : Function(items[i]) = Function(items[1])
  BY WorkloadAssumption
<1>3. /\ DOMAIN items = 1..Len(items) /\ Len(items) \in Nat /\ 1 \in DOMAIN items
      /\ \A i \in DOMAIN items : items[i] \in Items(BOOLEAN, {FALSE})
  BY <1>2, LenProperties, ElementOfSeq, EmptySeq
<1>4. \A i \in DOMAIN items : new[i] \in Items(Nat, {0}) /\ new[i].op = items[i].op
  BY <1>3, WithCasForm DEF IInv
<1>5. new \in [1..Len(items) -> Items(Nat, {0})] /\ new \in Seq(Items(Nat, {0}))
      /\ Len(new) = Len(items)
  <2> HIDE DEF new
  <2>1. new \in [1..Len(items) -> Items(Nat, {0})]
    <3>1. DOMAIN new = 1..Len(items) /\ new = [i \in 1..Len(items) |-> new[i]]
      BY <1>3 DEF new
    <3> QED BY <1>3, <1>4, <3>1
  <2>2. new \in Seq(Items(Nat, {0}))
    BY <1>3, <2>1, SeqDef
  <2>3. DOMAIN new = 1..Len(new) /\ Len(new) \in Nat
    BY <2>2, LenProperties
  <2> QED BY <1>3, <2>1, <2>2, <2>3
<1>6. /\ calls \in Nat /\ MaxCalls \in Nat /\ calls + 1 \in 0..MaxCalls /\ queue \in Seq(Request)
      /\ Len(queue) \in Nat /\ DOMAIN queue = 1..Len(queue)
  BY <1>1, MaxCallsAssumption, QueueForm DEF IInv, TypeOK
<1>7. r \in Request
  <2>1. <<>> \in Seq(Answer)
    BY EmptySeq
  <2>2. DOMAIN items \in SUBSET Nat
    BY <1>3
  <2> HIDE DEF new
  <2> QED BY <1>5, <1>6, <2>1, <2>2 DEF Request
<1>8. InProgress(r)
  <2>1. Cardinality(1..Len(items)) = Len(items)
    BY <1>3, FS_Interval
  <2>2. Len(<<>>) = 0 /\ DOMAIN new = DOMAIN items
    OBVIOUS
  <2> HIDE DEF new
  <2> QED BY <1>3, <1>5, <2>1, <2>2 DEF InProgress
<1>9. AnswersFit(r, written, lastCas)
  <2>1. \A i \in DOMAIN items : Function(new[i]) = Function(items[i])
    BY <1>4 DEF Function
  <2>2. new # <<>> /\ DOMAIN new = DOMAIN items
    BY <1>3, <1>5, EmptySeq
  <2>3. \A i \in DOMAIN new : Function(new[i]) = Function(new[1])
    BY <1>2, <1>3, <2>1, <2>2
  <2>4. DOMAIN r.out = {}
    OBVIOUS
  <2> HIDE DEF new
  <2> QED BY <2>2, <2>3, <2>4 DEF AnswersFit
<1> HIDE DEF new, r
<1>10. /\ queue' \in Seq(Request) /\ DOMAIN queue' = 1..(Len(queue) + 1)
       /\ \A n \in 1..Len(queue) : queue'[n] = queue[n]
       /\ queue'[Len(queue) + 1] = r
  BY <1>1, <1>6, <1>7, AppendProperties, LenProperties
<1>11. r.call = calls + 1
  BY DEF r
<1>12. \A n \in DOMAIN queue' : /\ queue'[n].call <= calls' /\ InProgress(queue'[n])
                               /\ AnswersFit(queue'[n], written', lastCas')
  <2> TAKE n \in DOMAIN queue'
  <2>1. CASE n = Len(queue) + 1
    BY <1>1, <1>6, <1>8, <1>9, <1>10, <1>11, <2>1
  <2>2. CASE n \in DOMAIN queue
    <3>1. /\ queue[n].call <= calls /\ InProgress(queue[n]) /\ queue[n].call \in Nat
          /\ AnswersFit(queue[n], written, lastCas)
      BY <2>2, QueueForm, RequestForm DEF IInv, TypeOK
    <3> QED BY <1>1, <1>6, <1>10, <2>2, <3>1
  <2> QED BY <1>6, <1>10, <2>1, <2>2
<1>13. CallsInOrder'
  <2> SUFFICES ASSUME NEW m \in DOMAIN queue', NEW n \in DOMAIN queue', m < n
               PROVE  queue'[m].call < queue'[n].call
    BY DEF CallsInOrder
  <2>1. m \in DOMAIN queue /\ queue'[m] = queue[m]
    BY <1>6, <1>10
  <2>2. queue[m].call <= calls /\ queue[m].call \in Nat
    BY <2>1, QueueForm, RequestForm DEF IInv, TypeOK
  <2>3. CASE n = Len(queue) + 1
    BY <1>6, <1>10, <1>11, <2>1, <2>2, <2>3
  <2>4. CASE n \in DOMAIN queue
    BY <1>6, <1>10, <2>1, <2>4 DEF IInv, CallsInOrder
  <2> QED BY <1>6, <1>10, <2>3, <2>4
<1>14. waiting' \in [Processes -> 0..calls']
  <2>1. waiting \in [Processes -> 0..calls] /\ 0..calls \subseteq 0..calls' /\ calls + 1 \in 0..calls'
    BY <1>1, <1>6 DEF IInv, TypeOK
  <2> QED BY <1>1, <2>1
<1>15. TypeOK'
  BY <1>1, <1>6, <1>10, <1>12, <1>14 DEF IInv, TypeOK
<1>16. /\ Histories' /\ CasIdentifiesValue' /\ AckNamesOwnVersion'
       /\ \A k \in Keys : Carries(k, docs'[k], written')
  BY <1>1 DEF IInv, Histories, AsWritten, CasIdentifiesValue, AckNamesOwnVersion
<1> QED BY <1>12, <1>13, <1>15, <1>16 DEF IInv

LEMMA TimeoutStep ==
  ASSUME IInv, NEW p \in Processes, Timeout(p)
  PROVE  IInv'
<1>1. /\ waiting' = [waiting EXCEPT ![p] = 0]
      /\ UNCHANGED <<docs, copies, lastCas, foreign, queue, calls, seen, written, acks, reads>>
  BY DEF Timeout, bucketVars
<1>2. TypeOK'
  BY <1>1 DEF IInv, TypeOK
<1> QED BY <1>1, <1>2
       DEF IInv, Histories, AsWritten, CallsInOrder, CasIdentifiesValue, AckNamesOwnVersion

LEMMA PersistStep ==
  ASSUME IInv, NEW k \in Keys, Persist(k)
  PROVE  IInv'
<1>1. /\ copies[k] < Nodes /\ copies' = [copies EXCEPT ![k] = @ + 1]
      /\ UNCHANGED <<docs, lastCas, foreign, queue, waiting, calls, seen, written, acks, reads>>
  BY DEF Persist, callVars
<1>2. copies' \in [Keys -> 0..Nodes]
  <2>1. copies \in [Keys -> 0..Nodes] /\ copies[k] + 1 \in 0..Nodes
    <3>1. Nodes \in Nat
      BY NodesAssumption
    <3>2. copies \in [Keys -> 0..Nodes]
      BY DEF IInv, TypeOK
    <3>3. copies[k] \in 0..Nodes /\ copies[k] < Nodes
      BY <1>1, <3>2
    <3> QED BY <3>1, <3>2, <3>3
  <2> QED BY <1>1, <2>1
<1>3. TypeOK'
  BY <1>1, <1>2 DEF IInv, TypeOK
<1> QED BY <1>1, <1>3
       DEF IInv, Histories, AsWritten, CallsInOrder, CasIdentifiesValue, AckNamesOwnVersion

LEMMA ForeignStep ==
  ASSUME IInv, NEW k \in Keys, NEW v \in Values, ForeignStore(k, v)
  PROVE  IInv'
<1> DEFINE D(flags) == [cas |-> lastCas + 1, flags |-> flags, body |-> <<[enc |-> "none", val |-> v]>>]
           W(doc)   == [key |-> k, cas |-> lastCas + 1, by |-> "foreign", call |-> 0,
                        doc |-> doc, value |-> v]
<1>1. PICK d \in {D(0), D(3)} : NewVersion(k, d) /\ written' = written \cup {W(d)}
  BY DEF ForeignStore
<1> DEFINE w == W(d)
<1>2. /\ foreign < MaxForeign /\ foreign' = foreign + 1 /\ written' = written \cup {w}
      /\ UNCHANGED <<queue, waiting, calls, seen, acks, reads>>
  BY <1>1 DEF ForeignStore, callVars
<1>3. lastCas \in Nat /\ foreign' \in 0..MaxForeign
  BY <1>2, MaxForeignAssumption DEF IInv, TypeOK
<1>4. /\ d \in Document /\ d # NoDoc /\ d.cas = lastCas + 1
      /\ d.flags \in {0, 3} /\ d.body = <<[enc |-> "none", val |-> v]>>
  <2>1. [enc |-> "none", val |-> v] \in Piece
    BY DEF Piece, Encoders
  <2>2. d.cas = lastCas + 1 /\ d.flags \in {0, 3} /\ d.body = <<[enc |-> "none", val |-> v]>>
    <3>1. CASE d = D(0)
      BY <3>1
    <3>2. CASE d = D(3)
      BY <3>2
    <3> QED BY <1>1, <3>1, <3>2
  <2>3. <<[enc |-> "none", val |-> v]>> \in Seq(Piece)
    BY <2>1
  <2>4. \A f \in 0..3 : D(f) \in Document
    BY <1>3, <2>3 DEF Document
  <2>5. d \in Document
    BY <1>1, <2>4
  <2> QED BY <1>3, <2>2, <2>5, NoDocForm
<1>5. /\ docs' = [docs EXCEPT ![k] = d] /\ lastCas' = lastCas + 1
      /\ copies' = [copies EXCEPT ![k] = 1] /\ d.cas = lastCas + 1
  BY <1>1, <1>4 DEF NewVersion
<1> HIDE DEF D
<1>6. NoOldVersion /\ w \in written'
  BY <1>2, <1>3, <1>5 DEF NoOldVersion
<1>7. Histories'
  <2>1. AsWritten(w)
    BY <1>4 DEF AsWritten, Writes
  <2>2. 0..lastCas \subseteq 0..lastCas' /\ lastCas + 1 \in 0..lastCas' /\ lastCas + 1 # 0
    BY <1>3, <1>5
  <2>3. \A x \in written' : AsWritten(x) /\ (x.by # "remove" => x.cas # 0)
    BY <1>2, <2>1, <2>2 DEF IInv, Histories
  <2>4. written' \subseteq [key : Keys, cas : 0..lastCas',
                           by : StoreOps \cup {"arithmetic", "remove", "foreign"},
                           call : Nat, doc : Document, value : Values \cup {Other}]
    BY <1>2, <1>4, <2>2 DEF IInv, Histories
  <2> QED BY <1>2, <2>2, <2>3, <2>4 DEF IInv, Histories, AsWritten
<1>8. \A m \in Keys : Carries(m, docs'[m], written')
  <2> TAKE m \in Keys
  <2>1. docs \in [Keys -> Document] /\ docs[m].cas \in Nat /\ docs[m].cas <= lastCas
    BY DocumentForm DEF IInv, TypeOK
  <2>2. CASE m = k
    <3>1. docs'[m] = d
      BY <1>5, <2>1, <2>2
    <3>2. \A x \in written' : x = w \/ x.cas <= lastCas
      BY <1>2, <1>3 DEF IInv, Histories
    <3> QED BY <1>3, <1>5, <3>1, <3>2 DEF Carries
  <2>3. CASE m # k
    <3>1. docs'[m] = docs[m]
      BY <1>5, <2>1, <2>3
    <3> QED BY <1>6, <2>1, <3>1, CarriesStays DEF IInv
  <2> QED BY <2>2, <2>3
<1>9. \A n \in DOMAIN queue' : AnswersFit(queue'[n], written', lastCas')
  BY <1>2, <1>6, QueueForm, FitStays DEF IInv
<1>10. TypeOK'
  <2>1. docs' \in [Keys -> Document] /\ copies' \in [Keys -> 0..Nodes]
    <3>1. 1 \in 0..Nodes
      BY NodesAssumption
    <3> QED BY <1>4, <1>5, <3>1 DEF IInv, TypeOK
  <2>2. \A m \in Keys : docs'[m].cas <= lastCas' /\ (docs'[m].cas = 0 <=> docs'[m] = NoDoc)
    <3> TAKE m \in Keys
    <3>1. /\ docs[m].cas <= lastCas /\ docs[m].cas \in Nat
          /\ (docs[m].cas = 0 <=> docs[m] = NoDoc) /\ docs \in [Keys -> Document]
      BY DocumentForm DEF IInv, TypeOK
    <3> QED BY <1>3, <1>4, <1>5, <3>1
  <2>3. seen' \in [Processes -> [Keys -> 0..lastCas']]
    <3>1. 0..lastCas \subseteq 0..lastCas'
      BY <1>3, <1>5
    <3> QED BY <1>2, <3>1 DEF IInv, TypeOK
  <2> QED BY <1>2, <1>3, <1>5, <2>1, <2>2, <2>3 DEF IInv, TypeOK
<1>11. CallsInOrder'
  BY <1>2 DEF IInv, CallsInOrder
<1> QED BY <1>2, <1>6, <1>7, <1>8, <1>9, <1>10, <1>11, ReadsStay, AcksStay DEF IInv

LEMMA InvInit == Init => IInv
<1> SUFFICES ASSUME Init PROVE IInv
  OBVIOUS
<1>1. TypeOK
  <2>1. <<>> \in Seq(Request) /\ DOMAIN <<>> = {}
    BY EmptySeq
  <2>2. 0 \in 0..Nodes
    BY NodesAssumption
  <2>3. 0 \in 0..MaxCalls /\ 0 \in 0..MaxForeign
    BY MaxCallsAssumption, MaxForeignAssumption
  <2>4. \A k \in Keys : docs[k] = NoDoc
    BY DEF Init
  <2>5. docs \in [Keys -> Document] /\ copies \in [Keys -> 0..Nodes]
    BY <2>2, NoDocForm DEF Init
  <2> QED BY <2>1, <2>3, <2>4, <2>5, NoDocForm DEF Init, TypeOK
<1> QED BY <1>1
       DEF Init, IInv, Histories, Carries, CallsInOrder, CasIdentifiesValue, AckNamesOwnVersion

LEMMA InvStep == IInv /\ [Next]_vars => IInv'
<1> SUFFICES ASSUME IInv, [Next]_vars PROVE IInv'
  OBVIOUS
<1>1. ASSUME NEW p \in Processes, Timeout(p) PROVE IInv'
  BY <1>1, TimeoutStep
<1>2. ASSUME NEW p \in Processes, NEW items \in Workload, Call(p, items) PROVE IInv'
  BY <1>2, CallStep
<1>3. ASSUME queue # <<>>, NEW i \in Head(queue).todo, Execute(i) PROVE IInv'
  BY <1>3, ExecuteStep
<1>4. ASSUME queue # <<>>, NEW i \in Head(queue).todo, ExecuteTimeout(i) PROVE IInv'
  BY <1>4, ExecuteTimeoutStep
<1>5. CASE Reply
  BY <1>5, ReplyStep
<1>6. CASE ReplyError
  BY <1>6, ReplyErrorStep
<1>7. ASSUME NEW k \in Keys, Persist(k) PROVE IInv'
  BY <1>7, PersistStep
<1>8. ASSUME NEW k \in Keys, NEW v \in Values, ForeignStore(k, v) PROVE IInv'
  BY <1>8, ForeignStep
<1>9. CASE UNCHANGED vars
  BY <1>9 DEF IInv, TypeOK, Histories, AsWritten, CallsInOrder, CasIdentifiesValue, AckNamesOwnVersion,
              vars, bucketVars, callVars
<1> QED BY <1>1, <1>2, <1>3, <1>4, <1>5, <1>6, <1>7, <1>8, <1>9 DEF Next

(* Documents, requests and answers keep their forms, and no request has an  *)
(* item that is neither to be done nor answered.                            *)
THEOREM TypeCorrect == Spec => []TypeOK
<1>1. IInv => TypeOK
  BY DEF IInv
<1> QED BY <1>1, InvInit, InvStep, PTL DEF Spec

(* A value is returned with the CAS value of the version it was decoded     *)
(* from, by the flags of that very version, whoever wrote it: a store, an   *)
(* append or prepend, an arithmetic operation or another client.  Where the *)
(* whole version was stored it is the value that was stored, unless another *)
(* client has given it flags that decode/2 does not know.                   *)
THEOREM ReadsAreWrites == Spec => []CasIdentifiesValue
<1>1. IInv => CasIdentifiesValue
  BY DEF IInv
<1> QED BY <1>1, InvInit, InvStep, PTL DEF Spec

(* {ok, Cas} names the version that this very call has written.             *)
THEOREM AcksAreOwn == Spec => []AckNamesOwnVersion
<1>1. IInv => AckNamesOwnVersion
  BY DEF IInv
<1> QED BY <1>1, InvInit, InvStep, PTL DEF Spec

-----------------------------------------------------------------------------
(* What a step does to the running request.                                 *)

(* Only executing an item takes it off the list of what is to be done.      *)
LEMMA ExecutedAlone ==
  ASSUME IInv, [Next]_vars, NEW i \in Head(queue).todo, Executed(i)
  PROVE  Execute(i) \/ ExecuteTimeout(i)
<1>1. /\ queue # <<>> /\ queue' # <<>> /\ queue'[1].call = queue[1].call
      /\ i \in queue[1].todo /\ i \notin queue'[1].todo
  BY DEF Executed
<1>2. /\ 1 \in DOMAIN queue /\ queue \in Seq(Request) /\ Head(queue) = queue[1]
      /\ Len(queue) \in Nat /\ DOMAIN queue = 1..Len(queue)
  BY <1>1, Running, QueueForm DEF IInv, TypeOK
<1>3. queue' # queue
  BY <1>1
<1>4. ASSUME NEW p \in Processes, NEW items \in Workload, Call(p, items) PROVE FALSE
  <2>1. IInv'
    BY <1>4, CallStep
  <2>2. PICK r : queue' = Append(queue, r)
    BY <1>4 DEF Call
  <2>3. queue'[1] = queue[1]
    BY <1>2, <2>2
  <2> QED BY <1>1, <2>3
<1>5. ASSUME queue' = Tail(queue) PROVE FALSE
  <2>1. /\ DOMAIN queue' = 1..(Len(queue) - 1) /\ queue' \in Seq(Request)
        /\ \A n \in DOMAIN queue' : queue'[n] = queue[n + 1] /\ n + 1 \in DOMAIN queue
    BY <1>1, <1>5, TailForm DEF IInv
  <2>2. 1 \in DOMAIN queue'
    BY <1>1, <1>2, <2>1, EmptySeq, LenProperties
  <2>3. queue'[1] = queue[2] /\ 2 \in DOMAIN queue
    BY <2>1, <2>2
  <2>4. queue[1].call < queue[2].call /\ queue[1].call \in Nat /\ queue[2].call \in Nat
    BY <1>2, <2>3, QueueForm, RequestForm DEF IInv, CallsInOrder
  <2> QED BY <1>1, <2>3, <2>4
<1>6. ~Reply /\ ~ReplyError
  BY <1>5 DEF Reply, ReplyError
<1>7. /\ \A p \in Processes : ~Timeout(p)
      /\ \A k \in Keys : ~Persist(k) /\ \A v \in Values : ~ForeignStore(k, v)
      /\ ~UNCHANGED vars
  BY <1>3 DEF Timeout, Persist, ForeignStore, vars, callVars
<1>8. PICK j \in Head(queue).todo : Execute(j) \/ ExecuteTimeout(j)
  BY <1>4, <1>6, <1>7 DEF Next
<1>9. j = i
  <2>1. PICK a \in Answer : queue' = Answered(j, a)
    <3>1. CASE Execute(j)
      <4> DEFINE item == queue[1].items[j]
      <4>1. PICK e \in {Outcome(item), "etimedout"} :
              queue' = Answered(j, Response(Command(item), e, Left(item)))
        BY <1>1, <3>1, ExecuteForm
      <4>2. item \in Items(Nat, {0}) /\ e \in Errors /\ Left(item) \in Document
        BY <1>1, <1>2, Running, OutcomeForm, LeftForm DEF IInv, Errors
      <4> HIDE DEF item
      <4>3. Response(Command(item), e, Left(item)) \in Answer
        BY <4>2, ResponseForm
      <4> QED BY <4>1, <4>3
    <3>2. CASE ExecuteTimeout(j)
      <4> DEFINE item == queue[1].items[j]
      <4>1. queue' = Answered(j, Response(Command(item), "etimedout", docs[item.key]))
        BY <1>1, <3>2, ExecuteTimeoutForm
      <4>2. item \in Items(Nat, {0}) /\ item.key \in Keys /\ docs[item.key] \in Document
        BY <1>1, <1>2, Running, ItemForm DEF IInv, TypeOK
      <4> HIDE DEF item
      <4>3. Response(Command(item), "etimedout", docs[item.key]) \in Answer
        BY <4>2, ResponseForm DEF Errors
      <4> QED BY <4>1, <4>3
    <3> QED BY <1>8, <3>1, <3>2
  <2>2. queue'[1].todo = queue[1].todo \ {j}
    BY <1>1, <1>2, <2>1, AnsweredForm DEF IInv
  <2> QED BY <1>1, <2>2
<1> QED BY <1>8, <1>9

(* What executing an item does to the document it names.                    *)
LEMMA ExecutedForm ==
  ASSUME IInv, [Next]_vars, NEW i \in Head(queue).todo, Executed(i)
  PROVE  LET item == Head(queue).items[i]
             out  == queue'[1].out
         IN  /\ item \in Items(Nat, {0}) /\ item.key \in Keys
             /\ docs'[item.key] \in {docs[item.key], Left(item)}
             /\ item.op = "durability" /\ out[Len(out)].err = "success"
                  => copies[item.key] >= Command(item).persist
<1> DEFINE item == Head(queue).items[i]
<1>1. queue # <<>>
  BY DEF Executed
<1>2. /\ Head(queue) = queue[1] /\ item = queue[1].items[i] /\ i \in queue[1].todo
      /\ item \in Items(Nat, {0}) /\ item.key \in Keys /\ queue[1] \in Request /\ TypeOK
      /\ docs \in [Keys -> Document] /\ docs[item.key] \in Document /\ Left(item) \in Document
  <2>1. Head(queue) = queue[1] /\ item = queue[1].items[i] /\ TypeOK /\ queue[1] \in Request
    BY <1>1, Running DEF IInv
  <2>2. item \in Items(Nat, {0}) /\ item.key \in Keys
    BY <1>1, <2>1, Running, ItemForm
  <2> HIDE DEF item
  <2>3. docs \in [Keys -> Document] /\ docs[item.key] \in Document /\ Left(item) \in Document
    BY <2>1, <2>2, LeftForm DEF TypeOK
  <2> QED BY <2>1, <2>2, <2>3
<1> HIDE DEF item
<1>3. ASSUME NEW a \in Answer, queue' = Answered(i, a)
      PROVE  queue'[1].out[Len(queue'[1].out)] = a
  <2>1. queue'[1].out = Append(queue[1].out, a) /\ queue[1].out \in Seq(Answer)
    BY <1>1, <1>2, <1>3, AnsweredForm, RequestForm
  <2> QED BY <2>1, AppendProperties
<1>4. /\ docs'[item.key] \in {docs[item.key], Left(item)}
      /\ item.op = "durability" /\ queue'[1].out[Len(queue'[1].out)].err = "success"
           => copies[item.key] >= Command(item).persist
  <2>1. CASE Execute(i)
    <3>1. docs' = [docs EXCEPT ![item.key] = Left(item)]
      BY <1>1, <1>2, <2>1, ExecuteBucket
    <3>2. PICK e \in {Outcome(item), "etimedout"} :
            queue' = Answered(i, Response(Command(item), e, Left(item)))
      BY <1>1, <1>2, <2>1, ExecuteForm
    <3>3. e \in Errors
      BY OutcomeForm DEF Errors
    <3>4. PICK a \in Answer : queue' = Answered(i, a) /\ a.err = e
      BY <1>2, <3>2, <3>3, ResponseForm
    <3>5. queue'[1].out[Len(queue'[1].out)].err = e
      BY <1>3, <3>4
    <3>6. item.op = "durability" /\ Outcome(item) = "success"
            => copies[item.key] >= Command(item).persist
      BY <1>1, <1>2, <2>1, ExecuteForm
    <3> QED BY <1>2, <3>1, <3>2, <3>5, <3>6
  <2>2. CASE ExecuteTimeout(i)
    <3>1. /\ queue' = Answered(i, Response(Command(item), "etimedout", docs[item.key]))
          /\ docs' = docs
      BY <1>1, <1>2, <2>2, ExecuteTimeoutForm DEF bucketVars
    <3>2. PICK a \in Answer : queue' = Answered(i, a) /\ a.err = "etimedout"
      BY <1>2, <3>1, ResponseForm DEF Errors
    <3>3. queue'[1].out[Len(queue'[1].out)].err = "etimedout"
      BY <1>3, <3>2
    <3> QED BY <3>1, <3>3
  <2> QED BY <2>1, <2>2, ExecutedAlone
<1> QED BY <1>2, <1>4 DEF item

(* A request with a CAS value never changes another version than that one.  *)
THEOREM NothingIsLost == Spec => NoLostUpdate
<1>1. IInv /\ [Next]_vars => [ItemStep(Guarded)]_vars
  <2> SUFFICES ASSUME IInv, [Next]_vars, NEW i \in Head(queue).todo, Executed(i)
               PROVE  Guarded(Head(queue).items[i])
    BY DEF ItemStep
  <2> QED BY ExecutedForm, LeftAsAsked DEF Guarded, IInv
<1> QED BY <1>1, InvInit, InvStep, PTL DEF Spec, NoLostUpdate

(* Each operation changes documents only in the way its name says.          *)
THEOREM OperationsKeepTheirNames == Spec => EffectIsAsAsked
<1>1. IInv /\ [Next]_vars => [ItemStep(Effect)]_vars
  <2> SUFFICES ASSUME IInv, [Next]_vars, NEW i \in Head(queue).todo, Executed(i)
               PROVE  Effect(Head(queue).items[i])
    BY DEF ItemStep
  <2> DEFINE item == Head(queue).items[i]
  <2>1. item \in Items(Nat, {0})
    BY ExecutedForm
  <2>2. docs'[item.key] \in {docs[item.key], Left(item)}
    BY ExecutedForm
  <2> HIDE DEF item
  <2>3. item.op = "arithmetic" => Command(item) = ArithmeticCommand(item)
    BY Operations DEF Command, StoreOps
  <2>4. item.op = "arithmetic" => Command(item).create = (item.default # -1)
    <3>1. ArithmeticCommand(item).create = (item.default # -1)
      BY Zenon DEF ArithmeticCommand
    <3> QED BY <2>3, <3>1
  <2>5. SUFFICES ASSUME docs'[item.key] # docs[item.key]
                 PROVE  Effect(item)
    BY DEF Effect, item
  <2>6. docs'[item.key] = Left(item) /\ Left(item) # docs[item.key]
    BY <2>2, <2>5
  <2>7. /\ item.op \in {"append", "prepend"} => docs'[item.key].flags = docs[item.key].flags
        /\ item.op = "append"  => docs'[item.key].body = docs[item.key].body \o Encode(item)
        /\ item.op = "prepend" => docs'[item.key].body = Encode(item) \o docs[item.key].body
    BY <2>1, <2>6, LeftForm DEF IInv
  <2> QED BY <2>1, <2>4, <2>6, <2>7, LeftAsAsked DEF Effect, IInv
<1> QED BY <1>1, InvInit, InvStep, PTL DEF Spec, EffectIsAsAsked

(* durability answers ok only for versions on as many nodes as persist_to   *)
(* asks for, and on all of them if it is -1, although -1 goes through 16    *)
(* bits without a sign.                                                     *)
THEOREM ToldIsDurable == Spec => DurableWhenTold
<1>1. IInv /\ [Next]_vars => [ItemStep(Durable)]_vars
  <2> SUFFICES ASSUME IInv, [Next]_vars, NEW i \in Head(queue).todo, Executed(i)
               PROVE  Durable(Head(queue).items[i])
    BY DEF ItemStep
  <2> DEFINE item == Head(queue).items[i]
             last == queue'[1].out[Len(queue'[1].out)]
  <2>1. /\ item \in Items(Nat, {0}) /\ item.key \in Keys
        /\ item.op = "durability" /\ last.err = "success"
             => copies[item.key] >= Command(item).persist
    BY ExecutedForm
  <2>2. copies[item.key] \in 0..Nodes
    BY <2>1 DEF IInv, TypeOK
  <2> HIDE DEF item, last
  <2>3. SUFFICES ASSUME item.op = "durability", last.err = "success"
                 PROVE  /\ copies[item.key] >= Min({item.persist, Nodes})
                        /\ item.persist = -1 => copies[item.key] = Nodes
    BY DEF Durable, item, last
  <2>4. Command(item).persist = Min({item.persist % 65536, Nodes})
    <3>1. Command(item) = DurabilityCommand(item)
      BY <2>3, Operations DEF Command, StoreOps
    <3> QED BY <3>1 DEF DurabilityCommand
  <2>5. item.persist \in PersistTo
    BY <2>1, <2>3, ItemForm DEF DurabilityItems
  <2>6. Nodes \in Nat /\ Nodes <= 65535
    BY NodesAssumption
  <2> DEFINE n == item.persist
  <2>7. n = -1 \/ (n \in Int /\ 0 <= n /\ n <= 65535)
    BY <2>5, PersistToForm
  <2> HIDE DEF n
  <2>8. CASE n = -1
    <3>1. n \in Int /\ n + 1 = 0
      BY <2>8
    <3>2. n % 65536 = 65535
      BY <3>1, UnsignedOfNegative
    <3>3. Min({65535, Nodes}) = Nodes /\ Min({n, Nodes}) = n
      BY <2>6, <2>8, MinOfTwo
    <3>4. Command(item).persist = Nodes
      BY <2>4, <3>2, <3>3 DEF n
    <3> QED BY <2>1, <2>2, <2>3, <2>6, <2>8, <3>3, <3>4 DEF n
  <2>9. CASE n # -1
    <3>1. n \in Int /\ n % 65536 = n
      BY <2>7, <2>9, UnsignedOfNonNegative
    <3>2. Command(item).persist = Min({n, Nodes})
      <4>1. n % 65536 = n
        BY <3>1
      <4>2. item.persist % 65536 = n
        BY <4>1 DEF n
      <4> QED BY <2>4, <4>2
    <3>3. copies[item.key] >= Command(item).persist
      BY <2>1, <2>3, Zenon
    <3>4. copies[item.key] >= Min({n, Nodes})
      BY <3>2, <3>3, Zenon
    <3> QED BY <2>9, <3>4, Zenon DEF n
  <2> QED BY <2>8, <2>9
<1> QED BY <1>1, InvInit, InvStep, PTL DEF Spec, DurableWhenTold

=============================================================================
