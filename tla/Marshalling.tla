---------------------------- MODULE Marshalling ----------------------------
(***************************************************************************)
(* The way of a request through the languages: from the arguments of an    *)
(* API function to an Erlang term, from the term to C++ values (nifpp::get *)
(* and the Raw types of the requests), from those to a libcouchbase        *)
(* command - and the way back: from libcouchbase's answer to a term        *)
(* (toTerm) to what the API function returns.                              *)
(*                                                                         *)
(* One request at a time: the conversions share no state.  What the        *)
(* commands do to documents, and how values are decoded, is in Documents.  *)
(* Numbers have bounds, but small ones: the widths of the C++ types are    *)
(* constants.  A term is a record whose one field tells its kind.          *)
(***************************************************************************)
EXTENDS Integers, Sequences, SequencesExt

CONSTANTS
  ShortBits, IntBits, LongBits,   \* widths of the C++ integer types
  Workload,                       \* the requests that are made
  Codes,                          \* the lcb_error_t values libcouchbase returns
  MaxCalls                        \* bound on the number of calls

ASSUME WidthsAssumption ==
  /\ {ShortBits, IntBits, LongBits} \subseteq Nat \ {0}
  /\ ShortBits < IntBits /\ IntBits < LongBits
(* An int holds the id of every operation.                                  *)
ASSUME PowersAssumption ==
  5 < 2^(IntBits - 1) /\ 2^(IntBits - 1) < 2^IntBits /\ 2^IntBits < 2^LongBits
ASSUME MaxCallsAssumption == MaxCalls \in Nat

VARIABLES
  server,    \* "up" or "down"
  phase,     \* how far the request has come
  ask,       \* the request as the API function was given it
  request,   \* the C++ values in the task posted to the Client
  commands,  \* the commands handed to libcouchbase
  answer,    \* libcouchbase's answer: an error code, and one per command
  reply,     \* the response, as a term
  result,    \* what the API function returns
  calls      \* number of calls so far

vars == <<server, phase, ask, request, commands, answer, reply, result, calls>>

-----------------------------------------------------------------------------
(* Terms. *)
Atom(a)  == [atom |-> a]
Num(n)   == [int |-> n]
Bin(x)   == [bin |-> x]
Tuple(s) == [tuple |-> s]
List(s)  == [list |-> s]

Is(kind, term) == kind \in DOMAIN term

Bool(b) == Atom(IF b THEN "true" ELSE "false")

OkTuple(s)     == Tuple(<<Atom("ok")>> \o s)
ErrorTuple(r)  == Tuple(<<Atom("error"), Atom(r)>>)

(* nifpp::get: the set of the value a term is converted to, empty if it is  *)
(* not of the type.  A string is a binary or a list of bytes; a number must *)
(* fit the type.                                                            *)
GetString(t) ==
  IF Is("bin", t) THEN {t.bin}
  ELSE IF Is("list", t) /\ \A i \in DOMAIN t.list : Is("int", t.list[i]) /\ t.list[i].int \in 0..255
         THEN {<<"bytes", [i \in DOMAIN t.list |-> t.list[i].int]>>}
         ELSE {}

GetBool(t) == {b \in BOOLEAN : t = Bool(b)}

GetAtom(t) == IF Is("atom", t) THEN {t.atom} ELSE {}

GetSigned(bits, t) ==
  IF Is("int", t) /\ t.int \in -(2^(bits - 1))..(2^(bits - 1) - 1) THEN {t.int} ELSE {}

GetUnsigned(bits, t) ==
  IF Is("int", t) /\ t.int \in 0..(2^bits - 1) THEN {t.int} ELSE {}

(* Wrong: a number that is too large is cut off. *)
GetTruncated(type, t) ==
  CASE type = "string" -> GetString(t)
    [] type = "bool"   -> GetBool(t)
    [] type = "atom"   -> GetAtom(t)
    [] type \in {"int", "long"} -> GetSigned(LongBits, t)
    [] type = "uint"   -> GetUnsigned(IntBits, t)
    [] type = "ulong"  -> IF Is("int", t) THEN {t.int % 2^LongBits} ELSE {}

Get(type, t) ==
  CASE type = "string" -> GetString(t)
    [] type = "bool"   -> GetBool(t)
    [] type = "atom"   -> GetAtom(t)
    [] type = "int"    -> GetSigned(IntBits, t)
    [] type = "uint"   -> GetUnsigned(IntBits, t)
    [] type = "long"   -> GetSigned(LongBits, t)
    [] type = "ulong"  -> GetUnsigned(LongBits, t)

TheValue(S) == CHOOSE v \in S : TRUE

(* All elements of a sequence are converted, or none is.                    *)
GetEach(gotten) ==
  IF \A i \in DOMAIN gotten : gotten[i] # {}
    THEN {[i \in DOMAIN gotten |-> TheValue(gotten[i])]}
    ELSE {}

(* std::tuple: the arity must match, too. *)
GetTuple(types, t) ==
  IF Is("tuple", t) /\ Len(t.tuple) = Len(types)
    THEN GetEach([i \in DOMAIN types |-> Get(types[i], t.tuple[i])])
    ELSE {}

(* std::vector of tuples, through list_for_each. *)
GetVector(types, t) ==
  IF Is("list", t)
    THEN GetEach([i \in DOMAIN t.list |-> GetTuple(types, t.list[i])])
    ELSE {}

-----------------------------------------------------------------------------
(* The API functions: from arguments to terms. *)

EncoderId == [none |-> 0, json |-> 1, raw |-> 2]

StoreOperationId ==
  [add |-> 1, replace |-> 2, set |-> 3, append |-> 4, prepend |-> 5]

(* Wrong: the order of the documentation's list is not that of the enum. *)
HttpMethodIdSwapped == [get |-> 0, put |-> 1, post |-> 2, delete |-> 3]

HttpTypeId == [view |-> 0, management |-> 1, raw |-> 2]

HttpMethodId == [get |-> 0, post |-> 1, put |-> 2, delete |-> 3]

(* encode/2: a value is a binary, or a term that jiffy and term_to_binary   *)
(* turn into one; 'none' leaves it as it is.                                *)
Encode(enc, value) == IF enc = "none" THEN value ELSE Bin(<<enc, value>>)

GetTerm(item) == Tuple(<<item.key, Num(item.expiry), Bool(item.lock)>>)

StoreTerm(item) ==
  Tuple(<<Num(StoreOperationId[item.operation]), item.key, Encode(item.encoder, item.value),
          Num(EncoderId[item.encoder]), Num(item.cas), Num(item.expiry)>>)

(* bulk_remove/3 and bulk_durability/4 *)
KeyCasTerm(item) == Tuple(<<item.key, Num(item.cas)>>)

ArithmeticTerm(item) ==
  LET absent == item.default = Atom("undefined")
  IN  Tuple(<<item.key, Num(item.delta), Bool(~absent),
              IF absent THEN Num(0) ELSE item.default, Num(item.expiry)>>)

HttpTerm(item) ==
  Tuple(<<Num(HttpTypeId[item.type]), Num(HttpMethodId[item.method]),
          item.path, item.contentType, item.body>>)

OptionTerm(item) == Tuple(<<Atom(item.name), Num(item.value)>>)

ItemTerm(op, item) ==
  CASE op = "get"        -> GetTerm(item)
    [] op = "store"      -> StoreTerm(item)
    [] op \in {"remove", "durability"} -> KeyCasTerm(item)
    [] op = "arithmetic" -> ArithmeticTerm(item)
    [] op = "http"       -> HttpTerm(item)
    [] op = "connect"    -> OptionTerm(item)

(* What the type specifications of the API say of an item.                  *)
IsBinary(t) == Is("bin", t) /\ t = Bin(t.bin)

IsNumber(t) == Is("int", t) /\ t = Num(t.int)

Typed(op, item) ==
  /\ op \in {"get", "store", "remove", "arithmetic", "durability"} => IsBinary(item.key)
  /\ op \in {"get", "store", "arithmetic"} => item.expiry \in Nat
  /\ op \in {"store", "remove", "durability"} => item.cas \in Nat
  /\ op = "get" => item.lock \in BOOLEAN
  /\ op = "store" => /\ item.operation \in DOMAIN StoreOperationId
                     /\ item.encoder \in DOMAIN EncoderId
  /\ op = "arithmetic" =>
       /\ item.delta \in Int
       /\ item.default # Atom("undefined") => IsNumber(item.default) /\ item.default.int \in Nat
  /\ op = "http" =>
       /\ item.type \in DOMAIN HttpTypeId /\ item.method \in DOMAIN HttpMethodId
       /\ IsBinary(item.path) /\ IsBinary(item.contentType) /\ IsBinary(item.body)
  /\ op = "connect" => item.value \in Nat

ASSUME WorkloadAssumption ==
  \A a \in Workload :
    /\ a.op \in {"get", "store", "remove", "arithmetic", "http", "durability", "connect"}
    /\ a.from \in {"local", "remote"} /\ a.bulk \in BOOLEAN
    /\ a.items \in Seq(Range(a.items))
    /\ \A i \in DOMAIN a.items : Typed(a.op, a.items[i])
    /\ ~a.bulk \/ a.op = "http" => Len(a.items) = 1
    /\ a.op = "http" => ~a.bulk
    /\ {a.persistTo, a.replicateTo} \subseteq Nat \cup {-1}

-----------------------------------------------------------------------------
(* The Raw types of the requests, and the options of connect.               *)
GetRaw        == <<"string", "long", "bool">>
StoreRaw      == <<"int", "string", "string", "uint", "ulong", "long">>
RemoveRaw     == <<"string", "ulong">>
ArithmeticRaw == <<"string", "long", "bool", "ulong", "long">>
HttpRaw       == <<"int", "int", "string", "string", "string">>
DurabilityRaw == <<"string", "ulong">>
DurabilityOptionsRaw == <<"int", "int">>
ConnectRaw    == <<"atom", "int">>

Raw == [get |-> GetRaw, store |-> StoreRaw, remove |-> RemoveRaw,
        arithmetic |-> ArithmeticRaw, http |-> HttpRaw,
        durability |-> DurabilityRaw, connect |-> ConnectRaw]

(* All that a request NIF converts: a pid of this node, the items, and the  *)
(* options of durability/5.  Each conversion that fails throws badarg.      *)
Converted(a) ==
  LET items   == GetVector(Raw[a.op], List([i \in DOMAIN a.items |-> ItemTerm(a.op, a.items[i])]))
      options == GetTuple(DurabilityOptionsRaw, Tuple(<<Num(a.persistTo), Num(a.replicateTo)>>))
  IN  IF a.from = "remote" THEN {}
      ELSE IF a.op # "durability" THEN {[items |-> i, options |-> <<>>] : i \in items}
      ELSE {[items |-> i, options |-> o] : i \in items, o \in options}

-----------------------------------------------------------------------------
(* Connection: from requests to commands. *)

(* lcb_storage_t, lcb_http_type_t, lcb_http_method_t. *)
Storage    == <<"add", "replace", "set", "append", "prepend">>
HttpType   == <<"view", "management", "raw">>
HttpMethod == <<"get", "post", "put", "delete">>

(* persist_to and replicate_to are unsigned 16-bit numbers in the command.  *)
Short(n) == n % 2^ShortBits

(* A request names the parts of its Raw tuple, and Connection copies them   *)
(* into a command.                                                          *)
GetCommand(r) == [key |-> r[1], exptime |-> r[2], lock |-> r[3]]

StoreCommand(r) ==
  [operation |-> Storage[r[1]], key |-> r[2], bytes |-> r[3], flags |-> r[4],
   cas |-> r[5], exptime |-> r[6]]

RemoveCommand(r) == [key |-> r[1], cas |-> r[2]]

ArithmeticCommand(r) ==
  [key |-> r[1], delta |-> r[2], create |-> r[3], initial |-> r[4], exptime |-> r[5]]

HttpCommand(r) ==
  [type |-> HttpType[r[1] + 1], method |-> HttpMethod[r[2] + 1], path |-> r[3],
   content_type |-> r[4], body |-> r[5]]

DurabilityCommand(r, options) ==
  [key |-> r[1], cas |-> r[2], persist_to |-> Short(options[1]),
   replicate_to |-> Short(options[2])]

CommandOf(op, r, options) ==
  CASE op = "get"        -> GetCommand(r)
    [] op = "store"      -> StoreCommand(r)
    [] op = "remove"     -> RemoveCommand(r)
    [] op = "arithmetic" -> ArithmeticCommand(r)
    [] op = "http"       -> HttpCommand(r)
    [] op = "durability" -> DurabilityCommand(r, options)

(* The options the constructor of Connection knows. *)
KnownOptions == {"operation_timeout", "config_total_timeout", "view_timeout",
                 "durability_timeout", "durability_interval", "http_timeout"}

Defaults == [n \in KnownOptions |-> 0]

(* One round of its loop: lcb_cntl reads the int as an unsigned number; a   *)
(* name it does not know is skipped.                                        *)
Set(settings, option) ==
  IF option[1] \in KnownOptions
    THEN [settings EXCEPT ![option[1]] = option[2] % 2^IntBits] ELSE settings

CommandsOf(op, req) ==
  IF op = "connect" THEN <<FoldLeft(Set, Defaults, req.items)>>
  ELSE [i \in DOMAIN req.items |-> CommandOf(op, req.items[i], req.options)]

-----------------------------------------------------------------------------
(* libcouchbase's answer and its way back. *)

(* What the bucket has to say; each field another number. *)
Data == [cas |-> 11, flags |-> 12, value |-> "value", number |-> 13,
         status |-> 14, body |-> "body"]

ErrorNames == [
  LCB_AUTH_CONTINUE  |-> "auth_continue",   LCB_AUTH_ERROR      |-> "auth_error",
  LCB_DELTA_BADVAL   |-> "delta_badval",    LCB_E2BIG           |-> "e2big",
  LCB_EBUSY          |-> "ebusy",           LCB_EINTERNAL       |-> "einternal",
  LCB_EINVAL         |-> "einval",          LCB_ENOMEM          |-> "enomem",
  LCB_ERANGE         |-> "erange",          LCB_ERROR           |-> "error",
  LCB_ETMPFAIL       |-> "etmpfail",        LCB_KEY_EEXISTS     |-> "key_eexists",
  LCB_KEY_ENOENT     |-> "key_enoent",      LCB_NETWORK_ERROR   |-> "network_error",
  LCB_NOT_MY_VBUCKET |-> "not_my_vbucket",  LCB_NOT_STORED      |-> "not_stored",
  LCB_NOT_SUPPORTED  |-> "not_supported",   LCB_UNKNOWN_COMMAND |-> "unknown_command",
  LCB_UNKNOWN_HOST   |-> "unknown_host",    LCB_PROTOCOL_ERROR  |-> "protocol_error",
  LCB_ETIMEDOUT      |-> "etimedout",       LCB_CONNECT_ERROR   |-> "connect_error",
  LCB_BUCKET_ENOENT  |-> "bucket_enoent",   LCB_CLIENT_ENOMEM   |-> "client_enomem"]

ErrorMessage(code) ==
  IF code \in DOMAIN ErrorNames THEN ErrorNames[code] ELSE "unknown_error"

(* Wrong: the value comes before the CAS value. *)
ArithmeticOkSwapped == OkTuple(<<Num(Data.number), Num(Data.cas)>>)

(* toTerm of the response to one command that succeeded. *)
GetOk        == OkTuple(<<Num(Data.cas), Num(Data.flags), Bin(Data.value)>>)
StoreOk      == OkTuple(<<Num(Data.cas)>>)
RemoveOk     == Atom("ok")
ArithmeticOk == OkTuple(<<Num(Data.cas), Num(Data.number)>>)
HttpOk       == OkTuple(<<Num(Data.status), Bin(Data.body)>>)
DurabilityOk == OkTuple(<<Num(Data.cas)>>)
ConnectOk    == OkTuple(<<Atom("connection")>>)

OkTerm == [get |-> GetOk, store |-> StoreOk, remove |-> RemoveOk,
           arithmetic |-> ArithmeticOk, durability |-> DurabilityOk]

ResponseTerm(op, key, code) ==
  Tuple(<<Bin(key), IF code = "LCB_SUCCESS" THEN OkTerm[op]
                                            ELSE ErrorTuple(ErrorMessage(code))>>)

(* MultiResponse, HttpResponse and ConnectResponse. *)
ReplyTerm(op, cmds, a) ==
  IF a.err # "LCB_SUCCESS" THEN ErrorTuple(ErrorMessage(a.err))
  ELSE CASE op = "connect" -> ConnectOk
         [] op = "http" ->
              IF a.items[1] = "LCB_SUCCESS" THEN HttpOk
              ELSE ErrorTuple(ErrorMessage(a.items[1]))
         [] OTHER -> OkTuple(<<List([i \in DOMAIN cmds |->
                                       ResponseTerm(op, cmds[i].key, a.items[i])])>>)

(* The clauses of the functions on one document: what they take {Key, Term} *)
(* for, after bulk_get/3 has used up the flags of a document.  The key must *)
(* be the one that was asked for.                                           *)
Arity == [get |-> 4, store |-> 2, arithmetic |-> 3, durability |-> 2]

Crash == Atom("case_clause")

ItemResult(op, t) ==
  CASE Is("tuple", t) /\ t.tuple[1] = Atom("error") -> t
    [] op = "remove" /\ t = Atom("ok") -> t
    [] op = "get" /\ Is("tuple", t) /\ Len(t.tuple) = Arity.get ->
         OkTuple(<<t.tuple[2], t.tuple[4]>>)
    [] op \notin {"remove", "get"} /\ Is("tuple", t) /\ Len(t.tuple) = Arity[op] -> t
    [] OTHER -> Crash

Result(a, r) ==
  IF r.tuple[1] = Atom("error") \/ a.op \in {"http", "connect"} THEN r
  ELSE LET list == r.tuple[2].list
           item(i) == ItemResult(a.op, list[i].tuple[2])
       IN  IF a.bulk
             THEN OkTuple(<<List([i \in DOMAIN list |-> Tuple(<<list[i].tuple[1], item(i)>>)])>>)
             ELSE IF Len(list) = 1 /\ list[1].tuple[1] = a.items[1].key THEN item(1)
             ELSE Crash

-----------------------------------------------------------------------------
Nothing == Atom("undefined")

Init ==
  /\ server = "up" /\ phase = "idle" /\ calls = 0
  /\ ask = Nothing /\ request = Nothing /\ commands = Nothing
  /\ answer = Nothing /\ reply = Nothing /\ result = Nothing

(* A process calls an API function, which casts to the server. *)
Cast(a) ==
  /\ phase = "idle" /\ server = "up" /\ calls < MaxCalls
  /\ calls' = calls + 1
  /\ ask' = a
  /\ phase' = "cast"
  /\ request' = Nothing /\ commands' = Nothing /\ answer' = Nothing
  /\ reply' = Nothing /\ result' = Nothing
  /\ UNCHANGED server

(* The NIF converts all arguments before it posts a task ... *)
Convert ==
  /\ phase = "cast"
  /\ request' \in Converted(ask)
  /\ phase' = "posted"
  /\ UNCHANGED <<server, ask, commands, answer, reply, result, calls>>

(* ... or raises badarg: handle_cast/2, or init/1, crashes and with it the  *)
(* server.  The caller waits for nothing.                                   *)
Refuse ==
  /\ phase = "cast"
  /\ Converted(ask) = {}
  /\ server' = "down"
  /\ result' = ErrorTuple(IF ask.op = "connect" THEN "badarg" ELSE "timeout")
  /\ phase' = "refused"
  /\ UNCHANGED <<ask, request, commands, answer, reply, calls>>

(* The worker builds the commands and hands them to libcouchbase. *)
Perform ==
  /\ phase = "posted"
  /\ commands' = CommandsOf(ask.op, request)
  /\ phase' = "performed"
  /\ UNCHANGED <<server, ask, request, answer, reply, result, calls>>

(* libcouchbase fails as a whole, or answers each command. *)
Answer ==
  /\ phase = "performed"
  /\ \E err \in Codes \cup {"LCB_SUCCESS"},
        codes \in [DOMAIN commands -> Codes \cup {"LCB_SUCCESS"}] :
       /\ err = "LCB_SUCCESS" \/ \A i \in DOMAIN codes : codes[i] = "LCB_SUCCESS"
       /\ ask.op = "connect" => \A i \in DOMAIN codes : codes[i] = "LCB_SUCCESS"
       /\ answer' = [err |-> err, items |-> codes]
  /\ reply' = ReplyTerm(ask.op, commands, answer')
  /\ phase' = "answered"
  /\ UNCHANGED <<server, ask, request, commands, result, calls>>

(* The response reaches the process and the API function returns. *)
Return ==
  /\ phase = "answered"
  /\ result' = Result(ask, reply)
  /\ phase' = "idle"
  /\ UNCHANGED <<server, ask, request, commands, answer, reply, calls>>

Next == (\E a \in Workload : Cast(a)) \/ Convert \/ Refuse \/ Perform \/ Answer \/ Return

Spec == Init /\ [][Next]_vars

-----------------------------------------------------------------------------
(* Numbers that fit the C++ type the field has in the request.              *)
Fits(item, field) ==
  LET n == item[field]
  IN  CASE field = "expiry" -> n < 2^(LongBits - 1)
        [] field = "cas"    -> n < 2^LongBits
        [] field = "delta"  -> n \in -(2^(LongBits - 1))..(2^(LongBits - 1) - 1)
        [] field = "value"  -> n < 2^(IntBits - 1)

Numeric == [get |-> {"expiry"}, store |-> {"cas", "expiry"}, remove |-> {"cas"},
            arithmetic |-> {"delta", "expiry"}, http |-> {}, durability |-> {"cas"},
            connect |-> {"value"}]

(* A request is one that cberl can carry out.                               *)
Representable(a) ==
  /\ a.from = "local"
  /\ \A i \in DOMAIN a.items : \A f \in Numeric[a.op] : Fits(a.items[i], f)
  /\ a.op = "store" => \A i \in DOMAIN a.items :
       LET t == a.items[i].value
       IN  a.items[i].encoder = "none" =>
             \/ Is("bin", t)
             \/ /\ Is("list", t)
                /\ \A j \in DOMAIN t.list : Is("int", t.list[j]) /\ t.list[j].int \in 0..255
  /\ a.op = "arithmetic" => \A i \in DOMAIN a.items :
       a.items[i].default = Atom("undefined") \/ a.items[i].default.int < 2^LongBits
  /\ a.op = "durability" => {a.persistTo, a.replicateTo} \subseteq -1..(2^(IntBits - 1) - 1)

(* A request is refused, and the server lost, only if some part of it does  *)
(* not fit; a bulk request with one such item is refused as a whole, so no  *)
(* document is touched (nifpp::get, get_nif and its siblings).              *)
RefusedIfUnfit ==
  /\ phase = "refused" => ~Representable(ask)
  /\ phase \in {"posted", "performed", "answered"} => Representable(ask)

(* A command says to libcouchbase what the caller said to the API function: *)
(* positions in tuples, ids of operations and signedness agree between      *)
(* Erlang, the Raw types, the requests and Connection.  Of the options of   *)
(* connect, the last value given for a name counts, and options that are    *)
(* not given and names that are not known change nothing.                   *)
SameCommand(a, i) ==
  LET item == a.items[i]
      cmd  == commands[i]
  IN  CASE a.op = "get" ->
             cmd = [key |-> item.key.bin, exptime |-> item.expiry, lock |-> item.lock]
        [] a.op = "store" ->
             /\ cmd.operation = item.operation /\ cmd.key = item.key.bin
             /\ cmd.cas = item.cas /\ cmd.exptime = item.expiry
             /\ GetString(Encode(item.encoder, item.value)) = {cmd.bytes}
             /\ cmd.flags = EncoderId[item.encoder]
        [] a.op = "remove" -> cmd = [key |-> item.key.bin, cas |-> item.cas]
        [] a.op = "arithmetic" ->
             /\ cmd.key = item.key.bin /\ cmd.delta = item.delta
             /\ cmd.exptime = item.expiry
             /\ cmd.create = (item.default # Atom("undefined"))
             /\ cmd.create => Num(cmd.initial) = item.default
        [] a.op = "http" ->
             cmd = [type |-> item.type, method |-> item.method, path |-> item.path.bin,
                    content_type |-> item.contentType.bin, body |-> item.body.bin]
        [] a.op = "durability" ->
             /\ cmd.key = item.key.bin /\ cmd.cas = item.cas
             /\ a.persistTo \in 0..(2^ShortBits - 1) => cmd.persist_to = a.persistTo
             /\ a.replicateTo \in 0..(2^ShortBits - 1) => cmd.replicate_to = a.replicateTo

OptionsAsGiven(a) ==
  \A n \in KnownOptions :
    LET given == {i \in DOMAIN a.items : a.items[i].name = n}
    IN  commands[1][n] = IF given = {} THEN 0
                         ELSE a.items[CHOOSE i \in given : \A j \in given : j <= i].value

CommandIsAsAsked ==
  phase \in {"performed", "answered"} =>
    IF ask.op = "connect" THEN OptionsAsGiven(ask)
    ELSE /\ DOMAIN commands = DOMAIN ask.items
         /\ \A i \in DOMAIN commands : SameCommand(ask, i)

(* The caller learns what libcouchbase answered: success is never reported  *)
(* for an error or the other way round, no answer makes an API function     *)
(* crash, an error that has a name is not taken for another one, and        *)
(* {error, timeout} only ever means that the wait has ended (toTerm,        *)
(* errorMessage and the clauses of cberl.erl).                              *)
Told(op, code, t) ==
  IF code = "LCB_SUCCESS"
    THEN t = CASE op = "get" -> OkTuple(<<Num(Data.cas), Bin(Data.value)>>)
               [] op \in {"store", "durability"} -> OkTuple(<<Num(Data.cas)>>)
               [] op = "arithmetic" -> OkTuple(<<Num(Data.cas), Num(Data.number)>>)
               [] op = "remove" -> Atom("ok")
               [] op = "http" -> OkTuple(<<Num(Data.status), Bin(Data.body)>>)
               [] op = "connect" -> OkTuple(<<Atom("connection")>>)
    ELSE /\ Is("tuple", t) /\ t.tuple[1] = Atom("error")
         /\ t \notin {ErrorTuple("timeout"), ErrorTuple("ok")}
         /\ \A c \in Codes \ {code} :
              t = ErrorTuple(ErrorMessage(c)) => {c, code} \cap DOMAIN ErrorNames = {}

ResultIsTold ==
  phase = "idle" /\ calls > 0 =>
    IF answer.err # "LCB_SUCCESS" THEN Told(ask.op, answer.err, result)
    ELSE IF ask.bulk /\ ask.op # "connect"
      THEN \A i \in DOMAIN ask.items :
             /\ result.tuple[2].list[i].tuple[1] = ask.items[i].key
             /\ Told(ask.op, answer.items[i], result.tuple[2].list[i].tuple[2])
      ELSE Told(ask.op, answer.items[1], result)
=============================================================================
