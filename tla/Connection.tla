---------------------------- MODULE Connection ----------------------------
(***************************************************************************)
(* One Connection: its libcouchbase instance, used by the worker thread    *)
(* for one operation after another.  An operation turns the request into   *)
(* commands, schedules them with a pointer to a response on its own stack  *)
(* as the cookie, and runs lcb_wait, which calls the registered callback   *)
(* for every command the servers answer or that times out.                 *)
(*                                                                         *)
(* get, store, remove and arithmetic differ in the fields they copy and    *)
(* are one operation here, "multi".  durability does the same with another *)
(* call, lcb_durability_poll.  http has one command and its response is    *)
(* overwritten by the callback instead of appended to.                     *)
(*                                                                         *)
(* External, as src/ uses it: libcouchbase schedules all commands of a     *)
(* call or none, keeps a pipeline per server that answers in order, polls  *)
(* for durability and tells each item as soon as it has its copies, and    *)
(* lcb_wait returns only when nothing is outstanding.                      *)
(***************************************************************************)
EXTENDS Naturals, Sequences

CONSTANTS
  Keys,       \* document keys
  Servers,    \* cluster nodes
  MaxItems,   \* bound on the number of items of one request
  MaxOps      \* bound on the number of operations on the connection

ASSUME MaxItemsAssumption == MaxItems \in Nat
ASSUME MaxOpsAssumption   == MaxOps \in Nat

VARIABLES
  nodeOf,       \* the node that owns each key
  op,           \* number of the operation; stands for the cookie's address
  phase,        \* "idle", "schedule" or "wait"
  kind,         \* "multi", "durability" or "http"
  request,      \* the keys of the request's items, in order
  response,     \* the response under construction
  outstanding,  \* commands that are scheduled and not answered
  reply         \* what the last operation returned to the Client

vars == <<nodeOf, op, phase, kind, request, response, outstanding, reply>>

Kinds == {"multi", "durability", "http"}

(* lcb_error_t; "err" is any error. *)
Err == {"success", "err"}

(* Of an http response the list is not used; of the others the status is    *)
(* not.  HttpResponse::m_status is not initialised by the constructor.      *)
NewResponse(e) == [err |-> e, list |-> <<>>, status |-> "uninitialised"]

Requests == UNION {[1..n -> Keys] : n \in 0..MaxItems}

Init ==
  /\ nodeOf \in [Keys -> Servers]
  /\ op = 0
  /\ phase = "idle"
  /\ kind = "multi"
  /\ request = <<>>
  /\ response = NewResponse("success")
  /\ outstanding = {}
  /\ reply = NewResponse("err")

-----------------------------------------------------------------------------
Return(r) == /\ reply' = r
             /\ phase' = "idle"
             /\ UNCHANGED <<nodeOf, op, kind, request, response>>

(* Connection::get and its siblings are called with a request. *)
Begin(k, items) ==
  /\ phase = "idle" /\ op < MaxOps
  /\ k = "http" => Len(items) = 1
  /\ op' = op + 1
  /\ kind' = k
  /\ request' = items
  /\ response' = NewResponse("success")
  /\ phase' = "schedule"
  /\ UNCHANGED <<nodeOf, outstanding, reply>>

(* A command for each item of the request. *)
Commands ==
  {[cookie |-> op, pos |-> i, key |-> request[i]] : i \in DOMAIN request}

(* lcb_get, lcb_store, ... succeed: every command is in the pipeline of the *)
(* node that owns its key, or one of those polled for.                      *)
Schedule ==
  /\ phase = "schedule"
  /\ outstanding' = outstanding \cup Commands
  /\ phase' = "wait"
  /\ UNCHANGED <<nodeOf, op, kind, request, response, reply>>

Before(c, d) == c.cookie < d.cookie \/ (c.cookie = d.cookie /\ c.pos < d.pos)

(* The command at the head of a node's pipeline. *)
First(c) == \A d \in outstanding : nodeOf[d.key] = nodeOf[c.key] => ~Before(d, c)

(* A poll knows no order, not even on one node: an item is done when it has *)
(* its copies or when time is up.                                           *)
Due(c) == kind = "durability" \/ First(c)

(* They fail: return {err}. *)
ScheduleError ==
  /\ phase = "schedule"
  /\ Return(NewResponse("err"))
  /\ UNCHANGED outstanding

(* Wrong: the latest response is the first of the list. *)
AddInFront(item) == [response EXCEPT !.list = <<item>> \o @]

(* MultiResponse::add. *)
Add(item) == [response EXCEPT !.list = Append(@, item)]

(* httpCallback. *)
Complete(e) ==
  [response EXCEPT !.err = e, !.status = IF e = "success" THEN "set" ELSE @]

(* A callback runs inside lcb_wait, with the cookie of its command; what it *)
(* writes to lands in this operation's response only if that is the cookie. *)
Callback(c, e) ==
  /\ phase = "wait" /\ c \in outstanding /\ Due(c)
  /\ response' = IF c.cookie # op THEN response
                 ELSE IF kind = "http" THEN Complete(e)
                 ELSE Add([key |-> c.key, err |-> e])
  /\ outstanding' = outstanding \ {c}
  /\ UNCHANGED <<nodeOf, op, phase, kind, request, reply>>

(* Wrong: the operation does not wait for its commands. *)
ReturnWithoutWait ==
  /\ phase = "wait"
  /\ Return(response)
  /\ UNCHANGED outstanding

(* lcb_wait returns LCB_SUCCESS: the response is moved out. *)
WaitSuccess ==
  /\ phase = "wait" /\ outstanding = {}
  /\ Return(response)
  /\ UNCHANGED outstanding

(* lcb_wait returns an error: return {err}. *)
WaitError ==
  /\ phase = "wait" /\ outstanding = {}
  /\ Return(NewResponse("err"))
  /\ UNCHANGED outstanding

Next ==
  \/ \E k \in Kinds, items \in Requests : Begin(k, items)
  \/ Schedule \/ ScheduleError
  \/ \E c \in outstanding, e \in Err : Callback(c, e)
  \/ WaitSuccess \/ WaitError

Spec == Init /\ [][Next]_vars

-----------------------------------------------------------------------------
(* The term sent to Erlang, by MultiResponse::toTerm. *)
Answered == phase = "idle" /\ op > 0 /\ reply.err = "success"

(* A callback never runs for an operation that has returned: its cookie     *)
(* would point into a stack frame that is gone (Connection::get, 179-187).  *)
CookieIsAlive == \A c \in outstanding : phase = "wait" /\ c.cookie = op

(* order says which item of the request an entry of the list answers: every *)
(* item has one entry, under its own key.                                   *)
Matches(order, list) ==
  /\ DOMAIN list = DOMAIN request
  /\ \A i \in DOMAIN list : list[i].key = request[order[i]]
  /\ \A i, j \in DOMAIN list : order[i] = order[j] => i = j

(* The entries of one node are in the order of their items.                 *)
KeepsNodeOrder(order, list) ==
  \A i, j \in DOMAIN list :
    i < j /\ nodeOf[list[i].key] = nodeOf[list[j].key] => order[i] < order[j]

(* {ok, Responses} has one entry for every item of the request, whatever    *)
(* the nodes and the order they answer in: with one item this is what the   *)
(* patterns of cberl:get, store, remove, arithmetic and durability need.    *)
(* What went through the nodes' pipelines is in the order of the request    *)
(* for each node, so on a cluster of one node callers of bulk_get,          *)
(* bulk_store, bulk_remove and bulk_arithmetic may rely on the order;       *)
(* callers of bulk_durability may not.                                      *)
RepliesCoverRequest ==
  Answered /\ kind # "http" =>
    \E order \in [DOMAIN request -> DOMAIN request] :
      /\ Matches(order, reply.list)
      /\ kind = "multi" => KeepsNodeOrder(order, reply.list)

(* {ok, Status, Body} never carries a status that no callback has set.      *)
HttpStatusIsSet == Answered /\ kind = "http" => reply.status = "set"

(* What bulk_store_test matches on: {ok, [{<<"k1">>, {ok, _}}, ...]}, the   *)
(* order of the request (cberl_test_SUITE.erl:64).  The code only gives the *)
(* order in which the callbacks ran.                                        *)
RepliesInRequestOrder ==
  Answered /\ kind = "multi" => [i \in DOMAIN reply.list |-> reply.list[i].key] = request
=============================================================================
