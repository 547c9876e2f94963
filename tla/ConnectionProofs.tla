-------------------------- MODULE ConnectionProofs --------------------------
(***************************************************************************)
(* Proofs about a Connection, for any keys, servers and number of items:   *)
(* no callback runs for an operation that has returned, every item has one *)
(* answer, in order for each node unless they were polled for, and an http *)
(* response has its status.                                                *)
(***************************************************************************)
EXTENDS Connection, FunctionTheorems, SequenceTheorems, TLAPS

Item == [key : Keys, err : Err]

Response == [err : Err, list : Seq(Item), status : {"uninitialised", "set"}]

TypeOK ==
  /\ nodeOf \in [Keys -> Servers]
  /\ op \in Nat
  /\ phase \in {"idle", "schedule", "wait"}
  /\ kind \in Kinds
  /\ request \in Seq(Keys)
  /\ response \in Response
  /\ outstanding \subseteq [cookie : Nat, pos : Nat, key : Keys]
  /\ reply \in Response

(* What is outstanding belongs to the operation that waits for it.          *)
OwnCommands ==
  \A c \in outstanding : /\ phase = "wait" /\ c.cookie = op
                         /\ c.pos \in DOMAIN request /\ c.key = request[c.pos]

(* order says which item each entry of the list answers; the others are     *)
(* open.                                                                    *)
SoFar(order, list, open, items) ==
  /\ \A n \in DOMAIN items :
       (\E i \in DOMAIN list : order[i] = n) <=> ~ \E c \in open : c.pos = n
  /\ \A i \in DOMAIN list : list[i].key = items[order[i]]
  /\ \A i, j \in DOMAIN list : order[i] = order[j] => i = j

(* The entries of one node are in order, and what is open is behind them.   *)
NodeOrderSoFar(order, list, open, owner) ==
  /\ \A i, j \in DOMAIN list :
       i < j /\ owner[list[i].key] = owner[list[j].key] => order[i] < order[j]
  /\ \A i \in DOMAIN list, c \in open :
       owner[list[i].key] = owner[c.key] => order[i] < c.pos

Answering ==
  kind # "http" /\ phase = "wait" =>
    /\ response.err = "success"
    /\ \E order \in [DOMAIN response.list -> DOMAIN request] :
         /\ SoFar(order, response.list, outstanding, request)
         /\ kind = "multi" => NodeOrderSoFar(order, response.list, outstanding, nodeOf)

(* The one command of an http operation sets the status unless it fails.    *)
Completing ==
  kind = "http" =>
    /\ phase \in {"schedule", "wait"} => Len(request) = 1
    /\ phase = "wait" /\ response.err = "success" /\ response.status # "set"
         => outstanding # {}

IInv ==
  /\ TypeOK
  /\ OwnCommands
  /\ phase = "schedule" => response = NewResponse("success")
  /\ Answering
  /\ Completing
  /\ RepliesCoverRequest
  /\ HttpStatusIsSet

-----------------------------------------------------------------------------
LEMMA NewResponseForm ==
  ASSUME NEW e \in Err
  PROVE  NewResponse(e) \in Response
<1>1. <<>> \in Seq(Item)
  BY EmptySeq
<1> QED BY <1>1 DEF NewResponse, Response

LEMMA AnyError == "success" \in Err /\ "err" \in Err
  BY DEF Err

LEMMA ResponseForm ==
  ASSUME NEW r \in Response
  PROVE  /\ r.err \in Err /\ r.list \in Seq(Item) /\ r.status \in {"uninitialised", "set"}
         /\ Len(r.list) \in Nat /\ DOMAIN r.list = 1..Len(r.list)
         /\ \A i \in DOMAIN r.list : r.list[i] \in Item
<1>1. r.err \in Err /\ r.list \in Seq(Item) /\ r.status \in {"uninitialised", "set"}
  BY DEF Response
<1> QED BY <1>1, LenProperties, ElementOfSeq

LEMMA RequestForm ==
  ASSUME TypeOK
  PROVE  /\ Len(request) \in Nat /\ DOMAIN request = 1..Len(request)
         /\ \A i \in DOMAIN request : request[i] \in Keys
  BY LenProperties, ElementOfSeq DEF TypeOK

LEMMA InvInit == Init => IInv
<1> SUFFICES ASSUME Init PROVE IInv
  OBVIOUS
<1>1. TypeOK
  <2>1. <<>> \in Seq(Keys)
    BY EmptySeq
  <2> QED BY <2>1, AnyError, NewResponseForm DEF Init, TypeOK, Kinds
<1> QED BY <1>1
       DEF Init, IInv, OwnCommands, Answering, Completing, RepliesCoverRequest, HttpStatusIsSet,
           Answered

(* An operation that ends without its response returns an error.            *)
LEMMA ErrorStep ==
  ASSUME IInv, outstanding = {}, Return(NewResponse("err")), UNCHANGED outstanding
  PROVE  IInv'
<1>1. /\ reply' = NewResponse("err") /\ phase' = "idle"
      /\ UNCHANGED <<nodeOf, op, kind, request, response, outstanding>>
  BY DEF Return
<1>2. TypeOK'
  BY <1>1, AnyError, NewResponseForm DEF IInv, TypeOK
<1>3. reply'.err # "success"
  BY <1>1 DEF NewResponse
<1> QED BY <1>1, <1>2, <1>3
       DEF IInv, OwnCommands, Answering, Completing, RepliesCoverRequest, HttpStatusIsSet, Answered

LEMMA BeginStep ==
  ASSUME IInv, NEW k \in Kinds, NEW items \in Requests, Begin(k, items)
  PROVE  IInv'
<1>1. /\ phase = "idle" /\ phase' = "schedule" /\ op' = op + 1 /\ kind' = k /\ request' = items
      /\ k = "http" => Len(items) = 1
      /\ response' = NewResponse("success")
      /\ UNCHANGED <<nodeOf, outstanding, reply>>
  BY DEF Begin
<1>2. items \in Seq(Keys)
  <2>1. PICK n \in 0..MaxItems : items \in [1..n -> Keys]
    BY DEF Requests
  <2>2. n \in Nat
    BY <2>1, MaxItemsAssumption
  <2> QED BY <2>1, <2>2, SeqDef
<1>3. TypeOK'
  BY <1>1, <1>2, AnyError, NewResponseForm DEF IInv, TypeOK
<1>4. outstanding' = {}
  BY <1>1 DEF IInv, OwnCommands
<1> QED BY <1>1, <1>3, <1>4
       DEF IInv, OwnCommands, Answering, Completing, RepliesCoverRequest, HttpStatusIsSet, Answered

LEMMA ScheduleStep ==
  ASSUME IInv, Schedule
  PROVE  IInv'
<1>1. /\ phase = "schedule" /\ phase' = "wait" /\ outstanding' = outstanding \cup Commands
      /\ UNCHANGED <<nodeOf, op, kind, request, response, reply>>
  BY DEF Schedule
<1>2. outstanding = {} /\ response = NewResponse("success")
  BY <1>1 DEF IInv, OwnCommands
<1>3. /\ DOMAIN request \subseteq Nat /\ \A i \in DOMAIN request : request[i] \in Keys
      /\ op \in Nat
  BY RequestForm DEF IInv, TypeOK
<1>4. /\ \A c \in outstanding' : /\ c \in [cookie : Nat, pos : Nat, key : Keys]
                                 /\ c.cookie = op /\ c.pos \in DOMAIN request
                                 /\ c.key = request[c.pos]
      /\ \A i \in DOMAIN request : \E c \in outstanding' : c.pos = i
  <2>1. \A c \in outstanding' : \E i \in DOMAIN request :
            c = [cookie |-> op, pos |-> i, key |-> request[i]]
    BY <1>1, <1>2 DEF Commands
  <2>2. \A i \in DOMAIN request :
            [cookie |-> op, pos |-> i, key |-> request[i]] \in outstanding'
    BY <1>1 DEF Commands
  <2>3. ASSUME NEW c \in outstanding'
        PROVE  /\ c \in [cookie : Nat, pos : Nat, key : Keys]
               /\ c.cookie = op /\ c.pos \in DOMAIN request /\ c.key = request[c.pos]
    <3>1. PICK i \in DOMAIN request : c = [cookie |-> op, pos |-> i, key |-> request[i]]
      BY <2>1
    <3> QED BY <1>3, <3>1
  <2>4. ASSUME NEW i \in DOMAIN request PROVE \E c \in outstanding' : c.pos = i
    <3>1. [cookie |-> op, pos |-> i, key |-> request[i]].pos = i
      OBVIOUS
    <3> QED BY <2>2, <3>1
  <2> QED BY <2>3, <2>4
<1>5. TypeOK' /\ OwnCommands'
  BY <1>1, <1>4 DEF IInv, TypeOK, OwnCommands
<1>6. Answering'
  <2>1. response.err = "success" /\ response.list = <<>> /\ DOMAIN response.list = {}
    BY <1>2 DEF NewResponse
  <2> DEFINE none == [i \in DOMAIN response.list |-> 0]
  <2>2. none \in [DOMAIN response.list -> DOMAIN request]
    BY <2>1
  <2>3. /\ SoFar(none, response.list, outstanding', request)
        /\ NodeOrderSoFar(none, response.list, outstanding', nodeOf)
    BY <1>1, <1>4, <2>1 DEF SoFar, NodeOrderSoFar
  <2> QED BY <1>1, <2>1, <2>2, <2>3 DEF Answering
<1>7. Completing'
  <2>1. ASSUME kind = "http" PROVE Len(request) = 1 /\ outstanding' # {}
    <3>1. Len(request) = 1
      BY <1>1, <2>1 DEF IInv, Completing
    <3>2. 1 \in DOMAIN request
      BY <3>1, RequestForm DEF IInv
    <3> QED BY <1>4, <3>1, <3>2
  <2> QED BY <1>1, <2>1 DEF Completing
<1> QED BY <1>1, <1>5, <1>6, <1>7 DEF IInv, RepliesCoverRequest, HttpStatusIsSet, Answered

LEMMA CallbackStep ==
  ASSUME IInv, NEW c \in outstanding, NEW e \in Err, Callback(c, e)
  PROVE  IInv'
<1>1. /\ phase = "wait" /\ Due(c) /\ outstanding' = outstanding \ {c}
      /\ UNCHANGED <<nodeOf, op, phase, kind, request, reply>>
  BY DEF Callback
<1>2. /\ c.cookie = op /\ c.pos \in DOMAIN request /\ c.key = request[c.pos]
      /\ c \in [cookie : Nat, pos : Nat, key : Keys] /\ op \in Nat
      /\ response \in Response /\ nodeOf \in [Keys -> Servers]
  BY DEF IInv, TypeOK, OwnCommands
<1>3. response' = IF kind = "http" THEN Complete(e) ELSE Add([key |-> c.key, err |-> e])
  BY <1>2 DEF Callback
<1>4. OwnCommands'
  BY <1>1 DEF IInv, OwnCommands
<1>5. CASE kind = "http"
  <2>1. response' = [response EXCEPT !.err = e,
                                     !.status = IF e = "success" THEN "set" ELSE response.status]
    BY <1>3, <1>5 DEF Complete
  <2>2. response' \in Response /\ (response'.err = "success" => response'.status = "set")
    BY <1>2, <2>1 DEF Response
  <2>3. TypeOK'
    BY <1>1, <2>2 DEF IInv, TypeOK
  <2> QED BY <1>1, <1>4, <1>5, <2>2, <2>3
         DEF IInv, Answering, Completing, RepliesCoverRequest, HttpStatusIsSet, Answered
<1>6. CASE kind # "http"
  <2> DEFINE item == [key |-> c.key, err |-> e]
             n    == Len(response.list)
  <2>1. /\ response.err = "success" /\ response.list \in Seq(Item) /\ n \in Nat
        /\ DOMAIN response.list = 1..n /\ item \in Item
    BY <1>1, <1>2, <1>6, ResponseForm DEF IInv, Answering, Item
  <2>2. response' = [response EXCEPT !.list = Append(response.list, item)]
    BY <1>3, <1>6 DEF Add
  <2> HIDE DEF item
  <2>3. /\ Append(response.list, item) \in Seq(Item)
        /\ DOMAIN Append(response.list, item) = 1..(n + 1)
        /\ \A i \in 1..n : Append(response.list, item)[i] = response.list[i]
        /\ Append(response.list, item)[n + 1] = item
    BY <2>1, AppendProperties, LenProperties
  <2>4. /\ response' \in Response /\ response'.err = "success"
        /\ response'.list = Append(response.list, item)
    BY <1>2, <2>1, <2>2, <2>3 DEF Response
  <2>5. /\ DOMAIN response'.list = 1..(n + 1) /\ DOMAIN response.list = 1..n
        /\ \A i \in 1..n : response'.list[i].key = response.list[i].key
        /\ response'.list[n + 1].key = c.key
    BY <2>1, <2>3, <2>4 DEF item
  <2>6. \A d \in outstanding : /\ d.pos \in Nat /\ d.pos \in DOMAIN request
                               /\ d.pos = c.pos => d = c
                               /\ kind = "multi" /\ nodeOf[d.key] = nodeOf[c.key] /\ d # c
                                    => c.pos < d.pos
    <3> TAKE d \in outstanding
    <3>1. /\ d \in [cookie : Nat, pos : Nat, key : Keys] /\ d.cookie = op
          /\ d.pos \in DOMAIN request /\ d.key = request[d.pos]
      BY DEF IInv, TypeOK, OwnCommands
    <3>2. d.pos = c.pos => d = c
      BY <1>2, <3>1
    <3>3. kind = "multi" /\ nodeOf[d.key] = nodeOf[c.key] => ~(d.pos < c.pos)
      BY <1>1, <1>2, <3>1 DEF Due, First, Before
    <3> QED BY <1>2, <3>1, <3>2, <3>3
  <2>7. PICK order \in [1..n -> DOMAIN request] :
          /\ SoFar(order, response.list, outstanding, request)
          /\ kind = "multi" => NodeOrderSoFar(order, response.list, outstanding, nodeOf)
    BY <1>1, <1>6, <2>5 DEF IInv, Answering
  <2> DEFINE next == [i \in 1..(n + 1) |-> IF i = n + 1 THEN c.pos ELSE order[i]]
  <2>8. /\ next \in [1..(n + 1) -> DOMAIN request] /\ next[n + 1] = c.pos
        /\ \A i \in 1..n : next[i] = order[i]
    BY <1>2, <2>1, <2>7
  <2> HIDE DEF next, n
  <2>9. \A i \in 1..n : /\ order[i] \in DOMAIN request /\ order[i] # c.pos
                        /\ kind = "multi" /\ nodeOf[response.list[i].key] = nodeOf[c.key]
                             => order[i] < c.pos
    BY <2>5, <2>6, <2>7 DEF SoFar, NodeOrderSoFar
  <2>10. /\ SoFar(next, response'.list, outstanding', request)
         /\ kind = "multi" => NodeOrderSoFar(next, response'.list, outstanding', nodeOf)
    <3>1. \A m \in DOMAIN request :
            (\E i \in 1..(n + 1) : next[i] = m) <=> ~ \E d \in outstanding' : d.pos = m
      <4> TAKE m \in DOMAIN request
      <4>1. (\E i \in 1..n : order[i] = m) <=> ~ \E d \in outstanding : d.pos = m
        BY <2>5, <2>7 DEF SoFar
      <4>2. CASE m = c.pos
        <5>1. n + 1 \in 1..(n + 1) /\ next[n + 1] = m
          BY <2>1, <2>8, <4>2
        <5>2. \A d \in outstanding' : d.pos # m
          BY <1>1, <2>6, <4>2
        <5> QED BY <5>1, <5>2
      <4>3. CASE m # c.pos
        <5>1. (\E i \in 1..(n + 1) : next[i] = m) <=> (\E i \in 1..n : order[i] = m)
          <6>1. \A i \in 1..(n + 1) : i = n + 1 \/ i \in 1..n
            BY <2>1
          <6>2. \A i \in 1..n : i \in 1..(n + 1)
            BY <2>1
          <6> QED BY <2>8, <4>3, <6>1, <6>2
        <5>2. (\E d \in outstanding' : d.pos = m) <=> (\E d \in outstanding : d.pos = m)
          BY <1>1, <4>3
        <5> QED BY <4>1, <5>1, <5>2
      <4> QED BY <4>2, <4>3
    <3>2. \A i \in 1..(n + 1) : response'.list[i].key = request[next[i]]
      <4>1. \A i \in 1..n : response.list[i].key = request[order[i]]
        BY <2>5, <2>7 DEF SoFar
      <4> QED BY <1>2, <2>1, <2>5, <2>8, <4>1
    <3>3. \A i, j \in 1..(n + 1) :
            /\ next[i] = next[j] => i = j
            /\ kind = "multi" /\ i < j
                 /\ nodeOf[response'.list[i].key] = nodeOf[response'.list[j].key]
                 => next[i] < next[j]
      <4> TAKE i, j \in 1..(n + 1)
      <4>1. CASE i \in 1..n /\ j \in 1..n
        BY <2>5, <2>7, <2>8, <4>1 DEF SoFar, NodeOrderSoFar
      <4>2. CASE i = n + 1 /\ j \in 1..n
        BY <2>1, <2>8, <2>9, <4>2
      <4>3. CASE j = n + 1 /\ i \in 1..n
        BY <2>1, <2>5, <2>8, <2>9, <4>3
      <4> QED BY <2>1, <4>1, <4>2, <4>3
    <3>4. \A i \in 1..(n + 1), d \in outstanding' :
            kind = "multi" /\ nodeOf[response'.list[i].key] = nodeOf[d.key]
              => next[i] < d.pos
      <4> TAKE i \in 1..(n + 1), d \in outstanding'
      <4>1. d \in outstanding /\ d # c
        BY <1>1
      <4>2. CASE i = n + 1
        BY <2>5, <2>6, <2>8, <4>1, <4>2
      <4>3. CASE i \in 1..n
        BY <2>5, <2>7, <2>8, <4>1, <4>3 DEF NodeOrderSoFar
      <4> QED BY <2>1, <4>2, <4>3
    <3> QED BY <1>1, <2>5, <3>1, <3>2, <3>3, <3>4 DEF SoFar, NodeOrderSoFar
  <2>11. Answering'
    BY <1>1, <2>4, <2>5, <2>8, <2>10 DEF Answering
  <2>12. TypeOK'
    BY <1>1, <2>4 DEF IInv, TypeOK
  <2> QED BY <1>1, <1>4, <1>6, <2>11, <2>12
         DEF IInv, Completing, RepliesCoverRequest, HttpStatusIsSet, Answered
<1> QED BY <1>5, <1>6 DEF IInv, TypeOK

(* A one-to-one correspondence of two intervals from 1 makes them equal.    *)
LEMMA SameLength ==
  ASSUME NEW n \in Nat, NEW m \in Nat, NEW f \in Bijection(1..n, 1..m)
  PROVE  n = m
<1>1. [k \in 1..m |-> k] \in Bijection(1..m, 1..m)
  BY DEF Bijection, Injection, IsInjective, Surjection
<1>2. ExistsBijection(1..n, 1..m) /\ ExistsBijection(1..m, 1..m)
  BY <1>1 DEF ExistsBijection
<1> QED BY <1>2, Fun_NatBijSame

(* lcb_wait has returned: nothing is outstanding, and every item answered.  *)
LEMMA WaitSuccessStep ==
  ASSUME IInv, WaitSuccess
  PROVE  IInv'
<1>1. /\ phase = "wait" /\ outstanding = {} /\ reply' = response /\ phase' = "idle"
      /\ UNCHANGED <<nodeOf, op, kind, request, response, outstanding>>
  BY DEF WaitSuccess, Return
<1>2. TypeOK' /\ OwnCommands'
  BY <1>1 DEF IInv, TypeOK, OwnCommands
<1>3. ASSUME kind # "http"
      PROVE  \E order \in [DOMAIN request -> DOMAIN request] :
               /\ Matches(order, response.list)
               /\ kind = "multi" => KeepsNodeOrder(order, response.list)
  <2>1. PICK order \in [DOMAIN response.list -> DOMAIN request] :
          /\ SoFar(order, response.list, outstanding, request)
          /\ kind = "multi" => NodeOrderSoFar(order, response.list, outstanding, nodeOf)
    BY <1>1, <1>3 DEF IInv, Answering
  <2>2. PICK n \in Nat, m \in Nat : DOMAIN response.list = 1..n /\ DOMAIN request = 1..m
    BY RequestForm, ResponseForm DEF IInv, TypeOK
  <2>3. /\ \A i, j \in DOMAIN response.list : order[i] = order[j] => i = j
        /\ \A k \in DOMAIN request : \E i \in DOMAIN response.list : order[i] = k
    BY <1>1, <2>1 DEF SoFar
  <2>4. n = m
    <3>1. order \in Bijection(1..n, 1..m)
      BY <2>2, <2>3 DEF Bijection, Injection, IsInjective, Surjection
    <3> QED BY <3>1, SameLength
  <2>5. Matches(order, response.list)
    BY <2>1, <2>2, <2>4 DEF Matches, SoFar
  <2>6. kind = "multi" => KeepsNodeOrder(order, response.list)
    BY <2>1 DEF KeepsNodeOrder, NodeOrderSoFar
  <2>7. order \in [DOMAIN request -> DOMAIN request]
    BY <2>1, <2>2, <2>4
  <2> QED BY <2>5, <2>6, <2>7
<1>4. RepliesCoverRequest'
  <2>1. \A order : /\ Matches(order, response.list)' <=> Matches(order, response.list)
                   /\ KeepsNodeOrder(order, response.list)' <=> KeepsNodeOrder(order, response.list)
    BY <1>1 DEF Matches, KeepsNodeOrder
  <2> QED BY <1>1, <1>3, <2>1 DEF RepliesCoverRequest
<1>5. HttpStatusIsSet'
  BY <1>1 DEF IInv, Completing, HttpStatusIsSet, Answered
<1> QED BY <1>1, <1>2, <1>4, <1>5 DEF IInv, Answering, Completing

LEMMA InvStep == IInv /\ [Next]_vars => IInv'
<1> SUFFICES ASSUME IInv, [Next]_vars PROVE IInv'
  OBVIOUS
<1>1. CASE \E k \in Kinds, items \in Requests : Begin(k, items)
  BY <1>1, BeginStep
<1>2. CASE Schedule
  BY <1>2, ScheduleStep
<1>3. CASE ScheduleError
  <2>1. outstanding = {}
    BY <1>3 DEF ScheduleError, IInv, OwnCommands
  <2> QED BY <1>3, <2>1, ErrorStep DEF ScheduleError
<1>4. CASE \E c \in outstanding, e \in Err : Callback(c, e)
  BY <1>4, CallbackStep
<1>5. CASE WaitSuccess
  BY <1>5, WaitSuccessStep
<1>6. CASE WaitError
  BY <1>6, ErrorStep DEF WaitError
<1>7. CASE UNCHANGED vars
  <2>1. \A order, list : /\ Matches(order, list)' <=> Matches(order, list)
                         /\ KeepsNodeOrder(order, list)' <=> KeepsNodeOrder(order, list)
    BY <1>7 DEF vars, Matches, KeepsNodeOrder
  <2>2. RepliesCoverRequest'
    BY <1>7, <2>1 DEF vars, IInv, RepliesCoverRequest, Answered
  <2> QED BY <1>7, <2>2
         DEF vars, IInv, TypeOK, OwnCommands, Answering, Completing, HttpStatusIsSet, Answered
<1> QED BY <1>1, <1>2, <1>3, <1>4, <1>5, <1>6, <1>7 DEF Next

LEMMA Invariant == Spec => []IInv
BY InvInit, InvStep, PTL DEF Spec

-----------------------------------------------------------------------------
(* Every variable keeps its type: a request is a list of keys, a response   *)
(* has one error, a list of answers and a status.                           *)
THEOREM TypeCorrect == Spec => []TypeOK
<1>1. IInv => TypeOK
  BY DEF IInv
<1> QED BY <1>1, Invariant, PTL

(* lcb_wait never runs a callback whose cookie is the response of an        *)
(* operation that has returned.                                             *)
THEOREM CookiesAreAlive == Spec => []CookieIsAlive
<1>1. IInv => CookieIsAlive
  BY DEF IInv, OwnCommands, CookieIsAlive
<1> QED BY <1>1, Invariant, PTL

(* Whatever the nodes and the order they answer in, {ok, Responses} has one *)
(* entry for every item, and those of one node are in the items' order if   *)
(* the node answered them from its pipeline, as all but durability are.     *)
THEOREM EveryItemIsAnswered == Spec => []RepliesCoverRequest
<1>1. IInv => RepliesCoverRequest
  BY DEF IInv
<1> QED BY <1>1, Invariant, PTL

(* An http operation that succeeds carries the status its callback set.     *)
THEOREM StatusesAreSet == Spec => []HttpStatusIsSet
<1>1. IInv => HttpStatusIsSet
  BY DEF IInv
<1> QED BY <1>1, Invariant, PTL
=============================================================================
