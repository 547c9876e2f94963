---------------------------- MODULE CberlProofs ----------------------------
(***************************************************************************)
(* Proofs about Cberl for any set of processes and any number of calls.    *)
(***************************************************************************)
EXTENDS CberlInvariants, SequenceTheorems, TLAPS

LEMMA TypeInit == Init => TypeOK
<1> SUFFICES ASSUME Init PROVE TypeOK
  OBVIOUS
<1>1. \A S : <<>> \in Seq(S)
  BY EmptySeq
<1>2. /\ calls \in Seq(CallRecord)
      /\ issued \in Seq(Nat)
      /\ queue \in Seq(Task)
      /\ executed \in Seq(Nat)
      /\ inbox \in [Callers -> Seq(Nat)]
  BY <1>1 DEF Init
<1>3. NoTask \in Task
  BY DEF NoTask, Task
<1>4. /\ pc \in [Callers -> {"idle", "ack", "resp", "dead"}]
      /\ cur \in [Callers -> Nat]
      /\ respRef \in [Callers -> Nat]
      /\ mbox \in [Callers -> SUBSET Message]
  BY DEF Init
<1> QED BY <1>2, <1>3, <1>4 DEF Init, TypeOK

(* Settle changes the outcome and the answer of one call. *)
LEMMA SettleType ==
  ASSUME TypeOK, NEW c \in Callers, NEW result \in Outcomes, NEW val \in Nat,
         Settle(c, result, val)
  PROVE  calls' \in Seq(CallRecord)
<1> DEFINE rec == [from |-> calls[cur[c]].from, valid |-> calls[cur[c]].valid,
                   outcome |-> result, answer |-> val]
<1>1. calls \in Seq(CallRecord) /\ calls' = [calls EXCEPT ![cur[c]] = rec]
  BY DEF TypeOK, Settle
<1>2. CASE cur[c] \in 1..Len(calls)
  <2>1. calls[cur[c]] \in CallRecord
    BY <1>1, <1>2, ElementOfSeq
  <2>2. rec \in CallRecord
    BY <2>1 DEF CallRecord
  <2> QED BY <1>1, <1>2, <2>2, ExceptSeq
<1>3. CASE cur[c] \notin 1..Len(calls)
  <2>1. DOMAIN calls = 1..Len(calls) /\ calls \in [1..Len(calls) -> CallRecord]
    BY <1>1, LenProperties
  <2>2. calls' = calls
    BY <1>1, <1>3, <2>1
  <2> QED BY <1>1, <2>2
<1> QED BY <1>2, <1>3

(* Deliver adds a message to one mailbox, if its owner lives. *)
LEMMA DeliverType ==
  ASSUME TypeOK, NEW d, NEW m \in Message, Deliver(d, m)
  PROVE  mbox' \in [Callers -> SUBSET Message]
  BY DEF TypeOK, Deliver

LEMMA TypeStep == TypeOK /\ [Next]_vars => TypeOK'
<1> SUFFICES ASSUME TypeOK, [Next]_vars PROVE TypeOK'
  OBVIOUS
<1> USE DEF TypeOK, callerVars, serverVars, workerVars
<1>1. ASSUME NEW c \in Callers, NEW valid \in BOOLEAN, Call(c, valid)
      PROVE  TypeOK'
  BY <1>1 DEF Call, CallRecord, Outcomes
<1>2. ASSUME NEW c \in Callers, ReceiveAck(c) PROVE TypeOK'
  BY <1>2 DEF ReceiveAck, Matching, Message
<1>3. ASSUME NEW c \in Callers, ReceiveResponse(c) PROVE TypeOK'
  <2>1. PICK m \in Matching(c) : /\ mbox' = [mbox EXCEPT ![c] = @ \ {m}]
                                 /\ Settle(c, "answered", m.val)
    BY <1>3 DEF ReceiveResponse
  <2>2. m.val \in Nat
    BY DEF Matching, Message
  <2>3. calls' \in Seq(CallRecord)
    BY <2>1, <2>2, SettleType DEF Outcomes
  <2> QED BY <1>3, <2>1, <2>3 DEF ReceiveResponse
<1>4. ASSUME NEW c \in Callers, Timeout(c) PROVE TypeOK'
  <2>1. calls' \in Seq(CallRecord)
    BY <1>4, SettleType DEF Timeout, Outcomes
  <2> QED BY <1>4, <2>1 DEF Timeout
<1>5. ASSUME NEW c \in Callers, CallerExit(c) PROVE TypeOK'
  <2>1. calls' \in Seq(CallRecord)
    BY <1>5, SettleType DEF CallerExit, Outcomes
  <2> QED BY <1>5, <2>1 DEF CallerExit
<1>6. ASSUME NEW c \in Callers, HandleCast(c) PROVE TypeOK'
  <2>1. Head(inbox[c]) \in Nat /\ Tail(inbox[c]) \in Seq(Nat)
    BY <1>6, HeadTailProperties DEF HandleCast
  <2>2. [ref |-> Head(inbox[c]), rid |-> Len(issued) + 1] \in Task
    BY <2>1 DEF Task
  <2>3. issued' \in Seq(Nat) /\ queue' \in Seq(Task) /\ handling' \in Task
    BY <1>6, <2>1, <2>2 DEF HandleCast, NifRequest, FreshReqId
  <2> QED BY <1>6, <2>1, <2>3 DEF HandleCast
<1>7. ASSUME NEW c \in Callers, CrashOnBadarg(c) PROVE TypeOK'
  BY <1>7 DEF CrashOnBadarg, ServerDown, NoTask, Task
<1>8. CASE SendAck
  <2>1. [tag |-> "ack", id |-> handling.ref, val |-> handling.rid] \in Message
    BY DEF Message, Task
  <2>2. mbox' \in [Callers -> SUBSET Message]
    BY <1>8, <2>1, DeliverType DEF SendAck
  <2>3. NoTask \in Task
    BY DEF NoTask, Task
  <2> QED BY <1>8, <2>2, <2>3 DEF SendAck
<1>9. CASE ServerExit
  BY <1>9 DEF ServerExit, ServerDown, NoTask, Task
<1>10. CASE WorkerTake
  BY <1>10 DEF WorkerTake
<1>11. CASE WorkerExecute
  BY <1>11 DEF WorkerExecute, Task
<1>12. CASE WorkerRespond
  <2>1. [tag |-> "resp", id |-> task.rid, val |-> task.ref] \in Message
    BY DEF Message, Task
  <2>2. mbox' \in [Callers -> SUBSET Message]
    BY <1>12, <2>1, DeliverType DEF WorkerRespond
  <2>3. NoTask \in Task
    BY DEF NoTask, Task
  <2> QED BY <1>12, <2>2, <2>3 DEF WorkerRespond
<1>13. CASE WorkerExit
  BY <1>13 DEF WorkerExit
<1>14. CASE StopClient
  BY <1>14 DEF StopClient
<1>15. CASE DropQueue
  BY <1>15 DEF DropQueue
<1>16. CASE UNCHANGED vars
  BY <1>16 DEF vars
<1> QED
  BY <1>1, <1>2, <1>3, <1>4, <1>5, <1>6, <1>7, <1>8, <1>9, <1>10, <1>11,
     <1>12, <1>13, <1>14, <1>15, <1>16
  DEF Next, CallerNext, ServerNext, WorkerNext, TeardownNext

(* Every state of a connection is well typed, for any processes and any    *)
(* number of calls.                                                        *)
THEOREM TypeCorrect == Spec => []TypeOK
<1> QED BY TypeInit, TypeStep, PTL DEF Spec

-----------------------------------------------------------------------------
(* What the actions do to the sequences of the state. *)

LEMMA Domains ==
  ASSUME TypeOK
  PROVE  /\ Refs = 1..Len(calls) /\ Len(calls) \in Nat
         /\ Rids = 1..Len(issued) /\ Len(issued) \in Nat
         /\ DOMAIN queue = 1..Len(queue) /\ Len(queue) \in Nat
         /\ DOMAIN executed = 1..Len(executed) /\ Len(executed) \in Nat
         /\ \A c \in Callers : /\ DOMAIN inbox[c] = 1..Len(inbox[c])
                               /\ Len(inbox[c]) \in Nat
         /\ \A r \in Refs : calls[r] \in CallRecord
         /\ \A k \in Rids : issued[k] \in Nat
<1>1. /\ calls \in Seq(CallRecord) /\ issued \in Seq(Nat)
      /\ queue \in Seq(Task) /\ executed \in Seq(Nat)
      /\ \A c \in Callers : inbox[c] \in Seq(Nat)
  BY DEF TypeOK
<1> QED BY <1>1, LenProperties, ElementOfSeq DEF Refs, Rids

(* A call is settled: only its outcome and its answer change. *)
LEMMA SettleEffect ==
  ASSUME TypeOK, NEW c \in Callers, NEW result \in Outcomes, NEW val \in Nat,
         cur[c] \in Refs, Settle(c, result, val)
  PROVE  /\ Refs' = Refs
         /\ \A r \in Refs :
              /\ calls'[r].from = calls[r].from
              /\ calls'[r].outcome = IF r = cur[c] THEN result
                                                   ELSE calls[r].outcome
              /\ calls'[r].answer = IF r = cur[c] THEN val ELSE calls[r].answer
  BY DEF Settle, Refs

(* Nothing about requests changes when calls keep their processes and      *)
(* messages are only taken out of mailboxes.                               *)
LEMMA RequestsFrame ==
  ASSUME TypeOK, IssuedInOrder, QueueInOrder, MessagesMatch,
         Refs \subseteq Refs', \A r \in Refs : calls'[r].from = calls[r].from,
         \A c \in Callers : mbox'[c] \subseteq mbox[c],
         UNCHANGED <<issued, executed, queue, worker, task, server, stopped,
                     handling>>
  PROVE  IssuedInOrder' /\ QueueInOrder' /\ MessagesMatch'
<1>1. Rids' = Rids /\ Taken' = Taken
  BY DEF Rids, Taken
<1>2. IssuedInOrder'
  BY <1>1 DEF IssuedInOrder
<1>3. QueueInOrder'
  BY <1>1 DEF QueueInOrder
<1>4. ASSUME NEW c \in Callers, NEW m \in mbox'[c], m.tag = "ack"
      PROVE  m.val \in Rids /\ issued[m.val] = m.id /\ calls'[m.id].from = c
  BY <1>4 DEF MessagesMatch, IssuedInOrder
<1>5. ASSUME NEW c \in Callers, NEW m \in mbox'[c], m.tag = "resp"
      PROVE  /\ m.id \in DOMAIN executed /\ executed[m.id] = m.val
             /\ calls'[m.val].from = c
  <2>1. /\ m.id \in DOMAIN executed /\ executed[m.id] = m.val
        /\ calls[m.val].from = c
    BY <1>5 DEF MessagesMatch
  <2>2. m.id \in Rids /\ executed[m.id] = issued[m.id]
    BY <2>1, Domains DEF QueueInOrder
  <2> QED BY <2>1, <2>2 DEF IssuedInOrder
<1>6. MessagesMatch'
  BY <1>1, <1>4, <1>5 DEF MessagesMatch
<1> QED BY <1>2, <1>3, <1>6

LEMMA CastsFrame ==
  ASSUME TypeOK, CastsInOrder, IssuedInOrder,
         Refs \subseteq Refs', \A r \in Refs : calls'[r].from = calls[r].from,
         UNCHANGED <<issued, inbox>>
  PROVE  CastsInOrder'
  BY DEF CastsInOrder, IssuedInOrder, Rids

-----------------------------------------------------------------------------
(* The invariant is preserved by the actions of the caller. *)

LEMMA CallTracked ==
  ASSUME IInv, NEW c \in Callers, NEW valid \in BOOLEAN, Call(c, valid)
  PROVE  RequestsAreTracked'
<1> USE DEF IInv, RequestsAreTracked
<1> DEFINE n == Len(calls) + 1
           rec == [from |-> c, valid |-> valid,
                   outcome |-> "pending", answer |-> 0]
<1>1. /\ pc[c] = "idle" /\ calls' = Append(calls, rec)
      /\ cur' = [cur EXCEPT ![c] = n] /\ pc' = [pc EXCEPT ![c] = "ack"]
      /\ UNCHANGED <<respRef, mbox, server, handling, issued, queue, stopped,
                     worker, task, executed>>
  BY DEF Call, workerVars
<1>2. Refs = 1..Len(calls) /\ Len(calls) \in Nat /\ Rids = 1..Len(issued)
  BY Domains
<1>3. /\ Refs' = 1..n
      /\ calls'[n] = rec
      /\ \A r \in Refs : calls'[r] = calls[r]
  BY <1>1, <1>2, AppendProperties DEF TypeOK, CallRecord, Outcomes, Refs
<1>4. OnePending'
  <2>1. ASSUME NEW d \in Callers, pc'[d] \in {"ack", "resp"}
        PROVE  /\ cur'[d] \in Refs' /\ calls'[cur'[d]].from = d
               /\ calls'[cur'[d]].outcome = "pending"
    BY <2>1, <1>1, <1>2, <1>3 DEF OnePending, TypeOK
  <2>2. ASSUME NEW r \in Refs', calls'[r].outcome = "pending"
        PROVE  /\ pc'[calls'[r].from] \in {"ack", "resp"}
               /\ cur'[calls'[r].from] = r
    <3>1. CASE r = n
      BY <3>1, <1>1, <1>3 DEF TypeOK
    <3>2. CASE r # n
      <4>1. r \in Refs /\ calls'[r] = calls[r]
        BY <3>2, <1>2, <1>3
      <4>2. /\ pc[calls[r].from] \in {"ack", "resp"}
            /\ cur[calls[r].from] = r
        BY <4>1, <2>2 DEF OnePending
      <4> QED BY <4>1, <4>2, <1>1, Domains DEF TypeOK, CallRecord
    <3> QED BY <3>1, <3>2
  <2> QED BY <2>1, <2>2 DEF OnePending
<1>5. Refs \subseteq Refs' /\ \A r \in Refs : calls'[r].from = calls[r].from
  BY <1>2, <1>3
<1>6. CastsInOrder'
  <2>1. CASE server # "up"
    <3>1. inbox' = inbox
      BY <2>1 DEF Call
    <3> QED BY <3>1, <1>1, <1>5, CastsFrame
  <2>2. CASE server = "up"
    <3>1. inbox' = [inbox EXCEPT ![c] = Append(@, n)]
      BY <2>2 DEF Call
    <3>2. \A d \in Callers : d # c => inbox'[d] = inbox[d]
      BY <3>1 DEF TypeOK
    <3>3. inbox[c] \in Seq(Nat) /\ inbox'[c] = Append(inbox[c], n)
      BY <3>1 DEF TypeOK
    <3>4. /\ DOMAIN inbox'[c] = 1..(Len(inbox[c]) + 1)
          /\ Len(inbox[c]) \in Nat
          /\ DOMAIN inbox[c] = 1..Len(inbox[c])
          /\ \A i \in DOMAIN inbox[c] : inbox'[c][i] = inbox[c][i]
          /\ inbox'[c][Len(inbox[c]) + 1] = n
      BY <3>3, <1>2, AppendProperties, LenProperties
    <3>5. \A d \in Callers : \A i \in DOMAIN inbox'[d] :
            inbox'[d][i] \in Refs' /\ calls'[inbox'[d][i]].from = d
      <4>1. ASSUME NEW d \in Callers, NEW i \in DOMAIN inbox'[d]
            PROVE  inbox'[d][i] \in Refs' /\ calls'[inbox'[d][i]].from = d
        <5>1. CASE d = c /\ i = Len(inbox[c]) + 1
          BY <5>1, <3>4, <1>2, <1>3
        <5>2. CASE ~(d = c /\ i = Len(inbox[c]) + 1)
          <6>1. i \in DOMAIN inbox[d] /\ inbox'[d][i] = inbox[d][i]
            BY <5>2, <3>2, <3>4
          <6> QED BY <6>1, <1>5 DEF CastsInOrder
        <5> QED BY <5>1, <5>2
      <4> QED BY <4>1
    <3>6. \A d \in Callers : \A i, j \in DOMAIN inbox'[d] :
            i < j => inbox'[d][i] < inbox'[d][j]
      <4>1. ASSUME NEW i \in DOMAIN inbox'[c], NEW j \in DOMAIN inbox'[c], i < j
            PROVE  inbox'[c][i] < inbox'[c][j]
        <5>1. i \in DOMAIN inbox[c] /\ inbox[c][i] \in Refs
          BY <4>1, <3>4 DEF CastsInOrder
        <5>2. CASE j = Len(inbox[c]) + 1
          BY <5>1, <5>2, <3>4, <1>2
        <5>3. CASE j \in DOMAIN inbox[c]
          BY <5>1, <5>3, <4>1, <3>4 DEF CastsInOrder
        <5> QED BY <5>2, <5>3, <3>4
      <4>2. ASSUME NEW d \in Callers, d # c
            PROVE  \A i, j \in DOMAIN inbox'[d] :
                     i < j => inbox'[d][i] < inbox'[d][j]
        BY <4>2, <3>2 DEF CastsInOrder
      <4> QED BY <4>1, <4>2
    <3>7. \A d \in Callers : \A i \in DOMAIN inbox'[d] : \A k \in Rids' :
            calls'[issued'[k]].from = d => issued'[k] < inbox'[d][i]
      <4>1. ASSUME NEW d \in Callers, NEW i \in DOMAIN inbox'[d],
                   NEW k \in Rids, calls'[issued[k]].from = d
            PROVE  issued[k] < inbox'[d][i]
        <5>1. issued[k] \in Refs /\ calls[issued[k]].from = d
          BY <4>1, <1>5 DEF IssuedInOrder
        <5>2. CASE d = c /\ i = Len(inbox[c]) + 1
          BY <5>1, <5>2, <3>4, <1>2
        <5>3. CASE ~(d = c /\ i = Len(inbox[c]) + 1)
          <6>1. i \in DOMAIN inbox[d] /\ inbox'[d][i] = inbox[d][i]
            BY <5>3, <3>2, <3>4
          <6> QED BY <6>1, <5>1 DEF CastsInOrder
        <5> QED BY <5>2, <5>3
      <4> QED BY <4>1, <1>1 DEF Rids
    <3> QED BY <3>5, <3>6, <3>7 DEF CastsInOrder
  <2> QED BY <2>1, <2>2
<1>7. IssuedInOrder' /\ QueueInOrder' /\ MessagesMatch'
  BY <1>1, <1>5, RequestsFrame
<1>8. WaitsForOwn'
  <2>1. \A d \in Callers : pc'[d] = "resp" => pc[d] = "resp" /\ cur'[d] = cur[d]
    BY <1>1 DEF TypeOK
  <2> QED BY <2>1, <1>1 DEF WaitsForOwn, Rids
<1> QED BY <1>4, <1>6, <1>7, <1>8

(* A process that leaves its call, with the call settled. *)
LEMMA SettleTracked ==
  ASSUME IInv, NEW c \in Callers, NEW result \in Outcomes \ {"pending"},
         NEW val \in Nat, NEW next \in {"idle", "dead"},
         pc[c] \in {"ack", "resp"}, Settle(c, result, val),
         pc' = [pc EXCEPT ![c] = next],
         \A d \in Callers : mbox'[d] \subseteq mbox[d],
         UNCHANGED <<cur, respRef, serverVars, issued, queue, stopped, workerVars>>
  PROVE  RequestsAreTracked'
<1> USE DEF IInv, RequestsAreTracked, serverVars, workerVars
<1>1. cur[c] \in Refs /\ calls[cur[c]].from = c
  BY DEF OnePending
<1>2. /\ Refs' = Refs
      /\ \A r \in Refs :
           /\ calls'[r].from = calls[r].from
           /\ calls'[r].outcome = IF r = cur[c] THEN result
                                                ELSE calls[r].outcome
  BY <1>1, SettleEffect
<1>3. OnePending'
  <2>1. ASSUME NEW d \in Callers, pc'[d] \in {"ack", "resp"}
        PROVE  /\ cur'[d] \in Refs' /\ calls'[cur'[d]].from = d
               /\ calls'[cur'[d]].outcome = "pending"
    <3>1. d # c /\ pc[d] \in {"ack", "resp"}
      BY <2>1 DEF TypeOK
    <3>2. cur[d] \in Refs /\ calls[cur[d]].from = d
          /\ calls[cur[d]].outcome = "pending"
      BY <3>1 DEF OnePending
    <3> QED BY <3>1, <3>2, <1>1, <1>2
  <2>2. ASSUME NEW r \in Refs', calls'[r].outcome = "pending"
        PROVE  /\ pc'[calls'[r].from] \in {"ack", "resp"}
               /\ cur'[calls'[r].from] = r
    <3>1. r \in Refs /\ r # cur[c] /\ calls[r].outcome = "pending"
      BY <2>2, <1>2
    <3>2. pc[calls[r].from] \in {"ack", "resp"} /\ cur[calls[r].from] = r
      BY <3>1 DEF OnePending
    <3>3. calls[r].from \in Callers /\ calls[r].from # c
      BY <3>1, <3>2, Domains DEF CallRecord
    <3> QED BY <3>1, <3>2, <3>3, <1>2 DEF TypeOK
  <2> QED BY <2>1, <2>2 DEF OnePending
<1>4. CastsInOrder'
  BY <1>2, CastsFrame
<1>5. IssuedInOrder' /\ QueueInOrder' /\ MessagesMatch'
  BY <1>2, RequestsFrame
<1>6. WaitsForOwn'
  <2>1. \A d \in Callers : pc'[d] = "resp" => pc[d] = "resp"
    BY DEF TypeOK
  <2> QED BY <2>1 DEF WaitsForOwn, Rids
<1> QED BY <1>3, <1>4, <1>5, <1>6

LEMMA ReceiveAckTracked ==
  ASSUME IInv, NEW c \in Callers, ReceiveAck(c)
  PROVE  RequestsAreTracked'
<1> USE DEF IInv, RequestsAreTracked, serverVars, workerVars
<1>1. PICK m \in Matching(c) : /\ mbox' = [mbox EXCEPT ![c] = @ \ {m}]
                               /\ respRef' = [respRef EXCEPT ![c] = m.val]
  BY DEF ReceiveAck
<1>2. m \in mbox[c] /\ m.tag = "ack" /\ m.id = cur[c]
  BY DEF ReceiveAck, Matching
<1>3. m.val \in Rids /\ issued[m.val] = cur[c]
  BY <1>2 DEF MessagesMatch
<1>4. OnePending'
  BY DEF ReceiveAck, OnePending, TypeOK, Refs
<1>5. CastsInOrder'
  BY CastsFrame DEF ReceiveAck, Refs
<1>6. IssuedInOrder' /\ QueueInOrder' /\ MessagesMatch'
  <2>1. \A d \in Callers : mbox'[d] \subseteq mbox[d]
    BY <1>1 DEF TypeOK
  <2> QED BY <2>1, RequestsFrame DEF ReceiveAck, Refs
<1>7. WaitsForOwn'
  BY <1>1, <1>3 DEF ReceiveAck, WaitsForOwn, Rids, TypeOK
<1> QED BY <1>4, <1>5, <1>6, <1>7

LEMMA CallerExitTracked ==
  ASSUME IInv, NEW c \in Callers, CallerExit(c)
  PROVE  RequestsAreTracked'
<1> USE DEF IInv
<1>1. \A d \in Callers : mbox'[d] \subseteq mbox[d]
  BY DEF CallerExit, TypeOK
<1>2. CASE pc[c] = "idle"
  <2> USE DEF RequestsAreTracked, serverVars, workerVars
  <2>1. calls' = calls /\ pc' = [pc EXCEPT ![c] = "dead"]
    BY <1>2 DEF CallerExit
  <2>2. OnePending'
    <3>1. \A r \in Refs : calls[r].outcome = "pending" => calls[r].from # c
      BY <1>2 DEF OnePending
    <3> QED BY <2>1, <3>1 DEF CallerExit, OnePending, TypeOK, Refs
  <2>3. CastsInOrder'
    BY <2>1, CastsFrame DEF CallerExit, Refs
  <2>4. IssuedInOrder' /\ QueueInOrder' /\ MessagesMatch'
    BY <2>1, <1>1, RequestsFrame DEF CallerExit, Refs
  <2>5. WaitsForOwn'
    BY <2>1 DEF CallerExit, WaitsForOwn, Rids, TypeOK
  <2> QED BY <2>2, <2>3, <2>4, <2>5
<1>3. CASE pc[c] # "idle"
  <2>1. pc[c] \in {"ack", "resp"} /\ Settle(c, "aborted", 0)
    BY <1>3 DEF CallerExit, TypeOK
  <2> QED BY <2>1, <1>1, SettleTracked DEF CallerExit, Outcomes
<1> QED BY <1>2, <1>3

-----------------------------------------------------------------------------
(* ... by the server and the NIF ... *)

LEMMA HandleCastTracked ==
  ASSUME IInv, NEW c \in Callers, HandleCast(c)
  PROVE  RequestsAreTracked'
<1> USE DEF IInv, RequestsAreTracked, callerVars, workerVars
<1> DEFINE ref == Head(inbox[c])
           n   == Len(issued) + 1
           t   == [ref |-> ref, rid |-> n]
<1>1. /\ server = "up" /\ inbox[c] # <<>>
      /\ issued' = Append(issued, ref)
      /\ queue' = Append(queue, t)
      /\ handling' = t
      /\ inbox' = [inbox EXCEPT ![c] = Tail(@)]
      /\ UNCHANGED <<calls, pc, cur, respRef, mbox, server, stopped, worker,
                     task, executed>>
  BY DEF HandleCast, NifRequest, FreshReqId
<1>2. inbox[c] \in Seq(Nat)
  BY DEF TypeOK
<1>3. /\ ref \in Nat /\ ref = inbox[c][1] /\ 1 \in DOMAIN inbox[c]
      /\ Len(inbox[c]) \in Nat
      /\ DOMAIN inbox[c] = 1..Len(inbox[c])
  BY <1>1, <1>2, HeadTailProperties, LenProperties, EmptySeq
<1>4. ref \in Refs /\ calls[ref].from = c
  BY <1>3 DEF CastsInOrder
<1>5. /\ DOMAIN inbox'[c] = 1..(Len(inbox[c]) - 1)
      /\ \A i \in DOMAIN inbox'[c] : /\ i + 1 \in DOMAIN inbox[c]
                                    /\ inbox'[c][i] = inbox[c][i + 1]
  <2>1. inbox'[c] = Tail(inbox[c])
    BY <1>1 DEF TypeOK
  <2> QED BY <2>1, <1>1, <1>2, <1>3, HeadTailProperties, LenProperties
<1>6. \A d \in Callers : d # c => inbox'[d] = inbox[d]
  BY <1>1 DEF TypeOK
<1>7. /\ Rids = 1..Len(issued) /\ Len(issued) \in Nat
      /\ Rids' = 1..n /\ issued'[n] = ref /\ Len(issued') = n
      /\ \A k \in Rids : issued'[k] = issued[k]
  BY <1>1, <1>3, AppendProperties, LenProperties DEF TypeOK, Rids
<1>8. t \in Task
  BY <1>3, <1>7 DEF Task
<1>9. /\ DOMAIN queue = 1..Len(queue) /\ Len(queue) \in Nat
      /\ DOMAIN queue' = 1..(Len(queue) + 1)
      /\ Len(queue') = Len(queue) + 1
      /\ queue'[Len(queue) + 1] = t
      /\ \A i \in DOMAIN queue : queue'[i] = queue[i]
  BY <1>1, <1>8, AppendProperties, LenProperties DEF TypeOK
<1>10. OnePending'
  BY <1>1 DEF OnePending, Refs
<1>11. CastsInOrder'
  <2>1. \A d \in Callers : \A i \in DOMAIN inbox'[d] :
          inbox'[d][i] \in Refs' /\ calls'[inbox'[d][i]].from = d
    BY <1>1, <1>5, <1>6 DEF CastsInOrder, Refs
  <2>2. \A d \in Callers : \A i, j \in DOMAIN inbox'[d] :
          i < j => inbox'[d][i] < inbox'[d][j]
    <3>1. ASSUME NEW i \in DOMAIN inbox'[c], NEW j \in DOMAIN inbox'[c], i < j
          PROVE  inbox'[c][i] < inbox'[c][j]
      <4>1. i + 1 \in DOMAIN inbox[c] /\ j + 1 \in DOMAIN inbox[c] /\ i + 1 < j + 1
        BY <3>1, <1>3, <1>5
      <4> QED BY <4>1, <1>5 DEF CastsInOrder
    <3>2. ASSUME NEW d \in Callers, d # c
          PROVE  \A i, j \in DOMAIN inbox'[d] :
                   i < j => inbox'[d][i] < inbox'[d][j]
      BY <3>2, <1>6 DEF CastsInOrder
    <3> QED BY <3>1, <3>2
  <2>3. ASSUME NEW d \in Callers, NEW i \in DOMAIN inbox'[d],
               NEW k \in Rids', calls[issued'[k]].from = d
        PROVE  issued'[k] < inbox'[d][i]
    <3>1. CASE k = n /\ d = c
      <4>1. i + 1 \in DOMAIN inbox[c] /\ 1 < i + 1
        BY <3>1, <1>3, <1>5
      <4> QED BY <4>1, <3>1, <1>3, <1>5, <1>7 DEF CastsInOrder
    <3>2. CASE k = n /\ d # c
      BY <3>2, <2>3, <1>4, <1>7
    <3>3. CASE k \in Rids /\ d = c
      BY <3>3, <2>3, <1>5, <1>7 DEF CastsInOrder
    <3>4. CASE k \in Rids /\ d # c
      BY <3>4, <2>3, <1>6, <1>7 DEF CastsInOrder
    <3> QED BY <3>1, <3>2, <3>3, <3>4, <1>7
  <2> QED BY <2>1, <2>2, <2>3, <1>1 DEF CastsInOrder
<1>12. IssuedInOrder'
  <2>1. \A k \in Rids' : issued'[k] \in Refs'
    BY <1>1, <1>4, <1>7 DEF IssuedInOrder, Refs
  <2>2. ASSUME NEW k \in Rids', NEW l \in Rids', k < l,
               calls[issued'[k]].from = calls[issued'[l]].from
        PROVE  issued'[k] < issued'[l]
    <3>1. k \in Rids /\ issued'[k] = issued[k]
      BY <2>2, <1>7
    <3>2. CASE l = n
      BY <3>1, <3>2, <2>2, <1>3, <1>4, <1>7 DEF CastsInOrder
    <3>3. CASE l \in Rids
      BY <3>1, <3>3, <2>2, <1>7 DEF IssuedInOrder
    <3> QED BY <3>2, <3>3, <1>7
  <2> QED BY <2>1, <2>2, <1>1 DEF IssuedInOrder
<1>13. QueueInOrder'
  <2>1. /\ Len(executed) \in Nat /\ Taken \in {0, 1} /\ Taken' = Taken
        /\ DOMAIN executed = 1..Len(executed)
    BY <1>1, Domains DEF Taken
  <2>2. n = Len(executed) + Taken + (Len(queue) + 1)
    <3>1. Len(issued) = Len(executed) + Taken + Len(queue)
      BY <1>1 DEF QueueInOrder
    <3> QED BY <3>1, <1>7, <1>9, <2>1
  <2>3. ASSUME NEW i \in DOMAIN queue'
        PROVE  /\ queue'[i].rid = Len(executed) + Taken + i
               /\ queue'[i].rid \in Rids'
               /\ queue'[i].ref = issued'[queue'[i].rid]
    <3>1. CASE i = Len(queue) + 1
      BY <3>1, <2>2, <1>7, <1>9
    <3>2. CASE i \in DOMAIN queue
      BY <3>2, <1>7, <1>9 DEF QueueInOrder
    <3> QED BY <3>1, <3>2, <1>9
  <2>4. /\ Len(executed) <= Len(issued')
        /\ \A k \in DOMAIN executed : executed[k] = issued'[k]
    BY <2>1, <1>7 DEF QueueInOrder
  <2>5. /\ worker = "taken" => /\ task.rid = Len(executed) + 1
                               /\ task.rid \in Rids'
                               /\ task.ref = issued'[task.rid]
        /\ worker = "done" => /\ task.rid \in DOMAIN executed
                              /\ task.ref = issued'[task.rid]
    BY <2>1, <1>7 DEF QueueInOrder
  <2>6. /\ Len(issued') = Len(executed) + Taken + Len(queue')
        /\ stopped => server = "down"
        /\ worker = "exited" => stopped
    BY <2>2, <1>7, <1>9 DEF QueueInOrder
  <2> QED BY <2>1, <2>3, <2>4, <2>5, <2>6, <1>1 DEF QueueInOrder
<1>14. MessagesMatch'
  BY <1>1, <1>7 DEF MessagesMatch
<1>15. WaitsForOwn'
  BY <1>1, <1>7 DEF WaitsForOwn
<1> QED BY <1>10, <1>11, <1>12, <1>13, <1>14, <1>15

LEMMA SendAckTracked ==
  ASSUME IInv, SendAck
  PROVE  RequestsAreTracked'
<1> USE DEF IInv, RequestsAreTracked, workerVars
<1> DEFINE d == calls[handling.ref].from
           m == [tag |-> "ack", id |-> handling.ref, val |-> handling.rid]
<1>1. handling.rid \in Rids /\ handling.ref = issued[handling.rid]
  BY DEF SendAck, MessagesMatch
<1>2. handling.ref \in Refs /\ d \in Callers
  BY <1>1, Domains DEF IssuedInOrder, CallRecord
<1>3. \A c \in Callers : \A x \in mbox'[c] : x \in mbox[c] \/ (x = m /\ c = d)
  BY <1>2 DEF SendAck, Deliver, TypeOK
<1>4. MessagesMatch'
  <2>1. ASSUME NEW c \in Callers, NEW x \in mbox'[c], x.tag = "ack"
        PROVE  x.val \in Rids /\ issued[x.val] = x.id /\ calls[x.id].from = c
    BY <2>1, <1>1, <1>3 DEF MessagesMatch
  <2>2. ASSUME NEW c \in Callers, NEW x \in mbox'[c], x.tag = "resp"
        PROVE  /\ x.id \in DOMAIN executed /\ executed[x.id] = x.val
               /\ calls[x.val].from = c
    BY <2>2, <1>3 DEF MessagesMatch
  <2> QED BY <2>1, <2>2 DEF SendAck, MessagesMatch, Rids
<1>5. OnePending' /\ CastsInOrder' /\ IssuedInOrder' /\ QueueInOrder' /\ WaitsForOwn'
  BY DEF SendAck, OnePending, CastsInOrder, IssuedInOrder, QueueInOrder,
         WaitsForOwn, Refs, Rids, Taken
<1> QED BY <1>4, <1>5

LEMMA ServerDownTracked ==
  ASSUME IInv, ServerDown
  PROVE  RequestsAreTracked'
<1> USE DEF IInv, RequestsAreTracked, callerVars, workerVars
<1>1. CastsInOrder'
  <2>1. \A c \in Callers : inbox'[c] = <<>>
    BY DEF ServerDown
  <2>2. \A c \in Callers : DOMAIN inbox'[c] = {}
    BY <2>1
  <2> QED BY <2>2 DEF CastsInOrder
<1>2. OnePending' /\ IssuedInOrder' /\ QueueInOrder' /\ MessagesMatch' /\ WaitsForOwn'
  BY DEF ServerDown, OnePending, IssuedInOrder, QueueInOrder, MessagesMatch,
         WaitsForOwn, Refs, Rids, Taken
<1> QED BY <1>1, <1>2

-----------------------------------------------------------------------------
(* ... and by the worker and the destructor of the Client. *)

LEMMA WorkerTakeTracked ==
  ASSUME IInv, WorkerTake
  PROVE  RequestsAreTracked'
<1> USE DEF IInv, RequestsAreTracked, callerVars, serverVars
<1>1. /\ queue \in Seq(Task) /\ queue # <<>>
      /\ worker = "idle" /\ worker' = "taken"
      /\ task' = Head(queue) /\ queue' = Tail(queue)
  BY DEF WorkerTake, TypeOK
<1>2. /\ DOMAIN queue = 1..Len(queue) /\ Len(queue) \in Nat /\ Len(queue) > 0
      /\ DOMAIN queue' = 1..(Len(queue) - 1) /\ Len(queue') = Len(queue) - 1
      /\ task' = queue[1]
      /\ \A i \in DOMAIN queue' : /\ i + 1 \in DOMAIN queue
                                 /\ queue'[i] = queue[i + 1]
  BY <1>1, HeadTailProperties, LenProperties, EmptySeq
<1>3. Taken = 0 /\ Taken' = 1 /\ Len(executed) \in Nat
  BY <1>1, Domains DEF Taken
<1>4. QueueInOrder'
  <2>1. 1 \in DOMAIN queue
    BY <1>2
  <2>2. /\ task'.rid = Len(executed) + 1
        /\ task'.rid \in Rids /\ task'.ref = issued[task'.rid]
    BY <1>2, <1>3, <2>1 DEF QueueInOrder
  <2>3. ASSUME NEW i \in DOMAIN queue'
        PROVE  /\ queue'[i].rid = Len(executed) + 1 + i
               /\ queue'[i].rid \in Rids
               /\ queue'[i].ref = issued[queue'[i].rid]
    <3>1. i + 1 \in DOMAIN queue /\ queue'[i] = queue[i + 1] /\ i \in Nat
      BY <1>2
    <3>2. queue[i + 1].rid = Len(executed) + 0 + (i + 1)
      BY <3>1, <1>3 DEF QueueInOrder
    <3> QED BY <3>1, <3>2, <1>3 DEF QueueInOrder
  <2>4. server = "up" => Len(issued) = Len(executed) + 1 + Len(queue')
    <3>1. server = "up" => Len(issued) = Len(executed) + 0 + Len(queue)
      BY <1>3 DEF QueueInOrder
    <3> QED BY <3>1, <1>2, <1>3
  <2> QED BY <2>2, <2>3, <2>4, <1>1, <1>3 DEF WorkerTake, QueueInOrder, Rids
<1>5. OnePending' /\ CastsInOrder' /\ IssuedInOrder' /\ MessagesMatch' /\ WaitsForOwn'
  BY DEF WorkerTake, OnePending, CastsInOrder, IssuedInOrder, MessagesMatch,
         WaitsForOwn, Refs, Rids
<1> QED BY <1>4, <1>5

LEMMA WorkerExecuteEffect ==
  ASSUME TypeOK, WorkerExecute
  PROVE  /\ DOMAIN executed = 1..Len(executed) /\ Len(executed) \in Nat
         /\ DOMAIN executed' = 1..(Len(executed) + 1)
         /\ Len(executed') = Len(executed) + 1
         /\ \A k \in DOMAIN executed : executed'[k] = executed[k]
         /\ executed'[Len(executed) + 1] = task.ref
<1>1. executed \in Seq(Nat) /\ task.ref \in Nat
  BY DEF TypeOK, Task
<1> QED BY <1>1, AppendProperties, LenProperties DEF WorkerExecute

LEMMA WorkerExecuteTracked ==
  ASSUME IInv, WorkerExecute
  PROVE  RequestsAreTracked'
<1> USE DEF IInv, RequestsAreTracked, callerVars, serverVars
<1>1. /\ worker = "taken" /\ worker' = "done" /\ Taken = 1 /\ Taken' = 0
      /\ task.rid = Len(executed) + 1 /\ task.rid \in Rids
      /\ task.ref = issued[task.rid]
      /\ UNCHANGED <<calls, pc, cur, respRef, mbox, server, inbox, handling,
                     issued, queue, stopped, task>>
  BY DEF WorkerExecute, Taken, QueueInOrder
<1>2. /\ DOMAIN executed = 1..Len(executed) /\ Len(executed) \in Nat
      /\ DOMAIN executed' = 1..(Len(executed) + 1)
      /\ Len(executed') = Len(executed) + 1
      /\ \A k \in DOMAIN executed : executed'[k] = executed[k]
      /\ executed'[Len(executed) + 1] = task.ref
  BY WorkerExecuteEffect
<1>3. Rids = 1..Len(issued) /\ Len(issued) \in Nat /\ Rids' = Rids
  BY <1>1, Domains DEF Rids
<1>4. QueueInOrder'
  <2>1. /\ Len(executed') <= Len(issued)
        /\ \A k \in DOMAIN executed' : executed'[k] = issued[k]
    BY <1>1, <1>2, <1>3 DEF QueueInOrder
  <2>2. task.rid \in DOMAIN executed'
    BY <1>1, <1>2
  <2>3. \A i \in DOMAIN queue : i \in Nat
    BY Domains
  <2>4. \A i \in DOMAIN queue : queue[i].rid = Len(executed') + Taken' + i
    BY <1>1, <1>2, <2>3 DEF QueueInOrder
  <2>5. server = "up" => Len(issued) = Len(executed') + Taken' + Len(queue)
    BY <1>1, <1>2, Domains DEF QueueInOrder
  <2> QED BY <1>1, <1>3, <2>1, <2>2, <2>4, <2>5 DEF QueueInOrder
<1>5. MessagesMatch'
  BY <1>1, <1>2, <1>3 DEF MessagesMatch
<1>6. OnePending' /\ CastsInOrder' /\ IssuedInOrder' /\ WaitsForOwn'
  BY <1>1 DEF OnePending, CastsInOrder, IssuedInOrder, WaitsForOwn, Refs, Rids
<1> QED BY <1>4, <1>5, <1>6

LEMMA WorkerRespondTracked ==
  ASSUME IInv, WorkerRespond
  PROVE  RequestsAreTracked'
<1> USE DEF IInv, RequestsAreTracked, serverVars
<1> DEFINE d == calls[task.ref].from
           m == [tag |-> "resp", id |-> task.rid, val |-> task.ref]
<1>1. /\ task.rid \in DOMAIN executed
      /\ executed[task.rid] = task.ref
      /\ task.rid \in Rids /\ task.ref = issued[task.rid]
  BY Domains DEF WorkerRespond, QueueInOrder
<1>2. task.ref \in Refs /\ d \in Callers
  BY <1>1, Domains DEF IssuedInOrder, CallRecord
<1>3. \A c \in Callers : \A x \in mbox'[c] : x \in mbox[c] \/ (x = m /\ c = d)
  BY <1>2 DEF WorkerRespond, Deliver, TypeOK
<1>4. MessagesMatch'
  <2>1. ASSUME NEW c \in Callers, NEW x \in mbox'[c], x.tag = "ack"
        PROVE  x.val \in Rids /\ issued[x.val] = x.id /\ calls[x.id].from = c
    BY <2>1, <1>3 DEF MessagesMatch
  <2>2. ASSUME NEW c \in Callers, NEW x \in mbox'[c], x.tag = "resp"
        PROVE  /\ x.id \in DOMAIN executed /\ executed[x.id] = x.val
               /\ calls[x.val].from = c
    BY <2>2, <1>1, <1>3 DEF MessagesMatch
  <2> QED BY <2>1, <2>2 DEF WorkerRespond, MessagesMatch, Rids
<1>5. OnePending' /\ CastsInOrder' /\ IssuedInOrder' /\ QueueInOrder' /\ WaitsForOwn'
  BY DEF WorkerRespond, OnePending, CastsInOrder, IssuedInOrder, QueueInOrder,
         WaitsForOwn, Refs, Rids, Taken
<1> QED BY <1>4, <1>5

LEMMA TeardownTracked ==
  ASSUME IInv, WorkerExit \/ StopClient \/ DropQueue
  PROVE  RequestsAreTracked'
<1> USE DEF IInv, RequestsAreTracked, callerVars, serverVars, workerVars
<1>1. OnePending' /\ CastsInOrder' /\ IssuedInOrder' /\ MessagesMatch' /\ WaitsForOwn'
  BY DEF WorkerExit, StopClient, DropQueue, OnePending, CastsInOrder,
         IssuedInOrder, MessagesMatch, WaitsForOwn, Refs, Rids
<1>2. CASE WorkerExit
  <2>1. Taken = 0 /\ Taken' = 0 /\ worker' = "exited" /\ stopped
    BY <1>2 DEF WorkerExit, Taken
  <2> QED BY <1>1, <1>2, <2>1 DEF WorkerExit, QueueInOrder, Rids
<1>3. CASE StopClient
  <2>1. Taken' = Taken /\ stopped' = TRUE /\ server = "down"
    BY <1>3 DEF StopClient, Taken
  <2> QED BY <1>1, <1>3, <2>1 DEF StopClient, QueueInOrder, Rids
<1>4. CASE DropQueue
  <2>1. DOMAIN queue' = {} /\ server # "up"
    BY <1>4 DEF DropQueue, QueueInOrder
  <2> QED BY <1>1, <1>4, <2>1 DEF DropQueue, QueueInOrder, Rids, Taken
<1> QED BY <1>2, <1>3, <1>4

-----------------------------------------------------------------------------
(* Answers, and the invariant as a whole. *)

LEMMA RunRefsGrow ==
  ASSUME TypeOK, WorkerExecute
  PROVE  RunRefs \subseteq RunRefs'
  BY WorkerExecuteEffect DEF RunRefs

LEMMA AnswerStep ==
  ASSUME IInv, [Next]_vars
  PROVE  AnswerIsOwn'
<1> USE DEF IInv
<1>1. ASSUME NEW c \in Callers, NEW valid \in BOOLEAN, Call(c, valid)
      PROVE  AnswerIsOwn'
  <2> DEFINE rec == [from |-> c, valid |-> valid,
                     outcome |-> "pending", answer |-> 0]
  <2>1. calls' = Append(calls, rec) /\ executed' = executed
    BY <1>1 DEF Call, workerVars
  <2>2. rec \in CallRecord /\ calls \in Seq(CallRecord)
    BY DEF CallRecord, Outcomes, TypeOK
  <2>3. /\ DOMAIN calls' = 1..(Len(calls) + 1)
        /\ Refs = 1..Len(calls) /\ Len(calls) \in Nat
        /\ calls'[Len(calls) + 1] = rec
        /\ \A r \in Refs : calls'[r] = calls[r]
    BY <2>1, <2>2, AppendProperties, LenProperties DEF Refs
  <2> QED BY <2>1, <2>3 DEF AnswerIsOwn, RunRefs, Refs
<1>2. ASSUME NEW c \in Callers, ReceiveResponse(c) PROVE AnswerIsOwn'
  <2>1. PICK m \in Matching(c) : Settle(c, "answered", m.val)
    BY <1>2 DEF ReceiveResponse
  <2>2. /\ m \in mbox[c] /\ m.tag = "resp" /\ m.id = respRef[c]
        /\ m.val \in Nat
    BY <1>2 DEF ReceiveResponse, Matching, TypeOK, Message
  <2>3. issued[respRef[c]] = cur[c] /\ cur[c] \in Refs
    BY <1>2 DEF ReceiveResponse, RequestsAreTracked, WaitsForOwn, OnePending
  <2>4. m.id \in DOMAIN executed /\ executed[m.id] = m.val
        /\ executed[m.id] = issued[m.id]
    BY <2>2 DEF RequestsAreTracked, MessagesMatch, QueueInOrder
  <2>5. m.val = cur[c] /\ m.val \in RunRefs
    BY <2>2, <2>3, <2>4 DEF RunRefs
  <2>6. Refs' = Refs /\ \A r \in Refs :
          /\ calls'[r].outcome = IF r = cur[c] THEN "answered"
                                               ELSE calls[r].outcome
          /\ calls'[r].answer = IF r = cur[c] THEN m.val ELSE calls[r].answer
    BY <2>1, <2>2, <2>3, SettleEffect DEF Outcomes
  <2>7. RunRefs' = RunRefs
    BY <1>2 DEF ReceiveResponse, workerVars, RunRefs
  <2> QED BY <2>5, <2>6, <2>7 DEF AnswerIsOwn, Refs
<1>3. ASSUME NEW c \in Callers, NEW result \in {"timeout", "aborted"},
             pc[c] \in {"ack", "resp"}, Settle(c, result, 0), executed' = executed
      PROVE  AnswerIsOwn'
  <2>1. cur[c] \in Refs
    BY <1>3 DEF RequestsAreTracked, OnePending
  <2>2. Refs' = Refs /\ \A r \in Refs :
          /\ calls'[r].outcome = IF r = cur[c] THEN result
                                               ELSE calls[r].outcome
          /\ calls'[r].answer = IF r = cur[c] THEN 0 ELSE calls[r].answer
    BY <1>3, <2>1, SettleEffect DEF Outcomes
  <2> QED BY <1>3, <2>2 DEF AnswerIsOwn, RunRefs, Refs
<1>4. ASSUME NEW c \in Callers, Timeout(c) PROVE AnswerIsOwn'
  BY <1>3, <1>4 DEF Timeout, workerVars
<1>5. ASSUME NEW c \in Callers, CallerExit(c) PROVE AnswerIsOwn'
  <2>1. CASE pc[c] = "idle"
    BY <1>5, <2>1 DEF CallerExit, workerVars, AnswerIsOwn, RunRefs
  <2>2. CASE pc[c] # "idle"
    BY <1>3, <1>5, <2>2 DEF CallerExit, workerVars, TypeOK
  <2> QED BY <2>1, <2>2
<1>6. CASE WorkerExecute
  <2>1. calls' = calls
    BY <1>6 DEF WorkerExecute
  <2> QED BY <1>6, <2>1, RunRefsGrow DEF AnswerIsOwn
<1>7. ASSUME UNCHANGED <<calls, executed>> PROVE AnswerIsOwn'
  BY <1>7 DEF AnswerIsOwn, RunRefs
<1>8. ASSUME NEW c \in Callers,
             ReceiveAck(c) \/ HandleCast(c) \/ CrashOnBadarg(c)
      PROVE  UNCHANGED <<calls, executed>>
  BY <1>8 DEF ReceiveAck, HandleCast, CrashOnBadarg, ServerDown, workerVars
<1>9. ASSUME SendAck \/ ServerExit \/ WorkerTake \/ WorkerRespond
             \/ WorkerExit \/ TeardownNext \/ UNCHANGED vars
      PROVE  UNCHANGED <<calls, executed>>
  BY <1>9 DEF SendAck, ServerExit, ServerDown, WorkerTake, WorkerRespond,
              WorkerExit, TeardownNext, StopClient, DropQueue, vars, workerVars
<1> QED
  BY <1>1, <1>2, <1>4, <1>5, <1>6, <1>7, <1>8, <1>9
  DEF Next, CallerNext, ServerNext, WorkerNext

LEMMA TrackedStep ==
  ASSUME IInv, [Next]_vars
  PROVE  RequestsAreTracked'
<1>1. ASSUME NEW c \in Callers, ReceiveResponse(c) PROVE RequestsAreTracked'
  <2>1. PICK m \in Matching(c) : /\ mbox' = [mbox EXCEPT ![c] = @ \ {m}]
                                 /\ Settle(c, "answered", m.val)
    BY <1>1 DEF ReceiveResponse
  <2>2. m.val \in Nat /\ \A d \in Callers : mbox'[d] \subseteq mbox[d]
    BY <2>1 DEF IInv, TypeOK, Matching, Message
  <2> QED BY <1>1, <2>1, <2>2, SettleTracked DEF ReceiveResponse, Outcomes
<1>2. ASSUME NEW c \in Callers, Timeout(c) PROVE RequestsAreTracked'
  BY <1>2, SettleTracked DEF Timeout, Outcomes
<1>3. ASSUME NEW c \in Callers, CrashOnBadarg(c) PROVE RequestsAreTracked'
  BY <1>3, ServerDownTracked DEF CrashOnBadarg
<1>4. CASE ServerExit
  BY <1>4, ServerDownTracked DEF ServerExit
<1>5. CASE UNCHANGED vars
  BY <1>5 DEF IInv, RequestsAreTracked, OnePending, CastsInOrder, IssuedInOrder,
     QueueInOrder, MessagesMatch, WaitsForOwn, Refs, Rids, Taken,
     vars, callerVars, serverVars, workerVars
<1> QED
  BY <1>1, <1>2, <1>3, <1>4, <1>5, CallTracked, ReceiveAckTracked,
     CallerExitTracked, HandleCastTracked, SendAckTracked, WorkerTakeTracked,
     WorkerExecuteTracked, WorkerRespondTracked, TeardownTracked
  DEF Next, CallerNext, ServerNext, WorkerNext, TeardownNext

LEMMA IInvInit == Init => IInv
<1> SUFFICES ASSUME Init PROVE IInv
  OBVIOUS
<1>1. TypeOK
  BY TypeInit
<1>2. Refs = {} /\ Rids = {} /\ DOMAIN queue = {} /\ DOMAIN executed = {}
      /\ Len(executed) = 0 /\ Len(issued) = 0 /\ Len(queue) = 0
      /\ \A c \in Callers : DOMAIN inbox[c] = {}
  BY DEF Init, Refs, Rids
<1>3. OnePending /\ CastsInOrder /\ IssuedInOrder /\ WaitsForOwn /\ AnswerIsOwn
  BY <1>2 DEF Init, OnePending, CastsInOrder, IssuedInOrder, WaitsForOwn,
              AnswerIsOwn, Refs
<1>4. QueueInOrder
  BY <1>2 DEF Init, QueueInOrder, Taken
<1>5. MessagesMatch
  BY DEF Init, MessagesMatch
<1> QED BY <1>1, <1>3, <1>4, <1>5 DEF IInv, RequestsAreTracked

(* The whole way of a request is consistent at all times: the invariant    *)
(* that the theorems below rest on.                                        *)
THEOREM Invariance == Spec => []IInv
<1>1. Init => IInv
  BY IInvInit
<1>2. IInv /\ [Next]_vars => IInv'
  BY TypeStep, TrackedStep, AnswerStep DEF IInv
<1> QED BY <1>1, <1>2, PTL DEF Spec

(* Cast, request id, queue, worker and messages agree on every request.    *)
THEOREM RequestsTracked == Spec => []RequestsAreTracked
<1>1. IInv => RequestsAreTracked
  BY DEF IInv
<1> QED BY <1>1, Invariance, PTL

(* A call that returns an answer returns that of its own request, whatever *)
(* earlier calls of the process timed out and left messages behind.        *)
THEOREM AnswersAreOwn == Spec => []AnswerIsOwn
<1>1. IInv => AnswerIsOwn
  BY DEF IInv
<1> QED BY <1>1, Invariance, PTL

LEMMA InvOrder == IInv => ExecutedInCallOrder
<1> SUFFICES ASSUME IInv, NEW i \in DOMAIN executed, NEW j \in DOMAIN executed,
                    i < j, calls[executed[i]].from = calls[executed[j]].from
             PROVE  executed[i] < executed[j]
  BY DEF ExecutedInCallOrder
<1>1. i \in Rids /\ j \in Rids
  BY Domains DEF IInv, RequestsAreTracked, QueueInOrder
<1>2. executed[i] = issued[i] /\ executed[j] = issued[j]
  BY DEF IInv, RequestsAreTracked, QueueInOrder
<1> QED BY <1>1, <1>2 DEF IInv, RequestsAreTracked, IssuedInOrder

(* Requests of one process run at most once and in the order of its calls, *)
(* however the calls themselves ended.                                     *)
THEOREM RequestsRunInOrder == Spec => []ExecutedInCallOrder
  BY InvOrder, Invariance, PTL

LEMMA InvUnambiguous == IInv => ReceiveIsUnambiguous
<1> SUFFICES ASSUME IInv, NEW c \in Callers,
                    NEW m \in Matching(c), NEW n \in Matching(c)
             PROVE  m = n
  BY DEF ReceiveIsUnambiguous
<1> USE DEF IInv, RequestsAreTracked
<1>1. /\ m \in mbox[c] /\ n \in mbox[c] /\ m \in Message /\ n \in Message
      /\ m.id = n.id /\ m.tag = n.tag /\ m.tag \in {"ack", "resp"}
      /\ m.tag = "ack" => m.id = cur[c]
  BY DEF Matching, TypeOK, Message
<1>2. m.val = n.val
  <2>1. CASE m.tag = "ack"
    <3>1. /\ m.val \in Rids /\ issued[m.val] = m.id
          /\ n.val \in Rids /\ issued[n.val] = m.id
      BY <2>1, <1>1 DEF MessagesMatch
    <3>2. \A k, l \in Rids : k < l => issued[k] # issued[l]
      BY Domains DEF IssuedInOrder
    <3>3. m.val \in Nat /\ n.val \in Nat
      BY <1>1 DEF Message
    <3> QED BY <3>1, <3>2, <3>3
  <2>2. CASE m.tag = "resp"
    BY <2>2, <1>1 DEF MessagesMatch
  <2> QED BY <1>1, <2>1, <2>2
<1> QED BY <1>1, <1>2 DEF Message

(* No receive of call/3 ever has two messages to choose from.              *)
THEOREM ReceivesAreUnambiguous == Spec => []ReceiveIsUnambiguous
  BY InvUnambiguous, Invariance, PTL

-----------------------------------------------------------------------------
(* What is left in the mailboxes. *)

(* Ids are drawn once for each request. *)
LEMMA IssuedOnce ==
  ASSUME IInv, NEW k \in Rids, NEW l \in Rids, issued[k] = issued[l]
  PROVE  k = l
<1>1. \A i, j \in Rids : i < j => issued[i] # issued[j]
  BY Domains DEF IInv, RequestsAreTracked, IssuedInOrder
<1> QED BY <1>1, Domains DEF IInv

(* The call of a message is a call of the process that has the message.     *)
LEMMA MessageRefs ==
  ASSUME IInv, NEW c \in Callers, NEW m \in mbox[c]
  PROVE  /\ m \in Message
         /\ RefOf(m) \in Refs /\ calls[RefOf(m)].from = c
         /\ m.tag = "ack" =>
              RefOf(m) = m.id /\ m.val \in Rids /\ issued[m.val] = m.id
         /\ m.tag = "resp" =>
              RefOf(m) = m.val /\ m.id \in DOMAIN executed /\ m.id \in Rids
                               /\ executed[m.id] = m.val /\ issued[m.id] = m.val
<1> USE DEF IInv, RequestsAreTracked
<1>1. m \in Message /\ m.tag \in {"ack", "resp"}
  BY DEF TypeOK, Message
<1>2. CASE m.tag = "ack"
  BY <1>1, <1>2 DEF MessagesMatch, RefOf, IssuedInOrder
<1>3. CASE m.tag = "resp"
  <2>1. /\ m.id \in DOMAIN executed /\ executed[m.id] = m.val
        /\ calls[m.val].from = c
    BY <1>3 DEF MessagesMatch
  <2>2. m.id \in Rids /\ issued[m.id] = m.val
    BY <2>1, Domains DEF QueueInOrder
  <2> QED BY <1>1, <1>3, <2>1, <2>2 DEF RefOf, IssuedInOrder
<1> QED BY <1>1, <1>2, <1>3

LEMMA AnsweredRan ==
  ASSUME IInv, NEW r \in Refs, calls[r].outcome = "answered"
  PROVE  \E k \in DOMAIN executed : k \in Rids /\ issued[k] = r
<1>1. PICK k \in DOMAIN executed : executed[k] = r
  BY DEF IInv, AnswerIsOwn, RunRefs, Refs
<1> QED BY <1>1, Domains DEF IInv, RequestsAreTracked, QueueInOrder

LEMMA TasksOfCalls ==
  ASSUME IInv
  PROVE  /\ handling # NoTask => handling.ref \in Refs
         /\ worker = "done" => task.ref \in Refs
<1> USE Domains DEF IInv, RequestsAreTracked, IssuedInOrder
<1>1. handling # NoTask => handling.ref \in Refs
  BY DEF MessagesMatch
<1>2. worker = "done" => task.ref \in Refs
  BY DEF QueueInOrder
<1> QED BY <1>1, <1>2

(* When calls keep their outcome and nobody gets a message, nothing new is  *)
(* left behind.                                                             *)
LEMMA SilentFrame ==
  ASSUME IInv, MessagesComeOnce,
         \A r \in Refs : /\ calls'[r].from = calls[r].from
                         /\ calls'[r].outcome = calls[r].outcome,
         \A c \in Callers : mbox'[c] \subseteq mbox[c]
  PROVE  /\ LeftoversAreTimedOut'
         /\ handling # NoTask => handling.ref \in Refs
                              /\ calls'[handling.ref].outcome # "answered"
         /\ worker = "done" =>
              /\ task.ref \in Refs
              /\ calls'[task.ref].outcome # "answered"
              /\ \A c \in Callers : \A m \in mbox'[c] :
                    m.tag = "resp" => m.id # task.rid
<1>1. ASSUME NEW c \in Callers, NEW m \in mbox'[c]
      PROVE  calls'[RefOf(m)].outcome \in {"pending", "timeout"}
  <2>1. m \in mbox[c]
    BY <1>1
  <2>2. RefOf(m) \in Refs
    BY <2>1, MessageRefs
  <2> QED BY <2>1, <2>2 DEF MessagesComeOnce, LeftoversAreTimedOut
<1>2. LeftoversAreTimedOut'
  BY <1>1 DEF LeftoversAreTimedOut, RefOf
<1> QED BY <1>2, TasksOfCalls DEF MessagesComeOnce, AckedOnce, RespondedOnce

LEMMA CallOnce ==
  ASSUME IInv, MessagesComeOnce, NEW c \in Callers, NEW valid \in BOOLEAN,
         Call(c, valid)
  PROVE  MessagesComeOnce'
<1> USE DEF MessagesComeOnce
<1> DEFINE rec == [from |-> c, valid |-> valid,
                   outcome |-> "pending", answer |-> 0]
<1>1. /\ pc[c] = "idle" /\ pc' = [pc EXCEPT ![c] = "ack"]
      /\ cur' = [cur EXCEPT ![c] = Len(calls) + 1]
      /\ calls' = Append(calls, rec)
      /\ UNCHANGED <<mbox, handling, worker, task>>
  BY DEF Call, workerVars
<1>2. /\ Refs' = 1..(Len(calls) + 1) /\ Refs = 1..Len(calls) /\ Len(calls) \in Nat
      /\ calls'[Len(calls) + 1] = rec
      /\ \A r \in Refs : calls'[r] = calls[r]
  <2>1. rec \in CallRecord /\ calls \in Seq(CallRecord)
    BY DEF CallRecord, Outcomes, IInv, TypeOK
  <2>2. calls' = Append(calls, rec)
    BY <1>1
  <2> HIDE DEF rec
  <2> QED BY <2>1, <2>2, AppendProperties, LenProperties DEF Refs
<1>3. /\ LeftoversAreTimedOut'
      /\ handling # NoTask => calls'[handling.ref].outcome # "answered"
      /\ worker = "done" => calls'[task.ref].outcome # "answered"
  BY <1>1, <1>2, SilentFrame
<1>4. \A d \in Callers : pc'[d] = "resp" => pc[d] = "resp" /\ cur'[d] = cur[d]
  BY <1>1 DEF IInv, TypeOK
<1>5. AckedOnce'
  BY <1>1, <1>3, <1>4 DEF AckedOnce
<1>6. RespondedOnce'
  BY <1>1, <1>3 DEF RespondedOnce
<1>7. DeadAreSilent'
  <2>1. \A d \in Callers : pc'[d] = "dead" => mbox'[d] = {}
    BY <1>1 DEF DeadAreSilent, IInv, TypeOK
  <2>2. ASSUME NEW r \in Refs', calls'[r].outcome = "aborted"
        PROVE  pc'[calls'[r].from] = "dead"
    <3>1. r \in Refs /\ calls'[r] = calls[r]
      BY <1>2, <2>2
    <3>2. pc[calls[r].from] = "dead" /\ calls[r].from \in Callers
      BY <2>2, <3>1, Domains DEF DeadAreSilent, IInv, CallRecord
    <3> QED BY <1>1, <3>1, <3>2 DEF IInv, TypeOK
  <2> QED BY <2>1, <2>2 DEF DeadAreSilent
<1> QED BY <1>3, <1>5, <1>6, <1>7

LEMMA ReceiveAckOnce ==
  ASSUME IInv, MessagesComeOnce, NEW c \in Callers, ReceiveAck(c)
  PROVE  MessagesComeOnce'
<1> USE DEF MessagesComeOnce, serverVars, workerVars
<1>1. PICK m \in Matching(c) : mbox' = [mbox EXCEPT ![c] = @ \ {m}]
  BY DEF ReceiveAck
<1>2. /\ pc[c] = "ack" /\ pc' = [pc EXCEPT ![c] = "resp"]
      /\ m \in mbox[c] /\ m.tag = "ack" /\ m.id = cur[c]
      /\ UNCHANGED <<calls, cur, handling, worker, task>>
  BY DEF ReceiveAck, Matching
<1>3. \A d \in Callers : mbox'[d] \subseteq mbox[d]
  BY <1>1 DEF IInv, TypeOK
<1>4. /\ LeftoversAreTimedOut' /\ RespondedOnce'
      /\ handling # NoTask => calls'[handling.ref].outcome # "answered"
  BY <1>2, <1>3, SilentFrame DEF RespondedOnce
<1>5. AckedOnce'
  <2>1. ASSUME NEW n \in mbox'[c], n.tag = "ack" PROVE n.id # cur[c]
    <3>1. n \in mbox[c] /\ n # m
      BY <1>1, <2>1 DEF IInv, TypeOK
    <3>2. ASSUME n.id = cur[c] PROVE FALSE
      <4>1. n \in Matching(c)
        BY <1>2, <2>1, <3>1, <3>2 DEF Matching
      <4> QED BY <3>1, <4>1, InvUnambiguous DEF ReceiveIsUnambiguous
    <3> QED BY <3>2
  <2>2. \A d \in Callers : d # c => pc'[d] = pc[d] /\ mbox'[d] = mbox[d]
    BY <1>1, <1>2 DEF IInv, TypeOK
  <2>3. handling # NoTask => cur[c] # handling.ref
    BY <1>2 DEF AckedOnce
  <2>4. \A d \in Callers : pc'[d] = "resp" =>
           /\ handling # NoTask => cur[d] # handling.ref
           /\ \A n \in mbox'[d] : n.tag = "ack" => n.id # cur[d]
    BY <2>1, <2>2, <2>3 DEF AckedOnce
  <2> QED BY <1>2, <1>3, <1>4, <2>4 DEF AckedOnce
<1>6. DeadAreSilent'
  <2>1. \A d \in Callers : pc'[d] = "dead" <=> pc[d] = "dead"
    BY <1>2 DEF IInv, TypeOK
  <2>2. \A r \in Refs : calls[r].from \in Callers
    BY Domains DEF IInv, CallRecord
  <2> QED BY <1>2, <1>3, <2>1, <2>2 DEF DeadAreSilent, Refs
<1> QED BY <1>4, <1>5, <1>6

(* A process leaves its call.  If it does so with an answer, it has taken   *)
(* the only response; if it dies, it takes its mailbox with it.             *)
LEMMA SettleOnce ==
  ASSUME IInv, MessagesComeOnce, NEW c \in Callers,
         NEW result \in Outcomes \ {"pending"}, NEW val \in Nat,
         NEW next \in {"idle", "dead"},
         pc[c] \in {"ack", "resp"}, Settle(c, result, val),
         pc' = [pc EXCEPT ![c] = next],
         \A d \in Callers : mbox'[d] \subseteq mbox[d],
         result = "answered" =>
           /\ handling # NoTask => handling.ref # cur[c]
           /\ worker = "done" => task.ref # cur[c]
           /\ \A m \in mbox'[c] : RefOf(m) # cur[c],
         result = "aborted" <=> next = "dead",
         next = "dead" => mbox'[c] = {},
         UNCHANGED <<cur, handling, worker, task>>
  PROVE  MessagesComeOnce'
<1> USE DEF MessagesComeOnce
<1>1. cur[c] \in Refs /\ calls[cur[c]].from = c
  BY DEF IInv, RequestsAreTracked, OnePending
<1>2. /\ Refs' = Refs
      /\ \A r \in Refs :
           /\ calls'[r].from = calls[r].from
           /\ calls'[r].outcome = IF r = cur[c] THEN result
                                                ELSE calls[r].outcome
  BY <1>1, SettleEffect DEF IInv
<1>3. LeftoversAreTimedOut'
  <2>1. ASSUME NEW d \in Callers, NEW m \in mbox'[d]
        PROVE  calls'[RefOf(m)].outcome \in {"pending", "timeout"}
    <3>1. /\ m \in mbox[d] /\ RefOf(m) \in Refs /\ calls[RefOf(m)].from = d
          /\ calls[RefOf(m)].outcome \in {"pending", "timeout"}
      BY <2>1, MessageRefs DEF LeftoversAreTimedOut
    <3>2. CASE RefOf(m) # cur[c]
      BY <1>2, <3>1, <3>2
    <3>3. CASE RefOf(m) = cur[c]
      <4>1. d = c
        BY <1>1, <3>1, <3>3
      <4>2. result # "answered" /\ result # "aborted"
        BY <2>1, <3>3, <4>1
      <4> QED BY <1>1, <1>2, <3>3, <4>2 DEF Outcomes
    <3> QED BY <3>2, <3>3
  <2> QED BY <2>1 DEF LeftoversAreTimedOut, RefOf
<1>4. AckedOnce'
  <2>1. handling # NoTask => calls'[handling.ref].outcome # "answered"
    <3>1. handling # NoTask =>
            /\ handling.ref \in Refs /\ calls[handling.ref].outcome # "answered"
      BY TasksOfCalls DEF AckedOnce
    <3> QED BY <1>2, <3>1
  <2>2. \A d \in Callers : pc'[d] = "resp" => pc[d] = "resp"
    BY DEF IInv, TypeOK
  <2> QED BY <2>1, <2>2 DEF AckedOnce
<1>5. RespondedOnce'
  <2>1. worker = "done" =>
          task.ref \in Refs /\ calls[task.ref].outcome # "answered"
    BY TasksOfCalls DEF RespondedOnce
  <2> QED BY <1>2, <2>1 DEF RespondedOnce
<1>6. DeadAreSilent'
  <2>1. ASSUME NEW d \in Callers, pc'[d] = "dead" PROVE mbox'[d] = {}
    <3>1. CASE d = c
      BY <2>1, <3>1 DEF IInv, TypeOK
    <3>2. CASE d # c
      BY <2>1, <3>2 DEF IInv, TypeOK, DeadAreSilent
    <3> QED BY <3>1, <3>2
  <2>2. ASSUME NEW r \in Refs', calls'[r].outcome = "aborted"
        PROVE  pc'[calls'[r].from] = "dead"
    <3>1. CASE r = cur[c]
      BY <1>1, <1>2, <2>2, <3>1 DEF IInv, TypeOK
    <3>2. CASE r # cur[c]
      <4>1. r \in Refs /\ calls[r].outcome = "aborted" /\ calls'[r].from = calls[r].from
        BY <1>2, <2>2, <3>2
      <4>2. pc[calls[r].from] = "dead" /\ calls[r].from \in Callers
        BY <4>1, Domains DEF DeadAreSilent, IInv, CallRecord
      <4> QED BY <4>1, <4>2 DEF IInv, TypeOK
    <3> QED BY <3>1, <3>2
  <2> QED BY <2>1, <2>2 DEF DeadAreSilent
<1> QED BY <1>3, <1>4, <1>5, <1>6

LEMMA ReceiveResponseOnce ==
  ASSUME IInv, MessagesComeOnce, NEW c \in Callers, ReceiveResponse(c)
  PROVE  MessagesComeOnce'
<1>1. PICK m \in Matching(c) : /\ mbox' = [mbox EXCEPT ![c] = @ \ {m}]
                               /\ Settle(c, "answered", m.val)
  BY DEF ReceiveResponse
<1>2. /\ pc[c] = "resp" /\ pc' = [pc EXCEPT ![c] = "idle"]
      /\ m \in mbox[c] /\ m.tag = "resp" /\ m.id = respRef[c]
      /\ UNCHANGED <<cur, handling, worker, task>>
  BY DEF ReceiveResponse, Matching, serverVars, workerVars
<1>3. /\ m \in Message /\ m.val = cur[c] /\ m.id \in Rids /\ issued[m.id] = cur[c]
  BY <1>2, MessageRefs DEF IInv, RequestsAreTracked, WaitsForOwn
<1>4. handling # NoTask => handling.ref # cur[c]
  BY <1>2 DEF MessagesComeOnce, AckedOnce
<1>5. worker = "done" => task.ref # cur[c]
  <2>1. ASSUME worker = "done", task.ref = cur[c] PROVE FALSE
    <3>1. task.rid \in Rids /\ issued[task.rid] = cur[c]
      BY <2>1, Domains DEF IInv, RequestsAreTracked, QueueInOrder
    <3>2. m.id = task.rid
      BY <1>3, <3>1, IssuedOnce
    <3> QED BY <1>2, <2>1, <3>2 DEF MessagesComeOnce, RespondedOnce
  <2> QED BY <2>1
<1>6. ASSUME NEW n \in mbox'[c], RefOf(n) = cur[c] PROVE FALSE
  <2>1. n \in mbox[c] /\ n # m
    BY <1>1, <1>6 DEF IInv, TypeOK
  <2>2. n \in Message /\ n.tag \in {"ack", "resp"}
    BY <2>1, MessageRefs DEF Message
  <2>3. CASE n.tag = "ack"
    BY <1>2, <1>6, <2>1, <2>3, MessageRefs DEF MessagesComeOnce, AckedOnce
  <2>4. CASE n.tag = "resp"
    <3>1. n.val = cur[c] /\ n.id \in Rids /\ issued[n.id] = cur[c]
      BY <1>6, <2>1, <2>4, MessageRefs
    <3>2. n.id = m.id
      BY <1>3, <3>1, IssuedOnce
    <3> QED BY <1>2, <1>3, <2>1, <2>2, <2>4, <3>1, <3>2 DEF Message
  <2> QED BY <2>2, <2>3, <2>4
<1>7. \A d \in Callers : mbox'[d] \subseteq mbox[d]
  BY <1>1 DEF IInv, TypeOK
<1>8. m.val \in Nat /\ "answered" \in Outcomes \ {"pending"}
  BY <1>3 DEF Message, Outcomes
<1> QED BY <1>1, <1>2, <1>4, <1>5, <1>6, <1>7, <1>8, SettleOnce

LEMMA CallerExitOnce ==
  ASSUME IInv, MessagesComeOnce, NEW c \in Callers, CallerExit(c)
  PROVE  MessagesComeOnce'
<1>1. /\ pc[c] # "dead" /\ pc' = [pc EXCEPT ![c] = "dead"]
      /\ mbox' = [mbox EXCEPT ![c] = {}]
      /\ UNCHANGED <<cur, handling, worker, task>>
  BY DEF CallerExit, serverVars, workerVars
<1>2. \A d \in Callers : mbox'[d] \subseteq mbox[d]
  BY <1>1 DEF IInv, TypeOK
<1>3. mbox'[c] = {}
  BY <1>1 DEF IInv, TypeOK
<1>4. CASE pc[c] = "idle"
  <2> USE DEF MessagesComeOnce
  <2>1. calls' = calls
    BY <1>4 DEF CallerExit
  <2>2. /\ LeftoversAreTimedOut' /\ RespondedOnce'
        /\ handling # NoTask => calls'[handling.ref].outcome # "answered"
    BY <1>1, <1>2, <2>1, SilentFrame DEF RespondedOnce
  <2>3. \A d \in Callers : /\ pc'[d] = "resp" => pc[d] = "resp"
                           /\ pc'[d] = "dead" => pc[d] = "dead" \/ d = c
                           /\ pc[d] = "dead" => pc'[d] = "dead"
    BY <1>1 DEF IInv, TypeOK
  <2>4. AckedOnce'
    BY <1>1, <1>2, <2>2, <2>3 DEF AckedOnce
  <2>5. DeadAreSilent'
    <3>1. \A r \in Refs : calls[r].from \in Callers
      BY Domains DEF IInv, CallRecord
    <3> QED BY <1>2, <1>3, <2>1, <2>3, <3>1 DEF DeadAreSilent, Refs
  <2> QED BY <2>2, <2>4, <2>5
<1>5. CASE pc[c] # "idle"
  <2>1. pc[c] \in {"ack", "resp"} /\ Settle(c, "aborted", 0)
    BY <1>1, <1>5 DEF CallerExit, IInv, TypeOK
  <2>2. "aborted" \in Outcomes \ {"pending"}
    BY DEF Outcomes
  <2> QED BY <1>1, <1>2, <1>3, <2>1, <2>2, SettleOnce
<1> QED BY <1>4, <1>5

LEMMA TimeoutOnce ==
  ASSUME IInv, MessagesComeOnce, NEW c \in Callers, Timeout(c)
  PROVE  MessagesComeOnce'
<1>1. /\ pc[c] \in {"ack", "resp"} /\ pc' = [pc EXCEPT ![c] = "idle"]
      /\ Settle(c, "timeout", 0)
      /\ UNCHANGED <<cur, mbox, handling, worker, task>>
  BY DEF Timeout, serverVars, workerVars
<1>2. "timeout" \in Outcomes \ {"pending"}
  BY DEF Outcomes
<1> QED BY <1>1, <1>2, SettleOnce

(* The cast the server handles is one no id has been drawn for.             *)
LEMMA HandleCastOnce ==
  ASSUME IInv, MessagesComeOnce, NEW c \in Callers, HandleCast(c)
  PROVE  MessagesComeOnce'
<1> USE DEF MessagesComeOnce, callerVars, workerVars
<1> DEFINE ref == Head(inbox[c])
<1>1. /\ inbox[c] # <<>> /\ handling' = [ref |-> ref, rid |-> FreshReqId]
      /\ UNCHANGED <<calls, pc, cur, mbox, worker, task>>
  BY DEF HandleCast, NifRequest
<1>2. 1 \in DOMAIN inbox[c] /\ ref = inbox[c][1]
  <2>1. inbox[c] \in Seq(Nat)
    BY DEF IInv, TypeOK
  <2> QED BY <1>1, <2>1, EmptySeq, Domains DEF IInv
<1>3. ref \in Refs /\ calls[ref].from = c
  BY <1>2 DEF IInv, RequestsAreTracked, CastsInOrder
<1>4. \A k \in Rids : issued[k] # ref
  <2>1. \A k \in Rids : calls[issued[k]].from = c => issued[k] < ref
    BY <1>2 DEF IInv, RequestsAreTracked, CastsInOrder
  <2> QED BY <1>3, <2>1, Domains DEF IInv
<1>5. calls[ref].outcome # "answered"
  BY <1>3, <1>4, AnsweredRan
<1>6. \A d \in Callers : pc[d] = "resp" => cur[d] # ref
  BY <1>4 DEF IInv, RequestsAreTracked, WaitsForOwn
<1>7. \A d \in Callers : \A m \in mbox[d] : m.tag = "ack" => m.id # ref
  BY <1>4, MessageRefs
<1>8. AckedOnce'
  BY <1>1, <1>5, <1>6, <1>7 DEF AckedOnce
<1>9. RespondedOnce' /\ DeadAreSilent' /\ LeftoversAreTimedOut'
  BY <1>1 DEF RespondedOnce, DeadAreSilent, LeftoversAreTimedOut, RefOf, Refs
<1> QED BY <1>8, <1>9

(* A message is added to the mailbox of the process that made the call.     *)
LEMMA DeliverOnce ==
  ASSUME IInv, MessagesComeOnce, NEW r \in Refs, NEW m \in Message,
         RefOf(m) = r, calls[r].outcome # "answered",
         Deliver(calls[r].from, m), UNCHANGED <<calls, pc>>
  PROVE  /\ DeadAreSilent' /\ LeftoversAreTimedOut'
         /\ \A c \in Callers : mbox'[c] \subseteq mbox[c] \cup {m}
<1> DEFINE d == calls[r].from
<1>0. d \in Callers /\ calls[r].outcome \in Outcomes
  BY Domains DEF IInv, CallRecord
<1>1. CASE pc[d] = "dead"
  BY <1>1 DEF Deliver, MessagesComeOnce, DeadAreSilent, LeftoversAreTimedOut,
              RefOf, Refs
<1>2. CASE pc[d] # "dead"
  <2>1. mbox' = [mbox EXCEPT ![d] = @ \cup {m}]
    BY <1>2 DEF Deliver
  <2>2. /\ mbox'[d] = mbox[d] \cup {m}
        /\ \A c \in Callers : c # d => mbox'[c] = mbox[c]
    BY <1>0, <2>1 DEF IInv, TypeOK
  <2>3. calls[r].outcome \in {"pending", "timeout"}
    BY <1>0, <1>2 DEF MessagesComeOnce, DeadAreSilent, Outcomes
  <2>4. DeadAreSilent'
    BY <1>2, <2>2 DEF MessagesComeOnce, DeadAreSilent, Refs
  <2>5. LeftoversAreTimedOut'
    BY <2>2, <2>3 DEF MessagesComeOnce, LeftoversAreTimedOut, RefOf
  <2> QED BY <2>2, <2>4, <2>5
<1> QED BY <1>1, <1>2

LEMMA SendAckOnce ==
  ASSUME IInv, MessagesComeOnce, SendAck
  PROVE  MessagesComeOnce'
<1> USE DEF MessagesComeOnce, workerVars
<1> DEFINE m == [tag |-> "ack", id |-> handling.ref, val |-> handling.rid]
<1>1. /\ handling # NoTask /\ Deliver(calls[handling.ref].from, m)
      /\ handling' = NoTask /\ UNCHANGED <<calls, pc, cur, worker, task>>
  BY DEF SendAck
<1>2. m \in Message /\ RefOf(m) = handling.ref
  BY DEF IInv, TypeOK, Task, Message, RefOf
<1>3. handling.ref \in Refs /\ calls[handling.ref].outcome # "answered"
  BY <1>1, TasksOfCalls DEF AckedOnce
<1>4. /\ DeadAreSilent' /\ LeftoversAreTimedOut'
      /\ \A c \in Callers : mbox'[c] \subseteq mbox[c] \cup {m}
  BY <1>1, <1>2, <1>3, DeliverOnce
<1>5. AckedOnce'
  BY <1>1, <1>4 DEF AckedOnce
<1>6. RespondedOnce'
  BY <1>1, <1>4 DEF RespondedOnce
<1> QED BY <1>4, <1>5, <1>6

LEMMA WorkerExecuteOnce ==
  ASSUME IInv, MessagesComeOnce, WorkerExecute
  PROVE  MessagesComeOnce'
<1> USE DEF MessagesComeOnce, callerVars, serverVars
<1>1. /\ worker = "taken" /\ UNCHANGED <<calls, pc, cur, mbox, handling, task>>
  BY DEF WorkerExecute
<1>2. /\ task.rid = Len(executed) + 1 /\ task.rid \in Rids
      /\ task.ref = issued[task.rid] /\ task.ref \in Refs
      /\ DOMAIN executed = 1..Len(executed) /\ Len(executed) \in Nat
  BY <1>1, Domains DEF IInv, RequestsAreTracked, QueueInOrder, IssuedInOrder
<1>3. \A c \in Callers : \A m \in mbox[c] : m.tag = "resp" => m.id # task.rid
  BY <1>2, MessageRefs
<1>4. calls[task.ref].outcome # "answered"
  <2>1. ASSUME calls[task.ref].outcome = "answered" PROVE FALSE
    <3>1. PICK k \in DOMAIN executed : k \in Rids /\ issued[k] = task.ref
      BY <1>2, <2>1, AnsweredRan
    <3> QED BY <1>2, <3>1, IssuedOnce
  <2> QED BY <2>1
<1>5. AckedOnce' /\ DeadAreSilent' /\ LeftoversAreTimedOut'
  BY <1>1 DEF AckedOnce, DeadAreSilent, LeftoversAreTimedOut, RefOf, Refs
<1> QED BY <1>1, <1>3, <1>4, <1>5 DEF RespondedOnce

LEMMA WorkerRespondOnce ==
  ASSUME IInv, MessagesComeOnce, WorkerRespond
  PROVE  MessagesComeOnce'
<1> USE DEF MessagesComeOnce, serverVars
<1> DEFINE m == [tag |-> "resp", id |-> task.rid, val |-> task.ref]
<1>1. /\ worker = "done" /\ worker' = "idle"
      /\ Deliver(calls[task.ref].from, m) /\ UNCHANGED <<calls, pc, cur, handling>>
  BY DEF WorkerRespond
<1>2. m \in Message /\ RefOf(m) = task.ref
  BY DEF IInv, TypeOK, Task, Message, RefOf
<1>3. task.ref \in Refs /\ calls[task.ref].outcome # "answered"
  BY <1>1, TasksOfCalls DEF RespondedOnce
<1>4. /\ DeadAreSilent' /\ LeftoversAreTimedOut'
      /\ \A c \in Callers : mbox'[c] \subseteq mbox[c] \cup {m}
  BY <1>1, <1>2, <1>3, DeliverOnce
<1>5. AckedOnce'
  BY <1>1, <1>4 DEF AckedOnce
<1>6. RespondedOnce'
  BY <1>1 DEF RespondedOnce
<1> QED BY <1>4, <1>5, <1>6

LEMMA OnceStep ==
  ASSUME IInv, MessagesComeOnce, [Next]_vars
  PROVE  MessagesComeOnce'
<1>1. ASSUME UNCHANGED <<calls, pc, cur, mbox>>,
             handling' = handling \/ handling' = NoTask,
             worker' # "done" \/ UNCHANGED <<worker, task>>
      PROVE  MessagesComeOnce'
  BY <1>1 DEF MessagesComeOnce, AckedOnce, RespondedOnce, DeadAreSilent,
              LeftoversAreTimedOut, RefOf, Refs
<1>2. ASSUME NEW c \in Callers, CrashOnBadarg(c) PROVE MessagesComeOnce'
  BY <1>1, <1>2 DEF CrashOnBadarg, ServerDown, callerVars, workerVars
<1>3. CASE ServerExit
  BY <1>1, <1>3 DEF ServerExit, ServerDown, callerVars, workerVars
<1>4. CASE WorkerTake
  BY <1>1, <1>4 DEF WorkerTake, callerVars, serverVars
<1>5. CASE WorkerExit
  BY <1>1, <1>5 DEF WorkerExit, callerVars, serverVars
<1>6. CASE TeardownNext
  BY <1>1, <1>6 DEF TeardownNext, StopClient, DropQueue, callerVars, serverVars,
                    workerVars
<1>7. CASE UNCHANGED vars
  BY <1>1, <1>7 DEF vars, callerVars, serverVars, workerVars
<1> QED
  BY <1>2, <1>3, <1>4, <1>5, <1>6, <1>7, CallOnce, ReceiveAckOnce,
     ReceiveResponseOnce, TimeoutOnce, CallerExitOnce, HandleCastOnce,
     SendAckOnce, WorkerExecuteOnce, WorkerRespondOnce
  DEF Next, CallerNext, ServerNext, WorkerNext

LEMMA OnceInit == Init => MessagesComeOnce
  BY DEF Init, MessagesComeOnce, AckedOnce, RespondedOnce, DeadAreSilent,
         LeftoversAreTimedOut, Refs

(* What a process finds in its mailbox belongs to the call it is in or to   *)
(* one that timed out: nothing else makes mailboxes grow.                   *)
THEOREM LeftoversTimedOut == Spec => []LeftoversAreTimedOut
<1>1. Spec => []MessagesComeOnce
  BY OnceInit, OnceStep, Invariance, PTL DEF Spec
<1>2. MessagesComeOnce => LeftoversAreTimedOut
  BY DEF MessagesComeOnce
<1> QED BY <1>1, <1>2, PTL
=============================================================================
