-------------------------- MODULE CberlRefinement --------------------------
(***************************************************************************)
(* Proof that Cberl implements CallService: every step of the connection   *)
(* is a step of the service it promises or changes nothing the service     *)
(* speaks of.                                                              *)
(***************************************************************************)
EXTENDS CberlProofs

SeenRecord == [from : Callers, outcome : Outcomes, answer : Nat]

LEMMA SeenType ==
  ASSUME TypeOK
  PROVE  /\ CallsSeen \in Seq(SeenRecord)
         /\ Len(CallsSeen) = Len(calls)
         /\ DOMAIN CallsSeen = Refs
<1>1. /\ Refs = 1..Len(calls) /\ Len(calls) \in Nat
      /\ \A r \in Refs : calls[r] \in CallRecord
  BY Domains
<1>2. CallsSeen \in [1..Len(calls) -> SeenRecord]
  BY <1>1 DEF CallsSeen, SeenRecord, CallRecord, Refs
<1>3. CallsSeen \in Seq(SeenRecord)
  BY <1>1, <1>2
<1> QED BY <1>1, <1>2, <1>3, LenProperties DEF CallsSeen, Refs

(* A settled call is the only one that looks different afterwards. *)
LEMMA SeenSettle ==
  ASSUME TypeOK, NEW c \in Callers, NEW result \in Outcomes, NEW val \in Nat,
         cur[c] \in Refs, Settle(c, result, val)
  PROVE  CallsSeen' = [CallsSeen EXCEPT ![cur[c]] =
                         [from |-> @.from, outcome |-> result, answer |-> val]]
<1>1. /\ Refs' = Refs
      /\ \A r \in Refs :
           /\ calls'[r].from = calls[r].from
           /\ calls'[r].outcome = IF r = cur[c] THEN result ELSE calls[r].outcome
           /\ calls'[r].answer = IF r = cur[c] THEN val ELSE calls[r].answer
  BY SettleEffect
<1> DEFINE rec == [from |-> CallsSeen[cur[c]].from,
                   outcome |-> result, answer |-> val]
<1>2. \A r \in Refs : CallsSeen[r] = [from    |-> calls[r].from,
                                     outcome |-> calls[r].outcome,
                                     answer  |-> calls[r].answer]
  BY DEF CallsSeen, Refs
<1>3. CallsSeen' = [r \in Refs |-> [from    |-> calls'[r].from,
                                   outcome |-> calls'[r].outcome,
                                   answer  |-> calls'[r].answer]]
  BY <1>1 DEF CallsSeen, Refs
<1>4. DOMAIN CallsSeen = Refs
  BY DEF CallsSeen, Refs
<1>5. CallsSeen' = [r \in Refs |-> IF r = cur[c] THEN rec ELSE CallsSeen[r]]
  <2> SUFFICES ASSUME NEW r \in Refs
               PROVE  [from |-> calls'[r].from, outcome |-> calls'[r].outcome,
                       answer |-> calls'[r].answer]
                      = IF r = cur[c] THEN rec ELSE CallsSeen[r]
    BY <1>3
  <2>1. CASE r = cur[c]
    <3>0. CallsSeen[r] = [from    |-> calls[r].from,
                          outcome |-> calls[r].outcome,
                          answer  |-> calls[r].answer]
      BY <1>2
    <3>1. CallsSeen[r].from = calls[r].from
      BY <3>0
    <3>2. rec = [from |-> calls[r].from, outcome |-> result, answer |-> val]
      BY <2>1, <3>1
    <3>3. /\ calls'[r].from = calls[r].from
          /\ calls'[r].outcome = result /\ calls'[r].answer = val
      BY <1>1, <2>1
    <3> HIDE DEF rec
    <3> QED BY <2>1, <3>2, <3>3
  <2>2. CASE r # cur[c]
    BY <1>1, <1>2, <2>2
  <2> QED BY <2>1, <2>2
<1>6. [CallsSeen EXCEPT ![cur[c]] = rec]
        = [r \in Refs |-> IF r = cur[c] THEN rec ELSE CallsSeen[r]]
  BY <1>4
<1> QED BY <1>5, <1>6

LEMMA SeenCall ==
  ASSUME TypeOK, NEW c \in Callers, NEW valid \in BOOLEAN, Call(c, valid)
  PROVE  CallsSeen' =
           Append(CallsSeen, [from |-> c, outcome |-> "pending", answer |-> 0])
<1> DEFINE rec  == [from |-> c, valid |-> valid,
                    outcome |-> "pending", answer |-> 0]
           seen == [from |-> c, outcome |-> "pending", answer |-> 0]
<1>1. calls' = Append(calls, rec) /\ rec \in CallRecord
      /\ calls \in Seq(CallRecord)
  BY DEF Call, TypeOK, CallRecord, Outcomes
<1>2. /\ DOMAIN calls' = 1..(Len(calls) + 1) /\ DOMAIN calls = 1..Len(calls)
      /\ Len(calls) \in Nat
      /\ calls'[Len(calls) + 1] = rec
      /\ \A r \in 1..Len(calls) : calls'[r] = calls[r]
  BY <1>1, AppendProperties, LenProperties
<1>3. seen \in SeenRecord
  BY DEF SeenRecord, Outcomes
<1>4. /\ Append(CallsSeen, seen) \in Seq(SeenRecord)
      /\ Len(Append(CallsSeen, seen)) = Len(calls) + 1
      /\ \A r \in 1..Len(calls) : Append(CallsSeen, seen)[r] = CallsSeen[r]
      /\ Append(CallsSeen, seen)[Len(calls) + 1] = seen
  BY <1>3, SeenType, AppendProperties
<1>5. /\ CallsSeen' \in Seq(SeenRecord) /\ Len(CallsSeen') = Len(calls) + 1
  <2>1. CallsSeen' \in [1..(Len(calls) + 1) -> SeenRecord]
    <3>1. \A r \in 1..(Len(calls) + 1) : calls'[r] \in CallRecord
      BY <1>1, <1>2, ElementOfSeq
    <3> QED BY <3>1, <1>2 DEF CallsSeen, SeenRecord, CallRecord
  <2>2. Len(calls) + 1 \in Nat
    BY <1>2
  <2> QED BY <2>1, <2>2, LenProperties
<1>6. \A r \in 1..(Len(calls) + 1) : CallsSeen'[r] = Append(CallsSeen, seen)[r]
  BY <1>2, <1>4 DEF CallsSeen
<1> QED BY <1>4, <1>5, <1>6, SeqEqual

-----------------------------------------------------------------------------
(* Steps of the connection as steps of the service. *)

LEMMA SettleMaps ==
  ASSUME IInv, NEW c \in Callers, pc[c] \in {"ack", "resp"},
         NEW result \in {"timeout", "aborted"}, Settle(c, result, 0),
         executed' = executed
  PROVE  Service!Next
<1>1. cur[c] \in Refs /\ calls[cur[c]].outcome = "pending"
  BY DEF IInv, RequestsAreTracked, OnePending
<1>2. CallsSeen' = [CallsSeen EXCEPT ![cur[c]] =
                       [from |-> @.from, outcome |-> result, answer |-> 0]]
  <2>1. TypeOK /\ result \in Outcomes /\ 0 \in Nat
    BY DEF IInv, Outcomes
  <2> QED BY <1>1, <2>1, SeenSettle
<1>3. CallsSeen[cur[c]].outcome = "pending" /\ cur[c] \in DOMAIN CallsSeen
  BY <1>1 DEF CallsSeen, Refs
<1>4. Service!GiveUp(cur[c])
  BY <1>2, <1>3 DEF Service!GiveUp
<1> QED BY <1>3, <1>4 DEF Service!Next

LEMMA StepMaps ==
  ASSUME IInv, [Next]_vars
  PROVE  [Service!Next]_(Service!vars)
<1> USE DEF IInv
<1>1. ASSUME NEW c \in Callers, NEW valid \in BOOLEAN, Call(c, valid)
      PROVE  Service!Next
  <2>1. \A r \in DOMAIN CallsSeen :
          CallsSeen[r].from = c => CallsSeen[r].outcome # "pending"
    BY <1>1 DEF Call, CallsSeen, RequestsAreTracked, OnePending, Refs
  <2>2. executed' = executed
    BY <1>1 DEF Call, workerVars
  <2>3. Service!Invoke(c)
    BY <1>1, <2>1, <2>2, SeenCall DEF Service!Invoke
  <2> QED BY <2>3 DEF Service!Next
<1>2. ASSUME NEW c \in Callers, ReceiveResponse(c) PROVE Service!Next
  <2> DEFINE r == cur[c]
  <2>1. PICK m \in Matching(c) : Settle(c, "answered", m.val)
    BY <1>2 DEF ReceiveResponse
  <2>2. /\ m \in mbox[c] /\ m.tag = "resp" /\ m.id = respRef[c]
        /\ m.val \in Nat
    BY <1>2 DEF ReceiveResponse, Matching, TypeOK, Message
  <2>3. /\ issued[respRef[c]] = r /\ r \in Refs
        /\ calls[r].outcome = "pending"
    BY <1>2 DEF ReceiveResponse, RequestsAreTracked, WaitsForOwn, OnePending
  <2>4. m.id \in DOMAIN executed /\ executed[m.id] = m.val /\ m.val = r
    BY <2>2, <2>3 DEF RequestsAreTracked, MessagesMatch, QueueInOrder
  <2>5. CallsSeen' = [CallsSeen EXCEPT ![r] =
                        [from |-> @.from, outcome |-> "answered", answer |-> r]]
    <3>1. TypeOK /\ "answered" \in Outcomes /\ r \in Nat
          /\ Settle(c, "answered", r)
      BY <2>1, <2>2, <2>4 DEF Outcomes
    <3> QED BY <2>3, <3>1, SeenSettle
  <2>6. CallsSeen[r].outcome = "pending" /\ r \in DOMAIN CallsSeen
    BY <2>3 DEF CallsSeen, Refs
  <2>7. r \in Service!Applied
    BY <2>4 DEF Service!Applied
  <2>8. executed' = executed
    BY <1>2 DEF ReceiveResponse, workerVars
  <2>9. Service!Return(r)
    BY <2>5, <2>6, <2>7, <2>8 DEF Service!Return
  <2> QED BY <2>6, <2>9 DEF Service!Next
<1>3. ASSUME NEW c \in Callers, Timeout(c) PROVE Service!Next
  BY <1>3, SettleMaps DEF Timeout, workerVars
<1>4. ASSUME NEW c \in Callers, CallerExit(c)
      PROVE  Service!Next \/ UNCHANGED <<calls, executed>>
  <2>1. CASE pc[c] = "idle"
    BY <1>4, <2>1 DEF CallerExit, workerVars
  <2>2. CASE pc[c] # "idle"
    BY <1>4, <2>2, SettleMaps DEF CallerExit, workerVars, TypeOK
  <2> QED BY <2>1, <2>2
<1>5. CASE WorkerExecute
  <2> DEFINE r == task.ref
             n == Len(executed) + 1
  <2>1. /\ task.rid = n /\ n \in Rids /\ r = issued[n] /\ r \in Refs
        /\ calls' = calls /\ executed' = Append(executed, r)
    BY <1>5 DEF WorkerExecute, RequestsAreTracked, QueueInOrder, IssuedInOrder
  <2>2. ASSUME NEW q \in Service!Applied, CallsSeen[q].from = CallsSeen[r].from
        PROVE  q < r
    <3>1. PICK i \in DOMAIN executed : q = executed[i]
      BY DEF Service!Applied
    <3>2. i \in Rids /\ q = issued[i] /\ i < n /\ q \in Refs
      BY <3>1, Domains DEF RequestsAreTracked, QueueInOrder, IssuedInOrder
    <3>3. calls[q].from = calls[r].from
      BY <2>1, <2>2, <3>2 DEF CallsSeen, Refs
    <3> QED BY <2>1, <3>2, <3>3 DEF RequestsAreTracked, IssuedInOrder
  <2>3. CallsSeen' = CallsSeen /\ r \in DOMAIN CallsSeen
    BY <2>1 DEF CallsSeen, Refs
  <2>4. Service!Apply(r)
    BY <2>1, <2>2, <2>3 DEF Service!Apply
  <2> QED BY <2>3, <2>4 DEF Service!Next
<1>6. ASSUME NEW c \in Callers,
             ReceiveAck(c) \/ HandleCast(c) \/ CrashOnBadarg(c)
      PROVE  UNCHANGED <<calls, executed>>
  BY <1>6 DEF ReceiveAck, HandleCast, CrashOnBadarg, ServerDown, workerVars
<1>7. ASSUME SendAck \/ ServerExit \/ WorkerTake \/ WorkerRespond
             \/ WorkerExit \/ TeardownNext \/ UNCHANGED vars
      PROVE  UNCHANGED <<calls, executed>>
  BY <1>7 DEF SendAck, ServerExit, ServerDown, WorkerTake, WorkerRespond,
              WorkerExit, TeardownNext, StopClient, DropQueue, vars, workerVars
<1>8. ASSUME UNCHANGED <<calls, executed>> PROVE UNCHANGED Service!vars
  BY <1>8 DEF Service!vars, CallsSeen
<1> QED
  BY <1>1, <1>2, <1>3, <1>4, <1>5, <1>6, <1>7, <1>8
  DEF Next, CallerNext, ServerNext, WorkerNext

(* The connection gives its users the service of CallService, for any      *)
(* processes and any number of calls.                                      *)
THEOREM Refinement == Spec => ImplementsService
<1>1. Init => Service!Init
  BY DEF Init, Service!Init, CallsSeen
<1>2. IInv /\ [Next]_vars => [Service!Next]_(Service!vars)
  BY StepMaps
<1> QED BY <1>1, <1>2, Invariance, PTL DEF Spec, ImplementsService, Service!Spec

-----------------------------------------------------------------------------
(* The Client's queue.  A worker that has no task shows none. *)
WorkerIsIdle == worker \in {"idle", "exited"} => task = NoTask

LEMMA IdleInit == Init => WorkerIsIdle
  BY DEF Init, WorkerIsIdle

LEMMA IdleStep == WorkerIsIdle /\ [Next]_vars => WorkerIsIdle'
<1> SUFFICES ASSUME WorkerIsIdle, [Next]_vars PROVE WorkerIsIdle'
  OBVIOUS
<1>1. ASSUME UNCHANGED workerVars PROVE WorkerIsIdle'
  BY <1>1 DEF WorkerIsIdle, workerVars
<1>2. CASE WorkerNext
  BY <1>2 DEF WorkerNext, WorkerTake, WorkerExecute, WorkerRespond, WorkerExit,
              WorkerIsIdle
<1>3. CASE TeardownNext
  BY <1>1, <1>3 DEF TeardownNext, StopClient, DropQueue
<1>4. CASE ServerNext
  BY <1>1, <1>4 DEF ServerNext, HandleCast, CrashOnBadarg, SendAck, ServerExit,
                    ServerDown
<1>5. ASSUME NEW c \in Callers, CallerNext(c) PROVE WorkerIsIdle'
  BY <1>1, <1>5 DEF CallerNext, Call, ReceiveAck, ReceiveResponse, Timeout,
                    CallerExit
<1>6. CASE UNCHANGED vars
  BY <1>1, <1>6 DEF vars
<1> QED BY <1>2, <1>3, <1>4, <1>5, <1>6 DEF Next

IdsOf(q) == [i \in DOMAIN q |-> q[i].rid]

LEMMA IdsEmpty == IdsOf(<<>>) = <<>>
  BY EmptySeq DEF IdsOf

LEMMA IdsAppend ==
  ASSUME NEW q \in Seq(Task), NEW t \in Task
  PROVE  IdsOf(Append(q, t)) = Append(IdsOf(q), t.rid)
<1>1. /\ \A u \in Task : u.rid \in Nat
      /\ Len(q) \in Nat /\ DOMAIN q = 1..Len(q)
      /\ \A i \in 1..Len(q) : q[i] \in Task
  BY LenProperties DEF Task
<1>2. /\ Append(q, t) \in Seq(Task) /\ Len(Append(q, t)) = Len(q) + 1
      /\ \A i \in 1..Len(q) : Append(q, t)[i] = q[i]
      /\ Append(q, t)[Len(q) + 1] = t
  BY AppendProperties
<1>3. IdsOf(q) \in [1..Len(q) -> Nat]
  BY <1>1 DEF IdsOf
<1>4. IdsOf(q) \in Seq(Nat) /\ Len(IdsOf(q)) = Len(q)
  BY <1>1, <1>3, LenProperties
<1>5. /\ Append(IdsOf(q), t.rid) \in Seq(Nat)
      /\ Len(Append(IdsOf(q), t.rid)) = Len(q) + 1
      /\ \A i \in 1..Len(q) : Append(IdsOf(q), t.rid)[i] = q[i].rid
      /\ Append(IdsOf(q), t.rid)[Len(q) + 1] = t.rid
  BY <1>1, <1>4, AppendProperties DEF IdsOf
<1>6. Append(IdsOf(q), t.rid) \in [1..(Len(q) + 1) -> Nat]
  BY <1>5, LenProperties
<1>7. DOMAIN Append(q, t) = 1..(Len(q) + 1)
  BY <1>2, LenProperties
<1>8. \A i \in 1..(Len(q) + 1) :
         Append(q, t)[i].rid = Append(IdsOf(q), t.rid)[i]
  BY <1>1, <1>2, <1>5
<1> QED BY <1>6, <1>7, <1>8 DEF IdsOf

LEMMA IdsTail ==
  ASSUME NEW q \in Seq(Task), q # <<>>
  PROVE  /\ IdsOf(q) # <<>>
         /\ Head(IdsOf(q)) = Head(q).rid
         /\ IdsOf(Tail(q)) = Tail(IdsOf(q))
<1>1. /\ \A u \in Task : u.rid \in Nat
      /\ Len(q) \in Nat /\ DOMAIN q = 1..Len(q) /\ Len(q) # 0
      /\ \A i \in 1..Len(q) : q[i] \in Task
  BY LenProperties, EmptySeq DEF Task
<1>2. /\ Tail(q) \in Seq(Task) /\ Len(Tail(q)) = Len(q) - 1
      /\ \A i \in 1..Len(Tail(q)) : Tail(q)[i] = q[i + 1]
      /\ DOMAIN Tail(q) = 1..Len(Tail(q))
  BY HeadTailProperties, LenProperties
<1>3. IdsOf(q) \in [1..Len(q) -> Nat]
  BY <1>1 DEF IdsOf
<1>4. IdsOf(q) \in Seq(Nat) /\ Len(IdsOf(q)) = Len(q)
  BY <1>1, <1>3, LenProperties
<1>5. IdsOf(q) # <<>>
  BY <1>1, <1>4, EmptySeq
<1>6. Head(IdsOf(q)) = Head(q).rid
  <2>1. Head(IdsOf(q)) = IdsOf(q)[1] /\ Head(q) = q[1] /\ 1 \in DOMAIN q
    BY <1>1, <1>4, <1>5
  <2> QED BY <2>1 DEF IdsOf
<1>7. /\ Tail(IdsOf(q)) \in Seq(Nat) /\ Len(Tail(IdsOf(q))) = Len(q) - 1
      /\ \A i \in 1..(Len(q) - 1) : Tail(IdsOf(q))[i] = IdsOf(q)[i + 1]
  BY <1>4, <1>5, HeadTailProperties
<1>8. Tail(IdsOf(q)) \in [1..(Len(q) - 1) -> Nat]
  BY <1>7, LenProperties
<1>9. \A i \in 1..(Len(q) - 1) : Tail(IdsOf(q))[i] = Tail(q)[i].rid
  BY <1>1, <1>2, <1>7 DEF IdsOf
<1> QED BY <1>2, <1>5, <1>6, <1>8, <1>9 DEF IdsOf

LEMMA TaskStepMaps ==
  IInv /\ WorkerIsIdle /\ [Next]_vars => [TaskQueue!Next]_(TaskQueue!vars)
<1> SUFFICES ASSUME IInv, WorkerIsIdle, [Next]_vars
             PROVE  [TaskQueue!Next]_(TaskQueue!vars)
  OBVIOUS
<1> DEFINE Done == IF worker = "done" THEN Len(executed) - 1 ELSE Len(executed)
           Ended == worker = "exited"
<1>t. /\ queue \in Seq(Task) /\ executed \in Seq(Nat) /\ issued \in Seq(Nat)
      /\ Len(executed) \in Nat /\ Len(issued) \in Nat
      /\ \A u \in Task : u.rid \in Nat
  BY LenProperties DEF IInv, TypeOK, Task
<1>v. ASSUME UNCHANGED <<issued, queue, stopped, worker, task, executed>>
      PROVE  UNCHANGED TaskQueue!vars
  BY <1>v DEF TaskQueue!vars
<1>1. ASSUME NEW c \in Callers, HandleCast(c) PROVE TaskQueue!Next
  <2> DEFINE t == [ref |-> Head(inbox[c]), rid |-> Len(issued) + 1]
  <2>1. ~stopped /\ UNCHANGED <<stopped, worker, task, executed>>
    BY <1>1 DEF HandleCast, IInv, RequestsAreTracked, QueueInOrder, workerVars
  <2>2. Head(inbox[c]) \in Nat
    <3>1. inbox[c] \in Seq(Nat) /\ inbox[c] # <<>>
      BY <1>1 DEF HandleCast, IInv, TypeOK
    <3> QED BY <3>1, HeadTailProperties
  <2>3. t \in Task
    BY <1>t, <2>2 DEF Task
  <2>4. /\ queue' = Append(queue, t)
        /\ issued' = Append(issued, Head(inbox[c]))
    BY <1>1 DEF HandleCast, NifRequest, FreshReqId
  <2>5. IdsOf(queue') = Append(IdsOf(queue), Len(issued) + 1)
    BY <1>t, <2>3, <2>4, IdsAppend
  <2>6. Len(issued') = Len(issued) + 1
    BY <1>t, <2>2, <2>4, AppendProperties
  <2> QED BY <2>1, <2>5, <2>6 DEF TaskQueue!Next, TaskQueue!Post, IdsOf
<1>2. CASE WorkerTake
  <2>1. /\ ~stopped /\ task.rid = 0 /\ queue # <<>>
        /\ task' = Head(queue) /\ queue' = Tail(queue)
        /\ UNCHANGED <<issued, stopped, executed>>
        /\ worker = "idle" /\ worker' = "taken"
    BY <1>2 DEF WorkerTake, WorkerIsIdle, NoTask, serverVars
  <2>2. /\ IdsOf(queue) # <<>> /\ task'.rid = Head(IdsOf(queue))
        /\ IdsOf(queue') = Tail(IdsOf(queue))
    BY <1>t, <2>1, IdsTail
  <2> QED BY <2>1, <2>2 DEF TaskQueue!Next, TaskQueue!Start, IdsOf
<1>3. CASE WorkerExecute
  <2>1. /\ worker = "taken" /\ worker' = "done"
        /\ executed' = Append(executed, task.ref)
        /\ UNCHANGED <<issued, queue, stopped, task>>
    BY <1>3 DEF WorkerExecute
  <2>2. task.ref \in Nat
    BY DEF IInv, TypeOK, Task
  <2>3. Len(executed') = Len(executed) + 1
    BY <1>t, <2>1, <2>2, AppendProperties
  <2> QED BY <1>t, <2>1, <2>3 DEF TaskQueue!vars
<1>4. CASE WorkerRespond
  <2>1. /\ worker = "done" /\ worker' = "idle" /\ task' = NoTask
        /\ UNCHANGED <<issued, queue, stopped, executed>>
    BY <1>4 DEF WorkerRespond
  <2>2. task.rid # 0 /\ task'.rid = 0
    BY <1>t, <2>1, LenProperties
       DEF IInv, RequestsAreTracked, QueueInOrder, NoTask
  <2> QED BY <1>t, <2>1, <2>2 DEF TaskQueue!Next, TaskQueue!Finish
<1>5. CASE StopClient
  BY <1>5 DEF StopClient, workerVars, TaskQueue!Next, TaskQueue!Stop
<1>6. CASE WorkerExit
  <2>1. /\ worker = "idle" /\ worker' = "exited" /\ stopped /\ task.rid = 0
        /\ UNCHANGED <<issued, queue, stopped, task, executed>>
    BY <1>6 DEF WorkerExit, WorkerIsIdle, NoTask
  <2> QED BY <2>1 DEF TaskQueue!Next, TaskQueue!End
<1>7. CASE DropQueue
  <2>1. /\ worker = "exited" /\ queue # <<>> /\ queue' = <<>>
        /\ UNCHANGED <<issued, stopped, worker, task, executed>>
    BY <1>7 DEF DropQueue, workerVars
  <2>2. IdsOf(queue) # <<>> /\ IdsOf(queue') = <<>>
    BY <1>t, <2>1, IdsTail, IdsEmpty
  <2> QED BY <2>1, <2>2 DEF TaskQueue!Next, TaskQueue!Discard, IdsOf
<1>8. ASSUME NEW c \in Callers, CallerNext(c) \/ CrashOnBadarg(c)
      PROVE  UNCHANGED TaskQueue!vars
  BY <1>8, <1>v DEF CallerNext, Call, ReceiveAck, ReceiveResponse, Timeout,
                    CallerExit, CrashOnBadarg, ServerDown, workerVars
<1>9. CASE SendAck \/ ServerExit \/ UNCHANGED vars
  BY <1>9, <1>v DEF SendAck, ServerExit, ServerDown, workerVars, vars
<1> QED
  BY <1>1, <1>2, <1>3, <1>4, <1>5, <1>6, <1>7, <1>8, <1>9
  DEF Next, ServerNext, WorkerNext, TeardownNext

(* The Client's queue and worker thread use the io_service as the executor  *)
(* it is: tasks run in the order in which the NIF drew their ids            *)
(* (Client::get and its siblings).                                          *)
THEOREM TaskQueueRefinement == Spec => UsesExecutor
<1>1. Init => TaskQueue!Init
  BY IdsEmpty, EmptySeq DEF Init, TaskQueue!Init, NoTask, IdsOf
<1>2. Spec => []WorkerIsIdle
  BY IdleInit, IdleStep, PTL DEF Spec
<1> QED
  BY <1>1, <1>2, TaskStepMaps, Invariance, PTL
  DEF Spec, UsesExecutor, TaskQueue!Spec
=============================================================================
