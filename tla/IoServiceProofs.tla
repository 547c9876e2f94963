-------------------------- MODULE IoServiceProofs --------------------------
(***************************************************************************)
(* Proofs about the io_service, for any number of tasks: no wake-up is     *)
(* lost, and the service is the executor that the rest of the program      *)
(* takes it for.                                                           *)
(***************************************************************************)
EXTENDS IoService, SequenceTheorems, TLAPS

(* How far the thread outside has come with ~Client says what is left of    *)
(* the service; the worker has a task exactly while it runs a handler.      *)
Places ==
  /\ stopped <=> user \in {"join", "joined", "released", "destroyed"}
  /\ user \in {"joined", "released", "destroyed"} => worker = "exited"
  /\ worker = "exited" => stopped
  /\ guard <=> user \notin {"released", "destroyed"}
  /\ running # 0 <=> worker = "handler"

(* The event is set whenever a worker that waits has a reason to go on, and *)
(* a worker is blocked on a set event only as long as its signal is due.    *)
EventIsSet ==
  /\ worker \in {"wait", "asleep", "woken"} /\ (opQueue # <<>> \/ stopped) => signalled
  /\ worker = "asleep" /\ signalled => user = "notify"

IInv ==
  /\ TypeOK
  /\ CriticalSections
  /\ OutstandingIsCounted
  /\ Places
  /\ EventIsSet

-----------------------------------------------------------------------------
LEMMA Sequences ==
  ASSUME NEW S, NEW q \in Seq(S)
  PROVE  /\ Len(q) \in Nat
         /\ q = <<>> <=> Len(q) = 0
         /\ \A x \in S : /\ Append(q, x) \in Seq(S)
                         /\ Len(Append(q, x)) = Len(q) + 1
         /\ q # <<>> => /\ Head(q) \in S
                        /\ Tail(q) \in Seq(S)
                        /\ Len(Tail(q)) = Len(q) - 1
  BY EmptySeq, HeadTailProperties, AppendProperties, LenProperties

LEMMA InvInit == Init => IInv
<1> SUFFICES ASSUME Init PROVE IInv
  OBVIOUS
<1>1. TypeOK
  BY EmptySeq DEF Init, TypeOK, UserStates, WorkerStates, GuardBeforeThread
<1>2. CriticalSections /\ Places /\ EventIsSet
  BY DEF Init, CriticalSections, Places, EventIsSet
<1>3. OutstandingIsCounted
  BY EmptySeq DEF Init, OutstandingIsCounted, GuardBeforeThread
<1> QED BY <1>1, <1>2, <1>3 DEF IInv

(* As long as the guard has not been released there is work, so also as     *)
(* long as the worker has not ended; a task that was taken adds to it.      *)
LEMMA GuardHolds ==
  ASSUME IInv
  PROVE  /\ guard \/ worker # "exited" => outstanding > 0
         /\ worker = "cleanup" => outstanding > 1
<1>1. Len(opQueue) \in Nat
  BY Sequences DEF IInv, TypeOK
<1> QED BY <1>1 DEF IInv, TypeOK, Places, OutstandingIsCounted

LEMMA InvStep == IInv /\ [Next]_vars => IInv'
<1> SUFFICES ASSUME IInv, [Next]_vars PROVE IInv'
  OBVIOUS
<1> USE DEF IInv, event, tasks
<1>q. /\ opQueue \in Seq(Nat \ {0}) /\ posted \in Nat
      /\ Len(opQueue) \in Nat /\ (opQueue = <<>> <=> Len(opQueue) = 0)
  BY Sequences DEF TypeOK
<1> USE DEF TypeOK, UserStates, WorkerStates, CriticalSections,
            OutstandingIsCounted, Places, EventIsSet
<1>1. CASE WorkStarted
  BY <1>1, <1>q DEF WorkStarted
<1>2. CASE LockToPost
  BY <1>2, <1>q DEF LockToPost
<1>3. CASE Push
  <2>1. /\ opQueue' \in Seq(Nat \ {0})
        /\ Len(opQueue') = Len(opQueue) + 1
        /\ opQueue' # <<>>
    BY <1>3, <1>q, Sequences DEF Push
  <2> QED BY <1>3, <1>q, <2>1 DEF Push
<1>4. CASE Notify
  BY <1>4, <1>q DEF Notify, WakeUp
<1>5. CASE DestroyClient
  BY <1>5, <1>q DEF DestroyClient
<1>6. CASE LockToStop
  BY <1>6, <1>q DEF LockToStop
<1>7. CASE Stop
  BY <1>7, <1>q DEF Stop, WakeUp
<1>8. CASE Join
  BY <1>8, <1>q DEF Join
<1>9. CASE ReleaseGuard
  <2>1. guard /\ outstanding - 1 \in Nat
    BY <1>9, GuardHolds DEF ReleaseGuard
  <2>2. TypeOK' /\ CriticalSections' /\ Places'
    BY <1>9, <2>1 DEF ReleaseGuard
  <2>3. OutstandingIsCounted'
    BY <1>9, <2>1, <1>q DEF ReleaseGuard
  <2>4. EventIsSet'
    BY <1>9 DEF ReleaseGuard
  <2> QED BY <2>2, <2>3, <2>4
<1>10. CASE Shutdown
  BY <1>10, <1>q, EmptySeq DEF Shutdown
<1>11. CASE Run
  BY <1>11, <1>q, GuardHolds DEF Run
<1>12. CASE Lock
  BY <1>12, <1>q DEF Lock
<1>13. CASE Quit
  BY <1>13, <1>q DEF Quit
<1>14. CASE Pop
  <2>1. /\ opQueue' \in Seq(Nat \ {0})
        /\ Len(opQueue') = Len(opQueue) - 1
        /\ running' \in Nat \ {0}
    BY <1>14, <1>q, Sequences DEF Pop
  <2> QED BY <1>14, <1>q, <2>1 DEF Pop
<1>15. CASE Clear
  BY <1>15, <1>q DEF Clear
<1>16. CASE Sleep
  BY <1>16, <1>q DEF Sleep
<1>17. CASE SpuriousWakeUp
  BY <1>17, <1>q DEF SpuriousWakeUp
<1>18. CASE Relock
  BY <1>18, <1>q DEF Relock
<1>19. CASE Awake
  BY <1>19, <1>q DEF Awake
<1>20. CASE RunHandler
  BY <1>20, <1>q DEF RunHandler
<1>21. CASE Cleanup
  BY <1>21, <1>q, GuardHolds DEF Cleanup
<1>22. CASE UNCHANGED vars
  BY <1>22, <1>q DEF vars
<1> QED
  BY <1>1, <1>2, <1>3, <1>4, <1>5, <1>6, <1>7, <1>8, <1>9, <1>10, <1>11,
     <1>12, <1>13, <1>14, <1>15, <1>16, <1>17, <1>18, <1>19, <1>20, <1>21,
     <1>22 DEF Next, UserGoesOn, WorkerNext

(* The states of the io_service, its two threads and its event, at every    *)
(* moment.                                                                  *)
THEOREM Invariance == Spec => []IInv
  BY InvInit, InvStep, PTL DEF Spec

(* The variables of the io_service keep their types (client.h).             *)
THEOREM TypeCorrect == Spec => []TypeOK
<1>1. IInv => TypeOK
  BY DEF IInv
<1> QED BY <1>1, Invariance, PTL

(* The worker never sleeps through a task or a stop: whenever it is blocked *)
(* with something to do, the signal that wakes it is still to come          *)
(* (post_immediate_completion, stop_all_threads).                           *)
THEOREM NoWakeUpIsLost == Spec => []NoLostWakeUp
<1>1. IInv => NoLostWakeUp
  BY DEF IInv, EventIsSet, NoLostWakeUp
<1> QED BY <1>1, Invariance, PTL

(* outstanding_work_ counts the guard and the unfinished tasks, so that the *)
(* service never stops by itself (work_started, work_finished).             *)
THEOREM WorkIsCounted == Spec => []OutstandingIsCounted
<1>1. IInv => OutstandingIsCounted
  BY DEF IInv
<1> QED BY <1>1, Invariance, PTL

-----------------------------------------------------------------------------
(* The steps that only move a thread, and what the others are to the queue. *)
LEMMA QueueInit == Init => Queue!Init
  BY DEF Init, Queue!Init

LEMMA QueueStep == IInv /\ [Next]_vars => [Queue!Next]_Queue!vars
<1> SUFFICES ASSUME IInv, [Next]_vars PROVE [Queue!Next]_Queue!vars
  OBVIOUS
<1> DEFINE Moved == UNCHANGED <<posted, opQueue, running, ran, stopped>>
                    /\ (worker = "exited") = (worker' = "exited")
<1>m. Moved => UNCHANGED Queue!vars
  BY DEF Queue!vars
<1> USE DEF IInv, Places, event, tasks
<1>1. CASE Push
  BY <1>1 DEF Push, Queue!Next, Queue!Post
<1>2. CASE Pop
  BY <1>2 DEF Pop, Queue!Next, Queue!Start
<1>3. CASE RunHandler
  BY <1>3 DEF RunHandler, Queue!Next, Queue!Finish
<1>4. CASE Stop
  <2>1. ~stopped
    BY <1>4 DEF Stop
  <2>2. (worker = "exited") = (worker' = "exited")
    BY <1>4 DEF Stop, WakeUp
  <2> QED BY <1>4, <2>1, <2>2 DEF Stop, Queue!Next, Queue!Stop
<1>5. CASE Quit
  BY <1>5 DEF Quit, Queue!Next, Queue!End
<1>6. CASE Shutdown
  <2>1. worker = "exited" /\ worker' = worker
    BY <1>6 DEF Shutdown
  <2>2. CASE opQueue = <<>>
    BY <1>6, <1>m, <2>1, <2>2 DEF Shutdown
  <2>3. CASE opQueue # <<>>
    BY <1>6, <2>1, <2>3 DEF Shutdown, Queue!Next, Queue!Discard
  <2> QED BY <2>2, <2>3
<1>7. CASE Run
  <2>1. outstanding # 0
    BY <1>7, GuardHolds DEF Run, TypeOK
  <2> QED BY <1>7, <1>m, <2>1 DEF Run, TypeOK
<1>8. CASE Cleanup
  <2>1. outstanding # 1
    BY <1>8, GuardHolds DEF Cleanup, TypeOK
  <2> QED BY <1>8, <1>m, <2>1 DEF Cleanup, TypeOK
<1>9. CASE \/ WorkStarted \/ LockToPost \/ Notify \/ DestroyClient
           \/ LockToStop \/ Join \/ ReleaseGuard
  BY <1>9, <1>m DEF WorkStarted, LockToPost, Notify, WakeUp, DestroyClient,
                    LockToStop, Join, ReleaseGuard
<1>10. CASE Lock \/ Clear \/ Sleep \/ SpuriousWakeUp \/ Relock \/ Awake
  BY <1>10, <1>m DEF Lock, Clear, Sleep, SpuriousWakeUp, Relock, Awake
<1>11. CASE UNCHANGED vars
  BY <1>11, <1>m DEF vars
<1> QED
  BY <1>1, <1>2, <1>3, <1>4, <1>5, <1>6, <1>7, <1>8, <1>9, <1>10, <1>11
  DEF Next, UserGoesOn, WorkerNext

(* The io_service, with its mutex, its event and its counter, is the        *)
(* executor that cb::Client takes it for (Client::get and its siblings).    *)
THEOREM Refinement == Spec => ImplementsExecutor
<1> QED
  BY QueueInit, QueueStep, Invariance, PTL
  DEF Spec, ImplementsExecutor, Queue!Spec
=============================================================================
