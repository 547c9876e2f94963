----------------------------- MODULE IoService -----------------------------
(***************************************************************************)
(* The io_service of a cb::Client in detail: two threads, a mutex, and an  *)
(* event made of a condition variable and a word of state.                 *)
(*                                                                         *)
(* One thread at a time uses the service from outside: the one that runs   *)
(* the gen_server posts tasks, and when that process is gone some thread   *)
(* of the Erlang VM runs ~Client.  The service is built with a concurrency *)
(* hint of 1, so only the worker thread runs tasks and one_thread_ is set; *)
(* no reactor is ever started, and tasks do not post tasks.                *)
(***************************************************************************)
EXTENDS Naturals, Sequences

CONSTANT MaxTasks      \* bound on the number of tasks posted

ASSUME MaxTasksAssumption == MaxTasks \in Nat

VARIABLES
  mutex,        \* who holds mutex_: "user", "worker" or "none"
  opQueue,      \* op_queue_, tasks by number
  signalled,    \* the low bit of the event's state_
  waiters,      \* the rest of it: the threads counted as waiting
  outstanding,  \* outstanding_work_, atomic
  stopped,      \* stopped_
  guard,        \* m_work still owns a unit of work
  user,         \* where the thread outside is
  worker,       \* where the worker thread is
  posted,       \* the number of tasks put on the queue
  running,      \* the task the worker runs, 0 if none
  ran           \* the number of tasks it has run

event == <<signalled, waiters>>
tasks == <<posted, running, ran>>
vars == <<mutex, opQueue, event, outstanding, stopped, guard, user, worker,
          tasks>>

UserStates == {"idle", "posting", "push", "notify", "stopping", "stop", "join",
               "joined", "released", "destroyed"}
WorkerStates == {"start", "lock", "loop", "wait", "asleep", "woken", "handler",
                 "cleanup", "exited"}

TypeOK ==
  /\ mutex \in {"user", "worker", "none"}
  /\ opQueue \in Seq(Nat \ {0})
  /\ signalled \in BOOLEAN
  /\ waiters \in Nat
  /\ outstanding \in Nat
  /\ stopped \in BOOLEAN
  /\ guard \in BOOLEAN
  /\ user \in UserStates
  /\ worker \in WorkerStates
  /\ posted \in Nat
  /\ running \in Nat
  /\ ran \in Nat

(* Wrong: the guard is not there when the worker starts. *)
GuardAfterThread == 0

(* m_work is constructed before m_worker. *)
GuardBeforeThread == 1

Init ==
  /\ mutex = "none"
  /\ opQueue = <<>>
  /\ signalled = FALSE
  /\ waiters = 0
  /\ outstanding = GuardBeforeThread
  /\ stopped = FALSE
  /\ guard = TRUE
  /\ user = "idle"
  /\ worker = "start"
  /\ posted = 0
  /\ running = 0
  /\ ran = 0

-----------------------------------------------------------------------------
(* The thread outside posts: asio::post, post_immediate_completion. *)

(* work_started(), before the mutex is taken. *)
WorkStarted ==
  /\ user = "idle" /\ posted < MaxTasks
  /\ outstanding' = outstanding + 1
  /\ user' = "posting"
  /\ UNCHANGED <<mutex, opQueue, event, stopped, guard, worker, tasks>>

LockToPost ==
  /\ user = "posting" /\ mutex = "none"
  /\ mutex' = "user"
  /\ user' = "push"
  /\ UNCHANGED <<opQueue, event, outstanding, stopped, guard, worker, tasks>>

(* Wrong: the waiting worker is left to find out by itself. *)
PushUnnotified ==
  /\ user = "push"
  /\ opQueue' = Append(opQueue, posted + 1)
  /\ posted' = posted + 1
  /\ signalled' = TRUE
  /\ mutex' = "none"
  /\ user' = "idle"
  /\ UNCHANGED <<waiters, outstanding, stopped, guard, worker, running, ran>>

(* Wrong: the task goes in front. *)
PushInFront ==
  /\ user = "push"
  /\ opQueue' = <<posted + 1>> \o opQueue
  /\ posted' = posted + 1
  /\ signalled' = TRUE
  /\ mutex' = "none"
  /\ user' = IF waiters > 0 THEN "notify" ELSE "idle"
  /\ UNCHANGED <<waiters, outstanding, stopped, guard, worker, running, ran>>

(* push, then wake_one_thread_and_unlock: the mutex is released before the  *)
(* condition variable is signalled, and it is signalled only for a waiter.  *)
Push ==
  /\ user = "push"
  /\ opQueue' = Append(opQueue, posted + 1)
  /\ posted' = posted + 1
  /\ signalled' = TRUE
  /\ mutex' = "none"
  /\ user' = IF waiters > 0 THEN "notify" ELSE "idle"
  /\ UNCHANGED <<waiters, outstanding, stopped, guard, worker, running, ran>>

(* A thread that is blocked on the condition variable, if there is one, is  *)
(* woken; it must get the mutex back before it goes on.                     *)
WakeUp == worker' = IF worker = "asleep" THEN "woken" ELSE worker

(* pthread_cond_signal. *)
Notify ==
  /\ user = "notify"
  /\ WakeUp
  /\ user' = "idle"
  /\ UNCHANGED <<mutex, opQueue, event, outstanding, stopped, guard, tasks>>

-----------------------------------------------------------------------------
(* The thread outside runs ~Client, then the destructors of its members. *)

LockToStop ==
  /\ user = "stopping" /\ mutex = "none"
  /\ mutex' = "user"
  /\ user' = "stop"
  /\ UNCHANGED <<opQueue, event, outstanding, stopped, guard, worker, tasks>>

DestroyClient ==
  /\ user = "idle"
  /\ user' = "stopping"
  /\ UNCHANGED <<mutex, opQueue, event, outstanding, stopped, guard, worker,
                 tasks>>

(* Wrong: the flag is set and the sleeping worker is not told. *)
StopQuietly ==
  /\ user = "stop"
  /\ stopped' = TRUE
  /\ mutex' = "none"
  /\ user' = "join"
  /\ UNCHANGED <<opQueue, event, outstanding, guard, worker, tasks>>

(* stop_all_threads, with its broadcast inside the critical section. *)
Stop ==
  /\ user = "stop"
  /\ stopped' = TRUE
  /\ signalled' = TRUE
  /\ WakeUp
  /\ mutex' = "none"
  /\ user' = "join"
  /\ UNCHANGED <<opQueue, waiters, outstanding, guard, tasks>>

(* m_worker.join() *)
Join ==
  /\ user = "join" /\ worker = "exited"
  /\ user' = "joined"
  /\ UNCHANGED <<mutex, opQueue, event, outstanding, stopped, guard, worker,
                 tasks>>

(* ~executor_work_guard: work_finished(), which may call stop() once more. *)
ReleaseGuard ==
  /\ user = "joined" /\ mutex = "none"
  /\ guard' = FALSE
  /\ outstanding' = outstanding - 1
  /\ signalled' = (signalled \/ outstanding = 1)
  /\ user' = "released"
  /\ UNCHANGED <<mutex, opQueue, waiters, stopped, worker, tasks>>

(* shutdown(): what was never run is destroyed, its work never finished. *)
Shutdown ==
  /\ user = "released"
  /\ opQueue' = <<>>
  /\ user' = "destroyed"
  /\ UNCHANGED <<mutex, event, outstanding, stopped, guard, worker, tasks>>

-----------------------------------------------------------------------------
(* The worker: io_service::run. *)

(* run() gives up at once when there is no work, and stops the service. *)
Run ==
  /\ worker = "start" /\ mutex = "none"
  /\ worker' = IF outstanding = 0 THEN "exited" ELSE "lock"
  /\ stopped' = (stopped \/ outstanding = 0)
  /\ signalled' = (signalled \/ outstanding = 0)
  /\ UNCHANGED <<mutex, opQueue, waiters, outstanding, guard, user, tasks>>

Lock ==
  /\ worker = "lock" /\ mutex = "none"
  /\ mutex' = "worker"
  /\ worker' = "loop"
  /\ UNCHANGED <<opQueue, event, outstanding, stopped, guard, user, tasks>>

(* The loop of do_run_one, entered with the mutex held: the service is      *)
(* stopped and run() returns ...                                            *)
Quit ==
  /\ worker = "loop" /\ stopped
  /\ mutex' = "none"
  /\ worker' = "exited"
  /\ UNCHANGED <<opQueue, event, outstanding, stopped, guard, user, tasks>>

(* ... or there is a task: it is taken and the mutex released ... *)
Pop ==
  /\ worker = "loop" /\ ~stopped /\ opQueue # <<>>
  /\ running' = Head(opQueue)
  /\ opQueue' = Tail(opQueue)
  /\ mutex' = "none"
  /\ worker' = "handler"
  /\ UNCHANGED <<event, outstanding, stopped, guard, user, posted, ran>>

(* ... or not: wakeup_event_.clear(lock). *)
Clear ==
  /\ worker = "loop" /\ ~stopped /\ opQueue = <<>>
  /\ signalled' = FALSE
  /\ worker' = "wait"
  /\ UNCHANGED <<mutex, opQueue, waiters, outstanding, stopped, guard, user,
                 tasks>>

(* Wrong: the worker does not register as a waiter. *)
SleepUncounted ==
  /\ worker = "wait" /\ ~signalled
  /\ mutex' = "none"
  /\ worker' = "asleep"
  /\ UNCHANGED <<opQueue, event, outstanding, stopped, guard, user, tasks>>

(* wakeup_event_.wait(lock): sleep while the event is not set ... *)
Sleep ==
  /\ worker = "wait" /\ ~signalled
  /\ waiters' = waiters + 1
  /\ mutex' = "none"
  /\ worker' = "asleep"
  /\ UNCHANGED <<opQueue, signalled, outstanding, stopped, guard, user, tasks>>

(* ... and pthread_cond_wait may return without a reason ... *)
SpuriousWakeUp ==
  /\ worker = "asleep"
  /\ worker' = "woken"
  /\ UNCHANGED <<mutex, opQueue, event, outstanding, stopped, guard, user, tasks>>

(* ... but only with the mutex. *)
Relock ==
  /\ worker = "woken" /\ mutex = "none"
  /\ mutex' = "worker"
  /\ waiters' = waiters - 1
  /\ worker' = "wait"
  /\ UNCHANGED <<opQueue, signalled, outstanding, stopped, guard, user, tasks>>

Awake ==
  /\ worker = "wait" /\ signalled
  /\ worker' = "loop"
  /\ UNCHANGED <<mutex, opQueue, event, outstanding, stopped, guard, user, tasks>>

(* o->complete(...): the task runs, outside the critical section. *)
RunHandler ==
  /\ worker = "handler"
  /\ running' = 0
  /\ ran' = ran + 1
  /\ worker' = "cleanup"
  /\ UNCHANGED <<mutex, opQueue, event, outstanding, stopped, guard, user, posted>>

(* Wrong: the work of the task is never finished. *)
CleanupForgets ==
  /\ worker = "cleanup"
  /\ worker' = "lock"
  /\ UNCHANGED <<mutex, opQueue, event, outstanding, stopped, guard, user, tasks>>

(* ~work_cleanup: work_finished(), and the service stops without work. *)
Cleanup ==
  /\ worker = "cleanup" /\ (outstanding = 1 => mutex = "none")
  /\ outstanding' = outstanding - 1
  /\ stopped' = (stopped \/ outstanding = 1)
  /\ signalled' = (signalled \/ outstanding = 1)
  /\ worker' = "lock"
  /\ UNCHANGED <<mutex, opQueue, waiters, guard, user, tasks>>

-----------------------------------------------------------------------------
(* What the thread outside does once it has begun to post or to destroy. *)
UserGoesOn ==
  \/ LockToPost \/ Push \/ Notify
  \/ LockToStop \/ Stop \/ Join \/ ReleaseGuard \/ Shutdown

WorkerNext ==
  \/ Run \/ Lock \/ Quit \/ Pop \/ Clear \/ Sleep \/ Relock \/ Awake
  \/ RunHandler \/ Cleanup

Next ==
  \/ WorkStarted \/ DestroyClient
  \/ UserGoesOn
  \/ WorkerNext \/ SpuriousWakeUp

Spec == Init /\ [][Next]_vars

(* Both threads are scheduled, and a mutex that is free again and again is  *)
(* obtained at last, however often the worker wakes up for nothing and      *)
(* takes it.  Nobody has to post or to destroy a Client, and no wake-up     *)
(* without a signal ever has to come.                                       *)
FairSpec == Spec /\ SF_vars(UserGoesOn) /\ WF_vars(WorkerNext)

-----------------------------------------------------------------------------
(* Nobody touches the queue or the event without the mutex, and the worker  *)
(* is counted as a waiter exactly while it is inside pthread_cond_wait:     *)
(* otherwise maybe_unlock_and_signal_one would not signal it                *)
(* (posix_event::wait, scoped_lock).                                        *)
CriticalSections ==
  /\ mutex = "user" <=> user \in {"push", "stop"}
  /\ mutex = "worker" <=> worker \in {"loop", "wait"}
  /\ waiters = IF worker \in {"asleep", "woken"} THEN 1 ELSE 0

(* The worker never sleeps through a task or a stop: if it is blocked while *)
(* there is something to do, the thread outside is about to signal it       *)
(* (post_immediate_completion, which signals after it has unlocked).        *)
NoLostWakeUp ==
  worker = "asleep" /\ (opQueue # <<>> \/ stopped) => user = "notify"

(* outstanding_work_ is the guard and the tasks posted and not yet run, so  *)
(* it cannot reach 0 and stop the service before ~Client has joined the     *)
(* worker (work_started, work_finished, executor_work_guard).               *)
OutstandingIsCounted ==
  user # "destroyed" =>
    outstanding = (IF guard THEN 1 ELSE 0)
                + (IF user \in {"posting", "push"} THEN 1 ELSE 0)
                + Len(opQueue)
                + (IF worker \in {"handler", "cleanup"} THEN 1 ELSE 0)

(* The io_service is the queue the rest of the program takes it for. *)
Queue == INSTANCE Executor WITH waiting <- opQueue, ended <- worker = "exited"

ImplementsExecutor == Queue!Spec

(* ~Client comes to its end: stop() reaches the worker wherever it is, also *)
(* between its look at the queue and its sleep (Client::~Client).           *)
DestructorEnds == user = "stopping" ~> user = "destroyed"

(* A task that is posted while the worker is about to sleep is run all the  *)
(* same, without another post to wake the worker (do_run_one).              *)
EveryTaskRuns ==
  \A t \in 1..MaxTasks : posted >= t ~> ran >= t \/ stopped
=============================================================================
