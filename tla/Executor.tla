------------------------------ MODULE Executor ------------------------------
(***************************************************************************)
(* What cb::Client relies on when it posts a task to its io_service: tasks *)
(* run one at a time, in the order they were posted, until somebody stops  *)
(* the service; then the task that is running is finished, and those that  *)
(* wait are destroyed once the worker has ended.  Tasks are numbered in    *)
(* the order in which they are posted.                                     *)
(***************************************************************************)
EXTENDS Naturals, Sequences

VARIABLES
  posted,    \* how many tasks were posted
  waiting,   \* the tasks that wait to be run, in order
  running,   \* the task being run, 0 if none
  ran,       \* how many tasks were run to their end
  stopped,   \* the service was told to stop
  ended      \* its worker has ended

vars == <<posted, waiting, running, ran, stopped, ended>>

Init ==
  /\ posted = 0
  /\ waiting = <<>>
  /\ running = 0
  /\ ran = 0
  /\ stopped = FALSE
  /\ ended = FALSE

Post ==
  /\ ~stopped
  /\ posted' = posted + 1
  /\ waiting' = Append(waiting, posted + 1)
  /\ UNCHANGED <<running, ran, stopped, ended>>

Start ==
  /\ ~stopped /\ running = 0 /\ waiting # <<>>
  /\ running' = Head(waiting)
  /\ waiting' = Tail(waiting)
  /\ UNCHANGED <<posted, ran, stopped, ended>>

Finish ==
  /\ running # 0
  /\ running' = 0
  /\ ran' = ran + 1
  /\ UNCHANGED <<posted, waiting, stopped, ended>>

Stop ==
  /\ ~stopped
  /\ stopped' = TRUE
  /\ UNCHANGED <<posted, waiting, running, ran, ended>>

End ==
  /\ stopped /\ running = 0 /\ ~ended
  /\ ended' = TRUE
  /\ UNCHANGED <<posted, waiting, running, ran, stopped>>

Discard ==
  /\ ended /\ waiting # <<>>
  /\ waiting' = <<>>
  /\ UNCHANGED <<posted, running, ran, stopped, ended>>

Next == Post \/ Start \/ Finish \/ Stop \/ End \/ Discard

Spec == Init /\ [][Next]_vars
=============================================================================
