---------------------------- MODULE TimedCberl ----------------------------
(***************************************************************************)
(* Cberl with a clock: how long a process waits inside cberl:call/3.  The  *)
(* Timeout argument is a limit on each of the two receive expressions; the *)
(* clock is idealised, a timer that is due fires (or the message that      *)
(* beat it is received) before time moves on.                              *)
(***************************************************************************)
EXTENDS Cberl

CONSTANT TimeoutArg     \* the Timeout argument, in ticks of the clock

ASSUME TimeoutArgAssumption == TimeoutArg \in Nat

VARIABLES
  waited,   \* how long a process has been in its current receive
  total     \* how long it has been in its current call

timers == <<waited, total>>
timedVars == <<vars, timers>>

Waiting(c) == pc[c] \in {"ack", "resp"}

TimedInit ==
  /\ Init
  /\ waited = [c \in Callers |-> 0]
  /\ total = [c \in Callers |-> 0]

(* call/3 enters the first receive_response(Ref, Timeout). *)
TimedCall(c) ==
  /\ \E valid \in BOOLEAN : Call(c, valid)
  /\ waited' = [waited EXCEPT ![c] = 0]
  /\ total' = [total EXCEPT ![c] = 0]

(* It enters receive_response(ResponseRef, Timeout), with the same Timeout. *)
TimedReceiveAck(c) ==
  /\ ReceiveAck(c)
  /\ waited' = [waited EXCEPT ![c] = 0]
  /\ UNCHANGED total

(* 'after Timeout'. *)
TimedTimeout(c) ==
  /\ waited[c] >= TimeoutArg
  /\ Timeout(c)
  /\ UNCHANGED timers

(* Wrong: a loop that skips a message restarts the wait.  The delivery of a *)
(* message that does not match is what makes it skip.                       *)
SkippingRestartsWait ==
  /\ ServerNext \/ WorkerNext \/ TeardownNext
  /\ waited' = [c \in Callers |->
       IF Waiting(c) /\ mbox'[c] # mbox[c] THEN 0 ELSE waited[c]]
  /\ UNCHANGED total

(* The other side makes a step; a message that does not match the receive   *)
(* leaves its timer alone.                                                  *)
OthersStep ==
  /\ ServerNext \/ WorkerNext \/ TeardownNext
  /\ UNCHANGED timers

(* Time passes, unless a timer is due. *)
Tick ==
  /\ \E c \in Callers : Waiting(c)
  /\ \A c \in Callers \ Patient : Waiting(c) => waited[c] < TimeoutArg
  /\ waited' = [c \in Callers |->
                  IF Waiting(c) /\ c \notin Patient THEN waited[c] + 1
                                                    ELSE waited[c]]
  /\ total' = [c \in Callers |->
                 IF Waiting(c) /\ c \notin Patient THEN total[c] + 1
                                                   ELSE total[c]]
  /\ UNCHANGED vars

TimedNext ==
  \/ \E c \in Callers : \/ TimedCall(c) \/ TimedReceiveAck(c) \/ TimedTimeout(c)
                        \/ (ReceiveResponse(c) \/ CallerExit(c)) /\ UNCHANGED timers
  \/ OthersStep
  \/ Tick

TimedSpec == TimedInit /\ [][TimedNext]_timedVars

-----------------------------------------------------------------------------
(* A call waits at most twice its Timeout, whatever stale messages reach    *)
(* the process meanwhile (the two receive expressions of call/3).           *)
WaitAtMostTwice ==
  \A c \in Callers \ Patient : Waiting(c) => total[c] <= 2 * TimeoutArg

(* What the comment on call/3 says: "Sends request to a CouchBase database  *)
(* and awaits response with timeout" (cberl.erl:383).  The code does not.   *)
CallWithinTimeout ==
  \A c \in Callers \ Patient : Waiting(c) => total[c] <= TimeoutArg
=============================================================================
