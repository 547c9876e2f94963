-------------------------- MODULE ExtensionProofs --------------------------
(***************************************************************************)
(* Proofs about the two extensions of Cberl, for any processes, number of  *)
(* calls and Timeout.  A clock and a link only add to Cberl, so that what  *)
(* is proved of Cberl holds; no call waits longer than twice its Timeout;  *)
(* and neither end of the link ends without the other one being told.      *)
(***************************************************************************)
EXTENDS TimedCberl, LinkedCberl, CberlProofs

-----------------------------------------------------------------------------
(* TimedCberl. *)

(* In the first wait the two clocks agree; the second wait begins when the  *)
(* first has taken at most TimeoutArg.                                      *)
ClocksAgree ==
  /\ waited \in [Callers -> Nat]
  /\ total \in [Callers -> Nat]
  /\ \A c \in Callers \ Patient :
       /\ Waiting(c) => waited[c] <= TimeoutArg
       /\ pc[c] = "ack"  => total[c] = waited[c]
       /\ pc[c] = "resp" => total[c] <= TimeoutArg + waited[c]

LEMMA UntimedStep == [TimedNext]_timedVars => [Next]_vars
<1> SUFFICES ASSUME [TimedNext]_timedVars PROVE [Next]_vars
  OBVIOUS
<1>1. ASSUME NEW c \in Callers, TimedCall(c) PROVE Next
  BY <1>1 DEF TimedCall, Next, CallerNext
<1>2. ASSUME NEW c \in Callers, TimedReceiveAck(c) PROVE Next
  BY <1>2 DEF TimedReceiveAck, Next, CallerNext
<1>3. ASSUME NEW c \in Callers, TimedTimeout(c) PROVE Next
  BY <1>3 DEF TimedTimeout, Next, CallerNext
<1>4. ASSUME NEW c \in Callers, ReceiveResponse(c) \/ CallerExit(c) PROVE Next
  BY <1>4 DEF Next, CallerNext
<1>5. CASE OthersStep
  BY <1>5 DEF OthersStep, Next
<1>6. CASE Tick
  BY <1>6 DEF Tick
<1>7. CASE UNCHANGED timedVars
  BY <1>7 DEF timedVars
<1> QED BY <1>1, <1>2, <1>3, <1>4, <1>5, <1>6, <1>7 DEF TimedNext

(* Without the clock, a behaviour of TimedCberl is one of Cberl.            *)
THEOREM Untimed == TimedSpec => Spec
<1>1. TimedInit => Init
  BY DEF TimedInit
<1> QED BY <1>1, UntimedStep, PTL DEF TimedSpec, Spec

LEMMA ClocksInit == TimedInit => ClocksAgree
  BY TimeoutArgAssumption DEF TimedInit, Init, ClocksAgree, Waiting

(* A process that starts to wait, for an acknowledgement or a response,     *)
(* starts its timer; one that returns or dies waits no longer.              *)
LEMMA ClocksStep == TypeOK /\ ClocksAgree /\ [TimedNext]_timedVars => ClocksAgree'
<1> SUFFICES ASSUME TypeOK, ClocksAgree, [TimedNext]_timedVars
             PROVE  ClocksAgree'
  OBVIOUS
<1>p. pc \in [Callers -> {"idle", "ack", "resp", "dead"}]
  BY DEF TypeOK
<1>t. TimeoutArg \in Nat
  BY TimeoutArgAssumption
<1> USE DEF ClocksAgree, Waiting
<1>1. ASSUME NEW c \in Callers, TimedCall(c) PROVE ClocksAgree'
  <2>1. pc' = [pc EXCEPT ![c] = "ack"]
    BY <1>1 DEF TimedCall, Call
  <2> QED BY <1>1, <2>1, <1>p, <1>t DEF TimedCall
<1>2. ASSUME NEW c \in Callers, TimedReceiveAck(c) PROVE ClocksAgree'
  <2>1. pc[c] = "ack" /\ pc' = [pc EXCEPT ![c] = "resp"]
    BY <1>2 DEF TimedReceiveAck, ReceiveAck
  <2> QED BY <1>2, <2>1, <1>p, <1>t DEF TimedReceiveAck
<1>3. ASSUME NEW c \in Callers, TimedTimeout(c) PROVE ClocksAgree'
  <2>1. pc' = [pc EXCEPT ![c] = "idle"] /\ UNCHANGED timers
    BY <1>3 DEF TimedTimeout, Timeout
  <2> QED BY <2>1, <1>p DEF timers
<1>4. ASSUME NEW c \in Callers, ReceiveResponse(c) \/ CallerExit(c),
             UNCHANGED timers
      PROVE  ClocksAgree'
  <2>1. pc' = [pc EXCEPT ![c] = "idle"] \/ pc' = [pc EXCEPT ![c] = "dead"]
    BY <1>4 DEF ReceiveResponse, CallerExit
  <2> QED BY <1>4, <2>1, <1>p DEF timers
<1>5. CASE OthersStep
  <2>1. pc' = pc
    BY <1>5 DEF OthersStep, ServerNext, HandleCast, CrashOnBadarg, SendAck,
                ServerExit, ServerDown, WorkerNext, WorkerTake, WorkerExecute,
                WorkerRespond, WorkerExit, TeardownNext, StopClient, DropQueue,
                callerVars
  <2> QED BY <1>5, <2>1 DEF OthersStep, timers
<1>6. CASE Tick
  BY <1>6, <1>t DEF Tick, vars, callerVars
<1>7. CASE UNCHANGED timedVars
  BY <1>7 DEF timedVars, timers, vars, callerVars
<1> QED BY <1>1, <1>2, <1>3, <1>4, <1>5, <1>6, <1>7 DEF TimedNext

(* A call waits at most twice its Timeout, whatever messages reach the      *)
(* process meanwhile (the two receive expressions of call/3).               *)
THEOREM WaitsAtMostTwice == TimedSpec => []WaitAtMostTwice
<1>1. TimedSpec => []TypeOK
  BY Untimed, TypeCorrect, PTL
<1>2. TimedSpec => []ClocksAgree
  BY <1>1, ClocksInit, ClocksStep, PTL DEF TimedSpec
<1>3. ClocksAgree => WaitAtMostTwice
  BY TimeoutArgAssumption DEF ClocksAgree, WaitAtMostTwice, Waiting
<1> QED BY <1>2, <1>3, PTL

-----------------------------------------------------------------------------
(* LinkedCberl. *)

LEMMA UnlinkedSteps == [LinkedNext]_linkedVars => [Next]_vars
<1> SUFFICES ASSUME [LinkedNext]_linkedVars PROVE [Next]_vars
  OBVIOUS
<1>1. ASSUME NEW reason \in Reasons, OwnerEnds(reason) PROVE Next
  BY <1>1, OwnerAssumption DEF OwnerEnds, Next, CallerNext
<1>2. CASE ServerFollows
  BY <1>2 DEF ServerFollows, Next, ServerNext
<1>3. CASE ServerStays
  BY <1>3 DEF ServerStays
<1>4. CASE ServerEnds
  BY <1>4 DEF ServerEnds, Next, ServerNext
<1>5. CASE OwnerHears
  BY <1>5, OwnerAssumption DEF OwnerHears, Next, CallerNext
<1>6. CASE UnlinkedStep
  BY <1>6 DEF UnlinkedStep, Next, CallerNext, ServerNext
<1>7. CASE UNCHANGED linkedVars
  BY <1>7 DEF linkedVars
<1> QED BY <1>1, <1>2, <1>3, <1>4, <1>5, <1>6, <1>7 DEF LinkedNext

(* The link only makes processes end that may end anyway: a behaviour of    *)
(* LinkedCberl, without the signals, is one of Cberl.                       *)
THEOREM Unlinked == LinkedSpec => Spec
<1>1. LinkedInit => Init
  BY DEF LinkedInit
<1> QED BY <1>1, UnlinkedSteps, PTL DEF LinkedSpec, Spec

(* While one end of the link knows nothing of the end of the other one, the *)
(* signal is on its way, whatever happens to requests and other processes   *)
(* (gen_server:start_link in connect/6).                                    *)
EndsAreTold ==
  /\ ownerEnd = "abnormal" /\ server = "up" => toServer = "abnormal"
  /\ server = "down" /\ ownerEnd = "none" /\ ~OwnerTraps => toOwner = "abnormal"

(* Nobody is told of an end that did not happen, either.                    *)
LinkInv ==
  /\ server \in {"up", "down"} /\ pc \in [Callers -> {"idle", "ack", "resp", "dead"}]
  /\ ownerEnd \in Reasons \cup {"none"}
  /\ ownerEnd = "none" <=> pc[Owner] # "dead"
  /\ toServer \in {"none", ownerEnd}
  /\ toOwner = "abnormal" => server = "down"
  /\ EndsAreTold

LEMMA LinkInit == LinkedInit => LinkInv
BY OwnerAssumption DEF LinkedInit, Init, LinkInv, EndsAreTold

(* What the parts of Cberl that neither end of the link takes part in leave *)
(* alone.                                                                   *)
LEMMA UnlinkedKeeps ==
  ASSUME LinkInv, UnlinkedStep
  PROVE  /\ server' = server /\ pc' \in [Callers -> {"idle", "ack", "resp", "dead"}]
         /\ pc'[Owner] = "dead" <=> pc[Owner] = "dead"
<1>p. pc \in [Callers -> {"idle", "ack", "resp", "dead"}] /\ Owner \in Callers
  BY OwnerAssumption DEF LinkInv
<1>1. ASSUME NEW c \in Callers, NEW valid \in BOOLEAN, Call(c, valid)
      PROVE  server' = server /\ pc[c] = "idle" /\ pc' = [pc EXCEPT ![c] = "ack"]
  BY <1>1 DEF Call, serverVars
<1>2. ASSUME NEW c \in Callers, ReceiveAck(c)
      PROVE  server' = server /\ pc[c] = "ack" /\ pc' = [pc EXCEPT ![c] = "resp"]
  BY <1>2 DEF ReceiveAck, serverVars
<1>3. ASSUME NEW c \in Callers, ReceiveResponse(c)
      PROVE  server' = server /\ pc[c] = "resp" /\ pc' = [pc EXCEPT ![c] = "idle"]
  BY <1>3 DEF ReceiveResponse, serverVars
<1>4. ASSUME NEW c \in Callers, Timeout(c)
      PROVE  server' = server /\ pc[c] \in {"ack", "resp"} /\ pc' = [pc EXCEPT ![c] = "idle"]
  BY <1>4 DEF Timeout, serverVars
<1>5. ASSUME NEW c \in Callers, c # Owner, CallerExit(c)
      PROVE  server' = server /\ pc' = [pc EXCEPT ![c] = "dead"]
  BY <1>5 DEF CallerExit, serverVars
<1>6. ASSUME NEW c \in Callers, HandleCast(c) PROVE server' = server /\ pc' = pc
  BY <1>6 DEF HandleCast, callerVars
<1>7. CASE SendAck \/ WorkerNext \/ TeardownNext
  <2>1. server' = server /\ pc' = pc
    BY <1>7 DEF SendAck, WorkerNext, WorkerTake, WorkerExecute, WorkerRespond, WorkerExit,
                TeardownNext, StopClient, DropQueue, callerVars, serverVars
  <2> QED BY <1>p, <2>1
<1> QED BY <1>p, <1>1, <1>2, <1>3, <1>4, <1>5, <1>6, <1>7 DEF UnlinkedStep

LEMMA LinkStep == LinkInv /\ [LinkedNext]_linkedVars => LinkInv'
<1> SUFFICES ASSUME LinkInv, [LinkedNext]_linkedVars PROVE LinkInv'
  OBVIOUS
<1>p. pc \in [Callers -> {"idle", "ack", "resp", "dead"}] /\ Owner \in Callers
  BY OwnerAssumption DEF LinkInv
<1>1. ASSUME NEW reason \in Reasons, OwnerEnds(reason) PROVE LinkInv'
  <2>1. pc' = [pc EXCEPT ![Owner] = "dead"] /\ pc[Owner] # "dead" /\ server' = server
    BY <1>1 DEF OwnerEnds, CallerExit, serverVars
  <2> QED BY <1>1, <1>p, <2>1 DEF OwnerEnds, LinkInv, EndsAreTold, signals, Reasons
<1>2. CASE ServerFollows
  <2>1. server' = "down" /\ pc' = pc
    BY <1>2 DEF ServerFollows, ServerExit, ServerDown, callerVars
  <2> QED BY <1>2, <2>1 DEF ServerFollows, LinkInv, EndsAreTold
<1>3. CASE ServerStays
  BY <1>3 DEF ServerStays, LinkInv, EndsAreTold, vars, callerVars, serverVars
<1>4. CASE ServerEnds
  <2>1. server' = "down" /\ pc' = pc
    BY <1>4 DEF ServerEnds, ServerExit, CrashOnBadarg, ServerDown, callerVars
  <2> QED BY <1>4, <2>1 DEF ServerEnds, LinkInv, EndsAreTold
<1>5. CASE OwnerHears
  <2>1. CASE OwnerTraps
    BY <1>5, <2>1 DEF OwnerHears, LinkInv, EndsAreTold, vars, callerVars, serverVars
  <2>2. CASE ~OwnerTraps
    <3>1. pc' = [pc EXCEPT ![Owner] = "dead"] /\ server' = server
      BY <1>5, <2>2 DEF OwnerHears, CallerExit, serverVars
    <3> QED BY <1>5, <1>p, <2>2, <3>1 DEF OwnerHears, LinkInv, EndsAreTold, Reasons
  <2> QED BY <2>1, <2>2
<1>6. CASE UnlinkedStep
  <2>1. ownerEnd' = ownerEnd /\ toServer' = toServer /\ toOwner' = toOwner
    BY <1>6 DEF UnlinkedStep, Unheard, signals
  <2> QED BY <1>6, <2>1, UnlinkedKeeps DEF LinkInv, EndsAreTold
<1>7. CASE UNCHANGED linkedVars
  BY <1>7 DEF linkedVars, signals, vars, callerVars, serverVars, LinkInv, EndsAreTold
<1> QED BY <1>1, <1>2, <1>3, <1>4, <1>5, <1>6, <1>7 DEF LinkedNext

(* No end of either side goes unnoticed by the other: what is left to       *)
(* chance is only when the signal arrives.                                  *)
THEOREM NoEndIsLost == LinkedSpec => []EndsAreTold
<1>1. LinkedSpec => []LinkInv
  BY LinkInit, LinkStep, PTL DEF LinkedSpec
<1>2. LinkInv => EndsAreTold
  BY DEF LinkInv
<1> QED BY <1>1, <1>2, PTL
=============================================================================
