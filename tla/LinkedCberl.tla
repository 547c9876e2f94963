---------------------------- MODULE LinkedCberl ----------------------------
(***************************************************************************)
(* Cberl with the link that cberl:connect/6 makes: gen_server:start_link   *)
(* links the server to the process that connects.  Whichever of the two    *)
(* ends sends an exit signal to the other one.  The server does not trap   *)
(* exits: an abnormal signal ends it, a 'normal' one is ignored.  The same *)
(* holds for the owner unless it traps exits.  No other caller is linked   *)
(* to the server, none monitors it.                                        *)
(***************************************************************************)
EXTENDS Cberl

CONSTANTS
  Owner,        \* the process that called connect/6
  OwnerTraps    \* it traps exits, as a supervisor does

ASSUME OwnerAssumption == Owner \in Callers /\ OwnerTraps \in BOOLEAN

VARIABLES
  ownerEnd,     \* the reason the owner ended with, "none" while it lives
  toServer,     \* the exit signal on its way to the server
  toOwner       \* the exit signal on its way to the owner

signals == <<toServer, toOwner>>
linkedVars == <<vars, ownerEnd, signals>>

(* Neither end of the link ends. *)
Unheard == UNCHANGED <<ownerEnd, signals>>

Reasons == {"normal", "abnormal"}

LinkedInit ==
  /\ Init
  /\ ownerEnd = "none" /\ toServer = "none" /\ toOwner = "none"

(* Wrong: gen_server:start, no link: the end of the owner goes unnoticed. *)
OwnerEndsUnlinked(reason) ==
  /\ CallerExit(Owner)
  /\ ownerEnd' = reason
  /\ UNCHANGED signals

(* The owner ends, in a call or not. *)
OwnerEnds(reason) ==
  /\ CallerExit(Owner)
  /\ ownerEnd' = reason
  /\ toServer' = IF server = "up" THEN reason ELSE "none"
  /\ UNCHANGED toOwner

(* The signal of an owner that ended abnormally ends the server ... *)
ServerFollows ==
  /\ toServer = "abnormal"
  /\ ServerExit
  /\ toServer' = "none"
  /\ UNCHANGED <<ownerEnd, toOwner>>

(* ... that of one that ended normally does not. *)
ServerStays ==
  /\ toServer = "normal"
  /\ toServer' = "none"
  /\ UNCHANGED <<vars, ownerEnd, toOwner>>

(* Wrong: the end of the server goes unnoticed. *)
ServerEndsUnlinked ==
  /\ ServerExit \/ \E c \in Callers : CrashOnBadarg(c)
  /\ Unheard

(* The server crashes, or somebody kills it. *)
ServerEnds ==
  /\ ServerExit \/ \E c \in Callers : CrashOnBadarg(c)
  /\ toOwner' = IF pc[Owner] = "dead" THEN "none" ELSE "abnormal"
  /\ UNCHANGED <<ownerEnd, toServer>>

(* The signal of the server reaches the owner: if it traps exits it has one *)
(* more message, which no receive of cberl takes.                           *)
OwnerHears ==
  /\ toOwner = "abnormal" /\ pc[Owner] # "dead"
  /\ toOwner' = "none"
  /\ IF OwnerTraps THEN UNCHANGED <<vars, ownerEnd>>
                   ELSE CallerExit(Owner) /\ ownerEnd' = "abnormal"
  /\ UNCHANGED toServer

UnlinkedStep ==
  /\ \/ \E c \in Callers : \/ \E valid \in BOOLEAN : Call(c, valid)
                           \/ ReceiveAck(c) \/ ReceiveResponse(c) \/ Timeout(c)
                           \/ c # Owner /\ CallerExit(c)
                           \/ HandleCast(c)
     \/ SendAck \/ WorkerNext \/ TeardownNext
  /\ Unheard

LinkedNext ==
  \/ \E reason \in Reasons : OwnerEnds(reason)
  \/ ServerFollows \/ ServerStays \/ ServerEnds \/ OwnerHears
  \/ UnlinkedStep

LinkedSpec == LinkedInit /\ [][LinkedNext]_linkedVars

(* As in Cberl; and signals arrive. *)
LinkedFairness ==
  /\ \A c \in Callers :
       /\ WF_linkedVars(ReceiveAck(c) /\ Unheard)
       /\ WF_linkedVars(ReceiveResponse(c) /\ Unheard)
       /\ WF_linkedVars(Timeout(c) /\ Unheard)
       /\ WF_linkedVars(\/ HandleCast(c) /\ Unheard
                        \/ CrashOnBadarg(c) /\ ServerEnds)
  /\ WF_linkedVars(SendAck /\ Unheard)
  /\ WF_linkedVars(WorkerNext /\ Unheard)
  /\ WF_linkedVars(TeardownNext /\ Unheard)
  /\ WF_linkedVars(ServerFollows \/ ServerStays)
  /\ WF_linkedVars(OwnerHears)

LinkedFairSpec == LinkedSpec /\ LinkedFairness

-----------------------------------------------------------------------------
(* A connection does not outlive an owner that crashes: server, worker and  *)
(* queue go, whatever the other processes are waiting for (start_link).     *)
ConnectionFollowsOwner ==
  ownerEnd = "abnormal" ~> worker = "exited" /\ queue = <<>>

(* The owner of a connection never waits for ever, not even with the        *)
(* timeout 'infinity': if the server goes, its signal ends the owner.  This *)
(* does not hold for an owner that traps exits, nor for other processes     *)
(* (connect/6, call/3).                                                     *)
OwnerNeverHangs ==
  \A r \in 1..MaxCalls : Pending(r) /\ calls[r].from = Owner ~> ~Pending(r)
=============================================================================
