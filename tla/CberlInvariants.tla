-------------------------- MODULE CberlInvariants --------------------------
(***************************************************************************)
(* The inductive invariant of Cberl.  The properties of Cberl speak of the *)
(* two ends of a request, the call and the connection it runs on; this     *)
(* invariant follows the request in between: through the cast, the request *)
(* id, the queue, the worker and the two messages that come back.          *)
(***************************************************************************)
EXTENDS Cberl

Refs == DOMAIN calls
Rids == DOMAIN issued

(* The task the worker has taken and not run yet. *)
Taken == IF worker = "taken" THEN 1 ELSE 0

(* A process is in at most one call, and that call is the pending one. *)
OnePending ==
  /\ \A c \in Callers : pc[c] \in {"ack", "resp"} =>
        /\ cur[c] \in Refs
        /\ calls[cur[c]].from = c
        /\ calls[cur[c]].outcome = "pending"
  /\ \A r \in Refs : calls[r].outcome = "pending" =>
        /\ pc[calls[r].from] \in {"ack", "resp"}
        /\ cur[calls[r].from] = r

(* The casts on their way are calls of their sender, in order, and later    *)
(* than all those of the same sender that the server has handled.           *)
CastsInOrder ==
  /\ \A c \in Callers : \A i \in DOMAIN inbox[c] :
        inbox[c][i] \in Refs /\ calls[inbox[c][i]].from = c
  /\ \A c \in Callers : \A i, j \in DOMAIN inbox[c] :
        i < j => inbox[c][i] < inbox[c][j]
  /\ \A c \in Callers : \A i \in DOMAIN inbox[c] : \A k \in Rids :
        calls[issued[k]].from = c => issued[k] < inbox[c][i]

(* Request ids are drawn for calls, in the order of each process. *)
IssuedInOrder ==
  /\ \A k \in Rids : issued[k] \in Refs
  /\ \A k, l \in Rids :
        k < l /\ calls[issued[k]].from = calls[issued[l]].from
          => issued[k] < issued[l]

(* What has run is a prefix of what was issued; the worker's task and the   *)
(* queue come next.  While the server lives nothing is lost.                *)
QueueInOrder ==
  /\ Len(executed) <= Len(issued)
  /\ \A k \in DOMAIN executed : executed[k] = issued[k]
  /\ worker = "taken" => /\ task.rid = Len(executed) + 1
                         /\ task.rid \in Rids
                         /\ task.ref = issued[task.rid]
  /\ worker = "done" => /\ task.rid \in DOMAIN executed
                        /\ task.ref = issued[task.rid]
  /\ \A i \in DOMAIN queue : /\ queue[i].rid = Len(executed) + Taken + i
                             /\ queue[i].rid \in Rids
                             /\ queue[i].ref = issued[queue[i].rid]
  /\ server = "up" => Len(issued) = Len(executed) + Taken + Len(queue)
  /\ stopped => server = "down"
  /\ worker = "exited" => stopped

(* An acknowledgement carries the id of its own request; a response was     *)
(* produced by running it; both are in the mailbox of the process that made *)
(* the call.                                                                *)
MessagesMatch ==
  /\ handling # NoTask => handling.rid \in Rids /\ handling.ref = issued[handling.rid]
  /\ \A c \in Callers : \A m \in mbox[c] : m.tag = "ack" =>
        m.val \in Rids /\ issued[m.val] = m.id /\ calls[m.id].from = c
  /\ \A c \in Callers : \A m \in mbox[c] : m.tag = "resp" =>
        /\ m.id \in DOMAIN executed
        /\ executed[m.id] = m.val
        /\ calls[m.val].from = c

(* The second wait is for the response to the process's own call. *)
WaitsForOwn ==
  \A c \in Callers : pc[c] = "resp" =>
     respRef[c] \in Rids /\ issued[respRef[c]] = cur[c]

(* Where a request is, from the cast to the answer, agrees in every part of *)
(* the system (handle_cast/2, NifCTX, Client's queue, call/3).              *)
RequestsAreTracked ==
  /\ OnePending
  /\ CastsInOrder
  /\ IssuedInOrder
  /\ QueueInOrder
  /\ MessagesMatch
  /\ WaitsForOwn

IInv == TypeOK /\ RequestsAreTracked /\ AnswerIsOwn

-----------------------------------------------------------------------------
(* What LeftoversAreTimedOut rests on, besides IInv. *)

(* The request being acknowledged has not been acknowledged yet, so nobody  *)
(* has come further in its call than the first wait; who is in the second   *)
(* wait has taken the only acknowledgement.                                 *)
AckedOnce ==
  /\ handling # NoTask =>
        /\ calls[handling.ref].outcome # "answered"
        /\ \A c \in Callers : pc[c] = "resp" => cur[c] # handling.ref
        /\ \A c \in Callers : \A m \in mbox[c] : m.tag = "ack" => m.id # handling.ref
  /\ \A c \in Callers : pc[c] = "resp" =>
        \A m \in mbox[c] : m.tag = "ack" => m.id # cur[c]

(* The request whose response is about to be sent has got none yet. *)
RespondedOnce ==
  worker = "done" =>
    /\ calls[task.ref].outcome # "answered"
    /\ \A c \in Callers : \A m \in mbox[c] : m.tag = "resp" => m.id # task.rid

(* A process leaves a call unsettled only by dying, and then gets no more   *)
(* messages.                                                                *)
DeadAreSilent ==
  /\ \A c \in Callers : pc[c] = "dead" => mbox[c] = {}
  /\ \A r \in Refs : calls[r].outcome = "aborted" => pc[calls[r].from] = "dead"

MessagesComeOnce ==
  /\ AckedOnce
  /\ RespondedOnce
  /\ DeadAreSilent
  /\ LeftoversAreTimedOut
=============================================================================
