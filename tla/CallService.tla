---------------------------- MODULE CallService ----------------------------
(***************************************************************************)
(* What the cberl API promises to the Erlang processes that call it,       *)
(* without the gen_server, the NIF and the worker thread behind it: every  *)
(* call is applied to the database at most once, the calls of one process  *)
(* are applied in the order in which it made them, a call that returns an  *)
(* answer returns the answer to itself, and a call that gives up says      *)
(* nothing about whether it was, or still will be, applied.                *)
(***************************************************************************)
EXTENDS Naturals, Sequences

CONSTANT Callers    \* the processes that use the connection

VARIABLES calls,    \* the calls made so far, in the order of make_ref/0
          applied   \* the calls applied to the database, in order

vars == <<calls, applied>>

Applied == {applied[i] : i \in DOMAIN applied}

Init == calls = <<>> /\ applied = <<>>

(* A process makes a call; it never has two calls in progress. *)
Invoke(c) ==
  /\ \A r \in DOMAIN calls : calls[r].from = c => calls[r].outcome # "pending"
  /\ calls' = Append(calls, [from |-> c, outcome |-> "pending", answer |-> 0])
  /\ UNCHANGED applied

(* The call takes effect, possibly long after its caller gave up, but never *)
(* after a later call of the same process took effect.                      *)
Apply(r) ==
  /\ \A q \in Applied : calls[q].from = calls[r].from => q < r
  /\ applied' = Append(applied, r)
  /\ UNCHANGED calls

(* The call returns the answer computed when it was applied. *)
Return(r) ==
  /\ calls[r].outcome = "pending"
  /\ r \in Applied
  /\ calls' = [calls EXCEPT ![r] =
                 [from |-> @.from, outcome |-> "answered", answer |-> r]]
  /\ UNCHANGED applied

(* The call returns {error, timeout}, or its process dies in the call. *)
GiveUp(r) ==
  /\ calls[r].outcome = "pending"
  /\ \E o \in {"timeout", "aborted"} :
       calls' = [calls EXCEPT ![r] =
                   [from |-> @.from, outcome |-> o, answer |-> 0]]
  /\ UNCHANGED applied

Next ==
  \/ \E c \in Callers : Invoke(c)
  \/ \E r \in DOMAIN calls : Apply(r) \/ Return(r) \/ GiveUp(r)

Spec == Init /\ [][Next]_vars
=============================================================================
