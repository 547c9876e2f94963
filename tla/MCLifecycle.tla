---------------------------- MODULE MCLifecycle ----------------------------
(* Lifecycle with a bound on the number of requests. *)
EXTENDS Lifecycle
=============================================================================
