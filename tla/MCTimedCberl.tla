---------------------------- MODULE MCTimedCberl ----------------------------
(* TimedCberl with model values for the processes; see the configurations. *)
EXTENDS TimedCberl
=============================================================================
