--------------------------- MODULE MCLinkedCberl ---------------------------
(* LinkedCberl for TLC; see the configurations. *)
EXTENDS LinkedCberl
=============================================================================
