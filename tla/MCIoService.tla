----------------------------- MODULE MCIoService -----------------------------
(* IoService for TLC; see the configurations. *)
EXTENDS IoService
=============================================================================
