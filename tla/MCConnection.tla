--------------------------- MODULE MCConnection ---------------------------
(* Connection with model values for keys and nodes. *)
EXTENDS Connection
=============================================================================
