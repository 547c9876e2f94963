------------------------------ MODULE MCCberl ------------------------------
(* Cberl with model values for the processes; see the configurations. *)
EXTENDS CberlInvariants, TLC

(* The processes are interchangeable where all of them are impatient. *)
Symmetry == Permutations(Callers)
=============================================================================
