---------------------------- MODULE MCDocuments ----------------------------
(* Documents with requests chosen so that every function, every encoder, a  *)
(* CAS value in use and a bulk request of two keys occur.                   *)
EXTENDS Documents, TLC

CONSTANTS k1, k2, v1, v2

Store(op, k, v, enc, cas) == [op |-> op, key |-> k, value |-> v, enc |-> enc, cas |-> cas]

Get(k) == [op |-> "get", key |-> k, cas |-> FALSE]

Arithmetic(k, delta, default) ==
  [op |-> "arithmetic", key |-> k, delta |-> delta, default |-> default, cas |-> FALSE]

Durability(persist, cas) ==
  [op |-> "durability", key |-> k1, persist |-> persist, cas |-> cas]

DataWorkload == {
  <<Store("set", k1, v1, "json", FALSE), Store("set", k2, v2, "raw", FALSE)>>,
  <<Store("replace", k1, v2, "none", TRUE)>>,
  <<Store("append", k1, v2, "none", FALSE)>>,
  <<Get(k1), Get(k2)>>,
  <<[op |-> "remove", key |-> k1, cas |-> TRUE]>>,
  <<Arithmetic(k2, 1, 0)>>}

EffectsWorkload == {
  <<Store("set", k1, v1, "json", FALSE)>>,
  <<Store("add", k1, v1, "json", FALSE)>>,
  <<Store("add", k1, v1, "none", TRUE)>>,
  <<Store("replace", k1, v1, "raw", FALSE)>>,
  <<Store("prepend", k1, v1, "raw", TRUE)>>,
  <<Store("append", k1, v1, "none", FALSE)>>,
  <<Arithmetic(k1, 1, 0)>>,
  <<Arithmetic(k1, -2, -1)>>,
  <<Durability(-1, TRUE)>>,
  <<Durability(2, FALSE)>>}

Symmetry == Permutations(Processes)
=============================================================================
