------------------------------ MODULE MCSessions -----------------------------
(***************************************************************************)
(* Sessions for TLC: two instances that serve two requests at a time.      *)
(***************************************************************************)
EXTENDS Sessions, TLC

MCSymmetry == Permutations(Requests) \cup Permutations(Instances)
=============================================================================
