------------------------------ MODULE MC_Btt -------------------------------
(* One arena with two lanes for model checking. *)
EXTENDS Btt, TLC
ValueSymmetry == Permutations(Values)
=============================================================================
