----------------------------- MODULE MCWorkers ------------------------------
(* Two spawn calls of one worker's name. *)
EXTENDS Workers, TLC

CallSymmetry == Permutations(Calls)
=============================================================================
