------------------------------ MODULE MCAgent ------------------------------
(* Model-checking instance of Agent. *)
EXTENDS Agent, TLC

ThreadSymmetry == Permutations(Threads)
=============================================================================
