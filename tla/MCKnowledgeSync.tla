-------------------------- MODULE MCKnowledgeSync --------------------------
(* Model-checking instance of KnowledgeSync: one directory with two files, *)
(* and a file of its own.                                                  *)
EXTENDS KnowledgeSync, TLC

CONSTANTS r1, p1, p2, f1

OneRoot == {r1}
TwoFiles == r1 :> {p1, p2}
OneFile == r1 :> {p1}
ThreadSymmetry == Permutations(Threads)
=============================================================================
