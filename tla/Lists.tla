------------------------------- MODULE Lists -------------------------------
(***************************************************************************)
(* Sequences as the models of retrieval, prompts and caches use them.      *)
(***************************************************************************)
EXTENDS Integers, FiniteSets, SequencesExt

FirstOf(s, n) == SubSeq(s, 1, IF n < Len(s) THEN n ELSE Len(s))

(* The elements of s that are in T, in their order. *)
Only(s, T) == FoldLeft(LAMBDA taken, x : IF x \in T THEN Append(taken, x) ELSE taken, <<>>, s)

(* The elements of S, each before those it is better than. *)
Sorted(S, Better(_, _)) ==
  CHOOSE s \in SetToSeqs(S) : \A i, j \in DOMAIN s : i < j => Better(s[i], s[j])
=============================================================================
