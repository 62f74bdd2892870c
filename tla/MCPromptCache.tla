---------------------------- MODULE MCPromptCache ----------------------------
(* Model-checking instance of PromptCache. *)
EXTENDS PromptCache

Symmetric == Permutations(Threads) \cup Permutations(Keys)
==============================================================================
