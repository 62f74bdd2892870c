------------------------- MODULE MCProviderGovernor -------------------------
(* Model-checking instance of ProviderGovernor: two goroutines. *)
EXTENDS ProviderGovernor
=============================================================================
