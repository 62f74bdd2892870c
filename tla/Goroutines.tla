----------------------------- MODULE Goroutines -----------------------------
(***************************************************************************)
(* The goroutines of the program that embeds the agent.  Every component   *)
(* module takes its callers from this one set, so that the modules can be  *)
(* composed: a goroutine has a position in each component.                 *)
(***************************************************************************)
EXTENDS Integers, FiniteSets

CONSTANT Threads    \* goroutines that call into the agent

ASSUME ThreadsAssumption == IsFiniteSet(Threads) /\ Threads # {}

(* Move thread t of the position function f to position p. *)
At(f, t, p) == [f EXCEPT ![t] = p]
=============================================================================
