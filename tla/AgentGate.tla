------------------------------ MODULE AgentGate ------------------------------
(***************************************************************************)
(* The admission gate of an Agent (agent.go): beginOperation and           *)
(* endOperation count the public operations in flight, Close shuts the     *)
(* gate, waits on a condition variable until they are gone, and only then  *)
(* releases the sessions, the memory provider and the vector store.        *)
(*                                                                         *)
(* What an operation does while it is in flight is left to the modules     *)
(* that compose this one; here it may run user callbacks.                  *)
(***************************************************************************)
EXTENDS Goroutines

CONSTANT ToolsMayClose  \* may a tool, run inside an operation, call Close?

ASSUME ToolsMayCloseAssumption == ToolsMayClose \in BOOLEAN

VARIABLES
  closed,         \* Agent.closed
  inFlight,       \* Agent.inFlight, guarded by opMu
  callbackDepth,  \* Agent.callbackDepth
  opc,            \* position of each goroutine in an operation
  cpc,            \* position of each goroutine in Agent.Close
  storeOpen       \* the vector store has not been closed

gateVars == <<closed, inFlight, callbackDepth, opc, cpc, storeOpen>>

(* "cleared" holds opMu: isClosed() was false under the lock, inFlight is  *)
(* about to be incremented.  "done": the body has returned, the deferred   *)
(* endOperation has not run.                                               *)
OpPositions == {"out", "checked", "cleared", "in", "callback", "done"}

(* "waiting" is inside opCond.Wait(), which has released opMu. *)
ClosePositions ==
  {"none", "swap", "draining", "waiting", "drained", "snapshot", "release"}

(* The operations endOperation has not been called for. *)
Admitted == {t \in Threads : opc[t] \in {"in", "callback", "done"}}

InCallback == {t \in Threads : opc[t] = "callback"}

(* Goroutines between the winning compare-and-swap and the end of Close. *)
Closing == {t \in Threads : cpc[t] \notin {"none", "swap"}}

opMuFree == \A t \in Threads : opc[t] # "cleared"

GateTypeOK ==
  /\ closed \in BOOLEAN
  /\ inFlight \in Nat
  /\ callbackDepth \in Nat
  /\ opc \in [Threads -> OpPositions]
  /\ cpc \in [Threads -> ClosePositions]
  /\ storeOpen \in BOOLEAN

GateInit ==
  /\ closed = FALSE
  /\ inFlight = 0
  /\ callbackDepth = 0
  /\ opc = [t \in Threads |-> "out"]
  /\ cpc = [t \in Threads |-> "none"]
  /\ storeOpen = TRUE
-----------------------------------------------------------------------------
(* beginOperation: the check before the lock, the same check under opMu,   *)
(* the increment.  The swap of Close is not guarded by opMu and may fall   *)
(* between any two of them.                                                *)
CheckOpen(t) ==
  /\ opc[t] = "out"
  /\ cpc[t] = "none"
  /\ ~closed
  /\ opc' = At(opc, t, "checked")
  /\ UNCHANGED <<closed, inFlight, callbackDepth, cpc, storeOpen>>

(* Mutant: no check under the lock. *)
RecheckUnguarded(t) ==
  /\ opc[t] = "checked"
  /\ opMuFree
  /\ opc' = At(opc, t, "cleared")
  /\ UNCHANGED <<closed, inFlight, callbackDepth, cpc, storeOpen>>

RecheckOpen(t) ==
  /\ opc[t] = "checked"
  /\ opMuFree
  /\ ~closed
  /\ opc' = At(opc, t, "cleared")
  /\ UNCHANGED <<closed, inFlight, callbackDepth, cpc, storeOpen>>

Admit(t) ==
  /\ opc[t] = "cleared"
  /\ inFlight' = inFlight + 1
  /\ opc' = At(opc, t, "in")
  /\ UNCHANGED <<closed, callbackDepth, cpc, storeOpen>>

(* beginOperation returns ErrAgentClosed, from either check. *)
Refuse(t) ==
  /\ opc[t] \in {"out", "checked"}
  /\ opc[t] = "checked" => opMuFree
  /\ cpc[t] = "none"
  /\ closed
  /\ opc' = At(opc, t, "out")
  /\ UNCHANGED <<closed, inFlight, callbackDepth, cpc, storeOpen>>

(* The body of the operation returns, with or without an error. *)
Complete(t) ==
  /\ opc[t] = "in"
  /\ cpc[t] = "none"
  /\ opc' = At(opc, t, "done")
  /\ UNCHANGED <<closed, inFlight, callbackDepth, cpc, storeOpen>>

(* opCond.Broadcast(): the waiters re-check inFlight under opMu. *)
Broadcast == cpc' = [u \in Threads |-> IF cpc[u] = "waiting" THEN "draining" ELSE cpc[u]]

(* Mutant: nobody is woken. *)
EndOperationSilent(t) ==
  /\ opc[t] = "done"
  /\ opMuFree
  /\ opc' = At(opc, t, "out")
  /\ inFlight' = IF inFlight <= 0 THEN inFlight ELSE inFlight - 1
  /\ UNCHANGED <<closed, callbackDepth, cpc, storeOpen>>

EndOperation(t) ==
  /\ opc[t] = "done"
  /\ opMuFree
  /\ opc' = At(opc, t, "out")
  /\ inFlight' = IF inFlight <= 0 THEN inFlight ELSE inFlight - 1
  /\ IF inFlight = 1 THEN Broadcast ELSE UNCHANGED cpc
  /\ UNCHANGED <<closed, callbackDepth, storeOpen>>
-----------------------------------------------------------------------------
(* runTelemetryCallback: callbackDepth spans the callback, whether it      *)
(* returns or panics.                                                      *)
EnterCallback(t) ==
  /\ opc[t] = "in"
  /\ cpc[t] = "none"
  /\ callbackDepth' = callbackDepth + 1
  /\ opc' = At(opc, t, "callback")
  /\ UNCHANGED <<closed, inFlight, cpc, storeOpen>>

LeaveCallback(t) ==
  /\ opc[t] = "callback"
  /\ cpc[t] = "none"
  /\ callbackDepth' = callbackDepth - 1
  /\ opc' = At(opc, t, "in")
  /\ UNCHANGED <<closed, inFlight, cpc, storeOpen>>
-----------------------------------------------------------------------------
(* Close is called by a goroutine outside any operation, by a callback of  *)
(* an operation or, if tools do so, by a tool.                             *)
MayCallClose(t) ==
  /\ cpc[t] = "none"
  /\ opc[t] \in {"out", "callback"} \cup (IF ToolsMayClose THEN {"in"} ELSE {})

(* Close returns an error at once while any callback runs; that call       *)
(* changes nothing.  Otherwise it goes on to the compare-and-swap.         *)
CloseBegin(t) ==
  /\ MayCallClose(t)
  /\ callbackDepth = 0
  /\ cpc' = At(cpc, t, "swap")
  /\ UNCHANGED <<closed, inFlight, callbackDepth, opc, storeOpen>>

(* closed.CompareAndSwap(false, true): the loser returns nil. *)
CloseSwap(t) ==
  /\ cpc[t] = "swap"
  /\ closed' = TRUE
  /\ cpc' = At(cpc, t, IF closed THEN "none" ELSE "draining")
  /\ UNCHANGED <<inFlight, callbackDepth, opc, storeOpen>>

(* for a.inFlight > 0 { a.opCond.Wait() } *)
CloseDrain(t) ==
  /\ cpc[t] = "draining"
  /\ opMuFree
  /\ cpc' = At(cpc, t, IF inFlight > 0 THEN "waiting" ELSE "drained")
  /\ UNCHANGED <<closed, inFlight, callbackDepth, opc, storeOpen>>

(* The sessions are detached from the agent under sessionsMu. *)
CloseSnapshot(t) ==
  /\ cpc[t] = "drained"
  /\ cpc' = At(cpc, t, "snapshot")
  /\ UNCHANGED <<closed, inFlight, callbackDepth, opc, storeOpen>>

(* Each detached session is closed. *)
CloseSessions(t) ==
  /\ cpc[t] = "snapshot"
  /\ cpc' = At(cpc, t, "release")
  /\ UNCHANGED <<closed, inFlight, callbackDepth, opc, storeOpen>>

(* The memory provider and the store are closed, Close returns. *)
CloseStore(t) ==
  /\ cpc[t] = "release"
  /\ storeOpen' = FALSE
  /\ cpc' = At(cpc, t, "none")
  /\ UNCHANGED <<closed, inFlight, callbackDepth, opc>>
-----------------------------------------------------------------------------
BeginStep(t) == CheckOpen(t) \/ RecheckOpen(t) \/ Admit(t) \/ Refuse(t)
CloseStep(t) ==
  \/ CloseSwap(t) \/ CloseDrain(t)
  \/ CloseSnapshot(t) \/ CloseSessions(t) \/ CloseStore(t)

GateNext ==
  \E t \in Threads :
    \/ BeginStep(t) \/ Complete(t) \/ EndOperation(t)
    \/ EnterCallback(t) \/ LeaveCallback(t)
    \/ CloseBegin(t) \/ CloseStep(t)

GateSpec == GateInit /\ [][GateNext]_gateVars
-----------------------------------------------------------------------------
(* The store is never closed under a running operation: once Close has     *)
(* released it, and from the moment the drain loop was left, no operation  *)
(* is in flight or about to be counted.                                    *)
StoreOutlivesOperations ==
  (~storeOpen \/ \E t \in Threads : cpc[t] \in {"drained", "snapshot", "release"})
    => Admitted = {} /\ opMuFree

(* inFlight is exactly the number of operations between beginOperation     *)
(* and endOperation, so endOperation's underflow guard never hides a       *)
(* missing or a doubled call.                                              *)
InFlightExact == inFlight = Cardinality(Admitted)

(* Only the winner of the compare-and-swap releases anything: the store is *)
(* closed at most once and by one goroutine.                               *)
OneCloser ==
  /\ \A t, u \in Closing : t = u
  /\ Closing # {} => closed /\ storeOpen
  /\ ~storeOpen => closed

(* Close sleeps on opCond only while there is an operation whose           *)
(* endOperation will wake it: no wake-up is lost.                          *)
NoLostWakeup == (\E t \in Threads : cpc[t] = "waiting") => Admitted # {}

(* No goroutine waits in Close for an operation that it is itself inside:  *)
(* Close called from a callback is turned away.                            *)
NoSelfWait == \A t \in Threads : cpc[t] # "none" => t \notin Admitted
=============================================================================
