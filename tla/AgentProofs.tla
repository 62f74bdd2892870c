----------------------------- MODULE AgentProofs -----------------------------
(***************************************************************************)
(* Proofs about Agent and its parts, for any finite set of goroutines.     *)
(*                                                                         *)
(* AgentGate: the session store is never written without its lock or after *)
(* it is gone, the questions in flight are counted, one goroutine closes,  *)
(* no wakeup is lost and no goroutine waits for itself.                    *)
(*                                                                         *)
(* Session: questions are serialised, a clear is not lost with a failed    *)
(* question, and, without panics, a closed session begins no question and  *)
(* a session with its history in the process implements Conversation and   *)
(* remembers its most recent answers.                                      *)
(*                                                                         *)
(* Agent: it is its gate and its session at once, so that what is proved   *)
(* of each of them holds of the agent; Agent.Close cuts no admitted        *)
(* question short; and, without panics, it leaves no session usable.       *)
(***************************************************************************)
EXTENDS Agent, FiniteSetTheorems, TLAPS

(* The lifecycle gate: theorems of GateSpec.                               *)

(* Every set of goroutines is finite, so its cardinality is a number that  *)
(* is 0 only for the empty set, and that moves by one with an element.     *)
LEMMA CountType ==
  ASSUME NEW S \in SUBSET Threads
  PROVE  /\ IsFiniteSet(S)
         /\ Cardinality(S) \in Nat
         /\ Cardinality(S) = 0 <=> S = {}
<1>1. IsFiniteSet(S)
  BY FS_Subset, ThreadsAssumption
<1>2. QED
  BY <1>1, FS_CardinalityType, FS_EmptySet

(* A set that gains a goroutine, as when a counter is incremented. *)
LEMMA CountAdd ==
  ASSUME NEW S \in SUBSET Threads, NEW t \in Threads, t \notin S
  PROVE  Cardinality(S \cup {t}) = Cardinality(S) + 1
BY CountType, FS_AddElement

(* A set that loses a goroutine, as when a counter is decremented. *)
LEMMA CountRemove ==
  ASSUME NEW S \in SUBSET Threads, NEW t \in S
  PROVE  Cardinality(S \ {t}) = Cardinality(S) - 1
BY CountType, FS_RemoveElement
-----------------------------------------------------------------------------
(* callbackDepth counts the callbacks that run. *)
DepthExact == callbackDepth = Cardinality(InCallback)

(* The inductive invariant.  That the drain loop may be left only when     *)
(* nobody is in flight rests on inFlight being exact; that nobody gets in  *)
(* afterwards rests on closed being set before the drain; that the sleeper *)
(* is woken rests on both.                                                 *)
GateInv ==
  /\ GateTypeOK
  /\ InFlightExact
  /\ DepthExact
  /\ OneCloser
  /\ StoreOutlivesOperations
  /\ NoLostWakeup

-----------------------------------------------------------------------------
LEMMA GateInitInv == GateInit => GateInv
<1> SUFFICES ASSUME GateInit PROVE GateInv
  OBVIOUS
<1>1. Admitted = {} /\ InCallback = {} /\ Closing = {}
  BY DEF GateInit, Admitted, InCallback, Closing
<1>2. GateTypeOK
  BY DEF GateInit, GateTypeOK, OpPositions, ClosePositions
<1>3. InFlightExact /\ DepthExact
  BY <1>1, FS_EmptySet DEF GateInit, InFlightExact, DepthExact
<1>4. OneCloser /\ StoreOutlivesOperations /\ NoLostWakeup
  BY <1>1 DEF GateInit, OneCloser, StoreOutlivesOperations, NoLostWakeup
<1>5. QED
  BY <1>2, <1>3, <1>4 DEF GateInv

(* Type correctness of one step.  The counters stay natural numbers        *)
(* because they are cardinalities.                                         *)
LEMMA GateTypeStep == GateInv /\ [GateNext]_gateVars => GateTypeOK'
<1> SUFFICES ASSUME GateInv, [GateNext]_gateVars PROVE GateTypeOK'
  OBVIOUS
<1> USE DEF GateInv, GateTypeOK, OpPositions, ClosePositions, At
<1>1. CASE UNCHANGED gateVars
  BY <1>1 DEF gateVars
<1>2. ASSUME NEW t \in Threads, BeginStep(t) PROVE GateTypeOK'
  BY <1>2 DEF BeginStep, CheckOpen, RecheckOpen, Admit, Refuse
<1>3. ASSUME NEW t \in Threads, Complete(t) \/ EndOperation(t) PROVE GateTypeOK'
  BY <1>3 DEF Complete, EndOperation, Broadcast
<1>4. ASSUME NEW t \in Threads, EnterCallback(t) PROVE GateTypeOK'
  BY <1>4 DEF EnterCallback
<1>5. ASSUME NEW t \in Threads, LeaveCallback(t) PROVE GateTypeOK'
  <2>1. t \in InCallback /\ InCallback \in SUBSET Threads
    BY <1>5 DEF LeaveCallback, InCallback
  <2>2. callbackDepth - 1 \in Nat
    BY <2>1, CountType DEF DepthExact
  <2>3. QED
    BY <1>5, <2>2 DEF LeaveCallback
<1>6. ASSUME NEW t \in Threads, CloseBegin(t) \/ CloseStep(t) PROVE GateTypeOK'
  BY <1>6 DEF CloseBegin, CloseStep, CloseSwap, CloseDrain, CloseSnapshot,
              CloseSessions, CloseStore
<1>7. QED
  BY <1>1, <1>2, <1>3, <1>4, <1>5, <1>6 DEF GateNext

(* The two counters are exact after every step. *)
LEMMA GateCountStep ==
  GateInv /\ [GateNext]_gateVars => InFlightExact' /\ DepthExact'
<1> SUFFICES ASSUME GateInv, [GateNext]_gateVars PROVE InFlightExact' /\ DepthExact'
  OBVIOUS
<1> USE DEF GateInv, GateTypeOK, InFlightExact, DepthExact
<1>a. Admitted \in SUBSET Threads /\ InCallback \in SUBSET Threads
  BY DEF Admitted, InCallback
<1>1. CASE UNCHANGED opc /\ UNCHANGED <<inFlight, callbackDepth>>
  <2>1. Admitted' = Admitted /\ InCallback' = InCallback
    BY <1>1 DEF Admitted, InCallback
  <2>2. QED
    BY <1>1, <2>1
<1>2. ASSUME NEW t \in Threads, CheckOpen(t) \/ RecheckOpen(t) \/ Refuse(t) \/ Complete(t)
      PROVE  InFlightExact' /\ DepthExact'
  <2>1. Admitted' = Admitted /\ InCallback' = InCallback
    BY <1>2 DEF Admitted, InCallback, At, CheckOpen, RecheckOpen, Refuse, Complete
  <2>2. QED
    BY <1>2, <2>1 DEF CheckOpen, RecheckOpen, Refuse, Complete
<1>3. ASSUME NEW t \in Threads, Admit(t) PROVE InFlightExact' /\ DepthExact'
  <2>1. t \notin Admitted /\ Admitted' = Admitted \cup {t} /\ InCallback' = InCallback
    BY <1>3 DEF Admitted, InCallback, At, Admit
  <2>2. QED
    BY <1>3, <1>a, <2>1, CountAdd DEF Admit
<1>4. ASSUME NEW t \in Threads, EndOperation(t) PROVE InFlightExact' /\ DepthExact'
  <2>1. t \in Admitted /\ Admitted' = Admitted \ {t} /\ InCallback' = InCallback
    BY <1>4 DEF Admitted, InCallback, At, EndOperation
  <2>2. inFlight > 0
    BY <1>a, <2>1, CountType
  <2>3. QED
    BY <1>4, <1>a, <2>1, <2>2, CountRemove DEF EndOperation
<1>5. ASSUME NEW t \in Threads, EnterCallback(t) PROVE InFlightExact' /\ DepthExact'
  <2>1. t \notin InCallback /\ InCallback' = InCallback \cup {t} /\ Admitted' = Admitted
    BY <1>5 DEF Admitted, InCallback, At, EnterCallback
  <2>2. QED
    BY <1>5, <1>a, <2>1, CountAdd DEF EnterCallback
<1>6. ASSUME NEW t \in Threads, LeaveCallback(t) PROVE InFlightExact' /\ DepthExact'
  <2>1. t \in InCallback /\ InCallback' = InCallback \ {t} /\ Admitted' = Admitted
    BY <1>6 DEF Admitted, InCallback, At, LeaveCallback
  <2>2. QED
    BY <1>6, <1>a, <2>1, CountRemove DEF LeaveCallback
<1>7. ASSUME NEW t \in Threads, CloseBegin(t) \/ CloseStep(t)
      PROVE  UNCHANGED opc /\ UNCHANGED <<inFlight, callbackDepth>>
  BY <1>7 DEF CloseBegin, CloseStep, CloseSwap, CloseDrain, CloseSnapshot,
              CloseSessions, CloseStore
<1>8. QED
  BY <1>1, <1>2, <1>3, <1>4, <1>5, <1>6, <1>7 DEF GateNext, BeginStep, gateVars

(* One goroutine at a time is past the swap. *)
LEMMA OneCloserStep == GateInv /\ [GateNext]_gateVars => OneCloser'
<1> SUFFICES ASSUME GateInv, [GateNext]_gateVars PROVE OneCloser'
  OBVIOUS
<1> USE DEF GateInv, GateTypeOK, OneCloser, Closing, At
<1>1. CASE UNCHANGED <<cpc, closed, storeOpen>>
  BY <1>1
<1>2. ASSUME NEW t \in Threads, BeginStep(t) \/ Complete(t) \/ EnterCallback(t) \/ LeaveCallback(t)
      PROVE  UNCHANGED <<cpc, closed, storeOpen>>
  BY <1>2 DEF BeginStep, CheckOpen, RecheckOpen, Admit, Refuse, Complete,
              EnterCallback, LeaveCallback
<1>3. ASSUME NEW t \in Threads, EndOperation(t) PROVE OneCloser'
  <2>1. Closing' = Closing
    BY <1>3 DEF EndOperation, Broadcast
  <2>2. QED
    BY <1>3, <2>1 DEF EndOperation
<1>4. ASSUME NEW t \in Threads, CloseBegin(t) PROVE OneCloser'
  <2>1. Closing' = Closing
    BY <1>4 DEF CloseBegin, MayCallClose
  <2>2. QED
    BY <1>4, <2>1 DEF CloseBegin
<1>5. ASSUME NEW t \in Threads, CloseSwap(t) PROVE OneCloser'
  <2>1. CASE closed
    <3>1. Closing' = Closing
      BY <1>5, <2>1 DEF CloseSwap
    <3>2. QED
      BY <1>5, <2>1, <3>1 DEF CloseSwap
  <2>2. CASE ~closed
    <3>1. Closing = {} /\ storeOpen
      BY <2>2
    <3>2. Closing' = {t}
      BY <1>5, <2>2, <3>1 DEF CloseSwap
    <3>3. QED
      BY <1>5, <3>1, <3>2 DEF CloseSwap
  <2>3. QED
    BY <2>1, <2>2
<1>6. ASSUME NEW t \in Threads, CloseDrain(t) \/ CloseSnapshot(t) \/ CloseSessions(t)
      PROVE  OneCloser'
  <2>1. Closing' = Closing
    BY <1>6 DEF CloseDrain, CloseSnapshot, CloseSessions
  <2>2. QED
    BY <1>6, <2>1 DEF CloseDrain, CloseSnapshot, CloseSessions
<1>7. ASSUME NEW t \in Threads, CloseStore(t) PROVE OneCloser'
  <2>1. t \in Closing /\ Closing' = Closing \ {t}
    BY <1>7 DEF CloseStore
  <2>2. QED
    BY <1>7, <2>1 DEF CloseStore
<1>8. QED
  BY <1>1, <1>2, <1>3, <1>4, <1>5, <1>6, <1>7 DEF GateNext, CloseStep, gateVars

(* Past the drain loop nobody is in flight, and nobody gets in: a          *)
(* goroutine that is about to be counted holds opMu, which the drain loop  *)
(* needs, and has seen closed = FALSE, which is over.                      *)
LEMMA StoreStep == GateInv /\ [GateNext]_gateVars => StoreOutlivesOperations'
<1> SUFFICES ASSUME GateInv, [GateNext]_gateVars PROVE StoreOutlivesOperations'
  OBVIOUS
<1> DEFINE Past == ~storeOpen \/ \E t \in Threads : cpc[t] \in {"drained", "snapshot", "release"}
<1> USE DEF GateInv, GateTypeOK
<1>a. Past => closed /\ Admitted = {} /\ opMuFree
  BY DEF StoreOutlivesOperations, OneCloser, Closing
<1>b. ASSUME Past' => Past, Admitted' \subseteq Admitted, opMuFree => opMuFree'
      PROVE  StoreOutlivesOperations'
  BY <1>a, <1>b DEF StoreOutlivesOperations
<1>1. CASE UNCHANGED gateVars
  BY <1>1 DEF gateVars, StoreOutlivesOperations, Admitted, opMuFree
<1>2. ASSUME NEW t \in Threads, CheckOpen(t) \/ Refuse(t) \/ Complete(t)
                                 \/ EnterCallback(t) \/ LeaveCallback(t)
      PROVE  StoreOutlivesOperations'
  <2>1. Past' => Past
    BY <1>2 DEF CheckOpen, Refuse, Complete, EnterCallback, LeaveCallback
  <2>2. Admitted' \subseteq Admitted /\ (opMuFree => opMuFree')
    BY <1>2 DEF CheckOpen, Refuse, Complete, EnterCallback, LeaveCallback, At, Admitted, opMuFree
  <2>3. QED
    BY <1>b, <2>1, <2>2
<1>3. ASSUME NEW t \in Threads, RecheckOpen(t) PROVE StoreOutlivesOperations'
  <2>1. ~Past
    BY <1>3, <1>a DEF RecheckOpen
  <2>2. ~Past'
    BY <1>3, <2>1 DEF RecheckOpen
  <2>3. QED
    BY <2>2 DEF StoreOutlivesOperations
<1>4. ASSUME NEW t \in Threads, Admit(t) PROVE StoreOutlivesOperations'
  <2>1. ~Past
    BY <1>4, <1>a DEF Admit, opMuFree
  <2>2. ~Past'
    BY <1>4, <2>1 DEF Admit
  <2>3. QED
    BY <2>2 DEF StoreOutlivesOperations
<1>5. ASSUME NEW t \in Threads, EndOperation(t) PROVE StoreOutlivesOperations'
  <2>1. Past' => Past
    BY <1>5 DEF EndOperation, Broadcast
  <2>2. Admitted' \subseteq Admitted /\ (opMuFree => opMuFree')
    BY <1>5 DEF EndOperation, At, Admitted, opMuFree
  <2>3. QED
    BY <1>b, <2>1, <2>2
<1>6. ASSUME NEW t \in Threads, CloseBegin(t) \/ CloseSwap(t) \/ CloseSnapshot(t)
                                 \/ CloseSessions(t) \/ CloseStore(t)
      PROVE  StoreOutlivesOperations'
  <2>1. Past' => Past
    BY <1>6 DEF CloseBegin, CloseSwap, CloseSnapshot, CloseSessions, CloseStore, At
  <2>2. Admitted' = Admitted /\ (opMuFree => opMuFree')
    BY <1>6 DEF CloseBegin, CloseSwap, CloseSnapshot, CloseSessions, CloseStore, Admitted, opMuFree
  <2>3. QED
    BY <1>b, <2>1, <2>2
<1>7. ASSUME NEW t \in Threads, CloseDrain(t) PROVE StoreOutlivesOperations'
  <2>1. Admitted' = Admitted /\ opMuFree'
    BY <1>7 DEF CloseDrain, Admitted, opMuFree
  <2>2. CASE inFlight > 0
    <3>1. Past' => Past
      BY <1>7, <2>2 DEF CloseDrain, At
    <3>2. QED
      BY <1>b, <2>1, <3>1
  <2>3. CASE ~(inFlight > 0)
    <3>1. Admitted = {}
      BY <2>3, CountType DEF InFlightExact, Admitted
    <3>2. QED
      BY <2>1, <3>1 DEF StoreOutlivesOperations
  <2>4. QED
    BY <2>2, <2>3
<1>8. QED
  BY <1>1, <1>2, <1>3, <1>4, <1>5, <1>6, <1>7 DEF GateNext, BeginStep, CloseStep

(* A waiter always has an operation that will wake it: endOperation wakes  *)
(* everybody when it takes the count from 1 to 0, and a count above 1      *)
(* leaves somebody admitted.                                               *)
LEMMA WakeupStep == GateInv /\ [GateNext]_gateVars => NoLostWakeup'
<1> SUFFICES ASSUME GateInv, [GateNext]_gateVars PROVE NoLostWakeup'
  OBVIOUS
<1> DEFINE Waits == \E t \in Threads : cpc[t] = "waiting"
<1> USE DEF GateInv, GateTypeOK
<1>a. ASSUME Waits' => Waits, Admitted \subseteq Admitted' PROVE NoLostWakeup'
  BY <1>a DEF NoLostWakeup
<1>1. CASE UNCHANGED gateVars
  BY <1>1, <1>a DEF gateVars, Admitted
<1>2. ASSUME NEW t \in Threads, BeginStep(t) \/ Complete(t) \/ EnterCallback(t) \/ LeaveCallback(t)
      PROVE  NoLostWakeup'
  <2>1. Waits' => Waits
    BY <1>2 DEF BeginStep, CheckOpen, RecheckOpen, Admit, Refuse, Complete,
                EnterCallback, LeaveCallback
  <2>2. Admitted \subseteq Admitted'
    BY <1>2 DEF BeginStep, CheckOpen, RecheckOpen, Admit, Refuse, Complete,
                EnterCallback, LeaveCallback, At, Admitted
  <2>3. QED
    BY <1>a, <2>1, <2>2
<1>3. ASSUME NEW t \in Threads, EndOperation(t) PROVE NoLostWakeup'
  <2>1. CASE inFlight = 1
    BY <1>3, <2>1 DEF EndOperation, Broadcast, NoLostWakeup
  <2>2. CASE inFlight # 1
    <3>1. Admitted \in SUBSET Threads /\ t \in Admitted /\ Admitted' = Admitted \ {t}
      BY <1>3 DEF EndOperation, At, Admitted
    <3>2. Admitted # {t}
      BY <2>2, FS_Singleton DEF InFlightExact
    <3>3. Admitted' # {}
      BY <3>1, <3>2
    <3>4. QED
      BY <3>3 DEF NoLostWakeup
  <2>3. QED
    BY <2>1, <2>2
<1>4. ASSUME NEW t \in Threads, CloseBegin(t) \/ CloseSwap(t) \/ CloseSnapshot(t)
                                 \/ CloseSessions(t) \/ CloseStore(t)
      PROVE  NoLostWakeup'
  <2>1. Waits' => Waits
    BY <1>4 DEF CloseBegin, CloseSwap, CloseSnapshot, CloseSessions, CloseStore, At
  <2>2. Admitted' = Admitted
    BY <1>4 DEF CloseBegin, CloseSwap, CloseSnapshot, CloseSessions, CloseStore, Admitted
  <2>3. QED
    BY <1>a, <2>1, <2>2
<1>5. ASSUME NEW t \in Threads, CloseDrain(t) PROVE NoLostWakeup'
  <2>1. Admitted' = Admitted /\ Admitted \in SUBSET Threads
    BY <1>5 DEF CloseDrain, Admitted
  <2>2. CASE inFlight > 0
    <3>1. Admitted # {}
      BY <2>1, <2>2, CountType DEF InFlightExact
    <3>2. QED
      BY <2>1, <3>1 DEF NoLostWakeup
  <2>3. CASE ~(inFlight > 0)
    <3>1. Waits' => Waits
      BY <1>5, <2>3 DEF CloseDrain, At
    <3>2. QED
      BY <1>a, <2>1, <3>1
  <2>4. QED
    BY <2>2, <2>3
<1>6. QED
  BY <1>1, <1>2, <1>3, <1>4, <1>5 DEF GateNext, CloseStep
-----------------------------------------------------------------------------
(* GateInv holds in every state of the gate. *)
THEOREM GateInvariant == GateSpec => []GateInv
<1>1. GateInv /\ [GateNext]_gateVars => GateInv'
  BY GateTypeStep, GateCountStep, OneCloserStep, StoreStep, WakeupStep DEF GateInv
<1>2. QED
  BY GateInitInv, <1>1, PTL DEF GateSpec

(* The gate's variables keep their types; in particular the two counters   *)
(* of agent.go never become negative.                                      *)
THEOREM GateTypeCorrect == GateSpec => []GateTypeOK
<1>1. GateInv => GateTypeOK
  BY DEF GateInv
<1>2. QED
  BY GateInvariant, <1>1, PTL

(* Agent.Close never releases the store while an operation is in flight or *)
(* about to be counted, whatever the number of goroutines.                 *)
THEOREM StoreSafe == GateSpec => []StoreOutlivesOperations
<1>1. GateInv => StoreOutlivesOperations
  BY DEF GateInv
<1>2. QED
  BY GateInvariant, <1>1, PTL

(* inFlight counts the operations between beginOperation and endOperation. *)
THEOREM InFlightCounts == GateSpec => []InFlightExact
<1>1. GateInv => InFlightExact
  BY DEF GateInv
<1>2. QED
  BY GateInvariant, <1>1, PTL

(* One goroutine wins the swap of Agent.Close, and it alone releases the   *)
(* store, once.                                                            *)
THEOREM SingleCloser == GateSpec => []OneCloser
<1>1. GateInv => OneCloser
  BY DEF GateInv
<1>2. QED
  BY GateInvariant, <1>1, PTL

(* A Close that sleeps on opCond has an operation that will wake it. *)
THEOREM WakeupKept == GateSpec => []NoLostWakeup
<1>1. GateInv => NoLostWakeup
  BY DEF GateInv
<1>2. QED
  BY GateInvariant, <1>1, PTL

(* If tools do not call Close, no goroutine waits in Close for an          *)
(* operation of its own: the callbackDepth test turns away every Close     *)
(* that a callback makes.                                                  *)
THEOREM NeverWaitsForItself ==
  ASSUME ~ToolsMayClose
  PROVE  GateSpec => []NoSelfWait
<1> DEFINE Apart == \A t \in Threads : cpc[t] # "none" => opc[t] = "out"
           Inv == GateInv /\ Apart
<1>1. GateInit => Inv
  BY GateInitInv DEF GateInit
<1>2. Inv /\ [GateNext]_gateVars => Inv'
  <2> SUFFICES ASSUME GateInv, Apart, [GateNext]_gateVars
               PROVE  Apart'
    BY GateTypeStep, GateCountStep, OneCloserStep, StoreStep, WakeupStep DEF GateInv
  <2> USE DEF GateInv, GateTypeOK, At
  <2>1. CASE UNCHANGED gateVars
    BY <2>1 DEF gateVars
  <2>2. ASSUME NEW t \in Threads, CheckOpen(t) \/ RecheckOpen(t) \/ Refuse(t) \/ Complete(t)
        PROVE  Apart'
    BY <2>2 DEF CheckOpen, RecheckOpen, Refuse, Complete
  <2>3. ASSUME NEW t \in Threads, EndOperation(t) PROVE Apart'
    BY <2>3 DEF EndOperation, Broadcast
  <2>4. ASSUME NEW t \in Threads, EnterCallback(t) \/ LeaveCallback(t) PROVE Apart'
    BY <2>4 DEF EnterCallback, LeaveCallback
  <2>5. ASSUME NEW t \in Threads, CloseBegin(t) PROVE Apart'
    <3>1. opc[t] # "callback"
      <4>1. Cardinality(InCallback) = 0 /\ InCallback \in SUBSET Threads
        BY <2>5 DEF CloseBegin, DepthExact, InCallback
      <4>2. InCallback = {}
        BY <4>1, CountType
      <4>3. QED
        BY <4>2 DEF InCallback
    <3>2. QED
      BY <2>5, <3>1 DEF CloseBegin, MayCallClose
  <2>6. ASSUME NEW t \in Threads, CloseStep(t) PROVE Apart'
    BY <2>6 DEF CloseStep, CloseSwap, CloseDrain, CloseSnapshot, CloseSessions, CloseStore
  <2>7. ASSUME NEW t \in Threads, Admit(t) PROVE Apart'
    BY <2>7 DEF Admit
  <2>8. QED
    BY <2>1, <2>2, <2>3, <2>4, <2>5, <2>6, <2>7 DEF GateNext, BeginStep
<1>3. Inv => NoSelfWait
  BY DEF NoSelfWait, Admitted
<1>4. QED
  BY <1>1, <1>2, <1>3, PTL DEF GateSpec
-----------------------------------------------------------------------------
(* One session: theorems of SessSpec.                                      *)

(* What executing says, and that a closed session is not executing. *)
ExecutingKnown ==
  /\ \A t \in Threads : Executes(apc[t]) => executing
  /\ sessClosed => ~executing
  /\ pendingClose => executing
  /\ closeAsked => sessClosed \/ pendingClose

(* After a question has failed, a clear can only be pending while there is *)
(* still a flush to come.                                                  *)
FlushDue ==
  \A t \in Threads :
    apc[t] \in {"flush", "flushIO", "release"} /\ call[t].result = "error" =>
      ~executing /\ (pendingClear => External /\ apc[t] = "flush")

(* Without panics executing is taken down by the question that put it up. *)
Unwound ==
  ~MayPanic =>
    /\ executing => \E t \in Threads : Executes(apc[t])
    /\ \A t \in Threads : call[t].result # "panic"

(* A question that executes has the latest turn. *)
TurnCurrent == \A t \in Threads : Executes(apc[t]) => turns > 0 /\ call[t].turn = turns

(* Where a question relies on the history it loaded: until its answer is   *)
(* known, and after that if the answer is a good one.                      *)
Bases(p, r) == p \in {"run", "callback", "commit"} \/ (Executes(p) /\ p # "load" /\ r = "ok")

(* With the history in the process, nothing calls a store, and the turn a  *)
(* question will append is based on the history as it is.                  *)
BasisCurrent ==
  ~External =>
    \A t \in Threads :
      /\ apc[t] \notin {"commitIO", "flushIO", "clearIO"}
      /\ Bases(apc[t], call[t].result) => call[t].basis = LastId(history)

(* The inductive invariant.  Everything rests on OneAtATime: only because  *)
(* one goroutine at a time is between taking and returning the token does  *)
(* what it has seen of flags, turns and history stay true.                 *)
SessInv ==
  /\ SessTypeOK
  /\ OneAtATime
  /\ ExecutingKnown
  /\ FlushDue
  /\ Unwound
  /\ TurnCurrent
  /\ BasisCurrent
-----------------------------------------------------------------------------
(* What an assignment to one field of a call leaves alone. *)
LEMMA AnswerEffect ==
  ASSUME call \in [Threads -> Calls], NEW t \in Threads, NEW r \in Results, Answer(t, r)
  PROVE  /\ call' \in [Threads -> Calls]
         /\ \A u \in Threads : u # t => call'[u] = call[u]
         /\ call'[t].result = r
         /\ call'[t].kind = call[t].kind
         /\ call'[t].turn = call[t].turn
         /\ call'[t].basis = call[t].basis
BY DEF Answer, Calls

(* A goroutine starts with a well-formed call. *)
LEMMA NewCallType == NewCall \in Calls
BY DEF NewCall, Calls, Kinds, Results

(* The history stays a sequence of turns within its bound. *)
LEMMA RecentType ==
  ASSUME NEW h \in Seq(Turn)
  PROVE  Recent(h) \in Seq(Turn) /\ Len(Recent(h)) <= MaxRounds
BY SessionAssumption DEF Recent

(* The identity of the latest turn is a number, 0 if there is none. *)
LEMMA LastIdType ==
  ASSUME NEW h \in Seq(Turn)
  PROVE  LastId(h) \in Nat
<1>1. CASE h = <<>>
  BY <1>1 DEF LastId
<1>2. CASE h # <<>>
  <2>1. h[Len(h)] \in Turn
    BY <1>2
  <2>2. QED
    BY <1>2, <2>1 DEF LastId, Turn
<1>3. QED
  BY <1>1, <1>2

(* A cleared history is a history. *)
LEMMA EmptyType == <<>> \in Seq(Turn) /\ Len(<<>>) <= MaxRounds
BY SessionAssumption

(* What commitHistory appends is a turn: a question that executes has been counted. *)
LEMMA TurnOfType ==
  ASSUME SessInv, NEW t \in Threads, Executes(apc[t])
  PROVE  TurnOf(t) \in Turn
<1>1. call[t] \in Calls
  BY DEF SessInv, SessTypeOK
<1>2. call[t].turn \in Nat /\ call[t].basis \in Nat
  BY <1>1 DEF Calls
<1>3. call[t].turn # 0
  BY DEF SessInv, SessTypeOK, TurnCurrent
<1>4. QED
  BY <1>2, <1>3 DEF TurnOf, Turn

(* A new session satisfies the invariant. *)
LEMMA SessInitInv == SessInit => SessInv
<1> SUFFICES ASSUME SessInit PROVE SessInv
  OBVIOUS
<1>1. call \in [Threads -> Calls] /\ apc \in [Threads -> Positions]
  BY NewCallType DEF SessInit, Positions
<1>2. history \in Seq(Turn) /\ Len(history) <= MaxRounds
  BY SessionAssumption DEF SessInit
<1>3. SessTypeOK
  BY <1>1, <1>2 DEF SessInit, SessTypeOK
<1>4. OneAtATime /\ ExecutingKnown /\ FlushDue /\ TurnCurrent /\ BasisCurrent
  BY DEF SessInit, OneAtATime, Holders, Holds, ExecutingKnown, Executes, FlushDue, TurnCurrent,
         BasisCurrent, Bases
<1>5. Unwound
  BY DEF SessInit, Unwound, NewCall
<1>6. QED
  BY <1>3, <1>4, <1>5 DEF SessInv

(* Type correctness of one step. *)
LEMMA SessTypeStep == SessInv /\ [SessNext]_sessVars => SessTypeOK'
<1> SUFFICES ASSUME SessInv, [SessNext]_sessVars PROVE SessTypeOK'
  OBVIOUS
<1> USE DEF SessTypeOK, flags, observers
<1>a. SessTypeOK
  BY DEF SessInv
<1>b. \A t \in Threads, p \in Positions : Goto(t, p) => apc' \in [Threads -> Positions]
  BY <1>a DEF Goto, At
<1>c. \A t \in Threads, r \in Results : Answer(t, r) => call' \in [Threads -> Calls]
  BY <1>a, AnswerEffect
<1>1. CASE UNCHANGED sessVars
  BY <1>1, <1>a DEF sessVars
<1>2. ASSUME NEW t \in Threads, NEW kind \in Kinds, Enter(t, kind) PROVE SessTypeOK'
  <2>1. call' \in [Threads -> Calls]
    <3>1. CASE emitting
      BY <1>2, <1>c, <3>1 DEF Enter, Results
    <3>2. CASE ~emitting
      <4>1. call' = [call EXCEPT ![t].kind = kind]
        BY <1>2, <3>2 DEF Enter
      <4>2. QED
        BY <1>a, <4>1 DEF Calls
    <3>3. QED
      BY <3>1, <3>2
  <2>2. QED
    BY <1>2, <1>a, <1>b, <2>1 DEF Enter, Answer, Calls, Positions
<1>3. ASSUME NEW t \in Threads,
             AgentAdmits(t) \/ AgentRefuses(t) \/ AcquireSlot(t) \/ AcquireCanceled(t)
      PROVE  SessTypeOK'
  BY <1>3, <1>a, <1>b, <1>c, ZenonT(30)
     DEF AgentAdmits, AgentRefuses, AcquireSlot, AcquireCanceled, Positions, Results
<1>4. ASSUME NEW t \in Threads, BeginExecution(t) PROVE SessTypeOK'
  <2>1. call' \in [Threads -> Calls]
    <3>1. CASE sessClosed
      BY <1>4, <1>c, <3>1 DEF BeginExecution, Results
    <3>2. CASE ~sessClosed
      <4>1. call' = [call EXCEPT ![t].turn = turns + 1] /\ turns + 1 \in Nat
        BY <1>4, <1>a, <3>2 DEF BeginExecution
      <4>2. QED
        BY <1>a, <4>1 DEF Calls
    <3>3. QED
      BY <3>1, <3>2
  <2>2. turns' \in Nat /\ executing' \in BOOLEAN /\ apc' \in [Threads -> Positions]
    <3>1. CASE sessClosed
      BY <1>4, <1>a, <1>b, <3>1 DEF BeginExecution, Positions
    <3>2. CASE ~sessClosed
      BY <1>4, <1>a, <1>b, <3>2 DEF BeginExecution, Positions
    <3>3. QED
      BY <3>1, <3>2
  <2>3. QED
    BY <1>4, <1>a, <2>1, <2>2 DEF BeginExecution
<1>5. ASSUME NEW t \in Threads, LoadHistory(t) PROVE SessTypeOK'
  <2>1. call' \in [Threads -> Calls]
    BY <1>5, <1>a, LastIdType DEF LoadHistory, Calls
  <2>2. QED
    BY <1>5, <1>a, <1>b, <2>1 DEF LoadHistory, Calls, Positions
<1>6. ASSUME NEW t \in Threads, FailEarly(t) \/ LoadFails(t) \/ RunFails(t) \/ RunSucceeds(t) \/ RunPanics(t)
      PROVE  SessTypeOK'
  <2>1. CASE FailEarly(t)
    BY <2>1, <1>a, <1>b, <1>c DEF FailEarly, Positions, Results
  <2>2. CASE LoadFails(t)
    BY <2>2, <1>a, <1>b, <1>c DEF LoadFails, Positions, Results
  <2>3. CASE RunFails(t) \/ RunSucceeds(t)
    BY <2>3, <1>a, <1>b, <1>c, ZenonT(30) DEF RunFails, RunSucceeds, AfterBody, Positions, Results
  <2>4. CASE RunPanics(t)
    BY <2>4, <1>a, <1>b, <1>c DEF RunPanics, Positions, Results
  <2>5. QED
    BY <1>6, <2>1, <2>2, <2>3, <2>4
<1>7. ASSUME NEW t \in Threads, CommitHistory(t) PROVE SessTypeOK'
  <2>1. call' \in [Threads -> Calls]
    <3>1. CASE External
      <4>1. PICK op \in {"append", "clear"} : call' = [call EXCEPT ![t].op = op]
        BY <1>7, <3>1 DEF CommitHistory
      <4>2. QED
        BY <1>a, <4>1 DEF Calls
    <3>2. CASE ~External
      BY <1>7, <1>c, <3>2 DEF CommitHistory, Results
    <3>3. QED
      BY <3>1, <3>2
  <2>2. QED
    BY <1>7, <1>a, <1>b, <2>1 DEF CommitHistory, Answer, Calls, AfterBody, Positions
<1>8. ASSUME NEW t \in Threads, CommitStore(t) \/ CommitStoreFails(t) PROVE SessTypeOK'
  <2>1. TurnOf(t) \in Turn
    BY <1>8, TurnOfType DEF CommitStore, CommitStoreFails, Executes, Holds
  <2>2. history' \in Seq(Turn)
    <3>1. Append(history, TurnOf(t)) \in Seq(Turn)
      BY <1>a, <2>1
    <3>2. QED
      BY <1>8, <1>a, <3>1, EmptyType DEF CommitStore, CommitStoreFails
  <2>3. External \/ history' = history
    BY <1>8 DEF CommitStoreFails, CommitStore, BasisCurrent, SessInv
  <2>4. QED
    BY <1>8, <1>a, <1>b, <1>c, <2>2, <2>3, ZenonT(30)
       DEF CommitStore, CommitStoreFails, AfterBody, Positions, Results
<1>9. ASSUME NEW t \in Threads, SessEnterCallback(t) PROVE SessTypeOK'
  BY <1>9, <1>a, <1>b DEF SessEnterCallback, Positions
<1>10. ASSUME NEW t \in Threads, NEW ok \in BOOLEAN, SessLeaveCallback(t, ok) PROVE SessTypeOK'
  BY <1>10, <1>a, <1>b, <1>c DEF SessLeaveCallback, ReturnFrom, AfterBody, Positions, Results
<1>11. ASSUME NEW t \in Threads, RecordDone(t) \/ ReleaseSlot(t) \/ FlushPendingClear(t) PROVE SessTypeOK'
  BY <1>11, <1>a, <1>b, ZenonT(30) DEF RecordDone, ReleaseSlot, PutToken, FlushPendingClear, FlushIf, Positions
<1>12. ASSUME NEW t \in Threads, NEW ok \in BOOLEAN, FinishAnswer(t, ok) PROVE SessTypeOK'
  BY <1>12, <1>a, <1>b, <1>c DEF FinishAnswer, Positions, Results
<1>13. ASSUME NEW t \in Threads, EndExecution(t) PROVE SessTypeOK'
  <2>1. TurnOf(t) \in Turn
    BY <1>13, TurnOfType DEF EndExecution, EndWith, Executes, Holds
  <2>2. Append(history, TurnOf(t)) \in Seq(Turn)
    BY <1>a, <2>1
  <2>3. history' \in Seq(Turn) /\ (~External => Len(history') <= MaxRounds)
    <3>1. Ended(t) \in {<<>>, Recent(Append(history, TurnOf(t))), history}
      BY DEF Ended
    <3>2. Recent(Append(history, TurnOf(t))) \in Seq(Turn) /\ Len(Recent(Append(history, TurnOf(t)))) <= MaxRounds
      BY <2>2, RecentType
    <3>3. QED
      BY <1>13, <1>a, <3>1, <3>2, EmptyType DEF EndExecution, EndWith
  <2>4. call[t].turn \in Nat
    BY <1>a DEF Calls
  <2>5. QED
    BY <1>13, <1>a, <1>b, <2>3, <2>4, SessionAssumption DEF EndExecution, EndWith, Positions
<1>14. ASSUME NEW t \in Threads, NEW ok \in BOOLEAN, FlushStore(t, ok) \/ ClearStore(t, ok) PROVE SessTypeOK'
  BY <1>14, <1>a, <1>b, EmptyType, ZenonT(30) DEF FlushStore, ClearStore, Positions
<1>15. ASSUME NEW t \in Threads, Leave(t) PROVE SessTypeOK'
  BY <1>15, <1>a, <1>b, NewCallType DEF Leave, Positions
<1>16. ASSUME NEW t \in Threads, ClearHistory(t) PROVE SessTypeOK'
  BY <1>16, <1>a, <1>b, EmptyType DEF ClearHistory, Positions
<1>17. CASE CloseSession
  BY <1>17, <1>a DEF CloseSession
<1>18. QED
  BY <1>1, <1>2, <1>3, <1>4, <1>5, <1>6, <1>7, <1>8, <1>9, <1>10, <1>11, <1>12, <1>13, <1>14,
     <1>15, <1>16, <1>17 DEF SessNext, Progress, Callback

(* A step of a goroutine moves it alone. *)
LEMMA GotoEffect ==
  ASSUME apc \in [Threads -> Positions], NEW t \in Threads, NEW p, Goto(t, p)
  PROVE  apc'[t] = p /\ \A u \in Threads : u # t => apc'[u] = apc[u]
BY DEF Goto, At

(* The token is out exactly when somebody holds it. *)
LEMMA SlotStep == SessInv /\ [SessNext]_sessVars => OneAtATime'
<1> SUFFICES ASSUME SessInv, [SessNext]_sessVars PROVE OneAtATime'
  OBVIOUS
<1> USE DEF flags
<1>a. OneAtATime /\ execSlot \in BOOLEAN /\ apc \in [Threads -> Positions]
  BY DEF SessInv, SessTypeOK
<1>b. ASSUME UNCHANGED <<apc, execSlot>> PROVE OneAtATime'
  BY <1>a, <1>b DEF OneAtATime, Holders
<1>c. ASSUME NEW t \in Threads, NEW p, Goto(t, p), Holds(p) <=> Holds(apc[t]), UNCHANGED execSlot
      PROVE  OneAtATime'
  <2>1. Holders' = Holders
    BY <1>a, <1>c, GotoEffect DEF Holders
  <2>2. QED
    BY <1>a, <1>c, <2>1 DEF OneAtATime
<1>1. CASE UNCHANGED sessVars
  BY <1>1, <1>b DEF sessVars
<1>2. ASSUME NEW t \in Threads, AcquireSlot(t) PROVE OneAtATime'
  <2>1. Holders = {}
    BY <1>2, <1>a DEF AcquireSlot, OneAtATime
  <2>2. Holders' = {t}
    BY <1>2, <1>a, <2>1, GotoEffect DEF AcquireSlot, Holders, Holds
  <2>3. QED
    BY <1>2, <2>2 DEF AcquireSlot, OneAtATime
<1>3. ASSUME NEW t \in Threads, ReleaseSlot(t) PROVE OneAtATime'
  <2>1. Holders = {t}
    BY <1>3, <1>a DEF ReleaseSlot, PutToken, OneAtATime, Holders, Holds
  <2>2. Holders' = {}
    BY <1>3, <1>a, <2>1, GotoEffect DEF ReleaseSlot, PutToken, Holders, Holds
  <2>3. QED
    BY <1>3, <2>2 DEF ReleaseSlot, PutToken, OneAtATime
<1>4. ASSUME NEW t \in Threads,
             \/ \E kind \in Kinds : Enter(t, kind)
             \/ AgentAdmits(t) \/ AgentRefuses(t) \/ AcquireCanceled(t) \/ Leave(t)
      PROVE  OneAtATime'
  <2>1. PICK p : Goto(t, p) /\ ~Holds(p)
    BY <1>4 DEF Enter, AgentAdmits, AgentRefuses, AcquireCanceled, Leave, Holds
  <2>2. ~Holds(apc[t]) /\ UNCHANGED execSlot
    BY <1>4 DEF Enter, AgentAdmits, AgentRefuses, AcquireCanceled, Leave, Holds
  <2>3. QED
    BY <1>c, <2>1, <2>2
<1>5. ASSUME NEW t \in Threads,
             \/ BeginExecution(t) \/ FailEarly(t) \/ LoadHistory(t) \/ LoadFails(t)
             \/ RunFails(t) \/ RunSucceeds(t) \/ RunPanics(t)
      PROVE  OneAtATime'
  <2>1. PICK p : Goto(t, p) /\ Holds(p)
    BY <1>5 DEF BeginExecution, FailEarly, LoadHistory, LoadFails, RunFails, RunSucceeds, RunPanics,
                AfterBody, Holds
  <2>2. Holds(apc[t]) /\ UNCHANGED execSlot
    BY <1>5 DEF BeginExecution, FailEarly, LoadHistory, LoadFails, RunFails, RunSucceeds, RunPanics, Holds
  <2>3. QED
    BY <1>c, <2>1, <2>2
<1>6. ASSUME NEW t \in Threads,
             \/ CommitHistory(t) \/ CommitStore(t) \/ CommitStoreFails(t) \/ RecordDone(t)
             \/ \E ok \in BOOLEAN : FinishAnswer(t, ok)
             \/ EndExecution(t) \/ FlushPendingClear(t)
             \/ \E ok \in BOOLEAN : FlushStore(t, ok)
             \/ Callback(t)
      PROVE  OneAtATime'
  <2>1. PICK p : Goto(t, p) /\ Holds(p)
    BY <1>6 DEF CommitHistory, CommitStore, CommitStoreFails, RecordDone, FinishAnswer, EndExecution,
                EndWith, FlushPendingClear, FlushIf, FlushStore, Callback, SessEnterCallback,
                SessLeaveCallback, ReturnFrom, AfterBody, Holds
  <2>2. Holds(apc[t]) /\ UNCHANGED execSlot
    BY <1>6 DEF CommitHistory, CommitStore, CommitStoreFails, RecordDone, FinishAnswer, EndExecution,
                EndWith, FlushPendingClear, FlushIf, FlushStore, Callback, SessEnterCallback,
                SessLeaveCallback, ReturnFrom, Calling, Holds
  <2>3. QED
    BY <1>c, <2>1, <2>2
<1>7. ASSUME NEW t \in Threads, ClearHistory(t) \/ \E ok \in BOOLEAN : ClearStore(t, ok)
      PROVE  OneAtATime'
  <2>1. CASE ClearHistory(t) /\ executing
    BY <2>1, <1>b DEF ClearHistory
  <2>2. CASE ClearHistory(t) /\ ~executing
    <3>1. apc[t] = "idle"
      BY <2>2 DEF ClearHistory, Calling, SessInv, ExecutingKnown, Executes, Holds
    <3>2. QED
      BY <2>2, <1>b, <1>c, <3>1 DEF ClearHistory, Holds
  <2>3. ASSUME NEW ok \in BOOLEAN, ClearStore(t, ok) PROVE OneAtATime'
    BY <2>3, <1>c DEF ClearStore, Holds
  <2>4. QED
    BY <1>7, <2>1, <2>2, <2>3
<1>8. CASE CloseSession
  BY <1>8, <1>b DEF CloseSession
<1>9. QED
  BY <1>1, <1>2, <1>3, <1>4, <1>5, <1>6, <1>7, <1>8 DEF SessNext, Progress
-----------------------------------------------------------------------------
(* The parts of the invariant that rest on the token. *)
SlotInv == ExecutingKnown /\ FlushDue /\ Unwound /\ TurnCurrent /\ BasisCurrent

(* What a call keeps in a step that does not answer it. *)
Keeps(t, n, b) ==
  /\ \A u \in Threads : u # t => call'[u] = call[u]
  /\ call'[t].result = call[t].result
  /\ call'[t].turn = n
  /\ call'[t].basis = b

(* The assignments of Enter, BeginExecution, LoadHistory and CommitHistory keep the answer. *)
LEMMA AssignEffect ==
  ASSUME SessTypeOK, NEW t \in Threads
  PROVE  /\ \A kind \in Kinds : Enter(t, kind) /\ ~emitting => Keeps(t, call[t].turn, call[t].basis)
         /\ BeginExecution(t) /\ ~sessClosed => Keeps(t, turns + 1, call[t].basis)
         /\ LoadHistory(t) => Keeps(t, call[t].turn, LastId(history))
         /\ CommitHistory(t) /\ External => Keeps(t, call[t].turn, call[t].basis)
<1> USE DEF Keeps
<1>a. call \in [Threads -> Calls]
  BY DEF SessTypeOK
<1>1. ASSUME NEW kind \in Kinds, Enter(t, kind), ~emitting PROVE Keeps(t, call[t].turn, call[t].basis)
  <2>1. call' = [call EXCEPT ![t].kind = kind]
    BY <1>1 DEF Enter
  <2>2. QED
    BY <1>a, <2>1 DEF Calls
<1>2. ASSUME BeginExecution(t), ~sessClosed PROVE Keeps(t, turns + 1, call[t].basis)
  <2>1. call' = [call EXCEPT ![t].turn = turns + 1]
    BY <1>2 DEF BeginExecution
  <2>2. QED
    BY <1>a, <2>1 DEF Calls
<1>3. ASSUME LoadHistory(t) PROVE Keeps(t, call[t].turn, LastId(history))
  <2>1. call' = [call EXCEPT ![t].basis = LastId(history)]
    BY <1>3 DEF LoadHistory
  <2>2. QED
    BY <1>a, <2>1 DEF Calls
<1>4. ASSUME CommitHistory(t), External PROVE Keeps(t, call[t].turn, call[t].basis)
  <2>1. PICK op : call' = [call EXCEPT ![t].op = op]
    BY <1>4 DEF CommitHistory
  <2>2. QED
    BY <1>a, <2>1 DEF Calls
<1>5. QED
  BY <1>1, <1>2, <1>3, <1>4

(* Every step keeps the parts that rest on the token. *)
LEMMA SlotInvStep == SessInv /\ [SessNext]_sessVars => SlotInv'
<1> SUFFICES ASSUME SessInv, [SessNext]_sessVars PROVE SlotInv'
  OBVIOUS
<1> USE DEF flags, observers, SlotInv, ExecutingKnown, FlushDue, Unwound, TurnCurrent, BasisCurrent
<1>a. SessTypeOK /\ SlotInv
  BY DEF SessInv
<1>b. /\ apc \in [Threads -> Positions] /\ call \in [Threads -> Calls]
      /\ turns \in Nat /\ executing \in BOOLEAN /\ sessClosed \in BOOLEAN
      /\ pendingClear \in BOOLEAN /\ pendingClose \in BOOLEAN
  BY DEF SessInv, SessTypeOK
<1>c. \A t, u \in Threads : Holds(apc[t]) /\ Holds(apc[u]) => t = u
  BY DEF SessInv, OneAtATime, Holders
<1> USE DEF Executes, Holds
<1>d. \A t \in Threads : \A p : Goto(t, p) => apc'[t] = p /\ \A u \in Threads : u # t => apc'[u] = apc[u]
  BY <1>b, GotoEffect
<1>e. \A t \in Threads, r \in Results : Answer(t, r) =>
        /\ \A u \in Threads : u # t => call'[u] = call[u]
        /\ call'[t].result = r /\ call'[t].turn = call[t].turn /\ call'[t].basis = call[t].basis
  BY <1>b, AnswerEffect
<1>1. CASE UNCHANGED sessVars
  BY <1>1, <1>a DEF sessVars
(* A step that only moves its goroutine and, perhaps, answers its call. *)
<1>f. ASSUME NEW t \in Threads, NEW p, Goto(t, p),
             p \notin {"flush", "flushIO", "release", "clearIO"}, p = "commitIO" => External,
             Executes(p) <=> Executes(apc[t]),
             UNCHANGED <<executing, sessClosed, pendingClose, pendingClear, closeAsked, turns, history>>,
             \A u \in Threads : u # t => call'[u] = call[u],
             call'[t].turn = call[t].turn, call'[t].basis = call[t].basis,
             call'[t].result = "panic" => MayPanic \/ call[t].result = "panic",
             ~External /\ Bases(p, call'[t].result) => call[t].basis = LastId(history)
      PROVE  SlotInv'
  <2>1. ExecutingKnown'
    BY <1>a, <1>d, <1>f
  <2>2. FlushDue'
    BY <1>a, <1>d, <1>f
  <2>3. Unwound'
    <3>1. CASE executing /\ ~MayPanic
      <4>1. PICK u \in Threads : Executes(apc[u])
        BY <1>a, <3>1
      <4>2. Executes(apc'[u])
        BY <1>d, <1>f, <4>1
      <4>3. QED
        BY <1>a, <1>f, <3>1, <4>2
    <3>2. QED
      BY <1>a, <1>f, <3>1
  <2>4. TurnCurrent'
    BY <1>a, <1>d, <1>f
  <2>5. BasisCurrent'
    <3>1. history' = history
      BY <1>f
    <3>2. ASSUME NEW u \in Threads, u # t, ~External
          PROVE  /\ apc'[u] \notin {"commitIO", "flushIO", "clearIO"}
                 /\ Bases(apc'[u], call'[u].result) => call'[u].basis = LastId(history)
      BY <1>a, <1>d, <1>f, <3>2
    <3>3. ASSUME ~External
          PROVE  /\ apc'[t] \notin {"commitIO", "flushIO", "clearIO"}
                 /\ Bases(apc'[t], call'[t].result) => call'[t].basis = LastId(history)
      BY <1>d, <1>f, <3>3
    <3>4. QED
      BY <3>1, <3>2, <3>3
  <2>6. QED
    BY <2>1, <2>2, <2>3, <2>4, <2>5
<1> USE DEF Bases
<1>2. ASSUME NEW t \in Threads, NEW kind \in Kinds, Enter(t, kind) PROVE SlotInv'
  <2>1. CASE emitting
    BY <1>2, <1>a, <1>e, <1>f, <2>1 DEF Enter, Results
  <2>2. CASE ~emitting
    <3>1. Keeps(t, call[t].turn, call[t].basis)
      BY <1>2, <1>a, <2>2, AssignEffect
    <3>2. apc[t] = "idle" /\ Goto(t, "entered") /\ UNCHANGED <<flags, history, observers>>
      BY <1>2, <2>2 DEF Enter
    <3>3. QED
      BY <1>a, <1>f, <3>1, <3>2 DEF Keeps
  <2>3. QED
    BY <2>1, <2>2
<1>3. ASSUME NEW t \in Threads, AgentAdmits(t) \/ AcquireSlot(t) PROVE SlotInv'
  BY <1>3, <1>a, <1>f DEF AgentAdmits, AcquireSlot
<1>4. ASSUME NEW t \in Threads, AgentRefuses(t) \/ AcquireCanceled(t) PROVE SlotInv'
  <2>1. PICK r \in Results : Answer(t, r) /\ r # "panic" /\ r # "ok"
    BY <1>4 DEF AgentRefuses, AcquireCanceled, Results
  <2>2. QED
    BY <1>4, <1>a, <1>e, <1>f, <2>1 DEF AgentRefuses, AcquireCanceled
<1>5. ASSUME NEW t \in Threads, BeginExecution(t) PROVE SlotInv'
  <2>1. apc[t] = "slot" /\ \A u \in Threads : u # t => ~Holds(apc[u])
    BY <1>5, <1>c DEF BeginExecution
  <2>2. CASE sessClosed
    <3>1. Answer(t, "closed") /\ Goto(t, "release") /\ UNCHANGED <<flags, history, observers>>
      BY <1>5, <2>2 DEF BeginExecution
    <3>2. call'[t].result = "closed" /\ \A u \in Threads : u # t => call'[u] = call[u]
      BY <1>e, <3>1 DEF Results
    <3>3. ~executing
      BY <1>a, <2>2
    <3>4. QED
      BY <1>a, <1>d, <2>1, <3>1, <3>2, <3>3
  <2>3. CASE ~sessClosed
    <3>1. Keeps(t, turns + 1, call[t].basis)
      BY <1>5, <1>a, <2>3, AssignEffect
    <3>2. Goto(t, "load") /\ executing' /\ turns' = turns + 1
          /\ UNCHANGED <<sessClosed, pendingClose, pendingClear, closeAsked, history>>
      BY <1>5, <2>3 DEF BeginExecution
    <3>3. apc'[t] = "load" /\ \A u \in Threads : u # t => apc'[u] = apc[u]
      BY <1>d, <3>2
    <3>4. ExecutingKnown' /\ FlushDue'
      BY <1>a, <2>1, <2>3, <3>1, <3>2, <3>3 DEF Keeps
    <3>5. Unwound'
      BY <1>a, <3>1, <3>3 DEF Keeps
    <3>6. TurnCurrent'
      BY <1>b, <2>1, <3>1, <3>2, <3>3 DEF Keeps
    <3>7. BasisCurrent'
      BY <1>a, <2>1, <3>1, <3>2, <3>3 DEF Keeps
    <3>8. QED
      BY <3>4, <3>5, <3>6, <3>7
  <2>4. QED
    BY <2>2, <2>3
<1>6. ASSUME NEW t \in Threads, LoadHistory(t) PROVE SlotInv'
  <2>1. Keeps(t, call[t].turn, LastId(history))
    BY <1>6, <1>a, AssignEffect
  <2>2. /\ apc[t] = "load" /\ Goto(t, "run")
        /\ UNCHANGED <<executing, sessClosed, pendingClose, pendingClear, closeAsked, turns, history>>
    BY <1>6 DEF LoadHistory
  <2>3. apc'[t] = "run" /\ \A u \in Threads : u # t => apc'[u] = apc[u]
    BY <1>d, <2>2
  <2>4. ExecutingKnown' /\ FlushDue' /\ TurnCurrent'
    BY <1>a, <2>1, <2>2, <2>3 DEF Keeps
  <2>5. Unwound'
    BY <1>a, <2>1, <2>2, <2>3 DEF Keeps
  <2>6. BasisCurrent'
    BY <1>a, <2>1, <2>2, <2>3 DEF Keeps
  <2>7. QED
    BY <2>4, <2>5, <2>6
<1>7. ASSUME NEW t \in Threads,
             FailEarly(t) \/ LoadFails(t) \/ RunFails(t) \/ RunSucceeds(t)
      PROVE  SlotInv'
  <2>1. CASE FailEarly(t) \/ RunFails(t)
    BY <2>1, <1>a, <1>e, <1>f DEF FailEarly, RunFails, AfterBody, Results
  <2>2. CASE LoadFails(t) /\ FailOpen
    BY <2>2, <1>a, <1>f DEF LoadFails
  <2>3. CASE LoadFails(t) /\ ~FailOpen
    BY <2>3, <1>a, <1>e, <1>f DEF LoadFails, Results
  <2>4. CASE RunSucceeds(t)
    BY <2>4, <1>a, <1>f DEF RunSucceeds
  <2>5. QED
    BY <1>7, <2>1, <2>2, <2>3, <2>4
<1>8. ASSUME NEW t \in Threads, Callback(t) PROVE SlotInv'
  <2>1. CASE SessEnterCallback(t)
    BY <2>1, <1>a, <1>f DEF SessEnterCallback
  <2>2. ASSUME NEW ok \in BOOLEAN, SessLeaveCallback(t, ok) PROVE SlotInv'
    <3>1. CASE UNCHANGED call
      BY <2>2, <1>a, <1>f, <3>1 DEF SessLeaveCallback, ReturnFrom, Calling, AfterBody
    <3>2. CASE Answer(t, "error")
      BY <2>2, <1>a, <1>e, <1>f, <3>2 DEF SessLeaveCallback, ReturnFrom, Calling, AfterBody, Results
    <3>3. QED
      BY <2>2, <3>1, <3>2 DEF SessLeaveCallback, ReturnFrom
  <2>3. QED
    BY <1>8, <2>1, <2>2 DEF Callback
<1>9. ASSUME NEW t \in Threads, NEW ok \in BOOLEAN, FinishAnswer(t, ok) PROVE SlotInv'
  <2>1. CASE ok
    BY <1>9, <1>a, <1>f, <2>1 DEF FinishAnswer
  <2>2. CASE ~ok
    BY <1>9, <1>a, <1>e, <1>f, <2>2 DEF FinishAnswer, Results
  <2>3. QED
    BY <2>1, <2>2
<1>10. ASSUME NEW t \in Threads, Leave(t) PROVE SlotInv'
  <2>1. call'[t].result = "none" /\ \A u \in Threads : u # t => call'[u] = call[u]
    BY <1>10, <1>b DEF Leave, NewCall
  <2>2. apc[t] = "exit" /\ Goto(t, "idle") /\ UNCHANGED <<flags, history, observers>>
    BY <1>10 DEF Leave
  <2>3. apc'[t] = "idle" /\ \A u \in Threads : u # t => apc'[u] = apc[u]
    BY <1>d, <2>2
  <2>4. ExecutingKnown' /\ FlushDue' /\ TurnCurrent'
    BY <1>a, <2>1, <2>2, <2>3
  <2>5. Unwound' /\ BasisCurrent'
    BY <1>a, <2>1, <2>2, <2>3
  <2>6. QED
    BY <2>4, <2>5
<1>11. ASSUME NEW t \in Threads, RunPanics(t) PROVE SlotInv'
  <2>1. /\ apc[t] = "run" /\ MayPanic /\ Answer(t, "panic")
        /\ UNCHANGED <<flags, history, observers>>
    BY <1>11 DEF RunPanics
  <2>2. call'[t].result = "panic" /\ call'[t].turn = call[t].turn
        /\ \A u \in Threads : u # t => call'[u] = call[u]
    BY <1>e, <2>1 DEF Results
  <2>3. apc'[t] \in {"release", "record"} /\ \A u \in Threads : u # t => apc'[u] = apc[u]
    BY <1>11, <1>d DEF RunPanics
  <2>4. QED
    BY <1>a, <2>1, <2>2, <2>3
<1>12. ASSUME NEW t \in Threads, CommitHistory(t) PROVE SlotInv'
  <2>1. CASE External
    <3>1. Keeps(t, call[t].turn, call[t].basis)
      BY <1>12, <1>a, <2>1, AssignEffect
    <3>2. /\ apc[t] = "commit" /\ Goto(t, "commitIO") /\ pendingClear' = FALSE
          /\ UNCHANGED <<executing, sessClosed, pendingClose, closeAsked, turns, history>>
      BY <1>12, <2>1 DEF CommitHistory
    <3>3. apc'[t] = "commitIO" /\ \A u \in Threads : u # t => apc'[u] = apc[u]
      BY <1>d, <3>2
    <3>4. ExecutingKnown' /\ FlushDue' /\ TurnCurrent' /\ BasisCurrent'
      BY <1>a, <2>1, <3>1, <3>2, <3>3 DEF Keeps
    <3>5. Unwound'
      BY <1>a, <3>1, <3>2, <3>3 DEF Keeps
    <3>6. QED
      BY <3>4, <3>5
  <2>2. CASE ~External
    BY <1>12, <1>a, <1>e, <1>f, <2>2 DEF CommitHistory, AfterBody, Results
  <2>3. QED
    BY <2>1, <2>2
<1>13. ASSUME NEW t \in Threads, CommitStore(t) \/ CommitStoreFails(t) PROVE SlotInv'
  <2>1. External /\ apc[t] = "commitIO"
    BY <1>13, <1>a DEF CommitStore, CommitStoreFails
  <2>2. PICK r \in {"ok", "error"} : Answer(t, r)
    BY <1>13 DEF CommitStore, CommitStoreFails
  <2>3. call'[t].result = r /\ call'[t].turn = call[t].turn
        /\ \A u \in Threads : u # t => call'[u] = call[u]
    BY <1>e, <2>2 DEF Results
  <2>4. apc'[t] \in {"end", "record"} /\ \A u \in Threads : u # t => apc'[u] = apc[u]
    BY <1>13, <1>d DEF CommitStore, CommitStoreFails, AfterBody
  <2>5. UNCHANGED <<flags, turns, closeAsked>>
    BY <1>13 DEF CommitStore, CommitStoreFails
  <2>6. ExecutingKnown' /\ FlushDue' /\ TurnCurrent' /\ BasisCurrent'
    BY <1>a, <2>1, <2>3, <2>4, <2>5
  <2>7. Unwound'
    BY <1>a, <2>1, <2>3, <2>4, <2>5
  <2>8. QED
    BY <2>6, <2>7
<1>14. ASSUME NEW t \in Threads, RecordDone(t) PROVE SlotInv'
  <2>1. CASE call[t].result = "panic"
    <3>1. apc[t] = "record" /\ Goto(t, "release") /\ UNCHANGED <<flags, history, call, observers>>
      BY <1>14, <2>1 DEF RecordDone
    <3>2. MayPanic
      BY <1>a, <2>1
    <3>3. apc'[t] = "release" /\ \A u \in Threads : u # t => apc'[u] = apc[u]
      BY <1>d, <3>1
    <3>4. QED
      BY <1>a, <2>1, <3>1, <3>2, <3>3
  <2>2. CASE call[t].result # "panic"
    BY <1>14, <1>a, <1>f, <2>2 DEF RecordDone
  <2>3. QED
    BY <2>1, <2>2
<1>15. ASSUME NEW t \in Threads, EndExecution(t) PROVE SlotInv'
  <2>1. apc[t] = "end" /\ \A u \in Threads : u # t => ~Holds(apc[u])
    BY <1>15, <1>c DEF EndExecution, EndWith
  <2>2. /\ pendingClear' = (External /\ pendingClear)
        /\ sessClosed' = (sessClosed \/ pendingClose) /\ pendingClose' = FALSE /\ executing' = FALSE
        /\ UNCHANGED <<call, turns, closeAsked>>
    BY <1>15 DEF EndExecution, EndWith
  <2>3. /\ apc'[t] = IF call[t].result = "ok" THEN "release" ELSE "flush"
        /\ \A u \in Threads : u # t => apc'[u] = apc[u]
    BY <1>15, <1>d DEF EndExecution, EndWith
  <2>4. ExecutingKnown' /\ FlushDue' /\ Unwound'
    BY <1>a, <2>1, <2>2, <2>3
  <2>5. TurnCurrent' /\ BasisCurrent'
    BY <1>a, <2>1, <2>2, <2>3
  <2>6. QED
    BY <2>4, <2>5
<1>16. ASSUME NEW t \in Threads, FlushPendingClear(t) PROVE SlotInv'
  <2>1. apc[t] = "flush" /\ UNCHANGED <<executing, sessClosed, pendingClose, history, call, turns, closeAsked>>
    BY <1>16 DEF FlushPendingClear, FlushIf
  <2>2. pendingClear' = (pendingClear /\ ~(External /\ pendingClear /\ ~executing))
    BY <1>16 DEF FlushPendingClear, FlushIf
  <2>3. /\ apc'[t] = IF External /\ pendingClear /\ ~executing THEN "flushIO" ELSE "release"
        /\ \A u \in Threads : u # t => apc'[u] = apc[u]
    BY <1>16, <1>d DEF FlushPendingClear, FlushIf
  <2>4. ExecutingKnown' /\ FlushDue' /\ TurnCurrent' /\ BasisCurrent'
    BY <1>a, <2>1, <2>2, <2>3
  <2>5. Unwound'
    BY <1>a, <2>1, <2>3
  <2>6. QED
    BY <2>4, <2>5
<1>17. ASSUME NEW t \in Threads, NEW ok \in BOOLEAN, FlushStore(t, ok) \/ ClearStore(t, ok) PROVE SlotInv'
  <2>1. External /\ apc[t] \in {"flushIO", "clearIO"} /\ UNCHANGED <<flags, call, turns, closeAsked>>
    BY <1>17, <1>a DEF FlushStore, ClearStore
  <2>2. /\ apc'[t] = IF apc[t] = "flushIO" THEN "release" ELSE "idle"
        /\ \A u \in Threads : u # t => apc'[u] = apc[u]
    BY <1>17, <1>d DEF FlushStore, ClearStore
  <2>3. ExecutingKnown' /\ FlushDue' /\ TurnCurrent' /\ BasisCurrent'
    BY <1>a, <2>1, <2>2
  <2>4. Unwound'
    BY <1>a, <2>1, <2>2
  <2>5. QED
    BY <2>3, <2>4
<1>18. ASSUME NEW t \in Threads, ReleaseSlot(t) \/ ClearHistory(t) PROVE SlotInv'
  <2>1. CASE ReleaseSlot(t)
    BY <2>1, <1>a, <1>f DEF ReleaseSlot, PutToken
  <2>2. CASE ClearHistory(t) /\ executing
    BY <2>2, <1>a DEF ClearHistory
  <2>3. CASE ClearHistory(t) /\ ~executing
    <3>1. apc[t] = "idle" /\ \A u \in Threads : ~Executes(apc[u])
      BY <2>3, <1>a DEF ClearHistory, Calling
    <3>2. UNCHANGED <<executing, sessClosed, pendingClose, pendingClear, call, turns, closeAsked>>
      BY <2>3 DEF ClearHistory
    <3>3. /\ apc'[t] \in {"idle", "clearIO"} /\ (apc'[t] = "clearIO" => External)
          /\ \A u \in Threads : u # t => apc'[u] = apc[u]
      BY <2>3, <1>d, <3>1 DEF ClearHistory
    <3>4. QED
      BY <1>a, <2>3, <3>1, <3>2, <3>3
  <2>4. QED
    BY <1>18, <2>1, <2>2, <2>3
<1>19. CASE CloseSession
  BY <1>19, <1>a DEF CloseSession
<1>20. QED
  BY <1>1, <1>2, <1>3, <1>4, <1>5, <1>6, <1>7, <1>8, <1>9, <1>10, <1>11, <1>12, <1>13, <1>14,
     <1>15, <1>16, <1>17, <1>18, <1>19 DEF SessNext, Progress
-----------------------------------------------------------------------------
(* The inductive invariant holds throughout. *)
LEMMA SessInvariant == SessSpec => []SessInv
<1>1. SessInit => SessInv
  BY SessInitInv
<1>2. SessInv /\ [SessNext]_sessVars => SessInv'
  BY SessTypeStep, SlotStep, SlotInvStep DEF SessInv, SlotInv
<1>3. QED
  BY <1>1, <1>2, PTL DEF SessSpec

(* A session is type correct, and the history in the process never exceeds *)
(* MaxHistoryRounds.                                                       *)
THEOREM SessTypeCorrect == SessSpec => []SessTypeOK
<1>1. SessInv => SessTypeOK
  BY DEF SessInv
<1>2. QED
  BY SessInvariant, <1>1, PTL

(* Questions of one session are serialised and the token is never lost or  *)
(* doubled, for any number of goroutines, with panics, canceled waits and  *)
(* a HistoryStore that fails.                                              *)
THEOREM Serialised == SessSpec => []OneAtATime
<1>1. SessInv => OneAtATime
  BY DEF SessInv
<1>2. QED
  BY SessInvariant, <1>1, PTL

(* The callback flag is up exactly while a callback runs, however the      *)
(* callbacks and the questions around them end: only the holder of the     *)
(* token runs callbacks, so no other callback is under way when one ends.  *)
LEMMA FlagStep == SessInv /\ EmittingExact /\ [SessNext]_sessVars => EmittingExact'
<1> SUFFICES ASSUME SessInv, EmittingExact, [SessNext]_sessVars PROVE EmittingExact'
  OBVIOUS
<1> USE DEF flags
<1>a. apc \in [Threads -> Positions]
  BY DEF SessInv, SessTypeOK
<1>b. \A t, u \in Threads : Calling(apc[t]) /\ Holds(apc[u]) => t = u
  BY DEF SessInv, OneAtATime, Holders, Holds, Calling
<1>c. ASSUME NEW t \in Threads, NEW p, Goto(t, p), ~Calling(p), ~Calling(apc[t]), emitting' = emitting
      PROVE  EmittingExact'
  <2>1. \A u \in Threads : Calling(apc'[u]) <=> Calling(apc[u])
    BY <1>a, <1>c, GotoEffect
  <2>2. QED
    BY <1>c, <2>1 DEF EmittingExact
<1>d. ASSUME UNCHANGED <<apc, emitting>> PROVE EmittingExact'
  BY <1>d DEF EmittingExact
<1>1. CASE UNCHANGED sessVars
  BY <1>1, <1>d DEF sessVars
<1>2. ASSUME NEW t \in Threads, SessEnterCallback(t) PROVE EmittingExact'
  <2>1. emitting' = TRUE /\ Calling(apc'[t])
    BY <1>2, <1>a, GotoEffect DEF SessEnterCallback, Calling
  <2>2. QED
    BY <2>1 DEF EmittingExact
<1>3. ASSUME NEW t \in Threads, NEW ok \in BOOLEAN, SessLeaveCallback(t, ok) PROVE EmittingExact'
  <2>1. Calling(apc[t]) /\ emitting' = FALSE
    BY <1>3 DEF SessLeaveCallback, ReturnFrom
  <2>2. PICK p : Goto(t, p) /\ ~Calling(p)
    BY <1>3 DEF SessLeaveCallback, ReturnFrom, AfterBody, Calling
  <2>3. \A u \in Threads : u # t => ~Calling(apc[u])
    BY <1>b, <2>1 DEF Holds, Calling
  <2>4. \A u \in Threads : ~Calling(apc'[u])
    BY <1>a, <2>2, <2>3, GotoEffect
  <2>5. QED
    BY <2>1, <2>4 DEF EmittingExact
<1>4. ASSUME NEW t \in Threads,
             \/ \E kind \in Kinds : Enter(t, kind)
             \/ AgentAdmits(t) \/ AgentRefuses(t) \/ AcquireSlot(t) \/ AcquireCanceled(t) \/ Leave(t)
             \/ Progress(t)
      PROVE  EmittingExact'
  <2>1. PICK p : Goto(t, p) /\ ~Calling(p)
    BY <1>4 DEF Progress, Enter, AgentAdmits, AgentRefuses, AcquireSlot, AcquireCanceled, Leave, BeginExecution,
         FailEarly, LoadHistory, LoadFails, RunFails, RunSucceeds, RunPanics, CommitHistory, CommitStore,
         CommitStoreFails, RecordDone, FinishAnswer, EndExecution, EndWith, FlushPendingClear, FlushIf, FlushStore,
         ReleaseSlot, PutToken, AfterBody, Calling
  <2>2. ~Calling(apc[t]) /\ emitting' = emitting
    BY <1>4 DEF Progress, Enter, AgentAdmits, AgentRefuses, AcquireSlot, AcquireCanceled, Leave, BeginExecution,
         FailEarly, LoadHistory, LoadFails, RunFails, RunSucceeds, RunPanics, CommitHistory, CommitStore,
         CommitStoreFails, RecordDone, FinishAnswer, EndExecution, EndWith, FlushPendingClear, FlushIf, FlushStore,
         ReleaseSlot, PutToken, Calling
  <2>3. QED
    BY <1>c, <2>1, <2>2
<1>5. ASSUME NEW t \in Threads, ClearHistory(t) PROVE EmittingExact'
  <2>1. CASE executing
    BY <1>5, <1>d, <2>1 DEF ClearHistory
  <2>2. CASE ~executing
    <3>1. apc[t] = "idle" /\ emitting' = emitting /\ (apc' = apc \/ Goto(t, "clearIO"))
      BY <1>5, <2>2 DEF ClearHistory, Calling, SessInv, ExecutingKnown, Executes, Holds
    <3>2. QED
      BY <1>c, <1>d, <3>1 DEF Calling
  <2>3. QED
    BY <2>1, <2>2
<1>6. ASSUME NEW t \in Threads, NEW ok \in BOOLEAN, ClearStore(t, ok) PROVE EmittingExact'
  BY <1>6, <1>c DEF ClearStore, Calling
<1>7. CASE CloseSession
  BY <1>7, <1>d DEF CloseSession
<1>8. QED
  BY <1>1, <1>2, <1>3, <1>4, <1>5, <1>6, <1>7 DEF SessNext, Callback

(* A call of Ask is turned away as reentry only while a callback of the    *)
(* session runs, and always then: no panic of a callback, and none that    *)
(* unwinds past endExecution, leaves the flag up.                          *)
THEOREM FlagExact == SessSpec => []EmittingExact
<1>1. SessInit => EmittingExact
  BY DEF SessInit, EmittingExact, Calling
<1>2. SessInv /\ EmittingExact /\ [SessNext]_sessVars => EmittingExact'
  BY FlagStep
<1>3. QED
  BY SessInvariant, <1>1, <1>2, PTL DEF SessSpec

(* A question that failed never gives the token back with a clear of the   *)
(* history still waiting.                                                  *)
THEOREM FailureHonoursClear == SessSpec => []FailedTurnHonoursClear
<1>1. SessInv => FailedTurnHonoursClear
  BY DEF SessInv, FlushDue, FailedTurnHonoursClear
<1>2. QED
  BY SessInvariant, <1>1, PTL

(* Only BeginExecution counts a turn, and then nobody else executes. *)
LEMMA TurnsStep ==
  ASSUME SessInv, [SessNext]_sessVars, turns' # turns
  PROVE  \E t \in Threads : BeginExecution(t) /\ ~sessClosed /\ \A u \in Threads : ~Executes(apc[u])
<1>1. PICK t \in Threads : BeginExecution(t) /\ ~sessClosed
  BY DEF SessNext, Progress, Callback, sessVars, observers,
         Enter, AgentAdmits, AgentRefuses, AcquireSlot, AcquireCanceled, BeginExecution, FailEarly, LoadHistory,
         LoadFails, RunFails, RunSucceeds, RunPanics, CommitHistory, CommitStore, CommitStoreFails, RecordDone,
         FinishAnswer, EndExecution, EndWith, FlushPendingClear, FlushIf, FlushStore, ReleaseSlot, PutToken,
         SessEnterCallback, SessLeaveCallback, ReturnFrom, Leave, ClearHistory, ClearStore, CloseSession
<1>2. \A u \in Threads : ~Executes(apc[u])
  BY <1>1 DEF BeginExecution, SessInv, OneAtATime, Holders, Executes, Holds
<1>3. QED
  BY <1>1, <1>2

(* Without panics no question begins once Session.Close has returned. *)
THEOREM CloseEndsTurns ==
  ASSUME ~MayPanic
  PROVE  SessSpec => CloseIsFinal
<1>1. SessInv /\ [SessNext]_sessVars => [closeAsked => turns' = turns]_sessVars
  <2> SUFFICES ASSUME SessInv, [SessNext]_sessVars, closeAsked, turns' # turns
               PROVE  FALSE
    OBVIOUS
  <2>1. ~sessClosed /\ \A u \in Threads : ~Executes(apc[u])
    BY TurnsStep
  <2>2. ~executing
    BY <2>1 DEF SessInv, Unwound
  <2>3. QED
    BY <2>1, <2>2 DEF SessInv, ExecutingKnown
<1>2. QED
  BY SessInvariant, <1>1, PTL DEF SessSpec, CloseIsFinal
-----------------------------------------------------------------------------
(* The state of the Conversation stays as it is. *)
Same == UNCHANGED <<history, turns, executing, pendingClear, sessClosed, pendingClose>>

(* Such a step is invisible to the Conversation. *)
LEMMA SameStutters == Same => UNCHANGED Promise!convVars
BY DEF Same, Promise!convVars

(* Without panics and with the history in the process, a session           *)
(* implements the Conversation: beginExecution is Begin, endExecution is   *)
(* Finish, ClearHistory is Forget, Close is Shut, and all else, and every  *)
(* order in which goroutines do it, is invisible.                          *)
THEOREM SessionImplementsConversation ==
  ASSUME ~External, ~MayPanic
  PROVE  SessSpec => KeepsPromise
<1>1. SessInit => Promise!ConvInit
  BY DEF SessInit, Promise!ConvInit
<1>2. SessInv /\ [SessNext]_sessVars => [Promise!ConvNext]_Promise!convVars
  <2> SUFFICES ASSUME SessInv, [SessNext]_sessVars
               PROVE  Promise!ConvNext \/ UNCHANGED Promise!convVars
    OBVIOUS
  <2>a. SessTypeOK /\ ExecutingKnown /\ TurnCurrent /\ BasisCurrent /\ Unwound
    BY DEF SessInv
  <2> USE DEF flags, observers
  <2>1. CASE UNCHANGED sessVars
    BY <2>1, SameStutters DEF sessVars, Same
  <2>2. ASSUME NEW t \in Threads,
               \/ \E kind \in Kinds : Enter(t, kind)
               \/ AgentAdmits(t) \/ AgentRefuses(t) \/ AcquireSlot(t) \/ AcquireCanceled(t) \/ Leave(t)
        PROVE  UNCHANGED Promise!convVars
    BY <2>2, SameStutters DEF Enter, AgentAdmits, AgentRefuses, AcquireSlot, AcquireCanceled, Leave, Same
  <2>3. ASSUME NEW t \in Threads,
               \/ FailEarly(t) \/ LoadHistory(t) \/ LoadFails(t) \/ RunFails(t) \/ RunSucceeds(t) \/ RunPanics(t)
               \/ RecordDone(t) \/ (\E ok \in BOOLEAN : FinishAnswer(t, ok)) \/ Callback(t) \/ ReleaseSlot(t)
        PROVE  UNCHANGED Promise!convVars
    BY <2>3, SameStutters
       DEF FailEarly, LoadHistory, LoadFails, RunFails, RunSucceeds, RunPanics, RecordDone, FinishAnswer,
           Callback, SessEnterCallback, SessLeaveCallback, ReturnFrom, ReleaseSlot, PutToken, Same
  <2>4. ASSUME NEW t \in Threads, CommitHistory(t) \/ FlushPendingClear(t)
        PROVE  UNCHANGED Promise!convVars
    <3>1. pendingClear \in BOOLEAN
      BY <2>a DEF SessTypeOK
    <3>2. QED
      BY <2>4, <3>1, SameStutters DEF CommitHistory, FlushPendingClear, FlushIf, Same
  <2>5. ASSUME NEW t \in Threads,
               \/ CommitStore(t) \/ CommitStoreFails(t)
               \/ \E ok \in BOOLEAN : FlushStore(t, ok) \/ ClearStore(t, ok)
        PROVE  FALSE
    BY <2>5, <2>a DEF CommitStore, CommitStoreFails, FlushStore, ClearStore, BasisCurrent
  <2>6. ASSUME NEW t \in Threads, BeginExecution(t)
        PROVE  Promise!ConvNext \/ UNCHANGED Promise!convVars
    <3>1. CASE sessClosed
      BY <2>6, <3>1, SameStutters DEF BeginExecution, Same
    <3>2. CASE ~sessClosed
      <4>1. turns' # turns
        BY <2>6, <2>a, <3>2 DEF BeginExecution, SessTypeOK
      <4>2. ~executing /\ ~pendingClose
        BY <4>1, <2>a, TurnsStep DEF Unwound, ExecutingKnown
      <4>3. Promise!Begin
        BY <2>6, <3>2, <4>2 DEF BeginExecution, Promise!Begin
      <4>4. QED
        BY <4>3 DEF Promise!ConvNext
    <3>3. QED
      BY <3>1, <3>2
  <2>7. ASSUME NEW t \in Threads, EndExecution(t) PROVE Promise!ConvNext
    <3>1. executing /\ call[t].turn = turns /\ ~sessClosed
      BY <2>7, <2>a DEF EndExecution, EndWith, ExecutingKnown, TurnCurrent, Executes, Holds
    <3>2. call[t].result = "ok" => call[t].basis = LastId(history)
      BY <2>7, <2>a DEF EndExecution, EndWith, BasisCurrent, Bases, Executes, Holds
    <3>3. history' = IF pendingClear THEN <<>>
                     ELSE IF call[t].result = "ok"
                     THEN Promise!Window(Append(history, [id |-> turns, basis |-> Promise!Latest(history)]))
                     ELSE history
      BY <2>7, <3>1, <3>2
         DEF EndExecution, EndWith, Ended, TurnOf, Recent, LastId, Promise!Window, Promise!Latest
    <3>4. Promise!Finish(call[t].result = "ok")
      BY <2>7, <3>1, <3>3 DEF EndExecution, EndWith, Promise!Finish
    <3>5. QED
      BY <3>4 DEF Promise!ConvNext
  <2>8. ASSUME NEW t \in Threads, ClearHistory(t) PROVE Promise!ConvNext
    <3>1. Promise!Forget
      BY <2>8 DEF ClearHistory, Promise!Forget
    <3>2. QED
      BY <3>1 DEF Promise!ConvNext
  <2>9. CASE CloseSession
    <3>1. Promise!Shut
      BY <2>9, <2>a DEF CloseSession, Promise!Shut, ExecutingKnown
    <3>2. QED
      BY <3>1 DEF Promise!ConvNext
  <2>10. QED
    BY <2>1, <2>2, <2>3, <2>4, <2>5, <2>6, <2>7, <2>8, <2>9 DEF SessNext, Progress
<1>3. QED
  BY SessInvariant, <1>1, <1>2, PTL DEF SessSpec, KeepsPromise, Promise!ConvSpec
-----------------------------------------------------------------------------
(* The turns of a history, and that they are in their order. *)
Ids(h) == {h[i].id : i \in 1..Len(h)}
Ascending(h) == \A i, j \in 1..Len(h) : i < j => h[i].id < h[j].id

(* The turns answered since the last ClearHistory. *)
Due == {n \in answered : n > cleared}

(* The history is the most recent of them, in order, also while a question *)
(* executes, unless a clear waits for its end.  A clear that waits covers  *)
(* the question that executes, and only that is not answered yet.          *)
Recollected ==
  /\ Ascending(history)
  /\ KeptIds \subseteq Due
  /\ \A n \in Due \ KeptIds : \A m \in KeptIds : n < m
  /\ Len(history) = IF Cardinality(Due) > MaxRounds THEN MaxRounds ELSE Cardinality(Due)

HistoryInv ==
  /\ IsFiniteSet(answered)
  /\ \A n \in answered : n <= turns /\ (executing => n < turns)
  /\ cleared <= turns
  /\ executing /\ ~pendingClear => cleared < turns
  /\ pendingClear => executing /\ cleared = turns
  /\ ~pendingClear => Recollected

(* Appending a later turn to a history in order keeps the order, and drops *)
(* at most the first turn.                                                 *)
LEMMA RecentKeeps ==
  ASSUME NEW h \in Seq(Turn), NEW turn \in Turn, Ascending(h), Len(h) <= MaxRounds,
         \A i \in 1..Len(h) : h[i].id < turn.id,
         NEW g, g = Recent(Append(h, turn))
  PROVE  /\ Ascending(g)
         /\ Ids(g) \subseteq Ids(h) \cup {turn.id} /\ turn.id \in Ids(g)
         /\ \A n \in Ids(h) \ Ids(g) : \A m \in Ids(g) : n < m
         /\ Len(g) = IF Len(h) < MaxRounds THEN Len(h) + 1 ELSE MaxRounds
<1> DEFINE a == Append(h, turn)
<1>1. /\ Len(a) = Len(h) + 1 /\ a[Len(h) + 1] = turn /\ \A i \in 1..Len(h) : a[i] = h[i]
      /\ a \in Seq(Turn) /\ Len(h) \in Nat /\ MaxRounds \in Nat \ {0}
  BY SessionAssumption
<1>2. turn.id \in Nat /\ \A i \in 1..Len(h) : h[i].id \in Nat
  <2>1. \A i \in 1..Len(h) : h[i] \in Turn
    OBVIOUS
  <2>2. QED
    BY <2>1 DEF Turn
<1> HIDE DEF a
<1>3. Ascending(a) /\ \A i \in 1..Len(a) : a[i].id \in Nat
  <2>1. \A i \in 1..Len(a) : i \in 1..Len(h) \/ i = Len(h) + 1
    BY <1>1
  <2>2. ASSUME NEW i \in 1..Len(a), NEW j \in 1..Len(a), i < j PROVE a[i].id < a[j].id
    <3>1. i \in 1..Len(h) /\ a[i] = h[i]
      BY <1>1, <2>2
    <3>2. CASE j \in 1..Len(h)
      BY <1>1, <2>2, <3>1, <3>2 DEF Ascending
    <3>3. CASE j = Len(h) + 1
      BY <1>1, <3>1, <3>3
    <3>4. QED
      BY <2>1, <3>2, <3>3
  <2>3. \A i \in 1..Len(a) : a[i].id \in Nat
    BY <1>1, <1>2, <2>1
  <2>4. QED
    BY <2>2, <2>3 DEF Ascending
<1>4. CASE Len(h) < MaxRounds
  <2>1. g = a
    BY <1>1, <1>4 DEF Recent, a
  <2>2. Ids(h) \subseteq Ids(g) /\ turn.id \in Ids(g) /\ Ids(g) \subseteq Ids(h) \cup {turn.id}
    BY <1>1, <2>1 DEF Ids
  <2>3. QED
    BY <1>1, <1>3, <1>4, <2>1, <2>2
<1>5. CASE Len(h) = MaxRounds
  <2>1. g = SubSeq(a, 2, Len(h) + 1)
    BY <1>1, <1>5 DEF Recent, a
  <2>2. Len(g) = Len(h) /\ \A i \in 1..Len(h) : g[i] = a[i + 1]
    BY <1>1, <2>1
  <2>3. Ascending(g)
    <3>1. ASSUME NEW i \in 1..Len(g), NEW j \in 1..Len(g), i < j PROVE g[i].id < g[j].id
      <4>1. g[i] = a[i + 1] /\ g[j] = a[j + 1] /\ i + 1 \in 1..Len(a) /\ j + 1 \in 1..Len(a) /\ i + 1 < j + 1
        BY <1>1, <2>2, <3>1
      <4>2. QED
        BY <1>3, <4>1 DEF Ascending
    <3>2. QED
      BY <3>1 DEF Ascending
  <2>4. Ids(g) \subseteq Ids(h) \cup {turn.id}
    <3>1. ASSUME NEW i \in 1..Len(g) PROVE g[i].id \in Ids(h) \cup {turn.id}
      <4>1. g[i] = a[i + 1] /\ i \in 1..Len(h)
        BY <2>2, <3>1
      <4>2. CASE i + 1 \in 1..Len(h)
        <5>1. a[i + 1] = h[i + 1]
          BY <1>1, <4>2
        <5>2. QED
          BY <4>1, <4>2, <5>1 DEF Ids
      <4>3. CASE i + 1 = Len(h) + 1
        <5>1. g[i] = turn
          BY <1>1, <4>1, <4>3
        <5>2. QED
          BY <5>1
      <4>4. i + 1 \in 1..Len(h) \/ i + 1 = Len(h) + 1
        BY <1>1, <4>1
      <4>5. QED
        BY <4>2, <4>3, <4>4
    <3>2. QED
      BY <3>1 DEF Ids
  <2>5. turn.id \in Ids(g)
    <3>1. Len(h) \in 1..Len(h) /\ g[Len(h)] = turn
      BY <1>1, <1>5, <2>2
    <3>2. QED
      BY <2>2, <3>1 DEF Ids
  <2>6. ASSUME NEW n \in Ids(h) \ Ids(g), NEW m \in Ids(g) PROVE n < m
    <3>1. PICK i \in 1..Len(h) : n = h[i].id
      BY DEF Ids
    <3>2. PICK j \in 1..Len(h) : m = g[j].id
      BY <2>2 DEF Ids
    <3>3. i = 1
      <4>1. SUFFICES ASSUME i # 1 PROVE FALSE
        OBVIOUS
      <4>2. i - 1 \in 1..Len(h) /\ (i - 1) + 1 = i
        BY <1>1, <4>1
      <4>3. g[i - 1] = a[(i - 1) + 1]
        BY <2>2, <4>2
      <4>4. g[i - 1].id = n
        BY <1>1, <3>1, <4>2, <4>3
      <4>5. QED
        BY <2>2, <4>2, <4>4 DEF Ids
    <3>4. n = a[1].id /\ m = a[j + 1].id /\ 1 \in 1..Len(a) /\ j + 1 \in 1..Len(a) /\ 1 < j + 1
      BY <1>1, <2>2, <3>1, <3>2, <3>3
    <3>5. QED
      BY <1>3, <3>4 DEF Ascending
  <2>7. QED
    BY <1>1, <1>5, <2>2, <2>3, <2>4, <2>5, <2>6
<1>6. QED
  BY <1>1, <1>4, <1>5

(* The answer of the question that executes is appended. *)
LEMMA RecollectedStep ==
  ASSUME SessTypeOK, Recollected, IsFiniteSet(answered), \A n \in answered : n < turns, cleared < turns,
         NEW turn \in Turn, turn.id = turns, Len(history) <= MaxRounds,
         history' = Recent(Append(history, turn)), answered' = answered \cup {turns}, cleared' = cleared
  PROVE  Recollected' /\ IsFiniteSet(answered')
<1>1. /\ history \in Seq(Turn) /\ Len(history) \in Nat /\ MaxRounds \in Nat \ {0} /\ turns \in Nat /\ cleared \in Nat
      /\ answered \subseteq Nat
  BY SessionAssumption DEF SessTypeOK
<1>2. KeptIds = Ids(history) /\ KeptIds' = Ids(history')
  BY DEF KeptIds, Ids
<1>3. Due' = Due \cup {turns} /\ turns \notin Due /\ \A n \in Due : n < turns
  BY <1>1 DEF Due
<1>4. \A i \in 1..Len(history) : history[i].id < turn.id
  <2>1. \A i \in 1..Len(history) : history[i].id \in KeptIds
    BY DEF KeptIds
  <2>2. QED
    BY <1>3, <2>1 DEF Recollected
<1>5. /\ Ascending(history')
      /\ Ids(history') \subseteq Ids(history) \cup {turns} /\ turns \in Ids(history')
      /\ \A n \in Ids(history) \ Ids(history') : \A m \in Ids(history') : n < m
      /\ Len(history') = IF Len(history) < MaxRounds THEN Len(history) + 1 ELSE MaxRounds
  BY <1>1, <1>4, RecentKeeps DEF Recollected
<1>6. KeptIds' \subseteq Due'
  BY <1>2, <1>3, <1>5 DEF Recollected
<1>7. ASSUME NEW n \in Due' \ KeptIds', NEW m \in KeptIds' PROVE n < m
  <2>1. n \in Due /\ n < turns
    BY <1>2, <1>3, <1>5
  <2>2. CASE n \in KeptIds
    BY <1>2, <1>5, <1>7, <2>2
  <2>3. CASE n \notin KeptIds /\ m \in KeptIds
    BY <2>1, <2>3 DEF Recollected
  <2>4. CASE m = turns
    BY <2>1, <2>4
  <2>5. QED
    BY <1>2, <1>5, <2>2, <2>3, <2>4
<1>8. IsFiniteSet(Due) /\ Cardinality(Due) \in Nat /\ Cardinality(Due') = Cardinality(Due) + 1
  <2>1. IsFiniteSet(Due)
    BY FS_Subset DEF Due
  <2>2. QED
    BY <1>3, <2>1, FS_AddElement, FS_CardinalityType
<1>9. Len(history') = IF Cardinality(Due') > MaxRounds THEN MaxRounds ELSE Cardinality(Due')
  BY <1>1, <1>5, <1>8 DEF Recollected
<1>10. IsFiniteSet(answered')
  BY FS_AddElement
<1>11. QED
  BY <1>5, <1>6, <1>7, <1>9, <1>10 DEF Recollected

(* Nothing is due, and nothing is kept. *)
Forgotten == history = <<>> /\ Due = {}

(* That is as it should be. *)
LEMMA RecollectedNothing == Forgotten => Recollected
<1> SUFFICES ASSUME history = <<>>, Due = {} PROVE Recollected
  BY DEF Forgotten
<1>1. KeptIds = {}
  BY DEF KeptIds
<1>2. Cardinality(Due) = 0
  BY FS_EmptySet
<1>3. QED
  BY <1>1, <1>2, SessionAssumption DEF Recollected, Ascending

(* The history stays the recent answers. *)
LEMMA HistoryStep ==
  ASSUME ~External, ~MayPanic, SessInv, HistoryInv, [SessNext]_sessVars
  PROVE  HistoryInv'
<1>a. SessTypeOK /\ ExecutingKnown /\ TurnCurrent /\ BasisCurrent /\ Unwound
      /\ turns \in Nat /\ cleared \in Nat /\ answered \subseteq Nat
      /\ executing \in BOOLEAN /\ pendingClear \in BOOLEAN
  BY DEF SessInv, SessTypeOK
<1>b. ASSUME UNCHANGED <<history, answered, cleared, turns, executing, pendingClear>>
      PROVE  HistoryInv'
  BY <1>b DEF HistoryInv, Recollected, KeptIds, Due
<1> USE DEF flags, observers
<1>1. CASE UNCHANGED sessVars
  BY <1>1, <1>b DEF sessVars
<1>2. ASSUME NEW t \in Threads,
             \/ \E kind \in Kinds : Enter(t, kind)
             \/ AgentAdmits(t) \/ AgentRefuses(t) \/ AcquireSlot(t) \/ AcquireCanceled(t) \/ Leave(t)
      PROVE  HistoryInv'
  BY <1>2, <1>b DEF Enter, AgentAdmits, AgentRefuses, AcquireSlot, AcquireCanceled, Leave
<1>3. ASSUME NEW t \in Threads,
             \/ FailEarly(t) \/ LoadHistory(t) \/ LoadFails(t) \/ RunFails(t) \/ RunSucceeds(t) \/ RunPanics(t)
             \/ RecordDone(t) \/ (\E ok \in BOOLEAN : FinishAnswer(t, ok)) \/ Callback(t) \/ ReleaseSlot(t)
      PROVE  HistoryInv'
  BY <1>3, <1>b
     DEF FailEarly, LoadHistory, LoadFails, RunFails, RunSucceeds, RunPanics, RecordDone, FinishAnswer,
         Callback, SessEnterCallback, SessLeaveCallback, ReturnFrom, ReleaseSlot, PutToken
<1>4. ASSUME NEW t \in Threads, CommitHistory(t) \/ FlushPendingClear(t) PROVE HistoryInv'
  BY <1>4, <1>a, <1>b DEF CommitHistory, FlushPendingClear, FlushIf
<1>5. ASSUME NEW t \in Threads,
             \/ CommitStore(t) \/ CommitStoreFails(t)
             \/ \E ok \in BOOLEAN : FlushStore(t, ok) \/ ClearStore(t, ok)
      PROVE  FALSE
  BY <1>5, <1>a DEF CommitStore, CommitStoreFails, FlushStore, ClearStore, BasisCurrent
<1>6. ASSUME NEW t \in Threads, BeginExecution(t) PROVE HistoryInv'
  <2>1. CASE sessClosed
    BY <1>6, <1>b, <2>1 DEF BeginExecution
  <2>2. CASE ~sessClosed
    <3>1. turns' = turns + 1 /\ executing' = TRUE /\ UNCHANGED <<history, answered, cleared, pendingClear>>
      BY <1>6, <2>2 DEF BeginExecution
    <3>2. ~executing
      BY <1>a, <3>1, TurnsStep DEF Unwound
    <3>3. Recollected'
      BY <3>1, <3>2 DEF HistoryInv, Recollected, KeptIds, Due
    <3>4. QED
      BY <1>a, <3>1, <3>2, <3>3 DEF HistoryInv
  <2>3. QED
    BY <2>1, <2>2
<1>7. ASSUME NEW t \in Threads, EndExecution(t) PROVE HistoryInv'
  <2>1. executing /\ call[t].turn = turns /\ TurnOf(t) \in Turn
    BY <1>7, <1>a, TurnOfType DEF EndExecution, EndWith, ExecutingKnown, TurnCurrent, Executes, Holds
  <2>2. /\ history' = Ended(t) /\ pendingClear' = FALSE /\ executing' = FALSE /\ UNCHANGED <<turns, cleared>>
        /\ answered' = answered \cup (IF call[t].result = "ok" THEN {turns} ELSE {})
    BY <1>7, <2>1 DEF EndExecution, EndWith
  <2>3. Recollected' /\ IsFiniteSet(answered')
    <3>1. IsFiniteSet(answered) /\ \A n \in answered : n < turns
      BY <2>1 DEF HistoryInv
    <3>2. CASE pendingClear
      <4>1. history' = <<>> /\ cleared' = turns
        BY <2>2, <3>2 DEF Ended, HistoryInv
      <4>2. answered \subseteq Nat /\ turns \in Nat
        BY <1>a DEF SessTypeOK
      <4>3. Due' = {}
        <5>1. \A n \in answered' : ~(n > turns)
          <6>1. \A n \in answered : ~(n > turns)
            BY <3>1, <4>2
          <6>2. answered' \subseteq answered \cup {turns}
            BY <2>2
          <6>3. ~(turns > turns)
            BY <4>2
          <6>4. QED
            BY <6>1, <6>2, <6>3
        <5>2. QED
          BY <4>1, <5>1 DEF Due
      <4>4. Recollected'
        <5>1. Forgotten'
          BY <4>1, <4>3 DEF Forgotten
        <5>2. QED
          BY <5>1, RecollectedNothing, PTL
      <4>5. IsFiniteSet(answered')
        BY <2>2, <3>1, FS_AddElement
      <4>6. QED
        BY <4>4, <4>5
    <3>3. CASE ~pendingClear /\ call[t].result = "ok"
      <4>1. Recollected /\ cleared < turns
        BY <2>1, <3>3 DEF HistoryInv
      <4>2. history' = Recent(Append(history, TurnOf(t))) /\ answered' = answered \cup {turns}
        BY <2>2, <3>3 DEF Ended
      <4>3. TurnOf(t).id = turns
        BY <2>1 DEF TurnOf
      <4>4. Len(history) <= MaxRounds
        BY <1>a DEF SessTypeOK
      <4>5. QED
        BY <1>a, <2>1, <2>2, <3>1, <4>1, <4>2, <4>3, <4>4, RecollectedStep
    <3>4. CASE ~pendingClear /\ call[t].result # "ok"
      <4>1. history' = history /\ answered' = answered
        BY <2>2, <3>4 DEF Ended
      <4>2. QED
        BY <2>2, <3>1, <3>4, <4>1 DEF HistoryInv, Recollected, KeptIds, Due
    <3>5. QED
      BY <3>2, <3>3, <3>4
  <2>4. QED
    BY <1>a, <2>1, <2>2, <2>3 DEF HistoryInv
<1>8. ASSUME NEW t \in Threads, ClearHistory(t) PROVE HistoryInv'
  <2>1. cleared' = turns /\ UNCHANGED <<turns, answered, executing>>
    BY <1>8 DEF ClearHistory
  <2>2. CASE executing
    BY <1>8, <1>a, <2>1, <2>2 DEF ClearHistory, HistoryInv
  <2>3. CASE ~executing
    <3>1. history' = <<>> /\ UNCHANGED pendingClear
      BY <1>8, <2>3 DEF ClearHistory
    <3>2. Due' = {}
      <4>1. \A n \in answered' : ~(n > cleared')
        BY <1>a, <2>1 DEF HistoryInv
      <4>2. QED
        BY <4>1 DEF Due
    <3>3. Recollected'
      <4>1. Forgotten'
        BY <3>1, <3>2 DEF Forgotten
      <4>2. QED
        BY <4>1, RecollectedNothing, PTL
    <3>4. QED
      BY <1>a, <2>1, <2>3, <3>1, <3>3 DEF HistoryInv
  <2>4. QED
    BY <2>2, <2>3
<1>9. CASE CloseSession
  BY <1>9, <1>b DEF CloseSession
<1>10. QED
  BY <1>1, <1>2, <1>3, <1>4, <1>5, <1>6, <1>7, <1>8, <1>9 DEF SessNext, Progress

(* Without panics, and with the history in the process, what a session     *)
(* remembers between questions is exactly its last MaxHistoryRounds        *)
(* answers since the last ClearHistory, whoever asked, failed, cleared and *)
(* was canceled in between.                                                *)
THEOREM HistoryRecent ==
  ASSUME ~External, ~MayPanic
  PROVE  SessSpec => []HistoryIsRecentAnswers
<1>1. SessInit => HistoryInv
  <2> SUFFICES ASSUME SessInit PROVE HistoryInv
    OBVIOUS
  <2>1. IsFiniteSet(answered) /\ Due = {}
    BY FS_EmptySet DEF SessInit, Due
  <2>2. Recollected
    BY <2>1, RecollectedNothing DEF SessInit, Forgotten
  <2>3. QED
    BY <2>1, <2>2 DEF SessInit, HistoryInv
<1>2. SessInv /\ HistoryInv /\ [SessNext]_sessVars => HistoryInv'
  BY HistoryStep
<1>3. SessSpec => []HistoryInv
  BY <1>1, <1>2, SessInvariant, PTL DEF SessSpec
<1>4. HistoryInv => HistoryIsRecentAnswers
  BY DEF HistoryInv, HistoryIsRecentAnswers, Recollected, Due
<1>5. QED
  BY <1>3, <1>4, PTL
-----------------------------------------------------------------------------
(* The agent: theorems of Spec     .                                       *)

(* Where a goroutine is in the session says where it is in the gate: it is *)
(* counted from the wait for the token to the release of the token.        *)
Linked ==
  \A t \in Threads :
    /\ apc[t] \in {"idle", "clearIO"} => opc[t] = "out"
    /\ apc[t] = "entered" => opc[t] \in {"out", "checked", "cleared"}
    /\ apc[t] = "admitted" \/ (Holds(apc[t]) /\ ~Calling(apc[t])) => opc[t] = "in"
    /\ Calling(apc[t]) => opc[t] = "callback"
    /\ apc[t] = "exit" => opc[t] \in {"out", "done"}

(* Close has detached the sessions; it has closed them, too. *)
SessionsTaken == ~storeOpen \/ \E t \in Threads : cpc[t] \in {"snapshot", "release"}
SessionsShut == ~storeOpen \/ \E t \in Threads : cpc[t] = "release"

(* The registry belongs to GetSession until Close takes it; from then on   *)
(* nobody is between the check under sessionsMu and the lookup.            *)
RegistryOwned ==
  /\ ~SessionsTaken => registry \in {"absent", "live"}
  /\ SessionsTaken => sessionsMuFree /\ registry \in {"taken", "nil"}
  /\ SessionsShut => registry = "nil"

(* Only a user, or Close after the drain, closes the session. *)
ClosedByWhom == sessClosed \/ pendingClose => userClosed \/ SessionsShut

(* The inductive invariant, beside those of the gate and of the session. *)
AgentInv ==
  /\ RegTypeOK
  /\ Linked
  /\ RegistryOwned
  /\ ClosedByWhom
  /\ AdmittedNotCutShort

(* A session that was handed out is in the hands of the registry, or of    *)
(* Close, or is closed.                                                    *)
HandedOut ==
  \A t \in Threads : handle[t] = "live" => registry \in {"live", "taken"} \/ sessClosed
-----------------------------------------------------------------------------
(* A step of the agent is a step of its gate, or does not concern it. *)
LEMMA GateStep == [Next]_vars => [GateNext]_gateVars
<1> SUFFICES ASSUME [Next]_vars PROVE GateNext \/ UNCHANGED gateVars
  OBVIOUS
<1>1. CASE UNCHANGED vars
  BY <1>1 DEF vars
<1>2. ASSUME NEW t \in Threads,
             \/ GetSession(t) \/ GetStep(t) \/ AskStep(t) \/ AskReturnUncounted(t)
             \/ (\E kind \in Kinds : Ask(t, kind)) \/ (\E ok \in BOOLEAN : UserClearStore(t, ok))
             \/ UserClears(t) \/ UserClosesSession(t)
      PROVE  UNCHANGED gateVars
  BY <1>2 DEF GetSession, GetStep, GetSessionLocked, GetSessionLookup, AskStep, AskReturnUncounted,
              Ask, UserClearStore, UserClears, UserClosesSession
<1>3. ASSUME NEW t \in Threads,
             EnterStep(t) \/ AskEnterCallback(t) \/ AskComplete(t) \/ AskReturn(t)
               \/ \E ok \in BOOLEAN : AskLeaveCallback(t, ok)
      PROVE  GateNext
  BY <1>3 DEF EnterStep, AskCheck, AskAdmitted, AskRefused, AskEnterCallback, AskComplete, AskReturn,
              AskLeaveCallback, GateNext, BeginStep
<1>4. ASSUME NEW t \in Threads, Close(t) \/ AgentCloseStep(t)
      PROVE  GateNext
  BY <1>4 DEF Close, AgentCloseStep, CloseWait, CloseTakeSessions, CloseEachSession, CloseRelease,
              GateNext, CloseStep
<1>5. QED
  BY <1>1, <1>2, <1>3, <1>4 DEF Next, LeaveStep

(* A step of the agent is a step of its session, or does not concern it. *)
LEMMA SessionStep == [Next]_vars => [SessNext]_sessVars
<1> SUFFICES ASSUME [Next]_vars PROVE SessNext \/ UNCHANGED sessVars
  OBVIOUS
<1>1. CASE UNCHANGED vars
  BY <1>1 DEF vars
<1>2. ASSUME NEW t \in Threads,
             \/ GetSession(t) \/ GetStep(t) \/ AskCheck(t) \/ Close(t)
             \/ CloseWait(t) \/ CloseTakeSessions(t) \/ CloseRelease(t)
      PROVE  UNCHANGED sessVars
  BY <1>2 DEF GetSession, GetStep, GetSessionLocked, GetSessionLookup, AskCheck, Close, CloseWait,
              CloseTakeSessions, CloseRelease
<1>3. ASSUME NEW t \in Threads,
             (\E kind \in Kinds : Ask(t, kind)) \/ AskAdmitted(t) \/ AskRefused(t) \/ AskStep(t)
               \/ AskComplete(t) \/ LeaveStep(t)
      PROVE  SessNext
  BY <1>3 DEF Ask, AskAdmitted, AskRefused, AskStep, AskComplete, LeaveStep, AskReturn,
              AskReturnUncounted, SessNext, Progress
<1>4. ASSUME NEW t \in Threads,
             AskEnterCallback(t) \/ UserClears(t) \/ UserClosesSession(t)
               \/ \E ok \in BOOLEAN : AskLeaveCallback(t, ok) \/ UserClearStore(t, ok)
      PROVE  SessNext
  BY <1>4 DEF AskEnterCallback, UserClears, UserClosesSession, AskLeaveCallback, UserClearStore,
              SessNext, Callback
<1>5. ASSUME NEW t \in Threads, CloseEachSession(t)
      PROVE  SessNext \/ UNCHANGED sessVars
  BY <1>5 DEF CloseEachSession, SessNext
<1>6. QED
  BY <1>1, <1>2, <1>3, <1>4, <1>5 DEF Next, EnterStep, AgentCloseStep

(* Composed with the sessions, the gate behaves as it does alone. *)
LEMMA AgentImplementsGate == Spec => GateSpec
<1>1. Init => GateInit
  BY DEF Init
<1>2. QED
  BY <1>1, GateStep, PTL DEF Spec, GateSpec

(* Composed with the gate, the session behaves as it does alone. *)
LEMMA AgentImplementsSession == Spec => SessSpec
<1>1. Init => SessInit
  BY DEF Init
<1>2. QED
  BY <1>1, SessionStep, PTL DEF Spec, SessSpec

(* What is proved of the gate and of the session holds of the agent. *)
LEMMA PartsInvariant == Spec => [](GateInv /\ SessInv)
<1>1. Spec => []GateInv
  BY AgentImplementsGate, GateInvariant
<1>2. Spec => []SessInv
  BY AgentImplementsSession, SessInvariant
<1>3. QED
  BY <1>1, <1>2, PTL

(* While the store is open, the agent answers; when Close has released it, *)
(* no goroutine is inside a question, whatever it does.                    *)
THEOREM AgentStoreSafe == Spec => []StoreOutlivesOperations
BY AgentImplementsGate, StoreSafe

(* Inside the agent, too, one question of a session executes at a time.    *)
THEOREM AgentSerialises == Spec => []OneAtATime
BY AgentImplementsSession, Serialised
-----------------------------------------------------------------------------
(* A new agent satisfies the invariant. *)
LEMMA AgentInitInv == Init => AgentInv /\ HandedOut
<1> SUFFICES ASSUME Init PROVE AgentInv /\ HandedOut
  OBVIOUS
<1> USE DEF Init, GateInit, SessInit
<1>1. RegTypeOK
  BY DEF RegTypeOK, Registries, GetPositions, Handles
<1>2. Linked
  BY DEF Linked, Holds, Calling
<1>3. RegistryOwned /\ ClosedByWhom
  BY DEF RegistryOwned, ClosedByWhom, SessionsTaken, SessionsShut
<1>4. AdmittedNotCutShort /\ HandedOut
  BY DEF AdmittedNotCutShort, NewCall, HandedOut
<1>5. QED
  BY <1>1, <1>2, <1>3, <1>4 DEF AgentInv

(* Type correctness of the registry. *)
LEMMA RegTypeStep == RegTypeOK /\ [Next]_vars => RegTypeOK'
<1> SUFFICES ASSUME RegTypeOK, [Next]_vars PROVE RegTypeOK'
  OBVIOUS
<1> USE DEF RegTypeOK, Registries, GetPositions, Handles, At
<1>1. CASE UNCHANGED regVars
  BY <1>1 DEF regVars
<1>2. ASSUME NEW t \in Threads, GetSession(t) \/ GetStep(t) PROVE RegTypeOK'
  BY <1>2 DEF GetSession, GetStep, GetSessionLocked, GetSessionLookup
<1>3. ASSUME NEW t \in Threads, UserClosesSession(t) PROVE RegTypeOK'
  BY <1>3 DEF UserClosesSession
<1>4. ASSUME NEW t \in Threads, CloseTakeSessions(t) \/ CloseEachSession(t) PROVE RegTypeOK'
  BY <1>4 DEF CloseTakeSessions, CloseEachSession
<1>5. ASSUME NEW t \in Threads,
             \/ (\E kind \in Kinds : Ask(t, kind)) \/ EnterStep(t) \/ AskStep(t) \/ AskEnterCallback(t)
             \/ AskComplete(t) \/ LeaveStep(t) \/ (\E ok \in BOOLEAN : AskLeaveCallback(t, ok) \/ UserClearStore(t, ok))
             \/ UserClears(t) \/ Close(t) \/ CloseWait(t) \/ CloseRelease(t)
      PROVE  UNCHANGED regVars
  BY <1>5 DEF Ask, EnterStep, AskCheck, AskAdmitted, AskRefused, AskStep, AskEnterCallback, AskComplete, LeaveStep,
              AskReturn, AskReturnUncounted, AskLeaveCallback, UserClearStore, UserClears, Close, CloseWait, CloseRelease
<1>6. QED
  BY <1>1, <1>2, <1>3, <1>4, <1>5 DEF Next, AgentCloseStep, vars, regVars

(* A goroutine moves through the session and through the gate in step. *)
LEMMA LinkedStep ==
  Linked /\ SessInv /\ GateTypeOK /\ [Next]_vars => Linked'
<1> SUFFICES ASSUME Linked, SessInv, GateTypeOK, [Next]_vars PROVE Linked'
  OBVIOUS
<1>a. apc \in [Threads -> Positions] /\ opc \in [Threads -> OpPositions]
  BY DEF SessInv, SessTypeOK, GateTypeOK
<1> USE DEF Linked, Holds, Calling
<1>b. \A t \in Threads : \A p : Goto(t, p) => apc'[t] = p /\ \A u \in Threads : u # t => apc'[u] = apc[u]
  BY <1>a, GotoEffect
<1>c. \A t \in Threads : \A p : opc' = At(opc, t, p) => opc'[t] = p /\ \A u \in Threads : u # t => opc'[u] = opc[u]
  BY <1>a DEF At
<1>1. CASE UNCHANGED <<apc, opc>>
  BY <1>1
<1>2. ASSUME NEW t \in Threads,
             \/ GetSession(t) \/ GetStep(t) \/ UserClosesSession(t) \/ Close(t) \/ AgentCloseStep(t)
      PROVE  UNCHANGED <<apc, opc>>
  BY <1>2 DEF GetSession, GetStep, GetSessionLocked, GetSessionLookup, UserClosesSession, CloseSession, Close,
              CloseBegin, AgentCloseStep, CloseWait, CloseSwap, CloseDrain, CloseTakeSessions, CloseSnapshot,
              CloseEachSession, CloseSessions, CloseRelease, CloseStore, gateVars, sessVars
<1>3. ASSUME NEW t \in Threads, \E kind \in Kinds : Ask(t, kind) PROVE Linked'
  BY <1>3, <1>b DEF Ask, Enter, Outside, gateVars
<1>4. ASSUME NEW t \in Threads, AskCheck(t) PROVE Linked'
  BY <1>4, <1>c DEF AskCheck, CheckOpen, RecheckOpen, sessVars
<1>5. ASSUME NEW t \in Threads, AskAdmitted(t) PROVE Linked'
  BY <1>5, <1>b, <1>c DEF AskAdmitted, AgentAdmits, Admit
<1>6. ASSUME NEW t \in Threads, AskRefused(t) PROVE Linked'
  BY <1>6, <1>b, <1>c DEF AskRefused, AgentRefuses, Refuse
<1>7. ASSUME NEW t \in Threads, AskStep(t) PROVE Linked'
  <2>1. UNCHANGED opc
    BY <1>7 DEF AskStep, gateVars
  <2>2. PICK p : /\ Goto(t, p) /\ p \notin {"idle", "clearIO", "entered", "exit", "callback", "recordCallback", "admitted"}
                 /\ apc[t] \notin {"idle", "clearIO", "entered", "exit", "callback", "recordCallback"}
    BY <1>7 DEF AskStep, Progress, AfterBody, AcquireSlot, BeginExecution, FailEarly, LoadHistory, LoadFails, RunFails,
                RunSucceeds, RunPanics, CommitHistory, CommitStore, CommitStoreFails, RecordDone, FinishAnswer,
                EndExecution, EndWith, FlushPendingClear, FlushIf, FlushStore, ReleaseSlot, PutToken
  <2>3. QED
    BY <2>1, <2>2, <1>a, <1>b DEF Positions
<1>8. ASSUME NEW t \in Threads, AskEnterCallback(t) PROVE Linked'
  BY <1>8, <1>b, <1>c DEF AskEnterCallback, SessEnterCallback, EnterCallback
<1>9. ASSUME NEW t \in Threads, NEW ok \in BOOLEAN, AskLeaveCallback(t, ok) PROVE Linked'
  <2>1. PICK p : Goto(t, p) /\ p \in {"record", "run", "end"}
    BY <1>9 DEF AskLeaveCallback, SessLeaveCallback, ReturnFrom, AfterBody
  <2>2. QED
    BY <1>9, <2>1, <1>b, <1>c DEF AskLeaveCallback, LeaveCallback
<1>10. ASSUME NEW t \in Threads, AskComplete(t) PROVE Linked'
  BY <1>10, <1>b, <1>c DEF AskComplete, ReleaseSlot, PutToken, AcquireCanceled, Complete
<1>11. ASSUME NEW t \in Threads, LeaveStep(t) PROVE Linked'
  BY <1>11, <1>b, <1>c DEF LeaveStep, AskReturn, AskReturnUncounted, Leave, EndOperation, gateVars
<1>12. ASSUME NEW t \in Threads, NEW ok \in BOOLEAN, UserClearStore(t, ok) PROVE Linked'
  BY <1>12, <1>b DEF UserClearStore, ClearStore, gateVars
<1>13. ASSUME NEW t \in Threads, UserClears(t) PROVE Linked'
  <2>1. executing \/ ~Executes(apc[t])
    BY DEF SessInv, ExecutingKnown
  <2>2. UNCHANGED apc \/ (apc[t] = "idle" /\ Goto(t, "clearIO"))
    BY <1>13, <2>1 DEF UserClears, ClearHistory, Executes
  <2>3. QED
    BY <1>13, <2>2, <1>b DEF UserClears, gateVars
<1>14. QED
  BY <1>1, <1>2, <1>3, <1>4, <1>5, <1>6, <1>7, <1>8, <1>9, <1>10, <1>11, <1>12, <1>13
     DEF Next, EnterStep, LeaveStep, vars, gateVars, sessVars

(* Once the sessions are taken they stay taken, and only Close takes them; *)
(* the same for their closing.                                             *)
LEMMA TakenStep ==
  ASSUME GateTypeOK, [Next]_vars
  PROVE  /\ SessionsTaken => SessionsTaken'
         /\ SessionsShut => SessionsShut'
         /\ ~SessionsTaken /\ SessionsTaken' => \E t \in Threads : CloseTakeSessions(t)
         /\ ~SessionsShut /\ SessionsShut' => \E t \in Threads : CloseEachSession(t)
<1> DEFINE Kept == /\ SessionsTaken <=> SessionsTaken'
                   /\ SessionsShut <=> SessionsShut'
<1> USE DEF SessionsTaken, SessionsShut
<1>a. cpc \in [Threads -> ClosePositions]
  BY DEF GateTypeOK
<1>1. CASE UNCHANGED <<cpc, storeOpen>>
  BY <1>1
<1>2. ASSUME NEW t \in Threads, NEW p \in {"none", "swap", "draining", "waiting", "drained"},
             cpc[t] \in {"none", "swap", "draining", "waiting"}, cpc' = At(cpc, t, p), UNCHANGED storeOpen
      PROVE  Kept
  BY <1>2, <1>a DEF At
<1>3. ASSUME NEW t \in Threads, AskReturn(t) PROVE Kept
  <2>1. UNCHANGED storeOpen /\ (UNCHANGED cpc \/ Broadcast)
    BY <1>3 DEF AskReturn, EndOperation
  <2>2. QED
    BY <2>1, <1>a DEF Broadcast
<1>4. ASSUME NEW t \in Threads, Close(t) \/ CloseWait(t) PROVE Kept
  <2>1. \E p \in {"none", "swap", "draining", "waiting", "drained"} :
          /\ cpc[t] \in {"none", "swap", "draining", "waiting"}
          /\ cpc' = At(cpc, t, p) /\ UNCHANGED storeOpen
    BY <1>4 DEF Close, CloseBegin, MayCallClose, CloseWait, CloseSwap, CloseDrain
  <2>2. QED
    BY <2>1, <1>2
<1>5. ASSUME NEW t \in Threads, CloseTakeSessions(t)
      PROVE  SessionsTaken' /\ (SessionsShut <=> SessionsShut')
  BY <1>5, <1>a DEF CloseTakeSessions, CloseSnapshot, At
<1>6. ASSUME NEW t \in Threads, CloseEachSession(t)
      PROVE  SessionsTaken /\ SessionsTaken' /\ SessionsShut'
  BY <1>6, <1>a DEF CloseEachSession, CloseSessions, At
<1>7. ASSUME NEW t \in Threads, CloseRelease(t)
      PROVE  SessionsTaken /\ SessionsShut /\ SessionsTaken' /\ SessionsShut'
  BY <1>7, <1>a DEF CloseRelease, CloseStore, At
<1>8. ASSUME NEW t \in Threads,
             \/ GetSession(t) \/ GetStep(t) \/ (\E kind \in Kinds : Ask(t, kind)) \/ EnterStep(t) \/ AskStep(t)
             \/ AskEnterCallback(t) \/ AskComplete(t) \/ AskReturnUncounted(t)
             \/ (\E ok \in BOOLEAN : AskLeaveCallback(t, ok) \/ UserClearStore(t, ok))
             \/ UserClears(t) \/ UserClosesSession(t)
      PROVE  UNCHANGED <<cpc, storeOpen>>
  BY <1>8 DEF GetSession, GetStep, GetSessionLocked, GetSessionLookup, Ask, EnterStep, AskCheck, CheckOpen,
              RecheckOpen, AskAdmitted, Admit, AskRefused, Refuse, AskStep, AskEnterCallback, EnterCallback,
              AskComplete, Complete, AskReturnUncounted, AskLeaveCallback, LeaveCallback, UserClearStore, UserClears,
              UserClosesSession, gateVars
<1>9. QED
  BY <1>1, <1>3, <1>4, <1>5, <1>6, <1>7, <1>8 DEF Next, LeaveStep, AgentCloseStep, vars, gateVars

(* From the end of the drain on nobody is admitted, and closed is set. *)
LEMMA TakenMeansDrained ==
  ASSUME GateInv
  PROVE  /\ SessionsTaken => closed /\ Admitted = {}
         /\ SessionsShut => SessionsTaken
         /\ \A t \in Threads : cpc[t] = "drained" => ~SessionsTaken
         /\ \A t \in Threads : cpc[t] = "snapshot" => ~SessionsShut
<1> USE DEF SessionsTaken, SessionsShut, GateInv, OneCloser, Closing, StoreOutlivesOperations
<1>1. SessionsTaken => closed /\ Admitted = {}
  OBVIOUS
<1>2. SessionsShut => SessionsTaken
  OBVIOUS
<1>3. \A t \in Threads : cpc[t] = "drained" => ~SessionsTaken
  OBVIOUS
<1>4. \A t \in Threads : cpc[t] = "snapshot" => ~SessionsShut
  OBVIOUS
<1>5. QED
  BY <1>1, <1>2, <1>3, <1>4

(* The registry is handed over once, between two lookups. *)
LEMMA RegistryStep ==
  RegTypeOK /\ RegistryOwned /\ GateInv /\ [Next]_vars => RegistryOwned'
<1> SUFFICES ASSUME RegTypeOK, RegistryOwned, GateInv, [Next]_vars PROVE RegistryOwned'
  OBVIOUS
<1>a. GateTypeOK /\ gpc \in [Threads -> GetPositions]
  BY DEF GateInv, RegTypeOK
<1> USE DEF RegistryOwned, sessionsMuFree, At
<1>1. ASSUME UNCHANGED registry, sessionsMuFree => sessionsMuFree',
             ~(\E t \in Threads : CloseTakeSessions(t) \/ CloseEachSession(t))
      PROVE  RegistryOwned'
  BY <1>a, <1>1, TakenStep
<1>2. ASSUME NEW t \in Threads, GetSession(t) PROVE RegistryOwned'
  <2>1. UNCHANGED registry /\ (sessionsMuFree => sessionsMuFree') /\ UNCHANGED gateVars
    BY <1>a, <1>2 DEF GetSession
  <2>2. QED
    BY <2>1 DEF SessionsTaken, SessionsShut, gateVars
<1>3. ASSUME NEW t \in Threads, GetSessionLocked(t) PROVE RegistryOwned'
  <2>1. UNCHANGED registry /\ UNCHANGED gateVars
    BY <1>3 DEF GetSessionLocked
  <2>2. SessionsTaken => sessionsMuFree'
    BY <1>a, <1>3, TakenMeansDrained DEF GetSessionLocked
  <2>3. QED
    BY <2>1, <2>2 DEF SessionsTaken, SessionsShut, gateVars
<1>4. ASSUME NEW t \in Threads, GetSessionLookup(t) PROVE RegistryOwned'
  <2>1. ~SessionsTaken /\ ~SessionsShut
    BY <1>4, TakenMeansDrained DEF GetSessionLookup
  <2>2. registry' = "live" /\ UNCHANGED gateVars
    BY <1>4, <2>1 DEF GetSessionLookup
  <2>3. QED
    BY <2>1, <2>2 DEF SessionsTaken, SessionsShut, gateVars
<1>5. ASSUME NEW t \in Threads, CloseTakeSessions(t) PROVE RegistryOwned'
  <2>1. SessionsTaken' /\ ~SessionsShut'
    BY <1>a, <1>5, TakenMeansDrained
       DEF CloseTakeSessions, CloseSnapshot, SessionsTaken, SessionsShut, GateTypeOK
  <2>2. registry' \in {"taken", "nil"} /\ sessionsMuFree'
    BY <1>5 DEF CloseTakeSessions
  <2>3. QED
    BY <2>1, <2>2
<1>6. ASSUME NEW t \in Threads, CloseEachSession(t) PROVE RegistryOwned'
  <2>1. SessionsTaken
    BY <1>6 DEF CloseEachSession, CloseSessions, SessionsTaken
  <2>2. registry' = "nil" /\ sessionsMuFree'
    BY <1>6, <2>1 DEF CloseEachSession
  <2>3. QED
    BY <1>a, <2>1, <2>2, TakenStep
<1>7. ASSUME NEW t \in Threads,
             \/ (\E kind \in Kinds : Ask(t, kind)) \/ EnterStep(t) \/ AskStep(t) \/ AskEnterCallback(t)
             \/ AskComplete(t) \/ LeaveStep(t) \/ (\E ok \in BOOLEAN : AskLeaveCallback(t, ok) \/ UserClearStore(t, ok))
             \/ UserClears(t) \/ UserClosesSession(t) \/ Close(t) \/ CloseWait(t) \/ CloseRelease(t)
      PROVE  UNCHANGED <<registry, gpc>>
  BY <1>7 DEF Ask, EnterStep, AskCheck, AskAdmitted, AskRefused, AskStep, AskEnterCallback, AskComplete, LeaveStep,
              AskReturn, AskReturnUncounted, AskLeaveCallback, UserClearStore, UserClears, UserClosesSession, Close,
              CloseWait, CloseRelease, regVars
<1>8. CASE \E t \in Threads : CloseTakeSessions(t) \/ CloseEachSession(t)
  BY <1>5, <1>6, <1>8
<1>9. CASE UNCHANGED vars
  BY <1>9 DEF vars, gateVars, regVars, SessionsTaken, SessionsShut
<1>10. QED
  BY <1>1, <1>2, <1>3, <1>4, <1>7, <1>8, <1>9 DEF Next, GetStep, AgentCloseStep

(* ErrSessionClosed is the answer of beginExecution to a question that has *)
(* got the token and finds the session closed; no other step gives it.     *)
LEMMA ToldClosed ==
  ASSUME SessTypeOK, [SessNext]_sessVars,
         NEW u \in Threads, call[u].result # "closed", call'[u].result = "closed"
  PROVE  BeginExecution(u) /\ sessClosed
<1> DEFINE Told == call'[u].result = "closed"
<1>a. call \in [Threads -> Calls]
  BY DEF SessTypeOK
<1>b. \A t \in Threads : \A r \in Results : Answer(t, r) /\ r # "closed" => ~Told
  BY <1>a, AnswerEffect
<1>c. \A t \in Threads : \A n, b : Keeps(t, n, b) => ~Told
  BY DEF Keeps
<1>1. ASSUME NEW t \in Threads, NEW kind \in Kinds, Enter(t, kind) PROVE ~Told
  <2>1. CASE emitting
    BY <1>1, <2>1, <1>b DEF Enter, Results
  <2>2. CASE ~emitting
    BY <1>1, <2>2, <1>c, AssignEffect
  <2>3. QED
    BY <2>1, <2>2
<1>2. ASSUME NEW t \in Threads,
             \/ AgentRefuses(t) \/ AcquireCanceled(t) \/ FailEarly(t) \/ RunFails(t) \/ RunPanics(t)
             \/ CommitStore(t) \/ CommitStoreFails(t)
      PROVE  ~Told
  BY <1>2, <1>b DEF AgentRefuses, AcquireCanceled, FailEarly, RunFails, RunPanics, CommitStore,
                    CommitStoreFails, Results
<1>3. ASSUME NEW t \in Threads, BeginExecution(t), Told PROVE t = u /\ sessClosed
  <2>1. sessClosed
    BY <1>3, <1>c, AssignEffect
  <2>2. Answer(t, "closed")
    BY <1>3, <2>1 DEF BeginExecution
  <2>3. t = u
    BY <2>2, <1>a, AnswerEffect DEF Results
  <2>4. QED
    BY <2>1, <2>3
<1>4. ASSUME NEW t \in Threads, LoadHistory(t) PROVE ~Told
  BY <1>4, <1>c, AssignEffect
<1>5. ASSUME NEW t \in Threads, LoadFails(t) PROVE ~Told
  BY <1>5, <1>b DEF LoadFails, Results
<1>6. ASSUME NEW t \in Threads, CommitHistory(t) PROVE ~Told
  <2>1. CASE External
    BY <1>6, <2>1, <1>c, AssignEffect
  <2>2. CASE ~External
    BY <1>6, <2>2, <1>b DEF CommitHistory, Results
  <2>3. QED
    BY <2>1, <2>2
<1>7. ASSUME NEW t \in Threads, NEW ok \in BOOLEAN, SessLeaveCallback(t, ok) \/ FinishAnswer(t, ok) PROVE ~Told
  <2>1. UNCHANGED call \/ Answer(t, "error")
    BY <1>7 DEF SessLeaveCallback, ReturnFrom, FinishAnswer
  <2>2. QED
    BY <2>1, <1>b DEF Results
<1>8. ASSUME NEW t \in Threads, Leave(t) PROVE ~Told
  BY <1>8, <1>a DEF Leave, NewCall
<1>9. ASSUME UNCHANGED call PROVE ~Told
  BY <1>9
<1>10. ASSUME NEW t \in Threads,
              \/ AgentAdmits(t) \/ AcquireSlot(t) \/ RunSucceeds(t) \/ RecordDone(t) \/ EndExecution(t)
              \/ FlushPendingClear(t) \/ (\E ok \in BOOLEAN : FlushStore(t, ok) \/ ClearStore(t, ok))
              \/ ReleaseSlot(t) \/ SessEnterCallback(t) \/ ClearHistory(t)
       PROVE  UNCHANGED call
  BY <1>10 DEF AgentAdmits, AcquireSlot, RunSucceeds, RecordDone, EndExecution, EndWith, FlushPendingClear, FlushIf,
               FlushStore, ClearStore, ReleaseSlot, PutToken, SessEnterCallback, ClearHistory
<1>11. CloseSession => UNCHANGED call
  BY DEF CloseSession
<1>12. UNCHANGED sessVars => UNCHANGED call
  BY DEF sessVars
<1>13. QED
  BY <1>1, <1>2, <1>3, <1>4, <1>5, <1>6, <1>7, <1>8, <1>9, <1>10, <1>11, <1>12 DEF SessNext, Progress, Callback

(* What closes a session, and when: endExecution carries out a pending     *)
(* Close and asks for none.                                                *)
LEMMA ClosedByWhomStep ==
  ClosedByWhom /\ GateInv /\ [Next]_vars => ClosedByWhom'
<1> SUFFICES ASSUME ClosedByWhom, GateInv, [Next]_vars PROVE ClosedByWhom'
  OBVIOUS
<1>a. GateTypeOK
  BY DEF GateInv
<1> USE DEF ClosedByWhom, flags, sessVars, regVars
<1>1. ASSUME sessClosed' \/ pendingClose' => sessClosed \/ pendingClose, userClosed => userClosed'
      PROVE  ClosedByWhom'
  BY <1>1, <1>a, TakenStep
<1>2. ASSUME NEW t \in Threads, UserClosesSession(t) PROVE ClosedByWhom'
  BY <1>2 DEF UserClosesSession
<1>3. ASSUME NEW t \in Threads, CloseEachSession(t) PROVE ClosedByWhom'
  <2>1. SessionsShut'
    BY <1>3, <1>a DEF CloseEachSession, CloseSessions, SessionsShut, At, GateTypeOK
  <2>2. QED
    BY <2>1
<1>4. ASSUME NEW t \in Threads, AskStep(t)
      PROVE  (sessClosed' \/ pendingClose' => sessClosed \/ pendingClose) /\ UNCHANGED userClosed
  <2>1. CASE EndExecution(t)
    <3>1. sessClosed' = (sessClosed \/ pendingClose) /\ pendingClose' = FALSE
      BY <2>1 DEF EndExecution, EndWith
    <3>2. UNCHANGED userClosed
      BY <1>4 DEF AskStep
    <3>3. QED
      BY <3>1, <3>2
  <2>2. CASE ~EndExecution(t)
    BY <1>4, <2>2 DEF AskStep, Progress, AcquireSlot, BeginExecution, FailEarly, LoadHistory, LoadFails, RunFails,
                      RunSucceeds, RunPanics, CommitHistory, CommitStore, CommitStoreFails, RecordDone,
                      FinishAnswer, FlushPendingClear, FlushIf, FlushStore, ReleaseSlot, PutToken
  <2>3. QED
    BY <2>1, <2>2
<1>5. ASSUME NEW t \in Threads,
             \/ GetSession(t) \/ GetStep(t) \/ (\E kind \in Kinds : Ask(t, kind)) \/ EnterStep(t)
             \/ AskEnterCallback(t) \/ AskComplete(t) \/ LeaveStep(t) \/ UserClears(t)
             \/ (\E ok \in BOOLEAN : AskLeaveCallback(t, ok) \/ UserClearStore(t, ok))
             \/ Close(t) \/ CloseWait(t) \/ CloseTakeSessions(t) \/ CloseRelease(t)
      PROVE  UNCHANGED <<sessClosed, pendingClose, userClosed>>
  BY <1>5 DEF GetSession, GetStep, GetSessionLocked, GetSessionLookup, Ask, Enter, EnterStep, AskCheck, AskAdmitted,
              AgentAdmits, AskRefused, AgentRefuses, AskEnterCallback, SessEnterCallback, AskComplete, ReleaseSlot,
              PutToken, AcquireCanceled, LeaveStep, AskReturn, AskReturnUncounted, Leave, UserClears, ClearHistory,
              AskLeaveCallback, SessLeaveCallback, ReturnFrom, UserClearStore, ClearStore, Close, CloseWait,
              CloseTakeSessions, CloseRelease
<1>6. QED
  BY <1>1, <1>2, <1>3, <1>4, <1>5 DEF Next, AgentCloseStep, vars

(* A question that reaches beginExecution is counted by the gate, so Close *)
(* has closed no session yet: if it finds its session closed, a user did.  *)
LEMMA AdmittedStep ==
  AgentInv /\ GateInv /\ SessInv /\ [Next]_vars => AdmittedNotCutShort'
<1> SUFFICES ASSUME AgentInv, GateInv, SessInv, [Next]_vars, NEW u \in Threads, call'[u].result = "closed"
             PROVE  userClosed'
  BY DEF AdmittedNotCutShort
<1>a. SessTypeOK /\ [SessNext]_sessVars
  BY SessionStep DEF SessInv
<1>1. userClosed => userClosed'
  BY DEF Next, GetSession, GetStep, GetSessionLocked, GetSessionLookup, Ask, EnterStep, AskCheck, AskAdmitted, AskRefused,
         AskStep, AskEnterCallback, AskComplete, LeaveStep, AskReturn, AskReturnUncounted, AskLeaveCallback,
         UserClearStore, UserClears, UserClosesSession, Close, AgentCloseStep, CloseWait, CloseTakeSessions,
         CloseEachSession, CloseRelease, vars, regVars
<1>2. CASE call[u].result = "closed"
  BY <1>1, <1>2 DEF AgentInv, AdmittedNotCutShort
<1>3. CASE call[u].result # "closed"
  <2>1. apc[u] = "slot" /\ sessClosed
    BY <1>a, <1>3, ToldClosed DEF BeginExecution
  <2>2. opc[u] = "in"
    BY <2>1 DEF AgentInv, Linked, Holds, Calling
  <2>3. Admitted # {}
    BY <2>2 DEF Admitted
  <2>4. ~SessionsShut
    BY <2>3, TakenMeansDrained
  <2>5. userClosed
    BY <2>1, <2>4 DEF AgentInv, ClosedByWhom
  <2>6. QED
    BY <2>5, <1>1
<1>4. QED
  BY <1>2, <1>3

(* The inductive invariant of the agent holds throughout. *)
LEMMA AgentInvariant == Spec => []AgentInv
<1>1. Init => AgentInv
  BY AgentInitInv
<1>2. AgentInv /\ GateInv /\ SessInv /\ [Next]_vars => AgentInv'
  BY RegTypeStep, LinkedStep, RegistryStep, ClosedByWhomStep, AdmittedStep DEF AgentInv, GateInv
<1>3. QED
  BY <1>1, <1>2, PartsInvariant, PTL DEF Spec

(* Agent.Close cuts no admitted question short, with panics or without:    *)
(* whoever is told ErrSessionClosed has a user to thank for it.            *)
THEOREM AdmittedRunsOn == Spec => []AdmittedNotCutShort
<1>1. AgentInv => AdmittedNotCutShort
  BY DEF AgentInv
<1>2. QED
  BY AgentInvariant, <1>1, PTL

(* The registry and the positions of GetSession are well typed, and        *)
(* GetSession never writes to the nil map Close has left behind.           *)
THEOREM RegistryNeverNilWritten == Spec => [](RegTypeOK /\ registry # "panic")
<1>1. AgentInv => RegTypeOK /\ registry # "panic"
  BY DEF AgentInv, RegistryOwned
<1>2. QED
  BY AgentInvariant, <1>1, PTL

(* Once the gate is drained, no goroutine is inside a question. *)
LEMMA DrainedMeansIdle ==
  ASSUME Linked, GateInv, SessInv, SessionsTaken
  PROVE  Holders = {} /\ (~MayPanic => ~executing)
<1>1. \A t \in Threads : opc[t] \notin {"in", "callback"}
  BY TakenMeansDrained DEF Admitted
<1>2. Holders = {}
  BY <1>1 DEF Linked, Holders, Holds, Calling
<1>3. ~MayPanic => ~executing
  BY <1>2 DEF SessInv, Unwound, Holders, Executes
<1>4. QED
  BY <1>2, <1>3

(* Without panics a session that was handed out is not forgotten: Close    *)
(* takes it from the registry, and closes what it has taken.               *)
LEMMA HandedOutStep ==
  ASSUME ~MayPanic
  PROVE  HandedOut /\ AgentInv /\ GateInv /\ SessInv /\ [Next]_vars => HandedOut'
<1> SUFFICES ASSUME HandedOut, AgentInv, GateInv, SessInv, [Next]_vars PROVE HandedOut'
  OBVIOUS
<1>a. RegTypeOK /\ Linked /\ RegistryOwned
  BY DEF AgentInv
<1> USE DEF HandedOut, At, RegTypeOK, flags, sessVars, regVars
<1>1. ASSUME UNCHANGED <<registry, handle>>, sessClosed => sessClosed' PROVE HandedOut'
  BY <1>1
<1>2. ASSUME NEW t \in Threads, GetSession(t) \/ GetSessionLocked(t) PROVE HandedOut'
  <2>1. UNCHANGED registry /\ UNCHANGED sessClosed
    BY <1>2 DEF GetSession, GetSessionLocked
  <2>2. UNCHANGED handle \/ handle' = At(handle, t, "detached")
    BY <1>2 DEF GetSession, GetSessionLocked
  <2>3. QED
    BY <1>a, <2>1, <2>2
<1>3. ASSUME NEW t \in Threads, GetSessionLookup(t) PROVE HandedOut'
  <2>1. ~SessionsTaken
    BY <1>a, <1>3 DEF GetSessionLookup, RegistryOwned, sessionsMuFree
  <2>2. registry' = "live"
    BY <1>a, <1>3, <2>1 DEF GetSessionLookup, RegistryOwned
  <2>3. QED
    BY <2>2
<1>4. ASSUME NEW t \in Threads, CloseTakeSessions(t) PROVE HandedOut'
  <2>1. ~SessionsTaken
    BY <1>4, TakenMeansDrained DEF CloseTakeSessions, CloseSnapshot
  <2>2. QED
    BY <1>a, <1>4, <2>1 DEF CloseTakeSessions, RegistryOwned
<1>5. ASSUME NEW t \in Threads, CloseEachSession(t) PROVE HandedOut'
  <2>1. SessionsTaken
    BY <1>5 DEF CloseEachSession, CloseSessions, SessionsTaken
  <2>2. ~executing /\ registry \in {"taken", "nil"}
    BY <1>a, <2>1, DrainedMeansIdle DEF RegistryOwned
  <2>3. CASE registry = "taken"
    BY <1>5, <2>2, <2>3 DEF CloseEachSession, CloseSession
  <2>4. CASE registry = "nil"
    BY <1>5, <2>4 DEF CloseEachSession
  <2>5. QED
    BY <2>2, <2>3, <2>4
<1>6. ASSUME NEW t \in Threads, AskStep(t) PROVE UNCHANGED <<registry, handle>> /\ (sessClosed => sessClosed')
  <2>1. UNCHANGED <<registry, handle>>
    BY <1>6 DEF AskStep
  <2>2. CASE EndExecution(t)
    BY <2>1, <2>2 DEF EndExecution, EndWith
  <2>3. CASE ~EndExecution(t)
    BY <1>6, <2>1, <2>3
       DEF AskStep, Progress, AcquireSlot, BeginExecution, FailEarly, LoadHistory, LoadFails, RunFails, RunSucceeds,
           RunPanics, CommitHistory, CommitStore, CommitStoreFails, RecordDone, FinishAnswer, FlushPendingClear,
           FlushIf, FlushStore, ReleaseSlot, PutToken
  <2>4. QED
    BY <2>2, <2>3
<1>7. ASSUME NEW t \in Threads,
             \/ (\E kind \in Kinds : Ask(t, kind)) \/ EnterStep(t) \/ AskEnterCallback(t) \/ AskComplete(t)
             \/ LeaveStep(t) \/ UserClears(t)
             \/ (\E ok \in BOOLEAN : AskLeaveCallback(t, ok) \/ UserClearStore(t, ok))
             \/ Close(t) \/ CloseWait(t) \/ CloseRelease(t)
      PROVE  UNCHANGED <<registry, handle, sessClosed>>
  BY <1>7 DEF Ask, Enter, EnterStep, AskCheck, AskAdmitted, AgentAdmits, AskRefused, AgentRefuses, AskEnterCallback,
              SessEnterCallback, AskComplete, ReleaseSlot, PutToken, AcquireCanceled, LeaveStep, AskReturn,
              AskReturnUncounted, Leave, UserClears, ClearHistory, AskLeaveCallback, SessLeaveCallback, ReturnFrom,
              UserClearStore, ClearStore, Close, CloseWait, CloseRelease
<1>8. ASSUME NEW t \in Threads, UserClosesSession(t)
      PROVE  UNCHANGED <<registry, handle>> /\ (sessClosed => sessClosed')
  BY <1>8 DEF UserClosesSession, CloseSession
<1>9. QED
  BY <1>1, <1>2, <1>3, <1>4, <1>5, <1>6, <1>7, <1>8 DEF Next, GetStep, AgentCloseStep, vars

(* Without panics the store is released only when nobody executes a        *)
(* question, the registry is gone and every session that was ever handed   *)
(* out is closed.                                                          *)
THEOREM AgentClosedForGood ==
  ASSUME ~MayPanic
  PROVE  Spec => []ClosedForGood
<1>1. Init => HandedOut
  BY AgentInitInv
<1>2. HandedOut /\ AgentInv /\ GateInv /\ SessInv /\ [Next]_vars => HandedOut'
  BY HandedOutStep
<1>3. HandedOut /\ AgentInv /\ GateInv /\ SessInv => ClosedForGood
  <2> SUFFICES ASSUME HandedOut, AgentInv, GateInv, SessInv, ~storeOpen
               PROVE  /\ Holders = {} /\ registry = "nil"
                      /\ \A t \in Threads : handle[t] = "live" => sessClosed
    BY DEF ClosedForGood
  <2>1. SessionsShut /\ SessionsTaken
    BY DEF SessionsShut, SessionsTaken
  <2>2. Holders = {}
    BY <2>1, DrainedMeansIdle DEF AgentInv
  <2>3. registry = "nil"
    BY <2>1 DEF AgentInv, RegistryOwned
  <2>4. QED
    BY <2>2, <2>3 DEF HandedOut
<1>4. QED
  BY <1>1, <1>2, <1>3, AgentInvariant, PartsInvariant, PTL DEF Spec
==============================================================================
