-------------------------------- MODULE Agent --------------------------------
(***************************************************************************)
(* An Agent with a registered Session: the composition of AgentGate and    *)
(* Session with the session registry (GetSession and Close of agent.go).   *)
(* A question is an operation of the gate from beginOperation to           *)
(* endOperation; its callbacks count in callbackDepth; Close shuts the     *)
(* gate, drains it, detaches and closes the sessions, then the store.      *)
(*                                                                         *)
(* One session id is modelled: sessions share nothing but the gate, and    *)
(* operations that are not questions (AddKnowledge and the like) are       *)
(* operations of AgentGate alone.                                          *)
(***************************************************************************)
EXTENDS AgentGate, Session

VARIABLES
  registry,    \* Agent.sessions: has it the session, was it taken, is it nil
  gpc,         \* position of each goroutine in GetSession
  handle,      \* the session each goroutine has got
  userClosed   \* observer: a user of the session has called Session.Close

regVars == <<registry, gpc, handle, userClosed>>
vars == <<gateVars, sessVars, regVars>>

(* "taken": Close has the session in its local slice and has set the map   *)
(* to nil.  "panic": a goroutine has written to the nil map.               *)
Registries == {"absent", "live", "taken", "nil", "panic"}

(* "locked" holds sessionsMu after the second isClosed() was false. *)
GetPositions == {"none", "checked", "locked"}

(* "detached": a fresh Session with closed = true, in no registry. *)
Handles == {"none", "live", "detached"}

RegTypeOK ==
  /\ registry \in Registries
  /\ gpc \in [Threads -> GetPositions]
  /\ handle \in [Threads -> Handles]
  /\ userClosed \in BOOLEAN

AgentTypeOK == GateTypeOK /\ SessTypeOK /\ RegTypeOK

Init ==
  /\ GateInit /\ SessInit
  /\ registry = "absent"
  /\ gpc = [t \in Threads |-> "none"]
  /\ handle = [t \in Threads |-> "none"]
  /\ userClosed = FALSE

(* The goroutine is in no call of the agent or of the session. *)
Outside(t) == apc[t] = "idle" /\ opc[t] = "out" /\ cpc[t] = "none" /\ gpc[t] = "none"

(* The goroutine runs user code: outside, or in a callback it was called   *)
(* back from.                                                              *)
InUserCode(t) == cpc[t] = "none" /\ (Outside(t) \/ Calling(apc[t]))

sessionsMuFree == \A t \in Threads : gpc[t] # "locked"
-----------------------------------------------------------------------------
(* GetSession: a check before the lock, the same check under sessionsMu,   *)
(* then the lookup.                                                        *)
GetSession(t) ==
  /\ Outside(t)
  /\ IF closed THEN handle' = At(handle, t, "detached") /\ UNCHANGED gpc
               ELSE gpc' = At(gpc, t, "checked") /\ UNCHANGED handle
  /\ UNCHANGED <<gateVars, sessVars, registry, userClosed>>

GetSessionLocked(t) ==
  /\ gpc[t] = "checked"
  /\ sessionsMuFree
  /\ IF closed THEN handle' = At(handle, t, "detached") /\ gpc' = At(gpc, t, "none")
               ELSE gpc' = At(gpc, t, "locked") /\ UNCHANGED handle
  /\ UNCHANGED <<gateVars, sessVars, registry, userClosed>>

GetSessionLookup(t) ==
  /\ gpc[t] = "locked"
  /\ registry' = IF registry \in {"absent", "live"} THEN "live" ELSE "panic"
  /\ handle' = At(handle, t, "live")
  /\ gpc' = At(gpc, t, "none")
  /\ UNCHANGED <<gateVars, sessVars, userClosed>>
-----------------------------------------------------------------------------
(* A question on the live session.  On a detached one beginOperation       *)
(* answers ErrAgentClosed, which changes nothing.                          *)
Ask(t, kind) ==
  /\ Outside(t)
  /\ handle[t] = "live"
  /\ Enter(t, kind)
  /\ UNCHANGED <<gateVars, regVars>>

AskCheck(t) ==
  /\ apc[t] = "entered"
  /\ CheckOpen(t) \/ RecheckOpen(t)
  /\ UNCHANGED <<sessVars, regVars>>

AskAdmitted(t) == AgentAdmits(t) /\ Admit(t) /\ UNCHANGED regVars

AskRefused(t) == AgentRefuses(t) /\ Refuse(t) /\ UNCHANGED regVars

(* The steps of an admitted question that leave the gate alone. *)
AskStep(t) ==
  /\ AcquireSlot(t) \/ (Progress(t) /\ apc[t] # "release")
  /\ UNCHANGED <<gateVars, regVars>>

AskEnterCallback(t) == SessEnterCallback(t) /\ EnterCallback(t) /\ UNCHANGED regVars

AskLeaveCallback(t, ok) ==
  SessLeaveCallback(t, ok) /\ LeaveCallback(t) /\ UNCHANGED regVars

(* The deferred functions run: the token is given back, then endOperation. *)
AskComplete(t) ==
  /\ ReleaseSlot(t) \/ AcquireCanceled(t)
  /\ Complete(t)
  /\ UNCHANGED regVars

AskReturn(t) == Leave(t) /\ EndOperation(t) /\ UNCHANGED regVars

(* A question that was turned away before it was counted. *)
AskReturnUncounted(t) ==
  Leave(t) /\ opc[t] = "out" /\ UNCHANGED <<gateVars, regVars>>
-----------------------------------------------------------------------------
UserClears(t) ==
  /\ InUserCode(t)
  /\ handle[t] = "live"
  /\ ClearHistory(t)
  /\ UNCHANGED <<gateVars, regVars>>

UserClearStore(t, ok) == ClearStore(t, ok) /\ UNCHANGED <<gateVars, regVars>>

UserClosesSession(t) ==
  /\ InUserCode(t)
  /\ handle[t] = "live"
  /\ CloseSession
  /\ userClosed' = TRUE
  /\ UNCHANGED <<gateVars, registry, gpc, handle>>
-----------------------------------------------------------------------------
(* Agent.Close. *)
Close(t) == InUserCode(t) /\ CloseBegin(t) /\ UNCHANGED <<sessVars, regVars>>

(* Mutant: the session is closed before the drain. *)
CloseWaitEager(t) ==
  /\ \/ CloseSwap(t) /\ IF registry = "live" THEN CloseSession ELSE UNCHANGED sessVars
     \/ CloseDrain(t) /\ UNCHANGED sessVars
  /\ UNCHANGED regVars

CloseWait(t) == (CloseSwap(t) \/ CloseDrain(t)) /\ UNCHANGED <<sessVars, regVars>>

CloseTakeSessions(t) ==
  /\ sessionsMuFree
  /\ CloseSnapshot(t)
  /\ registry' = IF registry = "live" THEN "taken" ELSE "nil"
  /\ UNCHANGED <<sessVars, gpc, handle, userClosed>>

(* Mutant: the sessions are detached and not closed. *)
CloseNoSession(t) ==
  /\ CloseSessions(t)
  /\ registry' = "nil"
  /\ UNCHANGED <<sessVars, gpc, handle, userClosed>>

CloseEachSession(t) ==
  /\ CloseSessions(t)
  /\ registry' = "nil"
  /\ IF registry = "taken" THEN CloseSession ELSE UNCHANGED sessVars
  /\ UNCHANGED <<gpc, handle, userClosed>>

CloseRelease(t) == CloseStore(t) /\ UNCHANGED <<sessVars, regVars>>
-----------------------------------------------------------------------------
GetStep(t) == GetSessionLocked(t) \/ GetSessionLookup(t)
EnterStep(t) == AskCheck(t) \/ AskAdmitted(t) \/ AskRefused(t)
LeaveStep(t) == AskReturn(t) \/ AskReturnUncounted(t)
AgentCloseStep(t) ==
  CloseWait(t) \/ CloseTakeSessions(t) \/ CloseEachSession(t) \/ CloseRelease(t)

Next ==
  \E t \in Threads :
    \/ GetSession(t) \/ GetStep(t)
    \/ \E kind \in Kinds : Ask(t, kind)
    \/ EnterStep(t) \/ AskStep(t) \/ AskEnterCallback(t) \/ AskComplete(t) \/ LeaveStep(t)
    \/ \E ok \in BOOLEAN : AskLeaveCallback(t, ok) \/ UserClearStore(t, ok)
    \/ UserClears(t) \/ UserClosesSession(t)
    \/ Close(t) \/ AgentCloseStep(t)

Spec == Init /\ [][Next]_vars

(* What a goroutine does next inside a call, callbacks aside. *)
InternalStep(t) ==
  \/ GetStep(t) \/ EnterStep(t) \/ AskStep(t) \/ LeaveStep(t)
  \/ apc[t] = "release" /\ AskComplete(t)
  \/ \E ok \in BOOLEAN : UserClearStore(t, ok)
  \/ AgentCloseStep(t)

(* As in Session: locks (sync.Mutex does not starve its waiters) and the   *)
(* token are handed out fairly, a question runs finitely many callbacks    *)
(* (tool calls and provider attempts are capped, its context expires),     *)
(* callbacks return.  Nobody has to start anything.                        *)
Fairness ==
  \A t \in Threads :
    /\ SF_vars(InternalStep(t))
    /\ WF_vars(\E ok \in BOOLEAN : AskLeaveCallback(t, ok))

FairSpec == Spec /\ Fairness
-----------------------------------------------------------------------------
(* Agent.Close never cuts an admitted question short: a question that was  *)
(* let in is told ErrSessionClosed only if a user closed the session.      *)
(* (TestCloseDoesNotForceErrSessionClosedForAdmittedAsk tries one order.)  *)
AdmittedNotCutShort ==
  \A t \in Threads : call[t].result = "closed" => userClosed

(* When the store is released, no question is being executed, every        *)
(* session that was ever handed out is closed, and none can be registered  *)
(* any more.                                                               *)
ClosedForGood ==
  ~storeOpen =>
    /\ Holders = {}
    /\ registry = "nil"
    /\ \A t \in Threads : handle[t] = "live" => sessClosed

(* Agent.Close completes, whatever questions were admitted before it. *)
AgentCloses == closed ~> ~storeOpen
=============================================================================
