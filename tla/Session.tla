------------------------------- MODULE Session -------------------------------
(***************************************************************************)
(* One Session of an agent (session.go, internal/memory/history.go, and    *)
(* the order of effects in askWithFormatLocked, askStructuredLocked and    *)
(* askStreamLocked of agent.go).  Goroutines call Ask, AskStructured,      *)
(* AskStream, ClearHistory and Close on the same session; questions are    *)
(* serialised by a one-token channel (execSlot), the flags are guarded by  *)
(* Session.mu, and the history lives in the process or, when External, in  *)
(* a HistoryStore that is called without the lock.                         *)
(*                                                                         *)
(* A turn is its number: turns are numbered in the order of                *)
(* beginExecution.  Question and answer texts are not modelled.            *)
(***************************************************************************)
EXTENDS Goroutines, Sequences

CONSTANTS
  External,    \* Memory.HistoryStore is configured
  FailOpen,    \* HistoryFailurePolicy is fail_open
  StoreFails,  \* calls of the HistoryStore may fail
  MaxRounds,   \* MaxHistoryRounds, positive by Config.Validate
  MayPanic,    \* a tool, retriever or provider may panic
  MaxTurns     \* bound: no question is asked after this many turns

ASSUME SessionAssumption ==
  /\ External \in BOOLEAN /\ FailOpen \in BOOLEAN /\ StoreFails \in BOOLEAN
  /\ MayPanic \in BOOLEAN
  /\ MaxRounds \in Nat \ {0}
  /\ MaxTurns \in Nat

VARIABLES
  execSlot,      \* the token is in the channel
  sessClosed,    \* Session.closed
  executing,     \* Session.executing
  emitting,      \* Session.emitting
  pendingClear,  \* Session.pendingClear
  pendingClose,  \* Session.pendingClose
  history,       \* the turns kept, in the process or in the HistoryStore
  apc,           \* position of each goroutine in a call
  call,          \* its call: the entry point, its turn, what it has loaded
  turns,         \* observer: the number of executions begun
  answered,      \* observer: turns that returned an answer
  cleared,       \* observer: the last turn an accepted ClearHistory covers
  closeAsked     \* observer: Close has returned

flags == <<execSlot, sessClosed, executing, emitting, pendingClear, pendingClose>>
observers == <<turns, answered, cleared, closeAsked>>
sessVars == <<flags, history, apc, call, observers>>

(* "entered" is in beginOperation, "admitted" waits for the token, "slot"  *)
(* and everything up to "release" holds it.  "commitIO", "flushIO" and "clearIO" are calls of the store   *)
(* made without the lock.                                                  *)
Positions ==
  {"idle", "entered", "admitted", "slot", "load", "run", "callback", "commit", "commitIO",
   "record", "recordCallback", "finish", "end", "flush", "flushIO", "release",
   "exit", "clearIO"}

Kinds == {"ask", "structured", "stream"}

(* "reentry", "refused" (the agent is closed), "canceled" and "closed"     *)
(* name the errors that turn a call away before it executes.               *)
Results ==
  {"none", "ok", "error", "reentry", "refused", "canceled", "closed", "panic"}

Calls ==
  [kind : Kinds, turn : Nat, basis : Nat, op : {"append", "clear"}, result : Results]

NewCall == [kind |-> "ask", turn |-> 0, basis |-> 0, op |-> "append", result |-> "none"]

Holds(p) == p \notin {"idle", "entered", "admitted", "exit", "clearIO"}
Executes(p) == Holds(p) /\ p \notin {"slot", "flush", "flushIO", "release"}
Calling(p) == p \in {"callback", "recordCallback"}

Turn == [id : Nat \ {0}, basis : Nat]

SessTypeOK ==
  /\ execSlot \in BOOLEAN /\ sessClosed \in BOOLEAN /\ executing \in BOOLEAN
  /\ emitting \in BOOLEAN /\ pendingClear \in BOOLEAN /\ pendingClose \in BOOLEAN
  /\ history \in Seq(Turn) /\ (~External => Len(history) <= MaxRounds)
  /\ apc \in [Threads -> Positions]
  /\ call \in [Threads -> Calls]
  /\ turns \in Nat /\ cleared \in Nat /\ closeAsked \in BOOLEAN
  /\ answered \subseteq Nat

SessInit ==
  /\ execSlot = TRUE
  /\ sessClosed = FALSE /\ executing = FALSE /\ emitting = FALSE
  /\ pendingClear = FALSE /\ pendingClose = FALSE
  /\ history = <<>>
  /\ apc = [t \in Threads |-> "idle"]
  /\ call = [t \in Threads |-> NewCall]
  /\ turns = 0 /\ answered = {} /\ cleared = 0
  /\ closeAsked = FALSE
-----------------------------------------------------------------------------
(* History.Append and the window loadHistory takes of the stored turns:    *)
(* the last MaxRounds of them.                                             *)
Recent(h) == IF Len(h) > MaxRounds THEN SubSeq(h, Len(h) - MaxRounds + 1, Len(h)) ELSE h

LastId(h) == IF h = <<>> THEN 0 ELSE h[Len(h)].id

TurnOf(t) == [id |-> call[t].turn, basis |-> call[t].basis]

Goto(t, p) == apc' = At(apc, t, p)
Answer(t, r) == call' = [call EXCEPT ![t].result = r]

(* The position after the body of the question: Ask and AskStructured run  *)
(* the deferred trace record first, AskStream has recorded it already.     *)
AfterBody(t) == IF call[t].kind = "stream" THEN "end" ELSE "record"
-----------------------------------------------------------------------------
(* Ask, AskStructured, AskStream: a call made while any callback of the    *)
(* session runs is turned away, whoever makes it.                          *)
Enter(t, kind) ==
  /\ apc[t] = "idle"
  /\ turns < MaxTurns
  /\ IF emitting
     THEN /\ Answer(t, "reentry")
          /\ Goto(t, "exit")
     ELSE /\ call' = [call EXCEPT ![t].kind = kind]
          /\ Goto(t, "entered")
  /\ UNCHANGED <<flags, history, observers>>

(* beginOperation of the agent lets the call in, or the agent is closed.   *)
AgentAdmits(t) ==
  /\ apc[t] = "entered"
  /\ Goto(t, "admitted")
  /\ UNCHANGED <<flags, history, call, observers>>

AgentRefuses(t) ==
  /\ apc[t] = "entered"
  /\ Answer(t, "refused")
  /\ Goto(t, "exit")
  /\ UNCHANGED <<flags, history, observers>>

(* Mutant: the token is not waited for. *)
AcquireNoToken(t) ==
  /\ apc[t] = "admitted"
  /\ Goto(t, "slot")
  /\ UNCHANGED <<flags, history, call, observers>>

(* acquireExecutionSlot: the token, or the end of the caller's context.    *)
AcquireSlot(t) ==
  /\ apc[t] = "admitted"
  /\ execSlot
  /\ execSlot' = FALSE
  /\ Goto(t, "slot")
  /\ UNCHANGED <<sessClosed, executing, emitting, pendingClear, pendingClose,
                 history, call, observers>>

AcquireCanceled(t) ==
  /\ apc[t] = "admitted"
  /\ Answer(t, "canceled")
  /\ Goto(t, "exit")
  /\ UNCHANGED <<flags, history, observers>>

BeginExecution(t) ==
  /\ apc[t] = "slot"
  /\ IF sessClosed
     THEN /\ Answer(t, "closed")
          /\ Goto(t, "release")
          /\ UNCHANGED <<executing, turns>>
     ELSE /\ executing' = TRUE
          /\ turns' = turns + 1
          /\ call' = [call EXCEPT ![t].turn = turns + 1]
          /\ Goto(t, "load")
  /\ UNCHANGED <<execSlot, sessClosed, emitting, pendingClear, pendingClose,
                 history, answered, cleared, closeAsked>>
-----------------------------------------------------------------------------
(* The context has expired, the response format of AskStructured cannot be *)
(* built, or AskStream has no emitter: nothing was started, no trace is    *)
(* recorded.                                                               *)
FailEarly(t) ==
  /\ apc[t] = "load"
  /\ Answer(t, "error")
  /\ Goto(t, "end")
  /\ UNCHANGED <<flags, history, observers>>

(* loadHistory succeeds. *)
LoadHistory(t) ==
  /\ apc[t] = "load"
  /\ call' = [call EXCEPT ![t].basis = LastId(history)]
  /\ Goto(t, "run")
  /\ UNCHANGED <<flags, history, observers>>

(* The HistoryStore fails to load: an empty history, or the error, which   *)
(* AskStream emits and records too.                                        *)
LoadFails(t) ==
  /\ apc[t] = "load"
  /\ External /\ StoreFails
  /\ IF FailOpen
     THEN Goto(t, "run") /\ UNCHANGED call
     ELSE Goto(t, "record") /\ Answer(t, "error")
  /\ UNCHANGED <<flags, history, observers>>

(* runTelemetryCallback, from the body or from the trace record.           *)
SessEnterCallback(t) ==
  /\ apc[t] \in {"run", "record"}
  /\ emitting' = TRUE
  /\ Goto(t, IF apc[t] = "run" THEN "callback" ELSE "recordCallback")
  /\ UNCHANGED <<execSlot, sessClosed, executing, pendingClear, pendingClose,
                 history, call, observers>>

(* The callback returns, with emitting set to the flag. *)
ReturnFrom(t, ok, flag) ==
  /\ Calling(apc[t])
  /\ emitting' = flag
  /\ CASE apc[t] = "recordCallback" -> Goto(t, "record")
       [] apc[t] = "callback" /\ ok -> Goto(t, "run")
       [] OTHER -> Goto(t, AfterBody(t))
  /\ IF ok \/ call[t].result = "panic" THEN UNCHANGED call ELSE Answer(t, "error")
  /\ UNCHANGED <<execSlot, sessClosed, executing, pendingClear, pendingClose,
                 history, observers>>

(* Mutant: a callback that panics leaves the flag up. *)
SessLeaveCallbackSticky(t, ok) == ReturnFrom(t, ok, ~ok)

(* runTelemetryCallback takes the flag down whether the callback returns   *)
(* or panics; a panic becomes the error of the question.  (Where the       *)
(* caller drops that error, or runs more callbacks before it returns it,   *)
(* the steps are those of ok and a later RunFails.)                        *)
SessLeaveCallback(t, ok) == ReturnFrom(t, ok, FALSE)

(* Retrieval, memory, the model or a tool returns an error. *)
RunFails(t) ==
  /\ apc[t] = "run"
  /\ Answer(t, "error")
  /\ Goto(t, AfterBody(t))
  /\ UNCHANGED <<flags, history, observers>>

(* The model has answered and the long-term memory is stored. *)
RunSucceeds(t) ==
  /\ apc[t] = "run"
  /\ Goto(t, "commit")
  /\ UNCHANGED <<flags, history, call, observers>>

(* A panic outside the recovered callbacks unwinds past endExecution: the  *)
(* deferred trace record of Ask, the release of the token and endOperation *)
(* still run.                                                              *)
RunPanics(t) ==
  /\ apc[t] = "run"
  /\ MayPanic
  /\ Answer(t, "panic")
  /\ Goto(t, IF call[t].kind = "stream" THEN "release" ELSE "record")
  /\ UNCHANGED <<flags, history, observers>>
-----------------------------------------------------------------------------
(* commitHistory: nothing to do in the process; with a HistoryStore the    *)
(* pending clear is taken under the lock, the store is called after it.    *)
CommitHistory(t) ==
  /\ apc[t] = "commit"
  /\ IF External
     THEN /\ pendingClear' = FALSE
          /\ call' = [call EXCEPT ![t].op = IF pendingClear THEN "clear" ELSE "append"]
          /\ Goto(t, "commitIO")
     ELSE /\ Answer(t, "ok")
          /\ Goto(t, AfterBody(t))
          /\ UNCHANGED pendingClear
  /\ UNCHANGED <<execSlot, sessClosed, executing, emitting, pendingClose,
                 history, observers>>

CommitStore(t) ==
  /\ apc[t] = "commitIO"
  /\ history' = IF call[t].op = "clear" THEN <<>> ELSE Append(history, TurnOf(t))
  /\ Answer(t, "ok")
  /\ Goto(t, AfterBody(t))
  /\ UNCHANGED <<flags, observers>>

CommitStoreFails(t) ==
  /\ apc[t] = "commitIO"
  /\ StoreFails
  /\ Answer(t, IF FailOpen THEN "ok" ELSE "error")
  /\ Goto(t, AfterBody(t))
  /\ UNCHANGED <<flags, history, observers>>

(* The deferred recordExecutionTrace is done.  A panic of the recorder has *)
(* replaced the answer by an error in SessLeaveCallback.                   *)
RecordDone(t) ==
  /\ apc[t] = "record"
  /\ Goto(t, IF call[t].result = "panic" THEN "release" ELSE "finish")
  /\ UNCHANGED <<flags, history, call, observers>>

(* AskStructured decodes the answer, which may fail; Ask returns it.       *)
FinishAnswer(t, ok) ==
  /\ apc[t] = "finish"
  /\ ok \/ (call[t].kind = "structured" /\ call[t].result = "ok")
  /\ IF ok THEN UNCHANGED call ELSE Answer(t, "error")
  /\ Goto(t, "end")
  /\ UNCHANGED <<flags, history, observers>>
-----------------------------------------------------------------------------
(* Mutant: the turn of a question that failed is kept. *)
EndedKeepsFailed(t) == IF pendingClear THEN <<>> ELSE Recent(Append(history, TurnOf(t)))

(* What a turn leaves in the history kept in the process. *)
Ended(t) ==
  CASE pendingClear -> <<>>
    [] ~pendingClear /\ call[t].result = "ok" -> Recent(Append(history, TurnOf(t)))
    [] OTHER -> history

(* The critical section of endExecution, with what it leaves in            *)
(* pendingClear, closed and pendingClose.                                  *)
EndWith(t, clear, close, closing) ==
  /\ apc[t] = "end"
  /\ history' = IF External THEN history ELSE Ended(t)
  /\ pendingClear' = clear
  /\ sessClosed' = close
  /\ pendingClose' = closing
  /\ executing' = FALSE
  /\ answered' = answered \cup (IF call[t].result = "ok" THEN {call[t].turn} ELSE {})
  /\ Goto(t, IF call[t].result = "ok" THEN "release" ELSE "flush")
  /\ UNCHANGED <<execSlot, emitting, call, turns, cleared, closeAsked>>

(* Mutant: a pending Close is dropped. *)
EndExecutionForgetsClose(t) == EndWith(t, External /\ pendingClear, sessClosed, FALSE)

(* The pending clear is left to the HistoryStore's commit or flush. *)
EndExecution(t) == EndWith(t, External /\ pendingClear, sessClosed \/ pendingClose, FALSE)

(* joinPendingHistoryClear: clear says whether the store is to be cleared. *)
FlushIf(t, clear) ==
  /\ apc[t] = "flush"
  /\ pendingClear' = (pendingClear /\ ~clear)
  /\ Goto(t, IF clear THEN "flushIO" ELSE "release")
  /\ UNCHANGED <<execSlot, sessClosed, executing, emitting, pendingClose,
                 history, call, observers>>

(* Mutant: the test of executing is inverted. *)
FlushWhileExecuting(t) == FlushIf(t, External /\ pendingClear /\ executing)

(* On the error path and for a HistoryStore only. *)
FlushPendingClear(t) == FlushIf(t, External /\ pendingClear /\ ~executing)

FlushStore(t, ok) ==
  /\ apc[t] = "flushIO"
  /\ ok \/ StoreFails
  /\ history' = IF ok THEN <<>> ELSE history
  /\ Goto(t, "release")
  /\ UNCHANGED <<flags, call, observers>>

PutToken(t, back) ==
  /\ apc[t] = "release"
  /\ execSlot' = back
  /\ Goto(t, "exit")
  /\ UNCHANGED <<sessClosed, executing, emitting, pendingClear, pendingClose,
                 history, call, observers>>

(* Mutant: the token is lost. *)
ReleaseSlotDropsToken(t) == PutToken(t, FALSE)

(* releaseExecutionSlot. *)
ReleaseSlot(t) == PutToken(t, TRUE)

(* The call has returned to its caller. *)
Leave(t) ==
  /\ apc[t] = "exit"
  /\ Goto(t, "idle")
  /\ call' = [call EXCEPT ![t] = NewCall]
  /\ UNCHANGED <<flags, history, observers>>
-----------------------------------------------------------------------------
(* Mutant: the history is cleared under a running question. *)
ClearHistoryAtOnce(t) ==
  /\ apc[t] = "idle" \/ Calling(apc[t])
  /\ ~sessClosed
  /\ cleared' = turns
  /\ IF External THEN Goto(t, "clearIO") /\ UNCHANGED history
                 ELSE history' = <<>> /\ UNCHANGED apc
  /\ UNCHANGED <<flags, call, turns, answered, closeAsked>>

(* ClearHistory: markHistoryClear under the lock; for a HistoryStore and   *)
(* an idle session the store is cleared after the lock is released.  A     *)
(* callback may call it too, and finds its own session executing.          *)
ClearHistory(t) ==
  /\ apc[t] = "idle" \/ Calling(apc[t])
  /\ ~sessClosed
  /\ cleared' = turns
  /\ IF executing
     THEN pendingClear' = TRUE /\ UNCHANGED <<history, apc>>
     ELSE /\ UNCHANGED pendingClear
          /\ IF External
             THEN Goto(t, "clearIO") /\ UNCHANGED history
             ELSE history' = <<>> /\ UNCHANGED apc
  /\ UNCHANGED <<execSlot, sessClosed, executing, emitting, pendingClose, call,
                 turns, answered, closeAsked>>

ClearStore(t, ok) ==
  /\ apc[t] = "clearIO"
  /\ ok \/ StoreFails
  /\ history' = IF ok THEN <<>> ELSE history
  /\ Goto(t, "idle")
  /\ UNCHANGED <<flags, call, observers>>

(* Session.Close, by any goroutine or by a callback. *)
CloseSession ==
  /\ IF executing
     THEN pendingClose' = TRUE /\ UNCHANGED sessClosed
     ELSE sessClosed' = TRUE /\ UNCHANGED pendingClose
  /\ closeAsked' = TRUE
  /\ UNCHANGED <<execSlot, executing, emitting, pendingClear, history, apc, call,
                 turns, answered, cleared>>
-----------------------------------------------------------------------------
(* What a goroutine that holds the token does next, callbacks aside. *)
Progress(t) ==
  \/ BeginExecution(t) \/ FailEarly(t) \/ LoadHistory(t) \/ LoadFails(t)
  \/ RunFails(t) \/ RunSucceeds(t) \/ RunPanics(t)
  \/ CommitHistory(t) \/ CommitStore(t) \/ CommitStoreFails(t)
  \/ RecordDone(t) \/ \E ok \in BOOLEAN : FinishAnswer(t, ok)
  \/ EndExecution(t) \/ FlushPendingClear(t)
  \/ \E ok \in BOOLEAN : FlushStore(t, ok)
  \/ ReleaseSlot(t)

Callback(t) == SessEnterCallback(t) \/ \E ok \in BOOLEAN : SessLeaveCallback(t, ok)

SessNext ==
  \/ \E t \in Threads :
       \/ \E kind \in Kinds : Enter(t, kind)
       \/ AgentAdmits(t) \/ AgentRefuses(t)
       \/ AcquireSlot(t) \/ AcquireCanceled(t)
       \/ Progress(t) \/ Callback(t) \/ Leave(t)
       \/ ClearHistory(t) \/ \E ok \in BOOLEAN : ClearStore(t, ok)
  \/ CloseSession

SessSpec == SessInit /\ [][SessNext]_sessVars

(* A goroutine that is inside a call keeps running, callbacks return, and  *)
(* the store answers.  Strong fairness: the waiters of a Go channel are    *)
(* served in order, and a question runs finitely many callbacks.           *)
SessFairness ==
  \A t \in Threads :
    /\ SF_sessVars(\/ AgentAdmits(t) \/ AgentRefuses(t) \/ AcquireSlot(t)
                   \/ Progress(t) \/ Leave(t) \/ \E ok \in BOOLEAN : ClearStore(t, ok))
    /\ WF_sessVars(\E ok \in BOOLEAN : SessLeaveCallback(t, ok))

FairSessSpec == SessSpec /\ SessFairness
-----------------------------------------------------------------------------
Holders == {t \in Threads : Holds(apc[t])}

KeptIds == {history[i].id : i \in 1..Len(history)}

(* Questions of one session are serialised: at most one goroutine is       *)
(* between acquireExecutionSlot and releaseExecutionSlot, and the token is *)
(* out exactly then, however the question ends.                            *)
OneAtATime ==
  /\ \A t, u \in Holders : t = u
  /\ execSlot <=> Holders = {}

(* Calls are turned away as reentry exactly while a callback of the        *)
(* session runs.  The flag is a boolean and not a count, so it is right    *)
(* only because one question at a time runs callbacks, and it must be down *)
(* again after the panic of one, or no question is ever let in again.      *)
EmittingExact == emitting <=> \E t \in Threads : Calling(apc[t])

(* No call is still on its way to the HistoryStore. *)
Quiet == ~executing /\ \A t \in Threads : apc[t] \notin {"clearIO", "flushIO"}

(* Once the session is quiet, nothing survives an accepted ClearHistory:   *)
(* neither the turns before it nor the turn it interrupted.                *)
ClearTakesEffect == Quiet => \A n \in KeptIds : n > cleared

(* Between questions the history in the process is exactly the last        *)
(* MaxRounds turns answered since the last ClearHistory: no answered turn  *)
(* is lost, none is kept too long, none that failed is kept.               *)
HistoryIsRecentAnswers ==
  LET due == {n \in answered : n > cleared}
  IN  ~executing =>
        /\ KeptIds \subseteq due
        /\ \A n \in due \ KeptIds : \A m \in KeptIds : n < m
        /\ Len(history) = IF Cardinality(due) > MaxRounds THEN MaxRounds ELSE Cardinality(due)

(* A ClearHistory that arrived during a question that failed has been      *)
(* honoured, or its error reported, before the next question can start.    *)
FailedTurnHonoursClear ==
  \A t \in Threads :
    apc[t] = "release" /\ call[t].result = "error" => ~pendingClear

(* Once Close has returned, no further question executes: the one running  *)
(* is the last.                                                            *)
CloseIsFinal == [][closeAsked => turns' = turns]_sessVars

(* Every question, and every ClearHistory, returns. *)
CallsReturn == \A t \in Threads : apc[t] # "idle" ~> apc[t] = "idle"
-----------------------------------------------------------------------------
(* The session as a Conversation. *)
Promise == INSTANCE Conversation WITH
  convo <- history,
  begun <- turns,
  busy <- executing,
  forget <- pendingClear,
  status <- IF sessClosed THEN "closed" ELSE IF pendingClose THEN "closing" ELSE "open"

(* With its history in the process, a session keeps the promise of         *)
(* Conversation: whatever the goroutines do to it, its history, its turns  *)
(* and its closing are those of one question at a time.                    *)
KeepsPromise == Promise!ConvSpec
=============================================================================
