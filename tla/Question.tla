------------------------------ MODULE Question ------------------------------
(***************************************************************************)
(* One question from its admission by the session to its return:           *)
(* askWithFormatLocked, by itself for Ask and inside askStructuredLocked   *)
(* for AskStructured, askStreamLocked and retrieve of agent.go around      *)
(* the runners of module Runners, the refusals and the status of the       *)
(* execution trace (trace.go, trace_store.go), the memory provider         *)
(* (memory_provider.go) and the order in which events, trace, memory and   *)
(* history learn of the outcome.  A session serves its questions one       *)
(* after the other (module Session), so there is one at a time.            *)
(***************************************************************************)
EXTENDS Runners

VARIABLES
  stage,      \* position in askLocked, askStructuredLocked or askStreamLocked
  refused,    \* trace.RefusalReason
  recorded,   \* the statuses of the traces given to the TraceRecorder
  memorized,  \* storeMemory has stored the turn
  committed   \* commitHistory has succeeded: a HistoryStore has the turn

pipelineVars == <<stage, refused, recorded, memorized, committed>>
qVars == <<runnerVars, pipelineVars>>

Modes == {"ask", "structured", "stream"}

Stages ==
  {"begin", "history", "access", "announce", "retrieve", "unanswerable", "memory",
   "evidence", "model", "runner", "done", "failing", "record", "memorize", "commit", "decode",
   "returned"}

QTypeOK ==
  /\ mode \in Modes /\ runner \in {"chat", "native", "envelope"}
  /\ ctx \in {"live", "ended"} /\ stage \in Stages /\ err \in Errors
  /\ refused \in {"none", "low_similarity", "no_evidence", "tool_failure"}
  /\ recorded \in BoundedSeq({"success", "failure", "refused"}, 1)
  /\ faults \in 0..MaxFaults

QuestionBegins ==
  /\ events' = <<>> /\ tools' = <<>> /\ web' = [found |-> 0, emitted |-> 0]
  /\ budget' = 0 /\ rpc' = "idle" /\ err' = "none"
  /\ loop' = [rounds |-> 0, calls |-> 0, left |-> 0, next |-> 1, tool |-> "none"]
  /\ messages' = <<>> /\ texts' = <<>> /\ answer' = <<>> /\ evidence' = FALSE
  /\ runs' = 0 /\ faults' = 0
  /\ stage' = "begin" /\ refused' = "none" /\ recorded' = <<>>
  /\ memorized' = FALSE /\ committed' = FALSE

QInit ==
  /\ mode \in Modes /\ runner \in {"chat", "native", "envelope"} /\ ctx = "live"
  /\ events = <<>> /\ tools = <<>> /\ web = [found |-> 0, emitted |-> 0]
  /\ budget = 0 /\ rpc = "idle" /\ err = "none"
  /\ loop = [rounds |-> 0, calls |-> 0, left |-> 0, next |-> 1, tool |-> "none"]
  /\ messages = <<>> /\ texts = <<>> /\ answer = <<>> /\ evidence = FALSE
  /\ runs = 0 /\ faults = 0
  /\ stage = "begin" /\ refused = "none" /\ recorded = <<>>
  /\ memorized = FALSE /\ committed = FALSE
-----------------------------------------------------------------------------
(* The call returns; of a stream nobody learns but the caller. *)
Return(e) == stage' = "returned" /\ err' = e

(* The question fails: Ask records the trace in its deferred function, and *)
(* AskStream emits an error event first.                                   *)
Failing(e) == stage' = (IF Streaming THEN "failing" ELSE "record") /\ err' = e

Proceed(s) == stage' = s /\ UNCHANGED err

quiet == <<mode, runner, ctx, noteVars, rpc, runVars>>
outcomes == <<refused, recorded, memorized, committed>>

(* buildStructuredInstruction cannot describe the target of AskStructured. *)
InstructionFails ==
  /\ stage = "begin" /\ mode = "structured"
  /\ MayFail
  /\ Spend(TRUE)
  /\ Return("structure")
  /\ UNCHANGED <<quiet, outcomes>>

(* The context is looked at before there is a trace. *)
Begin ==
  /\ stage = "begin"
  /\ IF ctx = "ended" THEN Return("ctx") ELSE Proceed("history")
  /\ UNCHANGED <<quiet, faults, outcomes>>

LoadHistory(ok) ==
  /\ stage = "history"
  /\ ok \/ MayFail
  /\ Spend(~ok)
  /\ IF ok THEN Proceed("access") ELSE Failing("history")
  /\ UNCHANGED <<quiet, outcomes>>

(* accessBoundaryFilter: AskStream returns its error without an event. *)
ApplyBoundary(ok) ==
  /\ stage = "access"
  /\ ok \/ MayFail
  /\ Spend(~ok)
  /\ IF ok THEN Proceed(IF Streaming THEN "announce" ELSE "retrieve")
     ELSE IF Streaming THEN Return("access") ELSE Failing("access")
  /\ UNCHANGED <<quiet, outcomes>>

(* A stream hands out batch and goes on at s; it returns the error of its  *)
(* emitter.                                                                *)
EmitThen(batch, s) ==
  \E sent \in 0..Len(batch) :
    /\ Hand(batch, sent)
    /\ Spend(sent < Len(batch))
    /\ IF sent = Len(batch) THEN Proceed(s) ELSE Return("emit")

Announce ==
  /\ stage = "announce"
  /\ EmitThen(<<Event("retrieve_start", "none"), Event("tool_start", RetrieveTool)>>, "retrieve")
  /\ UNCHANGED <<mode, runner, ctx, tools, web, rpc, runVars, outcomes>>

hasFallbackTools == FallbackTools # <<>>

(* retrieve: a start callback panics, the search fails, nothing is found,  *)
(* nothing found is similar enough, or there are hits.  The deferred       *)
(* callbacks come after the results are fixed: their panic only shows in   *)
(* the tool record.                                                        *)
Retrieve(outcome, endPanics) ==
  /\ stage = "retrieve"
  /\ outcome \in {"callback", "search"} \/ endPanics => MayFail
  /\ Spend(outcome \in {"callback", "search"} \/ endPanics)
  /\ budget' = budget + 1
  /\ evidence' = (outcome = "hits")
  /\ IF outcome = "callback" THEN UNCHANGED <<tools, runs>>
     ELSE /\ tools' = endTool(startTool(tools, RetrieveTool), RetrieveTool, outcome # "hits" \/ endPanics)
          /\ runs' = runs + 1
  /\ CASE outcome \in {"callback", "search"} -> stage' = "unanswerable" /\ err' = outcome
       [] outcome \in {"low_similarity", "no_evidence"} /\ ~hasFallbackTools ->
            stage' = "unanswerable" /\ err' = "insufficient"
       [] OTHER -> Proceed("memory")
  /\ refused' = IF outcome \in {"low_similarity", "no_evidence"} /\ ~hasFallbackTools
                THEN outcome ELSE refused
  /\ UNCHANGED <<mode, runner, ctx, events, web, rpc, loop, messages, texts, answer,
                 recorded, memorized, committed>>

(* Retrieval has failed: AskStream ends its two events before it fails. *)
Unanswerable ==
  /\ stage = "unanswerable"
  /\ IF Streaming
     THEN LET batch == <<Event("retrieve_end", "none"), Event("tool_end", RetrieveTool)>> IN
          \E sent \in 0..Len(batch) :
            /\ Hand(batch, sent)
            /\ Spend(sent < Len(batch))
            /\ IF sent = Len(batch) THEN Failing(err) ELSE Return("emit")
     ELSE Failing(err) /\ UNCHANGED <<events, faults>>
  /\ UNCHANGED <<mode, runner, ctx, tools, web, rpc, runVars, outcomes>>

(* retrieveMemoryText; under fail_open its failure is no failure.  A       *)
(* stream returns the error without an event.                              *)
RetrieveMemory(ok) ==
  /\ stage = "memory"
  /\ ok \/ MayFail
  /\ Spend(~ok)
  /\ IF ok THEN Proceed(IF Streaming THEN "evidence" ELSE "model")
     ELSE IF Streaming THEN Return("memory") ELSE Failing("memory")
  /\ UNCHANGED <<quiet, outcomes>>

PresentEvidence ==
  /\ stage = "evidence"
  /\ EmitThen(<<Event("retrieve_end", "none"), Event("tool_end", RetrieveTool)>>
                \o IF evidence THEN <<Event("citation", RetrieveTool)>> ELSE <<>>, "model")
  /\ UNCHANGED <<mode, runner, ctx, tools, web, rpc, runVars, outcomes>>

(* OnModelStart; a stream returns its panic without an event. *)
ModelStart(ok) ==
  /\ stage = "model"
  /\ ok \/ MayFail
  /\ Spend(~ok)
  /\ rpc' = IF ok THEN "entry" ELSE rpc
  /\ IF ok THEN Proceed("runner") ELSE IF Streaming THEN Return("callback") ELSE Failing("callback")
  /\ UNCHANGED <<mode, runner, ctx, noteVars, runVars, outcomes>>

RunRunner ==
  /\ stage = "runner"
  /\ RunnerStep
  /\ UNCHANGED pipelineVars

Refused(e) == IF e = "limit" THEN "tool_failure" ELSE refused

(* OnModelEnd and the model metrics; their panic fails a question that had *)
(* succeeded.  A stream whose emitter refused a chunk returns at once.     *)
ModelEnd(panics) ==
  /\ stage = "runner" /\ rpc = "returned"
  /\ panics => MayFail
  /\ Spend(panics)
  /\ LET e == IF panics /\ err = "none" THEN "callback" ELSE err IN
       /\ CASE e = "none" -> Proceed(IF Streaming THEN "done" ELSE "memorize")
            [] e = "chunk" -> Return(e)
            [] OTHER -> Failing(e)
       /\ refused' = Refused(e)
  /\ rpc' = "idle"
  /\ UNCHANGED <<mode, runner, ctx, noteVars, runVars, recorded, memorized, committed>>
-----------------------------------------------------------------------------
(* Mutant: a done event that cannot be delivered is followed by an error.  *)
EmitDoneRetried ==
  /\ stage = "done"
  /\ \E sent \in 0..1 :
       /\ Hand(<<Event("done", "none")>>, sent)
       /\ Spend(sent = 0)
       /\ IF sent = 1 THEN Proceed("record") ELSE Failing("emit")
  /\ UNCHANGED <<mode, runner, ctx, tools, web, rpc, runVars, outcomes>>

EmitDone ==
  /\ stage = "done"
  /\ EmitThen(<<Event("done", "none")>>, "record")
  /\ UNCHANGED <<mode, runner, ctx, tools, web, rpc, runVars, outcomes>>

(* emitError: the error event comes before the trace is recorded. *)
EmitError ==
  /\ stage = "failing"
  /\ EmitThen(<<Event("error", "none")>>, "record")
  /\ UNCHANGED <<mode, runner, ctx, tools, web, rpc, runVars, outcomes>>

(* Mutant: a refusal counts as a success. *)
StatusOptimistic == IF err # "none" /\ refused = "none" THEN "failure" ELSE "success"

(* deriveTraceStatus of the finished trace. *)
Status == IF refused # "none" THEN "refused" ELSE IF err # "none" THEN "failure" ELSE "success"

(* recordExecutionTrace: the recorder panics, or the logger after it, and  *)
(* that becomes the error of the question.                                 *)
Record(fault) ==
  /\ stage = "record"
  /\ fault # "none" => MayFail
  /\ Spend(fault # "none")
  /\ recorded' = IF fault = "recorder" THEN recorded ELSE Append(recorded, Status)
  /\ CASE fault # "none" -> Return("record")
       [] fault = "none" /\ Streaming /\ err = "none" -> Proceed("memorize")
       [] fault = "none" /\ mode = "structured" /\ err = "none" -> Proceed("decode")
       [] OTHER -> Return(err)
  /\ UNCHANGED <<quiet, refused, memorized, committed>>

(* storeMemory, and then commitHistory.  Their failure is recorded by Ask; *)
(* AskStream has recorded its trace before.                                *)
StoreMemory(ok) ==
  /\ stage = "memorize"
  /\ ok \/ MayFail
  /\ Spend(~ok)
  /\ memorized' = ok
  /\ IF ok THEN Proceed("commit") ELSE IF Streaming THEN Return("memory") ELSE Failing("memory")
  /\ UNCHANGED <<quiet, refused, recorded, committed>>

CommitHistory(ok) ==
  /\ stage = "commit"
  /\ ok \/ MayFail
  /\ Spend(~ok)
  /\ committed' = ok
  /\ IF ok THEN Proceed(IF Streaming THEN "returned" ELSE "record")
     ELSE IF Streaming THEN Return("history") ELSE Failing("history")
  /\ UNCHANGED <<quiet, refused, recorded, memorized>>

(* AskStructured extracts the JSON of the answer and decodes it into the   *)
(* target after the trace, the memory and the history have the answer.     *)
Decode(ok) ==
  /\ stage = "decode"
  /\ ok \/ MayFail
  /\ Spend(~ok)
  /\ IF ok THEN Proceed("returned") ELSE Return("structure")
  /\ UNCHANGED <<quiet, outcomes>>

(* MaxExecutionDuration elapses, or the caller cancels. *)
ContextEnds ==
  /\ stage # "returned"
  /\ ctx = "live" /\ faults < MaxFaults
  /\ ctx' = "ended" /\ faults' = faults + 1
  /\ UNCHANGED <<mode, runner, noteVars, rpc, err, runVars, pipelineVars>>

(* The session goes on to another question. *)
NextQuestion ==
  /\ stage = "returned"
  /\ mode' \in Modes /\ runner' = runner /\ ctx' = "live"
  /\ QuestionBegins

QStep ==
  \/ InstructionFails \/ Begin \/ Announce \/ Unanswerable \/ PresentEvidence \/ RunRunner \/ EmitDone \/ EmitError
  \/ \E ok \in BOOLEAN :
       \/ LoadHistory(ok) \/ ApplyBoundary(ok) \/ RetrieveMemory(ok) \/ ModelStart(ok)
       \/ ModelEnd(~ok) \/ StoreMemory(ok) \/ CommitHistory(ok) \/ Decode(ok)
  \/ \E outcome \in {"callback", "search", "low_similarity", "no_evidence", "hits"}, p \in BOOLEAN :
       Retrieve(outcome, p)
  \/ \E fault \in {"none", "recorder", "logger"} : Record(fault)

QNext == QStep \/ ContextEnds \/ NextQuestion

QSpec == QInit /\ [][QNext]_qVars

(* Every call of a tool, a model or a store returns: the question goes on. *)
FairQSpec == QSpec /\ WF_qVars(QStep)
-----------------------------------------------------------------------------
Events(type) == {i \in DOMAIN events : events[i].type = type}

(* A stream ends at most once: nothing is emitted after its done or its    *)
(* error event, whatever fails when.                                       *)
NothingAfterTheEnd == \A i \in Events("done") \cup Events("error") : i = Len(events)

(* AskStructured returns an error for an answer that the trace, the memory *)
(* and the HistoryStore were given as a success.                           *)
Undecoded ==
  mode = "structured" /\ err = "structure" /\ memorized /\ committed /\ recorded = <<"success">>

(* What the caller, the trace and the stores are told agrees.  A question  *)
(* that returns an answer has been memorized, committed, recorded as a     *)
(* success and, streamed, announced as done.  A trace says success only of *)
(* a question that produced its answer.  Ask and AskStructured record      *)
(* exactly one trace of a question that reached its retrieval; they keep   *)
(* the turn of a question they fail, or record its success, only if the    *)
(* recorder failed, or if the answer of AskStructured could not be decoded *)
(* and then both; a stream that emitted an error commits nothing.          *)
OutcomeTold ==
  stage = "returned" =>
    /\ err = "none" => /\ memorized /\ committed /\ recorded = <<"success">>
                       /\ Streaming => Events("done") # {}
    /\ recorded = <<"success">> =>
         IF Streaming THEN Events("done") # {} /\ Events("error") = {}
         ELSE err \in {"none", "record"} \/ Undecoded
    /\ ~Streaming /\ budget > 0 => Len(recorded) = 1 \/ err = "record"
    /\ ~Streaming /\ committed => err \in {"none", "record"} \/ Undecoded
    /\ Events("error") # {} => ~memorized /\ ~committed /\ err # "none"
    /\ err = "limit" => refused = "tool_failure"

(* The tool records of a trace are those of the stream: tools run one      *)
(* after the other, and a successful trace has no tool that never ended    *)
(* and one tool_end event for every record of a tool but retrieval, whose  *)
(* own events the pipeline emits.                                          *)
ToolTraceSound ==
  /\ Cardinality({i \in DOMAIN tools : tools[i].open}) <= 1
  /\ recorded = <<"success">> =>
       /\ \A i \in DOMAIN tools : ~tools[i].open
       /\ Streaming => Cardinality(Events("tool_end"))
                         = 1 + Cardinality({i \in DOMAIN tools : tools[i].tool # RetrieveTool})

Messages(role) == {i \in DOMAIN messages : messages[i].role = role}

(* Before the model is called again, every call of every earlier message   *)
(* has been answered right after it, once and in order, whether the call   *)
(* succeeded, failed or was rejected: chat APIs refuse anything else.      *)
CallsAnswered ==
  rpc = "round" =>
    /\ \A i \in Messages("assistant") :
         /\ i + messages[i].calls <= Len(messages)
         /\ \A j \in 1..messages[i].calls : messages[i + j].role = "tool"
    /\ messages # <<>> => messages[1].role = "assistant"
    /\ \A i, j \in Messages("tool") : i < j => messages[i].id < messages[j].id
    /\ {messages[i].id : i \in Messages("tool")} = 1..loop.calls

(* The limits hold however tools fail and are retried by the model: the    *)
(* fallback chain and the retrieval share MaxToolCalls, the tool loop runs *)
(* at most MaxToolCalls tools after the retrieval, in at most              *)
(* MaxIterations calls of the model.                                       *)
BudgetKept ==
  /\ runs <= MaxToolCalls + IF runner = "chat" THEN 0 ELSE 1
  /\ Len(texts) <= IF runner = "chat" THEN 1 ELSE MaxIterations

(* The texts of the rounds, on lines of their own. *)
NewLine(said, text) == IF said = <<>> \/ text = <<>> \/ Last(said) = "nl" THEN <<>> ELSE <<"nl">>
WithRound(said, text) == said \o (NewLine(said, text) \o text)
Joined == FoldLeft(WithRound, <<>>, texts)

(* The text of the chunks of the stream. *)
WithChunk(said, e) == IF e.type = "answer_chunk" THEN said \o e.text ELSE said
Delivered == FoldLeft(WithChunk, <<>>, events)

(* The turn that is kept is what the user saw: the committed answer of a   *)
(* stream is the text of its chunks, the native loop gives Ask and         *)
(* AskStream the same answer, and a finished stream has emitted every      *)
(* citation exactly once.                                                  *)
AnswerDelivered ==
  /\ memorized => (Streaming => Delivered = answer) /\ (runner = "native" => answer = Joined)
  /\ Events("done") # {} =>
       Cardinality(Events("citation"))
         = web.found + Cardinality({i \in Events("citation") : events[i].tool = RetrieveTool})

(* Every question returns, although the model may ask for tools for ever.  *)
QuestionReturns == stage # "returned" ~> stage = "returned"
=============================================================================
