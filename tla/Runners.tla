------------------------------ MODULE Runners ------------------------------
(***************************************************************************)
(* The two runners that turn a prepared question into an answer: the       *)
(* ChatRunner (internal/graph/chat_runner.go), which runs the fallback     *)
(* tools when there is no evidence, and the bounded tool loop of the       *)
(* ToolCallingRunner (tool_calling_runner.go) over the native protocol or  *)
(* the JSON envelope; with what they touch on the way: the stream events,  *)
(* the tool records of the execution trace (trace.go), the tool observer   *)
(* and the tool budget (agent.go) and the collected web citations          *)
(* (web_citations.go).                                                     *)
(*                                                                         *)
(* Text is a sequence of tokens: "w" stands for a chunk with words, "nl"   *)
(* for a chunk of white space that ends a line.  Whatever can go wrong is  *)
(* a choice of the step; MaxFaults bounds how often it does.               *)
(***************************************************************************)
EXTENDS Naturals, FiniteSets, SequencesExt

CONSTANTS
  MaxToolCalls,   \* Config.MaxToolCalls, positive by Config.Validate
  MaxIterations,  \* Config.MaxIterations, positive by Config.Validate
  FallbackTools,  \* the registered tools without retrieve_context, in order
  MaxCalls,       \* bound: tool calls of one model message
  MaxChunks,      \* bound: chunks of one model message
  MaxFaults       \* bound: failures in one question

ASSUME RunnersAssumption ==
  /\ MaxToolCalls \in Nat \ {0} /\ MaxIterations \in Nat \ {0}
  /\ FallbackTools \in Seq(STRING)
  /\ MaxCalls \in Nat /\ MaxChunks \in Nat /\ MaxFaults \in Nat

VARIABLES
  mode,      \* AskStream with its emitter, or Ask or AskStructured without one
  runner,    \* which runner and protocol answer
  ctx,       \* the context of the question has ended
  events,    \* the events handed to the emitter
  tools,     \* trace.ToolCalls
  web,       \* webSearchCitationCollector: results found, citations emitted
  budget,    \* toolCallBudget.used
  rpc,       \* position in the runner
  err,       \* the error under way
  loop,      \* the loop: rounds, calls made, calls left, the tool at work
  messages,  \* the messages after the prompt
  texts,     \* the text of each model message
  answer,    \* the answer built so far
  evidence,  \* EvidenceText is not blank
  runs,      \* observer: tools that were executed, retrieval included
  faults     \* observer: failures so far

runVars == <<loop, messages, texts, answer, evidence, runs, budget>>
noteVars == <<events, tools, web>>
runnerVars == <<mode, runner, ctx, noteVars, rpc, err, runVars, faults>>

Tokens == {"w", "nl"}
Text == BoundedSeq(Tokens, MaxChunks)
RetrieveTool == "retrieve_context"
Registered == ToSet(FallbackTools) \cup {RetrieveTool}

Event(type, tool) == [type |-> type, tool |-> tool]
ChunkEvent(text) == [type |-> "answer_chunk", text |-> text]

Errors ==
  {"none", "ctx", "history", "access", "search", "insufficient", "memory", "callback",
   "emit", "chunk", "limit", "denied", "garbled", "tool", "notool", "model", "record", "structure"}
-----------------------------------------------------------------------------
(* Mutant: an end without a start is not recorded. *)
endToolDropped(calls, name, failed) ==
  LET stack == {i \in DOMAIN calls : calls[i].tool = name /\ calls[i].open}
  IN  [i \in DOMAIN calls |-> IF i = Max(stack \cup {0}) THEN [calls[i] EXCEPT !.open = FALSE] ELSE calls[i]]

startTool(calls, name) == Append(calls, [tool |-> name, open |-> TRUE, failed |-> FALSE])

(* The most recent open record of that name ends; without one, a record    *)
(* that starts and ends at once is added.                                  *)
endTool(calls, name, failed) ==
  LET stack == {i \in DOMAIN calls : calls[i].tool = name /\ calls[i].open}
  IN  IF stack = {} THEN Append(calls, [tool |-> name, open |-> FALSE, failed |-> failed])
      ELSE [calls EXCEPT ![Max(stack)] = [@ EXCEPT !.open = FALSE, !.failed = failed]]

(* A step may fail while faults are left, or once the context has ended. *)
MayFail == faults < MaxFaults \/ ctx = "ended"
Spend(failed) == faults' = IF failed /\ faults < MaxFaults THEN faults + 1 ELSE faults

Streaming == mode = "stream"

(* The first sent events of batch are accepted; unless that is all of      *)
(* them, the next one is handed to the emitter and fails.                  *)
Hand(batch, sent) ==
  /\ sent = Len(batch) \/ MayFail
  /\ events' = events \o SubSeq(batch, 1, IF sent = Len(batch) THEN sent ELSE sent + 1)

(* What a call of the tool observer comes to: the number of events         *)
(* accepted, and whether the telemetry callback after them panicked.       *)
Reports(batch) == {[sent |-> n, panic |-> FALSE] : n \in 0..Len(batch)}
                    \cup {[sent |-> Len(batch), panic |-> TRUE]}
Observe(batch, r) == Hand(batch, r.sent) /\ (r.panic => MayFail)
ReportError(batch, r) ==
  IF r.sent < Len(batch) THEN "emit" ELSE IF r.panic THEN "callback" ELSE "none"

Emits(name) == Streaming /\ name # RetrieveTool
StartBatch(name) == IF Emits(name) THEN <<Event("tool_start", name)>> ELSE <<>>

(* OnToolEnd also emits the citations the web search has collected since.  *)
EndBatch(name, found) ==
  IF ~Emits(name) THEN <<>>
  ELSE <<Event("tool_end", name)>>
         \o IF name = "search_web" THEN [i \in 1..(found - web.emitted) |-> Event("citation", name)]
            ELSE <<>>

(* DrainNewCitations counts the citations as emitted when it returns them. *)
Drained(name, found, r) ==
  [found |-> found,
   emitted |-> IF Streaming /\ name = "search_web" /\ r.sent > 0 THEN found ELSE web.emitted]

Found(name, outcome) == web.found + IF name = "search_web" /\ outcome = "text" THEN 1 ELSE 0
-----------------------------------------------------------------------------
(* The runner returns to the agent, with an error or with the answer. *)
RunnerReturns(e) == rpc' = "returned" /\ err' = e

(* The runner goes on at p unless there is an error. *)
GoOnUnless(e, p) == IF e = "none" THEN rpc' = p /\ UNCHANGED err ELSE RunnerReturns(e)

(* A runner is entered: the tool-calling runner looks at the context. *)
EnterRunner ==
  /\ rpc = "entry"
  /\ IF runner = "chat" THEN GoOnUnless("none", "prompt")
     ELSE GoOnUnless(IF ctx = "ended" THEN "ctx" ELSE "none", "round")
  /\ UNCHANGED <<mode, runner, ctx, noteVars, runVars, faults>>

(* messagesForRequest: a cached prompt is used as it is; without evidence  *)
(* the fallback tools are run.                                             *)
ChatPrompt(cached) ==
  /\ rpc = "prompt"
  /\ IF cached \/ evidence THEN GoOnUnless("none", "generate")
     ELSE GoOnUnless(IF FallbackTools = <<>> THEN "notool" ELSE "none", "fallback")
  /\ UNCHANGED <<mode, runner, ctx, noteVars, runVars, faults>>

(* Mutant: the budget is checked one call too late. *)
AcquireLate == budget <= MaxToolCalls
Acquire == budget < MaxToolCalls

(* The next fallback tool is acquired and its start is reported. *)
ChatToolStart ==
  /\ rpc = "fallback"
  /\ loop.next <= Len(FallbackTools) /\ Acquire
  /\ LET name == FallbackTools[loop.next]
         batch == StartBatch(name)
     IN  /\ tools' = startTool(tools, name)
         /\ \E r \in Reports(batch) :
              /\ Observe(batch, r)
              /\ Spend(ReportError(batch, r) # "none")
              /\ GoOnUnless(ReportError(batch, r), "running")
  /\ budget' = budget + 1
  /\ UNCHANGED <<mode, runner, ctx, web, loop, messages, texts, answer, evidence, runs>>

(* No fallback tool or no budget is left. *)
ChatToolsEnd ==
  /\ rpc = "fallback"
  /\ loop.next > Len(FallbackTools) \/ ~Acquire
  /\ RunnerReturns(IF loop.next > Len(FallbackTools) THEN "tool" ELSE "limit")
  /\ UNCHANGED <<mode, runner, ctx, noteVars, runVars, faults>>

(* The tool has run; its text becomes the evidence, unless it failed or    *)
(* returned nothing, and then the next one is tried.                       *)
ChatToolEnd(outcome) ==
  /\ rpc = "running" /\ runner = "chat"
  /\ outcome = "error" => MayFail
  /\ LET name == FallbackTools[loop.next]
         batch == EndBatch(name, Found(name, outcome))
     IN  /\ tools' = endTool(tools, name, outcome = "error")
         /\ \E r \in Reports(batch) :
              /\ Observe(batch, r)
              /\ web' = Drained(name, Found(name, outcome), r)
              /\ Spend(outcome = "error" \/ ReportError(batch, r) # "none")
              /\ GoOnUnless(ReportError(batch, r), IF outcome = "text" THEN "generate" ELSE "fallback")
  /\ evidence' = (outcome = "text")
  /\ loop' = [loop EXCEPT !.next = @ + 1]
  /\ runs' = runs + 1
  /\ UNCHANGED <<mode, runner, ctx, messages, texts, answer, budget>>
-----------------------------------------------------------------------------
(* Mutant: rounds are not separated when they are streamed. *)
SeparatorLost(text) == IF Streaming \/ text = <<>> \/ answer = <<>> THEN <<>> ELSE <<"nl">>

(* startRound: a newline between the texts of two rounds. *)
Separator(text) == IF text = <<>> \/ answer = <<>> \/ Last(answer) = "nl" THEN <<>> ELSE <<"nl">>

(* The chunks of a text that are not blank. *)
Words(text) == [k \in 1..Cardinality({i \in DOMAIN text : text[i] # "nl"}) |-> "w"]

(* What the agent hears of a model message: ChatRunner skips the blank     *)
(* chunks of a stream, the native loop separates the rounds.               *)
Said(text) ==
  CASE runner = "chat" /\ Streaming -> Words(text)
    [] runner = "native" -> Separator(text) \o text
    [] OTHER -> text

(* The envelope's answer is emitted as a whole, and not if it is blank.    *)
ChunkEvents(said) ==
  IF ~Streaming THEN <<>>
  ELSE IF runner # "envelope" THEN [i \in DOMAIN said |-> ChunkEvent(<<said[i]>>)]
  ELSE IF Contains(said, "w") THEN <<ChunkEvent(said)>> ELSE <<>>

(* The model is called and streams its text; the emitter may refuse a      *)
(* chunk.  The runner goes on at p, "returned" when the answer is complete.*)
Stream(text, p) ==
  LET batch == ChunkEvents(Said(text)) IN
  \E sent \in 0..Len(batch) :
    /\ Hand(batch, sent)
    /\ Spend(sent < Len(batch))
    /\ GoOnUnless(IF sent < Len(batch) THEN "chunk" ELSE "none", p)

ChatGenerate(text) ==
  /\ rpc = "generate"
  /\ Stream(text, "returned")
  /\ answer' = Said(text)
  /\ texts' = Append(texts, text)
  /\ UNCHANGED <<mode, runner, ctx, tools, web, loop, messages, evidence, runs, budget>>

CallsModel == rpc = "generate" \/ (rpc = "round" /\ loop.rounds < MaxIterations /\ ctx = "live")

(* The provider fails, perhaps after some of the text has been streamed. *)
ModelFails(text) ==
  /\ CallsModel
  /\ MayFail
  /\ runner = "envelope" => text = <<>>
  /\ Hand(ChunkEvents(Said(text)), Len(ChunkEvents(Said(text))))
  /\ RunnerReturns("model")
  /\ Spend(TRUE)
  /\ UNCHANGED <<mode, runner, ctx, tools, web, runVars>>

(* Mutant: a loop whose context has ended goes round and round. *)
LoopEndsNever ==
  /\ rpc = "round"
  /\ ~CallsModel
  /\ GoOnUnless(IF loop.rounds >= MaxIterations THEN "limit" ELSE "none", "round")
  /\ UNCHANGED <<mode, runner, ctx, noteVars, runVars, faults>>

(* The rounds are used up, or the context has ended. *)
LoopEnds ==
  /\ rpc = "round"
  /\ ~CallsModel
  /\ RunnerReturns(IF loop.rounds >= MaxIterations THEN "limit" ELSE "ctx")
  /\ UNCHANGED <<mode, runner, ctx, noteVars, runVars, faults>>

Keep(n) == IF n = 0 THEN messages ELSE Append(messages, [role |-> "assistant", calls |-> n])

(* askNative: one model call.  Without tool calls the answer is complete;  *)
(* with them the message is kept and the calls are made in order.          *)
NativeRound(text, n) ==
  /\ rpc = "round" /\ runner = "native" /\ CallsModel
  /\ Stream(text, IF n = 0 THEN "returned" ELSE "call")
  /\ answer' = answer \o Said(text)
  /\ texts' = Append(texts, text)
  /\ loop' = [loop EXCEPT !.rounds = @ + 1, !.left = n]
  /\ messages' = Keep(n)
  /\ UNCHANGED <<mode, runner, ctx, tools, web, evidence, runs, budget>>

(* askEnvelope: the reply is a plain or a final answer. *)
EnvelopeAnswer(text) ==
  /\ rpc = "round" /\ runner = "envelope" /\ CallsModel
  /\ Stream(text, "returned")
  /\ answer' = IF Streaming /\ ~Contains(text, "w") THEN <<>> ELSE text
  /\ texts' = Append(texts, text)
  /\ loop' = [loop EXCEPT !.rounds = @ + 1]
  /\ UNCHANGED <<mode, runner, ctx, tools, web, messages, evidence, runs, budget>>

(* askEnvelope: the reply is a tool call, or JSON that cannot be parsed. *)
EnvelopeCall(garbled) ==
  /\ rpc = "round" /\ runner = "envelope" /\ CallsModel
  /\ garbled => MayFail
  /\ GoOnUnless(IF garbled THEN "garbled" ELSE "none", "call")
  /\ Spend(garbled)
  /\ loop' = [loop EXCEPT !.rounds = @ + 1, !.left = 1]
  /\ UNCHANGED <<mode, runner, ctx, noteVars, messages, texts, answer, evidence, runs, budget>>
-----------------------------------------------------------------------------
(* The message that answers the call in hand: the native protocol gives    *)
(* every call a tool message with its id, the envelope repeats the request *)
(* and the result.                                                         *)
Reply == (IF runner = "native" THEN <<>> ELSE <<[role |-> "assistant", calls |-> 1]>>)
           \o <<[role |-> "tool", id |-> loop.calls]>>

Answered ==
  /\ messages' = messages \o Reply
  /\ loop' = [loop EXCEPT !.left = @ - 1, !.tool = "none"]
  /\ rpc' = IF loop.left = 1 THEN "round" ELSE "call"
  /\ UNCHANGED err

Abort(e) == RunnerReturns(e) /\ UNCHANGED <<messages, loop>>

(* Mutant: a call that failed is skipped without a tool message. *)
RecoverSilently(e) ==
  IF runner = "native"
  THEN /\ loop' = [loop EXCEPT !.left = @ - 1, !.tool = "none"]
       /\ rpc' = IF loop.left = 1 THEN "round" ELSE "call"
       /\ UNCHANGED <<messages, err>>
  ELSE Abort(e)

(* A recoverable failure goes back to the model over the native protocol   *)
(* and ends the question over the envelope.                                *)
Recover(e) == IF runner = "native" THEN Answered ELSE Abort(e)

(* The next call is taken, and counts, unless the limit is reached. *)
TakeCall(name) ==
  /\ rpc = "call"
  /\ IF loop.calls < MaxToolCalls
     THEN /\ GoOnUnless("none", "taken")
          /\ loop' = [loop EXCEPT !.calls = @ + 1, !.tool = name]
     ELSE RunnerReturns("limit") /\ UNCHANGED loop
  /\ UNCHANGED <<mode, runner, ctx, noteVars, messages, texts, answer, evidence, runs, budget, faults>>

(* A call without a name is refused, and nobody observes it. *)
CallNameless ==
  /\ rpc = "taken" /\ loop.tool = "none"
  /\ Recover("tool")
  /\ UNCHANGED <<mode, runner, ctx, noteVars, texts, answer, evidence, runs, budget, faults>>

(* Calls that fail before the tool runs: the arguments cannot be decoded   *)
(* or do not fit the schema, the tool is unknown, the policy denies it.    *)
(* Only the end is observed.                                               *)
CallRejected(why) ==
  /\ rpc = "taken"
  /\ CASE why = "undecodable" -> runner = "native"
       [] why = "unknown" -> loop.tool = "unknown"
       [] OTHER -> loop.tool \in Registered
  /\ LET batch == EndBatch(loop.tool, web.found) IN
       /\ tools' = endTool(tools, loop.tool, TRUE)
       /\ \E r \in Reports(batch) :
            /\ Observe(batch, r)
            /\ web' = Drained(loop.tool, web.found, r)
            /\ Spend(ReportError(batch, r) # "none")
            /\ IF ReportError(batch, r) # "none" THEN Abort(ReportError(batch, r))
               ELSE IF why = "denied" THEN Abort("denied") ELSE Recover("tool")
  /\ UNCHANGED <<mode, runner, ctx, texts, answer, evidence, runs, budget>>

CallStart ==
  /\ rpc = "taken" /\ loop.tool \in Registered
  /\ LET batch == StartBatch(loop.tool) IN
       /\ tools' = startTool(tools, loop.tool)
       /\ \E r \in Reports(batch) :
            /\ Observe(batch, r)
            /\ Spend(ReportError(batch, r) # "none")
            /\ GoOnUnless(ReportError(batch, r), "running")
  /\ UNCHANGED <<mode, runner, ctx, web, runVars>>

(* The tool has run and its end is reported.  An error of the report is    *)
(* dropped when the tool itself failed; a failure under an ended context   *)
(* is not recoverable.                                                     *)
CallEnd(failed) ==
  /\ rpc = "running" /\ runner # "chat"
  /\ failed => MayFail
  /\ LET found == Found(loop.tool, IF failed THEN "error" ELSE "text")
         batch == EndBatch(loop.tool, found)
     IN  /\ tools' = endTool(tools, loop.tool, failed)
         /\ \E r \in Reports(batch) :
              /\ Observe(batch, r)
              /\ web' = Drained(loop.tool, found, r)
              /\ Spend(failed \/ ReportError(batch, r) # "none")
              /\ IF failed THEN IF ctx = "live" THEN Recover("tool") ELSE Abort("ctx")
                 ELSE IF ReportError(batch, r) = "none" THEN Answered ELSE Abort(ReportError(batch, r))
  /\ runs' = runs + 1
  /\ UNCHANGED <<mode, runner, ctx, texts, answer, evidence, budget>>

RunnerStep ==
  \/ EnterRunner
  \/ \E cached \in BOOLEAN : ChatPrompt(cached)
  \/ ChatToolStart \/ ChatToolsEnd
  \/ \E outcome \in {"text", "blank", "error"} : ChatToolEnd(outcome)
  \/ \E text \in Text :
       ChatGenerate(text) \/ ModelFails(text) \/ EnvelopeAnswer(text)
         \/ \E n \in 0..MaxCalls : NativeRound(text, n)
  \/ \E garbled \in BOOLEAN : EnvelopeCall(garbled)
  \/ LoopEnds
  \/ \E name \in Registered \cup {"unknown", "none"} : TakeCall(name)
  \/ CallNameless
  \/ \E why \in {"undecodable", "unknown", "denied", "invalid"} : CallRejected(why)
  \/ CallStart
  \/ \E failed \in BOOLEAN : CallEnd(failed)
=============================================================================
