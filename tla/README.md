# TLA+ models of go-rag-agent

`go-rag-agent` is a Go library (package `ragagent`): an `Agent` imports
documents into a vector store and answers questions about them in `Session`s,
with the help of chat, embedding and search providers, tools and memories. The
library starts no goroutines of its own; all concurrency comes from the program
that embeds it, whose goroutines call one agent, one session and one provider at
the same time, and from callbacks, stream emitters and tools that call back into
the library. These modules model the parts of the code in which the order of
such calls, their failures, and crashes matter.

Source references are to files of the repository, written `file.go:line`.

## Inventory

| Component | State | Operations | Interacts with | What is hard | What makes it correct |
|---|---|---|---|---|---|
| Gate (`agent.go`) | `closed`, `inFlight`, `opCond`, `callbackDepth` | `beginOperation`, `endOperation`, `runTelemetryCallback`, `Close` | every public operation | check–lock–check against an atomic flag; a condition variable; `Close` from a callback | the store outlives every operation; one closer; no lost wake-up; `Close` ends |
| Session (`session.go`, `internal/memory/history.go`) | `execSlot`, `closed`, `executing`, `emitting`, `pendingClear`, `pendingClose`, history | `Ask`, `AskStructured`, `AskStream`, `ClearHistory`, `Close` | gate, history store, callbacks | postponed clear and close; the external store called without the lock; panics | one question at a time; the history is the recent answers; clear and close take effect |
| Registry (`agent.go`) | `sessions` map | `GetSession`, `Close` | gate, session | a map set to nil while others look it up | no write to a nil map; admitted questions are answered; everything is closed in order |
| Governor (`provider_governor.go`, `provider_resilience.go`) | breaker state, failure count, half-open slots, token bucket | `acquire`, `finish`, `abort`, the retry loops | all providers of all goroutines | late answers applied to a breaker that moved on; aborted waits; panics; retries of streams | no slot leaked but by a panic; opens only on a streak; stays open for its window; recovers while a slot is left |
| Knowledge (`session.go`, `knowledge_lifecycle.go`, `directory_sync.go`, `internal/storage/chromem_store.go`) | the index, the manifest on disk and in memory | `AddKnowledge`, `RemoveKnowledge`, `RebuildKnowledge` | file system, store, gate | several steps that can each fail or be cut by a crash; files that change meanwhile | index mirrors the source; nothing indexed is forgotten; updates do not hide files |
| Question pipeline (`agent.go`, `trace.go`, `web_citations.go`) | trace, emitted events, tool budget, collected citations | `askWithFormatLocked`, `askStreamLocked`, `retrieve` | runner, memory provider, trace recorder, session | some thirty returns, each with its own duties; emitters, callbacks and recorders that fail | one end of a stream, nothing after it; caller, trace, memory and history agree |
| Tool-calling runner (`tool_calling_runner.go`) | messages, rounds, tool budget | `askNative`, `askEnvelope`, `executeTool` | tools, chat providers | rejected, failed and successful calls; text split over rounds | every call answered in order; limits kept; streamed and kept answer agree |
| Chat runner and prompt (`internal/graph`, `prompt_cache.go`) | cache entries | `messagesForRequest`, `buildPromptMessages`, `Get`, `Set`, `Delete`, `Clear`, `Stats` | Redis, fallback tools | two levels, expiry, order of use; budgets that may be negative | the list is the order of use; age; clear; the prompt fits |
| Retrieval (`internal/retrieval`, `internal/rag`, `internal/storage/chromem_store.go`) | none of its own | `SearchDetailed`, `SearchWithFilter`, fusion, rerankers, `AssembleContext` | the store, while others change it | count and query are two calls; fallbacks of fallbacks; ties | hits are sound on every path; fallbacks are reported |
| Long-term memory (`long_term_memory.go`, `memory_provider.go`) | records with scope and expiry | `storeLongTermMemory`, `retrieveLongTermMemory`, `ClearSession`, `PruneExpired` | pgvector store | one store in the process and one shared | recall stays in session and scope and in time |
| pgvector store (`pgvector_store.go`) | table, connection pool | `New`, `Upsert`, `DeleteBySourcePaths`, `Close` | PostgreSQL, other instances | interleaved transactions; half-done initialisation | imports are atomic; deletions last; pools are accounted for |
| History stores, trace store, access boundary | records | store, search, prune | external services | limits | not modelled, or by their interface |
| Configuration, evaluation, converters, HTTP clients, adapters, examples | – | – | – | straight-line code or pure I/O | not modelled |

`PROJECT.json` lists every component with its sources and status, and under
`hazards` what is hard to test in this code, line by line, with the properties
that would notice it going wrong.

## Modules

| Module | Models |
|---|---|
| `Goroutines` | the set of calling goroutines, shared by all components |
| `AgentGate` | the admission gate of an agent |
| `Conversation` | abstract: what a session promises |
| `Session` | one session, implementing `Conversation` |
| `Agent` | composition: gate, registry and session |
| `AgentProofs` | proofs about `AgentGate`, `Session` and `Agent` |
| `ProviderGovernor` | breaker, token bucket and retry loops of one provider |
| `ProviderGovernorProofs` | proofs about `ProviderGovernor` |
| `KnowledgeSync` | the knowledge operations, the manifest and the index |
| `KnowledgeProofs` | proofs about `KnowledgeSync` |
| `Runners` | the two runners that turn a prepared question into an answer: chat, and the tool loop over the native protocol or the envelope |
| `Question` | one question after another through the pipeline, around `Runners` |
| `QuestionProofs` | proofs about `Question` and `Runners` |
| `Lists` | operators on sequences: the first elements, those of a set, sorting |
| `ListTheorems` | what those operators do to sequences of any length, and the lemmas about induction and folds which that takes |
| `PromptCache` | the prompt cache in memory, and in front of Redis |
| `CacheProofs` | proofs about `PromptCache` |
| `VectorStore` | abstract: what a store of chunks promises to those who import and delete |
| `PgVectorStore` | the store of several instances in one PostgreSQL, implementing `VectorStore` |
| `LongTermMemory` | memories in the process or in that store |
| `StoreProofs` | proofs about `PgVectorStore` and `LongTermMemory` |
| `Ranking` | pure operators: lexical search, fusion, reranking, evidence, prompt budgets |
| `Retrieval` | one retrieval through `Ranking` over the embedded store, while the store changes |
| `RetrievalProofs` | proofs about `Ranking` and `Retrieval` |
| `MC*` | instances for TLC |

Operators whose comment begins with "Mutant" are single-fault variants of the
definition that follows them; `PROJECT.json` says which property each of them
breaks. They are not part of any specification.

### AgentGate

State and code agree name by name; `opc` and `cpc` are the program counters of
each goroutine in an operation and in `Close`. `beginOperation` is split at the
points where `Close`, which sets `closed` without taking `opMu`, can fall
between: the check before the lock (`CheckOpen`), the check under the lock
(`RecheckOpen`), the increment (`Admit`). `opCond.Wait` is the position
"waiting", which gives `opMu` up; `Broadcast` sends waiters back to their test.
`ToolsMayClose` tells whether tools may call `Close`: the code turns `Close`
away only inside callbacks (`callbackDepth`), so a tool that calls it waits for
its own question. The runs assume that tools do not do it; the proofs of
the safety properties, `NoSelfWait` aside, need no such assumption. The type
invariant, the exactness of the counter, `OneCloser` and `NoSelfWait` are proved
and are not checked by a run.

### Session and Conversation

`apc` follows a question through `isEmittingCallback`, `beginOperation`, the
token channel, `beginExecution`, `loadHistory`, the body, `commitHistory`, the
trace record, `endExecution`, `joinPendingHistoryClear` and the deferred
release. The body (retrieval, model, tools) is a position from which callbacks
are run, and which succeeds, fails or panics: what it computes does not touch
the session. `Ask` and `AskStructured` record their trace in a deferred function
after the commit; `AskStream` records it before. Calls of a `HistoryStore` are
steps of their own ("commitIO", "flushIO", "clearIO") because they are made
without the lock. `emitting`, the flag that turns questions away while a
callback runs, is a Boolean shared by all goroutines: `EmittingExact` says that
it is up exactly while one of them is in a callback, panics of callbacks included.

A turn is its number and the number of the last turn it has seen, so that the
history can be compared with what was asked. `turns`, `answered`, `cleared`
and `closeAsked` are observers.

`Conversation` is the same object without goroutines: begin, finish, forget,
shut. `KeepsPromise` says that a session with its history in the process
implements it, under the mapping at the end of `Session`.

### Agent

`Agent` extends `AgentGate` and `Session`; its actions conjoin an action of each
with the registry, so that a behaviour of the composition is, by the way it is
written, one of the gate and one of the session. What is shown of them holds of
it, and what its own runs check is what neither of them has alone: admission and
token, registry and `Close` together.

### ProviderGovernor

One action per critical section of the breaker and of the bucket, one for the
provider's answer. Time is three events: the open window elapses, the bucket
gains a token, a backoff ends. Error classes are merged where the code treats
them alike. `streak` is an observer of the reports in a row. `Recover` is the
environment: from there on the provider no longer fails.

`Panics` is a provider, or the emitter it streams to, that panics. The report to
the breaker is an ordinary statement after the call and not deferred
(`provider_resilience.go:118`, `:178`, and the loops of embedding and search), so
the panic skips it, and a half-open probe never gives its slot back. `leaked`
counts these slots, up to `MaxLeaks`. `ProbeCountExact` says that nothing else
leaks one, and `BreakerRecovers` that a healthy provider closes the breaker unless
panics have taken all `HalfOpenMaxCalls` of them; from then on it refuses every
call.

### KnowledgeSync

Files hold one of four contents (absent, empty, one chunk, two chunks). An
operation is a job that goes through listing, loading, the lock, `Upsert` (add,
then delete stale chunks), `DeleteBySourcePaths`, the write of the manifest
(truncate, then write) and the commit in memory. `Failures` lets contexts end and
stores and disks fail, with any part of the work done. `Crashes` lets the process
end at any time, in an operation or between two; `up` tells whether there is an
agent. `Restart` is `New` on the same `DataDir`: it loads the manifest, and it
fails, so that there is no agent, on one that was truncated and not written. The
truncation empties `manifest`, as the file on disk then holds no path. Files
change between any two steps. All files of a listing are read in one step: the
properties compare with what was read. `fresh` remembers the last successful
operation as long as nobody else has written to the index, so that `MirrorsSource`
can say what it should have left there. `MirrorsSource` is about runs in which
nothing fails. With failures and crashes `RetryRepairs` remains: a success leaves
the index right for every file in which it found text, whatever the failures
before it had left half done. `ForgetsOnlyDeleted` is about what will still be
deleted, the roots in memory or, while there is no agent, the manifest; its one
exception is a process that ends while the manifest is truncated.

### Runners and Question

`stage` is the position in `askWithFormatLocked` or `askStreamLocked`, `rpc` the
position in the runner, `mode` is "ask", "structured" or "stream", and `runner`
tells the three ways to an answer apart. `AskStructured` takes the path of `Ask`
but for its two ends: its instruction may fail before anything else
(`InstructionFails`), and its answer is decoded (`Decode`) after trace, memory and
history have been told. Every early return of the code is a disjunct: `Return`
where the caller alone learns of the error, `Failing` where a trace (of `Ask`, in
its deferred function) or an error event and a trace (of `AskStream`, in
`emitError`) follow. Emitters accept any part of what is handed to them (`Hand`);
telemetry callbacks, recorders, stores, tools and models may fail or panic,
`MaxFaults` times in a question, and without bound once the context has ended.
`tools` is `trace.ToolCalls`, with the rule of `endTool` that the most recent open
record of a name ends. The text of a model message is a sequence of chunks, with
words or blank, because the newline between rounds and the dropping of blank
chunks depend on nothing else. Arguments of a tool call are right or wrong.

`OutcomeTold` compares, at the return of a question, what caller, stream, trace,
memory and history were told. It says what the code guarantees and no more: a
stream that fails before its first event or inside its emitter has no trace, and an
answer of `AskStructured` that cannot be decoded (`Undecoded`) is an error to its
caller although trace, memory and history have it as a success.

### PromptCache

Each operation of the cache in memory is one step, since it holds the mutex;
every call of Redis is a step of its own and may fail. The entries are told
apart by the time of their building and by the number of clears that had begun
(`built`, `clears`), which is what the two properties about age and about clears
look at; `recency` is an observer that keeps the keys in the order of their
use without ever forgetting one, against which the list is compared.

### VectorStore, PgVectorStore, LongTermMemory

`VectorStore` has two actions: an import replaces the chunks of its parents at
once, and a deletion removes chunks of its paths. `PgVectorStore` splits an
import into the statements of its transaction and a deletion into the rows it
locks, at the isolation level READ COMMITTED which the code leaves in place:
PostgreSQL itself is external and modelled as the code relies on it (row locks,
re-evaluation, deadlock victims, commits of unknown outcome). `StoreKeepsPromise`
is the refinement. The initialisation looks for each object and then creates it,
so that two instances may race; `Open` and `Dispose` say who owns the pool for
each of the four ways to come by one.

`LongTermMemory` adds the store in the process, scopes and time. A memory is a
parent with one chunk whose source path is its session, as in the code, so that
clearing a session is `DeleteBySourcePaths`. `Recalls` is what a search may
return, whatever the similarities are.

### Ranking and Retrieval

The operators of `Ranking` are pure and work on chunks as numbers; a reciprocal
rank is multiplied by the product of all denominators, so that fused scores are
compared exactly where the code compares floats. `Retrieval` runs
`SearchDetailed` over a store that other goroutines change between the count and
the query of a search, with its fallbacks (hybrid to vectors, reranked to
fused), and goes on to evidence and prompt. Its properties are the reference
definitions: `FusionRespects`, for instance, speaks of places in the two
lists and not of scores. `Similarities` and `Words` are constants, sets of
integers and of natural numbers; every assignment of their members to the chunks is
an initial state. The run has three similarities, below, at and above the threshold,
which rank three chunks in every way, ties included, and a word of the query in a
chunk or not.

## Runs

Bounds are chosen so that every action fires and the interesting orders fit. Two
goroutines race on every shared variable; the third of `agent` lets one wait for a
token or a lock while two others move. Goroutines are symmetric in the runs that
check safety only.

| Run | Shows | Bounds, and why they are enough |
|---|---|---|
| `session` | a session with its history in the process: the history, `Close`, every call returns, and it implements `Conversation` | two goroutines; three turns (and those that passed the bound before it was reached) against `MaxRounds = 2`, so the history is trimmed |
| `session_external` | a `HistoryStore` that fails, and panics: questions stay serialised, calls are turned away exactly while a callback runs, and a failed question honours a clear | two goroutines, two turns |
| `agent` | safety of the composition: the store outlives every operation, `Close` is always woken, admitted questions are answered, everything is closed | three goroutines, one turn: histories are the matter of `session` |
| `agent_live` | `Agent.Close` completes (tools do not call it), with a `HistoryStore` that fails and panics | two goroutines, one turn |
| `governor` | breaker, bucket and retries, with panics: safety, and the breaker recovers | `FailureThreshold = 2` and `RetryMaxAttempts = 2` make a streak, a success that breaks one, and a retry possible; `MaxLeaks = 2` |
| `knowledge` | the index mirrors the source and files stay searchable, without failures | two edits and three operations: a file appears, is imported, changes or vanishes and is imported again, with a removal or a rebuild in between |
| `knowledge_failures` | a success repairs what failures left, the manifest under failures and ends of the process; operations return | the same with one file in the directory and two operations, any number of faults |
| `question` | events, trace, memory, history and limits agree, for `Ask`, `AskStructured` and `AskStream`; questions return | two tools, two rounds with two calls of two tools each against two allowed calls: the limit is met in the middle of a message; one fault, at any place |
| `cache` | order of use, ages and clears, in memory and on two levels | three keys against two entries: one must be evicted; four operations; times to live of two ticks in a run of four |
| `memory` | imports and deletions of two instances are atomic and last; scopes, expiry and pools | two instances, a document of one or two chunks, two memories of different tenants of one session; three operations, one fault |
| `retrieval` | hits, fusion, fallbacks, evidence and prompt | every ranking of three chunks, of which the second is too long for the evidence and the third outside the filter, with `TopK = 2`; two changes of the store, which can hit both searches; one fault |

Deadlock is checked except in the runs `knowledge`, `knowledge_failures`,
`cache`, `memory` and `retrieval`, where the bounds on operations (or the end of
the retrieval) let the system stop. In `question` the text of a message has at
most one chunk, so a blank chunk and one with words fall in different rounds.

### The run that ends in a counterexample

`session_clear_lost`: with a `HistoryStore`, a `ClearHistory` that falls between
the commit of a turn and `endExecution` is not carried out for that turn: it
stays. `findings` in `PROJECT.json` quotes the README's sentence that says otherwise.

### Known differences without a run of their own

Where the code does something else than its documents say, or than one might
expect, the models follow the code. Constants keep some of these behaviours out
of the runs whose properties they break; the properties of the others are stated
so that they hold of the code as it is.

Sessions, governor and knowledge:

- A question that fails after its commit, because its trace cannot be
  recorded (`agent.go:972`) or its structured answer not be decoded (`agent.go:839`),
  leaves its turn in a `HistoryStore`, where README.md:1949 speaks of questions that
  succeed; a history in the process drops it. The memory keeps it in both cases, and in
  the second the trace says success.
- A stale failure that reopens the breaker under a half-open probe lets the first call
  after the next window be a probe beside it: the transition from open is not
  measured against `HalfOpenMaxCalls` (`provider_governor.go:207`; README.md:346).
- A provider that panics in a half-open probe leaks the probe's slot
  (`provider_resilience.go:118`); when `HalfOpenMaxCalls` are leaked the breaker
  refuses every call for as long as the provider lives.
- `os.WriteFile` truncates the manifest before it writes it (`directory_sync.go:118`).
  A process that ends in between loses the tracked paths, and `New` fails until the
  file is removed, where README.md:961 promises that the state survives a restart. It
  is the exception of `ForgetsOnlyDeleted`.
- Chunks that a failed import has added under a file that is then deleted stay
  in the index: the manifest never knew of them (`directory_sync.go:64`;
  README.md:958).
- `EmptyFiles`: a file that has become empty produces no chunks and is skipped
  (`session.go:385`), so its old chunks survive a successful import;
  `MirrorsSource` fails.
- `RawPaths`: chunks of a `FileSource` carry its path as given, `RemoveKnowledge`
  deletes by `filepath.Clean` of it (`knowledge_lifecycle.go:61`); a file imported
  as `./x.md` is not removed by the same source, and `MirrorsSource` fails.
- A directory that was deleted cannot be removed from the knowledge:
  `os.IsNotExist` (`knowledge_lifecycle.go:35`) does not recognise the wrapped
  error of `source.go:96` (`ResolveFails`).
- `MayPanic`: `endExecution` (`session.go:62`) is not deferred; after a panic of a
  tool or provider that the caller recovers, `Close` only sets `pendingClose`, and
  later questions execute; `CloseIsFinal` fails.
- The guard against questions from callbacks (`session.go:41`) refuses the
  questions of other goroutines too while a callback runs (`Enter`).
- `ToolsMayClose`: a tool that calls `Agent.Close` waits for its own question;
  `NoSelfWait` and `AgentCloses` fail. The other properties of the gate are
  proved without this restriction.
- `RebuildKnowledge` removes before it imports: a failed import leaves the source
  removed.

Questions:

- A stream that fails in the access boundary, in memory retrieval, in the
  model-start callback or in its emitter returns its error with no error event
  and no trace (README.md:1522).
- A stream emits its done event before memory and history are stored: its caller
  may get an error after it (`agent.go:1149`).
- The trace of a stream lacks the citations of the web search, which it takes
  over before the tools run (`agent.go:1072`); `Ask` has them.
- A blank chunk of a stream of the `ChatRunner` is dropped; the answer of `Ask`
  keeps it.
- When a tool of the native loop has failed, the error of the emitter at its end
  is dropped too.
- A prompt with the results of fallback tools is cached under a key that does
  not contain them (`internal/graph/chat_runner.go:97`).

Stores and retrieval:

- A two-level cache may copy a prompt back from Redis after a `Clear` that ran at
  the same time; `ClearedForGood` speaks of clears that ran alone.
- `NewPGVectorStore` with a pgorm configuration does not close the client it has
  opened when its initialisation fails (`pgvector_store.go:211`); of the races of
  two initialisations it forgives only that of the extension.
- A `DeleteBySourcePaths` that runs into an import of the same path may leave
  part of the document; `DeletedForGood` speaks of deletions without one.
- The vector memory takes the closest `TopK` before it drops expired and foreign
  ones, so it may find less than there is; `PruneExpired` exists only in the
  process.
- The count and the query of the embedded store are two calls: a deletion in
  between makes the query fail (`chromem_store.go:171`). A hybrid search then
  falls back to vectors; if that fails too, no fallback is reported.
- A reranking model that answers with an empty list leaves no hits, and the
  question ends with insufficient evidence instead of the fused order.
- The headings of evidence and memory, and fixed messages that are too long by
  themselves, can exceed `MaxPromptTokens`; `PromptWithinBudget` counts them.

## Fairness

- A goroutine inside a call keeps running: Go's scheduler is preemptive, and
  every model call, tool and store call ends with its context. Weak fairness.
- Mutexes and channels are handed out fairly: `sync.Mutex` enters starvation
  mode after 1 ms, channel waiters queue. Strong fairness of the acquiring steps.
- A question runs finitely many callbacks (tool calls and provider attempts are
  capped and the execution budget expires): strong fairness of the steps that
  leave the body. Callbacks return.
- Every tool, model, store and recorder of a question returns, if only because
  its context ends: weak fairness of the step of the question. That the loop
  ends although the model may ask for tools for ever is then a property
  (`QuestionReturns`), not an assumption.
- `FairGovSpec` also assumes that somebody goes on calling the provider, that
  not all calls are canceled, and that time passes.
- Nobody has to start an operation, a question or a `Close`.

## Proofs

`AgentProofs` begins with the gate. It proves, for every finite set of
goroutines, that the gate satisfies `GateTypeOK`, `StoreOutlivesOperations`,
`InFlightExact`, `OneCloser` and `NoLostWakeup`, and, if `~ToolsMayClose`,
`NoSelfWait`. The only assumptions are that `Threads` is finite and not empty
and that `ToolsMayClose` is Boolean.

The inductive invariant `GateInv` is the conjunction of the first five with
`DepthExact`: `callbackDepth` is the number of goroutines in a callback (without
it the type of the decremented counter is not preserved, and `NoSelfWait` cannot
conclude from a zero depth that the caller of `Close` is not in a callback). The
parts need each other: the drain loop is left with no operation in flight
because the counter is exact; nobody is admitted afterwards because `closed` was
set before (`OneCloser`) and because `StoreOutlivesOperations` also says that
`opMu` is free, so that no goroutine is between its second check and its
increment (this is where the second check of `beginOperation` is needed).

`ProviderGovernorProofs` proves `GovTypeOK`, `ProbeCountExact`, `OnePrefix`,
`TripsOnlyOnStreak` and `OpenHoldsItsWindow`, for every finite set of goroutines
and all positive thresholds, bursts and numbers of attempts. The inductive
invariant `GovInv` adds to the first three: what the breaker has counted is at
most the streak of failures its callers have seen, and is zero unless the breaker
is closed (`CountWithinStreak`; a streak that ends while the breaker is open
would otherwise leave a count behind); a goroutine in backoff has an attempt left
(`AttemptsLeft`, for the type of the attempt number); and nothing was emitted
before the attempt that is running (`PrefixOfThisAttempt`). The two action
properties follow from it step by step. What is in flight is what
the outstanding probes hold and what panics have leaked, so `leaked` is part of
`ProbeCountExact`, with any number of panics. That there are never more probes than
`HalfOpenMaxCalls` is not among the theorems: it is false (see above).

The counters are cardinalities of sets of goroutines; the lemmas `CountAdd` and
`CountRemove` of `AgentProofs`, `ProbeComes` and `ProbeGoes` of
`ProviderGovernorProofs` say how those change when one goroutine moves.

For the session, `AgentProofs` proves `SessTypeOK`, `OneAtATime`, `EmittingExact`
and `FailedTurnHonoursClear` for every finite set of goroutines and every positive
`MaxHistoryRounds`, with the history in the process or in a store, with and
without panics and failures of the store. `CloseIsFinal` is proved for
`~MayPanic`, and that a session implements `Conversation` (`KeepsPromise`) for
`~External /\ ~MayPanic`: after a panic `executing` stays up until the end of the
next question, and a session over a store promises less (see the runs). The
inductive invariant `SessInv` rests on `OneAtATime`: since only one goroutine at a
time is between taking and returning the token, what it has seen stays true until
it acts on it. The other parts say what that is: `ExecutingKnown`, that a
goroutine that executes has `executing` up, so that `Clear` and `Close` are
postponed and not carried out under it; `Unwound`, the converse, for which there
must be no panics; `FlushDue`, that after a failed question only the store's flush
can still owe a clear; `TurnCurrent`, that the question that executes is the
latest one; `BasisCurrent`, that the history it will append to is the one it
loaded. The last two make `endExecution` exactly the abstract `Finish`; every
other action of the refinement is `Begin`, `Forget`, `Shut` or a stutter.
`HistoryIsRecentAnswers` is proved under the same two hypotheses. Its invariant
`HistoryInv` says that a clear that waits covers the question that executes, which
is the only one not answered yet, and that, unless a clear waits, the history is
in order the most recent turns answered since the last clear (`Recollected`), also
while a question executes. After a panic a clear that is issued before the next
question also takes that question's turn, so the property does not hold there.

Every action of `Agent` is an action of the gate and of the session or leaves
them alone (two lemmas that follow from the definitions and say nothing of the
code), so that what is proved of the two holds of the agent
(`AgentStoreSafe`, `AgentSerialises`), and `GateInv` and `SessInv` may be used to
prove what needs both: `AdmittedNotCutShort`, that `GetSession` never writes to
the nil map that `Close` leaves behind, and `ClosedForGood`, the last for
`~MayPanic` (see the differences above for what a panic does). The inductive
invariant `AgentInv` links the three parts: the position of a goroutine in the
session says where it is in the gate (`Linked`); the registry belongs to
`GetSession` until `Close` takes it, which no goroutine outlives inside the
critical section (`RegistryOwned`); and only a user or a `Close` that has drained
the gate closes a session (`ClosedByWhom`). For `ClosedForGood` it also
says that a session that was handed out stays in the registry, or with the
`Close` that has taken it, until it is closed (`HandedOut`).

`QuestionProofs` proves `QTypeOK`, `NothingAfterTheEnd`, `OutcomeTold`,
`BudgetKept`, `ToolTraceSound`, `CallsAnswered` and `AnswerDelivered` for all
positive `MaxToolCalls` and `MaxIterations`, every list of fallback tools and all
bounds: the runs explore a few tools, chunks and failures, the theorems any
number. The inductive invariant `QInv` contains, beside the types of everything
that grows, where the runner is and what that implies (`InRunner`); what the
counters say at every position, since a budget is checked at one step and used up
at another (`Counted`); for every stage what has been emitted, stored, refused and
recorded, which is what `OutcomeTold` says of the last one (`Outcome`,
`RecordedOnce`); that all tool records but that of the running tool are closed
(`ClosedRecords`) and that there are as many `tool_end` events as closed records
of tools other than the retrieval (`EndsCounted`); and, for the tool loop, that
the calls which the last reply still has to come and the tool messages given make
up what the replies asked for, in order (`Numbered`). The proof has a lemma for
the steps of the pipeline and one for those of the runner for each part; the
lemmas about `Hand`, the emitter that may take only a prefix of a batch, serve all
of them. A new question starts from the initial state.

`AnswerDelivered` speaks of the end of a question. `Told` says it of every step of
the way: as long as nothing has failed, the text of the chunks emitted is the
answer so far, which for the native loop is what the texts of the rounds make
together, and the citations emitted are those found. After an error this need not
be so (a chunk that the emitter refused is in the answer, and a report that broke
off has cited only some of the results), and then the turn is not stored and the
stream not done; that this is what `QInv` says of those stages is why `Told` is
proved on top of it. The one error that is dropped, that of the report on a tool
which itself failed, leaves no citation behind because a failed search finds
nothing. The folds over texts and events are taken apart one round and one event
at a time (`RoundsOneMore`, `HeardOneMore`), and a batch by induction over the
events of it that were accepted.

`KnowledgeProofs` proves `ForgetsOnlyDeleted` and `RetryRepairs` with all failures and
crashes, and `StaysSearchable` and `MirrorsSource` without them, for any number of
directories, files and goroutines. Its hypotheses are about the constants:
`FilesApart`, no file is imported both by itself and with a directory (a
`FileSource` takes no part in `directorySyncState.mu` and may put a file back
that a directory has just deleted and is about to forget; all of the properties
are about files that one source owns), and, for the last two, `RootsApart`,
directories do not overlap, and `Smooth`, the run without failures, crashes and
empty files; `MirrorsSource` also needs `~RawPaths`. The runs satisfy them. The
inductive invariant `SyncInv` of the first two says that an operation stays within the files of its source (`InScope`), that
only one holds the lock (`OneSync`), that the roots in memory are the manifest
unless it is torn, or written and not yet committed, and are gone with the process,
and that a torn manifest holds nothing (`RootsKept`), and that what the manifest
will forget is due to be deleted and, past the deletion, gone (`Deleting`): nobody
else writes to the index under the same directory meanwhile (`Undisturbed`). For
`RetryRepairs`, `Repairing` adds what an import has put in the index so far of the
files in which it found text. For the other two `SmoothInv` adds what was read (`Reading`) and what of it is in the index already
(`Importing`), and that nothing of a directory is in the index that is neither
tracked nor being imported (`Accounted`); the last makes a removal of the
tracked files a removal of all.

`StoreProofs` proves `PoolsAccounted`, `DeletedForGood` and `RecallSound`, and that
the store implements `VectorStore` (`StoreKeepsPromise`), for any number of
instances, parents, chunks and operations, with failures, unknown outcomes and
deadlock victims. Its hypotheses are the assumptions of the modules: a parent has
at least one chunk, a memory exactly one, and no document lies under the prefix of
the source paths of memories, as in the code. The inductive invariant `StoreInv`
says that a written row is locked by one transaction (`LocksExclude`) and, for
each import, that what it has written and has still to write are all chunks of one
version of its parents, and that what else a parent had when it was looked for is
deleted or a target (`Imports`). This lasts until the commit although other
transactions commit in between: who would add rows to the same parent must have
locked its first chunk, which the import has. So a commit is an atomic import; it
would not be one if an import could have no chunk of a parent. `DeletedForGood`
follows with `EmptyStays`: a deletion that no import of its path overlaps has found
all rows. `RecallSound` follows with `MemoriesLast`: rows of memories, written and
still to be written, live for at most the time to live from now on. `PoolsKnown`
is the invariant for `PoolsAccounted`.

`CacheProofs` proves `AgeBounded`, `ClearedForGood` and `LruExact` for any number
of goroutines, keys and entries and all times to live. The first two are not
inductive, as both speak of what the caches hold or served and not of what
goroutines carry from one cache to the other. `AgeInv` bounds the expiry of each
entry by the building of its prompt, and the age of the prompt a goroutine is
about to store: one it built is as old as it was under way, one it found in Redis
may be `Reach` older. `ClearInv` says that carried prompts too are newer than the
last clear that counts, and that a clear nobody overlapped is alone (`Alone`):
nobody else is in the middle of an operation, the local cache stays empty and
Redis holds nothing that was not scanned. `LruInv`, the invariant for `LruExact`,
says that no key occurs twice in the order of use, that every key held is in it,
and that the list is what remains of it without the keys that are not held. Its
steps are laws of the operator `Only` (`ListTheorems`): to take out of a list what
is not in one set and then what is not in another is to take out what is not in
both, so that expiry, deletion and clear keep the list; putting a key in front of
the rest commutes with leaving out others; and what eviction keeps, a beginning of
the list, is the list of the keys in it.

`RetrievalProofs` proves `RTypeOK`, `DegradesHonestly`, `HitsSound`,
`FusionRespects` and `PromptWithinBudget` for every finite set of chunks, all sets
of integers as similarities and of natural numbers as counts of words, and all
limits, multipliers and budgets. The hypotheses are the assumptions of the two
modules; that no chunk's text is empty is one of them, and `Chunker.Split` makes
none. For each property there is an invariant that says what it needs on the way:
`DegradesSoFar` how the search under way came about, in its disjuncts `Descent`
(it is the first one, or it has fallen back once for a reason that was reported
and cost a change or a fault); `HitsSoFar` that candidates pass threshold and
filter and, for a search by vectors of a store that has not changed, that it asks
for enough chunks to fill `TopK` after the filter (`AsksEnough`); `FusesSoFar`
that the fused list is that of two lists of candidates; `PromptSoFar` that nothing
is composed before the end. `FusionRespects` then follows from arithmetic: fused
scores are sums of exact reciprocals, scaled by the product of all denominators,
and two of them at any places in lists of `CandidateLimit` exceed one at any place
if the constant is at least as large (`TwoBeatOne`).

These two modules and `AnswerDelivered` need induction over data. The library's
induction theorems take an operator as parameter, which the provers cannot
instantiate; `ListTheorems` says the same of sets and functions instead. A set of
numbers that has 0 and with each number the next has them all
(`NumbersByInduction`, proved from the pigeonhole principle for finite sets); a fold
over a sequence ends in the set that its steps lead to (`FoldInduction`), exists
(`FoldExists`) and, over a longer sequence, makes one step more (`FoldOneMore`).
From these follow what `Only` returns (`OnlyTakes`, `OnlyKeepsOrder`, `OnlyFront`,
`OnlyOfOnly`) and that every finite set can be sorted by a linear order
(`SortedExists`), without which the `CHOOSE` of `SortedBy` would say nothing.

Only model-checked are the liveness properties (`CallsReturn`, `AgentCloses`,
`BreakerRecovers`, `OperationsReturn`, `QuestionReturns`), which with `ENABLED`
are out of the prover's reach, and the run that finds a violation. Every invariant,
every action property and every refinement of the passing runs is a theorem.

## Not modelled

- Access boundary, query options, configuration, and the schemas and the
  decoding of structured output: comparisons of strings and reflection, without
  state. Their results appear as sets of chunks, as assumptions on constants and as
  steps that may fail.
- Query rewriting: string matching over the history.
- The external history stores beyond the interface `Session` uses: each command
  is one transaction of Redis.
- The bounded store of traces, its summaries and the records of provider calls.
- Evaluation, document converters, LLM and search clients, MCP and component
  adapters, the telemetry dispatcher, examples and commands: pure functions or
  pure I/O.
- Within the modelled components: the texts of questions, answers and chunks;
  embeddings and similarity; the contents of logs; cost accounting; overlapping
  and nested directories; sources other than files and directories; several
  agents on one history store or one `DataDir`.

## Plan

1. The history store in Redis shared by two agents, and the bounded trace store.
2. Overlapping directories in `KnowledgeSync`.
3. The order of reports and costs in the trace, with the bounded trace store.
