---------------------------- MODULE QuestionProofs ----------------------------
(***************************************************************************)
(* Proofs about Question, for every limit, every list of fallback tools    *)
(* and every number of failures: a stream ends once, caller, trace and     *)
(* stores agree on the outcome, the budgets hold, every tool call of the   *)
(* model is answered, the tool records fit the tools that ran, and the     *)
(* turn that is kept is the one the caller was given.                      *)
(***************************************************************************)
EXTENDS Question, ListTheorems

(* What a call may name: a registered tool, another one, or nothing. *)
Names == Registered \cup {"unknown", "none"}

EventTypes ==
  {"retrieve_start", "tool_start", "retrieve_end", "tool_end", "citation", "done", "error"}

EventSet == [type : EventTypes, tool : Names] \cup [type : {"answer_chunk"}, text : Seq(Tokens)]

ToolRecord == [tool : Names, open : BOOLEAN, failed : BOOLEAN]

Message == [role : {"assistant"}, calls : Nat] \cup [role : {"tool"}, id : Nat]

Loop == [rounds : Nat, calls : Nat, left : Nat, next : Nat \ {0}, tool : Names]

NewLoop == [rounds |-> 0, calls |-> 0, left |-> 0, next |-> 1, tool |-> "none"]

(* The types, those of QTypeOK and those of what grows with the question. *)
Types ==
  /\ mode \in Modes /\ runner \in {"chat", "native", "envelope"}
  /\ ctx \in {"live", "ended"} /\ faults \in 0..MaxFaults
  /\ stage \in Stages /\ err \in Errors
  /\ refused \in {"none", "low_similarity", "no_evidence", "tool_failure"}
  /\ recorded \in Seq({"success", "failure", "refused"})
  /\ memorized \in BOOLEAN /\ committed \in BOOLEAN /\ evidence \in BOOLEAN
  /\ events \in Seq(EventSet) /\ tools \in Seq(ToolRecord)
  /\ web \in [found : Nat, emitted : Nat] /\ web.emitted <= web.found
  /\ budget \in Nat /\ runs \in Nat
  /\ loop \in Loop
  /\ messages \in Seq(Message) /\ texts \in Seq(Seq(Tokens)) /\ answer \in Seq(Tokens)

(* The runner is entered once, from the pipeline; while it runs there is   *)
(* no error yet, and the tool it has in hand is a registered one.          *)
BeforeModel == {"begin", "history", "access", "announce", "retrieve", "unanswerable", "memory",
                "evidence", "model"}

InRunner ==
  /\ rpc = "idle" <=> stage # "runner"
  /\ rpc \in {"idle", "entry", "returned"}
       \cup (IF runner = "chat" THEN {"prompt", "fallback", "running", "generate"}
                                ELSE {"round", "call", "taken", "running"})
  /\ rpc \notin {"idle", "returned"} => err = "none"
  /\ rpc \in {"call", "taken", "running"} /\ runner # "chat" => loop.left > 0
  /\ rpc = "running" /\ runner = "chat" => loop.next <= Len(FallbackTools)
  /\ stage \in BeforeModel \/ rpc = "entry" =>
       texts = <<>> /\ messages = <<>> /\ answer = <<>> /\ loop = NewLoop
  /\ ~Streaming => err \notin {"chunk", "emit"}

(* What the budgets count. *)
InUse == IF rpc = "running" \/ (rpc = "taken" /\ runner # "chat") THEN 1 ELSE 0

Counted ==
  /\ stage \in {"begin", "history", "access", "announce", "retrieve"} => runs = 0 /\ budget = 0
  /\ budget <= MaxToolCalls
  /\ stage \in BeforeModel \/ rpc = "entry" => runs <= budget /\ budget <= 1
  /\ runner = "chat" =>
       /\ runs + InUse <= budget
       /\ Len(texts) <= IF rpc \in {"prompt", "fallback", "running", "generate"} THEN 0 ELSE 1
  /\ runner # "chat" =>
       /\ runs + InUse <= 1 + loop.calls /\ loop.calls <= MaxToolCalls
       /\ Len(texts) <= loop.rounds /\ loop.rounds <= MaxIterations

(* What each stage knows of the outcome. *)
Undecided == BeforeModel \cup {"runner", "done", "failing"}

Ended(type) == Events(type) # {}

Outcome ==
  /\ stage \in {"announce", "evidence", "done", "failing"} => Streaming
  /\ stage \in Undecided =>
       recorded = <<>> /\ ~memorized /\ ~committed /\ ~Ended("done") /\ ~Ended("error")
  /\ stage \notin {"runner", "unanswerable", "failing", "record", "returned"} =>
       err = "none" /\ refused = "none"
  /\ stage = "runner" => refused = "none"
  /\ stage \in {"unanswerable", "failing"} => err # "none"
  /\ stage \in {"unanswerable", "failing", "record"} =>
       (err = "none" => refused = "none") /\ (err = "limit" => refused = "tool_failure")
  /\ stage \in {"unanswerable"} => err # "limit"
  /\ stage = "record" =>
       /\ recorded = <<>>
       /\ Streaming => /\ ~memorized /\ ~committed
                       /\ (Ended("done") <=> err = "none") /\ (Ended("error") <=> err # "none")
       /\ ~Streaming => IF err = "none" THEN memorized /\ committed ELSE ~committed
  /\ stage \in {"memorize", "commit"} =>
       /\ (memorized <=> stage = "commit") /\ ~committed
       /\ IF Streaming THEN recorded = <<"success">> /\ Ended("done") /\ ~Ended("error")
                       ELSE recorded = <<>>
  /\ stage = "decode" => mode = "structured" /\ memorized /\ committed /\ recorded = <<"success">>
  /\ ~Streaming => ~Ended("done") /\ ~Ended("error")

(* A tool record is open while its tool runs, or after a failure. *)
Open == {i \in DOMAIN tools : tools[i].open}

AtWork == IF runner = "chat" THEN FallbackTools[loop.next] ELSE loop.tool

ClosedRecords ==
  /\ Open \subseteq {Len(tools)}
  /\ rpc = "running" => Open = {Len(tools)} /\ tools[Len(tools)].tool = AtWork
  /\ rpc # "running" /\ err = "none" => Open = {}
  /\ recorded = <<"success">> => Open = {}
  /\ stage \in {"begin", "history", "access", "announce", "retrieve"} => tools = <<>>

(* The records a stream announces. *)
Announced == {i \in DOMAIN tools : tools[i].tool # RetrieveTool}

EndsCounted ==
  /\ Streaming =>
       /\ stage \in {"begin", "history", "access", "announce", "retrieve", "memory", "evidence"} =>
            Events("tool_end") = {} /\ Announced = {}
       /\ err = "none" /\ stage \in {"model", "runner", "done", "record"} =>
            Cardinality(Events("tool_end")) = 1 + Cardinality(Announced \ Open)
       /\ recorded = <<"success">> =>
            Cardinality(Events("tool_end")) = 1 + Cardinality(Announced)

(* The messages of a role; how many of the calls of its messages a         *)
(* sequence still owes a tool message; the ids its tool messages give.     *)
OfRole(s, role) == {i \in DOMAIN s : s[i].role = role}

Owes(s, due) ==
  \A i \in OfRole(s, "assistant") :
    /\ i + s[i].calls <= Len(s) + due
    /\ \A j \in 1..s[i].calls : i + j <= Len(s) => s[i + j].role = "tool"

Gives(s, n) ==
  /\ \A i, j \in OfRole(s, "tool") : i < j => s[i].id < s[j].id
  /\ {s[i].id : i \in OfRole(s, "tool")} = 1..n

(* The calls still to be answered, and the ids already given.              *)
ToCome == IF runner = "native" /\ rpc \in {"call", "taken", "running"} THEN loop.left ELSE 0
Given == IF rpc \in {"taken", "running"} THEN loop.calls - 1 ELSE loop.calls

Numbered ==
  rpc \in {"entry", "round", "call", "taken", "running"} /\ runner # "chat" =>
    /\ Owes(messages, ToCome)
    /\ messages # <<>> => messages[1].role = "assistant"
    /\ runner = "native" /\ rpc \in {"call", "taken", "running"} => messages # <<>>
    /\ rpc \in {"taken", "running"} => loop.calls > 0
    /\ Gives(messages, Given)

RecordedOnce == Len(recorded) <= 1

QInv ==
  /\ Types
  /\ InRunner
  /\ Counted
  /\ Outcome
  /\ RecordedOnce
  /\ ClosedRecords
  /\ EndsCounted
  /\ Numbered
  /\ NothingAfterTheEnd
  /\ OutcomeTold
-----------------------------------------------------------------------------
(* What the emitter is handed: a prefix of the batch, after what there was. *)
LEMMA HandEffect ==
  ASSUME events \in Seq(EventSet), NEW batch \in Seq(EventSet), NEW sent \in 0..Len(batch), Hand(batch, sent)
  PROVE  \E n \in 0..Len(batch) :
           /\ n = (IF sent = Len(batch) THEN sent ELSE sent + 1)
           /\ events' \in Seq(EventSet)
           /\ Len(events') = Len(events) + n
           /\ \A i \in 1..Len(events) : events'[i] = events[i]
           /\ \A i \in 1..n : events'[Len(events) + i] = batch[i]
<1> DEFINE n == IF sent = Len(batch) THEN sent ELSE sent + 1
<1>1. n \in 0..Len(batch)
  OBVIOUS
<1>2. /\ SubSeq(batch, 1, n) \in Seq(EventSet) /\ Len(SubSeq(batch, 1, n)) = n
      /\ \A i \in 1..n : SubSeq(batch, 1, n)[i] = batch[i]
  BY <1>1
<1>3. events' = events \o SubSeq(batch, 1, n)
  BY DEF Hand
<1> HIDE DEF n
<1>4. events' \in Seq(EventSet) /\ Len(events') = Len(events) + n
  BY <1>1, <1>2, <1>3
<1>5. \A i \in 1..Len(events) : events'[i] = events[i]
  BY <1>1, <1>2, <1>3
<1>6. \A i \in 1..n : events'[Len(events) + i] = batch[i]
  BY <1>1, <1>2, <1>3
<1>7. QED
  BY <1>1, <1>4, <1>5, <1>6 DEF n

(* Events of a type that is not in the batch stay those they were. *)
LEMMA HandsNone ==
  ASSUME events \in Seq(EventSet), NEW batch \in Seq(EventSet), NEW sent \in 0..Len(batch), Hand(batch, sent),
         NEW type, \A i \in 1..Len(batch) : batch[i].type # type
  PROVE  Events(type)' = Events(type)
<1>1. PICK n \in 0..Len(batch) :
        /\ events' \in Seq(EventSet)
        /\ Len(events') = Len(events) + n
        /\ \A i \in 1..Len(events) : events'[i] = events[i]
        /\ \A i \in 1..n : events'[Len(events) + i] = batch[i]
  BY HandEffect
<1>a. /\ DOMAIN events = 1..Len(events) /\ DOMAIN events' = 1..Len(events')
      /\ Len(events) \in Nat /\ Len(batch) \in Nat
  BY <1>1
<1>2. ASSUME NEW i \in DOMAIN events', events'[i].type = type
      PROVE  i \in DOMAIN events /\ events[i].type = type
  <2>1. CASE i \in 1..Len(events)
    BY <1>1, <1>2, <1>a, <2>1
  <2>2. CASE i \notin 1..Len(events)
    <3>1. i - Len(events) \in 1..n /\ i = Len(events) + (i - Len(events))
      BY <1>1, <1>a, <2>2
    <3>2. events'[i] = batch[i - Len(events)]
      BY <1>1, <3>1
    <3>3. i - Len(events) \in 1..Len(batch)
      BY <1>a, <3>1
    <3>4. QED
      BY <1>2, <3>2, <3>3
  <2>3. QED
    BY <2>1, <2>2
<1>3. ASSUME NEW i \in DOMAIN events
      PROVE  i \in DOMAIN events' /\ events'[i] = events[i]
  BY <1>1, <1>a
<1>4. QED
  BY <1>2, <1>3 DEF Events

(* A batch that begins with its only event of a type adds that event. *)
LEMMA HandsFirst ==
  ASSUME events \in Seq(EventSet), NEW batch \in Seq(EventSet), NEW sent \in 0..Len(batch), Hand(batch, sent),
         NEW type, Len(batch) > 0, batch[1].type = type,
         \A i \in 2..Len(batch) : batch[i].type # type
  PROVE  Events(type)' = Events(type) \cup {Len(events) + 1}
<1>1. PICK n \in 0..Len(batch) :
        /\ n = (IF sent = Len(batch) THEN sent ELSE sent + 1)
        /\ events' \in Seq(EventSet)
        /\ Len(events') = Len(events) + n
        /\ \A i \in 1..Len(events) : events'[i] = events[i]
        /\ \A i \in 1..n : events'[Len(events) + i] = batch[i]
  BY HandEffect
<1>a. /\ DOMAIN events = 1..Len(events) /\ DOMAIN events' = 1..Len(events')
      /\ Len(events) \in Nat /\ Len(batch) \in Nat
  BY <1>1
<1>b. n >= 1
  BY <1>1, <1>a
<1>2. ASSUME NEW i \in DOMAIN events', events'[i].type = type
      PROVE  i = Len(events) + 1 \/ (i \in DOMAIN events /\ events[i].type = type)
  <2>1. CASE i \in 1..Len(events)
    BY <1>1, <1>2, <1>a, <2>1
  <2>2. CASE i \notin 1..Len(events)
    <3>1. i - Len(events) \in 1..n /\ i = Len(events) + (i - Len(events))
      BY <1>1, <1>a, <2>2
    <3>2. events'[i] = batch[i - Len(events)]
      BY <1>1, <3>1
    <3>3. i - Len(events) \notin 2..Len(batch)
      BY <1>2, <3>2
    <3>4. QED
      BY <1>a, <3>1, <3>3
  <2>3. QED
    BY <2>1, <2>2
<1>3. ASSUME NEW i \in DOMAIN events
      PROVE  i \in DOMAIN events' /\ events'[i] = events[i]
  BY <1>1, <1>a
<1>4. Len(events) + 1 \in DOMAIN events' /\ events'[Len(events) + 1].type = type
  BY <1>1, <1>a, <1>b
<1>5. QED
  BY <1>2, <1>3, <1>4 DEF Events

(* A batch that is accepted as a whole adds its only event of a type.      *)
LEMMA HandsAt ==
  ASSUME events \in Seq(EventSet), NEW batch \in Seq(EventSet), Hand(batch, Len(batch)),
         NEW type, NEW k \in 1..Len(batch), batch[k].type = type,
         \A i \in 1..Len(batch) : i # k => batch[i].type # type
  PROVE  Events(type)' = Events(type) \cup {Len(events) + k}
<1>0. Len(batch) \in 0..Len(batch)
  OBVIOUS
<1>1. /\ events' \in Seq(EventSet)
      /\ Len(events') = Len(events) + Len(batch)
      /\ \A i \in 1..Len(events) : events'[i] = events[i]
      /\ \A i \in 1..Len(batch) : events'[Len(events) + i] = batch[i]
  <2>1. PICK n \in 0..Len(batch) :
          /\ n = (IF Len(batch) = Len(batch) THEN Len(batch) ELSE Len(batch) + 1)
          /\ events' \in Seq(EventSet)
          /\ Len(events') = Len(events) + n
          /\ \A i \in 1..Len(events) : events'[i] = events[i]
          /\ \A i \in 1..n : events'[Len(events) + i] = batch[i]
    BY <1>0, HandEffect
  <2>2. QED
    BY <2>1
<1>a. /\ DOMAIN events = 1..Len(events) /\ DOMAIN events' = 1..Len(events')
      /\ Len(events) \in Nat /\ Len(batch) \in Nat
  BY <1>1
<1>2. ASSUME NEW i \in DOMAIN events', events'[i].type = type
      PROVE  i = Len(events) + k \/ (i \in DOMAIN events /\ events[i].type = type)
  <2>1. CASE i \in 1..Len(events)
    BY <1>1, <1>2, <1>a, <2>1
  <2>2. CASE i \notin 1..Len(events)
    <3>1. i - Len(events) \in 1..Len(batch) /\ i = Len(events) + (i - Len(events))
      BY <1>1, <1>a, <2>2
    <3>2. events'[i] = batch[i - Len(events)]
      BY <1>1, <3>1
    <3>3. i - Len(events) = k
      BY <1>2, <3>1, <3>2
    <3>4. QED
      BY <3>1, <3>3
  <2>3. QED
    BY <2>1, <2>2
<1>3. ASSUME NEW i \in DOMAIN events
      PROVE  i \in DOMAIN events' /\ events'[i] = events[i]
  BY <1>1, <1>a
<1>4. Len(events) + k \in DOMAIN events' /\ events'[Len(events) + k].type = type
  BY <1>1, <1>a
<1>5. QED
  BY <1>2, <1>3, <1>4 DEF Events

(* The texts are sequences of tokens, and their chunks are answer chunks. *)
LEMMA TextType == Text \subseteq Seq(Tokens)
BY RunnersAssumption DEF Text, BoundedSeq, SeqOf

(* What a reply becomes on its way to the caller is a sequence of tokens.  *)
LEMMA SaidType ==
  ASSUME Types, NEW text \in Seq(Tokens)
  PROVE  Said(text) \in Seq(Tokens)
<1>1. Words(text) \in Seq(Tokens)
  <2> DEFINE S == {i \in DOMAIN text : text[i] # "nl"}
  <2>1. IsFiniteSet(1..Len(text)) /\ S \subseteq 1..Len(text)
    BY FS_Interval
  <2>2. Cardinality(S) \in Nat
    BY <2>1, FS_Subset, FS_CardinalityType
  <2> HIDE DEF S
  <2>3. [k \in 1..Cardinality(S) |-> "w"] \in Seq(Tokens)
    BY <2>2 DEF Tokens
  <2>4. QED
    BY <2>3 DEF Words, S
<1>2. Separator(text) \in Seq(Tokens)
  <2>1. <<>> \in Seq(Tokens) /\ <<"nl">> \in Seq(Tokens)
    BY DEF Tokens
  <2>2. QED
    BY <2>1 DEF Separator
<1>3. Separator(text) \o text \in Seq(Tokens)
  BY <1>2
<1>4. QED
  BY <1>1, <1>3 DEF Said

(* The chunks of such a text are answer_chunk events.                      *)
LEMMA ChunkType ==
  ASSUME Types, NEW said \in Seq(Tokens)
  PROVE  /\ ChunkEvents(said) \in Seq(EventSet)
         /\ \A i \in 1..Len(ChunkEvents(said)) : ChunkEvents(said)[i].type = "answer_chunk"
<1>1. \A text \in Seq(Tokens) : ChunkEvent(text) \in EventSet /\ ChunkEvent(text).type = "answer_chunk"
  BY DEF ChunkEvent, EventSet
<1> DEFINE each == [i \in DOMAIN said |-> ChunkEvent(<<said[i]>>)]
<1>2. \A i \in 1..Len(said) : <<said[i]>> \in Seq(Tokens)
  BY ElementOfSeq
<1>3. DOMAIN said = 1..Len(said) /\ Len(said) \in Nat
  OBVIOUS
<1>4. \A i \in 1..Len(said) : each[i] \in EventSet /\ each[i].type = "answer_chunk"
  BY <1>1, <1>2, <1>3
<1>5. each \in [1..Len(said) -> EventSet]
  BY <1>3, <1>4
<1>6. each \in Seq(EventSet) /\ Len(each) = Len(said)
  BY <1>3, <1>5, IsASeq
<1> HIDE DEF each
<1>7. /\ <<ChunkEvent(said)>> \in Seq(EventSet) /\ Len(<<ChunkEvent(said)>>) = 1
      /\ \A i \in 1..1 : <<ChunkEvent(said)>>[i].type = "answer_chunk"
  BY <1>1
<1>8. ChunkEvents(said) \in {<<>>, each, <<ChunkEvent(said)>>}
  BY DEF ChunkEvents, each
<1>9. CASE ChunkEvents(said) = <<>>
  BY <1>9
<1>10. CASE ChunkEvents(said) = each
  BY <1>4, <1>6, <1>10
<1>11. CASE ChunkEvents(said) = <<ChunkEvent(said)>>
  BY <1>7, <1>11
<1>12. QED
  BY <1>8, <1>9, <1>10, <1>11

(* What the tool observer reports is well formed. *)
LEMMA EventType ==
  ASSUME NEW type \in EventTypes, NEW tool \in Names
  PROVE  Event(type, tool) \in EventSet /\ Event(type, tool).type = type
BY DEF Event, EventSet

(* A start is reported as a tool_start event, or not at all.               *)
LEMMA StartBatchType ==
  ASSUME NEW name \in Names
  PROVE  /\ StartBatch(name) \in Seq(EventSet)
         /\ \A i \in 1..Len(StartBatch(name)) : StartBatch(name)[i].type = "tool_start"
<1>1. Event("tool_start", name) \in EventSet /\ Event("tool_start", name).type = "tool_start"
  BY EventType DEF EventTypes
<1>2. QED
  BY <1>1 DEF StartBatch

(* An end is reported as one tool_end event and then the new citations.    *)
LEMMA EndBatchType ==
  ASSUME Types, NEW name \in Names, NEW found \in Nat, web.emitted <= found
  PROVE  /\ EndBatch(name, found) \in Seq(EventSet)
         /\ \A i \in 1..Len(EndBatch(name, found)) : EndBatch(name, found)[i].type \in {"tool_end", "citation"}
         /\ ~Emits(name) => EndBatch(name, found) = <<>>
         /\ Emits(name) => /\ Len(EndBatch(name, found)) > 0
                           /\ EndBatch(name, found)[1].type = "tool_end"
                           /\ \A i \in 2..Len(EndBatch(name, found)) : EndBatch(name, found)[i].type = "citation"
<1>1. Event("tool_end", name) \in EventSet /\ Event("tool_end", name).type = "tool_end"
  BY EventType DEF EventTypes
<1>2. Event("citation", name) \in EventSet /\ Event("citation", name).type = "citation"
  BY EventType DEF EventTypes
<1> DEFINE rest == IF name = "search_web" THEN [i \in 1..(found - web.emitted) |-> Event("citation", name)] ELSE <<>>
<1>3. found - web.emitted \in Nat
  BY DEF Types
<1>4. rest \in Seq(EventSet) /\ \A i \in 1..Len(rest) : rest[i].type = "citation"
  BY <1>2, <1>3
<1> HIDE DEF rest
<1>5. /\ <<Event("tool_end", name)>> \o rest \in Seq(EventSet)
      /\ Len(<<Event("tool_end", name)>> \o rest) = 1 + Len(rest)
      /\ (<<Event("tool_end", name)>> \o rest)[1] = Event("tool_end", name)
      /\ \A i \in 2..(1 + Len(rest)) : (<<Event("tool_end", name)>> \o rest)[i] = rest[i - 1]
  BY <1>1, <1>4
<1>6. \A i \in 2..(1 + Len(rest)) : i - 1 \in 1..Len(rest)
  BY <1>4
<1>7. EndBatch(name, found) = IF Emits(name) THEN <<Event("tool_end", name)>> \o rest ELSE <<>>
  BY DEF EndBatch, rest
<1>8. CASE Emits(name)
  BY <1>1, <1>4, <1>5, <1>6, <1>7, <1>8
<1>9. CASE ~Emits(name)
  BY <1>7, <1>9
<1>10. QED
  BY <1>8, <1>9

(* What the tool observer does with a batch, and the error it may return. *)
LEMMA ReportType ==
  ASSUME events \in Seq(EventSet), NEW batch \in Seq(EventSet), NEW r \in Reports(batch), Observe(batch, r)
  PROVE  /\ r.sent \in 0..Len(batch) /\ Hand(batch, r.sent)
         /\ events' \in Seq(EventSet)
         /\ ReportError(batch, r) \in {"emit", "callback", "none"}
         /\ Len(batch) = 0 => ReportError(batch, r) # "emit"
<1>1. r.sent \in 0..Len(batch)
  BY DEF Reports
<1>2. Hand(batch, r.sent)
  BY DEF Observe
<1>3. events' \in Seq(EventSet)
  BY <1>1, <1>2, HandEffect
<1>4. QED
  BY <1>1, <1>2, <1>3 DEF ReportError

(* The tool records stay well formed. *)
LEMMA RecordTypes ==
  ASSUME NEW calls \in Seq(ToolRecord), NEW name \in Names, NEW failed \in BOOLEAN
  PROVE  /\ startTool(calls, name) \in Seq(ToolRecord)
         /\ endTool(calls, name, failed) \in Seq(ToolRecord)
<1>1. startTool(calls, name) \in Seq(ToolRecord)
  BY DEF startTool, ToolRecord
<1>2. Append(calls, [tool |-> name, open |-> FALSE, failed |-> failed]) \in Seq(ToolRecord)
  BY DEF ToolRecord
<1>3. ASSUME NEW m PROVE [calls EXCEPT ![m] = [@ EXCEPT !.open = FALSE, !.failed = failed]] \in Seq(ToolRecord)
  <2> DEFINE done == [calls EXCEPT ![m] = [@ EXCEPT !.open = FALSE, !.failed = failed]]
  <2>1. DOMAIN calls = 1..Len(calls) /\ Len(calls) \in Nat
    OBVIOUS
  <2>2. \A i \in 1..Len(calls) : calls[i] \in ToolRecord
    BY ElementOfSeq
  <2>3. \A i \in 1..Len(calls) : [calls[i] EXCEPT !.open = FALSE, !.failed = failed] \in ToolRecord
    BY <2>2 DEF ToolRecord
  <2>4. done \in [1..Len(calls) -> ToolRecord]
    BY <2>1, <2>2, <2>3
  <2>5. QED
    BY <2>1, <2>4, IsASeq
<1>4. QED
  BY <1>1, <1>2, <1>3 DEF endTool

(* The citations collected never fall behind those emitted. *)
LEMMA DrainedType ==
  ASSUME Types, NEW name, NEW outcome, NEW r
  PROVE  /\ Found(name, outcome) \in Nat /\ web.found <= Found(name, outcome) /\ web.emitted <= Found(name, outcome)
         /\ \A found \in Nat : web.emitted <= found =>
              /\ Drained(name, found, r) \in [found : Nat, emitted : Nat]
              /\ Drained(name, found, r).emitted <= Drained(name, found, r).found
<1>1. web.found \in Nat /\ web.emitted \in Nat /\ web.emitted <= web.found
  BY DEF Types
<1>2. QED
  BY <1>1 DEF Found, Drained

(* A failure is counted within its bound. *)
LEMMA SpendType ==
  ASSUME faults \in 0..MaxFaults, NEW failed \in BOOLEAN, Spend(failed)
  PROVE  faults' \in 0..MaxFaults
BY RunnersAssumption DEF Spend

(* What the assignments to the loop change, and that it stays well formed. *)
LEMMA LoopRound ==
  ASSUME loop \in Loop, NEW m \in Nat, NEW n \in Nat, loop' = [loop EXCEPT !.rounds = m, !.left = n]
  PROVE  /\ loop' \in Loop /\ loop'.rounds = m /\ loop'.left = n
         /\ loop'.calls = loop.calls /\ loop'.next = loop.next /\ loop'.tool = loop.tool
<1>1. loop' \in Loop
  BY DEF Loop
<1>2. QED
  BY <1>1 DEF Loop

(* A reply without calls only counts a round.                              *)
LEMMA LoopReply ==
  ASSUME loop \in Loop, NEW m \in Nat, loop' = [loop EXCEPT !.rounds = m]
  PROVE  /\ loop' \in Loop /\ loop'.rounds = m /\ loop'.left = loop.left
         /\ loop'.calls = loop.calls /\ loop'.next = loop.next /\ loop'.tool = loop.tool
<1>1. loop' \in Loop
  BY DEF Loop
<1>2. QED
  BY <1>1 DEF Loop

(* The next fallback tool. *)
LEMMA LoopNext ==
  ASSUME loop \in Loop, NEW m \in Nat \ {0}, loop' = [loop EXCEPT !.next = m]
  PROVE  /\ loop' \in Loop /\ loop'.next = m /\ loop'.rounds = loop.rounds
         /\ loop'.left = loop.left /\ loop'.calls = loop.calls /\ loop'.tool = loop.tool
<1>1. loop' \in Loop
  BY DEF Loop
<1>2. QED
  BY <1>1 DEF Loop

(* The next call is taken. *)
LEMMA LoopTake ==
  ASSUME loop \in Loop, NEW m \in Nat, NEW name \in Names, loop' = [loop EXCEPT !.calls = m, !.tool = name]
  PROVE  /\ loop' \in Loop /\ loop'.calls = m /\ loop'.tool = name
         /\ loop'.rounds = loop.rounds /\ loop'.left = loop.left /\ loop'.next = loop.next
<1>1. loop' \in Loop
  BY DEF Loop
<1>2. QED
  BY <1>1 DEF Loop

(* A call has been answered. *)
LEMMA LoopAnswered ==
  ASSUME loop \in Loop, NEW m \in Nat, loop' = [loop EXCEPT !.left = m, !.tool = "none"]
  PROVE  /\ loop' \in Loop /\ loop'.left = m /\ loop'.tool = "none"
         /\ loop'.rounds = loop.rounds /\ loop'.calls = loop.calls /\ loop'.next = loop.next
<1>1. loop' \in Loop
  BY DEF Loop, Names
<1>2. QED
  BY <1>1 DEF Loop

(* The fallback tools are registered. *)
LEMMA RegisteredNames == \A i \in 1..Len(FallbackTools) : FallbackTools[i] \in Names
<1>1. DOMAIN FallbackTools = 1..Len(FallbackTools)
  BY RunnersAssumption
<1>2. QED
  BY <1>1 DEF Registered, Names, ToSet
-----------------------------------------------------------------------------
(* A question begins well typed. *)
LEMMA InitTypes == QInit => Types
<1> SUFFICES ASSUME QInit PROVE Types
  OBVIOUS
<1>1. loop \in Loop
  BY DEF QInit, Loop, Names
<1>2. /\ events \in Seq(EventSet) /\ tools \in Seq(ToolRecord) /\ messages \in Seq(Message)
      /\ texts \in Seq(Seq(Tokens)) /\ answer \in Seq(Tokens)
      /\ recorded \in Seq({"success", "failure", "refused"})
  BY DEF QInit
<1>3. web \in [found : Nat, emitted : Nat] /\ web.emitted <= web.found /\ faults \in 0..MaxFaults
  BY RunnersAssumption DEF QInit
<1>4. QED
  BY <1>1, <1>2, <1>3 DEF QInit, Types, Stages, Errors

(* Type correctness of the runners' steps. *)
LEMMA RunnerTypes ==
  ASSUME Types, InRunner, RunRunner
  PROVE  Types'
<1>a. /\ events \in Seq(EventSet) /\ faults \in 0..MaxFaults /\ tools \in Seq(ToolRecord)
      /\ loop \in Loop /\ messages \in Seq(Message) /\ texts \in Seq(Seq(Tokens)) /\ answer \in Seq(Tokens)
  BY DEF Types
<1>b. UNCHANGED <<stage, refused, recorded, memorized, committed>>
  BY DEF RunRunner, pipelineVars
<1>c. \A failed \in BOOLEAN : Spend(failed) => faults' \in 0..MaxFaults
  BY <1>a, SpendType
<1>d. \A e \in Errors : \A p : (GoOnUnless(e, p) \/ RunnerReturns(e)) => err' \in Errors
  BY DEF GoOnUnless, RunnerReturns, Types
<1>e. {"none", "ctx", "emit", "chunk", "callback", "limit", "denied", "garbled", "tool", "notool", "model"} \subseteq Errors
  BY DEF Errors
<1>f. \A i \in 1..Len(FallbackTools) : FallbackTools[i] \in Names
  BY RegisteredNames
<1>g. \A text \in Text : text \in Seq(Tokens) /\ Said(text) \in Seq(Tokens) /\ ChunkEvents(Said(text)) \in Seq(EventSet)
  BY TextType, SaidType, ChunkType
<1>h. \A batch \in Seq(EventSet) : \A sent \in 0..Len(batch) : Hand(batch, sent) => events' \in Seq(EventSet)
  BY <1>a, HandEffect
<1>i. \A batch \in Seq(EventSet) : \A r \in Reports(batch) :
        Observe(batch, r) => events' \in Seq(EventSet) /\ ReportError(batch, r) \in Errors
  BY <1>a, <1>e, ReportType
<1>1. CASE EnterRunner
  BY <1>1, <1>b, <1>d, <1>e DEF EnterRunner, runVars, noteVars, Types
<1>2. ASSUME NEW cached \in BOOLEAN, ChatPrompt(cached) PROVE Types'
  BY <1>2, <1>b, <1>d, <1>e DEF ChatPrompt, runVars, noteVars, Types
<1>3. CASE ChatToolStart
  <2> DEFINE name == FallbackTools[loop.next]
             batch == StartBatch(name)
  <2>1. name \in Names
    BY <1>3, <1>a, <1>f, RunnersAssumption DEF ChatToolStart, Loop
  <2>2. batch \in Seq(EventSet) /\ startTool(tools, name) \in Seq(ToolRecord)
    BY <2>1, <1>a, StartBatchType, RecordTypes
  <2> HIDE DEF name, batch
  <2>3. PICK r \in Reports(batch) : /\ Observe(batch, r) /\ Spend(ReportError(batch, r) # "none")
                                    /\ GoOnUnless(ReportError(batch, r), "running")
    BY <1>3 DEF ChatToolStart, name, batch
  <2>4. events' \in Seq(EventSet) /\ err' \in Errors /\ faults' \in 0..MaxFaults
    BY <2>2, <2>3, <1>c, <1>d, <1>i
  <2>5. tools' = startTool(tools, name) /\ budget' = budget + 1
        /\ UNCHANGED <<mode, runner, ctx, web, loop, messages, texts, answer, evidence, runs>>
    BY <1>3 DEF ChatToolStart, name, batch
  <2>6. QED
    BY <2>2, <2>4, <2>5, <1>b DEF Types
<1>4. CASE ChatToolsEnd
  BY <1>4, <1>b, <1>d, <1>e DEF ChatToolsEnd, runVars, noteVars, Types
<1>5. ASSUME NEW outcome \in {"text", "blank", "error"}, ChatToolEnd(outcome) PROVE Types'
  <2> DEFINE name == FallbackTools[loop.next]
             found == Found(name, outcome)
             batch == EndBatch(name, found)
  <2>1. name \in Names
    BY <1>5, <1>a, <1>f, RunnersAssumption DEF ChatToolEnd, InRunner, Loop
  <2>2. found \in Nat /\ web.emitted <= found
    BY DrainedType
  <2> HIDE DEF name, found
  <2>3. batch \in Seq(EventSet) /\ endTool(tools, name, outcome = "error") \in Seq(ToolRecord)
    BY <2>1, <2>2, <1>a, EndBatchType, RecordTypes
  <2> HIDE DEF batch
  <2>4. PICK r \in Reports(batch) :
          /\ Observe(batch, r) /\ web' = Drained(name, found, r)
          /\ Spend(outcome = "error" \/ ReportError(batch, r) # "none")
          /\ GoOnUnless(ReportError(batch, r), IF outcome = "text" THEN "generate" ELSE "fallback")
    BY <1>5 DEF ChatToolEnd, name, found, batch
  <2>5. events' \in Seq(EventSet) /\ err' \in Errors /\ faults' \in 0..MaxFaults
    BY <2>3, <2>4, <1>c, <1>d, <1>i
  <2>6. web' \in [found : Nat, emitted : Nat] /\ web'.emitted <= web'.found
    BY <2>2, <2>4, DrainedType
  <2>7. loop' \in Loop
    <3>1. loop' = [loop EXCEPT !.next = loop.next + 1]
      BY <1>5 DEF ChatToolEnd
    <3>2. loop.next + 1 \in Nat \ {0}
      BY <1>a DEF Loop
    <3>3. QED
      BY <1>a, <3>1, <3>2, LoopNext
  <2>8. tools' = endTool(tools, name, outcome = "error") /\ evidence' \in BOOLEAN /\ runs' = runs + 1
        /\ UNCHANGED <<mode, runner, ctx, messages, texts, answer, budget>>
    BY <1>5 DEF ChatToolEnd, name, found, batch
  <2>9. QED
    BY <2>3, <2>5, <2>6, <2>7, <2>8, <1>b DEF Types
<1>6. ASSUME NEW text \in Text, NEW p, Stream(text, p)
      PROVE  events' \in Seq(EventSet) /\ err' \in Errors /\ faults' \in 0..MaxFaults
  <2>1. PICK sent \in 0..Len(ChunkEvents(Said(text))) :
          /\ Hand(ChunkEvents(Said(text)), sent)
          /\ Spend(sent < Len(ChunkEvents(Said(text))))
          /\ GoOnUnless(IF sent < Len(ChunkEvents(Said(text))) THEN "chunk" ELSE "none", p)
    BY <1>6 DEF Stream
  <2>2. events' \in Seq(EventSet)
    BY <1>g, <1>h, <2>1
  <2>3. faults' \in 0..MaxFaults
    <3>1. (sent < Len(ChunkEvents(Said(text)))) \in BOOLEAN
      OBVIOUS
    <3>2. QED
      BY <1>c, <2>1, <3>1
  <2>4. err' \in Errors
    BY <1>d, <1>e, <2>1
  <2>5. QED
    BY <2>2, <2>3, <2>4
<1>7. ASSUME NEW text \in Text, ChatGenerate(text) PROVE Types'
  <2>1. answer' \in Seq(Tokens) /\ texts' \in Seq(Seq(Tokens))
    BY <1>7, <1>a, <1>g DEF ChatGenerate
  <2>2. QED
    BY <1>7, <1>b, <1>6, <2>1 DEF ChatGenerate, Types
<1>8. ASSUME NEW text \in Text, ModelFails(text) PROVE Types'
  <2>1. Len(ChunkEvents(Said(text))) \in 0..Len(ChunkEvents(Said(text)))
    BY <1>g
  <2>2. events' \in Seq(EventSet)
    BY <1>8, <1>g, <1>h, <2>1 DEF ModelFails
  <2>3. faults' \in 0..MaxFaults /\ err' \in Errors
    BY <1>8, <1>c, <1>d, <1>e DEF ModelFails
  <2>4. QED
    BY <1>8, <1>b, <2>2, <2>3 DEF ModelFails, runVars, Types
<1>9. CASE LoopEnds
  BY <1>9, <1>b, <1>d, <1>e DEF LoopEnds, runVars, noteVars, Types
<1>10. ASSUME NEW text \in Text, NEW n \in 0..MaxCalls, NativeRound(text, n) PROVE Types'
  <2>1. answer' \in Seq(Tokens) /\ texts' \in Seq(Seq(Tokens))
    BY <1>10, <1>a, <1>g DEF NativeRound
  <2>2. loop' \in Loop
    <3>1. loop' = [loop EXCEPT !.rounds = loop.rounds + 1, !.left = n]
      BY <1>10 DEF NativeRound
    <3>2. loop.rounds + 1 \in Nat /\ n \in Nat
      BY <1>a, RunnersAssumption DEF Loop
    <3>3. QED
      BY <1>a, <3>1, <3>2, LoopRound
  <2>3. messages' \in Seq(Message)
    BY <1>10, <1>a, RunnersAssumption DEF NativeRound, Keep, Message
  <2>4. QED
    BY <1>10, <1>b, <1>6, <2>1, <2>2, <2>3 DEF NativeRound, Types
<1>11. ASSUME NEW text \in Text, EnvelopeAnswer(text) PROVE Types'
  <2>1. answer' \in Seq(Tokens) /\ texts' \in Seq(Seq(Tokens))
    BY <1>11, <1>a, <1>g DEF EnvelopeAnswer
  <2>2. loop' \in Loop
    <3>1. loop' = [loop EXCEPT !.rounds = loop.rounds + 1]
      BY <1>11 DEF EnvelopeAnswer
    <3>2. loop.rounds + 1 \in Nat
      BY <1>a DEF Loop
    <3>3. QED
      BY <1>a, <3>1, <3>2, LoopReply
  <2>3. QED
    BY <1>11, <1>b, <1>6, <2>1, <2>2 DEF EnvelopeAnswer, Types
<1>12. ASSUME NEW garbled \in BOOLEAN, EnvelopeCall(garbled) PROVE Types'
  <2>1. loop' \in Loop
    <3>1. loop' = [loop EXCEPT !.rounds = loop.rounds + 1, !.left = 1]
      BY <1>12 DEF EnvelopeCall
    <3>2. loop.rounds + 1 \in Nat
      BY <1>a DEF Loop
    <3>3. QED
      BY <1>a, <3>1, <3>2, LoopRound
  <2>2. faults' \in 0..MaxFaults /\ err' \in Errors
    BY <1>12, <1>c, <1>d, <1>e DEF EnvelopeCall
  <2>3. QED
    BY <1>12, <1>b, <2>1, <2>2 DEF EnvelopeCall, noteVars, Types
<1>13. ASSUME NEW name \in Registered \cup {"unknown", "none"}, TakeCall(name) PROVE Types'
  <2>1. loop' \in Loop
    <3>1. loop' = [loop EXCEPT !.calls = loop.calls + 1, !.tool = name] \/ UNCHANGED loop
      BY <1>13 DEF TakeCall
    <3>2. loop.calls + 1 \in Nat /\ name \in Names
      BY <1>a DEF Loop, Names
    <3>3. QED
      BY <1>a, <3>1, <3>2, LoopTake
  <2>2. err' \in Errors
    BY <1>13, <1>d, <1>e DEF TakeCall
  <2>3. QED
    BY <1>13, <1>b, <2>1, <2>2 DEF TakeCall, noteVars, Types
<1>14. ASSUME NEW e \in Errors, Recover(e) \/ Abort(e) \/ Answered,
              rpc \in {"taken", "running"}, runner # "chat"
       PROVE  messages' \in Seq(Message) /\ loop' \in Loop /\ err' \in Errors
  <2>1. loop.left \in Nat \ {0} /\ loop.calls \in Nat
    BY <1>14, <1>a DEF InRunner, Loop
  <2>2. Reply \in Seq(Message)
    <3>1. <<[role |-> "tool", id |-> loop.calls]>> \in Seq(Message)
      BY <2>1 DEF Message
    <3>2. <<[role |-> "assistant", calls |-> 1]>> \in Seq(Message)
      BY DEF Message
    <3>3. <<>> \in Seq(Message)
      OBVIOUS
    <3>4. QED
      BY <3>1, <3>2, <3>3 DEF Reply
  <2>3. CASE Answered
    <3>1. messages' \in Seq(Message)
      BY <1>a, <2>2, <2>3 DEF Answered
    <3>2. loop' \in Loop
      <4>1. loop' = [loop EXCEPT !.left = loop.left - 1, !.tool = "none"]
        BY <2>3 DEF Answered
      <4>2. loop.left - 1 \in Nat
        BY <2>1
      <4>3. QED
        BY <1>a, <4>1, <4>2, LoopAnswered
    <3>3. QED
      BY <3>1, <3>2, <2>3 DEF Answered, Types
  <2>4. CASE Abort(e)
    BY <1>a, <2>4 DEF Abort, RunnerReturns
  <2>5. QED
    BY <1>14, <2>3, <2>4 DEF Recover
<1>15. CASE CallNameless
  <2>1. messages' \in Seq(Message) /\ loop' \in Loop /\ err' \in Errors
    BY <1>15, <1>14, <1>e DEF CallNameless, InRunner
  <2>2. QED
    BY <1>15, <1>b, <2>1 DEF CallNameless, noteVars, Types
<1>16. ASSUME NEW why \in {"undecodable", "unknown", "denied", "invalid"}, CallRejected(why) PROVE Types'
  <2> DEFINE batch == EndBatch(loop.tool, web.found)
  <2>1. loop.tool \in Names /\ web.found \in Nat /\ web.emitted <= web.found
    BY <1>a DEF Types, Loop
  <2>2. batch \in Seq(EventSet) /\ endTool(tools, loop.tool, TRUE) \in Seq(ToolRecord)
    BY <2>1, <1>a, EndBatchType, RecordTypes
  <2> HIDE DEF batch
  <2>3. PICK r \in Reports(batch) :
          /\ Observe(batch, r) /\ web' = Drained(loop.tool, web.found, r)
          /\ Spend(ReportError(batch, r) # "none")
          /\ IF ReportError(batch, r) # "none" THEN Abort(ReportError(batch, r))
             ELSE IF why = "denied" THEN Abort("denied") ELSE Recover("tool")
    BY <1>16 DEF CallRejected, batch
  <2>4. events' \in Seq(EventSet) /\ ReportError(batch, r) \in Errors /\ faults' \in 0..MaxFaults
    BY <2>2, <2>3, <1>c, <1>i
  <2>5. web' \in [found : Nat, emitted : Nat] /\ web'.emitted <= web'.found
    BY <2>1, <2>3, DrainedType
  <2>6. rpc = "taken" /\ runner # "chat"
    BY <1>16 DEF CallRejected, InRunner
  <2>7. messages' \in Seq(Message) /\ loop' \in Loop /\ err' \in Errors
    BY <2>3, <2>4, <2>6, <1>14, <1>e
  <2>8. tools' = endTool(tools, loop.tool, TRUE)
        /\ UNCHANGED <<mode, runner, ctx, texts, answer, evidence, runs, budget>>
    BY <1>16 DEF CallRejected
  <2>9. QED
    BY <2>2, <2>4, <2>5, <2>7, <2>8, <1>b DEF Types
<1>17. CASE CallStart
  <2> DEFINE batch == StartBatch(loop.tool)
  <2>1. loop.tool \in Names
    BY <1>a DEF Loop
  <2>2. batch \in Seq(EventSet) /\ startTool(tools, loop.tool) \in Seq(ToolRecord)
    BY <2>1, <1>a, StartBatchType, RecordTypes
  <2> HIDE DEF batch
  <2>3. PICK r \in Reports(batch) : /\ Observe(batch, r) /\ Spend(ReportError(batch, r) # "none")
                                    /\ GoOnUnless(ReportError(batch, r), "running")
    BY <1>17 DEF CallStart, batch
  <2>4. events' \in Seq(EventSet) /\ err' \in Errors /\ faults' \in 0..MaxFaults
    BY <2>2, <2>3, <1>c, <1>d, <1>i
  <2>5. tools' = startTool(tools, loop.tool) /\ UNCHANGED <<mode, runner, ctx, web, runVars>>
    BY <1>17 DEF CallStart, batch
  <2>6. QED
    BY <2>2, <2>4, <2>5, <1>b DEF Types, runVars
<1>18. ASSUME NEW failed \in BOOLEAN, CallEnd(failed) PROVE Types'
  <2> DEFINE found == Found(loop.tool, IF failed THEN "error" ELSE "text")
             batch == EndBatch(loop.tool, found)
  <2>1. loop.tool \in Names
    BY <1>a DEF Loop
  <2>2. found \in Nat /\ web.emitted <= found
    BY DrainedType
  <2> HIDE DEF found
  <2>3. batch \in Seq(EventSet) /\ endTool(tools, loop.tool, failed) \in Seq(ToolRecord)
    BY <2>1, <2>2, <1>a, EndBatchType, RecordTypes
  <2> HIDE DEF batch
  <2>4. PICK r \in Reports(batch) :
          /\ Observe(batch, r) /\ web' = Drained(loop.tool, found, r)
          /\ Spend(failed \/ ReportError(batch, r) # "none")
          /\ IF failed THEN IF ctx = "live" THEN Recover("tool") ELSE Abort("ctx")
             ELSE IF ReportError(batch, r) = "none" THEN Answered ELSE Abort(ReportError(batch, r))
    BY <1>18 DEF CallEnd, found, batch
  <2>5. events' \in Seq(EventSet) /\ ReportError(batch, r) \in Errors /\ faults' \in 0..MaxFaults
    BY <2>3, <2>4, <1>c, <1>i
  <2>6. web' \in [found : Nat, emitted : Nat] /\ web'.emitted <= web'.found
    BY <2>2, <2>4, DrainedType
  <2>7. messages' \in Seq(Message) /\ loop' \in Loop /\ err' \in Errors
    BY <1>18, <2>4, <2>5, <1>14, <1>e DEF CallEnd
  <2>8. tools' = endTool(tools, loop.tool, failed) /\ runs' = runs + 1
        /\ UNCHANGED <<mode, runner, ctx, texts, answer, evidence, budget>>
    BY <1>18 DEF CallEnd
  <2>9. QED
    BY <2>3, <2>5, <2>6, <2>7, <2>8, <1>b DEF Types
<1>19. QED
  BY <1>1, <1>2, <1>3, <1>4, <1>5, <1>7, <1>8, <1>9, <1>10, <1>11, <1>12, <1>13, <1>15, <1>16, <1>17, <1>18
     DEF RunRunner, RunnerStep

(* The position in the runner, the rounds, calls and tools counted, step   *)
(* by step of the runners.                                                 *)
LEMMA RunnerControl ==
  ASSUME Types, InRunner, Counted, RunRunner
  PROVE  InRunner' /\ Counted'
<1>a. /\ stage = "runner" /\ UNCHANGED <<stage, refused, recorded, memorized, committed>>
      /\ rpc # "idle"
  BY DEF RunRunner, pipelineVars, InRunner
<1>b. /\ loop \in Loop /\ texts \in Seq(Seq(Tokens)) /\ runs \in Nat /\ budget \in Nat
      /\ loop.rounds \in Nat /\ loop.calls \in Nat /\ loop.left \in Nat /\ loop.next \in Nat \ {0}
  BY DEF Types, Loop
<1>c. \A e, p : GoOnUnless(e, p) => /\ rpc' = (IF e = "none" THEN p ELSE "returned")
                                    /\ err' = (IF e = "none" THEN err ELSE e)
  BY DEF GoOnUnless, RunnerReturns
<1>d. \A e : RunnerReturns(e) => rpc' = "returned" /\ err' = e
  BY DEF RunnerReturns
<1>e. MaxToolCalls \in Nat \ {0} /\ MaxIterations \in Nat \ {0} /\ MaxCalls \in Nat /\ Len(FallbackTools) \in Nat
  BY RunnersAssumption
<1>f. /\ "returned" \notin {"entry", "prompt", "fallback", "running", "generate", "round", "call", "taken", "idle"}
      /\ runner' = runner /\ mode' = mode /\ mode \in Modes
  BY DEF RunRunner, RunnerStep, EnterRunner, ChatPrompt, ChatToolStart, ChatToolsEnd, ChatToolEnd, ChatGenerate,
         ModelFails, EnvelopeAnswer, NativeRound, EnvelopeCall, LoopEnds, TakeCall, CallNameless, CallRejected,
         CallStart, CallEnd, Types
<1>g. runner \in {"chat", "native", "envelope"}
  BY DEF Types
<1> USE DEF InUse, BeforeModel, Streaming
<1>1. CASE EnterRunner
  <2>1. rpc = "entry" /\ texts = <<>> /\ loop.calls = 0 /\ loop.rounds = 0 /\ runs <= budget /\ budget <= 1
    BY <1>1, <1>a DEF EnterRunner, InRunner, Counted, NewLoop
  <2>2. UNCHANGED <<loop, texts, runs, budget>>
    BY <1>1 DEF EnterRunner, runVars
  <2>3. /\ rpc' \in {"prompt", "round", "returned"} /\ (rpc' = "prompt" => runner = "chat")
        /\ (rpc' = "round" => runner # "chat") /\ err' \in {err, "ctx"}
        /\ (rpc' # "returned" => err' = err)
    BY <1>1, <1>c DEF EnterRunner
  <2>4. InRunner'
    BY <1>a, <1>f, <2>1, <2>2, <2>3 DEF InRunner
  <2>5. Counted'
    BY <1>a, <1>b, <1>e, <1>f, <2>1, <2>2, <2>3 DEF Counted
  <2>6. QED
    BY <2>4, <2>5
<1>2. ASSUME NEW cached \in BOOLEAN, ChatPrompt(cached) PROVE InRunner' /\ Counted'
  <2>1. rpc = "prompt" /\ runner = "chat" /\ err = "none"
    BY <1>2, <1>a DEF ChatPrompt, InRunner
  <2>2. UNCHANGED <<loop, texts, runs, budget>>
    BY <1>2 DEF ChatPrompt, runVars
  <2>3. /\ rpc' \in {"generate", "fallback", "returned"} /\ err' \in {"none", "notool"}
        /\ (rpc' # "returned" => err' = "none")
    BY <1>2, <1>c, <2>1 DEF ChatPrompt
  <2>4. InRunner'
    BY <1>a, <1>f, <2>1, <2>2, <2>3 DEF InRunner
  <2>5. Counted'
    BY <1>a, <1>b, <1>e, <1>f, <2>1, <2>2, <2>3 DEF Counted
  <2>6. QED
    BY <2>4, <2>5
<1>3. ASSUME NEW batch \in Seq(EventSet), NEW r \in Reports(batch), Observe(batch, r), ~Streaming => batch = <<>>
      PROVE  ReportError(batch, r) \in {"none", "callback", "emit"} /\ (~Streaming => ReportError(batch, r) # "emit")
  BY <1>3, ReportType DEF Types
<1>4. CASE ChatToolStart
  <2> DEFINE name == FallbackTools[loop.next]
             batch == StartBatch(name)
  <2>1. rpc = "fallback" /\ runner = "chat" /\ err = "none" /\ loop.next <= Len(FallbackTools)
    BY <1>4, <1>a DEF ChatToolStart, InRunner
  <2>n. name \in Names
    BY <2>1, <1>b, <1>e, RegisteredNames
  <2>2. batch \in Seq(EventSet) /\ (~Streaming => batch = <<>>)
    BY <2>n, StartBatchType DEF StartBatch, Emits
  <2> HIDE DEF name, batch
  <2>3. PICK r \in Reports(batch) : Observe(batch, r) /\ GoOnUnless(ReportError(batch, r), "running")
    BY <1>4 DEF ChatToolStart, name, batch
  <2>4. /\ rpc' \in {"running", "returned"} /\ err' \in {"none", "callback", "emit"}
        /\ (rpc' = "running" => err' = "none") /\ (~Streaming => err' # "emit")
    BY <1>3, <1>c, <2>1, <2>2, <2>3
  <2>5. budget' = budget + 1 /\ budget < MaxToolCalls /\ UNCHANGED <<loop, texts, runs>>
    BY <1>4 DEF ChatToolStart, Acquire
  <2>6. InRunner'
    BY <1>a, <1>f, <2>1, <2>4, <2>5 DEF InRunner
  <2>7. Counted'
    BY <1>a, <1>b, <1>e, <1>f, <2>1, <2>4, <2>5 DEF Counted
  <2>8. QED
    BY <2>6, <2>7
<1>5. CASE ChatToolsEnd
  <2>1. rpc = "fallback" /\ runner = "chat" /\ rpc' = "returned" /\ err' \in {"tool", "limit"}
        /\ UNCHANGED <<loop, texts, runs, budget>>
    BY <1>5, <1>a, <1>d DEF ChatToolsEnd, runVars, InRunner
  <2>2. InRunner'
    BY <1>a, <1>f, <2>1 DEF InRunner
  <2>3. Counted'
    BY <1>a, <1>b, <1>e, <1>f, <2>1 DEF Counted
  <2>4. QED
    BY <2>2, <2>3
<1>6. ASSUME NEW outcome \in {"text", "blank", "error"}, ChatToolEnd(outcome) PROVE InRunner' /\ Counted'
  <2> DEFINE name == FallbackTools[loop.next]
             found == Found(name, outcome)
             batch == EndBatch(name, found)
  <2>1. rpc = "running" /\ runner = "chat" /\ err = "none" /\ loop.next <= Len(FallbackTools)
    BY <1>6, <1>a DEF ChatToolEnd, InRunner
  <2>n. name \in Names
    BY <2>1, <1>b, <1>e, RegisteredNames
  <2>f. found \in Nat /\ web.emitted <= found
    BY DrainedType
  <2>2. batch \in Seq(EventSet) /\ (~Streaming => batch = <<>>)
    BY <2>n, <2>f, EndBatchType DEF Emits
  <2>3. loop' = [loop EXCEPT !.next = loop.next + 1] /\ runs' = runs + 1 /\ UNCHANGED <<texts, budget>>
    BY <1>6 DEF ChatToolEnd
  <2> HIDE DEF name, found, batch
  <2>4. PICK r \in Reports(batch) :
          Observe(batch, r) /\ GoOnUnless(ReportError(batch, r), IF outcome = "text" THEN "generate" ELSE "fallback")
    BY <1>6 DEF ChatToolEnd, name, found, batch
  <2>5. /\ rpc' \in {"generate", "fallback", "returned"} /\ err' \in {"none", "callback", "emit"}
        /\ (rpc' # "returned" => err' = "none") /\ (~Streaming => err' # "emit")
    BY <1>3, <1>c, <2>1, <2>2, <2>4
  <2>6. InRunner'
    BY <1>a, <1>f, <2>1, <2>5 DEF InRunner
  <2>7. Counted'
    BY <1>a, <1>b, <1>e, <1>f, <2>1, <2>3, <2>5 DEF Counted
  <2>8. QED
    BY <2>6, <2>7
<1>7. ASSUME NEW text \in Text, NEW p, Stream(text, p)
      PROVE  /\ rpc' \in {p, "returned"} /\ err' \in {err, "chunk"} /\ (rpc' # "returned" => err' = err)
             /\ (~Streaming => err' # "chunk" \/ err = "chunk")
  <2>1. ChunkEvents(Said(text)) \in Seq(EventSet) /\ (~Streaming => ChunkEvents(Said(text)) = <<>>)
    BY TextType, SaidType, ChunkType DEF ChunkEvents
  <2>2. PICK sent \in 0..Len(ChunkEvents(Said(text))) :
          GoOnUnless(IF sent < Len(ChunkEvents(Said(text))) THEN "chunk" ELSE "none", p)
    BY <1>7 DEF Stream
  <2>3. ~Streaming => ~(sent < Len(ChunkEvents(Said(text))))
    BY <2>1
  <2>4. QED
    BY <1>c, <2>2, <2>3
<1>8. ASSUME NEW text \in Text, ChatGenerate(text) PROVE InRunner' /\ Counted'
  <2>1. rpc = "generate" /\ runner = "chat" /\ err = "none"
    BY <1>8, <1>a DEF ChatGenerate, InRunner
  <2>2. rpc' = "returned" /\ err' \in {"none", "chunk"} /\ (~Streaming => err' # "chunk")
    BY <1>7, <1>8, <2>1 DEF ChatGenerate
  <2>3. UNCHANGED <<loop, runs, budget>>
    BY <1>8 DEF ChatGenerate
  <2>4. Len(texts') = Len(texts) + 1 /\ Len(texts) \in Nat
    BY <1>8, <1>b DEF ChatGenerate
  <2>5. InRunner'
    BY <1>a, <1>f, <2>1, <2>2, <2>3 DEF InRunner
  <2>6. Counted'
    BY <1>a, <1>b, <1>e, <1>f, <2>1, <2>2, <2>3, <2>4 DEF Counted
  <2>7. QED
    BY <2>5, <2>6
<1>9. ASSUME NEW text \in Text, ModelFails(text) PROVE InRunner' /\ Counted'
  <2>1. rpc \in {"generate", "round"} /\ rpc' = "returned" /\ err' = "model"
        /\ UNCHANGED <<loop, texts, runs, budget>>
    BY <1>9, <1>d DEF ModelFails, CallsModel, runVars
  <2>2. InRunner'
    BY <1>a, <1>f, <2>1 DEF InRunner
  <2>3. Counted'
    BY <1>a, <1>b, <1>e, <1>f, <2>1 DEF Counted, InRunner
  <2>4. QED
    BY <2>2, <2>3
<1>10. CASE LoopEnds
  <2>1. rpc = "round" /\ rpc' = "returned" /\ err' \in {"limit", "ctx"} /\ UNCHANGED <<loop, texts, runs, budget>>
    BY <1>10, <1>d DEF LoopEnds, runVars
  <2>2. InRunner'
    BY <1>a, <1>f, <2>1 DEF InRunner
  <2>3. Counted'
    BY <1>a, <1>b, <1>e, <1>f, <2>1 DEF Counted, InRunner
  <2>4. QED
    BY <2>2, <2>3
<1>11. ASSUME NEW text \in Text, NEW n \in 0..MaxCalls, NativeRound(text, n) PROVE InRunner' /\ Counted'
  <2>1. rpc = "round" /\ runner = "native" /\ err = "none" /\ loop.rounds < MaxIterations
    BY <1>11, <1>a DEF NativeRound, CallsModel, InRunner
  <2>2. /\ rpc' \in {"call", "returned"} /\ (rpc' = "call" => n # 0 /\ err' = "none")
        /\ err' \in {"none", "chunk"} /\ (~Streaming => err' # "chunk")
    BY <1>7, <1>11, <2>1 DEF NativeRound
  <2>3. loop' = [loop EXCEPT !.rounds = loop.rounds + 1, !.left = n] /\ UNCHANGED <<runs, budget>>
    BY <1>11 DEF NativeRound
  <2>4. n \in Nat
    BY <1>e
  <2>n. loop.rounds + 1 \in Nat
    BY <1>b
  <2>5. /\ loop'.rounds = loop.rounds + 1 /\ loop'.left = n /\ loop'.calls = loop.calls
    BY <1>b, <2>3, <2>4, <2>n, LoopRound
  <2>6. Len(texts') = Len(texts) + 1 /\ Len(texts) \in Nat
    BY <1>11, <1>b DEF NativeRound
  <2>7. InRunner'
    BY <1>a, <1>f, <2>1, <2>2, <2>4, <2>5 DEF InRunner
  <2>8. Counted'
    BY <1>a, <1>b, <1>e, <1>f, <2>1, <2>2, <2>3, <2>5, <2>6, SMTT(30) DEF Counted
  <2>9. QED
    BY <2>7, <2>8
<1>12. ASSUME NEW text \in Text, EnvelopeAnswer(text) PROVE InRunner' /\ Counted'
  <2>1. rpc = "round" /\ runner = "envelope" /\ err = "none" /\ loop.rounds < MaxIterations
    BY <1>12, <1>a DEF EnvelopeAnswer, CallsModel, InRunner
  <2>2. rpc' = "returned" /\ err' \in {"none", "chunk"} /\ (~Streaming => err' # "chunk")
    BY <1>7, <1>12, <2>1 DEF EnvelopeAnswer
  <2>3. loop' = [loop EXCEPT !.rounds = loop.rounds + 1] /\ UNCHANGED <<runs, budget>>
    BY <1>12 DEF EnvelopeAnswer
  <2>4. /\ loop'.rounds = loop.rounds + 1 /\ loop'.calls = loop.calls
    BY <1>b, <2>3, LoopReply
  <2>5. Len(texts') = Len(texts) + 1 /\ Len(texts) \in Nat
    BY <1>12, <1>b DEF EnvelopeAnswer
  <2>6. InRunner'
    BY <1>a, <1>f, <2>1, <2>2 DEF InRunner
  <2>7. Counted'
    BY <1>a, <1>b, <1>e, <1>f, <2>1, <2>2, <2>3, <2>4, <2>5 DEF Counted
  <2>8. QED
    BY <2>6, <2>7
<1>13. ASSUME NEW garbled \in BOOLEAN, EnvelopeCall(garbled) PROVE InRunner' /\ Counted'
  <2>1. rpc = "round" /\ runner = "envelope" /\ err = "none" /\ loop.rounds < MaxIterations
    BY <1>13, <1>a DEF EnvelopeCall, CallsModel, InRunner
  <2>2. rpc' \in {"call", "returned"} /\ err' \in {"none", "garbled"} /\ (rpc' = "call" => err' = "none")
    BY <1>13, <1>c, <2>1 DEF EnvelopeCall
  <2>3. loop' = [loop EXCEPT !.rounds = loop.rounds + 1, !.left = 1] /\ UNCHANGED <<runs, budget, texts>>
    BY <1>13 DEF EnvelopeCall
  <2>n. loop.rounds + 1 \in Nat /\ 1 \in Nat
    BY <1>b
  <2>4. /\ loop'.rounds = loop.rounds + 1 /\ loop'.left = 1 /\ loop'.calls = loop.calls
    BY <1>b, <2>3, <2>n, LoopRound
  <2>5. /\ Len(texts) \in Nat /\ Len(texts') = Len(texts) /\ runs' = runs /\ budget' = budget
        /\ Len(texts) <= loop.rounds /\ runs <= 1 + loop.calls /\ loop.calls <= MaxToolCalls
        /\ budget <= MaxToolCalls
    BY <1>b, <2>1, <2>3 DEF Counted
  <2>6. InRunner'
    BY <1>a, <1>f, <2>1, <2>2, <2>4 DEF InRunner
  <2>m. Len(texts') <= loop'.rounds /\ loop'.rounds <= MaxIterations
    BY <1>b, <1>e, <2>1, <2>4, <2>5
  <2>7. Counted'
    BY <1>a, <1>b, <1>f, <2>1, <2>2, <2>4, <2>5, <2>m DEF Counted
  <2>8. QED
    BY <2>6, <2>7
<1>14. ASSUME NEW name \in Registered \cup {"unknown", "none"}, TakeCall(name) PROVE InRunner' /\ Counted'
  <2>1. rpc = "call" /\ runner # "chat" /\ err = "none" /\ loop.left > 0 /\ UNCHANGED <<runs, budget, texts>>
    BY <1>14, <1>a DEF TakeCall, InRunner
  <2>2. CASE loop.calls < MaxToolCalls
    <3>1. rpc' = "taken" /\ err' = "none"
      BY <1>14, <1>c, <2>1, <2>2 DEF TakeCall
    <3>2. loop' = [loop EXCEPT !.calls = loop.calls + 1, !.tool = name] /\ name \in Names
      BY <1>14, <2>2 DEF TakeCall, Names
    <3>n. loop.calls + 1 \in Nat
      BY <1>b
    <3>3. loop'.calls = loop.calls + 1 /\ loop'.rounds = loop.rounds /\ loop'.left = loop.left
      BY <1>b, <3>2, <3>n, LoopTake
    <3>4. InRunner'
      BY <1>a, <1>f, <2>1, <3>1, <3>3 DEF InRunner
    <3>5. Counted'
      BY <1>a, <1>b, <1>e, <1>f, <2>1, <2>2, <3>1, <3>3 DEF Counted
    <3>6. QED
      BY <3>4, <3>5
  <2>3. CASE ~(loop.calls < MaxToolCalls)
    <3>1. rpc' = "returned" /\ err' = "limit" /\ UNCHANGED loop
      BY <1>14, <1>d, <2>3 DEF TakeCall
    <3>2. InRunner'
      BY <1>a, <1>f, <2>1, <3>1 DEF InRunner
    <3>3. Counted'
      BY <1>a, <1>b, <1>e, <1>f, <2>1, <3>1 DEF Counted
    <3>4. QED
      BY <3>2, <3>3
  <2>4. QED
    BY <2>2, <2>3
<1>15. ASSUME rpc \in {"taken", "running"}, runner # "chat", NEW e, e # "none", ~Streaming => e \notin {"chunk", "emit"},
              Answered \/ Abort(e), runs' \in {runs, runs + 1}, UNCHANGED <<budget, texts>>
       PROVE  InRunner' /\ Counted'
  <2>1. err = "none" /\ loop.left > 0
    BY <1>15, <1>a DEF InRunner
  <2>r. runs' \in Nat /\ runs' <= runs + 1 /\ budget' = budget /\ Len(texts') = Len(texts)
    BY <1>15, <1>b
  <2>c. runs + 1 <= 1 + loop.calls /\ loop.calls <= MaxToolCalls /\ Len(texts) <= loop.rounds
        /\ loop.rounds <= MaxIterations /\ budget <= MaxToolCalls
    BY <1>15 DEF Counted
  <2>l. runs' <= 1 + loop.calls
    BY <1>b, <2>r, <2>c
  <2>2. CASE Answered
    <3>1. loop' = [loop EXCEPT !.left = loop.left - 1, !.tool = "none"] /\ loop.left - 1 \in Nat
      BY <1>b, <2>1, <2>2 DEF Answered
    <3>2. loop'.left = loop.left - 1 /\ loop'.calls = loop.calls /\ loop'.rounds = loop.rounds
      BY <1>b, <3>1, LoopAnswered
    <3>3. rpc' = (IF loop.left = 1 THEN "round" ELSE "call") /\ err' = "none"
      BY <2>1, <2>2 DEF Answered
    <3>4. InRunner'
      BY <1>a, <1>b, <1>f, <1>15, <2>1, <3>2, <3>3 DEF InRunner
    <3>5. Counted'
      <4>1. rpc' \in {"round", "call"}
        BY <3>3
      <4>2. QED
        BY <1>a, <1>f, <1>15, <2>r, <2>c, <2>l, <3>2, <4>1 DEF Counted
    <3>6. QED
      BY <3>4, <3>5
  <2>3. CASE Abort(e)
    <3>1. rpc' = "returned" /\ err' = e /\ UNCHANGED loop
      BY <1>d, <2>3 DEF Abort
    <3>2. InRunner'
      BY <1>a, <1>f, <1>15, <3>1 DEF InRunner
    <3>3. Counted'
      BY <1>a, <1>f, <1>15, <2>r, <2>c, <2>l, <3>1 DEF Counted
    <3>4. QED
      BY <3>2, <3>3
  <2>4. QED
    BY <1>15, <2>2, <2>3
<1>16. CASE CallNameless
  <2>1. rpc = "taken" /\ runner # "chat" /\ UNCHANGED <<runs, budget, texts>> /\ (Answered \/ Abort("tool"))
    BY <1>16, <1>a DEF CallNameless, Recover, InRunner
  <2>2. QED
    BY <1>15, <2>1
<1>17. ASSUME NEW why \in {"undecodable", "unknown", "denied", "invalid"}, CallRejected(why) PROVE InRunner' /\ Counted'
  <2> DEFINE batch == EndBatch(loop.tool, web.found)
  <2>1. rpc = "taken" /\ runner # "chat" /\ UNCHANGED <<runs, budget, texts>>
    BY <1>17, <1>a DEF CallRejected, InRunner
  <2>2. batch \in Seq(EventSet) /\ (~Streaming => batch = <<>>)
    BY EndBatchType DEF Emits, Types, Loop
  <2> HIDE DEF batch
  <2>3. PICK r \in Reports(batch) :
          /\ Observe(batch, r)
          /\ IF ReportError(batch, r) # "none" THEN Abort(ReportError(batch, r))
             ELSE IF why = "denied" THEN Abort("denied") ELSE Recover("tool")
    BY <1>17 DEF CallRejected, batch
  <2>4. ReportError(batch, r) \in {"none", "callback", "emit"} /\ (~Streaming => ReportError(batch, r) # "emit")
    BY <1>3, <2>2, <2>3
  <2>5. PICK e \in {"callback", "emit", "denied", "tool"} : (Answered \/ Abort(e)) /\ (~Streaming => e # "emit")
    BY <2>3, <2>4 DEF Recover
  <2>6. QED
    BY <1>15, <2>1, <2>5
<1>18. CASE CallStart
  <2> DEFINE batch == StartBatch(loop.tool)
  <2>1. rpc = "taken" /\ runner # "chat" /\ err = "none" /\ loop.left > 0 /\ UNCHANGED <<loop, runs, budget, texts>>
    BY <1>18, <1>a DEF CallStart, InRunner, runVars
  <2>2. batch \in Seq(EventSet) /\ (~Streaming => batch = <<>>)
    BY <1>18, StartBatchType DEF StartBatch, Emits, Types, Loop
  <2> HIDE DEF batch
  <2>3. PICK r \in Reports(batch) : Observe(batch, r) /\ GoOnUnless(ReportError(batch, r), "running")
    BY <1>18 DEF CallStart, batch
  <2>4. /\ rpc' \in {"running", "returned"} /\ err' \in {"none", "callback", "emit"}
        /\ (rpc' = "running" => err' = "none") /\ (~Streaming => err' # "emit")
    BY <1>3, <1>c, <2>1, <2>2, <2>3
  <2>5. InRunner'
    BY <1>a, <1>f, <2>1, <2>4 DEF InRunner
  <2>6. Counted'
    BY <1>a, <1>b, <1>e, <1>f, <2>1, <2>4 DEF Counted
  <2>7. QED
    BY <2>5, <2>6
<1>19. ASSUME NEW failed \in BOOLEAN, CallEnd(failed) PROVE InRunner' /\ Counted'
  <2> DEFINE found == Found(loop.tool, IF failed THEN "error" ELSE "text")
             batch == EndBatch(loop.tool, found)
  <2>1. rpc = "running" /\ runner # "chat" /\ runs' = runs + 1 /\ UNCHANGED <<budget, texts>>
    BY <1>19, <1>a DEF CallEnd
  <2>2. batch \in Seq(EventSet) /\ (~Streaming => batch = <<>>)
    BY DrainedType, EndBatchType DEF Emits, Types, Loop
  <2> HIDE DEF batch, found
  <2>3. PICK r \in Reports(batch) :
          /\ Observe(batch, r)
          /\ IF failed THEN IF ctx = "live" THEN Recover("tool") ELSE Abort("ctx")
             ELSE IF ReportError(batch, r) = "none" THEN Answered ELSE Abort(ReportError(batch, r))
    BY <1>19 DEF CallEnd, batch, found
  <2>4. ReportError(batch, r) \in {"none", "callback", "emit"} /\ (~Streaming => ReportError(batch, r) # "emit")
    BY <1>3, <2>2, <2>3
  <2>5. PICK e \in {"callback", "emit", "ctx", "tool"} : (Answered \/ Abort(e)) /\ (~Streaming => e # "emit")
    BY <2>3, <2>4 DEF Recover
  <2>6. QED
    BY <1>15, <2>1, <2>5
<1>20. QED
  BY <1>1, <1>2, <1>4, <1>5, <1>6, <1>8, <1>9, <1>10, <1>11, <1>12, <1>13, <1>14, <1>16, <1>17, <1>18, <1>19
     DEF RunRunner, RunnerStep
-----------------------------------------------------------------------------
(* The stages before the retrieval has been made. *)
Unretrieved == {"begin", "history", "access", "announce", "retrieve"}

(* A step of the pipeline outside the runner leaves the position in the    *)
(* runner and the counters alone.                                          *)
LEMMA StaysOut ==
  ASSUME Types, InRunner, Counted, stage # "runner", stage' # "runner",
         UNCHANGED <<mode, runner, rpc, runVars>>,
         stage' \in BeforeModel => stage \in BeforeModel,
         stage' \in Unretrieved => stage \in Unretrieved,
         Streaming \/ err' \notin {"chunk", "emit"}
  PROVE  InRunner' /\ Counted'
<1>1. rpc = "idle" /\ rpc' = "idle"
  BY DEF InRunner
<1>2. InRunner'
  BY <1>1 DEF InRunner, runVars, Streaming, BeforeModel
<1>3. Counted'
  BY <1>1 DEF Counted, runVars, Unretrieved, BeforeModel, InUse
<1>4. QED
  BY <1>2, <1>3

(* A step that touches neither runner nor events keeps the types. *)
LEMMA QuietTypes ==
  ASSUME Types, UNCHANGED quiet, faults' \in 0..MaxFaults, stage' \in Stages, err' \in Errors,
         refused' = refused, recorded' \in Seq({"success", "failure", "refused"}),
         memorized' \in BOOLEAN, committed' \in BOOLEAN
  PROVE  Types'
BY DEF Types, quiet, noteVars, runVars

(* A batch of the pipeline is accepted, or the emitter's error returned. *)
LEMMA EmitThenEffect ==
  ASSUME Types, NEW batch \in Seq(EventSet), NEW s, EmitThen(batch, s)
  PROVE  /\ events' \in Seq(EventSet) /\ faults' \in 0..MaxFaults
         /\ \/ stage' = s /\ err' = err
            \/ stage' = "returned" /\ err' = "emit"
<1>1. PICK sent \in 0..Len(batch) :
        /\ Hand(batch, sent) /\ Spend(sent < Len(batch))
        /\ IF sent = Len(batch) THEN Proceed(s) ELSE Return("emit")
  BY DEF EmitThen
<1>2. events \in Seq(EventSet) /\ faults \in 0..MaxFaults /\ (sent < Len(batch)) \in BOOLEAN
  BY DEF Types
<1>3. events' \in Seq(EventSet)
  BY <1>1, <1>2, HandEffect
<1>4. faults' \in 0..MaxFaults
  BY <1>1, <1>2, SpendType
<1>5. QED
  BY <1>1, <1>3, <1>4 DEF Proceed, Return

(* The batches of the pipeline are well formed. *)
LEMMA PipelineBatches ==
  /\ <<Event("retrieve_start", "none"), Event("tool_start", RetrieveTool)>> \in Seq(EventSet)
  /\ <<Event("retrieve_end", "none"), Event("tool_end", RetrieveTool)>> \in Seq(EventSet)
  /\ <<Event("retrieve_end", "none"), Event("tool_end", RetrieveTool)>>
       \o (IF evidence THEN <<Event("citation", RetrieveTool)>> ELSE <<>>) \in Seq(EventSet)
  /\ <<Event("done", "none")>> \in Seq(EventSet)
  /\ <<Event("error", "none")>> \in Seq(EventSet)
<1>1. RetrieveTool \in Names /\ "none" \in Names
  BY DEF Names, Registered
<1>2. \A type \in EventTypes : Event(type, "none") \in EventSet /\ Event(type, RetrieveTool) \in EventSet
  BY <1>1, EventType
<1>3. /\ Event("retrieve_start", "none") \in EventSet /\ Event("tool_start", RetrieveTool) \in EventSet
      /\ Event("retrieve_end", "none") \in EventSet /\ Event("tool_end", RetrieveTool) \in EventSet
      /\ Event("citation", RetrieveTool) \in EventSet
      /\ Event("done", "none") \in EventSet /\ Event("error", "none") \in EventSet
  BY <1>2 DEF EventTypes
<1>4. QED
  BY <1>3
(* Types, position and counters under the steps of the pipeline. *)
PipelineStep ==
  \/ InstructionFails \/ Begin \/ Announce \/ Unanswerable \/ PresentEvidence \/ EmitDone \/ EmitError
  \/ \E ok \in BOOLEAN :
       \/ LoadHistory(ok) \/ ApplyBoundary(ok) \/ RetrieveMemory(ok) \/ ModelStart(ok)
       \/ ModelEnd(~ok) \/ StoreMemory(ok) \/ CommitHistory(ok) \/ Decode(ok)
  \/ \E outcome \in {"callback", "search", "low_similarity", "no_evidence", "hits"}, p \in BOOLEAN :
       Retrieve(outcome, p)
  \/ \E fault \in {"none", "recorder", "logger"} : Record(fault)

(* A step of the pipeline keeps the types, the position and the counters.  *)
LEMMA PipelineControl ==
  ASSUME Types, InRunner, Counted, Outcome, PipelineStep
  PROVE  Types' /\ InRunner' /\ Counted'
<1>a. /\ faults \in 0..MaxFaults /\ err \in Errors /\ memorized \in BOOLEAN /\ committed \in BOOLEAN
      /\ recorded \in Seq({"success", "failure", "refused"}) /\ events \in Seq(EventSet)
      /\ mode \in Modes
  BY DEF Types
<1>b. \A failed \in BOOLEAN : Spend(failed) => faults' \in 0..MaxFaults
  BY <1>a, SpendType
<1>c. ~Streaming => err \notin {"chunk", "emit"}
  BY DEF InRunner
<1>d. {"none", "ctx", "history", "access", "search", "insufficient", "memory", "callback", "emit", "chunk", "limit",
       "record", "structure"} \subseteq Errors
  BY DEF Errors
<1>1. CASE Begin
  <2>1. faults' \in 0..MaxFaults /\ UNCHANGED quiet /\ refused' = refused
    BY <1>1, <1>a, <1>b DEF Begin, outcomes
  <2>2. /\ stage' \in Stages /\ err' \in Errors /\ stage # "runner" /\ stage' # "runner"
        /\ recorded' \in Seq({"success", "failure", "refused"}) /\ memorized' \in BOOLEAN /\ committed' \in BOOLEAN
        /\ (stage' \in BeforeModel => stage \in BeforeModel)
        /\ (stage' \in Unretrieved => stage \in Unretrieved)
        /\ err' \in {err, "ctx"}
    BY <1>1, <1>a DEF Begin, outcomes, Proceed, Return, Failing, Stages, Errors, BeforeModel, Unretrieved
  <2>3. Types'
    BY <2>1, <2>2, QuietTypes
  <2>4. InRunner' /\ Counted'
    BY <2>1, <2>2, <1>c, StaysOut DEF quiet
  <2>5. QED
    BY <2>3, <2>4
<1>i. CASE InstructionFails
  <2>1. faults' \in 0..MaxFaults /\ UNCHANGED quiet /\ refused' = refused
    BY <1>i, <1>a, <1>b DEF InstructionFails, outcomes
  <2>2. /\ stage' \in Stages /\ err' \in Errors /\ stage # "runner" /\ stage' # "runner"
        /\ recorded' \in Seq({"success", "failure", "refused"}) /\ memorized' \in BOOLEAN /\ committed' \in BOOLEAN
        /\ (stage' \in BeforeModel => stage \in BeforeModel)
        /\ (stage' \in Unretrieved => stage \in Unretrieved)
        /\ err' \in {"structure"}
    BY <1>i, <1>a DEF InstructionFails, outcomes, Return, Stages, Errors, BeforeModel, Unretrieved
  <2>3. Types'
    BY <2>1, <2>2, QuietTypes
  <2>4. InRunner' /\ Counted'
    BY <2>1, <2>2, <1>c, StaysOut DEF quiet
  <2>5. QED
    BY <2>3, <2>4
<1>2. ASSUME NEW ok \in BOOLEAN, LoadHistory(ok) PROVE Types' /\ InRunner' /\ Counted'
  <2>1. faults' \in 0..MaxFaults /\ UNCHANGED quiet /\ refused' = refused
    BY <1>2, <1>a, <1>b DEF LoadHistory, outcomes
  <2>2. /\ stage' \in Stages /\ err' \in Errors /\ stage # "runner" /\ stage' # "runner"
        /\ recorded' \in Seq({"success", "failure", "refused"}) /\ memorized' \in BOOLEAN /\ committed' \in BOOLEAN
        /\ (stage' \in BeforeModel => stage \in BeforeModel)
        /\ (stage' \in Unretrieved => stage \in Unretrieved)
        /\ err' \in {err, "history"}
    BY <1>2, <1>a DEF LoadHistory, outcomes, Proceed, Return, Failing, Stages, Errors, BeforeModel, Unretrieved
  <2>3. Types'
    BY <2>1, <2>2, QuietTypes
  <2>4. InRunner' /\ Counted'
    BY <2>1, <2>2, <1>c, StaysOut DEF quiet
  <2>5. QED
    BY <2>3, <2>4
<1>3. ASSUME NEW ok \in BOOLEAN, ApplyBoundary(ok) PROVE Types' /\ InRunner' /\ Counted'
  <2>1. faults' \in 0..MaxFaults /\ UNCHANGED quiet /\ refused' = refused
    BY <1>3, <1>a, <1>b DEF ApplyBoundary, outcomes
  <2>2. /\ stage' \in Stages /\ err' \in Errors /\ stage # "runner" /\ stage' # "runner"
        /\ recorded' \in Seq({"success", "failure", "refused"}) /\ memorized' \in BOOLEAN /\ committed' \in BOOLEAN
        /\ (stage' \in BeforeModel => stage \in BeforeModel)
        /\ (stage' \in Unretrieved => stage \in Unretrieved)
        /\ err' \in {err, "access"}
    BY <1>3, <1>a DEF ApplyBoundary, outcomes, Proceed, Return, Failing, Stages, Errors, BeforeModel, Unretrieved
  <2>3. Types'
    BY <2>1, <2>2, QuietTypes
  <2>4. InRunner' /\ Counted'
    BY <2>1, <2>2, <1>c, StaysOut DEF quiet
  <2>5. QED
    BY <2>3, <2>4
<1>4. CASE Announce
  <2> DEFINE batch == <<Event("retrieve_start", "none"), Event("tool_start", RetrieveTool)>>
  <2>1. EmitThen(batch, "retrieve") /\ stage = "announce"
        /\ UNCHANGED <<mode, runner, ctx, tools, web, rpc, runVars, outcomes>>
    BY <1>4 DEF Announce
  <2>2. batch \in Seq(EventSet)
    BY PipelineBatches
  <2> HIDE DEF batch
  <2>3. events' \in Seq(EventSet) /\ faults' \in 0..MaxFaults
        /\ ((stage' = "retrieve" /\ err' = err) \/ (stage' = "returned" /\ err' = "emit"))
    BY <2>1, <2>2, EmitThenEffect
  <2>4. Types'
    BY <1>a, <2>1, <2>3 DEF Types, runVars, outcomes, Stages, Errors
  <2>5. Streaming
    BY <2>1 DEF Outcome
  <2>6. InRunner' /\ Counted'
    BY <2>1, <2>3, <2>5, StaysOut DEF BeforeModel, Unretrieved
  <2>7. QED
    BY <2>4, <2>6
<1>5. ASSUME NEW ok \in BOOLEAN, RetrieveMemory(ok) PROVE Types' /\ InRunner' /\ Counted'
  <2>1. faults' \in 0..MaxFaults /\ UNCHANGED quiet /\ refused' = refused
    BY <1>5, <1>a, <1>b DEF RetrieveMemory, outcomes
  <2>2. /\ stage' \in Stages /\ err' \in Errors /\ stage # "runner" /\ stage' # "runner"
        /\ recorded' \in Seq({"success", "failure", "refused"}) /\ memorized' \in BOOLEAN /\ committed' \in BOOLEAN
        /\ (stage' \in BeforeModel => stage \in BeforeModel)
        /\ (stage' \in Unretrieved => stage \in Unretrieved)
        /\ err' \in {err, "memory"}
    BY <1>5, <1>a DEF RetrieveMemory, outcomes, Proceed, Return, Failing, Stages, Errors, BeforeModel, Unretrieved
  <2>3. Types'
    BY <2>1, <2>2, QuietTypes
  <2>4. InRunner' /\ Counted'
    BY <2>1, <2>2, <1>c, StaysOut DEF quiet
  <2>5. QED
    BY <2>3, <2>4
<1>6. CASE PresentEvidence
  <2> DEFINE batch == <<Event("retrieve_end", "none"), Event("tool_end", RetrieveTool)>>
                      \o (IF evidence THEN <<Event("citation", RetrieveTool)>> ELSE <<>>)
  <2>1. EmitThen(batch, "model") /\ stage = "evidence"
        /\ UNCHANGED <<mode, runner, ctx, tools, web, rpc, runVars, outcomes>>
    BY <1>6 DEF PresentEvidence
  <2>2. batch \in Seq(EventSet)
    BY PipelineBatches
  <2> HIDE DEF batch
  <2>3. events' \in Seq(EventSet) /\ faults' \in 0..MaxFaults
        /\ ((stage' = "model" /\ err' = err) \/ (stage' = "returned" /\ err' = "emit"))
    BY <2>1, <2>2, EmitThenEffect
  <2>4. Types'
    BY <1>a, <2>1, <2>3 DEF Types, runVars, outcomes, Stages, Errors
  <2>5. Streaming
    BY <2>1 DEF Outcome
  <2>6. InRunner' /\ Counted'
    BY <2>1, <2>3, <2>5, StaysOut DEF BeforeModel, Unretrieved
  <2>7. QED
    BY <2>4, <2>6
<1>7. CASE EmitDone
  <2> DEFINE batch == <<Event("done", "none")>>
  <2>1. EmitThen(batch, "record") /\ stage = "done"
        /\ UNCHANGED <<mode, runner, ctx, tools, web, rpc, runVars, outcomes>>
    BY <1>7 DEF EmitDone
  <2>2. batch \in Seq(EventSet)
    BY PipelineBatches
  <2> HIDE DEF batch
  <2>3. events' \in Seq(EventSet) /\ faults' \in 0..MaxFaults
        /\ ((stage' = "record" /\ err' = err) \/ (stage' = "returned" /\ err' = "emit"))
    BY <2>1, <2>2, EmitThenEffect
  <2>4. Types'
    BY <1>a, <2>1, <2>3 DEF Types, runVars, outcomes, Stages, Errors
  <2>5. Streaming
    BY <2>1 DEF Outcome
  <2>6. InRunner' /\ Counted'
    BY <2>1, <2>3, <2>5, StaysOut DEF BeforeModel, Unretrieved
  <2>7. QED
    BY <2>4, <2>6
<1>8. CASE EmitError
  <2> DEFINE batch == <<Event("error", "none")>>
  <2>1. EmitThen(batch, "record") /\ stage = "failing"
        /\ UNCHANGED <<mode, runner, ctx, tools, web, rpc, runVars, outcomes>>
    BY <1>8 DEF EmitError
  <2>2. batch \in Seq(EventSet)
    BY PipelineBatches
  <2> HIDE DEF batch
  <2>3. events' \in Seq(EventSet) /\ faults' \in 0..MaxFaults
        /\ ((stage' = "record" /\ err' = err) \/ (stage' = "returned" /\ err' = "emit"))
    BY <2>1, <2>2, EmitThenEffect
  <2>4. Types'
    BY <1>a, <2>1, <2>3 DEF Types, runVars, outcomes, Stages, Errors
  <2>5. Streaming
    BY <2>1 DEF Outcome
  <2>6. InRunner' /\ Counted'
    BY <2>1, <2>3, <2>5, StaysOut DEF BeforeModel, Unretrieved
  <2>7. QED
    BY <2>4, <2>6
<1>9. ASSUME NEW fault \in {"none", "recorder", "logger"}, Record(fault) PROVE Types' /\ InRunner' /\ Counted'
  <2>1. faults' \in 0..MaxFaults /\ UNCHANGED quiet /\ refused' = refused
    BY <1>9, <1>a, <1>b DEF Record, Status
  <2>2. /\ stage' \in Stages /\ err' \in Errors /\ stage # "runner" /\ stage' # "runner"
        /\ recorded' \in Seq({"success", "failure", "refused"}) /\ memorized' \in BOOLEAN /\ committed' \in BOOLEAN
        /\ (stage' \in BeforeModel => stage \in BeforeModel)
        /\ (stage' \in Unretrieved => stage \in Unretrieved)
        /\ err' \in {err, "record"}
    BY <1>9, <1>a DEF Record, Status, Proceed, Return, Failing, Stages, Errors, BeforeModel, Unretrieved
  <2>3. Types'
    BY <2>1, <2>2, QuietTypes
  <2>4. InRunner' /\ Counted'
    BY <2>1, <2>2, <1>c, StaysOut DEF quiet
  <2>5. QED
    BY <2>3, <2>4
<1>10. ASSUME NEW ok \in BOOLEAN, StoreMemory(ok) PROVE Types' /\ InRunner' /\ Counted'
  <2>1. faults' \in 0..MaxFaults /\ UNCHANGED quiet /\ refused' = refused
    BY <1>10, <1>a, <1>b DEF StoreMemory
  <2>2. /\ stage' \in Stages /\ err' \in Errors /\ stage # "runner" /\ stage' # "runner"
        /\ recorded' \in Seq({"success", "failure", "refused"}) /\ memorized' \in BOOLEAN /\ committed' \in BOOLEAN
        /\ (stage' \in BeforeModel => stage \in BeforeModel)
        /\ (stage' \in Unretrieved => stage \in Unretrieved)
        /\ err' \in {err, "memory"}
    BY <1>10, <1>a DEF StoreMemory, Proceed, Return, Failing, Stages, Errors, BeforeModel, Unretrieved
  <2>3. Types'
    BY <2>1, <2>2, QuietTypes
  <2>4. InRunner' /\ Counted'
    BY <2>1, <2>2, <1>c, StaysOut DEF quiet
  <2>5. QED
    BY <2>3, <2>4
<1>11. ASSUME NEW ok \in BOOLEAN, CommitHistory(ok) PROVE Types' /\ InRunner' /\ Counted'
  <2>1. faults' \in 0..MaxFaults /\ UNCHANGED quiet /\ refused' = refused
    BY <1>11, <1>a, <1>b DEF CommitHistory
  <2>2. /\ stage' \in Stages /\ err' \in Errors /\ stage # "runner" /\ stage' # "runner"
        /\ recorded' \in Seq({"success", "failure", "refused"}) /\ memorized' \in BOOLEAN /\ committed' \in BOOLEAN
        /\ (stage' \in BeforeModel => stage \in BeforeModel)
        /\ (stage' \in Unretrieved => stage \in Unretrieved)
        /\ err' \in {err, "history"}
    BY <1>11, <1>a DEF CommitHistory, Proceed, Return, Failing, Stages, Errors, BeforeModel, Unretrieved
  <2>3. Types'
    BY <2>1, <2>2, QuietTypes
  <2>4. InRunner' /\ Counted'
    BY <2>1, <2>2, <1>c, StaysOut DEF quiet
  <2>5. QED
    BY <2>3, <2>4
<1>k. ASSUME NEW ok \in BOOLEAN, Decode(ok) PROVE Types' /\ InRunner' /\ Counted'
  <2>1. faults' \in 0..MaxFaults /\ UNCHANGED quiet /\ refused' = refused
    BY <1>k, <1>a, <1>b DEF Decode, outcomes
  <2>2. /\ stage' \in Stages /\ err' \in Errors /\ stage # "runner" /\ stage' # "runner"
        /\ recorded' \in Seq({"success", "failure", "refused"}) /\ memorized' \in BOOLEAN /\ committed' \in BOOLEAN
        /\ (stage' \in BeforeModel => stage \in BeforeModel)
        /\ (stage' \in Unretrieved => stage \in Unretrieved)
        /\ err' \in {err, "structure"}
    BY <1>k, <1>a DEF Decode, outcomes, Proceed, Return, Stages, Errors, BeforeModel, Unretrieved
  <2>3. Types'
    BY <2>1, <2>2, QuietTypes
  <2>4. InRunner' /\ Counted'
    BY <2>1, <2>2, <1>c, StaysOut DEF quiet
  <2>5. QED
    BY <2>3, <2>4
<1>12. CASE Unanswerable
  <2>1. stage = "unanswerable" /\ UNCHANGED <<mode, runner, ctx, tools, web, rpc, runVars, outcomes>>
    BY <1>12 DEF Unanswerable
  <2>2. CASE Streaming
    <3> DEFINE batch == <<Event("retrieve_end", "none"), Event("tool_end", RetrieveTool)>>
    <3>1. PICK sent \in 0..Len(batch) :
            /\ Hand(batch, sent) /\ Spend(sent < Len(batch))
            /\ IF sent = Len(batch) THEN Failing(err) ELSE Return("emit")
      BY <1>12, <2>2 DEF Unanswerable
    <3>2. batch \in Seq(EventSet)
      BY PipelineBatches
    <3> HIDE DEF batch
    <3>3. events' \in Seq(EventSet)
      BY <1>a, <3>1, <3>2, HandEffect
    <3>4. (sent < Len(batch)) \in BOOLEAN
      OBVIOUS
    <3>5. faults' \in 0..MaxFaults
      BY <1>b, <3>1, <3>4
    <3>6. stage' \in {"failing", "returned"} /\ err' \in {err, "emit"}
      BY <2>2, <3>1 DEF Failing, Return
    <3>7. Types'
      BY <1>a, <2>1, <3>3, <3>5, <3>6 DEF Types, runVars, outcomes, Stages, Errors
    <3>8. InRunner' /\ Counted'
      BY <2>1, <2>2, <3>6, StaysOut DEF BeforeModel, Unretrieved
    <3>9. QED
      BY <3>7, <3>8
  <2>3. CASE ~Streaming
    <3>1. stage' = "record" /\ err' = err /\ UNCHANGED <<events, faults>>
      BY <1>12, <2>3 DEF Unanswerable, Failing
    <3>2. Types'
      BY <2>1, <3>1 DEF Types, runVars, outcomes, Stages
    <3>3. InRunner' /\ Counted'
      BY <1>c, <2>1, <3>1, StaysOut DEF BeforeModel, Unretrieved
    <3>4. QED
      BY <3>2, <3>3
  <2>4. QED
    BY <2>2, <2>3
<1>13. ASSUME NEW ok \in BOOLEAN, ModelStart(ok) PROVE Types' /\ InRunner' /\ Counted'
  <2>1. /\ stage = "model" /\ rpc = "idle"
        /\ UNCHANGED <<mode, runner, ctx, noteVars, runVars, outcomes>>
    BY <1>13 DEF ModelStart, InRunner
  <2>2. faults' \in 0..MaxFaults
    BY <1>13, <1>b DEF ModelStart
  <2>3. /\ stage' \in {"runner", "returned", "failing", "record"} /\ err' \in {err, "callback"}
        /\ (stage' = "runner" => rpc' = "entry" /\ err' = err) /\ (stage' # "runner" => rpc' = "idle")
    BY <1>13, <2>1 DEF ModelStart, Proceed, Return, Failing
  <2>4. Types'
    BY <1>a, <1>d, <2>1, <2>2, <2>3 DEF Types, noteVars, runVars, outcomes, Stages
  <2>5. err = "none" /\ texts = <<>> /\ messages = <<>> /\ answer = <<>> /\ loop = NewLoop
        /\ runs <= budget /\ budget <= 1
    BY <2>1 DEF Outcome, InRunner, Counted, BeforeModel
  <2>6. InRunner'
    BY <1>c, <2>1, <2>3, <2>5 DEF InRunner, runVars, Streaming, BeforeModel
  <2>7. Counted'
    <3>1. rpc' \in {"entry", "idle"} /\ InUse' = 0 /\ InUse = 0
      BY <2>1, <2>3 DEF InUse
    <3>2. QED
      BY <2>1, <2>3, <2>5, <3>1 DEF Counted, runVars, BeforeModel
  <2>8. QED
    BY <2>4, <2>6, <2>7
<1>14. ASSUME NEW panics \in BOOLEAN, ModelEnd(panics) PROVE Types' /\ InRunner' /\ Counted'
  <2>1. /\ stage = "runner" /\ rpc = "returned" /\ rpc' = "idle"
        /\ UNCHANGED <<mode, runner, ctx, noteVars, runVars, recorded, memorized, committed>>
    BY <1>14 DEF ModelEnd
  <2>2. faults' \in 0..MaxFaults
    BY <1>14, <1>b DEF ModelEnd
  <2>3. stage' \in {"done", "memorize", "returned", "failing", "record"} /\ err' \in {err, "callback"}
    BY <1>14 DEF ModelEnd, Proceed, Return, Failing
  <2>4. refused' \in {refused, "tool_failure"}
    BY <1>14 DEF ModelEnd, Refused
  <2>5. Types'
    BY <1>a, <1>d, <2>1, <2>2, <2>3, <2>4 DEF Types, noteVars, runVars, Stages
  <2>6. InRunner'
    BY <1>c, <2>1, <2>3 DEF InRunner, runVars, Streaming, BeforeModel
  <2>7. Counted'
    <3>1. InUse' = 0 /\ InUse = 0
      BY <2>1 DEF InUse
    <3>2. QED
      BY <2>1, <2>3, <3>1 DEF Counted, runVars, BeforeModel
  <2>8. QED
    BY <2>5, <2>6, <2>7
<1>15. ASSUME NEW outcome \in {"callback", "search", "low_similarity", "no_evidence", "hits"}, NEW p \in BOOLEAN,
              Retrieve(outcome, p)
       PROVE  Types' /\ InRunner' /\ Counted'
  <2>1. /\ stage = "retrieve" /\ rpc = "idle" /\ budget' = budget + 1 /\ runs' \in {runs, runs + 1}
        /\ UNCHANGED <<mode, runner, ctx, events, web, rpc, loop, messages, texts, answer,
                       recorded, memorized, committed>>
    BY <1>15 DEF Retrieve, InRunner
  <2>2. faults' \in 0..MaxFaults
    BY <1>15, <1>b DEF Retrieve
  <2>3. evidence' \in BOOLEAN
    BY <1>15 DEF Retrieve
  <2>4. /\ stage' \in {"unanswerable", "memory"} /\ err' \in {err, "callback", "search", "insufficient"}
        /\ refused' \in {refused, "low_similarity", "no_evidence"}
    BY <1>15 DEF Retrieve, Proceed
  <2>5. tools' \in Seq(ToolRecord)
    <3>1. RetrieveTool \in Names /\ tools \in Seq(ToolRecord)
      BY DEF Names, Registered, Types
    <3>2. \A failed \in BOOLEAN : endTool(startTool(tools, RetrieveTool), RetrieveTool, failed) \in Seq(ToolRecord)
      BY <3>1, RecordTypes
    <3>3. (outcome # "hits" \/ p) \in BOOLEAN
      OBVIOUS
    <3>4. QED
      BY <1>15, <3>1, <3>2, <3>3 DEF Retrieve
  <2>6. runs = 0 /\ budget = 0
    BY <2>1 DEF Counted
  <2>7. Types'
    BY <1>a, <1>d, <2>1, <2>2, <2>3, <2>4, <2>5 DEF Types, Stages
  <2>8. InRunner'
    BY <1>c, <2>1, <2>4 DEF InRunner, Streaming, BeforeModel
  <2>9. Counted'
    <3>1. InUse' = 0 /\ InUse = 0 /\ MaxToolCalls \in Nat \ {0}
      BY <2>1, RunnersAssumption DEF InUse
    <3>2. loop.calls \in Nat
      BY DEF Types, Loop
    <3>3. QED
      <4>1. runs' \in {0, 1} /\ budget' = 1 /\ texts = <<>> /\ loop.calls = 0 /\ loop.rounds = 0
        BY <2>1, <2>6 DEF InRunner, BeforeModel, NewLoop
      <4>2. Len(texts') = 0 /\ loop' = loop /\ runner' = runner /\ rpc' = "idle"
        BY <2>1, <4>1
      <4>3. QED
        <5>1. (runner = "chat" => /\ runs + InUse <= budget
                                  /\ Len(texts) <= IF rpc \in {"prompt", "fallback", "running", "generate"} THEN 0 ELSE 1)'
          <6>1. runs' + InUse' <= budget'
            <7>1. CASE runs' = 0
              BY <7>1, <3>1, <4>1
            <7>2. CASE runs' = 1
              BY <7>2, <3>1, <4>1
            <7>3. QED
              BY <4>1, <7>1, <7>2
          <6>2. Len(texts') <= IF rpc' \in {"prompt", "fallback", "running", "generate"} THEN 0 ELSE 1
            BY <4>2
          <6>3. QED
            BY <6>1, <6>2
        <5>2. /\ loop'.calls = 0 /\ loop'.rounds = 0 /\ 0 <= MaxToolCalls /\ 0 <= MaxIterations /\ 1 <= MaxToolCalls
          BY <4>1, <4>2, RunnersAssumption
        <5>3. (runner # "chat" => /\ runs + InUse <= 1 + loop.calls /\ loop.calls <= MaxToolCalls
                                  /\ Len(texts) <= loop.rounds /\ loop.rounds <= MaxIterations)'
          BY <3>1, <4>1, <4>2, <5>2
        <5>4. (stage \in Unretrieved => runs = 0 /\ budget = 0)'
          BY <2>4 DEF Unretrieved
        <5>5. QED
          BY <4>1, <5>1, <5>2, <5>3, <5>4 DEF Counted, Unretrieved
  <2>10. QED
    BY <2>7, <2>8, <2>9
<1>16. \A ok \in BOOLEAN : (~ok) \in BOOLEAN
  OBVIOUS
<1>17. QED
  BY <1>1, <1>2, <1>3, <1>4, <1>5, <1>6, <1>7, <1>8, <1>9, <1>10, <1>11, <1>12, <1>13, <1>14, <1>15, <1>16,
     <1>i, <1>k DEF PipelineStep
(* What the runners hand to the emitter. *)
RunnerEvents == {"answer_chunk", "tool_start", "tool_end", "citation"}

(* A step of a runner hands the emitter such events, or none.              *)
LEMMA RunnerHands ==
  ASSUME Types, InRunner, RunRunner
  PROVE  \/ events' = events
         \/ \E batch \in Seq(EventSet) : \E sent \in 0..Len(batch) :
              Hand(batch, sent) /\ \A i \in 1..Len(batch) : batch[i].type \in RunnerEvents
<1> DEFINE Hands == \/ events' = events
                    \/ \E batch \in Seq(EventSet) : \E sent \in 0..Len(batch) :
                         Hand(batch, sent) /\ \A i \in 1..Len(batch) : batch[i].type \in RunnerEvents
<1>a. events \in Seq(EventSet) /\ loop \in Loop /\ loop.tool \in Names /\ loop.next \in Nat \ {0}
      /\ web.found \in Nat /\ web.emitted <= web.found /\ Len(FallbackTools) \in Nat
  BY RunnersAssumption DEF Types, Loop
<1>b. ASSUME NEW name \in Names, NEW r \in Reports(StartBatch(name)), Observe(StartBatch(name), r) PROVE Hands
  <2>1. StartBatch(name) \in Seq(EventSet) /\ \A i \in 1..Len(StartBatch(name)) : StartBatch(name)[i].type \in RunnerEvents
    BY StartBatchType DEF RunnerEvents
  <2>2. r.sent \in 0..Len(StartBatch(name)) /\ Hand(StartBatch(name), r.sent)
    BY <1>a, <1>b, <2>1, ReportType
  <2>3. QED
    BY <2>1, <2>2
<1>c. ASSUME NEW name \in Names, NEW found \in Nat, web.emitted <= found,
             NEW r \in Reports(EndBatch(name, found)), Observe(EndBatch(name, found), r)
      PROVE  Hands
  <2> DEFINE batch == EndBatch(name, found)
  <2>1. batch \in Seq(EventSet) /\ \A i \in 1..Len(batch) : batch[i].type \in RunnerEvents
    BY <1>c, EndBatchType DEF RunnerEvents
  <2>2. r \in Reports(batch) /\ Observe(batch, r)
    BY <1>c
  <2> HIDE DEF batch
  <2>3. r.sent \in 0..Len(batch) /\ Hand(batch, r.sent)
    BY <1>a, <2>1, <2>2, ReportType
  <2>4. QED
    BY <2>1, <2>3
<1>d. ASSUME NEW text \in Text, NEW sent \in 0..Len(ChunkEvents(Said(text))), Hand(ChunkEvents(Said(text)), sent)
      PROVE  Hands
  <2>1. /\ ChunkEvents(Said(text)) \in Seq(EventSet)
        /\ \A i \in 1..Len(ChunkEvents(Said(text))) : ChunkEvents(Said(text))[i].type \in RunnerEvents
    BY TextType, SaidType, ChunkType DEF RunnerEvents
  <2>2. QED
    BY <1>d, <2>1
<1>e. ASSUME NEW text \in Text, NEW p, Stream(text, p) PROVE Hands
  <2>1. PICK sent \in 0..Len(ChunkEvents(Said(text))) : Hand(ChunkEvents(Said(text)), sent)
    BY <1>e DEF Stream
  <2> HIDE DEF Hands
  <2>2. QED
    BY <1>d, <2>1
<1>f. \A i \in 1..Len(FallbackTools) : FallbackTools[i] \in Names
  BY RegisteredNames
<1> SUFFICES Hands
  OBVIOUS
<1> DEFINE Same == events' = events
<1>g. Same => Hands
  OBVIOUS
<1> HIDE DEF Hands
<1>1. ASSUME EnterRunner \/ (\E cached \in BOOLEAN : ChatPrompt(cached)) \/ ChatToolsEnd \/ LoopEnds \/ CallNameless
             \/ (\E garbled \in BOOLEAN : EnvelopeCall(garbled))
             \/ (\E name \in Registered \cup {"unknown", "none"} : TakeCall(name))
      PROVE  Hands
  BY <1>1, <1>g DEF EnterRunner, ChatPrompt, ChatToolsEnd, LoopEnds, CallNameless, EnvelopeCall, TakeCall, noteVars
<1>2. CASE ChatToolStart
  <2> DEFINE name == FallbackTools[loop.next]
  <2>1. name \in Names
    BY <1>2, <1>a, <1>f DEF ChatToolStart
  <2>2. \E r \in Reports(StartBatch(name)) : Observe(StartBatch(name), r)
    BY <1>2 DEF ChatToolStart
  <2> HIDE DEF name
  <2>3. QED
    BY <1>b, <2>1, <2>2
<1>3. ASSUME NEW outcome \in {"text", "blank", "error"}, ChatToolEnd(outcome) PROVE Hands
  <2> DEFINE name == FallbackTools[loop.next]
             found == Found(name, outcome)
  <2>1. name \in Names
    BY <1>3, <1>a, <1>f DEF ChatToolEnd, InRunner
  <2>2. found \in Nat /\ web.emitted <= found
    BY DrainedType
  <2>3. \E r \in Reports(EndBatch(name, found)) : Observe(EndBatch(name, found), r)
    BY <1>3 DEF ChatToolEnd
  <2> HIDE DEF name, found
  <2>4. QED
    BY <1>c, <2>1, <2>2, <2>3
<1>4. ASSUME NEW text \in Text, ChatGenerate(text) PROVE Hands
  BY <1>4, <1>e DEF ChatGenerate
<1>5. ASSUME NEW text \in Text, ModelFails(text) PROVE Hands
  <2>1. Len(ChunkEvents(Said(text))) \in 0..Len(ChunkEvents(Said(text)))
    BY TextType, SaidType, ChunkType
  <2>2. QED
    BY <1>5, <1>d, <2>1 DEF ModelFails
<1>6. ASSUME NEW text \in Text, EnvelopeAnswer(text) PROVE Hands
  BY <1>6, <1>e DEF EnvelopeAnswer
<1>7. ASSUME NEW text \in Text, NEW n \in 0..MaxCalls, NativeRound(text, n) PROVE Hands
  BY <1>7, <1>e DEF NativeRound
<1>8. ASSUME NEW why \in {"undecodable", "unknown", "denied", "invalid"}, CallRejected(why) PROVE Hands
  <2>1. \E r \in Reports(EndBatch(loop.tool, web.found)) : Observe(EndBatch(loop.tool, web.found), r)
    BY <1>8 DEF CallRejected
  <2>2. QED
    BY <1>a, <1>c, <2>1
<1>9. CASE CallStart
  <2>1. \E r \in Reports(StartBatch(loop.tool)) : Observe(StartBatch(loop.tool), r)
    BY <1>9 DEF CallStart
  <2>2. QED
    BY <1>a, <1>b, <2>1
<1>10. ASSUME NEW failed \in BOOLEAN, CallEnd(failed) PROVE Hands
  <2> DEFINE found == Found(loop.tool, IF failed THEN "error" ELSE "text")
  <2>1. found \in Nat /\ web.emitted <= found
    BY DrainedType
  <2>2. \E r \in Reports(EndBatch(loop.tool, found)) : Observe(EndBatch(loop.tool, found), r)
    BY <1>10 DEF CallEnd
  <2> HIDE DEF found
  <2>3. QED
    BY <1>a, <1>c, <2>1, <2>2
<1>11. QED
  BY <1>1, <1>2, <1>3, <1>4, <1>5, <1>6, <1>7, <1>8, <1>9, <1>10 DEF RunRunner, RunnerStep

(* A runner never ends a stream. *)
LEMMA RunnerEndsNothing ==
  ASSUME Types, InRunner, RunRunner
  PROVE  Events("done")' = Events("done") /\ Events("error")' = Events("error")
<1>1. CASE events' = events
  BY <1>1 DEF Events
<1>2. ASSUME NEW batch \in Seq(EventSet), NEW sent \in 0..Len(batch), Hand(batch, sent),
             \A i \in 1..Len(batch) : batch[i].type \in RunnerEvents
      PROVE  Events("done")' = Events("done") /\ Events("error")' = Events("error")
  <2>1. \A i \in 1..Len(batch) : batch[i].type # "done" /\ batch[i].type # "error"
    BY <1>2 DEF RunnerEvents
  <2>2. events \in Seq(EventSet)
    BY DEF Types
  <2>3. Events("done")' = Events("done")
    BY <1>2, <2>1, <2>2, HandsNone
  <2>4. Events("error")' = Events("error")
    BY <1>2, <2>1, <2>2, HandsNone
  <2>5. QED
    BY <2>3, <2>4
<1>3. QED
  BY <1>1, <1>2, RunnerHands
(* Nor does the pipeline before its last event. *)
LEMMA PipelineEndsNothing ==
  ASSUME Types, PipelineStep, stage \notin {"done", "failing"}
  PROVE  Events("done")' = Events("done") /\ Events("error")' = Events("error")
<1> DEFINE Calm == Events("done")' = Events("done") /\ Events("error")' = Events("error")
<1>a. events \in Seq(EventSet)
  BY DEF Types
<1>b. ASSUME NEW batch \in Seq(EventSet), NEW sent \in 0..Len(batch), Hand(batch, sent),
             \A i \in 1..Len(batch) : batch[i].type \notin {"done", "error"}
      PROVE  Calm
  <2>1. \A i \in 1..Len(batch) : batch[i].type # "done" /\ batch[i].type # "error"
    BY <1>b
  <2>2. Events("done")' = Events("done")
    BY <1>a, <1>b, <2>1, HandsNone
  <2>3. Events("error")' = Events("error")
    BY <1>a, <1>b, <2>1, HandsNone
  <2>4. QED
    BY <2>2, <2>3
<1>c. events' = events => Calm
  BY DEF Events
<1>d. ASSUME NEW batch \in Seq(EventSet), NEW s, EmitThen(batch, s),
             \A i \in 1..Len(batch) : batch[i].type \notin {"done", "error"}
      PROVE  Calm
  <2>1. PICK sent \in 0..Len(batch) : Hand(batch, sent)
    BY <1>d DEF EmitThen
  <2> HIDE DEF Calm
  <2>2. QED
    BY <1>b, <1>d, <2>1
<1> SUFFICES Calm
  OBVIOUS
<1> HIDE DEF Calm
<1>1. CASE Announce
  <2> DEFINE batch == <<Event("retrieve_start", "none"), Event("tool_start", RetrieveTool)>>
  <2>1. EmitThen(batch, "retrieve")
    BY <1>1 DEF Announce
  <2>2. batch \in Seq(EventSet)
    BY PipelineBatches
  <2>3. \A i \in 1..Len(batch) : batch[i].type \notin {"done", "error"}
    BY DEF Event
  <2> HIDE DEF batch
  <2>4. QED
    BY <1>d, <2>1, <2>2, <2>3
<1>2. CASE PresentEvidence
  <2> DEFINE batch == <<Event("retrieve_end", "none"), Event("tool_end", RetrieveTool)>>
                        \o (IF evidence THEN <<Event("citation", RetrieveTool)>> ELSE <<>>)
  <2>1. EmitThen(batch, "model")
    BY <1>2 DEF PresentEvidence
  <2>2. batch \in Seq(EventSet)
    BY PipelineBatches
  <2>3. \A i \in 1..Len(batch) : batch[i].type \notin {"done", "error"}
    BY DEF Event
  <2> HIDE DEF batch
  <2>4. QED
    BY <1>d, <2>1, <2>2, <2>3
<1>3. CASE Unanswerable
  <2> DEFINE batch == <<Event("retrieve_end", "none"), Event("tool_end", RetrieveTool)>>
  <2>1. events' = events \/ \E sent \in 0..Len(batch) : Hand(batch, sent)
    BY <1>3 DEF Unanswerable
  <2>2. batch \in Seq(EventSet)
    BY PipelineBatches
  <2>3. \A i \in 1..Len(batch) : batch[i].type \notin {"done", "error"}
    BY DEF Event
  <2> HIDE DEF batch
  <2>4. QED
    BY <1>b, <1>c, <2>1, <2>2, <2>3
<1>4. CASE ~Announce /\ ~PresentEvidence /\ ~Unanswerable
  BY <1>4, <1>c DEF PipelineStep, Begin, LoadHistory, ApplyBoundary, RetrieveMemory, ModelStart, ModelEnd, StoreMemory,
     CommitHistory, Decode, InstructionFails, Retrieve, Record, EmitDone, EmitError, quiet, noteVars
<1>5. QED
  BY <1>1, <1>2, <1>3, <1>4

(* The last event of a stream is the first of its kind. *)
LEMMA StreamEnds ==
  ASSUME Types, NEW type \in {"done", "error"}, NEW s, EmitThen(<<Event(type, "none")>>, s),
         Events("done") = {}, Events("error") = {}
  PROVE  /\ Events(type)' = {Len(events')}
         /\ \A other \in {"done", "error"} : other # type => Events(other)' = {}
<1> DEFINE batch == <<Event(type, "none")>>
<1>1. PICK sent \in 0..Len(batch) : Hand(batch, sent)
  BY DEF EmitThen
<1>2. "none" \in Names /\ type \in EventTypes
  BY DEF Names, EventTypes
<1>3. batch \in Seq(EventSet) /\ Len(batch) = 1 /\ batch[1].type = type
  BY <1>2, EventType
<1>4. events \in Seq(EventSet) /\ Len(events) \in Nat
  BY DEF Types
<1> HIDE DEF batch
<1>5. Events(type)' = Events(type) \cup {Len(events) + 1}
  BY <1>1, <1>3, <1>4, HandsFirst
<1>6. Len(events') = Len(events) + 1
  <2>1. PICK n \in 0..Len(batch) :
          /\ n = (IF sent = Len(batch) THEN sent ELSE sent + 1)
          /\ events' \in Seq(EventSet)
          /\ Len(events') = Len(events) + n
          /\ \A i \in 1..Len(events) : events'[i] = events[i]
          /\ \A i \in 1..n : events'[Len(events) + i] = batch[i]
    BY <1>1, <1>3, <1>4, HandEffect
  <2>2. sent = 0 \/ sent = 1
    BY <1>3
  <2>3. QED
    BY <1>3, <2>1, <2>2
<1>7. ASSUME NEW other \in {"done", "error"}, other # type PROVE Events(other)' = {}
  <2>1. Events(other)' = Events(other)
    BY <1>1, <1>3, <1>4, <1>7, HandsNone
  <2>2. QED
    BY <2>1
<1>8. QED
  BY <1>5, <1>6, <1>7
(* What the caller, the trace and the stores are told agrees after every   *)
(* step, and the stream is silent after its end.                           *)
LEMMA OutcomeStep ==
  ASSUME Types, InRunner, Counted, Outcome, NothingAfterTheEnd, Types', InRunner', QStep
  PROVE  Outcome' /\ NothingAfterTheEnd' /\ OutcomeTold'
<1> DEFINE Calm == Events("done")' = Events("done") /\ Events("error")' = Events("error")
           Goal == Outcome' /\ NothingAfterTheEnd' /\ OutcomeTold'
<1> SUFFICES Goal
  OBVIOUS
<1>a. mode \in Modes /\ stage \in Stages /\ memorized \in BOOLEAN /\ committed \in BOOLEAN
  BY DEF Types
<1>b. stage \in Undecided => Events("done") = {} /\ Events("error") = {}
  BY DEF Outcome, Ended
<1>c. ASSUME Calm, stage \in Undecided \/ events' = events PROVE NothingAfterTheEnd'
  <2>1. CASE stage \in Undecided
    BY <1>b, <1>c, <2>1 DEF NothingAfterTheEnd
  <2>2. CASE events' = events
    BY <2>2 DEF NothingAfterTheEnd, Events
  <2>3. QED
    BY <1>c, <2>1, <2>2
<1>d. Calm => Ended("done")' = Ended("done") /\ Ended("error")' = Ended("error")
  BY DEF Ended
<1>e. PipelineStep /\ stage \notin {"done", "failing"} => Calm
  BY PipelineEndsNothing
<1>1. CASE RunRunner
  <2>1. stage = "runner" /\ UNCHANGED <<stage, refused, recorded, memorized, committed>>
    BY <1>1 DEF RunRunner, pipelineVars
  <2>2. mode' = mode
    BY <1>1 DEF RunRunner, RunnerStep, EnterRunner, ChatPrompt, ChatToolStart, ChatToolsEnd, ChatToolEnd, ChatGenerate,
       ModelFails, EnvelopeAnswer, NativeRound, EnvelopeCall, LoopEnds, TakeCall, CallNameless, CallRejected,
       CallStart, CallEnd
  <2>3. Calm
    BY <1>1, RunnerEndsNothing
  <2>4. Outcome'
    BY <1>d, <2>1, <2>2, <2>3 DEF Outcome, Streaming, Undecided, BeforeModel
  <2>5. NothingAfterTheEnd'
    BY <1>c, <2>1, <2>3 DEF Undecided
  <2>6. OutcomeTold'
    BY <2>1 DEF OutcomeTold
  <2>7. QED
    BY <2>4, <2>5, <2>6
<1>2. ASSUME NEW s, NEW type \in {"done", "error"}, Streaming, mode' = mode, UNCHANGED outcomes,
             \/ type = "done" /\ stage = "done" /\ err = "none"
             \/ type = "error" /\ stage = "failing" /\ err # "none",
             EmitThen(<<Event(type, "none")>>, "record")
      PROVE  Goal
  <2>1. Events(type)' = {Len(events')} /\ \A other \in {"done", "error"} : other # type => Events(other)' = {}
    BY <1>2, <1>b, StreamEnds DEF Undecided
  <2>2. (stage' = "record" /\ err' = err) \/ (stage' = "returned" /\ err' = "emit")
    BY <1>2 DEF EmitThen, Proceed, Return
  <2>3. NothingAfterTheEnd'
    BY <2>1 DEF NothingAfterTheEnd
  <2>4. recorded = <<>> /\ ~memorized /\ ~committed
    BY <1>2 DEF Outcome, Undecided
  <2>5. (Ended("done")' <=> type = "done") /\ (Ended("error")' <=> type = "error")
    BY <2>1 DEF Ended
  <2>6. /\ (type = "done" => refused = "none")
        /\ (type = "error" => (err = "limit" => refused = "tool_failure"))
    BY <1>2 DEF Outcome
  <2>7. Outcome'
    BY <1>2, <2>2, <2>4, <2>5, <2>6 DEF Outcome, Streaming, Undecided, BeforeModel, outcomes
  <2>8. OutcomeTold'
    BY <1>2, <2>2, <2>4 DEF OutcomeTold, outcomes, Streaming
  <2>9. QED
    BY <2>3, <2>7, <2>8
<1>3. CASE EmitDone
  BY <1>2, <1>3 DEF EmitDone, Outcome
<1>4. CASE EmitError
  BY <1>2, <1>4 DEF EmitError, Outcome
(* The steps between the beginning and the runner, and the end of it. *)
<1>5. ASSUME stage \in BeforeModel \cup {"runner"}, PipelineStep, mode' = mode,
             UNCHANGED <<recorded, memorized, committed>>,
             ~Streaming => stage' \notin {"announce", "evidence", "done", "failing", "returned"} \/ budget' = 0,
             Streaming => stage' # "record",
             stage' \in BeforeModel \cup {"runner", "done", "memorize", "failing", "record", "returned"},
             stage' \in {"announce", "evidence", "done", "failing"} => Streaming,
             stage' = "memorize" => ~Streaming,
             stage' \in (BeforeModel \ {"unanswerable"}) \cup {"runner", "done", "memorize"}
               => err' = "none" /\ refused' = "none",
             stage' \in {"unanswerable", "failing", "record", "returned"}
               => err' # "none" /\ (err' = "limit" => refused' = "tool_failure"),
             stage' = "unanswerable" => err' # "limit"
      PROVE  Goal
  <2>1. Calm
    BY <1>e, <1>5 DEF BeforeModel
  <2>2. NothingAfterTheEnd'
    BY <1>c, <1>5, <2>1 DEF Undecided
  <2>3. recorded = <<>> /\ ~memorized /\ ~committed /\ ~Ended("done") /\ ~Ended("error")
    BY <1>5 DEF Outcome, Undecided
  <2>4. ~Ended("done")' /\ ~Ended("error")'
    BY <1>d, <2>1, <2>3
  <2>5. Outcome'
    BY <1>5, <2>3, <2>4 DEF Outcome, Streaming, Undecided, BeforeModel
  <2>6. OutcomeTold'
    BY <1>5, <2>3, <2>4 DEF OutcomeTold, Ended, Streaming
  <2>7. QED
    BY <2>2, <2>5, <2>6
<1> HIDE DEF Goal
<1>s. BOOLEAN = {TRUE, FALSE}
  OBVIOUS
<1>6. CASE Begin
  <2>1. PipelineStep /\ mode' = mode /\ UNCHANGED <<recorded, memorized, committed, refused>>
    BY <1>6 DEF PipelineStep, Begin, quiet, outcomes
  <2>2. stage = "begin" /\ err = "none" /\ refused = "none" /\ budget' = 0
    BY <1>6 DEF Begin, quiet, runVars, Outcome, Counted
  <2>3. (stage' = "returned" /\ err' = "ctx") \/ (stage' = "history" /\ err' = "none")
    BY <1>6, <2>2 DEF Begin, Return, Proceed
  <2>4. QED
    BY <1>5, <2>1, <2>2, <2>3 DEF BeforeModel, Streaming
<1>i. CASE InstructionFails
  <2>1. PipelineStep /\ mode' = mode /\ UNCHANGED <<recorded, memorized, committed, refused>>
    BY <1>i DEF PipelineStep, InstructionFails, quiet, outcomes
  <2>2. stage = "begin" /\ refused = "none" /\ budget' = 0
    BY <1>i DEF InstructionFails, quiet, runVars, Outcome, Counted
  <2>3. stage' = "returned" /\ err' = "structure"
    BY <1>i DEF InstructionFails, Return
  <2>4. QED
    BY <1>5, <2>1, <2>2, <2>3 DEF BeforeModel, Streaming
<1>7. ASSUME NEW ok \in BOOLEAN, LoadHistory(ok) PROVE Goal
  <2>1. /\ PipelineStep /\ mode' = mode /\ UNCHANGED <<recorded, memorized, committed>>
    BY <1>7, <1>s DEF PipelineStep, LoadHistory, quiet, outcomes
  <2>2. QED
    BY <1>7, <1>5, <1>a, <2>1 DEF Outcome, Counted, BeforeModel, LoadHistory, quiet, runVars, outcomes, Proceed, Return,
       Failing, Streaming, EmitThen
<1>8. ASSUME NEW ok \in BOOLEAN, ApplyBoundary(ok) PROVE Goal
  <2>1. /\ PipelineStep /\ mode' = mode /\ UNCHANGED <<recorded, memorized, committed>>
    BY <1>8, <1>s DEF PipelineStep, ApplyBoundary, quiet, outcomes
  <2>2. QED
    BY <1>8, <1>5, <1>a, <2>1 DEF Outcome, Counted, BeforeModel, ApplyBoundary, quiet, runVars, outcomes, Proceed, Return,
       Failing, Streaming, EmitThen
<1>9. CASE Announce
  <2>1. PipelineStep /\ mode' = mode /\ UNCHANGED <<recorded, memorized, committed, refused>>
    BY <1>9 DEF PipelineStep, Announce, outcomes
  <2>2. stage = "announce" /\ err = "none" /\ refused = "none" /\ Streaming
    BY <1>9 DEF Announce, Outcome
  <2>3. (stage' = "retrieve" /\ err' = "none") \/ (stage' = "returned" /\ err' = "emit")
    BY <1>9, <2>2 DEF Announce, EmitThen, Return, Proceed
  <2>4. QED
    BY <1>5, <2>1, <2>2, <2>3 DEF BeforeModel, Streaming
<1>10. ASSUME NEW outcome \in {"callback", "search", "low_similarity", "no_evidence", "hits"}, NEW p \in BOOLEAN,
              Retrieve(outcome, p)
       PROVE  Goal
  <2>1. /\ PipelineStep /\ mode' = mode /\ UNCHANGED <<recorded, memorized, committed>>
    BY <1>10, <1>s DEF PipelineStep, Retrieve, quiet, outcomes
  <2>2. QED
    BY <1>10, <1>5, <1>a, <2>1 DEF Outcome, Counted, BeforeModel, Retrieve, quiet, runVars, outcomes, Proceed, Return,
       Failing, Streaming, EmitThen
<1>11. CASE Unanswerable
  <2>1. PipelineStep /\ mode' = mode /\ UNCHANGED <<recorded, memorized, committed, refused>>
    BY <1>11 DEF PipelineStep, Unanswerable, outcomes
  <2>2. stage = "unanswerable" /\ err # "none" /\ err # "limit"
    BY <1>11 DEF Unanswerable, Outcome
  <2>3. \/ ~Streaming /\ stage' = "record" /\ err' = err
        \/ Streaming /\ stage' = "failing" /\ err' = err
        \/ Streaming /\ stage' = "returned" /\ err' = "emit"
    BY <1>11 DEF Unanswerable, Return, Failing
  <2>4. QED
    BY <1>5, <2>1, <2>2, <2>3 DEF BeforeModel, Streaming
<1>12. ASSUME NEW ok \in BOOLEAN, RetrieveMemory(ok) PROVE Goal
  <2>1. /\ PipelineStep /\ mode' = mode /\ UNCHANGED <<recorded, memorized, committed>>
    BY <1>12, <1>s DEF PipelineStep, RetrieveMemory, quiet, outcomes
  <2>2. QED
    BY <1>12, <1>5, <1>a, <2>1 DEF Outcome, Counted, BeforeModel, RetrieveMemory, quiet, runVars, outcomes, Proceed, Return,
       Failing, Streaming, EmitThen
<1>13. CASE PresentEvidence
  <2>1. PipelineStep /\ mode' = mode /\ UNCHANGED <<recorded, memorized, committed, refused>>
    BY <1>13 DEF PipelineStep, PresentEvidence, outcomes
  <2>2. stage = "evidence" /\ err = "none" /\ refused = "none" /\ Streaming
    BY <1>13 DEF PresentEvidence, Outcome
  <2>3. (stage' = "model" /\ err' = "none") \/ (stage' = "returned" /\ err' = "emit")
    BY <1>13, <2>2 DEF PresentEvidence, EmitThen, Return, Proceed
  <2>4. QED
    BY <1>5, <2>1, <2>2, <2>3 DEF BeforeModel, Streaming
<1>14. ASSUME NEW ok \in BOOLEAN, ModelStart(ok) PROVE Goal
  <2>1. /\ PipelineStep /\ mode' = mode /\ UNCHANGED <<recorded, memorized, committed>>
    BY <1>14, <1>s DEF PipelineStep, ModelStart, quiet, outcomes
  <2>2. QED
    BY <1>14, <1>5, <1>a, <2>1 DEF Outcome, Counted, BeforeModel, ModelStart, quiet, runVars, outcomes, Proceed, Return,
       Failing, Streaming, EmitThen
<1>15. ASSUME NEW panics \in BOOLEAN, ModelEnd(panics) PROVE Goal
  <2>1. /\ PipelineStep /\ mode' = mode /\ UNCHANGED <<recorded, memorized, committed>>
    BY <1>15, <1>s DEF PipelineStep, ModelEnd, quiet, outcomes
  <2>2. QED
    BY <1>15, <1>5, <1>a, <2>1 DEF Outcome, Counted, BeforeModel, ModelEnd, quiet, runVars, outcomes, Proceed, Return,
       Failing, Streaming, EmitThen, Refused, InRunner
<1>16. ASSUME NEW fault \in {"none", "recorder", "logger"}, Record(fault) PROVE Goal
  <2>1. stage = "record" /\ recorded = <<>> /\ UNCHANGED <<mode, events, memorized, committed, refused, budget>>
    BY <1>16 DEF Record, quiet, runVars, noteVars, Outcome
  <2>2. Calm /\ NothingAfterTheEnd'
    BY <1>c, <2>1 DEF Events
  <2>3. recorded' \in {<<>>, <<"refused">>, <<"failure">>, <<"success">>}
        /\ (recorded' = <<"success">> => refused = "none" /\ err = "none")
        /\ (recorded' = <<>> => fault = "recorder")
        /\ (refused = "none" /\ err = "none" /\ recorded' # <<>> => recorded' = <<"success">>)
    BY <1>16, <2>1 DEF Record, Status
  <2>4. \/ fault = "none" /\ Streaming /\ err = "none" /\ stage' = "memorize" /\ err' = err
        \/ fault = "none" /\ mode = "structured" /\ err = "none" /\ stage' = "decode" /\ err' = err
        \/ fault = "none" /\ (~Streaming \/ err # "none") /\ stage' = "returned" /\ err' = err
        \/ fault # "none" /\ stage' = "returned" /\ err' = "record"
    BY <1>16 DEF Record, Proceed, Return
  <2>5. /\ err = "none" => refused = "none"
        /\ err = "limit" => refused = "tool_failure"
        /\ Streaming => /\ ~memorized /\ ~committed
                        /\ (Ended("done") <=> err = "none") /\ (Ended("error") <=> err # "none")
        /\ ~Streaming => (IF err = "none" THEN memorized /\ committed ELSE ~committed)
        /\ ~Streaming => ~Ended("done") /\ ~Ended("error")
    BY <2>1 DEF Outcome
  <2>6. Ended("done")' = Ended("done") /\ Ended("error")' = Ended("error")
    BY <1>d, <2>2
  <2>7. Outcome'
    BY <2>1, <2>3, <2>4, <2>5, <2>6 DEF Outcome, Streaming, Undecided, BeforeModel
  <2>8. OutcomeTold'
    <3>1. Len(<<"refused">>) = 1 /\ Len(<<"failure">>) = 1 /\ Len(<<"success">>) = 1
      OBVIOUS
    <3>2. recorded' # <<>> => Len(recorded') = 1
      BY <2>3, <3>1
    <3>3. QED
      BY <2>1, <2>3, <2>4, <2>5, <2>6, <3>2 DEF OutcomeTold, Streaming, Ended
  <2>9. QED
    BY <2>2, <2>7, <2>8 DEF Goal
<1>17. ASSUME NEW ok \in BOOLEAN, StoreMemory(ok) PROVE Goal
  <2>1. /\ stage = "memorize" /\ err = "none" /\ refused = "none" /\ ~memorized /\ ~committed
        /\ UNCHANGED <<mode, events, refused, recorded, committed, budget>>
    BY <1>17 DEF StoreMemory, quiet, runVars, noteVars, Outcome
  <2>2. Calm /\ NothingAfterTheEnd'
    BY <1>c, <2>1 DEF Events
  <2>3. \/ ok /\ stage' = "commit" /\ err' = "none"
        \/ ~ok /\ Streaming /\ stage' = "returned" /\ err' = "memory"
        \/ ~ok /\ ~Streaming /\ stage' = "record" /\ err' = "memory"
    BY <1>17, <2>1 DEF StoreMemory, Proceed, Return, Failing
  <2>4. memorized' <=> ok
    BY <1>17 DEF StoreMemory
  <2>5. /\ IF Streaming THEN recorded = <<"success">> /\ Ended("done") /\ ~Ended("error") ELSE recorded = <<>>
        /\ ~Streaming => ~Ended("done") /\ ~Ended("error")
    BY <2>1 DEF Outcome
  <2>6. Ended("done")' = Ended("done") /\ Ended("error")' = Ended("error")
    BY <1>d, <2>2
  <2>7. Outcome'
    BY <2>1, <2>3, <2>4, <2>5, <2>6 DEF Outcome, Streaming, Undecided, BeforeModel
  <2>8. OutcomeTold'
    BY <2>1, <2>3, <2>4, <2>5, <2>6 DEF OutcomeTold, Streaming, Ended
  <2>9. QED
    BY <2>2, <2>7, <2>8 DEF Goal
<1>18. ASSUME NEW ok \in BOOLEAN, CommitHistory(ok) PROVE Goal
  <2>1. /\ stage = "commit" /\ err = "none" /\ refused = "none" /\ memorized /\ ~committed
        /\ UNCHANGED <<mode, events, refused, recorded, memorized, budget>>
    BY <1>18 DEF CommitHistory, quiet, runVars, noteVars, Outcome
  <2>2. Calm /\ NothingAfterTheEnd'
    BY <1>c, <2>1 DEF Events
  <2>3. \/ ok /\ Streaming /\ stage' = "returned" /\ err' = "none"
        \/ ok /\ ~Streaming /\ stage' = "record" /\ err' = "none"
        \/ ~ok /\ Streaming /\ stage' = "returned" /\ err' = "history"
        \/ ~ok /\ ~Streaming /\ stage' = "record" /\ err' = "history"
    BY <1>18, <2>1 DEF CommitHistory, Proceed, Return, Failing
  <2>4. committed' <=> ok
    BY <1>18 DEF CommitHistory
  <2>5. /\ IF Streaming THEN recorded = <<"success">> /\ Ended("done") /\ ~Ended("error") ELSE recorded = <<>>
        /\ ~Streaming => ~Ended("done") /\ ~Ended("error")
    BY <2>1 DEF Outcome
  <2>6. Ended("done")' = Ended("done") /\ Ended("error")' = Ended("error")
    BY <1>d, <2>2
  <2>7. Outcome'
    BY <2>1, <2>3, <2>4, <2>5, <2>6 DEF Outcome, Streaming, Undecided, BeforeModel
  <2>8. OutcomeTold'
    BY <2>1, <2>3, <2>4, <2>5, <2>6 DEF OutcomeTold, Streaming, Ended
  <2>9. QED
    BY <2>2, <2>7, <2>8 DEF Goal
<1>k. ASSUME NEW ok \in BOOLEAN, Decode(ok) PROVE Goal
  <2>1. /\ stage = "decode" /\ mode = "structured" /\ refused = "none" /\ memorized /\ committed
        /\ recorded = <<"success">> /\ ~Ended("done") /\ ~Ended("error")
        /\ UNCHANGED <<mode, events, refused, recorded, memorized, committed, budget>>
    BY <1>k DEF Decode, quiet, runVars, noteVars, outcomes, Outcome, Streaming
  <2>2. Calm /\ NothingAfterTheEnd'
    BY <1>c, <2>1 DEF Events
  <2>3. stage' = "returned" /\ err' \in {"none", "structure"}
    BY <1>k, <2>1 DEF Decode, Proceed, Return, Outcome
  <2>4. Ended("done")' = Ended("done") /\ Ended("error")' = Ended("error")
    BY <1>d, <2>2
  <2>5. Outcome'
    BY <2>1, <2>3, <2>4 DEF Outcome, Streaming, Undecided, BeforeModel
  <2>6. OutcomeTold'
    <3>1. Len(<<"success">>) = 1
      OBVIOUS
    <3>2. QED
      BY <2>1, <2>3, <2>4, <3>1 DEF OutcomeTold, Undecoded, Streaming, Ended
  <2>7. QED
    BY <2>2, <2>5, <2>6 DEF Goal
<1>19. \A ok \in BOOLEAN : (~ok) \in BOOLEAN
  OBVIOUS
<1>20. QED
  BY <1>1, <1>3, <1>4, <1>6, <1>7, <1>8, <1>9, <1>10, <1>11, <1>12, <1>13, <1>14, <1>15, <1>16, <1>17, <1>18, <1>19,
     <1>i, <1>k DEF QStep
-----------------------------------------------------------------------------
(* The records of the tools that a stream announced the end of. *)
Closed == Announced \ Open

(* A tool starts: its record is the only open one. *)
LEMMA StartOpens ==
  ASSUME tools \in Seq(ToolRecord), Open = {}, NEW name, tools' = startTool(tools, name)
  PROVE  /\ Open' = {Len(tools')} /\ tools'[Len(tools')].tool = name
         /\ Closed' = Closed
<1>1. /\ Len(tools) \in Nat /\ Len(tools') = Len(tools) + 1
      /\ DOMAIN tools = 1..Len(tools) /\ DOMAIN tools' = 1..(Len(tools) + 1)
      /\ \A i \in 1..Len(tools) : tools'[i] = tools[i]
      /\ tools'[Len(tools) + 1] = [tool |-> name, open |-> TRUE, failed |-> FALSE]
  BY DEF startTool
<1>2. tools'[Len(tools) + 1].open /\ tools'[Len(tools) + 1].tool = name
  BY <1>1
<1>3. \A i \in 1..(Len(tools) + 1) : i = Len(tools) + 1 \/ i \in 1..Len(tools)
  BY <1>1
<1>4. \A i \in 1..Len(tools) : ~tools[i].open
  BY <1>1 DEF Open
<1>5. Open' = {Len(tools) + 1}
  BY <1>1, <1>2, <1>3, <1>4 DEF Open
<1>6. Closed' = Closed
  <2>1. ASSUME NEW i \in Closed' PROVE i \in Closed
    BY <1>1, <1>3, <1>5, <2>1 DEF Closed, Announced, Open
  <2>2. ASSUME NEW i \in Closed PROVE i \in Closed'
    <3>1. i \in 1..Len(tools) /\ i # Len(tools) + 1 /\ i \in 1..(Len(tools) + 1)
      BY <1>1, <2>2 DEF Closed, Announced
    <3>2. tools'[i] = tools[i] /\ tools[i].tool # RetrieveTool
      BY <1>1, <2>2, <3>1 DEF Closed, Announced
    <3>3. QED
      BY <1>1, <1>5, <3>1, <3>2 DEF Closed, Announced
  <2>3. QED
    BY <2>1, <2>2
<1>7. QED
  BY <1>1, <1>2, <1>5, <1>6

(* The tool at work ends: its record is closed. *)
LEMMA EndCloses ==
  ASSUME tools \in Seq(ToolRecord), Open = {Len(tools)}, NEW name, tools[Len(tools)].tool = name,
         NEW failed \in BOOLEAN, tools' = endTool(tools, name, failed)
  PROVE  /\ Open' = {}
         /\ Closed' = IF name = RetrieveTool THEN Closed ELSE Closed \cup {Len(tools)}
         /\ Len(tools) \notin Closed
<1> DEFINE stack == {i \in DOMAIN tools : tools[i].tool = name /\ tools[i].open}
<1>1. Len(tools) \in Nat /\ DOMAIN tools = 1..Len(tools) /\ Len(tools) \in DOMAIN tools
  BY DEF Open
<1>2. stack = {Len(tools)}
  BY <1>1 DEF Open
<1>3. Max(stack) = Len(tools)
  BY <1>1, <1>2 DEF Max
<1>4. tools' = [tools EXCEPT ![Len(tools)] = [@ EXCEPT !.open = FALSE, !.failed = failed]]
  BY <1>2, <1>3 DEF endTool
<1>5. tools[Len(tools)] \in ToolRecord
  BY <1>1
<1> DEFINE last == [tools[Len(tools)] EXCEPT !.open = FALSE, !.failed = failed]
<1>6. ~last.open /\ last.tool = name
  BY <1>5 DEF ToolRecord
<1>7. /\ DOMAIN tools' = DOMAIN tools /\ tools'[Len(tools)] = last
      /\ \A i \in DOMAIN tools : i # Len(tools) => tools'[i] = tools[i]
  BY <1>1, <1>4
<1> HIDE DEF last, stack
<1>8. \A i \in DOMAIN tools : i # Len(tools) => ~tools[i].open
  BY DEF Open
<1>9. Open' = {}
  BY <1>6, <1>7, <1>8 DEF Open
<1>10. \A i \in DOMAIN tools : tools'[i].tool = tools[i].tool
  BY <1>6, <1>7
<1>11. Announced' = Announced
  BY <1>7, <1>10 DEF Announced
<1>12. Len(tools) \in Announced <=> name # RetrieveTool
  BY <1>1 DEF Announced
<1>13. QED
  BY <1>9, <1>11, <1>12 DEF Closed

(* An end without a start adds a record that is closed. *)
LEMMA EndAdds ==
  ASSUME tools \in Seq(ToolRecord), Open = {}, NEW name, NEW failed \in BOOLEAN, tools' = endTool(tools, name, failed)
  PROVE  /\ Open' = {}
         /\ Closed' = IF name = RetrieveTool THEN Closed ELSE Closed \cup {Len(tools) + 1}
         /\ Len(tools) + 1 \notin Closed
<1>1. tools' = Append(tools, [tool |-> name, open |-> FALSE, failed |-> failed])
  BY DEF endTool, Open
<1>2. /\ Len(tools) \in Nat
      /\ DOMAIN tools = 1..Len(tools) /\ DOMAIN tools' = 1..(Len(tools) + 1)
      /\ \A i \in 1..Len(tools) : tools'[i] = tools[i]
      /\ tools'[Len(tools) + 1] = [tool |-> name, open |-> FALSE, failed |-> failed]
  BY <1>1
<1>3. ~tools'[Len(tools) + 1].open /\ tools'[Len(tools) + 1].tool = name
  BY <1>2
<1>4. \A i \in 1..(Len(tools) + 1) : i = Len(tools) + 1 \/ i \in 1..Len(tools)
  BY <1>2
<1>5. \A i \in 1..Len(tools) : ~tools[i].open
  BY <1>2 DEF Open
<1>6. Open' = {}
  BY <1>2, <1>3, <1>4, <1>5 DEF Open
<1>7. Len(tools) + 1 \notin Announced /\ \A i \in 1..Len(tools) : i \in 1..(Len(tools) + 1)
  BY <1>2 DEF Announced
<1>8. Announced' = IF name = RetrieveTool THEN Announced ELSE Announced \cup {Len(tools) + 1}
  <2>1. \A i \in 1..Len(tools) : i \in Announced' <=> i \in Announced
    BY <1>2, <1>7 DEF Announced
  <2>2. Len(tools) + 1 \in Announced' <=> name # RetrieveTool
    BY <1>2, <1>3 DEF Announced
  <2>3. Announced \subseteq 1..Len(tools) /\ Announced' \subseteq 1..(Len(tools) + 1)
    BY <1>2 DEF Announced
  <2>4. \A i \in Announced' : i \in Announced \/ (i = Len(tools) + 1 /\ name # RetrieveTool)
    BY <1>4, <2>1, <2>2, <2>3
  <2>5. Announced \subseteq Announced'
    BY <2>1, <2>3
  <2>6. CASE name = RetrieveTool
    BY <2>4, <2>5, <2>6
  <2>7. CASE name # RetrieveTool
    BY <2>2, <2>4, <2>5, <2>7
  <2>8. QED
    BY <2>6, <2>7
<1>9. QED
  BY <1>6, <1>7, <1>8 DEF Closed

(* Both sets are finite. *)
LEMMA FiniteCounts ==
  ASSUME Types, NEW type
  PROVE  IsFiniteSet(Events(type)) /\ IsFiniteSet(Closed) /\ IsFiniteSet(Announced) /\ IsFiniteSet(Open)
<1>1. Events(type) \subseteq 1..Len(events) /\ Announced \subseteq 1..Len(tools) /\ Closed \subseteq 1..Len(tools)
      /\ Open \subseteq 1..Len(tools)
  BY DEF Events, Closed, Announced, Open, Types
<1>2. IsFiniteSet(1..Len(events)) /\ IsFiniteSet(1..Len(tools))
  <2>1. Len(events) \in Nat /\ Len(tools) \in Nat
    BY DEF Types
  <2>2. QED
    BY <2>1, FS_Interval
<1>3. QED
  BY <1>1, <1>2, FS_Subset
(* Steps of the runner that end no tool count nothing.                     *)
LEMMA CountsKept ==
  ASSUME ClosedRecords, EndsCounted, Outcome, stage = "runner", UNCHANGED <<stage, mode, recorded>>, err = "none",
         Events("tool_end")' = Events("tool_end"), Closed' = Closed
  PROVE  EndsCounted'
<1>1. recorded = <<>>
  BY DEF Outcome, Undecided
<1>2. recorded' # <<"success">>
  BY <1>1
<1>3. Streaming => Cardinality(Events("tool_end")) = 1 + Cardinality(Closed)
  BY DEF EndsCounted, Closed
<1>4. QED
  BY <1>2, <1>3 DEF EndsCounted, Closed, Streaming

(* Steps that end one count it and, streamed, announce it.                 *)
LEMMA CountsOne ==
  ASSUME Types, Types', EndsCounted, Outcome, stage = "runner", UNCHANGED <<stage, mode, recorded>>, err = "none",
         NEW name \in Names, NEW found \in Nat, web.emitted <= found,
         NEW r \in Reports(EndBatch(name, found)), Observe(EndBatch(name, found), r),
         NEW record, record \notin Closed,
         Closed' = IF name = RetrieveTool THEN Closed ELSE Closed \cup {record}
  PROVE  EndsCounted'
<1> DEFINE batch == EndBatch(name, found)
<1>1. recorded' # <<"success">>
  BY DEF Outcome, Undecided
<1>2. Streaming => Cardinality(Events("tool_end")) = 1 + Cardinality(Closed)
  BY DEF EndsCounted, Closed
<1>3. IsFiniteSet(Events("tool_end")) /\ IsFiniteSet(Closed)
  BY FiniteCounts
<1>4. Cardinality(Closed) \in Nat
  BY <1>3, FS_CardinalityType
<1>5. /\ batch \in Seq(EventSet)
      /\ ~Emits(name) => batch = <<>>
      /\ Emits(name) => /\ Len(batch) > 0 /\ batch[1].type = "tool_end"
                        /\ \A i \in 2..Len(batch) : batch[i].type = "citation"
  BY EndBatchType
<1>6. events \in Seq(EventSet) /\ Len(events) \in Nat /\ r \in Reports(batch) /\ Observe(batch, r)
  BY DEF Types
<1> HIDE DEF batch
<1>7. r.sent \in 0..Len(batch) /\ Hand(batch, r.sent)
  BY <1>5, <1>6, ReportType
<1>8. CASE Streaming /\ name # RetrieveTool
  <2>1. Emits(name)
    BY <1>8 DEF Emits
  <2>2. /\ Len(batch) > 0 /\ batch[1].type = "tool_end"
        /\ \A i \in 2..Len(batch) : batch[i].type # "tool_end"
    BY <1>5, <2>1
  <2>3. Events("tool_end")' = Events("tool_end") \cup {Len(events) + 1}
    BY <1>5, <1>6, <1>7, <2>2, HandsFirst
  <2>4. Len(events) + 1 \notin Events("tool_end")
    BY <1>6 DEF Events
  <2>5. Cardinality(Events("tool_end")') = Cardinality(Events("tool_end")) + 1
    BY <1>3, <2>3, <2>4, FS_AddElement
  <2>6. Cardinality(Closed') = Cardinality(Closed) + 1
    BY <1>3, <1>8, FS_AddElement
  <2>7. Cardinality(Events("tool_end")') = 1 + Cardinality(Closed')
    BY <1>2, <1>4, <1>8, <2>5, <2>6
  <2>8. QED
    BY <1>1, <2>7 DEF EndsCounted, Closed
<1>9. CASE Streaming /\ name = RetrieveTool
  <2>1. batch = <<>>
    BY <1>5, <1>9 DEF Emits
  <2>2. \A i \in 1..Len(batch) : batch[i].type # "tool_end"
    BY <2>1
  <2>3. Events("tool_end")' = Events("tool_end")
    BY <1>5, <1>6, <1>7, <2>2, HandsNone
  <2>4. QED
    BY <1>1, <1>2, <1>9, <2>3 DEF EndsCounted, Closed
<1>10. CASE ~Streaming
  BY <1>10 DEF EndsCounted, Streaming
<1>11. QED
  BY <1>8, <1>9, <1>10
(* The tool records under the steps of the runners. *)
LEMMA RunnerTraces ==
  ASSUME Types, InRunner, Outcome, ClosedRecords, EndsCounted, Types', RunRunner
  PROVE  ClosedRecords' /\ EndsCounted'
<1> DEFINE Goal == ClosedRecords' /\ EndsCounted'
<1> SUFFICES Goal
  OBVIOUS
<1>a. stage = "runner" /\ UNCHANGED <<stage, recorded>> /\ recorded = <<>>
  BY DEF RunRunner, pipelineVars, Outcome, Undecided
<1>b. recorded # <<"success">> /\ recorded' # <<"success">>
  BY <1>a
<1>c. mode' = mode /\ runner' = runner
  BY DEF RunRunner, RunnerStep, EnterRunner, ChatPrompt, ChatToolStart, ChatToolsEnd, ChatToolEnd, ChatGenerate,
     ModelFails, EnvelopeAnswer, NativeRound, EnvelopeCall, LoopEnds, TakeCall, CallNameless, CallRejected,
     CallStart, CallEnd
<1>d. tools \in Seq(ToolRecord) /\ events \in Seq(EventSet) /\ loop \in Loop /\ loop.tool \in Names
      /\ loop.next \in Nat \ {0} /\ web.found \in Nat /\ web.emitted <= web.found /\ Len(FallbackTools) \in Nat
  BY RunnersAssumption DEF Types, Loop
<1>e. \A i \in 1..Len(FallbackTools) : FallbackTools[i] \in Names
  BY RegisteredNames
<1>f. \A e, p : GoOnUnless(e, p) => /\ rpc' = (IF e = "none" THEN p ELSE "returned")
                                    /\ err' = (IF e = "none" THEN err ELSE e)
  BY DEF GoOnUnless, RunnerReturns
<1>g. rpc \notin {"idle", "returned"} => err = "none"
  BY DEF InRunner
<1>h. rpc \notin {"idle", "returned", "running"} => Open = {}
  BY <1>g DEF ClosedRecords
(* A step that starts and ends no tool. *)
<1>i. ASSUME tools' = tools, rpc' # "running", err = "none", Open = {}, Events("tool_end")' = Events("tool_end")
      PROVE  Goal
  <2>1. Open' = {} /\ Closed' = Closed
    BY <1>i DEF Open, Closed, Announced
  <2>2. ClosedRecords'
    BY <1>a, <1>i, <2>1 DEF ClosedRecords
  <2>3. EndsCounted'
    BY <1>a, <1>c, <1>i, <2>1, CountsKept
  <2>4. QED
    BY <2>2, <2>3
<1>j. ASSUME NEW batch \in Seq(EventSet), NEW sent \in 0..Len(batch), Hand(batch, sent),
             \A i \in 1..Len(batch) : batch[i].type # "tool_end"
      PROVE  Events("tool_end")' = Events("tool_end")
  BY <1>d, <1>j, HandsNone
<1>k. events' = events => Events("tool_end")' = Events("tool_end")
  BY DEF Events
(* The start of a tool. *)
<1>l. ASSUME NEW name \in Names, tools' = startTool(tools, name), err = "none", Open = {},
             rpc' \in {"running", "returned"}, rpc' = "returned" => err' # "none", AtWork' = name,
             NEW r \in Reports(StartBatch(name)), Observe(StartBatch(name), r)
      PROVE  Goal
  <2>1. Open' = {Len(tools')} /\ tools'[Len(tools')].tool = name /\ Closed' = Closed
    BY <1>d, <1>l, StartOpens
  <2>2. ClosedRecords'
    BY <1>a, <1>b, <1>l, <2>1 DEF ClosedRecords
  <2>3. Events("tool_end")' = Events("tool_end")
    <3>1. StartBatch(name) \in Seq(EventSet)
          /\ \A i \in 1..Len(StartBatch(name)) : StartBatch(name)[i].type # "tool_end"
      BY StartBatchType
    <3>2. r.sent \in 0..Len(StartBatch(name)) /\ Hand(StartBatch(name), r.sent)
      BY <1>d, <1>l, <3>1, ReportType
    <3>3. QED
      BY <1>j, <3>1, <3>2
  <2>4. EndsCounted'
    BY <1>a, <1>c, <1>l, <2>1, <2>3, CountsKept
  <2>5. QED
    BY <2>2, <2>4
(* The end of a tool, with or without a start. *)
<1>m. ASSUME NEW name \in Names, NEW failed \in BOOLEAN, tools' = endTool(tools, name, failed), err = "none",
             Open = {} \/ (Open = {Len(tools)} /\ tools[Len(tools)].tool = name), rpc' # "running",
             NEW found \in Nat, web.emitted <= found,
             NEW r \in Reports(EndBatch(name, found)), Observe(EndBatch(name, found), r)
      PROVE  Goal
  <2>1. PICK record : /\ Open' = {} /\ record \notin Closed
                      /\ Closed' = IF name = RetrieveTool THEN Closed ELSE Closed \cup {record}
    <3>1. CASE Open = {}
      BY <1>d, <1>m, <3>1, EndAdds
    <3>2. CASE Open = {Len(tools)} /\ tools[Len(tools)].tool = name
      BY <1>d, <1>m, <3>2, EndCloses
    <3>3. QED
      BY <1>m, <3>1, <3>2
  <2>2. ClosedRecords'
    BY <1>a, <1>m, <2>1 DEF ClosedRecords
  <2>3. EndsCounted'
    BY <1>a, <1>c, <1>m, <2>1, CountsOne
  <2>4. QED
    BY <2>2, <2>3
<1> HIDE DEF Goal
<1>1. ASSUME EnterRunner \/ (\E cached \in BOOLEAN : ChatPrompt(cached)) \/ ChatToolsEnd \/ LoopEnds \/ CallNameless
             \/ (\E garbled \in BOOLEAN : EnvelopeCall(garbled))
             \/ (\E name \in Registered \cup {"unknown", "none"} : TakeCall(name))
      PROVE  Goal
  <2>1. tools' = tools /\ events' = events /\ rpc \notin {"idle", "returned", "running"} /\ rpc' # "running"
    BY <1>1 DEF EnterRunner, ChatPrompt, ChatToolsEnd, LoopEnds, CallNameless, EnvelopeCall, TakeCall, noteVars,
       GoOnUnless, RunnerReturns, Recover, Answered, Abort
  <2>2. QED
    BY <1>g, <1>h, <1>i, <1>k, <2>1
<1>2. ASSUME NEW text \in Text, NEW sent \in 0..Len(ChunkEvents(Said(text))), Hand(ChunkEvents(Said(text)), sent)
      PROVE  Events("tool_end")' = Events("tool_end")
  <2>1. /\ ChunkEvents(Said(text)) \in Seq(EventSet)
        /\ \A i \in 1..Len(ChunkEvents(Said(text))) : ChunkEvents(Said(text))[i].type # "tool_end"
    BY TextType, SaidType, ChunkType
  <2>2. QED
    BY <1>2, <1>j, <2>1
<1>3. ASSUME NEW text \in Text, NEW p \in {"returned", "call"}, Stream(text, p)
      PROVE  Events("tool_end")' = Events("tool_end") /\ rpc' # "running"
  <2>1. PICK sent \in 0..Len(ChunkEvents(Said(text))) :
          /\ Hand(ChunkEvents(Said(text)), sent)
          /\ GoOnUnless(IF sent < Len(ChunkEvents(Said(text))) THEN "chunk" ELSE "none", p)
    BY <1>3 DEF Stream
  <2>2. rpc' # "running"
    BY <1>f, <2>1
  <2>3. QED
    BY <1>2, <2>1, <2>2
<1>4. ASSUME NEW text \in Text,
             ChatGenerate(text) \/ EnvelopeAnswer(text) \/ (\E n \in 0..MaxCalls : NativeRound(text, n))
      PROVE  Goal
  <2>1. tools' = tools /\ rpc \in {"generate", "round"}
    BY <1>4 DEF ChatGenerate, EnvelopeAnswer, NativeRound
  <2>2. \E p \in {"returned", "call"} : Stream(text, p)
    BY <1>4 DEF ChatGenerate, EnvelopeAnswer, NativeRound
  <2>3. QED
    BY <1>3, <1>g, <1>h, <1>i, <2>1, <2>2
<1>5. ASSUME NEW text \in Text, ModelFails(text) PROVE Goal
  <2>1. tools' = tools /\ rpc \in {"generate", "round"} /\ rpc' # "running"
    BY <1>5 DEF ModelFails, CallsModel, RunnerReturns
  <2>2. Len(ChunkEvents(Said(text))) \in 0..Len(ChunkEvents(Said(text)))
    BY TextType, SaidType, ChunkType
  <2>3. Events("tool_end")' = Events("tool_end")
    BY <1>2, <1>5, <2>2 DEF ModelFails
  <2>4. QED
    BY <1>g, <1>h, <1>i, <2>1, <2>3
<1>6. CASE ChatToolStart
  <2> DEFINE name == FallbackTools[loop.next]
  <2>1. name \in Names /\ rpc = "fallback" /\ runner = "chat"
    BY <1>6, <1>d, <1>e, <1>a DEF ChatToolStart, InRunner
  <2>2. tools' = startTool(tools, name) /\ loop' = loop
    BY <1>6 DEF ChatToolStart
  <2>3. AtWork' = name
    BY <1>c, <2>1, <2>2 DEF AtWork
  <2>4. \E r \in Reports(StartBatch(name)) :
          Observe(StartBatch(name), r) /\ GoOnUnless(ReportError(StartBatch(name), r), "running")
    BY <1>6 DEF ChatToolStart
  <2> HIDE DEF name
  <2>5. QED
    BY <1>f, <1>g, <1>h, <1>l, <2>1, <2>2, <2>3, <2>4
<1>7. CASE CallStart
  <2>1. rpc = "taken" /\ runner # "chat" /\ tools' = startTool(tools, loop.tool) /\ loop' = loop
    BY <1>7, <1>a DEF CallStart, InRunner, runVars
  <2>2. AtWork' = loop.tool
    BY <1>c, <2>1 DEF AtWork
  <2>3. \E r \in Reports(StartBatch(loop.tool)) :
          Observe(StartBatch(loop.tool), r) /\ GoOnUnless(ReportError(StartBatch(loop.tool), r), "running")
    BY <1>7 DEF CallStart
  <2>4. QED
    BY <1>d, <1>f, <1>g, <1>h, <1>l, <2>1, <2>2, <2>3
<1>8. ASSUME NEW outcome \in {"text", "blank", "error"}, ChatToolEnd(outcome) PROVE Goal
  <2> DEFINE name == FallbackTools[loop.next]
             found == Found(name, outcome)
  <2>1. rpc = "running" /\ runner = "chat" /\ err = "none" /\ name \in Names /\ name = AtWork
    BY <1>8, <1>d, <1>e, <1>g DEF ChatToolEnd, InRunner, AtWork
  <2>2. Open = {Len(tools)} /\ tools[Len(tools)].tool = name
    BY <2>1 DEF ClosedRecords
  <2>3. found \in Nat /\ web.emitted <= found
    BY DrainedType
  <2>4. tools' = endTool(tools, name, outcome = "error") /\ (outcome = "error") \in BOOLEAN
    BY <1>8 DEF ChatToolEnd
  <2>5. \E r \in Reports(EndBatch(name, found)) :
          /\ Observe(EndBatch(name, found), r)
          /\ GoOnUnless(ReportError(EndBatch(name, found), r), IF outcome = "text" THEN "generate" ELSE "fallback")
    BY <1>8 DEF ChatToolEnd
  <2> HIDE DEF name, found
  <2>6. rpc' # "running"
    BY <1>f, <2>5
  <2>7. QED
    BY <1>m, <2>1, <2>2, <2>3, <2>4, <2>5, <2>6
<1>9. ASSUME NEW failed \in BOOLEAN, CallEnd(failed) PROVE Goal
  <2> DEFINE found == Found(loop.tool, IF failed THEN "error" ELSE "text")
  <2>1. rpc = "running" /\ runner # "chat" /\ err = "none" /\ loop.tool = AtWork
    BY <1>9, <1>g DEF CallEnd, AtWork
  <2>2. Open = {Len(tools)} /\ tools[Len(tools)].tool = loop.tool
    BY <2>1 DEF ClosedRecords
  <2>3. found \in Nat /\ web.emitted <= found
    BY DrainedType
  <2>4. tools' = endTool(tools, loop.tool, failed)
    BY <1>9 DEF CallEnd
  <2>5. \E r \in Reports(EndBatch(loop.tool, found)) : Observe(EndBatch(loop.tool, found), r)
    BY <1>9 DEF CallEnd
  <2>6. rpc' # "running"
    BY <1>9 DEF CallEnd, Recover, Answered, Abort, RunnerReturns
  <2> HIDE DEF found
  <2>7. QED
    BY <1>d, <1>m, <2>1, <2>2, <2>3, <2>4, <2>5, <2>6
<1>10. ASSUME NEW why \in {"undecodable", "unknown", "denied", "invalid"}, CallRejected(why) PROVE Goal
  <2>1. rpc = "taken" /\ err = "none" /\ Open = {} /\ tools' = endTool(tools, loop.tool, TRUE)
    BY <1>10, <1>g, <1>h DEF CallRejected
  <2>2. \E r \in Reports(EndBatch(loop.tool, web.found)) : Observe(EndBatch(loop.tool, web.found), r)
    BY <1>10 DEF CallRejected
  <2>3. rpc' # "running"
    BY <1>10 DEF CallRejected, Recover, Answered, Abort, RunnerReturns
  <2>4. QED
    BY <1>d, <1>m, <2>1, <2>2, <2>3
<1>11. QED
  BY <1>1, <1>4, <1>5, <1>6, <1>7, <1>8, <1>9, <1>10 DEF RunRunner, RunnerStep
(* Steps of the pipeline that touch neither tools nor their events.        *)
LEMMA TracesKept ==
  ASSUME ClosedRecords, EndsCounted, tools' = tools, mode' = mode, Events("tool_end")' = Events("tool_end"),
         rpc' # "running", rpc # "running",
         err' = "none" => err = "none",
         stage' \in Unretrieved => stage \in Unretrieved,
         Streaming /\ stage' \in Unretrieved \cup {"memory", "evidence"}
           => stage \in Unretrieved \cup {"memory", "evidence"},
         Streaming /\ err' = "none" /\ stage' \in {"model", "runner", "done", "record"}
           => stage \in {"model", "runner", "done", "record"},
         recorded' = <<"success">> => recorded = <<"success">> \/ (stage = "record" /\ err = "none")
  PROVE  ClosedRecords' /\ EndsCounted'
<1>1. Open' = Open /\ Announced' = Announced
  BY DEF Open, Announced
<1>2. err = "none" => Open = {}
  BY DEF ClosedRecords
<1>3. ClosedRecords'
  BY <1>1, <1>2 DEF ClosedRecords, Unretrieved
<1>4. Open = {} => Announced \ Open = Announced
  OBVIOUS
<1>5. CASE Streaming
  <2>1. stage \in Unretrieved \cup {"memory", "evidence"} => Events("tool_end") = {} /\ Announced = {}
    BY <1>5 DEF EndsCounted, Unretrieved
  <2>2. err = "none" /\ stage \in {"model", "runner", "done", "record"} =>
          Cardinality(Events("tool_end")) = 1 + Cardinality(Announced \ Open)
    BY <1>5 DEF EndsCounted
  <2>3. recorded = <<"success">> => Cardinality(Events("tool_end")) = 1 + Cardinality(Announced)
    BY <1>5 DEF EndsCounted
  <2>4. recorded' = <<"success">> => Cardinality(Events("tool_end")) = 1 + Cardinality(Announced)
    BY <1>2, <1>4, <2>2, <2>3
  <2>5. QED
    BY <1>1, <1>3, <1>5, <2>1, <2>2, <2>4 DEF EndsCounted, Unretrieved
<1>6. CASE ~Streaming
  BY <1>3, <1>6 DEF EndsCounted, Streaming
<1>7. QED
  BY <1>3, <1>5, <1>6

(* The record of the retrieval is closed, and not one a stream announces.  *)
LEMMA RetrievalRecord ==
  ASSUME tools = <<>>, NEW failed \in BOOLEAN,
         tools' = endTool(startTool(tools, RetrieveTool), RetrieveTool, failed)
  PROVE  Open' = {} /\ Announced' = {}
<1> DEFINE r == [tool |-> RetrieveTool, open |-> TRUE, failed |-> FALSE]
           calls == <<r>>
           stack == {i \in DOMAIN calls : calls[i].tool = RetrieveTool /\ calls[i].open}
           last == [r EXCEPT !.open = FALSE, !.failed = failed]
<1>1. startTool(tools, RetrieveTool) = calls
  BY DEF startTool
<1>2. r.tool = RetrieveTool /\ r.open /\ ~last.open /\ last.tool = RetrieveTool
  OBVIOUS
<1>3. DOMAIN calls = {1} /\ calls[1] = r
  OBVIOUS
<1> HIDE DEF r, calls
<1>4. stack = {1}
  BY <1>2, <1>3
<1>5. Max(stack) = 1
  BY <1>4 DEF Max
<1>6. tools' = [calls EXCEPT ![1] = [@ EXCEPT !.open = FALSE, !.failed = failed]]
  BY <1>1, <1>4, <1>5 DEF endTool
<1>7. DOMAIN tools' = {1} /\ tools'[1] = last
  BY <1>3, <1>6
<1>8. QED
  BY <1>2, <1>7, ZenonT(30) DEF Open, Announced
(* The tool records under the steps of the pipeline.                       *)
LEMMA PipelineTraces ==
  ASSUME Types, Types', InRunner, InRunner', Outcome, ClosedRecords, EndsCounted, PipelineStep
  PROVE  ClosedRecords' /\ EndsCounted'
<1> DEFINE Goal == ClosedRecords' /\ EndsCounted'
<1> SUFFICES Goal
  OBVIOUS
<1>a. rpc # "running"
  BY DEF InRunner, PipelineStep, Begin, LoadHistory, ApplyBoundary, RetrieveMemory, ModelStart, ModelEnd, StoreMemory,
     CommitHistory, Decode, InstructionFails,
     Retrieve, Record, Announce, Unanswerable, PresentEvidence, EmitDone, EmitError
<1>b. events \in Seq(EventSet)
  BY DEF Types
<1>c. ASSUME NEW batch \in Seq(EventSet), NEW s, EmitThen(batch, s), \A i \in 1..Len(batch) : batch[i].type # "tool_end"
      PROVE  /\ Events("tool_end")' = Events("tool_end")
             /\ (stage' = s /\ err' = err) \/ (stage' = "returned" /\ err' = "emit")
  <2>1. PICK sent \in 0..Len(batch) : Hand(batch, sent) /\ IF sent = Len(batch) THEN Proceed(s) ELSE Return("emit")
    BY <1>c DEF EmitThen
  <2>2. Events("tool_end")' = Events("tool_end")
    BY <1>b, <1>c, <2>1, HandsNone
  <2>3. QED
    BY <2>1, <2>2 DEF Proceed, Return
<1>d. ASSUME events' = events PROVE Events("tool_end")' = Events("tool_end")
  BY <1>d DEF Events
<1>e. ASSUME rpc' # "running", tools' = tools, mode' = mode, Events("tool_end")' = Events("tool_end"),
             err' = "none" => err = "none",
             stage' \in Unretrieved => stage \in Unretrieved,
             Streaming /\ stage' \in Unretrieved \cup {"memory", "evidence"}
               => stage \in Unretrieved \cup {"memory", "evidence"},
             Streaming /\ err' = "none" /\ stage' \in {"model", "runner", "done", "record"}
               => stage \in {"model", "runner", "done", "record"},
             recorded' = <<"success">> => recorded = <<"success">> \/ (stage = "record" /\ err = "none")
      PROVE  Goal
  BY <1>a, <1>e, TracesKept
<1> HIDE DEF Goal
<1>f. <<>> # <<"success">> /\ <<"failure">> # <<"success">> /\ <<"refused">> # <<"success">>
  OBVIOUS
<1> USE DEF Unretrieved
<1>1. CASE Begin
  BY <1>1, <1>a, <1>d, <1>e DEF Begin, quiet, noteVars, outcomes, Return, Proceed
<1>i. CASE InstructionFails
  BY <1>i, <1>a, <1>d, <1>e DEF InstructionFails, quiet, noteVars, outcomes, Return
<1>2. ASSUME NEW ok \in BOOLEAN, LoadHistory(ok) PROVE Goal
  BY <1>2, <1>a, <1>d, <1>e DEF LoadHistory, quiet, noteVars, outcomes, Failing, Proceed
<1>3. ASSUME NEW ok \in BOOLEAN, ApplyBoundary(ok) PROVE Goal
  BY <1>3, <1>a, <1>d, <1>e DEF ApplyBoundary, quiet, noteVars, outcomes, Return, Failing, Proceed
<1>4. CASE Announce
  <2> DEFINE batch == <<Event("retrieve_start", "none"), Event("tool_start", RetrieveTool)>>
  <2>1. /\ EmitThen(batch, "retrieve") /\ stage = "announce" /\ rpc' = rpc /\ tools' = tools /\ mode' = mode
        /\ recorded' = recorded
    BY <1>4 DEF Announce, outcomes
  <2>2. batch \in Seq(EventSet)
    BY PipelineBatches
  <2>3. \A i \in 1..Len(batch) : batch[i].type # "tool_end"
    BY DEF Event
  <2> HIDE DEF batch
  <2>4. QED
    BY <1>a, <1>c, <1>e, <2>1, <2>2, <2>3
<1>5. ASSUME NEW outcome \in {"callback", "search", "low_similarity", "no_evidence", "hits"}, NEW p \in BOOLEAN,
             Retrieve(outcome, p)
      PROVE  Goal
  <2>1. /\ stage = "retrieve" /\ rpc' = rpc /\ events' = events /\ mode' = mode /\ recorded' = recorded
        /\ recorded = <<>> /\ tools = <<>> /\ stage' \in {"unanswerable", "memory"}
    BY <1>5 DEF Retrieve, Outcome, Undecided, BeforeModel, ClosedRecords, Proceed
  <2>2. Open' = {} /\ Announced' = {}
    <3>1. CASE outcome = "callback"
      <4>1. tools' = <<>>
        BY <1>5, <2>1, <3>1 DEF Retrieve
      <4>2. QED
        BY <4>1 DEF Open, Announced
    <3>2. CASE outcome # "callback"
      <4>1. /\ tools' = endTool(startTool(tools, RetrieveTool), RetrieveTool, outcome # "hits" \/ p)
            /\ (outcome # "hits" \/ p) \in BOOLEAN
        BY <1>5, <3>2 DEF Retrieve
      <4>2. QED
        BY <2>1, <4>1, RetrievalRecord
    <3>3. QED
      BY <3>1, <3>2
  <2>3. ClosedRecords'
    BY <1>a, <2>1, <2>2 DEF ClosedRecords
  <2>4. EndsCounted'
    <3>1. Streaming => Events("tool_end") = {}
      BY <2>1 DEF EndsCounted
    <3>2. recorded' # <<"success">> /\ Events("tool_end")' = Events("tool_end")
      BY <1>d, <2>1
    <3>3. QED
      BY <2>1, <2>2, <3>1, <3>2 DEF EndsCounted, Streaming
  <2>5. QED
    BY <2>3, <2>4 DEF Goal
<1>6. CASE Unanswerable
  <2>1. /\ stage = "unanswerable" /\ rpc' = rpc /\ tools' = tools /\ mode' = mode /\ recorded' = recorded
        /\ recorded = <<>> /\ err # "none"
    BY <1>6 DEF Unanswerable, outcomes, Outcome, Undecided, BeforeModel
  <2>2. stage' \in {"failing", "returned", "record"} /\ err' # "none"
    BY <1>6, <2>1 DEF Unanswerable, Failing, Return
  <2>3. ClosedRecords'
    BY <1>a, <2>1, <2>2 DEF ClosedRecords, Open
  <2>4. EndsCounted'
    BY <2>1, <2>2 DEF EndsCounted
  <2>5. QED
    BY <2>3, <2>4 DEF Goal
<1>7. ASSUME NEW ok \in BOOLEAN, RetrieveMemory(ok) PROVE Goal
  BY <1>7, <1>a, <1>d, <1>e DEF RetrieveMemory, quiet, noteVars, outcomes, Return, Failing, Proceed
<1>8. CASE PresentEvidence
  <2> DEFINE batch == <<Event("retrieve_end", "none"), Event("tool_end", RetrieveTool)>>
                        \o (IF evidence THEN <<Event("citation", RetrieveTool)>> ELSE <<>>)
  <2>1. /\ EmitThen(batch, "model") /\ stage = "evidence" /\ rpc' = rpc /\ tools' = tools /\ mode' = mode
        /\ recorded' = recorded /\ recorded = <<>> /\ err = "none" /\ Streaming
    BY <1>8 DEF PresentEvidence, outcomes, Outcome, Undecided, BeforeModel
  <2>2. batch \in Seq(EventSet)
    BY PipelineBatches
  <2>3. /\ 2 \in 1..Len(batch) /\ batch[2].type = "tool_end"
        /\ \A i \in 1..Len(batch) : i # 2 => batch[i].type # "tool_end"
    BY DEF Event
  <2> HIDE DEF batch
  <2>4. ClosedRecords'
    <3>1. (stage' = "model" /\ err' = err) \/ (stage' = "returned" /\ err' = "emit")
      BY <2>1 DEF EmitThen, Proceed, Return
    <3>2. QED
      BY <1>a, <2>1, <3>1 DEF ClosedRecords, Open
  <2>5. PICK sent \in 0..Len(batch) : Hand(batch, sent) /\ IF sent = Len(batch) THEN Proceed("model") ELSE Return("emit")
    BY <2>1 DEF EmitThen
  <2>6. Announced = {} /\ Events("tool_end") = {} /\ Announced' = {}
    BY <2>1 DEF EndsCounted, Announced
  <2>7. CASE sent = Len(batch)
    <3>1. Events("tool_end")' = {Len(events) + 2}
      <4>1. Hand(batch, Len(batch))
        BY <2>5, <2>7
      <4>k. PICK k \in 1..Len(batch) : k = 2
        BY <2>3
      <4>t. batch[k].type = "tool_end" /\ \A i \in 1..Len(batch) : i # k => batch[i].type # "tool_end"
        BY <2>3, <4>k
      <4>u. Events("tool_end")' = Events("tool_end") \cup {Len(events) + k}
        BY <1>b, <2>2, <4>1, <4>t, HandsAt, SMTT(60)
      <4>2. Events("tool_end")' = Events("tool_end") \cup {Len(events) + 2}
        BY <4>k, <4>u
      <4>3. QED
        BY <2>6, <4>2
    <3>2. Cardinality(Events("tool_end")') = 1 /\ Cardinality({}) = 0
      BY <3>1, FS_Singleton, FS_EmptySet
    <3>3. Announced' \ Open' = {}
      BY <2>6
    <3>4. Cardinality(Events("tool_end")') = 1 + Cardinality(Announced' \ Open')
      <4>1. Cardinality(Announced' \ Open') = 0
        BY <3>3, FS_EmptySet
      <4>2. QED
        BY <3>2, <4>1
    <3>5. stage' = "model" /\ recorded' # <<"success">>
      BY <2>1, <2>5, <2>7 DEF Proceed
    <3>6. EndsCounted'
      BY <3>4, <3>5 DEF EndsCounted
    <3>7. QED
      BY <2>4, <3>6 DEF Goal
  <2>8. CASE sent # Len(batch)
    <3>1. stage' = "returned" /\ err' = "emit" /\ recorded' # <<"success">>
      BY <2>1, <2>5, <2>8 DEF Return
    <3>2. EndsCounted'
      BY <3>1 DEF EndsCounted
    <3>3. QED
      BY <2>4, <3>2 DEF Goal
  <2>9. QED
    BY <2>7, <2>8
<1>9. ASSUME NEW ok \in BOOLEAN, ModelStart(ok) PROVE Goal
  BY <1>9, <1>a, <1>d, <1>e DEF ModelStart, noteVars, outcomes, Return, Failing, Proceed
<1>10. ASSUME NEW panics \in BOOLEAN, ModelEnd(panics) PROVE Goal
  BY <1>10, <1>a, <1>d, <1>e DEF ModelEnd, noteVars, Return, Failing, Proceed, Streaming
<1>11. ASSUME NEW type \in {"done", "error"}, EmitThen(<<Event(type, "none")>>, "record"),
              stage = "done" \/ (stage = "failing" /\ err # "none"),
              UNCHANGED <<mode, tools, rpc, recorded>>
       PROVE  Goal
  <2> DEFINE batch == <<Event(type, "none")>>
  <2>1. batch \in Seq(EventSet)
    BY PipelineBatches
  <2>2. \A i \in 1..Len(batch) : batch[i].type # "tool_end"
    BY DEF Event
  <2>3. EmitThen(batch, "record")
    BY <1>11
  <2> HIDE DEF batch
  <2>4. /\ Events("tool_end")' = Events("tool_end")
        /\ (stage' = "record" /\ err' = err) \/ (stage' = "returned" /\ err' = "emit")
    BY <1>c, <2>1, <2>2, <2>3
  <2>5. QED
    BY <1>11, <1>a, <1>e, <2>4
<1>12. CASE EmitDone
  BY <1>11, <1>12 DEF EmitDone, outcomes
<1>13. CASE EmitError
  BY <1>11, <1>13 DEF EmitError, outcomes, Outcome
<1>14. ASSUME NEW fault \in {"none", "recorder", "logger"}, Record(fault) PROVE Goal
  <2>1. stage = "record" /\ UNCHANGED <<rpc, tools, mode, events>> /\ stage' \in {"memorize", "decode", "returned"}
        /\ (err' = "none" => err = "none")
    BY <1>14 DEF Record, quiet, noteVars, Proceed, Return
  <2>2. recorded' = <<"success">> => err = "none"
    BY <1>14, <1>f DEF Record, Status, Outcome
  <2>3. QED
    BY <1>a, <1>d, <1>e, <2>1, <2>2
<1>15. ASSUME NEW ok \in BOOLEAN, StoreMemory(ok) PROVE Goal
  BY <1>15, <1>a, <1>d, <1>e DEF StoreMemory, quiet, noteVars, Return, Failing, Proceed, Streaming, Outcome
<1>16. ASSUME NEW ok \in BOOLEAN, CommitHistory(ok) PROVE Goal
  BY <1>16, <1>a, <1>d, <1>e DEF CommitHistory, quiet, noteVars, Return, Failing, Proceed, Streaming
<1>k. ASSUME NEW ok \in BOOLEAN, Decode(ok) PROVE Goal
  BY <1>k, <1>a, <1>d, <1>e DEF Decode, quiet, noteVars, outcomes, Proceed, Return
<1>17. \A ok \in BOOLEAN : (~ok) \in BOOLEAN
  OBVIOUS
<1>18. QED
  BY <1>1, <1>2, <1>3, <1>4, <1>5, <1>6, <1>7, <1>8, <1>9, <1>10, <1>12, <1>13, <1>14, <1>15, <1>16, <1>17,
     <1>i, <1>k DEF PipelineStep
-----------------------------------------------------------------------------
(* What a message of either role carries.                                  *)
LEMMA MessageFields ==
  ASSUME NEW s \in Seq(Message), NEW i \in DOMAIN s
  PROVE  /\ i \in 1..Len(s) /\ s[i].role \in {"assistant", "tool"}
         /\ s[i].role = "assistant" => s[i].calls \in Nat
         /\ s[i].role = "tool" => s[i].id \in Nat
<1>1. s[i] \in Message /\ i \in 1..Len(s)
  OBVIOUS
<1>2. CASE s[i] \in [role : {"assistant"}, calls : Nat]
  BY <1>1, <1>2
<1>3. CASE s[i] \in [role : {"tool"}, id : Nat]
  BY <1>1, <1>3
<1>4. QED
  BY <1>1, <1>2, <1>3 DEF Message

(* A message of the model gives no id.                                     *)
LEMMA AskGives ==
  ASSUME NEW s \in Seq(Message), NEW n \in Nat, NEW k \in Nat, Gives(s, k)
  PROVE  Gives(Append(s, [role |-> "assistant", calls |-> n]), k)
<1> DEFINE m == [role |-> "assistant", calls |-> n]
           t == Append(s, m)
<1>1. m \in Message /\ m.role = "assistant"
  BY DEF Message
<1> HIDE DEF m
<1>2. /\ t \in Seq(Message) /\ Len(s) \in Nat /\ t[Len(s) + 1] = m
      /\ \A i \in 1..Len(s) : t[i] = s[i]
      /\ DOMAIN s = 1..Len(s) /\ DOMAIN t = 1..(Len(s) + 1)
      /\ \A i \in 1..(Len(s) + 1) : i = Len(s) + 1 \/ i \in 1..Len(s)
  BY <1>1
<1> HIDE DEF t
<1>3. OfRole(t, "tool") = OfRole(s, "tool") /\ \A i \in OfRole(s, "tool") : t[i] = s[i]
  BY <1>1, <1>2 DEF OfRole
<1>4. {t[i].id : i \in OfRole(t, "tool")} = {s[i].id : i \in OfRole(s, "tool")}
  BY <1>3
<1>5. Gives(t, k)
  BY <1>3, <1>4 DEF Gives
<1>6. QED
  BY <1>5 DEF t, m

(* A message of the model that makes n calls, when none is owed.           *)
LEMMA AskAppended ==
  ASSUME NEW s \in Seq(Message), NEW n \in Nat, Owes(s, 0), NEW t,
         t = Append(s, [role |-> "assistant", calls |-> n])
  PROVE  /\ t \in Seq(Message) /\ Owes(t, n) /\ t # <<>>
         /\ (s # <<>> => s[1].role = "assistant") => t[1].role = "assistant"
<1> DEFINE m == [role |-> "assistant", calls |-> n]
<1>1. m \in Message /\ m.role = "assistant" /\ m.calls = n
  BY DEF Message
<1>2. t = Append(s, m)
  OBVIOUS
<1> HIDE DEF m
<1>3. /\ t \in Seq(Message) /\ Len(s) \in Nat /\ Len(t) = Len(s) + 1 /\ t[Len(s) + 1] = m
      /\ \A i \in 1..Len(s) : t[i] = s[i]
      /\ DOMAIN s = 1..Len(s) /\ DOMAIN t = 1..(Len(s) + 1)
  BY <1>1, <1>2
<1>4. ASSUME NEW i \in OfRole(t, "assistant")
      PROVE  /\ i + t[i].calls <= Len(t) + n
             /\ \A j \in 1..t[i].calls : i + j <= Len(t) => t[i + j].role = "tool"
  <2>1. CASE i = Len(s) + 1
    <3>1. t[i].calls = n
      BY <1>1, <1>3, <2>1
    <3>2. \A j \in 1..n : ~(i + j <= Len(t))
      BY <1>3, <2>1
    <3>3. QED
      BY <1>3, <2>1, <3>1, <3>2
  <2>2. CASE i # Len(s) + 1
    <3>1. i \in 1..Len(s) /\ i \in OfRole(s, "assistant") /\ t[i] = s[i]
      BY <1>3, <1>4, <2>2 DEF OfRole
    <3>2. /\ i + s[i].calls <= Len(s) + 0 /\ s[i].calls \in Nat
          /\ \A j \in 1..s[i].calls : i + j <= Len(s) => s[i + j].role = "tool"
      BY <3>1, MessageFields DEF Owes, OfRole
    <3>3. \A j \in 1..s[i].calls : i + j \in 1..Len(s)
      BY <1>3, <3>1, <3>2
    <3>4. \A j \in 1..s[i].calls : t[i + j] = s[i + j] /\ s[i + j].role = "tool"
      BY <1>3, <3>2, <3>3
    <3>5. QED
      BY <1>3, <3>1, <3>2, <3>4
  <2>3. QED
    BY <2>1, <2>2
<1>7. (s # <<>> => s[1].role = "assistant") => t[1].role = "assistant"
  <2>1. CASE s = <<>>
    BY <1>1, <1>3, <2>1
  <2>2. CASE s # <<>>
    <3>1. 1 \in 1..Len(s)
      BY <1>3, <2>2
    <3>2. QED
      BY <1>3, <2>2, <3>1
  <2>3. QED
    BY <2>1, <2>2
<1>8. Owes(t, n)
  BY <1>4 DEF Owes
<1>9. t # <<>>
  BY <1>3
<1>10. QED
  BY <1>3, <1>7, <1>8, <1>9

(* The tool message of the next call.                                      *)
LEMMA AnswerAppended ==
  ASSUME NEW s \in Seq(Message), NEW due \in Nat \ {0}, Owes(s, due), NEW n \in Nat, Gives(s, n), s # <<>>, NEW t,
         t = Append(s, [role |-> "tool", id |-> n + 1])
  PROVE  /\ t \in Seq(Message) /\ Owes(t, due - 1) /\ Gives(t, n + 1) /\ t # <<>>
         /\ t[1].role = s[1].role
<1> DEFINE m == [role |-> "tool", id |-> n + 1]
<1>1. m \in Message /\ m.role = "tool" /\ m.id = n + 1
  BY DEF Message
<1>2. t = Append(s, m)
  OBVIOUS
<1> HIDE DEF m
<1>3. /\ t \in Seq(Message) /\ Len(s) \in Nat /\ Len(t) = Len(s) + 1 /\ t[Len(s) + 1] = m
      /\ \A i \in 1..Len(s) : t[i] = s[i]
      /\ DOMAIN s = 1..Len(s) /\ DOMAIN t = 1..(Len(s) + 1)
      /\ \A i \in 1..(Len(s) + 1) : i = Len(s) + 1 \/ i \in 1..Len(s)
  BY <1>1, <1>2
<1>4. ASSUME NEW i \in OfRole(t, "assistant")
      PROVE  /\ i + t[i].calls <= Len(t) + (due - 1)
             /\ \A j \in 1..t[i].calls : i + j <= Len(t) => t[i + j].role = "tool"
  <2>1. i \in 1..Len(s) /\ i \in OfRole(s, "assistant") /\ t[i] = s[i]
    BY <1>1, <1>3, <1>4 DEF OfRole
  <2>2. /\ i + s[i].calls <= Len(s) + due /\ s[i].calls \in Nat
        /\ \A j \in 1..s[i].calls : i + j <= Len(s) => s[i + j].role = "tool"
    BY <2>1, MessageFields DEF Owes, OfRole
  <2>3. ASSUME NEW j \in 1..s[i].calls, i + j <= Len(t) PROVE t[i + j].role = "tool"
    <3>1. i + j \in 1..(Len(s) + 1)
      BY <1>3, <2>1, <2>2, <2>3
    <3>2. CASE i + j = Len(s) + 1
      BY <1>1, <1>3, <3>2
    <3>3. CASE i + j \in 1..Len(s)
      BY <1>3, <2>2, <3>3
    <3>4. QED
      BY <1>3, <3>1, <3>2, <3>3
  <2>4. i + s[i].calls <= Len(t) + (due - 1)
    BY <1>3, <2>1, <2>2
  <2>5. QED
    BY <2>1, <2>3, <2>4
<1>5. /\ OfRole(t, "tool") = OfRole(s, "tool") \cup {Len(s) + 1}
      /\ \A i \in OfRole(s, "tool") : t[i] = s[i] /\ i \in 1..Len(s)
      /\ t[Len(s) + 1].id = n + 1
  BY <1>1, <1>3 DEF OfRole
<1>6. {s[i].id : i \in OfRole(s, "tool")} = 1..n
  BY DEF Gives
<1>7. {t[i].id : i \in OfRole(t, "tool")} = 1..(n + 1)
  <2>1. \A x \in 1..(n + 1) : x = n + 1 \/ x \in 1..n
    OBVIOUS
  <2>2. \A x \in 1..n : \E i \in OfRole(s, "tool") : s[i].id = x
    BY <1>6
  <2>3. \A x \in 1..(n + 1) : \E i \in OfRole(t, "tool") : t[i].id = x
    BY <1>5, <2>1, <2>2
  <2>4. \A i \in OfRole(s, "tool") : s[i].id \in 1..n
    BY <1>6
  <2>5. \A x \in 1..n : x \in 1..(n + 1)
    OBVIOUS
  <2>6. \A i \in OfRole(t, "tool") : t[i].id \in 1..(n + 1)
    BY <1>5, <2>4, <2>5
  <2>7. QED
    BY <2>3, <2>6
<1>8. ASSUME NEW i \in OfRole(t, "tool"), NEW j \in OfRole(t, "tool"), i < j PROVE t[i].id < t[j].id
  <2>1. i \in OfRole(s, "tool") /\ i \in 1..Len(s)
    BY <1>3, <1>5, <1>8
  <2>2. t[i].id = s[i].id /\ s[i].id \in 1..n
    BY <1>5, <1>6, <2>1
  <2>3. CASE j = Len(s) + 1
    <3>1. t[j].id = n + 1
      BY <1>5, <2>3
    <3>2. s[i].id < n + 1
      BY <2>2
    <3>3. QED
      BY <2>2, <3>1, <3>2
  <2>4. CASE j \in OfRole(s, "tool")
    BY <1>5, <1>8, <2>1, <2>2, <2>4 DEF Gives
  <2>5. QED
    BY <1>5, <2>3, <2>4
<1>9. Gives(t, n + 1)
  BY <1>7, <1>8 DEF Gives
<1>10. Owes(t, due - 1)
  BY <1>4 DEF Owes
<1>11. t # <<>> /\ t[1].role = s[1].role
  <2>1. 1 \in 1..Len(s)
    BY <1>3
  <2>2. QED
    BY <1>3, <2>1
<1>12. QED
  BY <1>3, <1>9, <1>10, <1>11
(* A call is answered: one call less is owed, and its id is given.         *)
LEMMA AnsweredNumbered ==
  ASSUME Types, Types', InRunner, Numbered, Answered, runner' = runner, rpc \in {"taken", "running"}, runner # "chat"
  PROVE  Numbered'
<1>1. /\ messages \in Seq(Message) /\ loop \in Loop /\ loop.calls \in Nat /\ loop.left \in Nat \ {0}
      /\ runner \in {"native", "envelope"}
  <2>1. messages \in Seq(Message) /\ loop \in Loop /\ loop.calls \in Nat /\ loop.left \in Nat
    BY DEF Types, Loop
  <2>2. loop.left > 0
    BY DEF InRunner
  <2>3. loop.left \in Nat \ {0}
    BY <2>1, <2>2
  <2>4. runner \in {"native", "envelope"}
    BY DEF Types
  <2>5. QED
    BY <2>1, <2>3, <2>4
<1>2. /\ Owes(messages, ToCome) /\ Gives(messages, loop.calls - 1) /\ loop.calls > 0
      /\ messages # <<>> => messages[1].role = "assistant"
      /\ runner = "native" => messages # <<>>
  BY DEF Numbered, Given
<1>3. loop.calls - 1 \in Nat /\ (loop.calls - 1) + 1 = loop.calls
  BY <1>1, <1>2
<1>4. loop.left - 1 \in Nat /\ (loop.left = 1 <=> loop.left - 1 = 0)
  BY <1>1
<1>5. loop'.calls = loop.calls /\ loop'.left = loop.left - 1
  <2>1. loop' = [loop EXCEPT !.left = loop.left - 1, !.tool = "none"]
    BY DEF Answered
  <2>2. QED
    BY <1>1, <1>4, <2>1, LoopAnswered
<1>6. rpc' = (IF loop.left = 1 THEN "round" ELSE "call") /\ messages' = messages \o Reply
  BY DEF Answered
<1>n. PICK n \in Nat : n = loop.calls - 1 /\ n + 1 = loop.calls
  BY <1>3
<1>7. Given' = loop.calls
  BY <1>5, <1>6 DEF Given
<1>8. ToCome' = IF runner = "native" THEN loop.left - 1 ELSE 0
  BY <1>1, <1>4, <1>5, <1>6 DEF ToCome
<1> DEFINE answer1 == [role |-> "tool", id |-> loop.calls]
           asked == [role |-> "assistant", calls |-> 1]
<1>9. /\ Owes(messages', ToCome') /\ Gives(messages', loop.calls) /\ messages' # <<>>
      /\ messages'[1].role = "assistant"
  <2>1. CASE runner = "native"
    <3>1. messages' = Append(messages, [role |-> "tool", id |-> n + 1])
      <4>1. Reply = <<answer1>>
        BY <2>1 DEF Reply
      <4>2. messages' = Append(messages, answer1)
        BY <1>1, <1>6, <4>1
      <4>3. QED
        BY <1>n, <4>2
    <3>2. ToCome = loop.left
      BY <2>1 DEF ToCome
    <3>3. Owes(messages, loop.left)
      BY <1>2, <3>2
    <3>4. /\ Owes(messages', loop.left - 1) /\ Gives(messages', n + 1) /\ messages' # <<>>
          /\ messages'[1].role = messages[1].role
      <4>1. messages # <<>> /\ Gives(messages, n) /\ messages \in Seq(Message)
        BY <1>1, <1>2, <1>n, <2>1
      <4>2. loop.left \in Nat \ {0} /\ Owes(messages, loop.left)
        BY <1>1, <3>3
      <4>3. PICK due \in Nat \ {0} : due = loop.left
        BY <4>2
      <4>4. Owes(messages, due)
        BY <4>2, <4>3
      <4>5. Owes(messages', due - 1) /\ Gives(messages', n + 1) /\ messages' # <<>>
            /\ messages'[1].role = messages[1].role
        BY <3>1, <4>1, <4>4, AnswerAppended
      <4>6. QED
        BY <4>3, <4>5
    <3>5. QED
      BY <1>2, <1>n, <1>8, <2>1, <3>4
  <2>2. CASE runner # "native"
    <3> DEFINE before == Append(messages, asked)
    <3>1. ToCome = 0 /\ Owes(messages, 0)
      BY <1>2, <2>2 DEF ToCome
    <3>2. /\ before \in Seq(Message) /\ Owes(before, 1) /\ before # <<>> /\ before[1].role = "assistant"
          /\ Gives(before, n)
      <4>1. Gives(messages, n) /\ 1 \in Nat /\ messages \in Seq(Message) /\ Owes(messages, 0)
            /\ (messages # <<>> => messages[1].role = "assistant")
        BY <1>1, <1>2, <1>n, <3>1
      <4>o. PICK one \in Nat : one = 1
        OBVIOUS
      <4>2. before = Append(messages, [role |-> "assistant", calls |-> one])
        BY <4>o
      <4> HIDE DEF before
      <4>t. PICK t : t = before
        OBVIOUS
      <4>a. t = Append(messages, [role |-> "assistant", calls |-> one])
        BY <4>2, <4>t
      <4>b. t \in Seq(Message) /\ Owes(t, one) /\ t # <<>>
        BY <4>1, <4>a, AskAppended
      <4>g. Gives(t, n)
        BY <4>1, <4>a, AskGives
      <4>3. before \in Seq(Message) /\ Owes(before, one) /\ before # <<>>
        BY <4>b, <4>t
      <4>4. before[1].role = "assistant"
        BY <4>1, <4>2, AskAppended
      <4>5. Gives(before, n)
        BY <4>g, <4>t
      <4>6. QED
        BY <4>o, <4>3, <4>4, <4>5
    <3>3. messages' = Append(before, answer1)
      <4>1. Reply = <<asked>> \o <<answer1>>
        BY <2>2 DEF Reply
      <4>2. messages \o (<<asked>> \o <<answer1>>) = Append(Append(messages, asked), answer1)
        BY <1>1
      <4>3. QED
        BY <1>6, <4>1, <4>2
    <3> HIDE DEF before
    <3>4. messages' = Append(before, [role |-> "tool", id |-> n + 1])
      BY <1>n, <3>3
    <3>5. /\ Owes(messages', 1 - 1) /\ Gives(messages', n + 1) /\ messages' # <<>>
          /\ messages'[1].role = before[1].role
      <4>1. 1 \in Nat \ {0}
        OBVIOUS
      <4>2. QED
        BY <3>2, <3>4, <4>1, AnswerAppended, ZenonT(30)
    <3>6. QED
      BY <1>n, <1>8, <2>2, <3>2, <3>5
  <2>3. QED
    BY <2>1, <2>2
<1>10. QED
  BY <1>6, <1>7, <1>9 DEF Numbered

(* The messages under the steps of the runners.                            *)
LEMMA RunnerNumbered ==
  ASSUME Types, Types', InRunner, Numbered, RunRunner
  PROVE  Numbered'
<1>a. runner' = runner /\ runner \in {"chat", "native", "envelope"} /\ stage = "runner"
  BY DEF RunRunner, RunnerStep, EnterRunner, ChatPrompt, ChatToolStart, ChatToolsEnd, ChatToolEnd, ChatGenerate,
     ModelFails, EnvelopeAnswer, NativeRound, EnvelopeCall, LoopEnds, TakeCall, CallNameless, CallRejected,
     CallStart, CallEnd, Types
<1>b. loop \in Loop /\ messages \in Seq(Message) /\ loop.calls \in Nat /\ loop.left \in Nat /\ loop.rounds \in Nat
  BY DEF Types, Loop
<1>c. \A e, p : GoOnUnless(e, p) => rpc' = (IF e = "none" THEN p ELSE "returned")
  BY DEF GoOnUnless, RunnerReturns
<1>d. rpc' = "returned" => Numbered'
  BY DEF Numbered
<1>e. runner = "chat" => Numbered'
  BY <1>a DEF Numbered
<1>1. CASE EnterRunner
  <2>1. messages' = messages /\ loop' = loop /\ rpc = "entry" /\ (rpc' = "round" \/ rpc' = "returned" \/ runner = "chat")
    BY <1>1, <1>c DEF EnterRunner, runVars
  <2>2. CASE rpc' = "round" /\ runner # "chat"
    <3>1. ToCome = 0 /\ ToCome' = 0 /\ Given = loop.calls /\ Given' = loop.calls
      BY <2>1, <2>2 DEF ToCome, Given
    <3>2. QED
      BY <1>a, <2>1, <2>2, <3>1 DEF Numbered
  <2>3. QED
    BY <1>d, <1>e, <2>1, <2>2
<1>2. ASSUME rpc = "round" \/ rpc = "generate" \/ runner = "chat", rpc' = "returned" \/ runner = "chat" PROVE Numbered'
  BY <1>2, <1>d, <1>e
<1>3. ASSUME (\E cached \in BOOLEAN : ChatPrompt(cached)) \/ ChatToolStart \/ ChatToolsEnd
             \/ (\E outcome \in {"text", "blank", "error"} : ChatToolEnd(outcome))
             \/ (\E text \in Text : ChatGenerate(text))
      PROVE  Numbered'
  BY <1>3, <1>a, <1>e DEF ChatPrompt, ChatToolStart, ChatToolsEnd, ChatToolEnd, ChatGenerate, InRunner
<1>4. ASSUME LoopEnds \/ (\E text \in Text : ModelFails(text)) PROVE Numbered'
  BY <1>4, <1>d DEF LoopEnds, ModelFails, RunnerReturns
<1>5. ASSUME NEW text \in Text, EnvelopeAnswer(text) PROVE Numbered'
  <2>1. rpc' = "returned"
    BY <1>5, <1>c DEF EnvelopeAnswer, Stream
  <2>2. QED
    BY <1>d, <2>1
<1>6. ASSUME NEW text \in Text, NEW n \in 0..MaxCalls, NativeRound(text, n) PROVE Numbered'
  <2>1. rpc = "round" /\ runner = "native" /\ messages' = Keep(n) /\ n \in Nat
    BY <1>6, RunnersAssumption DEF NativeRound
  <2>2. rpc' = "returned" \/ (rpc' = "call" /\ n # 0)
    BY <1>6, <1>c DEF NativeRound, Stream
  <2>3. CASE rpc' = "call" /\ n # 0
    <3>1. loop'.calls = loop.calls /\ loop'.left = n
      <4>1. loop' = [loop EXCEPT !.rounds = loop.rounds + 1, !.left = n] /\ loop.rounds + 1 \in Nat
        BY <1>6, <1>b DEF NativeRound
      <4>2. QED
        BY <1>b, <2>1, <4>1, LoopRound
    <3>2. messages' = Append(messages, [role |-> "assistant", calls |-> n])
      BY <2>1, <2>3 DEF Keep
    <3>3. /\ Owes(messages, 0) /\ Gives(messages, loop.calls)
          /\ messages # <<>> => messages[1].role = "assistant"
      BY <2>1 DEF Numbered, ToCome, Given
    <3>4. /\ Owes(messages', n) /\ messages' # <<>> /\ messages'[1].role = "assistant"
      BY <1>b, <2>1, <3>2, <3>3, AskAppended
    <3>g. Gives(messages', loop.calls)
      BY <1>b, <2>1, <3>2, <3>3, AskGives
    <3>5. ToCome' = n /\ Given' = loop.calls
      BY <1>a, <2>1, <2>3, <3>1 DEF ToCome, Given
    <3>6. QED
      BY <2>3, <3>4, <3>g, <3>5 DEF Numbered
  <2>4. QED
    BY <1>d, <2>2, <2>3
<1>7. ASSUME NEW garbled \in BOOLEAN, EnvelopeCall(garbled) PROVE Numbered'
  <2>1. rpc = "round" /\ runner = "envelope" /\ messages' = messages /\ (rpc' = "returned" \/ rpc' = "call")
    BY <1>7, <1>c DEF EnvelopeCall
  <2>2. CASE rpc' = "call"
    <3>1. loop'.calls = loop.calls
      <4>1. loop' = [loop EXCEPT !.rounds = loop.rounds + 1, !.left = 1] /\ loop.rounds + 1 \in Nat /\ 1 \in Nat
        BY <1>7, <1>b DEF EnvelopeCall
      <4>2. QED
        BY <1>b, <4>1, LoopRound
    <3>2. ToCome = 0 /\ ToCome' = 0 /\ Given = loop.calls /\ Given' = loop.calls
      BY <1>a, <2>1, <2>2, <3>1 DEF ToCome, Given
    <3>3. QED
      BY <1>a, <2>1, <2>2, <3>2 DEF Numbered
  <2>3. QED
    BY <1>d, <2>1, <2>2
<1>8. ASSUME NEW name \in Registered \cup {"unknown", "none"}, TakeCall(name) PROVE Numbered'
  <2>1. rpc = "call" /\ messages' = messages
    BY <1>8 DEF TakeCall
  <2>2. CASE loop.calls < MaxToolCalls
    <3>1. rpc' = "taken"
      BY <1>8, <1>c, <2>2 DEF TakeCall
    <3>2. loop'.calls = loop.calls + 1 /\ loop'.left = loop.left
      <4>1. loop' = [loop EXCEPT !.calls = loop.calls + 1, !.tool = name] /\ loop.calls + 1 \in Nat /\ name \in Names
        BY <1>8, <1>b, <2>2 DEF TakeCall, Names
      <4>2. QED
        BY <1>b, <4>1, LoopTake
    <3>3. ToCome' = ToCome
      BY <1>a, <2>1, <3>1, <3>2 DEF ToCome
    <3>4. Given = loop.calls /\ Given' = loop.calls /\ loop'.calls > 0
      <4>1. (loop.calls + 1) - 1 = loop.calls /\ loop.calls + 1 > 0
        BY <1>b
      <4>2. QED
        BY <2>1, <3>1, <3>2, <4>1 DEF Given
    <3>5. QED
      BY <1>a, <2>1, <3>1, <3>3, <3>4 DEF Numbered
  <2>3. CASE ~(loop.calls < MaxToolCalls)
    BY <1>8, <1>d, <2>3 DEF TakeCall, RunnerReturns
  <2>4. QED
    BY <2>2, <2>3
<1>9. ASSUME rpc \in {"taken", "running"}, runner # "chat", NEW e, Answered \/ Abort(e) PROVE Numbered'
  <2>1. CASE Answered
    BY <1>9, <1>a, <2>1, AnsweredNumbered
  <2>2. CASE Abort(e)
    BY <1>d, <2>2 DEF Abort, RunnerReturns
  <2>3. QED
    BY <1>9, <2>1, <2>2
<1>10. CASE CallNameless
  BY <1>9, <1>10, <1>a DEF CallNameless, Recover, InRunner
<1>11. ASSUME NEW why \in {"undecodable", "unknown", "denied", "invalid"}, CallRejected(why) PROVE Numbered'
  <2>1. rpc = "taken" /\ runner # "chat"
    BY <1>11, <1>a DEF CallRejected, InRunner
  <2>2. \E e : Answered \/ Abort(e)
    BY <1>11 DEF CallRejected, Recover
  <2>3. QED
    BY <1>9, <2>1, <2>2
<1>12. CASE CallStart
  <2>1. rpc = "taken" /\ messages' = messages /\ loop' = loop /\ (rpc' = "running" \/ rpc' = "returned")
    BY <1>12, <1>c DEF CallStart, runVars
  <2>2. CASE rpc' = "running"
    <3>1. ToCome' = ToCome /\ Given' = Given
      BY <1>a, <2>1, <2>2 DEF ToCome, Given
    <3>2. QED
      BY <1>a, <2>1, <2>2, <3>1 DEF Numbered
  <2>3. QED
    BY <1>d, <2>1, <2>2
<1>13. ASSUME NEW failed \in BOOLEAN, CallEnd(failed) PROVE Numbered'
  <2>1. rpc = "running" /\ runner # "chat"
    BY <1>13 DEF CallEnd
  <2>2. \E e : Answered \/ Abort(e)
    BY <1>13 DEF CallEnd, Recover
  <2>3. QED
    BY <1>9, <2>1, <2>2
<1>14. QED
  BY <1>1, <1>3, <1>4, <1>5, <1>6, <1>7, <1>8, <1>10, <1>11, <1>12, <1>13 DEF RunRunner, RunnerStep
-----------------------------------------------------------------------------
(* The model is called for the first time with no message to answer.       *)
LEMMA PipelineNumbered ==
  ASSUME InRunner, PipelineStep
  PROVE  Numbered'
<1>1. rpc = "idle" \/ rpc = "returned"
  BY DEF InRunner, PipelineStep, Begin, LoadHistory, ApplyBoundary, RetrieveMemory, ModelStart, ModelEnd, StoreMemory,
     CommitHistory, Decode, InstructionFails,
     Retrieve, Record, Announce, Unanswerable, PresentEvidence, EmitDone, EmitError
<1>2. ASSUME NEW ok \in BOOLEAN, ModelStart(ok) PROVE Numbered'
  <2>1. messages' = <<>> /\ loop'.calls = 0 /\ (rpc' = "entry" \/ rpc' = "idle")
    BY <1>2 DEF ModelStart, InRunner, BeforeModel, NewLoop, runVars
  <2>2. CASE rpc' = "entry"
    <3>1. ToCome' = 0 /\ Given' = 0
      BY <2>1, <2>2 DEF ToCome, Given
    <3>2. OfRole(<<>>, "assistant") = {} /\ OfRole(<<>>, "tool") = {}
      BY DEF OfRole
    <3>3. Owes(<<>>, 0) /\ Gives(<<>>, 0)
      BY <3>2 DEF Owes, Gives
    <3>4. QED
      BY <2>1, <2>2, <3>1, <3>3 DEF Numbered
  <2>3. CASE rpc' = "idle"
    BY <2>3 DEF Numbered
  <2>4. QED
    BY <2>1, <2>2, <2>3
<1>3. ASSUME \A ok \in BOOLEAN : ~ModelStart(ok) PROVE Numbered'
  <2>1. rpc' = rpc \/ rpc' = "idle"
    BY <1>3 DEF PipelineStep, Begin, LoadHistory, ApplyBoundary, RetrieveMemory, ModelEnd, StoreMemory,
       CommitHistory, Decode, InstructionFails,
       Retrieve, Record, Announce, Unanswerable, PresentEvidence, EmitDone, EmitError, quiet
  <2>2. QED
    BY <1>1, <2>1 DEF Numbered
<1>4. QED
  BY <1>2, <1>3

(* A question is recorded at most once.                                    *)
LEMMA RecordedOnceStep ==
  ASSUME Outcome, RecordedOnce, QStep
  PROVE  RecordedOnce'
<1>1. ASSUME NEW fault \in {"none", "recorder", "logger"}, Record(fault) PROVE RecordedOnce'
  <2>1. recorded = <<>> /\ (recorded' = recorded \/ recorded' = Append(recorded, Status))
    BY <1>1 DEF Record, Outcome
  <2>2. Len(<<>>) = 0 /\ Len(<<Status>>) = 1 /\ Append(<<>>, Status) = <<Status>>
    OBVIOUS
  <2>3. CASE recorded' = recorded
    BY <2>1, <2>2, <2>3 DEF RecordedOnce
  <2>4. CASE recorded' = Append(recorded, Status)
    <3>1. recorded' = <<Status>>
      BY <2>1, <2>2, <2>4
    <3>2. QED
      BY <2>2, <3>1 DEF RecordedOnce
  <2>5. QED
    BY <2>1, <2>3, <2>4
<1>2. ASSUME recorded' = recorded PROVE RecordedOnce'
  BY <1>2 DEF RecordedOnce
<1>3. QED
  BY <1>1, <1>2 DEF QStep, Begin, LoadHistory, ApplyBoundary, RetrieveMemory, ModelStart, ModelEnd, StoreMemory,
     CommitHistory, Decode, InstructionFails,
     Retrieve, Announce, Unanswerable, PresentEvidence, EmitDone, EmitError, RunRunner, outcomes,
     pipelineVars

(* A question begins in the invariant.                                     *)
LEMMA InitInv == QInit => QInv
<1> SUFFICES ASSUME QInit PROVE QInv
  OBVIOUS
<1>1. Types
  BY InitTypes
<1>2. /\ stage = "begin" /\ rpc = "idle" /\ err = "none" /\ refused = "none" /\ recorded = <<>> /\ tools = <<>>
      /\ events = <<>> /\ messages = <<>> /\ texts = <<>> /\ answer = <<>> /\ runs = 0 /\ budget = 0
      /\ loop = NewLoop /\ memorized = FALSE /\ committed = FALSE
  BY DEF QInit, NewLoop
<1>3. /\ \A type : Events(type) = {}
      /\ Open = {} /\ Announced = {} /\ Len(recorded) = 0 /\ Len(texts) = 0 /\ <<>> # <<"success">>
      /\ loop.calls = 0 /\ loop.rounds = 0
  BY <1>2 DEF Events, Open, Announced, NewLoop
<1>4. InRunner
  BY <1>2 DEF InRunner, BeforeModel, Streaming
<1>5. Counted
  <2>1. 0 <= MaxToolCalls /\ 0 <= MaxIterations /\ InUse = 0
    BY <1>2, RunnersAssumption DEF InUse
  <2>2. QED
    BY <1>2, <1>3, <2>1 DEF Counted, BeforeModel
<1>6. Outcome
  BY <1>2, <1>3 DEF Outcome, Ended, Undecided, BeforeModel
<1>7. ClosedRecords /\ EndsCounted
  BY <1>2, <1>3 DEF ClosedRecords, EndsCounted
<1>8. Numbered /\ NothingAfterTheEnd /\ OutcomeTold /\ RecordedOnce
  BY <1>2, <1>3 DEF Numbered, NothingAfterTheEnd, OutcomeTold, RecordedOnce
<1>9. QED
  BY <1>1, <1>4, <1>5, <1>6, <1>7, <1>8 DEF QInv

(* Every step keeps the invariant, or begins a question.                   *)
LEMMA InvStep == QInv /\ [QNext]_qVars => QInv' \/ QInit'
<1> SUFFICES ASSUME QInv, [QNext]_qVars PROVE QInv' \/ QInit'
  OBVIOUS
<1>a. /\ Types /\ InRunner /\ Counted /\ Outcome /\ RecordedOnce /\ ClosedRecords /\ EndsCounted /\ Numbered
      /\ NothingAfterTheEnd /\ OutcomeTold
  BY DEF QInv
<1>1. CASE RunRunner
  <2>1. Types'
    BY <1>a, <1>1, RunnerTypes
  <2>2. InRunner' /\ Counted'
    BY <1>a, <1>1, RunnerControl
  <2>3. ClosedRecords' /\ EndsCounted'
    BY <1>a, <1>1, <2>1, RunnerTraces
  <2>4. Numbered'
    BY <1>a, <1>1, <2>1, RunnerNumbered
  <2>5. QStep
    BY <1>1 DEF QStep
  <2>6. Outcome' /\ NothingAfterTheEnd' /\ OutcomeTold'
    BY <1>a, <2>1, <2>2, <2>5, OutcomeStep
  <2>7. RecordedOnce'
    BY <1>a, <2>5, RecordedOnceStep
  <2>8. QED
    BY <2>1, <2>2, <2>3, <2>4, <2>6, <2>7 DEF QInv
<1>2. CASE PipelineStep
  <2>1. Types' /\ InRunner' /\ Counted'
    BY <1>a, <1>2, PipelineControl
  <2>2. ClosedRecords' /\ EndsCounted'
    BY <1>a, <1>2, <2>1, PipelineTraces
  <2>3. Numbered'
    BY <1>a, <1>2, PipelineNumbered
  <2>4. QStep
    BY <1>2 DEF QStep, PipelineStep
  <2>5. Outcome' /\ NothingAfterTheEnd' /\ OutcomeTold'
    BY <1>a, <2>1, <2>4, OutcomeStep
  <2>6. RecordedOnce'
    BY <1>a, <2>4, RecordedOnceStep
  <2>7. QED
    BY <2>1, <2>2, <2>3, <2>5, <2>6 DEF QInv
<1>3. ASSUME ctx' \in {"live", "ended"}, faults' \in 0..MaxFaults,
             UNCHANGED <<mode, runner, noteVars, rpc, err, runVars, pipelineVars>>
      PROVE  QInv'
  <2>1. Types'
    BY <1>a, <1>3 DEF Types, noteVars, runVars, pipelineVars
  <2>2. InRunner' /\ Counted'
    BY <1>a, <1>3 DEF InRunner, Counted, InUse, Streaming, runVars, pipelineVars
  <2>3. Events("done")' = Events("done") /\ Events("error")' = Events("error") /\ Events("tool_end")' = Events("tool_end")
    BY <1>3 DEF Events, noteVars
  <2>4. Outcome' /\ OutcomeTold' /\ RecordedOnce'
    BY <1>a, <1>3, <2>3 DEF Outcome, OutcomeTold, Undecoded, RecordedOnce, Ended, Streaming, runVars,
       pipelineVars
  <2>5. Open' = Open /\ Announced' = Announced
    BY <1>3 DEF Open, Announced, noteVars
  <2>6. ClosedRecords'
    BY <1>a, <1>3, <2>5 DEF ClosedRecords, AtWork, noteVars, runVars, pipelineVars
  <2>7. EndsCounted'
    BY <1>a, <1>3, <2>3, <2>5 DEF EndsCounted, Streaming, pipelineVars
  <2>8. Numbered'
    BY <1>a, <1>3 DEF Numbered, ToCome, Given, runVars
  <2>9. NothingAfterTheEnd'
    BY <1>a, <1>3, <2>3 DEF NothingAfterTheEnd, noteVars
  <2>10. QED
    BY <2>1, <2>2, <2>4, <2>6, <2>7, <2>8, <2>9 DEF QInv
<1>4. CASE ContextEnds
  <2>1. faults' \in 0..MaxFaults /\ ctx' \in {"live", "ended"}
    BY <1>a, <1>4, RunnersAssumption DEF ContextEnds, Types
  <2>2. QED
    BY <1>3, <1>4, <2>1 DEF ContextEnds
<1>5. CASE UNCHANGED qVars
  BY <1>a, <1>3, <1>5 DEF qVars, runnerVars, Types
<1>6. CASE NextQuestion
  BY <1>a, <1>6 DEF NextQuestion, QuestionBegins, QInit, Types
<1>7. QED
  BY <1>1, <1>2, <1>4, <1>5, <1>6 DEF QNext, QStep, PipelineStep

(* The inductive invariant of a session's questions.                       *)
THEOREM QuestionInvariant == QSpec => []QInv
<1>1. QInit => QInv
  BY InitInv
<1>2. QInv /\ [QNext]_qVars => QInv' \/ QInit'
  BY InvStep
<1>3. QED
  BY <1>1, <1>2, PTL DEF QSpec

(* The stage, the error under way and the statuses recorded stay within    *)
(* what askWithFormatLocked and askStreamLocked can produce.               *)
THEOREM QuestionTypes == QSpec => []QTypeOK
<1>1. QInv => QTypeOK
  <2> SUFFICES ASSUME QInv PROVE QTypeOK
    OBVIOUS
  <2>1. Types /\ Len(recorded) <= 1
    BY DEF QInv, RecordedOnce
  <2>2. recorded \in BoundedSeq({"success", "failure", "refused"}, 1)
    <3>1. recorded \in Seq({"success", "failure", "refused"})
      BY <2>1 DEF Types
    <3>2. recorded \in [1..Len(recorded) -> {"success", "failure", "refused"}]
      BY <3>1
    <3>3. Len(recorded) \in Nat
      BY <3>1
    <3>4. \A n \in Nat : n <= 1 => n \in 0..1
      OBVIOUS
    <3>5. Len(recorded) \in 0..1
      BY <2>1, <3>3, <3>4
    <3>6. QED
      BY <3>2, <3>5 DEF BoundedSeq, SeqOf
  <2>3. QED
    BY <2>1, <2>2 DEF Types, QTypeOK
<1>2. QED
  BY <1>1, QuestionInvariant, PTL

(* A stream ends once, and nothing follows: whatever the emitter, a        *)
(* callback, a store or the context does, no event comes after done or     *)
(* error.                                                                  *)
THEOREM StreamsEndOnce == QSpec => []NothingAfterTheEnd
<1>1. QInv => NothingAfterTheEnd
  BY DEF QInv
<1>2. QED
  BY <1>1, QuestionInvariant, PTL

(* Caller, trace, stores and stream agree on the outcome of a question.    *)
THEOREM OutcomesAgree == QSpec => []OutcomeTold
<1>1. QInv => OutcomeTold
  BY DEF QInv
<1>2. QED
  BY <1>1, QuestionInvariant, PTL

(* The limits on tools and model calls hold for every runner.              *)
THEOREM BudgetsHold == QSpec => []BudgetKept
<1>1. QInv => BudgetKept
  <2> SUFFICES ASSUME QInv PROVE BudgetKept
    OBVIOUS
  <2>1. Types /\ Counted /\ InUse \in {0, 1}
    BY DEF QInv, InUse
  <2>2. runs \in Nat /\ budget \in Nat /\ loop.calls \in Nat /\ loop.rounds \in Nat /\ Len(texts) \in Nat
    BY <2>1 DEF Types, Loop
  <2>3. MaxToolCalls \in Nat /\ MaxIterations \in Nat
    BY RunnersAssumption
  <2>4. CASE runner = "chat"
    <3>1. runs + InUse <= budget /\ budget <= MaxToolCalls /\ Len(texts) <= 1
      BY <2>1, <2>2, <2>4 DEF Counted
    <3>2. runs <= MaxToolCalls
      BY <2>1, <2>2, <2>3, <3>1
    <3>3. QED
      BY <2>3, <2>4, <3>1, <3>2 DEF BudgetKept
  <2>5. CASE runner # "chat"
    <3>1. runs + InUse <= 1 + loop.calls /\ loop.calls <= MaxToolCalls /\ Len(texts) <= loop.rounds
          /\ loop.rounds <= MaxIterations
      BY <2>1, <2>5 DEF Counted
    <3>2. runs <= MaxToolCalls + 1 /\ Len(texts) <= MaxIterations
      BY <2>1, <2>2, <2>3, <3>1
    <3>3. QED
      BY <2>5, <3>2 DEF BudgetKept
  <2>6. QED
    BY <2>4, <2>5
<1>2. QED
  BY <1>1, QuestionInvariant, PTL

(* The tool records of the trace fit the tools that ran and the events     *)
(* that told of them.                                                      *)
THEOREM TracesSound == QSpec => []ToolTraceSound
<1>1. QInv => ToolTraceSound
  <2> SUFFICES ASSUME QInv PROVE ToolTraceSound
    OBVIOUS
  <2>1. Types /\ ClosedRecords /\ EndsCounted
    BY DEF QInv
  <2>2. Cardinality(Open) <= 1
    <3>1. Open \subseteq {Len(tools)}
      BY <2>1 DEF ClosedRecords
    <3>2. Cardinality({Len(tools)}) = 1 /\ IsFiniteSet({Len(tools)})
      BY FS_Singleton
    <3>3. Cardinality(Open) <= Cardinality({Len(tools)})
      BY <3>1, <3>2, FS_Subset
    <3>4. QED
      BY <3>2, <3>3
  <2>3. recorded = <<"success">> => Open = {}
    BY <2>1 DEF ClosedRecords
  <2>4. Streaming /\ recorded = <<"success">> =>
          Cardinality(Events("tool_end")) = 1 + Cardinality(Announced)
    BY <2>1 DEF EndsCounted
  <2>5. QED
    BY <2>2, <2>3, <2>4 DEF ToolTraceSound, Open, Announced
<1>2. QED
  BY <1>1, QuestionInvariant, PTL

(* Before the model is called again every call it made has its answer,     *)
(* right after it and in order.                                            *)
THEOREM EveryCallAnswered == QSpec => []CallsAnswered
<1>1. QInv => CallsAnswered
  <2> SUFFICES ASSUME QInv, rpc = "round" PROVE CallsAnswered
    BY DEF CallsAnswered
  <2>1. Types /\ InRunner /\ Numbered
    BY DEF QInv
  <2>2. runner # "chat" /\ ToCome = 0 /\ Given = loop.calls
    BY <2>1 DEF InRunner, ToCome, Given
  <2>3. /\ Owes(messages, 0) /\ Gives(messages, loop.calls)
        /\ messages # <<>> => messages[1].role = "assistant"
    BY <2>1, <2>2 DEF Numbered
  <2>4. messages \in Seq(Message) /\ Len(messages) \in Nat
    BY <2>1 DEF Types
  <2>5. \A role : Messages(role) = OfRole(messages, role)
    BY DEF Messages, OfRole
  <2>6. ASSUME NEW i \in Messages("assistant")
        PROVE  /\ i + messages[i].calls <= Len(messages)
               /\ \A j \in 1..messages[i].calls : messages[i + j].role = "tool"
    <3>1. i \in OfRole(messages, "assistant") /\ i \in DOMAIN messages /\ messages[i].role = "assistant"
      BY <2>5, <2>6 DEF OfRole
    <3>2. i \in 1..Len(messages) /\ messages[i].calls \in Nat
      BY <2>4, <3>1, MessageFields
    <3>3. /\ i + messages[i].calls <= Len(messages) + 0
          /\ \A j \in 1..messages[i].calls : i + j <= Len(messages) => messages[i + j].role = "tool"
      BY <2>3, <3>1 DEF Owes
    <3>4. \A j \in 1..messages[i].calls : i + j <= Len(messages)
      BY <2>4, <3>2, <3>3
    <3>5. i + messages[i].calls <= Len(messages)
      BY <2>4, <3>2, <3>3
    <3>6. \A j \in 1..messages[i].calls : messages[i + j].role = "tool"
      BY <3>3, <3>4
    <3>7. QED
      BY <3>5, <3>6
  <2>7. QED
    BY <2>3, <2>5, <2>6 DEF CallsAnswered, Gives
<1>2. QED
  BY <1>1, QuestionInvariant, PTL
-----------------------------------------------------------------------------
(* The folds of AnswerDelivered, over any texts and events. *)
Rounds(ts) == FoldLeft(WithRound, <<>>, ts)
Heard(es) == FoldLeft(WithChunk, <<>>, es)

LEMMA WithRoundType ==
  ASSUME NEW said \in Seq(Tokens), NEW text \in Seq(Tokens)
  PROVE  WithRound(said, text) \in Seq(Tokens)
<1>1. <<>> \in Seq(Tokens) /\ <<"nl">> \in Seq(Tokens)
  BY DEF Tokens
<1>2. NewLine(said, text) \in Seq(Tokens)
  BY <1>1 DEF NewLine
<1>3. QED
  BY <1>2 DEF WithRound

LEMMA WithChunkType ==
  ASSUME NEW said \in Seq(Tokens), NEW e \in EventSet
  PROVE  WithChunk(said, e) \in Seq(Tokens)
<1>1. e.type = "answer_chunk" => e.text \in Seq(Tokens)
  BY DEF EventSet, EventTypes
<1>2. QED
  BY <1>1 DEF WithChunk

(* What the texts come to is a fold in the sense of ListTheorems. *)
LEMMA RoundsFold ==
  ASSUME NEW ts \in Seq(Seq(Tokens))
  PROVE  LET step == [i \in 1..Len(ts) |-> [a \in Seq(Tokens) |-> WithRound(a, ts[i])]]
         IN  /\ step \in [1..Len(ts) -> [Seq(Tokens) -> Seq(Tokens)]]
             /\ \E f : FoldsWithin(f, Seq(Tokens), <<>>, Len(ts), step) /\ Rounds(ts) = f[1..Len(ts)]
<1> DEFINE n == Len(ts)
           B == Seq(Tokens)
           step == [i \in 1..n |-> [a \in B |-> WithRound(a, ts[i])]]
           Eq(h) == h = [t \in SUBSET DOMAIN ts |->
                           IF t = {} THEN <<>> ELSE WithRound(h[t \ {Max(t)}], ts[Max(t)])]
           f == CHOOSE h : Eq(h)
<1>1. n \in Nat /\ DOMAIN ts = 1..n /\ <<>> \in B
  OBVIOUS
<1>2. \A t \in SUBSET (1..n) : t # {} => Max(t) \in 1..n
  BY <1>1, MaxOfSome
<1>3. step \in [1..n -> [B -> B]]
  <2>1. \A i \in 1..n : ts[i] \in B
    OBVIOUS
  <2>2. \A i \in 1..n : \A a \in B : WithRound(a, ts[i]) \in B
    BY <2>1, WithRoundType
  <2>3. QED
    BY <2>2
<1>4. PICK g : IsFold(g, B, <<>>, n, step)
  <2> HIDE DEF n, step, B
  <2>1. QED
    BY <1>1, <1>3, FoldExists
<1>5. Eq(g)
  <2>1. g = [t \in SUBSET (1..n) |-> g[t]] /\ \A t \in SUBSET (1..n) : g[t \ {Max(t)}] \in B
    BY <1>4 DEF IsFold
  <2>2. ASSUME NEW t \in SUBSET (1..n), t # {}
        PROVE  g[t] = WithRound(g[t \ {Max(t)}], ts[Max(t)])
    <3>1. g[t] = step[Max(t)][g[t \ {Max(t)}]]
      BY <1>4, <2>2 DEF IsFold
    <3>2. QED
      BY <1>2, <2>1, <2>2, <3>1
  <2>3. g[{}] = <<>>
    BY <1>4 DEF IsFold
  <2> HIDE DEF n, step, B
  <2>4. QED
    BY <1>1, <2>1, <2>2, <2>3
<1>6. Eq(f)
  <2> HIDE DEF Eq
  <2>1. QED
    BY <1>5
<1>7. Rounds(ts) = f[DOMAIN ts]
  BY DEF Rounds, FoldLeft, MapThenFoldSet
<1>8. f[{}] = <<>>
  <2> HIDE DEF f
  <2>1. QED
    BY <1>6
<1>9. ASSUME NEW t \in SUBSET (1..n), t # {}, f[t \ {Max(t)}] \in B
      PROVE  f[t] = step[Max(t)][f[t \ {Max(t)}]]
  <2> HIDE DEF f
  <2>1. f[t] = WithRound(f[t \ {Max(t)}], ts[Max(t)])
    BY <1>1, <1>6, <1>9
  <2>2. Max(t) \in 1..n
    BY <1>2, <1>9
  <2>3. QED
    BY <1>9, <2>1, <2>2
<1> HIDE DEF f
<1>10. FoldsWithin(f, B, <<>>, n, step)
  <2> HIDE DEF n, step, B
  <2>1. QED
    BY <1>8, <1>9 DEF FoldsWithin
<1>11. Rounds(ts) = f[1..n]
  BY <1>1, <1>7
<1>12. QED
  BY <1>3, <1>10, <1>11

(* And so is what the events come to. *)
LEMMA HeardFold ==
  ASSUME NEW es \in Seq(EventSet)
  PROVE  LET step == [i \in 1..Len(es) |-> [a \in Seq(Tokens) |-> WithChunk(a, es[i])]]
         IN  /\ step \in [1..Len(es) -> [Seq(Tokens) -> Seq(Tokens)]]
             /\ \E f : FoldsWithin(f, Seq(Tokens), <<>>, Len(es), step) /\ Heard(es) = f[1..Len(es)]
<1> DEFINE n == Len(es)
           B == Seq(Tokens)
           step == [i \in 1..n |-> [a \in B |-> WithChunk(a, es[i])]]
           Eq(h) == h = [t \in SUBSET DOMAIN es |->
                           IF t = {} THEN <<>> ELSE WithChunk(h[t \ {Max(t)}], es[Max(t)])]
           f == CHOOSE h : Eq(h)
<1>1. n \in Nat /\ DOMAIN es = 1..n /\ <<>> \in B
  OBVIOUS
<1>2. \A t \in SUBSET (1..n) : t # {} => Max(t) \in 1..n
  BY <1>1, MaxOfSome
<1>3. step \in [1..n -> [B -> B]]
  <2>1. \A i \in 1..n : es[i] \in EventSet
    OBVIOUS
  <2>2. \A i \in 1..n : \A a \in B : WithChunk(a, es[i]) \in B
    BY <2>1, WithChunkType
  <2>3. QED
    BY <2>2
<1>4. PICK g : IsFold(g, B, <<>>, n, step)
  <2> HIDE DEF n, step, B
  <2>1. QED
    BY <1>1, <1>3, FoldExists
<1>5. Eq(g)
  <2>1. g = [t \in SUBSET (1..n) |-> g[t]] /\ \A t \in SUBSET (1..n) : g[t \ {Max(t)}] \in B
    BY <1>4 DEF IsFold
  <2>2. ASSUME NEW t \in SUBSET (1..n), t # {}
        PROVE  g[t] = WithChunk(g[t \ {Max(t)}], es[Max(t)])
    <3>1. g[t] = step[Max(t)][g[t \ {Max(t)}]]
      BY <1>4, <2>2 DEF IsFold
    <3>2. QED
      BY <1>2, <2>1, <2>2, <3>1
  <2>3. g[{}] = <<>>
    BY <1>4 DEF IsFold
  <2> HIDE DEF n, step, B
  <2>4. QED
    BY <1>1, <2>1, <2>2, <2>3
<1>6. Eq(f)
  <2> HIDE DEF Eq
  <2>1. QED
    BY <1>5
<1>7. Heard(es) = f[DOMAIN es]
  BY DEF Heard, FoldLeft, MapThenFoldSet
<1>8. f[{}] = <<>>
  <2> HIDE DEF f
  <2>1. QED
    BY <1>6
<1>9. ASSUME NEW t \in SUBSET (1..n), t # {}, f[t \ {Max(t)}] \in B
      PROVE  f[t] = step[Max(t)][f[t \ {Max(t)}]]
  <2> HIDE DEF f
  <2>1. f[t] = WithChunk(f[t \ {Max(t)}], es[Max(t)])
    BY <1>1, <1>6, <1>9
  <2>2. Max(t) \in 1..n
    BY <1>2, <1>9
  <2>3. QED
    BY <1>9, <2>1, <2>2
<1> HIDE DEF f
<1>10. FoldsWithin(f, B, <<>>, n, step)
  <2> HIDE DEF n, step, B
  <2>1. QED
    BY <1>8, <1>9 DEF FoldsWithin
<1>11. Heard(es) = f[1..n]
  BY <1>1, <1>7
<1>12. QED
  BY <1>3, <1>10, <1>11

LEMMA RoundsOneMore ==
  ASSUME NEW ts \in Seq(Seq(Tokens)), NEW text \in Seq(Tokens)
  PROVE  Rounds(ts) \in Seq(Tokens) /\ Rounds(Append(ts, text)) = WithRound(Rounds(ts), text)
<1> DEFINE n == Len(ts)
           r == Append(ts, text)
           B == Seq(Tokens)
           step == [i \in 1..n |-> [a \in B |-> WithRound(a, ts[i])]]
           more == [i \in 1..(n + 1) |-> [a \in B |-> WithRound(a, r[i])]]
<1>1. n \in Nat /\ r \in Seq(B) /\ Len(r) = n + 1 /\ r[n + 1] = text /\ \A k \in 1..n : r[k] = ts[k]
  OBVIOUS
<1>2. /\ step \in [1..n -> [B -> B]]
      /\ \E f : FoldsWithin(f, B, <<>>, n, step) /\ Rounds(ts) = f[1..n]
  BY RoundsFold
<1>3. /\ more \in [1..(n + 1) -> [B -> B]]
      /\ \E g : FoldsWithin(g, B, <<>>, n + 1, more) /\ Rounds(r) = g[1..(n + 1)]
  <2> DEFINE m == Len(r)
             all == [i \in 1..m |-> [a \in B |-> WithRound(a, r[i])]]
  <2>1. all \in [1..m -> [B -> B]] /\ \E g : FoldsWithin(g, B, <<>>, m, all) /\ Rounds(r) = g[1..m]
    <3> HIDE DEF r
    <3>1. QED
      BY <1>1, RoundsFold
  <2>2. m = n + 1
    BY <1>1
  <2> HIDE DEF r, n, m
  <2>3. QED
    BY <2>1, <2>2
<1>4. \A k \in 1..n : k \in 1..(n + 1) /\ more[k] = step[k]
  <2> HIDE DEF r
  <2>1. \A k \in 1..n : k \in 1..(n + 1)
    BY <1>1
  <2>2. QED
    BY <1>1, <2>1
<1>5. more[n + 1] = [a \in B |-> WithRound(a, text)]
  <2> HIDE DEF r
  <2>1. n + 1 \in 1..(n + 1)
    BY <1>1
  <2>2. QED
    BY <1>1, <2>1
<1>6. <<>> \in B
  OBVIOUS
<1> HIDE DEF n, r, B, step, more
<1>7. PICK f : FoldsWithin(f, B, <<>>, n, step) /\ Rounds(ts) = f[1..n]
  BY <1>2
<1>8. PICK g : FoldsWithin(g, B, <<>>, n + 1, more) /\ Rounds(r) = g[1..(n + 1)]
  BY <1>3
<1>9. f[1..n] \in B /\ g[1..(n + 1)] = more[n + 1][f[1..n]]
  <2>1. Prolongs(more, step, B, n)
    BY <1>2, <1>3, <1>4 DEF Prolongs
  <2>2. QED
    BY <1>1, <1>6, <1>7, <1>8, <2>1, FoldOneMore
<1>10. more[n + 1][f[1..n]] = WithRound(f[1..n], text)
  BY <1>5, <1>9
<1>11. QED
  BY <1>7, <1>8, <1>9, <1>10 DEF r, B

LEMMA HeardOneMore ==
  ASSUME NEW es \in Seq(EventSet), NEW e \in EventSet
  PROVE  Heard(es) \in Seq(Tokens) /\ Heard(Append(es, e)) = WithChunk(Heard(es), e)
<1> DEFINE n == Len(es)
           r == Append(es, e)
           B == Seq(Tokens)
           step == [i \in 1..n |-> [a \in B |-> WithChunk(a, es[i])]]
           more == [i \in 1..(n + 1) |-> [a \in B |-> WithChunk(a, r[i])]]
<1>1. n \in Nat /\ r \in Seq(EventSet) /\ Len(r) = n + 1 /\ r[n + 1] = e /\ \A k \in 1..n : r[k] = es[k]
  OBVIOUS
<1>2. /\ step \in [1..n -> [B -> B]]
      /\ \E f : FoldsWithin(f, B, <<>>, n, step) /\ Heard(es) = f[1..n]
  BY HeardFold
<1>3. /\ more \in [1..(n + 1) -> [B -> B]]
      /\ \E g : FoldsWithin(g, B, <<>>, n + 1, more) /\ Heard(r) = g[1..(n + 1)]
  <2> DEFINE m == Len(r)
             all == [i \in 1..m |-> [a \in B |-> WithChunk(a, r[i])]]
  <2>1. all \in [1..m -> [B -> B]] /\ \E g : FoldsWithin(g, B, <<>>, m, all) /\ Heard(r) = g[1..m]
    <3> HIDE DEF r
    <3>1. QED
      BY <1>1, HeardFold
  <2>2. m = n + 1
    BY <1>1
  <2> HIDE DEF r, n, m
  <2>3. QED
    BY <2>1, <2>2
<1>4. \A k \in 1..n : k \in 1..(n + 1) /\ more[k] = step[k]
  <2> HIDE DEF r
  <2>1. \A k \in 1..n : k \in 1..(n + 1)
    BY <1>1
  <2>2. QED
    BY <1>1, <2>1
<1>5. more[n + 1] = [a \in B |-> WithChunk(a, e)]
  <2> HIDE DEF r
  <2>1. n + 1 \in 1..(n + 1)
    BY <1>1
  <2>2. QED
    BY <1>1, <2>1
<1>6. <<>> \in B
  OBVIOUS
<1> HIDE DEF n, r, B, step, more
<1>7. PICK f : FoldsWithin(f, B, <<>>, n, step) /\ Heard(es) = f[1..n]
  BY <1>2
<1>8. PICK g : FoldsWithin(g, B, <<>>, n + 1, more) /\ Heard(r) = g[1..(n + 1)]
  BY <1>3
<1>9. f[1..n] \in B /\ g[1..(n + 1)] = more[n + 1][f[1..n]]
  <2>1. Prolongs(more, step, B, n)
    BY <1>2, <1>3, <1>4 DEF Prolongs
  <2>2. QED
    BY <1>1, <1>6, <1>7, <1>8, <2>1, FoldOneMore
<1>10. more[n + 1][f[1..n]] = WithChunk(f[1..n], e)
  BY <1>5, <1>9
<1>11. QED
  BY <1>7, <1>8, <1>9, <1>10 DEF r, B

(* Before a round or an event there is no text.                            *)
LEMMA NothingYet == Rounds(<<>>) = <<>> /\ Heard(<<>>) = <<>>
<1>1. <<>> \in Seq(Seq(Tokens)) /\ <<>> \in Seq(EventSet) /\ Len(<<>>) = 0 /\ 1..0 = {}
  OBVIOUS
<1>2. Rounds(<<>>) = <<>>
  <2> DEFINE ts == <<>>
  <2>1. ts \in Seq(Seq(Tokens)) /\ 1..Len(ts) = {}
    BY <1>1
  <2> HIDE DEF ts
  <2>2. QED
    BY <2>1, RoundsFold DEF FoldsWithin, ts
<1>3. Heard(<<>>) = <<>>
  <2> DEFINE es == <<>>
  <2>1. es \in Seq(EventSet) /\ 1..Len(es) = {}
    BY <1>1
  <2> HIDE DEF es
  <2>2. QED
    BY <2>1, HeardFold DEF FoldsWithin, es
<1>4. QED
  BY <1>2, <1>3

(* The events so far and the first k of a batch.                           *)
Part(es, batch, k) == es \o SubSeq(batch, 1, k)

LEMMA PartGrows ==
  ASSUME NEW A, NEW es \in Seq(A), NEW batch \in Seq(A)
  PROVE  /\ Part(es, batch, 0) = es /\ Part(es, batch, Len(batch)) = es \o batch
         /\ \A k \in 0..Len(batch) : Part(es, batch, k) \in Seq(A)
         /\ \A k \in 0..Len(batch) : k < Len(batch) => Part(es, batch, k + 1) = Append(Part(es, batch, k), batch[k + 1])
<1>1. SubSeq(batch, 1, 0) = <<>> /\ SubSeq(batch, 1, Len(batch)) = batch /\ Len(batch) \in Nat
  OBVIOUS
<1>2. es \o <<>> = es
  OBVIOUS
<1>3. ASSUME NEW k \in 0..Len(batch) PROVE SubSeq(batch, 1, k) \in Seq(A)
  OBVIOUS
<1>4. ASSUME NEW k \in 0..Len(batch), k < Len(batch)
      PROVE  Part(es, batch, k + 1) = Append(Part(es, batch, k), batch[k + 1])
  <2> DEFINE p == SubSeq(batch, 1, k)
             e == batch[k + 1]
  <2>1. p \in Seq(A) /\ e \in A
    BY <1>4
  <2>2. SubSeq(batch, 1, k + 1) = Append(p, e)
    BY <1>4
  <2> HIDE DEF p, e
  <2>3. es \o Append(p, e) = Append(es \o p, e)
    BY <2>1
  <2>4. QED
    BY <2>2, <2>3 DEF Part, p, e
<1>5. \A k \in 0..Len(batch) : Part(es, batch, k) \in Seq(A)
  BY <1>3 DEF Part
<1>6. Part(es, batch, 0) = es /\ Part(es, batch, Len(batch)) = es \o batch
  BY <1>1, <1>2 DEF Part
<1>7. QED
  BY <1>4, <1>5, <1>6

LEMMA PartNext ==
  ASSUME NEW A, NEW es \in Seq(A), NEW batch \in Seq(A), NEW k \in 0..Len(batch), k < Len(batch)
  PROVE  /\ Part(es, batch, k) \in Seq(A)
         /\ Part(es, batch, k + 1) = Append(Part(es, batch, k), batch[k + 1])
BY PartGrows

(* Events that carry no text leave what was heard as it is.                *)
LEMMA HeardSilent ==
  ASSUME NEW es \in Seq(EventSet), NEW batch \in Seq(EventSet), NEW n \in 0..Len(batch),
         \A i \in 1..Len(batch) : batch[i].type # "answer_chunk"
  PROVE  Heard(Part(es, batch, n)) = Heard(es)
<1> DEFINE P(k) == k <= n => Heard(Part(es, batch, k)) = Heard(es)
           S == {k \in Nat : P(k)}
<1>1. P(0)
  BY PartGrows
<1>2. ASSUME NEW k \in Nat, P(k) PROVE P(k + 1)
  <2>1. SUFFICES ASSUME k + 1 <= n PROVE Heard(Part(es, batch, k + 1)) = Heard(es)
    OBVIOUS
  <2>2. k \in 0..Len(batch) /\ k < Len(batch) /\ k + 1 \in 1..Len(batch) /\ k <= n
    BY <2>1
  <2>3. batch[k + 1] \in EventSet /\ batch[k + 1].type # "answer_chunk"
    BY <2>2
  <2>4. Part(es, batch, k) \in Seq(EventSet) /\ Part(es, batch, k + 1) = Append(Part(es, batch, k), batch[k + 1])
    BY <2>2, PartNext
  <2>5. Heard(Part(es, batch, k + 1)) = WithChunk(Heard(Part(es, batch, k)), batch[k + 1])
    BY <2>3, <2>4, HeardOneMore
  <2>6. QED
    BY <1>2, <2>2, <2>3, <2>5 DEF WithChunk
<1>3. 0 \in S /\ \A k \in S : k + 1 \in S
  BY <1>1, <1>2
<1>4. n \in S
  <2>1. S \in SUBSET Nat /\ n \in Nat
    OBVIOUS
  <2> HIDE DEF S
  <2>2. QED
    BY <1>3, <2>1, NumbersByInduction
<1>5. n <= n
  OBVIOUS
<1>6. QED
  BY <1>4, <1>5

(* The tokens of a text, one event each, are heard as that text.           *)
LEMMA HeardTokens ==
  ASSUME NEW es \in Seq(EventSet), NEW batch \in Seq(EventSet), NEW said \in Seq(Tokens), Len(batch) = Len(said),
         \A i \in 1..Len(batch) : batch[i].type = "answer_chunk" /\ batch[i].text = <<said[i]>>
  PROVE  Heard(es \o batch) = Heard(es) \o said
<1> DEFINE n == Len(batch)
           P(k) == k <= n => Heard(Part(es, batch, k)) = Part(Heard(es), said, k)
           S == {k \in Nat : P(k)}
<1>a. Heard(es) \in Seq(Tokens) /\ n \in Nat /\ n = Len(said)
  <2>1. Event("done", "none") \in EventSet
    BY EventType DEF EventTypes, Names
  <2>2. QED
    BY <2>1, HeardOneMore
<1>1. P(0)
  BY <1>a, PartGrows
<1>2. ASSUME NEW k \in Nat, P(k) PROVE P(k + 1)
  <2>1. SUFFICES ASSUME k + 1 <= n PROVE Heard(Part(es, batch, k + 1)) = Part(Heard(es), said, k + 1)
    OBVIOUS
  <2>2. k \in 0..Len(batch) /\ k < Len(batch) /\ k + 1 \in 1..Len(batch) /\ k <= n
    BY <2>1
  <2>3. batch[k + 1] \in EventSet /\ batch[k + 1].type = "answer_chunk" /\ batch[k + 1].text = <<said[k + 1]>>
    BY <2>2
  <2>4. Part(es, batch, k) \in Seq(EventSet) /\ Part(es, batch, k + 1) = Append(Part(es, batch, k), batch[k + 1])
    BY <2>2, PartNext
  <2>5. Heard(Part(es, batch, k + 1)) = WithChunk(Heard(Part(es, batch, k)), batch[k + 1])
    BY <2>3, <2>4, HeardOneMore
  <2>6. Heard(Part(es, batch, k + 1)) = Part(Heard(es), said, k) \o <<said[k + 1]>>
    BY <1>2, <2>2, <2>3, <2>5 DEF WithChunk
  <2>7. k \in 0..Len(said) /\ k < Len(said) /\ said[k + 1] \in Tokens
    BY <1>a, <2>2
  <2>b. PICK h \in Seq(Tokens) : h = Heard(es)
    BY <1>a
  <2>c. Part(h, said, k) \in Seq(Tokens) /\ Part(h, said, k + 1) = Append(Part(h, said, k), said[k + 1])
    BY <2>7, PartNext
  <2>8. /\ Part(Heard(es), said, k) \in Seq(Tokens)
        /\ Part(Heard(es), said, k + 1) = Append(Part(Heard(es), said, k), said[k + 1])
    BY <2>b, <2>c
  <2>9. Part(Heard(es), said, k) \o <<said[k + 1]>> = Append(Part(Heard(es), said, k), said[k + 1])
    BY <2>7, <2>8
  <2>10. QED
    BY <2>6, <2>8, <2>9
<1>3. 0 \in S /\ \A k \in S : k + 1 \in S
  BY <1>1, <1>2
<1>4. n \in S
  <2>1. S \in SUBSET Nat /\ n \in Nat
    BY <1>a
  <2> HIDE DEF S
  <2>2. QED
    BY <1>3, <2>1, NumbersByInduction
<1>5. n <= n
  BY <1>a
<1>6. Heard(Part(es, batch, Len(batch))) = Part(Heard(es), said, Len(said))
  BY <1>4, <1>5, <1>a
<1>7. QED
  BY <1>6, <1>a, PartGrows

(* The citations a stream has emitted of tools other than the retrieval.   *)
Cited == {i \in Events("citation") : events[i].tool # RetrieveTool}

(* The text the caller has is that of the answer so far, and the citations *)
(* those the web search has found: as long as nothing has failed, and then *)
(* again if the turn was stored or the stream is done.                     *)
Told ==
  /\ runner = "native" => answer = Joined
  /\ runner # "native" /\ stage = "runner" /\ rpc # "returned" => answer = <<>>
  /\ Streaming /\ (err = "none" \/ memorized) => Delivered = answer
  /\ Streaming /\ (err = "none" \/ Ended("done")) => Cardinality(Cited) = web.found /\ web.emitted = web.found

(* Events without text leave what the caller has as it is.                 *)
LEMMA HandsSilent ==
  ASSUME events \in Seq(EventSet), NEW batch \in Seq(EventSet), NEW sent \in 0..Len(batch), Hand(batch, sent),
         \A i \in 1..Len(batch) : batch[i].type # "answer_chunk"
  PROVE  Delivered' = Delivered
<1> DEFINE n == IF sent = Len(batch) THEN sent ELSE sent + 1
<1>1. n \in 0..Len(batch) /\ events' = Part(events, batch, n)
  BY DEF Hand, Part
<1> HIDE DEF n
<1>2. Heard(Part(events, batch, n)) = Heard(events)
  BY <1>1, HeardSilent
<1>3. QED
  BY <1>1, <1>2 DEF Delivered, Heard

(* Events that cite nothing but the retrieval leave the other citations.   *)
LEMMA HandsUncited ==
  ASSUME events \in Seq(EventSet), NEW batch \in Seq(EventSet), NEW sent \in 0..Len(batch), Hand(batch, sent),
         \A i \in 1..Len(batch) : batch[i].type = "citation" => batch[i].tool = RetrieveTool
  PROVE  Cited' = Cited
<1>1. PICK n \in 0..Len(batch) :
        /\ events' \in Seq(EventSet)
        /\ Len(events') = Len(events) + n
        /\ \A i \in 1..Len(events) : events'[i] = events[i]
        /\ \A i \in 1..n : events'[Len(events) + i] = batch[i]
  BY HandEffect
<1>a. /\ DOMAIN events = 1..Len(events) /\ DOMAIN events' = 1..Len(events')
      /\ Len(events) \in Nat /\ Len(batch) \in Nat
  BY <1>1
<1>2. ASSUME NEW i \in DOMAIN events', events'[i].type = "citation", events'[i].tool # RetrieveTool
      PROVE  i \in DOMAIN events /\ events[i] = events'[i]
  <2>1. CASE i \in 1..Len(events)
    BY <1>1, <1>a, <2>1
  <2>2. CASE i \notin 1..Len(events)
    <3>1. i - Len(events) \in 1..n /\ i = Len(events) + (i - Len(events))
      BY <1>1, <1>a, <2>2
    <3>2. events'[i] = batch[i - Len(events)]
      BY <1>1, <3>1
    <3>3. i - Len(events) \in 1..Len(batch)
      BY <1>a, <3>1
    <3>4. QED
      BY <1>2, <3>2, <3>3
  <2>3. QED
    BY <2>1, <2>2
<1>3. ASSUME NEW i \in DOMAIN events
      PROVE  i \in DOMAIN events' /\ events'[i] = events[i]
  BY <1>1, <1>a
<1>4. QED
  BY <1>2, <1>3 DEF Cited, Events

(* A batch of m citations after one other event, all accepted, cites m     *)
(* times more.                                                             *)
LEMMA HandsCited ==
  ASSUME events \in Seq(EventSet), NEW batch \in Seq(EventSet), Hand(batch, Len(batch)),
         NEW m \in Nat, Len(batch) = m + 1, batch[1].type # "citation",
         \A i \in 2..(m + 1) : batch[i].type = "citation" /\ batch[i].tool # RetrieveTool
  PROVE  Cardinality(Cited') = Cardinality(Cited) + m
<1> DEFINE k == Len(events)
           new == (k + 2)..(k + m + 1)
<1>0. Len(batch) \in 0..Len(batch)
  OBVIOUS
<1>1. /\ events' \in Seq(EventSet) /\ Len(events') = k + m + 1
      /\ \A i \in 1..k : events'[i] = events[i]
      /\ \A i \in 1..(m + 1) : events'[k + i] = batch[i]
  <2>1. PICK n \in 0..Len(batch) :
          /\ n = (IF Len(batch) = Len(batch) THEN Len(batch) ELSE Len(batch) + 1)
          /\ events' \in Seq(EventSet)
          /\ Len(events') = Len(events) + n
          /\ \A i \in 1..Len(events) : events'[i] = events[i]
          /\ \A i \in 1..n : events'[Len(events) + i] = batch[i]
    BY <1>0, HandEffect
  <2>2. QED
    BY <2>1
<1>2. k \in Nat /\ DOMAIN events = 1..k /\ DOMAIN events' = 1..(k + m + 1)
  BY <1>1
<1> HIDE DEF k
<1>3. ASSUME NEW i \in 1..k PROVE i \in 1..(k + m + 1) /\ i \notin new /\ events'[i] = events[i]
  BY <1>1, <1>2
<1>4. ASSUME NEW i \in new
      PROVE  i \in 1..(k + m + 1) /\ events'[i].type = "citation" /\ events'[i].tool # RetrieveTool
  <2>1. i - k \in 2..(m + 1) /\ i - k \in 1..(m + 1) /\ i = k + (i - k) /\ i \in 1..(k + m + 1)
    BY <1>2
  <2>2. events'[i] = batch[i - k]
    BY <1>1, <2>1
  <2>3. QED
    BY <2>1, <2>2
<1>5. ASSUME NEW i \in 1..(k + m + 1), i \notin 1..k, i \notin new PROVE events'[i].type # "citation"
  <2>1. i = k + 1 /\ 1 \in 1..(m + 1)
    BY <1>2, <1>5
  <2>2. events'[i] = batch[1]
    BY <1>1, <2>1
  <2>3. QED
    BY <2>2
<1>6. new \cap Cited = {} /\ Cited \subseteq 1..k
  BY <1>2, <1>3 DEF Cited, Events
<1>7. Cited' = Cited \cup new
  <2> HIDE DEF new
  <2>1. QED
    BY <1>2, <1>3, <1>4, <1>5 DEF Cited, Events
<1>8. IsFiniteSet(new) /\ Cardinality(new) = m
  <2> DEFINE a == k + 2
             b == k + m + 1
  <2>1. a \in Int /\ b \in Int /\ (IF a > b THEN 0 ELSE b - a + 1) = m
    BY <1>2
  <2> HIDE DEF a, b
  <2>2. IsFiniteSet(a..b) /\ Cardinality(a..b) = IF a > b THEN 0 ELSE b - a + 1
    BY <2>1, FS_Interval
  <2>3. QED
    BY <2>1, <2>2 DEF a, b
<1>9. IsFiniteSet(Cited)
  <2>1. 1 \in Int /\ k \in Int
    BY <1>2
  <2>2. IsFiniteSet(1..k)
    BY <2>1, FS_Interval
  <2>3. QED
    BY <1>6, <2>2, FS_Subset
<1> HIDE DEF new
<1>10. Cardinality(Cited \cup new) = Cardinality(Cited) + Cardinality(new) - Cardinality(Cited \cap new)
  BY <1>8, <1>9, FS_Union
<1>11. Cardinality(Cited \cap new) = 0
  <2>1. Cited \cap new = {}
    BY <1>6
  <2>2. QED
    BY <2>1, FS_EmptySet
<1>12. Cardinality(Cited) \in Nat
  BY <1>9, FS_CardinalityType
<1>13. QED
  BY <1>7, <1>8, <1>10, <1>11, <1>12

(* Only the end of a web search cites, as often as there are new results.  *)
LEMMA EndBatchCites ==
  ASSUME Types, NEW name \in Names, NEW found \in Nat, web.emitted <= found
  PROVE  /\ name # "search_web" =>
              \A i \in 1..Len(EndBatch(name, found)) : EndBatch(name, found)[i].type # "citation"
         /\ name = "search_web" /\ Streaming =>
              /\ Len(EndBatch(name, found)) = (found - web.emitted) + 1
              /\ EndBatch(name, found)[1].type # "citation"
              /\ \A i \in 2..Len(EndBatch(name, found)) :
                   EndBatch(name, found)[i].type = "citation" /\ EndBatch(name, found)[i].tool # RetrieveTool
<1>1. CASE name # "search_web"
  <2>1. EndBatch(name, found) = <<>> \/ EndBatch(name, found) = <<Event("tool_end", name)>> \o <<>>
    BY <1>1 DEF EndBatch
  <2>2. <<Event("tool_end", name)>> \o <<>> = <<Event("tool_end", name)>> /\ Event("tool_end", name).type = "tool_end"
    BY DEF Event
  <2>3. QED
    BY <1>1, <2>1, <2>2
<1>2. CASE name = "search_web" /\ Streaming
  <2> DEFINE m == found - web.emitted
             rest == [i \in 1..m |-> Event("citation", name)]
             first == <<Event("tool_end", name)>>
  <2>1. m \in Nat
    BY DEF Types
  <2>2. EndBatch(name, found) = first \o rest
    BY <1>2 DEF EndBatch, Emits, RetrieveTool
  <2>3. Event("citation", name) \in EventSet /\ Event("tool_end", name) \in EventSet
    BY EventType DEF EventTypes
  <2>4. /\ Event("citation", name).type = "citation" /\ Event("citation", name).tool = name
        /\ Event("tool_end", name).type = "tool_end" /\ name # RetrieveTool
    BY <1>2 DEF Event, RetrieveTool
  <2> HIDE DEF m
  <2>5. rest \in Seq(EventSet) /\ Len(rest) = m /\ first \in Seq(EventSet) /\ Len(first) = 1 /\ first[1] = Event("tool_end", name)
    BY <2>1, <2>3
  <2>6. \A i \in 1..m : rest[i] = Event("citation", name)
    OBVIOUS
  <2> HIDE DEF rest, first
  <2>7. /\ Len(first \o rest) = m + 1 /\ (first \o rest)[1] = Event("tool_end", name)
        /\ \A i \in 2..(m + 1) : (first \o rest)[i] = rest[i - 1]
    <3> DEFINE e == Event("tool_end", name)
    <3>1. first = <<e>> /\ e \in EventSet
      BY <2>3 DEF first
    <3> HIDE DEF e
    <3>2. /\ Len(<<e>> \o rest) = 1 + Len(rest) /\ (<<e>> \o rest)[1] = e
          /\ \A i \in 2..(1 + Len(rest)) : (<<e>> \o rest)[i] = rest[i - 1]
      BY <2>5, <3>1
    <3>3. 1 + Len(rest) = m + 1
      BY <2>1, <2>5
    <3>4. QED
      BY <3>1, <3>2, <3>3 DEF e
  <2>8. \A i \in 2..(m + 1) : i - 1 \in 1..m
    BY <2>1
  <2>9. \A i \in 2..(m + 1) : (first \o rest)[i] = Event("citation", name)
    BY <2>6, <2>7, <2>8
  <2>10. QED
    BY <1>2, <2>2, <2>4, <2>7, <2>9 DEF m
<1>3. QED
  BY <1>1, <1>2

(* The end of a tool leaves the text; if it is reported, or has found      *)
(* nothing new, every citation found has been emitted.                     *)
LEMMA EndsSilent ==
  ASSUME Types, NEW name \in Names, NEW found \in Nat, web.emitted <= found,
         NEW r \in Reports(EndBatch(name, found)), Observe(EndBatch(name, found), r)
  PROVE  Delivered' = Delivered
<1> DEFINE batch == EndBatch(name, found)
<1>1. batch \in Seq(EventSet) /\ \A i \in 1..Len(batch) : batch[i].type # "answer_chunk"
  BY EndBatchType
<1>2. events \in Seq(EventSet) /\ r \in Reports(batch) /\ Observe(batch, r)
  BY DEF Types
<1> HIDE DEF batch
<1>3. r.sent \in 0..Len(batch) /\ Hand(batch, r.sent)
  BY <1>1, <1>2, ReportType
<1>4. QED
  BY <1>1, <1>2, <1>3, HandsSilent

LEMMA EndsCited ==
  ASSUME Types, Streaming, Cardinality(Cited) = web.found, web.emitted = web.found,
         NEW name \in Names, NEW found \in Nat, web.found <= found, name # "search_web" => found = web.found,
         NEW r \in Reports(EndBatch(name, found)), Observe(EndBatch(name, found), r),
         ReportError(EndBatch(name, found), r) = "none" \/ found = web.found,
         web' = Drained(name, found, r)
  PROVE  Cardinality(Cited') = web'.found /\ web'.emitted = web'.found
<1> DEFINE batch == EndBatch(name, found)
           m == found - web.emitted
<1>a. web.found \in Nat /\ web.emitted <= found
  BY DEF Types
<1>1. /\ batch \in Seq(EventSet)
      /\ name # "search_web" => \A i \in 1..Len(batch) : batch[i].type # "citation"
      /\ name = "search_web" =>
           /\ Len(batch) = m + 1 /\ batch[1].type # "citation"
           /\ \A i \in 2..Len(batch) : batch[i].type = "citation" /\ batch[i].tool # RetrieveTool
  BY <1>a, EndBatchType, EndBatchCites
<1>2. events \in Seq(EventSet) /\ r \in Reports(batch) /\ Observe(batch, r)
  BY DEF Types
<1>3. r.sent \in 0..Len(batch) /\ Hand(batch, r.sent)
  <2> HIDE DEF batch
  <2>1. QED
    BY <1>1, <1>2, ReportType
<1>4. web'.found = found /\ web'.emitted = IF name = "search_web" /\ r.sent > 0 THEN found ELSE web.emitted
  BY DEF Drained
<1>5. CASE found = web.found
  <2>1. m = 0
    BY <1>a, <1>5
  <2>2. \A i \in 1..Len(batch) : batch[i].type = "citation" => batch[i].tool = RetrieveTool
    <3> HIDE DEF batch, m
    <3>1. CASE name # "search_web"
      BY <1>1, <3>1
    <3>2. CASE name = "search_web"
      <4>1. Len(batch) = 1 /\ batch[1].type # "citation"
        BY <1>1, <2>1, <3>2
      <4>2. QED
        BY <4>1
    <3>3. QED
      BY <3>1, <3>2
  <2> HIDE DEF batch
  <2>3. Cited' = Cited
    BY <1>1, <1>2, <1>3, <2>2, HandsUncited
  <2>4. QED
    BY <1>4, <1>5, <2>3
<1>6. CASE found # web.found
  <2>1. name = "search_web" /\ m \in Nat /\ ReportError(batch, r) = "none"
    BY <1>a, <1>6
  <2> HIDE DEF batch
  <2>2. r.sent = Len(batch) /\ Len(batch) \in Nat
    BY <1>1, <1>3, <2>1 DEF ReportError
  <2>3. Hand(batch, Len(batch)) /\ Len(batch) = m + 1 /\ r.sent > 0
    BY <1>1, <1>3, <2>1, <2>2
  <2> HIDE DEF m
  <2>4. \A i \in 2..(m + 1) : batch[i].type = "citation" /\ batch[i].tool # RetrieveTool
    BY <1>1, <2>1, <2>3
  <2>5. Cardinality(Cited') = Cardinality(Cited) + m
    BY <1>1, <1>2, <2>1, <2>3, <2>4, HandsCited
  <2>6. Cardinality(Cited) + m = found
    BY <1>a DEF m
  <2>7. QED
    BY <1>4, <2>1, <2>3, <2>5, <2>6
<1>7. QED
  BY <1>5, <1>6

(* The chunks of a text cite nothing. *)
LEMMA ChunksUncited ==
  ASSUME Types, NEW text \in Text, NEW sent \in 0..Len(ChunkEvents(Said(text))), Hand(ChunkEvents(Said(text)), sent)
  PROVE  Cited' = Cited
<1> DEFINE batch == ChunkEvents(Said(text))
<1>1. batch \in Seq(EventSet) /\ \A i \in 1..Len(batch) : batch[i].type = "answer_chunk"
  BY TextType, SaidType, ChunkType
<1>2. events \in Seq(EventSet) /\ sent \in 0..Len(batch) /\ Hand(batch, sent)
  BY DEF Types
<1> HIDE DEF batch
<1>3. \A i \in 1..Len(batch) : batch[i].type = "citation" => batch[i].tool = RetrieveTool
  BY <1>1
<1>4. QED
  BY <1>1, <1>2, <1>3, HandsUncited

(* A reply that was streamed without an error is heard as what it says; an *)
(* envelope's blank answer is not heard at all.                            *)
LEMMA StreamHeard ==
  ASSUME Types, Streaming, NEW text \in Text, NEW p, Stream(text, p), err = "none", err' = "none"
  PROVE  /\ runner # "envelope" => Delivered' = Delivered \o Said(text)
         /\ runner = "envelope" => Delivered' = IF Contains(text, "w") THEN Delivered \o text ELSE Delivered
<1> DEFINE said == Said(text)
           batch == ChunkEvents(said)
<1>1. text \in Seq(Tokens) /\ said \in Seq(Tokens) /\ events \in Seq(EventSet)
  BY TextType, SaidType DEF Types
<1>2. batch \in Seq(EventSet)
  <2> HIDE DEF said
  <2>1. QED
    BY <1>1, ChunkType
<1>3. events' = events \o batch
  <2>1. PICK sent \in 0..Len(batch) :
          Hand(batch, sent) /\ GoOnUnless(IF sent < Len(batch) THEN "chunk" ELSE "none", p)
    BY DEF Stream
  <2> HIDE DEF batch
  <2>2. sent = Len(batch)
    BY <1>2, <2>1 DEF GoOnUnless, RunnerReturns
  <2>3. SubSeq(batch, 1, Len(batch)) = batch
    BY <1>2
  <2>4. QED
    BY <2>1, <2>2, <2>3 DEF Hand
<1>4. Delivered' = Heard(events \o batch) /\ Delivered = Heard(events)
  BY <1>3 DEF Delivered, Heard
<1>5. CASE runner # "envelope"
  <2>1. batch = [i \in DOMAIN said |-> ChunkEvent(<<said[i]>>)]
    BY <1>5 DEF ChunkEvents
  <2> HIDE DEF said, batch
  <2>2. DOMAIN said = 1..Len(said) /\ Len(said) \in Nat /\ DOMAIN batch = 1..Len(batch) /\ Len(batch) \in Nat
    BY <1>1, <1>2
  <2>3. Len(batch) = Len(said)
    BY <2>1, <2>2
  <2>4. \A i \in 1..Len(batch) : batch[i] = ChunkEvent(<<said[i]>>)
    BY <2>1, <2>2, <2>3
  <2>5. \A i \in 1..Len(batch) : batch[i].type = "answer_chunk" /\ batch[i].text = <<said[i]>>
    <3>1. \A t : ChunkEvent(t).type = "answer_chunk" /\ ChunkEvent(t).text = t
      BY DEF ChunkEvent
    <3>2. QED
      BY <2>4, <3>1
  <2>6. Heard(events \o batch) = Heard(events) \o said
    BY <1>1, <1>2, <2>3, <2>5, HeardTokens
  <2>7. QED
    BY <1>4, <1>5, <2>6 DEF said
<1>6. CASE runner = "envelope"
  <2>1. said = text
    BY <1>6 DEF Said
  <2>2. batch = IF Contains(text, "w") THEN <<ChunkEvent(text)>> ELSE <<>>
    BY <1>6, <2>1 DEF ChunkEvents
  <2>3. CASE Contains(text, "w")
    <3> DEFINE e == ChunkEvent(text)
    <3>1. e \in EventSet /\ e.type = "answer_chunk" /\ e.text = text
      BY <1>1 DEF ChunkEvent, EventSet
    <3> HIDE DEF e
    <3>2. events \o <<e>> = Append(events, e)
      BY <1>1, <3>1
    <3>3. Heard(Append(events, e)) = WithChunk(Heard(events), e)
      BY <1>1, <3>1, HeardOneMore
    <3>4. batch = <<e>>
      BY <2>2, <2>3 DEF e
    <3> HIDE DEF batch
    <3>5. QED
      BY <1>4, <1>6, <2>3, <3>1, <3>2, <3>3, <3>4 DEF WithChunk
  <2>4. CASE ~Contains(text, "w")
    <3>1. events \o <<>> = events /\ batch = <<>>
      BY <1>1, <2>2, <2>4
    <3> HIDE DEF batch
    <3>2. QED
      BY <1>4, <1>6, <2>4, <3>1
  <2>5. QED
    BY <2>3, <2>4
<1>7. QED
  BY <1>5, <1>6

(* The native loop appends a round to the answer as Joined does.           *)
LEMMA RoundJoined ==
  ASSUME Types, runner = "native", answer = Joined, NEW text \in Text,
         answer' = answer \o Said(text), texts' = Append(texts, text)
  PROVE  answer' = Joined'
<1>1. text \in Seq(Tokens) /\ answer \in Seq(Tokens) /\ texts \in Seq(Seq(Tokens))
  BY TextType DEF Types
<1>2. Joined = Rounds(texts) /\ Joined' = Rounds(Append(texts, text))
  BY DEF Joined, Rounds
<1>3. Rounds(Append(texts, text)) = WithRound(Rounds(texts), text)
  BY <1>1, RoundsOneMore
<1>4. Said(text) = Separator(text) \o text
  BY DEF Said
<1>5. NewLine(answer, text) = Separator(text)
  BY DEF NewLine, Separator
<1>6. WithRound(answer, text) = answer \o (NewLine(answer, text) \o text)
  BY DEF WithRound
<1>7. QED
  BY <1>2, <1>3, <1>4, <1>5, <1>6

(* A runner's step keeps Told if what it does to the text, the answer and  *)
(* the citations agrees, as long as nothing fails.                         *)
LEMMA RunnerTold ==
  ASSUME Types, InRunner, Outcome, RunRunner, Told
  PROVE  Told'
<1>a. stage = "runner" /\ stage' = stage /\ memorized' = memorized /\ ~memorized /\ ~Ended("done")
  BY DEF RunRunner, pipelineVars, Outcome, Undecided
<1>b. ~Ended("done")'
  BY <1>a, RunnerEndsNothing DEF Ended
<1>c. mode' = mode /\ runner' = runner
  BY DEF RunRunner, RunnerStep, EnterRunner, ChatPrompt, ChatToolStart, ChatToolsEnd, ChatToolEnd, ChatGenerate,
     ModelFails, EnvelopeAnswer, NativeRound, EnvelopeCall, LoopEnds, TakeCall, CallNameless, CallRejected,
     CallStart, CallEnd
<1>d. rpc \notin {"idle", "returned"}
  BY DEF RunRunner, RunnerStep, EnterRunner, ChatPrompt, ChatToolStart, ChatToolsEnd, ChatToolEnd, ChatGenerate,
     ModelFails, EnvelopeAnswer, NativeRound, EnvelopeCall, LoopEnds, TakeCall, CallNameless, CallRejected,
     CallStart, CallEnd, CallsModel
<1>e. err = "none"
  BY <1>d DEF InRunner
<1>f. /\ runner = "native" => answer = Joined
      /\ runner # "native" => answer = <<>>
      /\ Streaming => Delivered = answer /\ Cardinality(Cited) = web.found /\ web.emitted = web.found
  BY <1>a, <1>d, <1>e DEF Told
<1>g. /\ events \in Seq(EventSet) /\ loop \in Loop /\ loop.tool \in Names /\ loop.next \in Nat \ {0}
      /\ web.found \in Nat /\ web.emitted <= web.found /\ Len(FallbackTools) \in Nat /\ answer \in Seq(Tokens)
  BY RunnersAssumption DEF Types, Loop
<1>h. \A i \in 1..Len(FallbackTools) : FallbackTools[i] \in Names
  BY RegisteredNames
<1>i. ASSUME runner = "native" => answer' = Joined', runner # "native" /\ rpc' # "returned" => answer' = <<>>,
             Streaming /\ err' = "none" => Delivered' = answer',
             Streaming /\ err' = "none" => Cardinality(Cited') = web'.found /\ web'.emitted = web'.found
      PROVE  Told'
  BY <1>a, <1>b, <1>c, <1>i DEF Told, Streaming
(* Steps that leave the answer. *)
<1>j. ASSUME UNCHANGED <<texts, answer>>, Delivered' = Delivered,
             Streaming /\ err' = "none" => Cardinality(Cited') = web'.found /\ web'.emitted = web'.found
      PROVE  Told'
  <2>1. Joined' = Joined
    BY <1>j DEF Joined
  <2>2. QED
    BY <1>f, <1>i, <1>j, <2>1
<1>k. ASSUME NEW batch \in Seq(EventSet), NEW r \in Reports(batch), Observe(batch, r),
             \A i \in 1..Len(batch) : batch[i].type = "tool_start", UNCHANGED <<texts, answer, web>>
      PROVE  Told'
  <2>1. r.sent \in 0..Len(batch) /\ Hand(batch, r.sent)
    BY <1>g, <1>k, ReportType
  <2>2. /\ \A i \in 1..Len(batch) : batch[i].type # "answer_chunk"
        /\ \A i \in 1..Len(batch) : batch[i].type = "citation" => batch[i].tool = RetrieveTool
    BY <1>k
  <2>3. Delivered' = Delivered
    BY <1>g, <2>1, <2>2, HandsSilent
  <2>4. Cited' = Cited
    BY <1>g, <2>1, <2>2, HandsUncited
  <2>5. QED
    BY <1>f, <1>j, <1>k, <2>3, <2>4
<1>l. ASSUME NEW name \in Names, NEW found \in Nat, web.found <= found, name # "search_web" => found = web.found,
             NEW r \in Reports(EndBatch(name, found)), Observe(EndBatch(name, found), r),
             err' = "none" => ReportError(EndBatch(name, found), r) = "none" \/ found = web.found,
             web' = Drained(name, found, r), UNCHANGED <<texts, answer>>
      PROVE  Told'
  <2>1. web.emitted <= found
    BY <1>g, <1>l DEF Types
  <2>2. Delivered' = Delivered
    BY <1>l, <2>1, EndsSilent
  <2>3. Streaming /\ err' = "none" => Cardinality(Cited') = web'.found /\ web'.emitted = web'.found
    BY <1>f, <1>l, EndsCited
  <2>4. QED
    BY <1>j, <1>l, <2>2, <2>3
<1>m. \A name, outcome : web.found <= Found(name, outcome) /\ Found(name, outcome) \in Nat
                           /\ (name # "search_web" \/ outcome # "text" => Found(name, outcome) = web.found)
  BY <1>g DEF Found
<1>n. ASSUME UNCHANGED <<texts, answer, web, events>> PROVE Told'
  <2>1. Delivered' = Delivered /\ Cited' = Cited
    BY <1>n DEF Delivered, Cited, Events
  <2>2. QED
    BY <1>f, <1>j, <1>n, <2>1
<1>1. ASSUME EnterRunner \/ (\E cached \in BOOLEAN : ChatPrompt(cached)) \/ ChatToolsEnd \/ LoopEnds \/ CallNameless
             \/ (\E garbled \in BOOLEAN : EnvelopeCall(garbled))
             \/ (\E name \in Registered \cup {"unknown", "none"} : TakeCall(name))
      PROVE  Told'
  <2>1. UNCHANGED <<texts, answer, web, events>>
    BY <1>1 DEF EnterRunner, ChatPrompt, ChatToolsEnd, LoopEnds, CallNameless, EnvelopeCall, TakeCall, noteVars, runVars
  <2>2. QED
    BY <1>n, <2>1
<1>2. CASE ChatToolStart
  <2> DEFINE name == FallbackTools[loop.next]
  <2>1. name \in Names /\ UNCHANGED <<texts, answer, web>>
    BY <1>2, <1>g, <1>h DEF ChatToolStart
  <2>2. PICK r \in Reports(StartBatch(name)) : Observe(StartBatch(name), r)
    BY <1>2 DEF ChatToolStart
  <2> HIDE DEF name
  <2>3. StartBatch(name) \in Seq(EventSet) /\ \A i \in 1..Len(StartBatch(name)) : StartBatch(name)[i].type = "tool_start"
    BY <2>1, StartBatchType
  <2>4. QED
    BY <1>k, <2>1, <2>2, <2>3
<1>3. CASE CallStart
  <2>1. UNCHANGED <<texts, answer, web>>
    BY <1>3 DEF CallStart, runVars
  <2>2. PICK r \in Reports(StartBatch(loop.tool)) : Observe(StartBatch(loop.tool), r)
    BY <1>3 DEF CallStart
  <2>3. /\ StartBatch(loop.tool) \in Seq(EventSet)
        /\ \A i \in 1..Len(StartBatch(loop.tool)) : StartBatch(loop.tool)[i].type = "tool_start"
    BY <1>g, StartBatchType
  <2>4. QED
    BY <1>k, <2>1, <2>2, <2>3
<1>4. ASSUME NEW outcome \in {"text", "blank", "error"}, ChatToolEnd(outcome) PROVE Told'
  <2> DEFINE name == FallbackTools[loop.next]
             found == Found(name, outcome)
  <2>1. name \in Names /\ UNCHANGED <<texts, answer>>
    BY <1>4, <1>g, <1>h DEF ChatToolEnd, InRunner
  <2>2. found \in Nat /\ web.found <= found /\ (name # "search_web" => found = web.found)
    BY <1>m
  <2>3. PICK r \in Reports(EndBatch(name, found)) :
          /\ Observe(EndBatch(name, found), r) /\ web' = Drained(name, found, r)
          /\ GoOnUnless(ReportError(EndBatch(name, found), r), IF outcome = "text" THEN "generate" ELSE "fallback")
    BY <1>4 DEF ChatToolEnd
  <2> HIDE DEF name, found
  <2>4. err' = "none" => ReportError(EndBatch(name, found), r) = "none"
    BY <2>3 DEF GoOnUnless, RunnerReturns
  <2>5. QED
    BY <1>l, <2>1, <2>2, <2>3, <2>4
<1>5. ASSUME NEW why \in {"undecodable", "unknown", "denied", "invalid"}, CallRejected(why) PROVE Told'
  <2>1. PICK r \in Reports(EndBatch(loop.tool, web.found)) :
          Observe(EndBatch(loop.tool, web.found), r) /\ web' = Drained(loop.tool, web.found, r)
    BY <1>5 DEF CallRejected
  <2>2. UNCHANGED <<texts, answer>>
    BY <1>5 DEF CallRejected
  <2>3. web.found <= web.found
    BY <1>g
  <2>4. QED
    BY <1>g, <1>l, <2>1, <2>2, <2>3
<1>6. ASSUME NEW failed \in BOOLEAN, CallEnd(failed) PROVE Told'
  <2> DEFINE found == Found(loop.tool, IF failed THEN "error" ELSE "text")
  <2>1. /\ found \in Nat /\ web.found <= found /\ (loop.tool # "search_web" => found = web.found)
        /\ failed => found = web.found
    BY <1>m
  <2>2. UNCHANGED <<texts, answer>>
    BY <1>6 DEF CallEnd
  <2>3. PICK r \in Reports(EndBatch(loop.tool, found)) :
          /\ Observe(EndBatch(loop.tool, found), r) /\ web' = Drained(loop.tool, found, r)
          /\ IF failed THEN IF ctx = "live" THEN Recover("tool") ELSE Abort("ctx")
             ELSE IF ReportError(EndBatch(loop.tool, found), r) = "none" THEN Answered
                  ELSE Abort(ReportError(EndBatch(loop.tool, found), r))
    BY <1>6 DEF CallEnd
  <2> HIDE DEF found
  <2>4. err' = "none" => ReportError(EndBatch(loop.tool, found), r) = "none" \/ found = web.found
    BY <2>1, <2>3 DEF Abort, RunnerReturns
  <2>5. QED
    BY <1>g, <1>l, <2>1, <2>2, <2>3, <2>4
<1>o. ASSUME NEW text \in Text, NEW p, Stream(text, p) PROVE Cited' = Cited
  <2>1. PICK sent \in 0..Len(ChunkEvents(Said(text))) : Hand(ChunkEvents(Said(text)), sent)
    BY <1>o DEF Stream
  <2>2. QED
    BY <2>1, ChunksUncited
<1>p. ASSUME NEW text \in Text, NEW p, Stream(text, p), web' = web,
             runner = "native" => answer' = Joined', runner # "native" => rpc' = "returned",
             Streaming /\ err' = "none" => Delivered' = answer'
      PROVE  Told'
  BY <1>f, <1>i, <1>o, <1>p
<1>7. ASSUME NEW text \in Text, ChatGenerate(text) PROVE Told'
  <2>1. runner = "chat" /\ web' = web /\ answer' = Said(text) /\ Stream(text, "returned")
    BY <1>7 DEF ChatGenerate, InRunner
  <2>2. rpc' = "returned"
    BY <2>1 DEF Stream, GoOnUnless, RunnerReturns
  <2>3. Streaming /\ err' = "none" => Delivered' = answer'
    <3>1. Streaming /\ err' = "none" => Delivered' = <<>> \o Said(text)
      BY <1>e, <1>f, <2>1, StreamHeard
    <3>2. <<>> \o Said(text) = Said(text)
      BY TextType, SaidType
    <3>3. QED
      BY <2>1, <3>1, <3>2
  <2>4. QED
    BY <1>p, <2>1, <2>2, <2>3
<1>8. ASSUME NEW text \in Text, NEW n \in 0..MaxCalls, NativeRound(text, n) PROVE Told'
  <2>1. /\ runner = "native" /\ web' = web /\ answer' = answer \o Said(text) /\ texts' = Append(texts, text)
        /\ Stream(text, IF n = 0 THEN "returned" ELSE "call")
    BY <1>8 DEF NativeRound
  <2>2. answer' = Joined'
    BY <1>f, <2>1, RoundJoined
  <2>3. Streaming /\ err' = "none" => Delivered' = answer'
    BY <1>e, <1>f, <2>1, StreamHeard
  <2>4. QED
    BY <1>p, <2>1, <2>2, <2>3
<1>9. ASSUME NEW text \in Text, EnvelopeAnswer(text) PROVE Told'
  <2>1. /\ runner = "envelope" /\ web' = web /\ Stream(text, "returned")
        /\ answer' = IF Streaming /\ ~Contains(text, "w") THEN <<>> ELSE text
    BY <1>9 DEF EnvelopeAnswer
  <2>2. rpc' = "returned"
    BY <2>1 DEF Stream, GoOnUnless, RunnerReturns
  <2>3. Streaming /\ err' = "none" => Delivered' = answer'
    <3>1. Streaming /\ err' = "none" => Delivered' = IF Contains(text, "w") THEN <<>> \o text ELSE <<>>
      BY <1>e, <1>f, <2>1, StreamHeard
    <3>2. <<>> \o text = text
      BY TextType
    <3>3. QED
      BY <2>1, <3>1, <3>2
  <2>4. QED
    BY <1>p, <2>1, <2>2, <2>3
<1>10. ASSUME NEW text \in Text, ModelFails(text) PROVE Told'
  <2>1. err' = "model" /\ UNCHANGED <<web, texts, answer>>
    BY <1>10 DEF ModelFails, RunnerReturns, runVars
  <2>2. Joined' = Joined /\ err' # "none"
    BY <2>1 DEF Joined
  <2>3. QED
    BY <1>f, <1>i, <2>1, <2>2
<1>11. QED
  BY <1>1, <1>2, <1>3, <1>4, <1>5, <1>6, <1>7, <1>8, <1>9, <1>10 DEF RunRunner, RunnerStep

(* A step that leaves texts, answer and citations keeps Told, unless it    *)
(* makes a failure undone.                                                 *)
LEMMA ToldKept ==
  ASSUME Told, UNCHANGED <<mode, runner, web, texts, answer>>, Delivered' = Delivered, Cited' = Cited,
         runner # "native" /\ stage' = "runner" /\ rpc' # "returned" => answer = <<>>,
         err' = "none" => err = "none", memorized' => memorized \/ err = "none",
         Ended("done")' => Ended("done") \/ err = "none"
  PROVE  Told'
<1>1. Joined' = Joined
  BY DEF Joined
<1>2. QED
  BY <1>1 DEF Told, Streaming

(* The pipeline emits no text, cites only its retrieval, stores and        *)
(* announces as done only what has not failed.                             *)
LEMMA PipelineTold ==
  ASSUME Types, InRunner, Outcome, PipelineStep, Told
  PROVE  Told'
<1>a. events \in Seq(EventSet)
  BY DEF Types
<1>1. UNCHANGED <<mode, runner, web, texts, answer>>
  BY DEF PipelineStep, Begin, LoadHistory, ApplyBoundary, RetrieveMemory, ModelStart, ModelEnd, StoreMemory,
     CommitHistory, Decode, InstructionFails,
     Retrieve, Record, Announce, Unanswerable, PresentEvidence, EmitDone, EmitError, quiet, noteVars,
     runVars
<1>2. err' = "none" => err = "none"
  BY DEF PipelineStep, Begin, LoadHistory, ApplyBoundary, RetrieveMemory, ModelStart, ModelEnd, StoreMemory,
     CommitHistory, Decode, InstructionFails,
     Retrieve, Record, Announce, Unanswerable, PresentEvidence, EmitDone, EmitError, EmitThen, Proceed,
     Return, Failing
<1>3. memorized' => memorized \/ err = "none"
  BY DEF PipelineStep, Begin, LoadHistory, ApplyBoundary, RetrieveMemory, ModelStart, ModelEnd, StoreMemory,
     CommitHistory, Decode, InstructionFails,
     Retrieve, Record, Announce, Unanswerable, PresentEvidence, EmitDone, EmitError, outcomes, Outcome
<1>4. runner # "native" /\ stage' = "runner" /\ rpc' # "returned" => answer = <<>>
  <2>1. stage' = "runner" => stage = "model"
    BY DEF PipelineStep, Begin, LoadHistory, ApplyBoundary, RetrieveMemory, ModelStart, ModelEnd, StoreMemory,
       CommitHistory, Decode, InstructionFails,
       Retrieve, Record, Announce, Unanswerable, PresentEvidence, EmitDone, EmitError, EmitThen,
       Proceed, Return, Failing
  <2>2. QED
    BY <2>1 DEF InRunner, BeforeModel
<1>b. ASSUME NEW batch \in Seq(EventSet), NEW sent \in 0..Len(batch), Hand(batch, sent),
             \A i \in 1..Len(batch) : batch[i].type # "answer_chunk" /\ (batch[i].type = "citation" => batch[i].tool = RetrieveTool)
      PROVE  Delivered' = Delivered /\ Cited' = Cited
  <2>1. Delivered' = Delivered
    BY <1>a, <1>b, HandsSilent
  <2>2. Cited' = Cited
    BY <1>a, <1>b, HandsUncited
  <2>3. QED
    BY <2>1, <2>2
<1>c. ASSUME NEW batch \in Seq(EventSet), NEW s, EmitThen(batch, s),
             \A i \in 1..Len(batch) : batch[i].type # "answer_chunk" /\ (batch[i].type = "citation" => batch[i].tool = RetrieveTool)
      PROVE  Delivered' = Delivered /\ Cited' = Cited
  <2>1. PICK sent \in 0..Len(batch) : Hand(batch, sent)
    BY <1>c DEF EmitThen
  <2>2. QED
    BY <1>b, <1>c, <2>1
<1>d. ASSUME events' = events PROVE Delivered' = Delivered /\ Cited' = Cited
  BY <1>d DEF Delivered, Cited, Events
<1>e. ASSUME NEW type \in {"done", "error"}, EmitThen(<<Event(type, "none")>>, "record")
      PROVE  Delivered' = Delivered /\ Cited' = Cited
  <2> DEFINE batch == <<Event(type, "none")>>
  <2>1. batch \in Seq(EventSet) /\ EmitThen(batch, "record")
    BY <1>e, PipelineBatches
  <2>2. \A i \in 1..Len(batch) : batch[i].type # "answer_chunk" /\ (batch[i].type = "citation" => batch[i].tool = RetrieveTool)
    BY DEF Event
  <2> HIDE DEF batch
  <2>3. QED
    BY <1>c, <2>1, <2>2
<1>5. Delivered' = Delivered /\ Cited' = Cited
  <2>1. CASE Announce
    <3> DEFINE batch == <<Event("retrieve_start", "none"), Event("tool_start", RetrieveTool)>>
    <3>1. batch \in Seq(EventSet) /\ EmitThen(batch, "retrieve")
      BY <2>1, PipelineBatches DEF Announce
    <3>2. \A i \in 1..Len(batch) : batch[i].type # "answer_chunk" /\ (batch[i].type = "citation" => batch[i].tool = RetrieveTool)
      BY DEF Event
    <3> HIDE DEF batch
    <3>3. QED
      BY <1>c, <3>1, <3>2
  <2>2. CASE Unanswerable
    <3> DEFINE batch == <<Event("retrieve_end", "none"), Event("tool_end", RetrieveTool)>>
    <3>1. batch \in Seq(EventSet) /\ (events' = events \/ \E sent \in 0..Len(batch) : Hand(batch, sent))
      BY <2>2, PipelineBatches DEF Unanswerable
    <3>2. \A i \in 1..Len(batch) : batch[i].type # "answer_chunk" /\ (batch[i].type = "citation" => batch[i].tool = RetrieveTool)
      BY DEF Event
    <3> HIDE DEF batch
    <3>3. QED
      BY <1>b, <1>d, <3>1, <3>2
  <2>3. CASE PresentEvidence
    <3> DEFINE batch == <<Event("retrieve_end", "none"), Event("tool_end", RetrieveTool)>>
                          \o (IF evidence THEN <<Event("citation", RetrieveTool)>> ELSE <<>>)
    <3>1. batch \in Seq(EventSet) /\ EmitThen(batch, "model")
      BY <2>3, PipelineBatches DEF PresentEvidence
    <3>2. \A i \in 1..Len(batch) : batch[i].type # "answer_chunk" /\ (batch[i].type = "citation" => batch[i].tool = RetrieveTool)
      BY DEF Event
    <3> HIDE DEF batch
    <3>3. QED
      BY <1>c, <3>1, <3>2
  <2>4. CASE EmitDone
    BY <1>e, <2>4 DEF EmitDone
  <2>5. CASE EmitError
    BY <1>e, <2>5 DEF EmitError
  <2>6. CASE ~Announce /\ ~Unanswerable /\ ~PresentEvidence /\ ~EmitDone /\ ~EmitError
    BY <1>d, <2>6 DEF PipelineStep, Begin, LoadHistory, ApplyBoundary, RetrieveMemory, ModelStart, ModelEnd, StoreMemory,
       CommitHistory, Decode, InstructionFails, Retrieve, Record, quiet, noteVars
  <2>7. QED
    BY <2>1, <2>2, <2>3, <2>4, <2>5, <2>6
<1>6. Ended("done")' => Ended("done") \/ err = "none"
  <2>1. CASE stage \notin {"done", "failing"}
    BY <2>1, PipelineEndsNothing DEF Ended
  <2>2. CASE stage = "done"
    BY <2>2 DEF Outcome
  <2>3. CASE stage = "failing"
    <3>1. EmitThen(<<Event("error", "none")>>, "record")
      BY <2>3 DEF PipelineStep, Begin, LoadHistory, ApplyBoundary, RetrieveMemory, ModelStart, ModelEnd, StoreMemory,
         CommitHistory, Decode, InstructionFails,
         Retrieve, Record, Announce, Unanswerable, PresentEvidence, EmitDone, EmitError
    <3>2. Events("done") = {} /\ Events("error") = {}
      BY <2>3 DEF Outcome, Undecided, Ended
    <3>3. Events("done")' = {}
      BY <3>1, <3>2, StreamEnds
    <3>4. QED
      BY <3>3 DEF Ended
  <2>4. QED
    BY <2>1, <2>2, <2>3
<1>7. QED
  BY <1>1, <1>2, <1>3, <1>4, <1>5, <1>6, ToldKept

(* A question begins with nothing told.                                    *)
LEMMA InitTold == QInit => Told
<1> SUFFICES ASSUME QInit PROVE Told
  OBVIOUS
<1>1. events = <<>> /\ texts = <<>> /\ answer = <<>> /\ web.found = 0 /\ web.emitted = 0
  BY DEF QInit
<1>2. Joined = <<>> /\ Delivered = <<>>
  BY <1>1, NothingYet DEF Joined, Delivered, Rounds, Heard
<1>3. Cited = {}
  BY <1>1 DEF Cited, Events
<1>4. Cardinality(Cited) = 0
  BY <1>3, FS_EmptySet
<1>5. QED
  BY <1>1, <1>2, <1>4 DEF Told

LEMMA ToldStep == QInv /\ Told /\ [QNext]_qVars => Told'
<1> SUFFICES ASSUME QInv, Told, [QNext]_qVars PROVE Told'
  OBVIOUS
<1>a. Types /\ InRunner /\ Outcome
  BY DEF QInv
<1>1. CASE RunRunner
  BY <1>a, <1>1, RunnerTold
<1>2. CASE PipelineStep
  BY <1>a, <1>2, PipelineTold
<1>3. ASSUME UNCHANGED <<mode, runner, noteVars, rpc, err, runVars, pipelineVars>> PROVE Told'
  <2>1. Delivered' = Delivered /\ Cited' = Cited /\ Ended("done")' = Ended("done") /\ Joined' = Joined
    BY <1>3 DEF Delivered, Cited, Ended, Events, Joined, noteVars, runVars
  <2>2. QED
    BY <1>3, <2>1 DEF Told, Streaming, noteVars, runVars, pipelineVars
<1>4. CASE ContextEnds
  BY <1>3, <1>4 DEF ContextEnds
<1>5. CASE UNCHANGED qVars
  BY <1>3, <1>5 DEF qVars, runnerVars
<1>6. CASE NextQuestion
  <2>1. QInit'
    BY <1>a, <1>6 DEF NextQuestion, QuestionBegins, QInit, Types
  <2>2. QED
    BY <2>1, InitTold, PTL
<1>7. QED
  BY <1>1, <1>2, <1>4, <1>5, <1>6 DEF QNext, QStep, PipelineStep

(* A turn that is kept is the one the caller has: a stored streamed answer *)
(* is the text of its chunks, one of the native loop the texts of its      *)
(* rounds on lines of their own, and a stream that is done has emitted     *)
(* every citation of the web search once.                                  *)
THEOREM AnswersDelivered == QSpec => []AnswerDelivered
<1>1. QInit => Told
  BY InitTold
<1>2. QInv /\ Told /\ [QNext]_qVars => Told'
  BY ToldStep
<1>3. QInv /\ Told => AnswerDelivered
  <2> SUFFICES ASSUME QInv, Told PROVE AnswerDelivered
    OBVIOUS
  <2>1. memorized => (Streaming => Delivered = answer) /\ (runner = "native" => answer = Joined)
    BY DEF Told
  <2>2. ASSUME Events("done") # {}
        PROVE  Cardinality(Events("citation"))
                 = web.found + Cardinality({i \in Events("citation") : events[i].tool = RetrieveTool})
    <3> DEFINE own == {i \in Events("citation") : events[i].tool = RetrieveTool}
               all == Events("citation")
    <3>1. Types /\ Streaming
      BY <2>2 DEF QInv, Outcome, Ended
    <3>2. Cardinality(Cited) = web.found /\ web.found \in Nat
      BY <2>2, <3>1 DEF Told, Ended, Types
    <3>3. IsFiniteSet(all)
      BY <3>1, FiniteCounts
    <3>4. all = Cited \cup own /\ Cited \cap own = {} /\ Cited \subseteq all /\ own \subseteq all
      BY DEF Cited
    <3> HIDE DEF own, all
    <3>5. IsFiniteSet(Cited) /\ IsFiniteSet(own)
      BY <3>3, <3>4, FS_Subset
    <3>6. Cardinality(Cited \cup own) = Cardinality(Cited) + Cardinality(own) - Cardinality(Cited \cap own)
      BY <3>5, FS_Union
    <3>7. Cardinality(Cited \cap own) = 0
      BY <3>4, FS_EmptySet
    <3>8. Cardinality(own) \in Nat
      BY <3>5, FS_CardinalityType
    <3>9. Cardinality(all) = web.found + Cardinality(own)
      BY <3>2, <3>4, <3>6, <3>7, <3>8
    <3>10. QED
      BY <3>9 DEF own, all
  <2>3. QED
    BY <2>1, <2>2 DEF AnswerDelivered
<1>4. QED
  BY <1>1, <1>2, <1>3, QuestionInvariant, PTL DEF QSpec
===============================================================================
