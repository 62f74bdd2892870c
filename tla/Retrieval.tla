------------------------------ MODULE Retrieval ------------------------------
(***************************************************************************)
(* One retrieval, from the query to the prompt: rootRetriever              *)
(* .SearchDetailed and the rest of retrieve in agent.go over the embedded  *)
(* store (internal/storage/chromem_store.go), whose search counts the      *)
(* chunks and then asks for that many, while other goroutines import and   *)
(* delete.  A hybrid search that fails falls back to the vectors, a        *)
(* reranking that fails to the fused order.                                *)
(***************************************************************************)
EXTENDS Ranking

CONSTANTS
  Similarities, \* how similar a chunk may be to a query
  Words,        \* how many words of the query a chunk may contain
  Threshold,    \* Config.SimilarityThreshold
  Outside,      \* the chunks a filter excludes
  Lengths,      \* lengths of the turns, and of the memory, in a prompt
  MaxTurns,     \* bound: turns of the history
  MaxAnswer,    \* bound: positions in the answer of a reranking model
  MaxMissing,   \* bound: chunks not in the store at first
  MaxChanges,   \* bound: chunks imported or deleted during a retrieval
  MaxFaults     \* bound: failures that no change explains

ASSUME RetrievalAssumption ==
  /\ Similarities \subseteq Int /\ Words \subseteq Nat
  /\ Threshold \in Int /\ Outside \subseteq Chunks /\ Lengths \subseteq Nat
  /\ MaxTurns \in Nat /\ MaxMissing \in Nat /\ MaxAnswer \in Nat /\ MaxChanges \in Nat /\ MaxFaults \in Nat

VARIABLES
  info,       \* what the query has to do with each chunk
  plan,       \* how the retriever is configured, and whether there is a filter
  corpus,     \* the chunks in the store
  pc,         \* position in the retrieval
  search,     \* the search of the store under way
  found,      \* the hits of the two searches, and fused
  hits,       \* what SearchDetailed returns
  fallbacks,  \* the fallback events
  error,      \* the error it returns
  evidence,   \* what AssembleContext returns
  prompt,     \* what buildPromptMessages returns
  changes,    \* observer: changes of the store so far
  overtaken,  \* observer: searches the store has changed under
  faults,     \* observer: failures so far
  seen        \* observer: chunks that were in the store at some time

rVars == <<info, plan, corpus, pc, search, found, hits, fallbacks, error, evidence, prompt,
           changes, overtaken, faults, seen>>
observers == <<changes, overtaken, seen>>

(* Plans: vectors only, hybrid with invalid tuning, hybrid, and hybrid     *)
(* with the rule-based reranker, with invalid reranking and with a         *)
(* reranking model.                                                        *)
Plans == {"vector", "untuned", "hybrid", "rules", "unlisted", "model"}

NoSearch == [wanted |-> "none", count |-> 0, ask |-> 0, changed |-> FALSE]
NothingFound == [vector |-> <<>>, lexical |-> <<>>, fused |-> <<>>]
NoPrompt == [base |-> 0, kept |-> {}, history |-> 0, memory |-> 0, evidence |-> 0, total |-> 0]

RInit ==
  /\ info \in [Chunks -> [similarity : Similarities, words : Words]]
  /\ plan \in [kind : Plans, filtered : BOOLEAN]
  /\ corpus \in {C \in SUBSET Chunks : Cardinality(Chunks \ C) <= MaxMissing} /\ seen = corpus
  /\ pc = "embed" /\ search = NoSearch /\ hits = <<>> /\ fallbacks = <<>> /\ error = "none"
  /\ found = NothingFound
  /\ evidence = AssembleContext(<<>>) /\ prompt = NoPrompt
  /\ changes = 0 /\ overtaken = 0 /\ faults = 0

MayFail == faults < MaxFaults
Spend(failed) == faults' = IF failed THEN faults + 1 ELSE faults

(* SearchDetailed returns hits, or an error. *)
Give(h) == hits' = h /\ pc' = "assemble" /\ UNCHANGED error
GiveUp(e) == error' = e /\ pc' = "done" /\ UNCHANGED hits
FallBack(stage, to) == fallbacks' = Append(fallbacks, [stage |-> stage, to |-> to])

(* The query is embedded, and the first search of the store begins. *)
Embed(ok) ==
  /\ pc = "embed"
  /\ ok \/ MayFail
  /\ Spend(~ok)
  /\ IF ok THEN /\ pc' = "count" /\ UNCHANGED <<hits, error>>
                /\ search' = [NoSearch EXCEPT !.wanted = IF plan.kind \in {"vector", "untuned"}
                                                         THEN "closest" ELSE "all"]
     ELSE GiveUp("embed") /\ UNCHANGED search
  /\ IF ok /\ plan.kind = "untuned" THEN FallBack("hybrid", "vector_only") ELSE UNCHANGED fallbacks
  /\ UNCHANGED <<info, plan, corpus, found, evidence, prompt, observers>>

(* SearchWithFilter counts: it will ask for as many as it wants, and with  *)
(* a filter, or to have all, for as many as there are.                     *)
Count ==
  /\ pc = "count"
  /\ LET n == Cardinality(corpus)
         want == IF search.wanted = "all" THEN n ELSE Min({TopK, n})
     IN  IF n = 0 THEN Give(<<>>) /\ UNCHANGED search
         ELSE /\ search' = [search EXCEPT !.count = want, !.ask = (IF plan.filtered THEN n ELSE want),
                                          !.changed = FALSE]
              /\ pc' = "query" /\ UNCHANGED <<hits, error>>
  /\ UNCHANGED <<info, plan, corpus, found, fallbacks, evidence, prompt, observers, faults>>

(* The chunks by similarity; equals come in any order. *)
BySimilarity == {r \in SetToSeqs(corpus) :
                   \A i, j \in DOMAIN r : i < j => info[r[i]].similarity >= info[r[j]].similarity}

(* Above the threshold (-1 when all are wanted) and through the filter. *)
Similar == {c \in Chunks : info[c].similarity >= Threshold}
Filtered == IF plan.filtered THEN Chunks \ Outside ELSE Chunks
Admissible == Filtered \cap IF search.wanted = "all" THEN Chunks ELSE Similar

(* Mutant: the filter comes after the limit. *)
AdmittedLate(ranked) == Only(FirstOf(ranked, search.count), Filtered)

(* As many as are wanted of those that are admissible. *)
Admitted(ranked) == FirstOf(Only(ranked, Admissible), search.count)

(* QueryEmbedding refuses to return more than there are. *)
QueryRefused == search.ask > Cardinality(corpus)

(* The search succeeds: SearchDetailed has its hits, or goes on to fuse. *)
Query(ranking) ==
  /\ pc = "query" /\ ~QueryRefused
  /\ LET result == Admitted(FirstOf(ranking, search.ask)) IN
     IF search.wanted = "closest" THEN Give(result) /\ UNCHANGED found
     ELSE IF result = <<>> THEN Give(<<>>) /\ UNCHANGED found
     ELSE /\ LET vector == FirstOf(Only(result, Similar), CandidateLimit)
                 lexical == LexicalSearch(info, ToSet(result), CandidateLimit)
             IN  found' = [vector |-> vector, lexical |-> lexical,
                           fused |-> FuseRRF(info, vector, lexical, CandidateLimit)]
          /\ pc' = "rank" /\ UNCHANGED <<hits, error>>
  /\ UNCHANGED <<info, plan, corpus, search, fallbacks, evidence, prompt, observers, faults>>

(* Mutant: a hybrid search that fails is not tried again. *)
RetryNever == FALSE

Retry == search.wanted = "all"

(* The search fails, perhaps because the store has become smaller: a       *)
(* hybrid search looks for the closest instead, and an error comes without *)
(* fallback events.                                                        *)
QueryFails ==
  /\ pc = "query"
  /\ QueryRefused \/ MayFail
  /\ Spend(~QueryRefused)
  /\ IF Retry
     THEN /\ search' = [NoSearch EXCEPT !.wanted = "closest"]
          /\ FallBack("hybrid", "vector_only")
          /\ pc' = "count" /\ UNCHANGED <<hits, error>>
     ELSE GiveUp("search") /\ fallbacks' = <<>> /\ UNCHANGED search
  /\ overtaken' = overtaken + IF search.changed THEN 1 ELSE 0
  /\ UNCHANGED <<info, plan, corpus, found, evidence, prompt, changes, seen>>
-----------------------------------------------------------------------------
(* What follows the fusion.  A lexical search that panicked leaves the     *)
(* vectors.                                                                *)
Rank(panics) ==
  /\ pc = "rank"
  /\ panics => MayFail
  /\ Spend(panics)
  /\ IF panics THEN Give(FirstOf(found.vector, TopK)) /\ FallBack("hybrid", "vector_only")
     ELSE /\ IF plan.kind \in {"rules", "model"} THEN pc' = "rerank" /\ UNCHANGED <<hits, error>>
             ELSE Give(FirstOf(found.fused, TopK))
          /\ IF plan.kind = "unlisted" THEN FallBack("rerank", "hybrid") ELSE UNCHANGED fallbacks
  /\ UNCHANGED <<info, plan, corpus, search, found, evidence, prompt, observers>>

(* safeRerank by the rules or by the answer of a model.  It may panic, the *)
(* model may be out of reach, and its answer invalid.                      *)
Rerank(answer, ok) ==
  /\ pc = "rerank"
  /\ ok \/ MayFail
  /\ ~ok \/ plan.kind # "model" => answer = <<>>
  /\ Spend(~ok)
  /\ LET byModel == ModelRerank(found.fused, answer)
         reranked == IF plan.kind = "model" THEN byModel.hits
                     ELSE RerankShortlist(info, found.vector, found.lexical, found.fused)
     IN  IF ok /\ (plan.kind = "model" => byModel.ok) THEN Give(reranked) /\ UNCHANGED fallbacks
         ELSE Give(FirstOf(found.fused, TopK)) /\ FallBack("rerank", "hybrid")
  /\ UNCHANGED <<info, plan, corpus, search, found, evidence, prompt, observers>>

(* The evidence is assembled.  SearchDetailed has returned, and what only  *)
(* it used is gone.                                                        *)
Assemble ==
  /\ pc = "assemble"
  /\ evidence' = AssembleContext(hits)
  /\ IF evidence'.kept = <<>> THEN error' = "insufficient" /\ pc' = "done"
     ELSE pc' = "prompt" /\ UNCHANGED error
  /\ info' = [c \in Chunks |-> [similarity |-> 0, words |-> 0]]
  /\ search' = NoSearch /\ found' = NothingFound
  /\ UNCHANGED <<plan, corpus, hits, fallbacks, prompt, observers, faults>>

(* The runner composes the prompt. *)
Compose(turns, memory) ==
  /\ pc = "prompt"
  /\ prompt' = BuildPrompt(turns, memory, evidence.used)
  /\ pc' = "done"
  /\ UNCHANGED <<info, plan, corpus, search, found, hits, fallbacks, error, evidence, observers, faults>>

(* Another goroutine imports or deletes a chunk. *)
ChangeStore(c) ==
  /\ pc \in {"count", "query"} /\ changes < MaxChanges
  /\ changes' = changes + 1
  /\ corpus' = IF c \in corpus THEN corpus \ {c} ELSE corpus \cup {c}
  /\ seen' = seen \cup {c}
  /\ search' = [search EXCEPT !.changed = (pc = "query")]
  /\ UNCHANGED <<info, plan, pc, found, hits, fallbacks, error, evidence, prompt, overtaken, faults>>

RNext ==
  \/ \E ok \in BOOLEAN : Embed(ok) \/ Rank(~ok)
  \/ Count \/ QueryFails \/ Assemble
  \/ \E ranking \in BySimilarity : Query(ranking)
  \/ \E answer \in BoundedSeq(1..(TopK + 1), MaxAnswer), ok \in BOOLEAN : Rerank(answer, ok)
  \/ \E turns \in BoundedSeq(Lengths, MaxTurns), memory \in {0} \cup Lengths : Compose(turns, memory)
  \/ \E c \in Chunks : ChangeStore(c)

RSpec == RInit /\ [][RNext]_rVars
-----------------------------------------------------------------------------
(* The hits, whatever path they took and whatever changed under the        *)
(* search: at most TopK, none twice, all from the store and through the    *)
(* filter; by the vectors alone all above the threshold and none passed    *)
(* over for a less similar one; and those a hybrid search adds contain a   *)
(* word of the query.                                                      *)
HitsSound ==
  pc = "assemble" =>
    /\ Len(hits) <= TopK /\ Cardinality(ToSet(hits)) = Len(hits)
    /\ ToSet(hits) \subseteq seen /\ (plan.filtered => ToSet(hits) \cap Outside = {})
    /\ \A c \in ToSet(hits) : info[c].similarity < Threshold => info[c].words > 0 /\ found.fused # <<>>
    /\ search.wanted = "closest" /\ changes = 0 =>
         \A c \in corpus \ (ToSet(hits) \cup IF plan.filtered THEN Outside ELSE {}) :
           \/ info[c].similarity < Threshold
           \/ Len(hits) = TopK /\ \A d \in ToSet(hits) : info[d].similarity >= info[c].similarity

(* The place of c in s, after all of s when it is not there. *)
Place(s, c) == IF Contains(s, c) THEN IndexIn(s, c) ELSE Len(s) + 1

(* The fusion respects both searches: a chunk that neither of them puts    *)
(* after another, and one of them before it, is not put after it; with a   *)
(* constant as large as the lists may be (the default is 60) a chunk that  *)
(* both found comes before one that only one found; and none is left out   *)
(* while there is room.                                                    *)
FusionRespects ==
  LET f == found.fused
      V == found.vector
      L == found.lexical
      sources == ToSet(V) \cup ToSet(L)
  IN  pc = "rank" =>
      /\ Len(f) = Min({CandidateLimit, Cardinality(sources)}) /\ ToSet(f) \subseteq sources
      /\ \A a, b \in sources :
           \/ /\ Place(V, a) <= Place(V, b) /\ Place(L, a) <= Place(L, b)
              /\ Place(V, a) + Place(L, a) < Place(V, b) + Place(L, b)
           \/ /\ RRFK >= CandidateLimit
              /\ a \in ToSet(V) \cap ToSet(L) /\ b \notin ToSet(V) \cap ToSet(L)
           => Place(f, a) <= Place(f, b)

(* A hybrid search fails only if the store was changed under both of its   *)
(* queries or a fault came with a change; a result that did not come from  *)
(* the configured pipeline is reported as a fallback, and only that.       *)
DegradesHonestly ==
  /\ error = "search" /\ plan.kind \notin {"vector", "untuned"} => overtaken + faults >= 2
  /\ pc = "assemble" =>
       /\ fallbacks = <<>> => (search.wanted = "closest" <=> plan.kind = "vector")
       /\ Len(fallbacks) <= 1 + faults
       /\ plan.kind = "vector" => fallbacks = <<>>

(* The evidence fits and leaves out only hits after the ones it shows,     *)
(* those after the first entire; and there is some if there is a hit.      *)
EvidenceFits ==
  pc = "prompt" \/ error = "insufficient" =>
    /\ evidence.used <= MaxChars
    /\ IsPrefix(evidence.kept, hits)
    /\ hits # <<>> /\ MaxChars > PrefixLength => evidence.kept # <<>>
    /\ \A i \in 2..Len(evidence.kept) : TextLength[evidence.kept[i]] + PrefixLength <= MaxChars

(* The prompt keeps every limit, apart from the headings of evidence and   *)
(* memory: what is added to the fixed messages fits what they leave, and   *)
(* memory gets nothing that the evidence was denied.                       *)
PromptWithinBudget ==
  /\ EvidenceFits
  /\ pc = "done" /\ prompt # NoPrompt =>
       /\ prompt.history <= Budget.history /\ prompt.evidence <= Budget.evidence
       /\ prompt.memory <= Budget.memory
       /\ prompt.total <= Max({Budget.prompt, prompt.base}) + 2 * Budget.label
       /\ prompt.evidence < Min({Budget.evidence, evidence.used}) => prompt.memory = 0
==============================================================================
