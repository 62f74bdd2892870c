------------------------------- MODULE Ranking -------------------------------
(***************************************************************************)
(* The pure algorithms between a search and a prompt: lexical search,      *)
(* reciprocal rank fusion and rule-based reranking                         *)
(* (internal/retrieval/hybrid.go and options.go), the assembly of the      *)
(* evidence (internal/rag/context.go) and the token budgets of the prompt  *)
(* (internal/graph/prompt_governance.go).                                  *)
(*                                                                         *)
(* Chunks are numbers, ordered as their IDs are; info gives the similarity *)
(* of each to the query and how many words of the query it contains.  A    *)
(* text is its length.  Reciprocal ranks are multiplied by the product of  *)
(* all their denominators, so that they are compared exactly.              *)
(***************************************************************************)
EXTENDS Lists

CONSTANTS
  Chunks,      \* chunk IDs
  TopK,        \* Config.TopK
  Multiplier,  \* Options.CandidateMultiplier
  RRFK,        \* Options.RRFK
  Shortlist,   \* Options.RerankMultiplier
  TextLength,  \* the length of each chunk; Chunker.Split makes no empty ones
  PrefixLength,\* the length of "[id] "
  MaxChars,    \* maxEvidenceChars
  Budget       \* limits of the prompt, and the tokens of its fixed parts

ASSUME RankingAssumption ==
  /\ Chunks \subseteq Nat /\ IsFiniteSet(Chunks) /\ TopK \in Nat \ {0} /\ MaxChars \in Nat \ {0}
  /\ Multiplier \in Nat \ {0} /\ RRFK \in Nat \ {0} /\ Shortlist \in Nat \ {0}
  /\ TextLength \in [Chunks -> Nat \ {0}] /\ PrefixLength \in Nat
  /\ Budget \in [{"prompt", "history", "evidence", "memory", "summary", "base", "label", "hardening"} -> Nat]

IndexIn(s, c) == SelectInSeq(s, LAMBDA d : d = c)

(* Lexicographic order; the comparisons below put the better, that is      *)
(* greater, score first and then the smaller ID.                           *)
Before(s, t) == \E i \in DOMAIN s : s[i] < t[i] /\ \A j \in 1..(i - 1) : s[j] = t[j]

(* Options.CandidateLimit and RerankShortlistSize. *)
CandidateLimit == Max({TopK, TopK * Multiplier})
RerankShortlistSize(n) == Min({Max({TopK, TopK * Shortlist}), n})

(* LexicalSearch: the candidates with a word of the query, those with most *)
(* words first, then the more similar, then by ID.                         *)
LexicalSearch(info, candidates, limit) ==
  FirstOf(Sorted({c \in candidates : info[c].words > 0},
            LAMBDA a, b : Before(<<info[b].words, info[b].similarity, a>>, <<info[a].words, info[a].similarity, b>>)),
          limit)

Scale == FoldLeft(LAMBDA product, d : product * d, 1, [r \in 1..Cardinality(Chunks) |-> RRFK + r])
Reciprocal(hits, c) == IF Contains(hits, c) THEN Scale \div (RRFK + IndexIn(hits, c)) ELSE 0

(* Mutant: a hit found by both counts for its better rank only. *)
FusedScoreBest(vector, lexical, c) == Max({Reciprocal(vector, c), Reciprocal(lexical, c)})

FusedScore(vector, lexical, c) == Reciprocal(vector, c) + Reciprocal(lexical, c)

(* FuseRRFWithK: ties go to the more similar (a hit of the lexical search  *)
(* alone counts as 0), then to the smaller ID.                             *)
FuseRRF(info, vector, lexical, limit) ==
  LET score == [c \in Chunks |-> FusedScore(vector, lexical, c)]
      tie == [c \in Chunks |-> IF Contains(vector, c) THEN info[c].similarity ELSE 0]
  IN  FirstOf(Sorted(ToSet(vector) \cup ToSet(lexical),
                LAMBDA a, b : Before(<<score[b], tie[b], a>>, <<score[a], tie[a], b>>)),
              limit)

(* RerankShortlistWithLimit: words of the query weigh 1 each on top of the *)
(* fused score.                                                            *)
RerankShortlist(info, vector, lexical, fused) ==
  LET shortlist == FirstOf(fused, RerankShortlistSize(Len(fused)))
      score == [c \in Chunks |-> FusedScore(vector, lexical, c) + info[c].words * Scale]
  IN  FirstOf(Sorted(ToSet(shortlist),
                LAMBDA a, b : Before(<<score[b], a>>, <<score[a], b>>)),
              TopK)

(* openAIReranker.Rerank: the answer of the reranking model is a list of   *)
(* positions in the shortlist.  Repeated ones are passed over, and the     *)
(* first that does not exist is an error, unless enough were read before.  *)
ModelRerank(fused, answer) ==
  LET size == RerankShortlistSize(Len(fused))
      limit == Min({TopK, Len(answer)})
  IN  FoldLeft(LAMBDA acc, i : IF Len(acc.hits) = limit \/ ~acc.ok THEN acc
                               ELSE IF i > size THEN [acc EXCEPT !.ok = FALSE]
                               ELSE IF Contains(acc.hits, fused[i]) THEN acc
                               ELSE [acc EXCEPT !.hits = Append(@, fused[i])],
               [hits |-> <<>>, ok |-> TRUE], answer)
-----------------------------------------------------------------------------
(* The length at which chunk c enters the evidence: only the first one is  *)
(* cut short, and only if its prefix leaves room.                          *)
CutLength(kept, c) ==
  IF kept = <<>> /\ MaxChars > PrefixLength THEN Min({TextLength[c], MaxChars - PrefixLength})
  ELSE TextLength[c]

(* AssembleContext: chunks until one does not fit, each once, separated by *)
(* two characters.                                                         *)
AssembleContext(hits) ==
  FoldLeft(LAMBDA acc, c :
             LET length == (IF acc.used > 0 THEN 2 ELSE 0) + PrefixLength + CutLength(acc.kept, c)
                 fits == acc.used + length <= MaxChars
             IN  IF acc.full \/ c \in acc.seen THEN acc
                 ELSE [kept |-> IF fits THEN Append(acc.kept, c) ELSE acc.kept,
                       used |-> IF fits THEN acc.used + length ELSE acc.used,
                       seen |-> acc.seen \cup {c},
                       full |-> ~fits /\ acc.kept # <<>>],
           [kept |-> <<>>, used |-> 0, seen |-> {}, full |-> FALSE], hits)
-----------------------------------------------------------------------------
(* compactHistoryForPrompt: from the newest turn back, those that still    *)
(* fit; the rest is summarised.                                            *)
CompactHistory(turns) ==
  FoldLeft(LAMBDA acc, i :
             LET turn == turns[Len(turns) + 1 - i] IN
             IF acc.used + turn > Budget.history THEN [acc EXCEPT !.dropped = @ + turn]
             ELSE [acc EXCEPT !.used = @ + turn, !.kept = @ \cup {Len(turns) + 1 - i}],
           [used |-> 0, dropped |-> 0, kept |-> {}], [i \in DOMAIN turns |-> i])

(* Mutant: memory is not made to wait for the evidence. *)
MemoryRoomAll(room, evidence) == Min({Budget.memory, Max({room, 0})})

MemoryRoom(room, evidence) == Min({Budget.memory, Max({room - evidence, 0})})

(* sanitizeUntrustedText puts a warning in front of a text that is not     *)
(* blank, and truncateTextToTokens cuts what it returns.                   *)
Cut(length, room) == Min({IF length = 0 THEN 0 ELSE length + Budget.hardening, room})

(* buildPromptMessages: a summary of the turns left out is as long as it   *)
(* may be; the evidence takes what it may of what the fixed   *)
(* messages and the history leave, the memory what is left then; their     *)
(* headings are not counted.                                               *)
BuildPrompt(turns, memory, evidence) ==
  LET history == CompactHistory(turns)
      summary == IF history.dropped = 0 THEN 0 ELSE Budget.summary
      base == Budget.base + history.used + summary
      room == Budget.prompt - base
      evidenceRoom == Min({Budget.evidence, Max({room, 0})})
      cutMemory == Cut(memory, MemoryRoom(room, evidenceRoom))
      cutEvidence == Cut(evidence, evidenceRoom)
  IN  [base |-> base, kept |-> history.kept, history |-> history.used,
       memory |-> cutMemory, evidence |-> cutEvidence,
       total |-> base + cutMemory + cutEvidence
                   + (IF cutMemory > 0 THEN Budget.label ELSE 0) + IF cutEvidence > 0 THEN Budget.label ELSE 0]
==============================================================================
