-------------------------- MODULE RetrievalProofs --------------------------
(***************************************************************************)
(* Proofs about Ranking and Retrieval, for every finite set of chunks and  *)
(* all limits: how a search may degrade, which hits it may return, how     *)
(* fusion ranks what the two searches found, and that evidence and prompt  *)
(* keep their budgets.                                                     *)
(***************************************************************************)
EXTENDS Retrieval, ListTheorems

Infos == [Chunks -> [similarity : Int, words : Nat]]

(* A list of hits, none of them twice. *)
Picks(s) == s \in Seq(Chunks) /\ \A i, j \in 1..Len(s) : i # j => s[i] # s[j]

LEMMA FirstPicks ==
  ASSUME NEW s, Picks(s), NEW n \in Nat
  PROVE  /\ Picks(FirstOf(s, n)) /\ ToSet(FirstOf(s, n)) \subseteq ToSet(s)
         /\ Len(FirstOf(s, n)) = IF n < Len(s) THEN n ELSE Len(s)
         /\ \A i \in 1..Len(FirstOf(s, n)) : i \in 1..Len(s) /\ FirstOf(s, n)[i] = s[i]
<1>1. s \in Seq(Chunks)
  BY DEF Picks
<1>2. /\ FirstOf(s, n) \in Seq(Chunks) /\ ToSet(FirstOf(s, n)) \subseteq ToSet(s)
      /\ Len(FirstOf(s, n)) = IF n < Len(s) THEN n ELSE Len(s)
      /\ \A i \in 1..Len(FirstOf(s, n)) : i \in 1..Len(s) /\ FirstOf(s, n)[i] = s[i]
  BY <1>1, FirstOfTakes
<1>3. QED
  BY <1>2 DEF Picks

LEMMA FirstLength ==
  ASSUME NEW s, Picks(s), NEW n \in Nat
  PROVE  Len(FirstOf(s, n)) <= n
<1>1. Len(s) \in Nat
  BY DEF Picks
<1>2. Len(FirstOf(s, n)) = IF n < Len(s) THEN n ELSE Len(s)
  BY FirstPicks
<1>3. QED
  BY <1>1, <1>2

LEMMA OnlyPicks ==
  ASSUME NEW s, Picks(s), NEW T
  PROVE  /\ Picks(Only(s, T)) /\ Len(Only(s, T)) <= Len(s)
         /\ ToSet(Only(s, T)) = ToSet(s) \cap T
<1> DEFINE R == {p \in Chunks \X Chunks : p[1] # p[2]}
           o == Only(s, T)
<1>1. s \in Seq(Chunks)
  BY DEF Picks
<1>2. o \in Seq(Chunks) /\ Len(o) <= Len(s) /\ ToSet(o) = ToSet(s) \cap T
  BY <1>1, OnlyTakes
<1>3. \A i, j \in 1..Len(s) : i < j => <<s[i], s[j]>> \in R
  BY <1>1 DEF Picks
<1>4. \A i, j \in 1..Len(o) : i < j => <<o[i], o[j]>> \in R
  <2> HIDE DEF R
  <2>1. QED
    BY <1>1, <1>3, OnlyKeepsOrder
<1> HIDE DEF o
<1>5. ASSUME NEW i \in 1..Len(o), NEW j \in 1..Len(o), i # j PROVE o[i] # o[j]
  <2>1. Len(o) \in Nat /\ (i < j \/ j < i)
    BY <1>2, <1>5
  <2>2. QED
    BY <1>4, <2>1
<1>6. QED
  BY <1>2, <1>5 DEF o, Picks

(* The position of a hit. *)
LEMMA IndexOfPick ==
  ASSUME NEW s, Picks(s), NEW i \in 1..Len(s)
  PROVE  Contains(s, s[i]) /\ IndexIn(s, s[i]) = i
<1>1. {j \in 1..Len(s) : s[j] = s[i]} = {i}
  BY DEF Picks
<1>2. Min({i}) = i
  BY DEF Min
<1>3. IndexIn(s, s[i]) = i
  BY <1>1, <1>2 DEF IndexIn, SelectInSeq
<1>4. QED
  BY <1>3 DEF Contains

LEMMA IndexType ==
  ASSUME NEW s, Picks(s), NEW c, Contains(s, c)
  PROVE  IndexIn(s, c) \in 1..Len(s) /\ s[IndexIn(s, c)] = c
<1>1. PICK i \in 1..Len(s) : s[i] = c
  BY DEF Contains
<1>2. QED
  BY <1>1, IndexOfPick

(* Contains and ToSet say the same. *)
LEMMA ContainsMember ==
  ASSUME NEW s \in Seq(Chunks), NEW c
  PROVE  Contains(s, c) <=> c \in ToSet(s)
<1>1. DOMAIN s = 1..Len(s)
  OBVIOUS
<1>2. QED
  BY <1>1 DEF Contains, ToSet
-----------------------------------------------------------------------------
LEMMA BeforeTriple ==
  ASSUME NEW a1 \in Int, NEW a2 \in Int, NEW a3 \in Int, NEW b1 \in Int, NEW b2 \in Int, NEW b3 \in Int
  PROVE  Before(<<a1, a2, a3>>, <<b1, b2, b3>>) <=>
           a1 < b1 \/ (a1 = b1 /\ (a2 < b2 \/ (a2 = b2 /\ a3 < b3)))
<1> DEFINE s == <<a1, a2, a3>>
           t == <<b1, b2, b3>>
           Same(i) == \A j \in 1..(i - 1) : s[j] = t[j]
<1>1. DOMAIN s = {1, 2, 3}
  OBVIOUS
<1>2. Same(1) /\ (Same(2) <=> a1 = b1) /\ (Same(3) <=> a1 = b1 /\ a2 = b2)
  <2>1. 1..(1 - 1) = {} /\ 1..(2 - 1) = {1} /\ 1..(3 - 1) = {1, 2}
    OBVIOUS
  <2>2. QED
    BY <2>1
<1>3. Before(s, t) <=> \E i \in {1, 2, 3} : s[i] < t[i] /\ Same(i)
  BY <1>1 DEF Before
<1> HIDE DEF Same
<1>4. QED
  BY <1>2, <1>3

LEMMA BeforePair ==
  ASSUME NEW a1 \in Int, NEW a2 \in Int, NEW b1 \in Int, NEW b2 \in Int
  PROVE  Before(<<a1, a2>>, <<b1, b2>>) <=> a1 < b1 \/ (a1 = b1 /\ a2 < b2)
<1> DEFINE s == <<a1, a2>>
           t == <<b1, b2>>
           Same(i) == \A j \in 1..(i - 1) : s[j] = t[j]
<1>1. DOMAIN s = {1, 2}
  OBVIOUS
<1>2. Same(1) /\ (Same(2) <=> a1 = b1)
  <2>1. 1..(1 - 1) = {} /\ 1..(2 - 1) = {1}
    OBVIOUS
  <2>2. QED
    BY <2>1
<1>3. Before(s, t) <=> \E i \in {1, 2} : s[i] < t[i] /\ Same(i)
  BY <1>1 DEF Before
<1> HIDE DEF Same
<1>4. QED
  BY <1>2, <1>3

(* Greater f first, then greater g, then the smaller number. *)
ByScore(S, f, g) ==
  {p \in S \X S : Before(<<f[p[2]], g[p[2]], p[1]>>, <<f[p[1]], g[p[1]], p[2]>>)}

(* That is an order. *)
LEMMA ScoresOrder ==
  ASSUME NEW S \in SUBSET Nat, NEW f \in [S -> Int], NEW g \in [S -> Int]
  PROVE  /\ Orders(ByScore(S, f, g), S)
         /\ \A a, b \in S : <<a, b>> \in ByScore(S, f, g) <=>
              f[b] < f[a] \/ (f[b] = f[a] /\ (g[b] < g[a] \/ (g[b] = g[a] /\ a < b)))
<1> DEFINE R == ByScore(S, f, g)
<1>1. ASSUME NEW a \in S, NEW b \in S
      PROVE  <<a, b>> \in R <=> f[b] < f[a] \/ (f[b] = f[a] /\ (g[b] < g[a] \/ (g[b] = g[a] /\ a < b)))
  <2>1. f[a] \in Int /\ f[b] \in Int /\ g[a] \in Int /\ g[b] \in Int /\ a \in Int /\ b \in Int
    OBVIOUS
  <2>2. Before(<<f[b], g[b], a>>, <<f[a], g[a], b>>) <=>
          f[b] < f[a] \/ (f[b] = f[a] /\ (g[b] < g[a] \/ (g[b] = g[a] /\ a < b)))
    BY <2>1, BeforeTriple
  <2>3. <<a, b>> \in R <=> Before(<<f[b], g[b], a>>, <<f[a], g[a], b>>)
    BY DEF ByScore
  <2>4. QED
    BY <2>2, <2>3
<1>2. \A a \in S : f[a] \in Int /\ g[a] \in Int /\ a \in Nat
  OBVIOUS
<1>3. Orders(R, S)
  BY <1>1, <1>2 DEF Orders
<1>4. QED
  BY <1>1, <1>3
-----------------------------------------------------------------------------
(* The limits are positive numbers. *)
LEMMA LimitType == CandidateLimit \in Nat \ {0}
<1>1. TopK \in Nat \ {0} /\ TopK * Multiplier \in Nat
  BY RankingAssumption
<1>2. TopK \in Int /\ TopK * Multiplier \in Int
  BY <1>1
<1>3. CandidateLimit = IF TopK <= TopK * Multiplier THEN TopK * Multiplier ELSE TopK
  BY <1>2, MaxOfTwo DEF CandidateLimit
<1>4. TopK > 0
  BY <1>1
<1>5. QED
  BY <1>1, <1>3, <1>4

LEMMA SizeType ==
  ASSUME NEW n \in Nat
  PROVE  RerankShortlistSize(n) \in 0..n
<1> DEFINE m == Max({TopK, TopK * Shortlist})
<1>1. TopK \in Nat /\ TopK * Shortlist \in Nat
  BY RankingAssumption
<1>2. m \in Nat
  BY <1>1, MaxOfTwo
<1> HIDE DEF m
<1>3. Min({m, n}) = IF m <= n THEN m ELSE n
  BY <1>2, MinOfTwo
<1>4. QED
  BY <1>2, <1>3 DEF RerankShortlistSize, m
-----------------------------------------------------------------------------
(* LexicalSearch returns candidates that contain a word of the query. *)
LEMMA LexicalSound ==
  ASSUME NEW data \in Infos, NEW candidates \in SUBSET Chunks, NEW limit \in Nat
  PROVE  LET l == LexicalSearch(data, candidates, limit)
         IN  Picks(l) /\ ToSet(l) \subseteq {c \in candidates : data[c].words > 0} /\ Len(l) <= limit
<1> DEFINE S == {c \in candidates : data[c].words > 0}
           f == [c \in S |-> data[c].words]
           g == [c \in S |-> data[c].similarity]
           R == ByScore(S, f, g)
           Better(a, b) == Before(<<data[b].words, data[b].similarity, a>>, <<data[a].words, data[a].similarity, b>>)
           sorted == Sorted(S, Better)
<1>1. S \in SUBSET Nat /\ S \subseteq Chunks /\ IsFiniteSet(S)
  BY RankingAssumption, FS_Subset
<1>2. f \in [S -> Int] /\ g \in [S -> Int]
  BY DEF Infos
<1>3. Orders(R, S)
  <2> HIDE DEF f, g, S
  <2>1. QED
    BY <1>1, <1>2, ScoresOrder
<1>4. \A a, b \in S : <<a, b>> \in R => Better(a, b)
  BY DEF ByScore
<1>5. \E s \in SetToSeqs(S) : \A i, j \in DOMAIN s : i < j => Better(s[i], s[j])
  <2> HIDE DEF R, S, Better
  <2>1. PICK s \in SetToSeqs(S) : \A i, j \in DOMAIN s : i < j => <<s[i], s[j]>> \in R
    BY <1>1, <1>3, SortedExists
  <2>2. s \in Seq(S) /\ DOMAIN s = 1..Len(s)
    BY <1>1, SetToSeqsType
  <2>3. ASSUME NEW i \in DOMAIN s, NEW j \in DOMAIN s, i < j PROVE Better(s[i], s[j])
    <3>1. s[i] \in S /\ s[j] \in S
      BY <2>2
    <3>2. QED
      BY <1>4, <2>1, <2>3, <3>1
  <2>4. QED
    BY <2>3
<1>6. sorted \in SetToSeqs(S)
  <2> HIDE DEF S, Better
  <2>1. QED
    BY <1>5 DEF Sorted
<1>7. Picks(sorted) /\ ToSet(sorted) = S
  <2> HIDE DEF S, sorted
  <2>1. QED
    BY <1>1, <1>6, SetToSeqsType, SeqMonotonic DEF Picks
<1>8. LexicalSearch(data, candidates, limit) = FirstOf(sorted, limit)
  BY DEF LexicalSearch
<1> HIDE DEF sorted
<1>9. QED
  BY <1>7, <1>8, FirstPicks, FirstLength

(* The product of the denominators is a multiple of each of them, so that  *)
(* reciprocal ranks are exact.                                             *)
LEMMA ScaleExact ==
  /\ Scale \in Nat \ {0}
  /\ \A i \in 1..Cardinality(Chunks) : \E q \in Nat \ {0} : Scale = q * (RRFK + i)
<1> DEFINE n == Cardinality(Chunks)
           B == Nat \ {0}
           s == [r \in 1..n |-> RRFK + r]
           step == [i \in 1..n |-> [a \in B |-> a * s[i]]]
           Eq(h) == h = [t \in SUBSET DOMAIN s |-> IF t = {} THEN 1 ELSE h[t \ {Max(t)}] * s[Max(t)]]
           f == CHOOSE h : Eq(h)
           I == [k \in 0..n |-> {p \in B : \A i \in 1..k : \E q \in B : p = q * (RRFK + i)}]
<1>1. n \in Nat /\ DOMAIN s = 1..n /\ 1 \in B /\ \A i \in 1..n : s[i] = RRFK + i /\ s[i] \in B
  BY RankingAssumption, FS_CardinalityType
<1>2. step \in [1..n -> [B -> B]]
  <2>1. \A a, b \in B : a * b \in B
    <3>1. ASSUME NEW a \in B, NEW b \in B PROVE a * b \in Nat /\ a * b # 0
      <4>1. a \in Nat /\ b \in Nat /\ a > 0 /\ b > 0
        OBVIOUS
      <4>2. a * b > 0
        BY <4>1
      <4>3. QED
        BY <4>1, <4>2
    <3>2. QED
      BY <3>1
  <2> HIDE DEF B, s
  <2>2. QED
    BY <1>1, <2>1
<1>3. \A t \in SUBSET (1..n) : t # {} => Max(t) \in 1..n
  BY <1>1, MaxOfSome
<1>4. PICK g : IsFold(g, B, 1, n, step)
  <2> HIDE DEF n, step, B
  <2>1. QED
    BY <1>1, <1>2, FoldExists
<1>5. Eq(g)
  <2>1. g = [t \in SUBSET (1..n) |-> g[t]] /\ \A t \in SUBSET (1..n) : g[t \ {Max(t)}] \in B
    BY <1>4 DEF IsFold
  <2>2. ASSUME NEW t \in SUBSET (1..n), t # {} PROVE g[t] = g[t \ {Max(t)}] * s[Max(t)]
    <3>1. g[t] = step[Max(t)][g[t \ {Max(t)}]]
      BY <1>4, <2>2 DEF IsFold
    <3> HIDE DEF s
    <3>2. QED
      BY <1>3, <2>1, <2>2, <3>1
  <2>3. g[{}] = 1
    BY <1>4 DEF IsFold
  <2> HIDE DEF n, step, B, s
  <2>4. QED
    BY <1>1, <2>1, <2>2, <2>3
<1>6. Eq(f)
  <2> HIDE DEF Eq
  <2>1. QED
    BY <1>5
<1>7. Scale = f[DOMAIN s]
  BY DEF Scale, FoldLeft, MapThenFoldSet
<1>8. FoldsWithin(f, B, 1, n, step)
  <2>1. f[{}] = 1
    <3> HIDE DEF f
    <3>1. QED
      BY <1>6
  <2>2. ASSUME NEW t \in SUBSET (1..n), t # {}, f[t \ {Max(t)}] \in B
        PROVE  f[t] = step[Max(t)][f[t \ {Max(t)}]]
    <3> HIDE DEF f
    <3>1. f[t] = f[t \ {Max(t)}] * s[Max(t)]
      BY <1>1, <1>6, <2>2
    <3>2. Max(t) \in 1..n
      BY <1>3, <2>2
    <3>3. QED
      BY <2>2, <3>1, <3>2
  <2> HIDE DEF n, step, f, B
  <2>3. QED
    BY <2>1, <2>2 DEF FoldsWithin
<1>9. Inductive(I, B, 1, n, step)
  <2>1. I \in [0..n -> SUBSET B] /\ 1 \in I[0]
    BY <1>1
  <2>2. ASSUME NEW k \in 1..n, NEW a \in I[k - 1] PROVE step[k][a] \in I[k]
    <3>1. /\ a \in B /\ s[k] = RRFK + k /\ step[k][a] = a * (RRFK + k) /\ step[k][a] \in B
          /\ \A i \in 1..(k - 1) : \E q \in B : a = q * (RRFK + i)
      BY <1>1, <1>2
    <3>2. ASSUME NEW i \in 1..k PROVE \E q \in B : a * (RRFK + k) = q * (RRFK + i)
      <4>1. CASE i = k
        BY <3>1, <4>1
      <4>2. CASE i < k
        <5>1. PICK q \in B : a = q * (RRFK + i)
          BY <3>1, <4>2
        <5>2. q \in Nat /\ RRFK + i \in Nat /\ RRFK + k \in Nat /\ q > 0 /\ RRFK + k > 0
          BY RankingAssumption
        <5>3. PICK d \in Nat, e \in Nat : d = RRFK + i /\ e = RRFK + k
          BY <5>2
        <5>4. (q * d) * e = (q * e) * d
          BY <5>3
        <5>5. q * e \in Nat
          BY <5>3
        <5>6. q * e > 0
          BY <5>2, <5>3
        <5>7. QED
          BY <5>1, <5>3, <5>4, <5>5, <5>6
      <4>3. QED
        BY <4>1, <4>2
    <3> HIDE DEF step, s
    <3>3. QED
      BY <3>1, <3>2
  <2> HIDE DEF I, step, B
  <2>3. QED
    BY <2>1, <2>2 DEF Inductive
<1>10. f[1..n] \in I[n]
  <2> HIDE DEF n, step, f, B, I
  <2>1. QED
    BY <1>1, <1>2, <1>8, <1>9, FoldInduction
<1>11. Scale \in I[n]
  <2> HIDE DEF f, I
  <2>1. QED
    BY <1>1, <1>7, <1>10
<1>12. QED
  BY <1>1, <1>11

(* So a hit counts for the quotient by its rank, exactly. *)
LEMMA ReciprocalType ==
  ASSUME NEW s, Picks(s), NEW c
  PROVE  Reciprocal(s, c) \in Nat
<1>1. CASE Contains(s, c)
  <2>1. IndexIn(s, c) \in Nat /\ RRFK + IndexIn(s, c) \in Nat \ {0}
    BY <1>1, IndexType, RankingAssumption, SMTT(30) DEF Picks
  <2>2. Scale \in Nat
    BY ScaleExact
  <2>3. Scale \div (RRFK + IndexIn(s, c)) \in Nat
    BY <2>1, <2>2
  <2>4. QED
    BY <1>1, <2>3 DEF Reciprocal
<1>2. QED
  BY <1>1 DEF Reciprocal

LEMMA FusedScoreType ==
  ASSUME NEW V, NEW L, Picks(V), Picks(L), NEW c
  PROVE  FusedScore(V, L, c) \in Nat
BY ReciprocalType DEF FusedScore

(* FuseRRF returns what the two searches found, the greatest scores first. *)
LEMMA FuseSound ==
  ASSUME NEW data \in Infos, NEW V, NEW L, Picks(V), Picks(L), NEW limit \in Nat
  PROVE  \E s : /\ Picks(s) /\ ToSet(s) = ToSet(V) \cup ToSet(L)
                /\ Len(s) = Cardinality(ToSet(V) \cup ToSet(L))
                /\ \A i, j \in 1..Len(s) : i < j => FusedScore(V, L, s[j]) <= FusedScore(V, L, s[i])
                /\ FuseRRF(data, V, L, limit) = FirstOf(s, limit)
<1> DEFINE S == ToSet(V) \cup ToSet(L)
           score == [c \in Chunks |-> FusedScore(V, L, c)]
           tie == [c \in Chunks |-> IF Contains(V, c) THEN data[c].similarity ELSE 0]
           f == [c \in S |-> score[c]]
           g == [c \in S |-> tie[c]]
           Better(a, b) == Before(<<score[b], tie[b], a>>, <<score[a], tie[a], b>>)
           sorted == Sorted(S, Better)
<1>1. S \in SUBSET Nat /\ S \subseteq Chunks /\ IsFiniteSet(S)
  <2>1. S \subseteq Chunks
    BY DEF Picks, ToSet
  <2> HIDE DEF S
  <2>2. QED
    BY <2>1, RankingAssumption, FS_Subset
<1>2. score \in [Chunks -> Nat] /\ tie \in [Chunks -> Int]
  BY FusedScoreType DEF Infos
<1>3. f \in [S -> Int] /\ g \in [S -> Int]
  <2> HIDE DEF score, tie, S
  <2>1. QED
    BY <1>1, <1>2
<1>4. /\ Orders(ByScore(S, f, g), S)
      /\ \A a, b \in S : <<a, b>> \in ByScore(S, f, g) <=>
           f[b] < f[a] \/ (f[b] = f[a] /\ (g[b] < g[a] \/ (g[b] = g[a] /\ a < b)))
  <2> HIDE DEF f, g, S
  <2>1. QED
    BY <1>1, <1>3, ScoresOrder
<1>5. ASSUME NEW a \in S, NEW b \in S
      PROVE  Better(a, b) <=> <<a, b>> \in ByScore(S, f, g)
  <2> HIDE DEF score, tie, S
  <2>1. QED
    BY DEF ByScore
<1>6. ASSUME NEW a \in S, NEW b \in S, Better(a, b) PROVE score[b] <= score[a]
  <2>1. f[b] < f[a] \/ f[b] = f[a]
    <3> HIDE DEF f, g, S, Better
    <3>1. QED
      BY <1>4, <1>5, <1>6
  <2>2. score[a] \in Nat /\ score[b] \in Nat /\ f[a] = score[a] /\ f[b] = score[b]
    <3> HIDE DEF score, S
    <3>1. QED
      BY <1>1, <1>2
  <2> HIDE DEF f, score
  <2>3. QED
    BY <2>1, <2>2
<1>7. \E s \in SetToSeqs(S) : \A i, j \in DOMAIN s : i < j => Better(s[i], s[j])
  <2> HIDE DEF f, g, S, Better
  <2>1. PICK s \in SetToSeqs(S) : \A i, j \in DOMAIN s : i < j => <<s[i], s[j]>> \in ByScore(S, f, g)
    BY <1>1, <1>4, SortedExists
  <2>2. s \in Seq(S) /\ DOMAIN s = 1..Len(s)
    BY <1>1, SetToSeqsType
  <2>3. ASSUME NEW i \in DOMAIN s, NEW j \in DOMAIN s, i < j PROVE Better(s[i], s[j])
    <3>1. s[i] \in S /\ s[j] \in S
      BY <2>2
    <3>2. QED
      BY <1>5, <2>1, <2>3, <3>1
  <2>4. QED
    BY <2>3
<1>8. sorted \in SetToSeqs(S) /\ \A i, j \in DOMAIN sorted : i < j => Better(sorted[i], sorted[j])
  <2> HIDE DEF S, Better
  <2>1. QED
    BY <1>7 DEF Sorted
<1>9. FuseRRF(data, V, L, limit) = FirstOf(sorted, limit)
  BY DEF FuseRRF
<1> HIDE DEF sorted
<1>10. /\ Picks(sorted) /\ ToSet(sorted) = S /\ Len(sorted) = Cardinality(S)
       /\ DOMAIN sorted = 1..Len(sorted) /\ sorted \in Seq(S)
  <2> HIDE DEF S
  <2>1. QED
    BY <1>1, <1>8, SetToSeqsType, SeqMonotonic DEF Picks
<1>11. ASSUME NEW i \in 1..Len(sorted), NEW j \in 1..Len(sorted), i < j
       PROVE  FusedScore(V, L, sorted[j]) <= FusedScore(V, L, sorted[i])
  <2>1. sorted[i] \in S /\ sorted[j] \in S /\ Better(sorted[i], sorted[j])
    <3> HIDE DEF S, Better
    <3>1. QED
      BY <1>8, <1>10, <1>11
  <2>2. score[sorted[j]] <= score[sorted[i]]
    <3> HIDE DEF S, Better, score
    <3>1. QED
      BY <1>6, <2>1
  <2>3. sorted[i] \in Chunks /\ sorted[j] \in Chunks
    BY <1>1, <2>1
  <2>4. QED
    BY <2>2, <2>3
<1>12. QED
  BY <1>9, <1>10, <1>11

(* RerankShortlist returns some of the fused hits, at most TopK. *)
LEMMA RerankSound ==
  ASSUME NEW data \in Infos, NEW V, NEW L, Picks(V), Picks(L), NEW F, Picks(F)
  PROVE  LET r == RerankShortlist(data, V, L, F)
         IN  Picks(r) /\ ToSet(r) \subseteq ToSet(F) /\ Len(r) <= TopK
<1> DEFINE short == FirstOf(F, RerankShortlistSize(Len(F)))
           S == ToSet(short)
           score == [c \in Chunks |-> FusedScore(V, L, c) + data[c].words * Scale]
           f == [c \in S |-> score[c]]
           g == [c \in S |-> 0]
           Better(a, b) == Before(<<score[b], a>>, <<score[a], b>>)
           sorted == Sorted(S, Better)
<1>1. RerankShortlistSize(Len(F)) \in Nat
  BY SizeType DEF Picks
<1>2. Picks(short) /\ S \subseteq ToSet(F)
  BY <1>1, FirstPicks
<1>3. S \in SUBSET Nat /\ S \subseteq Chunks /\ IsFiniteSet(S)
  <2>1. S \subseteq Chunks
    <3> HIDE DEF short
    <3>1. QED
      BY <1>2 DEF Picks, ToSet
  <2> HIDE DEF S
  <2>2. QED
    BY <2>1, RankingAssumption, FS_Subset
<1>4. score \in [Chunks -> Int]
  <2>1. ASSUME NEW c \in Chunks PROVE FusedScore(V, L, c) + data[c].words * Scale \in Int
    <3>1. FusedScore(V, L, c) \in Nat /\ data[c].words \in Nat /\ Scale \in Nat
      BY FusedScoreType, ScaleExact DEF Infos
    <3>2. QED
      BY <3>1
  <2>2. QED
    BY <2>1
<1>5. f \in [S -> Int] /\ g \in [S -> Int]
  <2> HIDE DEF score, S
  <2>1. QED
    BY <1>3, <1>4
<1>6. /\ Orders(ByScore(S, f, g), S)
      /\ \A a, b \in S : <<a, b>> \in ByScore(S, f, g) <=>
           f[b] < f[a] \/ (f[b] = f[a] /\ (g[b] < g[a] \/ (g[b] = g[a] /\ a < b)))
  <2> HIDE DEF f, g, S
  <2>1. QED
    BY <1>3, <1>5, ScoresOrder
<1>7. ASSUME NEW a \in S, NEW b \in S, <<a, b>> \in ByScore(S, f, g) PROVE Better(a, b)
  <2> HIDE DEF score, S
  <2>1. g[a] = 0 /\ g[b] = 0 /\ f[a] = score[a] /\ f[b] = score[b]
    OBVIOUS
  <2>2. score[b] < score[a] \/ (score[b] = score[a] /\ a < b)
    <3> HIDE DEF f, g
    <3>1. QED
      BY <1>6, <1>7, <2>1
  <2>3. score[a] \in Int /\ score[b] \in Int /\ a \in Int /\ b \in Int
    BY <1>3, <1>4
  <2>4. QED
    BY <2>2, <2>3, BeforePair
<1>8. \E s \in SetToSeqs(S) : \A i, j \in DOMAIN s : i < j => Better(s[i], s[j])
  <2> HIDE DEF f, g, S, Better
  <2>1. PICK s \in SetToSeqs(S) : \A i, j \in DOMAIN s : i < j => <<s[i], s[j]>> \in ByScore(S, f, g)
    BY <1>3, <1>6, SortedExists
  <2>2. s \in Seq(S) /\ DOMAIN s = 1..Len(s)
    BY <1>3, SetToSeqsType
  <2>3. ASSUME NEW i \in DOMAIN s, NEW j \in DOMAIN s, i < j PROVE Better(s[i], s[j])
    <3>1. s[i] \in S /\ s[j] \in S
      BY <2>2
    <3>2. QED
      BY <1>7, <2>1, <2>3, <3>1
  <2>4. QED
    BY <2>3
<1>9. sorted \in SetToSeqs(S)
  <2> HIDE DEF S, Better
  <2>1. QED
    BY <1>8 DEF Sorted
<1>10. RerankShortlist(data, V, L, F) = FirstOf(sorted, TopK)
  BY DEF RerankShortlist
<1> HIDE DEF sorted
<1>11. Picks(sorted) /\ ToSet(sorted) = S
  <2> HIDE DEF S
  <2>1. QED
    BY <1>3, <1>9, SetToSeqsType, SeqMonotonic DEF Picks
<1>12. TopK \in Nat /\ Len(sorted) \in Nat
  BY <1>11, RankingAssumption DEF Picks
<1> HIDE DEF S
<1>13. Picks(FirstOf(sorted, TopK)) /\ ToSet(FirstOf(sorted, TopK)) \subseteq S /\ Len(FirstOf(sorted, TopK)) <= TopK
  BY <1>11, <1>12, FirstPicks
<1>14. QED
  BY <1>2, <1>10, <1>13

(* openAIReranker.Rerank: the same of what a model answers. *)
LEMMA ModelRerankSound ==
  ASSUME NEW F, Picks(F), NEW answer \in Seq(Nat \ {0})
  PROVE  LET r == ModelRerank(F, answer)
         IN  /\ r.ok \in BOOLEAN /\ Picks(r.hits)
             /\ ToSet(r.hits) \subseteq ToSet(F) /\ Len(r.hits) <= TopK
<1> DEFINE n == Len(answer)
           size == RerankShortlistSize(Len(F))
           limit == Min({TopK, Len(answer)})
           B == [hits : Seq(Chunks), ok : BOOLEAN]
           base == [hits |-> <<>>, ok |-> TRUE]
           After(a, i) == IF Len(a.hits) = limit \/ ~a.ok THEN a
                          ELSE IF i > size THEN [a EXCEPT !.ok = FALSE]
                          ELSE IF Contains(a.hits, F[i]) THEN a
                          ELSE [a EXCEPT !.hits = Append(@, F[i])]
           step == [k \in 1..n |-> [a \in B |-> After(a, answer[k])]]
           Eq(h) == h = [t \in SUBSET DOMAIN answer |->
                           IF t = {} THEN base ELSE After(h[t \ {Max(t)}], answer[Max(t)])]
           f == CHOOSE h : Eq(h)
           Good == {a \in B : Picks(a.hits) /\ ToSet(a.hits) \subseteq ToSet(F) /\ Len(a.hits) <= limit}
           I == [k \in 0..n |-> Good]
<1>1. n \in Nat /\ DOMAIN answer = 1..n /\ \A k \in 1..n : answer[k] \in Nat \ {0}
  OBVIOUS
<1>2. F \in Seq(Chunks) /\ size \in 0..Len(F) /\ Len(F) \in Nat
  BY SizeType DEF Picks
<1>3. limit \in Nat /\ limit <= TopK
  <2>1. TopK \in Nat
    BY RankingAssumption
  <2>2. limit = IF TopK <= n THEN TopK ELSE n
    BY <1>1, <2>1, MinOfTwo
  <2>3. n \in Nat
    BY <1>1
  <2> HIDE DEF limit, n
  <2>4. QED
    BY <2>1, <2>2, <2>3
<1> HIDE DEF limit, size
<1>4. ASSUME NEW a \in B, NEW i \in Nat \ {0}
      PROVE  After(a, i) \in B /\ (a \in Good => After(a, i) \in Good)
  <2>1. CASE Len(a.hits) = limit \/ ~a.ok
    BY <2>1
  <2>2. CASE ~(Len(a.hits) = limit \/ ~a.ok) /\ i > size
    <3>1. After(a, i) = [hits |-> a.hits, ok |-> FALSE]
      BY <2>2
    <3>2. QED
      BY <3>1
  <2>3. CASE ~(Len(a.hits) = limit \/ ~a.ok) /\ ~(i > size) /\ Contains(a.hits, F[i])
    BY <2>3
  <2>4. CASE ~(Len(a.hits) = limit \/ ~a.ok) /\ ~(i > size) /\ ~Contains(a.hits, F[i])
    <3> DEFINE b == Append(a.hits, F[i])
    <3>1. i \in 1..Len(F) /\ F[i] \in Chunks
      BY <1>2, <2>4
    <3>2. a.hits \in Seq(Chunks) /\ a.ok \in BOOLEAN
      OBVIOUS
    <3>3. After(a, i) = [hits |-> b, ok |-> a.ok]
      BY <2>4
    <3>4. b \in Seq(Chunks) /\ Len(b) = Len(a.hits) + 1 /\ Len(a.hits) \in Nat
      BY <3>1, <3>2
    <3>5. After(a, i) \in B
      BY <3>2, <3>3, <3>4
    <3>6. b[Len(a.hits) + 1] = F[i] /\ \A j \in 1..Len(a.hits) : b[j] = a.hits[j]
      BY <3>1, <3>2
    <3> HIDE DEF b, B, After
    <3>7. ASSUME a \in Good PROVE After(a, i) \in Good
      <4>1. Picks(a.hits) /\ ToSet(a.hits) \subseteq ToSet(F) /\ Len(a.hits) <= limit /\ Len(a.hits) # limit
        BY <2>4, <3>7
      <4>2. \A j \in 1..Len(a.hits) : a.hits[j] # F[i]
        BY <2>4 DEF Contains
      <4>3. ASSUME NEW j \in 1..Len(b), NEW m \in 1..Len(b), j # m PROVE b[j] # b[m]
        <5>1. CASE j \in 1..Len(a.hits) /\ m \in 1..Len(a.hits)
          BY <3>6, <4>1, <4>3, <5>1 DEF Picks
        <5>2. CASE j \in 1..Len(a.hits) /\ m = Len(a.hits) + 1
          BY <3>6, <4>2, <5>2
        <5>3. CASE j = Len(a.hits) + 1 /\ m \in 1..Len(a.hits)
          BY <3>6, <4>2, <5>3
        <5>4. PICK len \in Nat : len = Len(a.hits) /\ Len(b) = len + 1
          BY <3>4
        <5>5. \/ j \in 1..len /\ m \in 1..len
              \/ j \in 1..len /\ m = len + 1
              \/ j = len + 1 /\ m \in 1..len
          BY <4>3, <5>4
        <5>6. QED
          BY <5>1, <5>2, <5>3, <5>4, <5>5
      <4>4. Picks(b)
        BY <3>4, <4>3 DEF Picks
      <4>5. ToSet(b) \subseteq ToSet(F)
        <5>1. DOMAIN b = 1..(Len(a.hits) + 1) /\ DOMAIN a.hits = 1..Len(a.hits) /\ DOMAIN F = 1..Len(F)
          BY <1>2, <3>2, <3>4
        <5>2. ASSUME NEW j \in DOMAIN b PROVE b[j] \in ToSet(F)
          <6>1. CASE j = Len(a.hits) + 1
            BY <3>1, <3>6, <5>1, <6>1 DEF ToSet
          <6>2. CASE j \in 1..Len(a.hits)
            BY <3>6, <4>1, <5>1, <6>2 DEF ToSet
          <6>3. QED
            BY <3>4, <5>1, <5>2, <6>1, <6>2
        <5>3. QED
          BY <5>2 DEF ToSet
      <4>6. Len(b) <= limit
        BY <1>3, <3>4, <4>1
      <4>7. After(a, i).hits = b
        BY <3>3
      <4>8. QED
        BY <3>5, <4>4, <4>5, <4>6, <4>7
    <3>8. QED
      BY <3>5, <3>7
  <2>5. QED
    BY <2>1, <2>2, <2>3, <2>4
<1>5. base \in B /\ base \in Good
  <2>1. Picks(<<>>) /\ ToSet(<<>>) = {} /\ Len(<<>>) = 0
    BY DEF Picks, ToSet
  <2>2. base \in B
    OBVIOUS
  <2>3. QED
    BY <1>3, <2>1, <2>2
<1>6. ModelRerank(F, answer) = f[DOMAIN answer]
  BY DEF ModelRerank, FoldLeft, MapThenFoldSet, limit, size
<1> HIDE DEF After, base
<1>7. step \in [1..n -> [B -> B]]
  <2> HIDE DEF B, Good
  <2>1. QED
    BY <1>1, <1>4
<1>8. \A t \in SUBSET (1..n) : t # {} => Max(t) \in 1..n
  BY <1>1, MaxOfSome
<1>9. PICK g : IsFold(g, B, base, n, step)
  <2> HIDE DEF n, step, B
  <2>1. QED
    BY <1>1, <1>5, <1>7, FoldExists
<1>10. Eq(g)
  <2>1. g = [t \in SUBSET (1..n) |-> g[t]] /\ \A t \in SUBSET (1..n) : g[t \ {Max(t)}] \in B
    BY <1>9 DEF IsFold
  <2>2. ASSUME NEW t \in SUBSET (1..n), t # {} PROVE g[t] = After(g[t \ {Max(t)}], answer[Max(t)])
    <3>1. g[t] = step[Max(t)][g[t \ {Max(t)}]]
      BY <1>9, <2>2 DEF IsFold
    <3> HIDE DEF B
    <3>2. QED
      BY <1>8, <2>1, <2>2, <3>1
  <2>3. g[{}] = base
    BY <1>9 DEF IsFold
  <2> HIDE DEF n, step, B
  <2>4. QED
    BY <1>1, <2>1, <2>2, <2>3
<1>11. Eq(f)
  <2> HIDE DEF Eq
  <2>1. QED
    BY <1>10
<1>12. FoldsWithin(f, B, base, n, step)
  <2>1. f[{}] = base
    <3> HIDE DEF f
    <3>1. QED
      BY <1>11
  <2>2. ASSUME NEW t \in SUBSET (1..n), t # {}, f[t \ {Max(t)}] \in B
        PROVE  f[t] = step[Max(t)][f[t \ {Max(t)}]]
    <3> HIDE DEF f, B
    <3>1. f[t] = After(f[t \ {Max(t)}], answer[Max(t)])
      BY <1>1, <1>11, <2>2
    <3>2. Max(t) \in 1..n
      BY <1>8, <2>2
    <3>3. QED
      BY <2>2, <3>1, <3>2
  <2> HIDE DEF n, step, f, B
  <2>3. QED
    BY <2>1, <2>2 DEF FoldsWithin
<1>13. Inductive(I, B, base, n, step)
  <2>1. I \in [0..n -> SUBSET B] /\ base \in I[0]
    BY <1>1, <1>5
  <2>2. ASSUME NEW k \in 1..n, NEW a \in I[k - 1] PROVE step[k][a] \in I[k]
    <3>1. a \in Good /\ a \in B /\ I[k] = Good
      BY <1>1
    <3>2. step[k][a] = After(a, answer[k])
      <4> HIDE DEF B, Good, I
      <4>1. QED
        BY <3>1
    <3> HIDE DEF B, Good, step
    <3>3. QED
      BY <1>1, <1>4, <3>1, <3>2
  <2> HIDE DEF I, step, B
  <2>3. QED
    BY <2>1, <2>2 DEF Inductive
<1>14. f[1..n] \in I[n]
  <2> HIDE DEF n, step, f, B, I
  <2>1. QED
    BY <1>1, <1>5, <1>7, <1>12, <1>13, FoldInduction
<1>15. ModelRerank(F, answer) \in Good
  <2> HIDE DEF f, Good
  <2>1. QED
    BY <1>1, <1>6, <1>14
<1>16. QED
  <2>1. PICK r \in Good : r = ModelRerank(F, answer)
    BY <1>15
  <2>2. Len(r.hits) \in Nat /\ TopK \in Nat
    BY RankingAssumption DEF Picks
  <2>3. Len(r.hits) <= TopK
    BY <1>3, <2>2
  <2>4. QED
    BY <2>1, <2>3
-----------------------------------------------------------------------------
Evidences == [kept : Seq(Chunks), used : Nat, seen : SUBSET Chunks, full : BOOLEAN]

LEMMA CutType ==
  ASSUME NEW kept, NEW c \in Chunks
  PROVE  /\ CutLength(kept, c) \in Nat \ {0}
         /\ kept = <<>> /\ MaxChars > PrefixLength => PrefixLength + CutLength(kept, c) <= MaxChars
         /\ ~(kept = <<>> /\ MaxChars > PrefixLength) => CutLength(kept, c) = TextLength[c]
<1>1. TextLength[c] \in Nat \ {0} /\ MaxChars \in Nat /\ PrefixLength \in Nat
  BY RankingAssumption
<1>2. TextLength[c] > 0
  BY <1>1
<1>3. CASE kept = <<>> /\ MaxChars > PrefixLength
  <2>1. MaxChars - PrefixLength \in Nat /\ MaxChars - PrefixLength > 0
    BY <1>1, <1>3
  <2>2. CutLength(kept, c) = IF TextLength[c] <= MaxChars - PrefixLength THEN TextLength[c] ELSE MaxChars - PrefixLength
    BY <1>1, <1>3, <2>1, MinOfTwo DEF CutLength
  <2>3. QED
    BY <1>1, <1>2, <1>3, <2>1, <2>2
<1>4. CASE ~(kept = <<>> /\ MaxChars > PrefixLength)
  BY <1>1, <1>4 DEF CutLength
<1>5. QED
  BY <1>3, <1>4

(* What AssembleContext makes of one more hit. *)
EntryLength(acc, c) == (IF acc.used > 0 THEN 2 ELSE 0) + PrefixLength + CutLength(acc.kept, c)
Enter(acc, c) ==
  LET fits == acc.used + EntryLength(acc, c) <= MaxChars IN
  IF acc.full \/ c \in acc.seen THEN acc
  ELSE [kept |-> IF fits THEN Append(acc.kept, c) ELSE acc.kept,
        used |-> IF fits THEN acc.used + EntryLength(acc, c) ELSE acc.used,
        seen |-> acc.seen \cup {c},
        full |-> ~fits /\ acc.kept # <<>>]

LEMMA EnterType ==
  ASSUME NEW a \in Evidences, NEW c \in Chunks
  PROVE  EntryLength(a, c) \in Nat /\ Enter(a, c) \in Evidences
<1>1. EntryLength(a, c) \in Nat
  <2>1. a.used \in Nat /\ PrefixLength \in Nat /\ CutLength(a.kept, c) \in Nat
    BY CutType, RankingAssumption DEF Evidences
  <2>2. QED
    BY <2>1 DEF EntryLength
<1>2. /\ a.kept \in Seq(Chunks) /\ a.used \in Nat /\ a.seen \subseteq Chunks /\ a.full \in BOOLEAN
      /\ Append(a.kept, c) \in Seq(Chunks) /\ a.used + EntryLength(a, c) \in Nat
  BY <1>1 DEF Evidences
<1>3. QED
  BY <1>1, <1>2 DEF Enter, Evidences

(* The evidence after the first k hits of h. *)
Assembled(h, k, a) ==
  /\ a \in Evidences /\ a.used <= MaxChars
  /\ Len(a.kept) <= k /\ \A i \in 1..Len(a.kept) : a.kept[i] = h[i]
  /\ a.seen \subseteq {h[i] : i \in 1..k}
  /\ a.full => a.kept # <<>>
  /\ ~a.full /\ a.kept # <<>> => Len(a.kept) = k
  /\ a.kept = <<>> => a.used = 0 /\ (k > 0 => MaxChars <= PrefixLength)
  /\ \A i \in 2..Len(a.kept) : TextLength[a.kept[i]] + PrefixLength <= MaxChars

LEMMA EnterStep ==
  ASSUME NEW h, Picks(h), NEW k \in 1..Len(h), NEW a, Assembled(h, k - 1, a)
  PROVE  Assembled(h, k, Enter(a, h[k]))
<1> DEFINE x == h[k]
           m == Len(a.kept)
           fits == a.used + EntryLength(a, x) <= MaxChars
<1>1. /\ k \in Nat /\ k > 0 /\ h \in Seq(Chunks) /\ x \in Chunks
      /\ MaxChars \in Nat /\ PrefixLength \in Nat /\ TextLength[x] \in Nat \ {0}
  <2>1. h \in Seq(Chunks) /\ k \in Nat /\ k > 0
    BY DEF Picks
  <2>2. x \in Chunks
    BY <2>1
  <2> HIDE DEF x
  <2>3. QED
    BY <2>1, <2>2, RankingAssumption
<1>2. /\ a \in Evidences /\ a.kept \in Seq(Chunks) /\ a.used \in Nat /\ a.used <= MaxChars
      /\ m \in Nat /\ m <= k - 1 /\ \A i \in 1..m : a.kept[i] = h[i]
      /\ a.kept = <<>> <=> m = 0
  BY DEF Assembled, Evidences
<1>3. x \notin a.seen
  <2>1. \A i \in 1..(k - 1) : i \in 1..Len(h) /\ i # k
    BY <1>1
  <2>2. \A i \in 1..(k - 1) : h[i] # x
    BY <2>1 DEF Picks
  <2>3. QED
    BY <2>2 DEF Assembled
<1>4. Enter(a, x) \in Evidences /\ EntryLength(a, x) \in Nat
  BY <1>1, <1>2, EnterType
<1>5. \A b : b \subseteq {h[i] : i \in 1..(k - 1)} \cup {x} => b \subseteq {h[i] : i \in 1..k}
  <2>1. {h[i] : i \in 1..(k - 1)} \subseteq {h[i] : i \in 1..k} /\ x \in {h[i] : i \in 1..k}
    BY <1>1
  <2>2. QED
    BY <2>1
<1>6. a.seen \subseteq {h[i] : i \in 1..(k - 1)}
  BY DEF Assembled
<1>7. CASE a.full
  <2>1. Enter(a, x) = a
    BY <1>7 DEF Enter
  <2>2. a.seen \subseteq {h[i] : i \in 1..k} /\ m <= k
    BY <1>1, <1>2, <1>5, <1>6
  <2>3. QED
    BY <1>7, <2>1, <2>2 DEF Assembled
<1>8. CASE ~a.full /\ fits
  <2> DEFINE b == Append(a.kept, x)
  <2>1. /\ Enter(a, x).kept = b /\ Enter(a, x).used = a.used + EntryLength(a, x)
        /\ Enter(a, x).seen = a.seen \cup {x} /\ Enter(a, x).full = FALSE
    BY <1>3, <1>8 DEF Enter
  <2>2. b # <<>> /\ Len(b) = m + 1 /\ b[m + 1] = x /\ \A i \in 1..m : b[i] = a.kept[i]
    BY SMTT(30), <1>1, <1>2
  <2>3. m = k - 1
    <3>1. CASE m = 0
      <4>1. SUFFICES ASSUME k - 1 > 0 PROVE FALSE
        BY <1>1, <3>1
      <4>2. MaxChars <= PrefixLength
        BY <1>2, <3>1, <4>1 DEF Assembled
      <4>3. CutLength(a.kept, x) \in Nat \ {0}
        BY <1>1, CutType
      <4>4. EntryLength(a, x) > PrefixLength
        BY <1>1, <1>2, <4>3 DEF EntryLength
      <4>5. QED
        BY <1>1, <1>2, <1>4, <1>8, <4>2, <4>4
    <3>2. CASE m # 0
      BY <1>2, <1>8, <3>2 DEF Assembled
    <3>3. QED
      BY <3>1, <3>2
  <2> HIDE DEF b
  <2>4. Len(b) = k /\ \A i \in 1..Len(b) : b[i] = h[i]
    <3>1. Len(b) = k
      BY <1>1, <2>2, <2>3
    <3>2. ASSUME NEW i \in 1..Len(b) PROVE b[i] = h[i]
      <4>1. CASE i = k
        BY <2>2, <2>3, <4>1, <1>1
      <4>2. CASE i \in 1..m
        BY <1>2, <2>2, <4>2
      <4>3. QED
        BY <1>1, <2>3, <3>1, <4>1, <4>2
    <3>3. QED
      BY <3>1, <3>2
  <2>5. ASSUME NEW i \in 2..Len(b) PROVE TextLength[b[i]] + PrefixLength <= MaxChars
    <3>1. CASE i = k
      <4>1. m # 0 /\ b[i] = x
        BY <1>1, <2>2, <2>3, <2>5, <3>1
      <4>2. CutLength(a.kept, x) = TextLength[x]
        BY <1>1, <1>2, <4>1, CutType
      <4>3. EntryLength(a, x) >= PrefixLength + TextLength[x]
        BY <1>1, <1>2, <4>2 DEF EntryLength
      <4>4. QED
        BY SMTT(30), <1>1, <1>2, <1>4, <1>8, <4>1, <4>3
    <3>2. CASE i < k
      <4>1. i \in 2..m /\ b[i] = a.kept[i]
        BY <1>1, <2>2, <2>3, <3>2
      <4>2. QED
        BY <4>1 DEF Assembled
    <3>3. QED
      BY <1>1, <2>4, <2>5, <3>1, <3>2
  <2>6. Enter(a, x).seen \subseteq {h[i] : i \in 1..k}
    BY <1>5, <1>6, <2>1
  <2> HIDE DEF x
  <2>7. QED
    BY <1>1, <1>4, <1>8, <2>1, <2>2, <2>4, <2>5, <2>6 DEF Assembled, x
<1>9. CASE ~a.full /\ ~fits
  <2>1. /\ Enter(a, x).kept = a.kept /\ Enter(a, x).used = a.used
        /\ Enter(a, x).seen = a.seen \cup {x} /\ Enter(a, x).full = (a.kept # <<>>)
    BY <1>3, <1>9 DEF Enter
  <2>2. Enter(a, x).seen \subseteq {h[i] : i \in 1..k}
    BY <1>5, <1>6, <2>1
  <2>3. ASSUME a.kept = <<>> PROVE a.used = 0 /\ MaxChars <= PrefixLength
    <3>1. a.used = 0
      BY <2>3 DEF Assembled
    <3>2. SUFFICES ASSUME MaxChars > PrefixLength PROVE FALSE
      BY <1>1, <3>1
    <3>3. CutLength(a.kept, x) \in Nat /\ PrefixLength + CutLength(a.kept, x) <= MaxChars
      BY <1>1, <2>3, <3>2, CutType
    <3>4. EntryLength(a, x) <= MaxChars
      BY <1>1, <3>1, <3>3 DEF EntryLength
    <3>5. QED
      BY <1>4, <1>9, <3>1, <3>4
  <2>4. m <= k
    BY <1>1, <1>2
  <2>5. QED
    BY <1>2, <1>4, <2>1, <2>2, <2>3, <2>4 DEF Assembled
<1>10. QED
  BY <1>7, <1>8, <1>9

(* The evidence fits, is what the hits begin with, and is not empty if     *)
(* there is a hit and the prefix of the first leaves room.                 *)
LEMMA AssembleSound ==
  ASSUME NEW h, Picks(h)
  PROVE  LET e == AssembleContext(h)
         IN  /\ e \in Evidences /\ e.used <= MaxChars
             /\ IsPrefix(e.kept, h)
             /\ h # <<>> /\ MaxChars > PrefixLength => e.kept # <<>>
             /\ \A i \in 2..Len(e.kept) : TextLength[e.kept[i]] + PrefixLength <= MaxChars
<1> DEFINE n == Len(h)
           B == Evidences
           base == [kept |-> <<>>, used |-> 0, seen |-> {}, full |-> FALSE]
           step == [k \in 1..n |-> [a \in B |-> Enter(a, h[k])]]
           Eq(f) == f = [t \in SUBSET DOMAIN h |-> IF t = {} THEN base ELSE Enter(f[t \ {Max(t)}], h[Max(t)])]
           f == CHOOSE fold : Eq(fold)
           I == [k \in 0..n |-> {a \in B : Assembled(h, k, a)}]
<1>1. n \in Nat /\ DOMAIN h = 1..n /\ h \in Seq(Chunks) /\ \A k \in 1..n : h[k] \in Chunks
  BY DEF Picks
<1>2. base \in B /\ Assembled(h, 0, base)
  <2>1. base \in B
    BY DEF Evidences
  <2>2. MaxChars \in Nat
    BY RankingAssumption
  <2>3. QED
    BY <2>1, <2>2 DEF Assembled
<1>3. AssembleContext(h) = f[DOMAIN h]
  BY DEF AssembleContext, FoldLeft, MapThenFoldSet, Enter, EntryLength
<1> HIDE DEF base
<1>4. step \in [1..n -> [B -> B]]
  BY <1>1, EnterType
<1>5. \A t \in SUBSET (1..n) : t # {} => Max(t) \in 1..n
  BY <1>1, MaxOfSome
<1>6. PICK g : IsFold(g, B, base, n, step)
  <2> HIDE DEF n, step, B
  <2>1. QED
    BY <1>1, <1>2, <1>4, FoldExists
<1>7. Eq(g)
  <2>1. g = [t \in SUBSET (1..n) |-> g[t]] /\ \A t \in SUBSET (1..n) : g[t \ {Max(t)}] \in B
    BY <1>6 DEF IsFold
  <2>2. ASSUME NEW t \in SUBSET (1..n), t # {} PROVE g[t] = Enter(g[t \ {Max(t)}], h[Max(t)])
    <3>1. g[t] = step[Max(t)][g[t \ {Max(t)}]]
      BY <1>6, <2>2 DEF IsFold
    <3> HIDE DEF B
    <3>2. QED
      BY <1>5, <2>1, <2>2, <3>1
  <2>3. g[{}] = base
    BY <1>6 DEF IsFold
  <2> HIDE DEF n, step, B
  <2>4. QED
    BY <1>1, <2>1, <2>2, <2>3
<1>8. Eq(f)
  <2> HIDE DEF Eq
  <2>1. QED
    BY <1>7
<1>9. FoldsWithin(f, B, base, n, step)
  <2>1. f[{}] = base
    <3> HIDE DEF f
    <3>1. QED
      BY <1>8
  <2>2. ASSUME NEW t \in SUBSET (1..n), t # {}, f[t \ {Max(t)}] \in B
        PROVE  f[t] = step[Max(t)][f[t \ {Max(t)}]]
    <3> HIDE DEF f, B
    <3>1. f[t] = Enter(f[t \ {Max(t)}], h[Max(t)])
      BY <1>1, <1>8, <2>2
    <3>2. Max(t) \in 1..n
      BY <1>5, <2>2
    <3>3. QED
      BY <2>2, <3>1, <3>2
  <2> HIDE DEF n, step, f, B
  <2>3. QED
    BY <2>1, <2>2 DEF FoldsWithin
<1>10. Inductive(I, B, base, n, step)
  <2>1. I \in [0..n -> SUBSET B] /\ base \in I[0]
    BY <1>1, <1>2
  <2>2. ASSUME NEW k \in 1..n, NEW a \in I[k - 1] PROVE step[k][a] \in I[k]
    <3>1. a \in B /\ Assembled(h, k - 1, a)
      BY <1>1
    <3>2. Assembled(h, k, Enter(a, h[k]))
      BY <3>1, EnterStep
    <3>3. step[k][a] = Enter(a, h[k])
      <4> HIDE DEF B, I
      <4>1. QED
        BY <3>1
    <3>4. Enter(a, h[k]) \in B
      BY <1>1, <3>1, EnterType
    <3> HIDE DEF B, step
    <3>5. QED
      BY <3>2, <3>3, <3>4
  <2> HIDE DEF I, step, B
  <2>3. QED
    BY <2>1, <2>2 DEF Inductive
<1>11. f[1..n] \in I[n]
  <2> HIDE DEF n, step, f, B, I
  <2>1. QED
    BY <1>1, <1>2, <1>4, <1>9, <1>10, FoldInduction
<1>12. Assembled(h, n, AssembleContext(h))
  <2> HIDE DEF f
  <2>1. QED
    BY <1>1, <1>3, <1>11
<1>13. PICK e \in Evidences : e = AssembleContext(h) /\ Assembled(h, n, e)
  BY <1>12 DEF Assembled
<1>14. e.kept \in Seq(Chunks) /\ Len(e.kept) <= n /\ \A i \in 1..Len(e.kept) : e.kept[i] = h[i]
  BY <1>13 DEF Assembled, Evidences
<1>15. IsPrefix(e.kept, h)
  <2>1. PICK p \in Seq(Chunks) : p = e.kept
    BY <1>14
  <2>2. Len(p) \in Nat /\ Len(p) <= n /\ \A i \in 1..Len(p) : p[i] = h[i] /\ h[i] \in Chunks
    BY <1>1, <1>14, <2>1
  <2>3. /\ SubSeq(h, 1, Len(p)) \in Seq(Chunks) /\ Len(SubSeq(h, 1, Len(p))) = Len(p)
        /\ \A i \in 1..Len(p) : SubSeq(h, 1, Len(p))[i] = h[i]
    BY <1>1, <2>2
  <2>4. /\ SubSeq(p, 1, Len(p)) = p
    BY SubSeqFull
  <2>5. p = SubSeq(h, 1, Len(p))
    BY <2>2, <2>3, SeqEqual
  <2>6. QED
    BY <2>1, <2>2, <2>4, <2>5 DEF IsPrefix
<1>16. h # <<>> /\ MaxChars > PrefixLength => e.kept # <<>>
  <2>1. h # <<>> => n > 0
    BY <1>1
  <2>2. MaxChars \in Nat /\ PrefixLength \in Nat
    BY RankingAssumption
  <2>3. QED
    BY <1>13, <2>1, <2>2 DEF Assembled
<1>17. QED
  BY <1>13, <1>15, <1>16 DEF Assembled
-----------------------------------------------------------------------------
Histories == [used : Nat, dropped : Nat, kept : SUBSET Nat]

LEMMA BudgetType ==
  /\ Budget.prompt \in Nat /\ Budget.history \in Nat /\ Budget.evidence \in Nat /\ Budget.memory \in Nat
  /\ Budget.summary \in Nat /\ Budget.base \in Nat /\ Budget.label \in Nat /\ Budget.hardening \in Nat
BY RankingAssumption

(* The turns that are kept fit the budget of the history. *)
LEMMA CompactSound ==
  ASSUME NEW turns \in Seq(Nat)
  PROVE  CompactHistory(turns) \in Histories /\ CompactHistory(turns).used <= Budget.history
<1> DEFINE n == Len(turns)
           B == Histories
           base == [used |-> 0, dropped |-> 0, kept |-> {}]
           s == [i \in DOMAIN turns |-> i]
           After(a, i) ==
             LET turn == turns[Len(turns) + 1 - i] IN
             IF a.used + turn > Budget.history THEN [a EXCEPT !.dropped = @ + turn]
             ELSE [a EXCEPT !.used = @ + turn, !.kept = @ \cup {Len(turns) + 1 - i}]
           step == [k \in 1..n |-> [a \in B |-> After(a, k)]]
           Eq(h) == h = [t \in SUBSET DOMAIN s |-> IF t = {} THEN base ELSE After(h[t \ {Max(t)}], s[Max(t)])]
           f == CHOOSE h : Eq(h)
           Good == {a \in B : a.used <= Budget.history}
           I == [k \in 0..n |-> Good]
<1>1. n \in Nat /\ DOMAIN s = 1..n /\ \A k \in 1..n : s[k] = k
  OBVIOUS
<1>2. base \in B /\ base \in Good
  <2>1. base \in B
    BY DEF Histories
  <2>2. QED
    BY <2>1, BudgetType
<1>3. ASSUME NEW k \in 1..n, NEW a \in B
      PROVE  After(a, k) \in B /\ (a \in Good => After(a, k) \in Good)
  <2> DEFINE turn == turns[Len(turns) + 1 - k]
  <2>1. turn \in Nat /\ Len(turns) + 1 - k \in Nat
    OBVIOUS
  <2>2. a.used \in Nat /\ a.dropped \in Nat /\ a.kept \subseteq Nat
    BY DEF Histories
  <2>3. CASE a.used + turn > Budget.history
    <3>1. After(a, k) = [used |-> a.used, dropped |-> a.dropped + turn, kept |-> a.kept]
      BY <2>3 DEF Histories
    <3>2. a.dropped + turn \in Nat
      BY <2>1, <2>2
    <3> HIDE DEF turn
    <3>3. After(a, k) \in B
      BY <2>2, <3>1, <3>2 DEF Histories
    <3>4. QED
      BY <3>1, <3>3
  <2>4. CASE ~(a.used + turn > Budget.history)
    <3>1. After(a, k) = [used |-> a.used + turn, dropped |-> a.dropped, kept |-> a.kept \cup {Len(turns) + 1 - k}]
      BY <2>4 DEF Histories
    <3>2. a.used + turn \in Nat
      BY <2>1, <2>2
    <3>3. a.used + turn <= Budget.history
      BY SMTT(30), <2>4, <3>2, BudgetType
    <3> HIDE DEF turn
    <3>4. After(a, k) \in B
      BY <2>1, <2>2, <3>1, <3>2 DEF Histories
    <3>5. QED
      BY <3>1, <3>3, <3>4
  <2>5. QED
    BY <2>3, <2>4
<1>4. CompactHistory(turns) = f[DOMAIN s]
  BY DEF CompactHistory, FoldLeft, MapThenFoldSet
<1> HIDE DEF After, base
<1>5. step \in [1..n -> [B -> B]]
  <2> HIDE DEF B, Good
  <2>1. QED
    BY <1>1, <1>3
<1>6. \A t \in SUBSET (1..n) : t # {} => Max(t) \in 1..n
  BY <1>1, MaxOfSome
<1>7. PICK g : IsFold(g, B, base, n, step)
  <2> HIDE DEF n, step, B
  <2>1. QED
    BY <1>1, <1>2, <1>5, FoldExists
<1>8. Eq(g)
  <2>1. g = [t \in SUBSET (1..n) |-> g[t]] /\ \A t \in SUBSET (1..n) : g[t \ {Max(t)}] \in B
    BY <1>7 DEF IsFold
  <2>2. ASSUME NEW t \in SUBSET (1..n), t # {} PROVE g[t] = After(g[t \ {Max(t)}], s[Max(t)])
    <3>1. g[t] = step[Max(t)][g[t \ {Max(t)}]]
      BY <1>7, <2>2 DEF IsFold
    <3> HIDE DEF B, s
    <3>2. QED
      BY <1>1, <1>6, <2>1, <2>2, <3>1
  <2>3. g[{}] = base
    BY <1>7 DEF IsFold
  <2> HIDE DEF n, step, B, s
  <2>4. QED
    BY <1>1, <2>1, <2>2, <2>3
<1>9. Eq(f)
  <2> HIDE DEF Eq
  <2>1. QED
    BY <1>8
<1>10. FoldsWithin(f, B, base, n, step)
  <2>1. f[{}] = base
    <3> HIDE DEF f
    <3>1. QED
      BY <1>9
  <2>2. ASSUME NEW t \in SUBSET (1..n), t # {}, f[t \ {Max(t)}] \in B
        PROVE  f[t] = step[Max(t)][f[t \ {Max(t)}]]
    <3> HIDE DEF f, B
    <3>1. Max(t) \in 1..n
      BY <1>6, <2>2
    <3>2. f[t] = After(f[t \ {Max(t)}], s[Max(t)])
      BY <1>1, <1>9, <2>2
    <3> HIDE DEF s
    <3>3. QED
      BY <1>1, <2>2, <3>1, <3>2
  <2> HIDE DEF n, step, f, B
  <2>3. QED
    BY <2>1, <2>2 DEF FoldsWithin
<1>11. Inductive(I, B, base, n, step)
  <2>1. I \in [0..n -> SUBSET B] /\ base \in I[0]
    BY <1>1, <1>2
  <2>2. ASSUME NEW k \in 1..n, NEW a \in I[k - 1] PROVE step[k][a] \in I[k]
    <3>1. a \in Good /\ a \in B /\ I[k] = Good
      BY <1>1
    <3>2. step[k][a] = After(a, k)
      <4> HIDE DEF B, Good, I
      <4>1. QED
        BY <3>1
    <3> HIDE DEF B, Good, step
    <3>3. QED
      BY <1>3, <3>1, <3>2
  <2> HIDE DEF I, step, B
  <2>3. QED
    BY <2>1, <2>2 DEF Inductive
<1>12. f[1..n] \in I[n]
  <2> HIDE DEF n, step, f, B, I
  <2>1. QED
    BY <1>1, <1>2, <1>5, <1>10, <1>11, FoldInduction
<1>13. CompactHistory(turns) \in Good
  <2> HIDE DEF f, Good, s
  <2>1. QED
    BY <1>1, <1>4, <1>12
<1>14. QED
  BY <1>13

Prompts == [base : Nat, kept : SUBSET Nat, history : Nat, memory : Nat, evidence : Nat, total : Nat]

LEMMA CutFits ==
  ASSUME NEW length \in Nat, NEW room \in Nat
  PROVE  /\ Cut(length, room) \in Nat /\ Cut(length, room) <= room
         /\ Cut(length, room) < length => Cut(length, room) = room
<1>1. CASE length = 0
  <2>1. Cut(length, room) = 0
    BY <1>1, MinOfTwo DEF Cut
  <2>2. QED
    BY <1>1, <2>1
<1>2. CASE length # 0
  <2>1. length + Budget.hardening \in Nat /\ Budget.hardening \in Nat
    BY BudgetType
  <2>2. Cut(length, room) = IF length + Budget.hardening <= room THEN length + Budget.hardening ELSE room
    BY <1>2, <2>1, MinOfTwo DEF Cut
  <2>3. QED
    BY <2>1, <2>2
<1>3. QED
  BY <1>1, <1>2

(* BuildPrompt keeps the limits. *)
LEMMA PromptSound ==
  ASSUME NEW turns \in Seq(Nat), NEW memory \in Nat, NEW length \in Nat
  PROVE  LET p == BuildPrompt(turns, memory, length)
         IN  /\ p \in Prompts
             /\ p.history <= Budget.history /\ p.evidence <= Budget.evidence
             /\ p.memory <= Budget.memory
             /\ p.total <= Max({Budget.prompt, p.base}) + 2 * Budget.label
             /\ p.evidence < Min({Budget.evidence, length}) => p.memory = 0
<1> DEFINE history == CompactHistory(turns)
           summary == IF history.dropped = 0 THEN 0 ELSE Budget.summary
           base == Budget.base + history.used + summary
           room == Budget.prompt - base
           evidenceRoom == Min({Budget.evidence, Max({room, 0})})
           memoryRoom == MemoryRoom(room, evidenceRoom)
           cutMemory == Cut(memory, memoryRoom)
           cutEvidence == Cut(length, evidenceRoom)
           labels == (IF cutMemory > 0 THEN Budget.label ELSE 0) + IF cutEvidence > 0 THEN Budget.label ELSE 0
           p == BuildPrompt(turns, memory, length)
<1>1. history.used \in Nat /\ history.dropped \in Nat /\ history.kept \subseteq Nat /\ history.used <= Budget.history
  BY CompactSound DEF Histories
<1>2. /\ p.base = base /\ p.kept = history.kept /\ p.history = history.used
      /\ p.memory = cutMemory /\ p.evidence = cutEvidence
      /\ p = [base |-> p.base, kept |-> p.kept, history |-> p.history,
              memory |-> p.memory, evidence |-> p.evidence, total |-> p.total]
  BY DEF BuildPrompt
<1>3. p.total = base + cutMemory + cutEvidence
                  + (IF cutMemory > 0 THEN Budget.label ELSE 0) + IF cutEvidence > 0 THEN Budget.label ELSE 0
  BY DEF BuildPrompt
<1> HIDE DEF history, p
<1>4. base \in Nat /\ room \in Int
  <2>1. summary \in Nat /\ Budget.base \in Nat /\ Budget.prompt \in Nat
    BY BudgetType
  <2> HIDE DEF summary
  <2>2. base \in Nat
    BY <1>1, <2>1
  <2> HIDE DEF base
  <2>3. QED
    BY <2>1, <2>2
<1> HIDE DEF base
<1>5. Max({room, 0}) = IF room <= 0 THEN 0 ELSE room
  BY <1>4, MaxOfTwo
<1>6. evidenceRoom \in Nat /\ evidenceRoom = IF Budget.evidence <= Max({room, 0}) THEN Budget.evidence ELSE Max({room, 0})
  <2> DEFINE left == Max({room, 0})
  <2>1. left \in Int /\ left >= 0
    BY <1>4, <1>5
  <2>2. PICK most \in Nat : most = Budget.evidence
    BY BudgetType
  <2> HIDE DEF left
  <2>3. Min({most, left}) = IF most <= left THEN most ELSE left
    BY <2>1, MinOfTwo
  <2>4. evidenceRoom = Min({most, left})
    BY <2>2 DEF left
  <2>5. evidenceRoom \in Nat /\ evidenceRoom = IF most <= left THEN most ELSE left
    <3> HIDE DEF evidenceRoom
    <3>1. QED
      BY <2>1, <2>3, <2>4
  <2> HIDE DEF evidenceRoom
  <2>6. QED
    BY <2>2, <2>5 DEF left
<1> HIDE DEF evidenceRoom
<1>7. room - evidenceRoom \in Int
  BY <1>4, <1>6
<1>8. Max({room - evidenceRoom, 0}) = IF room - evidenceRoom <= 0 THEN 0 ELSE room - evidenceRoom
  BY <1>7, MaxOfTwo
<1>9. /\ memoryRoom \in Nat
      /\ memoryRoom = IF Budget.memory <= Max({room - evidenceRoom, 0}) THEN Budget.memory
                      ELSE Max({room - evidenceRoom, 0})
  <2> DEFINE left == Max({room - evidenceRoom, 0})
  <2>1. left \in Int /\ left >= 0
    BY <1>7, <1>8
  <2>2. PICK most \in Nat : most = Budget.memory
    BY BudgetType
  <2> HIDE DEF left
  <2>3. Min({most, left}) = IF most <= left THEN most ELSE left
    BY <2>1, MinOfTwo
  <2>4. memoryRoom = Min({most, left})
    BY <2>2 DEF left, MemoryRoom
  <2>5. memoryRoom \in Nat /\ memoryRoom = IF most <= left THEN most ELSE left
    <3> HIDE DEF memoryRoom
    <3>1. QED
      BY <2>1, <2>3, <2>4
  <2> HIDE DEF memoryRoom
  <2>6. QED
    BY <2>2, <2>5 DEF left
<1> HIDE DEF memoryRoom
<1>10. cutMemory \in Nat /\ cutMemory <= memoryRoom
  BY <1>9, CutFits
<1>11. cutEvidence \in Nat /\ cutEvidence <= evidenceRoom /\ (cutEvidence < length => cutEvidence = evidenceRoom)
  BY <1>6, CutFits
<1> HIDE DEF cutMemory, cutEvidence
<1>12. p.total \in Nat /\ p.total <= base + cutMemory + cutEvidence + 2 * Budget.label
  <2>1. Budget.label \in Nat
    BY BudgetType
  <2>2. QED
    BY <1>3, <1>4, <1>10, <1>11, <2>1
<1>13. p \in Prompts
  BY <1>1, <1>2, <1>4, <1>10, <1>11, <1>12 DEF Prompts
<1>14. base + cutMemory + cutEvidence <= Max({Budget.prompt, base})
  <2>1. Max({Budget.prompt, base}) = IF Budget.prompt <= base THEN base ELSE Budget.prompt
    <3>1. base \in Int /\ Budget.prompt \in Int
      BY <1>4, BudgetType
    <3>2. QED
      BY <3>1, MaxOfTwo
  <2>2. Budget.prompt \in Nat /\ Budget.evidence \in Nat /\ Budget.memory \in Nat
    BY BudgetType
  <2>3. CASE room <= 0
    <3>1. evidenceRoom = 0
      BY <1>4, <1>5, <1>6, <2>2, <2>3
    <3>2. memoryRoom = 0
      BY <1>4, <1>8, <1>9, <2>2, <2>3, <3>1
    <3>3. cutMemory = 0 /\ cutEvidence = 0
      BY <1>10, <1>11, <3>1, <3>2
    <3>4. QED
      BY <1>4, <2>1, <2>2, <3>3
  <2>4. CASE room > 0
    <3>1. evidenceRoom <= room
      BY <1>4, <1>5, <1>6, <2>2, <2>4
    <3>2. memoryRoom <= room - evidenceRoom
      BY <1>4, <1>6, <1>8, <1>9, <2>2, <3>1
    <3>3. cutMemory + cutEvidence <= room
      BY SMTT(30), <1>4, <1>6, <1>9, <1>10, <1>11, <3>2
    <3>4. QED
      BY <1>4, <1>10, <1>11, <2>1, <2>2, <2>4, <3>3
  <2>5. QED
    BY <1>4, <2>3, <2>4
<1>15. cutEvidence < Min({Budget.evidence, length}) => cutMemory = 0
  <2>1. Budget.evidence \in Nat /\ Budget.memory \in Nat
    BY BudgetType
  <2>2. Min({Budget.evidence, length}) = IF Budget.evidence <= length THEN Budget.evidence ELSE length
    BY <2>1, MinOfTwo
  <2>3. SUFFICES ASSUME cutEvidence < length, cutEvidence < Budget.evidence PROVE cutMemory = 0
    BY <1>11, <2>1, <2>2
  <2>4. evidenceRoom = Max({room, 0})
    BY <1>6, <1>11, <2>1, <2>3
  <2>5. room - evidenceRoom <= 0
    BY <1>4, <1>5, <2>4
  <2>6. memoryRoom = 0
    BY <1>8, <1>9, <2>1, <2>5
  <2>7. QED
    BY <1>10, <2>6
<1>16. p.total <= Max({Budget.prompt, base}) + 2 * Budget.label
  <2>1. Max({Budget.prompt, base}) \in Nat /\ Budget.label \in Nat
    <3>1. base \in Int /\ Budget.prompt \in Int
      BY <1>4, BudgetType
    <3>2. Max({Budget.prompt, base}) = IF Budget.prompt <= base THEN base ELSE Budget.prompt
      BY <3>1, MaxOfTwo
    <3>3. QED
      BY <1>4, <3>2, BudgetType
  <2>2. QED
    BY <1>4, <1>10, <1>11, <1>12, <1>14, <2>1
<1>17. p.evidence <= Budget.evidence /\ p.memory <= Budget.memory
  <2>1. evidenceRoom <= Budget.evidence /\ Budget.evidence \in Nat
    <3>1. PICK left : left = Max({room, 0})
      OBVIOUS
    <3> HIDE DEF room
    <3>2. left \in Int
      BY <1>4, <1>5, <3>1
    <3>3. PICK most \in Nat : most = Budget.evidence
      BY BudgetType
    <3>4. evidenceRoom = IF most <= left THEN most ELSE left
      BY <1>6, <3>1, <3>3
    <3>5. QED
      BY <3>2, <3>3, <3>4
  <2>2. memoryRoom <= Budget.memory /\ Budget.memory \in Nat
    <3>1. PICK left : left = Max({room - evidenceRoom, 0})
      OBVIOUS
    <3>2. PICK rest \in Int : rest = room - evidenceRoom
      BY <1>7
    <3>3. left \in Int
      BY <1>8, <3>1, <3>2
    <3>4. PICK most \in Nat : most = Budget.memory
      BY BudgetType
    <3>5. memoryRoom = IF most <= left THEN most ELSE left
      BY <1>9, <3>1, <3>4
    <3>6. QED
      BY <3>3, <3>4, <3>5
  <2>3. QED
    BY <1>2, <1>6, <1>9, <1>10, <1>11, <2>1, <2>2
<1>18. QED
  BY <1>1, <1>2, <1>13, <1>15, <1>16, <1>17 DEF p
-----------------------------------------------------------------------------
LEMMA PicksSize ==
  ASSUME NEW s, Picks(s)
  PROVE  /\ Cardinality(ToSet(s)) = Len(s) /\ IsFiniteSet(ToSet(s)) /\ ToSet(s) \subseteq Chunks
         /\ Len(s) <= Cardinality(Chunks) /\ Cardinality(Chunks) \in Nat
<1>1. /\ s \in Seq(Chunks) /\ Len(s) \in Nat /\ s \in [1..Len(s) -> Chunks]
      /\ \A i, j \in 1..Len(s) : i # j => s[i] # s[j]
  BY DEF Picks
<1>2. ToSet(s) \subseteq Chunks
  BY <1>1 DEF ToSet
<1>4. Cardinality(ToSet(s)) = Len(s)
  BY <1>1, DistinctSize
<1>5. IsFiniteSet(Chunks) /\ ToSet(s) \in SUBSET Chunks
  BY <1>2, RankingAssumption
<1>6. /\ Cardinality(ToSet(s)) <= Cardinality(Chunks) /\ IsFiniteSet(ToSet(s))
      /\ Cardinality(Chunks) \in Nat
  BY <1>5, FS_Subset, FS_CardinalityType
<1>7. ToSet(s) \subseteq Chunks
  BY <1>5
<1>8. QED
  BY <1>4, <1>6, <1>7

Searches == [wanted : {"none", "closest", "all"}, count : Nat, ask : Nat, changed : BOOLEAN]
Positions == {"embed", "count", "query", "rank", "rerank", "assemble", "prompt", "done"}

RTypeOK ==
  /\ info \in Infos /\ plan \in [kind : Plans, filtered : BOOLEAN]
  /\ corpus \in SUBSET seen /\ seen \in SUBSET Chunks
  /\ pc \in Positions /\ search \in Searches
  /\ found = [vector |-> found.vector, lexical |-> found.lexical, fused |-> found.fused]
  /\ Picks(found.vector) /\ Picks(found.lexical) /\ Picks(found.fused) /\ Picks(hits)
  /\ fallbacks \in Seq([stage : {"hybrid", "rerank"}, to : {"vector_only", "hybrid"}])
  /\ error \in {"none", "embed", "search", "insufficient"}
  /\ evidence \in Evidences /\ prompt \in Prompts
  /\ changes \in Nat /\ overtaken \in Nat /\ faults \in Nat

Hybrid == plan.kind \notin {"vector", "untuned"}

(* How the search under way came about. *)
Descent ==
  \/ search.wanted = "all" /\ Hybrid /\ Len(fallbacks) = 0
  \/ search.wanted = "closest" /\ plan.kind = "vector" /\ Len(fallbacks) = 0
  \/ search.wanted = "closest" /\ plan.kind = "untuned" /\ Len(fallbacks) = 1
  \/ search.wanted = "closest" /\ Hybrid /\ Len(fallbacks) = 1 /\ overtaken + faults >= 1

(* For DegradesHonestly: how each search came about, until it has ended;   *)
(* and that a query of an unchanged store is not refused, as it asks for   *)
(* no more than there is.                                                  *)
DegradesSoFar ==
  /\ pc = "embed" => Len(fallbacks) = 0
  /\ pc \in {"count", "query"} => Descent
  /\ pc = "query" /\ ~search.changed => search.ask <= Cardinality(corpus)
  /\ pc \in {"rank", "rerank"} => search.wanted = "all" /\ Hybrid /\ Len(fallbacks) = 0
  /\ error = "search" => pc = "done"
  /\ DegradesHonestly

(* What the search asks for while the store has not changed. *)
AsksEnough ==
  /\ search.count = (IF TopK <= Cardinality(corpus) THEN TopK ELSE Cardinality(corpus))
  /\ search.ask = IF plan.filtered THEN Cardinality(corpus) ELSE search.count

(* For HitsSound: what a hybrid search has found by its vectors and by     *)
(* words, and what a vector search asks for, as long as it is under way.   *)
HitsSoFar ==
  /\ pc = "query" /\ search.wanted = "closest" => search.count <= TopK /\ (changes = 0 => AsksEnough)
  /\ pc \in {"rank", "rerank"} =>
       /\ search.wanted = "all"
       /\ ToSet(found.vector) \subseteq Similar \cap Filtered \cap seen
       /\ ToSet(found.lexical) \subseteq {c \in Filtered \cap seen : info[c].words > 0}
       /\ ToSet(found.fused) \subseteq ToSet(found.vector) \cup ToSet(found.lexical)
  /\ HitsSound

(* For FusionRespects: the fusion is that of two lists of candidates.      *)
FusesSoFar ==
  pc = "rank" =>
    /\ found.fused = FuseRRF(info, found.vector, found.lexical, CandidateLimit)
    /\ Len(found.vector) <= CandidateLimit /\ Len(found.lexical) <= CandidateLimit

(* For PromptWithinBudget: nothing is composed before the end.             *)
PromptSoFar ==
  /\ pc # "done" => prompt = NoPrompt
  /\ error = "insufficient" => pc = "done"
  /\ PromptWithinBudget

(* What the search returns of chunks in any order: those it may return,    *)
(* as many as are wanted at most.                                          *)
LEMMA AdmittedSound ==
  ASSUME RTypeOK, NEW r, Picks(r)
  PROVE  LET result == Admitted(FirstOf(r, search.ask))
         IN  /\ Picks(result) /\ Len(result) <= search.count
             /\ ToSet(result) \subseteq ToSet(r) \cap Admissible
<1> DEFINE asked == FirstOf(r, search.ask)
           allowed == Only(asked, Admissible)
<1>1. search.ask \in Nat /\ search.count \in Nat
  BY DEF RTypeOK, Searches
<1>2. Picks(asked) /\ ToSet(asked) \subseteq ToSet(r)
  BY <1>1, FirstPicks
<1> HIDE DEF asked
<1>3. Picks(allowed) /\ ToSet(allowed) = ToSet(asked) \cap Admissible
  BY <1>2, OnlyPicks
<1> HIDE DEF allowed
<1>4. /\ Picks(FirstOf(allowed, search.count)) /\ ToSet(FirstOf(allowed, search.count)) \subseteq ToSet(allowed)
      /\ Len(FirstOf(allowed, search.count)) = IF search.count < Len(allowed) THEN search.count ELSE Len(allowed)
  BY <1>1, <1>3, FirstPicks
<1>5. Len(allowed) \in Nat
  BY <1>3 DEF Picks
<1>6. Admitted(asked) = FirstOf(allowed, search.count)
  BY DEF Admitted, allowed
<1>7. /\ Picks(Admitted(asked)) /\ Len(Admitted(asked)) <= search.count
      /\ ToSet(Admitted(asked)) \subseteq ToSet(r) \cap Admissible
  BY <1>1, <1>2, <1>3, <1>4, <1>5, <1>6
<1>8. QED
  BY <1>7 DEF asked

(* The orders that a search may find are lists of the store.               *)
LEMMA RankingsPick ==
  ASSUME RTypeOK, NEW r \in BySimilarity
  PROVE  /\ Picks(r) /\ ToSet(r) = corpus /\ Len(r) = Cardinality(corpus) /\ Cardinality(corpus) \in Nat
         /\ \A i, j \in 1..Len(r) : i < j => info[r[i]].similarity >= info[r[j]].similarity
<1>1. corpus \in SUBSET Chunks /\ IsFiniteSet(Chunks)
  BY RankingAssumption DEF RTypeOK
<1>2. IsFiniteSet(corpus)
  BY <1>1, FS_Subset
<1>3. r \in SetToSeqs(corpus) /\ \A i, j \in DOMAIN r : i < j => info[r[i]].similarity >= info[r[j]].similarity
  BY DEF BySimilarity
<1>4. /\ r \in Seq(corpus) /\ Len(r) = Cardinality(corpus) /\ ToSet(r) = corpus
      /\ DOMAIN r = 1..Len(r) /\ \A i, j \in 1..Len(r) : i # j => r[i] # r[j]
  BY <1>2, <1>3, SetToSeqsType
<1>5. r \in Seq(Chunks)
  BY <1>1, <1>4
<1>6. QED
  BY <1>2, <1>3, <1>4, <1>5, FS_CardinalityType DEF Picks

(* The rest of a hybrid search.                                            *)
LEMMA FoundSound ==
  ASSUME RTypeOK, NEW result, Picks(result)
  PROVE  LET vector == FirstOf(Only(result, Similar), CandidateLimit)
             lexical == LexicalSearch(info, ToSet(result), CandidateLimit)
             fused == FuseRRF(info, vector, lexical, CandidateLimit)
         IN  /\ Len(vector) <= CandidateLimit /\ Len(lexical) <= CandidateLimit
             /\ Picks(vector) /\ ToSet(vector) \subseteq ToSet(result) \cap Similar
             /\ Picks(lexical) /\ ToSet(lexical) \subseteq {c \in ToSet(result) : info[c].words > 0}
             /\ Picks(fused) /\ ToSet(fused) \subseteq ToSet(vector) \cup ToSet(lexical)
<1> DEFINE similar == Only(result, Similar)
           vector == FirstOf(similar, CandidateLimit)
           lexical == LexicalSearch(info, ToSet(result), CandidateLimit)
           fused == FuseRRF(info, vector, lexical, CandidateLimit)
<1>1. CandidateLimit \in Nat /\ info \in Infos /\ ToSet(result) \in SUBSET Chunks
  BY LimitType, PicksSize DEF RTypeOK
<1>2. Picks(similar) /\ ToSet(similar) = ToSet(result) \cap Similar
  BY OnlyPicks
<1> HIDE DEF similar
<1>3. Picks(vector) /\ ToSet(vector) \subseteq ToSet(similar) /\ Len(vector) <= CandidateLimit
  BY <1>1, <1>2, FirstPicks, FirstLength
<1>4. /\ Picks(lexical) /\ ToSet(lexical) \subseteq {c \in ToSet(result) : info[c].words > 0}
      /\ Len(lexical) <= CandidateLimit
  BY <1>1, LexicalSound
<1> HIDE DEF vector, lexical
<1>5. PICK s : /\ Picks(s) /\ ToSet(s) = ToSet(vector) \cup ToSet(lexical)
               /\ fused = FirstOf(s, CandidateLimit)
  BY <1>1, <1>3, <1>4, FuseSound
<1>6. Picks(fused) /\ ToSet(fused) \subseteq ToSet(s)
  BY <1>1, <1>5, FirstPicks
<1> HIDE DEF fused
<1>7. QED
  BY <1>2, <1>3, <1>4, <1>5, <1>6 DEF fused, lexical, vector, similar

LEMMA AnswersType ==
  ASSUME NEW S, NEW n, NEW s \in BoundedSeq(S, n)
  PROVE  s \in Seq(S)
<1>1. PICK m \in 0..n : s \in [1..m -> S]
  BY DEF BoundedSeq, SeqOf
<1>2. m \in Nat
  OBVIOUS
<1>3. QED
  BY <1>1, <1>2

LEMMA RInitType == RInit => RTypeOK
<1>1. SUFFICES ASSUME RInit PROVE RTypeOK
  OBVIOUS
<1>2. Picks(<<>>)
  BY DEF Picks
<1>3. AssembleContext(<<>>) \in Evidences
  BY <1>2, AssembleSound
<1>4. info \in Infos /\ plan \in [kind : Plans, filtered : BOOLEAN] /\ corpus \in SUBSET seen /\ seen \in SUBSET Chunks
  <2>1. [similarity : Similarities, words : Words] \subseteq [similarity : Int, words : Nat]
    BY RetrievalAssumption
  <2>2. QED
    BY <1>1, <2>1 DEF RInit, Infos
<1>5. pc \in Positions /\ search \in Searches /\ fallbacks = <<>> /\ error = "none" /\ prompt \in Prompts
  BY <1>1 DEF RInit, Positions, Searches, NoSearch, NoPrompt, Prompts
<1>6. /\ found = [vector |-> found.vector, lexical |-> found.lexical, fused |-> found.fused]
      /\ Picks(found.vector) /\ Picks(found.lexical) /\ Picks(found.fused) /\ Picks(hits)
  BY <1>1, <1>2 DEF RInit, NothingFound
<1>7. evidence \in Evidences /\ changes \in Nat /\ overtaken \in Nat /\ faults \in Nat
  BY <1>1, <1>3 DEF RInit
<1>8. QED
  BY <1>4, <1>5, <1>6, <1>7 DEF RTypeOK

(* What an action may do to the result and the events. *)
LEMMA OutcomeType ==
  ASSUME RTypeOK
  PROVE  /\ \A h : Picks(h) /\ Give(h) => Picks(hits') /\ pc' = "assemble" /\ error' = error
         /\ \A stage \in {"hybrid", "rerank"}, to \in {"vector_only", "hybrid"} :
              FallBack(stage, to) =>
                /\ fallbacks' \in Seq([stage : {"hybrid", "rerank"}, to : {"vector_only", "hybrid"}])
                /\ Len(fallbacks') = Len(fallbacks) + 1
         /\ \A failed \in BOOLEAN : Spend(failed) => faults' \in Nat /\ faults' = IF failed THEN faults + 1 ELSE faults
         /\ Len(fallbacks) \in Nat
<1> DEFINE E == [stage : {"hybrid", "rerank"}, to : {"vector_only", "hybrid"}]
<1>1. fallbacks \in Seq(E) /\ faults \in Nat
  BY DEF RTypeOK
<1>2. ASSUME NEW stage \in {"hybrid", "rerank"}, NEW to \in {"vector_only", "hybrid"}, FallBack(stage, to)
      PROVE  fallbacks' \in Seq(E) /\ Len(fallbacks') = Len(fallbacks) + 1
  <2>1. PICK event \in E : event = [stage |-> stage, to |-> to]
    OBVIOUS
  <2>2. fallbacks' = Append(fallbacks, event)
    BY <1>2, <2>1 DEF FallBack
  <2> HIDE DEF E
  <2>3. QED
    BY <1>1, <2>2
<1>3. QED
  BY <1>1, <1>2 DEF Give, Spend

LEMMA SearchType == \A w \in {"none", "closest", "all"} : [NoSearch EXCEPT !.wanted = w] \in Searches
BY DEF NoSearch, Searches

LEMMA WantedSize ==
  ASSUME RTypeOK
  PROVE  /\ Cardinality(corpus) \in Nat /\ TopK \in Nat
         /\ Min({TopK, Cardinality(corpus)}) = IF TopK <= Cardinality(corpus) THEN TopK ELSE Cardinality(corpus)
<1>1. IsFiniteSet(corpus)
  BY RankingAssumption, FS_Subset DEF RTypeOK
<1>2. PICK n \in Nat : n = Cardinality(corpus)
  BY <1>1, FS_CardinalityType
<1>3. TopK \in Nat
  BY RankingAssumption
<1>4. Min({TopK, n}) = IF TopK <= n THEN TopK ELSE n
  BY <1>2, <1>3, MinOfTwo
<1>5. QED
  BY <1>2, <1>3, <1>4

LEMMA RStepType ==
  ASSUME RTypeOK, [RNext]_rVars
  PROVE  RTypeOK'
<1> USE DEF RTypeOK
<1>1. ASSUME NEW ok \in BOOLEAN, Embed(ok) PROVE RTypeOK'
  <2>1. search' \in Searches
    <3>1. CASE ok
      <4>1. PICK w \in {"none", "closest", "all"} :
              w = IF plan.kind \in {"vector", "untuned"} THEN "closest" ELSE "all"
        OBVIOUS
      <4>2. search' = [NoSearch EXCEPT !.wanted = w]
        BY <1>1, <3>1, <4>1 DEF Embed
      <4>3. QED
        BY <4>2, SearchType
    <3>2. CASE ~ok
      BY <1>1, <3>2 DEF Embed
    <3>3. QED
      BY <3>1, <3>2
  <2>2. pc' \in Positions /\ error' \in {"none", "embed", "search", "insufficient"} /\ hits' = hits
    BY <1>1 DEF Embed, GiveUp, Positions
  <2>3. fallbacks' \in Seq([stage : {"hybrid", "rerank"}, to : {"vector_only", "hybrid"}])
    BY <1>1, OutcomeType DEF Embed
  <2>4. faults' \in Nat
    BY <1>1, OutcomeType DEF Embed
  <2>5. QED
    BY <1>1, <2>1, <2>2, <2>3, <2>4 DEF Embed, observers
<1>2. CASE Count
  <2>2. Cardinality(corpus) \in Nat
    BY WantedSize
  <2>3. Min({TopK, Cardinality(corpus)}) \in Nat
    BY WantedSize
  <2>4. Picks(<<>>)
    BY DEF Picks
  <2>5. search' \in Searches
    BY <1>2, <2>2, <2>3 DEF Count, Searches
  <2>6. pc' \in Positions /\ error' = error /\ Picks(hits')
    BY <1>2, <2>4 DEF Count, Give, Positions
  <2>7. QED
    BY <1>2, <2>5, <2>6 DEF Count, observers
<1>3. ASSUME NEW ranking \in BySimilarity, Query(ranking) PROVE RTypeOK'
  <2> DEFINE result == Admitted(FirstOf(ranking, search.ask))
             vector == FirstOf(Only(result, Similar), CandidateLimit)
             lexical == LexicalSearch(info, ToSet(result), CandidateLimit)
             fused == FuseRRF(info, vector, lexical, CandidateLimit)
  <2>1. Picks(ranking)
    BY RankingsPick
  <2>2. Picks(result) /\ Picks(<<>>)
    <3>1. Picks(result)
      BY <2>1, AdmittedSound
    <3>2. Picks(<<>>)
      BY DEF Picks
    <3>3. QED
      BY <3>1, <3>2
  <2> HIDE DEF result
  <2>3. Picks(vector) /\ Picks(lexical) /\ Picks(fused)
    BY <2>2, FoundSound
  <2> HIDE DEF vector, lexical, fused
  <2>4. /\ pc' \in Positions /\ error' = error /\ Picks(hits')
        /\ found' = found \/ found' = [vector |-> vector, lexical |-> lexical, fused |-> fused]
    <3>1. \/ Give(result) /\ UNCHANGED found
          \/ Give(<<>>) /\ UNCHANGED found
          \/ /\ found' = [vector |-> vector, lexical |-> lexical, fused |-> fused]
             /\ pc' = "rank" /\ UNCHANGED <<hits, error>>
      BY <1>3 DEF Query, result, vector, lexical, fused
    <3>2. QED
      BY <2>2, <3>1 DEF Give, Positions
  <2>5. QED
    BY <1>3, <2>3, <2>4 DEF Query, observers
<1>4. CASE QueryFails
  <2>1. search' \in Searches
    BY <1>4, SearchType DEF QueryFails
  <2>2. pc' \in Positions /\ error' \in {"none", "embed", "search", "insufficient"} /\ hits' = hits
    BY <1>4 DEF QueryFails, GiveUp, Positions
  <2>3. fallbacks' \in Seq([stage : {"hybrid", "rerank"}, to : {"vector_only", "hybrid"}])
    <3>1. fallbacks' = <<>> \/ FallBack("hybrid", "vector_only")
      BY <1>4 DEF QueryFails
    <3>2. FallBack("hybrid", "vector_only") =>
            fallbacks' \in Seq([stage : {"hybrid", "rerank"}, to : {"vector_only", "hybrid"}])
      BY OutcomeType
    <3>3. <<>> \in Seq([stage : {"hybrid", "rerank"}, to : {"vector_only", "hybrid"}])
      OBVIOUS
    <3>4. QED
      BY <3>1, <3>2, <3>3
  <2>4. faults' \in Nat /\ overtaken' \in Nat
    BY <1>4 DEF QueryFails, Spend
  <2>5. QED
    BY <1>4, <2>1, <2>2, <2>3, <2>4 DEF QueryFails
<1>5. ASSUME NEW ok \in BOOLEAN, Rank(~ok) PROVE RTypeOK'
  <2>1. TopK \in Nat
    BY RankingAssumption
  <2>2. Picks(FirstOf(found.vector, TopK)) /\ Picks(FirstOf(found.fused, TopK))
    BY <2>1, FirstPicks
  <2>3. pc' \in Positions /\ error' = error /\ Picks(hits')
    BY <1>5, <2>2 DEF Rank, Give, Positions
  <2>4. fallbacks' \in Seq([stage : {"hybrid", "rerank"}, to : {"vector_only", "hybrid"}])
    BY <1>5, OutcomeType DEF Rank
  <2>5. faults' \in Nat
    BY <1>5, OutcomeType DEF Rank
  <2>6. QED
    BY <1>5, <2>3, <2>4, <2>5 DEF Rank, observers
<1>6. ASSUME NEW answer \in BoundedSeq(1..(TopK + 1), MaxAnswer), NEW ok \in BOOLEAN, Rerank(answer, ok)
      PROVE  RTypeOK'
  <2>1. answer \in Seq(Nat \ {0}) /\ TopK \in Nat
    <3>1. answer \in Seq(1..(TopK + 1)) /\ TopK \in Nat
      BY AnswersType, RankingAssumption
    <3>2. QED
      BY <3>1
  <2>2. /\ Picks(FirstOf(found.fused, TopK)) /\ Picks(ModelRerank(found.fused, answer).hits)
        /\ Picks(RerankShortlist(info, found.vector, found.lexical, found.fused))
    BY <2>1, FirstPicks, ModelRerankSound, RerankSound
  <2>3. pc' \in Positions /\ error' = error /\ Picks(hits')
    BY <1>6, <2>2 DEF Rerank, Give, Positions
  <2>4. fallbacks' \in Seq([stage : {"hybrid", "rerank"}, to : {"vector_only", "hybrid"}])
    BY <1>6, OutcomeType DEF Rerank
  <2>5. faults' \in Nat
    BY <1>6, OutcomeType DEF Rerank
  <2>6. QED
    BY <1>6, <2>3, <2>4, <2>5 DEF Rerank, observers
<1>7. CASE Assemble
  <2>1. evidence' \in Evidences
    BY <1>7, AssembleSound DEF Assemble
  <2>2. info' \in Infos /\ search' \in Searches
    BY <1>7 DEF Assemble, Infos, Searches, NoSearch
  <2>3. Picks(<<>>)
    BY DEF Picks
  <2>4. /\ found' = [vector |-> found'.vector, lexical |-> found'.lexical, fused |-> found'.fused]
        /\ Picks(found'.vector) /\ Picks(found'.lexical) /\ Picks(found'.fused)
    BY <1>7, <2>3 DEF Assemble, NothingFound
  <2>5. pc' \in Positions /\ error' \in {"none", "embed", "search", "insufficient"}
    BY <1>7 DEF Assemble, Positions
  <2>6. QED
    BY <1>7, <2>1, <2>2, <2>4, <2>5 DEF Assemble, observers
<1>8. ASSUME NEW turns \in BoundedSeq(Lengths, MaxTurns), NEW memory \in {0} \cup Lengths, Compose(turns, memory)
      PROVE  RTypeOK'
  <2>1. turns \in Seq(Nat) /\ memory \in Nat /\ evidence.used \in Nat
    BY AnswersType, RetrievalAssumption DEF Evidences
  <2>2. prompt' \in Prompts
    BY <1>8, <2>1, PromptSound DEF Compose
  <2>3. pc' \in Positions
    BY <1>8 DEF Compose, Positions
  <2>4. QED
    BY <1>8, <2>2, <2>3 DEF Compose, observers
<1>9. ASSUME NEW c \in Chunks, ChangeStore(c) PROVE RTypeOK'
  <2>1. search' \in Searches
    BY <1>9 DEF ChangeStore, Searches
  <2>2. corpus' \in SUBSET seen' /\ seen' \in SUBSET Chunks
    BY <1>9 DEF ChangeStore
  <2>3. QED
    BY <1>9, <2>1, <2>2 DEF ChangeStore
<1>10. CASE UNCHANGED rVars
  BY <1>10 DEF rVars
<1>11. QED
  BY <1>1, <1>2, <1>3, <1>4, <1>5, <1>6, <1>7, <1>8, <1>9, <1>10 DEF RNext

LEMMA RInitDegrades == RInit => DegradesSoFar
BY DEF RInit, DegradesSoFar, DegradesHonestly

(* An outcome of these kinds is an honest one.                             *)
LEMMA HonestOutcome ==
  ASSUME NEW n \in 0..1, NEW k \in Plans, NEW w, NEW f \in Nat,
         \/ w = "all" /\ k \notin {"vector", "untuned"}
         \/ w = "closest" /\ k = "vector" /\ n = 0
         \/ w = "closest" /\ k # "vector" /\ n = 1
  PROVE  /\ n = 0 => (w = "closest" <=> k = "vector")
         /\ n <= 1 + f
         /\ k = "vector" => n = 0
<1>1. ASSUME n = 0 PROVE (w = "closest" <=> k = "vector")
  <2>1. CASE w = "all"
    BY <2>1
  <2>2. CASE w # "all"
    BY <1>1, <2>2
  <2>3. QED
    BY <2>1, <2>2
<1>2. n <= 1 + f
  OBVIOUS
<1>3. k = "vector" => n = 0
  OBVIOUS
<1>4. QED
  BY <1>1, <1>2, <1>3

LEMMA Evidenced ==
  ASSUME NEW a \in Nat, NEW b \in Nat, NEW c \in Nat, NEW d \in Nat, c + d >= a + b + 1
  PROVE  c + d >= 1 /\ (a + b >= 1 => c + d >= 2)
OBVIOUS

LEMMA RStepDegrades ==
  ASSUME RTypeOK, DegradesSoFar, [RNext]_rVars
  PROVE  DegradesSoFar'
<1>0. fallbacks' = <<>> <=> Len(fallbacks') = 0
  <2>1. fallbacks' \in Seq([stage : {"hybrid", "rerank"}, to : {"vector_only", "hybrid"}])
    BY RStepType DEF RTypeOK
  <2>2. QED
    BY <2>1
<1>1. /\ Len(fallbacks) \in Nat /\ faults \in Nat /\ overtaken \in Nat /\ plan.kind \in Plans
      /\ search.wanted \in {"none", "closest", "all"} /\ search.ask \in Nat
      /\ (fallbacks = <<>> <=> Len(fallbacks) = 0)
  BY DEF RTypeOK, Searches
<1>2. ASSUME NEW ok \in BOOLEAN, Embed(ok) PROVE DegradesSoFar'
  <2>1. pc = "embed" /\ plan' = plan /\ Len(fallbacks) = 0 /\ error # "search"
    BY <1>2 DEF Embed, DegradesSoFar
  <2>2. CASE ok
    <3>1. pc' = "count" /\ error' = error
      BY <1>2, <2>2 DEF Embed
    <3>2. search'.wanted = IF Hybrid THEN "all" ELSE "closest"
      BY <1>2, <2>2 DEF Embed, Hybrid, NoSearch
    <3>3. Len(fallbacks') = IF plan.kind = "untuned" THEN 1 ELSE 0
      BY <1>2, <2>1, <2>2, OutcomeType DEF Embed
    <3>4. Descent'
      BY <2>1, <3>2, <3>3 DEF Descent, Hybrid
    <3>5. QED
      BY <2>1, <3>1, <3>4 DEF DegradesSoFar, DegradesHonestly
  <2>3. CASE ~ok
    <3>1. pc' = "done" /\ error' = "embed"
      BY <1>2, <2>3 DEF Embed, GiveUp
    <3>2. QED
      BY <3>1 DEF DegradesSoFar, DegradesHonestly
  <2>4. QED
    BY <2>2, <2>3
<1>3. CASE Count
  <2>1. pc = "count" /\ UNCHANGED <<plan, corpus, fallbacks, overtaken, faults, error>> /\ search'.wanted = search.wanted
    <3>1. search' = search \/ \E n, m : search' = [search EXCEPT !.count = n, !.ask = m, !.changed = FALSE]
      BY <1>3 DEF Count
    <3>2. search'.wanted = search.wanted
      BY <3>1 DEF RTypeOK, Searches
    <3>3. QED
      BY <1>3, <3>2 DEF Count, observers, Give
  <2>2. Descent /\ error # "search"
    BY <2>1 DEF DegradesSoFar
  <2>3. Descent'
    BY <2>1, <2>2 DEF Descent, Hybrid
  <2>4. CASE pc' = "assemble"
    <3>1. DegradesHonestly'
      <4>1. Len(fallbacks') \in 0..1 /\ plan'.kind \in Plans /\ faults' \in Nat
        BY <1>1, <2>1, <2>2, <2>4 DEF Descent, Hybrid
      <4>2. /\ Len(fallbacks') = 0 => (search'.wanted = "closest" <=> plan'.kind = "vector")
            /\ Len(fallbacks') <= 1 + faults'
            /\ plan'.kind = "vector" => Len(fallbacks') = 0
        BY <1>1, <2>1, <2>2, <2>4, <4>1, HonestOutcome DEF Descent, Hybrid
      <4>3. error' # "search" /\ (fallbacks' = <<>> <=> Len(fallbacks') = 0)
        BY <1>0, <1>1, <2>1, <2>2, <2>4
      <4>4. /\ error' = "search" /\ plan'.kind \notin {"vector", "untuned"} => overtaken' + faults' >= 2
            /\ fallbacks' = <<>> => (search'.wanted = "closest" <=> plan'.kind = "vector")
            /\ plan'.kind = "vector" => fallbacks' = <<>>
        BY <4>2, <4>3
      <4>5. QED
        BY <4>2, <4>4 DEF DegradesHonestly
    <3>2. QED
      BY <2>1, <2>2, <2>4, <3>1 DEF DegradesSoFar
  <2>5. CASE pc' = "query"
    <3>1. search'.ask <= Cardinality(corpus)
      <4>1. PICK n \in Nat : n = Cardinality(corpus)
        BY WantedSize
      <4>2. PICK want : want = IF search.wanted = "all" THEN n ELSE Min({TopK, n})
        OBVIOUS
      <4>3. want <= n /\ want \in Nat
        BY <4>1, <4>2, WantedSize
      <4>4. search' = [search EXCEPT !.count = want, !.ask = (IF plan.filtered THEN n ELSE want), !.changed = FALSE]
        BY <1>3, <2>5, <4>1, <4>2 DEF Count, Give
      <4>5. search'.ask = IF plan.filtered THEN n ELSE want
        BY <4>4 DEF RTypeOK, Searches
      <4>6. QED
        BY <4>1, <4>3, <4>5
    <3>2. DegradesHonestly'
      BY <2>1, <2>2, <2>5 DEF DegradesHonestly
    <3>3. QED
      BY <2>1, <2>2, <2>3, <2>5, <3>1, <3>2 DEF DegradesSoFar
  <2>6. QED
    BY <1>3, <2>4, <2>5 DEF Count, Give
<1>4. ASSUME NEW ranking \in BySimilarity, Query(ranking) PROVE DegradesSoFar'
  <2> DEFINE result == Admitted(FirstOf(ranking, search.ask))
  <2>1. pc = "query" /\ UNCHANGED <<plan, corpus, search, fallbacks, overtaken, faults, error>>
    BY <1>4 DEF Query, observers, Give
  <2>2. Descent /\ error # "search"
    BY <2>1 DEF DegradesSoFar
  <2>3. CASE search.wanted = "closest"
    <3>1. pc' = "assemble"
      BY <1>4, <2>3 DEF Query, Give
    <3>2. DegradesHonestly'
      <4>1. Len(fallbacks') \in 0..1 /\ plan'.kind \in Plans /\ faults' \in Nat
        BY <1>1, <2>1, <2>2, <2>3, <3>1 DEF Descent, Hybrid
      <4>2. /\ Len(fallbacks') = 0 => (search'.wanted = "closest" <=> plan'.kind = "vector")
            /\ Len(fallbacks') <= 1 + faults'
            /\ plan'.kind = "vector" => Len(fallbacks') = 0
        BY <1>1, <2>1, <2>2, <2>3, <3>1, <4>1, HonestOutcome DEF Descent, Hybrid
      <4>3. error' # "search" /\ (fallbacks' = <<>> <=> Len(fallbacks') = 0)
        BY <1>0, <1>1, <2>1, <2>2, <2>3, <3>1
      <4>4. /\ error' = "search" /\ plan'.kind \notin {"vector", "untuned"} => overtaken' + faults' >= 2
            /\ fallbacks' = <<>> => (search'.wanted = "closest" <=> plan'.kind = "vector")
            /\ plan'.kind = "vector" => fallbacks' = <<>>
        BY <4>2, <4>3
      <4>5. QED
        BY <4>2, <4>4 DEF DegradesHonestly
    <3>3. QED
      BY <2>1, <2>2, <3>1, <3>2 DEF DegradesSoFar
  <2>4. CASE search.wanted # "closest"
    <3>1. search.wanted = "all" /\ Hybrid /\ Len(fallbacks) = 0
      BY <2>2, <2>4 DEF Descent
    <3>2. pc' \in {"assemble", "rank"}
      BY <1>4, <2>4 DEF Query, Give
    <3>3. DegradesHonestly'
      <4>1. Len(fallbacks') \in 0..1 /\ plan'.kind \in Plans /\ faults' \in Nat
        BY <1>1, <2>1, <2>2, <3>1, <3>2 DEF Hybrid
      <4>2. /\ Len(fallbacks') = 0 => (search'.wanted = "closest" <=> plan'.kind = "vector")
            /\ Len(fallbacks') <= 1 + faults'
            /\ plan'.kind = "vector" => Len(fallbacks') = 0
        BY <1>1, <2>1, <2>2, <3>1, <3>2, <4>1, HonestOutcome DEF Hybrid
      <4>3. error' # "search" /\ (fallbacks' = <<>> <=> Len(fallbacks') = 0)
        BY <1>0, <1>1, <2>1, <2>2, <3>1, <3>2
      <4>4. /\ error' = "search" /\ plan'.kind \notin {"vector", "untuned"} => overtaken' + faults' >= 2
            /\ fallbacks' = <<>> => (search'.wanted = "closest" <=> plan'.kind = "vector")
            /\ plan'.kind = "vector" => fallbacks' = <<>>
        BY <4>2, <4>3
      <4>5. QED
        BY <4>2, <4>4 DEF DegradesHonestly
    <3>4. QED
      BY <2>1, <2>2, <3>1, <3>2, <3>3 DEF DegradesSoFar, Hybrid
  <2>5. QED
    BY <2>3, <2>4
<1>5. CASE QueryFails
  <2>1. pc = "query" /\ plan' = plan
    BY <1>5 DEF QueryFails
  <2>2. Descent /\ error # "search"
    BY <2>1 DEF DegradesSoFar
  <2>3. QueryRefused => search.changed
    <3>1. Cardinality(corpus) \in Nat
      BY WantedSize
    <3>2. QED
      BY <1>1, <2>1, <3>1 DEF DegradesSoFar, QueryRefused
  <2>4. /\ overtaken' = overtaken + IF search.changed THEN 1 ELSE 0
        /\ faults' = IF QueryRefused THEN faults ELSE faults + 1
    BY <1>5 DEF QueryFails, Spend
  <2>5. overtaken' + faults' >= overtaken + faults + 1 /\ overtaken' \in Nat /\ faults' \in Nat
    <3>1. CASE QueryRefused
      BY <1>1, <2>3, <2>4, <3>1
    <3>2. CASE ~QueryRefused
      BY <1>1, <2>4, <3>2
    <3>3. QED
      BY <3>1, <3>2
  <2>6. CASE Retry
    <3>1. Hybrid /\ Len(fallbacks) = 0
      BY <2>2, <2>6 DEF Retry, Descent
    <3>2. pc' = "count" /\ error' = error /\ search'.wanted = "closest"
      BY <1>5, <2>6 DEF QueryFails, NoSearch
    <3>3. Len(fallbacks') = 1
      BY <1>5, <2>6, <3>1, OutcomeType DEF QueryFails
    <3>4. overtaken' + faults' >= 1
      <4>1. overtaken' \in Nat /\ faults' \in Nat /\ overtaken \in Nat /\ faults \in Nat
        BY <1>1, <2>5
      <4>2. overtaken' + faults' >= overtaken + faults + 1
        BY <2>5
      <4>3. QED
        BY <4>1, <4>2, Evidenced
    <3>5. Descent'
      BY <2>1, <3>1, <3>2, <3>3, <3>4 DEF Descent, Hybrid
    <3>6. QED
      BY <2>2, <3>2, <3>5 DEF DegradesSoFar, DegradesHonestly
  <2>7. CASE ~Retry
    <3>1. pc' = "done" /\ error' = "search"
      BY <1>5, <2>7 DEF QueryFails, GiveUp
    <3>2. Hybrid => overtaken + faults >= 1
      BY <2>2, <2>7 DEF Retry, Descent, Hybrid
    <3>3. DegradesHonestly'
      <4>1. overtaken' \in Nat /\ faults' \in Nat /\ overtaken \in Nat /\ faults \in Nat
        BY <1>1, <2>5
      <4>2. overtaken' + faults' >= overtaken + faults + 1
        BY <2>5
      <4>3. Hybrid => overtaken' + faults' >= 2
        BY <3>2, <4>1, <4>2, Evidenced
      <4>4. QED
        BY <2>1, <3>1, <4>3 DEF DegradesHonestly, Hybrid
    <3>4. QED
      BY <3>1, <3>3 DEF DegradesSoFar
  <2>8. QED
    BY <2>6, <2>7
<1>6. ASSUME NEW panics \in BOOLEAN, Rank(panics) PROVE DegradesSoFar'
  <2>1. pc = "rank" /\ UNCHANGED <<plan, search, overtaken, error>>
    BY <1>6 DEF Rank, observers, Give
  <2>2. search.wanted = "all" /\ Hybrid /\ Len(fallbacks) = 0 /\ error # "search"
    BY <2>1 DEF DegradesSoFar
  <2>3. faults' \in Nat
    BY <1>1, <1>6 DEF Rank, Spend
  <2>4. Len(fallbacks') \in {0, 1} /\ (fallbacks' = <<>> => Len(fallbacks') = 0)
    BY <1>6, <2>2, OutcomeType DEF Rank
  <2>5. pc' = "assemble" \/ (pc' = "rerank" /\ Len(fallbacks') = 0)
    <3>1. \/ pc' = "assemble"
          \/ plan.kind \in {"rules", "model"} /\ pc' = "rerank" /\ UNCHANGED fallbacks
      BY <1>6 DEF Rank, Give
    <3>2. QED
      BY <2>2, <3>1
  <2>6. DegradesHonestly'
    <3>1. Len(fallbacks') \in 0..1 /\ plan'.kind \in Plans /\ faults' \in Nat
      BY <1>1, <2>1, <2>2, <2>3, <2>4 DEF Hybrid
    <3>2. /\ Len(fallbacks') = 0 => (search'.wanted = "closest" <=> plan'.kind = "vector")
          /\ Len(fallbacks') <= 1 + faults'
          /\ plan'.kind = "vector" => Len(fallbacks') = 0
      BY <1>1, <2>1, <2>2, <2>3, <2>4, <3>1, HonestOutcome DEF Hybrid
    <3>3. error' # "search" /\ (fallbacks' = <<>> <=> Len(fallbacks') = 0)
      BY <1>0, <1>1, <2>1, <2>2, <2>3, <2>4
    <3>4. /\ error' = "search" /\ plan'.kind \notin {"vector", "untuned"} => overtaken' + faults' >= 2
          /\ fallbacks' = <<>> => (search'.wanted = "closest" <=> plan'.kind = "vector")
          /\ plan'.kind = "vector" => fallbacks' = <<>>
      BY <3>2, <3>3
    <3>5. QED
      BY <3>2, <3>4 DEF DegradesHonestly
  <2>7. QED
    BY <2>1, <2>2, <2>5, <2>6 DEF DegradesSoFar, Hybrid
<1>7. ASSUME NEW answer \in BoundedSeq(1..(TopK + 1), MaxAnswer), NEW ok \in BOOLEAN, Rerank(answer, ok)
      PROVE  DegradesSoFar'
  <2>1. pc = "rerank" /\ UNCHANGED <<plan, search, overtaken, error>> /\ pc' = "assemble"
    BY <1>7 DEF Rerank, observers, Give
  <2>2. search.wanted = "all" /\ Hybrid /\ Len(fallbacks) = 0 /\ error # "search"
    BY <2>1 DEF DegradesSoFar
  <2>3. faults' \in Nat
    BY <1>1, <1>7 DEF Rerank, Spend
  <2>4. Len(fallbacks') \in {0, 1}
    <3>1. UNCHANGED fallbacks \/ FallBack("rerank", "hybrid")
      BY <1>7 DEF Rerank
    <3>2. FallBack("rerank", "hybrid") => Len(fallbacks') = Len(fallbacks) + 1
      BY OutcomeType
    <3>3. QED
      BY <2>2, <3>1, <3>2
  <2>5. DegradesHonestly'
    <3>1. Len(fallbacks') \in 0..1 /\ plan'.kind \in Plans /\ faults' \in Nat
      BY <1>1, <2>1, <2>2, <2>3, <2>4 DEF Hybrid
    <3>2. /\ Len(fallbacks') = 0 => (search'.wanted = "closest" <=> plan'.kind = "vector")
          /\ Len(fallbacks') <= 1 + faults'
          /\ plan'.kind = "vector" => Len(fallbacks') = 0
      BY <1>1, <2>1, <2>2, <2>3, <2>4, <3>1, HonestOutcome DEF Hybrid
    <3>3. error' # "search" /\ (fallbacks' = <<>> <=> Len(fallbacks') = 0)
      BY <1>0, <1>1, <2>1, <2>2, <2>3, <2>4
    <3>4. /\ error' = "search" /\ plan'.kind \notin {"vector", "untuned"} => overtaken' + faults' >= 2
          /\ fallbacks' = <<>> => (search'.wanted = "closest" <=> plan'.kind = "vector")
          /\ plan'.kind = "vector" => fallbacks' = <<>>
      BY <3>2, <3>3
    <3>5. QED
      BY <3>2, <3>4 DEF DegradesHonestly
  <2>6. QED
    BY <2>1, <2>2, <2>5 DEF DegradesSoFar
<1>8. CASE Assemble
  <2>1. pc = "assemble" /\ pc' \in {"done", "prompt"} /\ error' \in {error, "insufficient"}
    BY <1>8 DEF Assemble
  <2>2. error # "search"
    BY <2>1 DEF DegradesSoFar
  <2>3. QED
    BY <2>1, <2>2 DEF DegradesSoFar, DegradesHonestly
<1>9. ASSUME NEW turns \in BoundedSeq(Lengths, MaxTurns), NEW memory \in {0} \cup Lengths, Compose(turns, memory)
      PROVE  DegradesSoFar'
  <2>1. pc = "prompt" /\ pc' = "done" /\ error' = error
    BY <1>9 DEF Compose
  <2>2. error # "search"
    BY <2>1 DEF DegradesSoFar
  <2>3. QED
    BY <2>1, <2>2 DEF DegradesSoFar, DegradesHonestly
<1>10. ASSUME NEW c \in Chunks, ChangeStore(c) PROVE DegradesSoFar'
  <2>1. /\ pc \in {"count", "query"} /\ UNCHANGED <<pc, plan, fallbacks, overtaken, faults, error>>
        /\ search' = [search EXCEPT !.changed = (pc = "query")]
    BY <1>10 DEF ChangeStore
  <2>2. Descent /\ error # "search"
    BY <2>1 DEF DegradesSoFar
  <2>3. search'.wanted = search.wanted /\ (pc = "query" => search'.changed)
    BY <2>1 DEF RTypeOK, Searches
  <2>4. Descent'
    BY <2>1, <2>2, <2>3 DEF Descent, Hybrid
  <2>5. QED
    BY <2>1, <2>2, <2>3, <2>4 DEF DegradesSoFar, DegradesHonestly
<1>11. CASE UNCHANGED rVars
  <2>1. UNCHANGED <<pc, plan, corpus, search, fallbacks, overtaken, faults, error>>
    BY <1>11 DEF rVars
  <2>2. QED
    BY <2>1 DEF DegradesSoFar, DegradesHonestly, Descent, Hybrid
<1>12. QED
  BY <1>2, <1>3, <1>4, <1>5, <1>6, <1>7, <1>8, <1>9, <1>10, <1>11 DEF RNext

LEMMA RInitPrompt == RInit => PromptSoFar
BY DEF RInit, PromptSoFar, PromptWithinBudget, EvidenceFits

LEMMA RStepPrompt ==
  ASSUME RTypeOK, PromptSoFar, [RNext]_rVars
  PROVE  PromptSoFar'
<1>1. ASSUME pc \in {"embed", "count", "query", "rank", "rerank"}, prompt' = prompt,
             error' # "insufficient" \/ error' = error, pc' # "prompt"
      PROVE  PromptSoFar'
  <2>1. error # "insufficient" /\ prompt = NoPrompt
    BY <1>1 DEF PromptSoFar
  <2>2. error' # "insufficient" /\ prompt' = NoPrompt
    BY <1>1, <2>1
  <2>3. NoPrompt' = NoPrompt
    BY DEF NoPrompt
  <2>4. EvidenceFits'
    BY <1>1, <2>2 DEF EvidenceFits
  <2> HIDE DEF NoPrompt
  <2>5. QED
    BY <2>2, <2>3, <2>4 DEF PromptSoFar, PromptWithinBudget
<1>2. ASSUME NEW ok \in BOOLEAN, Embed(ok) PROVE PromptSoFar'
  BY <1>1, <1>2 DEF Embed, GiveUp
<1>3. CASE Count
  BY <1>1, <1>3 DEF Count, Give
<1>4. ASSUME NEW ranking \in BySimilarity, Query(ranking) PROVE PromptSoFar'
  <2>1. pc = "query" /\ prompt' = prompt /\ error' = error /\ pc' \in {"assemble", "rank"}
    BY <1>4 DEF Query, Give
  <2>2. QED
    BY <1>1, <2>1
<1>5. CASE QueryFails
  BY <1>1, <1>5 DEF QueryFails, GiveUp
<1>6. ASSUME NEW panics \in BOOLEAN, Rank(panics) PROVE PromptSoFar'
  <2>1. pc = "rank" /\ prompt' = prompt /\ error' = error /\ pc' \in {"assemble", "rerank"}
    BY <1>6 DEF Rank, Give
  <2>2. QED
    BY <1>1, <2>1
<1>7. ASSUME NEW answer \in BoundedSeq(1..(TopK + 1), MaxAnswer), NEW ok \in BOOLEAN, Rerank(answer, ok)
      PROVE  PromptSoFar'
  <2>1. pc = "rerank" /\ prompt' = prompt /\ error' = error /\ pc' = "assemble"
    BY <1>7 DEF Rerank, Give
  <2>2. QED
    BY <1>1, <2>1
<1>8. CASE Assemble
  <2>1. pc = "assemble" /\ evidence' = AssembleContext(hits) /\ hits' = hits /\ prompt' = prompt
    BY <1>8 DEF Assemble
  <2>2. prompt = NoPrompt /\ NoPrompt' = NoPrompt
    BY <2>1 DEF PromptSoFar, NoPrompt
  <2>3. error' = "insufficient" => pc' = "done"
    BY <1>8, <2>1 DEF Assemble, PromptSoFar
  <2>4. Picks(hits)
    BY DEF RTypeOK
  <2>5. /\ evidence'.used <= MaxChars /\ IsPrefix(evidence'.kept, hits)
        /\ hits # <<>> /\ MaxChars > PrefixLength => evidence'.kept # <<>>
        /\ \A i \in 2..Len(evidence'.kept) : TextLength[evidence'.kept[i]] + PrefixLength <= MaxChars
    BY <2>1, <2>4, AssembleSound
  <2>6. EvidenceFits'
    <3> HIDE DEF NoPrompt
    <3>1. QED
      BY <2>1, <2>5 DEF EvidenceFits
  <2> HIDE DEF NoPrompt
  <2>7. QED
    BY <2>1, <2>2, <2>3, <2>6 DEF PromptSoFar, PromptWithinBudget
<1>9. ASSUME NEW turns \in BoundedSeq(Lengths, MaxTurns), NEW memory \in {0} \cup Lengths, Compose(turns, memory)
      PROVE  PromptSoFar'
  <2>1. /\ pc = "prompt" /\ pc' = "done" /\ UNCHANGED <<hits, evidence, error>>
        /\ prompt' = BuildPrompt(turns, memory, evidence.used)
    BY <1>9 DEF Compose
  <2>2. turns \in Seq(Nat) /\ memory \in Nat /\ evidence.used \in Nat
    BY SMTT(30), AnswersType, RetrievalAssumption DEF RTypeOK, Evidences
  <2>3. /\ prompt'.history <= Budget.history /\ prompt'.evidence <= Budget.evidence
        /\ prompt'.memory <= Budget.memory
        /\ prompt'.total <= Max({Budget.prompt, prompt'.base}) + 2 * Budget.label
        /\ prompt'.evidence < Min({Budget.evidence, evidence.used}) => prompt'.memory = 0
    BY <2>1, <2>2, PromptSound
  <2>4. EvidenceFits
    BY DEF PromptSoFar, PromptWithinBudget
  <2>5. error # "insufficient"
    BY <2>1 DEF PromptSoFar
  <2>6. EvidenceFits'
    BY <2>1, <2>5 DEF EvidenceFits
  <2>7. QED
    BY <2>1, <2>3, <2>5, <2>6 DEF PromptSoFar, PromptWithinBudget
<1>10. ASSUME NEW c \in Chunks, ChangeStore(c) PROVE PromptSoFar'
  BY <1>1, <1>10 DEF ChangeStore
<1>11. CASE UNCHANGED rVars
  <2>1. UNCHANGED <<pc, prompt, error, evidence, hits>>
    BY <1>11 DEF rVars
  <2>2. QED
    BY <2>1 DEF PromptSoFar, PromptWithinBudget, EvidenceFits
<1>12. QED
  BY <1>2, <1>3, <1>4, <1>5, <1>6, <1>7, <1>8, <1>9, <1>10, <1>11 DEF RNext
-----------------------------------------------------------------------------
(* A search by the vectors alone passes over none for a less similar one.  *)
LEMMA NonePassedOver ==
  ASSUME RTypeOK, AsksEnough, search.wanted = "closest", NEW r \in BySimilarity,
         NEW c \in corpus, plan.filtered => c \notin Outside, info[c].similarity >= Threshold,
         c \notin ToSet(Admitted(FirstOf(r, search.ask)))
  PROVE  LET result == Admitted(FirstOf(r, search.ask))
         IN  Len(result) = TopK /\ \A d \in ToSet(result) : info[d].similarity >= info[c].similarity
<1> DEFINE n == Cardinality(corpus)
           count == search.count
           ask == search.ask
           asked == FirstOf(r, ask)
           allowed == Only(asked, Admissible)
           result == FirstOf(allowed, count)
           R == {p \in Chunks \X Chunks : info[p[1]].similarity >= info[p[2]].similarity}
<1>1. /\ Picks(r) /\ ToSet(r) = corpus /\ Len(r) = n /\ n \in Nat
      /\ \A i, j \in 1..Len(r) : i < j => info[r[i]].similarity >= info[r[j]].similarity
  BY RankingsPick
<1>2. /\ TopK \in Nat /\ Threshold \in Int /\ info \in Infos /\ corpus \subseteq Chunks
      /\ \A d \in Chunks : info[d].similarity \in Int
  <2>1. info \in Infos
    BY DEF RTypeOK
  <2>2. \A d \in Chunks : info[d].similarity \in Int
    BY <2>1 DEF Infos
  <2>3. QED
    BY <2>1, <2>2, RankingAssumption, RetrievalAssumption DEF RTypeOK
<1>3. count = (IF TopK <= n THEN TopK ELSE n) /\ ask = (IF plan.filtered THEN n ELSE count)
  BY DEF AsksEnough
<1>4. c \in Admissible /\ Admissible = Filtered \cap Similar
  BY <1>2 DEF Admissible, Filtered, Similar
<1>5. Admitted(asked) = result
  BY DEF Admitted
<1> HIDE DEF n, count, ask
<1>6. count \in Nat /\ ask \in Nat /\ ask <= n /\ count <= n
  BY <1>1, <1>2, <1>3
<1>7. /\ Picks(asked) /\ Len(asked) = ask
      /\ \A i \in 1..Len(asked) : i \in 1..Len(r) /\ asked[i] = r[i]
  BY <1>1, <1>6, FirstPicks
<1> HIDE DEF asked
<1>8. /\ Picks(allowed) /\ Len(allowed) <= Len(asked) /\ Len(allowed) \in Nat
      /\ ToSet(allowed) = ToSet(asked) \cap Admissible
  BY <1>7, OnlyPicks DEF Picks
<1>9. \A i, j \in 1..Len(allowed) : i < j => <<allowed[i], allowed[j]>> \in R
  <2>1. asked \in Seq(Chunks)
    BY <1>7 DEF Picks
  <2>2. \A i, j \in 1..Len(asked) : i < j => <<asked[i], asked[j]>> \in R
    BY <1>1, <1>7, <2>1
  <2> HIDE DEF R
  <2>3. QED
    BY <2>1, <2>2, OnlyKeepsOrder
<1> HIDE DEF allowed
<1>10. /\ Picks(result) /\ Len(result) = (IF count < Len(allowed) THEN count ELSE Len(allowed))
       /\ ToSet(result) \subseteq ToSet(allowed)
       /\ \A i \in 1..Len(result) : i \in 1..Len(allowed) /\ result[i] = allowed[i]
  BY <1>6, <1>8, FirstPicks
<1>11. c \notin ToSet(result)
  BY <1>5 DEF ask, asked
<1> HIDE DEF result
<1>12. \A s : Picks(s) => ToSet(s) = {s[i] : i \in 1..Len(s)}
  BY DEF Picks, ToSet
<1>13. CASE c \in ToSet(asked)
  <2>1. c \in ToSet(allowed)
    BY <1>4, <1>8, <1>13
  <2>2. PICK j \in 1..Len(allowed) : allowed[j] = c
    BY <1>8, <1>12, <2>1
  <2>3. j \notin 1..Len(result)
    <3>1. ASSUME j \in 1..Len(result) PROVE FALSE
      <4>1. result[j] = c
        BY <1>10, <2>2, <3>1
      <4>2. QED
        BY <1>10, <1>11, <1>12, <3>1, <4>1
    <3>2. QED
      BY <3>1
  <2>4. Len(result) = count /\ count < j
    BY <1>6, <1>8, <1>10, <2>2, <2>3
  <2>5. count = TopK
    BY <1>1, <1>2, <1>3, <1>6, <1>7, <1>8, <2>2, <2>4
  <2>6. ASSUME NEW d \in ToSet(result) PROVE info[d].similarity >= info[c].similarity
    <3>1. PICK i \in 1..Len(result) : d = result[i]
      BY <1>10, <1>12
    <3>2. i \in 1..Len(allowed) /\ d = allowed[i] /\ i < j
      BY <1>6, <1>10, <2>2, <2>4, <3>1
    <3>3. <<d, c>> \in R
      BY <1>9, <2>2, <3>2
    <3>4. QED
      BY <3>3
  <2>7. QED
    BY <1>5, <2>4, <2>5, <2>6 DEF asked, ask
<1>14. CASE c \notin ToSet(asked)
  <2>1. PICK j \in 1..Len(r) : r[j] = c
    BY <1>1, <1>12
  <2>2. ask < j
    <3>1. ASSUME j <= ask PROVE FALSE
      <4>1. j \in 1..Len(asked)
        BY <1>6, <1>7, <2>1, <3>1
      <4>2. asked[j] = c
        BY <1>7, <2>1, <4>1
      <4>3. QED
        BY <1>7, <1>12, <1>14, <4>1, <4>2
    <3>2. QED
      BY <1>1, <1>6, <2>1, <3>1
  <2>3. ask < n
    BY <1>1, <1>6, <2>1, <2>2
  <2>4. ~plan.filtered
    BY <1>3, <1>6, <2>3
  <2>5. ask = count /\ count = TopK
    BY <1>1, <1>2, <1>3, <1>6, <2>3, <2>4
  <2>6. ASSUME NEW d \in ToSet(asked) PROVE info[d].similarity >= info[c].similarity /\ d \in Chunks
    <3>1. PICK i \in 1..Len(asked) : d = asked[i]
      BY <1>7, <1>12
    <3>2. i \in 1..Len(r) /\ d = r[i] /\ i < j
      BY <1>6, <1>7, <2>1, <2>2, <3>1
    <3>3. d \in Chunks
      BY <1>1, <3>2 DEF Picks
    <3>4. QED
      BY <1>1, <2>1, <3>2, <3>3
  <2>7. ToSet(asked) \subseteq Admissible
    <3>1. ASSUME NEW d \in ToSet(asked) PROVE d \in Admissible
      <4>1. d \in Chunks /\ info[d].similarity >= info[c].similarity /\ c \in Chunks
        BY <1>2, <2>6
      <4>2. info[d].similarity >= Threshold
        BY <1>2, <4>1
      <4>3. QED
        BY <1>4, <2>4, <4>1, <4>2 DEF Similar, Filtered
    <3>2. QED
      BY <3>1
  <2>8. ToSet(allowed) = ToSet(asked)
    BY <1>8, <2>7
  <2>9. Len(allowed) = Len(asked)
    BY <1>7, <1>8, <2>8, PicksSize
  <2>10. Len(result) = TopK
    BY <1>6, <1>7, <1>10, <2>5, <2>9
  <2>11. \A d \in ToSet(result) : info[d].similarity >= info[c].similarity
    BY <1>10, <2>6, <2>8
  <2>12. QED
    BY <1>5, <2>10, <2>11 DEF asked, ask
<1>15. QED
  BY <1>13, <1>14

LEMMA RInitHits == RInit => HitsSoFar
BY DEF RInit, HitsSoFar, HitsSound

(* What a hybrid search gives from the hits it has found.                  *)
LEMMA HybridHits ==
  ASSUME RTypeOK, HitsSoFar, pc \in {"rank", "rerank"}, pc' = "assemble",
         UNCHANGED <<info, plan, corpus, search, found, changes, seen>>,
         Picks(hits'), Len(hits') <= TopK,
         ToSet(hits') \subseteq ToSet(found.vector) \/ ToSet(hits') \subseteq ToSet(found.fused)
  PROVE  HitsSoFar'
<1>1. /\ search.wanted = "all"
      /\ ToSet(found.vector) \subseteq Similar \cap Filtered \cap seen
      /\ ToSet(found.lexical) \subseteq {c \in Filtered \cap seen : info[c].words > 0}
      /\ ToSet(found.fused) \subseteq ToSet(found.vector) \cup ToSet(found.lexical)
  BY DEF HitsSoFar
<1>2. ToSet(hits') \subseteq Filtered \cap seen
  BY <1>1
<1>3. Cardinality(ToSet(hits')) = Len(hits')
  BY PicksSize
<1>4. plan.filtered => ToSet(hits') \cap Outside = {}
  BY <1>2 DEF Filtered
<1>5. ASSUME NEW c \in ToSet(hits'), info[c].similarity < Threshold
      PROVE  info[c].words > 0 /\ found.fused # <<>>
  <2>1. c \notin Similar
    <3>1. c \in Chunks /\ info \in Infos /\ Threshold \in Int
      BY <1>2, RetrievalAssumption DEF RTypeOK
    <3>2. info[c].similarity \in Int
      BY <3>1 DEF Infos
    <3>3. QED
      BY <1>5, <3>1, <3>2 DEF Similar
  <2>2. c \notin ToSet(found.vector)
    BY <1>1, <2>1
  <2>3. c \in ToSet(found.fused)
    BY <1>5, <2>2
  <2>4. info[c].words > 0
    BY <1>1, <2>2, <2>3
  <2>5. ToSet(<<>>) = {}
    BY DEF ToSet
  <2>6. QED
    BY <2>3, <2>4, <2>5
<1>6. HitsSound'
  <2>1. \A c \in ToSet(hits') : info'[c].similarity < Threshold => info'[c].words > 0 /\ found'.fused # <<>>
    BY <1>5
  <2>2. search'.wanted # "closest"
    BY <1>1
  <2>3. ToSet(hits') \subseteq seen' /\ (plan'.filtered => ToSet(hits') \cap Outside = {})
    BY <1>2, <1>4
  <2>4. QED
    BY <1>3, <2>1, <2>2, <2>3 DEF HitsSound
<1>7. QED
  BY <1>6 DEF HitsSoFar

(* A search that finds nothing at all.                                     *)
LEMMA NothingSound ==
  ASSUME RTypeOK, hits' = <<>>, pc' = "assemble",
         search'.wanted = "closest" /\ changes' = 0 =>
           \A c \in corpus' : (plan'.filtered => c \notin Outside) => info'[c].similarity < Threshold
  PROVE  HitsSoFar'
<1>1. ToSet(hits') = {} /\ Len(hits') = 0 /\ TopK \in Nat
  BY RankingAssumption DEF ToSet
<1>2. Cardinality(ToSet(hits')) = 0
  BY <1>1, FS_EmptySet
<1>3. HitsSound'
  BY <1>1, <1>2 DEF HitsSound
<1>4. QED
  BY <1>3 DEF HitsSoFar

LEMMA RStepHits ==
  ASSUME RTypeOK, DegradesSoFar, HitsSoFar, [RNext]_rVars
  PROVE  HitsSoFar'
<1>1. ASSUME NEW ok \in BOOLEAN, Embed(ok) PROVE HitsSoFar'
  <2>1. pc' \in {"count", "done"}
    BY <1>1 DEF Embed, GiveUp
  <2>2. QED
    BY <2>1 DEF HitsSoFar, HitsSound
<1>2. CASE Count
  <2> DEFINE n == Cardinality(corpus)
             want == IF search.wanted = "all" THEN n ELSE Min({TopK, n})
  <2>1. n \in Nat /\ TopK \in Nat /\ Min({TopK, n}) = IF TopK <= n THEN TopK ELSE n
    BY WantedSize
  <2>2. UNCHANGED <<info, plan, corpus, found, changes, seen>>
    BY <1>2 DEF Count, observers
  <2>3. CASE n = 0
    <3>1. pc' = "assemble" /\ hits' = <<>>
      BY <1>2, <2>3 DEF Count, Give
    <3>2. corpus' = {}
      <4>1. IsFiniteSet(corpus)
        BY RankingAssumption, FS_Subset DEF RTypeOK
      <4>2. QED
        BY <2>2, <2>3, <4>1, FS_EmptySet
    <3>3. QED
      BY <3>1, <3>2, NothingSound
  <2>4. CASE n # 0
    <3>1. /\ pc' = "query"
          /\ search' = [search EXCEPT !.count = want, !.ask = (IF plan.filtered THEN n ELSE want), !.changed = FALSE]
      BY <1>2, <2>4 DEF Count
    <3> HIDE DEF n, want
    <3>2. /\ search'.wanted = search.wanted /\ search'.count = want
          /\ search'.ask = IF plan.filtered THEN n ELSE want
      BY <3>1 DEF RTypeOK, Searches
    <3>3. ASSUME search'.wanted = "closest" PROVE search'.count <= TopK /\ AsksEnough'
      <4>1. want = IF TopK <= n THEN TopK ELSE n
        BY <2>1, <3>2, <3>3 DEF want
      <4>2. want <= TopK
        BY <2>1, <4>1
      <4>3. QED
        BY <2>2, <3>2, <4>1, <4>2 DEF AsksEnough, n
    <3>4. QED
      BY <3>1, <3>3 DEF HitsSoFar, HitsSound
  <2>5. QED
    BY <2>3, <2>4
<1>3. ASSUME NEW ranking \in BySimilarity, Query(ranking) PROVE HitsSoFar'
  <2> DEFINE result == Admitted(FirstOf(ranking, search.ask))
  <2>1. pc = "query" /\ UNCHANGED <<info, plan, corpus, search, changes, seen>>
    BY <1>3 DEF Query, observers
  <2>2. Picks(ranking) /\ ToSet(ranking) = corpus
    BY RankingsPick
  <2>3. Picks(result) /\ Len(result) <= search.count /\ ToSet(result) \subseteq corpus \cap Admissible
    BY <2>2, AdmittedSound
  <2>4. corpus \subseteq seen /\ seen \subseteq Chunks /\ info \in Infos
    BY DEF RTypeOK
  <2>5. CASE search.wanted = "closest"
    <3>1. pc' = "assemble" /\ hits' = result /\ found' = found
      BY <1>3, <2>5 DEF Query, Give
    <3>2. Len(hits') <= TopK /\ Cardinality(ToSet(hits')) = Len(hits')
      <4>1. Len(result) \in Nat /\ search.count \in Nat /\ TopK \in Nat /\ search.count <= TopK
        BY <2>1, <2>3, <2>5, RankingAssumption DEF RTypeOK, Searches, HitsSoFar, Picks
      <4> HIDE DEF result
      <4>2. QED
        BY <2>3, <3>1, <4>1, PicksSize
    <3>3. ToSet(hits') \subseteq seen /\ ToSet(hits') \subseteq Filtered \cap Similar
      BY <2>3, <2>4, <2>5, <3>1 DEF Admissible
    <3>4. ASSUME NEW c \in ToSet(hits') PROVE ~(info[c].similarity < Threshold)
      <4>1. c \in Chunks /\ info[c].similarity >= Threshold
        BY <3>3, <3>4 DEF Similar
      <4>2. info[c].similarity \in Int /\ Threshold \in Int
        BY <2>4, <4>1, RetrievalAssumption DEF Infos
      <4>3. QED
        BY <4>1, <4>2
    <3>5. ASSUME changes = 0, NEW c \in corpus, c \notin ToSet(hits'), plan.filtered => c \notin Outside
          PROVE  \/ info[c].similarity < Threshold
                 \/ Len(hits') = TopK /\ \A d \in ToSet(hits') : info[d].similarity >= info[c].similarity
      <4>1. CASE info[c].similarity >= Threshold
        <5>1. AsksEnough
          BY <2>1, <2>5, <3>5 DEF HitsSoFar
        <5>2. c \notin ToSet(result)
          BY <3>1, <3>5
        <5>3. Len(result) = TopK /\ \A d \in ToSet(result) : info[d].similarity >= info[c].similarity
          BY <2>5, <3>5, <4>1, <5>1, <5>2, NonePassedOver
        <5>4. QED
          BY <3>1, <5>3
      <4>2. CASE ~(info[c].similarity >= Threshold)
        <5>1. c \in Chunks
          BY <2>4
        <5>2. info[c].similarity \in Int /\ Threshold \in Int
          BY <2>4, <5>1, RetrievalAssumption DEF Infos
        <5>3. QED
          BY <4>2, <5>2
      <4>3. QED
        BY <4>1, <4>2
    <3>6. HitsSound'
      <4>1. \A c \in ToSet(hits') : ~(info'[c].similarity < Threshold)
        BY <2>1, <3>4
      <4>2. plan.filtered => ToSet(hits') \cap Outside = {}
        BY <3>3 DEF Filtered
      <4>3. search'.wanted = "closest" /\ changes' = 0 =>
              \A c \in corpus' \ (ToSet(hits') \cup IF plan'.filtered THEN Outside ELSE {}) :
                \/ info'[c].similarity < Threshold
                \/ Len(hits') = TopK /\ \A d \in ToSet(hits') : info'[d].similarity >= info'[c].similarity
        BY <2>1, <3>5
      <4>4. ToSet(hits') \subseteq seen' /\ (plan'.filtered => ToSet(hits') \cap Outside = {})
        BY <2>1, <3>3, <4>2
      <4>5. QED
        BY <3>2, <4>1, <4>3, <4>4 DEF HitsSound
    <3>7. QED
      BY <3>1, <3>6 DEF HitsSoFar
  <2>6. CASE search.wanted # "closest"
    <3>1. search.wanted = "all"
      BY <2>1, <2>6 DEF DegradesSoFar, Descent
    <3>2. CASE result = <<>>
      <4>1. pc' = "assemble" /\ hits' = <<>> /\ search' = search
        BY <1>3, <2>6, <3>2 DEF Query, Give
      <4>2. QED
        BY <2>6, <4>1, NothingSound
    <3>3. CASE result # <<>>
      <4> DEFINE vector == FirstOf(Only(result, Similar), CandidateLimit)
                 lexical == LexicalSearch(info, ToSet(result), CandidateLimit)
                 fused == FuseRRF(info, vector, lexical, CandidateLimit)
      <4>1. pc' = "rank" /\ found' = [vector |-> vector, lexical |-> lexical, fused |-> fused]
        BY <1>3, <2>6, <3>3 DEF Query
      <4>2. /\ ToSet(vector) \subseteq ToSet(result) \cap Similar
            /\ ToSet(lexical) \subseteq {c \in ToSet(result) : info[c].words > 0}
            /\ ToSet(fused) \subseteq ToSet(vector) \cup ToSet(lexical)
        BY <2>3, FoundSound
      <4>3. ToSet(result) \subseteq Filtered \cap seen
        BY <2>3, <2>4 DEF Admissible
      <4> HIDE DEF result, vector, lexical, fused
      <4>4. found'.vector = vector /\ found'.lexical = lexical /\ found'.fused = fused
        BY <4>1
      <4>5. Similar' = Similar /\ Filtered' = Filtered /\ info' = info /\ seen' = seen
        BY <2>1 DEF Similar, Filtered
      <4>6. /\ ToSet(found'.vector) \subseteq Similar' \cap Filtered' \cap seen'
            /\ ToSet(found'.lexical) \subseteq {c \in Filtered' \cap seen' : info'[c].words > 0}
            /\ ToSet(found'.fused) \subseteq ToSet(found'.vector) \cup ToSet(found'.lexical)
        BY <4>2, <4>3, <4>4, <4>5
      <4>7. search'.wanted = "all"
        BY <2>1, <3>1
      <4>8. QED
        BY <4>1, <4>6, <4>7 DEF HitsSoFar, HitsSound
    <3>4. QED
      BY <3>2, <3>3
  <2>7. QED
    BY <2>5, <2>6
<1>4. CASE QueryFails
  <2>1. pc' \in {"count", "done"}
    BY <1>4 DEF QueryFails, GiveUp
  <2>2. QED
    BY <2>1 DEF HitsSoFar, HitsSound
<1>5. ASSUME NEW panics \in BOOLEAN, Rank(panics) PROVE HitsSoFar'
  <2>1. pc = "rank" /\ UNCHANGED <<info, plan, corpus, search, found, changes, seen>>
    BY <1>5 DEF Rank, observers
  <2>2. \/ pc' = "assemble" /\ hits' = FirstOf(found.vector, TopK)
        \/ pc' = "assemble" /\ hits' = FirstOf(found.fused, TopK)
        \/ pc' = "rerank"
    BY <1>5 DEF Rank, Give
  <2>3. CASE pc' = "assemble"
    <3>1. Picks(hits') /\ Len(hits') <= TopK
      <4>1. Picks(found.vector) /\ Picks(found.fused) /\ TopK \in Nat
        BY RankingAssumption DEF RTypeOK
      <4>2. ASSUME NEW s, Picks(s) PROVE Picks(FirstOf(s, TopK)) /\ Len(FirstOf(s, TopK)) <= TopK
        <5>1. Len(s) \in Nat
          BY <4>2 DEF Picks
        <5>2. QED
          BY <4>1, <4>2, <5>1, FirstPicks
      <4>3. QED
        BY <2>2, <2>3, <4>1, <4>2
    <3>2. ToSet(hits') \subseteq ToSet(found.vector) \/ ToSet(hits') \subseteq ToSet(found.fused)
      <4>1. Picks(found.vector) /\ Picks(found.fused) /\ TopK \in Nat
        BY RankingAssumption DEF RTypeOK
      <4>2. /\ ToSet(FirstOf(found.vector, TopK)) \subseteq ToSet(found.vector)
            /\ ToSet(FirstOf(found.fused, TopK)) \subseteq ToSet(found.fused)
        BY <4>1, FirstPicks
      <4>3. QED
        BY <2>2, <2>3, <4>2
    <3>3. QED
      BY <2>1, <2>3, <3>1, <3>2, HybridHits
  <2>4. CASE pc' = "rerank"
    <3>1. Similar' = Similar /\ Filtered' = Filtered
      BY <2>1 DEF Similar, Filtered
    <3>2. QED
      BY <2>1, <2>4, <3>1 DEF HitsSoFar, HitsSound
  <2>5. QED
    BY <2>2, <2>3, <2>4
<1>6. ASSUME NEW answer \in BoundedSeq(1..(TopK + 1), MaxAnswer), NEW ok \in BOOLEAN, Rerank(answer, ok)
      PROVE  HitsSoFar'
  <2>1. pc = "rerank" /\ pc' = "assemble" /\ UNCHANGED <<info, plan, corpus, search, found, changes, seen>>
    BY <1>6 DEF Rerank, Give, observers
  <2>2. /\ Picks(found.vector) /\ Picks(found.lexical) /\ Picks(found.fused) /\ TopK \in Nat /\ info \in Infos
        /\ answer \in Seq(Nat \ {0})
    <3>1. answer \in Seq(1..(TopK + 1)) /\ TopK \in Nat
      BY AnswersType, RankingAssumption
    <3>2. answer \in Seq(Nat \ {0})
      BY <3>1
    <3>3. QED
      BY <3>1, <3>2 DEF RTypeOK
  <2>3. \/ hits' = FirstOf(found.fused, TopK)
        \/ hits' = ModelRerank(found.fused, answer).hits
        \/ hits' = RerankShortlist(info, found.vector, found.lexical, found.fused)
    BY <1>6 DEF Rerank, Give
  <2>4. /\ Picks(FirstOf(found.fused, TopK)) /\ ToSet(FirstOf(found.fused, TopK)) \subseteq ToSet(found.fused)
        /\ Len(FirstOf(found.fused, TopK)) <= TopK
    <3>1. PICK s : s = found.fused
      OBVIOUS
    <3>2. Picks(s) /\ TopK \in Nat /\ Len(s) \in Nat
      <4>1. Picks(s) /\ TopK \in Nat
        BY <2>2, <3>1
      <4>2. s \in Seq(Chunks)
        BY <4>1 DEF Picks
      <4>3. Len(s) \in Nat
        BY <4>2
      <4>4. QED
        BY <4>1, <4>3
    <3>3. /\ Picks(FirstOf(s, TopK)) /\ ToSet(FirstOf(s, TopK)) \subseteq ToSet(s)
          /\ Len(FirstOf(s, TopK)) = IF TopK < Len(s) THEN TopK ELSE Len(s)
      BY <3>2, FirstPicks
    <3>4. Len(FirstOf(s, TopK)) <= TopK
      BY <3>2, <3>3
    <3>5. QED
      BY <3>1, <3>3, <3>4
  <2>5. /\ Picks(ModelRerank(found.fused, answer).hits)
        /\ ToSet(ModelRerank(found.fused, answer).hits) \subseteq ToSet(found.fused)
        /\ Len(ModelRerank(found.fused, answer).hits) <= TopK
    BY <2>2, ModelRerankSound
  <2>6. LET s == RerankShortlist(info, found.vector, found.lexical, found.fused)
        IN  Picks(s) /\ ToSet(s) \subseteq ToSet(found.fused) /\ Len(s) <= TopK
    BY <2>2, RerankSound
  <2>7. Picks(hits') /\ Len(hits') <= TopK /\ ToSet(hits') \subseteq ToSet(found.fused)
    BY <2>3, <2>4, <2>5, <2>6
  <2>8. QED
    BY <2>1, <2>7, HybridHits
<1>7. CASE Assemble
  <2>1. pc' \in {"prompt", "done"}
    BY <1>7 DEF Assemble
  <2>2. QED
    BY <2>1 DEF HitsSoFar, HitsSound
<1>8. ASSUME NEW turns \in BoundedSeq(Lengths, MaxTurns), NEW memory \in {0} \cup Lengths, Compose(turns, memory)
      PROVE  HitsSoFar'
  <2>1. pc' = "done"
    BY <1>8 DEF Compose
  <2>2. QED
    BY <2>1 DEF HitsSoFar, HitsSound
<1>9. ASSUME NEW c \in Chunks, ChangeStore(c) PROVE HitsSoFar'
  <2>1. /\ pc \in {"count", "query"} /\ pc' = pc /\ changes' = changes + 1
        /\ search' = [search EXCEPT !.changed = (pc = "query")]
    BY <1>9 DEF ChangeStore
  <2>2. search'.wanted = search.wanted /\ search'.count = search.count
    BY <2>1 DEF RTypeOK, Searches
  <2>3. changes' # 0
    BY <2>1 DEF RTypeOK
  <2>4. QED
    BY <2>1, <2>2, <2>3 DEF HitsSoFar, HitsSound
<1>10. CASE UNCHANGED rVars
  <2>1. UNCHANGED <<info, plan, corpus, pc, search, found, hits, changes, seen>>
    BY <1>10 DEF rVars
  <2>2. Similar' = Similar /\ Filtered' = Filtered
    BY <2>1 DEF Similar, Filtered
  <2>3. HitsSound' = HitsSound /\ AsksEnough' = AsksEnough
    BY <2>1 DEF HitsSound, AsksEnough
  <2>4. QED
    BY <2>1, <2>2, <2>3 DEF HitsSoFar
<1>11. QED
  BY <1>1, <1>2, <1>3, <1>4, <1>5, <1>6, <1>7, <1>8, <1>9, <1>10 DEF RNext
-----------------------------------------------------------------------------
LEMMA DivExact == \A q \in Nat, d \in Nat \ {0} : (q * d) \div d = q
<1>1. SUFFICES ASSUME NEW q \in Nat, NEW d \in Nat \ {0} PROVE (q * d) \div d = q
  OBVIOUS
<1>2. q * d \in Nat
  OBVIOUS
<1>3. PICK a \in Nat : a = q * d
  BY <1>2
<1>4. a \div d \in Int /\ d * (a \div d) <= a /\ a < d * (a \div d) + d
  BY <1>3
<1>5. PICK r \in Int : r = a \div d
  BY <1>4
<1>6. d * r <= q * d /\ q * d < d * r + d
  BY <1>3, <1>4, <1>5
<1>7. r <= q
  <2>1. ASSUME r >= q + 1 PROVE FALSE
    <3>1. d * r >= d * (q + 1)
      BY <2>1
    <3>2. d * (q + 1) = q * d + d
      OBVIOUS
    <3>3. QED
      BY <1>6, <3>1, <3>2
  <2>2. QED
    BY <2>1
<1>8. q <= r
  <2>1. ASSUME q >= r + 1 PROVE FALSE
    <3>1. d * q >= d * (r + 1)
      BY <2>1
    <3>2. d * (r + 1) = d * r + d /\ d * q = q * d
      OBVIOUS
    <3>3. QED
      BY <1>6, <3>1, <3>2
  <2>2. QED
    BY <2>1
<1>9. QED
  BY <1>3, <1>5, <1>7, <1>8

(* The greater the denominator the less the quotient.                      *)
LEMMA QuotientsOrder ==
  ASSUME NEW p \in Nat \ {0}, NEW q \in Nat \ {0}, NEW d \in Nat \ {0}, NEW e \in Nat \ {0}, p * d = q * e, d < e
  PROVE  q < p
<1>1. ASSUME p <= q PROVE FALSE
  <2>1. p * e <= q * e
    BY <1>1
  <2>2. p * d < p * e
    OBVIOUS
  <2>3. p * d \in Nat /\ p * e \in Nat /\ q * e \in Nat
    OBVIOUS
  <2>4. QED
    BY <2>1, <2>2, <2>3
<1>2. QED
  BY <1>1

(* 1/(k + i) + 1/(k + j) > 1/(k + m), for i and j up to k.                 *)
LEMMA TwoBeatOne ==
  ASSUME NEW k \in Nat \ {0}, NEW i \in 1..k, NEW j \in 1..k, NEW m \in Nat \ {0},
         NEW p \in Nat \ {0}, NEW q \in Nat \ {0}, NEW r \in Nat \ {0},
         p * (k + i) = r * (k + m), q * (k + j) = r * (k + m)
  PROVE  r < p + q
<1>1. PICK s \in Nat : s = r * (k + m)
  OBVIOUS
<1>2. s <= p * (k + k)
  <2>1. p * (k + i) <= p * (k + k)
    OBVIOUS
  <2>2. QED
    BY <1>1, <2>1
<1>3. s <= q * (k + k)
  <2>1. q * (k + j) <= q * (k + k)
    OBVIOUS
  <2>2. QED
    BY <1>1, <2>1
<1>4. PICK a \in Nat : a = p * k
  OBVIOUS
<1>5. PICK b \in Nat : b = q * k
  OBVIOUS
<1>6. p * (k + k) = a + a /\ q * (k + k) = b + b
  BY <1>4, <1>5
<1>7. s <= a + b
  BY <1>2, <1>3, <1>6
<1>8. ASSUME r >= p + q PROVE FALSE
  <2>1. r * (k + m) >= r * (k + 1)
    OBVIOUS
  <2>2. r * (k + 1) >= (p + q) * (k + 1)
    BY <1>8
  <2>3. (p + q) * (k + 1) = a + b + p + q
    BY <1>4, <1>5
  <2>4. r * (k + m) \in Nat /\ r * (k + 1) \in Nat
    OBVIOUS
  <2>5. QED
    BY <1>1, <1>7, <2>1, <2>2, <2>3, <2>4
<1>9. QED
  BY <1>8

LEMMA ReciprocalExact ==
  ASSUME NEW s, Picks(s), NEW c, Contains(s, c)
  PROVE  /\ Reciprocal(s, c) \in Nat \ {0} /\ IndexIn(s, c) \in 1..Len(s)
         /\ Reciprocal(s, c) * (RRFK + IndexIn(s, c)) = Scale
<1>1. IndexIn(s, c) \in 1..Len(s) /\ Len(s) \in Nat
  BY IndexType DEF Picks
<1>2. PICK i \in 1..Len(s) : i = IndexIn(s, c)
  BY <1>1
<1>3. i \in 1..Cardinality(Chunks)
  <2>1. Len(s) <= Cardinality(Chunks) /\ Cardinality(Chunks) \in Nat
    BY PicksSize
  <2>2. QED
    BY <1>1, <2>1
<1>4. PICK q \in Nat \ {0} : Scale = q * (RRFK + i)
  BY <1>3, ScaleExact
<1>5. RRFK + i \in Nat \ {0}
  BY <1>1, RankingAssumption
<1>6. PICK d \in Nat \ {0} : d = RRFK + i
  BY <1>5
<1>7. (q * d) \div d = q
  BY DivExact
<1>8. Reciprocal(s, c) = (q * d) \div d
  BY <1>2, <1>4, <1>6 DEF Reciprocal
<1>9. QED
  BY <1>1, <1>2, <1>4, <1>6, <1>7, <1>8

(* A chunk that a search puts before another gets more for that from it.   *)
LEMMA PlacesOrder ==
  ASSUME NEW s, Picks(s), NEW a, NEW b, Place(s, a) <= Place(s, b)
  PROVE  /\ Reciprocal(s, b) <= Reciprocal(s, a)
         /\ Place(s, a) < Place(s, b) => Reciprocal(s, b) < Reciprocal(s, a)
         /\ Place(s, a) \in Nat /\ Place(s, b) \in Nat
<1>1. Len(s) \in Nat /\ Reciprocal(s, a) \in Nat /\ Reciprocal(s, b) \in Nat
  BY ReciprocalType DEF Picks
<1>2. CASE ~Contains(s, b)
  <2>1. Reciprocal(s, b) = 0 /\ Place(s, b) = Len(s) + 1
    BY <1>2 DEF Reciprocal, Place
  <2>2. CASE Contains(s, a)
    <3>1. Reciprocal(s, a) # 0 /\ Place(s, a) \in Nat
      BY <2>2, ReciprocalExact DEF Place
    <3>2. QED
      BY <1>1, <2>1, <3>1
  <2>3. CASE ~Contains(s, a)
    <3>1. Reciprocal(s, a) = 0 /\ Place(s, a) = Len(s) + 1
      BY <2>3 DEF Reciprocal, Place
    <3>2. QED
      BY <1>1, <2>1, <3>1
  <2>4. QED
    BY <2>2, <2>3
<1>3. CASE Contains(s, b)
  <2>1. Place(s, b) = IndexIn(s, b) /\ IndexIn(s, b) \in 1..Len(s) /\ s[IndexIn(s, b)] = b
    BY <1>3, IndexType DEF Place
  <2>2. Contains(s, a)
    <3>1. ASSUME ~Contains(s, a) PROVE FALSE
      <4>1. Place(s, a) = Len(s) + 1
        BY <3>1 DEF Place
      <4>2. QED
        BY <1>1, <2>1, <4>1
    <3>2. QED
      BY <3>1
  <2>3. Place(s, a) = IndexIn(s, a) /\ IndexIn(s, a) \in 1..Len(s) /\ s[IndexIn(s, a)] = a
    BY <2>2, IndexType DEF Place
  <2>4. CASE IndexIn(s, a) = IndexIn(s, b)
    <3>1. a = b
      BY <2>1, <2>3, <2>4
    <3>2. QED
      BY <1>1, <2>1, <2>3, <2>4, <3>1
  <2>5. CASE IndexIn(s, a) # IndexIn(s, b)
    <3>1. PICK i \in 1..Len(s) : i = IndexIn(s, a)
      BY <2>3
    <3>2. PICK j \in 1..Len(s) : j = IndexIn(s, b)
      BY <2>1
    <3>3. i < j
      BY <1>1, <2>1, <2>3, <2>5, <3>1, <3>2
    <3>4. /\ RRFK + i \in Nat \ {0} /\ RRFK + j \in Nat \ {0} /\ RRFK + i < RRFK + j
      BY <1>1, <3>3, RankingAssumption
    <3>5. PICK p \in Nat \ {0} : p = Reciprocal(s, a) /\ p * (RRFK + i) = Scale
      BY <2>2, <3>1, ReciprocalExact
    <3>6. PICK q \in Nat \ {0} : q = Reciprocal(s, b) /\ q * (RRFK + j) = Scale
      BY <1>3, <3>2, ReciprocalExact
    <3>7. PICK d \in Nat \ {0} : d = RRFK + i
      BY <3>4
    <3>8. PICK e \in Nat \ {0} : e = RRFK + j
      BY <3>4
    <3>9. q < p
      BY <3>4, <3>5, <3>6, <3>7, <3>8, QuotientsOrder
    <3>10. QED
      BY <1>1, <2>1, <2>3, <3>5, <3>6, <3>9
  <2>6. QED
    BY <2>4, <2>5
<1>4. QED
  BY <1>2, <1>3

(* A cut keeps the places.                                                 *)
LEMMA PlacesCut ==
  ASSUME NEW s, Picks(s), NEW n \in Nat, NEW i \in 1..Len(s), NEW j \in 1..Len(s), i <= j
  PROVE  Place(FirstOf(s, n), s[i]) <= Place(FirstOf(s, n), s[j])
<1> DEFINE f == FirstOf(s, n)
<1>1. Picks(f) /\ \A k \in 1..Len(f) : k \in 1..Len(s) /\ f[k] = s[k]
  BY FirstPicks
<1> HIDE DEF f
<1>2. Len(f) \in Nat /\ Len(s) \in Nat
  BY <1>1 DEF Picks
<1>3. ASSUME NEW k \in 1..Len(s) PROVE Place(f, s[k]) = IF k <= Len(f) THEN k ELSE Len(f) + 1
  <2>1. CASE k <= Len(f)
    <3>1. k \in 1..Len(f)
      BY <1>2, <2>1
    <3>2. f[k] = s[k]
      BY <1>1, <3>1
    <3>3. Contains(f, f[k]) /\ IndexIn(f, f[k]) = k
      BY <1>1, <3>1, IndexOfPick
    <3>4. QED
      BY <2>1, <3>2, <3>3 DEF Place
  <2>2. CASE ~(k <= Len(f))
    <3>1. ASSUME Contains(f, s[k]) PROVE FALSE
      <4>1. PICK m \in 1..Len(f) : f[m] = s[k]
        BY <3>1 DEF Contains
      <4>2. m \in 1..Len(s) /\ s[m] = s[k] /\ m # k
        BY <1>1, <1>2, <2>2, <4>1
      <4>3. QED
        BY <4>2 DEF Picks
    <3>2. QED
      BY <2>2, <3>1 DEF Place
  <2>3. QED
    BY <2>1, <2>2
<1>4. Place(f, s[i]) <= Place(f, s[j])
  <2>1. /\ Place(f, s[i]) = IF i <= Len(f) THEN i ELSE Len(f) + 1
        /\ Place(f, s[j]) = IF j <= Len(f) THEN j ELSE Len(f) + 1
    BY <1>3
  <2>2. QED
    BY <1>2, <2>1
<1>5. QED
  BY <1>4 DEF f

(* The scores of the fusion.                                               *)
LEMMA ScoresAgree ==
  ASSUME NEW V, NEW L, Picks(V), Picks(L), NEW a, NEW b,
         Place(V, a) <= Place(V, b), Place(L, a) <= Place(L, b),
         Place(V, a) + Place(L, a) < Place(V, b) + Place(L, b)
  PROVE  FusedScore(V, L, b) < FusedScore(V, L, a)
<1>1. /\ Reciprocal(V, a) \in Nat /\ Reciprocal(V, b) \in Nat
      /\ Reciprocal(L, a) \in Nat /\ Reciprocal(L, b) \in Nat
  BY ReciprocalType
<1>2. /\ Reciprocal(V, b) <= Reciprocal(V, a)
      /\ Place(V, a) < Place(V, b) => Reciprocal(V, b) < Reciprocal(V, a)
      /\ Place(V, a) \in Nat /\ Place(V, b) \in Nat
  BY PlacesOrder
<1>3. /\ Reciprocal(L, b) <= Reciprocal(L, a)
      /\ Place(L, a) < Place(L, b) => Reciprocal(L, b) < Reciprocal(L, a)
      /\ Place(L, a) \in Nat /\ Place(L, b) \in Nat
  BY PlacesOrder
<1>4. Place(V, a) < Place(V, b) \/ Place(L, a) < Place(L, b)
  BY <1>2, <1>3
<1>5. Reciprocal(V, b) + Reciprocal(L, b) < Reciprocal(V, a) + Reciprocal(L, a)
  BY <1>1, <1>2, <1>3, <1>4
<1>6. QED
  BY <1>5 DEF FusedScore

LEMMA ScoresOfBoth ==
  ASSUME NEW V, NEW L, Picks(V), Picks(L), Len(V) <= RRFK, Len(L) <= RRFK,
         NEW a, Contains(V, a), Contains(L, a), NEW b, ~(Contains(V, b) /\ Contains(L, b))
  PROVE  FusedScore(V, L, b) < FusedScore(V, L, a)
<1>1. PICK i \in Nat \ {0} : i = IndexIn(V, a) /\ i <= RRFK /\ Reciprocal(V, a) * (RRFK + i) = Scale
  <2>1. /\ IndexIn(V, a) \in 1..Len(V) /\ Len(V) \in Nat
        /\ RRFK \in Nat /\ Reciprocal(V, a) * (RRFK + IndexIn(V, a)) = Scale
    <3>1. Len(V) \in Nat
      BY DEF Picks
    <3>2. IndexIn(V, a) \in 1..Len(V) /\ Reciprocal(V, a) * (RRFK + IndexIn(V, a)) = Scale
      BY ReciprocalExact
    <3>3. QED
      BY <3>1, <3>2, RankingAssumption
  <2>2. QED
    BY <2>1
<1>2. PICK j \in Nat \ {0} : j = IndexIn(L, a) /\ j <= RRFK /\ Reciprocal(L, a) * (RRFK + j) = Scale
  <2>1. /\ IndexIn(L, a) \in 1..Len(L) /\ Len(L) \in Nat
        /\ RRFK \in Nat /\ Reciprocal(L, a) * (RRFK + IndexIn(L, a)) = Scale
    <3>1. Len(L) \in Nat
      BY DEF Picks
    <3>2. IndexIn(L, a) \in 1..Len(L) /\ Reciprocal(L, a) * (RRFK + IndexIn(L, a)) = Scale
      BY ReciprocalExact
    <3>3. QED
      BY <3>1, <3>2, RankingAssumption
  <2>2. QED
    BY <2>1
<1>3. PICK p \in Nat \ {0} : p = Reciprocal(V, a)
  BY ReciprocalExact
<1>4. PICK q \in Nat \ {0} : q = Reciprocal(L, a)
  BY ReciprocalExact
<1>5. RRFK \in Nat \ {0} /\ i \in 1..RRFK /\ j \in 1..RRFK
  <2>1. RRFK \in Nat \ {0}
    BY RankingAssumption
  <2>2. i \in 1..RRFK
    BY <1>1, <2>1
  <2>3. j \in 1..RRFK
    BY <1>2, <2>1
  <2>4. QED
    BY <2>1, <2>2, <2>3
<1>6. ASSUME NEW s, Picks(s), Contains(s, b) PROVE Reciprocal(s, b) \in Nat /\ Reciprocal(s, b) < p + q
  <2>1. PICK r \in Nat \ {0} : r = Reciprocal(s, b) /\ r * (RRFK + IndexIn(s, b)) = Scale
    BY <1>6, ReciprocalExact
  <2>2. IndexIn(s, b) \in 1..Len(s) /\ Len(s) \in Nat
    BY <1>6, ReciprocalExact DEF Picks
  <2>3. PICK m \in Nat \ {0} : m = IndexIn(s, b)
    BY <2>2
  <2>4. p * (RRFK + i) = r * (RRFK + m) /\ q * (RRFK + j) = r * (RRFK + m)
    BY <1>1, <1>2, <1>3, <1>4, <2>1, <2>3
  <2>5. PICK k \in Nat \ {0} : k = RRFK
    BY <1>5
  <2>6. r < p + q
    <3>1. i \in 1..k /\ j \in 1..k /\ p * (k + i) = r * (k + m) /\ q * (k + j) = r * (k + m)
      BY <1>5, <2>4, <2>5
    <3>2. QED
      BY <3>1, TwoBeatOne
  <2>7. QED
    BY <2>1, <2>6
<1>7. FusedScore(V, L, a) = p + q
  BY <1>3, <1>4 DEF FusedScore
<1>8. /\ ~Contains(V, b) => Reciprocal(V, b) = 0
      /\ ~Contains(L, b) => Reciprocal(L, b) = 0
  BY DEF Reciprocal
<1>9. /\ Contains(V, b) => Reciprocal(V, b) \in Nat /\ Reciprocal(V, b) < p + q
      /\ Contains(L, b) => Reciprocal(L, b) \in Nat /\ Reciprocal(L, b) < p + q
  BY <1>6
<1>10. Reciprocal(V, b) + Reciprocal(L, b) < p + q
  BY <1>8, <1>9
<1>11. QED
  BY <1>7, <1>10 DEF FusedScore

LEMMA FusionSound ==
  ASSUME RTypeOK, FusesSoFar
  PROVE  FusionRespects
<1> DEFINE V == found.vector
           L == found.lexical
           f == found.fused
           sources == ToSet(V) \cup ToSet(L)
<1>1. SUFFICES ASSUME pc = "rank"
               PROVE  /\ Len(f) = Min({CandidateLimit, Cardinality(sources)}) /\ ToSet(f) \subseteq sources
                      /\ \A a, b \in sources :
                           \/ /\ Place(V, a) <= Place(V, b) /\ Place(L, a) <= Place(L, b)
                              /\ Place(V, a) + Place(L, a) < Place(V, b) + Place(L, b)
                           \/ /\ RRFK >= CandidateLimit
                              /\ a \in ToSet(V) \cap ToSet(L) /\ b \notin ToSet(V) \cap ToSet(L)
                           => Place(f, a) <= Place(f, b)
  BY DEF FusionRespects
<1>2. /\ Picks(V) /\ Picks(L) /\ info \in Infos /\ f = FuseRRF(info, V, L, CandidateLimit) /\ CandidateLimit \in Nat
      /\ Len(V) <= CandidateLimit /\ Len(L) <= CandidateLimit
  BY <1>1, LimitType DEF RTypeOK, FusesSoFar
<1> HIDE DEF V, L, f
<1>3. PICK s : /\ Picks(s) /\ ToSet(s) = sources
               /\ Len(s) = Cardinality(sources)
               /\ \A i, j \in 1..Len(s) : i < j => FusedScore(V, L, s[j]) <= FusedScore(V, L, s[i])
               /\ f = FirstOf(s, CandidateLimit)
  BY <1>2, FuseSound
<1>4. /\ V \in Seq(Chunks) /\ L \in Seq(Chunks) /\ Len(s) \in Nat
      /\ ToSet(s) = {s[i] : i \in 1..Len(s)}
  <2>1. V \in Seq(Chunks) /\ L \in Seq(Chunks)
    BY <1>2 DEF Picks
  <2>2. s \in Seq(Chunks)
    BY <1>3 DEF Picks
  <2>3. ToSet(s) = {s[i] : i \in 1..Len(s)}
    BY <2>2 DEF ToSet
  <2>4. QED
    BY <2>1, <2>2, <2>3
<1>5. Len(f) = Min({CandidateLimit, Cardinality(sources)})
  <2>1. PICK n \in Nat : n = Len(s)
    BY <1>4
  <2>2. PICK m \in Nat : m = CandidateLimit
    BY <1>2
  <2>3. Len(FirstOf(s, m)) = IF m < n THEN m ELSE n
    BY <1>3, <2>1, <2>2, FirstPicks
  <2>4. Min({m, n}) = IF m <= n THEN m ELSE n
    BY MinOfTwo
  <2>5. Len(FirstOf(s, m)) = Min({m, n})
    BY <2>3, <2>4
  <2> HIDE DEF sources
  <2>6. QED
    BY <1>3, <2>1, <2>2, <2>5
<1>6. ToSet(f) \subseteq sources
  BY <1>2, <1>3, FirstPicks
<1>7. ASSUME NEW a \in sources, NEW b \in sources, FusedScore(V, L, b) < FusedScore(V, L, a)
      PROVE  Place(f, a) <= Place(f, b)
  <2>1. PICK i \in 1..Len(s) : s[i] = a
    BY <1>3, <1>4
  <2>2. PICK j \in 1..Len(s) : s[j] = b
    BY <1>3, <1>4
  <2>3. FusedScore(V, L, a) \in Nat /\ FusedScore(V, L, b) \in Nat
    BY <1>2, FusedScoreType
  <2>4. i <= j
    <3>1. ASSUME j < i PROVE FALSE
      <4>1. FusedScore(V, L, a) <= FusedScore(V, L, b)
        BY <1>3, <2>1, <2>2, <3>1
      <4>2. QED
        BY <1>7, <2>3, <4>1
    <3>2. QED
      BY <1>4, <3>1
  <2>5. Place(FirstOf(s, CandidateLimit), s[i]) <= Place(FirstOf(s, CandidateLimit), s[j])
    BY <1>2, <1>3, <2>4, PlacesCut
  <2>6. QED
    BY <1>3, <2>1, <2>2, <2>5
<1>8. ASSUME NEW a \in sources, NEW b \in sources,
             Place(V, a) <= Place(V, b), Place(L, a) <= Place(L, b),
             Place(V, a) + Place(L, a) < Place(V, b) + Place(L, b)
      PROVE  Place(f, a) <= Place(f, b)
  <2>1. FusedScore(V, L, b) < FusedScore(V, L, a)
    BY <1>2, <1>8, ScoresAgree
  <2>2. QED
    BY <1>7, <2>1
<1>9. ASSUME NEW a \in sources, NEW b \in sources, RRFK >= CandidateLimit,
             a \in ToSet(V) \cap ToSet(L), b \notin ToSet(V) \cap ToSet(L)
      PROVE  Place(f, a) <= Place(f, b)
  <2>1. Contains(V, a) /\ Contains(L, a) /\ ~(Contains(V, b) /\ Contains(L, b))
    BY <1>4, <1>9, ContainsMember
  <2>2. Len(V) <= RRFK /\ Len(L) <= RRFK
    BY <1>2, <1>4, <1>9, RankingAssumption
  <2>3. FusedScore(V, L, b) < FusedScore(V, L, a)
    BY <1>2, <2>1, <2>2, ScoresOfBoth
  <2>4. QED
    BY <1>7, <2>3
<1>10. QED
  BY <1>5, <1>6, <1>8, <1>9

LEMMA RStepFuses ==
  ASSUME RTypeOK, FusesSoFar, [RNext]_rVars
  PROVE  FusesSoFar'
<1>1. ASSUME NEW ranking \in BySimilarity, Query(ranking) PROVE FusesSoFar'
  <2> DEFINE result == Admitted(FirstOf(ranking, search.ask))
             vector == FirstOf(Only(result, Similar), CandidateLimit)
             lexical == LexicalSearch(info, ToSet(result), CandidateLimit)
             fused == FuseRRF(info, vector, lexical, CandidateLimit)
  <2>1. info' = info
    BY <1>1 DEF Query
  <2>2. \/ pc' = "assemble"
        \/ found' = [vector |-> vector, lexical |-> lexical, fused |-> fused]
    BY <1>1 DEF Query, Give
  <2>3. /\ fused = FuseRRF(info, vector, lexical, CandidateLimit)
        /\ Len(vector) <= CandidateLimit /\ Len(lexical) <= CandidateLimit
    <3>1. Picks(result)
      BY RankingsPick, AdmittedSound
    <3> HIDE DEF result
    <3>2. QED
      BY <3>1, FoundSound
  <2> HIDE DEF vector, lexical, fused
  <2>4. pc' = "assemble" \/ (found'.vector = vector /\ found'.lexical = lexical /\ found'.fused = fused)
    BY <2>2
  <2>5. QED
    BY <2>1, <2>3, <2>4 DEF FusesSoFar
<1>2. \/ \E ranking \in BySimilarity : Query(ranking)
      \/ pc' # "rank"
      \/ UNCHANGED rVars
  <2>1. ASSUME NEW ok \in BOOLEAN, Embed(ok) \/ Rank(~ok) PROVE pc' # "rank"
    BY <2>1 DEF Embed, GiveUp, Rank, Give
  <2>2. Count \/ QueryFails \/ Assemble => pc' # "rank"
    BY DEF Count, QueryFails, Assemble, Give, GiveUp
  <2>3. ASSUME NEW answer, NEW ok \in BOOLEAN, Rerank(answer, ok) PROVE pc' # "rank"
    BY <2>3 DEF Rerank, Give
  <2>4. ASSUME NEW turns, NEW memory, Compose(turns, memory) PROVE pc' # "rank"
    BY <2>4 DEF Compose
  <2>5. ASSUME NEW c, ChangeStore(c) PROVE pc' # "rank"
    BY <2>5 DEF ChangeStore
  <2>6. QED
    BY <2>1, <2>2, <2>3, <2>4, <2>5 DEF RNext
<1>3. CASE UNCHANGED rVars
  <2>1. UNCHANGED <<pc, info, found>>
    BY <1>3 DEF rVars
  <2>2. QED
    BY <2>1 DEF FusesSoFar
<1>4. QED
  BY <1>1, <1>2, <1>3 DEF FusesSoFar
-----------------------------------------------------------------------------
(* Every state has the types that SearchDetailed, AssembleContext and      *)
(* buildPromptMessages give their results; no list of hits has one twice.  *)
THEOREM RTypeCorrect == RSpec => []RTypeOK
<1>1. RTypeOK /\ [RNext]_rVars => RTypeOK'
  BY RStepType
<1>2. QED
  BY RInitType, <1>1, PTL DEF RSpec

(* A hybrid search fails only if the store was changed under both of its   *)
(* queries or a fault came with a change, and a result that the configured *)
(* pipeline did not produce is reported as a fallback (SearchDetailed and  *)
(* fallbackToVectorOnly).                                                  *)
THEOREM DegradesSafe == RSpec => []DegradesHonestly
<1>1. RTypeOK /\ DegradesSoFar /\ [RNext]_rVars => (RTypeOK /\ DegradesSoFar)'
  BY RStepType, RStepDegrades
<1>2. DegradesSoFar => DegradesHonestly
  BY DEF DegradesSoFar
<1>3. QED
  BY RInitType, RInitDegrades, <1>1, <1>2, PTL DEF RSpec

(* Whatever path the search took and whatever changed under it, the hits   *)
(* are at most TopK chunks of the store that pass the filter, and the      *)
(* vectors alone pass over none for a less similar one (SearchWithFilter,  *)
(* FuseRRFWithK and the rerankers).                                        *)
THEOREM HitsSafe == RSpec => []HitsSound
<1>1. RTypeOK /\ DegradesSoFar /\ HitsSoFar /\ [RNext]_rVars => (RTypeOK /\ DegradesSoFar /\ HitsSoFar)'
  BY RStepType, RStepDegrades, RStepHits
<1>2. HitsSoFar => HitsSound
  BY DEF HitsSoFar
<1>3. QED
  BY RInitType, RInitDegrades, RInitHits, <1>1, <1>2, PTL DEF RSpec

(* The evidence fits, is a beginning of the hits and not empty without     *)
(* need, and the prompt keeps every budget (AssembleContext and            *)
(* buildPromptMessages).                                                   *)
THEOREM PromptSafe == RSpec => []PromptWithinBudget
<1>1. RTypeOK /\ PromptSoFar /\ [RNext]_rVars => (RTypeOK /\ PromptSoFar)'
  BY RStepType, RStepPrompt
<1>2. PromptSoFar => PromptWithinBudget
  BY DEF PromptSoFar
<1>3. QED
  BY RInitType, RInitPrompt, <1>1, <1>2, PTL DEF RSpec

(* Reciprocal rank fusion respects both searches, and with a constant as   *)
(* large as the lists a chunk that both found comes before any that only   *)
(* one found (FuseRRFWithK).                                               *)
THEOREM FusionSafe == RSpec => []FusionRespects
<1>1. RInit => FusesSoFar
  BY DEF RInit, FusesSoFar
<1>2. RTypeOK /\ FusesSoFar /\ [RNext]_rVars => (RTypeOK /\ FusesSoFar)'
  BY RStepType, RStepFuses
<1>3. RTypeOK /\ FusesSoFar => FusionRespects
  BY FusionSound
<1>4. QED
  BY RInitType, <1>1, <1>2, <1>3, PTL DEF RSpec
=============================================================================
