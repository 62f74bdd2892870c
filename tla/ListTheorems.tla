---------------------------- MODULE ListTheorems ----------------------------
(***************************************************************************)
(* Induction over numbers and folds over sequences, in the form of facts   *)
(* about sets and functions: no statement takes an operator as parameter,  *)
(* so that each can be cited for any formula by naming the set of numbers  *)
(* it holds for, or the steps of the fold as functions.  With them, the    *)
(* operators of Lists.                                                     *)
(***************************************************************************)
EXTENDS Lists, FiniteSetTheorems, SequenceTheorems, TLAPS

(* A set of numbers with 0 and the successors of its elements has them     *)
(* all: a number n outside would make the successor an injection of the    *)
(* elements up to n into those other than 0.                               *)
LEMMA NumbersByInduction ==
  ASSUME NEW S \in SUBSET Nat, 0 \in S, \A n \in S : n + 1 \in S
  PROVE  S = Nat
<1>1. SUFFICES ASSUME NEW n \in Nat, n \notin S PROVE FALSE
  OBVIOUS
<1> DEFINE T == S \cap (0..n)
           succ == [k \in T |-> k + 1]
<1>2. IsFiniteSet(T) /\ 0 \in T
  <2>1. IsFiniteSet(0..n) /\ T \subseteq 0..n
    BY FS_Interval
  <2>2. QED
    BY <2>1, FS_Subset
<1>3. succ \in [T -> T \ {0}]
  BY <1>1
<1>4. \A i, j \in T : i # j => succ[i] # succ[j]
  OBVIOUS
<1> HIDE DEF T, succ
<1>5. IsFiniteSet(T \ {0}) /\ Cardinality(T \ {0}) = Cardinality(T) - 1 /\ Cardinality(T) \in Nat
  BY <1>2, FS_RemoveElement, FS_CardinalityType
<1>6. Cardinality(T \ {0}) < Cardinality(T)
  BY <1>5
<1>7. QED
  BY <1>2, <1>3, <1>4, <1>5, <1>6, FS_PigeonHole

LEMMA MinOfTwo ==
  ASSUME NEW a \in Int, NEW b \in Int
  PROVE  Min({a, b}) = IF a <= b THEN a ELSE b
BY DEF Min

LEMMA MaxOfTwo ==
  ASSUME NEW a \in Int, NEW b \in Int
  PROVE  Max({a, b}) = IF a <= b THEN b ELSE a
BY DEF Max

LEMMA MaxOfInterval == ASSUME NEW k \in Nat \ {0} PROVE Max(1..k) = k /\ (1..k) \ {k} = 1..(k - 1)
BY DEF Max

(* The largest of a set of numbers up to n. *)
LEMMA MaxOfSome ==
  ASSUME NEW n \in Nat, NEW s \in SUBSET (1..n), s # {}
  PROVE  Max(s) \in s /\ \A i \in s : i <= Max(s)
<1> DEFINE P(k) == \A t \in SUBSET (1..k) : t # {} => \E m \in t : \A i \in t : i <= m
           S == {k \in Nat : P(k)}
<1>1. P(0)
  <2>1. 1..0 = {}
    OBVIOUS
  <2>2. QED
    BY <2>1
<1>2. ASSUME NEW k \in Nat, P(k) PROVE P(k + 1)
  <2>1. SUFFICES ASSUME NEW t \in SUBSET (1..(k + 1)), t # {} PROVE \E m \in t : \A i \in t : i <= m
    OBVIOUS
  <2>2. CASE k + 1 \in t
    BY <2>1, <2>2
  <2>3. CASE k + 1 \notin t
    <3>1. t \in SUBSET (1..k)
      BY <2>1, <2>3
    <3>2. QED
      BY <3>1, <2>1, <1>2
  <2>4. QED
    BY <2>2, <2>3
<1>3. P(n)
  <2> HIDE DEF P
  <2>1. S \in SUBSET Nat /\ 0 \in S /\ \A k \in S : k + 1 \in S
    BY <1>1, <1>2
  <2> HIDE DEF S
  <2>2. S = Nat
    BY <2>1, NumbersByInduction
  <2> USE DEF S
  <2>3. QED
    BY <2>2
<1>4. \E m \in s : \A i \in s : i <= m
  BY <1>3
<1>5. QED
  BY <1>4 DEF Max

(* The fold of the positions up to n is a function on their sets, of which *)
(* it takes the last one first; step[i] is what position i does to what    *)
(* the earlier ones have made of base.                                     *)
IsFold(f, A, base, n, step) ==
  /\ f \in [SUBSET (1..n) -> A]
  /\ \A s \in SUBSET (1..n) : f[s] = IF s = {} THEN base ELSE step[Max(s)][f[s \ {Max(s)}]]

(* There is one, whatever the steps do.                                    *)
LEMMA FoldExists ==
  ASSUME NEW A, NEW base \in A, NEW n \in Nat, NEW step \in [1..n -> [A -> A]]
  PROVE  \E f : IsFold(f, A, base, n, step)
<1> DEFINE Folds(k, f) ==
             \A s \in SUBSET (1..k) : f[s] = IF s = {} THEN base ELSE step[Max(s)][f[s \ {Max(s)}]]
           P(k) == k <= n => \E f \in [SUBSET (1..k) -> A] : Folds(k, f)
           S == {k \in Nat : P(k)}
<1>1. P(0)
  <2>1. [s \in SUBSET (1..0) |-> base] \in [SUBSET (1..0) -> A]
    OBVIOUS
  <2>2. Folds(0, [s \in SUBSET (1..0) |-> base])
    <3>1. 1..0 = {}
      OBVIOUS
    <3>2. \A s \in SUBSET (1..0) : s = {}
      BY <3>1
    <3>3. QED
      BY <3>2
  <2> HIDE DEF Folds
  <2>3. QED
    BY <2>1, <2>2
<1>2. ASSUME NEW k \in Nat, P(k) PROVE P(k + 1)
  <2>1. SUFFICES ASSUME k + 1 <= n PROVE \E f \in [SUBSET (1..(k + 1)) -> A] : Folds(k + 1, f)
    OBVIOUS
  <2>2. PICK f \in [SUBSET (1..k) -> A] : Folds(k, f)
    <3>1. k <= n
      BY <2>1
    <3>2. QED
      BY <1>2, <3>1
  <2> DEFINE g == [s \in SUBSET (1..(k + 1)) |-> IF k + 1 \in s THEN step[k + 1][f[s \ {k + 1}]] ELSE f[s]]
  <2>3. step[k + 1] \in [A -> A]
    BY <2>1
  <2>4. \A s \in SUBSET (1..(k + 1)) : s \ {k + 1} \in SUBSET (1..k) /\ (k + 1 \notin s => s \in SUBSET (1..k))
    OBVIOUS
  <2>5. g \in [SUBSET (1..(k + 1)) -> A]
    BY <2>2, <2>3, <2>4
  <2>6. ASSUME NEW s \in SUBSET (1..(k + 1))
        PROVE  g[s] = IF s = {} THEN base ELSE step[Max(s)][g[s \ {Max(s)}]]
    <3>1. CASE k + 1 \in s
      <4>1. Max(s) = k + 1
        <5>1. k + 1 \in Nat /\ s # {}
          BY <3>1
        <5>2. Max(s) \in s /\ \A i \in s : i <= Max(s)
          BY <5>1, MaxOfSome
        <5>3. Max(s) \in 1..(k + 1) /\ k + 1 <= Max(s)
          BY <5>2, <3>1
        <5>4. QED
          BY <5>3
      <4>2. g[s] = step[k + 1][f[s \ {k + 1}]] /\ g[s \ {k + 1}] = f[s \ {k + 1}]
        BY <2>4, <3>1
      <4>3. QED
        BY <3>1, <4>1, <4>2
    <3>2. CASE k + 1 \notin s
      <4>1. s \in SUBSET (1..k) /\ g[s] = f[s]
        BY <2>4, <3>2
      <4>2. g[s \ {Max(s)}] = f[s \ {Max(s)}]
        BY <3>2
      <4>3. QED
        BY <2>2, <4>1, <4>2
    <3>3. QED
      BY <3>1, <3>2
  <2>7. Folds(k + 1, g)
    BY <2>6
  <2> HIDE DEF Folds, g
  <2>8. QED
    BY <2>5, <2>7
<1>3. P(n)
  <2> HIDE DEF P
  <2>1. S \in SUBSET Nat /\ 0 \in S /\ \A k \in S : k + 1 \in S
    BY <1>1, <1>2
  <2> HIDE DEF S
  <2>2. S = Nat
    BY <2>1, NumbersByInduction
  <2> USE DEF S
  <2>3. QED
    BY <2>2
<1>4. QED
  <2>1. n <= n
    OBVIOUS
  <2>2. QED
    BY <1>3, <2>1, Zenon DEF IsFold

(* f is a fold as long as its values are in A. *)
FoldsWithin(f, A, base, n, step) ==
  /\ f[{}] = base
  /\ \A s \in SUBSET (1..n) :
       s # {} /\ f[s \ {Max(s)}] \in A => f[s] = step[Max(s)][f[s \ {Max(s)}]]

(* I[k] is the set of values of which something holds after the first k    *)
(* positions.  It holds of base, and each step keeps it.                   *)
Inductive(I, A, base, n, step) ==
  /\ I \in [0..n -> SUBSET A] /\ base \in I[0]
  /\ \A k \in 1..n : \A a \in I[k - 1] : step[k][a] \in I[k]

(* Then it holds of the fold. *)
LEMMA FoldInduction ==
  ASSUME NEW A, NEW base \in A, NEW n \in Nat, NEW step \in [1..n -> [A -> A]],
         NEW f, FoldsWithin(f, A, base, n, step), NEW I, Inductive(I, A, base, n, step)
  PROVE  f[1..n] \in I[n]
<1> USE DEF FoldsWithin, Inductive
<1> DEFINE P(k) == k <= n => f[1..k] \in I[k]
           S == {k \in Nat : P(k)}
<1>1. P(0)
  <2>1. 1..0 = {}
    OBVIOUS
  <2>2. QED
    BY <2>1
<1>2. ASSUME NEW k \in Nat, P(k) PROVE P(k + 1)
  <2>1. SUFFICES ASSUME k + 1 <= n PROVE f[1..(k + 1)] \in I[k + 1]
    OBVIOUS
  <2>2. f[1..k] \in I[k] /\ k + 1 \in 1..n /\ (k + 1) - 1 = k /\ k \in 0..n
    BY <1>2, <2>1
  <2>3. Max(1..(k + 1)) = k + 1 /\ (1..(k + 1)) \ {k + 1} = 1..k
    <3>1. k + 1 \in Nat \ {0} /\ (k + 1) - 1 = k
      OBVIOUS
    <3>2. QED
      BY <3>1, MaxOfInterval
  <2>4. 1..(k + 1) \in SUBSET (1..n) /\ 1..(k + 1) # {}
    <3>1. 1 \in 1..(k + 1)
      OBVIOUS
    <3>2. 1..(k + 1) \subseteq 1..n
      BY <2>1
    <3>3. QED
      BY <3>1, <3>2
  <2>5. f[1..k] \in A
    BY <2>2
  <2>6. f[1..(k + 1)] = step[k + 1][f[1..k]]
    BY <2>3, <2>4, <2>5
  <2>7. step[k + 1][f[1..k]] \in I[k + 1]
    BY <2>2
  <2>8. QED
    BY <2>6, <2>7
<1>3. P(n)
  <2> HIDE DEF P
  <2>1. S \in SUBSET Nat /\ 0 \in S /\ \A k \in S : k + 1 \in S
    BY <1>1, <1>2
  <2> HIDE DEF S
  <2>2. S = Nat
    BY <2>1, NumbersByInduction
  <2> USE DEF S
  <2>3. QED
    BY <2>2
<1>4. n <= n
  OBVIOUS
<1>5. QED
  BY <1>3, <1>4

(* more is step with one position more.                                    *)
Prolongs(more, step, A, n) ==
  /\ step \in [1..n -> [A -> A]] /\ more \in [1..(n + 1) -> [A -> A]]
  /\ \A k \in 1..n : more[k] = step[k]

(* A fold over one position more, with the same steps up to there, makes   *)
(* one step more of the same.                                              *)
LEMMA FoldOneMore ==
  ASSUME NEW A, NEW base \in A, NEW n \in Nat, NEW step, NEW more, Prolongs(more, step, A, n),
         NEW f, FoldsWithin(f, A, base, n, step), NEW g, FoldsWithin(g, A, base, n + 1, more)
  PROVE  f[1..n] \in A /\ g[1..(n + 1)] = more[n + 1][f[1..n]]
<1> USE DEF Prolongs
<1>1. 1..0 = {} /\ f[{}] = base /\ g[{}] = base
  BY DEF FoldsWithin
<1>2. ASSUME NEW k \in 1..n, f[1..(k - 1)] \in A
      PROVE  f[1..k] = step[k][f[1..(k - 1)]] /\ f[1..k] \in A
  <2>1. k \in Nat \ {0} /\ 1..k \in SUBSET (1..n) /\ 1..k # {}
    <3>1. k \in Nat \ {0} /\ 1 \in 1..k /\ 1..k \subseteq 1..n
      OBVIOUS
    <3>2. QED
      BY <3>1
  <2>2. Max(1..k) = k /\ (1..k) \ {k} = 1..(k - 1)
    BY <2>1, MaxOfInterval
  <2>3. f[1..k] = step[k][f[1..(k - 1)]]
    <3> DEFINE t == 1..k
    <3>1. t # {} /\ f[t \ {Max(t)}] \in A => f[t] = step[Max(t)][f[t \ {Max(t)}]]
      <4> HIDE DEF t
      <4>1. t \in SUBSET (1..(n))
        BY <2>1 DEF t
      <4>2. QED
        BY <4>1 DEF FoldsWithin
    <3>2. QED
      BY <1>2, <2>1, <2>2, <3>1
  <2>4. QED
    BY <1>2, <2>3
<1>3. ASSUME NEW k \in 1..(n + 1), g[1..(k - 1)] \in A
      PROVE  g[1..k] = more[k][g[1..(k - 1)]] /\ g[1..k] \in A
  <2>1. k \in Nat \ {0} /\ 1..k \in SUBSET (1..(n + 1)) /\ 1..k # {}
    <3>1. k \in Nat \ {0} /\ 1 \in 1..k /\ 1..k \subseteq 1..(n + 1)
      OBVIOUS
    <3>2. QED
      BY <3>1
  <2>2. Max(1..k) = k /\ (1..k) \ {k} = 1..(k - 1)
    BY <2>1, MaxOfInterval
  <2>3. g[1..k] = more[k][g[1..(k - 1)]]
    <3> DEFINE t == 1..k
    <3>1. t # {} /\ g[t \ {Max(t)}] \in A => g[t] = more[Max(t)][g[t \ {Max(t)}]]
      <4> HIDE DEF t
      <4>1. t \in SUBSET (1..(n + 1))
        BY <2>1 DEF t
      <4>2. QED
        BY <4>1 DEF FoldsWithin
    <3>2. QED
      BY <1>3, <2>1, <2>2, <3>1
  <2>4. QED
    BY <1>3, <2>3
<1> DEFINE P(k) == k <= n => f[1..k] \in A /\ g[1..k] = f[1..k]
           S == {k \in Nat : P(k)}
<1>4. P(0)
  BY <1>1
<1>5. ASSUME NEW k \in Nat, P(k) PROVE P(k + 1)
  <2>1. SUFFICES ASSUME k + 1 <= n PROVE f[1..(k + 1)] \in A /\ g[1..(k + 1)] = f[1..(k + 1)]
    OBVIOUS
  <2>2. k + 1 \in 1..n /\ k + 1 \in 1..(n + 1) /\ (k + 1) - 1 = k /\ f[1..k] \in A /\ g[1..k] = f[1..k]
    BY <1>5, <2>1
  <2>3. f[1..(k + 1)] = step[k + 1][f[1..k]] /\ f[1..(k + 1)] \in A
    BY <1>2, <2>2
  <2>4. g[1..(k + 1)] = more[k + 1][g[1..k]]
    BY <1>3, <2>2
  <2>5. QED
    BY <2>2, <2>3, <2>4
<1>6. P(n)
  <2> HIDE DEF P
  <2>1. S \in SUBSET Nat /\ 0 \in S /\ \A k \in S : k + 1 \in S
    BY <1>4, <1>5
  <2> HIDE DEF S
  <2>2. S = Nat
    BY <2>1, NumbersByInduction
  <2> USE DEF S
  <2>3. QED
    BY <2>2
<1>7. f[1..n] \in A /\ g[1..n] = f[1..n]
  BY <1>6
<1>8. n + 1 \in 1..(n + 1) /\ (n + 1) - 1 = n
  OBVIOUS
<1>9. g[1..(n + 1)] = more[n + 1][g[1..n]]
  BY <1>3, <1>7, <1>8
<1>10. QED
  BY <1>7, <1>9
-----------------------------------------------------------------------------
(* What holds of the elements taken so far, position by position, holds of *)
(* all that are taken.                                                     *)
LEMMA OnlyInduction ==
  ASSUME NEW A, NEW s \in Seq(A), NEW T,
         NEW I \in [0..Len(s) -> SUBSET Seq(A)], <<>> \in I[0],
         \A k \in 1..Len(s) : \A taken \in I[k - 1] :
           (IF s[k] \in T THEN Append(taken, s[k]) ELSE taken) \in I[k]
  PROVE  Only(s, T) \in I[Len(s)]
<1> DEFINE n == Len(s)
           B == Seq(A)
           step == [i \in 1..n |-> [a \in B |-> IF s[i] \in T THEN Append(a, s[i]) ELSE a]]
           Eq(h) == h = [t \in SUBSET DOMAIN s |->
                           IF t = {} THEN <<>>
                           ELSE IF s[Max(t)] \in T THEN Append(h[t \ {Max(t)}], s[Max(t)]) ELSE h[t \ {Max(t)}]]
           f == CHOOSE h : Eq(h)
<1>1. n \in Nat /\ DOMAIN s = 1..n /\ <<>> \in B /\ step \in [1..n -> [B -> B]]
  OBVIOUS
<1>2. \A t \in SUBSET (1..n) : t # {} => Max(t) \in 1..n
  BY <1>1, MaxOfSome
<1>3. PICK g : IsFold(g, B, <<>>, n, step)
  <2> HIDE DEF n, step, B
  <2>1. QED
    BY <1>1, FoldExists
<1>4. Eq(g)
  <2>1. g = [t \in SUBSET (1..n) |-> g[t]] /\ \A t \in SUBSET (1..n) : g[t \ {Max(t)}] \in B
    BY <1>3 DEF IsFold
  <2>2. ASSUME NEW t \in SUBSET (1..n), t # {}
        PROVE  g[t] = IF s[Max(t)] \in T THEN Append(g[t \ {Max(t)}], s[Max(t)]) ELSE g[t \ {Max(t)}]
    <3>1. g[t] = step[Max(t)][g[t \ {Max(t)}]]
      BY <1>3, <2>2 DEF IsFold
    <3>2. QED
      BY <1>2, <2>1, <2>2, <3>1
  <2>3. g[{}] = <<>>
    BY <1>3 DEF IsFold
  <2> HIDE DEF n, step, B
  <2>4. QED
    BY <1>1, <2>1, <2>2, <2>3
<1>5. Eq(f)
  <2> HIDE DEF Eq
  <2>1. QED
    BY <1>4
<1>6. Only(s, T) = f[DOMAIN s]
  BY DEF Only, FoldLeft, MapThenFoldSet
<1>7. f[{}] = <<>>
  <2> HIDE DEF f
  <2>1. QED
    BY <1>5
<1>8. ASSUME NEW t \in SUBSET (1..n), t # {}, f[t \ {Max(t)}] \in B
      PROVE  f[t] = step[Max(t)][f[t \ {Max(t)}]]
  <2> HIDE DEF f
  <2>1. f[t] = IF s[Max(t)] \in T THEN Append(f[t \ {Max(t)}], s[Max(t)]) ELSE f[t \ {Max(t)}]
    BY <1>1, <1>5, <1>8
  <2>2. Max(t) \in 1..n
    BY <1>2, <1>8
  <2>3. QED
    BY <1>8, <2>1, <2>2
<1>9. ASSUME NEW k \in 1..n, NEW a \in I[k - 1] PROVE step[k][a] \in I[k]
  <2>1. a \in B
    BY <1>1
  <2>2. QED
    BY <2>1
<1>10. f[1..n] \in I[n]
  <2> HIDE DEF n, step, f, B
  <2>1. FoldsWithin(f, B, <<>>, n, step)
    BY <1>7, <1>8 DEF FoldsWithin
  <2>2. I \in [0..n -> SUBSET B] /\ <<>> \in I[0]
    BY DEF n, B
  <2>3. Inductive(I, B, <<>>, n, step)
    BY <1>9, <2>2 DEF Inductive
  <2>4. QED
    BY <1>1, <2>1, <2>3, FoldInduction
<1>11. QED
  BY <1>1, <1>6, <1>10
(* The elements taken are those of s in T, and stand in any order in which *)
(* those of s stand.                                                       *)
LEMMA OnlyTakes ==
  ASSUME NEW A, NEW s \in Seq(A), NEW T
  PROVE  /\ Only(s, T) \in Seq(A) /\ Len(Only(s, T)) <= Len(s)
         /\ ToSet(Only(s, T)) = ToSet(s) \cap T
<1> DEFINE Taken(k) == {s[i] : i \in 1..k} \cap T
           I == [k \in 0..Len(s) |-> {a \in Seq(A) : Len(a) <= k /\ ToSet(a) = Taken(k)}]
<1>1. I \in [0..Len(s) -> SUBSET Seq(A)]
  OBVIOUS
<1>2. <<>> \in I[0]
  BY DEF ToSet
<1>3. ASSUME NEW k \in 1..Len(s), NEW a \in I[k - 1]
      PROVE  (IF s[k] \in T THEN Append(a, s[k]) ELSE a) \in I[k]
  <2>1. a \in Seq(A) /\ Len(a) <= k - 1 /\ ToSet(a) = Taken(k - 1) /\ s[k] \in A
    OBVIOUS
  <2>2. {s[i] : i \in 1..k} = {s[i] : i \in 1..(k - 1)} \cup {s[k]}
    OBVIOUS
  <2>3. CASE s[k] \in T
    <3>1. Append(a, s[k]) \in Seq(A) /\ Len(Append(a, s[k])) <= k
      BY <2>1
    <3>2. ToSet(Append(a, s[k])) = ToSet(a) \cup {s[k]}
      <4> DEFINE b == Append(a, s[k])
      <4>1. /\ Len(b) = Len(a) + 1 /\ b[Len(a) + 1] = s[k] /\ \A i \in 1..Len(a) : b[i] = a[i]
            /\ DOMAIN b = 1..(Len(a) + 1) /\ DOMAIN a = 1..Len(a) /\ Len(a) \in Nat
        BY <2>1
      <4> HIDE DEF b
      <4>2. ASSUME NEW x \in ToSet(b) PROVE x \in ToSet(a) \cup {s[k]}
        BY <4>1, SMTT(20) DEF ToSet
      <4>3. ASSUME NEW x \in ToSet(a) PROVE x \in ToSet(b)
        BY <4>1, SMTT(20) DEF ToSet
      <4>4. s[k] \in ToSet(b)
        BY <4>1, SMTT(20) DEF ToSet
      <4>5. ToSet(b) = ToSet(a) \cup {s[k]}
        BY <4>2, <4>3, <4>4
      <4>6. QED
        BY <4>5 DEF b
    <3>3. Taken(k) = Taken(k - 1) \cup {s[k]}
      BY <2>2, <2>3
    <3>4. ToSet(Append(a, s[k])) = Taken(k)
      <4> HIDE DEF Taken
      <4>1. QED
        BY <2>1, <3>2, <3>3
    <3>5. Append(a, s[k]) \in I[k]
      <4> HIDE DEF Taken
      <4>1. QED
        BY <3>1, <3>4
    <3>6. QED
      BY <2>3, <3>5
  <2>4. CASE s[k] \notin T
    <3>1. Taken(k) = Taken(k - 1)
      BY <2>2, <2>4
    <3>2. Len(a) <= k
      BY <2>1
    <3>3. QED
      BY <2>1, <2>4, <3>1, <3>2
  <2>5. QED
    BY <2>3, <2>4
<1>4. Only(s, T) \in I[Len(s)]
  <2> HIDE DEF I
  <2>1. QED
    BY <1>1, <1>2, <1>3, OnlyInduction
<1>5. {s[i] : i \in 1..Len(s)} = ToSet(s)
  BY DEF ToSet
<1>6. Only(s, T) \in Seq(A) /\ Len(Only(s, T)) <= Len(s) /\ ToSet(Only(s, T)) = Taken(Len(s))
  BY <1>4
<1>7. QED
  BY <1>5, <1>6

LEMMA OnlyKeepsOrder ==
  ASSUME NEW A, NEW s \in Seq(A), NEW T, NEW R,
         \A i, j \in 1..Len(s) : i < j => <<s[i], s[j]>> \in R
  PROVE  LET o == Only(s, T) IN \A i, j \in 1..Len(o) : i < j => <<o[i], o[j]>> \in R
<1> DEFINE Ordered(a) == \A i, j \in 1..Len(a) : i < j => <<a[i], a[j]>> \in R
           I == [k \in 0..Len(s) |->
                   {a \in Seq(A) : Ordered(a) /\ \A j \in 1..Len(a) : \E i \in 1..k : a[j] = s[i]}]
<1>1. I \in [0..Len(s) -> SUBSET Seq(A)]
  OBVIOUS
<1>2. <<>> \in I[0]
  OBVIOUS
<1>3. ASSUME NEW k \in 1..Len(s), NEW a \in I[k - 1]
      PROVE  (IF s[k] \in T THEN Append(a, s[k]) ELSE a) \in I[k]
  <2>1. /\ a \in Seq(A) /\ Ordered(a) /\ s[k] \in A
        /\ \A j \in 1..Len(a) : \E i \in 1..(k - 1) : a[j] = s[i]
    OBVIOUS
  <2>2. CASE s[k] \in T
    <3> DEFINE b == Append(a, s[k])
    <3>1. /\ b \in Seq(A) /\ Len(b) = Len(a) + 1 /\ Len(a) \in Nat
          /\ b[Len(a) + 1] = s[k] /\ \A j \in 1..Len(a) : b[j] = a[j]
      BY <2>1
    <3> HIDE DEF b
    <3>2. \A j \in 1..Len(b) : \E i \in 1..k : b[j] = s[i]
      <4>1. ASSUME NEW j \in 1..Len(b) PROVE \E i \in 1..k : b[j] = s[i]
        <5>1. CASE j = Len(a) + 1
          BY <3>1, <5>1
        <5>2. CASE j \in 1..Len(a)
          <6>1. PICK i \in 1..(k - 1) : a[j] = s[i]
            BY <2>1, <5>2
          <6>2. i \in 1..k /\ b[j] = s[i]
            BY <3>1, <5>2, <6>1
          <6>3. QED
            BY <6>2
        <5>3. QED
          BY <3>1, <5>1, <5>2
      <4>2. QED
        BY <4>1
    <3>3. ASSUME NEW i \in 1..Len(b), NEW j \in 1..Len(b), i < j PROVE <<b[i], b[j]>> \in R
      <4>1. i \in 1..Len(a) /\ b[i] = a[i]
        BY <3>1, <3>3
      <4>2. CASE j = Len(a) + 1
        <5>1. PICK m \in 1..(k - 1) : a[i] = s[m]
          BY <2>1, <4>1
        <5>2. m \in 1..Len(s) /\ m < k
          OBVIOUS
        <5>3. QED
          BY <3>1, <4>1, <4>2, <5>1, <5>2
      <4>3. CASE j \in 1..Len(a)
        BY <2>1, <3>1, <3>3, <4>1, <4>3
      <4>4. QED
        BY <3>1, <4>2, <4>3
    <3>4. Ordered(b)
      BY <3>3
    <3>5. b \in I[k]
      <4> HIDE DEF Ordered
      <4>1. QED
        BY <3>1, <3>2, <3>4
    <3>6. QED
      BY <2>2, <3>5 DEF b
  <2>3. CASE s[k] \notin T
    <3>1. \A j \in 1..Len(a) : \E i \in 1..k : a[j] = s[i]
      BY <2>1
    <3> HIDE DEF Ordered
    <3>2. QED
      BY <2>1, <2>3, <3>1
  <2>4. QED
    BY <2>2, <2>3
<1>4. Only(s, T) \in I[Len(s)]
  <2> HIDE DEF I
  <2>1. QED
    BY <1>1, <1>2, <1>3, OnlyInduction
<1>5. QED
  BY <1>4

(* The first elements of a sequence. *)
LEMMA FirstOfTakes ==
  ASSUME NEW A, NEW s \in Seq(A), NEW n \in Nat
  PROVE  /\ FirstOf(s, n) \in Seq(A)
         /\ Len(FirstOf(s, n)) = IF n < Len(s) THEN n ELSE Len(s)
         /\ \A i \in 1..Len(FirstOf(s, n)) : i \in 1..Len(s) /\ FirstOf(s, n)[i] = s[i]
         /\ ToSet(FirstOf(s, n)) \subseteq ToSet(s)
<1> DEFINE m == IF n < Len(s) THEN n ELSE Len(s)
<1>1. m \in Nat /\ m <= Len(s) /\ \A i \in 1..m : i \in 1..Len(s) /\ s[i] \in A
  OBVIOUS
<1>2. /\ SubSeq(s, 1, m) \in Seq(A) /\ Len(SubSeq(s, 1, m)) = m
      /\ \A i \in 1..m : SubSeq(s, 1, m)[i] = s[i]
  <2> HIDE DEF m
  <2>1. QED
    BY <1>1
<1>3. FirstOf(s, n) = SubSeq(s, 1, m)
  BY DEF FirstOf
<1> HIDE DEF m
<1>4. ToSet(FirstOf(s, n)) \subseteq ToSet(s)
  BY <1>1, <1>2, <1>3 DEF ToSet
<1>5. QED
  BY <1>1, <1>2, <1>3, <1>4 DEF m
-----------------------------------------------------------------------------
(* A total order, as a set of pairs. *)
Orders(R, S) ==
  /\ \A a, b \in S : a # b => <<a, b>> \in R \/ <<b, a>> \in R
  /\ \A a, b, c \in S : <<a, b>> \in R /\ <<b, c>> \in R => <<a, c>> \in R

InOrder(s, k, R) ==
  /\ \A i, j \in 1..k : i # j => s[i] # s[j]
  /\ \A i, j \in 1..k : i < j => <<s[i], s[j]>> \in R

(* In an ordered sequence there is a place for one more element. *)
LEMMA PlaceExists ==
  ASSUME NEW U, NEW R, Orders(R, U), NEW x \in U, NEW k \in Nat, NEW s \in [1..k -> U \ {x}], InOrder(s, k, R)
  PROVE  \E m \in 0..k : \A i \in 1..k : IF i <= m THEN <<s[i], x>> \in R ELSE <<x, s[i]>> \in R
<1> DEFINE D == {i \in 1..k : <<s[i], x>> \in R}
<1>1. \A i \in 1..k : s[i] \in U /\ s[i] # x
  OBVIOUS
<1>2. \A i \in 1..k : i \notin D => <<x, s[i]>> \in R
  BY <1>1 DEF Orders
<1>3. CASE D = {}
  <2>1. \A i \in 1..k : <<x, s[i]>> \in R
    BY <1>2, <1>3
  <2>2. 0 \in 0..k /\ \A i \in 1..k : ~(i <= 0)
    OBVIOUS
  <2>3. QED
    BY <2>1, <2>2
<1>4. CASE D # {}
  <2>1. D \in SUBSET (1..k)
    OBVIOUS
  <2>2. PICK m \in D : \A i \in D : i <= m
    <3> HIDE DEF D
    <3>1. QED
      BY <1>4, <2>1, MaxOfSome
  <2>3. ASSUME NEW i \in 1..k PROVE IF i <= m THEN <<s[i], x>> \in R ELSE <<x, s[i]>> \in R
    <3>1. m \in 1..k /\ <<s[m], x>> \in R
      BY <2>2
    <3>2. CASE i < m
      <4>1. <<s[i], s[m]>> \in R
        BY <3>1, <3>2 DEF InOrder
      <4>2. <<s[i], x>> \in R
        BY <1>1, <3>1, <4>1 DEF Orders
      <4>3. QED
        BY <3>1, <3>2, <4>2
    <3>3. CASE i = m
      BY <3>1, <3>3
    <3>4. CASE i > m
      <4>1. i \notin D
        BY <2>2, <3>1, <3>4
      <4>2. ~(i <= m)
        BY <3>1, <3>4
      <4>3. QED
        BY <1>2, <4>1, <4>2
    <3>5. QED
      BY <3>1, <3>2, <3>3, <3>4
  <2>4. m \in 0..k
    BY <2>2
  <2>5. QED
    BY <2>3, <2>4
<1>5. QED
  BY <1>3, <1>4

LEMMA InsertInOrder ==
  ASSUME NEW U, NEW R, Orders(R, U), NEW x \in U, NEW k \in Nat, NEW s \in [1..k -> U \ {x}], InOrder(s, k, R)
  PROVE  \E t \in [1..(k + 1) -> U] : InOrder(t, k + 1, R)
<1>1. PICK m \in 0..k : \A i \in 1..k : IF i <= m THEN <<s[i], x>> \in R ELSE <<x, s[i]>> \in R
  BY PlaceExists
<1> DEFINE t == [i \in 1..(k + 1) |-> IF i <= m THEN s[i] ELSE IF i = m + 1 THEN x ELSE s[i - 1]]
<1>2. \A i \in 1..(k + 1) : /\ i <= m => i \in 1..k
                            /\ ~(i <= m) /\ i # m + 1 => i - 1 \in 1..k /\ ~(i - 1 <= m)
  OBVIOUS
<1>3. \A i \in 1..k : s[i] \in U /\ s[i] # x
  OBVIOUS
<1>4. t \in [1..(k + 1) -> U]
  BY <1>2, <1>3
<1>5. /\ \A i \in 1..(k + 1) : i <= m => t[i] = s[i] /\ i \in 1..k
      /\ \A i \in 1..(k + 1) : i = m + 1 => t[i] = x
      /\ \A i \in 1..(k + 1) : i > m + 1 => t[i] = s[i - 1] /\ i - 1 \in 1..k /\ i - 1 > m
  BY <1>2
<1> HIDE DEF t
<1>6. ASSUME NEW i \in 1..(k + 1), NEW j \in 1..(k + 1), i < j
      PROVE  <<t[i], t[j]>> \in R /\ t[i] # t[j]
  <2>1. CASE j <= m
    <3>1. i <= m
      BY <1>6, <2>1
    <3>2. t[i] = s[i] /\ t[j] = s[j] /\ i \in 1..k /\ j \in 1..k
      BY <1>5, <2>1, <3>1
    <3>3. QED
      BY <1>6, <3>2 DEF InOrder
  <2>2. CASE j = m + 1
    <3>1. i <= m
      BY <1>6, <2>2
    <3>2. t[i] = s[i] /\ t[j] = x /\ i \in 1..k
      BY <1>5, <2>2, <3>1
    <3>3. QED
      BY <1>1, <1>3, <3>1, <3>2
  <2>3. CASE j > m + 1 /\ i <= m
    <3>1. t[i] = s[i] /\ t[j] = s[j - 1] /\ i \in 1..k /\ j - 1 \in 1..k /\ i < j - 1
      BY <1>5, <2>3
    <3>2. QED
      BY <3>1 DEF InOrder
  <2>4. CASE j > m + 1 /\ i = m + 1
    <3>1. t[i] = x /\ t[j] = s[j - 1] /\ j - 1 \in 1..k /\ ~(j - 1 <= m)
      BY <1>5, <2>4
    <3>2. QED
      BY <1>1, <1>3, <3>1
  <2>5. CASE j > m + 1 /\ i > m + 1
    <3>1. t[i] = s[i - 1] /\ t[j] = s[j - 1] /\ i - 1 \in 1..k /\ j - 1 \in 1..k /\ i - 1 < j - 1
      BY <1>5, <1>6, <2>5
    <3>2. QED
      BY <3>1 DEF InOrder
  <2>6. QED
    BY <2>1, <2>2, <2>3, <2>4, <2>5
<1>7. InOrder(t, k + 1, R)
  <2>1. ASSUME NEW i \in 1..(k + 1), NEW j \in 1..(k + 1), i # j PROVE t[i] # t[j]
    <3>1. i < j \/ j < i
      BY <2>1
    <3>2. QED
      BY <1>6, <3>1
  <2>2. QED
    BY <1>6, <2>1 DEF InOrder
<1>8. QED
  BY <1>4, <1>7

(* So every finite set can be put in order. *)
LEMMA SortedExists ==
  ASSUME NEW S, IsFiniteSet(S), NEW R, Orders(R, S)
  PROVE  \E s \in SetToSeqs(S) : \A i, j \in DOMAIN s : i < j => <<s[i], s[j]>> \in R
<1> DEFINE P(k) == \A U \in SUBSET S : Cardinality(U) = k => \E s \in [1..k -> U] : InOrder(s, k, R)
           N == {k \in Nat : P(k)}
<1>1. P(0)
  <2>1. \A U : [i \in 1..0 |-> i] \in [1..0 -> U] /\ InOrder([i \in 1..0 |-> i], 0, R)
    BY DEF InOrder
  <2>2. QED
    BY <2>1
<1>2. ASSUME NEW k \in Nat, P(k) PROVE P(k + 1)
  <2>1. SUFFICES ASSUME NEW U \in SUBSET S, Cardinality(U) = k + 1
                 PROVE  \E s \in [1..(k + 1) -> U] : InOrder(s, k + 1, R)
    OBVIOUS
  <2>2. IsFiniteSet(U) /\ k + 1 # 0
    BY FS_Subset
  <2>3. PICK x \in U : TRUE
    BY <2>1, <2>2, FS_EmptySet
  <2>4. Cardinality(U \ {x}) = k
    <3>1. Cardinality(U \ {x}) = Cardinality(U) - 1
      BY <2>2, <2>3, FS_RemoveElement
    <3>2. QED
      BY <2>1, <3>1
  <2>5. PICK s \in [1..k -> U \ {x}] : InOrder(s, k, R)
    <3>1. U \ {x} \in SUBSET S
      OBVIOUS
    <3>2. QED
      BY <1>2, <2>4, <3>1
  <2>6. Orders(R, U)
    BY DEF Orders
  <2>7. QED
    BY <2>3, <2>5, <2>6, InsertInOrder
<1>3. N = Nat
  <2> HIDE DEF P
  <2>1. N \in SUBSET Nat /\ 0 \in N /\ \A k \in N : k + 1 \in N
    BY <1>1, <1>2
  <2> HIDE DEF N
  <2>2. QED
    BY <2>1, NumbersByInduction
<1>4. Cardinality(S) \in Nat
  BY FS_CardinalityType
<1>5. P(Cardinality(S))
  <2> HIDE DEF P
  <2>1. QED
    BY <1>3, <1>4
<1>6. PICK s \in [1..Cardinality(S) -> S] : InOrder(s, Cardinality(S), R)
  BY <1>5
<1>7. s \in SetToSeqs(S) /\ DOMAIN s = 1..Cardinality(S)
  BY <1>6 DEF SetToSeqs, InOrder
<1>8. QED
  BY <1>6, <1>7 DEF InOrder

(* The sequences of the elements of a finite set. *)
LEMMA SetToSeqsType ==
  ASSUME NEW S, IsFiniteSet(S), NEW s \in SetToSeqs(S)
  PROVE  /\ s \in Seq(S) /\ Len(s) = Cardinality(S) /\ ToSet(s) = S
         /\ DOMAIN s = 1..Len(s) /\ \A i, j \in 1..Len(s) : i # j => s[i] # s[j]
<1> DEFINE n == Cardinality(S)
<1>1. n \in Nat /\ s \in [1..n -> S] /\ \A i, j \in 1..n : i # j => s[i] # s[j]
  BY FS_CardinalityType DEF SetToSeqs
<1> HIDE DEF n
<1>2. s \in Seq(S) /\ Len(s) = n /\ DOMAIN s = 1..n
  BY <1>1
<1>3. ToSet(s) = S
  <2>1. ToSet(s) = {s[i] : i \in 1..n}
    BY <1>2 DEF ToSet
  <2>2. IsFiniteSet(1..n) /\ Cardinality(1..n) = n
    <3>1. Cardinality(1..n) = IF 1 > n THEN 0 ELSE n - 1 + 1
      BY <1>1, FS_Interval
    <3>2. QED
      BY <1>1, <3>1, FS_Interval
  <2>3. \A y \in S : \E i \in 1..n : s[i] = y
    <3>1. s \in Injection(1..n, S)
      BY <1>1 DEF Injection, IsInjective
    <3>2. s \in Surjection(1..n, S)
      BY <2>2, <3>1, FS_Injection DEF n
    <3>3. QED
      BY <3>2 DEF Surjection
  <2>4. QED
    BY <1>1, <2>1, <2>3
<1>4. QED
  BY <1>1, <1>2, <1>3 DEF n
-----------------------------------------------------------------------------
(* What Only has taken of each beginning of a sequence.                    *)
OnlyStages(F, A, s, T) ==
  /\ F \in [0..Len(s) -> Seq(A)] /\ F[0] = <<>>
  /\ \A k \in 1..Len(s) : F[k] = IF s[k] \in T THEN Append(F[k - 1], s[k]) ELSE F[k - 1]

LEMMA OnlyByStages ==
  ASSUME NEW A, NEW s \in Seq(A), NEW T, NEW F, OnlyStages(F, A, s, T)
  PROVE  Only(s, T) = F[Len(s)]
<1> DEFINE I == [k \in 0..Len(s) |-> {F[k]}]
<1>1. F \in [0..Len(s) -> Seq(A)] /\ F[0] = <<>> /\ Len(s) \in Nat
  BY DEF OnlyStages
<1>2. I \in [0..Len(s) -> SUBSET Seq(A)] /\ <<>> \in I[0]
  BY <1>1
<1>3. ASSUME NEW k \in 1..Len(s), NEW a \in I[k - 1]
      PROVE  (IF s[k] \in T THEN Append(a, s[k]) ELSE a) \in I[k]
  <2>1. k - 1 \in 0..Len(s) /\ k \in 0..Len(s)
    BY <1>1
  <2>2. a = F[k - 1]
    BY <1>3, <2>1
  <2>3. F[k] = IF s[k] \in T THEN Append(F[k - 1], s[k]) ELSE F[k - 1]
    BY <1>3 DEF OnlyStages
  <2>4. QED
    BY <2>1, <2>2, <2>3
<1> HIDE DEF I
<1>4. Only(s, T) \in I[Len(s)]
  BY <1>2, <1>3, OnlyInduction
<1>5. QED
  BY <1>1, <1>4 DEF I

LEMMA OnlyStagesExist ==
  ASSUME NEW A, NEW s \in Seq(A), NEW T
  PROVE  \E F : OnlyStages(F, A, s, T)
<1> DEFINE n == Len(s)
           B == Seq(A)
           step == [i \in 1..n |-> [a \in B |-> IF s[i] \in T THEN Append(a, s[i]) ELSE a]]
<1>1. n \in Nat /\ <<>> \in B /\ step \in [1..n -> [B -> B]]
  OBVIOUS
<1>2. PICK f : IsFold(f, B, <<>>, n, step)
  <2> HIDE DEF n, step, B
  <2>1. QED
    BY <1>1, FoldExists
<1> DEFINE F == [k \in 0..n |-> f[1..k]]
<1>3. \A k \in 0..n : 1..k \in SUBSET (1..n)
  BY <1>1
<1>4. F \in [0..n -> B]
  BY <1>2, <1>3 DEF IsFold
<1>5. F[0] = <<>>
  <2>1. 1..0 = {} /\ 0 \in 0..n
    BY <1>1
  <2>2. f[{}] = <<>>
    BY <1>2 DEF IsFold
  <2>3. QED
    BY <2>1, <2>2
<1>6. ASSUME NEW k \in 1..n PROVE F[k] = IF s[k] \in T THEN Append(F[k - 1], s[k]) ELSE F[k - 1]
  <2>1. k \in Nat \ {0} /\ k \in 0..n /\ k - 1 \in 0..n /\ 1 \in 1..k
    BY <1>1
  <2>2. Max(1..k) = k /\ (1..k) \ {k} = 1..(k - 1)
    BY <2>1, MaxOfInterval
  <2>3. 1..k \in SUBSET (1..n) /\ 1..k # {}
    BY <1>3, <2>1
  <2>4. f[1..k] = step[k][f[1..(k - 1)]]
    BY <1>2, <2>2, <2>3 DEF IsFold
  <2>5. F[k - 1] \in B /\ F[k - 1] = f[1..(k - 1)] /\ F[k] = f[1..k]
    BY <1>4, <2>1
  <2> HIDE DEF F
  <2>6. F[k] = step[k][F[k - 1]]
    BY <2>4, <2>5
  <2>7. QED
    BY <2>5, <2>6
<1> HIDE DEF F, step
<1>7. OnlyStages(F, A, s, T)
  BY <1>4, <1>5, <1>6 DEF OnlyStages
<1>8. QED
  BY <1>7

(* The last element comes last, if it is taken, *)
LEMMA OnlyAppend ==
  ASSUME NEW A, NEW s \in Seq(A), NEW x \in A, NEW T
  PROVE  Only(Append(s, x), T) = IF x \in T THEN Append(Only(s, T), x) ELSE Only(s, T)
<1> DEFINE n == Len(s)
           r == Append(s, x)
<1>1. n \in Nat /\ r \in Seq(A) /\ Len(r) = n + 1 /\ r[n + 1] = x /\ \A k \in 1..n : r[k] = s[k]
  OBVIOUS
<1>2. PICK F : OnlyStages(F, A, s, T)
  BY OnlyStagesExist
<1>3. Only(s, T) = F[n]
  BY <1>2, OnlyByStages
<1>4. F \in [0..n -> Seq(A)] /\ F[0] = <<>> /\ F[n] \in Seq(A)
  BY <1>1, <1>2 DEF OnlyStages
<1> DEFINE last == IF x \in T THEN Append(F[n], x) ELSE F[n]
           G == [k \in 0..(n + 1) |-> IF k = n + 1 THEN last ELSE F[k]]
<1>5. last \in Seq(A)
  BY <1>4
<1>6. \A k \in 0..n : k \in 0..(n + 1) /\ k # n + 1
  BY <1>1
<1>7. G \in [0..(n + 1) -> Seq(A)] /\ G[0] = <<>> /\ G[n + 1] = last /\ \A k \in 0..n : G[k] = F[k]
  <2> HIDE DEF last
  <2>1. QED
    BY <1>1, <1>4, <1>5, <1>6
<1> HIDE DEF G
<1>8. ASSUME NEW k \in 1..(n + 1) PROVE G[k] = IF r[k] \in T THEN Append(G[k - 1], r[k]) ELSE G[k - 1]
  <2>1. CASE k = n + 1
    <3>1. k - 1 = n /\ n \in 0..n
      BY <1>1, <2>1
    <3>2. QED
      BY <1>1, <1>7, <2>1, <3>1
  <2>2. CASE k \in 1..n
    <3>1. k \in 0..n /\ k - 1 \in 0..n
      BY <1>1, <2>2
    <3>2. F[k] = IF s[k] \in T THEN Append(F[k - 1], s[k]) ELSE F[k - 1]
      BY <1>2, <2>2 DEF OnlyStages
    <3>3. QED
      BY <1>1, <1>7, <2>2, <3>1, <3>2
  <2>3. QED
    BY <1>1, <2>1, <2>2
<1>9. Only(r, T) = G[Len(r)]
  <2> HIDE DEF r, last, n
  <2>1. OnlyStages(G, A, r, T)
    BY <1>1, <1>7, <1>8 DEF OnlyStages
  <2>2. QED
    BY <1>1, <2>1, OnlyByStages
<1>10. QED
  BY <1>1, <1>3, <1>7, <1>9

(* and the first element first. *)
LEMMA OnlyFront ==
  ASSUME NEW A, NEW s \in Seq(A), NEW x \in A, NEW T
  PROVE  Only(<<x>> \o s, T) = IF x \in T THEN <<x>> \o Only(s, T) ELSE Only(s, T)
<1> DEFINE n == Len(s)
           r == <<x>> \o s
           first == IF x \in T THEN <<x>> ELSE <<>>
<1>1. n \in Nat /\ r \in Seq(A) /\ Len(r) = n + 1 /\ r[1] = x /\ \A k \in 2..(n + 1) : r[k] = s[k - 1]
  OBVIOUS
<1>2. PICK F : OnlyStages(F, A, s, T)
  BY OnlyStagesExist
<1>3. Only(s, T) = F[n] /\ Only(s, T) \in Seq(A)
  BY <1>2, OnlyByStages, OnlyTakes
<1>4. F \in [0..n -> Seq(A)] /\ F[0] = <<>>
  BY <1>2 DEF OnlyStages
<1> DEFINE G == [k \in 0..(n + 1) |-> IF k = 0 THEN <<>> ELSE first \o F[k - 1]]
<1>5. first \in Seq(A)
  OBVIOUS
<1>6. ASSUME NEW k \in 1..(n + 1)
      PROVE  k \in 0..(n + 1) /\ k - 1 \in 0..n /\ F[k - 1] \in Seq(A) /\ G[k] = first \o F[k - 1]
  <2> HIDE DEF n, first
  <2>1. k \in 0..(n + 1) /\ k - 1 \in 0..n /\ k # 0
    BY <1>1
  <2>2. F[k - 1] \in Seq(A)
    BY <1>4, <2>1
  <2>3. G[k] = first \o F[k - 1]
    BY <2>1
  <2>4. QED
    BY <2>1, <2>2, <2>3
<1>7. G \in [0..(n + 1) -> Seq(A)] /\ G[0] = <<>>
  <2>1. \A a \in Seq(A), b \in Seq(A) : a \o b \in Seq(A)
    OBVIOUS
  <2>2. ASSUME NEW k \in 0..(n + 1) PROVE (IF k = 0 THEN <<>> ELSE first \o F[k - 1]) \in Seq(A)
    <3> HIDE DEF first, n
    <3>1. CASE k = 0
      BY <3>1
    <3>2. CASE k # 0
      <4>1. k \in 1..(n + 1)
        BY <1>1, <3>2
      <4>2. F[k - 1] \in Seq(A)
        BY <1>6, <4>1
      <4>3. first \o F[k - 1] \in Seq(A)
        BY <1>5, <2>1, <4>2
      <4>4. QED
        BY <3>2, <4>3
    <3>3. QED
      BY <3>1, <3>2
  <2>3. 0 \in 0..(n + 1)
    BY <1>1
  <2> HIDE DEF first, n
  <2>4. QED
    BY <2>2, <2>3
<1> HIDE DEF G
<1>8. ASSUME NEW k \in 1..(n + 1) PROVE G[k] = IF r[k] \in T THEN Append(G[k - 1], r[k]) ELSE G[k - 1]
  <2>1. CASE k = 1
    <3>1. 1 \in 1..(n + 1) /\ k - 1 = 0
      BY <1>1, <2>1
    <3>2. G[1] = first \o <<>> /\ G[0] = <<>>
      BY <1>4, <1>6, <1>7, <3>1, SMTT(30)
    <3>3. Append(<<>>, x) = <<x>> /\ first \o <<>> = first
      OBVIOUS
    <3>4. QED
      BY <1>1, <2>1, <3>1, <3>2, <3>3
  <2>2. CASE k \in 2..(n + 1)
    <3>1. k - 1 \in 1..(n + 1) /\ k - 1 \in 1..n /\ (k - 1) - 1 \in 0..n
      BY <1>1, <2>2
    <3>2. r[k] = s[k - 1] /\ s[k - 1] \in A
      BY <1>1, <2>2, <3>1
    <3>3. F[k - 1] = IF s[k - 1] \in T THEN Append(F[(k - 1) - 1], s[k - 1]) ELSE F[(k - 1) - 1]
      BY <1>2, <3>1 DEF OnlyStages
    <3>4. G[k] = first \o F[k - 1] /\ G[k - 1] = first \o F[(k - 1) - 1] /\ F[(k - 1) - 1] \in Seq(A)
      BY <1>6, <3>1
    <3>5. \A a \in Seq(A), b \in Seq(A), y \in A : a \o Append(b, y) = Append(a \o b, y)
      OBVIOUS
    <3>6. first \o Append(F[(k - 1) - 1], s[k - 1]) = Append(first \o F[(k - 1) - 1], s[k - 1])
      <4> HIDE DEF first
      <4>1. QED
        BY <1>5, <3>2, <3>4, <3>5
    <3>7. QED
      BY <3>2, <3>3, <3>4, <3>6
  <2>3. QED
    BY <1>1, <2>1, <2>2
<1>9. Only(r, T) = G[Len(r)]
  <2> HIDE DEF r, first, n
  <2>1. OnlyStages(G, A, r, T)
    BY <1>1, <1>7, <1>8 DEF OnlyStages
  <2>2. QED
    BY <1>1, <2>1, OnlyByStages
<1>10. G[n + 1] = first \o F[n]
  <2>1. n + 1 \in 1..(n + 1) /\ (n + 1) - 1 = n
    BY <1>1
  <2>2. QED
    BY <1>6, <2>1
<1>11. <<>> \o Only(s, T) = Only(s, T)
  BY <1>3
<1>12. QED
  BY <1>1, <1>3, <1>9, <1>10, <1>11

(* To take twice is to take what is in both sets. *)
LEMMA OnlyOfOnly ==
  ASSUME NEW A, NEW s \in Seq(A), NEW T, NEW U
  PROVE  Only(Only(s, T), U) = Only(s, T \cap U)
<1>1. PICK F : OnlyStages(F, A, s, T \cap U)
  BY OnlyStagesExist
<1> DEFINE I == [k \in 0..Len(s) |-> {a \in Seq(A) : Only(a, U) = F[k]}]
<1>2. Len(s) \in Nat /\ F[0] = <<>>
  BY <1>1 DEF OnlyStages
<1>3. Only(<<>>, U) = <<>>
  <2>1. <<>> \in Seq(A) /\ Len(<<>>) = 0
    OBVIOUS
  <2>2. Only(<<>>, U) \in Seq(A) /\ Len(Only(<<>>, U)) <= 0
    BY <2>1, OnlyTakes
  <2>3. \A a \in Seq(A) : Len(a) <= 0 => a = <<>>
    OBVIOUS
  <2>4. QED
    BY <2>2, <2>3
<1>4. I \in [0..Len(s) -> SUBSET Seq(A)] /\ <<>> \in I[0]
  BY <1>2, <1>3
<1>5. ASSUME NEW k \in 1..Len(s), NEW a \in I[k - 1]
      PROVE  (IF s[k] \in T THEN Append(a, s[k]) ELSE a) \in I[k]
  <2>1. k - 1 \in 0..Len(s) /\ k \in 0..Len(s) /\ s[k] \in A
    BY <1>2
  <2>2. a \in Seq(A) /\ Only(a, U) = F[k - 1]
    BY <1>5, <2>1
  <2>3. F[k] = IF s[k] \in T \cap U THEN Append(F[k - 1], s[k]) ELSE F[k - 1]
    BY <1>1, <1>5 DEF OnlyStages
  <2>4. CASE s[k] \in T
    <3>1. Only(Append(a, s[k]), U) = IF s[k] \in U THEN Append(Only(a, U), s[k]) ELSE Only(a, U)
      BY <2>1, <2>2, OnlyAppend
    <3>2. Append(a, s[k]) \in Seq(A)
      BY <2>1, <2>2
    <3>3. Only(Append(a, s[k]), U) = F[k]
      BY <2>2, <2>3, <2>4, <3>1
    <3>4. QED
      BY <2>1, <2>4, <3>2, <3>3
  <2>5. CASE s[k] \notin T
    BY <2>1, <2>2, <2>3, <2>5
  <2>6. QED
    BY <2>4, <2>5
<1>6. Only(s, T) \in I[Len(s)]
  <2> HIDE DEF I
  <2>1. QED
    BY <1>4, <1>5, OnlyInduction
<1>7. Only(s, T \cap U) = F[Len(s)]
  BY <1>1, OnlyByStages
<1>8. QED
  BY <1>2, <1>6, <1>7

(* The first n elements are those that are among them, as no element comes *)
(* twice.                                                                  *)
LEMMA OnlyFirst ==
  ASSUME NEW A, NEW s \in Seq(A), NEW n \in Nat, \A i, j \in 1..Len(s) : i # j => s[i] # s[j]
  PROVE  Only(s, ToSet(FirstOf(s, n))) = FirstOf(s, n)
<1> DEFINE m == IF n < Len(s) THEN n ELSE Len(s)
           p == FirstOf(s, n)
           upto(k) == IF k <= m THEN k ELSE m
           F == [k \in 0..Len(s) |-> SubSeq(s, 1, upto(k))]
<1>1. Len(s) \in Nat /\ m \in Nat /\ m <= Len(s)
  OBVIOUS
<1>2. p = SubSeq(s, 1, m)
  BY DEF FirstOf
<1>3. ToSet(p) = {s[i] : i \in 1..m}
  <2>1. p \in Seq(A) /\ Len(p) = m /\ \A i \in 1..m : p[i] = s[i]
    BY FirstOfTakes
  <2> HIDE DEF p, m
  <2>2. DOMAIN p = 1..m
    BY <2>1
  <2>3. QED
    BY <2>1, <2>2 DEF ToSet
<1> HIDE DEF m, p
<1>4. \A k \in 0..Len(s) : upto(k) \in 0..Len(s)
  BY <1>1
<1>5. \A k \in 0..Len(s) : /\ SubSeq(s, 1, k) \in Seq(A) /\ Len(SubSeq(s, 1, k)) = k
                           /\ \A i \in 1..k : SubSeq(s, 1, k)[i] = s[i]
  OBVIOUS
<1>6. F \in [0..Len(s) -> Seq(A)]
  <2> HIDE DEF upto
  <2>1. QED
    BY <1>4, <1>5
<1>7. F[0] = <<>>
  <2>1. upto(0) = 0 /\ 0 \in 0..Len(s)
    BY <1>1
  <2>2. SubSeq(s, 1, 0) = <<>>
    OBVIOUS
  <2> HIDE DEF upto
  <2>3. QED
    BY <2>1, <2>2
<1>8. ASSUME NEW k \in 1..Len(s) PROVE F[k] = IF s[k] \in ToSet(p) THEN Append(F[k - 1], s[k]) ELSE F[k - 1]
  <2>1. k \in 0..Len(s) /\ k - 1 \in 0..Len(s) /\ s[k] \in A
    BY <1>1
  <2>2. F[k] = SubSeq(s, 1, upto(k)) /\ F[k - 1] = SubSeq(s, 1, upto(k - 1))
    BY <2>1
  <2>3. CASE k <= m
    <3>1. s[k] \in ToSet(p)
      BY <1>1, <1>3, <2>3
    <3>2. upto(k) = k /\ upto(k - 1) = k - 1
      BY <1>1, <2>3
    <3>3. SubSeq(s, 1, k) = Append(SubSeq(s, 1, k - 1), s[k])
      OBVIOUS
    <3> HIDE DEF upto, F
    <3>4. QED
      BY <2>2, <3>1, <3>2, <3>3
  <2>4. CASE ~(k <= m)
    <3>1. s[k] \notin ToSet(p)
      <4>1. \A i \in 1..m : i \in 1..Len(s) /\ i # k
        BY <1>1, <2>4
      <4>2. QED
        BY <1>3, <4>1
    <3>2. upto(k) = m /\ upto(k - 1) = m
      BY <1>1, <2>4
    <3> HIDE DEF upto, F
    <3>3. QED
      BY <2>2, <3>1, <3>2
  <2>5. QED
    BY <2>3, <2>4
<1>9. F[Len(s)] = p
  <2>1. upto(Len(s)) = m /\ Len(s) \in 0..Len(s)
    BY <1>1
  <2> HIDE DEF upto
  <2>2. QED
    BY <1>2, <2>1
<1> HIDE DEF F
<1>10. OnlyStages(F, A, s, ToSet(p))
  BY <1>6, <1>7, <1>8 DEF OnlyStages
<1>11. Only(s, ToSet(p)) = F[Len(s)]
  <2> HIDE DEF upto
  <2>1. QED
    BY <1>10, OnlyByStages
<1>12. QED
  BY <1>9, <1>11 DEF p

(* A sequence in which no element comes twice is as long as its set is     *)
(* large.                                                                  *)
LEMMA DistinctSize ==
  ASSUME NEW A, NEW s \in Seq(A), \A i, j \in 1..Len(s) : i # j => s[i] # s[j]
  PROVE  Cardinality(ToSet(s)) = Len(s)
<1>1. Len(s) \in Nat /\ s \in [1..Len(s) -> A] /\ ToSet(s) = {s[i] : i \in 1..Len(s)}
  BY DEF ToSet
<1>2. s \in Bijection(1..Len(s), ToSet(s))
  <2>1. s \in [1..Len(s) -> ToSet(s)] /\ \A t \in ToSet(s) : \E i \in 1..Len(s) : s[i] = t
    BY <1>1
  <2>2. QED
    BY <1>1, <2>1 DEF Bijection, Injection, Surjection, IsInjective
<1>3. QED
  BY <1>1, <1>2, FS_CountingElements DEF ExistsBijection
=============================================================================
