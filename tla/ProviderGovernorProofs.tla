----------------------- MODULE ProviderGovernorProofs -----------------------
(***************************************************************************)
(* Proofs about ProviderGovernor, for any finite set of goroutines and any *)
(* thresholds.                                                             *)
(***************************************************************************)
EXTENDS ProviderGovernor, FiniteSetTheorems, TLAPS

(* A set of probes that gains or loses one; the counter of the breaker has *)
(* to follow.                                                              *)
LEMMA ProbeComes ==
  ASSUME NEW S \in SUBSET Threads, NEW t \in Threads, t \notin S
  PROVE  Cardinality(S \cup {t}) = Cardinality(S) + 1
BY FS_Subset, FS_AddElement, ThreadsAssumption

LEMMA ProbeGoes ==
  ASSUME NEW S \in SUBSET Threads, NEW t \in S
  PROVE  Cardinality(S) \in Nat \ {0} /\ Cardinality(S \ {t}) = Cardinality(S) - 1
<1>1. IsFiniteSet(S) /\ S # {}
  BY FS_Subset, ThreadsAssumption
<1>2. QED
  BY <1>1, FS_CardinalityType, FS_EmptySet, FS_RemoveElement

(* What the breaker has counted are failures of the current streak; it     *)
(* counts only while it is closed.                                         *)
CountWithinStreak ==
  /\ consecutiveFailure <= streak
  /\ state # "closed" => consecutiveFailure = 0

(* The retry loop: a goroutine sleeps only before an attempt it still has, *)
(* and nothing has been emitted before the attempt that is running.        *)
AttemptsLeft == \A t \in Threads : ppc[t] = "backoff" => attempt[t] < RetryMaxAttempts

PrefixOfThisAttempt ==
  \A t \in Threads :
    /\ ppc[t] \in {"acquire", "reserved", "throttled", "backoff"} => prefixes[t] = 0
    /\ ppc[t] \in {"reserved", "throttled"} => ~chunkSeen[t]
    /\ ppc[t] = "call" => prefixes[t] = IF chunkSeen[t] THEN 1 ELSE 0

(* The inductive invariant. *)
GovInv ==
  /\ GovTypeOK
  /\ ProbeCountExact
  /\ CountWithinStreak
  /\ AttemptsLeft
  /\ PrefixOfThisAttempt
  /\ OnePrefix

(* The steps that leave the breaker and the reservations alone. *)
QuietStep(t) ==
  \/ StartCall(t) \/ ReserveRefused(t) \/ EmitChunk(t)
  \/ Backoff(t) \/ BackoffCanceled(t)
-----------------------------------------------------------------------------
(* A new governor satisfies the invariant. *)
LEMMA GovInitInv == GovInit => GovInv
<1> SUFFICES ASSUME GovInit PROVE GovInv
  OBVIOUS
<1> USE GovernorAssumption DEF GovInit
<1>1. GovTypeOK
  <2>1. cooled \in BOOLEAN /\ healthy \in BOOLEAN
    OBVIOUS
  <2>2. probe \in [Threads -> BOOLEAN] /\ chunkSeen \in [Threads -> BOOLEAN]
    BY Zenon
  <2>3. /\ attempt \in [Threads -> 1..RetryMaxAttempts]
        /\ prefixes \in [Threads -> Nat]
        /\ ppc \in [Threads -> CallPositions]
    BY DEF CallPositions
  <2>4. QED
    BY <2>1, <2>2, <2>3 DEF GovTypeOK, States
<1>2. ProbeCountExact
  <2>1. Probes = {}
    BY DEF Probes, Reserved
  <2>2. QED
    BY <2>1, FS_EmptySet DEF ProbeCountExact
<1>3. CountWithinStreak /\ AttemptsLeft /\ PrefixOfThisAttempt /\ OnePrefix
  BY DEF CountWithinStreak, AttemptsLeft, PrefixOfThisAttempt, OnePrefix
<1>4. QED
  BY <1>1, <1>2, <1>3 DEF GovInv

(* halfOpenInFlight is the number of probes, outstanding or leaked, after  *)
(* every step: reserve adds one with the goroutine that becomes a probe,   *)
(* finish and an aborted wait take one away with it, a panic makes of an   *)
(* outstanding one a leaked one, and the guard against underflow never     *)
(* bites.                                                                  *)
LEMMA ProbeCountStep == GovInv /\ [GovNext]_govVars => ProbeCountExact'
<1> SUFFICES ASSUME GovInv, [GovNext]_govVars PROVE ProbeCountExact'
  OBVIOUS
<1> USE DEF GovInv, GovTypeOK, ProbeCountExact
<1>a. Probes \in SUBSET Threads /\ Cardinality(Probes) \in Nat
  <2>1. Probes \in SUBSET Threads
    BY DEF Probes, Reserved
  <2>2. QED
    BY <2>1, FS_Subset, FS_CardinalityType, ThreadsAssumption
<1>1. CASE UNCHANGED <<ppc, probe, halfOpenInFlight, leaked>>
  <2>1. Probes' = Probes
    BY <1>1 DEF Probes, Reserved
  <2>2. QED
    BY <1>1, <2>1
<1>2. ASSUME NEW t \in Threads, QuietStep(t) PROVE ProbeCountExact'
  <2>1. Probes' = Probes /\ UNCHANGED <<halfOpenInFlight, leaked>>
    BY <1>2 DEF Probes, Reserved, At, QuietStep, StartCall, ReserveRefused,
                EmitChunk, Backoff, BackoffCanceled, breakerVars
  <2>2. QED
    BY <2>1
<1>3. ASSUME NEW t \in Threads, TakeToken(t) \/ Throttle(t) PROVE ProbeCountExact'
  <2>1. Probes' = Probes /\ UNCHANGED <<halfOpenInFlight, leaked>>
    BY <1>3 DEF Probes, Reserved, At, TakeToken, Throttle, breakerVars
  <2>2. QED
    BY <2>1
<1>4. ASSUME NEW t \in Threads, Reserve(t) PROVE ProbeCountExact'
  <2>0. t \notin Probes /\ UNCHANGED leaked
    BY <1>4 DEF Reserve, Probes, Reserved
  <2>1. CASE state' = "half_open"
    <3>1. Probes' = Probes \cup {t} /\ halfOpenInFlight' = halfOpenInFlight + 1
      BY <1>4, <2>1 DEF Probes, Reserved, At, Reserve
    <3>2. QED
      BY <1>a, <2>0, <3>1, ProbeComes
  <2>2. CASE state' # "half_open"
    <3>1. ~probe'[t] /\ \A s \in Threads \ {t} : probe'[s] = probe[s] /\ ppc'[s] = ppc[s]
      BY <1>4, <2>2, Zenon DEF At, Reserve
    <3>2. Probes' = Probes
      BY <2>0, <3>1 DEF Probes, Reserved
    <3>3. halfOpenInFlight' = halfOpenInFlight
      BY <1>4, <2>2 DEF Reserve
    <3>4. QED
      BY <2>0, <3>2, <3>3
  <2>3. QED
    BY <2>1, <2>2
<1>5. ASSUME NEW t \in Threads, WaitCanceled(t) \/ \E class \in Classes : Finish(t, class)
      PROVE  ProbeCountExact'
  <2>1. /\ t \in Reserved
        /\ GiveBack(t)
        /\ Probes' = Probes \ {t} /\ UNCHANGED leaked
    BY <1>5 DEF WaitCanceled, Finish, Probes, Reserved, At
  <2>2. CASE probe[t]
    <3>1. t \in Probes
      BY <2>1, <2>2 DEF Probes
    <3>2. halfOpenInFlight > 0
      <4>1. Cardinality(Probes) \in Nat \ {0}
        BY <1>a, <3>1, ProbeGoes
      <4>2. QED
        BY <4>1
    <3>3. halfOpenInFlight' = halfOpenInFlight - 1
      BY <2>1, <2>2, <3>2 DEF GiveBack
    <3>4. QED
      BY <1>a, <2>1, <3>1, <3>3, ProbeGoes
  <2>3. CASE ~probe[t]
    <3>1. Probes' = Probes /\ halfOpenInFlight' = halfOpenInFlight
      BY <2>1, <2>3 DEF Probes, GiveBack
    <3>2. QED
      BY <2>1, <3>1
  <2>4. QED
    BY <2>2, <2>3
<1>p. ASSUME NEW t \in Threads, Panics(t) PROVE ProbeCountExact'
  <2>1. /\ t \in Reserved
        /\ Probes' = Probes \ {t} /\ UNCHANGED halfOpenInFlight
        /\ leaked' = leaked + (IF probe[t] THEN 1 ELSE 0)
    BY <1>p DEF Panics, Probes, Reserved, At, breakerVars
  <2>2. CASE probe[t]
    <3>1. t \in Probes
      BY <2>1, <2>2 DEF Probes
    <3>2. QED
      BY <1>a, <2>1, <2>2, <3>1, ProbeGoes
  <2>3. CASE ~probe[t]
    BY <2>1, <2>3 DEF Probes
  <2>4. QED
    BY <2>2, <2>3
<1>6. ASSUME Cool \/ Refill \/ Recover PROVE UNCHANGED <<ppc, probe, halfOpenInFlight, leaked>>
  BY <1>6 DEF Cool, Refill, Recover, breakerVars, callVars
<1>7. CASE UNCHANGED govVars
  BY <1>1, <1>7 DEF govVars, breakerVars, callVars
<1>8. QED
  BY <1>1, <1>2, <1>3, <1>4, <1>5, <1>6, <1>7, <1>p DEF GovNext, QuietStep

(* What a reported result does to the breaker, by the state it is in. *)
LEMMA FinishCases ==
  ASSUME GovInv, NEW class \in Classes, FinishBreaker(class)
  PROVE  /\ class = "canceled" \/ state = "open" =>
              UNCHANGED <<state, consecutiveFailure, cooled>>
         /\ class # "canceled" /\ state = "closed" =>
              /\ state' = IF Trips(class) THEN "open" ELSE "closed"
              /\ consecutiveFailure' =
                   IF class = "transient" /\ ~Trips(class) THEN consecutiveFailure + 1 ELSE 0
              /\ cooled' = FALSE
         /\ class # "canceled" /\ state = "half_open" =>
              /\ state' = IF class = "transient" THEN "open" ELSE "closed"
              /\ consecutiveFailure' = IF class = "transient" THEN consecutiveFailure ELSE 0
              /\ cooled' = FALSE
<1>1. CASE class = "canceled" \/ state = "open"
  BY <1>1 DEF FinishBreaker
<1>2. CASE class # "canceled" /\ state = "closed"
  BY <1>2, Zenon DEF FinishBreaker
<1>3. CASE class # "canceled" /\ state = "half_open"
  BY <1>3, Zenon DEF FinishBreaker
<1>4. QED
  BY <1>1, <1>2, <1>3

(* A result that is reported to the breaker keeps its state in range, and  *)
(* its count below the threshold: the failure that would reach it opens    *)
(* the breaker and starts the count again.                                 *)
LEMMA BreakerStep ==
  ASSUME GovInv, NEW class \in Classes, FinishBreaker(class)
  PROVE  /\ state' \in States
         /\ consecutiveFailure' \in 0..(FailureThreshold - 1)
         /\ cooled' \in BOOLEAN
<1>1. state' \in States /\ consecutiveFailure' \in 0..(FailureThreshold - 1)
  <2> USE GovernorAssumption DEF GovInv, GovTypeOK, States, Trips
  <2>1. CASE class = "canceled" \/ state = "open"
    BY <2>1, FinishCases
  <2>2. CASE class # "canceled" /\ state = "closed"
    <3>1. /\ state' = IF Trips(class) THEN "open" ELSE "closed"
          /\ consecutiveFailure' =
               IF class = "transient" /\ ~Trips(class) THEN consecutiveFailure + 1 ELSE 0
      BY <2>2, FinishCases, Zenon
    <3>2. QED
      BY <3>1
  <2>3. CASE class # "canceled" /\ state = "half_open"
    <3>1. /\ state' = IF class = "transient" THEN "open" ELSE "closed"
          /\ consecutiveFailure' = IF class = "transient" THEN consecutiveFailure ELSE 0
      BY <2>3, FinishCases, Zenon
    <3>2. QED
      BY <3>1
  <2>4. QED
    BY <2>1, <2>2, <2>3
<1>2. cooled' \in BOOLEAN
  BY FinishCases DEF GovInv, GovTypeOK, States
<1>3. QED
  BY <1>1, <1>2

(* Type correctness of one step. *)
LEMMA GovTypeStep == GovInv /\ [GovNext]_govVars => GovTypeOK'
<1> SUFFICES ASSUME GovInv, [GovNext]_govVars PROVE GovTypeOK'
  OBVIOUS
<1> USE GovernorAssumption DEF GovInv, GovTypeOK, States, CallPositions, At,
        breakerVars, callVars
<1>1. CASE UNCHANGED govVars
  BY <1>1 DEF govVars
<1>2. ASSUME NEW t \in Threads, QuietStep(t) PROVE GovTypeOK'
  <2>1. chunkSeen' \in [Threads -> BOOLEAN]
    BY <1>2, Zenon DEF QuietStep, StartCall, ReserveRefused, EmitChunk, Backoff, BackoffCanceled
  <2>2. attempt' \in [Threads -> 1..RetryMaxAttempts]
    BY <1>2 DEF QuietStep, StartCall, ReserveRefused, EmitChunk, Backoff, BackoffCanceled,
                AttemptsLeft
  <2>3. /\ ppc' \in [Threads -> CallPositions]
        /\ prefixes' \in [Threads -> Nat]
        /\ UNCHANGED <<breakerVars, tokens, probe, streak, leaked, healthy>>
    BY <1>2 DEF QuietStep, StartCall, ReserveRefused, EmitChunk, Backoff, BackoffCanceled
  <2>4. QED
    BY <2>1, <2>2, <2>3
<1>3. ASSUME NEW t \in Threads, Reserve(t) PROVE GovTypeOK'
  <2>1. probe' \in [Threads -> BOOLEAN] /\ chunkSeen' \in [Threads -> BOOLEAN]
    BY <1>3, Zenon DEF Reserve
  <2>2. cooled' \in BOOLEAN
    BY <1>3 DEF Reserve
  <2>3. QED
    BY <1>3, <2>1, <2>2 DEF Reserve
<1>4. ASSUME NEW t \in Threads, TakeToken(t) \/ Throttle(t) PROVE GovTypeOK'
  BY <1>4 DEF TakeToken, Throttle
<1>5. ASSUME NEW t \in Threads, WaitCanceled(t) PROVE GovTypeOK'
  <2>1. probe' \in [Threads -> BOOLEAN]
    BY <1>5, Zenon DEF WaitCanceled
  <2>2. halfOpenInFlight' \in Nat
    BY <1>5 DEF WaitCanceled, GiveBack
  <2>3. QED
    BY <1>5, <2>1, <2>2 DEF WaitCanceled
<1>6. ASSUME NEW t \in Threads, NEW class \in Classes, Finish(t, class) PROVE GovTypeOK'
  <2>1. probe' \in [Threads -> BOOLEAN]
    BY <1>6, Zenon DEF Finish
  <2>2. halfOpenInFlight' \in Nat
    BY <1>6 DEF Finish, GiveBack
  <2>3. streak' \in 0..FailureThreshold
    BY <1>6 DEF Finish
  <2>4. ppc' \in [Threads -> CallPositions]
    BY <1>6 DEF Finish
  <2>5. /\ state' \in States
        /\ consecutiveFailure' \in 0..(FailureThreshold - 1)
        /\ cooled' \in BOOLEAN
    BY <1>6, BreakerStep DEF Finish
  <2>6. UNCHANGED <<tokens, attempt, chunkSeen, prefixes, leaked, healthy>>
    BY <1>6 DEF Finish
  <2>7. QED
    BY <2>1, <2>2, <2>3, <2>4, <2>5, <2>6
<1>p. ASSUME NEW t \in Threads, Panics(t) PROVE GovTypeOK'
  <2>1. probe' \in [Threads -> BOOLEAN]
    BY <1>p, Zenon DEF Panics
  <2>2. ppc' \in [Threads -> CallPositions] /\ leaked' \in 0..MaxLeaks
    BY <1>p DEF Panics
  <2>3. QED
    BY <1>p, <2>1, <2>2 DEF Panics
<1>7. ASSUME Cool PROVE GovTypeOK'
  <2>1. cooled' \in BOOLEAN
    BY <1>7 DEF Cool
  <2>2. QED
    BY <1>7, <2>1 DEF Cool
<1>8. ASSUME Refill PROVE GovTypeOK'
  BY <1>8 DEF Refill
<1>9. ASSUME Recover PROVE GovTypeOK'
  <2>1. healthy' \in BOOLEAN
    BY <1>9 DEF Recover
  <2>2. QED
    BY <1>9, <2>1 DEF Recover
<1>10. QED
  BY <1>1, <1>2, <1>3, <1>4, <1>5, <1>6, <1>7, <1>8, <1>9, <1>p DEF GovNext, QuietStep

(* The count stays within the streak.  A result that ends the streak       *)
(* clears the count whenever the breaker counts, and a breaker that is     *)
(* open or half open has nothing counted.                                  *)
LEMMA StreakStep == GovInv /\ [GovNext]_govVars => CountWithinStreak'
<1> SUFFICES ASSUME GovInv, [GovNext]_govVars PROVE CountWithinStreak'
  OBVIOUS
<1> USE GovernorAssumption DEF GovInv, GovTypeOK, States, CountWithinStreak, breakerVars
<1>1. CASE UNCHANGED <<state, consecutiveFailure, streak>>
  BY <1>1
<1>2. ASSUME NEW t \in Threads, Reserve(t) PROVE CountWithinStreak'
  BY <1>2 DEF Reserve
<1>3. ASSUME NEW t \in Threads, NEW class \in Classes, Finish(t, class)
      PROVE  CountWithinStreak'
  <2> USE DEF Trips, Classes
  <2>0. /\ FinishBreaker(class)
        /\ streak' = CASE class = "canceled" -> streak
                       [] class = "transient" ->
                            IF streak < FailureThreshold THEN streak + 1 ELSE streak
                       [] OTHER -> 0
    BY <1>3, Zenon DEF Finish
  <2>1. CASE class = "canceled" \/ state = "open"
    <3>1. UNCHANGED <<state, consecutiveFailure>>
      BY <2>0, <2>1, FinishCases, Zenon
    <3>2. streak' \in Nat /\ (class = "canceled" => streak' = streak)
      BY <2>0
    <3>3. QED
      BY <2>1, <3>1, <3>2
  <2>2. CASE class # "canceled" /\ state = "closed"
    <3>1. /\ state' = IF Trips(class) THEN "open" ELSE "closed"
          /\ consecutiveFailure' =
               IF class = "transient" /\ ~Trips(class) THEN consecutiveFailure + 1 ELSE 0
      BY <2>0, <2>2, FinishCases, Zenon
    <3>2. CASE class = "transient"
      BY <2>0, <3>1, <3>2
    <3>3. CASE class # "transient"
      BY <2>0, <2>2, <3>1, <3>3
    <3>4. QED
      BY <3>2, <3>3
  <2>3. CASE class # "canceled" /\ state = "half_open"
    <3>1. consecutiveFailure' = 0
      BY <2>0, <2>3, FinishCases
    <3>2. streak' \in Nat
      BY <2>0
    <3>3. QED
      BY <3>1, <3>2
  <2>4. QED
    BY <2>1, <2>2, <2>3
<1>4. ASSUME NEW t \in Threads,
             QuietStep(t) \/ TakeToken(t) \/ Throttle(t) \/ WaitCanceled(t) \/ Panics(t)
      PROVE  UNCHANGED <<state, consecutiveFailure, streak>>
  BY <1>4 DEF QuietStep, StartCall, ReserveRefused, EmitChunk, Backoff, BackoffCanceled,
              TakeToken, Throttle, WaitCanceled, Panics
<1>5. ASSUME Cool \/ Refill \/ Recover PROVE UNCHANGED <<state, consecutiveFailure, streak>>
  BY <1>5 DEF Cool, Refill, Recover
<1>6. CASE UNCHANGED govVars
  BY <1>1, <1>6 DEF govVars
<1>7. QED
  BY <1>1, <1>2, <1>3, <1>4, <1>5, <1>6 DEF GovNext, QuietStep

(* The retry loop keeps its promises: the loop goes on only while an       *)
(* attempt is left, and only if this one has emitted nothing.              *)
LEMMA RetryStep ==
  GovInv /\ [GovNext]_govVars => AttemptsLeft' /\ PrefixOfThisAttempt' /\ OnePrefix'
<1> DEFINE Loop == AttemptsLeft /\ PrefixOfThisAttempt /\ OnePrefix
<1> SUFFICES ASSUME GovInv, [GovNext]_govVars PROVE Loop'
  OBVIOUS
<1> USE DEF GovInv, GovTypeOK, AttemptsLeft, PrefixOfThisAttempt, OnePrefix, At,
        breakerVars, callVars
<1>1. CASE UNCHANGED callVars
  BY <1>1
<1>2. ASSUME NEW t \in Threads, StartCall(t) PROVE Loop'
  BY <1>2 DEF StartCall
<1>3. ASSUME NEW t \in Threads, ReserveRefused(t) \/ WaitCanceled(t) \/ BackoffCanceled(t)
      PROVE  Loop'
  BY <1>3 DEF ReserveRefused, WaitCanceled, BackoffCanceled
<1>4. ASSUME NEW t \in Threads, Reserve(t) PROVE Loop'
  BY <1>4 DEF Reserve
<1>5. ASSUME NEW t \in Threads, TakeToken(t) \/ Throttle(t) PROVE Loop'
  BY <1>5 DEF TakeToken, Throttle
<1>6. ASSUME NEW t \in Threads, EmitChunk(t) PROVE Loop'
  BY <1>6 DEF EmitChunk
<1>7. ASSUME NEW t \in Threads, NEW class \in Classes, Finish(t, class) PROVE Loop'
  <2>1. /\ ppc[t] = "call"
        /\ ppc' = [ppc EXCEPT ![t] = IF Retries(t, class) THEN "backoff" ELSE "idle"]
        /\ UNCHANGED <<attempt, chunkSeen, prefixes>>
    BY <1>7 DEF Finish
  <2>2. QED
    BY <2>1 DEF Retries
<1>8. ASSUME NEW t \in Threads, Backoff(t) PROVE Loop'
  BY <1>8 DEF Backoff
<1>p. ASSUME NEW t \in Threads, Panics(t) PROVE Loop'
  BY <1>p DEF Panics
<1>9. ASSUME Cool \/ Refill \/ Recover PROVE UNCHANGED callVars
  BY <1>9 DEF Cool, Refill, Recover
<1>10. CASE UNCHANGED govVars
  BY <1>1, <1>10 DEF govVars
<1>11. QED
  BY <1>1, <1>2, <1>3, <1>4, <1>5, <1>6, <1>7, <1>8, <1>9, <1>10, <1>p DEF GovNext

(* The invariant is inductive. *)
LEMMA GovInvariant == GovSpec => []GovInv
<1>1. GovInv /\ [GovNext]_govVars => GovInv'
  BY GovTypeStep, ProbeCountStep, StreakStep, RetryStep DEF GovInv
<1>2. QED
  BY GovInitInv, <1>1, PTL DEF GovSpec
-----------------------------------------------------------------------------
(* The governor is type correct: the failure count stays below the         *)
(* threshold, the attempts within RetryMaxAttempts, the bucket within its  *)
(* burst.                                                                  *)
THEOREM GovTypeCorrect == GovSpec => []GovTypeOK
<1>1. GovInv => GovTypeOK
  BY DEF GovInv
<1>2. QED
  BY GovInvariant, <1>1, PTL

(* halfOpenInFlight is the number of outstanding probes and of those whose *)
(* call panicked, whatever states the breaker went through while they were *)
(* out: only a panic, which skips finish, leaks a place.                   *)
THEOREM ProbesCounted == GovSpec => []ProbeCountExact
<1>1. GovInv => ProbeCountExact
  BY DEF GovInv
<1>2. QED
  BY GovInvariant, <1>1, PTL

(* A streaming caller is never given the beginnings of two answers by the  *)
(* retry loop of stream.                                                   *)
THEOREM SinglePrefix == GovSpec => []OnePrefix
<1>1. GovInv => OnePrefix
  BY DEF GovInv
<1>2. QED
  BY GovInvariant, <1>1, PTL

(* Only finish opens a closed breaker, and only on the last failure of a   *)
(* streak of FailureThreshold.                                             *)
THEOREM TripsOnStreak == GovSpec => TripsOnlyOnStreak
<1> DEFINE Trip == state = "closed" /\ state' = "open" => streak' = FailureThreshold
<1>1. GovInv /\ [GovNext]_govVars => [Trip]_govVars
  <2> SUFFICES ASSUME GovInv, GovNext, state = "closed", state' = "open"
               PROVE  streak' = FailureThreshold
    OBVIOUS
  <2>1. ASSUME NEW t \in Threads, NEW class \in Classes, Finish(t, class)
        PROVE  streak' = FailureThreshold
    <3>1. /\ FinishBreaker(class)
          /\ streak' = CASE class = "canceled" -> streak
                         [] class = "transient" ->
                              IF streak < FailureThreshold THEN streak + 1 ELSE streak
                         [] OTHER -> 0
      BY <2>1, Zenon DEF Finish
    <3>2. class # "canceled" /\ state' = IF Trips(class) THEN "open" ELSE "closed"
      BY <3>1, FinishCases, Zenon
    <3>3. class = "transient" /\ consecutiveFailure + 1 >= FailureThreshold
      BY <3>2 DEF Trips
    <3>4. QED
      BY <3>1, <3>3, GovernorAssumption DEF GovInv, GovTypeOK, CountWithinStreak
  <2>2. ASSUME NEW t \in Threads, Reserve(t) PROVE FALSE
    BY <2>2 DEF Reserve
  <2>3. ASSUME NEW t \in Threads,
               QuietStep(t) \/ TakeToken(t) \/ Throttle(t) \/ WaitCanceled(t) \/ Panics(t)
        PROVE  FALSE
    BY <2>3 DEF QuietStep, StartCall, ReserveRefused, EmitChunk, Backoff, BackoffCanceled,
                TakeToken, Throttle, WaitCanceled, Panics, breakerVars
  <2>4. ASSUME Cool \/ Refill \/ Recover PROVE FALSE
    BY <2>4 DEF Cool, Refill, Recover, breakerVars
  <2>5. QED
    BY <2>1, <2>2, <2>3, <2>4 DEF GovNext, QuietStep
<1>2. QED
  BY GovInvariant, <1>1, PTL DEF GovSpec, TripsOnlyOnStreak

(* Until its window has elapsed, no step of any goroutine moves an open    *)
(* breaker: reserve refuses, and finish leaves it alone.                   *)
THEOREM OpenHolds == GovSpec => OpenHoldsItsWindow
<1> DEFINE Hold == state = "open" /\ ~cooled => state' = "open"
<1>1. GovInv /\ [GovNext]_govVars => [Hold]_govVars
  <2> SUFFICES ASSUME GovInv, GovNext, state = "open", ~cooled
               PROVE  state' = "open"
    OBVIOUS
  <2>1. ASSUME NEW t \in Threads, NEW class \in Classes, Finish(t, class)
        PROVE  state' = "open"
    <3>1. FinishBreaker(class)
      BY <2>1 DEF Finish
    <3>2. QED
      BY <3>1, FinishCases
  <2>2. ASSUME NEW t \in Threads, Reserve(t) PROVE FALSE
    BY <2>2 DEF Reserve, ReserveBlocked
  <2>3. ASSUME NEW t \in Threads,
               QuietStep(t) \/ TakeToken(t) \/ Throttle(t) \/ WaitCanceled(t) \/ Panics(t)
        PROVE  state' = "open"
    BY <2>3 DEF QuietStep, StartCall, ReserveRefused, EmitChunk, Backoff, BackoffCanceled,
                TakeToken, Throttle, WaitCanceled, Panics, breakerVars
  <2>4. ASSUME Cool \/ Refill \/ Recover PROVE state' = "open"
    BY <2>4 DEF Cool, Refill, Recover, breakerVars
  <2>5. QED
    BY <2>1, <2>2, <2>3, <2>4 DEF GovNext, QuietStep
<1>2. QED
  BY GovInvariant, <1>1, PTL DEF GovSpec, OpenHoldsItsWindow
=============================================================================
