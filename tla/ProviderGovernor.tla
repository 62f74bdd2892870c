-------------------------- MODULE ProviderGovernor --------------------------
(***************************************************************************)
(* The governor of one provider (provider_governor.go) and the retry loops *)
(* that use it (provider_resilience.go).  Chat, embedding and search calls *)
(* of all goroutines share one circuit breaker and one token bucket.  An   *)
(* attempt reserves the breaker, waits for a token, calls the provider and *)
(* reports the class of the result; the breaker may have changed state     *)
(* several times in between.                                               *)
(*                                                                         *)
(* Time enters in three places only: the open window elapses (Cool), the   *)
(* bucket gains a token (Refill), a backoff ends.  The classes an error    *)
(* can have are reduced to what the code tells apart: "transient" stands   *)
(* for transient and rate_limit, "permanent" for auth, permanent, unknown. *)
(*                                                                         *)
(* A provider, or the emitter it streams to, may also panic.  The report   *)
(* to the breaker is an ordinary statement after the call, so a panic      *)
(* skips it.                                                               *)
(***************************************************************************)
EXTENDS Goroutines

CONSTANTS
  FailureThreshold,   \* CircuitBreaker.FailureThreshold
  HalfOpenMaxCalls,   \* CircuitBreaker.HalfOpenMaxCalls, 1 by default
  Burst,              \* RateLimit.Burst
  RetryMaxAttempts,   \* RetryMaxAttempts
  MaxLeaks            \* bound: probes whose call panics

ASSUME GovernorAssumption ==
  /\ FailureThreshold \in Nat \ {0} /\ HalfOpenMaxCalls \in Nat \ {0}
  /\ Burst \in Nat \ {0} /\ RetryMaxAttempts \in Nat \ {0} /\ MaxLeaks \in Nat

VARIABLES
  state,              \* state of the breaker
  consecutiveFailure, \* failures counted while closed
  cooled,             \* OpenTimeout has elapsed since openedAt
  halfOpenInFlight,   \* reservations made in half_open and not given back
  tokens,             \* whole tokens in the bucket
  ppc,                \* position of each goroutine in a provider call
  attempt,            \* number of its attempt
  probe,              \* reservation.halfOpen of the reservation it holds
  chunkSeen,          \* this attempt has emitted a non-blank chunk
  prefixes,           \* observer: attempts whose chunks reached the caller
  streak,             \* observer: failures reported in a row, any state
  leaked,             \* observer: probes whose call panicked
  healthy             \* environment: the provider no longer fails

breakerVars == <<state, consecutiveFailure, cooled, halfOpenInFlight>>
callVars == <<ppc, attempt, probe, chunkSeen, prefixes>>
govVars == <<breakerVars, tokens, callVars, streak, leaked, healthy>>

States == {"closed", "open", "half_open"}
Classes == {"ok", "transient", "canceled", "permanent"}

(* From "reserved" to "call" a reservation is held; "throttled" sleeps     *)
(* until the limiter expects a token.                                      *)
CallPositions == {"idle", "acquire", "reserved", "throttled", "call", "backoff"}

Reserved == {t \in Threads : ppc[t] \in {"reserved", "throttled", "call"}}
Probes == {t \in Reserved : probe[t]}

GovTypeOK ==
  /\ state \in States
  /\ consecutiveFailure \in 0..(FailureThreshold - 1)
  /\ cooled \in BOOLEAN
  /\ halfOpenInFlight \in Nat
  /\ tokens \in 0..Burst
  /\ ppc \in [Threads -> CallPositions]
  /\ attempt \in [Threads -> 1..RetryMaxAttempts]
  /\ probe \in [Threads -> BOOLEAN]
  /\ chunkSeen \in [Threads -> BOOLEAN]
  /\ prefixes \in [Threads -> Nat]
  /\ streak \in 0..FailureThreshold
  /\ leaked \in 0..MaxLeaks
  /\ healthy \in BOOLEAN

GovInit ==
  /\ state = "closed"
  /\ consecutiveFailure = 0
  /\ cooled = FALSE
  /\ halfOpenInFlight = 0
  /\ tokens = Burst
  /\ ppc = [t \in Threads |-> "idle"]
  /\ attempt = [t \in Threads |-> 1]
  /\ probe = [t \in Threads |-> FALSE]
  /\ chunkSeen = [t \in Threads |-> FALSE]
  /\ prefixes = [t \in Threads |-> 0]
  /\ streak = 0
  /\ leaked = 0
  /\ healthy = FALSE
-----------------------------------------------------------------------------
(* generate, stream, EmbedTexts and Search: the first attempt. *)
StartCall(t) ==
  /\ ppc[t] = "idle"
  /\ ppc' = At(ppc, t, "acquire")
  /\ attempt' = At(attempt, t, 1)
  /\ prefixes' = At(prefixes, t, 0)
  /\ UNCHANGED <<breakerVars, tokens, probe, chunkSeen, streak, leaked, healthy>>

(* Mutant: nobody is turned away. *)
ReserveBlockedNever == FALSE

(* The cases in which providerCircuitBreaker.reserve turns a call away. *)
ReserveBlocked ==
  \/ state = "open" /\ ~cooled
  \/ state = "half_open" /\ halfOpenInFlight >= HalfOpenMaxCalls

(* acquire fails with ErrProviderCircuitOpen, which is not retried. *)
ReserveRefused(t) ==
  /\ ppc[t] = "acquire"
  /\ ReserveBlocked
  /\ ppc' = At(ppc, t, "idle")
  /\ UNCHANGED <<breakerVars, tokens, attempt, probe, chunkSeen, prefixes, streak, leaked, healthy>>

(* reserve: an open breaker whose window has elapsed becomes half-open; a  *)
(* reservation made in half_open is a probe.                               *)
Reserve(t) ==
  /\ ppc[t] = "acquire"
  /\ ~ReserveBlocked
  /\ state' = IF state = "open" THEN "half_open" ELSE state
  /\ cooled' = FALSE
  /\ halfOpenInFlight' = halfOpenInFlight + (IF state' = "half_open" THEN 1 ELSE 0)
  /\ probe' = At(probe, t, state' = "half_open")
  /\ chunkSeen' = At(chunkSeen, t, FALSE)
  /\ ppc' = At(ppc, t, "reserved")
  /\ UNCHANGED <<consecutiveFailure, tokens, attempt, prefixes, streak, leaked, healthy>>

(* providerRateLimiter.wait: take succeeds, at once or after a sleep; or   *)
(* there is no token and the goroutine sleeps.                             *)
TakeToken(t) ==
  /\ ppc[t] \in {"reserved", "throttled"}
  /\ tokens >= 1
  /\ tokens' = tokens - 1
  /\ ppc' = At(ppc, t, "call")
  /\ UNCHANGED <<breakerVars, attempt, probe, chunkSeen, prefixes, streak, leaked, healthy>>

Throttle(t) ==
  /\ ppc[t] = "reserved"
  /\ tokens < 1
  /\ ppc' = At(ppc, t, "throttled")
  /\ UNCHANGED <<breakerVars, tokens, attempt, probe, chunkSeen, prefixes, streak, leaked, healthy>>

(* Mutant: the probe is not given back. *)
GiveBackNothing(t) == UNCHANGED halfOpenInFlight

(* The reservation gives a probe back, guarded against underflow.          *)
GiveBack(t) ==
  halfOpenInFlight' =
    IF probe[t] /\ halfOpenInFlight > 0 THEN halfOpenInFlight - 1 ELSE halfOpenInFlight

(* The context ends during the sleep: the reservation is aborted. *)
WaitCanceled(t) ==
  /\ ppc[t] = "throttled"
  /\ GiveBack(t)
  /\ probe' = At(probe, t, FALSE)
  /\ ppc' = At(ppc, t, "idle")
  /\ UNCHANGED <<state, consecutiveFailure, cooled, tokens, attempt, chunkSeen,
                 prefixes, streak, leaked, healthy>>
-----------------------------------------------------------------------------
(* A streaming call hands its first non-blank chunk to the caller. *)
EmitChunk(t) ==
  /\ ppc[t] = "call"
  /\ ~chunkSeen[t]
  /\ chunkSeen' = At(chunkSeen, t, TRUE)
  /\ prefixes' = At(prefixes, t, prefixes[t] + 1)
  /\ UNCHANGED <<breakerVars, tokens, ppc, attempt, probe, streak, leaked, healthy>>

(* providerCircuitReservation.finish, by the state the breaker is in now.  *)
Trips(class) == class = "transient" /\ consecutiveFailure + 1 >= FailureThreshold

(* Mutant: a success does not start the count again. *)
FinishBreakerNoReset(class) ==
  CASE class = "canceled" \/ state = "open" ->
         UNCHANGED <<state, consecutiveFailure, cooled>>
    [] class # "canceled" /\ state = "closed" ->
         /\ state' = IF Trips(class) THEN "open" ELSE "closed"
         /\ consecutiveFailure' =
              IF Trips(class) THEN 0
              ELSE consecutiveFailure + (IF class = "transient" THEN 1 ELSE 0)
         /\ cooled' = FALSE
    [] class # "canceled" /\ state = "half_open" ->
         /\ state' = IF class = "transient" THEN "open" ELSE "closed"
         /\ consecutiveFailure' = consecutiveFailure
         /\ cooled' = FALSE

(* Mutant: a success of a probe does not close the breaker. *)
FinishBreakerStays(class) ==
  CASE class = "canceled" \/ state = "open" ->
         UNCHANGED <<state, consecutiveFailure, cooled>>
    [] class # "canceled" /\ state = "closed" ->
         /\ state' = IF Trips(class) THEN "open" ELSE "closed"
         /\ consecutiveFailure' =
              IF class = "transient" /\ ~Trips(class) THEN consecutiveFailure + 1 ELSE 0
         /\ cooled' = FALSE
    [] class # "canceled" /\ state = "half_open" ->
         /\ state' = IF class = "transient" THEN "open" ELSE "half_open"
         /\ consecutiveFailure' = IF class = "transient" THEN consecutiveFailure ELSE 0
         /\ cooled' = FALSE

FinishBreaker(class) ==
  CASE class = "canceled" \/ state = "open" ->
         UNCHANGED <<state, consecutiveFailure, cooled>>
    [] class # "canceled" /\ state = "closed" ->
         /\ state' = IF Trips(class) THEN "open" ELSE "closed"
         /\ consecutiveFailure' =
              IF class = "transient" /\ ~Trips(class) THEN consecutiveFailure + 1 ELSE 0
         /\ cooled' = FALSE
    [] class # "canceled" /\ state = "half_open" ->
         /\ state' = IF class = "transient" THEN "open" ELSE "closed"
         /\ consecutiveFailure' = IF class = "transient" THEN consecutiveFailure ELSE 0
         /\ cooled' = FALSE

(* Mutant: an attempt that has emitted is retried. *)
RetriesAfterChunk(t, class) == class = "transient" /\ attempt[t] < RetryMaxAttempts

(* The loop goes on after this result. *)
Retries(t, class) ==
  /\ class = "transient"
  /\ ~chunkSeen[t]
  /\ attempt[t] < RetryMaxAttempts

(* The provider answers, the class is reported, and the loop goes on or    *)
(* returns.                                                                *)
Finish(t, class) ==
  /\ ppc[t] = "call"
  /\ healthy => class # "transient"
  /\ GiveBack(t)
  /\ FinishBreaker(class)
  /\ probe' = At(probe, t, FALSE)
  /\ ppc' = At(ppc, t, IF Retries(t, class) THEN "backoff" ELSE "idle")
  /\ streak' = CASE class = "canceled" -> streak
                 [] class = "transient" -> IF streak < FailureThreshold THEN streak + 1 ELSE streak
                 [] OTHER -> 0
  /\ UNCHANGED <<tokens, attempt, chunkSeen, prefixes, leaked, healthy>>

(* The provider panics, or the emitter of a stream does: the panic unwinds *)
(* through the loop, and handle.finish, which is not deferred, never runs. *)
(* The place of a probe is not given back.                                 *)
Panics(t) ==
  /\ ppc[t] = "call"
  /\ probe[t] => leaked < MaxLeaks
  /\ leaked' = leaked + (IF probe[t] THEN 1 ELSE 0)
  /\ probe' = At(probe, t, FALSE)
  /\ ppc' = At(ppc, t, "idle")
  /\ UNCHANGED <<breakerVars, tokens, attempt, chunkSeen, prefixes, streak, healthy>>

(* sleepWithBackoff ends, or the context does. *)
Backoff(t) ==
  /\ ppc[t] = "backoff"
  /\ ppc' = At(ppc, t, "acquire")
  /\ attempt' = At(attempt, t, attempt[t] + 1)
  /\ UNCHANGED <<breakerVars, tokens, probe, chunkSeen, prefixes, streak, leaked, healthy>>

BackoffCanceled(t) ==
  /\ ppc[t] = "backoff"
  /\ ppc' = At(ppc, t, "idle")
  /\ UNCHANGED <<breakerVars, tokens, attempt, probe, chunkSeen, prefixes, streak, leaked, healthy>>
-----------------------------------------------------------------------------
(* now - openedAt reaches OpenTimeout. *)
Cool ==
  /\ state = "open"
  /\ ~cooled
  /\ cooled' = TRUE
  /\ UNCHANGED <<state, consecutiveFailure, halfOpenInFlight, tokens, callVars, streak, leaked, healthy>>

(* The bucket gains a token, up to its burst. *)
Refill ==
  /\ tokens < Burst
  /\ tokens' = tokens + 1
  /\ UNCHANGED <<breakerVars, callVars, streak, leaked, healthy>>

(* From here on the provider does not fail any more. *)
Recover ==
  /\ ~healthy
  /\ healthy' = TRUE
  /\ UNCHANGED <<breakerVars, tokens, callVars, streak, leaked>>

GovNext ==
  \/ \E t \in Threads :
       \/ StartCall(t) \/ ReserveRefused(t) \/ Reserve(t)
       \/ TakeToken(t) \/ Throttle(t) \/ WaitCanceled(t) \/ EmitChunk(t)
       \/ \E class \in Classes : Finish(t, class)
       \/ Panics(t) \/ Backoff(t) \/ BackoffCanceled(t)
  \/ Cool \/ Refill \/ Recover

GovSpec == GovInit /\ [][GovNext]_govVars

(* Time passes, goroutines inside a call keep running and go on calling    *)
(* the provider, and their calls do not all end in a cancellation or a     *)
(* panic.                                                                  *)
GovFairness ==
  /\ WF_govVars(Cool) /\ WF_govVars(Refill)
  /\ \A t \in Threads :
       /\ WF_govVars(StartCall(t))
       /\ WF_govVars(ReserveRefused(t) \/ Reserve(t))
       /\ SF_govVars(TakeToken(t))
       /\ SF_govVars(\E class \in {"ok", "transient", "permanent"} : Finish(t, class))
       /\ WF_govVars(Backoff(t))

FairGovSpec == GovSpec /\ GovFairness
-----------------------------------------------------------------------------
(* halfOpenInFlight counts the outstanding probes and those whose call     *)
(* panicked, whatever the breaker went through since they were reserved:   *)
(* an aborted wait, a cancellation or a change of state leaks no place,    *)
(* none is given back twice, and a panic leaks its place for good.         *)
ProbeCountExact == halfOpenInFlight = Cardinality(Probes) + leaked

(* A closed breaker opens only on the last of FailureThreshold failures    *)
(* reported in a row by its callers, cancellations aside.                  *)
TripsOnlyOnStreak ==
  [][state = "closed" /\ state' = "open" => streak' = FailureThreshold]_govVars

(* An open breaker stays open for its window: neither a late answer of a   *)
(* call reserved earlier nor a new caller moves it before OpenTimeout.     *)
OpenHoldsItsWindow == [][state = "open" /\ ~cooled => state' = "open"]_govVars

(* A streaming caller never receives the beginning of two answers: an      *)
(* attempt that has emitted is the last one.                               *)
OnePrefix == \A t \in Threads : prefixes[t] <= 1

(* Once the provider is healthy for good the breaker closes: no sequence   *)
(* of failures, cancellations and throttling leaves it stuck, nor do       *)
(* panics, until they have leaked every place of a half-open breaker.      *)
BreakerRecovers == healthy ~> [](state = "closed" \/ leaked >= HalfOpenMaxCalls)
=============================================================================
