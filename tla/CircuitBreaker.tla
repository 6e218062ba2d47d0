---------------------------- MODULE CircuitBreaker ----------------------------
(***************************************************************************)
(* CircuitBreaker of src/infrastructure/http/circuit-breaker.ts, with the  *)
(* calls that run through it concurrently: `execute` runs without a break  *)
(* up to the first await, so its decision is one action, and so is what    *)
(* the call's end does to the breaker.  Between the two every other call   *)
(* may be decided or end, so a result is applied to a breaker that may     *)
(* have changed its state since the call was let through.                  *)
(*                                                                         *)
(* Time is relative: how long ago the breaker opened, up to OpenFor, and   *)
(* how long a call has been running.  An attempt is aborted after Timeout  *)
(* (AbortSignal.timeout), so time does not pass beyond it.                 *)
(***************************************************************************)
EXTENDS Integers, FiniteSets

CONSTANTS
    Calls,      \* calls of execute that may run at the same time
    Threshold,  \* failureThreshold
    OpenFor,    \* openMs, in ticks
    Timeout     \* ATTEMPT_TIMEOUT_MS of the adapters, in ticks

ASSUME ThresholdAssumption == Threshold \in Nat \ {0}
\* 2 seconds and 30 seconds in the code.
ASSUME TimeoutAssumption == Timeout \in Nat /\ OpenFor \in Nat /\ Timeout < OpenFor

VARIABLES
    state,      \* currentState
    failures,   \* consecutiveFailures
    sinceOpen,  \* now() - openedAt, up to OpenFor
    probing,    \* halfOpenProbeInFlight
    role,       \* what each call is: idle, let through as a call or as the probe
    age         \* how long each call has been running

breakerVars == <<state, failures, sinceOpen, probing, role, age>>

BreakerInit ==
    /\ state = "CLOSED" /\ failures = 0
    /\ sinceOpen = 0 /\ probing = FALSE
    /\ role = [c \in Calls |-> "idle"]
    /\ age = [c \in Calls |-> 0]

InFlight == {c \in Calls : role[c] # "idle"}

-----------------------------------------------------------------------------
(* execute, up to the operation *)

\* The state after maybeHalfOpen.
MaybeHalfOpen ==
    IF state = "OPEN" /\ sinceOpen = OpenFor THEN "HALF_OPEN" ELSE state

\* Mutant: the flag is looked at, but set only once the probe has ended.
LetThroughUnflagged(c) ==
    /\ role[c] = "idle"
    /\ MaybeHalfOpen = "CLOSED" \/ (MaybeHalfOpen = "HALF_OPEN" /\ ~probing)
    /\ state' = MaybeHalfOpen
    /\ role' = [role EXCEPT ![c] = IF MaybeHalfOpen = "HALF_OPEN" THEN "probe" ELSE "call"]
    /\ age' = [age EXCEPT ![c] = 0]
    /\ UNCHANGED <<failures, sinceOpen, probing>>

\* The call runs; in HALF_OPEN it is the probe, and the flag is set before the
\* first await.
LetThrough(c) ==
    /\ role[c] = "idle"
    /\ MaybeHalfOpen = "CLOSED" \/ (MaybeHalfOpen = "HALF_OPEN" /\ ~probing)
    /\ state' = MaybeHalfOpen
    /\ probing' = (probing \/ MaybeHalfOpen = "HALF_OPEN")
    /\ role' = [role EXCEPT ![c] = IF MaybeHalfOpen = "HALF_OPEN" THEN "probe" ELSE "call"]
    /\ age' = [age EXCEPT ![c] = 0]
    /\ UNCHANGED <<failures, sinceOpen>>

\* CircuitOpenError; the breaker may have become HALF_OPEN all the same.
Reject(c) ==
    /\ role[c] = "idle"
    /\ MaybeHalfOpen = "OPEN" \/ (MaybeHalfOpen = "HALF_OPEN" /\ probing)
    /\ state' = MaybeHalfOpen
    /\ UNCHANGED <<failures, sinceOpen, probing, role, age>>

-----------------------------------------------------------------------------
(* The end of the operation *)

\* Mutant: the flag is cleared only when the probe succeeds.
EndOnSuccess(c) ==
    /\ role' = [role EXCEPT ![c] = "idle"]
    /\ age' = [age EXCEPT ![c] = 0]
    /\ probing' = (probing /\ ~(role[c] = "probe" /\ state' = "CLOSED"))

\* The call ends; `finally` clears the flag the probe set.
End(c) ==
    /\ role' = [role EXCEPT ![c] = "idle"]
    /\ age' = [age EXCEPT ![c] = 0]
    /\ probing' = (probing /\ role[c] # "probe")

OnSuccess(c) ==
    /\ c \in InFlight
    /\ failures' = 0
    /\ state' = IF state = "HALF_OPEN" THEN "CLOSED" ELSE state
    /\ End(c)
    /\ UNCHANGED sinceOpen

\* Mutant: openedAt is not written when the breaker opens.
OnFailureOldWindow(c) ==
    /\ c \in InFlight
    /\ \/ /\ state = "HALF_OPEN"
          /\ state' = "OPEN" /\ UNCHANGED <<failures, sinceOpen>>
       \/ /\ state # "HALF_OPEN"
          /\ failures' = failures + 1
          /\ state' = IF failures' >= Threshold THEN "OPEN" ELSE state
          /\ UNCHANGED sinceOpen
    /\ End(c)

OnFailure(c) ==
    /\ c \in InFlight
    /\ \/ /\ state = "HALF_OPEN"
          /\ state' = "OPEN" /\ sinceOpen' = 0 /\ UNCHANGED failures
       \/ /\ state # "HALF_OPEN"
          /\ failures' = failures + 1
          /\ IF failures' >= Threshold
             THEN state' = "OPEN" /\ sinceOpen' = 0
             ELSE UNCHANGED <<state, sinceOpen>>
    /\ End(c)

-----------------------------------------------------------------------------
\* A unit of time passes: every running call is aborted at Timeout at the
\* latest, so it has ended before time goes on.
Tick ==
    /\ \A c \in InFlight : age[c] < Timeout
    /\ sinceOpen < OpenFor \/ InFlight # {}
    /\ sinceOpen' = IF sinceOpen < OpenFor THEN sinceOpen + 1 ELSE sinceOpen
    /\ age' = [c \in Calls |-> IF c \in InFlight THEN age[c] + 1 ELSE age[c]]
    /\ UNCHANGED <<state, failures, probing, role>>

BreakerNext ==
    \/ \E c \in Calls : LetThrough(c) \/ Reject(c) \/ OnSuccess(c) \/ OnFailure(c)
    \/ Tick

BreakerSpec == BreakerInit /\ [][BreakerNext]_breakerVars

-----------------------------------------------------------------------------
(* Properties *)

BreakerTypeOK ==
    /\ state \in {"CLOSED", "OPEN", "HALF_OPEN"}
    /\ failures \in Nat
    /\ sinceOpen \in 0..OpenFor
    /\ probing \in BOOLEAN
    /\ role \in [Calls -> {"idle", "call", "probe"}]
    /\ age \in [Calls -> 0..Timeout]

\* "Exactly one probe": two calls are never probes at the same time, and the
\* flag is up exactly while a probe runs, so no call is turned away for a
\* probe that is over.
OneProbe ==
    /\ \A c, d \in Calls : role[c] = "probe" /\ role[d] = "probe" => c = d
    /\ probing <=> \E c \in Calls : role[c] = "probe"

\* HALF_OPEN is decided by its probe alone: a call let through before the
\* breaker opened can neither close nor reopen it, because its attempt timed
\* out long before the window ended, also when late failures extended it.
ProbeDecides ==
    state = "HALF_OPEN" =>
        \E c \in Calls : InFlight = {c} /\ role[c] = "probe"

\* A closed breaker has seen fewer failures in a row than the threshold, late
\* results of calls from before it opened included.
ClosedBelowThreshold == state = "CLOSED" => failures < Threshold

\* The breaker never gets stuck: an open one lets a probe through in the end,
\* and the probe's end decides.
KeepsProbing ==
    /\ state = "OPEN" ~> state = "HALF_OPEN"
    /\ state = "HALF_OPEN" ~> state # "HALF_OPEN"
=============================================================================
