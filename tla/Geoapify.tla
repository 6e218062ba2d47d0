-------------------------------- MODULE Geoapify --------------------------------
(***************************************************************************)
(* GeoapifyGeocodingProvider of src/infrastructure/geocoding, and the      *)
(* circuit breaker in use: concurrent callers search again and again, each *)
(* search up to MaxAttempts attempts (withRetry), every attempt a call of  *)
(* CircuitBreaker.execute.  Geoapify itself is external and may answer     *)
(* anything at any time.                                                   *)
(***************************************************************************)
EXTENDS CircuitBreaker

CONSTANTS MaxAttempts, None

ASSUME AttemptsAssumption == MaxAttempts \in Nat \ {0}

VARIABLES
    attempt,    \* attempts made by the search of each caller
    result      \* what it ended with: "found" or the reason of its error

geoapifyVars == <<attempt, result, breakerVars>>

GeoapifyInit ==
    /\ attempt = [c \in Calls |-> 0]
    /\ result = [c \in Calls |-> None]
    /\ BreakerInit

-----------------------------------------------------------------------------
(* Responses: an HTTP status and, where it is read, whether the body holds   *)
(* features; an unreadable body (cut off, aborted, not JSON) counts as none. *)

Transient == {429, 500}
Rejection == {401, 403}

Responses ==
    {[code |-> s, features |-> FALSE] : s \in {200, 400, 401, 403, 429, 500}}
        \cup {[code |-> 200, features |-> TRUE]}

Meaning(response) ==
    IF response.code \in Rejection THEN "PROVIDER_UNAVAILABLE"
    ELSE IF response.features THEN "found" ELSE "UNKNOWN_ADDRESS"

-----------------------------------------------------------------------------
Attempt(c) ==
    /\ result[c] = None
    /\ LetThrough(c)
    /\ attempt' = [attempt EXCEPT ![c] = @ + 1]
    /\ UNCHANGED result

\* CircuitOpenError ends the call.
Rejected(c) ==
    /\ result[c] = None
    /\ Reject(c)
    /\ result' = [result EXCEPT ![c] = "PROVIDER_UNAVAILABLE"]
    /\ UNCHANGED attempt

\* Every failed attempt counts; the last one ends the call.
Fail(c) ==
    /\ OnFailure(c)
    /\ result' = IF attempt[c] < MaxAttempts THEN result
                 ELSE [result EXCEPT ![c] = "PROVIDER_UNAVAILABLE"]
    /\ UNCHANGED attempt

\* Mutant: an attempt may wait for ever.
TimesOutNever(c) == FALSE /\ Fail(c)

TimesOut(c) == age[c] = Timeout /\ Fail(c)

\* Refused, reset, unresolved: classifyFetchError makes no difference here.
NetworkError(c) == Fail(c)

Responded(c, response) ==
    IF response.code \in Transient THEN Fail(c)
    ELSE /\ OnSuccess(c)
         /\ result' = [result EXCEPT ![c] = Meaning(response)]
         /\ UNCHANGED attempt

\* The search returned; the caller's next one begins.
NextSearch(c) ==
    /\ result[c] # None
    /\ attempt' = [attempt EXCEPT ![c] = 0]
    /\ result' = [result EXCEPT ![c] = None]
    /\ UNCHANGED breakerVars

TimePasses == Tick /\ UNCHANGED <<attempt, result>>

Ends(c) == TimesOut(c) \/ NetworkError(c) \/ \E response \in Responses : Responded(c, response)

GeoapifyNext ==
    \/ \E c \in Calls : Attempt(c) \/ Rejected(c) \/ Ends(c) \/ NextSearch(c)
    \/ TimePasses

\* Time passes, the abort signal ends an attempt that nothing else ends, the
\* backoff is over in the end, and callers keep coming.
GeoapifyFairness ==
    /\ WF_geoapifyVars(TimePasses)
    /\ \A c \in Calls : /\ WF_geoapifyVars(TimesOut(c))
                        /\ WF_geoapifyVars(Attempt(c) \/ Rejected(c))
                        /\ WF_geoapifyVars(NextSearch(c))

GeoapifySpec == GeoapifyInit /\ [][GeoapifyNext]_geoapifyVars /\ GeoapifyFairness

-----------------------------------------------------------------------------
(* Properties, beside those of CircuitBreaker *)

\* Every search ends, whatever Geoapify does and the breaker is in.
EverySearchEnds ==
    \A c \in Calls : attempt[c] > 0 ~> result[c] # None
=============================================================================
