----------------------------- MODULE PaymentGateway -----------------------------
(***************************************************************************)
(* HttpPaymentGateway of src/infrastructure/payments: concurrent calls of  *)
(* charge and getStatus, each up to MaxAttempts attempts (withRetry), all  *)
(* through one CircuitBreaker, to the provider (PaymentsMock) over a       *)
(* network that may refuse, lose or delay a request and lose an answer.    *)
(*                                                                         *)
(* Every attempt is one HTTP request, <<call, number>>.  An attempt that   *)
(* timed out is forgotten by the caller and by nobody else: its request    *)
(* may still arrive, be charged and be answered to nobody.  The jittered   *)
(* backoff is the time between a failed attempt and the next one.          *)
(***************************************************************************)
EXTENDS CircuitBreaker

CONSTANTS
    Keys, KindOfCall, KeyOfCall,
    BodyOfCall, CardChoices,    \* the body of each call, the cards of the bodies
    MaxAttempts,            \* MAX_ATTEMPTS of retry.ts
    MaxCalls,               \* bound: how many of the calls are made
    None

ASSUME MaxAttemptsAssumption == MaxAttempts \in Nat \ {0}
ASSUME CallsAssumption ==
    /\ KindOfCall \in [Calls -> {"charge", "getStatus"}]
    /\ KeyOfCall \in [Calls -> Keys]

\* The breaker's variables are those of CircuitBreaker.
VARIABLES
    attempt,    \* attempts made by each call
    result,     \* the ChargeResult of each call, or None
    net,        \* requests sent and not yet arrived
    blank,      \* history: no charge was recorded when the call began
    cardOf, records, pending, phase, reply              \* the provider

gatewayVars == <<attempt, result, net, blank>>
providerVars == <<cardOf, records, pending, phase, reply>>
vars == <<gatewayVars, providerVars, breakerVars>>

Attempts == Calls \X (1..MaxAttempts)

\* ChargeRecord of the provider, its HTTP responses, and ChargeResult.
Records == [id : Attempts, hash : {BodyOfCall[c] : c \in Calls},
            status : {"approved", "declined"}]
Responses == [code : {200, 400, 402, 404, 422, 500}, charge : Records \cup {None}]
Results == [status : {"CAPTURED", "DECLINED", "FAILED", "UNKNOWN"},
            failureCode : {"CARD_DECLINED", "NOT_FOUND", "INVALID_REQUEST", "CIRCUIT_OPEN",
                           "TIMEOUT", "CONNECTION_REFUSED", "NETWORK_ERROR",
                           "PROVIDER_ERROR", None}]

ASSUME NoneAssumption ==
    None \notin Attempts /\ None \notin Records /\ None \notin Responses /\ None \notin Results

Provider == INSTANCE PaymentsMock WITH
    Requests <- Attempts,
    MethodOf <- [a \in Attempts |-> IF KindOfCall[a[1]] = "charge" THEN "POST" ELSE "GET"],
    KeyOf <- [a \in Attempts |-> KeyOfCall[a[1]]],
    BodyOf <- [a \in Attempts |-> BodyOfCall[a[1]]]

Init ==
    /\ attempt = [c \in Calls |-> 0]
    /\ result = [c \in Calls |-> None]
    /\ net = {}
    /\ blank = [c \in Calls |-> TRUE]
    /\ Provider!Init
    /\ BreakerInit

-----------------------------------------------------------------------------
(* What a response is mapped to *)

Result(status, failureCode) == [status |-> status, failureCode |-> failureCode]

\* The body of a response that cannot be read is null: the status line decides
\* a charge all the same.
mapChargeResponse(response) ==
    CASE response.code = 200 -> Result("CAPTURED", None)
      [] response.code = 402 -> Result("DECLINED", "CARD_DECLINED")
      [] OTHER -> Result("UNKNOWN", "INVALID_REQUEST")

\* Mutant: a status response that says nothing is taken for no charge.
mapStatusGuessing(response, readable) ==
    CASE response.code = 404 \/ ~readable -> Result("FAILED", "NOT_FOUND")
      [] response.charge.status = "approved" -> Result("CAPTURED", None)
      [] OTHER -> Result("DECLINED", "CARD_DECLINED")

mapStatusResponse(response, readable) ==
    CASE response.code = 404 -> Result("FAILED", "NOT_FOUND")
      [] response.code = 200 /\ readable /\ response.charge.status = "approved" ->
            Result("CAPTURED", None)
      [] response.code = 200 /\ readable /\ response.charge.status = "declined" ->
            Result("DECLINED", "CARD_DECLINED")
      [] OTHER -> Result("UNKNOWN", "INVALID_REQUEST")

-----------------------------------------------------------------------------
(* Attempts: withRetry around breaker.execute *)

\* The calls made so far; which of them are made is open.
Made == {c \in Calls : attempt[c] > 0 \/ result[c] # None}
MayCall(c) == result[c] = None /\ (c \in Made \/ Cardinality(Made) < MaxCalls)

Current(c) == <<c, attempt[c]>>

\* The breaker lets the attempt through and the request is sent.
Attempt(c) ==
    /\ MayCall(c)
    /\ LetThrough(c)
    /\ attempt' = [attempt EXCEPT ![c] = @ + 1]
    /\ net' = net \cup {<<c, attempt[c] + 1>>}
    /\ blank' = [blank EXCEPT ![c] =
                    IF attempt[c] = 0 THEN records[KeyOfCall[c]] = None ELSE @]
    /\ UNCHANGED <<result, providerVars>>

\* The breaker turns the attempt away: CircuitOpenError is not transient.
Rejected(c) ==
    /\ MayCall(c)
    /\ Reject(c)
    /\ result' = [result EXCEPT ![c] = Result("UNKNOWN", "CIRCUIT_OPEN")]
    /\ UNCHANGED <<attempt, net, blank, providerVars>>

\* A transient failure: tried again, or the last attempt's code is reported.
Fail(c, failureCode) ==
    /\ OnFailure(c)
    /\ result' = IF attempt[c] < MaxAttempts THEN result
                 ELSE [result EXCEPT ![c] = Result("UNKNOWN", failureCode)]
    /\ UNCHANGED <<attempt, blank, providerVars>>

\* Mutant: the signal ends the wait for a connection, not for the answer.
TimesOutConnecting(c) ==
    /\ age[c] = Timeout
    /\ Current(c) \in net
    /\ net' \in {net, net \ {Current(c)}}
    /\ Fail(c, "TIMEOUT")

\* AbortSignal.timeout: the request may be lost, on its way or at the provider.
TimesOut(c) ==
    /\ age[c] = Timeout
    /\ net' \in {net, net \ {Current(c)}}
    /\ Fail(c, "TIMEOUT")

Refused(c) ==
    /\ Current(c) \in net
    /\ net' = net \ {Current(c)}
    /\ Fail(c, "CONNECTION_REFUSED")

\* ECONNRESET and the like, before or after the request arrived.
NetworkError(c) ==
    /\ net' \in {net, net \ {Current(c)}}
    /\ Fail(c, "NETWORK_ERROR")

\* The response to the current attempt: 5xx is a failure, to be tried again;
\* anything else ends the call and is a success to the breaker.
Responded(c) ==
    LET response == reply[Current(c)]
    IN  /\ c \in InFlight /\ response # None
        /\ \/ response.code >= 500 /\ Fail(c, "PROVIDER_ERROR")
           \/ /\ response.code < 500
              /\ OnSuccess(c)
              /\ \E readable \in BOOLEAN :
                    result' = [result EXCEPT ![c] =
                        IF KindOfCall[c] = "charge" THEN mapChargeResponse(response)
                        ELSE mapStatusResponse(response, readable)]
              /\ UNCHANGED <<attempt, blank, providerVars>>
        /\ UNCHANGED net

-----------------------------------------------------------------------------
(* The network and the provider *)

Arrives(a) ==
    /\ a \in net
    /\ net' = net \ {a}
    /\ Provider!Receive(a) /\ UNCHANGED cardOf
    /\ UNCHANGED <<attempt, result, blank, breakerVars>>

Finishes(a) ==
    /\ Provider!Finish(a) /\ UNCHANGED cardOf
    /\ UNCHANGED <<gatewayVars, breakerVars>>

TimePasses ==
    /\ Tick
    /\ UNCHANGED <<gatewayVars, providerVars>>

Next ==
    \/ \E c \in Calls :
          \/ Attempt(c) \/ Rejected(c)
          \/ TimesOut(c) \/ Refused(c) \/ NetworkError(c) \/ Responded(c)
    \/ \E a \in Attempts : Arrives(a) \/ Finishes(a)
    \/ TimePasses

Spec == Init /\ [][Next]_vars

\* The caller's own timers: time passes, an attempt is aborted and the backoff
\* ends.  The provider and the network owe nothing.
Fairness ==
    /\ WF_vars(TimePasses)
    /\ \A c \in Calls : /\ WF_vars(TimesOut(c))
                        /\ WF_vars(attempt[c] > 0 /\ (Attempt(c) \/ Rejected(c)))

FairSpec == Spec /\ Fairness

-----------------------------------------------------------------------------
(* Properties *)

Contract == INSTANCE PaymentContract WITH
    decision <- [k \in Keys |-> IF records[k] = None THEN "none" ELSE records[k].status],
    outcome <- [c \in Calls |-> IF result[c] # None THEN result[c].status
                                ELSE IF attempt[c] = 0 THEN "idle" ELSE "running"]

\* The gateway keeps the port's promise: whatever is lost, late, retried or
\* turned away, a call reports what the provider has decided under its key, or
\* that it does not know; never an outcome the provider did not record.
ContractSpec == Contract!Spec

\* Every call returns, whatever the provider and the network do.
EveryCallReturns ==
    \A c \in Calls : attempt[c] > 0 ~> result[c] # None
=============================================================================
