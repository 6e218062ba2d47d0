------------------------------- MODULE OrderSaga -------------------------------
(***************************************************************************)
(* The callers of module Settlement and what runs between their            *)
(* transactions: the saga of POST /orders (create-order.use-case.ts and    *)
(* allocate-inventory.use-case.ts), the reservation reaper and payment     *)
(* reconciliation (application/jobs), the payment provider they talk to,   *)
(* and the clock that expires reservations.  Every await between two       *)
(* transactions is a point where any other actor may run, where a process  *)
(* may crash, and where a call may fail.                                   *)
(*                                                                         *)
(* There is one request per order.  A request's charge is abstracted to    *)
(* whether a copy of it (an attempt of withRetry) is still in transit and  *)
(* to the provider's record: retries carry the same idempotency key, so    *)
(* the provider records at most one outcome.                               *)
(***************************************************************************)
EXTENDS Settlement

CONSTANTS
    Reapers,        \* running reservation.reap jobs
    Reconcilers,    \* running payment.reconcile jobs
    Nearness,       \* Nearness[o]: the warehouses by distance, then id
    MaxCandidates,  \* LIMIT of select-warehouse.sql
    BatchSize,      \* LIMIT of both job queries
    Prompt          \* TRUE: no request outlives the grace period or the TTL

Jobs == Reapers \cup Reconcilers

ASSUME JobsAssumption == Reapers \cap Reconcilers = {}
ASSUME LimitAssumption == MaxCandidates \in Nat \ {0} /\ BatchSize \in Nat \ {0}
ASSUME PromptAssumption == Prompt \in BOOLEAN

VARIABLES
    pc,             \* where each order's saga is
    candidates,     \* the warehouses its allocation has not tried yet
    chargeResult,   \* what its charge() returned
    response,       \* the HTTP status it answered, and the order's status then
    provider,       \* the provider's record of each order's charge
    inTransit,      \* the orders with a charge request on its way
    placed,         \* orders by reservation_expires_at
    expired,        \* how many of them are past it
    charged,        \* orders by payments.created_at
    graced,         \* how many of those are past the grace period
    batch,          \* the selected rows a job has not resolved yet
    answer          \* what getStatus() said of the first of them

sagaVars == <<pc, candidates, chargeResult, response>>
clockVars == <<placed, expired, charged, graced>>
providerVars == <<provider, inTransit>>
jobVars == <<batch, answer>>
vars == <<settlementVars, sagaVars, clockVars, providerVars, jobVars>>

Steps == {"resolve", "select", "reserve", "insertPayment", "charge", "await",
          "savePayment", "settle", "done", "crashed"}
Quiet(o) == pc[o] \in {"done", "crashed"}

\* The orders whose reservation has expired.
Overdue == {placed[i] : i \in 1..expired}

Init ==
    /\ SettlementInit
    /\ pc = [o \in Orders |-> "resolve"]
    /\ candidates = [o \in Orders |-> <<>>]
    /\ chargeResult = [o \in Orders |-> "NONE"]
    /\ response = [o \in Orders |-> [code |-> 0, order |-> "NONE"]]
    /\ provider = [o \in Orders |-> "none"]
    /\ inTransit = {}
    /\ placed = <<>> /\ expired = 0
    /\ charged = <<>> /\ graced = 0
    /\ batch = [j \in Jobs |-> <<>>]
    /\ answer = [j \in Jobs |-> "NONE"]

\* LIMIT n of a query.
Limit(n, s) == SubSeq(s, 1, IF Len(s) < n THEN Len(s) ELSE n)

GoTo(o, step) == pc' = [pc EXCEPT ![o] = step]

\* The saga ends: a response is sent, with the status of the order then.
Respond(o, code, orderStatus) ==
    /\ GoTo(o, "done")
    /\ response' = [response EXCEPT ![o] = [code |-> code, order |-> orderStatus]]

-----------------------------------------------------------------------------
(* The saga *)

\* resolveCustomerAndProducts and the geocoder: 404 and 422 end the request.
Resolve(o) ==
    /\ pc[o] = "resolve"
    /\ \/ GoTo(o, "select") /\ UNCHANGED response
       \/ \E code \in {404, 422} : Respond(o, code, "NONE")
    /\ UNCHANGED <<settlementVars, candidates, chargeResult, clockVars,
                   providerVars, jobVars>>

\* findCandidates runs once, before any lock is taken.
SelectWarehouses(o) ==
    LET found == Limit(MaxCandidates,
                       SelectSeq(Nearness[o], LAMBDA w : Unmet(o, w) = {}))
    IN  /\ pc[o] = "select"
        /\ candidates' = [candidates EXCEPT ![o] = found]
        /\ IF found = <<>> THEN Respond(o, 422, "NONE")
                           ELSE GoTo(o, "reserve") /\ UNCHANGED response
        /\ UNCHANGED <<settlementVars, chargeResult, clockVars, providerVars,
                       jobVars>>

\* One candidate, in its own transaction.
TryCandidate(o, w) ==
    /\ pc[o] = "reserve" /\ w = Head(candidates[o])
    /\ PlaceOrder(o, w)
    /\ placed' = Append(placed, o)
    /\ GoTo(o, "insertPayment")
    /\ UNCHANGED <<candidates, chargeResult, response, expired, charged, graced,
                   providerVars, jobVars>>

\* InsufficientStockError: the stock moved since the candidates were read, or
\* the row locks were not granted in time.  The next candidate is tried.
CandidateFails(o) ==
    /\ pc[o] = "reserve"
    /\ candidates' = [candidates EXCEPT ![o] = Tail(@)]
    /\ IF Tail(candidates[o]) = <<>> THEN Respond(o, 409, "NONE")
                                     ELSE UNCHANGED <<pc, response>>
    /\ UNCHANGED <<settlementVars, chargeResult, clockVars, providerVars, jobVars>>

SavePendingPayment(o) ==
    /\ pc[o] = "insertPayment"
    /\ InsertPayment(o)
    /\ charged' = Append(charged, o)
    /\ GoTo(o, "charge")
    /\ UNCHANGED <<candidates, chargeResult, response, placed, expired, graced,
                   providerVars, jobVars>>

\* charge(): the request leaves, and the saga waits without a transaction.
SendCharge(o) ==
    /\ pc[o] = "charge"
    /\ inTransit' = inTransit \cup {o}
    /\ GoTo(o, "await")
    /\ UNCHANGED <<settlementVars, candidates, chargeResult, response, clockVars,
                   provider, jobVars>>

\* The gateway maps what the provider recorded, or UNKNOWN: every attempt
\* timed out or failed, or the breaker is open.
ProviderSays(o) ==
    CASE provider[o] = "approved" -> "CAPTURED"
      [] provider[o] = "declined" -> "DECLINED"
      [] provider[o] = "none"     -> "FAILED"

ChargeReturns(o) ==
    /\ pc[o] = "await"
    /\ \E result \in ChargeOutcomes :
        /\ result \in {ProviderSays(o), "UNKNOWN"}
        /\ chargeResult' = [chargeResult EXCEPT ![o] = result]
    /\ GoTo(o, "savePayment")
    /\ UNCHANGED <<settlementVars, candidates, response, clockVars, providerVars,
                   jobVars>>

SaveOutcome(o) ==
    /\ pc[o] = "savePayment"
    /\ SavePayment(o, chargeResult[o])
    /\ GoTo(o, "settle")
    /\ UNCHANGED <<candidates, chargeResult, response, clockVars, providerVars,
                   jobVars>>

\* settleOrder: 201 carries whatever order the settlement returned, 402 and
\* 502 are the two errors; UNKNOWN leaves the order to the jobs.
SettleOrder(o) ==
    /\ pc[o] = "settle"
    /\ \/ /\ chargeResult[o] = "CAPTURED"
          /\ ConfirmCaptured(o, "NONE") \/ AlreadySettled(o)
          /\ Respond(o, 201, status'[o])
       \/ /\ chargeResult[o] = "DECLINED"
          /\ FailDeclined(o, "NONE") \/ AlreadySettled(o)
          /\ Respond(o, 402, status'[o])
       \/ /\ chargeResult[o] = "UNKNOWN"
          /\ UNCHANGED settlementVars
          /\ Respond(o, 502, status[o])
    /\ UNCHANGED <<candidates, chargeResult, clockVars, providerVars, jobVars>>

SagaStep(o) ==
    \/ Resolve(o) \/ SelectWarehouses(o)
    \/ (\E w \in Warehouses : TryCandidate(o, w)) \/ CandidateFails(o)
    \/ SavePendingPayment(o) \/ SendCharge(o) \/ ChargeReturns(o)
    \/ SaveOutcome(o) \/ SettleOrder(o)

\* Mutant: an error cancels the order by hand, without its stock.
SagaFailsCancelling(o) ==
    /\ pc[o] \in {"savePayment", "settle"}
    /\ status' = [status EXCEPT ![o] = "CANCELLED"]
    /\ Respond(o, 500, "CANCELLED")
    /\ UNCHANGED <<inventoryVars, payment, outbox, candidates, chargeResult,
                   clockVars, providerVars, jobVars>>

\* An unexpected error (the database, or a lock timeout in phase 3) rolls the
\* transaction back and ends the saga with 500.  charge() never throws.
SagaFails(o) ==
    /\ pc[o] \in {"resolve", "select", "reserve", "insertPayment",
                  "savePayment", "settle"}
    /\ Respond(o, 500, status[o])
    /\ UNCHANGED <<settlementVars, candidates, chargeResult, clockVars,
                   providerVars, jobVars>>

\* The process that runs the request dies: no response, nothing is undone.
Crash(o) ==
    /\ ~Quiet(o)
    /\ GoTo(o, "crashed")
    /\ UNCHANGED <<settlementVars, candidates, chargeResult, response, clockVars,
                   providerVars, jobVars>>

-----------------------------------------------------------------------------
(* The provider and the clock *)

\* A copy of the request arrives; the first one is recorded.  Another copy
\* may still be on its way.
ProviderReceives(o) ==
    /\ o \in inTransit
    /\ inTransit' \in {inTransit, inTransit \ {o}}
    /\ IF provider[o] = "none"
       THEN \E outcome \in {"approved", "declined"} :
                provider' = [provider EXCEPT ![o] = outcome]
       ELSE UNCHANGED provider
    /\ UNCHANGED <<settlementVars, sagaVars, clockVars, jobVars>>

\* The request is lost, or the provider fails on it without a record.
RequestLost(o) ==
    /\ o \in inTransit
    /\ inTransit' = inTransit \ {o}
    /\ UNCHANGED <<settlementVars, sagaVars, clockVars, provider, jobVars>>

\* Fifteen minutes after the reservation.  A saga takes seconds: under Prompt
\* it has ended, and so has its last request, when its reservation expires.
ReservationExpires ==
    /\ expired < Len(placed)
    /\ Prompt => LET o == placed[expired + 1] IN Quiet(o) /\ o \notin inTransit
    /\ expired' = expired + 1
    /\ UNCHANGED <<settlementVars, sagaVars, placed, charged, graced,
                   providerVars, jobVars>>

\* Two minutes after the payment row was created: the saga has ended, but a
\* request may, as far as the jobs know, still be in transit.
GraceEnds ==
    /\ graced < Len(charged)
    /\ Prompt => Quiet(charged[graced + 1])
    /\ graced' = graced + 1
    /\ UNCHANGED <<settlementVars, sagaVars, placed, expired, charged,
                   providerVars, jobVars>>

-----------------------------------------------------------------------------
(* The jobs *)

\* A job whose next step is to settle its first row: definitive answers for
\* both jobs, and "never charged" for the reaper.
Settling(j) ==
    /\ batch[j] # <<>>
    /\ \/ IsDefinitiveOutcome(answer[j])
       \/ /\ j \in Reapers
          /\ answer[j] = "FAILED" \/ ~batch[j][1].hasPayment

\* The orders another actor may hold a row lock for, the query of a job of the
\* same kind included: SKIP LOCKED leaves any of them out.
MaybeLocked(j) ==
    {o \in Orders :
        \/ pc[o] \in {"insertPayment", "savePayment", "settle"}
        \/ \E k \in Jobs \ {j} :
              \/ Settling(k) /\ batch[k][1].order = o
              \/ batch[k] = <<>> /\ (k \in Reapers <=> j \in Reapers)}

\* Mutant: an inner join with payments, so an order without one is not found.
ReaperSelectPaid(r) ==
    /\ batch[r] = <<>>
    /\ \E skipped \in SUBSET MaybeLocked(r), n \in 1..BatchSize :
        \E rows \in [1..n -> Overdue] :
            /\ rows = Limit(BatchSize, SelectSeq(SubSeq(placed, 1, expired),
                   LAMBDA o : /\ status[o] = "PENDING_PAYMENT"
                              /\ payment[o].status # "NONE" /\ o \notin skipped))
            /\ batch' = [batch EXCEPT ![r] = [i \in 1..n |->
                   [order |-> rows[i], hasPayment |-> TRUE]]]
    /\ UNCHANGED <<settlementVars, sagaVars, clockVars, providerVars, answer>>

\* selectExpiredReservations, with the payment each order has at this moment.
ReaperSelect(r) ==
    /\ batch[r] = <<>>
    /\ \E skipped \in SUBSET MaybeLocked(r), n \in 1..BatchSize :
        \E rows \in [1..n -> Overdue] :
            /\ rows = Limit(BatchSize, SelectSeq(SubSeq(placed, 1, expired),
                   LAMBDA o : status[o] = "PENDING_PAYMENT" /\ o \notin skipped))
            /\ batch' = [batch EXCEPT ![r] = [i \in 1..n |->
                   [order |-> rows[i],
                    hasPayment |-> payment[rows[i]].status # "NONE"]]]
    /\ UNCHANGED <<settlementVars, sagaVars, clockVars, providerVars, answer>>

\* selectUnsettledPayments.
ReconcilerSelect(c) ==
    /\ batch[c] = <<>>
    /\ \E skipped \in SUBSET MaybeLocked(c), n \in 1..BatchSize :
        \E rows \in [1..n -> {charged[i] : i \in 1..graced}] :
            /\ rows = Limit(BatchSize, SelectSeq(SubSeq(charged, 1, graced),
                   LAMBDA o : /\ ~payment[o].settled
                              /\ payment[o].status \in {"PENDING", "UNKNOWN"}
                              /\ o \notin skipped))
            /\ batch' = [batch EXCEPT ![c] = [i \in 1..n |->
                   [order |-> rows[i], hasPayment |-> TRUE]]]
    /\ UNCHANGED <<settlementVars, sagaVars, clockVars, providerVars, answer>>

\* getStatus() of the first row, whose answer is used only later.
AskProvider(j, says) ==
    /\ batch[j] # <<>> /\ batch[j][1].hasPayment /\ answer[j] = "NONE"
    /\ says \in {ProviderSays(batch[j][1].order), "UNKNOWN"}
    /\ answer' = [answer EXCEPT ![j] = says]
    /\ UNCHANGED <<settlementVars, sagaVars, clockVars, providerVars, batch>>

\* The row is dealt with, one way or another; the next one follows.
NextRow(j) ==
    /\ batch' = [batch EXCEPT ![j] = Tail(@)]
    /\ answer' = [answer EXCEPT ![j] = "NONE"]
    /\ UNCHANGED <<sagaVars, clockVars, providerVars>>

\* Mutant: an unknown charge is taken for a captured one.
SettleDefinitiveOptimistic(j) ==
    LET o == batch[j][1].order IN
    /\ batch[j] # <<>>
    /\ \/ /\ answer[j] \in {"CAPTURED", "UNKNOWN"}
          /\ ConfirmCaptured(o, "CAPTURED") \/ AlreadySettled(o)
       \/ /\ answer[j] = "DECLINED"
          /\ FailDeclined(o, "DECLINED") \/ AlreadySettled(o)
    /\ NextRow(j)

\* What both jobs do with a definitive answer.
SettleDefinitive(j) ==
    LET o == batch[j][1].order IN
    /\ batch[j] # <<>>
    /\ \/ /\ answer[j] = "CAPTURED"
          /\ ConfirmCaptured(o, "CAPTURED") \/ AlreadySettled(o)
       \/ /\ answer[j] = "DECLINED"
          /\ FailDeclined(o, "DECLINED") \/ AlreadySettled(o)
    /\ NextRow(j)

\* Mutant: an unknown charge is released with the ones never charged.
ReaperCancelsUnknown(r) ==
    LET o == batch[r][1].order IN
    /\ batch[r] # <<>>
    /\ \/ /\ answer[r] \in {"FAILED", "UNKNOWN"}
          /\ CancelUnpaid(o, "FAILED") \/ AlreadySettled(o)
       \/ /\ answer[r] = "NONE" /\ ~batch[r][1].hasPayment
          /\ CancelUnpaid(o, "NONE") \/ AlreadySettled(o)
    /\ NextRow(r)

\* Only the reaper concludes "never charged": from a 404, or because the
\* order had no payment row when it was selected.
ReaperCancels(r) ==
    LET o == batch[r][1].order IN
    /\ batch[r] # <<>>
    /\ \/ /\ answer[r] = "FAILED"
          /\ CancelUnpaid(o, "FAILED") \/ AlreadySettled(o)
       \/ /\ answer[r] = "NONE" /\ ~batch[r][1].hasPayment
          /\ CancelUnpaid(o, "NONE") \/ AlreadySettled(o)
    /\ NextRow(r)

\* Mutant: reconciliation, too, cancels on a 404.
LeaveOnlyUnknown(j) ==
    /\ batch[j] # <<>>
    /\ \/ answer[j] = "UNKNOWN" /\ UNCHANGED settlementVars
       \/ /\ answer[j] = "FAILED" /\ j \in Reconcilers
          /\ \/ CancelUnpaid(batch[j][1].order, "FAILED")
             \/ AlreadySettled(batch[j][1].order)
    /\ NextRow(j)

\* UNKNOWN, and FAILED for reconciliation, are left for a later run.
LeaveUnresolved(j) ==
    /\ batch[j] # <<>>
    /\ \/ answer[j] = "UNKNOWN"
       \/ answer[j] = "FAILED" /\ j \in Reconcilers
    /\ NextRow(j)
    /\ UNCHANGED settlementVars

\* An error of one row is logged; the transaction was rolled back.
RowFails(j) ==
    /\ Settling(j)
    /\ NextRow(j)
    /\ UNCHANGED settlementVars

\* The worker dies with the rest of its batch.
WorkerCrashes(j) ==
    /\ batch[j] # <<>>
    /\ batch' = [batch EXCEPT ![j] = <<>>]
    /\ answer' = [answer EXCEPT ![j] = "NONE"]
    /\ UNCHANGED <<settlementVars, sagaVars, clockVars, providerVars>>

JobStep(j) ==
    \/ j \in Reapers /\ ReaperSelect(j)
    \/ j \in Reconcilers /\ ReconcilerSelect(j)
    \/ \E says \in StatusAnswers : AskProvider(j, says)
    \/ SettleDefinitive(j)
    \/ j \in Reapers /\ ReaperCancels(j)
    \/ LeaveUnresolved(j)

-----------------------------------------------------------------------------
Next ==
    \/ \E o \in Orders : \/ SagaStep(o) \/ SagaFails(o) \/ Crash(o)
                         \/ ProviderReceives(o) \/ RequestLost(o)
    \/ ReservationExpires \/ GraceEnds
    \/ \E j \in Jobs : JobStep(j) \/ RowFails(j) \/ WorkerCrashes(j)

Spec == Init /\ [][Next]_vars

\* What keeps going: a request that is not killed runs on, time passes, a
\* request does not stay in transit, the cron jobs run.  A provider that is
\* asked again and again about an order answers once, and a settlement that
\* is tried again and again commits once.
Fairness ==
    /\ \A o \in Orders :
        /\ WF_vars(SagaStep(o))
        /\ WF_vars((ProviderReceives(o) \/ RequestLost(o)) /\ o \notin inTransit')
        /\ SF_vars(\E r \in Reapers, says \in StatusAnswers \ {"UNKNOWN"} :
                      batch[r] # <<>> /\ batch[r][1].order = o /\ AskProvider(r, says))
        /\ SF_vars(\E j \in Jobs :
                      /\ Settling(j) /\ batch[j][1].order = o
                      /\ SettleDefinitive(j) \/ (j \in Reapers /\ ReaperCancels(j)))
    /\ WF_vars(ReservationExpires)
    /\ \A j \in Jobs : WF_vars(JobStep(j))

FairSpec == Spec /\ Fairness

-----------------------------------------------------------------------------
(* Properties *)

Rows == [order : Orders, hasPayment : BOOLEAN]

TypeOK ==
    /\ SettlementTypeOK
    /\ pc \in [Orders -> Steps]
    /\ candidates \in [Orders -> Seq(Warehouses)]
    /\ chargeResult \in [Orders -> ChargeOutcomes \cup {"NONE"}]
    /\ response \in [Orders -> [code : {0, 201, 402, 404, 409, 422, 500, 502},
                                order : OrderStatuses \cup {"NONE"}]]
    /\ provider \in [Orders -> {"none", "approved", "declined"}]
    /\ inTransit \subseteq Orders
    /\ placed \in Seq(Orders) /\ expired \in 0..Len(placed)
    /\ charged \in Seq(Orders) /\ graced \in 0..Len(charged)
    /\ batch \in [Jobs -> Seq(Rows)]
    /\ answer \in [Jobs -> StatusAnswers \cup {"NONE"}]

\* Goods are sold only against money: an order is CONFIRMED only if the
\* provider captured its charge, PAYMENT_FAILED only if it declined it, and a
\* payment row says so only then, however stale the answer a job acts on.
SettledByProvider ==
    \A o \in Orders :
        /\ "CONFIRMED" = status[o] \/ payment[o].status = "CAPTURED"
               => provider[o] = "approved"
        /\ "PAYMENT_FAILED" = status[o] \/ payment[o].status = "DECLINED"
               => provider[o] = "declined"

\* "CANCELLED is reserved for 'the provider never saw this charge'": stock is
\* given back as unpaid only if the provider has no record of the charge, and
\* (the invariant holds in every later state too) never gets one.
CancelledNeverCharged ==
    \A o \in Orders : status[o] = "CANCELLED" => provider[o] = "none"

\* What the client was told is what became of the order: 201 a confirmed one,
\* 402 a failed one, and no order row behind 404, 409 and 422.
ResponseIsTrue ==
    \A o \in Orders :
        /\ response[o].code = 201 =>
               status[o] = "CONFIRMED" /\ response[o].order = "CONFIRMED"
        /\ response[o].code = 402 => status[o] = "PAYMENT_FAILED"
        /\ response[o].code \in {404, 409, 422} => status[o] = "NONE"
        /\ response[o].code = 502 => response[o].order = "PENDING_PAYMENT"

\* A settled order leaves no payment row open: it is settled with the outcome
\* the order was settled by, so reconciliation does not pick it up again.
PaymentAgrees ==
    \A o \in Orders :
        LET row(s) == payment[o] = [status |-> s, settled |-> TRUE] IN
        /\ status[o] = "CONFIRMED" => row("CAPTURED")
        /\ status[o] = "PAYMENT_FAILED" => row("DECLINED")
        /\ status[o] = "CANCELLED" => row("FAILED") \/ payment[o].status = "NONE"

\* No reservation is held forever: whichever step the saga crashed or failed
\* at, the order is confirmed, failed or cancelled in the end.
EventuallySettled ==
    \A o \in Orders : status[o] = "PENDING_PAYMENT" ~> status[o] \in Terminal

\* Money taken is goods sold: an order whose charge the provider approved is
\* confirmed in the end, though the saga never heard the answer, answered 502
\* or 500, or died.
ChargedIsConfirmed ==
    \A o \in Orders : provider[o] = "approved" ~> status[o] = "CONFIRMED"
=============================================================================
