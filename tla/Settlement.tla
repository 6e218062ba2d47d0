------------------------------- MODULE Settlement -------------------------------
(***************************************************************************)
(* The tables an order is settled in, and the transactions that write      *)
(* them: the order row and its reservation                                 *)
(* (create-order.use-case.ts, phase 1), the payment row (phase 2) and      *)
(* OrderSettlementService (order-settlement.service.ts), the one           *)
(* settlement path shared by the saga, the reservation reaper and payment  *)
(* reconciliation.  Each transaction is one action; which caller runs it,  *)
(* when and with which result is left open here, so whatever holds of this *)
(* specification holds for any interleaving of any number of callers.      *)
(* Module OrderSaga adds the callers.                                      *)
(***************************************************************************)
EXTENDS Inventory

VARIABLES
    status,         \* orders.status; "NONE" while there is no row
    payment,        \* payments: its status and whether settled_at is set
    outbox          \* jobs sent to each queue for each order's confirmation

settlementVars == <<available, reserved, movements, warehouseOf,
                    status, payment, outbox>>

\* The order state machine.  PAID is passed inside one transaction: it is
\* never the committed status of a row.
ORDER_TRANSITIONS ==
    [PENDING_PAYMENT |-> {"PAID", "PAYMENT_FAILED", "CANCELLED"},
     PAID            |-> {"CONFIRMED"},
     CONFIRMED       |-> {},
     PAYMENT_FAILED  |-> {},
     CANCELLED       |-> {}]

OrderStatuses == DOMAIN ORDER_TRANSITIONS
CanTransition(from, to) == to \in ORDER_TRANSITIONS[from]
Terminal == {"CONFIRMED", "PAYMENT_FAILED", "CANCELLED"}

\* The queues order.confirmed is routed to.
EVENT_ROUTING == {"shipment.create", "customer.notify", "analytics.record"}

\* What charge() can report, and what getStatus() can: FAILED is its answer to
\* a 404.  "NONE" stands for no payment row, and for a settlement that is
\* given no payment resolution.
ChargeOutcomes == {"CAPTURED", "DECLINED", "UNKNOWN"}
StatusAnswers == ChargeOutcomes \cup {"FAILED"}
IsDefinitiveOutcome(result) == result \in {"CAPTURED", "DECLINED"}

SettlementInit ==
    /\ InventoryInit
    /\ status = [o \in Orders |-> "NONE"]
    /\ payment = [o \in Orders |-> [status |-> "NONE", settled |-> FALSE]]
    /\ outbox = [q \in EVENT_ROUTING |-> [o \in Orders |-> 0]]

-----------------------------------------------------------------------------
(* Phases 1 and 2 of the saga *)

\* One attempt of AllocateInventoryUseCase: onBeforeReserve inserts the order
\* and its items, then reserve runs, in one transaction.
PlaceOrder(o, w) ==
    /\ status[o] = "NONE"
    /\ Reserve(o, w)
    /\ status' = [status EXCEPT ![o] = "PENDING_PAYMENT"]
    /\ UNCHANGED <<payment, outbox>>

\* The payment row, with its idempotency key, is saved before the charge.
InsertPayment(o) ==
    /\ status[o] # "NONE" /\ payment[o].status = "NONE"
    /\ payment' = [payment EXCEPT ![o] = [status |-> "PENDING", settled |-> FALSE]]
    /\ UNCHANGED <<inventoryVars, status, outbox>>

\* The outcome of the charge overwrites the row: the save is by primary key
\* and does not look at what the row holds by now.
SavePayment(o, result) ==
    /\ payment[o].status # "NONE"
    /\ payment' = [payment EXCEPT ![o] =
           [status |-> result, settled |-> IsDefinitiveOutcome(result)]]
    /\ UNCHANGED <<inventoryVars, status, outbox>>

-----------------------------------------------------------------------------
(* OrderSettlementService.  The order row is locked and re-read first, so    *)
(* the guard on the status and the writes are one step.                      *)

\* Mutant: an UNKNOWN payment is not resolved.
ResolvePendingOnly(o, resolution) ==
    payment' = IF resolution # "NONE" /\ payment[o].status = "PENDING"
               THEN [payment EXCEPT ![o] = [status |-> resolution, settled |-> TRUE]]
               ELSE payment

\* UPDATE payments ... WHERE status IN ('PENDING', 'UNKNOWN'), for a caller
\* that passes a resolution.
ResolvePayment(o, resolution) ==
    payment' = IF resolution # "NONE" /\ payment[o].status \in {"PENDING", "UNKNOWN"}
               THEN [payment EXCEPT ![o] = [status |-> resolution, settled |-> TRUE]]
               ELSE payment

\* publish sends one job per routed queue through the caller's transaction.
Publish(o) ==
    outbox' = [q \in EVENT_ROUTING |-> [outbox[q] EXCEPT ![o] = @ + 1]]

\* Mutant: the status is not checked again under the row lock.
ConfirmUnguarded(o, resolution) ==
    /\ status[o] # "NONE"
    /\ outbox["shipment.create"][o] < 2
    /\ ResolvePayment(o, resolution)
    /\ Commit(o)
    /\ status' = [status EXCEPT ![o] = "CONFIRMED"]
    /\ Publish(o)

ConfirmCaptured(o, resolution) ==
    /\ status[o] = "PENDING_PAYMENT"
    /\ ResolvePayment(o, resolution)
    /\ Commit(o)
    /\ CanTransition(status[o], "PAID") /\ CanTransition("PAID", "CONFIRMED")
    /\ status' = [status EXCEPT ![o] = "CONFIRMED"]
    /\ Publish(o)

\* Mutant: a declined order keeps its reservation.
FailDeclinedNoRelease(o, resolution) ==
    /\ status[o] = "PENDING_PAYMENT"
    /\ ResolvePayment(o, resolution)
    /\ CanTransition(status[o], "PAYMENT_FAILED")
    /\ status' = [status EXCEPT ![o] = "PAYMENT_FAILED"]
    /\ UNCHANGED <<inventoryVars, outbox>>

\* Mutant: a declined order becomes CANCELLED.
FailDeclinedCancels(o, resolution) ==
    /\ status[o] = "PENDING_PAYMENT"
    /\ ResolvePayment(o, resolution)
    /\ Release(o)
    /\ status' = [status EXCEPT ![o] = "CANCELLED"]
    /\ UNCHANGED outbox

FailDeclined(o, resolution) ==
    /\ status[o] = "PENDING_PAYMENT"
    /\ ResolvePayment(o, resolution)
    /\ Release(o)
    /\ CanTransition(status[o], "PAYMENT_FAILED")
    /\ status' = [status EXCEPT ![o] = "PAYMENT_FAILED"]
    /\ UNCHANGED outbox

CancelUnpaid(o, resolution) ==
    /\ status[o] = "PENDING_PAYMENT"
    /\ ResolvePayment(o, resolution)
    /\ Release(o)
    /\ CanTransition(status[o], "CANCELLED")
    /\ status' = [status EXCEPT ![o] = "CANCELLED"]
    /\ UNCHANGED outbox

\* ALREADY_SETTLED: the order moved on, and nothing is written, not even the
\* payment resolution.
AlreadySettled(o) ==
    /\ status[o] \notin {"NONE", "PENDING_PAYMENT"}
    /\ UNCHANGED settlementVars

SettlementNext ==
    \E o \in Orders :
        \/ \E w \in Warehouses : PlaceOrder(o, w)
        \/ InsertPayment(o)
        \/ \E result \in ChargeOutcomes : SavePayment(o, result)
        \/ \E resolution \in {"CAPTURED", "NONE"} : ConfirmCaptured(o, resolution)
        \/ \E resolution \in {"DECLINED", "NONE"} : FailDeclined(o, resolution)
        \/ \E resolution \in {"FAILED", "NONE"} : CancelUnpaid(o, resolution)
        \/ AlreadySettled(o)

\* What the saga and the jobs implement: they change an order, its payment,
\* its stock and its events only by whole transactions of this module, at any
\* time, in any order, however long a caller was paused before it.
SettlementSpec == SettlementInit /\ [][SettlementNext]_settlementVars

-----------------------------------------------------------------------------
(* Properties *)

SettlementTypeOK ==
    /\ InventoryTypeOK
    /\ status \in [Orders -> OrderStatuses \cup {"NONE"}]
    /\ payment \in [Orders -> [status : StatusAnswers \cup {"NONE", "PENDING"},
                               settled : BOOLEAN]]
    /\ outbox \in [EVENT_ROUTING -> [Orders -> Nat]]

\* The movement that the last movement of every line of an order must be.
MovementOf ==
    [PENDING_PAYMENT |-> "RESERVE", CONFIRMED |-> "COMMIT",
     PAYMENT_FAILED |-> "RELEASE", CANCELLED |-> "RELEASE"]

\* The status of an order and the ledger tell the same story: an order that
\* waits for its payment holds all its stock, a confirmed one has sold it and
\* a failed or cancelled one has given it back, whoever settled it and
\* however many settlers raced; without an order row there is no movement.
StatusMatchesLedger ==
    \A o \in Orders :
        IF status[o] = "NONE"
        THEN warehouseOf[o] = NoWarehouse /\ \A p \in Products : MovesOf(o, p) = {}
        ELSE /\ status[o] # "PAID"
             /\ warehouseOf[o] # NoWarehouse
             /\ \A p \in ProductsOf(o) :
                    Latest(o, p).type = MovementOf[status[o]]

\* order.confirmed is published exactly once for a confirmed order and never
\* for another one: the outbox rows commit with the status, so a race or a
\* repeated settlement neither loses nor duplicates the event.
PublishedOnce ==
    \A q \in EVENT_ROUTING, o \in Orders :
        outbox[q][o] = IF status[o] = "CONFIRMED" THEN 1 ELSE 0

\* A settled order stays as it was settled: a late settlement that disagrees
\* changes neither its status nor its stock, and announces nothing.
SettledIsFinal ==
    [][\A o \in Orders : status[o] \in Terminal =>
           /\ status'[o] = status[o]
           /\ \A p \in Products : MovesOf(o, p)' = MovesOf(o, p)
           /\ \A q \in EVENT_ROUTING : outbox'[q][o] = outbox[q][o]
      ]_settlementVars
=============================================================================
