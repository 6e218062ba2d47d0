------------------------------ MODULE ReaperBatch ------------------------------
(***************************************************************************)
(* ReservationReaperHandler as the one who must get to every overdue order *)
(* with bounded runs: each run selects at most BatchSize rows, the oldest  *)
(* first, skipping locked ones, and resolves them one after another.  A    *)
(* row the provider knows nothing final about is left for the next run.    *)
(* What a settlement does to an order is the business of Settlement and    *)
(* OrderSaga; here it only ends it.                                        *)
(*                                                                         *)
(* The workers stand for all that settle orders: several worker processes  *)
(* may each run the job, and the row locks they take skip each other.      *)
(***************************************************************************)
EXTENDS Integers, Sequences, FiniteSets, SequencesExt

CONSTANTS
    Orders,         \* numbered by the minute their reservation expires
    StuckSets,      \* which orders may be stuck together
    Workers,
    BatchSize,      \* REAPER_BATCH_SIZE
    AlertAfter,     \* REAPER_ALERT_AFTER_MINUTES
    MaxTime,        \* bound on the clock, in minutes
    MaxCrashes,     \* bound on worker crashes
    None

ASSUME OrdersAssumption == Orders \subseteq Nat /\ StuckSets \subseteq SUBSET Orders
ASSUME BatchSizeAssumption == BatchSize \in Nat \ {0}

VARIABLES
    stuck,      \* orders the provider never says anything final about, for good
    now,
    open,       \* the orders still PENDING_PAYMENT
    lock,       \* who holds the lock of each order row, or None
    batch,      \* the rows each worker has yet to resolve
    stage,      \* where it is with the first of them: "ask", "settle" or "locked"
    alerted,    \* the orders reported with an error log
    crashes

vars == <<stuck, now, open, lock, batch, stage, alerted, crashes>>

Init ==
    /\ stuck \in StuckSets
    /\ now = 0
    /\ open = Orders
    /\ lock = [o \in Orders |-> None]
    /\ batch = [w \in Workers |-> <<>>]
    /\ stage = [w \in Workers |-> "ask"]
    /\ alerted = {}
    /\ crashes = 0

Overdue == {o \in open : o < now}

Tick ==
    /\ now < MaxTime
    /\ now' = now + 1
    /\ UNCHANGED <<stuck, open, lock, batch, stage, alerted, crashes>>

\* The rows of one run: the oldest that nobody holds.
selectExpiredReservations ==
    LET rows == SetToSortSeq({o \in Overdue : lock[o] = None}, <)
    IN  SubSeq(rows, 1, IF Len(rows) < BatchSize THEN Len(rows) ELSE BatchSize)

\* The job of each minute; the locks of the selection end with it.
Select(w) ==
    /\ batch[w] = <<>> /\ selectExpiredReservations # <<>>
    /\ batch' = [batch EXCEPT ![w] = selectExpiredReservations]
    /\ UNCHANGED <<stuck, now, open, lock, stage, alerted, crashes>>

At(w, o, s) == batch[w] # <<>> /\ Head(batch[w]) = o /\ stage[w] = s

\* Mutant: what happens to one row ends the run.
AbortBatch(w) ==
    /\ batch' = [batch EXCEPT ![w] = <<>>]
    /\ stage' = [stage EXCEPT ![w] = "ask"]

\* On to the next row of the loop.
NextRow(w) ==
    /\ batch' = [batch EXCEPT ![w] = Tail(@)]
    /\ stage' = [stage EXCEPT ![w] = "ask"]

\* No payment to ask about, or an answer that is CAPTURED, DECLINED or FAILED.
Answered(w, o) ==
    /\ At(w, o, "ask") /\ o \notin stuck
    /\ stage' = [stage EXCEPT ![w] = "settle"]
    /\ UNCHANGED <<stuck, now, open, lock, batch, alerted, crashes>>

\* Mutant: reported in the minute it becomes due, and in no other.
AlertDueOnce(o) == now - o = AlertAfter

AlertDue(o) == now - o >= AlertAfter

\* UNKNOWN: warnUnresolved, and the order is left as it is.
Unresolved(w, o) ==
    /\ At(w, o, "ask")
    /\ alerted' = IF AlertDue(o) THEN alerted \cup {o} ELSE alerted
    /\ NextRow(w)
    /\ UNCHANGED <<stuck, now, open, lock, crashes>>

\* OrderSettlementService locks the order row ...
LockOrder(w, o) ==
    /\ At(w, o, "settle") /\ lock[o] = None
    /\ lock' = [lock EXCEPT ![o] = w]
    /\ stage' = [stage EXCEPT ![w] = "locked"]
    /\ UNCHANGED <<stuck, now, open, batch, alerted, crashes>>

\* ... and settles the order, or finds it settled, and commits.
Settle(w, o) ==
    /\ At(w, o, "locked")
    /\ open' = open \ {o}
    /\ lock' = [lock EXCEPT ![o] = None]
    /\ NextRow(w)
    /\ UNCHANGED <<stuck, now, alerted, crashes>>

Unlocked(w) == [o \in Orders |-> IF lock[o] = w THEN None ELSE lock[o]]

\* A query or a call throws: its transaction is rolled back, the failure is
\* logged, the loop goes on.
RowFails(w) ==
    /\ batch[w] # <<>>
    /\ lock' = Unlocked(w)
    /\ NextRow(w)
    /\ UNCHANGED <<stuck, now, open, alerted, crashes>>

Crash(w) ==
    /\ crashes < MaxCrashes /\ batch[w] # <<>>
    /\ crashes' = crashes + 1
    /\ lock' = Unlocked(w)
    /\ batch' = [batch EXCEPT ![w] = <<>>]
    /\ stage' = [stage EXCEPT ![w] = "ask"]
    /\ UNCHANGED <<stuck, now, open, alerted>>

Next ==
    \/ Tick
    \/ \E w \in Workers :
          \/ Select(w) \/ RowFails(w) \/ Crash(w)
          \/ \E o \in Orders : \/ Answered(w, o) \/ Unresolved(w, o)
                               \/ LockOrder(w, o) \/ Settle(w, o)

\* The job is scheduled every minute and its loop goes on.  The provider and
\* the database may fail any call, but not every call about an order: an
\* order that is asked about for ever is answered about at last (by UNKNOWN if
\* it is stuck), and likewise its settlement.
Fairness ==
    /\ WF_vars(Tick)
    /\ \A w \in Workers :
          WF_vars(Select(w)) /\ WF_vars(batch[w] # <<>> /\ Next /\ batch'[w] # batch[w])
    /\ \A o \in Orders :
          /\ SF_vars(\E w \in Workers : Answered(w, o))
          /\ SF_vars(\E w \in Workers : LockOrder(w, o))
          /\ SF_vars(\E w \in Workers : Settle(w, o))
          /\ SF_vars(\E w \in Workers : o \in stuck /\ Unresolved(w, o))

Spec == Init /\ [][Next]_vars /\ Fairness

-----------------------------------------------------------------------------
(* Properties *)

\* An order is in reach while the stuck orders older than it leave a place in
\* the batch.  Behind a batch full of them every run selects the same rows and
\* the order waits until a human has dealt with one.
InReach(o) == Cardinality({s \in stuck : s < o}) < BatchSize

\* The time comes when no order in reach is left overdue, whatever is locked
\* or failing ahead of it and in whichever minutes the workers run.
\* knowledge/messaging-jobs.md: "Resolves every PENDING_PAYMENT order whose
\* reservation_expires_at has passed ... in batches"; an order that stays
\* UNKNOWN is the exception it names, one behind a batch of those is not.
EveryExpiredIsResolved == <>[](\A o \in Overdue \ stuck : ~InReach(o))

\* An order that stays UNKNOWN is reported to a human in the end, one that
\* stands behind other such orders too, as long as it is in reach.
StuckIsAlerted == <>[](\A o \in stuck : InReach(o) => o \in alerted)
=============================================================================
