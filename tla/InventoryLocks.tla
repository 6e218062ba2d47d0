----------------------------- MODULE InventoryLocks -----------------------------
(***************************************************************************)
(* The transactions behind the operations of Inventory, statement by       *)
(* statement: each locks the row of its order, then the inventory rows of  *)
(* its lines one after another in product order (lockInventoryRows), reads *)
(* each row as it gets it, and writes what it computed from what it read.  *)
(* Its writes are seen by others when it commits, which is when its locks  *)
(* are released.                                                           *)
(*                                                                         *)
(* lock_timeout is set by lockInventoryRows, so it ends a wait for an      *)
(* inventory row, never the wait for the order row before it.              *)
(***************************************************************************)
EXTENDS Inventory

CONSTANTS
    Txs,            \* transactions, each of them run at most once
    ProductRank     \* the place of each product in ORDER BY product_id

ASSUME ProductRankAssumption ==
    /\ ProductRank \in [Products -> Nat]
    /\ \A p, q \in Products : ProductRank[p] = ProductRank[q] => p = q

VARIABLES
    stage,      \* "new", "order", "rows", or "ended"
    op,         \* the operation: RESERVE, RELEASE or COMMIT
    orderOf,    \* its order
    at,         \* its warehouse
    held,       \* the products whose inventory rows it has locked
    seen        \* the balances it read from them

txVars == <<stage, op, orderOf, at, held, seen>>
vars == <<inventoryVars, txVars>>

Balance == [available : Int, reserved : Int]
NoBalance == [available |-> 0, reserved |-> 0]

Init ==
    /\ InventoryInit
    /\ stage = [t \in Txs |-> "new"]
    /\ op \in [Txs -> MovementTypes]
    /\ orderOf \in [Txs -> Orders]
    /\ at \in [Txs -> Warehouses]
    /\ held = [t \in Txs |-> {}]
    /\ seen = [t \in Txs |-> [p \in Products |-> NoBalance]]

-----------------------------------------------------------------------------
(* Locks *)

OwnsOrder(t) == stage[t] = "rows"
ToLock(t) == ProductsOf(orderOf[t]) \ held[t]

\* Mutant: the rows are locked in whatever order they are found.
NextRowUnordered(t, p) == p \in ToLock(t)

\* ORDER BY product_id ... FOR UPDATE
NextRow(t, p) == p \in ToLock(t) /\ \A q \in ToLock(t) : ProductRank[p] <= ProductRank[q]

\* Mutant: the rows are read without FOR UPDATE.
HoldsRowNever(u, w, p) == FALSE

HoldsRow(u, w, p) == at[u] = w /\ p \in held[u]

WaitsForOrder(t, u) == stage[t] = "order" /\ OwnsOrder(u) /\ orderOf[u] = orderOf[t]

WaitsForRow(t, u, p) ==
    stage[t] = "rows" /\ NextRow(t, p) /\ u # t /\ HoldsRow(u, at[t], p)

-----------------------------------------------------------------------------
(* Transactions *)

\* AllocateInventoryUseCase tries one candidate at a time under one order id,
\* so no two reservations of an order run at once; onBeforeReserve inserts
\* the order row, which is then locked.
BeginReserve(t) ==
    /\ stage[t] = "new" /\ op[t] = "RESERVE"
    /\ warehouseOf[orderOf[t]] = NoWarehouse
    /\ \A u \in Txs : ~(OwnsOrder(u) /\ orderOf[u] = orderOf[t])
    /\ stage' = [stage EXCEPT ![t] = "rows"]
    /\ UNCHANGED <<inventoryVars, op, orderOf, at, held, seen>>

\* A settlement of an order that has been placed.
BeginSettle(t) ==
    /\ stage[t] = "new" /\ op[t] # "RESERVE"
    /\ warehouseOf[orderOf[t]] # NoWarehouse
    /\ stage' = [stage EXCEPT ![t] = "order"]
    /\ at' = [at EXCEPT ![t] = warehouseOf[orderOf[t]]]
    /\ UNCHANGED <<inventoryVars, op, orderOf, held, seen>>

\* SELECT id FROM orders WHERE id = $1 FOR UPDATE
LockOrder(t) ==
    /\ stage[t] = "order"
    /\ \A u \in Txs : ~WaitsForOrder(t, u)
    /\ stage' = [stage EXCEPT ![t] = "rows"]
    /\ UNCHANGED <<inventoryVars, op, orderOf, at, held, seen>>

\* The next row of lockInventoryRows, read as it is once it is locked.
LockRow(t, p) ==
    /\ stage[t] = "rows" /\ NextRow(t, p)
    /\ \A u \in Txs : ~WaitsForRow(t, u, p)
    /\ held' = [held EXCEPT ![t] = @ \cup {p}]
    /\ seen' = [seen EXCEPT ![t][p] = [available |-> available[at[t]][p],
                                       reserved |-> reserved[at[t]][p]]]
    /\ UNCHANGED <<inventoryVars, stage, op, orderOf, at>>

End(t) ==
    /\ stage' = [stage EXCEPT ![t] = "ended"]
    /\ held' = [held EXCEPT ![t] = {}]
    /\ UNCHANGED <<op, orderOf, at, seen>>

\* The rollback that follows lock_timeout, an unmet line or a failure.
Rollback(t) ==
    /\ stage[t] \in {"order", "rows"}
    /\ End(t)
    /\ UNCHANGED inventoryVars

Locked(t) == stage[t] = "rows" /\ ToLock(t) = {}

\* Mutant: the stock is not verified again under the row locks.
CommitReserveUnchecked(t) ==
    LET o == orderOf[t]
        P == ProductsOf(o)
    IN  /\ Locked(t) /\ op[t] = "RESERVE"
        /\ Post(o, at[t], "RESERVE",
                [p \in P |-> -Lines[o][p]],
                [p \in P |-> seen[t][p].available - Lines[o][p]],
                [p \in P |-> seen[t][p].reserved + Lines[o][p]])
        /\ warehouseOf' = [warehouseOf EXCEPT ![o] = at[t]]
        /\ End(t)

\* Mutant: the unmet lines are skipped instead of failing the reservation.
CommitReserveWhatIsThere(t) ==
    LET o == orderOf[t]
        P == {p \in ProductsOf(o) : seen[t][p].available >= Lines[o][p]}
    IN  /\ Locked(t) /\ op[t] = "RESERVE"
        /\ Post(o, at[t], "RESERVE",
                [p \in P |-> -Lines[o][p]],
                [p \in P |-> seen[t][p].available - Lines[o][p]],
                [p \in P |-> seen[t][p].reserved + Lines[o][p]])
        /\ warehouseOf' = [warehouseOf EXCEPT ![o] = at[t]]
        /\ End(t)

\* reserve, from the balances that were read.
CommitReserve(t) ==
    LET o == orderOf[t]
        P == ProductsOf(o)
    IN  /\ Locked(t) /\ op[t] = "RESERVE"
        /\ \A p \in P : seen[t][p].available >= Lines[o][p]
        /\ Post(o, at[t], "RESERVE",
                [p \in P |-> -Lines[o][p]],
                [p \in P |-> seen[t][p].available - Lines[o][p]],
                [p \in P |-> seen[t][p].reserved + Lines[o][p]])
        /\ warehouseOf' = [warehouseOf EXCEPT ![o] = at[t]]
        /\ End(t)

\* release or commit of the lines that are open.
CommitSettle(t) ==
    LET o == orderOf[t]
        P == OpenLines(o)
        amount == [p \in P |-> Abs(Latest(o, p).delta)]
        back == [p \in P |-> IF op[t] = "RELEASE" THEN amount[p] ELSE 0]
    IN  /\ Locked(t) /\ op[t] # "RESERVE"
        /\ Post(o, at[t], op[t], back,
                [p \in P |-> seen[t][p].available + back[p]],
                [p \in P |-> seen[t][p].reserved - amount[p]])
        /\ UNCHANGED warehouseOf
        /\ End(t)

Next ==
    \E t \in Txs :
        \/ BeginReserve(t) \/ BeginSettle(t)
        \/ LockOrder(t) \/ \E p \in Products : LockRow(t, p)
        \/ Rollback(t) \/ CommitReserve(t) \/ CommitSettle(t)

Spec == Init /\ [][Next]_vars

-----------------------------------------------------------------------------
(* Properties *)

TypeOK ==
    /\ InventoryTypeOK
    /\ stage \in [Txs -> {"new", "order", "rows", "ended"}]
    /\ op \in [Txs -> MovementTypes]
    /\ orderOf \in [Txs -> Orders]
    /\ at \in [Txs -> Warehouses]
    /\ held \in [Txs -> SUBSET Products]
    /\ seen \in [Txs -> [Products -> Balance]]

\* Whoever keeps others waiting for an inventory row waits himself, if at
\* all, for a row further on in product order, and whoever owns an order row
\* waits for no order row: waiting climbs the ranks of the locks, so nobody
\* can wait, over however many others, for himself.
WaitsClimb ==
    \A t, u \in Txs :
        /\ \A p \in Products : WaitsForRow(t, u, p) =>
              \A v \in Txs : /\ ~WaitsForOrder(u, v)
                             /\ \A q \in Products : WaitsForRow(u, v, q) =>
                                   ProductRank[p] < ProductRank[q]
        /\ WaitsForOrder(t, u) => \A v \in Txs : ~WaitsForOrder(u, v)

\* What a transaction has read is still what the table says: nobody writes a
\* row between another's read of it and its write.
SeenIsCurrent ==
    \A t \in Txs : \A p \in held[t] :
        seen[t][p] = [available |-> available[at[t]][p], reserved |-> reserved[at[t]][p]]
=============================================================================
