----------------------- MODULE InventoryRefinementProofs -----------------------
(***************************************************************************)
(* Theorems about the two modules that implement Inventory, for any number *)
(* of transactions, seeders, warehouses, products and orders.              *)
(*                                                                         *)
(* InventoryLocks: the transactions implement the atomic operations, and   *)
(* waiting for locks never closes a circle.  Seeding: however often the    *)
(* script runs, dies and runs beside the services, the ledger does not     *)
(* notice it, and no order is turned away for want of a row it has yet to  *)
(* insert.                                                                 *)
(***************************************************************************)
EXTENDS InventoryLocks, Seeding, InventoryProofs

(***************************************************************************)
(* The inductive invariant.  That what was read is current needs the locks *)
(* to be exclusive; that waiting climbs needs the rows held to come before *)
(* the rows to lock; that a commit is a step of Inventory needs to know    *)
(* where the order of a transaction is.                                    *)
(***************************************************************************)

\* Two transactions never hold the same row.
LocksExclusive ==
    \A t, u \in Txs : t # u =>
        /\ ~(OwnsOrder(t) /\ OwnsOrder(u) /\ orderOf[t] = orderOf[u])
        /\ at[t] = at[u] => held[t] \cap held[u] = {}

\* Only the lines of the order are locked, only while the transaction is at
\* it, and in product order.
HeldInOrder ==
    \A t \in Txs :
        /\ stage[t] # "rows" => held[t] = {}
        /\ \A p \in held[t], q \in ToLock(t) : ProductRank[p] < ProductRank[q]

\* A reservation at work has an order that is nowhere yet; a settlement has
\* one that is at the transaction's warehouse.
OrderIsThere ==
    \A t \in Txs :
        /\ stage[t] = "order" => op[t] # "RESERVE"
        /\ stage[t] = "rows" /\ op[t] = "RESERVE" => warehouseOf[orderOf[t]] = NoWarehouse
        /\ stage[t] \in {"order", "rows"} /\ op[t] # "RESERVE" => warehouseOf[orderOf[t]] = at[t]

TxTypeOK ==
    /\ stage \in [Txs -> {"new", "order", "rows", "ended"}]
    /\ op \in [Txs -> MovementTypes]
    /\ orderOf \in [Txs -> Orders]
    /\ at \in [Txs -> Warehouses]
    /\ held \in [Txs -> SUBSET Products]
    /\ seen \in [Txs -> [Products -> Balance]]

LocksInv ==
    /\ InventoryInv
    /\ TxTypeOK
    /\ LocksExclusive
    /\ HeldInOrder
    /\ SeenIsCurrent
    /\ OrderIsThere

\* It holds before any transaction has begun.
LEMMA LocksInitInv == Init => LocksInv
<1> SUFFICES ASSUME Init PROVE LocksInv
  OBVIOUS
<1>1. InventoryInv
  BY InventoryInitInv DEF Init
<1>2. TxTypeOK
  BY DEF Init, TxTypeOK, Balance, NoBalance
<1>3. LocksExclusive /\ HeldInOrder /\ SeenIsCurrent /\ OrderIsThere
  BY DEF Init, LocksExclusive, HeldInOrder, SeenIsCurrent, OrderIsThere, OwnsOrder
<1> QED
  BY <1>1, <1>2, <1>3 DEF LocksInv

(***************************************************************************)
(* Commits are steps of Inventory                                          *)
(***************************************************************************)

\* A transaction that has locked all its rows holds all lines of its order.
LEMMA LockedHoldsAll ==
    ASSUME NEW t \in Txs, Locked(t)
    PROVE  stage[t] = "rows" /\ ProductsOf(orderOf[t]) \subseteq held[t]
BY DEF Locked, ToLock

\* What a transaction that holds a row has read of it.
LEMMA SeenRow ==
    ASSUME SeenIsCurrent, NEW t \in Txs, NEW p \in held[t]
    PROVE  /\ seen[t][p].available = available[at[t]][p]
           /\ seen[t][p].reserved = reserved[at[t]][p]
<1>1. seen[t][p] = [available |-> available[at[t]][p], reserved |-> reserved[at[t]][p]]
  BY DEF SeenIsCurrent
<1> QED
  BY <1>1

\* A transaction's reservation is the atomic Reserve.
LEMMA CommitReserveRefines ==
    ASSUME LocksInv, NEW t \in Txs, CommitReserve(t)
    PROVE  Reserve(orderOf[t], at[t]) /\ orderOf[t] \in Orders /\ at[t] \in Warehouses
<1> DEFINE o == orderOf[t]
           w == at[t]
           P == ProductsOf(o)
<1>1. o \in Orders /\ w \in Warehouses
  BY DEF LocksInv, TxTypeOK
<1>2. stage[t] = "rows" /\ P \subseteq held[t] /\ op[t] = "RESERVE"
  BY LockedHoldsAll DEF CommitReserve
<1>3. warehouseOf[o] = NoWarehouse
  BY <1>2 DEF LocksInv, OrderIsThere
<1>4. \A p \in P : /\ seen[t][p].available = available[w][p]
                   /\ seen[t][p].reserved = reserved[w][p]
  BY <1>2, SeenRow DEF LocksInv
<1>5. Unmet(o, w) = {}
  <2>1. \A p \in P : available[w][p] >= Lines[o][p]
    BY <1>4 DEF CommitReserve
  <2>2. \A p \in P : available[w][p] \in Int /\ Lines[o][p] \in Int
    BY <1>1, LinesAssumption DEF LocksInv, InventoryInv, InventoryTypeOK, ProductsOf
  <2> QED
    BY <2>1, <2>2 DEF Unmet
<1>6. /\ [p \in P |-> seen[t][p].available - Lines[o][p]]
           = [p \in P |-> available[w][p] - Lines[o][p]]
      /\ [p \in P |-> seen[t][p].reserved + Lines[o][p]]
           = [p \in P |-> reserved[w][p] + Lines[o][p]]
  BY <1>4
<1>7. /\ Post(o, w, "RESERVE", [p \in P |-> -Lines[o][p]],
              [p \in P |-> seen[t][p].available - Lines[o][p]],
              [p \in P |-> seen[t][p].reserved + Lines[o][p]])
      /\ warehouseOf' = [warehouseOf EXCEPT ![o] = w]
  BY DEF CommitReserve
<1> QED
  BY <1>1, <1>3, <1>5, <1>6, <1>7, Zenon DEF Reserve

\* A transaction's release or commit is the atomic one.
LEMMA CommitSettleRefines ==
    ASSUME LocksInv, NEW t \in Txs, CommitSettle(t)
    PROVE  (Release(orderOf[t]) \/ Commit(orderOf[t])) /\ orderOf[t] \in Orders
<1> DEFINE o == orderOf[t]
           w == warehouseOf[o]
           P == OpenLines(o)
           amount == [p \in P |-> Abs(Latest(o, p).delta)]
           back == [p \in P |-> IF op[t] = "RELEASE" THEN amount[p] ELSE 0]
<1>1. o \in Orders /\ at[t] \in Warehouses /\ op[t] \in {"RELEASE", "COMMIT"}
  BY DEF LocksInv, TxTypeOK, MovementTypes, CommitSettle
<1>2. stage[t] = "rows" /\ P \subseteq held[t] /\ P \subseteq Products
  BY LockedHoldsAll DEF CommitSettle, OpenLines, ProductsOf
<1>3. at[t] = w /\ w # NoWarehouse
  BY <1>1, <1>2, NoWarehouseAssumption DEF LocksInv, OrderIsThere
<1>4. \A p \in P : /\ seen[t][p].available = available[w][p]
                   /\ seen[t][p].reserved = reserved[w][p]
                   /\ available[w][p] \in Int
  <2>1. \A p \in P : available[w][p] \in Int
    BY <1>1, <1>2, <1>3 DEF LocksInv, InventoryInv, InventoryTypeOK
  <2>2. \A p \in P : /\ seen[t][p].available = available[w][p]
                     /\ seen[t][p].reserved = reserved[w][p]
    BY <1>2, <1>3, SeenRow DEF LocksInv
  <2> QED
    BY <2>1, <2>2
<1>5. /\ Post(o, w, op[t], back,
              [p \in P |-> seen[t][p].available + back[p]],
              [p \in P |-> seen[t][p].reserved - amount[p]])
      /\ UNCHANGED warehouseOf
  BY <1>3 DEF CommitSettle
<1>6. [p \in P |-> seen[t][p].reserved - amount[p]] = [p \in P |-> reserved[w][p] - amount[p]]
  BY <1>4
<1>7. CASE op[t] = "RELEASE"
  <2>1. back = amount
    BY <1>7
  <2>2. [p \in P |-> seen[t][p].available + back[p]] = [p \in P |-> available[w][p] + amount[p]]
    BY <1>4, <2>1
  <2> QED
    BY <1>1, <1>3, <1>5, <1>6, <1>7, <2>1, <2>2, Zenon DEF Release
<1>8. CASE op[t] = "COMMIT"
  <2>1. back = [p \in P |-> 0]
    BY <1>8
  <2>2. [p \in P |-> seen[t][p].available + back[p]] = [p \in P |-> available[w][p]]
    <3>1. \A p \in P : seen[t][p].available + back[p] = available[w][p]
      BY <1>4, <2>1
    <3> QED
      BY <3>1
  <2> QED
    BY <1>1, <1>3, <1>5, <1>6, <1>8, <2>1, <2>2, Zenon DEF Commit
<1> QED
  BY <1>1, <1>7, <1>8

\* Every step of a transaction is a step of Inventory or leaves it alone.
LEMMA NextRefines ==
    ASSUME LocksInv, [Next]_vars
    PROVE  [InventoryNext]_inventoryVars
<1>1. CASE UNCHANGED vars
  BY <1>1 DEF vars
<1>2. ASSUME NEW t \in Txs, CommitReserve(t) PROVE InventoryNext
  BY <1>2, CommitReserveRefines, Zenon DEF InventoryNext
<1>3. ASSUME NEW t \in Txs, CommitSettle(t) PROVE InventoryNext
  BY <1>3, CommitSettleRefines, Zenon DEF InventoryNext
<1>4. ASSUME NEW t \in Txs,
             \/ BeginReserve(t) \/ BeginSettle(t) \/ LockOrder(t) \/ Rollback(t)
             \/ \E p \in Products : LockRow(t, p)
      PROVE  UNCHANGED inventoryVars
  BY <1>4 DEF BeginReserve, BeginSettle, LockOrder, LockRow, Rollback
<1> QED
  BY <1>1, <1>2, <1>3, <1>4 DEF Next

(***************************************************************************)
(* The invariant is inductive                                              *)
(***************************************************************************)

\* The transactions' own variables keep their types.
LEMMA TxTypeStep ==
    ASSUME LocksInv, [Next]_vars
    PROVE  TxTypeOK'
<1>1. TxTypeOK /\ InventoryTypeOK
  BY DEF LocksInv, InventoryInv
<1>2. CASE UNCHANGED vars
  BY <1>1, <1>2 DEF vars, txVars, TxTypeOK
<1>3. ASSUME NEW t \in Txs, End(t) PROVE TxTypeOK'
  BY <1>1, <1>3 DEF End, TxTypeOK
<1>4. ASSUME NEW t \in Txs, BeginReserve(t) \/ LockOrder(t) PROVE TxTypeOK'
  BY <1>1, <1>4 DEF BeginReserve, LockOrder, TxTypeOK
<1>5. ASSUME NEW t \in Txs, BeginSettle(t) PROVE TxTypeOK'
  <2>1. warehouseOf[orderOf[t]] \in Warehouses
    BY <1>1, <1>5 DEF BeginSettle, TxTypeOK, InventoryTypeOK
  <2> QED
    BY <1>1, <1>5, <2>1 DEF BeginSettle, TxTypeOK
<1>6. ASSUME NEW t \in Txs, NEW p \in Products, LockRow(t, p) PROVE TxTypeOK'
  <2> DEFINE b == [available |-> available[at[t]][p], reserved |-> reserved[at[t]][p]]
  <2>1. b \in Balance
    BY <1>1 DEF TxTypeOK, InventoryTypeOK, Balance
  <2>2. seen' = [seen EXCEPT ![t] = [seen[t] EXCEPT ![p] = b]]
    BY <1>6 DEF LockRow
  <2> HIDE DEF b
  <2>3. seen' \in [Txs -> [Products -> Balance]]
    BY <1>1, <2>1, <2>2 DEF TxTypeOK
  <2>4. held' \in [Txs -> SUBSET Products]
    BY <1>1, <1>6 DEF LockRow, TxTypeOK
  <2> QED
    BY <1>1, <1>6, <2>3, <2>4 DEF LockRow, TxTypeOK
<1> QED
  BY <1>2, <1>3, <1>4, <1>5, <1>6 DEF Next, Rollback, CommitReserve, CommitSettle

\* A transaction that begins, or gets the row of its order.
LEMMA EnterStep ==
    ASSUME LocksInv, TxTypeOK', NEW t \in Txs,
           BeginReserve(t) \/ BeginSettle(t) \/ LockOrder(t)
    PROVE  LocksExclusive' /\ HeldInOrder' /\ SeenIsCurrent' /\ OrderIsThere'
<1>1. /\ UNCHANGED <<available, reserved, warehouseOf, op, orderOf, held, seen>>
      /\ held[t] = {}
      /\ \A u \in Txs \ {t} : stage'[u] = stage[u] /\ at'[u] = at[u]
      /\ stage'[t] \in {"order", "rows"}
  BY DEF BeginReserve, BeginSettle, LockOrder, LocksInv, HeldInOrder, TxTypeOK, inventoryVars
<1>2. LocksExclusive'
  <2>1. ASSUME stage'[t] = "rows", NEW u \in Txs, u # t
        PROVE  ~(stage[u] = "rows" /\ orderOf[u] = orderOf[t])
    BY <2>1 DEF BeginReserve, BeginSettle, LockOrder, OwnsOrder, WaitsForOrder, LocksInv, TxTypeOK
  <2> QED
    BY <1>1, <2>1 DEF LocksInv, LocksExclusive, OwnsOrder
<1>3. HeldInOrder'
  BY <1>1 DEF LocksInv, HeldInOrder, ToLock
<1>4. SeenIsCurrent'
  BY <1>1 DEF LocksInv, SeenIsCurrent
<1>5. OrderIsThere'
  <2>1. CASE BeginReserve(t)
    BY <1>1, <2>1 DEF BeginReserve, LocksInv, OrderIsThere, TxTypeOK
  <2>2. CASE BeginSettle(t)
    BY <1>1, <2>2 DEF BeginSettle, LocksInv, OrderIsThere, TxTypeOK
  <2>3. CASE LockOrder(t)
    BY <1>1, <2>3 DEF LockOrder, LocksInv, OrderIsThere, TxTypeOK
  <2> QED
    BY <2>1, <2>2, <2>3
<1> QED
  BY <1>2, <1>3, <1>4, <1>5

\* A transaction that locks and reads its next row.
LEMMA LockRowStep ==
    ASSUME LocksInv, TxTypeOK', NEW t \in Txs, NEW p \in Products, LockRow(t, p)
    PROVE  LocksExclusive' /\ HeldInOrder' /\ SeenIsCurrent' /\ OrderIsThere'
<1>1. /\ UNCHANGED <<available, reserved, warehouseOf, stage, op, orderOf, at>>
      /\ stage[t] = "rows" /\ NextRow(t, p)
      /\ held'[t] = held[t] \cup {p}
      /\ \A u \in Txs \ {t} : held'[u] = held[u] /\ seen'[u] = seen[u]
      /\ seen'[t][p] = [available |-> available[at[t]][p], reserved |-> reserved[at[t]][p]]
      /\ \A q \in Products \ {p} : seen'[t][q] = seen[t][q]
  BY DEF LockRow, LocksInv, TxTypeOK, inventoryVars
<1>2. \A u \in Txs \ {t} : at[u] = at[t] => p \notin held[u]
  BY <1>1 DEF LockRow, WaitsForRow, HoldsRow
<1>3. LocksExclusive'
  BY <1>1, <1>2 DEF LocksInv, LocksExclusive, OwnsOrder
<1>4. HeldInOrder'
  <2>1. \A q \in ToLock(t)' : q \in ToLock(t) /\ q # p /\ q \in Products
    BY <1>1 DEF ToLock, ProductsOf
  <2>2. \A q \in ToLock(t)' : ProductRank[p] < ProductRank[q]
    BY <1>1, <2>1, ProductRankAssumption DEF NextRow
  <2>3. \A r \in held'[t], q \in ToLock(t)' : ProductRank[r] < ProductRank[q]
    BY <1>1, <2>1, <2>2 DEF LocksInv, HeldInOrder
  <2>4. \A u \in Txs \ {t} : ToLock(u)' = ToLock(u)
    BY <1>1 DEF ToLock
  <2> QED
    BY <1>1, <2>3, <2>4 DEF LocksInv, HeldInOrder
<1>5. SeenIsCurrent'
  <2>1. \A u \in Txs : held[u] \subseteq Products
    BY DEF LocksInv, TxTypeOK
  <2>2. ASSUME NEW u \in Txs, NEW q \in held'[u]
        PROVE  seen'[u][q] = [available |-> available[at[u]][q], reserved |-> reserved[at[u]][q]]
    BY <1>1, <2>1, <2>2 DEF LocksInv, SeenIsCurrent
  <2> QED
    BY <1>1, <2>2 DEF SeenIsCurrent
<1>6. OrderIsThere'
  BY <1>1 DEF LocksInv, OrderIsThere
<1> QED
  BY <1>3, <1>4, <1>5, <1>6

\* A transaction that ends, having written at most the rows it holds, and the
\* warehouse of an order it owns.
LEMMA EndsStep ==
    ASSUME LocksInv, TxTypeOK', NEW t \in Txs, End(t),
           \A w \in Warehouses, p \in Products : ~(w = at[t] /\ p \in held[t]) =>
               available'[w][p] = available[w][p] /\ reserved'[w][p] = reserved[w][p],
           \/ UNCHANGED warehouseOf
           \/ /\ OwnsOrder(t) /\ op[t] = "RESERVE"
              /\ warehouseOf' = [warehouseOf EXCEPT ![orderOf[t]] = at[t]]
    PROVE  LocksExclusive' /\ HeldInOrder' /\ SeenIsCurrent' /\ OrderIsThere'
<1>1. /\ UNCHANGED <<op, orderOf, at, seen>>
      /\ held'[t] = {} /\ stage'[t] = "ended"
      /\ \A u \in Txs \ {t} : held'[u] = held[u] /\ stage'[u] = stage[u]
  BY DEF End, LocksInv, TxTypeOK
<1>2. LocksExclusive'
  BY <1>1 DEF LocksInv, LocksExclusive, OwnsOrder
<1>3. HeldInOrder'
  BY <1>1 DEF LocksInv, HeldInOrder, ToLock
<1>4. SeenIsCurrent'
  <2>1. ASSUME NEW u \in Txs \ {t}, NEW p \in held[u]
        PROVE  /\ available'[at[u]][p] = available[at[u]][p]
               /\ reserved'[at[u]][p] = reserved[at[u]][p]
    <3>1. at[u] \in Warehouses /\ p \in Products
      BY <2>1 DEF LocksInv, TxTypeOK
    <3>2. ~(at[u] = at[t] /\ p \in held[t])
      BY <2>1 DEF LocksInv, LocksExclusive
    <3> QED
      BY <3>1, <3>2
  <2>2. ASSUME NEW u \in Txs, NEW p \in held'[u]
        PROVE  seen'[u][p] = [available |-> available'[at[u]][p], reserved |-> reserved'[at[u]][p]]
    <3>1. u # t /\ p \in held[u] /\ seen'[u] = seen[u]
      BY <1>1, <2>2
    <3>2. seen[u][p] = [available |-> available[at[u]][p], reserved |-> reserved[at[u]][p]]
      BY <3>1 DEF LocksInv, SeenIsCurrent
    <3> QED
      BY <2>1, <3>1, <3>2
  <2> QED
    BY <1>1, <2>2 DEF SeenIsCurrent
<1>5. OrderIsThere'
  <2>2. ASSUME NEW u \in Txs \ {t}, stage[u] \in {"order", "rows"}
        PROVE  warehouseOf'[orderOf[u]] = warehouseOf[orderOf[u]]
    <3>1. CASE UNCHANGED warehouseOf
      BY <3>1
    <3>2. CASE /\ OwnsOrder(t) /\ op[t] = "RESERVE"
               /\ warehouseOf' = [warehouseOf EXCEPT ![orderOf[t]] = at[t]]
      <4>1. warehouseOf[orderOf[t]] = NoWarehouse
        BY <3>2 DEF LocksInv, OrderIsThere, OwnsOrder
      <4>2. orderOf[u] # orderOf[t]
        <5>1. CASE stage[u] = "rows"
          BY <3>2, <5>1, <2>2 DEF LocksInv, LocksExclusive, OwnsOrder
        <5>2. CASE stage[u] = "order"
          BY <4>1, <5>2, <2>2, NoWarehouseAssumption DEF LocksInv, OrderIsThere, TxTypeOK
        <5> QED
          BY <5>1, <5>2, <2>2
      <4> QED
        BY <3>2, <4>2, <2>2 DEF LocksInv, TxTypeOK, InventoryInv, InventoryTypeOK
    <3> QED
      BY <3>1, <3>2
  <2> QED
    BY <1>1, <2>2 DEF LocksInv, OrderIsThere
<1> QED
  BY <1>2, <1>3, <1>4, <1>5

\* The rows a posting does not name keep their balances.
LEMMA PostElsewhere ==
    ASSUME InventoryTypeOK, NEW w \in Warehouses, NEW o, NEW type,
           NEW delta, NEW aa, NEW ra, DOMAIN delta \subseteq Products,
           Post(o, w, type, delta, aa, ra)
    PROVE  \A v \in Warehouses, p \in Products : ~(v = w /\ p \in DOMAIN delta) =>
               available'[v][p] = available[v][p] /\ reserved'[v][p] = reserved[v][p]
BY DEF Post, InventoryTypeOK

\* The invariant is inductive.
LEMMA LocksNextInv == LocksInv /\ [Next]_vars => LocksInv'
<1> SUFFICES ASSUME LocksInv, [Next]_vars PROVE LocksInv'
  OBVIOUS
<1>1. InventoryInv' /\ TxTypeOK'
  BY NextRefines, InventoryNextInv, TxTypeStep DEF LocksInv
<1>2. CASE UNCHANGED vars
  <2>1. LocksExclusive' /\ HeldInOrder' /\ SeenIsCurrent' /\ OrderIsThere'
    BY <1>2 DEF vars, inventoryVars, txVars, LocksInv, LocksExclusive, HeldInOrder,
                SeenIsCurrent, OrderIsThere, OwnsOrder, ToLock
  <2> QED
    BY <1>1, <2>1 DEF LocksInv
<1>3. ASSUME NEW t \in Txs, BeginReserve(t) \/ BeginSettle(t) \/ LockOrder(t) PROVE LocksInv'
  BY <1>1, <1>3, EnterStep DEF LocksInv
<1>4. ASSUME NEW t \in Txs, NEW p \in Products, LockRow(t, p) PROVE LocksInv'
  BY <1>1, <1>4, LockRowStep DEF LocksInv
<1>5. ASSUME NEW t \in Txs, Rollback(t) PROVE LocksInv'
  <2>1. End(t) /\ UNCHANGED <<available, reserved, warehouseOf>>
    BY <1>5 DEF Rollback, inventoryVars
  <2> QED
    BY <1>1, <2>1, EndsStep DEF LocksInv
<1>6. ASSUME NEW t \in Txs, CommitReserve(t) PROVE LocksInv'
  <2> DEFINE P == ProductsOf(orderOf[t])
             delta == [p \in P |-> -Lines[orderOf[t]][p]]
             aa == [p \in P |-> seen[t][p].available - Lines[orderOf[t]][p]]
             ra == [p \in P |-> seen[t][p].reserved + Lines[orderOf[t]][p]]
  <2>1. /\ Post(orderOf[t], at[t], "RESERVE", delta, aa, ra)
        /\ warehouseOf' = [warehouseOf EXCEPT ![orderOf[t]] = at[t]]
        /\ End(t) /\ Locked(t) /\ op[t] = "RESERVE"
    BY <1>6 DEF CommitReserve
  <2>2. DOMAIN delta \subseteq held[t] /\ DOMAIN delta \subseteq Products
    BY <2>1, LockedHoldsAll DEF ProductsOf
  <2>3. at[t] \in Warehouses /\ InventoryTypeOK
    BY DEF LocksInv, TxTypeOK, InventoryInv
  <2>4. OwnsOrder(t)
    BY <2>1 DEF Locked, OwnsOrder
  <2> HIDE DEF P, delta, aa, ra
  <2>5. \A w \in Warehouses, p \in Products : ~(w = at[t] /\ p \in DOMAIN delta) =>
            available'[w][p] = available[w][p] /\ reserved'[w][p] = reserved[w][p]
    BY <2>1, <2>2, <2>3, PostElsewhere
  <2>6. LocksExclusive' /\ HeldInOrder' /\ SeenIsCurrent' /\ OrderIsThere'
    BY <1>1, <2>1, <2>2, <2>4, <2>5, EndsStep
  <2> QED
    BY <1>1, <2>6 DEF LocksInv
<1>7. ASSUME NEW t \in Txs, CommitSettle(t) PROVE LocksInv'
  <2> DEFINE P == OpenLines(orderOf[t])
             amount == [p \in P |-> Abs(Latest(orderOf[t], p).delta)]
             back == [p \in P |-> IF op[t] = "RELEASE" THEN amount[p] ELSE 0]
             aa == [p \in P |-> seen[t][p].available + back[p]]
             ra == [p \in P |-> seen[t][p].reserved - amount[p]]
  <2>1. /\ Post(orderOf[t], at[t], op[t], back, aa, ra)
        /\ UNCHANGED warehouseOf /\ End(t) /\ Locked(t)
    BY <1>7 DEF CommitSettle
  <2>2. DOMAIN back \subseteq held[t] /\ DOMAIN back \subseteq Products
    BY <2>1, LockedHoldsAll DEF OpenLines, ProductsOf
  <2>3. at[t] \in Warehouses /\ InventoryTypeOK
    BY DEF LocksInv, TxTypeOK, InventoryInv
  <2> HIDE DEF P, amount, back, aa, ra
  <2>4. \A w \in Warehouses, p \in Products : ~(w = at[t] /\ p \in DOMAIN back) =>
            available'[w][p] = available[w][p] /\ reserved'[w][p] = reserved[w][p]
    BY <2>1, <2>2, <2>3, PostElsewhere
  <2>5. LocksExclusive' /\ HeldInOrder' /\ SeenIsCurrent' /\ OrderIsThere'
    BY <1>1, <2>1, <2>2, <2>4, EndsStep
  <2> QED
    BY <1>1, <2>5 DEF LocksInv
<1> QED
  BY <1>2, <1>3, <1>4, <1>5, <1>6, <1>7 DEF Next

\* Every reachable state satisfies the invariant.
LEMMA LocksInvariant == Spec => []LocksInv
BY LocksInitInv, LocksNextInv, PTL DEF Spec

(***************************************************************************)
(* What follows                                                            *)
(***************************************************************************)

\* What a transaction has read is current until it ends, however many
\* transactions lock, write and roll back around it: reserve, release and
\* commit lose no update.
THEOREM ReadsStayCurrent == Spec => []SeenIsCurrent
<1>1. LocksInv => SeenIsCurrent
  BY DEF LocksInv
<1> QED
  BY <1>1, LocksInvariant, PTL

\* Statement by statement, the transactions of reserve, release and commit
\* implement the atomic operations of Inventory.
THEOREM LocksImplementInventory == Spec => InventorySpec
<1>1. Init => InventoryInit
  BY DEF Init
<1>2. LocksInv /\ [Next]_vars => [InventoryNext]_inventoryVars
  BY NextRefines
<1> QED
  BY <1>1, <1>2, LocksInvariant, PTL DEF Spec, InventorySpec

\* Waiting for locks climbs their ranks, so it never closes a circle: locking
\* the order row first and the inventory rows in product order excludes
\* deadlock among any number of transactions.
THEOREM NoCircularWait == Spec => []WaitsClimb
<1>1. LocksInv => WaitsClimb
  <2> SUFFICES ASSUME LocksInv, NEW t \in Txs, NEW u \in Txs
               PROVE  /\ \A p \in Products : WaitsForRow(t, u, p) =>
                            \A v \in Txs : /\ ~WaitsForOrder(u, v)
                                           /\ \A q \in Products : WaitsForRow(u, v, q) =>
                                                 ProductRank[p] < ProductRank[q]
                      /\ WaitsForOrder(t, u) => \A v \in Txs : ~WaitsForOrder(u, v)
    BY DEF WaitsClimb
  <2>1. ASSUME NEW p \in Products, WaitsForRow(t, u, p), NEW v \in Txs
        PROVE  /\ ~WaitsForOrder(u, v)
               /\ \A q \in Products : WaitsForRow(u, v, q) => ProductRank[p] < ProductRank[q]
    <3>1. p \in held[u]
      BY <2>1 DEF WaitsForRow, HoldsRow
    <3>2. stage[u] = "rows"
      BY <3>1 DEF LocksInv, HeldInOrder
    <3>3. ~WaitsForOrder(u, v)
      BY <3>2 DEF WaitsForOrder
    <3>4. ASSUME NEW q \in Products, WaitsForRow(u, v, q) PROVE ProductRank[p] < ProductRank[q]
      BY <3>1, <3>4 DEF WaitsForRow, NextRow, LocksInv, HeldInOrder
    <3> QED
      BY <3>3, <3>4
  <2>2. WaitsForOrder(t, u) => \A v \in Txs : ~WaitsForOrder(u, v)
    BY DEF WaitsForOrder, OwnsOrder
  <2> QED
    BY <2>1, <2>2
<1> QED
  BY <1>1, LocksInvariant, PTL

(***************************************************************************)
(* Seeding: the inductive invariant.  That the ledger does not notice an   *)
(* insert needs the rows not inserted to offer no stock; that an order's   *)
(* end is one of the ledger needs its rows to be there; that no warehouse  *)
(* is overlooked needs every row to be there once the services run.        *)
(***************************************************************************)

SeedTypeOK ==
    /\ available = [w \in Warehouses |-> [p \in Products |-> available[w][p]]]
    /\ warehouseOf \in [Orders -> Warehouses \cup {NoWarehouse}]
    /\ position \in [Seeders -> 0..(Len(Script) + 1)]
    /\ exitedOk \in BOOLEAN /\ serving \in BOOLEAN

\* A missing row offers no stock.
MissingIsEmpty ==
    \A w \in Warehouses, p \in Products :
        InventoryRow(w, p) \notin rows => available[w][p] = 0

\* The rows that an order was served from are there.
ServedFromRows ==
    \A o \in Orders : warehouseOf[o] # NoWarehouse =>
        \A p \in ProductsOf(o) : InventoryRow(warehouseOf[o], p) \in rows

\* A script has inserted what it has passed.
PassedIsThere ==
    \A s \in Seeders, i \in 1..Len(Script) : i < position[s] => Script[i] \in rows

Complete == \A i \in 1..Len(Script) : Script[i] \in rows

SeedInv == /\ SeedTypeOK /\ MissingIsEmpty /\ ServedFromRows /\ PassedIsThere
           /\ exitedOk \/ serving => Complete

(***************************************************************************)
(* What the script inserts                                                 *)
(***************************************************************************)

SeedRows == {Customer} \cup {WarehouseRow(w) : w \in Warehouses}
                \cup {ProductRow(p) : p \in Products}
                \cup {InventoryRow(w, p) : w \in Warehouses, p \in Products}

\* Whether r is one of the rows of part s of the script.
In(r, s) == \E i \in 1..Len(s) : s[i] = r

LEMMA InConcatenation ==
    ASSUME NEW S, NEW s \in Seq(S), NEW t \in Seq(S), NEW r, In(r, s) \/ In(r, t)
    PROVE  s \o t \in Seq(S) /\ In(r, s \o t)
<1>0. /\ s \o t \in Seq(S) /\ Len(s \o t) = Len(s) + Len(t)
      /\ Len(s) \in Nat /\ Len(t) \in Nat
  OBVIOUS
<1>1. CASE In(r, s)
  <2>1. PICK i \in 1..Len(s) : s[i] = r
    BY <1>1 DEF In
  <2>2. i \in 1..Len(s \o t) /\ (s \o t)[i] = r
    BY <1>0, <2>1
  <2> QED
    BY <1>0, <2>2 DEF In
<1>2. CASE In(r, t)
  <2>1. PICK i \in 1..Len(t) : t[i] = r
    BY <1>2 DEF In
  <2>2. i + Len(s) \in 1..Len(s \o t) /\ (s \o t)[i + Len(s)] = r
    BY <1>0, <2>1
  <2> QED
    BY <1>0, <2>2 DEF In
<1> QED
  BY <1>1, <1>2

\* The script inserts the customer, every warehouse, every product and every
\* pair with stock, and nothing else.
LEMMA ScriptRows ==
    /\ Script \in Seq(SeedRows)
    /\ In(Customer, Script)
    /\ \A w \in Warehouses : In(WarehouseRow(w), Script)
    /\ \A p \in Products : In(ProductRow(p), Script)
    /\ \A w \in Warehouses, p \in Products :
          InitialStock[w][p] > 0 => In(InventoryRow(w, p), Script)
<1> DEFINE a == <<Customer>>
           b == [i \in DOMAIN WarehouseList |-> WarehouseRow(WarehouseList[i])]
           c == [i \in DOMAIN ProductList |-> ProductRow(ProductList[i])]
           d == [i \in DOMAIN InventoryList |->
                    InventoryRow(InventoryList[i][1], InventoryList[i][2])]
<1>1. a \in Seq(SeedRows) /\ In(Customer, a)
  BY DEF SeedRows, In
<1>2. b \in Seq(SeedRows) /\ \A w \in Warehouses : In(WarehouseRow(w), b)
  <2>1. WarehouseList \in Seq(Warehouses) /\ Range(WarehouseList) = Warehouses
    BY ListsAssumption
  <2>2. DOMAIN WarehouseList = 1..Len(WarehouseList) /\ Len(WarehouseList) \in Nat
    BY <2>1
  <2>3. b \in [1..Len(WarehouseList) -> SeedRows]
    BY <2>1, <2>2 DEF SeedRows
  <2>4. b \in Seq(SeedRows) /\ Len(b) = Len(WarehouseList)
    BY <2>2, <2>3
  <2>5. ASSUME NEW w \in Warehouses
        PROVE  In(WarehouseRow(w), b)
    <3>1. PICK i \in DOMAIN WarehouseList : WarehouseList[i] = w
      BY <2>1 DEF Range
    <3> QED
      BY <2>2, <2>4, <3>1 DEF In
  <2> QED
    BY <2>4, <2>5
<1>3. c \in Seq(SeedRows) /\ \A p \in Products : In(ProductRow(p), c)
  <2>1. ProductList \in Seq(Products) /\ Range(ProductList) = Products
    BY ListsAssumption
  <2>2. DOMAIN ProductList = 1..Len(ProductList) /\ Len(ProductList) \in Nat
    BY <2>1
  <2>3. c \in [1..Len(ProductList) -> SeedRows]
    BY <2>1, <2>2 DEF SeedRows
  <2>4. c \in Seq(SeedRows) /\ Len(c) = Len(ProductList)
    BY <2>2, <2>3
  <2>5. ASSUME NEW p \in Products
        PROVE  In(ProductRow(p), c)
    <3>1. PICK i \in DOMAIN ProductList : ProductList[i] = p
      BY <2>1 DEF Range
    <3> QED
      BY <2>2, <2>4, <3>1 DEF In
  <2> QED
    BY <2>4, <2>5
<1>4. /\ d \in Seq(SeedRows)
      /\ \A w \in Warehouses, p \in Products :
            InitialStock[w][p] > 0 => In(InventoryRow(w, p), d)
  <2>1. /\ InventoryList \in Seq(Warehouses \X Products)
        /\ Range(InventoryList) =
               {wp \in Warehouses \X Products : InitialStock[wp[1]][wp[2]] > 0}
    BY ListsAssumption
  <2>2. DOMAIN InventoryList = 1..Len(InventoryList) /\ Len(InventoryList) \in Nat
    BY <2>1
  <2>3. \A i \in 1..Len(InventoryList) :
            InventoryList[i][1] \in Warehouses /\ InventoryList[i][2] \in Products
    BY <2>1
  <2>4. d \in [1..Len(InventoryList) -> SeedRows]
    BY <2>2, <2>3 DEF SeedRows
  <2>5. d \in Seq(SeedRows) /\ Len(d) = Len(InventoryList)
    BY <2>2, <2>4
  <2>6. ASSUME NEW w \in Warehouses, NEW p \in Products, InitialStock[w][p] > 0
        PROVE  In(InventoryRow(w, p), d)
    <3>1. <<w, p>> \in Range(InventoryList)
      BY <2>1, <2>6
    <3>2. PICK i \in DOMAIN InventoryList : InventoryList[i] = <<w, p>>
      BY <3>1 DEF Range
    <3>3. d[i] = InventoryRow(w, p)
      BY <3>2
    <3> QED
      BY <2>2, <2>5, <3>2, <3>3 DEF In
  <2> QED
    BY <2>5, <2>6
<1>5. Script = ((a \o b) \o c) \o d
  BY DEF Script
<1> HIDE DEF a, b, c, d
<1>6. a \o b \in Seq(SeedRows) /\ (a \o b) \o c \in Seq(SeedRows) /\ Script \in Seq(SeedRows)
  BY <1>1, <1>2, <1>3, <1>4, <1>5
<1>7. ASSUME NEW r, In(r, a) \/ In(r, b)
      PROVE  In(r, Script)
  <2>1. In(r, a \o b)
    BY <1>1, <1>2, <1>7, InConcatenation
  <2>2. In(r, (a \o b) \o c)
    BY <1>3, <1>6, <2>1, InConcatenation
  <2> QED
    BY <1>4, <1>5, <1>6, <2>2, InConcatenation
<1>8. ASSUME NEW r, In(r, c)
      PROVE  In(r, Script)
  <2>1. In(r, (a \o b) \o c)
    BY <1>3, <1>6, <1>8, InConcatenation
  <2> QED
    BY <1>4, <1>5, <1>6, <2>1, InConcatenation
<1>9. ASSUME NEW r, In(r, d)
      PROVE  In(r, Script)
  BY <1>4, <1>5, <1>6, <1>9, InConcatenation
<1> QED
  BY <1>1, <1>2, <1>3, <1>4, <1>6, <1>7, <1>8, <1>9

\* The rows of the catalogue and of the stock are told apart.
LEMMA RowsDiffer ==
    /\ \A w \in Warehouses, p \in Products, x \in Warehouses, q \in Products :
          InventoryRow(w, p) = InventoryRow(x, q) => w = x /\ p = q
    /\ \A w \in Warehouses, p \in Products : InventoryRow(w, p)[1] = "inventory"
    /\ \A r \in SeedRows : r[1] = "inventory" =>
          \E w \in Warehouses, p \in Products : r = InventoryRow(w, p)
BY DEF SeedRows, Customer, WarehouseRow, ProductRow, InventoryRow

(***************************************************************************)
(* Every step keeps the invariant and is a step of the ledger, or none     *)
(***************************************************************************)

LEMMA SeedInit == SeedingInit => SeedInv /\ Ledger!InventoryInit
<1> SUFFICES ASSUME SeedingInit
             PROVE  SeedInv /\ Ledger!InventoryInit
  OBVIOUS
<1>1. Len(Script) \in Nat
  BY ScriptRows
<1>2. SeedTypeOK
  <2>1. available = [w \in Warehouses |-> [p \in Products |-> available[w][p]]]
    BY DEF SeedingInit
  <2>2. position \in [Seeders -> 0..(Len(Script) + 1)]
    BY <1>1 DEF SeedingInit
  <2> QED
    BY <2>1, <2>2 DEF SeedingInit, SeedTypeOK
<1>3. MissingIsEmpty /\ ServedFromRows /\ ~exitedOk /\ ~serving
  BY DEF SeedingInit, MissingIsEmpty, ServedFromRows
<1>4. PassedIsThere
  BY <1>1 DEF SeedingInit, PassedIsThere
<1>5. Stock = InitialStock
  <2>1. Stock = [w \in Warehouses |-> [p \in Products |-> InitialStock[w][p]]]
    BY DEF SeedingInit, Stock
  <2> QED
    BY <2>1, StockAssumption
<1> QED
  BY <1>2, <1>3, <1>4, <1>5 DEF SeedInv, Ledger!InventoryInit, SeedingInit

\* Rows are never deleted, so what holds of them goes on holding.
LEMMA RowsGrow ==
    ASSUME SeedInv, rows \subseteq rows'
    PROVE  /\ Complete => Complete'
           /\ UNCHANGED warehouseOf => ServedFromRows'
           /\ UNCHANGED position => PassedIsThere'
BY DEF SeedInv, Complete, ServedFromRows, PassedIsThere, ProductsOf

\* The seeded rows and the stock are left alone: the ledger stays as it is.
LEMMA StockKept ==
    ASSUME UNCHANGED <<rows, available>>
    PROVE  Stock' = Stock
BY DEF Stock

LEMMA SeedStartsKeeps ==
    ASSUME SeedInv, NEW s \in Seeders, SeedStarts(s)
    PROVE  SeedInv' /\ UNCHANGED Ledger!inventoryVars
<1>0. /\ SeedTypeOK /\ MissingIsEmpty /\ ServedFromRows /\ PassedIsThere
      /\ exitedOk \/ serving => Complete
      /\ position' = [position EXCEPT ![s] = 1] /\ (exitedOk' => exitedOk)
      /\ exitedOk' \in BOOLEAN
      /\ UNCHANGED <<available, reserved, movements, warehouseOf, rows, serving>>
  BY DEF SeedInv, SeedStarts, inventoryVars
<1>1. Len(Script) \in Nat
  BY ScriptRows
<1>2. SeedTypeOK'
  BY <1>0, <1>1 DEF SeedTypeOK
<1>3. PassedIsThere'
  BY <1>0, <1>1 DEF PassedIsThere, SeedTypeOK
<1>4. MissingIsEmpty' /\ ServedFromRows' /\ (Complete => Complete')
  BY <1>0 DEF MissingIsEmpty, ServedFromRows, ProductsOf, Complete
<1> QED
  BY <1>0, <1>2, <1>3, <1>4, StockKept DEF SeedInv, Ledger!inventoryVars

\* The script ends, at its end or before it.
LEMMA ExitKeeps ==
    ASSUME SeedInv, NEW s \in Seeders, NEW ok \in BOOLEAN, Exit(s, ok),
           ok => position[s] = Len(Script) + 1,
           UNCHANGED <<inventoryVars, rows, serving>>
    PROVE  SeedInv' /\ UNCHANGED Ledger!inventoryVars
<1>0. /\ SeedTypeOK /\ MissingIsEmpty /\ ServedFromRows /\ PassedIsThere
      /\ exitedOk \/ serving => Complete
      /\ position' = [position EXCEPT ![s] = 0]
      /\ exitedOk' = IF s = ComposeSeed THEN ok ELSE exitedOk
      /\ UNCHANGED <<available, reserved, movements, warehouseOf, rows, serving>>
  BY DEF SeedInv, Exit, inventoryVars
<1>1. Len(Script) \in Nat
  BY ScriptRows
<1>2. SeedTypeOK'
  BY <1>0, <1>1 DEF SeedTypeOK
<1>3. PassedIsThere'
  BY <1>0, <1>1 DEF PassedIsThere, SeedTypeOK
<1>4. MissingIsEmpty' /\ ServedFromRows' /\ (Complete => Complete')
  BY <1>0 DEF MissingIsEmpty, ServedFromRows, ProductsOf, Complete
<1>5. ok => Complete
  BY <1>0, <1>1 DEF PassedIsThere, Complete
<1> QED
  BY <1>0, <1>2, <1>3, <1>4, <1>5, StockKept DEF SeedInv, Ledger!inventoryVars

\* What an insert does to the rows and the stock.
LEMMA InsertedStock ==
    ASSUME SeedInv, NEW s \in Seeders, InsertRow(s)
    PROVE  \E r \in SeedRows :
              /\ r = Script[position[s]] /\ rows' = rows \cup {r}
              /\ available' = [w \in Warehouses |-> [p \in Products |-> available'[w][p]]]
              /\ \A w \in Warehouses, p \in Products :
                    IF InventoryRow(w, p) = r /\ r \notin rows
                    THEN available'[w][p] = InitialStock[w][p]
                    ELSE available'[w][p] = available[w][p]
<1> DEFINE r == Script[position[s]]
<1>0. /\ SeedTypeOK /\ position[s] \in DOMAIN Script
      /\ IF r \in rows THEN UNCHANGED <<rows, available>> ELSE Insert(r)
  BY DEF SeedInv, InsertRow, AtRow
<1>1. r \in SeedRows
  BY <1>0, ScriptRows
<1> HIDE DEF r
<1>2. rows' = rows \cup {r}
  BY <1>0 DEF Insert
<1>3. /\ available' = [w \in Warehouses |-> [p \in Products |-> available'[w][p]]]
      /\ \A w \in Warehouses, p \in Products :
            IF InventoryRow(w, p) = r /\ r \notin rows
            THEN available'[w][p] = InitialStock[w][p]
            ELSE available'[w][p] = available[w][p]
  <2>1. CASE r \in rows \/ r[1] # "inventory"
    <3>1. available' = available
      BY <1>0, <2>1 DEF Insert
    <3>2. r \notin rows => \A w \in Warehouses, p \in Products : InventoryRow(w, p) # r
      BY <2>1, RowsDiffer
    <3> QED
      BY <1>0, <3>1, <3>2 DEF SeedTypeOK
  <2>2. CASE r \notin rows /\ r[1] = "inventory"
    <3>1. PICK x \in Warehouses, q \in Products : r = InventoryRow(x, q)
      BY <1>1, <2>2, RowsDiffer
    <3>2. r[2] = x /\ r[3] = q
      BY <3>1 DEF InventoryRow
    <3>3. available' = [available EXCEPT ![x][q] = InitialStock[x][q]]
      BY <1>0, <2>2, <3>2 DEF Insert
    <3>4. \A w \in Warehouses, p \in Products :
              available'[w][p] = IF w = x /\ p = q THEN InitialStock[x][q] ELSE available[w][p]
      BY <1>0, <3>3 DEF SeedTypeOK
    <3>5. available' = [w \in Warehouses |-> [p \in Products |-> available'[w][p]]]
      BY <1>0, <3>3 DEF SeedTypeOK
    <3>6. \A w \in Warehouses, p \in Products :
              InventoryRow(w, p) = r <=> w = x /\ p = q
      BY <3>1, RowsDiffer
    <3> QED
      BY <2>2, <3>4, <3>5, <3>6
  <2> QED
    BY <2>1, <2>2
<1> QED
  BY <1>1, <1>2, <1>3 DEF r

\* An insert brings what the ledger took for there already.
LEMMA InsertRowKeeps ==
    ASSUME SeedInv, NEW s \in Seeders, InsertRow(s)
    PROVE  SeedInv' /\ UNCHANGED Ledger!inventoryVars
<1>0. /\ SeedTypeOK /\ MissingIsEmpty /\ ServedFromRows /\ PassedIsThere
      /\ exitedOk \/ serving => Complete
      /\ position' = [position EXCEPT ![s] = @ + 1] /\ position[s] \in DOMAIN Script
      /\ UNCHANGED <<reserved, movements, warehouseOf, exitedOk, serving>>
  BY DEF SeedInv, InsertRow, AtRow, Proceed
<1>1. Len(Script) \in Nat /\ position[s] \in 1..Len(Script)
  BY <1>0, ScriptRows
<1>2. PICK r \in SeedRows :
          /\ r = Script[position[s]] /\ rows' = rows \cup {r}
          /\ available' = [w \in Warehouses |-> [p \in Products |-> available'[w][p]]]
          /\ \A w \in Warehouses, p \in Products :
                IF InventoryRow(w, p) = r /\ r \notin rows
                THEN available'[w][p] = InitialStock[w][p]
                ELSE available'[w][p] = available[w][p]
  BY InsertedStock
<1>3. position' \in [Seeders -> 0..(Len(Script) + 1)]
  <2>1. position[s] + 1 \in 0..(Len(Script) + 1)
    BY <1>1
  <2> QED
    BY <1>0, <2>1 DEF SeedTypeOK
<1>4. PassedIsThere'
  <2> SUFFICES ASSUME NEW u \in Seeders, NEW i \in 1..Len(Script), i < position'[u]
               PROVE  Script[i] \in rows'
    BY DEF PassedIsThere
  <2>1. CASE u = s /\ i = position[s]
    BY <1>2, <2>1
  <2>2. CASE ~(u = s /\ i = position[s])
    <3>1. i < position[u]
      BY <1>0, <1>1, <2>2 DEF SeedTypeOK
    <3> QED
      BY <1>0, <1>2, <3>1 DEF PassedIsThere
  <2> QED
    BY <2>1, <2>2
<1>5. ServedFromRows' /\ (Complete => Complete')
  BY <1>0, <1>2, RowsGrow
<1>6. MissingIsEmpty'
  BY <1>0, <1>2 DEF MissingIsEmpty
<1>7. Stock' = Stock
  BY <1>2 DEF Stock
<1>8. SeedTypeOK'
  BY <1>0, <1>2, <1>3 DEF SeedTypeOK
<1> QED
  BY <1>0, <1>4, <1>5, <1>6, <1>7, <1>8 DEF SeedInv, Ledger!inventoryVars

\* The services are started or stopped.
LEMMA ServicesKeep ==
    ASSUME SeedInv, ServicesStart \/ ServicesStop
    PROVE  SeedInv' /\ UNCHANGED Ledger!inventoryVars
<1>0. /\ SeedTypeOK /\ MissingIsEmpty /\ ServedFromRows /\ PassedIsThere
      /\ exitedOk \/ serving => Complete
      /\ exitedOk' \in BOOLEAN /\ serving' \in BOOLEAN
      /\ exitedOk' \/ serving' => exitedOk \/ serving
      /\ UNCHANGED <<available, reserved, movements, warehouseOf, rows, position>>
  BY DEF SeedInv, SeedTypeOK, ServicesStart, ServicesStop, inventoryVars
<1>1. /\ SeedTypeOK' /\ MissingIsEmpty' /\ ServedFromRows' /\ PassedIsThere'
      /\ Complete => Complete'
  BY <1>0 DEF SeedTypeOK, MissingIsEmpty, ServedFromRows, PassedIsThere, Complete,
              ProductsOf
<1> QED
  BY <1>0, <1>1, StockKept DEF SeedInv, Ledger!inventoryVars

\* Writing to rows that are there is writing to the ledger's stock.
LEMMA PostToStock ==
    ASSUME SeedInv, NEW o \in Orders, NEW w \in Warehouses, NEW type, NEW delta,
           NEW aa, NEW ra, DOMAIN delta \subseteq Products,
           \A p \in DOMAIN delta : InventoryRow(w, p) \in rows,
           Post(o, w, type, delta, aa, ra), UNCHANGED rows
    PROVE  /\ Ledger!Post(o, w, type, delta, aa, ra)
           /\ MissingIsEmpty'
           /\ available' = [x \in Warehouses |-> [p \in Products |-> available'[x][p]]]
<1>0. /\ available = [x \in Warehouses |-> [p \in Products |-> available[x][p]]]
      /\ MissingIsEmpty
  BY DEF SeedInv, SeedTypeOK
<1>1. available' = [available EXCEPT ![w] =
          [p \in Products |-> IF p \in DOMAIN delta THEN aa[p] ELSE available[w][p]]]
  BY DEF Post
<1>2. \A x \in Warehouses, p \in Products :
          available'[x][p] = IF x = w /\ p \in DOMAIN delta THEN aa[p] ELSE available[x][p]
  BY <1>0, <1>1
<1>3. available' = [x \in Warehouses |-> [p \in Products |-> available'[x][p]]]
  BY <1>0, <1>1
<1>4. MissingIsEmpty'
  BY <1>0, <1>2 DEF MissingIsEmpty
<1>5. Stock' = [Stock EXCEPT ![w] =
          [p \in Products |-> IF p \in DOMAIN delta THEN aa[p] ELSE Stock[w][p]]]
  <2> DEFINE written == [p \in Products |-> IF p \in DOMAIN delta THEN aa[p] ELSE Stock[w][p]]
  <2>1. \A x \in Warehouses, p \in Products :
            Stock[x][p] = IF InventoryRow(x, p) \in rows THEN available[x][p]
                                                         ELSE InitialStock[x][p]
    BY DEF Stock
  <2>2. \A x \in Warehouses, p \in Products :
            Stock'[x][p] = IF x = w THEN written[p] ELSE Stock[x][p]
    BY <1>2, <2>1 DEF Stock
  <2>3. /\ Stock = [x \in Warehouses |-> [p \in Products |-> Stock[x][p]]]
        /\ Stock' = [x \in Warehouses |-> [p \in Products |-> Stock'[x][p]]]
    BY DEF Stock
  <2>4. written = [p \in Products |-> written[p]]
    OBVIOUS
  <2> HIDE DEF written
  <2>5. Stock' = [x \in Warehouses |->
                    [p \in Products |-> IF x = w THEN written[p] ELSE Stock[x][p]]]
    BY <2>2, <2>3
  <2>6. Stock' = [Stock EXCEPT ![w] = written]
    BY <2>3, <2>4, <2>5
  <2> QED
    BY <2>6 DEF written
<1>6. Ledger!Post(o, w, type, delta, aa, ra)
  BY <1>5 DEF Post, Ledger!Post
<1> QED
  BY <1>3, <1>4, <1>6

\* The instance reads the same movements.
LEMMA SameLines ==
    ASSUME NEW o \in Orders
    PROVE  /\ Ledger!ProductsOf(o) = ProductsOf(o)
           /\ Ledger!OpenLines(o) = OpenLines(o)
           /\ \A p : Ledger!Abs(Ledger!Latest(o, p).delta) = Abs(Latest(o, p).delta)
           /\ OpenLines(o) \subseteq ProductsOf(o) /\ ProductsOf(o) \subseteq Products
<1>1. \A p : Ledger!MovesOf(o, p) = MovesOf(o, p)
  BY DEF MovesOf, Ledger!MovesOf
<1>2. \A p : Ledger!Latest(o, p) = Latest(o, p)
  <2>1. ASSUME NEW S
        PROVE  Ledger!Max(S) = Max(S)
    BY DEF Max, Ledger!Max
  <2> QED
    BY <1>1, <2>1 DEF Latest, Ledger!Latest
<1>3. Ledger!ProductsOf(o) = ProductsOf(o)
  BY DEF ProductsOf, Ledger!ProductsOf
<1>4. Ledger!OpenLines(o) = OpenLines(o)
  BY <1>1, <1>2, <1>3 DEF OpenLines, Ledger!OpenLines
<1>5. \A p : Ledger!Abs(Ledger!Latest(o, p).delta) = Abs(Latest(o, p).delta)
  BY <1>2 DEF Abs, Ledger!Abs
<1> QED
  BY <1>3, <1>4, <1>5 DEF OpenLines, ProductsOf

\* What is left to show of a step that serves an order.
LEMMA ServedKeeps ==
    ASSUME SeedInv, MissingIsEmpty', ServedFromRows',
           available' = [w \in Warehouses |-> [p \in Products |-> available'[w][p]]],
           warehouseOf' \in [Orders -> Warehouses \cup {NoWarehouse}],
           UNCHANGED <<rows, position, exitedOk, serving>>
    PROVE  SeedInv'
BY DEF SeedInv, SeedTypeOK, PassedIsThere, Complete

\* A reservation finds stock only in rows that are there.
LEMMA ReserveFromRows ==
    ASSUME SeedInv, NEW o \in Orders, NEW w \in Warehouses, Reserve(o, w),
           UNCHANGED <<rows, position, exitedOk, serving>>
    PROVE  SeedInv' /\ Ledger!Reserve(o, w)
<1> DEFINE P == ProductsOf(o)
           delta == [p \in P |-> -Lines[o][p]]
           aa == [p \in P |-> available[w][p] - Lines[o][p]]
           ra == [p \in P |-> reserved[w][p] + Lines[o][p]]
           la == [p \in P |-> Stock[w][p] - Lines[o][p]]
<1>0. /\ SeedTypeOK /\ MissingIsEmpty /\ ServedFromRows
      /\ warehouseOf[o] = NoWarehouse /\ Unmet(o, w) = {}
      /\ Post(o, w, "RESERVE", delta, aa, ra)
      /\ warehouseOf' = [warehouseOf EXCEPT ![o] = w]
  BY DEF SeedInv, Reserve
<1>1. \A p \in P : p \in Products /\ Lines[o][p] \in Nat /\ Lines[o][p] > 0
  BY LinesAssumption DEF ProductsOf
<1>2. \A p \in P : InventoryRow(w, p) \in rows
  BY <1>0, <1>1 DEF Unmet, MissingIsEmpty
<1>3. \A p \in P : Stock[w][p] = available[w][p]
  BY <1>1, <1>2 DEF Stock
<1>4. la = aa
  BY <1>3
<1>5. DOMAIN delta = P
  OBVIOUS
<1> HIDE DEF delta, aa, ra
<1>6. /\ Ledger!Post(o, w, "RESERVE", delta, la, ra) /\ MissingIsEmpty'
      /\ available' = [x \in Warehouses |-> [p \in Products |-> available'[x][p]]]
  BY <1>0, <1>1, <1>2, <1>4, <1>5, PostToStock
<1>7. Ledger!Unmet(o, w) = {}
  BY <1>0, <1>3, SameLines DEF Unmet, Ledger!Unmet
<1>8. Ledger!Reserve(o, w)
  BY <1>0, <1>6, <1>7, SameLines DEF Ledger!Reserve, delta, ra
<1>9. ServedFromRows' /\ warehouseOf' \in [Orders -> Warehouses \cup {NoWarehouse}]
  BY <1>0, <1>2 DEF ServedFromRows, SeedTypeOK, ProductsOf
<1> QED
  BY <1>6, <1>8, <1>9, ServedKeeps

\* The end of an order writes to the rows that it was served from.
LEMMA EndFromRows ==
    ASSUME SeedInv, NEW o \in Orders, Release(o) \/ Commit(o),
           UNCHANGED <<rows, position, exitedOk, serving>>
    PROVE  SeedInv' /\ (Ledger!Release(o) \/ Ledger!Commit(o))
<1> DEFINE P == OpenLines(o)
           w == warehouseOf[o]
           amount == [p \in P |-> Abs(Latest(o, p).delta)]
           zero == [p \in P |-> 0]
           up == [p \in P |-> available[w][p] + amount[p]]
           lup == [p \in P |-> Stock[w][p] + amount[p]]
           same == [p \in P |-> available[w][p]]
           lsame == [p \in P |-> Stock[w][p]]
           ra == [p \in P |-> reserved[w][p] - amount[p]]
<1>0. /\ SeedTypeOK /\ ServedFromRows /\ w # NoWarehouse /\ UNCHANGED warehouseOf
      /\ \/ Release(o) /\ Post(o, w, "RELEASE", amount, up, ra)
         \/ Commit(o) /\ Post(o, w, "COMMIT", zero, same, ra)
  BY DEF SeedInv, Release, Commit
<1>1. w \in Warehouses /\ P \subseteq ProductsOf(o) /\ P \subseteq Products
  BY <1>0, SameLines DEF SeedTypeOK
<1>2. \A p \in P : InventoryRow(w, p) \in rows
  BY <1>0, <1>1 DEF ServedFromRows
<1>3. \A p \in P : Stock[w][p] = available[w][p]
  BY <1>1, <1>2 DEF Stock
<1>4. lup = up /\ lsame = same
  BY <1>3
<1>5. DOMAIN amount = P /\ DOMAIN zero = P
  OBVIOUS
<1>6. ServedFromRows' /\ warehouseOf' \in [Orders -> Warehouses \cup {NoWarehouse}]
  BY <1>0 DEF ServedFromRows, SeedTypeOK, ProductsOf
<1>7. /\ Ledger!OpenLines(o) = P
      /\ [p \in P |-> Ledger!Abs(Ledger!Latest(o, p).delta)] = amount
  BY SameLines
<1> HIDE DEF amount, zero, up, same, ra, lup, lsame, P
<1>8. CASE Post(o, w, "RELEASE", amount, up, ra)
  <2>1. /\ Ledger!Post(o, w, "RELEASE", amount, lup, ra) /\ MissingIsEmpty'
        /\ available' = [x \in Warehouses |-> [p \in Products |-> available'[x][p]]]
    BY <1>1, <1>2, <1>4, <1>5, <1>8, PostToStock
  <2>2. Ledger!Release(o)
    BY <1>0, <1>7, <2>1 DEF Ledger!Release, lup, ra
  <2> QED
    BY <1>6, <2>1, <2>2, ServedKeeps
<1>9. CASE Post(o, w, "COMMIT", zero, same, ra)
  <2>1. /\ Ledger!Post(o, w, "COMMIT", zero, lsame, ra) /\ MissingIsEmpty'
        /\ available' = [x \in Warehouses |-> [p \in Products |-> available'[x][p]]]
    BY <1>1, <1>2, <1>4, <1>5, <1>9, PostToStock
  <2>2. Ledger!Commit(o)
    BY <1>0, <1>7, <2>1 DEF Ledger!Commit, lsame, ra, zero
  <2> QED
    BY <1>6, <2>1, <2>2, ServedKeeps
<1> QED
  BY <1>0, <1>8, <1>9

\* Looking for warehouses, and giving one up, writes nothing.
LEMMA LookingKeeps ==
    ASSUME SeedInv, UNCHANGED <<inventoryVars, scriptVars>>
    PROVE  SeedInv' /\ UNCHANGED Ledger!inventoryVars
<1>1. UNCHANGED <<available, reserved, movements, warehouseOf, rows, position, exitedOk,
                  serving>>
  BY DEF inventoryVars, scriptVars
<1>2. SeedInv'
  BY <1>1 DEF SeedInv, SeedTypeOK, MissingIsEmpty, ServedFromRows, PassedIsThere,
              Complete, ProductsOf
<1> QED
  BY <1>1, <1>2, StockKept DEF Ledger!inventoryVars

LEMMA SeedNext ==
    ASSUME SeedInv, [SeedingNext]_seedingVars
    PROVE  SeedInv' /\ [Ledger!InventoryNext]_(Ledger!inventoryVars)
<1>1. ASSUME NEW s \in Seeders, SeedExits(s) \/ SeedFails(s)
      PROVE  SeedInv' /\ UNCHANGED Ledger!inventoryVars
  BY <1>1, ExitKeeps DEF SeedExits, SeedFails
<1>2. ASSUME NEW o \in Orders, NEW w \in Warehouses, ReserveAt(o, w)
      PROVE  SeedInv' /\ Ledger!Reserve(o, w)
  BY <1>2, ReserveFromRows DEF ReserveAt, scriptVars
<1>3. ASSUME NEW o \in Orders, Settle(o)
      PROVE  SeedInv' /\ (Ledger!Release(o) \/ Ledger!Commit(o))
  BY <1>3, EndFromRows DEF Settle, scriptVars
<1>4. ASSUME NEW o \in Orders,
             \/ FindCandidates(o) \/ RequestFails(o)
             \/ \E w \in Warehouses : LoseCandidate(o, w)
      PROVE  SeedInv' /\ UNCHANGED Ledger!inventoryVars
  BY <1>4, LookingKeeps DEF FindCandidates, RequestFails, LoseCandidate
<1>5. CASE UNCHANGED seedingVars
  BY <1>5, LookingKeeps DEF seedingVars, seedVars, scriptVars
<1> QED
  BY <1>1, <1>2, <1>3, <1>4, <1>5, SeedStartsKeeps, InsertRowKeeps, ServicesKeep
     DEF SeedingNext, Ledger!InventoryNext

\* For any catalogue and any number of scripts, run, killed and run again
\* beside the services: to the ledger they are invisible.  No run of the
\* script gives back stock that was reserved or sold, or takes any.
THEOREM SeedNeverShows == SeedingSpec => SeedIsInvisible
BY SeedInit, SeedNext, PTL DEF SeedingSpec, SeedIsInvisible, Ledger!InventorySpec

(***************************************************************************)
(* That refusals are real: what no order has drawn on is as it was seeded, *)
(* and a candidate had the goods when it was found.                        *)
(***************************************************************************)

\* Some order was served these goods there, whatever became of it.
Drawn(w, p) == \E q \in Orders : p \in ProductsOf(q) /\ warehouseOf[q] = w

RequestTypeOK ==
    /\ request \in [Orders -> {"idle", "trying", "done", "NO_CANDIDATES",
                               "RESERVATION_RACE_LOST"}]
    /\ candidates \in [Orders -> SUBSET Warehouses]

Undrawn ==
    \A w \in Warehouses, p \in Products :
        InventoryRow(w, p) \in rows /\ ~Drawn(w, p) => available[w][p] = InitialStock[w][p]

\* Only a request that is done has a warehouse.
RequestsNew == \A o \in Orders : request[o] # "done" => warehouseOf[o] = NoWarehouse

HadGoods(o, w) ==
    \A p \in ProductsOf(o) : /\ InventoryRow(w, p) \in rows
                             /\ Drawn(w, p) \/ InitialStock[w][p] >= Lines[o][p]

CandidatesTrue ==
    \A o \in Orders : \A w \in candidates[o] : request[o] = "trying" /\ HadGoods(o, w)

RequestInv == RequestTypeOK /\ Undrawn /\ RequestsNew /\ CandidatesTrue

LEMMA RequestInit == SeedingInit => RequestInv
BY DEF SeedingInit, RequestInv, RequestTypeOK, Undrawn, RequestsNew, CandidatesTrue

\* Rows and draws are for good.
LEMMA HadGoodsStays ==
    ASSUME rows \subseteq rows', NEW o \in Orders, NEW w \in Warehouses, HadGoods(o, w),
           \A q \in Orders : warehouseOf[q] = w => warehouseOf'[q] = w
    PROVE  HadGoods(o, w)'
BY DEF HadGoods, Drawn, ProductsOf

\* A step that finds no candidate and serves no order.
LEMMA RequestKept ==
    ASSUME SeedInv, RequestInv, RequestTypeOK', Undrawn', rows \subseteq rows',
           UNCHANGED warehouseOf,
           \A o \in Orders : /\ request'[o] # "done" => request[o] # "done"
                             /\ candidates'[o] \subseteq candidates[o]
                             /\ candidates'[o] # {} => request'[o] = request[o]
    PROVE  RequestInv'
<1>1. RequestsNew'
  BY DEF RequestInv, RequestsNew
<1>2. ASSUME NEW o \in Orders, NEW w \in candidates'[o]
      PROVE  request'[o] = "trying" /\ HadGoods(o, w)'
  <2>1. w \in Warehouses /\ w \in candidates[o]
    BY <1>2 DEF RequestInv, RequestTypeOK
  <2>2. request[o] = "trying" /\ HadGoods(o, w)
    BY <2>1 DEF RequestInv, CandidatesTrue
  <2> QED
    BY <1>2, <2>1, <2>2, HadGoodsStays
<1> QED
  BY <1>1, <1>2 DEF RequestInv, CandidatesTrue

LEMMA UndrawnKept ==
    ASSUME RequestInv, UNCHANGED <<rows, available, warehouseOf>>
    PROVE  Undrawn'
BY DEF RequestInv, Undrawn, Drawn, ProductsOf

LEMMA InsertKeepsRequests ==
    ASSUME SeedInv, RequestInv, NEW s \in Seeders, InsertRow(s)
    PROVE  RequestInv'
<1>1. UNCHANGED <<warehouseOf, request, candidates>>
  BY DEF InsertRow, requestVars
<1>2. PICK r \in SeedRows :
          /\ rows' = rows \cup {r}
          /\ \A w \in Warehouses, p \in Products :
                IF InventoryRow(w, p) = r /\ r \notin rows
                THEN available'[w][p] = InitialStock[w][p]
                ELSE available'[w][p] = available[w][p]
  BY InsertedStock
<1>3. \A w, p : Drawn(w, p)' = Drawn(w, p)
  BY <1>1 DEF Drawn, ProductsOf
<1>4. Undrawn'
  BY <1>2, <1>3 DEF RequestInv, Undrawn
<1> QED
  BY <1>1, <1>2, <1>4, RequestKept DEF RequestInv, RequestTypeOK

\* The candidates that are found have the goods.
LEMMA FindKeepsRequests ==
    ASSUME SeedInv, RequestInv, NEW o \in Orders, FindCandidates(o)
    PROVE  RequestInv'
<1>0. /\ RequestTypeOK /\ Undrawn /\ RequestsNew /\ CandidatesTrue /\ MissingIsEmpty
      /\ request[o] = "idle" /\ UNCHANGED <<available, warehouseOf, rows>>
  BY DEF RequestInv, SeedInv, FindCandidates, inventoryVars, scriptVars
<1>1. PICK found \in SUBSET Eligible(o) :
          /\ candidates' = [candidates EXCEPT ![o] = found]
          /\ request' = [request EXCEPT ![o] =
                            IF found = {} THEN "NO_CANDIDATES" ELSE "trying"]
  BY DEF FindCandidates
<1>2. found \in SUBSET Warehouses
  BY DEF Eligible
<1>3. RequestTypeOK'
  BY <1>0, <1>1, <1>2 DEF RequestTypeOK
<1>4. Undrawn'
  BY <1>0, UndrawnKept
<1>5. RequestsNew'
  BY <1>0, <1>1 DEF RequestsNew, RequestTypeOK
<1>6. ASSUME NEW w \in found
      PROVE  HadGoods(o, w)
  <2> SUFFICES ASSUME NEW p \in ProductsOf(o)
               PROVE  /\ InventoryRow(w, p) \in rows
                      /\ Drawn(w, p) \/ InitialStock[w][p] >= Lines[o][p]
    BY DEF HadGoods
  <2>1. /\ w \in Warehouses /\ p \in Products /\ Lines[o][p] \in Nat /\ Lines[o][p] > 0
        /\ InitialStock[w][p] \in Nat
    BY <1>2, <1>6, LinesAssumption, StockAssumption DEF ProductsOf
  <2>2. ~(available[w][p] < Lines[o][p])
    BY <1>6 DEF Eligible, Unmet
  <2>3. InventoryRow(w, p) \in rows
    BY <1>0, <2>1, <2>2 DEF MissingIsEmpty
  <2>4. ~Drawn(w, p) => available[w][p] = InitialStock[w][p]
    BY <1>0, <2>1, <2>3 DEF Undrawn
  <2> QED
    BY <2>1, <2>2, <2>3, <2>4
<1>7. ASSUME NEW x \in Orders, NEW w \in candidates'[x]
      PROVE  request'[x] = "trying" /\ HadGoods(x, w)'
  <2>1. w \in Warehouses
    BY <1>3, <1>7 DEF RequestTypeOK
  <2>2. request'[x] = "trying" /\ HadGoods(x, w)
    <3>1. CASE x = o
      BY <1>0, <1>1, <1>6, <1>7, <3>1 DEF RequestTypeOK
    <3>2. CASE x # o
      BY <1>0, <1>1, <1>7, <3>2 DEF RequestTypeOK, CandidatesTrue
    <3> QED
      BY <3>1, <3>2
  <2> QED
    BY <1>0, <2>1, <2>2, HadGoodsStays
<1> QED
  BY <1>3, <1>4, <1>5, <1>7 DEF RequestInv, CandidatesTrue

\* Writing to rows that an order draws on leaves the others as they were.
LEMMA PostedStock ==
    ASSUME SeedInv, Undrawn, NEW o \in Orders, NEW w \in Warehouses, NEW type, NEW delta,
           NEW aa, NEW ra, DOMAIN delta \subseteq ProductsOf(o),
           Post(o, w, type, delta, aa, ra), UNCHANGED rows, warehouseOf'[o] = w,
           \A q \in Orders, x \in Warehouses : warehouseOf[q] = x => warehouseOf'[q] = x
    PROVE  Undrawn'
<1>1. available = [x \in Warehouses |-> [p \in Products |-> available[x][p]]]
  BY DEF SeedInv, SeedTypeOK
<1>2. available' = [available EXCEPT ![w] =
          [p \in Products |-> IF p \in DOMAIN delta THEN aa[p] ELSE available[w][p]]]
  BY DEF Post
<1>3. \A x \in Warehouses, p \in Products :
          available'[x][p] = IF x = w /\ p \in DOMAIN delta THEN aa[p] ELSE available[x][p]
  BY <1>1, <1>2
<1> SUFFICES ASSUME NEW x \in Warehouses, NEW p \in Products,
                    InventoryRow(x, p) \in rows, ~Drawn(x, p)'
             PROVE  available'[x][p] = InitialStock[x][p]
  BY DEF Undrawn
<1>4. ~Drawn(x, p)
  BY DEF Drawn, ProductsOf
<1>5. ~(x = w /\ p \in DOMAIN delta)
  BY DEF Drawn, ProductsOf
<1> QED
  BY <1>3, <1>4, <1>5 DEF Undrawn

LEMMA ReserveKeepsRequests ==
    ASSUME SeedInv, RequestInv, NEW o \in Orders, NEW w \in Warehouses, ReserveAt(o, w)
    PROVE  RequestInv'
<1>0. /\ RequestTypeOK /\ Undrawn /\ RequestsNew /\ CandidatesTrue /\ SeedTypeOK
      /\ Reserve(o, w) /\ UNCHANGED rows
      /\ request' = [request EXCEPT ![o] = "done"]
      /\ candidates' = [candidates EXCEPT ![o] = {}]
      /\ warehouseOf[o] = NoWarehouse /\ warehouseOf' = [warehouseOf EXCEPT ![o] = w]
  BY DEF RequestInv, SeedInv, ReserveAt, scriptVars, Reserve
<1>1. warehouseOf'[o] = w /\ \A q \in Orders : q # o => warehouseOf'[q] = warehouseOf[q]
  BY <1>0 DEF SeedTypeOK
<1>2. \A q \in Orders, x \in Warehouses : warehouseOf[q] = x => warehouseOf'[q] = x
  BY <1>0, <1>1, NoWarehouseAssumption
<1>3. RequestTypeOK'
  BY <1>0 DEF RequestTypeOK
<1>4. Undrawn'
  <2> DEFINE delta == [p \in ProductsOf(o) |-> -Lines[o][p]]
             aa == [p \in ProductsOf(o) |-> available[w][p] - Lines[o][p]]
             ra == [p \in ProductsOf(o) |-> reserved[w][p] + Lines[o][p]]
  <2>1. Post(o, w, "RESERVE", delta, aa, ra) /\ DOMAIN delta \subseteq ProductsOf(o)
    BY <1>0 DEF Reserve
  <2> HIDE DEF delta, aa, ra
  <2> QED
    BY <1>0, <1>1, <1>2, <2>1, PostedStock
<1>5. RequestsNew'
  BY <1>0, <1>1 DEF RequestsNew, RequestTypeOK
<1>6. ASSUME NEW x \in Orders, NEW v \in candidates'[x]
      PROVE  request'[x] = "trying" /\ HadGoods(x, v)'
  <2>1. x # o /\ v \in candidates[x] /\ v \in Warehouses /\ request'[x] = request[x]
    BY <1>0, <1>6 DEF RequestTypeOK
  <2>2. request[x] = "trying" /\ HadGoods(x, v)
    BY <1>0, <2>1 DEF CandidatesTrue
  <2> QED
    BY <1>0, <1>2, <2>1, <2>2, HadGoodsStays
<1> QED
  BY <1>3, <1>4, <1>5, <1>6 DEF RequestInv, CandidatesTrue

LEMMA SettleKeepsRequests ==
    ASSUME SeedInv, RequestInv, NEW o \in Orders, Settle(o)
    PROVE  RequestInv'
<1> DEFINE P == OpenLines(o)
           w == warehouseOf[o]
           amount == [p \in P |-> Abs(Latest(o, p).delta)]
           zero == [p \in P |-> 0]
           up == [p \in P |-> available[w][p] + amount[p]]
           same == [p \in P |-> available[w][p]]
           ra == [p \in P |-> reserved[w][p] - amount[p]]
<1>0. /\ Undrawn /\ SeedTypeOK /\ w # NoWarehouse
      /\ UNCHANGED <<rows, warehouseOf, request, candidates>>
      /\ \/ Post(o, w, "RELEASE", amount, up, ra)
         \/ Post(o, w, "COMMIT", zero, same, ra)
  BY DEF RequestInv, SeedInv, Settle, scriptVars, requestVars, Release, Commit
<1>1. w \in Warehouses /\ P \subseteq ProductsOf(o)
  BY <1>0, SameLines DEF SeedTypeOK
<1>2. DOMAIN amount \subseteq ProductsOf(o) /\ DOMAIN zero \subseteq ProductsOf(o)
  BY <1>1
<1> HIDE DEF amount, zero, up, same, ra, P
<1>3. Undrawn'
  BY <1>0, <1>1, <1>2, PostedStock
<1> QED
  BY <1>0, <1>3, RequestKept DEF RequestInv, RequestTypeOK

LEMMA RequestNext ==
    ASSUME SeedInv, RequestInv, [SeedingNext]_seedingVars
    PROVE  RequestInv'
<1>0. RequestTypeOK
  BY DEF RequestInv
<1>1. ASSUME UNCHANGED <<rows, available, warehouseOf, request, candidates>>
      PROVE  RequestInv'
  BY <1>0, <1>1, UndrawnKept, RequestKept DEF RequestTypeOK
<1>2. ASSUME NEW s \in Seeders, SeedStarts(s) \/ SeedExits(s) \/ SeedFails(s)
      PROVE  RequestInv'
  BY <1>1, <1>2 DEF SeedStarts, SeedExits, SeedFails, inventoryVars, requestVars
<1>3. CASE ServicesStart \/ UNCHANGED seedingVars
  BY <1>1, <1>3 DEF ServicesStart, seedingVars, seedVars, inventoryVars, requestVars
<1>4. CASE ServicesStop
  <2>1. /\ UNCHANGED <<rows, available, warehouseOf>>
        /\ request' = [o \in Orders |-> IF request[o] = "trying" THEN "idle" ELSE request[o]]
        /\ candidates' = [o \in Orders |-> {}]
    BY <1>4 DEF ServicesStop, inventoryVars
  <2>2. RequestTypeOK'
    BY <1>0, <2>1 DEF RequestTypeOK
  <2> QED
    BY <2>1, <2>2, UndrawnKept, RequestKept
<1>5. ASSUME NEW o \in Orders, NEW w \in Warehouses, LoseCandidate(o, w)
      PROVE  RequestInv'
  <2>1. /\ UNCHANGED <<rows, available, warehouseOf>>
        /\ request[o] = "trying"
        /\ candidates' = [candidates EXCEPT ![o] = candidates[o] \ {w}]
        /\ request' = [request EXCEPT ![o] =
              IF candidates[o] = {w} THEN "RESERVATION_RACE_LOST" ELSE request[o]]
    BY <1>5 DEF LoseCandidate, Tries, inventoryVars, scriptVars
  <2>2. RequestTypeOK'
    BY <1>0, <2>1 DEF RequestTypeOK
  <2> QED
    BY <1>0, <2>1, <2>2, UndrawnKept, RequestKept DEF RequestTypeOK
<1>6. ASSUME NEW o \in Orders, RequestFails(o)
      PROVE  RequestInv'
  <2>1. /\ UNCHANGED <<rows, available, warehouseOf>>
        /\ request[o] = "trying"
        /\ candidates' = [candidates EXCEPT ![o] = {}]
        /\ request' = [request EXCEPT ![o] = "idle"]
    BY <1>6 DEF RequestFails, inventoryVars, scriptVars
  <2>2. RequestTypeOK'
    BY <1>0, <2>1 DEF RequestTypeOK
  <2> QED
    BY <1>0, <2>1, <2>2, UndrawnKept, RequestKept DEF RequestTypeOK
<1> QED
  BY <1>2, <1>3, <1>4, <1>5, <1>6, InsertKeepsRequests, FindKeepsRequests,
     ReserveKeepsRequests, SettleKeepsRequests DEF SeedingNext

\* Behind a script that has ended every row is there, so that an order which
\* finds no candidate could be filled by no warehouse.
LEMMA NoCandidatesIsReal ==
    ASSUME SeedInv, RequestInv, [SeedingNext]_seedingVars, NEW o \in Orders,
           NEW w \in Warehouses, request[o] = "idle", request'[o] = "NO_CANDIDATES"
    PROVE  \E p \in ProductsOf(o) : Stock[w][p] < Lines[o][p]
<1>0. RequestTypeOK
  BY DEF RequestInv
<1>1. FindCandidates(o)
  <2>1. ASSUME NEW q \in Orders, q # o,
               FindCandidates(q) \/ RequestFails(q)
                 \/ \E v \in Warehouses : ReserveAt(q, v) \/ LoseCandidate(q, v)
        PROVE  request'[o] = request[o]
    BY <1>0, <2>1 DEF FindCandidates, RequestFails, ReserveAt, LoseCandidate, RequestTypeOK
  <2>2. ASSUME \/ RequestFails(o)
               \/ \E v \in Warehouses : ReserveAt(o, v) \/ LoseCandidate(o, v)
        PROVE  FALSE
    BY <2>2 DEF RequestFails, ReserveAt, LoseCandidate, Tries
  <2>3. ASSUME \/ \E s \in Seeders : SeedStarts(s) \/ InsertRow(s) \/ SeedExits(s) \/ SeedFails(s)
               \/ ServicesStart \/ (\E q \in Orders : Settle(q)) \/ UNCHANGED seedingVars
        PROVE  request'[o] = request[o]
    BY <2>3 DEF SeedStarts, InsertRow, SeedExits, SeedFails, ServicesStart, Settle,
                seedingVars, seedVars, requestVars
  <2>4. ~ServicesStop
    BY DEF ServicesStop
  <2> QED
    BY <2>1, <2>2, <2>3, <2>4 DEF SeedingNext
<1>2. PICK found \in SUBSET Eligible(o) :
          /\ found # Eligible(o) => Cardinality(found) = MaxCandidates
          /\ request' = [request EXCEPT ![o] =
                            IF found = {} THEN "NO_CANDIDATES" ELSE "trying"]
  BY <1>1 DEF FindCandidates
<1>3. found = {} /\ Cardinality({}) = 0
  BY <1>0, <1>2, FS_EmptySet DEF RequestTypeOK
<1>4. w \notin Eligible(o)
  BY <1>2, <1>3, ListsAssumption
<1>5. Complete
  BY <1>1 DEF SeedInv, FindCandidates
<1>6. \A r : In(r, Script) => r \in rows
  BY <1>5 DEF In, Complete
<1>7. Unmet(o, w) # {}
  BY <1>4, <1>6, ScriptRows DEF Eligible
<1>8. PICK p \in ProductsOf(o) : available[w][p] < Lines[o][p]
  BY <1>7 DEF Unmet
<1>9. /\ p \in Products /\ Lines[o][p] \in Nat /\ Lines[o][p] > 0
      /\ InitialStock[w][p] \in Nat
  BY LinesAssumption, StockAssumption DEF ProductsOf
<1>10. Stock[w][p] < Lines[o][p]
  <2>1. CASE InventoryRow(w, p) \in rows
    BY <1>8, <1>9, <2>1 DEF Stock
  <2>2. CASE InventoryRow(w, p) \notin rows
    <3>1. ~(InitialStock[w][p] > 0)
      BY <1>6, <1>9, <2>2, ScriptRows
    <3>2. Stock[w][p] = InitialStock[w][p]
      BY <1>9, <2>2 DEF Stock
    <3> QED
      BY <1>9, <3>1, <3>2
  <2> QED
    BY <2>1, <2>2
<1> QED
  BY <1>10

\* A candidate had the goods, and only another order takes them.
LEMMA LostToAnother ==
    ASSUME SeedInv, RequestInv, NEW o \in Orders, NEW w \in Warehouses,
           LoseCandidate(o, w), NEW p \in Unmet(o, w)
    PROVE  \E q \in Orders \ {o} : p \in ProductsOf(q) /\ warehouseOf[q] = w
<1>1. w \in candidates[o] /\ request[o] = "trying"
  BY DEF LoseCandidate, Tries
<1>2. HadGoods(o, w) /\ warehouseOf[o] = NoWarehouse
  BY <1>1 DEF RequestInv, CandidatesTrue, RequestsNew
<1>3. /\ p \in ProductsOf(o) /\ p \in Products /\ available[w][p] < Lines[o][p]
      /\ Lines[o][p] \in Nat /\ InitialStock[w][p] \in Nat
  BY LinesAssumption, StockAssumption DEF Unmet, ProductsOf
<1>4. Drawn(w, p)
  BY <1>2, <1>3 DEF HadGoods, RequestInv, Undrawn
<1> QED
  BY <1>2, <1>4, NoWarehouseAssumption DEF Drawn

\* For any catalogue, any limit and whatever runs of the script failed: an
\* order finds no candidate only when no warehouse could fill it from the
\* stock of the whole catalogue, and a candidate comes to lack goods only
\* through another order that reserved those goods there.
THEOREM RefusalsAlwaysReal == SeedingSpec => RefusalsAreReal
<1> DEFINE Real == \A o \in Orders, w \in Warehouses :
        /\ request[o] = "idle" /\ request'[o] = "NO_CANDIDATES" =>
              \E p \in ProductsOf(o) : Stock[w][p] < Lines[o][p]
        /\ LoseCandidate(o, w) => \A p \in Unmet(o, w) :
              \E q \in Orders \ {o} : p \in ProductsOf(q) /\ warehouseOf[q] = w
<1>1. SeedInv /\ RequestInv /\ [SeedingNext]_seedingVars => [Real]_seedingVars
  BY NoCandidatesIsReal, LostToAnother
<1> QED
  BY <1>1, SeedInit, SeedNext, RequestInit, RequestNext, PTL DEF SeedingSpec, RefusalsAreReal
=============================================================================
