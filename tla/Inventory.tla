------------------------------- MODULE Inventory -------------------------------
(***************************************************************************)
(* The stock ledger of src/application/allocation/inventory.service.ts:    *)
(* the balances of the `inventory` table and the append-only               *)
(* `inventory_movements` table, under the three operations reserve,        *)
(* release and commit.  Each operation runs inside one database            *)
(* transaction that holds the row locks of every row it touches, so it is  *)
(* one action here.                                                        *)
(*                                                                         *)
(* An order's lines are a function from products to quantities; quantity 0 *)
(* means that the order has no line for the product (the DTO rejects       *)
(* duplicate products and the schema quantities below 1).  A missing       *)
(* inventory row behaves like a row without stock.                         *)
(***************************************************************************)
EXTENDS Integers, Sequences, FiniteSets, FiniteSetsExt

CONSTANTS
    Warehouses,     \* warehouses.id
    Products,       \* products.id
    Orders,         \* order ids; a fresh id is generated for each request
    Lines,          \* Lines[o][p]: the quantity of product p that o asks for
    InitialStock,   \* InitialStock[w][p]: the seeded quantity_available
    NoWarehouse     \* orders.warehouse_id of an order that is not inserted

ASSUME LinesAssumption == Lines \in [Orders -> [Products -> Nat]]
ASSUME StockAssumption == InitialStock \in [Warehouses -> [Products -> Nat]]
ASSUME NoWarehouseAssumption == NoWarehouse \notin Warehouses

VARIABLES
    available,      \* inventory.quantity_available by warehouse and product
    reserved,       \* inventory.quantity_reserved by warehouse and product
    movements,      \* inventory_movements of each product, in id order
    warehouseOf     \* orders.warehouse_id

inventoryVars == <<available, reserved, movements, warehouseOf>>

MovementTypes == {"RESERVE", "RELEASE", "COMMIT"}

Movement == [warehouse : Warehouses, order : Orders, type : MovementTypes,
             delta : Int, availableAfter : Int, reservedAfter : Int]

ProductsOf(o) == {p \in Products : Lines[o][p] > 0}

InventoryInit ==
    /\ available = InitialStock
    /\ reserved = [w \in Warehouses |-> [p \in Products |-> 0]]
    /\ movements = [p \in Products |-> <<>>]
    /\ warehouseOf = [o \in Orders |-> NoWarehouse]

-----------------------------------------------------------------------------
(* Reading the ledger *)

\* The positions of the movements of order o for product p.
MovesOf(o, p) == {i \in 1..Len(movements[p]) : movements[p][i].order = o}

\* ORDER BY id DESC LIMIT 1, for an order and product that have a movement.
Latest(o, p) == movements[p][Max(MovesOf(o, p))]

\* Mutant: a line counts as open for ever once it is reserved.
EveryReservedLine(o) == {p \in ProductsOf(o) : MovesOf(o, p) # {}}

\* The lines release and commit act on: the ones whose latest movement is not
\* already terminal.  A line that was never reserved has no movement.
OpenLines(o) ==
    {p \in ProductsOf(o) :
        /\ MovesOf(o, p) # {}
        /\ Latest(o, p).type \notin {"RELEASE", "COMMIT"}}

Abs(n) == IF n < 0 THEN -n ELSE n

\* The lines that warehouse w cannot supply, re-verified under the row locks.
Unmet(o, w) == {p \in ProductsOf(o) : available[w][p] < Lines[o][p]}

-----------------------------------------------------------------------------
(* The three operations *)

\* Mutant: the movement records the balances from before the update.
PostStaleSnapshot(o, w, type, delta, availableAfter, reservedAfter) ==
    LET P == DOMAIN delta IN
    /\ available' = [available EXCEPT ![w] =
           [p \in Products |-> IF p \in P THEN availableAfter[p] ELSE @[p]]]
    /\ reserved' = [reserved EXCEPT ![w] =
           [p \in Products |-> IF p \in P THEN reservedAfter[p] ELSE @[p]]]
    /\ movements' = [p \in Products |->
           IF p \in P
           THEN Append(movements[p],
                       [warehouse |-> w, order |-> o, type |-> type,
                        delta |-> delta[p],
                        availableAfter |-> available[w][p],
                        reservedAfter |-> reserved[w][p]])
           ELSE movements[p]]

\* updateInventoryBalances and insertMovement for every product in the domain
\* of delta: the balance written to the row is the one the movement records.
Post(o, w, type, delta, availableAfter, reservedAfter) ==
    LET P == DOMAIN delta IN
    /\ available' = [available EXCEPT ![w] =
           [p \in Products |-> IF p \in P THEN availableAfter[p] ELSE @[p]]]
    /\ reserved' = [reserved EXCEPT ![w] =
           [p \in Products |-> IF p \in P THEN reservedAfter[p] ELSE @[p]]]
    /\ movements' = [p \in Products |->
           IF p \in P
           THEN Append(movements[p],
                       [warehouse |-> w, order |-> o, type |-> type,
                        delta |-> delta[p],
                        availableAfter |-> availableAfter[p],
                        reservedAfter |-> reservedAfter[p]])
           ELSE movements[p]]

\* reserve: the order's row is inserted by onBeforeReserve in the same
\* transaction, and the order id is fresh, hence the first conjunct.  When a
\* line is unmet the transaction rolls back, and nothing changes.
Reserve(o, w) ==
    LET P == ProductsOf(o) IN
    /\ warehouseOf[o] = NoWarehouse
    /\ Unmet(o, w) = {}
    /\ Post(o, w, "RESERVE",
            [p \in P |-> -Lines[o][p]],
            [p \in P |-> available[w][p] - Lines[o][p]],
            [p \in P |-> reserved[w][p] + Lines[o][p]])
    /\ warehouseOf' = [warehouseOf EXCEPT ![o] = w]

Release(o) ==
    LET w == warehouseOf[o]
        amount == [p \in OpenLines(o) |-> Abs(Latest(o, p).delta)]
    IN  /\ w # NoWarehouse
        /\ Post(o, w, "RELEASE", amount,
                [p \in OpenLines(o) |-> available[w][p] + amount[p]],
                [p \in OpenLines(o) |-> reserved[w][p] - amount[p]])
        /\ UNCHANGED warehouseOf

\* commit leaves quantity_available alone: the units left it at reserve.
Commit(o) ==
    LET w == warehouseOf[o]
        amount == [p \in OpenLines(o) |-> Abs(Latest(o, p).delta)]
    IN  /\ w # NoWarehouse
        /\ Post(o, w, "COMMIT",
                [p \in OpenLines(o) |-> 0],
                [p \in OpenLines(o) |-> available[w][p]],
                [p \in OpenLines(o) |-> reserved[w][p] - amount[p]])
        /\ UNCHANGED warehouseOf

\* release and commit may be called any number of times, in any order.
InventoryNext ==
    \E o \in Orders :
        \/ \E w \in Warehouses : Reserve(o, w)
        \/ Release(o)
        \/ Commit(o)

\* What a settlement implements: stock changes only by a whole reserve of a
\* fresh order, or a whole release or commit of the lines still open.
InventorySpec == InventoryInit /\ [][InventoryNext]_inventoryVars

-----------------------------------------------------------------------------
(* Properties *)

InventoryTypeOK ==
    /\ available \in [Warehouses -> [Products -> Int]]
    /\ reserved \in [Warehouses -> [Products -> Int]]
    /\ movements \in [Products -> Seq(Movement)]
    /\ warehouseOf \in [Orders -> Warehouses \cup {NoWarehouse}]

\* The lines of an order whose units were sold.
SoldLines(o) ==
    {p \in ProductsOf(o) : /\ MovesOf(o, p) # {}
                           /\ Latest(o, p).type = "COMMIT"}

\* The orders of warehouse w whose line for p is open, and whose line is sold.
Holders(w, p) == {o \in Orders : warehouseOf[o] = w /\ p \in OpenLines(o)}
Buyers(w, p) == {o \in Orders : warehouseOf[o] = w /\ p \in SoldLines(o)}

\* One element per unit of stock, so that a cardinality counts units.
UnitsOf(S, p) == UNION {{o} \X (1..Lines[o][p]) : o \in S}
HeldUnits(w, p) == UnitsOf(Holders(w, p), p)
SoldUnits(w, p) == UnitsOf(Buyers(w, p), p)

\* The CHECK constraints of the inventory table (quantity_available >= 0 and
\* quantity_reserved >= 0) never fire: no interleaving of reserve, release and
\* commit oversells a warehouse or gives back more than is reserved.
NonNegative ==
    \A w \in Warehouses, p \in Products :
        available[w][p] >= 0 /\ reserved[w][p] >= 0

\* quantity_reserved of a row is exactly what the open reservations of that
\* row's warehouse ask for: no unit is reserved for nobody, none is lost.
ReservedIsHeld ==
    \A w \in Warehouses, p \in Products :
        reserved[w][p] = Cardinality(HeldUnits(w, p))

\* Every seeded unit is available, reserved or sold by a commit, once: release
\* and commit called again, or after each other, never create or lose stock.
StockConserved ==
    \A w \in Warehouses, p \in Products :
        available[w][p] + reserved[w][p] + Cardinality(SoldUnits(w, p))
            = InitialStock[w][p]

\* verify-ledger.sql returns no row: the snapshot in the last movement of a
\* (warehouse, product) pair is that row's current balance.
LedgerReplays ==
    \A w \in Warehouses, p \in Products :
        LET I == {i \in 1..Len(movements[p]) : movements[p][i].warehouse = w}
        IN  \A i \in I : (\A j \in I : j <= i) =>
                /\ movements[p][i].availableAfter = available[w][p]
                /\ movements[p][i].reservedAfter = reserved[w][p]

\* What the ledger says of one line is a RESERVE followed by at most one
\* RELEASE or COMMIT in the warehouse that reserved it: the latest-movement
\* rule makes release and commit idempotent, also after each other.
EachLineEndsOnce ==
    \A o \in Orders, p \in Products :
        \A i, j \in MovesOf(o, p) : i < j =>
            /\ movements[p][i].type = "RESERVE"
            /\ movements[p][j].type \in {"RELEASE", "COMMIT"}
            /\ movements[p][i].warehouse = movements[p][j].warehouse

\* An order is reserved, released or sold as a whole: its lines are never in
\* different states, because an operation moves all of them or none.
LinesMoveTogether ==
    \A o \in Orders :
        warehouseOf[o] # NoWarehouse =>
            \A p, q \in ProductsOf(o) :
                /\ MovesOf(o, p) # {}
                /\ Latest(o, p).type = Latest(o, q).type
=============================================================================
