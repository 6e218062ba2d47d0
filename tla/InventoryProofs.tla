---------------------------- MODULE InventoryProofs ----------------------------
(***************************************************************************)
(* Theorems about the stock ledger of module Inventory, for any number of  *)
(* warehouses, products and orders, any order lines and any seeded stock.  *)
(***************************************************************************)
EXTENDS Inventory, FiniteSetTheorems, TLAPS

(***************************************************************************)
(* Facts about the helpers                                                 *)
(***************************************************************************)

\* The maximum of a set of integers is whatever bounds it from inside.
LEMMA MaxIs ==
    ASSUME NEW S \in SUBSET Int, NEW i \in S, \A j \in S : j <= i
    PROVE  Max(S) = i
<1>1. \E x \in S : \A y \in S : x >= y
  OBVIOUS
<1>2. Max(S) \in S /\ \A y \in S : Max(S) >= y
  BY <1>1, Zenon DEF Max
<1>3. Max(S) \in Int /\ i \in Int /\ Max(S) >= i /\ Max(S) <= i
  BY <1>2
<1> QED
  BY <1>3

\* The units of an order's line for a product: as many as its quantity.
LEMMA UnitsOfLine ==
    ASSUME NEW o \in Orders, NEW p \in Products
    PROVE  /\ IsFiniteSet({o} \X (1..Lines[o][p]))
           /\ Cardinality({o} \X (1..Lines[o][p])) = Lines[o][p]
<1>1. Lines[o][p] \in Nat
  BY LinesAssumption
<1>2. IsFiniteSet(1..Lines[o][p]) /\ Cardinality(1..Lines[o][p]) = Lines[o][p]
  <2> DEFINE q == Lines[o][p]
  <2> HIDE DEF q
  <2>1. q \in Nat
    BY <1>1 DEF q
  <2>2. /\ IsFiniteSet(1..q)
        /\ Cardinality(1..q) = IF 1 > q THEN 0 ELSE q - 1 + 1
    BY <2>1, FS_Interval
  <2>3. Cardinality(1..q) = q
    BY <2>1, <2>2
  <2> QED
    BY <2>2, <2>3 DEF q
<1>3. IsFiniteSet({o}) /\ Cardinality({o}) = 1
  BY FS_Singleton
<1>4. /\ IsFiniteSet({o} \X (1..Lines[o][p]))
      /\ Cardinality({o} \X (1..Lines[o][p])) = 1 * Lines[o][p]
  <2> DEFINE S == {o}
             T == 1..Lines[o][p]
  <2>1. IsFiniteSet(S) /\ IsFiniteSet(T)
    BY <1>2, <1>3
  <2> HIDE DEF S, T
  <2>2. /\ IsFiniteSet(S \X T)
        /\ Cardinality(S \X T) = Cardinality(S) * Cardinality(T)
    BY <2>1, FS_Product, Zenon
  <2>3. Cardinality(S) = 1 /\ Cardinality(T) = Lines[o][p]
    BY <1>2, <1>3 DEF S, T
  <2> QED
    BY <2>2, <2>3 DEF S, T
<1> QED
  BY <1>1, <1>4

\* Adding a new order to a set of orders adds the units of its line.
LEMMA AddUnits ==
    ASSUME NEW S, NEW o \in Orders, o \notin S, NEW p \in Products,
           IsFiniteSet(UnitsOf(S, p))
    PROVE  /\ IsFiniteSet(UnitsOf(S \cup {o}, p))
           /\ Cardinality(UnitsOf(S \cup {o}, p))
                = Cardinality(UnitsOf(S, p)) + Lines[o][p]
<1> DEFINE A == UnitsOf(S, p)
           B == {o} \X (1..Lines[o][p])
<1>1. UnitsOf(S \cup {o}, p) = A \cup B
  BY DEF UnitsOf
<1>2. A \cap B = {}
  BY DEF UnitsOf
<1>3. IsFiniteSet(B) /\ Cardinality(B) = Lines[o][p]
  BY UnitsOfLine
<1>4. /\ IsFiniteSet(A \cup B)
      /\ Cardinality(A \cup B)
           = Cardinality(A) + Cardinality(B) - Cardinality(A \cap B)
  BY <1>3, FS_Union
<1>5. Cardinality(A \cap B) = 0
  BY <1>2, FS_EmptySet
<1>6. Cardinality(A) \in Nat /\ Cardinality(B) \in Nat
  BY <1>3, FS_CardinalityType
<1> HIDE DEF A, B
<1>7. Cardinality(A \cup B) = Cardinality(A) + Lines[o][p]
  BY <1>3, <1>4, <1>5, <1>6
<1> QED
  BY <1>1, <1>4, <1>7 DEF A

\* Taking an order out of a set of orders takes its units out.
LEMMA RemoveUnits ==
    ASSUME NEW S, NEW o \in Orders, o \in S, NEW p \in Products,
           IsFiniteSet(UnitsOf(S, p))
    PROVE  /\ IsFiniteSet(UnitsOf(S \ {o}, p))
           /\ Cardinality(UnitsOf(S, p))
                = Cardinality(UnitsOf(S \ {o}, p)) + Lines[o][p]
<1>1. UnitsOf(S \ {o}, p) \in SUBSET UnitsOf(S, p)
  BY DEF UnitsOf
<1>2. IsFiniteSet(UnitsOf(S \ {o}, p))
  BY <1>1, FS_Subset
<1>3. (S \ {o}) \cup {o} = S
  OBVIOUS
<1>4. Cardinality(UnitsOf((S \ {o}) \cup {o}, p))
        = Cardinality(UnitsOf(S \ {o}, p)) + Lines[o][p]
  BY <1>2, AddUnits
<1> QED
  BY <1>2, <1>3, <1>4

\* Two sets of orders that agree on every order but o.
LEMMA AgreeExcept ==
    ASSUME NEW S \in SUBSET Orders, NEW T \in SUBSET Orders, NEW o \in Orders,
           \A x \in Orders : x # o => (x \in T <=> x \in S)
    PROVE  /\ (o \in T <=> o \in S) => T = S
           /\ o \in T => T = S \cup {o}
           /\ o \notin T => T = S \ {o}
OBVIOUS

(***************************************************************************)
(* What Post does to the ledger                                            *)
(***************************************************************************)

\* The line's movements have a last one.
HasLatest(o, p) == \E i \in MovesOf(o, p) : \A j \in MovesOf(o, p) : j <= i

\* Post keeps the types of the tables it writes.
LEMMA PostType ==
    ASSUME InventoryTypeOK, NEW o \in Orders, NEW w \in Warehouses,
           NEW type \in MovementTypes, NEW P \in SUBSET Products,
           NEW delta \in [P -> Int], NEW aa \in [P -> Int],
           NEW ra \in [P -> Int], Post(o, w, type, delta, aa, ra)
    PROVE  /\ available' \in [Warehouses -> [Products -> Int]]
           /\ reserved' \in [Warehouses -> [Products -> Int]]
           /\ movements' \in [Products -> Seq(Movement)]
<1>1. DOMAIN delta = P
  OBVIOUS
<1>2. available' \in [Warehouses -> [Products -> Int]]
  BY <1>1 DEF InventoryTypeOK, Post
<1>3. reserved' \in [Warehouses -> [Products -> Int]]
  BY <1>1 DEF InventoryTypeOK, Post
<1>4. movements' \in [Products -> Seq(Movement)]
  <2>1. ASSUME NEW p \in P
        PROVE  [warehouse |-> w, order |-> o, type |-> type,
                delta |-> delta[p], availableAfter |-> aa[p],
                reservedAfter |-> ra[p]] \in Movement
    BY <2>1 DEF Movement
  <2>2. ASSUME NEW p \in Products
        PROVE  movements'[p] \in Seq(Movement)
    BY <1>1, <2>1, <2>2 DEF InventoryTypeOK, Post
  <2> QED
    BY <1>1, <2>2 DEF Post
<1> QED
  BY <1>2, <1>3, <1>4

\* After Post, the latest movement of a line it wrote is the one it wrote.
LEMMA PostOwn ==
    ASSUME InventoryTypeOK, NEW o \in Orders, NEW w \in Warehouses,
           NEW type \in MovementTypes, NEW P \in SUBSET Products,
           NEW delta \in [P -> Int], NEW aa \in [P -> Int],
           NEW ra \in [P -> Int], Post(o, w, type, delta, aa, ra),
           NEW p \in P
    PROVE  /\ MovesOf(o, p)' # {}
           /\ HasLatest(o, p)'
           /\ Latest(o, p)'.type = type
           /\ Latest(o, p)'.delta = delta[p]
<1> DEFINE m == [warehouse |-> w, order |-> o, type |-> type,
                 delta |-> delta[p], availableAfter |-> aa[p],
                 reservedAfter |-> ra[p]]
           n == Len(movements[p]) + 1
<1>1. movements'[p] = Append(movements[p], m)
  BY DEF Post
<1>2. movements[p] \in Seq(Movement)
  BY DEF InventoryTypeOK
<1>3. m.order = o /\ m.type = type /\ m.delta = delta[p]
  OBVIOUS
<1>4. n \in 1..Len(movements'[p]) /\ movements'[p][n] = m
      /\ Len(movements'[p]) = n
  <2> HIDE DEF m
  <2> QED  BY <1>1, <1>2
<1> HIDE DEF m, n
<1>5. MovesOf(o, p)' \in SUBSET Int
  BY DEF MovesOf
<1>6. n \in MovesOf(o, p)' /\ \A j \in MovesOf(o, p)' : j <= n
  BY <1>3, <1>4 DEF MovesOf
<1>7. Max(MovesOf(o, p)') = n
  BY <1>5, <1>6, MaxIs
<1>8. Latest(o, p)' = m
  BY <1>4, <1>7 DEF Latest
<1> QED
  BY <1>3, <1>6, <1>8 DEF HasLatest

\* Post leaves what the ledger says of every other line as it was.
LEMMA PostOther ==
    ASSUME InventoryTypeOK, NEW o \in Orders, NEW w \in Warehouses,
           NEW type \in MovementTypes, NEW P \in SUBSET Products,
           NEW delta \in [P -> Int], NEW aa \in [P -> Int],
           NEW ra \in [P -> Int], Post(o, w, type, delta, aa, ra),
           NEW x \in Orders, NEW p \in Products, x # o \/ p \notin P
    PROVE  /\ MovesOf(x, p)' = MovesOf(x, p)
           /\ HasLatest(x, p) => HasLatest(x, p)' /\ Latest(x, p)' = Latest(x, p)
<1>1. CASE p \notin P
  <2>1. movements'[p] = movements[p]
    BY <1>1 DEF Post
  <2>2. MovesOf(x, p)' = MovesOf(x, p)
    BY <2>1 DEF MovesOf
  <2> QED
    BY <2>1, <2>2 DEF HasLatest, Latest
<1>2. CASE p \in P /\ x # o
  <2> DEFINE m == [warehouse |-> w, order |-> o, type |-> type,
                   delta |-> delta[p], availableAfter |-> aa[p],
                   reservedAfter |-> ra[p]]
             n == Len(movements[p])
  <2>1. movements'[p] = Append(movements[p], m)
    BY <1>2 DEF Post
  <2>2. m.order = o
    OBVIOUS
  <2>3. movements[p] \in Seq(Movement) /\ n \in Nat
    BY DEF InventoryTypeOK
  <2> HIDE DEF m, n
  <2>4. /\ Len(movements'[p]) = n + 1
        /\ movements'[p][n + 1] = m
        /\ \A i \in 1..n : movements'[p][i] = movements[p][i]
    BY <2>1, <2>3 DEF n
  <2>5. MovesOf(x, p)' = MovesOf(x, p)
    <3>1. /\ MovesOf(x, p) = {i \in 1..n : movements[p][i].order = x}
          /\ MovesOf(x, p)' = {i \in 1..(n + 1) : movements'[p][i].order = x}
      BY <2>4 DEF MovesOf, n
    <3>2. movements'[p][n + 1].order # x
      BY <1>2, <2>2, <2>4
    <3>3. \A i \in 1..(n + 1) : i \in 1..n \/ i = n + 1
      BY <2>3
    <3>4. 1..n \subseteq 1..(n + 1)
      BY <2>3
    <3>5. \A i \in 1..n : movements'[p][i].order = movements[p][i].order
      BY <2>4
    <3> QED
      BY <3>1, <3>2, <3>3, <3>4, <3>5, Zenon
  <2>6. ASSUME HasLatest(x, p)
        PROVE  HasLatest(x, p)' /\ Latest(x, p)' = Latest(x, p)
    <3>1. PICK i \in MovesOf(x, p) : \A j \in MovesOf(x, p) : j <= i
      BY <2>6 DEF HasLatest
    <3>2. MovesOf(x, p) \in SUBSET Int
      BY DEF MovesOf
    <3>3. Max(MovesOf(x, p)) = i
      BY <3>1, <3>2, MaxIs
    <3>4. i \in 1..n
      BY <3>1 DEF MovesOf, n
    <3>5. movements'[p][Max(MovesOf(x, p)')] = movements[p][Max(MovesOf(x, p))]
      BY <2>4, <2>5, <3>3, <3>4
    <3> QED
      BY <2>5, <3>1, <3>5 DEF HasLatest, Latest
  <2> QED
    BY <2>5, <2>6
<1> QED
  BY <1>1, <1>2

(***************************************************************************)
(* The inductive invariant                                                 *)
(*                                                                         *)
(* ReservedIsHeld and StockConserved count units by what the ledger says   *)
(* of each line, so the invariant adds: a line has movements exactly when  *)
(* its order was reserved, its latest movement exists, a RESERVE records   *)
(* the quantity of the line (release and commit read the amount back from  *)
(* it), and the sets of units are finite.                                  *)
(***************************************************************************)

LineRecorded ==
    \A o \in Orders, p \in Products :
        IF warehouseOf[o] # NoWarehouse /\ p \in ProductsOf(o)
        THEN /\ HasLatest(o, p)
             /\ MovesOf(o, p) # {}
             /\ Latest(o, p).type \in MovementTypes
             /\ Latest(o, p).type = "RESERVE"
                    => Latest(o, p).delta = -Lines[o][p]
        ELSE MovesOf(o, p) = {}

UnitsFinite ==
    \A w \in Warehouses, p \in Products :
        IsFiniteSet(HeldUnits(w, p)) /\ IsFiniteSet(SoldUnits(w, p))

NeverOversold ==
    \A w \in Warehouses, p \in Products : available[w][p] >= 0

InventoryInv ==
    /\ InventoryTypeOK
    /\ LineRecorded
    /\ UnitsFinite
    /\ NeverOversold
    /\ ReservedIsHeld
    /\ StockConserved

\* The invariant holds of the seeded stock and the empty ledger.
LEMMA InventoryInitInv == InventoryInit => InventoryInv
<1> SUFFICES ASSUME InventoryInit PROVE InventoryInv
  OBVIOUS
<1> USE DEF InventoryInit
<1>1. InventoryTypeOK
  <2>1. movements \in [Products -> Seq(Movement)]
    <3>1. <<>> \in Seq(Movement)
      OBVIOUS
    <3> QED  BY <3>1
  <2> QED
    BY <2>1, StockAssumption, LinesAssumption DEF InventoryTypeOK
<1>2. ASSUME NEW o \in Orders, NEW p \in Products
      PROVE  MovesOf(o, p) = {}
  BY <1>2 DEF MovesOf
<1>3. LineRecorded
  BY <1>2 DEF LineRecorded
<1>4. ASSUME NEW w \in Warehouses, NEW p \in Products
      PROVE  HeldUnits(w, p) = {} /\ SoldUnits(w, p) = {}
  <2>1. Holders(w, p) = {} /\ Buyers(w, p) = {}
    BY <1>2, <1>4, NoWarehouseAssumption DEF Holders, Buyers, OpenLines, SoldLines
  <2> QED
    BY <2>1 DEF HeldUnits, SoldUnits, UnitsOf
<1>5. IsFiniteSet({}) /\ Cardinality({}) = 0
  BY FS_EmptySet
<1>6. UnitsFinite
  BY <1>4, <1>5 DEF UnitsFinite
<1>7. ASSUME NEW w \in Warehouses, NEW p \in Products
      PROVE  /\ available[w][p] \in Nat
             /\ reserved[w][p] = 0
             /\ available[w][p] = InitialStock[w][p]
             /\ Cardinality(HeldUnits(w, p)) = 0
             /\ Cardinality(SoldUnits(w, p)) = 0
  BY <1>4, <1>5, <1>7, StockAssumption
<1>8. NeverOversold
  BY <1>7 DEF NeverOversold
<1>9. ReservedIsHeld
  BY <1>7 DEF ReservedIsHeld
<1>10. StockConserved
  BY <1>7 DEF StockConserved
<1> QED
  BY <1>1, <1>3, <1>6, <1>8, <1>9, <1>10 DEF InventoryInv

\* Under the invariant, a line is open exactly when its latest movement is a
\* RESERVE of its order.
LEMMA OpenIsReserved ==
    ASSUME LineRecorded, NEW o \in Orders, NEW p \in Products
    PROVE  p \in OpenLines(o) <=>
             /\ warehouseOf[o] # NoWarehouse
             /\ p \in ProductsOf(o)
             /\ Latest(o, p).type = "RESERVE"
BY DEF LineRecorded, OpenLines, MovementTypes

\* A step that writes the lines P of order o in warehouse w leaves the lines
\* of the other orders, and the other lines, open, sold or neither.
LEMMA PostOtherLines ==
    ASSUME InventoryTypeOK, LineRecorded, NEW o \in Orders,
           NEW w \in Warehouses,
           NEW type \in MovementTypes, NEW P \in SUBSET Products,
           NEW delta \in [P -> Int], NEW aa \in [P -> Int],
           NEW ra \in [P -> Int], Post(o, w, type, delta, aa, ra),
           NEW x \in Orders, NEW p \in Products, x # o \/ p \notin P
    PROVE  /\ p \in OpenLines(x)' <=> p \in OpenLines(x)
           /\ p \in SoldLines(x)' <=> p \in SoldLines(x)
<1>1. /\ MovesOf(x, p)' = MovesOf(x, p)
      /\ HasLatest(x, p) => HasLatest(x, p)' /\ Latest(x, p)' = Latest(x, p)
  BY PostOther
<1>2. MovesOf(x, p) # {} => HasLatest(x, p)
  BY DEF LineRecorded
<1> QED
  BY <1>1, <1>2 DEF OpenLines, SoldLines, ProductsOf

\* What reserve changes, line by line: the lines of o open in w.
LEMMA ReserveStep ==
    ASSUME InventoryInv, NEW o \in Orders, NEW w \in Warehouses, Reserve(o, w)
    PROVE  InventoryInv'
<1> DEFINE P == ProductsOf(o)
           delta == [p \in P |-> -Lines[o][p]]
           aa == [p \in P |-> available[w][p] - Lines[o][p]]
           ra == [p \in P |-> reserved[w][p] + Lines[o][p]]
<1>0. InventoryTypeOK /\ LineRecorded
  BY DEF InventoryInv
<1>1. /\ P \in SUBSET Products
      /\ delta \in [P -> Int] /\ aa \in [P -> Int] /\ ra \in [P -> Int]
  BY <1>0, LinesAssumption DEF InventoryTypeOK, ProductsOf
<1>2. Post(o, w, "RESERVE", delta, aa, ra)
  BY DEF Reserve
<1>3. /\ warehouseOf[o] = NoWarehouse
      /\ warehouseOf' = [warehouseOf EXCEPT ![o] = w]
      /\ \A p \in P : available[w][p] >= Lines[o][p]
  BY <1>0, LinesAssumption DEF Reserve, Unmet, InventoryTypeOK, ProductsOf
<1>4. "RESERVE" \in MovementTypes /\ DOMAIN delta = P
  BY DEF MovementTypes
<1>5. InventoryTypeOK'
  <2>1. warehouseOf' \in [Orders -> Warehouses \cup {NoWarehouse}]
    BY <1>0, <1>3 DEF InventoryTypeOK
  <2> HIDE DEF delta, aa, ra, P
  <2> QED
    BY <1>0, <1>1, <1>2, <1>4, <2>1, PostType DEF InventoryTypeOK
<1>6. ASSUME NEW p \in P
      PROVE  /\ MovesOf(o, p)' # {}
             /\ HasLatest(o, p)'
             /\ Latest(o, p)'.type = "RESERVE"
             /\ Latest(o, p)'.delta = -Lines[o][p]
  <2>1. delta[p] = -Lines[o][p]
    OBVIOUS
  <2> HIDE DEF delta, aa, ra, P
  <2> QED
    BY <1>0, <1>1, <1>2, <1>4, <1>6, <2>1, PostOwn
<1>7. ASSUME NEW x \in Orders, NEW p \in Products, x # o \/ p \notin P
      PROVE  /\ MovesOf(x, p)' = MovesOf(x, p)
             /\ HasLatest(x, p) => HasLatest(x, p)' /\ Latest(x, p)' = Latest(x, p)
             /\ p \in OpenLines(x)' <=> p \in OpenLines(x)
             /\ p \in SoldLines(x)' <=> p \in SoldLines(x)
  <2> HIDE DEF delta, aa, ra, P
  <2>1. /\ MovesOf(x, p)' = MovesOf(x, p)
        /\ HasLatest(x, p) => HasLatest(x, p)' /\ Latest(x, p)' = Latest(x, p)
    BY <1>0, <1>1, <1>2, <1>4, <1>7, PostOther
  <2>2. /\ p \in OpenLines(x)' <=> p \in OpenLines(x)
        /\ p \in SoldLines(x)' <=> p \in SoldLines(x)
    BY <1>0, <1>1, <1>2, <1>4, <1>7, PostOtherLines
  <2> QED
    BY <2>1, <2>2
<1>8. LineRecorded'
  <2> SUFFICES ASSUME NEW x \in Orders, NEW p \in Products
               PROVE  (IF warehouseOf[x] # NoWarehouse /\ p \in ProductsOf(x)
                       THEN /\ HasLatest(x, p)
                            /\ MovesOf(x, p) # {}
                            /\ Latest(x, p).type \in MovementTypes
                            /\ Latest(x, p).type = "RESERVE"
                                 => Latest(x, p).delta = -Lines[x][p]
                       ELSE MovesOf(x, p) = {})'
    BY DEF LineRecorded
  <2>1. CASE x = o /\ p \in P
    <3>1. p \in ProductsOf(x)' /\ warehouseOf'[x] # NoWarehouse
      BY <1>0, <1>3, <2>1, NoWarehouseAssumption DEF InventoryTypeOK, ProductsOf
    <3> QED
      BY <1>4, <1>6, <2>1, <3>1
  <2>2. CASE x = o /\ p \notin P
    <3>1. MovesOf(x, p) = {}
      BY <1>0, <2>2 DEF LineRecorded
    <3> QED
      BY <1>7, <2>2, <3>1 DEF ProductsOf
  <2>3. CASE x # o
    <3>1. warehouseOf'[x] = warehouseOf[x]
      BY <1>0, <1>3, <2>3 DEF InventoryTypeOK
    <3> QED
      BY <1>0, <1>7, <2>3, <3>1 DEF LineRecorded, ProductsOf
  <2> QED
    BY <2>1, <2>2, <2>3
<1>9. ASSUME NEW x \in Orders, x # o
      PROVE  warehouseOf'[x] = warehouseOf[x]
  BY <1>0, <1>3, <1>9 DEF InventoryTypeOK
<1>10. warehouseOf'[o] = w
  BY <1>0, <1>3 DEF InventoryTypeOK
\* The balances and the units of each row.
<1>11. ASSUME NEW v \in Warehouses, NEW p \in Products
       PROVE  /\ IsFiniteSet(HeldUnits(v, p))' /\ IsFiniteSet(SoldUnits(v, p))'
              /\ available'[v][p] >= 0
              /\ reserved'[v][p] = Cardinality(HeldUnits(v, p))'
              /\ available'[v][p] + reserved'[v][p]
                    + Cardinality(SoldUnits(v, p))' = InitialStock[v][p]
  <2>1. /\ available[v][p] \in Int /\ reserved[v][p] \in Int
        /\ Lines[o][p] \in Nat /\ InitialStock[v][p] \in Nat
    BY <1>0, LinesAssumption, StockAssumption DEF InventoryTypeOK
  <2>2. /\ IsFiniteSet(HeldUnits(v, p)) /\ IsFiniteSet(SoldUnits(v, p))
        /\ available[v][p] >= 0
        /\ reserved[v][p] = Cardinality(HeldUnits(v, p))
        /\ available[v][p] + reserved[v][p] + Cardinality(SoldUnits(v, p))
              = InitialStock[v][p]
    BY DEF InventoryInv, UnitsFinite, NeverOversold, ReservedIsHeld,
           StockConserved
  <2>3. Cardinality(SoldUnits(v, p)) \in Nat
    BY <2>2, FS_CardinalityType
  <2>4. Buyers(v, p)' = Buyers(v, p)
    <3>1. o \notin Buyers(v, p)
      BY <1>3, NoWarehouseAssumption DEF Buyers
    <3>2. o \notin Buyers(v, p)'
      <4>1. CASE p \in P
        BY <1>6, <4>1 DEF Buyers, SoldLines
      <4>2. CASE p \notin P
        BY <4>2 DEF Buyers, SoldLines, ProductsOf
      <4> QED  BY <4>1, <4>2
    <3>3. ASSUME NEW x \in Orders, x # o
          PROVE  x \in Buyers(v, p)' <=> x \in Buyers(v, p)
      BY <1>7, <1>9, <3>3 DEF Buyers
    <3>4. Buyers(v, p)' \subseteq Orders /\ Buyers(v, p) \subseteq Orders
      BY DEF Buyers
    <3> QED  BY <3>1, <3>2, <3>3, <3>4
  <2>5. SoldUnits(v, p)' = SoldUnits(v, p)
    BY <2>4 DEF SoldUnits, UnitsOf
  <2>6. Holders(v, p)' \subseteq Orders /\ Holders(v, p) \subseteq Orders
    BY DEF Holders
  <2>7. ASSUME NEW x \in Orders, x # o
        PROVE  x \in Holders(v, p)' <=> x \in Holders(v, p)
    BY <1>7, <1>9, <2>7 DEF Holders
  <2>8. o \notin Holders(v, p)
    BY <1>3, NoWarehouseAssumption DEF Holders
  <2>9. CASE v = w /\ p \in P
    <3>1. Holders(v, p)' = Holders(v, p) \cup {o}
      <4>1. o \in Holders(v, p)'
        BY <1>6, <1>10, <2>9 DEF Holders, OpenLines, ProductsOf
      <4> QED  BY <2>6, <2>7, <4>1
    <3>2. HeldUnits(v, p)' = UnitsOf(Holders(v, p) \cup {o}, p)
      BY <3>1 DEF HeldUnits, UnitsOf
    <3>3. /\ IsFiniteSet(HeldUnits(v, p)')
          /\ Cardinality(HeldUnits(v, p)')
               = Cardinality(HeldUnits(v, p)) + Lines[o][p]
      BY <2>2, <2>8, <3>2, AddUnits DEF HeldUnits
    <3>4. /\ available'[v][p] = available[v][p] - Lines[o][p]
          /\ reserved'[v][p] = reserved[v][p] + Lines[o][p]
      BY <1>0, <1>2, <2>9 DEF Post, InventoryTypeOK
    <3>5. available[v][p] >= Lines[o][p]
      BY <1>3, <2>9
    <3> QED
      BY <2>1, <2>2, <2>3, <2>5, <3>3, <3>4, <3>5
  <2>10. CASE ~(v = w /\ p \in P)
    <3>1. o \notin Holders(v, p)'
      BY <1>10, <2>10 DEF Holders, OpenLines, ProductsOf
    <3>2. Holders(v, p)' = Holders(v, p)
      BY <2>6, <2>7, <2>8, <3>1
    <3>3. HeldUnits(v, p)' = HeldUnits(v, p)
      BY <3>2 DEF HeldUnits, UnitsOf
    <3>4. /\ available'[v][p] = available[v][p]
          /\ reserved'[v][p] = reserved[v][p]
      BY <1>0, <1>2, <2>10 DEF Post, InventoryTypeOK
    <3> QED
      BY <2>1, <2>2, <2>3, <2>5, <3>3, <3>4
  <2> QED
    BY <2>9, <2>10
<1>12. UnitsFinite' /\ NeverOversold' /\ ReservedIsHeld' /\ StockConserved'
  BY <1>11 DEF UnitsFinite, NeverOversold, ReservedIsHeld, StockConserved
<1> QED
  BY <1>5, <1>8, <1>12 DEF InventoryInv

\* What release and commit have in common: every open line of o ends.  The
\* units go back to available, or they become sold units.
LEMMA EndStep ==
    ASSUME InventoryInv, NEW o \in Orders, warehouseOf[o] # NoWarehouse,
           UNCHANGED warehouseOf, NEW P, P = OpenLines(o),
           NEW type \in {"RELEASE", "COMMIT"},
           NEW delta \in [P -> Int], NEW aa \in [P -> Int],
           NEW ra \in [P -> Int],
           Post(o, warehouseOf[o], type, delta, aa, ra),
           \A p \in P :
              /\ ra[p] = reserved[warehouseOf[o]][p] - Lines[o][p]
              /\ aa[p] = available[warehouseOf[o]][p]
                           + (IF type = "RELEASE" THEN Lines[o][p] ELSE 0)
    PROVE  InventoryInv'
<1> DEFINE w == warehouseOf[o]
<1>0. InventoryTypeOK /\ LineRecorded
  BY DEF InventoryInv
<1>1. P \in SUBSET Products /\ w \in Warehouses /\ type \in MovementTypes
  BY <1>0 DEF InventoryTypeOK, OpenLines, ProductsOf, MovementTypes
<1>2. P \subseteq ProductsOf(o)
  BY DEF OpenLines
<1>3. InventoryTypeOK'
  <2> HIDE DEF w
  <2> QED
    BY <1>0, <1>1, PostType DEF InventoryTypeOK, w
<1>4. ASSUME NEW p \in P
      PROVE  /\ MovesOf(o, p)' # {}
             /\ HasLatest(o, p)'
             /\ Latest(o, p)'.type = type
  BY <1>0, <1>1, <1>4, PostOwn
<1>5. ASSUME NEW x \in Orders, NEW p \in Products, x # o \/ p \notin P
      PROVE  /\ MovesOf(x, p)' = MovesOf(x, p)
             /\ HasLatest(x, p) => HasLatest(x, p)' /\ Latest(x, p)' = Latest(x, p)
  BY <1>0, <1>1, <1>5, PostOther
<1>6. ASSUME NEW x \in Orders, NEW p \in Products, x # o \/ p \notin P
      PROVE  /\ p \in OpenLines(x)' <=> p \in OpenLines(x)
             /\ p \in SoldLines(x)' <=> p \in SoldLines(x)
  BY <1>0, <1>1, <1>6, PostOtherLines
<1>7. LineRecorded'
  <2> SUFFICES ASSUME NEW x \in Orders, NEW p \in Products
               PROVE  (IF warehouseOf[x] # NoWarehouse /\ p \in ProductsOf(x)
                       THEN /\ HasLatest(x, p)
                            /\ MovesOf(x, p) # {}
                            /\ Latest(x, p).type \in MovementTypes
                            /\ Latest(x, p).type = "RESERVE"
                                 => Latest(x, p).delta = -Lines[x][p]
                       ELSE MovesOf(x, p) = {})'
    BY DEF LineRecorded
  <2>1. CASE x = o /\ p \in P
    <3>1. p \in ProductsOf(x)' /\ warehouseOf'[x] # NoWarehouse
      BY <1>2, <2>1 DEF ProductsOf
    <3> QED
      BY <1>1, <1>4, <2>1, <3>1
  <2>2. CASE x # o \/ p \notin P
    BY <1>0, <1>5, <2>2 DEF LineRecorded, ProductsOf
  <2> QED
    BY <2>1, <2>2
<1>8. ASSUME NEW v \in Warehouses, NEW p \in Products
      PROVE  /\ IsFiniteSet(HeldUnits(v, p))' /\ IsFiniteSet(SoldUnits(v, p))'
             /\ available'[v][p] >= 0
             /\ reserved'[v][p] = Cardinality(HeldUnits(v, p))'
             /\ available'[v][p] + reserved'[v][p]
                   + Cardinality(SoldUnits(v, p))' = InitialStock[v][p]
  <2>1. /\ available[v][p] \in Int /\ reserved[v][p] \in Int
        /\ Lines[o][p] \in Nat /\ InitialStock[v][p] \in Nat
    BY <1>0, LinesAssumption, StockAssumption DEF InventoryTypeOK
  <2>2. /\ IsFiniteSet(HeldUnits(v, p)) /\ IsFiniteSet(SoldUnits(v, p))
        /\ available[v][p] >= 0
        /\ reserved[v][p] = Cardinality(HeldUnits(v, p))
        /\ available[v][p] + reserved[v][p] + Cardinality(SoldUnits(v, p))
              = InitialStock[v][p]
    BY DEF InventoryInv, UnitsFinite, NeverOversold, ReservedIsHeld,
           StockConserved
  <2>3. /\ Holders(v, p)' \in SUBSET Orders /\ Holders(v, p) \in SUBSET Orders
        /\ Buyers(v, p)' \in SUBSET Orders /\ Buyers(v, p) \in SUBSET Orders
    BY DEF Holders, Buyers
  <2>4. /\ (o \in Holders(v, p)' <=> o \in Holders(v, p))
              => Holders(v, p)' = Holders(v, p)
        /\ o \notin Holders(v, p)' => Holders(v, p)' = Holders(v, p) \ {o}
    <3>1. \A x \in Orders : x # o =>
              (x \in Holders(v, p)' <=> x \in Holders(v, p))
      BY <1>6 DEF Holders
    <3> QED
      BY <2>3, <3>1, AgreeExcept
  <2>5. /\ (o \in Buyers(v, p)' <=> o \in Buyers(v, p))
              => Buyers(v, p)' = Buyers(v, p)
        /\ o \in Buyers(v, p)' => Buyers(v, p)' = Buyers(v, p) \cup {o}
    <3>1. \A x \in Orders : x # o =>
              (x \in Buyers(v, p)' <=> x \in Buyers(v, p))
      BY <1>6 DEF Buyers
    <3> DEFINE S == Buyers(v, p)
               T == Buyers(v, p)'
    <3>2. /\ S \in SUBSET Orders /\ T \in SUBSET Orders
          /\ \A x \in Orders : x # o => (x \in T <=> x \in S)
      BY <2>3, <3>1
    <3> HIDE DEF S, T
    <3>3. /\ (o \in T <=> o \in S) => T = S
          /\ o \in T => T = S \cup {o}
      BY <3>2, AgreeExcept
    <3> QED
      BY <3>3 DEF S, T
  <2>6. CASE v = w /\ p \in P
    <3>1. o \in Holders(v, p) /\ o \notin Holders(v, p)'
      BY <1>4, <2>6 DEF Holders, OpenLines
    <3>2. Holders(v, p)' = Holders(v, p) \ {o}
      BY <2>4, <3>1, Zenon
    <3>3. HeldUnits(v, p)' = UnitsOf(Holders(v, p) \ {o}, p)
      BY <3>2 DEF HeldUnits, UnitsOf
    <3>4. /\ IsFiniteSet(HeldUnits(v, p)')
          /\ Cardinality(HeldUnits(v, p))
               = Cardinality(HeldUnits(v, p)') + Lines[o][p]
      <4> DEFINE S == Holders(v, p)
      <4>1. o \in S /\ IsFiniteSet(UnitsOf(S, p))
        BY <2>2, <3>1 DEF HeldUnits
      <4> HIDE DEF S
      <4>2. /\ IsFiniteSet(UnitsOf(S \ {o}, p))
            /\ Cardinality(UnitsOf(S, p))
                 = Cardinality(UnitsOf(S \ {o}, p)) + Lines[o][p]
        BY <4>1, RemoveUnits
      <4> QED
        BY <3>3, <4>2 DEF S, HeldUnits
    <3>5. o \notin Buyers(v, p)
      BY <2>6 DEF Buyers, SoldLines, OpenLines
    <3>6. reserved'[v][p] = reserved[v][p] - Lines[o][p]
      BY <1>0, <2>6 DEF Post, InventoryTypeOK
    <3>7. /\ Cardinality(HeldUnits(v, p)) \in Nat
          /\ Cardinality(HeldUnits(v, p)') \in Nat
          /\ Cardinality(SoldUnits(v, p)) \in Nat
      BY <2>2, <3>4, FS_CardinalityType
    <3>8. CASE type = "RELEASE"
      <4>1. o \notin Buyers(v, p)'
        BY <1>4, <2>6, <3>8 DEF Buyers, SoldLines
      <4>2. Buyers(v, p)' = Buyers(v, p)
        BY <2>5, <3>5, <4>1, Zenon
      <4>3. SoldUnits(v, p)' = SoldUnits(v, p)
        BY <4>2 DEF SoldUnits, UnitsOf
      <4>4. available'[v][p] = available[v][p] + Lines[o][p]
        BY <1>0, <2>6, <3>8 DEF Post, InventoryTypeOK
      <4> QED
        BY <2>1, <2>2, <3>4, <3>6, <3>7, <4>3, <4>4
    <3>9. CASE type = "COMMIT"
      <4>1. o \in Buyers(v, p)'
        BY <1>2, <1>4, <2>6, <3>9 DEF Buyers, SoldLines, ProductsOf
      <4>2. Buyers(v, p)' = Buyers(v, p) \cup {o}
        BY <2>5, <3>5, <4>1, Zenon
      <4>3. SoldUnits(v, p)' = UnitsOf(Buyers(v, p) \cup {o}, p)
        BY <4>2 DEF SoldUnits, UnitsOf
      <4>4. /\ IsFiniteSet(SoldUnits(v, p)')
            /\ Cardinality(SoldUnits(v, p)')
                 = Cardinality(SoldUnits(v, p)) + Lines[o][p]
        <5> DEFINE S == Buyers(v, p)
        <5>1. o \notin S /\ IsFiniteSet(UnitsOf(S, p))
          BY <2>2, <3>5 DEF SoldUnits
        <5> HIDE DEF S
        <5>2. /\ IsFiniteSet(UnitsOf(S \cup {o}, p))
              /\ Cardinality(UnitsOf(S \cup {o}, p))
                   = Cardinality(UnitsOf(S, p)) + Lines[o][p]
          BY <5>1, AddUnits
        <5> QED
          BY <4>3, <5>2 DEF S, SoldUnits
      <4>5. available'[v][p] = available[v][p]
        <5>1. aa[p] = available[v][p] + 0
          BY <2>6, <3>9
        <5>2. available'[v][p] = aa[p]
          BY <1>0, <2>6 DEF Post, InventoryTypeOK
        <5> QED  BY <2>1, <5>1, <5>2
      <4> QED
        BY <2>1, <2>2, <3>4, <3>6, <3>7, <4>4, <4>5
    <3> QED
      BY <3>8, <3>9
  <2>7. CASE ~(v = w /\ p \in P)
    <3>1. o \in Holders(v, p)' <=> o \in Holders(v, p)
      BY <1>6, <2>7 DEF Holders
    <3>2. o \in Buyers(v, p)' <=> o \in Buyers(v, p)
      BY <1>6, <2>7 DEF Buyers
    <3>3. Holders(v, p)' = Holders(v, p)
      BY <2>4, <3>1, Zenon
    <3>4. Buyers(v, p)' = Buyers(v, p)
      BY <2>5, <3>2, Zenon
    <3>5. HeldUnits(v, p)' = HeldUnits(v, p) /\ SoldUnits(v, p)' = SoldUnits(v, p)
      BY <3>3, <3>4 DEF HeldUnits, SoldUnits, UnitsOf
    <3>6. /\ available'[v][p] = available[v][p]
          /\ reserved'[v][p] = reserved[v][p]
      BY <1>0, <2>7 DEF Post, InventoryTypeOK
    <3> QED
      BY <2>1, <2>2, <3>5, <3>6
  <2> QED
    BY <2>6, <2>7
<1>9. UnitsFinite' /\ NeverOversold' /\ ReservedIsHeld' /\ StockConserved'
  BY <1>8 DEF UnitsFinite, NeverOversold, ReservedIsHeld, StockConserved
<1> QED
  BY <1>3, <1>7, <1>9 DEF InventoryInv

\* The amount release and commit read back from the ledger is the quantity
\* of the line.
LEMMA OpenAmount ==
    ASSUME InventoryInv, NEW o \in Orders, NEW p \in OpenLines(o)
    PROVE  Abs(Latest(o, p).delta) = Lines[o][p]
<1>1. p \in Products /\ LineRecorded
  BY DEF OpenLines, ProductsOf, InventoryInv
<1>2. Latest(o, p).type = "RESERVE" /\ Latest(o, p).delta = -Lines[o][p]
  BY <1>1, OpenIsReserved DEF LineRecorded
<1>3. Lines[o][p] \in Nat
  BY <1>1, LinesAssumption
<1> QED
  BY <1>2, <1>3 DEF Abs

\* Release keeps the invariant.
LEMMA ReleaseStep ==
    ASSUME InventoryInv, NEW o \in Orders, Release(o)
    PROVE  InventoryInv'
<1> DEFINE P == OpenLines(o)
           w == warehouseOf[o]
           amount == [p \in P |-> Abs(Latest(o, p).delta)]
           aa == [p \in P |-> available[w][p] + amount[p]]
           ra == [p \in P |-> reserved[w][p] - amount[p]]
<1>1. /\ w # NoWarehouse /\ UNCHANGED warehouseOf
      /\ Post(o, w, "RELEASE", amount, aa, ra)
  BY DEF Release
<1>2. InventoryTypeOK /\ w \in Warehouses
  BY <1>1 DEF InventoryInv, InventoryTypeOK
<1>3. P \subseteq Products
  BY DEF OpenLines, ProductsOf
<1>4. ASSUME NEW p \in P
      PROVE  /\ Lines[o][p] \in Nat
             /\ available[w][p] \in Int /\ reserved[w][p] \in Int
             /\ amount[p] = Lines[o][p]
             /\ aa[p] = available[w][p] + Lines[o][p]
             /\ ra[p] = reserved[w][p] - Lines[o][p]
  <2>1. Lines[o][p] \in Nat /\ available[w][p] \in Int /\ reserved[w][p] \in Int
    BY <1>2, <1>3, <1>4, LinesAssumption DEF InventoryTypeOK
  <2>2. Abs(Latest(o, p).delta) = Lines[o][p]
    BY <1>4, OpenAmount
  <2> QED
    BY <2>1, <2>2
<1>5. amount \in [P -> Int] /\ aa \in [P -> Int] /\ ra \in [P -> Int]
  BY <1>4
<1>6. \A p \in P : /\ ra[p] = reserved[w][p] - Lines[o][p]
                    /\ aa[p] = available[w][p]
                         + (IF "RELEASE" = "RELEASE" THEN Lines[o][p] ELSE 0)
  BY <1>4
<1>7. P = OpenLines(o)
  OBVIOUS
<1> HIDE DEF P, amount, aa, ra
<1> QED
  BY <1>1, <1>5, <1>6, <1>7, EndStep

\* Commit keeps the invariant.
LEMMA CommitStep ==
    ASSUME InventoryInv, NEW o \in Orders, Commit(o)
    PROVE  InventoryInv'
<1> DEFINE P == OpenLines(o)
           w == warehouseOf[o]
           amount == [p \in P |-> Abs(Latest(o, p).delta)]
           zero == [p \in P |-> 0]
           aa == [p \in P |-> available[w][p]]
           ra == [p \in P |-> reserved[w][p] - amount[p]]
<1>1. /\ w # NoWarehouse /\ UNCHANGED warehouseOf
      /\ Post(o, w, "COMMIT", zero, aa, ra)
  BY DEF Commit
<1>2. InventoryTypeOK /\ w \in Warehouses
  BY <1>1 DEF InventoryInv, InventoryTypeOK
<1>3. P \subseteq Products
  BY DEF OpenLines, ProductsOf
<1>4. ASSUME NEW p \in P
      PROVE  /\ Lines[o][p] \in Nat
             /\ available[w][p] \in Int /\ reserved[w][p] \in Int
             /\ amount[p] = Lines[o][p]
             /\ aa[p] = available[w][p] + 0
             /\ ra[p] = reserved[w][p] - Lines[o][p]
  <2>1. Lines[o][p] \in Nat /\ available[w][p] \in Int /\ reserved[w][p] \in Int
    BY <1>2, <1>3, <1>4, LinesAssumption DEF InventoryTypeOK
  <2>2. Abs(Latest(o, p).delta) = Lines[o][p]
    BY <1>4, OpenAmount
  <2> QED
    BY <2>1, <2>2
<1>5. zero \in [P -> Int] /\ aa \in [P -> Int] /\ ra \in [P -> Int]
  BY <1>4
<1>6. \A p \in P : /\ ra[p] = reserved[w][p] - Lines[o][p]
                    /\ aa[p] = available[w][p]
                         + (IF "COMMIT" = "RELEASE" THEN Lines[o][p] ELSE 0)
  BY <1>4
<1>7. P = OpenLines(o)
  OBVIOUS
<1> HIDE DEF P, amount, aa, ra, zero
<1> QED
  BY <1>1, <1>5, <1>6, <1>7, EndStep

\* A step that leaves the tables alone keeps the invariant.
LEMMA InventoryStutter ==
    ASSUME InventoryInv, UNCHANGED inventoryVars
    PROVE  InventoryInv'
<1> USE DEF inventoryVars
<1>1. \A o \in Orders, p \in Products :
          MovesOf(o, p)' = MovesOf(o, p) /\ Latest(o, p)' = Latest(o, p)
  BY DEF MovesOf, Latest
<1>2. LineRecorded'
  BY <1>1 DEF InventoryInv, LineRecorded, HasLatest, ProductsOf
<1>3. \A w \in Warehouses, p \in Products :
          HeldUnits(w, p)' = HeldUnits(w, p) /\ SoldUnits(w, p)' = SoldUnits(w, p)
  BY DEF HeldUnits, SoldUnits, UnitsOf, Holders, Buyers, OpenLines, SoldLines,
         MovesOf, Latest, ProductsOf
<1> QED
  BY <1>2, <1>3 DEF InventoryInv, InventoryTypeOK, UnitsFinite, NeverOversold,
                    ReservedIsHeld, StockConserved

\* The invariant is inductive.
LEMMA InventoryNextInv ==
    InventoryInv /\ [InventoryNext]_inventoryVars => InventoryInv'
BY ReserveStep, ReleaseStep, CommitStep, InventoryStutter DEF InventoryNext

\* Every behaviour of the ledger keeps the invariant.
THEOREM InventoryInvariant == InventorySpec => []InventoryInv
BY InventoryInitInv, InventoryNextInv, PTL DEF InventorySpec

\* The tables keep their types.
THEOREM InventoryTypes == InventorySpec => []InventoryTypeOK
<1>1. InventoryInv => InventoryTypeOK
  BY DEF InventoryInv
<1> QED
  BY <1>1, InventoryInvariant, PTL

\* The database CHECKs on both balances never fire: whatever the orders, the
\* warehouses and the seeded stock, and however reserve, release and commit
\* are interleaved and repeated, nothing is oversold.
THEOREM NeverNegative == InventorySpec => []NonNegative
<1>1. InventoryInv => NonNegative
  <2> SUFFICES ASSUME InventoryInv, NEW w \in Warehouses, NEW p \in Products
               PROVE  available[w][p] >= 0 /\ reserved[w][p] >= 0
    BY DEF NonNegative
  <2>1. Cardinality(HeldUnits(w, p)) \in Nat
    BY FS_CardinalityType DEF InventoryInv, UnitsFinite
  <2> QED
    BY <2>1 DEF InventoryInv, NeverOversold, ReservedIsHeld
<1> QED
  BY <1>1, InventoryInvariant, PTL

\* quantity_reserved is exactly what the open reservations hold.
THEOREM ReservedMatchesHolders == InventorySpec => []ReservedIsHeld
<1>1. InventoryInv => ReservedIsHeld
  BY DEF InventoryInv
<1> QED
  BY <1>1, InventoryInvariant, PTL

\* Every seeded unit is available, reserved or sold, and counted once.
THEOREM StockIsConserved == InventorySpec => []StockConserved
<1>1. InventoryInv => StockConserved
  BY DEF InventoryInv
<1> QED
  BY <1>1, InventoryInvariant, PTL

(***************************************************************************)
(* The history the ledger keeps: it replays to the balances, every line    *)
(* ends at most once, and the lines of an order move together.  Each step  *)
(* is one Post, so each property is shown to survive a Post of the two     *)
(* kinds there are.                                                        *)
(***************************************************************************)

\* A Post of the lines P of order o in warehouse w, with functions of the
\* right type.
PostOf(o, w, type, P) ==
    \E delta \in [P -> Int], aa \in [P -> Int], ra \in [P -> Int] :
        Post(o, w, type, delta, aa, ra)

\* The first movements of an order, and the last ones of its open lines.
Opens(o, w) ==
    /\ warehouseOf[o] = NoWarehouse
    /\ warehouseOf' = [warehouseOf EXCEPT ![o] = w]
    /\ PostOf(o, w, "RESERVE", ProductsOf(o))
Ends(o) ==
    /\ warehouseOf[o] # NoWarehouse
    /\ UNCHANGED warehouseOf
    /\ \E type \in {"RELEASE", "COMMIT"} :
          PostOf(o, warehouseOf[o], type, OpenLines(o))

\* Every step of the ledger opens an order's lines or ends its open ones.
LEMMA StepIsPost ==
    ASSUME InventoryInv, InventoryNext
    PROVE  \E o \in Orders : (\E w \in Warehouses : Opens(o, w)) \/ Ends(o)
<1>0. InventoryTypeOK
  BY DEF InventoryInv
<1>1. ASSUME NEW o \in Orders, NEW w \in Warehouses, Reserve(o, w)
      PROVE  Opens(o, w)
  <2> DEFINE P == ProductsOf(o)
             delta == [p \in P |-> -Lines[o][p]]
             aa == [p \in P |-> available[w][p] - Lines[o][p]]
             ra == [p \in P |-> reserved[w][p] + Lines[o][p]]
  <2>1. delta \in [P -> Int] /\ aa \in [P -> Int] /\ ra \in [P -> Int]
    BY <1>0, LinesAssumption DEF InventoryTypeOK, ProductsOf
  <2>2. Post(o, w, "RESERVE", delta, aa, ra)
    BY <1>1 DEF Reserve
  <2> HIDE DEF delta, aa, ra
  <2>3. PostOf(o, w, "RESERVE", P)
    BY <2>1, <2>2 DEF PostOf
  <2> QED
    BY <1>1, <2>3 DEF Reserve, Opens
<1>2. ASSUME NEW o \in Orders, Release(o) \/ Commit(o)
      PROVE  Ends(o)
  <2> DEFINE P == OpenLines(o)
             w == warehouseOf[o]
             amount == [p \in P |-> Abs(Latest(o, p).delta)]
             zero == [p \in P |-> 0]
             up == [p \in P |-> available[w][p] + amount[p]]
             same == [p \in P |-> available[w][p]]
             ra == [p \in P |-> reserved[w][p] - amount[p]]
  <2>1. w \in Warehouses /\ P \subseteq Products /\ UNCHANGED warehouseOf
        /\ w # NoWarehouse
    BY <1>0, <1>2 DEF InventoryTypeOK, OpenLines, ProductsOf, Release, Commit
  <2>2. \A p \in P : amount[p] \in Int
    BY <2>1, OpenAmount, LinesAssumption
  <2>3. /\ amount \in [P -> Int] /\ zero \in [P -> Int] /\ up \in [P -> Int]
        /\ same \in [P -> Int] /\ ra \in [P -> Int]
    BY <1>0, <2>1, <2>2 DEF InventoryTypeOK
  <2>4. \/ Post(o, w, "RELEASE", amount, up, ra)
        \/ Post(o, w, "COMMIT", zero, same, ra)
    BY <1>2 DEF Release, Commit
  <2> HIDE DEF amount, zero, up, same, ra
  <2>5. PostOf(o, w, "RELEASE", P) \/ PostOf(o, w, "COMMIT", P)
    BY <2>3, <2>4 DEF PostOf
  <2> QED
    BY <2>1, <2>5 DEF Ends
<1> QED
  BY <1>1, <1>2 DEF InventoryNext

\* The two kinds of Post, with what they do to the order.
LEMMA PostCases ==
    ASSUME InventoryInv, NEW o \in Orders,
           (\E w \in Warehouses : Opens(o, w)) \/ Ends(o)
    PROVE  \E w \in Warehouses, type \in MovementTypes, P \in SUBSET Products :
              /\ PostOf(o, w, type, P)
              /\ \/ /\ type = "RESERVE" /\ P = ProductsOf(o)
                    /\ warehouseOf[o] = NoWarehouse
                    /\ warehouseOf' = [warehouseOf EXCEPT ![o] = w]
                 \/ /\ type # "RESERVE" /\ P = OpenLines(o)
                    /\ warehouseOf[o] = w /\ UNCHANGED warehouseOf
<1>1. /\ ProductsOf(o) \in SUBSET Products /\ OpenLines(o) \in SUBSET Products
      /\ {"RESERVE", "RELEASE", "COMMIT"} \subseteq MovementTypes
  BY DEF ProductsOf, OpenLines, MovementTypes
<1>2. CASE \E w \in Warehouses : Opens(o, w)
  BY <1>1, <1>2 DEF Opens
<1>3. CASE Ends(o)
  <2>1. warehouseOf[o] \in Warehouses
    BY <1>3 DEF Ends, InventoryInv, InventoryTypeOK
  <2> QED
    BY <1>1, <1>3, <2>1 DEF Ends
<1> QED
  BY <1>2, <1>3

(***************************************************************************)
(* The ledger replays                                                      *)
(***************************************************************************)

\* What LedgerReplays says of one row of the inventory table.
Replays(w, p) ==
    LET I == {i \in 1..Len(movements[p]) : movements[p][i].warehouse = w}
    IN  \A i \in I : (\A j \in I : j <= i) =>
            /\ movements[p][i].availableAfter = available[w][p]
            /\ movements[p][i].reservedAfter = reserved[w][p]

LEMMA PostReplays ==
    ASSUME InventoryTypeOK, NEW o \in Orders, NEW w \in Warehouses,
           NEW type \in MovementTypes, NEW P \in SUBSET Products,
           NEW delta \in [P -> Int], NEW aa \in [P -> Int],
           NEW ra \in [P -> Int], Post(o, w, type, delta, aa, ra),
           NEW v \in Warehouses, NEW p \in Products, Replays(v, p)
    PROVE  Replays(v, p)'
<1>1. CASE p \notin P
  <2>1. movements'[p] = movements[p]
    BY <1>1 DEF Post
  <2>2. available'[v][p] = available[v][p] /\ reserved'[v][p] = reserved[v][p]
    BY <1>1 DEF Post, InventoryTypeOK
  <2> QED
    BY <2>1, <2>2 DEF Replays
<1>2. CASE p \in P
  <2> DEFINE m == [warehouse |-> w, order |-> o, type |-> type,
                   delta |-> delta[p], availableAfter |-> aa[p],
                   reservedAfter |-> ra[p]]
             n == Len(movements[p])
  <2>1. movements'[p] = Append(movements[p], m)
    BY <1>2 DEF Post
  <2>2. m.warehouse = w /\ m.availableAfter = aa[p] /\ m.reservedAfter = ra[p]
    OBVIOUS
  <2>3. movements[p] \in Seq(Movement) /\ n \in Nat
    BY DEF InventoryTypeOK
  <2>4. IF v = w
        THEN available'[v][p] = aa[p] /\ reserved'[v][p] = ra[p]
        ELSE available'[v][p] = available[v][p] /\ reserved'[v][p] = reserved[v][p]
    BY <1>2 DEF Post, InventoryTypeOK
  <2> HIDE DEF m, n
  <2>5. /\ Len(movements'[p]) = n + 1
        /\ movements'[p][n + 1] = m
        /\ \A i \in 1..n : movements'[p][i] = movements[p][i]
    BY <2>1, <2>3 DEF n
  <2> SUFFICES
        ASSUME NEW i \in 1..(n + 1), movements'[p][i].warehouse = v,
               \A j \in 1..(n + 1) : movements'[p][j].warehouse = v => j <= i
        PROVE  /\ movements'[p][i].availableAfter = available'[v][p]
               /\ movements'[p][i].reservedAfter = reserved'[v][p]
    BY <2>5 DEF Replays
  <2>6. CASE i = n + 1
    BY <2>2, <2>4, <2>5, <2>6
  <2>7. CASE i # n + 1
    <3>0. i \in 1..n /\ n + 1 \in 1..(n + 1) /\ ~(n + 1 <= i)
      BY <2>3, <2>7
    <3>1. i \in 1..n /\ v # w
      <4>1. movements'[p][n + 1].warehouse = w
        BY <2>2, <2>5
      <4> QED
        BY <3>0, <4>1
    <3>2. /\ movements[p][i].warehouse = v
          /\ \A j \in 1..n : movements[p][j].warehouse = v => j <= i
      <4>1. movements[p][i] = movements'[p][i]
        BY <2>5, <3>1
      <4>2. ASSUME NEW j \in 1..n, movements[p][j].warehouse = v
            PROVE  j <= i
        <5>1. j \in 1..(n + 1)
          BY <2>3
        <5>2. movements'[p][j] = movements[p][j]
          BY <2>5
        <5> QED
          BY <4>2, <5>1, <5>2
      <4> QED
        BY <4>1, <4>2
    <3>3. /\ movements[p][i].availableAfter = available[v][p]
          /\ movements[p][i].reservedAfter = reserved[v][p]
      BY <3>1, <3>2 DEF Replays, n
    <3> QED
      BY <2>4, <2>5, <3>1, <3>3
  <2> QED
    BY <2>6, <2>7
<1> QED
  BY <1>1, <1>2

\* verify-ledger.sql never returns a row: whatever was reserved, released and
\* sold, the last movement of an inventory row records its balances.
THEOREM LedgerAlwaysReplays == InventorySpec => []LedgerReplays
<1>1. LedgerReplays <=> \A w \in Warehouses, p \in Products : Replays(w, p)
  BY DEF LedgerReplays, Replays
<1>2. InventoryInit => LedgerReplays
  BY DEF InventoryInit, LedgerReplays
<1>3. ASSUME InventoryInv, LedgerReplays, [InventoryNext]_inventoryVars
      PROVE  LedgerReplays'
  <2>1. CASE UNCHANGED inventoryVars
    BY <1>3, <2>1 DEF inventoryVars, LedgerReplays
  <2>2. CASE InventoryNext
    <3>1. PICK o \in Orders : (\E w \in Warehouses : Opens(o, w)) \/ Ends(o)
      BY <1>3, <2>2, StepIsPost
    <3>2. \E w \in Warehouses, type \in MovementTypes, P \in SUBSET Products :
              PostOf(o, w, type, P)
      BY <1>3, <3>1, PostCases
    <3>3. \A w \in Warehouses, p \in Products : Replays(w, p)
      BY <1>3 DEF LedgerReplays, Replays
    <3>4. \A v \in Warehouses, p \in Products : Replays(v, p)'
      BY <1>3, <3>2, <3>3, PostReplays DEF PostOf, InventoryInv
    <3> QED
      BY <3>4 DEF LedgerReplays, Replays
  <2> QED
    BY <1>3, <2>1, <2>2
<1> QED
  BY <1>2, <1>3, InventoryInvariant, PTL DEF InventorySpec

(***************************************************************************)
(* The lines of an order move together                                     *)
(***************************************************************************)

\* What LinesMoveTogether says of one order.
Together(o) ==
    warehouseOf[o] # NoWarehouse =>
        \A p, q \in ProductsOf(o) :
            MovesOf(o, p) # {} /\ Latest(o, p).type = Latest(o, q).type

\* The lines of the orders that a Post is not about, and the lines it does not
\* write, have the movements they had.
LEMMA PostKeeps ==
    ASSUME InventoryTypeOK, LineRecorded, NEW o \in Orders,
           NEW w \in Warehouses, NEW type \in MovementTypes,
           NEW P \in SUBSET Products, PostOf(o, w, type, P),
           NEW x \in Orders, NEW p \in Products, x # o \/ p \notin P,
           MovesOf(x, p) # {}
    PROVE  MovesOf(x, p)' # {} /\ Latest(x, p)' = Latest(x, p)
<1>1. HasLatest(x, p)
  BY DEF LineRecorded
<1>2. PICK delta \in [P -> Int], aa \in [P -> Int], ra \in [P -> Int] :
         Post(o, w, type, delta, aa, ra)
  BY DEF PostOf
<1>3. MovesOf(x, p)' = MovesOf(x, p) /\ Latest(x, p)' = Latest(x, p)
  BY <1>1, <1>2, PostOther
<1> QED
  BY <1>3

\* The latest movement of a line that a Post writes is the Post's.
LEMMA PostWrites ==
    ASSUME InventoryTypeOK, NEW o \in Orders,
           NEW w \in Warehouses, NEW type \in MovementTypes,
           NEW P \in SUBSET Products, PostOf(o, w, type, P), NEW p \in P
    PROVE  MovesOf(o, p)' # {} /\ Latest(o, p)'.type = type
BY PostOwn DEF PostOf

LEMMA TogetherStep ==
    ASSUME InventoryInv, NEW o \in Orders,
           (\E w \in Warehouses : Opens(o, w)) \/ Ends(o),
           NEW x \in Orders, Together(x)
    PROVE  Together(x)'
<1>0. /\ InventoryTypeOK /\ LineRecorded
      /\ ProductsOf(o) \in SUBSET Products /\ ProductsOf(x) \in SUBSET Products
      /\ OpenLines(o) \in SUBSET Products
      /\ ProductsOf(x)' = ProductsOf(x)
      /\ {"RESERVE", "RELEASE", "COMMIT"} \subseteq MovementTypes
  BY DEF InventoryInv, ProductsOf, OpenLines, MovementTypes
<1>1. PICK w \in Warehouses, type \in MovementTypes, P \in SUBSET Products :
         /\ PostOf(o, w, type, P)
         /\ \/ /\ type = "RESERVE" /\ P = ProductsOf(o)
               /\ warehouseOf' = [warehouseOf EXCEPT ![o] = w]
            \/ /\ type # "RESERVE" /\ P = OpenLines(o)
               /\ warehouseOf[o] # NoWarehouse /\ UNCHANGED warehouseOf
  BY PostCases, NoWarehouseAssumption
<1> SUFFICES ASSUME warehouseOf'[x] # NoWarehouse,
                    NEW p \in ProductsOf(x), NEW q \in ProductsOf(x)
             PROVE  MovesOf(x, p)' # {} /\ Latest(x, p)'.type = Latest(x, q)'.type
  BY <1>0 DEF Together
<1>2. CASE x # o \/ P = {}
  <2>1. warehouseOf[x] # NoWarehouse
    <3>1. CASE x # o
      BY <1>0, <1>1, <3>1 DEF InventoryTypeOK
    <3>2. CASE x = o /\ P = {}
      BY <1>1, <3>2
    <3> QED
      BY <1>2, <3>1, <3>2
  <2>2. /\ MovesOf(x, p) # {} /\ MovesOf(x, q) # {}
        /\ Latest(x, p).type = Latest(x, q).type
    BY <2>1 DEF Together
  <2> QED
    BY <1>0, <1>1, <1>2, <2>2, PostKeeps
<1>3. CASE x = o /\ P # {}
  <2>1. P = ProductsOf(o)
    <3>1. CASE P = OpenLines(o) /\ warehouseOf[o] # NoWarehouse
      <4>1. PICK r \in OpenLines(o) : r \in Products
        BY <1>0, <1>3, <3>1
      <4>2. r \in ProductsOf(o) /\ Latest(o, r).type = "RESERVE"
        BY <1>0, <4>1, OpenIsReserved
      <4>3. \A s \in ProductsOf(o) : Latest(o, s).type = "RESERVE"
        BY <1>3, <3>1, <4>2 DEF Together
      <4>4. \A s \in ProductsOf(o) : s \in OpenLines(o)
        BY <1>0, <3>1, <4>3, OpenIsReserved
      <4> QED
        BY <3>1, <4>4 DEF OpenLines
    <3> QED
      BY <1>1, <3>1
  <2> QED
    BY <1>0, <1>1, <1>3, <2>1, PostWrites
<1> QED
  BY <1>2, <1>3

\* A partial failure never shows: all lines of an order are reserved, all are
\* given back or all are sold, for any number of lines and orders.
THEOREM LinesAlwaysMoveTogether == InventorySpec => []LinesMoveTogether
<1>1. InventoryInit => LinesMoveTogether
  BY DEF InventoryInit, LinesMoveTogether
<1>2. ASSUME InventoryInv, LinesMoveTogether, [InventoryNext]_inventoryVars
      PROVE  LinesMoveTogether'
  <2>1. CASE UNCHANGED inventoryVars
    <3>1. \A o \in Orders, p \in Products :
              MovesOf(o, p)' = MovesOf(o, p) /\ Latest(o, p)' = Latest(o, p)
      BY <2>1 DEF inventoryVars, MovesOf, Latest
    <3>2. \A o \in Orders : ProductsOf(o)' = ProductsOf(o)
                            /\ ProductsOf(o) \subseteq Products
      BY DEF ProductsOf
    <3> QED
      BY <1>2, <2>1, <3>1, <3>2 DEF inventoryVars, LinesMoveTogether
  <2>2. CASE InventoryNext
    <3>1. PICK o \in Orders : (\E w \in Warehouses : Opens(o, w)) \/ Ends(o)
      BY <1>2, <2>2, StepIsPost
    <3>2. \A x \in Orders : Together(x)
      BY <1>2 DEF LinesMoveTogether, Together
    <3>3. \A x \in Orders : Together(x)'
      BY <1>2, <3>1, <3>2, TogetherStep
    <3> QED
      BY <3>3 DEF LinesMoveTogether, Together
  <2> QED
    BY <1>2, <2>1, <2>2
<1> QED
  BY <1>1, <1>2, InventoryInvariant, PTL DEF InventorySpec

(***************************************************************************)
(* A line ends once                                                        *)
(***************************************************************************)

\* What EachLineEndsOnce says of one line, and the strengthening: all its
\* movements are in the warehouse that serves its order.
EndsOnce(o, p) ==
    /\ \A i, j \in MovesOf(o, p) : i < j =>
          /\ movements[p][i].type = "RESERVE"
          /\ movements[p][j].type \in {"RELEASE", "COMMIT"}
    /\ \A i \in MovesOf(o, p) : movements[p][i].warehouse = warehouseOf[o]

AllEndOnce == \A o \in Orders, p \in Products : EndsOnce(o, p)

\* A Post appends one movement to each line it writes and no other.
LEMMA PostAppends ==
    ASSUME InventoryTypeOK, NEW o \in Orders,
           NEW w \in Warehouses, NEW type \in MovementTypes,
           NEW P \in SUBSET Products, PostOf(o, w, type, P),
           NEW x \in Orders, NEW p \in Products
    PROVE  LET n == Len(movements[p]) + 1 IN
           /\ MovesOf(x, p) \subseteq 1..(n - 1) /\ n \in Nat
           /\ \A i \in MovesOf(x, p) : movements'[p][i] = movements[p][i]
           /\ IF x = o /\ p \in P
              THEN /\ MovesOf(x, p)' = MovesOf(x, p) \cup {n}
                   /\ movements'[p][n].type = type
                   /\ movements'[p][n].warehouse = w
              ELSE MovesOf(x, p)' = MovesOf(x, p)
<1> DEFINE n == Len(movements[p])
<1>1. PICK delta \in [P -> Int], aa \in [P -> Int], ra \in [P -> Int] :
         Post(o, w, type, delta, aa, ra)
  BY DEF PostOf
<1>2. movements[p] \in Seq(Movement) /\ n \in Nat
  BY DEF InventoryTypeOK
<1>3. MovesOf(x, p) = {i \in 1..n : movements[p][i].order = x}
  BY DEF MovesOf
<1>4. CASE p \notin P
  <2>1. movements'[p] = movements[p]
    BY <1>1, <1>4 DEF Post
  <2>2. MovesOf(x, p)' = MovesOf(x, p)
    BY <2>1 DEF MovesOf
  <2> HIDE DEF n
  <2> QED
    BY <1>2, <1>3, <1>4, <2>1, <2>2 DEF n
<1>5. CASE p \in P
  <2> DEFINE m == [warehouse |-> w, order |-> o, type |-> type,
                   delta |-> delta[p], availableAfter |-> aa[p],
                   reservedAfter |-> ra[p]]
  <2>1. movements'[p] = Append(movements[p], m)
    BY <1>1, <1>5 DEF Post
  <2>2. m.order = o /\ m.type = type /\ m.warehouse = w
    OBVIOUS
  <2> HIDE DEF m, n
  <2>3. /\ Len(movements'[p]) = n + 1
        /\ movements'[p][n + 1] = m
        /\ \A i \in 1..n : movements'[p][i] = movements[p][i]
    BY <1>2, <2>1 DEF n
  <2>4. MovesOf(x, p)' = {i \in 1..(n + 1) : movements'[p][i].order = x}
    BY <2>3 DEF MovesOf
  <2>5. \A i : i \in 1..(n + 1) <=> i \in 1..n \/ i = n + 1
    BY <1>2
  <2>6. MovesOf(x, p)' = IF x = o THEN MovesOf(x, p) \cup {n + 1} ELSE MovesOf(x, p)
    <3>1. movements'[p][n + 1].order = o
      BY <2>2, <2>3
    <3>2. \A i \in 1..n : movements'[p][i].order = movements[p][i].order
      BY <2>3
    <3> QED
      BY <1>3, <2>4, <2>5, <3>1, <3>2, Zenon
  <2> QED
    BY <1>2, <1>3, <1>5, <2>2, <2>3, <2>6 DEF n
<1> QED
  BY <1>4, <1>5

LEMMA EndsOnceStep ==
    ASSUME InventoryInv, AllEndOnce, NEW o \in Orders,
           (\E w \in Warehouses : Opens(o, w)) \/ Ends(o),
           NEW x \in Orders, NEW p \in Products
    PROVE  EndsOnce(x, p)'
<1> DEFINE n == Len(movements[p]) + 1
<1>0. InventoryTypeOK /\ LineRecorded /\ EndsOnce(x, p)
  BY DEF InventoryInv, AllEndOnce
<1>1. PICK w \in Warehouses, type \in MovementTypes, P \in SUBSET Products :
         /\ PostOf(o, w, type, P)
         /\ \/ /\ type = "RESERVE" /\ P = ProductsOf(o)
               /\ warehouseOf[o] = NoWarehouse
               /\ warehouseOf' = [warehouseOf EXCEPT ![o] = w]
            \/ /\ type # "RESERVE" /\ P = OpenLines(o)
               /\ warehouseOf[o] = w /\ UNCHANGED warehouseOf
  BY PostCases
<1>2. /\ MovesOf(x, p) \subseteq 1..(n - 1) /\ n \in Nat
      /\ \A i \in MovesOf(x, p) : movements'[p][i] = movements[p][i]
      /\ IF x = o /\ p \in P
         THEN /\ MovesOf(x, p)' = MovesOf(x, p) \cup {n}
              /\ movements'[p][n].type = type
              /\ movements'[p][n].warehouse = w
         ELSE MovesOf(x, p)' = MovesOf(x, p)
  BY <1>0, <1>1, PostAppends
<1> HIDE DEF n
<1>3. CASE MovesOf(x, p)' = {}
  BY <1>3 DEF EndsOnce
<1>4. CASE MovesOf(x, p) # {} /\ MovesOf(x, p)' = MovesOf(x, p)
  <2>1. warehouseOf[x] # NoWarehouse
    BY <1>0, <1>4 DEF LineRecorded
  <2>2. warehouseOf'[x] = warehouseOf[x]
    BY <1>0, <1>1, <2>1 DEF InventoryTypeOK
  <2> QED
    BY <1>0, <1>2, <1>4, <2>2 DEF EndsOnce
<1>5. CASE x = o /\ p \in P /\ MovesOf(x, p) = {}
  <2>1. warehouseOf'[x] = w
    BY <1>0, <1>1, <1>5 DEF InventoryTypeOK
  <2>2. MovesOf(x, p)' = {n} /\ movements'[p][n].warehouse = w /\ n \in Nat
    BY <1>2, <1>5
  <2> QED
    BY <2>1, <2>2 DEF EndsOnce
<1>6. CASE x = o /\ p \in P /\ MovesOf(x, p) # {}
  <2>1. warehouseOf[o] # NoWarehouse
    BY <1>0, <1>6 DEF LineRecorded
  <2>2. /\ type \in {"RELEASE", "COMMIT"} /\ P = OpenLines(o)
        /\ warehouseOf[o] = w /\ warehouseOf' = warehouseOf
    BY <1>1, <2>1 DEF MovementTypes
  <2>3. PICK l \in MovesOf(o, p) : \A j \in MovesOf(o, p) : j <= l
    BY <1>0, <1>6 DEF LineRecorded, HasLatest
  <2>4. Latest(o, p) = movements[p][l]
    <3>1. MovesOf(o, p) \in SUBSET Int
      BY DEF MovesOf
    <3> QED
      BY <2>3, <3>1, MaxIs DEF Latest
  <2>5. movements[p][l].type = "RESERVE"
    BY <1>0, <1>6, <2>2, <2>4, OpenIsReserved
  <2>6. \A i \in MovesOf(o, p) : i = l
    <3>1. \A i \in MovesOf(o, p) : ~(i < l)
      BY <1>0, <1>6, <2>3, <2>5 DEF EndsOnce
    <3> QED
      BY <1>2, <1>6, <2>3, <3>1
  <2>7. /\ MovesOf(o, p)' = {l, n} /\ l \in 1..(n - 1) /\ n \in Nat
        /\ movements'[p][l] = movements[p][l]
        /\ movements'[p][n].type = type /\ movements'[p][n].warehouse = w
    BY <1>2, <1>6, <2>3, <2>6
  <2>8. movements[p][l].warehouse = warehouseOf[o]
    BY <1>0, <1>6, <2>3 DEF EndsOnce
  <2>9. l < n
    BY <2>7
  <2> QED
    BY <1>6, <2>2, <2>5, <2>7, <2>8, <2>9 DEF EndsOnce
<1> QED
  BY <1>2, <1>3, <1>4, <1>5, <1>6

\* Whoever calls release and commit, in whatever order and however often, a
\* line is reserved first and then released or sold at most once.
THEOREM LinesEndOnce == InventorySpec => []EachLineEndsOnce
<1>1. InventoryInit => AllEndOnce
  BY DEF InventoryInit, AllEndOnce, EndsOnce, MovesOf
<1>2. ASSUME InventoryInv, AllEndOnce, [InventoryNext]_inventoryVars
      PROVE  AllEndOnce'
  <2>1. CASE UNCHANGED inventoryVars
    BY <1>2, <2>1 DEF inventoryVars, AllEndOnce, EndsOnce, MovesOf
  <2>2. CASE InventoryNext
    <3>1. PICK o \in Orders : (\E w \in Warehouses : Opens(o, w)) \/ Ends(o)
      BY <1>2, <2>2, StepIsPost
    <3>2. \A x \in Orders, p \in Products : EndsOnce(x, p)'
      BY <1>2, <3>1, EndsOnceStep
    <3> QED
      BY <3>2 DEF AllEndOnce
  <2> QED
    BY <1>2, <2>1, <2>2
<1>3. AllEndOnce => EachLineEndsOnce
  BY DEF AllEndOnce, EndsOnce, EachLineEndsOnce
<1> QED
  BY <1>1, <1>2, <1>3, InventoryInvariant, PTL DEF InventorySpec
=============================================================================
