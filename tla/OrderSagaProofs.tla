---------------------------- MODULE OrderSagaProofs ----------------------------
(***************************************************************************)
(* Theorems about modules Settlement and OrderSaga, for any number of      *)
(* orders, jobs and warehouses.                                            *)
(*                                                                         *)
(* Settlement leaves its callers open: the first part holds for any number *)
(* of callers that run its transactions in any order.  With or without     *)
(* Prompt, the saga and the jobs implement Settlement, and an order is     *)
(* settled as the provider settled its charge.  With Prompt, a cancelled   *)
(* order was never charged, a settled order's payment row agrees with it,  *)
(* and so does what the client was told.                                   *)
(***************************************************************************)
EXTENDS OrderSaga, InventoryProofs

(***************************************************************************)
(* What the three operations of the ledger do to the lines of the orders   *)
(***************************************************************************)

\* The lines of the other orders are as they were.
OthersKept(o) ==
    \A x \in Orders, p \in Products : x # o =>
        /\ MovesOf(x, p)' = MovesOf(x, p)
        /\ HasLatest(x, p) => Latest(x, p)' = Latest(x, p)

\* Post gives the lines it writes their latest movement.
LEMMA PostEffect ==
    ASSUME InventoryTypeOK, NEW o \in Orders, NEW w \in Warehouses,
           NEW type \in MovementTypes, NEW P \in SUBSET Products,
           NEW delta \in [P -> Int], NEW aa \in [P -> Int],
           NEW ra \in [P -> Int], Post(o, w, type, delta, aa, ra)
    PROVE  /\ \A p \in P : Latest(o, p)'.type = type
           /\ OthersKept(o)
<1>1. ASSUME NEW p \in P
      PROVE  Latest(o, p)'.type = type
  BY <1>1, PostOwn
<1>2. ASSUME NEW x \in Orders, NEW p \in Products, x # o
      PROVE  /\ MovesOf(x, p)' = MovesOf(x, p)
             /\ HasLatest(x, p) => Latest(x, p)' = Latest(x, p)
  BY <1>2, PostOther
<1> QED
  BY <1>1, <1>2 DEF OthersKept

\* Reserve opens every line of the order.
LEMMA ReserveEffect ==
    ASSUME InventoryInv, NEW o \in Orders, NEW w \in Warehouses, Reserve(o, w)
    PROVE  /\ \A p \in ProductsOf(o) : Latest(o, p)'.type = "RESERVE"
           /\ OthersKept(o)
           /\ warehouseOf'[o] = w
           /\ \A x \in Orders : x # o => warehouseOf'[x] = warehouseOf[x]
<1> DEFINE P == ProductsOf(o)
           delta == [p \in P |-> -Lines[o][p]]
           aa == [p \in P |-> available[w][p] - Lines[o][p]]
           ra == [p \in P |-> reserved[w][p] + Lines[o][p]]
<1>1. InventoryTypeOK
  BY DEF InventoryInv
<1>2. /\ P \in SUBSET Products
      /\ delta \in [P -> Int] /\ aa \in [P -> Int] /\ ra \in [P -> Int]
  BY <1>1, LinesAssumption DEF InventoryTypeOK, ProductsOf
<1>3. Post(o, w, "RESERVE", delta, aa, ra) /\ "RESERVE" \in MovementTypes
  BY DEF Reserve, MovementTypes
<1>4. /\ warehouseOf'[o] = w
      /\ \A x \in Orders : x # o => warehouseOf'[x] = warehouseOf[x]
  BY <1>1 DEF Reserve, InventoryTypeOK
<1>5. (\A p \in P : Latest(o, p)'.type = "RESERVE") /\ OthersKept(o)
  <2> HIDE DEF P, delta, aa, ra
  <2> QED  BY <1>1, <1>2, <1>3, PostEffect
<1> QED
  BY <1>4, <1>5

\* Release ends every open line of the order with a RELEASE.
LEMMA ReleaseEffect ==
    ASSUME InventoryInv, NEW o \in Orders, Release(o)
    PROVE  /\ \A p \in OpenLines(o) : Latest(o, p)'.type = "RELEASE"
           /\ OthersKept(o)
           /\ UNCHANGED warehouseOf
<1> DEFINE P == OpenLines(o)
           w == warehouseOf[o]
           amount == [p \in P |-> Abs(Latest(o, p).delta)]
           aa == [p \in P |-> available[w][p] + amount[p]]
           ra == [p \in P |-> reserved[w][p] - amount[p]]
<1>1. InventoryTypeOK /\ w \in Warehouses
  BY DEF InventoryInv, InventoryTypeOK, Release
<1>2. P \in SUBSET Products
  BY DEF OpenLines, ProductsOf
<1>3. ASSUME NEW p \in P
      PROVE  /\ amount[p] \in Int
             /\ available[w][p] \in Int /\ reserved[w][p] \in Int
  BY <1>1, <1>2, <1>3, OpenAmount, LinesAssumption DEF InventoryTypeOK
<1>4. amount \in [P -> Int] /\ aa \in [P -> Int] /\ ra \in [P -> Int]
  BY <1>3
<1>5. Post(o, w, "RELEASE", amount, aa, ra) /\ "RELEASE" \in MovementTypes
  BY DEF Release, MovementTypes
<1>6. (\A p \in P : Latest(o, p)'.type = "RELEASE") /\ OthersKept(o)
  <2> HIDE DEF P, amount, aa, ra, w
  <2> QED  BY <1>1, <1>2, <1>4, <1>5, PostEffect
<1> QED
  BY <1>6 DEF Release

\* Commit ends every open line of the order with a COMMIT.
LEMMA CommitEffect ==
    ASSUME InventoryInv, NEW o \in Orders, Commit(o)
    PROVE  /\ \A p \in OpenLines(o) : Latest(o, p)'.type = "COMMIT"
           /\ OthersKept(o)
           /\ UNCHANGED warehouseOf
<1> DEFINE P == OpenLines(o)
           w == warehouseOf[o]
           amount == [p \in P |-> Abs(Latest(o, p).delta)]
           zero == [p \in P |-> 0]
           aa == [p \in P |-> available[w][p]]
           ra == [p \in P |-> reserved[w][p] - amount[p]]
<1>1. InventoryTypeOK /\ w \in Warehouses
  BY DEF InventoryInv, InventoryTypeOK, Commit
<1>2. P \in SUBSET Products
  BY DEF OpenLines, ProductsOf
<1>3. ASSUME NEW p \in P
      PROVE  /\ amount[p] \in Int
             /\ available[w][p] \in Int /\ reserved[w][p] \in Int
  BY <1>1, <1>2, <1>3, OpenAmount, LinesAssumption DEF InventoryTypeOK
<1>4. zero \in [P -> Int] /\ aa \in [P -> Int] /\ ra \in [P -> Int]
  BY <1>3
<1>5. Post(o, w, "COMMIT", zero, aa, ra) /\ "COMMIT" \in MovementTypes
  BY DEF Commit, MovementTypes
<1>6. (\A p \in P : Latest(o, p)'.type = "COMMIT") /\ OthersKept(o)
  <2> HIDE DEF P, amount, zero, aa, ra, w
  <2> QED  BY <1>1, <1>2, <1>4, <1>5, PostEffect
<1> QED
  BY <1>6 DEF Commit

(***************************************************************************)
(* Settlement implements Inventory                                         *)
(***************************************************************************)

\* Every transaction of Settlement is one operation of the ledger or leaves
\* the ledger alone.
LEMMA SettlementStepIsInventoryStep ==
    [SettlementNext]_settlementVars => [InventoryNext]_inventoryVars
<1> SUFFICES ASSUME [SettlementNext]_settlementVars
             PROVE  InventoryNext \/ UNCHANGED inventoryVars
  OBVIOUS
<1>1. CASE UNCHANGED settlementVars
  BY <1>1 DEF settlementVars, inventoryVars
<1>2. ASSUME NEW o \in Orders, NEW w \in Warehouses, PlaceOrder(o, w)
      PROVE  InventoryNext
  BY <1>2 DEF PlaceOrder, InventoryNext
<1>3. ASSUME NEW o \in Orders, InsertPayment(o)
      PROVE  UNCHANGED inventoryVars
  BY <1>3 DEF InsertPayment
<1>4. ASSUME NEW o \in Orders, NEW result, SavePayment(o, result)
      PROVE  UNCHANGED inventoryVars
  BY <1>4 DEF SavePayment
<1>5. ASSUME NEW o \in Orders, NEW resolution, ConfirmCaptured(o, resolution)
      PROVE  InventoryNext
  BY <1>5 DEF ConfirmCaptured, InventoryNext
<1>6. ASSUME NEW o \in Orders, NEW resolution, FailDeclined(o, resolution)
      PROVE  InventoryNext
  BY <1>6 DEF FailDeclined, InventoryNext
<1>7. ASSUME NEW o \in Orders, NEW resolution, CancelUnpaid(o, resolution)
      PROVE  InventoryNext
  BY <1>7 DEF CancelUnpaid, InventoryNext
<1>8. ASSUME NEW o \in Orders, AlreadySettled(o)
      PROVE  UNCHANGED inventoryVars
  BY <1>8 DEF AlreadySettled, settlementVars, inventoryVars
<1> QED
  BY <1>1, <1>2, <1>3, <1>4, <1>5, <1>6, <1>7, <1>8 DEF SettlementNext

\* The settlement transactions implement the stock ledger, so everything
\* proved of the ledger holds of the orders being settled.
THEOREM SettlementImplementsInventory == SettlementSpec => InventorySpec
<1>1. SettlementInit => InventoryInit
  BY DEF SettlementInit
<1> QED
  BY <1>1, SettlementStepIsInventoryStep, PTL DEF SettlementSpec, InventorySpec

\* The ledger's invariant holds while orders are settled.
LEMMA SettlementKeepsLedger == SettlementSpec => []InventoryInv
BY SettlementImplementsInventory, InventoryInvariant, PTL

(***************************************************************************)
(* The inductive invariant                                                 *)
(*                                                                         *)
(* StatusMatchesLedger needs the ledger's own invariant: a pending order's *)
(* lines all end in a RESERVE, hence release and commit find every line    *)
(* open.  PublishedOnce needs only that a confirmed order is never         *)
(* confirmed again.                                                        *)
(***************************************************************************)

SettlementInv ==
    /\ SettlementTypeOK
    /\ InventoryInv
    /\ StatusMatchesLedger
    /\ PublishedOnce

\* What StatusMatchesLedger says of one order.
StatusMatches(x) ==
    IF status[x] = "NONE"
    THEN warehouseOf[x] = NoWarehouse /\ \A p \in Products : MovesOf(x, p) = {}
    ELSE /\ status[x] # "PAID"
         /\ warehouseOf[x] # NoWarehouse
         /\ \A p \in ProductsOf(x) : Latest(x, p).type = MovementOf[status[x]]

\* An order whose lines, warehouse and status a step keeps still matches.
LEMMA OthersStillMatch ==
    ASSUME InventoryInv, NEW o \in Orders, OthersKept(o),
           NEW x \in Orders, x # o, StatusMatches(x),
           status'[x] = status[x], warehouseOf'[x] = warehouseOf[x]
    PROVE  StatusMatches(x)'
<1>1. \A p \in Products : MovesOf(x, p)' = MovesOf(x, p)
  BY DEF OthersKept
<1>2. CASE status[x] = "NONE"
  BY <1>1, <1>2 DEF StatusMatches
<1>3. CASE status[x] # "NONE"
  <2>1. \A p \in ProductsOf(x) : p \in Products /\ HasLatest(x, p)
    BY <1>3 DEF StatusMatches, InventoryInv, LineRecorded, ProductsOf
  <2>2. \A p \in ProductsOf(x) : Latest(x, p)' = Latest(x, p)
    BY <2>1 DEF OthersKept
  <2>3. ProductsOf(x)' = ProductsOf(x)
    BY DEF ProductsOf
  <2> QED
    BY <1>3, <2>2, <2>3 DEF StatusMatches
<1> QED
  BY <1>2, <1>3

\* The lines of a pending order are all open.
LEMMA PendingIsOpen ==
    ASSUME InventoryInv, NEW o \in Orders, StatusMatches(o),
           status[o] = "PENDING_PAYMENT"
    PROVE  OpenLines(o) = ProductsOf(o)
<1>1. \A p \in ProductsOf(o) : Latest(o, p).type = "RESERVE"
  BY DEF StatusMatches, MovementOf
<1>2. warehouseOf[o] # NoWarehouse /\ LineRecorded
  BY DEF StatusMatches, InventoryInv
<1>3. \A p \in ProductsOf(o) : p \in Products /\ p \in OpenLines(o)
  BY <1>1, <1>2, OpenIsReserved DEF ProductsOf
<1> QED
  BY <1>3 DEF OpenLines

\* The settlement of a pending order: its lines end in the movement its new
\* status calls for, and the other orders are kept.
LEMMA SettleMatches ==
    ASSUME InventoryInv, \A x \in Orders : StatusMatches(x),
           NEW o \in Orders, status[o] = "PENDING_PAYMENT",
           status \in [Orders -> OrderStatuses \cup {"NONE"}],
           NEW to \in Terminal, status' = [status EXCEPT ![o] = to],
           \A p \in OpenLines(o) : Latest(o, p)'.type = MovementOf[to],
           OthersKept(o), UNCHANGED warehouseOf
    PROVE  \A x \in Orders : StatusMatches(x)'
<1> SUFFICES ASSUME NEW x \in Orders PROVE StatusMatches(x)'
  OBVIOUS
<1>1. CASE x = o
  <2>1. OpenLines(o) = ProductsOf(o) /\ ProductsOf(o)' = ProductsOf(o)
    BY PendingIsOpen DEF ProductsOf
  <2>2. /\ status'[x] = to /\ to # "NONE" /\ to # "PAID"
        /\ warehouseOf'[x] # NoWarehouse
    BY <1>1 DEF StatusMatches, Terminal
  <2> QED
    BY <1>1, <2>1, <2>2 DEF StatusMatches
<1>2. CASE x # o
  <2>1. status'[x] = status[x] /\ warehouseOf'[x] = warehouseOf[x]
    BY <1>2
  <2> QED
    BY <1>2, <2>1, OthersStillMatch
<1> QED
  BY <1>1, <1>2

\* The invariant holds before the first order.
LEMMA SettlementInitInv == SettlementInit => SettlementInv
<1> SUFFICES ASSUME SettlementInit PROVE SettlementInv
  OBVIOUS
<1>1. InventoryInv
  BY InventoryInitInv DEF SettlementInit
<1>2. SettlementTypeOK
  BY <1>1 DEF SettlementInit, SettlementTypeOK, InventoryInv, StatusAnswers,
              ChargeOutcomes
<1>3. StatusMatchesLedger
  <2>1. \A o \in Orders, p \in Products : MovesOf(o, p) = {}
    BY DEF SettlementInit, InventoryInit, MovesOf
  <2> QED
    BY <2>1 DEF SettlementInit, InventoryInit, StatusMatchesLedger
<1>4. PublishedOnce
  BY DEF SettlementInit, PublishedOnce
<1> QED
  BY <1>1, <1>2, <1>3, <1>4 DEF SettlementInv

\* The guarded update of the payment row keeps its type.
LEMMA ResolveType ==
    ASSUME SettlementTypeOK, NEW o \in Orders,
           NEW resolution \in StatusAnswers \cup {"NONE"},
           ResolvePayment(o, resolution)
    PROVE  payment' \in [Orders -> [status : StatusAnswers \cup {"NONE", "PENDING"},
                                    settled : BOOLEAN]]
BY DEF SettlementTypeOK, ResolvePayment

\* A settlement of a pending order without an event keeps the invariant.
LEMMA ReleaseSettlement ==
    ASSUME SettlementInv, InventoryInv', NEW o \in Orders,
           NEW resolution \in StatusAnswers \cup {"NONE"},
           status[o] = "PENDING_PAYMENT",
           NEW to \in {"PAYMENT_FAILED", "CANCELLED"},
           ResolvePayment(o, resolution), Release(o),
           status' = [status EXCEPT ![o] = to], UNCHANGED outbox
    PROVE  SettlementInv'
<1>1. SettlementTypeOK /\ InventoryInv /\ to \in Terminal
  BY DEF SettlementInv, Terminal
<1>2. SettlementTypeOK'
  BY <1>1, ResolveType DEF SettlementTypeOK, InventoryInv, OrderStatuses,
                           ORDER_TRANSITIONS
<1>3. StatusMatchesLedger'
  <2>1. \A x \in Orders : StatusMatches(x)
    BY DEF SettlementInv, StatusMatchesLedger, StatusMatches
  <2>2. /\ \A p \in OpenLines(o) : Latest(o, p)'.type = "RELEASE"
        /\ OthersKept(o) /\ UNCHANGED warehouseOf
    BY <1>1, ReleaseEffect
  <2>3. MovementOf[to] = "RELEASE"
    BY DEF MovementOf
  <2>4. \A x \in Orders : StatusMatches(x)'
    BY <1>1, <2>1, <2>2, <2>3, SettleMatches DEF SettlementTypeOK
  <2> QED
    BY <2>4 DEF StatusMatchesLedger, StatusMatches
<1>4. PublishedOnce'
  BY <1>1 DEF SettlementInv, SettlementTypeOK, PublishedOnce
<1> QED
  BY <1>2, <1>3, <1>4 DEF SettlementInv

\* The confirmation of a pending order keeps the invariant.
LEMMA ConfirmSettlement ==
    ASSUME SettlementInv, InventoryInv', NEW o \in Orders,
           NEW resolution \in StatusAnswers \cup {"NONE"},
           ConfirmCaptured(o, resolution)
    PROVE  SettlementInv'
<1>1. SettlementTypeOK /\ InventoryInv /\ "CONFIRMED" \in Terminal
  BY DEF SettlementInv, Terminal
<1>2. /\ status[o] = "PENDING_PAYMENT" /\ ResolvePayment(o, resolution)
      /\ Commit(o) /\ status' = [status EXCEPT ![o] = "CONFIRMED"]
      /\ Publish(o)
  BY DEF ConfirmCaptured
<1>3. \A q \in EVENT_ROUTING, x \in Orders :
          outbox'[q][x] = IF x = o THEN outbox[q][x] + 1 ELSE outbox[q][x]
  BY <1>1, <1>2 DEF Publish, SettlementTypeOK
<1>4. SettlementTypeOK'
  <2>1. outbox' \in [EVENT_ROUTING -> [Orders -> Nat]]
    BY <1>1, <1>2 DEF Publish, SettlementTypeOK
  <2>2. status' \in [Orders -> OrderStatuses \cup {"NONE"}]
    BY <1>1, <1>2 DEF SettlementTypeOK, OrderStatuses, ORDER_TRANSITIONS
  <2> QED
    BY <1>1, <1>2, <2>1, <2>2, ResolveType DEF SettlementTypeOK, InventoryInv
<1>5. StatusMatchesLedger'
  <2>1. \A x \in Orders : StatusMatches(x)
    BY DEF SettlementInv, StatusMatchesLedger, StatusMatches
  <2>2. /\ \A p \in OpenLines(o) : Latest(o, p)'.type = "COMMIT"
        /\ OthersKept(o) /\ UNCHANGED warehouseOf
    BY <1>1, <1>2, CommitEffect
  <2>3. MovementOf["CONFIRMED"] = "COMMIT"
    BY DEF MovementOf
  <2>4. \A x \in Orders : StatusMatches(x)'
    BY <1>1, <1>2, <2>1, <2>2, <2>3, SettleMatches DEF SettlementTypeOK
  <2> QED
    BY <2>4 DEF StatusMatchesLedger, StatusMatches
<1>6. PublishedOnce'
  <2> SUFFICES ASSUME NEW q \in EVENT_ROUTING, NEW x \in Orders
               PROVE  outbox'[q][x] = IF status'[x] = "CONFIRMED" THEN 1 ELSE 0
    BY DEF PublishedOnce
  <2>1. outbox[q][x] = IF status[x] = "CONFIRMED" THEN 1 ELSE 0
    BY DEF SettlementInv, PublishedOnce
  <2>2. CASE x = o
    BY <1>1, <1>2, <1>3, <2>1, <2>2 DEF SettlementTypeOK
  <2>3. CASE x # o
    BY <1>1, <1>2, <1>3, <2>1, <2>3 DEF SettlementTypeOK
  <2> QED
    BY <2>2, <2>3
<1> QED
  BY <1>4, <1>5, <1>6 DEF SettlementInv

\* The insertion of an order keeps the invariant.
LEMMA PlaceSettlement ==
    ASSUME SettlementInv, InventoryInv', NEW o \in Orders,
           NEW w \in Warehouses, PlaceOrder(o, w)
    PROVE  SettlementInv'
<1>1. SettlementTypeOK /\ InventoryInv
  BY DEF SettlementInv
<1>2. /\ status[o] = "NONE" /\ Reserve(o, w)
      /\ status' = [status EXCEPT ![o] = "PENDING_PAYMENT"]
      /\ UNCHANGED <<payment, outbox>>
  BY DEF PlaceOrder
<1>3. SettlementTypeOK'
  BY <1>1, <1>2 DEF SettlementTypeOK, InventoryInv, OrderStatuses,
                    ORDER_TRANSITIONS
<1>4. /\ \A p \in ProductsOf(o) : Latest(o, p)'.type = "RESERVE"
      /\ OthersKept(o)
      /\ warehouseOf'[o] = w
      /\ \A x \in Orders : x # o => warehouseOf'[x] = warehouseOf[x]
  BY <1>1, <1>2, ReserveEffect
<1>5. ASSUME NEW x \in Orders PROVE StatusMatches(x)'
  <2>1. StatusMatches(x)
    BY DEF SettlementInv, StatusMatchesLedger, StatusMatches
  <2>2. CASE x = o
    <3>1. status'[x] = "PENDING_PAYMENT" /\ w # NoWarehouse
      BY <1>1, <1>2, <2>2, NoWarehouseAssumption DEF SettlementTypeOK
    <3>2. ProductsOf(x)' = ProductsOf(x)
      BY DEF ProductsOf
    <3> QED
      BY <1>4, <2>2, <3>1, <3>2 DEF StatusMatches, MovementOf
  <2>3. CASE x # o
    <3>1. status'[x] = status[x]
      BY <1>1, <1>2, <2>3 DEF SettlementTypeOK
    <3> QED
      BY <1>1, <1>4, <2>1, <2>3, <3>1, OthersStillMatch
  <2> QED
    BY <2>2, <2>3
<1>6. StatusMatchesLedger'
  BY <1>5 DEF StatusMatchesLedger, StatusMatches
<1>7. PublishedOnce'
  BY <1>1, <1>2 DEF SettlementInv, SettlementTypeOK, PublishedOnce
<1> QED
  BY <1>3, <1>6, <1>7 DEF SettlementInv

\* A step that leaves the ledger, the statuses and the outbox alone keeps
\* the invariant.
LEMMA PaymentOnly ==
    ASSUME SettlementInv, InventoryInv', UNCHANGED <<inventoryVars, status, outbox>>,
           payment' \in [Orders -> [status : StatusAnswers \cup {"NONE", "PENDING"},
                                    settled : BOOLEAN]]
    PROVE  SettlementInv'
<1> USE DEF inventoryVars
<1>1. SettlementTypeOK'
  BY DEF SettlementInv, SettlementTypeOK, InventoryInv
<1>2. \A x \in Orders, p \in Products :
          MovesOf(x, p)' = MovesOf(x, p) /\ Latest(x, p)' = Latest(x, p)
  BY DEF MovesOf, Latest
<1>3. StatusMatchesLedger'
  BY <1>2 DEF SettlementInv, StatusMatchesLedger, ProductsOf
<1>4. PublishedOnce'
  BY DEF SettlementInv, PublishedOnce
<1> QED
  BY <1>1, <1>3, <1>4 DEF SettlementInv

\* The invariant is inductive.
LEMMA SettlementNextInv ==
    SettlementInv /\ [SettlementNext]_settlementVars => SettlementInv'
<1> SUFFICES ASSUME SettlementInv, [SettlementNext]_settlementVars
             PROVE  SettlementInv'
  OBVIOUS
<1>0. InventoryInv'
  BY SettlementStepIsInventoryStep, InventoryNextInv DEF SettlementInv
<1>1. CASE UNCHANGED settlementVars
  BY <1>0, <1>1, PaymentOnly DEF settlementVars, inventoryVars, SettlementInv,
                                 SettlementTypeOK
<1>2. ASSUME NEW o \in Orders, NEW w \in Warehouses, PlaceOrder(o, w)
      PROVE  SettlementInv'
  BY <1>0, <1>2, PlaceSettlement
<1>3. ASSUME NEW o \in Orders, InsertPayment(o)
      PROVE  SettlementInv'
  BY <1>0, <1>3, PaymentOnly DEF InsertPayment, SettlementInv, SettlementTypeOK
<1>4. ASSUME NEW o \in Orders, NEW result \in ChargeOutcomes, SavePayment(o, result)
      PROVE  SettlementInv'
  <2>1. payment' \in [Orders -> [status : StatusAnswers \cup {"NONE", "PENDING"},
                                 settled : BOOLEAN]]
    BY <1>4 DEF SavePayment, SettlementInv, SettlementTypeOK, StatusAnswers,
                IsDefinitiveOutcome
  <2> QED
    BY <1>0, <1>4, <2>1, PaymentOnly DEF SavePayment
<1>5. ASSUME NEW o \in Orders, NEW resolution \in {"CAPTURED", "NONE"},
             ConfirmCaptured(o, resolution)
      PROVE  SettlementInv'
  BY <1>0, <1>5, ConfirmSettlement DEF StatusAnswers, ChargeOutcomes
<1>6. ASSUME NEW o \in Orders, NEW resolution \in {"DECLINED", "NONE"},
             FailDeclined(o, resolution)
      PROVE  SettlementInv'
  BY <1>0, <1>6, ReleaseSettlement DEF FailDeclined, StatusAnswers, ChargeOutcomes
<1>7. ASSUME NEW o \in Orders, NEW resolution \in {"FAILED", "NONE"},
             CancelUnpaid(o, resolution)
      PROVE  SettlementInv'
  BY <1>0, <1>7, ReleaseSettlement DEF CancelUnpaid, StatusAnswers, ChargeOutcomes
<1>8. ASSUME NEW o \in Orders, AlreadySettled(o)
      PROVE  SettlementInv'
  BY <1>1, <1>8 DEF AlreadySettled
<1> QED
  BY <1>1, <1>2, <1>3, <1>4, <1>5, <1>6, <1>7, <1>8 DEF SettlementNext

\* Every behaviour of the settlement transactions keeps the invariant.
THEOREM SettlementInvariant == SettlementSpec => []SettlementInv
BY SettlementInitInv, SettlementNextInv, PTL DEF SettlementSpec

\* Orders, payments and outbox rows keep their types.
THEOREM SettlementTypes == SettlementSpec => []SettlementTypeOK
<1>1. SettlementInv => SettlementTypeOK
  BY DEF SettlementInv
<1> QED
  BY <1>1, SettlementInvariant, PTL

\* The status of an order and the stock ledger always tell the same story,
\* however many settlers race for the order.
THEOREM StatusAlwaysMatchesLedger == SettlementSpec => []StatusMatchesLedger
<1>1. SettlementInv => StatusMatchesLedger
  BY DEF SettlementInv
<1> QED
  BY <1>1, SettlementInvariant, PTL

\* order.confirmed is published exactly once for each confirmed order.
THEOREM AlwaysPublishedOnce == SettlementSpec => []PublishedOnce
<1>1. SettlementInv => PublishedOnce
  BY DEF SettlementInv
<1> QED
  BY <1>1, SettlementInvariant, PTL

(***************************************************************************)
(* A settled order is final                                                *)
(***************************************************************************)

\* What SettledIsFinal says of one step.
StepKeepsSettled ==
    \A o \in Orders : status[o] \in Terminal =>
        /\ status'[o] = status[o]
        /\ \A p \in Products : MovesOf(o, p)' = MovesOf(o, p)
        /\ \A q \in EVENT_ROUTING : outbox'[q][o] = outbox[q][o]

\* A step that moves one order that is not settled keeps the settled ones.
LEMMA OneOrderMoves ==
    ASSUME SettlementInv, NEW o \in Orders, status[o] \notin Terminal,
           NEW to, status' = [status EXCEPT ![o] = to],
           OthersKept(o), UNCHANGED outbox \/ Publish(o)
    PROVE  StepKeepsSettled
<1> SUFFICES ASSUME NEW x \in Orders, status[x] \in Terminal
             PROVE  /\ status'[x] = status[x]
                    /\ \A p \in Products : MovesOf(x, p)' = MovesOf(x, p)
                    /\ \A q \in EVENT_ROUTING : outbox'[q][x] = outbox[q][x]
  BY DEF StepKeepsSettled
<1>1. x # o /\ SettlementTypeOK
  BY DEF SettlementInv
<1>2. status'[x] = status[x]
  BY <1>1 DEF SettlementTypeOK
<1>3. \A p \in Products : MovesOf(x, p)' = MovesOf(x, p)
  BY <1>1 DEF OthersKept
<1>4. \A q \in EVENT_ROUTING : outbox'[q][x] = outbox[q][x]
  BY <1>1 DEF SettlementTypeOK, Publish
<1> QED
  BY <1>2, <1>3, <1>4

\* No transaction changes a settled order.
LEMMA SettlementStepKeepsSettled ==
    SettlementInv /\ [SettlementNext]_settlementVars
        => [StepKeepsSettled]_settlementVars
<1> SUFFICES ASSUME SettlementInv, SettlementNext
             PROVE  StepKeepsSettled
  OBVIOUS
<1>0. InventoryInv
  BY DEF SettlementInv
<1>1. ASSUME UNCHANGED <<inventoryVars, status, outbox>>
      PROVE  StepKeepsSettled
  BY <1>1 DEF StepKeepsSettled, inventoryVars, MovesOf
<1>2. ASSUME NEW o \in Orders, NEW w \in Warehouses, PlaceOrder(o, w)
      PROVE  StepKeepsSettled
  BY <1>0, <1>2, ReserveEffect, OneOrderMoves DEF PlaceOrder, Terminal
<1>3. ASSUME NEW o \in Orders, NEW resolution, ConfirmCaptured(o, resolution)
      PROVE  StepKeepsSettled
  BY <1>0, <1>3, CommitEffect, OneOrderMoves DEF ConfirmCaptured, Terminal
<1>4. ASSUME NEW o \in Orders, NEW resolution, FailDeclined(o, resolution)
      PROVE  StepKeepsSettled
  BY <1>0, <1>4, ReleaseEffect, OneOrderMoves DEF FailDeclined, Terminal
<1>5. ASSUME NEW o \in Orders, NEW resolution, CancelUnpaid(o, resolution)
      PROVE  StepKeepsSettled
  BY <1>0, <1>5, ReleaseEffect, OneOrderMoves DEF CancelUnpaid, Terminal
<1>6. ASSUME NEW o \in Orders, InsertPayment(o)
      PROVE  StepKeepsSettled
  BY <1>1, <1>6 DEF InsertPayment
<1>7. ASSUME NEW o \in Orders, NEW result, SavePayment(o, result)
      PROVE  StepKeepsSettled
  BY <1>1, <1>7 DEF SavePayment
<1>8. ASSUME NEW o \in Orders, AlreadySettled(o)
      PROVE  StepKeepsSettled
  BY <1>1, <1>8 DEF AlreadySettled, settlementVars, inventoryVars
<1> QED
  BY <1>2, <1>3, <1>4, <1>5, <1>6, <1>7, <1>8 DEF SettlementNext

\* Whoever settles an order first wins for good: no later settlement changes
\* its status, its stock or its events.
THEOREM FirstSettlementWins == SettlementSpec => SettledIsFinal
<1>1. [StepKeepsSettled]_settlementVars =>
      [\A o \in Orders : status[o] \in Terminal =>
           /\ status'[o] = status[o]
           /\ \A p \in Products : MovesOf(o, p)' = MovesOf(o, p)
           /\ \A q \in EVENT_ROUTING : outbox'[q][o] = outbox[q][o]
      ]_settlementVars
  BY DEF StepKeepsSettled
<1> QED
  BY <1>1, SettlementInvariant, SettlementStepKeepsSettled, PTL
     DEF SettlementSpec, SettledIsFinal

(***************************************************************************)
(* What the saga and the jobs remember has its type                        *)
(***************************************************************************)

\* The part of the type invariant that the refinement needs.  It does not
\* mention the tables, so it is inductive by itself.
MemoryTypeOK ==
    /\ pc \in [Orders -> Steps]
    /\ chargeResult \in [Orders -> ChargeOutcomes \cup {"NONE"}]
    /\ provider \in [Orders -> {"none", "approved", "declined"}]
    /\ placed \in Seq(Orders) /\ expired \in 0..Len(placed)
    /\ charged \in Seq(Orders) /\ graced \in 0..Len(charged)
    /\ batch \in [Jobs -> Seq(Rows)]
    /\ answer \in [Jobs -> StatusAnswers \cup {"NONE"}]

\* From the charge's return on, the saga knows its outcome.
ChargeReturned ==
    \A o \in Orders :
        pc[o] \in {"savePayment", "settle"} => chargeResult[o] \in ChargeOutcomes

MemoryInv == MemoryTypeOK /\ ChargeReturned

LEMMA MemoryInit == Init => MemoryInv
BY DEF Init, MemoryInv, MemoryTypeOK, ChargeReturned, Steps

\* A step of one saga that leaves the jobs and the clock alone.
LEMMA SagaMemory ==
    ASSUME MemoryInv, NEW o \in Orders, NEW step \in Steps, GoTo(o, step),
           UNCHANGED chargeResult,
           step \in {"savePayment", "settle"} => chargeResult[o] \in ChargeOutcomes
    PROVE  /\ pc' \in [Orders -> Steps]
           /\ chargeResult' \in [Orders -> ChargeOutcomes \cup {"NONE"}]
           /\ ChargeReturned'
BY DEF MemoryInv, MemoryTypeOK, ChargeReturned, GoTo

\* Every step of a saga keeps what it and the others remember.
LEMMA SagaStepMemory ==
    ASSUME MemoryInv, NEW o \in Orders, SagaStep(o)
    PROVE  MemoryInv'
<1>0. MemoryTypeOK /\ ChargeReturned
  BY DEF MemoryInv
<1>1. CASE Resolve(o)
  <2>1. PICK step \in {"select", "done"} : GoTo(o, step)
    BY <1>1 DEF Resolve, Respond
  <2>2. step \in Steps /\ step \notin {"savePayment", "settle"}
    BY <2>1 DEF Steps
  <2>3. UNCHANGED <<chargeResult, clockVars, providerVars, jobVars>>
    BY <1>1 DEF Resolve
  <2> QED
    BY <1>0, <2>1, <2>2, <2>3, SagaMemory
       DEF MemoryInv, MemoryTypeOK, clockVars, providerVars, jobVars
<1>2. CASE SelectWarehouses(o)
  <2>1. PICK step \in {"reserve", "done"} : GoTo(o, step)
    BY <1>2 DEF SelectWarehouses, Respond
  <2>2. step \in Steps /\ step \notin {"savePayment", "settle"}
    BY <2>1 DEF Steps
  <2>3. UNCHANGED <<chargeResult, clockVars, providerVars, jobVars>>
    BY <1>2 DEF SelectWarehouses
  <2> QED
    BY <1>0, <2>1, <2>2, <2>3, SagaMemory
       DEF MemoryInv, MemoryTypeOK, clockVars, providerVars, jobVars
<1>3. CASE \E w \in Warehouses : TryCandidate(o, w)
  <2>1. /\ GoTo(o, "insertPayment") /\ UNCHANGED chargeResult
        /\ placed' = Append(placed, o)
        /\ UNCHANGED <<expired, charged, graced, providerVars, jobVars>>
    BY <1>3 DEF TryCandidate
  <2>2. placed' \in Seq(Orders) /\ expired' \in 0..Len(placed')
    BY <1>0, <2>1 DEF MemoryTypeOK
  <2> QED
    BY <1>0, <2>1, <2>2, SagaMemory
       DEF MemoryInv, MemoryTypeOK, providerVars, jobVars, Steps
<1>4. CASE CandidateFails(o)
  <2>1. \/ GoTo(o, "done") \/ UNCHANGED pc
    BY <1>4 DEF CandidateFails, Respond
  <2>2. UNCHANGED <<chargeResult, clockVars, providerVars, jobVars>>
    BY <1>4 DEF CandidateFails
  <2>3. CASE GoTo(o, "done")
    BY <1>0, <2>2, <2>3, SagaMemory
       DEF MemoryInv, MemoryTypeOK, clockVars, providerVars, jobVars, Steps
  <2>4. CASE UNCHANGED pc
    BY <1>0, <2>2, <2>4 DEF MemoryInv, MemoryTypeOK, ChargeReturned, clockVars,
                            providerVars, jobVars
  <2> QED
    BY <2>1, <2>3, <2>4
<1>5. CASE SavePendingPayment(o)
  <2>1. /\ GoTo(o, "charge") /\ UNCHANGED chargeResult
        /\ charged' = Append(charged, o)
        /\ UNCHANGED <<placed, expired, graced, providerVars, jobVars>>
    BY <1>5 DEF SavePendingPayment
  <2>2. charged' \in Seq(Orders) /\ graced' \in 0..Len(charged')
    BY <1>0, <2>1 DEF MemoryTypeOK
  <2> QED
    BY <1>0, <2>1, <2>2, SagaMemory
       DEF MemoryInv, MemoryTypeOK, providerVars, jobVars, Steps
<1>6. CASE SendCharge(o)
  <2>1. /\ GoTo(o, "await")
        /\ UNCHANGED <<chargeResult, clockVars, provider, jobVars>>
    BY <1>6 DEF SendCharge
  <2> QED
    BY <1>0, <2>1, SagaMemory DEF MemoryInv, MemoryTypeOK, clockVars, jobVars, Steps
<1>7. CASE ChargeReturns(o)
  <2>1. PICK result \in ChargeOutcomes :
            chargeResult' = [chargeResult EXCEPT ![o] = result]
    BY <1>7 DEF ChargeReturns
  <2>2. /\ GoTo(o, "savePayment")
        /\ UNCHANGED <<clockVars, providerVars, jobVars>>
    BY <1>7 DEF ChargeReturns
  <2> QED
    BY <1>0, <2>1, <2>2 DEF MemoryInv, MemoryTypeOK, ChargeReturned, GoTo, Steps,
                            clockVars, providerVars, jobVars
<1>8. CASE SaveOutcome(o)
  <2>1. /\ GoTo(o, "settle")
        /\ UNCHANGED <<chargeResult, clockVars, providerVars, jobVars>>
    BY <1>8 DEF SaveOutcome
  <2>2. chargeResult[o] \in ChargeOutcomes
    BY <1>0, <1>8 DEF SaveOutcome, ChargeReturned
  <2> QED
    BY <1>0, <2>1, <2>2, SagaMemory
       DEF MemoryInv, MemoryTypeOK, clockVars, providerVars, jobVars, Steps
<1>9. CASE SettleOrder(o)
  <2>1. /\ GoTo(o, "done")
        /\ UNCHANGED <<chargeResult, clockVars, providerVars, jobVars>>
    BY <1>9 DEF SettleOrder, Respond
  <2> QED
    BY <1>0, <2>1, SagaMemory
       DEF MemoryInv, MemoryTypeOK, clockVars, providerVars, jobVars, Steps
<1> QED
  BY <1>1, <1>2, <1>3, <1>4, <1>5, <1>6, <1>7, <1>8, <1>9 DEF SagaStep

\* A step that gives job j the batch and the answer of its type.
LEMMA JobMemory ==
    ASSUME MemoryInv, NEW j \in Jobs, UNCHANGED <<sagaVars, clockVars, providerVars>>,
           NEW rows \in Seq(Rows), batch' = [batch EXCEPT ![j] = rows],
           NEW says \in StatusAnswers \cup {"NONE"},
           answer' = [answer EXCEPT ![j] = says]
    PROVE  MemoryInv'
BY DEF MemoryInv, MemoryTypeOK, ChargeReturned, sagaVars, clockVars, providerVars

\* The same for the selection, which leaves the answer alone.
LEMMA SelectMemory ==
    ASSUME MemoryInv, NEW j \in Jobs,
           UNCHANGED <<sagaVars, clockVars, providerVars, answer>>,
           NEW n \in Nat, NEW S \in SUBSET Orders, NEW rows \in [1..n -> S],
           NEW has \in [1..n -> BOOLEAN],
           batch' = [batch EXCEPT ![j] =
               [i \in 1..n |-> [order |-> rows[i], hasPayment |-> has[i]]]]
    PROVE  MemoryInv'
<1> DEFINE b == [i \in 1..n |-> [order |-> rows[i], hasPayment |-> has[i]]]
<1>1. b \in [1..n -> Rows]
  BY DEF Rows
<1>2. b \in Seq(Rows)
  BY <1>1
<1>3. batch' = [batch EXCEPT ![j] = b]
  OBVIOUS
<1> HIDE DEF b
<1> QED
  BY <1>2, <1>3 DEF MemoryInv, MemoryTypeOK, ChargeReturned, sagaVars, clockVars,
                    providerVars

\* NextRow, WorkerCrashes and AskProvider keep it.
LEMMA RowMemory ==
    ASSUME MemoryInv, NEW j \in Jobs, batch[j] # <<>>,
           \/ NextRow(j)
           \/ WorkerCrashes(j)
           \/ \E says \in StatusAnswers : AskProvider(j, says)
    PROVE  MemoryInv'
<1>0. batch \in [Jobs -> Seq(Rows)] /\ answer \in [Jobs -> StatusAnswers \cup {"NONE"}]
  BY DEF MemoryInv, MemoryTypeOK
<1>1. CASE NextRow(j)
  <2>1. Tail(batch[j]) \in Seq(Rows)
    BY <1>0
  <2> QED
    BY <1>1, <2>1, JobMemory DEF NextRow
<1>2. CASE WorkerCrashes(j)
  <2>1. <<>> \in Seq(Rows)
    OBVIOUS
  <2> QED
    BY <1>2, <2>1, JobMemory DEF WorkerCrashes
<1>3. CASE \E says \in StatusAnswers : AskProvider(j, says)
  BY <1>3 DEF AskProvider, MemoryInv, MemoryTypeOK, ChargeReturned, sagaVars,
              clockVars, providerVars
<1> QED
  BY <1>1, <1>2, <1>3

\* Every step of a job keeps it.
LEMMA JobStepMemory ==
    ASSUME MemoryInv, NEW j \in Jobs, JobStep(j) \/ RowFails(j) \/ WorkerCrashes(j)
    PROVE  MemoryInv'
<1>0. /\ placed \in Seq(Orders) /\ expired \in 0..Len(placed)
      /\ charged \in Seq(Orders) /\ graced \in 0..Len(charged)
  BY DEF MemoryInv, MemoryTypeOK
<1>1. CASE ReaperSelect(j)
  <2>0. PICK n \in 1..BatchSize : \E rows \in [1..n -> Overdue] :
            batch' = [batch EXCEPT ![j] = [i \in 1..n |->
                [order |-> rows[i],
                 hasPayment |-> payment[rows[i]].status # "NONE"]]]
    BY <1>1 DEF ReaperSelect
  <2>1. PICK rows \in [1..n -> Overdue] :
            batch' = [batch EXCEPT ![j] = [i \in 1..n |->
                [order |-> rows[i],
                 hasPayment |-> payment[rows[i]].status # "NONE"]]]
    BY <2>0
  <2> DEFINE has == [i \in 1..n |-> payment[rows[i]].status # "NONE"]
  <2>2. Overdue \in SUBSET Orders
    BY <1>0 DEF Overdue
  <2>3. n \in Nat
    BY LimitAssumption
  <2>4. has \in [1..n -> BOOLEAN]
    OBVIOUS
  <2>5. batch' = [batch EXCEPT ![j] =
            [i \in 1..n |-> [order |-> rows[i], hasPayment |-> has[i]]]]
    BY <2>1, Zenon
  <2>6. UNCHANGED <<sagaVars, clockVars, providerVars, answer>>
    BY <1>1 DEF ReaperSelect
  <2> HIDE DEF has
  <2> QED
    BY <2>2, <2>3, <2>4, <2>5, <2>6, SelectMemory
<1>2. CASE ReconcilerSelect(j)
  <2> DEFINE S == {charged[i] : i \in 1..graced}
  <2>0. PICK n \in 1..BatchSize : \E rows \in [1..n -> S] :
            batch' = [batch EXCEPT ![j] = [i \in 1..n |->
                [order |-> rows[i], hasPayment |-> TRUE]]]
    BY <1>2 DEF ReconcilerSelect
  <2>1. PICK rows \in [1..n -> S] :
            batch' = [batch EXCEPT ![j] = [i \in 1..n |->
                [order |-> rows[i], hasPayment |-> TRUE]]]
    BY <2>0
  <2> DEFINE has == [i \in 1..n |-> TRUE]
  <2>2. S \in SUBSET Orders
    BY <1>0
  <2>3. n \in Nat
    BY LimitAssumption
  <2>4. has \in [1..n -> BOOLEAN]
    OBVIOUS
  <2>5. batch' = [batch EXCEPT ![j] =
            [i \in 1..n |-> [order |-> rows[i], hasPayment |-> has[i]]]]
    BY <2>1, Zenon
  <2>6. UNCHANGED <<sagaVars, clockVars, providerVars, answer>>
    BY <1>2 DEF ReconcilerSelect
  <2> HIDE DEF has, S
  <2> QED
    BY <2>2, <2>3, <2>4, <2>5, <2>6, SelectMemory
<1>3. CASE \E says \in StatusAnswers : AskProvider(j, says)
  BY <1>3, RowMemory DEF AskProvider
<1>4. CASE SettleDefinitive(j)
  BY <1>4, RowMemory DEF SettleDefinitive
<1>5. CASE ReaperCancels(j)
  BY <1>5, RowMemory DEF ReaperCancels
<1>6. CASE LeaveUnresolved(j)
  BY <1>6, RowMemory DEF LeaveUnresolved
<1>7. CASE RowFails(j)
  BY <1>7, RowMemory DEF RowFails, Settling
<1>8. CASE WorkerCrashes(j)
  BY <1>8, RowMemory DEF WorkerCrashes
<1> QED
  BY <1>1, <1>2, <1>3, <1>4, <1>5, <1>6, <1>7, <1>8 DEF JobStep

\* Every step keeps what the saga and the jobs remember.
LEMMA MemoryNext == MemoryInv /\ [Next]_vars => MemoryInv'
<1> SUFFICES ASSUME MemoryInv, [Next]_vars
             PROVE  MemoryInv'
  OBVIOUS
<1>0. MemoryTypeOK /\ ChargeReturned
  BY DEF MemoryInv
<1>1. CASE UNCHANGED vars
  BY <1>0, <1>1 DEF MemoryInv, MemoryTypeOK, ChargeReturned, vars, sagaVars,
                    clockVars, providerVars, jobVars
<1>2. ASSUME NEW o \in Orders, SagaStep(o)
      PROVE  MemoryInv'
  BY <1>2, SagaStepMemory
<1>3. ASSUME NEW o \in Orders, SagaFails(o)
      PROVE  MemoryInv'
  <2>1. /\ GoTo(o, "done")
        /\ UNCHANGED <<chargeResult, clockVars, providerVars, jobVars>>
    BY <1>3 DEF SagaFails, Respond
  <2> QED
    BY <1>0, <2>1, SagaMemory
       DEF MemoryInv, MemoryTypeOK, clockVars, providerVars, jobVars, Steps
<1>4. ASSUME NEW o \in Orders, Crash(o)
      PROVE  MemoryInv'
  <2>1. /\ GoTo(o, "crashed")
        /\ UNCHANGED <<chargeResult, clockVars, providerVars, jobVars>>
    BY <1>4 DEF Crash
  <2> QED
    BY <1>0, <2>1, SagaMemory
       DEF MemoryInv, MemoryTypeOK, clockVars, providerVars, jobVars, Steps
<1>5. ASSUME NEW o \in Orders, ProviderReceives(o) \/ RequestLost(o)
      PROVE  MemoryInv'
  <2>1. UNCHANGED <<sagaVars, clockVars, jobVars>>
    BY <1>5 DEF ProviderReceives, RequestLost
  <2>2. provider' \in [Orders -> {"none", "approved", "declined"}]
    BY <1>0, <1>5 DEF ProviderReceives, RequestLost, MemoryTypeOK
  <2> QED
    BY <1>0, <2>1, <2>2 DEF MemoryInv, MemoryTypeOK, ChargeReturned, sagaVars,
                            clockVars, jobVars
<1>6. CASE ReservationExpires
  BY <1>0, <1>6 DEF ReservationExpires, MemoryInv, MemoryTypeOK, ChargeReturned,
                    sagaVars, providerVars, jobVars
<1>7. CASE GraceEnds
  BY <1>0, <1>7 DEF GraceEnds, MemoryInv, MemoryTypeOK, ChargeReturned,
                    sagaVars, providerVars, jobVars
<1>8. ASSUME NEW j \in Jobs, JobStep(j) \/ RowFails(j) \/ WorkerCrashes(j)
      PROVE  MemoryInv'
  BY <1>8, JobStepMemory
<1> QED
  BY <1>1, <1>2, <1>3, <1>4, <1>5, <1>6, <1>7, <1>8 DEF Next

LEMMA MemoryInvariant == Spec => []MemoryInv
BY MemoryInit, MemoryNext, PTL DEF Spec

(***************************************************************************)
(* The saga and the jobs implement Settlement                              *)
(***************************************************************************)

\* A job's first row names an order.
LEMMA FirstRow ==
    ASSUME MemoryInv, NEW j \in Jobs, batch[j] # <<>>
    PROVE  batch[j][1].order \in Orders
<1>1. batch[j] \in Seq(Rows)
  BY DEF MemoryInv, MemoryTypeOK
<1>2. Len(batch[j]) > 0
  BY <1>1
<1>3. batch[j][1] \in Rows
  BY <1>1, <1>2
<1> QED
  BY <1>3 DEF Rows

\* Each step of the saga and the jobs is a transaction of Settlement, or none.
LEMMA StepIsSettlementStep ==
    MemoryInv /\ [Next]_vars => [SettlementNext]_settlementVars
<1> SUFFICES ASSUME MemoryInv, [Next]_vars
             PROVE  SettlementNext \/ UNCHANGED settlementVars
  OBVIOUS
<1>1. CASE UNCHANGED vars
  BY <1>1 DEF vars
<1>2. ASSUME NEW o \in Orders, SagaStep(o)
      PROVE  SettlementNext \/ UNCHANGED settlementVars
  <2>1. CASE Resolve(o) \/ SelectWarehouses(o) \/ CandidateFails(o)
               \/ SendCharge(o) \/ ChargeReturns(o)
    BY <2>1 DEF Resolve, SelectWarehouses, CandidateFails, SendCharge, ChargeReturns
  <2>2. ASSUME NEW w \in Warehouses, TryCandidate(o, w)
        PROVE  SettlementNext
    BY <2>2 DEF TryCandidate, SettlementNext
  <2>3. CASE SavePendingPayment(o)
    BY <2>3 DEF SavePendingPayment, SettlementNext
  <2>4. CASE SaveOutcome(o)
    <3>1. chargeResult[o] \in ChargeOutcomes
      BY <2>4 DEF SaveOutcome, MemoryInv, ChargeReturned
    <3> QED
      BY <2>4, <3>1 DEF SaveOutcome, SettlementNext
  <2>5. CASE SettleOrder(o)
    BY <2>5 DEF SettleOrder, SettlementNext
  <2> QED
    BY <1>2, <2>1, <2>2, <2>3, <2>4, <2>5 DEF SagaStep
<1>3. ASSUME NEW o \in Orders, \/ SagaFails(o) \/ Crash(o)
                               \/ ProviderReceives(o) \/ RequestLost(o)
      PROVE  UNCHANGED settlementVars
  BY <1>3 DEF SagaFails, Crash, ProviderReceives, RequestLost
<1>4. CASE ReservationExpires \/ GraceEnds
  BY <1>4 DEF ReservationExpires, GraceEnds
<1>5. ASSUME NEW j \in Jobs, JobStep(j) \/ RowFails(j) \/ WorkerCrashes(j)
      PROVE  SettlementNext \/ UNCHANGED settlementVars
  <2>1. CASE \/ ReaperSelect(j) \/ ReconcilerSelect(j) \/ LeaveUnresolved(j)
             \/ RowFails(j) \/ WorkerCrashes(j)
             \/ \E says \in StatusAnswers : AskProvider(j, says)
    BY <2>1 DEF ReaperSelect, ReconcilerSelect, LeaveUnresolved, RowFails,
                WorkerCrashes, AskProvider
  <2>2. CASE SettleDefinitive(j)
    <3>1. batch[j][1].order \in Orders
      BY <2>2, FirstRow DEF SettleDefinitive
    <3> QED
      BY <2>2, <3>1 DEF SettleDefinitive, SettlementNext
  <2>3. CASE ReaperCancels(j)
    <3>1. batch[j][1].order \in Orders
      BY <2>3, FirstRow DEF ReaperCancels
    <3> QED
      BY <2>3, <3>1 DEF ReaperCancels, SettlementNext
  <2> QED
    BY <1>5, <2>1, <2>2, <2>3 DEF JobStep
<1> QED
  BY <1>1, <1>2, <1>3, <1>4, <1>5 DEF Next

\* However the saga, its crashes, the reaper and reconciliation interleave,
\* and however long any of them is paused, the tables change only by whole
\* transactions of Settlement: every theorem about SettlementSpec holds here.
THEOREM SagaImplementsSettlement == Spec => SettlementSpec
<1>1. Init => SettlementInit
  BY DEF Init
<1> QED
  BY <1>1, MemoryInvariant, StepIsSettlementStep, PTL DEF Spec, SettlementSpec

\* So the settlement invariant, with the ledger's, holds of the saga.
LEMMA SagaKeepsSettlement == Spec => []SettlementInv
BY SagaImplementsSettlement, SettlementInvariant, PTL

(***************************************************************************)
(* An order is settled as the provider settled its charge                  *)
(***************************************************************************)

\* An outcome says of order o's charge what the provider recorded.
Agrees(o, outcome) ==
    /\ outcome = "CAPTURED" => provider[o] = "approved"
    /\ outcome = "DECLINED" => provider[o] = "declined"

\* What the saga was told, and what a job was told of its first row, agree
\* with the provider; both are read long before they are used.
ChargeTrue == \A o \in Orders : Agrees(o, chargeResult[o])
AnswerTrue ==
    \A j \in Jobs : answer[j] # "NONE" =>
        batch[j] # <<>> /\ Agrees(batch[j][1].order, answer[j])

TruthInv == ChargeTrue /\ AnswerTrue /\ SettledByProvider

\* A record of the provider is never rewritten.
ProviderKept == \A o \in Orders : provider[o] # "none" => provider'[o] = provider[o]

LEMMA AgreesStays ==
    ASSUME ProviderKept, NEW o \in Orders, NEW outcome, Agrees(o, outcome)
    PROVE  /\ outcome = "CAPTURED" => provider'[o] = "approved"
           /\ outcome = "DECLINED" => provider'[o] = "declined"
BY DEF ProviderKept, Agrees

\* Only ProviderReceives writes the record, and only an empty one.
LEMMA ProviderStep ==
    ASSUME MemoryInv, [Next]_vars
    PROVE  ProviderKept
<1>1. CASE UNCHANGED provider
  BY <1>1 DEF ProviderKept
<1>2. ASSUME NEW o \in Orders, ProviderReceives(o)
      PROVE  ProviderKept
  BY <1>2 DEF ProviderReceives, ProviderKept, MemoryInv, MemoryTypeOK
<1>3. ASSUME NEW o \in Orders,
             SagaStep(o) \/ SagaFails(o) \/ Crash(o) \/ RequestLost(o)
      PROVE  UNCHANGED provider
  BY <1>3 DEF SagaStep, Resolve, SelectWarehouses, TryCandidate, CandidateFails,
              SavePendingPayment, SendCharge, ChargeReturns, SaveOutcome,
              SettleOrder, SagaFails, Crash, RequestLost, providerVars
<1>4. ASSUME NEW j \in Jobs, JobStep(j) \/ RowFails(j) \/ WorkerCrashes(j)
      PROVE  UNCHANGED provider
  BY <1>4 DEF JobStep, ReaperSelect, ReconcilerSelect, AskProvider,
              SettleDefinitive, ReaperCancels, LeaveUnresolved, RowFails,
              WorkerCrashes, NextRow, providerVars
<1>5. CASE ReservationExpires \/ GraceEnds \/ UNCHANGED vars
  BY <1>1, <1>5 DEF ReservationExpires, GraceEnds, vars, providerVars
<1> QED
  BY <1>1, <1>2, <1>3, <1>4, <1>5 DEF Next

\* What ProviderSays, or UNKNOWN, agrees with the provider.
LEMMA ProviderSaysAgrees ==
    ASSUME MemoryInv, NEW o \in Orders, NEW says \in {ProviderSays(o), "UNKNOWN"}
    PROVE  Agrees(o, says)
<1>1. provider[o] \in {"none", "approved", "declined"}
  BY DEF MemoryInv, MemoryTypeOK
<1> QED
  BY <1>1 DEF ProviderSays, Agrees

\* Only ChargeReturns writes what the saga was told.
LEMMA ChargeTrueStep ==
    ASSUME MemoryInv, ChargeTrue, ProviderKept, [Next]_vars
    PROVE  ChargeTrue'
<1>1. CASE UNCHANGED chargeResult
  BY <1>1, AgreesStays DEF ChargeTrue, Agrees
<1>2. ASSUME NEW o \in Orders, ChargeReturns(o)
      PROVE  ChargeTrue'
  <2>1. PICK result \in {ProviderSays(o), "UNKNOWN"} :
            chargeResult' = [chargeResult EXCEPT ![o] = result]
    BY <1>2 DEF ChargeReturns
  <2>2. Agrees(o, result)
    BY ProviderSaysAgrees
  <2>3. ASSUME NEW x \in Orders
        PROVE  Agrees(x, chargeResult'[x])
    BY <2>1, <2>2 DEF MemoryInv, MemoryTypeOK, ChargeTrue
  <2> QED
    BY <2>3, AgreesStays DEF ChargeTrue, Agrees
<1>3. ASSUME NEW o \in Orders, ~ChargeReturns(o),
             \/ SagaStep(o) \/ SagaFails(o) \/ Crash(o)
             \/ ProviderReceives(o) \/ RequestLost(o)
      PROVE  UNCHANGED chargeResult
  BY <1>3 DEF SagaStep, Resolve, SelectWarehouses, TryCandidate, CandidateFails,
              SavePendingPayment, SendCharge, SaveOutcome, SettleOrder, SagaFails,
              Crash, ProviderReceives, RequestLost, sagaVars
<1>4. ASSUME NEW j \in Jobs, JobStep(j) \/ RowFails(j) \/ WorkerCrashes(j)
      PROVE  UNCHANGED chargeResult
  BY <1>4 DEF JobStep, ReaperSelect, ReconcilerSelect, AskProvider,
              SettleDefinitive, ReaperCancels, LeaveUnresolved, RowFails,
              WorkerCrashes, NextRow, sagaVars
<1>5. CASE ReservationExpires \/ GraceEnds \/ UNCHANGED vars
  BY <1>1, <1>5 DEF ReservationExpires, GraceEnds, vars, sagaVars
<1> QED
  BY <1>1, <1>2, <1>3, <1>4, <1>5 DEF Next

\* A job asks about the row it has, and forgets the answer with the row.
LEMMA AnswerTrueStep ==
    ASSUME MemoryInv, AnswerTrue, ProviderKept, [Next]_vars
    PROVE  AnswerTrue'
<1>0. /\ batch \in [Jobs -> Seq(Rows)]
      /\ answer \in [Jobs -> StatusAnswers \cup {"NONE"}]
  BY DEF MemoryInv, MemoryTypeOK
<1>1. ASSUME NEW k \in Jobs, answer'[k] = answer[k], batch'[k] = batch[k],
             answer'[k] # "NONE"
      PROVE  batch'[k] # <<>> /\ Agrees(batch[k][1].order, answer[k])'
  <2>1. batch[k] # <<>> /\ Agrees(batch[k][1].order, answer[k])
    BY <1>1 DEF AnswerTrue
  <2>2. batch[k][1].order \in Orders
    BY <2>1, FirstRow
  <2> QED
    BY <1>1, <2>1, <2>2, AgreesStays DEF Agrees
<1>2. CASE UNCHANGED jobVars
  BY <1>1, <1>2 DEF jobVars, AnswerTrue
<1>3. ASSUME NEW j \in Jobs, ReaperSelect(j) \/ ReconcilerSelect(j)
      PROVE  AnswerTrue'
  <2>1. PICK rows : batch' = [batch EXCEPT ![j] = rows]
    BY <1>3 DEF ReaperSelect, ReconcilerSelect
  <2>2. answer' = answer /\ batch[j] = <<>>
    BY <1>3 DEF ReaperSelect, ReconcilerSelect
  <2>3. answer[j] = "NONE"
    BY <2>2 DEF AnswerTrue
  <2>4. \A k \in Jobs : k # j => answer'[k] = answer[k] /\ batch'[k] = batch[k]
    BY <1>0, <2>1, <2>2
  <2> QED
    BY <1>1, <2>2, <2>3, <2>4 DEF AnswerTrue
<1>4. ASSUME NEW j \in Jobs, NEW says \in StatusAnswers, AskProvider(j, says)
      PROVE  AnswerTrue'
  <2>1. /\ batch[j] # <<>> /\ batch' = batch
        /\ answer' = [answer EXCEPT ![j] = says]
    BY <1>4 DEF AskProvider
  <2>2. batch[j][1].order \in Orders
    BY <2>1, FirstRow
  <2>3. Agrees(batch[j][1].order, says)
    BY <1>4, <2>2, ProviderSaysAgrees DEF AskProvider
  <2>4. Agrees(batch[j][1].order, answer[j])'
    BY <1>0, <2>1, <2>2, <2>3, AgreesStays DEF Agrees
  <2>5. \A k \in Jobs : k # j => answer'[k] = answer[k] /\ batch'[k] = batch[k]
    BY <1>0, <2>1
  <2> QED
    BY <1>1, <2>1, <2>4, <2>5 DEF AnswerTrue
<1>5. ASSUME NEW j \in Jobs, NextRow(j) \/ WorkerCrashes(j)
      PROVE  AnswerTrue'
  <2>1. answer'[j] = "NONE"
    BY <1>0, <1>5 DEF NextRow, WorkerCrashes
  <2>2. \A k \in Jobs : k # j => answer'[k] = answer[k] /\ batch'[k] = batch[k]
    BY <1>0, <1>5 DEF NextRow, WorkerCrashes
  <2> QED
    BY <1>1, <2>1, <2>2 DEF AnswerTrue
<1>6. ASSUME NEW o \in Orders, \/ SagaStep(o) \/ SagaFails(o) \/ Crash(o)
                               \/ ProviderReceives(o) \/ RequestLost(o)
      PROVE  UNCHANGED jobVars
  BY <1>6 DEF SagaStep, Resolve, SelectWarehouses, TryCandidate, CandidateFails,
              SavePendingPayment, SendCharge, ChargeReturns, SaveOutcome,
              SettleOrder, SagaFails, Crash, ProviderReceives, RequestLost
<1>7. CASE ReservationExpires \/ GraceEnds \/ UNCHANGED vars
  BY <1>2, <1>7 DEF ReservationExpires, GraceEnds, vars
<1>8. ASSUME NEW j \in Jobs, JobStep(j) \/ RowFails(j) \/ WorkerCrashes(j)
      PROVE  AnswerTrue'
  BY <1>3, <1>4, <1>5, <1>8 DEF JobStep, SettleDefinitive, ReaperCancels,
                                LeaveUnresolved, RowFails
<1> QED
  BY <1>2, <1>6, <1>7, <1>8 DEF Next

\* What a step writes into the rows of the orders agrees with the provider.
StatusWriteAgrees ==
    \A x \in Orders : status'[x] # status[x] =>
        /\ status'[x] = "CONFIRMED" => provider[x] = "approved"
        /\ status'[x] = "PAYMENT_FAILED" => provider[x] = "declined"
PaymentWriteAgrees ==
    \A x \in Orders : payment'[x] # payment[x] => Agrees(x, payment'[x].status)

LEMMA RowsAgree ==
    ASSUME SettledByProvider, ProviderKept, StatusWriteAgrees, PaymentWriteAgrees
    PROVE  SettledByProvider'
BY DEF SettledByProvider, ProviderKept, StatusWriteAgrees, PaymentWriteAgrees, Agrees

\* Settlements write what the outcome they were called with calls for.
LEMMA SettlementAgrees ==
    ASSUME SettlementTypeOK, SettledByProvider, ProviderKept, NEW o \in Orders,
           NEW outcome, Agrees(o, outcome),
           NEW resolution \in {outcome, "NONE"},
           \/ outcome = "CAPTURED" /\ ConfirmCaptured(o, resolution)
           \/ outcome = "DECLINED" /\ FailDeclined(o, resolution)
           \/ outcome = "FAILED" /\ CancelUnpaid(o, resolution)
           \/ AlreadySettled(o)
    PROVE  SettledByProvider'
<1>1. \/ UNCHANGED payment
      \/ payment' = [payment EXCEPT ![o] = [status |-> outcome, settled |-> TRUE]]
  BY DEF ConfirmCaptured, FailDeclined, CancelUnpaid, AlreadySettled,
         ResolvePayment, settlementVars
<1>2. PaymentWriteAgrees
  BY <1>1 DEF PaymentWriteAgrees, Agrees, SettlementTypeOK
<1>3. StatusWriteAgrees
  BY DEF StatusWriteAgrees, Agrees, SettlementTypeOK, ConfirmCaptured,
         FailDeclined, CancelUnpaid, AlreadySettled, settlementVars
<1> QED
  BY <1>2, <1>3, RowsAgree

\* Every step settles orders and payments as the provider did.
LEMMA SettledStep ==
    ASSUME SettlementInv, MemoryInv, TruthInv, ProviderKept, [Next]_vars
    PROVE  SettledByProvider'
<1>0. SettlementTypeOK /\ SettledByProvider /\ ChargeTrue /\ AnswerTrue
  BY DEF SettlementInv, TruthInv
<1>1. CASE UNCHANGED <<status, payment>>
  BY <1>0, <1>1 DEF SettledByProvider, ProviderKept
<1>2. ASSUME NEW o \in Orders, SagaStep(o)
      PROVE  SettledByProvider'
  <2>1. CASE Resolve(o) \/ SelectWarehouses(o) \/ CandidateFails(o)
               \/ SendCharge(o) \/ ChargeReturns(o)
    BY <1>1, <2>1 DEF Resolve, SelectWarehouses, CandidateFails, SendCharge,
                      ChargeReturns, settlementVars
  <2>2. ASSUME NEW w \in Warehouses, TryCandidate(o, w)
        PROVE  SettledByProvider'
    <3>1. status' = [status EXCEPT ![o] = "PENDING_PAYMENT"] /\ UNCHANGED payment
      BY <2>2 DEF TryCandidate, PlaceOrder
    <3>2. StatusWriteAgrees /\ PaymentWriteAgrees
      BY <1>0, <3>1 DEF StatusWriteAgrees, PaymentWriteAgrees, SettlementTypeOK
    <3> QED
      BY <1>0, <3>2, RowsAgree
  <2>3. CASE SavePendingPayment(o)
    <3>1. StatusWriteAgrees /\ PaymentWriteAgrees
      BY <1>0, <2>3 DEF SavePendingPayment, InsertPayment, StatusWriteAgrees,
                        PaymentWriteAgrees, Agrees, SettlementTypeOK
    <3> QED
      BY <1>0, <3>1, RowsAgree
  <2>4. CASE SaveOutcome(o)
    <3>1. Agrees(o, chargeResult[o])
      BY <1>0 DEF ChargeTrue
    <3>2. StatusWriteAgrees /\ PaymentWriteAgrees
      BY <1>0, <2>4, <3>1 DEF SaveOutcome, SavePayment, StatusWriteAgrees,
                              PaymentWriteAgrees, Agrees, SettlementTypeOK
    <3> QED
      BY <1>0, <3>2, RowsAgree
  <2>5. CASE SettleOrder(o)
    <3>1. Agrees(o, chargeResult[o])
      BY <1>0 DEF ChargeTrue
    <3>2. CASE UNCHANGED settlementVars
      BY <1>1, <3>2 DEF settlementVars
    <3>3. \/ chargeResult[o] = "CAPTURED" /\ ConfirmCaptured(o, "NONE")
          \/ chargeResult[o] = "DECLINED" /\ FailDeclined(o, "NONE")
          \/ AlreadySettled(o)
          \/ UNCHANGED settlementVars
      BY <2>5 DEF SettleOrder
    <3> QED
      BY <1>0, <3>1, <3>2, <3>3, SettlementAgrees
  <2> QED
    BY <1>2, <2>1, <2>2, <2>3, <2>4, <2>5 DEF SagaStep
<1>3. ASSUME NEW o \in Orders, \/ SagaFails(o) \/ Crash(o)
                               \/ ProviderReceives(o) \/ RequestLost(o)
      PROVE  SettledByProvider'
  BY <1>1, <1>3 DEF SagaFails, Crash, ProviderReceives, RequestLost, settlementVars
<1>4. CASE ReservationExpires \/ GraceEnds \/ UNCHANGED vars
  BY <1>1, <1>4 DEF ReservationExpires, GraceEnds, vars, settlementVars
<1>5. ASSUME NEW j \in Jobs, JobStep(j) \/ RowFails(j) \/ WorkerCrashes(j)
      PROVE  SettledByProvider'
  <2>1. CASE \/ ReaperSelect(j) \/ ReconcilerSelect(j) \/ LeaveUnresolved(j)
             \/ RowFails(j) \/ WorkerCrashes(j)
             \/ \E says \in StatusAnswers : AskProvider(j, says)
    BY <1>1, <2>1 DEF ReaperSelect, ReconcilerSelect, LeaveUnresolved, RowFails,
                      WorkerCrashes, AskProvider, settlementVars
  <2>2. CASE SettleDefinitive(j)
    <3> DEFINE o == batch[j][1].order
    <3>1. o \in Orders
      BY <2>2, FirstRow DEF SettleDefinitive
    <3>2. Agrees(o, answer[j])
      BY <1>0, <2>2 DEF SettleDefinitive, AnswerTrue
    <3>3. \/ answer[j] = "CAPTURED" /\ ConfirmCaptured(o, answer[j])
          \/ answer[j] = "DECLINED" /\ FailDeclined(o, answer[j])
          \/ AlreadySettled(o)
      BY <2>2 DEF SettleDefinitive
    <3> HIDE DEF o
    <3> QED
      BY <1>0, <3>1, <3>2, <3>3, SettlementAgrees
  <2>3. CASE ReaperCancels(j)
    <3> DEFINE o == batch[j][1].order
    <3>1. o \in Orders
      BY <2>3, FirstRow DEF ReaperCancels
    <3>2. Agrees(o, "FAILED")
      BY DEF Agrees
    <3>3. \/ CancelUnpaid(o, "FAILED") \/ CancelUnpaid(o, "NONE") \/ AlreadySettled(o)
      BY <2>3 DEF ReaperCancels
    <3> HIDE DEF o
    <3> QED
      BY <1>0, <3>1, <3>2, <3>3, SettlementAgrees
  <2> QED
    BY <1>5, <2>1, <2>2, <2>3 DEF JobStep
<1> QED
  BY <1>2, <1>3, <1>4, <1>5 DEF Next

LEMMA TruthInit == Init => TruthInv
BY DEF Init, SettlementInit, TruthInv, ChargeTrue, AnswerTrue, Agrees,
       SettledByProvider

LEMMA TruthNext ==
    SettlementInv /\ MemoryInv /\ TruthInv /\ [Next]_vars => TruthInv'
BY ProviderStep, ChargeTrueStep, AnswerTrueStep, SettledStep DEF TruthInv

\* Goods are sold only against money, and given back as declined only if the
\* charge was, for any number of orders, requests and jobs and whatever crash,
\* stall or stale answer comes between two steps.
THEOREM AlwaysSettledByProvider == Spec => []SettledByProvider
<1>1. TruthInv => SettledByProvider
  BY DEF TruthInv
<1> QED
  BY <1>1, TruthInit, TruthNext, MemoryInvariant, SagaKeepsSettlement, PTL DEF Spec

(***************************************************************************)
(* Under Prompt, a cancelled order was never charged                       *)
(***************************************************************************)

\* When a reservation expires, its saga and its last request have ended.
OverdueEnded == \A o \in Overdue : Quiet(o) /\ o \notin inTransit

\* The payment row is saved before the request leaves: without a row there is
\* no request and no record.
RowBeforeCharge ==
    \A o \in Orders :
        /\ pc[o] \in {"charge", "await", "savePayment", "settle"} =>
               payment[o].status # "NONE"
        /\ payment[o].status = "NONE" => o \notin inTransit /\ provider[o] = "none"

\* The reaper's rows are overdue, and what it read of them still holds.
ReaperRowsTrue ==
    \A r \in Reapers : \A i \in 1..Len(batch[r]) :
        /\ batch[r][i].order \in Overdue
        /\ ~batch[r][i].hasPayment => payment[batch[r][i].order].status = "NONE"
NotFoundTrue ==
    \A r \in Reapers : answer[r] # "NONE" =>
        /\ batch[r] # <<>>
        /\ answer[r] = "FAILED" => provider[batch[r][1].order] = "none"

CancelledOverdue ==
    \A o \in Orders : status[o] = "CANCELLED" => o \in Overdue /\ provider[o] = "none"

PromptInv == /\ OverdueEnded /\ RowBeforeCharge /\ ReaperRowsTrue
             /\ NotFoundTrue /\ CancelledOverdue

\* What a step of the process that serves order o may touch.
LEMMA SagaFootprint ==
    ASSUME MemoryInv, NEW o \in Orders, SagaStep(o) \/ SagaFails(o) \/ Crash(o)
    PROVE  /\ ~Quiet(o)
           /\ \A x \in Orders : x # o => pc'[x] = pc[x]
           /\ inTransit' \subseteq inTransit \cup {o}
           /\ UNCHANGED <<expired, provider, jobVars>>
           /\ placed' = placed \/ placed' = Append(placed, o)
<1>1. pc \in [Orders -> Steps]
  BY DEF MemoryInv, MemoryTypeOK
<1>2. ~Quiet(o)
  BY DEF Quiet, SagaStep, Resolve, SelectWarehouses, TryCandidate, CandidateFails,
         SavePendingPayment, SendCharge, ChargeReturns, SaveOutcome, SettleOrder,
         SagaFails, Crash
<1>3. \/ \E step : GoTo(o, step)
      \/ UNCHANGED pc
  BY DEF Respond, SagaStep, Resolve, SelectWarehouses, TryCandidate,
         CandidateFails, SavePendingPayment, SendCharge, ChargeReturns,
         SaveOutcome, SettleOrder, SagaFails, Crash
<1>4. \A x \in Orders : x # o => pc'[x] = pc[x]
  BY <1>1, <1>3 DEF GoTo
<1>5. /\ inTransit' \subseteq inTransit \cup {o}
      /\ UNCHANGED <<expired, provider, jobVars>>
      /\ placed' = placed \/ placed' = Append(placed, o)
  BY DEF SagaStep, Resolve, SelectWarehouses, TryCandidate, CandidateFails,
         SavePendingPayment, SendCharge, ChargeReturns, SaveOutcome, SettleOrder,
         SagaFails, Crash, providerVars, clockVars
<1> QED
  BY <1>2, <1>4, <1>5

\* What a step of a job may touch.
LEMMA JobFootprint ==
    ASSUME NEW j \in Jobs, JobStep(j) \/ RowFails(j) \/ WorkerCrashes(j)
    PROVE  UNCHANGED <<sagaVars, clockVars, providerVars>>
BY DEF JobStep, ReaperSelect, ReconcilerSelect, AskProvider, SettleDefinitive,
       ReaperCancels, LeaveUnresolved, RowFails, WorkerCrashes, NextRow

\* A reservation that has expired stays expired, and ended.
LEMMA OverdueStep ==
    ASSUME Prompt, MemoryInv, OverdueEnded, [Next]_vars
    PROVE  Overdue \subseteq Overdue' /\ OverdueEnded'
<1>0. /\ placed \in Seq(Orders) /\ expired \in 0..Len(placed)
      /\ pc \in [Orders -> Steps]
  BY DEF MemoryInv, MemoryTypeOK
<1>1. Overdue \subseteq Orders
  BY <1>0 DEF Overdue
<1>2. ASSUME UNCHANGED <<placed, expired>>
      PROVE  Overdue' = Overdue
  BY <1>2 DEF Overdue
<1>3. ASSUME NEW o \in Orders, SagaStep(o) \/ SagaFails(o) \/ Crash(o)
      PROVE  Overdue \subseteq Overdue' /\ OverdueEnded'
  <2>1. /\ ~Quiet(o)
        /\ \A x \in Orders : x # o => pc'[x] = pc[x]
        /\ inTransit' \subseteq inTransit \cup {o}
        /\ expired' = expired
        /\ placed' = placed \/ placed' = Append(placed, o)
    BY <1>3, SagaFootprint
  <2>2. Overdue' = Overdue
    <3>1. \A i \in 1..expired : placed'[i] = placed[i]
      BY <1>0, <2>1
    <3> QED
      BY <2>1, <3>1 DEF Overdue
  <2>3. o \notin Overdue
    BY <2>1 DEF OverdueEnded
  <2> QED
    BY <1>1, <2>1, <2>2, <2>3 DEF OverdueEnded, Quiet
<1>4. ASSUME NEW o \in Orders, ProviderReceives(o) \/ RequestLost(o)
      PROVE  Overdue \subseteq Overdue' /\ OverdueEnded'
  <2>1. inTransit' \subseteq inTransit /\ UNCHANGED <<placed, expired, pc>>
    BY <1>4 DEF ProviderReceives, RequestLost, clockVars, sagaVars
  <2> QED
    BY <1>2, <2>1 DEF OverdueEnded, Quiet
<1>5. CASE ReservationExpires
  <2> DEFINE x == placed[expired + 1]
  <2>1. /\ expired < Len(placed) /\ Quiet(x) /\ x \notin inTransit
        /\ expired' = expired + 1 /\ UNCHANGED <<placed, pc, inTransit>>
    BY <1>5 DEF ReservationExpires, sagaVars, providerVars
  <2>2. Overdue' = Overdue \cup {x}
    BY <1>0, <2>1 DEF Overdue
  <2> HIDE DEF x
  <2> QED
    BY <2>1, <2>2 DEF OverdueEnded, Quiet
<1>6. CASE GraceEnds \/ UNCHANGED vars
  <2>1. UNCHANGED <<placed, expired, pc, inTransit>>
    BY <1>6 DEF GraceEnds, vars, clockVars, sagaVars, providerVars
  <2> QED
    BY <1>2, <2>1 DEF OverdueEnded, Quiet
<1>7. ASSUME NEW j \in Jobs, JobStep(j) \/ RowFails(j) \/ WorkerCrashes(j)
      PROVE  Overdue \subseteq Overdue' /\ OverdueEnded'
  <2>1. UNCHANGED <<placed, expired, pc, inTransit>>
    BY <1>7, JobFootprint DEF clockVars, sagaVars, providerVars
  <2> QED
    BY <1>2, <2>1 DEF OverdueEnded, Quiet
<1> QED
  BY <1>3, <1>4, <1>5, <1>6, <1>7 DEF Next

\* Payment rows are not deleted, and only the saga of the order inserts one.
PaymentRowsKept ==
    \A x \in Orders :
        /\ payment'[x].status = "NONE" => payment[x].status = "NONE"
        /\ payment[x].status = "NONE" /\ payment'[x].status # "NONE" =>
               pc[x] = "insertPayment"

LEMMA SettlementKeepsRows ==
    ASSUME SettlementTypeOK, NEW o \in Orders,
           NEW resolution \in StatusAnswers \cup {"NONE"},
           \/ ConfirmCaptured(o, resolution) \/ FailDeclined(o, resolution)
           \/ CancelUnpaid(o, resolution) \/ AlreadySettled(o)
    PROVE  PaymentRowsKept
<1>1. ResolvePayment(o, resolution) \/ UNCHANGED payment
  BY DEF ConfirmCaptured, FailDeclined, CancelUnpaid, AlreadySettled, settlementVars
<1>2. CASE UNCHANGED payment
  BY <1>2 DEF PaymentRowsKept
<1>3. CASE ResolvePayment(o, resolution)
  BY <1>3 DEF ResolvePayment, PaymentRowsKept, SettlementTypeOK
<1> QED
  BY <1>1, <1>2, <1>3

LEMMA PaymentStep ==
    ASSUME SettlementTypeOK, MemoryInv, [Next]_vars
    PROVE  PaymentRowsKept
<1>0. payment \in [Orders -> [status : StatusAnswers \cup {"NONE", "PENDING"},
                             settled : BOOLEAN]]
  BY DEF SettlementTypeOK
<1>1. CASE UNCHANGED payment
  BY <1>1 DEF PaymentRowsKept
<1>2. ASSUME NEW o \in Orders, SagaStep(o)
      PROVE  PaymentRowsKept
  <2>1. CASE \/ Resolve(o) \/ SelectWarehouses(o) \/ CandidateFails(o)
             \/ SendCharge(o) \/ ChargeReturns(o)
             \/ \E w \in Warehouses : TryCandidate(o, w)
    BY <1>1, <2>1 DEF Resolve, SelectWarehouses, CandidateFails, SendCharge,
                      ChargeReturns, TryCandidate, PlaceOrder, settlementVars
  <2>2. CASE SavePendingPayment(o)
    BY <1>0, <2>2 DEF SavePendingPayment, InsertPayment, PaymentRowsKept
  <2>3. CASE SaveOutcome(o)
    <3>1. chargeResult[o] # "NONE"
      BY <2>3 DEF SaveOutcome, MemoryInv, ChargeReturned, ChargeOutcomes
    <3> QED
      BY <1>0, <2>3, <3>1 DEF SaveOutcome, SavePayment, PaymentRowsKept
  <2>4. CASE SettleOrder(o)
    <3>1. \/ ConfirmCaptured(o, "NONE") \/ FailDeclined(o, "NONE")
          \/ AlreadySettled(o) \/ UNCHANGED payment
      BY <2>4 DEF SettleOrder, settlementVars
    <3> QED
      BY <1>1, <3>1, SettlementKeepsRows
  <2> QED
    BY <1>2, <2>1, <2>2, <2>3, <2>4 DEF SagaStep
<1>3. ASSUME NEW o \in Orders, \/ SagaFails(o) \/ Crash(o)
                               \/ ProviderReceives(o) \/ RequestLost(o)
      PROVE  PaymentRowsKept
  BY <1>1, <1>3 DEF SagaFails, Crash, ProviderReceives, RequestLost, settlementVars
<1>4. CASE ReservationExpires \/ GraceEnds \/ UNCHANGED vars
  BY <1>1, <1>4 DEF ReservationExpires, GraceEnds, vars, settlementVars
<1>5. ASSUME NEW j \in Jobs, JobStep(j) \/ RowFails(j) \/ WorkerCrashes(j)
      PROVE  PaymentRowsKept
  <2>1. CASE \/ ReaperSelect(j) \/ ReconcilerSelect(j) \/ LeaveUnresolved(j)
             \/ RowFails(j) \/ WorkerCrashes(j)
             \/ \E says \in StatusAnswers : AskProvider(j, says)
    BY <1>1, <2>1 DEF ReaperSelect, ReconcilerSelect, LeaveUnresolved, RowFails,
                      WorkerCrashes, AskProvider, settlementVars
  <2>2. CASE SettleDefinitive(j) \/ ReaperCancels(j)
    <3> DEFINE o == batch[j][1].order
    <3>1. o \in Orders
      BY <2>2, FirstRow DEF SettleDefinitive, ReaperCancels
    <3>2. \/ ConfirmCaptured(o, "CAPTURED") \/ FailDeclined(o, "DECLINED")
          \/ CancelUnpaid(o, "FAILED") \/ CancelUnpaid(o, "NONE")
          \/ AlreadySettled(o)
      BY <2>2 DEF SettleDefinitive, ReaperCancels
    <3>3. {"CAPTURED", "DECLINED", "FAILED", "NONE"} \subseteq StatusAnswers \cup {"NONE"}
      BY DEF StatusAnswers, ChargeOutcomes
    <3> HIDE DEF o
    <3> QED
      BY <3>1, <3>2, <3>3, SettlementKeepsRows
  <2> QED
    BY <1>5, <2>1, <2>2 DEF JobStep
<1> QED
  BY <1>2, <1>3, <1>4, <1>5 DEF Next

\* The saga reaches its charge only through SavePendingPayment, and a request
\* and a record only through SendCharge.
LEMMA RowBeforeChargeStep ==
    ASSUME SettlementTypeOK, MemoryInv, RowBeforeCharge, [Next]_vars
    PROVE  RowBeforeCharge'
<1> DEFINE Late == {"charge", "await", "savePayment", "settle"}
<1>0. /\ pc \in [Orders -> Steps]
      /\ provider \in [Orders -> {"none", "approved", "declined"}]
      /\ payment \in [Orders -> [status : StatusAnswers \cup {"NONE", "PENDING"},
                                 settled : BOOLEAN]]
  BY DEF MemoryInv, MemoryTypeOK, SettlementTypeOK
<1>1. PaymentRowsKept
  BY PaymentStep
<1>2. ASSUME \A x \in Orders : /\ pc'[x] \in Late => pc[x] \in Late
                               /\ x \in inTransit' => x \in inTransit \/ pc[x] = "charge"
                               /\ provider'[x] # "none" =>
                                      provider[x] # "none" \/ x \in inTransit
      PROVE  RowBeforeCharge'
  BY <1>1, <1>2 DEF RowBeforeCharge, PaymentRowsKept
<1>3. ASSUME NEW o \in Orders, SagaStep(o) \/ SagaFails(o) \/ Crash(o)
      PROVE  RowBeforeCharge'
  <2>1. CASE SavePendingPayment(o)
    <3>1. /\ payment'[o].status = "PENDING"
          /\ \A x \in Orders : x # o => payment'[x] = payment[x] /\ pc'[x] = pc[x]
          /\ UNCHANGED <<inTransit, provider>>
      BY <1>0, <2>1 DEF SavePendingPayment, InsertPayment, GoTo, providerVars
    <3> QED
      BY <3>1 DEF RowBeforeCharge
  <2>2. CASE ~SavePendingPayment(o)
    <3>1. \/ /\ \E step : GoTo(o, step) /\ (step \in Late => pc[o] \in Late)
          \/ UNCHANGED pc
      BY <1>3, <2>2 DEF Respond, SagaStep, Resolve, SelectWarehouses, TryCandidate,
         CandidateFails, SendCharge, ChargeReturns, SaveOutcome, SettleOrder,
         SagaFails, Crash
    <3>2. \A x \in Orders : pc'[x] \in Late => pc[x] \in Late
      BY <1>0, <3>1 DEF GoTo
    <3>3. \/ UNCHANGED inTransit
          \/ inTransit' = inTransit \cup {o} /\ pc[o] = "charge"
      BY <1>3 DEF SagaStep, Resolve, SelectWarehouses, TryCandidate,
         CandidateFails, SavePendingPayment, SendCharge, ChargeReturns, SaveOutcome,
         SettleOrder, SagaFails, Crash, providerVars
    <3>4. UNCHANGED provider
      BY <1>3, SagaFootprint
    <3> QED
      BY <1>2, <3>2, <3>3, <3>4
  <2> QED
    BY <2>1, <2>2
<1>4. ASSUME NEW o \in Orders, ProviderReceives(o) \/ RequestLost(o)
      PROVE  RowBeforeCharge'
  <2>1. UNCHANGED pc /\ inTransit' \subseteq inTransit
    BY <1>4 DEF ProviderReceives, RequestLost, sagaVars
  <2>2. \A x \in Orders : provider'[x] # "none" =>
            provider[x] # "none" \/ x \in inTransit
    BY <1>0, <1>4 DEF ProviderReceives, RequestLost
  <2> QED
    BY <1>2, <2>1, <2>2
<1>5. CASE ReservationExpires \/ GraceEnds \/ UNCHANGED vars
  <2>1. UNCHANGED <<pc, inTransit, provider>>
    BY <1>5 DEF ReservationExpires, GraceEnds, vars, sagaVars, providerVars
  <2> QED
    BY <1>2, <2>1
<1>6. ASSUME NEW j \in Jobs, JobStep(j) \/ RowFails(j) \/ WorkerCrashes(j)
      PROVE  RowBeforeCharge'
  <2>1. UNCHANGED <<pc, inTransit, provider>>
    BY <1>6, JobFootprint DEF sagaVars, providerVars
  <2> QED
    BY <1>2, <2>1
<1> QED
  BY <1>3, <1>4, <1>5, <1>6 DEF Next

\* What the reaper reads of an overdue order does not change any more.
OverdueFrozen ==
    \A x \in Overdue :
        /\ x \in Orders /\ x \in Overdue'
        /\ provider'[x] = provider[x]
        /\ payment[x].status = "NONE" => payment'[x].status = "NONE"

LEMMA OverdueFreezes ==
    ASSUME Prompt, SettlementTypeOK, MemoryInv, OverdueEnded, [Next]_vars
    PROVE  OverdueFrozen
<1> SUFFICES ASSUME NEW x \in Overdue
             PROVE  /\ x \in Orders /\ x \in Overdue'
                    /\ provider'[x] = provider[x]
                    /\ payment[x].status = "NONE" => payment'[x].status = "NONE"
  BY DEF OverdueFrozen
<1>1. x \in Orders
  BY DEF Overdue, MemoryInv, MemoryTypeOK
<1>2. x \in Overdue'
  BY OverdueStep
<1>3. pc[x] \in {"done", "crashed"} /\ x \notin inTransit
  BY DEF OverdueEnded, Quiet
<1>4. payment[x].status = "NONE" => payment'[x].status = "NONE"
  BY <1>1, <1>3, PaymentStep DEF PaymentRowsKept
<1>5. provider'[x] = provider[x]
  <2>1. ASSUME NEW o \in Orders, SagaStep(o) \/ SagaFails(o) \/ Crash(o)
        PROVE  UNCHANGED provider
    BY <2>1, SagaFootprint
  <2>2. ASSUME NEW o \in Orders, ProviderReceives(o) \/ RequestLost(o)
        PROVE  provider'[x] = provider[x]
    BY <1>1, <1>3, <2>2 DEF ProviderReceives, RequestLost, MemoryInv, MemoryTypeOK
  <2>3. CASE ReservationExpires \/ GraceEnds \/ UNCHANGED vars
    BY <2>3 DEF ReservationExpires, GraceEnds, vars, providerVars
  <2>4. ASSUME NEW j \in Jobs, JobStep(j) \/ RowFails(j) \/ WorkerCrashes(j)
        PROVE  UNCHANGED provider
    BY <2>4, JobFootprint DEF providerVars
  <2> QED
    BY <2>1, <2>2, <2>3, <2>4 DEF Next
<1> QED
  BY <1>1, <1>2, <1>4, <1>5

\* Which rows a step leaves in a job's batch.
LEMMA BatchStep ==
    ASSUME MemoryInv, [Next]_vars, NEW r \in Jobs
    PROVE  \/ batch'[r] = batch[r] /\ answer'[r] = answer[r]
           \/ ReaperSelect(r)
           \/ r \in Reconcilers /\ ReconcilerSelect(r)
           \/ \E says \in StatusAnswers : AskProvider(r, says)
           \/ batch[r] # <<>> /\ batch'[r] = Tail(batch[r]) /\ answer'[r] = "NONE"
           \/ batch'[r] = <<>> /\ answer'[r] = "NONE"
<1> DEFINE Goal == \/ batch'[r] = batch[r] /\ answer'[r] = answer[r]
                   \/ ReaperSelect(r)
                   \/ r \in Reconcilers /\ ReconcilerSelect(r)
                   \/ \E says \in StatusAnswers : AskProvider(r, says)
                   \/ batch[r] # <<>> /\ batch'[r] = Tail(batch[r]) /\ answer'[r] = "NONE"
                   \/ batch'[r] = <<>> /\ answer'[r] = "NONE"
<1>0. /\ batch \in [Jobs -> Seq(Rows)]
      /\ answer \in [Jobs -> StatusAnswers \cup {"NONE"}]
  BY DEF MemoryInv, MemoryTypeOK
<1>1. CASE UNCHANGED jobVars
  BY <1>1 DEF jobVars
<1>2. ASSUME NEW o \in Orders, \/ SagaStep(o) \/ SagaFails(o) \/ Crash(o)
                               \/ ProviderReceives(o) \/ RequestLost(o)
      PROVE  UNCHANGED jobVars
  BY <1>2, SagaFootprint DEF ProviderReceives, RequestLost
<1>3. CASE ReservationExpires \/ GraceEnds \/ UNCHANGED vars
  BY <1>1, <1>3 DEF ReservationExpires, GraceEnds, vars
<1>4. ASSUME NEW j \in Jobs, JobStep(j) \/ RowFails(j) \/ WorkerCrashes(j)
      PROVE  Goal
  <2>1. CASE j # r
    <3>1. batch'[r] = batch[r] /\ answer'[r] = answer[r]
      BY <1>0, <1>4, <2>1 DEF JobStep, ReaperSelect, ReconcilerSelect, AskProvider,
         SettleDefinitive, ReaperCancels, LeaveUnresolved, RowFails, WorkerCrashes,
         NextRow
    <3> QED
      BY <3>1
  <2>2. CASE j = r
    <3>1. CASE WorkerCrashes(r)
      BY <1>0, <3>1 DEF WorkerCrashes
    <3>2. CASE SettleDefinitive(r) \/ ReaperCancels(r) \/ LeaveUnresolved(r) \/ RowFails(r)
      <4>1. batch[r] # <<>> /\ NextRow(r)
        BY <3>2 DEF SettleDefinitive, ReaperCancels, LeaveUnresolved, RowFails, Settling
      <4> QED
        BY <1>0, <4>1 DEF NextRow
    <3> QED
      BY <1>4, <2>2, <3>1, <3>2 DEF JobStep
  <2> QED
    BY <2>1, <2>2
<1> QED
  BY <1>1, <1>2, <1>3, <1>4 DEF Next

\* The rows of the reaper stay true while it works through them.
LEMMA ReaperRowsStep ==
    ASSUME MemoryInv, ReaperRowsTrue, OverdueFrozen, [Next]_vars
    PROVE  ReaperRowsTrue'
<1> SUFFICES ASSUME NEW r \in Reapers, NEW i \in 1..Len(batch'[r])
             PROVE  /\ batch'[r][i].order \in Overdue'
                    /\ ~batch'[r][i].hasPayment =>
                           payment'[batch'[r][i].order].status = "NONE"
  BY DEF ReaperRowsTrue
<1>0. r \in Jobs /\ r \notin Reconcilers
  BY JobsAssumption DEF Jobs
<1>1. batch[r] \in Seq(Rows) /\ batch \in [Jobs -> Seq(Rows)]
  BY <1>0 DEF MemoryInv, MemoryTypeOK
<1>2. ASSUME NEW k \in 1..Len(batch[r]), batch'[r][i] = batch[r][k]
      PROVE  /\ batch'[r][i].order \in Overdue'
             /\ ~batch'[r][i].hasPayment =>
                    payment'[batch'[r][i].order].status = "NONE"
  BY <1>2 DEF ReaperRowsTrue, OverdueFrozen
<1>3. CASE batch'[r] = batch[r]
  BY <1>2, <1>3
<1>4. CASE ReaperSelect(r)
  <2>0. PICK n \in 1..BatchSize : \E rows \in [1..n -> Overdue] :
            batch' = [batch EXCEPT ![r] = [k \in 1..n |->
                [order |-> rows[k],
                 hasPayment |-> payment[rows[k]].status # "NONE"]]]
    BY <1>4 DEF ReaperSelect
  <2>1. PICK rows \in [1..n -> Overdue] :
            batch' = [batch EXCEPT ![r] = [k \in 1..n |->
                [order |-> rows[k],
                 hasPayment |-> payment[rows[k]].status # "NONE"]]]
    BY <2>0
  <2>2. batch'[r] = [k \in 1..n |-> [order |-> rows[k],
                         hasPayment |-> payment[rows[k]].status # "NONE"]]
    BY <1>0, <1>1, <2>1
  <2>3. Len(batch'[r]) = n
    BY <2>2, LimitAssumption
  <2>4. i \in 1..n
    BY <2>3
  <2>5. /\ batch'[r][i].order = rows[i]
        /\ batch'[r][i].hasPayment = (payment[rows[i]].status # "NONE")
    BY <2>2, <2>4
  <2>6. rows[i] \in Overdue
    BY <2>1, <2>4
  <2> QED
    BY <2>5, <2>6 DEF OverdueFrozen
<1>5. CASE \E says \in StatusAnswers : AskProvider(r, says)
  BY <1>3, <1>5 DEF AskProvider
<1>6. CASE batch[r] # <<>> /\ batch'[r] = Tail(batch[r])
  <2>1. i + 1 \in 1..Len(batch[r]) /\ batch'[r][i] = batch[r][i + 1]
    BY <1>1, <1>6
  <2> QED
    BY <1>2, <2>1
<1>7. CASE batch'[r] = <<>>
  BY <1>7
<1> QED
  BY <1>0, <1>3, <1>4, <1>5, <1>6, <1>7, BatchStep

\* A 404 read for an overdue order stays true.
LEMMA NotFoundStep ==
    ASSUME MemoryInv, ReaperRowsTrue, NotFoundTrue, OverdueFrozen, [Next]_vars
    PROVE  NotFoundTrue'
<1> SUFFICES ASSUME NEW r \in Reapers, answer'[r] # "NONE"
             PROVE  /\ batch'[r] # <<>>
                    /\ answer'[r] = "FAILED" => provider'[batch'[r][1].order] = "none"
  BY DEF NotFoundTrue
<1>0. r \in Jobs /\ r \notin Reconcilers
  BY JobsAssumption DEF Jobs
<1>1. batch[r] \in Seq(Rows) /\ answer \in [Jobs -> StatusAnswers \cup {"NONE"}]
  BY <1>0 DEF MemoryInv, MemoryTypeOK
<1>2. ASSUME batch[r] # <<>>
      PROVE  provider'[batch[r][1].order] = provider[batch[r][1].order]
  <2>1. 1 \in 1..Len(batch[r])
    BY <1>1, <1>2
  <2> QED
    BY <2>1 DEF ReaperRowsTrue, OverdueFrozen
<1>3. CASE batch'[r] = batch[r] /\ answer'[r] = answer[r]
  BY <1>2, <1>3 DEF NotFoundTrue
<1>4. CASE ReaperSelect(r)
  BY <1>4 DEF ReaperSelect, NotFoundTrue
<1>5. ASSUME NEW says \in StatusAnswers, AskProvider(r, says)
      PROVE  /\ batch'[r] # <<>>
             /\ answer'[r] = "FAILED" => provider'[batch'[r][1].order] = "none"
  <2>1. /\ batch[r] # <<>> /\ batch' = batch /\ answer'[r] = says
        /\ says \in {ProviderSays(batch[r][1].order), "UNKNOWN"}
    BY <1>0, <1>1, <1>5 DEF AskProvider
  <2>2. batch[r][1].order \in Orders
    BY <1>0, <2>1, FirstRow
  <2>3. provider[batch[r][1].order] \in {"none", "approved", "declined"}
    BY <2>2 DEF MemoryInv, MemoryTypeOK
  <2>4. says = "FAILED" => provider[batch[r][1].order] = "none"
    BY <2>1, <2>3 DEF ProviderSays
  <2> QED
    BY <1>2, <2>1, <2>4
<1> QED
  BY <1>0, <1>3, <1>4, <1>5, BatchStep

\* Only the reaper cancels, and only an overdue order without a record.
LEMMA CancelledStep ==
    ASSUME SettlementTypeOK, MemoryInv, PromptInv, OverdueFrozen, [Next]_vars
    PROVE  CancelledOverdue'
<1>0. status \in [Orders -> OrderStatuses \cup {"NONE"}]
  BY DEF SettlementTypeOK
<1>1. ASSUME \A x \in Orders : status'[x] = "CANCELLED" =>
                 \/ status[x] = "CANCELLED"
                 \/ x \in Overdue /\ provider[x] = "none"
      PROVE  CancelledOverdue'
  BY <1>1 DEF PromptInv, CancelledOverdue, OverdueFrozen
<1>2. ASSUME NEW o \in Orders, SagaStep(o)
      PROVE  CancelledOverdue'
  <2>1. \/ UNCHANGED status
        \/ \E to \in {"PENDING_PAYMENT", "CONFIRMED", "PAYMENT_FAILED"} :
               status' = [status EXCEPT ![o] = to]
    BY <1>2 DEF SagaStep, Resolve, SelectWarehouses, TryCandidate, PlaceOrder,
       CandidateFails, SavePendingPayment, InsertPayment, SendCharge, ChargeReturns,
       SaveOutcome, SavePayment, SettleOrder, ConfirmCaptured, FailDeclined,
       AlreadySettled, settlementVars
  <2> QED
    BY <1>0, <1>1, <2>1
<1>3. ASSUME NEW o \in Orders, \/ SagaFails(o) \/ Crash(o)
                               \/ ProviderReceives(o) \/ RequestLost(o)
      PROVE  UNCHANGED status
  BY <1>3 DEF SagaFails, Crash, ProviderReceives, RequestLost, settlementVars
<1>4. CASE ReservationExpires \/ GraceEnds \/ UNCHANGED vars
  <2>1. UNCHANGED status
    BY <1>4 DEF ReservationExpires, GraceEnds, vars, settlementVars
  <2> QED
    BY <1>1, <2>1
<1>5. ASSUME NEW j \in Jobs, JobStep(j) \/ RowFails(j) \/ WorkerCrashes(j)
      PROVE  CancelledOverdue'
  <2>1. CASE \/ ReaperSelect(j) \/ ReconcilerSelect(j) \/ LeaveUnresolved(j)
             \/ RowFails(j) \/ WorkerCrashes(j)
             \/ \E says \in StatusAnswers : AskProvider(j, says)
    <3>1. UNCHANGED status
      BY <2>1 DEF ReaperSelect, ReconcilerSelect, LeaveUnresolved, RowFails,
                  WorkerCrashes, AskProvider, settlementVars
    <3> QED
      BY <1>1, <3>1
  <2>2. CASE SettleDefinitive(j)
    <3>1. \/ UNCHANGED status
          \/ \E to \in {"CONFIRMED", "PAYMENT_FAILED"} :
                 status' = [status EXCEPT ![batch[j][1].order] = to]
      BY <2>2 DEF SettleDefinitive, ConfirmCaptured, FailDeclined, AlreadySettled,
                  settlementVars
    <3> QED
      BY <1>0, <1>1, <3>1
  <2>3. CASE j \in Reapers /\ ReaperCancels(j)
    <3> DEFINE o == batch[j][1].order
    <3>1. batch[j] # <<>> /\ batch[j] \in Seq(Rows)
      BY <2>3 DEF ReaperCancels, MemoryInv, MemoryTypeOK
    <3>2. o \in Orders
      BY <3>1, FirstRow
    <3>3. 1 \in 1..Len(batch[j])
      BY <3>1
    <3>4. o \in Overdue
      BY <2>3, <3>3 DEF PromptInv, ReaperRowsTrue
    <3>5. provider[o] = "none"
      <4>1. CASE answer[j] = "FAILED"
        BY <2>3, <4>1 DEF PromptInv, NotFoundTrue
      <4>2. CASE ~batch[j][1].hasPayment
        <5>1. payment[o].status = "NONE"
          BY <2>3, <3>3, <4>2 DEF PromptInv, ReaperRowsTrue
        <5> QED
          BY <3>2, <5>1 DEF PromptInv, RowBeforeCharge
      <4> QED
        BY <2>3, <4>1, <4>2 DEF ReaperCancels
    <3>6. UNCHANGED status \/ status' = [status EXCEPT ![o] = "CANCELLED"]
      BY <2>3 DEF ReaperCancels, CancelUnpaid, AlreadySettled, settlementVars
    <3> HIDE DEF o
    <3> QED
      BY <1>0, <1>1, <3>2, <3>4, <3>5, <3>6
  <2> QED
    BY <1>5, <2>1, <2>2, <2>3 DEF JobStep
<1> QED
  BY <1>1, <1>2, <1>3, <1>4, <1>5 DEF Next

LEMMA PromptInit == Init => PromptInv
BY DEF Init, SettlementInit, PromptInv, OverdueEnded, Overdue, RowBeforeCharge,
       ReaperRowsTrue, NotFoundTrue, CancelledOverdue, Jobs

LEMMA PromptNext ==
    ASSUME Prompt, SettlementInv, MemoryInv, PromptInv, [Next]_vars
    PROVE  PromptInv'
<1>1. /\ SettlementTypeOK /\ OverdueEnded /\ RowBeforeCharge
      /\ ReaperRowsTrue /\ NotFoundTrue
  BY DEF SettlementInv, PromptInv
<1>2. OverdueFrozen
  BY <1>1, OverdueFreezes
<1> QED
  BY <1>1, <1>2, OverdueStep, RowBeforeChargeStep, ReaperRowsStep, NotFoundStep,
     CancelledStep DEF PromptInv

\* When no request outlives its reservation, stock is given back as unpaid
\* only for an order the provider has no record of, and it never gets one.
THEOREM PromptCancelsAreUncharged ==
    ASSUME Prompt
    PROVE  Spec => []CancelledNeverCharged
<1>1. SettlementInv /\ MemoryInv /\ PromptInv /\ [Next]_vars => PromptInv'
  BY PromptNext
<1>2. PromptInv => CancelledNeverCharged
  BY DEF PromptInv, CancelledOverdue, CancelledNeverCharged
<1> QED
  BY <1>1, <1>2, PromptInit, MemoryInvariant, SagaKeepsSettlement, PTL DEF Spec

(***************************************************************************)
(* Under Prompt, the payment row agrees with the order, and the response   *)
(* with both                                                               *)
(***************************************************************************)

ResponseTypeOK ==
    response \in [Orders -> [code : {0, 201, 402, 404, 409, 422, 500, 502},
                             order : OrderStatuses \cup {"NONE"}]]

\* An order past its grace period has a payment row, and its saga has ended.
ChargedHasRow == \A i \in 1..Len(charged) : payment[charged[i]].status # "NONE"
GracedEnded == \A i \in 1..graced : Quiet(charged[i])

\* A job works on orders whose saga has ended, and asks only for those with a
\* payment row.
RowsEnded ==
    \A j \in Jobs : \A i \in 1..Len(batch[j]) :
        /\ Quiet(batch[j][i].order)
        /\ batch[j][i].hasPayment => payment[batch[j][i].order].status # "NONE"
AskedHasRow ==
    \A j \in Jobs : answer[j] # "NONE" => batch[j] # <<>> /\ batch[j][1].hasPayment

JobsAfterSaga ==
    ChargedHasRow /\ GracedEnded /\ RowsEnded /\ AskedHasRow

\* As long as the saga of an order runs, the order's rows are what it wrote.
SagaOwnsRows(o) ==
    /\ pc[o] \in {"resolve", "select", "reserve"} => status[o] = "NONE"
    /\ pc[o] \in {"resolve", "select", "reserve", "insertPayment"} =>
           payment[o].status = "NONE"
    /\ pc[o] \in {"insertPayment", "charge", "await", "savePayment", "settle"} =>
           status[o] = "PENDING_PAYMENT"
    /\ pc[o] = "settle" =>
           payment[o] = [status  |-> chargeResult[o],
                         settled |-> IsDefinitiveOutcome(chargeResult[o])]

\* A payment row is settled with its outcome, and FAILED only by a cancel.
RowShape(o) ==
    /\ payment[o].settled <=> payment[o].status \in {"CAPTURED", "DECLINED", "FAILED"}
    /\ payment[o].status = "FAILED" => status[o] = "CANCELLED"
    /\ payment[o].status # "NONE" => status[o] # "NONE"

Row(o, s) == payment[o] = [status |-> s, settled |-> TRUE]
RowAgrees(o) ==
    /\ status[o] = "CONFIRMED" => Row(o, "CAPTURED")
    /\ status[o] = "PAYMENT_FAILED" => Row(o, "DECLINED")
    /\ status[o] = "CANCELLED" => Row(o, "FAILED") \/ payment[o].status = "NONE"

\* The response is sent when the saga ends, and stays true.
ResponseTrue(o) ==
    /\ response[o].code # 0 => pc[o] = "done"
    /\ response[o].code = 201 =>
           status[o] = "CONFIRMED" /\ response[o].order = "CONFIRMED"
    /\ response[o].code = 402 => status[o] = "PAYMENT_FAILED"
    /\ response[o].code \in {404, 409, 422} => status[o] = "NONE"
    /\ response[o].code = 502 => response[o].order = "PENDING_PAYMENT"

OrderSound(o) == SagaOwnsRows(o) /\ RowShape(o) /\ RowAgrees(o) /\ ResponseTrue(o)

AgreeInv == /\ ResponseTypeOK /\ JobsAfterSaga
            /\ \A o \in Orders : OrderSound(o)

LEMMA AgreeInit == Init => AgreeInv
<1> SUFFICES ASSUME Init
             PROVE  AgreeInv
  OBVIOUS
<1>1. ResponseTypeOK
  BY DEF Init, ResponseTypeOK
<1>2. JobsAfterSaga
  BY DEF Init, JobsAfterSaga, ChargedHasRow, GracedEnded, RowsEnded, AskedHasRow
<1>3. \A o \in Orders : OrderSound(o)
  BY DEF Init, SettlementInit, OrderSound, SagaOwnsRows, RowShape, RowAgrees,
         ResponseTrue
<1> QED
  BY <1>1, <1>2, <1>3 DEF AgreeInv

\* What a step does to one order x: to its saga, its rows and its response.
SameRows(x) == status'[x] = status[x] /\ payment'[x] = payment[x]
SameOrder(x) ==
    /\ SameRows(x)
    /\ pc'[x] = pc[x] /\ chargeResult'[x] = chargeResult[x] /\ response'[x] = response[x]

Moves(x, from, to) ==
    /\ pc[x] = from /\ pc'[x] = to
    /\ response'[x] = response[x] /\ chargeResult'[x] = chargeResult[x]

Answers(x, code, s) ==
    pc'[x] = "done" /\ response'[x] = [code |-> code, order |-> s]

SagaMoves(x) ==
    \/ SameOrder(x)
    \/ SameRows(x) /\ (Moves(x, "resolve", "select") \/ Moves(x, "select", "reserve")
                          \/ Moves(x, "charge", "await"))
    \/ /\ Moves(x, "reserve", "insertPayment")
       /\ status'[x] = "PENDING_PAYMENT" /\ payment'[x] = payment[x]
    \/ /\ Moves(x, "insertPayment", "charge")
       /\ status'[x] = status[x]
       /\ payment'[x] = [status |-> "PENDING", settled |-> FALSE]
    \/ /\ pc[x] = "await" /\ pc'[x] = "savePayment"
       /\ SameRows(x) /\ response'[x] = response[x]
    \/ /\ Moves(x, "savePayment", "settle")
       /\ status'[x] = status[x]
       /\ payment'[x] = [status  |-> chargeResult[x],
                         settled |-> IsDefinitiveOutcome(chargeResult[x])]
    \/ /\ pc[x] = "settle" /\ chargeResult[x] = "CAPTURED"
       /\ status'[x] = "CONFIRMED" /\ payment'[x] = payment[x]
       /\ Answers(x, 201, "CONFIRMED")
    \/ /\ pc[x] = "settle" /\ chargeResult[x] = "DECLINED"
       /\ status'[x] = "PAYMENT_FAILED" /\ payment'[x] = payment[x]
       /\ Answers(x, 402, "PAYMENT_FAILED")
    \/ pc[x] = "settle" /\ SameRows(x) /\ Answers(x, 502, status[x])
    \/ /\ pc[x] \in {"resolve", "select", "reserve"} /\ SameRows(x)
       /\ \E code \in {404, 409, 422} : Answers(x, code, "NONE")
    \/ ~Quiet(x) /\ SameRows(x) /\ Answers(x, 500, status[x])
    \/ /\ ~Quiet(x) /\ SameRows(x)
       /\ pc'[x] = "crashed" /\ response'[x] = response[x]

JobSettles(x) ==
    /\ Quiet(x) /\ pc'[x] = pc[x] /\ response'[x] = response[x]
    /\ status[x] = "PENDING_PAYMENT" /\ payment[x].status # "FAILED"
    /\ \/ /\ status'[x] = "CONFIRMED"
          /\ payment'[x] = [status |-> "CAPTURED", settled |-> TRUE]
       \/ /\ status'[x] = "PAYMENT_FAILED"
          /\ payment'[x] = [status |-> "DECLINED", settled |-> TRUE]
       \/ /\ status'[x] = "CANCELLED"
          /\ \/ payment'[x] = [status |-> "FAILED", settled |-> TRUE]
             \/ payment'[x] = payment[x] /\ payment[x].status = "NONE"

\* Either way the order stays sound.
LEMMA OrderStaysSound ==
    ASSUME MemoryInv, NEW x \in Orders, OrderSound(x), SagaMoves(x) \/ JobSettles(x),
           response[x] \in [code : {0, 201, 402, 404, 409, 422, 500, 502},
                            order : OrderStatuses \cup {"NONE"}]
    PROVE  OrderSound(x)'
<1>0. SagaOwnsRows(x) /\ RowShape(x) /\ RowAgrees(x) /\ ResponseTrue(x)
  BY DEF OrderSound
<1>1. /\ pc[x] \in Steps
      /\ pc[x] \in {"savePayment", "settle"} => chargeResult[x] \in ChargeOutcomes
  BY DEF MemoryInv, MemoryTypeOK, ChargeReturned
<1>2. SagaOwnsRows(x)'
  BY <1>0, <1>1 DEF SagaOwnsRows, SagaMoves, JobSettles, SameRows, SameOrder, Moves,
                    Answers, Quiet, Steps
<1>3. \/ SameRows(x)
      \/ /\ payment'[x] = payment[x] /\ payment[x].status = "NONE"
         /\ status'[x] \in {"PENDING_PAYMENT", "CANCELLED"}
      \/ /\ payment'[x] = [status |-> "PENDING", settled |-> FALSE]
         /\ status'[x] = "PENDING_PAYMENT"
      \/ /\ payment'[x] = [status  |-> chargeResult[x],
                           settled |-> IsDefinitiveOutcome(chargeResult[x])]
         /\ chargeResult[x] \in ChargeOutcomes /\ status'[x] = "PENDING_PAYMENT"
      \/ status'[x] = "CONFIRMED" /\ Row(x, "CAPTURED")'
      \/ status'[x] = "PAYMENT_FAILED" /\ Row(x, "DECLINED")'
      \/ status'[x] = "CANCELLED" /\ Row(x, "FAILED")'
  <2>1. CASE JobSettles(x)
    BY <2>1 DEF JobSettles, Row
  <2>2. CASE SagaMoves(x) /\ pc[x] = "settle"
    <3>0. payment[x] = [status  |-> chargeResult[x],
                        settled |-> IsDefinitiveOutcome(chargeResult[x])]
      BY <1>0, <2>2 DEF SagaOwnsRows
    <3>1. /\ chargeResult[x] = "CAPTURED" => Row(x, "CAPTURED")
          /\ chargeResult[x] = "DECLINED" => Row(x, "DECLINED")
      <4>1. ASSUME IsDefinitiveOutcome(chargeResult[x]) = TRUE
            PROVE  payment[x] = [status |-> chargeResult[x], settled |-> TRUE]
        BY <3>0, <4>1, Zenon
      <4>2. chargeResult[x] \in {"CAPTURED", "DECLINED"} =>
                IsDefinitiveOutcome(chargeResult[x]) = TRUE
        BY DEF IsDefinitiveOutcome
      <4>3. chargeResult[x] \in {"CAPTURED", "DECLINED"} =>
                payment[x] = [status |-> chargeResult[x], settled |-> TRUE]
        BY <4>1, <4>2, Zenon
      <4> QED
        BY <4>3 DEF Row
    <3>2. \/ SameRows(x)
          \/ /\ chargeResult[x] = "CAPTURED" /\ status'[x] = "CONFIRMED"
             /\ payment'[x] = payment[x]
          \/ /\ chargeResult[x] = "DECLINED" /\ status'[x] = "PAYMENT_FAILED"
             /\ payment'[x] = payment[x]
      BY <2>2 DEF SagaMoves, SameOrder, Moves
    <3> QED
      BY <3>1, <3>2 DEF Row
  <2>3. CASE SagaMoves(x) /\ pc[x] # "settle"
    BY <1>0, <1>1, <2>3 DEF SagaOwnsRows, SagaMoves, SameRows, SameOrder, Moves
  <2> QED
    BY <2>1, <2>2, <2>3
<1>4. RowShape(x)' /\ RowAgrees(x)'
  <2>1. CASE SameRows(x)
    BY <1>0, <2>1 DEF SameRows, RowShape, RowAgrees, Row
  <2>2. CASE /\ payment'[x] = payment[x] /\ payment[x].status = "NONE"
             /\ status'[x] \in {"PENDING_PAYMENT", "CANCELLED"}
    BY <1>0, <2>2 DEF RowShape, RowAgrees, Row
  <2>3. CASE /\ payment'[x] = [status |-> "PENDING", settled |-> FALSE]
             /\ status'[x] = "PENDING_PAYMENT"
    BY <2>3 DEF RowShape, RowAgrees, Row
  <2>4. CASE /\ payment'[x] = [status  |-> chargeResult[x],
                               settled |-> IsDefinitiveOutcome(chargeResult[x])]
             /\ chargeResult[x] \in ChargeOutcomes /\ status'[x] = "PENDING_PAYMENT"
    <3>1. CASE IsDefinitiveOutcome(chargeResult[x])
      <4>0. IsDefinitiveOutcome(chargeResult[x]) = TRUE
        BY <3>1 DEF IsDefinitiveOutcome
      <4>1. payment'[x] = [status |-> chargeResult[x], settled |-> TRUE]
        BY <2>4, <4>0, Zenon
      <4> QED
        BY <2>4, <3>1, <4>1 DEF RowShape, RowAgrees, IsDefinitiveOutcome
    <3>2. CASE chargeResult[x] = "UNKNOWN"
      <4>0. IsDefinitiveOutcome(chargeResult[x]) = FALSE
        BY <3>2 DEF IsDefinitiveOutcome
      <4>1. payment'[x] = [status |-> "UNKNOWN", settled |-> FALSE]
        BY <2>4, <3>2, <4>0, Zenon
      <4> QED
        BY <2>4, <4>1 DEF RowShape, RowAgrees
    <3> QED
      BY <2>4, <3>1, <3>2 DEF ChargeOutcomes, IsDefinitiveOutcome
  <2>5. CASE \/ status'[x] = "CONFIRMED" /\ Row(x, "CAPTURED")'
             \/ status'[x] = "PAYMENT_FAILED" /\ Row(x, "DECLINED")'
             \/ status'[x] = "CANCELLED" /\ Row(x, "FAILED")'
    BY <2>5 DEF RowShape, RowAgrees, Row
  <2> QED
    BY <1>3, <2>1, <2>2, <2>3, <2>4, <2>5
<1>5. ResponseTrue(x)'
  BY <1>0 DEF SagaOwnsRows, ResponseTrue, SagaMoves, JobSettles, SameRows, SameOrder,
              Moves, Answers, Quiet
<1> QED
  BY <1>2, <1>4, <1>5 DEF OrderSound

\* A saga's step is one of those moves of its own order, and of no other.
LEMMA SagaStepMoves ==
    ASSUME SettlementTypeOK, MemoryInv, ResponseTypeOK, NEW o \in Orders,
           OrderSound(o), SagaStep(o) \/ SagaFails(o) \/ Crash(o)
    PROVE  /\ SagaMoves(o) /\ ResponseTypeOK'
           /\ \A x \in Orders : x # o => SameOrder(x)
<1> DEFINE Goal == /\ SagaMoves(o) /\ ResponseTypeOK'
                   /\ \A x \in Orders : x # o => SameOrder(x)
<1>0. /\ pc \in [Orders -> Steps]
      /\ chargeResult \in [Orders -> ChargeOutcomes \cup {"NONE"}]
      /\ status \in [Orders -> OrderStatuses \cup {"NONE"}]
      /\ payment \in [Orders -> [status : StatusAnswers \cup {"NONE", "PENDING"},
                                 settled : BOOLEAN]]
      /\ response \in [Orders -> [code : {0, 201, 402, 404, 409, 422, 500, 502},
                                  order : OrderStatuses \cup {"NONE"}]]
  BY DEF MemoryInv, MemoryTypeOK, SettlementTypeOK, ResponseTypeOK
<1>1. ASSUME NEW code \in {201, 402, 404, 409, 422, 500, 502},
             NEW s \in OrderStatuses \cup {"NONE"}, Respond(o, code, s)
      PROVE  /\ Answers(o, code, s) /\ ResponseTypeOK'
             /\ \A x \in Orders : x # o => pc'[x] = pc[x] /\ response'[x] = response[x]
  BY <1>0, <1>1 DEF Respond, GoTo, Answers, ResponseTypeOK
<1>2. ASSUME NEW step, GoTo(o, step), UNCHANGED response
      PROVE  /\ pc'[o] = step /\ response'[o] = response[o] /\ ResponseTypeOK'
             /\ \A x \in Orders : x # o => pc'[x] = pc[x] /\ response'[x] = response[x]
  BY <1>0, <1>2 DEF GoTo, ResponseTypeOK
<1>3. ASSUME UNCHANGED settlementVars
      PROVE  \A x \in Orders : SameRows(x)
  BY <1>3 DEF settlementVars, SameRows
<1>4. CASE Resolve(o)
  <2>1. /\ pc[o] = "resolve" /\ UNCHANGED <<settlementVars, chargeResult>>
        /\ \/ GoTo(o, "select") /\ UNCHANGED response
           \/ \E code \in {404, 422} : Respond(o, code, "NONE")
    BY <1>4 DEF Resolve
  <2> QED
    BY <1>1, <1>2, <1>3, <2>1 DEF SagaMoves, Moves, SameOrder
<1>5. CASE SelectWarehouses(o)
  <2>1. /\ pc[o] = "select" /\ UNCHANGED <<settlementVars, chargeResult>>
        /\ \/ GoTo(o, "reserve") /\ UNCHANGED response
           \/ Respond(o, 422, "NONE")
    BY <1>5 DEF SelectWarehouses
  <2> QED
    BY <1>1, <1>2, <1>3, <2>1 DEF SagaMoves, Moves, SameOrder
<1>6. ASSUME NEW w \in Warehouses, TryCandidate(o, w)
      PROVE  Goal
  <2>1. /\ pc[o] = "reserve" /\ GoTo(o, "insertPayment")
        /\ UNCHANGED <<chargeResult, response, payment>>
        /\ status' = [status EXCEPT ![o] = "PENDING_PAYMENT"]
    BY <1>6 DEF TryCandidate, PlaceOrder
  <2> QED
    BY <1>0, <1>2, <2>1 DEF SagaMoves, Moves, SameOrder, SameRows
<1>7. CASE CandidateFails(o)
  <2>1. /\ pc[o] = "reserve" /\ UNCHANGED <<settlementVars, chargeResult>>
        /\ Respond(o, 409, "NONE") \/ UNCHANGED <<pc, response>>
    BY <1>7 DEF CandidateFails
  <2> QED
    BY <1>1, <1>3, <2>1 DEF SagaMoves, Moves, SameOrder, ResponseTypeOK
<1>8. CASE SavePendingPayment(o)
  <2>1. /\ pc[o] = "insertPayment" /\ GoTo(o, "charge")
        /\ UNCHANGED <<chargeResult, response, status>>
        /\ payment' = [payment EXCEPT ![o] = [status |-> "PENDING", settled |-> FALSE]]
    BY <1>8 DEF SavePendingPayment, InsertPayment
  <2> QED
    BY <1>0, <1>2, <2>1 DEF SagaMoves, Moves, SameOrder, SameRows
<1>9. CASE SendCharge(o)
  <2>1. /\ pc[o] = "charge" /\ GoTo(o, "await")
        /\ UNCHANGED <<settlementVars, chargeResult, response>>
    BY <1>9 DEF SendCharge
  <2> QED
    BY <1>2, <1>3, <2>1 DEF SagaMoves, Moves, SameOrder
<1>10. CASE ChargeReturns(o)
  <2>1. PICK result : chargeResult' = [chargeResult EXCEPT ![o] = result]
    BY <1>10 DEF ChargeReturns
  <2>2. /\ pc[o] = "await" /\ GoTo(o, "savePayment")
        /\ UNCHANGED <<settlementVars, response>>
    BY <1>10 DEF ChargeReturns
  <2> QED
    BY <1>0, <1>2, <1>3, <2>1, <2>2 DEF SagaMoves, SameOrder
<1>11. CASE SaveOutcome(o)
  <2>1. /\ pc[o] = "savePayment" /\ GoTo(o, "settle")
        /\ UNCHANGED <<chargeResult, response, status>>
        /\ payment' = [payment EXCEPT ![o] =
               [status  |-> chargeResult[o],
                settled |-> IsDefinitiveOutcome(chargeResult[o])]]
    BY <1>11 DEF SaveOutcome, SavePayment
  <2> QED
    BY <1>0, <1>2, <2>1 DEF SagaMoves, Moves, SameOrder, SameRows
<1>12. CASE SettleOrder(o)
  <2>1. pc[o] = "settle" /\ UNCHANGED chargeResult
    BY <1>12 DEF SettleOrder
  <2>2. status[o] = "PENDING_PAYMENT"
    BY <2>1 DEF OrderSound, SagaOwnsRows
  <2>3. CASE /\ chargeResult[o] = "CAPTURED"
             /\ ConfirmCaptured(o, "NONE") \/ AlreadySettled(o)
             /\ Respond(o, 201, status'[o])
    <3>1. status' = [status EXCEPT ![o] = "CONFIRMED"] /\ UNCHANGED payment
      BY <2>2, <2>3 DEF ConfirmCaptured, AlreadySettled, ResolvePayment
    <3>2. status'[o] = "CONFIRMED"
      BY <1>0, <3>1
    <3>3. /\ Answers(o, 201, "CONFIRMED") /\ ResponseTypeOK'
          /\ \A x \in Orders : x # o => pc'[x] = pc[x] /\ response'[x] = response[x]
      BY <1>1, <2>3, <3>2 DEF OrderStatuses, ORDER_TRANSITIONS
    <3> QED
      BY <1>0, <2>1, <2>3, <3>1, <3>2, <3>3 DEF SagaMoves, SameOrder, SameRows
  <2>4. CASE /\ chargeResult[o] = "DECLINED"
             /\ FailDeclined(o, "NONE") \/ AlreadySettled(o)
             /\ Respond(o, 402, status'[o])
    <3>1. status' = [status EXCEPT ![o] = "PAYMENT_FAILED"] /\ UNCHANGED payment
      BY <2>2, <2>4 DEF FailDeclined, AlreadySettled, ResolvePayment
    <3>2. status'[o] = "PAYMENT_FAILED"
      BY <1>0, <3>1
    <3>3. /\ Answers(o, 402, "PAYMENT_FAILED") /\ ResponseTypeOK'
          /\ \A x \in Orders : x # o => pc'[x] = pc[x] /\ response'[x] = response[x]
      BY <1>1, <2>4, <3>2 DEF OrderStatuses, ORDER_TRANSITIONS
    <3> QED
      BY <1>0, <2>1, <2>4, <3>1, <3>2, <3>3 DEF SagaMoves, SameOrder, SameRows
  <2>5. CASE UNCHANGED settlementVars /\ Respond(o, 502, status[o])
    <3>1. status[o] \in OrderStatuses \cup {"NONE"}
      BY <1>0
    <3> QED
      BY <1>1, <1>3, <2>1, <2>5, <3>1 DEF SagaMoves, SameOrder
  <2> QED
    BY <1>12, <2>3, <2>4, <2>5 DEF SettleOrder
<1>13. CASE SagaFails(o)
  <2>1. /\ ~Quiet(o) /\ Respond(o, 500, status[o])
        /\ UNCHANGED <<settlementVars, chargeResult>>
    BY <1>13 DEF SagaFails, Quiet
  <2>2. status[o] \in OrderStatuses \cup {"NONE"}
    BY <1>0
  <2> QED
    BY <1>1, <1>3, <2>1, <2>2 DEF SagaMoves, SameOrder
<1>14. CASE Crash(o)
  <2>1. /\ ~Quiet(o) /\ GoTo(o, "crashed")
        /\ UNCHANGED <<settlementVars, chargeResult, response>>
    BY <1>14 DEF Crash
  <2> QED
    BY <1>2, <1>3, <2>1 DEF SagaMoves, SameOrder
<1> QED
  BY <1>4, <1>5, <1>6, <1>7, <1>8, <1>9, <1>10, <1>11, <1>12, <1>13, <1>14
     DEF SagaStep

\* A job settles the order of its first row: with the provider's answer, which
\* the payment row cannot contradict, or as never charged.
LEMMA JobStepSettles ==
    ASSUME SettlementTypeOK, MemoryInv, TruthInv, PromptInv, AgreeInv, NEW j \in Jobs,
           JobStep(j) \/ RowFails(j) \/ WorkerCrashes(j)
    PROVE  \A x \in Orders : SameOrder(x) \/ JobSettles(x)
<1> DEFINE o == batch[j][1].order
           row == batch[j][1]
<1>0. /\ status \in [Orders -> OrderStatuses \cup {"NONE"}]
      /\ payment \in [Orders -> [status : StatusAnswers \cup {"NONE", "PENDING"},
                                 settled : BOOLEAN]]
  BY DEF SettlementTypeOK
<1>1. UNCHANGED <<pc, chargeResult, response>>
  BY JobFootprint DEF sagaVars
<1>2. ASSUME UNCHANGED settlementVars
      PROVE  \A x \in Orders : SameOrder(x)
  BY <1>1, <1>2 DEF settlementVars, SameRows, SameOrder
<1>3. CASE UNCHANGED settlementVars
  BY <1>2, <1>3
<1>4. ASSUME batch[j] # <<>>
      PROVE  /\ o \in Orders /\ Quiet(o)
             /\ row.hasPayment => payment[o].status # "NONE"
             /\ answer[j] # "NONE" => row.hasPayment
  <2>1. batch[j] \in Seq(Rows)
    BY DEF MemoryInv, MemoryTypeOK
  <2>2. 1 \in 1..Len(batch[j])
    BY <1>4, <2>1
  <2>3. o \in Orders
    BY <1>4, FirstRow
  <2> QED
    BY <2>2, <2>3 DEF AgreeInv, JobsAfterSaga, RowsEnded, AskedHasRow
<1>5. ASSUME NEW resolution \in {"CAPTURED", "DECLINED", "FAILED"}, o \in Orders,
             status[o] = "PENDING_PAYMENT", payment[o].status # "NONE",
             payment[o].status \in {"CAPTURED", "DECLINED"} =>
                 payment[o].status = resolution,
             ResolvePayment(o, resolution)
      PROVE  /\ payment'[o] = [status |-> resolution, settled |-> TRUE]
             /\ \A x \in Orders : x # o => payment'[x] = payment[x]
             /\ payment[o].status # "FAILED"
  <2>1. RowShape(o)
    BY <1>5 DEF AgreeInv, OrderSound
  <2>2. payment[o] \in [status : {"CAPTURED", "DECLINED", "UNKNOWN", "FAILED", "NONE", "PENDING"},
                        settled : BOOLEAN]
    BY <1>0, <1>5 DEF StatusAnswers, ChargeOutcomes
  <2>3. payment[o].status # "FAILED"
    BY <1>5, <2>1 DEF RowShape
  <2>4. CASE payment[o].status \in {"PENDING", "UNKNOWN"}
    <3>1. payment' = [payment EXCEPT ![o] = [status |-> resolution, settled |-> TRUE]]
      BY <1>5, <2>4 DEF ResolvePayment
    <3> QED
      BY <1>0, <1>5, <2>3, <3>1
  <2>5. CASE payment[o].status = resolution
    <3>1. payment' = payment
      BY <1>5, <2>5 DEF ResolvePayment
    <3>2. payment[o].settled = TRUE
      BY <2>1, <2>2, <2>5 DEF RowShape
    <3>3. payment[o] = [status |-> resolution, settled |-> TRUE]
      BY <2>2, <2>5, <3>2
    <3> QED
      BY <2>3, <3>1, <3>3
  <2> QED
    BY <1>5, <2>2, <2>3, <2>4, <2>5
<1>6. ASSUME o \in Orders, NEW end, status' = [status EXCEPT ![o] = end]
      PROVE  status'[o] = end /\ \A x \in Orders : x # o => status'[x] = status[x]
  BY <1>0, <1>6
<1>7. CASE batch[j] # <<>> /\ answer[j] = "CAPTURED" /\ ConfirmCaptured(o, "CAPTURED")
  <2>1. /\ status[o] = "PENDING_PAYMENT" /\ ResolvePayment(o, "CAPTURED")
        /\ status' = [status EXCEPT ![o] = "CONFIRMED"]
    BY <1>7 DEF ConfirmCaptured
  <2>2. provider[o] = "approved"
    BY <1>7 DEF TruthInv, AnswerTrue, Agrees
  <2>3. payment[o].status # "DECLINED"
    BY <1>4, <1>7, <2>2 DEF TruthInv, SettledByProvider
  <2>4. /\ payment'[o] = [status |-> "CAPTURED", settled |-> TRUE]
        /\ \A x \in Orders : x # o => payment'[x] = payment[x]
        /\ payment[o].status # "FAILED"
    BY <1>4, <1>5, <1>7, <2>1, <2>3
  <2>5. status'[o] = "CONFIRMED" /\ \A x \in Orders : x # o => status'[x] = status[x]
    BY <1>4, <1>6, <1>7, <2>1
  <2> HIDE DEF o, row
  <2> QED
    BY <1>1, <1>4, <1>7, <2>1, <2>4, <2>5 DEF JobSettles, SameOrder, SameRows
<1>8. CASE batch[j] # <<>> /\ answer[j] = "DECLINED" /\ FailDeclined(o, "DECLINED")
  <2>1. /\ status[o] = "PENDING_PAYMENT" /\ ResolvePayment(o, "DECLINED")
        /\ status' = [status EXCEPT ![o] = "PAYMENT_FAILED"]
    BY <1>8 DEF FailDeclined
  <2>2. provider[o] = "declined"
    BY <1>8 DEF TruthInv, AnswerTrue, Agrees
  <2>3. payment[o].status # "CAPTURED"
    BY <1>4, <1>8, <2>2 DEF TruthInv, SettledByProvider
  <2>4. /\ payment'[o] = [status |-> "DECLINED", settled |-> TRUE]
        /\ \A x \in Orders : x # o => payment'[x] = payment[x]
        /\ payment[o].status # "FAILED"
    BY <1>4, <1>5, <1>8, <2>1, <2>3
  <2>5. status'[o] = "PAYMENT_FAILED" /\ \A x \in Orders : x # o => status'[x] = status[x]
    BY <1>4, <1>6, <1>8, <2>1
  <2> HIDE DEF o, row
  <2> QED
    BY <1>1, <1>4, <1>8, <2>1, <2>4, <2>5 DEF JobSettles, SameOrder, SameRows
<1>9. CASE /\ batch[j] # <<>> /\ j \in Reapers /\ answer[j] = "FAILED"
           /\ CancelUnpaid(o, "FAILED")
  <2>1. /\ status[o] = "PENDING_PAYMENT" /\ ResolvePayment(o, "FAILED")
        /\ status' = [status EXCEPT ![o] = "CANCELLED"]
    BY <1>9 DEF CancelUnpaid
  <2>2. provider[o] = "none"
    BY <1>9 DEF PromptInv, NotFoundTrue
  <2>3. payment[o].status \notin {"CAPTURED", "DECLINED"}
    BY <1>4, <1>9, <2>2 DEF TruthInv, SettledByProvider
  <2>4. /\ payment'[o] = [status |-> "FAILED", settled |-> TRUE]
        /\ \A x \in Orders : x # o => payment'[x] = payment[x]
        /\ payment[o].status # "FAILED"
    BY <1>4, <1>5, <1>9, <2>1, <2>3
  <2>5. status'[o] = "CANCELLED" /\ \A x \in Orders : x # o => status'[x] = status[x]
    BY <1>4, <1>6, <1>9, <2>1
  <2> HIDE DEF o, row
  <2> QED
    BY <1>1, <1>4, <1>9, <2>1, <2>4, <2>5 DEF JobSettles, SameOrder, SameRows
<1>10. CASE /\ batch[j] # <<>> /\ j \in Reapers /\ ~row.hasPayment
            /\ CancelUnpaid(o, "NONE")
  <2>1. /\ status[o] = "PENDING_PAYMENT" /\ UNCHANGED payment
        /\ status' = [status EXCEPT ![o] = "CANCELLED"]
    BY <1>10 DEF CancelUnpaid, ResolvePayment
  <2>2. payment[o].status = "NONE"
    <3>1. 1 \in 1..Len(batch[j])
      BY <1>10 DEF MemoryInv, MemoryTypeOK
    <3> QED
      BY <1>10, <3>1 DEF PromptInv, ReaperRowsTrue
  <2>3. status'[o] = "CANCELLED" /\ \A x \in Orders : x # o => status'[x] = status[x]
    BY <1>4, <1>6, <1>10, <2>1
  <2> HIDE DEF o, row
  <2> QED
    BY <1>1, <1>4, <1>10, <2>1, <2>2, <2>3 DEF JobSettles, SameOrder, SameRows
<1>11. CASE SettleDefinitive(j)
  <2>1. batch[j] # <<>>
    BY <1>11 DEF SettleDefinitive
  <2>2. \/ answer[j] = "CAPTURED" /\ ConfirmCaptured(o, "CAPTURED")
        \/ answer[j] = "DECLINED" /\ FailDeclined(o, "DECLINED")
        \/ AlreadySettled(o)
    BY <1>11 DEF SettleDefinitive
  <2> QED
    BY <1>3, <1>7, <1>8, <2>1, <2>2 DEF AlreadySettled
<1>12. CASE j \in Reapers /\ ReaperCancels(j)
  <2>1. batch[j] # <<>>
    BY <1>12 DEF ReaperCancels
  <2>2. \/ answer[j] = "FAILED" /\ CancelUnpaid(o, "FAILED")
        \/ ~row.hasPayment /\ CancelUnpaid(o, "NONE")
        \/ AlreadySettled(o)
    BY <1>12 DEF ReaperCancels
  <2> QED
    BY <1>3, <1>9, <1>10, <1>12, <2>1, <2>2 DEF AlreadySettled
<1>13. CASE \/ ReaperSelect(j) \/ ReconcilerSelect(j) \/ LeaveUnresolved(j)
            \/ RowFails(j) \/ WorkerCrashes(j)
            \/ \E says \in StatusAnswers : AskProvider(j, says)
  BY <1>3, <1>13 DEF ReaperSelect, ReconcilerSelect, LeaveUnresolved, RowFails,
                     WorkerCrashes, AskProvider
<1> QED
  BY <1>11, <1>12, <1>13 DEF JobStep

\* Every step, seen from one order.
LEMMA OrdersMove ==
    ASSUME SettlementTypeOK, MemoryInv, TruthInv, PromptInv, AgreeInv, [Next]_vars
    PROVE  ResponseTypeOK' /\ \A x \in Orders : SagaMoves(x) \/ JobSettles(x)
<1>0. ResponseTypeOK /\ \A o \in Orders : OrderSound(o)
  BY DEF AgreeInv
<1>1. ASSUME \A x \in Orders : SameOrder(x), UNCHANGED response
      PROVE  ResponseTypeOK' /\ \A x \in Orders : SagaMoves(x) \/ JobSettles(x)
  BY <1>0, <1>1 DEF SagaMoves, ResponseTypeOK
<1>2. ASSUME NEW o \in Orders, SagaStep(o) \/ SagaFails(o) \/ Crash(o)
      PROVE  ResponseTypeOK' /\ \A x \in Orders : SagaMoves(x) \/ JobSettles(x)
  <2>1. /\ SagaMoves(o) /\ ResponseTypeOK'
        /\ \A x \in Orders : x # o => SameOrder(x)
    BY <1>0, <1>2, SagaStepMoves
  <2> QED
    BY <2>1 DEF SagaMoves
<1>3. ASSUME NEW o \in Orders, ProviderReceives(o) \/ RequestLost(o)
      PROVE  (\A x \in Orders : SameOrder(x)) /\ UNCHANGED response
  BY <1>3 DEF ProviderReceives, RequestLost, settlementVars, sagaVars, SameOrder, SameRows
<1>4. CASE ReservationExpires \/ GraceEnds \/ UNCHANGED vars
  <2>1. (\A x \in Orders : SameOrder(x)) /\ UNCHANGED response
    BY <1>4 DEF ReservationExpires, GraceEnds, vars, settlementVars, sagaVars,
                SameOrder, SameRows
  <2> QED
    BY <1>1, <2>1
<1>5. ASSUME NEW j \in Jobs, JobStep(j) \/ RowFails(j) \/ WorkerCrashes(j)
      PROVE  ResponseTypeOK' /\ \A x \in Orders : SagaMoves(x) \/ JobSettles(x)
  <2>1. UNCHANGED response
    BY <1>5, JobFootprint DEF sagaVars
  <2>2. \A x \in Orders : SameOrder(x) \/ JobSettles(x)
    BY <1>5, JobStepSettles
  <2> QED
    BY <1>0, <2>1, <2>2 DEF SagaMoves, ResponseTypeOK
<1> QED
  BY <1>1, <1>2, <1>3, <1>4, <1>5 DEF Next

\* A saga that has ended does not run again.
LEMMA QuietStays ==
    ASSUME NEW x \in Orders, SagaMoves(x) \/ JobSettles(x), Quiet(x)
    PROVE  Quiet(x)'
BY DEF Quiet, SagaMoves, JobSettles, SameOrder, Moves, Answers

\* What a job's rows need of the orders: ended stays ended, paid stays paid.
EndedStays ==
    \A x \in Orders : /\ Quiet(x) => Quiet(x)'
                      /\ payment[x].status # "NONE" => payment'[x].status # "NONE"

\* Payments are charged in order, and graced only when their saga has ended.
LEMMA ChargedStep ==
    ASSUME Prompt, SettlementTypeOK, MemoryInv, EndedStays, ChargedHasRow, GracedEnded,
           [Next]_vars
    PROVE  ChargedHasRow' /\ GracedEnded'
<1>0. /\ charged \in Seq(Orders) /\ graced \in 0..Len(charged)
      /\ payment \in [Orders -> [status : StatusAnswers \cup {"NONE", "PENDING"},
                                 settled : BOOLEAN]]
  BY DEF MemoryInv, MemoryTypeOK, SettlementTypeOK
<1>1. CASE UNCHANGED <<charged, graced>>
  BY <1>0, <1>1 DEF EndedStays, ChargedHasRow, GracedEnded
<1>2. ASSUME NEW o \in Orders, SavePendingPayment(o)
      PROVE  ChargedHasRow' /\ GracedEnded'
  <2>1. /\ charged' = Append(charged, o) /\ graced' = graced
        /\ payment' = [payment EXCEPT ![o] = [status |-> "PENDING", settled |-> FALSE]]
    BY <1>2 DEF SavePendingPayment, InsertPayment
  <2>2. payment'[o].status # "NONE"
    BY <1>0, <2>1
  <2>3. \A i \in 1..Len(charged') :
            \/ i \in 1..Len(charged) /\ charged'[i] = charged[i]
            \/ charged'[i] = o
    BY <1>0, <2>1
  <2>4. \A i \in 1..graced : charged'[i] = charged[i] /\ charged[i] \in Orders
    BY <1>0, <2>1
  <2>5. \A i \in 1..Len(charged) : charged[i] \in Orders
    BY <1>0
  <2>6. ChargedHasRow'
    BY <2>2, <2>3, <2>5 DEF EndedStays, ChargedHasRow
  <2>7. GracedEnded'
    BY <2>1, <2>4 DEF EndedStays, GracedEnded, Quiet
  <2> QED
    BY <2>6, <2>7
<1>3. CASE GraceEnds
  <2>1. /\ graced < Len(charged) /\ Quiet(charged[graced + 1])
        /\ graced' = graced + 1 /\ UNCHANGED <<charged, pc, payment>>
    BY <1>3 DEF GraceEnds, settlementVars, sagaVars
  <2> QED
    BY <1>0, <2>1 DEF ChargedHasRow, GracedEnded, Quiet
<1>4. ASSUME NEW o \in Orders, SagaStep(o) \/ SagaFails(o) \/ Crash(o),
             ~SavePendingPayment(o)
      PROVE  UNCHANGED <<charged, graced>>
  BY <1>4 DEF SagaStep, Resolve, SelectWarehouses, TryCandidate, CandidateFails,
     SendCharge, ChargeReturns, SaveOutcome, SettleOrder, SagaFails, Crash, clockVars
<1>5. ASSUME NEW o \in Orders, ProviderReceives(o) \/ RequestLost(o)
      PROVE  UNCHANGED <<charged, graced>>
  BY <1>5 DEF ProviderReceives, RequestLost, clockVars
<1>6. CASE ReservationExpires \/ UNCHANGED vars
  BY <1>1, <1>6 DEF ReservationExpires, vars, clockVars
<1>7. ASSUME NEW j \in Jobs, JobStep(j) \/ RowFails(j) \/ WorkerCrashes(j)
      PROVE  UNCHANGED <<charged, graced>>
  BY <1>7, JobFootprint DEF clockVars
<1> QED
  BY <1>1, <1>2, <1>3, <1>4, <1>5, <1>6, <1>7 DEF Next

\* A job selects orders whose saga has ended: overdue ones, or graced ones.
LEMMA RowsEndedStep ==
    ASSUME MemoryInv, OverdueEnded, ChargedHasRow, GracedEnded, RowsEnded, EndedStays,
           [Next]_vars
    PROVE  RowsEnded'
<1> SUFFICES ASSUME NEW j \in Jobs, NEW i \in 1..Len(batch'[j])
             PROVE  /\ pc'[batch'[j][i].order] \in {"done", "crashed"}
                    /\ batch'[j][i].hasPayment =>
                           payment'[batch'[j][i].order].status # "NONE"
  BY DEF RowsEnded, Quiet
<1>0. /\ batch[j] \in Seq(Rows) /\ batch \in [Jobs -> Seq(Rows)]
      /\ placed \in Seq(Orders) /\ expired \in 0..Len(placed)
      /\ charged \in Seq(Orders) /\ graced \in 0..Len(charged)
  BY DEF MemoryInv, MemoryTypeOK
<1>1. ASSUME NEW k \in 1..Len(batch[j]), batch'[j][i] = batch[j][k]
      PROVE  /\ pc'[batch'[j][i].order] \in {"done", "crashed"}
             /\ batch'[j][i].hasPayment => payment'[batch'[j][i].order].status # "NONE"
  <2>0. batch[j][k] \in Rows
    BY <1>0
  <2>1. batch[j][k].order \in Orders
    BY <2>0 DEF Rows
  <2> QED
    BY <1>1, <2>1 DEF RowsEnded, EndedStays, Quiet
<1>2. CASE batch'[j] = batch[j]
  BY <1>1, <1>2
<1>3. CASE ReaperSelect(j)
  <2>0. PICK n \in 1..BatchSize : \E rows \in [1..n -> Overdue] :
            batch' = [batch EXCEPT ![j] = [k \in 1..n |->
                [order |-> rows[k],
                 hasPayment |-> payment[rows[k]].status # "NONE"]]]
    BY <1>3 DEF ReaperSelect
  <2>1. PICK rows \in [1..n -> Overdue] :
            batch' = [batch EXCEPT ![j] = [k \in 1..n |->
                [order |-> rows[k],
                 hasPayment |-> payment[rows[k]].status # "NONE"]]]
    BY <2>0
  <2>2. batch'[j] = [k \in 1..n |-> [order |-> rows[k],
                         hasPayment |-> payment[rows[k]].status # "NONE"]]
    BY <1>0, <2>1
  <2>3. Len(batch'[j]) = n
    BY <2>2, LimitAssumption
  <2>4. i \in 1..n
    BY <2>3
  <2>5. /\ batch'[j][i].order = rows[i]
        /\ batch'[j][i].hasPayment = (payment[rows[i]].status # "NONE")
    BY <2>2, <2>4
  <2>6. rows[i] \in Overdue
    BY <2>1, <2>4
  <2>7. Overdue \subseteq Orders
    BY <1>0 DEF Overdue
  <2> QED
    BY <2>5, <2>6, <2>7 DEF OverdueEnded, EndedStays, Quiet
<1>4. CASE ReconcilerSelect(j)
  <2>0. PICK n \in 1..BatchSize : \E rows \in [1..n -> {charged[k] : k \in 1..graced}] :
            batch' = [batch EXCEPT ![j] = [k \in 1..n |->
                [order |-> rows[k], hasPayment |-> TRUE]]]
    BY <1>4 DEF ReconcilerSelect
  <2>1. PICK rows \in [1..n -> {charged[k] : k \in 1..graced}] :
            batch' = [batch EXCEPT ![j] = [k \in 1..n |->
                [order |-> rows[k], hasPayment |-> TRUE]]]
    BY <2>0
  <2>2. batch'[j] = [k \in 1..n |-> [order |-> rows[k], hasPayment |-> TRUE]]
    BY <1>0, <2>1
  <2>3. Len(batch'[j]) = n
    BY <2>2, LimitAssumption
  <2>4. batch'[j][i].order = rows[i] /\ rows[i] \in {charged[k] : k \in 1..graced}
    BY <2>1, <2>2, <2>3
  <2>5. PICK k \in 1..graced : rows[i] = charged[k]
    BY <2>4
  <2>6. k \in 1..Len(charged) /\ charged[k] \in Orders
    BY <1>0, <2>5
  <2> QED
    BY <2>4, <2>5, <2>6 DEF ChargedHasRow, GracedEnded, EndedStays, Quiet
<1>5. CASE \E says \in StatusAnswers : AskProvider(j, says)
  BY <1>2, <1>5 DEF AskProvider
<1>6. CASE batch[j] # <<>> /\ batch'[j] = Tail(batch[j])
  <2>1. i + 1 \in 1..Len(batch[j]) /\ batch'[j][i] = batch[j][i + 1]
    BY <1>0, <1>6
  <2> QED
    BY <1>1, <2>1
<1>7. CASE batch'[j] = <<>>
  BY <1>7
<1> QED
  BY <1>2, <1>3, <1>4, <1>5, <1>6, <1>7, BatchStep

\* A job asks about its first row only if that has a payment.
LEMMA AskedStep ==
    ASSUME MemoryInv, AskedHasRow, [Next]_vars
    PROVE  AskedHasRow'
<1> SUFFICES ASSUME NEW j \in Jobs, answer'[j] # "NONE"
             PROVE  batch'[j] # <<>> /\ batch'[j][1].hasPayment
  BY DEF AskedHasRow
<1>1. CASE batch'[j] = batch[j] /\ answer'[j] = answer[j]
  BY <1>1 DEF AskedHasRow
<1>2. CASE ReaperSelect(j) \/ ReconcilerSelect(j)
  <2>1. batch[j] = <<>> /\ answer' = answer
    BY <1>2 DEF ReaperSelect, ReconcilerSelect
  <2> QED
    BY <2>1 DEF AskedHasRow
<1>3. CASE \E says \in StatusAnswers : AskProvider(j, says)
  BY <1>3 DEF AskProvider
<1> QED
  BY <1>1, <1>2, <1>3, BatchStep

LEMMA AgreeNext ==
    ASSUME Prompt, SettlementInv, MemoryInv, TruthInv, PromptInv, AgreeInv, [Next]_vars
    PROVE  AgreeInv'
<1>0. /\ SettlementTypeOK /\ ResponseTypeOK /\ JobsAfterSaga /\ OverdueEnded
      /\ \A x \in Orders : OrderSound(x)
  BY DEF SettlementInv, AgreeInv, PromptInv
<1>1. ResponseTypeOK' /\ \A x \in Orders : SagaMoves(x) \/ JobSettles(x)
  BY <1>0, OrdersMove
<1>2. EndedStays
  <2>1. PaymentRowsKept
    BY <1>0, PaymentStep
  <2> QED
    BY <1>1, <2>1, QuietStays DEF EndedStays, PaymentRowsKept
<1>3. \A x \in Orders : OrderSound(x)'
  BY <1>0, <1>1, OrderStaysSound DEF ResponseTypeOK
<1>4. JobsAfterSaga'
  BY <1>0, <1>2, ChargedStep, RowsEndedStep, AskedStep DEF JobsAfterSaga
<1> QED
  BY <1>1, <1>3, <1>4 DEF AgreeInv

LEMMA PromptAgrees ==
    ASSUME Prompt
    PROVE  Spec => []AgreeInv
<1>1. SettlementInv /\ MemoryInv /\ PromptInv /\ [Next]_vars => PromptInv'
  BY PromptNext
<1>2. SettlementInv /\ MemoryInv /\ TruthInv /\ PromptInv /\ AgreeInv /\ [Next]_vars
          => AgreeInv'
  BY AgreeNext
<1> QED
  BY <1>1, <1>2, PromptInit, TruthInit, TruthNext, AgreeInit, MemoryInvariant,
     SagaKeepsSettlement, PTL DEF Spec

\* When no request outlives its grace period or its reservation, a settled
\* order leaves no payment row open: OrderSettlementService and the saga's own
\* save leave it with the outcome the order was settled by.
THEOREM PromptPaymentAgrees ==
    ASSUME Prompt
    PROVE  Spec => []PaymentAgrees
<1>1. AgreeInv => PaymentAgrees
  BY DEF AgreeInv, OrderSound, RowAgrees, Row, PaymentAgrees
<1> QED
  BY <1>1, PromptAgrees, PTL

\* And then what the client was told is what became of the order: a job never
\* settles an order whose saga has yet to answer, and no answer is undone.
THEOREM PromptResponseIsTrue ==
    ASSUME Prompt
    PROVE  Spec => []ResponseIsTrue
<1>1. AgreeInv => ResponseIsTrue
  BY DEF AgreeInv, OrderSound, ResponseTrue, ResponseIsTrue
<1> QED
  BY <1>1, PromptAgrees, PTL
=============================================================================
