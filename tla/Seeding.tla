-------------------------------- MODULE Seeding --------------------------------
(***************************************************************************)
(* The seed script, src/infrastructure/database/seed.ts, and the services  *)
(* that docker-compose.yml starts after it.  The script inserts its rows   *)
(* one autocommitted statement at a time, so it may die between any two;   *)
(* `docker compose up` runs it again, also while the api and the worker    *)
(* are serving, and `npm run seed` may run beside it.                      *)
(*                                                                         *)
(* The services are AllocateInventoryUseCase, which looks for warehouses   *)
(* once and then tries them one by one, over module Inventory: `available` *)
(* is 0 for a row that is not inserted yet, because a missing row offers   *)
(* no stock.                                                               *)
(***************************************************************************)
EXTENDS Inventory, SequencesExt

CONSTANTS
    WarehouseList,  \* the array WAREHOUSES
    ProductList,    \* the array PRODUCTS
    InventoryList,  \* INVENTORY: the warehouse and the product of each entry
    Seeders,        \* processes that run the script
    ComposeSeed,    \* the one of docker-compose.yml, whose exit code counts
    MaxCandidates,  \* LIMIT of select-warehouse.sql
    MaxFailures     \* bound: runs of the script that fail

\* A pair without stock has no entry.
ASSUME ListsAssumption ==
    /\ WarehouseList \in Seq(Warehouses) /\ Range(WarehouseList) = Warehouses
    /\ ProductList \in Seq(Products) /\ Range(ProductList) = Products
    /\ InventoryList \in Seq(Warehouses \X Products)
    /\ Range(InventoryList) =
           {wp \in Warehouses \X Products : InitialStock[wp[1]][wp[2]] > 0}
    /\ ComposeSeed \in Seeders /\ MaxFailures \in Nat
    /\ MaxCandidates \in Nat \ {0}

VARIABLES
    rows,           \* the seeded rows that the database holds
    position,       \* position[s]: the row s inserts next, 0 when s is not running
    exitedOk,       \* the last run of ComposeSeed exited with 0
    serving,        \* api and worker are running
    request,        \* of each order: "idle", "trying", "done", or why it was requestVars
    candidates,     \* the warehouses that a request has yet to try
    failures        \* runs of the script that have failed

requestVars == <<request, candidates>>
seedVars == <<rows, position, exitedOk, serving, requestVars, failures>>
seedingVars == <<inventoryVars, seedVars>>

-----------------------------------------------------------------------------
(* What the script inserts, in its order *)

Customer == <<"customer">>
WarehouseRow(w) == <<"warehouse", w>>
ProductRow(p) == <<"product", p>>
InventoryRow(w, p) == <<"inventory", w, p>>

Script ==
    <<Customer>>
        \o [i \in DOMAIN WarehouseList |-> WarehouseRow(WarehouseList[i])]
        \o [i \in DOMAIN ProductList |-> ProductRow(ProductList[i])]
        \o [i \in DOMAIN InventoryList |->
              InventoryRow(InventoryList[i][1], InventoryList[i][2])]

\* The rows that a foreign key of row r names.
References(r) ==
    IF r[1] = "inventory" THEN {WarehouseRow(r[2]), ProductRow(r[3])} ELSE {}

SeedingInit ==
    /\ available = [w \in Warehouses |-> [p \in Products |-> 0]]
    /\ reserved = [w \in Warehouses |-> [p \in Products |-> 0]]
    /\ movements = [p \in Products |-> <<>>]
    /\ warehouseOf = [o \in Orders |-> NoWarehouse]
    /\ rows = {}
    /\ position = [s \in Seeders |-> 0]
    /\ exitedOk = FALSE
    /\ serving = FALSE
    /\ request = [o \in Orders |-> "idle"]
    /\ candidates = [o \in Orders |-> {}]
    /\ failures = 0

-----------------------------------------------------------------------------
(* The script *)

Running(s) == position[s] > 0

\* `docker compose up` or `npm run seed`: the script starts from the top.
SeedStarts(s) ==
    /\ ~Running(s)
    /\ position' = [position EXCEPT ![s] = 1]
    /\ exitedOk' = (exitedOk /\ s # ComposeSeed)
    /\ UNCHANGED <<inventoryVars, rows, serving, requestVars, failures>>

\* The process exits: with 0 at its end, with 1 when it fails.
Exit(s, ok) ==
    /\ position' = [position EXCEPT ![s] = 0]
    /\ exitedOk' = IF s = ComposeSeed THEN ok ELSE exitedOk

\* The statement that inserts row r, which sets the stock of an inventory row.
Insert(r) ==
    /\ rows' = rows \cup {r}
    /\ available' = IF r[1] = "inventory"
                    THEN [available EXCEPT ![r[2]][r[3]] =
                            InitialStock[r[2]][r[3]]]
                    ELSE available

Proceed(s) == position' = [position EXCEPT ![s] = @ + 1]

AtRow(s) == position[s] \in DOMAIN Script

\* Mutant: ON CONFLICT DO UPDATE, what TypeORM's upsert() does.
InsertRowUpdating(s) ==
    /\ AtRow(s)
    /\ References(Script[position[s]]) \subseteq rows
    /\ Insert(Script[position[s]])
    /\ Proceed(s)
    /\ UNCHANGED <<reserved, movements, warehouseOf, exitedOk, serving,
                   requestVars, failures>>

\* INSERT ... ON CONFLICT DO NOTHING of the next row; without the rows it
\* refers to, its foreign keys would refuse it.
InsertRow(s) ==
    /\ AtRow(s)
    /\ References(Script[position[s]]) \subseteq rows
    /\ IF Script[position[s]] \in rows
       THEN UNCHANGED <<rows, available>>
       ELSE Insert(Script[position[s]])
    /\ Proceed(s)
    /\ UNCHANGED <<reserved, movements, warehouseOf, exitedOk, serving,
                   requestVars, failures>>

SeedExits(s) ==
    /\ position[s] = Len(Script) + 1
    /\ Exit(s, TRUE)
    /\ UNCHANGED <<inventoryVars, rows, serving, requestVars, failures>>

\* A statement or the connection fails, or the container is killed.
SeedFails(s) ==
    /\ Running(s) /\ failures < MaxFailures
    /\ Exit(s, FALSE)
    /\ failures' = failures + 1
    /\ UNCHANGED <<inventoryVars, rows, serving, requestVars>>

-----------------------------------------------------------------------------
(* The services *)

\* Mutant: api and worker depend on `migrate` only.
ServicesStartAfterMigrate ==
    /\ ~serving
    /\ serving' = TRUE
    /\ UNCHANGED <<inventoryVars, rows, position, exitedOk, requestVars, failures>>

\* depends_on: seed: { condition: service_completed_successfully }
ServicesStart ==
    /\ ~serving /\ exitedOk
    /\ serving' = TRUE
    /\ UNCHANGED <<inventoryVars, rows, position, exitedOk, requestVars, failures>>

\* The containers are stopped and forget their requests; the pgdata volume
\* keeps every row.
ServicesStop ==
    /\ serving
    /\ serving' = FALSE
    /\ exitedOk' = FALSE
    /\ request' = [o \in Orders |-> IF request[o] = "trying" THEN "idle" ELSE request[o]]
    /\ candidates' = [o \in Orders |-> {}]
    /\ UNCHANGED <<inventoryVars, rows, position, failures>>

-----------------------------------------------------------------------------
(* An order is placed and settled *)

scriptVars == <<rows, position, exitedOk, serving, failures>>

\* The warehouses that could supply every line of order o.
Eligible(o) == {w \in Warehouses : WarehouseRow(w) \in rows /\ Unmet(o, w) = {}}

\* The customer and the products are known; the nearest eligible warehouses
\* are read, once and without a lock.  Which ones are the nearest is left open.
FindCandidates(o) ==
    /\ serving /\ request[o] = "idle"
    /\ {Customer} \cup {ProductRow(p) : p \in ProductsOf(o)} \subseteq rows
    /\ \E found \in SUBSET Eligible(o) :
          /\ Cardinality(found) <= MaxCandidates
          /\ found # Eligible(o) => Cardinality(found) = MaxCandidates
          /\ candidates' = [candidates EXCEPT ![o] = found]
          /\ request' = [request EXCEPT ![o] =
                            IF found = {} THEN "NO_CANDIDATES" ELSE "trying"]
    /\ UNCHANGED <<inventoryVars, scriptVars>>

Tries(o, w) == serving /\ request[o] = "trying" /\ w \in candidates[o]

ReserveAt(o, w) ==
    /\ Tries(o, w) /\ Reserve(o, w)
    /\ request' = [request EXCEPT ![o] = "done"]
    /\ candidates' = [candidates EXCEPT ![o] = {}]
    /\ UNCHANGED scriptVars

\* InsufficientStockError: the goods are gone by now, or their locks were not
\* granted in time.  The next candidate is tried, if there is one.
LoseCandidate(o, w) ==
    /\ Tries(o, w)
    /\ candidates' = [candidates EXCEPT ![o] = @ \ {w}]
    /\ request' = [request EXCEPT ![o] =
                      IF candidates[o] = {w} THEN "RESERVATION_RACE_LOST" ELSE @]
    /\ UNCHANGED <<inventoryVars, scriptVars>>

\* Any other error ends the request with a 500; the client may ask again.
RequestFails(o) ==
    /\ serving /\ request[o] = "trying"
    /\ request' = [request EXCEPT ![o] = "idle"]
    /\ candidates' = [candidates EXCEPT ![o] = {}]
    /\ UNCHANGED <<inventoryVars, scriptVars>>

\* The order is settled: the saga, or a job of the worker.
Settle(o) ==
    /\ serving
    /\ Release(o) \/ Commit(o)
    /\ UNCHANGED <<requestVars, scriptVars>>

SeedingNext ==
    \/ \E s \in Seeders :
        \/ SeedStarts(s)
        \/ InsertRow(s)
        \/ SeedExits(s)
        \/ SeedFails(s)
    \/ ServicesStart
    \/ ServicesStop
    \/ \E o \in Orders :
        \/ FindCandidates(o)
        \/ \E w \in Warehouses : ReserveAt(o, w) \/ LoseCandidate(o, w)
        \/ RequestFails(o)
        \/ Settle(o)

SeedingSpec == SeedingInit /\ [][SeedingNext]_seedingVars

-----------------------------------------------------------------------------
(* Properties *)

\* The stock as the ledger sees it: what the script has yet to insert counts
\* as there.
Stock == [w \in Warehouses |-> [p \in Products |->
    IF InventoryRow(w, p) \in rows THEN available[w][p]
                                   ELSE InitialStock[w][p]]]

Ledger == INSTANCE Inventory WITH available <- Stock

\* The comment over the constants of seed.ts: running the script is
\* idempotent.  However often it is run, interrupted and run beside the
\* services, to the ledger it is invisible: no run gives back stock that was
\* reserved or sold, or takes any.
SeedIsInvisible == Ledger!InventorySpec

\* docker-compose.yml: a half-loaded seed would resurface as a "query returning
\* 409 for an order that should be fillable".  An order finds no candidate only
\* when no warehouse could fill it from the stock of the whole catalogue, and
\* a candidate comes to lack goods only through another order that reserved
\* those goods there: no refusal is due to a row still to be inserted.
RefusalsAreReal ==
    [][\A o \in Orders, w \in Warehouses :
          /\ request[o] = "idle" /\ request'[o] = "NO_CANDIDATES" =>
                \E p \in ProductsOf(o) : Stock[w][p] < Lines[o][p]
          /\ LoseCandidate(o, w) => \A p \in Unmet(o, w) :
                \E q \in Orders \ {o} : p \in ProductsOf(q) /\ warehouseOf[q] = w]_seedingVars
=============================================================================
