# Canals: formal models of order fulfilment

TLA+ models of the Canals order service (a NestJS API and a worker over
PostgreSQL, pg-boss queues, a payment provider and a geocoder), the TLC runs that
check them on small instances, and TLAPS proofs of what matters most for
instances of any size. Every action is translated from the code; the lines are in
`PROJECT.json` under `map`.

## 1. The system

| Component | State | Operations | Works with |
|---|---|---|---|
| Stock ledger (`inventory.service.ts`) | balances, append-only movements | reserve, release, commit, each inside the caller's transaction | allocation, settlement |
| Allocation (`allocate-inventory.use-case.ts`, `select-warehouse.sql`) | a candidate list in memory | read candidates once, try them one transaction each | ledger |
| Order state machine (`domain/entities`) | order status | markPaid, confirm, markPaymentFailed, cancel | settlement |
| Settlement (`order-settlement.service.ts`) | orders, payments, outbox rows | confirmCaptured, failDeclined, cancelUnpaid; the row lock decides who is first | saga, both jobs |
| Saga (`create-order.use-case.ts`) | where a request is, in memory only | resolve, reserve, insert payment, charge, save outcome, settle | all of the above, provider |
| Idempotency key (`create-order-idempotent.service.ts`) | one row per key | insert, look up, replay, complete | saga, clients |
| Reaper and reconciliation (`application/jobs`) | a batch in memory | select, ask the provider, settle | settlement, provider |
| Gateway, retry, breaker (`infrastructure/payments`, `infrastructure/http`) | breaker state, attempts | charge, getStatus | provider |
| Payments mock (`payments-mock`) | one record per key, charges in flight | charge, look up | gateway |
| Queues, shipments, notifications (`infrastructure/messaging`, `application/jobs`) | pg-boss jobs, shipments | publish, fetch, handle, retry, dead-letter | settlement |
| Geocoding (`infrastructure/geocoding`) | a bounded cache, a breaker | geocode | saga |
| Read side (`list-orders`, `get-order`) | none; a cursor at the client | page, read one | API |
| Seed and start order (`seed.ts`, `docker-compose.yml`) | catalogue rows | insert if missing, start services | ledger |

What is hard here: no transaction spans the charge, so a request, two jobs and the
provider act on one order concurrently; answers are read in one step and used in a
later one; processes die anywhere; an attempt that timed out may still arrive; two
clients use one key at once; a breaker receives results of calls that belong to an
earlier state of it; a job's work and its report are two steps; pages are read while
the key they are sorted by is rewritten. `PROJECT.json` lists each hazard at its line
with the properties that would notice it.

What makes the components correct, in short: stock is never oversold, lost or
invented and the ledger replays to the balances; the status of an order, its stock,
its payment and its events agree; the first settlement wins; goods are sold only
against money and money taken becomes goods sold and shipped, once; no reservation is
held for ever; a key creates one order and gives every client the same answer; a
breaker sends one probe at a time and never gets stuck; transactions never wait in a
circle; a walk over the pages lists each order once.

## 2. The modules

Stock and orders. Settlement extends Inventory, OrderSaga extends Settlement, and
each is shown to refine the one it extends.

**Inventory** — `available`, `reserved` (table `inventory`), `movements` (in id
order, by product) and `warehouseOf`. `Reserve`, `Release` and `Commit` are the three
methods as whole transactions. `Post` is the pair updateInventoryBalances and
insertMovement, `OpenLines` the latest-movement rule that makes release and commit
idempotent. `InventorySpec` lets anyone call anything at any time: the abstract
contract of the ledger.

**InventoryLocks** — the same operations lock by lock: the order row, then the
inventory rows in product order, each read when it is locked (`LockRow`), written
from what was read (`CommitReserve`, `CommitSettle`), or rolled back by
`lock_timeout`, an error or a missing unit (`Rollback`). Writes become visible when
the transaction ends. `PROPERTY InventorySpec` says that this implements Inventory,
which is what allows the other modules to use whole transactions.

**Settlement** — adds `status`, `payment` and `outbox`. One action per
transaction: `PlaceOrder` (order row and reservation), `InsertPayment`,
`SavePayment` (which overwrites whatever the row holds), and the three
settlements, which lock the order row and do nothing when it is not
`PENDING_PAYMENT` (`AlreadySettled`). Who calls them and when is open.

**OrderSaga** — the callers: one saga per order as a program counter over the
awaits of the code, reapers and reconcilers with the batch they selected and the
answer they hold, the provider's record, requests in transit, and two clocks
(reservation expiry, reconciliation grace) as prefixes of the orders by time.
`SagaFails` is any database error or lock timeout, `Crash` and `WorkerCrashes` lose
what was in memory, `RequestLost` and a second copy in `ProviderReceives` are the
network. `SKIP LOCKED` may leave out any order another actor may hold locked.
The constant `Prompt` states an assumption of the design: a saga (about 13 s at
worst) has ended when its reservation (15 min) or the grace period (2 min) ends, and
its last request has when the reservation does. With `Prompt = FALSE` nothing bounds
how long anyone is paused.

**ReaperBatch** — the reaper's loop in the detail that its progress depends on:
batches of the oldest `BatchSize` overdue rows, the lock of the row being settled,
rows that fail alone, workers that crash, orders whose charge stays UNKNOWN (`stuck`,
chosen by `Init`) and the alert for them. An order is in reach (`InReach`) while fewer
stuck orders than a batch has places are older than it.

The provider.

**CircuitBreaker** — `LetThrough` and `Reject` are `execute` up to its await,
`OnSuccess` and `OnFailure` what the end of a call does to a breaker that may
have changed since. Time is relative: ticks since the breaker opened and the age of
each call, which `AbortSignal.timeout` bounds (`Timeout < OpenFor`: 2 s, 30 s).

**PaymentsMock** — `payments-mock` as its handlers run up to and after their awaits:
replay of a record, the map of charges in flight that later requests await, the
cards 0002, 0003 and 0004, the lookup, the refusal by schema.

**PaymentGateway** — `HttpPaymentGateway`: calls of up to `MaxAttempts` attempts
through one breaker (it extends CircuitBreaker) to `PaymentsMock`, over a network that refuses, loses
and delays; an attempt that timed out may still arrive and be charged.
`mapChargeResponse` and `mapStatusResponse` turn each response into a result.

**PaymentContract** — the port `payment-gateway.ts` without attempts, timeouts,
breaker or HTTP: the provider decides once per key; a call reports that decision, or
that it knows nothing; a status call reports "no charge" only if there was none when
it began. `PaymentGateway!ContractSpec` is the refinement; OrderSaga uses the
provider as this contract allows.

**Geoapify** — the geocoding driver: searches of up to three attempts through a
breaker (it extends CircuitBreaker), every status classified as the code does.

**Geocoding** — the cache in front of either driver: `buildNormalisedAddress`, the
lookup, the miss that awaits the driver, the store that evicts the first entry when
it pushes the cache past its limit, and the static city table. Geoapify is sent the texts
as they were written, so what it answers is a place for one spelling of an address.

The edges.

**Idempotency** — one row per key and one program counter per request. The insert,
the lookup after a conflict and `markCompleted` are statements of their own. The
saga is two steps, the commit that creates the order and its end. Any statement may
fail, and one that committed may be reported as failed; `lost` remembers the keys
whose completion was. A response body is identified by the request that produced it.

**JobQueue** — publishing in the confirming transaction, workers that boot, fetch one
job per queue, handle it and report, stop or crash; retries, expiry, dead letters as
`queue-setup.ts` configures them; handlers that go on after pg-boss gave up on them
(`LateInsert`); the idempotent insert of the shipment. pg-boss itself is external.

**OrdersRead** — a client walks `GET /orders` page by page (filters, cursor encoding
with microseconds, look-ahead row) and reads `GET /orders/:id`, whose queries run side
by side, while orders are placed, settled (which rewrites `created_at`) and shipped.
`findPage` says which rows `ORDER BY ... LIMIT` returns without saying how.

**Seeding** — `seed.ts`, one autocommitted insert after another, run again by
`docker compose up` and by hand beside the services: `AllocateInventoryUseCase` over
module Inventory. `FindCandidates` reads the eligible warehouses once and without locks
and keeps at most `MaxCandidates`, the nearest ones, whichever these are; `ReserveAt` and
`LoseCandidate` try them one by one, each in a transaction of its own; a request ends
reserved, refused for `NO_CANDIDATES` or `RESERVATION_RACE_LOST`, or with an error.

`MC*` modules give the constants their values. `*Proofs` modules hold the theorems.
Definitions marked "Mutant" next to an action are plausible bugs in that code; each
makes TLC report the property that `PROJECT.json` names for it.

## 3. The runs

| Run | Bounds | States | Shows |
|---|---|---|---|
| locks | 4 transactions of any kind, 2 orders, 2 warehouses, 2 products | 113 468 | waits climb; balances, held stock, movements and lines agree; refinement of Inventory |
| saga | 2 orders for one unit, 1 reaper, 1 reconciler, batches of 1, `Prompt`, fairness | 102 640 | provider, order, payment, stock, events and response agree; every reservation is settled, every approved charge confirmed; refinement of Settlement; a settled order stays as it is |
| stall_cancel | 1 order, 2 reapers, 1 reconciler, no `Prompt` | | violation, see findings |
| reaper_batch | 3 orders of which one, two or all are stuck, 2 workers, batches of 2, 1 crash, fairness | 18 916 | orders in reach are resolved, or reported if stuck |
| geoapify | 3 callers, 3 attempts, threshold 2, window 3, timeout 2, fairness | 117 888 | one probe, which decides; the breaker never sticks; every search ends |
| gateway | any 2 of 2 charges and a lookup under one key, 2 attempts each, fairness | 280 245 | refinement of PaymentContract; every call returns |
| idempotency | 3 requests of one key, 1 of another, every fault | 289 212 | one order per key, replies agree, the record is true, answers are on record |
| jobs | 1 order, 2 queues, 2 workers, 1 retry, 2 stops or crashes, fairness | 73 010 | nothing vanishes, nothing is shipped twice or unconfirmed, confirmed is shipped or dead-lettered |
| orders_read | 3 orders and 1 placed later, pages of 1 and 2, filters by status and time, times within and across a millisecond | 6 031 306 | a walk lists every order once; an order's detail is never contradicted |
| geocoding | 7 requests, 4 places, cache of 2 entries, either driver | 212 422 | the cache is sound; every request is answered for the address it named |
| geocoding_blank_state | the same | | violation, see findings |
| seeding | 2 runs of the script, 2 failures, 2 orders, 3 warehouses, 2 candidates | 126 975 | the seed is invisible to the ledger; refusals are real |

The bounds are small because the conflicts are: two orders compete for the last unit;
four transactions are an order's reservation, its two rival settlements and a neighbour;
a reaper and a reconciler are two jobs on one order. In `saga` only one of the orders
holds the unit at a time. Two orders that are pending at once, a second candidate and
batches of several rows are left to the theorems, which state every safety property of
that run for any number of them, to `seeding` (three eligible warehouses, two of them
tried) and to `reaper_batch`: batches of two have a row that fails before another, three
orders do not fit one batch, and two or three stuck orders fill one. Three requests of a key are an owner, a retry and a changed body. A
breaker needs a probe, a caller turned away and a late call. Two attempts are one
that times out and its retry; two calls are a charge and whoever overlaps it. Two
workers and one retry give a handler given up on, its replacement, and the last
failure. A cache of two entries evicts while four keys are in use. Four orders make
three pages of one with a boundary inside a millisecond. `MaxTime`, `MaxCalls`,
`MaxStops`, `MaxCrashes` and `MaxFailures` bound what could go on for ever.
`CHECK_DEADLOCK FALSE` is set where the modelled work ends: all requests answered,
all jobs without rows, all transactions ended.

Fairness. In `saga`, a request that is not killed goes on, reservations expire,
messages do not stay in transit, cron runs the jobs every minute (weak fairness), a
provider that is asked again and again answers, and a settlement tried again and
again commits (strong fairness: both may fail any finite number of times).
`reaper_batch` assumes the same. In `geoapify` and `gateway` only the caller's own
timers are fair: time passes, the abort signal ends an attempt, the backoff ends (and
in `geoapify` callers keep coming, without whom nobody probes); provider and network
owe nothing. In `jobs`, somebody starts a worker that is down (the compose file sets no
restart policy, so this is the operator), pg-boss polls and expires, and handlers end.
Crashes and failures are never fair.

Finding `stall_cancel`: a saga paused past its TTL between reservation and payment row
is cancelled by the reaper and then charged, while `specs/07-hardening-demo.md`
reserves CANCELLED for charges the provider never saw. Under `Prompt` the property
holds and is proved.

Finding `geocoding_blank_state`: a state of nothing but blanks has the cache key of no
state (`normalisation.ts:100`, `:113`), while the static lookup takes it for a state and
rejects it (`static-geocoding.provider.ts:71`). The same request is answered by
coordinates or by UNKNOWN_ADDRESS, depending on what was asked before, while
`knowledge/geocoding.md:47` says that lookup, jitter and cache key agree on what the same
address means. The run checks `CacheTransparent`, the cache around the static driver never
shows; `AnswersTheAddress` of the run `geocoding` makes an exception of blank states.

Known limits, met while modelling. The modules contain what the code does; no run is
spent on these.

* A key with an expired row is answered 500: the insert conflicts and the lookup finds
  nothing (`create-order-idempotent.service.ts:139`).
* When the acknowledgement of `markCompleted` is lost, the client and its retry are
  told different outcomes (`:222`); hence `\notin lost` in `ReplayAgrees`.
* The failure code of a charge is that of its last attempt only
  (`http-payment-gateway.ts:279`).
* The readiness file survives a crash of the worker (`job-runner.ts:143`).
* `Map.set` on a present key keeps its place, so eviction is not quite by age
  (`caching-geocoding.provider.ts:52`).
* An unreadable body, and a 400, are read as an unknown address
  (`geoapify-geocoding.provider.ts:144`).
* Settling rewrites `created_at` (`order.mapper.ts:66`): an order settled during a walk
  may be missed by it, and `ListedOnce` promises only the others.
* A cursor with a valid date and a bad uuid passes the decoder and fails in the query
  (`cursor.helpers.ts:34`).
* Texts that contain the separator `|` of the cache key are abstracted away.
* A whole batch of orders that stay UNKNOWN starves the younger ones, which are neither
  resolved nor, if they are stuck themselves, reported (`reservation-reaper.handler.ts:84`),
  though `knowledge/messaging-jobs.md:272` says that the reaper resolves every expired
  order but the UNKNOWN ones. `reaper_batch` contains this case; its two properties are
  about the orders in reach.
* A refusal with `RESERVATION_RACE_LOST` may come while a warehouse beyond the limit of
  three, or a unit released meanwhile, could fill the order
  (`allocate-inventory.use-case.ts:86`), or when row locks were not granted in time.
  `RefusalsAreReal` says of it only what holds: a candidate comes to lack goods through
  another order.

## 4. The proofs

TLAPS checks, for all values of the constants that satisfy their assumptions:

* **InventoryProofs** — `InventoryTypes`, `NeverNegative`, `ReservedMatchesHolders`,
  `StockIsConserved`. The inductive invariant says of every line that it is open,
  released or sold, that its reserve movement carries the line's quantity in the
  order's warehouse, and that cardinalities of held and sold units balance. It is
  needed because release and commit take the amount from the ledger, not from the
  order: that a balance stays non-negative rests on what the latest movement says.
  On top of it `LedgerAlwaysReplays`, `LinesEndOnce`, `LinesAlwaysMoveTogether`: the
  last movement of a row carries its balances, and the movements of an order's lines
  have the same types in the same places.
* **InventoryRefinementProofs** — the two modules that implement Inventory.
  `ReadsStayCurrent`, `NoCircularWait`, `LocksImplementInventory`: a row is locked by
  one transaction, the locked rows of a transaction precede those it has yet to lock,
  and what it read of them is what the table holds. So the writes at its end are an
  operation of Inventory, and all theorems about Inventory hold of the locked
  transactions. `SeedNeverShows`, `RefusalsAlwaysReal`: a row that is missing offers no
  stock, an order is served only from rows that are there, the rows a run of the script
  has passed are there, and services run only behind a complete catalogue. So inserting
  a row changes nothing of `Stock`, which counts a missing row as there, and an order that
  finds no candidate finds none in the whole catalogue. For the candidates that are lost,
  `RequestInv` adds that stock which no order has drawn on is as it was seeded, and that
  a candidate had the goods when it was found, so that a shortage is another order's.
* **OrderSagaProofs** — about Settlement first: `SettlementTypes`,
  `SettlementImplementsInventory` (every transaction is a step of the ledger or leaves
  it alone), and from the ledger's invariant `StatusAlwaysMatchesLedger`,
  `AlwaysPublishedOnce`, `FirstSettlementWins`.
  Then about its callers. `SagaImplementsSettlement`: every step of saga, jobs,
  provider and clocks is a settlement transaction or a stutter; it needs that an
  order at a later program counter has its order or payment row. So all theorems
  above hold of the whole system. `AlwaysSettledByProvider` adds that answers held in
  memory are true of the provider's record, which never changes once written.
  `PromptCancelsAreUncharged` assumes `Prompt` and needs that an overdue order's saga
  is over and nothing of it is in transit, so that "no payment row" and "404" stay true.
  `PromptPaymentAgrees` and `PromptResponseIsTrue` assume `Prompt` too. Their invariant
  is order by order: while a saga is under way no job holds the order, so its order and
  payment rows have the shape its program counter gives them; afterwards a job settles
  both rows in one transaction; and what was answered agrees with the rows. Every step
  leaves an order alone, is a step of its saga or settles it for a job, so the
  invariant is proved once per kind of step and not once per action and order.
* **IdempotencyProofs** — `IdempotencyTypes`, `NeverASecondOrder`,
  `ChangedBodyIsRefused`, `AnswersAreOnRecord`, `RecordsAreTrue`, `RepliesAgree`,
  `CompletedForever`, under every fault; the last two speak of keys whose completion
  was acknowledged. The strengthening: the row of a key names the request that inserted
  it, only that request runs the saga, and while it runs the row is open.
* **JobQueueProofs** — `QueueSound`, `HandledIsConfirmed`, `NoJobVanishes`,
  `ShippedOnce`, under crashes, expiries, lost reports and handlers that were given up
  on. The strengthening: a job a worker runs is active and no other worker runs it, a
  handler that says "done" did its work, and an insert left behind by a handler
  belongs to a confirmed order.
* **PaymentGatewayProofs** — `GatewayInvariant`, `GatewayImplementsContract`,
  `BreakerGuarantees`. The invariant joins adapter and provider: at the provider is
  only what a call sent; a key is charged by the one request its `pending` names; card
  0004 is recorded while it is charged and an ordinary card is not; a call that began
  with the key recorded finds it recorded; and an answer is true of the records when it
  is given and, since records only grow, when it is read. So every way a call can end
  is a step of PaymentContract: a retry after a lost answer meets the charge it made,
  another body is refused with 422 and reported UNKNOWN, and 404 is reported only by a
  call that began with nothing recorded.
  Of the breaker alone, for any number of calls: `BreakerTypes`, `AlwaysOneProbe`,
  `OnlyTheProbeDecides`, `AlwaysBelowThreshold`. The strengthening: a call in flight while
  the breaker is open is at least as old as the window, so none is left when the window
  ends. `BreakerGuarantees`, `SearchGuarantees`: every step of the payment adapter, and of
  the geocoding driver Geoapify, is a step of its breaker or leaves it alone, so all of
  this holds of the breakers inside them.
* **OrdersReadProofs** — `TablesSound`, `AnswerStaysTrue`, `WalkListsOnce`, for every
  page size, filter and number of orders. `AnswerStaysTrue` needs that what was read of
  an order's end is so now, and that only confirmed orders ship. `WalkListsOnce` needs
  that a row's time only rises, to the Date of now; that no listed order is below the
  cursor; and that an order that matched at first and was left alone is listed or below
  it. Settling moves an order up, past where the walk has been, or leaves it at its
  place, so none is listed twice; the cursor is the exact position of the last row kept,
  so none is stepped over.
* **GeocodingProofs** — `CacheAlwaysSound`, `AnsweredForTheAddress`, for every limit,
  number of requests, table of cities and set of spellings. The strengthening: every entry
  is what the driver answered to some request with that key. With it goes the lemma
  `KeyDeterminesLookup`: the static lookup has one answer for two spellings of one key,
  because both normalise the same way, unless one of them has a blank state.

The assumptions on the constants are in the modules that declare them and are
evaluated by TLC in the runs: limits and thresholds are natural numbers, an attempt times out
before the breaker's window ends (2 s and 30 s in the code), the lists of the seed name
every warehouse, every product and every pair with stock, state codes are what the table
of names maps to, and `None` is none of the values it stands beside.

Every safety invariant and every action property of the passing runs is stated by a theorem,
and every refinement the runs check is proved. Only the liveness properties are left to
TLC; they need fairness and with it ENABLED, outside the prover's reach: `EventuallySettled`, `ChargedIsConfirmed`,
`KeepsProbing`, `EverySearchEnds`, `EveryCallReturns`, `ConfirmedIsShipped`,
`EveryExpiredIsResolved`, `StuckIsAlerted`; hence nothing of ReaperBatch is proved.

## 5. Not modelled

* Logging, tracing and redaction: pure functions over log and span objects, without
  state that outlives a call.
* Configuration, module wiring, health checks, the readiness file, validation of
  request bodies and of the idempotency header (400, no state), problem-detail wording.
* Prices, order numbers, card data, coordinates and distances: data no property
  depends on (`Nearness` is the order of the warehouses by distance; PostGIS is
  external). Carriers and tracking numbers are reduced to the attempt that drew them.
* The migrations as DDL: the constraints the code relies on are guards of the actions
  that meet them; column types and indexes are storage. `verify-schema.ts` compares
  the two by reading the catalogue.
* The demo and concurrency scripts: they drive the system from outside and assert what
  the modules state as invariants.
* A restart of the payments mock, which forgets its records (the repository accepts it
  for a mock), and well-formed cursors the service did not make.

## 6. Plan

1. Done: the modules of section 2, the runs of section 3, the proofs of section 4.
2. Left: **OrderContract** — an abstract order (goods, money, answer) that the composition
   of Idempotency and OrderSaga implements under `Prompt`.
