------------------------------- MODULE OrdersRead -------------------------------
(***************************************************************************)
(* The read side: a client walks GET /orders page by page                  *)
(* (ListOrdersService, OrdersReadRepository.findPage) or asks for one      *)
(* order (GetOrderService), while orders are placed, settled and shipped.  *)
(* Every SQL query is one action; nothing holds between two of them.       *)
(*                                                                         *)
(* Times are microseconds, as Postgres keeps them; a JS Date holds only    *)
(* multiples of Milli.  The orders that are there at first were written by *)
(* SQL (a fixture), with any time; an order placed or settled by the       *)
(* program has the Date of that moment as its created_at: settling saves   *)
(* orderToPersistence(order), whose createdAt is new Date().               *)
(*                                                                         *)
(* An order's customer and warehouse never change, so that filtering on    *)
(* them only makes Orders smaller; status and created_at do change.        *)
(***************************************************************************)
EXTENDS Integers, Sequences, FiniteSets, SequencesExt

CONSTANTS
    Orders,         \* order ids, numbered in the order of their uuids
    Seeded,         \* those there at first
    Queries,        \* query parameters: pageSize; status, createdFrom, createdTo, each or None
    Milli,          \* microseconds in a millisecond, scaled down
    MaxTime,        \* bound on the clock
    Outcomes,       \* the statuses an order is settled with
    None

ASSUME OutcomesAssumption == Outcomes \subseteq {"CONFIRMED", "PAYMENT_FAILED", "CANCELLED"}
ASSUME QueriesAssumption == \A q \in Queries : q.pageSize \in Nat \ {0}
ASSUME SeededAssumption == Orders \subseteq Nat /\ Seeded \subseteq Orders
ASSUME TimeAssumption == Milli \in Nat \ {0} /\ MaxTime \in Nat

VARIABLES
    now,        \* the clock
    row,        \* the orders row of each order: created_at and status, or None
    shipped,    \* the orders with a shipments row
    reader,     \* what the client does: it walks the "list" or asks for one "order"
    query,      \* the parameters of its walk
    walk,       \* the client's walk: "idle", "rows", "items", "done", or an HTTP error
    cursor,     \* the position the next page starts below, or None
    page,       \* rows read, their items still to be read
    listed,     \* the orders answered so far, in order
    present,    \* history: the orders that matched when the walk began
    settled,    \* history: the orders settled since
    detail      \* GET /orders/:id: what each query has returned so far

tableVars == <<now, row, shipped>>
readerVars == <<reader, query>>
walkVars == <<readerVars, walk, cursor, page, listed, present, settled>>
vars == <<tableVars, walkVars, detail>>

Pending == "PENDING_PAYMENT"
Unread == "unread"
Parts == {"status", "shipment"}
Statuses == {Pending, "CONFIRMED", "PAYMENT_FAILED", "CANCELLED"}

ASSUME NoneAssumption ==
    /\ None \notin Orders /\ None \notin Statuses \cup {Unread, "shipped"}
    /\ None \notin Nat \X Nat /\ None \notin [created : Nat, status : Statuses]

Init ==
    /\ now = Milli
    /\ row \in [Orders -> {None} \cup [created : 0..Milli, status : {Pending, "CONFIRMED"}]]
    /\ \A o \in Orders : row[o] # None <=> o \in Seeded
    /\ shipped = {}
    /\ reader \in {"list", "order"} /\ query \in Queries
    /\ walk = "idle" /\ cursor = None /\ page = <<>> /\ listed = <<>>
    /\ present = {} /\ settled = {}
    /\ detail = [of |-> None]

-----------------------------------------------------------------------------
(* What happens to orders meanwhile *)

\* new Date() at a moment of the clock.
DateOf(t) == (t \div Milli) * Milli

Place(o) ==
    /\ row[o] = None
    /\ row' = [row EXCEPT ![o] = [created |-> DateOf(now), status |-> Pending]]
    /\ UNCHANGED <<now, shipped, walkVars, detail>>

\* Mutant: settling does not look at the order's status.
SettleAgain(o, status) ==
    /\ row[o] # None
    /\ row' = [row EXCEPT ![o] = [created |-> DateOf(now), status |-> status]]
    /\ settled' = IF walk = "idle" THEN settled ELSE settled \cup {o}
    /\ UNCHANGED <<now, shipped, readerVars, walk, cursor, page, listed, present, detail>>

\* Settlement of a pending order: its status and, through orderToPersistence,
\* its created_at.
Settle(o, status) ==
    /\ row[o] # None /\ row[o].status = Pending
    /\ row' = [row EXCEPT ![o] = [created |-> DateOf(now), status |-> status]]
    /\ settled' = IF walk = "idle" THEN settled ELSE settled \cup {o}
    /\ UNCHANGED <<now, shipped, readerVars, walk, cursor, page, listed, present, detail>>

\* The shipment job of a confirmed order; the list shows no shipments.
Ship(o) ==
    /\ reader = "order"
    /\ row[o] # None /\ row[o].status = "CONFIRMED" /\ o \notin shipped
    /\ shipped' = shipped \cup {o}
    /\ UNCHANGED <<now, row, walkVars, detail>>

Tick ==
    /\ now < MaxTime
    /\ now' = now + 1
    /\ UNCHANGED <<row, shipped, walkVars, detail>>

-----------------------------------------------------------------------------
(* GET /orders *)

Matching ==
    {o \in Orders : /\ row[o] # None
                    /\ query.status # None => row[o].status = query.status
                    /\ query.createdFrom # None => row[o].created >= query.createdFrom
                    /\ query.createdTo # None => row[o].created <= query.createdTo}

\* (created_at, id) as a row value, and its comparison.
Position(o) == <<row[o].created, o>>
Below(p, q) == p[1] < q[1] \/ (p[1] = q[1] /\ p[2] < q[2])

AfterCursor(o) == cursor = None \/ Below(Position(o), cursor)

\* The WHERE clause.
Found == {o \in Matching : AfterCursor(o)}

\* ORDER BY created_at DESC, id DESC LIMIT pageSize + 1: the rows descend, and
\* a row is left out only when there are enough above it.
findPage(rows) ==
    /\ \A i, j \in DOMAIN rows : i < j => Below(Position(rows[j]), Position(rows[i]))
    /\ \A o \in Found \ ToSet(rows) :
          /\ Len(rows) = query.pageSize + 1
          /\ \A i \in DOMAIN rows : Below(Position(o), Position(rows[i]))

\* Mutant: the cursor is built from created_at as a Date.
CursorFromDate(o) == <<DateOf(row[o].created), o>>

\* encodeCursor, decodeCursor: base64 of the microseconds and the id.
CursorOf(o) == Position(o)

\* The first request of a walk carries no cursor, the next ones the last
\* answer's.
Begin ==
    /\ reader = "list" /\ walk = "idle"
    /\ walk' = "rows" /\ present' = Matching
    /\ UNCHANGED <<tableVars, readerVars, cursor, page, listed, settled, detail>>

\* The rows; hasMore from the one too many; the next cursor from the last row
\* that is kept.
FindPage ==
    /\ walk = "rows"
    /\ \E rows \in BoundedSeq(Found, query.pageSize + 1) :
          LET hasMore == Len(rows) > query.pageSize
              kept == IF hasMore THEN SubSeq(rows, 1, query.pageSize) ELSE rows
          IN  /\ findPage(rows)
              /\ page' = kept
              /\ cursor' = IF hasMore THEN CursorOf(Last(kept)) ELSE None
    /\ walk' = "items"
    /\ UNCHANGED <<tableVars, readerVars, listed, present, settled, detail>>

\* The items of the page's orders, then the response; items never change.
FindItems ==
    /\ walk = "items"
    /\ listed' = listed \o page
    /\ page' = <<>>
    /\ walk' = IF cursor = None THEN "done" ELSE "rows"
    /\ UNCHANGED <<tableVars, readerVars, cursor, present, settled, detail>>

\* What the parts of a cursor that this module did not produce may be.
Malformed == {"parts", "time", "id"}

\* decodeCursor looks at the number of parts and at the time; the id meets
\* the ::uuid cast of the query, whose failure is nobody's to map.
SendMalformed(flaw) ==
    /\ reader = "list" /\ walk \in {"idle", "rows"}
    /\ walk' = IF flaw \in {"parts", "time"} THEN "400" ELSE "500"
    /\ UNCHANGED <<tableVars, readerVars, cursor, page, listed, present, settled, detail>>

-----------------------------------------------------------------------------
(* GET /orders/:id: independent queries, in any order *)

GetOrder(o) ==
    /\ reader = "order" /\ detail.of = None
    /\ detail' = [of |-> o, status |-> Unread, shipment |-> Unread]
    /\ UNCHANGED <<tableVars, walkVars>>

ReadPart(part) ==
    LET o == detail.of
    IN  /\ o # None /\ detail[part] = Unread
        /\ detail' = [detail EXCEPT ![part] =
                CASE part = "status" -> IF row[o] = None THEN None ELSE row[o].status
                  [] part = "shipment" -> IF o \in shipped THEN "shipped" ELSE None]
        /\ UNCHANGED <<tableVars, walkVars>>

\* The answer once every query has returned; without an orders row it is 404.
Answer ==
    IF detail.status = None THEN [code |-> 404]
    ELSE [code |-> 200, status |-> detail.status, shipment |-> detail.shipment]

-----------------------------------------------------------------------------
(* The two reads share nothing but the tables, so the client makes one. *)

Next ==
    \/ \E o \in Orders : Place(o) \/ Ship(o) \/ \E s \in Outcomes : Settle(o, s)
    \/ Tick
    \/ Begin \/ FindPage \/ FindItems
    \/ \E flaw \in Malformed : SendMalformed(flaw)
    \/ \E o \in Orders : GetOrder(o)
    \/ \E part \in Parts : ReadPart(part)

Spec == Init /\ [][Next]_vars

-----------------------------------------------------------------------------
(* Properties *)

\* A walk lists an order at most once, whatever is placed or settled between
\* its pages (a settled order only moves to where the walk has been), and a
\* finished one has listed every order that matched when it began and was not
\* settled since, also among equal times and times less than a millisecond
\* apart.
ListedOnce ==
    /\ \A i, j \in DOMAIN listed : listed[i] = listed[j] => i = j
    /\ walk = "done" => present \ settled \subseteq ToSet(listed)

\* The queries of GET /orders/:id run side by side, so an answer may mix an
\* older order row with a newer shipment; it never shows a shipment of an
\* order that ended unpaid, nor an end that the order later leaves.
DetailStaysTrue ==
    (detail.of # None /\ \A part \in Parts : detail[part] # Unread) =>
        LET status == row[detail.of].status
        IN  Answer.code = 200 =>
                /\ Answer.shipment = "shipped" => status = "CONFIRMED"
                /\ Answer.status # Pending => Answer.status = status
=============================================================================
