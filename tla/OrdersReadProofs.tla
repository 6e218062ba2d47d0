---------------------------- MODULE OrdersReadProofs ----------------------------
(***************************************************************************)
(* Theorems about module OrdersRead, for any number of orders, any query,  *)
(* any page size and any resolution of a Date: a walk lists no order twice *)
(* and misses none that was left alone, and the answer about one order     *)
(* stays true.                                                             *)
(***************************************************************************)
EXTENDS OrdersRead, TLAPS

(***************************************************************************)
(* The tables                                                              *)
(***************************************************************************)

Rows == [created : Nat, status : Statuses]

TableTypeOK ==
    /\ now \in Nat /\ now >= Milli
    /\ row \in [Orders -> {None} \cup Rows]
    /\ shipped \subseteq Orders
    /\ query \in Queries

\* No order was created after the Date of now.
CreatedBefore == \A o \in Orders : row[o] # None => row[o].created <= DateOf(now)

TableInv == TableTypeOK /\ CreatedBefore

\* A Date is a time not after the moment it is taken.
LEMMA DateType == ASSUME NEW t \in Nat PROVE DateOf(t) \in Nat
BY TimeAssumption DEF DateOf

LEMMA DateGrows == ASSUME NEW t \in Nat PROVE DateOf(t) <= DateOf(t + 1)
BY TimeAssumption DEF DateOf

LEMMA FirstDate == DateOf(Milli) = Milli
BY TimeAssumption DEF DateOf

LEMMA TableInit == Init => TableInv
<1> SUFFICES ASSUME Init
             PROVE  TableInv
  OBVIOUS
<1>1. \A n \in 0..Milli : n \in Nat
  BY TimeAssumption
<1>2. row \in [Orders -> {None} \cup [created : 0..Milli, status : {Pending, "CONFIRMED"}]]
  BY DEF Init
<1>3. \A o \in Orders : row[o] # None =>
          row[o] \in [created : 0..Milli, status : {Pending, "CONFIRMED"}]
  BY <1>2
<1>4. [created : 0..Milli, status : {Pending, "CONFIRMED"}] \subseteq Rows
  BY <1>1 DEF Rows, Statuses
<1>5. row \in [Orders -> {None} \cup Rows]
  BY <1>2, <1>3, <1>4
<1>6. CreatedBefore
  BY <1>3, FirstDate, TimeAssumption DEF CreatedBefore, Init
<1> QED
  BY <1>5, <1>6, TimeAssumption DEF Init, TableInv, TableTypeOK

\* What a step may do to the orders: an order moves only up, to the Date of
\* now, when it is placed or settled.
Moved(o) == row'[o] # row[o]

RowsOnlyRise ==
    \A o \in Orders : Moved(o) =>
        /\ row'[o] \in Rows /\ row'[o].created = DateOf(now)
        /\ row[o] # None => row[o].status = Pending /\ row[o].created <= row'[o].created
        /\ row[o] = None \/ walk = "idle" \/ o \in settled'

\* A step that writes the row of one order.
LEMMA OneRowRises ==
    ASSUME TableInv, NEW o \in Orders, NEW status \in Statuses,
           row[o] = None \/ row[o].status = Pending,
           row[o] = None \/ walk = "idle" \/ o \in settled',
           row' = [row EXCEPT ![o] = [created |-> DateOf(now), status |-> status]],
           UNCHANGED <<now, shipped, query>>
    PROVE  TableInv' /\ RowsOnlyRise
<1> DEFINE new == [created |-> DateOf(now), status |-> status]
<1>1. DateOf(now) \in Nat
  BY DateType DEF TableInv, TableTypeOK
<1>2. new \in Rows
  BY <1>1 DEF Rows
<1>3. row \in [Orders -> {None} \cup Rows] /\ CreatedBefore
  BY DEF TableInv, TableTypeOK
<1> HIDE DEF new
<1>4. row'[o] = new /\ \A x \in Orders : x # o => row'[x] = row[x]
  BY <1>3 DEF new
<1>5. row' \in [Orders -> {None} \cup Rows]
  BY <1>2, <1>3 DEF new
<1>6. new.created = DateOf(now)
  BY DEF new
<1>7. DateOf(now)' = DateOf(now)
  BY DEF DateOf
<1>8. CreatedBefore'
  BY <1>1, <1>3, <1>4, <1>6, <1>7 DEF CreatedBefore
<1>9. RowsOnlyRise
  BY <1>2, <1>3, <1>4, <1>6 DEF RowsOnlyRise, Moved, CreatedBefore
<1> QED
  BY <1>5, <1>8, <1>9 DEF TableInv, TableTypeOK

LEMMA TableNext ==
    ASSUME TableInv, [Next]_vars
    PROVE  TableInv' /\ RowsOnlyRise
<1>0. row \in [Orders -> {None} \cup Rows] /\ now \in Nat /\ now >= Milli
      /\ shipped \subseteq Orders /\ query \in Queries /\ CreatedBefore
  BY DEF TableInv, TableTypeOK
<1>1. ASSUME NEW o \in Orders, Place(o)
      PROVE  TableInv' /\ RowsOnlyRise
  BY <1>1, OneRowRises DEF Place, walkVars, readerVars, Statuses
<1>2. ASSUME NEW o \in Orders, NEW s \in Outcomes, Settle(o, s)
      PROVE  TableInv' /\ RowsOnlyRise
  <2>1. s \in Statuses
    BY OutcomesAssumption DEF Statuses
  <2>2. walk = "idle" \/ o \in settled'
    BY <1>2 DEF Settle
  <2> QED
    BY <1>2, <2>1, <2>2, OneRowRises DEF Settle, readerVars
<1>3. ASSUME NEW o \in Orders, Ship(o)
      PROVE  TableInv' /\ RowsOnlyRise
  BY <1>3, <1>0 DEF Ship, walkVars, readerVars, TableInv, TableTypeOK, CreatedBefore,
                    DateOf, RowsOnlyRise, Moved
<1>4. CASE Tick
  <2>1. now' = now + 1 /\ UNCHANGED <<row, shipped, query>>
    BY <1>4 DEF Tick, walkVars, readerVars
  <2>2. DateOf(now) <= DateOf(now + 1) /\ DateOf(now) \in Nat /\ DateOf(now + 1) \in Nat
    BY <1>0, DateGrows, DateType
  <2>3. DateOf(now)' = DateOf(now + 1)
    BY <2>1 DEF DateOf
  <2>4. CreatedBefore'
    <3>1. ASSUME NEW o \in Orders, row'[o] # None
          PROVE  row'[o].created <= DateOf(now)'
      <4>1. row[o] \in Rows /\ row[o].created <= DateOf(now)
        BY <1>0, <2>1, <3>1 DEF CreatedBefore
      <4>2. row[o].created \in Nat
        BY <4>1 DEF Rows
      <4> QED
        BY <2>1, <2>2, <2>3, <4>1, <4>2
    <3> QED
      BY <3>1 DEF CreatedBefore
  <2>5. now' \in Nat /\ now' >= Milli
    BY <1>0, <2>1, TimeAssumption
  <2> QED
    BY <1>0, <2>1, <2>4, <2>5 DEF TableInv, TableTypeOK, RowsOnlyRise, Moved
<1>5. CASE UNCHANGED <<tableVars, readerVars>>
  BY <1>5, <1>0 DEF tableVars, readerVars, TableInv, TableTypeOK, CreatedBefore,
                    DateOf, RowsOnlyRise, Moved
<1>6. ASSUME \/ Begin \/ FindPage \/ FindItems
             \/ \E flaw \in Malformed : SendMalformed(flaw)
             \/ \E o \in Orders : GetOrder(o)
             \/ \E part \in Parts : ReadPart(part)
             \/ UNCHANGED vars
      PROVE  UNCHANGED <<tableVars, readerVars>>
  BY <1>6 DEF Begin, FindPage, FindItems, SendMalformed, GetOrder, ReadPart, vars, walkVars
<1> QED
  BY <1>1, <1>2, <1>3, <1>4, <1>5, <1>6 DEF Next

\* The clock is never behind an order, and every table keeps its type.
THEOREM TablesSound == Spec => []TableInv
BY TableInit, TableNext, PTL DEF Spec

(***************************************************************************)
(* The inductive invariant of a walk: the orders listed or about to be are *)
(* not below the cursor, where the next page begins, and an order that is  *)
(* left alone is either among them or below it.                            *)
(***************************************************************************)

WalkTypeOK ==
    /\ walk \in {"idle", "rows", "items", "done", "400", "500"}
    /\ cursor \in (Nat \X Nat) \cup {None}
    /\ page \in Seq(Orders) /\ listed \in Seq(Orders)
    /\ present \subseteq Orders

Stages ==
    /\ walk # "items" => page = <<>>
    /\ walk = "idle" => cursor = None /\ present = {}
    /\ walk \in {"idle", "rows"} /\ cursor = None => listed = <<>>

Shown == ToSet(listed) \cup ToSet(page)

OnceEach ==
    /\ \A i, j \in DOMAIN listed : listed[i] = listed[j] => i = j
    /\ \A i, j \in DOMAIN page : page[i] = page[j] => i = j
    /\ \A i \in DOMAIN listed, j \in DOMAIN page : listed[i] # page[j]

NotBelow ==
    \A o \in Shown : row[o] # None /\ (cursor # None => ~Below(Position(o), cursor))

\* There is a page to come, and o is where it may be found.
ToCome(o) == (walk = "rows" \/ (walk = "items" /\ cursor # None)) /\ AfterCursor(o)

NoneMissed ==
    walk \in {"rows", "items", "done"} =>
        \A o \in present \ settled : o \in Matching /\ (o \in Shown \/ ToCome(o))

WalkInv == WalkTypeOK /\ Stages /\ OnceEach /\ NotBelow /\ NoneMissed

\* A shipment is of a confirmed order; what GET /orders/:id has read of the
\* order's end and of its shipment is so now.
DetailTypeOK ==
    detail \in [of : {None}] \cup
               [of : Orders, status : Statuses \cup {None, Unread},
                shipment : {None, Unread, "shipped"}]

ShippedConfirmed == \A o \in shipped : row[o] # None /\ row[o].status = "CONFIRMED"

ReadIsTrue ==
    detail.of # None =>
        /\ detail.status \in Statuses =>
               /\ row[detail.of] # None
               /\ detail.status # Pending => row[detail.of].status = detail.status
        /\ detail.shipment = "shipped" => detail.of \in shipped

DetailInv == DetailTypeOK /\ ShippedConfirmed /\ ReadIsTrue

(***************************************************************************)
(* GET /orders/:id                                                         *)
(***************************************************************************)

LEMMA DetailInit == Init => DetailInv
BY DEF Init, DetailInv, DetailTypeOK, ShippedConfirmed, ReadIsTrue

\* What is done to the tables never makes untrue what was read.
LEMMA DetailKept ==
    ASSUME TableInv, DetailInv, RowsOnlyRise, shipped \subseteq shipped',
           \A o \in shipped' \ shipped : row[o] # None /\ row[o].status = "CONFIRMED",
           shipped' \subseteq Orders, UNCHANGED detail
    PROVE  DetailInv'
<1>0. DetailTypeOK /\ ShippedConfirmed /\ ReadIsTrue
  BY DEF DetailInv
<1>1. \A o \in Orders : row[o] # None => row'[o] # None
  BY NoneAssumption DEF RowsOnlyRise, Moved, Rows
<1>2. \A o \in Orders : row[o] # None /\ row[o].status # Pending => row'[o] = row[o]
  BY DEF RowsOnlyRise, Moved
<1>3. ShippedConfirmed'
  <2>1. \A o \in shipped' : o \in Orders /\ row[o] # None /\ row[o].status = "CONFIRMED"
    BY <1>0 DEF ShippedConfirmed
  <2> QED
    BY <1>2, <2>1 DEF ShippedConfirmed, Pending
<1>4. ReadIsTrue'
  <2>1. detail.of # None => detail.of \in Orders
    BY <1>0 DEF DetailTypeOK
  <2> QED
    BY <1>0, <1>1, <1>2, <2>1 DEF ReadIsTrue
<1> QED
  BY <1>0, <1>3, <1>4 DEF DetailInv, DetailTypeOK

\* One of the queries returns.
LEMMA ReadPartKeeps ==
    ASSUME TableInv, DetailInv, NEW part \in Parts, ReadPart(part)
    PROVE  DetailInv'
<1>0. /\ DetailTypeOK /\ ShippedConfirmed /\ ReadIsTrue
      /\ row \in [Orders -> {None} \cup Rows]
      /\ UNCHANGED <<row, shipped>>
  BY DEF DetailInv, TableInv, TableTypeOK, ReadPart, tableVars
<1> DEFINE o == detail.of
<1>1. /\ o \in Orders
      /\ detail \in [of : Orders, status : Statuses \cup {None, Unread},
                     shipment : {None, Unread, "shipped"}]
  BY <1>0 DEF ReadPart, DetailTypeOK
<1>2. CASE part = "status"
  <2>1. detail' = [detail EXCEPT !.status = IF row[o] = None THEN None ELSE row[o].status]
    BY <1>2 DEF ReadPart
  <2>2. row[o] # None => row[o].status \in Statuses
    BY <1>0, <1>1 DEF Rows
  <2>3. DetailTypeOK'
    BY <1>1, <2>1, <2>2 DEF DetailTypeOK
  <2>4. detail'.of = o /\ detail'.shipment = detail.shipment
        /\ detail'.status = IF row[o] = None THEN None ELSE row[o].status
    BY <1>1, <2>1
  <2>5. ReadIsTrue'
    BY <1>0, <1>1, <2>4, NoneAssumption DEF ReadIsTrue
  <2> QED
    BY <1>0, <2>3, <2>5 DEF DetailInv, ShippedConfirmed
<1>3. CASE part = "shipment"
  <2>1. detail' = [detail EXCEPT !.shipment = IF o \in shipped THEN "shipped" ELSE None]
    BY <1>3 DEF ReadPart
  <2>2. DetailTypeOK'
    BY <1>1, <2>1 DEF DetailTypeOK
  <2>3. detail'.of = o /\ detail'.status = detail.status
        /\ detail'.shipment = IF o \in shipped THEN "shipped" ELSE None
    BY <1>1, <2>1
  <2>4. ReadIsTrue'
    BY <1>0, <1>1, <2>3, NoneAssumption DEF ReadIsTrue
  <2> QED
    BY <1>0, <2>2, <2>4 DEF DetailInv, ShippedConfirmed
<1> QED
  BY <1>2, <1>3 DEF Parts

LEMMA DetailNext ==
    ASSUME TableInv, DetailInv, [Next]_vars
    PROVE  DetailInv'
<1>0. RowsOnlyRise /\ shipped \subseteq Orders /\ shipped' \subseteq Orders
  BY TableNext DEF TableInv, TableTypeOK
<1>1. ASSUME NEW o \in Orders, Ship(o)
      PROVE  DetailInv'
  BY <1>0, <1>1, DetailKept DEF Ship
<1>2. ASSUME UNCHANGED <<shipped, detail>>
      PROVE  DetailInv'
  BY <1>0, <1>2, DetailKept
<1>3. ASSUME \/ \E o \in Orders : Place(o) \/ \E s \in Outcomes : Settle(o, s)
             \/ Tick \/ Begin \/ FindPage \/ FindItems
             \/ \E flaw \in Malformed : SendMalformed(flaw)
             \/ UNCHANGED vars
      PROVE  UNCHANGED <<shipped, detail>>
  BY <1>3 DEF Place, Settle, Tick, Begin, FindPage, FindItems, SendMalformed,
              vars, tableVars
<1>4. ASSUME NEW o \in Orders, GetOrder(o)
      PROVE  DetailInv'
  <2>1. /\ detail' = [of |-> o, status |-> Unread, shipment |-> Unread]
        /\ UNCHANGED <<row, shipped>>
    BY <1>4 DEF GetOrder, tableVars
  <2>2. DetailTypeOK' /\ ReadIsTrue'
    BY <2>1 DEF DetailTypeOK, ReadIsTrue, Unread, Statuses, Pending
  <2> QED
    BY <2>1, <2>2 DEF DetailInv, ShippedConfirmed
<1> QED
  BY <1>1, <1>2, <1>3, <1>4, ReadPartKeeps DEF Next

\* For any number of orders and any order of the queries and the settlements
\* between them: an answer about an order shows no shipment of one that ended
\* unpaid, and no end that the order later leaves.
THEOREM AnswerStaysTrue == Spec => []DetailStaysTrue
<1>1. TableInv /\ DetailInv => DetailStaysTrue
  <2> SUFFICES ASSUME TableInv, DetailInv, detail.of # None,
                      \A part \in Parts : detail[part] # Unread, Answer.code = 200
               PROVE  LET status == row[detail.of].status
                      IN  /\ Answer.shipment = "shipped" => status = "CONFIRMED"
                          /\ Answer.status # Pending => Answer.status = status
    BY DEF DetailStaysTrue
  <2>0. DetailTypeOK /\ ShippedConfirmed /\ ReadIsTrue
    BY DEF DetailInv
  <2>1. detail \in [of : Orders, status : Statuses \cup {None, Unread},
                    shipment : {None, Unread, "shipped"}]
    BY <2>0 DEF DetailTypeOK
  <2>2. detail.status # Unread
    BY <2>1 DEF Parts
  <2>3. detail.status # None /\ Answer.shipment = detail.shipment
        /\ Answer.status = detail.status
    BY DEF Answer
  <2>4. detail.status \in Statuses
    BY <2>1, <2>2, <2>3
  <2> QED
    BY <2>0, <2>3, <2>4 DEF ShippedConfirmed, ReadIsTrue
<1> QED
  BY <1>1, DetailInit, DetailNext, TableInit, TableNext, PTL DEF Spec

(***************************************************************************)
(* GET /orders, page by page                                               *)
(***************************************************************************)

\* (created_at, id) is a total order.
LEMMA BelowTransitive ==
    ASSUME NEW p \in Nat \X Nat, NEW q \in Nat \X Nat, NEW r \in Nat \X Nat,
           Below(p, q), Below(q, r)
    PROVE  Below(p, r)
BY DEF Below

LEMMA BelowAsymmetric ==
    ASSUME NEW p \in Nat \X Nat, NEW q \in Nat \X Nat, Below(p, q)
    PROVE  ~Below(q, p) /\ p # q
BY DEF Below

LEMMA PositionType ==
    ASSUME TableInv, NEW o \in Orders, row[o] # None
    PROVE  Position(o) \in Nat \X Nat
<1>1. row[o] \in Rows
  BY DEF TableInv, TableTypeOK
<1>2. row[o].created \in Nat /\ o \in Nat
  BY <1>1, SeededAssumption DEF Rows
<1> QED
  BY <1>2 DEF Position

LEMMA WalkInit == Init => WalkInv
<1> SUFFICES ASSUME Init
             PROVE  WalkInv
  OBVIOUS
<1>1. walk = "idle" /\ cursor = None /\ page = <<>> /\ listed = <<>> /\ present = {}
  BY DEF Init
<1>2. ToSet(<<>>) = {}
  BY DEF ToSet
<1>3. WalkTypeOK /\ Stages /\ OnceEach
  BY <1>1 DEF WalkTypeOK, Stages, OnceEach
<1> QED
  BY <1>1, <1>2, <1>3 DEF WalkInv, NotBelow, NoneMissed, Shown

\* What is done to the orders between two requests of the walk: an order that
\* rises was not below the cursor before it was, and is not after it.
LEMMA WalkKept ==
    ASSUME TableInv, TableInv', WalkInv, RowsOnlyRise,
           UNCHANGED <<query, walk, cursor, page, listed, present>>,
           settled \subseteq settled'
    PROVE  WalkInv'
<1>0. WalkTypeOK /\ Stages /\ OnceEach /\ NotBelow /\ NoneMissed
  BY DEF WalkInv
<1>1. WalkTypeOK' /\ Stages' /\ OnceEach' /\ Shown' = Shown
  BY <1>0 DEF WalkTypeOK, Stages, OnceEach, Shown
<1>2. Shown \subseteq Orders
  BY <1>0 DEF Shown, WalkTypeOK, ToSet
<1>3. NotBelow'
  <2> SUFFICES ASSUME NEW o \in Shown
               PROVE  row'[o] # None /\ (cursor # None => ~Below(Position(o)', cursor))
    BY <1>1 DEF NotBelow
  <2>1. o \in Orders /\ row[o] # None /\ (cursor # None => ~Below(Position(o), cursor))
    BY <1>0, <1>2 DEF NotBelow
  <2>2. CASE ~Moved(o)
    BY <2>1, <2>2 DEF Moved, Position
  <2>3. CASE Moved(o)
    <3>1. row'[o] \in Rows /\ row[o].created <= row'[o].created
      BY <2>1, <2>3 DEF RowsOnlyRise
    <3>2. row'[o] # None
      BY <3>1, NoneAssumption DEF Rows
    <3>3. row[o] \in Rows
      BY <2>1 DEF TableInv, TableTypeOK
    <3>4. row[o].created \in Nat /\ row'[o].created \in Nat /\ o \in Nat
      BY <3>1, <3>3, <2>1, SeededAssumption DEF Rows
    <3>5. ASSUME cursor # None, Below(Position(o)', cursor)
          PROVE  FALSE
      <4>1. cursor \in Nat \X Nat /\ ~Below(Position(o), cursor)
        BY <1>0, <2>1, <3>5 DEF WalkTypeOK
      <4> QED
        BY <3>1, <3>4, <3>5, <4>1 DEF Below, Position
    <3> QED
      BY <3>2, <3>5
  <2> QED
    BY <2>2, <2>3
<1>4. NoneMissed'
  <2> SUFFICES ASSUME walk \in {"rows", "items", "done"}, NEW o \in present \ settled'
               PROVE  o \in Matching' /\ (o \in Shown \/ ToCome(o)')
    BY <1>1 DEF NoneMissed
  <2>1. o \in present \ settled /\ o \in Matching /\ (o \in Shown \/ ToCome(o))
    BY <1>0 DEF NoneMissed
  <2>2. o \in Orders /\ row[o] # None
    BY <2>1 DEF Matching
  <2>3. row'[o] = row[o]
    BY <2>2 DEF RowsOnlyRise, Moved
  <2> QED
    BY <2>1, <2>2, <2>3 DEF Matching, ToCome, AfterCursor, Position
<1> QED
  BY <1>1, <1>3, <1>4 DEF WalkInv

LEMMA BeginKeeps ==
    ASSUME TableInv, WalkInv, Begin
    PROVE  WalkInv'
<1>0. /\ WalkTypeOK /\ Stages /\ OnceEach /\ NotBelow
      /\ walk = "idle" /\ walk' = "rows" /\ present' = Matching
      /\ UNCHANGED <<row, query, cursor, page, listed>>
  BY DEF WalkInv, Begin, tableVars, readerVars
<1>1. cursor = None /\ page = <<>> /\ listed = <<>>
  BY <1>0 DEF Stages
<1>2. Matching \subseteq Orders /\ Matching' = Matching
  BY <1>0 DEF Matching
<1>3. WalkTypeOK' /\ Stages' /\ OnceEach' /\ Shown' = Shown /\ NotBelow'
  BY <1>0, <1>1, <1>2 DEF WalkTypeOK, Stages, OnceEach, NotBelow, Shown, Position
<1>4. NoneMissed'
  BY <1>0, <1>1, <1>2 DEF NoneMissed, ToCome, AfterCursor
<1> QED
  BY <1>3, <1>4 DEF WalkInv

LEMMA MalformedKeeps ==
    ASSUME WalkInv, NEW flaw \in Malformed, SendMalformed(flaw)
    PROVE  WalkInv'
<1>0. /\ WalkTypeOK /\ Stages /\ OnceEach /\ NotBelow
      /\ walk \in {"idle", "rows"} /\ walk' \in {"400", "500"}
      /\ UNCHANGED <<row, query, cursor, page, listed, present>>
  BY DEF WalkInv, SendMalformed, tableVars, readerVars
<1> QED
  BY <1>0 DEF WalkInv, WalkTypeOK, Stages, OnceEach, NotBelow, Shown, Position, NoneMissed

\* The page is answered.
LEMMA FindItemsKeeps ==
    ASSUME WalkInv, FindItems
    PROVE  WalkInv'
<1>0. /\ WalkTypeOK /\ Stages /\ OnceEach /\ NotBelow /\ NoneMissed
      /\ walk = "items" /\ listed' = listed \o page /\ page' = <<>>
      /\ walk' = IF cursor = None THEN "done" ELSE "rows"
      /\ UNCHANGED <<row, query, cursor, present, settled>>
  BY DEF WalkInv, FindItems, tableVars, readerVars
<1>1. page \in Seq(Orders) /\ listed \in Seq(Orders)
  BY <1>0 DEF WalkTypeOK
<1>2. /\ listed' \in Seq(Orders) /\ Len(listed') = Len(listed) + Len(page)
      /\ \A i \in 1..Len(listed') :
            listed'[i] = IF i <= Len(listed) THEN listed[i] ELSE page[i - Len(listed)]
  BY <1>0, <1>1
<1>3. WalkTypeOK' /\ Stages'
  BY <1>0, <1>2 DEF WalkTypeOK, Stages
<1>4. OnceEach'
  <2> SUFFICES ASSUME NEW i \in DOMAIN listed', NEW j \in DOMAIN listed',
                      listed'[i] = listed'[j]
               PROVE  i = j
    BY <1>0 DEF OnceEach
  <2>1. i \in 1..Len(listed') /\ j \in 1..Len(listed')
    BY <1>2
  <2>2. CASE i <= Len(listed) /\ j <= Len(listed)
    BY <1>0, <1>1, <1>2, <2>1, <2>2 DEF OnceEach
  <2>3. CASE i > Len(listed) /\ j > Len(listed)
    <3>1. i - Len(listed) \in DOMAIN page /\ j - Len(listed) \in DOMAIN page
      BY <1>1, <1>2, <2>1, <2>3
    <3>2. page[i - Len(listed)] = page[j - Len(listed)]
      BY <1>1, <1>2, <2>1, <2>3
    <3>3. i - Len(listed) = j - Len(listed)
      BY <1>0, <3>1, <3>2 DEF OnceEach
    <3> QED
      BY <1>1, <2>1, <3>3
  <2>4. ASSUME NEW a \in DOMAIN listed', NEW b \in DOMAIN listed', listed'[a] = listed'[b],
               a <= Len(listed), b > Len(listed)
        PROVE  FALSE
    <3>1. a \in DOMAIN listed /\ b - Len(listed) \in DOMAIN page
      BY <1>1, <1>2, <2>4
    <3>2. listed[a] = page[b - Len(listed)]
      BY <1>1, <1>2, <2>4
    <3> QED
      BY <1>0, <3>1, <3>2 DEF OnceEach
  <2> QED
    BY <1>1, <2>1, <2>2, <2>3, <2>4
<1>5. Shown' = Shown
  <2>1. ToSet(page') = {}
    BY <1>0 DEF ToSet
  <2>2. ToSet(listed') \subseteq Shown
    BY <1>1, <1>2 DEF Shown, ToSet
  <2>3. ToSet(listed) \subseteq ToSet(listed')
    BY <1>1, <1>2 DEF ToSet
  <2>4. ASSUME NEW k \in DOMAIN page
        PROVE  page[k] \in ToSet(listed')
    <3>1. k + Len(listed) \in 1..Len(listed') /\ listed'[k + Len(listed)] = page[k]
      BY <1>1, <1>2
    <3> QED
      BY <1>2, <3>1 DEF ToSet
  <2>5. ToSet(page) \subseteq ToSet(listed')
    BY <2>4 DEF ToSet
  <2> QED
    BY <2>1, <2>2, <2>3, <2>5 DEF Shown
<1>6. NotBelow'
  BY <1>0, <1>5 DEF NotBelow, Position
<1>7. NoneMissed'
  BY <1>0, <1>5 DEF NoneMissed, Matching, ToCome, AfterCursor, Position
<1> QED
  BY <1>3, <1>4, <1>6, <1>7 DEF WalkInv

\* The next page: its orders are new to the walk, because they are below the
\* cursor; the new cursor is the last of them, and what it leaves out is below.
LEMMA FindPageKeeps ==
    ASSUME TableInv, WalkInv, FindPage
    PROVE  WalkInv'
<1>0. /\ WalkTypeOK /\ Stages /\ OnceEach /\ NotBelow /\ NoneMissed
      /\ walk = "rows" /\ walk' = "items"
      /\ UNCHANGED <<row, query, listed, present, settled>>
  BY DEF WalkInv, FindPage, tableVars, readerVars
<1> DEFINE n == query.pageSize
<1>1. n \in Nat \ {0}
  BY QueriesAssumption DEF TableInv, TableTypeOK
<1>2. PICK rows \in BoundedSeq(Found, n + 1) :
          LET hasMore == Len(rows) > n
              kept == IF hasMore THEN SubSeq(rows, 1, n) ELSE rows
          IN  /\ findPage(rows)
              /\ page' = kept
              /\ cursor' = IF hasMore THEN CursorOf(Last(kept)) ELSE None
  BY DEF FindPage
<1>3. rows \in Seq(Found) /\ Len(rows) <= n + 1
  <2>1. PICK m \in 0..(n + 1) : rows \in [1..m -> Found]
    BY <1>2 DEF BoundedSeq, SeqOf
  <2>2. m \in Nat /\ m <= n + 1
    BY <1>1, <2>1
  <2>3. rows \in Seq(Found) /\ Len(rows) = m
    BY <2>1, <2>2
  <2> QED
    BY <2>2, <2>3
<1>4. Found \subseteq Orders /\ \A o \in Found : row[o] # None /\ o \in Matching /\ AfterCursor(o)
  BY DEF Found, Matching
<1>5. \A o \in Orders : row[o] # None => Position(o) \in Nat \X Nat
  BY PositionType
<1>6. \A i, j \in 1..Len(rows) : i < j => Below(Position(rows[j]), Position(rows[i]))
  BY <1>2, <1>3 DEF findPage
<1>7. /\ page' \in Seq(Found) /\ Len(page') <= Len(rows)
      /\ \A i \in 1..Len(page') : page'[i] = rows[i]
      /\ Len(rows) > n => Len(page') = n
      /\ ~(Len(rows) > n) => page' = rows
  <2>1. CASE Len(rows) > n
    <3>1. page' = SubSeq(rows, 1, n)
      BY <1>2, <2>1
    <3> QED
      BY <1>1, <1>3, <2>1, <3>1
  <2>2. CASE ~(Len(rows) > n)
    <3>1. page' = rows
      BY <1>2, <2>2
    <3> QED
      BY <1>3, <2>2, <3>1
  <2> QED
    BY <2>1, <2>2
<1>8. cursor' = IF Len(rows) > n THEN Position(rows[n]) ELSE None
  <2>1. CASE Len(rows) > n
    <3>1. cursor' = Position(Last(page'))
      BY <1>2, <2>1 DEF CursorOf
    <3>2. Last(page') = rows[n]
      BY <1>1, <1>7, <2>1 DEF Last
    <3> QED
      BY <2>1, <3>1, <3>2
  <2> QED
    BY <1>2, <2>1
<1>9. Len(rows) > n => /\ Position(rows[n]) \in Nat \X Nat /\ cursor' # None
                       /\ rows[n] \in Found
  BY <1>1, <1>3, <1>4, <1>5, <1>8, NoneAssumption
<1>10. \A i \in DOMAIN page' : page'[i] \in Found
  BY <1>7
<1>11. ToSet(page') \subseteq Found
  BY <1>10 DEF ToSet
<1>12. WalkTypeOK' /\ Stages'
  <2>1. page' \in Seq(Orders)
    BY <1>4, <1>7
  <2> QED
    BY <1>0, <1>8, <1>9, <2>1 DEF WalkTypeOK, Stages
\* What is already listed is not below the old cursor, unlike what is found.
<1>13. \A o \in ToSet(listed) : o \notin Found
  <2>1. CASE cursor = None
    BY <1>0, <2>1 DEF Stages, ToSet
  <2>2. CASE cursor # None
    BY <1>0, <1>4, <2>2 DEF NotBelow, Shown, AfterCursor
  <2> QED
    BY <2>1, <2>2
<1>14. OnceEach'
  <2>1. \A i, j \in DOMAIN page' : page'[i] = page'[j] => i = j
    <3> SUFFICES ASSUME NEW i \in 1..Len(page'), NEW j \in 1..Len(page'),
                        page'[i] = page'[j], i < j
                 PROVE  FALSE
      BY <1>7
    <3>1. i \in 1..Len(rows) /\ j \in 1..Len(rows) /\ rows[i] = rows[j]
      BY <1>3, <1>7
    <3>2. Below(Position(rows[j]), Position(rows[i]))
      BY <1>6, <3>1
    <3>3. Position(rows[i]) \in Nat \X Nat
      BY <1>3, <1>4, <1>5, <3>1
    <3> QED
      BY <3>1, <3>2, <3>3, BelowAsymmetric
  <2>2. \A i \in DOMAIN listed, j \in DOMAIN page' : listed[i] # page'[j]
    BY <1>10, <1>13 DEF ToSet
  <2> QED
    BY <1>0, <2>1, <2>2 DEF OnceEach
<1>15. NotBelow'
  <2> SUFFICES ASSUME NEW o \in ToSet(listed) \cup ToSet(page')
               PROVE  row[o] # None /\ (cursor' # None => ~Below(Position(o), cursor'))
    BY <1>0 DEF NotBelow, Shown, Position
  <2>1. o \in Orders /\ row[o] # None
    BY <1>0, <1>4, <1>11 DEF NotBelow, Shown, WalkTypeOK, ToSet
  <2>2. ASSUME cursor' # None
        PROVE  ~Below(Position(o), cursor')
    <3>1. /\ Len(rows) > n /\ cursor' = Position(rows[n])
          /\ cursor' \in Nat \X Nat /\ rows[n] \in Found
      BY <1>8, <1>9, <2>2
    <3>2. CASE o \in ToSet(page')
      <4>1. PICK i \in 1..n : o = rows[i]
        BY <1>7, <3>1, <3>2 DEF ToSet
      <4>2. i \in 1..Len(rows) /\ n \in 1..Len(rows)
        <5>1. Len(rows) \in Nat /\ n \in Nat /\ 1 <= n /\ n < Len(rows)
          BY <1>1, <1>3, <3>1
        <5> HIDE DEF n
        <5> QED
          BY <4>1, <5>1
      <4>3. i = n \/ i < n
        BY <1>1, <4>1
      <4>4. i = n \/ Below(Position(rows[n]), Position(o))
        BY <1>6, <4>1, <4>2, <4>3
      <4>5. Position(o) \in Nat \X Nat
        BY <1>5, <2>1
      <4>6. Position(o) = cursor' \/ Below(cursor', Position(o))
        BY <3>1, <4>1, <4>4
      <4> QED
        BY <3>1, <4>5, <4>6, BelowAsymmetric
    <3>3. CASE o \in ToSet(listed)
      <4>1. cursor # None /\ ~Below(Position(o), cursor) /\ cursor \in Nat \X Nat
        <5>1. DOMAIN listed # {}
          BY <3>3 DEF ToSet
        <5>2. listed # <<>>
          BY <5>1
        <5> QED
          BY <1>0, <3>3, <5>2 DEF Stages, NotBelow, Shown, WalkTypeOK
      <4>2. Below(cursor', cursor)
        BY <1>4, <3>1, <4>1 DEF AfterCursor
      <4> QED
        BY <1>5, <2>1, <3>1, <4>1, <4>2, BelowTransitive
    <3> QED
      BY <3>2, <3>3
  <2> QED
    BY <2>1, <2>2
<1>16. NoneMissed'
  <2> SUFFICES ASSUME NEW o \in present \ settled
               PROVE  o \in Matching /\ (o \in ToSet(listed) \cup ToSet(page') \/ ToCome(o)')
    BY <1>0 DEF NoneMissed, Matching, Shown
  <2>1. o \in Matching /\ (o \in ToSet(listed) \cup ToSet(page) \/ AfterCursor(o))
    BY <1>0 DEF NoneMissed, Shown, ToCome
  <2>2. page = <<>>
    BY <1>0 DEF Stages
  <2>3. o \in ToSet(listed) \/ o \in Found
    BY <2>1, <2>2 DEF Found, ToSet
  <2>4. ASSUME o \in Found, o \notin ToSet(page')
        PROVE  ToCome(o)'
    <3>1. Len(rows) > n /\ Below(Position(o), Position(rows[n]))
      <4>1. CASE o \in ToSet(rows)
        <5>1. PICK i \in 1..Len(rows) : o = rows[i]
          BY <1>3, <4>1 DEF ToSet
        <5>2. i \notin 1..Len(page')
          BY <1>7, <2>4, <5>1 DEF ToSet
        <5>3. Len(rows) > n /\ i > n
          BY <1>1, <1>3, <1>7, <5>1, <5>2
        <5>4. n \in 1..Len(rows) /\ n < i
          BY <1>1, <1>3, <5>3
        <5> QED
          BY <1>6, <5>1, <5>3, <5>4
      <4>2. CASE o \notin ToSet(rows)
        <5>1. Len(rows) = n + 1 /\ \A i \in DOMAIN rows : Below(Position(o), Position(rows[i]))
          BY <1>2, <2>4, <4>2 DEF findPage
        <5>2. n \in DOMAIN rows
          BY <1>1, <1>3, <5>1
        <5> QED
          BY <1>1, <5>1, <5>2
      <4> QED
        BY <4>1, <4>2
    <3>2. cursor' = Position(rows[n]) /\ cursor' # None
      BY <1>8, <1>9, <3>1
    <3>3. Position(o)' = Position(o)
      BY <1>0 DEF Position
    <3> QED
      BY <1>0, <3>1, <3>2, <3>3 DEF ToCome, AfterCursor
  <2> QED
    BY <2>1, <2>3, <2>4
<1> QED
  BY <1>12, <1>14, <1>15, <1>16 DEF WalkInv

LEMMA WalkNext ==
    ASSUME TableInv, WalkInv, [Next]_vars
    PROVE  WalkInv'
<1>0. TableInv' /\ RowsOnlyRise
  BY TableNext
<1>1. ASSUME \/ \E o \in Orders :
                    Place(o) \/ Ship(o) \/ GetOrder(o) \/ \E s \in Outcomes : Settle(o, s)
             \/ Tick \/ \E part \in Parts : ReadPart(part)
             \/ UNCHANGED vars
      PROVE  /\ UNCHANGED <<query, walk, cursor, page, listed, present>>
             /\ settled \subseteq settled'
  BY <1>1 DEF Place, Ship, Settle, Tick, GetOrder, ReadPart, vars, walkVars, readerVars
<1> QED
  BY <1>0, <1>1, WalkKept, BeginKeeps, FindPageKeeps, FindItemsKeeps, MalformedKeeps DEF Next

\* For any number of orders, pages of any size and any filter: a walk lists
\* an order at most once, and at its end every order that matched when it
\* began and was not settled since, whatever happens between its pages.
THEOREM WalkListsOnce == Spec => []ListedOnce
<1>1. WalkInv => ListedOnce
  <2> SUFFICES ASSUME WalkInv
               PROVE  ListedOnce
    OBVIOUS
  <2>1. walk = "done" => page = <<>>
    BY DEF WalkInv, Stages
  <2>2. walk = "done" => Shown = ToSet(listed)
    BY <2>1 DEF Shown, ToSet
  <2>3. walk = "done" => \A o \in present \ settled : o \in ToSet(listed)
    BY <2>2 DEF WalkInv, NoneMissed, ToCome
  <2> QED
    BY <2>3 DEF WalkInv, OnceEach, ListedOnce
<1> QED
  BY <1>1, WalkInit, WalkNext, TableInit, TableNext, PTL DEF Spec
=============================================================================
