------------------------------ MODULE PaymentsMock ------------------------------
(***************************************************************************)
(* The provider: ChargeService of payments-mock/src/charge.service.ts with *)
(* the routes of server.ts.  Node runs a handler without a break up to its *)
(* first await, so a request that needs no delay is one action (Receive)   *)
(* and one that is delayed is two (Receive, Finish).  A request for a key  *)
(* that is being charged awaits the promise of the request charging it.    *)
(*                                                                         *)
(* A body is what computeRequestHash digests; the last four digits of its  *)
(* card, and whether the route's schema accepts it, decide what the        *)
(* provider does with it.  A charge is named by the request that made it.  *)
(***************************************************************************)
EXTENDS Integers

CONSTANTS
    Requests,   \* HTTP requests, POST /charge and GET /charge/:idempotencyKey
    Keys,       \* idempotency keys
    MethodOf,   \* "POST" or "GET"
    KeyOf,      \* the key of each request
    BodyOf,     \* the body of each request
    CardChoices,    \* the cards that bodies may come with, functions from bodies to
                    \* "ordinary", "0002", "0003", "0004" or "invalid" (refused by the schema)
    None

VARIABLES
    cardOf,     \* the card in each body
    records,    \* charge records by key
    pending,    \* the request charging each key (its promise), or None
    phase,      \* how far each request is at the provider
    reply       \* the HTTP response to each request, or None

mockVars == <<cardOf, records, pending, phase, reply>>

Init ==
    /\ cardOf \in CardChoices
    /\ records = [k \in Keys |-> None]
    /\ pending = [k \in Keys |-> None]
    /\ phase = [r \in Requests |-> "idle"]
    /\ reply = [r \in Requests |-> None]

-----------------------------------------------------------------------------
Record(r, status) == [id |-> r, hash |-> BodyOf[r], status |-> status]

Respond(code, record) == [code |-> code, charge |-> record]

Reused == Respond(422, None)

Charged(record) == Respond(IF record.status = "approved" THEN 200 ELSE 402, record)

\* A stored charge is replayed to the body that made it, and to no other.
Outcome(record, r) == IF record.hash # BodyOf[r] THEN Reused ELSE Charged(record)

Reply(r, response) ==
    /\ reply' = [reply EXCEPT ![r] = response]
    /\ phase' = [phase EXCEPT ![r] = "answered"]

\* A request that is not delayed: everything happens before the first await,
\* pending is set and deleted again.
Instant(r) ==
    LET k == KeyOf[r]
        existing == records[k]
    IN  \/ /\ existing # None /\ cardOf[BodyOf[r]] # "0004"
           /\ Reply(r, Outcome(existing, r))
           /\ UNCHANGED <<records, pending>>
        \/ /\ existing = None /\ cardOf[BodyOf[r]] = "0003"
           /\ Reply(r, Respond(500, None))
           /\ UNCHANGED <<records, pending>>
        \/ /\ existing = None /\ cardOf[BodyOf[r]] = "0002"
           /\ records' = [records EXCEPT ![k] = Record(r, "declined")]
           /\ Reply(r, Charged(Record(r, "declined")))
           /\ UNCHANGED pending

\* A request that is delayed: card 0004 is recorded before its delay, whatever
\* was recorded earlier stays; an ordinary card is recorded after it.
Delay(r) ==
    /\ pending' = [pending EXCEPT ![KeyOf[r]] = r]
    /\ phase' = [phase EXCEPT ![r] = "charging"]
    /\ UNCHANGED reply

StartRecorded(r) ==
    /\ cardOf[BodyOf[r]] = "0004"
    /\ records' = [records EXCEPT ![KeyOf[r]] =
                      IF @ # None THEN @ ELSE Record(r, "approved")]
    /\ Delay(r)

StartOrdinary(r) ==
    /\ cardOf[BodyOf[r]] = "ordinary" /\ records[KeyOf[r]] = None
    /\ Delay(r)
    /\ UNCHANGED records

\* The key is being charged: await that charge's promise.
Wait(r) ==
    /\ pending[KeyOf[r]] # None
    /\ phase' = [phase EXCEPT ![r] = "waiting"]
    /\ UNCHANGED <<records, pending, reply>>

charge(r) ==
    \/ Wait(r)
    \/ pending[KeyOf[r]] = None /\ (Instant(r) \/ StartRecorded(r) \/ StartOrdinary(r))

\* POST /charge
ReceiveCharge(r) ==
    /\ MethodOf[r] = "POST" /\ phase[r] = "idle"
    /\ IF cardOf[BodyOf[r]] = "invalid"
       THEN Reply(r, Respond(400, None)) /\ UNCHANGED <<records, pending>>
       ELSE charge(r)

\* GET /charge/:idempotencyKey answers from the map, also while the key is
\* being charged.
ReceiveLookup(r) ==
    LET record == records[KeyOf[r]]
    IN  /\ MethodOf[r] = "GET" /\ phase[r] = "idle"
        /\ Reply(r, IF record = None THEN Respond(404, None) ELSE Respond(200, record))
        /\ UNCHANGED <<records, pending>>

Receive(r) == ReceiveCharge(r) \/ ReceiveLookup(r)

Waiting(k) == {q \in Requests : phase[q] = "waiting" /\ KeyOf[q] = k}

\* The delay is over.  An ordinary charge is stored now, card 0004 only now
\* compares the bodies; the promise settles, and with it every request that
\* awaits it, refused if its own body is not that of the request it awaited.
Finish(r) ==
    LET k == KeyOf[r]
        record == IF cardOf[BodyOf[r]] = "0004" THEN records[k] ELSE Record(r, "approved")
    IN  /\ phase[r] = "charging"
        /\ records' = [records EXCEPT ![k] = record]
        /\ pending' = [pending EXCEPT ![k] = None]
        /\ reply' = [q \in Requests |->
              IF q # r /\ q \notin Waiting(k) THEN reply[q]
              ELSE IF BodyOf[q] # BodyOf[r] THEN Reused ELSE Outcome(record, r)]
        /\ phase' = [q \in Requests |->
              IF q = r \/ q \in Waiting(k) THEN "answered" ELSE phase[q]]

Next == (\E r \in Requests : Receive(r) \/ Finish(r)) /\ UNCHANGED cardOf

Spec == Init /\ [][Next]_mockVars

=============================================================================
