------------------------------ MODULE Idempotency ------------------------------
(***************************************************************************)
(* The Idempotency-Key of POST /orders: CreateOrderIdempotentService of    *)
(* src/application/orders/create-order-idempotent.service.ts over the      *)
(* idempotency_keys table of idempotency.repository.ts.  A request and     *)
(* its retries carry the same key.  Every statement commits on its own, so *)
(* requests of one key interleave between any two of them, and a process   *)
(* may die anywhere.                                                       *)
(*                                                                         *)
(* The saga the service wraps (module OrderSaga) appears as two steps: the *)
(* transaction that creates the order, and its end with a status that can  *)
(* follow.  A response body is identified by the request whose execution   *)
(* produced it, which its correlationId names.  BodyOf[r] stands for the   *)
(* canonical JSON of the request; sha256 is taken to be injective on it.   *)
(***************************************************************************)
EXTENDS FiniteSets

CONSTANTS
    Keys,       \* idempotency keys
    Requests,   \* HTTP requests, first ones and retries
    Bodies,     \* request bodies
    KeyOf,      \* KeyOf[r]: the Idempotency-Key header
    BodyOf,     \* BodyOf[r]: the body
    None        \* no request

ASSUME RequestsAssumption == KeyOf \in [Requests -> Keys] /\ BodyOf \in [Requests -> Bodies]
ASSUME NoneAssumption == None \notin Requests /\ None \notin Bodies

VARIABLES
    row,        \* idempotency_keys: the row of each key
    expired,    \* the keys whose row is past expires_at
    pc,         \* where each request is
    result,     \* the status its saga ended with
    made,       \* the requests whose saga created an order
    reply,      \* what each request was answered
    lost        \* the keys with a completion that was committed but reported
                \* as failed, a connection lost before the acknowledgement

vars == <<row, expired, pc, result, made, reply, lost>>

WithOrder == {201, 402, 502}      \* statuses only an order row leads to
WithoutOrder == {404, 409, 422}   \* statuses of a saga that created none
Codes == WithOrder \cup WithoutOrder \cup {500}

Rows == [state : {"NONE", "IN_PROGRESS", "COMPLETED"},
         fingerprint : Bodies \cup {None}, owner : Requests \cup {None},
         code : Codes \cup {0}, order : Requests \cup {None}]

NoRow == [state |-> "NONE", fingerprint |-> None, owner |-> None,
          code |-> 0, order |-> None]
NewRow(r) == [state |-> "IN_PROGRESS", fingerprint |-> BodyOf[r], owner |-> r,
              code |-> 0, order |-> None]
NoReply == [code |-> 0, from |-> None]

Init ==
    /\ row = [k \in Keys |-> NoRow]
    /\ expired = {}
    /\ pc = [r \in Requests |-> "begin"]
    /\ result = [r \in Requests |-> 0]
    /\ made = {}
    /\ reply = [r \in Requests |-> NoReply]
    /\ lost = {}

RowOf(r) == row[KeyOf[r]]
GoTo(r, step) == pc' = [pc EXCEPT ![r] = step]

\* The request is answered, with a body of its own or a stored one.
Respond(r, code, from) ==
    /\ GoTo(r, "done")
    /\ reply' = [reply EXCEPT ![r] = [code |-> code, from |-> from]]

-----------------------------------------------------------------------------
(* beginIdempotentRequest *)

\* Mutant: an expired row is taken over instead of blocking the insert.
InsertOverExpired(r) ==
    /\ pc[r] = "begin"
    /\ IF RowOf(r).state = "NONE" \/ KeyOf[r] \in expired
       THEN /\ row' = [row EXCEPT ![KeyOf[r]] = NewRow(r)]
            /\ expired' = expired \ {KeyOf[r]}
            /\ GoTo(r, "saga")
       ELSE GoTo(r, "find") /\ UNCHANGED <<row, expired>>
    /\ UNCHANGED <<result, made, reply, lost>>

\* insertInProgress: the unique constraint decides, expired or not.
InsertInProgress(r) ==
    /\ pc[r] = "begin"
    /\ IF RowOf(r).state = "NONE"
       THEN /\ row' = [row EXCEPT ![KeyOf[r]] = NewRow(r)]
            /\ GoTo(r, "saga")
       ELSE GoTo(r, "find") /\ UNCHANGED row
    /\ UNCHANGED <<expired, result, made, reply, lost>>

\* The row was inserted, but the request does not learn it.
InsertLost(r) ==
    /\ pc[r] = "begin" /\ RowOf(r).state = "NONE"
    /\ row' = [row EXCEPT ![KeyOf[r]] = NewRow(r)]
    /\ Respond(r, 500, None)
    /\ UNCHANGED <<expired, result, made, lost>>

\* findActiveByKey, a statement of its own after the failed insert, and what
\* follows from its row: the unique violation rethrown for an expired one, a
\* changed body, a request in progress, or a replay.
AnswerFromRow(r) ==
    /\ pc[r] = "find"
    /\ CASE KeyOf[r] \in expired                -> Respond(r, 500, None)
         [] RowOf(r).fingerprint # BodyOf[r]    -> Respond(r, 422, None)
         [] RowOf(r).state = "IN_PROGRESS"      -> Respond(r, 409, None)
         [] OTHER                               -> Respond(r, RowOf(r).code, RowOf(r).owner)
    /\ UNCHANGED <<row, expired, result, made, lost>>

\* Another error of either statement ends the request.
BeginFails(r) ==
    /\ pc[r] \in {"begin", "find"}
    /\ Respond(r, 500, None)
    /\ UNCHANGED <<row, expired, result, made, lost>>

-----------------------------------------------------------------------------
(* runAndRecord *)

\* Phase 1 of the saga commits: the order exists from here on.
SagaCreatesOrder(r) ==
    /\ pc[r] = "saga" /\ r \notin made
    /\ made' = made \cup {r}
    /\ UNCHANGED <<row, expired, pc, result, reply, lost>>

\* The saga returns (201) or throws one of its errors.
SagaEnds(r) ==
    /\ pc[r] = "saga"
    /\ \E code \in Codes :
        /\ code \in WithOrder => r \in made
        /\ code \in WithoutOrder => r \notin made
        /\ result' = [result EXCEPT ![r] = code]
        /\ GoTo(r, IF code = 201 THEN "complete" ELSE "recordError")
    /\ UNCHANGED <<row, expired, made, reply, lost>>

\* Mutant: only a 201 stores its order.
MarkCompletedNoOrder(r, code) ==
    row' = [row EXCEPT ![KeyOf[r]] =
        [state |-> "COMPLETED", fingerprint |-> @.fingerprint, owner |-> @.owner,
         code |-> code, order |-> IF code = 201 THEN r ELSE None]]

\* markCompleted: the order is recorded for 201, and for the errors 402, 502.
MarkCompleted(r, code) ==
    row' = [row EXCEPT ![KeyOf[r]] =
        [state |-> "COMPLETED", fingerprint |-> @.fingerprint, owner |-> @.owner,
         code |-> code, order |-> IF code \in WithOrder THEN r ELSE None]]

\* Mutant: a completion that fails is answered 201 all the same.
CompleteIgnoringErrors(r) ==
    /\ pc[r] = "complete"
    /\ MarkCompleted(r, 201) \/ UNCHANGED row
    /\ Respond(r, 201, r)
    /\ UNCHANGED <<expired, result, made, lost>>

Complete(r) ==
    /\ pc[r] = "complete"
    /\ MarkCompleted(r, 201)
    /\ Respond(r, 201, r)
    /\ UNCHANGED <<expired, result, made, lost>>

\* markCompleted(201) is inside the try: its own error is recorded as the
\* request's outcome, whether or not the row was written.
CompleteFails(r) ==
    /\ pc[r] = "complete"
    /\ \/ UNCHANGED <<row, lost>>
       \/ MarkCompleted(r, 201) /\ lost' = lost \cup {KeyOf[r]}
    /\ result' = [result EXCEPT ![r] = 500]
    /\ GoTo(r, "recordError")
    /\ UNCHANGED <<expired, made, reply>>

\* Mutant: every error is stored as a 500.
RecordErrorGeneric(r) ==
    /\ pc[r] = "recordError"
    /\ MarkCompleted(r, 500)
    /\ Respond(r, result[r], r)
    /\ UNCHANGED <<expired, result, made, lost>>

\* The error is stored, then thrown again for the filter.
RecordError(r) ==
    /\ pc[r] = "recordError"
    /\ MarkCompleted(r, result[r])
    /\ Respond(r, result[r], r)
    /\ UNCHANGED <<expired, result, made, lost>>

\* An error of this markCompleted replaces the saga's.
RecordErrorFails(r) ==
    /\ pc[r] = "recordError"
    /\ \/ UNCHANGED <<row, lost>>
       \/ MarkCompleted(r, result[r]) /\ lost' = lost \cup {KeyOf[r]}
    /\ Respond(r, 500, r)
    /\ UNCHANGED <<expired, result, made>>

-----------------------------------------------------------------------------
\* The process dies; the row stays as it is.
Crash(r) ==
    /\ pc[r] \notin {"done", "dead"}
    /\ GoTo(r, "dead")
    /\ UNCHANGED <<row, expired, result, made, reply, lost>>

\* 24 hours after the insert: the request that made it has ended long ago.
\* Nothing deletes the row.
Expire(k) ==
    /\ row[k].state # "NONE" /\ k \notin expired
    /\ pc[row[k].owner] \in {"done", "dead"}
    /\ expired' = expired \cup {k}
    /\ UNCHANGED <<row, pc, result, made, reply, lost>>

Next ==
    \/ \E r \in Requests :
        \/ InsertInProgress(r) \/ InsertLost(r) \/ AnswerFromRow(r) \/ BeginFails(r)
        \/ SagaCreatesOrder(r) \/ SagaEnds(r)
        \/ Complete(r) \/ CompleteFails(r) \/ RecordError(r) \/ RecordErrorFails(r)
        \/ Crash(r)
    \/ \E k \in Keys : Expire(k)

Spec == Init /\ [][Next]_vars

-----------------------------------------------------------------------------
(* Properties *)

TypeOK ==
    /\ row \in [Keys -> Rows]
    /\ expired \subseteq Keys
    /\ pc \in [Requests -> {"begin", "find", "saga", "complete", "recordError",
                            "done", "dead"}]
    /\ result \in [Requests -> Codes \cup {0}]
    /\ made \subseteq Requests
    /\ reply \in [Requests -> [code : Codes \cup {0}, from : Requests \cup {None}]]
    /\ lost \subseteq Keys

\* "Never a second order": whatever the requests of a key interleave with, a
\* crash, an expiry or a failed statement, one of them at most creates one.
OneOrderPerKey ==
    \A r, s \in made : KeyOf[r] = KeyOf[s] => r = s

\* "Replay the stored response verbatim": all requests of a key that are
\* answered with the outcome of an execution get the same status and body,
\* unless the database reported a committed completion as failed.
ReplayAgrees ==
    \A r, s \in Requests :
        KeyOf[r] = KeyOf[s] /\ KeyOf[r] \notin lost =>
            (reply[r].from # None /\ reply[s].from # None => reply[r] = reply[s])

\* A changed body never gets the outcome of the original one.
BodyMatches ==
    \A r \in Requests :
        reply[r].from # None => BodyOf[reply[r].from] = BodyOf[r]

\* What a completed key says of its order is true: 402 and 502 "are thrown
\* only after the order row exists, so order_id is recorded for both", and no
\* order is behind 404, 409 and 422, where the client may start over.
RecordIsTrue ==
    \A k \in Keys : row[k].state = "COMPLETED" =>
        /\ row[k].code \in WithOrder => row[k].order = row[k].owner /\ row[k].owner \in made
        /\ row[k].code \in WithoutOrder => row[k].owner \notin made

\* An outcome that was sent is on record for the retry whose client missed it;
\* only a 500 may be sent without one.
AnswerIsRecorded ==
    \A r \in Requests :
        reply[r].from = r /\ reply[r].code # 500 =>
            RowOf(r).state = "COMPLETED" /\ RowOf(r).code = reply[r].code

\* markCompleted is the "terminal write for any final outcome": a completed
\* key is not written again, unless its completion was reported as failed.
CompletedIsFinal ==
    [][\A k \in Keys : row[k].state = "COMPLETED" /\ k \notin lost
                            => row'[k] = row[k]]_vars
=============================================================================
