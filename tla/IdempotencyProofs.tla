-------------------------- MODULE IdempotencyProofs --------------------------
(***************************************************************************)
(* Theorems about module Idempotency, for any keys, requests and bodies.   *)
(* OwnerInv says that a key belongs to the one request that inserted its   *)
(* row, whatever the database loses; OutcomeInv, that what the key records *)
(* is what became of that request; RecordInv, that everybody is answered   *)
(* what is recorded, as long as no acknowledgement of it is lost.          *)
(***************************************************************************)
EXTENDS Idempotency, TLAPS

\* The row of a key names the request that inserted it, and its body.
RowOwned ==
    \A k \in Keys :
        /\ row[k].state = "NONE" <=> row[k].owner = None
        /\ row[k].owner # None => /\ KeyOf[row[k].owner] = k
                                  /\ row[k].fingerprint = BodyOf[row[k].owner]

Running(r) == pc[r] \in {"saga", "complete", "recordError"}

\* Only that request runs the saga, creates an order or is the source of an
\* answer, and an answer from it goes to its body only.
OneOwner ==
    \A r \in Requests :
        /\ Running(r) \/ r \in made => RowOf(r).owner = r
        /\ pc[r] = "find" => RowOf(r).state # "NONE"
        /\ reply[r].from # None => /\ reply[r].from = RowOf(r).owner
                                   /\ RowOf(r).fingerprint = BodyOf[r]

OwnerInv == TypeOK /\ RowOwned /\ OneOwner

-----------------------------------------------------------------------------
LEMMA OwnerInit == Init => OwnerInv
<1> SUFFICES ASSUME Init
             PROVE  OwnerInv
  OBVIOUS
<1>1. TypeOK
  <2>1. NoRow \in Rows
    BY DEF NoRow, Rows
  <2> QED
    BY <2>1 DEF Init, TypeOK, NoReply
<1>2. RowOwned
  BY DEF Init, RowOwned, NoRow
<1>3. OneOwner
  BY RequestsAssumption DEF Init, OneOwner, Running, NoReply
<1> QED
  BY <1>1, <1>2, <1>3 DEF OwnerInv

\* The insert of a row, whether or not the request learns of it.
LEMMA InsertKeeps ==
    ASSUME OwnerInv, NEW r \in Requests, pc[r] = "begin", RowOf(r).state = "NONE",
           row' = [row EXCEPT ![KeyOf[r]] = NewRow(r)],
           \/ pc' = [pc EXCEPT ![r] = "saga"] /\ reply' = reply
           \/ Respond(r, 500, None),
           expired' = expired, result' = result, made' = made, lost' = lost
    PROVE  OwnerInv'
<1>0. TypeOK /\ RowOwned /\ OneOwner
  BY DEF OwnerInv
<1>1. KeyOf[r] \in Keys /\ BodyOf[r] \in Bodies /\ r # None
  BY RequestsAssumption, NoneAssumption
<1>2. NewRow(r) \in Rows
  BY <1>1 DEF NewRow, Rows, Codes
<1>3. TypeOK'
  <2>1. row' \in [Keys -> Rows]
    BY <1>0, <1>1, <1>2 DEF TypeOK
  <2>2. pc' \in [Requests -> {"begin", "find", "saga", "complete", "recordError",
                              "done", "dead"}]
    BY <1>0 DEF TypeOK, Respond, GoTo
  <2>3. reply' \in [Requests -> [code : Codes \cup {0}, from : Requests \cup {None}]]
    BY <1>0 DEF TypeOK, Respond, Codes
  <2> QED
    BY <1>0, <2>1, <2>2, <2>3 DEF TypeOK
<1>4. RowOwned'
  BY <1>0, <1>1, <1>2 DEF TypeOK, RowOwned, NewRow
<1>5. OneOwner'
  <2> SUFFICES ASSUME NEW s \in Requests
               PROVE  /\ Running(s)' \/ s \in made => RowOf(s)'.owner = s
                      /\ pc'[s] = "find" => RowOf(s)'.state # "NONE"
                      /\ reply'[s].from # None => /\ reply'[s].from = RowOf(s)'.owner
                                                  /\ RowOf(s)'.fingerprint = BodyOf[s]
    BY DEF OneOwner
  <2>1. reply'[s].from = reply[s].from \/ reply'[s].from = None
    BY <1>0 DEF Respond, TypeOK
  <2>2. s # r => pc'[s] = pc[s]
    BY <1>0 DEF Respond, GoTo, TypeOK
  <2>3. KeyOf[s] \in Keys
    BY RequestsAssumption
  <2>4. CASE KeyOf[s] = KeyOf[r]
    <3>1. RowOf(s).owner = None /\ RowOf(s).state = "NONE"
      BY <1>0, <1>1, <2>4 DEF RowOwned, RowOf
    <3>2. s # None
      BY NoneAssumption
    <3>3. ~Running(s) /\ s \notin made /\ pc[s] # "find" /\ reply[s].from = None
      BY <1>0, <3>1, <3>2 DEF OneOwner
    <3>4. RowOf(s)'.owner = r /\ RowOf(s)'.state = "IN_PROGRESS"
      BY <1>0, <1>1, <1>2, <2>4 DEF RowOf, TypeOK, NewRow
    <3>5. Running(s)' => s = r
      BY <2>2, <3>3 DEF Running
    <3> QED
      BY <2>1, <3>3, <3>4, <3>5
  <2>5. CASE KeyOf[s] # KeyOf[r]
    <3>1. RowOf(s)' = RowOf(s) /\ s # r
      BY <1>0, <1>1, <1>2, <2>3, <2>5 DEF RowOf, TypeOK
    <3> QED
      BY <1>0, <2>1, <2>2, <3>1 DEF OneOwner, Running
  <2> QED
    BY <2>4, <2>5
<1> QED
  BY <1>3, <1>4, <1>5 DEF OwnerInv

\* A step that leaves the owner, body and key of every row alone, and in which
\* only the requests of one key's owner go on.
LEMMA RowKeptKeeps ==
    ASSUME OwnerInv, NEW r \in Requests, TypeOK',
           \A k \in Keys : /\ row'[k].owner = row[k].owner
                           /\ row'[k].fingerprint = row[k].fingerprint
                           /\ row'[k].state = "NONE" <=> row[k].state = "NONE",
           \A s \in Requests \ {r} : pc'[s] = pc[s] /\ reply'[s] = reply[s],
           made' \subseteq made \cup {r},
           Running(r)' \/ r \in made' => RowOf(r).owner = r,
           pc'[r] = "find" => RowOf(r).state # "NONE",
           reply'[r].from # None => /\ reply'[r].from = RowOf(r).owner
                                    /\ RowOf(r).fingerprint = BodyOf[r]
    PROVE  OwnerInv'
<1>0. TypeOK /\ RowOwned /\ OneOwner
  BY DEF OwnerInv
<1>1. RowOwned'
  BY <1>0 DEF RowOwned
<1>2. OneOwner'
  <2> SUFFICES ASSUME NEW s \in Requests
               PROVE  /\ Running(s)' \/ s \in made' => RowOf(s)'.owner = s
                      /\ pc'[s] = "find" => RowOf(s)'.state # "NONE"
                      /\ reply'[s].from # None => /\ reply'[s].from = RowOf(s)'.owner
                                                  /\ RowOf(s)'.fingerprint = BodyOf[s]
    BY DEF OneOwner
  <2>1. KeyOf[s] \in Keys
    BY RequestsAssumption
  <2>2. /\ RowOf(s)'.owner = RowOf(s).owner
        /\ RowOf(s)'.fingerprint = RowOf(s).fingerprint
        /\ RowOf(s)'.state = "NONE" <=> RowOf(s).state = "NONE"
    BY <2>1 DEF RowOf
  <2>3. CASE s = r
    BY <2>2, <2>3
  <2>4. CASE s # r
    <3>1. Running(s)' <=> Running(s)
      BY <2>4 DEF Running
    <3> QED
      BY <1>0, <2>2, <2>4, <3>1 DEF OneOwner
  <2> QED
    BY <2>3, <2>4
<1> QED
  BY <1>1, <1>2 DEF OwnerInv

\* What MarkCompleted leaves of the row of the request that calls it.
LEMMA MarkCompletedRow ==
    ASSUME TypeOK, NEW r \in Requests, NEW code \in Codes \cup {0},
           MarkCompleted(r, code)
    PROVE  /\ row' \in [Keys -> Rows]
           /\ RowOf(r)'.state = "COMPLETED" /\ RowOf(r)'.code = code
           /\ RowOf(r)'.order = IF code \in WithOrder THEN r ELSE None
           /\ \A k \in Keys : /\ row'[k].owner = row[k].owner
                              /\ row'[k].fingerprint = row[k].fingerprint
                              /\ k # KeyOf[r] => row'[k] = row[k]
<1>1. KeyOf[r] \in Keys
  BY RequestsAssumption
<1> DEFINE new == [state |-> "COMPLETED", fingerprint |-> RowOf(r).fingerprint,
                   owner |-> RowOf(r).owner, code |-> code,
                   order |-> IF code \in WithOrder THEN r ELSE None]
<1>2. row' = [row EXCEPT ![KeyOf[r]] = new]
  BY <1>1 DEF MarkCompleted, TypeOK, RowOf
<1>3. new \in Rows
  BY <1>1 DEF TypeOK, RowOf, Rows
<1> QED
  BY <1>1, <1>2, <1>3 DEF TypeOK, RowOf

LEMMA OwnerNext == OwnerInv /\ [Next]_vars => OwnerInv'
<1> SUFFICES ASSUME OwnerInv, [Next]_vars
             PROVE  OwnerInv'
  OBVIOUS
<1>0. TypeOK /\ RowOwned /\ OneOwner
  BY DEF OwnerInv
<1>1. \A r \in Requests : KeyOf[r] \in Keys /\ r # None
  BY RequestsAssumption, NoneAssumption
<1>2. 201 \in Codes /\ 409 \in Codes /\ 422 \in Codes /\ 500 \in Codes /\ 0 \notin Codes
  BY DEF Codes, WithOrder, WithoutOrder
<1>3. ASSUME NEW r \in Requests, InsertInProgress(r)
      PROVE  OwnerInv'
  <2>1. CASE RowOf(r).state = "NONE"
    BY <1>3, <2>1, InsertKeeps DEF InsertInProgress, GoTo
  <2>2. CASE RowOf(r).state # "NONE"
    <3>1. TypeOK'
      BY <1>0, <1>3, <2>2 DEF InsertInProgress, TypeOK, GoTo
    <3>2. pc' = [pc EXCEPT ![r] = "find"] /\ UNCHANGED <<row, made, reply>>
      BY <1>3, <2>2 DEF InsertInProgress, GoTo
    <3>3. ~Running(r)' /\ \A s \in Requests \ {r} : pc'[s] = pc[s]
      BY <1>0, <3>2 DEF Running, TypeOK
    <3> QED
      BY <1>0, <2>2, <3>1, <3>2, <3>3, RowKeptKeeps DEF OneOwner
  <2> QED
    BY <2>1, <2>2
<1>4. ASSUME NEW r \in Requests, InsertLost(r)
      PROVE  OwnerInv'
  BY <1>4, InsertKeeps DEF InsertLost
<1>5. ASSUME NEW r \in Requests, NEW code \in Codes \cup {0}, NEW from \in Requests \cup {None},
             Respond(r, code, from), UNCHANGED <<expired, result, made>>,
             lost' \subseteq Keys,
             row' = row \/ (Running(r) /\ \E c \in Codes \cup {0} : MarkCompleted(r, c)),
             from # None => from = RowOf(r).owner /\ RowOf(r).fingerprint = BodyOf[r]
      PROVE  OwnerInv'
  <2>1. /\ row' \in [Keys -> Rows]
        /\ \A k \in Keys : /\ row'[k].owner = row[k].owner
                           /\ row'[k].fingerprint = row[k].fingerprint
                           /\ row'[k].state = "NONE" <=> row[k].state = "NONE"
    <3>1. CASE row' = row
      BY <1>0, <3>1 DEF TypeOK
    <3>2. CASE Running(r) /\ \E c \in Codes \cup {0} : MarkCompleted(r, c)
      <4>1. PICK c \in Codes \cup {0} : MarkCompleted(r, c)
        BY <3>2
      <4>2. RowOf(r).state # "NONE"
        BY <1>0, <1>1, <3>2 DEF OneOwner, RowOwned, RowOf
      <4> QED
        BY <1>0, <1>1, <4>1, <4>2, MarkCompletedRow DEF RowOf
    <3> QED
      BY <1>5, <3>1, <3>2
  <2>2. /\ pc' = [pc EXCEPT ![r] = "done"]
        /\ reply' = [reply EXCEPT ![r] = [code |-> code, from |-> from]]
    BY <1>5 DEF Respond, GoTo
  <2>3. TypeOK'
    BY <1>0, <1>5, <2>1, <2>2 DEF TypeOK
  <2>4. ~Running(r)' /\ pc'[r] = "done" /\ reply'[r].from = from
    BY <1>0, <2>2 DEF Running, TypeOK
  <2>5. \A s \in Requests \ {r} : pc'[s] = pc[s] /\ reply'[s] = reply[s]
    BY <1>0, <2>2 DEF TypeOK
  <2> QED
    BY <1>0, <1>5, <2>1, <2>3, <2>4, <2>5, RowKeptKeeps DEF OneOwner
<1>6. ASSUME NEW r \in Requests, AnswerFromRow(r)
      PROVE  OwnerInv'
  <2>1. RowOf(r).state # "NONE" /\ RowOf(r) \in Rows
    BY <1>0, <1>1, <1>6 DEF AnswerFromRow, OneOwner, RowOf, TypeOK
  <2>2. CASE Respond(r, 500, None) \/ Respond(r, 422, None) \/ Respond(r, 409, None)
    BY <1>0, <1>2, <1>5, <1>6, <2>2 DEF AnswerFromRow, TypeOK
  <2>3. CASE Respond(r, RowOf(r).code, RowOf(r).owner) /\ RowOf(r).fingerprint = BodyOf[r]
    <3>1. TypeOK'
      BY <1>0, <1>6, <2>1, <2>3 DEF AnswerFromRow, Respond, GoTo, TypeOK, Rows
    <3>2. ~Running(r)' /\ pc'[r] = "done" /\ reply'[r].from = RowOf(r).owner
      BY <1>0, <2>3 DEF Running, TypeOK, Respond, GoTo
    <3>3. \A s \in Requests \ {r} : pc'[s] = pc[s] /\ reply'[s] = reply[s]
      BY <1>0, <2>3 DEF TypeOK, Respond, GoTo
    <3>4. UNCHANGED <<row, made>>
      BY <1>6 DEF AnswerFromRow
    <3> QED
      BY <1>0, <2>3, <3>1, <3>2, <3>3, <3>4, RowKeptKeeps DEF OneOwner
  <2> QED
    BY <1>6, <2>2, <2>3 DEF AnswerFromRow
<1>7. ASSUME NEW r \in Requests, BeginFails(r)
      PROVE  OwnerInv'
  BY <1>0, <1>2, <1>5, <1>7 DEF BeginFails, TypeOK
<1>8. ASSUME NEW r \in Requests, Running(r)
      PROVE  RowOf(r).owner = r /\ RowOf(r).fingerprint = BodyOf[r]
  BY <1>0, <1>1, <1>8 DEF OneOwner, RowOwned, RowOf
<1>9. ASSUME NEW r \in Requests, Complete(r)
      PROVE  OwnerInv'
  <2>1. lost' \subseteq Keys
    BY <1>0, <1>9 DEF Complete, TypeOK
  <2> QED
    BY <2>1, <1>2, <1>5, <1>8, <1>9 DEF Complete, Running
<1>10. ASSUME NEW r \in Requests, RecordError(r)
       PROVE  OwnerInv'
  <2>1. result[r] \in Codes \cup {0}
    BY <1>0 DEF TypeOK
  <2>2. lost' \subseteq Keys
    BY <1>0, <1>10 DEF RecordError, TypeOK
  <2> QED
    BY <2>1, <2>2, <1>5, <1>8, <1>10 DEF RecordError, Running
<1>11. ASSUME NEW r \in Requests, RecordErrorFails(r)
       PROVE  OwnerInv'
  <2>1. result[r] \in Codes \cup {0}
    BY <1>0 DEF TypeOK
  <2>2. lost' \subseteq Keys
    BY <1>0, <1>1, <1>11 DEF RecordErrorFails, TypeOK
  <2> QED
    BY <2>1, <2>2, <1>2, <1>5, <1>8, <1>11 DEF RecordErrorFails, Running
<1>12. ASSUME NEW r \in Requests, CompleteFails(r)
       PROVE  OwnerInv'
  <2>1. Running(r) /\ RowOf(r).owner = r /\ RowOf(r).state # "NONE"
    BY <1>0, <1>1, <1>8, <1>12 DEF CompleteFails, Running, RowOwned, RowOf
  <2>2. /\ row' \in [Keys -> Rows]
        /\ \A k \in Keys : /\ row'[k].owner = row[k].owner
                           /\ row'[k].fingerprint = row[k].fingerprint
                           /\ row'[k].state = "NONE" <=> row[k].state = "NONE"
    <3>1. CASE row' = row
      BY <1>0, <3>1 DEF TypeOK
    <3>2. CASE MarkCompleted(r, 201)
      BY <1>0, <1>1, <1>2, <2>1, <3>2, MarkCompletedRow DEF RowOf
    <3> QED
      BY <1>12, <3>1, <3>2 DEF CompleteFails
  <2>3. TypeOK'
    BY <1>0, <1>1, <1>2, <1>12, <2>2 DEF TypeOK, CompleteFails, GoTo
  <2>4. pc'[r] # "find" /\ \A s \in Requests \ {r} : pc'[s] = pc[s]
    BY <1>0, <1>12 DEF TypeOK, CompleteFails, GoTo
  <2> QED
    BY <1>0, <1>12, <2>1, <2>2, <2>3, <2>4, RowKeptKeeps DEF OneOwner, CompleteFails
<1>13. ASSUME NEW r \in Requests, SagaCreatesOrder(r) \/ SagaEnds(r) \/ Crash(r)
       PROVE  OwnerInv'
  <2>1. TypeOK'
    BY <1>0, <1>13 DEF TypeOK, SagaCreatesOrder, SagaEnds, Crash, GoTo
  <2>2. pc'[r] # "find" /\ \A s \in Requests \ {r} : pc'[s] = pc[s]
    BY <1>0, <1>13 DEF TypeOK, SagaCreatesOrder, SagaEnds, Crash, GoTo
  <2>3. UNCHANGED <<row, reply>> /\ made' \subseteq made \cup {r}
    BY <1>13 DEF SagaCreatesOrder, SagaEnds, Crash
  <2>4. Running(r)' \/ r \in made' => Running(r) \/ r \in made
    BY <1>0, <1>13 DEF TypeOK, SagaCreatesOrder, SagaEnds, Crash, GoTo, Running
  <2> QED
    BY <1>0, <2>1, <2>2, <2>3, <2>4, RowKeptKeeps DEF OneOwner
<1>14. ASSUME NEW k \in Keys, Expire(k)
       PROVE  OwnerInv'
  BY <1>0, <1>14 DEF Expire, OwnerInv, TypeOK, RowOwned, OneOwner, RowOf, Running
<1>15. CASE UNCHANGED vars
  BY <1>0, <1>15 DEF vars, OwnerInv, TypeOK, RowOwned, OneOwner, RowOf, Running
<1> QED
  BY <1>3, <1>4, <1>6, <1>7, <1>9, <1>10, <1>11, <1>12, <1>13, <1>14, <1>15 DEF Next

THEOREM OwnerInvariant == Spec => []OwnerInv
BY OwnerInit, OwnerNext, PTL DEF Spec

LEMMA OwnerImplies == OwnerInv => OneOrderPerKey /\ BodyMatches
<1> SUFFICES ASSUME OwnerInv
             PROVE  OneOrderPerKey /\ BodyMatches
  OBVIOUS
<1>0. TypeOK /\ RowOwned /\ OneOwner
  BY DEF OwnerInv
<1>1. OneOrderPerKey
  BY <1>0 DEF TypeOK, OneOwner, OneOrderPerKey, RowOf
<1>2. BodyMatches
  BY <1>0, RequestsAssumption DEF OneOwner, RowOwned, BodyMatches, RowOf
<1> QED
  BY <1>1, <1>2

\* The rows of the table and the requests keep their types.
THEOREM IdempotencyTypes == Spec => []TypeOK
<1>1. OwnerInv => TypeOK
  BY DEF OwnerInv
<1> QED
  BY <1>1, OwnerInvariant, PTL

\* "Never a second order, never a second charge": for any number of requests
\* of a key, in any interleaving, with crashes, expiry and lost statements.
THEOREM NeverASecondOrder == Spec => []OneOrderPerKey
BY OwnerInvariant, OwnerImplies, PTL

\* A changed body is never answered with the outcome of the original one.
THEOREM ChangedBodyIsRefused == Spec => []BodyMatches
BY OwnerInvariant, OwnerImplies, PTL

-----------------------------------------------------------------------------
(* What the key records is what became of its request *)

\* Nobody is answered with an outcome before he is done.
Answered == \A r \in Requests : reply[r].from # None => pc[r] = "done"

\* What a request knows of its own saga.
SagaFacts ==
    \A r \in Requests :
        /\ pc[r] = "saga" => RowOf(r).state = "IN_PROGRESS"
        /\ pc[r] = "complete" => r \in made
        /\ pc[r] = "recordError" => /\ result[r] \in WithOrder => r \in made
                                    /\ result[r] \in WithoutOrder => r \notin made

Recorded == Answered /\ SagaFacts /\ RecordIsTrue /\ AnswerIsRecorded
OutcomeInv == OwnerInv /\ Recorded

LEMMA OutcomeInit == Init => OutcomeInv
<1> SUFFICES ASSUME Init
             PROVE  OutcomeInv
  OBVIOUS
<1>1. OwnerInv
  BY OwnerInit
<1>2. Answered /\ AnswerIsRecorded
  BY NoneAssumption DEF Init, Answered, AnswerIsRecorded, NoReply
<1>3. SagaFacts /\ RecordIsTrue
  BY DEF Init, SagaFacts, RecordIsTrue, NoRow
<1> QED
  BY <1>1, <1>2, <1>3 DEF OutcomeInv, Recorded

\* A row is inserted: nobody relied on the key before.
LEMMA InsertRecords ==
    ASSUME OutcomeInv, NEW r \in Requests, RowOf(r).state = "NONE",
           row' = [row EXCEPT ![KeyOf[r]] = NewRow(r)],
           \/ pc' = [pc EXCEPT ![r] = "saga"] /\ reply' = reply
           \/ Respond(r, 500, None),
           pc[r] = "begin", result' = result, made' = made
    PROVE  Recorded'
<1>0. TypeOK /\ RowOwned /\ OneOwner /\ Answered /\ SagaFacts /\ RecordIsTrue /\ AnswerIsRecorded
  BY DEF OutcomeInv, OwnerInv, Recorded
<1>1. \A s \in Requests : KeyOf[s] \in Keys /\ s # None
  BY RequestsAssumption, NoneAssumption
<1>2. RowOf(r).owner = None
  BY <1>0, <1>1 DEF RowOwned, RowOf
<1>3. \A k \in Keys : row'[k] = IF k = KeyOf[r] THEN NewRow(r) ELSE row[k]
  BY <1>0 DEF TypeOK
<1>4. ASSUME NEW s \in Requests, RowOf(s).owner = s
      PROVE  RowOf(s)' = RowOf(s)
  BY <1>1, <1>2, <1>3, <1>4 DEF RowOf
<1>5. RowOf(r)'.state = "IN_PROGRESS"
  BY <1>1, <1>3 DEF RowOf, NewRow
<1>6. \A s \in Requests \ {r} : pc'[s] = pc[s] /\ reply'[s] = reply[s]
  BY <1>0 DEF TypeOK, Respond, GoTo
<1>7. pc'[r] \in {"saga", "done"} /\ reply'[r].from = None
  BY <1>0 DEF TypeOK, Respond, GoTo, Answered
<1>8. Answered'
  BY <1>0, <1>6, <1>7 DEF Answered
<1>9. SagaFacts'
  <2> SUFFICES ASSUME NEW s \in Requests
               PROVE  /\ pc'[s] = "saga" => RowOf(s)'.state = "IN_PROGRESS"
                      /\ pc'[s] = "complete" => s \in made
                      /\ pc'[s] = "recordError" =>
                            /\ result[s] \in WithOrder => s \in made
                            /\ result[s] \in WithoutOrder => s \notin made
    BY DEF SagaFacts
  <2>1. CASE s = r
    BY <1>5, <1>7, <2>1
  <2>2. CASE s # r
    <3>1. pc[s] = "saga" => RowOf(s)' = RowOf(s)
      BY <1>0, <1>4 DEF OneOwner, Running
    <3> QED
      BY <1>0, <1>6, <2>2, <3>1 DEF SagaFacts
  <2> QED
    BY <2>1, <2>2
<1>10. RecordIsTrue'
  BY <1>0, <1>3 DEF RecordIsTrue, NewRow
<1>11. AnswerIsRecorded'
  <2> SUFFICES ASSUME NEW s \in Requests, reply'[s].from = s, reply'[s].code # 500
               PROVE  RowOf(s)'.state = "COMPLETED" /\ RowOf(s)'.code = reply'[s].code
    BY DEF AnswerIsRecorded
  <2>1. s # r /\ reply'[s] = reply[s]
    BY <1>1, <1>6, <1>7
  <2>2. RowOf(s).owner = s
    BY <1>0, <1>1, <2>1 DEF OneOwner
  <2> QED
    BY <1>0, <1>4, <2>1, <2>2 DEF AnswerIsRecorded
<1> QED
  BY <1>8, <1>9, <1>10, <1>11 DEF Recorded

\* The owner of a row completes it, and ends or goes on to record an error.
LEMMA CompletionRecords ==
    ASSUME OutcomeInv, NEW r \in Requests, Running(r), NEW code \in Codes \cup {0},
           MarkCompleted(r, code), made' = made,
           code \in WithOrder => r \in made, code \in WithoutOrder => r \notin made,
           \A s \in Requests \ {r} : /\ pc'[s] = pc[s] /\ reply'[s] = reply[s]
                                     /\ result'[s] = result[s],
           \/ pc'[r] = "done"
           \/ pc'[r] = "recordError" /\ result'[r] = 500 /\ reply'[r].from = None,
           reply'[r].from # None => reply'[r].code \in {code, 500}
    PROVE  Recorded'
<1>0. TypeOK /\ RowOwned /\ OneOwner /\ Answered /\ SagaFacts /\ RecordIsTrue /\ AnswerIsRecorded
  BY DEF OutcomeInv, OwnerInv, Recorded
<1>1. \A s \in Requests : KeyOf[s] \in Keys /\ s # None
  BY RequestsAssumption, NoneAssumption
<1>2. RowOf(r).owner = r
  BY <1>0 DEF OneOwner
<1>3. /\ RowOf(r)'.state = "COMPLETED" /\ RowOf(r)'.code = code /\ RowOf(r)'.owner = r
      /\ RowOf(r)'.order = IF code \in WithOrder THEN r ELSE None
      /\ \A k \in Keys \ {KeyOf[r]} : row'[k] = row[k]
  BY <1>0, <1>1, <1>2, MarkCompletedRow DEF RowOf
<1>4. ASSUME NEW s \in Requests \ {r}, RowOf(s).owner = s
      PROVE  RowOf(s)' = RowOf(s)
  BY <1>1, <1>2, <1>3, <1>4 DEF RowOf
<1>5. Answered'
  BY <1>0 DEF Answered
<1>6. SagaFacts'
  <2> SUFFICES ASSUME NEW s \in Requests
               PROVE  /\ pc'[s] = "saga" => RowOf(s)'.state = "IN_PROGRESS"
                      /\ pc'[s] = "complete" => s \in made
                      /\ pc'[s] = "recordError" =>
                            /\ result'[s] \in WithOrder => s \in made
                            /\ result'[s] \in WithoutOrder => s \notin made
    BY DEF SagaFacts
  <2>1. CASE s = r
    BY <2>1 DEF WithOrder, WithoutOrder
  <2>2. CASE s # r
    <3>1. pc[s] = "saga" => RowOf(s)' = RowOf(s)
      BY <1>0, <1>4, <2>2 DEF OneOwner, Running
    <3> QED
      BY <1>0, <2>2, <3>1 DEF SagaFacts
  <2> QED
    BY <2>1, <2>2
<1>7. RecordIsTrue'
  BY <1>0, <1>3 DEF RecordIsTrue, RowOf
<1>8. AnswerIsRecorded'
  <2> SUFFICES ASSUME NEW s \in Requests, reply'[s].from = s, reply'[s].code # 500
               PROVE  RowOf(s)'.state = "COMPLETED" /\ RowOf(s)'.code = reply'[s].code
    BY DEF AnswerIsRecorded
  <2>1. CASE s = r
    BY <1>1, <1>3, <2>1
  <2>2. CASE s # r
    <3>1. RowOf(s).owner = s
      BY <1>0, <1>1, <2>2 DEF OneOwner
    <3> QED
      BY <1>0, <1>4, <2>2, <3>1 DEF AnswerIsRecorded
  <2> QED
    BY <2>1, <2>2
<1> QED
  BY <1>5, <1>6, <1>7, <1>8 DEF Recorded

\* A step of one request that writes no row.
LEMMA ReadingRecords ==
    ASSUME OutcomeInv, NEW r \in Requests, row' = row,
           made' = made \/ (made' = made \cup {r} /\ pc[r] = "saga"),
           \A s \in Requests \ {r} : /\ pc'[s] = pc[s] /\ reply'[s] = reply[s]
                                     /\ result'[s] = result[s],
           pc'[r] = "saga" => pc[r] = "saga",
           pc'[r] = "complete" => r \in made',
           pc'[r] = "recordError" => /\ result'[r] \in WithOrder => r \in made'
                                     /\ result'[r] \in WithoutOrder => r \notin made',
           reply'[r].from # None => pc'[r] = "done",
           reply'[r].from = r /\ reply'[r].code # 500 =>
               RowOf(r).state = "COMPLETED" /\ RowOf(r).code = reply'[r].code
    PROVE  Recorded'
<1>0. TypeOK /\ RowOwned /\ OneOwner /\ Answered /\ SagaFacts /\ RecordIsTrue /\ AnswerIsRecorded
  BY DEF OutcomeInv, OwnerInv, Recorded
<1>1. \A s \in Requests : RowOf(s)' = RowOf(s)
  BY DEF RowOf
<1>2. Answered' /\ AnswerIsRecorded'
  BY <1>0, <1>1 DEF Answered, AnswerIsRecorded
<1>3. SagaFacts'
  <2> SUFFICES ASSUME NEW s \in Requests
               PROVE  /\ pc'[s] = "saga" => RowOf(s)'.state = "IN_PROGRESS"
                      /\ pc'[s] = "complete" => s \in made'
                      /\ pc'[s] = "recordError" =>
                            /\ result'[s] \in WithOrder => s \in made'
                            /\ result'[s] \in WithoutOrder => s \notin made'
    BY DEF SagaFacts
  <2>1. CASE s = r
    BY <1>0, <1>1, <2>1 DEF SagaFacts
  <2>2. CASE s # r
    <3>1. s \in made' <=> s \in made
      BY <2>2
    <3> QED
      BY <1>0, <1>1, <2>2, <3>1 DEF SagaFacts
  <2> QED
    BY <2>1, <2>2
<1>4. RecordIsTrue'
  <2>1. ASSUME NEW k \in Keys, row[k].state = "COMPLETED", row[k].owner = r
        PROVE  made' = made
    <3>1. RowOf(r) = row[k]
      BY <1>0, <2>1, NoneAssumption DEF RowOwned, RowOf
    <3> QED
      BY <1>0, <2>1, <3>1 DEF SagaFacts
  <2> QED
    BY <1>0, <2>1 DEF RecordIsTrue
<1> QED
  BY <1>2, <1>3, <1>4 DEF Recorded

LEMMA OutcomeNext == OutcomeInv /\ [Next]_vars => OutcomeInv'
<1> SUFFICES ASSUME OutcomeInv, [Next]_vars
             PROVE  Recorded'
  BY OwnerNext DEF OutcomeInv
<1>0. TypeOK /\ RowOwned /\ OneOwner /\ Answered /\ SagaFacts /\ RecordIsTrue /\ AnswerIsRecorded
  BY DEF OutcomeInv, OwnerInv, Recorded
<1>1. 201 \in Codes /\ 201 \in WithOrder /\ 201 \notin WithoutOrder
      /\ 500 \notin WithOrder /\ 500 \notin WithoutOrder
  BY DEF Codes, WithOrder, WithoutOrder
<1>2. \A r \in Requests : r # None
  BY NoneAssumption
<1>3. ASSUME NEW r \in Requests, InsertInProgress(r)
      PROVE  Recorded'
  <2>1. CASE RowOf(r).state = "NONE"
    BY <1>3, <2>1, InsertRecords DEF InsertInProgress, GoTo
  <2>2. CASE RowOf(r).state # "NONE"
    <3>1. /\ pc' = [pc EXCEPT ![r] = "find"] /\ pc[r] = "begin"
          /\ UNCHANGED <<row, made, reply, result>>
      BY <1>3, <2>2 DEF InsertInProgress, GoTo
    <3>2. reply[r].from = None
      BY <1>0, <3>1 DEF Answered
    <3>3. pc'[r] = "find" /\ \A s \in Requests \ {r} : pc'[s] = pc[s]
      BY <1>0, <3>1 DEF TypeOK
    <3> QED
      BY <1>2, <3>1, <3>2, <3>3, ReadingRecords
  <2> QED
    BY <2>1, <2>2
<1>4. ASSUME NEW r \in Requests, InsertLost(r)
      PROVE  Recorded'
  BY <1>4, InsertRecords DEF InsertLost
<1>5. ASSUME NEW r \in Requests, NEW code, NEW from, Respond(r, code, from), row' = row,
             UNCHANGED <<result, made>>,
             from = r /\ code # 500 => RowOf(r).state = "COMPLETED" /\ RowOf(r).code = code
      PROVE  Recorded'
  <2>1. /\ pc'[r] = "done" /\ reply'[r].code = code /\ reply'[r].from = from
        /\ \A s \in Requests \ {r} : pc'[s] = pc[s] /\ reply'[s] = reply[s]
    BY <1>0, <1>5 DEF TypeOK, Respond, GoTo
  <2> QED
    BY <1>5, <2>1, ReadingRecords
<1>6. ASSUME NEW r \in Requests, AnswerFromRow(r)
      PROVE  Recorded'
  <2>1. UNCHANGED <<row, result, made>>
    BY <1>6 DEF AnswerFromRow
  <2>2. CASE Respond(r, 500, None) \/ Respond(r, 422, None) \/ Respond(r, 409, None)
    BY <1>2, <1>5, <2>1, <2>2
  <2>3. CASE /\ Respond(r, RowOf(r).code, RowOf(r).owner)
             /\ RowOf(r).state # "IN_PROGRESS"
    <3>1. RowOf(r).state = "COMPLETED"
      BY <1>0, <1>6, <2>3, RequestsAssumption DEF AnswerFromRow, OneOwner, TypeOK, RowOf, Rows
    <3> QED
      BY <1>5, <2>1, <2>3, <3>1
  <2> QED
    BY <1>6, <2>2, <2>3 DEF AnswerFromRow
<1>7. ASSUME NEW r \in Requests, BeginFails(r)
      PROVE  Recorded'
  BY <1>2, <1>5, <1>7 DEF BeginFails
<1>8. ASSUME NEW r \in Requests, SagaCreatesOrder(r) \/ SagaEnds(r) \/ Crash(r)
      PROVE  Recorded'
  <2>1. UNCHANGED <<row, reply>> /\ reply[r].from = None
    BY <1>0, <1>8 DEF SagaCreatesOrder, SagaEnds, Crash, Answered
  <2>2. \A s \in Requests \ {r} : pc'[s] = pc[s] /\ result'[s] = result[s]
    BY <1>0, <1>8 DEF SagaCreatesOrder, SagaEnds, Crash, GoTo, TypeOK
  <2>3. CASE SagaCreatesOrder(r)
    BY <1>2, <2>1, <2>2, <2>3, ReadingRecords DEF SagaCreatesOrder
  <2>4. CASE SagaEnds(r)
    <3>1. PICK code \in Codes :
              /\ code \in WithOrder => r \in made
              /\ code \in WithoutOrder => r \notin made
              /\ result' = [result EXCEPT ![r] = code]
              /\ GoTo(r, IF code = 201 THEN "complete" ELSE "recordError")
      BY <2>4 DEF SagaEnds
    <3>2. result'[r] = code /\ pc'[r] = IF code = 201 THEN "complete" ELSE "recordError"
      BY <1>0, <3>1 DEF TypeOK, GoTo
    <3>3. made' = made
      BY <2>4 DEF SagaEnds
    <3> QED
      BY <1>1, <1>2, <2>1, <2>2, <3>1, <3>2, <3>3, ReadingRecords
  <2>5. CASE Crash(r)
    <3>1. pc'[r] = "dead" /\ UNCHANGED <<made, result>>
      BY <1>0, <2>5 DEF Crash, GoTo, TypeOK
    <3> QED
      BY <1>2, <2>1, <2>2, <3>1, ReadingRecords
  <2> QED
    BY <1>8, <2>3, <2>4, <2>5
<1>9. ASSUME NEW r \in Requests, NEW code \in Codes \cup {0}, NEW answered \in {code, 500},
             Running(r), MarkCompleted(r, code), Respond(r, answered, r),
             UNCHANGED <<result, made>>,
             code \in WithOrder => r \in made, code \in WithoutOrder => r \notin made
      PROVE  Recorded'
  <2>1. /\ pc'[r] = "done" /\ reply'[r].code = answered
        /\ \A s \in Requests \ {r} : pc'[s] = pc[s] /\ reply'[s] = reply[s]
    BY <1>0, <1>9 DEF TypeOK, Respond, GoTo
  <2> QED
    BY <1>9, <2>1, CompletionRecords
<1>10. ASSUME NEW r \in Requests, Complete(r)
       PROVE  Recorded'
  BY <1>0, <1>1, <1>9, <1>10 DEF Complete, Running, SagaFacts
<1>11. ASSUME NEW r \in Requests, pc[r] = "recordError"
       PROVE  /\ result[r] \in Codes \cup {0}
              /\ result[r] \in WithOrder => r \in made
              /\ result[r] \in WithoutOrder => r \notin made
  BY <1>0, <1>11 DEF TypeOK, SagaFacts
<1>12. ASSUME NEW r \in Requests, RecordError(r)
       PROVE  Recorded'
  BY <1>9, <1>11, <1>12 DEF RecordError, Running
<1>13. ASSUME NEW r \in Requests, RecordErrorFails(r)
       PROVE  Recorded'
  <2>1. pc[r] = "recordError" /\ Respond(r, 500, r) /\ UNCHANGED <<result, made>>
    BY <1>13 DEF RecordErrorFails
  <2>2. CASE row' = row
    BY <1>5, <2>1, <2>2
  <2>3. CASE MarkCompleted(r, result[r])
    BY <1>9, <1>11, <2>1, <2>3 DEF Running
  <2> QED
    BY <1>13, <2>2, <2>3 DEF RecordErrorFails
<1>14. ASSUME NEW r \in Requests, CompleteFails(r)
       PROVE  Recorded'
  <2>1. /\ pc[r] = "complete" /\ UNCHANGED <<made, reply>> /\ reply[r].from = None
        /\ r \in made
    BY <1>0, <1>14 DEF CompleteFails, Answered, SagaFacts
  <2>2. /\ pc'[r] = "recordError" /\ result'[r] = 500
        /\ \A s \in Requests \ {r} : pc'[s] = pc[s] /\ result'[s] = result[s]
    BY <1>0, <1>14 DEF CompleteFails, GoTo, TypeOK
  <2>3. CASE row' = row
    BY <1>1, <1>2, <2>1, <2>2, <2>3, ReadingRecords
  <2>4. CASE MarkCompleted(r, 201)
    BY <1>1, <2>1, <2>2, <2>4, CompletionRecords DEF Running
  <2> QED
    BY <1>14, <2>3, <2>4 DEF CompleteFails
<1>15. CASE UNCHANGED <<row, pc, result, made, reply>>
  BY <1>0, <1>15 DEF Recorded, Answered, SagaFacts, RecordIsTrue, AnswerIsRecorded, RowOf
<1> QED
  BY <1>3, <1>4, <1>6, <1>7, <1>8, <1>10, <1>12, <1>13, <1>14, <1>15
     DEF Next, Expire, vars

LEMMA OutcomeInvariant == Spec => []OutcomeInv
BY OutcomeInit, OutcomeNext, PTL DEF Spec

\* What a completed key says of its order is true, whatever was lost.
THEOREM RecordsAreTrue == Spec => []RecordIsTrue
<1>1. OutcomeInv => RecordIsTrue
  BY DEF OutcomeInv, Recorded
<1> QED
  BY <1>1, OutcomeInvariant, PTL

\* An answer other than a 500 is on record when it is sent, and stays there.
THEOREM AnswersAreOnRecord == Spec => []AnswerIsRecorded
<1>1. OutcomeInv => AnswerIsRecorded
  BY DEF OutcomeInv, Recorded
<1> QED
  BY <1>1, OutcomeInvariant, PTL

-----------------------------------------------------------------------------
(* Everybody is answered the same, unless a completion is lost *)

Kept(r) == KeyOf[r] \notin lost

\* A request that still runs has not recorded anything.
OpenWhileRunning ==
    \A r \in Requests : Kept(r) /\ Running(r) => RowOf(r).state = "IN_PROGRESS"

\* What was answered is what is on record; without a record, only the owner
\* was answered, with a 500.
AnswersRecorded ==
    \A r \in Requests : Kept(r) /\ reply[r].from # None =>
        IF RowOf(r).state = "COMPLETED"
        THEN reply[r].code = RowOf(r).code
        ELSE reply[r].from = r /\ reply[r].code = 500

Agreed == OpenWhileRunning /\ AnswersRecorded
RecordInv == OutcomeInv /\ Agreed

LEMMA RecordInit == Init => RecordInv
<1> SUFFICES ASSUME Init
             PROVE  RecordInv
  OBVIOUS
<1>1. Agreed
  BY DEF Init, Agreed, OpenWhileRunning, AnswersRecorded, Running, NoReply
<1> QED
  BY <1>1, OutcomeInit DEF RecordInv

\* A step of one request after which no other request of its key relies on
\* the row, or in which the row stays as it is, or the key is lost.
LEMMA OneKeyAgrees ==
    ASSUME RecordInv, NEW r \in Requests,
           \A s \in Requests \ {r} : pc'[s] = pc[s] /\ reply'[s] = reply[s],
           \A k \in Keys \ {KeyOf[r]} : row'[k] = row[k],
           lost' = lost \/ lost' = lost \cup {KeyOf[r]},
           Kept(r)' =>
               /\ Running(r)' => RowOf(r)'.state = "IN_PROGRESS"
               /\ reply'[r].from # None =>
                      IF RowOf(r)'.state = "COMPLETED"
                      THEN reply'[r].code = RowOf(r)'.code
                      ELSE reply'[r].from = r /\ reply'[r].code = 500
               /\ \A s \in Requests \ {r} : KeyOf[s] = KeyOf[r] =>
                      \/ RowOf(s)' = RowOf(s)
                      \/ ~Running(s) /\ reply[s].from = None
    PROVE  Agreed'
<1>0. OpenWhileRunning /\ AnswersRecorded
  BY DEF RecordInv, Agreed
<1>1. ASSUME NEW s \in Requests, Kept(s)'
      PROVE  /\ Running(s)' => RowOf(s)'.state = "IN_PROGRESS"
             /\ reply'[s].from # None =>
                    IF RowOf(s)'.state = "COMPLETED"
                    THEN reply'[s].code = RowOf(s)'.code
                    ELSE reply'[s].from = s /\ reply'[s].code = 500
  <2>1. CASE s = r
    BY <1>1, <2>1
  <2>2. CASE s # r
    <3>1. (Running(s)' <=> Running(s)) /\ reply'[s] = reply[s] /\ Kept(s)
      BY <1>1, <2>2 DEF Running, Kept
    <3>2. CASE RowOf(s)' = RowOf(s)
      BY <1>0, <3>1, <3>2 DEF OpenWhileRunning, AnswersRecorded
    <3>3. CASE RowOf(s)' # RowOf(s)
      <4>1. KeyOf[s] = KeyOf[r]
        BY <3>3, RequestsAssumption DEF RowOf
      <4>2. Kept(r)'
        BY <1>1, <4>1 DEF Kept
      <4> QED
        BY <2>2, <3>1, <3>3, <4>1, <4>2
    <3> QED
      BY <3>2, <3>3
  <2> QED
    BY <2>1, <2>2
<1> QED
  BY <1>1 DEF Agreed, OpenWhileRunning, AnswersRecorded

LEMMA RecordNext == RecordInv /\ [Next]_vars => RecordInv'
<1> SUFFICES ASSUME RecordInv, [Next]_vars
             PROVE  Agreed'
  BY OutcomeNext DEF RecordInv
<1>0. TypeOK /\ RowOwned /\ OneOwner /\ Answered /\ OpenWhileRunning /\ AnswersRecorded
  BY DEF RecordInv, OutcomeInv, Recorded, OwnerInv, Agreed
<1>1. \A r \in Requests : KeyOf[r] \in Keys /\ r # None
  BY RequestsAssumption, NoneAssumption
<1>2. ASSUME NEW r \in Requests, RowOf(r).state = "NONE", pc[r] = "begin", lost' = lost,
             row' = [row EXCEPT ![KeyOf[r]] = NewRow(r)],
             \/ pc' = [pc EXCEPT ![r] = "saga"] /\ reply' = reply
             \/ Respond(r, 500, None)
      PROVE  Agreed'
  <2>1. \A s \in Requests \ {r} : pc'[s] = pc[s] /\ reply'[s] = reply[s]
    BY <1>0, <1>2 DEF TypeOK, Respond, GoTo
  <2>2. \A k \in Keys \ {KeyOf[r]} : row'[k] = row[k]
    BY <1>0, <1>2 DEF TypeOK
  <2>3. RowOf(r)'.state = "IN_PROGRESS"
    BY <1>0, <1>1, <1>2 DEF RowOf, TypeOK, NewRow
  <2>4. reply'[r].from = None
    BY <1>0, <1>2 DEF TypeOK, Respond, Answered
  <2>5. ASSUME NEW s \in Requests, KeyOf[s] = KeyOf[r]
        PROVE  ~Running(s) /\ reply[s].from = None
    <3>1. RowOf(s).owner = None
      BY <1>0, <1>1, <1>2, <2>5 DEF RowOwned, RowOf
    <3> QED
      BY <1>0, <1>1, <3>1 DEF OneOwner
  <2> QED
    BY <1>2, <2>1, <2>2, <2>3, <2>4, <2>5, OneKeyAgrees
<1>3. ASSUME NEW r \in Requests, row' = row, lost' = lost,
             \A s \in Requests \ {r} : pc'[s] = pc[s] /\ reply'[s] = reply[s],
             Running(r)' => Running(r),
             Kept(r) /\ reply'[r].from # None =>
                 IF RowOf(r).state = "COMPLETED"
                 THEN reply'[r].code = RowOf(r).code
                 ELSE reply'[r].from = r /\ reply'[r].code = 500
      PROVE  Agreed'
  <2>1. \A s \in Requests : RowOf(s)' = RowOf(s)
    BY <1>3 DEF RowOf
  <2>2. Kept(r)' <=> Kept(r)
    BY <1>3 DEF Kept
  <2>3. Kept(r) /\ Running(r)' => RowOf(r).state = "IN_PROGRESS"
    BY <1>0, <1>3 DEF OpenWhileRunning
  <2> QED
    BY <1>3, <2>1, <2>2, <2>3, OneKeyAgrees
<1>4. ASSUME NEW r \in Requests, InsertInProgress(r)
      PROVE  Agreed'
  <2>1. CASE RowOf(r).state = "NONE"
    BY <1>2, <1>4, <2>1 DEF InsertInProgress, GoTo
  <2>2. CASE RowOf(r).state # "NONE"
    <3>1. /\ UNCHANGED <<row, reply, lost>> /\ reply[r].from = None /\ ~Running(r)'
          /\ \A s \in Requests \ {r} : pc'[s] = pc[s]
      BY <1>0, <1>4, <2>2 DEF InsertInProgress, GoTo, Running, TypeOK, Answered
    <3> QED
      BY <1>3, <3>1
  <2> QED
    BY <2>1, <2>2
<1>5. ASSUME NEW r \in Requests, InsertLost(r)
      PROVE  Agreed'
  BY <1>2, <1>5 DEF InsertLost
<1>6. ASSUME NEW r \in Requests, NEW code, NEW from, Respond(r, code, from),
             row' = row, lost' = lost,
             Kept(r) /\ from # None =>
                 IF RowOf(r).state = "COMPLETED" THEN code = RowOf(r).code
                                                 ELSE from = r /\ code = 500
      PROVE  Agreed'
  <2>1. /\ ~Running(r)' /\ reply'[r].code = code /\ reply'[r].from = from
        /\ \A s \in Requests \ {r} : pc'[s] = pc[s] /\ reply'[s] = reply[s]
    BY <1>0, <1>6 DEF TypeOK, Respond, GoTo, Running
  <2> QED
    BY <1>3, <1>6, <2>1
<1>7. ASSUME NEW r \in Requests, AnswerFromRow(r)
      PROVE  Agreed'
  <2>1. UNCHANGED <<row, lost>>
    BY <1>7 DEF AnswerFromRow
  <2>2. CASE Respond(r, 500, None) \/ Respond(r, 422, None) \/ Respond(r, 409, None)
    BY <1>6, <2>1, <2>2
  <2>3. CASE /\ Respond(r, RowOf(r).code, RowOf(r).owner)
             /\ RowOf(r).state # "IN_PROGRESS"
    <3>1. RowOf(r).state = "COMPLETED"
      BY <1>0, <1>1, <1>7, <2>3 DEF AnswerFromRow, OneOwner, TypeOK, RowOf, Rows
    <3> QED
      BY <1>6, <2>1, <2>3, <3>1
  <2> QED
    BY <1>7, <2>2, <2>3 DEF AnswerFromRow
<1>8. ASSUME NEW r \in Requests, BeginFails(r)
      PROVE  Agreed'
  BY <1>6, <1>8 DEF BeginFails
<1>9. ASSUME NEW r \in Requests, SagaCreatesOrder(r) \/ SagaEnds(r) \/ Crash(r)
                                 \/ (CompleteFails(r) /\ UNCHANGED <<row, lost>>)
      PROVE  Agreed'
  <2>1. UNCHANGED <<row, reply, lost>> /\ reply[r].from = None
    BY <1>0, <1>9 DEF SagaCreatesOrder, SagaEnds, CompleteFails, Crash, Answered
  <2>2. Running(r)' => Running(r)
    BY <1>0, <1>9 DEF SagaCreatesOrder, SagaEnds, CompleteFails, Crash, GoTo,
                      Running, TypeOK
  <2>3. \A s \in Requests \ {r} : pc'[s] = pc[s]
    BY <1>0, <1>9 DEF SagaCreatesOrder, SagaEnds, CompleteFails, Crash, GoTo, TypeOK
  <2> QED
    BY <1>3, <2>1, <2>2, <2>3
<1>10. ASSUME NEW r \in Requests, NEW code \in Codes \cup {0}, Running(r),
              MarkCompleted(r, code), Respond(r, code, r), lost' = lost
       PROVE  Agreed'
  <2>1. /\ RowOf(r)'.state = "COMPLETED" /\ RowOf(r)'.code = code
        /\ \A k \in Keys \ {KeyOf[r]} : row'[k] = row[k]
    BY <1>0, <1>10, MarkCompletedRow
  <2>2. /\ ~Running(r)' /\ reply'[r].code = code
        /\ \A s \in Requests \ {r} : pc'[s] = pc[s] /\ reply'[s] = reply[s]
    BY <1>0, <1>10 DEF TypeOK, Respond, GoTo, Running
  <2>3. ASSUME NEW s \in Requests \ {r}, KeyOf[s] = KeyOf[r], Kept(r)
        PROVE  ~Running(s) /\ reply[s].from = None
    <3>1. RowOf(s) = RowOf(r) /\ Kept(s)
      BY <2>3 DEF RowOf, Kept
    <3>2. RowOf(r).owner = r /\ RowOf(r).state = "IN_PROGRESS"
      BY <1>0, <1>10, <2>3 DEF OneOwner, OpenWhileRunning
    <3>3. ~Running(s)
      BY <1>0, <3>1, <3>2 DEF OneOwner
    <3>4. reply[s].from # None => reply[s].from = r /\ reply[s].from = s
      BY <1>0, <3>1, <3>2 DEF OneOwner, AnswersRecorded
    <3> QED
      BY <3>3, <3>4
  <2>4. Kept(r)' <=> Kept(r)
    BY <1>10 DEF Kept
  <2> QED
    BY <1>10, <2>1, <2>2, <2>3, <2>4, OneKeyAgrees
<1>11. ASSUME NEW r \in Requests, Complete(r)
       PROVE  Agreed'
  <2>1. 201 \in Codes
    BY DEF Codes, WithOrder
  <2> QED
    BY <1>10, <1>11, <2>1 DEF Complete, Running
<1>12. ASSUME NEW r \in Requests, RecordError(r)
       PROVE  Agreed'
  <2>1. result[r] \in Codes \cup {0}
    BY <1>0 DEF TypeOK
  <2> QED
    BY <1>10, <1>12, <2>1 DEF RecordError, Running
<1>13. ASSUME NEW r \in Requests, RecordErrorFails(r), UNCHANGED <<row, lost>>
       PROVE  Agreed'
  <2>1. Kept(r) => RowOf(r).state = "IN_PROGRESS"
    BY <1>0, <1>13 DEF RecordErrorFails, Running, OpenWhileRunning
  <2> QED
    BY <1>6, <1>13, <2>1 DEF RecordErrorFails
<1>14. ASSUME NEW r \in Requests, CompleteFails(r) \/ RecordErrorFails(r),
              lost' = lost \cup {KeyOf[r]}, NEW code \in Codes \cup {0}, MarkCompleted(r, code)
       PROVE  Agreed'
  <2>1. \A k \in Keys \ {KeyOf[r]} : row'[k] = row[k]
    BY <1>0, <1>14, MarkCompletedRow
  <2>2. \A s \in Requests \ {r} : pc'[s] = pc[s] /\ reply'[s] = reply[s]
    BY <1>0, <1>14 DEF CompleteFails, RecordErrorFails, Respond, GoTo, TypeOK
  <2>3. ~Kept(r)'
    BY <1>14 DEF Kept
  <2> QED
    BY <1>14, <2>1, <2>2, <2>3, OneKeyAgrees
<1>15. ASSUME NEW r \in Requests, CompleteFails(r) \/ RecordErrorFails(r)
       PROVE  Agreed'
  <2>1. 201 \in Codes /\ result[r] \in Codes \cup {0}
    BY <1>0 DEF Codes, WithOrder, TypeOK
  <2> QED
    BY <1>9, <1>13, <1>14, <1>15, <2>1 DEF CompleteFails, RecordErrorFails
<1>16. CASE UNCHANGED <<row, pc, reply, lost>>
  BY <1>0, <1>16 DEF Agreed, OpenWhileRunning, AnswersRecorded, RowOf, Running, Kept
<1> QED
  BY <1>4, <1>5, <1>7, <1>8, <1>9, <1>11, <1>12, <1>15, <1>16 DEF Next, Expire, vars

LEMMA RecordInvariant == Spec => []RecordInv
BY RecordInit, RecordNext, PTL DEF Spec

LEMMA RecordImplies == RecordInv => ReplayAgrees
<1> SUFFICES ASSUME RecordInv,
                    NEW r \in Requests, NEW s \in Requests, KeyOf[r] = KeyOf[s],
                    KeyOf[r] \notin lost, reply[r].from # None, reply[s].from # None
             PROVE  reply[r] = reply[s]
  BY DEF ReplayAgrees
<1>0. TypeOK /\ OneOwner /\ AnswersRecorded
  BY DEF RecordInv, OutcomeInv, OwnerInv, Agreed
<1>1. RowOf(r) = RowOf(s) /\ reply[r].from = RowOf(r).owner
      /\ reply[s].from = RowOf(r).owner /\ Kept(r) /\ Kept(s)
  BY <1>0 DEF RowOf, OneOwner, Kept
<1>2. reply[r].code = reply[s].code
  BY <1>0, <1>1 DEF AnswersRecorded
<1>3. /\ reply[r] \in [code : Codes \cup {0}, from : Requests \cup {None}]
      /\ reply[s] \in [code : Codes \cup {0}, from : Requests \cup {None}]
  BY <1>0 DEF TypeOK
<1> QED
  BY <1>1, <1>2, <1>3

\* Every client of a key that is told the outcome of an execution is told the
\* same, as long as the database acknowledges the completion it commits.
THEOREM RepliesAgree == Spec => []ReplayAgrees
BY RecordInvariant, RecordImplies, PTL

LEMMA CompletedKept ==
    ASSUME RecordInv, [Next]_vars,
           NEW k \in Keys, row[k].state = "COMPLETED", k \notin lost
    PROVE  row'[k] = row[k]
<1>0. TypeOK /\ OpenWhileRunning
  BY DEF RecordInv, OutcomeInv, OwnerInv, Agreed
<1>1. ASSUME NEW r \in Requests, NEW code \in Codes \cup {0}, Running(r),
             MarkCompleted(r, code)
      PROVE  row'[k] = row[k]
  <2>1. KeyOf[r] # k
    BY <1>0, <1>1 DEF OpenWhileRunning, RowOf, Kept
  <2> QED
    BY <1>0, <1>1, <2>1, MarkCompletedRow
<1>2. ASSUME NEW r \in Requests, InsertInProgress(r) \/ InsertLost(r)
      PROVE  row'[k] = row[k]
  BY <1>0, <1>2, RequestsAssumption DEF InsertInProgress, InsertLost, RowOf, TypeOK
<1>3. ASSUME NEW r \in Requests,
             Complete(r) \/ CompleteFails(r) \/ RecordError(r) \/ RecordErrorFails(r)
      PROVE  row'[k] = row[k]
  <2>1. 201 \in Codes /\ result[r] \in Codes \cup {0} /\ Running(r)
    BY <1>0, <1>3 DEF Codes, WithOrder, TypeOK, Complete, CompleteFails, RecordError,
                      RecordErrorFails, Running
  <2> QED
    BY <1>1, <1>3, <2>1 DEF Complete, CompleteFails, RecordError, RecordErrorFails
<1> QED
  BY <1>2, <1>3
     DEF Next, vars, AnswerFromRow, BeginFails, SagaCreatesOrder, SagaEnds, Crash, Expire

\* "Terminal write for any final outcome": nothing rewrites a completed key
\* whose completion was acknowledged.
THEOREM CompletedForever == Spec => CompletedIsFinal
<1>1. RecordInv /\ [Next]_vars =>
          [\A k \in Keys : row[k].state = "COMPLETED" /\ k \notin lost
                               => row'[k] = row[k]]_vars
  BY CompletedKept
<1> QED
  BY <1>1, RecordInvariant, PTL DEF Spec, CompletedIsFinal
=============================================================================
