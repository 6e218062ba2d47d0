-------------------------- MODULE PaymentGatewayProofs --------------------------
(***************************************************************************)
(* Theorems about module PaymentGateway, for any number of calls, keys and *)
(* attempts, any bodies and cards and any breaker settings: the adapter    *)
(* with its retries, its breaker, the network and the provider keeps the   *)
(* port's promise (PaymentContract).  Its breaker, and that of module      *)
(* Geoapify, keep the guarantees of module CircuitBreaker, for any window  *)
(* longer than a call can take.                                            *)
(***************************************************************************)
EXTENDS PaymentGateway, TLAPS

(***************************************************************************)
(* The inductive invariant                                                 *)
(***************************************************************************)

Key(a) == KeyOfCall[a[1]]
IsCharge(a) == KindOfCall[a[1]] = "charge"
Card(a) == cardOf[BodyOfCall[a[1]]]

GatewayTypeOK ==
    /\ attempt \in [Calls -> 0..MaxAttempts]
    /\ result \in [Calls -> Results \cup {None}]
    /\ net \subseteq Attempts
    /\ blank \in [Calls -> BOOLEAN]
    /\ role \in [Calls -> {"idle", "call", "probe"}]

ProviderTypeOK ==
    /\ records \in [Keys -> Records \cup {None}]
    /\ pending \in [Keys -> Attempts \cup {None}]
    /\ phase \in [Attempts -> {"idle", "charging", "waiting", "answered"}]
    /\ reply \in [Attempts -> Responses \cup {None}]

\* A call that is running has made an attempt and has no result; one that may
\* make another attempt has one left.
AttemptsCounted ==
    \A c \in Calls :
        /\ role[c] # "idle" => attempt[c] > 0 /\ result[c] = None
        /\ role[c] = "idle" /\ result[c] = None => attempt[c] < MaxAttempts

\* Only what a call has sent is on its way or at the provider, and only a
\* charge is worked on or waits.
SentByCall ==
    \A a \in Attempts :
        /\ a \in net \/ phase[a] # "idle" \/ reply[a] # None => attempt[a[1]] > 0
        /\ phase[a] \in {"charging", "waiting"} => IsCharge(a)

\* A key is charged by one request at a time, and until that request ends an
\* ordinary charge is not recorded, and a 0004 one is.
OneCharging ==
    \A a \in Attempts : phase[a] = "charging" =>
        /\ pending[Key(a)] = a
        /\ IF Card(a) = "0004" THEN records[Key(a)] # None ELSE records[Key(a)] = None

\* No charge is recorded now only if none was when the call began.
BlankKept == \A c \in Calls : records[KeyOfCall[c]] = None => blank[c]

\* What a response to request a may say: a charge is answered 200 or 402 only
\* from its record, a lookup by the record or by a 404 that was true.
Truthful(a, response) ==
    IF IsCharge(a)
    THEN /\ response.code = 200 =>
                records[Key(a)] # None /\ records[Key(a)].status = "approved"
         /\ response.code = 402 =>
                records[Key(a)] # None /\ records[Key(a)].status = "declined"
    ELSE /\ response.code = 404 => blank[a[1]]
         /\ response.code = 200 =>
                records[Key(a)] # None /\ response.charge = records[Key(a)]

\* However late an answer is read, it is still true.
ReplyTrue == \A a \in Attempts : reply[a] # None => Truthful(a, reply[a])

GatewayInv ==
    /\ GatewayTypeOK /\ ProviderTypeOK /\ AttemptsCounted
    /\ SentByCall /\ OneCharging /\ BlankKept /\ ReplyTrue

LEMMA GatewayInit == Init => GatewayInv
<1> SUFFICES ASSUME Init
             PROVE  GatewayInv
  OBVIOUS
<1>1. /\ attempt = [c \in Calls |-> 0] /\ result = [c \in Calls |-> None] /\ net = {}
      /\ blank = [c \in Calls |-> TRUE] /\ role = [c \in Calls |-> "idle"]
      /\ records = [k \in Keys |-> None] /\ pending = [k \in Keys |-> None]
      /\ phase = [a \in Attempts |-> "idle"] /\ reply = [a \in Attempts |-> None]
  BY DEF Init, Provider!Init, BreakerInit
<1>2. GatewayTypeOK /\ ProviderTypeOK
  BY <1>1, MaxAttemptsAssumption DEF GatewayTypeOK, ProviderTypeOK
<1>3. AttemptsCounted /\ SentByCall
  BY <1>1, MaxAttemptsAssumption DEF AttemptsCounted, SentByCall
<1>4. OneCharging /\ BlankKept /\ ReplyTrue
  BY <1>1, CallsAssumption DEF OneCharging, BlankKept, ReplyTrue
<1> QED
  BY <1>2, <1>3, <1>4 DEF GatewayInv

\* The parts of an attempt.
LEMMA AttemptParts ==
    ASSUME NEW a \in Attempts
    PROVE  /\ a[1] \in Calls /\ a[2] \in 1..MaxAttempts /\ Key(a) \in Keys
           /\ a = <<a[1], a[2]>>
BY CallsAssumption DEF Attempts, Key

(***************************************************************************)
(* The provider's steps, in the terms of the gateway                       *)
(***************************************************************************)

NewRecord(a, s) == [id |-> a, hash |-> BodyOfCall[a[1]], status |-> s]

\* The request is answered at once, from what is recorded.
AnsweredFromRecords(a) ==
    /\ \E response \in Responses :
          /\ Truthful(a, response)
          /\ reply' = [reply EXCEPT ![a] = response]
    /\ phase' = [phase EXCEPT ![a] = "answered"]
    /\ UNCHANGED <<records, pending>>

\* The card is declined at once, and that is recorded.
DeclinedAtOnce(a) ==
    /\ IsCharge(a) /\ pending[Key(a)] = None /\ records[Key(a)] = None
    /\ records' = [records EXCEPT ![Key(a)] = NewRecord(a, "declined")]
    /\ reply' = [reply EXCEPT ![a] = [code |-> 402, charge |-> NewRecord(a, "declined")]]
    /\ phase' = [phase EXCEPT ![a] = "answered"]
    /\ UNCHANGED pending

\* The charge starts, with its record or without.
Starts(a) ==
    /\ IsCharge(a) /\ pending[Key(a)] = None
    /\ \/ /\ Card(a) = "0004"
          /\ records' = [records EXCEPT ![Key(a)] =
                            IF @ # None THEN @ ELSE NewRecord(a, "approved")]
       \/ Card(a) = "ordinary" /\ records[Key(a)] = None /\ UNCHANGED records
    /\ pending' = [pending EXCEPT ![Key(a)] = a]
    /\ phase' = [phase EXCEPT ![a] = "charging"]
    /\ UNCHANGED reply

Waits(a) ==
    /\ IsCharge(a)
    /\ phase' = [phase EXCEPT ![a] = "waiting"]
    /\ UNCHANGED <<records, pending, reply>>

LEMMA ReceiveCases ==
    ASSUME ProviderTypeOK, BlankKept, NEW a \in Attempts, Provider!Receive(a)
    PROVE  /\ phase[a] = "idle"
           /\ AnsweredFromRecords(a) \/ DeclinedAtOnce(a) \/ Starts(a) \/ Waits(a)
<1> DEFINE k == Key(a)
           body == BodyOfCall[a[1]]
<1>0. a[1] \in Calls /\ k \in Keys /\ KindOfCall[a[1]] \in {"charge", "getStatus"}
  BY AttemptParts, CallsAssumption
<1>1. records[k] \in Records \cup {None} /\ reply \in [Attempts -> Responses \cup {None}]
  BY <1>0 DEF ProviderTypeOK
<1>2. \A s \in {"approved", "declined"} : NewRecord(a, s) \in Records
  BY <1>0 DEF NewRecord, Records
<1>3. CASE Provider!ReceiveLookup(a)
  <2>1. /\ ~IsCharge(a) /\ phase[a] = "idle"
        /\ reply' = [reply EXCEPT ![a] = IF records[k] = None
                         THEN [code |-> 404, charge |-> None]
                         ELSE [code |-> 200, charge |-> records[k]]]
        /\ phase' = [phase EXCEPT ![a] = "answered"]
        /\ UNCHANGED <<records, pending>>
    BY <1>3 DEF Provider!ReceiveLookup, Provider!Reply, Provider!Respond, IsCharge, Key
  <2>2. CASE records[k] = None
    <3>1. blank[a[1]]
      BY <1>0, <2>2 DEF BlankKept, Key
    <3> DEFINE response == [code |-> 404, charge |-> None]
    <3>2. response \in Responses /\ Truthful(a, response)
      BY <2>1, <3>1 DEF Responses, Truthful
    <3> HIDE DEF response
    <3>3. reply' = [reply EXCEPT ![a] = response]
      BY <2>1, <2>2 DEF response
    <3> QED
      BY <2>1, <3>2, <3>3 DEF AnsweredFromRecords
  <2>3. CASE records[k] # None
    <3> DEFINE response == [code |-> 200, charge |-> records[k]]
    <3>2. response \in Responses /\ Truthful(a, response)
      BY <1>1, <2>1, <2>3 DEF Responses, Truthful
    <3> HIDE DEF response
    <3>3. reply' = [reply EXCEPT ![a] = response]
      BY <2>1, <2>3 DEF response
    <3> QED
      BY <2>1, <3>2, <3>3 DEF AnsweredFromRecords
  <2> QED
    BY <2>2, <2>3
<1>4. CASE Provider!ReceiveCharge(a)
  <2>1. /\ IsCharge(a) /\ phase[a] = "idle"
        /\ \/ /\ Provider!Reply(a, [code |-> 400, charge |-> None])
              /\ UNCHANGED <<records, pending>>
           \/ Provider!charge(a)
    BY <1>0, <1>4 DEF Provider!ReceiveCharge, Provider!Respond, IsCharge
  <2>2. ASSUME NEW response \in Responses, Provider!Reply(a, response),
               response.code \notin {200, 402}, UNCHANGED <<records, pending>>
        PROVE  AnsweredFromRecords(a)
    BY <2>1, <2>2 DEF Provider!Reply, AnsweredFromRecords, Truthful
  <2>3. \A code \in {400, 422, 500} :
            /\ [code |-> code, charge |-> None] \in Responses
            /\ [code |-> code, charge |-> None].code \notin {200, 402}
    BY DEF Responses
  <2>4. CASE Provider!Wait(a)
    BY <2>1, <2>4 DEF Provider!Wait, Waits
  <2>5. CASE pending[k] = None /\ Provider!StartRecorded(a)
    BY <2>1, <2>5 DEF Provider!StartRecorded, Provider!Delay, Provider!Record,
                      Starts, NewRecord, Key, Card
  <2>6. CASE pending[k] = None /\ Provider!StartOrdinary(a)
    BY <2>1, <2>6 DEF Provider!StartOrdinary, Provider!Delay, Starts, Key, Card
  <2>7. CASE pending[k] = None /\ Provider!Instant(a)
    <3>1. CASE records[k] # None /\ Provider!Reply(a, Provider!Outcome(records[k], a))
               /\ UNCHANGED <<records, pending>>
      <4>1. CASE records[k].hash # body
        <5>1. Provider!Outcome(records[k], a) = [code |-> 422, charge |-> None]
          BY <4>1 DEF Provider!Outcome, Provider!Reused, Provider!Respond
        <5> QED
          BY <2>1, <2>2, <2>3, <3>1, <5>1
      <4>2. CASE records[k].hash = body
        <5> DEFINE response ==
                [code |-> IF records[k].status = "approved" THEN 200 ELSE 402,
                 charge |-> records[k]]
        <5>1. Provider!Outcome(records[k], a) = response
          BY <4>2 DEF Provider!Outcome, Provider!Charged, Provider!Respond
        <5>2. records[k] \in Records
          BY <1>1, <3>1
        <5>3. response \in Responses /\ Truthful(a, response)
          BY <2>1, <3>1, <5>2 DEF Responses, Truthful, Records
        <5> HIDE DEF response
        <5> QED
          BY <2>1, <3>1, <5>1, <5>3 DEF Provider!Reply, AnsweredFromRecords
      <4> QED
        BY <4>1, <4>2
    <3>2. CASE /\ Provider!Reply(a, [code |-> 500, charge |-> None])
               /\ UNCHANGED <<records, pending>>
      BY <2>1, <2>2, <2>3, <3>2
    <3>3. CASE /\ records[k] = None
               /\ records' = [records EXCEPT ![k] = NewRecord(a, "declined")]
               /\ Provider!Reply(a, [code |-> 402, charge |-> NewRecord(a, "declined")])
               /\ UNCHANGED pending
      BY <2>1, <2>7, <3>3 DEF Provider!Reply, DeclinedAtOnce
    <3>4. Provider!Charged(NewRecord(a, "declined")) =
              [code |-> 402, charge |-> NewRecord(a, "declined")]
      BY DEF Provider!Charged, Provider!Respond, NewRecord
    <3> QED
      BY <2>7, <3>1, <3>2, <3>3, <3>4
         DEF Provider!Instant, Provider!Record, Provider!Respond, NewRecord, Key
  <2> QED
    BY <2>1, <2>2, <2>3, <2>4, <2>5, <2>6, <2>7 DEF Provider!charge, Key
<1> QED
  BY <1>3, <1>4 DEF Provider!Receive, Provider!ReceiveCharge, Provider!ReceiveLookup

\* The delay is over: the charge is recorded, and everyone who waited for it
\* is answered as it is, or refused.
Ends(a) ==
    /\ IsCharge(a)
    /\ records' = [records EXCEPT ![Key(a)] =
                      IF @ # None THEN @ ELSE NewRecord(a, "approved")]
    /\ pending' = [pending EXCEPT ![Key(a)] = None]
    /\ reply' \in [Attempts -> Responses \cup {None}]
    /\ \A b \in Attempts :
          \/ reply'[b] = reply[b] /\ phase'[b] = phase[b] /\ b # a
          \/ /\ phase[b] \in {"charging", "waiting"} /\ phase'[b] = "answered"
             /\ Truthful(b, reply[b])'
    /\ phase' \in [Attempts -> {"idle", "charging", "waiting", "answered"}]

LEMMA FinishCase ==
    ASSUME ProviderTypeOK, SentByCall, OneCharging, NEW a \in Attempts, Provider!Finish(a)
    PROVE  phase[a] = "charging" /\ Ends(a)
<1> DEFINE k == Key(a)
           body == BodyOfCall[a[1]]
           new == IF records[k] # None THEN records[k] ELSE NewRecord(a, "approved")
           waiting == {q \in Attempts : phase[q] = "waiting" /\ Key(q) = k}
           response == IF new.hash # body THEN [code |-> 422, charge |-> None]
                       ELSE [code |-> IF new.status = "approved" THEN 200 ELSE 402,
                             charge |-> new]
           refused == [code |-> 422, charge |-> None]
<1>0. a[1] \in Calls /\ k \in Keys
  BY AttemptParts
<1>1. phase[a] = "charging"
  BY DEF Provider!Finish
<1>2. IsCharge(a) /\ (IF Card(a) = "0004" THEN records[k] # None ELSE records[k] = None)
  BY <1>1 DEF SentByCall, OneCharging
<1>3. new \in Records /\ new # None
  BY <1>0, NoneAssumption DEF ProviderTypeOK, NewRecord, Records
<1>4. new = IF Card(a) = "0004" THEN records[k] ELSE NewRecord(a, "approved")
  BY <1>2
<1>5. response \in Responses /\ refused \in Responses
  BY <1>3 DEF Responses
<1> HIDE DEF new
<1>6. /\ records' = [records EXCEPT ![k] = new]
      /\ pending' = [pending EXCEPT ![k] = None]
      /\ reply' = [q \in Attempts |->
             IF q # a /\ q \notin waiting THEN reply[q]
             ELSE IF BodyOfCall[q[1]] # body THEN refused ELSE response]
      /\ phase' = [q \in Attempts |->
             IF q = a \/ q \in waiting THEN "answered" ELSE phase[q]]
  BY <1>0, <1>4 DEF Provider!Finish, Provider!Waiting, Provider!Record, Provider!Reused,
     Provider!Outcome, Provider!Charged, Provider!Respond, NewRecord, Key, Card
<1>7. records'[k] = new
  BY <1>0, <1>6 DEF ProviderTypeOK
<1>8. ASSUME NEW b \in Attempts, b = a \/ b \in waiting
      PROVE  /\ phase[b] \in {"charging", "waiting"} /\ phase'[b] = "answered"
             /\ Truthful(b, reply[b])'
  <2>0. phase[b] \in {"charging", "waiting"} /\ phase'[b] = "answered"
    BY <1>1, <1>6, <1>8
  <2>1. Key(b) = k /\ IsCharge(b)
    BY <1>8, <2>0 DEF SentByCall
  <2>2. reply'[b] \in {response, refused}
    BY <1>6, <1>8
  <2>3. /\ reply'[b].code = 200 => new.status = "approved"
        /\ reply'[b].code = 402 => new.status = "declined"
    BY <1>3, <2>2 DEF Records
  <2> QED
    BY <1>3, <1>7, <2>0, <2>1, <2>3 DEF Truthful, IsCharge, Key
<1>9. reply' \in [Attempts -> Responses \cup {None}]
  BY <1>5, <1>6 DEF ProviderTypeOK
<1>10. phase' \in [Attempts -> {"idle", "charging", "waiting", "answered"}]
  BY <1>6 DEF ProviderTypeOK
<1>11. \A b \in Attempts : (b # a /\ b \notin waiting) =>
           reply'[b] = reply[b] /\ phase'[b] = phase[b]
  BY <1>6
<1>12. records' = [records EXCEPT ![k] =
                      IF @ # None THEN @ ELSE NewRecord(a, "approved")]
  BY <1>6 DEF new
<1> HIDE DEF waiting, response, refused, body
<1>13. \A b \in Attempts :
          \/ reply'[b] = reply[b] /\ phase'[b] = phase[b] /\ b # a
          \/ /\ phase[b] \in {"charging", "waiting"} /\ phase'[b] = "answered"
             /\ Truthful(b, reply[b])'
  BY <1>8, <1>11
<1>14. pending' = [pending EXCEPT ![Key(a)] = None]
  BY <1>6
<1> HIDE DEF k
<1> QED
  BY <1>1, <1>2, <1>9, <1>10, <1>12, <1>13, <1>14 DEF Ends, k

(***************************************************************************)
(* The provider keeps the invariant                                        *)
(***************************************************************************)

\* What is recorded stays recorded.
RecordsGrow == \A k \in Keys : records[k] # None => records'[k] = records[k]

LEMMA TruthfulStays ==
    ASSUME RecordsGrow, UNCHANGED blank, NEW a \in Attempts, Truthful(a, reply[a]),
           reply'[a] = reply[a]
    PROVE  Truthful(a, reply[a])'
BY AttemptParts DEF RecordsGrow, Truthful, IsCharge, Key

\* A step of the provider leaves the callers alone.  It keeps the invariant
\* if it keeps the records and its types, and what it says is true.
LEMMA ProviderKeeps ==
    ASSUME GatewayInv, UNCHANGED <<attempt, result, blank, role, cardOf>>,
           net' \subseteq net, ProviderTypeOK', RecordsGrow, OneCharging',
           \A b \in Attempts :
               /\ phase'[b] # "idle" => phase[b] # "idle" \/ b \in net
               /\ phase'[b] \in {"charging", "waiting"} => IsCharge(b)
               /\ reply'[b] = reply[b] \/ (phase'[b] = "answered" /\ Truthful(b, reply[b])')
    PROVE  GatewayInv'
<1>0. /\ GatewayTypeOK /\ ProviderTypeOK /\ AttemptsCounted
      /\ SentByCall /\ BlankKept /\ ReplyTrue
  BY DEF GatewayInv
<1>1. GatewayTypeOK'
  BY <1>0 DEF GatewayTypeOK
<1>2. AttemptsCounted'
  BY <1>0 DEF AttemptsCounted
<1>3. SentByCall'
  BY <1>0 DEF SentByCall, IsCharge
<1>4. BlankKept'
  BY <1>0, CallsAssumption DEF BlankKept, RecordsGrow
<1>5. ReplyTrue'
  BY <1>0, TruthfulStays DEF ReplyTrue
<1> QED
  BY <1>1, <1>2, <1>3, <1>4, <1>5 DEF GatewayInv

LEMMA ArrivesKeeps ==
    ASSUME GatewayInv, NEW a \in Attempts, Arrives(a)
    PROVE  GatewayInv' /\ RecordsGrow
<1> DEFINE k == Key(a)
<1>0. /\ ProviderTypeOK /\ SentByCall /\ OneCharging /\ BlankKept
  BY DEF GatewayInv
<1>1. /\ a \in net /\ net' \subseteq net /\ Provider!Receive(a)
      /\ UNCHANGED <<attempt, result, blank, role, cardOf>>
  BY DEF Arrives, breakerVars
<1>2. /\ phase[a] = "idle"
      /\ AnsweredFromRecords(a) \/ DeclinedAtOnce(a) \/ Starts(a) \/ Waits(a)
  BY <1>0, <1>1, ReceiveCases
<1>3. k \in Keys /\ a[1] \in Calls /\ \A b \in Attempts : Key(b) \in Keys
  BY AttemptParts
<1>4. /\ records \in [Keys -> Records \cup {None}]
      /\ pending \in [Keys -> Attempts \cup {None}]
      /\ phase \in [Attempts -> {"idle", "charging", "waiting", "answered"}]
      /\ reply \in [Attempts -> Responses \cup {None}]
  BY <1>0 DEF ProviderTypeOK
<1>5. \A s \in {"approved", "declined"} : NewRecord(a, s) \in Records
  BY <1>3 DEF NewRecord, Records
<1>6. \A b \in Attempts : Card(b)' = Card(b) /\ Key(b)' = Key(b)
  BY <1>1 DEF Card, Key
<1>7. CASE AnsweredFromRecords(a)
  <2>1. PICK response \in Responses :
            Truthful(a, response) /\ reply' = [reply EXCEPT ![a] = response]
    BY <1>7 DEF AnsweredFromRecords
  <2>2. phase' = [phase EXCEPT ![a] = "answered"] /\ UNCHANGED <<records, pending>>
    BY <1>7 DEF AnsweredFromRecords
  <2>3. ProviderTypeOK' /\ RecordsGrow
    BY <1>4, <2>1, <2>2 DEF ProviderTypeOK, RecordsGrow
  <2>4. OneCharging'
    BY <1>0, <1>4, <1>6, <2>2 DEF OneCharging
  <2>5. \A b \in Attempts : reply'[b] = reply[b] \/ (phase'[b] = "answered" /\ Truthful(b, reply[b])')
    <3>1. reply'[a] = response
      BY <1>4, <2>1
    <3>2. Truthful(a, reply[a])'
      BY <1>1, <2>1, <2>2, <3>1 DEF Truthful, Key, IsCharge
    <3> QED
      BY <1>4, <2>1, <2>2, <3>2
  <2>6. \A b \in Attempts :
            /\ phase'[b] # "idle" => phase[b] # "idle" \/ b \in net
            /\ phase'[b] \in {"charging", "waiting"} => IsCharge(b)
    BY <1>0, <1>1, <1>4, <2>2 DEF SentByCall
  <2> QED
    BY <1>1, <2>3, <2>4, <2>5, <2>6, ProviderKeeps
<1>8. CASE DeclinedAtOnce(a)
  <2> DEFINE new == NewRecord(a, "declined")
             response == [code |-> 402, charge |-> new]
  <2>1. /\ IsCharge(a) /\ pending[k] = None /\ records[k] = None
        /\ records' = [records EXCEPT ![k] = new]
        /\ reply' = [reply EXCEPT ![a] = response]
        /\ phase' = [phase EXCEPT ![a] = "answered"] /\ UNCHANGED pending
    BY <1>8 DEF DeclinedAtOnce
  <2>2. /\ new \in Records /\ new # None /\ new.status = "declined"
        /\ response \in Responses /\ response.code = 402
    BY <1>5, NoneAssumption DEF Responses, NewRecord
  <2> HIDE DEF new, response
  <2>3. ProviderTypeOK' /\ RecordsGrow
    BY <1>3, <1>4, <2>1, <2>2 DEF ProviderTypeOK, RecordsGrow
  <2>4. OneCharging'
    <3> SUFFICES ASSUME NEW b \in Attempts, phase'[b] = "charging"
                 PROVE  /\ pending'[Key(b)] = b
                        /\ IF Card(b) = "0004" THEN records'[Key(b)] # None
                                               ELSE records'[Key(b)] = None
      BY <1>6 DEF OneCharging
    <3>1. phase[b] = "charging"
      BY <1>4, <2>1
    <3>2. Key(b) # k
      BY <1>0, <2>1, <3>1, NoneAssumption DEF OneCharging
    <3> QED
      BY <1>0, <1>3, <1>4, <2>1, <3>1, <3>2 DEF OneCharging
  <2>5. \A b \in Attempts : reply'[b] = reply[b] \/ (phase'[b] = "answered" /\ Truthful(b, reply[b])')
    <3>1. reply'[a] = response /\ records'[k] = new
      BY <1>3, <1>4, <2>1
    <3>2. Truthful(a, reply[a])'
      BY <2>1, <2>2, <3>1 DEF Truthful, Key, IsCharge
    <3> QED
      BY <1>4, <2>1, <3>2
  <2>6. \A b \in Attempts :
            /\ phase'[b] # "idle" => phase[b] # "idle" \/ b \in net
            /\ phase'[b] \in {"charging", "waiting"} => IsCharge(b)
    BY <1>0, <1>1, <1>4, <2>1 DEF SentByCall
  <2> QED
    BY <1>1, <2>3, <2>4, <2>5, <2>6, ProviderKeeps
<1>9. CASE Starts(a)
  <2> DEFINE new == NewRecord(a, "approved")
  <2>1. /\ IsCharge(a) /\ pending[k] = None
        /\ pending' = [pending EXCEPT ![k] = a]
        /\ phase' = [phase EXCEPT ![a] = "charging"] /\ UNCHANGED reply
    BY <1>9 DEF Starts
  <2>2. new \in Records /\ new # None
    BY <1>5, NoneAssumption
  <2> HIDE DEF new
  <2>3. \/ /\ Card(a) = "0004"
           /\ records' = [records EXCEPT ![k] = IF records[k] # None THEN records[k] ELSE new]
        \/ Card(a) = "ordinary" /\ records[k] = None /\ UNCHANGED records
    BY <1>9 DEF Starts, new
  <2>4. /\ records' \in [Keys -> Records \cup {None}]
        /\ \A x \in Keys : x # k => records'[x] = records[x]
        /\ records[k] # None => records'[k] = records[k]
        /\ IF Card(a) = "0004" THEN records'[k] # None ELSE records'[k] = None
    BY <1>3, <1>4, <2>2, <2>3
  <2>5. ProviderTypeOK' /\ RecordsGrow
    BY <1>3, <1>4, <2>1, <2>4 DEF ProviderTypeOK, RecordsGrow
  <2>6. OneCharging'
    <3> SUFFICES ASSUME NEW b \in Attempts, phase'[b] = "charging"
                 PROVE  /\ pending'[Key(b)] = b
                        /\ IF Card(b) = "0004" THEN records'[Key(b)] # None
                                               ELSE records'[Key(b)] = None
      BY <1>6 DEF OneCharging
    <3>1. CASE b = a
      BY <1>3, <1>4, <2>1, <2>4, <3>1
    <3>2. CASE b # a
      <4>1. phase[b] = "charging"
        BY <1>4, <2>1, <3>2
      <4>2. Key(b) # k
        BY <1>0, <2>1, <4>1, NoneAssumption DEF OneCharging
      <4> QED
        BY <1>0, <1>3, <1>4, <2>1, <2>4, <4>1, <4>2 DEF OneCharging
    <3> QED
      BY <3>1, <3>2
  <2>7. \A b \in Attempts :
            /\ phase'[b] # "idle" => phase[b] # "idle" \/ b \in net
            /\ phase'[b] \in {"charging", "waiting"} => IsCharge(b)
    BY <1>0, <1>1, <1>4, <2>1 DEF SentByCall
  <2> QED
    BY <1>1, <2>1, <2>5, <2>6, <2>7, ProviderKeeps
<1>10. CASE Waits(a)
  <2>1. /\ IsCharge(a) /\ phase' = [phase EXCEPT ![a] = "waiting"]
        /\ UNCHANGED <<records, pending, reply>>
    BY <1>10 DEF Waits
  <2>2. ProviderTypeOK' /\ RecordsGrow
    BY <1>4, <2>1 DEF ProviderTypeOK, RecordsGrow
  <2>3. OneCharging'
    BY <1>0, <1>4, <1>6, <2>1 DEF OneCharging
  <2>4. \A b \in Attempts :
            /\ phase'[b] # "idle" => phase[b] # "idle" \/ b \in net
            /\ phase'[b] \in {"charging", "waiting"} => IsCharge(b)
    BY <1>0, <1>1, <1>4, <2>1 DEF SentByCall
  <2> QED
    BY <1>1, <2>1, <2>2, <2>3, <2>4, ProviderKeeps
<1> QED
  BY <1>2, <1>7, <1>8, <1>9, <1>10

LEMMA FinishesKeeps ==
    ASSUME GatewayInv, NEW a \in Attempts, Finishes(a)
    PROVE  GatewayInv' /\ RecordsGrow
<1> DEFINE k == Key(a)
           new == NewRecord(a, "approved")
<1>0. /\ ProviderTypeOK /\ SentByCall /\ OneCharging
  BY DEF GatewayInv
<1>1. /\ Provider!Finish(a) /\ UNCHANGED <<attempt, result, blank, role, cardOf, net>>
  BY DEF Finishes, breakerVars, gatewayVars
<1>2. phase[a] = "charging" /\ Ends(a)
  BY <1>0, <1>1, FinishCase
<1>3. /\ k \in Keys /\ a[1] \in Calls /\ \A b \in Attempts : Key(b) \in Keys
  BY AttemptParts
<1>4. new \in Records /\ new # None
  BY <1>3, NoneAssumption DEF NewRecord, Records
<1> HIDE DEF new
<1>5. /\ IsCharge(a) /\ pending' = [pending EXCEPT ![k] = None]
      /\ records' = [records EXCEPT ![k] = IF records[k] # None THEN records[k] ELSE new]
      /\ reply' \in [Attempts -> Responses \cup {None}]
      /\ phase' \in [Attempts -> {"idle", "charging", "waiting", "answered"}]
  BY <1>2 DEF Ends, new
<1>6. \A b \in Attempts :
          \/ reply'[b] = reply[b] /\ phase'[b] = phase[b] /\ b # a
          \/ /\ phase[b] \in {"charging", "waiting"} /\ phase'[b] = "answered"
             /\ Truthful(b, reply[b])'
  BY <1>2 DEF Ends
<1>7. ProviderTypeOK' /\ RecordsGrow
  BY <1>0, <1>3, <1>4, <1>5 DEF ProviderTypeOK, RecordsGrow
<1>8. OneCharging'
  <2> SUFFICES ASSUME NEW b \in Attempts, phase'[b] = "charging"
               PROVE  /\ pending'[Key(b)] = b
                      /\ IF Card(b) = "0004" THEN records'[Key(b)] # None
                                             ELSE records'[Key(b)] = None
    BY <1>1 DEF OneCharging, Card, Key
  <2>1. phase[b] = "charging" /\ b # a
    BY <1>6
  <2>2. Key(b) # k
    BY <1>0, <1>2, <2>1 DEF OneCharging
  <2> QED
    BY <1>0, <1>3, <1>5, <2>1, <2>2 DEF OneCharging, ProviderTypeOK
<1>9. ASSUME NEW b \in Attempts
      PROVE  /\ phase'[b] # "idle" => phase[b] # "idle" \/ b \in net
             /\ phase'[b] \in {"charging", "waiting"} => IsCharge(b)
             /\ reply'[b] = reply[b] \/ (phase'[b] = "answered" /\ Truthful(b, reply[b])')
  <2>1. CASE reply'[b] = reply[b] /\ phase'[b] = phase[b] /\ b # a
    BY <1>0, <2>1 DEF SentByCall
  <2>2. CASE ~(reply'[b] = reply[b] /\ phase'[b] = phase[b] /\ b # a)
    <3>1. /\ Truthful(b, reply[b])' /\ phase'[b] = "answered"
          /\ phase[b] \in {"charging", "waiting"}
      BY <1>6, <2>2
    <3> QED
      BY <3>1
  <2> QED
    BY <2>1, <2>2
<1> QED
  BY <1>1, <1>7, <1>8, <1>9, ProviderKeeps

(***************************************************************************)
(* The callers keep the invariant                                          *)
(***************************************************************************)

\* A step of a call leaves the provider alone.
LEMMA CallerKeeps ==
    ASSUME GatewayInv, UNCHANGED providerVars, GatewayTypeOK', AttemptsCounted',
           net' \subseteq net \cup {b \in Attempts : attempt'[b[1]] > 0},
           \A c \in Calls : attempt[c] > 0 => attempt'[c] > 0,
           \A c \in Calls : blank[c] /\ attempt[c] > 0 => blank'[c],
           \A c \in Calls : records[KeyOfCall[c]] = None => blank'[c]
    PROVE  GatewayInv' /\ RecordsGrow
<1>0. /\ GatewayTypeOK /\ ProviderTypeOK /\ SentByCall /\ OneCharging /\ ReplyTrue
  BY DEF GatewayInv
<1>1. UNCHANGED <<cardOf, records, pending, phase, reply>>
  BY DEF providerVars
<1>2. ProviderTypeOK' /\ RecordsGrow
  BY <1>0, <1>1 DEF ProviderTypeOK, RecordsGrow
<1>3. SentByCall'
  BY <1>0, <1>1, AttemptParts DEF SentByCall, IsCharge
<1>4. OneCharging' /\ BlankKept'
  BY <1>0, <1>1 DEF OneCharging, BlankKept, Key, Card
<1>5. ASSUME NEW a \in Attempts, reply[a] # None
      PROVE  Truthful(a, reply[a])'
  <2>1. Truthful(a, reply[a])
    BY <1>0, <1>5 DEF ReplyTrue
  <2>2. a[1] \in Calls /\ attempt[a[1]] > 0
    BY <1>0, <1>5, AttemptParts DEF SentByCall
  <2> QED
    BY <1>1, <2>1, <2>2 DEF Truthful, Key, IsCharge
<1>6. ReplyTrue'
  BY <1>1, <1>5 DEF ReplyTrue
<1> QED
  BY <1>2, <1>3, <1>4, <1>6 DEF GatewayInv

LEMMA AttemptKeeps ==
    ASSUME GatewayInv, NEW c \in Calls, Attempt(c)
    PROVE  GatewayInv' /\ RecordsGrow
<1>0. GatewayTypeOK /\ AttemptsCounted /\ BlankKept
  BY DEF GatewayInv
<1>1. /\ result[c] = None /\ role[c] = "idle"
      /\ attempt' = [attempt EXCEPT ![c] = attempt[c] + 1]
      /\ net' = net \cup {<<c, attempt[c] + 1>>}
      /\ blank' = [blank EXCEPT ![c] =
             IF attempt[c] = 0 THEN records[KeyOfCall[c]] = None ELSE blank[c]]
      /\ UNCHANGED <<result, providerVars>>
  BY DEF Attempt, MayCall, LetThrough
<1>2. PICK r \in {"call", "probe"} : role' = [role EXCEPT ![c] = r]
  BY DEF Attempt, LetThrough
<1>3. attempt[c] \in Nat /\ attempt[c] < MaxAttempts
  BY <1>0, <1>1, MaxAttemptsAssumption DEF GatewayTypeOK, AttemptsCounted
<1>4. attempt' \in [Calls -> 0..MaxAttempts] /\ attempt'[c] > 0
  BY <1>0, <1>1, <1>3, MaxAttemptsAssumption DEF GatewayTypeOK
<1>5. <<c, attempt[c] + 1>> \in Attempts
  BY <1>3, MaxAttemptsAssumption DEF Attempts
<1>6. role' \in [Calls -> {"idle", "call", "probe"}] /\ blank' \in [Calls -> BOOLEAN]
  BY <1>0, <1>1, <1>2 DEF GatewayTypeOK
<1>7. GatewayTypeOK'
  BY <1>0, <1>1, <1>4, <1>5, <1>6 DEF GatewayTypeOK
<1>8. AttemptsCounted'
  BY <1>0, <1>1, <1>2, <1>4 DEF AttemptsCounted, GatewayTypeOK
<1>9. \A x \in Calls : attempt[x] > 0 => attempt'[x] > 0
  BY <1>0, <1>1, <1>4 DEF GatewayTypeOK
<1>10. \A x \in Calls : blank[x] /\ attempt[x] > 0 => blank'[x]
  BY <1>0, <1>1 DEF GatewayTypeOK
<1>11. \A x \in Calls : records[KeyOfCall[x]] = None => blank'[x]
  BY <1>0, <1>1 DEF GatewayTypeOK, BlankKept
<1>12. net' \subseteq net \cup {b \in Attempts : attempt'[b[1]] > 0}
  BY <1>1, <1>4, <1>5
<1> QED
  BY <1>1, <1>7, <1>8, <1>9, <1>10, <1>11, <1>12, CallerKeeps

\* A call gets a result, or its attempt fails and another one is left.
Returns(c, r) ==
    /\ r \in Results
    /\ result' = [result EXCEPT ![c] = r]

LEMMA EndKeeps ==
    ASSUME GatewayInv, NEW c \in Calls, result[c] = None,
           role' = [role EXCEPT ![c] = "idle"],
           net' \subseteq net, UNCHANGED <<attempt, blank, providerVars>>,
           \/ \E r : Returns(c, r)
           \/ UNCHANGED result /\ attempt[c] < MaxAttempts
    PROVE  GatewayInv' /\ RecordsGrow
<1>0. GatewayTypeOK /\ AttemptsCounted /\ BlankKept
  BY DEF GatewayInv
<1>1. /\ result' \in [Calls -> Results \cup {None}]
      /\ \A x \in Calls : x # c => result'[x] = result[x]
      /\ result'[c] # None \/ attempt[c] < MaxAttempts
  BY <1>0, NoneAssumption DEF Returns, GatewayTypeOK
<1>2. /\ role' \in [Calls -> {"idle", "call", "probe"}] /\ role'[c] = "idle"
      /\ \A x \in Calls : x # c => role'[x] = role[x]
  BY <1>0 DEF GatewayTypeOK
<1>3. GatewayTypeOK'
  BY <1>0, <1>1, <1>2 DEF GatewayTypeOK
<1>4. AttemptsCounted'
  BY <1>0, <1>1, <1>2 DEF AttemptsCounted
<1>5. /\ \A x \in Calls : blank[x] => blank'[x]
      /\ \A x \in Calls : records[KeyOfCall[x]] = None => blank'[x]
  BY <1>0 DEF BlankKept
<1> QED
  BY <1>3, <1>4, <1>5, CallerKeeps

LEMMA RejectedKeeps ==
    ASSUME GatewayInv, NEW c \in Calls, Rejected(c)
    PROVE  GatewayInv' /\ RecordsGrow
<1>1. /\ result[c] = None /\ role[c] = "idle" /\ role' = role
      /\ result' = [result EXCEPT ![c] =
             [status |-> "UNKNOWN", failureCode |-> "CIRCUIT_OPEN"]]
      /\ UNCHANGED <<attempt, net, blank, providerVars>>
  BY DEF Rejected, MayCall, Reject, Result
<1>2. role' = [role EXCEPT ![c] = "idle"]
  BY <1>1 DEF GatewayInv, GatewayTypeOK
<1>3. Returns(c, [status |-> "UNKNOWN", failureCode |-> "CIRCUIT_OPEN"])
  BY <1>1 DEF Returns, Results
<1> QED
  BY <1>1, <1>2, <1>3, EndKeeps

\* A failed attempt, for whatever reason.
Codes == {"TIMEOUT", "CONNECTION_REFUSED", "NETWORK_ERROR", "PROVIDER_ERROR"}

LEMMA FailCases ==
    ASSUME GatewayInv, NEW c \in Calls, NEW code \in Codes, Fail(c, code)
    PROVE  /\ result[c] = None /\ attempt[c] > 0
           /\ role' = [role EXCEPT ![c] = "idle"]
           /\ UNCHANGED <<attempt, blank, providerVars>>
           /\ \/ Returns(c, [status |-> "UNKNOWN", failureCode |-> code])
              \/ UNCHANGED result /\ attempt[c] < MaxAttempts
<1>1. role[c] # "idle" /\ role' = [role EXCEPT ![c] = "idle"]
  BY DEF Fail, OnFailure, InFlight, End
<1>2. result[c] = None /\ attempt[c] > 0
  BY <1>1 DEF GatewayInv, AttemptsCounted
<1>3. [status |-> "UNKNOWN", failureCode |-> code] \in Results
  BY DEF Results, Codes
<1>4. /\ UNCHANGED <<attempt, blank, providerVars>>
      /\ result' = IF attempt[c] < MaxAttempts THEN result
                   ELSE [result EXCEPT ![c] = [status |-> "UNKNOWN", failureCode |-> code]]
  BY DEF Fail, Result
<1> QED
  BY <1>1, <1>2, <1>3, <1>4 DEF Returns

\* The ways an attempt fails.
LEMMA FailingSteps ==
    ASSUME NEW c \in Calls,
           \/ TimesOut(c) \/ Refused(c) \/ NetworkError(c)
           \/ Responded(c) /\ ~(reply[Current(c)].code < 500)
    PROVE  net' \subseteq net /\ \E code \in Codes : Fail(c, code)
BY DEF TimesOut, Refused, NetworkError, Responded, Codes

LEMMA FailKeeps ==
    ASSUME GatewayInv, NEW c \in Calls, NEW code \in Codes, Fail(c, code), net' \subseteq net
    PROVE  GatewayInv' /\ RecordsGrow
BY FailCases, EndKeeps

\* What a response is mapped to is a truthful report.
LEMMA ReportsTruth ==
    ASSUME GatewayInv, NEW c \in Calls, Responded(c),
           reply[Current(c)].code < 500
    PROVE  /\ result[c] = None /\ attempt[c] > 0
           /\ role' = [role EXCEPT ![c] = "idle"]
           /\ UNCHANGED <<attempt, blank, net, providerVars>>
           /\ \E r : /\ Returns(c, r)
                     /\ r.status = "CAPTURED" => /\ records[KeyOfCall[c]] # None
                                                 /\ records[KeyOfCall[c]].status = "approved"
                     /\ r.status = "DECLINED" => /\ records[KeyOfCall[c]] # None
                                                 /\ records[KeyOfCall[c]].status = "declined"
                     /\ r.status = "FAILED" => KindOfCall[c] = "getStatus" /\ blank[c]
<1> DEFINE a == Current(c)
           k == KeyOfCall[c]
<1>0. /\ GatewayTypeOK /\ ProviderTypeOK /\ AttemptsCounted /\ ReplyTrue
  BY DEF GatewayInv
<1>1. role[c] # "idle"
  BY DEF Responded, InFlight
<1>2. result[c] = None /\ attempt[c] > 0
  BY <1>0, <1>1 DEF AttemptsCounted
<1>3. a \in Attempts /\ a[1] = c
  BY <1>0, <1>2, MaxAttemptsAssumption DEF GatewayTypeOK, Current, Attempts
<1>4. k \in Keys /\ Key(a) = k /\ KindOfCall[c] \in {"charge", "getStatus"}
  BY <1>3, CallsAssumption DEF Key
<1> HIDE DEF a, k
<1>5. reply[a] # None /\ reply[a] \in Responses /\ Truthful(a, reply[a])
  <2>1. reply[a] # None
    BY DEF Responded, a
  <2> QED
    BY <1>0, <1>3, <2>1 DEF ReplyTrue, ProviderTypeOK
<1>6. records[k] # None => records[k].status \in {"approved", "declined"}
  BY <1>0, <1>4 DEF ProviderTypeOK, Records
<1>7. reply[a].code < 500 /\ ~(reply[a].code >= 500)
  BY <1>5 DEF Responses, a
<1>8. /\ OnSuccess(c) /\ UNCHANGED <<attempt, blank, net, providerVars>>
      /\ \E readable \in BOOLEAN :
             result' = [result EXCEPT ![c] =
                 IF KindOfCall[c] = "charge" THEN mapChargeResponse(reply[a])
                 ELSE mapStatusResponse(reply[a], readable)]
  BY <1>7 DEF Responded, a
<1>9. role' = [role EXCEPT ![c] = "idle"]
  BY <1>8 DEF OnSuccess, End
<1> DEFINE True(r) ==
        /\ r \in Results
        /\ r.status = "CAPTURED" => records[k] # None /\ records[k].status = "approved"
        /\ r.status = "DECLINED" => records[k] # None /\ records[k].status = "declined"
        /\ r.status = "FAILED" => KindOfCall[c] = "getStatus" /\ blank[c]
<1>10. True(Result("UNKNOWN", "INVALID_REQUEST"))
  BY DEF Result, Results
<1>11. CASE KindOfCall[c] = "charge"
  <2>1. IsCharge(a)
    BY <1>3, <1>11 DEF IsCharge
  <2>2. True(mapChargeResponse(reply[a]))
    <3>1. CASE reply[a].code = 200
      <4>1. mapChargeResponse(reply[a]) = Result("CAPTURED", None)
        BY <3>1 DEF mapChargeResponse
      <4>2. records[k] # None /\ records[k].status = "approved"
        BY <1>4, <1>5, <2>1, <3>1 DEF Truthful
      <4> QED
        BY <4>1, <4>2 DEF Result, Results
    <3>2. CASE reply[a].code = 402
      <4>1. mapChargeResponse(reply[a]) = Result("DECLINED", "CARD_DECLINED")
        BY <3>2 DEF mapChargeResponse
      <4>2. records[k] # None /\ records[k].status = "declined"
        BY <1>4, <1>5, <2>1, <3>2 DEF Truthful
      <4> QED
        BY <4>1, <4>2 DEF Result, Results
    <3>3. CASE reply[a].code \notin {200, 402}
      <4>1. mapChargeResponse(reply[a]) = Result("UNKNOWN", "INVALID_REQUEST")
        BY <3>3 DEF mapChargeResponse
      <4> QED
        BY <1>10, <4>1
    <3> QED
      BY <3>1, <3>2, <3>3
  <2>3. result' = [result EXCEPT ![c] = mapChargeResponse(reply[a])]
    BY <1>8, <1>11
  <2> QED
    BY <1>1, <1>2, <1>8, <1>9, <2>2, <2>3 DEF Returns, k
<1>12. CASE KindOfCall[c] = "getStatus"
  <2>1. ~IsCharge(a)
    BY <1>3, <1>12 DEF IsCharge
  <2>2. ASSUME NEW readable \in BOOLEAN
        PROVE  True(mapStatusResponse(reply[a], readable))
    <3>1. CASE reply[a].code = 404
      <4>1. mapStatusResponse(reply[a], readable) = Result("FAILED", "NOT_FOUND")
        BY <3>1 DEF mapStatusResponse
      <4>2. blank[c]
        BY <1>3, <1>5, <2>1, <3>1 DEF Truthful
      <4> QED
        BY <1>12, <4>1, <4>2 DEF Result, Results
    <3>2. CASE reply[a].code = 200 /\ readable
      <4>1. records[k] # None /\ reply[a].charge = records[k]
        BY <1>4, <1>5, <2>1, <3>2 DEF Truthful
      <4>2. CASE records[k].status = "approved"
        <5>1. mapStatusResponse(reply[a], readable) = Result("CAPTURED", None)
          BY <3>2, <4>1, <4>2 DEF mapStatusResponse
        <5> QED
          BY <4>1, <4>2, <5>1 DEF Result, Results
      <4>3. CASE records[k].status = "declined"
        <5>1. mapStatusResponse(reply[a], readable) = Result("DECLINED", "CARD_DECLINED")
          BY <3>2, <4>1, <4>3 DEF mapStatusResponse
        <5> QED
          BY <4>1, <4>3, <5>1 DEF Result, Results
      <4> QED
        BY <1>6, <4>1, <4>2, <4>3
    <3>3. CASE reply[a].code # 404 /\ ~(reply[a].code = 200 /\ readable)
      <4>1. mapStatusResponse(reply[a], readable) = Result("UNKNOWN", "INVALID_REQUEST")
        BY <3>3 DEF mapStatusResponse
      <4> QED
        BY <1>10, <4>1
    <3> QED
      BY <3>1, <3>2, <3>3
  <2>3. PICK readable \in BOOLEAN :
            result' = [result EXCEPT ![c] = mapStatusResponse(reply[a], readable)]
    BY <1>8, <1>12
  <2> QED
    BY <1>1, <1>2, <1>8, <1>9, <2>2, <2>3 DEF Returns, k
<1> QED
  BY <1>4, <1>11, <1>12

LEMMA RespondedKeeps ==
    ASSUME GatewayInv, NEW c \in Calls, Responded(c), reply[Current(c)].code < 500
    PROVE  GatewayInv' /\ RecordsGrow
BY ReportsTruth, EndKeeps

\* Time passes, or nothing happens.
LEMMA IdleKeeps ==
    ASSUME GatewayInv, UNCHANGED <<gatewayVars, providerVars, role>>
    PROVE  GatewayInv' /\ RecordsGrow
<1>1. GatewayTypeOK' /\ AttemptsCounted'
  BY DEF GatewayInv, GatewayTypeOK, AttemptsCounted, gatewayVars
<1>2. UNCHANGED <<attempt, net, blank>>
  BY DEF gatewayVars
<1>3. \A x \in Calls : records[KeyOfCall[x]] = None => blank'[x]
  BY <1>2 DEF GatewayInv, BlankKept
<1> QED
  BY <1>1, <1>2, <1>3, CallerKeeps

LEMMA GatewayNext == GatewayInv /\ [Next]_vars => GatewayInv' /\ RecordsGrow
<1> SUFFICES ASSUME GatewayInv, [Next]_vars
             PROVE  GatewayInv' /\ RecordsGrow
  OBVIOUS
<1>1. ASSUME NEW c \in Calls, Attempt(c) \/ Rejected(c)
      PROVE  GatewayInv' /\ RecordsGrow
  BY <1>1, AttemptKeeps, RejectedKeeps
<1>2. ASSUME NEW c \in Calls,
             TimesOut(c) \/ Refused(c) \/ NetworkError(c) \/ Responded(c)
      PROVE  GatewayInv' /\ RecordsGrow
  BY <1>2, FailingSteps, FailKeeps, RespondedKeeps
<1>3. ASSUME NEW a \in Attempts, Arrives(a) \/ Finishes(a)
      PROVE  GatewayInv' /\ RecordsGrow
  BY <1>3, ArrivesKeeps, FinishesKeeps
<1>4. CASE TimePasses \/ UNCHANGED vars
  BY <1>4, IdleKeeps DEF TimePasses, Tick, vars, breakerVars
<1> QED
  BY <1>1, <1>2, <1>3, <1>4 DEF Next

(***************************************************************************)
(* The gateway implements the contract                                     *)
(***************************************************************************)

\* The refinement mapping.
Decision == [k \in Keys |-> IF records[k] = None THEN "none" ELSE records[k].status]
CallOutcome == [c \in Calls |-> IF result[c] # None THEN result[c].status
                                ELSE IF attempt[c] = 0 THEN "idle" ELSE "running"]

ContractStep == Contract!Next \/ UNCHANGED Contract!contractVars

LEMMA Stutters ==
    ASSUME UNCHANGED <<records, result, blank>>, CallOutcome' = CallOutcome
    PROVE  ContractStep
BY DEF ContractStep, Contract!contractVars, CallOutcome

\* A call begins, is turned away or returns.
LEMMA CallBegins ==
    ASSUME NEW c \in Calls, CallOutcome[c] = "idle", UNCHANGED records,
           CallOutcome' = [CallOutcome EXCEPT ![c] = "running"],
           blank' = [blank EXCEPT ![c] = Decision[KeyOfCall[c]] = "none"]
    PROVE  ContractStep
<1>1. Contract!Begin(c)
  BY DEF Contract!Begin, Decision, CallOutcome
<1> QED
  BY <1>1 DEF ContractStep, Contract!Next

LEMMA CallTurnedAway ==
    ASSUME NEW c \in Calls, CallOutcome[c] = "idle", UNCHANGED <<records, blank>>,
           CallOutcome' = [CallOutcome EXCEPT ![c] = "UNKNOWN"]
    PROVE  ContractStep
<1>1. Contract!TurnAway(c)
  BY DEF Contract!TurnAway, CallOutcome
<1> QED
  BY <1>1 DEF ContractStep, Contract!Next

LEMMA CallReturns ==
    ASSUME NEW c \in Calls, CallOutcome[c] = "running", UNCHANGED <<records, blank>>,
           NEW s, CallOutcome' = [CallOutcome EXCEPT ![c] = s],
           \/ s = "UNKNOWN"
           \/ s = "CAPTURED" /\ Decision[KeyOfCall[c]] = "approved"
           \/ s = "DECLINED" /\ Decision[KeyOfCall[c]] = "declined"
           \/ s = "FAILED" /\ KindOfCall[c] = "getStatus" /\ blank[c]
    PROVE  ContractStep
<1>1. s \in Contract!MayReport(c)
  BY DEF Contract!MayReport, Decision
<1>2. Contract!Return(c)
  BY <1>1 DEF Contract!Return, CallOutcome
<1> QED
  BY <1>2 DEF ContractStep, Contract!Next

\* The provider decides.
LEMMA KeyDecided ==
    ASSUME NEW a \in Attempts, IsCharge(a), CallOutcome[a[1]] # "idle",
           Decision[Key(a)] = "none", UNCHANGED <<result, attempt, blank>>,
           NEW d \in {"approved", "declined"}, Decision' = [Decision EXCEPT ![Key(a)] = d]
    PROVE  ContractStep
<1>1. a[1] \in Calls /\ Key(a) \in Keys
  BY AttemptParts
<1>2. Contract!Decide(Key(a))
  BY <1>1 DEF Contract!Decide, Decision, CallOutcome, IsCharge, Key
<1> QED
  BY <1>1, <1>2 DEF ContractStep, Contract!Next

\* The result of a call is its outcome.
LEMMA OutcomeOfReturn ==
    ASSUME GatewayTypeOK, NEW c \in Calls, NEW r, Returns(c, r), UNCHANGED attempt
    PROVE  CallOutcome' = [CallOutcome EXCEPT ![c] = r.status]
<1>1. r # None /\ result'[c] = r /\ \A x \in Calls : x # c => result'[x] = result[x]
  BY NoneAssumption DEF Returns, GatewayTypeOK
<1> QED
  BY <1>1 DEF CallOutcome

LEMMA AttemptRefines ==
    ASSUME GatewayInv, NEW c \in Calls, Attempt(c)
    PROVE  ContractStep
<1>0. GatewayTypeOK /\ ProviderTypeOK
  BY DEF GatewayInv
<1>1. /\ result[c] = None
      /\ attempt' = [attempt EXCEPT ![c] = attempt[c] + 1]
      /\ blank' = [blank EXCEPT ![c] =
             IF attempt[c] = 0 THEN records[KeyOfCall[c]] = None ELSE blank[c]]
      /\ UNCHANGED <<result, records>>
  BY DEF Attempt, MayCall, providerVars
<1>2. attempt[c] \in Nat /\ KeyOfCall[c] \in Keys
  BY <1>0, CallsAssumption, MaxAttemptsAssumption DEF GatewayTypeOK
<1>3. attempt'[c] # 0 /\ \A x \in Calls : x # c => attempt'[x] = attempt[x]
  BY <1>0, <1>1, <1>2 DEF GatewayTypeOK
<1>4. CASE attempt[c] = 0
  <2>1. CallOutcome[c] = "idle" /\ CallOutcome' = [CallOutcome EXCEPT ![c] = "running"]
    BY <1>1, <1>3, <1>4 DEF CallOutcome
  <2>2. (Decision[KeyOfCall[c]] = "none") = (records[KeyOfCall[c]] = None)
    BY <1>0, <1>2 DEF Decision, ProviderTypeOK, Records
  <2>3. blank' = [blank EXCEPT ![c] = Decision[KeyOfCall[c]] = "none"]
    BY <1>1, <1>4, <2>2
  <2> QED
    BY <1>1, <2>1, <2>3, CallBegins
<1>5. CASE attempt[c] # 0
  <2>1. CallOutcome' = CallOutcome
    BY <1>1, <1>3, <1>5 DEF CallOutcome
  <2>2. blank' = blank
    BY <1>0, <1>1, <1>5 DEF GatewayTypeOK
  <2> QED
    BY <1>1, <2>1, <2>2, Stutters
<1> QED
  BY <1>4, <1>5

LEMMA RejectedRefines ==
    ASSUME GatewayInv, NEW c \in Calls, Rejected(c)
    PROVE  ContractStep
<1> DEFINE r == [status |-> "UNKNOWN", failureCode |-> "CIRCUIT_OPEN"]
<1>1. /\ result[c] = None /\ Returns(c, r)
      /\ UNCHANGED <<attempt, blank, records>>
  BY DEF Rejected, MayCall, Result, Returns, Results, providerVars
<1>2. CallOutcome' = [CallOutcome EXCEPT ![c] = "UNKNOWN"]
  BY <1>1, OutcomeOfReturn DEF GatewayInv
<1>3. CallOutcome[c] \in {"idle", "running"}
  BY <1>1 DEF CallOutcome
<1> QED
  BY <1>1, <1>2, <1>3, CallTurnedAway, CallReturns

LEMMA FailRefines ==
    ASSUME GatewayInv, NEW c \in Calls, NEW code \in Codes, Fail(c, code)
    PROVE  ContractStep
<1> DEFINE r == [status |-> "UNKNOWN", failureCode |-> code]
<1>1. /\ result[c] = None /\ attempt[c] > 0
      /\ UNCHANGED <<attempt, blank, records>>
      /\ Returns(c, r) \/ UNCHANGED result
  BY FailCases DEF providerVars
<1>2. CASE UNCHANGED result
  BY <1>1, <1>2, Stutters DEF CallOutcome
<1>3. CASE Returns(c, r)
  <2>1. CallOutcome' = [CallOutcome EXCEPT ![c] = "UNKNOWN"]
    BY <1>1, <1>3, OutcomeOfReturn DEF GatewayInv
  <2>2. CallOutcome[c] = "running"
    BY <1>1 DEF CallOutcome
  <2> QED
    BY <1>1, <2>1, <2>2, CallReturns
<1> QED
  BY <1>1, <1>2, <1>3

LEMMA RespondedRefines ==
    ASSUME GatewayInv, NEW c \in Calls, Responded(c), reply[Current(c)].code < 500
    PROVE  ContractStep
<1> DEFINE k == KeyOfCall[c]
<1>0. k \in Keys
  BY CallsAssumption
<1>1. PICK r : /\ Returns(c, r)
               /\ r.status = "CAPTURED" => records[k] # None /\ records[k].status = "approved"
               /\ r.status = "DECLINED" => records[k] # None /\ records[k].status = "declined"
               /\ r.status = "FAILED" => KindOfCall[c] = "getStatus" /\ blank[c]
  BY ReportsTruth
<1>2. /\ result[c] = None /\ attempt[c] > 0
      /\ UNCHANGED <<attempt, blank, records>>
  BY ReportsTruth DEF providerVars
<1>3. CallOutcome' = [CallOutcome EXCEPT ![c] = r.status]
  BY <1>1, <1>2, OutcomeOfReturn DEF GatewayInv
<1>4. CallOutcome[c] = "running"
  BY <1>2 DEF CallOutcome
<1>5. r.status \in {"CAPTURED", "DECLINED", "FAILED", "UNKNOWN"}
  BY <1>1 DEF Returns, Results
<1>6. records[k] # None => Decision[k] = records[k].status
  BY <1>0 DEF Decision
<1> QED
  BY <1>1, <1>2, <1>3, <1>4, <1>5, <1>6, CallReturns

\* The provider either records a decision under a new key, or changes none.
LEMMA ProviderRefines ==
    ASSUME GatewayInv, NEW a \in Attempts, IsCharge(a), attempt[a[1]] > 0,
           UNCHANGED <<result, attempt, blank>>, NEW d \in {"approved", "declined"},
           records' = [records EXCEPT ![Key(a)] =
                          IF records[Key(a)] # None THEN records[Key(a)] ELSE NewRecord(a, d)]
    PROVE  ContractStep
<1> DEFINE k == Key(a)
<1>0. GatewayTypeOK /\ ProviderTypeOK /\ a[1] \in Calls /\ k \in Keys
  BY AttemptParts DEF GatewayInv
<1>1. CASE records[k] # None
  <2>1. records' = records
    BY <1>0, <1>1 DEF ProviderTypeOK
  <2> QED
    BY <2>1, Stutters DEF CallOutcome
<1>2. CASE records[k] = None
  <2> DEFINE new == NewRecord(a, d)
  <2>1. new # None /\ new.status = d
    <3>1. new \in Records
      BY <1>0 DEF NewRecord, Records
    <3> QED
      BY <3>1, NoneAssumption DEF NewRecord
  <2> HIDE DEF new
  <2>2. /\ records'[k] = new
        /\ \A x \in Keys : x # k => records'[x] = records[x]
    BY <1>0, <1>2 DEF ProviderTypeOK, new
  <2>3. Decision[k] = "none" /\ Decision' = [Decision EXCEPT ![k] = d]
    <3>1. Decision[k] = "none" /\ Decision'[k] = d
      BY <1>0, <1>2, <2>1, <2>2 DEF Decision
    <3>2. \A x \in Keys : x # k => Decision'[x] = Decision[x]
      BY <2>2 DEF Decision
    <3>3. /\ Decision = [x \in Keys |-> Decision[x]]
          /\ Decision' = [x \in Keys |-> Decision'[x]]
      BY DEF Decision
    <3> HIDE DEF k
    <3>4. Decision' = [Decision EXCEPT ![k] = d]
      BY <3>1, <3>2, <3>3
    <3> QED
      BY <3>1, <3>4
  <2>4. CallOutcome[a[1]] # "idle"
    <3>1. result[a[1]] # None => result[a[1]].status # "idle"
      BY <1>0 DEF GatewayTypeOK, Results
    <3> QED
      BY <1>0, <3>1 DEF CallOutcome
  <2> QED
    BY <2>3, <2>4, KeyDecided
<1> QED
  BY <1>1, <1>2

LEMMA ArrivesRefines ==
    ASSUME GatewayInv, NEW a \in Attempts, Arrives(a)
    PROVE  ContractStep
<1>1. /\ a \in net /\ Provider!Receive(a) /\ UNCHANGED <<attempt, result, blank>>
  BY DEF Arrives
<1>2. AnsweredFromRecords(a) \/ DeclinedAtOnce(a) \/ Starts(a) \/ Waits(a)
  BY <1>1, ReceiveCases DEF GatewayInv
<1>3. attempt[a[1]] > 0
  BY <1>1 DEF GatewayInv, SentByCall
<1>4. CASE UNCHANGED records
  BY <1>1, <1>4, Stutters DEF CallOutcome
<1>5. CASE DeclinedAtOnce(a)
  <2>1. IsCharge(a) /\ records' = [records EXCEPT ![Key(a)] =
            IF records[Key(a)] # None THEN records[Key(a)] ELSE NewRecord(a, "declined")]
    BY <1>5 DEF DeclinedAtOnce
  <2> QED
    BY <1>1, <1>3, <2>1, ProviderRefines
<1>6. CASE Starts(a)
  <2>1. IsCharge(a)
    BY <1>6 DEF Starts
  <2>2. \/ UNCHANGED records
        \/ records' = [records EXCEPT ![Key(a)] =
            IF records[Key(a)] # None THEN records[Key(a)] ELSE NewRecord(a, "approved")]
    BY <1>6 DEF Starts
  <2> QED
    BY <1>1, <1>3, <1>4, <2>1, <2>2, ProviderRefines
<1> QED
  BY <1>2, <1>4, <1>5, <1>6 DEF AnsweredFromRecords, Waits

LEMMA FinishesRefines ==
    ASSUME GatewayInv, NEW a \in Attempts, Finishes(a)
    PROVE  ContractStep
<1>1. Provider!Finish(a) /\ UNCHANGED <<attempt, result, blank>>
  BY DEF Finishes, gatewayVars
<1>2. phase[a] = "charging" /\ Ends(a)
  BY <1>1, FinishCase DEF GatewayInv
<1>3. attempt[a[1]] > 0
  BY <1>2 DEF GatewayInv, SentByCall
<1>4. IsCharge(a) /\ records' = [records EXCEPT ![Key(a)] =
          IF records[Key(a)] # None THEN records[Key(a)] ELSE NewRecord(a, "approved")]
  BY <1>2 DEF Ends
<1> QED
  BY <1>1, <1>3, <1>4, ProviderRefines

LEMMA StepRefines == GatewayInv /\ [Next]_vars => ContractStep
<1> SUFFICES ASSUME GatewayInv, [Next]_vars
             PROVE  ContractStep
  OBVIOUS
<1>1. ASSUME NEW c \in Calls, Attempt(c) \/ Rejected(c)
      PROVE  ContractStep
  BY <1>1, AttemptRefines, RejectedRefines
<1>2. ASSUME NEW c \in Calls,
             TimesOut(c) \/ Refused(c) \/ NetworkError(c) \/ Responded(c)
      PROVE  ContractStep
  BY <1>2, FailingSteps, FailRefines, RespondedRefines
<1>3. ASSUME NEW a \in Attempts, Arrives(a) \/ Finishes(a)
      PROVE  ContractStep
  BY <1>3, ArrivesRefines, FinishesRefines
<1>4. CASE TimePasses \/ UNCHANGED vars
  <2>1. UNCHANGED <<attempt, result, blank, records>>
    BY <1>4 DEF TimePasses, vars, gatewayVars, providerVars
  <2> QED
    BY <2>1, Stutters DEF CallOutcome
<1> QED
  BY <1>1, <1>2, <1>3, <1>4 DEF Next

LEMMA InitRefines == Init => Contract!Init
<1> SUFFICES ASSUME Init
             PROVE  Contract!Init
  OBVIOUS
<1>1. /\ attempt = [c \in Calls |-> 0] /\ result = [c \in Calls |-> None]
      /\ blank = [c \in Calls |-> TRUE] /\ records = [k \in Keys |-> None]
  BY DEF Init, Provider!Init
<1> QED
  BY <1>1 DEF Contract!Init

(***************************************************************************)
(* The theorems                                                            *)
(***************************************************************************)

\* withRetry makes at most MaxAttempts attempts; a key is charged by one
\* request at a time; every answer, however late it is read, is still true.
THEOREM GatewayInvariant == Spec => []GatewayInv
<1>1. GatewayInv /\ [Next]_vars => GatewayInv'
  BY GatewayNext
<1> QED
  BY <1>1, GatewayInit, PTL DEF Spec

\* The gateway keeps the port's promise: whatever is lost, late, retried or
\* turned away, a call of HttpPaymentGateway reports what the provider has
\* decided under its key, or that it does not know.
THEOREM GatewayImplementsContract == Spec => ContractSpec
<1>1. GatewayInv /\ [Next]_vars => [Contract!Next]_(Contract!contractVars)
  BY StepRefines DEF ContractStep
<1> QED
  BY <1>1, InitRefines, GatewayInvariant, PTL DEF Spec, ContractSpec, Contract!Spec

(***************************************************************************)
(* The breaker inside the adapter                                          *)
(***************************************************************************)

\* Every call that runs while the breaker is open started before it opened:
\* what the proof of ProbeDecides needs, since the last of them has timed out
\* when the window ends.
StartedBefore == state = "OPEN" => \A c \in InFlight : age[c] >= sinceOpen

BreakerInv == /\ BreakerTypeOK /\ StartedBefore
              /\ OneProbe /\ ProbeDecides /\ ClosedBelowThreshold

\* When the window has ended, no call is left.
LEMMA WindowOutlivesCalls ==
    ASSUME BreakerTypeOK, StartedBefore, state = "OPEN", sinceOpen = OpenFor
    PROVE  InFlight = {}
<1> SUFFICES ASSUME NEW c \in InFlight
             PROVE  FALSE
  OBVIOUS
<1>1. c \in Calls
  BY DEF InFlight
<1>2. age[c] \in 0..Timeout /\ age[c] >= OpenFor
  BY <1>1 DEF BreakerTypeOK, StartedBefore
<1> QED
  BY <1>2, ThresholdAssumption, TimeoutAssumption

LEMMA BreakerStarts == BreakerInit => BreakerInv
<1> SUFFICES ASSUME BreakerInit
             PROVE  BreakerInv
  OBVIOUS
<1>1. BreakerTypeOK
  <2>1. 0 \in 0..Timeout /\ 0 \in 0..OpenFor /\ 0 \in Nat
    BY ThresholdAssumption, TimeoutAssumption
  <2>2. age \in [Calls -> 0..Timeout]
    BY <2>1 DEF BreakerInit
  <2> QED
    BY <2>1, <2>2 DEF BreakerInit, BreakerTypeOK
<1>2. StartedBefore /\ OneProbe /\ ProbeDecides
  BY DEF BreakerInit, StartedBefore, OneProbe, ProbeDecides, InFlight
<1>3. ClosedBelowThreshold
  BY ThresholdAssumption, TimeoutAssumption DEF BreakerInit, ClosedBelowThreshold
<1> QED
  BY <1>1, <1>2, <1>3 DEF BreakerInv

\* A call that is let through.
LEMMA LetThroughKeeps ==
    ASSUME BreakerInv, NEW c \in Calls, LetThrough(c)
    PROVE  BreakerInv'
<1>0. /\ BreakerTypeOK /\ StartedBefore
      /\ OneProbe /\ ProbeDecides /\ ClosedBelowThreshold
  BY DEF BreakerInv
<1>1. BreakerTypeOK'
  <2>1. state' \in {"CLOSED", "OPEN", "HALF_OPEN"}
    BY <1>0 DEF LetThrough, MaybeHalfOpen, BreakerTypeOK
  <2>2. probing' \in BOOLEAN
    BY DEF LetThrough
  <2>3. role' \in [Calls -> {"idle", "call", "probe"}]
    BY <1>0 DEF LetThrough, BreakerTypeOK
  <2>4. age' \in [Calls -> 0..Timeout]
    BY <1>0, ThresholdAssumption, TimeoutAssumption DEF LetThrough, BreakerTypeOK
  <2> QED
    BY <1>0, <2>1, <2>2, <2>3, <2>4 DEF LetThrough, BreakerTypeOK
<1>2. CASE MaybeHalfOpen = "CLOSED"
  <2>1. state = "CLOSED" /\ state' = "CLOSED"
    BY <1>2 DEF MaybeHalfOpen, LetThrough
  <2>2. role' = [role EXCEPT ![c] = "call"] /\ probing' = probing /\ failures' = failures
    BY <1>0, <1>2 DEF LetThrough, BreakerTypeOK
  <2>3. \A d \in Calls : role'[d] = "probe" <=> role[d] = "probe"
    BY <1>0, <2>2 DEF BreakerTypeOK, LetThrough
  <2>4. OneProbe'
    BY <1>0, <2>2, <2>3 DEF OneProbe
  <2> QED
    BY <1>0, <1>1, <2>1, <2>2, <2>4
       DEF BreakerInv, StartedBefore, ProbeDecides, ClosedBelowThreshold
<1>3. CASE MaybeHalfOpen = "HALF_OPEN" /\ ~probing
  <2>1. state' = "HALF_OPEN" /\ probing' = TRUE /\ role' = [role EXCEPT ![c] = "probe"]
    BY <1>3 DEF LetThrough
  <2>2. \A d \in Calls : role[d] # "probe"
    BY <1>0, <1>3 DEF OneProbe
  <2>3. state = "OPEN" /\ sinceOpen = OpenFor
    BY <1>0, <1>3, <2>2 DEF MaybeHalfOpen, ProbeDecides
  <2>4. InFlight = {}
    BY <1>0, <2>3, WindowOutlivesCalls
  <2>5. InFlight' = {c} /\ role'[c] = "probe"
    BY <1>0, <2>1, <2>4 DEF InFlight, BreakerTypeOK
  <2>6. OneProbe'
    BY <1>0, <2>1, <2>2 DEF OneProbe, BreakerTypeOK
  <2> QED
    BY <1>1, <2>1, <2>5, <2>6
       DEF BreakerInv, StartedBefore, ProbeDecides, ClosedBelowThreshold
<1> QED
  BY <1>2, <1>3 DEF LetThrough

\* A call that is rejected never makes the breaker half-open without a probe.
LEMMA RejectionKeeps ==
    ASSUME BreakerInv, NEW c \in Calls, Reject(c)
    PROVE  BreakerInv'
<1>0. /\ BreakerTypeOK /\ StartedBefore
      /\ OneProbe /\ ProbeDecides /\ ClosedBelowThreshold
  BY DEF BreakerInv
<1>1. state' = state
  <2>1. CASE state = "OPEN" /\ sinceOpen = OpenFor
    <3>1. MaybeHalfOpen = "HALF_OPEN"
      BY <2>1 DEF MaybeHalfOpen
    <3>2. PICK d \in Calls : role[d] = "probe"
      BY <1>0, <3>1 DEF Reject, OneProbe
    <3>3. d \in InFlight
      BY <3>2 DEF InFlight
    <3> QED
      BY <1>0, <2>1, <3>3, WindowOutlivesCalls
  <2>2. CASE ~(state = "OPEN" /\ sinceOpen = OpenFor)
    BY <2>2 DEF Reject, MaybeHalfOpen
  <2> QED
    BY <2>1, <2>2
<1> QED
  BY <1>0, <1>1 DEF Reject, BreakerInv, BreakerTypeOK, StartedBefore, OneProbe,
                    ProbeDecides, ClosedBelowThreshold, InFlight

\* What the end of a call leaves.
LEMMA CallEndKeeps ==
    ASSUME BreakerTypeOK, OneProbe, NEW c \in InFlight, End(c)
    PROVE  /\ InFlight' = InFlight \ {c}
           /\ \A d \in InFlight' : age'[d] = age[d]
           /\ OneProbe'
           /\ probing' \in BOOLEAN
           /\ role' \in [Calls -> {"idle", "call", "probe"}]
           /\ age' \in [Calls -> 0..Timeout]
<1>1. c \in Calls
  BY DEF InFlight
<1>2. InFlight' = InFlight \ {c}
  BY DEF InFlight, End, BreakerTypeOK
<1>3. \A d \in InFlight' : age'[d] = age[d]
  BY <1>2 DEF End, BreakerTypeOK, InFlight
<1>4. OneProbe'
  BY <1>1 DEF End, BreakerTypeOK, OneProbe
<1>5. probing' \in BOOLEAN
  BY DEF End
<1>6. role' \in [Calls -> {"idle", "call", "probe"}]
  BY DEF End, BreakerTypeOK
<1>7. age' \in [Calls -> 0..Timeout]
  <2>1. 0 \in 0..Timeout
    BY ThresholdAssumption, TimeoutAssumption
  <2> QED
    BY <2>1 DEF End, BreakerTypeOK
<1> QED
  BY <1>2, <1>3, <1>4, <1>5, <1>6, <1>7

\* A call that succeeds, whatever the state it finds.
LEMMA OnSuccessKeeps ==
    ASSUME BreakerInv, NEW c \in Calls, OnSuccess(c)
    PROVE  BreakerInv'
<1>0. /\ BreakerTypeOK /\ StartedBefore /\ OneProbe /\ ProbeDecides
      /\ c \in InFlight /\ End(c) /\ failures' = 0 /\ sinceOpen' = sinceOpen
      /\ state' = IF state = "HALF_OPEN" THEN "CLOSED" ELSE state
  BY DEF BreakerInv, OnSuccess
<1>1. BreakerTypeOK'
  BY <1>0, CallEndKeeps DEF BreakerTypeOK
<1>2. StartedBefore'
  BY <1>0, CallEndKeeps DEF StartedBefore
<1>3. ProbeDecides' /\ OneProbe'
  BY <1>0, CallEndKeeps DEF ProbeDecides
<1>4. ClosedBelowThreshold'
  BY <1>0, ThresholdAssumption, TimeoutAssumption DEF ClosedBelowThreshold
<1> QED
  BY <1>1, <1>2, <1>3, <1>4 DEF BreakerInv

\* A call that fails, whatever the state it finds.
LEMMA OnFailureKeeps ==
    ASSUME BreakerInv, NEW c \in Calls, OnFailure(c)
    PROVE  BreakerInv'
<1>0. /\ BreakerTypeOK /\ StartedBefore
      /\ OneProbe /\ ProbeDecides /\ ClosedBelowThreshold
      /\ c \in InFlight /\ End(c)
  BY DEF BreakerInv, OnFailure
<1>1. /\ InFlight' = InFlight \ {c} /\ OneProbe'
      /\ \A d \in InFlight' : age'[d] = age[d]
      /\ age' \in [Calls -> 0..Timeout]
  BY <1>0, CallEndKeeps
<1>2. BreakerTypeOK'
  <2>1. /\ state' \in {"CLOSED", "OPEN", "HALF_OPEN"} /\ failures' \in Nat
        /\ sinceOpen' \in 0..OpenFor
    BY <1>0, ThresholdAssumption, TimeoutAssumption DEF BreakerTypeOK, OnFailure
  <2> QED
    BY <1>0, <2>1, CallEndKeeps DEF BreakerTypeOK
<1>3. \/ state' = "OPEN" /\ sinceOpen' = 0
      \/ /\ state # "HALF_OPEN" /\ state' = state /\ sinceOpen' = sinceOpen
         /\ failures' = failures + 1 /\ ~(failures' >= Threshold)
  BY <1>0 DEF OnFailure, BreakerTypeOK
<1>4. StartedBefore'
  <2>1. CASE state' = "OPEN" /\ sinceOpen' = 0
    <3> SUFFICES ASSUME NEW d \in InFlight'
                 PROVE  age'[d] >= sinceOpen'
      BY DEF StartedBefore
    <3>1. d \in Calls
      BY <1>1 DEF InFlight
    <3>2. age'[d] \in 0..Timeout
      BY <1>1, <3>1
    <3> QED
      BY <2>1, <3>2, ThresholdAssumption, TimeoutAssumption
  <2>2. CASE state' = state /\ sinceOpen' = sinceOpen
    BY <1>0, <1>1, <2>2 DEF StartedBefore
  <2> QED
    BY <1>3, <2>1, <2>2
<1>5. ProbeDecides'
  BY <1>3 DEF ProbeDecides
<1>6. ClosedBelowThreshold'
  BY <1>0, <1>3, ThresholdAssumption, TimeoutAssumption DEF ClosedBelowThreshold, BreakerTypeOK
<1> QED
  BY <1>1, <1>2, <1>4, <1>5, <1>6 DEF BreakerInv

\* Time passes.
LEMMA WindowTickKeeps ==
    ASSUME BreakerInv, Tick
    PROVE  BreakerInv'
<1>0. /\ BreakerTypeOK /\ StartedBefore
      /\ OneProbe /\ ProbeDecides /\ ClosedBelowThreshold
      /\ UNCHANGED <<state, failures, probing, role>>
  BY DEF BreakerInv, Tick
<1>1. InFlight' = InFlight
  BY <1>0 DEF InFlight
<1>2. \A c \in InFlight : age'[c] = age[c] + 1 /\ age[c] \in 0..Timeout
  BY <1>0 DEF Tick, BreakerTypeOK, InFlight
<1>3. BreakerTypeOK'
  <2>1. sinceOpen' \in 0..OpenFor
    BY <1>0, ThresholdAssumption, TimeoutAssumption DEF Tick, BreakerTypeOK
  <2>2. age' \in [Calls -> 0..Timeout]
    BY <1>0, ThresholdAssumption, TimeoutAssumption DEF Tick, BreakerTypeOK
  <2> QED
    BY <1>0, <2>1, <2>2 DEF BreakerTypeOK
<1>4. StartedBefore'
  <2> SUFFICES ASSUME state = "OPEN", NEW c \in InFlight
               PROVE  age'[c] >= sinceOpen'
    BY <1>0, <1>1 DEF StartedBefore
  <2>1. age[c] >= sinceOpen /\ age'[c] = age[c] + 1 /\ age[c] \in 0..Timeout
    BY <1>0, <1>2 DEF StartedBefore
  <2>2. sinceOpen \in 0..OpenFor
    BY <1>0 DEF BreakerTypeOK
  <2> QED
    BY <2>1, <2>2, ThresholdAssumption, TimeoutAssumption DEF Tick
<1> QED
  BY <1>0, <1>1, <1>3, <1>4
     DEF BreakerInv, OneProbe, ProbeDecides, ClosedBelowThreshold

LEMMA BreakerKeeps == BreakerInv /\ [BreakerNext]_breakerVars => BreakerInv'
<1>1. ASSUME BreakerInv, UNCHANGED breakerVars
      PROVE  BreakerInv'
  BY <1>1 DEF BreakerInv, BreakerTypeOK, StartedBefore, OneProbe, ProbeDecides,
              ClosedBelowThreshold, InFlight, breakerVars
<1> QED
  BY <1>1, LetThroughKeeps, RejectionKeeps, OnSuccessKeeps, OnFailureKeeps, WindowTickKeeps
     DEF BreakerNext

\* Every behaviour of the breaker keeps the invariant.
THEOREM BreakerInvariant == BreakerSpec => []BreakerInv
BY BreakerStarts, BreakerKeeps, PTL DEF BreakerSpec

\* There is never more than one probe, and the flag is up exactly for it.
THEOREM AlwaysOneProbe == BreakerSpec => []OneProbe
<1>1. BreakerInv => OneProbe
  BY DEF BreakerInv
<1> QED
  BY <1>1, BreakerInvariant, PTL

\* No late result of an older call decides a half-open breaker, for any
\* number of calls, as long as a call is shorter than the window.
THEOREM OnlyTheProbeDecides == BreakerSpec => []ProbeDecides
<1>1. BreakerInv => ProbeDecides
  BY DEF BreakerInv
<1> QED
  BY <1>1, BreakerInvariant, PTL

\* The breaker's fields keep their types, and time stays within its windows.
THEOREM BreakerTypes == BreakerSpec => []BreakerTypeOK
<1>1. BreakerInv => BreakerTypeOK
  BY DEF BreakerInv
<1> QED
  BY <1>1, BreakerInvariant, PTL

\* A closed breaker has always counted fewer failures than its threshold,
\* also when calls of an earlier state of it end late.
THEOREM AlwaysBelowThreshold == BreakerSpec => []ClosedBelowThreshold
<1>1. BreakerInv => ClosedBelowThreshold
  BY DEF BreakerInv
<1> QED
  BY <1>1, BreakerInvariant, PTL

\* Every step of the adapter is one of its breaker or leaves it alone.
LEMMA BreakerStep == [Next]_vars => [BreakerNext]_breakerVars
<1> SUFFICES ASSUME [Next]_vars
             PROVE  [BreakerNext]_breakerVars
  OBVIOUS
<1>1. ASSUME NEW c \in Calls, Attempt(c) \/ Rejected(c)
      PROVE  BreakerNext
  BY <1>1 DEF Attempt, Rejected, BreakerNext
<1>2. ASSUME NEW c \in Calls, TimesOut(c) \/ Refused(c) \/ NetworkError(c) \/ Responded(c)
      PROVE  BreakerNext
  BY <1>2 DEF TimesOut, Refused, NetworkError, Responded, Fail, BreakerNext
<1>3. ASSUME NEW a \in Attempts, Arrives(a) \/ Finishes(a)
      PROVE  UNCHANGED breakerVars
  BY <1>3 DEF Arrives, Finishes, breakerVars
<1>4. CASE TimePasses
  BY <1>4 DEF TimePasses, BreakerNext
<1>5. CASE UNCHANGED vars
  BY <1>5 DEF vars, breakerVars
<1> QED
  BY <1>1, <1>2, <1>3, <1>4, <1>5 DEF Next

\* The breaker's guarantees hold inside the adapter, whatever its retries, the
\* network and the provider do: withRetry drives it by its own operations only.
THEOREM BreakerGuarantees ==
    Spec => [](OneProbe /\ ProbeDecides /\ ClosedBelowThreshold)
<1>1. Init => BreakerInv
  BY BreakerStarts DEF Init
<1>2. BreakerInv /\ [Next]_vars => BreakerInv'
  BY BreakerStep, BreakerKeeps
<1>3. BreakerInv => OneProbe /\ ProbeDecides /\ ClosedBelowThreshold
  BY DEF BreakerInv
<1> QED
  BY <1>1, <1>2, <1>3, PTL DEF Spec

(***************************************************************************)
(* The other adapter with a breaker, module Geoapify.  It is instantiated  *)
(* for its steps only: its attempts and results have nothing to do with    *)
(* those of the gateway.                                                   *)
(***************************************************************************)

Search == INSTANCE Geoapify

\* Every step of the geocoding driver is one of its breaker or leaves it alone.
LEMMA SearchStep == [Search!GeoapifyNext]_(Search!geoapifyVars) => [BreakerNext]_breakerVars
<1> SUFFICES ASSUME [Search!GeoapifyNext]_(Search!geoapifyVars)
             PROVE  [BreakerNext]_breakerVars
  OBVIOUS
<1>1. ASSUME NEW c \in Calls
      PROVE  /\ Search!LetThrough(c) => LetThrough(c)
             /\ Search!Reject(c) => Reject(c)
  BY DEF Search!LetThrough, LetThrough, Search!Reject, Reject, Search!MaybeHalfOpen,
         MaybeHalfOpen
<1>2. ASSUME NEW c \in Calls
      PROVE  /\ Search!OnSuccess(c) => OnSuccess(c)
             /\ Search!OnFailure(c) => OnFailure(c)
  BY DEF Search!OnSuccess, OnSuccess, Search!OnFailure, OnFailure, Search!End, End,
         Search!InFlight, InFlight
<1>3. Search!Tick => Tick
  BY DEF Search!Tick, Tick, Search!InFlight, InFlight
<1>4. ASSUME NEW c \in Calls, Search!Attempt(c) \/ Search!Rejected(c)
      PROVE  BreakerNext
  BY <1>1, <1>4 DEF Search!Attempt, Search!Rejected, BreakerNext
<1>5. ASSUME NEW c \in Calls, Search!Ends(c)
      PROVE  BreakerNext
  <2>1. OnSuccess(c) \/ OnFailure(c)
    BY <1>2, <1>5 DEF Search!Ends, Search!TimesOut, Search!NetworkError, Search!Responded,
                      Search!Fail
  <2> QED
    BY <2>1 DEF BreakerNext
<1>6. ASSUME NEW c \in Calls, Search!NextSearch(c)
      PROVE  UNCHANGED breakerVars
  BY <1>6 DEF Search!NextSearch, Search!breakerVars, breakerVars
<1>7. CASE Search!TimePasses
  BY <1>3, <1>7 DEF Search!TimePasses, BreakerNext
<1>8. CASE UNCHANGED Search!geoapifyVars
  BY <1>8 DEF Search!geoapifyVars, Search!breakerVars, breakerVars
<1> QED
  BY <1>4, <1>5, <1>6, <1>7, <1>8 DEF Search!GeoapifyNext

\* The breaker's guarantees hold inside the geocoding driver too, for any
\* number of callers and whatever Geoapify answers.
THEOREM SearchGuarantees ==
    Search!GeoapifySpec => [](OneProbe /\ ProbeDecides /\ ClosedBelowThreshold)
<1>1. Search!GeoapifyInit => BreakerInv
  BY BreakerStarts DEF Search!GeoapifyInit, Search!BreakerInit, BreakerInit
<1>2. BreakerInv /\ [Search!GeoapifyNext]_(Search!geoapifyVars) => BreakerInv'
  BY SearchStep, BreakerKeeps
<1>3. BreakerInv => OneProbe /\ ProbeDecides /\ ClosedBelowThreshold
  BY DEF BreakerInv
<1> QED
  BY <1>1, <1>2, <1>3, PTL DEF Search!GeoapifySpec
=============================================================================
