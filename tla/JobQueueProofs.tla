---------------------------- MODULE JobQueueProofs ----------------------------
(***************************************************************************)
(* Theorems about module JobQueue, for any number of orders, queues and    *)
(* workers and any retry limit: only confirmed orders are handled, no job  *)
(* vanishes, and a shipment is never dispatched twice.                     *)
(***************************************************************************)
EXTENDS JobQueue, TLAPS

(***************************************************************************)
(* The inductive invariant                                                 *)
(***************************************************************************)

JobStates == {"none", "created", "retry", "active", "completed", "failed"}
Handlers == [order : Orders, step : {"started", "done", "threw"}]

QueueTypeOK ==
    /\ confirmed \subseteq Orders
    /\ job \in [Jobs -> JobStates]
    /\ retries \in [Jobs -> 0..RetryLimit]
    /\ dlq \subseteq Jobs
    /\ shipments \in [Orders -> Nat \cup {None}]
    /\ logged \subseteq Jobs
    /\ work \in [Workers -> [Queues -> Handlers \cup {None}]]
    /\ late \subseteq Orders \X Nat

\* The work of job j has been done.
Effect(j) ==
    IF j[1] = "shipment.create" THEN shipments[j[2]] # None ELSE j \in logged

\* A job exists exactly if its order is confirmed, waits for a retry only
\* while it has one left, and ends with its work done or in the dead letters.
JobsSound ==
    \A j \in Jobs :
        /\ job[j] # "none" <=> j[2] \in confirmed
        /\ job[j] = "retry" => retries[j] < RetryLimit
        /\ job[j] = "completed" => Effect(j)
        /\ job[j] = "failed" <=> j \in dlq
        /\ job[j] = "failed" => retries[j] = RetryLimit

\* Worker w runs a handler of queue q for order o.
Runs(w, q, o) == work[w][q] # None /\ work[w][q].order = o

\* A job that a worker runs is active, and no other worker runs it; pg-boss is
\* told "done" only of work that was done.
HandlersSound ==
    \A w \in Workers, q \in Queues, o \in Orders :
        Runs(w, q, o) =>
            /\ job[<<q, o>>] = "active"
            /\ work[w][q].step = "done" => Effect(<<q, o>>)
            /\ \A v \in Workers : Runs(v, q, o) => v = w

LateSound == \A l \in late : l[1] \in confirmed

QueueInv ==
    QueueTypeOK /\ JobsSound /\ HandlersSound /\ LateSound /\ OnlyConfirmedHandled

LEMMA QueueInit == Init => QueueInv
<1> SUFFICES ASSUME Init
             PROVE  QueueInv
  OBVIOUS
<1>1. QueueTypeOK
  BY RetryLimitAssumption DEF Init, QueueTypeOK, JobStates
<1>2. JobsSound
  BY DEF Init, JobsSound, Jobs
<1>3. HandlersSound
  BY DEF Init, HandlersSound, Runs
<1>4. LateSound /\ OnlyConfirmedHandled
  BY DEF Init, LateSound, OnlyConfirmedHandled
<1> QED
  BY <1>1, <1>2, <1>3, <1>4 DEF QueueInv

\* A job names its queue and its order.
LEMMA JobParts ==
    /\ \A q \in Queues, o \in Orders : <<q, o>> \in Jobs
    /\ \A j \in Jobs : j[1] \in Queues /\ j[2] \in Orders /\ j = <<j[1], j[2]>>
BY DEF Jobs

\* What a worker runs is a handler of its order.
LEMMA RunsOrder ==
    ASSUME QueueTypeOK, NEW w \in Workers, NEW q \in Queues, work[w][q] # None
    PROVE  /\ work[w][q] \in Handlers /\ work[w][q].order \in Orders
           /\ Runs(w, q, work[w][q].order)
           /\ <<q, work[w][q].order>> \in Jobs
BY JobParts DEF QueueTypeOK, Handlers, Runs

(***************************************************************************)
(* What the steps keep                                                     *)
(***************************************************************************)

\* Work that was done stays done.
EffectsKept == /\ \A o \in Orders : shipments[o] # None => shipments'[o] = shipments[o]
               /\ logged \subseteq logged'

LEMMA EffectStays ==
    ASSUME EffectsKept, NEW j \in Jobs, Effect(j)
    PROVE  Effect(j)'
BY JobParts DEF EffectsKept, Effect

\* The workers give up handlers, and active jobs that nobody runs any more
\* fail: a retry, or the dead letters after the last one.
LEMMA FailJobKeeps ==
    ASSUME QueueInv, NEW failing \in SUBSET Jobs,
           \A j \in failing : job[j] = "active",
           FailJob(failing),
           UNCHANGED <<confirmed, retries, effectVars>>,
           work' \in [Workers -> [Queues -> Handlers \cup {None}]],
           \A w \in Workers, q \in Queues :
               \/ work'[w][q] = None
               \/ work'[w][q] = work[w][q] /\ <<q, work[w][q].order>> \notin failing,
           late' \subseteq Orders \X Nat,
           \A l \in late' : l[1] \in confirmed
    PROVE  QueueInv'
<1>0. QueueTypeOK /\ JobsSound /\ HandlersSound /\ OnlyConfirmedHandled
  BY DEF QueueInv
<1>1. /\ job' = [j \in Jobs |-> IF j \notin failing THEN job[j]
                               ELSE IF retries[j] < RetryLimit THEN "retry" ELSE "failed"]
      /\ dlq' = dlq \cup {j \in failing : retries[j] >= RetryLimit}
  BY DEF FailJob
<1>2. UNCHANGED <<shipments, logged>>
  BY DEF effectVars
<1>3. \A j \in Jobs : Effect(j)' <=> Effect(j)
  BY <1>2 DEF Effect
<1>4. QueueTypeOK'
  <2>1. job' \in [Jobs -> JobStates]
    BY <1>0, <1>1 DEF QueueTypeOK, JobStates
  <2>2. dlq' \subseteq Jobs
    BY <1>0, <1>1 DEF QueueTypeOK
  <2> QED
    BY <1>0, <1>2, <2>1, <2>2 DEF QueueTypeOK
<1>5. JobsSound'
  <2> SUFFICES ASSUME NEW j \in Jobs
               PROVE  /\ job'[j] # "none" <=> j[2] \in confirmed
                      /\ job'[j] = "retry" => retries[j] < RetryLimit
                      /\ job'[j] = "completed" => Effect(j)
                      /\ job'[j] = "failed" <=> j \in dlq'
                      /\ job'[j] = "failed" => retries[j] = RetryLimit
    BY <1>3 DEF JobsSound
  <2>1. retries[j] \in 0..RetryLimit
    BY <1>0 DEF QueueTypeOK
  <2>2. /\ job[j] # "none" <=> j[2] \in confirmed
        /\ job[j] = "retry" => retries[j] < RetryLimit
        /\ job[j] = "completed" => Effect(j)
        /\ job[j] = "failed" <=> j \in dlq
        /\ job[j] = "failed" => retries[j] = RetryLimit
    BY <1>0 DEF JobsSound
  <2>3. CASE j \notin failing
    BY <1>1, <2>2, <2>3
  <2>4. CASE j \in failing
    BY <1>1, <2>1, <2>2, <2>4, RetryLimitAssumption
  <2> QED
    BY <2>3, <2>4
<1>6. HandlersSound'
  <2> SUFFICES ASSUME NEW w \in Workers, NEW q \in Queues, NEW o \in Orders, Runs(w, q, o)'
               PROVE  /\ job'[<<q, o>>] = "active"
                      /\ work'[w][q].step = "done" => Effect(<<q, o>>)'
                      /\ \A v \in Workers : Runs(v, q, o)' => v = w
    BY DEF HandlersSound
  <2>1. \A v \in Workers : Runs(v, q, o)' => Runs(v, q, o) /\ work'[v][q] = work[v][q]
    BY DEF Runs
  <2>2. <<q, o>> \in Jobs /\ <<q, o>> \notin failing
    BY JobParts DEF Runs
  <2>3. job'[<<q, o>>] = job[<<q, o>>]
    BY <1>1, <2>2
  <2> QED
    BY <1>0, <1>3, <2>1, <2>2, <2>3 DEF HandlersSound
<1>7. LateSound' /\ OnlyConfirmedHandled'
  BY <1>0, <1>2 DEF LateSound, OnlyConfirmedHandled
<1> QED
  BY <1>4, <1>5, <1>6, <1>7 DEF QueueInv

\* The same without a failure: a crash, or a report that is lost.
LEMMA GiveUpKeeps ==
    ASSUME QueueInv, UNCHANGED <<confirmed, jobVars, effectVars>>,
           work' \in [Workers -> [Queues -> Handlers \cup {None}]],
           \A w \in Workers, q \in Queues :
               work'[w][q] = None \/ work'[w][q] = work[w][q],
           late' \subseteq Orders \X Nat,
           \A l \in late' : l[1] \in confirmed
    PROVE  QueueInv'
<1>1. job = [j \in Jobs |-> job[j]]
  BY DEF QueueInv, QueueTypeOK
<1>2. UNCHANGED <<job, retries, dlq>>
  BY DEF jobVars
<1>3. FailJob({})
  BY <1>1, <1>2 DEF FailJob
<1> QED
  BY <1>2, <1>3, FailJobKeeps

\* The inserts that a worker leaves behind are of confirmed orders.
LEMMA AbandonedSound ==
    ASSUME QueueInv, NEW w \in Workers, NEW qs \in SUBSET Queues,
           late' \subseteq late \cup Abandoned(w, qs)
    PROVE  late' \subseteq Orders \X Nat /\ \A l \in late' : l[1] \in confirmed
<1>0. QueueTypeOK /\ JobsSound /\ HandlersSound /\ LateSound
  BY DEF QueueInv
<1>1. ASSUME NEW l \in Abandoned(w, qs)
      PROVE  l \in Orders \X Nat /\ l[1] \in confirmed
  <2>1. PICK q \in Unfinished(w, qs) \cap {"shipment.create"} :
            l = <<work[w][q].order, retries[<<q, work[w][q].order>>] + 1>>
    BY <1>1 DEF Abandoned
  <2>2. q \in Queues /\ work[w][q] # None
    BY <2>1 DEF Unfinished
  <2> DEFINE o == work[w][q].order
  <2>3. o \in Orders /\ Runs(w, q, o) /\ <<q, o>> \in Jobs
    BY <1>0, <2>2, RunsOrder
  <2>4. job[<<q, o>>] = "active"
    BY <1>0, <2>2, <2>3 DEF HandlersSound
  <2>5. <<q, o>>[2] \in confirmed
    BY <1>0, <2>3, <2>4 DEF JobsSound
  <2>6. retries[<<q, o>>] + 1 \in Nat
    BY <1>0, <2>3, RetryLimitAssumption DEF QueueTypeOK
  <2> QED
    BY <2>1, <2>3, <2>5, <2>6
<1> QED
  BY <1>0, <1>1 DEF QueueTypeOK, LateSound

(***************************************************************************)
(* One lemma per kind of step                                              *)
(***************************************************************************)

\* The jobs of an order are created in the transaction that confirms it.
LEMMA ConfirmKeeps ==
    ASSUME QueueInv, NEW o \in Orders, ConfirmOrder(o)
    PROVE  QueueInv'
<1>0. QueueTypeOK /\ JobsSound /\ HandlersSound /\ LateSound /\ OnlyConfirmedHandled
  BY DEF QueueInv
<1>1. PICK commits \in BOOLEAN :
          /\ confirmed' = IF commits THEN confirmed \cup {o} ELSE confirmed
          /\ job' = [j \in Jobs |-> IF j[2] = o /\ commits THEN "created" ELSE job[j]]
  BY DEF ConfirmOrder, Publish
<1>2. o \notin confirmed /\ UNCHANGED <<retries, dlq, shipments, logged, work, late>>
  BY DEF ConfirmOrder, effectVars
<1>3. \A j \in Jobs : Effect(j)' <=> Effect(j)
  BY <1>2 DEF Effect
<1>4. QueueTypeOK'
  <2>1. job' \in [Jobs -> JobStates]
    BY <1>0, <1>1 DEF QueueTypeOK, JobStates
  <2> QED
    BY <1>0, <1>1, <1>2, <2>1 DEF QueueTypeOK
<1>5. JobsSound'
  BY <1>0, <1>1, <1>2, <1>3 DEF JobsSound
<1>6. \A j \in Jobs : job[j] = "active" => job'[j] = "active"
  BY <1>0, <1>1, <1>2 DEF JobsSound
<1>7. HandlersSound'
  BY <1>0, <1>2, <1>3, <1>6, JobParts DEF HandlersSound, Runs
<1>8. LateSound' /\ OnlyConfirmedHandled'
  BY <1>0, <1>1, <1>2 DEF LateSound, OnlyConfirmedHandled
<1> QED
  BY <1>4, <1>5, <1>7, <1>8 DEF QueueInv

\* A job that is fetched becomes active and has its one handler.
LEMMA FetchKeeps ==
    ASSUME QueueInv, NEW w \in Workers, NEW q \in Queues, NEW o \in Orders,
           Fetch(w, q, o)
    PROVE  QueueInv'
<1> DEFINE f == <<q, o>>
           h == [order |-> o, step |-> "started"]
<1>0. QueueTypeOK /\ JobsSound /\ HandlersSound /\ LateSound /\ OnlyConfirmedHandled
  BY DEF QueueInv
<1>1. /\ job[f] \in {"created", "retry"}
      /\ retries' = [retries EXCEPT ![f] = IF job[f] = "retry" THEN @ + 1 ELSE @]
      /\ job' = [job EXCEPT ![f] = "active"]
      /\ work' = [work EXCEPT ![w][q] = h]
      /\ UNCHANGED <<confirmed, dlq, shipments, logged, late>>
  BY DEF Fetch, effectVars
<1>2. f \in Jobs /\ h \in Handlers
  BY JobParts DEF Handlers
<1>3. \A j \in Jobs : Effect(j)' <=> Effect(j)
  BY <1>1 DEF Effect
<1>4. QueueTypeOK'
  <2>1. job' \in [Jobs -> JobStates]
    BY <1>0, <1>1, <1>2 DEF QueueTypeOK, JobStates
  <2>2. retries' \in [Jobs -> 0..RetryLimit]
    <3>1. job[f] = "retry" => retries[f] < RetryLimit
      BY <1>0, <1>2 DEF JobsSound
    <3> QED
      BY <1>0, <1>1, <1>2, <3>1, RetryLimitAssumption DEF QueueTypeOK
  <2>3. work' \in [Workers -> [Queues -> Handlers \cup {None}]]
    BY <1>0, <1>1, <1>2 DEF QueueTypeOK
  <2> QED
    BY <1>0, <1>1, <2>1, <2>2, <2>3 DEF QueueTypeOK
<1>5. JobsSound'
  <2> SUFFICES ASSUME NEW j \in Jobs
               PROVE  /\ job'[j] # "none" <=> j[2] \in confirmed
                      /\ job'[j] = "retry" => retries'[j] < RetryLimit
                      /\ job'[j] = "completed" => Effect(j)
                      /\ job'[j] = "failed" <=> j \in dlq
                      /\ job'[j] = "failed" => retries'[j] = RetryLimit
    BY <1>1, <1>3 DEF JobsSound
  <2>1. CASE j = f
    BY <1>0, <1>1, <1>2, <2>1 DEF JobsSound, QueueTypeOK
  <2>2. CASE j # f
    <3>1. job'[j] = job[j] /\ retries'[j] = retries[j]
      BY <1>0, <1>1, <1>2, <2>2 DEF QueueTypeOK
    <3> QED
      BY <1>0, <3>1 DEF JobsSound
  <2> QED
    BY <2>1, <2>2
<1>6. HandlersSound'
  <2> SUFFICES ASSUME NEW v \in Workers, NEW p \in Queues, NEW x \in Orders,
                      Runs(v, p, x)'
               PROVE  /\ job'[<<p, x>>] = "active"
                      /\ work'[v][p].step = "done" => Effect(<<p, x>>)'
                      /\ \A u \in Workers : Runs(u, p, x)' => u = v
    BY DEF HandlersSound
  <2>1. \A u \in Workers, s \in Queues :
            work'[u][s] = IF u = w /\ s = q THEN h ELSE work[u][s]
    BY <1>0, <1>1 DEF QueueTypeOK
  <2>2. \A u \in Workers : ~Runs(u, q, o)
    BY <1>0, <1>1 DEF HandlersSound
  <2>3. <<p, x>> \in Jobs
    BY JobParts
  <2>4. CASE p = q /\ x = o
    <3>1. \A u \in Workers : Runs(u, q, o)' => u = w
      BY <2>1, <2>2 DEF Runs
    <3>2. v = w /\ work'[v][p] = h
      BY <2>1, <2>4, <3>1
    <3>3. job'[<<p, x>>] = "active"
      BY <1>0, <1>1, <1>2, <2>4 DEF QueueTypeOK
    <3> QED
      BY <2>4, <3>1, <3>2, <3>3
  <2>5. CASE ~(p = q /\ x = o)
    <3>1. \A u \in Workers : Runs(u, p, x)' =>
              Runs(u, p, x) /\ work'[u][p] = work[u][p]
      BY <2>1, <2>5 DEF Runs
    <3>2. job'[<<p, x>>] = job[<<p, x>>]
      BY <1>0, <1>1, <2>3, <2>5 DEF QueueTypeOK
    <3> QED
      BY <1>0, <1>3, <2>3, <3>1, <3>2 DEF HandlersSound
  <2> QED
    BY <2>4, <2>5
<1>7. LateSound' /\ OnlyConfirmedHandled'
  BY <1>0, <1>1 DEF LateSound, OnlyConfirmedHandled
<1> QED
  BY <1>4, <1>5, <1>6, <1>7 DEF QueueInv

\* A handler's work is done, or it throws: one handler moves on, and what was
\* done stays done.
LEMMA HandlerMoves ==
    ASSUME QueueInv, NEW w \in Workers, NEW q \in Queues,
           work[w][q] # None, work[w][q].step = "started",
           NEW step \in {"done", "threw"},
           work' = [work EXCEPT ![w][q].step = step],
           UNCHANGED <<confirmed, jobVars, late>>,
           shipments' \in [Orders -> Nat \cup {None}], logged' \subseteq Jobs,
           EffectsKept, OnlyConfirmedHandled',
           step = "done" => Effect(<<q, work[w][q].order>>)'
    PROVE  QueueInv'
<1> DEFINE h == work[w][q]
           g == [h EXCEPT !.step = step]
<1>0. QueueTypeOK /\ JobsSound /\ HandlersSound /\ LateSound
  BY DEF QueueInv
<1>1. UNCHANGED <<job, retries, dlq>>
  BY DEF jobVars
<1>2. h \in Handlers /\ g \in Handlers /\ g.order = h.order /\ g.step = step
  BY <1>0, RunsOrder DEF Handlers
<1>3. \A u \in Workers, s \in Queues :
          work'[u][s] = IF u = w /\ s = q THEN g ELSE work[u][s]
  BY <1>0 DEF QueueTypeOK
<1>4. QueueTypeOK'
  <2>1. work' \in [Workers -> [Queues -> Handlers \cup {None}]]
    BY <1>0, <1>2 DEF QueueTypeOK
  <2> QED
    BY <1>0, <1>1, <2>1 DEF QueueTypeOK
<1>5. JobsSound'
  BY <1>0, <1>1, EffectStays DEF JobsSound
<1>6. HandlersSound'
  <2> SUFFICES ASSUME NEW v \in Workers, NEW p \in Queues, NEW x \in Orders,
                      Runs(v, p, x)'
               PROVE  /\ job'[<<p, x>>] = "active"
                      /\ work'[v][p].step = "done" => Effect(<<p, x>>)'
                      /\ \A u \in Workers : Runs(u, p, x)' => u = v
    BY DEF HandlersSound
  <2> HIDE DEF g
  <2>1. \A u \in Workers : Runs(u, p, x)' => Runs(u, p, x)
    BY <1>2, <1>3 DEF Runs
  <2>2. <<p, x>> \in Jobs
    BY JobParts
  <2>3. CASE v = w /\ p = q
    <3>1. x = h.order /\ work'[v][p].step = step
      BY <1>2, <1>3, <2>3 DEF Runs
    <3> QED
      BY <1>0, <1>1, <2>1, <2>3, <3>1 DEF HandlersSound
  <2>4. CASE ~(v = w /\ p = q)
    <3>1. work'[v][p] = work[v][p]
      BY <1>3, <2>4
    <3>2. Runs(v, p, x)
      BY <3>1 DEF Runs
    <3>3. /\ job[<<p, x>>] = "active"
          /\ work[v][p].step = "done" => Effect(<<p, x>>)
          /\ \A u \in Workers : Runs(u, p, x) => u = v
      BY <1>0, <3>2 DEF HandlersSound
    <3>4. Effect(<<p, x>>) => Effect(<<p, x>>)'
      BY <2>2, EffectStays
    <3> QED
      BY <1>1, <2>1, <3>1, <3>3, <3>4
  <2> QED
    BY <2>3, <2>4
<1>7. LateSound'
  BY <1>0 DEF LateSound
<1> QED
  BY <1>4, <1>5, <1>6, <1>7 DEF QueueInv

\* A row of shipments is inserted once, for a confirmed order.
LEMMA InsertKeeps ==
    ASSUME QueueTypeOK, OnlyConfirmedHandled, NEW o \in Orders, o \in confirmed,
           NEW n \in Nat, shipments' = InsertShipment(o, n),
           UNCHANGED <<confirmed, logged>>
    PROVE  /\ shipments' \in [Orders -> Nat \cup {None}] /\ shipments'[o] # None
           /\ EffectsKept /\ OnlyConfirmedHandled'
<1>1. shipments' = [shipments EXCEPT ![o] = IF shipments[o] = None THEN n ELSE shipments[o]]
  BY DEF InsertShipment
<1>2. shipments' \in [Orders -> Nat \cup {None}] /\ shipments'[o] # None
  BY <1>1, NoneAssumption DEF QueueTypeOK
<1>3. \A x \in Orders : x # o => shipments'[x] = shipments[x]
  BY <1>1 DEF QueueTypeOK
<1>4. EffectsKept
  BY <1>1 DEF EffectsKept, QueueTypeOK
<1> QED
  BY <1>2, <1>3, <1>4 DEF OnlyConfirmedHandled

LEMMA HandlesKeeps ==
    ASSUME QueueInv, NEW w \in Workers, NEW q \in Queues, Handles(w, q) \/ Throws(w, q)
    PROVE  QueueInv'
<1> DEFINE o == work[w][q].order
<1>0. QueueTypeOK /\ JobsSound /\ HandlersSound /\ OnlyConfirmedHandled
  BY DEF QueueInv
<1>1. /\ work[w][q] # None /\ work[w][q].step = "started"
      /\ UNCHANGED <<confirmed, jobVars, late>>
  BY DEF Handles, Throws
<1>2. o \in Orders /\ Runs(w, q, o) /\ <<q, o>> \in Jobs
  BY <1>0, <1>1, RunsOrder
<1>3. o \in confirmed
  <2>1. job[<<q, o>>] = "active"
    BY <1>0, <1>2 DEF HandlersSound
  <2>2. <<q, o>>[2] \in confirmed
    BY <1>0, <1>2, <2>1 DEF JobsSound
  <2> QED
    BY <2>2
<1>4. CASE Throws(w, q)
  <2>1. UNCHANGED <<shipments, logged>>
    BY <1>4 DEF Throws, effectVars
  <2>2. /\ shipments' \in [Orders -> Nat \cup {None}] /\ logged' \subseteq Jobs
        /\ EffectsKept /\ OnlyConfirmedHandled'
    BY <1>0, <1>1, <2>1 DEF QueueTypeOK, EffectsKept, OnlyConfirmedHandled
  <2>3. work' = [work EXCEPT ![w][q].step = "threw"]
    BY <1>4 DEF Throws
  <2> QED
    BY <1>1, <2>2, <2>3, HandlerMoves
<1>5. CASE Handles(w, q) /\ q = "shipment.create"
  <2>1. /\ shipments' = InsertShipment(o, retries[<<q, o>>] + 1)
        /\ work' = [work EXCEPT ![w][q].step = "done"] /\ UNCHANGED logged
    BY <1>5 DEF Handles
  <2>2. retries[<<q, o>>] + 1 \in Nat
    BY <1>0, <1>2, RetryLimitAssumption DEF QueueTypeOK
  <2>3. /\ shipments' \in [Orders -> Nat \cup {None}] /\ shipments'[o] # None
        /\ EffectsKept /\ OnlyConfirmedHandled'
    BY <1>0, <1>1, <1>2, <1>3, <2>1, <2>2, InsertKeeps
  <2>4. logged' \subseteq Jobs /\ Effect(<<q, o>>)'
    BY <1>0, <1>5, <2>1, <2>3 DEF QueueTypeOK, Effect
  <2> QED
    BY <1>1, <2>1, <2>3, <2>4, HandlerMoves
<1>6. CASE Handles(w, q) /\ q # "shipment.create"
  <2>1. /\ logged' = logged \cup {<<q, o>>}
        /\ work' = [work EXCEPT ![w][q].step = "done"] /\ UNCHANGED shipments
    BY <1>6 DEF Handles
  <2>2. /\ shipments' \in [Orders -> Nat \cup {None}] /\ logged' \subseteq Jobs
        /\ EffectsKept
    BY <1>0, <1>2, <2>1 DEF QueueTypeOK, EffectsKept
  <2>3. OnlyConfirmedHandled'
    BY <1>0, <1>1, <1>3, <2>1 DEF OnlyConfirmedHandled
  <2>4. Effect(<<q, o>>)'
    BY <1>6, <2>1 DEF Effect
  <2> QED
    BY <1>1, <2>1, <2>2, <2>3, <2>4, HandlerMoves
<1> QED
  BY <1>4, <1>5, <1>6 DEF Handles

\* A handler that was given up on may still insert its shipment.
LEMMA LateInsertKeeps ==
    ASSUME QueueInv, NEW l \in late, LateInsert(l)
    PROVE  QueueInv'
<1>0. QueueTypeOK /\ JobsSound /\ HandlersSound /\ LateSound /\ OnlyConfirmedHandled
  BY DEF QueueInv
<1>1. /\ shipments' = InsertShipment(l[1], l[2]) /\ late' = late \ {l}
      /\ UNCHANGED <<confirmed, job, retries, dlq, logged, work>>
  BY DEF LateInsert, jobVars
<1>2. l[1] \in Orders /\ l[2] \in Nat /\ l[1] \in confirmed
  BY <1>0 DEF QueueTypeOK, LateSound
<1>3. /\ shipments' \in [Orders -> Nat \cup {None}]
      /\ EffectsKept /\ OnlyConfirmedHandled'
  BY <1>0, <1>1, <1>2, InsertKeeps
<1>4. QueueTypeOK'
  BY <1>0, <1>1, <1>3 DEF QueueTypeOK
<1>5. JobsSound'
  BY <1>0, <1>1, <1>3, EffectStays DEF JobsSound
<1>6. HandlersSound'
  BY <1>0, <1>1, <1>3, EffectStays, JobParts DEF HandlersSound, Runs
<1>7. LateSound'
  BY <1>0, <1>1 DEF LateSound
<1> QED
  BY <1>3, <1>4, <1>5, <1>6, <1>7 DEF QueueInv

\* A worker that lets go of one handler keeps the others.
LEMMA LetsGo ==
    ASSUME QueueInv, NEW w \in Workers, NEW q \in Queues,
           work' = [work EXCEPT ![w][q] = None]
    PROVE  /\ work' \in [Workers -> [Queues -> Handlers \cup {None}]]
           /\ \A u \in Workers, s \in Queues :
                  work'[u][s] = IF u = w /\ s = q THEN None ELSE work[u][s]
BY DEF QueueInv, QueueTypeOK

\* The job of a handler that is let go of is active, and nobody else runs it.
LEMMA OneHandler ==
    ASSUME QueueInv, NEW w \in Workers, NEW q \in Queues, work[w][q] # None
    PROVE  /\ <<q, work[w][q].order>> \in Jobs
           /\ job[<<q, work[w][q].order>>] = "active"
           /\ \A u \in Workers, s \in Queues :
                  (work[u][s] # None /\ <<s, work[u][s].order>> = <<q, work[w][q].order>>)
                      => u = w /\ s = q
<1> DEFINE o == work[w][q].order
<1>0. QueueTypeOK /\ HandlersSound
  BY DEF QueueInv
<1>1. o \in Orders /\ Runs(w, q, o) /\ <<q, o>> \in Jobs
  BY <1>0, RunsOrder
<1>2. /\ job[<<q, o>>] = "active"
      /\ \A u \in Workers : Runs(u, q, o) => u = w
  BY <1>0, <1>1 DEF HandlersSound
<1> QED
  BY <1>1, <1>2 DEF Runs

\* pg-boss is told of the end: completed, or failed as FailJob says.
LEMMA ReportKeeps ==
    ASSUME QueueInv, NEW w \in Workers, NEW q \in Queues, Report(w, q)
    PROVE  QueueInv'
<1> DEFINE j == <<q, work[w][q].order>>
<1>0. QueueTypeOK /\ JobsSound /\ HandlersSound /\ LateSound /\ OnlyConfirmedHandled
  BY DEF QueueInv
<1>1. /\ work[w][q] # None /\ work' = [work EXCEPT ![w][q] = None]
      /\ UNCHANGED <<confirmed, retries, shipments, logged, late>>
  BY DEF Report, effectVars
<1>2. /\ work' \in [Workers -> [Queues -> Handlers \cup {None}]]
      /\ \A u \in Workers, s \in Queues :
             work'[u][s] = IF u = w /\ s = q THEN None ELSE work[u][s]
  BY <1>1, LetsGo
<1>3. /\ j \in Jobs /\ job[j] = "active"
      /\ \A u \in Workers, s \in Queues :
             (work[u][s] # None /\ <<s, work[u][s].order>> = j) => u = w /\ s = q
  BY <1>1, OneHandler
<1>4. \A u \in Workers, s \in Queues :
          \/ work'[u][s] = None
          \/ work'[u][s] = work[u][s] /\ <<s, work[u][s].order>> # j
  BY <1>2, <1>3
<1>5. CASE work[w][q].step = "threw" /\ FailJob({j})
  <2>1. late' \subseteq Orders \X Nat /\ \A l \in late' : l[1] \in confirmed
    BY <1>0, <1>1 DEF QueueTypeOK, LateSound
  <2>2. UNCHANGED <<confirmed, retries, effectVars>>
    BY <1>1 DEF effectVars
  <2>3. \A u \in Workers, s \in Queues :
            \/ work'[u][s] = None
            \/ work'[u][s] = work[u][s] /\ <<s, work[u][s].order>> \notin {j}
    BY <1>4
  <2> HIDE DEF j
  <2> QED
    BY <1>2, <1>3, <1>5, <2>1, <2>2, <2>3, FailJobKeeps
<1>6. CASE /\ work[w][q].step = "done"
           /\ job' = [job EXCEPT ![j] = "completed"] /\ UNCHANGED dlq
  <2>1. Effect(j)
    BY <1>0, <1>1, <1>6, RunsOrder DEF HandlersSound
  <2> HIDE DEF j
  <2>2. \A k \in Jobs : job'[k] = IF k = j THEN "completed" ELSE job[k]
    BY <1>0, <1>3, <1>6 DEF QueueTypeOK
  <2>3. \A k \in Jobs : Effect(k)' <=> Effect(k)
    BY <1>1 DEF Effect
  <2>4. QueueTypeOK'
    <3>1. job' \in [Jobs -> JobStates]
      BY <1>0, <1>3, <1>6 DEF QueueTypeOK, JobStates
    <3> QED
      BY <1>0, <1>1, <1>2, <1>6, <3>1 DEF QueueTypeOK
  <2>5. JobsSound'
    BY <1>0, <1>1, <1>3, <1>6, <2>1, <2>2, <2>3 DEF JobsSound
  <2>6. HandlersSound'
    <3> SUFFICES ASSUME NEW v \in Workers, NEW p \in Queues, NEW x \in Orders,
                        Runs(v, p, x)'
                 PROVE  /\ job'[<<p, x>>] = "active"
                        /\ work'[v][p].step = "done" => Effect(<<p, x>>)'
                        /\ \A u \in Workers : Runs(u, p, x)' => u = v
      BY DEF HandlersSound
    <3>1. \A u \in Workers : Runs(u, p, x)' => Runs(u, p, x) /\ work'[u][p] = work[u][p]
      BY <1>4 DEF Runs
    <3>2. <<p, x>> \in Jobs /\ <<p, x>> # j
      BY <1>4, JobParts DEF Runs
    <3> QED
      BY <1>0, <2>2, <2>3, <3>1, <3>2 DEF HandlersSound
  <2>7. LateSound' /\ OnlyConfirmedHandled'
    BY <1>0, <1>1 DEF LateSound, OnlyConfirmedHandled
  <2> QED
    BY <2>4, <2>5, <2>6, <2>7 DEF QueueInv
<1> QED
  BY <1>5, <1>6 DEF Report

\* A report that is lost leaves the job active, with nobody running it.
LEMMA ReportLostKeeps ==
    ASSUME QueueInv, NEW w \in Workers, NEW q \in Queues, ReportLost(w, q)
    PROVE  QueueInv'
<1>1. /\ work' = [work EXCEPT ![w][q] = None]
      /\ UNCHANGED <<confirmed, jobVars, effectVars, late>>
  BY DEF ReportLost
<1>2. /\ work' \in [Workers -> [Queues -> Handlers \cup {None}]]
      /\ \A u \in Workers, s \in Queues :
             work'[u][s] = None \/ work'[u][s] = work[u][s]
  BY <1>1, SMT DEF QueueInv, QueueTypeOK
<1>3. late' \subseteq Orders \X Nat /\ \A l \in late' : l[1] \in confirmed
  BY <1>1 DEF QueueInv, QueueTypeOK, LateSound
<1> QED
  BY <1>1, <1>2, <1>3, GiveUpKeeps

\* A handler outlives its job.
LEMMA HandlerExpiresKeeps ==
    ASSUME QueueInv, NEW w \in Workers, NEW q \in Queues, HandlerExpires(w, q)
    PROVE  QueueInv'
<1> DEFINE j == <<q, work[w][q].order>>
<1>1. /\ work[w][q] # None /\ work' = [work EXCEPT ![w][q] = None]
      /\ FailJob({j}) /\ late' = late \cup Abandoned(w, {q})
      /\ UNCHANGED <<confirmed, retries, effectVars>>
  BY DEF HandlerExpires, Unfinished
<1>2. /\ work' \in [Workers -> [Queues -> Handlers \cup {None}]]
      /\ \A u \in Workers, s \in Queues :
             work'[u][s] = IF u = w /\ s = q THEN None ELSE work[u][s]
  BY <1>1, SMT DEF QueueInv, QueueTypeOK
<1>3. /\ j \in Jobs /\ job[j] = "active"
      /\ \A u \in Workers, s \in Queues :
             (work[u][s] # None /\ <<s, work[u][s].order>> = j) => u = w /\ s = q
  BY <1>1, OneHandler
<1>4. \A u \in Workers, s \in Queues :
          \/ work'[u][s] = None
          \/ work'[u][s] = work[u][s] /\ <<s, work[u][s].order>> \notin {j}
  BY <1>2, <1>3
<1>5. late' \subseteq Orders \X Nat /\ \A l \in late' : l[1] \in confirmed
  <2>1. {q} \in SUBSET Queues /\ late' \subseteq late \cup Abandoned(w, {q})
    BY <1>1
  <2> QED
    BY <2>1, AbandonedSound
<1>6. {j} \in SUBSET Jobs /\ \A i \in {j} : job[i] = "active"
  BY <1>3
<1> HIDE DEF j
<1> QED
  BY <1>1, <1>2, <1>4, <1>5, <1>6, FailJobKeeps

\* The supervisor fails an active job that nobody runs.
LEMMA ExpireKeeps ==
    ASSUME QueueInv, NEW j \in Jobs, Expire(j)
    PROVE  QueueInv'
<1>0. QueueTypeOK /\ LateSound
  BY DEF QueueInv
<1>1. /\ job[j] = "active" /\ FailJob({j})
      /\ ~ \E w \in Workers : work[w][j[1]] # None /\ work[w][j[1]].order = j[2]
      /\ UNCHANGED <<confirmed, retries, effectVars, work, late>>
  BY DEF Expire
<1>2. \A u \in Workers, s \in Queues :
          \/ work'[u][s] = None
          \/ work'[u][s] = work[u][s] /\ <<s, work[u][s].order>> \notin {j}
  BY <1>1
<1>3. /\ work' \in [Workers -> [Queues -> Handlers \cup {None}]]
      /\ late' \subseteq Orders \X Nat /\ \A l \in late' : l[1] \in confirmed
  BY <1>0, <1>1 DEF QueueTypeOK, LateSound
<1> QED
  BY <1>1, <1>2, <1>3, FailJobKeeps

\* A worker that ends lets go of every handler; a stop fails their jobs, a
\* crash leaves them active.
LEMMA WorkerEndsKeeps ==
    ASSUME QueueInv, NEW w \in Workers, Stopped(w) \/ Crash(w)
    PROVE  QueueInv'
<1> DEFINE held == {q \in Queues : work[w][q] # None}
           failing == {<<q, work[w][q].order>> : q \in held}
<1>0. QueueTypeOK
  BY DEF QueueInv
<1>1. /\ work' = [work EXCEPT ![w] = [q \in Queues |-> None]]
      /\ late' \subseteq late \cup Abandoned(w, Queues)
      /\ UNCHANGED <<confirmed, retries, effectVars>>
  BY DEF Stopped, Crash, jobVars
<1>2. /\ work' \in [Workers -> [Queues -> Handlers \cup {None}]]
      /\ \A u \in Workers, s \in Queues :
             work'[u][s] = IF u = w THEN None ELSE work[u][s]
  BY <1>0, <1>1 DEF QueueTypeOK
<1>3. late' \subseteq Orders \X Nat /\ \A l \in late' : l[1] \in confirmed
  BY <1>1, AbandonedSound
<1>4. CASE Stopped(w)
  <2>1. FailJob(failing)
    BY <1>4 DEF Stopped
  <2>2. failing \in SUBSET Jobs /\ \A j \in failing : job[j] = "active"
    BY OneHandler
  <2>3. ASSUME NEW u \in Workers, NEW s \in Queues
        PROVE  \/ work'[u][s] = None
               \/ work'[u][s] = work[u][s] /\ <<s, work[u][s].order>> \notin failing
    <3> SUFFICES ASSUME u # w, work[u][s] # None, <<s, work[u][s].order>> \in failing
                 PROVE  FALSE
      BY <1>2
    <3>1. PICK q \in held : <<s, work[u][s].order>> = <<q, work[w][q].order>>
      OBVIOUS
    <3>2. q \in Queues /\ work[w][q] # None
      OBVIOUS
    <3>3. \A v \in Workers, p \in Queues :
              (work[v][p] # None /\ <<p, work[v][p].order>> = <<q, work[w][q].order>>)
                  => v = w /\ p = q
      BY <3>2, OneHandler
    <3> HIDE DEF held, failing
    <3> QED
      BY <3>1, <3>3
  <2> HIDE DEF failing
  <2> QED
    BY <1>1, <1>2, <1>3, <2>1, <2>2, <2>3, FailJobKeeps
<1>5. CASE Crash(w)
  <2>1. UNCHANGED jobVars
    BY <1>5 DEF Crash
  <2> QED
    BY <1>1, <1>2, <1>3, <2>1, GiveUpKeeps
<1> QED
  BY <1>4, <1>5

\* Starting and stopping a worker touches no job.
LEMMA IdleKeeps ==
    ASSUME QueueInv, UNCHANGED <<confirmed, jobVars, effectVars, work, late>>
    PROVE  QueueInv'
<1>1. UNCHANGED <<confirmed, job, retries, dlq, shipments, logged, work, late>>
  BY DEF jobVars, effectVars
<1> QED
  BY <1>1 DEF QueueInv, QueueTypeOK, JobsSound, HandlersSound, LateSound,
              OnlyConfirmedHandled, Runs, Effect

LEMMA QueueNext == QueueInv /\ [Next]_vars => QueueInv'
<1> SUFFICES ASSUME QueueInv, [Next]_vars
             PROVE  QueueInv'
  OBVIOUS
<1>1. CASE \E o \in Orders : ConfirmOrder(o)
  BY <1>1, ConfirmKeeps
<1>2. ASSUME NEW w \in Workers, Boot(w) \/ StartStep(w) \/ Stop(w) \/ Stopped(w) \/ Crash(w)
      PROVE  QueueInv'
  <2>1. CASE Stopped(w) \/ Crash(w)
    BY <2>1, WorkerEndsKeeps
  <2>2. CASE Boot(w) \/ StartStep(w) \/ Stop(w)
    BY <2>2, IdleKeeps DEF Boot, StartStep, Stop
  <2> QED
    BY <1>2, <2>1, <2>2
<1>3. ASSUME NEW w \in Workers, NEW q \in Queues,
             Handle(w, q) \/ EndHandler(w, q) \/ \E o \in Orders : Fetch(w, q, o)
      PROVE  QueueInv'
  BY <1>3, HandlesKeeps, HandlerExpiresKeeps, ReportKeeps, ReportLostKeeps, FetchKeeps
     DEF Handle, EndHandler
<1>4. CASE \E j \in Jobs : Expire(j)
  BY <1>4, ExpireKeeps
<1>5. CASE \E l \in late : LateInsert(l)
  BY <1>5, LateInsertKeeps
<1>6. CASE UNCHANGED vars
  BY <1>6, IdleKeeps DEF vars
<1> QED
  BY <1>1, <1>2, <1>3, <1>4, <1>5, <1>6 DEF Next

(***************************************************************************)
(* The theorems                                                            *)
(***************************************************************************)

\* The jobs, the handlers that run them and the inserts left behind by
\* handlers that were given up on agree, after any crashes, expiries and lost
\* reports: job-runner.ts never has two live handlers of one job, and what it
\* reports as done was done.
THEOREM QueueSound == Spec => []QueueInv
<1>1. Init => QueueInv
  BY QueueInit
<1>2. QueueInv /\ [Next]_vars => QueueInv'
  BY QueueNext
<1> QED
  BY <1>1, <1>2, PTL DEF Spec

\* Only an order whose confirmation committed is shipped or announced, since
\* PgBossEventPublisher writes its jobs in the confirming transaction.
THEOREM HandledIsConfirmed == Spec => []OnlyConfirmedHandled
<1>1. QueueInv => OnlyConfirmedHandled
  BY DEF QueueInv
<1> QED
  BY <1>1, QueueSound, PTL

\* No confirmed order is without its jobs; a job that ended did its work or is
\* in its dead-letter queue, after its last retry.
THEOREM NoJobVanishes == Spec => []NothingVanishes
<1>1. QueueInv => NothingVanishes
  <2> SUFFICES ASSUME QueueTypeOK, JobsSound
               PROVE  NothingVanishes
    BY DEF QueueInv
  <2>1. ASSUME NEW o \in confirmed, NEW q \in Queues
        PROVE  job[<<q, o>>] # "none"
    BY JobParts DEF QueueTypeOK, JobsSound
  <2> QED
    BY <2>1 DEF NothingVanishes, JobsSound, Effect
<1> QED
  BY <1>1, QueueSound, PTL

\* A step changes no shipment that is there.
LEMMA ShipmentStep ==
    ASSUME QueueInv, [Next]_vars
    PROVE  \A o \in Orders : shipments[o] # None => shipments'[o] = shipments[o]
<1>0. shipments \in [Orders -> Nat \cup {None}]
  BY DEF QueueInv, QueueTypeOK
<1>1. \A o, n : shipments' = InsertShipment(o, n) =>
          \A x \in Orders : shipments[x] # None => shipments'[x] = shipments[x]
  BY <1>0 DEF InsertShipment
<1>2. ASSUME NEW w \in Workers, NEW q \in Queues, Handles(w, q)
      PROVE  \A o \in Orders : shipments[o] # None => shipments'[o] = shipments[o]
  BY <1>1, <1>2 DEF Handles
<1>3. ASSUME NEW l \in late, LateInsert(l)
      PROVE  \A o \in Orders : shipments[o] # None => shipments'[o] = shipments[o]
  BY <1>1, <1>3 DEF LateInsert
<1>4. ASSUME NEW w \in Workers, NEW q \in Queues,
             \/ Throws(w, q) \/ HandlerExpires(w, q) \/ EndHandler(w, q)
             \/ \E o \in Orders : Fetch(w, q, o)
      PROVE  UNCHANGED shipments
  BY <1>4 DEF Throws, HandlerExpires, EndHandler, Report, ReportLost, Fetch, effectVars
<1>5. ASSUME NEW w \in Workers, Boot(w) \/ StartStep(w) \/ Stop(w) \/ Stopped(w) \/ Crash(w)
      PROVE  UNCHANGED shipments
  BY <1>5 DEF Boot, StartStep, Stop, Stopped, Crash, effectVars
<1>6. CASE (\E o \in Orders : ConfirmOrder(o)) \/ (\E j \in Jobs : Expire(j)) \/ UNCHANGED vars
  BY <1>6 DEF ConfirmOrder, Expire, vars, effectVars
<1> QED
  BY <1>2, <1>3, <1>4, <1>5, <1>6 DEF Next, Handle

\* The shipment of an order, once written, stays: retries, late handlers and
\* ON CONFLICT DO NOTHING leave one dispatch and one tracking number.
THEOREM ShippedOnce == Spec => ShipmentKept
<1>1. QueueInv /\ [Next]_vars =>
          [\A o \in Orders : shipments[o] # None => shipments'[o] = shipments[o]]_shipments
  BY ShipmentStep
<1> QED
  BY <1>1, QueueSound, PTL DEF Spec, ShipmentKept
=============================================================================
