-------------------------------- MODULE JobQueue --------------------------------
(***************************************************************************)
(* What happens to a confirmed order's events: PgBossEventPublisher writes *)
(* one job per queue of EVENT_ROUTING in the confirming transaction, the   *)
(* JobRunner of each worker process runs one job per queue at a time, and  *)
(* ShipmentService inserts the shipment.  pg-boss itself (job states,      *)
(* retries, dead letters, expiry) is external and is modelled as           *)
(* queue-setup.ts configures it and as job-runner.ts relies on it.         *)
(*                                                                         *)
(* A handler's work, and the report of its end to pg-boss, are separate    *)
(* steps: between them the worker may crash, the report may be lost or the *)
(* job may expire, and then the work is done again.  A handler that was    *)
(* given up on may still reach the database (late).                        *)
(***************************************************************************)
EXTENDS Integers, Sequences, FiniteSets

CONSTANTS
    Orders,
    Topology,       \* the queues of QUEUE_TOPOLOGY, in order
    Workers,        \* worker containers
    RetryLimit,     \* QUEUE_RETRY_LIMIT
    MaxStops,       \* bound on crashes and stops of workers
    None

ASSUME RetryLimitAssumption == RetryLimit \in Nat
ASSUME NoneAssumption == None \notin Nat

Queues == {Topology[i] : i \in 1..Len(Topology)}
Jobs == Queues \X Orders
ShipmentJob(o) == <<"shipment.create", o>>

VARIABLES
    confirmed,  \* the orders that are CONFIRMED
    job,        \* the pg-boss state of each job, "none" before it is sent
    retries,    \* retry_count of each job
    dlq,        \* the jobs copied to their dead-letter queue
    shipments,  \* the shipments row of each order, named by the attempt that wrote it
    logged,     \* the jobs whose notification or analytics event was written
    process,    \* each worker process: "down", "starting", "running", "stopping"
    consuming,  \* how many queues of the topology each worker consumes
    work,       \* the handler each worker runs for each queue: order and step, or None
    late,       \* shipment handlers that were given up on: <<order, attempt>>
    stops       \* crashes and stops so far

jobVars == <<job, retries, dlq>>
effectVars == <<shipments, logged>>
processVars == <<process, consuming, stops>>
vars == <<confirmed, jobVars, effectVars, processVars, work, late>>

Init ==
    /\ confirmed = {}
    /\ job = [j \in Jobs |-> "none"] /\ retries = [j \in Jobs |-> 0] /\ dlq = {}
    /\ shipments = [o \in Orders |-> None] /\ logged = {}
    /\ process = [w \in Workers |-> "down"]
    /\ consuming = [w \in Workers |-> 0]
    /\ work = [w \in Workers |-> [q \in Queues |-> None]]
    /\ late = {} /\ stops = 0

-----------------------------------------------------------------------------
(* Publishing, in the transaction that confirms the order *)

\* Mutant: the jobs are sent over the publisher's own connection.
PublishUnbound(o, commits) ==
    job' = [j \in Jobs |-> IF j[2] = o THEN "created" ELSE job[j]]

\* One job per queue through the transaction's executeSql: they commit or
\* roll back with it.
Publish(o, commits) ==
    job' = [j \in Jobs |-> IF j[2] = o /\ commits THEN "created" ELSE job[j]]

ConfirmOrder(o) ==
    /\ o \notin confirmed
    /\ \E commits \in BOOLEAN :
          /\ confirmed' = IF commits THEN confirmed \cup {o} ELSE confirmed
          /\ Publish(o, commits)
    /\ UNCHANGED <<retries, dlq, effectVars, processVars, work, late>>

-----------------------------------------------------------------------------
(* pg-boss *)

\* Mutant: the queue names no dead letter.
FailJobDropped(failing) ==
    /\ job' = [j \in Jobs |-> IF j \notin failing THEN job[j]
                              ELSE IF retries[j] < RetryLimit THEN "retry" ELSE "failed"]
    /\ UNCHANGED dlq

\* An active job failed or expired: tried again later, or failed for good and
\* copied to its dead-letter queue.
FailJob(failing) ==
    /\ job' = [j \in Jobs |-> IF j \notin failing THEN job[j]
                              ELSE IF retries[j] < RetryLimit THEN "retry" ELSE "failed"]
    /\ dlq' = dlq \cup {j \in failing : retries[j] >= RetryLimit}

\* A running worker that consumes the queue takes a job whose time has come.
Fetch(w, q, o) ==
    /\ process[w] \in {"starting", "running"}
    /\ \E i \in 1..consuming[w] : Topology[i] = q
    /\ work[w][q] = None
    /\ job[<<q, o>>] \in {"created", "retry"}
    /\ retries' = [retries EXCEPT ![<<q, o>>] = IF job[<<q, o>>] = "retry" THEN @ + 1 ELSE @]
    /\ job' = [job EXCEPT ![<<q, o>>] = "active"]
    /\ work' = [work EXCEPT ![w][q] = [order |-> o, step |-> "started"]]
    /\ UNCHANGED <<confirmed, dlq, effectVars, processVars, late>>

\* Supervision finds an active job past its expiry that no worker runs: its
\* worker crashed or its report was lost.
Expire(j) ==
    /\ job[j] = "active"
    /\ ~ \E w \in Workers : work[w][j[1]] # None /\ work[w][j[1]].order = j[2]
    /\ \E w \in Workers : process[w] \in {"starting", "running"}
    /\ FailJob({j})
    /\ UNCHANGED <<confirmed, retries, effectVars, processVars, work, late>>

-----------------------------------------------------------------------------
(* The handlers *)

\* Mutant: the conflict updates the row.
InsertOrUpdate(o, n) == [shipments EXCEPT ![o] = n]

\* INSERT ... ON CONFLICT (order_id) DO NOTHING.
InsertShipment(o, n) == [shipments EXCEPT ![o] = IF @ = None THEN n ELSE @]

\* handler.handle did its work.
Handles(w, q) ==
    LET o == work[w][q].order
    IN  /\ work[w][q] # None /\ work[w][q].step = "started"
        /\ work' = [work EXCEPT ![w][q].step = "done"]
        /\ IF q = "shipment.create"
           THEN /\ shipments' = InsertShipment(o, retries[<<q, o>>] + 1)
                /\ UNCHANGED logged
           ELSE logged' = logged \cup {<<q, o>>} /\ UNCHANGED shipments
        /\ UNCHANGED <<confirmed, jobVars, processVars, late>>

\* Mutant: the runner logs the error and does not throw it again.
SwallowsError(w, q) ==
    /\ work[w][q] # None /\ work[w][q].step = "started"
    /\ work' = [work EXCEPT ![w][q].step = "done"]
    /\ UNCHANGED <<confirmed, jobVars, effectVars, processVars, late>>

\* The handler threw: logged, and thrown again for pg-boss.
Throws(w, q) ==
    /\ work[w][q] # None /\ work[w][q].step = "started"
    /\ work' = [work EXCEPT ![w][q].step = "threw"]
    /\ UNCHANGED <<confirmed, jobVars, effectVars, processVars, late>>

\* pg-boss is told how the handler ended.
Report(w, q) ==
    LET j == <<q, work[w][q].order>>
    IN  /\ work[w][q] # None
        /\ \/ /\ work[w][q].step = "done"
              /\ job' = [job EXCEPT ![j] = "completed"] /\ UNCHANGED dlq
           \/ work[w][q].step = "threw" /\ FailJob({j})
        /\ work' = [work EXCEPT ![w][q] = None]
        /\ UNCHANGED <<confirmed, retries, effectVars, processVars, late>>

\* The database cannot be reached for the report: the job stays active.
ReportLost(w, q) ==
    /\ work[w][q] # None /\ work[w][q].step # "started"
    /\ work' = [work EXCEPT ![w][q] = None]
    /\ UNCHANGED <<confirmed, jobVars, effectVars, processVars, late>>

\* The handlers of worker w that are still at work, for queues in qs.
Unfinished(w, qs) ==
    {q \in qs : work[w][q] # None /\ work[w][q].step = "started"}

\* The shipment inserts that may still happen once those are given up on.
Abandoned(w, qs) ==
    {<<work[w][q].order, retries[<<q, work[w][q].order>>] + 1>> :
        q \in Unfinished(w, qs) \cap {"shipment.create"}}

\* The handler outlives the job's expiry: pg-boss fails the job and no longer
\* listens to the handler, which goes on.
HandlerExpires(w, q) ==
    /\ q \in Unfinished(w, Queues)
    /\ FailJob({<<q, work[w][q].order>>})
    /\ late' = late \cup Abandoned(w, {q})
    /\ work' = [work EXCEPT ![w][q] = None]
    /\ UNCHANGED <<confirmed, retries, effectVars, processVars>>

LateInsert(l) ==
    /\ l \in late
    /\ shipments' = InsertShipment(l[1], l[2])
    /\ late' = late \ {l}
    /\ UNCHANGED <<confirmed, jobVars, logged, processVars, work>>

-----------------------------------------------------------------------------
(* The worker process *)

\* bootstrap of main.worker.ts: pg-boss started, queues set up.
Boot(w) ==
    /\ process[w] = "down"
    /\ process' = [process EXCEPT ![w] = "starting"]
    /\ UNCHANGED <<confirmed, jobVars, effectVars, consuming, stops, work, late>>

\* JobRunner.start: boss.work for one queue after another; after the last one,
\* and the schedules, it is ready (a file that only the healthcheck reads).
StartStep(w) ==
    /\ process[w] = "starting"
    /\ \/ /\ consuming[w] < Len(Topology)
          /\ consuming' = [consuming EXCEPT ![w] = @ + 1]
          /\ UNCHANGED process
       \/ /\ consuming[w] = Len(Topology)
          /\ process' = [process EXCEPT ![w] = "running"]
          /\ UNCHANGED consuming
    /\ UNCHANGED <<confirmed, jobVars, effectVars, stops, work, late>>

\* onApplicationShutdown: nothing more is fetched.
Stop(w) ==
    /\ stops < MaxStops
    /\ process[w] = "running"
    /\ process' = [process EXCEPT ![w] = "stopping"]
    /\ stops' = stops + 1
    /\ UNCHANGED <<confirmed, jobVars, effectVars, consuming, work, late>>

\* The stop ends when the running handlers have, or at its deadline, when the
\* jobs of those that have not are failed.
Stopped(w) ==
    /\ process[w] = "stopping"
    /\ FailJob({<<q, work[w][q].order>> : q \in {q \in Queues : work[w][q] # None}})
    /\ late' = late \cup Abandoned(w, Queues)
    /\ work' = [work EXCEPT ![w] = [q \in Queues |-> None]]
    /\ process' = [process EXCEPT ![w] = "down"]
    /\ consuming' = [consuming EXCEPT ![w] = 0]
    /\ UNCHANGED <<confirmed, retries, effectVars, stops>>

\* The process dies: what it was doing is over or already on its way.
Crash(w) ==
    /\ stops < MaxStops
    /\ process[w] # "down"
    /\ process' = [process EXCEPT ![w] = "down"]
    /\ consuming' = [consuming EXCEPT ![w] = 0]
    /\ work' = [work EXCEPT ![w] = [q \in Queues |-> None]]
    /\ late' \in {late, late \cup Abandoned(w, Queues)}
    /\ stops' = stops + 1
    /\ UNCHANGED <<confirmed, jobVars, effectVars>>

-----------------------------------------------------------------------------
Handle(w, q) ==
    Handles(w, q) \/ Throws(w, q) \/ HandlerExpires(w, q)

EndHandler(w, q) ==
    Report(w, q) \/ ReportLost(w, q)

Next ==
    \/ \E o \in Orders : ConfirmOrder(o)
    \/ \E w \in Workers : Boot(w) \/ StartStep(w) \/ Stop(w) \/ Stopped(w) \/ Crash(w)
    \/ \E w \in Workers, q \in Queues :
          Handle(w, q) \/ EndHandler(w, q) \/ \E o \in Orders : Fetch(w, q, o)
    \/ \E j \in Jobs : Expire(j)
    \/ \E l \in late : LateInsert(l)

Spec == Init /\ [][Next]_vars

\* Someone starts a worker that is down, pg-boss polls and supervises, and a
\* handler and its report end one way or another.
Fairness ==
    /\ \A w \in Workers : WF_vars(Boot(w)) /\ WF_vars(StartStep(w)) /\ WF_vars(Stopped(w))
    /\ \A w \in Workers, q \in Queues :
          /\ WF_vars(Handle(w, q)) /\ WF_vars(EndHandler(w, q))
          /\ \A o \in Orders : SF_vars(Fetch(w, q, o))
    /\ \A j \in Jobs : WF_vars(Expire(j))

FairSpec == Spec /\ Fairness

-----------------------------------------------------------------------------
(* Properties *)

\* The shipment of an order, once written, stays: a retry of a job whose work
\* was done, two handlers of one job, or a handler that was given up on do not
\* dispatch it again under another tracking number.
ShipmentKept ==
    [][\A o \in Orders : shipments[o] # None => shipments'[o] = shipments[o]]_shipments

\* Only an order whose confirmation committed is shipped or announced.
OnlyConfirmedHandled ==
    /\ \A o \in Orders : shipments[o] # None => o \in confirmed
    /\ \A j \in logged : j[2] \in confirmed

\* A completed job did its work; a failed one is in its dead-letter queue,
\* where somebody can see it, and only after the last retry.
NothingVanishes ==
    /\ \A o \in confirmed, q \in Queues : job[<<q, o>>] # "none"
    /\ \A j \in Jobs :
          /\ job[j] = "completed" =>
                IF j[1] = "shipment.create" THEN shipments[j[2]] # None ELSE j \in logged
          /\ (job[j] = "failed") <=> (j \in dlq)
          /\ job[j] = "failed" => retries[j] = RetryLimit

\* Every confirmed order is shipped, or its job can be found in the
\* dead-letter queue.
ConfirmedIsShipped ==
    \A o \in Orders :
        o \in confirmed ~> (shipments[o] # None \/ ShipmentJob(o) \in dlq)
=============================================================================
