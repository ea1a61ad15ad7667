------------------------------- MODULE Worker -------------------------------
(* The worker process of src/src/shared/queue: one BullMQ worker per named   *)
(* queue, the registry of queues, the shared Redis client, and the graceful  *)
(* shutdown on SIGTERM and SIGINT.  Its processors only log the job, so a    *)
(* run of a job is a start and an end.                                       *)
(*                                                                           *)
(* External, modelled from how the code uses it: BullMQ, which keeps a job   *)
(* in the Redis its queue was given, hands it to one worker at a time, and   *)
(* takes it back, once, from a process that died holding it; the producers   *)
(* that add jobs; and the supervisor (Docker, PM2 or k8s: worker.ts:15) that *)
(* signals, kills and restarts the process.                                  *)
EXTENDS Naturals, FiniteSets

CONSTANTS Queues,      \* QUEUE_NAMES
          Jobs,        \* the jobs producers may add
          QueueOf,     \* the queue of each job
          NoUrl,       \* REDIS_URL is not set
          REDIS_URL,   \* the Redis REDIS_URL names, or NoUrl
          REDIS_HOST,  \* the Redis that REDIS_HOST and REDIS_PORT name
          MaxSignals,  \* bound: signals sent
          MaxUnclean   \* bound: kills and failed shutdowns

ASSUME WorkerConstants ==
    /\ QueueOf \in [Jobs -> Queues]
    /\ REDIS_HOST # NoUrl
    /\ MaxSignals \in Nat
    /\ MaxUnclean \in Nat

VARIABLES phase,         \* how far the process is: shuttingDown, and which await
          closedWorkers, \* the queues whose worker's close() has resolved
          queueRegistry, \* the registry of queueFactory.ts
          toClose,       \* the queues closeAllQueues awaits
          closedQueues,  \* the queues whose close() has resolved
          redis,         \* the shared client, until redis.quit() has resolved
          jobState,      \* the state BullMQ keeps of each job
          stalls,        \* how often BullMQ took the job back
          runs,          \* history: how often a processor was called with the job
          signals,       \* how many signals were sent
          unclean        \* history: the processes that ended other than by exit(0)

processVars == <<phase, closedWorkers, queueRegistry, toClose, closedQueues, redis>>
jobVars == <<jobState, stalls, runs>>
workerVars == <<processVars, jobVars, signals, unclean>>

Awaiting == {"closingWorkers", "closingQueues", "quittingRedis"}
Ended == {"exit0", "exit1", "killed"}

\* mutant: no options for the client when REDIS_URL is not set
urlOnly == REDIS_URL

(* createClient: REDIS_URL when it is set, the options otherwise; the queues *)
(* share that client.                                                        *)
clientRedis == IF REDIS_URL # NoUrl THEN REDIS_URL ELSE REDIS_HOST

(* The workers are given redisConnectionOptions instead.                     *)
workerRedis == REDIS_HOST

(* createQueue: the queue of that name, registered if it was not.            *)
createQueue(registry, name) == registry \union {name}

-----------------------------------------------------------------------------
(* Loading worker.ts loads queues.ts, which creates every queue.             *)
createdQueues == UNION {createQueue({}, q) : q \in Queues}

WorkerInit ==
    /\ phase = "running"
    /\ queueRegistry = createdQueues
    /\ closedWorkers = {} /\ toClose = {} /\ closedQueues = {} /\ redis = "connected"
    /\ jobState = [j \in Jobs |-> "notAdded"]
    /\ stalls = [j \in Jobs |-> 0] /\ runs = [j \in Jobs |-> 0]
    /\ signals = 0 /\ unclean = 0

(* A process that ends holds no job any more: BullMQ finds those it held     *)
(* stalled once their lock expires.                                          *)
dropped == [j \in Jobs |-> IF jobState[j] = "active" THEN "orphaned" ELSE jobState[j]]

running(q) == {j \in Jobs : QueueOf[j] = q /\ jobState[j] = "active"}

(* A producer adds a job to its queue, through the shared client.            *)
AddJob(j) ==
    /\ jobState[j] = "notAdded"
    /\ jobState' = [jobState EXCEPT ![j] = "waiting"]
    /\ UNCHANGED <<processVars, stalls, runs, signals, unclean>>

(* A worker takes a waiting job of its queue, from its own Redis, and calls  *)
(* the processor.  It has one job at a time, and takes none once closing.    *)
StartJob(j) ==
    /\ phase = "running"
    /\ clientRedis = workerRedis
    /\ jobState[j] = "waiting"
    /\ running(QueueOf[j]) = {}
    /\ jobState' = [jobState EXCEPT ![j] = "active"]
    /\ runs' = [runs EXCEPT ![j] = @ + 1]
    /\ UNCHANGED <<processVars, stalls, signals, unclean>>

(* The processor returns, having logged the job.                             *)
EndJob(j) ==
    /\ jobState[j] = "active"
    /\ jobState' = [jobState EXCEPT ![j] = "completed"]
    /\ UNCHANGED <<processVars, stalls, runs, signals, unclean>>

(* A worker of the job's queue finds it stalled: it is put back the first    *)
(* time and failed the second.                                               *)
RecoverJob(j) ==
    /\ phase = "running"
    /\ clientRedis = workerRedis
    /\ jobState[j] = "orphaned"
    /\ jobState' = [jobState EXCEPT ![j] = IF stalls[j] = 0 THEN "waiting" ELSE "failed"]
    /\ stalls' = [stalls EXCEPT ![j] = @ + 1]
    /\ UNCHANGED <<processVars, runs, signals, unclean>>

-----------------------------------------------------------------------------
\* mutant: without shuttingDown, every signal shuts down anew
SignalAnew ==
    /\ phase \in {"running"} \union Awaiting
    /\ signals < MaxSignals
    /\ signals' = signals + 1
    /\ phase' = "closingWorkers"
    /\ UNCHANGED <<closedWorkers, queueRegistry, toClose, closedQueues, redis,
                   jobVars, unclean>>

(* shutdown, called by a signal: the first one closes every worker, which    *)
(* makes it take no more jobs; any other returns, as shuttingDown is set.    *)
Signal ==
    /\ phase \in {"running"} \union Awaiting
    /\ signals < MaxSignals
    /\ signals' = signals + 1
    /\ phase' = IF phase = "running" THEN "closingWorkers" ELSE phase
    /\ UNCHANGED <<closedWorkers, queueRegistry, toClose, closedQueues, redis,
                   jobVars, unclean>>

\* mutant: the worker is drained of its waiting jobs before it closes
WorkerDrains(q) ==
    /\ phase \in Awaiting
    /\ q \notin closedWorkers
    /\ \A j \in Jobs : QueueOf[j] = q => jobState[j] \notin {"waiting", "active"}
    /\ closedWorkers' = closedWorkers \union {q}
    /\ UNCHANGED <<phase, queueRegistry, toClose, closedQueues, redis,
                   jobVars, signals, unclean>>

(* The close() of a worker resolves, when the job it had has ended.          *)
WorkerCloses(q) ==
    /\ phase \in Awaiting
    /\ q \notin closedWorkers
    /\ running(q) = {}
    /\ closedWorkers' = closedWorkers \union {q}
    /\ UNCHANGED <<phase, queueRegistry, toClose, closedQueues, redis,
                   jobVars, signals, unclean>>

\* mutant: the close() of the workers is not awaited
workersNotAwaited == TRUE

(* Promise.all over the workers resolves.                                    *)
workersClosed == closedWorkers = Queues

\* mutant: the registry is not cleared
closeWithoutClear ==
    /\ toClose' = queueRegistry
    /\ UNCHANGED queueRegistry

(* closeAllQueues up to its await: the queues registered, then no queue.     *)
closeAllQueues ==
    /\ toClose' = queueRegistry
    /\ queueRegistry' = {}

WorkersClosed ==
    /\ phase = "closingWorkers"
    /\ workersClosed
    /\ phase' = "closingQueues"
    /\ closeAllQueues
    /\ UNCHANGED <<closedWorkers, closedQueues, redis, jobVars, signals, unclean>>

(* The close() of a queue resolves.                                          *)
QueueCloses(q) ==
    /\ phase \in Awaiting
    /\ q \in toClose \ closedQueues
    /\ closedQueues' = closedQueues \union {q}
    /\ UNCHANGED <<phase, closedWorkers, queueRegistry, toClose, redis,
                   jobVars, signals, unclean>>

\* mutant: the close() of the queues is not awaited
QueuesNotAwaited ==
    /\ phase = "closingQueues"
    /\ phase' = "quittingRedis"
    /\ UNCHANGED <<closedWorkers, queueRegistry, toClose, closedQueues, redis,
                   jobVars, signals, unclean>>

(* Promise.all over the queues resolves, and redis.quit() is called.         *)
QueuesClosed ==
    /\ phase = "closingQueues"
    /\ toClose \subseteq closedQueues
    /\ phase' = "quittingRedis"
    /\ UNCHANGED <<closedWorkers, queueRegistry, toClose, closedQueues, redis,
                   jobVars, signals, unclean>>

(* redis.quit() resolves, and the process exits.                             *)
Quit ==
    /\ phase = "quittingRedis"
    /\ phase' = "exit0"
    /\ redis' = "quit"
    /\ jobState' = dropped
    /\ UNCHANGED <<closedWorkers, queueRegistry, toClose, closedQueues,
                   stalls, runs, signals, unclean>>

(* What shutdown awaits rejects: the process exits at once, without waiting  *)
(* for the other workers and queues of the same Promise.all.                 *)
ShutdownFails ==
    /\ phase \in Awaiting
    /\ unclean < MaxUnclean
    /\ phase' = "exit1"
    /\ unclean' = unclean + 1
    /\ jobState' = dropped
    /\ UNCHANGED <<closedWorkers, queueRegistry, toClose, closedQueues, redis,
                   stalls, runs, signals>>

(* The process dies without a signal it can catch.                           *)
Kill ==
    /\ phase \notin Ended
    /\ unclean < MaxUnclean
    /\ phase' = "killed"
    /\ unclean' = unclean + 1
    /\ jobState' = dropped
    /\ UNCHANGED <<closedWorkers, queueRegistry, toClose, closedQueues, redis,
                   stalls, runs, signals>>

(* The supervisor starts the process anew; Redis kept the jobs.              *)
Restart ==
    /\ phase \in Ended
    /\ phase' = "running"
    /\ queueRegistry' = createdQueues
    /\ closedWorkers' = {} /\ toClose' = {} /\ closedQueues' = {} /\ redis' = "connected"
    /\ UNCHANGED <<jobVars, signals, unclean>>

-----------------------------------------------------------------------------
Shutdown ==
    \/ \E q \in Queues : WorkerCloses(q) \/ QueueCloses(q)
    \/ WorkersClosed
    \/ QueuesClosed
    \/ Quit

WorkerNext ==
    \/ \E j \in Jobs : AddJob(j) \/ StartJob(j) \/ EndJob(j) \/ RecoverJob(j)
    \/ Signal
    \/ Shutdown
    \/ ShutdownFails
    \/ Kill
    \/ Restart

(* Promises that can resolve do, an idle worker takes a waiting job, a       *)
(* stalled job is found, and the supervisor restarts a process that ended.   *)
(* Producers, signals and faults are under no obligation.                    *)
WorkerFairness ==
    /\ \A j \in Jobs : WF_workerVars(StartJob(j) \/ EndJob(j) \/ RecoverJob(j))
    /\ WF_workerVars(Shutdown)
    /\ WF_workerVars(Restart)

WorkerSpec == WorkerInit /\ [][WorkerNext]_workerVars /\ WorkerFairness

-----------------------------------------------------------------------------
(* Every variable holds a value of its kind, and a queue is registered or    *)
(* being closed, never both: createQueue returns no queue that is closing.   *)
WorkerTypeOK ==
    /\ phase \in {"running"} \union Awaiting \union Ended
    /\ closedWorkers \subseteq Queues /\ closedQueues \subseteq Queues
    /\ queueRegistry \subseteq Queues /\ toClose \subseteq Queues
    /\ queueRegistry \intersect toClose = {}
    /\ redis \in {"connected", "quit"}
    /\ jobState \in [Jobs -> {"notAdded", "waiting", "active", "orphaned",
                              "completed", "failed"}]
    /\ stalls \in [Jobs -> Nat] /\ runs \in [Jobs -> Nat]
    /\ signals \in 0..MaxSignals /\ unclean \in 0..MaxUnclean

(* worker.ts:13-15: a queue is closed only when no job is in flight, Redis   *)
(* is quit only when every queue is closed, and a process that exits with 0  *)
(* did all of it, however many signals it got meanwhile.                     *)
GracefulShutdown ==
    /\ closedQueues # {} => \A q \in Queues : running(q) = {}
    /\ redis = "quit" => closedQueues = Queues
    /\ phase = "exit0" => redis = "quit"

(* A job is run a second time, or fails as stalled, only for a process that  *)
(* ended uncleanly while it ran: shutting down gracefully, and starting      *)
(* again, repeats no job.                                                    *)
RunTwiceOnlyAfterUncleanEnd ==
    \A j \in Jobs :
        /\ runs[j] <= 1 + stalls[j]
        /\ stalls[j] + (IF jobState[j] = "orphaned" THEN 1 ELSE 0) <= unclean

(* A shutdown that has begun ends the process, whatever jobs arrive          *)
(* meanwhile.                                                                *)
ShutdownEnds == phase \in Awaiting ~> phase \in Ended

(* A job that was added is completed in the end, across shutdowns, kills and *)
(* restarts, unless BullMQ gave it up as stalled for the second time.        *)
JobsServed ==
    \A j \in Jobs : jobState[j] = "waiting" ~> jobState[j] \in {"completed", "failed"}

-----------------------------------------------------------------------------
(* What the process, BullMQ and Redis are to whoever adds a job.  A job that *)
(* a dead process held is waiting again, or has failed, before BullMQ finds  *)
(* it.                                                                       *)
serviceState ==
    IF phase = "running" THEN "up"
    ELSE IF phase \in Awaiting THEN "stopping"
    ELSE IF phase = "exit0" THEN "stopped" ELSE "crashed"

deliveryOf(j) ==
    IF jobState[j] # "orphaned" THEN jobState[j]
    ELSE IF stalls[j] = 0 THEN "waiting" ELSE "failed"

cutOffsOf(j) == stalls[j] + (IF jobState[j] = "orphaned" THEN 1 ELSE 0)

Service == INSTANCE JobService WITH
    service <- serviceState,
    job     <- [j \in Jobs |-> deliveryOf(j)],
    cutOffs <- [j \in Jobs |-> cutOffsOf(j)]

(* Producers see a service that is up, stopping, stopped or crashed, and     *)
(* jobs that are run one at a time and cut off by a crash only: the signals, *)
(* promises and Redis clients of the shutdown, and the recovery of stalled   *)
(* jobs, add no behaviour to that (worker.ts:48-59 and 82-107).              *)
ImplementsJobService == Service!ServiceSpec

-----------------------------------------------------------------------------
(* What each step of the shutdown has behind it.                             *)
ShutdownOrder ==
    /\ phase \in {"running", "closingWorkers"} => queueRegistry = Queues
    /\ phase \in {"running", "closingWorkers"} => toClose = {} /\ closedQueues = {}
    /\ phase = "running" => closedWorkers = {}
    /\ phase \in {"closingQueues", "quittingRedis", "exit0"} =>
         closedWorkers = Queues /\ toClose = Queues
    /\ phase \in {"quittingRedis", "exit0"} => closedQueues = Queues
    /\ redis = "quit" <=> phase = "exit0"
    /\ closedQueues # {} => closedWorkers = Queues

(* A worker that closed has no job, and neither has a process that ended.    *)
NoJobLeftRunning ==
    /\ \A q \in closedWorkers : running(q) = {}
    /\ phase \in Ended => \A j \in Jobs : jobState[j] # "active"

(* A job waits for a run it has not had, or for one that was cut off.        *)
WaitingForARun ==
    \A j \in Jobs : jobState[j] \in {"notAdded", "waiting"} => runs[j] <= stalls[j]

(* The inductive invariant of the worker process (worker.ts:82-107,          *)
(* queueFactory.ts:65-69).                                                   *)
WorkerIInv ==
    /\ WorkerTypeOK
    /\ ShutdownOrder
    /\ NoJobLeftRunning
    /\ WaitingForARun
    /\ RunTwiceOnlyAfterUncleanEnd
=============================================================================
