--------------------------- MODULE WorkerTheorems ---------------------------
(* Proofs about Worker for any queues and jobs, with either Redis            *)
(* configuration and any number of signals, kills and failures.              *)
EXTENDS Worker, TLAPS

(* Ending the process turns active jobs into orphans and nothing else.       *)
LEMMA DroppedJobs ==
  ASSUME WorkerTypeOK
  PROVE  /\ dropped \in [Jobs -> {"notAdded", "waiting", "active", "orphaned",
                                  "completed", "failed"}]
         /\ \A j \in Jobs :
              /\ dropped[j] # "active"
              /\ jobState[j] = "active" => dropped[j] = "orphaned"
              /\ jobState[j] # "active" => dropped[j] = jobState[j]
BY DEF WorkerTypeOK, dropped

(* Loading the module registers every queue.                                 *)
LEMMA EveryQueueIsCreated == createdQueues = Queues
BY DEF createdQueues, createQueue

(* A process that starts has shut nothing down.                              *)
LEMMA WorkerInitEstablishes == WorkerInit => WorkerIInv
<1>. SUFFICES ASSUME WorkerInit PROVE WorkerIInv
  OBVIOUS
<1>. USE EveryQueueIsCreated, WorkerConstants DEF WorkerInit
<1>1. WorkerTypeOK
  BY DEF WorkerTypeOK, Awaiting, Ended
<1>2. ShutdownOrder /\ NoJobLeftRunning
  BY DEF ShutdownOrder, NoJobLeftRunning, Ended
<1>3. WaitingForARun /\ RunTwiceOnlyAfterUncleanEnd
  BY DEF WaitingForARun, RunTwiceOnlyAfterUncleanEnd
<1>. QED
  BY <1>1, <1>2, <1>3 DEF WorkerIInv

-----------------------------------------------------------------------------
(* Jobs come, start, end and are recovered while the shutdown stands still.  *)
LEMMA JobStepKeeps ==
  ASSUME WorkerIInv, NEW j \in Jobs,
         AddJob(j) \/ StartJob(j) \/ EndJob(j) \/ RecoverJob(j)
  PROVE  WorkerIInv'
<1>. USE DEF WorkerIInv
<1>1. UNCHANGED <<processVars, signals, unclean>>
  BY DEF AddJob, StartJob, EndJob, RecoverJob
<1>2. WorkerTypeOK'
  BY <1>1 DEF WorkerTypeOK, processVars, AddJob, StartJob, EndJob, RecoverJob
<1>3. ShutdownOrder'
  BY <1>1 DEF ShutdownOrder, processVars
<1>4. NoJobLeftRunning'
  <2>1. CASE StartJob(j)
    <3>1. phase = "running" /\ closedWorkers = {}
      BY <2>1 DEF StartJob, ShutdownOrder
    <3>. QED
      BY <1>1, <3>1 DEF NoJobLeftRunning, processVars, Ended
  <2>2. CASE ~StartJob(j)
    <3>1. \A k \in Jobs : jobState'[k] = "active" => jobState[k] = "active"
      BY <2>2 DEF WorkerTypeOK, AddJob, EndJob, RecoverJob
    <3>. QED
      BY <1>1, <3>1 DEF NoJobLeftRunning, processVars, running
  <2>. QED
    BY <2>1, <2>2
<1>5. WaitingForARun' /\ RunTwiceOnlyAfterUncleanEnd'
  <2>. SUFFICES ASSUME NEW k \in Jobs
                PROVE  /\ jobState'[k] \in {"notAdded", "waiting"} =>
                            runs'[k] <= stalls'[k]
                       /\ runs'[k] <= 1 + stalls'[k]
                       /\ stalls'[k] + (IF jobState'[k] = "orphaned" THEN 1 ELSE 0)
                            <= unclean'
    BY DEF WaitingForARun, RunTwiceOnlyAfterUncleanEnd
  <2>1. /\ runs[k] \in Nat /\ stalls[k] \in Nat /\ unclean \in Nat
        /\ runs[k] <= 1 + stalls[k]
        /\ stalls[k] + (IF jobState[k] = "orphaned" THEN 1 ELSE 0) <= unclean
        /\ jobState[k] \in {"notAdded", "waiting"} => runs[k] <= stalls[k]
    BY WorkerConstants
    DEF WorkerTypeOK, WaitingForARun, RunTwiceOnlyAfterUncleanEnd
  <2>2. CASE k # j
    BY <1>1, <2>1, <2>2 DEF WorkerTypeOK, AddJob, StartJob, EndJob, RecoverJob
  <2>3. CASE k = j
    BY <1>1, <2>1, <2>3 DEF WorkerTypeOK, AddJob, StartJob, EndJob, RecoverJob
  <2>. QED
    BY <2>2, <2>3
<1>. QED
  BY <1>2, <1>3, <1>4, <1>5

(* A signal, and each promise of the shutdown that resolves, finds what its  *)
(* step needs and disturbs no job.                                           *)
LEMMA ShutdownStepKeeps ==
  ASSUME WorkerIInv,
         \/ Signal \/ WorkersClosed \/ QueuesClosed
         \/ \E q \in Queues : WorkerCloses(q) \/ QueueCloses(q)
  PROVE  WorkerIInv'
<1>. USE DEF WorkerIInv, Awaiting, Ended
<1>1. UNCHANGED <<jobVars, unclean, redis>>
  BY DEF Signal, WorkersClosed, QueuesClosed, WorkerCloses, QueueCloses
<1>2. UNCHANGED <<jobState, stalls, runs>>
  BY <1>1 DEF jobVars
<1>3. WaitingForARun' /\ RunTwiceOnlyAfterUncleanEnd'
  BY <1>1, <1>2 DEF WaitingForARun, RunTwiceOnlyAfterUncleanEnd
<1>4. ASSUME NEW q PROVE running(q)' = running(q)
  BY <1>2 DEF running
<1>5. CASE Signal
  <2>1. WorkerTypeOK'
    BY <1>1, <1>2, <1>5, WorkerConstants DEF Signal, WorkerTypeOK
  <2>2. ShutdownOrder' /\ NoJobLeftRunning'
    BY <1>1, <1>2, <1>4, <1>5 DEF Signal, ShutdownOrder, NoJobLeftRunning
  <2>. QED
    BY <1>3, <2>1, <2>2
<1>6. CASE WorkersClosed
  <2>1. WorkerTypeOK'
    BY <1>1, <1>2, <1>6 DEF WorkersClosed, closeAllQueues, WorkerTypeOK
  <2>2. ShutdownOrder' /\ NoJobLeftRunning'
    BY <1>1, <1>2, <1>4, <1>6
    DEF WorkersClosed, workersClosed, closeAllQueues, ShutdownOrder,
        NoJobLeftRunning
  <2>. QED
    BY <1>3, <2>1, <2>2
<1>7. CASE QueuesClosed
  <2>1. WorkerTypeOK'
    BY <1>1, <1>2, <1>7 DEF QueuesClosed, WorkerTypeOK
  <2>2. ShutdownOrder' /\ NoJobLeftRunning'
    BY <1>1, <1>2, <1>4, <1>7
    DEF QueuesClosed, ShutdownOrder, NoJobLeftRunning, WorkerTypeOK
  <2>. QED
    BY <1>3, <2>1, <2>2
<1>8. ASSUME NEW q \in Queues, WorkerCloses(q) PROVE WorkerIInv'
  <2>1. WorkerTypeOK'
    BY <1>1, <1>2, <1>8 DEF WorkerCloses, WorkerTypeOK
  <2>2. ShutdownOrder' /\ NoJobLeftRunning'
    BY <1>1, <1>2, <1>4, <1>8
    DEF WorkerCloses, ShutdownOrder, NoJobLeftRunning, WorkerTypeOK
  <2>. QED
    BY <1>3, <2>1, <2>2
<1>9. ASSUME NEW q \in Queues, QueueCloses(q) PROVE WorkerIInv'
  <2>1. WorkerTypeOK'
    BY <1>1, <1>2, <1>9 DEF QueueCloses, WorkerTypeOK
  <2>2. ShutdownOrder' /\ NoJobLeftRunning'
    BY <1>1, <1>2, <1>4, <1>9
    DEF QueueCloses, ShutdownOrder, NoJobLeftRunning, WorkerTypeOK
  <2>. QED
    BY <1>3, <2>1, <2>2
<1>. QED
  BY <1>5, <1>6, <1>7, <1>8, <1>9

(* The graceful end finds every worker closed, so it drops no job.           *)
LEMMA QuitKeeps ==
  ASSUME WorkerIInv, Quit
  PROVE  WorkerIInv'
<1>. USE DEF WorkerIInv
<1>1. /\ phase = "quittingRedis" /\ phase' = "exit0" /\ redis' = "quit"
      /\ UNCHANGED <<closedWorkers, queueRegistry, toClose, closedQueues,
                     stalls, runs, signals, unclean>>
  BY DEF Quit
<1>2. \A j \in Jobs : jobState[j] # "active"
  BY <1>1, WorkerConstants DEF ShutdownOrder, NoJobLeftRunning, running
<1>3. jobState' = jobState
  BY <1>2 DEF Quit, dropped, WorkerTypeOK
<1>4. WorkerTypeOK'
  BY <1>1, <1>3 DEF WorkerTypeOK, Ended
<1>5. ShutdownOrder'
  BY <1>1 DEF ShutdownOrder
<1>6. NoJobLeftRunning'
  BY <1>1, <1>2, <1>3 DEF NoJobLeftRunning, running
<1>7. WaitingForARun' /\ RunTwiceOnlyAfterUncleanEnd'
  BY <1>1, <1>3 DEF WaitingForARun, RunTwiceOnlyAfterUncleanEnd
<1>. QED
  BY <1>4, <1>5, <1>6, <1>7

(* An unclean end orphans the jobs that run, each once.                      *)
LEMMA UncleanEndKeeps ==
  ASSUME WorkerIInv, ShutdownFails \/ Kill
  PROVE  WorkerIInv'
<1>. USE DEF WorkerIInv
<1>1. /\ phase \notin Ended /\ phase' \in {"exit1", "killed"}
      /\ unclean < MaxUnclean /\ unclean' = unclean + 1 /\ jobState' = dropped
      /\ UNCHANGED <<closedWorkers, queueRegistry, toClose, closedQueues, redis,
                     stalls, runs, signals>>
  BY DEF ShutdownFails, Kill, Awaiting, Ended
<1>2. unclean \in Nat /\ unclean' \in 0..MaxUnclean
  BY <1>1, WorkerConstants DEF WorkerTypeOK
<1>3. WorkerTypeOK'
  BY <1>1, <1>2, DroppedJobs DEF WorkerTypeOK, Ended
<1>4. ShutdownOrder'
  BY <1>1 DEF ShutdownOrder, Ended
<1>5. NoJobLeftRunning'
  BY <1>1, DroppedJobs DEF NoJobLeftRunning, running
<1>6. ASSUME NEW j \in Jobs
      PROVE  /\ dropped[j] \in {"notAdded", "waiting"} => runs[j] <= stalls[j]
             /\ stalls[j] + (IF dropped[j] = "orphaned" THEN 1 ELSE 0) <= unclean + 1
  <2>1. /\ stalls[j] \in Nat
        /\ stalls[j] + (IF jobState[j] = "orphaned" THEN 1 ELSE 0) <= unclean
        /\ jobState[j] \in {"notAdded", "waiting"} => runs[j] <= stalls[j]
    BY DEF WorkerTypeOK, WaitingForARun, RunTwiceOnlyAfterUncleanEnd
  <2>. QED
    BY <1>2, <2>1, DroppedJobs
<1>7. WaitingForARun' /\ RunTwiceOnlyAfterUncleanEnd'
  BY <1>1, <1>6 DEF WaitingForARun, RunTwiceOnlyAfterUncleanEnd
<1>. QED
  BY <1>3, <1>4, <1>5, <1>7

(* The next process starts as the first one did, with the jobs Redis kept.   *)
LEMMA RestartKeeps ==
  ASSUME WorkerIInv, Restart
  PROVE  WorkerIInv'
<1>. USE DEF WorkerIInv
<1>1. /\ phase' = "running" /\ queueRegistry' = Queues /\ closedWorkers' = {}
      /\ toClose' = {} /\ closedQueues' = {} /\ redis' = "connected"
      /\ UNCHANGED <<jobState, stalls, runs, signals, unclean>>
  BY EveryQueueIsCreated DEF Restart, jobVars
<1>2. WorkerTypeOK'
  BY <1>1 DEF WorkerTypeOK
<1>3. ShutdownOrder' /\ NoJobLeftRunning'
  BY <1>1 DEF ShutdownOrder, NoJobLeftRunning, Ended
<1>4. WaitingForARun' /\ RunTwiceOnlyAfterUncleanEnd'
  BY <1>1 DEF WaitingForARun, RunTwiceOnlyAfterUncleanEnd
<1>. QED
  BY <1>2, <1>3, <1>4

-----------------------------------------------------------------------------
(* Every step keeps the invariant.                                           *)
LEMMA WorkerNextKeeps == WorkerIInv /\ [WorkerNext]_workerVars => WorkerIInv'
<1>. SUFFICES ASSUME WorkerIInv, [WorkerNext]_workerVars PROVE WorkerIInv'
  OBVIOUS
<1>1. CASE \E j \in Jobs : AddJob(j) \/ StartJob(j) \/ EndJob(j) \/ RecoverJob(j)
  BY <1>1, JobStepKeeps
<1>2. CASE Signal \/ Shutdown
  BY <1>2, ShutdownStepKeeps, QuitKeeps DEF Shutdown
<1>3. CASE ShutdownFails \/ Kill \/ Restart
  BY <1>3, UncleanEndKeeps, RestartKeeps
<1>4. CASE UNCHANGED workerVars
  BY <1>4
  DEF workerVars, processVars, jobVars, WorkerIInv, WorkerTypeOK, ShutdownOrder,
      NoJobLeftRunning, WaitingForARun, RunTwiceOnlyAfterUncleanEnd, running
<1>. QED
  BY <1>1, <1>2, <1>3, <1>4 DEF WorkerNext

(* What each step of the shutdown has behind it, and how often jobs ran.     *)
THEOREM WorkerInvariance == WorkerSpec => []WorkerIInv
BY WorkerInitEstablishes, WorkerNextKeeps, PTL DEF WorkerSpec

(* The sets of the shutdown, the registry and the jobs keep their types.     *)
THEOREM WorkerTypeCorrect == WorkerSpec => []WorkerTypeOK
<1>1. WorkerIInv => WorkerTypeOK
  BY DEF WorkerIInv
<1>. QED
  BY <1>1, WorkerInvariance, PTL

(* A queue is closed only when no job is in flight, Redis is quit only when  *)
(* every queue is closed, and exit code 0 means that all of it was done.     *)
THEOREM ShutdownIsGraceful == WorkerSpec => []GracefulShutdown
<1>1. WorkerIInv => GracefulShutdown
  BY DEF WorkerIInv, ShutdownOrder, NoJobLeftRunning, GracefulShutdown
<1>. QED
  BY <1>1, WorkerInvariance, PTL

(* Only an unclean end makes a job run a second time.                        *)
THEOREM NoJobRunsTwiceUnlessCutOff == WorkerSpec => []RunTwiceOnlyAfterUncleanEnd
<1>1. WorkerIInv => RunTwiceOnlyAfterUncleanEnd
  BY DEF WorkerIInv
<1>. QED
  BY <1>1, WorkerInvariance, PTL

-----------------------------------------------------------------------------
(* The order of the awaits in shutdown.                                      *)
stage == IF phase = "closingWorkers" THEN 1 ELSE IF phase = "closingQueues" THEN 2 ELSE 3

(* What a step may do to a shutdown that goes on.                            *)
advances ==
    /\ stage <= stage'
    /\ closedWorkers \subseteq closedWorkers'
    /\ closedQueues \subseteq closedQueues'
    /\ toClose \subseteq toClose'
    /\ \A j \in Jobs : jobState'[j] = "active" => jobState[j] = "active"

(* What a shutdown has done is not undone while it goes on, by a second      *)
(* signal, a job or a producer, and no job begins: each step either leaves   *)
(* it where it was or takes it nearer to its end, which is why it ends.      *)
THEOREM ShutdownOnlyAdvances ==
  WorkerSpec => [][{phase, phase'} \subseteq Awaiting => advances]_workerVars
<1>1. ASSUME WorkerIInv, [WorkerNext]_workerVars, phase \in Awaiting, phase' \in Awaiting
      PROVE  advances
  <2>. USE <1>1 DEF Awaiting, advances
  <2>1. CASE \E j \in Jobs : AddJob(j) \/ EndJob(j)
    BY <2>1 DEF AddJob, EndJob, processVars, stage, WorkerIInv, WorkerTypeOK
  <2>2. CASE Signal \/ \E q \in Queues : WorkerCloses(q) \/ QueueCloses(q)
    BY <2>2 DEF Signal, WorkerCloses, QueueCloses, jobVars, stage
  <2>3. CASE WorkersClosed \/ QueuesClosed
    BY <2>3 DEF WorkersClosed, QueuesClosed, closeAllQueues, jobVars, stage,
                WorkerIInv, ShutdownOrder
  <2>4. CASE UNCHANGED workerVars
    BY <2>4 DEF workerVars, processVars, jobVars, stage
  <2>5. /\ ~Quit /\ ~ShutdownFails /\ ~Kill /\ ~Restart
        /\ \A j \in Jobs : ~StartJob(j) /\ ~RecoverJob(j)
    BY DEF Quit, ShutdownFails, Kill, Restart, StartJob, RecoverJob, Ended
  <2>. QED
    BY <2>1, <2>2, <2>3, <2>4, <2>5 DEF WorkerNext, Shutdown
<1>2. WorkerIInv /\ [WorkerNext]_workerVars =>
        [{phase, phase'} \subseteq Awaiting => advances]_workerVars
  BY <1>1
<1>. QED
  BY <1>2, WorkerInvariance, PTL DEF WorkerSpec

-----------------------------------------------------------------------------
(* The refinement.  What a producer sees of each job, and of the process.    *)
Delivery == [j \in Jobs |-> deliveryOf(j)]
CutOffs == [j \in Jobs |-> cutOffsOf(j)]

(* Steps that leave phase, jobs and stalls alone are stutters to a producer. *)
LEMMA ProducerSeesNothing ==
  ASSUME UNCHANGED jobVars, serviceState' = serviceState
  PROVE  UNCHANGED <<serviceState, Delivery, CutOffs>>
BY DEF jobVars, Delivery, CutOffs, deliveryOf, cutOffsOf

(* What each job is to its producer.                                         *)
LEMMA DeliveryStates ==
  ASSUME WorkerTypeOK, NEW j \in Jobs
  PROVE  /\ Delivery[j] = deliveryOf(j) /\ CutOffs[j] = cutOffsOf(j)
         /\ Delivery[j] = "active" <=> jobState[j] = "active"
         /\ jobState[j] # "orphaned" =>
              Delivery[j] = jobState[j] /\ CutOffs[j] = stalls[j]
BY DEF WorkerTypeOK, Delivery, CutOffs, deliveryOf, cutOffsOf

(* A step that moves one job, and counts no stall, moves its delivery.       *)
LEMMA OneJobMoves ==
  ASSUME WorkerTypeOK, NEW j \in Jobs, jobState[j] # "orphaned",
         NEW to \in {"waiting", "active", "completed"},
         jobState' = [jobState EXCEPT ![j] = to], UNCHANGED <<phase, stalls>>
  PROVE  /\ UNCHANGED <<serviceState, CutOffs>>
         /\ Delivery' = [Delivery EXCEPT ![j] = to]
<1>1. UNCHANGED serviceState
  BY DEF serviceState
<1>2. ASSUME NEW k \in Jobs
      PROVE  /\ cutOffsOf(k)' = cutOffsOf(k)
             /\ deliveryOf(k)' = IF k = j THEN to ELSE deliveryOf(k)
  BY DEF WorkerTypeOK, cutOffsOf, deliveryOf
<1>. QED
  BY <1>1, <1>2 DEF Delivery, CutOffs

LEMMA AddIsAdd ==
  ASSUME WorkerIInv, NEW j \in Jobs, AddJob(j)
  PROVE  Service!Add(j)
<1>1. /\ WorkerTypeOK /\ jobState[j] = "notAdded"
      /\ jobState' = [jobState EXCEPT ![j] = "waiting"]
      /\ UNCHANGED <<phase, stalls>>
  BY DEF AddJob, WorkerIInv, processVars
<1>2. /\ UNCHANGED <<serviceState, CutOffs>>
      /\ Delivery' = [Delivery EXCEPT ![j] = "waiting"]
  BY <1>1, OneJobMoves
<1>. QED
  BY <1>1, <1>2, DeliveryStates DEF Service!Add, Service!becomes, Delivery, CutOffs

LEMMA StartIsRun ==
  ASSUME WorkerIInv, NEW j \in Jobs, StartJob(j)
  PROVE  Service!Run(j)
<1>1. /\ WorkerTypeOK /\ phase = "running" /\ jobState[j] = "waiting"
      /\ jobState' = [jobState EXCEPT ![j] = "active"]
      /\ UNCHANGED <<phase, stalls>>
  BY DEF StartJob, WorkerIInv, processVars
<1>2. /\ UNCHANGED <<serviceState, CutOffs>>
      /\ Delivery' = [Delivery EXCEPT ![j] = "active"]
  BY <1>1, OneJobMoves
<1>3. serviceState = "up"
  BY <1>1 DEF serviceState
<1>4. \A k \in Jobs : QueueOf[k] = QueueOf[j] => Delivery[k] # "active"
  BY <1>1, DeliveryStates DEF StartJob, running
<1>. QED
  BY <1>1, <1>2, <1>3, <1>4, DeliveryStates
  DEF Service!Run, Service!becomes, Delivery, CutOffs

LEMMA EndIsFinish ==
  ASSUME WorkerIInv, NEW j \in Jobs, EndJob(j)
  PROVE  Service!Finish(j)
<1>1. /\ WorkerTypeOK /\ jobState[j] = "active"
      /\ jobState' = [jobState EXCEPT ![j] = "completed"]
      /\ UNCHANGED <<phase, stalls>>
  BY DEF EndJob, WorkerIInv, processVars
<1>2. /\ UNCHANGED <<serviceState, CutOffs>>
      /\ Delivery' = [Delivery EXCEPT ![j] = "completed"]
  BY <1>1, OneJobMoves
<1>. QED
  BY <1>1, <1>2, DeliveryStates DEF Service!Finish, Service!becomes, Delivery, CutOffs

(* That BullMQ finds a job stalled is no news: it was waiting again, or had  *)
(* failed, when its process died.                                                *)
LEMMA RecoveryIsNoNews ==
  ASSUME WorkerIInv, NEW j \in Jobs, RecoverJob(j)
  PROVE  UNCHANGED <<serviceState, Delivery, CutOffs>>
<1>1. /\ WorkerTypeOK /\ jobState[j] = "orphaned" /\ UNCHANGED phase
      /\ jobState' = [jobState EXCEPT ![j] = IF stalls[j] = 0 THEN "waiting" ELSE "failed"]
      /\ stalls' = [stalls EXCEPT ![j] = @ + 1]
  BY DEF RecoverJob, WorkerIInv, processVars
<1>2. ASSUME NEW k \in Jobs
      PROVE  cutOffsOf(k)' = cutOffsOf(k) /\ deliveryOf(k)' = deliveryOf(k)
  <2>1. CASE k # j
    BY <1>1, <2>1 DEF WorkerTypeOK, cutOffsOf, deliveryOf
  <2>2. CASE k = j
    <3>1. stalls[j] \in Nat /\ stalls'[j] = stalls[j] + 1
      BY <1>1 DEF WorkerTypeOK
    <3>2. jobState'[j] = IF stalls[j] = 0 THEN "waiting" ELSE "failed"
      BY <1>1 DEF WorkerTypeOK
    <3>. QED
      BY <1>1, <2>2, <3>1, <3>2 DEF cutOffsOf, deliveryOf
  <2>. QED
    BY <2>1, <2>2
<1>. QED
  BY <1>1, <1>2 DEF serviceState, Delivery, CutOffs

(* The process begins to stop, goes on stopping, starts, or ends with 0,     *)
(* which it does with no job running.                                        *)
LEMMA ProcessStepRefines ==
  ASSUME WorkerIInv, Signal \/ Shutdown \/ Restart
  PROVE  \/ Service!Stop \/ Service!Stopped \/ Service!Start
         \/ UNCHANGED <<serviceState, Delivery, CutOffs>>
<1>. USE DEF WorkerIInv
<1>1. UNCHANGED stalls
  BY DEF Signal, Shutdown, WorkerCloses, QueueCloses, WorkersClosed, QueuesClosed,
         Quit, Restart, jobVars
<1>2. jobState' = jobState /\ (Quit => \A j \in Jobs : jobState[j] # "active")
  <2>1. CASE Quit
    <3>1. \A j \in Jobs : jobState[j] # "active"
      BY <2>1, WorkerConstants DEF Quit, ShutdownOrder, NoJobLeftRunning, running
    <3>. QED
      BY <2>1, <3>1 DEF Quit, dropped, WorkerTypeOK
  <2>2. CASE ~Quit
    BY <2>2 DEF Signal, Shutdown, WorkerCloses, QueueCloses, WorkersClosed,
                QueuesClosed, Restart, jobVars
  <2>. QED
    BY <2>1, <2>2
<1>3. UNCHANGED <<Delivery, CutOffs>>
  BY <1>1, <1>2 DEF Delivery, CutOffs, deliveryOf, cutOffsOf
<1>4. CASE Signal
  <2>1. \/ serviceState = "up" /\ serviceState' = "stopping"
        \/ serviceState' = serviceState
    BY <1>4 DEF Signal, serviceState, Awaiting
  <2>. QED
    BY <1>3, <2>1 DEF Service!Stop, Delivery, CutOffs
<1>5. CASE Quit
  <2>1. serviceState = "stopping" /\ serviceState' = "stopped"
    BY <1>5 DEF Quit, serviceState, Awaiting
  <2>2. \A j \in Jobs : Delivery[j] # "active"
    BY <1>2, <1>5, DeliveryStates
  <2>. QED
    BY <1>3, <2>1, <2>2 DEF Service!Stopped, Delivery, CutOffs
<1>6. CASE Restart
  <2>1. serviceState \in {"stopped", "crashed"} /\ serviceState' = "up"
    BY <1>6 DEF Restart, serviceState, Ended, Awaiting
  <2>. QED
    BY <1>3, <2>1 DEF Service!Start, Delivery, CutOffs
<1>7. CASE Shutdown /\ ~Quit
  <2>1. UNCHANGED serviceState
    BY <1>7 DEF Shutdown, WorkerCloses, QueueCloses, WorkersClosed, QueuesClosed,
                serviceState, Awaiting
  <2>. QED
    BY <1>3, <2>1
<1>. QED
  BY <1>4, <1>5, <1>6, <1>7

(* A failed shutdown and a kill cut off every job that runs.                 *)
LEMMA UncleanEndIsCrash ==
  ASSUME WorkerIInv, ShutdownFails \/ Kill
  PROVE  Service!Crash
<1>1. /\ WorkerTypeOK /\ phase \in {"running"} \cup Awaiting
      /\ phase' \in {"exit1", "killed"} /\ jobState' = dropped /\ UNCHANGED stalls
  BY DEF ShutdownFails, Kill, WorkerIInv, WorkerTypeOK
<1>2. serviceState \in {"up", "stopping"} /\ serviceState' = "crashed"
  BY <1>1 DEF serviceState, Awaiting
<1>3. ASSUME NEW j \in Jobs
      PROVE  /\ deliveryOf(j)' =
                  IF Delivery[j] # "active" THEN Delivery[j]
                  ELSE IF CutOffs[j] = 0 THEN "waiting" ELSE "failed"
             /\ cutOffsOf(j)' = IF Delivery[j] = "active" THEN CutOffs[j] + 1
                                                           ELSE CutOffs[j]
  <2>1. CASE jobState[j] = "active"
    <3>1. jobState'[j] = "orphaned" /\ stalls'[j] = stalls[j]
      BY <1>1, <2>1, DroppedJobs
    <3>2. Delivery[j] = "active" /\ CutOffs[j] = stalls[j]
      BY <1>1, <2>1, DeliveryStates
    <3>. QED
      BY <3>1, <3>2 DEF deliveryOf, cutOffsOf
  <2>2. CASE jobState[j] # "active"
    <3>1. jobState'[j] = jobState[j] /\ stalls'[j] = stalls[j]
      BY <1>1, <2>2, DroppedJobs
    <3>2. /\ Delivery[j] # "active"
          /\ Delivery[j] = deliveryOf(j) /\ CutOffs[j] = cutOffsOf(j)
      BY <1>1, <2>2, DeliveryStates
    <3>. QED
      BY <3>1, <3>2 DEF deliveryOf, cutOffsOf
  <2>. QED
    BY <2>1, <2>2
<1>. QED
  BY <1>2, <1>3 DEF Service!Crash, Delivery, CutOffs

(* Every step of the process, BullMQ and the producers is one of the service *)
(* or none.                                                                  *)
LEMMA WorkerStepRefines ==
  ASSUME WorkerIInv, [WorkerNext]_workerVars
  PROVE  [Service!ServiceNext]_<<serviceState, Delivery, CutOffs>>
<1>. USE DEF Service!ServiceNext
<1>1. ASSUME NEW j \in Jobs, AddJob(j) \/ StartJob(j) \/ EndJob(j) \/ RecoverJob(j)
      PROVE  [Service!ServiceNext]_<<serviceState, Delivery, CutOffs>>
  BY <1>1, AddIsAdd, StartIsRun, EndIsFinish, RecoveryIsNoNews
<1>2. CASE Signal \/ Shutdown \/ Restart
  BY <1>2, ProcessStepRefines
<1>3. CASE ShutdownFails \/ Kill
  BY <1>3, UncleanEndIsCrash
<1>4. CASE UNCHANGED workerVars
  <2>1. UNCHANGED jobVars /\ serviceState' = serviceState
    BY <1>4 DEF workerVars, processVars, serviceState
  <2>. QED
    BY <2>1, ProducerSeesNothing
<1>. QED
  BY <1>1, <1>2, <1>3, <1>4 DEF WorkerNext

(* The worker process, with its shutdowns, kills and restarts, is to any     *)
(* producer of any jobs the service that JobService promises.                *)
THEOREM WorkerImplementsJobService == WorkerSpec => ImplementsJobService
<1>1. WorkerInit => Service!ServiceInit
  BY DEF WorkerInit, Service!ServiceInit, serviceState, deliveryOf, cutOffsOf
<1>2. WorkerIInv /\ [WorkerNext]_workerVars => [Service!ServiceNext]_(Service!serviceVars)
  BY WorkerStepRefines DEF Service!serviceVars, Delivery, CutOffs
<1>. QED
  BY <1>1, <1>2, WorkerInvariance, PTL
  DEF WorkerSpec, ImplementsJobService, Service!ServiceSpec
=============================================================================
