------------------------------ MODULE JobService ------------------------------
(* What the queues and their worker promise whoever adds a job: it waits     *)
(* until it is run, the jobs of a queue are run one at a time, a service     *)
(* that stops runs to the end what it began, and only a crash cuts a run     *)
(* off, after which the job waits again once and then has failed.            *)
EXTENDS Naturals

CONSTANTS Jobs, QueueOf

VARIABLES service,  \* "up", "stopping", "stopped" or "crashed"
          job,      \* "notAdded", "waiting", "active", "completed" or "failed"
          cutOffs   \* how often a run of the job was cut off

serviceVars == <<service, job, cutOffs>>

ServiceInit ==
    /\ service = "up"
    /\ job = [j \in Jobs |-> "notAdded"]
    /\ cutOffs = [j \in Jobs |-> 0]

becomes(j, state) == job' = [job EXCEPT ![j] = state]

Add(j) ==
    /\ job[j] = "notAdded"
    /\ becomes(j, "waiting")
    /\ UNCHANGED <<service, cutOffs>>

Run(j) ==
    /\ service = "up"
    /\ job[j] = "waiting"
    /\ \A k \in Jobs : QueueOf[k] = QueueOf[j] => job[k] # "active"
    /\ becomes(j, "active")
    /\ UNCHANGED <<service, cutOffs>>

Finish(j) ==
    /\ job[j] = "active"
    /\ becomes(j, "completed")
    /\ UNCHANGED <<service, cutOffs>>

Stop ==
    /\ service = "up"
    /\ service' = "stopping"
    /\ UNCHANGED <<job, cutOffs>>

(* The exit with code 0.                                                     *)
Stopped ==
    /\ service = "stopping"
    /\ \A j \in Jobs : job[j] # "active"
    /\ service' = "stopped"
    /\ UNCHANGED <<job, cutOffs>>

Crash ==
    /\ service \in {"up", "stopping"}
    /\ service' = "crashed"
    /\ job' = [j \in Jobs |-> IF job[j] # "active" THEN job[j]
                              ELSE IF cutOffs[j] = 0 THEN "waiting" ELSE "failed"]
    /\ cutOffs' = [j \in Jobs |-> IF job[j] = "active" THEN cutOffs[j] + 1
                                                        ELSE cutOffs[j]]

Start ==
    /\ service \in {"stopped", "crashed"}
    /\ service' = "up"
    /\ UNCHANGED <<job, cutOffs>>

ServiceNext ==
    \/ \E j \in Jobs : Add(j) \/ Run(j) \/ Finish(j)
    \/ Stop \/ Stopped \/ Crash \/ Start

ServiceSpec == ServiceInit /\ [][ServiceNext]_serviceVars
=============================================================================
