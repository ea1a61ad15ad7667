------------------------------ MODULE MCWorker ------------------------------
(* Two queues, with two jobs on one of them so that a worker has a job       *)
(* waiting behind the one it runs.                                           *)
EXTENDS Worker

CONSTANTS polling, notifications, j1, j2, j3, local

MC_Queues == {polling, notifications}
MC_Jobs == {j1, j2, j3}
MC_QueueOf == [j \in MC_Jobs |-> IF j = j3 THEN notifications ELSE polling]
=============================================================================
