-------------------------- MODULE MCWorkerAffinity --------------------------
(***************************************************************************)
(* Two nodes, of which node_task_queues sends one to the shared queue, on  *)
(* one or two worker processes.                                            *)
(***************************************************************************)
EXTENDS WorkerAffinity

NodeQueueDef == [n \in Node |-> IF n = "a" THEN Shared ELSE None]
=============================================================================
