-------------------------- MODULE MCBatchWorkerPool --------------------------
(* TLC instance of BatchWorkerPool; pool.cfg names its tasks and callers. *)
EXTENDS BatchWorkerPool
=============================================================================
