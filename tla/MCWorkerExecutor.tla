-------------------------- MODULE MCWorkerExecutor --------------------------
(* Small instances of WorkerExecutor for TLC.                               *)
EXTENDS WorkerExecutor

\* Every call carries the same broker message: concurrent attempts of it.
MCMessageOf(j) == "message"

============================================================================
