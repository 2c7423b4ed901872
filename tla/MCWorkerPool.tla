--------------------------- MODULE MCWorkerPool ---------------------------
(* Instances of WorkerPool for TLC. No symmetry: its run checks liveness.  *)
EXTENDS WorkerPool
=============================================================================
