--------------------------- MODULE MCWorkerPool ---------------------------
(* Three calls: one to leave a stale frame behind, one to meet it, one to  *)
(* queue.  Three spawns: a child, its replacement in the retry, and the    *)
(* next caller's.                                                          *)
EXTENDS WorkerPool

CONSTANTS k1, k2, k3
MCCalls == {k1, k2, k3}
===========================================================================
