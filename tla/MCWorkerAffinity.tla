--------------------------- MODULE MCWorkerAffinity ---------------------------
(* Two workers that compete for a symbol, one of which may leave.               *)
EXTENDS WorkerAffinity
CONSTANTS w1, w2
BothWorkers == {w1, w2}
===============================================================================
