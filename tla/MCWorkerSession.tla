--------------------------- MODULE MCWorkerSession ---------------------------
(* Instances of WorkerSession for TLC. *)
EXTENDS WorkerSession

\* Enough for an answer the supervisor awaits and one it did not ask for.
MCSpareFrames == 2
=============================================================================
