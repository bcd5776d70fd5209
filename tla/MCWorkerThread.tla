--------------------------- MODULE MCWorkerThread ---------------------------
(* WorkerThread for TLC: one server and the job manager of a node. *)
EXTENDS WorkerThread

CONSTANTS server, jobManager

MCWorkers == {server, jobManager}
MCPredicated == {jobManager}
=============================================================================
