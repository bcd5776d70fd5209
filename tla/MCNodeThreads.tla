--------------------------- MODULE MCNodeThreads ---------------------------
(* NodeThreads for TLC: a node with one server and its job manager. *)
EXTENDS NodeThreads

CONSTANTS server, jobManager

MCWorkers == {server, jobManager}
MCPredicated == {jobManager}
=============================================================================
