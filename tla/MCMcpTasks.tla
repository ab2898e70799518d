----------------------------- MODULE MCMcpTasks -----------------------------
(* Instances of McpTasks for TLC.                                          *)
EXTENDS McpTasks, TLC
=============================================================================
