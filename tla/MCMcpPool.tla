----------------------------- MODULE MCMcpPool ------------------------------
(* Constants for model checking McpPool.                                   *)
EXTENDS McpPool
CONSTANTS c1, c2, c3
=============================================================================
