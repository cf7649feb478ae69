---------------------------- MODULE MCMcpGateway ----------------------------
(* Instance of McpGateway: a builtin tool, and one that was registered     *)
(* before the server first starts, or is not.                              *)
EXTENDS McpGateway

MCStored == {Missing, [owner |-> "o1", endpoint |-> "e1"]}
=============================================================================
