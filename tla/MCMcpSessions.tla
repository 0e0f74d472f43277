--------------------------- MODULE MCMcpSessions ---------------------------
(* Model-checking instances of McpSessions. *)
EXTENDS McpSessions, TLC

=============================================================================
