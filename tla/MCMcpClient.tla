----------------------------- MODULE MCMcpClient -----------------------------
(* TLC instance of McpClient: two callers, who may call again *)
EXTENDS McpClient, TLC
=============================================================================
