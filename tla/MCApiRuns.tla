------------------------------ MODULE MCApiRuns ------------------------------
(* TLC instance of ApiRuns and of the AgentRuntime in it: two calls of one   *)
(* known tool can be told apart by their identifiers.                        *)
EXTENDS ApiRuns
=============================================================================
