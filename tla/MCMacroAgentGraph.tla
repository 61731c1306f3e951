------------------------- MODULE MCMacroAgentGraph -------------------------
(* The scientific graph with the budget of nodes.py and LangGraph's default *)
(* recursion limit, over two or three invocations of one thread.            *)
EXTENDS MacroAgentGraph
=============================================================================
