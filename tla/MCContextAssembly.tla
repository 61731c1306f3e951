-------------------------- MODULE MCContextAssembly -------------------------
(* Instance of ContextAssembly for TLC: the kinds of items the agent loop    *)
(* submits, with more instructions and an aged tool result.                  *)
EXTENDS ContextAssembly

MCItem(content, kind, priority, age) ==
    [content |-> content, kind |-> kind, priority |-> priority, age_in_steps |-> age]

MCItems == {MCItem("rules", "system_instruction", 100, 0),
            MCItem("policy", "system_instruction", 100, 11),
            MCItem("notice", "system_instruction", 100, 0),
            MCItem("query", "user_message", 95, 0),
            MCItem("query", "tool_result", 40, 0),
            MCItem("evidence", "retrieved_evidence", 70, 11),
            MCItem("old", "tool_result", 40, 11),
            MCItem("value", "tool_result", 40, 0)}

MCTokens == [content \in {"rules", "policy", "notice", "query", "evidence", "old", "value"} |->
                CASE content = "policy" -> 4 [] content = "evidence" -> 2 [] OTHER -> 1]
=============================================================================
