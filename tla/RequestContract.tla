--------------------------- MODULE RequestContract ---------------------------
(***************************************************************************)
(* What the MCP client promises of a request, whatever becomes of its      *)
(* process, its reader and the other callers: it is decided once, by the   *)
(* server's answer to this request, by a failure that spares no open       *)
(* request, or because its caller gives up; and its caller is told once,   *)
(* an answer only if that was the decision.                                *)
(***************************************************************************)
EXTENDS Naturals

CONSTANT MaxRequests

VARIABLES
    answer,    \* what the server has answered to a request
    decision,  \* whether it is open, and what it was decided by
    outcome    \* what its caller was told

Requests == 1..MaxRequests
Answers  == {"result", "error"}
Nothing  == [r \in Requests |-> "none"]

Init == answer = Nothing /\ decision = Nothing /\ outcome = Nothing

(* Requests are made in the order of their numbers; a request that cannot  *)
(* be written is open nevertheless.                                        *)
Make(r) ==
    /\ decision[r] = "none" /\ \A q \in 1..(r - 1) : decision[q] # "none"
    /\ decision' = [decision EXCEPT ![r] = "open"]
    /\ outcome' \in {outcome, [outcome EXCEPT ![r] = "raised"]}
    /\ UNCHANGED answer

Respond(r) ==
    /\ decision[r] # "none" /\ answer[r] = "none"
    /\ \E says \in Answers : answer' = [answer EXCEPT ![r] = says]
    /\ UNCHANGED <<decision, outcome>>

Decide(r) ==
    /\ decision[r] = "open" /\ answer[r] # "none"
    /\ decision' = [decision EXCEPT ![r] = answer[r]]
    /\ UNCHANGED <<answer, outcome>>

FailAll ==
    /\ decision' = [r \in Requests |-> IF decision[r] = "open" THEN "failed" ELSE decision[r]]
    /\ UNCHANGED <<answer, outcome>>

(* The caller of r, if it still waits, is told *)
Tell(r, how) ==
    /\ decision[r] # "none" /\ outcome[r] = "none"
    /\ how \in Answers => decision[r] = how
    /\ outcome' = [outcome EXCEPT ![r] = how]
    /\ UNCHANGED <<answer, decision>>

GiveUp(r) ==
    /\ decision[r] # "none" /\ outcome[r] = "none"
    /\ outcome' = [outcome EXCEPT ![r] = "cancelled"]
    /\ \/ decision[r] = "open" /\ decision' = [decision EXCEPT ![r] = "cancelled"]
       \/ UNCHANGED decision
    /\ UNCHANGED answer

Next == \/ \E r \in Requests : \/ Make(r) \/ Respond(r) \/ Decide(r) \/ GiveUp(r)
                               \/ \E how \in Answers \cup {"raised"} : Tell(r, how)
        \/ FailAll

Spec == Init /\ [][Next]_<<answer, decision, outcome>>
=============================================================================
