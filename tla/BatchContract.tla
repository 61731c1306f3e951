---------------------------- MODULE BatchContract ----------------------------
(***************************************************************************)
(* What the executor promises of a batch, as if every call had a worker of *)
(* its own: a call's tool begins only while the call is open, and once;    *)
(* the call returns what the tool ended with, or is refused without one;   *)
(* it is withdrawn only after its batch ran into the timeout, which leaves *)
(* a tool that has begun to end by itself; and a batch answers once, when  *)
(* every call of it is over.                                               *)
(***************************************************************************)
EXTENDS Naturals

CONSTANTS MaxCalls, MaxBatches

VARIABLES
    batch,   \* the batch of a call
    call,    \* whether it is open, and what became of it
    work,    \* what its tool has come to
    answers  \* what has become of each batch

CallNumbers  == 1..MaxCalls
BatchNumbers == 1..MaxBatches

Endings == {"committed", "skipped", "returned",
            "invalid_arguments", "tool_execution_failed", "unknown_tool"}

contract == <<batch, call, work, answers>>

Init ==
    /\ batch = [c \in CallNumbers |-> 0]
    /\ call = [c \in CallNumbers |-> "absent"]
    /\ work = [c \in CallNumbers |-> "none"]
    /\ answers = [b \in BatchNumbers |-> "absent"]

Over(b, ways) == \A c \in CallNumbers :
                     call[c] # "absent" /\ batch[c] = b => call[c] \in ways

Submit(b, new) ==
    /\ answers[b] = "absent" /\ \A c \in new : call[c] = "absent"
    /\ batch' = [c \in CallNumbers |-> IF c \in new THEN b ELSE batch[c]]
    /\ call' = [c \in CallNumbers |-> IF c \in new THEN "open" ELSE call[c]]
    /\ answers' = [answers EXCEPT ![b] = "open"]
    /\ UNCHANGED work

Begin(c) ==
    /\ call[c] = "open" /\ work[c] = "none"
    /\ work' = [work EXCEPT ![c] = "begun"]
    /\ UNCHANGED <<batch, call, answers>>

End(c) ==
    /\ work[c] = "begun"
    /\ \E ending \in Endings : work' = [work EXCEPT ![c] = ending]
    /\ UNCHANGED <<batch, call, answers>>

Return(c) ==
    /\ call[c] = "open" /\ work[c] # "begun"
    /\ call' = [call EXCEPT ![c] = IF work[c] = "none" THEN "unknown_tool" ELSE work[c]]
    /\ UNCHANGED <<batch, work, answers>>

Withdraw(c) ==
    /\ call[c] = "open" /\ answers[batch[c]] = "timing_out"
    /\ call' = [call EXCEPT ![c] = "withdrawn"]
    /\ UNCHANGED <<batch, work, answers>>

TimeOut(b) ==
    /\ answers[b] = "open"
    /\ answers' = [answers EXCEPT ![b] = "timing_out"]
    /\ UNCHANGED <<batch, call, work>>

Answer(b) ==
    /\ \/ /\ answers[b] = "open" /\ Over(b, Endings)
          /\ answers' = [answers EXCEPT ![b] = "results"]
       \/ /\ answers[b] = "timing_out" /\ Over(b, Endings \cup {"withdrawn"})
          /\ answers' = [answers EXCEPT ![b] = "timeout"]
    /\ UNCHANGED <<batch, call, work>>

Next == \/ \E b \in BatchNumbers :
             TimeOut(b) \/ Answer(b) \/ \E new \in SUBSET CallNumbers : Submit(b, new)
        \/ \E c \in CallNumbers : Begin(c) \/ End(c) \/ Return(c) \/ Withdraw(c)

Spec == Init /\ [][Next]_contract
=============================================================================
