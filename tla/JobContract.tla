---------------------------- MODULE JobContract ----------------------------
(***************************************************************************)
(* What the job worker promises about a job, whatever happens between the  *)
(* clients, the polling loop and the tasks: it is worked on by one task at *)
(* a time and at most MaxTries times, and once it has settled nobody works *)
(* on it again.  A submission may be given the identifier of another job;  *)
(* from then on nothing is promised of either.                             *)
(***************************************************************************)
EXTENDS Naturals

CONSTANTS Jobs, MaxTries

VARIABLES phase, tries

Phases == {"absent", "pending", "active", "settled", "shared"}

Move(job, from, to) ==
    /\ phase[job] \in from
    /\ phase' = [phase EXCEPT ![job] = to]

Init == phase = [j \in Jobs |-> "absent"] /\ tries = [j \in Jobs |-> 0]

Submit(job) == Move(job, {"absent"}, "pending") /\ UNCHANGED tries

Claim(job) ==
    /\ Move(job, {"pending"}, "active")
    /\ tries[job] < MaxTries
    /\ tries' = [tries EXCEPT ![job] = @ + 1]

Requeue(job) ==
    /\ Move(job, {"active"}, "pending")
    /\ tries[job] < MaxTries
    /\ UNCHANGED tries

(* By a result, by the last failure, or by a cancellation *)
Settle(job) == Move(job, {"pending", "active"}, "settled") /\ UNCHANGED tries

(* The identifier of `old` is given to `new` *)
Share(new, old) ==
    /\ phase[new] = "absent" /\ phase[old] # "absent"
    /\ phase' = [phase EXCEPT ![new] = "shared", ![old] = "shared"]
    /\ tries' = [tries EXCEPT ![new] = 0, ![old] = 0]

Next == \E job \in Jobs : \/ Submit(job) \/ Claim(job) \/ Requeue(job) \/ Settle(job)
                          \/ \E old \in Jobs : Share(job, old)

Spec == Init /\ [][Next]_<<phase, tries>>
=============================================================================
