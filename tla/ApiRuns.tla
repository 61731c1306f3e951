------------------------------ MODULE ApiRuns ------------------------------
(***************************************************************************)
(* A run behind the HTTP API (src/src/agent_runtime/api.py): a client      *)
(* creates it, a background task of the event loop carries it out as       *)
(* AgentRuntime does, and polls, which the server answers from threads,    *)
(* see what the run store holds.                                           *)
(*                                                                         *)
(* Runs share nothing but the event loop, so one is enough.  The store's   *)
(* entry is a state object: the initial one, of which only the status ever *)
(* changes, or the one run() returned, which never does; a poll that has   *)
(* fetched an object may therefore read its fields in one step.            *)
(***************************************************************************)
EXTENDS AgentRuntime

CONSTANT Pollers

VARIABLES
    worker,          \* background_agent_worker: absent, created, sleeping, running, over
    entry,           \* the object in RUNS_DATABASE: none, initial, final
    initial_status,  \* the status of the initial object
    poll,            \* what every poller is doing
    told             \* what polls have answered since the first that was not "running"

api     == <<worker, entry, initial_status>>
polling == <<poll, told>>
apiVars == <<vars, api, polling>>

Idle == [object |-> "none", late |-> FALSE]

ApiInit ==
    /\ Init
    /\ worker = "absent" /\ entry = "none" /\ initial_status = "running"
    /\ poll = [p \in Pollers |-> Idle]
    /\ told = {}
-----------------------------------------------------------------------------
CreateRun ==
    /\ worker = "absent"
    /\ worker' = "created" /\ entry' = "initial"
    /\ UNCHANGED <<vars, initial_status, polling>>

(* The task's first step: it constructs provider, registry and runtime, and *)
(* enters its try to sleep                                                  *)
StartWorker ==
    /\ worker = "created"
    /\ worker' = "sleeping"
    /\ UNCHANGED <<vars, entry, initial_status, polling>>

(* A constructor raises, for instance over the skill catalog, or the task   *)
(* is cancelled before its first step: no handler of the try hears of it    *)
LoseWorker ==
    /\ worker = "created"
    /\ worker' = "over"
    /\ UNCHANGED <<vars, entry, initial_status, polling>>

(* runtime.run is called from the event loop and does not await *)
StartRun ==
    /\ worker = "sleeping"
    /\ worker' = "running"
    /\ UNCHANGED <<vars, entry, initial_status, polling>>

RunStep ==
    /\ worker = "running"
    /\ Next
    /\ UNCHANGED <<api, polling>>

Publish ==
    /\ worker = "running"
    /\ phase = "over"
    /\ worker' = "over" /\ entry' = "final"
    /\ UNCHANGED <<vars, initial_status, polling>>

(* The server shuts down while the task sleeps, its only await *)
CancelAnytime ==  \* mutant: a late cancellation overwrites the outcome
    /\ worker \in {"sleeping", "over"}
    /\ worker' = "over" /\ entry' = "initial" /\ initial_status' = "cancelled"
    /\ UNCHANGED <<vars, polling>>

Cancel ==
    /\ worker = "sleeping"
    /\ worker' = "over" /\ initial_status' = "cancelled"
    /\ UNCHANGED <<vars, entry, polling>>

(* run() raises where the loop catches nothing: before a request, or for a  *)
(* max_steps of null                                                        *)
RunRaises ==
    /\ worker = "running"
    /\ phase = "head"
    /\ worker' = "over" /\ initial_status' = "failed"
    /\ UNCHANGED <<vars, entry, polling>>
-----------------------------------------------------------------------------
(* GET /runs/{run_id} *)
Fetch(p) ==
    /\ poll[p] = Idle
    /\ entry # "none"
    /\ poll' = [poll EXCEPT ![p] = [object |-> entry, late |-> told # {}]]
    /\ UNCHANGED <<vars, api, told>>

Reported(object) == IF object = "final" THEN status ELSE initial_status

Answer(p) ==
    /\ poll[p] # Idle
    /\ LET answer == Reported(poll[p].object)
       IN  told' = IF answer # "running" \/ poll[p].late THEN told \cup {answer} ELSE told
    /\ poll' = [poll EXCEPT ![p] = Idle]
    /\ UNCHANGED <<vars, api>>
-----------------------------------------------------------------------------
WorkerStep == StartWorker \/ StartRun \/ RunStep \/ Publish \/ RunRaises

ApiNext == \/ CreateRun \/ LoseWorker \/ WorkerStep \/ Cancel
           \/ \E p \in Pollers : Fetch(p) \/ Answer(p)

(* The event loop goes on with its tasks; clients need not poll *)
ApiSpec == ApiInit /\ [][ApiNext]_apiVars /\ WF_apiVars(WorkerStep)
-----------------------------------------------------------------------------
(* Properties *)

(* What a poll has said of a run that is over stays true: every poll that   *)
(* starts later says the same, polls that overlap with the end say it or    *)
(* "running", and it is how the agent's loop itself ended, unless that was  *)
(* never asked (api.py:51-61, 72-77).                                       *)
PollsAgree ==
    told # {} => /\ told = {Reported(entry)}
                 /\ worker = "over"
                 /\ entry = "final" <=> stop_reason # "none"

(* A run whose worker got into its try is over some day for whoever polls:  *)
(* steps, attempts and calls are bounded and no error leads back without    *)
(* using one of them, and the outcome, whichever, reaches the store         *)
(* (api.py:51-61, loop.py:235-441).  Of a worker that was lost before its   *)
(* try nothing is promised: such a run is "running" for ever (api.py:47-50).*)
RunSettles == worker = "sleeping" ~> (entry # "none" /\ Reported(entry) # "running")
=============================================================================
