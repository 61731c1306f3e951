----------------------------- MODULE JobWorker -----------------------------
(***************************************************************************)
(* The job store and its asynchronous worker (src/src/agent_runtime/jobs): *)
(* clients submit and cancel, a polling loop acknowledges cancellations    *)
(* and claims queued jobs, and every claim spawns a task that works on the *)
(* job.  All of them run on one event loop, so an action is what happens   *)
(* between two awaits.                                                     *)
(*                                                                         *)
(* Records are numbered in the order they are created.  The store's        *)
(* dictionary is keyed by the millisecond of creation: a record for which  *)
(* the clock shows the same as for an earlier one takes its place, under   *)
(* the same identifier and at the same position of the dictionary.         *)
(***************************************************************************)
EXTENDS Integers, FiniteSets

CONSTANTS
    Keys,             \* idempotency keys clients use
    Requests,         \* the keys they submit, and whether the computation raises
    NoKey,            \* the key field of a record not yet created
    MaxAttempts,      \* JobRecord.max_attempts
    MaxRecords,       \* bound: records ever created
    MaxCancels,       \* bound: cancellation requests of the clients
    MaxStarts         \* bound: calls of start()

ASSUME BoundsAssumption ==
    MaxRecords \in Nat /\ MaxCancels \in Nat /\ MaxStarts \in Nat
ASSUME AttemptsAssumption == MaxAttempts \in Nat \ {0}
ASSUME KeysAssumption     == NoKey \notin Keys /\ Requests \subseteq Keys \X BOOLEAN

Records == 1..MaxRecords

VARIABLES
    created,        \* number of records created so far
    job_id,         \* the identifier: the first record that was given it
    idempotency_key, force_fail, status, attempt_count,
    result,         \* whether result has been set
    cores,          \* tasks of _execute_job_core that have not ended
    running,        \* worker._running: at least one polling loop is alive
    cancels, starts

store  == <<created, job_id, idempotency_key, force_fail, status, attempt_count, result>>
worker == <<running, starts>>
vars   == <<store, cores, worker, cancels>>

Statuses == {"absent", "queued", "running", "succeeded", "failed", "cancel_requested",
             "cancelled"}

(* A task of _execute_job_core for the record it was claimed for; `job` is  *)
(* the record it fetched when it first ran, 0 before that.                  *)
Cores == [claimed : Records, attempt : Nat, job : Records \cup {0}]

(* The records that were ever stored under an identifier *)
Named(id)   == {o \in 1..created : job_id[o] = id}
Unshared(o) == \A p \in 1..created : job_id[p] = job_id[o] => p = o

(* The store's values: those records that no later one has replaced *)
Stored == {o \in 1..created : \A p \in (o + 1)..created : job_id[p] # job_id[o]}

(* store._db[job_id[o]]: the record now found under the same identifier *)
Resolves(o, current) == current \in Stored /\ job_id[current] = job_id[o]

StoredIn(statuses) == {o \in Stored : status[o] \in statuses}

(* fetch_next_...: the first match in insertion order of the identifiers *)
Oldest(o, S) == o \in S /\ \A p \in S : job_id[o] <= job_id[p]
-----------------------------------------------------------------------------
Init ==
    /\ created = 0
    /\ job_id = [o \in Records |-> 0]
    /\ idempotency_key = [o \in Records |-> NoKey]
    /\ force_fail = [o \in Records |-> FALSE]
    /\ status = [o \in Records |-> "absent"]
    /\ attempt_count = [o \in Records |-> 0]
    /\ result = [o \in Records |-> FALSE]
    /\ cores = {}
    /\ running = FALSE /\ starts = 0 /\ cancels = 0

(* The search of submit_job for a record with the same key *)
KnownWhileAlive(key) ==  \* mutant: a failed or cancelled job frees its key
    \E o \in StoredIn({"queued", "running", "cancel_requested", "succeeded"}) :
        idempotency_key[o] = key

Known(key) == \E o \in Stored : idempotency_key[o] = key

(* submit_job with a key no stored record has; with a known key it returns  *)
(* the existing record and changes nothing.  What time.time() shows may be  *)
(* new, or what it showed for an earlier record.                            *)
Submit(key, fails) ==
    /\ created < MaxRecords
    /\ ~Known(key)
    /\ LET new == created + 1
       IN  /\ \E id \in {job_id[o] : o \in 1..created} \cup {new} :
                job_id' = [job_id EXCEPT ![new] = id]
           /\ created' = new
           /\ idempotency_key' = [idempotency_key EXCEPT ![new] = key]
           /\ force_fail' = [force_fail EXCEPT ![new] = fails]
           /\ status' = [status EXCEPT ![new] = "queued"]
    /\ UNCHANGED <<attempt_count, result, cores, worker, cancels>>

(* A client's update_job_status(job_id, "cancel_requested"): the store      *)
(* accepts it in every status.                                              *)
RequestCancel(o) ==
    /\ cancels < MaxCancels
    /\ o \in Stored
    /\ status' = [status EXCEPT ![o] = "cancel_requested"]
    /\ cancels' = cancels + 1
    /\ UNCHANGED <<created, job_id, idempotency_key, force_fail, attempt_count,
                   result, cores, worker>>

(* start().  A loop that stop() could not cancel goes on polling when the    *)
(* worker is started again; it does what the new loop does, so only whether *)
(* some loop polls is kept.                                                 *)
StartWorker ==
    /\ ~running
    /\ starts < MaxStarts
    /\ running' = TRUE
    /\ starts' = starts + 1
    /\ UNCHANGED <<store, cores, cancels>>

(* stop() ends the polling; the tasks working on jobs go on *)
StopWorker ==
    /\ running
    /\ running' = FALSE
    /\ UNCHANGED <<store, cores, cancels, starts>>

(* One iteration of _process_loop, given the jobs with a cancellation to be *)
(* acknowledged and those to be claimed: the oldest of each is taken, and   *)
(* a task is spawned for the claimed one.                                   *)
Iteration(requested, waiting, claimed_status) ==
    /\ status' = [o \in Records |-> IF Oldest(o, requested) THEN "cancelled"
                                    ELSE IF Oldest(o, waiting) THEN claimed_status
                                    ELSE status[o]]
    /\ attempt_count' = [o \in Records |-> IF Oldest(o, waiting) THEN attempt_count[o] + 1
                                           ELSE attempt_count[o]]
    /\ cores' = cores \cup {[claimed |-> o, attempt |-> attempt_count[o] + 1, job |-> 0] :
                            o \in {p \in Records : Oldest(p, waiting)}}
    /\ UNCHANGED <<created, job_id, idempotency_key, force_fail, result, worker, cancels>>

PollUnlocked ==  \* mutant: the claimed job is not locked
    /\ running
    /\ Iteration(StoredIn({"cancel_requested"}), StoredIn({"queued"}), "queued")

PollRevives ==  \* mutant: failed jobs are claimed like queued ones
    /\ running
    /\ Iteration(StoredIn({"cancel_requested"}), StoredIn({"queued", "failed"}), "running")

PollWithoutAck ==  \* mutant: cancellations are left to the tasks
    /\ running
    /\ Iteration({}, StoredIn({"queued"}), "running")

Poll ==
    /\ running
    /\ Iteration(StoredIn({"cancel_requested"}), StoredIn({"queued"}), "running")

(* The task runs for the first time: get_job, then the first sleep *)
CoreStart(core) ==
    /\ core.job = 0
    /\ \E current \in Records :
         /\ Resolves(core.claimed, current)
         /\ cores' = (cores \ {core}) \cup {[core EXCEPT !.job = current]}
    /\ UNCHANGED <<store, worker, cancels>>

(* The task wakes, looks its job up again and ends.  Only a cancellation    *)
(* that is still requested stops it.                                        *)
CoreEnd(core, current) ==
    /\ core.job # 0
    /\ Resolves(core.claimed, current)
    /\ cores' = cores \ {core}
    /\ UNCHANGED <<created, job_id, idempotency_key, force_fail, attempt_count,
                   worker, cancels>>

CoreCancels(core) ==
    \E current \in Records :
        /\ CoreEnd(core, current)
        /\ status[current] = "cancel_requested"
        /\ status' = [status EXCEPT ![current] = "cancelled"]
        /\ UNCHANGED result

CoreSucceeds(core) ==
    \E current \in Records :
        /\ CoreEnd(core, current)
        /\ status[current] # "cancel_requested"
        /\ ~force_fail[core.job]
        /\ status' = [status EXCEPT ![current] = "succeeded"]
        /\ result' = [result EXCEPT ![current] = TRUE]

(* The computation raised; attempts and budget are read from the record     *)
(* fetched at the start.                                                    *)
RetriesOnceLess(job)  == attempt_count[job] + 1 < MaxAttempts  \* mutant: off by one
Retries(job)          == attempt_count[job] < MaxAttempts

StatusAfterFailure(job) == IF Retries(job) THEN "queued" ELSE "failed"

CoreFails(core) ==
    \E current \in Records :
        /\ CoreEnd(core, current)
        /\ status[current] # "cancel_requested"
        /\ force_fail[core.job]
        /\ status' = [status EXCEPT ![current] = StatusAfterFailure(core.job)]
        /\ UNCHANGED result

CoreStep(core) ==
    CoreStart(core) \/ CoreCancels(core) \/ CoreSucceeds(core) \/ CoreFails(core)

Next ==
    \/ \E request \in Requests : Submit(request[1], request[2])
    \/ \E o \in Records : RequestCancel(o)
    \/ StartWorker \/ StopWorker
    \/ Poll
    \/ \E core \in cores : CoreStep(core)

(* The event loop resumes sleeping tasks: the polling task while the worker *)
(* runs, and some task working on a job while there is one.  That it        *)
(* resumes every one is not needed, as there are finitely many.  Clients    *)
(* owe nothing.                                                             *)
Fairness ==
    /\ WF_vars(Poll)
    /\ WF_vars(\E core \in cores : CoreStep(core))

Spec == Init /\ [][Next]_vars /\ Fairness
-----------------------------------------------------------------------------
(* Properties *)

(* The types of the store and of the tasks *)
TypeOK ==
    /\ created \in 0..MaxRecords
    /\ job_id \in [Records -> Nat]
    /\ idempotency_key \in [Records -> Keys \cup {NoKey}]
    /\ force_fail \in [Records -> BOOLEAN]
    /\ status \in [Records -> Statuses]
    /\ attempt_count \in [Records -> Nat]
    /\ result \in [Records -> BOOLEAN]
    /\ cores \subseteq Cores
    /\ running \in BOOLEAN /\ starts \in Nat /\ cancels \in Nat

(* Of one identifier there are never more tasks, the one that is yet to be  *)
(* claimed included, than records were created under it: the claim, the     *)
(* requeue, restarts and cancellations interleave freely, but none of them  *)
(* makes a second task of one submission.  While a task works on a job that *)
(* shares its identifier with none, the job is neither waiting to be        *)
(* claimed nor finished (worker.py:36-43, 69-78).                           *)
Workers(id) == {c \in cores : job_id[c.claimed] = id}
Waiting(id) == IF \E o \in StoredIn({"queued"}) : job_id[o] = id THEN 1 ELSE 0

OneTaskPerSubmission ==
    /\ \A id \in Records : Cardinality(Workers(id)) + Waiting(id) <= Cardinality(Named(id))
    /\ \A c \in cores : Unshared(c.claimed) =>
         status[c.claimed] \in {"running", "cancel_requested", "cancelled"}

(* No job of an identifier of its own is attempted more often than its      *)
(* budget, and one is only waiting while an attempt is left: cancelling it, *)
(* or restarting the worker, never buys another attempt (worker.py:73-78).  *)
AttemptsBounded ==
    \A o \in 1..created : Unshared(o) =>
        /\ attempt_count[o] <= MaxAttempts
        /\ status[o] = "queued" => attempt_count[o] < MaxAttempts

(* What is reported about a job is what a payload of its identifier did: a  *)
(* result comes from a claimed computation that did not raise, and a        *)
(* failure from one that was retried to the end of its budget.  A job whose *)
(* identifier is its own is so reported for what its own payload did.       *)
OutcomeMatchesPayload ==
    \A o \in 1..created :
        LET named == Named(job_id[o])
        IN  /\ result[o] => /\ \E p \in named : ~force_fail[p]
                            /\ \E p \in named : attempt_count[p] >= 1
            /\ status[o] = "succeeded" => result[o]
            /\ status[o] = "failed" =>
                 \E p \in named : force_fail[p] /\ attempt_count[p] >= MaxAttempts

(* A key gets a second record only after its first was lost: in between     *)
(* another record was created under the same identifier and took its place. *)
(* (store.py:14-26)                                                         *)
KeyRepeatsOnlyAfterLoss ==
    \A o, p \in 1..created : o < p /\ idempotency_key[o] = idempotency_key[p] =>
        \E q \in Named(job_id[o]) : o < q /\ q < p

(* The inductive strengthening: an identifier is the number of a record     *)
(* that was created under it, and what a task was claimed for, what it      *)
(* fetched and what it will look up have one identifier.                    *)
Creation ==
    /\ \A o \in Records : status[o] = "absent" <=> o > created
    /\ \A o \in Records : o > created => attempt_count[o] = 0 /\ ~result[o]
    /\ \A o \in 1..created : job_id[o] \in 1..o

TaskOwnership ==
    /\ IsFiniteSet(cores)
    /\ \A c \in cores :
         /\ c.claimed <= created
         /\ c.job # 0 => c.job <= created /\ job_id[c.job] = job_id[c.claimed]
         /\ c.attempt <= attempt_count[c.claimed] /\ c.attempt >= 1

JobInv ==
    /\ TypeOK /\ Creation /\ TaskOwnership /\ OneTaskPerSubmission /\ AttemptsBounded
    /\ OutcomeMatchesPayload /\ KeyRepeatsOnlyAfterLoss

(* A task's job is over: nobody works on it and it is not waiting for a     *)
(* task or for the acknowledgement of a cancellation.                       *)
WorkedOn(o) == \E c \in cores : c.claimed = o
Settled(o)  == status[o] \in {"succeeded", "failed", "cancelled"} /\ ~WorkedOn(o)

(* While the worker is not stopped for good, every job that was submitted   *)
(* and is still in the store ends: it is not starved by others that are     *)
(* retried or that share its identifier, and a cancellation is acknowledged *)
(* (worker.py:27-44).                                                       *)
EveryJobSettles ==
    <>[]running => \A o \in Records :
        (status[o] # "absent") ~> (Settled(o) \/ o \notin Stored)

(* The contract of the worker: see JobContract.  Nothing is promised of a   *)
(* job once its identifier is shared.                                       *)
phase == [o \in Records |->
            IF status[o] = "absent" THEN "absent"
            ELSE IF ~Unshared(o) THEN "shared"
            ELSE IF status[o] = "queued" THEN "pending"
            ELSE IF WorkedOn(o) THEN "active" ELSE "settled"]

tries == [o \in Records |-> IF phase[o] = "shared" THEN 0 ELSE attempt_count[o]]

Contract == INSTANCE JobContract WITH
    Jobs     <- Records,
    MaxTries <- MaxAttempts,
    tries    <- tries,
    phase    <- phase

ImplementsContract == Contract!Spec

(* tests/test_job_cancellation.py:24 "Confirm that the worker cleans up and *)
(* transitions the job to cancelled": a cancelled job stays cancelled.      *)
CancelledIsFinal ==
    [][\A o \in Records : status[o] = "cancelled" =>
            status'[o] \in {"cancelled", "cancel_requested"}]_vars
=============================================================================
