-------------------------- MODULE AsyncToolExecutor --------------------------
(***************************************************************************)
(* Batches of tool calls (src/src/agent_runtime/runtime/async_executor.py) *)
(* with the tool that guards against double commits                        *)
(* (src/src/agent_runtime/tools/idempotency_writer.py).                    *)
(*                                                                         *)
(* A call is a task of the event loop that waits for a slot of the         *)
(* semaphore, hands the tool to a thread of the default pool and waits for *)
(* it.  An action of a task is what it does between two awaits, an action  *)
(* of a thread what it does between two accesses to the set of operations. *)
(* A batch that times out cancels its tasks; a thread that is in a tool    *)
(* cannot be cancelled.  Calls are numbered in the order of creation.      *)
(***************************************************************************)
EXTENDS Integers, FiniteSetsExt, SequencesExt

CONSTANTS
    Operations,       \* operation identifiers of the calls
    None,             \* no operation, or no result
    MaxConcurrency,   \* max_concurrency
    PoolSize,         \* threads of the default pool
    MaxCalls,         \* bound: calls submitted
    MaxBatches,       \* bound: batches submitted
    MaxBatchSize      \* bound: calls in one batch

ASSUME ConcurrencyAssumption == MaxConcurrency \in Nat \ {0} /\ PoolSize \in Nat \ {0}
ASSUME CallBoundAssumption   == MaxCalls \in Nat /\ MaxBatches \in Nat /\ MaxBatchSize \in Nat

CallNumbers  == 1..MaxCalls
BatchNumbers == 1..MaxBatches

VARIABLES
    request, batch,   \* a call's request and the batch it belongs to
    submitted,        \* number of calls made
    task, cancelling, \* its task, and the tasks with a cancellation to act on
    result,           \* what its task returned
    thread,           \* how far a thread is with its tool
    free,             \* the value of the semaphore
    answers,          \* what has become of each batch
    seen_operations   \* the tool's set of operations

calls == <<request, batch, submitted>>
vars  == <<calls, task, cancelling, result, thread, free, answers, seen_operations>>

(* A call of the marker tool, of some other tool, or of an unknown one *)
Requests == [tool : {"write_run_marker"}, operation_id : Operations]
              \cup [tool : {"other", "unknown"}, operation_id : {None}]

(* An exception of a tool by its type; a KeyError reads as an unknown tool *)
ToolErrors == {"invalid_arguments", "tool_execution_failed", "unknown_tool"}
Finished   == {"committed", "skipped", "returned"} \cup ToolErrors
InTool     == {"started", "checked"}
Settled    == {"done", "cancelled"}

Init ==
    /\ request = [c \in CallNumbers |-> [tool |-> "unknown", operation_id |-> None]]
    /\ batch = [c \in CallNumbers |-> 0]
    /\ submitted = 0
    /\ task = [c \in CallNumbers |-> "absent"]
    /\ cancelling = {}
    /\ result = [c \in CallNumbers |-> "none"]
    /\ thread = [c \in CallNumbers |-> "none"]
    /\ free = MaxConcurrency
    /\ answers = [b \in BatchNumbers |-> "absent"]
    /\ seen_operations = {}

CallsOf(b) == {c \in CallNumbers : task[c] # "absent" /\ batch[c] = b}
-----------------------------------------------------------------------------
(* asyncio.Semaphore: a slot that is given back goes to the first task that *)
(* waits for one and has not been cancelled; it keeps its place in the      *)
(* queue until it runs again.                                               *)
Waiting(tasks) == {c \in CallNumbers \ cancelling : tasks[c] = "waiting"}

Woken(tasks, slots) ==
    IF slots > 0 /\ Waiting(tasks) # {}
    THEN [task |-> [tasks EXCEPT ![Min(Waiting(tasks))] = "granted"], free |-> slots - 1]
    ELSE [task |-> tasks, free |-> slots]

Locked == free = 0 \/ Waiting(task) # {} \/ \E c \in CallNumbers : task[c] = "granted"

(* Become of the tasks and the slots what `woken` says *)
Set(woken) == task' = woken.task /\ free' = woken.free

GiveBack(c, end) == Set(Woken([task EXCEPT ![c] = end], free + 1))
-----------------------------------------------------------------------------
(* execute_batch: the tasks are created, and the batch waits for them *)
ExecuteBatch(b, requests) ==
    /\ answers[b] = "absent" /\ \A a \in 1..(b - 1) : answers[a] # "absent"
    /\ submitted + Len(requests) <= MaxCalls
    /\ LET new == submitted + 1 .. submitted + Len(requests)
       IN  /\ request' = [c \in CallNumbers |->
                             IF c \in new THEN requests[c - submitted] ELSE request[c]]
           /\ batch' = [c \in CallNumbers |-> IF c \in new THEN b ELSE batch[c]]
           /\ task' = [c \in CallNumbers |-> IF c \in new THEN "created" ELSE task[c]]
    /\ submitted' = submitted + Len(requests)
    /\ answers' = [answers EXCEPT ![b] = "open"]
    /\ UNCHANGED <<cancelling, result, thread, free, seen_operations>>

(* With a slot of the semaphore: an unknown tool is answered at once, any  *)
(* other is handed to the pool.  `woken` is where the tasks and slots are.  *)
Proceed(c, woken) ==
    /\ IF request[c].tool = "unknown"
       THEN /\ result' = [result EXCEPT ![c] = "unknown_tool"]
            /\ Set(Woken([woken.task EXCEPT ![c] = "done"], woken.free + 1))
            /\ UNCHANGED thread
       ELSE /\ Set(woken)
            /\ thread' = [thread EXCEPT ![c] = "queued"]
            /\ UNCHANGED result
    /\ UNCHANGED <<calls, cancelling, answers, seen_operations>>

(* The event loop runs new tasks in the order of their creation *)
FirstStep(c) ==
    /\ task[c] = "created" /\ c \notin cancelling
    /\ \A d \in 1..(c - 1) : task[d] # "created"

Enter(c) ==
    /\ FirstStep(c)
    /\ ~Locked
    /\ Proceed(c, [task |-> [task EXCEPT ![c] = "running"], free |-> free - 1])

QueueUp(c) ==
    /\ FirstStep(c)
    /\ Locked
    /\ task' = [task EXCEPT ![c] = "waiting"]
    /\ UNCHANGED <<calls, cancelling, result, thread, free, answers, seen_operations>>

Resume(c) ==
    /\ task[c] = "granted" /\ c \notin cancelling
    /\ Proceed(c, Woken([task EXCEPT ![c] = "running"], free))

(* The tool has returned or raised, and the task turns that into a result *)
Complete(c) ==
    /\ task[c] = "running" /\ c \notin cancelling
    /\ thread[c] \in Finished
    /\ result' = [result EXCEPT ![c] = thread[c]]
    /\ GiveBack(c, "done")
    /\ UNCHANGED <<calls, cancelling, thread, answers, seen_operations>>

(* A cancelled task leaves; work the pool has not begun is withdrawn *)
UnwindKeepingSlot(c) ==  \* mutant: a slot handed to a task that is cancelled is lost
    /\ c \in cancelling
    /\ cancelling' = cancelling \ {c}
    /\ thread' = IF thread[c] = "queued" THEN [thread EXCEPT ![c] = "none"] ELSE thread
    /\ IF task[c] = "running" THEN GiveBack(c, "cancelled")
       ELSE task' = [task EXCEPT ![c] = "cancelled"] /\ UNCHANGED free
    /\ UNCHANGED <<calls, result, answers, seen_operations>>

UnwindUnheard(c) ==  \* mutant: the slot is given back, but nobody is woken
    /\ c \in cancelling
    /\ cancelling' = cancelling \ {c}
    /\ thread' = IF thread[c] = "queued" THEN [thread EXCEPT ![c] = "none"] ELSE thread
    /\ task' = [task EXCEPT ![c] = "cancelled"]
    /\ free' = IF task[c] \in {"granted", "running"} THEN free + 1 ELSE free
    /\ UNCHANGED <<calls, result, answers, seen_operations>>

Unwind(c) ==
    /\ c \in cancelling
    /\ cancelling' = cancelling \ {c}
    /\ thread' = IF thread[c] = "queued" THEN [thread EXCEPT ![c] = "none"] ELSE thread
    /\ IF task[c] \in {"granted", "running"} THEN GiveBack(c, "cancelled")
       ELSE task' = [task EXCEPT ![c] = "cancelled"] /\ UNCHANGED free
    /\ UNCHANGED <<calls, result, answers, seen_operations>>

(* The batch returns what its tasks returned, or runs into its timeout; it  *)
(* then cancels the tasks that have not settled and waits until they have.  *)
AnswerResults(b) ==
    /\ answers[b] = "open"
    /\ \A c \in CallsOf(b) : task[c] = "done"
    /\ answers' = [answers EXCEPT ![b] = "results"]
    /\ UNCHANGED <<calls, task, cancelling, result, thread, free, seen_operations>>

TimeOutUncancelled(b) ==  \* mutant: the tasks are awaited but not cancelled
    /\ answers[b] = "open"
    /\ answers' = [answers EXCEPT ![b] = "timing_out"]
    /\ UNCHANGED <<calls, task, cancelling, result, thread, free, seen_operations>>

TimeOut(b) ==
    /\ answers[b] = "open"
    /\ answers' = [answers EXCEPT ![b] = "timing_out"]
    /\ cancelling' = cancelling \cup {c \in CallsOf(b) : task[c] \notin Settled}
    /\ UNCHANGED <<calls, task, result, thread, free, seen_operations>>

AnswerTimeoutAtOnce(b) ==  \* mutant: the cancelled tasks are not gathered
    /\ answers[b] = "timing_out"
    /\ answers' = [answers EXCEPT ![b] = "timeout"]
    /\ UNCHANGED <<calls, task, cancelling, result, thread, free, seen_operations>>

AnswerTimeout(b) ==
    /\ answers[b] = "timing_out"
    /\ \A c \in CallsOf(b) : task[c] \in Settled
    /\ answers' = [answers EXCEPT ![b] = "timeout"]
    /\ UNCHANGED <<calls, task, cancelling, result, thread, free, seen_operations>>
-----------------------------------------------------------------------------
(* The pool: a thread takes up queued work, and is busy until it is through *)
InThread == {c \in CallNumbers : thread[c] \in InTool}

StartThread(c) ==
    /\ thread[c] = "queued"
    /\ Cardinality(InThread) < PoolSize
    /\ thread' = [thread EXCEPT ![c] = "started"]
    /\ UNCHANGED <<calls, task, cancelling, result, free, answers, seen_operations>>

(* BaseTool.execute: the input is validated, the tool runs and its output   *)
(* is validated; each of the three may raise, the marker tool's run not     *)
Raise(c, error) ==
    /\ thread[c] = "started"
    /\ error \in (IF request[c].tool = "other" THEN ToolErrors ELSE {"invalid_arguments"})
    /\ thread' = [thread EXCEPT ![c] = error]
    /\ UNCHANGED <<calls, task, cancelling, result, free, answers, seen_operations>>

Return(c) ==
    /\ thread[c] = "started" /\ request[c].tool = "other"
    /\ thread' = [thread EXCEPT ![c] = "returned"]
    /\ UNCHANGED <<calls, task, cancelling, result, free, answers, seen_operations>>

(* The marker tool: the operation is looked up, and, if new, added *)
CheckNothing(c) ==  \* mutant: no guard against duplicates
    /\ thread[c] = "started" /\ request[c].tool = "write_run_marker"
    /\ thread' = [thread EXCEPT ![c] = "checked"]
    /\ UNCHANGED <<calls, task, cancelling, result, free, answers, seen_operations>>

Check(c) ==
    /\ thread[c] = "started" /\ request[c].tool = "write_run_marker"
    /\ thread' = [thread EXCEPT ![c] = IF request[c].operation_id \in seen_operations
                                       THEN "skipped" ELSE "checked"]
    /\ UNCHANGED <<calls, task, cancelling, result, free, answers, seen_operations>>

Commit(c) ==
    /\ thread[c] = "checked"
    /\ thread' = [thread EXCEPT ![c] = "committed"]
    /\ seen_operations' = seen_operations \cup {request[c].operation_id}
    /\ UNCHANGED <<calls, task, cancelling, result, free, answers>>
-----------------------------------------------------------------------------
TaskStep(c) == Enter(c) \/ QueueUp(c) \/ Resume(c) \/ Complete(c) \/ Unwind(c)

ThreadStep(c) == \/ StartThread(c) \/ Return(c) \/ Check(c) \/ Commit(c)
                 \/ \E error \in ToolErrors : Raise(c, error)

BatchStep(b) == AnswerResults(b) \/ TimeOut(b) \/ AnswerTimeout(b)

Next == \/ \E b \in BatchNumbers, requests \in BoundedSeq(Requests, MaxBatchSize) :
             ExecuteBatch(b, requests)
        \/ \E c \in CallNumbers : TaskStep(c) \/ ThreadStep(c)
        \/ \E b \in BatchNumbers : BatchStep(b)

(* The event loop runs every task that can run and its timers go off; a     *)
(* tool owes nothing, it may never return.                                  *)
Fairness == /\ \A c \in CallNumbers : WF_vars(TaskStep(c))
            /\ \A b \in BatchNumbers : WF_vars(BatchStep(b))

Spec == Init /\ [][Next]_vars /\ Fairness
-----------------------------------------------------------------------------
(* Properties *)

(* The types of the executor's, the pool's and the marker tool's state *)
TypeOK ==
    /\ request \in [CallNumbers -> [tool : {"write_run_marker", "other", "unknown"},
                                    operation_id : Operations \cup {None}]]
    /\ batch \in [CallNumbers -> Nat]
    /\ submitted \in 0..MaxCalls
    /\ task \in [CallNumbers -> {"absent", "created", "waiting", "granted", "running"}
                                  \cup Settled]
    /\ cancelling \subseteq CallNumbers
    /\ result \in [CallNumbers -> Finished \cup {"none"}]
    /\ thread \in [CallNumbers -> Finished \cup InTool \cup {"none", "queued"}]
    /\ free \in 0..MaxConcurrency
    /\ answers \in [BatchNumbers -> {"absent", "open", "timing_out", "results", "timeout"}]
    /\ seen_operations \subseteq Operations

Holders(tasks) == {c \in CallNumbers : tasks[c] \in {"granted", "running"}}

(* No slot of the semaphore is lost or made up, whichever way its holder    *)
(* leaves: with a result, with an error, cancelled while it runs, or        *)
(* cancelled after it was handed the slot and before it could use it        *)
(* (async_executor.py:17, 49-54).                                           *)
SlotsAccounted == free + Cardinality(Holders(task)) = MaxConcurrency

(* A free slot is never left while a task waits for it: some task that has  *)
(* been handed one is about to run and passes the next one on               *)
(* (async_executor.py:17).                                                  *)
NoLostWakeup ==
    free > 0 /\ Waiting(task) # {} => \E c \in CallNumbers : task[c] = "granted"

(* A batch that has answered has left nothing behind with the event loop:   *)
(* all its tasks are settled, none has a slot, none of its work waits in    *)
(* the pool.  If it answered with results, each is what the call's thread   *)
(* ended with (async_executor.py:42-66).                                    *)
AnswersAreComplete ==
    \A b \in BatchNumbers : answers[b] \in {"results", "timeout"} =>
        \A c \in CallsOf(b) :
            /\ task[c] \in Settled /\ c \notin cancelling /\ thread[c] # "queued"
            /\ answers[b] = "results" =>
                 result[c] = IF request[c].tool = "unknown" THEN "unknown_tool" ELSE thread[c]

CommitsOf(o) == {c \in CallNumbers : thread[c] = "committed" /\ request[c].operation_id = o}

(* What is skipped has been committed, and what the tool remembers is what  *)
(* it has committed, also by threads nobody waits for any more              *)
(* (idempotency_writer.py:38-45).                                           *)
SkippedOnlyIfCommitted ==
    /\ \A o \in Operations : o \in seen_operations <=> CommitsOf(o) # {}
    /\ \A c \in CallNumbers : thread[c] = "skipped" => request[c].operation_id \in seen_operations

(* Once an operation is committed, and no thread is between its look-up and *)
(* its insertion, it is never committed again, however often it is retried  *)
(* (idempotency_writer.py:37-45).                                           *)
Decided(o) == o \in seen_operations
                /\ \A c \in CallNumbers : thread[c] = "checked" => request[c].operation_id # o

RetriesAreSkipped ==
    [][\A o \in Operations : Decided(o) => Decided(o)' /\ CommitsOf(o)' = CommitsOf(o)]_vars

(* The inductive strengthening: calls exist up to the latest one and belong *)
(* to a batch that was submitted; what a thread has done agrees with the    *)
(* task it works for and with the call's request; a cancelled task belongs  *)
(* to a batch that ran into its timeout.                                    *)
Submission ==
    \A c \in CallNumbers :
        /\ task[c] = "absent" <=> c > submitted
        /\ task[c] # "absent" => batch[c] \in BatchNumbers /\ answers[batch[c]] # "absent"
        /\ request[c].tool = "write_run_marker" => request[c].operation_id \in Operations

ThreadOwnership ==
    \A c \in CallNumbers :
        /\ task[c] \in {"absent", "created", "waiting", "granted"} => thread[c] = "none"
        /\ thread[c] = "queued" => task[c] = "running"
        /\ thread[c] # "none" => request[c].tool # "unknown"
        /\ thread[c] \in {"checked", "committed", "skipped"} =>
             request[c].tool = "write_run_marker"
        /\ task[c] = "done" =>
             IF request[c].tool = "unknown" THEN result[c] = "unknown_tool"
             ELSE thread[c] \in Finished /\ result[c] = thread[c]

Cancellation ==
    /\ \A c \in cancelling : task[c] \notin Settled \cup {"absent"}
                               /\ answers[batch[c]] = "timing_out"
    /\ \A c \in CallNumbers : task[c] # "absent" =>
        /\ task[c] = "cancelled" => answers[batch[c]] \in {"timing_out", "timeout"}
        /\ answers[batch[c]] = "results" => task[c] = "done"
        /\ answers[batch[c]] = "timeout" => task[c] \in Settled

ExecutorInv ==
    /\ TypeOK /\ Submission /\ ThreadOwnership /\ Cancellation
    /\ SlotsAccounted /\ NoLostWakeup /\ SkippedOnlyIfCommitted

(* The contract of the executor: see BatchContract.  Neither semaphore nor  *)
(* pool shows in it, nor work of the pool before a thread begins it.        *)
call == [c \in CallNumbers |->
            IF task[c] = "done" THEN result[c]
            ELSE IF task[c] = "cancelled" THEN "withdrawn"
            ELSE IF task[c] = "absent" THEN "absent" ELSE "open"]

work == [c \in CallNumbers |->
            IF thread[c] \in InTool THEN "begun"
            ELSE IF thread[c] \in Finished THEN thread[c] ELSE "none"]

Contract == INSTANCE BatchContract

ImplementsContract == Contract!Spec

(* Every batch answers, even if its tools never return *)
BatchesAnswer == \A b \in BatchNumbers :
    answers[b] = "open" ~> answers[b] \in {"results", "timeout"}

(* async_executor.py:16 "Use a semaphore to enforce the concurrency limit;  *)
(* excess tasks wait here."                                                 *)
ConcurrencyLimit == Cardinality(InThread) <= MaxConcurrency

(* idempotency_writer.py:26 "Safely commit data with unique operation_id    *)
(* validation to prevent duplicate execution."                              *)
CommittedOnce == \A o \in Operations : Cardinality(CommitsOf(o)) <= 1
=============================================================================
