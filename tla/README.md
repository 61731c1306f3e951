# A verification project for the auditable scientific agent kernel

This directory holds TLA+ models of the agent kernel in `src/`, the TLC
configurations that check them on small instances, and theorems about them that
TLAPS checks for every value of the constants. `PROJECT.json` is the index: it
maps every definition to the lines it models, and lists the runs, the mutants
that show what each property would catch, the findings, the hazards and the
theorems.

Paths below are relative to `src/src/agent_runtime/` unless they start with
`src/`.

## The system

The kernel is a Python library with one HTTP front end. Its parts share no
global state; they interact by calls, by LangGraph's checkpointed thread state,
and through in-memory stores shared by asyncio tasks.

| Component | State it keeps | Operations | Interacts with | What is hard |
|---|---|---|---|---|
| **Scientific graph** `graph/` | the thread: specification, plan, diagnostics, repair history, status, errors, event log; LangGraph's pending node | `run_workflow`, `resume_workflow`, five nodes, two routing functions | calls the pipeline; checkpoints after every node | two loops through the repair node, state that outlives a run, crashes between checkpoints, decisions made on the last diagnostic only |
| **Scientific pipeline** `scientific/` | none (the repair engine's history is restored by the node) | validate, analyse, compile, execute, repair, wrap a candidate | called by the graph's nodes | order of diagnostics, numeric edges of the repairs |
| **Job store and worker** `jobs/` | job records, the polling loop, one task per claimed job | submit, cancel, start, stop, poll, execute | clients and tasks share the store on one event loop | cancellation racing completion, retries, restarts, identifiers of millisecond resolution |
| **Agent runtime loop** `runtime/loop.py` | one run: messages, steps, events, status | ask the provider, execute tool calls with retries, stop | provider, tool registry, context assembler | retry and stop classification, agreement of conversation, trajectory and trace |
| **Async tool executor** `runtime/async_executor.py`, `tools/idempotency_writer.py` | semaphore, the tool's `_seen_operations` | execute a batch with a timeout | threads of the default pool | a timeout abandons threads that go on; check-then-add on the set of operations |
| **Evaluation runner** `evals/runner.py`, `harness.py` | dynamic semaphore, tasks, results | run trials, back off, stream, collect | API, scoring | lost wake-ups, a limit lowered while in use, one trial failing, a client leaving |
| **MCP client** `mcp/client.py`, `bridge.py` | pending futures by request id, a reader task | connect, call, shut down | a child process over pipes | reader errors and end of file with calls pending or to come, answers out of order, late or never |
| **API** `api.py` | run store, background tasks | create run, get run, stream an evaluation | runtime loop, evaluation runner | background worker against pollers, disconnecting clients |
| **Memory store** `memory/sqlite_store.py` | an SQLite table, a connection per store | put, get, list, close | runtime loop, other stores on the file | transactions a failed put leaves open, locks, an upsert that keeps the old identity |
| **Memory records** `memory/` (the rest) | working memory | condense, convert an episode | memory store | none |
| **Context** `context/` | lists of one call | deduplicate, prune, assemble within a budget, reorder, report | runtime loop | four rules in a row with exemptions of their own |
| **Evaluation scoring** `evals/graders.py`, `regression.py`, `skills_tracker.py`, `failure_episode.py` | none | grade, classify, compare with a baseline | evaluation runner | trials without grades, missing metrics, rounding |
| **Evaluation data and optimizer** `evals/dataset.py`, `optimizer.py` | none | read tasks, choose a prompt | evaluation runner | none |
| **MCP policy** `mcp_clients/` | registries | register, decide | runtime | precedence of the rules |
| **Retrieval** `retrieval/`, **Skills** `skills/`, **Tools** `tools/` | indexes, a cache | index, query, select, load, run a script | runtime loop | termination of the chunker, stale ranks |
| **Reducers** `graph/reducers.py` | none | merge lists of the thread state | LangGraph | upsert by key |

What makes each of them correct:

* *graph*: nothing is compiled that was not validated as it stands; a leak is
  never compiled; the repairs of a thread are bounded over all its runs; success
  is reported only of a plan that converged for the specification reported on;
  the history explains the specification; a run ends with a report.
* *jobs*: one task per submission; attempts within the budget; outcomes tell what
  the payload did; a key gets a second record only after its first was lost;
  every job settles while the worker runs; a cancelled job stays cancelled (it
  does not, see Findings).
* *API*: what a poll has said of a run that is over stays true, and every run
  whose worker got as far as its `try` is over some day (one whose worker did not
  is not, see Findings).
* *runtime loop*: every call the provider makes is answered before it is asked
  again; the trajectory, the conversation and the trace tell the same story; a
  non-retryable error ends the run and a retryable one does not; every run ends.
* *async executor*: an operation is committed once (it is not, see Findings);
  slots are neither lost nor made
  up, a batch answers and leaves nothing behind, what is skipped was committed.
* *evaluation runner*: slots and the rate limits it recognises are accounted for,
  whatever raises afterwards, no trial starts
  above the limit, the stream tells every result once and ends.
* *scoring*: whoever judges a trial comes to the same verdict, though each reads a
  trial without grades in its own way, and a trial that failed a hard metric is
  never lost in a report.
* *MCP client*: every call gets its own answer or an error (it may also wait for
  ever, see Findings); no future is resolved twice.
* *memory*: what a put has acknowledged is there for everybody, what a failed put
  left shows in its own store only, and a row's identity is stable.
* *context*: the budget goes to the important, instructions stay, nothing is
  removed without being reported.

## Modules

| Module | What it is | Extends |
|---|---|---|
| `ScientificPipeline` | constant operators: schema, diagnostics, validator, analyser, compiler, executor, repair engine | |
| `MacroAgentGraph` | the graph's state machine over one thread, with invocations, crashes and the recursion limit; its properties | `ScientificPipeline` |
| `MCMacroAgentGraph` | TLC instance | `MacroAgentGraph` |
| `MacroAgentGraphProofs` | inductive invariant; what log, counter and history have to do with each other; when the recursion limit strikes | `MacroAgentGraph`, `TLAPS` |
| `JobContract` | abstract: a job is submitted, claimed, handed back, settled, or shares its identifier | |
| `JobWorker` | store, polling loop, tasks, clients; refines `JobContract` | |
| `MCJobWorker` | TLC instance | `JobWorker` |
| `JobWorkerProofs` | inductive invariant, five invariance theorems, the refinement | `JobWorker`, `TLAPS` |
| `AgentRuntime` | one run of the agent's loop: provider, tool calls, retries, records | |
| `ApiRuns` | a run behind the API: background task, run store, pollers | `AgentRuntime` |
| `MCApiRuns` | TLC instance of both | `ApiRuns` |
| `AgentRuntimeProofs` | inductive invariants of a run, of its three records and of a run behind the API; its termination | `ApiRuns`, `TLAPS` |
| `BatchContract` | abstract: a call of a batch is open, worked on, returned or withdrawn; a batch answers once | |
| `AsyncToolExecutor` | batches of tool calls: event loop, semaphore, pool, marker tool; refines `BatchContract` | |
| `MCAsyncToolExecutor` | TLC instance | `AsyncToolExecutor` |
| `AsyncToolExecutorProofs` | inductive invariant, six theorems on top of it, the refinement | `AsyncToolExecutor`, `TLAPS` |
| `RequestContract` | abstract: a request is made, answered, decided and told | |
| `McpClient` | callers, reader task, restarts, and the server they talk to; refines `RequestContract` | |
| `MCMcpClient` | TLC instance | `McpClient` |
| `McpClientProofs` | inductive invariant, four theorems on top of it, the refinement | `McpClient`, `TLAPS` |
| `EvalScoring` | constant operators: graders, failure episodes, regression report, skills gate | |
| `EvalRunner` | suites of trials over one resizable semaphore, streams, clients that leave, the harness; judged by the operators | `EvalScoring` |
| `MCEvalRunner` | TLC instance | `EvalRunner` |
| `EvalRunnerProofs` | inductive invariant and seven theorems on top of it | `EvalRunner`, `TLAPS` |
| `MemoryRows` | constant operators: the table, its upsert and its reads | |
| `MemoryContract` | abstract: one table, at most one uncommitted version of it | `MemoryRows` |
| `MemoryStore` | stores on one file with SQLite's transactions and locks; refines `MemoryContract` | `MemoryRows` |
| `MCMemoryStore` | TLC instance | `MemoryStore` |
| `MemoryStoreProofs` | inductive invariant, stable identity, the refinement | `MemoryStore`, `TLAPS` |
| `ContextAssembly` | one call of `assemble()`, loop turn by loop turn | |
| `MCContextAssembly` | TLC instance | `ContextAssembly` |
| `ContextAssemblyProofs` | inductive invariant and five theorems on top of it | `ContextAssembly`, `TLAPS` |

### MacroAgentGraph

Each variable is the field of `MacroAgentState` of the same name; `errors` is
the number of entries the append-only list has, and `trace_events` keeps each
event's name and step. `next`, `invoking`, `superstep`, `invocations` and
`outcome` are LangGraph's control state: the pending node of the latest
checkpoint, whether an `invoke()` is in progress, how many nodes it ran, how
many there were, and how the last one ended.

One action per node (`GenerateSpec`, `ValidateSpec`, `CompileAndExecute`,
`RepairSpec`, `FinalizeReport`), each including the routing that follows it,
because LangGraph commits a node's writes and its successor in one checkpoint.
`RunWorkflow` and `ResumeWorkflow` are the two entry points of
`graph/service.py`. `Crash` ends an invocation between two checkpoints and
`ExceedRecursionLimit` is LangGraph's `GraphRecursionError`; both are external.

Abstractions: a query is reduced to the three words the node looks for; a
rationale to whether it mentions a leak; data sets to the two registered ones,
an unregistered one and one that walks up the file tree; identifiers, messages,
artifact paths and timestamps are left out.

### JobWorker

A record is a number in the order of creation; the functions are the fields of
`JobRecord`. `job_id` is the identifier, represented by the first record that was
given it: `Submit` chooses a new one or any earlier one, because the code takes
the millisecond of the wall clock (`jobs/store.py:20`), which may be the same for
two submissions and may be set back. Nothing is assumed about it, neither in the
runs nor in the proofs. `Stored` are the records no later one has replaced;
`Named` are those that ever had an identifier; a record is `Unshared` while no
other one has its identifier. `cores` are the tasks of
`_execute_job_core`: the record a task was claimed for, the attempt, and the
record it fetched when it first ran. When it looks its job up again, after a
sleep, it gets whatever record is then stored under the identifier (`Resolves`).
Everything runs on one event loop, so an action is what happens between two
awaits: `Poll` is an iteration of the loop (acknowledge a cancellation, claim a
job, spawn its task), `CoreStart` a task up to its sleep, and `CoreCancels`,
`CoreSucceeds` and `CoreFails` the rest of it. `Submit` and `RequestCancel` are
the clients' calls, `StartWorker` and `StopWorker` the worker's. Only whether
some loop polls is kept: a loop that outlives a restart does what the new one
does. `Requests` are the keys clients submit and whether the computation of each
raises. `SQLiteJobStore` is a dictionary despite its name, so there is no crash
to recover from: with the process all jobs are gone.

Identifiers that are shared weaken what can be said, and the properties say
exactly that. `OneTaskPerSubmission` counts: of one identifier there are never
more tasks, working or yet to be claimed, than records were created under it; an
unshared job has one task and is neither waiting nor finished while it works.
`OutcomeMatchesPayload` is about a payload of the identifier, which is the job's
own if it is unshared. `KeyRepeatsOnlyAfterLoss` says that a replaced record is
the only way a key comes to be computed twice. `models.py:10` promises "strict
idempotency" of the key, which the code does not give when identifiers collide;
no property claims it. `EveryJobSettles` is about jobs that are still stored.

`JobContract` is what a client can rely on: the phase of a job moves from absent
to pending, pending to active with one more try, active back to pending only
with tries left, and pending or active to settled, for ever. When a new job is
given the identifier of another, both become shared (`Share`) and nothing more is
promised of either. The refinement maps status, tasks and identifiers to the
phase; `tries` is the number of attempts, or none once the job is shared.

### AgentRuntime

`status`, `stop_reason`, `step_count`, `messages`, `steps` and `trace_events` are
the fields of `AgentState`. `phase`, `pending` and `attempt` are where `run()`
and `_execute_tool()` are: the loop head, waiting for the provider, at the next
call of the latest reply, inside a tool, or over.

An action is what the code does between two calls of the provider or of a tool.
`ExceedMaxSteps`, `RequestModel`, `ProviderFails`, `AnswerDirectly` and
`RequestTools` are the loop; `RefuseUnknownTool`, `StartTool` and the six
outcomes under `ExecuteTool` are a tool call, each with the tail of the loop's
body (`Observe`): the result's message, the step, the events, and whether to go
on. The provider may ask for any sequence of calls, unknown tools and repeated
identifiers included. A tool may succeed, raise `ConnectionError` or
`TimeoutError` (retried), `ValidationError`, `KeyError` (read as an unknown tool)
or anything else.

Left out: what goes into the context and what comes back from retrieval, skills
and memory before the loop starts (it changes only what the provider reads, and
the trace events of that part), rationales, contents and arguments. The registry
does not change during a run.

### ApiRuns

`CreateRun` is `POST /runs`. `StartWorker` is `background_agent_worker` up to its
one await: the constructors of provider and runtime, which discovers the skill
catalog, and the entry of the `try`. `LoseWorker` is what may happen instead: a
constructor raises, or the task is cancelled before its first step, and no handler
hears of it, so the run stays "running" (`api.py:47-50`). `StartRun`, `RunStep`,
`Publish`, `Cancel` and `RunRaises` are the worker after its await, within
`runtime.run`, and in its three endings; `Fetch` and `Answer` are
`GET /runs/{run_id}` before and after it has looked up the state object. The
event loop carries out a run without awaiting, but FastAPI answers polls from
threads, so polls interleave with the run's steps. `entry` is the state object
the store holds: the initial one, of which only the status ever changes, or the
one `run()` returned. `RunRaises` is what leaves `run()` unhandled: something in
front of the provider's call. Runs share nothing but the event loop, so one is
modelled.

### AsyncToolExecutor

A call is a number in the order of creation, with its `request` and the `batch`
it belongs to. `task` is how far its task of the event loop is (created, waiting
for the semaphore, handed a slot, running, done or cancelled), `cancelling` the
tasks with a cancellation they have not yet acted on, `thread` how far the pool
is with its tool. `free` is the semaphore's value and `seen_operations` the
marker tool's set.

An action of a task is what it does between two awaits: `Enter` (no wait),
`QueueUp`, `Resume` (handed a slot), `Complete` (the thread is through) and
`Unwind` (cancelled, wherever it is). `ExecuteBatch`, `AnswerResults`, `TimeOut`
and `AnswerTimeout` are `execute_batch` up to its await, its result, its timer
and the end of its second `gather`. An action of a thread is what it does
between two accesses to the marker's set: `Check` and `Commit` are two, because
nothing keeps another thread from running between them. A thread that is in a
tool is not cancelled with its task; work the pool has not begun is withdrawn.

`asyncio.Semaphore` and the default pool are external. The semaphore is first
in, first out; a slot given back is handed to the first waiting task, which has
it from then on. `wait_for` cancels the tasks before lines 49-51 do so again;
the two are one action. A `KeyError` raised inside a tool is answered as an
unknown tool, as in the code.

`BatchContract` is the executor without semaphore, pool and event loop, as if
every call had a worker of its own. A call is open until it returns or is
withdrawn; its tool begins once and only while the call is open, and what the
call returns is what the tool ended with. A tool that has begun goes on after
its call was withdrawn, which happens after a timeout only. The refinement maps a
task to its call (`call`: created, waiting, handed a slot and running are all
open) and a thread to its work (`work`: queued in the pool is not yet begun,
before and after the look-up in the set is begun).

### McpClient

A request is the number it is sent with. `request_id`, `pending` and `future` are
the client's counter, the keys of `_pending_requests` and the futures;
`caller` says which request each calling task waits for, `draining` who still
waits for the pipe, `outcome` what a call returned or raised. `reader` is the
task of `_read_loop`, `stopping` how far `stop()` is. The server is external:
`unanswered` are the requests it was sent, `answer` what it answered, `stdout`
its lines that nobody has read yet. It answers in any order or never, writes
notifications and things that are not JSON, and may exit at any time (a server
that closes its output counts as exited).

`Register` and what follows it is `_send_request` up to its first await; `Drain`,
`BreakPipe` and `Return` the rest; `Abandon` is the caller's own cancellation.
`Read`, `ReaderFails`, `ReadEof` and `ReaderCancelled` are the ways through the
reader's loop. `Start` may follow a stop or an exit; it is not called while a
process runs, and `stop()` is not called twice at once.

`RequestContract` knows neither process nor reader nor pipe. A request is made,
the server may answer it, it is decided once (by that answer, by a failure, which
decides all that are open, or by its caller, who gives up), and its caller is
told once, an answer only if that was the decision. The refinement maps the
decision of a request to its future.

### EvalRunner and EvalScoring

A trial is a suite, a task and a number; `trial` is how far its task is and
`result` its `TrialResult`. `value`, `allocated` and `current_concurrency` are
the fields of `DynamicSemaphore` and of the runner. The lock of the condition is
never held across an await, so a trial's step is what it does between two
awaits: up to the thread or into the wait, and from the thread's end to the
task's end, including the back-off and the notification. The run, the back-off
(`BackOff`), the result and its graders are in one `try` (`evals/runner.py:71-97`),
so a trial leaves with its result (`FinishTrial`), with a crash although its run
was rate limited and has lowered the limit (`GraderRaises`), or with the crash of
the run itself (`CrashTrial`); `limited` is a history variable, the trials whose
runs were taken for rate limited. `stream` is what has
become of a suite: its generator is open, done, broken by an exception, left by
its client, or the suite was collected by the harness at once, which runs alone.
`completed` is the order in which `as_completed` has the results.

What a runtime returns is an input (`Outcomes`), reduced to what graders look
for. The graders, the failure episodes, the regression report and the skills
gate are constant operators; a pass rate is a number of ten thousandths with the
code's rounding. Durations, scores and average steps are left out.

`BackoffCounts` is about the rate limits the runner recognises, failed runs whose
final answer mentions 429; it does not say that these are all of them (see
Findings). `VerdictsAgree` says of streamed and harness suites alike that stream,
episodes and skills gate take the same trials for passed, that a trial which
failed a hard metric raises the alarm, and that an alarm has a trial that did not
pass a hard metric. What the report says of a candidate that nobody graded for a
hard metric it leaves open: `src/README.md:116` has such a candidate fail, the
code passes it.

### MemoryStore, MemoryContract, MemoryRows

A table maps `(namespace, key)` to a row of identifier, type and time; content
comes and goes with its time. A store is one connection. `Insert`, `Commit` and
what may happen instead of them (`InsertConflicts`, `InsertLocked`,
`CommitLocked`) are the put; `Read` is any of the three reads, `Close` also a
crash, `Open` the constructor. The store has no rollback, so `tx` keeps what a
failed statement leaves: nothing but BEGIN, a read lock, the write lock, or a
commit that is waiting for readers. SQLite's rollback journal is external. A
locked database is waited for before it raises, which changes nothing but time.

`MemoryContract` says what callers get whatever locks there are: a put is
prepared on the table or on the store's own draft, and published or not; nobody
else prepares meanwhile; reads see the draft of their own store or the table.

### ContextAssembly

Variables are the code's lists, `todo` what the loop of the current stage has
not looked at. `Deduplicate`, `Prune`, `Consider` and `Place` are one turn each
of the four loops; `SortByPriority` is the second pruning rule with the two
sorts around it, which are stable and therefore a choice of the one order that
`Before` describes; `Finish` makes bundle and report. An item is its content,
kind, priority and age; the estimate of tokens is a function of the content.
`PriorityAssumption` is what the loop, the only caller, does: user messages are
below the instructions' priority, so no item is in two lists of the reordering.
`CrowdingCutsTheLowest` says that crowding removes none but the least important
items, no exempt one and nothing below the limit, and leaves more than the limit
only where exempt items reach it. Whether the others stay in that case, as in the
code (`context/pruner.py:50`), or go, as its comments say (see Findings), is left
open.

## Runs

| Run | Shows | Instance |
|---|---|---|
| `graph` | the invariants of the graph, and that a fresh thread reports | all 8 queries, budget 2, recursion limit 25, 3 invocations |
| `masking` | a warning after an error lets the error be executed | the same |
| `jobs` | the invariants of the worker, its contract, and that every job settles | 3 records under identifiers of their own or shared, 2 keys of which one's computation raises, 2 attempts, 1 cancellation, 2 starts |
| `cancellation` | a cancelled job succeeds after all | 2 records |
| `runtime` | the invariants of a run of the loop behind the API, what its polls are told, and that it is over some day once its worker is in its `try` | 2 call identifiers, a known and an unknown tool, 2 steps, 2 attempts, 2 calls per reply, 1 poller |
| `batches` | the invariants of the executor and of the marker tool, its contract, and that every batch answers | 3 calls in 2 batches of at most 2, 2 slots, 2 threads, 1 operation |
| `double_commit` | one operation is committed twice | 3 calls, 2 slots, 2 threads |
| `mcp` | everybody gets his own answer, the client keeps its contract, answers arrive | 2 callers, 2 requests, 2 processes, 2 unread lines |
| `reader_error` | a request sent after a reader error waits for ever | the same |
| `evals` | slots, back-off, streams and verdicts of concurrent suites, and that they end | 2 suites of 2 trials, limit 2, a run that passes all and one that passes nothing and is rate limited |
| `memory` | the stores implement their contract, identities are stable | 2 stores, 1 namespace, 2 keys, 2 identifiers, 2 times, listing 1 |
| `context` | who loses his place, that the report adds up, that instructions stay | up to 5 of 8 items, budget 4, cutoff 3, reordering from 3 items |

The inductive invariants are not checked by a run of their own: they are proved,
and a model checker only repeats it.

Why the bounds are enough. *Graph*: 2 and 25 are the code's own values. Three
invocations give a run on a fresh thread, one on a thread with part of the budget
used, and one on a thread without any; a fourth meets no new combination, as the
thread state saturates (budget spent, errors recorded). `MaxInvocations` also
bounds the log and the errors. *Jobs*: two jobs are needed for every race of the
polling loop with a task of another job, or for one of them to replace the other,
and the third makes the oldest-first order matter, shares an identifier with both
or repeats the key of a record that was lost; two attempts give a retry and its
exhaustion; one cancellation reaches a job before its claim, while it is worked on
or after its end, and the proofs cover any number; two starts give a restart with
tasks of the first start alive. A key stands for its payload: one raises, the
other does not. *Runtime*: two replies with two calls each give a
result before, between and after others, and a second reply after a first that was
answered in full; two attempts a retry that succeeds and one that is exhausted.
*Executor*: three calls give a retry in a second batch beside two calls of the
first, of which one is abandoned by the timeout and one not yet started. A task
that queues while a slot is free and another is about to use the one it was
handed takes four calls, which only the proof covers. One operation suffices, as
the tool treats each by itself. *MCP*: two requests can be answered out of order,
one can be abandoned while the other is read, and a restart separates them; two
unread lines put garbage before or after an answer.
*API*: one poller can overlap with every moment of the run and come again after
it. *Evaluation*: two suites share the semaphore; with a limit of two a rate
limit lowers it beneath what is in use while others wait, and a second one meets
the floor; two trials per suite finish in either order. *Memory*: two stores give
every conflict of locks, as what a third one may do depends only on whether
another writes, reads or commits; two keys and identifiers give a conflict of
identifiers and a re-stored key. *Context*: five items overrun the cutoff and the
budget together with a duplicate and a stale one; three instructions alone reach
the cutoff.
Deadlock is not checked in the runs where the
bounded callers (invocations, submissions, cancellations, starts) may just stop,
nor in those of the loop and of the assembly, which stop when they are over, nor
in those of the executor, of the MCP client and of the evaluation, whose callers
are bounded too. It is checked in `memory`.

Fairness. *Graph*: `invoke()` runs node after node, so weak fairness of the nodes
and of the recursion limit; nobody has to run or resume a thread and nothing has
to crash. *Jobs*: the event loop resumes sleeping tasks: weak fairness of `Poll`,
and of the tasks that work on jobs together, which is weaker than of each and is
enough, as there are finitely many. Clients owe nothing, nor does anyone have to
start or stop the worker; `EveryJobSettles` therefore assumes `<>[]running`.
*Runtime*: behind the API the event loop goes on with its tasks and the loop is
synchronous, so weak fairness of the worker's steps together: the provider and
the tools return. Nobody has to create, poll or cancel a run, and its worker may be
lost before its `try` (`LoseWorker`), of which `RunSettles` promises nothing. *Evaluation*: the
event loop runs every trial that can run and every thread ends (a runtime's run
is bounded, `RunsUseUpTheirWork`): weak fairness of each trial; an open stream is read unless its
client leaves. *Executor*: the event loop runs
every task that can run, and its timers go off: weak fairness of each task and of
each batch. Threads owe nothing: a tool may never return, and the pool may never
come to a call. *MCP*: the event loop runs the reader and every caller that can go
on; nobody has to call, and the server owes nothing.

## Proofs

`MacroAgentGraphProofs` proves for every repair budget, recursion limit and
number of invocations that `GraphInv` is inductive. None of the safety
properties is inductive alone: that the report is honest rests on what each
*pending* node may rely on (`PendingNode`: compilation on a validation without a
blocking end, the report on a blocking finding or on a converged plan of this
very specification), because the process may die at any of them and be resumed;
that a leak is never compiled rests on the window of a candidate that mentions a
leak being the generated one (`CandidateShape`), so that no warning is reported
after the leak. The pipeline's operators are expanded in lemmas about what they
return. Assumed of the constants: they are natural numbers, and `None` is neither
a specification nor a plan.

Three more invariants stand on it. `LogIsAudited` counts: the log has one repair for
each that the counter and the history have, and one refusal for each error. A step
appends at most one event, so the lemmas (`OneMoreEntry`, `AuditOneMore`) are about
the cardinality of a set of positions that may gain one. It is inductive as it
stands.
`HistoryExplainsSpec` says that the recorded diffs of the latest run, one after the
other, lead from the generated candidate to the current specification. Where that
run begins in the history the log alone tells, so the proof is about a chain over
the last so many entries, which stays one when an entry is added to history and log
(`Chain`), and rests on `AuditLogAgrees`. `OnlyExhaustedThreadsRecurse` is a ranking
argument: every repair buys an invocation at most three super-steps (`Ranked`), as
nothing but a repair leads back, and no repair is refused before the budget is
spent: a candidate's values leave the engine only findings it has a strategy for
(`CandidateValues`, `KnownRemedy`). It needs `RecursionLimit > 3 * MaxRepairAttempts`,
which LangGraph's 25 and the engine's 2 satisfy; with a limit of 6 TLC finds a
thread that is stopped with a repair left.

`JobWorkerProofs` proves for every number of records, keys, attempts,
cancellations and starts, and whatever identifiers the clock leads to, that
`JobInv` is inductive. Its strengthening says that an identifier is the first
record created under it (`Creation`), and that what a task was claimed for, what
it fetched and what it will look up share one identifier (`TaskOwnership`).
`OneTaskPerSubmission` is a counting argument over it: `Submit` adds one to the
records of an identifier and at most one to those waiting, a claim moves one from
waiting to working, and a task that ends takes itself from the working before it
may put one back to waiting. For an identifier of one record this gives one task,
from which `AttemptsBounded` follows. `KeyRepeatsOnlyAfterLoss` holds because a
record that is not stored was replaced by a later one of its identifier. On top of
it every step is shown to be a step of `JobContract` for one job or a stuttering
step, which gives `WorkerImplementsContract`.

`AgentRuntimeProofs` proves for every set of calls and tools and every budget
that `RunInv` is inductive. That a conversation is well formed
(`AnsweredInTurn`) is not inductive alone: one has to know that the calls still
pending are exactly the last calls of the latest reply (`OpenCalls`), so that the
next result lands where its call says; that no reply is ever followed by another
before its calls are answered then comes from `pending` being empty at the loop
head (`Control`). The lemmas are one per kind of step, and one about what
appending a message leaves unchanged.

That the three records tell the same story takes an invariant for each. A step
appends to the trace a block of events, none of them twice, so a lemma about such
a block (`BlockCounts`) says what each step adds to every count; `TraceReplays` is
the counts (`Tallies`), the order (`Ordered`), and that no event is ahead of the
loop. `RetryInv` separates the calls that are closed, whose part of the trace no
later event belongs to, from the one that is open, whose start nothing but
transient errors follows, as many as attempts were made (`OpenCall`).
`TrajectoryInv` adds that the steps of a run that goes on are actions only and that
the latest reply's number is `step_count`.

`RunsUseUpTheirWork` is the half of `RunSettles`, from the call of `run()` on, that
needs no fairness: `WorkLeft`, a natural number made of the steps, calls and attempts
left, decreases with every step. The bound `MaxCalls` on the calls of a reply is
the model's; the code has none, but a reply is finite. `TracesAreBounded` follows,
as no step records more than six events.

`ApiInv` adds what the worker, the store and the polls have to do with each
other (`Lifecycle`, `Fetched`): a poll that began after an answer holds the
object the store still holds, which is why `PollsAgree` survives the answer of a
poll that began long before the end. Every step behind the API is a step of the
run or none of its business (`RunBehindTheApi`), so what is proved of the records
of a run holds there too (`RecordsAgreeBehindTheApi`).

`AsyncToolExecutorProofs` proves for every number of slots, threads, calls,
batches and operations that `ExecutorInv` is inductive. `SlotsAccounted` counts
the tasks that were handed a slot or run; that it survives a cancellation needs
the type of `task` only, but that nothing is left behind when a batch answers
needs two facts more: a task with a cancellation belongs to a batch that is
timing out (`Cancellation`), and what a thread is doing agrees with the state of
its task and with its request (`ThreadOwnership`). The lemmas about the semaphore
(`SlotTaken`, `SlotLeft`, `WakeUp`) are stated of any assignment of states to
tasks, because an action both frees a slot and hands it on. `RetriesSkip` is an
action property; it rests on a lemma about what a step may do to threads at the
marker's set. Assumed of the constants: there is at least one slot and one
thread, and the bounds are natural numbers.

`ExecutorKeepsTheContract` shows every step to be one of `BatchContract` or to
change nothing of what shows. An action of a task moves a slot, may hand it on and
may put work into the pool or withdraw it, so all of them are first shown to be of
one kind (`TaskMove`): one task goes on, others are at most handed a slot, and no
thread gets anywhere. That a returned call returns what its tool ended
with is `ThreadOwnership`; that only a batch that timed out withdraws, and answers
when everything is over, is `Cancellation`.

`McpClientProofs` proves for every set of callers and every number of requests,
processes and unread lines that `ClientInv` is inductive. `OwnAnswer` needs the
whole way of an answer, from the pipe through the future (`Honesty`), and that
numbers are given out once and never shared (`Numbering`). `FuturesAreFinal` is
an action property on top of it. `ClientKeepsTheContract` needs in addition that
every number given out has a future (`Registered`), so that requests are made in
the order of their numbers.

`EvalRunnerProofs` proves for every number of suites, tasks, trials and slots
that `RunnerInv` is inductive. That no wake-up is lost is part of it: the number
of free slots is compared with the sleepers that remain after each notification,
under a limit that may have been lowered since. The lemmas about slots are
cardinalities of sets that gain or lose one trial, and so is that of the limit: a
trial whose run is taken for rate limited is over, so none is counted twice.
`JudgesAlwaysAgree` rests on what a result can be (`Graded`): the result of a run,
a crash without grades, or one of the harness. It assumes that a suite has fewer
than 20000 trials: from there on a pass rate with one failure rounds to one, and
the regression report and the trials disagree.

`MemoryStoreProofs` proves for every number of stores, keys, identifiers and
times that `StoreInv` is inductive: at most one store writes (`OneDraft`), a store
between insertion and commit writes (`PutsWrite`), and a draft belongs to a
writer (`Drafted`). On top of it every step is a step of `MemoryContract` or a
stuttering step: taking a lock is one, publishing is the commit, and a read of
`ListEpisodes` with its choice among equal times is the contract's read of the
same view.

`ContextAssemblyProofs` proves for every list of items, budget and threshold that
`AssemblyInv` is inductive. `BudgetByPriority` is not: one has to know that the
items come by descending priority (`Sorted`) and that what was dropped does not
fit now either, as the budget in use only grows (`Budgeting`). Exempt items lead
the sorted list (`ExemptLead`), so cutting it at a limit they do not reach removes
none of them, and what is removed comes after what stays. The other conjuncts
carry what each loop hands to the next; the contents are counted by the bijection
from the kept items (`ContentsCounted`).

Every invariant, action property and refinement that a passing run checks is
stated by a theorem. Model-checked only is liveness (`FreshThreadReports`,
`EveryJobSettles`, `RunSettles`, `BatchesAnswer`, `AnswersArrive`, `SuitesEnd`),
which rests on fairness and is beyond the prover. Proved only are `StepsAreBounded`,
`LeakageIsBlocked`, `AttemptsAreBounded`, `NoWakeupIsLost` of the evaluation,
`OnlyFailuresBlock`, `AnswersComplete`, `FuturesAreFinal`, `RunsUseUpTheirWork` and
`TracesAreBounded`: no run spends time on them.

## Findings

Each is a run that must end in a violation.

1. *A warning masks an error* (`masking`): `graph/edges.py:16` looks at the last
   diagnostic only.
2. *A cancelled job can still succeed* (`cancellation`): the checkpoint at
   `jobs/worker.py:58` does not recognise a cancellation the polling loop has
   already acknowledged.
3. *An operation can be committed twice* (`double_commit`): the look-up at
   `tools/idempotency_writer.py:38` and the insertion are not one step, and the
   tool runs in several threads. `RetriesAreSkipped` says what does hold.
4. *A reader error can deadlock callers* (`reader_error`): requests sent after it
   are accepted (`mcp/client.py:57`) and never answered.

Noticed while modelling, without a run of its own:

* *Graph*. A refused repair returns a failed status, but its edge leads back to
  validation without an exit, so a thread without budget loops to LangGraph's
  recursion limit (`graph/nodes.py:142`). A fatal result of the executor, for a
  family without a handler, would be reported as completed (`graph/nodes.py:105`);
  no query leads there.
* *Jobs*. Records created in the same millisecond replace each other
  (`jobs/store.py:20`). The key of the one that is lost is forgotten, so it is
  computed again, although `jobs/models.py:10` promises strict idempotency, and a
  task of the lost one sets the status of the other. The run `jobs` contains such
  behaviours.
* *Runtime loop*. The step of a tool call whose error ends the run has no stop
  reason (`runtime/loop.py:403`), though `loop.py:6` promises one on termination.
* *API*. An exception of the constructors in front of the worker's `try`, or a
  cancellation before its first step, leaves a run "running" for ever
  (`api.py:47-50`; `LoseWorker` of `ApiRuns`); `src/tests/test_api.py`
  expects an endpoint for traces that does not exist.
* *Async executor*. A timeout lets more tools run than allowed: the slot of a
  cancelled task is free again while its thread goes on
  (`runtime/async_executor.py:46`).
* *MCP client*. The end of the server's output leaves pending callers waiting
  (`mcp/client.py:36`).
* *Evaluation*. The rate limit is looked for in the final answer
  (`evals/runner.py:75`), which a failed run of the loop does not have, and an
  exception that mentions it is not examined, so the back-off never meets the
  limits of the loop's own provider, although the docstring at
  `evals/runner.py:61` speaks of HTTP 429 failures. A factory that raises breaks the stream
  without `[DONE]` (`evals/runner.py:64`) and ends the harness
  (`evals/harness.py:30`). `all_passed` is true of a failed run whose four graders
  pass. A crashed trial has no grades and drops out of the hard metrics
  (`evals/regression.py:69`), although by `src/README.md:116` a candidate fails if
  a protected metric misses its pass rate: a suite of crashes passes review. The
  harness's results never have the metrics the report looks for by default. Pass
  rates are rounded to four digits, which hides one failure in 20000.
* *Memory*. A put that fails leaves its transaction open (`memory/sqlite_store.py:35`),
  with its lock, and a later put commits its leftovers; two stores can block each
  other this way. A re-stored key keeps its first type, so an episode put under a
  key that was first stored as something else is never listed. Decisions that
  contain the separator do not survive the conversion of an episode.
* *Context*. A reordered context ends with the least important item or the second
  least, though `context/assembler.py:63` and `:108` want the important ones at
  both ends. A user message with the priority of an
  instruction would appear twice. A duplicate of low priority that comes first
  displaces an instruction of the same content (`context/dedup.py:13`). With as
  many exempt items as the cutoff, or more, crowding removes nothing at all
  (`context/pruner.py:50`), although by lines 7 and 42 the lowest-priority items are
  dropped and by line 46 only system instructions are kept beyond the cutoff.
  `low_priority_cutoff` is not used, and the loop never sets `age_in_steps`.

## Plan

What was planned is done: every component with state and concurrency of its own
has a module, a run and a proof, and four of them an abstract contract that they
are proved to keep. What could come next, in this order:

1. Termination measures like the runtime's `WorkLeft` for the other components
   whose liveness is only model-checked.
2. An abstract contract for evaluation suites, with a refinement like that of the
   batches.
3. The graph over arbitrary specifications (other families, other windows), as a
   second instance of the pipeline.

## Not modelled

* *Memory records* (`memory/` without the store): conversions of one record
  without state.
* *Evaluation data and optimizer*: reading lines into tasks, and a choice of one
  prompt text by failure type.
* *MCP policy*: a sequence of tests on one request; its registry is filled once.
* *Retrieval*: floating point scores, embeddings and tokenisation; the indexes are
  built and queried by one caller.
* *Skills*, *Tools and scripts*: sequential reading of files, one call each into
  the operating system or arithmetic.
* *State reducers*, partly: the appending one is the graph's event log; the two
  that merge serve fields no node writes.
* *Configuration, errors*, tracing, providers, prompts: values and wording.
