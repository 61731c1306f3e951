-------------------------- MODULE MacroAgentGraph --------------------------
(***************************************************************************)
(* The LangGraph state machine of the scientific agent, over one thread:   *)
(* generate_spec, validate_spec, compile_and_execute, repair_spec and      *)
(* finalize_report, with the routing of edges.py.  The thread's state is   *)
(* checkpointed after every node, so it outlives an invocation: a later    *)
(* run_workflow starts over at generate_spec on top of what earlier runs   *)
(* left behind, and resume_workflow continues at the pending node.         *)
(***************************************************************************)
EXTENDS ScientificPipeline, SequencesExt

CONSTANTS
    None,               \* Python's None: the field has no value yet
    MaxRepairAttempts,  \* BoundedRepairEngine(max_attempts=2)
    RecursionLimit,     \* LangGraph's limit of super-steps per invocation
    MaxInvocations      \* bound: run_workflow and resume_workflow calls

ASSUME BudgetAssumption == MaxRepairAttempts \in Nat
ASSUME NoneAssumption   == None \notin ModelSpec \cup ExecutionPlan
ASSUME LimitAssumption  == RecursionLimit \in Nat /\ MaxInvocations \in Nat

VARIABLES
    user_query,         \* the words of the query that generate_spec looks for
    model_spec, execution_plan, diagnostics, repair_history, repair_attempts,
    status, errors,     \* errors: how many entries the reducer has appended
    trace_events,
    next,               \* checkpointed control: the pending node
    invoking,           \* an invoke() call is in progress
    superstep,          \* nodes run by the current invoke()
    invocations,
    outcome             \* how the latest invoke() ended

thread == <<user_query, model_spec, execution_plan, diagnostics, repair_history,
            repair_attempts, status, errors, trace_events>>
control == <<next, invoking, superstep, invocations, outcome>>
vars == <<thread, control>>

Queries == [high_order : BOOLEAN, short : BOOLEAN, leakage : BOOLEAN]
Nodes   == {"generate_spec", "validate_spec", "compile_and_execute",
            "repair_spec", "finalize_report"}
Events  == {"modelspec_generated", "spec_validation_completed",
            "plan_compiled_and_executed", "numerical_failure_captured",
            "repair_skipped_no_errors", "repair_quota_exhausted_escalated",
            "spec_repaired_and_degraded", "workflow_finalized"}

(* generate_spec_node: the candidate the deterministic test path builds *)
GeneratedSpec(query) ==
    WrapCandidate(
        [dataset_id       |-> IF query.short THEN "short_series" ELSE "monthly_sales",
         frequency        |-> "monthly",
         model            |-> [family |-> "arima",
                               order  |-> <<IF query.high_order THEN 4 ELSE 1, 0, 4>>],
         initial_window   |-> 60,
         horizon          |-> 6,
         forecast_horizon |-> 6,
         mentions_leak    |-> query.leakage,
         require_human_approval |-> FALSE],
        FALSE)

(* Each event carries the length of the log before the node ran, as its step *)
Traced(event) == Append(trace_events, [event |-> event, step |-> Len(trace_events)])

(* decide_next_scientific_action and decide_after_execution: only the most  *)
(* recent diagnostic decides.                                               *)
AfterValidation(diags) ==
    IF diags = <<>> THEN "compile_and_execute"
    ELSE IF Blocking(Last(diags)) THEN "finalize_report"
    ELSE IF Repairable(Last(diags)) THEN "repair_spec"
    ELSE "compile_and_execute"

AfterExecution(diags) ==
    IF diags # <<>> /\ Last(diags).severity = "ERROR"
    THEN "repair_spec" ELSE "finalize_report"
-----------------------------------------------------------------------------
Init ==
    /\ user_query = None /\ model_spec = None /\ execution_plan = None
    /\ diagnostics = <<>> /\ repair_history = <<>> /\ repair_attempts = 0
    /\ status = "absent" /\ errors = 0 /\ trace_events = <<>>
    /\ next = "END" /\ invoking = FALSE /\ superstep = 0
    /\ invocations = 0 /\ outcome = "none"

Invoke(pending) ==
    /\ ~invoking
    /\ invocations < MaxInvocations
    /\ next' = pending
    /\ invoking' = TRUE
    /\ superstep' = 0
    /\ invocations' = invocations + 1
    /\ outcome' = "none"

(* MacroAgentGraphService.run_workflow: the input overwrites the query and  *)
(* the status; every other field keeps the thread's value.                  *)
RunWorkflow(query) ==
    /\ Invoke("generate_spec")
    /\ user_query' = query
    /\ status' = "running"
    /\ UNCHANGED <<model_spec, execution_plan, diagnostics, repair_history,
                   repair_attempts, errors, trace_events>>

(* resume_workflow on a thread whose last invocation did not finish.  No    *)
(* node interrupts, so the resume value itself is not read.                 *)
ResumeWorkflow ==
    /\ next # "END"
    /\ Invoke(next)
    /\ UNCHANGED thread

(* One super-step of an invocation: `node` runs and `successor` is pending *)
Step(node, successor) ==
    /\ invoking
    /\ next = node
    /\ superstep < RecursionLimit
    /\ next' = successor
    /\ superstep' = superstep + 1
    /\ UNCHANGED <<user_query, invocations>>

Continue == UNCHANGED <<invoking, outcome>>

GenerateSpec ==
    /\ Step("generate_spec", "validate_spec") /\ Continue
    /\ model_spec' = GeneratedSpec(user_query)
    /\ execution_plan' = None
    /\ status' = "running"
    /\ trace_events' = Traced("modelspec_generated")
    /\ UNCHANGED <<diagnostics, repair_history, repair_attempts, errors>>

ValidateSpec ==
    /\ Step("validate_spec", AfterValidation(AllDiagnostics(model_spec))) /\ Continue
    /\ diagnostics' = AllDiagnostics(model_spec)
    /\ trace_events' = Traced("spec_validation_completed")
    /\ UNCHANGED <<model_spec, execution_plan, repair_history, repair_attempts,
                   status, errors>>

(* compile_and_execute_node: only a numerical failure becomes a diagnostic *)
CompileAndExecute ==
    LET plan   == CompilePlan(model_spec)
        failed == ExecuteFit(plan) = "NUMERICAL_FAILURE"
        diags  == IF failed THEN <<Diag("ERROR", "ARIMA_NON_CONVERGENCE", TRUE)>>
                  ELSE diagnostics
    IN  /\ Step("compile_and_execute", AfterExecution(diags)) /\ Continue
        /\ execution_plan' = plan
        /\ diagnostics' = diags
        /\ trace_events' =
             trace_events \o
               <<[event |-> "plan_compiled_and_executed", step |-> Len(trace_events)]>> \o
               (IF failed
                THEN <<[event |-> "numerical_failure_captured",
                        step |-> Len(trace_events) + 1]>>
                ELSE <<>>)
        /\ UNCHANGED <<model_spec, repair_history, repair_attempts, status, errors>>

(* repair_spec_node when the engine returns None: budget spent, diagnostic  *)
(* not repairable, or no strategy for it                                    *)
EscalateRepairCounted ==  \* mutant: a failed attempt is counted as a repair
    /\ ~Repairs(model_spec, Last(diagnostics), repair_history, MaxRepairAttempts)
    /\ status' = "failed"
    /\ errors' = errors + 1
    /\ repair_attempts' = repair_attempts + 1
    /\ trace_events' = Traced("repair_quota_exhausted_escalated")
    /\ UNCHANGED <<model_spec, diagnostics, repair_history>>

EscalateRepair ==
    /\ ~Repairs(model_spec, Last(diagnostics), repair_history, MaxRepairAttempts)
    /\ status' = "failed"
    /\ errors' = errors + 1
    /\ trace_events' = Traced("repair_quota_exhausted_escalated")
    /\ UNCHANGED <<model_spec, diagnostics, repair_history, repair_attempts>>

ApplyRepair ==
    /\ Repairs(model_spec, Last(diagnostics), repair_history, MaxRepairAttempts)
    /\ model_spec' = RepairedSpec(model_spec, Last(diagnostics))
    /\ repair_attempts' = repair_attempts + 1
    /\ repair_history' = Append(repair_history,
                           Proposal(model_spec, Last(diagnostics), repair_history))
    /\ diagnostics' = <<>>
    /\ trace_events' = Traced("spec_repaired_and_degraded")
    /\ UNCHANGED <<status, errors>>

(* The whole node, with its early return when there is nothing to repair *)
RepairAttempt ==
    IF diagnostics = <<>>
    THEN /\ trace_events' = Traced("repair_skipped_no_errors")
         /\ UNCHANGED <<model_spec, diagnostics, repair_history, repair_attempts,
                        status, errors>>
    ELSE EscalateRepair \/ ApplyRepair

RepairThenExecute ==  \* mutant: a repaired specification is not validated again
    /\ Step("repair_spec", "compile_and_execute") /\ Continue
    /\ RepairAttempt
    /\ UNCHANGED execution_plan

RepairSpec ==
    /\ Step("repair_spec", "validate_spec") /\ Continue
    /\ RepairAttempt
    /\ UNCHANGED execution_plan

RejectedIgnoringErrors ==  \* mutant: the thread's error list is not consulted
    \/ status = "failed"
    \/ \E i \in DOMAIN diagnostics : Blocking(diagnostics[i])

(* The report node's verdict on the thread *)
Rejected ==
    \/ status = "failed"
    \/ errors > 0
    \/ \E i \in DOMAIN diagnostics : Blocking(diagnostics[i])

(* finalize_report_node; the graph ends and invoke() returns *)
FinalizeReport ==
    /\ Step("finalize_report", "END")
    /\ status' = IF Rejected THEN "failed" ELSE "completed"
    /\ trace_events' = Traced("workflow_finalized")
    /\ invoking' = FALSE
    /\ outcome' = "returned"
    /\ UNCHANGED <<model_spec, execution_plan, diagnostics, repair_history,
                   repair_attempts, errors>>

(* LangGraph: the limit is reached with a node still pending, and invoke()  *)
(* raises GraphRecursionError                                               *)
ExceedRecursionLimit ==
    /\ invoking
    /\ superstep = RecursionLimit
    /\ invoking' = FALSE
    /\ outcome' = "recursion_error"
    /\ UNCHANGED <<thread, next, superstep, invocations>>

(* The process dies between two checkpoints; a node that had not committed  *)
(* its writes has no effect                                                 *)
Crash ==
    /\ invoking
    /\ invoking' = FALSE
    /\ outcome' = "crashed"
    /\ UNCHANGED <<thread, next, superstep, invocations>>

RunNode == \/ GenerateSpec \/ ValidateSpec \/ CompileAndExecute
           \/ RepairSpec \/ FinalizeReport

Next == \/ \E query \in Queries : RunWorkflow(query)
        \/ ResumeWorkflow
        \/ RunNode
        \/ ExceedRecursionLimit
        \/ Crash

(* invoke() runs node after node until it returns or raises; nothing makes  *)
(* a caller run or resume a thread, and nothing makes the process die.      *)
Fairness == WF_vars(RunNode) /\ WF_vars(ExceedRecursionLimit)

Spec == Init /\ [][Next]_vars /\ Fairness
-----------------------------------------------------------------------------
(* Properties *)

(* The types of all state; the pending node is one of the graph's. *)
TypeOK ==
    /\ user_query \in Queries \cup {None}
    /\ model_spec \in ModelSpec \cup {None}
    /\ execution_plan \in ExecutionPlan \cup {None}
    /\ diagnostics \in Seq(Diagnostic)
    /\ repair_history \in Seq(RepairProposal)
    /\ repair_attempts \in Nat
    /\ status \in {"absent", "running", "completed", "failed"}
    /\ errors \in Nat
    /\ trace_events \in Seq([event : Events, step : Nat])
    /\ next \in Nodes \cup {"END"}
    /\ invoking \in BOOLEAN
    /\ superstep \in 0..RecursionLimit
    /\ invocations \in 0..MaxInvocations
    /\ outcome \in {"none", "returned", "recursion_error", "crashed"}

(* The engine is rebuilt by every repair node and starts with an empty      *)
(* history; its budget binds over the whole life of the thread only because *)
(* the node restores the checkpointed history first (nodes.py:134-138).     *)
RepairBudget == Len(repair_history) <= MaxRepairAttempts

(* Routing decides on findings about the specification that is about to be  *)
(* executed, never on those of an earlier version of it: a repair or a new  *)
(* candidate always passes validate_spec again, also after a crash.         *)
RoutedOnFreshDiagnostics ==
    /\ next = "compile_and_execute" => diagnostics = AllDiagnostics(model_spec)
    /\ next = "repair_spec" => diagnostics # <<>> /\ Repairable(Last(diagnostics))

(* A specification that mentions a leak is never compiled: the blocking     *)
(* finding must be the last one reported, whatever else is wrong with the   *)
(* specification and whatever was repaired before (edges.py:16-26).         *)
LeakageNeverExecuted ==
    model_spec # None /\ execution_plan # None => ~model_spec.mentions_leak

(* A report of success rests on a plan compiled in the same run from the    *)
(* specification the report is about, that ran to convergence, on a thread  *)
(* without recorded errors (nodes.py:177-186).                              *)
HonestReport ==
    status = "completed" =>
        /\ errors = 0
        /\ execution_plan = CompilePlan(model_spec)
        /\ ExecuteFit(execution_plan) = "SUCCESS"
        /\ ~model_spec.mentions_leak

Occurrences(event) == {i \in DOMAIN trace_events : trace_events[i].event = event}

(* The three records of the repairs of a thread agree: the counter, the     *)
(* history and the log; so do the errors and the escalations logged, and    *)
(* every log entry's step is its position (nodes.py:29, 109, 121).          *)
AuditLogAgrees ==
    /\ repair_attempts = Len(repair_history)
    /\ Cardinality(Occurrences("spec_repaired_and_degraded")) = repair_attempts
    /\ Cardinality(Occurrences("repair_quota_exhausted_escalated")) = errors
    /\ \A i \in DOMAIN trace_events : trace_events[i].step = i - 1
    /\ \A i \in DOMAIN repair_history : repair_history[i].attempt_number = i

(* The repairs logged since the latest candidate was generated, and where   *)
(* they are in the history                                                  *)
LoggedThisRun ==
    {i \in Occurrences("spec_repaired_and_degraded") :
        \A j \in Occurrences("modelspec_generated") : j < i}

RepairsThisRun ==
    (Len(repair_history) - Cardinality(LoggedThisRun) + 1)..Len(repair_history)

(* What a repair changes, and its value in a specification *)
Fields == {"order", "window"}
Field(proposal) == IF proposal.code = "ARIMA_NON_CONVERGENCE" THEN "order" ELSE "window"
Value(spec, field) ==
    IF field = "order" THEN spec.model.order ELSE <<spec.initial_window>>

(* `value` is what the repairs of this run before the n-th of the thread    *)
(* have made of the generated candidate's field                             *)
Explained(field, value, n) ==
    LET earlier == {i \in RepairsThisRun : i < n /\ Field(repair_history[i]) = field}
    IN  \/ earlier = {} /\ value = Value(GeneratedSpec(user_query), field)
        \/ \E i \in earlier : /\ \A j \in earlier : j <= i
                              /\ value = repair_history[i].new

(* Apart from what repairs change, a specification is this one *)
SameButRepaired(spec, generated) ==
    generated = [spec EXCEPT !.model.order = generated.model.order,
                             !.initial_window = generated.initial_window]

(* The diffs recorded in this run form a chain from the candidate of        *)
(* generate_spec to the current specification: every old value is what the  *)
(* diffs before it left, the last new values are the current ones, and      *)
(* nothing else changed.  The history alone explains the specification      *)
(* (repairs.py:40-78).                                                      *)
RepairHistoryReplays ==
    model_spec # None /\ next # "generate_spec" =>
        /\ \A n \in RepairsThisRun :
             Explained(Field(repair_history[n]), repair_history[n].old, n)
        /\ \A field \in Fields :
             Explained(field, Value(model_spec, field), Len(repair_history) + 1)
        /\ SameButRepaired(model_spec, GeneratedSpec(user_query))

(* LangGraph's recursion limit stops an invocation only when the thread's   *)
(* repair budget is spent: no other loop of the graph is endless.           *)
RecursionOnlyWhenExhausted ==
    outcome = "recursion_error" => Len(repair_history) = MaxRepairAttempts

(* On a fresh thread the first run reaches its report, unless the process   *)
(* dies: the budget covers every sequence of repairs one query can need.    *)
FreshThreadReports ==
    invocations = 1 /\ invoking ~> outcome \in {"returned", "crashed"}

(* The inductive strengthening.  What each pending node may rely on:        *)
(* generate_spec on a query, every other node on a candidate; compilation   *)
(* on a fresh validation without a blocking end; the report on a blocking   *)
(* finding or on a converged plan of the current specification.             *)
CandidateShape ==
    model_spec # None =>
        /\ IsArima(model_spec)
        /\ model_spec.dataset_id \in DOMAIN LocalDataRegistry
        /\ model_spec.forecast_horizon = 6
        /\ model_spec.mentions_leak => model_spec.initial_window = 60

PendingNode ==
    /\ next = "generate_spec" => user_query \in Queries
    /\ next \in Nodes \ {"generate_spec"} => model_spec # None
    /\ next = "compile_and_execute" =>
         diagnostics = <<>> \/ Last(diagnostics).severity # "ERROR"
    /\ next \in {"compile_and_execute", "repair_spec"} => ~model_spec.mentions_leak
    /\ next = "finalize_report" =>
         \/ \E i \in DOMAIN diagnostics : Blocking(diagnostics[i])
         \/ /\ execution_plan = CompilePlan(model_spec)
            /\ ExecuteFit(execution_plan) = "SUCCESS"
            /\ ~model_spec.mentions_leak
    /\ status = "completed" => next = "END" /\ ~invoking

GraphInv ==
    /\ TypeOK /\ RepairBudget /\ RoutedOnFreshDiagnostics
    /\ LeakageNeverExecuted /\ HonestReport
    /\ repair_attempts = Len(repair_history)
    /\ CandidateShape /\ PendingNode

(* README.md:216 "Graph loops must terminate through explicit state         *)
(* transitions and bounded repair policies": no invocation ends because the *)
(* recursion limit stopped it.                                              *)
LoopsTerminateByTransition == outcome # "recursion_error"

(* README.md:57 "Natural-language output cannot execute directly. It must   *)
(* pass through typed parsing, domain validation, static analysis": nothing *)
(* is executed while validation reports an error about it.                  *)
ExecutionPassedValidation ==
    next = "compile_and_execute" =>
        \A i \in DOMAIN diagnostics : diagnostics[i].severity # "ERROR"
=============================================================================
