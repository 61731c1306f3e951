----------------------- MODULE MacroAgentGraphProofs -----------------------
(***************************************************************************)
(* Proofs about the scientific graph, for every repair budget, recursion   *)
(* limit and number of invocations of a thread.                            *)
(***************************************************************************)
EXTENDS MacroAgentGraph, FiniteSetTheorems, SequenceTheorems, TLAPS

-----------------------------------------------------------------------------
(* Lemmas about the pipeline's operators *)

(* A check contributes a sequence of at most one diagnostic. *)
LEMMA ReportType ==
    ASSUME NEW found \in BOOLEAN, NEW d \in Diagnostic
    PROVE  Report(found, d) \in Seq(Diagnostic)
BY DEF Report

(* The findings of the validator are diagnostics. *)
LEMMA ValidateDomainType ==
    ASSUME NEW spec \in ModelSpec
    PROVE  ValidateDomain(spec) \in Seq(Diagnostic)
<1> DEFINE rows == DatasetRows(spec)
<1>1. CASE spec.dataset_id \notin DOMAIN LocalDataRegistry
  <2>1. Diag("ERROR", "DATASET_NOT_FOUND", FALSE) \in Diagnostic
    BY DEF Diag, Diagnostic, Severities, Codes
  <2>2. ValidateDomain(spec) = <<Diag("ERROR", "DATASET_NOT_FOUND", FALSE)>>
    BY <1>1, Zenon DEF ValidateDomain
  <2> DEFINE d == Diag("ERROR", "DATASET_NOT_FOUND", FALSE)
  <2>3. d \in Diagnostic => <<d>> \in Seq(Diagnostic)
    <3> HIDE DEF d
    <3> QED OBVIOUS
  <2> QED BY <2>1, <2>2, <2>3
<1>2. CASE spec.dataset_id \in DOMAIN LocalDataRegistry
  <2>1. rows \in Nat
    BY <1>2 DEF DatasetRows, LocalDataRegistry
  <2>2. /\ Diag("ERROR", "FREQUENCY_MISMATCH", TRUE) \in Diagnostic
        /\ Diag("ERROR", "INVALID_SEASONAL_PERIOD", TRUE) \in Diagnostic
        /\ Diag("ERROR", "SCHEMA_VALIDATION_FAILURE", TRUE) \in Diagnostic
        /\ Diag("WARNING", "MODEL_COMPLEXITY_EXCESSIVE", TRUE) \in Diagnostic
        /\ [Diag("ERROR", "INSUFFICIENT_SAMPLE", TRUE) EXCEPT !.rows = rows] \in Diagnostic
    BY <2>1 DEF Diag, Diagnostic, Severities, Codes
  <2> DEFINE c1 == spec.frequency # LocalDataRegistry[spec.dataset_id].frequency
             c2 == /\ spec.model.family = "ets"
                   /\ spec.model.seasonal # "none"
                   /\ ~spec.model.has_period
             c3 == IsArima(spec) /\ \E i \in 1..3 : spec.model.order[i] < 0
             c4 == IsArima(spec) /\ OrderSum(spec) > 12
             c5 == ~FitsSample(spec)
  <2>3. /\ c1 \in BOOLEAN /\ c2 \in BOOLEAN /\ c3 \in BOOLEAN
        /\ c4 \in BOOLEAN /\ c5 \in BOOLEAN
    OBVIOUS
  <2> DEFINE s1 == Report(c1, Diag("ERROR", "FREQUENCY_MISMATCH", TRUE))
             s2 == Report(c2, Diag("ERROR", "INVALID_SEASONAL_PERIOD", TRUE))
             s3 == Report(c3, Diag("ERROR", "SCHEMA_VALIDATION_FAILURE", TRUE))
             s4 == Report(c4, Diag("WARNING", "MODEL_COMPLEXITY_EXCESSIVE", TRUE))
             s5 == Report(c5, [Diag("ERROR", "INSUFFICIENT_SAMPLE", TRUE) EXCEPT !.rows = rows])
  <2> HIDE DEF c1, c2, c3, c4, c5, rows
  <2>4. /\ s1 \in Seq(Diagnostic) /\ s2 \in Seq(Diagnostic) /\ s3 \in Seq(Diagnostic)
        /\ s4 \in Seq(Diagnostic) /\ s5 \in Seq(Diagnostic)
    BY <2>2, <2>3, ReportType
  <2> HIDE DEF s1, s2, s3, s4, s5
  <2>5. s1 \o s2 \o s3 \o s4 \o s5 \in Seq(Diagnostic)
    BY <2>4
  <2>6. ValidateDomain(spec) = s1 \o s2 \o s3 \o s4 \o s5
    BY <1>2, Zenon DEF ValidateDomain, s1, s2, s3, s4, s5, c1, c2, c3, c4, c5, rows
  <2> QED BY <2>5, <2>6
<1> QED BY <1>1, <1>2

(* The findings of the analyser are diagnostics. *)
LEMMA AnalyzeSpecType ==
    ASSUME NEW spec \in ModelSpec
    PROVE  AnalyzeSpec(spec) \in Seq(Diagnostic)
<1> DEFINE c1 == spec.mentions_leak
           c2 == spec.dataset_id \in TraversalIds
           c3 == IsArima(spec) /\ 2 * spec.forecast_horizon > spec.initial_window
<1>1. c1 \in BOOLEAN /\ c2 \in BOOLEAN /\ c3 \in BOOLEAN
  BY DEF ModelSpec
<1>2. /\ Diag("ERROR", "LEAKAGE_DETECTED", FALSE) \in Diagnostic
      /\ Diag("ERROR", "UNAUTHORIZED_OPERATION", FALSE) \in Diagnostic
      /\ Diag("WARNING", "BACKTEST_WINDOW_INVALID", TRUE) \in Diagnostic
  BY DEF Diag, Diagnostic, Severities, Codes
<1> DEFINE s1 == Report(c1, Diag("ERROR", "LEAKAGE_DETECTED", FALSE))
           s2 == Report(c2, Diag("ERROR", "UNAUTHORIZED_OPERATION", FALSE))
           s3 == Report(c3, Diag("WARNING", "BACKTEST_WINDOW_INVALID", TRUE))
<1> HIDE DEF c1, c2, c3
<1>3. s1 \in Seq(Diagnostic) /\ s2 \in Seq(Diagnostic) /\ s3 \in Seq(Diagnostic)
  BY <1>1, <1>2, ReportType
<1> HIDE DEF s1, s2, s3
<1>4. s1 \o s2 \o s3 \in Seq(Diagnostic)
  BY <1>3
<1>5. AnalyzeSpec(spec) = s1 \o s2 \o s3
  BY Zenon DEF AnalyzeSpec, s1, s2, s3, c1, c2, c3
<1> QED BY <1>4, <1>5

LEMMA AllDiagnosticsType ==
    ASSUME NEW spec \in ModelSpec
    PROVE  AllDiagnostics(spec) \in Seq(Diagnostic)
BY ValidateDomainType, AnalyzeSpecType DEF AllDiagnostics

(* When a specification mentions a leak, names a data set without a path    *)
(* and has a window of at least twice its forecast horizon, the finding of  *)
(* the leak is the last one, and it blocks.                                 *)
LEMMA LeakIsLastFinding ==
    ASSUME NEW spec \in ModelSpec,
           spec.mentions_leak,
           spec.dataset_id \notin TraversalIds,
           2 * spec.forecast_horizon <= spec.initial_window
    PROVE  /\ AllDiagnostics(spec) # <<>>
           /\ Blocking(Last(AllDiagnostics(spec)))
<1> DEFINE leak == Diag("ERROR", "LEAKAGE_DETECTED", FALSE)
           domain == ValidateDomain(spec)
<1>1. ~(2 * spec.forecast_horizon > spec.initial_window)
  BY DEF ModelSpec
<1>2. /\ Report(spec.mentions_leak, leak) = <<leak>>
      /\ Report(spec.dataset_id \in TraversalIds,
                Diag("ERROR", "UNAUTHORIZED_OPERATION", FALSE)) = <<>>
      /\ Report(IsArima(spec) /\ 2 * spec.forecast_horizon > spec.initial_window,
                Diag("WARNING", "BACKTEST_WINDOW_INVALID", TRUE)) = <<>>
  BY <1>1, Zenon DEF Report
<1>3. AnalyzeSpec(spec) = <<leak>> \o <<>> \o <<>>
  BY <1>2, Zenon DEF AnalyzeSpec
<1>4. leak \in Diagnostic /\ Blocking(leak)
  BY DEF Diag, Diagnostic, Severities, Codes, Blocking
<1>5. domain \in Seq(Diagnostic)
  BY ValidateDomainType
<1> HIDE DEF leak, domain
<1>6. <<leak>> \o <<>> \o <<>> = <<leak>>
  BY <1>4
<1>7. AllDiagnostics(spec) = domain \o <<leak>>
  BY <1>3, <1>6, Zenon DEF AllDiagnostics, domain
<1>8. /\ domain \o <<leak>> # <<>>
      /\ Last(domain \o <<leak>>) = leak
  <2>1. Len(domain \o <<leak>>) = Len(domain) + 1
    BY <1>4, <1>5
  <2>2. (domain \o <<leak>>)[Len(domain) + 1] = leak
    BY <1>4, <1>5
  <2>3. domain \o <<leak>> # <<>>
    BY <2>1, <1>5
  <2> QED BY <2>1, <2>2, <2>3 DEF Last
<1> QED BY <1>4, <1>7, <1>8

(* The compiler returns an execution plan for every valid specification. *)
LEMMA CompilePlanType ==
    ASSUME NEW spec \in ModelSpec
    PROVE  CompilePlan(spec) \in ExecutionPlan
<1> DEFINE fit == FitOperation[spec.model.family]
<1>1. spec.model.family \in {"arima", "ets", "seasonal_naive"}
  BY DEF ModelSpec, ARIMASpec, ETSSpec, SeasonalNaiveSpec
<1>2. fit \in Operations
  BY <1>1 DEF FitOperation, Operations, ApprovedOperations
<1> HIDE DEF fit
<1>3. <<"load_dataset", "apply_transformations", fit, "generate_forecast">> \in Seq(Operations)
  <2>1. /\ "load_dataset" \in Operations
        /\ "apply_transformations" \in Operations
        /\ "generate_forecast" \in Operations
    BY DEF Operations, ApprovedOperations
  <2> QED BY <1>2, <2>1
<1> USE DEF fit
<1> QED BY <1>3 DEF CompilePlan, ExecutionPlan, ModelSpec

(* The window a repair proposes is a legal one. *)
LEMMA ContractedWindowType ==
    ASSUME NEW spec \in ModelSpec, NEW d \in Diagnostic
    PROVE  ContractedWindow(spec, d.rows) \in Nat \ {0}
<1>1. d.rows \in Nat /\ spec.horizon \in Int
  BY DEF Diagnostic, ModelSpec
<1> QED BY <1>1 DEF ContractedWindow, Larger

(* A repair of an ARIMA specification is one again: only the order, or only *)
(* the window, changes.                                                     *)
LEMMA RepairedSpecType ==
    ASSUME NEW spec \in ModelSpec, IsArima(spec), NEW d \in Diagnostic
    PROVE  /\ RepairedSpec(spec, d) \in ModelSpec
           /\ IsArima(RepairedSpec(spec, d))
           /\ RepairedSpec(spec, d).dataset_id = spec.dataset_id
           /\ RepairedSpec(spec, d).forecast_horizon = spec.forecast_horizon
           /\ RepairedSpec(spec, d).mentions_leak = spec.mentions_leak
<1>1. spec.model \in ARIMASpec
  BY DEF IsArima, ModelSpec, ARIMASpec, ETSSpec, SeasonalNaiveSpec
<1>2. CASE CanReduceOrder(spec, d)
  <2>1. [spec.model EXCEPT !.order = ReducedOrder(spec)] \in ARIMASpec
    BY <1>1 DEF ARIMASpec, ReducedOrder
  <2>2. RepairedSpec(spec, d) = [spec EXCEPT !.model = [spec.model EXCEPT !.order = ReducedOrder(spec)]]
    BY <1>2 DEF RepairedSpec, ModelSpec
  <2> QED BY <2>1, <2>2 DEF ModelSpec, IsArima, ARIMASpec
<1>3. CASE ~CanReduceOrder(spec, d)
  <2>1. ContractedWindow(spec, d.rows) \in Nat \ {0}
    BY ContractedWindowType
  <2>2. RepairedSpec(spec, d) = [spec EXCEPT !.initial_window = ContractedWindow(spec, d.rows)]
    BY <1>3 DEF RepairedSpec
  <2> QED BY <2>1, <2>2 DEF ModelSpec, IsArima
<1> QED BY <1>2, <1>3

(* A proposal is a well-formed record of the repair. *)
LEMMA ProposalType ==
    ASSUME NEW spec \in ModelSpec, IsArima(spec), NEW d \in Diagnostic,
           NEW history \in Seq(RepairProposal)
    PROVE  Proposal(spec, d, history) \in RepairProposal
<1>1. spec.model \in ARIMASpec
  BY DEF IsArima, ModelSpec, ARIMASpec, ETSSpec, SeasonalNaiveSpec
<1>2. spec.model.order \in Seq(Int) /\ ReducedOrder(spec) \in Seq(Int)
  <2>1. PICK p \in Int, d_ \in Int, q \in Int : spec.model.order = <<p, d_, q>>
    BY <1>1 DEF ARIMASpec
  <2>2. ReducedOrder(spec) = <<1, d_, 1>>
    BY <2>1 DEF ReducedOrder
  <2> QED BY <2>1, <2>2
<1>3. ContractedWindow(spec, d.rows) \in Int
  BY ContractedWindowType
<1>4. <<spec.initial_window>> \in Seq(Int) /\ <<ContractedWindow(spec, d.rows)>> \in Seq(Int)
  BY <1>3 DEF ModelSpec
<1>5. d.code \in Codes /\ Len(history) + 1 \in Nat
  BY DEF Diagnostic
<1> QED BY <1>2, <1>4, <1>5 DEF Proposal, RepairProposal

(* The candidate of generate_spec is an ARIMA specification of a registered *)
(* data set with the window and horizon of nodes.py:34-52.                  *)
LEMMA GeneratedSpecShape ==
    ASSUME NEW query \in Queries
    PROVE  /\ GeneratedSpec(query) \in ModelSpec
           /\ IsArima(GeneratedSpec(query))
           /\ GeneratedSpec(query).dataset_id \in DOMAIN LocalDataRegistry
           /\ GeneratedSpec(query).forecast_horizon = 6
           /\ GeneratedSpec(query).initial_window = 60
<1> DEFINE dataset == IF query.short THEN "short_series" ELSE "monthly_sales"
           model == [family |-> "arima",
                     order  |-> <<IF query.high_order THEN 4 ELSE 1, 0, 4>>]
<1>1. dataset \in DOMAIN LocalDataRegistry /\ dataset \in DatasetIds
  BY DEF LocalDataRegistry, DatasetIds
<1>2. model \in ARIMASpec /\ model.family = "arima"
  BY DEF ARIMASpec
<1>3. query.leakage \in BOOLEAN
  BY DEF Queries
<1>4. "monthly" \in Frequencies
  BY DEF Frequencies
<1> DEFINE candidate ==
      [dataset_id |-> dataset, frequency |-> "monthly", model |-> model,
       initial_window |-> 60, horizon |-> 6, forecast_horizon |-> 6,
       mentions_leak |-> query.leakage, require_human_approval |-> FALSE]
<1>5. GeneratedSpec(query) = [candidate EXCEPT !.require_human_approval = FALSE]
  BY Zenon DEF GeneratedSpec, WrapCandidate
<1> HIDE DEF dataset, model
<1>6. candidate \in ModelSpec
  BY <1>1, <1>2, <1>3, <1>4 DEF ModelSpec
<1>7. GeneratedSpec(query) = candidate
  BY <1>5
<1> QED BY <1>1, <1>2, <1>6, <1>7 DEF IsArima

(* Appending an event to the log keeps it a log. *)
LEMMA TracedType ==
    ASSUME trace_events \in Seq([event : Events, step : Nat]), NEW event \in Events
    PROVE  Traced(event) \in Seq([event : Events, step : Nat])
<1>1. [event |-> event, step |-> Len(trace_events)] \in [event : Events, step : Nat]
  OBVIOUS
<1> QED BY <1>1 DEF Traced

(* No value of the schema is None. *)
LEMMA NoneIsNoValue ==
    /\ \A spec \in ModelSpec : spec # None
    /\ \A plan \in ExecutionPlan : plan # None
BY NoneAssumption

-----------------------------------------------------------------------------
(* The inductive invariant *)

LEMMA InitInv == Init => GraphInv
<1> SUFFICES ASSUME Init PROVE GraphInv
  OBVIOUS
<1>1. TypeOK
  <2>1. /\ diagnostics \in Seq(Diagnostic)
        /\ repair_history \in Seq(RepairProposal)
        /\ trace_events \in Seq([event : Events, step : Nat])
    BY DEF Init
  <2>2. superstep \in 0..RecursionLimit /\ invocations \in 0..MaxInvocations
    BY LimitAssumption DEF Init
  <2> QED BY <2>1, <2>2 DEF Init, TypeOK
<1>2. /\ RepairBudget /\ RoutedOnFreshDiagnostics /\ LeakageNeverExecuted
      /\ HonestReport /\ repair_attempts = Len(repair_history)
  BY BudgetAssumption
     DEF Init, RepairBudget, RoutedOnFreshDiagnostics, LeakageNeverExecuted, HonestReport
<1>3. CandidateShape /\ PendingNode
  BY DEF Init, CandidateShape, PendingNode, Nodes
<1> QED BY <1>1, <1>2, <1>3 DEF GraphInv

(* run_workflow disturbs the query, the status and the control state only; *)
(* resume_workflow the control state only.                                 *)
LEMMA InvokeInv ==
    ASSUME GraphInv, \/ \E query \in Queries : RunWorkflow(query)
                     \/ ResumeWorkflow
    PROVE  GraphInv'
<1>1. ASSUME NEW query \in Queries, RunWorkflow(query) PROVE GraphInv'
  <2>1. TypeOK'
    BY <1>1, LimitAssumption DEF GraphInv, TypeOK, RunWorkflow, Invoke, Nodes
  <2>2. /\ RepairBudget' /\ RoutedOnFreshDiagnostics' /\ LeakageNeverExecuted'
        /\ HonestReport' /\ (repair_attempts = Len(repair_history))'
    BY <1>1 DEF GraphInv, RunWorkflow, Invoke, RepairBudget, RoutedOnFreshDiagnostics,
                LeakageNeverExecuted, HonestReport
  <2>3. CandidateShape' /\ PendingNode'
    BY <1>1 DEF GraphInv, RunWorkflow, Invoke, CandidateShape, PendingNode, Nodes
  <2> QED BY <2>1, <2>2, <2>3 DEF GraphInv
<1>2. CASE ResumeWorkflow
  <2>1. TypeOK'
    BY <1>2, LimitAssumption DEF GraphInv, TypeOK, ResumeWorkflow, Invoke, thread, Nodes
  <2>2. /\ RepairBudget' /\ RoutedOnFreshDiagnostics' /\ LeakageNeverExecuted'
        /\ HonestReport' /\ (repair_attempts = Len(repair_history))'
    BY <1>2 DEF GraphInv, ResumeWorkflow, Invoke, thread, RepairBudget,
                RoutedOnFreshDiagnostics, LeakageNeverExecuted, HonestReport
  <2>3. CandidateShape' /\ PendingNode'
    BY <1>2 DEF GraphInv, ResumeWorkflow, Invoke, thread, CandidateShape, PendingNode, Nodes
  <2> QED BY <2>1, <2>2, <2>3 DEF GraphInv
<1> QED BY <1>1, <1>2

(* An invocation that ends without a report leaves the thread as it is. *)
LEMMA AbortInv ==
    ASSUME GraphInv, ExceedRecursionLimit \/ Crash
    PROVE  GraphInv'
<1>1. TypeOK'
  BY DEF GraphInv, TypeOK, ExceedRecursionLimit, Crash, thread
<1>2. /\ RepairBudget' /\ RoutedOnFreshDiagnostics' /\ LeakageNeverExecuted'
      /\ HonestReport' /\ (repair_attempts = Len(repair_history))'
  BY DEF GraphInv, ExceedRecursionLimit, Crash, thread, RepairBudget,
         RoutedOnFreshDiagnostics, LeakageNeverExecuted, HonestReport
<1>3. CandidateShape' /\ PendingNode'
  BY DEF GraphInv, ExceedRecursionLimit, Crash, thread, CandidateShape, PendingNode
<1> QED BY <1>1, <1>2, <1>3 DEF GraphInv

(* The types of the control state after any super-step. *)
LEMMA StepType ==
    ASSUME TypeOK, NEW node, NEW successor \in Nodes \cup {"END"}, Step(node, successor)
    PROVE  /\ next' \in Nodes \cup {"END"}
           /\ superstep' \in 0..RecursionLimit
           /\ user_query' \in Queries \cup {None}
           /\ invocations' \in 0..MaxInvocations
<1>1. superstep + 1 \in 0..RecursionLimit
  BY LimitAssumption DEF TypeOK, Step
<1> QED BY <1>1 DEF TypeOK, Step

(* generate_spec_node discards the plan of the previous run together with  *)
(* its specification.                                                       *)
LEMMA GenerateSpecInv ==
    ASSUME GraphInv, GenerateSpec
    PROVE  GraphInv'
<1> USE DEF GraphInv, GenerateSpec, Continue
<1> DEFINE spec == GeneratedSpec(user_query)
<1>1. user_query \in Queries
  BY DEF Step, PendingNode
<1>2. /\ spec \in ModelSpec /\ IsArima(spec)
      /\ spec.dataset_id \in DOMAIN LocalDataRegistry
      /\ spec.forecast_horizon = 6 /\ spec.initial_window = 60
  BY <1>1, GeneratedSpecShape
<1>3. spec # None
  BY <1>2, NoneIsNoValue
<1> HIDE DEF spec
<1>4. model_spec' = spec /\ execution_plan' = None
  BY DEF spec
<1>5. TypeOK'
  <2>1. trace_events' \in Seq([event : Events, step : Nat])
    BY TracedType DEF TypeOK, Events
  <2>2. "validate_spec" \in Nodes \cup {"END"}
    BY DEF Nodes
  <2> QED BY <1>2, <1>4, <2>1, <2>2, StepType DEF TypeOK
<1>6. /\ RepairBudget' /\ (repair_attempts = Len(repair_history))'
      /\ LeakageNeverExecuted' /\ HonestReport' /\ RoutedOnFreshDiagnostics'
  BY <1>4 DEF Step, RepairBudget, LeakageNeverExecuted, HonestReport,
              RoutedOnFreshDiagnostics
<1>7. CandidateShape'
  BY <1>2, <1>4 DEF CandidateShape
<1>8. PendingNode'
  BY <1>3, <1>4 DEF PendingNode, Step, Nodes
<1> QED BY <1>5, <1>6, <1>7, <1>8 DEF GraphInv

(* validate_spec_node routes on what it has just found; a leaking candidate *)
(* still has its original window, so its last finding is the leak.          *)
LEMMA ValidateSpecInv ==
    ASSUME GraphInv, ValidateSpec
    PROVE  GraphInv'
<1> USE DEF GraphInv, ValidateSpec, Continue
<1> DEFINE diags == AllDiagnostics(model_spec)
<1>1. model_spec \in ModelSpec /\ model_spec # None
  BY DEF Step, PendingNode, TypeOK, Nodes
<1>2. diags \in Seq(Diagnostic)
  BY <1>1, AllDiagnosticsType
<1>3. model_spec.mentions_leak => diags # <<>> /\ Blocking(Last(diags))
  <2> SUFFICES ASSUME model_spec.mentions_leak
               PROVE  diags # <<>> /\ Blocking(Last(diags))
    OBVIOUS
  <2>1. model_spec.dataset_id \notin TraversalIds
    BY <1>1 DEF CandidateShape, TraversalIds, LocalDataRegistry
  <2>2. 2 * model_spec.forecast_horizon <= model_spec.initial_window
    BY <1>1 DEF CandidateShape
  <2> QED BY <1>1, <2>1, <2>2, LeakIsLastFinding
<1>4. diagnostics' = diags /\ next' = AfterValidation(diags)
  BY DEF Step
<1> HIDE DEF diags
<1>5. AfterValidation(diags) \in {"compile_and_execute", "repair_spec", "finalize_report"}
  BY DEF AfterValidation
<1>6. TypeOK'
  <2>1. trace_events' \in Seq([event : Events, step : Nat])
    BY TracedType DEF TypeOK, Events
  <2>2. AfterValidation(diags) \in Nodes \cup {"END"}
    BY <1>5 DEF Nodes
  <2>3. Step("validate_spec", AfterValidation(diags))
    BY DEF diags
  <2> QED BY <1>2, <1>4, <2>1, <2>2, <2>3, StepType DEF TypeOK
<1>7. /\ RepairBudget' /\ (repair_attempts = Len(repair_history))'
      /\ LeakageNeverExecuted' /\ HonestReport'
  BY DEF RepairBudget, LeakageNeverExecuted, HonestReport
<1>8. RoutedOnFreshDiagnostics'
  BY <1>4 DEF RoutedOnFreshDiagnostics, AfterValidation, diags
<1>9. CandidateShape'
  BY DEF CandidateShape
<1>10. PendingNode'
  <2>1. next' = "compile_and_execute" => diags = <<>> \/ Last(diags).severity # "ERROR"
    BY <1>4 DEF AfterValidation, Blocking, Repairable
  <2>2. next' \in {"compile_and_execute", "repair_spec"} => ~model_spec.mentions_leak
    BY <1>3, <1>4 DEF AfterValidation
  <2>3. next' = "finalize_report" => \E i \in DOMAIN diags : Blocking(diags[i])
    <3> SUFFICES ASSUME next' = "finalize_report"
                 PROVE  \E i \in DOMAIN diags : Blocking(diags[i])
      OBVIOUS
    <3>1. diags # <<>> /\ Blocking(Last(diags))
      BY <1>4 DEF AfterValidation
    <3>2. Len(diags) \in DOMAIN diags
      BY <1>2, <3>1
    <3> QED BY <3>1, <3>2 DEF Last
  <2>4. status' # "completed"
    BY DEF PendingNode, Step
  <2> QED BY <1>1, <1>4, <1>5, <2>1, <2>2, <2>3, <2>4 DEF PendingNode, Nodes
<1> QED BY <1>6, <1>7, <1>8, <1>9, <1>10 DEF GraphInv

(* Of an ARIMA specification the executor reports success or divergence. *)
LEMMA ExecuteArima ==
    ASSUME NEW spec \in ModelSpec, IsArima(spec)
    PROVE  ExecuteFit(CompilePlan(spec)) \in {"SUCCESS", "NUMERICAL_FAILURE"}
<1>1. CompilePlan(spec).operations[3] = "fit_arima"
  BY DEF CompilePlan, FitOperation, IsArima
<1> QED BY <1>1 DEF ExecuteFit, ApprovedOperations

(* compile_and_execute_node replaces the plan; divergence routes to repair, *)
(* success to the report.                                                   *)
LEMMA CompileAndExecuteInv ==
    ASSUME GraphInv, CompileAndExecute
    PROVE  GraphInv'
<1> USE DEF GraphInv
<1> DEFINE plan   == CompilePlan(model_spec)
           failed == ExecuteFit(plan) = "NUMERICAL_FAILURE"
           diverged == Diag("ERROR", "ARIMA_NON_CONVERGENCE", TRUE)
           diags  == IF failed THEN <<diverged>> ELSE diagnostics
           e1 == [event |-> "plan_compiled_and_executed", step |-> Len(trace_events)]
           e2 == [event |-> "numerical_failure_captured", step |-> Len(trace_events) + 1]
           more == IF failed THEN <<e2>> ELSE <<>>
<1>1. /\ Step("compile_and_execute", AfterExecution(diags))
      /\ execution_plan' = plan /\ diagnostics' = diags
      /\ trace_events' = trace_events \o <<e1>> \o more
      /\ UNCHANGED <<model_spec, repair_history, repair_attempts, status, errors,
                     invoking, outcome>>
  BY DEF CompileAndExecute, Continue
<1>2. model_spec \in ModelSpec /\ model_spec # None /\ IsArima(model_spec)
  BY <1>1 DEF Step, PendingNode, TypeOK, Nodes, CandidateShape
<1>3. plan \in ExecutionPlan /\ (~failed => ExecuteFit(plan) = "SUCCESS")
  BY <1>2, CompilePlanType, ExecuteArima
<1>4. diverged \in Diagnostic /\ Repairable(diverged)
  BY DEF Diag, Diagnostic, Severities, Codes, Repairable
<1>5. /\ e1 \in [event : Events, step : Nat] /\ e2 \in [event : Events, step : Nat]
      /\ trace_events \in Seq([event : Events, step : Nat])
  BY DEF TypeOK, Events
<1>6. trace_events' \in Seq([event : Events, step : Nat])
  <2> HIDE DEF plan, failed, diverged, diags, e1, e2
  <2>1. more \in Seq([event : Events, step : Nat])
    <3>1. /\ <<e2>> \in Seq([event : Events, step : Nat])
          /\ <<>> \in Seq([event : Events, step : Nat])
      BY <1>5
    <3>2. more = <<e2>> \/ more = <<>>
      OBVIOUS
    <3> HIDE DEF more
    <3> QED BY <3>1, <3>2
  <2>2. <<e1>> \in Seq([event : Events, step : Nat])
    BY <1>5
  <2> DEFINE log == trace_events \o <<e1>>
  <2>3. log \in Seq([event : Events, step : Nat])
    BY <1>5, <2>2
  <2>4. trace_events' = log \o more
    BY <1>1
  <2> HIDE DEF more, log
  <2> QED BY <2>1, <2>3, <2>4
<1>7. /\ next = "compile_and_execute" /\ next' = AfterExecution(diags)
      /\ ~model_spec.mentions_leak
      /\ diagnostics = <<>> \/ Last(diagnostics).severity # "ERROR"
  BY <1>1 DEF Step, PendingNode
<1> HIDE DEF diverged, failed
<1>8. diags \in Seq(Diagnostic)
  BY <1>4 DEF TypeOK
<1>9. /\ failed => next' = "repair_spec" /\ diags # <<>> /\ Last(diags) = diverged
      /\ ~failed => next' = "finalize_report"
  <2>1. Last(<<diverged>>) = diverged /\ <<diverged>> # <<>>
    BY DEF Last
  <2>2. CASE failed
    <3>1. diags = <<diverged>>
      BY <2>2
    <3> QED BY <1>4, <1>7, <2>1, <2>2, <3>1 DEF AfterExecution, Repairable
  <2>3. CASE ~failed
    BY <1>7, <2>3 DEF AfterExecution
  <2> QED BY <2>2, <2>3
<1>10. plan # None
  BY <1>3, NoneIsNoValue
<1> HIDE DEF plan, diags, e1, e2, more
<1>11. TypeOK'
  <2>1. AfterExecution(diags) \in Nodes \cup {"END"}
    BY DEF AfterExecution, Nodes
  <2>2. /\ next' \in Nodes \cup {"END"} /\ superstep' \in 0..RecursionLimit
        /\ user_query' \in Queries \cup {None} /\ invocations' \in 0..MaxInvocations
    BY <1>1, <2>1, StepType
  <2> QED BY <1>1, <1>3, <1>6, <1>8, <2>2 DEF TypeOK
<1>12. /\ RepairBudget' /\ (repair_attempts = Len(repair_history))'
       /\ LeakageNeverExecuted' /\ CandidateShape'
  BY <1>1, <1>7 DEF RepairBudget, LeakageNeverExecuted, CandidateShape
<1>13. status' # "completed"
  BY <1>1, <1>7 DEF PendingNode
<1>14. HonestReport'
  BY <1>13 DEF HonestReport
<1>15. RoutedOnFreshDiagnostics'
  BY <1>1, <1>4, <1>9 DEF RoutedOnFreshDiagnostics
<1>16. PendingNode'
  <2>1. ~failed => ExecuteFit(plan) = "SUCCESS" /\ plan = CompilePlan(model_spec)
    BY <1>3 DEF plan
  <2> QED BY <1>1, <1>2, <1>7, <1>9, <1>13, <2>1 DEF PendingNode, Nodes
<1> QED BY <1>11, <1>12, <1>14, <1>15, <1>16 DEF GraphInv

(* repair_spec_node either changes one thing within the budget, or records  *)
(* an error and changes nothing else.                                       *)
LEMMA RepairSpecInv ==
    ASSUME GraphInv, RepairSpec
    PROVE  GraphInv'
<1> USE DEF GraphInv
<1>1. /\ Step("repair_spec", "validate_spec") /\ RepairAttempt
      /\ UNCHANGED <<execution_plan, invoking, outcome>>
  BY DEF RepairSpec, Continue
<1>2. /\ model_spec \in ModelSpec /\ model_spec # None /\ IsArima(model_spec)
      /\ model_spec.dataset_id \in DOMAIN LocalDataRegistry
      /\ ~model_spec.mentions_leak
  BY <1>1 DEF Step, PendingNode, TypeOK, Nodes, CandidateShape
<1>3. diagnostics # <<>> /\ next = "repair_spec" /\ next' = "validate_spec"
  BY <1>1 DEF Step, RoutedOnFreshDiagnostics
<1>4. /\ next' \in Nodes \cup {"END"} /\ superstep' \in 0..RecursionLimit
      /\ user_query' \in Queries \cup {None} /\ invocations' \in 0..MaxInvocations
  <2>1. "validate_spec" \in Nodes \cup {"END"}
    BY DEF Nodes
  <2> QED BY <1>1, <2>1, StepType
<1>5. status # "completed" /\ user_query' = user_query
  BY <1>1 DEF Step, PendingNode
<1>6. CASE EscalateRepair
  <2>1. /\ UNCHANGED <<model_spec, diagnostics, repair_history, repair_attempts>>
        /\ status' = "failed" /\ errors' = errors + 1
        /\ trace_events' = Traced("repair_quota_exhausted_escalated")
    BY <1>6 DEF EscalateRepair
  <2>2. trace_events' \in Seq([event : Events, step : Nat])
    BY <2>1, TracedType DEF TypeOK, Events
  <2>3. TypeOK'
    BY <1>1, <1>4, <2>1, <2>2 DEF TypeOK
  <2>4. /\ RepairBudget' /\ (repair_attempts = Len(repair_history))'
        /\ LeakageNeverExecuted' /\ CandidateShape'
    BY <1>1, <2>1 DEF RepairBudget, LeakageNeverExecuted, CandidateShape
  <2>5. HonestReport' /\ RoutedOnFreshDiagnostics'
    BY <1>3, <2>1 DEF HonestReport, RoutedOnFreshDiagnostics
  <2>6. PendingNode'
    BY <1>2, <1>3, <2>1 DEF PendingNode, Nodes
  <2> QED BY <2>3, <2>4, <2>5, <2>6
<1>7. CASE ApplyRepair
  <2> DEFINE d == Last(diagnostics)
             spec == RepairedSpec(model_spec, d)
             proposal == Proposal(model_spec, d, repair_history)
  <2>1. /\ Len(repair_history) + 1 <= MaxRepairAttempts
        /\ model_spec' = spec
        /\ repair_attempts' = repair_attempts + 1
        /\ repair_history' = Append(repair_history, proposal)
        /\ diagnostics' = <<>>
        /\ trace_events' = Traced("spec_repaired_and_degraded")
        /\ UNCHANGED <<status, errors>>
    BY <1>7 DEF ApplyRepair, Repairs
  <2>2. d \in Diagnostic
    BY <1>3 DEF TypeOK, Last
  <2>3. /\ spec \in ModelSpec /\ IsArima(spec)
        /\ spec.dataset_id = model_spec.dataset_id
        /\ spec.forecast_horizon = model_spec.forecast_horizon
        /\ spec.mentions_leak = model_spec.mentions_leak
    BY <1>2, <2>2, RepairedSpecType
  <2>4. proposal \in RepairProposal /\ repair_history \in Seq(RepairProposal)
    BY <1>2, <2>2, ProposalType DEF TypeOK
  <2>5. spec # None
    BY <2>3, NoneIsNoValue
  <2>6. trace_events' \in Seq([event : Events, step : Nat])
    BY <2>1, TracedType DEF TypeOK, Events
  <2> HIDE DEF d, spec, proposal
  <2>7. /\ repair_history' \in Seq(RepairProposal)
        /\ Len(repair_history') = Len(repair_history) + 1
    BY <2>1, <2>4
  <2>8. TypeOK'
    BY <1>1, <1>4, <2>1, <2>3, <2>6, <2>7 DEF TypeOK
  <2>9. RepairBudget' /\ (repair_attempts = Len(repair_history))'
    BY <2>1, <2>7 DEF RepairBudget, TypeOK
  <2>10. LeakageNeverExecuted' /\ CandidateShape'
    BY <1>2, <2>1, <2>3 DEF LeakageNeverExecuted, CandidateShape
  <2>11. HonestReport' /\ RoutedOnFreshDiagnostics'
    BY <1>3, <1>5, <2>1 DEF HonestReport, RoutedOnFreshDiagnostics
  <2>12. PendingNode'
    BY <1>3, <1>5, <2>1, <2>5 DEF PendingNode, Nodes
  <2> QED BY <2>8, <2>9, <2>10, <2>11, <2>12
<1> QED BY <1>1, <1>3, <1>6, <1>7 DEF RepairAttempt

(* finalize_report_node calls a run completed only when nothing rejects it. *)
LEMMA FinalizeReportInv ==
    ASSUME GraphInv, FinalizeReport
    PROVE  GraphInv'
<1> USE DEF GraphInv
<1>1. /\ Step("finalize_report", "END") /\ next = "finalize_report" /\ next' = "END"
      /\ status' = IF Rejected THEN "failed" ELSE "completed"
      /\ trace_events' = Traced("workflow_finalized")
      /\ invoking' = FALSE /\ outcome' = "returned"
      /\ UNCHANGED <<model_spec, execution_plan, diagnostics, repair_history,
                     repair_attempts, errors>>
  BY DEF FinalizeReport, Step
<1>2. trace_events' \in Seq([event : Events, step : Nat])
  BY <1>1, TracedType DEF TypeOK, Events
<1>3. TypeOK'
  BY <1>1, <1>2, StepType DEF TypeOK
<1>4. /\ RepairBudget' /\ (repair_attempts = Len(repair_history))'
      /\ LeakageNeverExecuted' /\ CandidateShape' /\ RoutedOnFreshDiagnostics'
  BY <1>1 DEF RepairBudget, LeakageNeverExecuted, CandidateShape, RoutedOnFreshDiagnostics
<1>5. HonestReport'
  <2>1. status' = "completed" => ~Rejected
    BY <1>1
  <2>2. ~Rejected => errors = 0
    BY DEF Rejected, TypeOK
  <2>3. ~Rejected => /\ execution_plan = CompilePlan(model_spec)
                     /\ ExecuteFit(execution_plan) = "SUCCESS"
                     /\ ~model_spec.mentions_leak
    BY <1>1 DEF Rejected, PendingNode
  <2> QED BY <1>1, <2>1, <2>2, <2>3 DEF HonestReport
<1>6. PendingNode'
  BY <1>1 DEF PendingNode, Nodes
<1> QED BY <1>3, <1>4, <1>5, <1>6

(* Every step of the graph preserves the inductive invariant. *)
LEMMA NextInv == GraphInv /\ [Next]_vars => GraphInv'
<1> SUFFICES ASSUME GraphInv, [Next]_vars PROVE GraphInv'
  OBVIOUS
<1>1. CASE \E query \in Queries : RunWorkflow(query)
  BY <1>1, InvokeInv
<1>2. CASE ResumeWorkflow
  BY <1>2, InvokeInv
<1>3. CASE GenerateSpec
  BY <1>3, GenerateSpecInv
<1>4. CASE ValidateSpec
  BY <1>4, ValidateSpecInv
<1>5. CASE CompileAndExecute
  BY <1>5, CompileAndExecuteInv
<1>6. CASE RepairSpec
  BY <1>6, RepairSpecInv
<1>7. CASE FinalizeReport
  BY <1>7, FinalizeReportInv
<1>8. CASE ExceedRecursionLimit \/ Crash
  BY <1>8, AbortInv
<1>9. CASE UNCHANGED vars
  BY <1>9 DEF vars, thread, control, GraphInv, TypeOK, RepairBudget,
              RoutedOnFreshDiagnostics, LeakageNeverExecuted, HonestReport,
              CandidateShape, PendingNode
<1> QED BY <1>1, <1>2, <1>3, <1>4, <1>5, <1>6, <1>7, <1>8, <1>9 DEF Next, RunNode

(* The inductive invariant holds in every reachable state of a thread. *)
THEOREM GraphInvariance == Spec => []GraphInv
BY InitInv, NextInv, PTL DEF Spec

-----------------------------------------------------------------------------
(* The results *)

(* Every variable of the graph keeps its type: no run, resumption or crash  *)
(* leaves the thread in a state a node cannot start from.                   *)
THEOREM TypeCorrect == Spec => []TypeOK
<1>1. GraphInv => TypeOK
  BY DEF GraphInv
<1> QED BY <1>1, GraphInvariance, PTL

(* A thread is never repaired more often than the engine's budget allows,   *)
(* over all its runs, resumptions and crashes.                              *)
THEOREM RepairsAreBounded == Spec => []RepairBudget
<1>1. GraphInv => RepairBudget
  BY DEF GraphInv
<1> QED BY <1>1, GraphInvariance, PTL

(* The node that executes and the node that repairs act on findings about   *)
(* the current specification.                                               *)
THEOREM DiagnosticsAreFresh == Spec => []RoutedOnFreshDiagnostics
<1>1. GraphInv => RoutedOnFreshDiagnostics
  BY DEF GraphInv
<1> QED BY <1>1, GraphInvariance, PTL

(* A specification that mentions a leak is never compiled or executed.      *)
THEOREM LeakageIsBlocked == Spec => []LeakageNeverExecuted
<1>1. GraphInv => LeakageNeverExecuted
  BY DEF GraphInv
<1> QED BY <1>1, GraphInvariance, PTL

(* A run is reported completed only on a converged plan of its current      *)
(* specification and on a thread without errors.                            *)
THEOREM ReportIsHonest == Spec => []HonestReport
<1>1. GraphInv => HonestReport
  BY DEF GraphInv
<1> QED BY <1>1, GraphInvariance, PTL
-----------------------------------------------------------------------------
(* The audit log: what one more entry does to the positions of an event *)

Log == Seq([event : Events, step : Nat])

Entries(log, event) == {i \in DOMAIN log : log[i].event = event}

(* The log numbers its entries from zero, and has as many of the two kinds  *)
(* as there were repairs and refusals.                                      *)
Audited(log, repairs, refusals) ==
    /\ Cardinality(Entries(log, "spec_repaired_and_degraded")) = repairs
    /\ Cardinality(Entries(log, "repair_quota_exhausted_escalated")) = refusals
    /\ \A i \in DOMAIN log : log[i].step = i - 1

(* An entry adds its position to those of its event and to no other. *)
LEMMA OneMoreEntry ==
    ASSUME NEW log \in Log, NEW event \in Events, NEW n \in Nat, NEW other
    PROVE  LET longer == Append(log, [event |-> event, step |-> n])
               count  == Cardinality(Entries(log, other))
           IN  /\ longer \in Log
               /\ count \in Nat
               /\ Cardinality(Entries(longer, other)) = IF event = other THEN count + 1 ELSE count
<1> DEFINE entry  == [event |-> event, step |-> n]
           longer == Append(log, entry)
           before == Entries(log, other)
           new    == Len(log) + 1
<1>1. entry \in [event : Events, step : Nat] /\ entry.event = event
  OBVIOUS
<1> HIDE DEF entry
<1>2. /\ longer \in Log /\ DOMAIN longer = 1..new /\ DOMAIN log = 1..Len(log)
      /\ Len(log) \in Nat /\ longer[new] = entry
      /\ \A i \in 1..Len(log) : longer[i] = log[i]
  BY <1>1 DEF Log
<1> HIDE DEF longer, new
<1>3. new = Len(log) + 1
  BY DEF new
<1>4. /\ new \notin before
      /\ Entries(longer, other) = IF event = other THEN before \cup {new} ELSE before
  BY <1>1, <1>2, <1>3 DEF Entries
<1>5. IsFiniteSet(before) /\ Cardinality(before) \in Nat
  <2>1. IsFiniteSet(1..Len(log)) /\ before \in SUBSET (1..Len(log))
    BY <1>2, FS_Interval DEF Entries
  <2> QED BY <2>1, FS_Subset, FS_CardinalityType
<1>6. Cardinality(before \cup {new}) = Cardinality(before) + 1
  BY <1>4, <1>5, FS_AddElement
<1> QED BY <1>2, <1>4, <1>5, <1>6 DEF longer, entry

(* A log stays audited when an entry with the next number is appended. *)
LEMMA AuditOneMore ==
    ASSUME NEW log \in Log, NEW repairs, NEW refusals, Audited(log, repairs, refusals),
           NEW event \in Events
    PROVE  LET longer == Append(log, [event |-> event, step |-> Len(log)])
           IN  /\ longer \in Log /\ Len(longer) = Len(log) + 1
               /\ event = "spec_repaired_and_degraded" => Audited(longer, repairs + 1, refusals)
               /\ event = "repair_quota_exhausted_escalated" => Audited(longer, repairs, refusals + 1)
               /\ event \notin {"spec_repaired_and_degraded", "repair_quota_exhausted_escalated"}
                     => Audited(longer, repairs, refusals)
<1> DEFINE longer == Append(log, [event |-> event, step |-> Len(log)])
<1>1. Len(log) \in Nat
  BY DEF Log
<1>2. \A other \in {"spec_repaired_and_degraded", "repair_quota_exhausted_escalated"} :
         Cardinality(Entries(longer, other)) =
           IF event = other THEN Cardinality(Entries(log, other)) + 1
                            ELSE Cardinality(Entries(log, other))
  BY <1>1, OneMoreEntry
<1>3. \A i \in DOMAIN longer : longer[i].step = i - 1
  <2> DEFINE entry == [event |-> event, step |-> Len(log)]
  <2>1. entry \in [event : Events, step : Nat] /\ entry.step = Len(log)
    BY <1>1
  <2> HIDE DEF entry
  <2>2. \A i \in DOMAIN longer :
           IF i = Len(log) + 1 THEN longer[i] = entry
                               ELSE i \in DOMAIN log /\ longer[i] = log[i]
    BY <2>1 DEF Log, entry
  <2>3. \A i \in DOMAIN log : log[i].step = i - 1
    BY DEF Audited
  <2>4. Len(log) = (Len(log) + 1) - 1
    BY <1>1
  <2> HIDE DEF longer
  <2> QED BY <2>1, <2>2, <2>3, <2>4
<1>4. longer \in Log /\ Len(longer) = Len(log) + 1
  <2>1. [event |-> event, step |-> Len(log)] \in [event : Events, step : Nat]
    BY <1>1
  <2> QED BY <2>1 DEF Log
<1> HIDE DEF longer
<1>5. /\ event = "spec_repaired_and_degraded" => Audited(longer, repairs + 1, refusals)
      /\ event = "repair_quota_exhausted_escalated" => Audited(longer, repairs, refusals + 1)
      /\ event \notin {"spec_repaired_and_degraded", "repair_quota_exhausted_escalated"}
                     => Audited(longer, repairs, refusals)
  BY <1>2, <1>3 DEF Audited
<1> QED BY <1>4, <1>5, Zenon DEF longer

(* Repairs are numbered in their order. *)
Numbered(history) == \A i \in DOMAIN history : history[i].attempt_number = i

LEMMA AuditParts ==
    ASSUME repair_attempts = Len(repair_history),
           Audited(trace_events, repair_attempts, errors), Numbered(repair_history)
    PROVE  AuditLogAgrees
BY Zenon DEF AuditLogAgrees, Occurrences, Audited, Entries, Numbered

LEMMA PartsOfAudit ==
    ASSUME AuditLogAgrees
    PROVE  /\ repair_attempts = Len(repair_history)
           /\ Audited(trace_events, repair_attempts, errors)
           /\ Numbered(repair_history)
BY Zenon DEF AuditLogAgrees, Occurrences, Audited, Entries, Numbered

(* What the engine proposes for the routed diagnostic is a well-formed record. *)
LEMMA ProposedRepair ==
    ASSUME GraphInv, RepairSpec
    PROVE  /\ Last(diagnostics) \in Diagnostic
           /\ repair_history \in Seq(RepairProposal)
           /\ Proposal(model_spec, Last(diagnostics), repair_history) \in RepairProposal
<1>1. model_spec \in ModelSpec /\ IsArima(model_spec) /\ diagnostics # <<>>
  BY DEF GraphInv, RepairSpec, Step, TypeOK, PendingNode, CandidateShape,
         RoutedOnFreshDiagnostics, Nodes
<1>2. Last(diagnostics) \in Diagnostic /\ repair_history \in Seq(RepairProposal)
  BY <1>1 DEF GraphInv, TypeOK, Last
<1> QED BY <1>1, <1>2, ProposalType

LEMMA InitAudit == Init => AuditLogAgrees
<1> SUFFICES ASSUME Init PROVE AuditLogAgrees
  OBVIOUS
<1>1. /\ trace_events = <<>> /\ repair_history = <<>> /\ repair_attempts = 0 /\ errors = 0
      /\ DOMAIN trace_events = {} /\ DOMAIN repair_history = {} /\ Len(repair_history) = 0
  BY DEF Init
<1>2. Audited(trace_events, repair_attempts, errors)
  <2>1. \A event : Entries(trace_events, event) = {}
    BY <1>1 DEF Entries
  <2> QED BY <1>1, <2>1, FS_EmptySet DEF Audited
<1>3. Numbered(repair_history)
  BY <1>1 DEF Numbered
<1> QED BY <1>1, <1>2, <1>3, AuditParts

(* A node logs one event, or two when the fit diverges; repairs and refused *)
(* repairs, and no other event, are counted (nodes.py:82-160).              *)
LEMMA NextAudit ==
    ASSUME GraphInv, AuditLogAgrees, [Next]_vars
    PROVE  AuditLogAgrees'
<1> DEFINE counted == {"spec_repaired_and_degraded", "repair_quota_exhausted_escalated"}
<1>1. /\ trace_events \in Log
      /\ Audited(trace_events, repair_attempts, errors)
      /\ repair_attempts = Len(repair_history) /\ Numbered(repair_history)
  BY PartsOfAudit, Zenon DEF GraphInv, TypeOK, Log
<1>2. SUFFICES /\ repair_attempts' = Len(repair_history')
               /\ Audited(trace_events', repair_attempts', errors')
               /\ Numbered(repair_history')
  BY Zenon DEF AuditLogAgrees, Occurrences, Audited, Entries, Numbered
<1>3. \/ UNCHANGED <<repair_history, repair_attempts, errors, trace_events>>
      \/ /\ UNCHANGED <<repair_history, repair_attempts, errors>>
         /\ \E event \in Events \ counted : trace_events' = Traced(event)
      \/ CompileAndExecute
      \/ RepairSpec /\ EscalateRepair
      \/ RepairSpec /\ ApplyRepair
  BY DEF Next, RunNode, vars, thread, control, RunWorkflow, ResumeWorkflow, GenerateSpec,
         ValidateSpec, RepairSpec, RepairAttempt, FinalizeReport, ExceedRecursionLimit,
         Crash, Events
<1>4. CASE UNCHANGED <<repair_history, repair_attempts, errors, trace_events>>
  BY <1>1, <1>4
<1>5. CASE /\ UNCHANGED <<repair_history, repair_attempts, errors>>
           /\ \E event \in Events \ counted : trace_events' = Traced(event)
  <2>1. PICK event \in Events \ counted : trace_events' = Traced(event)
    BY <1>5
  <2> QED BY <1>1, <1>5, <2>1, AuditOneMore DEF Traced
<1>6. CASE CompileAndExecute
  <2> DEFINE e1 == [event |-> "plan_compiled_and_executed", step |-> Len(trace_events)]
             e2 == [event |-> "numerical_failure_captured", step |-> Len(trace_events) + 1]
             one == Append(trace_events, e1)
  <2>1. UNCHANGED <<repair_history, repair_attempts, errors>>
    BY <1>6 DEF CompileAndExecute
  <2>2. \/ trace_events' = trace_events \o <<e1>> \o <<e2>>
        \/ trace_events' = trace_events \o <<e1>> \o <<>>
    BY <1>6, Zenon DEF CompileAndExecute
  <2>3. e1 \in [event : Events, step : Nat] /\ e2 \in [event : Events, step : Nat]
    BY <1>1 DEF Log, Events
  <2>4. /\ one \in Log /\ Len(one) = Len(trace_events) + 1
        /\ Audited(one, repair_attempts, errors)
    BY <1>1, AuditOneMore DEF Events
  <2>5. trace_events' = Append(one, e2) \/ trace_events' = one
    <3> HIDE DEF e1, e2
    <3>1. trace_events \o <<e1>> = one
      BY <1>1, <2>3 DEF Log
    <3> HIDE DEF one
    <3>2. one \o <<e2>> = Append(one, e2) /\ one \o <<>> = one
      BY <2>3, <2>4 DEF Log
    <3> QED BY <2>2, <3>1, <3>2
  <2>6. Audited(Append(one, e2), repair_attempts, errors)
    <3> HIDE DEF one
    <3> QED BY <2>4, AuditOneMore DEF Events
  <2> QED BY <1>1, <2>1, <2>4, <2>5, <2>6
<1>7. CASE RepairSpec /\ EscalateRepair
  <2>1. /\ UNCHANGED <<repair_history, repair_attempts>> /\ errors' = errors + 1
        /\ trace_events' = Traced("repair_quota_exhausted_escalated")
    BY <1>7 DEF EscalateRepair
  <2>2. Audited(trace_events', repair_attempts, errors + 1)
    BY <1>1, <2>1, AuditOneMore DEF Traced, Events
  <2> QED BY <1>1, <2>1, <2>2
<1>8. CASE RepairSpec /\ ApplyRepair
  <2> DEFINE proposal == Proposal(model_spec, Last(diagnostics), repair_history)
  <2>1. /\ repair_attempts' = repair_attempts + 1 /\ errors' = errors
        /\ repair_history' = Append(repair_history, proposal)
        /\ trace_events' = Traced("spec_repaired_and_degraded")
    BY <1>8 DEF ApplyRepair
  <2>2. Audited(trace_events', repair_attempts + 1, errors)
    BY <1>1, <2>1, AuditOneMore DEF Traced, Events
  <2>3. proposal.attempt_number = Len(repair_history) + 1
    BY DEF Proposal
  <2>4. proposal \in RepairProposal /\ repair_history \in Seq(RepairProposal)
    BY <1>8, ProposedRepair
  <2> HIDE DEF proposal
  <2>5. /\ Len(repair_history') = Len(repair_history) + 1
        /\ \A i \in DOMAIN repair_history' :
             IF i = Len(repair_history) + 1 THEN repair_history'[i] = proposal
             ELSE i \in DOMAIN repair_history /\ repair_history'[i] = repair_history[i]
    BY <2>1, <2>4
  <2>6. Numbered(repair_history')
    BY <1>1, <2>3, <2>5 DEF Numbered
  <2> QED BY <1>1, <2>1, <2>2, <2>5, <2>6
<1> QED BY <1>3, <1>4, <1>5, <1>6, <1>7, <1>8

(* The counter of repairs, their history and the log agree about every      *)
(* repair, refusal and step number, over all runs of a thread               *)
(* (nodes.py:29, 109, 121).                                                 *)
THEOREM LogIsAudited == Spec => []AuditLogAgrees
<1>1. GraphInv /\ AuditLogAgrees /\ [Next]_vars => AuditLogAgrees'
  BY NextAudit
<1> QED BY <1>1, InitAudit, GraphInvariance, PTL DEF Spec

-----------------------------------------------------------------------------
(* Termination by transition: what the nodes of one invocation may rely on  *)
(* until the budget is spent                                                *)

(* Of a generated or repaired candidate the validator has only one thing to *)
(* say that can be repaired: that the window does not fit the sample.       *)
CandidateValues ==
    model_spec # None =>
        /\ model_spec.frequency = "monthly"
        /\ \A i \in 1..3 : model_spec.model.order[i] >= 0

(* The diagnostic that is routed to repair is one the engine has a strategy *)
(* for.                                                                     *)
KnownRemedy ==
    next = "repair_spec" =>
        Last(diagnostics).code \in {"ARIMA_NON_CONVERGENCE", "INSUFFICIENT_SAMPLE"}

(* How many nodes precede this one between two repairs, at most *)
NodesBefore(node) ==
    IF node = "generate_spec" THEN 0
    ELSE IF node = "validate_spec" THEN 1
    ELSE IF node = "compile_and_execute" THEN 2 ELSE 3

(* Every repair buys an invocation at most three super-steps. *)
Ranked ==
    invoking /\ Len(repair_history) < MaxRepairAttempts =>
        superstep <= 3 * Len(repair_history) + NodesBefore(next)

TerminationInv ==
    GraphInv /\ CandidateValues /\ KnownRemedy /\ Ranked /\ RecursionOnlyWhenExhausted

(* No finding in the list can be repaired, except by a smaller window. *)
OnlyWindowRepairs(findings) ==
    /\ findings \in Seq(Diagnostic)
    /\ \A i \in DOMAIN findings :
         Repairable(findings[i]) => findings[i].code = "INSUFFICIENT_SAMPLE"

LEMMA JoinedFindings ==
    ASSUME NEW s, NEW t, OnlyWindowRepairs(s), OnlyWindowRepairs(t)
    PROVE  OnlyWindowRepairs(s \o t)
<1>1. s \in Seq(Diagnostic) /\ t \in Seq(Diagnostic)
  BY DEF OnlyWindowRepairs
<1>2. /\ s \o t \in Seq(Diagnostic)
      /\ \A i \in DOMAIN (s \o t) :
           \/ i \in DOMAIN s /\ (s \o t)[i] = s[i]
           \/ i - Len(s) \in DOMAIN t /\ (s \o t)[i] = t[i - Len(s)]
  BY <1>1
<1> QED BY <1>2 DEF OnlyWindowRepairs

LEMMA ReportedFinding ==
    ASSUME NEW found \in BOOLEAN, NEW d \in Diagnostic,
           found /\ Repairable(d) => d.code = "INSUFFICIENT_SAMPLE"
    PROVE  OnlyWindowRepairs(Report(found, d))
<1>1. CASE found
  <2>1. Report(found, d) = <<d>>
    BY <1>1 DEF Report
  <2>2. <<d>> \in Seq(Diagnostic) /\ \A i \in DOMAIN <<d>> : <<d>>[i] = d
    OBVIOUS
  <2> QED BY <1>1, <2>1, <2>2 DEF OnlyWindowRepairs
<1>2. CASE ~found
  <2>1. Report(found, d) = <<>>
    BY <1>2 DEF Report
  <2> QED BY <2>1 DEF OnlyWindowRepairs
<1> QED BY <1>1, <1>2

(* A candidate's only repairable finding is that its window is too large.   *)
LEMMA WindowIsTheRemedy ==
    ASSUME NEW spec \in ModelSpec, IsArima(spec),
           spec.dataset_id \in DOMAIN LocalDataRegistry,
           spec.frequency = "monthly",
           \A i \in 1..3 : spec.model.order[i] >= 0
    PROVE  OnlyWindowRepairs(AllDiagnostics(spec))
<1> DEFINE rows == DatasetRows(spec)
           c1 == spec.frequency # LocalDataRegistry[spec.dataset_id].frequency
           c2 == /\ spec.model.family = "ets"
                 /\ spec.model.seasonal # "none"
                 /\ ~spec.model.has_period
           c3 == IsArima(spec) /\ \E i \in 1..3 : spec.model.order[i] < 0
           c4 == IsArima(spec) /\ OrderSum(spec) > 12
           c5 == ~FitsSample(spec)
           c6 == spec.mentions_leak
           c7 == spec.dataset_id \in TraversalIds
           c8 == IsArima(spec) /\ 2 * spec.forecast_horizon > spec.initial_window
           d5 == [Diag("ERROR", "INSUFFICIENT_SAMPLE", TRUE) EXCEPT !.rows = rows]
<1>1. ~c1 /\ ~c2
  BY DEF LocalDataRegistry, IsArima
<1>2. ~c3
  <2>1. PICK p \in Int, d \in Int, q \in Int : spec.model.order = <<p, d, q>>
    BY DEF IsArima, ModelSpec, ARIMASpec, ETSSpec, SeasonalNaiveSpec
  <2>2. \A i \in 1..3 : spec.model.order[i] \in Int
    BY <2>1
  <2> QED BY <2>2
<1>3. rows \in Nat /\ c6 \in BOOLEAN
  BY DEF DatasetRows, LocalDataRegistry, ModelSpec
<1>4. /\ c1 \in BOOLEAN /\ c2 \in BOOLEAN /\ c3 \in BOOLEAN /\ c4 \in BOOLEAN
      /\ c5 \in BOOLEAN /\ c7 \in BOOLEAN /\ c8 \in BOOLEAN
  OBVIOUS
<1> HIDE DEF c1, c2, c3, c4, c5, c6, c7, c8, rows
<1>5. /\ Diag("ERROR", "FREQUENCY_MISMATCH", TRUE) \in Diagnostic
      /\ Diag("ERROR", "INVALID_SEASONAL_PERIOD", TRUE) \in Diagnostic
      /\ Diag("ERROR", "SCHEMA_VALIDATION_FAILURE", TRUE) \in Diagnostic
  BY DEF Diag, Diagnostic, Severities, Codes
<1>6. /\ Diag("WARNING", "MODEL_COMPLEXITY_EXCESSIVE", TRUE) \in Diagnostic
      /\ ~Repairable(Diag("WARNING", "MODEL_COMPLEXITY_EXCESSIVE", TRUE))
      /\ Diag("ERROR", "LEAKAGE_DETECTED", FALSE) \in Diagnostic
      /\ ~Repairable(Diag("ERROR", "LEAKAGE_DETECTED", FALSE))
      /\ Diag("ERROR", "UNAUTHORIZED_OPERATION", FALSE) \in Diagnostic
      /\ ~Repairable(Diag("ERROR", "UNAUTHORIZED_OPERATION", FALSE))
      /\ Diag("WARNING", "BACKTEST_WINDOW_INVALID", TRUE) \in Diagnostic
      /\ ~Repairable(Diag("WARNING", "BACKTEST_WINDOW_INVALID", TRUE))
  BY DEF Diag, Diagnostic, Severities, Codes, Repairable
<1>7. d5 \in Diagnostic /\ d5.code = "INSUFFICIENT_SAMPLE"
  BY <1>3 DEF Diag, Diagnostic, Severities, Codes
<1> DEFINE s1 == Report(c1, Diag("ERROR", "FREQUENCY_MISMATCH", TRUE))
           s2 == Report(c2, Diag("ERROR", "INVALID_SEASONAL_PERIOD", TRUE))
           s3 == Report(c3, Diag("ERROR", "SCHEMA_VALIDATION_FAILURE", TRUE))
           s4 == Report(c4, Diag("WARNING", "MODEL_COMPLEXITY_EXCESSIVE", TRUE))
           s5 == Report(c5, d5)
           s6 == Report(c6, Diag("ERROR", "LEAKAGE_DETECTED", FALSE))
           s7 == Report(c7, Diag("ERROR", "UNAUTHORIZED_OPERATION", FALSE))
           s8 == Report(c8, Diag("WARNING", "BACKTEST_WINDOW_INVALID", TRUE))
<1> HIDE DEF d5
<1>8. /\ OnlyWindowRepairs(s1) /\ OnlyWindowRepairs(s2) /\ OnlyWindowRepairs(s3)
      /\ OnlyWindowRepairs(s4) /\ OnlyWindowRepairs(s5) /\ OnlyWindowRepairs(s6)
      /\ OnlyWindowRepairs(s7) /\ OnlyWindowRepairs(s8)
  BY <1>1, <1>2, <1>3, <1>4, <1>5, <1>6, <1>7, ReportedFinding
<1> HIDE DEF s1, s2, s3, s4, s5, s6, s7, s8
<1>9. OnlyWindowRepairs(s1 \o s2 \o s3 \o s4 \o s5)
  BY <1>8, JoinedFindings, Zenon
<1>10. OnlyWindowRepairs(s6 \o s7 \o s8)
  BY <1>8, JoinedFindings, Zenon
<1>11. ValidateDomain(spec) = s1 \o s2 \o s3 \o s4 \o s5
  BY Zenon DEF ValidateDomain, s1, s2, s3, s4, s5, d5, c1, c2, c3, c4, c5, rows
<1>12. AnalyzeSpec(spec) = s6 \o s7 \o s8
  BY Zenon DEF AnalyzeSpec, s6, s7, s8, c6, c7, c8
<1> QED BY <1>9, <1>10, <1>11, <1>12, JoinedFindings, Zenon DEF AllDiagnostics

LEMMA GeneratedValues ==
    ASSUME NEW query \in Queries
    PROVE  /\ GeneratedSpec(query).frequency = "monthly"
           /\ \A i \in 1..3 : GeneratedSpec(query).model.order[i] >= 0
<1> DEFINE first == IF query.high_order THEN 4 ELSE 1
<1>1. GeneratedSpec(query).frequency = "monthly"
      /\ GeneratedSpec(query).model.order = <<first, 0, 4>>
  BY DEF GeneratedSpec, WrapCandidate
<1>2. first \in {1, 4}
  OBVIOUS
<1> HIDE DEF first
<1>3. \A i \in 1..3 : <<first, 0, 4>>[i] \in {0, 1, 4}
  BY <1>2
<1> QED BY <1>1, <1>3

LEMMA RepairedValues ==
    ASSUME NEW spec \in ModelSpec, IsArima(spec), NEW d \in Diagnostic,
           \A i \in 1..3 : spec.model.order[i] >= 0
    PROVE  /\ RepairedSpec(spec, d).frequency = spec.frequency
           /\ \A i \in 1..3 : RepairedSpec(spec, d).model.order[i] >= 0
<1>1. spec.model \in ARIMASpec
  BY DEF IsArima, ModelSpec, ARIMASpec, ETSSpec, SeasonalNaiveSpec
<1>2. CASE CanReduceOrder(spec, d)
  <2>1. RepairedSpec(spec, d) = [spec EXCEPT !.model = [spec.model EXCEPT !.order = ReducedOrder(spec)]]
    BY <1>2 DEF RepairedSpec, ModelSpec
  <2>2. RepairedSpec(spec, d).frequency = spec.frequency
        /\ RepairedSpec(spec, d).model.order = ReducedOrder(spec)
    BY <1>1, <2>1 DEF ModelSpec, ARIMASpec
  <2>3. \A i \in 1..3 : ReducedOrder(spec)[i] = 1 \/ ReducedOrder(spec)[i] = spec.model.order[i]
    BY DEF ReducedOrder
  <2> QED BY <2>2, <2>3
<1>3. CASE ~CanReduceOrder(spec, d)
  <2>1. RepairedSpec(spec, d) = [spec EXCEPT !.initial_window = ContractedWindow(spec, d.rows)]
    BY <1>3 DEF RepairedSpec
  <2> QED BY <2>1 DEF ModelSpec
<1> QED BY <1>2, <1>3

LEMMA InitTermination == Init => TerminationInv
<1> SUFFICES ASSUME Init PROVE TerminationInv
  OBVIOUS
<1>1. CandidateValues /\ KnownRemedy /\ Ranked /\ RecursionOnlyWhenExhausted
  BY DEF Init, CandidateValues, KnownRemedy, Ranked, RecursionOnlyWhenExhausted
<1> QED BY <1>1, InitInv DEF TerminationInv

(* The candidate is replaced by generate_spec and repair_spec only. *)
LEMMA CandidateStep ==
    ASSUME TerminationInv, [Next]_vars
    PROVE  CandidateValues'
<1> USE DEF TerminationInv
<1>1. \/ model_spec' = model_spec
      \/ GenerateSpec
      \/ RepairSpec /\ ApplyRepair
  BY DEF Next, RunNode, vars, thread, control, RunWorkflow, ResumeWorkflow, ValidateSpec,
         CompileAndExecute, RepairSpec, RepairAttempt, EscalateRepair, FinalizeReport,
         ExceedRecursionLimit, Crash
<1>2. CASE model_spec' = model_spec
  BY <1>2 DEF CandidateValues
<1>3. CASE GenerateSpec
  <2>1. model_spec' = GeneratedSpec(user_query) /\ user_query \in Queries
    BY <1>3 DEF GenerateSpec, Step, GraphInv, PendingNode
  <2> QED BY <2>1, GeneratedValues DEF CandidateValues
<1>4. CASE RepairSpec /\ ApplyRepair
  <2>1. /\ model_spec \in ModelSpec /\ IsArima(model_spec) /\ model_spec # None
        /\ Last(diagnostics) \in Diagnostic
    BY <1>4, ProposedRepair DEF RepairSpec, Step, GraphInv, TypeOK, PendingNode,
       CandidateShape, Nodes
  <2>2. model_spec' = RepairedSpec(model_spec, Last(diagnostics))
    BY <1>4 DEF ApplyRepair
  <2> QED BY <2>1, <2>2, RepairedValues DEF CandidateValues
<1> QED BY <1>1, <1>2, <1>3, <1>4

(* What is routed to repair is a divergence or a window that does not fit.  *)
LEMMA RemedyStep ==
    ASSUME TerminationInv, [Next]_vars
    PROVE  KnownRemedy'
<1> USE DEF TerminationInv
<1>1. SUFFICES ASSUME next' = "repair_spec"
               PROVE  Last(diagnostics').code \in {"ARIMA_NON_CONVERGENCE", "INSUFFICIENT_SAMPLE"}
  BY DEF KnownRemedy, Last
<1>2. \/ next' = next /\ diagnostics' = diagnostics
      \/ ValidateSpec
      \/ CompileAndExecute
  BY <1>1 DEF Next, RunNode, vars, thread, control, RunWorkflow, ResumeWorkflow, Invoke, Step,
         GenerateSpec, RepairSpec, FinalizeReport, ExceedRecursionLimit, Crash
<1>3. CASE next' = next /\ diagnostics' = diagnostics
  BY <1>1, <1>3 DEF KnownRemedy
<1>4. CASE ValidateSpec
  <2> DEFINE diags == AllDiagnostics(model_spec)
  <2>1. /\ model_spec \in ModelSpec /\ IsArima(model_spec) /\ model_spec # None
        /\ model_spec.dataset_id \in DOMAIN LocalDataRegistry
    BY <1>4 DEF ValidateSpec, Step, GraphInv, TypeOK, PendingNode, CandidateShape, Nodes
  <2>2. OnlyWindowRepairs(diags)
    BY <2>1, WindowIsTheRemedy DEF CandidateValues
  <2>3. diagnostics' = diags /\ next' = AfterValidation(diags)
    BY <1>4 DEF ValidateSpec, Step
  <2> HIDE DEF diags
  <2>4. diags # <<>> /\ Repairable(Last(diags))
    BY <1>1, <2>3 DEF AfterValidation
  <2>5. Len(diags) \in DOMAIN diags
    BY <2>2, <2>4 DEF OnlyWindowRepairs
  <2> QED BY <2>2, <2>3, <2>4, <2>5 DEF OnlyWindowRepairs, Last
<1>5. CASE CompileAndExecute
  <2> DEFINE diverged == Diag("ERROR", "ARIMA_NON_CONVERGENCE", TRUE)
  <2>1. \/ diagnostics' = <<diverged>>
        \/ diagnostics' = diagnostics /\ next' = AfterExecution(diagnostics)
    BY <1>5, Zenon DEF CompileAndExecute, Step
  <2>2. diagnostics = <<>> \/ Last(diagnostics).severity # "ERROR"
    BY <1>5 DEF CompileAndExecute, Step, GraphInv, PendingNode
  <2>3. diagnostics' = <<diverged>>
    BY <1>1, <2>1, <2>2 DEF AfterExecution
  <2>4. Last(<<diverged>>) = diverged /\ diverged.code = "ARIMA_NON_CONVERGENCE"
    BY DEF Last, Diag
  <2> QED BY <2>3, <2>4
<1> QED BY <1>2, <1>3, <1>4, <1>5

(* A node that is not repair_spec leads to one further on; a repair pays    *)
(* for the nodes after it.                                                  *)
LEMMA RankStep ==
    ASSUME TerminationInv, [Next]_vars
    PROVE  Ranked'
<1> USE DEF TerminationInv
<1>1. /\ Len(repair_history) \in Nat /\ superstep \in Nat
      /\ MaxRepairAttempts \in Nat
  BY BudgetAssumption DEF GraphInv, TypeOK
<1>2. SUFFICES ASSUME invoking', Len(repair_history') < MaxRepairAttempts
               PROVE  superstep' <= 3 * Len(repair_history') + NodesBefore(next')
  BY DEF Ranked, NodesBefore
<1>3. \A node : NodesBefore(node) \in 0..3
  BY DEF NodesBefore
<1>4. CASE superstep' = 0 /\ repair_history' = repair_history
  <2>1. 3 * Len(repair_history) + NodesBefore(next') >= 0
    BY <1>1, <1>3
  <2> QED BY <1>4, <2>1
<1>5. CASE UNCHANGED <<invoking, superstep, repair_history, next>>
  BY <1>2, <1>5 DEF Ranked
<1>6. CASE /\ invoking /\ superstep' = superstep + 1 /\ repair_history' = repair_history
           /\ NodesBefore(next') >= NodesBefore(next) + 1
  <2>1. superstep <= 3 * Len(repair_history) + NodesBefore(next)
    BY <1>2, <1>6 DEF Ranked
  <2> QED BY <1>1, <1>3, <1>6, <2>1
<1>7. CASE RepairSpec
  <2>1. /\ invoking /\ next = "repair_spec" /\ next' = "validate_spec"
        /\ superstep' = superstep + 1
        /\ diagnostics # <<>> /\ Repairable(Last(diagnostics))
        /\ IsArima(model_spec)
    BY <1>7 DEF RepairSpec, Step, GraphInv, RoutedOnFreshDiagnostics, PendingNode,
                CandidateShape, Nodes
  <2>2. Len(repair_history) < MaxRepairAttempts =>
          Repairs(model_spec, Last(diagnostics), repair_history, MaxRepairAttempts)
    BY <1>1, <2>1 DEF KnownRemedy, Repairs, Repairable, CanReduceOrder, CanContractWindow
  <2>3. CASE EscalateRepair
    BY <1>2, <2>2, <2>3 DEF EscalateRepair
  <2>4. CASE ApplyRepair
    <3>1. repair_history \in Seq(RepairProposal)
          /\ Proposal(model_spec, Last(diagnostics), repair_history) \in RepairProposal
      BY <1>7, ProposedRepair
    <3>2. Len(repair_history') = Len(repair_history) + 1
      BY <2>4, <3>1 DEF ApplyRepair
    <3>3. superstep <= 3 * Len(repair_history) + 3
      BY <1>1, <1>2, <2>1, <3>2 DEF Ranked, NodesBefore
    <3> QED BY <1>1, <2>1, <3>2, <3>3 DEF NodesBefore
  <2> QED BY <1>7, <2>1, <2>3, <2>4 DEF RepairSpec, RepairAttempt
<1>8. CASE (\E query \in Queries : RunWorkflow(query)) \/ ResumeWorkflow
  BY <1>4, <1>8 DEF RunWorkflow, ResumeWorkflow, Invoke, thread
<1>9. CASE GenerateSpec \/ ValidateSpec \/ CompileAndExecute
  <2>1. invoking /\ superstep' = superstep + 1 /\ repair_history' = repair_history
    BY <1>9 DEF GenerateSpec, ValidateSpec, CompileAndExecute, Step
  <2>2. NodesBefore(next') >= NodesBefore(next) + 1
    <3>1. CASE GenerateSpec
      BY <3>1 DEF GenerateSpec, Step, NodesBefore
    <3>2. CASE ValidateSpec
      <4>1. next = "validate_spec"
            /\ next' \in {"compile_and_execute", "repair_spec", "finalize_report"}
        BY <3>2 DEF ValidateSpec, Step, AfterValidation
      <4> QED BY <4>1 DEF NodesBefore
    <3>3. CASE CompileAndExecute
      <4>1. next = "compile_and_execute" /\ next' \in {"repair_spec", "finalize_report"}
        BY <3>3, Zenon DEF CompileAndExecute, Step, AfterExecution
      <4> QED BY <4>1 DEF NodesBefore
    <3> QED BY <1>9, <3>1, <3>2, <3>3
  <2> QED BY <1>6, <2>1, <2>2
<1>10. CASE FinalizeReport \/ ExceedRecursionLimit \/ Crash
  BY <1>2, <1>10 DEF FinalizeReport, ExceedRecursionLimit, Crash
<1>11. CASE UNCHANGED vars
  BY <1>5, <1>11 DEF vars, thread, control
<1> QED BY <1>7, <1>8, <1>9, <1>10, <1>11 DEF Next, RunNode

(* The limit is reached before the budget is spent only if it is too small  *)
(* for it.                                                                  *)
LEMMA LimitStep ==
    ASSUME TerminationInv, [Next]_vars, RecursionLimit > 3 * MaxRepairAttempts
    PROVE  RecursionOnlyWhenExhausted'
<1> USE DEF TerminationInv
<1>1. SUFFICES ASSUME outcome' = "recursion_error"
               PROVE  Len(repair_history') = MaxRepairAttempts
  BY DEF RecursionOnlyWhenExhausted
<1>2. /\ Len(repair_history) \in Nat /\ Len(repair_history) <= MaxRepairAttempts
      /\ MaxRepairAttempts \in Nat /\ RecursionLimit \in Nat
  BY BudgetAssumption, LimitAssumption DEF GraphInv, TypeOK, RepairBudget
<1>3. CASE ExceedRecursionLimit
  <2>1. invoking /\ superstep = RecursionLimit /\ repair_history' = repair_history
    BY <1>3 DEF ExceedRecursionLimit, thread
  <2>2. NodesBefore(next) \in 0..3
    BY DEF NodesBefore
  <2>3. SUFFICES ASSUME Len(repair_history) < MaxRepairAttempts PROVE FALSE
    BY <1>2, <2>1
  <2>4. RecursionLimit <= 3 * Len(repair_history) + NodesBefore(next)
    BY <2>1, <2>3 DEF Ranked
  <2> QED BY <1>2, <2>2, <2>3, <2>4
<1>4. CASE outcome' = outcome /\ repair_history' = repair_history
  BY <1>1, <1>4 DEF RecursionOnlyWhenExhausted
<1>5. CASE RepairSpec /\ ApplyRepair
  <2>1. outcome = "recursion_error"
    BY <1>1, <1>5 DEF RepairSpec, Continue
  <2>2. Len(repair_history) + 1 <= MaxRepairAttempts
    BY <1>5 DEF ApplyRepair, Repairs
  <2> QED BY <1>2, <2>1, <2>2 DEF RecursionOnlyWhenExhausted
<1> QED BY <1>1, <1>3, <1>4, <1>5 DEF Next, RunNode, vars, thread, control, RunWorkflow,
        ResumeWorkflow, Invoke, GenerateSpec, ValidateSpec, CompileAndExecute, RepairSpec,
        RepairAttempt, EscalateRepair, FinalizeReport, Crash, Continue

(* When the recursion limit leaves room for three super-steps per repair,   *)
(* as LangGraph's 25 does for a budget of two, only a thread whose budget   *)
(* is spent is ever stopped by it (edges.py:16-39, repairs.py:30-35).       *)
THEOREM OnlyExhaustedThreadsRecurse ==
    RecursionLimit > 3 * MaxRepairAttempts => (Spec => []RecursionOnlyWhenExhausted)
<1> SUFFICES ASSUME RecursionLimit > 3 * MaxRepairAttempts
             PROVE  Spec => []RecursionOnlyWhenExhausted
  OBVIOUS
<1>1. TerminationInv /\ [Next]_vars => TerminationInv'
  BY NextInv, CandidateStep, RemedyStep, RankStep, LimitStep DEF TerminationInv
<1>2. TerminationInv => RecursionOnlyWhenExhausted
  BY DEF TerminationInv
<1> QED BY <1>1, <1>2, InitTermination, PTL DEF Spec

-----------------------------------------------------------------------------
(* The history explains the specification: the chain of a run's diffs as a  *)
(* relation between the history, where the run begins in it, and two        *)
(* specifications                                                           *)

ThisRunIn(log) ==
    {i \in Entries(log, "spec_repaired_and_degraded") :
        \A j \in Entries(log, "modelspec_generated") : j < i}

RunIn(history, count) == (Len(history) - count + 1)..Len(history)

EarlierIn(history, count, field, n) ==
    {i \in RunIn(history, count) : i < n /\ Field(history[i]) = field}

ExplainedIn(history, count, generated, field, value, n) ==
    \/ EarlierIn(history, count, field, n) = {} /\ value = Value(generated, field)
    \/ \E i \in EarlierIn(history, count, field, n) :
          /\ \A j \in EarlierIn(history, count, field, n) : j <= i
          /\ value = history[i].new

Chain(history, count, generated, spec) ==
    /\ \A n \in RunIn(history, count) :
         ExplainedIn(history, count, generated, Field(history[n]), history[n].old, n)
    /\ \A field \in Fields :
         ExplainedIn(history, count, generated, field, Value(spec, field), Len(history) + 1)
    /\ SameButRepaired(spec, generated)

LEMMA ReplayedChain ==
    RepairHistoryReplays <=>
        (model_spec # None /\ next # "generate_spec" =>
            Chain(repair_history, Cardinality(ThisRunIn(trace_events)),
                  GeneratedSpec(user_query), model_spec))
<1>1. LoggedThisRun = ThisRunIn(trace_events)
  BY Zenon DEF LoggedThisRun, ThisRunIn, Occurrences, Entries
<1>2. RepairsThisRun = RunIn(repair_history, Cardinality(ThisRunIn(trace_events)))
  BY <1>1, Zenon DEF RepairsThisRun, RunIn
<1> QED BY <1>2, Zenon DEF RepairHistoryReplays, Chain, ExplainedIn, EarlierIn, Explained

LEMMA ChainIsReplayed ==
    ASSUME (model_spec # None /\ next # "generate_spec")' =>
              Chain(repair_history', Cardinality(ThisRunIn(trace_events')),
                    GeneratedSpec(user_query'), model_spec')
    PROVE  RepairHistoryReplays'
<1>1. LoggedThisRun' = ThisRunIn(trace_events')
  BY Zenon DEF LoggedThisRun, ThisRunIn, Occurrences, Entries
<1>2. RepairsThisRun' = RunIn(repair_history', Cardinality(ThisRunIn(trace_events')))
  BY <1>1, Zenon DEF RepairsThisRun, RunIn
<1> QED BY <1>2, Zenon DEF RepairHistoryReplays, Chain, ExplainedIn, EarlierIn, Explained

(* The log's repairs of a run, when one more event is logged *)
LEMMA ThisRunOneMore ==
    ASSUME NEW log \in Log, NEW event \in Events, NEW n \in Nat
    PROVE  LET longer == Append(log, [event |-> event, step |-> n])
               count  == Cardinality(ThisRunIn(log))
           IN  /\ count \in Nat
               /\ count <= Cardinality(Entries(log, "spec_repaired_and_degraded"))
               /\ event \notin {"modelspec_generated", "spec_repaired_and_degraded"} =>
                    ThisRunIn(longer) = ThisRunIn(log)
               /\ event = "modelspec_generated" => Cardinality(ThisRunIn(longer)) = 0
               /\ event = "spec_repaired_and_degraded" =>
                    Cardinality(ThisRunIn(longer)) = count + 1
<1> DEFINE entry  == [event |-> event, step |-> n]
           longer == Append(log, entry)
           new    == Len(log) + 1
<1>1. entry \in [event : Events, step : Nat] /\ entry.event = event
  OBVIOUS
<1> HIDE DEF entry
<1>2. /\ DOMAIN longer = 1..new /\ DOMAIN log = 1..Len(log) /\ Len(log) \in Nat
      /\ longer[new] = entry /\ \A i \in 1..Len(log) : longer[i] = log[i]
  BY <1>1 DEF Log
<1> HIDE DEF longer
<1>3. \A other : /\ Entries(log, other) \subseteq 1..Len(log)
                 /\ Entries(longer, other) = IF event = other THEN Entries(log, other) \cup {new}
                                             ELSE Entries(log, other)
  BY <1>1, <1>2 DEF Entries
<1>4. IsFiniteSet(Entries(log, "spec_repaired_and_degraded"))
  <2>1. IsFiniteSet(1..Len(log))
    BY <1>2, FS_Interval
  <2> QED BY <1>3, <2>1, FS_Subset
<1>5. /\ IsFiniteSet(ThisRunIn(log)) /\ Cardinality(ThisRunIn(log)) \in Nat
      /\ Cardinality(ThisRunIn(log)) <= Cardinality(Entries(log, "spec_repaired_and_degraded"))
  <2>1. ThisRunIn(log) \in SUBSET Entries(log, "spec_repaired_and_degraded")
    BY DEF ThisRunIn
  <2> QED BY <1>4, <2>1, FS_Subset, FS_CardinalityType
<1>6. ASSUME event \notin {"modelspec_generated", "spec_repaired_and_degraded"}
      PROVE  ThisRunIn(longer) = ThisRunIn(log)
  BY <1>3, <1>6 DEF ThisRunIn
<1>7. ASSUME event = "modelspec_generated"
      PROVE  Cardinality(ThisRunIn(longer)) = 0
  <2>1. /\ Entries(longer, "modelspec_generated") = Entries(log, "modelspec_generated") \cup {new}
        /\ Entries(longer, "spec_repaired_and_degraded") = Entries(log, "spec_repaired_and_degraded")
    BY <1>3, <1>7
  <2>2. \A i \in Entries(longer, "spec_repaired_and_degraded") : ~(new < i)
    BY <1>2, <1>3, <2>1
  <2>3. ThisRunIn(longer) = {}
    BY <2>1, <2>2 DEF ThisRunIn
  <2> QED BY <2>3, FS_EmptySet
<1>8. ASSUME event = "spec_repaired_and_degraded"
      PROVE  Cardinality(ThisRunIn(longer)) = Cardinality(ThisRunIn(log)) + 1
  <2>1. /\ Entries(longer, "modelspec_generated") = Entries(log, "modelspec_generated")
        /\ Entries(longer, "spec_repaired_and_degraded")
             = Entries(log, "spec_repaired_and_degraded") \cup {new}
    BY <1>3, <1>8
  <2>2. \A i \in Entries(log, "modelspec_generated") : i < new
    BY <1>2, <1>3
  <2>3. ThisRunIn(longer) = ThisRunIn(log) \cup {new}
    BY <2>1, <2>2 DEF ThisRunIn
  <2>4. new \notin ThisRunIn(log)
    BY <1>2, <1>3 DEF ThisRunIn
  <2> QED BY <1>5, <2>3, <2>4, FS_AddElement
<1> QED BY <1>5, <1>6, <1>7, <1>8 DEF longer, entry

(* A chain is made longer by a diff from the value it ends with.            *)
LEMMA ChainOneMore ==
    ASSUME NEW history \in Seq(RepairProposal), NEW count \in Nat, count <= Len(history),
           NEW generated, NEW spec, NEW repaired, NEW p \in RepairProposal,
           Chain(history, count, generated, spec),
           p.old = Value(spec, Field(p)),
           p.new = Value(repaired, Field(p)),
           \A field \in Fields : field # Field(p) => Value(repaired, field) = Value(spec, field),
           SameButRepaired(repaired, generated)
    PROVE  Chain(Append(history, p), count + 1, generated, repaired)
<1> DEFINE longer == Append(history, p)
           new    == Len(history) + 1
           run    == RunIn(history, count)
<1>1. /\ Len(history) \in Nat /\ Len(longer) = new /\ longer[new] = p
      /\ \A i \in 1..Len(history) : longer[i] = history[i]
  OBVIOUS
<1> HIDE DEF longer
<1>2. /\ run \subseteq 1..Len(history) /\ RunIn(longer, count + 1) = run \cup {new}
      /\ \A i \in run : i \in Nat /\ i < new /\ i # new
  BY <1>1 DEF RunIn
<1> HIDE DEF run
<1>3. ASSUME NEW field, NEW n \in Nat, n <= new
      PROVE  EarlierIn(longer, count + 1, field, n) = EarlierIn(history, count, field, n)
  <2>1. new \in Nat /\ ~(new < n)
    BY <1>1, <1>3
  <2> HIDE DEF new
  <2> QED BY <1>1, <1>2, <2>1 DEF EarlierIn, run
<1>4. \A field, n : EarlierIn(history, count, field, n) \subseteq run
  BY DEF EarlierIn, run
<1>5. ASSUME NEW field, NEW value, NEW n \in Nat, n <= new,
             ExplainedIn(history, count, generated, field, value, n)
      PROVE  ExplainedIn(longer, count + 1, generated, field, value, n)
  BY <1>1, <1>2, <1>3, <1>4, <1>5 DEF ExplainedIn
<1>6. \A field \in Fields :
         ExplainedIn(history, count, generated, field, Value(spec, field), new)
  BY DEF Chain
<1>7. new \in Nat /\ Field(p) \in Fields
  BY <1>1 DEF Field, Fields
<1>8. ASSUME NEW n \in RunIn(longer, count + 1)
      PROVE  ExplainedIn(longer, count + 1, generated, Field(longer[n]), longer[n].old, n)
  <2>1. CASE n \in run
    <3>1. n \in Nat /\ n <= new /\ longer[n] = history[n]
      BY <1>1, <1>2, <2>1
    <3>2. ExplainedIn(history, count, generated, Field(history[n]), history[n].old, n)
      BY <2>1 DEF Chain, run
    <3> QED BY <1>5, <3>1, <3>2
  <2>2. CASE n = new
    <3>1. ExplainedIn(longer, count + 1, generated, Field(p), Value(spec, Field(p)), new)
      BY <1>5, <1>6, <1>7
    <3> QED BY <1>1, <2>2, <3>1
  <2> QED BY <1>2, <1>8, <2>1, <2>2
<1>9. ASSUME NEW field \in Fields
      PROVE  ExplainedIn(longer, count + 1, generated, field, Value(repaired, field), new + 1)
  <2>1. CASE field = Field(p)
    <3>1. /\ new \in EarlierIn(longer, count + 1, field, new + 1)
          /\ \A j \in EarlierIn(longer, count + 1, field, new + 1) : j <= new
      <4>1. \A i \in run \cup {new} : i < new + 1 /\ i <= new
        BY <1>1, <1>2, <1>7
      <4> HIDE DEF new
      <4> QED BY <1>1, <1>2, <2>1, <4>1 DEF EarlierIn
    <3> QED BY <1>1, <2>1, <3>1 DEF ExplainedIn
  <2>2. CASE field # Field(p)
    <3>1. EarlierIn(longer, count + 1, field, new + 1) = EarlierIn(longer, count + 1, field, new)
      <4>1. \A i \in run \cup {new} : i < new + 1 /\ (i < new <=> i # new)
        BY <1>1, <1>2, <1>7
      <4> HIDE DEF new
      <4> QED BY <1>1, <1>2, <2>2, <4>1 DEF EarlierIn
    <3>2. ExplainedIn(longer, count + 1, generated, field, Value(spec, field), new)
      BY <1>5, <1>6, <1>7
    <3> QED BY <2>2, <3>1, <3>2 DEF ExplainedIn
  <2> QED BY <2>1, <2>2
<1> QED BY <1>1, <1>8, <1>9 DEF Chain, longer

(* A repair changes the field it records, to the value it records, and      *)
(* nothing else.                                                            *)
LEMMA RepairIsRecorded ==
    ASSUME NEW spec \in ModelSpec, IsArima(spec), NEW d \in Diagnostic,
           NEW history \in Seq(RepairProposal), NEW generated,
           CanReduceOrder(spec, d) \/ CanContractWindow(d),
           SameButRepaired(spec, generated)
    PROVE  LET p == Proposal(spec, d, history)
               repaired == RepairedSpec(spec, d)
           IN  /\ p.old = Value(spec, Field(p))
               /\ p.new = Value(repaired, Field(p))
               /\ \A field \in Fields :
                     field # Field(p) => Value(repaired, field) = Value(spec, field)
               /\ SameButRepaired(repaired, generated)
<1> DEFINE p == Proposal(spec, d, history)
           repaired == RepairedSpec(spec, d)
<1>1. spec.model \in ARIMASpec
  BY DEF IsArima, ModelSpec, ARIMASpec, ETSSpec, SeasonalNaiveSpec
<1>2. generated = [spec EXCEPT !.model = [spec.model EXCEPT !.order = generated.model.order],
                               !.initial_window = generated.initial_window]
  BY DEF SameButRepaired, ModelSpec
<1>3. CASE CanReduceOrder(spec, d)
  <2>1. repaired = [spec EXCEPT !.model = [spec.model EXCEPT !.order = ReducedOrder(spec)]]
    BY <1>3 DEF RepairedSpec, ModelSpec
  <2>2. /\ repaired.model.order = ReducedOrder(spec)
        /\ repaired.initial_window = spec.initial_window
    BY <1>1, <2>1 DEF ModelSpec, ARIMASpec
  <2>3. /\ p.code = "ARIMA_NON_CONVERGENCE"
        /\ p.old = spec.model.order /\ p.new = ReducedOrder(spec)
    BY <1>3 DEF Proposal, CanReduceOrder
  <2>4. SameButRepaired(repaired, generated)
    <3>1. [repaired EXCEPT !.model = [repaired.model EXCEPT !.order = generated.model.order],
                           !.initial_window = generated.initial_window]
          = [spec EXCEPT !.model = [spec.model EXCEPT !.order = generated.model.order],
                         !.initial_window = generated.initial_window]
      BY <1>1, <2>1 DEF ModelSpec, ARIMASpec
    <3> QED BY <1>2, <2>1, <3>1 DEF SameButRepaired, ModelSpec
  <2> HIDE DEF p, repaired
  <2>5. /\ p.old = Value(spec, Field(p)) /\ p.new = Value(repaired, Field(p))
        /\ \A field \in Fields :
              field # Field(p) => Value(repaired, field) = Value(spec, field)
    BY <2>2, <2>3 DEF Value, Field, Fields
  <2> QED BY <2>4, <2>5 DEF p, repaired
<1>4. CASE ~CanReduceOrder(spec, d)
  <2> DEFINE window == ContractedWindow(spec, d.rows)
  <2>1. d.code = "INSUFFICIENT_SAMPLE"
    BY <1>4 DEF CanContractWindow
  <2>2. repaired = [spec EXCEPT !.initial_window = window]
    BY <1>4 DEF RepairedSpec
  <2>3. /\ p.code = "INSUFFICIENT_SAMPLE"
        /\ p.old = <<spec.initial_window>> /\ p.new = <<window>>
    BY <1>4, <2>1 DEF Proposal
  <2> HIDE DEF window
  <2>4. repaired.model.order = spec.model.order /\ repaired.initial_window = window
    BY <2>2 DEF ModelSpec
  <2>5. SameButRepaired(repaired, generated)
    BY <1>2, <2>2 DEF SameButRepaired, ModelSpec
  <2> HIDE DEF p, repaired
  <2>6. /\ p.old = Value(spec, Field(p)) /\ p.new = Value(repaired, Field(p))
        /\ \A field \in Fields :
              field # Field(p) => Value(repaired, field) = Value(spec, field)
    BY <2>3, <2>4 DEF Value, Field, Fields
  <2> QED BY <2>5, <2>6 DEF p, repaired
<1> QED BY <1>3, <1>4

(* A new candidate explains itself. *)
LEMMA EmptyChain ==
    ASSUME NEW history \in Seq(RepairProposal), NEW query \in Queries
    PROVE  Chain(history, 0, GeneratedSpec(query), GeneratedSpec(query))
<1>1. RunIn(history, 0) = {}
  BY DEF RunIn
<1>2. \A field, n : EarlierIn(history, 0, field, n) = {}
  BY <1>1 DEF EarlierIn
<1>3. GeneratedSpec(query) \in ModelSpec /\ GeneratedSpec(query).model \in ARIMASpec
  BY GeneratedSpecShape DEF IsArima, ModelSpec, ARIMASpec, ETSSpec, SeasonalNaiveSpec
<1>4. \A spec \in ModelSpec : spec.model \in ARIMASpec => SameButRepaired(spec, spec)
  BY DEF SameButRepaired, ModelSpec, ARIMASpec
<1> QED BY <1>1, <1>2, <1>3, <1>4 DEF Chain, ExplainedIn

(* Every step that does not start a new run keeps the chain, and a repair   *)
(* prolongs it.                                                             *)
LEMMA NextReplay ==
    ASSUME GraphInv, AuditLogAgrees, RepairHistoryReplays, [Next]_vars
    PROVE  RepairHistoryReplays'
<1> DEFINE other == Events \ {"modelspec_generated", "spec_repaired_and_degraded"}
           count == Cardinality(ThisRunIn(trace_events))
<1>1. trace_events \in Log
  BY Zenon DEF GraphInv, TypeOK, Log
<1>2. SUFFICES ASSUME model_spec' # None, next' # "generate_spec"
               PROVE  Chain(repair_history', Cardinality(ThisRunIn(trace_events')),
                            GeneratedSpec(user_query'), model_spec')
  BY ChainIsReplayed, Zenon
<1>3. model_spec # None /\ next # "generate_spec" =>
         Chain(repair_history, count, GeneratedSpec(user_query), model_spec)
  BY ReplayedChain, Zenon
<1> HIDE DEF count
<1>4. \/ UNCHANGED <<model_spec, repair_history, user_query, trace_events, next>>
      \/ GenerateSpec
      \/ /\ UNCHANGED <<model_spec, repair_history, user_query>> /\ next # "generate_spec"
         /\ \E event \in other : trace_events' = Traced(event)
      \/ CompileAndExecute
      \/ RepairSpec /\ ApplyRepair
  BY <1>2 DEF Next, RunNode, vars, thread, control, RunWorkflow, ResumeWorkflow, Invoke, Step,
     ValidateSpec, RepairSpec, RepairAttempt, EscalateRepair, FinalizeReport,
     ExceedRecursionLimit, Crash, Events
<1>5. CASE UNCHANGED <<model_spec, repair_history, user_query, trace_events, next>>
  BY <1>2, <1>3, <1>5 DEF count
<1>6. CASE GenerateSpec
  <2>1. /\ model_spec' = GeneratedSpec(user_query) /\ user_query' = user_query
        /\ repair_history' = repair_history /\ trace_events' = Traced("modelspec_generated")
        /\ user_query \in Queries
    BY <1>6 DEF GenerateSpec, Step, GraphInv, PendingNode
  <2>2. Cardinality(ThisRunIn(trace_events')) = 0
    BY <1>1, <2>1, ThisRunOneMore DEF Traced, Events, Log
  <2> QED BY <2>1, <2>2, EmptyChain DEF GraphInv, TypeOK
<1>7. CASE /\ UNCHANGED <<model_spec, repair_history, user_query>> /\ next # "generate_spec"
           /\ \E event \in other : trace_events' = Traced(event)
  <2>1. PICK event \in other : trace_events' = Traced(event)
    BY <1>7
  <2>2. /\ event \in Events /\ Len(trace_events) \in Nat
        /\ event \notin {"modelspec_generated", "spec_repaired_and_degraded"}
    BY <1>1 DEF Log
  <2>3. ThisRunIn(Append(trace_events, [event |-> event, step |-> Len(trace_events)]))
          = ThisRunIn(trace_events)
    BY <1>1, <2>2, ThisRunOneMore
  <2>4. ThisRunIn(trace_events') = ThisRunIn(trace_events)
    BY <2>1, <2>3, Zenon DEF Traced
  <2> QED BY <1>2, <1>3, <1>7, <2>4 DEF count
<1>8. CASE CompileAndExecute
  <2> DEFINE e1 == [event |-> "plan_compiled_and_executed", step |-> Len(trace_events)]
             e2 == [event |-> "numerical_failure_captured", step |-> Len(trace_events) + 1]
             one == Append(trace_events, e1)
  <2>1. UNCHANGED <<model_spec, repair_history, user_query>> /\ next # "generate_spec"
    BY <1>8 DEF CompileAndExecute, Step
  <2>2. \/ trace_events' = trace_events \o <<e1>> \o <<e2>>
        \/ trace_events' = trace_events \o <<e1>> \o <<>>
    BY <1>8, Zenon DEF CompileAndExecute
  <2>3. /\ e1 \in [event : Events, step : Nat] /\ e2 \in [event : Events, step : Nat]
        /\ Len(trace_events) \in Nat
    BY <1>1 DEF Log, Events
  <2>4. one \in Log /\ ThisRunIn(one) = ThisRunIn(trace_events)
    <3>1. ThisRunIn(one) = ThisRunIn(trace_events)
      BY <1>1, <2>3, ThisRunOneMore DEF Events
    <3> HIDE DEF e1
    <3> QED BY <1>1, <2>3, <3>1 DEF Log
  <2>5. trace_events' = Append(one, e2) \/ trace_events' = one
    <3> HIDE DEF e1, e2
    <3>1. trace_events \o <<e1>> = one
      BY <1>1, <2>3 DEF Log
    <3> HIDE DEF one
    <3>2. one \o <<e2>> = Append(one, e2) /\ one \o <<>> = one
      BY <2>3, <2>4 DEF Log
    <3> QED BY <2>2, <3>1, <3>2
  <2>6. ThisRunIn(Append(one, e2)) = ThisRunIn(one)
    <3> HIDE DEF one
    <3> QED BY <2>3, <2>4, ThisRunOneMore DEF Events
  <2>7. ThisRunIn(trace_events') = ThisRunIn(trace_events)
    BY <2>4, <2>5, <2>6
  <2> QED BY <1>2, <1>3, <2>1, <2>7 DEF count
<1>9. CASE RepairSpec /\ ApplyRepair
  <2> DEFINE d == Last(diagnostics)
             p == Proposal(model_spec, d, repair_history)
             generated == GeneratedSpec(user_query)
  <2>1. /\ model_spec \in ModelSpec /\ IsArima(model_spec) /\ model_spec # None
        /\ next = "repair_spec" /\ user_query' = user_query
    BY <1>9 DEF RepairSpec, Step, GraphInv, TypeOK, PendingNode, CandidateShape, Nodes
  <2>2. d \in Diagnostic /\ repair_history \in Seq(RepairProposal) /\ p \in RepairProposal
    BY <1>9, ProposedRepair
  <2>3. /\ CanReduceOrder(model_spec, d) \/ CanContractWindow(d)
        /\ model_spec' = RepairedSpec(model_spec, d)
        /\ repair_history' = Append(repair_history, p)
        /\ trace_events' = Traced("spec_repaired_and_degraded")
    BY <1>9 DEF ApplyRepair, Repairs
  <2>4. /\ count \in Nat
        /\ count <= Cardinality(Entries(trace_events, "spec_repaired_and_degraded"))
        /\ Cardinality(ThisRunIn(trace_events')) = count + 1
    BY <1>1, <2>3, ThisRunOneMore DEF Traced, Events, Log, count
  <2>5. count <= Len(repair_history)
    BY <2>4, PartsOfAudit DEF Audited
  <2>6. Chain(repair_history, count, generated, model_spec)
    BY <1>3, <2>1
  <2>7. SameButRepaired(model_spec, generated)
    BY <2>6 DEF Chain
  <2> HIDE DEF d, generated
  <2>8. /\ p.old = Value(model_spec, Field(p))
        /\ p.new = Value(RepairedSpec(model_spec, d), Field(p))
        /\ \A field \in Fields : field # Field(p) =>
              Value(RepairedSpec(model_spec, d), field) = Value(model_spec, field)
        /\ SameButRepaired(RepairedSpec(model_spec, d), generated)
    BY <2>1, <2>2, <2>3, <2>7, RepairIsRecorded
  <2> HIDE DEF p
  <2>9. Chain(Append(repair_history, p), count + 1, generated, RepairedSpec(model_spec, d))
    BY <2>2, <2>4, <2>5, <2>6, <2>8, ChainOneMore
  <2> QED BY <2>1, <2>3, <2>4, <2>9 DEF generated
<1> QED BY <1>4, <1>5, <1>6, <1>7, <1>8, <1>9

(* The recorded diffs form a chain from the candidate of the latest run to  *)
(* the current specification, over refusals, crashes and resumptions        *)
(* (repairs.py:40-78, nodes.py:150-160).                                    *)
THEOREM HistoryExplainsSpec == Spec => []RepairHistoryReplays
<1>1. Init => RepairHistoryReplays
  BY DEF Init, RepairHistoryReplays
<1>2. /\ GraphInv /\ AuditLogAgrees /\ RepairHistoryReplays /\ [Next]_vars
      => RepairHistoryReplays'
  BY NextReplay
<1> QED BY <1>1, <1>2, GraphInvariance, LogIsAudited, PTL DEF Spec
=============================================================================
