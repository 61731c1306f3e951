------------------------- MODULE ScientificPipeline -------------------------
(***************************************************************************)
(* The deterministic part of the scientific agent: what the validator, the *)
(* static analyser, the compiler, the executor and the repair engine       *)
(* return for a ModelSpec (src/src/agent_runtime/scientific).  Everything  *)
(* here is a constant operator; the state machines that call it are in     *)
(* other modules.  Messages, rationales and identifiers are left out; a    *)
(* rationale is reduced to whether it mentions a leak.                     *)
(***************************************************************************)
EXTENDS Integers, Sequences

(* LOCAL_DATA_REGISTRY: the data sets the runtime knows, rows and frequency *)
LocalDataRegistry ==
    [monthly_sales |-> [rows |-> 120, frequency |-> "monthly"],
     short_series  |-> [rows |-> 15,  frequency |-> "monthly"]]

(* Registered names, one that is not, and one that walks up the file tree *)
TraversalIds == {"path_traversal"}
DatasetIds   == DOMAIN LocalDataRegistry \cup {"unregistered"} \cup TraversalIds
Frequencies  == {"daily", "weekly", "monthly", "quarterly"}

ARIMASpec         == [family : {"arima"}, order : Int \X Int \X Int]
ETSSpec           == [family : {"ets"}, seasonal : {"none", "additive"},
                      has_period : BOOLEAN]
SeasonalNaiveSpec == [family : {"seasonal_naive"}]

(* The schema: pydantic rejects anything outside these ranges *)
ModelSpec ==
    [dataset_id       : DatasetIds,
     frequency        : Frequencies,
     model            : ARIMASpec \cup ETSSpec \cup SeasonalNaiveSpec,
     initial_window   : Nat \ {0},
     horizon          : 1..60,
     forecast_horizon : 1..60,
     mentions_leak    : BOOLEAN,
     require_human_approval : BOOLEAN]

(* A candidate proposed by the LLM cannot decide about its own approval:   *)
(* naming the field, with either value, sets it.                           *)
WrapCandidate(candidate, names_approval) ==
    [candidate EXCEPT !.require_human_approval = names_approval]

-----------------------------------------------------------------------------
(* Diagnostics.  `rows` is evidence["actual_rows"], 0 where there is none. *)

Severities == {"ERROR", "WARNING"}
Codes == {"DATASET_NOT_FOUND", "FREQUENCY_MISMATCH", "INVALID_SEASONAL_PERIOD",
          "SCHEMA_VALIDATION_FAILURE", "MODEL_COMPLEXITY_EXCESSIVE",
          "INSUFFICIENT_SAMPLE", "LEAKAGE_DETECTED", "UNAUTHORIZED_OPERATION",
          "BACKTEST_WINDOW_INVALID", "ARIMA_NON_CONVERGENCE"}

Diagnostic == [severity : Severities, code : Codes, repairable : BOOLEAN, rows : Nat]

Diag(severity, code, repairable) ==
    [severity |-> severity, code |-> code, repairable |-> repairable, rows |-> 0]

Blocking(diag)   == diag.severity = "ERROR" /\ ~diag.repairable
Repairable(diag) == diag.severity = "ERROR" /\ diag.repairable

(* The one-element or empty contribution of a check *)
Report(found, diag) == IF found THEN <<diag>> ELSE <<>>

IsArima(spec)    == spec.model.family = "arima"
OrderSum(spec)   == spec.model.order[1] + spec.model.order[3]
DatasetRows(spec) == LocalDataRegistry[spec.dataset_id].rows
FitsSample(spec) == spec.initial_window + spec.horizon <= DatasetRows(spec)

(* ModelSpecDomainValidator.validate_spec: the checks in the order of the  *)
(* code; without a data set none of the later ones is made.                *)
ValidateDomain(spec) ==
    IF spec.dataset_id \notin DOMAIN LocalDataRegistry
    THEN <<Diag("ERROR", "DATASET_NOT_FOUND", FALSE)>>
    ELSE Report(spec.frequency # LocalDataRegistry[spec.dataset_id].frequency,
                Diag("ERROR", "FREQUENCY_MISMATCH", TRUE))
      \o Report(/\ spec.model.family = "ets"
                /\ spec.model.seasonal # "none"
                /\ ~spec.model.has_period,
                Diag("ERROR", "INVALID_SEASONAL_PERIOD", TRUE))
      \o Report(IsArima(spec) /\ \E i \in 1..3 : spec.model.order[i] < 0,
                Diag("ERROR", "SCHEMA_VALIDATION_FAILURE", TRUE))
      \o Report(IsArima(spec) /\ OrderSum(spec) > 12,
                Diag("WARNING", "MODEL_COMPLEXITY_EXCESSIVE", TRUE))
      \o Report(~FitsSample(spec),
                [Diag("ERROR", "INSUFFICIENT_SAMPLE", TRUE)
                    EXCEPT !.rows = DatasetRows(spec)])

(* StaticAnalyzer.analyze_spec *)
AnalyzeSpec(spec) ==
       Report(spec.mentions_leak, Diag("ERROR", "LEAKAGE_DETECTED", FALSE))
    \o Report(spec.dataset_id \in TraversalIds,
              Diag("ERROR", "UNAUTHORIZED_OPERATION", FALSE))
    \o Report(IsArima(spec) /\ 2 * spec.forecast_horizon > spec.initial_window,
              Diag("WARNING", "BACKTEST_WINDOW_INVALID", TRUE))

(* What validate_spec_node stores: domain findings first *)
AllDiagnostics(spec) == ValidateDomain(spec) \o AnalyzeSpec(spec)

-----------------------------------------------------------------------------
(* ModelSpecCompiler.compile_plan: four dependent steps; the third one fits *)
(* the model.  Step identifiers, idempotency keys and paths are left out.   *)

(* DeterministicExecutor.registry *)
ApprovedOperations ==
    {"load_dataset", "apply_transformations", "fit_arima", "generate_forecast"}
Operations == ApprovedOperations \cup {"fit_ets", "fit_seasonal_naive"}

FitOperation ==
    [arima |-> "fit_arima", ets |-> "fit_ets", seasonal_naive |-> "fit_seasonal_naive"]

ExecutionPlan ==
    [operations : Seq(Operations),
     dataset_id : DatasetIds,
     model      : ARIMASpec \cup ETSSpec \cup SeasonalNaiveSpec,
     window     : Nat \ {0},
     requires_human_approval : BOOLEAN]

CompilePlan(spec) ==
    [operations |-> <<"load_dataset", "apply_transformations",
                      FitOperation[spec.model.family], "generate_forecast">>,
     dataset_id |-> spec.dataset_id,
     model      |-> spec.model,
     window     |-> spec.initial_window,
     requires_human_approval |-> spec.require_human_approval]

(* execute_plan_step on the fit step *)
Converges(model) == model.order[1] + model.order[3] <= 5

ExecuteFit(plan) ==
    IF plan.operations[3] \notin ApprovedOperations THEN "FATAL"
    ELSE IF Converges(plan.model) THEN "SUCCESS" ELSE "NUMERICAL_FAILURE"

-----------------------------------------------------------------------------
(* BoundedRepairEngine.attempt_auto_repair.  A proposal keeps the material  *)
(* part of the diff, the old and the new value of what was changed: a       *)
(* three-element ARIMA order or a one-element window.                       *)

Larger(a, b) == IF a >= b THEN a ELSE b

ContractedWindow(spec, rows) == Larger(10, rows - spec.horizon - 2)

UnreducedOrder(spec) ==  \* mutant: the order that did not converge is kept
    <<spec.model.order[1], 1, spec.model.order[3]>>

ReducedOrder(spec) == <<1, spec.model.order[2], 1>>

CanReduceOrder(spec, diag)  == diag.code = "ARIMA_NON_CONVERGENCE" /\ IsArima(spec)
CannotContract(diag) == diag.code = "SAMPLE_INSUFFICIENT"  \* mutant: mistyped code

CanContractWindow(diag)     == diag.code = "INSUFFICIENT_SAMPLE"

(* Guards 1 and 2 of the engine, and that one of the two strategies applies *)
RepairsOnceTooOften(spec, diag, history, max_attempts) ==  \* mutant: off by one
    /\ Len(history) <= max_attempts
    /\ diag.repairable
    /\ CanReduceOrder(spec, diag) \/ CanContractWindow(diag)

Repairs(spec, diag, history, max_attempts) ==
    /\ Len(history) + 1 <= max_attempts
    /\ diag.repairable
    /\ CanReduceOrder(spec, diag) \/ CanContractWindow(diag)

RepairProposal == [code : Codes, attempt_number : Nat, old : Seq(Int), new : Seq(Int)]

RepairedMeanTermsKept(spec, diag) ==  \* mutant: not the change the diff records
    IF CanReduceOrder(spec, diag)
    THEN [spec EXCEPT !.model.order = <<1, @[2], @[3]>>]
    ELSE [spec EXCEPT !.initial_window = ContractedWindow(spec, diag.rows)]

RepairedSpec(spec, diag) ==
    IF CanReduceOrder(spec, diag)
    THEN [spec EXCEPT !.model.order = ReducedOrder(spec)]
    ELSE [spec EXCEPT !.initial_window = ContractedWindow(spec, diag.rows)]

Proposal(spec, diag, history) ==
    IF CanReduceOrder(spec, diag)
    THEN [code |-> diag.code, attempt_number |-> Len(history) + 1,
          old |-> spec.model.order, new |-> ReducedOrder(spec)]
    ELSE [code |-> diag.code, attempt_number |-> Len(history) + 1,
          old |-> <<spec.initial_window>>,
          new |-> <<ContractedWindow(spec, diag.rows)>>]
=============================================================================
