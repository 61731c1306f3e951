---------------------------- MODULE MCEvalRunner ----------------------------
(* Instance of EvalRunner for TLC *)
EXTENDS EvalRunner

(* A run that passes every grader, and one that passes none and is limited *)
MCOutcomes ==
    {[status |-> "completed", rate_limited |-> FALSE, trace |-> <<"other">>,
      step_count |-> 1, file_ok |-> TRUE],
     [status |-> "failed", rate_limited |-> TRUE,
      trace |-> <<"tool_validation_failed", "job_submitted_to_queue", "human_decision_approved">>,
      step_count |-> 2, file_ok |-> FALSE]}

MCBaselineSkills == [skill_rolling_backtest |-> 100]
MCSkillTasks     == [skill_rolling_backtest |-> {"backtest"}]
=============================================================================
