---------------------------- MODULE AgentRuntime ----------------------------
(***************************************************************************)
(* One run of the agent's loop (src/src/agent_runtime/runtime/loop.py):    *)
(* the provider is asked, its tool calls are executed one after the other, *)
(* with retries of transient errors, and their results are put to it       *)
(* again, until it answers directly, something fails for good, or the      *)
(* steps are used up.  An action is what happens between two calls of the  *)
(* provider or of a tool.                                                  *)
(*                                                                         *)
(* A run keeps three records of itself: the conversation (messages), the   *)
(* trajectory (steps) and the trace.  Contents, arguments, rationales and  *)
(* the assembled context are left out.                                     *)
(***************************************************************************)
EXTENDS Integers, SequencesExt

CONSTANTS
    CallIds,          \* call identifiers the provider uses
    ToolNames,        \* tool names the provider asks for
    Registered,       \* those in the tool registry
    None,             \* an absent call
    MaxSteps,         \* max_steps
    MaxToolRetries,   \* max_tool_retries: attempts per call
    MaxCalls          \* bound: tool calls in one reply of the provider

ASSUME RegistryAssumption == Registered \subseteq ToolNames
ASSUME NoneAssumption     == None \notin CallIds
ASSUME BudgetsAssumption  == MaxSteps \in Nat /\ MaxToolRetries \in Nat /\ MaxCalls \in Nat

VARIABLES
    status, stop_reason, step_count, messages, steps, trace_events,
    phase,      \* where run() is: at the loop head, asking, between calls, in a tool, over
    pending,    \* calls of the latest reply without a result; the first one is being executed
    attempt     \* attempts made for it

control == <<phase, pending, attempt>>
verdict == <<status, stop_reason>>
vars    == <<status, stop_reason, step_count, messages, steps, trace_events, control>>

ToolCall == [call_id : CallIds, tool_name : ToolNames]
Errors   == {"none", "unknown_tool", "invalid_arguments", "tool_execution_failed"}
Reasons  == {"none", "final_answer", "max_steps_exceeded", "non_retryable_error",
             "provider_failed"}
Events   == {"run_started", "model_requested", "model_responded", "model_provider_failed",
             "max_steps_exceeded", "tool_call_received", "tool_action_created",
             "tool_started", "tool_transient_error", "tool_succeeded", "tool_failed",
             "tool_validation_failed", "observation_recorded", "step_completed",
             "stop_reason_recorded", "run_completed"}

(* Messages of the three roles; a tool's message names its call and error *)
AgentMessage ==
    [role : {"user", "assistant", "tool"}, tool_calls : Seq(ToolCall),
     call_id : CallIds \cup {None}, error : Errors]

Message(role, calls, id, error) ==
    [role |-> role, tool_calls |-> calls, call_id |-> id, error |-> error]

(* A step of the trajectory is an action with its observation, or a stop *)
AgentStep == [step : Nat, call_id : CallIds \cup {None}, error : Errors,
              stop_reason : Reasons]

StopStep(n, reason) == [step |-> n, call_id |-> None, error |-> "none",
                        stop_reason |-> reason]

(* TraceRecorder.record, for several events of one call at one step *)
TraceEvent == [event : Events, step : Nat, call_id : CallIds \cup {None}]

Traced(names, n, id) ==
    trace_events \o [i \in DOMAIN names |-> [event |-> names[i], step |-> n, call_id |-> id]]
-----------------------------------------------------------------------------
Init ==
    /\ status = "running" /\ stop_reason = "none" /\ step_count = 0
    /\ messages = <<Message("user", <<>>, None, "none")>>
    /\ steps = <<>>
    /\ trace_events = <<[event |-> "run_started", step |-> 0, call_id |-> None]>>
    /\ phase = "head" /\ pending = <<>> /\ attempt = 0

StepsLeft    == step_count < MaxSteps

(* The run is over; `names` are the events that say why *)
Stop(new_status, reason, names, n) ==
    /\ status' = new_status
    /\ stop_reason' = reason
    /\ steps' = Append(steps, StopStep(n, reason))
    /\ trace_events' = Traced(names, n, None)
    /\ phase' = "over"
    /\ UNCHANGED <<pending, attempt>>

(* The head of the loop: the guard against too many steps, then the request *)
ExceedMaxSteps ==
    /\ phase = "head"
    /\ ~StepsLeft
    /\ Stop("max_steps_exceeded", "max_steps_exceeded",
            <<"max_steps_exceeded", "stop_reason_recorded">>, step_count)
    /\ UNCHANGED <<step_count, messages>>

RequestModel ==
    /\ phase = "head"
    /\ StepsLeft
    /\ phase' = "asking"
    /\ trace_events' = Traced(<<"model_requested">>, step_count, None)
    /\ UNCHANGED <<verdict, step_count, messages, steps, pending, attempt>>

(* provider.generate raises *)
ProviderFails ==
    /\ phase = "asking"
    /\ Stop("failed", "provider_failed",
            <<"model_provider_failed", "stop_reason_recorded">>, step_count)
    /\ UNCHANGED <<step_count, messages>>

Respond(calls) ==
    /\ phase = "asking"
    /\ messages' = Append(messages, Message("assistant", calls, None, "none"))
    /\ step_count' = step_count + 1

(* A reply without tool calls is the final answer *)
AnswerDirectly ==
    /\ Respond(<<>>)
    /\ Stop("completed", "final_answer",
            <<"model_responded", "stop_reason_recorded", "run_completed">>, step_count + 1)

RequestTools(calls) ==
    /\ calls # <<>>
    /\ Respond(calls)
    /\ phase' = "calls"
    /\ pending' = calls
    /\ trace_events' = Traced(<<"model_responded">>, step_count + 1, None)
    /\ UNCHANGED <<verdict, steps, attempt>>

(* Which errors end the run *)
NonRetryableKnown == {"tool_execution_failed"}  \* mutant: an unknown tool is let pass
NonRetryable      == {"unknown_tool", "tool_execution_failed"}

(* The first pending call has its result: the tail of the loop's body, with *)
(* the break that leaves the other calls of a failed run without one.       *)
AfterResultGoOn(error) ==  \* mutant: no break
    IF Len(pending) > 1 THEN "calls" ELSE IF error \in NonRetryable THEN "over" ELSE "head"

AfterResultAsk(error) ==  \* mutant: the model is asked again after every result
    IF error \in NonRetryable THEN "over" ELSE "head"

AfterResult(error) ==
    IF error \in NonRetryable THEN "over"
    ELSE IF Len(pending) > 1 THEN "calls" ELSE "head"

ActionStepCounted(id, error) ==  \* mutant: numbered by the trajectory, not by the loop
    [step |-> Len(steps) + 1, call_id |-> id, error |-> error, stop_reason |-> "none"]

ActionStep(id, error) ==
    [step |-> step_count, call_id |-> id, error |-> error, stop_reason |-> "none"]

(* The run's stop reason after a result *)
ReasonAfter(error) ==
    IF error \in NonRetryable THEN "non_retryable_error" ELSE stop_reason

Observe(error, names) ==
    LET id    == Head(pending).call_id
        fatal == error \in NonRetryable
    IN  /\ messages' = Append(messages, Message("tool", <<>>, id, error))
        /\ steps' = Append(steps, ActionStep(id, error))
        /\ trace_events' =
             Traced(names \o (IF fatal THEN <<"step_completed", "stop_reason_recorded">>
                              ELSE <<"step_completed">>), step_count, id)
        /\ status' = IF fatal THEN "failed" ELSE status
        /\ stop_reason' = ReasonAfter(error)
        /\ pending' = Tail(pending)
        /\ phase' = AfterResult(error)
        /\ UNCHANGED step_count

Started == <<"tool_call_received", "tool_action_created", "tool_started">>

(* The registry does not know the tool *)
RefuseUnknownTool ==
    /\ phase = "calls"
    /\ Head(pending).tool_name \notin Registered
    /\ Observe("unknown_tool", Append(Started, "tool_validation_failed"))
    /\ UNCHANGED attempt

StartTool ==
    /\ phase = "calls"
    /\ Head(pending).tool_name \in Registered
    /\ phase' = "executing"
    /\ attempt' = 0
    /\ trace_events' = Traced(Started, step_count, Head(pending).call_id)
    /\ UNCHANGED <<verdict, step_count, messages, steps, pending>>

(* One turn of the retry loop *)
AttemptsLeftLax == attempt <= MaxToolRetries  \* mutant: off by one
AttemptsLeft    == attempt < MaxToolRetries

Attempt ==
    /\ phase = "executing"
    /\ AttemptsLeft
    /\ attempt' = attempt + 1

ToolSucceeds == Attempt /\ Observe("none", <<"tool_succeeded", "observation_recorded">>)

(* ConnectionError or TimeoutError *)
ToolFailsTransiently ==
    /\ Attempt
    /\ trace_events' = Traced(<<"tool_transient_error">>, step_count, Head(pending).call_id)
    /\ UNCHANGED <<verdict, step_count, messages, steps, phase, pending>>

(* The arguments, or what the tool builds, fail validation: the model may   *)
(* try again                                                                *)
ToolRejects == Attempt /\ Observe("invalid_arguments", <<"tool_validation_failed">>)

(* The tool raises a KeyError of its own, which reads like an unknown tool *)
ToolRaisesKeyError == Attempt /\ Observe("unknown_tool", <<"tool_validation_failed">>)

ToolRaisesUncaught ==  \* mutant: the exception leaves run()
    /\ Attempt
    /\ phase' = "over"
    /\ UNCHANGED <<verdict, step_count, messages, steps, trace_events, pending>>

ToolRaises == Attempt /\ Observe("tool_execution_failed", <<"tool_failed">>)

(* All attempts failed transiently *)
GiveUp ==
    /\ phase = "executing"
    /\ ~AttemptsLeft
    /\ Observe("tool_execution_failed", <<"tool_failed", "observation_recorded">>)
    /\ UNCHANGED attempt

ExecuteTool == \/ ToolSucceeds \/ ToolFailsTransiently \/ ToolRejects
               \/ ToolRaisesKeyError \/ ToolRaises \/ GiveUp

Next == \/ ExceedMaxSteps
        \/ RequestModel
        \/ ProviderFails
        \/ AnswerDirectly
        \/ \E calls \in BoundedSeq(ToolCall, MaxCalls) : RequestTools(calls)
        \/ RefuseUnknownTool
        \/ StartTool
        \/ ExecuteTool

(* run() is a plain loop: it goes on as long as the provider and the tools  *)
(* return.                                                                  *)
Spec == Init /\ [][Next]_vars /\ WF_vars(Next)
-----------------------------------------------------------------------------
(* Properties *)

(* The types of a run's three records and of its control state *)
TypeOK ==
    /\ status \in {"running", "completed", "failed", "max_steps_exceeded"}
    /\ stop_reason \in Reasons
    /\ step_count \in Nat
    /\ messages \in Seq(AgentMessage)
    /\ steps \in Seq(AgentStep)
    /\ trace_events \in Seq(TraceEvent)
    /\ phase \in {"head", "asking", "calls", "executing", "over"}
    /\ pending \in Seq(ToolCall)
    /\ attempt \in Nat

(* The conversation the provider sees is well formed: the results of a      *)
(* reply's calls follow it in the order of the calls, the next reply comes  *)
(* only after the last of them, and the provider is never asked with a call *)
(* left unanswered, however many of them were retried or rejected           *)
(* (loop.py:296-297, 330-422).                                              *)
AnsweredInTurn ==
    \A i \in DOMAIN messages : messages[i].role = "assistant" =>
        LET calls == messages[i].tool_calls
            last  == i + Len(calls)
        IN  /\ \A k \in DOMAIN calls : i + k <= Len(messages) =>
                 /\ messages[i + k].role = "tool"
                 /\ messages[i + k].call_id = calls[k].call_id
            /\ last < Len(messages) => messages[last + 1].role = "assistant"
            /\ phase = "asking" => last <= Len(messages)

(* A result that ends the run is the last thing that happens in it, and the *)
(* run ends for no other error; bad arguments never end it (loop.py:350-420)*)
FailureEndsRun ==
    /\ \A i \in DOMAIN messages :
         messages[i].error \in {"unknown_tool", "tool_execution_failed"} =>
             i = Len(messages) /\ status = "failed" /\ phase = "over"
    /\ stop_reason = "non_retryable_error" =>
         Last(messages).error \in {"unknown_tool", "tool_execution_failed"}

IsAction(step) == step.call_id # None
IsResult(msg)  == msg.role = "tool"

Results          == {i \in DOMAIN messages : IsResult(messages[i])}
ResultsUpTo(i)   == Cardinality({j \in Results : j <= i})
RepliesUpTo(i)   == Cardinality({j \in 1..i : messages[j].role = "assistant"})

(* The trajectory tells what the conversation tells: its actions are the    *)
(* results, in the same order, each in the step of the reply that asked for *)
(* it; a stop is at most the last of it (loop.py:400-414).                  *)
TrajectoryAgrees ==
    /\ Cardinality({k \in DOMAIN steps : IsAction(steps[k])}) = Cardinality(Results)
    /\ \A i \in Results :
         LET action == steps[ResultsUpTo(i)]
         IN  /\ action.call_id = messages[i].call_id
             /\ action.error = messages[i].error
             /\ action.step = RepliesUpTo(i)
    /\ \A k \in DOMAIN steps : ~IsAction(steps[k]) =>
         k = Len(steps) /\ steps[k].stop_reason = stop_reason

Positions(name)       == {i \in DOMAIN trace_events : trace_events[i].event = name}
Count(name)           == Cardinality(Positions(name))

(* The trace of the call started at i: up to the step completed after it *)
InCall(i, j) ==
    /\ i < j /\ j <= Len(trace_events)
    /\ \A k \in i..(j - 1) : trace_events[k].event # "step_completed"

Transients(i) == {j \in Positions("tool_transient_error") : InCall(i, j)}

(* A call is executed at most max_tool_retries times: nothing but the       *)
(* record of its result follows its success, and it is given up, which an   *)
(* observation tells from an exception, only after as many transient errors *)
(* (loop.py:114-163).                                                       *)
RetryBudget ==
    \A i \in Positions("tool_started") :
        /\ Cardinality(Transients(i)) <= MaxToolRetries
        /\ \A j \in Positions("tool_succeeded") : InCall(i, j) =>
             /\ Cardinality(Transients(i)) < MaxToolRetries
             /\ j + 2 \in Positions("step_completed") /\ InCall(i, j + 2)
        /\ \A j \in Positions("tool_failed") :
             InCall(i, j) /\ j + 1 \in Positions("observation_recorded") =>
                 Cardinality(Transients(i)) = MaxToolRetries

(* The provider replies at most max_steps times, and a run is stopped for   *)
(* its steps only when they are all used and nothing is left unanswered     *)
(* (loop.py:237-250).                                                       *)
StepBudget ==
    /\ step_count <= MaxSteps
    /\ status = "max_steps_exceeded" => step_count = MaxSteps /\ pending = <<>>

(* The trace alone tells where a run is, what it has recorded elsewhere, and*)
(* whether and why it stopped: exactly one stop reason, at the end.         *)
TraceReplays ==
    /\ Count("model_responded") = step_count
    /\ Len(messages) = 1 + step_count + Count("step_completed")
    /\ Count("model_requested") = step_count +
         (IF phase = "asking" \/ stop_reason = "provider_failed" THEN 1 ELSE 0)
    /\ Count("tool_started") = Count("step_completed") + (IF phase = "executing" THEN 1 ELSE 0)
    /\ Count("stop_reason_recorded") = (IF status = "running" THEN 0 ELSE 1)
    /\ \A i \in Positions("stop_reason_recorded") : \A j \in (i + 1)..Len(trace_events) :
         trace_events[j].event = "run_completed"
    /\ \A i, j \in DOMAIN trace_events : i <= j => trace_events[i].step <= trace_events[j].step

(* What a run can still do: a call costs a start, its attempts and a last   *)
(* result, a step the request, the reply and its calls.                     *)
CallCost  == MaxToolRetries + 2
StepCost  == MaxCalls * CallCost + 2
StepsWork == (MaxSteps - step_count) * StepCost
CallsWork == Len(pending) * CallCost

WorkLeft ==
    CASE phase = "over"      -> 0
      [] phase = "head"      -> StepsWork + 1
      [] phase = "asking"    -> StepsWork
      [] phase = "calls"     -> StepsWork + CallsWork + 1
      [] phase = "executing" -> StepsWork + CallsWork - attempt

(* Whatever provider and tools do, every step uses up some of the work that *)
(* was left: there is no endless run of retries, of rejected calls or of    *)
(* replies that only ask for tools (loop.py:101-163, 235-250).              *)
EveryStepUsesUpWork == [][WorkLeft' \in Nat /\ WorkLeft' < WorkLeft]_vars

(* So the trace of a run is bounded, by six events for each of its steps    *)
(* (loop.py:101-163, 235-425).                                              *)
TraceIsBounded == Len(trace_events) + 6 * WorkLeft <= 1 + 6 * (MaxSteps * StepCost + 1)

(* The inductive strengthening: where the run is, and that the pending calls*)
(* are those of the latest reply that no message after it answers.          *)
Control ==
    /\ phase = "over" <=> status # "running"
    /\ stop_reason = "none" <=> status = "running"
    /\ phase \in {"calls", "executing"} => pending # <<>>
    /\ phase \in {"head", "asking"} => pending = <<>>
    /\ phase = "asking" => step_count < MaxSteps
    /\ attempt <= MaxToolRetries
    /\ messages # <<>>

Latest(i) ==
    /\ messages[i].role = "assistant"
    /\ \A j \in (i + 1)..Len(messages) : messages[j].role # "assistant"

OpenCalls ==
    phase # "over" => \A i \in DOMAIN messages : Latest(i) =>
        LET calls == messages[i].tool_calls
        IN  /\ Len(messages) + Len(pending) = i + Len(calls)
            /\ \A k \in DOMAIN pending : pending[k] = calls[Len(messages) - i + k]

RunInv ==
    /\ TypeOK /\ Control /\ OpenCalls
    /\ AnsweredInTurn /\ FailureEndsRun /\ StepBudget
=============================================================================
