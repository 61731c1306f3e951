------------------------- MODULE AgentRuntimeProofs -------------------------
(***************************************************************************)
(* Proofs about a run of the agent's loop, for every registry, every set   *)
(* of calls, and every budget of steps, attempts and calls in a reply, and *)
(* about the same run behind the API, for every number of pollers.         *)
(***************************************************************************)
EXTENDS ApiRuns, FiniteSetTheorems, SequenceTheorems, TLAPS

LEMMA Appended ==
    ASSUME NEW S, NEW s \in Seq(S), NEW e \in S
    PROVE  /\ Append(s, e) \in Seq(S)
           /\ Len(Append(s, e)) = Len(s) + 1
           /\ \A i \in 1..Len(s) : Append(s, e)[i] = s[i]
           /\ Append(s, e)[Len(s) + 1] = e
           /\ Last(Append(s, e)) = e
BY DEF Last

(* The events recorded for one call *)
LEMMA NewEvents ==
    ASSUME NEW names \in Seq(Events), NEW n \in Nat, NEW id \in CallIds \cup {None}, NEW new,
           new = [i \in DOMAIN names |-> [event |-> names[i], step |-> n, call_id |-> id]]
    PROVE  /\ new \in Seq(TraceEvent) /\ Len(new) = Len(names) /\ DOMAIN new = DOMAIN names
           /\ \A k \in DOMAIN names : new[k].event = names[k] /\ new[k].step = n
<1>1. \A i \in DOMAIN names : /\ new[i] \in TraceEvent
                              /\ new[i].event = names[i] /\ new[i].step = n
  BY DEF TraceEvent
<1>2. DOMAIN new = 1..Len(names) /\ Len(names) \in Nat /\ DOMAIN names = 1..Len(names)
  OBVIOUS
<1>3. new \in [1..Len(names) -> TraceEvent]
  <2>1. new = [i \in DOMAIN names |-> new[i]]
    OBVIOUS
  <2> QED BY <1>1, <1>2, <2>1
<1> QED BY <1>1, <1>2, <1>3

LEMMA TracedType ==
    ASSUME TypeOK, NEW names \in Seq(Events), NEW n \in Nat, NEW id \in CallIds \cup {None}
    PROVE  Traced(names, n, id) \in Seq(TraceEvent)
<1>1. PICK new : new = [i \in DOMAIN names |-> [event |-> names[i], step |-> n, call_id |-> id]]
  OBVIOUS
<1>2. new \in Seq(TraceEvent)
  BY <1>1, NewEvents
<1>3. trace_events \in Seq(TraceEvent)
  BY DEF TypeOK
<1>4. trace_events \o new \in Seq(TraceEvent)
  BY <1>2, <1>3
<1> QED BY <1>1, <1>4 DEF Traced

(* The call being executed, or to be executed next *)
LEMMA HeadCall ==
    ASSUME RunInv, phase \in {"calls", "executing"}
    PROVE  Head(pending).call_id \in CallIds
<1>1. pending # <<>> /\ pending \in Seq(ToolCall)
  BY DEF RunInv, Control, TypeOK
<1>2. Head(pending) \in ToolCall
  BY <1>1
<1> QED BY <1>2 DEF ToolCall

LEMMA MessageType ==
    ASSUME TypeOK
    PROVE  /\ Len(messages) \in Nat /\ DOMAIN messages = 1..Len(messages)
           /\ \A i \in DOMAIN messages : messages[i].tool_calls \in Seq(ToolCall)
<1>1. messages \in Seq(AgentMessage)
  BY DEF TypeOK
<1>2. \A i \in DOMAIN messages : messages[i] \in AgentMessage
  BY <1>1
<1>3. \A m \in AgentMessage : m.tool_calls \in Seq(ToolCall)
  BY DEF AgentMessage
<1> QED BY <1>1, <1>2, <1>3

(* A later reply comes after the answers to an earlier one *)
LEMMA AnswersPrecedeReplies ==
    ASSUME TypeOK, AnsweredInTurn, NEW i \in DOMAIN messages, NEW j \in DOMAIN messages,
           i < j, messages[i].role = "assistant", messages[j].role = "assistant"
    PROVE  i + Len(messages[i].tool_calls) < j
<1> DEFINE calls == messages[i].tool_calls
<1>1. calls \in Seq(ToolCall) /\ i \in Nat /\ j \in Nat /\ Len(messages) \in Nat
      /\ DOMAIN messages = 1..Len(messages)
  BY MessageType
<1>2. \A k \in DOMAIN calls : i + k <= Len(messages) => messages[i + k].role = "tool"
  BY DEF AnsweredInTurn
<1> HIDE DEF calls
<1>3. SUFFICES ASSUME j <= i + Len(calls) PROVE FALSE
  BY <1>1 DEF calls
<1>4. j - i \in DOMAIN calls /\ i + (j - i) = j
  BY <1>1, <1>3
<1>5. messages[j].role = "tool"
  BY <1>1, <1>2, <1>4
<1> QED BY <1>5

(* The latest reply is the only one whose answers may be incomplete *)
LEMMA EarlierRepliesAnswered ==
    ASSUME TypeOK, AnsweredInTurn, NEW i \in DOMAIN messages,
           messages[i].role = "assistant", ~Latest(i)
    PROVE  i + Len(messages[i].tool_calls) < Len(messages)
<1>1. PICK j \in (i + 1)..Len(messages) : messages[j].role = "assistant"
  BY DEF Latest
<1>2. j \in DOMAIN messages /\ i < j /\ j <= Len(messages)
  BY <1>1 DEF TypeOK
<1>3. i + Len(messages[i].tool_calls) < j
  BY <1>1, <1>2, AnswersPrecedeReplies
<1>4. Len(messages[i].tool_calls) \in Nat /\ i \in Nat /\ Len(messages) \in Nat
  BY MessageType
<1> QED BY <1>2, <1>3, <1>4

LEMMA InitRunInv == Init => RunInv
<1> SUFFICES ASSUME Init PROVE RunInv
  OBVIOUS
<1> DEFINE m == Message("user", <<>>, None, "none")
           e == [event |-> "run_started", step |-> 0, call_id |-> None]
<1>1. m \in AgentMessage
  <2>1. <<>> \in Seq(ToolCall)
    OBVIOUS
  <2> QED BY <2>1 DEF Message, AgentMessage, Errors
<1>2. e \in TraceEvent
  BY DEF TraceEvent, Events
<1>3. m.role = "user" /\ m.error = "none"
  BY DEF Message
<1>4. messages = <<m>> /\ trace_events = <<e>>
  BY DEF Init
<1> HIDE DEF m, e
<1>5. /\ messages \in Seq(AgentMessage) /\ trace_events \in Seq(TraceEvent)
      /\ Len(messages) = 1 /\ DOMAIN messages = {1} /\ messages[1] = m
  BY <1>1, <1>2, <1>4
<1>6. TypeOK
  BY <1>5 DEF Init, TypeOK, Reasons
<1>7. \A i \in DOMAIN messages : messages[i].role = "user" /\ messages[i].error = "none"
  BY <1>3, <1>5
<1>8. AnsweredInTurn /\ OpenCalls
  BY <1>7 DEF AnsweredInTurn, OpenCalls, Latest
<1>9. Control
  BY <1>4, <1>5, BudgetsAssumption DEF Init, Control
<1>10. FailureEndsRun /\ StepBudget
  BY <1>7, BudgetsAssumption DEF Init, FailureEndsRun, StepBudget
<1> QED BY <1>6, <1>8, <1>9, <1>10 DEF RunInv

(* A step that leaves the conversation alone and does not ask *)
LEMMA SameConversation ==
    ASSUME RunInv, TypeOK', Control', StepBudget', UNCHANGED messages,
           phase' # "asking",
           phase' # "over" => UNCHANGED pending /\ phase # "over",
           status' # status => stop_reason' # "non_retryable_error",
           status' = status => UNCHANGED <<stop_reason, phase>> \/ phase' # "over",
           phase # "over"
    PROVE  RunInv'
<1>1. AnsweredInTurn'
  BY DEF RunInv, AnsweredInTurn
<1>2. OpenCalls'
  BY DEF RunInv, OpenCalls, Latest
<1>3. \A i \in DOMAIN messages :
         messages[i].error \notin {"unknown_tool", "tool_execution_failed"}
  BY DEF RunInv, FailureEndsRun
<1>4. stop_reason' # "non_retryable_error"
  <2>1. stop_reason = "none"
    BY DEF RunInv, Control
  <2>2. CASE status' = status
    BY <2>1, <2>2 DEF RunInv, Control
  <2> QED BY <2>2
<1>5. FailureEndsRun'
  BY <1>3, <1>4 DEF FailureEndsRun
<1> QED BY <1>1, <1>2, <1>5 DEF RunInv

LEMMA StopSteps ==
    ASSUME TypeOK, NEW n \in Nat, NEW reason \in Reasons
    PROVE  Append(steps, StopStep(n, reason)) \in Seq(AgentStep)
<1>1. StopStep(n, reason) \in AgentStep
  BY DEF StopStep, AgentStep, Errors
<1>2. steps \in Seq(AgentStep)
  BY DEF TypeOK
<1> QED BY <1>1, <1>2, Appended

(* The run is stopped before a reply: by its steps or by the provider *)
LEMMA StopInv ==
    ASSUME RunInv, ExceedMaxSteps \/ ProviderFails
    PROVE  RunInv'
<1> USE DEF RunInv
<1>1. /\ phase \in {"head", "asking"} /\ phase' = "over"
      /\ UNCHANGED <<step_count, messages, pending, attempt>>
      /\ status' \in {"failed", "max_steps_exceeded"}
      /\ stop_reason' \in {"provider_failed", "max_steps_exceeded"}
      /\ status' = "max_steps_exceeded" => ~StepsLeft
  BY DEF ExceedMaxSteps, ProviderFails, Stop
<1>2. steps' \in Seq(AgentStep)
  <2>1. PICK reason \in Reasons : steps' = Append(steps, StopStep(step_count, reason))
    BY DEF ExceedMaxSteps, ProviderFails, Stop, Reasons
  <2> QED BY <2>1, StopSteps DEF TypeOK
<1>3. trace_events' \in Seq(TraceEvent)
  <2>1. /\ <<"max_steps_exceeded", "stop_reason_recorded">> \in Seq(Events)
        /\ <<"model_provider_failed", "stop_reason_recorded">> \in Seq(Events)
    BY DEF Events
  <2>2. PICK names \in Seq(Events) : trace_events' = Traced(names, step_count, None)
    BY <2>1, Zenon DEF ExceedMaxSteps, ProviderFails, Stop
  <2> QED BY <2>2, TracedType DEF TypeOK
<1>4. TypeOK'
  BY <1>1, <1>2, <1>3 DEF TypeOK, Reasons
<1>5. status = "running" /\ stop_reason = "none" /\ pending = <<>>
  BY <1>1 DEF Control
<1>6. Control'
  BY <1>1, <1>5 DEF Control
<1>7. StepBudget'
  BY <1>1, <1>5, BudgetsAssumption DEF StepBudget, StepsLeft, TypeOK
<1> QED BY <1>1, <1>4, <1>5, <1>6, <1>7, SameConversation

(* Nothing is recorded in the conversation: the provider is asked, or a     *)
(* tool is started or fails transiently.                                    *)
LEMMA RequestInv ==
    ASSUME RunInv, RequestModel
    PROVE  RunInv'
<1> USE DEF RunInv
<1>1. /\ phase = "head" /\ phase' = "asking" /\ StepsLeft
      /\ UNCHANGED <<verdict, step_count, messages, steps, pending, attempt>>
      /\ trace_events' = Traced(<<"model_requested">>, step_count, None)
  BY DEF RequestModel
<1>2. trace_events' \in Seq(TraceEvent)
  <2>1. <<"model_requested">> \in Seq(Events)
    BY DEF Events
  <2> QED BY <1>1, <2>1, TracedType DEF TypeOK
<1>3. TypeOK' /\ Control' /\ StepBudget' /\ OpenCalls' /\ FailureEndsRun'
  <2>1. TypeOK'
    BY <1>1, <1>2 DEF TypeOK, verdict
  <2>2. Control' /\ StepBudget'
    BY <1>1 DEF Control, verdict, StepsLeft, StepBudget
  <2>3. OpenCalls' /\ FailureEndsRun'
    BY <1>1 DEF OpenCalls, Latest, FailureEndsRun, verdict
  <2> QED BY <2>1, <2>2, <2>3
<1>4. ASSUME NEW i \in DOMAIN messages, messages[i].role = "assistant"
      PROVE  i + Len(messages[i].tool_calls) <= Len(messages)
  <2>1. CASE Latest(i)
    <3>1. Len(messages) + Len(pending) = i + Len(messages[i].tool_calls) /\ pending = <<>>
      BY <1>1, <2>1 DEF OpenCalls, Control
    <3> QED BY <3>1, MessageType
  <2>2. CASE ~Latest(i)
    <3>1. i + Len(messages[i].tool_calls) < Len(messages)
      BY <1>4, <2>2, EarlierRepliesAnswered
    <3> QED BY <3>1, MessageType
  <2> QED BY <2>1, <2>2
<1>5. AnsweredInTurn'
  BY <1>1, <1>4 DEF AnsweredInTurn
<1> QED BY <1>3, <1>5

LEMMA ToolStartInv ==
    ASSUME RunInv, StartTool \/ ToolFailsTransiently
    PROVE  RunInv'
<1> USE DEF RunInv
<1>1. /\ phase \in {"calls", "executing"} /\ phase' = "executing"
      /\ UNCHANGED <<verdict, step_count, messages, steps, pending>>
  BY DEF StartTool, ToolFailsTransiently, Attempt
<1>2. attempt' \in Nat /\ attempt' <= MaxToolRetries
  <2>1. attempt \in Nat
    BY DEF TypeOK
  <2>2. attempt' = 0 \/ (attempt' = attempt + 1 /\ attempt < MaxToolRetries)
    BY DEF StartTool, ToolFailsTransiently, Attempt, AttemptsLeft
  <2> QED BY <2>1, <2>2, BudgetsAssumption
<1>3. Head(pending).call_id \in CallIds
  BY <1>1, HeadCall
<1>4. trace_events' \in Seq(TraceEvent)
  <2>1. Started \in Seq(Events) /\ <<"tool_transient_error">> \in Seq(Events)
    BY DEF Started, Events
  <2>2. PICK names \in Seq(Events) :
          trace_events' = Traced(names, step_count, Head(pending).call_id)
    BY <2>1, Zenon DEF StartTool, ToolFailsTransiently
  <2> QED BY <1>3, <2>2, TracedType DEF TypeOK
<1>5. TypeOK'
  BY <1>1, <1>2, <1>4 DEF TypeOK, verdict
<1>6. Control' /\ StepBudget'
  BY <1>1, <1>2 DEF Control, StepBudget, verdict
<1>7. status' = status /\ stop_reason' = stop_reason
  BY <1>1 DEF verdict
<1> QED BY <1>1, <1>5, <1>6, <1>7, SameConversation

(* The conversation with one more message *)
LEMMA OneMoreMessage ==
    ASSUME TypeOK, NEW m \in AgentMessage, messages' = Append(messages, m)
    PROVE  /\ messages' \in Seq(AgentMessage)
           /\ Len(messages) \in Nat
           /\ Len(messages') = Len(messages) + 1
           /\ DOMAIN messages = 1..Len(messages)
           /\ DOMAIN messages' = 1..(Len(messages) + 1)
           /\ \A i \in DOMAIN messages : messages'[i] = messages[i]
           /\ messages'[Len(messages) + 1] = m
           /\ Last(messages') = m
<1>1. messages \in Seq(AgentMessage)
  BY DEF TypeOK
<1>2. /\ messages' \in Seq(AgentMessage)
      /\ Len(messages') = Len(messages) + 1
      /\ \A i \in 1..Len(messages) : messages'[i] = messages[i]
      /\ messages'[Len(messages) + 1] = m
      /\ Last(messages') = m
  BY <1>1, Appended
<1> QED BY <1>1, <1>2

(* A reply: every earlier one is answered, so it comes in turn *)
LEMMA RespondInv ==
    ASSUME RunInv, NEW calls \in Seq(ToolCall), Respond(calls),
           \/ calls = <<>> /\ AnswerDirectly
           \/ RequestTools(calls)
    PROVE  RunInv'
<1> USE DEF RunInv
<1> DEFINE m == Message("assistant", calls, None, "none")
           n == Len(messages)
<1>1. /\ phase = "asking" /\ phase' \in {"calls", "over"}
      /\ messages' = Append(messages, m) /\ step_count' = step_count + 1
      /\ UNCHANGED attempt
  BY DEF Respond, AnswerDirectly, RequestTools, Stop
<1>2. \/ /\ calls = <<>> /\ phase' = "over" /\ status' = "completed"
         /\ stop_reason' = "final_answer" /\ UNCHANGED pending
      \/ /\ calls # <<>> /\ phase' = "calls" /\ UNCHANGED <<status, stop_reason>>
         /\ pending' = calls
  BY DEF AnswerDirectly, RequestTools, Stop, verdict
<1>3. status = "running" /\ stop_reason = "none" /\ pending = <<>> /\ step_count < MaxSteps
      /\ step_count \in Nat
  BY <1>1 DEF Control, TypeOK
<1>4. m \in AgentMessage /\ m.role = "assistant" /\ m.tool_calls = calls /\ m.error = "none"
  BY DEF Message, AgentMessage, Errors
<1> HIDE DEF m, n
<1>5. /\ messages' \in Seq(AgentMessage) /\ n \in Nat
      /\ Len(messages') = n + 1 /\ DOMAIN messages = 1..n /\ DOMAIN messages' = 1..(n + 1)
      /\ \A i \in DOMAIN messages : messages'[i] = messages[i]
      /\ messages'[n + 1] = m /\ Last(messages') = m
  BY <1>1, <1>4, OneMoreMessage DEF n
<1>6. TypeOK'
  <2>1. steps' \in Seq(AgentStep)
    <3>1. CASE AnswerDirectly
      <4>1. steps' = Append(steps, StopStep(step_count + 1, "final_answer"))
        BY <3>1 DEF AnswerDirectly, Stop
      <4> QED BY <1>3, <4>1, StopSteps DEF Reasons
    <3>2. CASE RequestTools(calls)
      BY <3>2 DEF RequestTools, TypeOK
    <3> QED BY <3>1, <3>2
  <2>2. trace_events' \in Seq(TraceEvent)
    <3>1. /\ <<"model_responded", "stop_reason_recorded", "run_completed">> \in Seq(Events)
          /\ <<"model_responded">> \in Seq(Events)
      BY DEF Events
    <3>2. PICK names \in Seq(Events) : trace_events' = Traced(names, step_count + 1, None)
      BY <3>1, Zenon DEF AnswerDirectly, RequestTools, Stop
    <3> QED BY <1>3, <3>2, TracedType
  <2> QED BY <1>1, <1>2, <1>3, <1>5, <2>1, <2>2 DEF TypeOK, Reasons
<1>7. Control'
  <2>1. messages' # <<>>
    BY <1>5
  <2> QED BY <1>1, <1>2, <1>3, <2>1 DEF Control
<1>8. StepBudget'
  BY <1>1, <1>2, <1>3, BudgetsAssumption DEF StepBudget
<1>9. FailureEndsRun'
  <2>1. \A i \in DOMAIN messages' :
           messages'[i].error \notin {"unknown_tool", "tool_execution_failed"}
    <3>1. \A i \in DOMAIN messages :
             messages[i].error \notin {"unknown_tool", "tool_execution_failed"}
      BY <1>1 DEF FailureEndsRun
    <3> QED BY <1>4, <1>5, <3>1
  <2>2. stop_reason' # "non_retryable_error"
    BY <1>2, <1>3
  <2> QED BY <2>1, <2>2 DEF FailureEndsRun
<1>10. OpenCalls'
  <2> SUFFICES ASSUME phase' # "over", NEW i \in DOMAIN messages', Latest(i)'
               PROVE  /\ Len(messages') + Len(pending') = i + Len(messages'[i].tool_calls)
                      /\ \A k \in DOMAIN pending' :
                            pending'[k] = messages'[i].tool_calls[Len(messages') - i + k]
    BY DEF OpenCalls
  <2>1. i = n + 1
    <3>1. ~(i < n + 1)
      <4>1. ASSUME i < n + 1 PROVE FALSE
        <5>1. n + 1 \in (i + 1)..Len(messages')
          BY <1>5, <4>1
        <5> QED BY <1>4, <1>5, <5>1 DEF Latest
      <4> QED BY <4>1
    <3> QED BY <1>5, <3>1
  <2>2. messages'[i].tool_calls = calls /\ pending' = calls /\ Len(messages') = i
    BY <1>2, <1>4, <1>5, <2>1
  <2>3. calls \in Seq(ToolCall) /\ i \in Nat
    BY <1>5, <2>1
  <2> QED BY <2>2, <2>3
<1>11. AnsweredInTurn'
  <2> SUFFICES ASSUME NEW i \in DOMAIN messages', messages'[i].role = "assistant"
               PROVE  LET cs   == messages'[i].tool_calls
                          last == i + Len(cs)
                      IN  /\ \A k \in DOMAIN cs : i + k <= Len(messages') =>
                               /\ messages'[i + k].role = "tool"
                               /\ messages'[i + k].call_id = cs[k].call_id
                          /\ last < Len(messages') => messages'[last + 1].role = "assistant"
    <3>1. phase' # "asking"
      BY <1>1
    <3> QED BY <3>1, Zenon DEF AnsweredInTurn
  <2>1. CASE i = n + 1
    <3>1. messages'[i].tool_calls = calls /\ Len(calls) \in Nat /\ DOMAIN calls = 1..Len(calls)
      BY <1>4, <1>5, <2>1
    <3>2. Len(messages') = i /\ i \in Nat
      BY <1>5, <2>1
    <3>3. \A k \in DOMAIN calls : ~(i + k <= Len(messages'))
      BY <3>1, <3>2
    <3>4. ~(i + Len(calls) < Len(messages'))
      BY <3>1, <3>2
    <3> QED BY <3>1, <3>3, <3>4
  <2>2. CASE i \in DOMAIN messages
    <3> DEFINE cs == messages[i].tool_calls
    <3>1. /\ messages'[i] = messages[i] /\ messages[i].role = "assistant"
          /\ cs \in Seq(ToolCall) /\ i \in 1..n
      BY <1>5, <2>2, MessageType
    <3>2. /\ \A k \in DOMAIN cs : i + k <= n =>
               /\ messages[i + k].role = "tool"
               /\ messages[i + k].call_id = cs[k].call_id
          /\ i + Len(cs) < n => messages[i + Len(cs) + 1].role = "assistant"
          /\ i + Len(cs) <= n
      BY <1>1, <2>2, <3>1 DEF AnsweredInTurn, n
    <3> HIDE DEF cs
    <3>3. \A k \in DOMAIN cs : i + k <= n /\ i + k \in DOMAIN messages
      BY <1>5, <3>1, <3>2
    <3>4. \A k \in DOMAIN cs : /\ messages'[i + k].role = "tool"
                               /\ messages'[i + k].call_id = cs[k].call_id
      BY <1>5, <3>2, <3>3
    <3>5. messages'[i + Len(cs) + 1].role = "assistant"
      <4>1. CASE i + Len(cs) < n
        <5>1. i + Len(cs) + 1 \in DOMAIN messages
          BY <1>5, <3>1, <4>1
        <5> QED BY <1>5, <3>2, <4>1, <5>1
      <4>2. CASE i + Len(cs) = n
        BY <1>4, <1>5, <4>2
      <4> QED BY <1>5, <3>1, <3>2, <4>1, <4>2
    <3> QED BY <3>1, <3>4, <3>5 DEF cs
  <2> QED BY <1>5, <2>1, <2>2
<1> QED BY <1>6, <1>7, <1>8, <1>9, <1>10, <1>11

(* A result: it answers the first pending call of the latest reply *)
LEMMA ObserveInv ==
    ASSUME RunInv, phase \in {"calls", "executing"},
           NEW error \in Errors, NEW names \in Seq(Events), Observe(error, names),
           attempt' \in Nat, attempt' <= MaxToolRetries
    PROVE  RunInv'
<1> USE DEF RunInv
<1> DEFINE id    == Head(pending).call_id
           m     == Message("tool", <<>>, id, error)
           fatal == error \in NonRetryable
           n     == Len(messages)
<1>1. /\ messages' = Append(messages, m)
      /\ steps' = Append(steps, ActionStep(id, error))
      /\ trace_events' =
           Traced(names \o (IF fatal THEN <<"step_completed", "stop_reason_recorded">>
                            ELSE <<"step_completed">>), step_count, id)
      /\ pending' = Tail(pending)
      /\ UNCHANGED step_count
  BY DEF Observe
<1>2. /\ status' = IF fatal THEN "failed" ELSE status
      /\ stop_reason' = IF fatal THEN "non_retryable_error" ELSE stop_reason
      /\ phase' = IF fatal THEN "over" ELSE IF Len(pending) > 1 THEN "calls" ELSE "head"
  BY Zenon DEF Observe, ReasonAfter, AfterResult
<1>3. fatal <=> error \in {"unknown_tool", "tool_execution_failed"}
  BY DEF NonRetryable
<1>4. status = "running" /\ stop_reason = "none" /\ pending # <<>>
  BY DEF Control
<1>5. pending \in Seq(ToolCall) /\ Len(pending) \in Nat /\ Len(pending) >= 1
  BY <1>4 DEF TypeOK
<1>6. id \in CallIds /\ Tail(pending) \in Seq(ToolCall)
  <2>1. Head(pending) \in ToolCall /\ Tail(pending) \in Seq(ToolCall)
    BY <1>4, <1>5
  <2> QED BY <2>1 DEF ToolCall
<1>7. /\ m \in AgentMessage /\ m.role = "tool" /\ m.tool_calls = <<>>
      /\ m.call_id = id /\ m.error = error
  <2> HIDE DEF id
  <2>1. <<>> \in Seq(ToolCall)
    OBVIOUS
  <2> QED BY <1>6, <2>1 DEF Message, AgentMessage
<1> HIDE DEF m, n, fatal
<1>8. /\ messages' \in Seq(AgentMessage) /\ n \in Nat
      /\ Len(messages') = n + 1 /\ DOMAIN messages = 1..n /\ DOMAIN messages' = 1..(n + 1)
      /\ \A i \in DOMAIN messages : messages'[i] = messages[i]
      /\ messages'[n + 1] = m /\ Last(messages') = m
  BY <1>1, <1>7, OneMoreMessage DEF n
<1>9. TypeOK'
  <2>1. steps' \in Seq(AgentStep)
    <3>1. ActionStep(id, error) \in AgentStep
      <4> HIDE DEF id
      <4> QED BY <1>6 DEF ActionStep, AgentStep, TypeOK, Reasons
    <3>2. steps \in Seq(AgentStep)
      BY DEF TypeOK
    <3> QED BY <1>1, <3>1, <3>2, Appended
  <2>2. trace_events' \in Seq(TraceEvent)
    <3> DEFINE ending == IF fatal THEN <<"step_completed", "stop_reason_recorded">>
                         ELSE <<"step_completed">>
    <3>1. /\ <<"step_completed", "stop_reason_recorded">> \in Seq(Events)
          /\ <<"step_completed">> \in Seq(Events)
      BY DEF Events
    <3>2. ending \in Seq(Events)
      BY <3>1
    <3> HIDE DEF ending
    <3>3. names \o ending \in Seq(Events)
      BY <3>2
    <3>4. trace_events' = Traced(names \o ending, step_count, id)
      BY <1>1 DEF ending
    <3>5. step_count \in Nat
      BY DEF TypeOK
    <3> QED BY <1>6, <3>3, <3>4, <3>5, TracedType
  <2>3. pending' \in Seq(ToolCall)
    BY <1>1, <1>6
  <2> QED BY <1>1, <1>2, <1>4, <1>8, <2>1, <2>2, <2>3 DEF TypeOK, Reasons
<1>10. Control'
  <2>1. messages' # <<>>
    BY <1>8
  <2>2. phase' = "calls" => pending' # <<>>
    <3>1. phase' = "calls" => Len(pending) > 1
      BY <1>2
    <3>2. Len(pending) > 1 => Tail(pending) # <<>>
      BY <1>4, <1>5
    <3> QED BY <1>1, <3>1, <3>2
  <2>3. phase' = "head" => pending' = <<>>
    BY <1>1, <1>2, <1>4, <1>5
  <2>4. phase' \in {"calls", "head", "over"}
    BY <1>2
  <2> QED BY <1>2, <1>4, <2>1, <2>2, <2>3, <2>4 DEF Control
<1>11. StepBudget'
  BY <1>1, <1>2, <1>4 DEF StepBudget
<1>12. FailureEndsRun'
  <2>1. \A i \in DOMAIN messages :
           messages'[i].error \notin {"unknown_tool", "tool_execution_failed"}
    BY <1>4, <1>8 DEF FailureEndsRun
  <2>2. messages'[n + 1].error = error /\ Last(messages').error = error
    BY <1>7, <1>8
  <2>3. fatal => status' = "failed" /\ phase' = "over"
    BY <1>2
  <2>4. stop_reason' = "non_retryable_error" => fatal
    BY <1>2, <1>4
  <2> QED BY <1>3, <1>8, <2>1, <2>2, <2>3, <2>4 DEF FailureEndsRun
<1>13. \A i \in DOMAIN messages : messages[i].role = "assistant" =>
         \/ i + Len(messages[i].tool_calls) < n
         \/ /\ Latest(i) /\ n + Len(pending) = i + Len(messages[i].tool_calls)
            /\ \A k \in DOMAIN pending : pending[k] = messages[i].tool_calls[n - i + k]
  BY EarlierRepliesAnswered DEF OpenCalls, n
<1>14. OpenCalls'
  <2> SUFFICES ASSUME phase' # "over", NEW i \in DOMAIN messages', Latest(i)'
               PROVE  /\ Len(messages') + Len(pending') = i + Len(messages'[i].tool_calls)
                      /\ \A k \in DOMAIN pending' :
                            pending'[k] = messages'[i].tool_calls[Len(messages') - i + k]
    BY DEF OpenCalls
  <2>1. i \in DOMAIN messages /\ messages'[i] = messages[i] /\ i \in 1..n
    <3>1. i # n + 1
      BY <1>7, <1>8 DEF Latest
    <3> QED BY <1>8, <3>1
  <2>2. Latest(i)
    BY <1>8, <2>1 DEF Latest, n
  <2> DEFINE calls == messages[i].tool_calls
  <2>3. n + Len(pending) = i + Len(calls)
        /\ \A k \in DOMAIN pending : pending[k] = calls[n - i + k]
    BY <2>1, <2>2 DEF OpenCalls, n
  <2>4. messages'[i].tool_calls = calls /\ Len(calls) \in Nat
    BY <2>1, MessageType
  <2> HIDE DEF calls
  <2>5. /\ Len(pending') = Len(pending) - 1
        /\ DOMAIN pending' = 1..(Len(pending) - 1)
        /\ \A k \in DOMAIN pending' : pending'[k] = pending[k + 1] /\ k + 1 \in DOMAIN pending
    BY <1>1, <1>4, <1>5
  <2>6. Len(messages') + Len(pending') = i + Len(calls)
    BY <1>5, <1>8, <2>1, <2>3, <2>4, <2>5
  <2>7. ASSUME NEW k \in DOMAIN pending'
        PROVE  pending'[k] = calls[Len(messages') - i + k]
    <3>1. pending'[k] = calls[n - i + (k + 1)]
      BY <2>3, <2>5
    <3>2. n - i + (k + 1) = Len(messages') - i + k
      BY <1>5, <1>8, <2>1, <2>5
    <3> QED BY <3>1, <3>2
  <2> QED BY <2>4, <2>6, <2>7
<1>15. AnsweredInTurn'
  <2> SUFFICES ASSUME NEW i \in DOMAIN messages', messages'[i].role = "assistant"
               PROVE  LET cs   == messages'[i].tool_calls
                          last == i + Len(cs)
                      IN  /\ \A k \in DOMAIN cs : i + k <= Len(messages') =>
                               /\ messages'[i + k].role = "tool"
                               /\ messages'[i + k].call_id = cs[k].call_id
                          /\ last < Len(messages') => messages'[last + 1].role = "assistant"
    BY <1>2 DEF AnsweredInTurn
  <2>1. i \in DOMAIN messages /\ messages'[i] = messages[i] /\ i \in 1..n
    <3>1. i # n + 1
      BY <1>7, <1>8
    <3> QED BY <1>8, <3>1
  <2> DEFINE cs == messages[i].tool_calls
  <2>2. messages[i].role = "assistant" /\ cs \in Seq(ToolCall)
    BY <2>1, MessageType
  <2>3. /\ \A k \in DOMAIN cs : i + k <= n =>
             /\ messages[i + k].role = "tool"
             /\ messages[i + k].call_id = cs[k].call_id
        /\ i + Len(cs) < n => messages[i + Len(cs) + 1].role = "assistant"
    BY <2>1, <2>2 DEF AnsweredInTurn, n
  <2>4. \/ i + Len(cs) < n
        \/ n + Len(pending) = i + Len(cs) /\ pending[1] = cs[n - i + 1]
    BY <1>5, <1>13, <2>1, <2>2
  <2> HIDE DEF cs
  <2>5. \A k \in DOMAIN cs : i + k <= n =>
           /\ messages'[i + k].role = "tool"
           /\ messages'[i + k].call_id = cs[k].call_id
    <3>1. \A k \in DOMAIN cs : i + k <= n => i + k \in DOMAIN messages
      BY <1>8, <2>1, <2>2
    <3> QED BY <1>8, <2>3, <3>1
  <2>6. \A k \in DOMAIN cs : i + k = n + 1 =>
           /\ messages'[i + k].role = "tool"
           /\ messages'[i + k].call_id = cs[k].call_id
    <3> SUFFICES ASSUME NEW k \in DOMAIN cs, i + k = n + 1
                 PROVE  cs[k].call_id = id
      BY <1>7, <1>8
    <3>1. k = n - i + 1 /\ k \in 1..Len(cs) /\ Len(cs) \in Nat
      BY <1>8, <2>1, <2>2
    <3>2. pending[1] = cs[k]
      BY <1>8, <2>1, <2>4, <3>1
    <3> QED BY <1>4, <1>5, <3>2
  <2>7. i + Len(cs) < n + 1 => messages'[i + Len(cs) + 1].role = "assistant"
    <3> SUFFICES ASSUME i + Len(cs) < n + 1
                 PROVE  messages'[i + Len(cs) + 1].role = "assistant"
      OBVIOUS
    <3>1. Len(cs) \in Nat
      BY <2>2
    <3>2. i + Len(cs) < n
      BY <1>5, <1>8, <2>1, <2>4, <3>1
    <3>3. i + Len(cs) + 1 \in DOMAIN messages
      BY <1>8, <2>1, <3>1, <3>2
    <3> QED BY <1>8, <2>3, <3>2, <3>3
  <2>8. \A k \in DOMAIN cs : i + k <= n + 1 => i + k <= n \/ i + k = n + 1
    <3>1. n \in Nat /\ i \in Nat
      BY <1>8, <2>1
    <3>2. \A k \in DOMAIN cs : k \in Nat
      BY <2>2
    <3> QED BY <3>1, <3>2
  <2>9. \A k \in DOMAIN cs : i + k <= Len(messages') =>
           /\ messages'[i + k].role = "tool"
           /\ messages'[i + k].call_id = cs[k].call_id
    BY <1>8, <2>5, <2>6, <2>8
  <2>10. i + Len(cs) < Len(messages') => messages'[i + Len(cs) + 1].role = "assistant"
    BY <1>8, <2>7
  <2>11. messages'[i].tool_calls = cs
    BY <2>1 DEF cs
  <2> QED BY Zenon, <2>9, <2>10, <2>11
<1> QED BY <1>9, <1>10, <1>11, <1>12, <1>14, <1>15

LEMMA ToolResultInv ==
    ASSUME RunInv, RefuseUnknownTool \/ (ExecuteTool /\ ~ToolFailsTransiently)
    PROVE  RunInv'
<1>1. phase \in {"calls", "executing"} /\ attempt \in Nat /\ attempt <= MaxToolRetries
  BY DEF RunInv, TypeOK, Control, RefuseUnknownTool, ExecuteTool, ToolSucceeds, ToolRejects,
         ToolRaisesKeyError, ToolRaises, GiveUp, Attempt
<1>2. attempt' \in Nat /\ attempt' <= MaxToolRetries
  <2>1. attempt' = attempt \/ (attempt' = attempt + 1 /\ attempt < MaxToolRetries)
    BY DEF RefuseUnknownTool, ExecuteTool, ToolSucceeds, ToolRejects,
           ToolRaisesKeyError, ToolRaises, GiveUp, Attempt, AttemptsLeft
  <2> QED BY <1>1, <2>1, BudgetsAssumption
<1>3. /\ Append(Started, "tool_validation_failed") \in Seq(Events)
      /\ <<"tool_succeeded", "observation_recorded">> \in Seq(Events)
      /\ <<"tool_validation_failed">> \in Seq(Events)
      /\ <<"tool_failed">> \in Seq(Events)
      /\ <<"tool_failed", "observation_recorded">> \in Seq(Events)
  <2>1. Started \in Seq(Events) /\ "tool_validation_failed" \in Events
    BY DEF Started, Events
  <2>2. Append(Started, "tool_validation_failed") \in Seq(Events)
    BY <2>1, Appended
  <2>3. /\ <<"tool_succeeded", "observation_recorded">> \in Seq(Events)
        /\ <<"tool_validation_failed">> \in Seq(Events)
        /\ <<"tool_failed">> \in Seq(Events)
        /\ <<"tool_failed", "observation_recorded">> \in Seq(Events)
    BY DEF Events
  <2> QED BY <2>2, <2>3
<1>4. PICK error \in Errors, names \in Seq(Events) : Observe(error, names)
  <2>1. /\ "none" \in Errors /\ "unknown_tool" \in Errors /\ "invalid_arguments" \in Errors
        /\ "tool_execution_failed" \in Errors
    BY DEF Errors
  <2>2. CASE RefuseUnknownTool
    BY <1>3, <2>1, <2>2, Zenon DEF RefuseUnknownTool
  <2>3. CASE ToolSucceeds
    BY <1>3, <2>1, <2>3, Zenon DEF ToolSucceeds
  <2>4. CASE ToolRejects
    BY <1>3, <2>1, <2>4, Zenon DEF ToolRejects
  <2>5. CASE ToolRaisesKeyError
    BY <1>3, <2>1, <2>5, Zenon DEF ToolRaisesKeyError
  <2>6. CASE ToolRaises
    BY <1>3, <2>1, <2>6, Zenon DEF ToolRaises
  <2>7. CASE GiveUp
    BY <1>3, <2>1, <2>7, Zenon DEF GiveUp
  <2> QED BY <2>2, <2>3, <2>4, <2>5, <2>6, <2>7 DEF ExecuteTool
<1> QED BY <1>1, <1>2, <1>4, ObserveInv

LEMMA NextRunInv == RunInv /\ [Next]_vars => RunInv'
<1> SUFFICES ASSUME RunInv, [Next]_vars PROVE RunInv'
  OBVIOUS
<1>1. CASE ExceedMaxSteps \/ ProviderFails
  BY <1>1, StopInv
<1>2. CASE RequestModel
  BY <1>2, RequestInv
<1>3. CASE AnswerDirectly
  <2>1. <<>> \in Seq(ToolCall) /\ Respond(<<>>)
    BY <1>3 DEF AnswerDirectly
  <2> QED BY <1>3, <2>1, RespondInv
<1>4. ASSUME NEW calls \in BoundedSeq(ToolCall, MaxCalls), RequestTools(calls)
      PROVE  RunInv'
  <2>1. calls \in Seq(ToolCall)
    BY BudgetsAssumption DEF BoundedSeq, SeqOf
  <2>2. Respond(calls)
    BY <1>4 DEF RequestTools
  <2> QED BY <1>4, <2>1, <2>2, RespondInv
<1>5. CASE StartTool \/ ToolFailsTransiently
  BY <1>5, ToolStartInv
<1>6. CASE RefuseUnknownTool \/ (ExecuteTool /\ ~ToolFailsTransiently)
  BY <1>6, ToolResultInv
<1>7. CASE UNCHANGED vars
  BY <1>7 DEF vars, control, RunInv, TypeOK, Control, OpenCalls, Latest, AnsweredInTurn,
              FailureEndsRun, StepBudget
<1> QED BY <1>1, <1>2, <1>3, <1>4, <1>5, <1>6, <1>7, Zenon DEF Next
-----------------------------------------------------------------------------
(* The inductive invariant of a run (loop.py:173-441) *)
THEOREM RunInvariance == Spec => []RunInv
BY InitRunInv, NextRunInv, PTL DEF Spec

(* The three records of a run and its control state keep their types *)
THEOREM RunTypes == Spec => []TypeOK
<1>1. RunInv => TypeOK
  BY DEF RunInv
<1> QED BY <1>1, RunInvariance, PTL

(* The provider is never asked with a call unanswered, and results follow   *)
(* their reply in the order of its calls (loop.py:296-297, 330-422).        *)
THEOREM CallsAreAnsweredInTurn == Spec => []AnsweredInTurn
<1>1. RunInv => AnsweredInTurn
  BY DEF RunInv
<1> QED BY <1>1, RunInvariance, PTL

(* A non-retryable result is the last message of a run, and a run fails     *)
(* with that reason for no other result (loop.py:350-420).                  *)
THEOREM FailuresEndTheRun == Spec => []FailureEndsRun
<1>1. RunInv => FailureEndsRun
  BY DEF RunInv
<1> QED BY <1>1, RunInvariance, PTL

(* The provider replies at most max_steps times, and the run is stopped for *)
(* its steps only with none left and nothing unanswered (loop.py:237-250).  *)
THEOREM StepsAreBounded == Spec => []StepBudget
<1>1. RunInv => StepBudget
  BY DEF RunInv
<1> QED BY <1>1, RunInvariance, PTL
-----------------------------------------------------------------------------
(* The trace: what every step adds to it *)

(* The trace after a step that records `names` at step n *)
LEMMA Block ==
    ASSUME TypeOK, NEW names \in Seq(Events), NEW n \in Nat, NEW id \in CallIds \cup {None},
           trace_events' = Traced(names, n, id)
    PROVE  /\ Len(trace_events) \in Nat /\ DOMAIN trace_events = 1..Len(trace_events)
           /\ Len(trace_events') = Len(trace_events) + Len(names)
           /\ DOMAIN trace_events' = 1..(Len(trace_events) + Len(names))
           /\ \A k \in DOMAIN trace_events : trace_events'[k] = trace_events[k]
           /\ \A k \in DOMAIN names : /\ trace_events'[Len(trace_events) + k].event = names[k]
                                      /\ trace_events'[Len(trace_events) + k].step = n
<1>1. PICK new : new = [i \in DOMAIN names |-> [event |-> names[i], step |-> n, call_id |-> id]]
  OBVIOUS
<1>2. /\ new \in Seq(TraceEvent) /\ Len(new) = Len(names) /\ DOMAIN new = DOMAIN names
      /\ \A k \in DOMAIN names : new[k].event = names[k] /\ new[k].step = n
  BY <1>1, NewEvents
<1>3. trace_events \in Seq(TraceEvent)
  BY DEF TypeOK
<1>4. trace_events' = trace_events \o new
  BY <1>1 DEF Traced
<1>5. \A k \in 1..Len(names) : trace_events'[Len(trace_events) + k] = new[k]
  BY <1>2, <1>3, <1>4
<1>6. /\ Len(trace_events) \in Nat /\ DOMAIN trace_events = 1..Len(trace_events)
      /\ DOMAIN names = 1..Len(names)
  BY <1>3
<1>7. /\ Len(trace_events') = Len(trace_events) + Len(names)
      /\ DOMAIN trace_events' = 1..(Len(trace_events) + Len(names))
      /\ \A k \in DOMAIN trace_events : trace_events'[k] = trace_events[k]
  <2>1. /\ Len(trace_events \o new) = Len(trace_events) + Len(new)
        /\ DOMAIN (trace_events \o new) = 1..(Len(trace_events) + Len(new))
        /\ \A k \in DOMAIN trace_events : (trace_events \o new)[k] = trace_events[k]
    BY <1>2, <1>3
  <2> QED BY <1>2, <1>4, <2>1
<1> QED BY <1>2, <1>5, <1>6, <1>7

Has(names, name) == \E k \in DOMAIN names : names[k] = name

(* No block names an event twice, so each one counts for one *)
LEMMA BlockCounts ==
    ASSUME TypeOK, NEW names \in Seq(Events), NEW n \in Nat, NEW id \in CallIds \cup {None},
           trace_events' = Traced(names, n, id),
           \A k, l \in DOMAIN names : names[k] = names[l] => k = l,
           NEW name
    PROVE  /\ Count(name) \in Nat
           /\ Count(name)' = Count(name) + (IF Has(names, name) THEN 1 ELSE 0)
<1> DEFINE len == Len(trace_events)
           old == Positions(name)
           new == {len + k : k \in {m \in DOMAIN names : names[m] = name}}
<1>1. /\ len \in Nat /\ DOMAIN trace_events = 1..len /\ Len(names) \in Nat
      /\ DOMAIN names = 1..Len(names)
      /\ DOMAIN trace_events' = 1..(len + Len(names))
      /\ \A k \in DOMAIN trace_events : trace_events'[k] = trace_events[k]
      /\ \A k \in DOMAIN names : trace_events'[len + k].event = names[k]
  BY Block
<1>2. old \subseteq 1..len /\ IsFiniteSet(old)
  <2>1. old \subseteq 1..len
    BY <1>1 DEF Positions
  <2>2. IsFiniteSet(1..len)
    <3>1. 1 \in Int /\ len \in Int
      BY <1>1
    <3> QED BY <3>1, FS_Interval
  <2> HIDE DEF old, len
  <2> QED BY <2>1, <2>2, FS_Subset
<1>3. Positions(name)' = old \cup new
  <2>1. ASSUME NEW i \in Positions(name)' PROVE i \in old \cup new
    <3>1. i \in 1..(len + Len(names)) /\ trace_events'[i].event = name
      BY <1>1 DEF Positions
    <3>2. CASE i <= len
      <4>1. i \in DOMAIN trace_events
        BY <1>1, <3>1, <3>2
      <4> QED BY <1>1, <3>1, <4>1 DEF Positions
    <3>3. CASE ~(i <= len)
      <4>1. i - len \in DOMAIN names /\ len + (i - len) = i
        BY <1>1, <3>1, <3>3
      <4>2. names[i - len] = name
        BY <1>1, <3>1, <4>1
      <4> QED BY <4>1, <4>2
    <3> QED BY <3>2, <3>3
  <2>2. ASSUME NEW i \in old PROVE i \in Positions(name)'
    <3>1. i \in DOMAIN trace_events /\ trace_events[i].event = name
      BY DEF Positions
    <3>2. i \in DOMAIN trace_events'
      BY <1>1, <3>1
    <3> QED BY <1>1, <3>1, <3>2 DEF Positions
  <2>3. ASSUME NEW i \in new PROVE i \in Positions(name)'
    <3>1. PICK k \in DOMAIN names : i = len + k /\ names[k] = name
      OBVIOUS
    <3>2. i \in DOMAIN trace_events'
      BY <1>1, <3>1
    <3> QED BY <1>1, <3>1, <3>2 DEF Positions
  <2> QED BY <2>1, <2>2, <2>3
<1>4. CASE Has(names, name)
  <2>1. PICK k \in DOMAIN names : names[k] = name
    BY <1>4 DEF Has
  <2>2. new = {len + k}
    BY <2>1
  <2>3. len + k \notin old
    BY <1>1, <1>2
  <2>4. Cardinality(old \cup {len + k}) = Cardinality(old) + 1
    BY <1>2, <2>3, FS_AddElement
  <2> QED BY <1>2, <1>3, <1>4, <2>2, <2>4, FS_CardinalityType DEF Count
<1>5. CASE ~Has(names, name)
  <2>1. new = {}
    BY <1>5 DEF Has
  <2>2. Positions(name)' = old
    BY <1>3, <2>1
  <2>3. Cardinality(old) \in Nat
    BY <1>2, FS_CardinalityType
  <2> QED BY <1>5, <2>2, <2>3 DEF Count
<1> QED BY <1>4, <1>5

(* A block of events stops the run last, and names no event twice *)
StopLast(names) == \A k, l \in DOMAIN names :
    k < l /\ names[k] = "stop_reason_recorded" => names[l] = "run_completed"

Distinct(names) == \A k, l \in DOMAIN names : names[k] = names[l] => k = l

(* How the steps of a trace are numbered *)
StepsSoFar == \A i \in DOMAIN trace_events : trace_events[i].step <= step_count

Ordered ==
    /\ \A i \in Positions("stop_reason_recorded") : \A j \in (i + 1)..Len(trace_events) :
         trace_events[j].event = "run_completed"
    /\ \A i, j \in DOMAIN trace_events : i <= j => trace_events[i].step <= trace_events[j].step

(* What TraceReplays counts *)
Tallies ==
    /\ Count("model_responded") = step_count
    /\ Len(messages) = 1 + step_count + Count("step_completed")
    /\ Count("model_requested") = step_count +
         (IF phase = "asking" \/ stop_reason = "provider_failed" THEN 1 ELSE 0)
    /\ Count("tool_started") = Count("step_completed") + (IF phase = "executing" THEN 1 ELSE 0)
    /\ Count("stop_reason_recorded") = (IF status = "running" THEN 0 ELSE 1)

(* The trace's property is counts and order *)
LEMMA Replays == TraceReplays <=> Tallies /\ Ordered
BY DEF TraceReplays, Tallies, Ordered

(* Nothing is stopped yet while the run goes on *)
LEMMA NotStoppedYet ==
    ASSUME RunInv, Tallies, phase # "over"
    PROVE  Positions("stop_reason_recorded") = {}
<1>1. status = "running"
  BY DEF RunInv, Control
<1>2. Cardinality(Positions("stop_reason_recorded")) = 0
  BY <1>1 DEF Tallies, Count
<1>3. IsFiniteSet(Positions("stop_reason_recorded"))
  <2>1. trace_events \in Seq(TraceEvent)
    BY DEF RunInv, TypeOK
  <2>2. Len(trace_events) \in Int /\ 1 \in Int
    BY <2>1
  <2>3. IsFiniteSet(1..Len(trace_events))
    BY <2>2, FS_Interval
  <2>4. Positions("stop_reason_recorded") \subseteq 1..Len(trace_events)
    BY <2>1 DEF Positions
  <2> QED BY <2>3, <2>4, FS_Subset
<1> QED BY <1>2, <1>3, FS_EmptySet

(* A block of events recorded at the run's step keeps the trace in order *)
LEMMA BlockOrdered ==
    ASSUME RunInv, Tallies, Ordered, StepsSoFar, phase # "over",
           NEW names \in Seq(Events), NEW n \in Nat, NEW id \in CallIds \cup {None},
           trace_events' = Traced(names, n, id), StopLast(names),
           step_count <= n, n <= step_count', step_count' \in Nat
    PROVE  Ordered' /\ StepsSoFar'
<1> DEFINE len == Len(trace_events)
<1>1. TypeOK /\ step_count \in Nat
  BY DEF RunInv, TypeOK
<1>2. /\ len \in Nat /\ DOMAIN trace_events = 1..len /\ Len(names) \in Nat
      /\ DOMAIN names = 1..Len(names)
      /\ DOMAIN trace_events' = 1..(len + Len(names))
      /\ Len(trace_events') = len + Len(names)
      /\ \A k \in DOMAIN trace_events : trace_events'[k] = trace_events[k]
      /\ \A k \in DOMAIN names : /\ trace_events'[len + k].event = names[k]
                                 /\ trace_events'[len + k].step = n
  BY <1>1, Block
<1>3. \A k \in DOMAIN trace_events : trace_events[k].step \in Nat
  <2>1. trace_events \in Seq(TraceEvent)
    BY <1>1 DEF TypeOK
  <2>2. \A k \in DOMAIN trace_events : trace_events[k] \in TraceEvent
    BY <2>1
  <2> QED BY <2>2 DEF TraceEvent
<1> HIDE DEF len
<1>4. \A i \in DOMAIN trace_events' :
         \/ i \in DOMAIN trace_events /\ i <= len
         \/ i > len /\ i - len \in DOMAIN names /\ len + (i - len) = i
  BY <1>2
<1>5. \A i \in DOMAIN trace_events' : i > len => trace_events'[i].step = n
  BY <1>2, <1>4
<1>6. StepsSoFar'
  <2> SUFFICES ASSUME NEW i \in DOMAIN trace_events' PROVE trace_events'[i].step <= step_count'
    BY DEF StepsSoFar
  <2>1. CASE i \in DOMAIN trace_events
    <3>1. trace_events'[i].step <= step_count /\ trace_events'[i].step \in Nat
      BY <1>2, <1>3, <2>1 DEF StepsSoFar
    <3> QED BY <1>1, <3>1
  <2>2. CASE i > len
    BY <1>5, <2>2
  <2> QED BY <1>4, <2>1, <2>2
<1>7. ASSUME NEW i \in DOMAIN trace_events', NEW j \in DOMAIN trace_events', i <= j
      PROVE  trace_events'[i].step <= trace_events'[j].step
  <2>1. CASE j \in DOMAIN trace_events
    <3>1. i \in DOMAIN trace_events
      BY <1>2, <1>7, <2>1
    <3> QED BY <1>2, <1>7, <2>1, <3>1 DEF Ordered
  <2>2. CASE j > len /\ i \in DOMAIN trace_events
    <3>1. trace_events'[j].step = n /\ trace_events'[i].step <= step_count
          /\ trace_events'[i].step \in Nat
      BY <1>2, <1>3, <1>5, <2>2 DEF StepsSoFar
    <3> QED BY <1>1, <3>1
  <2>3. CASE j > len /\ i > len
    BY <1>5, <2>3
  <2> QED BY <1>4, <2>1, <2>2, <2>3
<1>8. ASSUME NEW i \in Positions("stop_reason_recorded")', NEW j \in (i + 1)..Len(trace_events')
      PROVE  trace_events'[j].event = "run_completed"
  <2>1. i \in DOMAIN trace_events' /\ trace_events'[i].event = "stop_reason_recorded"
    BY <1>8 DEF Positions
  <2>2. i > len
    <3>1. ASSUME i \in DOMAIN trace_events PROVE FALSE
      <4>1. trace_events[i].event = "stop_reason_recorded"
        BY <1>2, <2>1, <3>1
      <4>2. i \in Positions("stop_reason_recorded")
        BY <3>1, <4>1 DEF Positions
      <4> QED BY <4>2, NotStoppedYet
    <3> QED BY <1>4, <2>1, <3>1
  <2>3. /\ i - len \in DOMAIN names /\ j - len \in DOMAIN names /\ i - len < j - len
        /\ len + (i - len) = i /\ len + (j - len) = j
    BY <1>2, <1>8, <2>1, <2>2
  <2>4. names[i - len] = "stop_reason_recorded" /\ trace_events'[j].event = names[j - len]
    BY <1>2, <2>1, <2>3
  <2> QED BY <2>3, <2>4 DEF StopLast
<1> QED BY <1>6, <1>7, <1>8 DEF Ordered

(* What a step records, and what that adds to the tallies *)
Records(names, n) ==
    /\ names \in Seq(Events) /\ Distinct(names) /\ StopLast(names) /\ n \in Nat
    /\ \E id \in CallIds \cup {None} : trace_events' = Traced(names, n, id)

One(names, name) == IF Has(names, name) THEN 1 ELSE 0

Adds(names) ==
    \A name \in {"model_requested", "model_responded", "tool_started", "step_completed",
                 "stop_reason_recorded"} :
        Count(name) \in Nat /\ Count(name)' = Count(name) + One(names, name)

LEMMA RecordsAdd ==
    ASSUME TypeOK, NEW names, NEW n, Records(names, n)
    PROVE  Adds(names)
<1>1. PICK id \in CallIds \cup {None} : trace_events' = Traced(names, n, id)
  BY DEF Records
<1>2. names \in Seq(Events) /\ n \in Nat /\ \A k, l \in DOMAIN names : names[k] = names[l] => k = l
  BY DEF Records, Distinct
<1> QED BY <1>1, <1>2, BlockCounts DEF Adds, One

TraceInv == Tallies /\ Ordered /\ StepsSoFar

LEMMA RecordsOrdered ==
    ASSUME RunInv, TraceInv, NEW names, NEW n, Records(names, n), phase # "over",
           step_count <= n, n <= step_count', step_count' \in Nat
    PROVE  Ordered' /\ StepsSoFar'
BY BlockOrdered DEF Records, TraceInv

(* The events of the steps that are not the result of a call *)
LEMMA Blocks ==
    \A names \in {<<"max_steps_exceeded", "stop_reason_recorded">>,
                     <<"model_provider_failed", "stop_reason_recorded">>,
                     <<"model_requested">>, <<"model_responded">>, <<"tool_transient_error">>,
                     <<"model_responded", "stop_reason_recorded", "run_completed">>, Started} :
         names \in Seq(Events) /\ Distinct(names) /\ StopLast(names)
<1> DEFINE P(names) == names \in Seq(Events) /\ Distinct(names) /\ StopLast(names)
<1>1. \A a \in Events : P(<<a>>)
  BY DEF Distinct, StopLast
<1>2. \A a, b \in Events : a # b /\ a # "stop_reason_recorded" => P(<<a, b>>)
  BY DEF Distinct, StopLast
<1>3. \A a, b, c \in Events :
         /\ a # b /\ a # c /\ b # c /\ a # "stop_reason_recorded"
         /\ b = "stop_reason_recorded" => c = "run_completed"
         => P(<<a, b, c>>)
  BY DEF Distinct, StopLast
<1>4. /\ "max_steps_exceeded" \in Events /\ "stop_reason_recorded" \in Events
      /\ "model_provider_failed" \in Events /\ "model_requested" \in Events
      /\ "model_responded" \in Events /\ "tool_transient_error" \in Events
      /\ "run_completed" \in Events /\ "tool_call_received" \in Events
      /\ "tool_action_created" \in Events /\ "tool_started" \in Events
  BY DEF Events
<1> HIDE DEF P
<1>5. P(<<"model_requested">>) /\ P(<<"model_responded">>) /\ P(<<"tool_transient_error">>)
  BY <1>1, <1>4
<1>6. /\ P(<<"max_steps_exceeded", "stop_reason_recorded">>)
      /\ P(<<"model_provider_failed", "stop_reason_recorded">>)
  BY <1>2, <1>4
<1>7. P(<<"model_responded", "stop_reason_recorded", "run_completed">>) /\ P(Started)
  BY <1>3, <1>4 DEF Started
<1> QED BY <1>5, <1>6, <1>7, Zenon DEF P

(* Step by step, what is recorded keeps the tallies *)
LEMMA TalliesStop ==
    ASSUME RunInv, TraceInv, ExceedMaxSteps \/ ProviderFails
    PROVE  TraceInv'
<1> DEFINE names1 == <<"max_steps_exceeded", "stop_reason_recorded">>
           names2 == <<"model_provider_failed", "stop_reason_recorded">>
<1>1. /\ phase' = "over" /\ status' # "running"
      /\ UNCHANGED <<step_count, messages>> /\ phase \in {"head", "asking"}
      /\ phase = "asking" <=> stop_reason' = "provider_failed"
  BY DEF ExceedMaxSteps, ProviderFails, Stop
<1>2. step_count \in Nat /\ status = "running" /\ stop_reason = "none"
  BY <1>1 DEF RunInv, TypeOK, Control
<1>3. PICK names \in {names1, names2} : Records(names, step_count)
  BY <1>2, Blocks DEF ExceedMaxSteps, ProviderFails, Stop, Records
<1>4. Ordered' /\ StepsSoFar'
  BY <1>1, <1>2, <1>3, RecordsOrdered
<1>5. /\ ~Has(names, "model_requested") /\ ~Has(names, "model_responded")
      /\ ~Has(names, "tool_started") /\ ~Has(names, "step_completed")
      /\ Has(names, "stop_reason_recorded")
  <2>1. \A ns \in {names1, names2} : DOMAIN ns = {1, 2} /\ ns[2] = "stop_reason_recorded"
                                     /\ ns[1] \in {"max_steps_exceeded", "model_provider_failed"}
    OBVIOUS
  <2> QED BY <2>1 DEF Has
<1> HIDE DEF names1, names2
<1>6. Adds(names)
  BY <1>3, RecordsAdd DEF RunInv
<1>7. Tallies'
  BY <1>1, <1>2, <1>5, <1>6 DEF Adds, One, TraceInv, Tallies
<1> QED BY <1>4, <1>7 DEF TraceInv

LEMMA TalliesRequest ==
    ASSUME RunInv, TraceInv, RequestModel
    PROVE  TraceInv'
<1> DEFINE names == <<"model_requested">>
<1>1. /\ phase = "head" /\ phase' = "asking"
      /\ UNCHANGED <<step_count, messages, status, stop_reason>>
  BY DEF RequestModel, verdict
<1>2. step_count \in Nat /\ status = "running" /\ stop_reason = "none"
  BY <1>1 DEF RunInv, TypeOK, Control
<1>3. Records(names, step_count)
  BY <1>2, Blocks DEF RequestModel, Records
<1>4. Ordered' /\ StepsSoFar'
  BY <1>1, <1>2, <1>3, RecordsOrdered
<1>5. /\ Has(names, "model_requested") /\ ~Has(names, "model_responded")
      /\ ~Has(names, "tool_started") /\ ~Has(names, "step_completed")
      /\ ~Has(names, "stop_reason_recorded")
  BY DEF Has
<1> HIDE DEF names
<1>6. Adds(names)
  BY <1>3, RecordsAdd DEF RunInv
<1>7. Tallies'
  BY <1>1, <1>2, <1>5, <1>6 DEF Adds, One, TraceInv, Tallies
<1> QED BY <1>4, <1>7 DEF TraceInv

LEMMA TalliesRespond ==
    ASSUME RunInv, TraceInv, NEW calls \in Seq(ToolCall), Respond(calls),
           AnswerDirectly \/ RequestTools(calls)
    PROVE  TraceInv'
<1> DEFINE names1 == <<"model_responded", "stop_reason_recorded", "run_completed">>
           names2 == <<"model_responded">>
           m == Message("assistant", calls, None, "none")
<1>1. /\ phase = "asking" /\ step_count' = step_count + 1
      /\ \/ phase' = "over" /\ status' = "completed" /\ stop_reason' = "final_answer"
         \/ phase' = "calls" /\ UNCHANGED <<status, stop_reason>>
  BY DEF Respond, AnswerDirectly, RequestTools, Stop, verdict
<1>2. step_count \in Nat /\ status = "running" /\ stop_reason = "none"
  BY <1>1 DEF RunInv, TypeOK, Control
<1>3. Len(messages') = Len(messages) + 1 /\ Len(messages) \in Nat
  <2>1. m \in AgentMessage
    BY DEF Message, AgentMessage, Errors
  <2>2. messages' = Append(messages, m)
    <3>1. CASE AnswerDirectly
      BY <3>1 DEF Respond
    <3> QED BY <3>1 DEF Respond, RequestTools
  <2> QED BY <2>1, <2>2, OneMoreMessage DEF RunInv
<1>4. PICK names \in {names1, names2} :
         /\ Records(names, step_count + 1)
         /\ names = names1 <=> phase' = "over"
  <2>1. step_count + 1 \in Nat /\ names1 # names2
    <3>1. Len(names1) = 3 /\ Len(names2) = 1
      OBVIOUS
    <3> QED BY <1>2, <3>1
  <2>2. CASE AnswerDirectly
    <3>1. Records(names1, step_count + 1)
      BY <2>1, <2>2, Blocks DEF AnswerDirectly, Stop, Records
    <3>2. phase' = "over"
      BY <2>2 DEF AnswerDirectly, Stop
    <3> QED BY <3>1, <3>2
  <2>3. CASE RequestTools(calls)
    <3>1. Records(names2, step_count + 1)
      BY <2>1, <2>3, Blocks DEF RequestTools, Records
    <3>2. phase' = "calls"
      BY <2>3 DEF RequestTools
    <3> QED BY <2>1, <3>1, <3>2
  <2> QED BY <2>2, <2>3
<1>5. Ordered' /\ StepsSoFar'
  BY <1>1, <1>2, <1>4, RecordsOrdered
<1>6. /\ ~Has(names, "model_requested") /\ Has(names, "model_responded")
      /\ ~Has(names, "tool_started") /\ ~Has(names, "step_completed")
      /\ Has(names, "stop_reason_recorded") <=> phase' = "over"
  <2>1. /\ ~Has(names1, "model_requested") /\ Has(names1, "model_responded")
        /\ ~Has(names1, "tool_started") /\ ~Has(names1, "step_completed")
        /\ Has(names1, "stop_reason_recorded")
    BY DEF Has
  <2>2. /\ ~Has(names2, "model_requested") /\ Has(names2, "model_responded")
        /\ ~Has(names2, "tool_started") /\ ~Has(names2, "step_completed")
        /\ ~Has(names2, "stop_reason_recorded")
    BY DEF Has
  <2> HIDE DEF names1, names2
  <2> QED BY <1>4, <2>1, <2>2
<1> HIDE DEF names1, names2
<1>7. Adds(names)
  BY <1>4, RecordsAdd DEF RunInv
<1>8. /\ phase' # "asking" /\ phase' # "executing" /\ stop_reason' # "provider_failed"
      /\ status' = "running" <=> phase' # "over"
  BY <1>1, <1>2
<1>9. Tallies'
  <2>1. /\ Count("model_responded")' = step_count' /\ Count("model_requested")' = step_count'
    BY <1>1, <1>2, <1>6, <1>7 DEF Adds, One, TraceInv, Tallies
  <2>2. /\ Len(messages') = 1 + step_count' + Count("step_completed")'
        /\ Count("tool_started")' = Count("step_completed")'
    <3>1. /\ Count("step_completed")' = Count("step_completed")
          /\ Count("tool_started")' = Count("tool_started")
          /\ Count("step_completed") \in Nat /\ Count("tool_started") \in Nat
      BY <1>6, <1>7 DEF Adds, One
    <3>2. /\ Len(messages) = 1 + step_count + Count("step_completed")
          /\ Count("tool_started") = Count("step_completed") + 0
      BY <1>1 DEF TraceInv, Tallies
    <3> QED BY <1>1, <1>2, <1>3, <3>1, <3>2
  <2>3. Count("stop_reason_recorded")' = (IF status' = "running" THEN 0 ELSE 1)
    BY <1>2, <1>6, <1>7, <1>8 DEF Adds, One, TraceInv, Tallies
  <2>4. step_count' \in Nat /\ Count("step_completed")' \in Nat
    BY <1>1, <1>2, <1>6, <1>7 DEF Adds, One
  <2> QED BY <1>8, <2>1, <2>2, <2>3, <2>4 DEF Tallies
<1> QED BY <1>5, <1>9 DEF TraceInv

LEMMA TalliesTool ==
    ASSUME RunInv, TraceInv, StartTool \/ ToolFailsTransiently
    PROVE  TraceInv'
<1> DEFINE names1 == Started
           names2 == <<"tool_transient_error">>
<1>1. /\ phase \in {"calls", "executing"} /\ phase' = "executing"
      /\ UNCHANGED <<step_count, messages, status, stop_reason, pending>>
  BY DEF StartTool, ToolFailsTransiently, Attempt, verdict
<1>2. step_count \in Nat /\ status = "running" /\ stop_reason = "none"
  BY <1>1 DEF RunInv, TypeOK, Control
<1>3. Head(pending).call_id \in CallIds
  BY <1>1, HeadCall
<1>4. \/ phase = "calls" /\ Records(names1, step_count)
      \/ phase = "executing" /\ Records(names2, step_count)
  <2>1. CASE StartTool
    BY <1>2, <1>3, <2>1, Blocks DEF StartTool, Records
  <2>2. CASE ToolFailsTransiently
    BY <1>2, <1>3, <2>2, Blocks DEF ToolFailsTransiently, Attempt, Records
  <2> QED BY <2>1, <2>2
<1>5. Ordered' /\ StepsSoFar'
  BY <1>1, <1>2, <1>4, RecordsOrdered
<1>6. /\ ~Has(names1, "model_requested") /\ ~Has(names1, "model_responded")
      /\ Has(names1, "tool_started") /\ ~Has(names1, "step_completed")
      /\ ~Has(names1, "stop_reason_recorded")
  BY DEF Has, Started
<1>7. /\ ~Has(names2, "model_requested") /\ ~Has(names2, "model_responded")
      /\ ~Has(names2, "tool_started") /\ ~Has(names2, "step_completed")
      /\ ~Has(names2, "stop_reason_recorded")
  BY DEF Has
<1> HIDE DEF names1, names2
<1>8. CASE phase = "calls" /\ Records(names1, step_count)
  <2>1. Adds(names1)
    BY <1>8, RecordsAdd DEF RunInv
  <2>2. Tallies'
    BY <1>1, <1>2, <1>6, <1>8, <2>1 DEF Adds, One, TraceInv, Tallies
  <2> QED BY <1>5, <2>2 DEF TraceInv
<1>9. CASE phase = "executing" /\ Records(names2, step_count)
  <2>1. Adds(names2)
    BY <1>9, RecordsAdd DEF RunInv
  <2>2. Tallies'
    BY <1>1, <1>2, <1>7, <1>9, <2>1 DEF Adds, One, TraceInv, Tallies
  <2> QED BY <1>5, <2>2 DEF TraceInv
<1> QED BY <1>4, <1>8, <1>9

(* What a result records after its own events *)
EndOfStep(error) == IF error \in NonRetryable THEN <<"step_completed", "stop_reason_recorded">>
               ELSE <<"step_completed">>

(* Two sequences of events, one after the other *)
LEMMA Joined ==
    ASSUME NEW s \in Seq(Events), NEW t \in Seq(Events)
    PROVE  /\ s \o t \in Seq(Events)
           /\ DOMAIN (s \o t) = 1..(Len(s) + Len(t))
           /\ \A k \in DOMAIN s : k \in DOMAIN (s \o t) /\ (s \o t)[k] = s[k]
           /\ \A k \in DOMAIN t : Len(s) + k \in DOMAIN (s \o t) /\ (s \o t)[Len(s) + k] = t[k]
           /\ \A k \in DOMAIN (s \o t) :
                 \/ k \in DOMAIN s /\ k <= Len(s)
                 \/ k - Len(s) \in DOMAIN t /\ k = Len(s) + (k - Len(s)) /\ k > Len(s)
           /\ \A name : Has(s \o t, name) <=> Has(s, name) \/ Has(t, name)
<1>1. Len(s) \in Nat /\ Len(t) \in Nat /\ DOMAIN s = 1..Len(s) /\ DOMAIN t = 1..Len(t)
  OBVIOUS
<1>2. /\ s \o t \in Seq(Events) /\ Len(s \o t) = Len(s) + Len(t)
      /\ \A i \in 1..(Len(s) + Len(t)) :
            (s \o t)[i] = IF i <= Len(s) THEN s[i] ELSE t[i - Len(s)]
  BY ConcatProperties
<1>3. DOMAIN (s \o t) = 1..(Len(s) + Len(t))
  BY <1>2
<1> DEFINE u == s \o t
<1> HIDE DEF u
<1>4. \A k \in DOMAIN s : k \in DOMAIN u /\ u[k] = s[k]
  BY <1>1, <1>2, <1>3 DEF u
<1>5. \A k \in DOMAIN t : Len(s) + k \in DOMAIN u /\ u[Len(s) + k] = t[k]
  <2> SUFFICES ASSUME NEW k \in DOMAIN t PROVE Len(s) + k \in DOMAIN u /\ u[Len(s) + k] = t[k]
    OBVIOUS
  <2>1. Len(s) + k \in 1..(Len(s) + Len(t)) /\ ~(Len(s) + k <= Len(s)) /\ Len(s) + k - Len(s) = k
    BY <1>1
  <2> QED BY <1>2, <1>3, <2>1 DEF u
<1>6. \A k \in DOMAIN u :
         \/ k \in DOMAIN s /\ k <= Len(s)
         \/ k - Len(s) \in DOMAIN t /\ k = Len(s) + (k - Len(s)) /\ k > Len(s)
  BY <1>1, <1>3 DEF u
<1>7. \A name : Has(u, name) <=> Has(s, name) \/ Has(t, name)
  BY <1>4, <1>5, <1>6 DEF Has
<1> QED BY <1>2, <1>3, <1>4, <1>5, <1>6, <1>7 DEF u

LEMMA JoinedDistinct ==
    ASSUME NEW s \in Seq(Events), NEW t \in Seq(Events), Distinct(s), Distinct(t),
           \A name : ~(Has(s, name) /\ Has(t, name))
    PROVE  Distinct(s \o t)
<1> DEFINE u == s \o t
<1> HIDE DEF u
<1>1. /\ \A k \in DOMAIN s : u[k] = s[k]
      /\ \A k \in DOMAIN t : u[Len(s) + k] = t[k]
      /\ \A k \in DOMAIN u :
            \/ k \in DOMAIN s
            \/ k - Len(s) \in DOMAIN t /\ k = Len(s) + (k - Len(s))
  BY Joined DEF u
<1> SUFFICES ASSUME NEW k \in DOMAIN u, NEW l \in DOMAIN u, u[k] = u[l] PROVE k = l
  BY DEF Distinct, u
<1>2. CASE k \in DOMAIN s /\ l \in DOMAIN s
  BY <1>1, <1>2 DEF Distinct
<1>3. CASE k \in DOMAIN s /\ l - Len(s) \in DOMAIN t /\ l = Len(s) + (l - Len(s))
  <2>1. s[k] = t[l - Len(s)]
    BY <1>1, <1>3
  <2> QED BY <1>3, <2>1 DEF Has
<1>4. CASE l \in DOMAIN s /\ k - Len(s) \in DOMAIN t /\ k = Len(s) + (k - Len(s))
  <2>1. s[l] = t[k - Len(s)]
    BY <1>1, <1>4
  <2> QED BY <1>4, <2>1 DEF Has
<1>5. CASE /\ k - Len(s) \in DOMAIN t /\ k = Len(s) + (k - Len(s))
           /\ l - Len(s) \in DOMAIN t /\ l = Len(s) + (l - Len(s))
  <2>1. t[k - Len(s)] = t[l - Len(s)]
    BY <1>1, <1>5
  <2>2. k - Len(s) = l - Len(s)
    BY <1>5, <2>1 DEF Distinct
  <2> QED BY <1>5, <2>2
<1> QED BY <1>1, <1>2, <1>3, <1>4, <1>5

LEMMA JoinedStopLast ==
    ASSUME NEW s \in Seq(Events), NEW t \in Seq(Events), StopLast(t),
           ~Has(s, "stop_reason_recorded")
    PROVE  StopLast(s \o t)
<1> DEFINE u == s \o t
<1> HIDE DEF u
<1>1. /\ DOMAIN u = 1..(Len(s) + Len(t)) /\ Len(s) \in Nat /\ Len(t) \in Nat
      /\ DOMAIN t = 1..Len(t) /\ DOMAIN s = 1..Len(s)
      /\ \A k \in DOMAIN s : u[k] = s[k]
      /\ \A k \in DOMAIN t : u[Len(s) + k] = t[k]
      /\ \A k \in DOMAIN u :
            \/ k \in DOMAIN s
            \/ k - Len(s) \in DOMAIN t /\ k = Len(s) + (k - Len(s))
  BY Joined DEF u
<1> SUFFICES ASSUME NEW k \in DOMAIN u, NEW l \in DOMAIN u, k < l, u[k] = "stop_reason_recorded"
             PROVE  u[l] = "run_completed"
  BY DEF StopLast, u
<1>2. k \notin DOMAIN s
  BY <1>1 DEF Has
<1>3. k - Len(s) \in DOMAIN t /\ k = Len(s) + (k - Len(s))
  BY <1>1, <1>2
<1>4. l - Len(s) \in DOMAIN t /\ l = Len(s) + (l - Len(s)) /\ k - Len(s) < l - Len(s)
  BY <1>1, <1>3
<1>5. t[k - Len(s)] = "stop_reason_recorded" /\ u[l] = t[l - Len(s)]
  BY <1>1, <1>3, <1>4
<1> QED BY <1>3, <1>4, <1>5 DEF StopLast

(* The events of a result: a refusal also records the start of its call *)
Body(names, at) ==
    /\ names \in Seq(Events) /\ Distinct(names)
    /\ \A name \in {"model_requested", "model_responded", "step_completed",
                    "stop_reason_recorded"} : ~Has(names, name)
    /\ Has(names, "tool_started") <=> at = "calls"

Bodies == {<<"tool_succeeded", "observation_recorded">>, <<"tool_validation_failed">>,
           <<"tool_failed">>, <<"tool_failed", "observation_recorded">>}

LEMMA ExecutedBodies == \A names \in Bodies : Body(names, "executing")
<1>1. \A a \in Events \ {"model_requested", "model_responded", "step_completed",
                         "stop_reason_recorded", "tool_started"} :
         Body(<<a>>, "executing")
  BY DEF Body, Has, Distinct
<1>2. \A a, b \in Events \ {"model_requested", "model_responded", "step_completed",
                            "stop_reason_recorded", "tool_started"} :
         a # b => Body(<<a, b>>, "executing")
  BY DEF Body, Has, Distinct
<1>3. /\ "tool_succeeded" \in Events /\ "observation_recorded" \in Events
      /\ "tool_validation_failed" \in Events /\ "tool_failed" \in Events
  BY DEF Events
<1> QED BY <1>1, <1>2, <1>3 DEF Bodies

(* The events of a refusal, one by one *)
LEMMA RefusedEvents ==
    ASSUME NEW u, u = Append(Started, "tool_validation_failed")
    PROVE  /\ u \in Seq(Events) /\ Len(u) = 4 /\ DOMAIN u = 1..4
           /\ u[1] = "tool_call_received" /\ u[2] = "tool_action_created"
           /\ u[3] = "tool_started" /\ u[4] = "tool_validation_failed"
<1>1. /\ "tool_call_received" \in Events /\ "tool_action_created" \in Events
      /\ "tool_started" \in Events /\ "tool_validation_failed" \in Events
  BY DEF Events
<1>2. u \in Seq(Events)
  BY <1>1 DEF Started
<1>3. Len(u) = 4
  BY DEF Started
<1>4. u[1] = "tool_call_received"
  BY DEF Started
<1>5. u[2] = "tool_action_created"
  BY DEF Started
<1>6. u[3] = "tool_started"
  BY DEF Started
<1>7. u[4] = "tool_validation_failed"
  BY DEF Started
<1>8. DOMAIN u = 1..4
  BY <1>2, <1>3
<1> QED BY <1>2, <1>3, <1>4, <1>5, <1>6, <1>7, <1>8, Zenon

LEMMA RefusedBody == Body(Append(Started, "tool_validation_failed"), "calls")
<1> DEFINE u == Append(Started, "tool_validation_failed")
<1>1. /\ u \in Seq(Events) /\ Len(u) = 4 /\ DOMAIN u = 1..4
      /\ u[1] = "tool_call_received" /\ u[2] = "tool_action_created"
      /\ u[3] = "tool_started" /\ u[4] = "tool_validation_failed"
  BY RefusedEvents
<1> HIDE DEF u
<1>2. \A k \in DOMAIN u : k = 1 \/ k = 2 \/ k = 3 \/ k = 4
  BY <1>1
<1>3. Distinct(u)
  BY <1>1, <1>2 DEF Distinct
<1>4. Body(u, "calls")
  BY <1>1, <1>2, <1>3 DEF Body, Has
<1> QED BY <1>4 DEF u

(* What a result records, all in all *)
LEMMA ObserveRecords ==
    ASSUME RunInv, NEW error \in Errors, NEW body, NEW at \in {"calls", "executing"},
           Observe(error, body), Body(body, at), phase = at
    PROVE  /\ Records(body \o EndOfStep(error), step_count)
           /\ EndOfStep(error) \in Seq(Events)
           /\ Has(EndOfStep(error), "step_completed")
           /\ Has(EndOfStep(error), "stop_reason_recorded") <=> error \in NonRetryable
           /\ \A name : Has(EndOfStep(error), name) =>
                 name \in {"step_completed", "stop_reason_recorded"}
           /\ Head(pending).call_id \in CallIds
<1> DEFINE end   == EndOfStep(error)
           names == body \o end
           id    == Head(pending).call_id
<1>1. trace_events' = Traced(names, step_count, id) /\ step_count \in Nat
  BY DEF Observe, EndOfStep, RunInv, TypeOK
<1>2. id \in CallIds
  BY HeadCall
<1>3. /\ end \in Seq(Events) /\ Distinct(end) /\ StopLast(end)
      /\ Has(end, "step_completed")
      /\ Has(end, "stop_reason_recorded") <=> error \in NonRetryable
      /\ \A name : Has(end, name) => name \in {"step_completed", "stop_reason_recorded"}
  <2>1. CASE error \in NonRetryable
    <3>1. end = <<"step_completed", "stop_reason_recorded">>
      BY <2>1 DEF EndOfStep
    <3> QED BY <2>1, <3>1 DEF Distinct, StopLast, Has, Events
  <2>2. CASE error \notin NonRetryable
    <3>1. end = <<"step_completed">>
      BY <2>2 DEF EndOfStep
    <3> QED BY <2>2, <3>1 DEF Distinct, StopLast, Has, Events
  <2> QED BY <2>1, <2>2
<1> HIDE DEF end, id
<1>4. names \in Seq(Events) /\ Distinct(names) /\ StopLast(names)
  <2>1. body \in Seq(Events) /\ Distinct(body)
        /\ ~Has(body, "step_completed") /\ ~Has(body, "stop_reason_recorded")
    BY DEF Body
  <2>2. \A name : ~(Has(body, name) /\ Has(end, name))
    BY <1>3, <2>1
  <2> QED BY <1>3, <2>1, <2>2, Joined, JoinedDistinct, JoinedStopLast
<1> HIDE DEF names
<1>5. Records(names, step_count)
  BY <1>1, <1>2, <1>4 DEF Records
<1> QED BY <1>2, <1>3, <1>5 DEF names, end, id

LEMMA TalliesObserve ==
    ASSUME RunInv, TraceInv, NEW error \in Errors, NEW body, NEW at \in {"calls", "executing"},
           Observe(error, body), Body(body, at), phase = at
    PROVE  TraceInv'
<1> DEFINE names == body \o EndOfStep(error)
           id    == Head(pending).call_id
           fatal == error \in NonRetryable
<1>1. /\ step_count' = step_count
      /\ phase' \in {"calls", "head", "over"}
      /\ status' = (IF fatal THEN "failed" ELSE status)
      /\ stop_reason' = (IF fatal THEN "non_retryable_error" ELSE stop_reason)
      /\ messages' = Append(messages, Message("tool", <<>>, id, error))
  BY DEF Observe, AfterResult, ReasonAfter
<1>2. step_count \in Nat /\ status = "running" /\ stop_reason = "none" /\ phase # "over"
      /\ phase # "asking"
  BY DEF RunInv, TypeOK, Control
<1>3. /\ Records(names, step_count) /\ id \in CallIds
      /\ ~Has(names, "model_requested") /\ ~Has(names, "model_responded")
      /\ Has(names, "tool_started") <=> at = "calls"
      /\ Has(names, "step_completed")
      /\ Has(names, "stop_reason_recorded") <=> fatal
  <2>1. /\ Records(names, step_count) /\ id \in CallIds /\ EndOfStep(error) \in Seq(Events)
        /\ Has(EndOfStep(error), "step_completed")
        /\ Has(EndOfStep(error), "stop_reason_recorded") <=> fatal
        /\ \A name : Has(EndOfStep(error), name) =>
              name \in {"step_completed", "stop_reason_recorded"}
    BY ObserveRecords
  <2>2. \A name : Has(names, name) <=> Has(body, name) \/ Has(EndOfStep(error), name)
    BY <2>1, Joined DEF Body
  <2> HIDE DEF names, id
  <2> QED BY <2>1, <2>2 DEF Body
<1>4. Len(messages') = Len(messages) + 1 /\ Len(messages) \in Nat
  <2>1. Message("tool", <<>>, id, error) \in AgentMessage
    BY <1>3 DEF Message, AgentMessage
  <2> HIDE DEF id
  <2> QED BY <1>1, <2>1, OneMoreMessage DEF RunInv
<1> HIDE DEF names, id
<1>5. Ordered' /\ StepsSoFar'
  BY <1>1, <1>2, <1>3, RecordsOrdered
<1>6. Adds(names)
  BY <1>3, RecordsAdd DEF RunInv
<1>7. Tallies'
  <2>1. /\ Count("model_responded")' = step_count' /\ Count("model_requested")' = step_count'
    BY <1>1, <1>2, <1>3, <1>6 DEF Adds, One, TraceInv, Tallies
  <2>2. /\ Len(messages') = 1 + step_count' + Count("step_completed")'
        /\ Count("tool_started")' = Count("step_completed")'
    BY <1>1, <1>2, <1>3, <1>4, <1>6 DEF Adds, One, TraceInv, Tallies
  <2>3. Count("stop_reason_recorded")' = (IF status' = "running" THEN 0 ELSE 1)
    BY <1>1, <1>2, <1>3, <1>6 DEF Adds, One, TraceInv, Tallies
  <2>4. step_count' \in Nat /\ Count("step_completed")' \in Nat
    BY <1>1, <1>2, <1>3, <1>6 DEF Adds, One
  <2>5. phase' # "asking" /\ phase' # "executing" /\ stop_reason' # "provider_failed"
    BY <1>1, <1>2
  <2> QED BY <2>1, <2>2, <2>3, <2>4, <2>5 DEF Tallies
<1> QED BY <1>5, <1>7 DEF TraceInv

(* Every result is observed, with the events of one of the bodies *)
LEMMA ResultsAreObserved ==
    ASSUME RefuseUnknownTool \/ (ExecuteTool /\ ~ToolFailsTransiently)
    PROVE  \E error \in Errors, body \in Seq(Events), at \in {"calls", "executing"} :
              Observe(error, body) /\ Body(body, at) /\ phase = at
<1>1. /\ "none" \in Errors /\ "unknown_tool" \in Errors /\ "invalid_arguments" \in Errors
      /\ "tool_execution_failed" \in Errors
  BY DEF Errors
<1>2. CASE RefuseUnknownTool
  BY <1>1, <1>2, RefusedBody, Zenon DEF RefuseUnknownTool, Body
<1>3. CASE ExecuteTool /\ ~ToolFailsTransiently
  <2>1. phase = "executing"
    BY <1>3 DEF ExecuteTool, ToolSucceeds, ToolRejects, ToolRaisesKeyError, ToolRaises, GiveUp,
                Attempt
  <2>2. \E error \in Errors, body \in Bodies : Observe(error, body)
    BY <1>1, <1>3, Zenon DEF ExecuteTool, ToolSucceeds, ToolRejects, ToolRaisesKeyError,
                             ToolRaises, GiveUp, Bodies
  <2> QED BY <2>1, <2>2, ExecutedBodies, Zenon DEF Body
<1> QED BY <1>2, <1>3

LEMMA NextTrace == RunInv /\ TraceInv /\ [Next]_vars => TraceInv'
<1> SUFFICES ASSUME RunInv, TraceInv, [Next]_vars PROVE TraceInv'
  OBVIOUS
<1>1. CASE ExceedMaxSteps \/ ProviderFails
  BY <1>1, TalliesStop
<1>2. CASE RequestModel
  BY <1>2, TalliesRequest
<1>3. CASE AnswerDirectly
  <2>1. <<>> \in Seq(ToolCall) /\ Respond(<<>>)
    BY <1>3 DEF AnswerDirectly
  <2> QED BY <1>3, <2>1, TalliesRespond
<1>4. ASSUME NEW calls \in BoundedSeq(ToolCall, MaxCalls), RequestTools(calls)
      PROVE  TraceInv'
  <2>1. calls \in Seq(ToolCall)
    BY BudgetsAssumption DEF BoundedSeq, SeqOf
  <2>2. Respond(calls)
    BY <1>4 DEF RequestTools
  <2> QED BY <1>4, <2>1, <2>2, TalliesRespond
<1>5. CASE StartTool \/ ToolFailsTransiently
  BY <1>5, TalliesTool
<1>6. CASE RefuseUnknownTool \/ (ExecuteTool /\ ~ToolFailsTransiently)
  BY <1>6, ResultsAreObserved, TalliesObserve
<1>7. CASE UNCHANGED vars
  BY <1>7 DEF vars, control, TraceInv, Tallies, Ordered, StepsSoFar, Count, Positions
<1> QED BY <1>1, <1>2, <1>3, <1>4, <1>5, <1>6, <1>7, Zenon DEF Next

LEMMA InitTrace == Init => TraceInv
<1> SUFFICES ASSUME Init PROVE TraceInv
  OBVIOUS
<1> DEFINE e == [event |-> "run_started", step |-> 0, call_id |-> None]
<1>1. e.event = "run_started" /\ e.step = 0
  OBVIOUS
<1>2. trace_events = <<e>> /\ step_count = 0 /\ phase = "head" /\ stop_reason = "none"
      /\ status = "running"
  BY DEF Init
<1>3. Len(messages) = 1
  BY DEF Init
<1> HIDE DEF e
<1>4. DOMAIN trace_events = {1} /\ trace_events[1] = e /\ Len(trace_events) = 1
  BY <1>2
<1>5. \A name \in Events : name # "run_started" => Positions(name) = {}
  BY <1>1, <1>4 DEF Positions
<1>6. \A name \in Events : name # "run_started" => Count(name) = 0
  BY <1>5, FS_EmptySet DEF Count
<1>7. /\ Count("model_responded") = 0 /\ Count("step_completed") = 0
      /\ Count("model_requested") = 0 /\ Count("tool_started") = 0
      /\ Count("stop_reason_recorded") = 0 /\ Positions("stop_reason_recorded") = {}
  BY <1>5, <1>6 DEF Events
<1>8. Tallies
  BY <1>2, <1>3, <1>7 DEF Tallies
<1>9. Ordered /\ StepsSoFar
  BY <1>1, <1>2, <1>4, <1>7 DEF Ordered, StepsSoFar
<1> QED BY <1>8, <1>9 DEF TraceInv

(* The trace alone tells the replies, the results, where the run is, and    *)
(* whether and why it stopped; nothing but run_completed follows the stop,  *)
(* and its steps never go back (loop.py:185-441).                           *)
THEOREM TraceTellsTheRun == Spec => []TraceReplays
<1>1. TraceInv => TraceReplays
  BY Replays DEF TraceInv
<1> QED BY <1>1, InitTrace, NextTrace, RunInvariance, PTL DEF Spec

-----------------------------------------------------------------------------
(* The calls in the trace *)

(* A trace that has grown *)
Longer ==
    /\ Len(trace_events) \in Nat /\ DOMAIN trace_events = 1..Len(trace_events)
    /\ Len(trace_events') \in Nat /\ DOMAIN trace_events' = 1..Len(trace_events')
    /\ Len(trace_events) <= Len(trace_events')
    /\ \A k \in DOMAIN trace_events : trace_events'[k] = trace_events[k]

LEMMA RecordsBlock ==
    ASSUME TypeOK, NEW names, NEW n, Records(names, n)
    PROVE  /\ Longer /\ Len(names) \in Nat /\ DOMAIN names = 1..Len(names)
           /\ Len(trace_events') = Len(trace_events) + Len(names)
           /\ \A k \in DOMAIN names : trace_events'[Len(trace_events) + k].event = names[k]
<1>1. PICK id \in CallIds \cup {None} : trace_events' = Traced(names, n, id)
  BY DEF Records
<1>2. names \in Seq(Events) /\ n \in Nat
  BY DEF Records
<1>3. /\ Len(trace_events) \in Nat /\ DOMAIN trace_events = 1..Len(trace_events)
      /\ Len(trace_events') = Len(trace_events) + Len(names)
      /\ DOMAIN trace_events' = 1..(Len(trace_events) + Len(names))
      /\ \A k \in DOMAIN trace_events : trace_events'[k] = trace_events[k]
      /\ \A k \in DOMAIN names : trace_events'[Len(trace_events) + k].event = names[k]
  BY <1>1, <1>2, Block
<1>4. Len(names) \in Nat /\ DOMAIN names = 1..Len(names)
  BY <1>2
<1> QED BY <1>3, <1>4 DEF Longer

(* What RetryBudget says of the call started at i *)
CallKept(i) ==
    /\ Cardinality(Transients(i)) <= MaxToolRetries
    /\ \A j \in Positions("tool_succeeded") : InCall(i, j) =>
         /\ Cardinality(Transients(i)) < MaxToolRetries
         /\ j + 2 \in Positions("step_completed") /\ InCall(i, j + 2)
    /\ \A j \in Positions("tool_failed") :
         InCall(i, j) /\ j + 1 \in Positions("observation_recorded") =>
             Cardinality(Transients(i)) = MaxToolRetries

LEMMA CallsKept == RetryBudget <=> \A i \in Positions("tool_started") : CallKept(i)
BY DEF RetryBudget, CallKept

(* No step is completed after the call started at i *)
Open(i) == \A k \in i..Len(trace_events) : trace_events[k].event # "step_completed"

LEMMA PositionsGrow ==
    ASSUME Longer, NEW name
    PROVE  /\ Positions(name) \subseteq 1..Len(trace_events)
           /\ \A i \in Positions(name)' : i \in 1..Len(trace_events')
           /\ \A i \in 1..Len(trace_events) : i \in Positions(name)' <=> i \in Positions(name)
<1>1. /\ Positions(name) \subseteq 1..Len(trace_events)
      /\ \A i \in Positions(name)' : i \in 1..Len(trace_events')
  BY DEF Positions, Longer
<1>2. ASSUME NEW i \in 1..Len(trace_events)
      PROVE  i \in Positions(name)' <=> i \in Positions(name)
  <2>1. i \in DOMAIN trace_events /\ i \in DOMAIN trace_events'
    BY DEF Longer
  <2>2. trace_events'[i] = trace_events[i]
    BY <2>1 DEF Longer
  <2> QED BY <2>1, <2>2 DEF Positions
<1> QED BY <1>1, <1>2

LEMMA InCallGrows ==
    ASSUME Longer, NEW i \in 1..Len(trace_events), NEW j \in Nat
    PROVE  /\ InCall(i, j) => InCall(i, j)'
           /\ InCall(i, j)' /\ j <= Len(trace_events) => InCall(i, j)
<1>1. \A k \in i..(j - 1) : j <= Len(trace_events) => k \in DOMAIN trace_events
  BY DEF Longer
<1>2. CASE j <= Len(trace_events)
  <2>1. \A k \in i..(j - 1) : trace_events'[k] = trace_events[k]
    BY <1>1, <1>2 DEF Longer
  <2>2. j <= Len(trace_events')
    BY <1>2 DEF Longer
  <2> QED BY <1>2, <2>1, <2>2 DEF InCall
<1>3. CASE ~(j <= Len(trace_events))
  BY <1>3 DEF InCall
<1> QED BY <1>2, <1>3

(* A call that is over stays as it is *)
LEMMA ClosedCallKept ==
    ASSUME Longer, NEW i \in Positions("tool_started"), ~Open(i), CallKept(i)
    PROVE  CallKept(i)' /\ ~Open(i)'
<1> DEFINE len == Len(trace_events)
<1>1. i \in 1..len /\ len \in Nat
  BY PositionsGrow DEF Longer
<1>2. PICK c \in i..len : trace_events[c].event = "step_completed"
  BY DEF Open
<1>3. c \in 1..len /\ trace_events'[c].event = "step_completed" /\ c \in i..Len(trace_events')
  <2>1. c \in 1..len
    BY <1>1
  <2>2. trace_events'[c] = trace_events[c]
    BY <2>1 DEF Longer
  <2> QED BY <1>1, <1>2, <2>1, <2>2 DEF Longer
<1>4. ASSUME NEW j \in Nat, InCall(i, j)'
      PROVE  j <= c /\ j \in 1..len /\ InCall(i, j)
  <2>1. i < j /\ \A k \in i..(j - 1) : trace_events'[k].event # "step_completed"
    BY <1>4 DEF InCall
  <2>2. c \notin i..(j - 1)
    BY <1>3, <2>1
  <2>3. j <= c /\ j \in 1..len
    BY <1>1, <1>3, <2>1, <2>2
  <2> QED BY <1>1, <1>4, <2>3, InCallGrows
<1> HIDE DEF len
<1>5. \A name : \A j \in Positions(name)' : j \in Nat
  BY PositionsGrow DEF Longer
<1>6. Transients(i)' = Transients(i)
  <2>1. ASSUME NEW j \in Transients(i)' PROVE j \in Transients(i)
    <3>1. j \in Positions("tool_transient_error")' /\ InCall(i, j)' /\ j \in Nat
      BY <1>5 DEF Transients
    <3>2. j \in 1..len /\ InCall(i, j)
      BY <1>4, <3>1
    <3> QED BY <3>1, <3>2, PositionsGrow DEF Transients, len
  <2>2. ASSUME NEW j \in Transients(i) PROVE j \in Transients(i)'
    <3>1. j \in Positions("tool_transient_error") /\ InCall(i, j)
      BY DEF Transients
    <3>2. j \in 1..len /\ j \in Nat
      BY <3>1, PositionsGrow DEF len
    <3>3. InCall(i, j)' /\ j \in Positions("tool_transient_error")'
      BY <1>1, <3>1, <3>2, PositionsGrow, InCallGrows DEF len
    <3> QED BY <3>3 DEF Transients
  <2> QED BY <2>1, <2>2
<1>7. ASSUME NEW j \in Positions("tool_succeeded")', InCall(i, j)'
      PROVE  /\ Cardinality(Transients(i)') < MaxToolRetries
             /\ j + 2 \in Positions("step_completed")' /\ InCall(i, j + 2)'
  <2>1. j \in 1..len /\ InCall(i, j) /\ j \in Nat
    BY <1>4, <1>5, <1>7
  <2>2. j \in Positions("tool_succeeded")
    BY <1>7, <2>1, PositionsGrow DEF len
  <2>3. /\ Cardinality(Transients(i)) < MaxToolRetries
        /\ j + 2 \in Positions("step_completed") /\ InCall(i, j + 2)
    BY <2>1, <2>2 DEF CallKept
  <2>4. j + 2 \in 1..len /\ j + 2 \in Nat
    BY <2>1, <2>3, PositionsGrow DEF len
  <2>5. j + 2 \in Positions("step_completed")'
    BY <2>3, <2>4, PositionsGrow DEF len
  <2>6. InCall(i, j + 2)'
    BY <1>1, <2>3, <2>4, InCallGrows DEF len
  <2> QED BY <1>6, <2>3, <2>5, <2>6
<1>8. ASSUME NEW j \in Positions("tool_failed")', InCall(i, j)',
             j + 1 \in Positions("observation_recorded")'
      PROVE  Cardinality(Transients(i)') = MaxToolRetries
  <2>1. j <= c /\ j \in 1..len /\ InCall(i, j) /\ j \in Nat
    BY <1>4, <1>5, <1>8
  <2>2. j \in Positions("tool_failed")
    BY <1>8, <2>1, PositionsGrow DEF len
  <2>3. j # c
    BY <1>2, <2>2 DEF Positions
  <2>4. j + 1 \in 1..len
    BY <1>1, <1>3, <2>1, <2>3
  <2>5. j + 1 \in Positions("observation_recorded")
    BY <1>8, <2>4, PositionsGrow DEF len
  <2> QED BY <1>6, <2>1, <2>2, <2>5 DEF CallKept
<1>9. CallKept(i)'
  <2>1. Cardinality(Transients(i)') <= MaxToolRetries
    BY <1>6 DEF CallKept
  <2> QED BY <1>7, <1>8, <2>1 DEF CallKept
<1> QED BY <1>3, <1>9 DEF Open

(* The call being executed: nothing but transient errors since its start,   *)
(* and as many of them as attempts.                                         *)
OpenCall ==
    \A i \in Positions("tool_started") : Open(i) =>
        /\ phase = "executing"
        /\ attempt = Cardinality(Transients(i))
        /\ \A k \in (i + 1)..Len(trace_events) : trace_events[k].event = "tool_transient_error"

RetryInv == RetryBudget /\ OpenCall

LEMMA TransientsFinite ==
    ASSUME TypeOK, NEW i
    PROVE  IsFiniteSet(Transients(i)) /\ Transients(i) \subseteq 1..Len(trace_events)
<1>1. trace_events \in Seq(TraceEvent)
  BY DEF TypeOK
<1>2. Transients(i) \subseteq 1..Len(trace_events)
  BY <1>1 DEF Transients, Positions
<1>3. IsFiniteSet(1..Len(trace_events))
  <2>1. Len(trace_events) \in Int /\ 1 \in Int
    BY <1>1
  <2> QED BY <2>1, FS_Interval
<1> QED BY <1>2, <1>3, FS_Subset

(* Outside a call's execution every call is over *)
LEMMA KeptOutside ==
    ASSUME TypeOK, RetryInv, NEW names, NEW n, Records(names, n), phase # "executing",
           ~Has(names, "tool_started")
    PROVE  RetryInv'
<1>1. /\ Longer /\ Len(names) \in Nat /\ DOMAIN names = 1..Len(names)
      /\ Len(trace_events') = Len(trace_events) + Len(names)
      /\ \A k \in DOMAIN names : trace_events'[Len(trace_events) + k].event = names[k]
  BY RecordsBlock
<1>2. ASSUME NEW i \in Positions("tool_started")' PROVE CallKept(i)' /\ ~Open(i)'
  <2>1. i \in Positions("tool_started")
    <3>1. i \in 1..Len(trace_events') /\ trace_events'[i].event = "tool_started"
      BY <1>1, PositionsGrow DEF Positions
    <3>2. CASE i \in 1..Len(trace_events)
      BY <1>1, <3>2, PositionsGrow
    <3>3. CASE ~(i \in 1..Len(trace_events))
      <4>1. i - Len(trace_events) \in DOMAIN names /\ Len(trace_events) + (i - Len(trace_events)) = i
        BY <1>1, <3>1, <3>3 DEF Longer
      <4>2. names[i - Len(trace_events)] = "tool_started"
        BY <1>1, <3>1, <4>1
      <4> QED BY <4>1, <4>2 DEF Has
    <3> QED BY <3>2, <3>3
  <2>2. CallKept(i) /\ ~Open(i)
    BY <2>1, CallsKept DEF RetryInv, OpenCall
  <2> QED BY <1>1, <2>1, <2>2, ClosedCallKept
<1>3. OpenCall'
  BY <1>2 DEF OpenCall
<1>4. RetryBudget'
  BY <1>2 DEF RetryBudget, CallKept
<1> QED BY <1>3, <1>4 DEF RetryInv

(* The call that is started is the only open one *)
LEMMA KeptByStart ==
    ASSUME RunInv, RetryInv, StartTool
    PROVE  RetryInv'
<1> DEFINE len == Len(trace_events)
<1>1. phase = "calls" /\ phase' = "executing" /\ attempt' = 0
  BY DEF StartTool
<1>2. TypeOK /\ Records(Started, step_count)
  <2>1. Head(pending).call_id \in CallIds
    BY <1>1, HeadCall
  <2> QED BY <2>1, Blocks DEF StartTool, Records, RunInv, TypeOK
<1>3. /\ Longer /\ Len(Started) = 3 /\ len \in Nat
      /\ Len(trace_events') = len + 3
      /\ trace_events'[len + 1].event = "tool_call_received"
      /\ trace_events'[len + 2].event = "tool_action_created"
      /\ trace_events'[len + 3].event = "tool_started"
  <2>1. /\ Len(Started) = 3 /\ DOMAIN Started = 1..3
        /\ Started[1] = "tool_call_received" /\ Started[2] = "tool_action_created"
        /\ Started[3] = "tool_started"
    BY DEF Started
  <2>2. /\ Longer /\ Len(trace_events') = len + Len(Started)
        /\ \A k \in DOMAIN Started : trace_events'[len + k].event = Started[k]
    BY <1>2, RecordsBlock
  <2>3. 1 \in 1..3 /\ 2 \in 1..3 /\ 3 \in 1..3
    OBVIOUS
  <2> QED BY <2>1, <2>2, <2>3 DEF Longer
<1> HIDE DEF len
<1>4. PICK s \in Nat : s = len + 3
  BY <1>3
<1>5. ASSUME NEW i \in Positions("tool_started")', i # s
      PROVE  CallKept(i)' /\ ~Open(i)'
  <2>1. i \in 1..(len + 3) /\ trace_events'[i].event = "tool_started"
    BY <1>3, PositionsGrow DEF Positions
  <2>2. i # len + 1 /\ i # len + 2
    BY <1>3, <2>1
  <2>3. i \in 1..len
    BY <1>3, <1>4, <1>5, <2>1, <2>2
  <2>4. i \in Positions("tool_started")
    BY <1>3, <1>5, <2>3, PositionsGrow DEF len
  <2>5. CallKept(i) /\ ~Open(i)
    BY <1>1, <2>4, CallsKept DEF RetryInv, OpenCall
  <2> QED BY <1>3, <2>4, <2>5, ClosedCallKept
<1>6. \A name : \A j \in Positions(name)' : ~InCall(s, j)'
  <2>1. \A name : \A j \in Positions(name)' : j \in 1..s
    BY <1>3, <1>4, PositionsGrow
  <2> QED BY <2>1 DEF InCall
<1>7. Transients(s)' = {} /\ CallKept(s)'
  <2>1. Transients(s)' = {}
    BY <1>6 DEF Transients
  <2> QED BY <1>6, <2>1, FS_EmptySet, BudgetsAssumption DEF CallKept
<1>8. \A k \in (s + 1)..Len(trace_events') : FALSE
  BY <1>3, <1>4
<1>9. OpenCall'
  <2> SUFFICES ASSUME NEW i \in Positions("tool_started")', Open(i)'
               PROVE  /\ phase' = "executing"
                      /\ attempt' = Cardinality(Transients(i)')
                      /\ \A k \in (i + 1)..Len(trace_events') :
                            trace_events'[k].event = "tool_transient_error"
    BY DEF OpenCall
  <2>1. i = s
    BY <1>5
  <2> QED BY <1>1, <1>7, <1>8, <2>1, FS_EmptySet
<1>10. RetryBudget'
  <2>1. \A i \in Positions("tool_started")' : CallKept(i)'
    BY <1>5, <1>7
  <2> QED BY <2>1 DEF RetryBudget, CallKept
<1> QED BY <1>9, <1>10 DEF RetryInv

(* What follows the start of an open call *)
LEMMA OpenCallTrace ==
    ASSUME Longer, OpenCall, NEW i \in Positions("tool_started"), Open(i)
    PROVE  /\ i \in 1..Len(trace_events) /\ Len(trace_events) \in Nat
           /\ \A k \in (i + 1)..Len(trace_events) :
                 /\ trace_events'[k].event = "tool_transient_error"
                 /\ InCall(i, k) /\ InCall(i, k)'
           /\ \A k \in i..Len(trace_events) : trace_events'[k].event # "step_completed"
           /\ Transients(i) = (i + 1)..Len(trace_events)
<1> DEFINE len == Len(trace_events)
<1>1. i \in 1..len /\ len \in Nat /\ trace_events[i].event = "tool_started"
  BY PositionsGrow DEF Longer, Positions
<1>2. \A k \in i..len : trace_events'[k] = trace_events[k] /\ k \in 1..len
  BY <1>1 DEF Longer
<1>3. \A k \in (i + 1)..len : trace_events[k].event = "tool_transient_error" /\ k \in i..len
  BY <1>1 DEF OpenCall
<1>4. \A k \in i..len : trace_events[k].event # "step_completed"
  BY DEF Open
<1> HIDE DEF len
<1>5. ASSUME NEW k \in (i + 1)..len PROVE InCall(i, k) /\ InCall(i, k)'
  <2>1. i < k /\ k <= len /\ k \in Nat
    BY <1>1
  <2>2. \A l \in i..(k - 1) : l \in i..len
    BY <1>1, <2>1
  <2>3. InCall(i, k)
    BY <1>4, <2>1, <2>2 DEF InCall, len
  <2> QED BY <1>1, <2>1, <2>3, InCallGrows DEF len
<1>6. Transients(i) = (i + 1)..len
  <2>1. ASSUME NEW j \in Transients(i) PROVE j \in (i + 1)..len
    <3>1. j \in Positions("tool_transient_error") /\ InCall(i, j)
      BY DEF Transients
    <3>2. i < j /\ j \in 1..len
      BY <3>1, PositionsGrow DEF InCall, len
    <3> QED BY <1>1, <3>2
  <2>2. ASSUME NEW j \in (i + 1)..len PROVE j \in Transients(i)
    <3>1. j \in DOMAIN trace_events
      BY <1>2, <1>3 DEF Longer, len
    <3> QED BY <1>3, <1>5, <3>1 DEF Transients, Positions
  <2> QED BY <2>1, <2>2
<1> QED BY <1>1, <1>2, <1>3, <1>4, <1>5, <1>6 DEF len

(* One more transient error of the open call *)
LEMMA KeptByTransient ==
    ASSUME RunInv, RetryInv, ToolFailsTransiently
    PROVE  RetryInv'
<1> DEFINE len == Len(trace_events)
<1>1. /\ phase = "executing" /\ phase' = "executing"
      /\ attempt' = attempt + 1 /\ attempt < MaxToolRetries /\ attempt \in Nat
  BY DEF ToolFailsTransiently, Attempt, AttemptsLeft, RunInv, TypeOK
<1>2. TypeOK /\ Records(<<"tool_transient_error">>, step_count)
  <2>1. Head(pending).call_id \in CallIds
    BY <1>1, HeadCall
  <2> QED BY <2>1, Blocks DEF ToolFailsTransiently, Records, RunInv, TypeOK
<1>3. PICK s \in Nat : s = len + 1
  BY <1>2, RecordsBlock DEF Longer
<1>4. /\ Longer /\ len \in Nat /\ Len(trace_events') = s
      /\ trace_events'[s].event = "tool_transient_error"
  <2> DEFINE names == <<"tool_transient_error">>
  <2>1. /\ Longer /\ Len(trace_events') = len + Len(names)
        /\ \A k \in DOMAIN names : trace_events'[len + k].event = names[k]
    BY <1>2, RecordsBlock
  <2>2. Len(names) = 1 /\ 1 \in DOMAIN names /\ names[1] = "tool_transient_error"
    OBVIOUS
  <2> QED BY <1>3, <2>1, <2>2 DEF Longer
<1> HIDE DEF len
<1>5. ASSUME NEW i \in Positions("tool_started")'
      PROVE  i \in Positions("tool_started")
  <2>1. i \in 1..s /\ i # s
    BY <1>4, PositionsGrow DEF Positions
  <2>2. i \in 1..len
    BY <1>3, <1>4, <2>1
  <2> QED BY <1>4, <2>2, PositionsGrow DEF len
<1>6. ASSUME NEW i \in Positions("tool_started"), Open(i)
      PROVE  /\ CallKept(i)' /\ attempt' = Cardinality(Transients(i)')
             /\ \A k \in (i + 1)..Len(trace_events') : trace_events'[k].event = "tool_transient_error"
  <2>1. /\ i \in 1..len
        /\ \A k \in (i + 1)..len : trace_events'[k].event = "tool_transient_error" /\ InCall(i, k)'
        /\ \A k \in i..len : trace_events'[k].event # "step_completed"
        /\ Transients(i) = (i + 1)..len
    BY <1>4, <1>6, OpenCallTrace DEF RetryInv, len
  <2>2. \A k \in (i + 1)..s : k \in (i + 1)..len \/ k = s
    BY <1>3, <1>4, <2>1
  <2>3. \A k \in (i + 1)..s : trace_events'[k].event = "tool_transient_error"
    BY <1>4, <2>1, <2>2
  <2>4. InCall(i, s)'
    <3>1. i < s /\ s <= Len(trace_events') /\ \A k \in i..(s - 1) : k \in i..len
      BY <1>3, <1>4, <2>1
    <3> QED BY <2>1, <3>1 DEF InCall
  <2>5. \A name : \A j \in Positions(name)' : InCall(i, j)' => j \in (i + 1)..s
    <3>1. \A name : \A j \in Positions(name)' : j \in 1..s
      BY <1>4, PositionsGrow
    <3> QED BY <2>1, <3>1 DEF InCall
  <2>6. Transients(i)' = Transients(i) \cup {s}
    <3>1. \A j \in Transients(i)' : j \in (i + 1)..s
      BY <2>5 DEF Transients
    <3>2. \A j \in (i + 1)..s : j \in Transients(i)'
      <4>1. \A j \in (i + 1)..s : InCall(i, j)'
        BY <2>1, <2>2, <2>4
      <4>2. \A j \in (i + 1)..s : j \in DOMAIN trace_events'
        BY <1>4, <2>1 DEF Longer
      <4> QED BY <2>3, <4>1, <4>2 DEF Transients, Positions
    <3>3. (i + 1)..s = ((i + 1)..len) \cup {s}
      BY <1>3, <1>4, <2>1
    <3> QED BY <2>1, <3>1, <3>2, <3>3
  <2>7. Cardinality(Transients(i)') = Cardinality(Transients(i)) + 1
    <3>1. IsFiniteSet(Transients(i))
      BY <1>2, TransientsFinite
    <3>2. s \notin Transients(i)
      BY <1>3, <1>4, <2>1
    <3> QED BY <2>6, <3>1, <3>2, FS_AddElement
  <2>8. Cardinality(Transients(i)) = attempt
    BY <1>6 DEF RetryInv, OpenCall
  <2>9. \A j : /\ j \in Positions("tool_succeeded")' => ~InCall(i, j)'
               /\ j \in Positions("tool_failed")' => ~InCall(i, j)'
    BY <2>3, <2>5 DEF Positions
  <2>10. Cardinality(Transients(i)') <= MaxToolRetries
    BY <1>1, <2>7, <2>8, BudgetsAssumption
  <2>11. CallKept(i)'
    BY <2>9, <2>10 DEF CallKept
  <2> QED BY <1>1, <1>4, <2>3, <2>7, <2>8, <2>11
<1>7. ASSUME NEW i \in Positions("tool_started"), ~Open(i)
      PROVE  CallKept(i)' /\ ~Open(i)'
  BY <1>4, <1>7, ClosedCallKept, CallsKept DEF RetryInv
<1>8. OpenCall'
  BY <1>1, <1>5, <1>6, <1>7 DEF OpenCall
<1>9. RetryBudget'
  <2>1. \A i \in Positions("tool_started")' : CallKept(i)'
    BY <1>5, <1>6, <1>7
  <2> QED BY <2>1 DEF RetryBudget, CallKept
<1> QED BY <1>8, <1>9 DEF RetryInv

(* Where the events of a result stand *)
LEMMA ObserveBlock ==
    ASSUME RunInv, NEW error \in Errors, NEW body, NEW at \in {"calls", "executing"},
           Observe(error, body), Body(body, at), phase = at
    PROVE  /\ Longer /\ Len(body) \in Nat /\ DOMAIN body = 1..Len(body)
           /\ \A k \in DOMAIN body : trace_events'[Len(trace_events) + k].event = body[k]
           /\ trace_events'[Len(trace_events) + Len(body) + 1].event = "step_completed"
           /\ Len(trace_events) + Len(body) + 1 <= Len(trace_events')
           /\ \A k \in (Len(trace_events) + Len(body) + 1)..Len(trace_events') :
                 trace_events'[k].event \in {"step_completed", "stop_reason_recorded"}
<1> DEFINE end == EndOfStep(error)
           names == body \o end
           len == Len(trace_events)
<1>1. Records(names, step_count) /\ TypeOK
  BY ObserveRecords DEF RunInv
<1>2. body \in Seq(Events)
  BY DEF Body
<1>3. /\ end \in Seq(Events) /\ Len(end) \in {1, 2} /\ end[1] = "step_completed"
      /\ Len(end) = 2 => end[2] = "stop_reason_recorded"
  <2>1. CASE error \in NonRetryable
    <3>1. end = <<"step_completed", "stop_reason_recorded">>
      BY <2>1 DEF EndOfStep
    <3> QED BY <3>1 DEF Events
  <2>2. CASE error \notin NonRetryable
    <3>1. end = <<"step_completed">>
      BY <2>2 DEF EndOfStep
    <3> QED BY <3>1 DEF Events
  <2> QED BY <2>1, <2>2
<1> HIDE DEF end
<1>4. /\ Len(body) \in Nat /\ DOMAIN body = 1..Len(body) /\ DOMAIN end = 1..Len(end)
      /\ DOMAIN names = 1..(Len(body) + Len(end))
      /\ \A k \in DOMAIN body : k \in DOMAIN names /\ names[k] = body[k]
      /\ \A k \in DOMAIN end : Len(body) + k \in DOMAIN names /\ names[Len(body) + k] = end[k]
  <2>1. /\ DOMAIN (body \o end) = 1..(Len(body) + Len(end))
        /\ \A k \in DOMAIN body : k \in DOMAIN (body \o end) /\ (body \o end)[k] = body[k]
        /\ \A k \in DOMAIN end : /\ Len(body) + k \in DOMAIN (body \o end)
                                /\ (body \o end)[Len(body) + k] = end[k]
    <3>1. body \in Seq(Events) /\ end \in Seq(Events)
      BY <1>2, <1>3
    <3> QED BY <3>1, Joined, Zenon
  <2>2. /\ DOMAIN names = 1..(Len(body) + Len(end))
        /\ \A k \in DOMAIN body : k \in DOMAIN names /\ names[k] = body[k]
        /\ \A k \in DOMAIN end : Len(body) + k \in DOMAIN names /\ names[Len(body) + k] = end[k]
    BY <2>1
  <2> QED BY <1>2, <1>3, <2>2
<1> HIDE DEF names
<1>5. /\ Longer /\ Len(names) \in Nat /\ DOMAIN names = 1..Len(names)
      /\ Len(trace_events') = len + Len(names)
      /\ \A k \in DOMAIN names : trace_events'[len + k].event = names[k]
  <2>1. /\ Longer /\ Len(names) \in Nat /\ DOMAIN names = 1..Len(names)
        /\ Len(trace_events') = Len(trace_events) + Len(names)
        /\ \A k \in DOMAIN names : trace_events'[Len(trace_events) + k].event = names[k]
    BY <1>1, RecordsBlock, Zenon
  <2> QED BY <2>1, Zenon DEF len
<1>6. len \in Nat /\ Len(names) = Len(body) + Len(end)
  <2>1. Len(names) \in Nat /\ Len(body) + Len(end) \in Nat
        /\ 1..Len(names) = 1..(Len(body) + Len(end))
    BY <1>3, <1>4, <1>5
  <2>2. \A a, b \in Nat : 1..a = 1..b => a = b
    <3> SUFFICES ASSUME NEW a \in Nat, NEW b \in Nat, 1..a = 1..b PROVE ~(a < b) /\ ~(b < a)
      OBVIOUS
    <3>1. a < b => b \in 1..b /\ b \notin 1..a
      OBVIOUS
    <3>2. b < a => a \in 1..a /\ a \notin 1..b
      OBVIOUS
    <3> QED BY <3>1, <3>2
  <2>3. len \in Nat
    BY <1>5 DEF Longer
  <2> QED BY <2>1, <2>2, <2>3, Zenon
<1> HIDE DEF len
<1>7. \A k \in DOMAIN end : trace_events'[len + Len(body) + k].event = end[k]
  <2> SUFFICES ASSUME NEW k \in DOMAIN end
               PROVE  trace_events'[len + Len(body) + k].event = end[k]
    OBVIOUS
  <2>1. len + (Len(body) + k) = len + Len(body) + k
    BY <1>3, <1>4, <1>6
  <2> QED BY <1>4, <1>5, <2>1
<1>8. 1 \in DOMAIN end /\ (Len(end) = 2 => 2 \in DOMAIN end)
  BY <1>3, <1>4
<1>9. \A k \in (len + Len(body) + 1)..Len(trace_events') :
         \/ k = len + Len(body) + 1
         \/ k = len + Len(body) + 2 /\ Len(end) = 2
  <2> DEFINE last == len + Len(body)
  <2>1. last \in Nat /\ Len(trace_events') = last + Len(end)
    BY <1>3, <1>4, <1>5, <1>6
  <2> HIDE DEF last
  <2>2. CASE Len(end) = 1
    <3>1. \A k \in (last + 1)..Len(trace_events') : k = last + 1
      BY <2>1, <2>2
    <3> QED BY <3>1 DEF last
  <2>3. CASE Len(end) = 2
    <3>1. \A k \in (last + 1)..Len(trace_events') : k = last + 1 \/ k = last + 2
      BY <2>1, <2>3
    <3> QED BY <2>3, <3>1 DEF last
  <2> QED BY <1>3, <2>2, <2>3
<1>10. \A k \in (len + Len(body) + 1)..Len(trace_events') :
          trace_events'[k].event \in {"step_completed", "stop_reason_recorded"}
  BY <1>3, <1>7, <1>8, <1>9
<1>11. len + Len(body) + 1 <= Len(trace_events')
  BY <1>3, <1>4, <1>5, <1>6
<1> QED BY <1>3, <1>4, <1>5, <1>7, <1>8, <1>10, <1>11 DEF len

(* A call that is refused is started and over in one step *)
LEMMA KeptByRefusal ==
    ASSUME RunInv, RetryInv, RefuseUnknownTool
    PROVE  RetryInv'
<1> DEFINE len == Len(trace_events)
<1>1. PICK body : body = Append(Started, "tool_validation_failed")
  OBVIOUS
<1>2. /\ TypeOK /\ phase = "calls" /\ phase' # "executing"
      /\ Observe("unknown_tool", body) /\ Body(body, "calls")
  BY <1>1, RefusedBody DEF RefuseUnknownTool, Observe, AfterResult, RunInv
<1>3. /\ Len(body) = 4 /\ DOMAIN body = 1..4
      /\ body[1] = "tool_call_received" /\ body[2] = "tool_action_created"
      /\ body[3] = "tool_started" /\ body[4] = "tool_validation_failed"
  BY <1>1, RefusedEvents
<1>4. /\ Longer /\ len \in Nat
      /\ \A k \in 1..4 : trace_events'[len + k].event = body[k]
      /\ trace_events'[len + 5].event = "step_completed" /\ len + 5 <= Len(trace_events')
      /\ \A k \in (len + 5)..Len(trace_events') :
            trace_events'[k].event \in {"step_completed", "stop_reason_recorded"}
  <2>1. "unknown_tool" \in Errors
    BY DEF Errors
  <2>2. /\ Longer
        /\ \A k \in DOMAIN body : trace_events'[len + k].event = body[k]
        /\ trace_events'[len + Len(body) + 1].event = "step_completed"
        /\ len + Len(body) + 1 <= Len(trace_events')
        /\ \A k \in (len + Len(body) + 1)..Len(trace_events') :
              trace_events'[k].event \in {"step_completed", "stop_reason_recorded"}
    BY <1>2, <2>1, ObserveBlock
  <2>3. len \in Nat /\ len + Len(body) + 1 = len + 5
    BY <1>3, <2>2 DEF Longer
  <2> QED BY <1>3, <2>2, <2>3
<1>5. PICK s \in Nat : s = len + 3
  BY <1>4
<1> HIDE DEF len
<1>6. /\ trace_events'[s - 2].event = "tool_call_received"
      /\ trace_events'[s - 1].event = "tool_action_created"
      /\ trace_events'[s].event = "tool_started"
      /\ trace_events'[s + 1].event = "tool_validation_failed"
      /\ trace_events'[s + 2].event = "step_completed"
      /\ s + 2 <= Len(trace_events') /\ Len(trace_events') \in Nat
  <2>1. s - 2 = len + 1 /\ s - 1 = len + 2 /\ s + 1 = len + 4 /\ s + 2 = len + 5
    BY <1>4, <1>5
  <2> QED BY <1>3, <1>4, <1>5, <2>1 DEF Longer
<1>7. ASSUME NEW i \in Positions("tool_started")', i # s
      PROVE  i \in Positions("tool_started")
  <2>1. i \in 1..Len(trace_events') /\ trace_events'[i].event = "tool_started"
    BY <1>4, PositionsGrow DEF Positions
  <2>2. i \notin (len + 5)..Len(trace_events')
    BY <1>4, <2>1
  <2>3. i # s - 2 /\ i # s - 1 /\ i # s + 1
    BY <1>6, <2>1
  <2>4. i \in 1..len
    BY <1>4, <1>5, <1>6, <1>7, <2>1, <2>2, <2>3
  <2> QED BY <1>4, <2>4, PositionsGrow DEF len
<1>8. ASSUME NEW i \in Positions("tool_started")', i # s
      PROVE  CallKept(i)' /\ ~Open(i)'
  BY <1>2, <1>4, <1>7, <1>8, ClosedCallKept, CallsKept DEF RetryInv, OpenCall
<1>9. \A name : \A j \in Positions(name)' : InCall(s, j)' => j = s + 1 \/ j = s + 2
  <2>1. \A name : \A j \in Positions(name)' : j \in 1..Len(trace_events')
    BY <1>4, PositionsGrow
  <2>2. \A j \in 1..Len(trace_events') : InCall(s, j)' => s < j /\ s + 2 \notin s..(j - 1)
    BY <1>6 DEF InCall
  <2>3. \A j \in 1..Len(trace_events') : s < j /\ s + 2 \notin s..(j - 1) => j = s + 1 \/ j = s + 2
    BY <1>6
  <2> QED BY <2>1, <2>2, <2>3
<1>10. CallKept(s)'
  <2>1. \A name \in {"tool_transient_error", "tool_succeeded", "tool_failed"} :
           \A j \in Positions(name)' : ~InCall(s, j)'
    BY <1>6, <1>9 DEF Positions
  <2>2. Transients(s)' = {}
    BY <2>1 DEF Transients
  <2> QED BY <2>1, <2>2, FS_EmptySet, BudgetsAssumption DEF CallKept
<1>11. ~Open(s)'
  <2>1. s + 2 \in s..Len(trace_events')
    BY <1>6
  <2> QED BY <1>6, <2>1 DEF Open
<1>12. OpenCall'
  BY <1>8, <1>11 DEF OpenCall
<1>13. RetryBudget'
  <2>1. \A i \in Positions("tool_started")' : CallKept(i)'
    BY <1>8, <1>10
  <2> QED BY <2>1 DEF RetryBudget, CallKept
<1> QED BY <1>12, <1>13 DEF RetryInv

(* How the events of a result are told apart *)
LEMMA BodyEvents ==
    ASSUME NEW body \in Bodies
    PROVE  /\ \A k \in DOMAIN body : body[k] \notin {"tool_started", "tool_transient_error",
                                                    "step_completed"}
           /\ \A k \in DOMAIN body : body[k] = "tool_succeeded" => k = 1 /\ Len(body) = 2
           /\ \A k \in DOMAIN body : body[k] = "tool_failed" =>
                 /\ k = 1
                 /\ 2 \in DOMAIN body => body = <<"tool_failed", "observation_recorded">>
<1>1. CASE body = <<"tool_succeeded", "observation_recorded">>
  BY <1>1
<1>2. CASE body = <<"tool_validation_failed">>
  BY <1>2
<1>3. CASE body = <<"tool_failed">>
  BY <1>3
<1>4. CASE body = <<"tool_failed", "observation_recorded">>
  BY <1>4
<1> QED BY <1>1, <1>2, <1>3, <1>4 DEF Bodies

(* A success is of an attempt within the budget, a surrender is not *)
LEMMA ResultBodies ==
    ASSUME ExecuteTool, ~ToolFailsTransiently
    PROVE  \E error \in Errors, body \in Bodies :
              /\ Observe(error, body)
              /\ body = <<"tool_succeeded", "observation_recorded">> => attempt < MaxToolRetries
              /\ body = <<"tool_failed", "observation_recorded">> => ~(attempt < MaxToolRetries)
<1> DEFINE succ == <<"tool_succeeded", "observation_recorded">>
           rejd == <<"tool_validation_failed">>
           fail == <<"tool_failed">>
           give == <<"tool_failed", "observation_recorded">>
<1>1. /\ "none" \in Errors /\ "unknown_tool" \in Errors /\ "invalid_arguments" \in Errors
      /\ "tool_execution_failed" \in Errors
      /\ succ \in Bodies /\ rejd \in Bodies /\ fail \in Bodies /\ give \in Bodies
  BY DEF Errors, Bodies
<1>2. succ # give /\ rejd # succ /\ rejd # give /\ fail # succ /\ fail # give
  <2>1. /\ succ[1] = "tool_succeeded" /\ give[1] = "tool_failed" /\ Len(succ) = 2 /\ Len(give) = 2
        /\ Len(rejd) = 1 /\ Len(fail) = 1
    OBVIOUS
  <2> QED BY <2>1
<1> HIDE DEF succ, rejd, fail, give
<1>3. CASE ToolSucceeds
  <2>1. Observe("none", succ) /\ attempt < MaxToolRetries
    BY <1>3 DEF ToolSucceeds, Attempt, AttemptsLeft, succ
  <2> QED BY <1>1, <1>2, <2>1 DEF succ, give
<1>4. CASE ToolRejects
  <2>1. Observe("invalid_arguments", rejd)
    BY <1>4 DEF ToolRejects, rejd
  <2> QED BY <1>1, <1>2, <2>1 DEF succ, give
<1>5. CASE ToolRaisesKeyError
  <2>1. Observe("unknown_tool", rejd)
    BY <1>5 DEF ToolRaisesKeyError, rejd
  <2> QED BY <1>1, <1>2, <2>1 DEF succ, give
<1>6. CASE ToolRaises
  <2>1. Observe("tool_execution_failed", fail)
    BY <1>6 DEF ToolRaises, fail
  <2> QED BY <1>1, <1>2, <2>1 DEF succ, give
<1>7. CASE GiveUp
  <2>1. Observe("tool_execution_failed", give) /\ ~(attempt < MaxToolRetries)
    BY <1>7 DEF GiveUp, AttemptsLeft, give
  <2> QED BY <1>1, <1>2, <2>1 DEF succ, give
<1> QED BY <1>3, <1>4, <1>5, <1>6, <1>7 DEF ExecuteTool

(* The result of an executed call ends it *)
LEMMA KeptByResult ==
    ASSUME RunInv, RetryInv, ExecuteTool, ~ToolFailsTransiently
    PROVE  RetryInv'
<1> DEFINE len == Len(trace_events)
<1>1. /\ phase = "executing" /\ attempt \in Nat /\ attempt <= MaxToolRetries /\ TypeOK
  BY DEF RunInv, TypeOK, Control, ExecuteTool, ToolSucceeds, ToolRejects,
         ToolRaisesKeyError, ToolRaises, GiveUp, Attempt
<1>2. PICK error \in Errors, body \in Bodies :
              /\ Observe(error, body)
              /\ body = <<"tool_succeeded", "observation_recorded">> => attempt < MaxToolRetries
              /\ body = <<"tool_failed", "observation_recorded">> => ~(attempt < MaxToolRetries)
  BY ResultBodies
<1>3. /\ Longer /\ len \in Nat /\ Len(body) \in Nat /\ DOMAIN body = 1..Len(body)
      /\ \A k \in DOMAIN body : trace_events'[len + k].event = body[k]
      /\ trace_events'[len + Len(body) + 1].event = "step_completed"
      /\ len + Len(body) + 1 <= Len(trace_events') /\ Len(trace_events') \in Nat
      /\ \A k \in (len + Len(body) + 1)..Len(trace_events') :
            trace_events'[k].event \in {"step_completed", "stop_reason_recorded"}
  BY <1>1, <1>2, ExecutedBodies, ObserveBlock DEF Longer
<1>4. phase' # "executing"
  BY <1>2 DEF Observe, AfterResult
<1>5. PICK s \in Nat : s = len + Len(body) + 1
  BY <1>3
<1> HIDE DEF len
(* Every event of the new trace is old, of the body, or of the step's end *)
<1>6. \A k \in 1..Len(trace_events') :
         \/ k \in 1..len
         \/ k - len \in DOMAIN body /\ trace_events'[k].event = body[k - len] /\ k < s
         \/ k >= s /\ trace_events'[k].event \in {"step_completed", "stop_reason_recorded"}
  <2> SUFFICES ASSUME NEW k \in 1..Len(trace_events'), k > len, k < s
               PROVE  k - len \in DOMAIN body /\ trace_events'[k].event = body[k - len]
    BY <1>3, <1>5
  <2>1. k - len \in DOMAIN body /\ len + (k - len) = k
    BY <1>3, <1>5
  <2> QED BY <1>3, <2>1
<1>7. /\ \A k \in DOMAIN body : body[k] \notin {"tool_started", "tool_transient_error",
                                               "step_completed"}
      /\ \A k \in DOMAIN body : body[k] = "tool_succeeded" => k = 1 /\ Len(body) = 2
      /\ \A k \in DOMAIN body : body[k] = "tool_failed" =>
            /\ k = 1
            /\ 2 \in DOMAIN body => body = <<"tool_failed", "observation_recorded">>
  BY BodyEvents
<1>8. ASSUME NEW i \in Positions("tool_started")' PROVE i \in Positions("tool_started")
  <2>1. i \in 1..Len(trace_events') /\ trace_events'[i].event = "tool_started"
    BY <1>3, PositionsGrow DEF Positions
  <2>2. i \in 1..len
    BY <1>6, <1>7, <2>1
  <2> QED BY <1>3, <2>2, PositionsGrow DEF len
<1>9. ASSUME NEW i \in Positions("tool_started"), Open(i)
      PROVE  CallKept(i)' /\ ~Open(i)'
  <2>1. /\ i \in 1..len
        /\ \A k \in (i + 1)..len : /\ trace_events'[k].event = "tool_transient_error"
                                   /\ InCall(i, k)'
        /\ \A k \in i..len : trace_events'[k].event # "step_completed"
        /\ Transients(i) = (i + 1)..len
    BY <1>3, <1>9, OpenCallTrace DEF RetryInv, len
  <2>2. InCall(i, s)'
    <3>1. i < s /\ s <= Len(trace_events')
      BY <1>3, <1>5, <2>1
    <3>2. ASSUME NEW k \in i..(s - 1) PROVE trace_events'[k].event # "step_completed"
      <4>1. k \in 1..Len(trace_events') /\ k < s /\ (k \in 1..len => k \in i..len)
        BY <1>3, <1>5, <2>1, <3>1
      <4>2. CASE k \in 1..len
        BY <2>1, <4>1, <4>2
      <4>3. CASE k - len \in DOMAIN body /\ trace_events'[k].event = body[k - len]
        BY <1>7, <4>3
      <4>4. ~(k >= s)
        BY <4>1
      <4> QED BY <1>6, <4>1, <4>2, <4>3, <4>4
    <3> QED BY <3>1, <3>2 DEF InCall
  <2>3. ASSUME NEW name, NEW j \in Positions(name)', InCall(i, j)'
        PROVE  /\ j \in 1..Len(trace_events') /\ j <= s /\ i < j
               /\ trace_events'[j].event = name
               /\ \/ j \in (i + 1)..len /\ name = "tool_transient_error"
                  \/ j - len \in DOMAIN body /\ name = body[j - len]
                  \/ j = s /\ name \in {"step_completed", "stop_reason_recorded"}
    <3>1. j \in 1..Len(trace_events') /\ trace_events'[j].event = name
      BY <1>3, PositionsGrow DEF Positions
    <3>2. i < j /\ s \notin i..(j - 1)
      <4>1. trace_events'[s].event = "step_completed"
        BY <1>3, <1>5
      <4> QED BY <2>3, <4>1 DEF InCall
    <3>3. j <= s
      BY <1>5, <2>1, <2>2, <3>1, <3>2 DEF InCall
    <3>4. j \in 1..len => j \in (i + 1)..len
      BY <2>1, <3>2
    <3>5. j >= s => j = s
      BY <1>5, <3>1, <3>3
    <3> QED BY <1>6, <2>1, <3>1, <3>2, <3>3, <3>4, <3>5
  <2>4. Transients(i)' = Transients(i)
    <3>1. ASSUME NEW j \in Transients(i)' PROVE j \in (i + 1)..len
      <4>1. j \in Positions("tool_transient_error")' /\ InCall(i, j)'
        BY DEF Transients
      <4> QED BY <1>7, <2>3, <4>1
    <3>2. ASSUME NEW j \in (i + 1)..len PROVE j \in Transients(i)'
      <4>1. j \in DOMAIN trace_events'
        BY <1>3, <2>1 DEF Longer, len
      <4> QED BY <2>1, <4>1 DEF Transients, Positions
    <3> QED BY <2>1, <3>1, <3>2
  <2>5. attempt = Cardinality(Transients(i)')
    BY <1>9, <2>4 DEF RetryInv, OpenCall
  <2>6. ASSUME NEW j \in Positions("tool_succeeded")', InCall(i, j)'
        PROVE  /\ Cardinality(Transients(i)') < MaxToolRetries
               /\ j + 2 \in Positions("step_completed")' /\ InCall(i, j + 2)'
    <3>1. j - len \in DOMAIN body /\ body[j - len] = "tool_succeeded" /\ j \in Nat
      BY <2>3, <2>6
    <3>2. j - len = 1 /\ Len(body) = 2
      BY <1>7, <3>1
    <3>3. j + 2 = s
      BY <1>3, <1>5, <3>1, <3>2
    <3>4. s \in Positions("step_completed")'
      <4>1. s \in DOMAIN trace_events' /\ trace_events'[s].event = "step_completed"
        BY <1>3, <1>5 DEF Longer
      <4> QED BY <4>1 DEF Positions
    <3>5. body = <<"tool_succeeded", "observation_recorded">>
      BY <3>1, <3>2 DEF Bodies
    <3> QED BY <1>2, <2>2, <2>5, <3>3, <3>4, <3>5
  <2>7. ASSUME NEW j \in Positions("tool_failed")', InCall(i, j)',
               j + 1 \in Positions("observation_recorded")'
        PROVE  Cardinality(Transients(i)') = MaxToolRetries
    <3>1. j - len \in DOMAIN body /\ body[j - len] = "tool_failed" /\ j \in Nat
      BY <2>3, <2>7
    <3>2. j - len = 1 /\ (2 \in DOMAIN body => body = <<"tool_failed", "observation_recorded">>)
      BY <1>7, <3>1
    <3>3. j + 1 \in 1..Len(trace_events') /\ trace_events'[j + 1].event = "observation_recorded"
      BY <1>3, <2>7, PositionsGrow DEF Positions
    <3>4. j + 1 = len + 2 /\ j + 1 \notin 1..len /\ (j + 1) - len = 2
      BY <1>3, <3>1, <3>2
    <3>5. 2 \in DOMAIN body
      BY <1>6, <3>3, <3>4
    <3> QED BY <1>1, <1>2, <2>5, <3>2, <3>5, BudgetsAssumption
  <2>8. CallKept(i)'
    BY <1>1, <2>5, <2>6, <2>7 DEF CallKept
  <2>9. ~Open(i)'
    <3>1. s \in i..Len(trace_events') /\ trace_events'[s].event = "step_completed"
      BY <1>3, <1>5, <2>1
    <3> QED BY <3>1 DEF Open
  <2> QED BY <2>8, <2>9
<1>10. ASSUME NEW i \in Positions("tool_started"), ~Open(i)
       PROVE  CallKept(i)' /\ ~Open(i)'
  BY <1>3, <1>10, ClosedCallKept, CallsKept DEF RetryInv
<1>11. OpenCall'
  BY <1>8, <1>9, <1>10 DEF OpenCall
<1>12. RetryBudget'
  <2>1. \A i \in Positions("tool_started")' : CallKept(i)'
    BY <1>8, <1>9, <1>10
  <2> QED BY <2>1 DEF RetryBudget, CallKept
<1> QED BY <1>11, <1>12 DEF RetryInv

LEMMA NextRetry == RunInv /\ RetryInv /\ [Next]_vars => RetryInv'
<1> SUFFICES ASSUME RunInv, RetryInv, [Next]_vars PROVE RetryInv'
  OBVIOUS
<1>1. TypeOK /\ step_count \in Nat /\ step_count + 1 \in Nat
  BY DEF RunInv, TypeOK
<1>2. CASE ExceedMaxSteps \/ ProviderFails
  <2>1. PICK names \in {<<"max_steps_exceeded", "stop_reason_recorded">>,
                        <<"model_provider_failed", "stop_reason_recorded">>} :
           Records(names, step_count) /\ phase # "executing"
    BY <1>1, <1>2, Blocks DEF ExceedMaxSteps, ProviderFails, Stop, Records
  <2>2. ~Has(names, "tool_started")
    BY DEF Has
  <2> QED BY <1>1, <2>1, <2>2, KeptOutside
<1>3. CASE RequestModel
  <2> DEFINE names == <<"model_requested">>
  <2>1. Records(names, step_count) /\ phase # "executing" /\ ~Has(names, "tool_started")
    BY <1>1, <1>3, Blocks DEF RequestModel, Records, Has
  <2> QED BY <1>1, <2>1, KeptOutside
<1>4. CASE AnswerDirectly
  <2> DEFINE names == <<"model_responded", "stop_reason_recorded", "run_completed">>
  <2>1. Records(names, step_count + 1) /\ phase # "executing"
    BY <1>1, <1>4, Blocks DEF AnswerDirectly, Respond, Stop, Records
  <2>2. ~Has(names, "tool_started")
    BY DEF Has
  <2> QED BY <1>1, <2>1, <2>2, KeptOutside
<1>5. ASSUME NEW calls \in BoundedSeq(ToolCall, MaxCalls), RequestTools(calls)
      PROVE  RetryInv'
  <2> DEFINE names == <<"model_responded">>
  <2>1. Records(names, step_count + 1) /\ phase # "executing" /\ ~Has(names, "tool_started")
    BY <1>1, <1>5, Blocks DEF RequestTools, Respond, Records, Has
  <2> QED BY <1>1, <2>1, KeptOutside
<1>6. CASE RefuseUnknownTool
  BY <1>6, KeptByRefusal
<1>7. CASE StartTool
  BY <1>7, KeptByStart
<1>8. CASE ToolFailsTransiently
  BY <1>8, KeptByTransient
<1>9. CASE ExecuteTool /\ ~ToolFailsTransiently
  BY <1>9, KeptByResult
<1>10. CASE UNCHANGED vars
  <2>1. UNCHANGED <<trace_events, phase, attempt>>
    BY <1>10 DEF vars, control
  <2>2. \A name : Positions(name)' = Positions(name)
    BY <2>1 DEF Positions
  <2>3. \A i, j : InCall(i, j)' <=> InCall(i, j)
    BY <2>1 DEF InCall
  <2>4. \A i : Transients(i)' = Transients(i) /\ (Open(i)' <=> Open(i))
    BY <2>1, <2>2, <2>3 DEF Transients, Open
  <2>5. RetryBudget'
    BY <2>2, <2>3, <2>4 DEF RetryInv, RetryBudget
  <2>6. OpenCall'
    BY <2>1, <2>2, <2>4 DEF RetryInv, OpenCall
  <2> QED BY <2>5, <2>6 DEF RetryInv
<1> QED BY <1>2, <1>3, <1>4, <1>5, <1>6, <1>7, <1>8, <1>9, <1>10, Zenon DEF Next

LEMMA InitRetry == Init => RetryInv
<1> SUFFICES ASSUME Init PROVE RetryInv
  OBVIOUS
<1>1. Positions("tool_started") = {}
  <2> DEFINE e == [event |-> "run_started", step |-> 0, call_id |-> None]
  <2>1. e.event = "run_started" /\ trace_events = <<e>>
    BY DEF Init
  <2> HIDE DEF e
  <2>2. DOMAIN trace_events = {1} /\ trace_events[1] = e
    BY <2>1
  <2> QED BY <2>1, <2>2 DEF Positions
<1> QED BY <1>1 DEF RetryInv, RetryBudget, OpenCall

(* No call is executed more than max_tool_retries times: nothing is tried   *)
(* after a success, and a call is given up only when that many attempts     *)
(* failed transiently (loop.py:114-163).                                    *)
THEOREM AttemptsAreBudgeted == Spec => []RetryBudget
<1>1. RetryInv => RetryBudget
  BY DEF RetryInv
<1> QED BY <1>1, InitRetry, NextRetry, RunInvariance, PTL DEF Spec
Trajectory ==
    /\ phase # "over" => /\ Len(steps) = Cardinality(Results)
                         /\ \A k \in DOMAIN steps : IsAction(steps[k])
    /\ step_count = RepliesUpTo(Len(messages))
    /\ TrajectoryAgrees

-----------------------------------------------------------------------------
(* The trajectory and the conversation *)

LEMMA CountsFinite ==
    ASSUME TypeOK
    PROVE  /\ Len(messages) \in Nat /\ DOMAIN messages = 1..Len(messages)
           /\ Results \subseteq 1..Len(messages) /\ IsFiniteSet(Results)
           /\ \A i : IsFiniteSet({j \in Results : j <= i})
           /\ \A i \in Nat : IsFiniteSet({j \in 1..i : messages[j].role = "assistant"})
<1>1. Len(messages) \in Nat /\ DOMAIN messages = 1..Len(messages)
  BY MessageType
<1>2. Results \subseteq 1..Len(messages)
  BY <1>1 DEF Results
<1>3. \A n \in Nat : IsFiniteSet(1..n)
  <2>1. \A n \in Nat : n \in Int /\ 1 \in Int
    OBVIOUS
  <2> QED BY <2>1, FS_Interval
<1>4. IsFiniteSet(Results)
  BY <1>1, <1>2, <1>3, FS_Subset
<1>5. ASSUME NEW i PROVE IsFiniteSet({j \in Results : j <= i})
  <2>1. {j \in Results : j <= i} \subseteq Results
    OBVIOUS
  <2> QED BY <1>4, <2>1, FS_Subset
<1>6. ASSUME NEW i \in Nat PROVE IsFiniteSet({j \in 1..i : messages[j].role = "assistant"})
  <2>1. {j \in 1..i : messages[j].role = "assistant"} \subseteq 1..i
    OBVIOUS
  <2> QED BY <1>3, <2>1, FS_Subset
<1> QED BY <1>1, <1>2, <1>4, <1>5, <1>6

(* A result's place among the results is a place of the trajectory *)
LEMMA PlaceOfResult ==
    ASSUME TypeOK, NEW i \in Results
    PROVE  ResultsUpTo(i) \in 1..Cardinality(Results) /\ Cardinality(Results) \in Nat
<1> DEFINE upto == {j \in Results : j <= i}
<1>1. IsFiniteSet(Results) /\ IsFiniteSet(upto) /\ upto \subseteq Results /\ i \in upto
  <2>1. i \in Nat
    BY CountsFinite
  <2> QED BY <2>1, CountsFinite
<1> HIDE DEF upto
<1>2. Cardinality(upto) \in Nat /\ Cardinality(Results) \in Nat
      /\ Cardinality(upto) <= Cardinality(Results)
  BY <1>1, FS_CardinalityType, FS_Subset
<1>3. Cardinality(upto) # 0
  BY <1>1, FS_EmptySet
<1>4. Cardinality(upto) \in 1..Cardinality(Results)
  BY <1>2, <1>3
<1> QED BY <1>2, <1>4 DEF ResultsUpTo, upto

(* The results are the same and what is counted up to them *)
SameResults ==
    /\ Results' = Results
    /\ \A i \in Results : /\ messages'[i] = messages[i]
                          /\ ResultsUpTo(i)' = ResultsUpTo(i)
                          /\ RepliesUpTo(i)' = RepliesUpTo(i)

(* What one more message does to the counts of results and of replies *)
LEMMA CountsAfter ==
    ASSUME TypeOK, NEW m \in AgentMessage, messages' = Append(messages, m),
           NEW n \in Nat, n = Len(messages) + 1
    PROVE  /\ \A i \in Results : /\ messages'[i] = messages[i]
                                 /\ ResultsUpTo(i)' = ResultsUpTo(i)
                                 /\ RepliesUpTo(i)' = RepliesUpTo(i)
           /\ m.role # "tool" => Results' = Results
           /\ m.role = "tool" => /\ Results' = Results \cup {n} /\ n \notin Results
                                 /\ Cardinality(Results') = Cardinality(Results) + 1
                                 /\ ResultsUpTo(n)' = Cardinality(Results')
           /\ RepliesUpTo(n)' = RepliesUpTo(Len(messages)) + (IF m.role = "assistant" THEN 1 ELSE 0)
           /\ RepliesUpTo(Len(messages)) \in Nat
           /\ messages'[n] = m /\ Len(messages') = n
<1>1. /\ Len(messages) \in Nat /\ DOMAIN messages = 1..Len(messages)
      /\ DOMAIN messages' = 1..n /\ Len(messages') = n
      /\ \A i \in 1..Len(messages) : messages'[i] = messages[i]
      /\ messages'[n] = m
  BY OneMoreMessage
<1>2. /\ Results \subseteq 1..Len(messages) /\ IsFiniteSet(Results)
      /\ \A i \in Nat : IsFiniteSet({j \in 1..i : messages[j].role = "assistant"})
  BY CountsFinite
<1>3. \A i \in 1..n : i \in 1..Len(messages) \/ i = n
  BY <1>1
<1>4. Results' = IF m.role = "tool" THEN Results \cup {n} ELSE Results
  <2>1. \A i \in 1..Len(messages) : i \in 1..n /\ i # n
    BY <1>1
  <2> QED BY <1>1, <1>3, <2>1 DEF Results, IsResult
<1>5. n \notin Results
  BY <1>1, <1>2
<1>6. ASSUME NEW i \in Results
      PROVE  /\ messages'[i] = messages[i]
             /\ ResultsUpTo(i)' = ResultsUpTo(i)
             /\ RepliesUpTo(i)' = RepliesUpTo(i)
  <2>1. i \in 1..Len(messages) /\ ~(n <= i)
    BY <1>1, <1>2
  <2>2. {j \in Results' : j <= i} = {j \in Results : j <= i}
    BY <1>4, <2>1
  <2>3. \A j \in 1..i : messages'[j] = messages[j]
    BY <1>1, <2>1
  <2>4. {j \in 1..i : messages'[j].role = "assistant"} = {j \in 1..i : messages[j].role = "assistant"}
    BY <2>3
  <2> QED BY <1>1, <2>1, <2>2, <2>4 DEF ResultsUpTo, RepliesUpTo
<1>7. ASSUME m.role = "tool"
      PROVE  /\ Cardinality(Results') = Cardinality(Results) + 1
             /\ ResultsUpTo(n)' = Cardinality(Results')
  <2>1. Cardinality(Results') = Cardinality(Results) + 1
    BY <1>2, <1>4, <1>5, <1>7, FS_AddElement
  <2>2. \A j \in Results' : j <= n
    BY <1>1, <1>2, <1>4
  <2>3. {j \in Results' : j <= n} = Results'
    BY <2>2
  <2> QED BY <2>1, <2>3 DEF ResultsUpTo
<1>8. /\ RepliesUpTo(n)' = RepliesUpTo(Len(messages)) + (IF m.role = "assistant" THEN 1 ELSE 0)
      /\ RepliesUpTo(Len(messages)) \in Nat
  <2> DEFINE old == {j \in 1..Len(messages) : messages[j].role = "assistant"}
             new == {j \in 1..n : messages'[j].role = "assistant"}
  <2>1. IsFiniteSet(old) /\ Cardinality(old) \in Nat
    BY <1>1, <1>2, FS_CardinalityType
  <2>2. new = IF m.role = "assistant" THEN old \cup {n} ELSE old
    <3>1. \A j \in 1..Len(messages) : j \in 1..n /\ j # n
      BY <1>1
    <3>2. n \in 1..n
      BY <1>1
    <3> QED BY <1>1, <1>3, <3>1, <3>2
  <2>3. n \notin old
    BY <1>1
  <2> HIDE DEF old, new
  <2>4. Cardinality(new) = Cardinality(old) + (IF m.role = "assistant" THEN 1 ELSE 0)
    <3>1. CASE m.role = "assistant"
      BY <2>1, <2>2, <2>3, <3>1, FS_AddElement
    <3>2. CASE m.role # "assistant"
      BY <2>1, <2>2, <3>2
    <3> QED BY <3>1, <3>2
  <2> QED BY <2>1, <2>4 DEF RepliesUpTo, old, new
<1> QED BY <1>1, <1>4, <1>5, <1>6, <1>7, <1>8

(* The trajectory while the run goes on, and the step of the latest reply *)
OnlyActions ==
    phase # "over" => /\ Len(steps) = Cardinality(Results)
                      /\ \A k \in DOMAIN steps : IsAction(steps[k])

StepIsReplies == step_count = RepliesUpTo(Len(messages))

TrajectoryInv == OnlyActions /\ StepIsReplies /\ TrajectoryAgrees

LEMMA StepsExtended ==
    ASSUME TypeOK, NEW s \in AgentStep, steps' = Append(steps, s)
    PROVE  /\ Len(steps) \in Nat /\ Len(steps') = Len(steps) + 1
           /\ DOMAIN steps = 1..Len(steps) /\ DOMAIN steps' = 1..(Len(steps) + 1)
           /\ \A k \in 1..Len(steps) : steps'[k] = steps[k]
           /\ steps'[Len(steps) + 1] = s
<1>1. steps \in Seq(AgentStep)
  BY DEF TypeOK
<1>2. /\ steps' \in Seq(AgentStep) /\ Len(steps') = Len(steps) + 1
      /\ \A k \in 1..Len(steps) : steps'[k] = steps[k]
      /\ steps'[Len(steps) + 1] = s
  BY <1>1, Appended
<1> QED BY <1>1, <1>2

LEMMA FirstNaturals == \A b \in Nat : IsFiniteSet(1..b) /\ Cardinality(1..b) = b
<1>1. \A b \in Nat : /\ 1 \in Int /\ b \in Int
                     /\ (IF 1 > b THEN 0 ELSE b - 1 + 1) = b
  OBVIOUS
<1> QED BY <1>1, FS_Interval

(* While the run goes on, the trajectory is the results and no more *)
LEMMA OnlyActionsSoFar ==
    ASSUME TypeOK, OnlyActions, phase # "over"
    PROVE  /\ Len(steps) = Cardinality(Results) /\ Len(steps) \in Nat
           /\ DOMAIN steps = 1..Len(steps)
           /\ \A k \in DOMAIN steps : IsAction(steps[k])
           /\ \A i \in Results : ResultsUpTo(i) \in 1..Len(steps)
<1>1. /\ Len(steps) = Cardinality(Results) /\ Len(steps) \in Nat /\ DOMAIN steps = 1..Len(steps)
      /\ \A k \in DOMAIN steps : IsAction(steps[k])
  BY DEF OnlyActions, TypeOK
<1> QED BY <1>1, PlaceOfResult

(* The results do not change and nothing but a stop is added *)
LEMMA TrajectoryStays ==
    ASSUME TypeOK, TrajectoryInv, SameResults, phase # "over", StepIsReplies',
           \/ UNCHANGED steps
           \/ /\ phase' = "over" /\ stop_reason' \in Reasons
              /\ \E n \in Nat : steps' = Append(steps, StopStep(n, stop_reason'))
    PROVE  TrajectoryInv'
<1> DEFINE len == Len(steps)
<1>1. /\ len = Cardinality(Results) /\ len \in Nat /\ DOMAIN steps = 1..len
      /\ \A k \in DOMAIN steps : IsAction(steps[k])
      /\ \A i \in Results : ResultsUpTo(i) \in 1..len
  BY OnlyActionsSoFar DEF TrajectoryInv
<1>2. Results' = Results
  BY DEF SameResults
<1>3. Cardinality(1..len) = len
  BY <1>1, FirstNaturals
<1> HIDE DEF len
<1>4. ASSUME \A k \in 1..len : steps'[k] = steps[k]
      PROVE  \A i \in Results' :
                LET action == steps'[ResultsUpTo(i)']
                IN  /\ action.call_id = messages'[i].call_id
                    /\ action.error = messages'[i].error
                    /\ action.step = RepliesUpTo(i)'
  <2> SUFFICES ASSUME NEW i \in Results
               PROVE  /\ steps'[ResultsUpTo(i)'].call_id = messages'[i].call_id
                      /\ steps'[ResultsUpTo(i)'].error = messages'[i].error
                      /\ steps'[ResultsUpTo(i)'].step = RepliesUpTo(i)'
    BY <1>2
  <2>1. /\ messages'[i] = messages[i] /\ ResultsUpTo(i)' = ResultsUpTo(i)
        /\ RepliesUpTo(i)' = RepliesUpTo(i)
    BY DEF SameResults
  <2>2. steps'[ResultsUpTo(i)'] = steps[ResultsUpTo(i)]
    BY <1>1, <1>4, <2>1
  <2> QED BY <2>1, <2>2 DEF TrajectoryInv, TrajectoryAgrees
<1>5. CASE UNCHANGED steps
  <2>1. {k \in DOMAIN steps' : IsAction(steps[k])'} = 1..len
    BY <1>1, <1>5 DEF IsAction
  <2>2. OnlyActions'
    BY <1>1, <1>2, <1>5 DEF OnlyActions, IsAction, len
  <2>3. TrajectoryAgrees'
    <3>1. \A k \in DOMAIN steps' : IsAction(steps[k])'
      BY <1>1, <1>5 DEF IsAction
    <3> QED BY <1>1, <1>2, <1>3, <1>4, <1>5, <2>1, <3>1 DEF TrajectoryAgrees
  <2> QED BY <2>2, <2>3 DEF TrajectoryInv
<1>6. CASE /\ phase' = "over" /\ stop_reason' \in Reasons
           /\ \E n \in Nat : steps' = Append(steps, StopStep(n, stop_reason'))
  <2>1. PICK n \in Nat : steps' = Append(steps, StopStep(n, stop_reason'))
    BY <1>6
  <2> DEFINE stop == StopStep(n, stop_reason')
  <2>2. stop \in AgentStep /\ stop.call_id = None /\ stop.stop_reason = stop_reason'
    BY <1>6 DEF StopStep, AgentStep, Errors
  <2>3. steps' = Append(steps, stop)
    BY <2>1
  <2> HIDE DEF stop
  <2>4. /\ Len(steps') = len + 1 /\ DOMAIN steps' = 1..(len + 1)
        /\ \A k \in 1..len : steps'[k] = steps[k]
        /\ steps'[len + 1] = stop
    BY <2>2, <2>3, StepsExtended DEF len
  <2>5. \A k \in 1..(len + 1) : k \in 1..len \/ k = len + 1
    BY <1>1
  <2>6. \A k \in 1..len : k \in 1..(len + 1) /\ k # len + 1
    BY <1>1
  <2>7. \A k \in DOMAIN steps' : IsAction(steps[k])' <=> k \in 1..len
    BY <1>1, <2>2, <2>4, <2>5, <2>6 DEF IsAction
  <2>8. {k \in DOMAIN steps' : IsAction(steps[k])'} = 1..len
    BY <2>4, <2>6, <2>7
  <2>9. TrajectoryAgrees'
    <3>1. Cardinality({k \in DOMAIN steps' : IsAction(steps[k])'}) = Cardinality(Results')
      BY <1>1, <1>2, <1>3, <2>8
    <3>2. \A k \in DOMAIN steps' : ~IsAction(steps[k])' =>
             k = Len(steps') /\ steps'[k].stop_reason = stop_reason'
      BY <2>2, <2>4, <2>5, <2>7
    <3> QED BY <1>4, <2>4, <3>1, <3>2 DEF TrajectoryAgrees
  <2> QED BY <1>6, <2>9 DEF TrajectoryInv, OnlyActions
<1> QED BY <1>5, <1>6

(* A result is added to both records *)
LEMMA TrajectoryGrows ==
    ASSUME RunInv, TrajectoryInv, NEW error \in Errors, NEW names,
           Observe(error, names), phase # "over", Head(pending).call_id \in CallIds
    PROVE  TrajectoryInv'
<1> DEFINE len == Len(steps)
           id  == Head(pending).call_id
           m   == Message("tool", <<>>, id, error)
           s   == ActionStep(id, error)
<1>1. /\ len = Cardinality(Results) /\ len \in Nat /\ DOMAIN steps = 1..len
      /\ \A k \in DOMAIN steps : IsAction(steps[k])
      /\ \A i \in Results : ResultsUpTo(i) \in 1..len
      /\ TypeOK
  BY OnlyActionsSoFar DEF TrajectoryInv, RunInv
<1>2. /\ messages' = Append(messages, m) /\ steps' = Append(steps, s) /\ step_count' = step_count
  BY DEF Observe
<1>3. /\ m \in AgentMessage /\ m.role = "tool" /\ m.call_id = id /\ m.error = error
      /\ s \in AgentStep /\ s.call_id = id /\ s.error = error /\ s.step = step_count
      /\ id # None
  BY <1>1, NoneAssumption DEF Message, AgentMessage, ActionStep, AgentStep, Reasons, TypeOK
<1> HIDE DEF m, s, id
<1>4. /\ Len(steps') = len + 1 /\ DOMAIN steps' = 1..(len + 1)
      /\ \A k \in 1..len : steps'[k] = steps[k]
      /\ steps'[len + 1] = s
  BY <1>1, <1>2, <1>3, StepsExtended DEF len
<1>5. PICK n \in Nat : n = Len(messages) + 1
  BY <1>1, MessageType
<1>6. /\ \A i \in Results : /\ messages'[i] = messages[i]
                            /\ ResultsUpTo(i)' = ResultsUpTo(i)
                            /\ RepliesUpTo(i)' = RepliesUpTo(i)
      /\ Results' = Results \cup {n} /\ n \notin Results
      /\ Cardinality(Results') = Cardinality(Results) + 1
      /\ ResultsUpTo(n)' = Cardinality(Results')
      /\ RepliesUpTo(n)' = RepliesUpTo(Len(messages)) + 0
      /\ RepliesUpTo(Len(messages)) \in Nat
      /\ messages'[n] = m /\ Len(messages') = n
  <2>1. m.role # "assistant"
    BY <1>3
  <2> QED BY <1>1, <1>2, <1>3, <1>5, <2>1, CountsAfter
<1> HIDE DEF len
<1>7. step_count = RepliesUpTo(n)'
  BY <1>6 DEF TrajectoryInv, StepIsReplies
<1>8. StepIsReplies'
  BY <1>2, <1>6, <1>7 DEF StepIsReplies
<1>9. \A k \in DOMAIN steps' : IsAction(steps[k])'
  <2>1. \A k \in 1..(len + 1) : k \in 1..len \/ k = len + 1
    BY <1>1
  <2> QED BY <1>1, <1>3, <1>4, <2>1 DEF IsAction
<1>10. OnlyActions'
  BY <1>1, <1>4, <1>6, <1>9 DEF OnlyActions
<1>11. ASSUME NEW i \in Results'
       PROVE  /\ steps'[ResultsUpTo(i)'].call_id = messages'[i].call_id
              /\ steps'[ResultsUpTo(i)'].error = messages'[i].error
              /\ steps'[ResultsUpTo(i)'].step = RepliesUpTo(i)'
  <2>1. CASE i \in Results
    <3>1. /\ messages'[i] = messages[i] /\ ResultsUpTo(i)' = ResultsUpTo(i)
          /\ RepliesUpTo(i)' = RepliesUpTo(i)
      BY <1>6, <2>1
    <3>2. steps'[ResultsUpTo(i)'] = steps[ResultsUpTo(i)]
      BY <1>1, <1>4, <2>1, <3>1
    <3> QED BY <2>1, <3>1, <3>2 DEF TrajectoryInv, TrajectoryAgrees
  <2>2. CASE i = n
    <3>1. steps'[ResultsUpTo(n)'] = s
      BY <1>1, <1>4, <1>6
    <3> QED BY <1>3, <1>6, <1>7, <2>2, <3>1
  <2> QED BY <1>6, <2>1, <2>2
<1>12. Cardinality({k \in DOMAIN steps' : IsAction(steps[k])'}) = Cardinality(Results')
  <2>1. {k \in DOMAIN steps' : IsAction(steps[k])'} = 1..(len + 1)
    BY <1>4, <1>9
  <2>2. len + 1 \in Nat
    BY <1>1
  <2>3. Cardinality(1..(len + 1)) = len + 1
    BY <2>2, FirstNaturals
  <2> QED BY <1>1, <1>6, <2>1, <2>3
<1>13. TrajectoryAgrees'
  BY <1>9, <1>11, <1>12 DEF TrajectoryAgrees
<1> QED BY <1>8, <1>10, <1>13 DEF TrajectoryInv

LEMMA NextTrajectory == RunInv /\ TrajectoryInv /\ [Next]_vars => TrajectoryInv'
<1> SUFFICES ASSUME RunInv, TrajectoryInv, [Next]_vars PROVE TrajectoryInv'
  OBVIOUS
<1>1. TypeOK /\ step_count \in Nat /\ step_count + 1 \in Nat
  BY DEF RunInv, TypeOK
<1>2. ASSUME UNCHANGED messages PROVE SameResults
  BY <1>2 DEF SameResults, Results, ResultsUpTo, RepliesUpTo
<1>3. CASE ExceedMaxSteps \/ ProviderFails
  <2>1. /\ UNCHANGED <<messages, step_count>> /\ phase # "over" /\ phase' = "over"
        /\ stop_reason' \in Reasons
        /\ steps' = Append(steps, StopStep(step_count, stop_reason'))
    BY <1>3 DEF ExceedMaxSteps, ProviderFails, Stop, Reasons
  <2>2. StepIsReplies'
    BY <2>1 DEF TrajectoryInv, StepIsReplies, RepliesUpTo
  <2> QED BY <1>1, <1>2, <2>1, <2>2, TrajectoryStays
<1>4. CASE RequestModel \/ StartTool \/ ToolFailsTransiently
  <2>1. UNCHANGED <<messages, step_count, steps>> /\ phase # "over"
    BY <1>4 DEF RequestModel, StartTool, ToolFailsTransiently, Attempt
  <2>2. StepIsReplies'
    BY <2>1 DEF TrajectoryInv, StepIsReplies, RepliesUpTo
  <2> QED BY <1>1, <1>2, <2>1, <2>2, TrajectoryStays
<1>5. ASSUME NEW calls \in Seq(ToolCall), Respond(calls),
             \/ UNCHANGED steps
             \/ /\ phase' = "over" /\ stop_reason' \in Reasons
                /\ \E n \in Nat : steps' = Append(steps, StopStep(n, stop_reason'))
      PROVE  TrajectoryInv'
  <2> DEFINE m == Message("assistant", calls, None, "none")
  <2>1. m \in AgentMessage /\ m.role = "assistant"
    BY DEF Message, AgentMessage, Errors
  <2>2. messages' = Append(messages, m) /\ step_count' = step_count + 1 /\ phase # "over"
    BY <1>5 DEF Respond
  <2> HIDE DEF m
  <2>3. PICK n \in Nat : n = Len(messages) + 1
    BY <1>1, MessageType
  <2>4. /\ \A i \in Results : /\ messages'[i] = messages[i]
                              /\ ResultsUpTo(i)' = ResultsUpTo(i)
                              /\ RepliesUpTo(i)' = RepliesUpTo(i)
        /\ Results' = Results
        /\ RepliesUpTo(n)' = RepliesUpTo(Len(messages)) + 1
        /\ Len(messages') = n
    BY <1>1, <2>1, <2>2, <2>3, CountsAfter
  <2>5. SameResults
    BY <2>4 DEF SameResults
  <2>6. step_count' = RepliesUpTo(n)'
    BY <2>2, <2>4 DEF TrajectoryInv, StepIsReplies
  <2>7. StepIsReplies'
    BY <2>4, <2>6 DEF StepIsReplies
  <2> QED BY <1>1, <1>5, <2>2, <2>5, <2>7, TrajectoryStays
<1>6. CASE AnswerDirectly
  <2>1. <<>> \in Seq(ToolCall) /\ Respond(<<>>)
    BY <1>6 DEF AnswerDirectly
  <2>2. /\ phase' = "over" /\ stop_reason' \in Reasons
        /\ steps' = Append(steps, StopStep(step_count + 1, stop_reason'))
    BY <1>6 DEF AnswerDirectly, Stop, Reasons
  <2> QED BY <1>1, <1>5, <2>1, <2>2
<1>7. ASSUME NEW calls \in BoundedSeq(ToolCall, MaxCalls), RequestTools(calls)
      PROVE  TrajectoryInv'
  <2>1. calls \in Seq(ToolCall)
    BY BudgetsAssumption DEF BoundedSeq, SeqOf
  <2>2. Respond(calls) /\ UNCHANGED steps
    BY <1>7 DEF RequestTools
  <2> QED BY <1>5, <2>1, <2>2
<1>8. CASE RefuseUnknownTool \/ (ExecuteTool /\ ~ToolFailsTransiently)
  <2>1. PICK error \in Errors, body \in Seq(Events), at \in {"calls", "executing"} :
           Observe(error, body) /\ Body(body, at) /\ phase = at
    BY <1>8, ResultsAreObserved
  <2>2. Head(pending).call_id \in CallIds
    BY <2>1, ObserveRecords
  <2> QED BY <2>1, <2>2, TrajectoryGrows
<1>9. CASE UNCHANGED vars
  BY <1>9 DEF vars, control, TrajectoryInv, OnlyActions, StepIsReplies, TrajectoryAgrees,
              Results, ResultsUpTo, RepliesUpTo
<1> QED BY <1>3, <1>4, <1>6, <1>7, <1>8, <1>9, Zenon DEF Next

LEMMA InitTrajectory == Init => TrajectoryInv
<1> SUFFICES ASSUME Init PROVE TrajectoryInv
  OBVIOUS
<1> DEFINE m == Message("user", <<>>, None, "none")
<1>1. messages = <<m>> /\ steps = <<>> /\ step_count = 0 /\ m.role = "user"
  BY DEF Init, Message
<1> HIDE DEF m
<1>2. DOMAIN messages = {1} /\ messages[1] = m /\ Len(messages) = 1
  BY <1>1
<1>3. Results = {} /\ Cardinality(Results) = 0
  <2>1. Results = {}
    BY <1>1, <1>2 DEF Results, IsResult
  <2> QED BY <2>1, FS_EmptySet
<1>4. RepliesUpTo(Len(messages)) = 0
  <2>1. {j \in 1..1 : messages[j].role = "assistant"} = {}
    BY <1>1, <1>2
  <2> QED BY <1>2, <2>1, FS_EmptySet DEF RepliesUpTo
<1>5. DOMAIN steps = {} /\ Len(steps) = 0
  BY <1>1
<1>6. {k \in DOMAIN steps : IsAction(steps[k])} = {}
  BY <1>5
<1>7. TrajectoryAgrees
  BY <1>3, <1>5, <1>6 DEF TrajectoryAgrees
<1> QED BY <1>1, <1>3, <1>4, <1>5, <1>7 DEF TrajectoryInv, OnlyActions, StepIsReplies

(* The actions of the trajectory are the results of the conversation, in    *)
(* its order and with the step of the reply that asked for them             *)
(* (loop.py:400-414).                                                       *)
THEOREM TrajectoryTellsTheConversation == Spec => []TrajectoryAgrees
<1>1. TrajectoryInv => TrajectoryAgrees
  BY DEF TrajectoryInv
<1> QED BY <1>1, InitTrajectory, NextTrajectory, RunInvariance, PTL DEF Spec
-----------------------------------------------------------------------------
(* Termination: the work that is left is a natural number that every step   *)
(* decreases                                                                *)

LEMMA Multiples ==
    /\ \A n, k \in Nat : n * k \in Nat
    /\ \A n, k \in Nat : n > 0 => n * k = (n - 1) * k + k /\ (n - 1) * k \in Nat
    /\ \A m, n, k \in Nat : m <= n => m * k <= n * k
<1>1. \A n, k \in Nat : n * k \in Nat
  OBVIOUS
<1>2. \A n, k \in Int : n * k = (n - 1) * k + k
  OBVIOUS
<1>3. \A n, k \in Nat : n > 0 => n * k = (n - 1) * k + k /\ (n - 1) * k \in Nat
  <2> SUFFICES ASSUME NEW n \in Nat, NEW k \in Nat, n > 0
               PROVE  n * k = (n - 1) * k + k /\ (n - 1) * k \in Nat
    OBVIOUS
  <2>1. n - 1 \in Nat /\ n \in Int /\ k \in Int
    OBVIOUS
  <2> QED BY <1>1, <1>2, <2>1
<1>4. \A m, n, k \in Nat : m <= n => m * k <= n * k
  <2> SUFFICES ASSUME NEW m \in Nat, NEW n \in Nat, NEW k \in Nat, m <= n
               PROVE  m * k <= n * k
    OBVIOUS
  <2>1. n - m \in Nat /\ (n - m) * k \in Nat
    OBVIOUS
  <2>2. n * k = m * k + (n - m) * k
    OBVIOUS
  <2> QED BY <1>1, <2>1, <2>2
<1> QED BY <1>1, <1>3, <1>4

LEMMA Costs ==
    /\ MaxSteps \in Nat /\ MaxToolRetries \in Nat /\ MaxCalls \in Nat
    /\ CallCost \in Nat /\ CallCost = MaxToolRetries + 2
    /\ MaxCalls * CallCost \in Nat
    /\ StepCost \in Nat /\ StepCost = MaxCalls * CallCost + 2
    /\ MaxSteps * StepCost \in Nat
<1>1. MaxSteps \in Nat /\ MaxToolRetries \in Nat /\ MaxCalls \in Nat
  BY BudgetsAssumption
<1>2. CallCost \in Nat /\ CallCost = MaxToolRetries + 2
  BY <1>1 DEF CallCost
<1>3. MaxCalls * CallCost \in Nat
  BY <1>1, <1>2, Multiples
<1>4. StepCost \in Nat /\ StepCost = MaxCalls * CallCost + 2
  BY <1>3 DEF StepCost
<1>5. MaxSteps * StepCost \in Nat
  BY <1>1, <1>4, Multiples
<1> QED BY <1>1, <1>2, <1>3, <1>4, <1>5

(* What is left at every place of the loop *)
WorkParts ==
    /\ WorkLeft \in Nat /\ StepsWork \in Nat /\ CallsWork \in Nat
    /\ step_count < MaxSteps =>
          StepsWork = (MaxSteps - (step_count + 1)) * StepCost + StepCost
    /\ pending # <<>> =>
          /\ CallsWork = (Len(pending) - 1) * CallCost + CallCost
          /\ (Len(pending) - 1) * CallCost \in Nat
    /\ attempt \in Nat /\ attempt <= MaxToolRetries
    /\ phase = "over" => WorkLeft = 0
    /\ phase = "head" => WorkLeft = StepsWork + 1
    /\ phase = "asking" => WorkLeft = StepsWork
    /\ phase = "calls" => WorkLeft = StepsWork + CallsWork + 1
    /\ phase = "executing" => WorkLeft = StepsWork + CallsWork - attempt

LEMMA PartsOfWork == RunInv => WorkParts
<1> SUFFICES ASSUME RunInv PROVE WorkParts
  OBVIOUS
<1>1. /\ step_count \in Nat /\ step_count <= MaxSteps /\ pending \in Seq(ToolCall)
      /\ attempt \in Nat /\ attempt <= MaxToolRetries
  BY DEF RunInv, TypeOK, StepBudget, Control
<1>2. MaxSteps - step_count \in Nat /\ Len(pending) \in Nat
  BY <1>1, Costs
<1>3. StepsWork \in Nat /\ CallsWork \in Nat
  BY <1>2, Costs, Multiples DEF StepsWork, CallsWork
<1>4. ASSUME step_count < MaxSteps
      PROVE  StepsWork = (MaxSteps - (step_count + 1)) * StepCost + StepCost
  <2>1. MaxSteps - step_count > 0 /\ MaxSteps - step_count - 1 = MaxSteps - (step_count + 1)
    BY <1>1, <1>4, Costs
  <2> QED BY <1>2, <2>1, Costs, Multiples DEF StepsWork
<1>5. ASSUME pending # <<>>
      PROVE  /\ CallsWork = (Len(pending) - 1) * CallCost + CallCost
             /\ (Len(pending) - 1) * CallCost \in Nat
  <2>1. Len(pending) > 0
    BY <1>1, <1>5
  <2> QED BY <1>2, <2>1, Costs, Multiples DEF CallsWork
<1>6. /\ phase = "over" => WorkLeft = 0
      /\ phase = "head" => WorkLeft = StepsWork + 1
      /\ phase = "asking" => WorkLeft = StepsWork
      /\ phase = "calls" => WorkLeft = StepsWork + CallsWork + 1
      /\ phase = "executing" => WorkLeft = StepsWork + CallsWork - attempt
  BY DEF WorkLeft
(* A call pays for its attempts *)
<1>7. WorkLeft \in Nat
  <2>1. phase = "executing" => CallsWork - attempt \in Nat
    BY <1>1, <1>3, <1>5, Costs DEF RunInv, Control
  <2> QED BY <1>1, <1>3, <1>6, <2>1 DEF RunInv, TypeOK
<1> QED BY <1>1, <1>3, <1>4, <1>5, <1>6, <1>7 DEF WorkParts

(* A result closes a call, which cost at least what is left between calls *)
LEMMA ResultUsesUpWork ==
    ASSUME RunInv, RunInv', RefuseUnknownTool \/ (ExecuteTool /\ ~ToolFailsTransiently)
    PROVE  WorkLeft' < WorkLeft
<1>0. WorkParts /\ WorkParts'
  BY PartsOfWork, PTL
<1>1. PICK error \in Errors, body \in Seq(Events), at \in {"calls", "executing"} :
         Observe(error, body) /\ Body(body, at) /\ phase = at
  BY ResultsAreObserved
<1>2. /\ pending' = Tail(pending) /\ phase' = AfterResult(error) /\ step_count' = step_count
      /\ phase \in {"calls", "executing"}
  BY <1>1 DEF Observe
<1>3. pending # <<>> /\ pending \in Seq(ToolCall)
  BY <1>2 DEF RunInv, Control, TypeOK
<1>4. /\ Len(pending') = Len(pending) - 1 /\ Len(pending) \in Nat
      /\ CallsWork' = (Len(pending) - 1) * CallCost /\ StepsWork' = StepsWork
  BY <1>2, <1>3 DEF CallsWork, StepsWork, CallCost, StepCost
<1>5. /\ StepsWork \in Nat /\ CallsWork' \in Nat /\ CallsWork = CallsWork' + CallCost
      /\ attempt \in Nat /\ attempt <= MaxToolRetries
  BY <1>0, <1>3, <1>4 DEF WorkParts
<1>6. WorkLeft >= StepsWork + CallsWork' + 2
  <2>1. WorkLeft = StepsWork + CallsWork + 1 \/ WorkLeft = StepsWork + CallsWork - attempt
    BY <1>0, <1>2 DEF WorkParts
  <2> QED BY <1>5, <2>1, Costs
<1>7. phase' \in {"over", "calls", "head"}
  BY <1>2 DEF AfterResult
<1>8. WorkLeft' <= StepsWork + CallsWork' + 1
  <2>1. WorkLeft' = 0 \/ WorkLeft' = StepsWork' + 1 \/ WorkLeft' = StepsWork' + CallsWork' + 1
    BY <1>0, <1>7 DEF WorkParts
  <2> QED BY <1>4, <1>5, <2>1
<1>9. WorkLeft \in Nat /\ WorkLeft' \in Nat
  BY <1>0 DEF WorkParts
<1>10. \A w, v, s, c \in Nat : w >= s + c + 2 /\ v <= s + c + 1 => v < w
  OBVIOUS
<1> QED BY <1>5, <1>6, <1>8, <1>9, <1>10, Zenon

(* A reply uses up its step, and its calls cost less than the step did *)
LEMMA ReplyUsesUpWork ==
    ASSUME RunInv, RunInv', NEW calls \in BoundedSeq(ToolCall, MaxCalls), RequestTools(calls)
    PROVE  WorkLeft' < WorkLeft
<1>1. WorkParts /\ WorkParts'
  BY PartsOfWork, PTL
<1>2. calls \in Seq(ToolCall) /\ Len(calls) \in Nat /\ Len(calls) <= MaxCalls
  BY BudgetsAssumption DEF BoundedSeq, SeqOf
<1>3. /\ phase = "asking" /\ phase' = "calls" /\ pending' = calls /\ step_count' = step_count + 1
  BY DEF RequestTools, Respond
<1>4. step_count < MaxSteps
  BY <1>3 DEF RunInv, Control
<1>5. StepsWork = StepsWork' + StepCost
  BY <1>1, <1>3, <1>4 DEF WorkParts, StepsWork, StepCost, CallCost
<1>6. CallsWork' <= MaxCalls * CallCost
  <2>1. CallsWork' = Len(calls) * CallCost
    BY <1>3 DEF CallsWork, CallCost
  <2> QED BY <1>2, <2>1, Costs, Multiples
<1>7. WorkLeft = StepsWork /\ WorkLeft' = StepsWork' + CallsWork' + 1
  BY <1>1, <1>3 DEF WorkParts
<1>8. StepsWork' \in Nat /\ CallsWork' \in Nat
  BY <1>1 DEF WorkParts
<1>9. \A s, c, m \in Nat : c <= m => s + c + 1 < s + (m + 2)
  OBVIOUS
<1>10. MaxCalls * CallCost \in Nat /\ StepCost = MaxCalls * CallCost + 2
  BY Costs
<1> QED BY <1>5, <1>6, <1>7, <1>8, <1>9, <1>10, Zenon

LEMMA StepUsesUpWork == RunInv /\ RunInv' /\ Next => WorkLeft' < WorkLeft
<1> SUFFICES ASSUME RunInv, RunInv', Next PROVE WorkLeft' < WorkLeft
  OBVIOUS
<1>1. WorkParts /\ WorkParts'
  BY PartsOfWork, PTL
<1>2. /\ phase = "asking" => step_count < MaxSteps
      /\ step_count \in Nat
  BY DEF RunInv, Control, TypeOK
<1>3. phase = "asking" => StepsWork >= 2
  <2>1. ASSUME step_count < MaxSteps PROVE StepsWork >= 2
    <3>1. MaxSteps - (step_count + 1) \in Nat
      BY <1>2, <2>1, Costs
    <3>2. (MaxSteps - (step_count + 1)) * StepCost \in Nat
      BY <3>1, Costs, Multiples
    <3>3. StepsWork = (MaxSteps - (step_count + 1)) * StepCost + StepCost
      BY <1>1, <2>1 DEF WorkParts
    <3> QED BY <3>2, <3>3, Costs
  <2> QED BY <1>2, <2>1
<1>4. CASE ExceedMaxSteps \/ ProviderFails \/ AnswerDirectly
  <2>1. phase \in {"head", "asking"} /\ phase' = "over"
    BY <1>4 DEF ExceedMaxSteps, ProviderFails, AnswerDirectly, Respond, Stop
  <2> QED BY <1>1, <1>3, <2>1 DEF WorkParts
<1>5. CASE RequestModel
  <2>1. phase = "head" /\ phase' = "asking" /\ StepsWork' = StepsWork
    BY <1>5 DEF RequestModel, StepsWork, StepCost, CallCost
  <2> QED BY <1>1, <2>1 DEF WorkParts
<1>6. ASSUME NEW calls \in BoundedSeq(ToolCall, MaxCalls), RequestTools(calls)
      PROVE  WorkLeft' < WorkLeft
  BY <1>6, ReplyUsesUpWork
<1>7. CASE StartTool \/ ToolFailsTransiently
  <2>1. StepsWork' = StepsWork /\ CallsWork' = CallsWork /\ phase' = "executing"
    BY <1>7 DEF StartTool, ToolFailsTransiently, Attempt, StepsWork, CallsWork, StepCost, CallCost
  <2>2. \/ phase = "calls" /\ attempt' = 0
        \/ phase = "executing" /\ attempt' = attempt + 1
    BY <1>7 DEF StartTool, ToolFailsTransiently, Attempt
  <2>3. StepsWork \in Nat /\ CallsWork \in Nat /\ attempt \in Nat
    BY <1>1 DEF WorkParts
  <2>4. WorkLeft' = StepsWork + CallsWork - attempt'
    BY <1>1, <2>1 DEF WorkParts
  <2>5. /\ \A s, c \in Nat : s + c - 0 < s + c + 1
        /\ \A s, c, a \in Nat : s + c - (a + 1) < s + c - a
    OBVIOUS
  <2>6. CASE phase = "calls" /\ attempt' = 0
    <3>1. WorkLeft = StepsWork + CallsWork + 1
      BY <1>1, <2>6 DEF WorkParts
    <3> QED BY <2>3, <2>4, <2>5, <2>6, <3>1, Zenon
  <2>7. CASE phase = "executing" /\ attempt' = attempt + 1
    <3>1. WorkLeft = StepsWork + CallsWork - attempt
      BY <1>1, <2>7 DEF WorkParts
    <3> QED BY <2>3, <2>4, <2>5, <2>7, <3>1, Zenon
  <2> QED BY <2>2, <2>6, <2>7
<1>8. CASE RefuseUnknownTool \/ (ExecuteTool /\ ~ToolFailsTransiently)
  BY <1>8, ResultUsesUpWork
<1> QED BY <1>4, <1>5, <1>6, <1>7, <1>8, Zenon DEF Next

(* No run is endless: every step uses up some of the work that was left     *)
(* (loop.py:101-163, 235-250).                                              *)
THEOREM RunsUseUpTheirWork == Spec => EveryStepUsesUpWork
<1>1. RunInv /\ RunInv' /\ [Next]_vars => [WorkLeft' \in Nat /\ WorkLeft' < WorkLeft]_vars
  <2>1. RunInv /\ RunInv' => WorkParts'
    BY PartsOfWork, PTL
  <2> QED BY <2>1, StepUsesUpWork DEF WorkParts
<1> QED BY <1>1, RunInvariance, PTL DEF Spec, EveryStepUsesUpWork

(* At most six events tell of a step *)
LEMMA ResultIsShort ==
    ASSUME RunInv, RefuseUnknownTool \/ (ExecuteTool /\ ~ToolFailsTransiently)
    PROVE  Len(trace_events') <= Len(trace_events) + 6
<1>1. PICK error \in Errors, body \in Seq(Events) : Observe(error, body) /\ Len(body) <= 4
  <2>1. CASE RefuseUnknownTool
    <3>1. PICK u : u = Append(Started, "tool_validation_failed")
      OBVIOUS
    <3>2. Observe("unknown_tool", u) /\ u \in Seq(Events) /\ Len(u) = 4
      BY <2>1, <3>1, RefusedEvents DEF RefuseUnknownTool
    <3>3. "unknown_tool" \in Errors /\ Len(u) <= 4
      BY <3>2 DEF Errors
    <3> QED BY <3>2, <3>3, Zenon
  <2>2. CASE ExecuteTool /\ ~ToolFailsTransiently
    <3>1. PICK error \in Errors, body \in Bodies : Observe(error, body)
      BY <2>2, ResultBodies
    <3>2. body \in Seq(Events)
      BY ExecutedBodies DEF Body
    <3>3. Len(body) <= 2
      <4>1. CASE body = <<"tool_succeeded", "observation_recorded">>
        BY <4>1
      <4>2. CASE body = <<"tool_failed", "observation_recorded">>
        BY <4>2
      <4>3. CASE body = <<"tool_validation_failed">> \/ body = <<"tool_failed">>
        BY <4>3
      <4> QED BY <4>1, <4>2, <4>3 DEF Bodies
    <3>4. Len(body) <= 4
      BY <3>2, <3>3
    <3> QED BY <3>1, <3>2, <3>4
  <2> QED BY <2>1, <2>2
<1>2. EndOfStep(error) \in Seq(Events) /\ Len(EndOfStep(error)) <= 2
  <2>1. CASE error \in NonRetryable
    BY <2>1 DEF EndOfStep, Events
  <2>2. CASE error \notin NonRetryable
    BY <2>2 DEF EndOfStep, Events
  <2> QED BY <2>1, <2>2
<1>3. PICK names : names = body \o EndOfStep(error)
  OBVIOUS
<1>4. names \in Seq(Events) /\ Len(names) = Len(body) + Len(EndOfStep(error))
  BY <1>2, <1>3, ConcatProperties
<1>5. /\ trace_events' = Traced(names, step_count, Head(pending).call_id)
      /\ phase \in {"calls", "executing"}
  <2>1. trace_events' = Traced(body \o EndOfStep(error), step_count, Head(pending).call_id)
    BY <1>1 DEF Observe, EndOfStep
  <2>2. phase \in {"calls", "executing"}
    BY DEF RefuseUnknownTool, ExecuteTool, ToolSucceeds, ToolRejects, ToolRaisesKeyError,
           ToolRaises, GiveUp, Attempt
  <2> QED BY <1>3, <2>1, <2>2
<1>6. Head(pending).call_id \in CallIds /\ TypeOK /\ step_count \in Nat
  BY <1>5, HeadCall DEF RunInv, TypeOK
<1>7. Len(trace_events') = Len(trace_events) + Len(names) /\ Len(trace_events) \in Nat
  BY <1>4, <1>5, <1>6, Block
<1>8. Len(body) \in Nat /\ Len(EndOfStep(error)) \in Nat
  BY <1>2
<1> QED BY <1>1, <1>2, <1>4, <1>7, <1>8

LEMMA StepsAreShort == RunInv /\ Next => Len(trace_events') <= Len(trace_events) + 6
<1> SUFFICES ASSUME RunInv, Next PROVE Len(trace_events') <= Len(trace_events) + 6
  OBVIOUS
<1>1. TypeOK /\ step_count \in Nat /\ step_count + 1 \in Nat
  BY DEF RunInv, TypeOK
<1>2. CASE RefuseUnknownTool \/ (ExecuteTool /\ ~ToolFailsTransiently)
  BY <1>2, ResultIsShort
<1>3. ASSUME ~(RefuseUnknownTool \/ (ExecuteTool /\ ~ToolFailsTransiently))
      PROVE  \E names \in Seq(Events), n \in Nat, id \in CallIds \cup {None} :
                trace_events' = Traced(names, n, id) /\ Len(names) <= 3
  <2>1. /\ <<"max_steps_exceeded", "stop_reason_recorded">> \in Seq(Events)
        /\ <<"model_provider_failed", "stop_reason_recorded">> \in Seq(Events)
        /\ <<"model_responded", "stop_reason_recorded", "run_completed">> \in Seq(Events)
        /\ <<"model_requested">> \in Seq(Events) /\ <<"model_responded">> \in Seq(Events)
        /\ <<"tool_transient_error">> \in Seq(Events) /\ Started \in Seq(Events)
    BY DEF Started, Events
  <2>2. /\ Len(<<"max_steps_exceeded", "stop_reason_recorded">>) <= 3
        /\ Len(<<"model_provider_failed", "stop_reason_recorded">>) <= 3
        /\ Len(<<"model_responded", "stop_reason_recorded", "run_completed">>) <= 3
        /\ Len(<<"model_requested">>) <= 3 /\ Len(<<"model_responded">>) <= 3
        /\ Len(<<"tool_transient_error">>) <= 3 /\ Len(Started) <= 3
    BY DEF Started
  <2>3. CASE ExceedMaxSteps \/ ProviderFails \/ RequestModel
    BY <1>1, <2>1, <2>2, <2>3, Zenon DEF ExceedMaxSteps, ProviderFails, RequestModel, Stop
  <2>4. ASSUME AnswerDirectly \/ \E calls \in BoundedSeq(ToolCall, MaxCalls) : RequestTools(calls)
        PROVE  \E names \in Seq(Events), n \in Nat, id \in CallIds \cup {None} :
                  trace_events' = Traced(names, n, id) /\ Len(names) <= 3
    BY <1>1, <2>1, <2>2, <2>4, Zenon DEF AnswerDirectly, RequestTools, Stop
  <2>5. CASE StartTool \/ ToolFailsTransiently
    <3>1. Head(pending).call_id \in CallIds \cup {None}
      <4>1. phase \in {"calls", "executing"}
        BY <2>5 DEF StartTool, ToolFailsTransiently, Attempt
      <4> QED BY <4>1, HeadCall
    <3> QED BY <1>1, <2>1, <2>2, <2>5, <3>1, Zenon DEF StartTool, ToolFailsTransiently
  <2> QED BY <1>3, <2>3, <2>4, <2>5, Zenon DEF Next
<1>4. ASSUME NEW names \in Seq(Events), NEW n \in Nat, NEW id \in CallIds \cup {None},
             trace_events' = Traced(names, n, id), Len(names) <= 3
      PROVE  Len(trace_events') <= Len(trace_events) + 6
  <2>1. Len(trace_events') = Len(trace_events) + Len(names) /\ Len(trace_events) \in Nat
    BY <1>1, <1>4, Block
  <2> QED BY <1>4, <2>1
<1> QED BY <1>2, <1>3, <1>4

(* The trace of a run is bounded by its budgets, whatever happens in it     *)
(* (loop.py:101-163, 235-425).                                              *)
THEOREM TracesAreBounded == Spec => []TraceIsBounded
<1>1. Init => TraceIsBounded
  <2> SUFFICES ASSUME Init PROVE TraceIsBounded
    OBVIOUS
  <2>1. Len(trace_events) = 1
    BY DEF Init
  <2>2. WorkLeft = MaxSteps * StepCost + 1
    <3>1. phase = "head" /\ step_count = 0
      BY DEF Init
    <3>2. StepsWork = MaxSteps * StepCost
      BY <3>1, Costs DEF StepsWork
    <3> QED BY <3>1, <3>2 DEF WorkLeft
  <2> QED BY <2>1, <2>2, Costs DEF TraceIsBounded
<1>2. RunInv /\ RunInv' /\ TraceIsBounded /\ [Next]_vars => TraceIsBounded'
  <2> SUFFICES ASSUME RunInv, RunInv', TraceIsBounded, [Next]_vars PROVE TraceIsBounded'
    OBVIOUS
  <2>1. WorkLeft \in Nat /\ WorkLeft' \in Nat
    <3>1. WorkParts /\ WorkParts'
      BY PartsOfWork, PTL
    <3> QED BY <3>1 DEF WorkParts
  <2>2. Len(trace_events) \in Nat /\ Len(trace_events') \in Nat
    BY DEF RunInv, TypeOK
  <2>3. MaxSteps * StepCost \in Nat /\ StepCost' = StepCost
    BY Costs DEF StepCost, CallCost
  <2>4. CASE Next
    BY <2>1, <2>2, <2>3, <2>4, StepUsesUpWork, StepsAreShort DEF TraceIsBounded
  <2>5. CASE UNCHANGED vars
    BY <2>5 DEF vars, control, TraceIsBounded, WorkLeft, StepsWork, CallsWork, StepCost, CallCost
  <2> QED BY <2>4, <2>5
<1> QED BY <1>1, <1>2, RunInvariance, PTL DEF Spec
-----------------------------------------------------------------------------
(* Behind the API: the invariant of the run, and what worker, store and     *)
(* polls have to do with each other                                         *)

ApiTypeOK ==
    /\ worker \in {"absent", "created", "sleeping", "running", "over"}
    /\ entry \in {"none", "initial", "final"}
    /\ initial_status \in {"running", "failed", "cancelled"}
    /\ poll \in [Pollers -> [object : {"none", "initial", "final"}, late : BOOLEAN]]

(* The initial object is marked only by a worker that ends without a        *)
(* result, and left as it was by one that was lost before its try           *)
Lifecycle ==
    /\ worker = "absent" <=> entry = "none"
    /\ worker \in {"absent", "created", "sleeping"} => phase = "head"
    /\ entry = "final" => worker = "over" /\ phase = "over" /\ initial_status = "running"
    /\ worker = "over" => entry = "final" \/ phase = "head"
    /\ worker # "over" => initial_status = "running"

(* A poll that began after the end holds what the store still holds *)
Fetched ==
    \A p \in Pollers : /\ poll[p].late => told # {} /\ poll[p].object = entry
                       /\ poll[p].object = "final" => entry = "final"
                       /\ poll[p].object # "none" => entry # "none"

ApiInv == RunInv /\ ApiTypeOK /\ Lifecycle /\ Fetched /\ PollsAgree

LEMMA ApiInit_ApiInv == ApiInit => ApiInv
<1> SUFFICES ASSUME ApiInit PROVE ApiInv
  OBVIOUS
<1>1. RunInv
  BY InitRunInv DEF ApiInit
<1>2. ApiTypeOK /\ Fetched
  BY DEF ApiInit, ApiTypeOK, Fetched, Idle
<1>3. Lifecycle /\ PollsAgree
  BY DEF ApiInit, Init, Lifecycle, PollsAgree
<1> QED BY <1>1, <1>2, <1>3 DEF ApiInv

(* The worker and the client that creates the run *)
LEMMA WorkerKeepsApiInv ==
    ASSUME ApiInv, CreateRun \/ LoseWorker \/ WorkerStep \/ Cancel
    PROVE  ApiInv'
<1> USE DEF api, polling, ApiInv
<1>1. RunInv'
  BY NextRunInv DEF CreateRun, LoseWorker, WorkerStep, StartWorker, StartRun, RunStep, Publish,
                    RunRaises, Cancel
<1>2. worker # "over" /\ told = {} /\ told' = told /\ poll' = poll
  BY DEF CreateRun, LoseWorker, WorkerStep, StartWorker, StartRun, RunStep, Publish, RunRaises,
         Cancel, PollsAgree
<1>3. ApiTypeOK'
  BY DEF CreateRun, LoseWorker, WorkerStep, StartWorker, StartRun, RunStep, Publish, RunRaises,
         Cancel, ApiTypeOK
<1>4. Lifecycle'
  <2>1. CASE RunStep
    BY <2>1 DEF RunStep, Lifecycle
  <2>2. CASE CreateRun \/ LoseWorker \/ StartWorker \/ StartRun
    BY <2>2 DEF CreateRun, LoseWorker, StartWorker, StartRun, vars, control, Lifecycle
  <2>3. CASE Publish \/ RunRaises \/ Cancel
    BY <2>3 DEF Publish, RunRaises, Cancel, vars, control, Lifecycle
  <2> QED BY <2>1, <2>2, <2>3 DEF WorkerStep
<1>5. entry = "initial" => entry' # "none"
  BY DEF CreateRun, LoseWorker, WorkerStep, StartWorker, StartRun, RunStep, Publish, RunRaises,
         Cancel
<1>6. Fetched'
  BY <1>2, <1>5 DEF Fetched, Lifecycle, ApiTypeOK
<1>7. PollsAgree'
  BY <1>2 DEF PollsAgree
<1> QED BY <1>1, <1>3, <1>4, <1>6, <1>7

LEMMA PollsKeepApiInv ==
    ASSUME ApiInv, NEW p \in Pollers, Fetch(p) \/ Answer(p)
    PROVE  ApiInv'
<1> USE DEF api, polling, ApiInv
<1>1. UNCHANGED <<vars, api>>
  BY DEF Fetch, Answer
<1>2. RunInv'
  BY <1>1, NextRunInv
<1>3. Lifecycle'
  BY <1>1 DEF Lifecycle, vars, control
<1>4. CASE Fetch(p)
  <2>1. ApiTypeOK'
    BY <1>1, <1>4 DEF Fetch, ApiTypeOK
  <2>2. told # {} => entry # "none"
    BY DEF PollsAgree, Lifecycle
  <2>3. Fetched'
    BY <1>1, <1>4, <2>2 DEF Fetch, Fetched, ApiTypeOK
  <2>4. PollsAgree'
    BY <1>1, <1>4 DEF Fetch, PollsAgree, Reported, vars
  <2> QED BY <1>2, <1>3, <2>1, <2>3, <2>4
<1>5. CASE Answer(p)
  <2> DEFINE answer == Reported(poll[p].object)
  <2>1. poll' = [poll EXCEPT ![p] = Idle]
    BY <1>5 DEF Answer
  <2>2. told' = IF answer # "running" \/ poll[p].late THEN told \cup {answer} ELSE told
    BY <1>5 DEF Answer
  <2>3. ApiTypeOK'
    BY <1>1, <2>1 DEF ApiTypeOK, Idle
  <2>4. \A q \in Pollers : poll'[q] = IF q = p THEN Idle ELSE poll[q]
    BY <2>1 DEF ApiTypeOK
  <2>5. told # {} => told' # {}
    BY <2>2
  <2>6. Fetched'
    BY <1>1, <2>4, <2>5 DEF Fetched, Idle
  <2>7. poll[p].object \in {"initial", "final"} \/ (poll[p].object = "none" /\ poll[p].late = TRUE)
    BY <1>5 DEF Answer, ApiTypeOK, Idle
  <2>8. poll[p].object = entry \/ (poll[p].object = "initial" /\ entry = "final" /\ ~poll[p].late)
    BY <2>7 DEF ApiTypeOK, Fetched
  <2>9. CASE poll[p].object = "initial" /\ entry = "final" /\ ~poll[p].late
    <3>1. answer = "running"
      BY <2>9 DEF Reported, Lifecycle
    <3> QED BY <1>1, <1>2, <1>3, <2>2, <2>3, <2>6, <2>9, <3>1 DEF PollsAgree, Reported, vars
  <2>10. CASE poll[p].object = entry
    <3>1. answer = Reported(entry)
      BY <2>10
    <3>2. CASE answer = "running" /\ ~poll[p].late
      BY <1>1, <1>2, <1>3, <2>2, <2>3, <2>6, <3>2 DEF PollsAgree, Reported, vars
    <3>3. CASE answer # "running" \/ poll[p].late
      <4>1. told' = {Reported(entry)}
        BY <2>2, <3>1, <3>3 DEF PollsAgree
      <4>2. worker = "over"
        BY <2>7, <2>10, <3>1, <3>3 DEF Fetched, PollsAgree, Reported, Lifecycle
      <4>3. entry = "final" <=> stop_reason # "none"
        BY <4>2 DEF Lifecycle, RunInv, Control
      <4> QED BY <1>1, <1>2, <1>3, <2>3, <2>6, <4>1, <4>2, <4>3 DEF PollsAgree, Reported, vars
    <3> QED BY <3>2, <3>3
  <2> QED BY <2>8, <2>9, <2>10
<1> QED BY <1>4, <1>5

(* The invariant of a run holds behind the API too, and worker, store and   *)
(* polls agree with it (api.py:39-78).                                      *)
THEOREM ApiInvariance == ApiSpec => []ApiInv
<1>1. ApiInv /\ [ApiNext]_apiVars => ApiInv'
  <2> SUFFICES ASSUME ApiInv, [ApiNext]_apiVars PROVE ApiInv'
    OBVIOUS
  <2>1. CASE CreateRun \/ LoseWorker \/ WorkerStep \/ Cancel
    BY <2>1, WorkerKeepsApiInv
  <2>2. ASSUME NEW p \in Pollers, Fetch(p) \/ Answer(p) PROVE ApiInv'
    BY <2>2, PollsKeepApiInv
  <2>3. CASE UNCHANGED apiVars
    <3>1. UNCHANGED <<vars, api, polling>>
      BY <2>3 DEF apiVars
    <3>2. RunInv'
      BY <3>1, NextRunInv DEF ApiInv
    <3> QED BY <3>1, <3>2 DEF api, polling, vars, control, ApiInv, ApiTypeOK, Lifecycle, Fetched,
                              PollsAgree, Reported
  <2> QED BY <2>1, <2>2, <2>3 DEF ApiNext
<1> QED BY ApiInit_ApiInv, <1>1, PTL DEF ApiSpec

(* However many clients poll a run, at whatever time, what they are told of *)
(* it once it is over is the same, and true (api.py:51-61, 72-77).          *)
THEOREM PollsAlwaysAgree == ApiSpec => []PollsAgree
<1>1. ApiInv => PollsAgree
  BY DEF ApiInv
<1> QED BY <1>1, ApiInvariance, PTL

(* The API adds a worker, a store and polls to the run and no step of it *)
LEMMA ApiStepIsRunStep == [ApiNext]_apiVars => [Next]_vars
BY DEF ApiNext, CreateRun, LoseWorker, WorkerStep, StartWorker, StartRun, RunStep, Publish,
       RunRaises, Cancel, Fetch, Answer, apiVars

(* What the background worker carries out is a run, cut short at most       *)
(* before a request (api.py:39-61, loop.py:173-441).                        *)
THEOREM RunBehindTheApi == ApiSpec => Init /\ [][Next]_vars
<1>1. ApiInit => Init
  BY DEF ApiInit
<1> QED BY <1>1, ApiStepIsRunStep, PTL DEF ApiSpec

(* So the three records of a run that clients poll agree like those of any  *)
(* run, whenever the worker is cancelled or fails (api.py:39-78).           *)
THEOREM RecordsAgreeBehindTheApi ==
    ApiSpec => [](AnsweredInTurn /\ FailureEndsRun /\ StepBudget
                  /\ TraceReplays /\ TrajectoryAgrees /\ RetryBudget)
<1>1. RunInv /\ TraceInv /\ TrajectoryInv /\ RetryInv
        => AnsweredInTurn /\ FailureEndsRun /\ StepBudget
           /\ TraceReplays /\ TrajectoryAgrees /\ RetryBudget
  BY Replays DEF RunInv, TraceInv, TrajectoryInv, RetryInv
<1> QED BY <1>1, RunBehindTheApi, InitRunInv, NextRunInv, InitTrace, NextTrace, InitTrajectory,
           NextTrajectory, InitRetry, NextRetry, PTL
=============================================================================
