----------------------------- MODULE EvalRunner -----------------------------
(***************************************************************************)
(* Suites of trials, run concurrently and streamed                         *)
(* (src/src/agent_runtime/evals/runner.py) or one after the other          *)
(* (src/src/agent_runtime/evals/harness.py), and judged by EvalScoring.    *)
(*                                                                         *)
(* One AsyncEvalRunner serves all suites; it keeps its semaphore for life. *)
(* A trial is a task of the event loop that takes a slot, hands the run to *)
(* a thread and waits for it.  The lock of the semaphore's condition is    *)
(* never held across an await, so what a trial does between two awaits is  *)
(* one action: up to the thread or into the wait, and from the end of the  *)
(* thread to the end of the trial.                                         *)
(***************************************************************************)
EXTENDS EvalScoring

CONSTANTS
    Suites,              \* the evaluations a client asks for
    Tasks, NumTrials,    \* the tasks of a suite, and how often each is tried
    SkillTasks,          \* the tasks whose names mention a guarded skill
    InitialConcurrency,  \* initial_concurrency
    Outcomes,            \* what the runtimes the factory makes can return
    NoResult

ASSUME RunnerAssumption ==
    /\ InitialConcurrency \in Int
    /\ NumTrials \in Nat \ {0} /\ Tasks # {}
    /\ IsFiniteSet(Suites) /\ IsFiniteSet(Tasks)

(* A TrialResult *)
Results == [status : {"completed", "failed", "max_steps_exceeded"}, rate_limited : BOOLEAN,
            trace : Seq(Events), graded : SUBSET (RunnerMetrics \cup HarnessMetrics),
            passed : SUBSET (RunnerMetrics \cup HarnessMetrics)]

ASSUME OutcomeAssumption == Outcomes \subseteq RunRecords /\ NoResult \notin Results

Trials         == Suites \X Tasks \X (1..NumTrials)
SuiteTrials(s) == {t \in Trials : t[1] = s}

VARIABLES
    value, allocated,     \* the semaphore's capacity and its occupied slots
    current_concurrency,  \* what the runner has lowered its limit to
    limited,              \* history: the trials whose runs it took for rate limited
    trial, result,        \* how far each trial is, and its result
    stream,               \* what has become of each suite
    completed,            \* the trials as_completed has yet to yield
    reported              \* the trials the client has been told of

semaphore == <<value, allocated, current_concurrency, limited>>
vars      == <<semaphore, trial, result, stream, completed, reported>>

Maximum(a, b) == IF a > b THEN a ELSE b

Init ==
    /\ value = Maximum(1, InitialConcurrency)
    /\ allocated = 0
    /\ current_concurrency = InitialConcurrency
    /\ limited = {}
    /\ trial = [t \in Trials |-> "new"]
    /\ result = [t \in Trials |-> NoResult]
    /\ stream = [s \in Suites |-> "idle"]
    /\ completed = [s \in Suites |-> <<>>]
    /\ reported = [s \in Suites |-> <<>>]
-----------------------------------------------------------------------------
(* The harness runs a suite alone; a factory that raises ends it *)
RunTaskSuite(s, results) ==
    /\ stream[s] = "idle"
    /\ stream' = [stream EXCEPT ![s] = "collected"]
    /\ trial' = [t \in Trials |-> IF t \in SuiteTrials(s) THEN "over" ELSE trial[t]]
    /\ result' = [t \in Trials |-> IF t \in SuiteTrials(s) THEN results[t] ELSE result[t]]
    /\ UNCHANGED <<semaphore, completed, reported>>

HarnessRaises(s) ==
    /\ stream[s] = "idle"
    /\ stream' = [stream EXCEPT ![s] = "broken"]
    /\ UNCHANGED <<semaphore, trial, result, completed, reported>>

(* The stream: as_completed makes a task of every trial *)
StreamSuiteEvaluation(s) ==
    /\ stream[s] = "idle"
    /\ stream' = [stream EXCEPT ![s] = "open"]
    /\ trial' = [t \in Trials |-> IF t \in SuiteTrials(s) THEN "created" ELSE trial[t]]
    /\ UNCHANGED <<semaphore, result, completed, reported>>
-----------------------------------------------------------------------------
(* A trial's task, up to the thread *)
CanRun(t) == trial[t] \in {"created", "woken"}

(* notify_all *)
Notify(trials) == [t \in Trials |-> IF trials[t] = "waiting" THEN "woken" ELSE trials[t]]

EndTrial(t, end) ==
    /\ trial' = Notify([trial EXCEPT ![t] = end])
    /\ completed' = [completed EXCEPT ![t[1]] = Append(@, t)]

ParkTrial(t) ==
    /\ CanRun(t)
    /\ allocated >= value
    /\ trial' = [trial EXCEPT ![t] = "waiting"]
    /\ UNCHANGED <<semaphore, result, stream, completed, reported>>

StartTrialOnce(t) ==  \* mutant: the condition is tested before the wait, not after it
    /\ CanRun(t)
    /\ trial[t] = "woken" \/ allocated < value
    /\ allocated' = allocated + 1
    /\ trial' = [trial EXCEPT ![t] = "running"]
    /\ UNCHANGED <<value, current_concurrency, limited, result, stream, completed, reported>>

StartTrial(t) ==
    /\ CanRun(t)
    /\ allocated < value
    /\ allocated' = allocated + 1
    /\ trial' = [trial EXCEPT ![t] = "running"]
    /\ UNCHANGED <<value, current_concurrency, limited, result, stream, completed, reported>>

(* runtime_factory() is called with the slot, but before the try *)
FactoryRaises(t) ==
    /\ CanRun(t)
    /\ allocated < value
    /\ EndTrial(t, "raised")
    /\ UNCHANGED <<semaphore, result, stream, reported>>
-----------------------------------------------------------------------------
(* A trial's task, after the thread *)
RateLimited(run) == run.status = "failed" /\ run.rate_limited

BackOffFirst(t, run) ==  \* mutant: the semaphore is resized before the limit is lowered
    IF RateLimited(run)
    THEN /\ limited' = limited \cup {t}
         /\ IF current_concurrency > 1
            THEN /\ current_concurrency' = current_concurrency - 1
                 /\ value' = Maximum(1, current_concurrency)
            ELSE UNCHANGED <<current_concurrency, value>>
    ELSE UNCHANGED <<limited, current_concurrency, value>>

BackOff(t, run) ==
    IF RateLimited(run)
    THEN /\ limited' = limited \cup {t}
         /\ IF current_concurrency > 1
            THEN /\ current_concurrency' = current_concurrency - 1
                 /\ value' = Maximum(1, current_concurrency')
            ELSE UNCHANGED <<current_concurrency, value>>
    ELSE UNCHANGED <<limited, current_concurrency, value>>

LeaveTrialKeepingSlot(t, new) ==  \* mutant: a crash leaves without the slot being given back
    /\ trial[t] = "running"
    /\ allocated' = IF new = CrashedResult THEN allocated ELSE allocated - 1
    /\ result' = [result EXCEPT ![t] = new]
    /\ EndTrial(t, "over")
    /\ UNCHANGED <<stream, reported>>

LeaveTrialUnheard(t, new) ==  \* mutant: the slot is given back without a notification
    /\ trial[t] = "running"
    /\ allocated' = allocated - 1
    /\ result' = [result EXCEPT ![t] = new]
    /\ trial' = [trial EXCEPT ![t] = "over"]
    /\ completed' = [completed EXCEPT ![t[1]] = Append(@, t)]
    /\ UNCHANGED <<stream, reported>>

LeaveTrial(t, new) ==
    /\ trial[t] = "running"
    /\ allocated' = allocated - 1
    /\ result' = [result EXCEPT ![t] = new]
    /\ EndTrial(t, "over")
    /\ UNCHANGED <<stream, reported>>

(* One try holds the run, the back-off, the result and its graders.  What   *)
(* raises after the back-off leaves the limit lowered and a crash behind.   *)
FinishTrial(t, run)  == BackOff(t, run) /\ LeaveTrial(t, RunnerResult(run))
GraderRaises(t, run) == BackOff(t, run) /\ LeaveTrial(t, CrashedResult)

(* run() itself has raised *)
CrashTrial(t) ==
    /\ LeaveTrial(t, CrashedResult)
    /\ UNCHANGED <<value, current_concurrency, limited>>
-----------------------------------------------------------------------------
(* The generator behind the response *)
NextFuture(s) ==
    /\ stream[s] = "open"
    /\ completed[s] # <<>>
    /\ completed' = [completed EXCEPT ![s] = Tail(@)]
    /\ IF trial[Head(completed[s])] = "raised"
       THEN stream' = [stream EXCEPT ![s] = "broken"] /\ UNCHANGED reported
       ELSE reported' = [reported EXCEPT ![s] = Append(@, Head(completed[s]))]
              /\ UNCHANGED stream
    /\ UNCHANGED <<semaphore, trial, result>>

SendDoneEarly(s) ==  \* mutant: the end of the queue is taken for the end of the suite
    /\ stream[s] = "open"
    /\ completed[s] = <<>> /\ reported[s] # <<>>
    /\ stream' = [stream EXCEPT ![s] = "done"]
    /\ UNCHANGED <<semaphore, trial, result, completed, reported>>

SendDone(s) ==
    /\ stream[s] = "open"
    /\ Len(reported[s]) = Cardinality(SuiteTrials(s))
    /\ stream' = [stream EXCEPT ![s] = "done"]
    /\ UNCHANGED <<semaphore, trial, result, completed, reported>>

(* The client leaves; its trials go on *)
Disconnect(s) ==
    /\ stream[s] = "open"
    /\ stream' = [stream EXCEPT ![s] = "gone"]
    /\ UNCHANGED <<semaphore, trial, result, completed, reported>>
-----------------------------------------------------------------------------
TrialStep(t) == \/ ParkTrial(t) \/ StartTrial(t) \/ FactoryRaises(t)
                \/ \E run \in Outcomes : FinishTrial(t, run) \/ GraderRaises(t, run)
                \/ CrashTrial(t)

StreamStep(s) == NextFuture(s) \/ SendDone(s)

HarnessResults == {HarnessResult(run) : run \in Outcomes} \cup {HarnessCrash(ok) : ok \in BOOLEAN}

Next == \/ \E s \in Suites :
             \/ StreamSuiteEvaluation(s) \/ HarnessRaises(s) \/ Disconnect(s) \/ StreamStep(s)
             \/ \E results \in [SuiteTrials(s) -> HarnessResults] : RunTaskSuite(s, results)
        \/ \E t \in Trials : TrialStep(t)

(* The event loop runs every task that can run, the run in a thread ends,   *)
(* and a client takes its events or leaves.                                 *)
Fairness == /\ \A t \in Trials : WF_vars(TrialStep(t))
            /\ \A s \in Suites : WF_vars(StreamStep(s))

Spec == Init /\ [][Next]_vars /\ Fairness
-----------------------------------------------------------------------------
(* Properties *)

(* The types of the runner's state *)
TypeOK ==
    /\ value \in Nat \ {0} /\ allocated \in Nat /\ current_concurrency \in Int
    /\ limited \subseteq Trials
    /\ trial \in [Trials -> {"new", "created", "waiting", "woken", "running", "over", "raised"}]
    /\ result \in [Trials -> Results \cup {NoResult}]
    /\ stream \in [Suites -> {"idle", "open", "done", "broken", "gone", "collected"}]
    /\ completed \in [Suites -> Seq(Trials)]
    /\ reported \in [Suites -> Seq(Trials)]

Running == {t \in Trials : trial[t] = "running"}

(* Every occupied slot belongs to a trial that is running, and every        *)
(* running trial has one, whichever way trials leave: with a result, with   *)
(* a crash, or with an exception of the factory (runner.py:22-34, 64).      *)
SlotsAccounted == allocated = Cardinality(Running)

(* A slot is never free while a trial sleeps beside it: those who wait have *)
(* been notified of every slot given back (runner.py:25-34).                *)
NoLostWakeup == (\E t \in Trials : trial[t] = "waiting") => allocated >= value

(* A trial that starts finds fewer trials running than the limit says now,  *)
(* although trials that started under a higher limit may still run beyond   *)
(* it, and although a notified trial may be overtaken (runner.py:25-27).    *)
NewTrialsRespectTheLimit ==
    [][\A t \in Trials : t \in Running' \ Running => Cardinality(Running') <= value']_vars

(* The limit is the initial one less the rate limits the runner recognised: *)
(* each lowered it by one, also where a grader raised afterwards and the    *)
(* trial counts as a crash, none was lost to a race, and it never falls     *)
(* below one.  Recognised is a failed run whose final answer mentions a     *)
(* 429; the docstring's HTTP 429 failures are more than those: a run that   *)
(* fails at its provider has no final answer (runner.py:36-46, 61, 75-80).  *)
BackoffCounts == value = Maximum(1, InitialConcurrency - Cardinality(limited))

(* The client is told of a trial at most once and only when it is over,     *)
(* and [DONE] is sent when it has been told of all (runner.py:106-128).     *)
Told(s) == {reported[s][i] : i \in DOMAIN reported[s]}

StreamTellsAll ==
    \A s \in Suites :
        /\ \A i, j \in DOMAIN reported[s] : reported[s][i] = reported[s][j] => i = j
        /\ \A t \in Told(s) : t \in SuiteTrials(s) /\ trial[t] = "over"
        /\ stream[s] = "done" => Told(s) = SuiteTrials(s)

SkillTrials(s) == [skill \in DOMAIN BaselineSkills |->
                      {t \in SuiteTrials(s) : t[2] \in SkillTasks[skill]}]

(* The judges agree on a suite, streamed or run by the harness, although    *)
(* they read a trial without grades in different ways: the stream and the   *)
(* failure episodes take the same trials for passed; a skill accepted at a  *)
(* rate of 100 has trials and they all passed; and a report is alarmed, by  *)
(* any baseline, even one as bad, if a trial failed a hard metric, and only *)
(* if some trial has not passed one.  A candidate that no grader of a hard  *)
(* metric has seen, all its trials having crashed or been run by the        *)
(* harness, is left open: README.md:116 has it fail, and the report passes  *)
(* it (runner.py:115, harness.py:109, skills_tracker.py:28-46,              *)
(* regression.py:64-78).                                                    *)
Collected(s) == stream[s] \in {"done", "collected"}

VerdictsAgree ==
    \A s \in Suites :
        /\ \A t \in SuiteTrials(s) : trial[t] = "over" =>
             (AllPassed(result[t]) <=> FailureEpisode(result[t]) = "none")
        /\ Collected(s) /\ SkillsKept(result, SkillTrials(s)) =>
             \A skill \in DOMAIN BaselineSkills : BaselineSkills[skill] = 100 =>
                 /\ SkillTrials(s)[skill] # {}
                 /\ \A t \in SkillTrials(s)[skill] : AllPassed(result[t])
        /\ Collected(s) => \A baseline \in Suites \ {s} : Collected(baseline) =>
             LET alarm == RegressionDetected(result, SuiteTrials(baseline), SuiteTrials(s))
             IN  /\ (\E metric \in HardMetrics, t \in SuiteTrials(s) :
                        metric \in result[t].graded \ result[t].passed) => alarm
                 /\ alarm => \E metric \in HardMetrics, t \in SuiteTrials(s) :
                                 metric \notin result[t].passed

(* Every trial of a suite ends, also when its client has left, and every    *)
(* stream ends: once no suite is begun any more, nothing is left waiting    *)
(* for a slot, running or open, for good (runner.py:22-34, 115-128).        *)
SuitesEnd == <>[](/\ \A t \in Trials : trial[t] \in {"new", "over", "raised"}
                  /\ \A s \in Suites : stream[s] # "open")
=============================================================================
