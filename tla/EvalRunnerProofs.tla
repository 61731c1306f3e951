--------------------------- MODULE EvalRunnerProofs ---------------------------
(***************************************************************************)
(* Proofs about the evaluation runner, for every number of suites, tasks,  *)
(* trials and slots, and for every outcome of a run.                       *)
(***************************************************************************)
EXTENDS EvalRunner, FiniteSetTheorems, TLAPS

TrialStates  == {"new", "created", "waiting", "woken", "running", "over", "raised"}
StreamStates == {"idle", "open", "done", "broken", "gone", "collected"}

(* The suites of a trial are the trial's first component, and trials are    *)
(* finitely many.                                                           *)
LEMMA TrialsOfSuites ==
    /\ \A t \in Trials : t[1] \in Suites
    /\ \A t \in Trials, s \in Suites : t \in SuiteTrials(s) <=> t[1] = s
BY DEF Trials, SuiteTrials

LEMMA TrialsFinite ==
    IsFiniteSet(Trials)
<1> DEFINE pairs == (Suites \X Tasks) \X (1..NumTrials)
           f == [p \in pairs |-> <<p[1][1], p[1][2], p[2]>>]
<1>1. IsFiniteSet(Suites \X Tasks)
  BY RunnerAssumption, FS_Product
<1>2. IsFiniteSet(1..NumTrials)
  BY RunnerAssumption, FS_Interval
<1>3. IsFiniteSet(pairs)
  BY <1>1, <1>2, FS_Product
<1>4. f \in [pairs -> Trials]
  BY DEF Trials
<1>5. \A t \in Trials : \E p \in pairs : f[p] = t
  <2> SUFFICES ASSUME NEW t \in Trials PROVE \E p \in pairs : f[p] = t
    OBVIOUS
  <2>1. /\ <<<<t[1], t[2]>>, t[3]>> \in pairs
        /\ t = <<t[1], t[2], t[3]>>
    BY DEF Trials
  <2> QED BY <2>1
<1> HIDE DEF f, pairs
<1>6. f \in Surjection(pairs, Trials)
  BY <1>4, <1>5 DEF Surjection
<1> QED BY <1>3, <1>6, FS_Surjection

LEMMA SuiteFinite ==
    ASSUME NEW s \in Suites
    PROVE  IsFiniteSet(SuiteTrials(s)) /\ Cardinality(SuiteTrials(s)) \in Nat
BY TrialsFinite, FS_Subset, FS_CardinalityType DEF SuiteTrials

(* What a trial leaves is a result, in the shape the judges read. *)
LEMMA ResultTypes ==
    /\ \A run \in Outcomes : RunnerResult(run) \in Results
    /\ CrashedResult \in Results
    /\ HarnessResults \subseteq Results
<1>1. \A run \in Outcomes : run \in RunRecords
  BY OutcomeAssumption
<1>2. <<>> \in Seq(Events) /\ <<"fatal_crash">> \in Seq(Events)
  BY DEF Events
<1>3. ASSUME NEW run \in Outcomes PROVE RunnerResult(run) \in Results
  <2>1. RunnerPasses(run) \subseteq RunnerMetrics
    BY DEF RunnerPasses
  <2> QED BY <1>1, <2>1 DEF RunnerResult, Results, RunRecords
<1>4. CrashedResult \in Results
  BY <1>2 DEF CrashedResult, Results
<1>5. ASSUME NEW run \in RunRecords PROVE HarnessResult(run) \in Results
  BY DEF HarnessResult, Results, RunRecords
<1>6. ASSUME NEW ok \in BOOLEAN PROVE HarnessCrash(ok) \in Results
  <2>1. [status |-> "failed", rate_limited |-> FALSE, trace |-> <<"fatal_crash">>,
         step_count |-> 0, file_ok |-> ok] \in RunRecords
    BY <1>2 DEF RunRecords
  <2> QED BY <1>5, <2>1 DEF HarnessCrash
<1> QED BY <1>1, <1>3, <1>4, <1>5, <1>6 DEF HarnessResults
-----------------------------------------------------------------------------
(* The inductive invariant *)

Untouched ==
    \A s \in Suites :
        /\ stream[s] \in {"idle", "collected"} => reported[s] = <<>> /\ completed[s] = <<>>
        /\ stream[s] = "idle" => \A t \in SuiteTrials(s) : trial[t] = "new"
        /\ stream[s] = "collected" => \A t \in SuiteTrials(s) : trial[t] = "over"

Slots == IsFiniteSet(Running) /\ SlotsAccounted

Limits ==
    /\ value = Maximum(1, current_concurrency)
    /\ \A t \in limited : trial[t] = "over"
    /\ IF current_concurrency > 1
       THEN current_concurrency = InitialConcurrency - Cardinality(limited)
       ELSE InitialConcurrency - Cardinality(limited) <= 1

(* What as_completed still holds of a suite and what its client was told of *)
Yielded(s) ==
    /\ \A i \in DOMAIN completed[s] :
         completed[s][i] \in SuiteTrials(s) /\ trial[completed[s][i]] \in {"over", "raised"}
    /\ \A i, j \in DOMAIN completed[s] : completed[s][i] = completed[s][j] => i = j
    /\ \A i \in DOMAIN completed[s], j \in DOMAIN reported[s] : completed[s][i] # reported[s][j]
    /\ \A i \in DOMAIN reported[s] :
         reported[s][i] \in SuiteTrials(s) /\ trial[reported[s][i]] = "over"
    /\ \A i, j \in DOMAIN reported[s] : reported[s][i] = reported[s][j] => i = j

Streams ==
    \A s \in Suites : Yielded(s) /\ (stream[s] = "done" => Told(s) = SuiteTrials(s))

(* What a trial left is what its run, its crash or the harness makes of it *)
Judged(new) == \/ new = CrashedResult \/ new \in HarnessResults
               \/ \E run \in Outcomes : new = RunnerResult(run)

Graded == \A t \in Trials : trial[t] = "over" => Judged(result[t])

RunnerInv == TypeOK /\ Untouched /\ Slots /\ NoLostWakeup /\ Limits /\ Streams /\ Graded
-----------------------------------------------------------------------------
(* How the end of a trial changes the states of the trials: it notifies all *)
(* that wait and touches no other.                                          *)
LEMMA Ended ==
    ASSUME TypeOK, NEW t \in Trials, NEW end \in {"over", "raised"}, EndTrial(t, end)
    PROVE  /\ trial' \in [Trials -> TrialStates]
           /\ trial'[t] = end
           /\ \A u \in Trials : trial'[u] # "waiting"
           /\ \A u \in Trials \ {t} :
                trial'[u] = trial[u] \/ (trial[u] = "waiting" /\ trial'[u] = "woken")
<1> DEFINE trials == [trial EXCEPT ![t] = end]
<1>1. trial \in [Trials -> TrialStates]
  BY DEF TypeOK, TrialStates
<1>2. trials \in [Trials -> TrialStates] /\ trials[t] = end
      /\ \A u \in Trials \ {t} : trials[u] = trial[u]
  BY <1>1 DEF TrialStates
<1>3. trial' = [u \in Trials |-> IF trials[u] = "waiting" THEN "woken" ELSE trials[u]]
  BY DEF EndTrial, Notify
<1> HIDE DEF trials
<1>4. trial' \in [Trials -> TrialStates]
  BY <1>2, <1>3 DEF TrialStates
<1> QED BY <1>2, <1>3, <1>4

(* A trial that runs has one of the slots; when it ends they are one less.  *)
LEMMA SlotGivenBack ==
    ASSUME TypeOK, Slots, NEW t \in Trials, trial[t] = "running",
           NEW end \in {"over", "raised"}, EndTrial(t, end), allocated' = allocated - 1
    PROVE  Slots' /\ allocated' \in Nat
<1>1. t \in Running /\ IsFiniteSet(Running) /\ allocated = Cardinality(Running)
  BY DEF Running, Slots, SlotsAccounted
<1>2. Running' = Running \ {t}
  BY Ended DEF Running
<1>3. IsFiniteSet(Running') /\ Cardinality(Running') = allocated - 1
  BY <1>1, <1>2, FS_RemoveElement
<1> QED BY <1>3, FS_CardinalityType DEF Slots, SlotsAccounted

(* Every step keeps the types, given that no slot is given back twice.      *)
LEMMA Typing ==
    TypeOK /\ Slots /\ [Next]_vars => TypeOK'
<1> SUFFICES ASSUME TypeOK, Slots, [Next]_vars PROVE TypeOK'
  OBVIOUS
<1> USE DEF TypeOK, semaphore
<1>1. ASSUME NEW s \in Suites, NEW results \in [SuiteTrials(s) -> HarnessResults],
             RunTaskSuite(s, results)
      PROVE  TypeOK'
  <2>1. trial' \in [Trials -> TrialStates]
    BY <1>1 DEF RunTaskSuite, TrialStates
  <2>2. result' \in [Trials -> Results \cup {NoResult}]
    BY <1>1, ResultTypes DEF RunTaskSuite
  <2> QED BY <1>1, <2>1, <2>2 DEF RunTaskSuite, TrialStates
<1>2. ASSUME NEW s \in Suites, HarnessRaises(s) PROVE TypeOK'
  BY <1>2 DEF HarnessRaises
<1>3. ASSUME NEW s \in Suites, StreamSuiteEvaluation(s) PROVE TypeOK'
  <2>1. trial' \in [Trials -> TrialStates]
    BY <1>3 DEF StreamSuiteEvaluation, TrialStates
  <2> QED BY <1>3, <2>1 DEF StreamSuiteEvaluation, TrialStates
<1>4. ASSUME NEW s \in Suites, Disconnect(s) PROVE TypeOK'
  BY <1>4 DEF Disconnect
<1>5. ASSUME NEW s \in Suites, NextFuture(s) PROVE TypeOK'
  <2>1. Head(completed[s]) \in Trials /\ Tail(completed[s]) \in Seq(Trials)
    BY <1>5 DEF NextFuture
  <2>2. completed' \in [Suites -> Seq(Trials)]
    BY <1>5, <2>1 DEF NextFuture
  <2>3. reported' \in [Suites -> Seq(Trials)]
    <3>1. Append(reported[s], Head(completed[s])) \in Seq(Trials)
      BY <2>1
    <3> QED BY <1>5, <3>1 DEF NextFuture
  <2>4. stream' \in [Suites -> StreamStates]
    BY <1>5 DEF NextFuture, StreamStates
  <2> QED BY <1>5, <2>2, <2>3, <2>4 DEF NextFuture, StreamStates
<1>6. ASSUME NEW s \in Suites, SendDone(s) PROVE TypeOK'
  BY <1>6 DEF SendDone
<1>7. ASSUME NEW t \in Trials, ParkTrial(t) PROVE TypeOK'
  BY <1>7 DEF ParkTrial
<1>8. ASSUME NEW t \in Trials, StartTrial(t) PROVE TypeOK'
  BY <1>8 DEF StartTrial
<1>9. ASSUME NEW t \in Trials, NEW end \in {"over", "raised"}, EndTrial(t, end)
      PROVE  trial' \in [Trials -> TrialStates] /\ completed' \in [Suites -> Seq(Trials)]
  <2>1. Append(completed[t[1]], t) \in Seq(Trials)
    BY TrialsOfSuites
  <2> QED BY <1>9, <2>1, Ended DEF EndTrial
<1>10. ASSUME NEW t \in Trials, FactoryRaises(t) PROVE TypeOK'
  BY <1>9, <1>10 DEF FactoryRaises, TrialStates
<1>11. ASSUME NEW t \in Trials, NEW new \in Results, LeaveTrial(t, new),
              value' \in Nat \ {0}, current_concurrency' \in Int, limited' \subseteq Trials
       PROVE  TypeOK'
  <2>1. allocated' \in Nat
    BY <1>11, SlotGivenBack DEF LeaveTrial
  <2>2. result' \in [Trials -> Results \cup {NoResult}]
    BY <1>11 DEF LeaveTrial
  <2>3. trial' \in [Trials -> TrialStates] /\ completed' \in [Suites -> Seq(Trials)]
    BY <1>9, <1>11 DEF LeaveTrial
  <2> QED BY <1>11, <2>1, <2>2, <2>3 DEF LeaveTrial, TrialStates
<1>14. ASSUME NEW t \in Trials, NEW run \in Outcomes, BackOff(t, run)
       PROVE  value' \in Nat \ {0} /\ current_concurrency' \in Int /\ limited' \subseteq Trials
  BY <1>14 DEF BackOff, Maximum
<1>15. ASSUME NEW t \in Trials, NEW run \in Outcomes, FinishTrial(t, run) \/ GraderRaises(t, run)
       PROVE  TypeOK'
  <2> HIDE DEF TypeOK
  <2>1. BackOff(t, run) /\ (LeaveTrial(t, RunnerResult(run)) \/ LeaveTrial(t, CrashedResult))
    BY <1>15 DEF FinishTrial, GraderRaises
  <2> QED BY <2>1, <1>11, <1>14, ResultTypes
<1>12. ASSUME NEW t \in Trials, CrashTrial(t) PROVE TypeOK'
  BY <1>11, <1>12, ResultTypes DEF CrashTrial
<1>13. CASE UNCHANGED vars
  BY <1>13 DEF vars
<1> QED BY <1>1, <1>2, <1>3, <1>4, <1>5, <1>6, <1>7, <1>8, <1>10, <1>12, <1>13, <1>15
        DEF Next, TrialStep, StreamStep
-----------------------------------------------------------------------------
(* Suites that have not begun, or that the harness ran *)

LEMMA UntouchedKept ==
    TypeOK /\ Untouched /\ [Next]_vars => Untouched'
<1> SUFFICES ASSUME TypeOK, Untouched, [Next]_vars PROVE Untouched'
  OBVIOUS
<1>1. ASSUME NEW s \in Suites, NEW results \in [SuiteTrials(s) -> HarnessResults],
             RunTaskSuite(s, results)
      PROVE  Untouched'
  BY <1>1, TrialsOfSuites DEF RunTaskSuite, Untouched, TypeOK, SuiteTrials
<1>2. ASSUME NEW s \in Suites, HarnessRaises(s) PROVE Untouched'
  BY <1>2 DEF HarnessRaises, Untouched, TypeOK
<1>3. ASSUME NEW s \in Suites, StreamSuiteEvaluation(s) PROVE Untouched'
  BY <1>3, TrialsOfSuites DEF StreamSuiteEvaluation, Untouched, TypeOK, SuiteTrials
<1>4. ASSUME NEW s \in Suites, Disconnect(s) \/ NextFuture(s) \/ SendDone(s) PROVE Untouched'
  BY <1>4 DEF Disconnect, NextFuture, SendDone, Untouched, TypeOK
<1>5. ASSUME NEW t \in Trials, TrialStep(t) PROVE Untouched'
  <2>1. trial[t] \in {"created", "woken", "running"} /\ UNCHANGED <<stream, reported>>
    BY <1>5 DEF TrialStep, ParkTrial, StartTrial, FactoryRaises, FinishTrial, GraderRaises,
         CrashTrial, LeaveTrial, CanRun
  <2>2. stream[t[1]] \notin {"idle", "collected"}
    BY <2>1, TrialsOfSuites DEF Untouched
  <2>3. \A s \in Suites : s # t[1] => completed'[s] = completed[s]
    BY <1>5, TrialsOfSuites DEF TrialStep, ParkTrial, StartTrial, FactoryRaises, FinishTrial,
         GraderRaises, CrashTrial, LeaveTrial, EndTrial, TypeOK
  <2>4. \A u \in Trials : trial[u] \in {"new", "over"} => trial'[u] = trial[u]
    <3>1. CASE \E end \in {"over", "raised"} : EndTrial(t, end)
      BY <2>1, <3>1, Ended
    <3>2. CASE ParkTrial(t) \/ StartTrial(t)
      BY <2>1, <3>2 DEF ParkTrial, StartTrial, TypeOK
    <3> QED BY <1>5, <3>1, <3>2 DEF TrialStep, FactoryRaises, FinishTrial, GraderRaises,
               CrashTrial, LeaveTrial
  <2> QED BY <2>1, <2>2, <2>3, <2>4, TrialsOfSuites DEF Untouched, SuiteTrials
<1>6. CASE UNCHANGED vars
  BY <1>6 DEF vars, Untouched
<1> QED BY <1>1, <1>2, <1>3, <1>4, <1>5, <1>6 DEF Next, StreamStep
-----------------------------------------------------------------------------
(* Slots *)

LEMMA SlotsKept ==
    TypeOK /\ Untouched /\ Slots /\ [Next]_vars => Slots'
<1> SUFFICES ASSUME TypeOK, Untouched, Slots, [Next]_vars PROVE Slots'
  OBVIOUS
<1>1. ASSUME Running' = Running, allocated' = allocated PROVE Slots'
  BY <1>1 DEF Slots, SlotsAccounted
<1>2. ASSUME NEW s \in Suites, NEW results \in [SuiteTrials(s) -> HarnessResults],
             RunTaskSuite(s, results)
      PROVE  Slots'
  <2>1. Running' = Running /\ allocated' = allocated
    BY <1>2, TrialsOfSuites DEF RunTaskSuite, Running, Untouched, TypeOK, semaphore
  <2> QED BY <1>1, <2>1
<1>9. ASSUME NEW s \in Suites, StreamSuiteEvaluation(s) PROVE Slots'
  <2>1. Running' = Running /\ allocated' = allocated
    BY <1>9, TrialsOfSuites DEF StreamSuiteEvaluation, Running, Untouched, TypeOK, semaphore
  <2> QED BY <1>1, <2>1
<1>3. ASSUME NEW s \in Suites, HarnessRaises(s) \/ Disconnect(s) \/ NextFuture(s) \/ SendDone(s)
      PROVE  Slots'
  <2>1. Running' = Running /\ allocated' = allocated
    BY <1>3 DEF HarnessRaises, Disconnect, NextFuture, SendDone, Running, semaphore
  <2> QED BY <1>1, <2>1
<1>4. ASSUME NEW t \in Trials, ParkTrial(t) PROVE Slots'
  <2>1. Running' = Running /\ allocated' = allocated
    BY <1>4 DEF ParkTrial, CanRun, Running, TypeOK, semaphore
  <2> QED BY <1>1, <2>1
<1>5. ASSUME NEW t \in Trials, StartTrial(t) PROVE Slots'
  <2>1. Running' = Running \cup {t} /\ t \notin Running
    BY <1>5 DEF StartTrial, CanRun, Running, TypeOK
  <2>2. IsFiniteSet(Running') /\ Cardinality(Running') = Cardinality(Running) + 1
    BY <2>1, FS_AddElement DEF Slots
  <2> QED BY <1>5, <2>2 DEF StartTrial, Slots, SlotsAccounted
<1>6. ASSUME NEW t \in Trials, FactoryRaises(t) PROVE Slots'
  <2>1. Running' = Running /\ allocated' = allocated
    BY <1>6, Ended DEF FactoryRaises, CanRun, Running, semaphore
  <2> QED BY <1>1, <2>1
<1>7. ASSUME NEW t \in Trials, NEW new, LeaveTrial(t, new) PROVE Slots'
  BY <1>7, SlotGivenBack DEF LeaveTrial
<1>8. CASE UNCHANGED vars
  BY <1>8 DEF vars, semaphore, Slots, SlotsAccounted, Running
<1> QED BY <1>2, <1>3, <1>4, <1>5, <1>6, <1>7, <1>8, <1>9
        DEF Next, TrialStep, StreamStep, FinishTrial, GraderRaises, CrashTrial
-----------------------------------------------------------------------------
(* Waiting trials *)

LEMMA WakeupsKept ==
    TypeOK /\ Untouched /\ NoLostWakeup /\ [Next]_vars => NoLostWakeup'
<1> SUFFICES ASSUME TypeOK, Untouched, NoLostWakeup, [Next]_vars PROVE NoLostWakeup'
  OBVIOUS
<1>1. ASSUME \A t \in Trials : trial'[t] = "waiting" => trial[t] = "waiting",
             allocated' = allocated, value' = value
      PROVE  NoLostWakeup'
  BY <1>1 DEF NoLostWakeup
<1>2. ASSUME \A t \in Trials : trial'[t] # "waiting" PROVE NoLostWakeup'
  BY <1>2 DEF NoLostWakeup
<1>3. ASSUME NEW s \in Suites, NEW results \in [SuiteTrials(s) -> HarnessResults],
             RunTaskSuite(s, results)
      PROVE  NoLostWakeup'
  BY <1>1, <1>3 DEF RunTaskSuite, semaphore
<1>4. ASSUME NEW s \in Suites, StreamSuiteEvaluation(s) PROVE NoLostWakeup'
  BY <1>1, <1>4 DEF StreamSuiteEvaluation, semaphore
<1>5. ASSUME NEW s \in Suites, HarnessRaises(s) \/ Disconnect(s) \/ NextFuture(s) \/ SendDone(s)
      PROVE  NoLostWakeup'
  BY <1>1, <1>5 DEF HarnessRaises, Disconnect, NextFuture, SendDone, semaphore
<1>6. ASSUME NEW t \in Trials, ParkTrial(t) PROVE NoLostWakeup'
  BY <1>6 DEF ParkTrial, NoLostWakeup, semaphore
<1>7. ASSUME NEW t \in Trials, StartTrial(t) PROVE NoLostWakeup'
  <2>1. \A u \in Trials : trial[u] # "waiting"
    BY <1>7 DEF StartTrial, NoLostWakeup, TypeOK
  <2> QED BY <1>2, <1>7, <2>1 DEF StartTrial, TypeOK
<1>8. ASSUME NEW t \in Trials, NEW end \in {"over", "raised"}, EndTrial(t, end)
      PROVE  NoLostWakeup'
  BY <1>2, <1>8, Ended
<1>9. CASE UNCHANGED vars
  BY <1>9 DEF vars, semaphore, NoLostWakeup
<1> QED BY <1>3, <1>4, <1>5, <1>6, <1>7, <1>8, <1>9
        DEF Next, TrialStep, StreamStep, FactoryRaises, FinishTrial, GraderRaises, CrashTrial,
            LeaveTrial
-----------------------------------------------------------------------------
(* The limit *)

LEMMA LimitsKept ==
    TypeOK /\ Untouched /\ Limits /\ [Next]_vars => Limits'
<1> SUFFICES ASSUME TypeOK, Untouched, Limits, [Next]_vars PROVE Limits'
  OBVIOUS
<1>1. ASSUME UNCHANGED <<value, current_concurrency, limited>>,
             \A t \in Trials : trial[t] = "over" => trial'[t] = "over"
      PROVE  Limits'
  <2>1. limited \subseteq Trials
    BY DEF TypeOK
  <2> QED BY <1>1, <2>1 DEF Limits
<1>2. ASSUME NEW s \in Suites, NEW results \in [SuiteTrials(s) -> HarnessResults],
             RunTaskSuite(s, results)
      PROVE  Limits'
  BY <1>1, <1>2 DEF RunTaskSuite, semaphore
<1>3. ASSUME NEW s \in Suites, StreamSuiteEvaluation(s) PROVE Limits'
  <2>1. \A t \in SuiteTrials(s) : trial[t] = "new"
    BY <1>3 DEF StreamSuiteEvaluation, Untouched
  <2> QED BY <1>1, <1>3, <2>1 DEF StreamSuiteEvaluation, semaphore
<1>4. ASSUME NEW s \in Suites, HarnessRaises(s) \/ Disconnect(s) \/ NextFuture(s) \/ SendDone(s)
      PROVE  Limits'
  BY <1>1, <1>4 DEF HarnessRaises, Disconnect, NextFuture, SendDone, semaphore
<1>5. ASSUME NEW t \in Trials, ParkTrial(t) \/ StartTrial(t) PROVE Limits'
  <2>1. /\ UNCHANGED <<value, current_concurrency, limited>>
        /\ \A u \in Trials : trial[u] = "over" => trial'[u] = "over"
    BY <1>5 DEF ParkTrial, StartTrial, CanRun, TypeOK, semaphore
  <2> QED BY <1>1, <2>1
<1>6. ASSUME NEW t \in Trials, FactoryRaises(t) PROVE Limits'
  <2>1. /\ UNCHANGED <<value, current_concurrency, limited>>
        /\ \A u \in Trials : trial[u] = "over" => trial'[u] = "over"
    BY <1>6, Ended DEF FactoryRaises, CanRun, semaphore
  <2> QED BY <1>1, <2>1
<1>7. ASSUME NEW t \in Trials, NEW new, LeaveTrial(t, new)
      PROVE  /\ trial[t] = "running" /\ trial'[t] = "over"
             /\ \A u \in Trials : trial[u] = "over" => trial'[u] = "over"
  BY <1>7, Ended DEF LeaveTrial
<1>8. ASSUME NEW t \in Trials, NEW run \in Outcomes, NEW new,
             BackOff(t, run), LeaveTrial(t, new)
      PROVE  Limits'
  <2>1. t \notin limited /\ limited \subseteq Trials
    BY <1>7, <1>8 DEF Limits, TypeOK
  <2>2. IsFiniteSet(limited) /\ Cardinality(limited) \in Nat
    BY <2>1, TrialsFinite, FS_Subset, FS_CardinalityType
  <2>3. CASE RateLimited(run)
    <3>1. limited' = limited \cup {t}
      BY <1>8, <2>3 DEF BackOff
    <3>2. Cardinality(limited') = Cardinality(limited) + 1
      BY <2>1, <2>2, <3>1, FS_AddElement
    <3>3. \A u \in limited' : trial'[u] = "over"
      BY <1>7, <1>8, <2>1, <3>1 DEF Limits
    <3>4. InitialConcurrency \in Int /\ current_concurrency \in Int /\ value \in Int
      BY RunnerAssumption DEF TypeOK
    <3>5. CASE current_concurrency > 1
      <4>1. current_concurrency' = current_concurrency - 1
            /\ value' = Maximum(1, current_concurrency')
        BY <1>8, <2>3, <3>5 DEF BackOff
      <4> QED BY <2>2, <3>2, <3>3, <3>4, <3>5, <4>1 DEF Limits
    <3>6. CASE ~(current_concurrency > 1)
      <4>1. current_concurrency' = current_concurrency /\ value' = value
        BY <1>8, <2>3, <3>6 DEF BackOff
      <4> QED BY <2>2, <3>2, <3>3, <3>4, <3>6, <4>1 DEF Limits
    <3> QED BY <3>5, <3>6
  <2>4. CASE ~RateLimited(run)
    <3>1. UNCHANGED <<value, current_concurrency, limited>>
      BY <1>8, <2>4 DEF BackOff
    <3> QED BY <1>1, <1>7, <1>8, <3>1
  <2> QED BY <2>3, <2>4
<1>9. ASSUME NEW t \in Trials, CrashTrial(t) PROVE Limits'
  BY <1>1, <1>7, <1>9 DEF CrashTrial
<1>10. CASE UNCHANGED vars
  BY <1>1, <1>10 DEF vars, semaphore
<1> QED BY <1>2, <1>3, <1>4, <1>5, <1>6, <1>8, <1>9, <1>10
        DEF Next, TrialStep, StreamStep, FinishTrial, GraderRaises
-----------------------------------------------------------------------------
(* Results *)

LEMMA GradedKept ==
    TypeOK /\ Graded /\ [Next]_vars => Graded'
<1> SUFFICES ASSUME TypeOK, Graded, [Next]_vars PROVE Graded'
  OBVIOUS
<1>1. ASSUME UNCHANGED result, \A t \in Trials : trial'[t] = "over" => trial[t] = "over"
      PROVE  Graded'
  BY <1>1 DEF Graded, Judged, HarnessResults
<1>2. ASSUME NEW s \in Suites, NEW results \in [SuiteTrials(s) -> HarnessResults],
             RunTaskSuite(s, results)
      PROVE  Graded'
  <2>1. \A t \in SuiteTrials(s) : result'[t] \in HarnessResults
    BY <1>2 DEF RunTaskSuite, SuiteTrials
  <2>2. \A t \in Trials \ SuiteTrials(s) : trial'[t] = trial[t] /\ result'[t] = result[t]
    BY <1>2 DEF RunTaskSuite
  <2> HIDE DEF HarnessResults
  <2> QED BY <2>1, <2>2 DEF Graded, Judged
<1>3. ASSUME NEW s \in Suites, StreamSuiteEvaluation(s) PROVE Graded'
  BY <1>1, <1>3 DEF StreamSuiteEvaluation
<1>4. ASSUME NEW s \in Suites, HarnessRaises(s) \/ Disconnect(s) \/ NextFuture(s) \/ SendDone(s)
      PROVE  Graded'
  BY <1>1, <1>4 DEF HarnessRaises, Disconnect, NextFuture, SendDone
<1>5. ASSUME NEW t \in Trials, ParkTrial(t) \/ StartTrial(t) PROVE Graded'
  <2>1. UNCHANGED result /\ \A u \in Trials : trial'[u] = "over" => trial[u] = "over"
    BY <1>5 DEF ParkTrial, StartTrial, CanRun, TypeOK
  <2> QED BY <1>1, <2>1
<1>6. ASSUME NEW t \in Trials, FactoryRaises(t) PROVE Graded'
  <2>1. UNCHANGED result /\ \A u \in Trials : trial'[u] = "over" => trial[u] = "over"
    BY <1>6, Ended DEF FactoryRaises
  <2> QED BY <1>1, <2>1
<1>7. ASSUME NEW t \in Trials, NEW new, LeaveTrial(t, new), Judged(new) PROVE Graded'
  <2>1. \A u \in Trials \ {t} : (trial'[u] = "over" => trial[u] = "over")
                                 /\ result'[u] = result[u]
    BY <1>7, Ended DEF LeaveTrial, TypeOK
  <2>2. result'[t] = new
    BY <1>7 DEF LeaveTrial, TypeOK
  <2> QED BY <1>7, <2>1, <2>2 DEF Graded, Judged
<1>8. ASSUME NEW t \in Trials, NEW run \in Outcomes, FinishTrial(t, run) \/ GraderRaises(t, run)
      PROVE  Graded'
  BY <1>7, <1>8 DEF FinishTrial, GraderRaises, Judged
<1>9. ASSUME NEW t \in Trials, CrashTrial(t) PROVE Graded'
  BY <1>7, <1>9 DEF CrashTrial, Judged
<1>10. CASE UNCHANGED vars
  BY <1>1, <1>10 DEF vars
<1> QED BY <1>2, <1>3, <1>4, <1>5, <1>6, <1>8, <1>9, <1>10 DEF Next, TrialStep, StreamStep
-----------------------------------------------------------------------------
(* Streams *)

(* A suite whose queue and reports do not change, and whose ended trials    *)
(* stay as they are, keeps what holds of them.                              *)
LEMMA YieldedKept ==
    ASSUME NEW s \in Suites, Yielded(s), UNCHANGED <<completed[s], reported[s]>>,
           \A t \in SuiteTrials(s) : trial[t] \in {"over", "raised"} => trial'[t] = trial[t]
    PROVE  Yielded(s)'
BY DEF Yielded, SuiteTrials

(* A trial that ends is new to the queue and to the reports of its suite.   *)
LEMMA YieldedMore ==
    ASSUME TypeOK, NEW t \in Trials, trial[t] \notin {"over", "raised"},
           NEW end \in {"over", "raised"}, EndTrial(t, end), UNCHANGED reported,
           Yielded(t[1])
    PROVE  Yielded(t[1])'
<1> DEFINE s == t[1]
           q == completed[s]
<1>1. s \in Suites /\ t \in SuiteTrials(s) /\ q \in Seq(Trials)
  BY TrialsOfSuites DEF TypeOK
<1>2. /\ completed'[s] = Append(q, t)
      /\ reported'[s] = reported[s]
  BY <1>1 DEF EndTrial, TypeOK
<1>3. /\ DOMAIN completed'[s] = DOMAIN q \cup {Len(q) + 1}
      /\ \A i \in DOMAIN q : completed'[s][i] = q[i]
      /\ completed'[s][Len(q) + 1] = t
  BY <1>1, <1>2
<1>4. \A u \in SuiteTrials(s) : trial[u] \in {"over", "raised"} => u # t /\ trial'[u] = trial[u]
  BY Ended DEF SuiteTrials
<1>5. trial'[t] = end
  BY Ended
<1>6. \A i \in DOMAIN q : q[i] # t
  BY <1>4 DEF Yielded
<1>7. \A i \in DOMAIN reported[s] : reported[s][i] # t
  BY <1>4 DEF Yielded
<1> HIDE DEF s, q
<1>8. Yielded(s)
  BY DEF s
<1>9. \A i \in DOMAIN completed'[s] :
        completed'[s][i] \in SuiteTrials(s) /\ trial'[completed'[s][i]] \in {"over", "raised"}
  BY <1>1, <1>3, <1>4, <1>5, <1>8 DEF Yielded, q
<1>10. \A i, j \in DOMAIN completed'[s] : completed'[s][i] = completed'[s][j] => i = j
  BY <1>3, <1>6, <1>8 DEF Yielded, q
<1>11. \A i \in DOMAIN completed'[s], j \in DOMAIN reported'[s] :
         completed'[s][i] # reported'[s][j]
  BY <1>2, <1>3, <1>7, <1>8 DEF Yielded, q
<1>12. \A i \in DOMAIN reported'[s] :
         reported'[s][i] \in SuiteTrials(s) /\ trial'[reported'[s][i]] = "over"
  BY <1>2, <1>4, <1>8 DEF Yielded
<1>13. \A i, j \in DOMAIN reported'[s] : reported'[s][i] = reported'[s][j] => i = j
  BY <1>2, <1>8 DEF Yielded
<1>14. SuiteTrials(s)' = SuiteTrials(s)
  BY DEF SuiteTrials, s
<1>15. Yielded(s)'
  BY <1>9, <1>10, <1>11, <1>12, <1>13, <1>14 DEF Yielded
<1> QED BY <1>15 DEF s

(* Yielding the first of the queue moves it to the reports, or drops it.    *)
LEMMA YieldedNext ==
    ASSUME TypeOK, NEW s \in Suites, NextFuture(s), Yielded(s)
    PROVE  Yielded(s)'
<1> DEFINE q == completed[s]
           told == reported[s]
           first == Head(completed[s])
<1>1. q \in Seq(Trials) /\ q # <<>> /\ told \in Seq(Trials)
  BY DEF TypeOK, NextFuture
<1>2. first = q[1] /\ 1 \in DOMAIN q
  BY <1>1
<1>3. completed'[s] = Tail(q) /\ UNCHANGED trial
  BY DEF NextFuture, TypeOK
<1>4. \A i \in DOMAIN Tail(q) : i + 1 \in DOMAIN q /\ Tail(q)[i] = q[i + 1] /\ i + 1 # 1
  BY <1>1
<1>5. \A i \in DOMAIN Tail(q) : i \in Nat
  BY <1>1
<1>6. \A i \in DOMAIN Tail(q) : Tail(q)[i] \in SuiteTrials(s)
                               /\ trial[Tail(q)[i]] \in {"over", "raised"}
  BY <1>4 DEF Yielded
<1>7. \A i, j \in DOMAIN Tail(q) : Tail(q)[i] = Tail(q)[j] => i = j
  <2> SUFFICES ASSUME NEW i \in DOMAIN Tail(q), NEW j \in DOMAIN Tail(q),
                      Tail(q)[i] = Tail(q)[j]
               PROVE  i = j
    OBVIOUS
  <2>1. i + 1 = j + 1
    BY <1>4 DEF Yielded
  <2> QED BY <1>5, <2>1
<1>8. \A i \in DOMAIN Tail(q) : Tail(q)[i] # first
  BY <1>2, <1>4 DEF Yielded
<1>9. SuiteTrials(s)' = SuiteTrials(s)
  BY DEF SuiteTrials
<1>10. CASE trial[first] = "raised"
  <2>1. reported'[s] = told
    BY <1>10 DEF NextFuture
  <2> HIDE DEF first
  <2> QED BY <1>3, <1>4, <1>6, <1>7, <1>9, <2>1 DEF Yielded
<1>11. CASE trial[first] # "raised"
  <2>1. reported'[s] = Append(told, first)
    BY <1>11 DEF NextFuture, TypeOK
  <2>2. /\ DOMAIN reported'[s] = DOMAIN told \cup {Len(told) + 1}
        /\ \A i \in DOMAIN told : reported'[s][i] = told[i]
        /\ reported'[s][Len(told) + 1] = first
    BY <1>1, <2>1
  <2>3. first \in SuiteTrials(s) /\ trial[first] = "over"
    BY <1>2, <1>11 DEF Yielded
  <2>4. \A i \in DOMAIN told : told[i] # first
    BY <1>2 DEF Yielded
  <2> HIDE DEF first
  <2>5. \A i \in DOMAIN completed'[s], j \in DOMAIN reported'[s] :
           completed'[s][i] # reported'[s][j]
    BY <1>3, <1>4, <1>8, <2>2 DEF Yielded
  <2>6. \A i \in DOMAIN reported'[s] :
           reported'[s][i] \in SuiteTrials(s) /\ trial'[reported'[s][i]] = "over"
    BY <1>3, <2>2, <2>3 DEF Yielded
  <2>7. \A i, j \in DOMAIN reported'[s] : reported'[s][i] = reported'[s][j] => i = j
    BY <2>2, <2>4 DEF Yielded
  <2> QED BY <1>3, <1>6, <1>7, <1>9, <2>5, <2>6, <2>7 DEF Yielded
<1> QED BY <1>10, <1>11

(* A client that was told of as many trials as the suite has was told of    *)
(* every one.                                                               *)
LEMMA AllTold ==
    ASSUME TypeOK, NEW s \in Suites, Yielded(s),
           Len(reported[s]) = Cardinality(SuiteTrials(s))
    PROVE  Told(s) = SuiteTrials(s)
<1> DEFINE told == reported[s]
           n == Len(told)
<1>1. told \in Seq(Trials) /\ n \in Nat /\ DOMAIN told = 1..n
  BY DEF TypeOK
<1>2. told \in [1..n -> SuiteTrials(s)]
  BY <1>1 DEF Yielded
<1>3. told \in Injection(1..n, SuiteTrials(s))
  BY <1>1, <1>2 DEF Injection, IsInjective, Yielded
<1>4. IsFiniteSet(SuiteTrials(s))
  BY SuiteFinite
<1>5. Cardinality(1..n) = n
  BY <1>1, FS_Interval
<1>6. told \in Surjection(1..n, SuiteTrials(s))
  BY <1>3, <1>4, <1>5, FS_Injection
<1> QED BY <1>1, <1>2, <1>6 DEF Surjection, Told

LEMMA StreamsKept ==
    TypeOK /\ Untouched /\ Streams /\ [Next]_vars => Streams'
<1> SUFFICES ASSUME TypeOK, Untouched, Streams, [Next]_vars PROVE Streams'
  OBVIOUS
<1>1. ASSUME UNCHANGED <<completed, reported>>,
             \A s \in Suites : stream'[s] = "done" => stream[s] = "done",
             \A t \in Trials : trial[t] \in {"over", "raised"} => trial'[t] = trial[t]
      PROVE  Streams'
  <2>1. \A s \in Suites : Yielded(s)'
    BY <1>1, YieldedKept DEF Streams, SuiteTrials
  <2>2. \A s \in Suites : Told(s)' = Told(s) /\ SuiteTrials(s)' = SuiteTrials(s)
    BY <1>1 DEF Told, SuiteTrials
  <2> QED BY <1>1, <2>1, <2>2 DEF Streams
<1>2. ASSUME NEW s \in Suites, NEW results \in [SuiteTrials(s) -> HarnessResults],
             RunTaskSuite(s, results)
      PROVE  Streams'
  <2>1. \A u \in Suites : stream'[u] = "done" => stream[u] = "done"
    BY <1>2 DEF RunTaskSuite, TypeOK
  <2>2. \A t \in Trials : trial[t] \in {"over", "raised"} => trial'[t] = trial[t]
    BY <1>2 DEF RunTaskSuite, Untouched
  <2> QED BY <1>1, <1>2, <2>1, <2>2 DEF RunTaskSuite
<1>3. ASSUME NEW s \in Suites, StreamSuiteEvaluation(s) PROVE Streams'
  <2>1. \A u \in Suites : stream'[u] = "done" => stream[u] = "done"
    BY <1>3 DEF StreamSuiteEvaluation, TypeOK
  <2>2. \A t \in Trials : trial[t] \in {"over", "raised"} => trial'[t] = trial[t]
    BY <1>3 DEF StreamSuiteEvaluation, Untouched
  <2> QED BY <1>1, <1>3, <2>1, <2>2 DEF StreamSuiteEvaluation
<1>4. ASSUME NEW s \in Suites, HarnessRaises(s) \/ Disconnect(s) PROVE Streams'
  BY <1>1, <1>4 DEF HarnessRaises, Disconnect, TypeOK
<1>5. ASSUME NEW t \in Trials, ParkTrial(t) \/ StartTrial(t) PROVE Streams'
  <2>1. \A u \in Trials : trial[u] \in {"over", "raised"} => trial'[u] = trial[u]
    BY <1>5 DEF ParkTrial, StartTrial, CanRun, TypeOK
  <2> QED BY <1>1, <1>5, <2>1 DEF ParkTrial, StartTrial
<1>6. ASSUME NEW t \in Trials, trial[t] \notin {"over", "raised"},
             NEW end \in {"over", "raised"}, EndTrial(t, end), UNCHANGED <<stream, reported>>
      PROVE  Streams'
  <2>1. Yielded(t[1])'
    BY <1>6, TrialsOfSuites, YieldedMore DEF Streams
  <2>2. ASSUME NEW s \in Suites, s # t[1] PROVE Yielded(s)'
    <3>1. UNCHANGED <<completed[s], reported[s]>>
      BY <1>6, <2>2 DEF EndTrial, TypeOK
    <3>2. \A u \in SuiteTrials(s) : trial[u] \in {"over", "raised"} => trial'[u] = trial[u]
      BY <1>6, Ended DEF SuiteTrials
    <3> QED BY <3>1, <3>2, YieldedKept DEF Streams
  <2>3. \A s \in Suites : Told(s)' = Told(s) /\ SuiteTrials(s)' = SuiteTrials(s)
    BY <1>6 DEF Told, SuiteTrials
  <2> QED BY <1>6, <2>1, <2>2, <2>3 DEF Streams
<1>7. ASSUME NEW t \in Trials, TrialStep(t) PROVE Streams'
  BY <1>5, <1>6, <1>7 DEF TrialStep, FactoryRaises, FinishTrial, GraderRaises, CrashTrial,
     LeaveTrial, CanRun
<1>8. ASSUME NEW s \in Suites, NextFuture(s) PROVE Streams'
  <2>1. Yielded(s)'
    BY <1>8, YieldedNext DEF Streams
  <2>2. ASSUME NEW u \in Suites, u # s
        PROVE  Yielded(u)' /\ stream'[u] = stream[u] /\ Told(u)' = Told(u)
    <3>1. UNCHANGED <<completed[u], reported[u], stream[u], trial>>
      BY <1>8, <2>2 DEF NextFuture, TypeOK
    <3> QED BY <3>1, YieldedKept DEF Streams, Told
  <2>3. stream'[s] # "done"
    BY <1>8 DEF NextFuture, TypeOK
  <2>4. \A u \in Suites : SuiteTrials(u)' = SuiteTrials(u)
    BY DEF SuiteTrials
  <2> QED BY <2>1, <2>2, <2>3, <2>4 DEF Streams
<1>9. ASSUME NEW s \in Suites, SendDone(s) PROVE Streams'
  <2>1. \A u \in Suites : Yielded(u)'
    BY <1>9, YieldedKept DEF SendDone, Streams
  <2>2. \A u \in Suites : Told(u)' = Told(u) /\ SuiteTrials(u)' = SuiteTrials(u)
    BY <1>9 DEF SendDone, Told, SuiteTrials
  <2>3. Told(s) = SuiteTrials(s)
    BY <1>9, AllTold DEF SendDone, Streams
  <2>4. \A u \in Suites \ {s} : stream'[u] = stream[u]
    BY <1>9 DEF SendDone, TypeOK
  <2> QED BY <2>1, <2>2, <2>3, <2>4 DEF Streams
<1>10. CASE UNCHANGED vars
  BY <1>1, <1>10 DEF vars
<1> QED BY <1>2, <1>3, <1>4, <1>7, <1>8, <1>9, <1>10 DEF Next, StreamStep
-----------------------------------------------------------------------------
(* Theorems *)

LEMMA RunnerInvInit ==
    Init => RunnerInv
<1> SUFFICES ASSUME Init PROVE RunnerInv
  OBVIOUS
<1> USE DEF Init
<1>1. TypeOK
  BY RunnerAssumption DEF TypeOK, Maximum
<1>2. Untouched
  BY DEF Untouched, SuiteTrials
<1>3. Running = {} /\ limited = {}
  BY DEF Running
<1>4. IsFiniteSet({}) /\ Cardinality({}) = 0
  BY FS_EmptySet
<1>5. Slots
  BY <1>3, <1>4 DEF Slots, SlotsAccounted
<1>6. Limits
  BY <1>3, <1>4, RunnerAssumption DEF Limits
<1>7. Streams
  BY DEF Streams, Yielded
<1> QED BY <1>1, <1>2, <1>5, <1>6, <1>7 DEF RunnerInv, NoLostWakeup, Graded

(* What slots, sleepers, results and streams have to do with each other, in *)
(* every interleaving of trials and suites (runner.py:9-128).               *)
THEOREM RunnerInvariant == Spec => []RunnerInv
<1>1. RunnerInv /\ [Next]_vars => RunnerInv'
  BY Typing, UntouchedKept, SlotsKept, WakeupsKept, LimitsKept, StreamsKept, GradedKept
     DEF RunnerInv
<1> QED BY <1>1, RunnerInvInit, PTL DEF Spec

(* The state keeps its types. *)
THEOREM Typed == Spec => []TypeOK
<1>1. RunnerInv => TypeOK
  BY DEF RunnerInv
<1> QED BY <1>1, RunnerInvariant, PTL

(* Every slot is a running trial's, whichever way trials leave              *)
(* (runner.py:22-34, 64).                                                   *)
THEOREM SlotsAreAccounted == Spec => []SlotsAccounted
<1>1. RunnerInv => SlotsAccounted
  BY DEF RunnerInv, Slots
<1> QED BY <1>1, RunnerInvariant, PTL

(* No trial sleeps beside a free slot (runner.py:25-34).                    *)
THEOREM NoWakeupIsLost == Spec => []NoLostWakeup
<1>1. RunnerInv => NoLostWakeup
  BY DEF RunnerInv
<1> QED BY <1>1, RunnerInvariant, PTL

(* The limit is what the rate limits that were recognised have left of it,  *)
(* whether or not their trials were graded (runner.py:36-46, 75-80).        *)
THEOREM EveryRateLimitCounts == Spec => []BackoffCounts
<1>1. RunnerInv => BackoffCounts
  <2> SUFFICES ASSUME RunnerInv PROVE BackoffCounts
    OBVIOUS
  <2>1. limited \subseteq Trials
    BY DEF RunnerInv, TypeOK
  <2>2. Cardinality(limited) \in Nat /\ InitialConcurrency \in Int
    BY <2>1, TrialsFinite, FS_Subset, FS_CardinalityType, RunnerAssumption
  <2> QED BY <2>2 DEF RunnerInv, Limits, BackoffCounts, Maximum, TypeOK
<1> QED BY <1>1, RunnerInvariant, PTL

(* A client is told of every trial once, and [DONE] last (runner.py:106-128). *)
THEOREM StreamsTellAll == Spec => []StreamTellsAll
<1>1. RunnerInv => StreamTellsAll
  <2> SUFFICES ASSUME RunnerInv, NEW s \in Suites
               PROVE  /\ \A i, j \in DOMAIN reported[s] :
                            reported[s][i] = reported[s][j] => i = j
                      /\ \A t \in Told(s) : t \in SuiteTrials(s) /\ trial[t] = "over"
                      /\ stream[s] = "done" => Told(s) = SuiteTrials(s)
    BY DEF StreamTellsAll
  <2>1. Yielded(s) /\ (stream[s] = "done" => Told(s) = SuiteTrials(s))
    BY DEF RunnerInv, Streams
  <2> QED BY <2>1 DEF Yielded, Told
<1> QED BY <1>1, RunnerInvariant, PTL

(* A trial starts only below the limit of the moment (runner.py:25-27).     *)
THEOREM StartsRespectTheLimit == Spec => NewTrialsRespectTheLimit
<1> DEFINE Respected ==
             \A t \in Trials : t \in Running' \ Running => Cardinality(Running') <= value'
<1>1. RunnerInv /\ RunnerInv' /\ [Next]_vars => [Respected]_vars
  <2> SUFFICES ASSUME RunnerInv, RunnerInv', [Next]_vars,
                      NEW t \in Trials, t \in Running' \ Running
               PROVE  Cardinality(Running') <= value'
    OBVIOUS
  <2>1. allocated' = Cardinality(Running') /\ TypeOK
    BY DEF RunnerInv, Slots, SlotsAccounted
  <2>2. trial'[t] = "running" /\ trial[t] # "running"
    BY DEF Running
  <2>3. PICK u \in Trials : StartTrial(u)
    <3>1. ASSUME NEW s \in Suites, NEW results \in [SuiteTrials(s) -> HarnessResults],
                 RunTaskSuite(s, results)
          PROVE  FALSE
      BY <2>2, <3>1 DEF RunTaskSuite
    <3>2. ASSUME NEW s \in Suites, \/ StreamSuiteEvaluation(s) \/ HarnessRaises(s)
                                   \/ Disconnect(s) \/ NextFuture(s) \/ SendDone(s)
          PROVE  FALSE
      BY <2>2, <3>2 DEF StreamSuiteEvaluation, HarnessRaises, Disconnect, NextFuture, SendDone
    <3>3. ASSUME NEW u \in Trials, ParkTrial(u) PROVE FALSE
      BY <2>1, <2>2, <3>3 DEF ParkTrial, TypeOK
    <3>4. ASSUME NEW u \in Trials, NEW end \in {"over", "raised"}, EndTrial(u, end) PROVE FALSE
      BY <2>1, <2>2, <3>4, Ended
    <3>5. CASE UNCHANGED vars
      BY <2>2, <3>5 DEF vars
    <3> QED BY <3>1, <3>2, <3>3, <3>4, <3>5
            DEF Next, TrialStep, StreamStep, FactoryRaises, FinishTrial, GraderRaises, CrashTrial,
                LeaveTrial
  <2> QED BY <2>1, <2>3 DEF StartTrial, TypeOK
<1> QED BY <1>1, RunnerInvariant, PTL DEF Spec, NewTrialsRespectTheLimit
-----------------------------------------------------------------------------
(* Verdicts *)

(* Rounding to four decimals hides no failure in a suite of fewer than      *)
(* 20000 trials.                                                            *)
LEMMA Rounding ==
    ASSUME NEW count \in Nat, NEW passed \in Nat, 0 < count, count < 2 * One, passed <= count
    PROVE  LET rate == (2 * One * passed + count) \div (2 * count)
           IN  rate \in Int /\ rate <= One /\ (rate < One <=> passed < count)
<1> DEFINE a == 20000 * passed + count
           b == 2 * count
           q == a \div b
<1>1. a \in Nat /\ b \in Nat /\ b > 0
  OBVIOUS
<1>2. a <= 20001 * count /\ (passed = count => a = 20001 * count)
      /\ (passed < count => a < 20000 * count)
  BY DEF One
<1>3. 10000 * b = 20000 * count /\ 10001 * b = 20002 * count
  OBVIOUS
<1> HIDE DEF a, b
<1>4. q \in Int /\ b * q <= a /\ a < b * (q + 1)
  BY <1>1
<1> HIDE DEF q
<1>5. q <= 10000
  <2> SUFFICES ASSUME q >= 10001 PROVE FALSE
    BY <1>4
  <2>1. b * q >= b * 10001
    BY <1>1, <1>4
  <2> QED BY <1>1, <1>2, <1>3, <1>4, <2>1
<1>6. ASSUME passed < count PROVE q < 10000
  <2> SUFFICES ASSUME q >= 10000 PROVE FALSE
    BY <1>4
  <2>1. b * q >= b * 10000
    BY <1>1, <1>4
  <2> QED BY <1>1, <1>2, <1>3, <1>4, <1>6, <2>1
<1>7. ASSUME passed = count PROVE q >= 10000
  <2> SUFFICES ASSUME q + 1 <= 10000 PROVE FALSE
    BY <1>4
  <2>1. b * (q + 1) <= b * 10000
    BY <1>1, <1>4
  <2> QED BY <1>1, <1>2, <1>3, <1>4, <1>7, <2>1
<1> QED BY <1>4, <1>5, <1>6, <1>7 DEF q, a, b, One

(* A metric's pass rate is full exactly if every trial graded for it passed. *)
LEMMA FullRate ==
    ASSUME NEW s \in Suites, Cardinality(SuiteTrials(s)) < 2 * One, NEW metric,
           Measured(result, SuiteTrials(s), metric) # {}
    PROVE  /\ PassRate(result, SuiteTrials(s), metric) \in Int
           /\ PassRate(result, SuiteTrials(s), metric) <= One
           /\ PassRate(result, SuiteTrials(s), metric) < One <=>
                \E t \in Measured(result, SuiteTrials(s), metric) : metric \notin result[t].passed
<1> DEFINE all    == Measured(result, SuiteTrials(s), metric)
           good   == {t \in all : metric \in result[t].passed}
           count  == Cardinality(all)
           passed == Cardinality(good)
<1>1. One \in Nat
  BY DEF One
<1>2. IsFiniteSet(all) /\ count \in Nat /\ count <= Cardinality(SuiteTrials(s))
  BY SuiteFinite, FS_Subset, FS_CardinalityType DEF Measured
<1>3. count # 0
  BY <1>2, FS_EmptySet
<1>4. passed \in Nat /\ passed <= count /\ (passed = count => good = all)
  BY <1>2, FS_Subset, FS_CardinalityType
<1>5. good = all <=> ~\E t \in all : metric \notin result[t].passed
  OBVIOUS
<1>6. passed = count <=> good = all
  BY <1>4
<1>7. PassRate(result, SuiteTrials(s), metric) = (2 * One * passed + count) \div (2 * count)
  BY DEF PassRate
<1> HIDE DEF count, passed
<1>8. 0 < count /\ count < 2 * One
  BY <1>1, <1>2, <1>3, SuiteFinite
<1>9. /\ PassRate(result, SuiteTrials(s), metric) \in Int
      /\ PassRate(result, SuiteTrials(s), metric) <= One
      /\ PassRate(result, SuiteTrials(s), metric) < One <=> passed < count
  BY <1>2, <1>4, <1>7, <1>8, Rounding
<1>10. passed < count <=> passed # count
  BY <1>2, <1>4
<1> QED BY <1>5, <1>6, <1>9, <1>10

(* A trial that is over has no grades only if it crashed, and then no judge *)
(* takes it for passed.                                                     *)
LEMMA JudgesAgree ==
    ASSUME Graded, NEW t \in Trials, trial[t] = "over"
    PROVE  /\ AllPassed(result[t]) <=> IsSuccess(result[t])
           /\ AllPassed(result[t]) <=> FailureEpisode(result[t]) = "none"
<1>1. AllPassed(result[t]) <=> IsSuccess(result[t])
  <2>1. CASE result[t] = CrashedResult
    BY <2>1 DEF CrashedResult, AllPassed, IsSuccess
  <2>2. CASE \E run \in Outcomes : result[t] = RunnerResult(run)
    BY <2>2 DEF RunnerResult, AllPassed, IsSuccess, RunnerMetrics
  <2>3. CASE result[t] \in HarnessResults
    <3>1. result[t].graded # {}
      BY <2>3 DEF HarnessResults, HarnessCrash, HarnessResult, HarnessMetrics
    <3> QED BY <3>1 DEF AllPassed, IsSuccess
  <2> QED BY <2>1, <2>2, <2>3 DEF Graded, Judged
<1>2. IsSuccess(result[t]) <=> FailureEpisode(result[t]) = "none"
  BY DEF FailureEpisode
<1> QED BY <1>1, <1>2

(* The judges agree on a suite, streamed or run by the harness, as long as  *)
(* rounding hides nothing.  What a report says of a hard metric that no     *)
(* trial was graded for is left open (runner.py:115, harness.py:109,        *)
(* skills_tracker.py:28-46, regression.py:64-78).                           *)
THEOREM JudgesAlwaysAgree ==
    ASSUME \A s \in Suites : Cardinality(SuiteTrials(s)) < 2 * One
    PROVE  Spec => []VerdictsAgree
<1>1. ASSUME RunnerInv, NEW s \in Suites,
             NEW t \in SuiteTrials(s), trial[t] = "over"
      PROVE  /\ AllPassed(result[t]) <=> FailureEpisode(result[t]) = "none"
             /\ AllPassed(result[t]) <=> IsSuccess(result[t])
  BY <1>1, JudgesAgree DEF RunnerInv, SuiteTrials
<1>2. ASSUME RunnerInv, NEW s \in Suites, Collected(s)
      PROVE  \A t \in SuiteTrials(s) : trial[t] = "over"
  <2>1. CASE stream[s] = "done"
    BY <2>1, <1>2 DEF RunnerInv, Streams, Yielded, Told
  <2>2. CASE stream[s] = "collected"
    BY <2>2, <1>2 DEF RunnerInv, Untouched
  <2> QED BY <1>2, <2>1, <2>2 DEF Collected
<1>3. ASSUME RunnerInv, NEW s \in Suites, Collected(s),
             SkillsKept(result, SkillTrials(s)),
             NEW skill \in DOMAIN BaselineSkills, BaselineSkills[skill] = 100
      PROVE  /\ SkillTrials(s)[skill] # {}
             /\ \A t \in SkillTrials(s)[skill] : AllPassed(result[t])
  <2> DEFINE trials == SkillTrials(s)[skill]
             passed == {t \in trials : IsSuccess(result[t])}
  <2>1. trials \subseteq SuiteTrials(s)
    BY DEF SkillTrials
  <2> HIDE DEF trials
  <2>2. IsFiniteSet(trials) /\ Cardinality(trials) \in Nat
    BY <2>1, SuiteFinite, FS_Subset, FS_CardinalityType
  <2>3. /\ Cardinality(passed) \in Nat
        /\ Cardinality(passed) <= Cardinality(trials)
        /\ Cardinality(trials) = Cardinality(passed) => trials = passed
    BY <2>2, FS_Subset, FS_CardinalityType
  <2>4. trials # {} /\ 100 * Cardinality(passed) >= BaselineSkills[skill] * Cardinality(trials)
    BY <1>3 DEF SkillsKept, trials
  <2>5. Cardinality(passed) = Cardinality(trials)
    <3> HIDE DEF passed
    <3>1. 100 * Cardinality(passed) >= 100 * Cardinality(trials)
      BY <1>3, <2>4
    <3> QED BY <2>2, <2>3, <3>1
  <2>6. \A t \in trials : IsSuccess(result[t])
    BY <2>3, <2>5
  <2>7. \A t \in trials : AllPassed(result[t])
    BY <1>1, <1>2, <1>3, <2>1, <2>6
  <2> QED BY <2>4, <2>7 DEF trials
<1>4. ASSUME NEW s \in Suites, NEW baseline \in Suites
      PROVE  RegressionDetected(result, SuiteTrials(baseline), SuiteTrials(s)) <=>
               \E metric \in HardMetrics, t \in SuiteTrials(s) :
                   metric \in result[t].graded \ result[t].passed
  <2> DEFINE Rate(suite, metric) == PassRate(result, SuiteTrials(suite), metric)
             Graders(suite, metric) == Measured(result, SuiteTrials(suite), metric)
  <2>1. ASSUME NEW suite \in Suites, NEW metric, Graders(suite, metric) # {}
        PROVE  /\ Rate(suite, metric) \in Int /\ Rate(suite, metric) <= One
               /\ Rate(suite, metric) < One <=>
                    \E t \in Graders(suite, metric) : metric \notin result[t].passed
    BY <2>1, FullRate
  <2> HIDE DEF Rate
  <2>2. ASSUME NEW metric \in HardMetrics, Graders(s, metric) # {},
               \/ Graders(baseline, metric) # {} /\ Rate(s, metric) < Rate(baseline, metric)
               \/ Rate(s, metric) < One
        PROVE  Rate(s, metric) < One
    <3>1. Rate(s, metric) \in Int
      BY <2>1, <2>2
    <3>2. CASE Graders(baseline, metric) # {} /\ Rate(s, metric) < Rate(baseline, metric)
      <4>1. Rate(baseline, metric) \in Int /\ Rate(baseline, metric) <= One
        BY <2>1, <3>2
      <4>2. One \in Int
        BY DEF One
      <4> HIDE DEF Graders
      <4> QED BY <3>1, <3>2, <4>1, <4>2
    <3> QED BY <2>2, <3>2
  <2>3. ASSUME NEW metric \in HardMetrics,
               \E t \in SuiteTrials(s) : metric \in result[t].graded \ result[t].passed
        PROVE  Graders(s, metric) # {} /\ Rate(s, metric) < One
    <3>1. \E t \in Graders(s, metric) : metric \notin result[t].passed
      BY <2>3 DEF Measured
    <3> QED BY <2>1, <3>1
  <2>4. ASSUME NEW metric \in HardMetrics, Graders(s, metric) # {}, Rate(s, metric) < One
        PROVE  \E t \in SuiteTrials(s) : metric \in result[t].graded \ result[t].passed
    <3>1. \E t \in Graders(s, metric) : metric \notin result[t].passed
      BY <2>1, <2>4
    <3> QED BY <3>1 DEF Measured
  <2>5. RegressionDetected(result, SuiteTrials(baseline), SuiteTrials(s)) <=>
          \E metric \in HardMetrics :
            /\ Graders(s, metric) # {}
            /\ \/ Graders(baseline, metric) # {} /\ Rate(s, metric) < Rate(baseline, metric)
               \/ Rate(s, metric) < One
    BY DEF RegressionDetected, Rate
  <2> HIDE DEF Graders
  <2> QED BY <2>2, <2>3, <2>4, <2>5
<1>5. RunnerInv => VerdictsAgree
  <2> SUFFICES ASSUME RunnerInv PROVE VerdictsAgree
    OBVIOUS
  <2> HIDE DEF RunnerInv
  <2> QED BY <1>1, <1>2, <1>3, <1>4 DEF VerdictsAgree
<1> QED BY <1>5, RunnerInvariant, PTL
=============================================================================
