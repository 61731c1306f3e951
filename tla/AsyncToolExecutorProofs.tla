---------------------- MODULE AsyncToolExecutorProofs ----------------------
(***************************************************************************)
(* Proofs about the tool executor, for every number of slots, threads,     *)
(* calls, batches and operations.                                          *)
(***************************************************************************)
EXTENDS AsyncToolExecutor, FiniteSetTheorems, WellFoundedInduction, TLAPS

TaskStates == {"absent", "created", "waiting", "granted", "running"} \cup Settled

LEMMA CallNumbersFinite ==
    /\ CallNumbers \subseteq Nat
    /\ \A S \in SUBSET CallNumbers : IsFiniteSet(S) /\ Cardinality(S) \in Nat
<1>1. CallNumbers \subseteq Nat /\ IsFiniteSet(CallNumbers)
  BY CallBoundAssumption, FS_Interval DEF CallNumbers
<1>2. ASSUME NEW S \in SUBSET CallNumbers
      PROVE  IsFiniteSet(S) /\ Cardinality(S) \in Nat
  BY <1>1, FS_Subset, FS_CardinalityType
<1> QED BY <1>1, <1>2

(* A set of calls that is not empty has a first one. *)
LEMMA FirstIsMember ==
    ASSUME NEW S \in SUBSET CallNumbers, S # {}
    PROVE  Min(S) \in S
<1>1. S \subseteq Nat
  BY CallNumbersFinite
<1>2. PICK x \in S : \A y \in S : <<y, x>> \notin OpToRel(<, Nat)
  BY <1>1, NatLessThanWellFounded, WFMin
<1>3. \A y \in S : x <= y
  <2> SUFFICES ASSUME NEW y \in S, y < x PROVE FALSE
    BY <1>1
  <2>1. <<y, x>> \in Nat \X Nat /\ <<y, x>>[1] < <<y, x>>[2]
    BY <1>1
  <2> QED BY <1>2, <2>1 DEF OpToRel
<1> QED BY <1>2, <1>3 DEF Min

(* Taking a slot, or giving it back, changes the number of holders by one. *)
LEMMA SlotTaken ==
    ASSUME NEW tasks \in [CallNumbers -> TaskStates], NEW c \in CallNumbers,
           tasks[c] \notin {"granted", "running"}, NEW state \in {"granted", "running"}
    PROVE  /\ Cardinality(Holders(tasks)) \in Nat
           /\ Cardinality(Holders([tasks EXCEPT ![c] = state])) = Cardinality(Holders(tasks)) + 1
<1>1. IsFiniteSet(Holders(tasks)) /\ Cardinality(Holders(tasks)) \in Nat
  BY CallNumbersFinite DEF Holders
<1>2. Holders([tasks EXCEPT ![c] = state]) = Holders(tasks) \cup {c}
  BY DEF Holders
<1>3. c \notin Holders(tasks)
  BY DEF Holders
<1> QED BY <1>1, <1>2, <1>3, FS_AddElement

LEMMA SlotLeft ==
    ASSUME NEW tasks \in [CallNumbers -> TaskStates], NEW c \in CallNumbers,
           tasks[c] \in {"granted", "running"}, NEW state, state \notin {"granted", "running"}
    PROVE  /\ Cardinality(Holders(tasks)) \in Nat
           /\ Cardinality(Holders([tasks EXCEPT ![c] = state])) = Cardinality(Holders(tasks)) - 1
<1>1. IsFiniteSet(Holders(tasks)) /\ Cardinality(Holders(tasks)) \in Nat
  BY CallNumbersFinite DEF Holders
<1>2. Holders([tasks EXCEPT ![c] = state]) = Holders(tasks) \ {c}
  BY DEF Holders
<1>3. c \in Holders(tasks)
  BY DEF Holders
<1> QED BY <1>1, <1>2, <1>3, FS_RemoveElement

(* Passing a free slot on to the first waiting task, if there is one, keeps *)
(* the sum of slots and holders, touches no other task, and leaves a task   *)
(* that is about to run unless it leaves no free slot or nobody waiting.    *)
LEMMA WakeUp ==
    ASSUME NEW tasks \in [CallNumbers -> TaskStates], NEW slots \in Nat
    PROVE  LET w == Woken(tasks, slots)
           IN  /\ w = [task |-> w.task, free |-> w.free]
               /\ w.task \in [CallNumbers -> TaskStates]
               /\ w.free \in Nat
               /\ w.free + Cardinality(Holders(w.task)) = slots + Cardinality(Holders(tasks))
               /\ \A c \in CallNumbers :
                    \/ w.task[c] = tasks[c]
                    \/ tasks[c] = "waiting" /\ w.task[c] = "granted" /\ c \notin cancelling
               /\ slots > 0 /\ Waiting(tasks) # {} =>
                    \E c \in CallNumbers : w.task[c] = "granted"
<1> DEFINE w == Woken(tasks, slots)
           first == Min(Waiting(tasks))
<1>1. CASE slots > 0 /\ Waiting(tasks) # {}
  <2>1. w = [task |-> [tasks EXCEPT ![first] = "granted"], free |-> slots - 1]
    BY <1>1 DEF Woken
  <2>2. first \in Waiting(tasks)
    BY <1>1, FirstIsMember DEF Waiting
  <2>3. first \in CallNumbers /\ tasks[first] = "waiting" /\ first \notin cancelling
    BY <2>2 DEF Waiting
  <2> HIDE DEF first
  <2>4. /\ w.task = [tasks EXCEPT ![first] = "granted"] /\ w.free = slots - 1
        /\ w = [task |-> w.task, free |-> w.free]
    BY <2>1
  <2> HIDE DEF w
  <2>5. w.task \in [CallNumbers -> TaskStates] /\ w.free \in Nat
    <3>1. "granted" \in TaskStates
      BY DEF TaskStates
    <3>2. w.task \in [CallNumbers -> TaskStates]
      BY <2>4, <3>1
    <3>3. w.free \in Nat
      BY <1>1, <2>4
    <3> QED BY <3>2, <3>3
  <2>6. Cardinality(Holders(w.task)) = Cardinality(Holders(tasks)) + 1
        /\ Cardinality(Holders(tasks)) \in Nat
    BY <2>3, <2>4, SlotTaken
  <2>7. w.free + Cardinality(Holders(w.task)) = slots + Cardinality(Holders(tasks))
    BY <2>4, <2>6
  <2>8. \A c \in CallNumbers :
           \/ w.task[c] = tasks[c]
           \/ tasks[c] = "waiting" /\ w.task[c] = "granted" /\ c \notin cancelling
    BY <2>3, <2>4
  <2>9. \E c \in CallNumbers : w.task[c] = "granted"
    BY <2>3, <2>4
  <2> QED BY <2>4, <2>5, <2>7, <2>8, <2>9 DEF w
<1>2. CASE ~(slots > 0 /\ Waiting(tasks) # {})
  <2>1. w = [task |-> tasks, free |-> slots]
    BY <1>2 DEF Woken
  <2> QED BY <1>2, <2>1
<1> QED BY <1>1, <1>2

(* What a step leaves behind that moves one task and passes slots on *)
Moved(c, end) ==
    /\ task' \in [CallNumbers -> TaskStates] /\ task'[c] = end
    /\ \A d \in CallNumbers \ {c} :
         \/ task'[d] = task[d]
         \/ task[d] = "waiting" /\ task'[d] = "granted" /\ d \notin cancelling
    /\ free' \in Nat /\ SlotsAccounted' /\ NoLostWakeup'

(* What the event loop does to a task that has its slot or gives it back: it *)
(* goes on to the pool, is done with its result, or leaves after a timeout. *)
TaskMove(c) ==
    \E end \in {"running", "done", "cancelled"},
      th \in Finished \cup InTool \cup {"none", "queued"}, res \in Finished \cup {"none"} :
        /\ Moved(c, end) /\ task[c] \notin Settled \cup {"absent"}
        /\ cancelling' = cancelling \ {c}
        /\ thread' = [thread EXCEPT ![c] = th] /\ result' = [result EXCEPT ![c] = res]
        /\ UNCHANGED <<calls, answers, seen_operations>>
        /\ th = thread[c] \/ {th, thread[c]} \subseteq {"none", "queued"}
        /\ th = "queued" => end = "running"
        /\ th # "none" => request[c].tool # "unknown"
        /\ end = "done" => IF request[c].tool = "unknown" THEN res = "unknown_tool"
                           ELSE th \in Finished /\ res = th
        /\ end = "cancelled" => answers[batch[c]] = "timing_out"

LEMMA TaskMoves ==
    ASSUME NEW c \in CallNumbers, NEW end \in {"running", "done", "cancelled"},
           NEW th \in Finished \cup InTool \cup {"none", "queued"},
           NEW res \in Finished \cup {"none"},
           Moved(c, end), task[c] \notin Settled \cup {"absent"},
           cancelling' = cancelling \ {c},
           thread' = [thread EXCEPT ![c] = th], result' = [result EXCEPT ![c] = res],
           UNCHANGED <<calls, answers, seen_operations>>,
           th = thread[c] \/ {th, thread[c]} \subseteq {"none", "queued"},
           th = "queued" => end = "running",
           th # "none" => request[c].tool # "unknown",
           end = "done" => IF request[c].tool = "unknown" THEN res = "unknown_tool"
                           ELSE th \in Finished /\ res = th,
           end = "cancelled" => answers[batch[c]] = "timing_out"
    PROVE  TaskMove(c)
BY DEF TaskMove

LEMMA TaskMoveInv ==
    ASSUME ExecutorInv, NEW c \in CallNumbers, TaskMove(c)
    PROVE  ExecutorInv'
<1>0. PICK end \in {"running", "done", "cancelled"},
           th \in Finished \cup InTool \cup {"none", "queued"}, res \in Finished \cup {"none"} :
        /\ Moved(c, end) /\ task[c] \notin Settled \cup {"absent"}
        /\ cancelling' = cancelling \ {c}
        /\ thread' = [thread EXCEPT ![c] = th] /\ result' = [result EXCEPT ![c] = res]
        /\ UNCHANGED <<calls, answers, seen_operations>>
        /\ th = thread[c] \/ {th, thread[c]} \subseteq {"none", "queued"}
        /\ th = "queued" => end = "running"
        /\ th # "none" => request[c].tool # "unknown"
        /\ end = "done" => IF request[c].tool = "unknown" THEN res = "unknown_tool"
                           ELSE th \in Finished /\ res = th
        /\ end = "cancelled" => answers[batch[c]] = "timing_out"
  BY Zenon DEF TaskMove
<1>1. UNCHANGED <<request, batch, submitted, answers, seen_operations>>
  BY <1>0 DEF calls
<1>2. /\ task \in [CallNumbers -> TaskStates] /\ task' \in [CallNumbers -> TaskStates]
      /\ thread \in [CallNumbers -> Finished \cup InTool \cup {"none", "queued"}]
      /\ result \in [CallNumbers -> Finished \cup {"none"}]
  BY <1>0 DEF ExecutorInv, TypeOK, Moved, TaskStates
<1>3. TypeOK'
  <2>1. thread' \in [CallNumbers -> Finished \cup InTool \cup {"none", "queued"}]
        /\ result' \in [CallNumbers -> Finished \cup {"none"}]
    BY <1>0, <1>2
  <2>2. free' \in 0..MaxConcurrency
    <3>1. Holders(task') \in SUBSET CallNumbers
      BY DEF Holders
    <3>2. Cardinality(Holders(task')) \in Nat
      BY <3>1, CallNumbersFinite
    <3> QED BY <1>0, <3>2, ConcurrencyAssumption DEF Moved, SlotsAccounted
  <2>3. task' \in [CallNumbers -> {"absent", "created", "waiting", "granted", "running"}
                                    \cup Settled]
    BY <1>2 DEF TaskStates
  <2> QED BY <1>0, <1>1, <2>1, <2>2, <2>3 DEF ExecutorInv, TypeOK
<1>4. /\ \A d \in CallNumbers \ {c} : thread'[d] = thread[d] /\ result'[d] = result[d]
      /\ thread'[c] = th /\ result'[c] = res /\ task'[c] = end
  BY <1>0, <1>2 DEF Moved
<1>5. \A d \in CallNumbers \ {c} :
         \/ task'[d] = task[d]
         \/ task[d] = "waiting" /\ task'[d] = "granted" /\ d \notin cancelling
  BY <1>0 DEF Moved
<1>6. Submission'
  BY <1>0, <1>1, <1>4, <1>5 DEF ExecutorInv, Submission, Settled
<1>7. ThreadOwnership'
  <2> SUFFICES ASSUME NEW d \in CallNumbers
               PROVE  /\ task'[d] \in {"absent", "created", "waiting", "granted"} => thread'[d] = "none"
                      /\ thread'[d] = "queued" => task'[d] = "running"
                      /\ thread'[d] # "none" => request'[d].tool # "unknown"
                      /\ thread'[d] \in {"checked", "committed", "skipped"} =>
                           request'[d].tool = "write_run_marker"
                      /\ task'[d] = "done" =>
                           IF request'[d].tool = "unknown" THEN result'[d] = "unknown_tool"
                           ELSE thread'[d] \in Finished /\ result'[d] = thread'[d]
    BY DEF ThreadOwnership
  <2>1. CASE d # c
    BY <1>1, <1>4, <1>5, <2>1 DEF ExecutorInv, ThreadOwnership
  <2>2. CASE d = c
    BY <1>0, <1>1, <1>4, <2>2 DEF ExecutorInv, ThreadOwnership
  <2> QED BY <2>1, <2>2
<1>8. Cancellation'
  <2>1. \A d \in cancelling' : task'[d] \notin Settled \cup {"absent"}
                                 /\ answers'[batch'[d]] = "timing_out"
    BY <1>0, <1>1, <1>5 DEF ExecutorInv, TypeOK, Cancellation, Settled
  <2>2. ASSUME NEW d \in CallNumbers, task'[d] # "absent"
        PROVE  /\ task'[d] = "cancelled" => answers'[batch'[d]] \in {"timing_out", "timeout"}
               /\ answers'[batch'[d]] = "results" => task'[d] = "done"
               /\ answers'[batch'[d]] = "timeout" => task'[d] \in Settled
    <3>1. CASE d # c
      BY <1>1, <1>5, <2>2, <3>1 DEF ExecutorInv, Cancellation, Settled
    <3>2. CASE d = c
      BY <1>0, <1>1, <1>4, <3>2 DEF ExecutorInv, Cancellation, Settled
    <3> QED BY <3>1, <3>2
  <2> QED BY <2>1, <2>2 DEF Cancellation
<1>9. SkippedOnlyIfCommitted'
  <2>1. \A d \in CallNumbers : /\ thread'[d] = "committed" <=> thread[d] = "committed"
                               /\ thread'[d] = "skipped" <=> thread[d] = "skipped"
    BY <1>0, <1>4
  <2>2. \A o \in Operations : CommitsOf(o)' = CommitsOf(o)
    BY <1>1, <2>1 DEF CommitsOf
  <2> QED BY <1>1, <2>1, <2>2 DEF ExecutorInv, SkippedOnlyIfCommitted
<1> QED BY <1>0, <1>3, <1>6, <1>7, <1>8, <1>9 DEF ExecutorInv, Moved

(* Giving a slot back moves the task that had it; it may have been handed   *)
(* to the task in the same step.                                            *)
LEMMA SlotGivenBack ==
    ASSUME ExecutorInv, NEW c \in CallNumbers, NEW end \in {"done", "cancelled"},
           NEW tasks \in [CallNumbers -> TaskStates], NEW slots \in Nat,
           tasks[c] \in {"granted", "running"},
           slots + Cardinality(Holders(tasks)) = MaxConcurrency,
           \A d \in CallNumbers \ {c} :
             \/ tasks[d] = task[d]
             \/ task[d] = "waiting" /\ tasks[d] = "granted" /\ d \notin cancelling,
           cancelling' = cancelling \ {c},
           Set(Woken([tasks EXCEPT ![c] = end], slots + 1))
    PROVE  Moved(c, end)
<1> DEFINE left == [tasks EXCEPT ![c] = end]
           w == Woken(left, slots + 1)
<1>1. end \in TaskStates /\ end \notin {"granted", "running"} /\ cancelling \subseteq CallNumbers
  BY DEF ExecutorInv, TypeOK, TaskStates, Settled
<1>2. left \in [CallNumbers -> TaskStates] /\ left[c] = end
      /\ \A d \in CallNumbers \ {c} : left[d] = tasks[d]
  BY <1>1
<1>3. /\ Cardinality(Holders(left)) = Cardinality(Holders(tasks)) - 1
      /\ Cardinality(Holders(tasks)) \in Nat
  BY <1>1, SlotLeft
<1>4. task' = w.task /\ free' = w.free
  BY DEF Set
<1> HIDE DEF left
<1>5. /\ w.task \in [CallNumbers -> TaskStates] /\ w.free \in Nat
      /\ w.free + Cardinality(Holders(w.task)) = slots + 1 + Cardinality(Holders(left))
      /\ \A d \in CallNumbers :
           \/ w.task[d] = left[d]
           \/ left[d] = "waiting" /\ w.task[d] = "granted" /\ d \notin cancelling
      /\ slots + 1 > 0 /\ Waiting(left) # {} => \E d \in CallNumbers : w.task[d] = "granted"
  BY <1>2, WakeUp
<1> HIDE DEF w
<1>6. SlotsAccounted'
  <2>1. Holders(task)' = Holders(w.task)
    BY <1>4 DEF Holders
  <2> QED BY <1>3, <1>4, <1>5, <2>1 DEF SlotsAccounted
<1>7. NoLostWakeup'
  <2> SUFFICES ASSUME NEW d \in Waiting(task)'
               PROVE  \E e \in CallNumbers : task'[e] = "granted"
    BY DEF NoLostWakeup
  <2>1. d \in CallNumbers /\ d \notin cancelling' /\ task'[d] = "waiting"
    BY DEF Waiting
  <2>2. d # c /\ left[d] = "waiting"
    BY <1>2, <1>4, <1>5, <2>1
  <2>3. d \in Waiting(left)
    BY <2>1, <2>2 DEF Waiting
  <2> QED BY <1>4, <1>5, <2>3
<1>8. \A d \in CallNumbers \ {c} :
         \/ task'[d] = task[d]
         \/ task[d] = "waiting" /\ task'[d] = "granted" /\ d \notin cancelling
  BY <1>2, <1>4, <1>5
<1>9. task'[c] = end
  BY <1>2, <1>4, <1>5
<1> QED BY <1>4, <1>5, <1>6, <1>7, <1>8, <1>9 DEF Moved

LEMMA GiveBackMoves ==
    ASSUME ExecutorInv, NEW c \in CallNumbers, NEW end \in {"done", "cancelled"},
           task[c] \in {"granted", "running"}, cancelling' = cancelling \ {c},
           GiveBack(c, end)
    PROVE  Moved(c, end)
<1>1. /\ task \in [CallNumbers -> TaskStates] /\ free \in Nat
      /\ free + Cardinality(Holders(task)) = MaxConcurrency
  BY DEF ExecutorInv, TypeOK, TaskStates, SlotsAccounted
<1>2. Set(Woken([task EXCEPT ![c] = end], free + 1))
  BY DEF GiveBack
<1> QED BY <1>1, <1>2, SlotGivenBack

(* A task that has its slot hands the tool to the pool, or, when there is   *)
(* no such tool, is done.                                                   *)
LEMMA ProceedMoves ==
    ASSUME ExecutorInv, NEW c \in CallNumbers,
           NEW tasks \in [CallNumbers -> TaskStates], NEW slots \in Nat,
           tasks[c] = "running", slots + Cardinality(Holders(tasks)) = MaxConcurrency,
           \A d \in CallNumbers \ {c} :
             \/ tasks[d] = task[d]
             \/ task[d] = "waiting" /\ tasks[d] = "granted" /\ d \notin cancelling,
           slots > 0 /\ Waiting(tasks) # {} => \E d \in CallNumbers : tasks[d] = "granted",
           task[c] \in {"created", "granted"}, c \notin cancelling,
           Proceed(c, [task |-> tasks, free |-> slots])
    PROVE  TaskMove(c)
<1>1. UNCHANGED <<calls, cancelling, answers, seen_operations>> /\ cancelling' = cancelling \ {c}
  <2>1. UNCHANGED <<calls, cancelling, answers, seen_operations>>
    BY Zenon DEF Proceed
  <2> QED BY <2>1
<1>2. /\ thread \in [CallNumbers -> Finished \cup InTool \cup {"none", "queued"}]
      /\ result \in [CallNumbers -> Finished \cup {"none"}]
      /\ thread[c] = "none" /\ task[c] \notin Settled \cup {"absent"}
  BY DEF ExecutorInv, TypeOK, ThreadOwnership, Settled
<1>3. CASE request[c].tool = "unknown"
  <2>1. /\ result' = [result EXCEPT ![c] = "unknown_tool"] /\ thread' = [thread EXCEPT ![c] = "none"]
        /\ Set(Woken([tasks EXCEPT ![c] = "done"], slots + 1))
    BY <1>2, <1>3 DEF Proceed
  <2>2. Moved(c, "done")
    BY <1>1, <2>1, SlotGivenBack
  <2>3. "unknown_tool" \in Finished \cup {"none"}
    BY DEF Finished, ToolErrors
  <2> QED BY <1>1, <1>2, <1>3, <2>1, <2>2, <2>3, TaskMoves
<1>4. CASE request[c].tool # "unknown"
  <2>1. /\ task' = tasks /\ free' = slots
        /\ thread' = [thread EXCEPT ![c] = "queued"] /\ result' = [result EXCEPT ![c] = result[c]]
    BY <1>2, <1>4 DEF Proceed, Set
  <2>2. Moved(c, "running")
    <3>1. SlotsAccounted'
      <4>1. Holders(task)' = Holders(tasks)
        BY <2>1 DEF Holders
      <4> QED BY <2>1, <4>1 DEF SlotsAccounted
    <3>2. NoLostWakeup'
      <4>1. Waiting(task)' = Waiting(tasks)
        BY <1>1, <2>1 DEF Waiting
      <4> QED BY <2>1, <4>1 DEF NoLostWakeup
    <3> QED BY <2>1, <3>1, <3>2 DEF Moved
  <2>3. result[c] \in Finished \cup {"none"}
    BY <1>2
  <2> QED BY <1>1, <1>2, <1>4, <2>1, <2>2, <2>3, TaskMoves
<1> QED BY <1>3, <1>4

LEMMA EnterMoves ==
    ASSUME ExecutorInv, NEW c \in CallNumbers, Enter(c)
    PROVE  TaskMove(c)
<1> DEFINE tasks == [task EXCEPT ![c] = "running"]
<1>1. /\ task[c] = "created" /\ c \notin cancelling /\ ~Locked
      /\ Proceed(c, [task |-> tasks, free |-> free - 1])
  BY Zenon DEF Enter, FirstStep
<1>2. /\ task \in [CallNumbers -> TaskStates] /\ free \in Nat
      /\ free + Cardinality(Holders(task)) = MaxConcurrency /\ "running" \in TaskStates
  BY DEF ExecutorInv, TypeOK, TaskStates, SlotsAccounted
<1>3. free - 1 \in Nat /\ Waiting(task) = {}
  BY <1>1, <1>2 DEF Locked
<1>4. /\ tasks \in [CallNumbers -> TaskStates] /\ tasks[c] = "running"
      /\ \A d \in CallNumbers \ {c} : tasks[d] = task[d]
  BY <1>2
<1>5. free - 1 + Cardinality(Holders(tasks)) = MaxConcurrency
  <2>1. /\ Cardinality(Holders(tasks)) = Cardinality(Holders(task)) + 1
        /\ Cardinality(Holders(task)) \in Nat
    BY <1>1, <1>2, SlotTaken
  <2> HIDE DEF tasks
  <2> QED BY <1>2, <2>1
<1>6. Waiting(tasks) = {}
  BY <1>3, <1>4 DEF Waiting
<1> HIDE DEF tasks
<1> QED BY <1>1, <1>3, <1>4, <1>5, <1>6, ProceedMoves

LEMMA ResumeMoves ==
    ASSUME ExecutorInv, NEW c \in CallNumbers, Resume(c)
    PROVE  TaskMove(c)
<1> DEFINE running == [task EXCEPT ![c] = "running"]
           w == Woken(running, free)
<1>1. task[c] = "granted" /\ c \notin cancelling /\ Proceed(c, w)
  BY Zenon DEF Resume
<1>2. /\ task \in [CallNumbers -> TaskStates] /\ free \in Nat
      /\ free + Cardinality(Holders(task)) = MaxConcurrency /\ "running" \in TaskStates
  BY DEF ExecutorInv, TypeOK, TaskStates, SlotsAccounted
<1>3. /\ running \in [CallNumbers -> TaskStates] /\ running[c] = "running"
      /\ \A d \in CallNumbers \ {c} : running[d] = task[d]
  BY <1>2
<1>4. Holders(running) = Holders(task)
  BY <1>1, <1>2 DEF Holders
<1> HIDE DEF running
<1>5. /\ w = [task |-> w.task, free |-> w.free]
      /\ w.task \in [CallNumbers -> TaskStates] /\ w.free \in Nat
      /\ w.free + Cardinality(Holders(w.task)) = MaxConcurrency
      /\ \A d \in CallNumbers :
           \/ w.task[d] = running[d]
           \/ running[d] = "waiting" /\ w.task[d] = "granted" /\ d \notin cancelling
      /\ free > 0 /\ Waiting(running) # {} => \E d \in CallNumbers : w.task[d] = "granted"
  BY <1>2, <1>3, <1>4, WakeUp
<1>6. w.free > 0 /\ Waiting(w.task) # {} => \E d \in CallNumbers : w.task[d] = "granted"
  <2>1. w.free > 0 => free > 0
    BY <1>2 DEF Woken
  <2> HIDE DEF w
  <2>2. Waiting(w.task) \subseteq Waiting(running)
    BY <1>5 DEF Waiting
  <2> QED BY <1>5, <2>1, <2>2
<1> HIDE DEF w
<1>7. /\ w.task[c] = "running"
      /\ \A d \in CallNumbers \ {c} :
           \/ w.task[d] = task[d]
           \/ task[d] = "waiting" /\ w.task[d] = "granted" /\ d \notin cancelling
  BY <1>3, <1>5
<1>8. Proceed(c, [task |-> w.task, free |-> w.free])
  BY <1>1, <1>5, Zenon
<1> QED BY <1>1, <1>5, <1>6, <1>7, <1>8, ProceedMoves

LEMMA CompleteMoves ==
    ASSUME ExecutorInv, NEW c \in CallNumbers, Complete(c)
    PROVE  TaskMove(c)
<1>1. /\ task[c] = "running" /\ c \notin cancelling /\ thread[c] \in Finished
      /\ result' = [result EXCEPT ![c] = thread[c]] /\ GiveBack(c, "done")
      /\ UNCHANGED <<calls, cancelling, thread, answers, seen_operations>>
  BY Zenon DEF Complete
<1>2. cancelling' = cancelling \ {c} /\ Moved(c, "done")
  <2>1. cancelling' = cancelling \ {c}
    BY <1>1
  <2> QED BY <1>1, <2>1, GiveBackMoves
<1>3. thread' = [thread EXCEPT ![c] = thread[c]]
  BY <1>1 DEF ExecutorInv, TypeOK
<1>4. thread[c] # "none" => request[c].tool # "unknown"
  BY DEF ExecutorInv, ThreadOwnership
<1>5. thread[c] # "none" /\ thread[c] # "queued"
  BY <1>1 DEF Finished, ToolErrors
<1> QED BY <1>1, <1>2, <1>3, <1>4, <1>5, TaskMoves DEF Settled

LEMMA UnwindMoves ==
    ASSUME ExecutorInv, NEW c \in CallNumbers, Unwind(c)
    PROVE  TaskMove(c)
<1> DEFINE th == IF thread[c] = "queued" THEN "none" ELSE thread[c]
<1>1. /\ c \in cancelling /\ cancelling' = cancelling \ {c}
      /\ thread' = IF thread[c] = "queued" THEN [thread EXCEPT ![c] = "none"] ELSE thread
      /\ IF task[c] \in {"granted", "running"} THEN GiveBack(c, "cancelled")
         ELSE task' = [task EXCEPT ![c] = "cancelled"] /\ UNCHANGED free
      /\ UNCHANGED <<calls, result, answers, seen_operations>>
  BY Zenon DEF Unwind
<1>2. task[c] \notin Settled \cup {"absent"} /\ answers[batch[c]] = "timing_out"
  BY <1>1 DEF ExecutorInv, Cancellation
<1>3. /\ task \in [CallNumbers -> TaskStates] /\ free \in Nat
      /\ free + Cardinality(Holders(task)) = MaxConcurrency
  BY DEF ExecutorInv, TypeOK, TaskStates, SlotsAccounted
<1>4. Moved(c, "cancelled")
  <2>1. CASE task[c] \in {"granted", "running"}
    BY <1>1, <2>1, GiveBackMoves
  <2>2. CASE task[c] \notin {"granted", "running"}
    <3>1. task' = [task EXCEPT ![c] = "cancelled"] /\ free' = free
      BY <1>1, <2>2
    <3>2. "cancelled" \in TaskStates
      BY DEF TaskStates, Settled
    <3>3. /\ task' \in [CallNumbers -> TaskStates] /\ task'[c] = "cancelled"
          /\ \A d \in CallNumbers \ {c} : task'[d] = task[d]
      BY <1>3, <3>1, <3>2
    <3>4. Cardinality(Holders(task')) = Cardinality(Holders(task))
      <4>1. Holders(task') = Holders(task)
        BY <1>3, <2>2, <3>3 DEF Holders
      <4> QED BY <4>1
    <3>5. SlotsAccounted'
      <4>1. Holders(task)' = Holders(task')
        BY DEF Holders
      <4> QED BY <1>3, <3>1, <3>4, <4>1 DEF SlotsAccounted
    <3>6. NoLostWakeup'
      <4>1. Waiting(task)' \subseteq Waiting(task)
        BY <1>1, <3>3 DEF Waiting
      <4>2. \A d \in CallNumbers : task[d] = "granted" => task'[d] = "granted"
        BY <2>2, <3>3
      <4> QED BY <3>1, <4>1, <4>2 DEF ExecutorInv, NoLostWakeup
    <3> QED BY <1>3, <3>1, <3>3, <3>5, <3>6 DEF Moved
  <2> QED BY <2>1, <2>2
<1>5. /\ thread \in [CallNumbers -> Finished \cup InTool \cup {"none", "queued"}]
      /\ result \in [CallNumbers -> Finished \cup {"none"}]
  BY DEF ExecutorInv, TypeOK
<1>6. /\ thread' = [thread EXCEPT ![c] = th] /\ result' = [result EXCEPT ![c] = result[c]]
      /\ th \in Finished \cup InTool \cup {"none", "queued"} /\ th # "queued"
      /\ result[c] \in Finished \cup {"none"}
  BY <1>1, <1>5
<1>7. th # "none" => request[c].tool # "unknown"
  BY DEF ExecutorInv, ThreadOwnership
<1>8. th = thread[c] \/ {th, thread[c]} \subseteq {"none", "queued"}
  OBVIOUS
<1> HIDE DEF th
<1> QED BY <1>1, <1>2, <1>4, <1>6, <1>7, <1>8, TaskMoves

LEMMA TaskStepMoves ==
    ASSUME ExecutorInv, NEW c \in CallNumbers, TaskStep(c)
    PROVE  TaskMove(c) \/ QueueUp(c)
BY Zenon, EnterMoves, ResumeMoves, CompleteMoves, UnwindMoves DEF TaskStep

LEMMA QueueUpInv ==
    ASSUME ExecutorInv, NEW c \in CallNumbers, QueueUp(c)
    PROVE  ExecutorInv'
<1>1. /\ task[c] = "created" /\ c \notin cancelling /\ Locked
      /\ task' = [task EXCEPT ![c] = "waiting"]
      /\ UNCHANGED <<calls, cancelling, result, thread, free, answers, seen_operations>>
  BY Zenon DEF QueueUp, FirstStep
<1>2. UNCHANGED <<request, batch, submitted>>
  BY <1>1 DEF calls
<1>3. /\ task \in [CallNumbers -> TaskStates] /\ task'[c] = "waiting"
      /\ \A d \in CallNumbers \ {c} : task'[d] = task[d]
  BY <1>1 DEF ExecutorInv, TypeOK, TaskStates
<1>4. TypeOK'
  BY <1>1, <1>2 DEF ExecutorInv, TypeOK
<1>5. Submission'
  BY <1>1, <1>2, <1>3 DEF ExecutorInv, Submission
<1>6. ThreadOwnership'
  BY <1>1, <1>2, <1>3 DEF ExecutorInv, ThreadOwnership
<1>7. Cancellation'
  BY <1>1, <1>2, <1>3 DEF ExecutorInv, Cancellation, TypeOK, Settled
<1>8. SlotsAccounted'
  <2>1. Holders(task)' = Holders(task)
    BY <1>1, <1>3 DEF Holders
  <2> QED BY <1>1, <2>1 DEF ExecutorInv, SlotsAccounted
<1>9. NoLostWakeup'
  <2> SUFFICES ASSUME free > 0 PROVE \E d \in CallNumbers : task'[d] = "granted"
    BY <1>1 DEF NoLostWakeup
  <2>1. \E d \in CallNumbers : task[d] = "granted"
    BY <1>1 DEF Locked, ExecutorInv, NoLostWakeup
  <2> QED BY <1>1, <1>3, <2>1
<1>10. SkippedOnlyIfCommitted'
  BY <1>1, <1>2 DEF ExecutorInv, SkippedOnlyIfCommitted, CommitsOf
<1> QED BY <1>4, <1>5, <1>6, <1>7, <1>8, <1>9, <1>10 DEF ExecutorInv

(* A thread goes on, without the event loop noticing. *)
LEMMA ThreadInv ==
    ASSUME ExecutorInv, NEW c \in CallNumbers, NEW th \in InTool \cup Finished,
           thread[c] \in {"queued"} \cup InTool, thread' = [thread EXCEPT ![c] = th],
           th \in {"checked", "committed", "skipped"} => request[c].tool = "write_run_marker",
           UNCHANGED <<calls, task, cancelling, result, free, answers>>,
           seen_operations' \subseteq Operations, SkippedOnlyIfCommitted'
    PROVE  ExecutorInv'
<1>1. UNCHANGED <<request, batch, submitted>>
  BY DEF calls
<1>2. /\ thread \in [CallNumbers -> Finished \cup InTool \cup {"none", "queued"}]
      /\ thread[c] # "none" /\ thread[c] \notin Finished /\ th # "queued" /\ th # "none"
  BY DEF ExecutorInv, TypeOK, Finished, ToolErrors, InTool
<1>3. thread'[c] = th /\ \A d \in CallNumbers \ {c} : thread'[d] = thread[d]
  BY <1>2
<1>4. TypeOK'
  <2>1. thread' \in [CallNumbers -> Finished \cup InTool \cup {"none", "queued"}]
    BY <1>2
  <2> QED BY <1>1, <2>1 DEF ExecutorInv, TypeOK
<1>5. Submission' /\ Cancellation'
  BY <1>1 DEF ExecutorInv, Submission, Cancellation
<1>6. ThreadOwnership'
  BY <1>1, <1>2, <1>3 DEF ExecutorInv, ThreadOwnership
<1>7. SlotsAccounted' /\ NoLostWakeup'
  BY DEF ExecutorInv, SlotsAccounted, NoLostWakeup, Holders, Waiting
<1> QED BY <1>4, <1>5, <1>6, <1>7 DEF ExecutorInv

LEMMA ThreadStepInv ==
    ASSUME ExecutorInv, NEW c \in CallNumbers, ThreadStep(c)
    PROVE  ExecutorInv'
<1> USE DEF InTool, Finished, ToolErrors
<1>1. thread \in [CallNumbers -> Finished \cup InTool \cup {"none", "queued"}]
  BY DEF ExecutorInv, TypeOK
<1>2. ASSUME NEW th \in (InTool \cup Finished) \ {"committed"},
             thread[c] \in {"queued"} \cup InTool, thread' = [thread EXCEPT ![c] = th],
             th = "skipped" => request[c].operation_id \in seen_operations,
             th \in {"checked", "skipped"} => request[c].tool = "write_run_marker",
             UNCHANGED <<calls, task, cancelling, result, free, answers, seen_operations>>
      PROVE  ExecutorInv'
  <2>1. UNCHANGED <<request, seen_operations>>
    BY <1>2 DEF calls
  <2>2. thread'[c] = th /\ \A d \in CallNumbers \ {c} : thread'[d] = thread[d]
    BY <1>1, <1>2
  <2>3. \A d \in CallNumbers : thread'[d] = "committed" <=> thread[d] = "committed"
    BY <1>2, <2>2
  <2>4. \A o \in Operations : CommitsOf(o)' = CommitsOf(o)
    BY <2>1, <2>3 DEF CommitsOf
  <2>5. SkippedOnlyIfCommitted'
    BY <1>2, <2>1, <2>2, <2>4 DEF ExecutorInv, SkippedOnlyIfCommitted
  <2>6. seen_operations' \subseteq Operations
    BY <2>1 DEF ExecutorInv, TypeOK
  <2> QED BY <1>2, <2>5, <2>6, ThreadInv
<1>3. CASE StartThread(c)
  <2>1. thread[c] = "queued" /\ thread' = [thread EXCEPT ![c] = "started"]
        /\ UNCHANGED <<calls, task, cancelling, result, free, answers, seen_operations>>
    BY <1>3, Zenon DEF StartThread
  <2> QED BY <1>2, <2>1
<1>4. CASE Return(c)
  <2>1. thread[c] = "started" /\ thread' = [thread EXCEPT ![c] = "returned"]
        /\ UNCHANGED <<calls, task, cancelling, result, free, answers, seen_operations>>
    BY <1>4, Zenon DEF Return
  <2> QED BY <1>2, <2>1
<1>5. ASSUME NEW error \in ToolErrors, Raise(c, error) PROVE ExecutorInv'
  <2>1. thread[c] = "started" /\ thread' = [thread EXCEPT ![c] = error]
        /\ UNCHANGED <<calls, task, cancelling, result, free, answers, seen_operations>>
    BY <1>5, Zenon DEF Raise
  <2> QED BY <1>2, <2>1
<1>6. CASE Check(c)
  <2> DEFINE th == IF request[c].operation_id \in seen_operations THEN "skipped" ELSE "checked"
  <2>1. /\ thread[c] = "started" /\ request[c].tool = "write_run_marker"
        /\ thread' = [thread EXCEPT ![c] = th]
        /\ UNCHANGED <<calls, task, cancelling, result, free, answers, seen_operations>>
    BY <1>6, Zenon DEF Check
  <2>2. th \in {"skipped", "checked"}
        /\ (th = "skipped" => request[c].operation_id \in seen_operations)
    OBVIOUS
  <2> HIDE DEF th
  <2> QED BY <1>2, <2>1, <2>2
<1>7. CASE Commit(c)
  <2> DEFINE op == request[c].operation_id
  <2>1. /\ thread[c] = "checked" /\ thread' = [thread EXCEPT ![c] = "committed"]
        /\ seen_operations' = seen_operations \cup {op}
        /\ UNCHANGED <<calls, task, cancelling, result, free, answers>>
    BY <1>7, Zenon DEF Commit
  <2>2. request[c].tool = "write_run_marker" /\ op \in Operations
    BY <2>1 DEF ExecutorInv, ThreadOwnership, Submission
  <2>3. thread'[c] = "committed" /\ \A d \in CallNumbers \ {c} : thread'[d] = thread[d]
    BY <1>1, <2>1
  <2>4. request' = request
    BY <2>1 DEF calls
  <2>5. \A o \in Operations \ {op} : CommitsOf(o)' = CommitsOf(o)
    BY <2>1, <2>3, <2>4 DEF CommitsOf
  <2>6. c \in CommitsOf(op)'
    BY <2>3, <2>4 DEF CommitsOf
  <2>7. \A d \in CallNumbers : thread'[d] = "skipped" => thread[d] = "skipped"
    BY <2>3
  <2>8. SkippedOnlyIfCommitted'
    BY <2>1, <2>2, <2>4, <2>5, <2>6, <2>7 DEF ExecutorInv, SkippedOnlyIfCommitted
  <2>9. seen_operations' \subseteq Operations
    BY <2>1, <2>2 DEF ExecutorInv, TypeOK
  <2> QED BY <2>1, <2>2, <2>8, <2>9, ThreadInv
<1> QED BY <1>3, <1>4, <1>5, <1>6, <1>7 DEF ThreadStep

LEMMA BatchStepInv ==
    ASSUME ExecutorInv, NEW b \in BatchNumbers, BatchStep(b)
    PROVE  ExecutorInv'
<1>1. UNCHANGED <<calls, task, result, thread, free, seen_operations>>
  BY Zenon DEF BatchStep, AnswerResults, TimeOut, AnswerTimeout
<1>2. UNCHANGED <<request, batch, submitted>>
  BY <1>1 DEF calls
<1>3. /\ answers \in [BatchNumbers -> {"absent", "open", "timing_out", "results", "timeout"}]
      /\ cancelling \subseteq CallNumbers
      /\ \A c \in CallNumbers : task[c] # "absent" => batch[c] \in BatchNumbers
  BY DEF ExecutorInv, TypeOK, Submission
<1>4. PICK answer \in {"timing_out", "results", "timeout"} : answers' = [answers EXCEPT ![b] = answer]
  BY DEF BatchStep, AnswerResults, TimeOut, AnswerTimeout
<1>5. answers'[b] = answer /\ \A d \in BatchNumbers \ {b} : answers'[d] = answers[d]
  BY <1>3, <1>4
<1>6. cancelling' \subseteq CallNumbers /\ cancelling \subseteq cancelling'
  BY <1>3 DEF BatchStep, AnswerResults, TimeOut, AnswerTimeout, CallsOf
<1>7. TypeOK'
  <2>1. answers' \in [BatchNumbers -> {"absent", "open", "timing_out", "results", "timeout"}]
    BY <1>3, <1>4
  <2> QED BY <1>1, <1>2, <1>6, <2>1 DEF ExecutorInv, TypeOK
<1>8. Submission'
  BY <1>1, <1>2, <1>3, <1>5 DEF ExecutorInv, Submission
<1>9. ThreadOwnership'
  BY <1>1, <1>2 DEF ExecutorInv, ThreadOwnership
<1>10. SlotsAccounted' /\ SkippedOnlyIfCommitted'
  BY <1>1, <1>2 DEF ExecutorInv, SlotsAccounted, SkippedOnlyIfCommitted, Holders, CommitsOf
<1>11. NoLostWakeup'
  <2>1. Waiting(task)' \subseteq Waiting(task)
    BY <1>1, <1>6 DEF Waiting
  <2> QED BY <1>1, <2>1 DEF ExecutorInv, NoLostWakeup
<1>12. Cancellation'
  <2>1. CASE AnswerResults(b)
    <3>1. /\ answers[b] = "open" /\ cancelling' = cancelling /\ answers' = [answers EXCEPT ![b] = "results"]
          /\ \A c \in CallsOf(b) : task[c] = "done"
      BY <2>1, Zenon DEF AnswerResults
    <3>2. answers'[b] = "results"
      BY <1>3, <3>1
    <3>3. \A c \in CallNumbers : task[c] # "absent" /\ batch[c] = b => task[c] = "done"
      BY <3>1 DEF CallsOf
    <3>4. \A c \in cancelling : batch[c] # b /\ batch[c] \in BatchNumbers
      BY <1>3, <3>1 DEF ExecutorInv, Cancellation, Settled
    <3> QED BY <1>1, <1>2, <1>3, <1>5, <3>1, <3>2, <3>3, <3>4
            DEF ExecutorInv, Cancellation, Settled
  <2>2. CASE AnswerTimeout(b)
    <3>1. /\ answers[b] = "timing_out" /\ cancelling' = cancelling /\ answers' = [answers EXCEPT ![b] = "timeout"]
          /\ \A c \in CallsOf(b) : task[c] \in Settled
      BY <2>2, Zenon DEF AnswerTimeout
    <3>2. answers'[b] = "timeout"
      BY <1>3, <3>1
    <3>3. \A c \in CallNumbers : task[c] # "absent" /\ batch[c] = b => task[c] \in Settled
      BY <3>1 DEF CallsOf
    <3>4. \A c \in cancelling : batch[c] # b /\ batch[c] \in BatchNumbers
      BY <1>3, <3>3 DEF ExecutorInv, Cancellation
    <3> QED BY <1>1, <1>2, <1>3, <1>5, <3>1, <3>2, <3>3, <3>4
            DEF ExecutorInv, Cancellation, Settled
  <2>3. CASE TimeOut(b)
    <3>1. /\ answers[b] = "open" /\ answers' = [answers EXCEPT ![b] = "timing_out"]
          /\ cancelling' = cancelling \cup {c \in CallsOf(b) : task[c] \notin Settled}
      BY <2>3, Zenon DEF TimeOut
    <3>2. answers'[b] = "timing_out"
      BY <1>3, <3>1
    <3>3. ASSUME NEW c \in cancelling'
          PROVE  task[c] \notin Settled \cup {"absent"} /\ answers'[batch[c]] = "timing_out"
      <4>1. CASE c \in cancelling
        BY <1>3, <1>5, <3>2, <4>1 DEF ExecutorInv, Cancellation
      <4>2. CASE c \in {d \in CallsOf(b) : task[d] \notin Settled}
        BY <3>2, <4>2 DEF CallsOf
      <4> QED BY <3>1, <4>1, <4>2
    <3>4. ASSUME NEW c \in CallNumbers, task[c] # "absent"
          PROVE  /\ task[c] = "cancelled" => answers'[batch[c]] \in {"timing_out", "timeout"}
                 /\ answers'[batch[c]] = "results" => task[c] = "done"
                 /\ answers'[batch[c]] = "timeout" => task[c] \in Settled
      BY <1>3, <1>5, <3>2, <3>4 DEF ExecutorInv, Cancellation
    <3> QED BY <1>1, <1>2, <3>3, <3>4 DEF Cancellation
  <2> QED BY <2>1, <2>2, <2>3 DEF BatchStep
<1> QED BY <1>7, <1>8, <1>9, <1>10, <1>11, <1>12 DEF ExecutorInv

(* The numbers after the latest call's are free *)
LEMMA NewCalls ==
    ASSUME ExecutorInv, NEW n \in Nat, submitted + n <= MaxCalls,
           NEW c \in (submitted + 1)..(submitted + n)
    PROVE  c \in CallNumbers /\ c > submitted /\ task[c] = "absent"
<1>1. submitted \in Nat /\ MaxCalls \in Nat
  BY CallBoundAssumption DEF ExecutorInv, TypeOK
<1>2. c \in 1..MaxCalls /\ c > submitted
  BY <1>1
<1>3. c \in CallNumbers
  BY <1>2 DEF CallNumbers
<1> QED BY <1>2, <1>3 DEF ExecutorInv, Submission

LEMMA ExecuteBatchInv ==
    ASSUME ExecutorInv, NEW b \in BatchNumbers, NEW requests \in Seq(Requests),
           ExecuteBatch(b, requests)
    PROVE  ExecutorInv'
<1> DEFINE new == submitted + 1 .. submitted + Len(requests)
<1>1. /\ answers[b] = "absent" /\ submitted + Len(requests) <= MaxCalls
      /\ request' = [c \in CallNumbers |-> IF c \in new THEN requests[c - submitted] ELSE request[c]]
      /\ batch' = [c \in CallNumbers |-> IF c \in new THEN b ELSE batch[c]]
      /\ task' = [c \in CallNumbers |-> IF c \in new THEN "created" ELSE task[c]]
      /\ submitted' = submitted + Len(requests)
      /\ answers' = [answers EXCEPT ![b] = "open"]
      /\ UNCHANGED <<cancelling, result, thread, free, seen_operations>>
  BY DEF ExecuteBatch
<1>2. /\ submitted \in Nat /\ Len(requests) \in Nat /\ CallNumbers \subseteq Nat
      /\ answers \in [BatchNumbers -> {"absent", "open", "timing_out", "results", "timeout"}]
      /\ cancelling \subseteq CallNumbers
  BY CallNumbersFinite, CallBoundAssumption DEF ExecutorInv, TypeOK
<1>3. new \subseteq CallNumbers /\ \A c \in new : task[c] = "absent" /\ c > submitted
  BY <1>1, <1>2, NewCalls
<1>4. \A c \in new : requests[c - submitted] \in Requests
  <2> SUFFICES ASSUME NEW c \in new PROVE requests[c - submitted] \in Requests
    OBVIOUS
  <2>1. c - submitted \in 1..Len(requests)
    BY <1>2
  <2> QED BY <2>1
<1>5. \A r \in Requests : /\ r.tool \in {"write_run_marker", "other", "unknown"}
                          /\ r.operation_id \in Operations \cup {None}
                          /\ r.tool = "write_run_marker" => r.operation_id \in Operations
                          /\ r = [tool |-> r.tool, operation_id |-> r.operation_id]
  BY DEF Requests
<1>6. answers'[b] = "open" /\ \A d \in BatchNumbers \ {b} : answers'[d] = answers[d]
  BY <1>1, <1>2
<1>7. \A c \in CallNumbers : c > submitted + Len(requests) <=> c > submitted /\ c \notin new
  BY <1>2
<1>8. \A c \in CallNumbers : task[c] # "absent" => batch[c] \in BatchNumbers \ {b}
  BY <1>1 DEF ExecutorInv, Submission
<1> HIDE DEF new
<1>9. TypeOK'
  <2>1. request' \in [CallNumbers -> [tool : {"write_run_marker", "other", "unknown"},
                                      operation_id : Operations \cup {None}]]
    <3>1. Requests \subseteq [tool : {"write_run_marker", "other", "unknown"},
                              operation_id : Operations \cup {None}]
      BY DEF Requests
    <3> QED BY <1>1, <1>4, <3>1 DEF ExecutorInv, TypeOK
  <2>2. batch' \in [CallNumbers -> Nat]
    BY <1>1, CallBoundAssumption DEF ExecutorInv, TypeOK, BatchNumbers
  <2>3. task' \in [CallNumbers -> {"absent", "created", "waiting", "granted", "running"}
                                    \cup Settled]
    BY <1>1 DEF ExecutorInv, TypeOK
  <2>4. answers' \in [BatchNumbers -> {"absent", "open", "timing_out", "results", "timeout"}]
    BY <1>1, <1>2
  <2>5. submitted' \in 0..MaxCalls
    BY <1>1, <1>2, CallBoundAssumption
  <2> QED BY <1>1, <2>1, <2>2, <2>3, <2>4, <2>5 DEF ExecutorInv, TypeOK
<1>10. \A c \in CallNumbers : /\ c \in new => task'[c] = "created" /\ batch'[c] = b
                              /\ c \notin new => /\ task'[c] = task[c] /\ batch'[c] = batch[c]
                                                 /\ request'[c] = request[c]
  BY <1>1
<1>11. Submission'
  <2> SUFFICES ASSUME NEW c \in CallNumbers
               PROVE  /\ task'[c] = "absent" <=> c > submitted'
                      /\ task'[c] # "absent" => batch'[c] \in BatchNumbers /\ answers'[batch'[c]] # "absent"
                      /\ request'[c].tool = "write_run_marker" => request'[c].operation_id \in Operations
    BY DEF Submission
  <2>1. CASE c \in new
    <3>1. request'[c] = requests[c - submitted]
      BY <1>1, <2>1
    <3> QED BY <1>1, <1>3, <1>4, <1>5, <1>6, <1>7, <1>10, <2>1, <3>1
  <2>2. CASE c \notin new
    BY <1>1, <1>6, <1>7, <1>8, <1>10, <2>2 DEF ExecutorInv, Submission
  <2> QED BY <2>1, <2>2
<1>12. ThreadOwnership'
  BY <1>1, <1>3, <1>10 DEF ExecutorInv, ThreadOwnership
<1>13. Cancellation'
  <2>1. \A c \in cancelling : c \in CallNumbers /\ c \notin new
                                /\ task[c] \notin Settled \cup {"absent"}
                                /\ answers[batch[c]] = "timing_out"
    BY <1>2, <1>3 DEF ExecutorInv, Cancellation
  <2>2. \A c \in cancelling' : task'[c] \notin Settled \cup {"absent"}
                                 /\ answers'[batch'[c]] = "timing_out"
    BY <1>1, <1>6, <1>8, <1>10, <2>1
  <2>3. ASSUME NEW c \in CallNumbers, task'[c] # "absent"
        PROVE  /\ task'[c] = "cancelled" => answers'[batch'[c]] \in {"timing_out", "timeout"}
               /\ answers'[batch'[c]] = "results" => task'[c] = "done"
               /\ answers'[batch'[c]] = "timeout" => task'[c] \in Settled
    <3>1. CASE c \in new
      BY <1>6, <1>10, <3>1
    <3>2. CASE c \notin new
      BY <1>6, <1>8, <1>10, <2>3, <3>2 DEF ExecutorInv, Cancellation
    <3> QED BY <3>1, <3>2
  <2> QED BY <2>2, <2>3 DEF Cancellation
<1>14. SlotsAccounted'
  <2>1. Holders(task)' = Holders(task)
    BY <1>3, <1>10 DEF Holders
  <2> QED BY <1>1, <2>1 DEF ExecutorInv, SlotsAccounted
<1>15. NoLostWakeup'
  <2>1. Waiting(task)' = Waiting(task)
    BY <1>1, <1>3, <1>10 DEF Waiting
  <2>2. \A c \in CallNumbers : task[c] = "granted" => task'[c] = "granted"
    BY <1>3, <1>10
  <2> QED BY <1>1, <2>1, <2>2 DEF ExecutorInv, NoLostWakeup
<1>16. SkippedOnlyIfCommitted'
  <2>1. \A c \in CallNumbers : thread[c] # "none" => request'[c] = request[c]
    BY <1>3, <1>10 DEF ExecutorInv, ThreadOwnership
  <2>2. \A o \in Operations : CommitsOf(o)' = CommitsOf(o)
    BY <1>1, <2>1 DEF CommitsOf
  <2> QED BY <1>1, <2>1, <2>2 DEF ExecutorInv, SkippedOnlyIfCommitted
<1> QED BY <1>9, <1>11, <1>12, <1>13, <1>14, <1>15, <1>16 DEF ExecutorInv

LEMMA InitExecutorInv == Init => ExecutorInv
<1> SUFFICES ASSUME Init PROVE ExecutorInv
  OBVIOUS
<1>1. Holders(task) = {} /\ Waiting(task) = {} /\ \A o \in Operations : CommitsOf(o) = {}
  BY DEF Init, Holders, Waiting, CommitsOf
<1>2. TypeOK
  BY CallBoundAssumption, ConcurrencyAssumption DEF Init, TypeOK
<1>3. SlotsAccounted
  BY <1>1, FS_EmptySet, ConcurrencyAssumption DEF Init, SlotsAccounted
<1>4. Submission
  BY CallNumbersFinite, CallBoundAssumption DEF Init, Submission, CallNumbers
<1>5. ThreadOwnership /\ Cancellation /\ NoLostWakeup /\ SkippedOnlyIfCommitted
  BY <1>1 DEF Init, ThreadOwnership, Cancellation, NoLostWakeup, SkippedOnlyIfCommitted
<1> QED BY <1>2, <1>3, <1>4, <1>5 DEF ExecutorInv

LEMMA NextExecutorInv == ExecutorInv /\ [Next]_vars => ExecutorInv'
<1> SUFFICES ASSUME ExecutorInv, [Next]_vars PROVE ExecutorInv'
  OBVIOUS
<1>1. ASSUME NEW b \in BatchNumbers, NEW requests \in BoundedSeq(Requests, MaxBatchSize),
             ExecuteBatch(b, requests)
      PROVE  ExecutorInv'
  <2>1. requests \in Seq(Requests)
    BY CallBoundAssumption DEF BoundedSeq, SeqOf
  <2> QED BY <1>1, <2>1, ExecuteBatchInv
<1>2. ASSUME NEW c \in CallNumbers, TaskStep(c) PROVE ExecutorInv'
  BY <1>2, TaskStepMoves, TaskMoveInv, QueueUpInv
<1>3. ASSUME NEW c \in CallNumbers, ThreadStep(c) PROVE ExecutorInv'
  BY <1>3, ThreadStepInv
<1>4. ASSUME NEW b \in BatchNumbers, BatchStep(b) PROVE ExecutorInv'
  BY <1>4, BatchStepInv
<1>5. CASE UNCHANGED vars
  BY <1>5 DEF vars, calls, ExecutorInv, TypeOK, Submission, ThreadOwnership, Cancellation,
              SlotsAccounted, NoLostWakeup, SkippedOnlyIfCommitted, Holders, Waiting, CommitsOf
<1> QED BY <1>1, <1>2, <1>3, <1>4, <1>5 DEF Next
-----------------------------------------------------------------------------
(* The inductive invariant of the executor, its pool and the marker tool    *)
(* (async_executor.py:15-66, idempotency_writer.py:36-49).                  *)
THEOREM ExecutorInvariance == Spec => []ExecutorInv
BY InitExecutorInv, NextExecutorInv, PTL DEF Spec

(* The executor's, the pool's and the marker tool's state keep their types *)
THEOREM ExecutorTypes == Spec => []TypeOK
<1>1. ExecutorInv => TypeOK
  BY DEF ExecutorInv
<1> QED BY <1>1, ExecutorInvariance, PTL

(* No slot of the semaphore is lost or made up, however its holder leaves   *)
(* (async_executor.py:17, 49-54).                                           *)
THEOREM SlotsAreAccounted == Spec => []SlotsAccounted
<1>1. ExecutorInv => SlotsAccounted
  BY DEF ExecutorInv
<1> QED BY <1>1, ExecutorInvariance, PTL

(* No task waits for ever while a slot is free: one that was handed a slot  *)
(* is about to pass the next one on (async_executor.py:17).                 *)
THEOREM WakeupsAreNotLost == Spec => []NoLostWakeup
<1>1. ExecutorInv => NoLostWakeup
  BY DEF ExecutorInv
<1> QED BY <1>1, ExecutorInvariance, PTL

(* What is skipped was committed, and the tool remembers what it committed, *)
(* for any number of threads (idempotency_writer.py:38-45).                 *)
THEOREM SkipsAreJustified == Spec => []SkippedOnlyIfCommitted
<1>1. ExecutorInv => SkippedOnlyIfCommitted
  BY DEF ExecutorInv
<1> QED BY <1>1, ExecutorInvariance, PTL

(* A batch that has answered has left nothing behind in the event loop, and *)
(* its results are what its threads ended with (async_executor.py:42-66).   *)
THEOREM AnswersComplete == Spec => []AnswersAreComplete
<1>1. ExecutorInv => AnswersAreComplete
  <2> SUFFICES ASSUME ExecutorInv, NEW b \in BatchNumbers, answers[b] \in {"results", "timeout"},
                      NEW c \in CallsOf(b)
               PROVE  /\ task[c] \in Settled /\ c \notin cancelling /\ thread[c] # "queued"
                      /\ answers[b] = "results" =>
                           result[c] = IF request[c].tool = "unknown" THEN "unknown_tool"
                                       ELSE thread[c]
    BY DEF AnswersAreComplete
  <2>1. c \in CallNumbers /\ task[c] # "absent" /\ batch[c] = b
    BY DEF CallsOf
  <2>2. task[c] \in Settled /\ (answers[b] = "results" => task[c] = "done")
    BY <2>1 DEF ExecutorInv, Cancellation, Settled
  <2>3. c \notin cancelling /\ thread[c] # "queued"
    BY <2>1, <2>2 DEF ExecutorInv, Cancellation, ThreadOwnership, Settled
  <2>4. answers[b] = "results" =>
          result[c] = IF request[c].tool = "unknown" THEN "unknown_tool" ELSE thread[c]
    BY <2>1, <2>2 DEF ExecutorInv, ThreadOwnership
  <2> QED BY <2>2, <2>3, <2>4
<1> QED BY <1>1, ExecutorInvariance, PTL

(* What a step does to the marker tool's threads: a thread starts a look-up *)
(* only of an operation not yet remembered, and it commits only what it     *)
(* looked up.                                                               *)
LEMMA CommitsStand ==
    ASSUME ExecutorInv, [Next]_vars, NEW o \in Operations, Decided(o)
    PROVE  Decided(o)' /\ CommitsOf(o)' = CommitsOf(o)
<1> DEFINE Keeps == /\ \A c \in CallNumbers :
                         thread[c] \in {"checked", "committed"} => request'[c] = request[c]
                    /\ \A c \in CallNumbers : thread'[c] = "committed" =>
                         \/ thread[c] = "committed"
                         \/ thread[c] = "checked" /\ request'[c] = request[c]
                    /\ \A c \in CallNumbers : thread[c] = "committed" => thread'[c] = "committed"
                    /\ \A c \in CallNumbers : thread'[c] = "checked" =>
                         \/ thread[c] = "checked"
                         \/ request'[c].operation_id \notin seen_operations
                    /\ seen_operations \subseteq seen_operations'
<1>1. Keeps
  <2> SUFFICES ASSUME Next PROVE Keeps
    BY DEF vars, calls
  <2>1. TypeOK /\ Submission /\ ThreadOwnership
    BY DEF ExecutorInv
  <2>2. ASSUME NEW b \in BatchNumbers, NEW requests, ExecuteBatch(b, requests) PROVE Keeps
    <3>1. ASSUME NEW c \in CallNumbers, thread[c] # "none" PROVE request'[c] = request[c]
      <4>1. c <= submitted
        BY <2>1, <3>1, CallNumbersFinite DEF Submission, ThreadOwnership, TypeOK
      <4> QED BY <2>1, <2>2, <4>1, CallNumbersFinite DEF ExecuteBatch, TypeOK
    <3>2. thread' = thread /\ seen_operations' = seen_operations
      BY <2>2 DEF ExecuteBatch
    <3> QED BY <3>1, <3>2
  <2>3. ASSUME NEW c \in CallNumbers, TaskStep(c) PROVE Keeps
    <3>1. request' = request /\ seen_operations' = seen_operations
      BY <2>3 DEF TaskStep, Enter, QueueUp, Resume, Complete, Unwind, Proceed, calls
    <3>2. \/ thread' = thread
          \/ thread[c] = "queued" /\ thread' = [thread EXCEPT ![c] = "none"]
          \/ thread[c] = "none" /\ thread' = [thread EXCEPT ![c] = "queued"]
      BY <2>1, <2>3 DEF TaskStep, Enter, FirstStep, QueueUp, Resume, Complete, Unwind, Proceed,
                        ThreadOwnership
    <3> QED BY <2>1, <3>1, <3>2 DEF TypeOK
  <2>4. ASSUME NEW c \in CallNumbers, StartThread(c) \/ Return(c)
                                        \/ \E error \in ToolErrors : Raise(c, error)
        PROVE  Keeps
    <3>1. request' = request /\ seen_operations' = seen_operations
      BY <2>4 DEF StartThread, Return, Raise, calls
    <3>2. PICK s \in {"started", "returned"} \cup ToolErrors :
            thread[c] \in {"queued", "started"} /\ thread' = [thread EXCEPT ![c] = s]
      BY <2>4 DEF StartThread, Return, Raise
    <3> QED BY <2>1, <3>1, <3>2 DEF TypeOK, ToolErrors
  <2>5. ASSUME NEW c \in CallNumbers, Check(c) \/ Commit(c) PROVE Keeps
    <3>1. CASE Check(c)
      BY <2>1, <3>1 DEF Check, TypeOK, calls
    <3>2. CASE Commit(c)
      BY <2>1, <3>2 DEF Commit, TypeOK, calls
    <3> QED BY <2>5, <3>1, <3>2
  <2>6. ASSUME NEW b \in BatchNumbers, BatchStep(b) PROVE Keeps
    BY <2>6 DEF BatchStep, AnswerResults, TimeOut, AnswerTimeout, calls
  <2> QED BY <2>2, <2>3, <2>4, <2>5, <2>6 DEF Next, ThreadStep
<1>2. Decided(o)'
  BY <1>1 DEF Decided
<1>3. CommitsOf(o)' = CommitsOf(o)
  BY <1>1 DEF Decided, CommitsOf
<1> QED BY <1>2, <1>3

(* A decided operation is never committed again, by any retry in any batch  *)
(* (idempotency_writer.py:37-45).                                           *)
THEOREM RetriesSkip == Spec => RetriesAreSkipped
<1>1. ExecutorInv /\ [Next]_vars =>
        [\A o \in Operations : Decided(o) => Decided(o)' /\ CommitsOf(o)' = CommitsOf(o)]_vars
  BY CommitsStand
<1> QED BY <1>1, ExecutorInvariance, PTL DEF Spec, RetriesAreSkipped
-----------------------------------------------------------------------------
(* The refinement: every step is a step of BatchContract for one call or    *)
(* one batch, or none                                                       *)
Kept == Contract!Next \/ UNCHANGED Contract!contract

LEMMA SameEndings ==
    /\ Contract!CallNumbers = CallNumbers /\ Contract!BatchNumbers = BatchNumbers
    /\ Contract!Endings = Finished
BY DEF Contract!CallNumbers, CallNumbers, Contract!BatchNumbers, BatchNumbers, Contract!Endings,
       Finished, ToolErrors

(* What shows of a task, of a thread, and of both when nothing shows *)
LEMMA Shown ==
    ASSUME NEW c \in CallNumbers
    PROVE  /\ call[c] = IF task[c] = "done" THEN result[c]
                        ELSE IF task[c] = "cancelled" THEN "withdrawn"
                        ELSE IF task[c] = "absent" THEN "absent" ELSE "open"
           /\ call'[c] = IF task'[c] = "done" THEN result'[c]
                         ELSE IF task'[c] = "cancelled" THEN "withdrawn"
                         ELSE IF task'[c] = "absent" THEN "absent" ELSE "open"
           /\ work[c] = IF thread[c] \in InTool THEN "begun"
                        ELSE IF thread[c] \in Finished THEN thread[c] ELSE "none"
           /\ work'[c] = IF thread'[c] \in InTool THEN "begun"
                         ELSE IF thread'[c] \in Finished THEN thread'[c] ELSE "none"
BY DEF call, work

LEMMA OneCallChanges ==
    ASSUME NEW c \in CallNumbers, NEW x,
           \A d \in CallNumbers \ {c} : call'[d] = call[d], call'[c] = x
    PROVE  call' = [call EXCEPT ![c] = x]
<1>1. call = [d \in CallNumbers |-> call[d]] /\ call' = [d \in CallNumbers |-> call'[d]]
  BY DEF call
<1> QED BY <1>1

LEMMA OneToolChanges ==
    ASSUME NEW c \in CallNumbers, NEW x,
           \A d \in CallNumbers \ {c} : work'[d] = work[d], work'[c] = x
    PROVE  work' = [work EXCEPT ![c] = x]
<1>1. work = [d \in CallNumbers |-> work[d]] /\ work' = [d \in CallNumbers |-> work'[d]]
  BY DEF work
<1> QED BY <1>1

LEMMA NothingShows ==
    ASSUME UNCHANGED <<batch, answers>>,
           \A d \in CallNumbers : call'[d] = call[d] /\ work'[d] = work[d]
    PROVE  Kept
<1>1. /\ call = [d \in CallNumbers |-> call[d]] /\ call' = [d \in CallNumbers |-> call'[d]]
      /\ work = [d \in CallNumbers |-> work[d]] /\ work' = [d \in CallNumbers |-> work'[d]]
  BY DEF call, work
<1>2. call' = call /\ work' = work
  BY <1>1
<1> QED BY <1>2 DEF Kept, Contract!contract

(* The event loop moves a task: to its result, out, or where nothing shows  *)
(* (async_executor.py:17-35, 49-54).                                        *)
LEMMA TaskMoveKept ==
    ASSUME ExecutorInv, NEW c \in CallNumbers, TaskMove(c)
    PROVE  Kept
<1>0. PICK end \in {"running", "done", "cancelled"},
           th \in Finished \cup InTool \cup {"none", "queued"}, res \in Finished \cup {"none"} :
        /\ Moved(c, end) /\ task[c] \notin Settled \cup {"absent"}
        /\ thread' = [thread EXCEPT ![c] = th] /\ result' = [result EXCEPT ![c] = res]
        /\ UNCHANGED <<calls, answers>>
        /\ th = thread[c] \/ {th, thread[c]} \subseteq {"none", "queued"}
        /\ th # "none" => request[c].tool # "unknown"
        /\ end = "done" => IF request[c].tool = "unknown" THEN res = "unknown_tool"
                           ELSE th \in Finished /\ res = th
        /\ end = "cancelled" => answers[batch[c]] = "timing_out"
  BY Zenon DEF TaskMove
<1>1. UNCHANGED <<batch, answers>>
  BY <1>0 DEF calls
<1>2. /\ \A d \in CallNumbers \ {c} : thread'[d] = thread[d] /\ result'[d] = result[d]
      /\ thread'[c] = th /\ result'[c] = res /\ task'[c] = end
  BY <1>0 DEF ExecutorInv, TypeOK, Moved
<1>3. \A d \in CallNumbers \ {c} :
         task'[d] = task[d] \/ (task[d] = "waiting" /\ task'[d] = "granted")
  BY <1>0 DEF Moved
<1>4. \A d \in CallNumbers \ {c} : call'[d] = call[d] /\ work'[d] = work[d]
  BY <1>2, <1>3, Shown
<1>5. work'[c] = work[c]
  <2>1. th = thread[c] \/ (th \in {"none", "queued"} /\ thread[c] \in {"none", "queued"})
    BY <1>0
  <2> QED BY <1>2, <2>1, Shown DEF Finished, ToolErrors, InTool
<1>6. call[c] = "open"
  BY <1>0, Shown DEF Settled
<1>7. work' = work
  <2>1. work = [d \in CallNumbers |-> work[d]] /\ work' = [d \in CallNumbers |-> work'[d]]
    BY DEF work
  <2> QED BY <1>4, <1>5, <2>1
<1>8. CASE end = "running"
  <2>1. call'[c] = "open"
    BY <1>2, <1>8, Shown
  <2> QED BY <1>1, <1>4, <1>5, <1>6, <2>1, NothingShows
<1>9. CASE end = "done"
  <2>1. call'[c] = res
    BY <1>2, <1>9, Shown
  <2>2. call' = [call EXCEPT ![c] = res]
    BY <1>4, <2>1, OneCallChanges
  <2>3. work[c] # "begun" /\ res = IF work[c] = "none" THEN "unknown_tool" ELSE work[c]
    <3>1. CASE request[c].tool = "unknown"
      <4>1. thread[c] \in {"none", "queued"} /\ res = "unknown_tool"
        BY <1>0, <1>9, <3>1
      <4> QED BY <4>1, Shown DEF Finished, ToolErrors, InTool
    <3>2. CASE request[c].tool # "unknown"
      <4>1. th \in Finished /\ res = th
        BY <1>0, <1>9, <3>2
      <4>2. thread[c] = th
        BY <1>0, <4>1 DEF Finished, ToolErrors
      <4> QED BY <4>1, <4>2, Shown DEF Finished, ToolErrors, InTool
    <3> QED BY <3>1, <3>2
  <2>4. Contract!Return(c)
    BY <1>1, <1>6, <1>7, <2>2, <2>3 DEF Contract!Return
  <2> QED BY <2>4, SameEndings DEF Kept, Contract!Next
<1>10. CASE end = "cancelled"
  <2>1. call'[c] = "withdrawn"
    BY <1>2, <1>10, Shown
  <2>2. call' = [call EXCEPT ![c] = "withdrawn"]
    BY <1>4, <2>1, OneCallChanges
  <2>3. Contract!Withdraw(c)
    BY <1>0, <1>1, <1>6, <1>7, <1>10, <2>2 DEF Contract!Withdraw
  <2> QED BY <2>3, SameEndings DEF Kept, Contract!Next
<1> QED BY <1>8, <1>9, <1>10

(* A thread begins its tool while the call is open, and ends it at any time *)
(* (async_executor.py:23, idempotency_writer.py:36-49).                     *)
LEMMA ThreadStepKept ==
    ASSUME ExecutorInv, NEW c \in CallNumbers, ThreadStep(c)
    PROVE  Kept
<1> USE DEF InTool, Finished, ToolErrors
<1>1. /\ thread \in [CallNumbers -> Finished \cup InTool \cup {"none", "queued"}]
      /\ UNCHANGED <<batch, answers, task, result>>
  BY DEF ExecutorInv, TypeOK, ThreadStep, StartThread, Return, Raise, Check, Commit, calls
<1>2. call' = call
  BY <1>1 DEF call
<1>3. ASSUME NEW th, thread' = [thread EXCEPT ![c] = th]
      PROVE  thread'[c] = th /\ \A d \in CallNumbers \ {c} : work'[d] = work[d]
  BY <1>1, <1>3, Shown
<1>4. ASSUME NEW th \in Finished, thread[c] \in InTool, thread' = [thread EXCEPT ![c] = th]
      PROVE  Kept
  <2>1. work'[c] = th /\ work[c] = "begun"
    <3>1. thread'[c] = th
      BY <1>3, <1>4
    <3>2. work[c] = "begun"
      BY <1>4, Shown
    <3>3. thread'[c] \notin InTool /\ thread'[c] \in Finished
      BY <1>4, <3>1
    <3>4. work'[c] = thread'[c]
      BY <3>3, Shown
    <3> QED BY <3>1, <3>2, <3>4
  <2>2. work' = [work EXCEPT ![c] = th]
    BY <1>3, <1>4, <2>1, OneToolChanges
  <2>3. Contract!End(c)
    BY <1>1, <1>2, <2>1, <2>2, SameEndings DEF Contract!End
  <2> QED BY <2>3, SameEndings DEF Kept, Contract!Next
<1>5. CASE StartThread(c)
  <2>1. thread[c] = "queued" /\ thread' = [thread EXCEPT ![c] = "started"]
    BY <1>5 DEF StartThread
  <2>2. task[c] = "running"
    BY <2>1 DEF ExecutorInv, ThreadOwnership
  <2>3. work'[c] = "begun" /\ work[c] = "none" /\ call[c] = "open"
    BY <1>3, <2>1, <2>2, Shown
  <2>4. work' = [work EXCEPT ![c] = "begun"]
    BY <1>3, <2>1, <2>3, OneToolChanges
  <2>5. Contract!Begin(c)
    BY <1>1, <1>2, <2>3, <2>4 DEF Contract!Begin
  <2> QED BY <2>5, SameEndings DEF Kept, Contract!Next
<1>6. CASE Return(c)
  BY <1>4, <1>6 DEF Return
<1>7. ASSUME NEW error \in ToolErrors, Raise(c, error) PROVE Kept
  BY <1>4, <1>7 DEF Raise
<1>8. CASE Check(c)
  <2>1. CASE request[c].operation_id \in seen_operations
    BY <1>4, <1>8, <2>1 DEF Check
  <2>2. CASE request[c].operation_id \notin seen_operations
    <3>1. thread[c] = "started" /\ thread' = [thread EXCEPT ![c] = "checked"]
      BY <1>8, <2>2 DEF Check
    <3>2. work'[c] = work[c]
      BY <1>3, <3>1, Shown
    <3> QED BY <1>1, <1>2, <1>3, <3>1, <3>2, NothingShows
  <2> QED BY <2>1, <2>2
<1>9. CASE Commit(c)
  BY <1>4, <1>9 DEF Commit
<1> QED BY <1>5, <1>6, <1>7, <1>8, <1>9 DEF ThreadStep

(* A batch answers when all its calls are over (async_executor.py:44-66) *)
LEMMA BatchStepKept ==
    ASSUME ExecutorInv, NEW b \in BatchNumbers, BatchStep(b)
    PROVE  Kept
<1>1. UNCHANGED <<batch, task, result, thread>> /\ call' = call /\ work' = work
  BY DEF BatchStep, AnswerResults, TimeOut, AnswerTimeout, calls, call, work
<1>2. ASSUME NEW c \in CallNumbers, call[c] # "absent", batch[c] = b
      PROVE  c \in CallsOf(b)
  BY <1>2, Shown DEF CallsOf
<1>3. \A c \in CallNumbers : task[c] = "done" => call[c] \in Finished
  BY Shown DEF ExecutorInv, ThreadOwnership, Finished, ToolErrors
<1>4. \A c \in CallNumbers : task[c] = "cancelled" => call[c] = "withdrawn"
  BY Shown
<1>5. CASE AnswerResults(b)
  <2>1. Contract!Over(b, Contract!Endings)
    BY <1>2, <1>3, <1>5, SameEndings DEF AnswerResults, Contract!Over
  <2>2. Contract!Answer(b)
    BY <1>1, <1>5, <2>1 DEF AnswerResults, Contract!Answer
  <2> QED BY <2>2, SameEndings DEF Kept, Contract!Next
<1>6. CASE TimeOut(b)
  <2>1. Contract!TimeOut(b)
    BY <1>1, <1>6 DEF TimeOut, Contract!TimeOut
  <2> QED BY <2>1, SameEndings DEF Kept, Contract!Next
<1>7. CASE AnswerTimeout(b)
  <2>1. Contract!Over(b, Contract!Endings \cup {"withdrawn"})
    BY <1>2, <1>3, <1>4, <1>7, SameEndings DEF AnswerTimeout, Contract!Over, Settled
  <2>2. Contract!Answer(b)
    BY <1>1, <1>7, <2>1 DEF AnswerTimeout, Contract!Answer
  <2> QED BY <2>2, SameEndings DEF Kept, Contract!Next
<1> QED BY <1>5, <1>6, <1>7 DEF BatchStep

(* The calls of a new batch were absent (async_executor.py:42) *)
LEMMA ExecuteBatchKept ==
    ASSUME ExecutorInv, NEW b \in BatchNumbers, NEW requests \in Seq(Requests),
           ExecuteBatch(b, requests)
    PROVE  Kept
<1> DEFINE new == submitted + 1 .. submitted + Len(requests)
<1>1. /\ answers[b] = "absent" /\ submitted + Len(requests) <= MaxCalls
      /\ batch' = [c \in CallNumbers |-> IF c \in new THEN b ELSE batch[c]]
      /\ task' = [c \in CallNumbers |-> IF c \in new THEN "created" ELSE task[c]]
      /\ answers' = [answers EXCEPT ![b] = "open"]
      /\ UNCHANGED <<result, thread>>
  BY DEF ExecuteBatch
<1>2. submitted \in Nat /\ Len(requests) \in Nat /\ CallNumbers \subseteq Nat
  BY CallNumbersFinite, CallBoundAssumption DEF ExecutorInv, TypeOK
<1>3. new \subseteq CallNumbers /\ \A c \in new : task[c] = "absent"
  BY <1>1, <1>2, NewCalls
<1> HIDE DEF new
<1>4. \A c \in new : call[c] = "absent"
  BY <1>3, Shown
<1>5. \A c \in CallNumbers : call'[c] = IF c \in new THEN "open" ELSE call[c]
  BY <1>1, Shown
<1>6. call' = [c \in CallNumbers |-> IF c \in new THEN "open" ELSE call[c]]
  <2>1. call' = [c \in CallNumbers |-> call'[c]]
    BY DEF call
  <2> QED BY <1>5, <2>1
<1>7. work' = work
  BY <1>1 DEF work
<1>8. Contract!Submit(b, new)
  BY <1>1, <1>4, <1>6, <1>7, SameEndings DEF Contract!Submit
<1> QED BY <1>3, <1>8, SameEndings DEF Kept, Contract!Next

LEMMA ContractStep == ExecutorInv /\ [Next]_vars => [Contract!Next]_Contract!contract
<1> SUFFICES ASSUME ExecutorInv, [Next]_vars PROVE Kept
  BY DEF Kept
<1>1. ASSUME NEW b \in BatchNumbers, NEW requests \in BoundedSeq(Requests, MaxBatchSize),
             ExecuteBatch(b, requests)
      PROVE  Kept
  <2>1. requests \in Seq(Requests)
    BY CallBoundAssumption DEF BoundedSeq, SeqOf
  <2> QED BY <1>1, <2>1, ExecuteBatchKept
<1>2. ASSUME NEW c \in CallNumbers, QueueUp(c) PROVE Kept
  <2>1. /\ task[c] = "created" /\ task' = [task EXCEPT ![c] = "waiting"]
        /\ UNCHANGED <<batch, answers, result, thread>>
    BY <1>2 DEF QueueUp, FirstStep, calls
  <2>2. task'[c] = "waiting" /\ \A d \in CallNumbers \ {c} : task'[d] = task[d]
    BY <2>1 DEF ExecutorInv, TypeOK
  <2>3. \A d \in CallNumbers : call'[d] = call[d] /\ work'[d] = work[d]
    BY <2>1, <2>2, Shown
  <2> QED BY <2>1, <2>3, NothingShows
<1>3. ASSUME NEW c \in CallNumbers, TaskStep(c) PROVE Kept
  BY <1>2, <1>3, TaskStepMoves, TaskMoveKept
<1>4. ASSUME NEW c \in CallNumbers, ThreadStep(c) PROVE Kept
  BY <1>4, ThreadStepKept
<1>5. ASSUME NEW b \in BatchNumbers, BatchStep(b) PROVE Kept
  BY <1>5, BatchStepKept
<1>6. CASE UNCHANGED vars
  BY <1>6, NothingShows DEF vars, calls, call, work
<1> QED BY <1>1, <1>3, <1>4, <1>5, <1>6 DEF Next

(* Semaphore, pool and cancellations never show: a batch behaves as if      *)
(* every call had a worker of its own (async_executor.py:15-66).            *)
THEOREM ExecutorKeepsTheContract == Spec => ImplementsContract
<1>1. Init => Contract!Init
  BY SameEndings DEF Init, Contract!Init, call, work, InTool, Finished, ToolErrors
<1> QED BY <1>1, ContractStep, ExecutorInvariance, PTL DEF Spec, ImplementsContract, Contract!Spec
=============================================================================
