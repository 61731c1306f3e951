-------------------------- MODULE JobWorkerProofs --------------------------
(***************************************************************************)
(* Proofs about the job worker, for every set of keys and requests, every  *)
(* attempt budget and number of records, and whatever the clock shows when *)
(* a record is created.                                                    *)
(***************************************************************************)
EXTENDS JobWorker, FiniteSetTheorems, TLAPS

(* What the types say of created records, their identifiers and the tasks *)
LEMMA CreatedRecords ==
    ASSUME JobInv
    PROVE  /\ created \in Nat /\ 1..created \subseteq Records
           /\ \A o \in 1..created : job_id[o] \in 1..o /\ job_id[o] \in Records
           /\ \A c \in cores : c \in Cores /\ c.claimed \in 1..created
           /\ Stored \subseteq 1..created
<1>1. created \in Nat /\ 1..created \subseteq Records
  BY BoundsAssumption DEF JobInv, TypeOK, Records
<1>2. \A o \in 1..created : job_id[o] \in 1..o /\ job_id[o] \in Records
  BY <1>1, BoundsAssumption DEF JobInv, Creation, Records
<1>3. \A c \in cores : c \in Cores /\ c.claimed \in 1..created
  BY <1>1 DEF JobInv, TypeOK, TaskOwnership, Cores, Records
<1> QED BY <1>1, <1>2, <1>3 DEF Stored

(* The store has one record under an identifier. *)
LEMMA OneStoredPerIdentifier ==
    ASSUME JobInv, NEW o \in Stored, NEW p \in Stored, job_id[o] = job_id[p]
    PROVE  o = p
<1>1. o \in 1..created /\ p \in 1..created /\ created \in Nat
  BY CreatedRecords DEF Stored
<1>2. ~(o < p) /\ ~(p < o)
  BY <1>1 DEF Stored
<1> QED BY <1>1, <1>2

(* At most one of the stored records is the oldest of a set of them. *)
LEMMA OldestIsUnique ==
    ASSUME JobInv, NEW S \in SUBSET Stored, NEW o, NEW p, Oldest(o, S), Oldest(p, S)
    PROVE  o = p
<1>1. o \in Stored /\ p \in Stored /\ job_id[o] <= job_id[p] /\ job_id[p] <= job_id[o]
  BY DEF Oldest
<1>2. job_id[o] \in Nat /\ job_id[p] \in Nat
  BY <1>1, CreatedRecords DEF JobInv, TypeOK
<1>3. job_id[o] = job_id[p]
  BY <1>1, <1>2
<1> QED BY <1>1, <1>3, OneStoredPerIdentifier

(* The records of an identifier and the tasks working under it are finitely *)
(* many.                                                                    *)
LEMMA FiniteCounts ==
    ASSUME JobInv, NEW id \in Records
    PROVE  /\ IsFiniteSet(Named(id)) /\ Cardinality(Named(id)) \in Nat
           /\ IsFiniteSet(Workers(id)) /\ Cardinality(Workers(id)) \in Nat
           /\ Waiting(id) \in {0, 1}
<1>1. IsFiniteSet(1..created) /\ Named(id) \in SUBSET (1..created)
  BY CreatedRecords, FS_Interval DEF Named
<1>2. IsFiniteSet(cores) /\ Workers(id) \in SUBSET cores
  BY DEF JobInv, TaskOwnership, Workers
<1>3. IsFiniteSet(Named(id)) /\ IsFiniteSet(Workers(id))
  BY <1>1, <1>2, FS_Subset
<1> QED BY <1>3, FS_CardinalityType DEF Waiting

(* A job with an identifier of its own has at most one task, and that finds *)
(* the record it was claimed for.                                           *)
LEMMA UnsharedJobHasOneTask ==
    ASSUME JobInv, NEW c \in cores, NEW d \in cores, c.claimed = d.claimed,
           Unshared(c.claimed)
    PROVE  c = d
<1> DEFINE id == job_id[c.claimed]
<1>1. c.claimed \in 1..created /\ id \in Records
  BY CreatedRecords
<1>2. Named(id) = {c.claimed}
  BY <1>1 DEF Named, Unshared
<1>3. Cardinality(Named(id)) = 1
  BY <1>2, FS_Singleton
<1>4. Cardinality(Workers(id)) <= 1 /\ Cardinality(Workers(id)) \in Nat /\ IsFiniteSet(Workers(id))
  <2>1. Cardinality(Workers(id)) + Waiting(id) <= 1
    BY <1>1, <1>3 DEF JobInv, OneTaskPerSubmission
  <2> QED BY <1>1, <2>1, FiniteCounts
<1>5. c \in Workers(id) /\ d \in Workers(id)
  BY DEF Workers
<1> HIDE DEF id
<1>6. IsFiniteSet(Workers(id) \ {c}) /\ Cardinality(Workers(id) \ {c}) = Cardinality(Workers(id)) - 1
  BY <1>4, <1>5, FS_RemoveElement
<1>7. Cardinality(Workers(id)) # 0
  BY <1>4, <1>5, FS_EmptySet
<1>8. Cardinality(Workers(id) \ {c}) = 0
  BY <1>4, <1>6, <1>7
<1>9. Workers(id) \ {c} = {}
  BY <1>6, <1>8, FS_EmptySet
<1> QED BY <1>5, <1>9

LEMMA UnsharedJobIsFound ==
    ASSUME JobInv, NEW core \in cores, NEW current, Resolves(core.claimed, current)
    PROVE  /\ current \in 1..created /\ job_id[current] = job_id[core.claimed]
           /\ Unshared(current) <=> Unshared(core.claimed)
           /\ Unshared(current) => core.claimed = current
           /\ core.job # 0 => core.job \in 1..created /\ job_id[core.job] = job_id[current]
           /\ Unshared(current) /\ core.job # 0 => core.job = current
<1>1. current \in 1..created /\ job_id[current] = job_id[core.claimed]
  BY CreatedRecords DEF Resolves
<1>2. core.claimed \in 1..created
  BY CreatedRecords
<1>3. core.job # 0 => core.job \in 1..created /\ job_id[core.job] = job_id[current]
  <2>1. core.job \in Records \cup {0} /\ created \in Nat
    BY CreatedRecords DEF Cores
  <2> QED BY <1>1, <2>1, BoundsAssumption DEF JobInv, TaskOwnership, Records
<1> QED BY <1>1, <1>2, <1>3 DEF Unshared

(* Adding a member to a finite set, or taking one away *)
LEMMA CountAfterAdding ==
    ASSUME NEW S, NEW x, IsFiniteSet(S)
    PROVE  /\ IsFiniteSet(S \cup {x})
           /\ Cardinality(S \cup {x}) \in Nat
           /\ Cardinality(S \cup {x}) <= Cardinality(S) + 1
<1>1. Cardinality(S) \in Nat
  BY FS_CardinalityType
<1>2. /\ IsFiniteSet(S \cup {x})
      /\ Cardinality(S \cup {x}) = IF x \in S THEN Cardinality(S) ELSE Cardinality(S) + 1
  BY FS_AddElement
<1> QED BY <1>1, <1>2

LEMMA CountAfterRemoving ==
    ASSUME NEW S, NEW x \in S, IsFiniteSet(S)
    PROVE  /\ IsFiniteSet(S \ {x})
           /\ Cardinality(S \ {x}) \in Nat
           /\ Cardinality(S \ {x}) + 1 = Cardinality(S)
<1>1. Cardinality(S) \in Nat /\ IsFiniteSet(S \ {x})
  BY FS_CardinalityType, FS_RemoveElement
<1>2. Cardinality(S \ {x}) \in Nat /\ Cardinality(S \ {x}) = Cardinality(S) - 1
  BY <1>1, FS_CardinalityType, FS_RemoveElement
<1> QED BY <1>1, <1>2
-----------------------------------------------------------------------------
LEMMA InitJobInv == Init => JobInv
<1> SUFFICES ASSUME Init PROVE JobInv
  OBVIOUS
<1>1. created = 0 /\ 1..created = {} /\ cores = {}
  BY DEF Init
<1>2. TypeOK
  <2>1. created \in 0..MaxRecords
    BY BoundsAssumption DEF Init
  <2>2. /\ job_id \in [Records -> Nat]
        /\ idempotency_key \in [Records -> Keys \cup {NoKey}]
        /\ force_fail \in [Records -> BOOLEAN]
        /\ status \in [Records -> Statuses]
        /\ attempt_count \in [Records -> Nat]
        /\ result \in [Records -> BOOLEAN]
    BY DEF Init, Statuses
  <2> QED BY <2>1, <2>2 DEF Init, TypeOK
<1>3. Creation
  BY <1>1, BoundsAssumption DEF Init, Creation, Records
<1>4. TaskOwnership
  BY <1>1, FS_EmptySet DEF TaskOwnership
<1>5. OneTaskPerSubmission
  <2> SUFFICES ASSUME NEW id \in Records
               PROVE  Cardinality(Workers(id)) + Waiting(id) <= Cardinality(Named(id))
    BY <1>1 DEF OneTaskPerSubmission
  <2>1. Workers(id) = {} /\ Named(id) = {}
    BY <1>1 DEF Workers, Named
  <2>2. Waiting(id) = 0
    BY <1>1 DEF Waiting, StoredIn, Stored
  <2> QED BY <2>1, <2>2, FS_EmptySet
<1> QED BY <1>1, <1>2, <1>3, <1>4, <1>5 DEF JobInv, AttemptsBounded,
                               OutcomeMatchesPayload, KeyRepeatsOnlyAfterLoss

(* A new record, whichever identifier it takes *)
NewRecord == created + 1

LEMMA SubmitStep ==
    ASSUME JobInv, NEW key, NEW fails, key \in Keys, fails \in BOOLEAN, Submit(key, fails)
    PROVE  /\ NewRecord \in Records /\ NewRecord \notin 1..created /\ created' = NewRecord
           /\ 1..created' = 1..created \cup {NewRecord}
           /\ UNCHANGED <<attempt_count, result, cores, running, starts, cancels>>
           /\ \E id \in {job_id[o] : o \in 1..created} \cup {NewRecord} :
                /\ id \in Records
                /\ job_id' = [job_id EXCEPT ![NewRecord] = id]
           /\ idempotency_key' = [idempotency_key EXCEPT ![NewRecord] = key]
           /\ force_fail' = [force_fail EXCEPT ![NewRecord] = fails]
           /\ status' = [status EXCEPT ![NewRecord] = "queued"]
           /\ \A o \in 1..created : /\ job_id'[o] = job_id[o]
                                    /\ status'[o] = status[o]
                                    /\ force_fail'[o] = force_fail[o]
                                    /\ idempotency_key'[o] = idempotency_key[o]
           /\ status[NewRecord] = "absent" /\ status'[NewRecord] = "queued"
           /\ idempotency_key'[NewRecord] = key
           /\ attempt_count[NewRecord] = 0 /\ ~result[NewRecord]
<1>1. NewRecord \in Records /\ NewRecord \notin 1..created /\ created' = NewRecord
  BY CreatedRecords, BoundsAssumption DEF Submit, Records, NewRecord
<1>2. 1..created' = 1..created \cup {NewRecord}
  BY <1>1, CreatedRecords DEF NewRecord
<1>3. UNCHANGED <<attempt_count, result, cores, running, starts, cancels>>
  BY DEF Submit, worker
<1>4. /\ idempotency_key' = [idempotency_key EXCEPT ![NewRecord] = key]
      /\ force_fail' = [force_fail EXCEPT ![NewRecord] = fails]
      /\ status' = [status EXCEPT ![NewRecord] = "queued"]
  BY DEF Submit, NewRecord
<1>5. PICK id \in {job_id[o] : o \in 1..created} \cup {NewRecord} :
        job_id' = [job_id EXCEPT ![NewRecord] = id]
  BY Zenon DEF Submit, NewRecord
<1>6. id \in Records
  BY <1>1, CreatedRecords
<1>7. \A o \in 1..created : job_id'[o] = job_id[o]
  BY <1>1, <1>5, CreatedRecords DEF JobInv, TypeOK
<1>8. \A o \in 1..created : /\ status'[o] = status[o]
                            /\ force_fail'[o] = force_fail[o]
                            /\ idempotency_key'[o] = idempotency_key[o]
  BY <1>1, <1>4, CreatedRecords DEF JobInv, TypeOK
<1>9. status'[NewRecord] = "queued" /\ idempotency_key'[NewRecord] = key
  BY <1>1, <1>4 DEF JobInv, TypeOK
<1>10. status[NewRecord] = "absent" /\ attempt_count[NewRecord] = 0 /\ ~result[NewRecord]
  BY <1>1, CreatedRecords DEF JobInv, Creation, NewRecord
<1> QED BY <1>1, <1>2, <1>3, <1>4, <1>5, <1>6, <1>7, <1>8, <1>9, <1>10

(* A record of a known identifier takes over what was waiting under it, and *)
(* every identifier has at least as many records as before.                 *)
LEMMA SubmitInv ==
    ASSUME JobInv, NEW key, NEW fails, key \in Keys, fails \in BOOLEAN, Submit(key, fails)
    PROVE  JobInv'
<1>1. /\ NewRecord \in Records /\ NewRecord \notin 1..created /\ created' = NewRecord
      /\ 1..created' = 1..created \cup {NewRecord}
      /\ UNCHANGED <<attempt_count, result, cores, running, starts, cancels>>
      /\ idempotency_key' = [idempotency_key EXCEPT ![NewRecord] = key]
      /\ force_fail' = [force_fail EXCEPT ![NewRecord] = fails]
      /\ status' = [status EXCEPT ![NewRecord] = "queued"]
      /\ status[NewRecord] = "absent" /\ status'[NewRecord] = "queued"
      /\ idempotency_key'[NewRecord] = key
      /\ attempt_count[NewRecord] = 0 /\ ~result[NewRecord]
  BY SubmitStep, Zenon
<1>2. PICK id \in {job_id[o] : o \in 1..created} \cup {NewRecord} :
        id \in Records /\ job_id' = [job_id EXCEPT ![NewRecord] = id]
  BY SubmitStep, Zenon
<1>3. \A o \in 1..created : /\ job_id'[o] = job_id[o]
                            /\ status'[o] = status[o]
                            /\ force_fail'[o] = force_fail[o]
                            /\ idempotency_key'[o] = idempotency_key[o]
  BY SubmitStep, Zenon
<1>4. job_id'[NewRecord] = id
  BY <1>1, <1>2 DEF JobInv, TypeOK
<1>5. TypeOK'
  <2>1. created' \in 0..MaxRecords
    BY <1>1 DEF Records
  <2>2. job_id' \in [Records -> Nat] /\ idempotency_key' \in [Records -> Keys \cup {NoKey}]
    BY <1>1, <1>2 DEF JobInv, TypeOK, Records
  <2>3. force_fail' \in [Records -> BOOLEAN] /\ status' \in [Records -> Statuses]
    BY <1>1 DEF JobInv, TypeOK, Statuses
  <2> QED BY <1>1, <2>1, <2>2, <2>3 DEF JobInv, TypeOK
<1>6. Creation'
  <2>1. \A o \in Records : status'[o] = "absent" <=> o > created'
    <3> SUFFICES ASSUME NEW o \in Records PROVE status'[o] = "absent" <=> o > created'
      OBVIOUS
    <3>1. o = NewRecord \/ o \in 1..created \/ o > created'
      BY <1>1, CreatedRecords DEF Records, NewRecord
    <3>2. o \in 1..created => ~(o > created') /\ status[o] # "absent"
      BY <1>1, CreatedRecords DEF NewRecord, JobInv, Creation
    <3>3. o > created' => o # NewRecord /\ status[o] = "absent"
      BY <1>1, CreatedRecords DEF NewRecord, JobInv, Creation, Records
    <3>4. o # NewRecord => status'[o] = status[o]
      BY <1>1 DEF JobInv, TypeOK
    <3>5. NewRecord \in Nat
      BY CreatedRecords DEF NewRecord
    <3> QED BY <1>1, <1>3, <3>1, <3>2, <3>3, <3>4, <3>5
  <2>2. \A o \in Records : o > created' => attempt_count'[o] = 0 /\ ~result'[o]
    BY <1>1, CreatedRecords DEF JobInv, Creation, Records
  <2>3. \A o \in 1..created : job_id'[o] \in 1..o
    BY <1>3, CreatedRecords
  <2>4. id \in 1..NewRecord
    BY <1>1, CreatedRecords DEF Records
  <2> QED BY <1>1, <1>4, <2>1, <2>2, <2>3, <2>4 DEF Creation
<1>7. TaskOwnership'
  <2>1. IsFiniteSet(cores)
    BY DEF JobInv, TaskOwnership
  <2> SUFFICES ASSUME NEW c \in cores
               PROVE  /\ c.claimed <= created'
                      /\ c.job # 0 => c.job <= created' /\ job_id'[c.job] = job_id'[c.claimed]
                      /\ c.attempt <= attempt_count[c.claimed] /\ c.attempt >= 1
    BY <1>1, <2>1 DEF TaskOwnership
  <2>2. c \in Cores /\ c.claimed \in 1..created
    BY CreatedRecords
  <2>3. c.job # 0 => c.job \in 1..created /\ job_id[c.job] = job_id[c.claimed]
    BY <2>2, CreatedRecords DEF JobInv, TaskOwnership, Cores, Records
  <2>4. c.attempt <= attempt_count[c.claimed] /\ c.attempt >= 1
    BY DEF JobInv, TaskOwnership
  <2> QED BY <1>1, <1>3, <2>2, <2>3, <2>4, CreatedRecords
<1>8. OneTaskPerSubmission'
  <2>1. ASSUME NEW c \in cores, Unshared(c.claimed)'
        PROVE  status'[c.claimed] \in {"running", "cancel_requested", "cancelled"}
    <3>1. c.claimed \in 1..created
      BY CreatedRecords
    <3>2. Unshared(c.claimed)
      BY <1>1, <1>3, <2>1, <3>1 DEF Unshared
    <3> QED BY <1>3, <3>1, <3>2 DEF JobInv, OneTaskPerSubmission
  <2>2. ASSUME NEW i \in Records
        PROVE  (Cardinality(Workers(i)) + Waiting(i) <= Cardinality(Named(i)))'
    <3>1. Workers(i)' = Workers(i)
      BY <1>1, <1>3, CreatedRecords DEF Workers
    <3>2. /\ i = id => Named(i)' = Named(i) \cup {NewRecord} /\ NewRecord \notin Named(i)
          /\ i # id => Named(i)' = Named(i)
      BY <1>1, <1>3, <1>4 DEF Named
    <3>3. Waiting(i)' \in {0, 1}
      BY DEF Waiting
    <3>4. i # id => (Waiting(i)' = 1 => Waiting(i) = 1)
      <4> SUFFICES ASSUME i # id, NEW o \in StoredIn({"queued"})', job_id'[o] = i
                   PROVE  Waiting(i) = 1
        BY DEF Waiting
      <4>1. o \in 1..created' /\ \A p \in (o + 1)..created' : job_id'[p] # job_id'[o]
        BY DEF StoredIn, Stored
      <4>2. o \in 1..created /\ job_id[o] = i
        BY <1>1, <1>3, <1>4, <4>1
      <4>3. \A p \in (o + 1)..created : job_id[p] # job_id[o]
        <5>1. \A p \in (o + 1)..created : p \in 1..created
          BY <4>2, CreatedRecords
        <5> QED BY <1>1, <1>3, <4>1, <4>2, <5>1, CreatedRecords
      <4>4. status[o] = "queued"
        BY <1>3, <4>2 DEF StoredIn
      <4> QED BY <4>2, <4>3, <4>4 DEF Waiting, StoredIn, Stored
    <3>5. Cardinality(Workers(i)) + Waiting(i) <= Cardinality(Named(i))
      BY DEF JobInv, OneTaskPerSubmission
    <3>6. /\ IsFiniteSet(Named(i)) /\ Cardinality(Named(i)) \in Nat
          /\ Cardinality(Workers(i)) \in Nat /\ Waiting(i) \in {0, 1}
      BY FiniteCounts
    <3>7. Cardinality(Workers(i)') = Cardinality(Workers(i))
      BY <3>1
    <3>8. CASE i = id
      <4>1. Cardinality(Named(i)') = Cardinality(Named(i)) + 1
        BY <3>2, <3>6, <3>8, FS_AddElement
      <4> QED BY <3>3, <3>5, <3>6, <3>7, <4>1
    <3>9. CASE i # id
      <4>1. Cardinality(Named(i)') = Cardinality(Named(i))
        BY <3>2, <3>9
      <4> QED BY <3>3, <3>4, <3>5, <3>6, <3>7, <3>9, <4>1
    <3> QED BY <3>8, <3>9
  <2> QED BY <1>1, <2>1, <2>2 DEF OneTaskPerSubmission
<1>9. AttemptsBounded'
  <2>1. ASSUME NEW o \in 1..created, Unshared(o)'
        PROVE  Unshared(o)
    BY <1>1, <1>3, <2>1 DEF Unshared
  <2>2. \A o \in 1..created : Unshared(o)' =>
          /\ attempt_count'[o] <= MaxAttempts
          /\ status'[o] = "queued" => attempt_count'[o] < MaxAttempts
    BY <1>1, <1>3, <2>1 DEF JobInv, AttemptsBounded
  <2> QED BY <1>1, <2>2, AttemptsAssumption DEF AttemptsBounded
<1>10. OutcomeMatchesPayload'
  <2>1. ASSUME NEW o \in 1..created
        PROVE  /\ Named(job_id[o]) \subseteq Named(job_id[o])'
               /\ Named(job_id[o]) \subseteq 1..created
    BY <1>1, <1>3 DEF Named
  <2>2. ASSUME NEW o \in 1..created, result'[o]
        PROVE  /\ \E p \in Named(job_id[o])' : ~force_fail'[p]
               /\ \E p \in Named(job_id[o])' : attempt_count'[p] >= 1
    <3>1. /\ \E p \in Named(job_id[o]) : ~force_fail[p]
          /\ \E p \in Named(job_id[o]) : attempt_count[p] >= 1
      BY <1>1, <2>2 DEF JobInv, OutcomeMatchesPayload
    <3> QED BY <1>1, <1>3, <2>1, <3>1
  <2>3. ASSUME NEW o \in 1..created, status'[o] = "failed"
        PROVE  \E p \in Named(job_id[o])' : force_fail'[p] /\ attempt_count'[p] >= MaxAttempts
    <3>1. \E p \in Named(job_id[o]) : force_fail[p] /\ attempt_count[p] >= MaxAttempts
      BY <1>3, <2>3 DEF JobInv, OutcomeMatchesPayload
    <3> QED BY <1>1, <1>3, <2>1, <3>1
  <2>4. \A o \in 1..created : status'[o] = "succeeded" => result'[o]
    BY <1>1, <1>3 DEF JobInv, OutcomeMatchesPayload
  <2> QED BY <1>1, <2>2, <2>3, <2>4 DEF OutcomeMatchesPayload
<1>11. KeyRepeatsOnlyAfterLoss'
  <2> SUFFICES ASSUME NEW o \in 1..created', NEW p \in 1..created', o < p,
                      idempotency_key'[o] = idempotency_key'[p]
               PROVE  \E q \in Named(job_id[o])' : o < q /\ q < p
    BY DEF KeyRepeatsOnlyAfterLoss
  <2>1. o \in 1..created /\ job_id'[o] = job_id[o] /\ idempotency_key'[o] = idempotency_key[o]
    BY <1>1, <1>3, CreatedRecords
  <2>2. Named(job_id[o]) \subseteq Named(job_id[o])'
    BY <1>1, <1>3, <2>1 DEF Named
  <2>3. CASE p \in 1..created
    <3>1. \E q \in Named(job_id[o]) : o < q /\ q < p
      BY <1>3, <2>1, <2>3 DEF JobInv, KeyRepeatsOnlyAfterLoss
    <3> QED BY <2>2, <3>1
  <2>4. CASE p = NewRecord
    <3>1. idempotency_key[o] = key /\ ~Known(key)
      BY <1>1, <2>1, <2>4 DEF Submit
    <3>2. o \notin Stored
      BY <3>1 DEF Known
    <3>3. PICK q \in (o + 1)..created : job_id[q] = job_id[o]
      BY <2>1, <3>2 DEF Stored
    <3>4. q \in 1..created /\ o < q /\ q < NewRecord
      BY <2>1, <3>3, CreatedRecords DEF NewRecord
    <3>5. q \in Named(job_id[o])
      BY <3>3, <3>4 DEF Named
    <3> QED BY <2>2, <2>4, <3>4, <3>5
  <2> QED BY <1>1, <2>3, <2>4
<1> QED BY <1>5, <1>6, <1>7, <1>8, <1>9, <1>10, <1>11 DEF JobInv
(* What no step but Submit touches *)
Unsubmitted == UNCHANGED <<created, job_id, idempotency_key, force_fail>>

LEMMA SameIdentifiers ==
    ASSUME Unsubmitted
    PROVE  /\ \A id : Named(id)' = Named(id)
           /\ \A o : Unshared(o)' <=> Unshared(o)
           /\ Stored' = Stored
           /\ KeyRepeatsOnlyAfterLoss => KeyRepeatsOnlyAfterLoss'
BY DEF Unsubmitted, Named, Unshared, Stored, KeyRepeatsOnlyAfterLoss

(* What is waiting under an identifier *)
LEMMA WaitingValue ==
    ASSUME JobInv, Unsubmitted, NEW id
    PROVE  /\ Waiting(id) \in {0, 1} /\ Waiting(id)' \in {0, 1}
           /\ Waiting(id) = 1 <=> \E o \in Stored : status[o] = "queued" /\ job_id[o] = id
           /\ Waiting(id)' = 1 <=> \E o \in Stored : status'[o] = "queued" /\ job_id[o] = id
<1>1. Stored' = Stored /\ job_id' = job_id
  BY SameIdentifiers DEF Unsubmitted
<1> QED BY <1>1 DEF Waiting, StoredIn

(* A client's request changes the status of a created job only; nobody      *)
(* starts or stops working on it.                                           *)
LEMMA RequestCancelInv ==
    ASSUME JobInv, NEW o \in Records, RequestCancel(o)
    PROVE  JobInv'
<1>1. /\ o \in Stored /\ o \in 1..created
      /\ status' = [status EXCEPT ![o] = "cancel_requested"]
      /\ Unsubmitted /\ UNCHANGED <<attempt_count, result, cores, running, starts>>
      /\ cancels' = cancels + 1
  BY DEF RequestCancel, Stored, Unsubmitted, worker
<1>2. \A p \in Records : status'[p] = IF p = o THEN "cancel_requested" ELSE status[p]
  BY <1>1 DEF JobInv, TypeOK
<1>3. 1..created \subseteq Records
  BY CreatedRecords
<1>4. TypeOK'
  BY <1>1 DEF JobInv, TypeOK, Statuses, Unsubmitted
<1>5. Creation'
  BY <1>1, <1>2, <1>3 DEF JobInv, TypeOK, Creation, Unsubmitted
<1>6. TaskOwnership' /\ KeyRepeatsOnlyAfterLoss'
  BY <1>1, SameIdentifiers DEF JobInv, TaskOwnership, Unsubmitted
<1>7. OneTaskPerSubmission'
  <2>1. ASSUME NEW i \in Records
        PROVE  (Cardinality(Workers(i)) + Waiting(i) <= Cardinality(Named(i)))'
    <3>1. Workers(i)' = Workers(i) /\ Named(i)' = Named(i)
      BY <1>1, SameIdentifiers DEF Workers, Unsubmitted
    <3>2. Waiting(i)' <= Waiting(i)
      <4>1. Waiting(i)' = 1 => Waiting(i) = 1
        BY <1>1, <1>2, <1>3, WaitingValue, CreatedRecords
      <4> QED BY <1>1, <4>1, WaitingValue
    <3>3. Cardinality(Workers(i)) + Waiting(i) <= Cardinality(Named(i))
      BY DEF JobInv, OneTaskPerSubmission
    <3>4. /\ Cardinality(Workers(i)') = Cardinality(Workers(i))
          /\ Cardinality(Named(i)') = Cardinality(Named(i))
      BY <3>1
    <3>5. Waiting(i) \in {0, 1} /\ Waiting(i)' \in {0, 1}
      BY <1>1, WaitingValue
    <3> QED BY <3>2, <3>3, <3>4, <3>5, FiniteCounts
  <2>2. \A c \in cores : Unshared(c.claimed) =>
          status'[c.claimed] \in {"running", "cancel_requested", "cancelled"}
    BY <1>2, <1>3, CreatedRecords DEF JobInv, OneTaskPerSubmission
  <2> QED BY <1>1, <2>1, <2>2, SameIdentifiers DEF OneTaskPerSubmission
<1>8. AttemptsBounded'
  BY <1>1, <1>2, <1>3, SameIdentifiers DEF JobInv, AttemptsBounded, Unsubmitted
<1>9. OutcomeMatchesPayload'
  BY <1>1, <1>2, <1>3, SameIdentifiers DEF JobInv, OutcomeMatchesPayload, Unsubmitted
<1> QED BY <1>4, <1>5, <1>6, <1>7, <1>8, <1>9 DEF JobInv

LEMMA StartStopInv ==
    ASSUME JobInv, StartWorker \/ StopWorker \/ UNCHANGED vars
    PROVE  JobInv'
<1>1. UNCHANGED <<store, cores, cancels>>
  BY DEF StartWorker, StopWorker, vars
<1>2. running' \in BOOLEAN
  <2>1. running' \in {running, TRUE, FALSE}
    BY Zenon DEF StartWorker, StopWorker, vars, worker
  <2> QED BY <2>1, Zenon DEF JobInv, TypeOK
<1>3. starts' \in Nat
  <2>1. starts \in Nat
    BY Zenon DEF JobInv, TypeOK
  <2>2. starts' = starts \/ starts' = starts + 1
    BY Zenon DEF StartWorker, StopWorker, vars, worker
  <2> QED BY <2>1, <2>2
<1>4. Unsubmitted /\ UNCHANGED <<status, attempt_count, result>>
  BY <1>1 DEF store, Unsubmitted
<1>5. TypeOK' /\ Creation' /\ TaskOwnership'
  BY <1>1, <1>2, <1>3, <1>4 DEF JobInv, TypeOK, Creation, TaskOwnership, Unsubmitted
<1>6. OneTaskPerSubmission'
  BY <1>1, <1>4, SameIdentifiers DEF JobInv, OneTaskPerSubmission, Workers, Waiting, StoredIn,
                                     Unsubmitted
<1>7. AttemptsBounded' /\ OutcomeMatchesPayload' /\ KeyRepeatsOnlyAfterLoss'
  BY <1>4, SameIdentifiers DEF JobInv, AttemptsBounded, OutcomeMatchesPayload, Unsubmitted
<1> QED BY <1>5, <1>6, <1>7 DEF JobInv
(* What an iteration of the polling loop does: it acknowledges at most one  *)
(* cancellation, and claims at most one waiting job.                        *)
Acknowledged(o) == status[o] = "cancel_requested" /\ status'[o] = "cancelled"
TaskFor(o)      == [claimed |-> o, attempt |-> attempt_count[o] + 1, job |-> 0]

LEMMA PollStep ==
    ASSUME JobInv, Poll
    PROVE  /\ Unsubmitted /\ UNCHANGED <<result, running, starts, cancels>>
           /\ status' \in [Records -> Statuses]
           /\ \/ /\ UNCHANGED <<cores, attempt_count>>
                 /\ \A o \in Records : status'[o] = status[o] \/ Acknowledged(o)
              \/ \E w \in Stored :
                   /\ status[w] = "queued" /\ status'[w] = "running"
                   /\ cores' = cores \cup {TaskFor(w)}
                   /\ attempt_count' = [attempt_count EXCEPT ![w] = attempt_count[w] + 1]
                   /\ \A o \in Records : o # w => status'[o] = status[o] \/ Acknowledged(o)
<1> DEFINE requested == StoredIn({"cancel_requested"})
           waiting   == StoredIn({"queued"})
<1>1. 1..created \subseteq Records /\ Stored \subseteq Records
  BY CreatedRecords
<1>2. /\ requested \subseteq Stored /\ waiting \subseteq Stored
      /\ \A o \in requested : status[o] = "cancel_requested"
      /\ \A o \in waiting : status[o] = "queued"
  BY DEF StoredIn
<1>3. /\ status' = [o \in Records |-> IF Oldest(o, requested) THEN "cancelled"
                                     ELSE IF Oldest(o, waiting) THEN "running"
                                     ELSE status[o]]
      /\ attempt_count' = [o \in Records |-> IF Oldest(o, waiting) THEN attempt_count[o] + 1
                                            ELSE attempt_count[o]]
      /\ cores' = cores \cup {TaskFor(o) : o \in {p \in Records : Oldest(p, waiting)}}
      /\ Unsubmitted /\ UNCHANGED <<result, running, starts, cancels>>
  BY DEF Poll, Iteration, Unsubmitted, TaskFor, worker
<1> HIDE DEF requested, waiting
<1>4. status' \in [Records -> Statuses]
  BY <1>3 DEF JobInv, TypeOK, Statuses
<1>5. \A o \in Records : status'[o] = IF Oldest(o, requested) THEN "cancelled"
                                      ELSE IF Oldest(o, waiting) THEN "running"
                                      ELSE status[o]
  BY <1>3
<1>6. \A o \in Records : /\ Oldest(o, requested) => status[o] = "cancel_requested"
                         /\ Oldest(o, waiting) => status[o] = "queued" /\ o \in Stored
  BY <1>2 DEF Oldest
<1>7. \A o \in Records : ~Oldest(o, waiting) => status'[o] = status[o] \/ Acknowledged(o)
  BY <1>5, <1>6 DEF Acknowledged
<1>8. CASE \A o \in Records : ~Oldest(o, waiting)
  <2>1. cores' = cores
    BY <1>3, <1>8
  <2>2. attempt_count' = attempt_count
    BY <1>3, <1>8 DEF JobInv, TypeOK
  <2> QED BY <1>3, <1>4, <1>7, <1>8, <2>1, <2>2
<1>9. ASSUME NEW w \in Records, Oldest(w, waiting)
      PROVE  /\ w \in Stored /\ status[w] = "queued" /\ status'[w] = "running"
             /\ cores' = cores \cup {TaskFor(w)}
             /\ attempt_count' = [attempt_count EXCEPT ![w] = attempt_count[w] + 1]
             /\ \A o \in Records : o # w => status'[o] = status[o] \/ Acknowledged(o)
  <2>1. \A o \in Records : o # w => ~Oldest(o, waiting)
    BY <1>2, <1>9, OldestIsUnique
  <2>2. w \in Stored /\ status[w] = "queued" /\ status'[w] = "running"
    BY <1>5, <1>6, <1>9
  <2>3. {p \in Records : Oldest(p, waiting)} = {w}
    BY <1>9, <2>1
  <2>4. cores' = cores \cup {TaskFor(w)}
    BY <1>3, <2>3
  <2>5. attempt_count' = [attempt_count EXCEPT ![w] = attempt_count[w] + 1]
    BY <1>3, <1>9, <2>1 DEF JobInv, TypeOK
  <2> QED BY <1>7, <2>1, <2>2, <2>4, <2>5
<1> QED BY <1>3, <1>4, <1>8, <1>9, Zenon

(* One iteration of the loop: what waited under the identifier of a claimed *)
(* job is now a task.                                                       *)
LEMMA PollInv ==
    ASSUME JobInv, Poll
    PROVE  JobInv'
<1>1. Unsubmitted /\ UNCHANGED <<result, running, starts, cancels>>
  BY PollStep
<1>2. status' \in [Records -> Statuses]
  BY PollStep
<1>3. 1..created \subseteq Records /\ Stored \subseteq 1..created /\ created \in Nat
  BY CreatedRecords
<1>4. CASE /\ UNCHANGED <<cores, attempt_count>>
           /\ \A o \in Records : status'[o] = status[o] \/ Acknowledged(o)
  <2>1. TypeOK'
    BY <1>1, <1>2, <1>4 DEF JobInv, TypeOK, Unsubmitted
  <2>2. Creation' /\ TaskOwnership' /\ KeyRepeatsOnlyAfterLoss'
    BY <1>1, <1>3, <1>4, SameIdentifiers
       DEF JobInv, Creation, TaskOwnership, Unsubmitted, Acknowledged
  <2>3. OneTaskPerSubmission'
    <3>1. ASSUME NEW i \in Records
          PROVE  (Cardinality(Workers(i)) + Waiting(i) <= Cardinality(Named(i)))'
      <4>1. Workers(i)' = Workers(i) /\ Named(i)' = Named(i)
        BY <1>1, <1>4, SameIdentifiers DEF Workers, Unsubmitted
      <4>2. Waiting(i)' <= Waiting(i)
        <5>1. Waiting(i)' = 1 => Waiting(i) = 1
          BY <1>1, <1>3, <1>4, WaitingValue DEF Acknowledged
        <5> QED BY <1>1, <5>1, WaitingValue
      <4>3. Cardinality(Workers(i)) + Waiting(i) <= Cardinality(Named(i))
        BY DEF JobInv, OneTaskPerSubmission
      <4>4. /\ Cardinality(Workers(i)') = Cardinality(Workers(i))
            /\ Cardinality(Named(i)') = Cardinality(Named(i))
        BY <4>1
      <4>5. Waiting(i) \in {0, 1} /\ Waiting(i)' \in {0, 1}
        BY <1>1, WaitingValue
      <4> QED BY <4>2, <4>3, <4>4, <4>5, FiniteCounts
    <3>2. \A c \in cores : Unshared(c.claimed) =>
            status'[c.claimed] \in {"running", "cancel_requested", "cancelled"}
      BY <1>3, <1>4, CreatedRecords DEF JobInv, OneTaskPerSubmission, Acknowledged
    <3> QED BY <1>1, <1>4, <3>1, <3>2, SameIdentifiers DEF OneTaskPerSubmission
  <2>4. AttemptsBounded' /\ OutcomeMatchesPayload'
    BY <1>1, <1>3, <1>4, SameIdentifiers
       DEF JobInv, AttemptsBounded, OutcomeMatchesPayload, Unsubmitted, Acknowledged
  <2> QED BY <2>1, <2>2, <2>3, <2>4 DEF JobInv
<1>5. ASSUME NEW w \in Stored, status[w] = "queued", status'[w] = "running",
             cores' = cores \cup {TaskFor(w)},
             attempt_count' = [attempt_count EXCEPT ![w] = attempt_count[w] + 1],
             \A o \in Records : o # w => status'[o] = status[o] \/ Acknowledged(o)
      PROVE  JobInv'
  <2>1. w \in Records /\ w \in 1..created /\ attempt_count[w] \in Nat
    BY <1>3 DEF JobInv, TypeOK
  <2>2. /\ \A o \in Records : attempt_count'[o] \in Nat /\ attempt_count'[o] >= attempt_count[o]
        /\ \A o \in Records : o # w => attempt_count'[o] = attempt_count[o]
        /\ attempt_count'[w] = attempt_count[w] + 1
    BY <1>5, <2>1 DEF JobInv, TypeOK
  <2>3. /\ TaskFor(w) \in Cores /\ TaskFor(w).claimed = w /\ TaskFor(w).job = 0
        /\ TaskFor(w).attempt = attempt_count'[w] /\ TaskFor(w).attempt >= 1
    BY <2>1, <2>2 DEF TaskFor, Cores
  <2>4. TypeOK'
    <3>1. attempt_count' \in [Records -> Nat] /\ cores' \subseteq Cores
      BY <1>5, <2>1, <2>3 DEF JobInv, TypeOK
    <3> QED BY <1>1, <1>2, <3>1 DEF JobInv, TypeOK, Unsubmitted
  <2>5. Creation'
    BY <1>1, <1>3, <1>5, <2>1, <2>2 DEF JobInv, Creation, Unsubmitted, Acknowledged, Records
  <2>6. TaskOwnership'
    <3>1. IsFiniteSet(cores')
      BY <1>5, CountAfterAdding DEF JobInv, TaskOwnership
    <3>2. ASSUME NEW c \in cores
          PROVE  /\ c.claimed <= created'
                 /\ c.job # 0 => c.job <= created' /\ job_id'[c.job] = job_id'[c.claimed]
                 /\ c.attempt <= attempt_count'[c.claimed] /\ c.attempt >= 1
      <4>1. c.claimed \in Records /\ c.attempt \in Nat /\ attempt_count[c.claimed] \in Nat
        BY DEF JobInv, TypeOK, Cores
      <4> QED BY <1>1, <2>2, <4>1 DEF JobInv, TaskOwnership, Unsubmitted
    <3>3. TaskFor(w).claimed <= created' /\ TaskFor(w).attempt <= attempt_count'[w]
      BY <1>1, <2>1, <2>2, <2>3 DEF Unsubmitted
    <3> QED BY <1>5, <2>3, <3>1, <3>2, <3>3 DEF TaskOwnership
  <2>7. OneTaskPerSubmission'
    <3>1. ASSUME NEW i \in Records
          PROVE  (Cardinality(Workers(i)) + Waiting(i) <= Cardinality(Named(i)))'
      <4>1. Cardinality(Named(i)') = Cardinality(Named(i))
        BY <1>1, SameIdentifiers
      <4>2. Cardinality(Workers(i)) + Waiting(i) <= Cardinality(Named(i))
        BY DEF JobInv, OneTaskPerSubmission
      <4>3. Waiting(i) \in {0, 1} /\ Waiting(i)' \in {0, 1}
        BY <1>1, WaitingValue
      <4>4. CASE job_id[w] # i
        <5>1. Workers(i)' = Workers(i)
          BY <1>1, <1>5, <2>3, <4>4 DEF Workers, Unsubmitted
        <5>2. Waiting(i)' = 1 => Waiting(i) = 1
          BY <1>1, <1>3, <1>5, <4>4, WaitingValue DEF Acknowledged
        <5>3. Cardinality(Workers(i)') = Cardinality(Workers(i))
          BY <5>1
        <5> QED BY <4>1, <4>2, <4>3, <5>2, <5>3, FiniteCounts
      <4>5. CASE job_id[w] = i
        <5>1. Workers(i)' = Workers(i) \cup {TaskFor(w)}
          BY <1>1, <1>5, <2>3, <4>5 DEF Workers, Unsubmitted
        <5>2. Waiting(i) = 1
          BY <1>1, <1>5, <4>5, WaitingValue
        <5>3. Waiting(i)' = 0
          <6>1. \A o \in Stored : job_id[o] = i => o = w
            BY <4>5, OneStoredPerIdentifier
          <6> QED BY <1>1, <1>5, <6>1, WaitingValue
        <5>4. /\ Cardinality(Workers(i)') \in Nat
              /\ Cardinality(Workers(i)') <= Cardinality(Workers(i)) + 1
          BY <5>1, FiniteCounts, CountAfterAdding
        <5> QED BY <4>1, <4>2, <5>2, <5>3, <5>4, FiniteCounts
      <4> QED BY <4>4, <4>5
    <3>2. ASSUME NEW c \in cores', Unshared(c.claimed)
          PROVE  status'[c.claimed] \in {"running", "cancel_requested", "cancelled"}
      <4>1. CASE c \in cores
        <5>1. /\ status[c.claimed] \in {"running", "cancel_requested", "cancelled"}
              /\ c.claimed \in Records
          BY <1>3, <3>2, <4>1, CreatedRecords DEF JobInv, OneTaskPerSubmission
        <5> QED BY <1>5, <5>1 DEF Acknowledged
      <4>2. CASE c = TaskFor(w)
        BY <1>5, <2>3, <4>2
      <4> QED BY <1>5, <4>1, <4>2
    <3> QED BY <1>1, <3>1, <3>2, SameIdentifiers DEF OneTaskPerSubmission
  <2>8. AttemptsBounded'
    <3> SUFFICES ASSUME NEW o \in 1..created, Unshared(o)
                 PROVE  /\ attempt_count'[o] <= MaxAttempts
                        /\ status'[o] = "queued" => attempt_count'[o] < MaxAttempts
      BY <1>1, SameIdentifiers DEF AttemptsBounded, Unsubmitted
    <3>1. CASE o = w
      <4>1. attempt_count[w] < MaxAttempts
        BY <1>5, <2>1, <3>1 DEF JobInv, AttemptsBounded
      <4> QED BY <1>5, <2>1, <2>2, <3>1, <4>1, AttemptsAssumption
    <3>2. CASE o # w
      BY <1>3, <1>5, <2>2, <3>2 DEF JobInv, AttemptsBounded, Acknowledged
    <3> QED BY <3>1, <3>2
  <2>9. OutcomeMatchesPayload'
    <3> SUFFICES ASSUME NEW o \in 1..created
                 PROVE  /\ result[o] => /\ \E p \in Named(job_id[o]) : ~force_fail[p]
                                        /\ \E p \in Named(job_id[o]) : attempt_count'[p] >= 1
                        /\ status'[o] = "succeeded" => result[o]
                        /\ status'[o] = "failed" => \E p \in Named(job_id[o]) :
                             force_fail[p] /\ attempt_count'[p] >= MaxAttempts
      BY <1>1, SameIdentifiers DEF OutcomeMatchesPayload, Unsubmitted
    <3>1. Named(job_id[o]) \subseteq Records
      BY <1>3 DEF Named
    <3>2. \A p \in Records : attempt_count[p] \in Nat
      BY DEF JobInv, TypeOK
    <3>3. /\ status'[o] = "succeeded" => status[o] = "succeeded"
          /\ status'[o] = "failed" => status[o] = "failed"
      BY <1>3, <1>5 DEF Acknowledged
    <3>4. result[o] => /\ \E p \in Named(job_id[o]) : ~force_fail[p]
                       /\ \E p \in Named(job_id[o]) : attempt_count'[p] >= 1
      BY <2>2, <3>1, <3>2 DEF JobInv, OutcomeMatchesPayload
    <3>5. status'[o] = "failed" => \E p \in Named(job_id[o]) :
            force_fail[p] /\ attempt_count'[p] >= MaxAttempts
      BY <2>2, <3>1, <3>2, <3>3, AttemptsAssumption DEF JobInv, OutcomeMatchesPayload
    <3> QED BY <3>3, <3>4, <3>5 DEF JobInv, OutcomeMatchesPayload
  <2>10. KeyRepeatsOnlyAfterLoss'
    BY <1>1, SameIdentifiers DEF JobInv
  <2> QED BY <2>4, <2>5, <2>6, <2>7, <2>8, <2>9, <2>10 DEF JobInv
<1> QED BY <1>4, <1>5, PollStep, Zenon
(* A task that runs for the first time remembers the record it found. *)
LEMMA CoreStartInv ==
    ASSUME JobInv, NEW core \in cores, CoreStart(core)
    PROVE  JobInv'
<1>1. PICK current \in Records :
        /\ Resolves(core.claimed, current)
        /\ cores' = (cores \ {core}) \cup {[core EXCEPT !.job = current]}
  BY Zenon DEF CoreStart
<1>2. UNCHANGED <<store, worker, cancels>> /\ Unsubmitted
  BY DEF CoreStart, store, Unsubmitted
<1>3. core \in Cores /\ current \in 1..created /\ job_id[current] = job_id[core.claimed]
  BY <1>1, UnsharedJobIsFound, CreatedRecords
<1> DEFINE started == [core EXCEPT !.job = current]
<1>4. /\ started \in Cores
      /\ started.claimed = core.claimed /\ started.attempt = core.attempt
      /\ started.job = current
  BY <1>3 DEF Cores
<1> HIDE DEF started
<1>5. cores' = (cores \ {core}) \cup {started}
  BY <1>1 DEF started
<1>6. TypeOK'
  BY <1>2, <1>4, <1>5 DEF JobInv, TypeOK, store, worker
<1>7. TaskOwnership'
  <2>1. IsFiniteSet(cores')
    BY <1>5, CountAfterRemoving, CountAfterAdding DEF JobInv, TaskOwnership
  <2> QED BY <1>2, <1>3, <1>4, <1>5, <2>1, CreatedRecords DEF JobInv, TaskOwnership, store
<1>8. OneTaskPerSubmission'
  <2>1. ASSUME NEW i \in Records
        PROVE  (Cardinality(Workers(i)) + Waiting(i) <= Cardinality(Named(i)))'
    <3>1. Named(i)' = Named(i) /\ Waiting(i)' = Waiting(i)
      BY <1>2, SameIdentifiers DEF Waiting, StoredIn, store
    <3>2. Cardinality(Workers(i)) + Waiting(i) <= Cardinality(Named(i))
      BY DEF JobInv, OneTaskPerSubmission
    <3>3. Cardinality(Workers(i)') \in Nat /\ Cardinality(Workers(i)') <= Cardinality(Workers(i))
      <4>1. CASE job_id[core.claimed] = i
        <5>1. Workers(i)' = (Workers(i) \ {core}) \cup {started} /\ core \in Workers(i)
          BY <1>2, <1>4, <1>5, <4>1 DEF Workers, store
        <5>2. /\ IsFiniteSet(Workers(i) \ {core}) /\ Cardinality(Workers(i) \ {core}) \in Nat
              /\ Cardinality(Workers(i) \ {core}) + 1 = Cardinality(Workers(i))
          BY <5>1, FiniteCounts, CountAfterRemoving
        <5>3. /\ Cardinality((Workers(i) \ {core}) \cup {started}) \in Nat
              /\ Cardinality((Workers(i) \ {core}) \cup {started})
                   <= Cardinality(Workers(i) \ {core}) + 1
          BY <5>2, CountAfterAdding
        <5> QED BY <5>1, <5>2, <5>3
      <4>2. CASE job_id[core.claimed] # i
        <5>1. Workers(i)' = Workers(i)
          BY <1>2, <1>4, <1>5, <4>2 DEF Workers, store
        <5>2. Cardinality(Workers(i)') = Cardinality(Workers(i))
          BY <5>1
        <5> QED BY <5>2, FiniteCounts
      <4> QED BY <4>1, <4>2
    <3>4. /\ Cardinality(Named(i)') = Cardinality(Named(i))
          /\ Waiting(i)' = Waiting(i)
      BY <3>1
    <3> QED BY <3>2, <3>3, <3>4, FiniteCounts
  <2>2. \A c \in cores' : \E d \in cores : d.claimed = c.claimed
    BY <1>4, <1>5
  <2> QED BY <1>2, <2>1, <2>2, SameIdentifiers DEF JobInv, OneTaskPerSubmission, store
<1>9. Creation' /\ AttemptsBounded' /\ OutcomeMatchesPayload' /\ KeyRepeatsOnlyAfterLoss'
  BY <1>2, SameIdentifiers
     DEF JobInv, Creation, AttemptsBounded, OutcomeMatchesPayload, store
<1> QED BY <1>6, <1>7, <1>8, <1>9 DEF JobInv

(* A task ends: whatever it reports, what waits under its identifier now is *)
(* no more than what worked or waited under it before.                      *)
LEMMA CoreEndInv ==
    ASSUME JobInv, NEW core \in cores, NEW current \in Records, CoreEnd(core, current),
           NEW s \in {"queued", "succeeded", "failed", "cancelled"},
           status' = [status EXCEPT ![current] = s],
           s = "queued" => attempt_count[core.job] < MaxAttempts,
           s = "failed" => force_fail[core.job] /\ attempt_count[core.job] >= MaxAttempts,
           s = "succeeded" => /\ ~force_fail[core.job]
                              /\ result' = [result EXCEPT ![current] = TRUE],
           s # "succeeded" => UNCHANGED result
    PROVE  JobInv'
<1>1. /\ Resolves(core.claimed, current) /\ core.job # 0
      /\ cores' = cores \ {core}
      /\ Unsubmitted /\ UNCHANGED <<attempt_count, running, starts, cancels>>
  BY DEF CoreEnd, Unsubmitted, worker
<1>2. /\ core \in Cores /\ core.claimed \in 1..created
      /\ current \in Stored /\ current \in 1..created
      /\ job_id[core.claimed] = job_id[current]
      /\ core.job \in 1..created /\ job_id[core.job] = job_id[current]
      /\ Unshared(current) => core.claimed = current /\ core.job = current
      /\ Unshared(current) <=> Unshared(core.claimed)
  <2>1. current \in Stored
    BY <1>1 DEF Resolves
  <2> QED BY <1>1, <2>1, UnsharedJobIsFound, CreatedRecords, Zenon
<1>3. \A p \in Records : status'[p] = IF p = current THEN s ELSE status[p]
  BY DEF JobInv, TypeOK
<1>4. result' \in [Records -> BOOLEAN]
  BY Zenon DEF JobInv, TypeOK
<1>5. \A p \in Records : result'[p] = IF p = current /\ s = "succeeded" THEN TRUE
                                      ELSE result[p]
  BY Zenon DEF JobInv, TypeOK
<1>6. 1..created \subseteq Records /\ created \in Nat
  BY CreatedRecords
<1>7. TypeOK'
  <2>1. status' \in [Records -> Statuses]
    BY DEF JobInv, TypeOK, Statuses
  <2> QED BY <1>1, <1>4, <2>1 DEF JobInv, TypeOK, Unsubmitted
<1>8. Creation'
  <2>1. \A o \in Records : status'[o] = "absent" <=> o > created
    BY <1>2, <1>3, <1>6 DEF JobInv, Creation, Records
  <2>2. \A o \in Records : o > created => o # current
    BY <1>2, <1>6 DEF Records
  <2>3. \A o \in Records : o > created => attempt_count[o] = 0 /\ ~result'[o]
    BY <1>5, <2>2, Zenon DEF JobInv, Creation
  <2> QED BY <1>1, <2>1, <2>3 DEF JobInv, Creation, Unsubmitted
<1>9. TaskOwnership' /\ KeyRepeatsOnlyAfterLoss'
  <2>1. IsFiniteSet(cores')
    BY <1>1, CountAfterRemoving DEF JobInv, TaskOwnership
  <2> QED BY <1>1, <2>1, SameIdentifiers DEF JobInv, TaskOwnership, Unsubmitted
<1>10. OneTaskPerSubmission'
  <2>1. ASSUME NEW i \in Records
        PROVE  (Cardinality(Workers(i)) + Waiting(i) <= Cardinality(Named(i)))'
    <3>1. Cardinality(Named(i)') = Cardinality(Named(i))
      BY <1>1, SameIdentifiers
    <3>2. Cardinality(Workers(i)) + Waiting(i) <= Cardinality(Named(i))
      BY DEF JobInv, OneTaskPerSubmission
    <3>3. Waiting(i) \in {0, 1} /\ Waiting(i)' \in {0, 1}
      BY <1>1, WaitingValue
    <3>4. CASE job_id[current] = i
      <4>1. Workers(i)' = Workers(i) \ {core} /\ core \in Workers(i)
        BY <1>1, <1>2, <3>4 DEF Workers, Unsubmitted
      <4>2. /\ Cardinality(Workers(i)') \in Nat
            /\ Cardinality(Workers(i)') + 1 = Cardinality(Workers(i))
        BY <4>1, FiniteCounts, CountAfterRemoving
      <4> QED BY <3>1, <3>2, <3>3, <4>2, FiniteCounts
    <3>5. CASE job_id[current] # i
      <4>1. Workers(i)' = Workers(i)
        BY <1>1, <1>2, <3>5 DEF Workers, Unsubmitted
      <4>2. Waiting(i)' = 1 => Waiting(i) = 1
        BY <1>1, <1>3, <1>6, <3>5, WaitingValue, CreatedRecords
      <4>3. Cardinality(Workers(i)') = Cardinality(Workers(i))
        BY <4>1
      <4> QED BY <3>1, <3>2, <3>3, <4>2, <4>3, FiniteCounts
    <3> QED BY <3>4, <3>5
  <2>2. ASSUME NEW c \in cores', Unshared(c.claimed)
        PROVE  status'[c.claimed] \in {"running", "cancel_requested", "cancelled"}
    <3>1. c \in cores /\ c # core /\ c.claimed \in 1..created
      BY <1>1, CreatedRecords
    <3>2. c.claimed # current
      <4> SUFFICES ASSUME c.claimed = current PROVE FALSE
        OBVIOUS
      <4>1. core.claimed = c.claimed
        BY <1>2, <2>2
      <4> QED BY <2>2, <3>1, <4>1, UnsharedJobHasOneTask
    <3> QED BY <1>3, <1>6, <2>2, <3>1, <3>2 DEF JobInv, OneTaskPerSubmission
  <2> QED BY <1>1, <2>1, <2>2, SameIdentifiers DEF OneTaskPerSubmission
<1>11. AttemptsBounded'
  <2> SUFFICES ASSUME NEW o \in 1..created, Unshared(o)
               PROVE  /\ attempt_count[o] <= MaxAttempts
                      /\ status'[o] = "queued" => attempt_count[o] < MaxAttempts
    BY <1>1, SameIdentifiers DEF AttemptsBounded, Unsubmitted
  <2> QED BY <1>2, <1>3, <1>6 DEF JobInv, AttemptsBounded
<1>12. OutcomeMatchesPayload'
  <2> SUFFICES ASSUME NEW o \in 1..created
               PROVE  /\ result'[o] => /\ \E p \in Named(job_id[o]) : ~force_fail[p]
                                       /\ \E p \in Named(job_id[o]) : attempt_count[p] >= 1
                      /\ status'[o] = "succeeded" => result'[o]
                      /\ status'[o] = "failed" => \E p \in Named(job_id[o]) :
                           force_fail[p] /\ attempt_count[p] >= MaxAttempts
    BY <1>1, SameIdentifiers DEF OutcomeMatchesPayload, Unsubmitted
  <2>1. CASE o # current
    <3>1. o \in Records /\ status'[o] = status[o]
      BY <1>3, <1>6, <2>1
    <3>2. result'[o] = result[o]
      BY <1>5, <2>1, <3>1, Zenon
    <3> QED BY <3>1, <3>2 DEF JobInv, OutcomeMatchesPayload
  <2>2. CASE o = current
    <3>1. core.job \in Named(job_id[o]) /\ core.claimed \in Named(job_id[o])
      BY <1>2, <2>2 DEF Named
    <3>2. attempt_count[core.claimed] >= 1
      <4>1. core.attempt \in Nat /\ attempt_count[core.claimed] \in Nat
        BY <1>2 DEF JobInv, TypeOK, Cores
      <4> QED BY <4>1 DEF JobInv, TaskOwnership
    <3>3. /\ status'[o] = s /\ (s = "succeeded" => result'[o])
          /\ (s # "succeeded" => result'[o] = result[o])
      BY <1>3, <1>5, <2>2, Zenon
    <3>4. result[o] => \E p \in Named(job_id[o]) : ~force_fail[p]
      BY Zenon DEF JobInv, OutcomeMatchesPayload
    <3>5. result'[o] => \E p \in Named(job_id[o]) : ~force_fail[p]
      BY <3>1, <3>3, <3>4, Zenon
    <3> QED BY <3>1, <3>2, <3>3, <3>5
  <2> QED BY <2>1, <2>2
<1> QED BY <1>7, <1>8, <1>9, <1>10, <1>11, <1>12 DEF JobInv

(* What a task reports *)
LEMMA CoreStepInv ==
    ASSUME JobInv, NEW core \in cores, CoreStep(core)
    PROVE  JobInv'
<1>1. CASE CoreStart(core)
  BY <1>1, CoreStartInv
<1>2. CASE CoreCancels(core)
  <2>1. PICK current \in Records :
          /\ CoreEnd(core, current)
          /\ status' = [status EXCEPT ![current] = "cancelled"]
          /\ UNCHANGED result
    BY <1>2, Zenon DEF CoreCancels
  <2> QED BY <2>1, CoreEndInv
<1>3. CASE CoreSucceeds(core)
  <2>1. PICK current \in Records :
          /\ CoreEnd(core, current)
          /\ ~force_fail[core.job]
          /\ status' = [status EXCEPT ![current] = "succeeded"]
          /\ result' = [result EXCEPT ![current] = TRUE]
    BY <1>3, Zenon DEF CoreSucceeds
  <2> QED BY <2>1, CoreEndInv
<1>4. CASE CoreFails(core)
  <2>1. PICK current \in Records :
          /\ CoreEnd(core, current)
          /\ force_fail[core.job]
          /\ status' = [status EXCEPT ![current] = StatusAfterFailure(core.job)]
          /\ UNCHANGED result
    BY <1>4, Zenon DEF CoreFails
  <2>2. attempt_count[core.job] \in Nat
    <3>1. core.job \in 1..created
      BY <2>1, UnsharedJobIsFound DEF CoreEnd
    <3> QED BY <3>1, CreatedRecords DEF JobInv, TypeOK
  <2>3. StatusAfterFailure(core.job) =
          IF attempt_count[core.job] < MaxAttempts THEN "queued" ELSE "failed"
    BY DEF StatusAfterFailure, Retries
  <2>4. CASE attempt_count[core.job] < MaxAttempts
    <3>1. status' = [status EXCEPT ![current] = "queued"]
      BY <2>1, <2>3, <2>4
    <3> QED BY <2>1, <2>4, <3>1, CoreEndInv
  <2>5. CASE attempt_count[core.job] >= MaxAttempts
    <3>1. StatusAfterFailure(core.job) = "failed"
      BY <2>2, <2>3, <2>5, AttemptsAssumption
    <3>2. status' = [status EXCEPT ![current] = "failed"]
      BY <2>1, <3>1, Zenon
    <3> QED BY <2>1, <2>5, <3>2, CoreEndInv
  <2> QED BY <2>2, <2>4, <2>5, AttemptsAssumption
<1> QED BY <1>1, <1>2, <1>3, <1>4 DEF CoreStep

LEMMA NextJobInv ==
    ASSUME JobInv, [Next]_vars
    PROVE  JobInv'
<1>1. ASSUME NEW request \in Requests, Submit(request[1], request[2])
      PROVE  JobInv'
  <2>1. request \in Keys \X BOOLEAN
    BY KeysAssumption, Zenon
  <2>2. request[1] \in Keys /\ request[2] \in BOOLEAN
    BY <2>1
  <2> QED BY <1>1, <2>2, SubmitInv
<1>2. CASE \E o \in Records : RequestCancel(o)
  BY <1>2, RequestCancelInv
<1>3. CASE StartWorker \/ StopWorker \/ UNCHANGED vars
  BY <1>3, StartStopInv
<1>4. CASE Poll
  BY <1>4, PollInv
<1>5. CASE \E core \in cores : CoreStep(core)
  BY <1>5, CoreStepInv
<1> QED BY <1>1, <1>2, <1>3, <1>4, <1>5, Zenon DEF Next
-----------------------------------------------------------------------------
(* However clients, the polling loop and the tasks interleave, and whatever *)
(* the clock shows at a submission, the invariant of the worker holds       *)
(* (store.py, worker.py).                                                   *)
THEOREM JobInvariance == Spec => []JobInv
<1>1. JobInv /\ [Next]_vars => JobInv'
  BY NextJobInv
<1> QED BY <1>1, InitJobInv, PTL DEF Spec

(* The store and the tasks keep their types (models.py:6-18). *)
THEOREM JobTypes == Spec => []TypeOK
<1>1. JobInv => TypeOK
  BY DEF JobInv
<1> QED BY <1>1, JobInvariance, PTL

(* Under one identifier no more tasks work or wait than records were        *)
(* created under it, and a job with an identifier of its own is not waiting *)
(* to be claimed, nor finished, while its task works (store.py:14-26,       *)
(* worker.py:36-43, 69-78).                                                 *)
THEOREM OneTaskForEachSubmission == Spec => []OneTaskPerSubmission
<1>1. JobInv => OneTaskPerSubmission
  BY DEF JobInv
<1> QED BY <1>1, JobInvariance, PTL

(* No job with an identifier of its own is attempted more often than        *)
(* max_attempts (worker.py:73-78).                                          *)
THEOREM AttemptsAreBounded == Spec => []AttemptsBounded
<1>1. JobInv => AttemptsBounded
  BY DEF JobInv
<1> QED BY <1>1, JobInvariance, PTL

(* Results come from computations of their identifier that succeeded,       *)
(* failures from one with an exhausted budget (worker.py:64-78).            *)
THEOREM OutcomesAreHonest == Spec => []OutcomeMatchesPayload
<1>1. JobInv => OutcomeMatchesPayload
  BY DEF JobInv
<1> QED BY <1>1, JobInvariance, PTL

(* An idempotency key has one record until a later one with the same        *)
(* identifier replaces it (store.py:14-26).                                 *)
THEOREM KeysRepeatOnlyAfterLoss == Spec => []KeyRepeatsOnlyAfterLoss
<1>1. JobInv => KeyRepeatsOnlyAfterLoss
  BY DEF JobInv
<1> QED BY <1>1, JobInvariance, PTL
-----------------------------------------------------------------------------
(* The refinement: every step is a step of JobContract for one job, or for  *)
(* the two that come to share an identifier, or none                        *)

(* What the phase and the tries of a job depend on *)
PhaseIn(o, s, unshared, worked) ==
    IF s = "absent" THEN "absent" ELSE IF ~unshared THEN "shared"
    ELSE IF s = "queued" THEN "pending" ELSE IF worked THEN "active" ELSE "settled"

LEMMA PhaseValue ==
    ASSUME NEW o \in Records
    PROVE  /\ phase[o] = PhaseIn(o, status[o], Unshared(o), WorkedOn(o))
           /\ phase'[o] = PhaseIn(o, status'[o], Unshared(o)', WorkedOn(o)')
           /\ tries[o] = IF phase[o] = "shared" THEN 0 ELSE attempt_count[o]
           /\ tries'[o] = IF phase'[o] = "shared" THEN 0 ELSE attempt_count'[o]
<1>1. phase[o] = PhaseIn(o, status[o], Unshared(o), WorkedOn(o))
  BY DEF phase, PhaseIn
<1>2. phase'[o] = PhaseIn(o, status'[o], Unshared(o)', WorkedOn(o)')
  BY DEF phase, PhaseIn
<1>3. /\ tries[o] = IF phase[o] = "shared" THEN 0 ELSE attempt_count[o]
      /\ tries'[o] = IF phase'[o] = "shared" THEN 0 ELSE attempt_count'[o]
  BY DEF tries
<1> QED BY <1>1, <1>2, <1>3

(* A step that changes the phase of one job moves that job *)
LEMMA OneJobMoves ==
    ASSUME NEW job \in Records, NEW from, NEW to, phase[job] \in from, phase'[job] = to,
           \A o \in Records : o # job => phase'[o] = phase[o]
    PROVE  Contract!Move(job, from, to)
<1>1. phase' = [phase EXCEPT ![job] = to]
  BY DEF phase
<1> QED BY <1>1 DEF Contract!Move

LEMMA NoJobMoves ==
    ASSUME \A o \in Records : phase'[o] = phase[o] /\ tries'[o] = tries[o]
    PROVE  UNCHANGED <<phase, tries>>
BY DEF phase, tries

(* What is not submitted keeps the phase and the tries of a job, unless the *)
(* job has its own identifier and something happens to it.                  *)
LEMMA JobStays ==
    ASSUME JobInv, JobInv', Unsubmitted, NEW o \in Records,
           o \in 1..created /\ Unshared(o) =>
              /\ status'[o] = "queued" <=> status[o] = "queued"
              /\ status[o] # "queued" => (WorkedOn(o)' <=> WorkedOn(o))
              /\ attempt_count'[o] = attempt_count[o]
    PROVE  phase'[o] = phase[o] /\ tries'[o] = tries[o]
<1>1. Unshared(o)' <=> Unshared(o)
  BY SameIdentifiers
<1>2. created' = created /\ created \in Nat
  BY CreatedRecords DEF Unsubmitted
<1>3. o \in 1..created \/ o > created
  BY <1>2 DEF Records
<1>4. CASE o > created
  <2>1. status[o] = "absent" /\ status'[o] = "absent" /\ attempt_count[o] = 0 /\ attempt_count'[o] = 0
    BY <1>2, <1>4 DEF JobInv, Creation
  <2> QED BY <2>1, PhaseValue DEF PhaseIn
<1>5. CASE o \in 1..created
  <2>1. status[o] # "absent" /\ status'[o] # "absent"
    <3>1. ~(o > created)
      BY <1>2, <1>5
    <3> QED BY <1>2, <3>1 DEF JobInv, Creation
  <2>2. CASE ~Unshared(o)
    BY <1>1, <2>1, <2>2, PhaseValue DEF PhaseIn
  <2>3. CASE Unshared(o)
    BY <1>1, <1>5, <2>1, <2>3, PhaseValue DEF PhaseIn
  <2> QED BY <2>2, <2>3
<1> QED BY <1>3, <1>4, <1>5

(* A submission is that of a new job, or its identifier becomes shared *)
LEMMA SubmitRefines ==
    ASSUME JobInv, NEW key, NEW fails, key \in Keys, fails \in BOOLEAN, Submit(key, fails)
    PROVE  Contract!Next
<1>0. PICK new \in Records : new = NewRecord
  BY SubmitStep, Zenon
<1>1. /\ new \in Records /\ new \notin 1..created /\ created' = new
      /\ 1..created' = 1..created \cup {new}
      /\ UNCHANGED <<attempt_count, cores>>
      /\ status' = [status EXCEPT ![new] = "queued"]
      /\ status[new] = "absent" /\ status'[new] = "queued"
      /\ attempt_count[new] = 0
  BY <1>0, SubmitStep, Zenon
<1>2. PICK id \in {job_id[o] : o \in 1..created} \cup {new} :
        id \in Records /\ job_id' = [job_id EXCEPT ![new] = id]
  BY <1>0, SubmitStep, Zenon
<1>3. \A o \in 1..created : job_id'[o] = job_id[o]
  BY SubmitStep, Zenon
<1>4. job_id'[new] = id
  BY <1>1, <1>2 DEF JobInv, TypeOK
<1>5. \A o \in Records : o # new => status'[o] = status[o]
  BY <1>1 DEF JobInv, TypeOK
<1>6. \A o \in Records : WorkedOn(o)' <=> WorkedOn(o)
  BY <1>1 DEF WorkedOn
<1>7. phase[new] = "absent" /\ tries[new] = 0
  BY <1>1, PhaseValue DEF PhaseIn
<1>8. ASSUME NEW o \in Records, o # new, o \in 1..created => job_id[o] # id
      PROVE  phase'[o] = phase[o] /\ tries'[o] = tries[o]
  <2>1. CASE o \in 1..created
    <3>1. Unshared(o)' <=> Unshared(o)
      BY <1>1, <1>3, <1>4, <1>8, <2>1 DEF Unshared
    <3> QED BY <1>1, <1>5, <1>6, <1>8, <3>1, PhaseValue DEF PhaseIn
  <2>2. CASE o \notin 1..created
    <3>1. status[o] = "absent"
      BY <2>2, CreatedRecords DEF JobInv, Creation, Records
    <3> QED BY <1>1, <1>5, <1>8, <3>1, PhaseValue DEF PhaseIn
  <2> QED BY <2>1, <2>2
<1>9. CASE \A o \in 1..created : job_id[o] # id
  <2>1. Unshared(new)'
    BY <1>1, <1>3, <1>4, <1>9 DEF Unshared
  <2>2. phase'[new] = "pending" /\ tries'[new] = 0
    BY <1>1, <2>1, PhaseValue DEF PhaseIn
  <2>3. \A o \in Records : o # new => phase'[o] = phase[o]
    BY <1>8, <1>9
  <2>4. \A o \in Records : tries'[o] = tries[o]
    BY <1>7, <1>8, <1>9, <2>2
  <2>5. Contract!Move(new, {"absent"}, "pending")
    BY <1>1, <1>7, <2>2, <2>3, OneJobMoves
  <2>6. tries' = tries
    BY <2>4 DEF tries
  <2> QED BY <1>1, <2>5, <2>6 DEF Contract!Next, Contract!Submit
<1>10. ASSUME NEW old \in 1..created, job_id[old] = id
       PROVE  Contract!Share(new, old)
  <2>1. old \in Records /\ old # new /\ status[old] # "absent"
    BY <1>1, CreatedRecords DEF JobInv, Creation
  <2>2. phase[old] # "absent"
    BY <2>1, PhaseValue DEF PhaseIn
  <2>3. \A o \in 1..created : job_id[o] = id => ~Unshared(o)'
    BY <1>1, <1>3, <1>4 DEF Unshared
  <2>4. ~Unshared(new)'
    BY <1>1, <1>3, <1>4, <1>10 DEF Unshared
  <2>5. /\ phase'[new] = "shared" /\ phase'[old] = "shared"
        /\ tries'[new] = 0 /\ tries'[old] = 0
    BY <1>1, <1>5, <1>10, <2>1, <2>3, <2>4, PhaseValue DEF PhaseIn
  <2>6. ASSUME NEW o \in Records, o # new, o # old
        PROVE  phase'[o] = phase[o] /\ tries'[o] = tries[o]
    <3>1. CASE o \in 1..created /\ job_id[o] = id
      <4>1. ~Unshared(o) /\ ~Unshared(o)'
        BY <1>10, <2>3, <2>6, <3>1 DEF Unshared
      <4> QED BY <1>1, <1>5, <2>6, <4>1, PhaseValue DEF PhaseIn
    <3>2. CASE o \in 1..created => job_id[o] # id
      BY <1>8, <2>6, <3>2
    <3> QED BY <3>1, <3>2
  <2>7. phase' = [phase EXCEPT ![new] = "shared", ![old] = "shared"]
    BY <1>1, <2>1, <2>5, <2>6 DEF phase
  <2>8. tries' = [tries EXCEPT ![new] = 0, ![old] = 0]
    BY <1>1, <2>1, <2>5, <2>6 DEF tries
  <2> QED BY <1>7, <2>2, <2>7, <2>8 DEF Contract!Share
<1>11. CASE \E old \in 1..created : job_id[old] = id
  <2>1. PICK old \in 1..created : job_id[old] = id
    BY <1>11
  <2>2. Contract!Share(new, old) /\ old \in Records
    BY <1>10, <2>1, CreatedRecords
  <2> QED BY <1>1, <2>2 DEF Contract!Next
<1> QED BY <1>9, <1>11
LEMMA RequestCancelRefines ==
    ASSUME JobInv, JobInv', NEW o \in Records, RequestCancel(o)
    PROVE  Contract!Next \/ UNCHANGED <<phase, tries>>
<1>1. /\ status' = [status EXCEPT ![o] = "cancel_requested"]
      /\ UNCHANGED <<attempt_count, cores>> /\ Unsubmitted
      /\ o \in 1..created
  BY DEF RequestCancel, Stored, Unsubmitted
<1>2. \A p \in Records : WorkedOn(p)' <=> WorkedOn(p)
  BY <1>1 DEF WorkedOn
<1>3. \A p \in Records : status'[p] = IF p = o THEN "cancel_requested" ELSE status[p]
  BY <1>1 DEF JobInv, TypeOK
<1>4. \A p \in Records : p # o => phase'[p] = phase[p] /\ tries'[p] = tries[p]
  BY <1>1, <1>2, <1>3, JobStays
<1>5. CASE status[o] = "queued" /\ Unshared(o)
  <2>1. ~WorkedOn(o)
    BY <1>5 DEF JobInv, OneTaskPerSubmission, WorkedOn
  <2>2. Unshared(o)'
    BY <1>1, <1>5, SameIdentifiers
  <2>3. phase[o] = "pending" /\ phase'[o] = "settled"
    BY <1>2, <1>3, <1>5, <2>1, <2>2, PhaseValue DEF PhaseIn
  <2>4. tries'[o] = tries[o]
    BY <1>1, <2>3, PhaseValue
  <2>5. tries' = tries
    BY <1>4, <2>4 DEF tries
  <2>6. Contract!Move(o, {"pending", "active"}, "settled")
    BY <1>4, <2>3, OneJobMoves
  <2> QED BY <2>5, <2>6 DEF Contract!Next, Contract!Settle
<1>6. CASE ~(status[o] = "queued" /\ Unshared(o))
  <2>1. phase'[o] = phase[o] /\ tries'[o] = tries[o]
    BY <1>1, <1>2, <1>3, <1>6, JobStays
  <2> QED BY <1>4, <2>1, NoJobMoves
<1> QED BY <1>5, <1>6

LEMMA StartStopRefines ==
    ASSUME JobInv, JobInv', StartWorker \/ StopWorker \/ UNCHANGED vars
    PROVE  UNCHANGED <<phase, tries>>
<1>1. UNCHANGED <<status, cores, attempt_count>> /\ Unsubmitted
  BY DEF StartWorker, StopWorker, vars, store, Unsubmitted
<1>2. \A p \in Records : WorkedOn(p)' <=> WorkedOn(p)
  BY <1>1 DEF WorkedOn
<1>3. \A p \in Records : phase'[p] = phase[p] /\ tries'[p] = tries[p]
  BY <1>1, <1>2, JobStays
<1> QED BY <1>3, NoJobMoves

(* The polling loop claims one job; acknowledging a cancellation leaves the *)
(* job with its task, or settled.                                           *)
LEMMA PollRefines ==
    ASSUME JobInv, JobInv', Poll
    PROVE  Contract!Next \/ UNCHANGED <<phase, tries>>
<1>1. Unsubmitted /\ 1..created \subseteq Records /\ Stored \subseteq 1..created
  BY PollStep, CreatedRecords
<1>2. CASE /\ UNCHANGED <<cores, attempt_count>>
           /\ \A o \in Records : status'[o] = status[o] \/ Acknowledged(o)
  <2>1. \A o \in Records : WorkedOn(o)' <=> WorkedOn(o)
    BY <1>2 DEF WorkedOn
  <2>2. \A o \in Records : phase'[o] = phase[o] /\ tries'[o] = tries[o]
    BY <1>1, <1>2, <2>1, JobStays DEF Acknowledged
  <2> QED BY <2>2, NoJobMoves
<1>3. ASSUME NEW w \in Stored, status[w] = "queued", status'[w] = "running",
             cores' = cores \cup {TaskFor(w)},
             attempt_count' = [attempt_count EXCEPT ![w] = attempt_count[w] + 1],
             \A o \in Records : o # w => status'[o] = status[o] \/ Acknowledged(o)
      PROVE  Contract!Next \/ UNCHANGED <<phase, tries>>
  <2>1. w \in Records /\ w \in 1..created /\ TaskFor(w).claimed = w
    BY <1>1 DEF TaskFor
  <2>2. \A o \in Records : WorkedOn(o)' <=> WorkedOn(o) \/ o = w
    BY <1>3, <2>1 DEF WorkedOn
  <2>3. \A o \in Records : o # w => attempt_count'[o] = attempt_count[o]
    BY <1>3, <2>1 DEF JobInv, TypeOK
  <2>4. \A o \in Records : o # w => phase'[o] = phase[o] /\ tries'[o] = tries[o]
    BY <1>1, <1>3, <2>2, <2>3, JobStays DEF Acknowledged
  <2>5. CASE ~Unshared(w)
    <3>1. phase'[w] = phase[w] /\ tries'[w] = tries[w]
      BY <1>1, <2>1, <2>5, JobStays
    <3> QED BY <2>4, <3>1, NoJobMoves
  <2>6. CASE Unshared(w)
    <3>1. Unshared(w)'
      BY <1>1, <2>6, SameIdentifiers
    <3>2. phase[w] = "pending" /\ phase'[w] = "active"
      BY <1>3, <2>1, <2>2, <2>6, <3>1, PhaseValue DEF PhaseIn
    <3>3. attempt_count'[w] = attempt_count[w] + 1
      BY <1>3, <2>1 DEF JobInv, TypeOK
    <3>4. tries[w] = attempt_count[w] /\ tries'[w] = attempt_count[w] + 1
      BY <2>1, <3>2, <3>3, PhaseValue
    <3>5. attempt_count[w] < MaxAttempts
      BY <1>3, <2>1, <2>6 DEF JobInv, AttemptsBounded
    <3>6. tries' = [tries EXCEPT ![w] = @ + 1]
      BY <2>1, <2>4, <3>4 DEF tries
    <3>7. Contract!Move(w, {"pending"}, "active")
      BY <2>1, <2>4, <3>2, OneJobMoves
    <3> QED BY <2>1, <3>4, <3>5, <3>6, <3>7 DEF Contract!Next, Contract!Claim
  <2> QED BY <2>5, <2>6
<1> QED BY <1>2, <1>3, PollStep, Zenon

(* A task that ends hands its job back or settles it; of a job that shares  *)
(* its identifier nothing was promised.                                     *)
LEMMA CoreEndRefines ==
    ASSUME JobInv, JobInv', NEW core \in cores, NEW current \in Records, CoreEnd(core, current),
           NEW s \in {"queued", "succeeded", "failed", "cancelled"},
           status' = [status EXCEPT ![current] = s],
           s = "queued" => attempt_count[core.job] < MaxAttempts
    PROVE  Contract!Next \/ UNCHANGED <<phase, tries>>
<1>1. /\ cores' = cores \ {core} /\ UNCHANGED attempt_count /\ Unsubmitted
      /\ Resolves(core.claimed, current) /\ core.job # 0
  BY DEF CoreEnd, Unsubmitted
<1>2. /\ current \in 1..created
      /\ Unshared(current) => core.claimed = current /\ core.job = current
      /\ Unshared(current) <=> Unshared(core.claimed)
  BY <1>1, UnsharedJobIsFound, Zenon
<1>3. \A o \in Records : status'[o] = IF o = current THEN s ELSE status[o]
  BY DEF JobInv, TypeOK
<1>4. \A o \in Records : o # core.claimed => (WorkedOn(o)' <=> WorkedOn(o))
  BY <1>1 DEF WorkedOn
<1>5. CASE ~Unshared(current)
  <2>1. \A o \in Records : phase'[o] = phase[o] /\ tries'[o] = tries[o]
    BY <1>1, <1>2, <1>3, <1>4, <1>5, JobStays
  <2> QED BY <2>1, NoJobMoves
<1>6. CASE Unshared(current)
  <2>1. core.claimed = current /\ core.job = current /\ Unshared(current)'
    BY <1>1, <1>2, <1>6, SameIdentifiers
  <2>2. WorkedOn(current)
    BY <2>1 DEF WorkedOn
  <2>3. ~WorkedOn(current)'
    <3>1. \A c \in cores : c.claimed = current => c = core
      BY <1>6, <2>1, UnsharedJobHasOneTask
    <3> QED BY <1>1, <3>1 DEF WorkedOn
  <2>4. \A o \in Records : o # current => phase'[o] = phase[o] /\ tries'[o] = tries[o]
    BY <1>1, <1>3, <1>4, <2>1, JobStays
  <2>5. phase[current] = "active"
    <3>1. status[current] \in {"running", "cancel_requested", "cancelled"}
      BY <1>6, <2>1 DEF JobInv, OneTaskPerSubmission
    <3> QED BY <1>6, <2>2, <3>1, PhaseValue DEF PhaseIn
  <2>6. phase'[current] = IF s = "queued" THEN "pending" ELSE "settled"
    BY <1>3, <2>1, <2>3, PhaseValue DEF PhaseIn
  <2>7. tries[current] = attempt_count[current] /\ tries'[current] = tries[current]
    BY <1>1, <2>5, <2>6, PhaseValue
  <2>8. tries' = tries
    BY <2>4, <2>7 DEF tries
  <2>9. CASE s = "queued"
    <3>1. Contract!Move(current, {"active"}, "pending")
      BY <2>4, <2>5, <2>6, <2>9, OneJobMoves
    <3> QED BY <2>1, <2>7, <2>8, <2>9, <3>1 DEF Contract!Next, Contract!Requeue
  <2>10. CASE s # "queued"
    <3>1. Contract!Move(current, {"pending", "active"}, "settled")
      BY <2>4, <2>5, <2>6, <2>10, OneJobMoves
    <3> QED BY <2>8, <3>1 DEF Contract!Next, Contract!Settle
  <2> QED BY <2>9, <2>10
<1> QED BY <1>5, <1>6

LEMMA CoreStepRefines ==
    ASSUME JobInv, JobInv', NEW core \in cores, CoreStep(core)
    PROVE  Contract!Next \/ UNCHANGED <<phase, tries>>
<1>1. CASE CoreStart(core)
  <2>1. PICK current \in Records :
          cores' = (cores \ {core}) \cup {[core EXCEPT !.job = current]}
    BY <1>1, Zenon DEF CoreStart
  <2>2. core \in Cores /\ UNCHANGED <<status, attempt_count>> /\ Unsubmitted
    BY <1>1 DEF CoreStart, store, JobInv, TypeOK, Unsubmitted
  <2>3. [core EXCEPT !.job = current].claimed = core.claimed
    BY <2>2 DEF Cores
  <2>4. \A o \in Records : WorkedOn(o)' <=> WorkedOn(o)
    BY <2>1, <2>3 DEF WorkedOn
  <2>5. \A o \in Records : phase'[o] = phase[o] /\ tries'[o] = tries[o]
    BY <2>2, <2>4, JobStays
  <2> QED BY <2>5, NoJobMoves
<1>2. CASE CoreCancels(core)
  <2>1. PICK current \in Records :
          CoreEnd(core, current) /\ status' = [status EXCEPT ![current] = "cancelled"]
    BY <1>2, Zenon DEF CoreCancels
  <2> QED BY <2>1, CoreEndRefines
<1>3. CASE CoreSucceeds(core)
  <2>1. PICK current \in Records :
          CoreEnd(core, current) /\ status' = [status EXCEPT ![current] = "succeeded"]
    BY <1>3, Zenon DEF CoreSucceeds
  <2> QED BY <2>1, CoreEndRefines
<1>4. CASE CoreFails(core)
  <2>1. PICK current \in Records :
          /\ CoreEnd(core, current)
          /\ status' = [status EXCEPT ![current] = StatusAfterFailure(core.job)]
    BY <1>4, Zenon DEF CoreFails
  <2>2. /\ StatusAfterFailure(core.job) \in {"queued", "failed"}
        /\ StatusAfterFailure(core.job) = "queued" => attempt_count[core.job] < MaxAttempts
    BY DEF StatusAfterFailure, Retries
  <2> QED BY <2>1, <2>2, CoreEndRefines
<1> QED BY <1>1, <1>2, <1>3, <1>4 DEF CoreStep

(* The worker keeps its contract (worker.py:25-78, store.py:12-43): as long *)
(* as its identifier is its own, a job is worked on by one task at a time,  *)
(* at most max_attempts times, and nobody works on it again once it has     *)
(* settled.                                                                 *)
THEOREM WorkerImplementsContract == Spec => ImplementsContract
<1>1. Init => Contract!Init
  BY DEF Init, phase, tries, Contract!Init
<1>2. JobInv /\ JobInv' /\ [Next]_vars => [Contract!Next]_<<phase, tries>>
  <2> SUFFICES ASSUME JobInv, JobInv', [Next]_vars
               PROVE  Contract!Next \/ UNCHANGED <<phase, tries>>
    BY Zenon
  <2>1. ASSUME NEW request \in Requests, Submit(request[1], request[2])
        PROVE  Contract!Next
    <3>1. request \in Keys \X BOOLEAN
      BY KeysAssumption, Zenon
    <3>2. request[1] \in Keys /\ request[2] \in BOOLEAN
      BY <3>1
    <3> QED BY <2>1, <3>2, SubmitRefines
  <2>2. CASE \E o \in Records : RequestCancel(o)
    BY <2>2, RequestCancelRefines
  <2>3. CASE StartWorker \/ StopWorker \/ UNCHANGED vars
    BY <2>3, StartStopRefines
  <2>4. CASE Poll
    BY <2>4, PollRefines
  <2>5. CASE \E core \in cores : CoreStep(core)
    BY <2>5, CoreStepRefines
  <2> QED BY <2>1, <2>2, <2>3, <2>4, <2>5, Zenon DEF Next
<1>3. JobInv /\ [Next]_vars => JobInv'
  BY NextJobInv
<1> QED BY <1>1, <1>2, <1>3, JobInvariance, PTL DEF Spec, ImplementsContract, Contract!Spec
=============================================================================
