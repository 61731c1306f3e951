------------------------- MODULE MemoryStoreProofs -------------------------
(***************************************************************************)
(* Proofs about the memory stores, for every number of stores, namespaces, *)
(* keys and records.                                                       *)
(***************************************************************************)
EXTENDS MemoryStore, TLAPS

TxStates == {"none", "begun", "reading", "writing", "committing", "closed"}

(* A table whose rows are still there, as they were identified, in another *)
Keeps(old, new) ==
    \A identity \in Identities : old[identity] # NoRow =>
        /\ new[identity] # NoRow
        /\ new[identity].memory_id = old[identity].memory_id
        /\ new[identity].memory_type = old[identity].memory_type

UniqueIds(rows) ==
    \A one, other \in Identities :
        one # other /\ rows[one] # NoRow /\ rows[other] # NoRow =>
            rows[one].memory_id # rows[other].memory_id

(* What an upsert makes of a row, and of the table. *)
LEMMA UpsertedRow ==
    ASSUME NEW rows \in Tables, NEW identity \in Identities, NEW record \in Records
    PROVE  LET row == Upsert(rows, identity, record)[identity]
           IN  /\ row \in Records /\ row # NoRow
               /\ rows[identity] = NoRow => row = record
               /\ rows[identity] # NoRow => /\ row.memory_id = rows[identity].memory_id
                                            /\ row.memory_type = rows[identity].memory_type
<1> DEFINE row == Upsert(rows, identity, record)[identity]
<1>1. row = IF rows[identity] = NoRow THEN record
            ELSE [rows[identity] EXCEPT !.updated_at = record.updated_at]
  BY DEF Upsert, Tables
<1>2. CASE rows[identity] = NoRow
  BY <1>1, <1>2, NoRowAssumption
<1>3. CASE rows[identity] # NoRow
  <2>1. rows[identity] \in Records
    BY <1>3 DEF Tables
  <2>2. row \in Records /\ row.memory_id = rows[identity].memory_id
        /\ row.memory_type = rows[identity].memory_type
    BY <1>1, <1>3, <2>1 DEF Records
  <2> QED BY <1>3, <2>2, NoRowAssumption
<1> QED BY <1>2, <1>3

LEMMA UpsertedTable ==
    ASSUME NEW rows \in Tables, NEW identity \in Identities, NEW record \in Records
    PROVE  /\ Upsert(rows, identity, record) \in Tables
           /\ Keeps(rows, Upsert(rows, identity, record))
           /\ UniqueIds(rows) /\ ~Conflicts(rows, identity, record) =>
                UniqueIds(Upsert(rows, identity, record))
<1> DEFINE new == Upsert(rows, identity, record)
<1>1. \A other \in Identities \ {identity} : new[other] = rows[other]
  BY DEF Upsert, Tables
<1>2. new = [rows EXCEPT ![identity] = new[identity]]
  BY DEF Upsert, Tables
<1>3. /\ new[identity] \in Records /\ new[identity] # NoRow
      /\ rows[identity] = NoRow => new[identity] = record
      /\ rows[identity] # NoRow => /\ new[identity].memory_id = rows[identity].memory_id
                                   /\ new[identity].memory_type = rows[identity].memory_type
  BY UpsertedRow
<1> HIDE DEF new
<1>4. new \in Tables
  BY <1>2, <1>3 DEF Tables
<1>5. Keeps(rows, new)
  BY <1>1, <1>3 DEF Keeps
<1>6. ASSUME UniqueIds(rows), ~Conflicts(rows, identity, record)
      PROVE  UniqueIds(new)
  <2>1. \A other \in Identities \ {identity} :
          new[other] # NoRow => new[other].memory_id # new[identity].memory_id
    BY <1>1, <1>3, <1>6 DEF UniqueIds, Conflicts
  <2> QED BY <1>1, <1>6, <2>1 DEF UniqueIds
<1> QED BY <1>4, <1>5, <1>6 DEF new
-----------------------------------------------------------------------------
(* The inductive invariant *)

(* A store has a draft exactly while it writes, and one store writes at most *)
OneDraft ==
    /\ \A s \in Stores : Writer(s) <=> draft[s] # NoDraft
    /\ \A s, t \in Stores : Writer(s) /\ Writer(t) => s = t

PutsWrite == \A s \in putting : Writer(s)

(* What is written is what was there, with rows added or refreshed *)
Drafted ==
    /\ UniqueIds(file)
    /\ \A s \in Stores : Writer(s) => UniqueIds(draft[s]) /\ Keeps(file, draft[s])

StoreInv == TypeOK /\ OneDraft /\ PutsWrite /\ Drafted /\ OnlyFailuresLinger

LEMMA StoreInvInit == Init => StoreInv
<1> SUFFICES ASSUME Init PROVE StoreInv
  OBVIOUS
<1>1. file \in Tables /\ UniqueIds(file)
  BY DEF Init, Empty, Tables, UniqueIds
<1> QED BY <1>1 DEF Init, StoreInv, TypeOK, OneDraft, PutsWrite, Drafted, OnlyFailuresLinger, Writer

(* What a store sees is a table with an identifier for every row.           *)
LEMMA Viewed ==
    ASSUME TypeOK, OneDraft, Drafted, NEW s \in Stores
    PROVE  View(s) \in Tables /\ UniqueIds(View(s)) /\ Keeps(file, View(s))
BY DEF TypeOK, OneDraft, Drafted, View, Keeps

LEMMA StoreInvStep == StoreInv /\ [Next]_vars => StoreInv'
<1> SUFFICES ASSUME StoreInv, [Next]_vars PROVE StoreInv'
  OBVIOUS
<1>0. TypeOK /\ OneDraft /\ PutsWrite /\ Drafted /\ OnlyFailuresLinger
  BY DEF StoreInv
(* A store becomes, or stays, the writer with a new draft *)
<1>1. ASSUME NEW s \in Stores, CanWrite(s), NEW new \in Tables, UniqueIds(new), Keeps(file, new),
             draft' = [draft EXCEPT ![s] = new],
             tx' = [tx EXCEPT ![s] = IF Writer(s) THEN @ ELSE "writing"], file' = file
      PROVE  /\ draft' \in [Stores -> Tables \cup {NoDraft}] /\ tx' \in [Stores -> TxStates]
             /\ OneDraft' /\ Drafted'
  <2>1. draft'[s] = new /\ Writer(s)' /\ new # NoDraft
    BY <1>0, <1>1, NoDraftAssumption DEF TypeOK, Writer
  <2>2. \A t \in Stores \ {s} : draft'[t] = draft[t] /\ tx'[t] = tx[t]
    BY <1>0, <1>1 DEF TypeOK
  <2>3. \A t \in Stores \ {s} : ~Writer(t) /\ ~Writer(t)'
    BY <1>1, <2>2 DEF CanWrite, Writer
  <2>4. draft' \in [Stores -> Tables \cup {NoDraft}] /\ tx' \in [Stores -> TxStates]
    BY <1>0, <1>1 DEF TypeOK, Writer, TxStates
  <2>5. OneDraft'
    BY <1>0, <2>1, <2>2, <2>3 DEF OneDraft
  <2>6. Drafted'
    BY <1>0, <1>1, <2>1, <2>3 DEF Drafted
  <2> QED BY <2>4, <2>5, <2>6
<1>2. ASSUME NEW s \in Stores, NEW identity \in Identities, NEW record \in Records,
             Insert(s, identity, record)
      PROVE  StoreInv'
  <2> DEFINE new == Upsert(View(s), identity, record)
  <2>1. new \in Tables /\ UniqueIds(new) /\ Keeps(View(s), new) /\ Keeps(file, View(s))
    BY <1>0, <1>2, Viewed, UpsertedTable DEF Insert
  <2>2. Keeps(file, new)
    BY <2>1 DEF Keeps
  <2> HIDE DEF new
  <2>3. draft' = [draft EXCEPT ![s] = new] /\ CanWrite(s) /\ s \notin putting
    BY <1>2 DEF Insert, Free, new
  <2>4. /\ draft' \in [Stores -> Tables \cup {NoDraft}] /\ tx' \in [Stores -> TxStates]
        /\ OneDraft' /\ Drafted'
    BY <1>1, <1>2, <2>1, <2>2, <2>3 DEF Insert
  <2>5. Writer(s)' /\ \A t \in Stores \ {s} : tx'[t] = tx[t]
    BY <1>0, <1>2 DEF Insert, TypeOK, Writer
  <2>6. TypeOK'
    BY <1>0, <1>2, <2>4 DEF Insert, TypeOK, TxStates
  <2>7. PutsWrite'
    BY <1>0, <1>2, <2>5 DEF Insert, PutsWrite, TypeOK, Writer
  <2>8. OnlyFailuresLinger'
    BY <1>0, <1>2, <2>5 DEF Insert, OnlyFailuresLinger
  <2> QED BY <2>4, <2>6, <2>7, <2>8 DEF StoreInv
<1>3. ASSUME NEW s \in Stores, NEW identity \in Identities, NEW record \in Records,
             InsertConflicts(s, identity, record)
      PROVE  StoreInv'
  <2>1. View(s) \in Tables /\ UniqueIds(View(s)) /\ Keeps(file, View(s))
    BY <1>0, Viewed
  <2>2. /\ draft' \in [Stores -> Tables \cup {NoDraft}] /\ tx' \in [Stores -> TxStates]
        /\ OneDraft' /\ Drafted'
    BY <1>1, <1>3, <2>1 DEF InsertConflicts
  <2>3. TypeOK' /\ PutsWrite' /\ OnlyFailuresLinger'
    BY <1>0, <1>3, <2>2
       DEF InsertConflicts, TypeOK, TxStates, PutsWrite, OnlyFailuresLinger, Free, Writer
  <2> QED BY <2>2, <2>3 DEF StoreInv
(* A transaction moves on without becoming, or ceasing to be, the writer *)
<1>4. ASSUME UNCHANGED <<file, draft>>, tx' \in [Stores -> TxStates],
             \A t \in Stores : Writer(t)' <=> Writer(t)
      PROVE  OneDraft' /\ Drafted'
  BY <1>0, <1>4 DEF OneDraft, Drafted
<1>5. ASSUME NEW s \in Stores, InsertLocked(s) PROVE StoreInv'
  <2>1. tx' \in [Stores -> TxStates] /\ (\A t \in Stores : Writer(t)' <=> Writer(t))
    BY <1>0, <1>5 DEF InsertLocked, TypeOK, TxStates, Writer
  <2>2. OneDraft' /\ Drafted'
    BY <1>4, <1>5, <2>1 DEF InsertLocked
  <2>3. TypeOK' /\ PutsWrite' /\ OnlyFailuresLinger'
    BY <1>0, <1>5, <2>1
       DEF InsertLocked, TypeOK, TxStates, PutsWrite, OnlyFailuresLinger, Free
  <2> QED BY <2>2, <2>3 DEF StoreInv
<1>6. ASSUME NEW s \in Stores, Commit(s) PROVE StoreInv'
  <2>1. Writer(s) /\ draft[s] \in Tables
    BY <1>0, <1>6 DEF Commit, PutsWrite, Writer, OneDraft, TypeOK
  <2>2. /\ tx'[s] = "none" /\ ~Writer(s)' /\ draft'[s] = NoDraft
        /\ \A t \in Stores \ {s} : tx'[t] = tx[t] /\ draft'[t] = draft[t] /\ ~Writer(t) /\ ~Writer(t)'
    BY <1>0, <1>6, <2>1 DEF Commit, TypeOK, OneDraft, Writer
  <2>3. OneDraft'
    BY <1>0, <2>2 DEF OneDraft
  <2>4. Drafted'
    BY <1>0, <1>6, <2>1, <2>2 DEF Drafted, Commit
  <2>5. TypeOK'
    BY <1>0, <1>6, <2>1 DEF Commit, TypeOK
  <2>6. PutsWrite'
    BY <1>0, <1>6, <2>2 DEF Commit, PutsWrite, TypeOK, Writer
  <2>7. OnlyFailuresLinger'
    BY <1>0, <1>6, <2>2 DEF Commit, OnlyFailuresLinger
  <2> QED BY <2>3, <2>4, <2>5, <2>6, <2>7 DEF StoreInv
<1>7. ASSUME NEW s \in Stores, CommitLocked(s) PROVE StoreInv'
  <2>1. tx' \in [Stores -> TxStates] /\ (\A t \in Stores : Writer(t)' <=> Writer(t))
    BY <1>0, <1>7 DEF CommitLocked, TypeOK, TxStates, Writer, PutsWrite
  <2>2. OneDraft' /\ Drafted'
    BY <1>4, <1>7, <2>1 DEF CommitLocked
  <2>3. TypeOK' /\ PutsWrite'
    BY <1>0, <1>7, <2>1 DEF CommitLocked, TypeOK, TxStates, PutsWrite
  <2>4. OnlyFailuresLinger'
    BY <1>0, <1>7 DEF CommitLocked, TypeOK, OnlyFailuresLinger
  <2> QED BY <2>2, <2>3, <2>4 DEF StoreInv
<1>8. ASSUME NEW s \in Stores, Read(s) PROVE StoreInv'
  <2>1. tx' \in [Stores -> TxStates] /\ (\A t \in Stores : Writer(t)' <=> Writer(t))
    BY <1>0, <1>8 DEF Read, TypeOK, TxStates, Writer
  <2>2. OneDraft' /\ Drafted'
    BY <1>4, <1>8, <2>1 DEF Read
  <2>3. TypeOK' /\ PutsWrite' /\ OnlyFailuresLinger'
    BY <1>0, <1>8, <2>1 DEF Read, CanRead, Free, TypeOK, TxStates, PutsWrite, OnlyFailuresLinger
  <2> QED BY <2>2, <2>3 DEF StoreInv
<1>9. ASSUME NEW s \in Stores, Close(s) PROVE StoreInv'
  <2>1. /\ tx'[s] = "closed" /\ ~Writer(s)' /\ draft'[s] = NoDraft
        /\ \A t \in Stores \ {s} : tx'[t] = tx[t] /\ draft'[t] = draft[t]
                                   /\ (Writer(t)' <=> Writer(t))
    BY <1>0, <1>9 DEF Close, TypeOK, Writer
  <2>2. OneDraft'
    BY <1>0, <2>1 DEF OneDraft
  <2>3. Drafted'
    BY <1>0, <1>9, <2>1 DEF Drafted, Close
  <2>4. TypeOK' /\ PutsWrite' /\ OnlyFailuresLinger'
    BY <1>0, <1>9, <2>1 DEF Close, TypeOK, PutsWrite, OnlyFailuresLinger
  <2> QED BY <2>2, <2>3, <2>4 DEF StoreInv
<1>10. ASSUME NEW s \in Stores, Open(s) PROVE StoreInv'
  <2>1. tx' \in [Stores -> TxStates] /\ (\A t \in Stores : Writer(t)' <=> Writer(t))
    BY <1>0, <1>10 DEF Open, TypeOK, TxStates, Writer
  <2>2. OneDraft' /\ Drafted'
    BY <1>4, <1>10, <2>1 DEF Open
  <2>3. TypeOK' /\ PutsWrite' /\ OnlyFailuresLinger'
    BY <1>0, <1>10, <2>1 DEF Open, TypeOK, TxStates, PutsWrite, OnlyFailuresLinger
  <2> QED BY <2>2, <2>3 DEF StoreInv
<1>11. CASE UNCHANGED vars
  BY <1>0, <1>11
     DEF vars, StoreInv, TypeOK, OneDraft, PutsWrite, Drafted, OnlyFailuresLinger, Writer
<1> QED BY <1>2, <1>3, <1>5, <1>6, <1>7, <1>8, <1>9, <1>10, <1>11 DEF Next
-----------------------------------------------------------------------------
(* Theorems *)

(* What table, transactions and locks have to do with each other, with any  *)
(* number of stores on one file (sqlite_store.py:18-137).                   *)
THEOREM StoreInvariant == Spec => []StoreInv
BY StoreInvInit, StoreInvStep, PTL DEF Spec

(* The state keeps its types. *)
THEOREM Typed == Spec => []TypeOK
<1>1. StoreInv => TypeOK
  BY DEF StoreInv
<1> QED BY <1>1, StoreInvariant, PTL

(* Only a put that raised leaves a transaction or a lock behind             *)
(* (sqlite_store.py:35-56).                                                 *)
THEOREM OnlyFailuresBlock == Spec => []OnlyFailuresLinger
<1>1. StoreInv => OnlyFailuresLinger
  BY DEF StoreInv
<1> QED BY <1>1, StoreInvariant, PTL

(* A row stays, and stays who it is, and no two rows share an identifier    *)
(* (sqlite_store.py:34).                                                    *)
THEOREM IdentitiesAreStable == Spec => IdentityIsStable
<1> DEFINE Stable == Keeps(file, file') /\ UniqueIds(file)'
<1>1. StoreInv /\ StoreInv' /\ [Next]_vars => Stable
  <2> SUFFICES ASSUME StoreInv, StoreInv', [Next]_vars PROVE Stable
    OBVIOUS
  <2>1. UniqueIds(file)'
    BY DEF StoreInv, Drafted
  <2>2. CASE file' = file
    BY <2>1, <2>2 DEF Keeps
  <2>3. ASSUME NEW s \in Stores, Commit(s) PROVE Keeps(file, file')
    BY <2>3 DEF Commit, StoreInv, PutsWrite, Drafted, Writer
  <2>4. file' = file \/ \E s \in Stores : Commit(s)
    BY DEF Next, vars, Insert, InsertConflicts, InsertLocked, CommitLocked, Read, Close, Open
  <2> QED BY <2>1, <2>2, <2>3, <2>4
<1>2. StoreInv /\ StoreInv' /\ [Next]_vars =>
        [/\ \A identity \in Identities : file[identity] # NoRow =>
               /\ file'[identity] # NoRow
               /\ file'[identity].memory_id = file[identity].memory_id
               /\ file'[identity].memory_type = file[identity].memory_type
         /\ \A one, other \in Identities :
               one # other /\ file'[one] # NoRow /\ file'[other] # NoRow =>
                   file'[one].memory_id # file'[other].memory_id]_vars
  BY <1>1 DEF Keeps, UniqueIds
<1> QED BY <1>2, StoreInvariant, PTL DEF Spec, IdentityIsStable
-----------------------------------------------------------------------------
(* The stores implement their contract *)

LEMMA SameRows ==
    /\ Contract!Identities = Identities /\ Contract!Records = Records
    /\ Contract!Tables = Tables /\ Contract!Empty = Empty /\ Contract!NoAnswer = NoAnswer
BY DEF Contract!Identities, Identities, Contract!Records, Records, Contract!Types, Types,
       Contract!Tables, Tables, Contract!Empty, Empty, Contract!NoAnswer, NoAnswer

LEMMA SameUpsert ==
    ASSUME NEW rows, NEW identity, NEW record
    PROVE  /\ Contract!Upsert(rows, identity, record) = Upsert(rows, identity, record)
           /\ Contract!Conflicts(rows, identity, record) <=> Conflicts(rows, identity, record)
BY SameRows DEF Contract!Upsert, Upsert, Contract!Conflicts, Conflicts

LEMMA SameCardinality ==
    \A S : Contract!Cardinality(S) = Cardinality(S)
BY DEF Contract!Cardinality, Cardinality, Contract!IsFiniteSet, IsFiniteSet

LEMMA SameAnswers ==
    ASSUME NEW rows
    PROVE  Contract!Answers(rows) = Answers(rows)
<1>1. \A namespace : Contract!Listed(rows, namespace) = Listed(rows, namespace)
  BY SameRows DEF Contract!Listed, Listed
<1>2. \A namespace : Contract!Episodes(rows, namespace) = Episodes(rows, namespace)
  BY <1>1 DEF Contract!Episodes, Episodes
<1>3. ASSUME NEW namespace
      PROVE  Contract!ListEpisodes(rows, namespace) = ListEpisodes(rows, namespace)
  <2>1. Contract!Episodes(rows, namespace) = Episodes(rows, namespace)
    BY <1>2
  <2> QED BY <2>1, SameCardinality DEF Contract!ListEpisodes, ListEpisodes
<1>4. Contract!Findings(rows) = Findings(rows)
  BY <1>1, <1>3, SameRows DEF Contract!Findings, Findings
<1> QED BY <1>4 DEF Contract!Answers, Answers

(* A store that may write finds no other draft, and bases its own on what   *)
(* it sees.                                                                 *)
LEMMA SameView ==
    ASSUME OneDraft, NEW s \in Stores
    PROVE  Contract!Base(s) = View(s) /\ (CanWrite(s) => Contract!Alone(s))
BY DEF OneDraft, Contract!Base, View, CanWrite, Contract!Alone

LEMMA ContractStep == StoreInv /\ [Next]_vars => [Contract!Next]_Contract!vars
<1> SUFFICES ASSUME StoreInv, Next
             PROVE  Contract!Next \/ UNCHANGED Contract!vars
  BY DEF vars, Contract!vars
<1>0. TypeOK /\ OneDraft /\ PutsWrite
  BY DEF StoreInv
<1>1. ASSUME NEW s \in Stores, NEW identity \in Identities, NEW record \in Records,
             Insert(s, identity, record)
      PROVE  Contract!Prepare(s)
  BY <1>0, <1>1, SameRows, SameUpsert, SameView DEF Insert, Free, Contract!Prepare
<1>2. ASSUME NEW s \in Stores, NEW identity \in Identities, NEW record \in Records,
             InsertConflicts(s, identity, record)
      PROVE  Contract!Refuse(s)
  <2>1. putting' = putting \ {s}
    BY <1>2 DEF InsertConflicts, Free
  <2> QED BY <1>0, <1>2, <2>1, SameRows, SameView DEF InsertConflicts, Contract!Refuse
<1>3. ASSUME NEW s \in Stores, InsertLocked(s) PROVE Contract!Refuse(s)
  <2>1. putting' = putting \ {s}
    BY <1>3 DEF InsertLocked, Free
  <2> QED BY <1>3, <2>1, SameRows DEF InsertLocked, Contract!Refuse
<1>4. ASSUME NEW s \in Stores, Commit(s) PROVE Contract!Publish(s)
  BY <1>4, SameRows DEF Commit, Contract!Publish
<1>5. ASSUME NEW s \in Stores, CommitLocked(s) PROVE Contract!Refuse(s)
  BY <1>5, SameRows DEF CommitLocked, Contract!Refuse
<1>6. ASSUME NEW s \in Stores, Read(s) PROVE Contract!Read(s)
  BY <1>0, <1>6, SameAnswers, SameView DEF Read, CanRead, Free, Contract!Read
<1>7. ASSUME NEW s \in Stores, Close(s) PROVE Contract!Discard(s)
  BY <1>7, SameRows DEF Close, Contract!Discard
<1>8. ASSUME NEW s \in Stores, Open(s) PROVE Contract!Discard(s)
  <2>1. s \notin putting
    BY <1>0, <1>8 DEF Open, PutsWrite, Writer
  <2>2. draft[s] = NoDraft
    BY <1>0, <1>8 DEF Open, OneDraft, Writer
  <2>3. putting' = putting \ {s} /\ draft' = [draft EXCEPT ![s] = NoDraft]
    BY <1>0, <1>8, <2>1, <2>2 DEF Open, TypeOK
  <2> QED BY <1>8, <2>3, SameRows DEF Open, Contract!Discard
<1> QED BY <1>1, <1>2, <1>3, <1>4, <1>5, <1>6, <1>7, <1>8 DEF Next, Contract!Next

(* Nothing that was acknowledged is lost, and a put that raised shows in    *)
(* its own store alone (sqlite_store.py:33-126).                            *)
THEOREM StoresKeepTheContract == Spec => ImplementsContract
<1>1. Init => Contract!Init
  BY SameRows DEF Init, Contract!Init
<1> QED BY <1>1, ContractStep, StoreInvariant, PTL DEF Spec, ImplementsContract, Contract!Spec
=============================================================================
