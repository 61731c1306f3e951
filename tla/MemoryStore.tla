---------------------------- MODULE MemoryStore ----------------------------
(***************************************************************************)
(* SQLiteMemoryStore (src/src/agent_runtime/memory/sqlite_store.py): every *)
(* store is a connection to one database file, from one thread each.       *)
(*                                                                         *)
(* sqlite3 opens a transaction before an INSERT and leaves it open when    *)
(* the INSERT or the commit raises; the store never rolls back.  How far   *)
(* a transaction has come decides the locks of SQLite's rollback journal:  *)
(*   none       no transaction                                             *)
(*   begun      BEGIN, no lock yet: the INSERT found another writer        *)
(*   reading    SHARED: such a transaction has then read                   *)
(*   writing    RESERVED: one writer beside the readers                    *)
(*   committing PENDING: a commit that found readers; nobody reads anew    *)
(* A locked database is waited for before it raises, so that every         *)
(* operation either raises or is taken when it need not.                   *)
(***************************************************************************)
EXTENDS MemoryRows

CONSTANTS Stores, NoDraft

ASSUME NoDraftAssumption == NoDraft \notin Tables

VARIABLES
    file,     \* the committed table
    tx,       \* the transaction of every store
    draft,    \* its uncommitted table, in writing and committing
    putting,  \* the stores between their INSERT and their commit
    raised,   \* the stores whose last put has raised
    answer    \* what the last operation, a read, has returned

vars == <<file, tx, draft, putting, raised, answer>>

NoAnswer == <<>>

Init ==
    /\ file = Empty
    /\ tx = [s \in Stores |-> "none"]
    /\ draft = [s \in Stores |-> NoDraft]
    /\ putting = {} /\ raised = {}
    /\ answer = NoAnswer
-----------------------------------------------------------------------------
(* Locks *)
Free(s)   == s \notin putting /\ tx[s] # "closed"
Writer(s) == tx[s] \in {"writing", "committing"}

CanWrite(s) == \A t \in Stores \ {s} : ~Writer(t)

(* A transaction that holds a lock already may go on reading *)
CanRead(s) == /\ Free(s)
              /\ tx[s] \in {"none", "begun"} => \A t \in Stores : tx[t] # "committing"

CanCommit(s) == \A t \in Stores \ {s} : tx[t] # "reading"

(* What the store's statements see *)
View(s) == IF Writer(s) THEN draft[s] ELSE file
-----------------------------------------------------------------------------
(* put_memory, and put_episode for the records of type episodic *)

(* The INSERT *)
InsertUnlocked(s, identity, record) ==  \* mutant: a second writer is let in
    /\ Free(s)
    /\ ~Conflicts(View(s), identity, record)
    /\ draft' = [draft EXCEPT ![s] = Upsert(View(s), identity, record)]
    /\ tx' = [tx EXCEPT ![s] = IF Writer(s) THEN @ ELSE "writing"]
    /\ putting' = putting \cup {s}
    /\ answer' = NoAnswer
    /\ UNCHANGED <<file, raised>>

Insert(s, identity, record) ==
    /\ Free(s) /\ CanWrite(s)
    /\ ~Conflicts(View(s), identity, record)
    /\ draft' = [draft EXCEPT ![s] = Upsert(View(s), identity, record)]
    /\ tx' = [tx EXCEPT ![s] = IF Writer(s) THEN @ ELSE "writing"]
    /\ putting' = putting \cup {s}
    /\ answer' = NoAnswer
    /\ UNCHANGED <<file, raised>>

(* sqlite3.IntegrityError; the lock is taken and kept *)
InsertConflicts(s, identity, record) ==
    /\ Free(s) /\ CanWrite(s)
    /\ Conflicts(View(s), identity, record)
    /\ draft' = [draft EXCEPT ![s] = View(s)]
    /\ tx' = [tx EXCEPT ![s] = IF Writer(s) THEN @ ELSE "writing"]
    /\ raised' = raised \cup {s}
    /\ answer' = NoAnswer
    /\ UNCHANGED <<file, putting>>

(* sqlite3.OperationalError: database is locked *)
InsertLocked(s) ==
    /\ Free(s) /\ ~CanWrite(s)
    /\ tx' = [tx EXCEPT ![s] = IF @ = "none" THEN "begun" ELSE @]
    /\ raised' = raised \cup {s}
    /\ answer' = NoAnswer
    /\ UNCHANGED <<file, draft, putting>>

(* The commit, of this put and of whatever earlier ones have left *)
Commit(s) ==
    /\ s \in putting /\ CanCommit(s)
    /\ file' = draft[s]
    /\ tx' = [tx EXCEPT ![s] = "none"]
    /\ draft' = [draft EXCEPT ![s] = NoDraft]
    /\ putting' = putting \ {s} /\ raised' = raised \ {s}
    /\ answer' = NoAnswer

CommitLocked(s) ==
    /\ s \in putting /\ ~CanCommit(s)
    /\ tx' = [tx EXCEPT ![s] = "committing"]
    /\ putting' = putting \ {s} /\ raised' = raised \cup {s}
    /\ answer' = NoAnswer
    /\ UNCHANGED <<file, draft>>
-----------------------------------------------------------------------------
(* get_memory_by_key, list_namespace_memories, list_episodes_by_namespace;  *)
(* a read that finds the database locked raises and changes nothing.        *)
Read(s) ==
    /\ CanRead(s)
    /\ answer' \in Answers(View(s))
    /\ tx' = [tx EXCEPT ![s] = IF @ = "begun" THEN "reading" ELSE @]
    /\ UNCHANGED <<file, draft, putting, raised>>

(* close(), or the process dies in the middle of a put *)
Close(s) ==
    /\ tx[s] # "closed"
    /\ tx' = [tx EXCEPT ![s] = "closed"]
    /\ draft' = [draft EXCEPT ![s] = NoDraft]
    /\ putting' = putting \ {s} /\ raised' = raised \ {s}
    /\ answer' = NoAnswer
    /\ UNCHANGED file

(* CREATE TABLE IF NOT EXISTS finds the table, unless it may not read *)
Open(s) ==
    /\ tx[s] = "closed"
    /\ \A t \in Stores : tx[t] # "committing"
    /\ tx' = [tx EXCEPT ![s] = "none"]
    /\ answer' = NoAnswer
    /\ UNCHANGED <<file, draft, putting, raised>>
-----------------------------------------------------------------------------
Next == \E s \in Stores :
    \/ \E identity \in Identities, record \in Records :
         Insert(s, identity, record) \/ InsertConflicts(s, identity, record)
    \/ InsertLocked(s) \/ Commit(s) \/ CommitLocked(s) \/ Read(s) \/ Close(s) \/ Open(s)

Spec == Init /\ [][Next]_vars
-----------------------------------------------------------------------------
(* Properties *)

(* The types of the stores' state *)
TypeOK ==
    /\ file \in Tables
    /\ tx \in [Stores -> {"none", "begun", "reading", "writing", "committing", "closed"}]
    /\ draft \in [Stores -> Tables \cup {NoDraft}]
    /\ putting \subseteq Stores /\ raised \subseteq Stores

(* Transactions and locks keep what the stores promise: nothing a put has   *)
(* acknowledged is lost to a crash or to another store, a put that raised   *)
(* shows in its own store at most, until a later put of that store commits, *)
(* and reads see the table or that draft (sqlite_store.py:33-126).          *)
Contract == INSTANCE MemoryContract WITH table <- file

ImplementsContract == Contract!Spec

(* "namespace/key as the stable identity" (sqlite_store.py:34): a row never *)
(* goes away and keeps the identifier and type it was first given, whoever  *)
(* puts what under its key; and no two rows have one identifier.            *)
IdentityIsStable ==
    [][/\ \A identity \in Identities : file[identity] # NoRow =>
             /\ file'[identity] # NoRow
             /\ file'[identity].memory_id = file[identity].memory_id
             /\ file'[identity].memory_type = file[identity].memory_type
       /\ \A one, other \in Identities :
             one # other /\ file'[one] # NoRow /\ file'[other] # NoRow =>
                 file'[one].memory_id # file'[other].memory_id]_vars

(* Only a put that raised leaves a transaction, and with it a lock, behind: *)
(* neither reads nor puts that returned do, so that a store whose puts go   *)
(* well blocks others no longer than its put takes (sqlite_store.py:35-56). *)
OnlyFailuresLinger ==
    \A s \in Stores : tx[s] \notin {"none", "closed"} => s \in putting \cup raised
=============================================================================
