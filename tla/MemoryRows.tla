----------------------------- MODULE MemoryRows -----------------------------
(***************************************************************************)
(* The table of memories of src/src/agent_runtime/memory/sqlite_store.py:  *)
(* what a put makes of it and what the reads find in it.  Constant         *)
(* operators only, shared by MemoryStore and its contract.                 *)
(*                                                                         *)
(* A table maps (namespace, key), the stable identity, to a row.  Content, *)
(* importance and metadata come and go with updated_at, the time at which  *)
(* their record was made, and are identified with it.                      *)
(***************************************************************************)
EXTENDS Naturals, FiniteSets

CONSTANTS
    Namespaces, Keys,  \* namespace and key of the records
    Ids,               \* memory_id
    Times,             \* updated_at
    Limit,             \* limit of list_episodes_by_namespace
    NoRow

ASSUME RowAssumption == Times \subseteq Nat /\ Limit \in Nat

Identities == Namespaces \X Keys
Types      == {"episodic", "semantic"}
Records    == [memory_id : Ids, memory_type : Types, updated_at : Times]

ASSUME NoRowAssumption == NoRow \notin Records

Tables == [Identities -> Records \cup {NoRow}]
Empty  == [identity \in Identities |-> NoRow]
-----------------------------------------------------------------------------
(* INSERT ... ON CONFLICT(namespace, key) DO UPDATE *)

(* The row's identifier belongs to another row *)
Conflicts(table, identity, record) ==
    /\ table[identity] = NoRow
    /\ \E other \in Identities : table[other] # NoRow /\ table[other].memory_id = record.memory_id

UpsertReplacing(table, identity, record) ==  \* mutant: the whole row is replaced
    [table EXCEPT ![identity] = record]

Upsert(table, identity, record) ==
    [table EXCEPT ![identity] =
        IF @ = NoRow THEN record ELSE [@ EXCEPT !.updated_at = record.updated_at]]
-----------------------------------------------------------------------------
(* What the reads find, as identities *)

Listed(table, namespace) ==
    {identity \in Identities : identity[1] = namespace /\ table[identity] # NoRow}

Episodes(table, namespace) ==
    {identity \in Listed(table, namespace) : table[identity].memory_type = "episodic"}

(* The newest Limit of them; SQLite may choose among rows of the same time *)
ListEpisodes(table, namespace) ==
    {found \in SUBSET Episodes(table, namespace) :
        /\ Cardinality(found) <= Limit
        /\ found # Episodes(table, namespace) => Cardinality(found) = Limit
        /\ \A new \in found, old \in Episodes(table, namespace) \ found :
              table[new].updated_at >= table[old].updated_at}

(* What get_memory_by_key and the two lists can find *)
Findings(table) ==
    {{identity} \cap Listed(table, identity[1]) : identity \in Identities}
    \cup {Listed(table, namespace) : namespace \in Namespaces}
    \cup UNION {ListEpisodes(table, namespace) : namespace \in Namespaces}

(* The rows a read returns *)
Answers(table) == {[identity \in found |-> table[identity]] : found \in Findings(table)}
=============================================================================
