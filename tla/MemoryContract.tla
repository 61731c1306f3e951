--------------------------- MODULE MemoryContract ---------------------------
(***************************************************************************)
(* What the memory stores on one database promise their callers, whatever  *)
(* their transactions and locks do.  There is one table.  A put that       *)
(* returns is in it; a put that raises is not, but may have left a draft   *)
(* that a later put of the same store takes along.  There is at most one   *)
(* draft, made from the table as it is, so no put overwrites another       *)
(* store's unseen.  A store reads its draft if it has one and else the     *)
(* table.                                                                  *)
(***************************************************************************)
EXTENDS MemoryRows

CONSTANTS Stores, NoDraft

VARIABLES
    table,    \* what the database holds
    draft,    \* a store's uncommitted version of it
    putting,  \* the stores that are in the middle of a put
    answer    \* what the last operation, a read, has returned

vars == <<table, draft, putting, answer>>

NoAnswer == <<>>

Base(s)  == IF draft[s] = NoDraft THEN table ELSE draft[s]
Alone(s) == \A t \in Stores \ {s} : draft[t] = NoDraft

Init ==
    /\ table = Empty
    /\ draft = [s \in Stores |-> NoDraft]
    /\ putting = {}
    /\ answer = NoAnswer

Prepare(s) ==
    /\ s \notin putting /\ Alone(s)
    /\ \E identity \in Identities, record \in Records :
        /\ ~Conflicts(Base(s), identity, record)
        /\ draft' = [draft EXCEPT ![s] = Upsert(Base(s), identity, record)]
    /\ putting' = putting \cup {s}
    /\ answer' = NoAnswer
    /\ UNCHANGED table

(* The put returns *)
Publish(s) ==
    /\ s \in putting
    /\ table' = draft[s]
    /\ draft' = [draft EXCEPT ![s] = NoDraft]
    /\ putting' = putting \ {s}
    /\ answer' = NoAnswer

(* The put raises, before or after it has made its draft *)
Refuse(s) ==
    /\ Alone(s) \/ UNCHANGED draft
    /\ draft' \in {draft, [draft EXCEPT ![s] = Base(s)]}
    /\ putting' = putting \ {s}
    /\ answer' = NoAnswer
    /\ UNCHANGED table

(* The store is closed, or its process dies *)
Discard(s) ==
    /\ draft' = [draft EXCEPT ![s] = NoDraft]
    /\ putting' = putting \ {s}
    /\ answer' = NoAnswer
    /\ UNCHANGED table

Read(s) ==
    /\ s \notin putting
    /\ answer' \in Answers(Base(s))
    /\ UNCHANGED <<table, draft, putting>>

Next == \E s \in Stores : Prepare(s) \/ Publish(s) \/ Refuse(s) \/ Discard(s) \/ Read(s)

Spec == Init /\ [][Next]_vars
=============================================================================
