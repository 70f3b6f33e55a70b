------------------------- MODULE SnapshotTable -------------------------
(***************************************************************************)
(* What the row versions of a table promise: snapshot isolation for deletes *)
(* and appends.  A transaction works on the rows that were live when it     *)
(* started, changed only by itself; a row is deleted by one transaction at  *)
(* most; nothing of a transaction is seen by others before it commits.      *)
(* There are no ids, no compression, no cleanup and no checkpoint.          *)
(***************************************************************************)
EXTENDS Naturals

CONSTANTS Rows, Txns

VARIABLES
    live,      \* the rows of the last committed state
    phase,     \* "idle", "active", "doomed" (must roll back), "done"
    view,      \* view[t]: the rows t sees
    deleted,   \* deleted[t]: what t has deleted and not yet committed
    appended   \* appended[t]: what t has appended and not yet committed

vars == <<live, phase, view, deleted, appended>>

Init ==
    /\ live \in SUBSET Rows
    /\ phase = [t \in Txns |-> "idle"]
    /\ view = [t \in Txns |-> {}]
    /\ deleted = [t \in Txns |-> {}]
    /\ appended = [t \in Txns |-> {}]

Start(t) ==
    /\ phase[t] = "idle"
    /\ phase' = [phase EXCEPT ![t] = "active"]
    /\ view' = [view EXCEPT ![t] = live]
    /\ UNCHANGED <<live, deleted, appended>>

\* Rows that another transaction has deleted: it is still running, or it
\* committed after t started.
Taken(t, R) == R \cap (view[t] \ live) # {} \/ \E u \in Txns \ {t} : R \cap deleted[u] # {}

Delete(t, R) ==
    /\ phase[t] = "active"
    /\ deleted' = [deleted EXCEPT ![t] = @ \cup R]
    /\ view' = [view EXCEPT ![t] = @ \ R]
    /\ ~Taken(t, R)
    /\ UNCHANGED <<live, phase, appended>>

Conflict(t) ==
    /\ phase[t] = "active"
    /\ phase' = [phase EXCEPT ![t] = "doomed"]
    /\ \E R \in SUBSET view[t] : Taken(t, R)
    /\ UNCHANGED <<live, view, deleted, appended>>

Append(t, R) ==
    /\ phase[t] = "active"
    /\ appended' = [appended EXCEPT ![t] = @ \cup R]
    /\ R \cap live = {}
    /\ view' = [view EXCEPT ![t] = @ \cup R]
    /\ UNCHANGED <<live, phase, deleted>>

End(t) ==
    /\ phase' = [phase EXCEPT ![t] = "done"]
    /\ view' = [view EXCEPT ![t] = {}]
    /\ deleted' = [deleted EXCEPT ![t] = {}]
    /\ appended' = [appended EXCEPT ![t] = {}]

Commit(t) ==
    /\ phase[t] = "active"
    /\ End(t)
    /\ live' = (live \ deleted[t]) \cup appended[t]

Rollback(t) ==
    /\ phase[t] \in {"active", "doomed"}
    /\ End(t)
    /\ UNCHANGED live

Next ==
    \E t \in Txns :
        \/ Start(t)
        \/ Conflict(t)
        \/ Commit(t)
        \/ Rollback(t)
        \/ \E R \in SUBSET view[t] : Delete(t, R)
        \/ \E R \in SUBSET (Rows \ view[t]) : Append(t, R)

Spec == Init /\ [][Next]_vars
=============================================================================
