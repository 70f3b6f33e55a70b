------------------------------ MODULE DurableLog ------------------------------
(***************************************************************************)
(* What the storage of an attached database promises: a log of commits in   *)
(* which a commit, once it has been reported as successful, keeps its place *)
(* for good.  A crash may lose or keep the one commit that was under way;   *)
(* it never loses, repeats or reorders another one.  There are no files, no *)
(* checkpoints and no replay.                                               *)
(***************************************************************************)
EXTENDS Sequences

CONSTANTS Commits, NoCommit

VARIABLES
    log,      \* the commits that were reported, oldest first
    pending,  \* the commit under way, or NoCommit
    open      \* the database is open

vars == <<log, pending, open>>

Init == log = <<>> /\ pending = NoCommit /\ open = TRUE

\* A new commit is one that the log does not hold.
Begin(c) ==
    /\ open /\ pending = NoCommit
    /\ \A i \in DOMAIN log : log[i] # c
    /\ pending' = c
    /\ UNCHANGED <<log, open>>

Report ==
    /\ open /\ pending # NoCommit
    /\ log' = Append(log, pending)
    /\ pending' = NoCommit
    /\ UNCHANGED open

Fail ==
    /\ open /\ pending # NoCommit
    /\ pending' = NoCommit
    /\ UNCHANGED <<log, open>>

Crash ==
    /\ open
    /\ open' = FALSE
    /\ UNCHANGED <<log, pending>>

Reopen ==
    /\ ~open
    /\ \/ log' = log
       \/ pending # NoCommit /\ log' = Append(log, pending)
    /\ pending' = NoCommit
    /\ open' = TRUE

Next == (\E c \in Commits : Begin(c)) \/ Report \/ Fail \/ Crash \/ Reopen

Spec == Init /\ [][Next]_vars
=============================================================================
