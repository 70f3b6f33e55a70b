----------------------------- MODULE MCExecutor -----------------------------
EXTENDS Executor, TLC

\* Two join builds below a streaming result; Finalize of one build inserts an event.
JoinPlan ==
    [meta |-> (1 :> "probe" @@ 2 :> "build1" @@ 3 :> "build2"),
     base |-> [probe |-> 1, build1 |-> 2, build2 |-> 3],
     own_finish |-> {}, group |-> <<>>,
     dependencies |-> <<{2, 3}, {}, {}>>, intra_dependencies |-> <<{}, {}, {}>>,
     join_builds |-> {"build1", "build2"}, tasks |-> <<1, 1, 1>>, inserts |-> {2},
     collector |-> 1, chunks |-> 2, streaming |-> TRUE]

\* A materialized result of one meta pipeline: base pipeline 1, 2 with the finish events
\* of the base, 3 with its own finish events, 4 in the group of 3 and after 3.
UnionPlan ==
    [meta |-> [p \in 1 .. 4 |-> "root"], base |-> [root |-> 1],
     own_finish |-> {3}, group |-> (4 :> 3),
     dependencies |-> <<{}, {}, {}, {}>>, intra_dependencies |-> <<{}, {}, {}, {3}>>,
     join_builds |-> {}, tasks |-> <<1, 1, 1, 1>>, inserts |-> {},
     collector |-> 1, chunks |-> 0, streaming |-> FALSE]

\* A streaming result whose sinks fill the buffer twice.
ScanPlan ==
    [meta |-> <<"root">>, base |-> [root |-> 1], own_finish |-> {}, group |-> <<>>,
     dependencies |-> <<{}>>, intra_dependencies |-> <<{}>>,
     join_builds |-> {}, tasks |-> <<2>>, inserts |-> {},
     collector |-> 1, chunks |-> 2, streaming |-> TRUE]

MCPlans == [join |-> JoinPlan, union |-> UnionPlan, scan |-> ScanPlan]
=============================================================================
