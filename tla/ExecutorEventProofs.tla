------------------------- MODULE ExecutorEventProofs -------------------------
(***************************************************************************)
(* The events of a query: for any plan, any number of workers and any      *)
(* behaviour an event has its tasks after everything that it depends on,   *)
(* finishes once, and the result of a query that finishes is complete.     *)
(* The argument counts: the tasks that are left of an event, the calls of  *)
(* Event::Finish that still have to notify it, and the chunks that remain. *)
(***************************************************************************)
EXTENDS ExecutorProofs

\* The tasks that have not called Event::FinishTask and that somebody has.
Unfinished ==
    Range(queue) \cup to_be_rescheduled_tasks
      \cup {t \in Tasks[plan] : callback[t] = "running"}
      \cup {t \in Tasks[plan] : \E x \in Threads : task[x] = t /\ pc[x] # "finish"}

Left(e) == {t \in Unfinished : t[1] = e}

\* An event has at most the tasks that have not finished yet, and none when it finishes.
TasksCounted ==
    \A e \in Events[plan] : /\ finished[e] <= 1
                            /\ finished_tasks[e] + Cardinality(Left(e)) <= NumTasks(Plan, e)
                            /\ finished[e] = 1 => Left(e) = {}

\* A call of Event::Finish is of an event that has finished and notifies parents of it.
\* There is one such call for an event.
CallsOfFinish ==
    /\ \A x \in Threads : \A i \in 1 .. Len(finishing[x]) :
          /\ finished[finishing[x][i].event] = 1
          /\ finishing[x][i].parents \subseteq Parents(finishing[x][i].event)
    /\ \A x, y \in Threads : \A i \in 1 .. Len(finishing[x]), j \in 1 .. Len(finishing[y]) :
          finishing[x][i].event = finishing[y][j].event => x = y /\ i = j

\* The events that notify e, and the ones that have.
Sources(e) == {g \in Events[plan] : e \in Parents(g)}

Notifies(g, e) ==
    \E x \in Threads : \E i \in 1 .. Len(finishing[x]) :
       finishing[x][i].event = g /\ e \in finishing[x][i].parents

Notified(e) == {g \in Sources(e) : finished[g] = 1 /\ ~Notifies(g, e)}

DependenciesCounted == \A e \in Events[plan] : finished_dependencies[e] <= Cardinality(Notified(e))

\* The inductive invariant, on top of TypeInv and PlacesInv.
EventsInv == TasksCounted /\ CallsOfFinish /\ DependenciesCounted

-----------------------------------------------------------------------------
\* Unfinished tasks are tasks of events that have their dependencies.
LEMMA UnfinishedFacts ==
    ASSUME TypeInv, OnlyReady
    PROVE  /\ Unfinished \subseteq Tasks[plan] /\ \A t \in Unfinished : t[1] \in Ready
           /\ \A e : IsFiniteSet(Left(e)) /\ Cardinality(Left(e)) \in Nat /\ Left(e) \subseteq Tasks[plan]
<1>1. Unfinished \subseteq Tasks[plan]
  BY QueueFacts DEF Unfinished, TypeInv, TasksTyped
<1>2. \A t \in Unfinished : t[1] \in Ready
  BY TaskFacts DEF Unfinished, OnlyReady, TypeInv, ChoiceTyped
<1>3. IsFiniteSet(Tasks[plan])
  BY TasksFinite DEF TypeInv, ChoiceTyped
<1>4. ASSUME NEW e PROVE IsFiniteSet(Left(e)) /\ Cardinality(Left(e)) \in Nat /\ Left(e) \subseteq Tasks[plan]
  <2>1. Left(e) \subseteq Tasks[plan]
    BY <1>1 DEF Left
  <2>2. IsFiniteSet(Left(e))
    BY <1>3, <2>1, FS_Subset
  <2> QED
    BY <2>1, <2>2, FS_CardinalityType
<1> QED
  BY <1>1, <1>2, <1>4

\* Most steps finish no task and make no task.
Quiet ==
    /\ Unfinished' \subseteq Unfinished
    /\ cancelled' \/ error' \/ Unfinished \subseteq Unfinished'
    /\ UNCHANGED <<plan, finished_dependencies, finished_tasks, finished, finishing, completed_pipelines>>

\* All steps but those of Event::FinishTask and Event::Finish.
LEMMA QuietSteps ==
    ASSUME TypeInv, PlacesInv, [Next]_vars
    PROVE  \/ Quiet
           \/ \E x \in Threads : FinishTask(x) \/ FinishReturns(x) \/ CompleteDependency(x)
<1> USE DEF choice, event_state, scheduler, tasks_state, query_state, buffer, outcome, bounds, GoTo
<1>a. /\ plan' = plan /\ Ready \subseteq Ready'
      /\ \A t \in Tasks[plan] : t[1] \in Events[plan] /\ t # NoTask
  BY ChoiceMade, ReadyKept, TaskFacts DEF TypeInv, ChoiceTyped
<1>b. /\ Workers \subseteq Threads /\ Client \in Threads
      /\ task \in [Threads -> Tasks[plan] \cup {NoTask}] /\ pc \in [Threads -> Labels]
      /\ callback \in [Tasks[plan] -> {"none", "registered", "running"}]
      /\ to_be_rescheduled_tasks \subseteq Tasks[plan] /\ NoTask \notin Tasks[plan]
      /\ Range(queue) \subseteq Tasks[plan]
  BY TaskFacts, QueueFacts DEF Threads, TypeInv, ChoiceTyped, TasksTyped, ThreadsAtWork
<1>c. \A x \in Threads : pc[x] \in Busy => task[x] \in Tasks[plan]
  BY BusyTask
<1>d. pc[Client] \in {"unblocking", "unblocking_wait"} => blocked_sinks # <<>> /\ ~cancelled
  BY DEF TypeInv, ThreadsAtWork, ClientTyped, Busy
<1>e. /\ \A x \in Threads : \A err : AfterTask(x, err) # "finish"
      /\ \A x \in Threads : pc[x] = "finish" => task[x] # NoTask
  BY AfterTaskFacts DEF TypeInv, ThreadsAtWork, Busy
<1>1. ASSUME NEW x \in Threads, PassInterruptTest(x) PROVE Quiet
  <2>1. /\ UNCHANGED <<queue, to_be_rescheduled_tasks, callback>>
        /\ task' = task
        /\ pc[x] # "finish" /\ \E l : l # "finish" /\ pc' = [pc EXCEPT ![x] = l]
        /\ UNCHANGED <<finished_dependencies, finished_tasks, finished, finishing, completed_pipelines>>
    BY <1>e, <1>1 DEF PassInterruptTest
  <2> QED
    BY <1>a, <1>b, <2>1 DEF Quiet, Unfinished
<1>2. ASSUME NEW x \in Threads, TaskError(x) PROVE Quiet
  <2>1. /\ error' /\ UNCHANGED <<queue, to_be_rescheduled_tasks, callback>>
        /\ task' = task \/ task' = [task EXCEPT ![x] = NoTask]
        /\ pc[x] # "finish" /\ \E l : l # "finish" /\ pc' = [pc EXCEPT ![x] = l]
        /\ UNCHANGED <<finished_dependencies, finished_tasks, finished, finishing, completed_pipelines>>
    BY <1>e, <1>2 DEF TaskError, Release
  <2> QED
    BY <1>a, <1>b, <2>1 DEF Quiet, Unfinished
<1>3. ASSUME NEW x \in Threads, TaskBlocks(x) PROVE Quiet
  <2>1. /\ UNCHANGED <<queue, to_be_rescheduled_tasks, task>>
        /\ callback' = [callback EXCEPT ![task[x]] = "registered"]
        /\ pc[x] # "finish" /\ pc' = [pc EXCEPT ![x] = "deschedule"]
        /\ UNCHANGED <<finished_dependencies, finished_tasks, finished, finishing, completed_pipelines>>
    BY <1>3 DEF TaskBlocks
  <2>2. \A t \in Tasks[plan] : callback'[t] = "running" => callback[t] = "running"
    BY <1>b, <2>1
  <2> QED
    BY <1>a, <1>b, <2>1, <2>2 DEF Quiet, Unfinished
<1>4. ASSUME NEW x \in Threads, Sink(x) PROVE Quiet
  <2>1. /\ UNCHANGED <<queue, to_be_rescheduled_tasks, callback>>
        /\ task' = task
        /\ pc[x] # "finish" /\ \E l : l # "finish" /\ pc' = [pc EXCEPT ![x] = l]
        /\ UNCHANGED <<finished_dependencies, finished_tasks, finished, finishing, completed_pipelines>>
    BY <1>e, <1>4 DEF Sink
  <2> QED
    BY <1>a, <1>b, <2>1 DEF Quiet, Unfinished
<1>5. ASSUME NEW x \in Threads, BlockSink(x) PROVE Quiet
  <2>1. /\ UNCHANGED <<queue, to_be_rescheduled_tasks, callback>>
        /\ task' = task
        /\ pc[x] # "finish" /\ \E l : l # "finish" /\ pc' = [pc EXCEPT ![x] = l]
        /\ UNCHANGED <<finished_dependencies, finished_tasks, finished, finishing, completed_pipelines>>
    BY <1>e, <1>5 DEF BlockSink
  <2> QED
    BY <1>a, <1>b, <2>1 DEF Quiet, Unfinished
<1>6. ASSUME NEW x \in Threads, Deschedule(x) PROVE Quiet
  <2>1. /\ task[x] \in Tasks[plan] /\ task' = [task EXCEPT ![x] = NoTask] /\ UNCHANGED <<queue, callback>>
        /\ to_be_rescheduled_tasks' \subseteq to_be_rescheduled_tasks \cup {task[x]}
        /\ cancelled' \/ to_be_rescheduled_tasks' = to_be_rescheduled_tasks \cup {task[x]}
        /\ pc[x] = "deschedule" /\ \E l : l # "finish" /\ pc' = [pc EXCEPT ![x] = l]
        /\ UNCHANGED <<finished_dependencies, finished_tasks, finished, finishing, completed_pipelines>>
    BY <1>c, <1>e, <1>6 DEF Deschedule, AddToBeRescheduled, Release, Busy
  <2> QED
    BY <1>a, <1>b, <2>1 DEF Quiet, Unfinished
<1>7. ASSUME NEW x \in Threads, FinishTask(x) PROVE \E y \in Threads : FinishTask(y) \/ FinishReturns(y) \/ CompleteDependency(y)
  BY <1>7
<1>8. ASSUME NEW x \in Threads, FinishReturns(x) PROVE \E y \in Threads : FinishTask(y) \/ FinishReturns(y) \/ CompleteDependency(y)
  BY <1>8
<1>9. ASSUME NEW x \in Threads, CompleteDependency(x) PROVE \E y \in Threads : FinishTask(y) \/ FinishReturns(y) \/ CompleteDependency(y)
  BY <1>9
<1>10. ASSUME NEW x \in Workers, SemaphoreWait(x) PROVE Quiet
  <2>1. /\ UNCHANGED <<queue, to_be_rescheduled_tasks, callback>>
        /\ task' = task
        /\ pc[x] # "finish" /\ \E l : l # "finish" /\ pc' = [pc EXCEPT ![x] = l]
        /\ UNCHANGED <<finished_dependencies, finished_tasks, finished, finishing, completed_pipelines>>
    BY <1>e, <1>10 DEF SemaphoreWait
  <2> QED
    BY <1>a, <1>b, <2>1 DEF Quiet, Unfinished
<1>11. ASSUME NEW x \in Workers, Dequeue(x) PROVE Quiet
  <2>1. /\ task[x] = NoTask /\ queue # <<>> /\ queue' = Tail(queue) /\ task' = [task EXCEPT ![x] = Head(queue)]
        /\ \E l \in {"run", "work"} : pc' = [pc EXCEPT ![x] = l]
        /\ UNCHANGED <<to_be_rescheduled_tasks, callback>>
        /\ UNCHANGED <<finished_dependencies, finished_tasks, finished, finishing, completed_pipelines>>
    BY <1>11 DEF Dequeue, Execute, Busy, TypeInv, ThreadsAtWork
  <2>2. Range(queue) = {Head(queue)} \cup Range(queue')
    BY <2>1, QueueFacts
  <2>3. Unfinished' \subseteq Unfinished
    BY <1>a, <1>b, <2>1, <2>2 DEF Unfinished
  <2>4. Unfinished \subseteq Unfinished'
    BY <1>a, <1>b, <2>1, <2>2 DEF Unfinished
  <2> QED
    BY <1>a, <2>1, <2>3, <2>4 DEF Quiet
<1>12. ASSUME NEW x \in Workers, DequeueFails(x) PROVE Quiet
  <2>1. /\ UNCHANGED <<queue, to_be_rescheduled_tasks, callback>>
        /\ task' = task
        /\ pc[x] # "finish" /\ \E l : l # "finish" /\ pc' = [pc EXCEPT ![x] = l]
        /\ UNCHANGED <<finished_dependencies, finished_tasks, finished, finishing, completed_pipelines>>
    BY <1>e, <1>12 DEF DequeueFails
  <2> QED
    BY <1>a, <1>b, <2>1 DEF Quiet, Unfinished
<1>13. ASSUME NEW t \in DOMAIN callback, Callback(t) PROVE Quiet
  <2>1. /\ t \in Tasks[plan] /\ callback[t] = "registered"
        /\ callback' = [callback EXCEPT ![t] = IF t \in Alive THEN "running" ELSE "none"]
        /\ UNCHANGED <<queue, to_be_rescheduled_tasks, task, pc>>
        /\ UNCHANGED <<finished_dependencies, finished_tasks, finished, finishing, completed_pipelines>>
    BY <1>b, <1>13 DEF Callback
  <2>2. \A x \in Threads : task[x] = t => pc[x] = "deschedule"
    BY <2>1 DEF PlacesInv, BlockedTasks, Waiting
  <2>3. t \in Alive => t \in Unfinished
    BY <1>b, <2>1, <2>2 DEF Alive, Unfinished, Range
  <2> HIDE DEF Alive
  <2>4. \A u \in Tasks[plan] : callback'[u] = "running" => callback[u] = "running" \/ u \in Unfinished
    BY <1>b, <2>1, <2>3
  <2> QED
    BY <1>a, <1>b, <2>1, <2>4 DEF Quiet, Unfinished
<1>14. ASSUME NEW t \in DOMAIN callback, CallbackReturns(t) PROVE Quiet
  <2>1. /\ t \in Tasks[plan] /\ callback[t] = "running"
        /\ callback' = [callback EXCEPT ![t] = "none"] /\ UNCHANGED <<task, pc>>
        /\ UNCHANGED <<finished_dependencies, finished_tasks, finished, finishing, completed_pipelines>>
    BY <1>b, <1>14 DEF CallbackReturns
  <2>2. \/ cancelled' /\ UNCHANGED <<queue, to_be_rescheduled_tasks>>
        \/ Enqueue(<<t>>) /\ to_be_rescheduled_tasks' = to_be_rescheduled_tasks \ {t}
    BY <1>14 DEF CallbackReturns, RescheduleTask
  <2>3. /\ Range(queue') \subseteq Range(queue) \cup {t}
        /\ to_be_rescheduled_tasks' \subseteq to_be_rescheduled_tasks
        /\ \/ cancelled'
           \/ /\ Range(queue') = Range(queue) \cup {t}
              /\ to_be_rescheduled_tasks' = to_be_rescheduled_tasks \ {t}
    BY <2>1, <2>2, QueueFacts
  <2>4. \A u \in Tasks[plan] : callback'[u] = "running" => callback[u] = "running"
    BY <1>b, <2>1
  <2> QED
    BY <1>a, <1>b, <2>1, <2>3, <2>4 DEF Quiet, Unfinished
<1>15. ASSUME ExecutionFinished PROVE Quiet
  <2>1. /\ UNCHANGED <<queue, to_be_rescheduled_tasks, callback>>
        /\ task' = task
        /\ pc[Client] # "finish" /\ \E l : l # "finish" /\ pc' = [pc EXCEPT ![Client] = l]
        /\ UNCHANGED <<finished_dependencies, finished_tasks, finished, finishing, completed_pipelines>>
    BY <1>e, <1>15 DEF ExecutionFinished
  <2> QED
    BY <1>a, <1>b, <2>1 DEF Quiet, Unfinished
<1>16. ASSUME ExecuteTask PROVE Quiet
  <2>1. /\ UNCHANGED <<to_be_rescheduled_tasks, callback>>
        /\ \/ UNCHANGED <<queue, task>>
           \/ task[Client] = NoTask /\ queue # <<>> /\ queue' = Tail(queue) /\ task' = [task EXCEPT ![Client] = Head(queue)]
        /\ pc[Client] = "execute" /\ \E l : l # "finish" /\ pc' = [pc EXCEPT ![Client] = l]
        /\ UNCHANGED <<finished_dependencies, finished_tasks, finished, finishing, completed_pipelines>>
    BY <1>b, <1>16 DEF ExecuteTask, Execute
  <2>2. queue # <<>> => Range(queue) = {Head(queue)} \cup Range(Tail(queue))
    BY QueueFacts
  <2>3. CASE UNCHANGED <<queue, task>>
    BY <1>a, <1>b, <2>1, <2>3 DEF Quiet, Unfinished
  <2>4. CASE task[Client] = NoTask /\ queue # <<>> /\ queue' = Tail(queue) /\ task' = [task EXCEPT ![Client] = Head(queue)]
    <3>1. Range(queue) = {Head(queue)} \cup Range(queue')
      BY <2>2, <2>4
    <3>2. Unfinished' \subseteq Unfinished
      BY <1>a, <1>b, <2>1, <2>4, <3>1 DEF Unfinished
    <3>3. Unfinished \subseteq Unfinished'
      BY <1>a, <1>b, <2>1, <2>4, <3>1 DEF Unfinished
    <3> QED
      BY <1>a, <2>1, <3>2, <3>3 DEF Quiet
  <2> QED
    BY <2>1, <2>3, <2>4
<1>17. ASSUME NoTaskAvailable PROVE Quiet
  <2>1. /\ UNCHANGED <<queue, to_be_rescheduled_tasks, callback>>
        /\ task' = task
        /\ pc[Client] # "finish" /\ \E l : l # "finish" /\ pc' = [pc EXCEPT ![Client] = l]
        /\ UNCHANGED <<finished_dependencies, finished_tasks, finished, finishing, completed_pipelines>>
    BY <1>e, <1>17 DEF NoTaskAvailable, Loop
  <2> QED
    BY <1>a, <1>b, <2>1 DEF Quiet, Unfinished
<1>18. ASSUME Fetch PROVE Quiet
  <2>1. /\ UNCHANGED <<queue, to_be_rescheduled_tasks, callback, task>> /\ pc[Client] # "finish"
        /\ \/ UNCHANGED pc
           \/ \E l : l # "finish" /\ pc' = [pc EXCEPT ![Client] = l]
        /\ UNCHANGED <<finished_dependencies, finished_tasks, finished, finishing, completed_pipelines>>
    BY <1>18 DEF Fetch
  <2> QED
    BY <1>a, <1>b, <2>1 DEF Quiet, Unfinished
<1>19. ASSUME Fetched PROVE Quiet
  <2>1. /\ UNCHANGED <<queue, to_be_rescheduled_tasks, callback>>
        /\ task' = task
        /\ pc[Client] # "finish" /\ \E l : l # "finish" /\ pc' = [pc EXCEPT ![Client] = l]
        /\ UNCHANGED <<finished_dependencies, finished_tasks, finished, finishing, completed_pipelines>>
    BY <1>e, <1>19 DEF Fetched
  <2> QED
    BY <1>a, <1>b, <2>1 DEF Quiet, Unfinished
<1>20. ASSUME UnblockSinks PROVE Quiet
  <2>0. PICK l \in {<<"unblock", "unblocking", "execute">>, <<"unblock_wait", "unblocking_wait", "fetch">>} :
          /\ pc[Client] = l[1]
          /\ pc' = [pc EXCEPT ![Client] = l[2]] \/ pc' = [pc EXCEPT ![Client] = l[3]]
    BY <1>20 DEF UnblockSinks
  <2>1. /\ pc[Client] # "finish" /\ \E m : m # "finish" /\ pc' = [pc EXCEPT ![Client] = m]
    <3>1. l[1] # "finish" /\ l[2] # "finish" /\ l[3] # "finish"
      OBVIOUS
    <3> QED
      BY <2>0, <3>1
  <2>2. /\ UNCHANGED <<queue, to_be_rescheduled_tasks, callback, task>>
        /\ UNCHANGED <<finished_dependencies, finished_tasks, finished, finishing, completed_pipelines>>
    BY <1>20 DEF UnblockSinks
  <2> QED
    BY <1>a, <1>b, <2>1, <2>2 DEF Quiet, Unfinished
<1>21. ASSUME UnblockSink PROVE Quiet
  <2> DEFINE t == Head(blocked_sinks)
  <2>1. /\ t \in to_be_rescheduled_tasks /\ to_be_rescheduled_tasks' = to_be_rescheduled_tasks \ {t}
        /\ Enqueue(<<t>>) /\ UNCHANGED <<callback, task>>
        /\ pc[Client] # "finish" /\ \E l : l # "finish" /\ pc' = [pc EXCEPT ![Client] = l]
        /\ UNCHANGED <<finished_dependencies, finished_tasks, finished, finishing, completed_pipelines>>
    BY <1>d, <1>21 DEF UnblockSink, RescheduleTask
  <2>2. Range(queue') = Range(queue) \cup {t}
    BY <1>b, <2>1, QueueFacts
  <2> HIDE DEF t
  <2> QED
    BY <1>a, <1>b, <2>1, <2>2 DEF Quiet, Unfinished
<1>22. ASSUME CloseResult PROVE Quiet
  <2>1. /\ UNCHANGED <<queue, to_be_rescheduled_tasks, callback>>
        /\ task' = task
        /\ pc[Client] # "finish" /\ \E l : l # "finish" /\ pc' = [pc EXCEPT ![Client] = l]
        /\ UNCHANGED <<finished_dependencies, finished_tasks, finished, finishing, completed_pipelines>>
    BY <1>e, <1>22 DEF CloseResult, Loop
  <2> QED
    BY <1>a, <1>b, <2>1 DEF Quiet, Unfinished
<1>23. ASSUME CancelTasks PROVE Quiet
  <2>1. /\ cancelled' /\ UNCHANGED <<queue, callback>> /\ to_be_rescheduled_tasks' = {}
        /\ task' = [task EXCEPT ![Client] = NoTask]
        /\ pc[Client] # "finish" /\ pc' = [pc EXCEPT ![Client] = "drain"]
        /\ UNCHANGED <<finished_dependencies, finished_tasks, finished, finishing, completed_pipelines>>
    BY <1>23 DEF CancelTasks
  <2> QED
    BY <1>a, <1>b, <2>1 DEF Quiet, Unfinished
<1>24. ASSUME WorkOnTasks PROVE Quiet
  <2>1. /\ task[Client] = NoTask /\ queue # <<>> /\ queue' = Tail(queue) /\ task' = [task EXCEPT ![Client] = Head(queue)]
        /\ \E l \in {"run", "work"} : pc' = [pc EXCEPT ![Client] = l]
        /\ UNCHANGED <<to_be_rescheduled_tasks, callback>>
        /\ UNCHANGED <<finished_dependencies, finished_tasks, finished, finishing, completed_pipelines>>
    BY <1>24 DEF WorkOnTasks, Execute, TypeInv, ThreadsAtWork
  <2>2. Range(queue) = {Head(queue)} \cup Range(queue')
    BY <2>1, QueueFacts
  <2>3. Unfinished' \subseteq Unfinished
    BY <1>a, <1>b, <2>1, <2>2 DEF Unfinished
  <2>4. Unfinished \subseteq Unfinished'
    BY <1>a, <1>b, <2>1, <2>2 DEF Unfinished
  <2> QED
    BY <1>a, <2>1, <2>3, <2>4 DEF Quiet
<1>25. ASSUME DestroyEvents PROVE Quiet
  <2>1. /\ UNCHANGED <<queue, to_be_rescheduled_tasks, callback>>
        /\ task' = task
        /\ pc[Client] # "finish" /\ \E l : l # "finish" /\ pc' = [pc EXCEPT ![Client] = l]
        /\ UNCHANGED <<finished_dependencies, finished_tasks, finished, finishing, completed_pipelines>>
    BY <1>e, <1>25 DEF DestroyEvents
  <2> QED
    BY <1>a, <1>b, <2>1 DEF Quiet, Unfinished
<1>26. ASSUME Interrupt PROVE Quiet
  BY <1>26, <1>a, <1>b DEF Interrupt, Quiet, Unfinished
<1>27. ASSUME UNCHANGED vars PROVE Quiet
  BY <1>27, <1>a, <1>b DEF vars, Quiet, Unfinished
<1> QED
  BY <1>1, <1>2, <1>3, <1>4, <1>5, <1>6, <1>7, <1>8, <1>9, <1>10, <1>11, <1>12, <1>13, <1>14,
      <1>15, <1>16, <1>17, <1>18, <1>19, <1>20, <1>21, <1>22, <1>23, <1>24, <1>25, <1>26, <1>27
      DEF Next, WorkerStep, ClientStep, TaskStep, Callbacks, Threads

\* What Event::FinishTask does.
LEMMA FinishTaskEffect ==
    ASSUME TypeInv, PlacesInv, NEW x \in Threads, FinishTask(x)
    PROVE  LET t == task[x]
               e == task[x][1]
           IN  /\ plan' = plan /\ t \in Unfinished /\ e \in Events[plan] /\ chunks[t] = 0
               /\ Unfinished' = Unfinished \ {t}
               /\ finishing[x] = <<>>
               /\ finished_tasks' = [finished_tasks EXCEPT ![e] = @ + 1]
               /\ UNCHANGED <<finished_dependencies, completed_pipelines, chunks, error, cancelled>>
               /\ IF finished_tasks[e] + 1 = NumTasks(Plan, e)
                  THEN /\ finished' = [finished EXCEPT ![e] = @ + 1]
                       /\ finishing' = [finishing EXCEPT ![x] = <<Frame(e, Parents(e))>>]
                  ELSE UNCHANGED <<finished, finishing>>
<1> USE DEF choice, event_state, scheduler, tasks_state, query_state, buffer, outcome, bounds, GoTo
<1> DEFINE t == task[x]
           e == task[x][1]
<1>1. /\ pc[x] = "work" /\ t \in Tasks[plan] /\ e \in Events[plan] /\ finishing[x] = <<>>
  BY BusyTask DEF FinishTask, Busy, TypeInv, ThreadsAtWork
<1>2. /\ task \in [Threads -> Tasks[plan] \cup {NoTask}] /\ pc \in [Threads -> Labels]
      /\ NoTask \notin Tasks[plan]
      /\ callback \in [Tasks[plan] -> {"none", "registered", "running"}]
  BY TaskFacts DEF TypeInv, ChoiceTyped, TasksTyped, ThreadsAtWork
<1>3. t \in Unfinished
  BY <1>1 DEF Unfinished
<1>4. /\ t \notin Range(queue) /\ t \notin to_be_rescheduled_tasks
      /\ \A y \in Threads : task[y] = t => y = x
      /\ callback[t] = "none"
  BY <1>1, <1>2 DEF PlacesInv, OnePlace, BlockedTasks, Waiting
<1>5. /\ UNCHANGED <<plan, queue, to_be_rescheduled_tasks, callback>>
      /\ \/ task' = task /\ pc' = [pc EXCEPT ![x] = "finish"]
         \/ task' = [task EXCEPT ![x] = NoTask] /\ \E err : pc' = [pc EXCEPT ![x] = AfterTask(x, err)]
  BY DEF FinishTask, Release
<1>6. Unfinished' = Unfinished \ {t}
  <2>1. ASSUME NEW u \in Unfinished' PROVE u \in Unfinished /\ u # t
    BY <1>1, <1>2, <1>4, <1>5 DEF Unfinished
  <2>2. ASSUME NEW u \in Unfinished, u # t PROVE u \in Unfinished'
    BY <1>1, <1>2, <1>4, <1>5, <2>2 DEF Unfinished
  <2> QED
    BY <2>1, <2>2
<1>7. /\ chunks[t] = 0
      /\ finished_tasks' = [finished_tasks EXCEPT ![e] = @ + 1]
      /\ UNCHANGED <<finished_dependencies, completed_pipelines, chunks, error, cancelled>>
      /\ IF finished_tasks[e] + 1 = NumTasks(Plan, e)
         THEN /\ finished' = [finished EXCEPT ![e] = @ + 1]
              /\ finishing' = [finishing EXCEPT ![x] = <<Frame(e, Parents(e))>>]
         ELSE UNCHANGED <<finished, finishing>>
  BY DEF FinishTask, IsLastTask
<1> QED
  BY <1>1, <1>3, <1>5, <1>6, <1>7

\* What the end of a call of Event::Finish does.
LEMMA FinishReturnsEffect ==
    ASSUME TypeInv, NEW x \in Threads, FinishReturns(x)
    PROVE  /\ pc[x] = "finish" /\ Head(finishing[x]).parents = {}
           /\ finishing' = [finishing EXCEPT ![x] = Tail(finishing[x])]
           /\ Unfinished' = Unfinished
           /\ completed_pipelines' = completed_pipelines
                                      + IF Head(finishing[x]).event[1] = "complete" THEN 1 ELSE 0
           /\ UNCHANGED <<plan, finished_dependencies, finished_tasks, finished, chunks, error, cancelled>>
<1> USE DEF choice, event_state, scheduler, tasks_state, query_state, buffer, outcome, bounds, GoTo
<1>1. /\ pc[x] = "finish" /\ Head(finishing[x]).parents = {}
      /\ finishing' = [finishing EXCEPT ![x] = Tail(finishing[x])]
      /\ completed_pipelines' = completed_pipelines
                                 + IF Head(finishing[x]).event[1] = "complete" THEN 1 ELSE 0
      /\ UNCHANGED <<plan, finished_dependencies, finished_tasks, finished, chunks, error, cancelled>>
  BY DEF FinishReturns
<1>2. /\ UNCHANGED <<queue, to_be_rescheduled_tasks, callback>>
      /\ \/ UNCHANGED <<task, pc>>
         \/ task' = [task EXCEPT ![x] = NoTask] /\ \E l : pc' = [pc EXCEPT ![x] = l]
  BY DEF FinishReturns, Release
<1>3. /\ task \in [Threads -> Tasks[plan] \cup {NoTask}] /\ pc \in [Threads -> Labels]
      /\ NoTask \notin Tasks[plan]
  BY TaskFacts DEF TypeInv, ChoiceTyped, TasksTyped, ThreadsAtWork
<1>4. Unfinished' = Unfinished
  BY <1>1, <1>2, <1>3 DEF Unfinished
<1> QED
  BY <1>1, <1>4

\* What Event::CompleteDependency does to the tasks.
LEMMA CompleteDependencyTasks ==
    ASSUME TypeInv, PlacesInv, NEW x \in Threads, CompleteDependency(x)
    PROVE  /\ UNCHANGED <<plan, finished_tasks, completed_pipelines, chunks, cancelled>>
           /\ \E p \in Head(finishing[x]).parents :
                /\ p \in Events[plan]
                /\ \/ UNCHANGED <<finished_dependencies, finished, error>> /\ Unfinished' = Unfinished
                   \/ /\ finished_dependencies' = [finished_dependencies EXCEPT ![p] = @ + 1]
                      /\ finished_dependencies[p] + 1 # total_dependencies(p)
                      /\ UNCHANGED <<finished, error>> /\ Unfinished' = Unfinished
                   \/ /\ finished_dependencies' = [finished_dependencies EXCEPT ![p] = @ + 1]
                      /\ p \notin Ready /\ UNCHANGED <<finished, error>>
                      /\ Unfinished' = Unfinished \cup {t \in Tasks[plan] : t[1] = p}
                   \/ /\ finished_dependencies' = [finished_dependencies EXCEPT ![p] = @ + 1]
                      /\ p \notin Ready /\ finished' = [finished EXCEPT ![p] = @ + 1]
                      /\ (NumTasks(Plan, p) = 0 /\ UNCHANGED error) \/ error'
                      /\ Unfinished' = Unfinished
<1>1. PICK p \in Head(finishing[x]).parents :
                /\ p \in Events[plan]
                /\ \/ UNCHANGED <<queue, semaphore, finished, finished_dependencies, error>>
                   \/ /\ p \in events
                      /\ finished_dependencies' = [finished_dependencies EXCEPT ![p] = @ + 1]
                      /\ finished_dependencies[p] + 1 # total_dependencies(p)
                      /\ UNCHANGED <<queue, semaphore, finished, error>>
                   \/ /\ p \in events
                      /\ finished_dependencies' = [finished_dependencies EXCEPT ![p] = @ + 1]
                      /\ finished_dependencies[p] + 1 = total_dependencies(p)
                      /\ Enqueue(TasksOf(Plan, p)) /\ UNCHANGED <<finished, error>>
                   \/ /\ p \in events
                      /\ finished_dependencies' = [finished_dependencies EXCEPT ![p] = @ + 1]
                      /\ finished_dependencies[p] + 1 = total_dependencies(p)
                      /\ finished' = [finished EXCEPT ![p] = @ + 1]
                      /\ (NumTasks(Plan, p) = 0 /\ UNCHANGED error) \/ error'
                      /\ UNCHANGED <<queue, semaphore>>
  BY CompleteDependencyEffect
<1>2. UNCHANGED <<plan, to_be_rescheduled_tasks, callback, pc, task, finished_tasks, cancelled, chunks>>
  BY CompleteDependencyEffect
<1>3. finished_dependencies[p] + 1 = total_dependencies(p) => p \notin Ready
  BY ParentsFacts, <1>1 DEF Ready, TypeInv, ChoiceTyped, EventsTyped
<1>4. queue' = queue => Unfinished' = Unfinished
  BY <1>2 DEF Unfinished
<1>5. Enqueue(TasksOf(Plan, p)) => Unfinished' = Unfinished \cup {t \in Tasks[plan] : t[1] = p}
  <2> SUFFICES ASSUME Enqueue(TasksOf(Plan, p))
               PROVE  Unfinished' = Unfinished \cup {t \in Tasks[plan] : t[1] = p}
    OBVIOUS
  <2>1. Range(queue') = Range(queue) \cup {t \in Tasks[plan] : t[1] = p}
    BY <1>1, EnqueueTasksOf
  <2> QED
    BY <1>2, <2>1 DEF Unfinished
<1>6. completed_pipelines' = completed_pipelines
  BY DEF CompleteDependency
<1> HIDE DEF Enqueue
<1> QED
  BY <1>1, <1>2, <1>3, <1>4, <1>5, <1>6

\* How many tasks an event has.
LEMMA TasksOfCounted ==
    ASSUME ChoiceTyped, NEW e \in Events[plan]
    PROVE  /\ IsFiniteSet({t \in Tasks[plan] : t[1] = e})
           /\ Cardinality({t \in Tasks[plan] : t[1] = e}) = NumTasks(Plan, e)
<1> DEFINE n == NumTasks(Plan, e)
<1>1. n \in Nat
  BY EventFacts DEF ChoiceTyped, Plan
<1>2. {t \in Tasks[plan] : t[1] = e} = {e} \X (1 .. n)
  <2>1. \A t \in Tasks[plan] : t[1] = e => t = <<e, t[2]>> /\ t[2] \in 1 .. n
    BY TaskFacts DEF ChoiceTyped, Plan
  <2>2. \A i \in 1 .. n : <<e, i>> \in Tasks[plan]
    BY TaskFacts DEF ChoiceTyped, Plan
  <2> HIDE DEF n
  <2> QED
    BY <2>1, <2>2
<1> HIDE DEF n
<1>3. IsFiniteSet(1 .. n) /\ Cardinality(1 .. n) = n
  BY <1>1, FS_Interval
<1>4. IsFiniteSet({e}) /\ Cardinality({e}) = 1
  BY FS_Singleton
<1>5. IsFiniteSet({e} \X (1 .. n)) /\ Cardinality({e} \X (1 .. n)) = 1 * n
  BY ZenonT(40), <1>3, <1>4, FS_Product
<1>6. 1 * n = n
  BY <1>1
<1>7. IsFiniteSet({t \in Tasks[plan] : t[1] = e}) /\ Cardinality({t \in Tasks[plan] : t[1] = e}) = n
  BY <1>2, <1>5, <1>6
<1> QED
  BY <1>7 DEF n

\* The tasks of an event are counted after a step.
LEMMA TasksCountedStep ==
    ASSUME TypeInv, PlacesInv, TasksCounted, [Next]_vars
    PROVE  TasksCounted'
<1>a. /\ finished_tasks \in [Events[plan] -> Nat] /\ finished \in [Events[plan] -> Nat]
      /\ \A e \in Events[plan] : NumTasks(Plan, e) \in Nat
  BY EventFacts DEF TypeInv, EventsTyped, ChoiceTyped, Plan
<1>b. plan' = plan /\ Plan' = Plan
  BY ChoiceMade DEF Plan
<1>c. ASSUME NEW e, Unfinished' \subseteq Unfinished
      PROVE  Left(e)' \subseteq Left(e) /\ Cardinality(Left(e)') <= Cardinality(Left(e))
             /\ Cardinality(Left(e)') \in Nat /\ Cardinality(Left(e)) \in Nat
  <2>1. Left(e)' \subseteq Left(e)
    BY <1>c DEF Left
  <2>2. IsFiniteSet(Left(e))
    BY UnfinishedFacts DEF PlacesInv
  <2> QED
    BY <2>1, <2>2, FS_Subset, FS_CardinalityType
<1>d. ASSUME NEW e \in Events[plan], Unfinished' \subseteq Unfinished,
             finished'[e] = finished[e], finished_tasks'[e] = finished_tasks[e]
      PROVE  /\ finished'[e] <= 1
             /\ finished_tasks'[e] + Cardinality(Left(e)') <= NumTasks(Plan, e)
             /\ finished'[e] = 1 => Left(e)' = {}
  <2>1. /\ Left(e)' \subseteq Left(e) /\ Cardinality(Left(e)') <= Cardinality(Left(e))
        /\ Cardinality(Left(e)') \in Nat /\ Cardinality(Left(e)) \in Nat
    BY <1>c, <1>d
  <2>2. /\ finished[e] <= 1 /\ finished_tasks[e] + Cardinality(Left(e)) <= NumTasks(Plan, e)
        /\ finished[e] = 1 => Left(e) = {}
    BY DEF TasksCounted
  <2>3. finished_tasks[e] \in Nat /\ NumTasks(Plan, e) \in Nat
    BY <1>a
  <2>4. finished'[e] = 1 => Left(e)' = {}
    BY <1>d, <2>1, <2>2
  <2>5. finished_tasks[e] + Cardinality(Left(e)') <= NumTasks(Plan, e)
    BY <2>1, <2>2, <2>3
  <2> QED
    BY <1>d, <2>2, <2>4, <2>5
<1>e. SUFFICES ASSUME NEW e \in Events[plan]
               PROVE  /\ finished'[e] <= 1
                      /\ finished_tasks'[e] + Cardinality(Left(e)') <= NumTasks(Plan, e)
                      /\ finished'[e] = 1 => Left(e)' = {}
  BY <1>b DEF TasksCounted
<1>1. CASE Quiet
  BY <1>1, <1>d DEF Quiet
<1>2. ASSUME NEW x \in Threads, FinishReturns(x)
      PROVE  /\ finished'[e] <= 1
             /\ finished_tasks'[e] + Cardinality(Left(e)') <= NumTasks(Plan, e)
             /\ finished'[e] = 1 => Left(e)' = {}
  BY <1>2, <1>d, FinishReturnsEffect
<1>3. ASSUME NEW x \in Threads, FinishTask(x)
      PROVE  /\ finished'[e] <= 1
             /\ finished_tasks'[e] + Cardinality(Left(e)') <= NumTasks(Plan, e)
             /\ finished'[e] = 1 => Left(e)' = {}
  <2> DEFINE t == task[x]
             g == task[x][1]
  <2>1. /\ t \in Unfinished /\ g \in Events[plan] /\ Unfinished' \subseteq Unfinished \ {t}
        /\ finished_tasks' = [finished_tasks EXCEPT ![g] = @ + 1]
        /\ \/ finished_tasks[g] + 1 = NumTasks(Plan, g) /\ finished' = [finished EXCEPT ![g] = @ + 1]
           \/ finished_tasks[g] + 1 # NumTasks(Plan, g) /\ finished' = finished
    BY <1>3, FinishTaskEffect
  <2>2. CASE e # g
    BY <1>a, <1>d, <2>1, <2>2
  <2>3. CASE e = g
    <3>1. t \in Left(e) /\ Left(e)' \subseteq Left(e) \ {t}
      BY <2>1, <2>3 DEF Left
    <3> HIDE DEF t, g
    <3>2. IsFiniteSet(Left(e)) /\ Cardinality(Left(e)) \in Nat
      BY UnfinishedFacts DEF PlacesInv
    <3>3. IsFiniteSet(Left(e) \ {t}) /\ Cardinality(Left(e) \ {t}) = Cardinality(Left(e)) - 1
      BY <3>1, <3>2, FS_RemoveElement
    <3>4. Cardinality(Left(e)') <= Cardinality(Left(e)) - 1 /\ IsFiniteSet(Left(e)')
      BY <3>1, <3>3, FS_Subset
    <3>5. Cardinality(Left(e)') \in Nat
      BY <3>4, FS_CardinalityType
    <3>6. finished[e] = 0 /\ finished_tasks[e] + Cardinality(Left(e)) <= NumTasks(Plan, e)
      <4>1. finished[e] <= 1 /\ finished[e] # 1 /\ finished[e] \in Nat
        BY <1>a, <3>1 DEF TasksCounted
      <4> QED
        BY <4>1 DEF TasksCounted
    <3>7. finished_tasks'[e] = finished_tasks[e] + 1 /\ finished_tasks[e] \in Nat /\ NumTasks(Plan, e) \in Nat
      BY <1>a, <2>1, <2>3
    <3>8. finished_tasks'[e] + Cardinality(Left(e)') <= NumTasks(Plan, e)
      BY <3>2, <3>4, <3>5, <3>6, <3>7
    <3>9. \/ finished_tasks[e] + 1 = NumTasks(Plan, e) /\ finished'[e] = 1
          \/ finished'[e] = 0
      BY <1>a, <2>1, <2>3, <3>6
    <3>10. finished_tasks[e] + 1 = NumTasks(Plan, e) => Left(e)' = {}
      <4>1. finished_tasks[e] + 1 = NumTasks(Plan, e) => Cardinality(Left(e)') = 0
        BY <3>5, <3>7, <3>8
      <4> QED
        BY <3>4, <4>1, FS_EmptySet
    <3> QED
      BY <3>8, <3>9, <3>10
  <2> QED
    BY <2>2, <2>3
<1>4. ASSUME NEW x \in Threads, CompleteDependency(x)
      PROVE  /\ finished'[e] <= 1
             /\ finished_tasks'[e] + Cardinality(Left(e)') <= NumTasks(Plan, e)
             /\ finished'[e] = 1 => Left(e)' = {}
  <2>1. finished_tasks' = finished_tasks
    BY <1>4, CompleteDependencyTasks
  <2>2. PICK p \in Events[plan] :
          \/ finished' = finished /\ Unfinished' \subseteq Unfinished
          \/ p \notin Ready /\ finished' = finished /\ Unfinished' = Unfinished \cup {t \in Tasks[plan] : t[1] = p}
          \/ p \notin Ready /\ finished' = [finished EXCEPT ![p] = @ + 1] /\ Unfinished' \subseteq Unfinished
    BY <1>4, CompleteDependencyTasks
  <2>3. p \notin Ready => finished[p] = 0 /\ finished_tasks[p] = 0 /\ Left(p) = {}
    <3>1. p \notin Ready => ~(finished[p] > 0) /\ ~(finished_tasks[p] > 0)
      BY DEF PlacesInv, OnlyReady
    <3>2. p \notin Ready => Left(p) = {}
      BY UnfinishedFacts DEF PlacesInv, Left
    <3> QED
      BY <1>a, <3>1, <3>2
  <2>4. CASE e # p
    <3>1. Left(e)' \subseteq Left(e) /\ finished'[e] = finished[e]
      BY <1>a, <2>2, <2>4 DEF Left
    <3>2. IsFiniteSet(Left(e)) /\ Cardinality(Left(e)) \in Nat
      BY UnfinishedFacts DEF PlacesInv
    <3>3. Cardinality(Left(e)') <= Cardinality(Left(e)) /\ IsFiniteSet(Left(e)')
      BY <3>1, <3>2, FS_Subset
    <3>4. Cardinality(Left(e)') \in Nat
      BY <3>3, FS_CardinalityType
    <3>5. /\ finished[e] <= 1 /\ finished_tasks[e] + Cardinality(Left(e)) <= NumTasks(Plan, e)
          /\ finished[e] = 1 => Left(e) = {}
      BY DEF TasksCounted
    <3>6. finished_tasks[e] \in Nat /\ NumTasks(Plan, e) \in Nat
      BY <1>a
    <3>7. finished_tasks[e] + Cardinality(Left(e)') <= NumTasks(Plan, e)
      BY <3>2, <3>3, <3>4, <3>5, <3>6
    <3>8. finished'[e] = 1 => Left(e)' = {}
      BY <3>1, <3>5
    <3> QED
      BY <2>1, <3>1, <3>5, <3>7, <3>8
  <2>5. CASE e = p /\ finished' = finished /\ Unfinished' \subseteq Unfinished
    BY <1>d, <2>1, <2>5
  <2>6. CASE /\ e = p /\ p \notin Ready /\ finished' = finished
             /\ Unfinished' = Unfinished \cup {t \in Tasks[plan] : t[1] = p}
    <3>1. Left(p)' = {t \in Tasks[plan] : t[1] = p}
      <4>1. Left(p)' = Left(p) \cup {t \in Tasks[plan] : t[1] = p}
        BY <2>6 DEF Left
      <4> QED
        BY <2>3, <2>6, <4>1
    <3>2. Cardinality(Left(p)') = NumTasks(Plan, p)
      BY <3>1, TasksOfCounted DEF TypeInv
    <3>3. NumTasks(Plan, p) \in Nat /\ finished[p] = 0 /\ finished_tasks'[p] = 0
      BY <1>a, <2>1, <2>3, <2>6
    <3> QED
      BY <2>6, <3>2, <3>3
  <2>7. CASE e = p /\ p \notin Ready /\ finished' = [finished EXCEPT ![p] = @ + 1] /\ Unfinished' \subseteq Unfinished
    <3>1. finished'[p] = 1 /\ Left(p)' = {} /\ finished_tasks'[p] = 0 /\ NumTasks(Plan, p) \in Nat
      <4>1. Left(p)' \subseteq Left(p)
        BY <2>7 DEF Left
      <4> QED
        BY <1>a, <2>1, <2>3, <2>7, <4>1
    <3>2. Cardinality(Left(p)') = 0
      BY <3>1, FS_EmptySet
    <3> QED
      BY <2>7, <3>1, <3>2
  <2> QED
    BY <2>2, <2>4, <2>5, <2>6, <2>7
<1> QED
  BY <1>1, <1>2, <1>3, <1>4, QuietSteps

\* A sequence with another first element, by its indexes.
LEMMA PushIndexes ==
    ASSUME NEW S, NEW s \in Seq(S), NEW a \in S
    PROVE  /\ Len(<<a>> \o s) = Len(s) + 1 /\ Len(s) \in Nat
           /\ (<<a>> \o s)[1] = a
           /\ \A i \in 2 .. Len(s) + 1 : (<<a>> \o s)[i] = s[i - 1]
OBVIOUS

\* The first element of a sequence and the others, by their indexes.
LEMMA PopIndexes ==
    ASSUME NEW S, NEW s \in Seq(S), s # <<>>
    PROVE  /\ Len(s) \in Nat /\ Len(s) >= 1 /\ Head(s) = s[1]
           /\ Len(Tail(s)) = Len(s) - 1
           /\ \A i \in 1 .. Len(s) - 1 : Tail(s)[i] = s[i + 1]
OBVIOUS

\* How the calls of Event::Finish may change: the innermost call of a thread returns
\* (k = -1), the calls may notify somebody (k = 0), or event p finishes (k = 1).
CallsMove(x, k, p) ==
    /\ finished' = IF k = 1 THEN [finished EXCEPT ![p] = @ + 1] ELSE finished
    /\ k = 1 => p \in Events[plan] /\ finished[p] = 0
    /\ \A y \in Threads \ {x} : finishing'[y] = finishing[y]
    /\ \A i \in 1 .. Len(finishing'[x]) :
          IF k = 1 /\ i = 1
          THEN finishing'[x][i] = Frame(p, Parents(p))
          ELSE /\ i - k \in 1 .. Len(finishing[x])
               /\ finishing'[x][i].event = finishing[x][i - k].event
               /\ finishing'[x][i].parents \subseteq finishing[x][i - k].parents

\* An event that has not finished does so once: its calls of Event::Finish stay the only ones.
LEMMA CallsKept ==
    ASSUME TypeInv, TypeInv', CallsOfFinish, plan' = plan,
           NEW x \in Threads, NEW k \in {-1, 0, 1}, NEW p, CallsMove(x, k, p)
    PROVE  /\ CallsOfFinish'
           /\ \A e : Notified(e) \subseteq Notified(e)'
           /\ \A e \in Events[plan] : finished[e] = 1 => finished'[e] = 1
<1>1. /\ finishing \in [Threads -> Seq(Frames)] /\ finished \in [Events[plan] -> Nat]
      /\ finishing' \in [Threads -> Seq(Frames)]
  BY DEF TypeInv, EventsTyped, Frames
<1>2. \A e : Parents(e)' = Parents(e)
  BY DEF Parents, Inserts, Plan
<1>3. \A e \in Events[plan] : finished[e] = 1 => finished'[e] = 1
  BY <1>1 DEF CallsMove
<1>4. k = 1 => finished'[p] = 1 /\ finished[p] = 0 /\ p \in Events[plan]
  BY <1>1 DEF CallsMove
<1>a. /\ \A y \in Threads : Len(finishing[y]) \in Nat /\ Len(finishing'[y]) \in Nat
      /\ \A y \in Threads : \A i \in 1 .. Len(finishing[y]) : finishing[y][i].event \in Events[plan]
  <2>1. \A y \in Threads : finishing[y] \in Seq(Frames) /\ finishing'[y] \in Seq(Frames)
    BY <1>1
  <2>2. \A y \in Threads : \A i \in 1 .. Len(finishing[y]) : finishing[y][i] \in Frames
    BY <2>1
  <2>3. \A f \in Frames : f.event \in Events[plan]
    BY DEF Frames
  <2> QED
    BY <2>1, <2>2, <2>3
<1>5. ASSUME NEW y \in Threads, NEW i \in 1 .. Len(finishing'[y])
      PROVE  \/ y = x /\ k = 1 /\ i = 1 /\ finishing'[y][i].event = p /\ finishing'[y][i].parents = Parents(p)
             \/ \E j \in 1 .. Len(finishing[y]) :
                  /\ ~(y = x /\ k = 1 /\ i = 1)
                  /\ j = IF y = x THEN i - k ELSE i
                  /\ finishing'[y][i].event = finishing[y][j].event
                  /\ finishing'[y][i].parents \subseteq finishing[y][j].parents
  <2>1. CASE y # x
    BY <2>1 DEF CallsMove
  <2>2. CASE y = x
    BY <2>2 DEF CallsMove, Frame
  <2> QED
    BY <2>1, <2>2
<1>6. ASSUME NEW y \in Threads, NEW i \in 1 .. Len(finishing'[y])
      PROVE  /\ finished'[finishing'[y][i].event] = 1
             /\ finishing'[y][i].parents \subseteq Parents(finishing'[y][i].event)
  <2>1. CASE k = 1 /\ finishing'[y][i].event = p /\ finishing'[y][i].parents = Parents(p)
    BY <1>4, <2>1
  <2>2. ASSUME NEW j \in 1 .. Len(finishing[y]), finishing'[y][i].event = finishing[y][j].event,
               finishing'[y][i].parents \subseteq finishing[y][j].parents
        PROVE  /\ finished'[finishing'[y][i].event] = 1
               /\ finishing'[y][i].parents \subseteq Parents(finishing'[y][i].event)
    BY <1>3, <1>a, <2>2 DEF CallsOfFinish
  <2>3. \/ y = x /\ k = 1 /\ i = 1 /\ finishing'[y][i].event = p /\ finishing'[y][i].parents = Parents(p)
        \/ \E m \in 1 .. Len(finishing[y]) :
             /\ m = IF y = x THEN i - k ELSE i
             /\ finishing'[y][i].event = finishing[y][m].event
             /\ finishing'[y][i].parents \subseteq finishing[y][m].parents
    BY <1>5
  <2> QED
    BY <2>1, <2>2, <2>3
<1>7. ASSUME NEW y \in Threads, NEW z \in Threads,
             NEW i \in 1 .. Len(finishing'[y]), NEW j \in 1 .. Len(finishing'[z]),
             finishing'[y][i].event = finishing'[z][j].event
      PROVE  y = z /\ i = j
  <2>1. \A w \in Threads : \A m \in 1 .. Len(finishing[w]) :
          finished[finishing[w][m].event] = 1
    BY DEF CallsOfFinish
  <2>2. \A w \in Threads, v \in Threads :
          \A m \in 1 .. Len(finishing[w]), n \in 1 .. Len(finishing[v]) :
            finishing[w][m].event = finishing[v][n].event => w = v /\ m = n
    BY DEF CallsOfFinish
  <2>3. CASE y = x /\ k = 1 /\ i = 1 /\ finishing'[y][i].event = p
    <3>1. ~ \E m \in 1 .. Len(finishing[z]) : finishing'[z][j].event = finishing[z][m].event
      BY <1>4, <1>7, <2>1, <2>3
    <3> QED
      BY <1>5, <2>3, <3>1
  <2>4. CASE z = x /\ k = 1 /\ j = 1 /\ finishing'[z][j].event = p
    <3>1. ~ \E m \in 1 .. Len(finishing[y]) : finishing'[y][i].event = finishing[y][m].event
      BY <1>4, <1>7, <2>1, <2>4
    <3> QED
      BY <1>5, <2>4, <3>1
  <2>5. ASSUME NEW m \in 1 .. Len(finishing[y]), NEW n \in 1 .. Len(finishing[z]),
               finishing'[y][i].event = finishing[y][m].event,
               finishing'[z][j].event = finishing[z][n].event,
               m = IF y = x THEN i - k ELSE i,
               n = IF z = x THEN j - k ELSE j
        PROVE  y = z /\ i = j
    <3>0. finishing[y][m].event = finishing[z][n].event
      BY <1>7, <2>5
    <3>1. y = z /\ m = n
      BY <2>2, <3>0
    <3>2. i \in Int /\ j \in Int /\ k \in Int
      BY <1>a
    <3> QED
      BY <2>5, <3>1, <3>2
  <2>6. \/ y = x /\ k = 1 /\ i = 1 /\ finishing'[y][i].event = p /\ finishing'[y][i].parents = Parents(p)
        \/ \E m \in 1 .. Len(finishing[y]) :
             /\ m = IF y = x THEN i - k ELSE i
             /\ finishing'[y][i].event = finishing[y][m].event
             /\ finishing'[y][i].parents \subseteq finishing[y][m].parents
    BY <1>5
  <2>7. \/ z = x /\ k = 1 /\ j = 1 /\ finishing'[z][j].event = p /\ finishing'[z][j].parents = Parents(p)
        \/ \E m \in 1 .. Len(finishing[z]) :
             /\ m = IF z = x THEN j - k ELSE j
             /\ finishing'[z][j].event = finishing[z][m].event
             /\ finishing'[z][j].parents \subseteq finishing[z][m].parents
    BY <1>5
  <2> QED
    BY <2>3, <2>4, <2>5, <2>6, <2>7
<1>8. CallsOfFinish'
  BY <1>2, <1>6, <1>7 DEF CallsOfFinish
<1>9. ASSUME NEW e, NEW g \in Notified(e)
      PROVE  g \in Notified(e)'
  <2>1. g \in Events[plan] /\ finished[g] = 1 /\ ~Notifies(g, e) /\ e \in Parents(g)
    BY DEF Notified, Sources
  <2>2. ~Notifies(g, e)'
    <3> SUFFICES ASSUME Notifies(g, e)' PROVE FALSE
      OBVIOUS
    <3>0. PICK y \in Threads :
            \E i \in 1 .. Len(finishing'[y]) : finishing'[y][i].event = g /\ e \in finishing'[y][i].parents
      BY DEF Notifies
    <3>1. PICK i \in 1 .. Len(finishing'[y]) : finishing'[y][i].event = g /\ e \in finishing'[y][i].parents
      BY <3>0
    <3>2. ~(k = 1 /\ g = p)
      BY <1>4, <2>1
    <3>3. \E j \in 1 .. Len(finishing[y]) : finishing[y][j].event = g /\ e \in finishing[y][j].parents
      BY <1>5, <3>1, <3>2
    <3> QED
      BY <2>1, <3>3 DEF Notifies
  <2> QED
    BY <1>2, <1>3, <2>1, <2>2 DEF Notified, Sources
<1> QED
  BY <1>3, <1>8, <1>9

\* What Event::CompleteDependency does to the calls of Event::Finish: the innermost one of
\* the thread, of event g, has notified q, and q may finish at once.
LEMMA CompleteDependencyCalls ==
    ASSUME TypeInv, PlacesInv, TasksCounted, CallsOfFinish, NEW x \in Threads, CompleteDependency(x)
    PROVE  \E q \in Events[plan], k \in {0, 1} :
             /\ CallsMove(x, k, q)
             /\ finishing[x] # <<>> /\ q \in finishing[x][1].parents
             /\ 1 + k \in 1 .. Len(finishing'[x])
             /\ finishing'[x][1 + k].event = finishing[x][1].event
             /\ finishing'[x][1 + k].parents = finishing[x][1].parents \ {q}
             /\ \/ finished_dependencies' = finished_dependencies
                \/ finished_dependencies' = [finished_dependencies EXCEPT ![q] = @ + 1]
<1> DEFINE f == Head(finishing[x])
           fs(q) == <<Frame(f.event, f.parents \ {q})>> \o Tail(finishing[x])
<1>1. /\ finishing \in [Threads -> Seq(Frames)] /\ finishing[x] \in Seq(Frames) /\ finishing[x] # <<>>
      /\ finished \in [Events[plan] -> Nat] /\ pc[x] = "finish"
  BY DEF TypeInv, EventsTyped, ThreadsAtWork, CompleteDependency
<1>2. /\ f \in Frames /\ Tail(finishing[x]) \in Seq(Frames) /\ f.event \in Events[plan]
      /\ f.parents \subseteq Events[plan] /\ f = finishing[x][1]
  BY <1>1, FinishingTyped, PopIndexes
<1>3. PICK q \in f.parents :
        \/ /\ finishing' = [finishing EXCEPT ![x] = fs(q)]
           /\ finished' = finished
           /\ \/ finished_dependencies' = finished_dependencies
              \/ finished_dependencies' = [finished_dependencies EXCEPT ![q] = @ + 1]
        \/ /\ finishing' = [finishing EXCEPT ![x] = <<Frame(q, Parents(q))>> \o fs(q)]
           /\ finished' = [finished EXCEPT ![q] = @ + 1]
           /\ finished_dependencies' = [finished_dependencies EXCEPT ![q] = @ + 1]
           /\ finished_dependencies'[q] = total_dependencies(q)
  BY DEF CompleteDependency, ScheduleTasks, FinishWithoutTasks, HasAllDependencies
<1>4. q \in Events[plan]
  BY <1>2
<1>5. /\ fs(q) \in Seq(Frames) /\ Frame(f.event, f.parents \ {q}) \in Frames
      /\ Frame(q, Parents(q)) \in Frames
  <2>1. Parents(q) \in SUBSET Events[plan] /\ f.parents \ {q} \in SUBSET Events[plan]
    BY <1>2, <1>4, ParentsFacts DEF TypeInv, ChoiceTyped
  <2>2. Frame(f.event, f.parents \ {q}) \in Frames /\ Frame(q, Parents(q)) \in Frames
    BY <1>2, <1>4, <2>1, FrameTyped DEF TypeInv
  <2> QED
    BY <1>2, <2>2, PushFirst
<1>6. /\ Len(finishing[x]) \in Nat /\ Len(finishing[x]) >= 1
      /\ Len(fs(q)) = Len(finishing[x])
      /\ fs(q)[1] = Frame(f.event, f.parents \ {q})
      /\ \A i \in 2 .. Len(finishing[x]) : fs(q)[i] = finishing[x][i]
  <2>1. /\ Len(finishing[x]) \in Nat /\ Len(finishing[x]) >= 1
        /\ Len(Tail(finishing[x])) = Len(finishing[x]) - 1
        /\ \A i \in 1 .. Len(finishing[x]) - 1 : Tail(finishing[x])[i] = finishing[x][i + 1]
    BY <1>1, PopIndexes
  <2> DEFINE w == Tail(finishing[x])
             a == Frame(f.event, f.parents \ {q})
  <2>2. /\ Len(<<a>> \o w) = Len(w) + 1 /\ (<<a>> \o w)[1] = a
        /\ \A i \in 2 .. Len(w) + 1 : (<<a>> \o w)[i] = w[i - 1]
    BY <1>2, <1>5, PushIndexes
  <2>3. \A i \in 2 .. Len(finishing[x]) : w[i - 1] = finishing[x][i]
    <3> SUFFICES ASSUME NEW i \in 2 .. Len(finishing[x]) PROVE w[i - 1] = finishing[x][i]
      OBVIOUS
    <3>1. i - 1 \in 1 .. Len(finishing[x]) - 1 /\ (i - 1) + 1 = i
      BY <2>1
    <3> QED
      BY <2>1, <3>1
  <2>4. Len(w) + 1 = Len(finishing[x])
    BY <2>1
  <2> HIDE DEF w, a
  <2>5. Len(fs(q)) = Len(finishing[x]) /\ fs(q)[1] = a
    BY <2>2, <2>4 DEF w, a
  <2>6. \A i \in 2 .. Len(finishing[x]) : fs(q)[i] = w[i - 1]
    BY <2>2, <2>4 DEF w, a
  <2> QED
    BY <2>1, <2>3, <2>5, <2>6 DEF a
<1> HIDE DEF f, fs
<1>7. /\ Len(<<Frame(q, Parents(q))>> \o fs(q)) = Len(fs(q)) + 1
      /\ (<<Frame(q, Parents(q))>> \o fs(q))[1] = Frame(q, Parents(q))
      /\ \A i \in 2 .. Len(fs(q)) + 1 : (<<Frame(q, Parents(q))>> \o fs(q))[i] = fs(q)[i - 1]
  BY <1>5, PushIndexes
<1>8. /\ fs(q)[1].event = f.event /\ fs(q)[1].parents = f.parents \ {q}
      /\ \A i \in 1 .. Len(finishing[x]) : /\ fs(q)[i].event = finishing[x][i].event
                                           /\ fs(q)[i].parents \subseteq finishing[x][i].parents
  <2>1. fs(q)[1].event = f.event /\ fs(q)[1].parents = f.parents \ {q}
    BY <1>6 DEF Frame
  <2>2. \A i \in 1 .. Len(finishing[x]) : i = 1 \/ i \in 2 .. Len(finishing[x])
    BY <1>6
  <2> QED
    BY <1>2, <1>6, <2>1, <2>2
<1>9. CASE /\ finishing' = [finishing EXCEPT ![x] = fs(q)]
           /\ finished' = finished
           /\ \/ finished_dependencies' = finished_dependencies
              \/ finished_dependencies' = [finished_dependencies EXCEPT ![q] = @ + 1]
  <2>1. finishing'[x] = fs(q) /\ \A y \in Threads \ {x} : finishing'[y] = finishing[y]
    BY <1>1, <1>9
  <2>2. \A i \in 1 .. Len(finishing'[x]) : i - 0 = i /\ i \in 1 .. Len(finishing[x])
    BY <1>6, <2>1
  <2>3. CallsMove(x, 0, q)
    BY <1>8, <1>9, <2>1, <2>2 DEF CallsMove
  <2>4. 1 + 0 = 1 /\ 1 \in 1 .. Len(finishing'[x])
    BY <1>6, <2>1
  <2>5. finishing'[x][1].event = finishing[x][1].event /\ finishing'[x][1].parents = finishing[x][1].parents \ {q}
    BY <1>2, <1>8, <2>1
  <2>6. /\ CallsMove(x, 0, q)
        /\ finishing[x] # <<>> /\ q \in finishing[x][1].parents
        /\ 1 + 0 \in 1 .. Len(finishing'[x])
        /\ finishing'[x][1 + 0].event = finishing[x][1].event
        /\ finishing'[x][1 + 0].parents = finishing[x][1].parents \ {q}
    BY <1>1, <1>2, <1>3, <2>3, <2>4, <2>5
  <2> QED
    BY <1>4, <1>9, <2>6
<1>10. CASE /\ finishing' = [finishing EXCEPT ![x] = <<Frame(q, Parents(q))>> \o fs(q)]
            /\ finished' = [finished EXCEPT ![q] = @ + 1]
            /\ finished_dependencies' = [finished_dependencies EXCEPT ![q] = @ + 1]
            /\ finished_dependencies'[q] = total_dependencies(q)
  <2>1. /\ finishing'[x] = <<Frame(q, Parents(q))>> \o fs(q)
        /\ \A y \in Threads \ {x} : finishing'[y] = finishing[y]
    BY <1>1, <1>10
  <2>2. finished[q] = 0
    <3>1. finished_dependencies \in [Events[plan] -> Nat] /\ total_dependencies(q) \in Nat
      BY <1>4, ParentsFacts DEF TypeInv, ChoiceTyped, EventsTyped
    <3>2. q \notin Ready
      BY <1>4, <1>10, <3>1 DEF Ready
    <3>3. ~(finished[q] > 0)
      BY <1>4, <3>2 DEF PlacesInv, OnlyReady
    <3> QED
      BY <1>1, <1>4, <3>3
  <2>3. /\ Len(finishing'[x]) = Len(finishing[x]) + 1
        /\ finishing'[x][1] = Frame(q, Parents(q))
        /\ \A i \in 2 .. Len(finishing[x]) + 1 : finishing'[x][i] = fs(q)[i - 1]
    BY <1>6, <1>7, <2>1
  <2>4. ASSUME NEW i \in 1 .. Len(finishing'[x]), i # 1
        PROVE  /\ i - 1 \in 1 .. Len(finishing[x])
               /\ finishing'[x][i].event = finishing[x][i - 1].event
               /\ finishing'[x][i].parents \subseteq finishing[x][i - 1].parents
    <3>1. i \in 2 .. Len(finishing[x]) + 1 /\ i - 1 \in 1 .. Len(finishing[x])
      BY <1>6, <2>3, <2>4
    <3> QED
      BY <1>8, <2>3, <3>1
  <2>5. CallsMove(x, 1, q)
    BY <1>4, <1>10, <2>1, <2>2, <2>3, <2>4 DEF CallsMove
  <2>6. 1 + 1 = 2 /\ 2 \in 1 .. Len(finishing'[x]) /\ 2 \in 2 .. Len(finishing[x]) + 1 /\ 2 - 1 = 1
    BY <1>6, <2>3
  <2>7. finishing'[x][2].event = finishing[x][1].event /\ finishing'[x][2].parents = finishing[x][1].parents \ {q}
    BY <1>2, <1>8, <2>3, <2>6
  <2>8. /\ CallsMove(x, 1, q)
        /\ finishing[x] # <<>> /\ q \in finishing[x][1].parents
        /\ 1 + 1 \in 1 .. Len(finishing'[x])
        /\ finishing'[x][1 + 1].event = finishing[x][1].event
        /\ finishing'[x][1 + 1].parents = finishing[x][1].parents \ {q}
    BY <1>1, <1>2, <1>3, <2>5, <2>6, <2>7
  <2> QED
    BY <1>4, <1>10, <2>8
<1> QED
  BY <1>3, <1>9, <1>10

\* Every step changes the calls of Event::Finish in one of these ways.
LEMMA CallsStep ==
    ASSUME TypeInv, PlacesInv, TasksCounted, CallsOfFinish, [Next]_vars
    PROVE  \E x \in Threads, k \in {-1, 0, 1} : \E p : CallsMove(x, k, p)
<1>1. /\ finishing \in [Threads -> Seq(Frames)] /\ finished \in [Events[plan] -> Nat]
      /\ \A y \in Threads : finishing[y] \in Seq(Frames) /\ Len(finishing[y]) \in Nat
      /\ Client \in Threads
  BY DEF TypeInv, EventsTyped, Threads
<1>2. ASSUME NEW x \in Threads, UNCHANGED <<finished, finishing>>
      PROVE  CallsMove(x, 0, 0)
  <2>1. \A i \in 1 .. Len(finishing[x]) : i - 0 = i
    BY <1>1
  <2> QED
    BY <1>2, <2>1 DEF CallsMove
<1>3. CASE Quiet
  BY <1>1, <1>2, <1>3 DEF Quiet
<1>4. ASSUME NEW x \in Threads, FinishReturns(x)
      PROVE  CallsMove(x, -1, 0)
  <2>1. pc[x] = "finish" /\ finishing' = [finishing EXCEPT ![x] = Tail(finishing[x])] /\ finished' = finished
    BY <1>4, FinishReturnsEffect
  <2>2. finishing[x] # <<>>
    BY <2>1 DEF TypeInv, ThreadsAtWork
  <2>3. /\ Len(finishing[x]) \in Nat /\ Len(Tail(finishing[x])) = Len(finishing[x]) - 1
        /\ \A i \in 1 .. Len(finishing[x]) - 1 : Tail(finishing[x])[i] = finishing[x][i + 1]
    BY <1>1, <2>2, PopIndexes
  <2>4. finishing'[x] = Tail(finishing[x]) /\ \A y \in Threads \ {x} : finishing'[y] = finishing[y]
    BY <1>1, <2>1
  <2>5. \A i \in 1 .. Len(finishing'[x]) : /\ i - (-1) = i + 1 /\ i + 1 \in 1 .. Len(finishing[x])
                                           /\ finishing'[x][i] = finishing[x][i + 1]
    BY <2>3, <2>4
  <2>6. -1 # 1
    OBVIOUS
  <2>7. \A i \in 1 .. Len(finishing'[x]) : /\ i - (-1) \in 1 .. Len(finishing[x])
                                           /\ finishing'[x][i] = finishing[x][i - (-1)]
    BY <2>5
  <2> QED
    BY <2>1, <2>4, <2>6, <2>7 DEF CallsMove
<1>5. ASSUME NEW x \in Threads, FinishTask(x)
      PROVE  CallsMove(x, 0, 0) \/ CallsMove(x, 1, task[x][1])
  <2> DEFINE e == task[x][1]
  <2>1. /\ task[x] \in Unfinished /\ e \in Events[plan] /\ finishing[x] = <<>>
        /\ \/ UNCHANGED <<finished, finishing>>
           \/ /\ finished' = [finished EXCEPT ![e] = @ + 1]
              /\ finishing' = [finishing EXCEPT ![x] = <<Frame(e, Parents(e))>>]
    BY <1>5, FinishTaskEffect
  <2>2. finished[e] = 0
    <3>1. task[x] \in Left(e)
      BY <2>1 DEF Left
    <3>2. finished[e] <= 1 /\ finished[e] # 1
      BY <2>1, <3>1 DEF TasksCounted
    <3>3. finished[e] \in Nat
      BY <1>1, <2>1
    <3> QED
      BY <3>2, <3>3
  <2> HIDE DEF e
  <2>3. CASE /\ finished' = [finished EXCEPT ![e] = @ + 1]
             /\ finishing' = [finishing EXCEPT ![x] = <<Frame(e, Parents(e))>>]
    <3>1. finishing'[x] = <<Frame(e, Parents(e))>> /\ \A y \in Threads \ {x} : finishing'[y] = finishing[y]
      BY <1>1, <2>3
    <3>2. \A i \in 1 .. Len(finishing'[x]) : i = 1
      BY <3>1
    <3>3. CallsMove(x, 1, e)
      BY <2>1, <2>2, <2>3, <3>1, <3>2 DEF CallsMove
    <3> QED
      BY <3>3 DEF e
  <2> QED
    BY <1>2, <2>1, <2>3
<1>6. ASSUME NEW x \in Threads, CompleteDependency(x)
      PROVE  \E k \in {-1, 0, 1} : \E p : CallsMove(x, k, p)
  BY <1>6, CompleteDependencyCalls
<1> QED
  BY <1>3, <1>4, <1>5, <1>6, QuietSteps

-----------------------------------------------------------------------------
\* Who notifies an event: the events that the plan makes it depend on, where an event that
\* Finalize inserts stands for its finish event.
LEMMA SourcesFacts ==
    ASSUME ChoiceTyped, NEW e \in Events[plan]
    PROVE  /\ e \in ScheduledEvents[plan] =>
                \A g \in Sources(e) :
                   \/ g \in ScheduledEvents[plan] /\ ~Inserts(g) /\ <<e, g>> \in Dependencies[plan]
                   \/ /\ g = Inserted(g[2]) /\ g[1] = "inserted" /\ g[2] \in Plan.inserts
                      /\ <<e, <<"finish", g[2]>>>> \in Dependencies[plan]
           /\ \A d \in Dependencies[plan] :
                d[1] = e => d[2] \in ScheduledEvents[plan]
                            /\ (IF Inserts(d[2]) THEN Inserted(d[2][2]) ELSE d[2]) \in Sources(e)
           /\ e \notin ScheduledEvents[plan] => Sources(e) = {<<"finish", e[2]>>}
<1>1. /\ plan \in DOMAIN Plans /\ Plan = Plans[plan]
      /\ \A g \in ScheduledEvents[plan] :
           ParentsOf[plan][g] = {d[1] : d \in {c \in Dependencies[plan] : c[2] = g}}
      /\ \A d \in Dependencies[plan] : d = <<d[1], d[2]>> /\ d[1] \in ScheduledEvents[plan]
                                       /\ d[2] \in ScheduledEvents[plan]
  BY PlanEvents DEF ChoiceTyped, Plan, ParentsOf, ScheduledEvents
<1>2. /\ ScheduledEvents[plan] \subseteq Events[plan]
      /\ \A g \in ScheduledEvents[plan] : g = <<g[1], g[2]>> /\ g[1] # "inserted"
      /\ \A g \in Events[plan] : \/ g \in ScheduledEvents[plan]
                                 \/ g[1] = "inserted" /\ g[2] \in Plan.inserts /\ g = Inserted(g[2])
      /\ \A p \in Plan.inserts : Inserted(p) \in Events[plan] /\ <<"finish", p>> \in ScheduledEvents[plan]
  BY <1>1, EventFacts
<1>3. \A g : Inserts(g) <=> g[1] = "finish" /\ g[2] \in Plan.inserts
  BY DEF Inserts
<1>4. \A p : Inserted(p) = <<"inserted", p>> /\ Inserted(p)[1] = "inserted" /\ Inserted(p)[2] = p
  BY DEF Inserted
<1>5. ASSUME NEW g \in Events[plan]
      PROVE  /\ g[1] = "inserted" => Parents(g) = ParentsOf[plan][<<"finish", g[2]>>]
             /\ Inserts(g) => Parents(g) = {Inserted(g[2])}
             /\ g[1] # "inserted" /\ ~Inserts(g) => Parents(g) = ParentsOf[plan][g]
  BY <1>3 DEF Parents
<1>6. ASSUME NEW g \in ScheduledEvents[plan], NEW h
      PROVE  h \in ParentsOf[plan][g] <=> <<h, g>> \in Dependencies[plan]
  BY <1>1
<1>7. ASSUME e \in ScheduledEvents[plan], NEW g \in Sources(e)
      PROVE  \/ g \in ScheduledEvents[plan] /\ ~Inserts(g) /\ <<e, g>> \in Dependencies[plan]
             \/ /\ g = Inserted(g[2]) /\ g[1] = "inserted" /\ g[2] \in Plan.inserts
                /\ <<e, <<"finish", g[2]>>>> \in Dependencies[plan]
  <2>1. g \in Events[plan] /\ e \in Parents(g) /\ e[1] # "inserted"
    BY <1>2, <1>7 DEF Sources
  <2>2. ~Inserts(g)
    <3>1. Inserts(g) => e = Inserted(g[2])
      BY <1>5, <2>1
    <3>2. Inserted(g[2])[1] = "inserted"
      BY <1>4
    <3> QED
      BY <2>1, <3>1, <3>2
  <2>3. CASE g \in ScheduledEvents[plan]
    BY <1>2, <1>5, <1>6, <2>1, <2>2, <2>3
  <2>4. CASE g[1] = "inserted" /\ g[2] \in Plan.inserts /\ g = Inserted(g[2])
    BY <1>2, <1>5, <1>6, <2>1, <2>4
  <2> QED
    BY <1>2, <2>1, <2>3, <2>4
<1>8. ASSUME NEW d \in Dependencies[plan], d[1] = e
      PROVE  d[2] \in ScheduledEvents[plan] /\ (IF Inserts(d[2]) THEN Inserted(d[2][2]) ELSE d[2]) \in Sources(e)
  <2>1. d[2] \in ScheduledEvents[plan] /\ <<e, d[2]>> \in Dependencies[plan] /\ d[2] \in Events[plan]
    BY <1>1, <1>2, <1>8
  <2>2. e \in ParentsOf[plan][d[2]]
    BY <1>6, <2>1
  <2>3. CASE Inserts(d[2])
    <3>1. d[2] = <<"finish", d[2][2]>> /\ Inserted(d[2][2]) \in Events[plan]
      BY <1>2, <1>3, <2>1, <2>3
    <3>2. e \in Parents(Inserted(d[2][2]))
      BY <1>4, <1>5, <2>2, <3>1
    <3> QED
      BY <2>1, <2>3, <3>1, <3>2 DEF Sources
  <2>4. CASE ~Inserts(d[2])
    BY <1>2, <1>5, <2>1, <2>2, <2>4 DEF Sources
  <2> QED
    BY <2>3, <2>4
<1>9. ASSUME e \notin ScheduledEvents[plan]
      PROVE  Sources(e) = {<<"finish", e[2]>>}
  <2>1. e[1] = "inserted" /\ e[2] \in Plan.inserts /\ e = Inserted(e[2])
    BY <1>2, <1>9
  <2>2. ASSUME NEW g \in Sources(e) PROVE g = <<"finish", e[2]>>
    <3>1. g \in Events[plan] /\ e \in Parents(g)
      BY <2>2 DEF Sources
    <3>2. \A h \in ScheduledEvents[plan] : e \notin ParentsOf[plan][h]
      BY <1>1, <1>6, <1>9
    <3>3. Inserts(g)
      <4>1. CASE g \in ScheduledEvents[plan]
        <5>1. g[1] # "inserted" /\ e \notin ParentsOf[plan][g]
          BY <1>2, <3>2, <4>1
        <5> QED
          BY <1>5, <3>1, <5>1
      <4>2. CASE g[1] = "inserted" /\ g[2] \in Plan.inserts
        <5>1. <<"finish", g[2]>> \in ScheduledEvents[plan]
          BY <1>2, <4>2
        <5>2. Parents(g) = ParentsOf[plan][<<"finish", g[2]>>]
          BY <1>5, <3>1, <4>2
        <5> QED
          BY <3>1, <3>2, <5>1, <5>2
      <4> QED
        BY <1>2, <3>1, <4>1, <4>2
    <3>4. g \in ScheduledEvents[plan]
      BY <1>2, <1>3, <3>1, <3>3
    <3>5. e = Inserted(g[2]) /\ g = <<g[1], g[2]>> /\ g[1] = "finish"
      BY <1>2, <1>3, <1>5, <3>1, <3>3, <3>4
    <3> QED
      BY <1>4, <3>5
  <2>3. <<"finish", e[2]>> \in Sources(e)
    <3>1. <<"finish", e[2]>> \in Events[plan] /\ Inserts(<<"finish", e[2]>>)
      BY <1>2, <1>3, <2>1
    <3>2. Parents(<<"finish", e[2]>>) = {e}
      BY <1>5, <2>1, <3>1
    <3> QED
      BY <3>1, <3>2 DEF Sources
  <2> QED
    BY <2>2, <2>3
<1> QED
  BY <1>7, <1>8, <1>9

\* An event counts one dependency for each event that notifies it.
LEMMA SourcesCounted ==
    ASSUME ChoiceTyped, NEW e \in Events[plan]
    PROVE  /\ IsFiniteSet(Sources(e)) /\ Cardinality(Sources(e)) \in Nat
           /\ Cardinality(Sources(e)) <= total_dependencies(e)
<1>1. IsFiniteSet(Events[plan]) /\ Sources(e) \subseteq Events[plan]
  BY PlanFinite DEF ChoiceTyped, Sources
<1>2. IsFiniteSet(Sources(e))
  BY <1>1, FS_Subset
<1>3. Cardinality(Sources(e)) \in Nat
  BY <1>2, FS_CardinalityType
<1>4. CASE e \in ScheduledEvents[plan]
  <2> DEFINE D == {d \in Dependencies[plan] : d[1] = e}
             h == [g \in Sources(e) |-> IF g[1] = "inserted" THEN <<e, <<"finish", g[2]>>>> ELSE <<e, g>>]
  <2>1. \A g \in Sources(e) :
          \/ g \in ScheduledEvents[plan] /\ ~Inserts(g) /\ <<e, g>> \in Dependencies[plan]
          \/ /\ g = Inserted(g[2]) /\ g[1] = "inserted" /\ g[2] \in Plan.inserts
             /\ <<e, <<"finish", g[2]>>>> \in Dependencies[plan]
    BY <1>4, SourcesFacts
  <2>2. \A g \in ScheduledEvents[plan] : g = <<g[1], g[2]>> /\ g[1] # "inserted"
    BY EventFacts DEF ChoiceTyped
  <2>3. ASSUME NEW g \in Sources(e) PROVE h[g] \in D
    BY <2>1, <2>2
  <2>4. ASSUME NEW g \in Sources(e), NEW k \in Sources(e), h[g] = h[k]
        PROVE  g = k
    <3>1. CASE g[1] = "inserted" /\ k[1] = "inserted"
      <4>1. g[2] = k[2]
        BY <2>4, <3>1
      <4> QED
        BY <2>1, <2>2, <3>1, <4>1
    <3>2. CASE g[1] # "inserted" /\ k[1] # "inserted"
      BY <2>4, <3>2
    <3>3. CASE g[1] = "inserted" /\ k[1] # "inserted"
      <4>1. k = <<"finish", g[2]>> /\ g[2] \in Plan.inserts
        BY <2>1, <2>2, <2>4, <3>3
      <4> QED
        BY <2>1, <3>3, <4>1 DEF Inserts
    <3>4. CASE g[1] # "inserted" /\ k[1] = "inserted"
      <4>1. g = <<"finish", k[2]>> /\ k[2] \in Plan.inserts
        BY <2>1, <2>2, <2>4, <3>4
      <4> QED
        BY <2>1, <3>4, <4>1 DEF Inserts
    <3> QED
      BY <3>1, <3>2, <3>3, <3>4
  <2> HIDE DEF D
  <2>5. h \in Injection(Sources(e), D)
    <3>1. h \in [Sources(e) -> D]
      BY <2>3
    <3> HIDE DEF h
    <3> QED
      BY <2>4, <3>1 DEF Injection, IsInjective
  <2>6. IsFiniteSet(D)
    <3>1. IsFiniteSet(Dependencies[plan]) /\ D \subseteq Dependencies[plan]
      BY PlanFinite DEF ChoiceTyped, D
    <3> QED
      BY <3>1, FS_Subset
  <2> HIDE DEF h
  <2>7. Cardinality(Sources(e)) <= Cardinality(D)
    BY <2>5, <2>6, FS_Injection
  <2>8. total_dependencies(e) = Cardinality(D)
    BY <1>4, <2>2 DEF total_dependencies, DependenciesOf, ChoiceTyped, D
  <2> QED
    BY <1>2, <1>3, <2>7, <2>8
<1>5. CASE e \notin ScheduledEvents[plan]
  <2>1. e[1] = "inserted"
    BY <1>5, EventFacts DEF ChoiceTyped
  <2>2. Sources(e) = {<<"finish", e[2]>>}
    BY <1>5, SourcesFacts
  <2>3. Cardinality(Sources(e)) = 1
    BY <2>2, FS_Singleton
  <2> QED
    BY <1>2, <1>3, <2>1, <2>3 DEF total_dependencies
<1> QED
  BY <1>4, <1>5

\* The calls of Event::Finish and the dependencies are counted after a step.
LEMMA DependenciesCountedStep ==
    ASSUME TypeInv, PlacesInv, EventsInv, [Next]_vars
    PROVE  /\ CallsOfFinish' /\ DependenciesCounted'
           /\ \A e : Notified(e) \subseteq Notified(e)'
           /\ \A e \in Events[plan] : finished[e] = 1 => finished'[e] = 1
<1>1. /\ TypeInv' /\ plan' = plan
      /\ finished_dependencies \in [Events[plan] -> Nat]
      /\ TasksCounted /\ CallsOfFinish /\ ChoiceTyped
  BY TypeInvStep, ChoiceMade DEF TypeInv, EventsTyped, EventsInv
<1>a. PICK x \in Threads, k \in {-1, 0, 1} : \E p : CallsMove(x, k, p)
  BY <1>1, CallsStep
<1>2. PICK p : CallsMove(x, k, p)
  BY <1>a
<1>3. /\ CallsOfFinish' /\ \A e : Notified(e) \subseteq Notified(e)'
      /\ \A e \in Events[plan] : finished[e] = 1 => finished'[e] = 1
  BY <1>1, <1>2, CallsKept
<1>4. \A e : Sources(e)' = Sources(e) /\ Parents(e)' = Parents(e)
  BY <1>1 DEF Sources, Parents, Inserts, Plan
<1>5. ASSUME NEW e \in Events[plan]
      PROVE  /\ IsFiniteSet(Notified(e)) /\ IsFiniteSet(Notified(e)')
             /\ Cardinality(Notified(e)) \in Nat /\ Cardinality(Notified(e)') \in Nat
             /\ Cardinality(Notified(e)) <= Cardinality(Notified(e)')
  <2>1. Notified(e) \subseteq Sources(e) /\ Notified(e)' \subseteq Sources(e) /\ IsFiniteSet(Sources(e))
    BY <1>1, <1>4, SourcesCounted DEF Notified
  <2>2. IsFiniteSet(Notified(e)) /\ IsFiniteSet(Notified(e)')
    BY <2>1, FS_Subset
  <2> QED
    BY <1>3, <2>2, FS_Subset, FS_CardinalityType
<1>6. \A e \in Events[plan] : finished_dependencies[e] <= Cardinality(Notified(e))
  BY DEF EventsInv, DependenciesCounted
<1>7. SUFFICES ASSUME NEW e \in Events[plan]
               PROVE  finished_dependencies'[e] <= Cardinality(Notified(e)')
  BY <1>1, <1>3 DEF DependenciesCounted
<1>8. ASSUME finished_dependencies'[e] = finished_dependencies[e]
      PROVE  finished_dependencies'[e] <= Cardinality(Notified(e)')
  <2>1. finished_dependencies[e] \in Nat /\ finished_dependencies[e] <= Cardinality(Notified(e))
    BY <1>1, <1>6
  <2> QED
    BY <1>5, <1>8, <2>1
<1>9. ASSUME NEW y \in Threads, CompleteDependency(y)
      PROVE  finished_dependencies'[e] <= Cardinality(Notified(e)')
  <2>1. PICK q \in Events[plan], m \in {0, 1} :
             /\ CallsMove(y, m, q)
             /\ finishing[y] # <<>> /\ q \in finishing[y][1].parents
             /\ 1 + m \in 1 .. Len(finishing'[y])
             /\ finishing'[y][1 + m].event = finishing[y][1].event
             /\ finishing'[y][1 + m].parents = finishing[y][1].parents \ {q}
             /\ \/ finished_dependencies' = finished_dependencies
                \/ finished_dependencies' = [finished_dependencies EXCEPT ![q] = @ + 1]
    BY <1>1, <1>9, CompleteDependencyCalls
  <2>g. PICK g : g = finishing[y][1].event
    OBVIOUS
  <2>2. 1 \in 1 .. Len(finishing[y])
    <3>1. finishing[y] \in Seq(Frames)
      BY DEF TypeInv, EventsTyped
    <3>2. Len(finishing[y]) \in Nat /\ Len(finishing[y]) >= 1
      BY <2>1, <3>1, PopIndexes
    <3> QED
      BY <3>2
  <2>3. finished[g] = 1 /\ q \in Parents(g) /\ g \in Events[plan]
    <3>1. finished[g] = 1 /\ finishing[y][1].parents \subseteq Parents(g)
      BY <1>1, <2>2, <2>g DEF CallsOfFinish
    <3>2. finishing[y] \in Seq(Frames)
      BY DEF TypeInv, EventsTyped
    <3>3. finishing[y][1] \in Frames
      BY <2>2, <3>2
    <3> QED
      BY <2>1, <2>g, <3>1, <3>3 DEF Frames
  <2>4. g \in Sources(q) /\ g \notin Notified(q)
    <3>1. Notifies(g, q)
      BY <2>1, <2>2, <2>g DEF Notifies
    <3> QED
      BY <2>3, <3>1 DEF Notified, Sources
  <2>5. ~Notifies(g, q)'
    <3> SUFFICES ASSUME Notifies(g, q)' PROVE FALSE
      OBVIOUS
    <3>1. PICK z \in Threads :
            \E i \in 1 .. Len(finishing'[z]) : finishing'[z][i].event = g /\ q \in finishing'[z][i].parents
      BY DEF Notifies
    <3>2. PICK i \in 1 .. Len(finishing'[z]) : finishing'[z][i].event = g /\ q \in finishing'[z][i].parents
      BY <3>1
    <3>3. z = y /\ i = 1 + m
      BY <1>3, <2>1, <2>g, <3>2 DEF CallsOfFinish
    <3> QED
      BY <2>1, <3>2, <3>3
  <2>6. g \in Notified(q)'
    BY <1>3, <1>4, <2>3, <2>4, <2>5 DEF Notified
  <2>7. CASE e # q
    <3>1. finished_dependencies'[e] = finished_dependencies[e]
      BY <1>1, <2>1, <2>7
    <3> QED
      BY <1>8, <3>1
  <2>8. CASE e = q
    <3>1. Notified(e) \cup {g} \subseteq Notified(e)' /\ g \notin Notified(e)
      BY <1>3, <2>4, <2>6, <2>8
    <3>2. /\ IsFiniteSet(Notified(e) \cup {g})
          /\ Cardinality(Notified(e) \cup {g}) = Cardinality(Notified(e)) + 1
      BY <1>5, <3>1, FS_AddElement
    <3>3. Cardinality(Notified(e)) + 1 <= Cardinality(Notified(e)')
      BY <1>5, <3>1, <3>2, FS_Subset
    <3>4. \/ finished_dependencies'[e] = finished_dependencies[e]
          \/ finished_dependencies'[e] = finished_dependencies[e] + 1
      BY <1>1, <2>1, <2>8
    <3>5. finished_dependencies[e] \in Nat /\ finished_dependencies[e] <= Cardinality(Notified(e))
      BY <1>1, <1>6
    <3> QED
      BY <1>5, <3>3, <3>4, <3>5
  <2> QED
    BY <2>7, <2>8
<1>10. CASE Quiet
  BY <1>8, <1>10 DEF Quiet
<1>11. ASSUME NEW y \in Threads, FinishTask(y) PROVE finished_dependencies'[e] <= Cardinality(Notified(e)')
  BY <1>8, <1>11, FinishTaskEffect
<1>12. ASSUME NEW y \in Threads, FinishReturns(y) PROVE finished_dependencies'[e] <= Cardinality(Notified(e)')
  BY <1>8, <1>12, FinishReturnsEffect
<1> QED
  BY <1>9, <1>10, <1>11, <1>12, QuietSteps

\* No event has finished when the query begins.
LEMMA EventsInvInit == Init => EventsInv
<1> SUFFICES ASSUME Init PROVE EventsInv
  OBVIOUS
<1>1. /\ TypeInv /\ PlacesInv /\ ChoiceTyped /\ Client \in Threads
      /\ \A e \in Events[plan] : finished[e] = 0 /\ finished_tasks[e] = 0 /\ finished_dependencies[e] = 0
      /\ \A x \in Threads : finishing[x] = <<>>
  BY TypeInvInit, PlacesInvInit DEF Init, TypeInv, Threads
<1>2. TasksCounted
  <2> SUFFICES ASSUME NEW e \in Events[plan]
               PROVE  0 + Cardinality(Left(e)) <= NumTasks(Plan, e)
    BY <1>1 DEF TasksCounted
  <2>1. Left(e) \subseteq {t \in Tasks[plan] : t[1] = e}
    BY <1>1, UnfinishedFacts DEF PlacesInv, Left
  <2>2. /\ IsFiniteSet({t \in Tasks[plan] : t[1] = e})
        /\ Cardinality({t \in Tasks[plan] : t[1] = e}) = NumTasks(Plan, e)
    BY <1>1, TasksOfCounted
  <2>3. Cardinality(Left(e)) <= NumTasks(Plan, e)
    BY <2>1, <2>2, FS_Subset
  <2>4. Cardinality(Left(e)) \in Nat
    BY <1>1, UnfinishedFacts DEF PlacesInv
  <2> QED
    BY <2>3, <2>4
<1>3. CallsOfFinish
  <2>1. \A x \in Threads : 1 .. Len(finishing[x]) = {}
    BY <1>1
  <2> QED
    BY <2>1 DEF CallsOfFinish
<1>4. DependenciesCounted
  <2> SUFFICES ASSUME NEW e \in Events[plan] PROVE 0 <= Cardinality(Notified(e))
    BY <1>1 DEF DependenciesCounted
  <2>1. Notified(e) \subseteq Sources(e) /\ IsFiniteSet(Sources(e))
    BY <1>1, SourcesCounted DEF Notified
  <2>2. Cardinality(Notified(e)) \in Nat
    BY <2>1, FS_Subset, FS_CardinalityType
  <2> QED
    BY <2>2
<1> QED
  BY <1>2, <1>3, <1>4 DEF EventsInv

\* The counters of the events agree with the tasks that exist, the calls of Event::Finish
\* that are under way and the parents that these have notified, whatever the plan.
THEOREM EventsInvariance == Spec => [](TypeInv /\ PlacesInv /\ EventsInv)
<1>1. Init => EventsInv
  BY EventsInvInit
<1>2. TypeInv /\ PlacesInv /\ EventsInv /\ [Next]_vars => EventsInv'
  BY TasksCountedStep, DependenciesCountedStep DEF EventsInv
<1> QED
  BY <1>1, <1>2, PlacesInvariance, PTL DEF Spec

-----------------------------------------------------------------------------
\* An event that has its dependencies was notified by everybody: all have finished.
LEMMA ReadyAfterSources ==
    ASSUME TypeInv, EventsInv, NEW e \in Ready
    PROVE  \A g \in Sources(e) : finished[g] = 1
<1>1. /\ e \in Events[plan] /\ finished_dependencies[e] >= total_dependencies(e)
      /\ finished_dependencies[e] \in Nat /\ total_dependencies(e) \in Nat
  BY ParentsFacts DEF Ready, TypeInv, ChoiceTyped, EventsTyped
<1>2. /\ IsFiniteSet(Sources(e)) /\ Cardinality(Sources(e)) <= total_dependencies(e)
      /\ Cardinality(Sources(e)) \in Nat
  BY <1>1, SourcesCounted DEF TypeInv
<1>3. Notified(e) \subseteq Sources(e)
  BY DEF Notified
<1>4. IsFiniteSet(Notified(e)) /\ Cardinality(Notified(e)) <= Cardinality(Sources(e))
  BY <1>2, <1>3, FS_Subset
<1>5. Cardinality(Notified(e)) \in Nat
  BY <1>4, FS_CardinalityType
<1>6. finished_dependencies[e] <= Cardinality(Notified(e))
  BY <1>1 DEF EventsInv, DependenciesCounted
<1>7. Cardinality(Sources(e)) = Cardinality(Notified(e))
  BY <1>1, <1>2, <1>4, <1>5, <1>6
<1>8. Sources(e) = Notified(e)
  BY <1>2, <1>3, <1>7, FS_Subset
<1> QED
  BY <1>8 DEF Notified

\* All that the plan makes an event depend on has finished, an inserted event too.
LEMMA ReadyAfterDependencies ==
    ASSUME TypeInv, PlacesInv, EventsInv, NEW e \in Ready, NEW d \in Dependencies[plan], d[1] = e
    PROVE  /\ finished[d[2]] = 1
           /\ Inserts(d[2]) => finished[Inserted(d[2][2])] = 1
<1>1. e \in Events[plan] /\ ChoiceTyped
  BY DEF Ready, TypeInv
<1>2. /\ d[2] \in ScheduledEvents[plan]
      /\ (IF Inserts(d[2]) THEN Inserted(d[2][2]) ELSE d[2]) \in Sources(e)
  BY <1>1, SourcesFacts
<1>3. CASE ~Inserts(d[2])
  BY <1>2, <1>3, ReadyAfterSources
<1>4. CASE Inserts(d[2])
  <2> DEFINE i == Inserted(d[2][2])
  <2>1. i \in Sources(e) /\ i \in Events[plan] /\ finished[i] = 1
    BY <1>2, <1>4, ReadyAfterSources DEF Sources
  <2>2. i \in Ready
    <3>1. finished[i] > 0
      BY <2>1
    <3> QED
      BY <2>1, <3>1 DEF PlacesInv, OnlyReady
  <2>3. d[2] = <<"finish", d[2][2]>>
    BY <1>1, <1>2, <1>4, EventFacts DEF Inserts, ChoiceTyped
  <2>4. i \notin ScheduledEvents[plan] /\ i[2] = d[2][2]
    BY <1>1, EventFacts DEF Inserted, ChoiceTyped
  <2> HIDE DEF i
  <2>5. d[2] \in Sources(i)
    <3>1. Sources(i) = {<<"finish", i[2]>>}
      BY <1>1, <2>1, <2>4, SourcesFacts
    <3> QED
      BY <2>3, <2>4, <3>1
  <2>6. finished[d[2]] = 1
    BY <2>2, <2>5, ReadyAfterSources
  <2> QED
    BY <2>1, <2>6 DEF i
<1> QED
  BY <1>3, <1>4

\* Event, InsertEvent and the counters keep the order of the plan: for any plan, any number
\* of workers and any behaviour, everything that an event depends on has finished when one
\* of its tasks exists, an event that Finalize inserted in between too, and no event finishes
\* twice or while other tasks of it exist.
THEOREM EventsAreInOrder == Spec => []EventOrder
<1>1. ASSUME TypeInv, PlacesInv, EventsInv PROVE EventOrder
  <2> USE <1>1
  <2>1. ASSUME NEW t \in Alive PROVE t[1] \in Ready /\ t \in Tasks[plan] /\ t[1] \in Events[plan]
    <3>1. t \in Tasks[plan]
      BY QueueFacts DEF Alive, TypeInv, TasksTyped, Range
    <3>2. t[1] \in Ready
      BY <3>1, TaskFacts DEF Alive, TypeInv, ChoiceTyped, TasksTyped, PlacesInv, OnlyReady, Range
    <3> QED
      BY <3>1, <3>2 DEF Ready
  <2>2. \A t \in Alive : \A d \in Dependencies[plan] :
         d[1] = t[1] =>
           /\ finished[d[2]] = 1
           /\ d[2][1] = "finish" /\ d[2][2] \in Plan.inserts => finished[Inserted(d[2][2])] = 1
    BY <2>1, ReadyAfterDependencies DEF Inserts
  <2>3. \A e \in Events[plan] : finished[e] <= 1
    BY DEF EventsInv, TasksCounted
  <2>4. ASSUME NEW t \in Alive, finished[t[1]] = 1
        PROVE  \E x \in Threads : task[x] = t /\ finishing[x] # <<>>
    <3>1. t \in Tasks[plan] /\ Left(t[1]) = {}
      BY <2>1, <2>4 DEF EventsInv, TasksCounted
    <3>2. t \notin Unfinished
      BY <3>1 DEF Left
    <3>3. t \in Range(task) \ {NoTask}
      BY <3>1, <3>2 DEF Alive, Unfinished, TypeInv, TasksTyped
    <3>4. PICK x \in Threads : task[x] = t
      BY <3>3 DEF Range, TypeInv, TasksTyped
    <3>5. pc[x] = "finish"
      BY <3>1, <3>2, <3>4 DEF Unfinished
    <3> QED
      BY <3>4, <3>5 DEF TypeInv, ThreadsAtWork
  <2> QED
    BY <2>2, <2>3, <2>4 DEF EventOrder
<1> QED
  BY <1>1, EventsInvariance, PTL

-----------------------------------------------------------------------------
\* The result: what is left to be sunk, fetched and completed.

Remaining == {c \in CollectorTasks[plan] \X (1 .. Plan.chunks) : c[2] <= chunks[c[1]]}

\* No chunk is lost or made, and only the tasks of the result sink chunks.
ChunksCounted ==
    /\ \A t \in Tasks[plan] : chunks[t] > 0 => t \in CollectorTasks[plan]
    /\ delivered + buffered + Cardinality(Remaining) = Cardinality(CollectorTasks[plan] \X (1 .. Plan.chunks))

\* No task of a query that goes on is lost before it has sunk its chunks.
NoneLost ==
    ~error /\ ~cancelled => \A t \in Tasks[plan] : chunks[t] > 0 /\ t[1] \in Ready => t \in Unfinished

\* The complete events that have counted their meta pipeline.
Completed ==
    {e \in Events[plan] : /\ e[1] = "complete" /\ finished[e] = 1
                          /\ \A x \in Threads : \A i \in 1 .. Len(finishing[x]) : finishing[x][i].event # e}

PipelinesCounted == completed_pipelines <= Cardinality(Completed)

AllFinished == \A e \in Events[plan] : finished[e] = 1

FinishedIsFinal ==
    execution_result = "finished" => /\ ~error /\ AllFinished
                                     /\ \A t \in Tasks[plan] : chunks[t] = 0

\* The inductive invariant, on top of the other ones.
ResultInv == ChunksCounted /\ NoneLost /\ PipelinesCounted /\ FinishedIsFinal

\* A thread sinks a chunk of its task.
Sinks(x) ==
    /\ task[x] \in Tasks[plan] /\ chunks[task[x]] > 0
    /\ chunks' = [chunks EXCEPT ![task[x]] = @ - 1]
    /\ buffered' = buffered + 1 /\ delivered' = delivered

\* What all steps have in common: chunks move from the tasks to the buffer and on to the
\* client, errors come from a task or from Pipeline::Schedule, and ExecuteTask decides that
\* the query has finished.
LEMMA ResultSteps ==
    ASSUME TypeInv, [Next]_vars
    PROVE  /\ \/ chunks' = chunks /\ delivered' + buffered' = delivered + buffered
              \/ \E x \in Threads : Sinks(x)
           /\ (error => error') /\ (cancelled => cancelled')
           /\ error' => error \/ \E x \in Threads : TaskError(x) \/ CompleteDependency(x)
           /\ execution_result' = "finished" =>
                \/ execution_result = "finished"
                \/ /\ pc[Client] = "execute" /\ PipelinesComplete /\ ~error
                   /\ UNCHANGED <<error, chunks, finished>>
<1> USE DEF choice, event_state, scheduler, tasks_state, query_state, buffer, outcome, bounds, GoTo
<1>a. /\ buffered \in Nat /\ delivered \in Nat /\ Workers \subseteq Threads /\ BufferSize \in Nat \ {0}
      /\ error \in BOOLEAN /\ cancelled \in BOOLEAN
  BY ConstantsAssumption DEF TypeInv, ClientTyped, Threads
<1> DEFINE Moves == \/ chunks' = chunks /\ delivered' + buffered' = delivered + buffered
                    \/ \E x \in Threads : Sinks(x)
           Errors == /\ (error => error') /\ (cancelled => cancelled')
                     /\ error' => error \/ \E x \in Threads : TaskError(x) \/ CompleteDependency(x)
           Finishes == execution_result' = "finished" =>
                         \/ execution_result = "finished"
                         \/ /\ pc[Client] = "execute" /\ PipelinesComplete /\ ~error
                            /\ UNCHANGED <<error, chunks, finished>>
<1>1. ASSUME NEW x \in Threads, PassInterruptTest(x) PROVE Moves /\ Errors /\ Finishes
  BY <1>1 DEF PassInterruptTest
<1>2. ASSUME NEW x \in Threads, TaskError(x) PROVE Moves /\ Errors /\ Finishes
  <2>1. Moves /\ Finishes /\ (cancelled => cancelled')
    BY <1>2 DEF TaskError
  <2>2. error => error'
    BY <1>2 DEF TaskError, ScheduleTasks, FinishWithoutTasks
  <2> QED
    BY <1>2, <2>1, <2>2
<1>3. ASSUME NEW x \in Threads, TaskBlocks(x) PROVE Moves /\ Errors /\ Finishes
  BY <1>3 DEF TaskBlocks
<1>4. ASSUME NEW x \in Threads, Sink(x) PROVE Moves /\ Errors /\ Finishes
  <2>1. Moves
    <3>1. CASE UNCHANGED <<chunks, buffered>>
      BY <1>4, <3>1 DEF Sink
    <3>2. CASE chunks' = [chunks EXCEPT ![task[x]] = @ - 1] /\ buffered' = buffered + 1
      <4>1. task[x] \in Tasks[plan] /\ chunks[task[x]] > 0 /\ delivered' = delivered
        BY <1>4, BusyTask DEF Sink, Busy
      <4> QED
        BY <3>2, <4>1 DEF Sinks
    <3> QED
      BY <1>4, <3>1, <3>2 DEF Sink
  <2>2. Errors /\ Finishes
    BY <1>4 DEF Sink
  <2> QED
    BY <2>1, <2>2
<1>5. ASSUME NEW x \in Threads, BlockSink(x) PROVE Moves /\ Errors /\ Finishes
  BY <1>5 DEF BlockSink
<1>6. ASSUME NEW x \in Threads, Deschedule(x) PROVE Moves /\ Errors /\ Finishes
  BY <1>6 DEF Deschedule
<1>7. ASSUME NEW x \in Threads, FinishTask(x) PROVE Moves /\ Errors /\ Finishes
  BY <1>7 DEF FinishTask
<1>8. ASSUME NEW x \in Threads, FinishReturns(x) PROVE Moves /\ Errors /\ Finishes
  BY <1>8 DEF FinishReturns
<1>9. ASSUME NEW x \in Threads, CompleteDependency(x) PROVE Moves /\ Errors /\ Finishes
  <2>1. Moves /\ Finishes /\ (cancelled => cancelled')
    BY <1>9 DEF CompleteDependency
  <2>2. error => error'
    BY <1>9 DEF CompleteDependency, ScheduleTasks, FinishWithoutTasks
  <2> QED
    BY <1>9, <2>1, <2>2
<1>10. ASSUME NEW x \in Workers, SemaphoreWait(x) PROVE Moves /\ Errors /\ Finishes
  BY <1>10 DEF SemaphoreWait
<1>11. ASSUME NEW x \in Workers, Dequeue(x) PROVE Moves /\ Errors /\ Finishes
  BY <1>11 DEF Dequeue
<1>12. ASSUME NEW x \in Workers, DequeueFails(x) PROVE Moves /\ Errors /\ Finishes
  BY <1>12 DEF DequeueFails
<1>13. ASSUME NEW t \in DOMAIN callback, Callback(t) PROVE Moves /\ Errors /\ Finishes
  BY <1>13 DEF Callback
<1>14. ASSUME NEW t \in DOMAIN callback, CallbackReturns(t) PROVE Moves /\ Errors /\ Finishes
  BY <1>14 DEF CallbackReturns
<1>15. ASSUME ExecutionFinished PROVE Moves /\ Errors /\ Finishes
  <2>1. Moves
    BY <1>15, <1>a DEF ExecutionFinished, Scan, BufferIsFull
  <2>2. Errors /\ Finishes
    BY <1>15, <1>a DEF ExecutionFinished
  <2> QED
    BY <2>1, <2>2
<1>16. ASSUME ExecuteTask PROVE Moves /\ Errors /\ Finishes
  BY <1>16 DEF ExecuteTask
<1>17. ASSUME NoTaskAvailable PROVE Moves /\ Errors /\ Finishes
  BY <1>17 DEF NoTaskAvailable
<1>18. ASSUME Fetch PROVE Moves /\ Errors /\ Finishes
  <2>1. Moves
    BY <1>18, <1>a DEF Fetch, Scan, BufferIsFull
  <2>2. Errors /\ Finishes
    BY <1>18, <1>a DEF Fetch
  <2> QED
    BY <2>1, <2>2
<1>19. ASSUME Fetched PROVE Moves /\ Errors /\ Finishes
  <2>1. Moves
    BY <1>19, <1>a DEF Fetched, Scan, BufferIsFull
  <2>2. Errors /\ Finishes
    BY <1>19, <1>a DEF Fetched
  <2> QED
    BY <2>1, <2>2
<1>20. ASSUME UnblockSinks PROVE Moves /\ Errors /\ Finishes
  BY <1>20 DEF UnblockSinks
<1>21. ASSUME UnblockSink PROVE Moves /\ Errors /\ Finishes
  BY <1>21 DEF UnblockSink
<1>22. ASSUME CloseResult PROVE Moves /\ Errors /\ Finishes
  BY <1>22 DEF CloseResult
<1>23. ASSUME CancelTasks PROVE Moves /\ Errors /\ Finishes
  BY <1>23 DEF CancelTasks
<1>24. ASSUME WorkOnTasks PROVE Moves /\ Errors /\ Finishes
  BY <1>24 DEF WorkOnTasks
<1>25. ASSUME DestroyEvents PROVE Moves /\ Errors /\ Finishes
  BY <1>25 DEF DestroyEvents
<1>26. ASSUME Interrupt PROVE Moves /\ Errors /\ Finishes
  BY <1>26 DEF Interrupt
<1>27. ASSUME UNCHANGED vars PROVE Moves /\ Errors /\ Finishes
  BY <1>27 DEF vars
<1>b. Moves /\ Errors /\ Finishes
  <2> HIDE DEF Moves, Errors, Finishes
  <2> QED
    BY <1>1, <1>2, <1>3, <1>4, <1>5, <1>6, <1>7, <1>8, <1>9, <1>10, <1>11, <1>12, <1>13, <1>14,
        <1>15, <1>16, <1>17, <1>18, <1>19, <1>20, <1>21, <1>22, <1>23, <1>24, <1>25, <1>26, <1>27
        DEF Next, WorkerStep, ClientStep, TaskStep, Callbacks, Threads
<1> QED
  BY <1>b

\* The chunks of the result are finitely many.
LEMMA RemainingFinite ==
    ASSUME TypeInv
    PROVE  /\ IsFiniteSet(Remaining) /\ Cardinality(Remaining) \in Nat
           /\ IsFiniteSet(CollectorTasks[plan] \X (1 .. Plan.chunks)) /\ Plan.chunks \in Nat
           /\ Cardinality(CollectorTasks[plan] \X (1 .. Plan.chunks)) \in Nat
<1>1. plan \in DOMAIN Plans /\ Plan.chunks \in Nat
  BY PlansAssumption DEF TypeInv, ChoiceTyped, Plan, IsPlan
<1>2. IsFiniteSet(CollectorTasks[plan])
  <2>1. CollectorTasks[plan] \subseteq Tasks[plan] /\ IsFiniteSet(Tasks[plan])
    BY <1>1, TasksFinite DEF CollectorTasks
  <2> QED
    BY <2>1, FS_Subset
<1>3. IsFiniteSet(CollectorTasks[plan] \X (1 .. Plan.chunks))
  <2>1. IsFiniteSet(1 .. Plan.chunks)
    BY <1>1, FS_Interval
  <2> QED
    BY <1>2, <2>1, FS_Product
<1>4. Remaining \subseteq CollectorTasks[plan] \X (1 .. Plan.chunks)
  BY DEF Remaining
<1>5. IsFiniteSet(Remaining)
  BY <1>3, <1>4, FS_Subset
<1> QED
  BY <1>1, <1>3, <1>5, FS_CardinalityType

\* A step neither loses nor makes chunks.
LEMMA ChunksCountedStep ==
    ASSUME TypeInv, ChunksCounted, [Next]_vars
    PROVE  ChunksCounted' /\ \A t \in Tasks[plan] : chunks'[t] <= chunks[t]
<1>1. /\ plan' = plan /\ Plan' = Plan /\ chunks \in [Tasks[plan] -> 0 .. Plan.chunks]
      /\ buffered \in Nat /\ delivered \in Nat /\ Plan.chunks \in Nat
  BY ChoiceMade, RemainingFinite, ConstantsAssumption DEF TypeInv, TasksTyped, ClientTyped, Plan
<1>2. \/ chunks' = chunks /\ delivered' + buffered' = delivered + buffered
      \/ \E x \in Threads : Sinks(x)
  BY ResultSteps
<1>3. CASE chunks' = chunks /\ delivered' + buffered' = delivered + buffered
  <2>1. Remaining' = Remaining
    BY <1>1, <1>3 DEF Remaining
  <2>2. Cardinality(Remaining) \in Nat /\ buffered' \in Nat /\ delivered' \in Nat
    BY RemainingFinite, TypeInvStep, ConstantsAssumption DEF TypeInv, ClientTyped
  <2>3. delivered' + buffered' + Cardinality(Remaining) = delivered + buffered + Cardinality(Remaining)
    BY <1>3
  <2>4. ChunksCounted'
    BY <1>1, <1>3, <2>1, <2>3 DEF ChunksCounted
  <2> QED
    BY <1>1, <1>3, <2>4
<1>4. ASSUME NEW x \in Threads, Sinks(x)
      PROVE  ChunksCounted' /\ \A t \in Tasks[plan] : chunks'[t] <= chunks[t]
  <2>1. PICK t : t = task[x]
    OBVIOUS
  <2>2. /\ t \in Tasks[plan] /\ chunks[t] > 0 /\ chunks' = [chunks EXCEPT ![t] = @ - 1]
        /\ buffered' = buffered + 1 /\ delivered' = delivered
    BY <1>4, <2>1 DEF Sinks
  <2>3. t \in CollectorTasks[plan]
    BY <2>2 DEF ChunksCounted
  <2>4. PICK c : c = chunks[t]
    OBVIOUS
  <2>5. c \in 1 .. Plan.chunks /\ chunks'[t] = c - 1 /\ \A u \in Tasks[plan] \ {t} : chunks'[u] = chunks[u]
    BY <1>1, <2>2, <2>4
  <2>6. \A u \in Tasks[plan] : chunks'[u] <= chunks[u]
    BY <1>1, <2>2, <2>4, <2>5
  <2>7. CollectorTasks[plan] \subseteq Tasks[plan]
    BY DEF CollectorTasks, TypeInv, ChoiceTyped
  <2>8. <<t, c>> \in Remaining
    BY <1>1, <2>3, <2>4, <2>5 DEF Remaining
  <2>9. Remaining' = Remaining \ {<<t, c>>}
    <3> DEFINE S == CollectorTasks[plan] \X (1 .. Plan.chunks)
    <3>1. ASSUME NEW d \in S PROVE d[2] <= chunks'[d[1]] <=> d[2] <= chunks[d[1]] /\ d # <<t, c>>
      <4>1. d = <<d[1], d[2]>> /\ d[1] \in Tasks[plan] /\ d[2] \in Nat
        BY <1>1, <2>7
      <4>2. CASE d[1] = t
        <5>1. d # <<t, c>> <=> d[2] # c
          BY <4>1, <4>2
        <5>2. c \in Nat /\ chunks'[d[1]] = c - 1 /\ chunks[d[1]] = c
          BY <1>1, <2>4, <2>5, <4>2
        <5>3. d[2] <= c - 1 <=> d[2] <= c /\ d[2] # c
          BY <4>1, <5>2
        <5> QED
          BY <5>1, <5>2, <5>3
      <4>3. CASE d[1] # t
        BY <2>5, <4>1, <4>3
      <4> QED
        BY <4>2, <4>3
    <3>2. Remaining = {d \in S : d[2] <= chunks[d[1]]} /\ Remaining' = {d \in S : d[2] <= chunks'[d[1]]}
      BY <1>1 DEF Remaining
    <3> HIDE DEF S
    <3> QED
      BY <3>1, <3>2
  <2>10. Cardinality(Remaining') = Cardinality(Remaining) - 1
    BY <2>8, <2>9, RemainingFinite, FS_RemoveElement
  <2>11. Cardinality(Remaining) \in Nat
    BY RemainingFinite
  <2>12. delivered' + buffered' + Cardinality(Remaining') = delivered + buffered + Cardinality(Remaining)
    BY <1>1, <2>2, <2>10, <2>11
  <2>13. \A u \in Tasks[plan] : chunks'[u] > 0 => u \in CollectorTasks[plan]
    <3>1. \A u \in Tasks[plan] : chunks'[u] > 0 => chunks[u] > 0
      BY <1>1, <2>2, <2>5
    <3> QED
      BY <3>1 DEF ChunksCounted
  <2>14. ChunksCounted'
    BY <1>1, <2>12, <2>13 DEF ChunksCounted
  <2> QED
    BY <2>6, <2>14
<1> QED
  BY <1>2, <1>3, <1>4

\* A step loses no task of a query that goes on.
LEMMA NoneLostStep ==
    ASSUME TypeInv, PlacesInv, EventsInv, ChunksCounted, NoneLost, [Next]_vars
    PROVE  NoneLost'
<1> SUFFICES ASSUME ~error', ~cancelled', NEW t \in Tasks[plan], chunks'[t] > 0, t[1] \in Ready'
             PROVE  t \in Unfinished'
  BY ChoiceMade DEF NoneLost
<1>1. /\ ~error /\ ~cancelled /\ plan' = plan /\ Plan' = Plan
      /\ \A e : total_dependencies(e)' = total_dependencies(e)
  BY ResultSteps, ChoiceMade, TotalKept DEF Plan
<1>2. chunks[t] > 0
  <2>1. chunks'[t] <= chunks[t]
    BY ChunksCountedStep
  <2>2. chunks[t] \in Nat /\ chunks'[t] \in Nat
    <3>1. chunks \in [Tasks[plan] -> 0 .. Plan.chunks] /\ chunks' \in [Tasks[plan] -> 0 .. Plan.chunks]
      BY <1>1, TypeInvStep DEF TypeInv, TasksTyped
    <3> QED
      BY <3>1
  <2> QED
    BY <2>1, <2>2
<1>3. t[1] \in Ready => t \in Unfinished
  BY <1>1, <1>2 DEF NoneLost
<1>4. finished_dependencies' = finished_dependencies => t[1] \in Ready
  BY <1>1 DEF Ready
<1>5. CASE Quiet
  BY <1>3, <1>4, <1>5 DEF Quiet
<1>6. ASSUME NEW x \in Threads, FinishTask(x) PROVE t \in Unfinished'
  <2>1. /\ chunks[task[x]] = 0 /\ Unfinished' = Unfinished \ {task[x]}
        /\ finished_dependencies' = finished_dependencies
    BY <1>6, FinishTaskEffect
  <2> QED
    BY <1>2, <1>3, <1>4, <2>1
<1>7. ASSUME NEW x \in Threads, FinishReturns(x) PROVE t \in Unfinished'
  BY <1>3, <1>4, <1>7, FinishReturnsEffect
<1>8. ASSUME NEW x \in Threads, CompleteDependency(x) PROVE t \in Unfinished'
  <2>1. PICK p \in Events[plan] :
           \/ finished_dependencies' = finished_dependencies /\ Unfinished' = Unfinished
           \/ /\ finished_dependencies' = [finished_dependencies EXCEPT ![p] = @ + 1]
              /\ finished_dependencies[p] + 1 # total_dependencies(p)
              /\ Unfinished' = Unfinished
           \/ /\ finished_dependencies' = [finished_dependencies EXCEPT ![p] = @ + 1]
              /\ Unfinished' = Unfinished \cup {u \in Tasks[plan] : u[1] = p}
           \/ /\ finished_dependencies' = [finished_dependencies EXCEPT ![p] = @ + 1]
              /\ NumTasks(Plan, p) = 0 \/ error'
              /\ Unfinished' = Unfinished
    BY <1>8, CompleteDependencyTasks
  <2>2. /\ finished_dependencies \in [Events[plan] -> Nat] /\ t[1] \in Events[plan]
        /\ total_dependencies(p) \in Nat
        /\ t[2] \in 1 .. NumTasks(Plan, t[1])
    BY ParentsFacts, TaskFacts DEF TypeInv, ChoiceTyped, EventsTyped, Plan
  <2>3. t[1] # p => t[1] \in Ready
    BY <1>1, <2>1, <2>2 DEF Ready
  <2>4. CASE t[1] # p
    BY <1>3, <2>1, <2>3, <2>4
  <2>5. CASE t[1] = p
    <3>1. NumTasks(Plan, p) # 0
      BY <2>2, <2>5
    <3>2. CASE finished_dependencies' = finished_dependencies /\ Unfinished' = Unfinished
      BY <1>3, <1>4, <3>2
    <3>3. CASE /\ finished_dependencies' = [finished_dependencies EXCEPT ![p] = @ + 1]
               /\ finished_dependencies[p] + 1 # total_dependencies(p)
               /\ Unfinished' = Unfinished
      <4>1. finished_dependencies'[p] >= total_dependencies(p)
        BY <1>1, <2>5 DEF Ready
      <4>2. finished_dependencies[p] >= total_dependencies(p)
        BY <2>2, <3>3, <4>1
      <4> QED
        BY <1>3, <2>5, <3>3, <4>2 DEF Ready
    <3>4. CASE Unfinished' = Unfinished \cup {u \in Tasks[plan] : u[1] = p}
      BY <2>5, <3>4
    <3> QED
      BY <2>1, <3>1, <3>2, <3>3, <3>4
  <2> QED
    BY <2>4, <2>5
<1> QED
  BY <1>5, <1>6, <1>7, <1>8, QuietSteps

\* A complete event is counted once.
LEMMA PipelinesCountedStep ==
    ASSUME TypeInv, PlacesInv, EventsInv, PipelinesCounted, [Next]_vars
    PROVE  PipelinesCounted'
<1>1. /\ TypeInv' /\ plan' = plan /\ TasksCounted /\ CallsOfFinish /\ completed_pipelines \in Nat
      /\ finishing \in [Threads -> Seq(Frames)] /\ finished \in [Events[plan] -> Nat]
      /\ IsFiniteSet(Events[plan])
  BY TypeInvStep, ChoiceMade, PlanFinite DEF TypeInv, ChoiceTyped, EventsTyped, EventsInv
<1>2. IsFiniteSet(Completed) /\ IsFiniteSet(Completed')
  <2>1. Completed \subseteq Events[plan] /\ Completed' \subseteq Events[plan]
    BY <1>1 DEF Completed
  <2> QED
    BY <1>1, <2>1, FS_Subset
<1>3. Cardinality(Completed) \in Nat /\ Cardinality(Completed') \in Nat
  BY <1>2, FS_CardinalityType
<1>4. Completed \subseteq Completed'
  <2>a. PICK x \in Threads, k \in {-1, 0, 1} : \E p : CallsMove(x, k, p)
    BY <1>1, CallsStep
  <2>1. PICK p : CallsMove(x, k, p)
    BY <2>a
  <2> SUFFICES ASSUME NEW e \in Completed PROVE e \in Completed'
    OBVIOUS
  <2>2. e \in Events[plan] /\ e[1] = "complete" /\ finished[e] = 1 /\ finished'[e] = 1
    BY DependenciesCountedStep DEF Completed
  <2>3. ASSUME NEW y \in Threads, NEW i \in 1 .. Len(finishing'[y])
        PROVE  finishing'[y][i].event # e
    <3>1. \A z \in Threads : \A j \in 1 .. Len(finishing[z]) : finishing[z][j].event # e
      BY DEF Completed
    <3>2. CASE y # x
      BY <2>1, <3>1, <3>2 DEF CallsMove
    <3>3. CASE y = x /\ k = 1 /\ i = 1
      BY <2>1, <2>2, <3>3 DEF CallsMove, Frame
    <3>4. CASE y = x /\ ~(k = 1 /\ i = 1)
      <4>1. i - k \in 1 .. Len(finishing[x]) /\ finishing'[x][i].event = finishing[x][i - k].event
        BY <2>1, <3>4 DEF CallsMove
      <4> QED
        BY <3>1, <3>4, <4>1
    <3> QED
      BY <3>2, <3>3, <3>4
  <2> QED
    BY <1>1, <2>2, <2>3 DEF Completed
<1>5. Cardinality(Completed) <= Cardinality(Completed')
  BY <1>2, <1>4, FS_Subset
<1>6. ASSUME completed_pipelines' = completed_pipelines PROVE PipelinesCounted'
  BY <1>1, <1>3, <1>5, <1>6 DEF PipelinesCounted
<1>7. CASE Quiet
  BY <1>6, <1>7 DEF Quiet
<1>8. ASSUME NEW x \in Threads, FinishTask(x) PROVE PipelinesCounted'
  BY <1>6, <1>8, FinishTaskEffect
<1>9. ASSUME NEW x \in Threads, CompleteDependency(x) PROVE PipelinesCounted'
  BY <1>6, <1>9, CompleteDependencyTasks
<1>10. ASSUME NEW x \in Threads, FinishReturns(x) PROVE PipelinesCounted'
  <2>1. /\ pc[x] = "finish" /\ finishing' = [finishing EXCEPT ![x] = Tail(finishing[x])] /\ finished' = finished
        /\ completed_pipelines' = completed_pipelines
                                   + IF Head(finishing[x]).event[1] = "complete" THEN 1 ELSE 0
    BY <1>10, FinishReturnsEffect
  <2>2. PICK g : g = Head(finishing[x]).event
    OBVIOUS
  <2>3. CASE g[1] # "complete"
    <3>1. completed_pipelines' = completed_pipelines
      BY <1>1, <2>1, <2>2, <2>3
    <3> QED
      BY <1>6, <3>1
  <2>4. CASE g[1] = "complete"
    <3>1. /\ finishing[x] \in Seq(Frames) /\ finishing[x] # <<>>
      BY <1>1, <2>1 DEF TypeInv, ThreadsAtWork
    <3>2. /\ Len(finishing[x]) \in Nat /\ Len(finishing[x]) >= 1 /\ Head(finishing[x]) = finishing[x][1]
          /\ Len(Tail(finishing[x])) = Len(finishing[x]) - 1
          /\ \A i \in 1 .. Len(finishing[x]) - 1 : Tail(finishing[x])[i] = finishing[x][i + 1]
      BY <3>1, PopIndexes
    <3>3. g \in Events[plan] /\ finished[g] = 1 /\ 1 \in 1 .. Len(finishing[x]) /\ finishing[x][1].event = g
      <4>1. 1 \in 1 .. Len(finishing[x])
        BY <3>2
      <4> QED
        BY <1>1, <2>1, <2>2, <3>2, <4>1, FinishingTyped DEF CallsOfFinish
    <3>4. g \notin Completed
      BY <3>3 DEF Completed
    <3>5. ASSUME NEW y \in Threads, NEW i \in 1 .. Len(finishing'[y])
          PROVE  finishing'[y][i].event # g
      <4>1. CASE y # x
        <5>1. finishing'[y] = finishing[y]
          BY <1>1, <2>1, <4>1
        <5> QED
          BY <1>1, <3>3, <4>1, <5>1 DEF CallsOfFinish
      <4>2. CASE y = x
        <5>1. finishing'[y] = Tail(finishing[x])
          BY <1>1, <2>1, <4>2
        <5>2. i + 1 \in 1 .. Len(finishing[x]) /\ finishing'[y][i] = finishing[x][i + 1] /\ i + 1 # 1
          BY <3>2, <5>1
        <5> QED
          BY <1>1, <3>3, <4>2, <5>2 DEF CallsOfFinish
      <4> QED
        BY <4>1, <4>2
    <3>6. g \in Completed'
      BY <1>1, <2>1, <2>4, <3>3, <3>5 DEF Completed
    <3>7. Completed \cup {g} \subseteq Completed'
      BY <1>4, <3>6
    <3>8. /\ IsFiniteSet(Completed \cup {g})
          /\ Cardinality(Completed \cup {g}) = Cardinality(Completed) + 1
      BY <1>2, <3>4, FS_AddElement
    <3>9. Cardinality(Completed) + 1 <= Cardinality(Completed')
      BY <1>2, <3>7, <3>8, FS_Subset
    <3>10. completed_pipelines' = completed_pipelines + 1
      BY <2>1, <2>2, <2>4
    <3> QED
      BY <1>1, <1>3, <3>9, <3>10 DEF PipelinesCounted
  <2> QED
    BY <2>3, <2>4
<1> QED
  BY <1>7, <1>8, <1>9, <1>10, QuietSteps

\* The events of a pipeline: all of them lead to the complete event of its meta pipeline.
LEMMA PlanShape ==
    ASSUME NEW n \in DOMAIN Plans
    PROVE  LET pl == Plans[n]
               D == Dependencies[n]
           IN  /\ \A p \in Pipelines(pl) :
                     /\ BaseOf(pl, p) \in Pipelines(pl) /\ FinishOf(pl, p) \in Pipelines(pl)
                     /\ pl.meta[BaseOf(pl, p)] = pl.meta[p]
                     /\ <<<<"prepare_finish", FinishOf(pl, p)>>, <<"event", p>>>> \in D
                     /\ <<<<"finish", FinishOf(pl, p)>>, <<"prepare_finish", FinishOf(pl, p)>>>> \in D
                     /\ <<<<"complete", BaseOf(pl, p)>>, <<"finish", FinishOf(pl, p)>>>> \in D
               /\ \A e \in ScheduledEvents[n] : \E p \in Pipelines(pl) :
                     \/ e = <<"event", p>> \/ e = <<"prepare_finish", FinishOf(pl, p)>>
                     \/ e = <<"finish", FinishOf(pl, p)>> \/ e = <<"complete", BaseOf(pl, p)>>
                     \/ <<<<"event", p>>, e>> \in D /\ e[1] # "complete"
<1> DEFINE pl == Plans[n]
           ps == Pipelines(pl)
           D == Dependencies[n]
           B(p) == BaseOf(pl, p)
           F(p) == FinishOf(pl, p)
<1>1. /\ IsPlan(pl) /\ \A p \in ps : pl.meta[p] \in MetaPipelines(pl)
      /\ \A m \in MetaPipelines(pl) : \E p \in ps : m = pl.meta[p]
  BY PlansAssumption DEF Pipelines, MetaPipelines, Range
<1>2. /\ pl.base \in [MetaPipelines(pl) -> ps]
      /\ \A m \in MetaPipelines(pl) : pl.meta[pl.base[m]] = m /\ ~InGroup(pl, pl.base[m])
      /\ pl.own_finish \subseteq ps
      /\ \A p \in ps : InGroup(pl, p) => /\ pl.group[p] \in pl.own_finish /\ ~InGroup(pl, pl.group[p])
                                         /\ pl.meta[pl.group[p]] = pl.meta[p]
      /\ pl.dependencies \in [ps -> SUBSET ps] /\ pl.intra_dependencies \in [ps -> SUBSET ps]
      /\ pl.join_builds \subseteq MetaPipelines(pl)
  BY <1>1 DEF IsPlan, InGroup
<1> HIDE DEF pl, ps
<1>3. \A p \in ps : B(p) \in ps /\ pl.meta[B(p)] = pl.meta[p] /\ ~InGroup(pl, B(p)) /\ B(B(p)) = B(p)
  BY <1>1, <1>2 DEF BaseOf
<1>4. \A m \in MetaPipelines(pl) : pl.base[m] \in ps /\ F(pl.base[m]) = pl.base[m]
  BY <1>2 DEF FinishOf, BaseOf
<1>5. \A p \in ps : F(p) \in ps /\ F(F(p)) = F(p) /\ B(F(p)) = B(p) /\ F(B(p)) = B(p)
  BY <1>2, <1>3 DEF FinishOf, BaseOf
<1>6. /\ D = JoinBuildDependencies(pl)
               \cup UNION {StackDependencies(pl, p)
                             \cup {<<<<"event", p>>, <<"complete", B(d)>>>> : d \in pl.dependencies[p]}
                             \cup {<<<<"event", p>>, <<"event", d>>>> : d \in pl.intra_dependencies[p]}
                           : p \in ps}
      /\ ScheduledEvents[n] = UNION {{d[1], d[2]} : d \in D}
  BY DEF Dependencies, ScheduledEvents, pl, ps
<1>7. \A p \in ps : StackDependencies(pl, p) \subseteq D
  BY <1>6
<1> HIDE DEF D, B, F
<1>8. ASSUME NEW p \in ps
      PROVE  /\ <<<<"prepare_finish", F(p)>>, <<"event", p>>>> \in StackDependencies(pl, p)
             /\ F(p) = p => /\ <<<<"finish", p>>, <<"prepare_finish", p>>>> \in StackDependencies(pl, p)
                            /\ <<<<"complete", B(p)>>, <<"finish", p>>>> \in StackDependencies(pl, p)
             /\ \A d \in StackDependencies(pl, p) :
                  /\ d[1] = <<"prepare_finish", F(p)>> \/ d[1] = <<"event", p>>
                     \/ (F(p) = p /\ (d[1] = <<"finish", p>> \/ d[1] = <<"complete", B(p)>>))
                  /\ \/ d[2] = <<"event", p>>
                     \/ d[1] = <<"event", p>> /\ d = <<d[1], d[2]>> /\ d[2][1] # "complete"
                     \/ (F(p) = p /\ (d[2] = <<"prepare_finish", p>> \/ d[2] = <<"finish", p>>))
  BY DEF StackDependencies, B, F
<1>9. ASSUME NEW p \in ps
      PROVE  /\ <<<<"prepare_finish", F(p)>>, <<"event", p>>>> \in D
             /\ <<<<"finish", F(p)>>, <<"prepare_finish", F(p)>>>> \in D
             /\ <<<<"complete", B(p)>>, <<"finish", F(p)>>>> \in D
  <2>1. F(p) \in ps /\ F(F(p)) = F(p) /\ B(F(p)) = B(p)
    BY <1>5
  <2>2. <<<<"prepare_finish", F(p)>>, <<"event", p>>>> \in D
    BY <1>7, <1>8
  <2>3. /\ <<<<"finish", F(p)>>, <<"prepare_finish", F(p)>>>> \in StackDependencies(pl, F(p))
        /\ <<<<"complete", B(F(p))>>, <<"finish", F(p)>>>> \in StackDependencies(pl, F(p))
    BY <1>8, <2>1
  <2> QED
    BY <1>7, <2>1, <2>2, <2>3
<1> DEFINE Known(e) ==
             \E p \in ps :
                \/ e = <<"event", p>> \/ e = <<"prepare_finish", F(p)>>
                \/ e = <<"finish", F(p)>> \/ e = <<"complete", B(p)>>
                \/ <<<<"event", p>>, e>> \in D /\ e[1] # "complete"
<1>k. ASSUME NEW p \in ps, NEW e,
             \/ e = <<"event", p>> \/ e = <<"prepare_finish", F(p)>>
             \/ e = <<"finish", F(p)>> \/ e = <<"complete", B(p)>>
      PROVE  Known(e)
  BY <1>k
<1>10. ASSUME NEW p \in ps, NEW d \in StackDependencies(pl, p)
       PROVE  Known(d[1]) /\ Known(d[2])
  <2>1. d \in D
    BY <1>7, <1>10
  <2>4. d[1] = <<"event", p>> /\ d = <<d[1], d[2]>> /\ d[2][1] # "complete" => Known(d[2])
    BY <2>1
  <2> HIDE DEF Known
  <2>2. Known(<<"event", p>>) /\ Known(<<"prepare_finish", F(p)>>)
    BY <1>k
  <2>3. F(p) = p => Known(<<"finish", p>>) /\ Known(<<"complete", B(p)>>) /\ Known(<<"prepare_finish", p>>)
    BY <1>k
  <2>5. /\ d[1] = <<"prepare_finish", F(p)>> \/ d[1] = <<"event", p>>
           \/ (F(p) = p /\ (d[1] = <<"finish", p>> \/ d[1] = <<"complete", B(p)>>))
        /\ \/ d[2] = <<"event", p>>
           \/ d[1] = <<"event", p>> /\ d = <<d[1], d[2]>> /\ d[2][1] # "complete"
           \/ (F(p) = p /\ (d[2] = <<"prepare_finish", p>> \/ d[2] = <<"finish", p>>))
    BY <1>8, <1>10
  <2> QED
    BY <2>2, <2>3, <2>4, <2>5
<1>11. ASSUME NEW p \in ps, NEW q \in pl.dependencies[p]
       PROVE  Known(<<"event", p>>) /\ Known(<<"complete", B(q)>>)
  <2>1. q \in ps
    BY <1>2, <1>11
  <2> HIDE DEF Known
  <2> QED
    BY <1>k, <2>1
<1>12. ASSUME NEW p \in ps, NEW q \in pl.intra_dependencies[p]
       PROVE  Known(<<"event", p>>) /\ Known(<<"event", q>>)
  BY <1>2
<1>13. ASSUME NEW d \in JoinBuildDependencies(pl)
       PROVE  Known(d[1]) /\ Known(d[2])
  <2>1. PICK m1 \in pl.join_builds, m2 \in pl.join_builds :
          \/ d = <<<<"prepare_finish", pl.base[m1]>>, <<"event", pl.base[m2]>>>>
          \/ d = <<<<"finish", pl.base[m1]>>, <<"prepare_finish", pl.base[m2]>>>>
    BY <1>13 DEF JoinBuildDependencies
  <2>2. /\ pl.base[m1] \in ps /\ F(pl.base[m1]) = pl.base[m1]
        /\ pl.base[m2] \in ps /\ F(pl.base[m2]) = pl.base[m2]
    BY <1>2, <1>4
  <2> QED
    BY <2>1, <2>2
<1>14. ASSUME NEW e \in ScheduledEvents[n] PROVE Known(e)
  <2> HIDE DEF Known
  <2>1. PICK d \in D : e = d[1] \/ e = d[2]
    BY <1>6
  <2>2. \/ d \in JoinBuildDependencies(pl)
        \/ \E p \in ps : \/ d \in StackDependencies(pl, p)
                         \/ \E q \in pl.dependencies[p] : d = <<<<"event", p>>, <<"complete", B(q)>>>>
                         \/ \E q \in pl.intra_dependencies[p] : d = <<<<"event", p>>, <<"event", q>>>>
    BY <1>6, <2>1
  <2> QED
    BY <1>10, <1>11, <1>12, <1>13, <2>1, <2>2
<1> QED
  BY <1>3, <1>5, <1>9, <1>14 DEF pl, ps, D, B, F

\* Once all complete events have finished, all events have.
LEMMA AllEventsFinished ==
    ASSUME TypeInv, PlacesInv, EventsInv,
           \A e \in Events[plan] : e[1] = "complete" => finished[e] = 1
    PROVE  AllFinished
<1>1. plan \in DOMAIN Plans /\ Plan = Plans[plan] /\ ChoiceTyped
  BY DEF TypeInv, ChoiceTyped, Plan
<1>2. ASSUME NEW d \in Dependencies[plan], finished[d[1]] = 1
      PROVE  finished[d[2]] = 1 /\ (Inserts(d[2]) => finished[Inserted(d[2][2])] = 1)
  <2>1. d[1] \in Events[plan]
    BY <1>1, EventFacts DEF ScheduledEvents
  <2>2. d[1] \in Ready
    <3>1. finished[d[1]] > 0
      BY <1>2
    <3> QED
      BY <2>1, <3>1 DEF PlacesInv, OnlyReady
  <2> QED
    BY <2>2, ReadyAfterDependencies
<1>3. ASSUME NEW p \in Pipelines(Plan)
      PROVE  /\ finished[<<"complete", BaseOf(Plan, p)>>] = 1
             /\ finished[<<"finish", FinishOf(Plan, p)>>] = 1
             /\ FinishOf(Plan, p) \in Plan.inserts => finished[Inserted(FinishOf(Plan, p))] = 1
             /\ finished[<<"prepare_finish", FinishOf(Plan, p)>>] = 1
             /\ finished[<<"event", p>>] = 1
  <2>1. /\ <<<<"prepare_finish", FinishOf(Plan, p)>>, <<"event", p>>>> \in Dependencies[plan]
        /\ <<<<"finish", FinishOf(Plan, p)>>, <<"prepare_finish", FinishOf(Plan, p)>>>> \in Dependencies[plan]
        /\ <<<<"complete", BaseOf(Plan, p)>>, <<"finish", FinishOf(Plan, p)>>>> \in Dependencies[plan]
    BY <1>1, PlanShape
  <2>2. <<"complete", BaseOf(Plan, p)>> \in Events[plan]
    <3>1. <<"complete", BaseOf(Plan, p)>> \in ScheduledEvents[plan]
      BY <1>1, <2>1 DEF ScheduledEvents
    <3> QED
      BY <1>1, <3>1, EventFacts
  <2>3. finished[<<"complete", BaseOf(Plan, p)>>] = 1
    BY <2>2
  <2>4. /\ finished[<<"finish", FinishOf(Plan, p)>>] = 1
        /\ Inserts(<<"finish", FinishOf(Plan, p)>>) => finished[Inserted(FinishOf(Plan, p))] = 1
    BY <1>2, <2>1, <2>3
  <2>5. finished[<<"prepare_finish", FinishOf(Plan, p)>>] = 1
    BY <1>2, <2>1, <2>4
  <2>6. finished[<<"event", p>>] = 1
    BY <1>2, <2>1, <2>5
  <2> QED
    BY <2>3, <2>4, <2>5, <2>6 DEF Inserts
<1>4. ASSUME NEW e \in ScheduledEvents[plan] PROVE finished[e] = 1
  <2>1. PICK p \in Pipelines(Plan) :
          \/ e = <<"event", p>> \/ e = <<"prepare_finish", FinishOf(Plan, p)>>
          \/ e = <<"finish", FinishOf(Plan, p)>> \/ e = <<"complete", BaseOf(Plan, p)>>
          \/ <<<<"event", p>>, e>> \in Dependencies[plan]
    BY <1>1, PlanShape
  <2>2. CASE <<<<"event", p>>, e>> \in Dependencies[plan]
    BY <1>2, <1>3, <2>2
  <2>3. /\ finished[<<"complete", BaseOf(Plan, p)>>] = 1
        /\ finished[<<"finish", FinishOf(Plan, p)>>] = 1
        /\ finished[<<"prepare_finish", FinishOf(Plan, p)>>] = 1
        /\ finished[<<"event", p>>] = 1
    BY <1>3
  <2> QED
    BY <2>1, <2>2, <2>3
<1>5. ASSUME NEW p \in Plan.inserts PROVE finished[Inserted(p)] = 1
  <2>1. p \in Pipelines(Plan) /\ FinishOf(Plan, p) = p
    BY <1>1, PlansAssumption DEF IsPlan
  <2>2. FinishOf(Plan, p) \in Plan.inserts => finished[Inserted(FinishOf(Plan, p))] = 1
    BY <1>3, <2>1
  <2> QED
    BY <2>1, <2>2
<1>6. \A e \in Events[plan] : \/ e \in ScheduledEvents[plan]
                              \/ e[2] \in Plan.inserts /\ e = Inserted(e[2])
  BY <1>1, EventFacts
<1> QED
  BY <1>4, <1>5, <1>6 DEF AllFinished

\* There is one complete event for each meta pipeline.
LEMMA CompleteEventsCounted ==
    ASSUME TypeInv
    PROVE  /\ IsFiniteSet({e \in Events[plan] : e[1] = "complete"})
           /\ Cardinality({e \in Events[plan] : e[1] = "complete"}) \in Nat
           /\ Cardinality({e \in Events[plan] : e[1] = "complete"}) <= Cardinality(MetaPipelines(Plan))
           /\ Cardinality(MetaPipelines(Plan)) \in Nat
<1> DEFINE C == {e \in Events[plan] : e[1] = "complete"}
           M == MetaPipelines(Plan)
           ps == Pipelines(Plan)
<1>1. plan \in DOMAIN Plans /\ Plan = Plans[plan] /\ IsPlan(Plan)
  BY PlansAssumption DEF TypeInv, ChoiceTyped, Plan
<1>2. IsFiniteSet(M)
  <2> DEFINE f == [p \in ps |-> Plan.meta[p]]
  <2>1. IsFiniteSet(ps)
    BY <1>1 DEF IsPlan
  <2>2. \A m \in M : \E p \in ps : Plan.meta[p] = m
    BY DEF MetaPipelines, Pipelines, Range
  <2>3. \A p \in ps : Plan.meta[p] \in M
    BY DEF MetaPipelines, Pipelines, Range
  <2> HIDE DEF ps, M
  <2>4. f \in Surjection(ps, M)
    BY <2>2, <2>3 DEF Surjection
  <2> HIDE DEF f
  <2> QED
    BY <2>1, <2>4, FS_Surjection
<1>3. ASSUME NEW e \in C
      PROVE  \E p \in ps : e = <<"complete", BaseOf(Plan, p)>>
  <2>1. e \in ScheduledEvents[plan]
    BY <1>1, EventFacts
  <2>2. PICK p \in ps :
          \/ e = <<"event", p>> \/ e = <<"prepare_finish", FinishOf(Plan, p)>>
          \/ e = <<"finish", FinishOf(Plan, p)>> \/ e = <<"complete", BaseOf(Plan, p)>>
          \/ e[1] # "complete"
    BY ZenonT(40), <1>1, <2>1, PlanShape
  <2> QED
    BY <2>2
<1>4. \A p \in ps : Plan.meta[p] \in M /\ Plan.meta[BaseOf(Plan, p)] = Plan.meta[p]
  BY <1>1, PlanShape DEF MetaPipelines, Pipelines, Range
<1> DEFINE h == [e \in C |-> Plan.meta[e[2]]]
<1>5. h \in Injection(C, M)
  <2>1. ASSUME NEW e \in C PROVE h[e] \in M /\ e = <<"complete", Plan.base[h[e]]>>
    <3>1. PICK p \in ps : e = <<"complete", BaseOf(Plan, p)>>
      BY <1>3
    <3>2. h[e] = Plan.meta[p]
      BY <1>4, <3>1
    <3> QED
      BY <1>4, <3>1, <3>2 DEF BaseOf
  <2> HIDE DEF C, M
  <2>2. h \in [C -> M]
    BY <2>1
  <2> HIDE DEF h
  <2>3. \A e, g \in C : h[e] = h[g] => e = g
    BY <2>1
  <2> QED
    BY <2>2, <2>3 DEF Injection, IsInjective
<1> HIDE DEF C, M, h
<1>6. IsFiniteSet(C) /\ Cardinality(C) <= Cardinality(M)
  BY <1>2, <1>5, FS_Injection
<1>7. Cardinality(C) \in Nat /\ Cardinality(M) \in Nat
  BY <1>2, <1>6, FS_CardinalityType
<1> QED
  BY <1>6, <1>7 DEF C, M

\* When a query has finished nothing happens any more that could spoil the result.
LEMMA FinishedIsFinalStep ==
    ASSUME TypeInv, PlacesInv, EventsInv, ResultInv, [Next]_vars
    PROVE  FinishedIsFinal'
<1> SUFFICES ASSUME execution_result' = "finished"
             PROVE  ~error' /\ AllFinished' /\ (\A t \in Tasks[plan] : chunks'[t] = 0)
  BY ChoiceMade DEF FinishedIsFinal
<1>1. /\ plan' = plan /\ ChunksCounted /\ NoneLost /\ PipelinesCounted /\ FinishedIsFinal
      /\ completed_pipelines \in Nat
      /\ chunks \in [Tasks[plan] -> 0 .. Plan.chunks] /\ Plan.chunks \in Nat
      /\ chunks' \in [Tasks[plan] -> 0 .. Plan.chunks]
  BY ChoiceMade, TypeInvStep, RemainingFinite DEF ResultInv, TypeInv, TasksTyped, EventsTyped, Plan
<1>2. ASSUME AllFinished, NEW t \in Unfinished PROVE FALSE
  <2>1. t \in Tasks[plan] /\ t[1] \in Events[plan]
    BY UnfinishedFacts, TaskFacts DEF PlacesInv, TypeInv, ChoiceTyped
  <2>2. Left(t[1]) = {}
    BY <1>2, <2>1 DEF AllFinished, EventsInv, TasksCounted
  <2> QED
    BY <2>2 DEF Left
<1>3. AllFinished => Ready = Events[plan]
  <2>1. AllFinished => \A e \in Events[plan] : finished[e] > 0
    BY DEF AllFinished
  <2> QED
    BY <2>1 DEF PlacesInv, OnlyReady, Ready
<1>4. AllFinished => AllFinished'
  BY <1>1, DependenciesCountedStep DEF AllFinished
<1>5. CASE execution_result = "finished"
  <2>1. ~error /\ AllFinished /\ \A t \in Tasks[plan] : chunks[t] = 0
    BY <1>1, <1>5 DEF FinishedIsFinal
  <2>2. \A t \in Tasks[plan] : chunks'[t] = 0
    <3>1. \A t \in Tasks[plan] : chunks'[t] <= chunks[t] /\ chunks'[t] \in Nat
      BY <1>1, ChunksCountedStep
    <3> QED
      BY <2>1, <3>1
  <2>3. ASSUME NEW x \in Threads, TaskError(x) PROVE FALSE
    <3>1. pc[x] \in {"run", "work"}
      BY <2>3 DEF TaskError
    <3>2. task[x] \in Tasks[plan]
      BY <3>1, BusyTask DEF Busy
    <3>3. task[x] \in Unfinished
      BY <3>1, <3>2 DEF Unfinished
    <3> QED
      BY <1>2, <2>1, <3>3
  <2>4. ASSUME NEW x \in Threads, CompleteDependency(x) PROVE ~error'
    <3>1. \E p \in Events[plan] : error' = error \/ p \notin Ready
      BY <2>4, CompleteDependencyTasks
    <3> QED
      BY <1>3, <2>1, <3>1
  <2>5. ~error'
    BY <2>1, <2>3, <2>4, ResultSteps
  <2> QED
    BY <1>4, <2>1, <2>2, <2>5
<1>6. CASE execution_result # "finished"
  <2>1. pc[Client] = "execute" /\ PipelinesComplete /\ ~error /\ ~error' /\ chunks' = chunks
    BY <1>6, ResultSteps
  <2>2. ~cancelled
    BY <2>1 DEF TypeInv, ThreadsAtWork, Busy
  <2> DEFINE C == {e \in Events[plan] : e[1] = "complete"}
  <2>3. /\ IsFiniteSet(C) /\ Cardinality(C) \in Nat /\ Cardinality(C) <= Cardinality(MetaPipelines(Plan))
        /\ Cardinality(MetaPipelines(Plan)) \in Nat
    BY CompleteEventsCounted
  <2>4. Completed \subseteq C
    BY DEF Completed
  <2> HIDE DEF C
  <2>5. IsFiniteSet(Completed) /\ Cardinality(Completed) <= Cardinality(C)
    BY <2>3, <2>4, FS_Subset
  <2>6. Cardinality(Completed) \in Nat
    BY <2>5, FS_CardinalityType
  <2>7. completed_pipelines >= Cardinality(MetaPipelines(Plan)) /\ completed_pipelines <= Cardinality(Completed)
    BY <1>1, <2>1 DEF PipelinesComplete, PipelinesCounted
  <2>8. Cardinality(C) = Cardinality(Completed)
    BY <1>1, <2>3, <2>5, <2>6, <2>7
  <2>9. C = Completed
    BY <2>3, <2>4, <2>8, FS_Subset
  <2>10. \A e \in Events[plan] : e[1] = "complete" => finished[e] = 1
    BY <2>9 DEF C, Completed
  <2>11. AllFinished
    BY <2>10, AllEventsFinished
  <2>12. ASSUME NEW t \in Tasks[plan] PROVE chunks'[t] = 0
    <3>1. t[1] \in Ready
      BY <1>3, <2>11, TaskFacts DEF TypeInv, ChoiceTyped
    <3>2. ~(chunks[t] > 0)
      BY <1>1, <1>2, <2>1, <2>2, <2>11, <3>1 DEF NoneLost
    <3> QED
      BY <1>1, <2>1, <3>2
  <2> QED
    BY <1>4, <2>1, <2>11, <2>12
<1> QED
  BY <1>5, <1>6

\* A query begins with all its chunks.
LEMMA ResultInvInit == Init => ResultInv
<1> SUFFICES ASSUME Init PROVE ResultInv
  OBVIOUS
<1>1. /\ TypeInv /\ PlacesInv /\ EventsInv
      /\ chunks = [t \in Tasks[plan] |-> IF t \in CollectorTasks[plan] THEN Plan.chunks ELSE 0]
      /\ buffered = 0 /\ delivered = 0 /\ completed_pipelines = 0 /\ execution_result = "not_ready"
      /\ CollectorTasks[plan] \subseteq Tasks[plan]
  BY TypeInvInit, PlacesInvInit, EventsInvInit DEF Init, CollectorTasks
<1>2. ChunksCounted
  <2>1. Remaining = CollectorTasks[plan] \X (1 .. Plan.chunks)
    <3>1. Plan.chunks \in Nat
      BY <1>1, RemainingFinite
    <3>2. ASSUME NEW c \in CollectorTasks[plan] \X (1 .. Plan.chunks) PROVE c[2] <= chunks[c[1]]
      <4>1. c[1] \in CollectorTasks[plan] /\ c[2] \in 1 .. Plan.chunks
        OBVIOUS
      <4>2. chunks[c[1]] = Plan.chunks
        BY <1>1, <4>1
      <4> QED
        BY <3>1, <4>1, <4>2
    <3> QED
      BY <3>2 DEF Remaining
  <2>2. Cardinality(CollectorTasks[plan] \X (1 .. Plan.chunks)) \in Nat
    BY <1>1, RemainingFinite
  <2>3. 0 + 0 + Cardinality(CollectorTasks[plan] \X (1 .. Plan.chunks))
          = Cardinality(CollectorTasks[plan] \X (1 .. Plan.chunks))
    BY <2>2
  <2>4. \A t \in Tasks[plan] : chunks[t] > 0 => t \in CollectorTasks[plan]
    BY <1>1
  <2> QED
    BY <1>1, <2>1, <2>3, <2>4 DEF ChunksCounted
<1>3. NoneLost
  <2> SUFFICES ASSUME NEW t \in Tasks[plan], t[1] \in Ready PROVE t \in Unfinished
    BY DEF NoneLost
  <2>1. t \in Range(queue)
    <3>1. t[1] \in Events[plan] /\ total_dependencies(t[1]) = 0
      BY <1>1, ParentsFacts DEF Init, Ready, TypeInv, ChoiceTyped
    <3>2. t[1] \in ScheduledEvents[plan] /\ DependenciesOf[plan][t[1]] = 0
      BY <1>1, <3>1, EventFacts DEF total_dependencies, TypeInv, ChoiceTyped
    <3> QED
      BY <3>2, InitialQueue
  <2> QED
    BY <2>1 DEF Unfinished
<1>4. PipelinesCounted
  <2>1. IsFiniteSet(Events[plan]) /\ Completed \subseteq Events[plan]
    BY <1>1, PlanFinite DEF TypeInv, ChoiceTyped, Completed
  <2>2. Cardinality(Completed) \in Nat
    BY <2>1, FS_Subset, FS_CardinalityType
  <2> QED
    BY <1>1, <2>2 DEF PipelinesCounted
<1>5. FinishedIsFinal
  BY <1>1 DEF FinishedIsFinal
<1> QED
  BY <1>2, <1>3, <1>4, <1>5 DEF ResultInv

\* The chunks of the result, the tasks that have to sink them and the pipelines that have
\* to complete are counted, whatever the plan.
THEOREM ResultInvariance == Spec => [](TypeInv /\ PlacesInv /\ EventsInv /\ ResultInv)
<1>1. Init => ResultInv
  BY ResultInvInit
<1>2. TypeInv /\ PlacesInv /\ EventsInv /\ ResultInv /\ [Next]_vars => ResultInv'
  BY ChunksCountedStep, NoneLostStep, PipelinesCountedStep, FinishedIsFinalStep DEF ResultInv
<1> QED
  BY <1>1, <1>2, EventsInvariance, PTL DEF Spec

\* ExecuteTask is right when it says that a query has finished: for any plan, any number of
\* workers and any behaviour, no error was met, all events have finished, and the client of
\* a stream has got, or finds in the buffer, every chunk of every task once.
THEOREM ResultIsComplete == Spec => []ResultComplete
<1>1. ASSUME TypeInv, ResultInv PROVE ResultComplete
  <2> USE <1>1
  <2> SUFFICES ASSUME execution_result = "finished"
               PROVE  /\ ~error /\ AllFinished
                      /\ Plan.streaming => delivered + buffered = Plan.chunks * Plan.tasks[Plan.collector]
    BY DEF ResultComplete, AllFinished
  <2>1. ~error /\ AllFinished /\ \A t \in Tasks[plan] : chunks[t] = 0
    BY DEF ResultInv, FinishedIsFinal
  <2>2. Remaining = {}
    <3>1. \A c \in CollectorTasks[plan] \X (1 .. Plan.chunks) : c[1] \in Tasks[plan] /\ c[2] \in 1 .. Plan.chunks
      BY DEF CollectorTasks, TypeInv, ChoiceTyped
    <3>2. \A c \in CollectorTasks[plan] \X (1 .. Plan.chunks) : ~(c[2] <= chunks[c[1]])
      BY <2>1, <3>1, RemainingFinite
    <3> QED
      BY <3>2 DEF Remaining
  <2>3. Cardinality(Remaining) = 0
    BY <2>2, FS_EmptySet
  <2>4. delivered + buffered = Cardinality(CollectorTasks[plan] \X (1 .. Plan.chunks))
    <3>1. /\ delivered + buffered + Cardinality(Remaining) = Cardinality(CollectorTasks[plan] \X (1 .. Plan.chunks))
      BY DEF ResultInv, ChunksCounted
    <3>2. delivered \in Nat /\ buffered \in Nat
      BY ConstantsAssumption DEF TypeInv, ClientTyped
    <3> QED
      BY <2>3, <3>1, <3>2
  <2>5. ASSUME Plan.streaming
        PROVE  Cardinality(CollectorTasks[plan] \X (1 .. Plan.chunks)) = Plan.chunks * Plan.tasks[Plan.collector]
    <3> DEFINE e == <<"event", Plan.collector>>
               n == Plan.tasks[Plan.collector]
    <3>1. /\ plan \in DOMAIN Plans /\ Plan = Plans[plan] /\ ChoiceTyped /\ Plan.collector \in Pipelines(Plan)
          /\ n \in Nat /\ Plan.chunks \in Nat
      BY PlansAssumption DEF TypeInv, ChoiceTyped, Plan, IsPlan
    <3>2. e \in Events[plan]
      <4>1. <<<<"prepare_finish", FinishOf(Plan, Plan.collector)>>, e>> \in Dependencies[plan]
        BY <3>1, PlanShape
      <4>2. e \in ScheduledEvents[plan]
        BY <3>1, <4>1 DEF ScheduledEvents
      <4> QED
        BY <3>1, <4>2, EventFacts
    <3>3. CollectorTasks[plan] = {t \in Tasks[plan] : t[1] = e}
      BY <2>5, <3>1 DEF CollectorTasks
    <3>4. NumTasks(Plan, e) = n
      BY DEF NumTasks
    <3> HIDE DEF n, e
    <3>5. IsFiniteSet(CollectorTasks[plan]) /\ Cardinality(CollectorTasks[plan]) = n
      BY <3>1, <3>2, <3>3, <3>4, TasksOfCounted
    <3>6. IsFiniteSet(1 .. Plan.chunks) /\ Cardinality(1 .. Plan.chunks) = Plan.chunks
      BY SMTT(30), <3>1, FS_Interval
    <3>7. Cardinality(CollectorTasks[plan] \X (1 .. Plan.chunks)) = n * Plan.chunks
      BY <3>5, <3>6, FS_Product
    <3>8. n * Plan.chunks = Plan.chunks * n
      BY <3>1
    <3> QED
      BY <3>7, <3>8 DEF n
  <2> QED
    BY <2>1, <2>4, <2>5
<1> QED
  BY <1>1, ResultInvariance, PTL

\* Executor and TaskScheduler never have a task twice, and no counter leaves its bounds: for
\* any plan and any number of workers, an event counts at most its dependencies and its
\* tasks and the executor at most its meta pipelines, the buffer is never overfull, and a
\* task is in the queue once, or blocked, or executed by one thread.
THEOREM TaskIsInOnePlace == Spec => []TaskInOnePlace
<1>1. ASSUME TypeInv, PlacesInv, EventsInv, ResultInv PROVE TypeOK
  <2> USE <1>1
  <2>1. ASSUME NEW e \in Events[plan]
        PROVE  /\ finished_dependencies[e] \in 0 .. total_dependencies(e)
               /\ finished_tasks[e] \in 0 .. NumTasks(Plan, e)
    <3>1. /\ finished_dependencies[e] \in Nat /\ finished_tasks[e] \in Nat
          /\ total_dependencies(e) \in Nat /\ NumTasks(Plan, e) \in Nat
      BY ParentsFacts, EventFacts DEF TypeInv, ChoiceTyped, EventsTyped, Plan
    <3>2. /\ IsFiniteSet(Sources(e)) /\ Cardinality(Sources(e)) \in Nat
          /\ Cardinality(Sources(e)) <= total_dependencies(e) /\ Notified(e) \subseteq Sources(e)
      BY SourcesCounted DEF TypeInv, Notified
    <3>3. IsFiniteSet(Notified(e)) /\ Cardinality(Notified(e)) <= Cardinality(Sources(e))
      BY <3>2, FS_Subset
    <3>4. Cardinality(Notified(e)) \in Nat
      BY <3>3, FS_CardinalityType
    <3>5. finished_dependencies[e] <= Cardinality(Notified(e))
      BY DEF EventsInv, DependenciesCounted
    <3>6. finished_dependencies[e] <= total_dependencies(e)
      BY <3>1, <3>2, <3>3, <3>4, <3>5
    <3>7. finished_tasks[e] + Cardinality(Left(e)) <= NumTasks(Plan, e) /\ Cardinality(Left(e)) \in Nat
      BY UnfinishedFacts DEF PlacesInv, EventsInv, TasksCounted
    <3> QED
      BY <3>1, <3>6, <3>7
  <2>2. completed_pipelines \in 0 .. Cardinality(MetaPipelines(Plan))
    <3> DEFINE C == {e \in Events[plan] : e[1] = "complete"}
    <3>1. /\ IsFiniteSet(C) /\ Cardinality(C) \in Nat /\ Cardinality(C) <= Cardinality(MetaPipelines(Plan))
          /\ Cardinality(MetaPipelines(Plan)) \in Nat
      BY CompleteEventsCounted
    <3>2. Completed \subseteq C
      BY DEF Completed
    <3> HIDE DEF C
    <3>3. IsFiniteSet(Completed) /\ Cardinality(Completed) <= Cardinality(C)
      BY <3>1, <3>2, FS_Subset
    <3>4. Cardinality(Completed) \in Nat
      BY <3>3, FS_CardinalityType
    <3>5. completed_pipelines \in Nat /\ completed_pipelines <= Cardinality(Completed)
      BY DEF TypeInv, EventsTyped, ResultInv, PipelinesCounted
    <3> QED
      BY <3>1, <3>3, <3>4, <3>5
  <2>3. Range(queue) \subseteq Tasks[plan] /\ Range(blocked_sinks) \subseteq Tasks[plan]
    BY RangeTyped DEF TypeInv, TasksTyped
  <2>4. /\ plan \in DOMAIN Plans /\ behaviours \in Scenarios
        /\ inserted \subseteq Plan.inserts /\ events \subseteq Events[plan]
        /\ semaphore \in Nat /\ to_be_rescheduled_tasks \subseteq Tasks[plan]
        /\ callback \in [Tasks[plan] -> {"none", "registered", "running"}]
        /\ chunks \in [Tasks[plan] -> 0 .. Plan.chunks]
        /\ task \in [Threads -> Tasks[plan] \cup {NoTask}]
    BY DEF TypeInv, ChoiceTyped, EventsTyped, TasksTyped
  <2>5. /\ {cancelled, error, interrupted, fetching} \subseteq BOOLEAN
        /\ execution_result \in {"not_ready", "finished", "error", "interrupted"}
        /\ buffered \in 0 .. BufferSize /\ delivered \in Nat
        /\ blocks \in 0 .. MaxBlocks /\ failures \in 0 .. MaxFailures
    BY DEF TypeInv, ClientTyped
  <2>6. \A x \in Threads : (pc[x] = "finish") <=> (finishing[x] # <<>>)
    BY DEF TypeInv, ThreadsAtWork
  <2> QED
    BY <2>1, <2>2, <2>3, <2>4, <2>5, <2>6 DEF TypeOK
<1>2. ASSUME TypeInv, PlacesInv, NEW t \in Tasks[plan]
      PROVE  Cardinality({i \in DOMAIN queue : queue[i] = t}) + Cardinality({t} \cap to_be_rescheduled_tasks)
               + Cardinality({x \in Threads : task[x] = t}) <= 1
  <2> USE <1>2
  <2> DEFINE Q == {i \in DOMAIN queue : queue[i] = t}
             R == {t} \cap to_be_rescheduled_tasks
             X == {x \in Threads : task[x] = t}
  <2>1. t # NoTask
    BY TaskFacts DEF TypeInv, ChoiceTyped
  <2>2. /\ IsInjective(queue) /\ Range(queue) \cap to_be_rescheduled_tasks = {}
        /\ \A x \in Threads : task[x] \notin Range(queue) \cup to_be_rescheduled_tasks
        /\ \A x, y \in Threads : task[x] = task[y] /\ task[x] # NoTask => x = y
    BY DEF PlacesInv, OnePlace
  <2>3. /\ Q = {} \/ \E i : Q = {i}
        /\ R = {} \/ R = {t}
        /\ X = {} \/ \E x : X = {x}
    <3>1. Q = {} \/ \E i : Q = {i}
      BY <2>2 DEF IsInjective
    <3>2. X = {} \/ \E x : X = {x}
      <4>1. \A x, y \in X : x = y
        BY <2>1, <2>2
      <4> QED
        BY <4>1
    <3> QED
      BY <3>1, <3>2
  <2>4. /\ Q # {} => t \in Range(queue)
        /\ R # {} => t \in to_be_rescheduled_tasks
        /\ X # {} => \E x \in Threads : task[x] = t
    BY DEF Range
  <2>5. (Q = {} /\ R = {}) \/ (Q = {} /\ X = {}) \/ (R = {} /\ X = {})
    BY <2>2, <2>4
  <2> HIDE DEF Q, R, X
  <2>6. /\ Cardinality(Q) = 0 \/ Cardinality(Q) = 1
        /\ Cardinality(R) = 0 \/ Cardinality(R) = 1
        /\ Cardinality(X) = 0 \/ Cardinality(X) = 1
        /\ Q = {} => Cardinality(Q) = 0
        /\ R = {} => Cardinality(R) = 0
        /\ X = {} => Cardinality(X) = 0
    BY <2>3, FS_EmptySet, FS_Singleton
  <2>7. Cardinality(Q) + Cardinality(R) + Cardinality(X) <= 1
    BY <2>5, <2>6
  <2> QED
    BY <2>7 DEF Q, R, X
<1>3. TypeInv /\ PlacesInv /\ EventsInv /\ ResultInv => TaskInOnePlace
  BY <1>1, <1>2 DEF TaskInOnePlace
<1> QED
  BY <1>3, ResultInvariance, PTL
==============================================================================
