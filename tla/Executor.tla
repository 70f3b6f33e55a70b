------------------------------ MODULE Executor ------------------------------
(***************************************************************************)
(* The execution of one query: src/src/parallel (Executor, Event, the       *)
(* pipeline events, ExecutorTask, InterruptState, TaskScheduler) with the   *)
(* client that drives it (PendingQueryResult, StreamQueryResult and         *)
(* SimpleBufferedData in src/src/main).                                     *)
(*                                                                         *)
(* A plan is a set of pipelines grouped in meta pipelines.  Each pipeline   *)
(* becomes a few events with dependencies; an event that has all of them    *)
(* puts its tasks in the queue of the scheduler, where workers and the      *)
(* client take them.  A task may block: whoever unblocks it calls back,     *)
(* possibly before the task has been put aside.  After an error, an         *)
(* interrupt or a close the client drains the tasks and destroys the rest.  *)
(***************************************************************************)
EXTENDS Naturals, Sequences, FiniteSets, Functions, SequencesExt

CONSTANTS
    Workers,      \* background threads of the TaskScheduler
    Client,       \* the thread of the connection
    NoTask,       \* an empty shared_ptr<Task>
    Plans,        \* Plans[name]: plans that may be executed
    Scenarios,    \* sets of behaviours that may happen together
    BufferSize,   \* chunks that the buffer of a streaming result holds
    MaxBlocks,    \* bound: how often tasks block on something asynchronous
    MaxFailures   \* bound: how often something fails

\* "block": a task may block on something asynchronous; "fail": a task may throw;
\* "schedule_fail": so may Pipeline::Schedule; "interrupt": ClientContext::Interrupt;
\* "dequeue_fail": a worker may fail to take a task although there is one; "close": the
\* client may give up the query.
AllBehaviours == {"block", "fail", "schedule_fail", "dequeue_fail", "interrupt", "close"}

Threads == Workers \cup {Client}

ASSUME ConstantsAssumption ==
    /\ IsFiniteSet(Workers) /\ Client \notin Workers
    /\ BufferSize \in Nat \ {0} /\ MaxBlocks \in Nat /\ MaxFailures \in Nat
    /\ Scenarios \subseteq SUBSET AllBehaviours

-----------------------------------------------------------------------------
(* A plan: meta[p] is the meta pipeline of pipeline p, base[m] the base      *)
(* pipeline of m; own_finish are the pipelines with a finish event of their  *)
(* own, group[p] is the leader of the finish group of p; dependencies[p] are *)
(* pipelines that must be complete before p, intra_dependencies[p] ones      *)
(* whose event must be finished; join_builds are children of one meta        *)
(* pipeline; tasks[p] is the number of tasks of p; each task of pipeline     *)
(* collector sinks `chunks' chunks into the result, which may be streaming;  *)
(* Finalize of a pipeline in inserts inserts an event.                       *)

Pipelines(pl) == DOMAIN pl.meta
MetaPipelines(pl) == Range(pl.meta)
BaseOf(pl, p) == pl.base[pl.meta[p]]
IsBase(pl, p) == BaseOf(pl, p) = p
InGroup(pl, p) == p \in DOMAIN pl.group

\* The pipeline whose prepare-finish and finish events p leads to.
FinishOf(pl, p) ==
    IF InGroup(pl, p) THEN pl.group[p]
    ELSE IF p \in pl.own_finish THEN p
    ELSE BaseOf(pl, p)

\* What MetaPipeline guarantees: its base pipeline has finish events of its own, and so
\* has the leader of a finish group, a pipeline of the same meta pipeline.  Finalize is
\* only called by a finish event.
IsPlan(pl) ==
    LET ps == Pipelines(pl)
    IN  /\ IsFiniteSet(ps)
        /\ pl.base \in [MetaPipelines(pl) -> ps]
        /\ \A m \in MetaPipelines(pl) : pl.meta[pl.base[m]] = m /\ ~InGroup(pl, pl.base[m])
        /\ pl.own_finish \subseteq ps /\ DOMAIN pl.group \subseteq ps
        /\ \A p \in DOMAIN pl.group : /\ pl.group[p] \in pl.own_finish \ DOMAIN pl.group
                                      /\ pl.meta[pl.group[p]] = pl.meta[p]
        /\ {pl.dependencies, pl.intra_dependencies} \subseteq [ps -> SUBSET ps]
        /\ pl.join_builds \subseteq MetaPipelines(pl)
        /\ pl.tasks \in [ps -> Nat] /\ pl.collector \in ps
        /\ pl.inserts \subseteq {p \in ps : FinishOf(pl, p) = p}
        /\ pl.chunks \in Nat /\ pl.streaming \in BOOLEAN

ASSUME PlansAssumption == \A n \in DOMAIN Plans : IsPlan(Plans[n])

\* SchedulePipeline and ScheduleEventsInternal: pairs of an event and one that it
\* depends on.
StackDependencies(pl, p) ==
    LET b == BaseOf(pl, p)
        f == FinishOf(pl, p)
    IN  {<<<<"prepare_finish", f>>, <<"event", p>>>>}
          \cup (IF IsBase(pl, p) \/ f = b
                THEN {<<<<"event", p>>, <<"initialize", b>>>>}
                ELSE {<<<<"event", p>>, <<"finish", b>>>>})
          \cup (IF f = p
                THEN {<<<<"finish", p>>, <<"prepare_finish", p>>>>,
                      <<<<"complete", b>>, <<"finish", p>>>>}
                ELSE {})

JoinBuildDependencies(pl) ==
    UNION {{<<<<"prepare_finish", pl.base[c[1]]>>, <<"event", pl.base[c[2]]>>>>,
            <<<<"finish", pl.base[c[1]]>>, <<"prepare_finish", pl.base[c[2]]>>>>} :
           c \in {d \in pl.join_builds \X pl.join_builds : d[1] # d[2]}}

\* Functions of the plan, so that TLC computes them once.
Dependencies == [n \in DOMAIN Plans |->
    LET pl == Plans[n]
    IN  JoinBuildDependencies(pl)
          \cup UNION {StackDependencies(pl, p)
                        \cup {<<<<"event", p>>, <<"complete", BaseOf(pl, d)>>>> : d \in pl.dependencies[p]}
                        \cup {<<<<"event", p>>, <<"event", d>>>> : d \in pl.intra_dependencies[p]}
                      : p \in Pipelines(pl)}]

ScheduledEvents == [n \in DOMAIN Plans |-> UNION {{d[1], d[2]} : d \in Dependencies[n]}]
Inserted(p) == <<"inserted", p>>
Events == [n \in DOMAIN Plans |-> ScheduledEvents[n] \cup {Inserted(p) : p \in Plans[n].inserts}]

\* What Event::AddDependency makes of them.
ParentsOf == [n \in DOMAIN Plans |->
    [e \in ScheduledEvents[n] |-> {d[1] : d \in {c \in Dependencies[n] : c[2] = e}}]]
DependenciesOf == [n \in DOMAIN Plans |->
    [e \in ScheduledEvents[n] |-> Cardinality({d \in Dependencies[n] : d[1] = e})]]

NumTasks(pl, e) ==
    CASE e[1] = "event" -> pl.tasks[e[2]]
      [] e[1] = "complete" -> 0
      [] OTHER -> 1

TasksOf(pl, e) == [i \in 1 .. NumTasks(pl, e) |-> <<e, i>>]
Tasks == [n \in DOMAIN Plans |-> UNION {Range(TasksOf(Plans[n], e)) : e \in Events[n]}]

ASSUME NoTaskAssumption == \A n \in DOMAIN Plans : NoTask \notin Tasks[n]

\* The tasks whose sink is the buffer of a streaming result.
CollectorTasks == [n \in DOMAIN Plans |->
    {t \in Tasks[n] : t[1] = <<"event", Plans[n].collector>> /\ Plans[n].streaming}]

-----------------------------------------------------------------------------
VARIABLES
    plan, behaviours,      \* the name of the plan and what may happen, chosen once
    \* Event
    inserted,              \* the pipelines whose Finalize has inserted its event
    finished_dependencies, finished_tasks,
    finished,              \* finished[e]: how often Finish was called
    \* TaskScheduler
    queue, semaphore,
    \* Executor
    events,                \* events that the executor holds
    to_be_rescheduled_tasks, completed_pipelines, cancelled,
    error,                 \* error_manager.HasError()
    execution_result,      \* "not_ready", "finished", "error" or "interrupted"
    interrupted,           \* ClientContext::interrupted
    \* tasks
    callback,              \* callback[t]: "none", "registered", or "running" with the task locked
    chunks,                \* chunks[t]: chunks that the task has not sunk yet
    \* SimpleBufferedData
    buffered, blocked_sinks, delivered,
    \* threads
    pc, task,              \* task[x]: the task that x executes, or NoTask
    finishing,             \* finishing[x]: calls of Event::Finish under way, innermost first
    fetching,              \* the client has its StreamQueryResult
    blocks, failures       \* bounds: blocks and failures that may still happen

Plan == Plans[plan]

choice == <<plan, behaviours>>
event_state == <<inserted, finished_dependencies, finished_tasks, finished, events>>
scheduler == <<queue, semaphore>>
tasks_state == <<to_be_rescheduled_tasks, callback, chunks>>
query_state == <<completed_pipelines, cancelled, error, interrupted>>
buffer == <<buffered, blocked_sinks, delivered>>
outcome == <<execution_result, fetching>>
bounds == <<blocks, failures>>
vars == <<choice, event_state, scheduler, tasks_state, query_state, buffer, pc, task, finishing,
          outcome, bounds>>

\* Executor::Initialize: ScheduleEventsInternal schedules the events that depend on
\* nothing.
Init ==
    /\ plan \in DOMAIN Plans /\ behaviours \in Scenarios
    /\ LET ready == {e \in ScheduledEvents[plan] : DependenciesOf[plan][e] = 0}
       IN  queue = SetToSeq(UNION {Range(TasksOf(Plan, e)) : e \in ready})
    /\ semaphore = Len(queue)
    /\ inserted = {}
    /\ finished_dependencies = [e \in Events[plan] |-> 0]
    /\ finished_tasks = [e \in Events[plan] |-> 0]
    /\ finished = [e \in Events[plan] |-> 0]
    /\ events = ScheduledEvents[plan]
    /\ to_be_rescheduled_tasks = {} /\ completed_pipelines = 0 /\ cancelled = FALSE
    /\ error = FALSE /\ execution_result = "not_ready" /\ interrupted = FALSE
    /\ callback = [t \in Tasks[plan] |-> "none"]
    /\ chunks = [t \in Tasks[plan] |-> IF t \in CollectorTasks[plan] THEN Plan.chunks ELSE 0]
    /\ buffered = 0 /\ blocked_sinks = <<>> /\ delivered = 0
    /\ pc = [x \in Threads |-> IF x = Client THEN "execute" ELSE "wait"]
    /\ task = [x \in Threads |-> NoTask]
    /\ finishing = [x \in Threads |-> <<>>]
    /\ fetching = FALSE
    /\ blocks = MaxBlocks /\ failures = MaxFailures

-----------------------------------------------------------------------------
(* Tasks: references and the queue                                          *)

\* The tasks that somebody has a shared_ptr to.  The constructor of a task counts it
\* in executor_tasks and the destructor uncounts it.
Alive ==
    Range(queue) \cup to_be_rescheduled_tasks \cup (Range(task) \ {NoTask})
      \cup {t \in DOMAIN callback : callback[t] = "running"}

\* ConcurrentQueue::Enqueue and EnqueueBulk.
Enqueue(ts) ==
    /\ queue' = queue \o ts
    /\ semaphore' = semaphore + Len(ts)

IsPipelineTask(t) == t[1][1] = "event"

\* A thread calls Execute on the task that it has.
Execute(x, t) ==
    /\ task' = [task EXCEPT ![x] = t]
    /\ pc' = [pc EXCEPT ![x] = IF IsPipelineTask(t) THEN "run" ELSE "work"]

\* Where a thread goes on when Execute has returned.  Executor::ExecuteTask checks for
\* errors after a task; WorkOnTasks does not.
Loop == IF fetching THEN "fetched" ELSE "execute"
AfterTask(x, err) ==
    IF x \in Workers THEN "wait"
    ELSE IF cancelled THEN "drain"
    ELSE IF err THEN "failed" ELSE Loop

GoTo(x, l) == pc' = [pc EXCEPT ![x] = l]
Release(x, err) ==
    /\ task' = [task EXCEPT ![x] = NoTask]
    /\ GoTo(x, AfterTask(x, err))

-----------------------------------------------------------------------------
(* Execution of a task                                                      *)

\* PipelineExecutor::Execute: a pipeline task tests for an interrupt before each chunk,
\* the other tasks never do.
PassInterruptTest(x) ==
    /\ pc[x] = "run" /\ ~interrupted
    /\ GoTo(x, "work")
    /\ UNCHANGED <<choice, event_state, scheduler, tasks_state, query_state, buffer, task, finishing,
                   outcome, bounds>>

\* An exception ends in PushError.  The client keeps the task until CancelTasks.
TaskError(x) ==
    /\ \/ pc[x] \in {"run", "work"} /\ IsPipelineTask(task[x]) /\ interrupted /\ UNCHANGED failures
       \/ pc[x] = "work" /\ "fail" \in behaviours /\ failures > 0 /\ failures' = failures - 1
    /\ error' = TRUE /\ interrupted' = TRUE
    /\ IF x = Client /\ ~cancelled
         THEN UNCHANGED task /\ GoTo(x, "failed")
         ELSE Release(x, TRUE)
    /\ UNCHANGED <<choice, event_state, scheduler, tasks_state, completed_pipelines, cancelled, buffer,
                   finishing, outcome, blocks>>

\* A source, an operator or Finalize blocks, having passed on its InterruptState.
TaskBlocks(x) ==
    LET t == task[x]
    IN  /\ pc[x] = "work" /\ t[1][1] \in {"event", "finish"}
        /\ "block" \in behaviours /\ blocks > 0
        /\ callback[t] = "none"
        /\ blocks' = blocks - 1
        /\ callback' = [callback EXCEPT ![t] = "registered"]
        /\ GoTo(x, "deschedule")
        /\ UNCHANGED <<choice, event_state, scheduler, to_be_rescheduled_tasks, chunks, query_state,
                       buffer, task, finishing, outcome, failures>>

\* glock of BufferedCollectorGlobalState, held from the test to the block, and glock of
\* SimpleBufferedData, held while the client unblocks sinks.
SinkLocked(x) == \E y \in Threads \ {x} : pc[y] = "block_sink"
BufferLocked(x) == x # Client /\ pc[Client] \in {"unblocking", "unblocking_wait"}

BufferIsFull == buffered >= BufferSize

\* PhysicalBufferedCollector::Sink
Sink(x) ==
    LET t == task[x]
    IN  /\ pc[x] = "work" /\ chunks[t] > 0 /\ ~SinkLocked(x)
        /\ IF BufferIsFull
             THEN GoTo(x, "block_sink") /\ UNCHANGED <<chunks, buffered>>
             ELSE /\ ~BufferLocked(x)
                  /\ chunks' = [chunks EXCEPT ![t] = @ - 1]
                  /\ buffered' = buffered + 1
                  /\ GoTo(x, IF x = Client /\ ~cancelled THEN AfterTask(x, error) ELSE "run")
        /\ UNCHANGED <<choice, event_state, scheduler, to_be_rescheduled_tasks, callback, query_state,
                       blocked_sinks, delivered, task, finishing, outcome, bounds>>

BlockSink(x) ==
    /\ pc[x] = "block_sink" /\ ~BufferLocked(x)
    /\ blocked_sinks' = Append(blocked_sinks, task[x])
    /\ GoTo(x, "deschedule")
    /\ UNCHANGED <<choice, event_state, scheduler, tasks_state, query_state, buffered, delivered, task,
                   finishing, outcome, bounds>>

AddToBeRescheduled(t) ==
    to_be_rescheduled_tasks' = IF cancelled THEN to_be_rescheduled_tasks
                                            ELSE to_be_rescheduled_tasks \cup {t}

Deschedule(x) ==
    /\ pc[x] = "deschedule"
    /\ AddToBeRescheduled(task[x])
    /\ Release(x, error)
    /\ UNCHANGED <<choice, event_state, scheduler, callback, chunks, query_state, buffer, finishing,
                   outcome, bounds>>

\* InsertEvent, called by Finalize: the new event takes over the parents.  An event
\* that is not added because the query was cancelled is destroyed at once.
Inserts(e) == e[1] = "finish" /\ e[2] \in Plan.inserts
InsertEvent(e) ==
    IF Inserts(e)
    THEN /\ inserted' = inserted \cup {e[2]}
         /\ events' = IF cancelled THEN events ELSE events \cup {Inserted(e[2])}
    ELSE UNCHANGED <<inserted, events>>

Parents(e) ==
    CASE e[1] = "inserted" -> ParentsOf[plan][<<"finish", e[2]>>]
      [] Inserts(e) -> {Inserted(e[2])}
      [] OTHER -> ParentsOf[plan][e]

total_dependencies(e) == IF e[1] = "inserted" THEN 1 ELSE DependenciesOf[plan][e]

IsLastTask(e) == finished_tasks[e] + 1 = NumTasks(Plan, e)

\* A call of Event::Finish that has yet to complete a dependency of these parents.
Frame(e, ps) == [event |-> e, parents |-> ps]

\* The task has done its work and calls Event::FinishTask.
FinishTask(x) ==
    LET t == task[x]
        e == t[1]
    IN  /\ pc[x] = "work" /\ chunks[t] = 0
        /\ InsertEvent(e)
        /\ finished_tasks' = [finished_tasks EXCEPT ![e] = @ + 1]
        /\ IF IsLastTask(e)
             THEN /\ finished' = [finished EXCEPT ![e] = @ + 1]
                  /\ finishing' = [finishing EXCEPT ![x] = <<Frame(e, Parents(e))>>]
                  /\ GoTo(x, "finish")
                  /\ UNCHANGED task
             ELSE /\ Release(x, error)
                  /\ UNCHANGED <<finished, finishing>>
        /\ UNCHANGED <<choice, finished_dependencies, scheduler, tasks_state, query_state, buffer, outcome,
                       bounds>>

-----------------------------------------------------------------------------
(* Event::Finish and the events that it schedules                           *)

\* The innermost call has notified all parents: FinalizeFinish, and Finish returns.
FinishReturns(x) ==
    LET f == Head(finishing[x])
        outer == Tail(finishing[x])
    IN  /\ pc[x] = "finish" /\ f.parents = {}
        /\ completed_pipelines' = completed_pipelines + IF f.event[1] = "complete" THEN 1 ELSE 0
        /\ finishing' = [finishing EXCEPT ![x] = outer]
        /\ IF outer = <<>> THEN Release(x, error) ELSE UNCHANGED <<task, pc>>
        /\ UNCHANGED <<choice, event_state, scheduler, tasks_state, cancelled, error, interrupted, buffer,
                       outcome, bounds>>

\* Mutant: any finished dependency schedules the event.
HasAllDependenciesOne(e) == finished_dependencies'[e] = 1

HasAllDependencies(e) == finished_dependencies'[e] = total_dependencies(e)

\* CompleteDependency of parent p schedules its tasks.
ScheduleTasks(x, p, fs) ==
    /\ NumTasks(Plan, p) > 0
    /\ Enqueue(TasksOf(Plan, p))
    /\ finishing' = [finishing EXCEPT ![x] = fs]
    /\ UNCHANGED <<finished, error, interrupted, failures>>

\* Schedule made no tasks, so the event is finished: it has none, or Pipeline::Schedule threw.
FinishWithoutTasks(x, p, fs) ==
    /\ \/ NumTasks(Plan, p) = 0 /\ UNCHANGED <<error, interrupted, failures>>
       \/ /\ p[1] = "event" /\ "schedule_fail" \in behaviours /\ failures > 0
          /\ failures' = failures - 1
          /\ error' = TRUE /\ interrupted' = TRUE
    /\ finished' = [finished EXCEPT ![p] = @ + 1]
    /\ finishing' = [finishing EXCEPT ![x] = <<Frame(p, Parents(p))>> \o fs]
    /\ UNCHANGED scheduler

\* The loop over the parents, one parent at a time.
CompleteDependency(x) ==
    /\ pc[x] = "finish"
    /\ \E p \in Head(finishing[x]).parents :
         LET f == Head(finishing[x])
             fs == <<Frame(f.event, f.parents \ {p})>> \o Tail(finishing[x])
         IN  IF p \notin events
             THEN /\ finishing' = [finishing EXCEPT ![x] = fs]
                  /\ UNCHANGED <<finished, finished_dependencies, scheduler, error, interrupted, failures>>
             ELSE /\ finished_dependencies' = [finished_dependencies EXCEPT ![p] = @ + 1]
                  /\ IF HasAllDependencies(p)
                       THEN ScheduleTasks(x, p, fs) \/ FinishWithoutTasks(x, p, fs)
                       ELSE /\ finishing' = [finishing EXCEPT ![x] = fs]
                            /\ UNCHANGED <<finished, scheduler, error, interrupted, failures>>
    /\ UNCHANGED <<choice, inserted, finished_tasks, events, tasks_state,
                   completed_pipelines, cancelled, buffer, pc, task, outcome, blocks>>

TaskStep(x) ==
    \/ PassInterruptTest(x) \/ TaskError(x) \/ TaskBlocks(x) \/ Sink(x) \/ BlockSink(x)
    \/ Deschedule(x) \/ FinishTask(x) \/ FinishReturns(x) \/ CompleteDependency(x)

-----------------------------------------------------------------------------
(* Callbacks                                                                *)

\* Whoever unblocks the task locks its weak_ptr.
Callback(t) ==
    /\ callback[t] = "registered"
    /\ callback' = [callback EXCEPT ![t] = IF t \in Alive THEN "running" ELSE "none"]
    /\ UNCHANGED <<choice, event_state, scheduler, to_be_rescheduled_tasks, chunks, query_state, buffer,
                   pc, task, finishing, outcome, bounds>>

\* Mutant: a task that is not blocked yet is left alone.
RescheduleOnce(t) ==
    IF ~cancelled /\ t \in to_be_rescheduled_tasks
    THEN to_be_rescheduled_tasks' = to_be_rescheduled_tasks \ {t} /\ Enqueue(<<t>>)
    ELSE UNCHANGED <<to_be_rescheduled_tasks, scheduler>>

\* Mutant: a task of a cancelled query is waited for.
RescheduleUncancelled(t) ==
    /\ t \in to_be_rescheduled_tasks
    /\ to_be_rescheduled_tasks' = to_be_rescheduled_tasks \ {t} /\ Enqueue(<<t>>)

\* Mutant: the task stays among the blocked ones.
RescheduleKeepsBlocked(t) ==
    IF cancelled
    THEN UNCHANGED <<to_be_rescheduled_tasks, scheduler>>
    ELSE t \in to_be_rescheduled_tasks /\ Enqueue(<<t>>) /\ UNCHANGED to_be_rescheduled_tasks

\* RescheduleTask spins until the task has been put aside or the query is cancelled.
RescheduleTask(t) ==
    IF cancelled
    THEN UNCHANGED <<to_be_rescheduled_tasks, scheduler>>
    ELSE /\ t \in to_be_rescheduled_tasks
         /\ to_be_rescheduled_tasks' = to_be_rescheduled_tasks \ {t}
         /\ Enqueue(<<t>>)

CallbackReturns(t) ==
    /\ callback[t] = "running"
    /\ RescheduleTask(t)
    /\ callback' = [callback EXCEPT ![t] = "none"]
    /\ UNCHANGED <<choice, event_state, chunks, query_state, buffer, pc, task, finishing, outcome, bounds>>

Callbacks == \E t \in DOMAIN callback : Callback(t) \/ CallbackReturns(t)

-----------------------------------------------------------------------------
(* Workers: TaskScheduler::ExecuteForever                                   *)

SemaphoreWait(x) ==
    /\ pc[x] = "wait" /\ semaphore > 0
    /\ semaphore' = semaphore - 1
    /\ GoTo(x, "awake")
    /\ UNCHANGED <<choice, event_state, queue, tasks_state, query_state, buffer, task, finishing, outcome,
                   bounds>>

Dequeue(x) ==
    /\ pc[x] = "awake" /\ queue # <<>>
    /\ queue' = Tail(queue)
    /\ Execute(x, Head(queue))
    /\ UNCHANGED <<choice, event_state, semaphore, tasks_state, query_state, buffer, finishing, outcome,
                   bounds>>

\* Mutant: the thread goes back to sleep.
SignalAgainNever(x) == UNCHANGED semaphore

\* Failed to dequeue but there are tasks.
SignalAgain(x) == semaphore' = IF queue # <<>> THEN semaphore + 1 ELSE semaphore

DequeueFails(x) ==
    /\ pc[x] = "awake"
    /\ \/ queue = <<>> /\ UNCHANGED failures
       \/ queue # <<>> /\ "dequeue_fail" \in behaviours /\ failures > 0 /\ failures' = failures - 1
    /\ SignalAgain(x)
    /\ GoTo(x, "wait")
    /\ UNCHANGED <<choice, event_state, queue, tasks_state, query_state, buffer, task, finishing, outcome,
                   blocks>>

WorkerStep(x) == SemaphoreWait(x) \/ Dequeue(x) \/ DequeueFails(x) \/ TaskStep(x)

-----------------------------------------------------------------------------
(* The client: PendingQueryResult::ExecuteInternal until the result is      *)
(* ready, then one ReplenishBuffer and Scan for each chunk of a stream      *)

\* Mutant: one pipeline may be missing.
PipelinesCompleteButOne == completed_pipelines + 1 >= Cardinality(MetaPipelines(Plan))

PipelinesComplete == completed_pipelines >= Cardinality(MetaPipelines(Plan))

\* SimpleBufferedData::Scan
Scan == buffered' = buffered - 1 /\ delivered' = delivered + 1

\* Executor::ExecuteTask when all pipelines are complete.  The result of a stream is
\* then scanned until the buffer is empty.
ExecutionFinished ==
    /\ pc[Client] = "execute" /\ PipelinesComplete
    /\ IF error
         THEN GoTo(Client, "failed") /\ UNCHANGED <<outcome, buffered, delivered>>
         ELSE /\ execution_result' = "finished"
              /\ fetching' = Plan.streaming
              /\ IF fetching /\ buffered > 0 THEN Scan ELSE UNCHANGED <<buffered, delivered>>
              /\ GoTo(Client, IF Plan.streaming /\ (fetching => buffered > 0) THEN "fetch" ELSE "cancel")
    /\ UNCHANGED <<choice, event_state, scheduler, tasks_state, query_state, blocked_sinks, task, finishing,
                   bounds>>

\* ExecuteTask with the task that the client has kept or the next one of the queue.
ExecuteTask ==
    /\ pc[Client] = "execute" /\ ~PipelinesComplete
    /\ IF task[Client] # NoTask
         THEN Execute(Client, task[Client]) /\ UNCHANGED queue
         ELSE IF queue # <<>>
         THEN Execute(Client, Head(queue)) /\ queue' = Tail(queue)
         ELSE GoTo(Client, "no_task") /\ UNCHANGED <<queue, task>>
    /\ UNCHANGED <<choice, event_state, semaphore, tasks_state, query_state, buffer, finishing, outcome,
                   bounds>>

ResultCollectorIsBlocked ==
    /\ Plan.streaming
    /\ completed_pipelines + 1 = Cardinality(MetaPipelines(Plan))
    /\ to_be_rescheduled_tasks \cap Range(blocked_sinks) # {}

\* ExecuteTask without a task: an error, NO_TASKS_AVAILABLE, RESULT_READY or BLOCKED.  The
\* client waits for a blocked task for at most 20 ms, and then goes on as if it had not.
NoTaskAvailable ==
    /\ pc[Client] = "no_task"
    /\ fetching' = (fetching \/ (~error /\ ResultCollectorIsBlocked))
    /\ GoTo(Client,
            CASE error -> "failed"
              [] ~error /\ to_be_rescheduled_tasks = {} -> Loop
              [] ~error /\ to_be_rescheduled_tasks # {} /\ fetching ->
                   IF BufferIsFull THEN "fetched" ELSE "unblock_wait"
              [] ~error /\ to_be_rescheduled_tasks # {} /\ ~fetching ->
                   IF ResultCollectorIsBlocked THEN "fetch" ELSE "execute")
    /\ UNCHANGED <<choice, event_state, scheduler, tasks_state, query_state, buffer, task, finishing,
                   execution_result, bounds>>

\* SimpleBufferedData::ExecuteTaskInternal
Fetch ==
    /\ pc[Client] = "fetch"
    /\ IF interrupted
         THEN /\ execution_result' = "interrupted"
              /\ GoTo(Client, "cancel")
              /\ UNCHANGED <<buffered, delivered>>
         ELSE /\ IF BufferIsFull
                   THEN Scan /\ UNCHANGED pc
                   ELSE GoTo(Client, "unblock") /\ UNCHANGED <<buffered, delivered>>
              /\ UNCHANGED execution_result
    /\ UNCHANGED <<choice, event_state, scheduler, tasks_state, query_state, blocked_sinks, task, finishing,
                   fetching, bounds>>

\* A task was executed: if the buffer is full now a chunk is ready.
Fetched ==
    /\ pc[Client] = "fetched"
    /\ IF BufferIsFull THEN Scan ELSE UNCHANGED <<buffered, delivered>>
    /\ GoTo(Client, "fetch")
    /\ UNCHANGED <<choice, event_state, scheduler, tasks_state, query_state, blocked_sinks, task, finishing,
                   outcome, bounds>>

\* SimpleBufferedData::UnblockSinks, before a task is executed and before the client
\* waits.  The buffer is locked while there are sinks to unblock, one after the other;
\* their tasks exist, for only the client gives up tasks that are blocked.
UnblockSinks ==
    /\ \E l \in {<<"unblock", "unblocking", "execute">>, <<"unblock_wait", "unblocking_wait", "fetch">>} :
         /\ pc[Client] = l[1]
         /\ GoTo(Client, IF blocked_sinks = <<>> \/ BufferIsFull THEN l[3] ELSE l[2])
    /\ UNCHANGED <<choice, event_state, scheduler, tasks_state, query_state, buffer, task, finishing,
                   outcome, bounds>>

UnblockSink ==
    /\ pc[Client] \in {"unblocking", "unblocking_wait"}
    /\ RescheduleTask(Head(blocked_sinks))
    /\ blocked_sinks' = Tail(blocked_sinks)
    /\ GoTo(Client, IF Len(blocked_sinks) > 1 THEN pc[Client]
                    ELSE IF pc[Client] = "unblocking" THEN "execute" ELSE "fetch")
    /\ UNCHANGED <<choice, event_state, callback, chunks, query_state, buffered, delivered, task, finishing,
                   outcome, bounds>>

\* The pending or streaming result is destroyed, or another query started.
CloseResult ==
    /\ "close" \in behaviours
    /\ pc[Client] = Loop \/ pc[Client] = "fetch"
    /\ GoTo(Client, "cancel")
    /\ UNCHANGED <<choice, event_state, scheduler, tasks_state, query_state, buffer, task, finishing,
                   outcome, bounds>>

CancelTasks ==
    /\ pc[Client] \in {"failed", "cancel"}
    /\ execution_result' = IF pc[Client] = "failed" THEN "error" ELSE execution_result
    /\ task' = [task EXCEPT ![Client] = NoTask]
    /\ cancelled' = TRUE
    /\ to_be_rescheduled_tasks' = {}
    /\ GoTo(Client, "drain")
    /\ UNCHANGED <<choice, event_state, scheduler, callback, chunks, completed_pipelines, error, interrupted,
                   buffer, finishing, fetching, bounds>>

\* WorkOnTasks
WorkOnTasks ==
    /\ pc[Client] = "drain" /\ queue # <<>>
    /\ queue' = Tail(queue)
    /\ Execute(Client, Head(queue))
    /\ UNCHANGED <<choice, event_state, semaphore, tasks_state, query_state, buffer, finishing, outcome,
                   bounds>>

\* Mutant: the tasks that other threads still execute are forgotten.
NoTasksLeftInQueue == queue = <<>>

NoTasksLeft == Alive = {}

\* No task is left: pipelines, events and states are destroyed.
DestroyEvents ==
    /\ pc[Client] = "drain" /\ NoTasksLeft
    /\ events' = {}
    /\ GoTo(Client, "closed")
    /\ UNCHANGED <<choice, inserted, finished_dependencies, finished_tasks, finished,
                   scheduler, tasks_state, query_state, buffer, task, finishing, outcome, bounds>>

\* ClientContext::Interrupt, called by any thread.
Interrupt ==
    /\ "interrupt" \in behaviours /\ ~interrupted /\ pc[Client] # "closed"
    /\ interrupted' = TRUE
    /\ UNCHANGED <<choice, event_state, scheduler, tasks_state, completed_pipelines, cancelled, error,
                   buffer, pc, task, finishing, outcome, bounds>>

ClientStep ==
    \/ ExecutionFinished \/ ExecuteTask \/ NoTaskAvailable \/ Fetch \/ Fetched \/ UnblockSinks \/ UnblockSink
    \/ CancelTasks \/ WorkOnTasks \/ DestroyEvents \/ TaskStep(Client)

Next ==
    \/ \E x \in Workers : WorkerStep(x)
    \/ ClientStep \/ CloseResult \/ Interrupt
    \/ Callbacks

Spec == Init /\ [][Next]_vars

\* Threads run, the client goes on until it has the result, and what a task waits for
\* happens.
FairSpec ==
    /\ Spec
    /\ \A x \in Workers : WF_vars(WorkerStep(x))
    /\ WF_vars(ClientStep)
    /\ WF_vars(Callbacks)

-----------------------------------------------------------------------------
(* Properties                                                               *)

TypeOK ==
    LET es == Events[plan]
        ts == Tasks[plan]
    IN  /\ plan \in DOMAIN Plans /\ behaviours \in Scenarios
        /\ inserted \subseteq Plan.inserts
        /\ \A e \in es : finished_dependencies[e] \in 0 .. total_dependencies(e)
        /\ \A e \in es : finished_tasks[e] \in 0 .. NumTasks(Plan, e)
        /\ events \subseteq es
        /\ Range(queue) \subseteq ts /\ semaphore \in Nat
        /\ to_be_rescheduled_tasks \subseteq ts
        /\ completed_pipelines \in 0 .. Cardinality(MetaPipelines(Plan))
        /\ {cancelled, error, interrupted, fetching} \subseteq BOOLEAN
        /\ execution_result \in {"not_ready", "finished", "error", "interrupted"}
        /\ callback \in [ts -> {"none", "registered", "running"}]
        /\ chunks \in [ts -> 0 .. Plan.chunks]
        /\ buffered \in 0 .. BufferSize /\ Range(blocked_sinks) \subseteq ts /\ delivered \in Nat
        /\ task \in [Threads -> ts \cup {NoTask}]
        /\ \A x \in Threads : (pc[x] = "finish") <=> (finishing[x] # <<>>)
        /\ blocks \in 0 .. MaxBlocks /\ failures \in 0 .. MaxFailures

\* What Event, InsertEvent and the counters promise together: while a task of an event
\* exists, everything the plan makes the event depend on has finished, an event that
\* was inserted in between too, and no event finishes twice or while it has other tasks.
EventOrder ==
    /\ \A t \in Alive : \A d \in Dependencies[plan] :
         d[1] = t[1] =>
           /\ finished[d[2]] = 1
           /\ d[2][1] = "finish" /\ d[2][2] \in Plan.inserts => finished[Inserted(d[2][2])] = 1
    /\ \A e \in Events[plan] : finished[e] <= 1
    /\ \A t \in Alive : finished[t[1]] = 1 => \E x \in Threads : task[x] = t /\ finishing[x] # <<>>

\* Types hold.  Executor and TaskScheduler never have a task twice: it is in the queue once, or
\* blocked, or executed by one thread.
TaskInOnePlace ==
    /\ TypeOK
    /\ \A t \in Tasks[plan] :
      Cardinality({i \in DOMAIN queue : queue[i] = t}) + Cardinality({t} \cap to_be_rescheduled_tasks)
        + Cardinality({x \in Threads : task[x] = t}) <= 1

\* ConcurrentQueue: a thread is awake or will be awakened for each task in the queue.
SignalPerTask ==
    Len(queue) <= semaphore + Cardinality({x \in Workers : pc[x] = "awake"})

\* RescheduleTask spins because a callback may come before Deschedule: no blocked task
\* of a query that goes on is left without somebody who will wake it.
BlockedWillBeWoken ==
    ~cancelled => \A t \in to_be_rescheduled_tasks :
                    callback[t] # "none" \/ t \in Range(blocked_sinks)

\* ExecuteTask returns EXECUTION_FINISHED only for a query that is complete and free of
\* errors, and the client of a stream has got, or finds in the buffer, all chunks.
ResultComplete ==
    execution_result = "finished" =>
      /\ ~error
      /\ \A e \in Events[plan] : finished[e] = 1
      /\ Plan.streaming => delivered + buffered = Plan.chunks * Plan.tasks[Plan.collector]

\* CancelTasks destroys events and pipelines when "no tasks reference them": no callback
\* that comes later and no thread gets hold of a task again.
SafeTeardown ==
    pc[Client] = "closed" =>
      /\ Alive = {}
      /\ \A x \in Threads : finishing[x] = <<>>

\* The comment of ClientContext::ExecuteTaskInternal, "Interrupted by an exception caused
\* in a worker thread", and the code below it: the client gets the error of the worker.
\* It does not hold for streams: PushError sets interrupted, which Fetch tests first.
ErrorReported == error /\ pc[Client] = "closed" => execution_result # "interrupted"

\* Every query ends: it finishes, fails or is given up, whatever blocks, also a callback
\* that spins in RescheduleTask, and all its tasks are gone.
QueryEnds == <>[](pc[Client] = "closed")
=============================================================================
