--------------------------- MODULE ExecutorProofs ---------------------------
(***************************************************************************)
(* The tasks of a query: for any plan, any number of workers and any        *)
(* behaviour a task is in one place, a blocked task is woken, a thread is    *)
(* awakened for each task in the queue, and nothing is left when the query   *)
(* has been torn down.  ExecutorEventProofs builds on it.                    *)
(***************************************************************************)
EXTENDS Executor, FiniteSetTheorems, SequenceTheorems, TLAPS

\* The events that SchedulePipeline makes of a pipeline.
EventTypes == {"initialize", "event", "prepare_finish", "finish", "complete"}

\* Every event that is scheduled is of a pipeline of the plan.
LEMMA PlanEvents ==
    ASSUME NEW n \in DOMAIN Plans
    PROVE  /\ \A d \in Dependencies[n] : /\ d = <<d[1], d[2]>>
                                         /\ d[1] \in EventTypes \X Pipelines(Plans[n])
                                         /\ d[2] \in EventTypes \X Pipelines(Plans[n])
           /\ ScheduledEvents[n] \subseteq EventTypes \X Pipelines(Plans[n])
<1> DEFINE pl == Plans[n]
           ps == Pipelines(pl)
           E == EventTypes \X ps
<1>1. /\ IsPlan(pl)
      /\ \A p \in ps : pl.meta[p] \in MetaPipelines(pl)
  BY PlansAssumption DEF Pipelines, MetaPipelines, Range
<1>2. /\ pl.base \in [MetaPipelines(pl) -> ps]
      /\ \A p \in ps : BaseOf(pl, p) \in ps /\ FinishOf(pl, p) \in ps
      /\ pl.join_builds \subseteq MetaPipelines(pl)
      /\ pl.dependencies \in [ps -> SUBSET ps]
      /\ pl.intra_dependencies \in [ps -> SUBSET ps]
  BY <1>1 DEF IsPlan, BaseOf, FinishOf, InGroup
<1>3. \A t \in EventTypes, p \in ps : <<t, p>> \in E
  OBVIOUS
<1> HIDE DEF pl, ps, E
<1>4. JoinBuildDependencies(pl) \subseteq E \X E
  BY <1>2, <1>3 DEF JoinBuildDependencies, EventTypes
<1>5. ASSUME NEW p \in ps PROVE StackDependencies(pl, p) \subseteq E \X E
  BY <1>2, <1>3 DEF StackDependencies, EventTypes
<1>6. ASSUME NEW p \in ps, NEW d \in pl.dependencies[p]
      PROVE  <<<<"event", p>>, <<"complete", BaseOf(pl, d)>>>> \in E \X E
  BY <1>2, <1>3 DEF EventTypes
<1>7. ASSUME NEW p \in ps, NEW d \in pl.intra_dependencies[p]
      PROVE  <<<<"event", p>>, <<"event", d>>>> \in E \X E
  BY <1>2, <1>3 DEF EventTypes
<1>8. Dependencies[n] \subseteq E \X E
  BY <1>4, <1>5, <1>6, <1>7 DEF Dependencies, pl, ps
<1>9. ScheduledEvents[n] \subseteq E
  BY <1>8 DEF ScheduledEvents
<1> QED
  BY <1>8, <1>9 DEF E, ps, pl

\* What a task is.
LEMMA TaskFacts ==
    ASSUME NEW n \in DOMAIN Plans
    PROVE  /\ \A t \in Tasks[n] : /\ t = <<t[1], t[2]>> /\ t[1] \in Events[n]
                                  /\ t[2] \in 1 .. NumTasks(Plans[n], t[1])
                                  /\ t # NoTask
           /\ \A e \in Events[n] : \A i \in 1 .. NumTasks(Plans[n], e) : <<e, i>> \in Tasks[n]
<1>1. ASSUME NEW e \in Events[n]
      PROVE  Range(TasksOf(Plans[n], e)) = {<<e, i>> : i \in 1 .. NumTasks(Plans[n], e)}
  BY DEF Range, TasksOf
<1>2. Tasks[n] = UNION {{<<e, i>> : i \in 1 .. NumTasks(Plans[n], e)} : e \in Events[n]}
  BY <1>1 DEF Tasks
<1> QED
  BY <1>2, NoTaskAssumption

\* A plan has finitely many events.
LEMMA PlanFinite ==
    ASSUME NEW n \in DOMAIN Plans
    PROVE  /\ IsFiniteSet(Dependencies[n]) /\ IsFiniteSet(ScheduledEvents[n])
           /\ IsFiniteSet(Events[n])
<1> DEFINE pl == Plans[n]
           ps == Pipelines(pl)
           E == EventTypes \X ps
<1>1. IsFiniteSet(ps) /\ pl.inserts \subseteq ps
  BY PlansAssumption DEF IsPlan
<1>2. IsFiniteSet(EventTypes)
  <2>1. IsFiniteSet({"initialize"})
    BY FS_Singleton
  <2>2. IsFiniteSet({"initialize"} \cup {"event"})
    BY <2>1, FS_AddElement
  <2>3. IsFiniteSet({"initialize"} \cup {"event"} \cup {"prepare_finish"})
    BY <2>2, FS_AddElement
  <2>4. IsFiniteSet({"initialize"} \cup {"event"} \cup {"prepare_finish"} \cup {"finish"})
    BY <2>3, FS_AddElement
  <2>5. IsFiniteSet({"initialize"} \cup {"event"} \cup {"prepare_finish"} \cup {"finish"}
                      \cup {"complete"})
    BY <2>4, FS_AddElement
  <2>6. EventTypes = {"initialize"} \cup {"event"} \cup {"prepare_finish"} \cup {"finish"}
                      \cup {"complete"}
    BY DEF EventTypes
  <2> QED
    BY <2>5, <2>6
<1>3. IsFiniteSet(E)
  BY <1>1, <1>2, FS_Product
<1>4. IsFiniteSet(E \X E)
  BY <1>3, FS_Product
<1>5. Dependencies[n] \subseteq E \X E /\ ScheduledEvents[n] \subseteq E
  BY PlanEvents
<1>6. IsFiniteSet(Dependencies[n]) /\ IsFiniteSet(ScheduledEvents[n])
  BY <1>3, <1>4, <1>5, FS_Subset
<1>7. IsFiniteSet(pl.inserts)
  BY <1>1, FS_Subset
<1>8. IsFiniteSet({Inserted(p) : p \in pl.inserts})
  <2>1. IsFiniteSet({"inserted"} \X pl.inserts)
    BY <1>7, FS_Singleton, FS_Product
  <2>2. {Inserted(p) : p \in pl.inserts} \subseteq {"inserted"} \X pl.inserts
    BY DEF Inserted
  <2> QED
    BY <2>1, <2>2, FS_Subset
<1>9. IsFiniteSet(Events[n])
  BY <1>6, <1>8, FS_Union DEF Events
<1> QED
  BY <1>6, <1>9

\* Inserted events are different from the ones that are scheduled, and only finish events
\* insert them.
LEMMA EventFacts ==
    ASSUME NEW n \in DOMAIN Plans
    PROVE  /\ ScheduledEvents[n] \subseteq Events[n]
           /\ \A e \in ScheduledEvents[n] : e = <<e[1], e[2]>> /\ e[1] # "inserted"
           /\ \A e \in Events[n] : \/ e \in ScheduledEvents[n]
                                   \/ e[1] = "inserted" /\ e[2] \in Plans[n].inserts /\ e = Inserted(e[2])
           /\ \A p \in Plans[n].inserts : /\ Inserted(p) \in Events[n]
                                           /\ <<"finish", p>> \in ScheduledEvents[n]
           /\ \A e \in Events[n] : NumTasks(Plans[n], e) \in Nat
<1> DEFINE pl == Plans[n]
           ps == Pipelines(pl)
<1>0. IsPlan(pl)
  BY PlansAssumption
<1>1. ScheduledEvents[n] \subseteq Events[n]
  BY DEF Events
<1>2. \A e \in ScheduledEvents[n] : e = <<e[1], e[2]>> /\ e[1] \in EventTypes /\ e[2] \in ps
  BY PlanEvents
<1>3. \A e \in Events[n] : \/ e \in ScheduledEvents[n]
                           \/ e[1] = "inserted" /\ e[2] \in pl.inserts /\ e = Inserted(e[2])
  BY DEF Events, Inserted
<1>4. ASSUME NEW p \in pl.inserts
      PROVE  Inserted(p) \in Events[n] /\ <<"finish", p>> \in ScheduledEvents[n]
  <2>1. p \in ps /\ FinishOf(pl, p) = p
    BY <1>0 DEF IsPlan
  <2>2. <<<<"finish", p>>, <<"prepare_finish", p>>>> \in StackDependencies(pl, p)
    BY <2>1 DEF StackDependencies
  <2>3. <<<<"finish", p>>, <<"prepare_finish", p>>>> \in Dependencies[n]
    BY <2>1, <2>2 DEF Dependencies
  <2>4. <<"finish", p>> \in ScheduledEvents[n]
    BY <2>3 DEF ScheduledEvents
  <2> QED
    BY <2>4 DEF Events
<1>5. ASSUME NEW e \in Events[n] PROVE NumTasks(pl, e) \in Nat
  <2>1. pl.tasks \in [ps -> Nat]
    BY <1>0 DEF IsPlan
  <2>2. e[1] = "event" => e[2] \in ps
    BY <1>2, <1>3
  <2> HIDE DEF pl, ps
  <2> QED
    BY <2>1, <2>2 DEF NumTasks
<1> QED
  BY <1>1, <1>2, <1>3, <1>4, <1>5 DEF EventTypes

\* The parents of an event are events, and it waits for a number of events.
LEMMA ParentsFacts ==
    ASSUME plan \in DOMAIN Plans, NEW e \in Events[plan]
    PROVE  Parents(e) \subseteq Events[plan] /\ total_dependencies(e) \in Nat
<1>1. \A g \in ScheduledEvents[plan] : ParentsOf[plan][g] \subseteq Events[plan]
  BY DEF ParentsOf, ScheduledEvents, Events
<1>2. \A g \in ScheduledEvents[plan] : DependenciesOf[plan][g] \in Nat
  <2> TAKE g \in ScheduledEvents[plan]
  <2>1. IsFiniteSet({d \in Dependencies[plan] : d[1] = g})
    BY PlanFinite, FS_Subset
  <2>2. Cardinality({d \in Dependencies[plan] : d[1] = g}) \in Nat
    BY <2>1, FS_CardinalityType
  <2> QED
    BY <2>2 DEF DependenciesOf
<1>3. CASE e \in ScheduledEvents[plan]
  BY <1>1, <1>2, <1>3, EventFacts DEF Parents, total_dependencies, Inserts, Plan
<1>4. CASE e \notin ScheduledEvents[plan]
  BY <1>1, <1>4, EventFacts DEF Parents, total_dependencies
<1> QED
  BY <1>3, <1>4

-----------------------------------------------------------------------------
\* The inductive invariant: types, and what a thread has at which label.

Labels == {"wait", "awake", "run", "work", "block_sink", "deschedule", "finish", "execute",
           "no_task", "fetch", "fetched", "unblock", "unblock_wait", "unblocking",
           "unblocking_wait", "failed", "cancel", "drain", "closed"}

\* A thread that executes a task.
Busy == {"run", "work", "block_sink", "deschedule", "finish"}

Frames == [event : Events[plan], parents : SUBSET Events[plan]]

ChoiceTyped == plan \in DOMAIN Plans /\ behaviours \in Scenarios

EventsTyped ==
    /\ inserted \subseteq Plan.inserts /\ events \subseteq Events[plan]
    /\ finished_dependencies \in [Events[plan] -> Nat]
    /\ finished_tasks \in [Events[plan] -> Nat]
    /\ finished \in [Events[plan] -> Nat]
    /\ finishing \in [Threads -> Seq(Frames)]
    /\ completed_pipelines \in Nat

TasksTyped ==
    /\ queue \in Seq(Tasks[plan]) /\ semaphore \in Nat
    /\ to_be_rescheduled_tasks \subseteq Tasks[plan]
    /\ callback \in [Tasks[plan] -> {"none", "registered", "running"}]
    /\ chunks \in [Tasks[plan] -> 0 .. Plan.chunks]
    /\ blocked_sinks \in Seq(Tasks[plan])
    /\ task \in [Threads -> Tasks[plan] \cup {NoTask}]

ClientTyped ==
    /\ cancelled \in BOOLEAN /\ error \in BOOLEAN /\ interrupted \in BOOLEAN /\ fetching \in BOOLEAN
    /\ execution_result \in {"not_ready", "finished", "error", "interrupted"}
    /\ buffered \in 0 .. BufferSize /\ delivered \in Nat
    /\ blocks \in 0 .. MaxBlocks /\ failures \in 0 .. MaxFailures

\* Workers only have a task while they execute it; the client may keep its task between
\* two slices, but has none when it looks for one, drains the tasks or is done.
ThreadsAtWork ==
    /\ pc \in [Threads -> Labels]
    /\ \A x \in Threads : /\ pc[x] \in Busy => task[x] # NoTask
                          /\ (pc[x] = "finish") <=> (finishing[x] # <<>>)
    /\ \A x \in Workers : pc[x] \in Busy \cup {"wait", "awake"} /\ (pc[x] \notin Busy => task[x] = NoTask)
    /\ pc[Client] \in {"no_task", "drain", "closed"} => task[Client] = NoTask
    /\ pc[Client] \notin {"wait", "awake"}
    /\ pc[Client] \in {"unblocking", "unblocking_wait"} => blocked_sinks # <<>>
    /\ cancelled => pc[Client] \in Busy \cup {"drain", "closed"}
    /\ ~cancelled => pc[Client] \notin {"drain", "closed"}

TypeInv == ChoiceTyped /\ EventsTyped /\ TasksTyped /\ ClientTyped /\ ThreadsAtWork

\* The choice of plan and behaviours is made once.
LEMMA ChoiceMade == [Next]_vars => UNCHANGED <<plan, behaviours>>
<1> SUFFICES ASSUME [Next]_vars PROVE UNCHANGED <<plan, behaviours>>
  OBVIOUS
<1> USE DEF choice, event_state, scheduler, tasks_state, query_state, buffer, outcome, bounds, GoTo
<1>1. ASSUME NEW x \in Threads, PassInterruptTest(x) PROVE UNCHANGED <<plan, behaviours>>
  BY <1>1 DEF PassInterruptTest
<1>2. ASSUME NEW x \in Threads, TaskError(x) PROVE UNCHANGED <<plan, behaviours>>
  BY <1>2 DEF TaskError
<1>3. ASSUME NEW x \in Threads, TaskBlocks(x) PROVE UNCHANGED <<plan, behaviours>>
  BY <1>3 DEF TaskBlocks
<1>4. ASSUME NEW x \in Threads, Sink(x) PROVE UNCHANGED <<plan, behaviours>>
  BY <1>4 DEF Sink
<1>5. ASSUME NEW x \in Threads, BlockSink(x) PROVE UNCHANGED <<plan, behaviours>>
  BY <1>5 DEF BlockSink
<1>6. ASSUME NEW x \in Threads, Deschedule(x) PROVE UNCHANGED <<plan, behaviours>>
  BY <1>6 DEF Deschedule
<1>7. ASSUME NEW x \in Threads, FinishTask(x) PROVE UNCHANGED <<plan, behaviours>>
  BY <1>7 DEF FinishTask
<1>8. ASSUME NEW x \in Threads, FinishReturns(x) PROVE UNCHANGED <<plan, behaviours>>
  BY <1>8 DEF FinishReturns
<1>9. ASSUME NEW x \in Threads, CompleteDependency(x) PROVE UNCHANGED <<plan, behaviours>>
  BY <1>9 DEF CompleteDependency
<1>10. ASSUME NEW x \in Workers, SemaphoreWait(x) PROVE UNCHANGED <<plan, behaviours>>
  BY <1>10 DEF SemaphoreWait
<1>11. ASSUME NEW x \in Workers, Dequeue(x) PROVE UNCHANGED <<plan, behaviours>>
  BY <1>11 DEF Dequeue
<1>12. ASSUME NEW x \in Workers, DequeueFails(x) PROVE UNCHANGED <<plan, behaviours>>
  BY <1>12 DEF DequeueFails
<1>13. ASSUME NEW t \in DOMAIN callback, Callback(t) PROVE UNCHANGED <<plan, behaviours>>
  BY <1>13 DEF Callback
<1>14. ASSUME NEW t \in DOMAIN callback, CallbackReturns(t) PROVE UNCHANGED <<plan, behaviours>>
  BY <1>14 DEF CallbackReturns
<1>15. CASE ExecutionFinished
  BY <1>15 DEF ExecutionFinished
<1>16. CASE ExecuteTask
  BY <1>16 DEF ExecuteTask
<1>17. CASE NoTaskAvailable
  BY <1>17 DEF NoTaskAvailable
<1>18. CASE Fetch
  BY <1>18 DEF Fetch
<1>19. CASE Fetched
  BY <1>19 DEF Fetched
<1>20. CASE UnblockSinks
  BY <1>20 DEF UnblockSinks
<1>21. CASE UnblockSink
  BY <1>21 DEF UnblockSink
<1>22. CASE CloseResult
  BY <1>22 DEF CloseResult
<1>23. CASE CancelTasks
  BY <1>23 DEF CancelTasks
<1>24. CASE WorkOnTasks
  BY <1>24 DEF WorkOnTasks
<1>25. CASE DestroyEvents
  BY <1>25 DEF DestroyEvents
<1>26. CASE Interrupt
  BY <1>26 DEF Interrupt
<1>27. CASE UNCHANGED vars
  BY <1>27 DEF vars
<1> QED
  BY <1>1, <1>2, <1>3, <1>4, <1>5, <1>6, <1>7, <1>8, <1>9, <1>10, <1>11, <1>12, <1>13, <1>14,
      <1>15, <1>16, <1>17, <1>18, <1>19, <1>20, <1>21, <1>22, <1>23, <1>24, <1>25, <1>26, <1>27
      DEF Next, WorkerStep, ClientStep, TaskStep, Callbacks, Threads

\* A function on an initial interval is a sequence.
LEMMA FunctionIsSeq ==
    ASSUME NEW S, NEW n \in Nat, NEW f \in [1 .. n -> S]
    PROVE  f \in Seq(S)
BY SeqDef

\* A sequence of one element.
LEMMA SingletonSeq ==
    ASSUME NEW S, NEW s \in S
    PROVE  <<s>> \in Seq(S)
OBVIOUS

\* A sequence with another first element.
LEMMA PushFirst ==
    ASSUME NEW S, NEW s \in Seq(S), NEW a \in S
    PROVE  /\ <<a>> \o s \in Seq(S) /\ <<a>> \o s # <<>>
           /\ Head(<<a>> \o s) = a /\ Tail(<<a>> \o s) = s
<1>1. <<a>> \in Seq(S) /\ Len(<<a>>) = 1
  OBVIOUS
<1>2. <<a>> \o s \in Seq(S) /\ Len(<<a>> \o s) = 1 + Len(s)
  BY <1>1
<1>3. Tail(<<a>> \o s) = s
  <2>1. Len(Tail(<<a>> \o s)) = Len(s) /\ Tail(<<a>> \o s) \in Seq(S)
    BY <1>2
  <2>2. \A i \in 1 .. Len(s) : Tail(<<a>> \o s)[i] = s[i]
    BY <1>1, <1>2
  <2> QED
    BY <2>1, <2>2, SeqEqual
<1> QED
  BY <1>1, <1>2, <1>3

\* The first element and the rest of a sequence.
LEMMA PopFirst ==
    ASSUME NEW S, NEW s \in Seq(S), s # <<>>
    PROVE  Head(s) \in S /\ Tail(s) \in Seq(S)
OBVIOUS

\* A call of Event::Finish is typed.
LEMMA FrameTyped ==
    ASSUME ChoiceTyped, NEW e \in Events[plan], NEW ps \in SUBSET Events[plan]
    PROVE  Frame(e, ps) \in Frames
BY DEF Frame, Frames

\* What a thread does that has finished a task or has been notified: one call of
\* Event::Finish is changed or begins.
LEMMA FinishingTyped ==
    ASSUME TypeInv, NEW x \in Threads, pc[x] = "finish"
    PROVE  /\ Head(finishing[x]) \in Frames /\ Tail(finishing[x]) \in Seq(Frames)
           /\ Head(finishing[x]).event \in Events[plan]
           /\ Head(finishing[x]).parents \subseteq Events[plan]
           /\ \A p : <<Frame(Head(finishing[x]).event, Head(finishing[x]).parents \ {p})>>
                       \o Tail(finishing[x]) \in Seq(Frames)
           /\ \A p \in Events[plan] :
                 <<Frame(p, Parents(p))>>
                   \o (<<Frame(Head(finishing[x]).event, Head(finishing[x]).parents \ {p})>>
                         \o Tail(finishing[x])) \in Seq(Frames)
<1> DEFINE f == Head(finishing[x])
           fs(p) == <<Frame(f.event, f.parents \ {p})>> \o Tail(finishing[x])
<1>1. finishing[x] \in Seq(Frames) /\ finishing[x] # <<>>
  BY DEF TypeInv, EventsTyped, ThreadsAtWork
<1>2. f \in Frames /\ Tail(finishing[x]) \in Seq(Frames)
  BY <1>1, PopFirst
<1>3. f.event \in Events[plan] /\ f.parents \subseteq Events[plan]
  BY <1>2 DEF Frames
<1>4. ASSUME NEW p PROVE fs(p) \in Seq(Frames)
  <2>1. Frame(f.event, f.parents \ {p}) \in Frames
    BY <1>3, FrameTyped DEF TypeInv
  <2> QED
    BY <1>2, <2>1, PushFirst
<1>5. ASSUME NEW p \in Events[plan] PROVE <<Frame(p, Parents(p))>> \o fs(p) \in Seq(Frames)
  <2>1. Frame(p, Parents(p)) \in Frames
    BY ParentsFacts, FrameTyped DEF TypeInv, ChoiceTyped
  <2>2. fs(p) \in Seq(Frames)
    BY <1>4
  <2> QED
    BY <2>1, <2>2, PushFirst
<1> QED
  BY <1>2, <1>3, <1>4, <1>5

\* The task of a busy thread is a task of an event of the plan.
LEMMA BusyTask ==
    ASSUME TypeInv, NEW x \in Threads, pc[x] \in Busy
    PROVE  task[x] \in Tasks[plan] /\ task[x][1] \in Events[plan]
<1>1. task[x] \in Tasks[plan]
  BY DEF TypeInv, TasksTyped, ThreadsAtWork
<1> QED
  BY <1>1, TaskFacts DEF TypeInv, ChoiceTyped

\* A counter that counts up.
LEMMA CountUp ==
    ASSUME NEW S, NEW f \in [S -> Nat], NEW s \in S
    PROVE  [f EXCEPT ![s] = @ + 1] \in [S -> Nat]
OBVIOUS

\* Where a thread goes on after a task.
LEMMA AfterTaskFacts ==
    ASSUME TypeInv, NEW x \in Threads, NEW err
    PROVE  /\ x \in Workers => AfterTask(x, err) = "wait"
           /\ x = Client /\ cancelled => AfterTask(x, err) = "drain"
           /\ x = Client /\ ~cancelled => AfterTask(x, err) \in {"failed", "fetched", "execute"}
           /\ x \in Workers \/ x = Client
           /\ Client \notin Workers
BY ConstantsAssumption DEF AfterTask, Loop, Threads

\* Tasks are put in the queue.
LEMMA EnqueueTyped ==
    ASSUME TypeInv, NEW ts \in Seq(Tasks[plan]), Enqueue(ts)
    PROVE  queue' \in Seq(Tasks[plan]) /\ semaphore' \in Nat
BY DEF Enqueue, TypeInv, TasksTyped

\* The tasks of an event in a sequence.
LEMMA TasksOfFacts ==
    ASSUME ChoiceTyped, NEW e \in Events[plan]
    PROVE  /\ TasksOf(Plan, e) \in Seq(Tasks[plan])
           /\ Len(TasksOf(Plan, e)) = NumTasks(Plan, e) /\ NumTasks(Plan, e) \in Nat
           /\ \A i \in 1 .. NumTasks(Plan, e) : TasksOf(Plan, e)[i] = <<e, i>>
<1>1. NumTasks(Plan, e) \in Nat
  BY EventFacts DEF ChoiceTyped, Plan
<1>2. \A i \in 1 .. NumTasks(Plan, e) : <<e, i>> \in Tasks[plan]
  BY TaskFacts DEF ChoiceTyped, Plan
<1> QED
  BY <1>1, <1>2 DEF TasksOf

\* A step keeps the types of the events and of the calls of Event::Finish.
LEMMA EventsTypedStep ==
    ASSUME TypeInv, [Next]_vars
    PROVE  EventsTyped'
<1> USE DEF choice, event_state, scheduler, tasks_state, query_state, buffer, outcome, bounds, GoTo
<1>a. plan \in DOMAIN Plans /\ plan' = plan /\ Plan' = Plan /\ Frames' = Frames
  BY ChoiceMade DEF TypeInv, ChoiceTyped, Plan, Frames
<1>b. Workers \subseteq Threads /\ Client \in Threads
  BY DEF Threads
<1>c. EventsTyped
  BY DEF TypeInv
<1>d. ASSUME NEW e \in Events[plan] PROVE Inserts(e) => Inserted(e[2]) \in Events[plan]
  BY <1>a, EventFacts DEF Inserts, Plan
<1>1. ASSUME NEW x \in Threads, PassInterruptTest(x) PROVE EventsTyped'
  BY <1>1, <1>a, <1>b, <1>c DEF PassInterruptTest, EventsTyped
<1>2. ASSUME NEW x \in Threads, TaskError(x) PROVE EventsTyped'
  BY <1>2, <1>a, <1>b, <1>c DEF TaskError, EventsTyped
<1>3. ASSUME NEW x \in Threads, TaskBlocks(x) PROVE EventsTyped'
  BY <1>3, <1>a, <1>b, <1>c DEF TaskBlocks, EventsTyped
<1>4. ASSUME NEW x \in Threads, Sink(x) PROVE EventsTyped'
  BY <1>4, <1>a, <1>b, <1>c DEF Sink, EventsTyped
<1>5. ASSUME NEW x \in Threads, BlockSink(x) PROVE EventsTyped'
  BY <1>5, <1>a, <1>b, <1>c DEF BlockSink, EventsTyped
<1>6. ASSUME NEW x \in Threads, Deschedule(x) PROVE EventsTyped'
  BY <1>6, <1>a, <1>b, <1>c DEF Deschedule, EventsTyped
<1>7. ASSUME NEW x \in Threads, FinishTask(x) PROVE EventsTyped'
  <2> DEFINE e == task[x][1]
  <2>1. pc[x] = "work" /\ e \in Events[plan]
    BY <1>7, BusyTask DEF FinishTask, Busy
  <2>2. Frame(e, Parents(e)) \in Frames
    BY <1>a, <2>1, ParentsFacts, FrameTyped DEF TypeInv
  <2>3. <<Frame(e, Parents(e))>> \in Seq(Frames)
    BY <2>2
  <2>4. inserted' \subseteq Plan.inserts /\ events' \subseteq Events[plan]
    BY <1>c, <1>d, <1>7, <2>1 DEF FinishTask, InsertEvent, EventsTyped, Inserts
  <2>5. /\ finished_tasks' = [finished_tasks EXCEPT ![e] = @ + 1]
        /\ finished' = finished \/ finished' = [finished EXCEPT ![e] = @ + 1]
    BY <1>7 DEF FinishTask
  <2>6. finishing' \in [Threads -> Seq(Frames)]
    BY <1>c, <1>7, <2>3 DEF FinishTask, EventsTyped
  <2>7. finished_tasks' \in [Events[plan] -> Nat] /\ finished' \in [Events[plan] -> Nat]
    <3> HIDE DEF e
    <3>1. finished_tasks \in [Events[plan] -> Nat] /\ finished \in [Events[plan] -> Nat]
      BY <1>c DEF EventsTyped
    <3>2. /\ [finished_tasks EXCEPT ![e] = @ + 1] \in [Events[plan] -> Nat]
          /\ [finished EXCEPT ![e] = @ + 1] \in [Events[plan] -> Nat]
      BY <2>1, <3>1, CountUp
    <3> QED
      BY <2>5, <3>1, <3>2
  <2> QED
    BY <1>a, <1>c, <1>7, <2>4, <2>6, <2>7 DEF FinishTask, EventsTyped
<1>8. ASSUME NEW x \in Threads, FinishReturns(x) PROVE EventsTyped'
  <2>1. pc[x] = "finish" /\ Tail(finishing[x]) \in Seq(Frames)
    BY <1>8, FinishingTyped DEF FinishReturns
  <2>2. finishing' \in [Threads -> Seq(Frames)] /\ completed_pipelines' \in Nat
    BY <1>c, <1>8, <2>1 DEF FinishReturns, EventsTyped
  <2> QED
    BY <1>a, <1>c, <1>8, <2>2 DEF FinishReturns, EventsTyped
<1>9. ASSUME NEW x \in Threads, CompleteDependency(x) PROVE EventsTyped'
  <2> DEFINE f == Head(finishing[x])
             fs(p) == <<Frame(f.event, f.parents \ {p})>> \o Tail(finishing[x])
  <2>1. PICK p \in f.parents :
          /\ \/ finishing' = [finishing EXCEPT ![x] = fs(p)]
             \/ finishing' = [finishing EXCEPT ![x] = <<Frame(p, Parents(p))>> \o fs(p)]
          /\ \/ finished_dependencies' = finished_dependencies
             \/ finished_dependencies' = [finished_dependencies EXCEPT ![p] = @ + 1]
          /\ finished' = finished \/ finished' = [finished EXCEPT ![p] = @ + 1]
    BY <1>9 DEF CompleteDependency, ScheduleTasks, FinishWithoutTasks
  <2>2. pc[x] = "finish"
    BY <1>9 DEF CompleteDependency
  <2>3. /\ p \in Events[plan] /\ fs(p) \in Seq(Frames)
        /\ <<Frame(p, Parents(p))>> \o fs(p) \in Seq(Frames)
    BY <2>2, FinishingTyped
  <2> HIDE DEF f, fs
  <2>4. finishing' \in [Threads -> Seq(Frames)]
    BY <1>c, <2>1, <2>3 DEF EventsTyped
  <2>5. finished_dependencies' \in [Events[plan] -> Nat] /\ finished' \in [Events[plan] -> Nat]
    <3>1. finished_dependencies \in [Events[plan] -> Nat] /\ finished \in [Events[plan] -> Nat]
      BY <1>c DEF EventsTyped
    <3>2. /\ [finished_dependencies EXCEPT ![p] = @ + 1] \in [Events[plan] -> Nat]
          /\ [finished EXCEPT ![p] = @ + 1] \in [Events[plan] -> Nat]
      BY <2>3, <3>1, CountUp
    <3> QED
      BY <2>1, <3>1, <3>2
  <2> QED
    BY <1>a, <1>c, <1>9, <2>4, <2>5 DEF CompleteDependency, EventsTyped
<1>10. ASSUME NEW x \in Workers, SemaphoreWait(x) PROVE EventsTyped'
  BY <1>10, <1>a, <1>b, <1>c DEF SemaphoreWait, EventsTyped
<1>11. ASSUME NEW x \in Workers, Dequeue(x) PROVE EventsTyped'
  BY <1>11, <1>a, <1>b, <1>c DEF Dequeue, EventsTyped
<1>12. ASSUME NEW x \in Workers, DequeueFails(x) PROVE EventsTyped'
  BY <1>12, <1>a, <1>b, <1>c DEF DequeueFails, EventsTyped
<1>13. ASSUME NEW t \in DOMAIN callback, Callback(t) PROVE EventsTyped'
  BY <1>13, <1>a, <1>b, <1>c DEF Callback, EventsTyped
<1>14. ASSUME NEW t \in DOMAIN callback, CallbackReturns(t) PROVE EventsTyped'
  BY <1>14, <1>a, <1>b, <1>c DEF CallbackReturns, EventsTyped
<1>15. CASE ExecutionFinished
  BY <1>15, <1>a, <1>b, <1>c DEF ExecutionFinished, EventsTyped
<1>16. CASE ExecuteTask
  BY <1>16, <1>a, <1>b, <1>c DEF ExecuteTask, EventsTyped
<1>17. CASE NoTaskAvailable
  BY <1>17, <1>a, <1>b, <1>c DEF NoTaskAvailable, EventsTyped
<1>18. CASE Fetch
  BY <1>18, <1>a, <1>b, <1>c DEF Fetch, EventsTyped
<1>19. CASE Fetched
  BY <1>19, <1>a, <1>b, <1>c DEF Fetched, EventsTyped
<1>20. CASE UnblockSinks
  BY <1>20, <1>a, <1>b, <1>c DEF UnblockSinks, EventsTyped
<1>21. CASE UnblockSink
  BY <1>21, <1>a, <1>b, <1>c DEF UnblockSink, EventsTyped
<1>22. CASE CloseResult
  BY <1>22, <1>a, <1>b, <1>c DEF CloseResult, EventsTyped
<1>23. CASE CancelTasks
  BY <1>23, <1>a, <1>b, <1>c DEF CancelTasks, EventsTyped
<1>24. CASE WorkOnTasks
  BY <1>24, <1>a, <1>b, <1>c DEF WorkOnTasks, EventsTyped
<1>25. CASE DestroyEvents
  BY <1>25, <1>a, <1>b, <1>c DEF DestroyEvents, EventsTyped
<1>26. CASE Interrupt
  BY <1>26, <1>a, <1>b, <1>c DEF Interrupt, EventsTyped
<1>27. CASE UNCHANGED vars
  BY <1>27, <1>a, <1>b, <1>c DEF vars, EventsTyped
<1> QED
  BY <1>1, <1>2, <1>3, <1>4, <1>5, <1>6, <1>7, <1>8, <1>9, <1>10, <1>11, <1>12, <1>13, <1>14,
      <1>15, <1>16, <1>17, <1>18, <1>19, <1>20, <1>21, <1>22, <1>23, <1>24, <1>25, <1>26, <1>27
      DEF Next, WorkerStep, ClientStep, TaskStep, Callbacks, Threads

\* A step keeps the types of the tasks, the queue and the threads' tasks.
LEMMA TasksTypedStep ==
    ASSUME TypeInv, [Next]_vars
    PROVE  TasksTyped'
<1> USE DEF choice, event_state, scheduler, tasks_state, query_state, buffer, outcome, bounds, GoTo
<1>a. plan \in DOMAIN Plans /\ plan' = plan /\ Plan' = Plan
  BY ChoiceMade DEF TypeInv, ChoiceTyped, Plan
<1>b. Workers \subseteq Threads /\ Client \in Threads
  BY DEF Threads
<1>c. TasksTyped /\ NoTask \notin Tasks[plan]
  BY <1>a, TaskFacts DEF TypeInv
<1>d. ASSUME NEW x \in Threads, pc[x] \in Busy PROVE task[x] \in Tasks[plan]
  BY <1>d, BusyTask
<1>e. queue # <<>> => Head(queue) \in Tasks[plan] /\ Tail(queue) \in Seq(Tasks[plan])
  BY <1>c DEF TasksTyped
<1>f. blocked_sinks # <<>> => Head(blocked_sinks) \in Tasks[plan] /\ Tail(blocked_sinks) \in Seq(Tasks[plan])
  BY <1>c DEF TasksTyped
<1>g. ASSUME NEW t \in Tasks[plan], Enqueue(<<t>>)
      PROVE  queue' \in Seq(Tasks[plan]) /\ semaphore' \in Nat
  <2>1. <<t>> \in Seq(Tasks[plan])
    BY SingletonSeq
  <2> QED
    BY <1>g, <2>1, EnqueueTyped
<1>h. Plan.chunks \in Nat
  BY PlansAssumption DEF TypeInv, ChoiceTyped, IsPlan, Plan
<1>1. ASSUME NEW x \in Threads, PassInterruptTest(x) PROVE TasksTyped'
  BY <1>1, <1>a, <1>b, <1>c DEF PassInterruptTest, TasksTyped, Busy
<1>2. ASSUME NEW x \in Threads, TaskError(x) PROVE TasksTyped'
  BY <1>2, <1>a, <1>b, <1>c DEF TaskError, Release, TasksTyped, Busy
<1>3. ASSUME NEW x \in Threads, TaskBlocks(x) PROVE TasksTyped'
  BY <1>3, <1>a, <1>b, <1>c, <1>d DEF TaskBlocks, TasksTyped, Busy
<1>4. ASSUME NEW x \in Threads, Sink(x) PROVE TasksTyped'
  <2>1. task[x] \in Tasks[plan]
    BY <1>d, <1>4 DEF Sink, Busy
  <2>2. chunks' \in [Tasks[plan] -> 0 .. Plan.chunks]
    <3>1. CASE UNCHANGED chunks
      BY <1>c, <3>1 DEF TasksTyped
    <3>2. CASE chunks' = [chunks EXCEPT ![task[x]] = @ - 1]
      <4>1. chunks[task[x]] - 1 \in 0 .. Plan.chunks
        BY <1>c, <1>h, <1>4, <2>1 DEF Sink, TasksTyped
      <4> QED
        BY <1>c, <2>1, <3>2, <4>1 DEF TasksTyped
    <3> QED
      BY <1>4, <3>1, <3>2 DEF Sink
  <2> QED
    BY <1>a, <1>c, <1>4, <2>2 DEF Sink, TasksTyped
<1>5. ASSUME NEW x \in Threads, BlockSink(x) PROVE TasksTyped'
  BY <1>5, <1>a, <1>b, <1>c, <1>d DEF BlockSink, TasksTyped, Busy
<1>6. ASSUME NEW x \in Threads, Deschedule(x) PROVE TasksTyped'
  BY <1>6, <1>a, <1>b, <1>c, <1>d DEF Deschedule, AddToBeRescheduled, Release, TasksTyped, Busy
<1>7. ASSUME NEW x \in Threads, FinishTask(x) PROVE TasksTyped'
  BY <1>7, <1>a, <1>b, <1>c DEF FinishTask, InsertEvent, Inserts, Release, TasksTyped, Busy
<1>8. ASSUME NEW x \in Threads, FinishReturns(x) PROVE TasksTyped'
  BY <1>8, <1>a, <1>b, <1>c DEF FinishReturns, Release, TasksTyped, Busy
<1>9. ASSUME NEW x \in Threads, CompleteDependency(x) PROVE TasksTyped'
  <2>1. PICK p \in Head(finishing[x]).parents :
          UNCHANGED <<queue, semaphore>> \/ Enqueue(TasksOf(Plan, p))
    BY <1>9 DEF CompleteDependency, ScheduleTasks, FinishWithoutTasks
  <2>2. p \in Events[plan]
    BY <1>9, FinishingTyped DEF CompleteDependency
  <2>3. TasksOf(Plan, p) \in Seq(Tasks[plan])
    BY <2>2, TasksOfFacts DEF TypeInv
  <2>4. queue' \in Seq(Tasks[plan]) /\ semaphore' \in Nat
    BY <1>c, <2>1, <2>3, EnqueueTyped DEF TasksTyped
  <2> QED
    BY <1>a, <1>c, <1>9, <2>4 DEF CompleteDependency, TasksTyped
<1>10. ASSUME NEW x \in Workers, SemaphoreWait(x) PROVE TasksTyped'
  BY <1>10, <1>a, <1>b, <1>c DEF SemaphoreWait, TasksTyped, Busy
<1>11. ASSUME NEW x \in Workers, Dequeue(x) PROVE TasksTyped'
  BY <1>11, <1>a, <1>b, <1>c, <1>e DEF Dequeue, Execute, TasksTyped, Busy
<1>12. ASSUME NEW x \in Workers, DequeueFails(x) PROVE TasksTyped'
  <2>1. semaphore' \in Nat
    BY <1>c, <1>12 DEF DequeueFails, SignalAgain, TasksTyped
  <2> QED
    BY <1>a, <1>c, <1>12, <2>1 DEF DequeueFails, TasksTyped
<1>13. ASSUME NEW t \in DOMAIN callback, Callback(t) PROVE TasksTyped'
  BY <1>13, <1>a, <1>b, <1>c DEF Callback, TasksTyped, Busy
<1>14. ASSUME NEW t \in DOMAIN callback, CallbackReturns(t) PROVE TasksTyped'
  <2>1. t \in Tasks[plan]
    BY <1>c DEF TasksTyped
  <2>2. /\ queue' \in Seq(Tasks[plan]) /\ semaphore' \in Nat
        /\ to_be_rescheduled_tasks' \subseteq Tasks[plan]
    BY <1>c, <1>g, <1>14, <2>1 DEF CallbackReturns, RescheduleTask, TasksTyped
  <2> QED
    BY <1>a, <1>c, <1>14, <2>1, <2>2 DEF CallbackReturns, TasksTyped
<1>15. CASE ExecutionFinished
  BY <1>15, <1>a, <1>b, <1>c DEF ExecutionFinished, TasksTyped, Busy
<1>16. CASE ExecuteTask
  BY <1>16, <1>a, <1>b, <1>c, <1>e DEF ExecuteTask, Execute, TasksTyped, Busy
<1>17. CASE NoTaskAvailable
  BY <1>17, <1>a, <1>b, <1>c DEF NoTaskAvailable, TasksTyped, Busy
<1>18. CASE Fetch
  BY <1>18, <1>a, <1>b, <1>c DEF Fetch, TasksTyped, Busy
<1>19. CASE Fetched
  BY <1>19, <1>a, <1>b, <1>c DEF Fetched, TasksTyped, Busy
<1>20. CASE UnblockSinks
  BY <1>20, <1>a, <1>b, <1>c DEF UnblockSinks, TasksTyped, Busy
<1>21. CASE UnblockSink
  <2>1. blocked_sinks # <<>>
    BY <1>21 DEF UnblockSink, TypeInv, ThreadsAtWork
  <2> DEFINE t == Head(blocked_sinks)
  <2>2. t \in Tasks[plan] /\ blocked_sinks' \in Seq(Tasks[plan])
    BY <1>f, <1>21, <2>1 DEF UnblockSink
  <2>3. queue' \in Seq(Tasks[plan]) /\ semaphore' \in Nat /\ to_be_rescheduled_tasks' \subseteq Tasks[plan]
    BY <1>c, <1>g, <1>21, <2>2 DEF UnblockSink, RescheduleTask, TasksTyped
  <2> QED
    BY <1>a, <1>c, <1>21, <2>2, <2>3 DEF UnblockSink, TasksTyped
<1>22. CASE CloseResult
  BY <1>22, <1>a, <1>b, <1>c DEF CloseResult, TasksTyped, Busy
<1>23. CASE CancelTasks
  BY <1>23, <1>a, <1>b, <1>c DEF CancelTasks, TasksTyped, Busy
<1>24. CASE WorkOnTasks
  BY <1>24, <1>a, <1>b, <1>c, <1>e DEF WorkOnTasks, Execute, TasksTyped, Busy
<1>25. CASE DestroyEvents
  BY <1>25, <1>a, <1>b, <1>c DEF DestroyEvents, TasksTyped, Busy
<1>26. CASE Interrupt
  BY <1>26, <1>a, <1>b, <1>c DEF Interrupt, TasksTyped, Busy
<1>27. CASE UNCHANGED vars
  BY <1>27, <1>a, <1>b, <1>c DEF vars, TasksTyped, Busy
<1> QED
  BY <1>1, <1>2, <1>3, <1>4, <1>5, <1>6, <1>7, <1>8, <1>9, <1>10, <1>11, <1>12, <1>13, <1>14,
      <1>15, <1>16, <1>17, <1>18, <1>19, <1>20, <1>21, <1>22, <1>23, <1>24, <1>25, <1>26, <1>27
      DEF Next, WorkerStep, ClientStep, TaskStep, Callbacks, Threads

\* A step keeps the types of what the client has, and the buffer is never overfull.
LEMMA ClientTypedStep ==
    ASSUME TypeInv, [Next]_vars
    PROVE  ClientTyped'
<1> USE DEF choice, event_state, scheduler, tasks_state, query_state, buffer, outcome, bounds, GoTo
<1>a. ClientTyped /\ Plan.streaming \in BOOLEAN
  BY PlansAssumption DEF TypeInv, ChoiceTyped, IsPlan, Plan
<1>b. BufferSize \in Nat \ {0} /\ MaxBlocks \in Nat /\ MaxFailures \in Nat
  BY ConstantsAssumption
<1>1. ASSUME NEW x \in Threads, PassInterruptTest(x) PROVE ClientTyped'
  BY <1>1, <1>a, <1>b DEF PassInterruptTest, ClientTyped
<1>2. ASSUME NEW x \in Threads, TaskError(x) PROVE ClientTyped'
  BY <1>2, <1>a, <1>b DEF TaskError, ClientTyped
<1>3. ASSUME NEW x \in Threads, TaskBlocks(x) PROVE ClientTyped'
  BY <1>3, <1>a, <1>b DEF TaskBlocks, ClientTyped
<1>4. ASSUME NEW x \in Threads, Sink(x) PROVE ClientTyped'
  BY <1>4, <1>a, <1>b DEF Sink, BufferIsFull, ClientTyped
<1>5. ASSUME NEW x \in Threads, BlockSink(x) PROVE ClientTyped'
  BY <1>5, <1>a, <1>b DEF BlockSink, ClientTyped
<1>6. ASSUME NEW x \in Threads, Deschedule(x) PROVE ClientTyped'
  BY <1>6, <1>a, <1>b DEF Deschedule, ClientTyped
<1>7. ASSUME NEW x \in Threads, FinishTask(x) PROVE ClientTyped'
  BY <1>7, <1>a, <1>b DEF FinishTask, Inserts, ClientTyped
<1>8. ASSUME NEW x \in Threads, FinishReturns(x) PROVE ClientTyped'
  BY <1>8, <1>a, <1>b DEF FinishReturns, ClientTyped
<1>9. ASSUME NEW x \in Threads, CompleteDependency(x) PROVE ClientTyped'
  <2>1. /\ \/ UNCHANGED <<error, interrupted, failures>>
           \/ failures > 0 /\ failures' = failures - 1 /\ error' = TRUE /\ interrupted' = TRUE
        /\ UNCHANGED <<cancelled, buffered, delivered, execution_result, fetching, blocks>>
    BY <1>9 DEF CompleteDependency, ScheduleTasks, FinishWithoutTasks
  <2>2. error' \in BOOLEAN /\ interrupted' \in BOOLEAN
    BY <1>a, <2>1 DEF ClientTyped
  <2>3. failures' \in 0 .. MaxFailures
    BY <1>a, <1>b, <2>1 DEF ClientTyped
  <2> QED
    BY <1>a, <2>1, <2>2, <2>3 DEF ClientTyped
<1>10. ASSUME NEW x \in Workers, SemaphoreWait(x) PROVE ClientTyped'
  BY <1>10, <1>a, <1>b DEF SemaphoreWait, ClientTyped
<1>11. ASSUME NEW x \in Workers, Dequeue(x) PROVE ClientTyped'
  BY <1>11, <1>a, <1>b DEF Dequeue, ClientTyped
<1>12. ASSUME NEW x \in Workers, DequeueFails(x) PROVE ClientTyped'
  BY <1>12, <1>a, <1>b DEF DequeueFails, ClientTyped
<1>13. ASSUME NEW t \in DOMAIN callback, Callback(t) PROVE ClientTyped'
  BY <1>13, <1>a, <1>b DEF Callback, ClientTyped
<1>14. ASSUME NEW t \in DOMAIN callback, CallbackReturns(t) PROVE ClientTyped'
  BY <1>14, <1>a, <1>b DEF CallbackReturns, ClientTyped
<1>15. CASE ExecutionFinished
  BY <1>15, <1>a, <1>b DEF ExecutionFinished, Scan, ClientTyped
<1>16. CASE ExecuteTask
  BY <1>16, <1>a, <1>b DEF ExecuteTask, ClientTyped
<1>17. CASE NoTaskAvailable
  BY <1>17, <1>a, <1>b DEF NoTaskAvailable, ClientTyped
<1>18. CASE Fetch
  BY <1>18, <1>a, <1>b DEF Fetch, Scan, BufferIsFull, ClientTyped
<1>19. CASE Fetched
  BY <1>19, <1>a, <1>b DEF Fetched, Scan, BufferIsFull, ClientTyped
<1>20. CASE UnblockSinks
  BY <1>20, <1>a, <1>b DEF UnblockSinks, ClientTyped
<1>21. CASE UnblockSink
  BY <1>21, <1>a, <1>b DEF UnblockSink, ClientTyped
<1>22. CASE CloseResult
  BY <1>22, <1>a, <1>b DEF CloseResult, ClientTyped
<1>23. CASE CancelTasks
  BY <1>23, <1>a, <1>b DEF CancelTasks, ClientTyped
<1>24. CASE WorkOnTasks
  BY <1>24, <1>a, <1>b DEF WorkOnTasks, ClientTyped
<1>25. CASE DestroyEvents
  BY <1>25, <1>a, <1>b DEF DestroyEvents, ClientTyped
<1>26. CASE Interrupt
  BY <1>26, <1>a, <1>b DEF Interrupt, ClientTyped
<1>27. CASE UNCHANGED vars
  BY <1>27, <1>a, <1>b DEF vars, ClientTyped
<1> QED
  BY <1>1, <1>2, <1>3, <1>4, <1>5, <1>6, <1>7, <1>8, <1>9, <1>10, <1>11, <1>12, <1>13, <1>14,
      <1>15, <1>16, <1>17, <1>18, <1>19, <1>20, <1>21, <1>22, <1>23, <1>24, <1>25, <1>26, <1>27
      DEF Next, WorkerStep, ClientStep, TaskStep, Callbacks, Threads

\* A step keeps what the threads have at their labels.
LEMMA ThreadsAtWorkStep ==
    ASSUME TypeInv, [Next]_vars
    PROVE  ThreadsAtWork'
<1> USE DEF choice, event_state, scheduler, tasks_state, query_state, buffer, outcome, bounds, GoTo
<1>a. /\ Workers \subseteq Threads /\ Client \in Threads /\ Client \notin Workers
      /\ \A x \in Threads : x \in Workers \/ x = Client
  BY ConstantsAssumption DEF Threads
<1>b. ThreadsAtWork /\ cancelled \in BOOLEAN
  BY DEF TypeInv, ClientTyped
<1>c. task \in [Threads -> Tasks[plan] \cup {NoTask}] /\ NoTask \notin Tasks[plan]
  BY TaskFacts DEF TypeInv, ChoiceTyped, TasksTyped
<1>d. finishing \in [Threads -> Seq(Frames)]
  BY DEF TypeInv, EventsTyped
<1>e. queue # <<>> => Head(queue) \in Tasks[plan]
  BY DEF TypeInv, TasksTyped
<1>f. blocked_sinks \in Seq(Tasks[plan])
  BY DEF TypeInv, TasksTyped
<1>h. ASSUME NEW x \in Threads, NEW err
      PROVE  /\ x \in Workers => AfterTask(x, err) = "wait"
             /\ x = Client /\ cancelled => AfterTask(x, err) = "drain"
             /\ x = Client /\ ~cancelled => AfterTask(x, err) \in {"failed", "fetched", "execute"}
  BY AfterTaskFacts
<1>1. ASSUME NEW x \in Threads, PassInterruptTest(x) PROVE ThreadsAtWork'
  BY <1>1, <1>a, <1>b, <1>c, <1>d DEF PassInterruptTest, ThreadsAtWork, Labels, Busy
<1>2. ASSUME NEW x \in Threads, TaskError(x) PROVE ThreadsAtWork'
  <2>1. /\ pc[x] \in Busy \ {"finish"} /\ UNCHANGED <<finishing, blocked_sinks, cancelled>>
        /\ \/ /\ task' = [task EXCEPT ![x] = NoTask]
              /\ \E err : pc' = [pc EXCEPT ![x] = AfterTask(x, err)]
           \/ x = Client /\ ~cancelled /\ pc' = [pc EXCEPT ![x] = "failed"] /\ UNCHANGED task
    BY <1>2 DEF TaskError, Release, Busy
  <2> QED
    BY <1>a, <1>b, <1>c, <1>h, <2>1 DEF ThreadsAtWork, Labels, Busy
<1>3. ASSUME NEW x \in Threads, TaskBlocks(x) PROVE ThreadsAtWork'
  BY <1>3, <1>a, <1>b, <1>c, <1>d DEF TaskBlocks, ThreadsAtWork, Labels, Busy
<1>4. ASSUME NEW x \in Threads, Sink(x) PROVE ThreadsAtWork'
  <2>1. /\ pc[x] = "work" /\ UNCHANGED <<task, finishing, blocked_sinks, cancelled>>
        /\ \E l : /\ pc' = [pc EXCEPT ![x] = l]
                 /\ \/ l \in {"block_sink", "run"}
                    \/ x = Client /\ ~cancelled /\ \E err : l = AfterTask(x, err)
    BY <1>4 DEF Sink
  <2>2. task[x] \in Tasks[plan]
    BY <2>1, BusyTask DEF Busy
  <2> QED
    BY <1>a, <1>b, <1>c, <1>h, <2>1, <2>2 DEF ThreadsAtWork, Labels, Busy
<1>5. ASSUME NEW x \in Threads, BlockSink(x) PROVE ThreadsAtWork'
  BY <1>5, <1>a, <1>b, <1>c, <1>d DEF BlockSink, ThreadsAtWork, Labels, Busy
<1>6. ASSUME NEW x \in Threads, Deschedule(x) PROVE ThreadsAtWork'
  <2>1. /\ pc[x] \in Busy \ {"finish"} /\ UNCHANGED <<finishing, blocked_sinks, cancelled>>
        /\ \/ /\ task' = [task EXCEPT ![x] = NoTask]
              /\ \E err : pc' = [pc EXCEPT ![x] = AfterTask(x, err)]
           \/ x = Client /\ ~cancelled /\ pc' = [pc EXCEPT ![x] = "failed"] /\ UNCHANGED task
    BY <1>6 DEF Deschedule, Release, Busy
  <2> QED
    BY <1>a, <1>b, <1>c, <1>h, <2>1 DEF ThreadsAtWork, Labels, Busy
<1>7. ASSUME NEW x \in Threads, FinishTask(x) PROVE ThreadsAtWork'
  <2>1. /\ pc[x] = "work" /\ UNCHANGED <<blocked_sinks, cancelled>>
        /\ \/ /\ task' = [task EXCEPT ![x] = NoTask] /\ UNCHANGED finishing
              /\ \E err : pc' = [pc EXCEPT ![x] = AfterTask(x, err)]
           \/ /\ pc' = [pc EXCEPT ![x] = "finish"] /\ UNCHANGED task
              /\ \E f : finishing' = [finishing EXCEPT ![x] = <<f>>]
    BY <1>7 DEF FinishTask, Release
  <2>2. CASE /\ task' = [task EXCEPT ![x] = NoTask] /\ UNCHANGED finishing
             /\ \E err : pc' = [pc EXCEPT ![x] = AfterTask(x, err)]
    BY <1>a, <1>b, <1>c, <1>h, <2>1, <2>2 DEF ThreadsAtWork, Labels, Busy
  <2>3. CASE /\ pc' = [pc EXCEPT ![x] = "finish"] /\ UNCHANGED task
             /\ \E f : finishing' = [finishing EXCEPT ![x] = <<f>>]
    <3>1. \A f : <<f>> # <<>>
      OBVIOUS
    <3>2. finishing'[x] # <<>> /\ \A y \in Threads : y # x => finishing'[y] = finishing[y]
      BY <1>d, <2>3, <3>1
    <3> QED
      BY <1>a, <1>b, <1>c, <2>1, <2>3, <3>2 DEF ThreadsAtWork, Labels, Busy
  <2> QED
    BY <2>1, <2>2, <2>3
<1>8. ASSUME NEW x \in Threads, FinishReturns(x) PROVE ThreadsAtWork'
  <2>1. /\ pc[x] = "finish" /\ UNCHANGED <<blocked_sinks, cancelled>>
        /\ finishing' = [finishing EXCEPT ![x] = Tail(finishing[x])]
        /\ \/ /\ Tail(finishing[x]) = <<>> /\ task' = [task EXCEPT ![x] = NoTask]
              /\ \E err : pc' = [pc EXCEPT ![x] = AfterTask(x, err)]
           \/ Tail(finishing[x]) # <<>> /\ UNCHANGED <<pc, task>>
    BY <1>8 DEF FinishReturns, Release
  <2> DEFINE outer == Tail(finishing[x])
  <2> HIDE DEF outer
  <2>2. /\ finishing' = [finishing EXCEPT ![x] = outer]
        /\ \/ /\ outer = <<>> /\ task' = [task EXCEPT ![x] = NoTask]
              /\ \E err : pc' = [pc EXCEPT ![x] = AfterTask(x, err)]
           \/ outer # <<>> /\ UNCHANGED <<pc, task>>
    BY <2>1 DEF outer
  <2>3. finishing'[x] = outer /\ \A y \in Threads : y # x => finishing'[y] = finishing[y]
    BY <1>d, <2>2
  <2>4. CASE /\ outer = <<>> /\ task' = [task EXCEPT ![x] = NoTask]
             /\ \E err : pc' = [pc EXCEPT ![x] = AfterTask(x, err)]
    BY <1>a, <1>b, <1>c, <1>h, <2>1, <2>3, <2>4 DEF ThreadsAtWork, Labels, Busy
  <2>5. CASE outer # <<>> /\ UNCHANGED <<pc, task>>
    BY <1>a, <1>b, <1>c, <2>1, <2>3, <2>5 DEF ThreadsAtWork, Labels, Busy
  <2> QED
    BY <2>2, <2>4, <2>5
<1>9. ASSUME NEW x \in Threads, CompleteDependency(x) PROVE ThreadsAtWork'
  <2> DEFINE f == Head(finishing[x])
             fs(p) == <<Frame(f.event, f.parents \ {p})>> \o Tail(finishing[x])
  <2>1. PICK p \in f.parents :
          \/ finishing' = [finishing EXCEPT ![x] = fs(p)]
          \/ finishing' = [finishing EXCEPT ![x] = <<Frame(p, Parents(p))>> \o fs(p)]
    BY <1>9 DEF CompleteDependency, ScheduleTasks, FinishWithoutTasks
  <2>2. pc[x] = "finish"
    BY <1>9 DEF CompleteDependency
  <2>3. /\ fs(p) # <<>>
        /\ <<Frame(p, Parents(p))>> \o fs(p) # <<>>
    <3>1. p \in Events[plan] /\ f \in Frames /\ Tail(finishing[x]) \in Seq(Frames) /\ f.event \in Events[plan]
          /\ f.parents \subseteq Events[plan]
      BY <2>2, FinishingTyped
    <3>2. Frame(f.event, f.parents \ {p}) \in Frames /\ Frame(p, Parents(p)) \in Frames
      BY <3>1, FrameTyped, ParentsFacts DEF TypeInv, ChoiceTyped
    <3>3. fs(p) # <<>> /\ fs(p) \in Seq(Frames)
      BY <3>1, <3>2, PushFirst
    <3> QED
      BY <3>2, <3>3, PushFirst
  <2> HIDE DEF f, fs
  <2>4. finishing'[x] # <<>> /\ \A y \in Threads : y # x => finishing'[y] = finishing[y]
    BY <1>d, <2>1, <2>3
  <2> QED
    BY <1>a, <1>b, <1>c, <1>9, <2>2, <2>4 DEF CompleteDependency, ThreadsAtWork
<1>10. ASSUME NEW x \in Workers, SemaphoreWait(x) PROVE ThreadsAtWork'
  BY <1>10, <1>a, <1>b, <1>c, <1>d DEF SemaphoreWait, ThreadsAtWork, Labels, Busy
<1>11. ASSUME NEW x \in Workers, Dequeue(x) PROVE ThreadsAtWork'
  BY <1>11, <1>a, <1>b, <1>c, <1>d, <1>e DEF Dequeue, Execute, ThreadsAtWork, Labels, Busy
<1>12. ASSUME NEW x \in Workers, DequeueFails(x) PROVE ThreadsAtWork'
  BY <1>12, <1>a, <1>b, <1>c, <1>d DEF DequeueFails, ThreadsAtWork, Labels, Busy
<1>13. ASSUME NEW t \in DOMAIN callback, Callback(t) PROVE ThreadsAtWork'
  BY <1>13, <1>a, <1>b, <1>c, <1>d DEF Callback, ThreadsAtWork, Labels, Busy
<1>14. ASSUME NEW t \in DOMAIN callback, CallbackReturns(t) PROVE ThreadsAtWork'
  BY <1>14, <1>a, <1>b, <1>c, <1>d DEF CallbackReturns, ThreadsAtWork, Labels, Busy
<1>15. CASE ExecutionFinished
  BY SMTT(30), <1>15, <1>a, <1>b, <1>c, <1>d DEF ExecutionFinished, ThreadsAtWork, Labels, Busy
<1>16. CASE ExecuteTask
  <2>1. /\ pc[Client] = "execute" /\ UNCHANGED <<finishing, blocked_sinks, cancelled>>
        /\ \/ pc' = [pc EXCEPT ![Client] = "no_task"] /\ UNCHANGED task /\ task[Client] = NoTask
           \/ \E t \in Tasks[plan] : /\ task' = [task EXCEPT ![Client] = t]
                                    /\ \E l \in {"run", "work"} : pc' = [pc EXCEPT ![Client] = l]
    BY <1>a, <1>c, <1>e, <1>16 DEF ExecuteTask, Execute
  <2> QED
    BY <1>a, <1>b, <1>c, <2>1 DEF ThreadsAtWork, Labels, Busy
<1>17. CASE NoTaskAvailable
  BY <1>17, <1>a, <1>b, <1>c, <1>d DEF NoTaskAvailable, Loop, ThreadsAtWork, Labels, Busy
<1>18. CASE Fetch
  <2>1. /\ pc[Client] = "fetch" /\ UNCHANGED <<task, finishing, blocked_sinks, cancelled>>
        /\ \E l \in {"fetch", "cancel", "unblock"} : pc' = [pc EXCEPT ![Client] = l]
    <3>1. pc[Client] = "fetch" /\ UNCHANGED <<task, finishing, blocked_sinks, cancelled>>
      BY <1>18 DEF Fetch
    <3>2. pc' = pc => pc' = [pc EXCEPT ![Client] = "fetch"]
      BY <1>a, <1>b, <3>1 DEF ThreadsAtWork
    <3> QED
      BY <1>18, <3>1, <3>2 DEF Fetch
  <2> QED
    BY <1>a, <1>b, <1>c, <2>1 DEF ThreadsAtWork, Labels, Busy
<1>19. CASE Fetched
  BY <1>19, <1>a, <1>b, <1>c, <1>d DEF Fetched, ThreadsAtWork, Labels, Busy
<1>20. CASE UnblockSinks
  BY <1>20, <1>a, <1>b, <1>c, <1>d DEF UnblockSinks, ThreadsAtWork, Labels, Busy
<1>21. CASE UnblockSink
  <2>1. Len(blocked_sinks) > 1 => Tail(blocked_sinks) # <<>>
    BY <1>f
  <2> QED
    BY <1>a, <1>b, <1>c, <1>21, <2>1 DEF UnblockSink, ThreadsAtWork, Labels, Busy
<1>22. CASE CloseResult
  BY <1>22, <1>a, <1>b, <1>c, <1>d DEF CloseResult, Loop, ThreadsAtWork, Labels, Busy
<1>23. CASE CancelTasks
  BY <1>23, <1>a, <1>b, <1>c, <1>d DEF CancelTasks, ThreadsAtWork, Labels, Busy
<1>24. CASE WorkOnTasks
  BY <1>24, <1>a, <1>b, <1>c, <1>d, <1>e DEF WorkOnTasks, Execute, ThreadsAtWork, Labels, Busy
<1>25. CASE DestroyEvents
  BY <1>25, <1>a, <1>b, <1>c, <1>d DEF DestroyEvents, ThreadsAtWork, Labels, Busy
<1>26. CASE Interrupt
  BY <1>26, <1>a, <1>b, <1>c, <1>d DEF Interrupt, ThreadsAtWork, Labels, Busy
<1>27. CASE UNCHANGED vars
  BY <1>27, <1>a, <1>b, <1>c, <1>d DEF vars, ThreadsAtWork, Labels, Busy
<1> QED
  BY <1>1, <1>2, <1>3, <1>4, <1>5, <1>6, <1>7, <1>8, <1>9, <1>10, <1>11, <1>12, <1>13, <1>14,
      <1>15, <1>16, <1>17, <1>18, <1>19, <1>20, <1>21, <1>22, <1>23, <1>24, <1>25, <1>26, <1>27
      DEF Next, WorkerStep, ClientStep, TaskStep, Callbacks, Threads

\* A step keeps the types.
LEMMA TypeInvStep ==
    ASSUME TypeInv, [Next]_vars
    PROVE  TypeInv'
<1>1. ChoiceTyped'
  BY ChoiceMade DEF TypeInv, ChoiceTyped
<1> QED
  BY <1>1, EventsTypedStep, TasksTypedStep, ClientTypedStep, ThreadsAtWorkStep DEF TypeInv

\* A plan has finitely many tasks.
LEMMA TasksFinite ==
    ASSUME NEW n \in DOMAIN Plans
    PROVE  IsFiniteSet(Tasks[n])
<1> DEFINE T(e) == Range(TasksOf(Plans[n], e))
           S == {T(e) : e \in Events[n]}
           f == [e \in Events[n] |-> T(e)]
<1>1. ASSUME NEW e \in Events[n] PROVE IsFiniteSet(T(e))
  <2>1. NumTasks(Plans[n], e) \in Nat
    BY EventFacts
  <2>2. IsFiniteSet({e} \X (1 .. NumTasks(Plans[n], e)))
    <3>1. IsFiniteSet(1 .. NumTasks(Plans[n], e))
      BY <2>1, FS_Interval
    <3> QED
      BY <3>1, FS_Singleton, FS_Product
  <2>3. T(e) \subseteq {e} \X (1 .. NumTasks(Plans[n], e))
    BY DEF Range, TasksOf
  <2> QED
    BY <2>2, <2>3, FS_Subset
<1>2. f \in Surjection(Events[n], S)
  BY DEF Surjection
<1>3. IsFiniteSet(S)
  BY <1>2, PlanFinite, FS_Surjection
<1>4. \A U \in S : IsFiniteSet(U)
  BY <1>1
<1>5. IsFiniteSet(UNION S)
  BY <1>3, <1>4, FS_UNION
<1> QED
  BY <1>5 DEF Tasks

\* A finite set as a sequence without repetitions.
LEMMA SetToSeqFacts ==
    ASSUME NEW S, IsFiniteSet(S)
    PROVE  /\ SetToSeq(S) \in [1 .. Cardinality(S) -> S] /\ Cardinality(S) \in Nat
           /\ \A i, j \in DOMAIN SetToSeq(S) : SetToSeq(S)[i] = SetToSeq(S)[j] => i = j
           /\ \A s \in S : \E i \in DOMAIN SetToSeq(S) : SetToSeq(S)[i] = s
<1>1. Cardinality(S) \in Nat /\ ExistsBijection(1 .. Cardinality(S), S)
  BY FS_CardinalityType
<1>2. \E f \in [1 .. Cardinality(S) -> S] : IsInjective(f)
  BY <1>1 DEF ExistsBijection, Bijection, Injection
<1>3. SetToSeq(S) \in [1 .. Cardinality(S) -> S] /\ IsInjective(SetToSeq(S))
  BY <1>2 DEF SetToSeq
<1>4. SetToSeq(S) \in Surjection(1 .. Cardinality(S), S)
  <2>1. IsFiniteSet(1 .. Cardinality(S)) /\ Cardinality(1 .. Cardinality(S)) = Cardinality(S)
    BY <1>1, FS_Interval
  <2>2. SetToSeq(S) \in Injection(1 .. Cardinality(S), S)
    BY <1>3 DEF Injection
  <2> QED
    BY <2>1, <2>2, FS_Injection
<1> QED
  BY <1>1, <1>3, <1>4 DEF IsInjective, Surjection

\* The tasks of the events that depend on nothing are in the queue, each of them once.
LEMMA InitialQueue ==
    ASSUME Init
    PROVE  /\ queue \in Seq(Tasks[plan])
           /\ \A i \in DOMAIN queue : /\ queue[i][1] \in ScheduledEvents[plan]
                                      /\ DependenciesOf[plan][queue[i][1]] = 0
           /\ \A i, j \in DOMAIN queue : queue[i] = queue[j] => i = j
           /\ \A t \in Tasks[plan] : t[1] \in ScheduledEvents[plan] /\ DependenciesOf[plan][t[1]] = 0
                                     => t \in Range(queue)
<1> DEFINE ready == {e \in ScheduledEvents[plan] : DependenciesOf[plan][e] = 0}
           T == UNION {Range(TasksOf(Plan, e)) : e \in ready}
<1>1. plan \in DOMAIN Plans /\ queue = SetToSeq(T)
  BY DEF Init
<1>2. ASSUME NEW e \in ready
      PROVE  /\ Range(TasksOf(Plan, e)) = {<<e, i>> : i \in 1 .. NumTasks(Plan, e)}
             /\ e \in Events[plan]
  BY <1>1, EventFacts DEF Range, TasksOf
<1>3. \A t \in T : t \in Tasks[plan] /\ t[1] \in ready
  BY <1>1, <1>2, TaskFacts DEF Plan
<1>4. IsFiniteSet(T)
  BY <1>1, <1>3, TasksFinite, FS_Subset
<1>5. /\ queue \in [1 .. Cardinality(T) -> T] /\ Cardinality(T) \in Nat
      /\ \A i, j \in DOMAIN queue : queue[i] = queue[j] => i = j
  BY <1>1, <1>4, SetToSeqFacts
<1>6. DOMAIN queue = 1 .. Cardinality(T) /\ \A i \in DOMAIN queue : queue[i] \in T
  BY <1>5
<1>7. queue \in Seq(T)
  BY <1>5, FunctionIsSeq
<1>8. T \subseteq Tasks[plan]
  BY <1>3
<1>9. queue \in Seq(Tasks[plan])
  BY <1>7, <1>8
<1>10. ASSUME NEW t \in Tasks[plan], t[1] \in ready PROVE t \in Range(queue)
  <2>1. t = <<t[1], t[2]>> /\ t[2] \in 1 .. NumTasks(Plan, t[1])
    BY <1>1, TaskFacts DEF Plan
  <2>2. t \in Range(TasksOf(Plan, t[1]))
    BY <1>2, <1>10, <2>1
  <2>3. t \in T
    BY <1>10, <2>2
  <2> HIDE DEF T
  <2>4. \E i \in DOMAIN queue : queue[i] = t
    BY <1>1, <1>4, <2>3, SetToSeqFacts
  <2> QED
    BY <2>4 DEF Range
<1> QED
  BY <1>3, <1>5, <1>6, <1>9, <1>10

\* The types hold at first.
LEMMA TypeInvInit == Init => TypeInv
<1> SUFFICES ASSUME Init PROVE TypeInv
  OBVIOUS
<1>1. ChoiceTyped
  BY DEF Init, ChoiceTyped
<1>2. IsPlan(Plan) /\ ScheduledEvents[plan] \subseteq Events[plan]
  BY <1>1, PlansAssumption, EventFacts DEF ChoiceTyped, Plan
<1>3. EventsTyped
  BY <1>2 DEF Init, EventsTyped
<1>4. TasksTyped
  <2>1. queue \in Seq(Tasks[plan]) /\ semaphore \in Nat
    <3>1. queue \in Seq(Tasks[plan]) /\ semaphore = Len(queue)
      BY InitialQueue DEF Init
    <3> QED
      BY <3>1
  <2>2. Plan.chunks \in Nat
    BY <1>2 DEF IsPlan
  <2> QED
    BY <2>1, <2>2 DEF Init, TasksTyped
<1>5. ClientTyped
  <2>1. 0 \in 0 .. BufferSize /\ MaxBlocks \in 0 .. MaxBlocks /\ MaxFailures \in 0 .. MaxFailures
    BY ConstantsAssumption
  <2> QED
    BY <2>1 DEF Init, ClientTyped
<1>6. ThreadsAtWork
  BY ConstantsAssumption DEF Init, ThreadsAtWork, Threads, Labels, Busy
<1> QED
  BY <1>1, <1>3, <1>4, <1>5, <1>6 DEF TypeInv

-----------------------------------------------------------------------------
\* Sequences without repetitions and their elements.

\* The elements of a sequence.
LEMMA RangeTyped ==
    ASSUME NEW S, NEW s \in Seq(S)
    PROVE  Range(s) \subseteq S /\ (s = <<>> <=> Range(s) = {})
<1>1. DOMAIN s = 1 .. Len(s) /\ Len(s) \in Nat
  OBVIOUS
<1>2. \A i \in 1 .. Len(s) : s[i] \in S
  OBVIOUS
<1>3. s # <<>> => 1 \in 1 .. Len(s)
  BY <1>1
<1>4. s = <<>> => DOMAIN s = {}
  BY <1>1
<1> QED
  BY <1>1, <1>2, <1>3, <1>4 DEF Range

\* The elements of a sequence of one element.
LEMMA RangeSingleton ==
    ASSUME NEW t
    PROVE  Range(<<t>>) = {t} /\ IsInjective(<<t>>)
<1>1. DOMAIN <<t>> = {1} /\ <<t>>[1] = t
  OBVIOUS
<1> QED
  BY <1>1 DEF Range, IsInjective

\* The elements of two sequences, one after the other.
LEMMA RangeConcat ==
    ASSUME NEW S, NEW s \in Seq(S), NEW u \in Seq(S)
    PROVE  /\ Range(s \o u) = Range(s) \cup Range(u)
           /\ IsInjective(s) /\ IsInjective(u) /\ Range(s) \cap Range(u) = {} => IsInjective(s \o u)
<1> DEFINE n == Len(s)
           m == Len(u)
           v == s \o u
<1>1. /\ n \in Nat /\ m \in Nat /\ DOMAIN s = 1 .. n /\ DOMAIN u = 1 .. m /\ DOMAIN v = 1 .. n + m
      /\ \A i \in 1 .. n : v[i] = s[i]
      /\ \A i \in n + 1 .. n + m : v[i] = u[i - n]
  OBVIOUS
<1> HIDE DEF n, m, v
<1>2. \A i \in 1 .. m : i + n \in n + 1 .. n + m /\ v[i + n] = u[i]
  <2> TAKE i \in 1 .. m
  <2>1. i + n \in n + 1 .. n + m /\ (i + n) - n = i
    BY <1>1
  <2> QED
    BY <1>1, <2>1
<1>3. \A i \in 1 .. n + m : i \in 1 .. n \/ (i \in n + 1 .. n + m /\ i - n \in 1 .. m)
  BY <1>1
<1>4. Range(v) \subseteq Range(s) \cup Range(u)
  BY <1>1, <1>3 DEF Range
<1>5. Range(s) \subseteq Range(v)
  <2>1. \A i \in 1 .. n : i \in 1 .. n + m
    BY <1>1
  <2> QED
    BY <1>1, <2>1 DEF Range
<1>6. Range(u) \subseteq Range(v)
  <2>1. \A i \in 1 .. m : i + n \in 1 .. n + m
    BY <1>1
  <2>2. \A i \in 1 .. m : u[i] = v[i + n]
    BY <1>2
  <2> QED
    BY SMTT(30), <1>1, <2>1, <2>2 DEF Range
<1>7. ASSUME IsInjective(s), IsInjective(u), Range(s) \cap Range(u) = {},
             NEW i \in 1 .. n + m, NEW j \in 1 .. n + m, v[i] = v[j]
      PROVE  i = j
  <2>1. CASE i \in 1 .. n /\ j \in 1 .. n
    BY <1>1, <1>7, <2>1 DEF IsInjective
  <2>2. CASE i \in n + 1 .. n + m /\ j \in n + 1 .. n + m
    <3>1. i - n \in 1 .. m /\ j - n \in 1 .. m /\ u[i - n] = u[j - n]
      BY <1>1, <1>7, <2>2
    <3>2. i - n = j - n
      BY <1>1, <1>7, <3>1 DEF IsInjective
    <3> QED
      BY <1>1, <3>2
  <2>a. ASSUME NEW k \in 1 .. n PROVE v[k] \in Range(s)
    BY <1>1 DEF Range
  <2>b. ASSUME NEW k \in n + 1 .. n + m PROVE v[k] \in Range(u)
    <3>1. k - n \in 1 .. m
      BY <1>1
    <3> QED
      BY <1>1, <3>1 DEF Range
  <2>3. CASE i \in 1 .. n /\ j \in n + 1 .. n + m
    BY <1>7, <2>3, <2>a, <2>b
  <2>4. CASE i \in n + 1 .. n + m /\ j \in 1 .. n
    BY <1>7, <2>4, <2>a, <2>b
  <2> QED
    BY <1>3, <2>1, <2>2, <2>3, <2>4
<1>8. IsInjective(s) /\ IsInjective(u) /\ Range(s) \cap Range(u) = {} => IsInjective(v)
  BY <1>1, <1>7 DEF IsInjective
<1> QED
  BY <1>4, <1>5, <1>6, <1>8 DEF v

\* The elements of a sequence and one more.
LEMMA RangeAppend ==
    ASSUME NEW S, NEW s \in Seq(S), NEW t \in S
    PROVE  /\ Range(Append(s, t)) = Range(s) \cup {t}
           /\ IsInjective(s) /\ t \notin Range(s) => IsInjective(Append(s, t))
<1>1. Append(s, t) = s \o <<t>> /\ <<t>> \in Seq(S)
  OBVIOUS
<1>2. /\ Range(s \o <<t>>) = Range(s) \cup Range(<<t>>)
      /\ IsInjective(s) /\ IsInjective(<<t>>) /\ Range(s) \cap Range(<<t>>) = {} => IsInjective(s \o <<t>>)
  BY <1>1, RangeConcat
<1>3. Range(<<t>>) = {t} /\ IsInjective(<<t>>)
  BY RangeSingleton
<1> QED
  BY <1>1, <1>2, <1>3

\* The first element of a sequence and the others.
LEMMA RangeTail ==
    ASSUME NEW S, NEW s \in Seq(S), s # <<>>
    PROVE  /\ Range(s) = {Head(s)} \cup Range(Tail(s))
           /\ IsInjective(s) => IsInjective(Tail(s)) /\ Head(s) \notin Range(Tail(s))
<1> DEFINE n == Len(s)
           v == Tail(s)
<1>1. /\ n \in Nat \ {0} /\ DOMAIN s = 1 .. n /\ DOMAIN v = 1 .. n - 1 /\ Head(s) = s[1]
      /\ \A i \in 1 .. n - 1 : v[i] = s[i + 1]
  OBVIOUS
<1> HIDE DEF n, v
<1>2. \A i \in 1 .. n - 1 : i + 1 \in 1 .. n /\ i + 1 # 1
  BY <1>1
<1>3. \A i \in 1 .. n : i = 1 \/ (i - 1 \in 1 .. n - 1 /\ v[i - 1] = s[i])
  <2> TAKE i \in 1 .. n
  <2>1. i = 1 \/ i - 1 \in 1 .. n - 1
    BY <1>1
  <2>2. (i - 1) + 1 = i
    BY <1>1
  <2> QED
    BY <1>1, <2>1, <2>2
<1>4. 1 \in 1 .. n
  BY <1>1
<1>5. Range(s) \subseteq {Head(s)} \cup Range(v)
  BY SMTT(30), <1>1, <1>3 DEF Range
<1>6. {Head(s)} \cup Range(v) \subseteq Range(s)
  BY SMTT(30), <1>1, <1>2, <1>4 DEF Range
<1>7. ASSUME IsInjective(s), NEW i \in 1 .. n - 1, NEW j \in 1 .. n - 1, v[i] = v[j]
      PROVE  i = j
  <2>1. i + 1 = j + 1
    BY <1>1, <1>2, <1>7 DEF IsInjective
  <2> QED
    BY <1>1, <2>1
<1>8. IsInjective(s) => IsInjective(v)
  BY <1>1, <1>7 DEF IsInjective
<1>9. IsInjective(s) => Head(s) \notin Range(v)
  BY <1>1, <1>2, <1>4 DEF IsInjective, Range
<1> QED
  BY <1>5, <1>6, <1>8, <1>9 DEF v

\* The tasks of an event are put in the queue once each.
LEMMA RangeTasksOf ==
    ASSUME ChoiceTyped, NEW e \in Events[plan]
    PROVE  /\ Range(TasksOf(Plan, e)) = {t \in Tasks[plan] : t[1] = e}
           /\ IsInjective(TasksOf(Plan, e))
<1> DEFINE n == NumTasks(Plan, e)
           s == TasksOf(Plan, e)
<1>1. DOMAIN s = 1 .. n /\ \A i \in 1 .. n : s[i] = <<e, i>>
  BY DEF TasksOf
<1>2. \A t \in Tasks[plan] : t[1] = e => t = <<e, t[2]>> /\ t[2] \in 1 .. n
  BY TaskFacts DEF ChoiceTyped, Plan
<1>3. \A i \in 1 .. n : <<e, i>> \in Tasks[plan]
  BY TaskFacts DEF ChoiceTyped, Plan
<1> HIDE DEF n, s
<1>4. Range(s) = {t \in Tasks[plan] : t[1] = e}
  <2>1. Range(s) = {<<e, i>> : i \in 1 .. n}
    BY <1>1 DEF Range
  <2>2. \A i \in 1 .. n : <<e, i>>[1] = e
    OBVIOUS
  <2> QED
    BY <1>2, <1>3, <2>1, <2>2
<1>5. IsInjective(s)
  BY <1>1 DEF IsInjective
<1> QED
  BY <1>4, <1>5 DEF s

-----------------------------------------------------------------------------
\* The end of a query.

\* Nobody has a shared_ptr to a task.
NothingAlive ==
    /\ queue = <<>> /\ to_be_rescheduled_tasks = {}
    /\ \A x \in Threads : task[x] = NoTask
    /\ \A t \in Tasks[plan] : callback[t] # "running"

\* The same without the set Alive.
LEMMA NoneAlive ==
    ASSUME TypeInv
    PROVE  Alive = {} <=> NothingAlive
<1>1. queue = <<>> <=> Range(queue) = {}
  BY RangeTyped DEF TypeInv, TasksTyped
<1>2. Range(task) \ {NoTask} = {} <=> \A x \in Threads : task[x] = NoTask
  BY DEF TypeInv, TasksTyped, Range
<1>3. DOMAIN callback = Tasks[plan]
  BY DEF TypeInv, TasksTyped
<1> QED
  BY <1>1, <1>2, <1>3 DEF Alive, NothingAlive

\* A step after the end gives nobody a task.
LEMMA TeardownStep ==
    ASSUME TypeInv, SafeTeardown, [Next]_vars
    PROVE  SafeTeardown'
<1> USE DEF choice, event_state, scheduler, tasks_state, query_state, buffer, outcome, bounds, GoTo
<1>a. /\ pc[Client] = "closed" => NothingAlive
      /\ pc \in [Threads -> Labels] /\ DOMAIN callback = Tasks[plan]
      /\ Workers \subseteq Threads /\ Client \in Threads /\ Client \notin Workers
  BY NoneAlive, ConstantsAssumption DEF SafeTeardown, TypeInv, TasksTyped, ThreadsAtWork, Threads
<1>b. \A x \in Threads : task[x] = NoTask => pc[x] \notin Busy
  BY DEF TypeInv, ThreadsAtWork
<1>c. TypeInv' /\ plan' = plan
  BY TypeInvStep, ChoiceMade
<1>d. \A x \in Threads : \A err : AfterTask(x, err) # "closed"
  BY AfterTaskFacts
<1>e. SUFFICES ASSUME pc'[Client] = "closed" PROVE NothingAlive'
  <2>1. ASSUME NothingAlive' PROVE Alive' = {} /\ \A x \in Threads : finishing'[x] = <<>>
    <3>1. Range(queue)' = {}
      BY <1>c, <2>1, RangeTyped DEF NothingAlive, TypeInv, TasksTyped
    <3>2. (Range(task) \ {NoTask})' = {}
      BY <1>c, <2>1 DEF NothingAlive, TypeInv, TasksTyped, Range
    <3>3. \A x \in Threads : finishing'[x] = <<>>
      BY <1>c, <2>1 DEF NothingAlive, TypeInv, ThreadsAtWork, Busy
    <3> QED
      BY <1>c, <2>1, <3>1, <3>2, <3>3 DEF NothingAlive, Alive, TypeInv, TasksTyped
  <2> QED
    BY <2>1 DEF SafeTeardown
<1>1. ASSUME NEW x \in Threads, PassInterruptTest(x) PROVE NothingAlive'
  BY <1>1, <1>a, <1>b, <1>c, <1>d, <1>e DEF PassInterruptTest, NothingAlive, Busy
<1>2. ASSUME NEW x \in Threads, TaskError(x) PROVE NothingAlive'
  BY ZenonT(40), <1>2, <1>a, <1>b, <1>c, <1>d, <1>e DEF TaskError, Release, NothingAlive, Busy
<1>3. ASSUME NEW x \in Threads, TaskBlocks(x) PROVE NothingAlive'
  BY <1>3, <1>a, <1>b, <1>c, <1>d, <1>e DEF TaskBlocks, NothingAlive, Busy
<1>4. ASSUME NEW x \in Threads, Sink(x) PROVE NothingAlive'
  BY <1>4, <1>a, <1>b, <1>c, <1>d, <1>e DEF Sink, NothingAlive, Busy
<1>5. ASSUME NEW x \in Threads, BlockSink(x) PROVE NothingAlive'
  BY <1>5, <1>a, <1>b, <1>c, <1>d, <1>e DEF BlockSink, NothingAlive, Busy
<1>6. ASSUME NEW x \in Threads, Deschedule(x) PROVE NothingAlive'
  BY <1>6, <1>a, <1>b, <1>c, <1>d, <1>e DEF Deschedule, AddToBeRescheduled, Release,
      NothingAlive, Busy
<1>7. ASSUME NEW x \in Threads, FinishTask(x) PROVE NothingAlive'
  BY <1>7, <1>a, <1>b, <1>c, <1>d, <1>e DEF FinishTask, Release, NothingAlive, Busy
<1>8. ASSUME NEW x \in Threads, FinishReturns(x) PROVE NothingAlive'
  BY <1>8, <1>a, <1>b, <1>c, <1>d, <1>e DEF FinishReturns, Release, NothingAlive, Busy
<1>9. ASSUME NEW x \in Threads, CompleteDependency(x) PROVE NothingAlive'
  BY <1>9, <1>a, <1>b, <1>c, <1>d, <1>e DEF CompleteDependency, NothingAlive, Busy
<1>10. ASSUME NEW x \in Workers, SemaphoreWait(x) PROVE NothingAlive'
  BY <1>10, <1>a, <1>b, <1>c, <1>d, <1>e DEF SemaphoreWait, NothingAlive, Busy
<1>11. ASSUME NEW x \in Workers, Dequeue(x) PROVE NothingAlive'
  BY <1>11, <1>a, <1>b, <1>c, <1>d, <1>e DEF Dequeue, Execute, NothingAlive, Busy
<1>12. ASSUME NEW x \in Workers, DequeueFails(x) PROVE NothingAlive'
  BY <1>12, <1>a, <1>b, <1>c, <1>d, <1>e DEF DequeueFails, SignalAgain, NothingAlive, Busy
<1>13. ASSUME NEW t \in DOMAIN callback, Callback(t) PROVE NothingAlive'
  <2>1. pc[Client] = "closed" /\ UNCHANGED <<queue, to_be_rescheduled_tasks, task>>
    BY <1>e, <1>13 DEF Callback
  <2>2. Alive = {}
    BY <2>1 DEF SafeTeardown
  <2> QED
    BY <1>a, <1>c, <1>13, <2>1, <2>2 DEF Callback, TypeInv, TasksTyped, NothingAlive
<1>14. ASSUME NEW t \in DOMAIN callback, CallbackReturns(t) PROVE NothingAlive'
  BY <1>14, <1>a, <1>b, <1>c, <1>d, <1>e DEF CallbackReturns, RescheduleTask, NothingAlive, Busy
<1>15. CASE ExecutionFinished
  BY <1>15, <1>a, <1>b, <1>c, <1>d, <1>e DEF ExecutionFinished, NothingAlive, Busy
<1>16. CASE ExecuteTask
  BY <1>16, <1>a, <1>b, <1>c, <1>d, <1>e DEF ExecuteTask, Execute, NothingAlive, Busy
<1>17. CASE NoTaskAvailable
  <2>1. /\ pc[Client] = "no_task" /\ UNCHANGED <<queue, to_be_rescheduled_tasks, task, callback>>
        /\ \E l \in {"failed", "execute", "fetched", "unblock_wait", "fetch"} : pc' = [pc EXCEPT ![Client] = l]
    BY <1>17 DEF NoTaskAvailable, Loop, TypeInv, ClientTyped
  <2> QED
    BY <1>a, <1>e, <2>1
<1>18. CASE Fetch
  BY <1>18, <1>a, <1>b, <1>c, <1>d, <1>e DEF Fetch, NothingAlive, Busy
<1>19. CASE Fetched
  BY <1>19, <1>a, <1>b, <1>c, <1>d, <1>e DEF Fetched, NothingAlive, Busy
<1>20. CASE UnblockSinks
  BY <1>20, <1>a, <1>b, <1>c, <1>d, <1>e DEF UnblockSinks, NothingAlive, Busy
<1>21. CASE UnblockSink
  BY <1>21, <1>a, <1>b, <1>c, <1>d, <1>e DEF UnblockSink, RescheduleTask, NothingAlive, Busy
<1>22. CASE CloseResult
  BY <1>22, <1>a, <1>b, <1>c, <1>d, <1>e DEF CloseResult, NothingAlive, Busy
<1>23. CASE CancelTasks
  BY <1>23, <1>a, <1>b, <1>c, <1>d, <1>e DEF CancelTasks, NothingAlive, Busy
<1>24. CASE WorkOnTasks
  BY <1>24, <1>a, <1>b, <1>c, <1>d, <1>e DEF WorkOnTasks, Execute, NothingAlive, Busy
<1>25. CASE DestroyEvents
  <2>1. Alive = {} /\ UNCHANGED <<queue, to_be_rescheduled_tasks, task, callback>>
    BY <1>25 DEF DestroyEvents, NoTasksLeft
  <2> QED
    BY <1>c, <2>1, NoneAlive DEF NothingAlive
<1>26. CASE Interrupt
  BY <1>26, <1>a, <1>b, <1>c, <1>d, <1>e DEF Interrupt, NothingAlive, Busy
<1>27. CASE UNCHANGED vars
  BY <1>27, <1>a, <1>b, <1>c, <1>d, <1>e DEF vars, NothingAlive, Busy
<1> QED
  BY <1>1, <1>2, <1>3, <1>4, <1>5, <1>6, <1>7, <1>8, <1>9, <1>10, <1>11, <1>12, <1>13, <1>14,
      <1>15, <1>16, <1>17, <1>18, <1>19, <1>20, <1>21, <1>22, <1>23, <1>24, <1>25, <1>26, <1>27
      DEF Next, WorkerStep, ClientStep, TaskStep, Callbacks, Threads

-----------------------------------------------------------------------------
\* The semaphore of the queue.

Awake == {x \in Workers : pc[x] = "awake"}

\* A worker wakes up or stops being awake.
LEMMA AwakeCounted ==
    ASSUME NEW x \in Workers, TypeInv
    PROVE  /\ IsFiniteSet(Awake) /\ Cardinality(Awake) \in Nat
           /\ Cardinality(Awake \cup {x}) = IF x \in Awake THEN Cardinality(Awake) ELSE Cardinality(Awake) + 1
           /\ Cardinality(Awake \ {x}) = IF x \in Awake THEN Cardinality(Awake) - 1 ELSE Cardinality(Awake)
<1>1. IsFiniteSet(Awake)
  BY ConstantsAssumption, FS_Subset DEF Awake
<1>2. Cardinality(Awake) \in Nat
  BY <1>1, FS_CardinalityType
<1>3. Cardinality(Awake \cup {x}) = IF x \in Awake THEN Cardinality(Awake) ELSE Cardinality(Awake) + 1
  BY <1>1, <1>2, FS_AddElement
<1>4. Cardinality(Awake \ {x}) = IF x \in Awake THEN Cardinality(Awake) - 1 ELSE Cardinality(Awake)
  BY <1>1, <1>2, FS_RemoveElement
<1> QED
  BY <1>1, <1>2, <1>3, <1>4

\* A step that neither wakes a worker nor takes a task leaves enough signals.
LEMMA SignalsKept ==
    ASSUME TypeInv, SignalPerTask, Awake' = Awake,
           \/ UNCHANGED <<queue, semaphore>>
           \/ \E ts \in Seq(Tasks[plan]) : Enqueue(ts)
           \/ queue # <<>> /\ queue' = Tail(queue) /\ UNCHANGED semaphore
    PROVE  SignalPerTask'
<1>1. queue \in Seq(Tasks[plan]) /\ semaphore \in Nat
  BY DEF TypeInv, TasksTyped
<1>2. Cardinality(Awake) \in Nat
  BY ConstantsAssumption, FS_Subset, FS_CardinalityType DEF Awake
<1>3. Len(queue) <= semaphore + Cardinality(Awake)
  BY DEF SignalPerTask, Awake
<1>4. Len(queue') <= semaphore' + Cardinality(Awake)
  <2>1. CASE \E ts \in Seq(Tasks[plan]) : Enqueue(ts)
    <3>1. PICK ts \in Seq(Tasks[plan]) : Enqueue(ts)
      BY <2>1
    <3>2. Len(queue \o ts) = Len(queue) + Len(ts) /\ Len(ts) \in Nat /\ Len(queue) \in Nat
      BY <1>1
    <3> QED
      BY <1>1, <1>2, <1>3, <3>1, <3>2 DEF Enqueue
  <2>2. CASE queue # <<>> /\ queue' = Tail(queue) /\ UNCHANGED semaphore
    <3>1. Len(queue') = Len(queue) - 1 /\ Len(queue) \in Nat
      BY <1>1, <2>2
    <3> HIDE DEF Awake
    <3>2. semaphore' = semaphore
      BY <2>2
    <3> QED
      BY <1>1, <1>2, <1>3, <3>1, <3>2
  <2> QED
    BY <1>3, <2>1, <2>2
<1> QED
  BY <1>4 DEF SignalPerTask, Awake

\* There is a signal for each task after a step.
LEMMA SignalPerTaskStep ==
    ASSUME TypeInv, SignalPerTask, [Next]_vars
    PROVE  SignalPerTask'
<1> USE DEF choice, event_state, scheduler, tasks_state, query_state, buffer, outcome, bounds, GoTo
<1>a. /\ Workers \subseteq Threads /\ Client \in Threads /\ Client \notin Workers
      /\ pc \in [Threads -> Labels] /\ queue \in Seq(Tasks[plan]) /\ semaphore \in Nat
      /\ \A x \in Workers : pc[x] \in Busy \cup {"wait", "awake"}
  BY ConstantsAssumption DEF TypeInv, TasksTyped, ThreadsAtWork, Threads
<1>b. \A x \in Workers : \A err : AfterTask(x, err) = "wait"
  BY DEF AfterTask
<1>c. Len(queue) <= semaphore + Cardinality(Awake) /\ Len(queue) \in Nat
  BY <1>a DEF SignalPerTask, Awake
<1>d. \A t \in Tasks[plan] : <<t>> \in Seq(Tasks[plan])
  BY SingletonSeq
<1>1. ASSUME NEW x \in Threads, PassInterruptTest(x) PROVE SignalPerTask'
  <2>1. Awake' = Awake
    BY <1>a, <1>b, <1>1 DEF PassInterruptTest, Awake, Busy
  <2>2. UNCHANGED <<queue, semaphore>>
    BY <1>a, <1>1 DEF PassInterruptTest
  <2> QED
    BY <2>1, <2>2, SignalsKept
<1>2. ASSUME NEW x \in Threads, TaskError(x) PROVE SignalPerTask'
  <2>1. /\ pc[x] \in {"run", "work"} /\ UNCHANGED <<queue, semaphore>>
        /\ \E l : pc' = [pc EXCEPT ![x] = l] /\ (x = Client \/ l = AfterTask(x, TRUE))
    BY <1>2 DEF TaskError, Release
  <2>2. Awake' = Awake
    BY <1>a, <1>b, <2>1 DEF Awake
  <2> QED
    BY <2>1, <2>2, SignalsKept
<1>3. ASSUME NEW x \in Threads, TaskBlocks(x) PROVE SignalPerTask'
  <2>1. Awake' = Awake
    BY <1>a, <1>b, <1>3 DEF TaskBlocks, Awake, Busy
  <2>2. UNCHANGED <<queue, semaphore>>
    BY <1>a, <1>3 DEF TaskBlocks
  <2> QED
    BY <2>1, <2>2, SignalsKept
<1>4. ASSUME NEW x \in Threads, Sink(x) PROVE SignalPerTask'
  <2>1. Awake' = Awake
    BY <1>a, <1>b, <1>4 DEF Sink, Awake, Busy
  <2>2. UNCHANGED <<queue, semaphore>>
    BY <1>a, <1>4 DEF Sink
  <2> QED
    BY <2>1, <2>2, SignalsKept
<1>5. ASSUME NEW x \in Threads, BlockSink(x) PROVE SignalPerTask'
  <2>1. Awake' = Awake
    BY <1>a, <1>b, <1>5 DEF BlockSink, Awake, Busy
  <2>2. UNCHANGED <<queue, semaphore>>
    BY <1>a, <1>5 DEF BlockSink
  <2> QED
    BY <2>1, <2>2, SignalsKept
<1>6. ASSUME NEW x \in Threads, Deschedule(x) PROVE SignalPerTask'
  <2>1. Awake' = Awake
    BY <1>a, <1>b, <1>6 DEF Deschedule, Release, Awake, Busy
  <2>2. UNCHANGED <<queue, semaphore>>
    BY <1>a, <1>6 DEF Deschedule
  <2> QED
    BY <2>1, <2>2, SignalsKept
<1>7. ASSUME NEW x \in Threads, FinishTask(x) PROVE SignalPerTask'
  <2>1. Awake' = Awake
    BY <1>a, <1>b, <1>7 DEF FinishTask, Release, Awake, Busy
  <2>2. UNCHANGED <<queue, semaphore>>
    BY <1>a, <1>7 DEF FinishTask
  <2> QED
    BY <2>1, <2>2, SignalsKept
<1>8. ASSUME NEW x \in Threads, FinishReturns(x) PROVE SignalPerTask'
  <2>1. Awake' = Awake
    BY <1>a, <1>b, <1>8 DEF FinishReturns, Release, Awake, Busy
  <2>2. UNCHANGED <<queue, semaphore>>
    BY <1>a, <1>8 DEF FinishReturns
  <2> QED
    BY <2>1, <2>2, SignalsKept
<1>9. ASSUME NEW x \in Threads, CompleteDependency(x) PROVE SignalPerTask'
  <2>1. Awake' = Awake
    BY <1>9 DEF CompleteDependency, Awake
  <2>2. PICK p \in Head(finishing[x]).parents :
          UNCHANGED <<queue, semaphore>> \/ Enqueue(TasksOf(Plan, p))
    BY <1>9 DEF CompleteDependency, ScheduleTasks, FinishWithoutTasks
  <2>3. p \in Events[plan]
    BY <1>9, FinishingTyped DEF CompleteDependency
  <2>4. TasksOf(Plan, p) \in Seq(Tasks[plan])
    BY <2>3, TasksOfFacts DEF TypeInv
  <2> QED
    BY <2>1, <2>2, <2>4, SignalsKept
<1>10. ASSUME NEW x \in Workers, SemaphoreWait(x) PROVE SignalPerTask'
  <2>1. x \notin Awake /\ Awake' = Awake \cup {x}
    BY <1>a, <1>10 DEF SemaphoreWait, Awake
  <2>2. Cardinality(Awake') = Cardinality(Awake) + 1 /\ Cardinality(Awake) \in Nat
    BY <2>1, AwakeCounted
  <2>3. semaphore' = semaphore - 1 /\ queue' = queue
    BY <1>10 DEF SemaphoreWait
  <2> QED
    BY <1>a, <1>c, <2>2, <2>3 DEF SignalPerTask, Awake
<1>11. ASSUME NEW x \in Workers, Dequeue(x) PROVE SignalPerTask'
  <2>1. x \in Awake /\ Awake' = Awake \ {x}
    BY <1>a, <1>11 DEF Dequeue, Execute, Awake
  <2>2. Cardinality(Awake') = Cardinality(Awake) - 1 /\ Cardinality(Awake) \in Nat
    BY <2>1, AwakeCounted
  <2>3. Len(queue') = Len(queue) - 1 /\ semaphore' = semaphore
    BY <1>a, <1>11 DEF Dequeue
  <2> QED
    BY <1>a, <1>c, <2>2, <2>3 DEF SignalPerTask, Awake
<1>12. ASSUME NEW x \in Workers, DequeueFails(x) PROVE SignalPerTask'
  <2>1. x \in Awake /\ Awake' = Awake \ {x}
    BY <1>a, <1>12 DEF DequeueFails, Awake
  <2>2. /\ Cardinality(Awake') = Cardinality(Awake) - 1
        /\ Cardinality(Awake) \in Nat /\ Cardinality(Awake') \in Nat
    <3>1. Cardinality(Awake') = Cardinality(Awake) - 1 /\ IsFiniteSet(Awake)
      BY <2>1, AwakeCounted
    <3>2. IsFiniteSet(Awake')
      BY <2>1, <3>1, FS_RemoveElement
    <3> QED
      BY <3>1, <3>2, FS_CardinalityType
  <2>3. /\ queue' = queue
        /\ \/ queue = <<>> /\ semaphore' = semaphore
           \/ queue # <<>> /\ semaphore' = semaphore + 1
    BY <1>12 DEF DequeueFails, SignalAgain
  <2>4. queue = <<>> => Len(queue) = 0
    OBVIOUS
  <2> QED
    BY <1>a, <1>c, <2>2, <2>3, <2>4 DEF SignalPerTask, Awake
<1>13. ASSUME NEW t \in DOMAIN callback, Callback(t) PROVE SignalPerTask'
  <2>1. Awake' = Awake
    BY <1>a, <1>b, <1>13 DEF Callback, Awake, Busy
  <2>2. UNCHANGED <<queue, semaphore>>
    BY <1>a, <1>13 DEF Callback
  <2> QED
    BY <2>1, <2>2, SignalsKept
<1>14. ASSUME NEW t \in DOMAIN callback, CallbackReturns(t) PROVE SignalPerTask'
  <2>1. Awake' = Awake /\ t \in Tasks[plan]
    BY <1>14 DEF CallbackReturns, Awake, TypeInv, TasksTyped
  <2>2. UNCHANGED <<queue, semaphore>> \/ Enqueue(<<t>>)
    BY <1>14 DEF CallbackReturns, RescheduleTask
  <2> QED
    BY <1>d, <2>1, <2>2, SignalsKept
<1>15. CASE ExecutionFinished
  <2>1. Awake' = Awake
    BY <1>a, <1>b, <1>15 DEF ExecutionFinished, Awake, Busy
  <2>2. UNCHANGED <<queue, semaphore>>
    BY <1>a, <1>15 DEF ExecutionFinished
  <2> QED
    BY <2>1, <2>2, SignalsKept
<1>16. CASE ExecuteTask
  <2>1. Awake' = Awake
    BY <1>a, <1>16 DEF ExecuteTask, Execute, Awake
  <2>2. UNCHANGED <<queue, semaphore>> \/ (queue # <<>> /\ queue' = Tail(queue) /\ UNCHANGED semaphore)
    BY <1>16 DEF ExecuteTask
  <2> QED
    BY <2>1, <2>2, SignalsKept
<1>17. CASE NoTaskAvailable
  <2>1. Awake' = Awake
    BY <1>a, <1>b, <1>17 DEF NoTaskAvailable, Awake, Busy
  <2>2. UNCHANGED <<queue, semaphore>>
    BY <1>a, <1>17 DEF NoTaskAvailable
  <2> QED
    BY <2>1, <2>2, SignalsKept
<1>18. CASE Fetch
  <2>1. Awake' = Awake
    BY <1>a, <1>b, <1>18 DEF Fetch, Awake, Busy
  <2>2. UNCHANGED <<queue, semaphore>>
    BY <1>a, <1>18 DEF Fetch
  <2> QED
    BY <2>1, <2>2, SignalsKept
<1>19. CASE Fetched
  <2>1. Awake' = Awake
    BY <1>a, <1>b, <1>19 DEF Fetched, Awake, Busy
  <2>2. UNCHANGED <<queue, semaphore>>
    BY <1>a, <1>19 DEF Fetched
  <2> QED
    BY <2>1, <2>2, SignalsKept
<1>20. CASE UnblockSinks
  <2>1. Awake' = Awake
    BY <1>a, <1>b, <1>20 DEF UnblockSinks, Awake, Busy
  <2>2. UNCHANGED <<queue, semaphore>>
    BY <1>a, <1>20 DEF UnblockSinks
  <2> QED
    BY <2>1, <2>2, SignalsKept
<1>21. CASE UnblockSink
  <2>1. Awake' = Awake
    BY <1>a, <1>21 DEF UnblockSink, Awake
  <2>2. Head(blocked_sinks) \in Tasks[plan]
    BY <1>21 DEF UnblockSink, TypeInv, ThreadsAtWork, TasksTyped
  <2>3. UNCHANGED <<queue, semaphore>> \/ Enqueue(<<Head(blocked_sinks)>>)
    BY <1>21 DEF UnblockSink, RescheduleTask
  <2> QED
    BY <1>d, <2>1, <2>2, <2>3, SignalsKept
<1>22. CASE CloseResult
  <2>1. Awake' = Awake
    BY <1>a, <1>b, <1>22 DEF CloseResult, Awake, Busy
  <2>2. UNCHANGED <<queue, semaphore>>
    BY <1>a, <1>22 DEF CloseResult
  <2> QED
    BY <2>1, <2>2, SignalsKept
<1>23. CASE CancelTasks
  <2>1. Awake' = Awake
    BY <1>a, <1>b, <1>23 DEF CancelTasks, Awake, Busy
  <2>2. UNCHANGED <<queue, semaphore>>
    BY <1>a, <1>23 DEF CancelTasks
  <2> QED
    BY <2>1, <2>2, SignalsKept
<1>24. CASE WorkOnTasks
  <2>1. Awake' = Awake
    BY <1>a, <1>24 DEF WorkOnTasks, Execute, Awake
  <2>2. UNCHANGED <<queue, semaphore>> \/ (queue # <<>> /\ queue' = Tail(queue) /\ UNCHANGED semaphore)
    BY <1>24 DEF WorkOnTasks
  <2> QED
    BY <2>1, <2>2, SignalsKept
<1>25. CASE DestroyEvents
  <2>1. Awake' = Awake
    BY <1>a, <1>b, <1>25 DEF DestroyEvents, Awake, Busy
  <2>2. UNCHANGED <<queue, semaphore>>
    BY <1>a, <1>25 DEF DestroyEvents
  <2> QED
    BY <2>1, <2>2, SignalsKept
<1>26. CASE Interrupt
  <2>1. Awake' = Awake
    BY <1>a, <1>b, <1>26 DEF Interrupt, Awake, Busy
  <2>2. UNCHANGED <<queue, semaphore>>
    BY <1>a, <1>26 DEF Interrupt
  <2> QED
    BY <2>1, <2>2, SignalsKept
<1>27. CASE UNCHANGED vars
  BY <1>27 DEF vars, SignalPerTask
<1> QED
  BY <1>1, <1>2, <1>3, <1>4, <1>5, <1>6, <1>7, <1>8, <1>9, <1>10, <1>11, <1>12, <1>13, <1>14,
      <1>15, <1>16, <1>17, <1>18, <1>19, <1>20, <1>21, <1>22, <1>23, <1>24, <1>25, <1>26, <1>27
      DEF Next, WorkerStep, ClientStep, TaskStep, Callbacks, Threads

\* A thread is awakened for each task in the queue, and no task exists when the query has
\* ended: the types and these two properties together are inductive.
TeardownInv == TypeInv /\ SafeTeardown /\ SignalPerTask

\* The invariant holds in every reachable state.
THEOREM TeardownInvariance == Spec => []TeardownInv
<1>1. Init => TeardownInv
  <2> SUFFICES ASSUME Init PROVE TeardownInv
    OBVIOUS
  <2>1. TypeInv
    BY TypeInvInit
  <2>2. SafeTeardown
    BY DEF Init, SafeTeardown, Threads
  <2>3. SignalPerTask
    <3>1. {x \in Workers : pc[x] = "awake"} = {}
      BY ConstantsAssumption DEF Init, Threads
    <3>2. Len(queue) \in Nat /\ semaphore = Len(queue)
      BY <2>1 DEF Init, TypeInv, TasksTyped
    <3>3. Cardinality({x \in Workers : pc[x] = "awake"}) = 0
      BY <3>1, FS_EmptySet
    <3> QED
      BY <3>2, <3>3 DEF SignalPerTask
  <2> QED
    BY <2>1, <2>2, <2>3 DEF TeardownInv
<1>2. TeardownInv /\ [Next]_vars => TeardownInv'
  BY TypeInvStep, TeardownStep, SignalPerTaskStep DEF TeardownInv
<1> QED
  BY <1>1, <1>2, PTL DEF Spec

\* CancelTasks leaves no task behind: whatever callbacks and threads do after the client
\* has destroyed the events, for any plan, any number of workers and any behaviour.
THEOREM TeardownIsSafe == Spec => []SafeTeardown
<1>1. TeardownInv => SafeTeardown
  BY DEF TeardownInv
<1> QED
  BY <1>1, TeardownInvariance, PTL

\* The scheduler never forgets to wake a thread: for any plan and any number of workers,
\* a thread is awake or will be awakened for each task in the queue.
THEOREM SignalForEachTask == Spec => []SignalPerTask
<1>1. TeardownInv => SignalPerTask
  BY DEF TeardownInv
<1> QED
  BY <1>1, TeardownInvariance, PTL

-----------------------------------------------------------------------------
\* A task is in one place, and a task that is blocked is waited for.

\* The events that have all their dependencies.
Ready == {e \in Events[plan] : finished_dependencies[e] >= total_dependencies(e)}

\* Only the tasks of these events were ever seen.
OnlyReady ==
    /\ \A t \in Range(queue) \cup to_be_rescheduled_tasks \cup Range(blocked_sinks) : t[1] \in Ready
    /\ \A x \in Threads : task[x] # NoTask => task[x][1] \in Ready
    /\ \A t \in Tasks[plan] : callback[t] # "none" => t[1] \in Ready
    /\ \A e \in Events[plan] : finished_tasks[e] > 0 \/ finished[e] > 0 => e \in Ready

OnePlace ==
    /\ IsInjective(queue)
    /\ Range(queue) \cap to_be_rescheduled_tasks = {}
    /\ \A x \in Threads : task[x] \notin Range(queue) \cup to_be_rescheduled_tasks
    /\ \A x, y \in Threads : task[x] = task[y] /\ task[x] # NoTask => x = y

\* Somebody will wake the task.
Waiting(t) == callback[t] # "none" \/ t \in Range(blocked_sinks)

BlockedTasks ==
    /\ IsInjective(blocked_sinks)
    /\ \A t \in Tasks[plan] :
          Waiting(t) => /\ t \notin Range(queue)
                        /\ \A x \in Threads : task[x] = t => pc[x] = "deschedule"
    /\ \A t \in Range(blocked_sinks) : callback[t] = "none"
    /\ ~cancelled => /\ \A t \in to_be_rescheduled_tasks : Waiting(t)
                     /\ \A x \in Threads : pc[x] = "deschedule" => Waiting(task[x])

\* The inductive invariant, on top of TypeInv.
PlacesInv == OnlyReady /\ OnePlace /\ BlockedTasks

\* The number of dependencies of an event does not change.
LEMMA TotalKept ==
    ASSUME plan' = plan
    PROVE  \A e : total_dependencies(e)' = total_dependencies(e)
BY DEF total_dependencies

\* What Event::CompleteDependency does.
LEMMA CompleteDependencyEffect ==
    ASSUME TypeInv, NEW x \in Threads, CompleteDependency(x)
    PROVE  /\ UNCHANGED <<plan, to_be_rescheduled_tasks, callback, blocked_sinks, pc, task, finished_tasks,
                          cancelled, events, inserted, chunks>>
           /\ \E p \in Head(finishing[x]).parents :
                /\ p \in Events[plan]
                /\ \/ UNCHANGED <<queue, semaphore, finished, finished_dependencies, error>>
                   \/ /\ p \in events
                      /\ finished_dependencies' = [finished_dependencies EXCEPT ![p] = @ + 1]
                      /\ finished_dependencies[p] + 1 # total_dependencies(p)
                      /\ UNCHANGED <<queue, semaphore, finished, error>>
                   \/ /\ p \in events
                      /\ finished_dependencies' = [finished_dependencies EXCEPT ![p] = @ + 1]
                      /\ finished_dependencies[p] + 1 = total_dependencies(p)
                      /\ Enqueue(TasksOf(Plan, p)) /\ UNCHANGED <<finished, error>>
                   \/ /\ p \in events
                      /\ finished_dependencies' = [finished_dependencies EXCEPT ![p] = @ + 1]
                      /\ finished_dependencies[p] + 1 = total_dependencies(p)
                      /\ finished' = [finished EXCEPT ![p] = @ + 1]
                      /\ (NumTasks(Plan, p) = 0 /\ UNCHANGED error) \/ error'
                      /\ UNCHANGED <<queue, semaphore>>
<1>0. plan' = plan
  BY DEF CompleteDependency, choice
<1>1. pc[x] = "finish" /\ finished_dependencies \in [Events[plan] -> Nat]
  BY DEF CompleteDependency, TypeInv, EventsTyped
<1>2. PICK p \in Head(finishing[x]).parents :
         \/ p \notin events /\ UNCHANGED <<queue, semaphore, finished, finished_dependencies, error>>
         \/ /\ p \in events
            /\ finished_dependencies' = [finished_dependencies EXCEPT ![p] = @ + 1]
            /\ finished_dependencies'[p] # total_dependencies(p)
            /\ UNCHANGED <<queue, semaphore, finished, error>>
         \/ /\ p \in events
            /\ finished_dependencies' = [finished_dependencies EXCEPT ![p] = @ + 1]
            /\ finished_dependencies'[p] = total_dependencies(p)
            /\ Enqueue(TasksOf(Plan, p)) /\ UNCHANGED <<finished, error>>
         \/ /\ p \in events
            /\ finished_dependencies' = [finished_dependencies EXCEPT ![p] = @ + 1]
            /\ finished_dependencies'[p] = total_dependencies(p)
            /\ finished' = [finished EXCEPT ![p] = @ + 1]
            /\ (NumTasks(Plan, p) = 0 /\ UNCHANGED error) \/ error'
            /\ UNCHANGED <<queue, semaphore>>
  BY DEF CompleteDependency, ScheduleTasks, FinishWithoutTasks, HasAllDependencies, scheduler
<1>3. p \in Events[plan]
  BY <1>1, FinishingTyped
<1>4. \A f : f = [finished_dependencies EXCEPT ![p] = @ + 1] => f[p] = finished_dependencies[p] + 1
  BY <1>1, <1>3
<1>5. UNCHANGED <<plan, to_be_rescheduled_tasks, callback, blocked_sinks, pc, task, finished_tasks,
                  cancelled, events, inserted, chunks>>
  BY DEF CompleteDependency, choice, tasks_state, buffer
<1> HIDE DEF Enqueue
<1> QED
  BY <1>2, <1>3, <1>4, <1>5

\* An event that has its dependencies keeps them.
LEMMA ReadyKept ==
    ASSUME TypeInv, [Next]_vars
    PROVE  Ready \subseteq Ready'
<1> USE DEF choice, event_state, scheduler, tasks_state, query_state, buffer, outcome, bounds, GoTo
<1>a. plan' = plan /\ \A e : total_dependencies(e)' = total_dependencies(e)
  BY ChoiceMade, TotalKept
<1>b. /\ finished_dependencies \in [Events[plan] -> Nat]
      /\ \A e \in Events[plan] : total_dependencies(e) \in Nat
  BY ParentsFacts DEF TypeInv, ChoiceTyped, EventsTyped
<1>c. SUFFICES \A e \in Events[plan] : finished_dependencies'[e] >= finished_dependencies[e]
  <2>1. ASSUME NEW e \in Events[plan], finished_dependencies'[e] >= finished_dependencies[e],
               finished_dependencies[e] >= total_dependencies(e)
        PROVE  finished_dependencies'[e] >= total_dependencies(e)
    <3>1. TypeInv'
      BY TypeInvStep
    <3>2. finished_dependencies' \in [Events[plan] -> Nat]
      BY <1>a, <3>1 DEF TypeInv, EventsTyped
    <3> QED
      BY <1>b, <2>1, <3>2
  <2> QED
    BY <1>a, <2>1 DEF Ready
<1>1. ASSUME NEW x \in Threads, PassInterruptTest(x) PROVE \A e \in Events[plan] : finished_dependencies'[e] >= finished_dependencies[e]
  BY <1>1, <1>b DEF PassInterruptTest
<1>2. ASSUME NEW x \in Threads, TaskError(x) PROVE \A e \in Events[plan] : finished_dependencies'[e] >= finished_dependencies[e]
  BY <1>2, <1>b DEF TaskError
<1>3. ASSUME NEW x \in Threads, TaskBlocks(x) PROVE \A e \in Events[plan] : finished_dependencies'[e] >= finished_dependencies[e]
  BY <1>3, <1>b DEF TaskBlocks
<1>4. ASSUME NEW x \in Threads, Sink(x) PROVE \A e \in Events[plan] : finished_dependencies'[e] >= finished_dependencies[e]
  BY <1>4, <1>b DEF Sink
<1>5. ASSUME NEW x \in Threads, BlockSink(x) PROVE \A e \in Events[plan] : finished_dependencies'[e] >= finished_dependencies[e]
  BY <1>5, <1>b DEF BlockSink
<1>6. ASSUME NEW x \in Threads, Deschedule(x) PROVE \A e \in Events[plan] : finished_dependencies'[e] >= finished_dependencies[e]
  BY <1>6, <1>b DEF Deschedule
<1>7. ASSUME NEW x \in Threads, FinishTask(x) PROVE \A e \in Events[plan] : finished_dependencies'[e] >= finished_dependencies[e]
  BY <1>7, <1>b DEF FinishTask
<1>8. ASSUME NEW x \in Threads, FinishReturns(x) PROVE \A e \in Events[plan] : finished_dependencies'[e] >= finished_dependencies[e]
  BY <1>8, <1>b DEF FinishReturns
<1>9. ASSUME NEW x \in Threads, CompleteDependency(x) PROVE \A e \in Events[plan] : finished_dependencies'[e] >= finished_dependencies[e]
  <2>1. PICK p \in Events[plan] :
          \/ finished_dependencies' = finished_dependencies
          \/ finished_dependencies' = [finished_dependencies EXCEPT ![p] = @ + 1]
    BY <1>9, CompleteDependencyEffect
  <2> QED
    BY <1>b, <2>1
<1>10. ASSUME NEW x \in Workers, SemaphoreWait(x) PROVE \A e \in Events[plan] : finished_dependencies'[e] >= finished_dependencies[e]
  BY <1>10, <1>b DEF SemaphoreWait
<1>11. ASSUME NEW x \in Workers, Dequeue(x) PROVE \A e \in Events[plan] : finished_dependencies'[e] >= finished_dependencies[e]
  BY <1>11, <1>b DEF Dequeue
<1>12. ASSUME NEW x \in Workers, DequeueFails(x) PROVE \A e \in Events[plan] : finished_dependencies'[e] >= finished_dependencies[e]
  BY <1>12, <1>b DEF DequeueFails
<1>13. ASSUME NEW t \in DOMAIN callback, Callback(t) PROVE \A e \in Events[plan] : finished_dependencies'[e] >= finished_dependencies[e]
  BY <1>13, <1>b DEF Callback
<1>14. ASSUME NEW t \in DOMAIN callback, CallbackReturns(t) PROVE \A e \in Events[plan] : finished_dependencies'[e] >= finished_dependencies[e]
  BY <1>14, <1>b DEF CallbackReturns
<1>15. CASE ExecutionFinished
  BY <1>15, <1>b DEF ExecutionFinished
<1>16. CASE ExecuteTask
  BY <1>16, <1>b DEF ExecuteTask
<1>17. CASE NoTaskAvailable
  BY <1>17, <1>b DEF NoTaskAvailable
<1>18. CASE Fetch
  BY <1>18, <1>b DEF Fetch
<1>19. CASE Fetched
  BY <1>19, <1>b DEF Fetched
<1>20. CASE UnblockSinks
  BY <1>20, <1>b DEF UnblockSinks
<1>21. CASE UnblockSink
  BY <1>21, <1>b DEF UnblockSink
<1>22. CASE CloseResult
  BY <1>22, <1>b DEF CloseResult
<1>23. CASE CancelTasks
  BY <1>23, <1>b DEF CancelTasks
<1>24. CASE WorkOnTasks
  BY <1>24, <1>b DEF WorkOnTasks
<1>25. CASE DestroyEvents
  BY <1>25, <1>b DEF DestroyEvents
<1>26. CASE Interrupt
  BY <1>26, <1>b DEF Interrupt
<1>27. CASE UNCHANGED vars
  BY <1>27, <1>b DEF vars
<1> QED
  BY <1>1, <1>2, <1>3, <1>4, <1>5, <1>6, <1>7, <1>8, <1>9, <1>10, <1>11, <1>12, <1>13, <1>14,
      <1>15, <1>16, <1>17, <1>18, <1>19, <1>20, <1>21, <1>22, <1>23, <1>24, <1>25, <1>26, <1>27
      DEF Next, WorkerStep, ClientStep, TaskStep, Callbacks, Threads

\* The queue and the blocked sinks when a task is taken from them or added.
LEMMA QueueFacts ==
    ASSUME TypeInv
    PROVE  /\ queue # <<>> => /\ Head(queue) \in Tasks[plan]
                              /\ Range(queue) = {Head(queue)} \cup Range(Tail(queue))
                              /\ IsInjective(queue) =>
                                   IsInjective(Tail(queue)) /\ Head(queue) \notin Range(Tail(queue))
           /\ \A t \in Tasks[plan] :
                Enqueue(<<t>>) => /\ Range(queue') = Range(queue) \cup {t}
                                  /\ IsInjective(queue) /\ t \notin Range(queue) => IsInjective(queue')
           /\ blocked_sinks # <<>> =>
                /\ Head(blocked_sinks) \in Tasks[plan]
                /\ Range(blocked_sinks) = {Head(blocked_sinks)} \cup Range(Tail(blocked_sinks))
                /\ IsInjective(blocked_sinks) =>
                     /\ IsInjective(Tail(blocked_sinks))
                     /\ Head(blocked_sinks) \notin Range(Tail(blocked_sinks))
           /\ \A t \in Tasks[plan] :
                /\ Range(Append(blocked_sinks, t)) = Range(blocked_sinks) \cup {t}
                /\ IsInjective(blocked_sinks) /\ t \notin Range(blocked_sinks) =>
                     IsInjective(Append(blocked_sinks, t))
           /\ Range(queue) \subseteq Tasks[plan] /\ Range(blocked_sinks) \subseteq Tasks[plan]
<1>1. queue \in Seq(Tasks[plan]) /\ blocked_sinks \in Seq(Tasks[plan])
  BY DEF TypeInv, TasksTyped
<1>2. Range(queue) \subseteq Tasks[plan] /\ Range(blocked_sinks) \subseteq Tasks[plan]
  BY <1>1, RangeTyped
<1>3. ASSUME queue # <<>>
      PROVE  /\ Head(queue) \in Tasks[plan]
             /\ Range(queue) = {Head(queue)} \cup Range(Tail(queue))
             /\ IsInjective(queue) => IsInjective(Tail(queue)) /\ Head(queue) \notin Range(Tail(queue))
  BY <1>1, <1>3, RangeTail, PopFirst
<1>4. ASSUME blocked_sinks # <<>>
      PROVE  /\ Head(blocked_sinks) \in Tasks[plan]
             /\ Range(blocked_sinks) = {Head(blocked_sinks)} \cup Range(Tail(blocked_sinks))
             /\ IsInjective(blocked_sinks) =>
                  /\ IsInjective(Tail(blocked_sinks))
                  /\ Head(blocked_sinks) \notin Range(Tail(blocked_sinks))
  BY <1>1, <1>4, RangeTail, PopFirst
<1>5. ASSUME NEW t \in Tasks[plan], Enqueue(<<t>>)
      PROVE  /\ Range(queue') = Range(queue) \cup {t}
             /\ IsInjective(queue) /\ t \notin Range(queue) => IsInjective(queue')
  <2>1. queue' = queue \o <<t>>
    BY <1>5 DEF Enqueue
  <2>2. queue \o <<t>> = Append(queue, t)
    BY <1>1
  <2>3. /\ Range(Append(queue, t)) = Range(queue) \cup {t}
        /\ IsInjective(queue) /\ t \notin Range(queue) => IsInjective(Append(queue, t))
    BY <1>1, <1>5, RangeAppend
  <2> QED
    BY <2>1, <2>2, <2>3
<1>6. ASSUME NEW t \in Tasks[plan]
      PROVE  /\ Range(Append(blocked_sinks, t)) = Range(blocked_sinks) \cup {t}
             /\ IsInjective(blocked_sinks) /\ t \notin Range(blocked_sinks) =>
                  IsInjective(Append(blocked_sinks, t))
  BY <1>1, RangeAppend
<1> QED
  BY <1>2, <1>3, <1>4, <1>5, <1>6

\* The tasks of an event are put in the queue.
LEMMA EnqueueTasksOf ==
    ASSUME TypeInv, NEW p \in Events[plan], Enqueue(TasksOf(Plan, p))
    PROVE  /\ Range(queue') = Range(queue) \cup {t \in Tasks[plan] : t[1] = p}
           /\ IsInjective(queue) /\ (\A t \in Range(queue) : t[1] # p) => IsInjective(queue')
<1>1. queue \in Seq(Tasks[plan]) /\ TasksOf(Plan, p) \in Seq(Tasks[plan])
  BY TasksOfFacts DEF TypeInv, TasksTyped
<1>2. Range(TasksOf(Plan, p)) = {t \in Tasks[plan] : t[1] = p} /\ IsInjective(TasksOf(Plan, p))
  BY RangeTasksOf DEF TypeInv
<1>3. queue' = queue \o TasksOf(Plan, p)
  BY DEF Enqueue
<1>4. /\ Range(queue') = Range(queue) \cup Range(TasksOf(Plan, p))
      /\ IsInjective(queue) /\ IsInjective(TasksOf(Plan, p)) /\ Range(queue) \cap Range(TasksOf(Plan, p)) = {}
           => IsInjective(queue')
  BY <1>1, <1>3, RangeConcat
<1> QED
  BY <1>2, <1>4

\* Only tasks of events that have their dependencies are seen after a step.
LEMMA OnlyReadyStep ==
    ASSUME TypeInv, OnlyReady, [Next]_vars
    PROVE  OnlyReady'
<1> USE DEF choice, event_state, scheduler, tasks_state, query_state, buffer, outcome, bounds, GoTo
<1>a. /\ plan' = plan /\ Ready \subseteq Ready'
      /\ \A t \in Tasks[plan] : t[1] \in Events[plan] /\ t # NoTask
  BY ChoiceMade, ReadyKept, TaskFacts DEF TypeInv, ChoiceTyped
<1>b. /\ Workers \subseteq Threads /\ Client \in Threads
      /\ task \in [Threads -> Tasks[plan] \cup {NoTask}] /\ pc \in [Threads -> Labels]
      /\ callback \in [Tasks[plan] -> {"none", "registered", "running"}]
      /\ to_be_rescheduled_tasks \subseteq Tasks[plan] /\ NoTask \notin Tasks[plan]
      /\ Range(queue) \subseteq Tasks[plan]
  BY TaskFacts, QueueFacts DEF Threads, TypeInv, ChoiceTyped, TasksTyped, ThreadsAtWork
<1>c. \A x \in Threads : pc[x] \in Busy => task[x] \in Tasks[plan]
  BY BusyTask
<1>d. pc[Client] \in {"unblocking", "unblocking_wait"} => blocked_sinks # <<>> /\ ~cancelled
  BY DEF TypeInv, ThreadsAtWork, ClientTyped, Busy
<1>e. OnlyReady
  OBVIOUS
<1>f. /\ finished_tasks \in [Events[plan] -> Nat] /\ finished \in [Events[plan] -> Nat]
  BY DEF TypeInv, EventsTyped
<1>1. ASSUME NEW x \in Threads, PassInterruptTest(x) PROVE OnlyReady'
  BY <1>1, <1>a, <1>b, <1>e DEF PassInterruptTest, OnlyReady, Busy
<1>2. ASSUME NEW x \in Threads, TaskError(x) PROVE OnlyReady'
  BY <1>2, <1>a, <1>b, <1>e DEF TaskError, Release, OnlyReady, Busy
<1>3. ASSUME NEW x \in Threads, TaskBlocks(x) PROVE OnlyReady'
  BY <1>3, <1>a, <1>b, <1>e, <1>c DEF TaskBlocks, OnlyReady, Busy
<1>4. ASSUME NEW x \in Threads, Sink(x) PROVE OnlyReady'
  BY <1>4, <1>a, <1>b, <1>e DEF Sink, OnlyReady, Busy
<1>5. ASSUME NEW x \in Threads, BlockSink(x) PROVE OnlyReady'
  <2>1. task[x] \in Tasks[plan] /\ blocked_sinks' = Append(blocked_sinks, task[x])
    BY <1>c, <1>5 DEF BlockSink, Busy
  <2>2. Range(blocked_sinks') = Range(blocked_sinks) \cup {task[x]}
    BY <2>1, QueueFacts
  <2> QED
    BY <1>a, <1>b, <1>e, <1>5, <2>1, <2>2 DEF BlockSink, OnlyReady
<1>6. ASSUME NEW x \in Threads, Deschedule(x) PROVE OnlyReady'
  <2>1. /\ task[x] \in Tasks[plan] /\ task' = [task EXCEPT ![x] = NoTask]
        /\ to_be_rescheduled_tasks' \subseteq to_be_rescheduled_tasks \cup {task[x]}
        /\ UNCHANGED <<queue, callback, blocked_sinks, finished_tasks, finished>>
    BY <1>c, <1>6 DEF Deschedule, AddToBeRescheduled, Release, Busy
  <2> QED
    BY <1>a, <1>b, <1>e, <2>1 DEF OnlyReady
<1>7. ASSUME NEW x \in Threads, FinishTask(x) PROVE OnlyReady'
  <2> DEFINE e == task[x][1]
  <2>1. task[x] \in Tasks[plan] /\ e \in Events[plan] /\ e \in Ready
    BY <1>a, <1>c, <1>e, <1>7 DEF FinishTask, Busy, OnlyReady
  <2>2. /\ finished_tasks' = [finished_tasks EXCEPT ![e] = @ + 1]
        /\ finished' = finished \/ finished' = [finished EXCEPT ![e] = @ + 1]
        /\ task' = task \/ task' = [task EXCEPT ![x] = NoTask]
        /\ UNCHANGED <<queue, to_be_rescheduled_tasks, blocked_sinks, callback>>
    BY <1>7 DEF FinishTask, Release
  <2> HIDE DEF e
  <2>3. \A g \in Events[plan] : g # e => finished_tasks'[g] = finished_tasks[g] /\ finished'[g] = finished[g]
    BY <1>f, <2>1, <2>2
  <2>4. \A g \in Events[plan] : finished_tasks'[g] > 0 \/ finished'[g] > 0 => g \in Ready
    BY <1>e, <2>1, <2>3 DEF OnlyReady
  <2> QED
    BY <1>a, <1>b, <1>e, <2>2, <2>4 DEF OnlyReady
<1>8. ASSUME NEW x \in Threads, FinishReturns(x) PROVE OnlyReady'
  BY <1>8, <1>a, <1>b, <1>e DEF FinishReturns, Release, OnlyReady, Busy
<1>9. ASSUME NEW x \in Threads, CompleteDependency(x) PROVE OnlyReady'
  <2>1. PICK p \in Events[plan] :
          /\ \/ UNCHANGED <<queue, finished>>
             \/ /\ finished_dependencies' = [finished_dependencies EXCEPT ![p] = @ + 1]
                /\ finished_dependencies[p] + 1 = total_dependencies(p)
                /\ \/ Enqueue(TasksOf(Plan, p)) /\ UNCHANGED finished
                   \/ UNCHANGED queue /\ finished' = [finished EXCEPT ![p] = @ + 1]
          /\ UNCHANGED <<to_be_rescheduled_tasks, callback, blocked_sinks, task, finished_tasks>>
    BY <1>9, CompleteDependencyEffect
  <2>2. CASE UNCHANGED <<queue, finished>>
    BY <1>a, <1>b, <1>e, <2>1, <2>2 DEF OnlyReady
  <2>3. CASE ~UNCHANGED <<queue, finished>>
    <3>1. p \in Ready'
      <4>1. finished_dependencies'[p] = total_dependencies(p) /\ total_dependencies(p) \in Nat
        BY <2>1, <2>3, ParentsFacts DEF TypeInv, ChoiceTyped, EventsTyped
      <4>2. total_dependencies(p)' = total_dependencies(p)
        BY <1>a, TotalKept
      <4> QED
        BY <1>a, <4>1, <4>2 DEF Ready
    <3>2. \/ Range(queue') = Range(queue) \cup {t \in Tasks[plan] : t[1] = p} /\ UNCHANGED finished
          \/ UNCHANGED queue /\ finished' = [finished EXCEPT ![p] = @ + 1]
      BY <2>1, <2>3, EnqueueTasksOf
    <3>3. \A t \in Range(queue') : t[1] \in Ready'
      BY <1>a, <1>e, <3>1, <3>2 DEF OnlyReady
    <3>4. \A g \in Events[plan] : g # p => finished'[g] = finished[g]
      BY <1>f, <3>2
    <3>5. \A g \in Events[plan] : finished_tasks'[g] > 0 \/ finished'[g] > 0 => g \in Ready'
      BY <1>a, <1>e, <2>1, <3>1, <3>4 DEF OnlyReady
    <3> QED
      BY <1>a, <1>b, <1>e, <2>1, <3>3, <3>5 DEF OnlyReady
  <2> QED
    BY <2>2, <2>3
<1>10. ASSUME NEW x \in Workers, SemaphoreWait(x) PROVE OnlyReady'
  BY <1>10, <1>a, <1>b, <1>e DEF SemaphoreWait, OnlyReady, Busy
<1>11. ASSUME NEW x \in Workers, Dequeue(x) PROVE OnlyReady'
  BY <1>11, <1>a, <1>b, <1>e, QueueFacts DEF Dequeue, Execute, OnlyReady, Busy
<1>12. ASSUME NEW x \in Workers, DequeueFails(x) PROVE OnlyReady'
  BY <1>12, <1>a, <1>b, <1>e DEF DequeueFails, OnlyReady, Busy
<1>13. ASSUME NEW t \in DOMAIN callback, Callback(t) PROVE OnlyReady'
  BY <1>13, <1>a, <1>b, <1>e DEF Callback, OnlyReady, Busy
<1>14. ASSUME NEW t \in DOMAIN callback, CallbackReturns(t) PROVE OnlyReady'
  BY <1>14, <1>a, <1>b, <1>e, QueueFacts DEF CallbackReturns, RescheduleTask, OnlyReady, Busy
<1>15. CASE ExecutionFinished
  BY <1>15, <1>a, <1>b, <1>e DEF ExecutionFinished, OnlyReady, Busy
<1>16. CASE ExecuteTask
  BY ZenonT(40), <1>16, <1>a, <1>b, <1>e, QueueFacts DEF ExecuteTask, Execute, OnlyReady, Busy
<1>17. CASE NoTaskAvailable
  BY <1>17, <1>a, <1>b, <1>e DEF NoTaskAvailable, OnlyReady, Busy
<1>18. CASE Fetch
  BY <1>18, <1>a, <1>b, <1>e DEF Fetch, OnlyReady, Busy
<1>19. CASE Fetched
  BY <1>19, <1>a, <1>b, <1>e DEF Fetched, OnlyReady, Busy
<1>20. CASE UnblockSinks
  BY <1>20, <1>a, <1>b, <1>e DEF UnblockSinks, OnlyReady, Busy
<1>21. CASE UnblockSink
  BY <1>21, <1>a, <1>b, <1>e, <1>d, QueueFacts DEF UnblockSink, RescheduleTask, OnlyReady, Busy
<1>22. CASE CloseResult
  BY <1>22, <1>a, <1>b, <1>e DEF CloseResult, OnlyReady, Busy
<1>23. CASE CancelTasks
  BY <1>23, <1>a, <1>b, <1>e DEF CancelTasks, OnlyReady, Busy
<1>24. CASE WorkOnTasks
  BY <1>24, <1>a, <1>b, <1>e, QueueFacts DEF WorkOnTasks, Execute, OnlyReady, Busy
<1>25. CASE DestroyEvents
  BY <1>25, <1>a, <1>b, <1>e DEF DestroyEvents, OnlyReady, Busy
<1>26. CASE Interrupt
  BY <1>26, <1>a, <1>b, <1>e DEF Interrupt, OnlyReady, Busy
<1>27. CASE UNCHANGED vars
  BY <1>27, <1>a, <1>b, <1>e DEF vars, OnlyReady, Busy
<1> QED
  BY <1>1, <1>2, <1>3, <1>4, <1>5, <1>6, <1>7, <1>8, <1>9, <1>10, <1>11, <1>12, <1>13, <1>14,
      <1>15, <1>16, <1>17, <1>18, <1>19, <1>20, <1>21, <1>22, <1>23, <1>24, <1>25, <1>26, <1>27
      DEF Next, WorkerStep, ClientStep, TaskStep, Callbacks, Threads

\* A task is in one place after a step.
LEMMA OnePlaceStep ==
    ASSUME TypeInv, OnlyReady, OnePlace, [Next]_vars
    PROVE  OnePlace'
<1> USE DEF choice, event_state, scheduler, tasks_state, query_state, buffer, outcome, bounds, GoTo
<1>a. /\ plan' = plan /\ Ready \subseteq Ready'
      /\ \A t \in Tasks[plan] : t[1] \in Events[plan] /\ t # NoTask
  BY ChoiceMade, ReadyKept, TaskFacts DEF TypeInv, ChoiceTyped
<1>b. /\ Workers \subseteq Threads /\ Client \in Threads
      /\ task \in [Threads -> Tasks[plan] \cup {NoTask}] /\ pc \in [Threads -> Labels]
      /\ callback \in [Tasks[plan] -> {"none", "registered", "running"}]
      /\ to_be_rescheduled_tasks \subseteq Tasks[plan] /\ NoTask \notin Tasks[plan]
      /\ Range(queue) \subseteq Tasks[plan]
  BY TaskFacts, QueueFacts DEF Threads, TypeInv, ChoiceTyped, TasksTyped, ThreadsAtWork
<1>c. \A x \in Threads : pc[x] \in Busy => task[x] \in Tasks[plan]
  BY BusyTask
<1>d. pc[Client] \in {"unblocking", "unblocking_wait"} => blocked_sinks # <<>> /\ ~cancelled
  BY DEF TypeInv, ThreadsAtWork, ClientTyped, Busy
<1>e. OnePlace
  OBVIOUS
<1>1. ASSUME NEW x \in Threads, PassInterruptTest(x) PROVE OnePlace'
  BY <1>1, <1>a, <1>b, <1>e DEF PassInterruptTest, OnePlace, Busy
<1>2. ASSUME NEW x \in Threads, TaskError(x) PROVE OnePlace'
  <2>1. /\ task' = task \/ task' = [task EXCEPT ![x] = NoTask]
        /\ to_be_rescheduled_tasks' \subseteq to_be_rescheduled_tasks /\ UNCHANGED queue
    BY <1>2 DEF TaskError, Release
  <2> QED
    BY <1>b, <1>e, <2>1 DEF OnePlace
<1>3. ASSUME NEW x \in Threads, TaskBlocks(x) PROVE OnePlace'
  BY <1>3, <1>a, <1>b, <1>e DEF TaskBlocks, OnePlace, Busy
<1>4. ASSUME NEW x \in Threads, Sink(x) PROVE OnePlace'
  BY <1>4, <1>a, <1>b, <1>e DEF Sink, OnePlace, Busy
<1>5. ASSUME NEW x \in Threads, BlockSink(x) PROVE OnePlace'
  BY <1>5, <1>a, <1>b, <1>e DEF BlockSink, OnePlace, Busy
<1>6. ASSUME NEW x \in Threads, Deschedule(x) PROVE OnePlace'
  <2>1. /\ task[x] \in Tasks[plan] /\ task' = [task EXCEPT ![x] = NoTask]
        /\ to_be_rescheduled_tasks' \subseteq to_be_rescheduled_tasks \cup {task[x]}
        /\ UNCHANGED queue
    BY <1>c, <1>6 DEF Deschedule, AddToBeRescheduled, Release, Busy
  <2> QED
    BY <1>b, <1>e, <2>1 DEF OnePlace
<1>7. ASSUME NEW x \in Threads, FinishTask(x) PROVE OnePlace'
  <2>1. /\ task' = task \/ task' = [task EXCEPT ![x] = NoTask]
        /\ to_be_rescheduled_tasks' \subseteq to_be_rescheduled_tasks /\ UNCHANGED queue
    BY <1>7 DEF FinishTask, Release
  <2> QED
    BY <1>b, <1>e, <2>1 DEF OnePlace
<1>8. ASSUME NEW x \in Threads, FinishReturns(x) PROVE OnePlace'
  <2>1. /\ task' = task \/ task' = [task EXCEPT ![x] = NoTask]
        /\ to_be_rescheduled_tasks' \subseteq to_be_rescheduled_tasks /\ UNCHANGED queue
    BY <1>8 DEF FinishReturns, Release
  <2> QED
    BY <1>b, <1>e, <2>1 DEF OnePlace
<1>9. ASSUME NEW x \in Threads, CompleteDependency(x) PROVE OnePlace'
  <2>1. PICK p \in Events[plan] :
          /\ \/ UNCHANGED queue
             \/ finished_dependencies[p] + 1 = total_dependencies(p) /\ Enqueue(TasksOf(Plan, p))
          /\ UNCHANGED <<to_be_rescheduled_tasks, task>>
    BY <1>9, CompleteDependencyEffect
  <2>2. CASE finished_dependencies[p] + 1 = total_dependencies(p) /\ Enqueue(TasksOf(Plan, p))
    <3>1. p \notin Ready
      BY <2>2, ParentsFacts DEF Ready, TypeInv, ChoiceTyped, EventsTyped
    <3>2. /\ Range(queue') = Range(queue) \cup {t \in Tasks[plan] : t[1] = p}
          /\ IsInjective(queue) /\ (\A t \in Range(queue) : t[1] # p) => IsInjective(queue')
      BY <2>2, EnqueueTasksOf
    <3>3. \A t \in Range(queue) \cup to_be_rescheduled_tasks : t[1] # p
      BY <3>1 DEF OnlyReady
    <3>4. \A x1 \in Threads : task[x1] # NoTask => task[x1][1] # p
      BY <3>1 DEF OnlyReady
    <3> QED
      BY <1>a, <1>b, <1>e, <2>1, <3>2, <3>3, <3>4 DEF OnePlace
  <2> QED
    BY <1>e, <2>1, <2>2 DEF OnePlace
<1>10. ASSUME NEW x \in Workers, SemaphoreWait(x) PROVE OnePlace'
  BY <1>10, <1>a, <1>b, <1>e DEF SemaphoreWait, OnePlace, Busy
<1>11. ASSUME NEW x \in Workers, Dequeue(x) PROVE OnePlace'
  BY <1>11, <1>a, <1>b, <1>e, QueueFacts DEF Dequeue, Execute, OnePlace, Busy
<1>12. ASSUME NEW x \in Workers, DequeueFails(x) PROVE OnePlace'
  BY <1>12, <1>a, <1>b, <1>e DEF DequeueFails, OnePlace, Busy
<1>13. ASSUME NEW t \in DOMAIN callback, Callback(t) PROVE OnePlace'
  BY <1>13, <1>a, <1>b, <1>e DEF Callback, OnePlace, Busy
<1>14. ASSUME NEW t \in DOMAIN callback, CallbackReturns(t) PROVE OnePlace'
  BY <1>14, <1>a, <1>b, <1>e, QueueFacts DEF CallbackReturns, RescheduleTask, OnePlace, Busy
<1>15. CASE ExecutionFinished
  BY <1>15, <1>a, <1>b, <1>e DEF ExecutionFinished, OnePlace, Busy
<1>16. CASE ExecuteTask
  <2>1. /\ UNCHANGED to_be_rescheduled_tasks
        /\ \/ UNCHANGED <<queue, task>>
           \/ queue # <<>> /\ queue' = Tail(queue) /\ task' = [task EXCEPT ![Client] = Head(queue)]
    BY <1>b, <1>16 DEF ExecuteTask, Execute
  <2> QED
    BY <1>a, <1>b, <1>e, <2>1, QueueFacts DEF OnePlace
<1>17. CASE NoTaskAvailable
  BY <1>17, <1>a, <1>b, <1>e DEF NoTaskAvailable, OnePlace, Busy
<1>18. CASE Fetch
  BY <1>18, <1>a, <1>b, <1>e DEF Fetch, OnePlace, Busy
<1>19. CASE Fetched
  BY <1>19, <1>a, <1>b, <1>e DEF Fetched, OnePlace, Busy
<1>20. CASE UnblockSinks
  BY <1>20, <1>a, <1>b, <1>e DEF UnblockSinks, OnePlace, Busy
<1>21. CASE UnblockSink
  BY <1>21, <1>a, <1>b, <1>e, <1>d, QueueFacts DEF UnblockSink, RescheduleTask, OnePlace, Busy
<1>22. CASE CloseResult
  BY <1>22, <1>a, <1>b, <1>e DEF CloseResult, OnePlace, Busy
<1>23. CASE CancelTasks
  <2>1. /\ task' = task \/ task' = [task EXCEPT ![Client] = NoTask]
        /\ to_be_rescheduled_tasks' \subseteq to_be_rescheduled_tasks /\ UNCHANGED queue
    BY <1>23 DEF CancelTasks
  <2> QED
    BY <1>b, <1>e, <2>1 DEF OnePlace
<1>24. CASE WorkOnTasks
  BY <1>24, <1>a, <1>b, <1>e, QueueFacts DEF WorkOnTasks, Execute, OnePlace, Busy
<1>25. CASE DestroyEvents
  BY <1>25, <1>a, <1>b, <1>e DEF DestroyEvents, OnePlace, Busy
<1>26. CASE Interrupt
  BY <1>26, <1>a, <1>b, <1>e DEF Interrupt, OnePlace, Busy
<1>27. CASE UNCHANGED vars
  BY <1>27, <1>a, <1>b, <1>e DEF vars, OnePlace, Busy
<1> QED
  BY <1>1, <1>2, <1>3, <1>4, <1>5, <1>6, <1>7, <1>8, <1>9, <1>10, <1>11, <1>12, <1>13, <1>14,
      <1>15, <1>16, <1>17, <1>18, <1>19, <1>20, <1>21, <1>22, <1>23, <1>24, <1>25, <1>26, <1>27
      DEF Next, WorkerStep, ClientStep, TaskStep, Callbacks, Threads

\* A blocked task is not executed and will be woken, after a step too.
LEMMA BlockedTasksStep ==
    ASSUME TypeInv, PlacesInv, [Next]_vars
    PROVE  BlockedTasks'
<1> USE DEF choice, event_state, scheduler, tasks_state, query_state, buffer, outcome, bounds, GoTo
<1>a. /\ plan' = plan /\ Ready \subseteq Ready'
      /\ \A t \in Tasks[plan] : t[1] \in Events[plan] /\ t # NoTask
  BY ChoiceMade, ReadyKept, TaskFacts DEF TypeInv, ChoiceTyped
<1>b. /\ Workers \subseteq Threads /\ Client \in Threads
      /\ task \in [Threads -> Tasks[plan] \cup {NoTask}] /\ pc \in [Threads -> Labels]
      /\ callback \in [Tasks[plan] -> {"none", "registered", "running"}]
      /\ to_be_rescheduled_tasks \subseteq Tasks[plan] /\ NoTask \notin Tasks[plan]
      /\ Range(queue) \subseteq Tasks[plan]
  BY TaskFacts, QueueFacts DEF Threads, TypeInv, ChoiceTyped, TasksTyped, ThreadsAtWork
<1>c. \A x \in Threads : pc[x] \in Busy => task[x] \in Tasks[plan]
  BY BusyTask
<1>d. pc[Client] \in {"unblocking", "unblocking_wait"} => blocked_sinks # <<>> /\ ~cancelled
  BY DEF TypeInv, ThreadsAtWork, ClientTyped, Busy
<1>e. BlockedTasks /\ OnePlace /\ OnlyReady /\ Range(blocked_sinks) \subseteq Tasks[plan]
  BY QueueFacts DEF PlacesInv
<1>f. \A x \in Threads : \A err : AfterTask(x, err) # "deschedule"
  BY AfterTaskFacts
<1>g. cancelled \in BOOLEAN
  BY DEF TypeInv, ClientTyped
<1>1. ASSUME NEW x \in Threads, PassInterruptTest(x) PROVE BlockedTasks'
  <2>1. /\ UNCHANGED <<queue, to_be_rescheduled_tasks, callback, blocked_sinks, cancelled>>
        /\ task' = task \/ task' = [task EXCEPT ![x] = NoTask]
        /\ pc[x] # "deschedule" /\ \E l : l # "deschedule" /\ pc' = [pc EXCEPT ![x] = l]
    BY <1>f, <1>1 DEF PassInterruptTest
  <2> QED
    BY <1>a, <1>b, <1>e, <2>1 DEF BlockedTasks, Waiting
<1>2. ASSUME NEW x \in Threads, TaskError(x) PROVE BlockedTasks'
  <2>1. /\ UNCHANGED <<queue, to_be_rescheduled_tasks, callback, blocked_sinks, cancelled>>
        /\ task' = task \/ task' = [task EXCEPT ![x] = NoTask]
        /\ pc[x] # "deschedule" /\ \E l : l # "deschedule" /\ pc' = [pc EXCEPT ![x] = l]
    BY <1>f, <1>2 DEF TaskError, Release
  <2> QED
    BY <1>a, <1>b, <1>e, <2>1 DEF BlockedTasks, Waiting
<1>3. ASSUME NEW x \in Threads, TaskBlocks(x) PROVE BlockedTasks'
  <2>1. /\ task[x] \in Tasks[plan] /\ callback[task[x]] = "none" /\ pc[x] = "work"
        /\ callback' = [callback EXCEPT ![task[x]] = "registered"]
        /\ pc' = [pc EXCEPT ![x] = "deschedule"]
        /\ UNCHANGED <<queue, to_be_rescheduled_tasks, blocked_sinks, task, cancelled>>
    BY <1>c, <1>3 DEF TaskBlocks, Busy
  <2>2. ~Waiting(task[x]) /\ task[x] \notin Range(queue) /\ \A y \in Threads : task[y] = task[x] => y = x
    BY <1>b, <1>e, <2>1 DEF BlockedTasks, OnePlace
  <2> QED
    BY <1>a, <1>b, <1>e, <2>1, <2>2 DEF BlockedTasks, Waiting
<1>4. ASSUME NEW x \in Threads, Sink(x) PROVE BlockedTasks'
  <2>1. /\ UNCHANGED <<queue, to_be_rescheduled_tasks, callback, blocked_sinks, cancelled>>
        /\ task' = task \/ task' = [task EXCEPT ![x] = NoTask]
        /\ pc[x] # "deschedule" /\ \E l : l # "deschedule" /\ pc' = [pc EXCEPT ![x] = l]
    BY <1>f, <1>4 DEF Sink
  <2> QED
    BY <1>a, <1>b, <1>e, <2>1 DEF BlockedTasks, Waiting
<1>5. ASSUME NEW x \in Threads, BlockSink(x) PROVE BlockedTasks'
  <2>1. /\ task[x] \in Tasks[plan] /\ pc[x] = "block_sink"
        /\ blocked_sinks' = Append(blocked_sinks, task[x])
        /\ pc' = [pc EXCEPT ![x] = "deschedule"]
        /\ UNCHANGED <<queue, to_be_rescheduled_tasks, callback, task, cancelled>>
    BY <1>c, <1>5 DEF BlockSink, Busy
  <2>2. ~Waiting(task[x]) /\ task[x] \notin Range(queue) /\ \A y \in Threads : task[y] = task[x] => y = x
    BY <1>b, <1>e, <2>1 DEF BlockedTasks, OnePlace
  <2>3. Range(blocked_sinks') = Range(blocked_sinks) \cup {task[x]} /\ IsInjective(blocked_sinks')
    BY <1>e, <2>1, <2>2, QueueFacts DEF BlockedTasks, Waiting
  <2> QED
    BY <1>a, <1>b, <1>e, <2>1, <2>2, <2>3 DEF BlockedTasks, Waiting
<1>6. ASSUME NEW x \in Threads, Deschedule(x) PROVE BlockedTasks'
  <2>1. /\ task[x] \in Tasks[plan] /\ task' = [task EXCEPT ![x] = NoTask]
        /\ cancelled \/ to_be_rescheduled_tasks' = to_be_rescheduled_tasks \cup {task[x]}
        /\ pc[x] = "deschedule" /\ \E l : l # "deschedule" /\ pc' = [pc EXCEPT ![x] = l]
        /\ UNCHANGED <<queue, callback, blocked_sinks, cancelled>>
    BY <1>c, <1>f, <1>6 DEF Deschedule, AddToBeRescheduled, Release, Busy
  <2> QED
    BY <1>a, <1>b, <1>e, <2>1 DEF BlockedTasks, Waiting
<1>7. ASSUME NEW x \in Threads, FinishTask(x) PROVE BlockedTasks'
  <2>1. /\ UNCHANGED <<queue, to_be_rescheduled_tasks, callback, blocked_sinks, cancelled>>
        /\ task' = task \/ task' = [task EXCEPT ![x] = NoTask]
        /\ pc[x] # "deschedule" /\ \E l : l # "deschedule" /\ pc' = [pc EXCEPT ![x] = l]
    BY <1>f, <1>7 DEF FinishTask, Release
  <2> QED
    BY <1>a, <1>b, <1>e, <2>1 DEF BlockedTasks, Waiting
<1>8. ASSUME NEW x \in Threads, FinishReturns(x) PROVE BlockedTasks'
  <2>1. /\ UNCHANGED <<queue, to_be_rescheduled_tasks, callback, blocked_sinks, cancelled>>
        /\ task' = task \/ task' = [task EXCEPT ![x] = NoTask]
        /\ pc[x] # "deschedule"
        /\ \/ UNCHANGED pc
           \/ \E l : l # "deschedule" /\ pc' = [pc EXCEPT ![x] = l]
    BY <1>f, <1>8 DEF FinishReturns, Release
  <2> QED
    BY <1>a, <1>b, <1>e, <2>1 DEF BlockedTasks, Waiting
<1>9. ASSUME NEW x \in Threads, CompleteDependency(x) PROVE BlockedTasks'
  <2>1. PICK p \in Events[plan] :
          /\ \/ UNCHANGED queue
             \/ finished_dependencies[p] + 1 = total_dependencies(p) /\ Enqueue(TasksOf(Plan, p))
          /\ UNCHANGED <<to_be_rescheduled_tasks, callback, blocked_sinks, pc, task, cancelled>>
    BY <1>9, CompleteDependencyEffect
  <2>2. CASE finished_dependencies[p] + 1 = total_dependencies(p) /\ Enqueue(TasksOf(Plan, p))
    <3>1. p \notin Ready
      BY <2>2, ParentsFacts DEF Ready, TypeInv, ChoiceTyped, EventsTyped
    <3>2. Range(queue') = Range(queue) \cup {t \in Tasks[plan] : t[1] = p}
      BY <2>2, EnqueueTasksOf
    <3>3. \A t \in Tasks[plan] : Waiting(t) => t[1] # p
      BY <1>e, <3>1 DEF OnlyReady, Waiting
    <3> QED
      BY <1>a, <1>b, <1>e, <2>1, <3>2, <3>3 DEF BlockedTasks, Waiting
  <2> QED
    BY <1>a, <1>e, <2>1, <2>2 DEF BlockedTasks, Waiting
<1>10. ASSUME NEW x \in Workers, SemaphoreWait(x) PROVE BlockedTasks'
  <2>1. /\ UNCHANGED <<queue, to_be_rescheduled_tasks, callback, blocked_sinks, cancelled>>
        /\ task' = task \/ task' = [task EXCEPT ![x] = NoTask]
        /\ pc[x] # "deschedule" /\ \E l : l # "deschedule" /\ pc' = [pc EXCEPT ![x] = l]
    BY <1>f, <1>10 DEF SemaphoreWait
  <2> QED
    BY <1>a, <1>b, <1>e, <2>1 DEF BlockedTasks, Waiting
<1>11. ASSUME NEW x \in Workers, Dequeue(x) PROVE BlockedTasks'
  <2>1. /\ queue # <<>> /\ queue' = Tail(queue) /\ task' = [task EXCEPT ![x] = Head(queue)]
        /\ \E l \in {"run", "work"} : pc' = [pc EXCEPT ![x] = l]
        /\ pc[x] # "deschedule"
        /\ UNCHANGED <<to_be_rescheduled_tasks, callback, blocked_sinks, cancelled>>
    BY <1>11 DEF Dequeue, Execute
  <2>2. Head(queue) \in Tasks[plan] /\ ~Waiting(Head(queue)) /\ Range(queue') \subseteq Range(queue)
    BY <1>e, <2>1, QueueFacts DEF BlockedTasks
  <2> QED
    BY <1>a, <1>b, <1>e, <2>1, <2>2 DEF BlockedTasks, Waiting
<1>12. ASSUME NEW x \in Workers, DequeueFails(x) PROVE BlockedTasks'
  <2>1. /\ UNCHANGED <<queue, to_be_rescheduled_tasks, callback, blocked_sinks, cancelled>>
        /\ task' = task \/ task' = [task EXCEPT ![x] = NoTask]
        /\ pc[x] # "deschedule" /\ \E l : l # "deschedule" /\ pc' = [pc EXCEPT ![x] = l]
    BY <1>f, <1>12 DEF DequeueFails
  <2> QED
    BY <1>a, <1>b, <1>e, <2>1 DEF BlockedTasks, Waiting
<1>13. ASSUME NEW t \in DOMAIN callback, Callback(t) PROVE BlockedTasks'
  <2>1. /\ t \in Tasks[plan] /\ callback[t] = "registered"
        /\ callback' = [callback EXCEPT ![t] = IF t \in Alive THEN "running" ELSE "none"]
        /\ UNCHANGED <<queue, to_be_rescheduled_tasks, blocked_sinks, task, pc, cancelled>>
    BY <1>b, <1>13 DEF Callback
  <2>2. t \notin Alive => t \notin to_be_rescheduled_tasks /\ \A x \in Threads : task[x] # t
    BY <1>b, <2>1 DEF Alive, Range
  <2> HIDE DEF Alive
  <2>3. callback'[t] \in {"running", "none"} /\ (t \in Alive => callback'[t] = "running")
    BY <1>b, <2>1
  <2>4. \A u \in Tasks[plan] : u # t => callback'[u] = callback[u]
    BY <1>b, <2>1
  <2>5. \A x \in Threads : pc[x] = "deschedule" => task[x] \in Tasks[plan]
    BY <1>c DEF Busy
  <2> QED
    BY <1>a, <1>b, <1>e, <2>1, <2>2, <2>3, <2>4, <2>5 DEF BlockedTasks, Waiting
<1>14. ASSUME NEW t \in DOMAIN callback, CallbackReturns(t) PROVE BlockedTasks'
  <2>1. /\ t \in Tasks[plan] /\ callback[t] = "running"
        /\ callback' = [callback EXCEPT ![t] = "none"]
        /\ UNCHANGED <<blocked_sinks, task, pc, cancelled>>
    BY <1>b, <1>14 DEF CallbackReturns
  <2>2. Waiting(t) /\ t \notin Range(blocked_sinks)
    BY <1>e, <2>1 DEF BlockedTasks, Waiting
  <2>3. \A u \in Tasks[plan] : u # t => callback'[u] = callback[u]
    BY <1>b, <2>1
  <2>4. CASE cancelled
    <3>1. UNCHANGED <<queue, to_be_rescheduled_tasks>>
      BY <1>14, <2>4 DEF CallbackReturns, RescheduleTask
    <3> QED
      BY <1>a, <1>b, <1>e, <2>1, <2>2, <2>3, <2>4, <3>1 DEF BlockedTasks, Waiting
  <2>5. CASE ~cancelled
    <3>1. /\ t \in to_be_rescheduled_tasks /\ to_be_rescheduled_tasks' = to_be_rescheduled_tasks \ {t}
          /\ Enqueue(<<t>>)
      BY <1>14, <2>5 DEF CallbackReturns, RescheduleTask
    <3>2. Range(queue') = Range(queue) \cup {t}
      BY <2>1, <3>1, QueueFacts
    <3>3. \A x \in Threads : task[x] # t
      BY <1>e, <3>1 DEF OnePlace
    <3>4. \A x \in Threads : pc[x] = "deschedule" => task[x] \in Tasks[plan]
      BY <1>c DEF Busy
    <3>5. /\ IsInjective(blocked_sinks)' /\ \A u \in Range(blocked_sinks)' : callback'[u] = "none"
      BY <1>e, <2>1, <2>2, <2>3 DEF BlockedTasks
    <3>6. \A u \in Tasks[plan] : Waiting(u)' => u # t /\ Waiting(u)
      BY <1>b, <2>1, <2>2, <2>3 DEF Waiting
    <3>7. \A u \in Tasks[plan] : u # t /\ Waiting(u) => Waiting(u)'
      BY <2>1, <2>3 DEF Waiting
    <3> QED
      BY <1>a, <1>b, <1>e, <2>1, <3>1, <3>2, <3>3, <3>4, <3>5, <3>6, <3>7 DEF BlockedTasks
  <2> QED
    BY <1>g, <2>4, <2>5
<1>15. CASE ExecutionFinished
  <2>1. /\ UNCHANGED <<queue, to_be_rescheduled_tasks, callback, blocked_sinks, cancelled>>
        /\ task' = task \/ task' = [task EXCEPT ![Client] = NoTask]
        /\ pc[Client] # "deschedule" /\ \E l : l # "deschedule" /\ pc' = [pc EXCEPT ![Client] = l]
    BY <1>f, <1>15 DEF ExecutionFinished
  <2> QED
    BY <1>a, <1>b, <1>e, <2>1 DEF BlockedTasks, Waiting
<1>16. CASE ExecuteTask
  <2>1. /\ UNCHANGED <<to_be_rescheduled_tasks, callback, blocked_sinks, cancelled>>
        /\ \/ UNCHANGED <<queue, task>>
           \/ queue # <<>> /\ queue' = Tail(queue) /\ task' = [task EXCEPT ![Client] = Head(queue)]
        /\ pc[Client] = "execute"
        /\ \E l : l # "deschedule" /\ pc' = [pc EXCEPT ![Client] = l]
    BY <1>b, <1>16 DEF ExecuteTask, Execute
  <2>2. CASE UNCHANGED <<queue, task>>
    BY <1>a, <1>b, <1>e, <2>1, <2>2 DEF BlockedTasks, Waiting
  <2>3. CASE queue # <<>> /\ queue' = Tail(queue) /\ task' = [task EXCEPT ![Client] = Head(queue)]
    <3>1. Head(queue) \in Tasks[plan] /\ ~Waiting(Head(queue)) /\ Range(queue') \subseteq Range(queue)
      BY <1>e, <2>3, QueueFacts DEF BlockedTasks
    <3> QED
      BY <1>a, <1>b, <1>e, <2>1, <2>3, <3>1 DEF BlockedTasks, Waiting
  <2> QED
    BY <2>1, <2>2, <2>3
<1>17. CASE NoTaskAvailable
  <2>1. /\ UNCHANGED <<queue, to_be_rescheduled_tasks, callback, blocked_sinks, cancelled>>
        /\ task' = task \/ task' = [task EXCEPT ![Client] = NoTask]
        /\ pc[Client] # "deschedule" /\ \E l : l # "deschedule" /\ pc' = [pc EXCEPT ![Client] = l]
    BY <1>f, <1>17 DEF NoTaskAvailable, Loop
  <2> QED
    BY <1>a, <1>b, <1>e, <2>1 DEF BlockedTasks, Waiting
<1>18. CASE Fetch
  <2>1. /\ UNCHANGED <<queue, to_be_rescheduled_tasks, callback, blocked_sinks, cancelled, task>>
        /\ pc[Client] # "deschedule"
        /\ \/ UNCHANGED pc
           \/ \E l : l # "deschedule" /\ pc' = [pc EXCEPT ![Client] = l]
    BY <1>18 DEF Fetch
  <2> QED
    BY <1>a, <1>b, <1>e, <2>1 DEF BlockedTasks, Waiting
<1>19. CASE Fetched
  <2>1. /\ UNCHANGED <<queue, to_be_rescheduled_tasks, callback, blocked_sinks, cancelled>>
        /\ task' = task \/ task' = [task EXCEPT ![Client] = NoTask]
        /\ pc[Client] # "deschedule" /\ \E l : l # "deschedule" /\ pc' = [pc EXCEPT ![Client] = l]
    BY <1>f, <1>19 DEF Fetched
  <2> QED
    BY <1>a, <1>b, <1>e, <2>1 DEF BlockedTasks, Waiting
<1>20. CASE UnblockSinks
  <2>0. PICK l \in {<<"unblock", "unblocking", "execute">>, <<"unblock_wait", "unblocking_wait", "fetch">>} :
          /\ pc[Client] = l[1]
          /\ pc' = [pc EXCEPT ![Client] = l[2]] \/ pc' = [pc EXCEPT ![Client] = l[3]]
    BY <1>20 DEF UnblockSinks
  <2>1. /\ pc[Client] # "deschedule" /\ \E m : m # "deschedule" /\ pc' = [pc EXCEPT ![Client] = m]
    <3>1. l[1] # "deschedule" /\ l[2] # "deschedule" /\ l[3] # "deschedule"
      OBVIOUS
    <3> QED
      BY <2>0, <3>1
  <2>2. UNCHANGED <<queue, to_be_rescheduled_tasks, callback, blocked_sinks, cancelled, task>>
    BY <1>20 DEF UnblockSinks
  <2> QED
    BY <1>a, <1>b, <1>e, <2>1, <2>2 DEF BlockedTasks, Waiting
<1>21. CASE UnblockSink
  <2> DEFINE t == Head(blocked_sinks)
  <2>1. /\ blocked_sinks # <<>> /\ ~cancelled /\ blocked_sinks' = Tail(blocked_sinks)
        /\ t \in to_be_rescheduled_tasks /\ to_be_rescheduled_tasks' = to_be_rescheduled_tasks \ {t}
        /\ Enqueue(<<t>>) /\ UNCHANGED <<callback, task, cancelled>>
        /\ pc[Client] # "deschedule" /\ \E l : l # "deschedule" /\ pc' = [pc EXCEPT ![Client] = l]
    BY <1>d, <1>21 DEF UnblockSink, RescheduleTask
  <2>2. /\ t \in Tasks[plan] /\ Range(blocked_sinks) = {t} \cup Range(blocked_sinks')
        /\ IsInjective(blocked_sinks') /\ t \notin Range(blocked_sinks')
    BY <1>e, <2>1, QueueFacts DEF BlockedTasks
  <2>3. Range(queue') = Range(queue) \cup {t}
    BY <2>1, <2>2, QueueFacts
  <2> HIDE DEF t
  <2>4. callback[t] = "none" /\ \A x \in Threads : task[x] # t
    BY <1>e, <2>1, <2>2 DEF BlockedTasks, OnePlace
  <2>5. \A x \in Threads : /\ pc'[x] = "deschedule" <=> pc[x] = "deschedule"
                           /\ pc[x] = "deschedule" => task[x] \in Tasks[plan]
    BY <1>b, <1>c, <2>1 DEF Busy
  <2>6. \A u \in Tasks[plan] : Waiting(u)' <=> u # t /\ Waiting(u)
    BY <2>1, <2>2, <2>4 DEF Waiting
  <2> QED
    BY <1>a, <1>b, <1>e, <2>1, <2>2, <2>3, <2>4, <2>5, <2>6 DEF BlockedTasks
<1>22. CASE CloseResult
  <2>1. /\ UNCHANGED <<queue, to_be_rescheduled_tasks, callback, blocked_sinks, cancelled>>
        /\ task' = task \/ task' = [task EXCEPT ![Client] = NoTask]
        /\ pc[Client] # "deschedule" /\ \E l : l # "deschedule" /\ pc' = [pc EXCEPT ![Client] = l]
    BY <1>f, <1>22 DEF CloseResult, Loop
  <2> QED
    BY <1>a, <1>b, <1>e, <2>1 DEF BlockedTasks, Waiting
<1>23. CASE CancelTasks
  <2>1. /\ cancelled' /\ to_be_rescheduled_tasks' = {} /\ task' = [task EXCEPT ![Client] = NoTask]
        /\ UNCHANGED <<queue, callback, blocked_sinks>>
        /\ pc[Client] # "deschedule" /\ pc' = [pc EXCEPT ![Client] = "drain"]
    BY <1>23 DEF CancelTasks
  <2> QED
    BY <1>a, <1>b, <1>e, <2>1 DEF BlockedTasks, Waiting
<1>24. CASE WorkOnTasks
  <2>1. /\ queue # <<>> /\ queue' = Tail(queue) /\ task' = [task EXCEPT ![Client] = Head(queue)]
        /\ \E l \in {"run", "work"} : pc' = [pc EXCEPT ![Client] = l]
        /\ pc[Client] # "deschedule"
        /\ UNCHANGED <<to_be_rescheduled_tasks, callback, blocked_sinks, cancelled>>
    BY <1>24 DEF WorkOnTasks, Execute
  <2>2. Head(queue) \in Tasks[plan] /\ ~Waiting(Head(queue)) /\ Range(queue') \subseteq Range(queue)
    BY <1>e, <2>1, QueueFacts DEF BlockedTasks
  <2> QED
    BY <1>a, <1>b, <1>e, <2>1, <2>2 DEF BlockedTasks, Waiting
<1>25. CASE DestroyEvents
  <2>1. /\ UNCHANGED <<queue, to_be_rescheduled_tasks, callback, blocked_sinks, cancelled>>
        /\ task' = task \/ task' = [task EXCEPT ![Client] = NoTask]
        /\ pc[Client] # "deschedule" /\ \E l : l # "deschedule" /\ pc' = [pc EXCEPT ![Client] = l]
    BY <1>f, <1>25 DEF DestroyEvents
  <2> QED
    BY <1>a, <1>b, <1>e, <2>1 DEF BlockedTasks, Waiting
<1>26. CASE Interrupt
  BY <1>26, <1>a, <1>b, <1>e DEF Interrupt, BlockedTasks, Waiting
<1>27. CASE UNCHANGED vars
  BY <1>27, <1>a, <1>b, <1>e DEF vars, BlockedTasks, Waiting
<1> QED
  BY <1>1, <1>2, <1>3, <1>4, <1>5, <1>6, <1>7, <1>8, <1>9, <1>10, <1>11, <1>12, <1>13, <1>14,
      <1>15, <1>16, <1>17, <1>18, <1>19, <1>20, <1>21, <1>22, <1>23, <1>24, <1>25, <1>26, <1>27
      DEF Next, WorkerStep, ClientStep, TaskStep, Callbacks, Threads

\* The invariant holds at first.
LEMMA PlacesInvInit ==
    ASSUME Init
    PROVE  PlacesInv
<1>1. TypeInv
  BY TypeInvInit
<1>2. /\ to_be_rescheduled_tasks = {} /\ blocked_sinks = <<>>
      /\ \A x \in Threads : task[x] = NoTask /\ pc[x] # "deschedule"
      /\ \A t \in Tasks[plan] : callback[t] = "none"
      /\ \A e \in Events[plan] : finished_tasks[e] = 0 /\ finished[e] = 0 /\ finished_dependencies[e] = 0
  BY DEF Init
<1>3. Range(blocked_sinks) = {} /\ IsInjective(blocked_sinks)
  BY <1>2 DEF Range, IsInjective
<1>4. ASSUME NEW t \in Range(queue) PROVE t[1] \in Ready
  <2>1. t[1] \in ScheduledEvents[plan] /\ DependenciesOf[plan][t[1]] = 0
    BY InitialQueue DEF Range
  <2>2. t[1] \in Events[plan] /\ t[1][1] # "inserted"
    BY <1>1, <2>1, EventFacts DEF TypeInv, ChoiceTyped
  <2> QED
    BY <1>2, <2>1, <2>2 DEF Ready, total_dependencies
<1>5. IsInjective(queue) /\ NoTask \notin Range(queue)
  BY <1>1, InitialQueue, QueueFacts, TaskFacts DEF IsInjective, TypeInv, ChoiceTyped
<1>6. OnlyReady
  BY <1>2, <1>3, <1>4 DEF OnlyReady
<1>7. OnePlace
  BY <1>2, <1>5 DEF OnePlace
<1>8. BlockedTasks
  BY <1>2, <1>3 DEF BlockedTasks, Waiting
<1> QED
  BY <1>6, <1>7, <1>8 DEF PlacesInv

\* The invariant holds in every reachable state.
THEOREM PlacesInvariance == Spec => [](TypeInv /\ PlacesInv)
<1>1. Init => TypeInv /\ PlacesInv
  BY TypeInvInit, PlacesInvInit
<1>2. TypeInv /\ PlacesInv /\ [Next]_vars => TypeInv' /\ PlacesInv'
  BY TypeInvStep, OnlyReadyStep, OnePlaceStep, BlockedTasksStep DEF PlacesInv
<1> QED
  BY <1>1, <1>2, PTL DEF Spec

\* RescheduleTask never leaves a task behind: for any plan and any number of workers, a
\* blocked task of a query that goes on has a callback that is still to come, or it is
\* among the blocked sinks of the result.
THEOREM BlockedTasksAreWoken == Spec => []BlockedWillBeWoken
<1>1. TypeInv /\ PlacesInv => BlockedWillBeWoken
  BY DEF PlacesInv, BlockedTasks, Waiting, BlockedWillBeWoken
<1> QED
  BY <1>1, PlacesInvariance, PTL
=============================================================================
