------------------------ MODULE SimpleExecutorProofs ------------------------
(***************************************************************************)
(* Proofs about SimpleExecutor, for every set of tasks and delays: its     *)
(* invariants, the order of posted tasks, which thread they find           *)
(* themselves on and that it implements ExecutorSpec.                      *)
(***************************************************************************)
EXTENDS SimpleExecutor, QueueLemmas, TLAPS

-----------------------------------------------------------------------------
(* The inductive invariant.                                                 *)

\* Where the thread is tells which locals are live, and where the owner is
\* tells whether the thread runs.
Control ==
    /\ cur # NoTask => loop = "run"
    /\ loop \notin {"timeup", "harvest", "decide", "run"} => BatchEmpty
    /\ loop = "timeup" => timeup_tasks = <<>>
    /\ loop \in {"timeup", "harvest"} => proactor_tasks = <<>>
    /\ owner = "gone" => loop = "exit"
    /\ owner \in {"fresh", "aborted"} => loop = "none"

\* The thread has slept only over tasks that are still queued, and over none
\* of those it finds after draining the queue.
Naps ==
    /\ slept \subseteq Range(tasks_)
    /\ loop \in {"timeup", "harvest", "decide", "nap"} => slept = {}
    /\ PostEndsSleep

IInv == TypeOK /\ NoDuplicates /\ Control /\ Naps

LEMMA InitInv == Init => IInv
<1> SUFFICES ASSUME Init PROVE IInv
  OBVIOUS
<1>1. TypeOK
  <2>1. <<>> \in Seq(Tasks) /\ [t \in Tasks |-> 0] \in [Tasks -> Nat]
    OBVIOUS
  <2> QED
    BY <2>1 DEF Init, TypeOK
<1>2. NoDuplicates
  BY EmptyRange DEF Init, NoDuplicates
<1>3. Control /\ Naps
  BY EmptyRange DEF Init, Control, Naps, PostEndsSleep, BatchEmpty
<1> QED
  BY <1>1, <1>2, <1>3 DEF IInv

\* The owner and the unlocked steps of the thread touch no container.
LEMMA QuietInv ==
  ASSUME IInv,
         Owner \/ wake_up \/ BeginLoop \/ CheckStop \/ Decide \/ Nap
           \/ WaitReturns \/ FinishTask \/ UNCHANGED vars
  PROVE  IInv'
<1> USE DEF IInv, TypeOK, NoDuplicates, Control, Naps, PostEndsSleep,
            BatchEmpty, ownerVars, sharedVars, localVars
<1>1. CASE Spawn
  BY <1>1 DEF Spawn
<1>2. CASE AssignThread
  BY <1>2 DEF AssignThread
<1>3. CASE AwaitStarted
  BY <1>3 DEF AwaitStarted
<1>4. CASE Stop
  BY <1>4 DEF Stop
<1>5. CASE Join
  BY <1>5 DEF Join
<1>6. CASE DestroyUnstarted
  BY <1>6 DEF DestroyUnstarted
<1>7. CASE wake_up
  BY <1>7 DEF wake_up
<1>8. CASE BeginLoop
  BY <1>8 DEF BeginLoop
<1>9. CASE CheckStop
  BY <1>9 DEF CheckStop
<1>10. CASE Decide
  BY <1>10 DEF Decide
<1>11. CASE Nap
  BY <1>11, RangeType DEF Nap
<1>12. CASE WaitReturns
  BY <1>12 DEF WaitReturns
<1>13. CASE FinishTask
  BY <1>13 DEF FinishTask
<1>14. CASE UNCHANGED vars
  BY <1>14 DEF vars
<1> QED
  BY <1>1, <1>2, <1>3, <1>4, <1>5, <1>6, <1>7, <1>8, <1>9, <1>10, <1>11,
     <1>12, <1>13, <1>14 DEF Owner

\* A task that no container holds is put into exactly one.
LEMMA ClientInv ==
  ASSUME IInv, NEW t \in Tasks,
         Post(t) \/ Complete(t) \/ \E d \in Delays : PostDelay(t, d)
  PROVE  IInv'
<1> USE DEF IInv, Control, Naps, PostEndsSleep, BatchEmpty, ownerVars,
            localVars, Held
<1>1. CASE Post(t)
  <2>1. /\ tasks_' \in Seq(Tasks)
        /\ Range(tasks_') = Range(tasks_) \union {t}
        /\ IsInjective(tasks_')
    BY <1>1, AppendRange DEF Post, TypeOK, NoDuplicates
  <2>2. TypeOK'
    BY <1>1, <2>1 DEF Post, TypeOK
  <2>3. NoDuplicates'
    BY <1>1, <2>1 DEF Post, NoDuplicates
  <2>4. Control' /\ Naps'
    BY <1>1, <2>1 DEF Post
  <2> QED
    BY <2>2, <2>3, <2>4
<1>2. CASE Complete(t)
  <2>1. /\ completed' \in Seq(Tasks)
        /\ Range(completed') = Range(completed) \union {t}
        /\ IsInjective(completed')
    BY <1>2, AppendRange DEF Complete, TypeOK, NoDuplicates
  <2>2. TypeOK'
    BY <1>2, <2>1 DEF Complete, TypeOK
  <2>3. NoDuplicates'
    BY <1>2, <2>1 DEF Complete, NoDuplicates
  <2>4. Control' /\ Naps'
    BY <1>2, <2>1 DEF Complete
  <2> QED
    BY <2>2, <2>3, <2>4
<1>3. ASSUME NEW d \in Delays, PostDelay(t, d)
      PROVE  IInv'
  <2>1. TypeOK'
    BY <1>3, ConstantsAssumption DEF PostDelay, TypeOK
  <2>2. NoDuplicates'
    BY <1>3 DEF PostDelay, NoDuplicates
  <2>3. Control' /\ Naps'
    BY <1>3 DEF PostDelay
  <2> QED
    BY <2>1, <2>2, <2>3
<1> QED
  BY <1>1, <1>2, <1>3

LEMMA TickInv ==
  ASSUME IInv, Tick
  PROVE  IInv'
<1> USE DEF Tick
<1>1. TypeOK'
  <2>1. left' \in [Tasks -> Nat] /\ sleep_for' \in Nat
    BY DEF IInv, TypeOK
  <2> QED
    BY <2>1 DEF IInv, TypeOK, ownerVars
<1>2. NoDuplicates' /\ Control' /\ Naps'
  BY DEF IInv, NoDuplicates, Control, Naps, PostEndsSleep, BatchEmpty,
         ownerVars
<1> QED
  BY <1>1, <1>2 DEF IInv

\* Draining a container moves all of its tasks into an empty local.
LEMMA DrainInv ==
  ASSUME IInv, get_pending_tasks \/ get_proactor_tasks
  PROVE  IInv'
<1> USE EmptyRange DEF IInv, Control, Naps, PostEndsSleep, BatchEmpty,
            ownerVars
<1>1. CASE get_pending_tasks
  <2>1. TypeOK'
    BY <1>1 DEF get_pending_tasks, TypeOK
  <2>2. NoDuplicates'
    BY <1>1 DEF get_pending_tasks, NoDuplicates
  <2>3. Control' /\ Naps'
    BY <1>1 DEF get_pending_tasks
  <2> QED
    BY <2>1, <2>2, <2>3
<1>2. CASE get_proactor_tasks
  <2>1. TypeOK'
    BY <1>2 DEF get_proactor_tasks, TypeOK
  <2>2. NoDuplicates'
    BY <1>2 DEF get_proactor_tasks, NoDuplicates
  <2>3. Control' /\ Naps'
    BY <1>2 DEF get_proactor_tasks
  <2> QED
    BY <2>1, <2>2, <2>3
<1> QED
  BY <1>1, <1>2

\* get_timeup_delay_tasks pops each element once: what top() returns is still
\* in the heap.
LEMMA PopsDistinct ==
  ASSUME NEW n \in Nat, NEW popped \in [1..n -> delay_tasks_], PopsDue(popped)
  PROVE  /\ popped \in Seq(delay_tasks_)
         /\ Range(popped) \subseteq delay_tasks_
         /\ IsInjective(popped)
         /\ \A t \in Range(popped) : left[t] = 0
<1>1. popped \in Seq(delay_tasks_) /\ Len(popped) = n
  OBVIOUS
<1>2. \A i \in 1..n : \A j \in 1..(i - 1) : popped[i] # popped[j]
  BY <1>1 DEF PopsDue, Tops
<1>3. IsInjective(popped)
  <2> SUFFICES ASSUME NEW i \in 1..n, NEW j \in 1..n, i # j
               PROVE  popped[i] # popped[j]
    BY <1>1 DEF IsInjective
  <2>1. i \in 1..(j - 1) \/ j \in 1..(i - 1)
    OBVIOUS
  <2> QED
    BY <2>1, <1>2
<1>4. \A t \in Range(popped) : left[t] = 0
  BY <1>1 DEF Range, PopsDue
<1> QED
  BY <1>1, <1>3, <1>4, RangeType

LEMMA TimeupInv ==
  ASSUME IInv, get_timeup_delay_tasks
  PROVE  IInv'
<1>1. \E n \in 0..Cardinality(delay_tasks_) :
        \E popped \in [1..n -> delay_tasks_] :
          /\ PopsDue(popped)
          /\ timeup_tasks' = popped
          /\ delay_tasks_' = delay_tasks_ \ Range(popped)
          /\ delay' = [t \in Tasks |->
                         IF t \in delay_tasks_' THEN delay[t] ELSE 0]
          /\ \/ sleep_for' = IdleWait
             \/ \E top \in Tops(delay_tasks_') : sleep_for' = left[top]
  BY DEF get_timeup_delay_tasks
<1>2. /\ loop = "timeup" /\ loop' = "harvest"
      /\ UNCHANGED <<ownerVars, started_, tasks_, left, completed, wakeup_,
                     old_tasks, proactor_tasks, cur, slept>>
  BY DEF get_timeup_delay_tasks
<1>4. /\ timeup_tasks' \in Seq(delay_tasks_)
      /\ Range(timeup_tasks') \subseteq delay_tasks_
      /\ IsInjective(timeup_tasks')
      /\ delay_tasks_' = delay_tasks_ \ Range(timeup_tasks')
  <2>1. PICK n \in 0..Cardinality(delay_tasks_) :
          \E popped \in [1..n -> delay_tasks_] :
            /\ PopsDue(popped)
            /\ timeup_tasks' = popped
            /\ delay_tasks_' = delay_tasks_ \ Range(popped)
    BY <1>1
  <2>2. n \in Nat
    OBVIOUS
  <2> QED
    BY <2>1, <2>2, PopsDistinct
<1>5. TypeOK'
  <2>1. timeup_tasks' \in Seq(Tasks) /\ delay_tasks_' \in SUBSET Tasks
    BY <1>1, <1>4 DEF IInv, TypeOK
  <2>2. delay' \in [Tasks -> Nat]
    BY <1>1 DEF IInv, TypeOK
  <2>3. sleep_for' \in Nat
    BY <1>1, ConstantsAssumption DEF IInv, TypeOK, Tops
  <2> QED
    BY <1>2, <2>1, <2>2, <2>3 DEF IInv, TypeOK, ownerVars
<1>6. NoDuplicates'
  BY <1>1, <1>2, <1>4 DEF IInv, NoDuplicates
<1>7. Control' /\ Naps'
  BY <1>2 DEF IInv, Control, Naps, PostEndsSleep, BatchEmpty, ownerVars
<1> QED
  BY <1>5, <1>6, <1>7 DEF IInv

\* The task that starts leaves the batch it was in.
LEMMA StartInv ==
  ASSUME IInv, StartTask
  PROVE  /\ IInv'
         /\ cur' \in Tasks
         /\ Held = Held' \union {cur'} /\ cur' \notin Held'
<1> USE DEF IInv, Control, Naps, PostEndsSleep, BatchEmpty, ownerVars,
            sharedVars, StartTask, Held
<1>1. CASE /\ timeup_tasks # <<>>
           /\ cur' = Head(timeup_tasks)
           /\ timeup_tasks' = Tail(timeup_tasks)
           /\ UNCHANGED <<old_tasks, proactor_tasks>>
  <2>1. /\ cur' \in Tasks
        /\ timeup_tasks' \in Seq(Tasks)
        /\ Range(timeup_tasks) = {cur'} \union Range(timeup_tasks')
        /\ IsInjective(timeup_tasks') /\ cur' \notin Range(timeup_tasks')
    BY <1>1, HeadTailRange DEF TypeOK, NoDuplicates
  <2>2. TypeOK'
    BY <1>1, <2>1 DEF TypeOK
  <2>3. NoDuplicates'
    BY <1>1, <2>1 DEF NoDuplicates
  <2>4. Control' /\ Naps'
    BY <1>1, <2>1
  <2>5. Held = Held' \union {cur'} /\ cur' \notin Held'
    BY <1>1, <2>1 DEF NoDuplicates
  <2> QED
    BY <2>1, <2>2, <2>3, <2>4, <2>5
<1>2. CASE /\ timeup_tasks = <<>> /\ old_tasks # <<>>
           /\ cur' = Head(old_tasks)
           /\ old_tasks' = Tail(old_tasks)
           /\ UNCHANGED <<timeup_tasks, proactor_tasks>>
  <2>1. /\ cur' \in Tasks
        /\ old_tasks' \in Seq(Tasks)
        /\ Range(old_tasks) = {cur'} \union Range(old_tasks')
        /\ IsInjective(old_tasks') /\ cur' \notin Range(old_tasks')
    BY <1>2, HeadTailRange DEF TypeOK, NoDuplicates
  <2>2. TypeOK'
    BY <1>2, <2>1 DEF TypeOK
  <2>3. NoDuplicates'
    BY <1>2, <2>1 DEF NoDuplicates
  <2>4. Control' /\ Naps'
    BY <1>2, <2>1
  <2>5. Held = Held' \union {cur'} /\ cur' \notin Held'
    BY <1>2, <2>1 DEF NoDuplicates
  <2> QED
    BY <2>1, <2>2, <2>3, <2>4, <2>5
<1>3. CASE /\ timeup_tasks = <<>> /\ old_tasks = <<>>
           /\ proactor_tasks # <<>>
           /\ cur' = Head(proactor_tasks)
           /\ proactor_tasks' = Tail(proactor_tasks)
           /\ UNCHANGED <<timeup_tasks, old_tasks>>
  <2>1. /\ cur' \in Tasks
        /\ proactor_tasks' \in Seq(Tasks)
        /\ Range(proactor_tasks) = {cur'} \union Range(proactor_tasks')
        /\ IsInjective(proactor_tasks')
        /\ cur' \notin Range(proactor_tasks')
    BY <1>3, HeadTailRange DEF TypeOK, NoDuplicates
  <2>2. TypeOK'
    BY <1>3, <2>1 DEF TypeOK
  <2>3. NoDuplicates'
    BY <1>3, <2>1 DEF NoDuplicates
  <2>4. Control' /\ Naps'
    BY <1>3, <2>1
  <2>5. Held = Held' \union {cur'} /\ cur' \notin Held'
    BY <1>3, <2>1 DEF NoDuplicates
  <2> QED
    BY <2>1, <2>2, <2>3, <2>4, <2>5
<1> QED
  BY <1>1, <1>2, <1>3

LEMMA NextInv == IInv /\ [Next]_vars => IInv'
<1> SUFFICES ASSUME IInv, [Next]_vars PROVE IInv'
  OBVIOUS
<1>1. CASE Owner \/ wake_up \/ BeginLoop \/ CheckStop \/ Decide \/ Nap
             \/ WaitReturns \/ FinishTask \/ UNCHANGED vars
  BY <1>1, QuietInv
<1>2. ASSUME NEW t \in Tasks,
             Post(t) \/ Complete(t) \/ \E d \in Delays : PostDelay(t, d)
      PROVE  IInv'
  BY <1>2, ClientInv
<1>3. CASE Tick
  BY <1>3, TickInv
<1>4. CASE get_pending_tasks \/ get_proactor_tasks
  BY <1>4, DrainInv
<1>5. CASE get_timeup_delay_tasks
  BY <1>5, TimeupInv
<1>6. CASE StartTask
  BY <1>6, StartInv
<1> QED
  BY <1>1, <1>2, <1>3, <1>4, <1>5, <1>6 DEF Next, Clients, Thread, Ended

\* The inductive invariant holds in every reachable state.
THEOREM Invariance == Spec => []IInv
  BY InitInv, NextInv, PTL DEF Spec

\* Every variable keeps its type: in particular no count of ticks goes below
\* zero, and only posted tasks are queued or run.
THEOREM TypeCorrect == Spec => []TypeOK
<1>1. IInv => TypeOK
  BY DEF IInv
<1> QED
  BY <1>1, Invariance, PTL

\* A task is in one container at a time and once in it, so that one post (or
\* one completion) leads to one run: simple_executor.cpp:85-114 hands whole
\* containers from thread to thread without losing or doubling a task.
THEOREM OnePlaceEach == Spec => []NoDuplicates
<1>1. IInv => NoDuplicates
  BY DEF IInv
<1> QED
  BY <1>1, Invariance, PTL

\* The lost wake-up of simple_executor.cpp:57-60 costs a posted task at most
\* one sleep.
THEOREM LostWakeupOnce == Spec => []OneNap
<1>1. IInv => OneNap
  BY DEF IInv, Naps, OneNap
<1> QED
  BY <1>1, Invariance, PTL

\* A post while the thread sleeps ends the sleep.
THEOREM PostWakes == Spec => []PostEndsSleep
<1>1. IInv => PostEndsSleep
  BY DEF IInv, Naps
<1> QED
  BY <1>1, Invariance, PTL

-----------------------------------------------------------------------------
(* The order of posted tasks.                                               *)

LEMMA ConcatHeadTail ==
  ASSUME NEW S, NEW a \in Seq(S), NEW b \in Seq(S), a # <<>>
  PROVE  /\ a \o b # <<>>
         /\ Head(a \o b) = Head(a)
         /\ Tail(a \o b) = Tail(a) \o b
  OBVIOUS

LEMMA ConcatAppend ==
  ASSUME NEW S, NEW a \in Seq(S), NEW b \in Seq(S), NEW e \in S
  PROVE  a \o Append(b, e) = Append(a \o b, e)
  OBVIOUS

LEMMA ConcatEmpty ==
  ASSUME NEW S, NEW a \in Seq(S)
  PROVE  <<>> \o a = a /\ a \o <<>> = a
  OBVIOUS

\* One step takes the oldest posted task, adds a new youngest one, or leaves
\* the posted tasks as they are.
PostOrderStep ==
    \/ posted' = posted
    \/ \E t \in Tasks : posted' = Append(posted, t)
    \/ posted # <<>> /\ posted' = Tail(posted) /\ cur' = Head(posted)

LEMMA StepKeepsOrder == IInv /\ [Next]_vars => PostOrderStep
<1> SUFFICES ASSUME IInv, [Next]_vars PROVE PostOrderStep
  OBVIOUS
<1>1. CASE UNCHANGED <<tasks_, old_tasks>>
  BY <1>1 DEF PostOrderStep, posted
<1>2. ASSUME NEW t \in Tasks, Post(t)
      PROVE  PostOrderStep
  <2>1. old_tasks' = old_tasks /\ tasks_' = Append(tasks_, t)
    BY <1>2 DEF Post, localVars
  <2>2. old_tasks \o Append(tasks_, t) = Append(old_tasks \o tasks_, t)
    <3>1. old_tasks \in Seq(Tasks) /\ tasks_ \in Seq(Tasks)
      BY DEF IInv, TypeOK
    <3> QED
      BY <3>1, ConcatAppend
  <2>3. posted' = Append(posted, t)
    BY <2>1, <2>2 DEF posted
  <2> QED
    BY <2>3 DEF PostOrderStep
<1>3. CASE get_pending_tasks
  <2>1. old_tasks = <<>> /\ old_tasks' = tasks_ /\ tasks_' = <<>>
    BY <1>3 DEF IInv, Control, BatchEmpty, get_pending_tasks
  <2>2. posted' = posted
    BY <2>1, ConcatEmpty DEF IInv, TypeOK, posted
  <2> QED
    BY <2>2 DEF PostOrderStep
<1>4. CASE StartTask /\ old_tasks # old_tasks'
  <2>1. /\ old_tasks # <<>> /\ cur' = Head(old_tasks)
        /\ old_tasks' = Tail(old_tasks) /\ tasks_' = tasks_
    BY <1>4 DEF StartTask, sharedVars
  <2>2. posted # <<>> /\ posted' = Tail(posted) /\ cur' = Head(posted)
    BY <2>1, ConcatHeadTail DEF IInv, TypeOK, posted
  <2> QED
    BY <2>2 DEF PostOrderStep
<1>5. CASE Owner
  BY <1>5, <1>1 DEF Owner, Spawn, AssignThread, AwaitStarted, Stop, Join,
     DestroyUnstarted, sharedVars, localVars
<1>6. CASE wake_up \/ BeginLoop \/ CheckStop \/ Decide \/ Nap \/ WaitReturns
             \/ FinishTask
  BY <1>6, <1>1 DEF wake_up, BeginLoop, CheckStop, Decide, Nap, WaitReturns,
     FinishTask, sharedVars, localVars
<1>7. ASSUME NEW t \in Tasks,
             Complete(t) \/ \E d \in Delays : PostDelay(t, d)
      PROVE  PostOrderStep
  BY <1>7, <1>1 DEF Complete, PostDelay, localVars
<1>8. CASE Tick \/ get_proactor_tasks \/ get_timeup_delay_tasks \/ Ended
             \/ UNCHANGED vars
  BY <1>8, <1>1 DEF Tick, get_proactor_tasks, get_timeup_delay_tasks, Ended,
     vars
<1>9. CASE StartTask /\ old_tasks = old_tasks'
  BY <1>9, <1>1 DEF StartTask, sharedVars
<1> QED
  BY <1>2, <1>3, <1>4, <1>5, <1>6, <1>7, <1>8, <1>9
     DEF Next, Clients, Thread

\* Posted tasks start in the order they were posted in.
THEOREM PostedInOrder == Spec => PostOrder
<1>1. IInv /\ [Next]_vars => [PostOrderStep]_posted
  BY StepKeepsOrder
<1> QED
  BY <1>1, Invariance, PTL DEF Spec, PostOrder, PostOrderStep

-----------------------------------------------------------------------------
(* Which thread a task finds itself on.                                     *)

\* Until thread_ is assigned, the owner is at the start of start() or before.
Assigned == ~assigned => owner \in {"fresh", "starting", "aborted"}

LEMMA AssignedInv ==
  /\ Init => Assigned
  /\ IInv /\ Assigned /\ [Next]_vars => Assigned'
<1>1. Init => Assigned
  BY DEF Init, Assigned
<1>2. ASSUME Assigned, [Next]_vars
      PROVE  Assigned'
  <2> USE DEF Assigned, ownerVars
  <2>1. CASE Owner
    BY <1>2, <2>1 DEF Owner, Spawn, AssignThread, AwaitStarted, Stop, Join,
       DestroyUnstarted
  <2>2. CASE Clients
    BY <1>2, <2>2 DEF Clients, Post, PostDelay, Complete, wake_up
  <2>3. CASE Thread
    BY <1>2, <2>3 DEF Thread, BeginLoop, CheckStop, get_pending_tasks,
       get_timeup_delay_tasks, get_proactor_tasks, Decide, Nap, WaitReturns,
       StartTask, FinishTask
  <2>4. CASE Tick \/ Ended \/ UNCHANGED vars
    BY <1>2, <2>4 DEF Tick, Ended, vars
  <2> QED
    BY <1>2, <2>1, <2>2, <2>3, <2>4 DEF Next
<1> QED
  BY <1>1, <1>2

\* The assertion of Select::do_io fails at most while start() runs, between
\* the creation of the thread and the assignment of thread_: once start() has
\* returned, every do_io finds itself on its executor.
THEOREM WrongOnlyInStart ==
    Spec => [](owner # "starting" => IoTaskOnExecutor)
<1>1. IInv /\ Assigned => (owner # "starting" => IoTaskOnExecutor)
  <2> SUFFICES ASSUME IInv, Assigned, owner # "starting", cur \in IoTasks
               PROVE  assigned
    BY DEF IoTaskOnExecutor, is_current_executor
  <2>1. cur # NoTask
    BY ConstantsAssumption
  <2>2. loop = "run"
    BY <2>1 DEF IInv, Control
  <2>3. owner \notin {"fresh", "aborted"}
    BY <2>2 DEF IInv, Control
  <2> QED
    BY <2>3 DEF Assigned
<1> QED
  BY <1>1, AssignedInv, Invariance, PTL DEF Spec

\* No do_io is posted, timed or queued before thread_ is assigned.
IoAfterStart == ~assigned => Held \cap IoTasks = {}

\* So it holds throughout if the proactor posts its do_io once the executor's
\* start() has assigned thread_ (Select::start posts it before).
THEOREM IoAfterStartIsSafe == Spec /\ []IoAfterStart => []IoTaskOnExecutor
<1>1. Init => IoTaskOnExecutor
  BY ConstantsAssumption DEF Init, IoTaskOnExecutor
<1>2. IInv /\ IoAfterStart /\ IoTaskOnExecutor /\ [Next]_vars
        => IoTaskOnExecutor'
  <2> SUFFICES ASSUME IInv, IoAfterStart, IoTaskOnExecutor, [Next]_vars
               PROVE  IoTaskOnExecutor'
    OBVIOUS
  <2> USE DEF IoTaskOnExecutor, is_current_executor, ownerVars, localVars
  <2>1. CASE Owner
    BY <2>1 DEF Owner, Spawn, AssignThread, AwaitStarted, Stop, Join,
       DestroyUnstarted
  <2>2. CASE Clients
    BY <2>2 DEF Clients, Post, PostDelay, Complete, wake_up
  <2>3. CASE StartTask
    <3>1. cur' \in Held /\ assigned' = assigned
      BY <2>3, StartInv DEF StartTask
    <3> QED
      BY <3>1 DEF IoAfterStart
  <2>4. CASE FinishTask
    BY <2>4, ConstantsAssumption DEF FinishTask
  <2>5. CASE BeginLoop \/ CheckStop \/ get_pending_tasks \/ Decide \/ Nap
               \/ get_timeup_delay_tasks \/ get_proactor_tasks \/ WaitReturns
    BY <2>5 DEF BeginLoop, CheckStop, get_pending_tasks, Decide, Nap,
       get_timeup_delay_tasks, get_proactor_tasks, WaitReturns
  <2>6. CASE Tick \/ Ended \/ UNCHANGED vars
    BY <2>6 DEF Tick, Ended, vars
  <2> QED
    BY <2>1, <2>2, <2>3, <2>4, <2>5, <2>6 DEF Next, Thread
<1> QED
  BY <1>1, <1>2, Invariance, PTL DEF Spec

-----------------------------------------------------------------------------
(* SimpleExecutor implements ExecutorSpec.                                  *)

absStatus == [t \in Tasks |-> Status(t)]
absRunning == {cur} \ {NoTask}

LEMMA InitRefines == Init => Abstract!Init
  BY EmptyRange DEF Init, Abstract!Init, Status, Held

\* Putting a task that no container holds into a queue is Abstract!Post.
LEMMA PostRefines ==
  ASSUME IInv, NEW t \in Tasks, Post(t) \/ Complete(t)
  PROVE  Abstract!Post(t)
<1> USE DEF ownerVars, localVars, Held
<1>1. Held' = Held \union {t} /\ delay_tasks_' = delay_tasks_
  <2>1. CASE Post(t)
    <3>1. Range(tasks_') = Range(tasks_) \union {t}
      BY <2>1, AppendRange DEF Post, IInv, TypeOK
    <3> QED
      BY <2>1, <3>1 DEF Post
  <2>2. CASE Complete(t)
    <3>1. Range(completed') = Range(completed) \union {t}
      BY <2>2, AppendRange DEF Complete, IInv, TypeOK
    <3> QED
      BY <2>2, <3>1 DEF Complete
  <2> QED
    BY <2>1, <2>2
<1>2. /\ owner # "gone" /\ t \notin Held /\ t \notin delay_tasks_
      /\ UNCHANGED <<owner, left, cur>>
  BY DEF Post, Complete, Alive, sharedVars
<1>3. absStatus[t] = "idle"
  BY <1>2 DEF absStatus, Status
<1>4. absStatus' = [absStatus EXCEPT ![t] = "ready"]
  BY <1>1, <1>2 DEF absStatus, Status
<1> QED
  BY <1>2, <1>3, <1>4 DEF absStatus, Abstract!Post

LEMMA PostDelayRefines ==
  ASSUME IInv, NEW t \in Tasks, NEW d \in Delays, PostDelay(t, d)
  PROVE  Abstract!PostDelay(t, d)
<1> USE DEF PostDelay, ownerVars, localVars
<1>1. /\ Held' = Held \union {t} /\ delay_tasks_' = delay_tasks_ \union {t}
      /\ t \notin Held /\ t \notin delay_tasks_
  BY DEF Held
<1>2. absStatus[t] = "idle" /\ absStatus' = [absStatus EXCEPT ![t] = "delayed"]
  BY <1>1 DEF absStatus, Status
<1> QED
  BY <1>2 DEF absStatus, Abstract!PostDelay, Alive

\* Popping due timers is Abstract!Mature of the popped set.
LEMMA TimeupRefines ==
  ASSUME IInv, get_timeup_delay_tasks
  PROVE  \E S \in SUBSET Tasks : Abstract!Mature(S)
<1> DEFINE S == Range(timeup_tasks')
<1>1. PICK n \in 0..Cardinality(delay_tasks_) :
        \E popped \in [1..n -> delay_tasks_] :
          /\ PopsDue(popped)
          /\ timeup_tasks' = popped
          /\ delay_tasks_' = delay_tasks_ \ Range(popped)
  BY DEF get_timeup_delay_tasks
<1>2. n \in Nat
  OBVIOUS
<1>3. /\ S \subseteq delay_tasks_
      /\ \A t \in S : left[t] = 0
      /\ delay_tasks_' = delay_tasks_ \ S
  BY <1>1, <1>2, PopsDistinct
<1>4. /\ timeup_tasks = <<>>
      /\ UNCHANGED <<tasks_, left, completed, old_tasks, proactor_tasks, cur,
                     owner>>
  BY DEF get_timeup_delay_tasks, IInv, Control, ownerVars
<1>5. Held' = Held
  BY <1>3, <1>4, EmptyRange DEF Held
<1>6. S \subseteq Tasks
  BY <1>3 DEF IInv, TypeOK
<1>7. \A t \in S : absStatus[t] = "delayed"
  BY <1>3, <1>6 DEF absStatus, Status
<1>8. absStatus' = [t \in Tasks |-> IF t \in S THEN "ready" ELSE absStatus[t]]
  BY <1>3, <1>5 DEF absStatus, Status, Held
<1>9. Abstract!Mature(S)
  BY <1>3, <1>4, <1>6, <1>7, <1>8 DEF absStatus, Abstract!Mature
<1> QED
  BY <1>6, <1>9

LEMMA StartRefines ==
  ASSUME IInv, StartTask
  PROVE  Abstract!Start(cur')
<1>1. /\ cur' \in Tasks /\ Held = Held' \union {cur'} /\ cur' \notin Held'
  BY StartInv
<1>2. /\ loop = "run" /\ cur = NoTask
      /\ UNCHANGED <<owner, left, delay_tasks_>>
  BY DEF StartTask, ownerVars, sharedVars
<1>3. delay_tasks_ \subseteq Held'
  BY <1>2 DEF Held
<1>4. absStatus[cur'] = "ready"
  BY <1>1, <1>2, <1>3 DEF absStatus, Status
<1>5. absStatus' = [absStatus EXCEPT ![cur'] = "idle"]
  BY <1>1, <1>2, <1>3 DEF absStatus, Status
<1>6. owner # "gone"
  BY <1>2 DEF IInv, Control
<1> QED
  BY <1>1, <1>2, <1>4, <1>5, <1>6, ConstantsAssumption
     DEF absStatus, Abstract!Start

\* The steps that move no task and run none.
LEMMA StutterRefines ==
  ASSUME IInv, UNCHANGED <<left, cur, delay_tasks_, owner = "gone">>,
         Held' = Held
  PROVE  UNCHANGED Abstract!vars
  BY DEF Abstract!vars, Status

\* Each step of the executor is a step of ExecutorSpec or changes nothing of
\* it.
LEMMA StepRefines == IInv /\ [Next]_vars => [Abstract!Next]_Abstract!vars
<1> SUFFICES ASSUME IInv, [Next]_vars
             PROVE  Abstract!Next \/ UNCHANGED Abstract!vars
  OBVIOUS
<1>1. ASSUME NEW t \in Tasks, Post(t) \/ Complete(t)
      PROVE  Abstract!Next
  BY <1>1, PostRefines DEF Abstract!Next
<1>2. ASSUME NEW t \in Tasks, NEW d \in Delays, PostDelay(t, d)
      PROVE  Abstract!Next
  BY <1>2, PostDelayRefines DEF Abstract!Next
<1>3. CASE get_timeup_delay_tasks
  BY <1>3, TimeupRefines DEF Abstract!Next
<1>4. CASE StartTask
  BY <1>4, StartInv, StartRefines DEF Abstract!Next
<1>5. CASE FinishTask
  <2>1. /\ cur \in Tasks /\ cur' = NoTask /\ Held' = Held
        /\ UNCHANGED <<left, delay_tasks_, owner>>
    BY <1>5 DEF FinishTask, IInv, TypeOK, ownerVars, sharedVars, Held
  <2>2. Abstract!Finish(cur)
    BY <2>1, ConstantsAssumption DEF Abstract!Finish, Status
  <2> QED
    BY <2>1, <2>2 DEF Abstract!Next
<1>6. CASE Tick
  <2>1. UNCHANGED <<owner, delay_tasks_, cur>> /\ Held' = Held
    BY <1>6 DEF Tick, Held, ownerVars
  <2>2. Abstract!Elapse
    BY <1>6, <2>1 DEF Tick, Abstract!Elapse, Status
  <2> QED
    BY <2>2 DEF Abstract!Next
<1>7. CASE Join
  <2>1. /\ owner' = "gone" /\ cur = NoTask
        /\ UNCHANGED <<left, delay_tasks_, cur>> /\ Held' = Held
    BY <1>7 DEF Join, IInv, Control, sharedVars, localVars, Held
  <2>2. Abstract!Close
    BY <2>1 DEF Abstract!Close, Status
  <2> QED
    BY <2>2 DEF Abstract!Next
<1>8. CASE get_pending_tasks
  <2>1. old_tasks = <<>> /\ old_tasks' = tasks_ /\ tasks_' = <<>>
    BY <1>8 DEF get_pending_tasks, IInv, Control, BatchEmpty
  <2>2. Held' = Held
    BY <1>8, <2>1, EmptyRange DEF get_pending_tasks, Held
  <2> QED
    BY <1>8, <2>2, StutterRefines DEF get_pending_tasks, ownerVars
<1>9. CASE get_proactor_tasks
  <2>1. /\ proactor_tasks = <<>> /\ proactor_tasks' = completed
        /\ completed' = <<>>
    BY <1>9 DEF get_proactor_tasks, IInv, Control
  <2>2. Held' = Held
    BY <1>9, <2>1, EmptyRange DEF get_proactor_tasks, Held
  <2> QED
    BY <1>9, <2>2, StutterRefines DEF get_proactor_tasks, ownerVars
<1>10. CASE \/ Spawn \/ AssignThread \/ AwaitStarted \/ Stop
            \/ DestroyUnstarted
  <2>1. owner # "gone" /\ owner' # "gone"
    BY <1>10 DEF Spawn, AssignThread, AwaitStarted, Stop, DestroyUnstarted
  <2>2. UNCHANGED <<left, cur, delay_tasks_>> /\ Held' = Held
    BY <1>10 DEF Spawn, AssignThread, AwaitStarted, Stop, DestroyUnstarted,
                 sharedVars, localVars, Held
  <2> QED
    BY <2>1, <2>2, StutterRefines
<1>11. CASE \/ wake_up \/ BeginLoop \/ CheckStop \/ Decide \/ Nap
            \/ WaitReturns
  <2>1. UNCHANGED <<left, cur, delay_tasks_, owner>> /\ Held' = Held
    BY <1>11 DEF wake_up, BeginLoop, CheckStop, Decide, Nap, WaitReturns,
                 ownerVars, sharedVars, localVars, Held
  <2> QED
    BY <2>1, StutterRefines
<1>12. CASE Ended \/ UNCHANGED vars
  <2>1. UNCHANGED <<left, cur, delay_tasks_, owner>> /\ Held' = Held
    BY <1>12 DEF Ended, vars, Held
  <2> QED
    BY <2>1, StutterRefines
<1> QED
  BY <1>1, <1>2, <1>3, <1>4, <1>5, <1>6, <1>7, <1>8, <1>9, <1>10, <1>11,
     <1>12 DEF Next, Owner, Clients, Thread

\* SimpleExecutor implements ExecutorSpec: a posted task runs once per post,
\* no delayed task runs early, and none runs after the destructor returned.
THEOREM Implementation == Spec => ImplementsExecutor
  BY InitRefines, StepRefines, Invariance, PTL
     DEF Spec, Abstract!Spec, ImplementsExecutor
=============================================================================
