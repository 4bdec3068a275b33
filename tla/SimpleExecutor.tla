--------------------------- MODULE SimpleExecutor ---------------------------
(***************************************************************************)
(* bco::SimpleExecutor (src/executor/simple_executor.cpp): one thread that *)
(* runs posted tasks, delayed tasks and the completions of a proactor.     *)
(*                                                                         *)
(* Every critical section of mutex_ and every unlocked step between two of *)
(* them is an action.  Three parties act: the owner (constructor, start,   *)
(* destructor), any thread or task that posts, wakes or completes I/O, and *)
(* the executor's own thread.  Time is counted in ticks: left[t] is        *)
(* run_at - now of a delayed task and sleep_for what is left of the        *)
(* current wait_for, so no clock is needed.                                *)
(***************************************************************************)
EXTENDS Naturals, Sequences, FiniteSets, Functions

CONSTANTS
    Tasks,      \* the tasks that can be posted
    IoTasks,    \* the posted tasks that are a proactor's do_io
    Delays,     \* the durations, in ticks, given to post_delay
    IdleWait,   \* the 10 ms the thread sleeps when no task is delayed
    NoTask      \* cur when the thread runs no task

ASSUME ConstantsAssumption ==
    /\ IoTasks \subseteq Tasks
    /\ IsFiniteSet(Tasks)
    /\ Delays \subseteq Nat
    /\ IdleWait \in Nat \ {0}
    /\ NoTask \notin Tasks

VARIABLES
    owner,          \* progress of the thread that owns the executor
    loop,           \* program counter of the executor's thread
    assigned,       \* thread_ has been assigned and holds the thread's id
    started_, stoped_, wakeup_,
    tasks_,         \* std::deque<PriorityTask>
    delay_tasks_,   \* the contents of the priority_queue
    delay,          \* delay[t] of an element of delay_tasks_: the heap's key
    left,           \* left[t]: ticks until run_at of an element
    completed,      \* what get_proactor_task_() would return
    timeup_tasks, old_tasks, proactor_tasks,  \* locals of do_start
    sleep_for,      \* local of do_start
    cur,            \* the task whose body the thread is executing
    slept           \* history: queued tasks the thread went to sleep over

ownerVars == <<owner, assigned, stoped_>>
sharedVars == <<tasks_, delay_tasks_, delay, left, completed, wakeup_>>
localVars == <<timeup_tasks, old_tasks, proactor_tasks, sleep_for, cur>>
vars == <<owner, loop, assigned, started_, stoped_, wakeup_, tasks_,
          delay_tasks_, delay, left, completed, timeup_tasks, old_tasks,
          proactor_tasks, sleep_for, cur, slept>>

\* The three batches of the current iteration are empty.
BatchEmpty == timeup_tasks = <<>> /\ old_tasks = <<>> /\ proactor_tasks = <<>>

\* The tasks some container of the executor or of its proactor holds.
Held == Range(tasks_) \union delay_tasks_ \union Range(completed)
          \union Range(timeup_tasks) \union Range(old_tasks)
          \union Range(proactor_tasks)

TypeOK ==
    /\ owner \in {"fresh", "starting", "waiting", "up", "joining", "gone",
                  "aborted"}
    /\ loop \in {"none", "begin", "check", "pending", "timeup", "harvest",
                 "decide", "nap", "wait", "run", "exit"}
    /\ assigned \in BOOLEAN /\ started_ \in BOOLEAN /\ stoped_ \in BOOLEAN
    /\ wakeup_ \in BOOLEAN
    /\ tasks_ \in Seq(Tasks)
    /\ delay_tasks_ \in SUBSET Tasks
    /\ delay \in [Tasks -> Nat]
    /\ left \in [Tasks -> Nat]
    /\ completed \in Seq(Tasks)
    /\ timeup_tasks \in Seq(Tasks)
    /\ old_tasks \in Seq(Tasks)
    /\ proactor_tasks \in Seq(Tasks)
    /\ sleep_for \in Nat
    /\ cur \in Tasks \union {NoTask}
    /\ slept \in SUBSET Tasks

Init ==
    /\ owner = "fresh" /\ loop = "none" /\ assigned = FALSE
    /\ started_ = FALSE /\ stoped_ = FALSE /\ wakeup_ = TRUE
    /\ tasks_ = <<>> /\ delay_tasks_ = {} /\ completed = <<>>
    /\ delay = [t \in Tasks |-> 0] /\ left = [t \in Tasks |-> 0]
    /\ timeup_tasks = <<>> /\ old_tasks = <<>> /\ proactor_tasks = <<>>
    /\ sleep_for = 0 /\ cur = NoTask /\ slept = {}

-----------------------------------------------------------------------------
(* The owner's thread.                                                      *)

\* The right-hand side of "thread_ = std::thread {...}": the thread exists.
Spawn ==
    /\ owner = "fresh"
    /\ owner' = "starting"
    /\ loop' = "begin"
    /\ UNCHANGED <<assigned, started_, stoped_, sharedVars, localVars, slept>>

\* The assignment itself, which the new thread may have overtaken.
AssignThread ==
    /\ owner = "starting"
    /\ owner' = "waiting"
    /\ assigned' = TRUE
    /\ UNCHANGED <<loop, started_, stoped_, sharedVars, localVars, slept>>

AwaitStarted ==
    /\ owner = "waiting" /\ started_
    /\ owner' = "up"
    /\ UNCHANGED <<loop, assigned, started_, stoped_, sharedVars, localVars,
                   slept>>

\* The destructor's critical section; its notify_one finds the predicate of
\* wait_for still false, so a sleeping thread goes on sleeping.
Stop ==
    /\ owner = "up"
    /\ owner' = "joining"
    /\ stoped_' = TRUE
    /\ UNCHANGED <<loop, assigned, started_, sharedVars, localVars, slept>>

Join ==
    /\ owner = "joining" /\ loop = "exit"
    /\ owner' = "gone"
    /\ UNCHANGED <<loop, assigned, started_, stoped_, sharedVars, localVars,
                   slept>>

\* Destroying an executor that was never started: join() of a thread_ that
\* holds no thread throws in a destructor, and the program terminates.
DestroyUnstarted ==
    /\ owner = "fresh"
    /\ owner' = "aborted"
    /\ stoped_' = TRUE
    /\ UNCHANGED <<loop, assigned, started_, sharedVars, localVars, slept>>

-----------------------------------------------------------------------------
(* Any thread, and any task the executor runs.                              *)

Alive == owner \notin {"gone", "aborted"}

\* Variant of Post: wakeup_ is not set before the notification.
Post_no_wakeup(t) ==
    /\ Alive /\ t \notin Held
    /\ tasks_' = Append(tasks_, t)
    /\ UNCHANGED <<ownerVars, loop, started_, wakeup_, delay_tasks_, delay,
                   left, completed, localVars, slept>>

\* Variant of Post: push_front for push_back.
Post_front(t) ==
    /\ Alive /\ t \notin Held
    /\ tasks_' = <<t>> \o tasks_
    /\ wakeup_' = TRUE
    /\ UNCHANGED <<ownerVars, loop, started_, delay_tasks_, delay, left,
                   completed, localVars, slept>>

Post(t) ==
    /\ Alive /\ t \notin Held
    /\ tasks_' = Append(tasks_, t)
    /\ wakeup_' = TRUE
    /\ UNCHANGED <<ownerVars, loop, started_, delay_tasks_, delay, left,
                   completed, localVars, slept>>

\* post_delay neither sets wakeup_ nor notifies.
PostDelay(t, d) ==
    /\ Alive /\ t \notin Held
    /\ delay_tasks_' = delay_tasks_ \union {t}
    /\ delay' = [delay EXCEPT ![t] = d]
    /\ left' = [left EXCEPT ![t] = d]
    /\ UNCHANGED <<ownerVars, loop, started_, tasks_, wakeup_, completed,
                   localVars, slept>>

\* A proactor finishes an operation and queues its callback for harvest().
Complete(t) ==
    /\ Alive /\ t \notin Held /\ t \notin IoTasks
    /\ completed' = Append(completed, t)
    /\ UNCHANGED <<ownerVars, loop, started_, tasks_, wakeup_, delay_tasks_,
                   delay, left, localVars, slept>>

wake_up ==
    /\ Alive
    /\ wakeup_' = TRUE
    /\ UNCHANGED <<ownerVars, loop, started_, tasks_, delay_tasks_, delay,
                   left, completed, localVars, slept>>

Tick ==
    /\ \/ \E t \in delay_tasks_ : left[t] > 0
       \/ loop = "wait" /\ sleep_for > 0
    /\ left' = [t \in Tasks |-> IF left[t] > 0 THEN left[t] - 1 ELSE 0]
    /\ sleep_for' = IF loop = "wait" /\ sleep_for > 0
                      THEN sleep_for - 1 ELSE sleep_for
    /\ UNCHANGED <<ownerVars, loop, started_, tasks_, delay_tasks_, delay,
                   completed, wakeup_, timeup_tasks, old_tasks,
                   proactor_tasks, cur, slept>>
-----------------------------------------------------------------------------
(* The executor's thread: do_start.                                         *)

\* Variant of BeginLoop: started_ is not set before the notification.
BeginLoop_not_started ==
    /\ loop = "begin"
    /\ loop' = "check"
    /\ UNCHANGED <<ownerVars, started_, sharedVars, localVars, slept>>

BeginLoop ==
    /\ loop = "begin"
    /\ started_' = TRUE
    /\ loop' = "check"
    /\ UNCHANGED <<ownerVars, sharedVars, localVars, slept>>

\* "while (!stoped_)", read without the mutex.
CheckStop ==
    /\ loop = "check"
    /\ loop' = IF stoped_ THEN "exit" ELSE "pending"
    /\ UNCHANGED <<ownerVars, started_, sharedVars, localVars, slept>>

\* Variant of get_pending_tasks: tasks_ is copied, not moved from.
get_pending_tasks_copy ==
    /\ loop = "pending"
    /\ old_tasks' = tasks_
    /\ loop' = "timeup"
    /\ UNCHANGED <<ownerVars, started_, sharedVars, timeup_tasks,
                   proactor_tasks, sleep_for, cur, slept>>

\* Variant of get_pending_tasks: it drains only when nothing wakes it.
get_pending_tasks_late ==
    /\ loop = "pending"
    /\ old_tasks' = IF wakeup_ THEN <<>> ELSE tasks_
    /\ tasks_' = IF wakeup_ THEN tasks_ ELSE <<>>
    /\ slept' = IF wakeup_ THEN slept ELSE slept \ Range(tasks_)
    /\ loop' = "timeup"
    /\ UNCHANGED <<ownerVars, started_, delay_tasks_, delay, left, completed,
                   wakeup_, timeup_tasks, proactor_tasks, sleep_for, cur>>

get_pending_tasks ==
    /\ loop = "pending"
    /\ old_tasks' = tasks_
    /\ tasks_' = <<>>
    /\ slept' = slept \ Range(tasks_)
    /\ loop' = "timeup"
    /\ UNCHANGED <<ownerVars, started_, delay_tasks_, delay, left, completed,
                   wakeup_, timeup_tasks, proactor_tasks, sleep_for, cur>>

\* The elements top() may return: PriorityDelayTask::operator< compares the
\* requested delays, so the top of the heap is an element of longest delay,
\* whatever its run_at.
Tops(S) == {t \in S : \A u \in S : delay[u] <= delay[t]}

\* Variant of PopsDue: run_at is not compared with now.
PopsDue_early(s) ==
    \A i \in 1..Len(s) :
        s[i] \in Tops(delay_tasks_ \ {s[j] : j \in 1..(i - 1)})

\* The sequences of elements the loop of get_timeup_delay_tasks may pop:
\* the top each time, as long as it is due.
PopsDue(s) ==
    \A i \in 1..Len(s) :
        /\ s[i] \in Tops(delay_tasks_ \ {s[j] : j \in 1..(i - 1)})
        /\ left[s[i]] = 0

get_timeup_delay_tasks ==
    /\ loop = "timeup"
    /\ \E n \in 0..Cardinality(delay_tasks_) :
       \E popped \in [1..n -> delay_tasks_] :
         LET rest == delay_tasks_ \ Range(popped) IN
         /\ PopsDue(popped)
         /\ timeup_tasks' = popped
         /\ delay_tasks_' = rest
         /\ delay' = [t \in Tasks |-> IF t \in rest THEN delay[t] ELSE 0]
         /\ \/ rest = {} /\ sleep_for' = IdleWait
            \/ \E top \in Tops(rest) :
                 left[top] > 0 /\ sleep_for' = left[top]
    /\ loop' = "harvest"
    /\ UNCHANGED <<ownerVars, started_, tasks_, left, completed, wakeup_,
                   old_tasks, proactor_tasks, cur, slept>>

get_proactor_tasks ==
    /\ loop = "harvest"
    /\ proactor_tasks' = completed
    /\ completed' = <<>>
    /\ loop' = "decide"
    /\ UNCHANGED <<ownerVars, started_, tasks_, delay_tasks_, delay, left,
                   wakeup_, timeup_tasks, old_tasks, sleep_for, cur, slept>>

Decide ==
    /\ loop = "decide"
    /\ loop' = IF BatchEmpty THEN "nap" ELSE "run"
    /\ UNCHANGED <<ownerVars, started_, sharedVars, localVars, slept>>

\* wakeup_ is cleared without looking at tasks_: a post since
\* get_pending_tasks loses its wake-up here.
Nap ==
    /\ loop = "nap"
    /\ wakeup_' = FALSE
    /\ slept' = slept \union Range(tasks_)
    /\ loop' = "wait"
    /\ UNCHANGED <<ownerVars, started_, tasks_, delay_tasks_, delay, left,
                   completed, localVars>>

\* Variant of WaitReturns: wait instead of wait_for.
WaitReturns_untimed ==
    /\ loop = "wait"
    /\ wakeup_
    /\ sleep_for' = 0
    /\ loop' = "check"
    /\ UNCHANGED <<ownerVars, started_, sharedVars, timeup_tasks, old_tasks,
                   proactor_tasks, cur, slept>>

\* wait_for returns: its predicate holds, or its time is over.
WaitReturns ==
    /\ loop = "wait"
    /\ wakeup_ \/ sleep_for = 0
    /\ sleep_for' = 0
    /\ loop' = "check"
    /\ UNCHANGED <<ownerVars, started_, sharedVars, timeup_tasks, old_tasks,
                   proactor_tasks, cur, slept>>

\* The next task of the three loops: timers, then posted tasks, then
\* completions.
StartTask ==
    /\ loop = "run" /\ cur = NoTask
    /\ \/ /\ timeup_tasks # <<>>
          /\ cur' = Head(timeup_tasks)
          /\ timeup_tasks' = Tail(timeup_tasks)
          /\ UNCHANGED <<old_tasks, proactor_tasks>>
       \/ /\ timeup_tasks = <<>> /\ old_tasks # <<>>
          /\ cur' = Head(old_tasks)
          /\ old_tasks' = Tail(old_tasks)
          /\ UNCHANGED <<timeup_tasks, proactor_tasks>>
       \/ /\ timeup_tasks = <<>> /\ old_tasks = <<>> /\ proactor_tasks # <<>>
          /\ cur' = Head(proactor_tasks)
          /\ proactor_tasks' = Tail(proactor_tasks)
          /\ UNCHANGED <<timeup_tasks, old_tasks>>
    /\ UNCHANGED <<ownerVars, loop, started_, sharedVars, sleep_for, slept>>

FinishTask ==
    /\ loop = "run" /\ cur # NoTask
    /\ cur' = NoTask
    /\ loop' = IF BatchEmpty THEN "check" ELSE "run"
    /\ UNCHANGED <<ownerVars, started_, sharedVars, timeup_tasks, old_tasks,
                   proactor_tasks, sleep_for, slept>>
\* What is_current_executor() answers to a task the thread runs: thread_ holds
\* the id of the thread only once it has been assigned.
is_current_executor == assigned
-----------------------------------------------------------------------------
Owner == Spawn \/ AssignThread \/ AwaitStarted \/ Stop \/ Join
           \/ DestroyUnstarted

Clients ==
    \/ \E t \in Tasks : \/ Post(t)
                        \/ \E d \in Delays : PostDelay(t, d)
                        \/ Complete(t)
    \/ wake_up

Thread ==
    \/ BeginLoop \/ CheckStop \/ get_pending_tasks \/ get_timeup_delay_tasks
    \/ get_proactor_tasks \/ Decide \/ Nap \/ WaitReturns \/ StartTask
    \/ FinishTask

\* The executor is destroyed, or the program has terminated.
Ended == ~Alive /\ UNCHANGED vars

Next == Owner \/ Clients \/ Thread \/ Tick \/ Ended

Spec == Init /\ [][Next]_vars

\* The scheduler runs every thread that can take a step, time passes, and the
\* owner's start and join go on once called.  Nobody has to post, nor to stop.
FairSpec ==
    /\ Spec
    /\ WF_vars(Thread)
    /\ WF_vars(Tick)
    /\ WF_vars(AssignThread \/ AwaitStarted \/ Join)
-----------------------------------------------------------------------------
(* Properties.                                                              *)

\* No task is in two containers, or twice in one: a post leads to one run.
NoDuplicates ==
    LET ready == Range(tasks_)
        done  == Range(completed)
        due   == Range(timeup_tasks)
        old   == Range(old_tasks)
        io    == Range(proactor_tasks)
    IN  /\ IsInjective(tasks_) /\ IsInjective(completed) /\ IsInjective(timeup_tasks)
        /\ IsInjective(old_tasks) /\ IsInjective(proactor_tasks)
        /\ delay_tasks_ \cap (ready \union done \union due \union old \union io)
             = {}
        /\ ready \cap (done \union due \union old \union io) = {}
        /\ done \cap (due \union old \union io) = {}
        /\ due \cap (old \union io) = {}
        /\ old \cap io = {}

\* A wake-up lost between get_pending_tasks and the wait costs a posted task
\* at most one sleep: the thread never goes to sleep over it again.
OneNap == loop = "nap" => slept \cap Range(tasks_) = {}

\* A thread asleep with wakeup_ clear sleeps only over tasks that were posted
\* before it fell asleep: a post during the sleep always ends it.
PostEndsSleep == loop = "wait" /\ ~wakeup_ => Range(tasks_) \subseteq slept

\* Posted tasks start in the order they were posted in, across iterations and
\* whatever timers and completions run in between.
posted == old_tasks \o tasks_
PostOrder ==
    [][\/ posted' = posted
       \/ \E t \in Tasks : posted' = Append(posted, t)
       \/ posted # <<>> /\ posted' = Tail(posted) /\ cur' = Head(posted)
      ]_posted

\* A do_io task finds itself on its executor's thread (the assertion at the
\* start of Select::do_io).
IoTaskOnExecutor == cur \in IoTasks => is_current_executor

\* The executor implements ExecutorSpec.
Status(t) ==
    IF t \in delay_tasks_ THEN "delayed" ELSE
    IF t \in Held THEN "ready" ELSE "idle"
Abstract == INSTANCE ExecutorSpec WITH
    status <- [t \in Tasks |-> Status(t)],
    running <- {cur} \ {NoTask},
    closed <- owner = "gone"
ImplementsExecutor == Abstract!Spec

\* Once the executor is started, a posted task runs unless the executor is
\* stopped first, although the wake-up for it may be lost.
Started == loop # "none"
PostedRuns ==
    \A t \in Tasks :
        Started /\ t \in Range(tasks_) ~> (cur = t \/ stoped_)

\* So does a completion, although nothing wakes the thread for it: the sleep
\* under way is finite and the next iteration harvests.
CompletionsRun ==
    \A t \in Tasks :
        Started /\ t \in Range(completed) ~> (cur = t \/ stoped_)

\* If from some point on no task is delayed any more, every delayed task runs.
\* (With new longer delays arriving forever a due timer may wait forever
\* below them in the heap.)
TimersRun ==
    <>[][delay_tasks_' \subseteq delay_tasks_]_delay_tasks_ =>
      \A t \in Tasks : Started /\ t \in delay_tasks_ ~> (cur = t \/ stoped_)

\* start() returns, and the destructor returns although its notification
\* does not end the sleep of the thread.
StartReturns == owner = "starting" ~> owner = "up"
StopReturns == owner = "joining" ~> owner = "gone"

\* Everything the executor owes: each kind of task runs, and start() and the
\* destructor return.
Progress ==
    PostedRuns /\ CompletionsRun /\ TimersRun /\ StartReturns /\ StopReturns
=============================================================================
