------------------------- MODULE MultithreadExecutor -------------------------
(***************************************************************************)
(* bco::MultithreadExecutor (src/executor/multithread_executor.cpp): a     *)
(* main loop that hands timers and completions to workers, and workers     *)
(* that run the tasks of their own queue, of the global queue and of each  *)
(* other, in this order.  start() waits on a bco::WaitGroup.               *)
(*                                                                         *)
(* Every critical section is an action, and so is every unlocked step      *)
(* between two of them.  No wait_for of this class has a predicate: it may *)
(* return at any time, because of a notification, a timeout or neither, so *)
(* a sleep is a state that is left by a step of the sleeper.  What its     *)
(* timeout guarantees is that this step is taken.                          *)
(*                                                                         *)
(* The destructor joins the main loop's thread and destroys the members    *)
(* declared after workers_ before ~Worker joins the workers.  A worker     *)
(* that touches a destroyed member sets "broken": the program's behaviour  *)
(* is undefined from there on and the model stops.                         *)
(***************************************************************************)
EXTENDS Naturals, Sequences, FiniteSets, Functions

CONSTANTS
    Tasks,          \* the tasks that can be posted
    Delays,         \* the durations, in ticks, given to post_delay
    worker_size_,   \* the number of workers, clamped by the constructor
    NoTask          \* cur[w] when worker w runs no task

ASSUME ExecutorAssumption ==
    /\ IsFiniteSet(Tasks)
    /\ Delays \subseteq Nat
    /\ worker_size_ \in 1..1000
    /\ NoTask \notin Tasks

Workers == 0..(worker_size_ - 1)

VARIABLES
    owner,          \* progress of the thread that owns the executor
    spawned,        \* how many workers' threads start() has created
    registered,     \* how many of them it has put into thread_ids_
    joined,         \* how many workers ~Worker has joined and destroyed
    size_,          \* the WaitGroup's counter
    stoped_,
    global_tasks_,  \* std::queue<PriorityTask>
    tasks_,         \* tasks_[w]: the queue of worker w
    delay_tasks_,   \* the contents of the priority_queue
    delay,          \* delay[t] of an element of delay_tasks_: the heap's key
    left,           \* left[t]: ticks until run_at of an element
    completed,      \* what get_proactor_task_() would return
    main,           \* program counter of the main loop
    batch,          \* main loop: timers, then completions, not yet handed out
    pc,             \* pc[w]: program counter of worker w
    victims,        \* victims[w]: the workers w has still to try to steal from
    cur,            \* cur[w]: the task whose body worker w is executing
    broken,         \* a worker has touched a destroyed member
    missed,         \* history, missed[w]: the tasks that have been queued
                    \* since w last began to look for one
    late,           \* history, late[w]: how many tasks w began after Stop
    calm            \* history: Stop found every worker asleep

ownerVars == <<owner, spawned, registered, joined, stoped_, calm>>
queueVars == <<global_tasks_, tasks_>>
timerVars == <<delay_tasks_, delay, left>>
mainVars == <<main, batch>>
workerVars == <<pc, victims, cur, missed, late>>
vars == <<owner, spawned, registered, joined, size_, stoped_, global_tasks_,
          tasks_, delay_tasks_, delay, left, completed, main, batch, pc,
          victims, cur, broken, missed, late, calm>>

\* The tasks a worker can take.
Queued == Range(global_tasks_) \union UNION {Range(tasks_[w]) : w \in Workers}

Running == {cur[w] : w \in Workers} \ {NoTask}

\* The tasks some container holds or some worker executes.
Held == Queued \union delay_tasks_ \union Range(completed)
          \union Range(batch) \union Running

TypeOK ==
    /\ owner \in {"fresh", "starting", "up", "joining", "destroying", "gone",
                  "aborted"}
    /\ spawned \in 0..worker_size_ /\ registered \in 0..spawned
    /\ joined \in 0..worker_size_
    /\ size_ \in 0..(worker_size_ + 1)
    /\ stoped_ \in BOOLEAN /\ broken \in BOOLEAN /\ calm \in BOOLEAN
    /\ global_tasks_ \in Seq(Tasks)
    /\ tasks_ \in [Workers -> Seq(Tasks)]
    /\ delay_tasks_ \in SUBSET Tasks
    /\ delay \in [Tasks -> Nat]
    /\ left \in [Tasks -> Nat]
    /\ completed \in Seq(Tasks)
    /\ main \in {"none", "begin", "check", "timeup", "harvest", "decide",
                 "sleep", "dispatch", "exit"}
    /\ batch \in Seq(Tasks)
    /\ pc \in [Workers -> {"none", "begin", "notify", "check", "own",
                           "global", "steal", "ask", "sleep", "run", "exit"}]
    /\ victims \in [Workers -> SUBSET Workers]
    /\ cur \in [Workers -> Tasks \union {NoTask}]
    /\ missed \in [Workers -> SUBSET Tasks]
    /\ late \in [Workers -> Nat]

\* Variant of Init: the main loop is not counted by wg_.
Init_short ==
    /\ owner = "fresh" /\ spawned = 0 /\ registered = 0 /\ joined = 0
    /\ size_ = worker_size_
    /\ stoped_ = FALSE /\ broken = FALSE /\ calm = FALSE
    /\ global_tasks_ = <<>> /\ tasks_ = [w \in Workers |-> <<>>]
    /\ delay_tasks_ = {} /\ completed = <<>>
    /\ delay = [t \in Tasks |-> 0] /\ left = [t \in Tasks |-> 0]
    /\ main = "none" /\ batch = <<>>
    /\ pc = [w \in Workers |-> "none"]
    /\ victims = [w \in Workers |-> {}]
    /\ cur = [w \in Workers |-> NoTask]
    /\ missed = [w \in Workers |-> {}]
    /\ late = [w \in Workers |-> 0]

Init ==
    /\ owner = "fresh" /\ spawned = 0 /\ registered = 0 /\ joined = 0
    /\ size_ = worker_size_ + 1
    /\ stoped_ = FALSE /\ broken = FALSE /\ calm = FALSE
    /\ global_tasks_ = <<>> /\ tasks_ = [w \in Workers |-> <<>>]
    /\ delay_tasks_ = {} /\ completed = <<>>
    /\ delay = [t \in Tasks |-> 0] /\ left = [t \in Tasks |-> 0]
    /\ main = "none" /\ batch = <<>>
    /\ pc = [w \in Workers |-> "none"]
    /\ victims = [w \in Workers |-> {}]
    /\ cur = [w \in Workers |-> NoTask]
    /\ missed = [w \in Workers |-> {}]
    /\ late = [w \in Workers |-> 0]

-----------------------------------------------------------------------------
(* The owner's thread.                                                      *)

StartMain ==
    /\ owner = "fresh"
    /\ owner' = "starting"
    /\ main' = "begin"
    /\ UNCHANGED <<spawned, registered, joined, size_, stoped_, calm,
                   queueVars, timerVars, completed, batch, workerVars, broken>>

\* A worker runs as soon as its thread exists ...
StartWorker ==
    /\ owner = "starting" /\ registered = spawned /\ spawned < worker_size_
    /\ spawned' = spawned + 1
    /\ pc' = [pc EXCEPT ![spawned] = "begin"]
    /\ UNCHANGED <<owner, registered, joined, size_, stoped_, calm, queueVars,
                   timerVars, completed, mainVars, victims, cur, missed, late,
                   broken>>

\* ... and gets its entry in thread_ids_, which nothing locks, afterwards.
RegisterWorker ==
    /\ owner = "starting" /\ registered < spawned
    /\ registered' = registered + 1
    /\ UNCHANGED <<owner, spawned, joined, size_, stoped_, calm, queueVars,
                   timerVars, completed, mainVars, workerVars, broken>>

\* wg_.wait() and the return of start().
StartReturned ==
    /\ owner = "starting" /\ registered = worker_size_ /\ size_ = 0
    /\ owner' = "up"
    /\ UNCHANGED <<spawned, registered, joined, size_, stoped_, calm,
                   queueVars, timerVars, completed, mainVars, workerVars,
                   broken>>

\* The destructor up to the join: the flag and the notifications.
Stop ==
    /\ owner = "up"
    /\ owner' = "joining"
    /\ stoped_' = TRUE
    /\ calm' = (\A w \in Workers : pc[w] = "sleep")
    /\ UNCHANGED <<spawned, registered, joined, size_, queueVars, timerVars,
                   completed, mainVars, workerVars, broken>>

\* The end of the destructor's body: all members declared after workers_ are
\* destroyed, mutex_, cv_, thread_ids_, global_tasks_ and wg_ among them.
JoinMain ==
    /\ owner = "joining" /\ main = "exit"
    /\ owner' = "destroying"
    /\ UNCHANGED <<spawned, registered, joined, size_, stoped_, calm,
                   queueVars, timerVars, completed, mainVars, workerVars,
                   broken>>

\* ~Worker of the elements of workers_, from the first to the last.
JoinWorker ==
    /\ owner = "destroying" /\ joined < worker_size_ /\ ~broken
    /\ pc[joined] = "exit"
    /\ joined' = joined + 1
    /\ owner' = IF joined + 1 = worker_size_ THEN "gone" ELSE owner
    /\ UNCHANGED <<spawned, registered, size_, stoped_, calm, queueVars,
                   timerVars, completed, mainVars, workerVars, broken>>

\* Destroying an executor that was never started: join() of a thread object
\* without thread throws in a destructor, and the program terminates.
DestroyUnstarted ==
    /\ owner = "fresh"
    /\ owner' = "aborted"
    /\ stoped_' = TRUE
    /\ UNCHANGED <<spawned, registered, joined, size_, calm, queueVars,
                   timerVars, completed, mainVars, workerVars, broken>>

-----------------------------------------------------------------------------
(* Any thread, and any task the executor runs.                              *)

\* The members declared after workers_ exist.
Intact == owner \notin {"destroying", "gone", "aborted"}

\* A thread that is no worker: thread_ids_ never holds it.
PostOutside(t) ==
    /\ Intact /\ t \notin Held
    /\ global_tasks_' = Append(global_tasks_, t)
    /\ UNCHANGED <<ownerVars, size_, tasks_, timerVars, completed, mainVars,
                   workerVars, broken>>

\* A task that runs on worker w.  While start() inserts into thread_ids_, a
\* find() at the same time may miss an entry.
PostFromWorker(w, t) ==
    /\ Intact /\ t \notin Held /\ pc[w] = "run"
    /\ \/ /\ w < registered
          /\ tasks_' = [tasks_ EXCEPT ![w] = Append(@, t)]
          /\ UNCHANGED global_tasks_
       \/ /\ registered < worker_size_
          /\ global_tasks_' = Append(global_tasks_, t)
          /\ UNCHANGED tasks_
    /\ UNCHANGED <<ownerVars, size_, timerVars, completed, mainVars,
                   workerVars, broken>>

\* post_delay does not notify.
PostDelay(t, d) ==
    /\ Intact /\ t \notin Held
    /\ delay_tasks_' = delay_tasks_ \union {t}
    /\ delay' = [delay EXCEPT ![t] = d]
    /\ left' = [left EXCEPT ![t] = d]
    /\ UNCHANGED <<ownerVars, size_, queueVars, completed, mainVars,
                   workerVars, broken>>

\* A proactor finishes an operation and queues its callback for harvest().
Complete(t) ==
    /\ Intact /\ t \notin Held
    /\ completed' = Append(completed, t)
    /\ UNCHANGED <<ownerVars, size_, queueVars, timerVars, mainVars,
                   workerVars, broken>>

Tick ==
    /\ \E t \in delay_tasks_ : left[t] > 0
    /\ left' = [t \in Tasks |-> IF left[t] > 0 THEN left[t] - 1 ELSE 0]
    /\ UNCHANGED <<ownerVars, size_, queueVars, delay_tasks_, delay,
                   completed, mainVars, workerVars, broken>>

-----------------------------------------------------------------------------
(* The main loop.                                                           *)

\* Variant of MainBegins: the main loop does not call wg_.done().
MainBegins_not_done ==
    /\ main = "begin"
    /\ main' = "check"
    /\ UNCHANGED <<ownerVars, size_, queueVars, timerVars, completed, batch,
                   workerVars, broken>>

\* wg_.done(), its notification included: this thread is joined before wg_ is
\* destroyed.
MainBegins ==
    /\ main = "begin"
    /\ size_' = size_ - 1
    /\ main' = "check"
    /\ UNCHANGED <<ownerVars, queueVars, timerVars, completed, batch,
                   workerVars, broken>>

MainCheck ==
    /\ main = "check"
    /\ main' = IF stoped_ THEN "exit" ELSE "timeup"
    /\ UNCHANGED <<ownerVars, size_, queueVars, timerVars, completed, batch,
                   workerVars, broken>>

\* The elements top() may return: PriorityDelayTask::operator< compares the
\* requested delays, so the top of the heap is an element of longest delay,
\* whatever its run_at.
Tops(S) == {t \in S : \A u \in S : delay[u] <= delay[t]}

\* Variant of PopsDue: run_at is not compared with now.
PopsDue_early(s) ==
    \A i \in 1..Len(s) :
        s[i] \in Tops(delay_tasks_ \ {s[j] : j \in 1..(i - 1)})

\* The sequences of elements the loop of get_timeup_delay_tasks may pop:
\* the top each time, as long as it is due.
PopsDue(s) ==
    \A i \in 1..Len(s) :
        /\ s[i] \in Tops(delay_tasks_ \ {s[j] : j \in 1..(i - 1)})
        /\ left[s[i]] = 0

get_timeup_delay_tasks ==
    /\ main = "timeup"
    /\ \E n \in 0..Cardinality(delay_tasks_) :
       \E popped \in [1..n -> delay_tasks_] :
         LET rest == delay_tasks_ \ Range(popped) IN
         /\ PopsDue(popped)
         /\ rest = {} \/ \E top \in Tops(rest) : left[top] > 0
         /\ batch' = popped
         /\ delay_tasks_' = rest
         /\ delay' = [t \in Tasks |-> IF t \in rest THEN delay[t] ELSE 0]
    /\ main' = "harvest"
    /\ UNCHANGED <<ownerVars, size_, queueVars, left, completed, workerVars,
                   broken>>

\* Variant of get_proactor_task with the test after it: || for &&, so that a
\* batch of timers only or of completions only is dropped.
get_proactor_task_or ==
    /\ main = "harvest"
    /\ batch' = IF batch = <<>> \/ completed = <<>> THEN <<>>
                 ELSE batch \o completed
    /\ completed' = <<>>
    /\ main' = "decide"
    /\ UNCHANGED <<ownerVars, size_, queueVars, timerVars, workerVars, broken>>

get_proactor_task ==
    /\ main = "harvest"
    /\ batch' = batch \o completed
    /\ completed' = <<>>
    /\ main' = "decide"
    /\ UNCHANGED <<ownerVars, size_, queueVars, timerVars, workerVars, broken>>

MainDecides ==
    /\ main = "decide"
    /\ main' = IF batch = <<>> THEN "sleep" ELSE "dispatch"
    /\ UNCHANGED <<ownerVars, size_, queueVars, timerVars, completed, batch,
                   workerVars, broken>>

\* Variant of MainWakes: wait for wait_for, repeated until notified; a worker
\* that asks for completions is all that notifies.
MainWakes_untimed ==
    /\ main = "sleep"
    /\ main' = IF \E w \in Workers : pc[w] = "ask" THEN "check" ELSE "sleep"
    /\ UNCHANGED <<ownerVars, size_, queueVars, timerVars, completed, batch,
                   workerVars, broken>>

MainWakes ==
    /\ main = "sleep"
    /\ main' = "check"
    /\ UNCHANGED <<ownerVars, size_, queueVars, timerVars, completed, batch,
                   workerVars, broken>>

\* One task of the batch goes to a worker chosen at random.
Dispatch ==
    /\ main = "dispatch"
    /\ \E w \in Workers :
         tasks_' = [tasks_ EXCEPT ![w] = Append(@, Head(batch))]
    /\ batch' = Tail(batch)
    /\ main' = IF Len(batch) = 1 THEN "check" ELSE "dispatch"
    /\ UNCHANGED <<ownerVars, size_, global_tasks_, timerVars, completed,
                   workerVars, broken>>

Main ==
    /\ ~broken
    /\ \/ MainBegins \/ MainCheck \/ get_timeup_delay_tasks
       \/ get_proactor_task \/ MainDecides \/ MainWakes \/ Dispatch

-----------------------------------------------------------------------------
(* Worker w.                                                                *)

\* wg_.done(): the counter reaches zero under the lock, the notification
\* follows without it.
WorkerBegins(w) ==
    /\ pc[w] = "begin"
    /\ size_' = size_ - 1
    /\ pc' = [pc EXCEPT ![w] = IF size_ = 1 THEN "notify" ELSE "check"]
    /\ UNCHANGED <<ownerVars, queueVars, timerVars, completed, mainVars,
                   victims, cur, missed, late, broken>>

WorkerNotifies(w) ==
    /\ pc[w] = "notify" /\ Intact
    /\ pc' = [pc EXCEPT ![w] = "check"]
    /\ UNCHANGED <<ownerVars, size_, queueVars, timerVars, completed,
                   mainVars, victims, cur, missed, late, broken>>

\* Variant of WorkerChecks: stoped_ is looked at only when there is no work.
WorkerChecks_late(w) ==
    /\ pc[w] = "check"
    /\ pc' = [pc EXCEPT ![w] = IF stoped_ /\ Queued = {} THEN "exit"
                                 ELSE "own"]
    /\ missed' = [missed EXCEPT ![w] = Queued]
    /\ UNCHANGED <<ownerVars, size_, queueVars, timerVars, completed,
                   mainVars, victims, cur, late, broken>>

WorkerChecks(w) ==
    /\ pc[w] = "check"
    /\ pc' = [pc EXCEPT ![w] = IF stoped_ THEN "exit" ELSE "own"]
    /\ missed' = [missed EXCEPT ![w] = Queued]
    /\ UNCHANGED <<ownerVars, size_, queueVars, timerVars, completed,
                   mainVars, victims, cur, late, broken>>

\* Worker w has popped t and begins to run it.
Begins(w, t) ==
    /\ pc' = [pc EXCEPT ![w] = "run"]
    /\ cur' = [cur EXCEPT ![w] = t]
    /\ missed' = [v \in Workers |-> missed[v] \ {t}]
    /\ late' = [late EXCEPT ![w] = IF stoped_ THEN @ + 1 ELSE @]
    /\ victims' = [victims EXCEPT ![w] = {}]

do_own_job(w) ==
    /\ pc[w] = "own"
    /\ \/ /\ tasks_[w] # <<>>
          /\ Begins(w, Head(tasks_[w]))
          /\ tasks_' = [tasks_ EXCEPT ![w] = Tail(@)]
       \/ /\ tasks_[w] = <<>>
          /\ pc' = [pc EXCEPT ![w] = "global"]
          /\ UNCHANGED <<tasks_, victims, cur, missed, late>>
    /\ UNCHANGED <<ownerVars, size_, global_tasks_, timerVars, completed,
                   mainVars, broken>>

\* The beginning of steal_and_do_job.
take_one(w) ==
    /\ pc[w] = "global" /\ Intact
    /\ \/ /\ global_tasks_ # <<>>
          /\ Begins(w, Head(global_tasks_))
          /\ global_tasks_' = Tail(global_tasks_)
       \/ /\ global_tasks_ = <<>>
          /\ pc' = [pc EXCEPT ![w] = "steal"]
          /\ victims' = [victims EXCEPT ![w] = Workers \ {w}]
          /\ UNCHANGED <<global_tasks_, cur, missed, late>>
    /\ UNCHANGED <<ownerVars, size_, tasks_, timerVars, completed, mainVars,
                   broken>>

\* Variant of steal_from: the task is copied from the victim's queue.
steal_from_copy(w, v) ==
    /\ pc[w] = "steal" /\ v \in victims[w] /\ v >= joined
    /\ \/ /\ tasks_[v] # <<>>
          /\ Begins(w, Head(tasks_[v]))
          /\ UNCHANGED tasks_
       \/ /\ tasks_[v] = <<>>
          /\ victims' = [victims EXCEPT ![w] = @ \ {v}]
          /\ UNCHANGED <<pc, tasks_, cur, missed, late>>
    /\ UNCHANGED <<ownerVars, size_, global_tasks_, timerVars, completed,
                   mainVars, broken>>

\* The loop of steal_and_do_job visits the other workers from a random one on;
\* any order stands for it.
steal_from(w, v) ==
    /\ pc[w] = "steal" /\ v \in victims[w] /\ v >= joined
    /\ \/ /\ tasks_[v] # <<>>
          /\ Begins(w, Head(tasks_[v]))
          /\ tasks_' = [tasks_ EXCEPT ![v] = Tail(@)]
       \/ /\ tasks_[v] = <<>>
          /\ victims' = [victims EXCEPT ![w] = @ \ {v}]
          /\ UNCHANGED <<pc, tasks_, cur, missed, late>>
    /\ UNCHANGED <<ownerVars, size_, global_tasks_, timerVars, completed,
                   mainVars, broken>>

\* Variant of StealFails: one victim is enough.
StealFails_early(w) ==
    /\ pc[w] = "steal" /\ Cardinality(victims[w]) <= 1
    /\ pc' = [pc EXCEPT ![w] = "ask"]
    /\ victims' = [victims EXCEPT ![w] = {}]
    /\ UNCHANGED <<ownerVars, size_, queueVars, timerVars, completed,
                   mainVars, cur, missed, late, broken>>

StealFails(w) ==
    /\ pc[w] = "steal" /\ victims[w] = {}
    /\ pc' = [pc EXCEPT ![w] = "ask"]
    /\ UNCHANGED <<ownerVars, size_, queueVars, timerVars, completed,
                   mainVars, victims, cur, missed, late, broken>>

\* Only a notification of the main loop's condition variable.
request_proactor_task(w) ==
    /\ pc[w] = "ask" /\ Intact
    /\ pc' = [pc EXCEPT ![w] = "sleep"]
    /\ UNCHANGED <<ownerVars, size_, queueVars, timerVars, completed,
                   mainVars, victims, cur, missed, late, broken>>

\* Variant of worker_sleep: wait for wait_for, repeated until the worker's own
\* queue holds a task.
worker_sleep_untimed(w) ==
    /\ pc[w] = "sleep"
    /\ pc' = [pc EXCEPT ![w] = IF tasks_[w] = <<>> THEN "sleep" ELSE "check"]
    /\ UNCHANGED <<ownerVars, size_, queueVars, timerVars, completed,
                   mainVars, victims, cur, missed, late, broken>>

\* Variant of worker_sleep: stoped_ is not read between two iterations.
worker_sleep_unchecked(w) ==
    /\ pc[w] = "sleep"
    /\ pc' = [pc EXCEPT ![w] = "own"]
    /\ UNCHANGED <<ownerVars, size_, queueVars, timerVars, completed,
                   mainVars, victims, cur, missed, late, broken>>

\* The end of worker_sleep's wait_for.
worker_sleep(w) ==
    /\ pc[w] = "sleep"
    /\ pc' = [pc EXCEPT ![w] = "check"]
    /\ UNCHANGED <<ownerVars, size_, queueVars, timerVars, completed,
                   mainVars, victims, cur, missed, late, broken>>

FinishTask(w) ==
    /\ pc[w] = "run"
    /\ cur' = [cur EXCEPT ![w] = NoTask]
    /\ pc' = [pc EXCEPT ![w] = "check"]
    /\ UNCHANGED <<ownerVars, size_, queueVars, timerVars, completed,
                   mainVars, victims, missed, late, broken>>

\* Worker w uses wg_, mutex_, global_tasks_ or cv_, steals from a worker that
\* has been joined, or the task it runs posts, after their destruction.
UseDestroyed(w) ==
    /\ owner = "destroying"
    /\ \/ pc[w] \in {"notify", "global", "ask", "run"}
       \/ pc[w] = "steal" /\ \E v \in victims[w] : v < joined
    /\ broken' = TRUE
    /\ UNCHANGED <<ownerVars, size_, queueVars, timerVars, completed,
                   mainVars, workerVars>>

Worker(w) ==
    /\ ~broken
    /\ \/ WorkerBegins(w) \/ WorkerNotifies(w) \/ WorkerChecks(w)
       \/ do_own_job(w) \/ take_one(w) \/ \E v \in Workers : steal_from(w, v)
       \/ StealFails(w) \/ request_proactor_task(w) \/ worker_sleep(w)
       \/ FinishTask(w) \/ UseDestroyed(w)

-----------------------------------------------------------------------------
Owner == StartMain \/ StartWorker \/ RegisterWorker \/ StartReturned \/ Stop
           \/ JoinMain \/ JoinWorker \/ DestroyUnstarted

\* A task is posted again only when no container holds it and its body has
\* returned: a second post from its own body is another task.
Clients ==
    \E t \in Tasks : \/ PostOutside(t)
                     \/ \E w \in Workers : PostFromWorker(w, t)
                     \/ \E d \in Delays : PostDelay(t, d)
                     \/ Complete(t)

\* The executor is destroyed, the program has terminated or is undefined.
Ended == (owner \in {"gone", "aborted"} \/ broken) /\ UNCHANGED vars

Next == Owner \/ Clients \/ Main \/ (\E w \in Workers : Worker(w)) \/ Tick
          \/ Ended

Spec == Init /\ [][Next]_vars

\* The scheduler runs every thread that can take a step, time passes and every
\* wait_for returns, and start() and the destructor go on once called.
\* Nobody has to post, nor to stop.
FairSpec ==
    /\ Spec
    /\ \A w \in Workers : WF_vars(Worker(w))
    /\ WF_vars(Main)
    /\ WF_vars(Tick)
    /\ WF_vars(StartWorker \/ RegisterWorker \/ StartReturned \/ JoinMain
                 \/ JoinWorker)
-----------------------------------------------------------------------------
(* Properties.                                                              *)

\* What holds a task: a container of the executor, of its proactor, or a
\* worker that executes it.
Places == ({"global", "delayed", "completed", "batch"} \X {0})
            \union ({"queue", "run"} \X Workers)

At(x) ==
    CASE x[1] = "global"    -> Range(global_tasks_)
      [] x[1] = "delayed"   -> delay_tasks_
      [] x[1] = "completed" -> Range(completed)
      [] x[1] = "batch"     -> Range(batch)
      [] x[1] = "queue"     -> Range(tasks_[x[2]])
      [] x[1] = "run"       -> {cur[x[2]]} \ {NoTask}

\* However workers, thieves and the main loop interleave, no task is in two
\* places, or twice in one queue: a post leads to one run, by one worker.
NoDuplicates ==
    /\ IsInjective(global_tasks_) /\ IsInjective(completed)
    /\ IsInjective(batch)
    /\ \A w \in Workers : IsInjective(tasks_[w])
    /\ \A x, y \in Places : x # y => At(x) \cap At(y) = {}

\* A worker asks for completions and sleeps only if every task that was queued
\* anywhere when it began to look has been taken by somebody: what is slept
\* over was posted during the search, and costs one timeout at most.
NoWorkMissed == \A w \in Workers : pc[w] \in {"ask", "sleep"} => missed[w] = {}

\* start() returns only when every thread has begun, whatever the order in
\* which the threads count the WaitGroup down.
StartAwaitsAll ==
    owner \in {"up", "joining", "destroying", "gone"} =>
        /\ main \notin {"none", "begin"}
        /\ \A w \in Workers : pc[w] \notin {"none", "begin"}

\* Once the destructor has set stoped_, each worker begins at most one more
\* task.
OneMoreTask == \A w \in Workers : late[w] <= 1

\* An executor destroyed while all its workers sleep uses nothing that is
\* already destroyed, although it joins them last.
CalmIsSafe == calm => ~broken

\* The executor implements ExecutorSpec.
Status(t) ==
    IF t \in delay_tasks_ THEN "delayed" ELSE
    IF t \in Held \ Running THEN "ready" ELSE "idle"
Abstract == INSTANCE ExecutorSpec WITH
    status <- [t \in Tasks |-> Status(t)],
    running <- Running,
    closed <- owner = "gone"
ImplementsExecutor == Abstract!Spec

Over == stoped_ \/ broken

\* A task in a worker's own queue runs, even if the global queue never
\* empties.
OwnRuns ==
    \A t \in Tasks, w \in Workers :
        t \in Range(tasks_[w]) ~> (t \in Running \/ Over)

\* A task in the global queue runs if from some point on nothing enters the
\* workers' queues, although no post to it notifies anybody.  (Workers whose
\* tasks post again prefer their own queue and may never look at it.)
GlobalRuns ==
    <>[][\A w \in Workers : Len(tasks_'[w]) <= Len(tasks_[w])]_tasks_ =>
      \A t \in Tasks :
        main # "none" /\ t \in Range(global_tasks_) ~> (t \in Running \/ Over)

\* A completion runs, although nothing notifies the main loop of it.
CompletionsRun ==
    \A t \in Tasks :
        main # "none" /\ t \in Range(completed) ~> (t \in Running \/ Over)

\* If from some point on no task is delayed any more, every delayed task runs.
TimersRun ==
    <>[][delay_tasks_' \subseteq delay_tasks_]_delay_tasks_ =>
      \A t \in Tasks :
        main # "none" /\ t \in delay_tasks_ ~> (t \in Running \/ Over)

\* start() returns: every thread counts the WaitGroup down once.
StartReturns == owner = "starting" ~> owner = "up"

\* The destructor returns, whatever notifications are lost, unless a worker
\* has used a destroyed member.
StopReturns == owner = "joining" ~> (owner = "gone" \/ broken)

\* Everything the executor owes: each kind of task runs, and start() and the
\* destructor return.
Progress ==
    /\ OwnRuns /\ GlobalRuns /\ CompletionsRun /\ TimersRun
    /\ StartReturns /\ StopReturns
=============================================================================
