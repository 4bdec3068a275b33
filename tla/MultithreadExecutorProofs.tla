---------------------- MODULE MultithreadExecutorProofs ----------------------
(***************************************************************************)
(* Proofs about MultithreadExecutor, for every number of workers and every *)
(* set of tasks: its invariants, and that it implements ExecutorSpec.      *)
(***************************************************************************)
EXTENDS MultithreadExecutor, QueueLemmas, FiniteSetTheorems,
        SequenceTheorems, TLAPS

-----------------------------------------------------------------------------
(* The inductive invariant.                                                 *)

\* Where the threads are tells which locals are live; where the owner is
\* tells which threads exist and which members are gone.
Control ==
    /\ \A w \in Workers : /\ cur[w] # NoTask <=> pc[w] = "run"
                          /\ pc[w] = "none" <=> w >= spawned
                          /\ w < joined => pc[w] = "exit"
    /\ main = "dispatch" => batch # <<>>
    /\ main \notin {"harvest", "decide", "dispatch"} => batch = <<>>
    /\ main = "none" <=> owner \in {"fresh", "aborted"}
    /\ stoped_ <=> owner \in {"joining", "destroying", "gone", "aborted"}
    /\ owner \in {"up", "joining", "destroying", "gone"} => size_ = 0
    /\ owner = "gone" => joined = worker_size_
    /\ broken => owner = "destroying"

\* The threads that have not counted the WaitGroup down yet; the main loop
\* counts as worker_size_.
Uncounted ==
    {w \in Workers : pc[w] \in {"none", "begin"}}
      \union (IF main \in {"none", "begin"} THEN {worker_size_} ELSE {})

WaitGroupCounts == size_ = Cardinality(Uncounted)

\* What a worker that searches has still to find of the tasks that were queued
\* when it began.
SearchOf(w) ==
    /\ missed[w] \subseteq Queued
    /\ pc[w] = "global" => missed[w] \cap Range(tasks_[w]) = {}
    /\ pc[w] = "steal" =>
         missed[w] \subseteq UNION {Range(tasks_[v]) : v \in victims[w]}
    /\ pc[w] \in {"ask", "sleep"} => missed[w] = {}
Search == \A w \in Workers : SearchOf(w)

\* What workers may still do once stoped_ is set.
Ending ==
    /\ \A w \in Workers :
         late[w] # 0 => /\ stoped_ /\ late[w] = 1
                        /\ pc[w] \in {"run", "check", "exit"}
    /\ calm => /\ stoped_ /\ ~broken
               /\ \A w \in Workers : pc[w] \in {"sleep", "check", "exit"}

IInv == /\ TypeOK /\ NoDuplicates /\ Control /\ WaitGroupCounts
        /\ Search /\ Ending

-----------------------------------------------------------------------------
(* Places.                                                                  *)

LEMMA PlaceCases ==
  ASSUME NEW x \in Places
  PROVE  \/ x \in {<<"global", 0>>, <<"delayed", 0>>, <<"completed", 0>>,
                   <<"batch", 0>>}
         \/ \E w \in Workers : x = <<"queue", w>> \/ x = <<"run", w>>
  BY DEF Places

LEMMA ArePlaces ==
  /\ {<<"global", 0>>, <<"delayed", 0>>, <<"completed", 0>>, <<"batch", 0>>}
       \subseteq Places
  /\ \A w \in Workers : <<"queue", w>> \in Places /\ <<"run", w>> \in Places
  BY DEF Places

\* What each place holds, before and after a step.
LEMMA AtPlaces ==
  /\ At(<<"global", 0>>) = Range(global_tasks_)
  /\ At(<<"delayed", 0>>) = delay_tasks_
  /\ At(<<"completed", 0>>) = Range(completed)
  /\ At(<<"batch", 0>>) = Range(batch)
  /\ \A w \in Workers : /\ At(<<"queue", w>>) = Range(tasks_[w])
                        /\ At(<<"run", w>>) = {cur[w]} \ {NoTask}
  BY DEF At

LEMMA AtPlacesNext ==
  /\ At(<<"global", 0>>)' = Range(global_tasks_')
  /\ At(<<"delayed", 0>>)' = delay_tasks_'
  /\ At(<<"completed", 0>>)' = Range(completed')
  /\ At(<<"batch", 0>>)' = Range(batch')
  /\ \A w \in Workers : /\ At(<<"queue", w>>)' = Range(tasks_'[w])
                        /\ At(<<"run", w>>)' = {cur'[w]} \ {NoTask}
  BY DEF At

\* No task is in two places.
Apart == \A x, y \in Places : x # y => At(x) \cap At(y) = {}

\* Moving the tasks of S to the place q, and taking any others away, keeps
\* the places apart.
LEMMA MoveApart ==
  ASSUME Apart, NEW S, NEW q \in Places,
         \A x \in Places : x # q => At(x)' \subseteq At(x) \ S,
         At(q)' \subseteq At(q) \union S
  PROVE  Apart'
<1> SUFFICES ASSUME NEW x \in Places, NEW y \in Places, x # y
             PROVE  At(x)' \cap At(y)' = {}
  BY DEF Apart, Places, Workers
<1>1. At(x) \cap At(y) = {}
  BY DEF Apart
<1>2. CASE x = q
  BY <1>1, <1>2
<1>3. CASE y = q
  BY <1>1, <1>3
<1>4. CASE x # q /\ y # q
  BY <1>1, <1>4
<1> QED
  BY <1>2, <1>3, <1>4

\* A task that nothing holds is at no place.
LEMMA NotHeld ==
  ASSUME NEW t, t \notin Held
  PROVE  \A x \in Places : t \notin At(x)
<1> SUFFICES ASSUME NEW x \in Places PROVE t \notin At(x)
  OBVIOUS
<1>1. \A w \in Workers : /\ t \notin Range(tasks_[w])
                         /\ t \notin {cur[w]} \ {NoTask}
  BY DEF Held, Queued, Running
<1>2. /\ t \notin Range(global_tasks_) /\ t \notin delay_tasks_
      /\ t \notin Range(completed) /\ t \notin Range(batch)
  BY DEF Held, Queued
<1> QED
  BY <1>1, <1>2, PlaceCases, AtPlaces

-----------------------------------------------------------------------------
(* Initial states and the WaitGroup.                                        *)

LEMMA WorkersFinite ==
  /\ IsFiniteSet(0..worker_size_)
  /\ Cardinality(0..worker_size_) = worker_size_ + 1
  BY FS_Interval, ExecutorAssumption

LEMMA UncountedFinite ==
  /\ Uncounted \subseteq 0..worker_size_
  /\ IsFiniteSet(Uncounted)
  /\ Cardinality(Uncounted) \in 0..(worker_size_ + 1)
  /\ Cardinality(Uncounted) = 0 <=> Uncounted = {}
<1>1. Uncounted \subseteq 0..worker_size_
  BY ExecutorAssumption DEF Uncounted, Workers
<1>2. IsFiniteSet(Uncounted) /\ Cardinality(Uncounted) <= worker_size_ + 1
  BY <1>1, WorkersFinite, FS_Subset
<1>3. /\ Cardinality(Uncounted) \in Nat
      /\ Cardinality(Uncounted) = 0 <=> Uncounted = {}
  BY <1>2, FS_CardinalityType, FS_EmptySet
<1> QED
  BY <1>1, <1>2, <1>3, ExecutorAssumption

\* A thread that counts down was not counted before.
LEMMA CountDown ==
  ASSUME TypeOK, WaitGroupCounts, NEW e, e \in Uncounted,
         Uncounted' = Uncounted \ {e}, size_' = size_ - 1
  PROVE  WaitGroupCounts' /\ size_ # 0 /\ size_' \in 0..(worker_size_ + 1)
<1>1. Cardinality(Uncounted \ {e}) = Cardinality(Uncounted) - 1
  BY UncountedFinite, FS_RemoveElement
<1>2. size_ \in 1..(worker_size_ + 1)
  BY UncountedFinite DEF WaitGroupCounts
<1> QED
  BY <1>1, <1>2, ExecutorAssumption DEF WaitGroupCounts

LEMMA InitInv == Init => IInv
<1> SUFFICES ASSUME Init PROVE IInv
  OBVIOUS
<1> USE ExecutorAssumption DEF Init
<1>1. TypeOK
  <2>1. <<>> \in Seq(Tasks)
    OBVIOUS
  <2>2. /\ tasks_ \in [Workers -> Seq(Tasks)]
        /\ delay \in [Tasks -> Nat] /\ left \in [Tasks -> Nat]
        /\ victims \in [Workers -> SUBSET Workers]
        /\ cur \in [Workers -> Tasks \union {NoTask}]
        /\ missed \in [Workers -> SUBSET Tasks]
        /\ late \in [Workers -> Nat]
    BY <2>1
  <2>3. /\ size_ \in 0..(worker_size_ + 1) /\ joined \in 0..worker_size_
        /\ spawned \in 0..worker_size_ /\ registered \in 0..spawned
    OBVIOUS
  <2>4. pc \in [Workers -> {"none", "begin", "notify", "check", "own",
                           "global", "steal", "ask", "sleep", "run", "exit"}]
    OBVIOUS
  <2> QED
    BY <2>1, <2>2, <2>3, <2>4 DEF TypeOK
<1>2. NoDuplicates
  <2>1. \A x \in Places : At(x) = {}
    <3> TAKE x \in Places
    <3>1. \A w \in Workers : tasks_[w] = <<>> /\ cur[w] = NoTask
      OBVIOUS
    <3>2. /\ Range(global_tasks_) = {} /\ delay_tasks_ = {}
          /\ Range(completed) = {} /\ Range(batch) = {}
          /\ \A w \in Workers : /\ Range(tasks_[w]) = {}
                                /\ {cur[w]} \ {NoTask} = {}
      BY <3>1, EmptyRange
    <3>3. CASE x \in {<<"global", 0>>, <<"delayed", 0>>, <<"completed", 0>>,
                      <<"batch", 0>>}
      BY <3>2, <3>3, AtPlaces
    <3>4. ASSUME NEW w \in Workers, x = <<"queue", w>> \/ x = <<"run", w>>
          PROVE  At(x) = {}
      <4>1. At(<<"queue", w>>) = {} /\ At(<<"run", w>>) = {}
        BY <3>2, AtPlaces
      <4> QED
        BY <3>4, <4>1
    <3> QED
      BY <3>3, <3>4, PlaceCases
  <2>2. \A w \in Workers : IsInjective(tasks_[w])
    BY EmptyRange
  <2> QED
    BY <2>1, <2>2, EmptyRange DEF NoDuplicates
<1>3. Control
  <2>1. \A w \in Workers : /\ cur[w] = NoTask /\ pc[w] = "none"
                           /\ w >= spawned /\ ~(w < joined)
    BY DEF Workers
  <2> QED
    BY <2>1 DEF Control
<1>4. WaitGroupCounts
  <2>1. 0..worker_size_ = Workers \union {worker_size_}
    BY DEF Workers
  <2>2. Uncounted = 0..worker_size_
    BY <2>1 DEF Uncounted
  <2> QED
    BY <2>2, WorkersFinite DEF WaitGroupCounts
<1>5. Search /\ Ending
  BY DEF Search, SearchOf, Ending
<1> QED
  BY <1>1, <1>2, <1>3, <1>4, <1>5 DEF IInv

LEMMA DuplicatesApart == NoDuplicates => Apart
  BY DEF NoDuplicates, Apart

-----------------------------------------------------------------------------
(* The steps of a worker, sorted by what they do.                           *)

\* Worker w pops a task of worker v's queue, or of the global one.
TakesFrom(w, v) ==
    /\ pc[w] \in {"own", "steal"}
    /\ tasks_[v] # <<>>
    /\ Begins(w, Head(tasks_[v]))
    /\ tasks_' = [tasks_ EXCEPT ![v] = Tail(@)]
    /\ UNCHANGED <<ownerVars, size_, global_tasks_, timerVars, completed,
                   mainVars, broken>>

TakesGlobal(w) ==
    /\ pc[w] = "global"
    /\ global_tasks_ # <<>>
    /\ Begins(w, Head(global_tasks_))
    /\ global_tasks_' = Tail(global_tasks_)
    /\ UNCHANGED <<ownerVars, size_, tasks_, timerVars, completed, mainVars,
                   broken>>

\* Worker w goes on to another step, from p to p', and touches no task.
Moves(w, p, q) ==
    /\ pc[w] = p
    /\ pc' = [pc EXCEPT ![w] = q]
    /\ UNCHANGED <<ownerVars, queueVars, timerVars, completed, mainVars, cur,
                   late, broken>>

\* A worker's search goes on, or it waits.
Searches(w) ==
    \/ /\ Moves(w, "notify", "check")
       /\ UNCHANGED <<size_, victims, missed>>
    \/ /\ Moves(w, "check", IF stoped_ THEN "exit" ELSE "own")
       /\ missed' = [missed EXCEPT ![w] = Queued]
       /\ UNCHANGED <<size_, victims>>
    \/ /\ Moves(w, "own", "global") /\ tasks_[w] = <<>>
       /\ UNCHANGED <<size_, victims, missed>>
    \/ /\ Moves(w, "global", "steal") /\ global_tasks_ = <<>>
       /\ victims' = [victims EXCEPT ![w] = Workers \ {w}]
       /\ UNCHANGED <<size_, missed>>
    \/ /\ Moves(w, "steal", "ask") /\ victims[w] = {}
       /\ UNCHANGED <<size_, victims, missed>>
    \/ /\ Moves(w, "ask", "sleep")
       /\ UNCHANGED <<size_, victims, missed>>
    \/ /\ Moves(w, "sleep", "check")
       /\ UNCHANGED <<size_, victims, missed>>
    \/ /\ \E v \in victims[w] :
            /\ tasks_[v] = <<>>
            /\ victims' = [victims EXCEPT ![w] = @ \ {v}]
       /\ Moves(w, "steal", "steal")
       /\ UNCHANGED <<size_, missed>>

LEMMA WorkerCases ==
  ASSUME TypeOK, NEW w \in Workers, Worker(w)
  PROVE  \/ \E v \in Workers : TakesFrom(w, v)
         \/ TakesGlobal(w)
         \/ Searches(w)
         \/ WorkerBegins(w)
         \/ FinishTask(w)
         \/ UseDestroyed(w)
<1>1. CASE do_own_job(w)
  BY <1>1 DEF do_own_job, TakesFrom, Searches, Moves, queueVars
<1>2. CASE take_one(w)
  BY <1>2 DEF take_one, TakesGlobal, Searches, Moves, queueVars
<1>3. ASSUME NEW v \in Workers, steal_from(w, v)
      PROVE  TakesFrom(w, v) \/ Searches(w)
  <2>1. CASE tasks_[v] # <<>>
    BY <1>3, <2>1 DEF steal_from, TakesFrom
  <2>2. CASE tasks_[v] = <<>>
    <3>1. pc' = [pc EXCEPT ![w] = "steal"]
      BY <1>3, <2>2 DEF steal_from, TypeOK
    <3> QED
      BY <1>3, <2>2, <3>1 DEF steal_from, Searches, Moves, queueVars
  <2> QED
    BY <2>1, <2>2
<1>4. CASE WorkerNotifies(w) \/ WorkerChecks(w) \/ StealFails(w)
             \/ request_proactor_task(w) \/ worker_sleep(w)
  BY <1>4 DEF WorkerNotifies, WorkerChecks, StealFails,
     request_proactor_task, worker_sleep, Searches, Moves
<1> QED
  BY <1>1, <1>2, <1>3, <1>4 DEF Worker

\* What a pop of task t by worker w amounts to: t was queued, and is in no
\* queue any more.
Takes(w, t) ==
    /\ t \in Tasks /\ t \in Queued
    /\ pc[w] \in {"own", "global", "steal"}
    /\ Begins(w, t)
    /\ global_tasks_' \in Seq(Tasks) /\ IsInjective(global_tasks_')
    /\ Range(global_tasks_') = Range(global_tasks_) \ {t}
    /\ tasks_' \in [Workers -> Seq(Tasks)]
    /\ \A v \in Workers : /\ IsInjective(tasks_'[v])
                          /\ Range(tasks_'[v]) = Range(tasks_[v]) \ {t}
    /\ UNCHANGED <<ownerVars, size_, timerVars, completed, mainVars, broken>>

\* The queues are apart.
LEMMA QueuesApart ==
  ASSUME NoDuplicates
  PROVE  /\ \A v \in Workers : Range(tasks_[v]) \cap Range(global_tasks_) = {}
         /\ \A u, v \in Workers :
              u # v => Range(tasks_[u]) \cap Range(tasks_[v]) = {}
<1>1. Apart
  BY DuplicatesApart
<1>2. ASSUME NEW v \in Workers
      PROVE  Range(tasks_[v]) \cap Range(global_tasks_) = {}
  <2>1. <<"queue", v>> # <<"global", 0>>
    OBVIOUS
  <2> QED
    BY <1>1, <2>1, ArePlaces, AtPlaces DEF Apart
<1>3. ASSUME NEW u \in Workers, NEW v \in Workers, u # v
      PROVE  Range(tasks_[u]) \cap Range(tasks_[v]) = {}
  <2>1. <<"queue", u>> # <<"queue", v>>
    BY <1>3
  <2> QED
    BY <1>1, <2>1, ArePlaces, AtPlaces DEF Apart
<1> QED
  BY <1>2, <1>3

LEMMA TakesFromTakes ==
  ASSUME TypeOK, NoDuplicates, NEW w \in Workers, NEW v \in Workers,
         TakesFrom(w, v)
  PROVE  Takes(w, Head(tasks_[v]))
<1> DEFINE t == Head(tasks_[v])
<1>1. tasks_[v] \in Seq(Tasks) /\ tasks_[v] # <<>> /\ IsInjective(tasks_[v])
  BY DEF TypeOK, TakesFrom, NoDuplicates
<1>2. /\ t \in Tasks /\ Tail(tasks_[v]) \in Seq(Tasks)
      /\ Range(tasks_[v]) = {t} \union Range(Tail(tasks_[v]))
      /\ IsInjective(Tail(tasks_[v])) /\ t \notin Range(Tail(tasks_[v]))
  BY <1>1, HeadTailRange
<1>3. t \in Queued
  BY <1>2 DEF Queued
<1>4. tasks_' \in [Workers -> Seq(Tasks)]
  BY <1>2 DEF TakesFrom, TypeOK
<1>5. ASSUME NEW u \in Workers
      PROVE  /\ IsInjective(tasks_'[u])
             /\ Range(tasks_'[u]) = Range(tasks_[u]) \ {t}
  <2>1. CASE u = v
    <3>1. tasks_'[u] = Tail(tasks_[v])
      BY <2>1 DEF TakesFrom, TypeOK
    <3> QED
      BY <2>1, <3>1, <1>2
  <2>2. CASE u # v
    <3>1. tasks_'[u] = tasks_[u]
      BY <2>2 DEF TakesFrom, TypeOK
    <3>2. t \notin Range(tasks_[u])
      BY <1>2, <2>2, QueuesApart
    <3> QED
      BY <3>1, <3>2 DEF NoDuplicates
  <2> QED
    BY <2>1, <2>2
<1>6. /\ global_tasks_' = global_tasks_ /\ t \notin Range(global_tasks_)
      /\ global_tasks_ \in Seq(Tasks) /\ IsInjective(global_tasks_)
  BY <1>2, QueuesApart DEF TakesFrom, TypeOK, NoDuplicates
<1>7. /\ pc[w] \in {"own", "global", "steal"} /\ Begins(w, t)
      /\ UNCHANGED <<ownerVars, size_, timerVars, completed, mainVars, broken>>
  BY DEF TakesFrom
<1> QED
  BY <1>2, <1>3, <1>4, <1>5, <1>6, <1>7 DEF Takes

LEMMA TakesGlobalTakes ==
  ASSUME TypeOK, NoDuplicates, NEW w \in Workers, TakesGlobal(w)
  PROVE  Takes(w, Head(global_tasks_))
<1> DEFINE t == Head(global_tasks_)
<1>1. /\ t \in Tasks /\ Tail(global_tasks_) \in Seq(Tasks)
      /\ Range(global_tasks_) = {t} \union Range(Tail(global_tasks_))
      /\ IsInjective(Tail(global_tasks_))
      /\ t \notin Range(Tail(global_tasks_))
  BY HeadTailRange DEF TypeOK, TakesGlobal, NoDuplicates
<1>2. t \in Queued
  BY <1>1 DEF Queued
<1>3. /\ tasks_' = tasks_ /\ tasks_ \in [Workers -> Seq(Tasks)]
      /\ global_tasks_' = Tail(global_tasks_)
  BY DEF TakesGlobal, TypeOK
<1>4. ASSUME NEW u \in Workers
      PROVE  IsInjective(tasks_[u]) /\ t \notin Range(tasks_[u])
  BY <1>1, QueuesApart DEF NoDuplicates
<1>5. /\ pc[w] \in {"own", "global", "steal"} /\ Begins(w, t)
      /\ UNCHANGED <<ownerVars, size_, timerVars, completed, mainVars, broken>>
  BY DEF TakesGlobal
<1> QED
  BY <1>1, <1>2, <1>3, <1>4, <1>5 DEF Takes

LEMMA TakesCases ==
  ASSUME TypeOK, NoDuplicates, NEW w \in Workers,
         TakesGlobal(w) \/ \E v \in Workers : TakesFrom(w, v)
  PROVE  \E t \in Tasks : Takes(w, t)
<1>1. ASSUME NEW t, Takes(w, t) PROVE t \in Tasks
  BY <1>1 DEF Takes
<1> QED
  BY <1>1, TakesFromTakes, TakesGlobalTakes

\* What a push of task t to a queue amounts to, q being the queue's place.
Enters(t, q) ==
    /\ t \in Tasks /\ t \notin Queued
    /\ q \in Places /\ At(q)' = At(q) \union {t}
    /\ global_tasks_' \in Seq(Tasks) /\ IsInjective(global_tasks_')
    /\ tasks_' \in [Workers -> Seq(Tasks)]
    /\ \A w \in Workers : IsInjective(tasks_'[w])
    /\ q # <<"global", 0>> => Range(global_tasks_') = Range(global_tasks_)
    /\ \A w \in Workers :
         q # <<"queue", w>> => Range(tasks_'[w]) = Range(tasks_[w])
    /\ \/ q = <<"global", 0>>
       \/ \E w \in Workers : q = <<"queue", w>>

LEMMA AppendGlobal ==
  ASSUME TypeOK, NoDuplicates, NEW t \in Tasks, t \notin Queued,
         global_tasks_' = Append(global_tasks_, t), tasks_' = tasks_
  PROVE  Enters(t, <<"global", 0>>)
<1>1. t \notin Range(global_tasks_)
  BY DEF Queued
<1>2. /\ global_tasks_' \in Seq(Tasks) /\ IsInjective(global_tasks_')
      /\ Range(global_tasks_') = Range(global_tasks_) \union {t}
  BY <1>1, AppendRange DEF TypeOK, NoDuplicates
<1>3. At(<<"global", 0>>)' = At(<<"global", 0>>) \union {t}
  BY <1>2, AtPlaces, AtPlacesNext
<1>4. tasks_' \in [Workers -> Seq(Tasks)]
  BY DEF TypeOK
<1>5. \A w \in Workers : IsInjective(tasks_'[w])
  BY DEF NoDuplicates
<1> QED
  BY <1>2, <1>3, <1>4, <1>5, ArePlaces DEF Enters

LEMMA AppendQueue ==
  ASSUME TypeOK, NoDuplicates, NEW t \in Tasks, t \notin Queued,
         NEW v \in Workers, tasks_' = [tasks_ EXCEPT ![v] = Append(@, t)],
         global_tasks_' = global_tasks_
  PROVE  Enters(t, <<"queue", v>>)
<1>1. /\ tasks_[v] \in Seq(Tasks) /\ IsInjective(tasks_[v])
      /\ t \notin Range(tasks_[v])
  BY DEF TypeOK, NoDuplicates, Queued
<1>2. /\ Append(tasks_[v], t) \in Seq(Tasks)
      /\ IsInjective(Append(tasks_[v], t))
      /\ Range(Append(tasks_[v], t)) = Range(tasks_[v]) \union {t}
  BY <1>1, AppendRange
<1>3. /\ tasks_' \in [Workers -> Seq(Tasks)]
      /\ tasks_'[v] = Append(tasks_[v], t)
      /\ \A w \in Workers : w # v => tasks_'[w] = tasks_[w]
  BY <1>2 DEF TypeOK
<1>4. At(<<"queue", v>>)' = At(<<"queue", v>>) \union {t}
  <2>1. /\ At(<<"queue", v>>)' = Range(tasks_'[v])
        /\ At(<<"queue", v>>) = Range(tasks_[v])
    BY AtPlaces, AtPlacesNext
  <2> QED
    BY <2>1, <1>2, <1>3
<1>5. \A w \in Workers : IsInjective(tasks_'[w])
  BY <1>2, <1>3 DEF NoDuplicates
<1>6. \A w \in Workers :
        <<"queue", v>> # <<"queue", w>> => Range(tasks_'[w]) = Range(tasks_[w])
  BY <1>3
<1>7. <<"queue", v>> # <<"global", 0>>
  OBVIOUS
<1>8. global_tasks_' \in Seq(Tasks) /\ IsInjective(global_tasks_')
  BY DEF TypeOK, NoDuplicates
<1> QED
  BY <1>3, <1>4, <1>5, <1>6, <1>7, <1>8, ArePlaces DEF Enters

\* The first task of the batch is queued nowhere.
LEMMA BatchHead ==
  ASSUME TypeOK, NoDuplicates, batch # <<>>
  PROVE  /\ Head(batch) \in Tasks /\ Tail(batch) \in Seq(Tasks)
         /\ IsInjective(Tail(batch))
         /\ Range(Tail(batch)) = Range(batch) \ {Head(batch)}
         /\ Head(batch) \in Range(batch) /\ Head(batch) \notin Queued
<1>1. /\ Head(batch) \in Tasks /\ Tail(batch) \in Seq(Tasks)
      /\ Range(batch) = {Head(batch)} \union Range(Tail(batch))
      /\ IsInjective(Tail(batch)) /\ Head(batch) \notin Range(Tail(batch))
  BY HeadTailRange DEF TypeOK, NoDuplicates
<1>2. Range(batch) \cap Range(global_tasks_) = {}
  <2>1. <<"batch", 0>> # <<"global", 0>>
    OBVIOUS
  <2> QED
    BY <2>1, DuplicatesApart, ArePlaces, AtPlaces DEF Apart
<1>3. \A w \in Workers : Range(batch) \cap Range(tasks_[w]) = {}
  <2> TAKE w \in Workers
  <2>1. <<"batch", 0>> # <<"queue", w>>
    OBVIOUS
  <2> QED
    BY <2>1, DuplicatesApart, ArePlaces, AtPlaces DEF Apart
<1> QED
  BY <1>1, <1>2, <1>3 DEF Queued

-----------------------------------------------------------------------------
(* What pushes, pops and other steps preserve.                              *)

\* A push keeps the places apart and disturbs no search: the task was queued
\* nowhere, so that no search was to find it.
LEMMA EntersKeeps ==
  ASSUME TypeOK, NoDuplicates, Search, NEW t, NEW q, Enters(t, q),
         UNCHANGED <<delay_tasks_, completed, cur, pc, missed, victims>>,
         IsInjective(batch'), Range(batch') \subseteq Range(batch) \ {t},
         t \notin delay_tasks_, t \notin Range(completed), t \notin Running
  PROVE  NoDuplicates' /\ Search'
<1>1. /\ t \in Tasks /\ t \notin Queued /\ q \in Places
      /\ At(q)' = At(q) \union {t}
      /\ IsInjective(global_tasks_')
      /\ \A w \in Workers : IsInjective(tasks_'[w])
  BY DEF Enters
<1>2. /\ Range(global_tasks_') = Range(global_tasks_) \/ q = <<"global", 0>>
      /\ \A w \in Workers : \/ Range(tasks_'[w]) = Range(tasks_[w])
                            \/ q = <<"queue", w>>
  BY DEF Enters
<1>3. ASSUME NEW x \in Places, x # q
      PROVE  At(x)' \subseteq At(x) \ {t}
  <2>1. CASE x \in {<<"global", 0>>, <<"delayed", 0>>, <<"completed", 0>>,
                    <<"batch", 0>>}
    <3>1. t \notin Range(global_tasks_)
      BY <1>1 DEF Queued
    <3> QED
      BY <2>1, <3>1, <1>2, <1>3, AtPlaces, AtPlacesNext
  <2>2. ASSUME NEW w \in Workers, x = <<"queue", w>>
        PROVE  At(x)' \subseteq At(x) \ {t}
    <3>1. t \notin Range(tasks_[w])
      BY <1>1 DEF Queued
    <3>2. /\ At(<<"queue", w>>)' = Range(tasks_'[w])
          /\ At(<<"queue", w>>) = Range(tasks_[w])
      BY AtPlaces, AtPlacesNext
    <3> QED
      BY <2>2, <3>1, <3>2, <1>2, <1>3
  <2>3. ASSUME NEW w \in Workers, x = <<"run", w>>
        PROVE  At(x)' \subseteq At(x) \ {t}
    <3>1. t \notin {cur[w]} \ {NoTask}
      BY DEF Running
    <3>2. /\ At(<<"run", w>>)' = {cur'[w]} \ {NoTask}
          /\ At(<<"run", w>>) = {cur[w]} \ {NoTask}
      BY AtPlaces, AtPlacesNext
    <3>3. cur' = cur
      OBVIOUS
    <3> QED
      BY <2>3, <3>1, <3>2, <3>3
  <2> QED
    BY <2>1, <2>2, <2>3, PlaceCases
<1>4. Apart'
  BY <1>1, <1>3, DuplicatesApart, MoveApart
<1>5. NoDuplicates'
  BY <1>1, <1>4 DEF NoDuplicates, Apart
<1>6. /\ Range(global_tasks_) \subseteq Range(global_tasks_')
      /\ \A w \in Workers :
           /\ Range(tasks_[w]) \subseteq Range(tasks_'[w])
           /\ Range(tasks_'[w]) \subseteq Range(tasks_[w]) \union {t}
  <2>1. Range(global_tasks_) \subseteq Range(global_tasks_')
    BY <1>1, <1>2, AtPlaces, AtPlacesNext
  <2>2. ASSUME NEW w \in Workers
        PROVE  /\ Range(tasks_[w]) \subseteq Range(tasks_'[w])
               /\ Range(tasks_'[w]) \subseteq Range(tasks_[w]) \union {t}
    <3>1. /\ At(<<"queue", w>>)' = Range(tasks_'[w])
          /\ At(<<"queue", w>>) = Range(tasks_[w])
      BY AtPlaces, AtPlacesNext
    <3> QED
      BY <3>1, <1>1, <1>2
  <2> QED
    BY <2>1, <2>2
<1>7. Search'
  <2> SUFFICES ASSUME NEW w \in Workers
               PROVE  SearchOf(w)'
    BY DEF Search, Workers
  <2>1. missed[w] \subseteq Queued /\ t \notin missed[w]
    BY <1>1 DEF Search, SearchOf
  <2>2. Queued \subseteq Queued'
    BY <1>6 DEF Queued
  <2>3. victims[w] \subseteq Workers
    BY DEF TypeOK
  <2>4. UNION {Range(tasks_[v]) : v \in victims[w]}
          \subseteq UNION {Range(tasks_'[v]) : v \in victims[w]}
    BY <1>6, <2>3
  <2> QED
    BY <2>1, <2>2, <2>4, <1>6 DEF Search, SearchOf
<1> QED
  BY <1>5, <1>7

\* A task that is queued is nowhere else.
LEMMA QueuedOnly ==
  ASSUME NoDuplicates, NEW t \in Queued
  PROVE  /\ t \notin delay_tasks_ /\ t \notin Range(completed)
         /\ t \notin Range(batch) /\ t \notin Running
<1>1. Apart
  BY DuplicatesApart
<1>2. PICK q \in Places :
        /\ t \in At(q)
        /\ q = <<"global", 0>> \/ \E v \in Workers : q = <<"queue", v>>
  <2>1. CASE t \in Range(global_tasks_)
    BY <2>1, ArePlaces, AtPlaces
  <2>2. ASSUME NEW v \in Workers, t \in Range(tasks_[v])
        PROVE  t \in At(<<"queue", v>>) /\ <<"queue", v>> \in Places
    BY <2>2, ArePlaces, AtPlaces
  <2> QED
    BY <2>1, <2>2 DEF Queued
<1>3. /\ q # <<"delayed", 0>> /\ q # <<"completed", 0>> /\ q # <<"batch", 0>>
      /\ \A v \in Workers : q # <<"run", v>>
  BY <1>2
<1>4. /\ t \notin At(<<"delayed", 0>>) /\ t \notin At(<<"completed", 0>>)
      /\ t \notin At(<<"batch", 0>>)
      /\ \A v \in Workers : t \notin At(<<"run", v>>)
  BY <1>1, <1>2, <1>3, ArePlaces DEF Apart
<1>5. \A v \in Workers : t \notin {cur[v]} \ {NoTask}
  BY <1>4, AtPlaces
<1> QED
  BY <1>4, <1>5, AtPlaces DEF Running

\* A pop hands the task over to the worker, and fulfils every search for it.
LEMMA TakesKeeps ==
  ASSUME IInv, NEW w \in Workers, NEW t, Takes(w, t)
  PROVE  IInv' /\ Queued' = Queued \ {t}
<1> USE DEF IInv
<1>1. /\ t \in Tasks /\ t \in Queued /\ pc[w] \in {"own", "global", "steal"}
      /\ Begins(w, t)
      /\ UNCHANGED <<owner, spawned, registered, joined, stoped_, calm, size_,
                     delay_tasks_, delay, left, completed, main, batch,
                     broken>>
      /\ \A v \in Workers : Range(tasks_'[v]) = Range(tasks_[v]) \ {t}
      /\ Range(global_tasks_') = Range(global_tasks_) \ {t}
  BY DEF Takes, ownerVars, timerVars, mainVars
<1>2. /\ pc' = [pc EXCEPT ![w] = "run"] /\ cur' = [cur EXCEPT ![w] = t]
      /\ missed' = [v \in Workers |-> missed[v] \ {t}]
      /\ late' = [late EXCEPT ![w] = IF stoped_ THEN late[w] + 1 ELSE late[w]]
      /\ victims' = [victims EXCEPT ![w] = {}]
  BY <1>1 DEF Begins
<1>3. TypeOK'
  <2>1. /\ global_tasks_' \in Seq(Tasks) /\ tasks_' \in [Workers -> Seq(Tasks)]
    BY DEF Takes
  <2>2. /\ cur' \in [Workers -> Tasks \union {NoTask}]
        /\ victims' \in [Workers -> SUBSET Workers]
    BY <1>1, <1>2 DEF TypeOK
  <2>3. missed' \in [Workers -> SUBSET Tasks]
    BY <1>2 DEF TypeOK
  <2>4. late' \in [Workers -> Nat]
    BY <1>2 DEF TypeOK
  <2>5. pc' \in [Workers -> {"none", "begin", "notify", "check", "own",
                           "global", "steal", "ask", "sleep", "run", "exit"}]
    BY <1>2 DEF TypeOK
  <2> QED
    BY <1>1, <2>1, <2>2, <2>3, <2>4, <2>5 DEF TypeOK
<1>4. Queued' = Queued \ {t}
  BY <1>1 DEF Queued, Workers
<1>5. NoDuplicates'
  <2>1. t \notin delay_tasks_ /\ t \notin Range(completed)
         /\ t \notin Range(batch) /\ t \notin Running
    BY <1>1, QueuedOnly
  <2>2. ASSUME NEW x \in Places, x # <<"run", w>>
        PROVE  At(x)' \subseteq At(x) \ {t}
    <3>1. CASE x \in {<<"global", 0>>, <<"delayed", 0>>, <<"completed", 0>>,
                      <<"batch", 0>>}
      BY <3>1, <2>1, <1>1, AtPlaces, AtPlacesNext
    <3>2. ASSUME NEW v \in Workers, x = <<"queue", v>>
          PROVE  At(x)' \subseteq At(x) \ {t}
      <4>1. /\ At(<<"queue", v>>)' = Range(tasks_'[v])
            /\ At(<<"queue", v>>) = Range(tasks_[v])
        BY AtPlaces, AtPlacesNext
      <4> QED
        BY <3>2, <4>1, <1>1
    <3>3. ASSUME NEW v \in Workers, x = <<"run", v>>
          PROVE  At(x)' \subseteq At(x) \ {t}
      <4>1. v # w
        BY <2>2, <3>3
      <4>2. cur'[v] = cur[v] /\ t \notin {cur[v]} \ {NoTask}
        BY <4>1, <1>2, <2>1 DEF TypeOK, Running
      <4>3. /\ At(<<"run", v>>)' = {cur'[v]} \ {NoTask}
            /\ At(<<"run", v>>) = {cur[v]} \ {NoTask}
        BY AtPlaces, AtPlacesNext
      <4> QED
        BY <3>3, <4>2, <4>3
    <3> QED
      BY <3>1, <3>2, <3>3, PlaceCases
  <2>3. At(<<"run", w>>)' \subseteq At(<<"run", w>>) \union {t}
    <3>1. cur'[w] = t
      BY <1>2 DEF TypeOK
    <3>2. At(<<"run", w>>)' = {cur'[w]} \ {NoTask}
      BY AtPlacesNext
    <3> QED
      BY <3>1, <3>2
  <2>4. Apart'
    BY <2>2, <2>3, DuplicatesApart, ArePlaces, MoveApart
  <2> QED
    BY <2>4, <1>1 DEF Takes, NoDuplicates, Apart
<1>6. Control'
  <2>1. t # NoTask
    BY <1>1, ExecutorAssumption
  <2> QED
    BY <2>1, <1>1, <1>2 DEF Control, TypeOK
<1>7. WaitGroupCounts'
  <2>1. Uncounted' = Uncounted
    BY <1>1, <1>2 DEF Uncounted, TypeOK
  <2> QED
    BY <2>1, <1>1 DEF WaitGroupCounts
<1>8. Search'
  <2> SUFFICES ASSUME NEW v \in Workers
               PROVE  SearchOf(v)'
    BY DEF Search, Workers
  <2>1. missed'[v] = missed[v] \ {t}
    BY <1>2
  <2>2. missed[v] \subseteq Queued
    BY DEF Search, SearchOf
  <2>3. CASE v = w
    BY <2>1, <2>2, <2>3, <1>2, <1>4 DEF TypeOK, SearchOf
  <2>4. CASE v # w
    <3>1. /\ pc'[v] = pc[v] /\ victims'[v] = victims[v]
          /\ victims[v] \subseteq Workers
      BY <2>4, <1>2 DEF TypeOK
    <3>2. UNION {Range(tasks_'[u]) : u \in victims[v]}
            = (UNION {Range(tasks_[u]) : u \in victims[v]}) \ {t}
      BY <3>1, <1>1
    <3>3. missed'[v] \subseteq Queued'
      BY <2>1, <2>2, <1>4
    <3>4. pc[v] = "global" => missed'[v] \cap Range(tasks_'[v]) = {}
      BY <2>1, <1>1 DEF Search, SearchOf
    <3>5. pc[v] = "steal" =>
            missed'[v] \subseteq UNION {Range(tasks_'[u]) : u \in victims[v]}
      BY <2>1, <3>2 DEF Search, SearchOf
    <3>6. pc[v] \in {"ask", "sleep"} => missed'[v] = {}
      BY <2>1 DEF Search, SearchOf
    <3> QED
      BY <3>1, <3>3, <3>4, <3>5, <3>6 DEF SearchOf
  <2> QED
    BY <2>3, <2>4
<1>9. Ending'
  <2>1. late[w] = 0
    BY <1>1 DEF Ending
  <2>2. late'[w] = IF stoped_ THEN 1 ELSE 0
    BY <2>1, <1>2 DEF TypeOK
  <2>3. ~calm
    BY <1>1 DEF Ending
  <2> QED
    BY <2>2, <2>3, <1>1, <1>2 DEF Ending, TypeOK
<1> QED
  BY <1>3, <1>4, <1>5, <1>6, <1>7, <1>8, <1>9

\* Steps that touch no container and no running task.
LEMMA StillKeeps ==
  ASSUME NoDuplicates, UNCHANGED <<queueVars, delay_tasks_, completed, batch>>,
         \A w \in Workers : cur'[w] = cur[w] \/ cur'[w] = NoTask
  PROVE  NoDuplicates' /\ Queued' = Queued
<1>1. Queued' = Queued
  BY DEF Queued, queueVars
<1>2. \A x \in Places : At(x)' \subseteq At(x)
  <2> TAKE x \in Places
  <2>1. CASE x \in {<<"global", 0>>, <<"delayed", 0>>, <<"completed", 0>>,
                    <<"batch", 0>>}
    BY <2>1, AtPlaces, AtPlacesNext DEF queueVars
  <2>2. ASSUME NEW w \in Workers, x = <<"queue", w>> \/ x = <<"run", w>>
        PROVE  At(x)' \subseteq At(x)
    <3>1. /\ At(<<"queue", w>>)' = Range(tasks_'[w])
          /\ At(<<"queue", w>>) = Range(tasks_[w])
          /\ At(<<"run", w>>)' = {cur'[w]} \ {NoTask}
          /\ At(<<"run", w>>) = {cur[w]} \ {NoTask}
      BY AtPlaces, AtPlacesNext
    <3>2. At(<<"queue", w>>)' = At(<<"queue", w>>)
      BY <3>1 DEF queueVars
    <3>3. At(<<"run", w>>)' \subseteq At(<<"run", w>>)
      BY <3>1
    <3> QED
      BY <2>2, <3>2, <3>3
  <2> QED
    BY <2>1, <2>2, PlaceCases
<1>3. Apart'
  <2>1. <<"batch", 0>> \in Places
    BY ArePlaces
  <2>2. /\ \A x \in Places : x # <<"batch", 0>> => At(x)' \subseteq At(x) \ {}
        /\ At(<<"batch", 0>>)' \subseteq At(<<"batch", 0>>) \union {}
    BY <1>2, <2>1
  <2> QED
    BY <2>1, <2>2, DuplicatesApart, MoveApart
<1> QED
  BY <1>1, <1>3 DEF NoDuplicates, Apart, queueVars

\* A worker that goes on with its search.
LEMMA SearchesKeeps ==
  ASSUME IInv, NEW w \in Workers, Searches(w)
  PROVE  IInv'
<1> USE DEF IInv
<1> DEFINE Route(p, q) ==
             /\ Moves(w, p, q)
             /\ p \notin {"none", "begin", "run", "exit"}
             /\ q \in {"check", "own", "global", "steal", "ask", "sleep",
                       "exit"}
             /\ calm => q \in {"sleep", "check", "exit"}
             /\ late[w] # 0 => q = "exit"
<1>1. PICK p, q : Route(p, q)
  <2>1. /\ calm => stoped_ /\ pc[w] \in {"sleep", "check", "exit"}
        /\ late[w] # 0 => stoped_ /\ pc[w] \in {"run", "check", "exit"}
    BY DEF Ending
  <2>2. CASE Moves(w, "check", IF stoped_ THEN "exit" ELSE "own")
    <3>1. Route("check", IF stoped_ THEN "exit" ELSE "own")
      BY <2>1, <2>2
    <3> QED
      BY <3>1
  <2>3. ASSUME NEW p, NEW q, Moves(w, p, q),
               p \in {"notify", "own", "global", "steal", "ask", "sleep"},
               q \in {"check", "global", "steal", "ask", "sleep"},
               p = "sleep" => q = "check"
        PROVE  Route(p, q)
    <3>1. pc[w] = p
      BY <2>3 DEF Moves
    <3> QED
      BY <2>1, <2>3, <3>1
  <2>4. \/ Moves(w, "notify", "check") \/ Moves(w, "own", "global")
        \/ Moves(w, "global", "steal") \/ Moves(w, "steal", "ask")
        \/ Moves(w, "ask", "sleep") \/ Moves(w, "sleep", "check")
        \/ Moves(w, "steal", "steal")
        \/ Moves(w, "check", IF stoped_ THEN "exit" ELSE "own")
    BY DEF Searches
  <2> HIDE DEF Route
  <2> QED
    BY <2>2, <2>3, <2>4
<1>2. /\ pc[w] = p /\ pc' = [pc EXCEPT ![w] = q]
      /\ UNCHANGED <<owner, spawned, registered, joined, stoped_, calm,
                     global_tasks_, tasks_, delay_tasks_, delay, left,
                     completed, main, batch, cur, late, broken>>
  BY <1>1 DEF Moves, ownerVars, queueVars, timerVars, mainVars
<1>3. /\ size_' = size_ /\ victims' \in [Workers -> SUBSET Workers]
      /\ missed' \in [Workers -> SUBSET Tasks]
  <2>1. Queued \subseteq Tasks
    BY RangeType DEF Queued, TypeOK
  <2>2. /\ size_' = size_
        /\ missed' = missed \/ missed' = [missed EXCEPT ![w] = Queued]
    BY DEF Searches
  <2>3. \/ victims' = victims
        \/ victims' = [victims EXCEPT ![w] = Workers \ {w}]
        \/ \E v \in victims[w] :
             victims' = [victims EXCEPT ![w] = victims[w] \ {v}]
    BY DEF Searches
  <2>4. missed' \in [Workers -> SUBSET Tasks]
    BY <2>1, <2>2 DEF TypeOK
  <2>5. victims \in [Workers -> SUBSET Workers]
    BY DEF TypeOK
  <2>6. ASSUME NEW V \in SUBSET Workers, victims' = [victims EXCEPT ![w] = V]
        PROVE  victims' \in [Workers -> SUBSET Workers]
    BY <2>5, <2>6
  <2>7. victims[w] \in SUBSET Workers
    BY <2>5
  <2>8. victims' \in [Workers -> SUBSET Workers]
    BY <2>3, <2>5, <2>6, <2>7
  <2> QED
    BY <2>2, <2>4, <2>8
<1>4. TypeOK'
  <2>1. pc' \in [Workers -> {"none", "begin", "notify", "check", "own",
                           "global", "steal", "ask", "sleep", "run", "exit"}]
    BY <1>1, <1>2 DEF TypeOK
  <2> QED
    BY <1>2, <1>3, <2>1 DEF TypeOK
<1>5. NoDuplicates' /\ Queued' = Queued
  BY <1>2, StillKeeps DEF queueVars
<1>6. Control'
  BY <1>1, <1>2, <1>3 DEF Control, TypeOK
<1>7. WaitGroupCounts'
  <2>1. Uncounted' = Uncounted
    BY <1>1, <1>2 DEF Uncounted, TypeOK
  <2> QED
    BY <2>1, <1>3 DEF WaitGroupCounts
<1>8. Search'
  <2> SUFFICES ASSUME NEW v \in Workers PROVE SearchOf(v)'
    BY DEF Search, Workers
  <2>1. SearchOf(v)
    BY DEF Search
  <2>2. CASE v # w
    <3>1. pc'[v] = pc[v] /\ victims'[v] = victims[v] /\ missed'[v] = missed[v]
      BY <2>2, <1>2 DEF Searches, TypeOK
    <3> QED
      BY <2>1, <3>1, <1>2, <1>5 DEF SearchOf
  <2>3. CASE v = w
    <3> USE <2>1, <2>3, <1>2, <1>5
    <3>1. CASE Moves(w, "notify", "check") /\ UNCHANGED <<victims, missed>>
      BY <3>1 DEF SearchOf, Moves, TypeOK
    <3>2. CASE /\ Moves(w, "check", IF stoped_ THEN "exit" ELSE "own")
               /\ missed' = [missed EXCEPT ![w] = Queued]
      BY <3>2 DEF SearchOf, Moves, TypeOK
    <3>3. CASE /\ Moves(w, "own", "global") /\ tasks_[w] = <<>>
               /\ UNCHANGED <<victims, missed>>
      BY <3>3, EmptyRange DEF SearchOf, Moves, TypeOK
    <3>4. CASE /\ Moves(w, "global", "steal") /\ global_tasks_ = <<>>
               /\ victims' = [victims EXCEPT ![w] = Workers \ {w}]
               /\ UNCHANGED missed
      <4>1. Queued \subseteq UNION {Range(tasks_[u]) : u \in Workers}
        BY <3>4, EmptyRange DEF Queued
      <4>2. missed[w] \subseteq UNION {Range(tasks_[u]) : u \in Workers \ {w}}
        BY <3>4, <4>1 DEF SearchOf, Moves
      <4>3. victims'[w] = Workers \ {w} /\ pc'[w] = "steal"
        BY <3>4 DEF Moves, TypeOK
      <4> QED
        BY <3>4, <4>2, <4>3 DEF SearchOf
    <3>5. CASE /\ Moves(w, "steal", "ask") /\ victims[w] = {}
               /\ UNCHANGED <<victims, missed>>
      BY <3>5 DEF SearchOf, Moves, TypeOK
    <3>6. CASE (Moves(w, "ask", "sleep") \/ Moves(w, "sleep", "check"))
               /\ UNCHANGED <<victims, missed>>
      BY <3>6 DEF SearchOf, Moves, TypeOK
    <3>7. CASE /\ \E u \in victims[w] :
                    /\ tasks_[u] = <<>>
                    /\ victims' = [victims EXCEPT ![w] = @ \ {u}]
               /\ Moves(w, "steal", "steal")
               /\ UNCHANGED missed
      <4>1. PICK u \in victims[w] :
                    /\ tasks_[u] = <<>>
                    /\ victims' = [victims EXCEPT ![w] = victims[w] \ {u}]
        BY <3>7
      <4>2. UNION {Range(tasks_[x]) : x \in victims[w]}
              \subseteq UNION {Range(tasks_[x]) : x \in victims[w] \ {u}}
        BY <4>1, EmptyRange
      <4>3. victims'[w] = victims[w] \ {u} /\ pc'[w] = "steal"
        BY <3>7, <4>1 DEF Moves, TypeOK
      <4> QED
        BY <3>7, <4>2, <4>3 DEF SearchOf, Moves
    <3> QED
      BY <3>1, <3>2, <3>3, <3>4, <3>5, <3>6, <3>7 DEF Searches
  <2> QED
    BY <2>2, <2>3
<1>9. Ending'
  BY <1>1, <1>2 DEF Ending, TypeOK
<1> QED
  BY <1>4, <1>5, <1>6, <1>7, <1>8, <1>9

LEMMA FinishKeeps ==
  ASSUME IInv, NEW w \in Workers, FinishTask(w)
  PROVE  IInv' /\ Queued' = Queued
<1> USE DEF IInv
<1>1. /\ pc[w] = "run" /\ pc' = [pc EXCEPT ![w] = "check"]
      /\ cur' = [cur EXCEPT ![w] = NoTask]
      /\ UNCHANGED <<owner, spawned, registered, joined, size_, stoped_, calm,
                     global_tasks_, tasks_, delay_tasks_, delay, left,
                     completed, main, batch, victims, missed, late, broken>>
  BY DEF FinishTask, ownerVars, queueVars, timerVars, mainVars
<1>2. TypeOK'
  <2>1. pc' \in [Workers -> {"none", "begin", "notify", "check", "own",
                           "global", "steal", "ask", "sleep", "run", "exit"}]
    BY <1>1 DEF TypeOK
  <2>2. cur' \in [Workers -> Tasks \union {NoTask}]
    BY <1>1 DEF TypeOK
  <2> QED
    BY <1>1, <2>1, <2>2 DEF TypeOK
<1>3. NoDuplicates' /\ Queued' = Queued
  <2>1. \A v \in Workers : cur'[v] = cur[v] \/ cur'[v] = NoTask
    BY <1>1 DEF TypeOK
  <2> QED
    BY <1>1, <2>1, StillKeeps DEF queueVars
<1>4. Control'
  BY <1>1 DEF Control, TypeOK
<1>5. WaitGroupCounts'
  <2>1. Uncounted' = Uncounted
    BY <1>1 DEF Uncounted, TypeOK
  <2> QED
    BY <2>1, <1>1 DEF WaitGroupCounts
<1>6. Search'
  BY <1>1, <1>3 DEF Search, SearchOf, TypeOK
<1>7. Ending'
  BY <1>1 DEF Ending, TypeOK
<1> QED
  BY <1>2, <1>3, <1>4, <1>5, <1>6, <1>7

LEMMA UseDestroyedKeeps ==
  ASSUME IInv, NEW w \in Workers, UseDestroyed(w)
  PROVE  IInv' /\ Queued' = Queued
<1> USE DEF IInv
<1>1. /\ owner = "destroying"
      /\ pc[w] \in {"notify", "global", "ask", "run", "steal"}
      /\ broken' = TRUE
      /\ UNCHANGED <<owner, spawned, registered, joined, size_, stoped_, calm,
                     global_tasks_, tasks_, delay_tasks_, delay, left,
                     completed, main, batch, pc, cur, victims, missed, late>>
  BY DEF UseDestroyed, ownerVars, queueVars, timerVars, mainVars, workerVars
<1>2. TypeOK'
  BY <1>1 DEF TypeOK
<1>3. NoDuplicates' /\ Queued' = Queued
  BY <1>1, StillKeeps DEF queueVars
<1>4. Control' /\ Ending'
  BY <1>1 DEF Control, Ending
<1>5. WaitGroupCounts'
  BY <1>1 DEF WaitGroupCounts, Uncounted
<1>6. Search'
  BY <1>1, <1>3 DEF Search, SearchOf
<1> QED
  BY <1>2, <1>3, <1>4, <1>5, <1>6

\* The two kinds of threads that count the WaitGroup down.
LEMMA BeginsKeeps ==
  ASSUME IInv, MainBegins \/ \E w \in Workers : WorkerBegins(w)
  PROVE  IInv' /\ Queued' = Queued
<1> USE DEF IInv
<1>1. UNCHANGED <<owner, spawned, registered, joined, stoped_, calm,
                  global_tasks_, tasks_, delay_tasks_, delay, left, completed,
                  batch, cur, victims, missed, late, broken>>
  BY DEF MainBegins, WorkerBegins, ownerVars, queueVars, timerVars, mainVars,
         workerVars
<1>2. size_' = size_ - 1
  BY DEF MainBegins, WorkerBegins
<1>3. NoDuplicates' /\ Queued' = Queued
  BY <1>1, StillKeeps DEF queueVars
<1>4. CASE MainBegins
  <2>1. main = "begin" /\ main' = "check" /\ pc' = pc
    BY <1>4 DEF MainBegins, workerVars
  <2>2. worker_size_ \in Uncounted /\ Uncounted' = Uncounted \ {worker_size_}
    BY <2>1, ExecutorAssumption DEF Uncounted, Workers
  <2>3. WaitGroupCounts' /\ size_ # 0 /\ size_' \in 0..(worker_size_ + 1)
    BY <1>2, <2>2, CountDown
  <2>4. TypeOK'
    BY <1>1, <2>1, <2>3 DEF TypeOK
  <2>5. Control'
    BY <1>1, <2>1, <2>3 DEF Control
  <2>6. Search' /\ Ending'
    BY <1>1, <1>3, <2>1 DEF Search, SearchOf, Ending
  <2> QED
    BY <1>3, <2>3, <2>4, <2>5, <2>6
<1>5. ASSUME NEW w \in Workers, WorkerBegins(w)
      PROVE  IInv'
  <2>1. /\ pc[w] = "begin" /\ main' = main
        /\ pc' = [pc EXCEPT ![w] = IF size_ = 1 THEN "notify" ELSE "check"]
    BY <1>5 DEF WorkerBegins, mainVars
  <2>2. PICK q \in {"notify", "check"} : pc' = [pc EXCEPT ![w] = q]
    BY <2>1
  <2>3. w \in Uncounted /\ Uncounted' = Uncounted \ {w}
    <3>1. w # worker_size_
      BY ExecutorAssumption DEF Workers
    <3>2. {v \in Workers : pc'[v] \in {"none", "begin"}}
            = {v \in Workers : pc[v] \in {"none", "begin"}} \ {w}
      BY <2>2 DEF TypeOK
    <3> QED
      BY <2>1, <3>1, <3>2 DEF Uncounted
  <2>4. WaitGroupCounts' /\ size_ # 0 /\ size_' \in 0..(worker_size_ + 1)
    BY <1>2, <2>3, CountDown
  <2>5. TypeOK'
    <3>1. pc' \in [Workers -> {"none", "begin", "notify", "check", "own",
                           "global", "steal", "ask", "sleep", "run", "exit"}]
      BY <2>2 DEF TypeOK
    <3> QED
      BY <1>1, <2>1, <2>4, <3>1 DEF TypeOK
  <2>6. Control'
    BY <1>1, <2>1, <2>2, <2>4 DEF Control, TypeOK
  <2>7. Search' /\ Ending'
    BY <1>1, <1>3, <2>1, <2>2 DEF Search, SearchOf, Ending, TypeOK
  <2> QED
    BY <1>3, <2>4, <2>5, <2>6, <2>7
<1> QED
  BY <1>3, <1>4, <1>5

\* The owner's steps, and those of the main loop that touch no container.
LEMMA OwnerKeeps ==
  ASSUME IInv,
         \/ StartMain \/ StartWorker \/ RegisterWorker \/ StartReturned
         \/ Stop \/ JoinMain \/ JoinWorker \/ DestroyUnstarted
         \/ MainCheck \/ MainDecides \/ MainWakes \/ UNCHANGED vars
  PROVE  /\ IInv' /\ Queued' = Queued
         /\ UNCHANGED <<cur, delay_tasks_, left, completed, batch>>
<1> USE DEF IInv
<1>1. /\ UNCHANGED <<size_, global_tasks_, tasks_, delay_tasks_, delay, left,
                     completed, batch, cur, victims, missed, late, broken>>
  BY DEF StartMain, StartWorker, RegisterWorker, StartReturned, Stop,
         JoinMain, JoinWorker, DestroyUnstarted, MainCheck, MainDecides,
         MainWakes, vars, queueVars, timerVars, mainVars, workerVars, ownerVars
<1>2. NoDuplicates' /\ Queued' = Queued
  BY <1>1, StillKeeps DEF queueVars
<1>3. CASE StartWorker
  <2>1. /\ spawned \in Workers /\ pc[spawned] = "none" /\ owner = "starting"
        /\ pc' = [pc EXCEPT ![spawned] = "begin"] /\ spawned' = spawned + 1
        /\ UNCHANGED <<owner, registered, joined, stoped_, calm, main>>
    BY <1>3, ExecutorAssumption
       DEF StartWorker, Control, TypeOK, Workers, mainVars
  <2>2. TypeOK'
    <3>1. pc' \in [Workers -> {"none", "begin", "notify", "check", "own",
                           "global", "steal", "ask", "sleep", "run", "exit"}]
      BY <2>1 DEF TypeOK
    <3>2. spawned' \in 0..worker_size_ /\ registered' \in 0..spawned'
      BY <1>3, <2>1, ExecutorAssumption DEF StartWorker, TypeOK
    <3> QED
      BY <1>1, <2>1, <3>1, <3>2 DEF TypeOK
  <2>3. Control'
    <3>1. \A v \in Workers : v >= spawned + 1 <=> v >= spawned /\ v # spawned
      BY <2>1, ExecutorAssumption DEF Workers
    <3>2. \A v \in Workers : pc'[v] = IF v = spawned THEN "begin" ELSE pc[v]
      BY <2>1 DEF TypeOK
    <3> QED
      BY <1>1, <2>1, <3>1, <3>2 DEF Control
  <2>4. WaitGroupCounts'
    <3>1. Uncounted' = Uncounted
      BY <2>1 DEF Uncounted, TypeOK
    <3> QED
      BY <3>1, <1>1 DEF WaitGroupCounts
  <2>5. Search' /\ Ending'
    BY <1>1, <1>2, <2>1 DEF Search, SearchOf, Ending, TypeOK, Control
  <2> QED
    BY <1>1, <1>2, <2>2, <2>3, <2>4, <2>5
<1>4. CASE ~StartWorker
  <2>1. pc' = pc /\ spawned' = spawned
    BY <1>4 DEF StartMain, StartWorker, RegisterWorker, StartReturned, Stop,
         JoinMain, JoinWorker, DestroyUnstarted, MainCheck, MainDecides,
         MainWakes, vars, workerVars, ownerVars
  <2>2. main' \in {"none", "begin"} <=> main \in {"none", "begin"}
    BY <1>4 DEF StartMain, RegisterWorker, StartReturned, Stop,
         JoinMain, JoinWorker, DestroyUnstarted, MainCheck, MainDecides,
         MainWakes, vars, mainVars, Control
  <2>3. WaitGroupCounts'
    <3>1. Uncounted' = Uncounted
      BY <2>1, <2>2 DEF Uncounted
    <3> QED
      BY <3>1, <1>1 DEF WaitGroupCounts
  <2>4. TypeOK' /\ Control' /\ Ending'
    <3> USE <1>1, <2>1 DEF TypeOK, Control, Ending, ownerVars, mainVars
    <3>1. CASE StartMain
      BY <3>1 DEF StartMain
    <3>2. CASE RegisterWorker
      BY <3>2 DEF RegisterWorker
    <3>3. CASE StartReturned
      BY <3>3 DEF StartReturned
    <3>4. CASE Stop
      BY <3>4 DEF Stop
    <3>5. CASE JoinMain
      BY <3>5 DEF JoinMain
    <3>6. CASE JoinWorker
      <4>1. /\ owner = "destroying" /\ joined < worker_size_ /\ ~broken
            /\ pc[joined] = "exit" /\ joined' = joined + 1
            /\ owner' = IF joined + 1 = worker_size_ THEN "gone" ELSE owner
            /\ UNCHANGED <<spawned, registered, stoped_, calm, main>>
        BY <3>6 DEF JoinWorker
      <4>2. joined' \in 0..worker_size_
        BY <4>1, ExecutorAssumption
      <4>3. \A w \in Workers : w < joined' => w < joined \/ w = joined
        BY <4>1, ExecutorAssumption DEF Workers
      <4> QED
        BY <4>1, <4>2, <4>3
    <3>7. CASE DestroyUnstarted
      BY <3>7 DEF DestroyUnstarted
    <3>8. CASE MainCheck \/ MainDecides \/ MainWakes
      BY <3>8 DEF MainCheck, MainDecides, MainWakes
    <3>9. CASE UNCHANGED vars
      BY <3>9 DEF vars
    <3> QED
      BY <1>4, <3>1, <3>2, <3>3, <3>4, <3>5, <3>6, <3>7, <3>8, <3>9
  <2>5. Search'
    BY <1>1, <1>2, <2>1 DEF Search, SearchOf
  <2> QED
    BY <1>1, <1>2, <2>3, <2>4, <2>5
<1> QED
  BY <1>3, <1>4

-----------------------------------------------------------------------------
(* Clients, time and the steps of the main loop that move tasks.            *)

\* A post to a queue.
LEMMA PostKeeps ==
  ASSUME IInv, NEW t \in Tasks,
         PostOutside(t) \/ \E w \in Workers : PostFromWorker(w, t)
  PROVE  IInv' /\ Queued' = Queued \union {t}
<1> USE DEF IInv
<1>1. /\ t \notin Held
      /\ UNCHANGED <<owner, spawned, registered, joined, size_, stoped_, calm,
                     delay_tasks_, delay, left, completed, main, batch, pc,
                     cur, victims, missed, late, broken>>
  BY DEF PostOutside, PostFromWorker, ownerVars, timerVars, mainVars,
         workerVars
<1>2. /\ t \notin Queued /\ t \notin delay_tasks_ /\ t \notin Range(completed)
      /\ t \notin Range(batch) /\ t \notin Running
  BY <1>1 DEF Held
<1>3. PICK q : /\ Enters(t, q)
               /\ Queued' = Queued \union {t}
  <2>1. CASE /\ global_tasks_' = Append(global_tasks_, t)
             /\ tasks_' = tasks_
    <3>1. Range(global_tasks_') = Range(global_tasks_) \union {t}
      BY <2>1, AppendRange DEF TypeOK
    <3> QED
      BY <2>1, <3>1, <1>2, AppendGlobal DEF Queued, Workers
  <2>2. ASSUME NEW w \in Workers,
               tasks_' = [tasks_ EXCEPT ![w] = Append(tasks_[w], t)],
               global_tasks_' = global_tasks_
        PROVE  /\ Enters(t, <<"queue", w>>)
               /\ Queued' = Queued \union {t}
    <3>1. /\ Range(tasks_'[w]) = Range(tasks_[w]) \union {t}
          /\ \A v \in Workers : v # w => tasks_'[v] = tasks_[v]
      BY <2>2, AppendRange DEF TypeOK
    <3> QED
      BY <2>2, <3>1, <1>2, AppendQueue DEF Queued, Workers
  <2> QED
    BY <2>1, <2>2 DEF PostOutside, PostFromWorker
<1>4. NoDuplicates' /\ Search'
  BY <1>1, <1>2, <1>3, EntersKeeps DEF NoDuplicates
<1>5. TypeOK'
  BY <1>1, <1>3 DEF TypeOK, Enters
<1>6. Control' /\ Ending' /\ WaitGroupCounts'
  BY <1>1 DEF Control, Ending, WaitGroupCounts, Uncounted
<1> QED
  BY <1>3, <1>4, <1>5, <1>6

LEMMA DispatchKeeps ==
  ASSUME IInv, Dispatch
  PROVE  /\ IInv' /\ Queued' = Queued \union {Head(batch)}
         /\ Range(batch') = Range(batch) \ {Head(batch)}
         /\ Head(batch) \in Range(batch)
<1> USE DEF IInv
<1> DEFINE t == Head(batch)
<1>1. /\ batch # <<>> /\ main = "dispatch" /\ batch' = Tail(batch)
      /\ main' = IF Len(batch) = 1 THEN "check" ELSE "dispatch"
      /\ UNCHANGED <<owner, spawned, registered, joined, size_, stoped_, calm,
                     delay_tasks_, delay, left, completed, pc, cur, victims,
                     missed, late, broken>>
  BY DEF Dispatch, Control, ownerVars, timerVars, workerVars
<1>2. /\ t \in Tasks /\ Tail(batch) \in Seq(Tasks) /\ IsInjective(Tail(batch))
      /\ Range(Tail(batch)) = Range(batch) \ {t}
      /\ t \in Range(batch) /\ t \notin Queued
  BY <1>1, BatchHead
<1>3. t \notin delay_tasks_ /\ t \notin Range(completed) /\ t \notin Running
  <2>1. /\ At(<<"batch", 0>>) \cap At(<<"delayed", 0>>) = {}
        /\ At(<<"batch", 0>>) \cap At(<<"completed", 0>>) = {}
        /\ \A w \in Workers : At(<<"batch", 0>>) \cap At(<<"run", w>>) = {}
    <3>1. /\ <<"batch", 0>> # <<"delayed", 0>>
          /\ <<"batch", 0>> # <<"completed", 0>>
          /\ \A w \in Workers : <<"batch", 0>> # <<"run", w>>
      OBVIOUS
    <3> QED
      BY <3>1, DuplicatesApart, ArePlaces DEF Apart
  <2>2. \A w \in Workers : t \notin {cur[w]} \ {NoTask}
    BY <1>2, <2>1, AtPlaces
  <2> QED
    BY <1>2, <2>1, <2>2, AtPlaces DEF Running
<1>4. PICK w \in Workers :
        tasks_' = [tasks_ EXCEPT ![w] = Append(tasks_[w], t)]
  BY DEF Dispatch
<1>5. global_tasks_' = global_tasks_
  BY DEF Dispatch
<1>6. Enters(t, <<"queue", w>>)
  BY <1>2, <1>4, <1>5, AppendQueue
<1>7. Queued' = Queued \union {t}
  <2>1. /\ Range(tasks_'[w]) = Range(tasks_[w]) \union {t}
        /\ \A v \in Workers : v # w => tasks_'[v] = tasks_[v]
    BY <1>2, <1>4, AppendRange DEF TypeOK
  <2> QED
    BY <2>1, <1>5 DEF Queued, Workers
<1>8. NoDuplicates' /\ Search'
  <2>1. /\ UNCHANGED <<delay_tasks_, completed, cur, pc, missed, victims>>
        /\ IsInjective(batch') /\ Range(batch') \subseteq Range(batch) \ {t}
    BY <1>1, <1>2
  <2> HIDE DEF t
  <2> QED
    BY <2>1, <1>3, <1>6, EntersKeeps
<1>9. TypeOK'
  <2>1. /\ main' \in {"check", "dispatch"} /\ batch' \in Seq(Tasks)
        /\ global_tasks_' \in Seq(Tasks) /\ tasks_' \in [Workers -> Seq(Tasks)]
    BY <1>1, <1>2, <1>6 DEF Enters
  <2> QED
    BY <1>1, <2>1 DEF TypeOK
<1>10. Control' /\ Ending' /\ WaitGroupCounts'
  <2>1. Len(batch) = 1 <=> Tail(batch) = <<>>
    <3>1. batch \in Seq(Tasks) /\ batch # <<>>
      BY <1>1 DEF TypeOK
    <3>2. Tail(batch) \in Seq(Tasks) /\ Len(Tail(batch)) = Len(batch) - 1
      BY <3>1
    <3>3. Len(batch) \in Nat
      BY <3>1
    <3>4. Tail(batch) = <<>> <=> Len(Tail(batch)) = 0
      BY <3>2, EmptySeq
    <3>5. Len(batch) = 1 <=> Len(batch) - 1 = 0
      BY <3>3
    <3> QED
      BY <3>2, <3>4, <3>5, Zenon
  <2>2. main' \in {"check", "dispatch"}
    BY <1>1
  <2>3. WaitGroupCounts'
    BY <1>1, <2>2 DEF WaitGroupCounts, Uncounted
  <2> QED
    BY <1>1, <2>1, <2>2, <2>3 DEF Control, Ending
<1> QED
  BY <1>1, <1>2, <1>7, <1>8, <1>9, <1>10

\* post_delay and a completion put the task where no worker looks.
LEMMA SubmitKeeps ==
  ASSUME IInv, NEW t \in Tasks,
         Complete(t) \/ \E d \in Delays : PostDelay(t, d)
  PROVE  IInv' /\ Queued' = Queued
<1> USE DEF IInv
<1>1. /\ t \notin Held /\ Intact
      /\ UNCHANGED <<owner, spawned, registered, joined, size_, stoped_, calm,
                     global_tasks_, tasks_, main, batch, pc, cur, victims,
                     missed, late, broken>>
  BY DEF Complete, PostDelay, ownerVars, queueVars, mainVars, workerVars
<1>2. Queued' = Queued
  BY <1>1 DEF Queued
<1>3. /\ \A x \in Places : t \notin At(x)
      /\ Apart
  BY <1>1, NotHeld, DuplicatesApart
<1>4. \A w \in Workers : /\ At(<<"queue", w>>)' = At(<<"queue", w>>)
                         /\ At(<<"run", w>>)' = At(<<"run", w>>)
  BY <1>1, AtPlaces, AtPlacesNext
<1>5. /\ At(<<"global", 0>>)' = At(<<"global", 0>>)
      /\ At(<<"batch", 0>>)' = At(<<"batch", 0>>)
  BY <1>1, AtPlaces, AtPlacesNext
<1>6. ASSUME NEW q \in {<<"delayed", 0>>, <<"completed", 0>>},
             At(q)' = At(q) \union {t},
             \A p \in {<<"delayed", 0>>, <<"completed", 0>>} \ {q} :
               At(p)' = At(p)
      PROVE  Apart'
  <2>1. \A x \in Places : x # q => At(x)' \subseteq At(x) \ {t}
    <3> SUFFICES ASSUME NEW x \in Places, x # q PROVE At(x)' = At(x)
      BY <1>3
    <3>1. CASE x \in {<<"global", 0>>, <<"delayed", 0>>, <<"completed", 0>>,
                      <<"batch", 0>>}
      BY <3>1, <1>5, <1>6
    <3>2. ASSUME NEW w \in Workers, x = <<"queue", w>> \/ x = <<"run", w>>
          PROVE  At(x)' = At(x)
      BY <3>2, <1>4
    <3> QED
      BY <3>1, <3>2, PlaceCases
  <2>2. q \in Places
    BY ArePlaces
  <2> QED
    BY <1>3, <1>6, <2>1, <2>2, MoveApart
<1>7. Control' /\ Ending' /\ WaitGroupCounts' /\ Search'
  BY <1>1, <1>2 DEF Control, Ending, WaitGroupCounts, Uncounted, Search,
     SearchOf
<1>8. CASE Complete(t)
  <2>1. /\ completed' = Append(completed, t)
        /\ UNCHANGED <<delay_tasks_, delay, left>>
    BY <1>8 DEF Complete, timerVars
  <2>2. t \notin Range(completed)
    BY <1>1 DEF Held
  <2>3. /\ completed' \in Seq(Tasks) /\ IsInjective(completed')
        /\ Range(completed') = Range(completed) \union {t}
    BY <2>1, <2>2, AppendRange DEF TypeOK, NoDuplicates
  <2>4. /\ At(<<"completed", 0>>)' = At(<<"completed", 0>>) \union {t}
        /\ At(<<"delayed", 0>>)' = At(<<"delayed", 0>>)
    BY <2>1, <2>3, AtPlaces, AtPlacesNext
  <2>5. Apart'
    BY <2>4, <1>6
  <2>6. TypeOK'
    BY <1>1, <2>1, <2>3 DEF TypeOK
  <2>7. NoDuplicates'
    BY <1>1, <2>3, <2>5 DEF NoDuplicates, Apart
  <2> QED
    BY <1>2, <1>7, <2>6, <2>7
<1>9. ASSUME NEW d \in Delays, PostDelay(t, d)
      PROVE  IInv'
  <2>1. /\ delay_tasks_' = delay_tasks_ \union {t} /\ completed' = completed
        /\ delay' = [delay EXCEPT ![t] = d] /\ left' = [left EXCEPT ![t] = d]
    BY <1>9 DEF PostDelay
  <2>2. /\ At(<<"delayed", 0>>)' = At(<<"delayed", 0>>) \union {t}
        /\ At(<<"completed", 0>>)' = At(<<"completed", 0>>)
    BY <2>1, AtPlaces, AtPlacesNext
  <2>3. Apart'
    BY <2>2, <1>6
  <2>4. TypeOK'
    <3>1. d \in Nat
      BY ExecutorAssumption
    <3>2. delay' \in [Tasks -> Nat] /\ left' \in [Tasks -> Nat]
      BY <2>1, <3>1 DEF TypeOK
    <3> QED
      BY <1>1, <2>1, <3>2 DEF TypeOK
  <2>5. NoDuplicates'
    BY <1>1, <2>1, <2>3 DEF NoDuplicates, Apart
  <2> QED
    BY <1>7, <2>4, <2>5
<1> QED
  BY <1>2, <1>8, <1>9

LEMMA TickKeeps ==
  ASSUME IInv, Tick
  PROVE  IInv' /\ Queued' = Queued
<1> USE DEF IInv
<1>1. /\ left' = [t \in Tasks |-> IF left[t] > 0 THEN left[t] - 1 ELSE 0]
      /\ UNCHANGED <<owner, spawned, registered, joined, size_, stoped_, calm,
                     global_tasks_, tasks_, delay_tasks_, delay, completed,
                     main, batch, pc, cur, victims, missed, late, broken>>
  BY DEF Tick, ownerVars, queueVars, mainVars, workerVars
<1>2. left' \in [Tasks -> Nat]
  <2>1. left \in [Tasks -> Nat]
    BY DEF TypeOK
  <2>2. \A t \in Tasks : (IF left[t] > 0 THEN left[t] - 1 ELSE 0) \in Nat
    BY <2>1
  <2> QED
    BY <1>1, <2>2
<1>3. NoDuplicates' /\ Queued' = Queued
  BY <1>1, StillKeeps DEF queueVars
<1>4. TypeOK'
  BY <1>1, <1>2 DEF TypeOK
<1>5. Control' /\ Ending' /\ WaitGroupCounts' /\ Search'
  BY <1>1, <1>3 DEF Control, Ending, WaitGroupCounts, Uncounted, Search,
     SearchOf
<1> QED
  BY <1>3, <1>4, <1>5

\* The due timers popped by one pass are distinct delayed tasks.
LEMMA PopsDistinct ==
  ASSUME NEW n \in Nat, NEW popped \in [1..n -> delay_tasks_], PopsDue(popped)
  PROVE  /\ popped \in Seq(delay_tasks_)
         /\ Range(popped) \subseteq delay_tasks_
         /\ IsInjective(popped)
         /\ \A t \in Range(popped) : left[t] = 0
<1>1. popped \in Seq(delay_tasks_) /\ Len(popped) = n
  OBVIOUS
<1>2. \A i \in 1..n : \A j \in 1..(i - 1) : popped[i] # popped[j]
  BY <1>1 DEF PopsDue, Tops
<1>3. IsInjective(popped)
  <2> SUFFICES ASSUME NEW i \in 1..n, NEW j \in 1..n, i # j
               PROVE  popped[i] # popped[j]
    BY <1>1 DEF IsInjective
  <2>1. i \in 1..(j - 1) \/ j \in 1..(i - 1)
    OBVIOUS
  <2> QED
    BY <2>1, <1>2
<1>4. \A t \in Range(popped) : left[t] = 0
  BY <1>1 DEF Range, PopsDue
<1> QED
  BY <1>1, <1>3, <1>4, RangeType

\* Timers go from the heap to the batch.
LEMMA TimeupKeeps ==
  ASSUME IInv, get_timeup_delay_tasks
  PROVE  /\ IInv' /\ Queued' = Queued
         /\ Range(batch') \subseteq delay_tasks_
         /\ \A t \in Range(batch') : left[t] = 0
         /\ delay_tasks_' = delay_tasks_ \ Range(batch')
<1> USE DEF IInv
<1>1. /\ main = "timeup" /\ main' = "harvest" /\ batch = <<>>
      /\ UNCHANGED <<owner, spawned, registered, joined, size_, stoped_, calm,
                     global_tasks_, tasks_, left, completed, pc, cur, victims,
                     missed, late, broken>>
  BY DEF get_timeup_delay_tasks, Control, ownerVars, queueVars, workerVars
<1>2. PICK n \in 0..Cardinality(delay_tasks_) :
        \E popped \in [1..n -> delay_tasks_] :
          /\ PopsDue(popped)
          /\ batch' = popped
          /\ delay_tasks_' = delay_tasks_ \ Range(popped)
          /\ delay' = [t \in Tasks |-> IF t \in delay_tasks_ \ Range(popped)
                                         THEN delay[t] ELSE 0]
  BY DEF get_timeup_delay_tasks
<1>3. n \in Nat
  OBVIOUS
<1>4. /\ batch' \in Seq(delay_tasks_)
      /\ Range(batch') \subseteq delay_tasks_
      /\ IsInjective(batch')
      /\ \A t \in Range(batch') : left[t] = 0
      /\ delay_tasks_' = delay_tasks_ \ Range(batch')
  BY <1>2, <1>3, PopsDistinct
<1>5. TypeOK'
  <2>1. delay' \in [Tasks -> Nat]
    BY <1>2 DEF TypeOK
  <2>2. batch' \in Seq(Tasks) /\ delay_tasks_' \in SUBSET Tasks
    BY <1>4 DEF TypeOK
  <2> QED
    BY <1>1, <2>1, <2>2 DEF TypeOK
<1>6. Queued' = Queued
  BY <1>1 DEF Queued
<1>7. Apart'
  <2> DEFINE S == Range(batch')
  <2>1. Apart
    BY DuplicatesApart
  <2>2. \A x \in Places : x # <<"delayed", 0>> => At(x) \cap S = {}
    BY <2>1, <1>4, ArePlaces, AtPlaces DEF Apart
  <2>3. ASSUME NEW x \in Places, x # <<"batch", 0>>
        PROVE  At(x)' \subseteq At(x) \ S
    <3>1. CASE x \in {<<"global", 0>>, <<"completed", 0>>}
      BY <3>1, <2>2, <1>1, AtPlaces, AtPlacesNext
    <3>2. CASE x = <<"delayed", 0>>
      BY <3>2, <1>4, AtPlaces, AtPlacesNext
    <3>3. ASSUME NEW w \in Workers, x = <<"queue", w>> \/ x = <<"run", w>>
          PROVE  At(x)' \subseteq At(x) \ S
      <4>1. /\ At(<<"queue", w>>)' = At(<<"queue", w>>)
            /\ At(<<"run", w>>)' = At(<<"run", w>>)
        BY <1>1, AtPlaces, AtPlacesNext
      <4> QED
        BY <3>3, <4>1, <2>2
    <3> QED
      BY <2>3, <3>1, <3>2, <3>3, PlaceCases
  <2>4. At(<<"batch", 0>>)' \subseteq At(<<"batch", 0>>) \union S
    BY AtPlacesNext
  <2> HIDE DEF S
  <2> QED
    BY <2>1, <2>3, <2>4, ArePlaces, MoveApart
<1>8. NoDuplicates'
  BY <1>1, <1>4, <1>7 DEF NoDuplicates, Apart
<1>9. Control' /\ Ending' /\ WaitGroupCounts' /\ Search'
  BY <1>1, <1>6 DEF Control, Ending, WaitGroupCounts, Uncounted, Search,
     SearchOf
<1> QED
  BY <1>4, <1>5, <1>6, <1>8, <1>9

\* Completions go from the proactor to the batch.
LEMMA HarvestKeeps ==
  ASSUME IInv, get_proactor_task
  PROVE  /\ IInv' /\ Queued' = Queued
         /\ Range(batch') = Range(batch) \union Range(completed)
         /\ Range(completed') = {}
<1> USE DEF IInv
<1>1. /\ main = "harvest" /\ main' = "decide" /\ completed' = <<>>
      /\ batch' = batch \o completed
      /\ UNCHANGED <<owner, spawned, registered, joined, size_, stoped_, calm,
                     global_tasks_, tasks_, delay_tasks_, delay, left, pc, cur,
                     victims, missed, late, broken>>
  BY DEF get_proactor_task, ownerVars, queueVars, timerVars, workerVars
<1>2. /\ batch \in Seq(Tasks) /\ completed \in Seq(Tasks)
      /\ IsInjective(batch) /\ IsInjective(completed)
      /\ Range(batch) \cap Range(completed) = {}
  <2>1. At(<<"batch", 0>>) \cap At(<<"completed", 0>>) = {}
    <3>1. <<"batch", 0>> # <<"completed", 0>>
      OBVIOUS
    <3> QED
      BY <3>1, DuplicatesApart, ArePlaces DEF Apart
  <2> QED
    BY <2>1, AtPlaces DEF TypeOK, NoDuplicates
<1>3. /\ batch' \in Seq(Tasks) /\ IsInjective(batch')
      /\ Range(batch') = Range(batch) \union Range(completed)
  BY <1>1, <1>2, ConcatRange
<1>4. /\ Range(completed') = {} /\ IsInjective(completed')
      /\ completed' \in Seq(Tasks)
  BY <1>1, EmptyRange
<1>5. TypeOK'
  BY <1>1, <1>3, <1>4 DEF TypeOK
<1>6. Queued' = Queued
  BY <1>1 DEF Queued
<1>7. Apart'
  <2> DEFINE S == Range(completed)
  <2>1. Apart
    BY DuplicatesApart
  <2>2. \A x \in Places : x # <<"completed", 0>> => At(x) \cap S = {}
    BY <2>1, ArePlaces, AtPlaces DEF Apart
  <2>3. ASSUME NEW x \in Places, x # <<"batch", 0>>
        PROVE  At(x)' \subseteq At(x) \ S
    <3>1. CASE x \in {<<"global", 0>>, <<"delayed", 0>>}
      BY <3>1, <2>2, <1>1, AtPlaces, AtPlacesNext
    <3>2. CASE x = <<"completed", 0>>
      BY <3>2, <1>4, AtPlaces, AtPlacesNext
    <3>3. ASSUME NEW w \in Workers, x = <<"queue", w>> \/ x = <<"run", w>>
          PROVE  At(x)' \subseteq At(x) \ S
      <4>1. /\ At(<<"queue", w>>)' = At(<<"queue", w>>)
            /\ At(<<"run", w>>)' = At(<<"run", w>>)
        BY <1>1, AtPlaces, AtPlacesNext
      <4> QED
        BY <3>3, <4>1, <2>2
    <3> QED
      BY <2>3, <3>1, <3>2, <3>3, PlaceCases
  <2>4. At(<<"batch", 0>>)' \subseteq At(<<"batch", 0>>) \union S
    BY <1>3, AtPlaces, AtPlacesNext
  <2> HIDE DEF S
  <2> QED
    BY <2>1, <2>3, <2>4, ArePlaces, MoveApart
<1>8. NoDuplicates'
  BY <1>1, <1>3, <1>4, <1>7 DEF NoDuplicates, Apart
<1>9. Control' /\ Ending' /\ WaitGroupCounts' /\ Search'
  BY <1>1, <1>6 DEF Control, Ending, WaitGroupCounts, Uncounted, Search,
     SearchOf
<1> QED
  BY <1>3, <1>4, <1>5, <1>6, <1>8, <1>9

LEMMA NextInv == IInv /\ [Next]_vars => IInv'
<1> SUFFICES ASSUME IInv, [Next]_vars PROVE IInv'
  OBVIOUS
<1>1. CASE Owner \/ UNCHANGED vars
  BY <1>1, OwnerKeeps DEF Owner
<1>2. ASSUME NEW t \in Tasks,
             PostOutside(t) \/ \E w \in Workers : PostFromWorker(w, t)
      PROVE  IInv'
  BY <1>2, PostKeeps
<1>3. ASSUME NEW t \in Tasks, Complete(t) \/ \E d \in Delays : PostDelay(t, d)
      PROVE  IInv'
  BY <1>3, SubmitKeeps
<1>4. CASE Main
  BY <1>4, OwnerKeeps, BeginsKeeps, TimeupKeeps, HarvestKeeps, DispatchKeeps
     DEF Main
<1>5. ASSUME NEW w \in Workers, Worker(w)
      PROVE  IInv'
  <2>1. TypeOK /\ NoDuplicates
    BY DEF IInv
  <2>2. CASE TakesGlobal(w) \/ \E v \in Workers : TakesFrom(w, v)
    BY <2>1, <2>2, TakesCases, TakesKeeps
  <2>3. CASE Searches(w) \/ FinishTask(w) \/ UseDestroyed(w)
    BY <2>3, SearchesKeeps, FinishKeeps, UseDestroyedKeeps
  <2>4. CASE WorkerBegins(w)
    BY <2>4, BeginsKeeps
  <2> QED
    BY <1>5, <2>1, <2>2, <2>3, <2>4, WorkerCases
<1>6. CASE Tick
  BY <1>6, TickKeeps
<1> QED
  BY <1>1, <1>2, <1>3, <1>4, <1>5, <1>6 DEF Next, Clients, Ended

-----------------------------------------------------------------------------
(* The invariants.                                                          *)

\* The inductive invariant holds in every reachable state.
THEOREM Invariance == Spec => []IInv
  BY InitInv, NextInv, PTL DEF Spec

\* Every variable keeps its type: in particular the WaitGroup's unsigned
\* counter is never decremented below zero.
THEOREM TypeCorrect == Spec => []TypeOK
<1>1. IInv => TypeOK
  BY DEF IInv
<1> QED
  BY <1>1, Invariance, PTL

\* No task is in two queues, or queued and run, whichever workers steal from
\* whichever others (multithread_executor.cpp:131-158).
THEOREM OnePlaceEach == Spec => []NoDuplicates
<1>1. IInv => NoDuplicates
  BY DEF IInv
<1> QED
  BY <1>1, Invariance, PTL

\* A worker sleeps only after every task that was queued when it began to
\* look has been taken, although it looks at one queue at a time and under
\* one mutex at a time (multithread_executor.cpp:101-111, 143-158).
THEOREM NoSleepOverWork == Spec => []NoWorkMissed
<1>1. IInv => NoWorkMissed
  BY DEF IInv, Search, SearchOf, NoWorkMissed
<1> QED
  BY <1>1, Invariance, PTL

\* start() returns after every thread has begun (utils.h:88-103).
THEOREM StartWaits == Spec => []StartAwaitsAll
<1>1. IInv => StartAwaitsAll
  <2> SUFFICES ASSUME IInv,
                      owner \in {"up", "joining", "destroying", "gone"}
               PROVE  /\ main \notin {"none", "begin"}
                      /\ \A w \in Workers : pc[w] \notin {"none", "begin"}
    BY DEF StartAwaitsAll
  <2>1. size_ = 0 /\ size_ = Cardinality(Uncounted)
    BY DEF IInv, Control, WaitGroupCounts
  <2>2. Uncounted = {}
    BY <2>1, UncountedFinite
  <2> QED
    BY <2>2 DEF Uncounted
<1> QED
  BY <1>1, Invariance, PTL

\* The destructor's stoped_ lets each worker begin one more task at most.
THEOREM OneMoreTaskEach == Spec => []OneMoreTask
<1>1. IInv => OneMoreTask
  BY DEF IInv, TypeOK, Ending, OneMoreTask
<1> QED
  BY <1>1, Invariance, PTL

\* Destroying an executor whose workers all sleep touches no destroyed member
\* (multithread_executor.cpp:18-27, and the order of the members in
\* multithread_executor.h:62-74).
THEOREM CalmDestruction == Spec => []CalmIsSafe
<1>1. IInv => CalmIsSafe
  BY DEF IInv, Ending, CalmIsSafe
<1> QED
  BY <1>1, Invariance, PTL

-----------------------------------------------------------------------------
(* MultithreadExecutor implements ExecutorSpec.                             *)

\* The tasks that wait in a container.
Waiting == Queued \union delay_tasks_ \union Range(completed)
             \union Range(batch)

absStatus == [t \in Tasks |-> IF t \in delay_tasks_ THEN "delayed" ELSE
                              IF t \in Waiting THEN "ready" ELSE "idle"]

\* A running task waits nowhere.
LEMMA RunningApart == IInv => Waiting \cap Running = {}
<1> SUFFICES ASSUME IInv, NEW w \in Workers, cur[w] # NoTask
             PROVE  cur[w] \notin Waiting
  BY DEF Running
<1> DEFINE t == cur[w]
<1>1. Apart /\ NoDuplicates
  BY DuplicatesApart DEF IInv
<1>2. t \in At(<<"run", w>>)
  BY AtPlaces
<1>3. /\ <<"run", w>> # <<"delayed", 0>> /\ <<"run", w>> # <<"completed", 0>>
      /\ <<"run", w>> # <<"batch", 0>>
  OBVIOUS
<1>4. /\ t \notin At(<<"delayed", 0>>) /\ t \notin At(<<"completed", 0>>)
      /\ t \notin At(<<"batch", 0>>)
  BY <1>1, <1>2, <1>3, ArePlaces DEF Apart
<1>5. t \in Running
  BY DEF Running
<1>6. t \notin Queued
  BY <1>1, <1>5, QueuedOnly
<1> QED
  BY <1>4, <1>6, AtPlaces DEF Waiting

LEMMA StatusWaits ==
  IInv => /\ absStatus = [t \in Tasks |-> Status(t)]
          /\ Held = Waiting \union Running
<1> SUFFICES ASSUME IInv
             PROVE  /\ absStatus = [t \in Tasks |-> Status(t)]
                    /\ Held = Waiting \union Running
  OBVIOUS
<1>1. Held = Waiting \union Running
  BY DEF Held, Waiting
<1>2. Waiting \cap Running = {}
  BY RunningApart
<1> QED
  BY <1>1, <1>2 DEF absStatus, Status

LEMMA StatusWaitsNext ==
  IInv' => absStatus' = [t \in Tasks |-> Status(t)']
<1>1. IInv' => (absStatus = [t \in Tasks |-> Status(t)])'
  BY StatusWaits, PTL
<1> QED
  BY <1>1

\* The steps that put no task into a container, take none out, and start or
\* end no run.
LEMMA StutterRefines ==
  ASSUME IInv, IInv', Queued' = Queued, Running' = Running,
         Range(completed') \union Range(batch')
           = Range(completed) \union Range(batch),
         UNCHANGED <<left, delay_tasks_, owner = "gone">>
  PROVE  UNCHANGED Abstract!vars
<1>1. Waiting' = Waiting
  BY DEF Waiting
<1>2. absStatus' = absStatus
  BY <1>1 DEF absStatus
<1> QED
  BY <1>2, StatusWaits, StatusWaitsNext DEF Abstract!vars

LEMMA SameRunning == cur' = cur => Running' = Running
  BY DEF Running, Workers

LEMMA InitRefines == Init => Abstract!Init
<1> SUFFICES ASSUME Init PROVE Abstract!Init
  OBVIOUS
<1>1. IInv
  BY InitInv
<1>2. \A w \in Workers : tasks_[w] = <<>> /\ cur[w] = NoTask
  BY DEF Init
<1>3. Range(<<>>) = {}
  BY EmptyRange
<1>4. Queued = {} /\ Running = {}
  BY <1>2, <1>3 DEF Init, Queued, Running
<1>5. Waiting = {} /\ delay_tasks_ = {}
  BY <1>3, <1>4 DEF Init, Waiting
<1>6. absStatus = [t \in Tasks |-> "idle"]
  BY <1>5 DEF absStatus
<1> QED
  BY <1>1, <1>4, <1>6, StatusWaits DEF Init, Abstract!Init

\* Putting a task that nothing holds into a queue is Abstract!Post.
LEMMA PostRefines ==
  ASSUME IInv, IInv', NEW t \in Tasks,
         \/ PostOutside(t) \/ Complete(t)
         \/ \E w \in Workers : PostFromWorker(w, t)
  PROVE  Abstract!Post(t)
<1>1. /\ t \notin Held /\ owner # "gone" /\ owner' = owner
      /\ UNCHANGED <<left, delay_tasks_, cur, batch>>
  BY DEF PostOutside, PostFromWorker, Complete, Intact, ownerVars, timerVars,
     mainVars, workerVars, queueVars
<1>2. Waiting' = Waiting \union {t}
  <2>1. CASE Complete(t)
    <3>1. Range(completed') = Range(completed) \union {t}
      BY <2>1, AppendRange DEF Complete, IInv, TypeOK
    <3> QED
      BY <1>1, <2>1, <3>1, SubmitKeeps DEF Waiting
  <2>2. CASE PostOutside(t) \/ \E w \in Workers : PostFromWorker(w, t)
    <3>1. completed' = completed
      BY <2>2 DEF PostOutside, PostFromWorker
    <3> QED
      BY <1>1, <2>2, <3>1, PostKeeps DEF Waiting
  <2> QED
    BY <2>1, <2>2
<1>3. t \notin Waiting /\ t \notin delay_tasks_
  BY <1>1, StatusWaits DEF Waiting
<1>4. absStatus[t] = "idle" /\ absStatus' = [absStatus EXCEPT ![t] = "ready"]
  BY <1>1, <1>2, <1>3 DEF absStatus
<1> QED
  BY <1>1, <1>4, StatusWaits, StatusWaitsNext, SameRunning
     DEF Abstract!Post

LEMMA PostDelayRefines ==
  ASSUME IInv, IInv', NEW t \in Tasks, NEW d \in Delays, PostDelay(t, d)
  PROVE  Abstract!PostDelay(t, d)
<1>1. /\ t \notin Held /\ owner # "gone" /\ owner' = owner
      /\ delay_tasks_' = delay_tasks_ \union {t}
      /\ left' = [left EXCEPT ![t] = d]
      /\ UNCHANGED <<completed, cur, batch>>
  BY DEF PostDelay, Intact, ownerVars, mainVars, workerVars
<1>2. Waiting' = Waiting \union {t}
  BY <1>1, SubmitKeeps DEF Waiting
<1>3. t \notin Waiting /\ t \notin delay_tasks_
  BY <1>1, StatusWaits DEF Waiting
<1>4. /\ absStatus[t] = "idle"
      /\ absStatus' = [absStatus EXCEPT ![t] = "delayed"]
  BY <1>1, <1>2, <1>3 DEF absStatus
<1> QED
  BY <1>1, <1>4, StatusWaits, StatusWaitsNext, SameRunning
     DEF Abstract!PostDelay

\* Popping due timers is Abstract!Mature of the popped set.
LEMMA TimeupRefines ==
  ASSUME IInv, IInv', get_timeup_delay_tasks
  PROVE  \E S \in SUBSET Tasks : Abstract!Mature(S)
<1> DEFINE S == Range(batch')
<1>1. /\ Queued' = Queued /\ S \subseteq delay_tasks_
      /\ \A t \in S : left[t] = 0
      /\ delay_tasks_' = delay_tasks_ \ S
  BY TimeupKeeps
<1>2. batch = <<>> /\ UNCHANGED <<left, completed, cur, owner>>
  BY DEF get_timeup_delay_tasks, IInv, Control, ownerVars, workerVars
<1>3. Waiting' = Waiting
  BY <1>1, <1>2, EmptyRange DEF Waiting
<1>4. S \subseteq Tasks
  BY <1>1 DEF IInv, TypeOK
<1>5. \A t \in S : absStatus[t] = "delayed"
  BY <1>1, <1>4 DEF absStatus
<1>6. absStatus' = [t \in Tasks |-> IF t \in S THEN "ready" ELSE absStatus[t]]
  BY <1>1, <1>3 DEF absStatus, Waiting
<1>7. Abstract!Mature(S)
  BY <1>1, <1>2, <1>4, <1>5, <1>6, StatusWaits, StatusWaitsNext, SameRunning
     DEF Abstract!Mature
<1> QED
  BY <1>4, <1>7

\* A pop by a worker is Abstract!Start.
LEMMA TakesRefines ==
  ASSUME IInv, IInv', NEW w \in Workers, NEW t, Takes(w, t)
  PROVE  t \in Tasks /\ Abstract!Start(t)
<1>1. /\ t \in Tasks /\ t \in Queued /\ Queued' = Queued \ {t}
      /\ pc[w] \in {"own", "global", "steal"}
      /\ cur' = [cur EXCEPT ![w] = t]
      /\ UNCHANGED <<owner, left, delay_tasks_, completed, batch>>
  BY TakesKeeps DEF Takes, Begins, ownerVars, timerVars, mainVars
<1>2. /\ t \notin delay_tasks_ /\ t \notin Range(completed)
      /\ t \notin Range(batch) /\ t \notin Running
  BY <1>1, QueuedOnly DEF IInv
<1>3. t \in Waiting /\ Waiting' = Waiting \ {t}
  BY <1>1, <1>2 DEF Waiting
<1>4. absStatus[t] = "ready" /\ absStatus' = [absStatus EXCEPT ![t] = "idle"]
  BY <1>1, <1>2, <1>3 DEF absStatus
<1>5. Running' = Running \union {t}
  <2>1. cur[w] = NoTask /\ t # NoTask
    BY <1>1, ExecutorAssumption DEF IInv, Control
  <2>2. /\ cur'[w] = t
        /\ \A v \in Workers : v # w => cur'[v] = cur[v]
    BY <1>1 DEF IInv, TypeOK
  <2> QED
    BY <2>1, <2>2 DEF Running, Workers
<1>6. owner # "gone"
  <2>1. owner = "gone" => w < joined
    BY ExecutorAssumption DEF IInv, Control, Workers
  <2> QED
    BY <1>1, <2>1 DEF IInv, Control
<1> QED
  BY <1>1, <1>2, <1>4, <1>5, <1>6, StatusWaits, StatusWaitsNext
     DEF Abstract!Start

LEMMA FinishRefines ==
  ASSUME IInv, IInv', NEW w \in Workers, FinishTask(w)
  PROVE  cur[w] \in Tasks /\ Abstract!Finish(cur[w])
<1>1. /\ pc[w] = "run" /\ cur' = [cur EXCEPT ![w] = NoTask]
      /\ UNCHANGED <<owner, left, delay_tasks_, completed, batch>>
  BY DEF FinishTask, ownerVars, timerVars, mainVars
<1>2. cur[w] \in Tasks /\ cur[w] # NoTask
  BY <1>1, ExecutorAssumption DEF IInv, TypeOK, Control
<1>3. \A v \in Workers : v # w => cur[v] # cur[w]
  <2> SUFFICES ASSUME NEW v \in Workers, v # w, cur[v] = cur[w]
               PROVE  FALSE
    OBVIOUS
  <2>1. <<"run", v>> # <<"run", w>>
    OBVIOUS
  <2>2. At(<<"run", v>>) \cap At(<<"run", w>>) = {}
    BY <2>1, DuplicatesApart, ArePlaces DEF IInv, Apart
  <2> QED
    BY <1>2, <2>2, AtPlaces
<1>4. Running' = Running \ {cur[w]}
  <2>1. /\ cur'[w] = NoTask
        /\ \A v \in Workers : v # w => cur'[v] = cur[v]
    BY <1>1 DEF IInv, TypeOK
  <2> QED
    BY <1>2, <1>3, <2>1 DEF Running, Workers
<1>5. Waiting' = Waiting
  BY <1>1, FinishKeeps DEF Waiting
<1>6. absStatus' = absStatus
  BY <1>1, <1>5 DEF absStatus
<1>7. cur[w] \in Running
  BY <1>2 DEF Running
<1> QED
  BY <1>1, <1>2, <1>4, <1>6, <1>7, StatusWaits, StatusWaitsNext
     DEF Abstract!Finish

\* ~Worker of the last worker is Abstract!Close.
LEMMA JoinRefines ==
  ASSUME IInv, IInv', JoinWorker, owner' = "gone"
  PROVE  Abstract!Close
<1>1. \A w \in Workers : cur[w] = NoTask
  <2>1. joined' = worker_size_ /\ pc' = pc /\ cur' = cur
    BY DEF JoinWorker, IInv, Control, workerVars
  <2>2. \A w \in Workers : w < joined'
    BY <2>1, ExecutorAssumption DEF Workers
  <2>3. \A w \in Workers : pc'[w] = "exit"
    BY <2>2 DEF IInv, Control
  <2> QED
    BY <2>1, <2>3 DEF IInv, Control
<1>2. Running = {}
  BY <1>1 DEF Running
<1>3. /\ Queued' = Queued
      /\ UNCHANGED <<cur, delay_tasks_, left, completed, batch>>
  BY OwnerKeeps
<1>4. absStatus' = absStatus
  BY <1>3 DEF absStatus, Waiting
<1> QED
  BY <1>2, <1>3, <1>4, StatusWaits, StatusWaitsNext, SameRunning
     DEF Abstract!Close

\* The steps of the owner and of the main loop that move no task.
LEMMA OwnerRefines ==
  ASSUME IInv, IInv',
         Owner \/ MainCheck \/ MainDecides \/ MainWakes \/ UNCHANGED vars
  PROVE  Abstract!Close \/ UNCHANGED Abstract!vars
<1>1. /\ Queued' = Queued
      /\ UNCHANGED <<cur, delay_tasks_, left, completed, batch>>
  BY OwnerKeeps DEF Owner
<1>2. CASE UNCHANGED (owner = "gone")
  BY <1>1, <1>2, SameRunning, StutterRefines
<1>3. CASE ~UNCHANGED (owner = "gone")
  <2>1. JoinWorker /\ owner' = "gone"
    BY <1>3 DEF Owner, StartMain, StartWorker, RegisterWorker, StartReturned,
       Stop, JoinMain, JoinWorker, DestroyUnstarted, MainCheck, MainDecides,
       MainWakes, vars, ownerVars
  <2> QED
    BY <2>1, JoinRefines
<1> QED
  BY <1>2, <1>3

\* Handing tasks from the proactor to the batch and on to a worker.
LEMMA HandOverRefines ==
  ASSUME IInv, IInv', get_proactor_task \/ Dispatch
  PROVE  UNCHANGED Abstract!vars
<1>1. UNCHANGED <<owner, left, delay_tasks_, cur>>
  BY DEF get_proactor_task, Dispatch, ownerVars, timerVars, workerVars
<1>2. CASE get_proactor_task
  BY <1>1, <1>2, HarvestKeeps, SameRunning, StutterRefines
<1>3. CASE Dispatch
  <2>1. /\ Queued' = Queued \union {Head(batch)}
        /\ Range(batch') = Range(batch) \ {Head(batch)}
        /\ Head(batch) \in Range(batch) /\ completed' = completed
    BY <1>3, DispatchKeeps DEF Dispatch
  <2>2. Waiting' = Waiting
    BY <1>1, <2>1 DEF Waiting
  <2>3. absStatus' = absStatus
    BY <1>1, <2>2 DEF absStatus
  <2> QED
    BY <1>1, <2>3, SameRunning, StatusWaits, StatusWaitsNext
       DEF Abstract!vars
<1> QED
  BY <1>2, <1>3

\* Each step of the executor is a step of ExecutorSpec or changes nothing of
\* it.
LEMMA StepRefines == IInv /\ [Next]_vars => [Abstract!Next]_Abstract!vars
<1> SUFFICES ASSUME IInv, [Next]_vars
             PROVE  Abstract!Next \/ UNCHANGED Abstract!vars
  OBVIOUS
<1>0. IInv' /\ TypeOK /\ NoDuplicates
  BY NextInv DEF IInv
<1>1. ASSUME NEW t \in Tasks,
             \/ PostOutside(t) \/ Complete(t)
             \/ \E w \in Workers : PostFromWorker(w, t)
      PROVE  Abstract!Next
  BY <1>0, <1>1, PostRefines DEF Abstract!Next
<1>2. ASSUME NEW t \in Tasks, NEW d \in Delays, PostDelay(t, d)
      PROVE  Abstract!Next
  BY <1>0, <1>2, PostDelayRefines DEF Abstract!Next
<1>3. CASE get_timeup_delay_tasks
  BY <1>0, <1>3, TimeupRefines DEF Abstract!Next
<1>4. CASE Owner \/ MainCheck \/ MainDecides \/ MainWakes \/ UNCHANGED vars
  BY <1>0, <1>4, OwnerRefines DEF Abstract!Next
<1>5. CASE get_proactor_task \/ Dispatch
  BY <1>0, <1>5, HandOverRefines
<1>6. CASE MainBegins \/ \E w \in Workers : WorkerBegins(w)
  <2>1. UNCHANGED <<owner, left, delay_tasks_, cur, completed, batch>>
    BY <1>6 DEF MainBegins, WorkerBegins, ownerVars, timerVars, mainVars,
       workerVars
  <2>2. Queued' = Queued
    BY <1>6, BeginsKeeps
  <2> QED
    BY <1>0, <2>1, <2>2, SameRunning, StutterRefines
<1>7. CASE Tick
  <2>1. /\ Queued' = Queued
        /\ UNCHANGED <<owner, delay_tasks_, cur, completed, batch>>
    BY <1>7, TickKeeps DEF Tick, ownerVars, mainVars, workerVars
  <2>2. absStatus' = absStatus
    BY <2>1 DEF absStatus, Waiting
  <2>3. left' = [t \in Tasks |-> IF left[t] > 0 THEN left[t] - 1 ELSE 0]
    BY <1>7 DEF Tick
  <2>4. Abstract!Elapse
    BY <1>0, <2>1, <2>2, <2>3, StatusWaits, StatusWaitsNext, SameRunning
       DEF Abstract!Elapse
  <2> QED
    BY <2>4 DEF Abstract!Next
<1>8. ASSUME NEW w \in Workers, Worker(w)
      PROVE  Abstract!Next \/ UNCHANGED Abstract!vars
  <2>1. CASE TakesGlobal(w) \/ \E v \in Workers : TakesFrom(w, v)
    <3>1. PICK t \in Tasks : Takes(w, t)
      BY <1>0, <2>1, TakesCases
    <3> QED
      BY <1>0, <3>1, TakesRefines DEF Abstract!Next
  <2>2. CASE FinishTask(w)
    BY <1>0, <2>2, FinishRefines DEF Abstract!Next
  <2>3. CASE Searches(w) \/ UseDestroyed(w)
    <3>1. UNCHANGED <<owner, left, delay_tasks_, cur, completed, batch,
                      queueVars>>
      BY <2>3 DEF Searches, Moves, UseDestroyed, ownerVars, timerVars,
         mainVars, workerVars
    <3>2. Queued' = Queued
      BY <3>1 DEF Queued, queueVars
    <3> QED
      BY <1>0, <3>1, <3>2, SameRunning, StutterRefines
  <2> QED
    BY <1>0, <1>6, <1>8, <2>1, <2>2, <2>3, WorkerCases
<1> QED
  BY <1>1, <1>2, <1>3, <1>4, <1>5, <1>6, <1>7, <1>8
     DEF Next, Clients, Main, Ended

\* MultithreadExecutor implements ExecutorSpec, whatever its workers steal
\* from each other: a posted task runs once per post, no delayed task runs
\* early, and none runs after the destructor has returned.
THEOREM Implementation == Spec => ImplementsExecutor
  BY InitRefines, StepRefines, Invariance, PTL
     DEF Spec, Abstract!Spec, ImplementsExecutor
=============================================================================
