---------------------------- MODULE EpollProofs ----------------------------
(***************************************************************************)
(* Proofs about Epoll, for any fds, sorts of sockets and number of         *)
(* requests: its invariants, that it implements ProactorSpec, and that no  *)
(* request is lost while its socket is open.                               *)
(***************************************************************************)
EXTENDS Epoll, QueueLemmas, FiniteSetTheorems, TLAPS

-----------------------------------------------------------------------------
(* The inductive invariant.                                                 *)

Done == Range(completed_task_) \union called

\* A request for events d of f that is neither answered nor completed.
Open(q, f, d) ==
    /\ q \in 1..nreq /\ of[q] = f /\ Dir(kind[q]) = d
    /\ q \notin returned /\ q \notin Done

\* What the three maps wait for is open, and newest in pending_tasks_: so no
\* request is waited for twice.
Opens(t, f) == \A d \in t.events : Open(t.item[d], f, d)
Older(t, u) == \A e \in Dirs, d \in u.events : t.item[e] < u.item[d]
Known(t) == \A d \in Dirs : t.item[d] \in 0..nreq
Maps ==
    \A f \in Fds :
        /\ Opens(flying_tasks_[f], f) /\ Known(flying_tasks_[f])
        /\ Opens(tasks[f], f) /\ Known(tasks[f])
        /\ Opens(pending_tasks_[f], f) /\ Known(pending_tasks_[f])
        /\ Older(flying_tasks_[f], tasks[f])
        /\ Older(flying_tasks_[f], pending_tasks_[f])
        /\ Older(tasks[f], pending_tasks_[f])

\* A task that is not in flight yet has the events of its actions, which are
\* those of the fd's sort of socket.
Fresh(t, f) ==
    /\ t.action \subseteq Calls(sort[f])
    /\ t.events = {Dir(k) : k \in t.action}
    /\ t # NoTask => t.events # {}
AllFresh == \A f \in Fds : Fresh(tasks[f], f) /\ Fresh(pending_tasks_[f], f)

\* epoll waits for events in flight, and for some as long as there are any.
Asks ==
    \A f \in added :
        /\ interest[f] \subseteq flying_tasks_[f].events
        /\ flying_tasks_[f].events # {} => interest[f] # {}

\* The events still to be handled are in flight, and so is the one whose end
\* is to be stored, which is not to be handled again.
Handling ==
    /\ io \in {"handling", "storing"} =>
         \A f \in Fds : events[f] \subseteq flying_tasks_[f].events
    /\ io = "storing" =>
         /\ cur \in Fds /\ op \in Operations
         /\ Uses(op) \in flying_tasks_[cur].events
         /\ Uses(op) \notin events[cur]

\* A callback that was queued is in the queue, once, or has run.
QueuedOnce ==
    /\ IsInjective(completed_task_)
    /\ Range(completed_task_) \cap called = {}
    /\ returned \union Done \subseteq 1..nreq
    /\ returned \cap Done = {}

\* What waits on a socket has arrived.
Arrived == \A f \in Fds : inbox[f] <= arrived[f]

IInv ==
    /\ TypeOK /\ Arrived
    /\ Maps /\ AllFresh /\ Asks /\ Handling /\ QueuedOnce

-----------------------------------------------------------------------------
(* Facts about the tasks.                                                   *)

LEMMA TaskParts ==
  ASSUME NEW t \in EpollTask
  PROVE  /\ t.action \in SUBSET Action /\ t.events \in SUBSET Dirs
         /\ t.item \in [Dirs -> 0..MaxReqs]
         /\ \A d \in Dirs : t.item[d] \in 0..MaxReqs
  BY DEF EpollTask

LEMMA NoTaskParts ==
  /\ NoTask \in EpollTask
  /\ NoTask.action = {} /\ NoTask.events = {}
  /\ \A d \in Dirs : NoTask.item[d] = 0
  BY EpollAssumption DEF NoTask, EpollTask, NoItems

LEMMA CallsAction ==
  ASSUME NEW s \in Sorts
  PROVE  Calls(s) \subseteq Action
  BY EpollAssumption DEF Calls, Action

LEMMA DirType == \A k : Dir(k) \in Dirs
  BY DEF Dir, Dirs

\* No event of a task is lost when its actions are renamed: an fd is of one
\* sort, so that Accept and Send, or Recvfrom and Connect, never meet.
LEMMA FlagsKeepEvents ==
  ASSUME NEW s \in Sorts, NEW n \in EpollTask, n.action \subseteq Calls(s)
  PROVE  {Dir(k) : k \in Flags(n)} = {Dir(k) : k \in n.action}
<1>1. s \in {"stream", "dgram", "listen"}
  BY EpollAssumption
<1>2. CASE s = "stream"
  <2>1. n.action \subseteq {"Recv", "Send", "Connect"}
    BY <1>2 DEF Calls
  <2> QED
    BY <2>1 DEF Flags, Dir
<1>3. CASE s = "dgram"
  <2>1. n.action \subseteq {"Recv", "Recvfrom", "Send"}
    BY <1>3 DEF Calls
  <2> QED
    BY <2>1 DEF Flags, Dir
<1>4. CASE s = "listen"
  <2>1. n.action \subseteq {"Accept"}
    BY <1>4 DEF Calls
  <2> QED
    BY <2>1 DEF Flags, Dir
<1> QED
  BY <1>1, <1>2, <1>3, <1>4

\* Merging a new task adds its events and their items and keeps the others.
LEMMA MergedParts ==
  ASSUME NEW s \in Sorts, NEW t \in EpollTask, NEW n \in EpollTask,
         n.action \subseteq Calls(s), n.events = {Dir(k) : k \in n.action}
  PROVE  /\ Merged(t, n) \in EpollTask
         /\ Merged(t, n).events = t.events \union n.events
         /\ \A d \in n.events : Merged(t, n).item[d] = n.item[d]
         /\ \A d \in Dirs \ n.events :
              \/ Merged(t, n).item[d] = t.item[d]
              \/ Merged(t, n).item[d] = n.item[d] /\ t = NoTask
<1> DEFINE m == [action |-> t.action \union Flags(n),
                 events |-> t.events \union n.events,
                 item |-> [d \in Dirs |-> IF d \in n.events THEN n.item[d]
                                                             ELSE t.item[d]]]
<1>1. {Dir(k) : k \in Flags(n)} = n.events
  BY FlagsKeepEvents
<1>2. Merged(t, n) = IF n = NoTask THEN t ELSE IF t = NoTask THEN n ELSE m
  BY <1>1 DEF Merged
<1>3. n.events \subseteq Dirs /\ t.events \subseteq Dirs
  BY TaskParts
<1>4. m \in EpollTask
  <2>1. Flags(n) \subseteq Action
    BY DEF Flags, Action
  <2> QED
    BY <1>3, <2>1, TaskParts DEF EpollTask
<1>5. CASE n = NoTask
  BY <1>2, <1>5, NoTaskParts
<1>6. CASE n # NoTask /\ t = NoTask
  BY <1>2, <1>6, NoTaskParts
<1>7. CASE n # NoTask /\ t # NoTask
  BY <1>2, <1>3, <1>4, <1>7
<1> QED
  BY <1>5, <1>6, <1>7

-----------------------------------------------------------------------------
(* The invariant holds at first and is kept by every step.                  *)

LEMMA InitInv == Init => IInv
<1> SUFFICES ASSUME Init PROVE IInv
  OBVIOUS
<1>1. TypeOK
  <2>1. /\ 0 \in 0..MaxReqs /\ 0 \in 0..MaxChunks /\ 1 \in 0..2
        /\ <<>> \in Seq(Reqs)
    BY EpollAssumption
  <2>2. /\ [q \in Reqs |-> "none"] \in [Reqs -> Action \union {"none"}]
        /\ [q \in Reqs |-> "none"] \in [Reqs -> Operations \union {"none"}]
        /\ [q \in Reqs |-> 0] \in [Reqs -> Fds \union {0}]
    OBVIOUS
  <2>3. [f \in Fds |-> NoTask] \in [Fds -> EpollTask]
    BY NoTaskParts
  <2>4. /\ [f \in Fds |-> {}] \in [Fds -> SUBSET Dirs]
        /\ [f \in Fds |-> 1] \in [Fds -> 0..2]
        /\ [f \in Fds |-> 0] \in [Fds -> 0..MaxChunks]
    BY <2>1
  <2> QED
    BY <2>1, <2>2, <2>3, <2>4 DEF Init, TypeOK
<1>2. Done = {} /\ nreq = 0
  BY EmptyRange DEF Init, Done
<1>3. /\ \A f : Opens(NoTask, f) /\ Fresh(NoTask, f)
      /\ Known(NoTask) /\ Older(NoTask, NoTask)
  BY <1>2, NoTaskParts DEF Opens, Fresh, Known, Older
<1>4. Maps /\ AllFresh
  BY <1>3 DEF Init, Maps, AllFresh
<1>5. Asks /\ Handling
  BY DEF Init, Asks, Handling
<1>6. QueuedOnce
  BY <1>2, EmptyRange DEF Init, QueuedOnce
<1>7. Arrived
  BY DEF Init, Arrived
<1> QED
  BY <1>1, <1>4, <1>5, <1>6, <1>7 DEF IInv

\* The types of what a request is put in.
LEMMA NumberParts ==
  ASSUME IInv, NEW fd \in Fds, NEW k, Number(fd, k)
  PROVE  /\ nreq \in Nat /\ nreq + 1 \in Reqs /\ nreq' = nreq + 1
         /\ k \in Action /\ k \in Calls(sort[fd]) /\ sort[fd] \in Sorts
         /\ kind' = [kind EXCEPT ![nreq + 1] = k]
         /\ of' = [of EXCEPT ![nreq + 1] = fd]
<1>1. nreq \in Nat /\ nreq + 1 \in Reqs
  BY EpollAssumption DEF IInv, TypeOK, Number, Reqs
<1>2. sort[fd] \in Sorts
  BY DEF IInv, TypeOK
<1>3. k \in Calls(sort[fd])
  BY DEF Number
<1>4. k \in Action
  BY <1>2, <1>3, CallsAction
<1> QED
  BY <1>1, <1>2, <1>3, <1>4 DEF Number

\* What extending or replacing a pending task leaves on the fd.
LEMMA NewTask ==
  ASSUME NEW t \in EpollTask, NEW k \in Action, NEW q \in Reqs,
         NEW n, \/ n = [action |-> t.action \union {k},
                        events |-> t.events \union {Dir(k)},
                        item |-> [t.item EXCEPT ![Dir(k)] = q]]
                \/ n = [action |-> {k}, events |-> {Dir(k)},
                        item |-> [NoItems EXCEPT ![Dir(k)] = q]]
  PROVE  /\ n \in EpollTask
         /\ n.item[Dir(k)] = q
         /\ \A d \in Dirs \ {Dir(k)} : n.item[d] \in {0, t.item[d]}
         /\ \A d \in n.events \ {Dir(k)} : d \in t.events /\ n.item[d] = t.item[d]
         /\ Dir(k) \in n.events
         /\ \/ n.action = t.action \union {k} /\ n.events = t.events \union {Dir(k)}
            \/ n.action = {k} /\ n.events = {Dir(k)}
<1>1. /\ t.action \in SUBSET Action /\ t.events \in SUBSET Dirs
      /\ t.item \in [Dirs -> 0..MaxReqs] /\ Dir(k) \in Dirs
      /\ q \in 0..MaxReqs /\ 0 \in 0..MaxReqs
  BY TaskParts, DirType, EpollAssumption DEF Reqs
<1>2. CASE n = [action |-> t.action \union {k},
                events |-> t.events \union {Dir(k)},
                item |-> [t.item EXCEPT ![Dir(k)] = q]]
  <2>1. /\ n.action = t.action \union {k} /\ n.events = t.events \union {Dir(k)}
        /\ n.item = [t.item EXCEPT ![Dir(k)] = q]
    BY <1>2
  <2>2. n \in EpollTask
    BY <1>1, <1>2 DEF EpollTask
  <2>3. \A d \in Dirs : n.item[d] = IF d = Dir(k) THEN q ELSE t.item[d]
    BY <1>1, <2>1
  <2> QED
    BY <1>1, <2>1, <2>2, <2>3
<1>3. CASE n = [action |-> {k}, events |-> {Dir(k)},
                item |-> [NoItems EXCEPT ![Dir(k)] = q]]
  <2>1. /\ n.action = {k} /\ n.events = {Dir(k)}
        /\ n.item = [NoItems EXCEPT ![Dir(k)] = q]
    BY <1>3
  <2>2. NoItems \in [Dirs -> 0..MaxReqs]
    BY <1>1 DEF NoItems
  <2>3. n \in EpollTask
    BY <1>1, <1>3, <2>2 DEF EpollTask
  <2>4. \A d \in Dirs : n.item[d] = IF d = Dir(k) THEN q ELSE 0
    BY <1>1, <2>1, <2>2 DEF NoItems
  <2> QED
    BY <1>1, <2>1, <2>3, <2>4
<1> QED
  BY <1>2, <1>3

\* A new request is open and newer than all, whatever it replaces.
LEMMA SubmitInv ==
  ASSUME IInv, NEW fd \in Fds, NEW k,
         Answer(fd, k) \/ Extend(fd, k) \/ Replace(fd, k),
         UNCHANGED <<flying_tasks_, ioVars, doneVars, epollVars, kernelVars>>
  PROVE  IInv'
<1> USE DEF ioVars, doneVars, epollVars, kernelVars
<1>0. Number(fd, k)
  BY DEF Answer, Extend, Replace
<1>1. PICK q \in Reqs : q = nreq + 1
  BY <1>0, NumberParts
<1>2. /\ nreq \in Nat /\ nreq' = q /\ q > nreq /\ q \notin 1..nreq
      /\ 1..q = 1..nreq \union {q} /\ 0..nreq \subseteq 0..q
      /\ k \in Action /\ k \in Calls(sort[fd]) /\ sort[fd] \in Sorts
      /\ kind' = [kind EXCEPT ![q] = k] /\ of' = [of EXCEPT ![q] = fd]
      /\ returned' \in {returned, returned \union {q}}
  BY <1>0, <1>1, NumberParts DEF Answer, Extend, Replace
<1>3. /\ \A p \in Reqs : kind'[p] = IF p = q THEN k ELSE kind[p]
      /\ \A p \in Reqs : of'[p] = IF p = q THEN fd ELSE of[p]
      /\ 1..nreq \subseteq Reqs
  BY <1>1, <1>2, EpollAssumption DEF IInv, TypeOK, Reqs
<1>4. Done' = Done /\ q \notin Done /\ q \notin returned
  BY <1>2 DEF Done, IInv, QueuedOnce
<1>5. \A p, f, d : Open(p, f, d) => Open(p, f, d)'
  BY <1>2, <1>3, <1>4 DEF Open
<1>6. /\ \A t, f : Opens(t, f) => Opens(t, f)'
      /\ \A t : Known(t) => Known(t)'
  BY <1>2, <1>5 DEF Opens, Known
<1>7. /\ nreq' \in 0..MaxReqs /\ kind' \in [Reqs -> Action \union {"none"}]
      /\ of' \in [Reqs -> Fds \union {0}] /\ returned' \in SUBSET Reqs
  BY <1>1, <1>2, EpollAssumption DEF IInv, TypeOK, Reqs
<1>8. QueuedOnce'
  BY <1>2, <1>4 DEF IInv, QueuedOnce
<1>9. Asks' /\ Handling' /\ Arrived'
  BY DEF IInv, Asks, Handling, Arrived
<1>10. CASE Answer(fd, k)
  <2>1. pending_tasks_' = pending_tasks_
    BY <1>10 DEF Answer
  <2>2. TypeOK'
    BY <1>7, <2>1 DEF IInv, TypeOK
  <2>3. Maps'
    BY <1>6, <2>1 DEF IInv, Maps
  <2>4. AllFresh'
    BY <2>1 DEF IInv, AllFresh, Fresh
  <2> QED
    BY <1>8, <1>9, <2>2, <2>3, <2>4 DEF IInv
<1>11. CASE Extend(fd, k) \/ Replace(fd, k)
  <2>1. PICK t \in EpollTask : t = pending_tasks_[fd]
    BY DEF IInv, TypeOK
  <2>2. PICK n : /\ pending_tasks_' = [pending_tasks_ EXCEPT ![fd] = n]
                 /\ \/ n = [action |-> t.action \union {k},
                            events |-> t.events \union {Dir(k)},
                            item |-> [t.item EXCEPT ![Dir(k)] = q]]
                    \/ n = [action |-> {k}, events |-> {Dir(k)},
                            item |-> [NoItems EXCEPT ![Dir(k)] = q]]
    BY <1>1, <1>11, <2>1 DEF Extend, Replace, IInv, TypeOK
  <2>3. /\ n \in EpollTask
        /\ n.item[Dir(k)] = q
        /\ \A d \in Dirs \ {Dir(k)} : n.item[d] \in {0, t.item[d]}
        /\ \A d \in n.events \ {Dir(k)} : d \in t.events /\ n.item[d] = t.item[d]
        /\ Dir(k) \in n.events
        /\ \/ n.action = t.action \union {k} /\ n.events = t.events \union {Dir(k)}
           \/ n.action = {k} /\ n.events = {Dir(k)}
    BY <1>2, <2>2, NewTask
  <2>4. /\ \A f \in Fds : pending_tasks_'[f] = IF f = fd THEN n ELSE pending_tasks_[f]
        /\ pending_tasks_' \in [Fds -> EpollTask]
    BY <2>2, <2>3 DEF IInv, TypeOK
  <2>5. returned' = returned
    BY <1>11 DEF Extend, Replace
  <2>6. TypeOK'
    BY <1>7, <2>4 DEF IInv, TypeOK
  <2>7. Open(q, fd, Dir(k))'
    BY <1>2, <1>3, <1>4, <2>5 DEF Open
  <2>8. Opens(n, fd)'
    <3>1. Opens(t, fd)
      BY <2>1 DEF IInv, Maps
    <3> QED
      BY <1>5, <2>3, <2>7, <3>1 DEF Opens
  <2>9. Known(n)'
    <3>1. Known(t)
      BY <2>1 DEF IInv, Maps
    <3>2. q \in 0..q /\ 0 \in 0..q
      BY <1>1, <1>2
    <3> QED
      BY <1>2, <2>3, <3>1, <3>2 DEF Known
  <2>10. Older(flying_tasks_[fd], n) /\ Older(tasks[fd], n)
    <3>1. ASSUME NEW u, Known(u), Older(u, t) PROVE Older(u, n)
      <4>1. \A e \in Dirs : u.item[e] < q
        BY <1>2, <3>1 DEF Known
      <4> QED
        BY <2>3, <3>1, <4>1 DEF Older
    <3>2. /\ Known(flying_tasks_[fd]) /\ Older(flying_tasks_[fd], t)
          /\ Known(tasks[fd]) /\ Older(tasks[fd], t)
      BY <2>1 DEF IInv, Maps
    <3> QED
      BY <3>1, <3>2
  <2>11. Maps'
    <3> SUFFICES ASSUME NEW f \in Fds
                 PROVE  /\ Opens(flying_tasks_[f], f)' /\ Known(flying_tasks_[f])'
                        /\ Opens(tasks[f], f)' /\ Known(tasks[f])'
                        /\ Opens(pending_tasks_[f], f)' /\ Known(pending_tasks_[f])'
                        /\ Older(flying_tasks_[f], tasks[f])'
                        /\ Older(flying_tasks_[f], pending_tasks_[f])'
                        /\ Older(tasks[f], pending_tasks_[f])'
      BY DEF Maps
    <3>1. CASE f = fd
      BY <1>6, <2>4, <2>8, <2>9, <2>10, <3>1 DEF IInv, Maps
    <3>2. CASE f # fd
      BY <1>6, <2>4, <3>2 DEF IInv, Maps
    <3> QED
      BY <3>1, <3>2
  <2>12. AllFresh'
    <3>1. Fresh(t, fd)
      BY <2>1 DEF IInv, AllFresh
    <3>2. /\ n.action \subseteq Calls(sort[fd]) /\ n.events # {}
          /\ n.events = {Dir(j) : j \in n.action}
      BY <1>2, <2>3, <3>1 DEF Fresh
    <3>3. Fresh(n, fd)
      BY <3>2 DEF Fresh
    <3> QED
      BY <2>4, <3>3 DEF IInv, AllFresh, Fresh
  <2> QED
    BY <1>8, <1>9, <2>6, <2>11, <2>12 DEF IInv
<1> QED
  BY <1>10, <1>11

LEMMA SubmitIs ==
  ASSUME Submit
  PROVE  \E fd \in Fds, k \in Action :
           /\ \/ Answer(fd, k) \/ Extend(fd, k)
              \/ Replace(fd, k) /\ k \in {"Accept", "Connect"}
           /\ UNCHANGED <<flying_tasks_, ioVars, doneVars, epollVars, kernelVars>>
  BY DEF Submit, recv, recvfrom, accept, connect, send_sync, send_async, Action

\* Nothing that the maps and the queue depend on changes.
LEMMA SameRequests ==
  ASSUME IInv, UNCHANGED <<requestVars, pending_tasks_, tasks, doneVars, sort>>
  PROVE  /\ Done' = Done
         /\ AllFresh' /\ QueuedOnce'
         /\ flying_tasks_' = flying_tasks_ => Maps'
<1> USE DEF requestVars, doneVars
<1>1. Done' = Done
  BY DEF Done
<1>2. AllFresh'
  BY DEF IInv, AllFresh, Fresh
<1>3. QueuedOnce'
  BY <1>1 DEF IInv, QueuedOnce
<1>4. ASSUME flying_tasks_' = flying_tasks_ PROVE Maps'
  BY <1>1, <1>4 DEF IInv, Maps, Opens, Open, Known, Older
<1> QED
  BY <1>1, <1>2, <1>3, <1>4

\* start(), the kernel and Close touch no request.  epoll forgets a closed fd.
LEMMA QuietInv ==
  ASSUME IInv, start \/ Kernel \/ (\E fd \in Fds : Close(fd)) \/ UNCHANGED vars
  PROVE  IInv'
<1> USE DEF requestVars, ioVars, doneVars, epollVars, kernelVars, vars
<1>1. /\ UNCHANGED requestVars /\ UNCHANGED doneVars
      /\ UNCHANGED <<pending_tasks_, flying_tasks_, tasks, events>>
      /\ UNCHANGED <<cur, op, sort>>
      /\ io' # io => io = "none" /\ io' = "queued"
  <2>1. CASE start \/ UNCHANGED vars
    BY <2>1 DEF start
  <2>2. CASE Kernel
    <3>1. sort' = sort
      BY <2>2 DEF Kernel, Arrive, Congest, Drain, Reset, Reuse
    <3> QED
      BY <2>2, <3>1 DEF Kernel
  <2>3. CASE \E fd \in Fds : Close(fd)
    BY <2>3 DEF Close
  <2> QED
    BY <2>1, <2>2, <2>3
<1>2. \/ UNCHANGED <<added, interest>>
      \/ \E fd \in Fds : /\ added' = added \ {fd}
                         /\ interest' = [interest EXCEPT ![fd] = {}]
  BY DEF start, Kernel, Close
<1>3. interest' \in [Fds -> SUBSET Dirs] /\ added' \in SUBSET Fds
  BY <1>2 DEF IInv, TypeOK
<1>4. /\ sock' \in [Fds -> 0..2]
      /\ inbox' \in [Fds -> 0..MaxChunks] /\ arrived' \in [Fds -> 0..MaxChunks]
      /\ writable' \in SUBSET Fds /\ err' \in SUBSET Fds
      /\ Arrived'
  <2>1. /\ sock \in [Fds -> 0..2] /\ 0 \in 0..2 /\ 2 \in 0..2
        /\ inbox \in [Fds -> 0..MaxChunks] /\ 0 \in 0..MaxChunks
        /\ writable \in SUBSET Fds /\ err \in SUBSET Fds
        /\ arrived \in [Fds -> 0..MaxChunks] /\ MaxChunks \in Nat
        /\ \A f \in Fds : inbox[f] <= arrived[f]
    BY EpollAssumption DEF IInv, TypeOK, Arrived
  <2>2. CASE start \/ UNCHANGED vars
    BY <2>1, <2>2 DEF start, Arrived
  <2>3. ASSUME NEW fd \in Fds, Close(fd)
        PROVE  /\ sock' \in [Fds -> 0..2]
               /\ inbox' \in [Fds -> 0..MaxChunks]
               /\ arrived' \in [Fds -> 0..MaxChunks]
               /\ writable' \in SUBSET Fds /\ err' \in SUBSET Fds
               /\ Arrived'
    <3>1. /\ sock' = [sock EXCEPT ![fd] = 0] /\ err' = err \ {fd}
          /\ inbox' = [inbox EXCEPT ![fd] = 0]
          /\ UNCHANGED <<arrived, writable>>
      BY <2>3 DEF Close
    <3> QED
      BY <2>1, <3>1 DEF Arrived
  <2>4. CASE Kernel
    <3>1. PICK fd \in Fds : Arrive(fd) \/ Congest(fd) \/ Drain(fd) \/ Reset(fd)
                              \/ Reuse(fd)
      BY <2>4 DEF Kernel
    <3>2. CASE Arrive(fd)
      <4>1. /\ arrived[fd] + 1 \in 0..MaxChunks
            /\ inbox[fd] + 1 \in 0..MaxChunks
            /\ inbox[fd] + 1 <= arrived[fd] + 1
        BY <2>1, <3>2 DEF Arrive
      <4>2. /\ arrived' = [arrived EXCEPT ![fd] = @ + 1]
            /\ inbox' = [inbox EXCEPT ![fd] = @ + 1]
            /\ UNCHANGED <<sock, writable, err>>
        BY <3>2 DEF Arrive
      <4> QED
        BY <2>1, <4>1, <4>2 DEF Arrived
    <3>3. CASE Congest(fd) \/ Drain(fd) \/ Reset(fd) \/ Reuse(fd)
      BY <2>1, <3>3 DEF Congest, Drain, Reset, Reuse, Arrived
    <3> QED
      BY <3>1, <3>2, <3>3
  <2> QED
    BY <1>1, <2>2, <2>3, <2>4
<1>5. TypeOK'
  BY <1>1, <1>3, <1>4 DEF IInv, TypeOK
<1>6. Asks'
  BY <1>1, <1>2 DEF IInv, TypeOK, Asks
<1>7. Handling'
  BY <1>1 DEF IInv, Handling
<1>8. AllFresh' /\ QueuedOnce' /\ Maps'
  BY <1>1, SameRequests
<1> QED
  BY <1>4, <1>5, <1>6, <1>7, <1>8 DEF IInv

\* get_pending_tasks moves the pending tasks on, and empties their map.
LEMMA GetInv ==
  ASSUME IInv, get_pending_tasks
  PROVE  IInv'
<1> USE DEF requestVars, doneVars, epollVars, kernelVars
<1>1. /\ tasks' = pending_tasks_ /\ pending_tasks_' = [f \in Fds |-> NoTask]
      /\ io' = "submitting"
      /\ UNCHANGED <<requestVars, flying_tasks_, events, cur, op, doneVars,
                     epollVars, kernelVars>>
  BY DEF get_pending_tasks
<1>2. pending_tasks_' \in [Fds -> EpollTask]
  BY <1>1, NoTaskParts
<1>3. TypeOK'
  BY <1>1, <1>2 DEF IInv, TypeOK
<1>4. \A f \in Fds : pending_tasks_'[f] = NoTask
  BY <1>1
<1>5. Done' = Done
  BY <1>1 DEF Done
<1>6. /\ \A t, f : Opens(t, f) => Opens(t, f)'
      /\ \A t : Known(t) => Known(t)'
  BY <1>1, <1>5 DEF Opens, Open, Known
<1>7. /\ \A f : Opens(NoTask, f)' /\ Fresh(NoTask, f)' /\ Known(NoTask)'
      /\ \A t : Older(t, NoTask)
  BY <1>1, NoTaskParts DEF Opens, Fresh, Known, Older, IInv, TypeOK
<1>8. Maps'
  BY <1>1, <1>4, <1>6, <1>7 DEF IInv, Maps
<1>9. AllFresh'
  BY <1>1, <1>4, <1>7 DEF IInv, AllFresh, Fresh
<1>10. Asks' /\ Handling' /\ QueuedOnce' /\ Arrived'
  BY <1>1, <1>5 DEF IInv, Asks, Handling, QueuedOnce, Arrived
<1> QED
  BY <1>3, <1>8, <1>9, <1>10 DEF IInv

\* submit_tasks merges what is pending into what is in flight; what epoll is
\* asked for and reports is part of it.
LEMMA PollInv ==
  ASSUME IInv, Poll
  PROVE  IInv'
<1> USE DEF requestVars, doneVars
<1>1. /\ flying_tasks_' = [f \in Fds |-> Merged(flying_tasks_[f], tasks[f])]
      /\ added' = added \union {f \in Fds : /\ tasks[f] # NoTask
                                            /\ flying_tasks_[f] = NoTask
                                            /\ sock[f] # 0}
      /\ interest' = [f \in Fds |-> IF tasks[f] # NoTask /\ f \in added'
                                      THEN tasks[f].events ELSE interest[f]]
      /\ tasks' = [f \in Fds |-> NoTask]
      /\ events' = [f \in Fds |-> IF f \in added' \ err
                                    THEN interest'[f] \cap Ready(f) ELSE {}]
      /\ io' = "handling"
      /\ UNCHANGED <<requestVars, pending_tasks_, cur, op, doneVars, kernelVars>>
  BY DEF Poll, Asked
<1>2. Done' = Done
  BY <1>1 DEF Done
<1>3. /\ \A t, f : Opens(t, f) => Opens(t, f)'
      /\ \A t : Known(t) => Known(t)'
  BY <1>1, <1>2 DEF Opens, Open, Known
<1>4. ASSUME NEW f \in Fds
      PROVE  /\ flying_tasks_'[f] \in EpollTask
             /\ flying_tasks_'[f].events =
                  flying_tasks_[f].events \union tasks[f].events
             /\ \A d \in tasks[f].events :
                  flying_tasks_'[f].item[d] = tasks[f].item[d]
             /\ \A d \in Dirs \ tasks[f].events :
                  \/ flying_tasks_'[f].item[d] = flying_tasks_[f].item[d]
                  \/ /\ flying_tasks_'[f].item[d] = tasks[f].item[d]
                     /\ flying_tasks_[f] = NoTask
             /\ tasks[f].events \subseteq Dirs
  <2>1. /\ flying_tasks_[f] \in EpollTask /\ tasks[f] \in EpollTask
        /\ sort[f] \in Sorts
    BY DEF IInv, TypeOK
  <2>2. /\ tasks[f].action \subseteq Calls(sort[f])
        /\ tasks[f].events = {Dir(k) : k \in tasks[f].action}
    BY DEF IInv, AllFresh, Fresh
  <2>3. flying_tasks_'[f] = Merged(flying_tasks_[f], tasks[f])
    BY <1>1
  <2>4. /\ Merged(flying_tasks_[f], tasks[f]) \in EpollTask
        /\ Merged(flying_tasks_[f], tasks[f]).events =
             flying_tasks_[f].events \union tasks[f].events
        /\ \A d \in tasks[f].events :
             Merged(flying_tasks_[f], tasks[f]).item[d] = tasks[f].item[d]
        /\ \A d \in Dirs \ tasks[f].events :
             \/ Merged(flying_tasks_[f], tasks[f]).item[d] = flying_tasks_[f].item[d]
             \/ /\ Merged(flying_tasks_[f], tasks[f]).item[d] = tasks[f].item[d]
                /\ flying_tasks_[f] = NoTask
    BY <2>1, <2>2, MergedParts
  <2>5. tasks[f].events \subseteq Dirs
    BY <2>1, TaskParts
  <2> QED
    BY <2>3, <2>4, <2>5
<1>5. \A f \in Fds : tasks'[f] = NoTask
  BY <1>1
<1>6. interest' \in [Fds -> SUBSET Dirs]
  BY <1>1, <1>4 DEF IInv, TypeOK
<1>7. TypeOK'
  <2>1. flying_tasks_' \in [Fds -> EpollTask]
    BY <1>1, <1>4
  <2>2. tasks' \in [Fds -> EpollTask]
    BY <1>1, NoTaskParts
  <2>3. added' \in SUBSET Fds
    BY <1>1 DEF IInv, TypeOK
  <2>4. events' \in [Fds -> SUBSET Dirs]
    BY <1>1, <1>6
  <2> QED
    BY <1>1, <1>6, <2>1, <2>2, <2>3, <2>4 DEF IInv, TypeOK, kernelVars
<1>8. ASSUME NEW f \in Fds
      PROVE  /\ Opens(flying_tasks_[f], f)' /\ Known(flying_tasks_[f])'
             /\ Older(flying_tasks_[f], pending_tasks_[f])'
  <2>1. PICK t \in EpollTask : t = flying_tasks_[f]
    BY DEF IInv, TypeOK
  <2>2. PICK n \in EpollTask : n = tasks[f]
    BY DEF IInv, TypeOK
  <2>3. PICK p \in EpollTask : p = pending_tasks_[f] /\ p = pending_tasks_'[f]
    BY <1>1 DEF IInv, TypeOK
  <2>4. PICK m \in EpollTask : m = flying_tasks_'[f]
    BY <1>4
  <2>5. /\ Opens(t, f) /\ Known(t) /\ Opens(n, f) /\ Known(n)
        /\ Older(t, p) /\ Older(n, p)
    BY <2>1, <2>2, <2>3 DEF IInv, Maps
  <2>6. /\ m.events = t.events \union n.events
        /\ \A d \in n.events : m.item[d] = n.item[d]
        /\ \A d \in Dirs \ n.events :
             \/ m.item[d] = t.item[d]
             \/ m.item[d] = n.item[d] /\ t = NoTask
        /\ t.events \subseteq Dirs /\ n.events \subseteq Dirs
        /\ p.events \subseteq Dirs
    BY <1>4, <2>1, <2>2, <2>3, <2>4, TaskParts
  <2>7. \A d \in Dirs : m.item[d] \in {t.item[d], n.item[d]}
    BY <2>6
  <2>8. Known(m)
    BY <2>5, <2>7 DEF Known
  <2>9. Older(m, p)
    BY <2>5, <2>6, <2>7 DEF Older
  <2>10. Opens(m, f)
    BY <2>5, <2>6, NoTaskParts DEF Opens
  <2> QED
    BY <1>3, <2>3, <2>4, <2>8, <2>9, <2>10
<1>9. Maps'
  <2>1. /\ \A f : Opens(NoTask, f)'
        /\ Known(NoTask)'
        /\ \A t : Older(t, NoTask)
    BY <1>1, NoTaskParts DEF Opens, Known, Older, IInv, TypeOK
  <2>2. \A f \in Fds : Older(NoTask, pending_tasks_[f])'
    <3> SUFFICES ASSUME NEW f \in Fds, NEW e \in Dirs,
                        NEW d \in pending_tasks_[f].events
                 PROVE  NoTask.item[e] < pending_tasks_[f].item[d]
      BY <1>1 DEF Older
    <3>1. pending_tasks_[f] \in EpollTask
      BY DEF IInv, TypeOK
    <3>2. d \in Dirs /\ NoTask.item[e] = 0
      BY <3>1, TaskParts, NoTaskParts
    <3>3. Open(pending_tasks_[f].item[d], f, d)
      BY DEF IInv, Maps, Opens
    <3>4. pending_tasks_[f].item[d] \in 1..nreq /\ nreq \in Nat
      BY <3>3 DEF Open, IInv, TypeOK
    <3> QED
      BY <3>2, <3>4
  <2> QED
    BY <1>1, <1>3, <1>5, <1>8, <2>1, <2>2 DEF IInv, Maps
<1>10. AllFresh'
  <2>1. \A f : Fresh(NoTask, f)'
    BY NoTaskParts DEF Fresh
  <2> QED
    BY <1>1, <1>5, <2>1 DEF IInv, AllFresh, Fresh, kernelVars
<1>11. Asks'
  <2> SUFFICES ASSUME NEW f \in Fds, f \in added'
               PROVE  /\ interest'[f] \subseteq flying_tasks_'[f].events
                      /\ flying_tasks_'[f].events # {} => interest'[f] # {}
    BY <1>7 DEF Asks, TypeOK
  <2>1. CASE tasks[f] # NoTask
    <3>1. interest'[f] = tasks[f].events
      BY <1>1, <2>1
    <3>2. tasks[f].events # {}
      BY <2>1 DEF IInv, AllFresh, Fresh
    <3> QED
      BY <1>4, <3>1, <3>2
  <2>2. CASE tasks[f] = NoTask
    <3>1. f \in added /\ interest'[f] = interest[f]
      BY <1>1, <2>2
    <3>2. flying_tasks_'[f].events = flying_tasks_[f].events
      <4>1. tasks[f].events = {}
        BY <2>2, NoTaskParts
      <4>2. flying_tasks_'[f].events =
              flying_tasks_[f].events \union tasks[f].events
        BY <1>4
      <4> QED
        BY <4>1, <4>2
    <3> QED
      BY <3>1, <3>2 DEF IInv, Asks
  <2> QED
    BY <2>1, <2>2
<1>12. Handling'
  <2>1. \A f \in Fds : events'[f] \subseteq flying_tasks_'[f].events
    BY <1>1, <1>11 DEF Asks
  <2> QED
    BY <1>1, <2>1 DEF Handling
<1>13. QueuedOnce' /\ Arrived'
  BY <1>1, <1>2 DEF IInv, QueuedOnce, Arrived, kernelVars
<1> QED
  BY <1>7, <1>9, <1>10, <1>11, <1>12, <1>13 DEF IInv

LEMMA ChosenUses ==
  ASSUME TypeOK, NEW fd \in Fds, events[fd] # {}
  PROVE  /\ Chosen(fd) \in Operations /\ Uses(Chosen(fd)) \in events[fd]
         /\ Left(fd) \subseteq events[fd] /\ Uses(Chosen(fd)) \notin Left(fd)
<1>1. events[fd] \subseteq {"in", "out"}
  BY DEF TypeOK, Dirs
<1>2. CASE "in" \in events[fd]
  <2>1. \/ Chosen(fd) \in {"accept", "recv", "recvfrom"}
        \/ "out" \in events[fd] /\ Chosen(fd) = "connected"
    BY <1>2 DEF Chosen
  <2> QED
    BY <1>2, <2>1 DEF Operations, Uses, Left
<1>3. CASE "in" \notin events[fd]
  <2>1. "out" \in events[fd] /\ Chosen(fd) \in {"connected", "send"}
    BY <1>1, <1>3 DEF Chosen
  <2> QED
    BY <2>1 DEF Operations, Uses, Left
<1> QED
  BY <1>2, <1>3

\* Skipped, performed and left for the next round: no event is added, and the
\* one whose end is to be stored is taken out.
LEMMA HandleInv ==
  ASSUME IInv, NEW fd \in Fds, Skip(fd) \/ Perform(fd) \/ Repost
  PROVE  IInv'
<1> USE DEF requestVars, doneVars, epollVars
<1>1. /\ io = "handling"
      /\ UNCHANGED requestVars /\ UNCHANGED doneVars /\ UNCHANGED epollVars
      /\ UNCHANGED <<pending_tasks_, flying_tasks_, tasks>>
      /\ UNCHANGED <<sock, sort, arrived, writable, err>>
  BY DEF Skip, Perform, Repost, kernelVars
<1>2. CASE Repost
  <2>1. UNCHANGED <<events, cur, op, inbox>> /\ io' = "queued"
    BY <1>2 DEF Repost, kernelVars
  <2>2. TypeOK' /\ Arrived'
    BY <1>1, <2>1 DEF IInv, TypeOK, Arrived
  <2>3. Handling' /\ Asks'
    BY <1>1, <2>1 DEF Handling, Asks, IInv
  <2> QED
    BY <1>1, <2>2, <2>3, SameRequests DEF IInv
<1>3. CASE Skip(fd)
  <2>1. /\ UNCHANGED <<io, cur, op, inbox>>
        /\ events' = [events EXCEPT ![fd] = {}]
    BY <1>3 DEF Skip, kernelVars
  <2>2. TypeOK' /\ Arrived'
    BY <1>1, <2>1 DEF IInv, TypeOK, Arrived
  <2>3. \A f \in Fds : events'[f] \subseteq events[f]
    BY <2>1 DEF IInv, TypeOK
  <2>4. Handling' /\ Asks'
    BY <1>1, <2>1, <2>3 DEF Handling, Asks, IInv
  <2> QED
    BY <1>1, <2>2, <2>4, SameRequests DEF IInv
<1>4. CASE Perform(fd)
  <2>1. /\ events[fd] # {} /\ events' = [events EXCEPT ![fd] = Left(fd)]
        /\ \/ io' = "storing" /\ cur' = fd /\ op' = Chosen(fd)
           \/ UNCHANGED <<io, cur, op>>
        /\ \/ inbox' = inbox
           \/ inbox[fd] > 0 /\ inbox' = [inbox EXCEPT ![fd] = @ - 1]
    BY <1>4 DEF Perform
  <2>2. /\ Chosen(fd) \in Operations /\ Uses(Chosen(fd)) \in events[fd]
        /\ Left(fd) \subseteq events[fd] /\ Uses(Chosen(fd)) \notin Left(fd)
    BY <2>1, ChosenUses DEF IInv
  <2>3. /\ \A f \in Fds : events'[f] \subseteq events[f]
        /\ events' \in [Fds -> SUBSET Dirs]
        /\ events'[fd] = Left(fd)
    <3>1. events \in [Fds -> SUBSET Dirs]
      BY DEF IInv, TypeOK
    <3> QED
      BY <2>1, <2>2, <3>1
  <2>4. inbox' \in [Fds -> 0..MaxChunks] /\ Arrived'
    <3>1. /\ inbox \in [Fds -> 0..MaxChunks] /\ MaxChunks \in Nat
          /\ arrived \in [Fds -> 0..MaxChunks]
          /\ \A f \in Fds : inbox[f] <= arrived[f]
      BY EpollAssumption DEF IInv, TypeOK, Arrived
    <3>2. inbox[fd] > 0 => /\ inbox[fd] - 1 \in 0..MaxChunks
                           /\ inbox[fd] - 1 <= arrived[fd]
      BY <3>1
    <3> QED
      BY <1>1, <2>1, <3>1, <3>2 DEF Arrived
  <2>5. TypeOK'
    BY <1>1, <2>1, <2>2, <2>3, <2>4 DEF IInv, TypeOK
  <2>6. Handling'
    <3>1. /\ \A f \in Fds : events[f] \subseteq flying_tasks_[f].events
          /\ io' \in {"handling", "storing"}
      BY <1>1, <2>1 DEF IInv, Handling
    <3>2. io' = "storing" => cur' = fd /\ op' = Chosen(fd)
      BY <1>1, <2>1
    <3> QED
      BY <1>1, <2>2, <2>3, <3>1, <3>2 DEF Handling
  <2>7. Asks'
    BY <1>1 DEF IInv, Asks
  <2> QED
    BY <1>1, <2>4, <2>5, <2>6, <2>7, SameRequests DEF IInv
<1> QED
  BY <1>2, <1>3, <1>4

\* The end of a request: its event is no longer in flight, and if its callback
\* is queued that is for the first time.
LEMMA StoreInv ==
  ASSUME IInv, Store
  PROVE  IInv'
<1> USE DEF requestVars, kernelVars
<1>1. PICK c \in Fds, d \in Dirs :
        /\ c = cur /\ d = Uses(op)
        /\ d \in flying_tasks_[c].events /\ d \notin events[c]
  BY DEF Store, IInv, Handling, Uses, Dirs
<1>2. PICK t \in EpollTask : t = flying_tasks_[c]
  BY <1>1 DEF IInv, TypeOK
<1>3. Open(t.item[d], c, d)
  BY <1>1, <1>2 DEF IInv, Maps, Opens
<1>4. PICK q \in Reqs : /\ q = t.item[d] /\ Open(q, c, d)
  <2>1. t.item[d] \in 1..nreq /\ 1..nreq \subseteq Reqs
    BY <1>3, EpollAssumption DEF Open, IInv, TypeOK, Reqs
  <2> QED
    BY <1>3, <2>1
<1>5. /\ io = "storing" /\ io' = "handling" /\ cur' = 0 /\ op' = "none"
      /\ flying_tasks_' = [flying_tasks_ EXCEPT
                             ![c] = [t EXCEPT !.events = t.events \ {d}]]
      /\ UNCHANGED requestVars /\ UNCHANGED kernelVars
      /\ UNCHANGED <<pending_tasks_, tasks, events, called, added>>
      /\ \/ /\ c \in added
            /\ interest' = [interest EXCEPT ![c] = t.events \ {d}]
            /\ completed_task_' = Append(completed_task_, q)
            /\ via' = [via EXCEPT ![q] = op]
         \/ c \notin added /\ UNCHANGED <<interest, completed_task_, via>>
      /\ crashed' = crashed
  <2>1. flying_tasks_' = [flying_tasks_ EXCEPT
                            ![c] = [t EXCEPT !.events = t.events \ {d}]]
    BY <1>1, <1>2 DEF Store, IInv, TypeOK
  <2>2. flying_tasks_'[c].events = t.events \ {d}
    BY <1>1, <1>2, <2>1 DEF IInv, TypeOK, EpollTask
  <2> QED
    BY <1>1, <1>2, <1>4, <2>1, <2>2 DEF Store
<1>6. PICK u \in EpollTask : /\ u = [t EXCEPT !.events = t.events \ {d}]
                             /\ u.events = t.events \ {d} /\ u.item = t.item
                             /\ u.action = t.action
  <2> DEFINE v == [action |-> t.action, events |-> t.events \ {d}, item |-> t.item]
  <2>1. /\ t = [action |-> t.action, events |-> t.events, item |-> t.item]
        /\ v \in EpollTask
    BY TaskParts DEF EpollTask
  <2>2. [t EXCEPT !.events = t.events \ {d}] = v
    BY <2>1
  <2> QED
    BY <2>1, <2>2
<1>7. /\ flying_tasks_' = [flying_tasks_ EXCEPT ![c] = u]
      /\ \A f \in Fds : flying_tasks_'[f] = IF f = c THEN u ELSE flying_tasks_[f]
      /\ flying_tasks_' \in [Fds -> EpollTask]
  BY <1>1, <1>5, <1>6 DEF IInv, TypeOK
<1>8. q \notin Done /\ q \in 1..nreq /\ q \notin returned
      /\ of[q] = c /\ Dir(kind[q]) = d
  BY <1>4 DEF Open
<1>9. /\ completed_task_' \in Seq(Reqs) /\ IsInjective(completed_task_')
      /\ Range(completed_task_') \subseteq Range(completed_task_) \union {q}
      /\ Done \subseteq Done' /\ Done' \subseteq Done \union {q}
  <2>1. completed_task_ \in Seq(Reqs) /\ IsInjective(completed_task_)
    BY DEF IInv, TypeOK, QueuedOnce
  <2>2. /\ Append(completed_task_, q) \in Seq(Reqs)
        /\ Range(Append(completed_task_, q)) = Range(completed_task_) \union {q}
        /\ IsInjective(Append(completed_task_, q))
    BY <1>8, <2>1, AppendRange DEF Done
  <2> QED
    BY <1>5, <2>1, <2>2 DEF Done
<1>10. TypeOK'
  <2>1. interest' \in [Fds -> SUBSET Dirs]
    <3>1. interest \in [Fds -> SUBSET Dirs] /\ t.events \ {d} \in SUBSET Dirs
      BY TaskParts DEF IInv, TypeOK
    <3>2. \/ interest' = interest
          \/ interest' = [interest EXCEPT ![c] = t.events \ {d}]
      BY <1>5
    <3> QED
      BY <3>1, <3>2
  <2>2. via' \in [Reqs -> Operations \union {"none"}]
    BY <1>5 DEF IInv, TypeOK
  <2> QED
    BY <1>5, <1>7, <1>9, <2>1, <2>2 DEF IInv, TypeOK
<1>11. \A p, f, e : Open(p, f, e) /\ p # q => Open(p, f, e)'
  BY <1>5, <1>9 DEF Open
<1>12. ASSUME NEW f \in Fds, NEW e \in Dirs, NEW p, Open(p, f, e),
              f # c \/ e # d
       PROVE  p # q
  BY <1>8, <1>12 DEF Open
<1>13. \A v : Known(v) => Known(v)'
  BY <1>5 DEF Known
<1>14. ASSUME NEW f \in Fds, NEW v \in EpollTask, Opens(v, f), f # c
       PROVE  Opens(v, f)'
  <2>1. v.events \subseteq Dirs
    BY TaskParts
  <2> QED
    BY <1>11, <1>12, <1>14, <2>1 DEF Opens
<1>15. ASSUME NEW v \in EpollTask, Opens(v, c), Older(t, v)
       PROVE  Opens(v, c)'
  <2> SUFFICES ASSUME NEW e \in v.events
               PROVE  Open(v.item[e], c, e)'
    BY DEF Opens
  <2>1. e \in Dirs /\ Open(v.item[e], c, e)
    BY <1>15, TaskParts DEF Opens
  <2>2. CASE e = d
    <3>1. q < v.item[e]
      BY <1>4, <1>15, <2>2 DEF Older
    <3>2. v.item[e] # q
      BY <3>1 DEF Reqs
    <3> QED
      BY <1>11, <2>1, <3>2
  <2>3. CASE e # d
    BY <1>1, <1>11, <1>12, <2>1, <2>3
  <2> QED
    BY <2>2, <2>3
<1>16. Opens(u, c)'
  <2>1. Opens(t, c) /\ t.events \subseteq Dirs
    BY <1>1, <1>2, TaskParts DEF IInv, Maps
  <2> QED
    BY <1>1, <1>6, <1>11, <1>12, <2>1 DEF Opens
<1>17. Maps'
  <2> SUFFICES ASSUME NEW f \in Fds
               PROVE  /\ Opens(flying_tasks_[f], f)' /\ Known(flying_tasks_[f])'
                      /\ Opens(tasks[f], f)' /\ Known(tasks[f])'
                      /\ Opens(pending_tasks_[f], f)' /\ Known(pending_tasks_[f])'
                      /\ Older(flying_tasks_[f], tasks[f])'
                      /\ Older(flying_tasks_[f], pending_tasks_[f])'
                      /\ Older(tasks[f], pending_tasks_[f])'
    BY DEF Maps
  <2>1. /\ tasks[f] \in EpollTask /\ pending_tasks_[f] \in EpollTask
        /\ flying_tasks_[f] \in EpollTask
    BY DEF IInv, TypeOK
  <2>2. /\ Opens(flying_tasks_[f], f) /\ Known(flying_tasks_[f])
        /\ Opens(tasks[f], f) /\ Known(tasks[f])
        /\ Opens(pending_tasks_[f], f) /\ Known(pending_tasks_[f])
        /\ Older(flying_tasks_[f], tasks[f])
        /\ Older(flying_tasks_[f], pending_tasks_[f])
        /\ Older(tasks[f], pending_tasks_[f])
    BY DEF IInv, Maps
  <2>3. CASE f # c
    <3>1. /\ flying_tasks_'[f] = flying_tasks_[f]
          /\ tasks' = tasks /\ pending_tasks_' = pending_tasks_
      BY <1>5, <1>7, <2>3
    <3> QED
      BY <1>13, <1>14, <2>1, <2>2, <2>3, <3>1
  <2>4. CASE f = c
    <3>1. /\ flying_tasks_'[f] = u
          /\ tasks' = tasks /\ pending_tasks_' = pending_tasks_
      BY <1>5, <1>7, <2>4
    <3>2. Known(u)' /\ \A v : Older(t, v) => Older(u, v)
      BY <1>2, <1>6, <1>13, <2>2, <2>4 DEF Known, Older
    <3> QED
      BY <1>2, <1>13, <1>15, <1>16, <2>1, <2>2, <2>4, <3>1, <3>2
  <2> QED
    BY <2>3, <2>4
<1>18. AllFresh' /\ Arrived'
  BY <1>5 DEF IInv, AllFresh, Fresh, Arrived
<1>19. Asks'
  <2> SUFFICES ASSUME NEW f \in Fds, f \in added
               PROVE  /\ interest'[f] \subseteq flying_tasks_'[f].events
                      /\ flying_tasks_'[f].events # {} => interest'[f] # {}
    BY <1>5 DEF Asks, IInv, TypeOK
  <2>1. CASE f = c
    <3>1. interest'[f] = u.events
      BY <1>5, <1>6, <2>1 DEF IInv, TypeOK
    <3> QED
      BY <1>7, <2>1, <3>1
  <2>2. CASE f # c
    <3>1. interest'[f] = interest[f]
      BY <1>5, <2>2 DEF IInv, TypeOK
    <3> QED
      BY <1>7, <2>2, <3>1 DEF IInv, Asks
  <2> QED
    BY <2>1, <2>2
<1>20. Handling'
  <2>1. \A f \in Fds : events[f] \subseteq flying_tasks_[f].events
    BY <1>5 DEF IInv, Handling
  <2>2. \A f \in Fds : events[f] \subseteq flying_tasks_'[f].events
    BY <1>1, <1>2, <1>6, <1>7, <2>1
  <2> QED
    BY <1>5, <2>2 DEF Handling
<1>21. QueuedOnce'
  BY <1>5, <1>8, <1>9 DEF IInv, QueuedOnce, Done
<1> QED
  BY <1>10, <1>17, <1>18, <1>19, <1>20, <1>21 DEF IInv

LEMMA CallbackInv ==
  ASSUME IInv, RunCallback
  PROVE  IInv'
<1> USE DEF requestVars, epollVars, kernelVars, ioVars
<1>1. /\ completed_task_ # <<>>
      /\ UNCHANGED requestVars /\ UNCHANGED ioVars /\ UNCHANGED epollVars
      /\ UNCHANGED kernelVars
      /\ UNCHANGED <<pending_tasks_, flying_tasks_, via>>
  BY DEF RunCallback
<1>2. /\ Head(completed_task_) \in Reqs /\ Tail(completed_task_) \in Seq(Reqs)
      /\ Range(completed_task_) =
           {Head(completed_task_)} \union Range(Tail(completed_task_))
      /\ IsInjective(Tail(completed_task_))
      /\ Head(completed_task_) \notin Range(Tail(completed_task_))
  BY <1>1, HeadTailRange DEF IInv, TypeOK, QueuedOnce
<1>3. \/ /\ completed_task_' = Tail(completed_task_)
         /\ called' = called \union {Head(completed_task_)}
         /\ crashed' = crashed
      \/ /\ completed_task_' = completed_task_ /\ called' = called
         /\ crashed' = Head(completed_task_)
  BY DEF RunCallback
<1>4. TypeOK'
  <2>1. crashed' \in 0..MaxReqs
    BY <1>2, <1>3 DEF IInv, TypeOK, Reqs
  <2> QED
    BY <1>1, <1>2, <1>3, <2>1 DEF IInv, TypeOK
<1>5. Done' = Done
  BY <1>2, <1>3 DEF Done
<1>6. Maps'
  BY <1>1, <1>5 DEF IInv, Maps, Opens, Open, Known, Older
<1>7. AllFresh' /\ Arrived' /\ Asks' /\ Handling'
  BY <1>1 DEF IInv, AllFresh, Fresh, Arrived, Asks, Handling
<1>8. QueuedOnce'
  BY <1>1, <1>2, <1>3, <1>5 DEF IInv, QueuedOnce
<1> QED
  BY <1>4, <1>6, <1>7, <1>8 DEF IInv

LEMMA NextInv == IInv /\ [Next]_vars => IInv'
<1> SUFFICES ASSUME IInv, [Next]_vars PROVE IInv'
  OBVIOUS
<1>1. CASE Submit
  BY <1>1, SubmitIs, SubmitInv
<1>2. CASE start \/ Kernel \/ (\E fd \in Fds : Close(fd)) \/ UNCHANGED vars
  BY <1>2, QuietInv
<1>3. CASE get_pending_tasks \/ Poll \/ Store
  BY <1>3, GetInv, PollInv, StoreInv
<1>4. CASE Repost
  <2>1. CASE Fds = {}
    <3>1. /\ UNCHANGED requestVars /\ UNCHANGED doneVars /\ UNCHANGED epollVars
          /\ UNCHANGED <<pending_tasks_, flying_tasks_, tasks, events, cur, op>>
          /\ UNCHANGED kernelVars /\ io' = "queued"
      BY <1>4 DEF Repost
    <3>2. TypeOK' /\ Arrived' /\ Asks' /\ Handling'
      BY <3>1 DEF IInv, TypeOK, Arrived, Asks, Handling, requestVars, doneVars,
                  epollVars, kernelVars
    <3> QED
      BY <3>1, <3>2, SameRequests DEF IInv, kernelVars
  <2>2. CASE Fds # {}
    BY <1>4, <2>2, HandleInv
  <2> QED
    BY <2>1, <2>2
<1>5. CASE \E fd \in Fds : Skip(fd) \/ Perform(fd)
  BY <1>5, HandleInv
<1>6. CASE RunCallback
  BY <1>6, CallbackInv
<1> QED
  BY <1>1, <1>2, <1>3, <1>4, <1>5, <1>6 DEF Next, do_io

\* The inductive invariant holds in every reachable state.
THEOREM Invariance == Spec => []IInv
  BY InitInv, NextInv, PTL DEF Spec

\* Every variable of Epoll keeps its type.
THEOREM TypeCorrect == Spec => []TypeOK
  BY Invariance, PTL DEF IInv

\* Whatever is merged, replaced and closed, epoll waits for events in flight
\* only, and each of those belongs to a request that is not done.
THEOREM NothingInVain == Spec => []InFlight
<1>1. IInv => InFlight
  <2> SUFFICES ASSUME IInv, NEW f \in added
               PROVE  /\ interest[f] \subseteq flying_tasks_[f].events
                      /\ flying_tasks_[f].events # {} => interest[f] # {}
                      /\ \A d \in flying_tasks_[f].events :
                           /\ flying_tasks_[f].item[d] # 0
                           /\ flying_tasks_[f].item[d] \notin
                                Range(completed_task_) \union called
    BY DEF InFlight
  <2>1. Opens(flying_tasks_[f], f)
    BY DEF IInv, TypeOK, Maps
  <2>2. ASSUME NEW d \in flying_tasks_[f].events
        PROVE  /\ flying_tasks_[f].item[d] # 0
               /\ flying_tasks_[f].item[d] \notin
                    Range(completed_task_) \union called
    <3>1. Open(flying_tasks_[f].item[d], f, d)
      BY <2>1 DEF Opens
    <3> QED
      BY <3>1 DEF Open, Done, IInv, TypeOK
  <2> QED
    BY <2>2 DEF IInv, Asks
<1> QED
  BY <1>1, Invariance, PTL

-----------------------------------------------------------------------------
(* Epoll implements ProactorSpec.                                           *)

absStatus == [q \in Reqs |-> Status(q)]

\* No request is completed twice, so that the worst status never shows.
LEMMA NotTwice == IInv => \A q \in Reqs : ~Twice(q)
<1> SUFFICES ASSUME IInv, NEW q \in Reqs PROVE ~Twice(q)
  OBVIOUS
<1> DEFINE places == {i \in DOMAIN completed_task_ : completed_task_[i] = q}
           ran == {q} \intersect called
<1>1. \/ places = {} \/ ran = {}
  BY DEF IInv, QueuedOnce, Range
<1>2. places = {} \/ \E i : places = {i}
  <2>1. \A i, j \in places : i = j
    BY DEF IInv, QueuedOnce, IsInjective
  <2> QED
    BY <2>1
<1>3. ran = {} \/ ran = {q}
  OBVIOUS
<1>4. /\ Cardinality({}) = 0
      /\ \A i : Cardinality({i}) = 1
  BY FS_EmptySet, FS_Singleton
<1> HIDE DEF places, ran
<1>5. /\ places = {} => Cardinality(places) = 0
      /\ ran = {} => Cardinality(ran) = 0
      /\ Cardinality(places) \in {0, 1}
      /\ Cardinality(ran) \in {0, 1}
  <2>1. CASE places = {}
    BY <1>3, <1>4, <2>1
  <2>2. ASSUME NEW i, places = {i} PROVE Cardinality(places) = 1 /\ places # {}
    BY <1>4, <2>2
  <2> QED
    BY <1>2, <1>3, <1>4, <2>1, <2>2
<1>6. ~(Cardinality(places) + Cardinality(ran) > 1)
  BY <1>1, <1>5
<1> QED
  BY <1>6 DEF Twice, places, ran

LEMMA NotTwiceNext == IInv' => (\A q \in Reqs : ~Twice(q))'
  BY NotTwice, PTL

\* Status, and its value after a step, by the sets a request is in.
LEMMA StatusIs ==
  ASSUME IInv, IInv', NEW q \in Reqs
  PROVE  /\ Status(q) =  IF q \in Range(completed_task_) THEN "completed" ELSE
                         IF q \in called THEN "called" ELSE
                         IF q \in returned THEN "returned" ELSE
                         IF q \in 1..nreq THEN "pending" ELSE "idle"
         /\ Status(q)' = IF q \in Range(completed_task_)' THEN "completed" ELSE
                         IF q \in called' THEN "called" ELSE
                         IF q \in returned' THEN "returned" ELSE
                         IF q \in 1..nreq' THEN "pending" ELSE "idle"
  BY NotTwice, NotTwiceNext DEF Status

LEMMA InitRefines == Init => Abstract!Init
<1> SUFFICES ASSUME Init, NEW q \in Reqs PROVE Status(q) = "idle"
  BY DEF Abstract!Init
<1>1. ~Twice(q)
  BY InitInv, NotTwice
<1> QED
  BY <1>1, EmptyRange, EpollAssumption DEF Init, Status

LEMMA SubmitRefines ==
  ASSUME IInv, IInv', Submit
  PROVE  \E q \in Reqs : Abstract!Submit(q) \/ Abstract!Answer(q)
<1>1. PICK fd \in Fds, k \in Action :
        /\ Answer(fd, k) \/ Extend(fd, k) \/ Replace(fd, k)
        /\ UNCHANGED doneVars
  BY SubmitIs
<1>2. Number(fd, k)
  BY <1>1 DEF Answer, Extend, Replace
<1>3. PICK q \in Reqs : q = nreq + 1
  BY <1>2, NumberParts
<1>4. /\ nreq' = q /\ q \notin 1..nreq /\ 1..q = 1..nreq \union {q}
      /\ UNCHANGED <<called, completed_task_>>
  BY <1>1, <1>2, <1>3, NumberParts DEF doneVars
<1>5. q \notin Range(completed_task_) /\ q \notin called /\ q \notin returned
  BY <1>4 DEF IInv, QueuedOnce, Done
<1>6. absStatus[q] = "idle"
  BY <1>4, <1>5, StatusIs DEF absStatus
<1>7. CASE returned' = returned
  <2>1. absStatus' = [absStatus EXCEPT ![q] = "pending"]
    BY <1>4, <1>5, <1>7, StatusIs DEF absStatus
  <2> QED
    BY <1>6, <2>1 DEF Abstract!Submit, Abstract!Move, absStatus
<1>8. CASE returned' = returned \union {q}
  <2>1. absStatus' = [absStatus EXCEPT ![q] = "returned"]
    BY <1>4, <1>5, <1>8, StatusIs DEF absStatus
  <2> QED
    BY <1>6, <2>1 DEF Abstract!Answer, Abstract!Move, absStatus
<1> QED
  BY <1>1, <1>3, <1>7, <1>8 DEF Answer, Extend, Replace

\* Store completes a request that was pending, or changes no status.
LEMMA StoreRefines ==
  ASSUME IInv, IInv', Store
  PROVE  (\E q \in Reqs : Abstract!Complete(q)) \/ absStatus' = absStatus
<1>1. UNCHANGED <<nreq, returned, called>>
  BY DEF Store, requestVars
<1>2. CASE completed_task_' = completed_task_
  BY <1>1, <1>2, StatusIs DEF absStatus
<1>3. CASE completed_task_' # completed_task_
  <2>1. /\ cur \in Fds /\ Uses(op) \in flying_tasks_[cur].events
        /\ completed_task_' = Append(completed_task_, flying_tasks_[cur].item[Uses(op)])
    BY <1>3 DEF Store, IInv, Handling
  <2>2. PICK q : /\ q = flying_tasks_[cur].item[Uses(op)]
                 /\ Open(q, cur, Uses(op))
    BY <2>1 DEF IInv, Maps, Opens
  <2>3. q \in Reqs
    BY <2>2, EpollAssumption DEF Open, IInv, TypeOK, Reqs
  <2>4. q \in 1..nreq /\ q \notin Done /\ q \notin returned
    BY <2>2 DEF Open
  <2>5. Range(completed_task_)' = Range(completed_task_) \union {q}
    BY <2>1, <2>2, <2>3, AppendRange DEF IInv, TypeOK
  <2>6. absStatus[q] = "pending"
    BY <2>3, <2>4, StatusIs DEF absStatus, Done
  <2>7. absStatus' = [absStatus EXCEPT ![q] = "completed"]
    BY <1>1, <2>3, <2>4, <2>5, StatusIs DEF absStatus, Done
  <2> QED
    BY <2>3, <2>6, <2>7 DEF Abstract!Complete, Abstract!Move, absStatus
<1> QED
  BY <1>2, <1>3

LEMMA CallRefines ==
  ASSUME IInv, IInv', RunCallback
  PROVE  (\E q \in Reqs : Abstract!Call(q)) \/ absStatus' = absStatus
<1> SUFFICES ASSUME ~UNCHANGED <<called, completed_task_>>
             PROVE  \E q \in Reqs : Abstract!Call(q)
  BY StatusIs DEF RunCallback, requestVars, absStatus
<1>1. /\ completed_task_ # <<>> /\ completed_task_' = Tail(completed_task_)
      /\ called' = called \union {Head(completed_task_)}
      /\ UNCHANGED <<nreq, returned>>
  BY DEF RunCallback, requestVars
<1>2. PICK q \in Reqs : q = Head(completed_task_)
  BY <1>1, HeadTailRange DEF IInv, TypeOK
<1>3. /\ q \in Range(completed_task_)
      /\ Range(completed_task_)' = Range(completed_task_) \ {q}
  BY <1>1, <1>2, HeadTailRange DEF IInv, TypeOK, QueuedOnce
<1>4. absStatus[q] = "completed"
  BY <1>3, StatusIs DEF absStatus
<1>5. absStatus' = [absStatus EXCEPT ![q] = "called"]
  BY <1>1, <1>2, <1>3, StatusIs DEF absStatus
<1>6. Abstract!Call(q)
  BY <1>4, <1>5 DEF Abstract!Call, Abstract!Move, absStatus
<1> QED
  BY <1>6

\* Each step of Epoll is a step of ProactorSpec or changes no status.
LEMMA StepRefines == IInv /\ IInv' /\ [Next]_vars => [Abstract!Next]_absStatus
<1> SUFFICES ASSUME IInv, IInv', [Next]_vars
             PROVE  Abstract!Next \/ absStatus' = absStatus
  OBVIOUS
<1>1. CASE Submit
  BY <1>1, SubmitRefines DEF Abstract!Next
<1>2. CASE Store
  BY <1>2, StoreRefines DEF Abstract!Next
<1>3. CASE RunCallback
  BY <1>3, CallRefines DEF Abstract!Next
<1>4. CASE \/ start \/ Kernel \/ (\E fd \in Fds : Close(fd)) \/ UNCHANGED vars
           \/ get_pending_tasks \/ Poll \/ Repost
           \/ (\E fd \in Fds : Skip(fd) \/ Perform(fd))
  <2>1. UNCHANGED requestVars /\ UNCHANGED doneVars
    BY <1>4 DEF start, Kernel, Close, get_pending_tasks, Poll, Repost, Skip,
                Perform, vars, requestVars, doneVars
  <2>2. UNCHANGED <<nreq, returned, called, completed_task_>>
    BY <2>1 DEF requestVars, doneVars
  <2> QED
    BY <2>2, StatusIs DEF absStatus
<1> QED
  BY <1>1, <1>2, <1>3, <1>4 DEF Next, do_io

\* Epoll implements ProactorSpec: a callback runs once, after its operation,
\* and never for a request that was answered by the call itself.
THEOREM Implementation == Spec => ImplementsProactor
<1>1. Init => Abstract!Init
  BY InitRefines
<1>2. IInv /\ IInv' /\ [Next]_vars => [Abstract!Next]_absStatus
  BY StepRefines
<1> QED
  BY <1>1, <1>2, Invariance, PTL
     DEF Spec, ImplementsProactor, Abstract!Spec, absStatus

-----------------------------------------------------------------------------
(* Which operation completes a request: flags outlive the requests they came *)
(* with, so each is traced back to an older request on the same fd.         *)

KindsFit == \A q \in 1..nreq : of[q] \in Fds /\ kind[q] \in Calls(sort[of[q]])

\* Request p, of kind k, is on f.
Was(p, f, k) == of[p] = f /\ kind[p] = k

\* The flags Recv and Connect of a task come from a request no newer than the
\* one it waits with.
Traced(t, f) ==
    /\ "Recv" \in t.action /\ sort[f] # "listen" =>
         \E p \in 1..t.item["in"] : Was(p, f, "Recv")
    /\ "Connect" \in t.action =>
         \E p \in 1..t.item["out"] : Was(p, f, "Connect")
    /\ "Accept" \in t.action => sort[f] = "listen"

\* A task that is not in flight has the flags of its requests.
Flagged(t) == \A d \in t.events : kind[t.item[d]] \in t.action

\* A task in flight has the flag Recv for a Recv, the flag Accept if its socket
\* listens, and the flag Connect unless an older request made the fd known.
InFlightFlagged(t, f) ==
    /\ "in" \in t.events /\ kind[t.item["in"]] = "Recv" => "Recv" \in t.action
    /\ sort[f] = "listen" /\ t # NoTask => "Accept" \in t.action
    /\ /\ "out" \in t.events /\ kind[t.item["out"]] = "Connect"
       /\ "Connect" \notin t.action
       => \E p \in 1..nreq : /\ p < t.item["out"] /\ of[p] = f
                             /\ kind[p] # "Connect"
KnownBefore(f) ==
    flying_tasks_[f] # NoTask /\ "Connect" \notin flying_tasks_[f].action =>
        \E p \in 1..nreq :
            /\ of[p] = f /\ kind[p] # "Connect"
            /\ \A d \in tasks[f].events : p < tasks[f].item[d]
            /\ \A d \in pending_tasks_[f].events : p < pending_tasks_[f].item[d]

\* The operation performed was chosen by the flags.
Fits(t, o) ==
    /\ o = "accept" => "Accept" \in t.action
    /\ o = "connected" => "Connect" \in t.action
    /\ o = "recv" => "Recv" \in t.action /\ "Accept" \notin t.action
    /\ o = "recvfrom" => "Recv" \notin t.action /\ "Accept" \notin t.action
    /\ o = "send" => "Connect" \notin t.action

Remembered(f) ==
    /\ Traced(flying_tasks_[f], f) /\ InFlightFlagged(flying_tasks_[f], f)
    /\ Traced(tasks[f], f) /\ Flagged(tasks[f])
    /\ Traced(pending_tasks_[f], f) /\ Flagged(pending_tasks_[f])
    /\ KnownBefore(f)

Suits ==
    /\ KindsFit
    /\ \A f \in Fds : Remembered(f)
    /\ io = "storing" => Fits(flying_tasks_[cur], op)
    /\ \A q \in Reqs : via[q] # "none" => q \in 1..nreq
    /\ OwnOperation

\* A step that submits, moves and completes nothing.
LEMMA SameSuits ==
  ASSUME Suits, UNCHANGED requestVars, sort' = sort, via' = via,
         UNCHANGED <<pending_tasks_, flying_tasks_, tasks>>,
         io' = "storing" => Fits(flying_tasks_[cur], op)'
  PROVE  Suits'
<1> USE DEF requestVars
<1>1. KindsFit' /\ OwnOperation'
  BY DEF Suits, KindsFit, OwnOperation
<1>2. \A f \in Fds : Remembered(f)'
  BY DEF Suits, Remembered, Traced, Was, InFlightFlagged, Flagged, KnownBefore
<1> QED
  BY <1>1, <1>2 DEF Suits

LEMMA InitSuits == Init => Suits
<1> SUFFICES ASSUME Init PROVE Suits
  OBVIOUS
<1>1. nreq = 0 /\ 1..nreq = {}
  BY DEF Init
<1>2. \A f : /\ Traced(NoTask, f) /\ Flagged(NoTask)
             /\ InFlightFlagged(NoTask, f)
  BY NoTaskParts DEF Traced, Flagged, InFlightFlagged
<1>3. \A f \in Fds : Remembered(f)
  BY <1>2 DEF Init, Remembered, KnownBefore
<1>4. KindsFit /\ OwnOperation
  BY <1>1 DEF Init, KindsFit, OwnOperation
<1> QED
  BY <1>1, <1>3, <1>4 DEF Init, Suits

\* The numbers of the requests before a given one mean what they meant.
LEMMA SubmitSuits ==
  ASSUME IInv, Suits, NEW fd \in Fds, NEW k,
         Answer(fd, k) \/ Extend(fd, k) \/ Replace(fd, k),
         UNCHANGED <<flying_tasks_, ioVars, doneVars, epollVars, kernelVars>>
  PROVE  Suits'
<1>0. Number(fd, k)
  BY DEF Answer, Extend, Replace
<1>1. PICK q \in Reqs : q = nreq + 1
  BY <1>0, NumberParts
<1>2. /\ nreq \in Nat /\ nreq' = q /\ q > nreq /\ q \notin 1..nreq
      /\ 1..q = 1..nreq \union {q}
      /\ k \in Action /\ k \in Calls(sort[fd])
      /\ kind' = [kind EXCEPT ![q] = k] /\ of' = [of EXCEPT ![q] = fd]
      /\ UNCHANGED <<flying_tasks_, tasks, io, cur, op, via, sort>>
  BY <1>0, <1>1, NumberParts DEF ioVars, doneVars, kernelVars
<1>3. /\ \A p \in Reqs : kind'[p] = IF p = q THEN k ELSE kind[p]
      /\ \A p \in Reqs : of'[p] = IF p = q THEN fd ELSE of[p]
      /\ 1..nreq \subseteq Reqs
  BY <1>1, <1>2, EpollAssumption DEF IInv, TypeOK, Reqs
<1>4. \A p \in 1..nreq : kind'[p] = kind[p] /\ of'[p] = of[p] /\ p \in 1..q
  BY <1>2, <1>3
<1>5. KindsFit'
  BY <1>2, <1>3, <1>4 DEF Suits, KindsFit
<1>6. OwnOperation'
  <2> SUFFICES ASSUME NEW p \in Reqs, via[p] # "none"
               PROVE  LET before == {kind'[r] : r \in {r \in 1..p : of'[r] = of'[p]}}
                      IN  \/ via[p] = Own(kind'[p])
                          \/ kind'[p] = "Send" /\ via[p] = "connected"
                             /\ "Connect" \in before
                          \/ kind'[p] = "Connect" /\ via[p] = "send"
                             /\ Cardinality(before) > 1
                          \/ kind'[p] = "Recvfrom" /\ via[p] = "recv"
                             /\ "Recv" \in before
    BY <1>2 DEF OwnOperation
  <2>1. p \in 1..nreq
    BY DEF Suits
  <2>2. \A r \in 1..p : r \in 1..nreq
    BY <1>2, <2>1
  <2>3. {kind'[r] : r \in {r \in 1..p : of'[r] = of'[p]}}
          = {kind[r] : r \in {r \in 1..p : of[r] = of[p]}}
    BY <1>4, <2>1, <2>2
  <2> QED
    BY <1>4, <2>1, <2>3 DEF Suits, OwnOperation
<1>7. \A p \in Reqs : via'[p] # "none" => p \in 1..nreq'
  BY <1>2 DEF Suits
<1>8. ASSUME NEW t \in EpollTask, NEW f \in Fds, Known(t)
      PROVE  /\ Traced(t, f) => Traced(t, f)'
             /\ Opens(t, f) /\ Flagged(t) => Flagged(t)'
             /\ Opens(t, f) /\ InFlightFlagged(t, f) => InFlightFlagged(t, f)'
  <2>1. \A d \in Dirs : \A p \in 1..t.item[d] : p \in 1..nreq
    BY <1>2, <1>8 DEF Known
  <2>2. "in" \in Dirs /\ "out" \in Dirs
    BY DEF Dirs
  <2>3. \A p \in 1..nreq : \A j : Was(p, f, j) => Was(p, f, j)'
    BY <1>4 DEF Was
  <2>4. Traced(t, f) => Traced(t, f)'
    BY <1>2, <2>1, <2>2, <2>3 DEF Traced
  <2>5. Opens(t, f) => \A d \in t.events : kind'[t.item[d]] = kind[t.item[d]]
    BY <1>4 DEF Opens, Open
  <2>6. Opens(t, f) /\ InFlightFlagged(t, f) => InFlightFlagged(t, f)'
    BY <1>2, <1>4, <2>5 DEF InFlightFlagged
  <2> QED
    BY <2>4, <2>5, <2>6 DEF Flagged
<1>9. ASSUME NEW f \in Fds
      PROVE  /\ Traced(flying_tasks_[f], f)'
             /\ InFlightFlagged(flying_tasks_[f], f)'
             /\ Traced(tasks[f], f)' /\ Flagged(tasks[f])'
  <2>1. /\ flying_tasks_[f] \in EpollTask /\ tasks[f] \in EpollTask
        /\ Known(flying_tasks_[f]) /\ Opens(flying_tasks_[f], f)
        /\ Known(tasks[f]) /\ Opens(tasks[f], f)
    BY DEF IInv, TypeOK, Maps
  <2>2. Remembered(f)
    BY DEF Suits
  <2> QED
    BY <1>2, <1>8, <2>1, <2>2 DEF Remembered
<1>10. ASSUME NEW f \in Fds, pending_tasks_'[f] = pending_tasks_[f]
       PROVE  Remembered(f)'
  <2>1. /\ pending_tasks_[f] \in EpollTask
        /\ Known(pending_tasks_[f]) /\ Opens(pending_tasks_[f], f)
    BY DEF IInv, TypeOK, Maps
  <2>2. Remembered(f)
    BY DEF Suits
  <2>3. Traced(pending_tasks_[f], f)' /\ Flagged(pending_tasks_[f])'
    BY <1>8, <1>10, <2>1, <2>2 DEF Remembered
  <2>4. KnownBefore(f)'
    BY <1>2, <1>4, <1>10, <2>2 DEF Remembered, KnownBefore
  <2> QED
    BY <1>9, <2>3, <2>4 DEF Remembered
<1>11. \A f \in Fds : Remembered(f)'
  <2>1. CASE Answer(fd, k)
    BY <1>10, <2>1 DEF Answer
  <2>2. CASE Extend(fd, k) \/ Replace(fd, k)
    <3>1. PICK t \in EpollTask : t = pending_tasks_[fd]
      BY DEF IInv, TypeOK
    <3>2. PICK n : /\ pending_tasks_' = [pending_tasks_ EXCEPT ![fd] = n]
                   /\ \/ n = [action |-> t.action \union {k},
                              events |-> t.events \union {Dir(k)},
                              item |-> [t.item EXCEPT ![Dir(k)] = q]]
                      \/ n = [action |-> {k}, events |-> {Dir(k)},
                              item |-> [NoItems EXCEPT ![Dir(k)] = q]]
      BY <1>1, <2>2, <3>1 DEF Extend, Replace, IInv, TypeOK
    <3>3. /\ n \in EpollTask
          /\ n.item[Dir(k)] = q
          /\ \A d \in n.events \ {Dir(k)} : d \in t.events /\ n.item[d] = t.item[d]
          /\ \/ n.action = t.action \union {k} /\ n.events = t.events \union {Dir(k)}
             \/ n.action = {k} /\ n.events = {Dir(k)}
      BY <1>2, <3>2, NewTask
    <3>4. \A f \in Fds : pending_tasks_'[f] = IF f = fd THEN n ELSE pending_tasks_[f]
      BY <3>2 DEF IInv, TypeOK
    <3>5. /\ Known(t) /\ Opens(t, fd) /\ Traced(t, fd) /\ Flagged(t)
          /\ t.events = {Dir(j) : j \in t.action}
          /\ KnownBefore(fd)
      BY <3>1 DEF IInv, Maps, Suits, Remembered, AllFresh, Fresh
    <3>6. Traced(t, fd)' /\ Flagged(t)'
      BY <1>8, <3>5
    <3>7. Was(q, fd, k)' /\ kind'[q] = k
      BY <1>1, <1>3 DEF Was
    <3>8. \A d \in n.events : d # Dir(k) => n.item[d] = t.item[d] /\ d \in t.events
      BY <3>3
    <3>9. Flagged(n)'
      <4>1. n.action = t.action \union {k} \/ n.events = {Dir(k)}
        BY <3>3
      <4> QED
        BY <3>3, <3>6, <3>7, <3>8, <4>1 DEF Flagged
    <3>10. Traced(n, fd)'
      <4>1. \A d \in Dirs : t.item[d] \in 0..nreq
        BY <3>5 DEF Known
      <4>2. ASSUME NEW d \in Dirs, d \in n.events, n.item[d] = q \/ n.item[d] = t.item[d]
            PROVE  1..t.item[d] \subseteq 1..n.item[d]
        BY <1>2, <4>1, <4>2
      <4>3. ASSUME NEW j \in {"Recv", "Connect"}, j \in n.action,
                   j = "Recv" => sort[fd] # "listen"
            PROVE  \E p \in 1..n.item[Dir(j)] : Was(p, fd, j)'
        <5>1. CASE j = k
          <6>1. q \in 1..n.item[Dir(j)]
            BY <3>3, <5>1 DEF Reqs
          <6> QED
            BY <3>7, <5>1, <6>1
        <5>2. CASE j # k
          <6>1. j \in t.action /\ n.events = t.events \union {Dir(k)}
            BY <3>3, <4>3, <5>2
          <6>2. Dir(j) \in t.events /\ Dir(j) \in Dirs
            BY <3>5, <6>1, DirType
          <6>3. 1..t.item[Dir(j)] \subseteq 1..n.item[Dir(j)]
            BY <3>3, <3>8, <4>2, <6>1, <6>2
          <6>4. \E p \in 1..t.item[Dir(j)] : Was(p, fd, j)'
            <7>1. Dir("Recv") = "in" /\ Dir("Connect") = "out"
              BY DEF Dir
            <7> QED
              BY <1>2, <3>6, <4>3, <6>1, <7>1 DEF Traced
          <6> QED
            BY <6>3, <6>4
        <5> QED
          BY <5>1, <5>2
      <4>4. "Accept" \in n.action => sort[fd] = "listen"
        <5>1. k = "Accept" => sort[fd] = "listen"
          <6>1. sort[fd] \in {"stream", "dgram", "listen"}
            BY EpollAssumption DEF IInv, TypeOK
          <6> QED
            BY <1>2, <6>1 DEF Calls
        <5> QED
          BY <3>3, <3>5, <5>1 DEF Traced
      <4>5. Dir("Recv") = "in" /\ Dir("Connect") = "out"
        BY DEF Dir
      <4> QED
        BY <1>2, <4>3, <4>4, <4>5 DEF Traced
    <3>11. KnownBefore(fd)'
      <4>1. \A p \in 1..nreq :
              (\A d \in t.events : p < t.item[d]) => \A d \in n.events : p < n.item[d]
        <5>1. \A p \in 1..nreq : p < q
          BY <1>2
        <5> QED
          BY <3>3, <3>8, <5>1
      <4>2. pending_tasks_'[fd] = n
        BY <3>4
      <4> QED
        BY <1>2, <1>4, <3>1, <3>5, <4>1, <4>2 DEF KnownBefore
    <3>12. Remembered(fd)'
      <4>1. pending_tasks_'[fd] = n
        BY <3>4
      <4> QED
        BY <1>9, <3>9, <3>10, <3>11, <4>1 DEF Remembered
    <3> QED
      BY <1>10, <3>4, <3>12
  <2> QED
    BY <2>1, <2>2
<1> QED
  BY <1>2, <1>5, <1>6, <1>7, <1>11 DEF Suits, Fits

LEMMA GetSuits ==
  ASSUME IInv, Suits, get_pending_tasks
  PROVE  Suits'
<1>1. /\ tasks' = pending_tasks_ /\ pending_tasks_' = [f \in Fds |-> NoTask]
      /\ io' = "submitting"
      /\ UNCHANGED <<nreq, kind, of, flying_tasks_, via, sort>>
  BY DEF get_pending_tasks, requestVars, doneVars, kernelVars
<1>2. KindsFit' /\ OwnOperation'
  BY <1>1 DEF Suits, KindsFit, OwnOperation
<1>3. ASSUME NEW f \in Fds PROVE Remembered(f)'
  <2>1. Remembered(f) /\ pending_tasks_'[f] = NoTask /\ tasks'[f] = pending_tasks_[f]
    BY <1>1 DEF Suits
  <2>2. /\ Traced(flying_tasks_[f], f)' /\ InFlightFlagged(flying_tasks_[f], f)'
        /\ Traced(tasks[f], f)' /\ Flagged(tasks[f])'
    BY <1>1, <2>1 DEF Remembered, Traced, Was, InFlightFlagged, Flagged
  <2>3. Traced(pending_tasks_[f], f)' /\ Flagged(pending_tasks_[f])'
    BY <2>1, NoTaskParts DEF Traced, Flagged
  <2>4. KnownBefore(f)'
    BY <1>1, <2>1, NoTaskParts DEF Remembered, KnownBefore
  <2> QED
    BY <2>2, <2>3, <2>4 DEF Remembered
<1> QED
  BY <1>1, <1>2, <1>3 DEF Suits

\* The flags of a merged task are traced like those of its two parts.
LEMMA MergedSuits ==
  ASSUME IInv, Suits, NEW f \in Fds, NEW m,
         m = Merged(flying_tasks_[f], tasks[f])
  PROVE  /\ Traced(m, f) /\ InFlightFlagged(m, f)
         /\ m # NoTask /\ "Connect" \notin m.action =>
              \E p \in 1..nreq :
                 /\ of[p] = f /\ kind[p] # "Connect"
                 /\ \A d \in pending_tasks_[f].events :
                      p < pending_tasks_[f].item[d]
<1>1. PICK t \in EpollTask : t = flying_tasks_[f]
  BY DEF IInv, TypeOK
<1>2. PICK n \in EpollTask : n = tasks[f]
  BY DEF IInv, TypeOK
<1>3. /\ Traced(t, f) /\ InFlightFlagged(t, f) /\ Traced(n, f) /\ Flagged(n)
      /\ KnownBefore(f)
  BY <1>1, <1>2 DEF Suits, Remembered
<1>4. /\ n.action \subseteq Calls(sort[f])
      /\ n.events = {Dir(k) : k \in n.action}
      /\ n # NoTask => n.events # {}
      /\ sort[f] \in Sorts
  BY <1>2 DEF IInv, TypeOK, AllFresh, Fresh
<1>5. /\ Known(t) /\ Known(n) /\ Opens(n, f)
      /\ Older(t, n) /\ Older(n, pending_tasks_[f])
  BY <1>1, <1>2 DEF IInv, Maps
<1>6. CASE n = NoTask
  <2>1. m = t
    BY <1>1, <1>2, <1>6 DEF Merged
  <2> QED
    BY <1>1, <1>3, <2>1 DEF KnownBefore
<1>7. CASE n # NoTask /\ t = NoTask
  <2>1. m = n
    BY <1>1, <1>2, <1>7 DEF Merged
  <2>2. \A d \in n.events : kind[n.item[d]] \in n.action
    BY <1>3 DEF Flagged
  <2>3. sort[f] = "listen" => "Accept" \in n.action
    <3>1. \E k : k \in n.action
      BY <1>4, <1>7
    <3> QED
      BY <1>4, <3>1 DEF Calls
  <2>4. InFlightFlagged(n, f)
    BY <2>2, <2>3 DEF InFlightFlagged
  <2>5. ASSUME "Connect" \notin n.action
        PROVE  \E p \in 1..nreq :
                 /\ of[p] = f /\ kind[p] # "Connect"
                 /\ \A d \in pending_tasks_[f].events :
                      p < pending_tasks_[f].item[d]
    <3>1. PICK e \in n.events : TRUE
      BY <1>4, <1>7
    <3>2. /\ n.item[e] \in 1..nreq /\ of[n.item[e]] = f
          /\ kind[n.item[e]] # "Connect"
      BY <1>5, <2>2, <2>5, <3>1 DEF Opens, Open
    <3>3. \A d \in pending_tasks_[f].events : n.item[e] < pending_tasks_[f].item[d]
      BY <1>5, <3>1, TaskParts DEF Older
    <3> QED
      BY <3>2, <3>3
  <2> QED
    BY <1>3, <2>1, <2>4, <2>5
<1>8. CASE n # NoTask /\ t # NoTask
  <2> DEFINE dirs == n.events
  <2>1. {Dir(k) : k \in Flags(n)} = n.events
    BY <1>4, FlagsKeepEvents
  <2>2. m = [action |-> t.action \union Flags(n),
             events |-> t.events \union n.events,
             item |-> [d \in Dirs |-> IF d \in n.events THEN n.item[d]
                                                         ELSE t.item[d]]]
    BY <1>1, <1>2, <1>8, <2>1 DEF Merged
  <2>3. /\ m.action = t.action \union Flags(n)
        /\ m.events = t.events \union n.events
        /\ \A d \in Dirs : m.item[d] = IF d \in n.events THEN n.item[d]
                                                         ELSE t.item[d]
        /\ t.events \subseteq Dirs /\ n.events \subseteq Dirs
    BY <2>2, TaskParts
  <2>4. /\ "Connect" \notin Flags(n) /\ "Accept" \notin Flags(n)
        /\ "Recv" \in Flags(n) => "Recv" \in n.action \/ "Accept" \in n.action
        /\ "Recv" \in n.action => "Recv" \in Flags(n)
    BY DEF Flags
  <2>5. \A d \in Dirs : 1..t.item[d] \subseteq 1..m.item[d]
    <3> SUFFICES ASSUME NEW d \in Dirs PROVE 1..t.item[d] \subseteq 1..m.item[d]
      OBVIOUS
    <3>1. t.item[d] \in 0..nreq /\ n.item[d] \in 0..nreq /\ nreq \in Nat
      BY <1>5 DEF Known, IInv, TypeOK
    <3>2. d \in n.events => t.item[d] < n.item[d]
      BY <1>5 DEF Older
    <3> QED
      BY <2>3, <3>1, <3>2
  <2>6. "in" \in Dirs /\ "out" \in Dirs
    BY DEF Dirs
  <2>7. Traced(m, f)
    <3>1. ASSUME "Recv" \in m.action, sort[f] # "listen"
          PROVE  \E p \in 1..m.item["in"] : Was(p, f, "Recv")
      <4>1. CASE "Recv" \in t.action
        BY <1>3, <2>5, <2>6, <3>1, <4>1 DEF Traced
      <4>2. CASE "Recv" \notin t.action
        <5>1. "Recv" \in n.action
          BY <1>3, <2>3, <2>4, <3>1, <4>2 DEF Traced
        <5>2. "in" \in n.events
          BY <1>4, <5>1 DEF Dir
        <5> QED
          BY <1>3, <2>3, <2>6, <3>1, <5>1, <5>2 DEF Traced
      <4> QED
        BY <4>1, <4>2
    <3>2. ASSUME "Connect" \in m.action
          PROVE  \E p \in 1..m.item["out"] : Was(p, f, "Connect")
      BY <1>3, <2>3, <2>4, <2>5, <2>6, <3>2 DEF Traced
    <3>3. "Accept" \in m.action => sort[f] = "listen"
      BY <1>3, <2>3, <2>4 DEF Traced
    <3> QED
      BY <3>1, <3>2, <3>3 DEF Traced
  <2>8. "Connect" \notin m.action =>
          \E p \in 1..nreq :
             /\ of[p] = f /\ kind[p] # "Connect"
             /\ \A d \in n.events : p < n.item[d]
             /\ \A d \in pending_tasks_[f].events : p < pending_tasks_[f].item[d]
    BY <1>1, <1>2, <1>3, <1>8, <2>3 DEF KnownBefore
  <2>9. InFlightFlagged(m, f)
    <3>1. ASSUME "in" \in m.events, kind[m.item["in"]] = "Recv"
          PROVE  "Recv" \in m.action
      BY <1>3, <2>3, <2>4, <2>6, <3>1 DEF InFlightFlagged, Flagged
    <3>2. sort[f] = "listen" => "Accept" \in m.action
      BY <1>3, <1>8, <2>3 DEF InFlightFlagged
    <3>3. ASSUME "out" \in m.events, kind[m.item["out"]] = "Connect",
                 "Connect" \notin m.action
          PROVE  \E p \in 1..nreq : /\ p < m.item["out"] /\ of[p] = f
                                    /\ kind[p] # "Connect"
      <4>1. CASE "out" \in n.events
        BY <2>3, <2>6, <2>8, <3>3, <4>1
      <4>2. CASE "out" \notin n.events
        BY <1>3, <2>3, <2>6, <3>3, <4>2 DEF InFlightFlagged
      <4> QED
        BY <4>1, <4>2
    <3> QED
      BY <3>1, <3>2, <3>3 DEF InFlightFlagged
  <2> QED
    BY <2>7, <2>8, <2>9
<1> QED
  BY <1>6, <1>7, <1>8

LEMMA PollSuits ==
  ASSUME IInv, Suits, Poll
  PROVE  Suits'
<1>1. /\ flying_tasks_' = [f \in Fds |-> Merged(flying_tasks_[f], tasks[f])]
      /\ tasks' = [f \in Fds |-> NoTask]
      /\ io' = "handling"
      /\ UNCHANGED <<nreq, kind, of, pending_tasks_, via, sort>>
  BY DEF Poll, requestVars, doneVars, kernelVars
<1>2. KindsFit' /\ OwnOperation'
  BY <1>1 DEF Suits, KindsFit, OwnOperation
<1>3. ASSUME NEW f \in Fds PROVE Remembered(f)'
  <2>1. PICK m : m = Merged(flying_tasks_[f], tasks[f])
    OBVIOUS
  <2>2. /\ Remembered(f) /\ tasks'[f] = NoTask /\ flying_tasks_'[f] = m
    BY <1>1, <2>1 DEF Suits
  <2>3. /\ Traced(m, f) /\ InFlightFlagged(m, f)
        /\ m # NoTask /\ "Connect" \notin m.action =>
             \E p \in 1..nreq :
                /\ of[p] = f /\ kind[p] # "Connect"
                /\ \A d \in pending_tasks_[f].events :
                     p < pending_tasks_[f].item[d]
    BY <2>1, MergedSuits
  <2>4. Traced(m, f)' /\ InFlightFlagged(m, f)'
    BY <1>1, <2>3 DEF Traced, Was, InFlightFlagged
  <2>5. /\ Traced(tasks[f], f)' /\ Flagged(tasks[f])'
        /\ Traced(pending_tasks_[f], f)' /\ Flagged(pending_tasks_[f])'
    BY <1>1, <2>2, NoTaskParts DEF Remembered, Traced, Was, Flagged
  <2>6. KnownBefore(f)'
    BY <1>1, <2>2, <2>3, NoTaskParts DEF KnownBefore
  <2> QED
    BY <2>2, <2>4, <2>5, <2>6 DEF Remembered
<1> QED
  BY <1>1, <1>2, <1>3 DEF Suits

\* The operation chosen fits the flags it was chosen by.
LEMMA PerformSuits ==
  ASSUME IInv, Suits, NEW fd \in Fds, Skip(fd) \/ Perform(fd) \/ Repost
  PROVE  Suits'
<1>1. /\ UNCHANGED requestVars /\ sort' = sort /\ via' = via
      /\ UNCHANGED <<pending_tasks_, flying_tasks_, tasks>>
      /\ io = "handling"
  BY DEF Skip, Perform, Repost, doneVars, kernelVars
<1>2. ASSUME io' = "storing" PROVE Fits(flying_tasks_[cur], op)'
  <2>1. Perform(fd) /\ cur' = fd /\ op' = Chosen(fd) /\ events[fd] # {}
    BY <1>1, <1>2 DEF Skip, Perform, Repost
  <2>2. Fits(flying_tasks_[fd], Chosen(fd))
    <3>1. events[fd] \subseteq {"in", "out"}
      BY DEF IInv, TypeOK, Dirs
    <3> QED
      BY <2>1, <3>1 DEF Fits, Chosen
  <2> QED
    BY <1>1, <2>1, <2>2 DEF Fits
<1> QED
  BY <1>1, <1>2, SameSuits

\* The flags that chose the operation explain what it completes.
LEMMA StoreSuits ==
  ASSUME IInv, Suits, Store
  PROVE  Suits'
<1>1. PICK c \in Fds, d \in Dirs, o \in Operations :
        /\ c = cur /\ o = op /\ d = Uses(o) /\ d \in flying_tasks_[c].events
  BY DEF Store, IInv, Handling, Uses, Dirs
<1>2. PICK t \in EpollTask : t = flying_tasks_[c]
  BY DEF IInv, TypeOK
<1>3. PICK q \in Reqs : q = t.item[d] /\ Open(q, c, d)
  <2>1. Open(t.item[d], c, d)
    BY <1>1, <1>2 DEF IInv, Maps, Opens
  <2>2. t.item[d] \in Reqs
    BY <2>1, EpollAssumption DEF Open, IInv, TypeOK, Reqs
  <2> QED
    BY <2>1, <2>2
<1>4. /\ flying_tasks_' = [flying_tasks_ EXCEPT ![c].events = @ \ {d}]
      /\ io' = "handling"
      /\ UNCHANGED <<nreq, kind, of, pending_tasks_, tasks, sort>>
      /\ \/ via' = via
         \/ via' = [via EXCEPT ![q] = o]
  BY <1>1, <1>2, <1>3 DEF Store, requestVars, kernelVars
<1>5. \A f \in Fds : /\ flying_tasks_'[f].action = flying_tasks_[f].action
                     /\ flying_tasks_'[f].item = flying_tasks_[f].item
                     /\ flying_tasks_'[f].events \subseteq flying_tasks_[f].events
                     /\ flying_tasks_[f] = NoTask => flying_tasks_'[f] = NoTask
  <2> SUFFICES ASSUME NEW f \in Fds
               PROVE  /\ flying_tasks_'[f].action = flying_tasks_[f].action
                      /\ flying_tasks_'[f].item = flying_tasks_[f].item
                      /\ flying_tasks_'[f].events \subseteq flying_tasks_[f].events
                      /\ flying_tasks_[f] = NoTask => flying_tasks_'[f] = NoTask
    OBVIOUS
  <2>1. CASE f # c
    BY <1>4, <2>1 DEF IInv, TypeOK
  <2>2. CASE f = c
    <3>1. flying_tasks_'[f] = [t EXCEPT !.events = t.events \ {d}]
      BY <1>2, <1>4, <2>2 DEF IInv, TypeOK
    <3>2. t = [action |-> t.action, events |-> t.events, item |-> t.item]
      BY DEF EpollTask
    <3>3. t # NoTask
      BY <1>1, <1>2, NoTaskParts
    <3> QED
      BY <1>2, <2>2, <3>1, <3>2, <3>3
  <2> QED
    BY <2>1, <2>2
<1>6. KindsFit'
  BY <1>4 DEF Suits, KindsFit
<1>7. ASSUME NEW f \in Fds PROVE Remembered(f)'
  <2>1. /\ Remembered(f)
        /\ flying_tasks_'[f].action = flying_tasks_[f].action
        /\ flying_tasks_'[f].item = flying_tasks_[f].item
        /\ flying_tasks_'[f].events \subseteq flying_tasks_[f].events
        /\ flying_tasks_[f] = NoTask => flying_tasks_'[f] = NoTask
    BY <1>5 DEF Suits
  <2>2. /\ Traced(tasks[f], f)' /\ Flagged(tasks[f])'
        /\ Traced(pending_tasks_[f], f)' /\ Flagged(pending_tasks_[f])'
    BY <1>4, <2>1 DEF Remembered, Traced, Was, Flagged
  <2>3. Traced(flying_tasks_[f], f)'
    BY <1>4, <2>1 DEF Remembered, Traced, Was
  <2>4. InFlightFlagged(flying_tasks_[f], f)'
    BY <1>4, <2>1 DEF Remembered, InFlightFlagged
  <2>5. KnownBefore(f)'
    BY <1>4, <2>1 DEF Remembered, KnownBefore
  <2> QED
    BY <2>2, <2>3, <2>4, <2>5 DEF Remembered
<1>8. q \in 1..nreq /\ of[q] = c /\ Dir(kind[q]) = d
  BY <1>3 DEF Open
<1> DEFINE before == {kind[p] : p \in {p \in 1..q : of[p] = of[q]}}
<1>9. \/ o = Own(kind[q])
      \/ kind[q] = "Send" /\ o = "connected" /\ "Connect" \in before
      \/ kind[q] = "Connect" /\ o = "send" /\ Cardinality(before) > 1
      \/ kind[q] = "Recvfrom" /\ o = "recv" /\ "Recv" \in before
  <2>1. /\ Fits(t, o) /\ Traced(t, c) /\ InFlightFlagged(t, c)
        /\ kind[q] \in Calls(sort[c]) /\ sort[c] \in Sorts
        /\ t # NoTask
    <3>1. io = "storing"
      BY DEF Store
    <3>2. t # NoTask
      BY <1>1, <1>2, NoTaskParts
    <3> QED
      BY <1>1, <1>2, <1>8, <3>1, <3>2
         DEF Suits, Remembered, KindsFit, IInv, TypeOK
  <2>2. kind[q] \in Action
    BY <2>1, CallsAction
  <2>3. kind[q] = "Accept" => sort[c] = "listen"
    BY <2>1, EpollAssumption DEF Calls
  <2>4. kind[q] \in {"Recvfrom", "Recv"} \union {"Send", "Connect"} =>
          sort[c] # "listen"
    BY <2>1, EpollAssumption DEF Calls
  <2>5. \A j : (\E p \in 1..q : Was(p, c, j)) => j \in before
    BY <1>8 DEF Was
  <2>6. CASE o \in {"recv", "recvfrom", "accept"}
    <3>1. d = "in" /\ kind[q] \in {"Recv", "Recvfrom", "Accept"}
      BY <1>1, <1>8, <2>2, <2>6 DEF Uses, Dir, Action
    <3>2. CASE o = "accept"
      BY <2>1, <2>4, <3>1, <3>2 DEF Fits, Traced, Own
    <3>3. CASE o = "recv"
      <4>1. kind[q] # "Accept"
        BY <2>1, <2>3, <3>3 DEF Fits, InFlightFlagged
      <4>2. "Recv" \in before
        <5>1. sort[c] # "listen" /\ "Recv" \in t.action
          BY <2>1, <2>4, <3>1, <3>3, <4>1 DEF Fits
        <5> QED
          BY <1>3, <2>1, <2>5, <3>1, <5>1 DEF Traced
      <4> QED
        BY <3>1, <3>3, <4>1, <4>2 DEF Own
    <3>4. CASE o = "recvfrom"
      <4>1. kind[q] # "Accept" /\ kind[q] # "Recv"
        BY <1>1, <1>2, <1>3, <2>1, <2>3, <3>1, <3>4 DEF Fits, InFlightFlagged
      <4> QED
        BY <3>1, <3>4, <4>1 DEF Own
    <3> QED
      BY <2>6, <3>2, <3>3, <3>4
  <2>7. CASE o \in {"send", "connected"}
    <3>1. d = "out" /\ kind[q] \in {"Send", "Connect"}
      BY <1>1, <1>8, <2>2, <2>7 DEF Uses, Dir, Action
    <3>2. CASE o = "connected"
      <4>1. "Connect" \in before
        BY <1>3, <2>1, <2>5, <3>1, <3>2 DEF Fits, Traced
      <4> QED
        BY <3>1, <3>2, <4>1 DEF Own
    <3>3. CASE o = "send" /\ kind[q] = "Connect"
      <4>1. PICK p \in 1..nreq : p < q /\ of[p] = c /\ kind[p] # "Connect"
        BY <1>1, <1>2, <1>3, <2>1, <3>1, <3>3 DEF Fits, InFlightFlagged
      <4>2. p \in 1..q /\ q \in 1..q
        BY <4>1 DEF Reqs
      <4>3. kind[p] \in before /\ kind[q] \in before
        BY <1>8, <4>1, <4>2
      <4>4. Cardinality(before) > 1
        <5>1. IsFiniteSet(1..q)
          BY FS_Interval DEF Reqs
        <5>2. IsFiniteSet({r \in 1..q : of[r] = of[q]})
          BY <5>1, FS_Subset
        <5>3. IsFiniteSet(before)
          <6> DEFINE older == {r \in 1..q : of[r] = of[q]}
                     f == [r \in older |-> kind[r]]
          <6>1. f \in Surjection(older, before)
            BY DEF Surjection
          <6> HIDE DEF older, f
          <6>2. IsFiniteSet(older)
            BY <5>2 DEF older
          <6> QED
            BY <6>1, <6>2, FS_Surjection
        <5> HIDE DEF before
        <5>4. /\ IsFiniteSet(before \ {kind[q]})
              /\ Cardinality(before \ {kind[q]}) = Cardinality(before) - 1
          BY <4>3, <5>3, FS_RemoveElement
        <5>5. Cardinality(before \ {kind[q]}) # 0
          <6>1. kind[p] \in before \ {kind[q]}
            BY <3>3, <4>1, <4>3
          <6> QED
            BY <5>4, <6>1, FS_EmptySet
        <5>6. /\ Cardinality(before) \in Nat
              /\ Cardinality(before \ {kind[q]}) \in Nat
          BY <5>3, <5>4, FS_CardinalityType
        <5> QED
          BY <5>4, <5>5, <5>6
      <4> QED
        BY <3>3, <4>4
    <3>4. CASE o = "send" /\ kind[q] = "Send"
      BY <3>4 DEF Own
    <3> QED
      BY <2>7, <3>1, <3>2, <3>3, <3>4
  <2> QED
    BY <2>6, <2>7 DEF Operations
<1>10. OwnOperation'
  <2>1. \A p \in Reqs : via'[p] # via[p] => p = q /\ via'[p] = o
    BY <1>4 DEF IInv, TypeOK
  <2> SUFFICES ASSUME NEW p \in Reqs, via'[p] # "none"
               PROVE  LET earlier == {kind[r] : r \in {r \in 1..p : of[r] = of[p]}}
                      IN  \/ via'[p] = Own(kind[p])
                          \/ kind[p] = "Send" /\ via'[p] = "connected"
                             /\ "Connect" \in earlier
                          \/ kind[p] = "Connect" /\ via'[p] = "send"
                             /\ Cardinality(earlier) > 1
                          \/ kind[p] = "Recvfrom" /\ via'[p] = "recv"
                             /\ "Recv" \in earlier
    BY <1>4 DEF OwnOperation
  <2>2. CASE via'[p] = via[p]
    BY <2>2 DEF Suits, OwnOperation
  <2>3. CASE p = q /\ via'[p] = o
    BY <1>9, <2>3
  <2> QED
    BY <2>1, <2>2, <2>3
<1>11. \A p \in Reqs : via'[p] # "none" => p \in 1..nreq'
  <2>1. \A p \in Reqs : p = q \/ via'[p] = via[p]
    BY <1>4 DEF IInv, TypeOK
  <2> QED
    BY <1>4, <1>8, <2>1 DEF Suits
<1> QED
  BY <1>4, <1>6, <1>7, <1>10, <1>11 DEF Suits

LEMMA NextSuits == IInv /\ Suits /\ [Next]_vars => Suits'
<1> SUFFICES ASSUME IInv, Suits, [Next]_vars PROVE Suits'
  OBVIOUS
<1>1. CASE Submit
  BY <1>1, SubmitIs, SubmitSuits
<1>2. CASE \/ start \/ Kernel \/ (\E fd \in Fds : Close(fd)) \/ UNCHANGED vars
           \/ RunCallback \/ Repost
  <2>1. /\ UNCHANGED requestVars /\ via' = via
        /\ UNCHANGED <<pending_tasks_, flying_tasks_, tasks, cur, op>>
        /\ io' = "storing" => io = "storing"
    BY <1>2 DEF start, Kernel, Close, RunCallback, Repost, vars, requestVars,
                ioVars, doneVars
  <2>2. sort' = sort
    <3>1. Kernel => sort' = sort
      BY DEF Kernel, Arrive, Congest, Drain, Reset, Reuse
    <3> QED
      BY <1>2, <3>1 DEF start, Close, RunCallback, Repost, vars, kernelVars
  <2>3. io' = "storing" => Fits(flying_tasks_[cur], op)'
    BY <2>1 DEF Suits, Fits
  <2> QED
    BY <2>1, <2>2, <2>3, SameSuits
<1>3. CASE get_pending_tasks \/ Poll \/ Store
  BY <1>3, GetSuits, PollSuits, StoreSuits
<1>4. CASE \E fd \in Fds : Skip(fd) \/ Perform(fd)
  BY <1>4, PerformSuits
<1> QED
  BY <1>1, <1>2, <1>3, <1>4 DEF Next, do_io

\* A request is completed by the operation it asked for, but for the three
\* cases that OwnOperation names, on every fd and after any past.
THEOREM CompletedByOwn == Spec => []OwnOperation
<1>1. Spec => []Suits
  BY Invariance, InitSuits, NextSuits, PTL DEF Spec
<1>2. Suits => OwnOperation
  BY DEF Suits
<1> QED
  BY <1>1, <1>2, PTL

\* A callback that has run was the one its request had set.
Heard == \A q \in called : ~NoCallback(q)

LEMMA NextHeard == IInv /\ Heard /\ [Next]_vars => Heard'
<1> SUFFICES ASSUME IInv, Heard, [Next]_vars, NEW q \in called'
             PROVE  ~NoCallback(q)'
  BY DEF Heard
<1>1. called \subseteq 1..nreq /\ called \subseteq Reqs
  BY DEF IInv, QueuedOnce, Done, TypeOK
<1>2. CASE Submit
  <2>1. PICK fd \in Fds, k \in Action : Number(fd, k)
    BY <1>2, SubmitIs DEF Answer, Extend, Replace
  <2>2. called' = called /\ via' = via
    BY <1>2 DEF Submit, doneVars
  <2>3. kind'[q] = kind[q]
    BY <1>1, <2>1, <2>2 DEF Number, IInv, TypeOK
  <2> QED
    BY <2>2, <2>3 DEF Heard, NoCallback
<1>3. CASE Store
  <2>1. /\ cur \in Fds /\ Uses(op) \in flying_tasks_[cur].events
        /\ flying_tasks_[cur].item[Uses(op)] \notin called
    BY <1>3 DEF Store, IInv, Handling, Maps, Opens, Open, Done
  <2>2. called' = called /\ kind' = kind
    BY <1>3 DEF Store, requestVars
  <2>3. via'[q] = via[q]
    BY <1>1, <1>3, <2>1, <2>2 DEF Store, IInv, TypeOK
  <2> QED
    BY <2>2, <2>3 DEF Heard, NoCallback
<1>4. CASE RunCallback
  BY <1>4 DEF RunCallback, Heard, NoCallback, requestVars
<1>5. CASE \/ start \/ Kernel \/ (\E fd \in Fds : Close(fd)) \/ UNCHANGED vars
           \/ get_pending_tasks \/ Poll \/ Repost
           \/ (\E fd \in Fds : Skip(fd) \/ Perform(fd))
  <2>1. UNCHANGED requestVars /\ UNCHANGED doneVars
    BY <1>5 DEF start, Kernel, Close, get_pending_tasks, Poll, Repost, Skip,
                Perform, vars, requestVars, doneVars
  <2> QED
    BY <2>1 DEF Heard, NoCallback, requestVars, doneVars
<1> QED
  BY <1>2, <1>3, <1>4, <1>5 DEF Next, do_io

\* No accept is ever told its connection, whatever was submitted before:
\* accept keeps the callback where do_accept does not look for it.
THEOREM NoAcceptHeard == Spec => [](\A q \in called : kind[q] # "Accept")
<1>1. Init => Heard
  BY DEF Init, Heard
<1>2. Spec => []Heard
  BY <1>1, Invariance, NextHeard, PTL DEF Spec
<1>3. IInv /\ OwnOperation /\ Heard => \A q \in called : kind[q] # "Accept"
  <2> SUFFICES ASSUME IInv, OwnOperation, NEW q \in called, kind[q] = "Accept",
                      via[q] = "recvfrom"
               PROVE  FALSE
    BY DEF Heard, NoCallback
  <2>1. q \in Reqs
    BY DEF IInv, TypeOK
  <2> QED
    BY <2>1 DEF OwnOperation, Own
<1> QED
  BY <1>2, <1>3, Invariance, CompletedByOwn, PTL
-----------------------------------------------------------------------------
(* No request is lost as long as its socket stays open.                     *)

\* A newer request, registered too, has taken the place of q: it is for the
\* same event, or it is a connect, which replaces all that is pending.
Superseded(q) ==
    \E p \in 1..nreq :
        /\ p > q /\ of[p] = of[q] /\ p \notin returned
        /\ Dir(kind[p]) = Dir(kind[q]) \/ kind[p] = "Connect"

\* A request that is not answered is where do_io finds it.
NoneForgotten ==
    \A q \in 1..nreq :
        \/ q \in returned \union Done \/ sock[of[q]] # 1
        \/ Held(q, of[q]) \/ Superseded(q)

\* do_io's local map is empty but in submit_tasks, so that taking what is
\* pending drops nothing, and epoll knows each fd in flight whose socket is
\* open, so that no result is dropped.
Taken == io # "submitting" => \A f \in Fds : tasks[f] = NoTask
Told == \A f \in Fds : flying_tasks_[f] # NoTask /\ sock[f] = 1 => f \in added
OnFds == \A q \in 1..nreq : of[q] \in Fds

KInv == NoneForgotten /\ Taken /\ Told /\ OnFds

LEMMA InitKInv == Init => KInv
<1> SUFFICES ASSUME Init PROVE KInv
  OBVIOUS
<1>1. nreq = 0 /\ 1..nreq = {}
  BY DEF Init
<1>2. NoneForgotten /\ OnFds
  BY <1>1 DEF NoneForgotten, OnFds
<1>3. Taken /\ Told
  BY DEF Init, Taken, Told
<1> QED
  BY <1>2, <1>3 DEF KInv

\* A step that moves no request, and forgets no fd but a closed one.
LEMMA SameKInv ==
  ASSUME KInv, UNCHANGED requestVars,
         UNCHANGED <<pending_tasks_, flying_tasks_, tasks>>,
         Done \subseteq Done', io' = "submitting" <=> io = "submitting",
         \A f \in Fds : sock'[f] = 1 => sock[f] = 1 /\ (f \in added => f \in added')
  PROVE  KInv'
<1> USE DEF requestVars
<1>1. Taken' /\ Told' /\ OnFds'
  BY DEF KInv, Taken, Told, OnFds
<1>2. NoneForgotten'
  <2> SUFFICES ASSUME NEW q \in 1..nreq, q \notin returned \union Done',
                      sock'[of[q]] = 1
               PROVE  Held(q, of[q])' \/ Superseded(q)'
    BY DEF NoneForgotten
  <2>1. q \notin returned \union Done /\ of[q] \in Fds /\ sock[of[q]] = 1
    BY DEF KInv, OnFds
  <2>2. Held(q, of[q]) \/ Superseded(q)
    BY <2>1 DEF KInv, NoneForgotten
  <2> QED
    BY <2>2 DEF Held, Waits, Superseded
<1> QED
  BY <1>1, <1>2 DEF KInv

\* start(), the kernel, Close, and do_io between submit_tasks and a result.
LEMMA QuietKInv ==
  ASSUME IInv, KInv,
         \/ start \/ Kernel \/ (\E fd \in Fds : Close(fd)) \/ UNCHANGED vars
         \/ Repost \/ (\E fd \in Fds : Skip(fd) \/ Perform(fd))
  PROVE  KInv'
<1> USE DEF requestVars, ioVars, doneVars, epollVars, kernelVars, vars
<1>1. /\ UNCHANGED requestVars /\ UNCHANGED doneVars
      /\ UNCHANGED <<pending_tasks_, flying_tasks_, tasks>>
      /\ io' = "submitting" <=> io = "submitting"
  BY DEF start, Kernel, Close, Repost, Skip, Perform
<1>2. Done' = Done
  BY <1>1 DEF Done
<1>3. ASSUME NEW f \in Fds, sock'[f] = 1
      PROVE  sock[f] = 1 /\ (f \in added => f \in added')
  <2>1. CASE Kernel
    <3>1. added' = added
      BY <2>1 DEF Kernel
    <3>2. sock' = sock \/ \E g \in Fds : sock' = [sock EXCEPT ![g] = 2]
      BY <2>1 DEF Kernel, Arrive, Congest, Drain, Reset, Reuse
    <3> QED
      BY <1>3, <3>1, <3>2 DEF IInv, TypeOK
  <2>2. CASE \E fd \in Fds : Close(fd)
    <3>1. PICK g \in Fds : sock' = [sock EXCEPT ![g] = 0] /\ added' = added \ {g}
      BY <2>2 DEF Close
    <3> QED
      BY <1>3, <3>1 DEF IInv, TypeOK
  <2>3. CASE ~Kernel /\ ~\E fd \in Fds : Close(fd)
    <3>1. sock' = sock /\ added' = added
      BY <2>3 DEF start, Repost, Skip, Perform
    <3> QED
      BY <1>3, <3>1
  <2> QED
    BY <2>1, <2>2, <2>3
<1> QED
  BY <1>1, <1>2, <1>3, SameKInv

LEMMA CallbackKInv ==
  ASSUME IInv, KInv, RunCallback
  PROVE  KInv'
<1>1. /\ completed_task_ # <<>>
      /\ \/ /\ completed_task_' = Tail(completed_task_)
            /\ called' = called \union {Head(completed_task_)}
         \/ completed_task_' = completed_task_ /\ called' = called
      /\ UNCHANGED requestVars
      /\ UNCHANGED <<pending_tasks_, flying_tasks_, tasks, io, added, sock>>
  BY DEF RunCallback, ioVars, epollVars, kernelVars
<1>2. Range(completed_task_) =
        {Head(completed_task_)} \union Range(Tail(completed_task_))
  BY <1>1, HeadTailRange DEF IInv, TypeOK
<1>3. Done' = Done
  BY <1>1, <1>2 DEF Done
<1> QED
  BY <1>1, <1>3, SameKInv

\* What is pending becomes what do_io submits, which was empty.
LEMMA GetKInv ==
  ASSUME IInv, KInv, get_pending_tasks
  PROVE  KInv'
<1> USE DEF requestVars, doneVars, epollVars, kernelVars
<1>1. /\ io = "queued" /\ io' = "submitting" /\ tasks' = pending_tasks_
      /\ UNCHANGED <<requestVars, flying_tasks_, doneVars, added, sock>>
  BY DEF get_pending_tasks
<1>2. Done' = Done
  BY <1>1 DEF Done
<1>3. \A f \in Fds : tasks[f].events = {}
  BY <1>1, NoTaskParts DEF KInv, Taken
<1>4. Taken' /\ Told' /\ OnFds'
  BY <1>1 DEF KInv, Taken, Told, OnFds
<1>5. NoneForgotten'
  <2> SUFFICES ASSUME NEW q \in 1..nreq, q \notin returned \union Done,
                      sock[of[q]] = 1
               PROVE  Held(q, of[q])' \/ Superseded(q)'
    BY <1>1, <1>2 DEF NoneForgotten
  <2>1. of[q] \in Fds /\ (Held(q, of[q]) \/ Superseded(q))
    BY DEF KInv, OnFds, NoneForgotten
  <2>2. ~Waits(tasks[of[q]], q)
    BY <1>3, <2>1 DEF Waits
  <2>3. Held(q, of[q]) => Held(q, of[q])'
    BY <1>1, <2>2 DEF Held, Waits
  <2>4. Superseded(q) => Superseded(q)'
    BY <1>1 DEF Superseded
  <2> QED
    BY <2>1, <2>3, <2>4
<1> QED
  BY <1>4, <1>5 DEF KInv

\* A task that is submitted stays, one in flight stays unless the new one has
\* the same event, and epoll is told of the fd unless its socket is closed.
LEMMA PollKInv ==
  ASSUME IInv, KInv, Poll
  PROVE  KInv'
<1> USE DEF requestVars, doneVars, kernelVars
<1>1. /\ flying_tasks_' = [f \in Fds |-> Merged(flying_tasks_[f], tasks[f])]
      /\ added' = added \union {f \in Fds : /\ tasks[f] # NoTask
                                            /\ flying_tasks_[f] = NoTask
                                            /\ sock[f] # 0}
      /\ tasks' = [f \in Fds |-> NoTask] /\ io' = "handling"
      /\ UNCHANGED <<requestVars, pending_tasks_, doneVars, sock>>
  BY DEF Poll
<1>2. Done' = Done
  BY <1>1 DEF Done
<1>3. Taken' /\ OnFds'
  BY <1>1 DEF KInv, Taken, OnFds
<1>4. Told'
  <2> SUFFICES ASSUME NEW f \in Fds, flying_tasks_'[f] # NoTask, sock[f] = 1
               PROVE  f \in added'
    BY <1>1 DEF Told
  <2>1. flying_tasks_[f] = NoTask => tasks[f] # NoTask
    BY <1>1 DEF Merged
  <2>2. flying_tasks_[f] # NoTask => f \in added
    BY DEF KInv, Told
  <2> QED
    BY <1>1, <2>1, <2>2
<1>5. ASSUME NEW q \in 1..nreq, NEW f \in Fds, of[q] = f, Held(q, f)
      PROVE  Held(q, f)' \/ Superseded(q)'
  <2> DEFINE t == flying_tasks_[f]  n == tasks[f]
  <2>1. /\ t \in EpollTask /\ n \in EpollTask /\ sort[f] \in Sorts
        /\ nreq \in Nat
    BY EpollAssumption DEF IInv, TypeOK
  <2>2. /\ n.action \subseteq Calls(sort[f])
        /\ n.events = {Dir(k) : k \in n.action}
    BY DEF IInv, AllFresh, Fresh
  <2>3. /\ flying_tasks_'[f].events = t.events \union n.events
        /\ \A d \in n.events : flying_tasks_'[f].item[d] = n.item[d]
        /\ \A d \in Dirs \ n.events :
             \/ flying_tasks_'[f].item[d] = t.item[d]
             \/ flying_tasks_'[f].item[d] = n.item[d] /\ t = NoTask
    <3>1. flying_tasks_'[f] = Merged(t, n)
      BY <1>1
    <3>2. /\ Merged(t, n).events = t.events \union n.events
          /\ \A d \in n.events : Merged(t, n).item[d] = n.item[d]
          /\ \A d \in Dirs \ n.events :
               \/ Merged(t, n).item[d] = t.item[d]
               \/ Merged(t, n).item[d] = n.item[d] /\ t = NoTask
      BY <2>1, <2>2, MergedParts
    <3> QED
      BY <3>1, <3>2
  <2>4. CASE Waits(pending_tasks_[f], q)
    BY <1>1, <2>4 DEF Held, Waits
  <2>5. CASE Waits(n, q)
    BY <2>3, <2>5 DEF Held, Waits
  <2>6. CASE Waits(t, q)
    <3>1. PICK d \in t.events : t.item[d] = q
      BY <2>6 DEF Waits
    <3>2. d \in Dirs /\ t # NoTask
      BY <2>1, <3>1, TaskParts, NoTaskParts
    <3>3. CASE d \notin n.events
      <4>1. d \in flying_tasks_'[f].events /\ flying_tasks_'[f].item[d] = q
        BY <2>3, <3>1, <3>2, <3>3
      <4> QED
        BY <4>1 DEF Held, Waits
    <3>4. CASE d \in n.events
      <4>1. Open(n.item[d], f, d) /\ Open(q, f, d)
        BY <3>1, <3>4 DEF IInv, Maps, Opens
      <4>2. t.item[d] < n.item[d]
        BY <3>2, <3>4 DEF IInv, Maps, Older
      <4>3. PICK p \in 1..nreq : p = n.item[d]
        BY <4>1 DEF Open
      <4>4. /\ p > q /\ of[p] = of[q] /\ p \notin returned
            /\ Dir(kind[p]) = Dir(kind[q])
        BY <1>5, <2>1, <3>1, <4>1, <4>2, <4>3 DEF Open
      <4> QED
        BY <1>1, <4>4 DEF Superseded
    <3> QED
      BY <3>3, <3>4
  <2> QED
    BY <1>5, <2>4, <2>5, <2>6 DEF Held
<1>6. NoneForgotten'
  <2> SUFFICES ASSUME NEW q \in 1..nreq, q \notin returned \union Done,
                      sock[of[q]] = 1
               PROVE  Held(q, of[q])' \/ Superseded(q)'
    BY <1>1, <1>2 DEF NoneForgotten
  <2>1. of[q] \in Fds /\ (Held(q, of[q]) \/ Superseded(q))
    BY DEF KInv, OnFds, NoneForgotten
  <2>2. Superseded(q) => Superseded(q)'
    BY <1>1 DEF Superseded
  <2>3. Held(q, of[q]) => Held(q, of[q])' \/ Superseded(q)'
    <3>1. Held(q, of[q]) => Held(q, of[q])' \/ Superseded(q)'
      BY <1>1, <1>5, <2>1
    <3> QED
      BY <1>1, <3>1
  <2> QED
    BY <2>1, <2>2, <2>3
<1> QED
  BY <1>3, <1>4, <1>6 DEF KInv

\* A result is stored for the request whose event goes: epoll knows its fd
\* unless the socket was closed.
LEMMA StoreKInv ==
  ASSUME IInv, KInv, Store
  PROVE  KInv'
<1> USE DEF requestVars, kernelVars
<1>1. PICK c \in Fds, d \in Dirs :
        /\ c = cur /\ d = Uses(op) /\ d \in flying_tasks_[c].events
  BY DEF Store, IInv, Handling, Uses, Dirs
<1>2. /\ io = "storing" /\ io' = "handling"
      /\ flying_tasks_' = [flying_tasks_ EXCEPT ![c].events = @ \ {d}]
      /\ UNCHANGED <<requestVars, pending_tasks_, tasks, called, added, sock>>
      /\ IF c \in added
           THEN completed_task_' = Append(completed_task_, flying_tasks_[c].item[d])
           ELSE UNCHANGED completed_task_
  BY <1>1 DEF Store
<1>3. /\ flying_tasks_[c] \in EpollTask
      /\ flying_tasks_[c].events \subseteq Dirs
      /\ Open(flying_tasks_[c].item[d], c, d)
      /\ flying_tasks_[c].item[d] \in Reqs
  <2>1. flying_tasks_[c] \in EpollTask /\ Open(flying_tasks_[c].item[d], c, d)
    BY <1>1 DEF IInv, TypeOK, Maps, Opens
  <2>2. flying_tasks_[c].item[d] \in Reqs
    BY <2>1, EpollAssumption DEF Open, IInv, TypeOK, Reqs
  <2> QED
    BY <2>1, <2>2, TaskParts
<1>4. /\ \A f \in Fds \ {c} : flying_tasks_'[f] = flying_tasks_[f]
      /\ flying_tasks_'[c].events = flying_tasks_[c].events \ {d}
      /\ flying_tasks_'[c].item = flying_tasks_[c].item
  BY <1>2, <1>3 DEF IInv, TypeOK, EpollTask
<1>5. /\ Done \subseteq Done'
      /\ c \in added => flying_tasks_[c].item[d] \in Done'
  <2>1. CASE c \in added
    <3>1. completed_task_ \in Seq(Reqs)
      BY DEF IInv, TypeOK
    <3>2. completed_task_' = Append(completed_task_, flying_tasks_[c].item[d])
      BY <1>2, <2>1
    <3>3. Range(completed_task_') =
            Range(completed_task_) \union {flying_tasks_[c].item[d]}
      BY <1>3, <3>1, <3>2, AppendRange
    <3> QED
      BY <1>2, <3>3 DEF Done
  <2>2. CASE c \notin added
    BY <1>2, <2>2 DEF Done
  <2> QED
    BY <2>1, <2>2
<1>6. Taken' /\ OnFds'
  BY <1>2 DEF KInv, Taken, OnFds
<1>7. flying_tasks_[c] # NoTask
  BY <1>1, NoTaskParts
<1>8. Told'
  <2> SUFFICES ASSUME NEW f \in Fds, flying_tasks_'[f] # NoTask, sock[f] = 1
               PROVE  f \in added
    BY <1>2 DEF Told
  <2>1. flying_tasks_[f] # NoTask
    BY <1>4, <1>7
  <2> QED
    BY <2>1 DEF KInv, Told
<1>9. NoneForgotten'
  <2> SUFFICES ASSUME NEW q \in 1..nreq, q \notin returned \union Done',
                      sock[of[q]] = 1
               PROVE  Held(q, of[q])' \/ Superseded(q)'
    BY <1>2 DEF NoneForgotten
  <2>1. /\ q \notin returned \union Done /\ of[q] \in Fds
        /\ Held(q, of[q]) \/ Superseded(q)
    BY <1>5 DEF KInv, OnFds, NoneForgotten
  <2>2. Superseded(q) => Superseded(q)'
    BY <1>2 DEF Superseded
  <2>3. CASE Waits(pending_tasks_[of[q]], q) \/ Waits(tasks[of[q]], q)
    BY <1>2, <2>3 DEF Held, Waits
  <2>4. CASE Waits(flying_tasks_[of[q]], q)
    <3>1. PICK e \in flying_tasks_[of[q]].events : flying_tasks_[of[q]].item[e] = q
      BY <2>4 DEF Waits
    <3>2. of[q] = c => e # d
      <4>1. sock[c] = 1 => c \in added
        BY <1>7 DEF KInv, Told
      <4> QED
        BY <1>5, <3>1, <4>1
    <3>3. /\ e \in flying_tasks_'[of[q]].events
          /\ flying_tasks_'[of[q]].item[e] = q
      BY <1>4, <2>1, <3>1, <3>2
    <3> QED
      BY <1>2, <3>3 DEF Held, Waits
  <2> QED
    BY <2>1, <2>2, <2>3, <2>4 DEF Held
<1> QED
  BY <1>6, <1>8, <1>9 DEF KInv

\* A new request is answered or pending; what it replaces is older.
LEMMA SubmitKInv ==
  ASSUME IInv, KInv, NEW fd \in Fds, NEW k,
         \/ Answer(fd, k) \/ Extend(fd, k)
         \/ Replace(fd, k) /\ k \in {"Accept", "Connect"},
         UNCHANGED <<flying_tasks_, ioVars, doneVars, epollVars, kernelVars>>
  PROVE  KInv'
<1> USE DEF ioVars, doneVars, epollVars, kernelVars
<1>0. Number(fd, k)
  BY DEF Answer, Extend, Replace
<1>1. PICK q \in Reqs : q = nreq + 1
  BY <1>0, NumberParts
<1>2. /\ nreq \in Nat /\ nreq' = q /\ q > nreq
      /\ 1..q = 1..nreq \union {q} /\ 1..nreq \subseteq Reqs
      /\ k \in Action /\ k \in Calls(sort[fd]) /\ sort[fd] \in Sorts
      /\ kind' = [kind EXCEPT ![q] = k] /\ of' = [of EXCEPT ![q] = fd]
  BY <1>0, <1>1, NumberParts, EpollAssumption DEF Reqs
<1>3. /\ kind'[q] = k /\ of'[q] = fd
      /\ \A p \in 1..nreq : p # q /\ kind'[p] = kind[p] /\ of'[p] = of[p]
  BY <1>2 DEF IInv, TypeOK
<1>4. /\ returned' \in {returned, returned \union {q}}
      /\ ~Answer(fd, k) => returned' = returned
      /\ Done' = Done /\ q \notin returned
  BY <1>1, <1>2 DEF Answer, Extend, Replace, Done, IInv, QueuedOnce
<1>5. Taken' /\ Told' /\ OnFds'
  BY <1>2, <1>3 DEF KInv, Taken, Told, OnFds
<1>6. ASSUME NEW p \in 1..nreq, Superseded(p) PROVE Superseded(p)'
  <2>1. PICK r \in 1..nreq :
          /\ r > p /\ of[r] = of[p] /\ r \notin returned
          /\ Dir(kind[r]) = Dir(kind[p]) \/ kind[r] = "Connect"
    BY <1>6 DEF Superseded
  <2> QED
    BY <1>2, <1>3, <1>4, <2>1 DEF Superseded
<1>7. CASE Answer(fd, k)
  <2>1. pending_tasks_' = pending_tasks_ /\ returned' = returned \union {q}
    BY <1>1, <1>7 DEF Answer
  <2>2. ASSUME NEW p \in 1..nreq', p \notin returned' \union Done',
               sock'[of'[p]] = 1
        PROVE  Held(p, of[p])' \/ Superseded(p)'
    <3>1. p \in 1..nreq /\ p \notin returned \union Done /\ of'[p] = of[p]
      BY <1>2, <1>3, <1>4, <2>1, <2>2
    <3>2. Held(p, of[p]) \/ Superseded(p)
      BY <2>2, <3>1 DEF KInv, NoneForgotten
    <3>3. Held(p, of[p]) => Held(p, of[p])'
      BY <2>1, <3>1 DEF Held, Waits
    <3> QED
      BY <1>6, <3>1, <3>2, <3>3
  <2> QED
    BY <1>5, <2>2 DEF KInv, NoneForgotten
<1>8. CASE \/ Extend(fd, k)
           \/ Replace(fd, k) /\ k \in {"Accept", "Connect"}
  <2> DEFINE t == pending_tasks_[fd]  n == pending_tasks_'[fd]
  <2>1. t \in EpollTask /\ t.item \in [Dirs -> 0..MaxReqs]
    BY TaskParts DEF IInv, TypeOK
  <2>2. /\ \/ n = [action |-> t.action \union {k},
                   events |-> t.events \union {Dir(k)},
                   item |-> [t.item EXCEPT ![Dir(k)] = q]]
           \/ n = [action |-> {k}, events |-> {Dir(k)},
                   item |-> [NoItems EXCEPT ![Dir(k)] = q]]
        /\ \A f \in Fds \ {fd} : pending_tasks_'[f] = pending_tasks_[f]
    <3>1. CASE Extend(fd, k)
      BY <1>1, <3>1 DEF Extend, IInv, TypeOK
    <3>2. CASE Replace(fd, k)
      BY <1>1, <3>2 DEF Replace, IInv, TypeOK
    <3> QED
      BY <1>8, <3>1, <3>2
  <2>3. /\ n.item[Dir(k)] = q /\ Dir(k) \in n.events
        /\ \A d \in n.events \ {Dir(k)} : n.item[d] = t.item[d]
    <3> HIDE DEF t, n
    <3> QED
      BY <1>2, <2>1, <2>2, NewTask
  <2>4. Held(q, fd)'
    BY <2>3 DEF Held, Waits
  <2>5. q \notin returned'
    BY <1>4, <1>8 DEF Extend, Replace
  <2>6. t.events \subseteq n.events \/ k = "Connect" \/ t.events \subseteq {Dir(k)}
    <3>1. CASE Extend(fd, k)
      BY <1>1, <3>1 DEF Extend, IInv, TypeOK
    <3>2. CASE k = "Accept"
      <4>1. sort[fd] = "listen"
        BY <1>2, <3>2, EpollAssumption DEF Calls
      <4>2. t.events \subseteq {Dir("Accept")}
        BY <4>1 DEF IInv, AllFresh, Fresh, Calls
      <4> QED
        BY <3>2, <4>2
    <3> QED
      BY <1>8, <3>1, <3>2
  <2>7. ASSUME NEW p \in 1..nreq, of[p] \in Fds, Held(p, of[p])
        PROVE  Held(p, of[p])' \/ Superseded(p)'
    <3>0. of'[p] = of[p] /\ kind'[p] = kind[p] /\ q > p
      BY <1>2, <1>3
    <3>1. CASE of[p] # fd \/ ~Waits(t, p)
      <4>1. of[p] # fd => pending_tasks_'[of[p]] = pending_tasks_[of[p]]
        BY <2>2, <2>7
      <4> QED
        BY <2>7, <3>0, <3>1, <4>1 DEF Held, Waits
    <3>2. CASE of[p] = fd /\ Waits(t, p)
      <4>1. PICK d \in t.events : t.item[d] = p
        BY <3>2 DEF Waits
      <4>2. Dir(kind[p]) = d
        BY <4>1 DEF IInv, Maps, Opens, Open
      <4>3. CASE d = Dir(k) \/ k = "Connect"
        BY <1>2, <1>3, <2>5, <3>0, <3>2, <4>2, <4>3 DEF Superseded
      <4>4. CASE d # Dir(k) /\ k # "Connect"
        <5>1. d \in n.events /\ n.item[d] = p
          BY <2>3, <2>6, <4>1, <4>4
        <5> QED
          BY <3>0, <3>2, <5>1 DEF Held, Waits
      <4> QED
        BY <4>3, <4>4
    <3> QED
      BY <3>1, <3>2
  <2>8. ASSUME NEW p \in 1..nreq', p \notin returned' \union Done',
               sock'[of'[p]] = 1
        PROVE  Held(p, of[p])' \/ Superseded(p)'
    <3>1. CASE p = q
      BY <1>3, <2>4, <3>1
    <3>2. CASE p # q
      <4>1. p \in 1..nreq /\ p \notin returned \union Done /\ of'[p] = of[p]
        BY <1>2, <1>3, <1>4, <2>8, <3>2
      <4>2. of[p] \in Fds /\ (Held(p, of[p]) \/ Superseded(p))
        BY <2>8, <4>1 DEF KInv, NoneForgotten, OnFds
      <4> QED
        BY <1>6, <2>7, <4>1, <4>2
    <3> QED
      BY <3>1, <3>2
  <2> QED
    BY <1>5, <2>8 DEF KInv, NoneForgotten
<1> QED
  BY <1>7, <1>8

LEMMA NextKInv == IInv /\ KInv /\ [Next]_vars => KInv'
<1> SUFFICES ASSUME IInv, KInv, [Next]_vars PROVE KInv'
  OBVIOUS
<1>1. CASE Submit
  BY <1>1, SubmitIs, SubmitKInv
<1>2. CASE \/ start \/ Kernel \/ (\E fd \in Fds : Close(fd)) \/ UNCHANGED vars
           \/ Repost \/ (\E fd \in Fds : Skip(fd) \/ Perform(fd))
  BY <1>2, QuietKInv
<1>3. CASE get_pending_tasks \/ Poll \/ Store
  BY <1>3, GetKInv, PollKInv, StoreKInv
<1>4. CASE RunCallback
  BY <1>4, CallbackKInv
<1> QED
  BY <1>1, <1>2, <1>3, <1>4 DEF Next, do_io

\* A request that is not answered, on a socket that was never closed, is where
\* do_io finds it: pending, being submitted or in flight with its event,
\* unless a newer request took its place.  This is the safety core of Answered.
THEOREM RequestsKept == Spec => []NoneForgotten
<1>1. KInv => NoneForgotten
  BY DEF KInv
<1> QED
  BY <1>1, Invariance, InitKInv, NextKInv, PTL DEF Spec
=============================================================================
