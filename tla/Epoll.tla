------------------------------- MODULE Epoll -------------------------------
(***************************************************************************)
(* bco::net::Epoll (src/net/proactor/epoll.cpp) between the sockets that   *)
(* submit requests to it, epoll, and the executor of the callbacks.        *)
(*                                                                         *)
(* Requests are merged into pending_tasks_ under mtx_.  do_io, a task that *)
(* posts itself again, takes that map, merges it into flying_tasks_, which *)
(* no other thread uses and no entry ever leaves, tells epoll what to wait *)
(* for and handles what it reports: the operation without mtx_, then under *)
(* mtx_ the end of the interest and the callback.                          *)
(*                                                                         *)
(* An EpollTask is its action flags, the events asked for, and its read    *)
(* and write items, item["in"] and item["out"], by request number (0: no   *)
(* value).  Flags and items stay when a request is done; its event goes.   *)
(***************************************************************************)
EXTENDS Naturals, Sequences, FiniteSets, Functions

CONSTANTS
    Fds,            \* the file descriptors in use
    Sorts,          \* the sorts of sockets: "stream", "dgram" and "listen"
    MaxReqs,        \* bound on the requests submitted
    MaxChunks       \* bound on the data a peer sends to a socket

ASSUME EpollAssumption ==
    /\ Sorts \subseteq {"stream", "dgram", "listen"} /\ Sorts # {}
    /\ MaxReqs \in Nat /\ MaxChunks \in Nat

Reqs == 1..MaxReqs
Action == {"Recv", "Send", "Recvfrom", "Accept", "Connect"}
Dirs == {"in", "out"}       \* EPOLLIN and EPOLLOUT
Dir(k) == IF k \in {"Send", "Connect"} THEN "out" ELSE "in"

\* What TcpSocket and UdpSocket call on each sort of socket.
Calls(sort) ==
    CASE sort = "stream" -> {"Recv", "Send", "Connect"}
      [] sort = "dgram"  -> {"Recv", "Recvfrom", "Send"}
      [] sort = "listen" -> {"Accept"}

EpollTask == [action: SUBSET Action, events: SUBSET Dirs,
              item: [Dirs -> 0..MaxReqs]]
NoItems == [d \in Dirs |-> 0]
NoTask == [action |-> {}, events |-> {}, item |-> NoItems]

\* The operations of on_io_event, by do_recv, do_recvfrom, do_accept, do_send
\* and on_connected, and the item each one uses.
Operations == {"recv", "recvfrom", "accept", "send", "connected"}
Uses(op) == IF op \in {"send", "connected"} THEN "out" ELSE "in"
Own(k) ==
    CASE k = "Recv" -> "recv" [] k = "Recvfrom" -> "recvfrom"
      [] k = "Accept" -> "accept" [] k = "Send" -> "send"
      [] k = "Connect" -> "connected"

VARIABLES
    nreq,           \* how many requests have been submitted
    kind, of,       \* each request's action and fd
    returned,       \* the requests answered by a return value
    pending_tasks_, flying_tasks_,
    io,             \* where do_io is
    tasks,          \* do_io's local pending_tasks
    events,         \* the events reported and not yet handled
    cur, op,        \* the fd and the operation whose end is to be stored
    completed_task_,\* the requests whose callback is queued, in the order of
                    \* completed_task_, and has not run, harvested or not
    via,            \* via[q]: the operation whose end was q's, or "none"
    called,         \* the requests whose callback has run
    crashed,        \* the request whose callback was an empty std::function
                    \* and was called: the exception ends the process; 0: none
    added, interest,\* epoll: the fds it knows and the events it waits for
    sock, sort,     \* kernel: which socket an fd denotes, 0: none; its sort
    inbox,          \* kernel: the data or connections waiting on a socket
    arrived,        \* how many have arrived
    writable, err   \* kernel: fds a send does not block on; fds in error

requestVars == <<nreq, kind, of, returned>>
ioVars == <<io, tasks, events, cur, op>>
doneVars == <<completed_task_, via, called, crashed>>
epollVars == <<added, interest>>
kernelVars == <<sock, sort, inbox, arrived, writable, err>>
vars == <<nreq, kind, of, returned, pending_tasks_, flying_tasks_, io, tasks,
          events, cur, op, completed_task_, via, called, crashed, added,
          interest, sock, sort, inbox, arrived, writable, err>>

TypeOK ==
    /\ nreq \in 0..MaxReqs
    /\ kind \in [Reqs -> Action \union {"none"}]
    /\ of \in [Reqs -> Fds \union {0}]
    /\ returned \in SUBSET Reqs
    /\ pending_tasks_ \in [Fds -> EpollTask]
    /\ flying_tasks_ \in [Fds -> EpollTask]
    /\ io \in {"none", "queued", "submitting", "handling", "storing"}
    /\ tasks \in [Fds -> EpollTask]
    /\ events \in [Fds -> SUBSET Dirs]
    /\ cur \in Fds \union {0} /\ op \in Operations \union {"none"}
    /\ completed_task_ \in Seq(Reqs)
    /\ via \in [Reqs -> Operations \union {"none"}]
    /\ called \in SUBSET Reqs /\ crashed \in 0..MaxReqs
    /\ added \in SUBSET Fds /\ interest \in [Fds -> SUBSET Dirs]
    /\ sock \in [Fds -> 0..2] /\ sort \in [Fds -> Sorts]
    /\ inbox \in [Fds -> 0..MaxChunks] /\ arrived \in [Fds -> 0..MaxChunks]
    /\ writable \in SUBSET Fds /\ err \in SUBSET Fds

Init ==
    /\ nreq = 0 /\ returned = {}
    /\ kind = [q \in Reqs |-> "none"] /\ of = [q \in Reqs |-> 0]
    /\ pending_tasks_ = [f \in Fds |-> NoTask]
    /\ flying_tasks_ = [f \in Fds |-> NoTask]
    /\ io = "none" /\ tasks = [f \in Fds |-> NoTask]
    /\ events = [f \in Fds |-> {}] /\ cur = 0 /\ op = "none"
    /\ completed_task_ = <<>>
    /\ via = [q \in Reqs |-> "none"] /\ called = {} /\ crashed = 0
    /\ added = {} /\ interest = [f \in Fds |-> {}]
    /\ sock = [f \in Fds |-> 1] /\ sort \in [Fds -> Sorts]
    /\ inbox = [f \in Fds |-> 0] /\ arrived = [f \in Fds |-> 0]
    /\ writable = Fds /\ err = {}
-----------------------------------------------------------------------------
(* Clients, on any thread.                                                  *)

\* A request is numbered and remembered, whether it is registered or not.
Number(fd, k) ==
    /\ nreq < MaxReqs
    /\ sock[fd] # 0 /\ k \in Calls(sort[fd])
    /\ nreq' = nreq + 1
    /\ kind' = [kind EXCEPT ![nreq + 1] = k]
    /\ of' = [of EXCEPT ![nreq + 1] = fd]

\* The call itself answers: the callback is dropped.
Answer(fd, k) ==
    /\ Number(fd, k)
    /\ returned' = returned \union {nreq + 1}
    /\ UNCHANGED pending_tasks_

\* recv, recvfrom and send_async extend what is pending on the fd; the newer
\* item replaces the older one.
Extend(fd, k) ==
    /\ Number(fd, k)
    /\ pending_tasks_' = [pending_tasks_ EXCEPT
            ![fd] = [action |-> @.action \union {k},
                     events |-> @.events \union {Dir(k)},
                     item |-> [@.item EXCEPT ![Dir(k)] = nreq + 1]]]
    /\ UNCHANGED returned

\* accept and connect replace all of it.
Replace(fd, k) ==
    /\ Number(fd, k)
    /\ pending_tasks_' = [pending_tasks_ EXCEPT
            ![fd] = [action |-> {k}, events |-> {Dir(k)},
                     item |-> [NoItems EXCEPT ![Dir(k)] = nreq + 1]]]
    /\ UNCHANGED returned

recv(fd) == Extend(fd, "Recv")
recvfrom(fd) == Extend(fd, "Recvfrom")
accept(fd) == Replace(fd, "Accept")

\* A connection in progress is returned as an error.
connect(fd) == Answer(fd, "Connect") \/ Replace(fd, "Connect")

\* send_sync, on the thread of io_executor_, which start() sets and which is
\* not inside do_io: only a send that would block is registered.
send_sync(fd) ==
    /\ io = "queued"
    /\ \/ Answer(fd, "Send")
       \/ fd \notin writable /\ Extend(fd, "Send")

send_async(fd) ==
    /\ io # "none"
    /\ Extend(fd, "Send")

Submit ==
    /\ \E fd \in Fds : recv(fd) \/ recvfrom(fd) \/ accept(fd) \/ connect(fd)
                         \/ send_sync(fd) \/ send_async(fd)
    /\ UNCHANGED <<flying_tasks_, ioVars, doneVars, epollVars, kernelVars>>

start ==
    /\ io = "none"
    /\ io' = "queued"
    /\ UNCHANGED <<requestVars, pending_tasks_, flying_tasks_, tasks, events,
                   cur, op, doneVars, epollVars, kernelVars>>

\* The proactor is not told; epoll forgets the fd.
Close(fd) ==
    /\ sock[fd] = 1
    /\ sock' = [sock EXCEPT ![fd] = 0]
    /\ added' = added \ {fd} /\ interest' = [interest EXCEPT ![fd] = {}]
    /\ inbox' = [inbox EXCEPT ![fd] = 0] /\ err' = err \ {fd}
    /\ UNCHANGED <<requestVars, pending_tasks_, flying_tasks_, ioVars,
                   doneVars, sort, arrived, writable>>
-----------------------------------------------------------------------------
(* The kernel and the peers.                                                *)

Arrive(fd) ==
    /\ sock[fd] # 0 /\ arrived[fd] < MaxChunks
    /\ arrived' = [arrived EXCEPT ![fd] = @ + 1]
    /\ inbox' = [inbox EXCEPT ![fd] = @ + 1]
    /\ UNCHANGED <<sock, sort, writable, err>>

\* The send buffer of a socket fills up, or drains.
Congest(fd) ==
    /\ fd \in writable /\ writable' = writable \ {fd}
    /\ UNCHANGED <<sock, sort, inbox, arrived, err>>
Drain(fd) ==
    /\ fd \notin writable /\ writable' = writable \union {fd}
    /\ UNCHANGED <<sock, sort, inbox, arrived, err>>

\* The connection is reset: epoll reports EPOLLERR and EPOLLHUP from now on.
\* (A bound of the model: only the first socket of an fd is.)
Reset(fd) ==
    /\ sock[fd] = 1 /\ fd \notin err /\ err' = err \union {fd}
    /\ UNCHANGED <<sock, sort, inbox, arrived, writable>>

\* A new socket of the same sort gets the number of a closed one (once).
Reuse(fd) ==
    /\ sock[fd] = 0
    /\ sock' = [sock EXCEPT ![fd] = 2]
    /\ UNCHANGED <<sort, inbox, arrived, writable, err>>

Kernel ==
    /\ \E fd \in Fds : Arrive(fd) \/ Congest(fd) \/ Drain(fd) \/ Reset(fd)
                         \/ Reuse(fd)
    /\ UNCHANGED <<requestVars, pending_tasks_, flying_tasks_, ioVars,
                   doneVars, epollVars>>
-----------------------------------------------------------------------------
(* do_io, on the thread of io_executor_.                                    *)

get_pending_tasks ==
    /\ io = "queued"
    /\ io' = "submitting"
    /\ tasks' = pending_tasks_
    /\ pending_tasks_' = [f \in Fds |-> NoTask]
    /\ UNCHANGED <<requestVars, flying_tasks_, events, cur, op, doneVars,
                   epollVars, kernelVars>>

\* The flags that submit_tasks adds to those in flight: Accept becomes Recv
\* and Connect becomes Send.
Flags(n) ==
    (IF "Recv" \in n.action THEN {"Recv"} ELSE n.action \cap {"Recvfrom"})
      \union
    (IF "Send" \in n.action THEN {"Send"}
     ELSE IF "Accept" \in n.action THEN {"Recv"}
     ELSE IF "Connect" \in n.action THEN {"Send"} ELSE {})

\* What is in flight on an fd once its pending task n is submitted.
Merged(t, n) ==
    IF n = NoTask THEN t ELSE IF t = NoTask THEN n ELSE
    LET dirs == {Dir(k) : k \in Flags(n)}
    IN  [action |-> t.action \union Flags(n),
         events |-> t.events \union dirs,
         item |-> [d \in Dirs |-> IF d \in dirs THEN n.item[d]
                                                ELSE t.item[d]]]

\* Variant of Asked: nothing is asked for an fd that is known.
Asked_once(fd, n) == IF interest[fd] = {} THEN n.events ELSE interest[fd]

\* epoll_ctl is given the events of the new task alone, not of the merged one.
Asked(fd, n) == n.events

\* submit_tasks and epoll_wait.  EPOLL_CTL_ADD fails if the socket is closed,
\* EPOLL_CTL_MOD if epoll does not know the fd; both failures are ignored.
\* An fd in error is reported too, and on_io_event returns at once.
Ready(fd) ==
    {d \in Dirs : \/ d = "in" /\ inbox[fd] > 0
                  \/ d = "out" /\ fd \in writable}
Poll ==
    /\ io = "submitting"
    /\ flying_tasks_' = [f \in Fds |-> Merged(flying_tasks_[f], tasks[f])]
    /\ added' = added \union {f \in Fds : /\ tasks[f] # NoTask
                                          /\ flying_tasks_[f] = NoTask
                                          /\ sock[f] # 0}
    /\ interest' = [f \in Fds |-> IF tasks[f] # NoTask /\ f \in added'
                                    THEN Asked(f, tasks[f]) ELSE interest[f]]
    /\ tasks' = [f \in Fds |-> NoTask]
    /\ events' = [f \in Fds |-> IF f \in added' \ err
                                  THEN interest'[f] \cap Ready(f) ELSE {}]
    /\ io' = "handling"
    /\ UNCHANGED <<requestVars, pending_tasks_, cur, op, doneVars, kernelVars>>

\* Variant of Chosen: Recvfrom is looked for first.
Chosen_recvfrom_first(fd) ==
    LET flags == flying_tasks_[fd].action  ev == events[fd] IN
    IF "in" \in ev /\ "Accept" \in flags THEN "accept"
    ELSE IF "out" \in ev /\ "Connect" \in flags THEN "connected"
    ELSE IF "in" \in ev THEN IF "Recvfrom" \in flags THEN "recvfrom" ELSE "recv"
    ELSE "send"

\* The operation on_io_event chooses for what is left of an fd's events: by
\* the flags, which remember every request there ever was on the fd.
Chosen(fd) ==
    LET flags == flying_tasks_[fd].action  ev == events[fd] IN
    IF "in" \in ev /\ "Accept" \in flags THEN "accept"
    ELSE IF "out" \in ev /\ "Connect" \in flags THEN "connected"
    ELSE IF "in" \in ev THEN IF "Recv" \in flags THEN "recv" ELSE "recvfrom"
    ELSE "send"

\* do_accept and on_connected are the last; do_send comes after a read.
Left(fd) ==
    IF Chosen(fd) \in {"recv", "recvfrom"} THEN events[fd] \ {"in"} ELSE {}

\* An fd on which nothing has ever been read is not handled, whatever waits to
\* be written there.
Skip(fd) ==
    /\ io = "handling" /\ events[fd] # {}
    /\ flying_tasks_[fd].item["in"] = 0
    /\ events' = [events EXCEPT ![fd] = {}]
    /\ UNCHANGED <<requestVars, pending_tasks_, flying_tasks_, io, tasks, cur,
                   op, doneVars, epollVars, kernelVars>>

\* The system call, without mtx_: it does what it is for, fails, or would
\* block (the buffer has filled up, or a reused number denotes another
\* socket).  A closed socket fails; on_connected makes no call.
Perform(fd) ==
    LET o == Chosen(fd)  able == Uses(o) \in Ready(fd) IN
    /\ io = "handling" /\ events[fd] # {}
    /\ flying_tasks_[fd].item["in"] # 0
    /\ events' = [events EXCEPT ![fd] = Left(fd)]
    /\ \/ /\ io' = "storing" /\ cur' = fd /\ op' = o
          /\ \/ sock[fd] = 0 \/ able \/ o = "connected"
          /\ \/ UNCHANGED inbox
             \/ /\ Uses(o) = "in" /\ inbox[fd] > 0
                /\ inbox' = [inbox EXCEPT ![fd] = @ - 1]
       \/ /\ sock[fd] # 0 /\ ~able /\ o # "connected"
          /\ UNCHANGED <<io, cur, op, inbox>>
    /\ UNCHANGED <<requestVars, pending_tasks_, flying_tasks_, tasks, doneVars,
                   epollVars, sock, sort, arrived, writable, err>>

\* Variant of Store: the event of the request stays asked for.
Store_keeps_event ==
    LET d == Uses(op)  q == flying_tasks_[cur].item[d] IN
    /\ io = "storing"
    /\ UNCHANGED flying_tasks_
    /\ IF cur \in added
         THEN /\ interest' = [interest EXCEPT ![cur] = flying_tasks_'[cur].events]
              /\ completed_task_' = Append(completed_task_, q)
              /\ via' = [via EXCEPT ![q] = op]
         ELSE UNCHANGED <<interest, completed_task_, via>>
    /\ io' = "handling" /\ cur' = 0 /\ op' = "none"
    /\ UNCHANGED <<requestVars, pending_tasks_, tasks, events, called,
                   crashed, added, kernelVars>>

\* Variant of Store: epoll is not told.
Store_no_mod ==
    LET d == Uses(op)  q == flying_tasks_[cur].item[d] IN
    /\ io = "storing"
    /\ flying_tasks_' = [flying_tasks_ EXCEPT ![cur].events = @ \ {d}]
    /\ completed_task_' = Append(completed_task_, q)
    /\ via' = [via EXCEPT ![q] = op]
    /\ io' = "handling" /\ cur' = 0 /\ op' = "none"
    /\ UNCHANGED <<requestVars, pending_tasks_, tasks, events, called,
                   crashed, added, interest, kernelVars>>

\* Under mtx_: the event is no longer asked for, and the callback is queued,
\* unless epoll has forgotten the fd by now: then the result is dropped.
Store ==
    LET d == Uses(op)  q == flying_tasks_[cur].item[d] IN
    /\ io = "storing"
    /\ flying_tasks_' = [flying_tasks_ EXCEPT ![cur].events = @ \ {d}]
    /\ IF cur \in added
         THEN /\ interest' = [interest EXCEPT ![cur] = flying_tasks_'[cur].events]
              /\ completed_task_' = Append(completed_task_, q)
              /\ via' = [via EXCEPT ![q] = op]
         ELSE UNCHANGED <<interest, completed_task_, via>>
    /\ io' = "handling" /\ cur' = 0 /\ op' = "none"
    /\ UNCHANGED <<requestVars, pending_tasks_, tasks, events, called,
                   crashed, added, kernelVars>>

\* do_io posts itself with a delay of 1 ms.
Repost ==
    /\ io = "handling" /\ \A f \in Fds : events[f] = {}
    /\ io' = "queued"
    /\ UNCHANGED <<requestVars, pending_tasks_, flying_tasks_, tasks, events,
                   cur, op, doneVars, epollVars, kernelVars>>
-----------------------------------------------------------------------------
(* The executor of the callbacks.                                           *)

\* recvfrom and accept set only cb2, recv, send and connect only cb;
\* do_recvfrom binds cb2, every other operation cb, do_accept too.  So every
\* accept, and a recvfrom that do_recv performs, calls an empty std::function.
NoCallback(q) == (via[q] = "recvfrom") # (kind[q] \in {"Recvfrom", "Accept"})

\* harvest takes the callbacks in the order they were queued in, and so they
\* are run; how many at a time makes no difference to anything here.  An empty
\* one throws, and nothing catches it: the client is told nothing.
RunCallback ==
    /\ completed_task_ # <<>>
    /\ LET q == Head(completed_task_) IN
       \/ /\ ~NoCallback(q)
          /\ called' = called \union {q}
          /\ completed_task_' = Tail(completed_task_)
          /\ UNCHANGED crashed
       \/ /\ NoCallback(q)
          /\ crashed' = q
          /\ UNCHANGED <<called, completed_task_>>
    /\ UNCHANGED <<requestVars, pending_tasks_, flying_tasks_, ioVars, via,
                   epollVars, kernelVars>>
-----------------------------------------------------------------------------
do_io == get_pending_tasks \/ Poll \/ Store \/ Repost
           \/ \E fd \in Fds : Skip(fd) \/ Perform(fd)
Next ==
    \/ /\ crashed = 0
       /\ \/ Submit \/ start \/ (\E fd \in Fds : Close(fd)) \/ Kernel
          \/ do_io \/ RunCallback
    \/ crashed # 0 /\ UNCHANGED vars

Spec == Init /\ [][Next]_vars

\* Both executors keep running what is posted to them, until an exception ends
\* the process.  Clients and peers owe nothing.
FairSpec ==
    /\ Spec
    /\ WF_vars(crashed = 0 /\ do_io) /\ WF_vars(crashed = 0 /\ RunCallback)
-----------------------------------------------------------------------------
(* Properties.                                                              *)

Waits(t, q) == \E d \in t.events : t.item[d] = q

\* What epoll is asked for and what flying_tasks_ says agree, although
\* submit_tasks asks for the events of the newest task alone: for an fd epoll
\* knows, nothing is waited for in vain, an event outstanding belongs to a
\* request that is not done, and something is waited for as long as one is.
InFlight ==
    \A fd \in added :
        LET t == flying_tasks_[fd] IN
        /\ interest[fd] \subseteq t.events
        /\ t.events # {} => interest[fd] # {}
        /\ \A d \in t.events : /\ t.item[d] # 0
                               /\ t.item[d] \notin Range(completed_task_) \union called

\* A request is completed by the operation it asked for, except a send on a
\* socket that once connected (its callback gets the fd for a byte count), a
\* connect on a socket used before (an empty send stands for it) and a recvfrom
\* where there has been a recv (no address, and its callback is empty).
OwnOperation ==
    \A q \in Reqs : via[q] # "none" =>
        LET before == {kind[p] : p \in {p \in 1..q : of[p] = of[q]}} IN
        \/ via[q] = Own(kind[q])
        \/ kind[q] = "Send" /\ via[q] = "connected" /\ "Connect" \in before
        \/ kind[q] = "Connect" /\ via[q] = "send" /\ Cardinality(before) > 1
        \/ kind[q] = "Recvfrom" /\ via[q] = "recv" /\ "Recv" \in before

\* Epoll implements ProactorSpec: however clients overlap, replace and close,
\* a request is completed at most once and called only then.
Twice(q) ==
    Cardinality({i \in DOMAIN completed_task_ : completed_task_[i] = q})
      + Cardinality({q} \intersect called) > 1
Status(q) ==
    IF Twice(q) THEN "twice" ELSE
    IF q \in Range(completed_task_) THEN "completed" ELSE
    IF q \in called THEN "called" ELSE
    IF q \in returned THEN "returned" ELSE
    IF q \in 1..nreq THEN "pending" ELSE "idle"
Abstract == INSTANCE ProactorSpec WITH status <- [q \in Reqs |-> Status(q)]
ImplementsProactor == Abstract!Spec

\* A request is held where only do_io or a newer request can remove it.
Held(q, fd) ==
    \/ Waits(pending_tasks_[fd], q) \/ Waits(tasks[fd], q)
    \/ Waits(flying_tasks_[fd], q)
Newer(q, fd, kinds) == \E p \in q+1..nreq : of[p] = fd /\ kind[p] \in kinds
Reads == {"Recv", "Recvfrom", "Accept"}
Writes == {"Send", "Connect"}

\* A read whose callback the code never calls: an accept, and a recvfrom of an
\* fd that was received from with recv before.
Unheard(q) ==
    \/ kind[q] = "Accept"
    \/ /\ kind[q] = "Recvfrom"
       /\ \E p \in 1..q : of[p] = of[q] /\ kind[p] = "Recv"

\* The last read of an fd with data waiting is performed if the socket can be
\* written to (a send in flight hides the read from epoll), is not closed, is
\* not in error, and no newer read or connect takes its place.  Its client is
\* told, unless it is Unheard: then its callback ends the process instead.
ReadAnswered ==
    \A fd \in Fds : <>[](fd \in writable) =>
      \A q \in Reqs :
        /\ io # "none" /\ Held(q, fd) /\ kind[q] \in Reads /\ inbox[fd] > 0
        /\ ~\E p \in Reqs \ {q} : Held(p, fd) /\ kind[p] \in Reads
        /\ sock[fd] = 1
        ~> \/ q \in called \/ crashed \notin {0, q}
           \/ crashed = q /\ Unheard(q)
           \/ fd \in err \/ sock[fd] # 1
           \/ Newer(q, fd, Reads \union {"Connect"})

\* A write is answered on a socket that can be written to and has been read
\* from, unless a newer read hides it from epoll or a newer write replaces it.
WriteAnswered ==
    \A fd \in Fds : <>[](fd \in writable) =>
      \A q \in Reqs :
        /\ Held(q, fd) /\ kind[q] \in Writes
        /\ flying_tasks_[fd].item["in"] # 0 /\ sock[fd] = 1
        ~> \/ q \in called \/ crashed \notin {0, q}
           \/ fd \in err \/ sock[fd] # 1 \/ Newer(q, fd, Action)

\* Requests are answered, except the Unheard ones: no accept ever is, though
\* do_accept takes the connection from the kernel.
Answered ==
    /\ ReadAnswered /\ WriteAnswered
    /\ [](\A q \in called : ~Unheard(q))
=============================================================================
