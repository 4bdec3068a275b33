------------------------------- MODULE Select -------------------------------
(***************************************************************************)
(* bco::net::Select (src/net/proactor/select.cpp) between the sockets that *)
(* submit requests to it, the kernel, and the executor that harvests the   *)
(* callbacks of completed requests.                                        *)
(*                                                                         *)
(* do_io is a task that posts itself again.  Each run copies the pending   *)
(* requests under mtx_, calls ::select on the copy, performs the operation *)
(* of every request found ready and, under mtx_ again, erases the fd from  *)
(* the pending map and queues the callback.  Clients submit meanwhile.     *)
(*                                                                         *)
(* A slot <<d, fd>> stands for pending_rfds_[fd] (d = "r") or              *)
(* pending_wfds_[fd] (d = "w"); a request is its number, 0 being none.     *)
(***************************************************************************)
EXTENDS Naturals, Sequences, FiniteSets, Functions

CONSTANTS
    Fds,            \* the file descriptors in use
    SharedExecutor, \* do_io runs on the executor that runs the callbacks
    MaxReqs,        \* bound on the requests submitted
    MaxChunks       \* bound on the data a peer sends on each fd

ASSUME SelectAssumption ==
    /\ Fds \subseteq Nat
    /\ SharedExecutor \in BOOLEAN
    /\ MaxReqs \in Nat /\ MaxChunks \in Nat

Slots == {"r", "w"} \X Fds
Reqs == 1..MaxReqs
NoSlot == <<"r", 0>>

\* What a callback is given: the number of a chunk of data or of an accepted
\* connection, Done for an operation that yields none, or an error.
Done == 0
Error == MaxChunks + 1
Results == 0..(MaxChunks + 1)

VARIABLES
    nreq,           \* how many requests have been submitted
    slot,           \* slot[q]: where request q was registered
    connects,       \* the requests of Action::Connect
    returned,       \* the requests answered by a return value
    overlapped,     \* history: those replaced in the map by a newer one, and
                    \* those registered while do_io was busy with an older one
    pending,        \* pending_rfds_ and pending_wfds_
    io,             \* where do_io is
    snap,           \* reading_fds and writing_fds, do_io's copy
    ready,          \* the slots of the copy still to be handled
    cur, value,     \* the slot whose operation is done, and its result
    completed_task_,\* the requests whose callback waits for harvest()
    harvested,      \* the callbacks the executor has taken and not yet run
    queued,         \* history: how often q's callback has been queued
    result,         \* result[q]: what its callback is given
    called,         \* the requests whose callback has run
    stop_event_,    \* the event has been emitted
    inbox,          \* kernel: the data waiting on each fd, oldest first
    nchunk,         \* how many chunks the peer has sent on each fd
    writable,       \* kernel: the fds a send would not block on
    sock            \* kernel: the number of the socket an fd denotes, 0: none

requestVars == <<nreq, slot, connects, returned, overlapped>>
ioVars == <<io, snap, ready, cur, value>>
doneVars == <<completed_task_, harvested, queued, result, called>>
kernelVars == <<inbox, nchunk, writable, sock>>
vars == <<nreq, slot, connects, returned, overlapped, pending, io, snap,
          ready, cur, value, completed_task_, harvested, queued, result,
          called, stop_event_, inbox, nchunk, writable, sock>>

TypeOK ==
    /\ nreq \in 0..MaxReqs
    /\ slot \in [Reqs -> Slots \union {NoSlot}]
    /\ connects \in SUBSET Reqs /\ returned \in SUBSET Reqs
    /\ overlapped \in SUBSET Reqs
    /\ pending \in [Slots -> 0..MaxReqs]
    /\ io \in {"none", "queued", "polling", "handling", "storing", "stopped"}
    /\ snap \in [Slots -> 0..MaxReqs]
    /\ ready \in SUBSET Slots
    /\ cur \in Slots \union {NoSlot}
    /\ value \in Results
    /\ completed_task_ \in Seq(Reqs)
    /\ harvested \in Seq(Reqs)
    /\ queued \in [Reqs -> Nat]
    /\ result \in [Reqs -> Results]
    /\ called \in SUBSET Reqs
    /\ stop_event_ \in BOOLEAN
    /\ inbox \in [Fds -> Seq(1..MaxChunks)]
    /\ nchunk \in [Fds -> 0..MaxChunks]
    /\ writable \in SUBSET Fds
    /\ sock \in [Fds -> 0..2]

Init ==
    /\ nreq = 0
    /\ slot = [q \in Reqs |-> NoSlot]
    /\ connects = {} /\ returned = {} /\ overlapped = {}
    /\ pending = [s \in Slots |-> 0]
    /\ io = "none"
    /\ snap = [s \in Slots |-> 0]
    /\ ready = {} /\ cur = NoSlot /\ value = Done
    /\ completed_task_ = <<>> /\ harvested = <<>>
    /\ queued = [q \in Reqs |-> 0]
    /\ result = [q \in Reqs |-> Done]
    /\ called = {}
    /\ stop_event_ = FALSE
    /\ inbox = [f \in Fds |-> <<>>]
    /\ nchunk = [f \in Fds |-> 0]
    /\ writable = Fds
    /\ sock = [f \in Fds |-> 1]
-----------------------------------------------------------------------------
(* Clients.                                                                 *)

\* The thread of io_executor_ is inside do_io.
Busy == io \in {"polling", "handling", "storing"}

\* io_executor_, which every call uses, is set by start().
MaySubmit(s) ==
    /\ io # "none" /\ nreq < MaxReqs
    /\ sock[s[2]] > 0

\* A request is numbered and remembered, whether it is registered or not.
Number(s) ==
    /\ nreq' = nreq + 1
    /\ slot' = [slot EXCEPT ![nreq + 1] = s]

\* The slots of do_io's copy that it has not finished with.
Polled == {s \in Slots : snap[s] # 0}
Live == CASE io = "polling"  -> Polled
          [] io = "handling" -> ready
          [] io = "storing"  -> ready \union {cur}
          [] OTHER           -> {}

\* The newer request takes the place of the older one.
Register(s) ==
    /\ Number(s)
    /\ pending' = [pending EXCEPT ![s] = nreq + 1]
    /\ overlapped' = overlapped \union ({pending[s]} \ {0})
                         \union (IF s \in Live THEN {nreq + 1} ELSE {})
    /\ UNCHANGED returned

\* The call itself answers: the callback is dropped.
Answer(s) ==
    /\ Number(s)
    /\ returned' = returned \union {nreq + 1}
    /\ UNCHANGED <<pending, overlapped>>

\* recv, recvfrom and accept register a request to read.
SubmitRead(fd) ==
    /\ MaySubmit(<<"r", fd>>)
    /\ Register(<<"r", fd>>)
    /\ UNCHANGED <<connects, ioVars, doneVars, stop_event_, kernelVars>>

\* connect of a stream socket registers only when ::connect succeeds at once;
\* a connection in progress (EINPROGRESS) is returned as an error.
connect(fd) ==
    /\ MaySubmit(<<"w", fd>>)
    /\ \/ Register(<<"w", fd>>) /\ connects' = connects \union {nreq + 1}
       \/ Answer(<<"w", fd>>) /\ UNCHANGED connects
    /\ UNCHANGED <<ioVars, doneVars, stop_event_, kernelVars>>

\* send() from a thread of another executor.
send_async(fd) ==
    /\ MaySubmit(<<"w", fd>>)
    /\ Register(<<"w", fd>>)
    /\ UNCHANGED <<connects, ioVars, doneVars, stop_event_, kernelVars>>

\* send() from the thread of io_executor_: a socket that can take the data, or
\* fails, answers at once; one that would block is registered.
send_sync(fd) ==
    /\ SharedExecutor /\ ~Busy
    /\ MaySubmit(<<"w", fd>>)
    /\ \/ Answer(<<"w", fd>>)
       \/ fd \notin writable /\ Register(<<"w", fd>>)
    /\ UNCHANGED <<connects, ioVars, doneVars, stop_event_, kernelVars>>

\* start: do_io is posted.  start(unique_ptr) gives timeout_ 5 us and calls
\* start(ExecutorInterface*), which sets it to zero: ::select never waits.
start ==
    /\ io = "none"
    /\ io' = "queued"
    /\ UNCHANGED <<requestVars, pending, snap, ready, cur, value, doneVars,
                   stop_event_, kernelVars>>

stop ==
    /\ ~stop_event_
    /\ stop_event_' = TRUE
    /\ UNCHANGED <<requestVars, pending, ioVars, doneVars, kernelVars>>

\* TcpSocket::close does not tell the proactor.
Close(fd) ==
    /\ sock[fd] = 1
    /\ sock' = [sock EXCEPT ![fd] = 0]
    /\ inbox' = [inbox EXCEPT ![fd] = <<>>]
    /\ UNCHANGED <<requestVars, pending, ioVars, doneVars, stop_event_,
                   nchunk, writable>>
-----------------------------------------------------------------------------
(* The kernel and the peers.                                                *)

Arrive(fd) ==
    /\ sock[fd] > 0 /\ nchunk[fd] < MaxChunks
    /\ nchunk' = [nchunk EXCEPT ![fd] = @ + 1]
    /\ inbox' = [inbox EXCEPT ![fd] = Append(@, nchunk[fd] + 1)]
    /\ UNCHANGED <<requestVars, pending, ioVars, doneVars, stop_event_,
                   writable, sock>>

\* The send buffer of a socket fills up, or drains.
Congest(fd) ==
    /\ fd \in writable
    /\ writable' = writable \ {fd}
    /\ UNCHANGED <<requestVars, pending, ioVars, doneVars, stop_event_, inbox,
                   nchunk, sock>>

Drain(fd) ==
    /\ fd \notin writable
    /\ writable' = writable \union {fd}
    /\ UNCHANGED <<requestVars, pending, ioVars, doneVars, stop_event_, inbox,
                   nchunk, sock>>

\* A new socket gets the number of a closed one (once).
Reuse(fd) ==
    /\ sock[fd] = 0
    /\ sock' = [sock EXCEPT ![fd] = 2]
    /\ UNCHANGED <<requestVars, pending, ioVars, doneVars, stop_event_, inbox,
                   nchunk, writable>>
-----------------------------------------------------------------------------
(* do_io, on the thread of io_executor_.                                    *)

\* Variant of get_pending_io: the maps are moved, not copied.
get_pending_io_moves ==
    /\ io = "queued"
    /\ snap' = pending
    /\ pending' = [s \in Slots |-> 0]
    /\ io' = "polling"
    /\ UNCHANGED <<requestVars, ready, cur, value, doneVars, stop_event_,
                   kernelVars>>

\* do_io runs and copies the pending requests.
get_pending_io ==
    /\ io = "queued"
    /\ snap' = pending
    /\ io' = "polling"
    /\ UNCHANGED <<requestVars, pending, ready, cur, value, doneVars,
                   stop_event_, kernelVars>>

\* What ::select reports of a slot it was given.
IsReady(s) ==
    IF s[1] = "r" THEN inbox[s[2]] # <<>> ELSE s[2] \in writable

\* Variant of Poll: stop_event_ is not looked at.
Poll_no_stop ==
    /\ io = "polling"
    /\ io' = "handling"
    /\ ready' = IF \E s \in Polled : sock[s[2]] = 0
                  THEN {} ELSE {s \in Polled : IsReady(s)}
    /\ UNCHANGED <<requestVars, pending, snap, cur, value, doneVars,
                   stop_event_, kernelVars>>

\* ::select fails if any fd of the copy is closed (EBADF), and then nothing is
\* handled, stop_event_ included.
Poll ==
    /\ io = "polling"
    /\ \/ /\ \E s \in Polled : sock[s[2]] = 0
          /\ io' = "handling" /\ ready' = {} /\ UNCHANGED snap
       \/ /\ \A s \in Polled : sock[s[2]] # 0
          /\ stop_event_
          /\ io' = "stopped" /\ snap' = [s \in Slots |-> 0]
          /\ UNCHANGED ready
       \/ /\ \A s \in Polled : sock[s[2]] # 0
          /\ ~stop_event_
          /\ io' = "handling" /\ ready' = {s \in Polled : IsReady(s)}
          /\ UNCHANGED snap
    /\ UNCHANGED <<requestVars, pending, cur, value, doneVars,
                   stop_event_, kernelVars>>

\* on_io_event goes through the reads by fd, then through the writes.
Before(s, t) ==
    \/ s[1] = "r" /\ t[1] = "w"
    \/ s[1] = t[1] /\ s[2] < t[2]
First(s) == s \in ready /\ \A t \in ready \ {s} : Before(s, t)

\* The results the system call on a slot may have; none: EAGAIN, by which
\* time the fd has been closed and reused, or its buffer has filled up.
Outcomes(s) ==
    IF snap[s] \in connects THEN {Done}
    ELSE IF sock[s[2]] = 0 THEN {Error}
    ELSE IF ~IsReady(s) THEN {}
    ELSE {IF s[1] = "r" THEN Head(inbox[s[2]]) ELSE Done, Error}

\* The system call of do_recv, do_recvfrom, do_accept and do_send, made
\* without mtx_; on_connected makes none.  "Try again" leaves the request
\* pending.
Operate(s) ==
    /\ io = "handling" /\ First(s)
    /\ ready' = ready \ {s}
    /\ \/ \E v \in Outcomes(s) :
            /\ io' = "storing" /\ cur' = s /\ value' = v
            /\ inbox' = IF s[1] = "r" /\ v \in 1..MaxChunks
                          THEN [inbox EXCEPT ![s[2]] = Tail(@)] ELSE inbox
       \/ /\ Outcomes(s) = {}
          /\ UNCHANGED <<io, cur, value, inbox>>
    /\ UNCHANGED <<requestVars, pending, snap, doneVars, stop_event_, nchunk,
                   writable, sock>>

\* Variant of Store: the fd is not erased from the pending map.
Store_no_erase ==
    /\ io = "storing"
    /\ completed_task_' = Append(completed_task_, snap[cur])
    /\ queued' = [queued EXCEPT ![snap[cur]] = @ + 1]
    /\ result' = [result EXCEPT ![snap[cur]] = value]
    /\ io' = "handling" /\ cur' = NoSlot /\ value' = Done
    /\ UNCHANGED <<requestVars, pending, snap, ready, harvested, called,
                   stop_event_, kernelVars>>

\* Variant of Store: the callback is pushed to the front.
Store_front ==
    /\ io = "storing"
    /\ pending' = [pending EXCEPT ![cur] = 0]
    /\ completed_task_' = <<snap[cur]>> \o completed_task_
    /\ queued' = [queued EXCEPT ![snap[cur]] = @ + 1]
    /\ result' = [result EXCEPT ![snap[cur]] = value]
    /\ io' = "handling" /\ cur' = NoSlot /\ value' = Done
    /\ UNCHANGED <<requestVars, snap, ready, harvested, called, stop_event_,
                   kernelVars>>

\* The same functions under mtx_: whatever the map holds for the fd by now is
\* erased, and the callback of the copy is queued.
Store ==
    /\ io = "storing"
    /\ pending' = [pending EXCEPT ![cur] = 0]
    /\ completed_task_' = Append(completed_task_, snap[cur])
    /\ queued' = [queued EXCEPT ![snap[cur]] = @ + 1]
    /\ result' = [result EXCEPT ![snap[cur]] = value]
    /\ io' = "handling" /\ cur' = NoSlot /\ value' = Done
    /\ UNCHANGED <<requestVars, snap, ready, harvested, called, stop_event_,
                   kernelVars>>

\* do_io posts itself with a delay of 1 ms; its copy goes out of scope.
Repost ==
    /\ io = "handling" /\ ready = {}
    /\ io' = "queued"
    /\ snap' = [s \in Slots |-> 0]
    /\ UNCHANGED <<requestVars, pending, ready, cur, value, doneVars,
                   stop_event_, kernelVars>>
-----------------------------------------------------------------------------
(* The executor of the callbacks.                                           *)

\* Variant of harvest: the callbacks are copied, not moved.
harvest_copy ==
    /\ harvested = <<>>
    /\ ~(SharedExecutor /\ Busy)
    /\ harvested' = completed_task_
    /\ UNCHANGED <<requestVars, pending, ioVars, completed_task_, queued,
                   result, called, stop_event_, kernelVars>>

harvest ==
    /\ harvested = <<>>
    /\ ~(SharedExecutor /\ Busy)
    /\ harvested' = completed_task_
    /\ completed_task_' = <<>>
    /\ UNCHANGED <<requestVars, pending, ioVars, queued, result, called,
                   stop_event_, kernelVars>>

RunCallback ==
    /\ harvested # <<>>
    /\ ~(SharedExecutor /\ Busy)
    /\ called' = called \union {Head(harvested)}
    /\ harvested' = Tail(harvested)
    /\ UNCHANGED <<requestVars, pending, ioVars, completed_task_, queued,
                   result, stop_event_, kernelVars>>
-----------------------------------------------------------------------------
Clients == \E fd \in Fds : SubmitRead(fd) \/ connect(fd) \/ send_async(fd)
                             \/ send_sync(fd) \/ Close(fd)
Kernel == \E fd \in Fds : Arrive(fd) \/ Congest(fd) \/ Drain(fd) \/ Reuse(fd)
do_io == get_pending_io \/ Poll \/ (\E s \in Slots : Operate(s)) \/ Store
           \/ Repost
Executor == harvest \/ RunCallback

Next == Clients \/ start \/ stop \/ Kernel \/ do_io \/ Executor

Spec == Init /\ [][Next]_vars

\* The executors run what is posted to them and run every completion (TimersRun
\* and CompletionsRun of SimpleExecutor).  Fairness of Executor is strong
\* because a shared executor goes back into do_io again and again.  Clients and
\* peers owe nothing.
FairSpec == Spec /\ WF_vars(do_io) /\ SF_vars(Executor)
-----------------------------------------------------------------------------
(* Properties.                                                              *)

\* No request is lost and none is in two places: each one submitted waits in
\* a pending map, in the queue of callbacks, or in the executor's batch, or
\* has been answered.  Only one that overlapped another of its fd and
\* direction can be lost: replaced by it, or erased in its stead by Store.
Waiting(q) == \E s \in Slots : pending[s] = q
InOnePlace(q) ==
    LET places == <<Waiting(q), q \in Range(completed_task_),
                    q \in Range(harvested), q \in called, q \in returned>>
    IN  Cardinality({i \in 1..5 : places[i]}) = 1
NothingLost == \A q \in 1..nreq : InOnePlace(q) \/ q \in overlapped

\* When a result is stored, the request the map holds for the fd is the one
\* whose operation was performed without the lock, or one that was registered
\* since do_io copied the maps: such a one is erased without an answer.
EraseOwn ==
    io = "storing" => pending[cur] = snap[cur] \/ pending[cur] \in overlapped

\* The callback of a request is queued at most once, whatever clients do.
AtMostOnce == \A q \in Reqs : queued[q] <= 1

\* The callbacks of the reads of an fd run in the order of the data they are
\* given, across harvests, closes and overlapping requests.
Chunk(q) == result[q] \in 1..MaxChunks
ChunksInOrder ==
    [][\A q \in called' \ called : \A p \in called :
          slot[p] = slot[q] /\ Chunk(p) /\ Chunk(q) => result[p] < result[q]
      ]_called

\* A callback runs only after its operation: Select implements ProactorSpec.
Status(q) ==
    IF q \in Range(completed_task_) \union Range(harvested)
      THEN "completed" ELSE
    IF q \in called THEN "called" ELSE
    IF q \in returned THEN "returned" ELSE
    IF q \in 1..nreq THEN "pending" ELSE "idle"
Abstract == INSTANCE ProactorSpec WITH status <- [q \in Reqs |-> Status(q)]
ImplementsProactor == Abstract!Spec

\* Once a socket has been closed, its fd can make every ::select fail.
Closed == \E fd \in Fds : sock[fd] # 1

\* A read is answered once data is there, unless it overlapped another, Select
\* is stopped or a socket is closed.
ReadAnswered ==
    \A q \in Reqs : \A fd \in Fds :
        q <= nreq /\ slot[q] = <<"r", fd>> /\ inbox[fd] # <<>>
          ~> q \in called \union overlapped \/ stop_event_ \/ Closed

\* So is a write or a connect, if its socket stays writable.
WriteAnswered ==
    \A fd \in Fds :
        <>[](fd \in writable) =>
          \A q \in Reqs :
            q <= nreq /\ slot[q] = <<"w", fd>>
              ~> \/ q \in called \union returned \union overlapped
                 \/ stop_event_ \/ Closed

\* stop() ends do_io.
StopEnds == stop_event_ /\ io # "none" ~> io = "stopped" \/ Closed

\* Every request is answered, until stop() ends do_io, unless clients overlap
\* it with another or close sockets.
Answered == ReadAnswered /\ WriteAnswered /\ StopEnds
=============================================================================
