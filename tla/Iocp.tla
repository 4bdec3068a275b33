-------------------------------- MODULE Iocp --------------------------------
(***************************************************************************)
(* bco::net::IOCP (src/net/proactor/iocp.cpp) between the sockets that     *)
(* submit requests to it, the completion port, and the executor of the     *)
(* callbacks.                                                              *)
(*                                                                         *)
(* Each request is an OverlapInfo given to the kernel, which puts a packet *)
(* for it on the port when the operation is over.  iocp_loop, a thread of  *)
(* the proactor's own, takes the packets in order, queues the callbacks of *)
(* those that succeeded and deletes their OverlapInfo.  stop() puts an     *)
(* exit packet on the port; the destructor joins the thread.               *)
(***************************************************************************)
EXTENDS Naturals, Sequences, FiniteSets, Functions

CONSTANT MaxReqs        \* bound on the requests submitted

ASSUME IocpAssumption == MaxReqs \in Nat

Reqs == 1..MaxReqs

\* A packet is a request and whether it succeeded, or kExitKey.
Exit == [req |-> 0, ok |-> FALSE]
Packets == [req: Reqs, ok: BOOLEAN] \union {Exit}

VARIABLES
    nreq,           \* how many requests have been submitted
    returned,       \* the requests answered by a return value
    overlaps,       \* the requests whose OverlapInfo is allocated
    inkernel,       \* kernel: the requests in progress
    port,           \* kernel: the packets on complete_port_
    stopped,        \* stop() has been called
    first,          \* history: what was on the port when it was
    loop, cur,      \* where iocp_loop is, and the packet it has taken
    completed_tasks_, harvested, called,
    life            \* of the IOCP object

requestVars == <<nreq, returned>>
kernelVars == <<inkernel, port>>
loopVars == <<loop, cur>>
doneVars == <<completed_tasks_, harvested, called>>
vars == <<nreq, returned, overlaps, inkernel, port, stopped, first,
          loop, cur, completed_tasks_, harvested, called, life>>

TypeOK ==
    /\ nreq \in 0..MaxReqs
    /\ returned \in SUBSET Reqs /\ overlaps \in SUBSET Reqs
    /\ inkernel \in SUBSET Reqs /\ port \in Seq(Packets)
    /\ stopped \in BOOLEAN /\ first \in SUBSET Packets
    /\ loop \in {"none", "waiting", "handling", "exited"}
    /\ cur \in 0..MaxReqs
    /\ completed_tasks_ \in Seq(Reqs) /\ harvested \in Seq(Reqs)
    /\ called \in SUBSET Reqs
    /\ life \in {"live", "joining", "gone", "terminated"}

Init ==
    /\ nreq = 0 /\ returned = {} /\ overlaps = {}
    /\ inkernel = {} /\ port = <<>>
    /\ stopped = FALSE /\ first = {}
    /\ loop = "none" /\ cur = 0
    /\ completed_tasks_ = <<>> /\ harvested = <<>> /\ called = {}
    /\ life = "live"
-----------------------------------------------------------------------------
(* Clients, on any thread, while the object lives.                          *)

Number ==
    /\ life = "live" /\ nreq < MaxReqs
    /\ nreq' = nreq + 1

\* The operation has succeeded or is pending: either way a packet will come.
Pend ==
    /\ Number
    /\ overlaps' = overlaps \union {nreq + 1}
    /\ inkernel' = inkernel \union {nreq + 1}
    /\ UNCHANGED returned

\* The operation fails at once, and its OverlapInfo is kept or deleted.
Fail(keeps) ==
    /\ Number
    /\ returned' = returned \union {nreq + 1}
    /\ overlaps' = IF keeps THEN overlaps \union {nreq + 1} ELSE overlaps
    /\ UNCHANGED inkernel

\* recv, recvfrom and send with a callback.
Transfer == Pend \/ Fail(TRUE)

\* Variant of Connection: one that is pending is taken for a failure.
Connection_deletes ==
    /\ Number
    /\ inkernel' = inkernel \union {nreq + 1}
    /\ UNCHANGED <<returned, overlaps>>

\* accept and connect: the OverlapInfo of an accept is deleted if there is no
\* new socket, that of a connect if ConnectEx fails.
Connection == Pend \/ Fail(TRUE) \/ Fail(FALSE)

\* send and sendto without a callback, and connect of a datagram socket.
Immediate == Fail(FALSE)

Submit ==
    /\ Transfer \/ Connection \/ Immediate
    /\ UNCHANGED <<port, stopped, first, loopVars, doneVars, life>>

start ==
    /\ life = "live" /\ loop = "none"
    /\ loop' = "waiting"
    /\ UNCHANGED <<requestVars, overlaps, kernelVars, stopped, first, cur,
                   doneVars, life>>

\* Variant of stop: the exit packet overtakes the others.
stop_first ==
    /\ life = "live" /\ ~stopped
    /\ stopped' = TRUE
    /\ first' = Range(port)
    /\ port' = <<Exit>> \o port
    /\ UNCHANGED <<requestVars, overlaps, inkernel, loopVars, doneVars, life>>

stop ==
    /\ life = "live" /\ ~stopped
    /\ stopped' = TRUE
    /\ first' = Range(port)
    /\ port' = Append(port, Exit)
    /\ UNCHANGED <<requestVars, overlaps, inkernel, loopVars, doneVars, life>>

\* The destructor joins the thread: without stop() it waits for good, and
\* without start() join() throws.
Destroy ==
    /\ life = "live"
    /\ life' = IF loop = "none" THEN "terminated" ELSE "joining"
    /\ UNCHANGED <<requestVars, overlaps, kernelVars, stopped, first, loopVars,
                   doneVars>>
Joined ==
    /\ life = "joining" /\ loop = "exited"
    /\ life' = "gone"
    /\ UNCHANGED <<requestVars, overlaps, kernelVars, stopped, first, loopVars,
                   doneVars>>
-----------------------------------------------------------------------------
(* The kernel: an operation ends, well or not (a reset, a closed socket).   *)

Complete(q, ok) ==
    /\ q \in inkernel
    /\ inkernel' = inkernel \ {q}
    /\ port' = Append(port, [req |-> q, ok |-> ok])
    /\ UNCHANGED <<requestVars, overlaps, stopped, first, loopVars, doneVars,
                   life>>
-----------------------------------------------------------------------------
(* iocp_loop.  A wait that times out changes nothing.                       *)

\* Variant of Take: the loop ends when a packet is not a success.
Take_ends ==
    /\ loop = "waiting" /\ port # <<>>
    /\ port' = Tail(port)
    /\ \/ Head(port).ok /\ loop' = "handling" /\ cur' = Head(port).req
       \/ ~Head(port).ok /\ loop' = "exited" /\ UNCHANGED cur
    /\ UNCHANGED <<requestVars, overlaps, inkernel, stopped, first, doneVars,
                   life>>

\* Variant of Take: a packet stays until it has been handled.
Take_keeps ==
    /\ loop = "waiting" /\ port # <<>>
    /\ \/ Head(port) = Exit /\ loop' = "exited" /\ UNCHANGED cur
       \/ Head(port).ok /\ loop' = "handling" /\ cur' = Head(port).req
    /\ UNCHANGED <<requestVars, overlaps, kernelVars, stopped, first, doneVars,
                   life>>

\* A packet of a failed operation is dropped: its callback never runs and its
\* OverlapInfo stays.
Take ==
    /\ loop = "waiting" /\ port # <<>>
    /\ port' = Tail(port)
    /\ \/ /\ Head(port) = Exit
          /\ loop' = "exited" /\ UNCHANGED cur
       \/ /\ Head(port) # Exit /\ ~Head(port).ok
          /\ UNCHANGED <<loop, cur>>
       \/ /\ Head(port).ok
          /\ loop' = "handling" /\ cur' = Head(port).req
    /\ UNCHANGED <<requestVars, overlaps, inkernel, stopped, first, doneVars,
                   life>>

\* The callback, a copy of the one in the OverlapInfo, is queued under mtx_.
\* (The socket of an accept is given to the port first.)
handle_overlap_success ==
    /\ loop = "handling"
    /\ completed_tasks_' = Append(completed_tasks_, cur)
    /\ overlaps' = overlaps \ {cur}
    /\ loop' = "waiting" /\ cur' = 0
    /\ UNCHANGED <<requestVars, kernelVars, stopped, first, harvested, called,
                   life>>
-----------------------------------------------------------------------------
(* The executor of the callbacks.                                           *)

harvest ==
    /\ life # "gone"
    /\ harvested = <<>> /\ completed_tasks_ # <<>>
    /\ harvested' = completed_tasks_ /\ completed_tasks_' = <<>>
    /\ UNCHANGED <<requestVars, overlaps, kernelVars, stopped, first, loopVars,
                   called, life>>

RunCallback ==
    /\ harvested # <<>>
    /\ called' = called \union {Head(harvested)}
    /\ harvested' = Tail(harvested)
    /\ UNCHANGED <<requestVars, overlaps, kernelVars, stopped, first, loopVars,
                   completed_tasks_, life>>
-----------------------------------------------------------------------------
iocp_loop == Take \/ handle_overlap_success
Executor == harvest \/ RunCallback

Next ==
    \/ /\ life # "terminated"
       /\ \/ Submit \/ start \/ stop \/ Destroy \/ Joined
          \/ (\E q \in Reqs, ok \in BOOLEAN : Complete(q, ok))
          \/ iocp_loop \/ Executor
    \/ life \in {"joining", "gone", "terminated"} /\ UNCHANGED vars

Spec == Init /\ [][Next]_vars

\* The two threads go on.  No operation has to end, and nobody has to call.
FairSpec ==
    /\ Spec
    /\ WF_vars(life # "terminated" /\ (iocp_loop \/ Joined))
    /\ WF_vars(life # "terminated" /\ Executor)
-----------------------------------------------------------------------------
(* Properties.                                                              *)

\* The kernel and the loop refer to OverlapInfos that are still allocated,
\* one packet each, whichever calls failed, were pending or were dropped.
LiveOverlaps ==
    LET packets == {i \in DOMAIN port : port[i] # Exit}
        inport == {port[i].req : i \in packets}
        taken == {cur} \ {0}
    IN  /\ inkernel \union inport \union taken \subseteq overlaps
        /\ Cardinality(packets) = Cardinality(inport)
        /\ inkernel \cap (inport \union taken) = {} /\ inport \cap taken = {}

\* When the loop exits, everything that had completed before stop() has been
\* handled: each success of that time has its callback queued or run.
DrainsBeforeExit ==
    loop = "exited" => \A p \in first : p.ok =>
        p.req \in Range(completed_tasks_) \union Range(harvested) \union called

\* IOCP implements ProactorSpec.
Status(q) ==
    IF q \in Range(completed_tasks_) \union Range(harvested)
      THEN "completed" ELSE
    IF q \in called THEN "called" ELSE
    IF q \in returned THEN "returned" ELSE
    IF q \in 1..nreq THEN "pending" ELSE "idle"
Abstract == INSTANCE ProactorSpec WITH status <- [q \in Reqs |-> Status(q)]
ImplementsProactor == Abstract!Spec

\* A request whose operation succeeds before stop() is answered, if the object
\* lives long enough; and the destructor returns once there is a stop().
Answered ==
    /\ \A q \in Reqs :
         loop # "none" /\ ~stopped /\ [req |-> q, ok |-> TRUE] \in Range(port)
           ~> q \in called \/ life # "live"
    /\ life = "joining" /\ stopped ~> life = "gone"
=============================================================================
