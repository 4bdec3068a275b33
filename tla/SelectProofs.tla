---------------------------- MODULE SelectProofs ----------------------------
(***************************************************************************)
(* Proofs about Select, for every set of fds and any number of requests,   *)
(* whether clients overlap their requests and close sockets or not: its    *)
(* invariants, that it implements ProactorSpec and that data come in       *)
(* order.                                                                  *)
(***************************************************************************)
EXTENDS Select, QueueLemmas, FiniteSetTheorems, TLAPS

-----------------------------------------------------------------------------
(* The inductive invariant.                                                 *)

\* A request still to be completed: submitted for s, and not answered.
OpenAt(q, s) ==
    /\ q \in 1..nreq /\ slot[q] = s
    /\ queued[q] = 0 /\ q \notin returned

\* What the maps hold is open.
PendingOpen == \A s \in Slots : pending[s] # 0 => OpenAt(pending[s], s)

\* What do_io's copy holds for the slots it has not finished with is open,
\* although the map may have moved on.
SnapOpen ==
    /\ \A s \in Live : s \in Slots /\ snap[s] # 0 /\ OpenAt(snap[s], s)
    /\ io = "storing" => cur \notin ready

\* A callback was queued as often as it is in a queue or has run.
InQueue == Range(completed_task_) \union Range(harvested)
Queued ==
    /\ \A q \in Reqs : queued[q] = IF q \in InQueue \union called THEN 1 ELSE 0
    /\ IsInjective(completed_task_) /\ IsInjective(harvested)
    /\ Range(completed_task_) \cap (Range(harvested) \union called) = {}
    /\ Range(harvested) \cap called = {}
    /\ InQueue \union called \subseteq 1..nreq
    /\ returned \subseteq 1..nreq
    /\ returned \cap (InQueue \union called) = {}

IInv == TypeOK /\ PendingOpen /\ SnapOpen /\ Queued

LEMMA SlotParts ==
  /\ \A s \in Slots : s[1] \in {"r", "w"} /\ s[2] \in Fds
  /\ \A fd \in Fds : <<"r", fd>> \in Slots /\ <<"w", fd>> \in Slots
  BY DEF Slots

LEMMA InitInv == Init => IInv
<1> SUFFICES ASSUME Init PROVE IInv
  OBVIOUS
<1>1. TypeOK
  <2>1. /\ nreq \in 0..MaxReqs /\ value \in Results
        /\ [q \in Reqs |-> 0] \in [Reqs -> Nat]
        /\ [q \in Reqs |-> Done] \in [Reqs -> Results]
        /\ [s \in Slots |-> 0] \in [Slots -> 0..MaxReqs]
        /\ [f \in Fds |-> 0] \in [Fds -> 0..MaxChunks]
        /\ [f \in Fds |-> 1] \in [Fds -> 0..2]
    BY SelectAssumption DEF Init, Results, Done
  <2>2. /\ [q \in Reqs |-> NoSlot] \in [Reqs -> Slots \union {NoSlot}]
        /\ [f \in Fds |-> <<>>] \in [Fds -> Seq(1..MaxChunks)]
        /\ <<>> \in Seq(Reqs)
    OBVIOUS
  <2> QED
    BY <2>1, <2>2 DEF Init, TypeOK
<1>2. PendingOpen /\ SnapOpen
  BY DEF Init, PendingOpen, SnapOpen, Live
<1>3. Queued
  BY EmptyRange DEF Init, Queued, InQueue
<1> QED
  BY <1>1, <1>2, <1>3 DEF IInv

\* A new request is open, and the others stay as they are.
LEMMA SubmitInv ==
  ASSUME IInv, NEW s \in Slots, MaySubmit(s), Register(s) \/ Answer(s),
         connects' = connects \/ connects' = connects \union {nreq + 1},
         UNCHANGED <<ioVars, doneVars, stop_event_, kernelVars>>
  PROVE  IInv'
<1> USE DEF ioVars, doneVars, kernelVars, requestVars
<1>1. /\ nreq \in Nat /\ nreq < MaxReqs /\ MaxReqs \in Nat
      /\ nreq + 1 \in Reqs /\ nreq' = nreq + 1
      /\ slot' = [slot EXCEPT ![nreq + 1] = s]
  BY SelectAssumption
     DEF IInv, TypeOK, MaySubmit, Reqs, Register, Answer, Number
<1>2. /\ nreq + 1 \notin 1..nreq
      /\ 1..nreq \subseteq 1..nreq'
      /\ nreq + 1 \in 1..nreq'
  BY <1>1
<1>3. TypeOK'
  <2>1. nreq' \in 0..MaxReqs
    BY <1>1
  <2>2. slot' \in [Reqs -> Slots \union {NoSlot}]
    BY <1>1 DEF IInv, TypeOK
  <2>3. overlapped' \in SUBSET Reqs
    <3>1. pending[s] \in 0..MaxReqs /\ overlapped \in SUBSET Reqs
      BY DEF IInv, TypeOK
    <3>2. {pending[s]} \ {0} \subseteq Reqs
      BY <1>1, <3>1 DEF Reqs
    <3> QED
      BY <1>1, <3>1, <3>2 DEF Register, Answer
  <2>4. connects' \in SUBSET Reqs /\ returned' \in SUBSET Reqs
    BY <1>1 DEF IInv, TypeOK, Register, Answer
  <2>5. pending' \in [Slots -> 0..MaxReqs]
    <3>1. pending \in [Slots -> 0..MaxReqs]
      BY DEF IInv, TypeOK
    <3>2. \/ pending' = [pending EXCEPT ![s] = nreq + 1]
          \/ pending' = pending
      BY DEF Register, Answer
    <3>3. nreq + 1 \in 0..MaxReqs
      BY <1>1
    <3> QED
      BY <3>1, <3>2, <3>3
  <2> QED
    BY <2>1, <2>2, <2>3, <2>4, <2>5 DEF IInv, TypeOK
<1>4. /\ nreq + 1 \notin returned
      /\ nreq + 1 \notin InQueue \union called
      /\ queued[nreq + 1] = 0
      /\ InQueue' = InQueue
  BY <1>1, <1>2 DEF IInv, Queued, InQueue
<1>5. \A q, t : OpenAt(q, t) => OpenAt(q, t)'
  BY <1>1, <1>2 DEF OpenAt, IInv, TypeOK, Register, Answer
<1>6. PendingOpen'
  <2>1. CASE Register(s)
    <3>1. pending' = [pending EXCEPT ![s] = nreq + 1] /\ returned' = returned
      BY <2>1 DEF Register
    <3>2. ASSUME NEW q, q = nreq + 1 PROVE OpenAt(q, s)'
      <4>1. slot'[q] = s
        BY <1>1, <3>2 DEF IInv, TypeOK
      <4> QED
        BY <1>2, <1>4, <3>1, <3>2, <4>1 DEF OpenAt
    <3>3. \A t \in Slots : pending'[t] = IF t = s THEN nreq + 1 ELSE pending[t]
      BY <3>1 DEF IInv, TypeOK
    <3> QED
      BY <1>5, <3>2, <3>3 DEF PendingOpen, IInv
  <2>2. CASE Answer(s)
    BY <1>5, <2>2 DEF PendingOpen, IInv, Answer
  <2> QED
    BY <2>1, <2>2
<1>7. SnapOpen'
  <2>1. Live' = Live
    BY DEF Live, Polled
  <2> QED
    BY <1>5, <2>1 DEF SnapOpen, IInv
<1>8. Queued'
  <2>1. returned' \in {returned, returned \union {nreq + 1}}
    BY DEF Register, Answer
  <2> QED
    BY <1>2, <1>4, <2>1 DEF IInv, Queued
<1> QED
  BY <1>3, <1>6, <1>7, <1>8 DEF IInv

LEMMA ClientsInv ==
  ASSUME IInv, NEW fd \in Fds,
         SubmitRead(fd) \/ connect(fd) \/ send_async(fd) \/ send_sync(fd)
  PROVE  IInv'
<1>1. <<"r", fd>> \in Slots /\ <<"w", fd>> \in Slots
  BY SlotParts
<1>2. CASE SubmitRead(fd)
  BY <1>1, <1>2, SubmitInv DEF SubmitRead
<1>3. CASE connect(fd)
  BY <1>1, <1>3, SubmitInv DEF connect
<1>4. CASE send_async(fd)
  BY <1>1, <1>4, SubmitInv DEF send_async
<1>5. CASE send_sync(fd)
  BY <1>1, <1>5, SubmitInv DEF send_sync
<1> QED
  BY <1>2, <1>3, <1>4, <1>5

\* The kernel, start() and stop() touch no request.
LEMMA QuietInv ==
  ASSUME IInv,
         start \/ stop \/ Kernel \/ (\E fd \in Fds : Close(fd))
           \/ UNCHANGED vars
  PROVE  IInv'
<1> USE DEF ioVars, doneVars, kernelVars, requestVars, vars
<1>1. UNCHANGED <<requestVars, pending, snap, ready, cur, value, doneVars>>
  BY DEF start, stop, Kernel, Close, Arrive, Congest, Drain, Reuse
<1>2. \/ io' = io
      \/ io = "none" /\ io' = "queued"
  BY DEF start, stop, Kernel, Close, Arrive, Congest, Drain, Reuse
<1>3. inbox' \in [Fds -> Seq(1..MaxChunks)]
  <2>1. ASSUME NEW fd \in Fds, Arrive(fd)
        PROVE  inbox' \in [Fds -> Seq(1..MaxChunks)]
    <3>1. nchunk[fd] + 1 \in 1..MaxChunks
      BY <2>1, SelectAssumption DEF Arrive, IInv, TypeOK
    <3>2. Append(inbox[fd], nchunk[fd] + 1) \in Seq(1..MaxChunks)
      BY <3>1 DEF IInv, TypeOK
    <3> QED
      BY <2>1, <3>2 DEF Arrive, IInv, TypeOK
  <2>2. ASSUME NEW fd \in Fds, Close(fd)
        PROVE  inbox' \in [Fds -> Seq(1..MaxChunks)]
    BY <2>2 DEF Close, IInv, TypeOK
  <2>3. \/ \E fd \in Fds : Arrive(fd) \/ Close(fd)
        \/ inbox' = inbox
    BY DEF start, stop, Kernel, Congest, Drain, Reuse
  <2> QED
    BY <2>1, <2>2, <2>3 DEF IInv, TypeOK
<1>4. /\ nchunk' \in [Fds -> 0..MaxChunks] /\ writable' \in SUBSET Fds
      /\ sock' \in [Fds -> 0..2] /\ stop_event_' \in BOOLEAN
  <2>1. ASSUME NEW fd \in Fds, Arrive(fd)
        PROVE  nchunk' \in [Fds -> 0..MaxChunks]
    <3>1. nchunk \in [Fds -> 0..MaxChunks]
      BY DEF IInv, TypeOK
    <3>2. nchunk[fd] + 1 \in 0..MaxChunks
      BY <2>1, <3>1, SelectAssumption DEF Arrive
    <3> QED
      BY <2>1, <3>1, <3>2 DEF Arrive
  <2>2. (\E fd \in Fds : Arrive(fd)) \/ nchunk' = nchunk
    BY DEF start, stop, Kernel, Close, Congest, Drain, Reuse
  <2>3. nchunk' \in [Fds -> 0..MaxChunks]
    BY <2>1, <2>2 DEF IInv, TypeOK
  <2>4. writable' \in SUBSET Fds /\ stop_event_' \in BOOLEAN
    BY DEF start, stop, Kernel, Close, Arrive, Congest, Drain, Reuse, IInv, TypeOK
  <2>5. \/ \E fd \in Fds : \E n \in {0, 2} : sock' = [sock EXCEPT ![fd] = n]
        \/ sock' = sock
    BY DEF start, stop, Kernel, Close, Arrive, Congest, Drain, Reuse
  <2>6. sock' \in [Fds -> 0..2]
    <3>1. sock \in [Fds -> 0..2]
      BY DEF IInv, TypeOK
    <3>2. 0 \in 0..2 /\ 2 \in 0..2
      OBVIOUS
    <3> QED
      BY <2>5, <3>1, <3>2
  <2> QED
    BY <2>3, <2>4, <2>6
<1>5. TypeOK'
  BY <1>1, <1>2, <1>3, <1>4 DEF IInv, TypeOK
<1>6. PendingOpen'
  BY <1>1 DEF IInv, PendingOpen, OpenAt
<1>7. SnapOpen'
  BY <1>1, <1>2 DEF IInv, SnapOpen, OpenAt, Live, Polled
<1>8. Queued'
  BY <1>1 DEF IInv, Queued, InQueue
<1> QED
  BY <1>5, <1>6, <1>7, <1>8 DEF IInv

\* The steps of do_io that complete nothing.
LEMMA PollingInv ==
  ASSUME IInv, get_pending_io \/ Poll \/ Repost
  PROVE  IInv'
<1> USE DEF ioVars, doneVars, kernelVars, requestVars
<1>1. /\ UNCHANGED <<requestVars, pending, cur, value, doneVars, stop_event_,
                     kernelVars>>
      /\ io' \in {"queued", "polling", "handling", "stopped"}
      /\ \/ snap' = snap \/ snap' = pending \/ snap' = [s \in Slots |-> 0]
      /\ ready' = ready \/ ready' \in SUBSET Slots
  BY DEF get_pending_io, Poll, Repost, Polled
<1>2. TypeOK'
  <2>1. [s \in Slots |-> 0] \in [Slots -> 0..MaxReqs]
    BY SelectAssumption
  <2> QED
    BY <1>1, <2>1 DEF IInv, TypeOK
<1>3. PendingOpen'
  BY <1>1 DEF IInv, PendingOpen, OpenAt
<1>4. \A q, s : OpenAt(q, s) => OpenAt(q, s)'
  BY <1>1 DEF OpenAt
<1>5. SnapOpen'
  <2>1. CASE get_pending_io
    BY <2>1, <1>4 DEF get_pending_io, IInv, SnapOpen, PendingOpen, Live, Polled
  <2>2. CASE Poll
    <3>1. io = "polling" /\ Live = Polled
      BY <2>2 DEF Poll, Live
    <3>2. \/ io' = "stopped"
          \/ io' = "handling" /\ ready' \subseteq Polled /\ snap' = snap
      BY <2>2 DEF Poll
    <3>3. Live' \subseteq Live /\ (Live' = {} \/ snap' = snap)
      BY <3>1, <3>2 DEF Live
    <3> QED
      BY <1>4, <3>2, <3>3 DEF IInv, SnapOpen
  <2>3. CASE Repost
    BY <2>3 DEF Repost, SnapOpen, Live
  <2> QED
    BY <2>1, <2>2, <2>3
<1>6. Queued'
  BY <1>1 DEF IInv, Queued, InQueue
<1> QED
  BY <1>2, <1>3, <1>5, <1>6 DEF IInv

LEMMA OperateInv ==
  ASSUME IInv, NEW s \in Slots, Operate(s)
  PROVE  IInv'
<1> USE DEF ioVars, doneVars, kernelVars, requestVars
<1>1. /\ UNCHANGED <<requestVars, pending, snap, doneVars, stop_event_,
                     nchunk, writable, sock>>
      /\ io = "handling" /\ s \in ready /\ ready' = ready \ {s}
  BY DEF Operate, First
<1>2. CASE \E v \in Outcomes(s) :
             /\ io' = "storing" /\ cur' = s /\ value' = v
             /\ inbox' = IF s[1] = "r" /\ v \in 1..MaxChunks
                           THEN [inbox EXCEPT ![s[2]] = Tail(@)] ELSE inbox
  <2>1. PICK v \in Outcomes(s) :
             /\ io' = "storing" /\ cur' = s /\ value' = v
             /\ inbox' = IF s[1] = "r" /\ v \in 1..MaxChunks
                           THEN [inbox EXCEPT ![s[2]] = Tail(@)] ELSE inbox
    BY <1>2
  <2>2. s[2] \in Fds /\ inbox[s[2]] \in Seq(1..MaxChunks)
    BY SlotParts DEF IInv, TypeOK
  <2>3. v \in Results
    <3>1. inbox[s[2]] # <<>> => Head(inbox[s[2]]) \in 1..MaxChunks
      BY <2>2, HeadTailRange
    <3> QED
      BY <3>1, SelectAssumption
         DEF Outcomes, IsReady, Results, Done, Error
  <2>4. v \in 1..MaxChunks /\ s[1] = "r" => inbox[s[2]] # <<>>
    BY SelectAssumption DEF Outcomes, IsReady, Done, Error
  <2>5. inbox' \in [Fds -> Seq(1..MaxChunks)]
    <3>1. inbox[s[2]] # <<>> => Tail(inbox[s[2]]) \in Seq(1..MaxChunks)
      BY <2>2, HeadTailRange
    <3> QED
      BY <2>1, <2>2, <2>4, <3>1 DEF IInv, TypeOK
  <2>6. TypeOK'
    BY <1>1, <2>1, <2>3, <2>5 DEF IInv, TypeOK
  <2>7. Live' \subseteq Live /\ cur' \notin ready'
    BY <1>1, <2>1 DEF Live
  <2> QED
    BY <1>1, <2>6, <2>7
       DEF IInv, PendingOpen, SnapOpen, OpenAt, Queued, InQueue
<1>3. CASE UNCHANGED <<io, cur, value, inbox>>
  <2>1. TypeOK'
    BY <1>1, <1>3 DEF IInv, TypeOK
  <2>2. Live' \subseteq Live
    BY <1>1, <1>3 DEF Live
  <2> QED
    BY <1>1, <1>3, <2>1, <2>2
       DEF IInv, PendingOpen, SnapOpen, OpenAt, Queued, InQueue
<1> QED
  BY <1>2, <1>3 DEF Operate

\* The completed request was open, so that it is queued for the first time;
\* it is in no other slot of the map or of the copy.
LEMMA StoreInv ==
  ASSUME IInv, Store
  PROVE  IInv'
<1> USE DEF kernelVars, requestVars
<1>1. PICK k \in Reqs : k = snap[cur] /\ cur \in Slots /\ OpenAt(k, cur)
  <2>1. cur \in Slots /\ snap[cur] # 0 /\ OpenAt(snap[cur], cur)
    BY DEF Store, IInv, SnapOpen, Live
  <2>2. snap[cur] \in Reqs
    BY <2>1, SelectAssumption DEF IInv, TypeOK, Reqs
  <2> QED
    BY <2>1, <2>2
<1>2. /\ io = "storing" /\ io' = "handling"
      /\ pending' = [pending EXCEPT ![cur] = 0]
      /\ completed_task_' = Append(completed_task_, k)
      /\ queued' = [queued EXCEPT ![k] = @ + 1]
      /\ result' = [result EXCEPT ![k] = value]
      /\ cur' = NoSlot /\ value' = Done
      /\ UNCHANGED <<requestVars, snap, ready, harvested, called, stop_event_,
                     kernelVars>>
  BY <1>1 DEF Store
<1>3. k \in 1..nreq /\ slot[k] = cur /\ queued[k] = 0 /\ k \notin returned
  BY <1>1 DEF OpenAt
<1>4. k \notin InQueue \union called
  BY <1>1, <1>3 DEF IInv, Queued
<1>5. /\ completed_task_' \in Seq(Reqs)
      /\ Range(completed_task_') = Range(completed_task_) \union {k}
      /\ IsInjective(completed_task_')
  BY <1>1, <1>2, <1>4, AppendRange DEF IInv, TypeOK, Queued, InQueue
<1>6. \A q \in Reqs : queued'[q] = IF q = k THEN 1 ELSE queued[q]
  BY <1>1, <1>2, <1>3 DEF IInv, TypeOK
<1>7. TypeOK'
  <2>1. pending' \in [Slots -> 0..MaxReqs]
    <3>1. pending \in [Slots -> 0..MaxReqs] /\ 0 \in 0..MaxReqs
      BY SelectAssumption DEF IInv, TypeOK
    <3> QED
      BY <1>2, <3>1
  <2>2. queued' \in [Reqs -> Nat]
    BY <1>2 DEF IInv, TypeOK
  <2>3. result' \in [Reqs -> Results]
    BY <1>2 DEF IInv, TypeOK
  <2>4. value' \in Results
    BY <1>2, SelectAssumption DEF Results, Done
  <2> QED
    BY <1>2, <1>5, <2>1, <2>2, <2>3, <2>4 DEF IInv, TypeOK
<1>8. ASSUME NEW q, NEW s \in Slots, s # cur, OpenAt(q, s), q \in Reqs
      PROVE  OpenAt(q, s)'
  BY <1>2, <1>3, <1>6, <1>8 DEF OpenAt
<1>9. 1..nreq \subseteq Reqs
  BY SelectAssumption DEF IInv, TypeOK, Reqs
<1>10. PendingOpen'
  <2> SUFFICES ASSUME NEW s \in Slots, (pending[s] # 0)'
               PROVE  OpenAt(pending[s], s)'
    BY DEF PendingOpen
  <2>1. s # cur /\ pending'[s] = pending[s]
    BY <1>2 DEF IInv, TypeOK
  <2>2. PICK q \in Reqs : q = pending[s] /\ OpenAt(q, s)
    BY <1>9, <2>1 DEF IInv, PendingOpen, OpenAt
  <2>3. OpenAt(q, s)'
    BY <1>8, <2>1, <2>2
  <2> QED
    BY <2>1, <2>2, <2>3
<1>11. SnapOpen'
  <2>1. Live' = ready /\ ready \subseteq Live /\ cur \notin ready
    BY <1>2 DEF Live, IInv, SnapOpen
  <2>2. ASSUME NEW s \in ready
        PROVE  (s \in Slots /\ snap[s] # 0 /\ OpenAt(snap[s], s))'
    <3>1. s \in Slots /\ snap[s] # 0 /\ s # cur
      BY <2>1 DEF IInv, SnapOpen
    <3>2. PICK q \in Reqs : q = snap[s] /\ OpenAt(q, s)
      BY <1>9, <2>1 DEF IInv, SnapOpen, OpenAt
    <3>3. OpenAt(q, s)'
      BY <1>8, <3>1, <3>2
    <3> QED
      BY <1>2, <3>1, <3>2, <3>3
  <2> QED
    BY <1>2, <2>1, <2>2 DEF SnapOpen
<1>12. Queued'
  <2>1. InQueue' = InQueue \union {k}
    BY <1>2, <1>5 DEF InQueue
  <2> QED
    BY <1>2, <1>3, <1>4, <1>5, <1>6, <2>1 DEF IInv, Queued, InQueue
<1> QED
  BY <1>7, <1>10, <1>11, <1>12 DEF IInv

LEMMA ExecutorInv ==
  ASSUME IInv, Executor
  PROVE  IInv'
<1> USE DEF ioVars, kernelVars, requestVars
<1>1. UNCHANGED <<requestVars, pending, ioVars, queued, result, stop_event_,
                  kernelVars>>
  BY DEF Executor, harvest, RunCallback
<1>2. PendingOpen' /\ SnapOpen'
  BY <1>1 DEF IInv, PendingOpen, SnapOpen, OpenAt, Live, Polled
<1>3. CASE harvest
  <2>1. /\ harvested = <<>> /\ harvested' = completed_task_
        /\ completed_task_' = <<>> /\ called' = called
    BY <1>3 DEF harvest
  <2>2. InQueue' = InQueue
    BY <2>1, EmptyRange DEF InQueue
  <2>3. TypeOK'
    BY <1>1, <2>1 DEF IInv, TypeOK
  <2>4. Queued'
    BY <1>1, <2>1, <2>2, EmptyRange DEF IInv, Queued
  <2> QED
    BY <1>2, <2>3, <2>4 DEF IInv
<1>4. CASE RunCallback
  <2>1. /\ harvested # <<>> /\ harvested' = Tail(harvested)
        /\ called' = called \union {Head(harvested)}
        /\ completed_task_' = completed_task_
    BY <1>4 DEF RunCallback
  <2>2. /\ Head(harvested) \in Reqs /\ harvested' \in Seq(Reqs)
        /\ Range(harvested) = {Head(harvested)} \union Range(harvested')
        /\ IsInjective(harvested') /\ Head(harvested) \notin Range(harvested')
    BY <2>1, HeadTailRange DEF IInv, TypeOK, Queued
  <2>3. InQueue' \union called' = InQueue \union called
    BY <2>1, <2>2 DEF InQueue
  <2>4. TypeOK'
    BY <1>1, <2>1, <2>2 DEF IInv, TypeOK
  <2>5. Queued'
    BY <1>1, <2>1, <2>2, <2>3 DEF IInv, Queued
  <2> QED
    BY <1>2, <2>4, <2>5 DEF IInv
<1> QED
  BY <1>3, <1>4 DEF Executor

LEMMA NextInv == IInv /\ [Next]_vars => IInv'
<1> SUFFICES ASSUME IInv, [Next]_vars PROVE IInv'
  OBVIOUS
<1>1. CASE Clients
  BY <1>1, ClientsInv, QuietInv DEF Clients
<1>2. CASE start \/ stop \/ Kernel \/ UNCHANGED vars
  BY <1>2, QuietInv
<1>3. CASE do_io
  BY <1>3, PollingInv, OperateInv, StoreInv DEF do_io
<1>4. CASE Executor
  BY <1>4, ExecutorInv
<1> QED
  BY <1>1, <1>2, <1>3, <1>4 DEF Next

\* The inductive invariant holds in every reachable state.
THEOREM Invariance == Spec => []IInv
  BY InitInv, NextInv, PTL DEF Spec

\* Every variable of Select keeps its type.
THEOREM TypeCorrect == Spec => []TypeOK
  BY Invariance, PTL DEF IInv

\* Whatever clients submit, overlap and close, no callback is queued twice.
THEOREM CompletedOnce == Spec => []AtMostOnce
<1>1. IInv => AtMostOnce
  <2> SUFFICES ASSUME IInv, NEW q \in Reqs PROVE queued[q] <= 1
    BY DEF AtMostOnce
  <2>1. queued[q] = 0 \/ queued[q] = 1
    BY DEF IInv, Queued
  <2> QED
    BY <2>1
<1> QED
  BY <1>1, Invariance, PTL

-----------------------------------------------------------------------------
(* Select implements ProactorSpec.                                          *)

absStatus == [q \in Reqs |-> Status(q)]

\* Status, and its value after a step, by the sets a request is in.
LEMMA StatusIs ==
  ASSUME NEW q \in Reqs
  PROVE  /\ Status(q) =  IF q \in InQueue THEN "completed" ELSE
                         IF q \in called THEN "called" ELSE
                         IF q \in returned THEN "returned" ELSE
                         IF q \in 1..nreq THEN "pending" ELSE "idle"
         /\ Status(q)' = IF q \in InQueue' THEN "completed" ELSE
                         IF q \in called' THEN "called" ELSE
                         IF q \in returned' THEN "returned" ELSE
                         IF q \in 1..nreq' THEN "pending" ELSE "idle"
  BY DEF Status, InQueue

LEMMA InitRefines == Init => Abstract!Init
  BY EmptyRange, SelectAssumption DEF Init, Abstract!Init, Status

LEMMA SubmitRefines ==
  ASSUME IInv, NEW s \in Slots, MaySubmit(s), Register(s) \/ Answer(s),
         UNCHANGED doneVars
  PROVE  \E q \in Reqs : Abstract!Submit(q) \/ Abstract!Answer(q)
<1>1. PICK k \in Reqs : k = nreq + 1
  BY SelectAssumption DEF MaySubmit, IInv, TypeOK, Reqs
<1>2. /\ nreq' = k /\ k \notin 1..nreq /\ 1..k = 1..nreq \union {k}
      /\ UNCHANGED <<called, completed_task_, harvested>>
      /\ InQueue' = InQueue
  BY <1>1 DEF IInv, TypeOK, Register, Answer, Number, doneVars, InQueue
<1>3. k \notin InQueue /\ k \notin called /\ k \notin returned
  BY <1>2 DEF IInv, Queued
<1>4. absStatus[k] = "idle"
  BY <1>2, <1>3, StatusIs DEF absStatus
<1>5. CASE Register(s)
  <2>1. returned' = returned
    BY <1>5 DEF Register
  <2>2. absStatus' = [absStatus EXCEPT ![k] = "pending"]
    BY <1>2, <1>3, <2>1, StatusIs DEF absStatus
  <2>3. Abstract!Submit(k)
    BY <1>4, <2>2 DEF Abstract!Submit, Abstract!Move, absStatus
  <2> QED
    BY <2>3
<1>6. CASE Answer(s)
  <2>1. returned' = returned \union {k}
    BY <1>1, <1>6 DEF Answer
  <2>2. absStatus' = [absStatus EXCEPT ![k] = "returned"]
    BY <1>2, <1>3, <2>1, StatusIs DEF absStatus
  <2>3. Abstract!Answer(k)
    BY <1>4, <2>2 DEF Abstract!Answer, Abstract!Move, absStatus
  <2> QED
    BY <2>3
<1> QED
  BY <1>5, <1>6

LEMMA StoreRefines ==
  ASSUME IInv, Store
  PROVE  \E q \in Reqs : Abstract!Complete(q)
<1>1. PICK k \in Reqs : k = snap[cur] /\ OpenAt(k, cur)
  <2>1. cur \in Slots /\ snap[cur] # 0 /\ OpenAt(snap[cur], cur)
    BY DEF Store, IInv, SnapOpen, Live
  <2>2. snap[cur] \in Reqs
    BY <2>1, SelectAssumption DEF IInv, TypeOK, Reqs
  <2> QED
    BY <2>1, <2>2
<1>2. k \in 1..nreq /\ k \notin InQueue \union called \union returned
  BY <1>1 DEF OpenAt, IInv, Queued
<1>3. /\ completed_task_' = Append(completed_task_, k)
      /\ UNCHANGED <<nreq, called, returned, harvested>>
  BY <1>1 DEF Store, requestVars
<1>4. InQueue' = InQueue \union {k}
  BY <1>3, AppendRange DEF InQueue, IInv, TypeOK
<1>5. absStatus[k] = "pending"
  BY <1>2, StatusIs DEF absStatus
<1>6. absStatus' = [absStatus EXCEPT ![k] = "completed"]
  BY <1>2, <1>3, <1>4, StatusIs DEF absStatus
<1>7. Abstract!Complete(k)
  BY <1>5, <1>6 DEF Abstract!Complete, Abstract!Move, absStatus
<1> QED
  BY <1>7

LEMMA CallRefines ==
  ASSUME IInv, RunCallback
  PROVE  \E q \in Reqs : Abstract!Call(q)
<1>1. /\ harvested # <<>> /\ harvested' = Tail(harvested)
      /\ called' = called \union {Head(harvested)}
      /\ UNCHANGED <<nreq, returned, completed_task_>>
  BY DEF RunCallback, requestVars
<1>2. PICK k \in Reqs : k = Head(harvested)
  BY <1>1, HeadTailRange DEF IInv, TypeOK
<1>3. /\ Range(harvested) = {k} \union Range(harvested')
      /\ k \notin Range(harvested')
  BY <1>1, <1>2, HeadTailRange DEF IInv, TypeOK, Queued
<1>4. k \in InQueue /\ InQueue' = InQueue \ {k}
  BY <1>1, <1>3 DEF IInv, Queued, InQueue
<1>5. absStatus[k] = "completed"
  BY <1>4, StatusIs DEF absStatus
<1>6. absStatus' = [absStatus EXCEPT ![k] = "called"]
  BY <1>1, <1>2, <1>4, StatusIs DEF absStatus
<1>7. Abstract!Call(k)
  BY <1>5, <1>6 DEF Abstract!Call, Abstract!Move, absStatus
<1> QED
  BY <1>7

\* Each step of Select is a step of ProactorSpec or changes no status.
LEMMA StepRefines == IInv /\ [Next]_vars => [Abstract!Next]_absStatus
<1> SUFFICES ASSUME IInv, [Next]_vars
             PROVE  Abstract!Next \/ absStatus' = absStatus
  OBVIOUS
<1>1. ASSUME NEW fd \in Fds, SubmitRead(fd) \/ connect(fd) \/ send_async(fd)
                               \/ send_sync(fd)
      PROVE  Abstract!Next
  <2>1. \E s \in Slots : /\ MaySubmit(s) /\ (Register(s) \/ Answer(s))
                         /\ UNCHANGED doneVars
    BY <1>1, SlotParts DEF SubmitRead, connect, send_async, send_sync
  <2> QED
    BY <2>1, SubmitRefines DEF Abstract!Next
<1>2. CASE Store
  BY <1>2, StoreRefines DEF Abstract!Next
<1>3. CASE RunCallback
  BY <1>3, CallRefines DEF Abstract!Next
<1>4. CASE harvest
  <2>1. /\ harvested = <<>> /\ harvested' = completed_task_
        /\ completed_task_' = <<>>
        /\ UNCHANGED <<nreq, called, returned>>
    BY <1>4 DEF harvest, requestVars
  <2>2. InQueue' = InQueue
    BY <2>1, EmptyRange DEF InQueue
  <2> QED
    BY <2>1, <2>2, StatusIs DEF absStatus
<1>5. CASE \/ start \/ stop \/ Kernel \/ UNCHANGED vars
           \/ get_pending_io \/ Poll \/ Repost
           \/ (\E s \in Slots : Operate(s)) \/ (\E fd \in Fds : Close(fd))
  <2>1. UNCHANGED <<requestVars, doneVars>>
    BY <1>5 DEF start, stop, Kernel, Arrive, Congest, Drain, Reuse, Close,
                get_pending_io, Poll, Repost, Operate, vars, requestVars,
                doneVars
  <2> QED
    BY <2>1 DEF absStatus, Status, requestVars, doneVars
<1> QED
  BY <1>1, <1>2, <1>3, <1>4, <1>5 DEF Next, Clients, do_io, Executor

\* Select implements ProactorSpec: a callback runs once, after its operation,
\* and never for a request that was answered by the call itself.
THEOREM Implementation == Spec => ImplementsProactor
<1>1. Init => Abstract!Init
  BY InitRefines
<1>2. IInv /\ [Next]_vars => [Abstract!Next]_absStatus
  BY StepRefines
<1> QED
  BY <1>1, <1>2, Invariance, PTL
     DEF Spec, ImplementsProactor, Abstract!Spec, absStatus
-----------------------------------------------------------------------------
(* What becomes of requests that overlap no other.                          *)

\* The map holds every open request that overlapped no other, and what it
\* holds where do_io is busy is what do_io works on, or overlaps it.
Kept ==
    /\ \A q \in 1..nreq :
         q \notin overlapped /\ queued[q] = 0 /\ q \notin returned =>
            slot[q] \in Slots /\ pending[slot[q]] = q
    /\ \A s \in Live : pending[s] = snap[s] \/ pending[s] \in overlapped

\* A new request takes the place of none, or overlaps it.
LEMMA KeptSubmit ==
  ASSUME IInv, Kept, NEW s \in Slots, MaySubmit(s), Register(s) \/ Answer(s),
         UNCHANGED <<ioVars, doneVars>>
  PROVE  Kept'
<1>1. /\ nreq \in Nat /\ nreq + 1 \in Reqs /\ nreq' = nreq + 1
      /\ slot' = [slot EXCEPT ![nreq + 1] = s]
  BY SelectAssumption
     DEF IInv, TypeOK, MaySubmit, Reqs, Register, Answer, Number
<1>2. queued' = queued /\ Live' = Live /\ snap' = snap
  BY DEF doneVars, ioVars, Live, Polled
<1>3. /\ slot'[nreq + 1] = s
      /\ \A q \in 1..nreq : slot'[q] = slot[q]
  <2>1. slot \in [Reqs -> Slots \union {NoSlot}]
    BY DEF IInv, TypeOK
  <2>2. \A q \in 1..nreq : q # nreq + 1
    BY <1>1
  <2> QED
    BY <1>1, <2>1, <2>2
<1>4. \A q \in 1..nreq' : q \in 1..nreq \/ q = nreq + 1
  BY <1>1
<1>5. CASE Register(s)
  <2>1. /\ returned' = returned
        /\ overlapped' = overlapped \union ({pending[s]} \ {0})
                           \union (IF s \in Live THEN {nreq + 1} ELSE {})
        /\ \A t \in Slots : pending'[t] = IF t = s THEN nreq + 1 ELSE pending[t]
    BY <1>5 DEF Register, IInv, TypeOK
  <2>2. ASSUME NEW q \in 1..nreq', q \notin overlapped', queued'[q] = 0,
               q \notin returned'
        PROVE  slot'[q] \in Slots /\ pending'[slot'[q]] = q
    <3>1. CASE q = nreq + 1
      BY <1>3, <2>1, <3>1
    <3>2. CASE q \in 1..nreq
      <4>1. slot[q] \in Slots /\ pending[slot[q]] = q /\ q # 0
        BY <1>2, <2>1, <2>2, <3>2 DEF Kept
      <4>2. slot[q] # s
        BY <2>1, <2>2, <4>1
      <4> QED
        BY <1>3, <2>1, <3>2, <4>1, <4>2
    <3> QED
      BY <1>4, <3>1, <3>2
  <2>3. ASSUME NEW t \in Live'
        PROVE  pending'[t] = snap'[t] \/ pending'[t] \in overlapped'
    <3>1. t \in Live /\ t \in Slots
      BY <1>2, <2>3 DEF IInv, SnapOpen
    <3> QED
      BY <1>2, <2>1, <3>1 DEF Kept
  <2> QED
    BY <2>2, <2>3 DEF Kept
<1>6. CASE Answer(s)
  <2>1. /\ pending' = pending /\ overlapped' = overlapped
        /\ returned' = returned \union {nreq + 1}
    BY <1>6 DEF Answer
  <2> QED
    BY <1>2, <1>3, <1>4, <2>1 DEF Kept
<1> QED
  BY <1>5, <1>6

\* What is erased is the request completed, or one that overlapped it.
LEMMA KeptStore ==
  ASSUME IInv, Kept, Store
  PROVE  Kept'
<1>1. PICK k \in Reqs : k = snap[cur] /\ cur \in Slots /\ OpenAt(k, cur)
  <2>1. cur \in Slots /\ snap[cur] # 0 /\ OpenAt(snap[cur], cur)
    BY DEF Store, IInv, SnapOpen, Live
  <2>2. snap[cur] \in Reqs
    BY <2>1, SelectAssumption DEF IInv, TypeOK, Reqs
  <2> QED
    BY <2>1, <2>2
<1>2. /\ UNCHANGED <<nreq, slot, returned, overlapped, snap>>
      /\ pending' = [pending EXCEPT ![cur] = 0]
      /\ queued' = [queued EXCEPT ![k] = @ + 1]
      /\ Live' = ready /\ cur \notin ready /\ ready \subseteq Live
  BY <1>1 DEF Store, requestVars, IInv, SnapOpen, Live
<1>3. pending[cur] = k \/ pending[cur] \in overlapped
  BY <1>1 DEF Store, Kept, Live
<1>4. ASSUME NEW q \in 1..nreq, q \notin overlapped, queued'[q] = 0,
             q \notin returned
      PROVE  slot[q] \in Slots /\ pending'[slot[q]] = q
  <2>1. q \in Reqs
    BY SelectAssumption DEF IInv, TypeOK, Reqs
  <2>2. q # k /\ queued[q] = 0
    BY <1>1, <1>2, <1>4, <2>1 DEF IInv, TypeOK, OpenAt
  <2>3. pending[slot[q]] = q /\ slot[q] \in Slots
    BY <1>4, <2>2 DEF Kept
  <2>4. slot[q] # cur
    BY <1>3, <1>4, <2>2, <2>3
  <2> QED
    BY <1>2, <2>3, <2>4 DEF IInv, TypeOK
<1>5. ASSUME NEW t \in ready
      PROVE  pending'[t] = snap[t] \/ pending'[t] \in overlapped
  <2>1. t \in Slots /\ t # cur
    BY <1>2, <1>5 DEF IInv, SnapOpen
  <2> QED
    BY <1>2, <1>5, <2>1 DEF IInv, TypeOK, Kept
<1> QED
  BY <1>2, <1>4, <1>5 DEF Kept

\* do_io takes what the map holds, and drops slots without erasing them.
LEMMA KeptPolling ==
  ASSUME IInv, Kept,
         get_pending_io \/ Poll \/ Repost \/ (\E s \in Slots : Operate(s))
  PROVE  Kept'
<1>1. UNCHANGED <<nreq, slot, returned, overlapped, pending, queued>>
  BY DEF get_pending_io, Poll, Repost, Operate, requestVars, doneVars
<1>2. \A t \in Live' : \/ snap'[t] = pending[t]
                       \/ t \in Live /\ snap'[t] = snap[t]
  <2>1. CASE get_pending_io
    BY <2>1 DEF get_pending_io, Live, Polled
  <2>2. CASE Poll \/ Repost
    BY <2>2 DEF Poll, Repost, Live
  <2>3. CASE \E s \in Slots : Operate(s)
    <3>1. PICK s \in Slots : Operate(s)
      BY <2>3
    <3>2. /\ io = "handling" /\ s \in ready /\ ready' = ready \ {s}
          /\ snap' = snap
          /\ \/ io' = "storing" /\ cur' = s
             \/ io' = io
      BY <3>1 DEF Operate, First
    <3> QED
      BY <3>2 DEF Live
  <2> QED
    BY <2>1, <2>2, <2>3
<1> QED
  BY <1>1, <1>2 DEF Kept

LEMMA KeptNext ==
  ASSUME IInv, Kept, [Next]_vars
  PROVE  Kept'
<1>1. CASE Store
  BY <1>1, KeptStore
<1>2. ASSUME NEW fd \in Fds, SubmitRead(fd) \/ connect(fd) \/ send_async(fd)
                               \/ send_sync(fd)
      PROVE  Kept'
  <2>1. \E s \in Slots : /\ MaySubmit(s) /\ (Register(s) \/ Answer(s))
                         /\ UNCHANGED <<ioVars, doneVars>>
    BY <1>2, SlotParts DEF SubmitRead, connect, send_async, send_sync
  <2> QED
    BY <2>1, KeptSubmit
<1>3. CASE get_pending_io \/ Poll \/ Repost \/ (\E s \in Slots : Operate(s))
  BY <1>3, KeptPolling
<1>4. CASE \/ start \/ stop \/ Executor \/ UNCHANGED vars
           \/ (\E fd \in Fds : Close(fd)) \/ Kernel
  <2>1. /\ UNCHANGED <<nreq, slot, returned, overlapped, pending, queued>>
        /\ UNCHANGED <<snap, ready, cur>>
        /\ (io' = io \/ (io = "none" /\ io' = "queued"))
    <3>1. CASE Kernel
      BY <3>1 DEF Kernel, Arrive, Congest, Drain, Reuse, requestVars, doneVars,
                  ioVars
    <3>2. CASE start \/ stop \/ \E fd \in Fds : Close(fd)
      BY <3>2 DEF start, stop, Close, requestVars, doneVars, ioVars
    <3>3. CASE Executor \/ UNCHANGED vars
      BY <3>3 DEF Executor, harvest, RunCallback, vars, requestVars, ioVars
    <3> QED
      BY <1>4, <3>1, <3>2, <3>3
  <2>2. Live' \subseteq Live
    BY <2>1 DEF Live, Polled
  <2> QED
    BY <2>1, <2>2 DEF Kept
<1> QED
  BY <1>1, <1>2, <1>3, <1>4 DEF Next, Clients, do_io

LEMMA KeptInit == Init => Kept
  BY SelectAssumption DEF Init, Kept, Live

\* An open request is waiting, and one that is not open is in one of the other
\* places, which have nothing in common.
LEMMA OnePlaceIfKept == IInv /\ Kept => NothingLost
<1> SUFFICES ASSUME IInv, Kept, NEW q \in 1..nreq, q \notin overlapped
             PROVE  InOnePlace(q)
  BY DEF NothingLost
<1> DEFINE places == <<Waiting(q), q \in Range(completed_task_),
                       q \in Range(harvested), q \in called, q \in returned>>
           in == {i \in 1..5 : places[i]}
<1>1. q \in Reqs /\ q # 0
  BY SelectAssumption DEF IInv, TypeOK, Reqs
<1>2. Waiting(q) <=> queued[q] = 0 /\ q \notin returned
  BY <1>1 DEF Waiting, Kept, IInv, PendingOpen, OpenAt
<1>3. /\ queued[q] = 0 <=> q \notin InQueue \union called
      /\ returned \cap (InQueue \union called) = {}
      /\ Range(completed_task_) \cap (Range(harvested) \union called) = {}
      /\ Range(harvested) \cap called = {}
  BY <1>1 DEF IInv, Queued
<1>4. \E j \in 1..5 : in = {j}
  <2>1. /\ places[1] <=> Waiting(q)
        /\ places[2] <=> q \in Range(completed_task_)
        /\ places[3] <=> q \in Range(harvested)
        /\ places[4] <=> q \in called
        /\ places[5] <=> q \in returned
    OBVIOUS
  <2>2. 1..5 = {1, 2, 3, 4, 5}
    OBVIOUS
  <2> HIDE DEF places
  <2>3. CASE Waiting(q)
    <3>1. in = {1}
      BY <1>2, <1>3, <2>1, <2>2, <2>3 DEF InQueue
    <3> QED
      BY <2>2, <3>1
  <2>4. CASE q \in Range(completed_task_)
    <3>1. in = {2}
      BY <1>2, <1>3, <2>1, <2>2, <2>4 DEF InQueue
    <3> QED
      BY <2>2, <3>1
  <2>5. CASE q \in Range(harvested)
    <3>1. in = {3}
      BY <1>2, <1>3, <2>1, <2>2, <2>5 DEF InQueue
    <3> QED
      BY <2>2, <3>1
  <2>6. CASE q \in called
    <3>1. in = {4}
      BY <1>2, <1>3, <2>1, <2>2, <2>6 DEF InQueue
    <3> QED
      BY <2>2, <3>1
  <2>7. CASE q \in returned
    <3>1. in = {5}
      BY <1>2, <1>3, <2>1, <2>2, <2>7 DEF InQueue
    <3> QED
      BY <2>2, <3>1
  <2> QED
    BY <1>2, <1>3, <2>3, <2>4, <2>5, <2>6, <2>7 DEF InQueue
<1>5. Cardinality(in) = 1
  <2> HIDE DEF in
  <2> QED
    BY <1>4, FS_Singleton
<1> QED
  BY <1>5 DEF InOnePlace

LEMMA KeptInvariance == Spec => [](IInv /\ Kept)
<1>1. Init => IInv /\ Kept
  BY InitInv, KeptInit
<1>2. (IInv /\ Kept) /\ [Next]_vars => (IInv /\ Kept)'
  BY NextInv, KeptNext
<1> QED
  BY <1>1, <1>2, PTL DEF Spec

\* No request is lost, whatever clients do with other requests and sockets,
\* unless it overlapped another of its fd and direction itself.
THEOREM NoneLost == Spec => []NothingLost
  BY KeptInvariance, OnePlaceIfKept, PTL

\* The request erased under the lock is the one whose operation was performed
\* without it, or overlapped it.
THEOREM ErasesOwn == Spec => []EraseOwn
<1>1. IInv /\ Kept => EraseOwn
  BY DEF EraseOwn, Kept, Live
<1> QED
  BY <1>1, KeptInvariance, PTL

-----------------------------------------------------------------------------
(* The order in which the callbacks of reads are given the data.            *)

\* The callbacks still to run, in the order in which they will.
Line == harvested \o completed_task_

\* Two reads of a socket, the first answered before the second.
InTurn(p, q) ==
    slot[p] = slot[q] /\ Chunk(p) /\ Chunk(q) => result[p] < result[q]
LineInTurn ==
    \A j \in 1..Len(Line) :
        /\ \A i \in 1..Len(Line) : i < j => InTurn(Line[i], Line[j])
        /\ \A p \in called : InTurn(p, Line[j])

\* The chunk of fd that do_io has received and not yet stored, and with it
\* everything that has arrived on fd and has been given to no request.
Held(fd) ==
    IF io = "storing" /\ cur = <<"r", fd>> THEN {value} \cap 1..MaxChunks
                                           ELSE {}
Unread(fd) == Held(fd) \union Range(inbox[fd])

\* What is unread has arrived, and waits in the order in which it did.
UnreadInTurn ==
    /\ io = "storing" /\ value \in 1..MaxChunks => cur[1] = "r"
    /\ \A fd \in Fds :
         /\ Unread(fd) \subseteq 1..nchunk[fd]
         /\ \A v \in Held(fd) : \A w \in Range(inbox[fd]) : v < w
         /\ \A j \in 1..Len(inbox[fd]) :
              \A i \in 1..Len(inbox[fd]) : i < j => inbox[fd][i] < inbox[fd][j]

\* What a request has been given arrived before all that is unread.
GivenBefore(q, fd) ==
    /\ q \in 1..nreq /\ slot[q] = <<"r", fd>>
    /\ result[q] <= nchunk[fd]
    /\ \A v \in Unread(fd) : result[q] < v
Given == \A q \in Reqs : Chunk(q) => \E fd \in Fds : GivenBefore(q, fd)

OInv == LineInTurn /\ UnreadInTurn /\ Given

LEMMA LineType ==
  ASSUME IInv
  PROVE  /\ Line \in Seq(Reqs) /\ Range(Line) = InQueue
         /\ harvested # <<>> => /\ Line # <<>>
                               /\ Head(Line) = Head(harvested)
                               /\ Tail(Line) = Tail(harvested) \o completed_task_
<1>1. harvested \in Seq(Reqs) /\ completed_task_ \in Seq(Reqs)
  BY DEF IInv, TypeOK
<1>2. Line \in Seq(Reqs) /\ Range(Line) = InQueue
  BY <1>1, ConcatRange DEF Line, InQueue
<1> QED
  BY <1>1, <1>2, ConcatQueue DEF Line

LEMMA OrderInit == Init => OInv
<1> SUFFICES ASSUME Init PROVE OInv
  OBVIOUS
<1>1. Line = <<>>
  BY DEF Init, Line
<1>2. \A fd \in Fds : inbox[fd] = <<>> /\ Held(fd) = {} /\ Unread(fd) = {}
  BY EmptyRange DEF Init, Held, Unread
<1>3. \A q \in Reqs : ~Chunk(q)
  BY DEF Init, Chunk, Done
<1> QED
  BY <1>1, <1>2, <1>3 DEF OInv, LineInTurn, UnreadInTurn, Given, Init

\* A submission gives nothing to anybody and concerns a number not in use.
LEMMA OrderSubmit ==
  ASSUME IInv, OInv, NEW s \in Slots, MaySubmit(s), Register(s) \/ Answer(s),
         UNCHANGED <<ioVars, doneVars, kernelVars>>
  PROVE  OInv'
<1> USE DEF ioVars, doneVars, kernelVars
<1>1. /\ nreq \in Nat /\ nreq + 1 \in Reqs /\ nreq' = nreq + 1
      /\ slot' = [slot EXCEPT ![nreq + 1] = s]
  BY SelectAssumption
     DEF IInv, TypeOK, MaySubmit, Reqs, Register, Answer, Number
<1>2. \A q \in 1..nreq : q \in 1..nreq' /\ slot'[q] = slot[q]
  BY <1>1 DEF IInv, TypeOK, Reqs
<1>3. Line' = Line /\ called' = called /\ result' = result
  BY DEF Line
<1>4. \A q : Chunk(q)' <=> Chunk(q)
  BY <1>3 DEF Chunk
<1>5. \A fd : Held(fd)' = Held(fd) /\ Unread(fd)' = Unread(fd)
  BY DEF Held, Unread
<1>6. \A q \in Reqs : Chunk(q) => q \in 1..nreq
  BY DEF OInv, Given, GivenBefore
<1>7. \A p \in Reqs : \A q \in Reqs : InTurn(p, q) => InTurn(p, q)'
  BY <1>2, <1>3, <1>4, <1>6 DEF InTurn
<1>8. LineInTurn'
  <2>1. \A j \in 1..Len(Line) : Line[j] \in Reqs
    BY LineType
  <2>2. called \subseteq Reqs
    BY DEF IInv, TypeOK
  <2> QED
    BY <1>3, <1>7, <2>1, <2>2 DEF OInv, LineInTurn
<1>9. UnreadInTurn'
  BY <1>5 DEF OInv, UnreadInTurn
<1>10. Given'
  BY <1>2, <1>3, <1>4, <1>5 DEF OInv, Given, GivenBefore
<1> QED
  BY <1>8, <1>9, <1>10 DEF OInv

\* Steps that leave requests, answers and what is unread as they are.
LEMMA OrderQuiet ==
  ASSUME OInv, UNCHANGED <<requestVars, doneVars, nchunk, inbox>>,
         io' # "storing"
  PROVE  OInv'
<1> USE DEF requestVars, doneVars
<1>1. Line' = Line
  BY DEF Line
<1>2. \A fd : Held(fd)' = {} /\ Unread(fd)' \subseteq Unread(fd)
  BY DEF Held, Unread
<1> QED
  BY <1>1, <1>2
     DEF OInv, LineInTurn, InTurn, Chunk, UnreadInTurn, Given, GivenBefore

\* A chunk that arrives is newer than all before it; a close drops what is
\* unread; the rest of the kernel, start() and stop() concern no data.
LEMMA OrderKernel ==
  ASSUME IInv, OInv,
         start \/ stop \/ Kernel \/ (\E fd \in Fds : Close(fd))
           \/ UNCHANGED vars
  PROVE  OInv'
<1> USE DEF ioVars, doneVars, kernelVars, requestVars, vars
<1>1. UNCHANGED <<requestVars, cur, value, doneVars>>
  BY DEF start, stop, Kernel, Close, Arrive, Congest, Drain, Reuse
<1>2. LineInTurn'
  BY <1>1 DEF OInv, LineInTurn, InTurn, Chunk, Line
<1>3. (io = "storing" <=> io' = "storing") /\ \A fd : Held(fd)' = Held(fd)
  BY <1>1 DEF start, stop, Kernel, Close, Arrive, Congest, Drain, Reuse, Held
<1>4. CASE UNCHANGED <<inbox, nchunk>>
  <2>1. \A fd : Unread(fd)' = Unread(fd)
    BY <1>3, <1>4 DEF Unread
  <2> QED
    BY <1>1, <1>2, <1>3, <1>4, <2>1
       DEF OInv, UnreadInTurn, Given, GivenBefore, Chunk
<1>5. ASSUME NEW f \in Fds, Close(f)
      PROVE  OInv'
  <2>1. /\ nchunk' = nchunk
        /\ \A fd \in Fds : inbox'[fd] = IF fd = f THEN <<>> ELSE inbox[fd]
    BY <1>5 DEF Close, IInv, TypeOK
  <2>2. \A fd \in Fds : Unread(fd)' \subseteq Unread(fd)
    BY <1>3, <2>1, EmptyRange DEF Unread
  <2>3. UnreadInTurn'
    BY <1>1, <1>3, <2>1, <2>2, EmptyRange DEF OInv, UnreadInTurn
  <2>4. Given'
    BY <1>1, <2>1, <2>2 DEF OInv, Given, GivenBefore, Chunk
  <2> QED
    BY <1>2, <2>3, <2>4 DEF OInv
<1>6. ASSUME NEW f \in Fds, Arrive(f)
      PROVE  OInv'
  <2> DEFINE n == nchunk[f] + 1
  <2>1. /\ nchunk \in [Fds -> 0..MaxChunks] /\ MaxChunks \in Nat
        /\ inbox \in [Fds -> Seq(1..MaxChunks)]
        /\ n \in 1..MaxChunks /\ nchunk[f] \in Nat
    BY <1>6, SelectAssumption DEF Arrive, IInv, TypeOK
  <2>2. /\ nchunk' = [nchunk EXCEPT ![f] = n]
        /\ inbox' = [inbox EXCEPT ![f] = Append(@, n)]
    BY <1>6 DEF Arrive
  <2> HIDE DEF n
  <2>3. Range(inbox'[f]) = Range(inbox[f]) \union {n}
    <3>1. inbox'[f] = Append(inbox[f], n) /\ inbox[f] \in Seq(1..MaxChunks)
      BY <2>1, <2>2
    <3>2. Range(Append(inbox[f], n)) = Range(inbox[f]) \union {n}
      BY <2>1, <3>1, AppendRange
    <3> QED
      BY <3>1, <3>2
  <2>4. /\ Unread(f)' = Unread(f) \union {n}
        /\ \A fd \in Fds \ {f} : Unread(fd)' = Unread(fd)
    BY <1>3, <2>1, <2>2, <2>3 DEF Unread
  <2>5. nchunk'[f] = n /\ \A v \in 1..nchunk[f] : v < n /\ v \in 1..n
    BY <2>1, <2>2 DEF n
  <2>6. Unread(f) \subseteq 1..nchunk[f]
    BY DEF OInv, UnreadInTurn
  <2>7. ASSUME NEW j \in 1..Len(inbox'[f]), NEW i \in 1..Len(inbox'[f]), i < j
        PROVE  inbox'[f][i] < inbox'[f][j]
    <3>1. /\ Len(inbox'[f]) = Len(inbox[f]) + 1 /\ Len(inbox[f]) \in Nat
          /\ inbox'[f][Len(inbox[f]) + 1] = n
          /\ \A m \in 1..Len(inbox[f]) : inbox'[f][m] = inbox[f][m]
      BY <2>1, <2>2
    <3>2. i \in 1..Len(inbox[f])
      BY <2>7, <3>1
    <3>3. inbox[f][i] \in 1..nchunk[f]
      BY <2>6, <3>2 DEF Unread, Range
    <3>4. CASE j \in 1..Len(inbox[f])
      BY <2>7, <3>1, <3>2, <3>4 DEF OInv, UnreadInTurn
    <3>5. CASE j = Len(inbox[f]) + 1
      BY <2>5, <3>1, <3>2, <3>3, <3>5
    <3> QED
      BY <3>1, <3>4, <3>5
  <2>8. \A v \in Held(f) : v < n
    BY <2>5, <2>6 DEF Unread
  <2>9. UnreadInTurn'
    <3>1. ASSUME NEW fd \in Fds, fd # f
          PROVE  inbox'[fd] = inbox[fd] /\ nchunk'[fd] = nchunk[fd]
      BY <2>1, <2>2, <3>1
    <3>2. Unread(f)' \subseteq 1..nchunk'[f]
      BY <2>1, <2>4, <2>5, <2>6
    <3>3. \A v \in Held(f)' : \A w \in Range(inbox'[f]) : v < w
      BY <1>3, <2>3, <2>8 DEF OInv, UnreadInTurn
    <3> QED
      BY <1>1, <1>3, <2>4, <2>7, <3>1, <3>2, <3>3 DEF OInv, UnreadInTurn
  <2>10. Given'
    <3> SUFFICES ASSUME NEW q \in Reqs, Chunk(q)
                 PROVE  \E fd \in Fds : GivenBefore(q, fd)'
      BY <1>1 DEF Given, Chunk
    <3>1. PICK fd \in Fds : GivenBefore(q, fd)
      BY DEF OInv, Given
    <3>2. result[q] \in Nat
      BY DEF IInv, TypeOK, Results
    <3>3. CASE fd # f
      BY <1>1, <2>1, <2>2, <2>4, <3>1, <3>3 DEF GivenBefore
    <3>4. CASE fd = f
      <4>1. result[q] < n
        BY <2>1, <3>1, <3>2, <3>4 DEF GivenBefore, n
      <4> QED
        BY <1>1, <2>1, <2>4, <2>5, <3>1, <3>2, <3>4, <4>1 DEF GivenBefore
    <3> QED
      BY <3>3, <3>4
  <2> QED
    BY <1>2, <2>9, <2>10 DEF OInv
<1>7. \/ \E fd \in Fds : Arrive(fd) \/ Close(fd)
      \/ UNCHANGED <<inbox, nchunk>>
  BY DEF start, stop, Kernel, Congest, Drain, Reuse
<1> QED
  BY <1>4, <1>5, <1>6, <1>7

\* The system call takes the oldest unread chunk, and holds it.
LEMMA OrderOperate ==
  ASSUME IInv, OInv, NEW s \in Slots, Operate(s)
  PROVE  OInv'
<1> USE DEF doneVars, requestVars
<1>1. /\ UNCHANGED <<requestVars, doneVars, nchunk>>
      /\ io = "handling"
  BY DEF Operate
<1>2. CASE UNCHANGED <<io, cur, value, inbox>>
  BY <1>1, <1>2, OrderQuiet
<1>3. ASSUME NEW v \in Outcomes(s), io' = "storing", cur' = s, value' = v,
             inbox' = IF s[1] = "r" /\ v \in 1..MaxChunks
                        THEN [inbox EXCEPT ![s[2]] = Tail(@)] ELSE inbox
      PROVE  OInv'
  <2>1. /\ \A fd : Held(fd) = {}
        /\ \A fd \in Fds : Unread(fd) = Range(inbox[fd])
    BY <1>1 DEF Held, Unread
  <2>2. LineInTurn'
    BY <1>1 DEF OInv, LineInTurn, InTurn, Chunk, Line
  <2>3. s[2] \in Fds /\ s = <<s[1], s[2]>>
    BY DEF Slots
  <2>4. CASE v \in 1..MaxChunks
    <3> DEFINE f == s[2]
               box == inbox[f]
    <3>1. /\ s = <<"r", f>> /\ box \in Seq(1..MaxChunks) /\ box # <<>>
          /\ v = Head(box)
      <4>1. v # Done /\ v # Error
        BY <2>4, SelectAssumption DEF Done, Error
      <4>2. IsReady(s) /\ v = IF s[1] = "r" THEN Head(box) ELSE Done
        BY <1>3, <4>1 DEF Outcomes
      <4>3. s[1] = "r" /\ v = Head(box)
        BY <4>1, <4>2
      <4>4. box # <<>>
        BY <4>2, <4>3 DEF IsReady
      <4>5. box \in Seq(1..MaxChunks)
        BY <2>3 DEF IInv, TypeOK
      <4> QED
        BY <2>3, <4>3, <4>4, <4>5
    <3>2. inbox' = [inbox EXCEPT ![f] = Tail(box)]
      BY <1>3, <2>4, <3>1
    <3>3. /\ inbox'[f] = Tail(box)
          /\ \A fd \in Fds \ {f} : inbox'[fd] = inbox[fd]
      BY <2>3, <3>2 DEF IInv, TypeOK
    <3>4. Held(f)' = {v} /\ \A fd \in Fds \ {f} : Held(fd)' = {}
      BY <1>3, <2>4, <3>1 DEF Held
    <3>5. \A fd \in Fds : Unread(fd)' = Unread(fd)
      <4>1. Range(box) = {v} \union Range(Tail(box))
        BY <3>1, HeadTailRange
      <4> QED
        BY <2>1, <3>3, <3>4, <4>1 DEF Unread
    <3>6. /\ Len(box) \in Nat /\ Len(Tail(box)) = Len(box) - 1 /\ v = box[1]
          /\ 1 \in 1..Len(box)
          /\ \A i \in 1..Len(Tail(box)) :
               Tail(box)[i] = box[i + 1] /\ i + 1 \in 1..Len(box)
      BY <3>1
    <3>7. \A j \in 1..Len(box) : \A i \in 1..Len(box) : i < j => box[i] < box[j]
      BY <2>3 DEF OInv, UnreadInTurn
    <3> HIDE DEF box, f
    <3>8. \A w \in Range(Tail(box)) : v < w
      <4> SUFFICES ASSUME NEW i \in 1..Len(Tail(box)) PROVE v < Tail(box)[i]
        BY DEF Range
      <4> QED
        BY <3>6, <3>7
    <3>9. \A j \in 1..Len(Tail(box)) : \A i \in 1..Len(Tail(box)) :
            i < j => Tail(box)[i] < Tail(box)[j]
      BY <3>6, <3>7
    <3>10. UnreadInTurn'
      BY <1>1, <1>3, <3>1, <3>3, <3>4, <3>5, <3>8, <3>9
         DEF OInv, UnreadInTurn
    <3>11. Given'
      BY <1>1, <3>5 DEF OInv, Given, GivenBefore, Chunk
    <3> QED
      BY <2>2, <3>10, <3>11 DEF OInv
  <2>5. CASE v \notin 1..MaxChunks
    <3>1. inbox' = inbox /\ \A fd : Held(fd)' = {}
      BY <1>3, <2>5 DEF Held
    <3>2. \A fd \in Fds : Unread(fd)' = Unread(fd)
      BY <2>1, <3>1 DEF Unread
    <3>3. UnreadInTurn'
      BY <1>1, <1>3, <2>1, <2>5, <3>1, <3>2 DEF OInv, UnreadInTurn
    <3>4. Given'
      BY <1>1, <3>2 DEF OInv, Given, GivenBefore, Chunk
    <3> QED
      BY <2>2, <3>3, <3>4 DEF OInv
  <2> QED
    BY <2>4, <2>5
<1> QED
  BY <1>2, <1>3 DEF Operate

\* The chunk held is younger than all that was given and is given to the last
\* request of the line.
LEMMA OrderStore ==
  ASSUME IInv, OInv, Store
  PROVE  OInv'
<1> USE DEF kernelVars, requestVars
<1>1. PICK k \in Reqs : k = snap[cur] /\ cur \in Slots /\ OpenAt(k, cur)
  <2>1. cur \in Slots /\ snap[cur] # 0 /\ OpenAt(snap[cur], cur)
    BY DEF Store, IInv, SnapOpen, Live
  <2>2. snap[cur] \in Reqs
    BY <2>1, SelectAssumption DEF IInv, TypeOK, Reqs
  <2> QED
    BY <2>1, <2>2
<1>2. /\ io = "storing" /\ io' = "handling"
      /\ completed_task_' = Append(completed_task_, k)
      /\ result' = [result EXCEPT ![k] = value]
      /\ UNCHANGED <<requestVars, harvested, called, kernelVars>>
  BY <1>1 DEF Store
<1>3. k \in 1..nreq /\ slot[k] = cur /\ k \notin InQueue \union called
  BY <1>1 DEF OpenAt, IInv, Queued
<1>4. result'[k] = value /\ \A q \in Reqs \ {k} : result'[q] = result[q]
  BY <1>2 DEF IInv, TypeOK
<1>5. \A q \in Reqs \ {k} : Chunk(q)' <=> Chunk(q)
  BY <1>4 DEF Chunk
<1>6. Line' = Append(Line, k)
  BY <1>1, <1>2, ConcatQueue DEF Line, IInv, TypeOK
<1>7. /\ Len(Line') = Len(Line) + 1 /\ Len(Line) \in Nat
      /\ Line'[Len(Line) + 1] = k
      /\ \A i \in 1..Len(Line) :
           Line'[i] = Line[i] /\ Line[i] \in Reqs \ {k}
  <2>1. Line \in Seq(Reqs) /\ k \notin Range(Line)
    BY <1>3, LineType
  <2> QED
    BY <1>6, <2>1 DEF Range
<1>8. called \subseteq Reqs \ {k}
  BY <1>3 DEF IInv, TypeOK
<1>9. \A p, q \in Reqs \ {k} : InTurn(p, q) => InTurn(p, q)'
  BY <1>2, <1>4, <1>5 DEF InTurn
<1>10. value \in 1..MaxChunks =>
         \E fd \in Fds : cur = <<"r", fd>> /\ value \in Held(fd)
  BY <1>1, <1>2 DEF OInv, UnreadInTurn, Slots, Held
<1>11. ASSUME NEW p \in Reqs \ {k}
       PROVE  InTurn(p, k)'
  <2> SUFFICES ASSUME slot[p] = cur, Chunk(p), value \in 1..MaxChunks
               PROVE  result[p] < value
    BY <1>2, <1>3, <1>4, <1>5 DEF InTurn, Chunk
  <2>1. PICK fd \in Fds : cur = <<"r", fd>> /\ value \in Held(fd)
    BY <1>10
  <2>2. PICK g \in Fds : GivenBefore(p, g)
    BY DEF OInv, Given
  <2>3. fd = g
    BY <2>1, <2>2 DEF GivenBefore
  <2> QED
    BY <2>1, <2>2, <2>3 DEF GivenBefore, Unread
<1>12. LineInTurn'
  <2> SUFFICES ASSUME NEW j \in 1..Len(Line')
               PROVE  /\ \A i \in 1..Len(Line') :
                           i < j => InTurn(Line[i], Line[j])'
                      /\ \A p \in called : InTurn(p, Line[j])'
    BY <1>2 DEF LineInTurn
  <2>1. CASE j \in 1..Len(Line)
    <3>1. \A i \in 1..Len(Line') : i < j => i \in 1..Len(Line)
      BY <1>7, <2>1
    <3> QED
      BY <1>7, <1>8, <1>9, <2>1, <3>1 DEF OInv, LineInTurn
  <2>2. CASE j = Len(Line) + 1
    <3>1. \A i \in 1..Len(Line') : i < j => i \in 1..Len(Line)
      BY <1>7, <2>2
    <3> QED
      BY <1>7, <1>8, <1>11, <2>2, <3>1
  <2> QED
    BY <1>7, <2>1, <2>2
<1>13. \A fd \in Fds : /\ Held(fd)' = {}
                       /\ Unread(fd)' = Range(inbox[fd])
                       /\ Unread(fd)' \subseteq Unread(fd)
  BY <1>2 DEF Held, Unread
<1>14. UnreadInTurn'
  BY <1>2, <1>13 DEF OInv, UnreadInTurn
<1>15. Given'
  <2> SUFFICES ASSUME NEW q \in Reqs, Chunk(q)'
               PROVE  \E fd \in Fds : GivenBefore(q, fd)'
    BY DEF Given
  <2>1. CASE q # k
    BY <1>2, <1>4, <1>5, <1>13, <2>1 DEF OInv, Given, GivenBefore
  <2>2. CASE q = k
    <3>1. value \in 1..MaxChunks
      BY <1>4, <2>2 DEF Chunk
    <3>2. PICK fd \in Fds : cur = <<"r", fd>> /\ value \in Held(fd)
      BY <1>10, <3>1
    <3>3. value \in 1..nchunk[fd] /\ nchunk[fd] \in Nat
      BY <3>2 DEF OInv, UnreadInTurn, Unread, IInv, TypeOK
    <3>4. \A w \in Range(inbox[fd]) : value < w
      BY <3>2 DEF OInv, UnreadInTurn
    <3>5. GivenBefore(q, fd)'
      BY <1>2, <1>3, <1>4, <1>13, <2>2, <3>2, <3>3, <3>4 DEF GivenBefore
    <3> QED
      BY <3>5
  <2> QED
    BY <2>1, <2>2
<1> QED
  BY <1>12, <1>14, <1>15 DEF OInv

\* harvest() leaves the line as it is, and the executor takes its front.
LEMMA OrderExecutor ==
  ASSUME IInv, OInv, Executor
  PROVE  OInv'
<1> USE DEF ioVars, kernelVars, requestVars
<1>1. UNCHANGED <<requestVars, ioVars, result, kernelVars>>
  BY DEF Executor, harvest, RunCallback
<1>2. UnreadInTurn' /\ Given'
  BY <1>1 DEF OInv, UnreadInTurn, Given, GivenBefore, Chunk, Held, Unread
<1>3. \A p, q : InTurn(p, q) => InTurn(p, q)'
  BY <1>1 DEF InTurn, Chunk
<1>4. CASE harvest
  <2>1. Line' = Line /\ called' = called
    BY <1>4, ConcatQueue DEF harvest, Line, IInv, TypeOK
  <2> QED
    BY <1>2, <1>3, <2>1 DEF OInv, LineInTurn
<1>5. CASE RunCallback
  <2>1. /\ Line # <<>> /\ Line' = Tail(Line)
        /\ called' = called \union {Head(Line)}
    <3>1. /\ harvested # <<>> /\ harvested' = Tail(harvested)
          /\ called' = called \union {Head(harvested)}
          /\ completed_task_' = completed_task_
      BY <1>5 DEF RunCallback
    <3>2. Line' = Tail(harvested) \o completed_task_
      BY <3>1 DEF Line
    <3> QED
      BY <3>1, <3>2, LineType
  <2>2. /\ Len(Line') = Len(Line) - 1 /\ Len(Line) \in Nat \ {0}
        /\ Head(Line) = Line[1]
        /\ \A i \in 1..Len(Line') : Line'[i] = Line[i + 1]
    BY <2>1, LineType
  <2>3. LineInTurn'
    <3> SUFFICES ASSUME NEW j \in 1..Len(Line')
                 PROVE  /\ \A i \in 1..Len(Line') :
                             i < j => InTurn(Line[i], Line[j])'
                        /\ \A p \in called' : InTurn(p, Line[j])'
      BY DEF LineInTurn
    <3>1. j + 1 \in 1..Len(Line) /\ 1 \in 1..Len(Line) /\ 1 < j + 1
      BY <2>2
    <3>2. \A i \in 1..Len(Line') : i < j => InTurn(Line[i], Line[j])'
      <4> SUFFICES ASSUME NEW i \in 1..Len(Line'), i < j
                   PROVE  InTurn(Line[i], Line[j])'
        OBVIOUS
      <4>1. i + 1 \in 1..Len(Line) /\ i + 1 < j + 1
        BY <2>2
      <4>2. InTurn(Line[i + 1], Line[j + 1])
        BY <3>1, <4>1 DEF OInv, LineInTurn
      <4> QED
        BY <1>3, <2>2, <4>2 DEF InTurn, Chunk
    <3>3. \A p \in called' : InTurn(p, Line[j + 1])
      BY <2>1, <2>2, <3>1 DEF OInv, LineInTurn
    <3> QED
      BY <1>1, <2>2, <3>2, <3>3 DEF InTurn, Chunk
  <2> QED
    BY <1>2, <2>3 DEF OInv
<1> QED
  BY <1>4, <1>5 DEF Executor

LEMMA OrderNext == IInv /\ OInv /\ [Next]_vars => OInv'
<1> SUFFICES ASSUME IInv, OInv, [Next]_vars PROVE OInv'
  OBVIOUS
<1>1. ASSUME NEW fd \in Fds, SubmitRead(fd) \/ connect(fd) \/ send_async(fd)
                               \/ send_sync(fd)
      PROVE  OInv'
  <2>1. \E s \in Slots : /\ MaySubmit(s) /\ (Register(s) \/ Answer(s))
                         /\ UNCHANGED <<ioVars, doneVars, kernelVars>>
    BY <1>1, SlotParts DEF SubmitRead, connect, send_async, send_sync
  <2> QED
    BY <2>1, OrderSubmit
<1>2. CASE start \/ stop \/ Kernel \/ (\E fd \in Fds : Close(fd))
             \/ UNCHANGED vars
  BY <1>2, OrderKernel
<1>3. CASE get_pending_io \/ Poll \/ Repost
  <2>1. /\ UNCHANGED <<requestVars, doneVars, nchunk, inbox>>
        /\ io' # "storing"
    BY <1>3 DEF get_pending_io, Poll, Repost, kernelVars
  <2> QED
    BY <2>1, OrderQuiet
<1>4. CASE \E s \in Slots : Operate(s)
  BY <1>4, OrderOperate
<1>5. CASE Store
  BY <1>5, OrderStore
<1>6. CASE Executor
  BY <1>6, OrderExecutor
<1> QED
  BY <1>1, <1>2, <1>3, <1>4, <1>5, <1>6 DEF Next, Clients, do_io

\* Only RunCallback calls, and it takes the front of the line.
LEMMA CallsInOrder ==
  ASSUME IInv, OInv, [Next]_vars,
         NEW q \in called' \ called, NEW p \in called,
         slot[p] = slot[q], Chunk(p), Chunk(q)
  PROVE  result[p] < result[q]
<1>1. RunCallback
  <2>1. ASSUME ~RunCallback PROVE called' = called
    BY <2>1 DEF Next, Clients, start, stop, Kernel, do_io, Executor,
                SubmitRead, connect, send_async, send_sync, Close, Arrive,
                Congest, Drain, Reuse, get_pending_io, Poll, Repost, Operate,
                Store, harvest, vars, doneVars
  <2> QED
    BY <2>1
<1>2. /\ q = Head(harvested) /\ harvested # <<>>
      /\ Head(harvested) = Head(Line) /\ Line # <<>>
  BY <1>1, LineType DEF RunCallback
<1>3. q = Line[1] /\ 1 \in 1..Len(Line)
  BY <1>2, LineType
<1>4. InTurn(p, q)
  BY <1>3 DEF OInv, LineInTurn
<1> QED
  BY <1>4 DEF InTurn

\* The callbacks of the reads of an fd are given its data in the order in
\* which they run, whatever clients do.
THEOREM DataInOrder == Spec => ChunksInOrder
<1>1. Init => IInv /\ OInv
  BY InitInv, OrderInit
<1>2. (IInv /\ OInv) /\ [Next]_vars => (IInv /\ OInv)'
  BY NextInv, OrderNext
<1>3. (IInv /\ OInv) /\ [Next]_vars =>
        [\A q \in called' \ called : \A p \in called :
           slot[p] = slot[q] /\ Chunk(p) /\ Chunk(q) => result[p] < result[q]
        ]_called
  BY CallsInOrder
<1> QED
  BY <1>1, <1>2, <1>3, PTL DEF Spec, ChunksInOrder
=============================================================================
