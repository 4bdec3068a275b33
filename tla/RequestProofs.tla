---------------------------- MODULE RequestProofs ----------------------------
(***************************************************************************)
(* Proofs about the requests of the Windows proactor and about the values  *)
(* that the requests of every proactor carry: the bytes of a Buffer and an *)
(* Address.  The three share no state.  Iocp: its invariants, that only a  *)
(* failed completion packet is dropped, and that it implements             *)
(* ProactorSpec, for any number of requests.  Buffer: that it is one       *)
(* array, what of it is sent, and which words are read from it, for any    *)
(* bytes and bounds.  Address: where it is delivered and what is private,  *)
(* for any ips and ports.                                                  *)
(***************************************************************************)
EXTENDS Iocp, Buffer, Address, QueueLemmas, FiniteSetTheorems,
        WellFoundedInduction, TLAPS

-----------------------------------------------------------------------------
(* The inductive invariant.                                                 *)

InQueue == Range(completed_tasks_) \union Range(harvested)
Done == InQueue \union called

\* A request whose operation is not over for the proactor: it was submitted,
\* its OverlapInfo is allocated, its callback was never queued.
Held(q) ==
    /\ q \in 1..nreq /\ q \in overlaps
    /\ q \notin returned /\ q \notin Done

\* A request is in the kernel, in one packet, or with the loop, and held.
OnePlace ==
    /\ \A i, j \in DOMAIN port : port[i].req = port[j].req => i = j
    /\ \A i \in DOMAIN port : port[i].req # 0 =>
         /\ Held(port[i].req)
         /\ port[i].req \notin inkernel /\ port[i].req # cur
    /\ \A q \in inkernel : Held(q) /\ q # cur
    /\ cur # 0 => Held(cur)
    /\ loop = "handling" <=> cur # 0

\* A callback that was queued is in one queue, once, or has run.
QueuedOnce ==
    /\ IsInjective(completed_tasks_) /\ IsInjective(harvested)
    /\ Range(completed_tasks_) \cap (Range(harvested) \union called) = {}
    /\ Range(harvested) \cap called = {}
    /\ returned \union Done \subseteq 1..nreq
    /\ returned \cap Done = {}

\* What had completed when stop() was called is handled, or with the loop, or
\* on the port ahead of the exit packet, until the loop has taken that packet.
Before(e) ==
    \A p \in first : p.ok =>
        p.req \in Done \union {cur} \/ \E i \in DOMAIN port : i < e /\ port[i] = p
Drains ==
    /\ stopped /\ loop # "exited" =>
         \E e \in DOMAIN port : port[e] = Exit /\ Before(e)
    /\ loop = "exited" => stopped /\ \A p \in first : p.ok => p.req \in Done
    /\ ~stopped => \A i \in DOMAIN port : port[i].req # 0

IInv == TypeOK /\ OnePlace /\ QueuedOnce /\ Drains

\* A packet that is not the exit packet names a request.
LEMMA PacketParts ==
  ASSUME NEW p \in Packets
  PROVE  /\ p.req \in 0..MaxReqs /\ p.ok \in BOOLEAN
         /\ p.req = 0 <=> p = Exit
         /\ p.ok => p.req # 0
         /\ p.req # 0 => p.req \in Reqs
<1>1. Exit.req = 0 /\ Exit.ok = FALSE /\ MaxReqs \in Nat
  BY IocpAssumption DEF Exit
<1>2. CASE p = Exit
  <2>1. p.req = 0 /\ p.ok = FALSE /\ 0 \in 0..MaxReqs
    BY <1>1, <1>2
  <2>2. ~p.ok /\ p.ok \in BOOLEAN
    BY <2>1
  <2> QED
    BY <1>2, <2>1, <2>2
<1>3. CASE p \in [req: Reqs, ok: BOOLEAN]
  <2>1. p.req \in Reqs /\ p.ok \in BOOLEAN
    BY <1>3
  <2>2. p.req \in 0..MaxReqs /\ p.req # 0
    BY <1>1, <2>1 DEF Reqs
  <2> QED
    BY <1>1, <2>1, <2>2
<1> QED
  BY <1>2, <1>3 DEF Packets

LEMMA PortParts ==
  ASSUME TypeOK, NEW i \in DOMAIN port
  PROVE  /\ port[i] \in Packets
         /\ port[i].req \in 0..MaxReqs
         /\ port[i].req = 0 <=> port[i] = Exit
         /\ port[i].ok => port[i].req # 0
         /\ port[i].req # 0 => port[i].req \in Reqs
<1>1. port[i] \in Packets
  BY DEF TypeOK
<1> QED
  BY <1>1, PacketParts

LEMMA InitInv == Init => IInv
<1> SUFFICES ASSUME Init PROVE IInv
  OBVIOUS
<1>1. TypeOK
  <2>1. <<>> \in Seq(Packets) /\ <<>> \in Seq(Reqs) /\ 0 \in 0..MaxReqs
    BY IocpAssumption
  <2> QED
    BY <2>1 DEF Init, TypeOK
<1>2. DOMAIN port = {} /\ Done = {}
  BY EmptyRange DEF Init, Done, InQueue
<1>3. OnePlace /\ Drains
  BY <1>2 DEF Init, OnePlace, Drains
<1>4. QueuedOnce
  BY <1>2, EmptyRange DEF Init, QueuedOnce
<1> QED
  BY <1>1, <1>3, <1>4 DEF IInv

\* What the end of the port and its rest after the front hold.
LEMMA PushPop ==
  ASSUME NEW S, NEW s \in Seq(S), NEW e \in S
  PROVE  /\ DOMAIN Append(s, e) = 1..(Len(s) + 1) /\ DOMAIN s = 1..Len(s)
         /\ Len(s) \in Nat
         /\ \A i \in 1..Len(s) : Append(s, e)[i] = s[i]
         /\ Append(s, e)[Len(s) + 1] = e
         /\ s # <<>> =>
              /\ Len(s) > 0 /\ Head(s) = s[1]
              /\ DOMAIN Tail(s) = 1..(Len(s) - 1)
              /\ \A i \in 1..(Len(s) - 1) : Tail(s)[i] = s[i + 1]
  OBVIOUS

\* A new request is in no other place.
LEMMA SubmitInv ==
  ASSUME IInv, Submit
  PROVE  IInv'
<1> USE DEF loopVars, doneVars
<1>0. PICK k \in Reqs : k = nreq + 1
  BY IocpAssumption
     DEF IInv, TypeOK, Submit, Transfer, Connection, Immediate, Pend, Fail,
         Number, Reqs
<1>1. /\ nreq \in Nat /\ MaxReqs \in Nat /\ k = nreq + 1 /\ nreq' = k
      /\ UNCHANGED <<port, stopped, first, loop, cur, completed_tasks_,
                     harvested, called, life>>
  BY <1>0, IocpAssumption
     DEF IInv, TypeOK, Submit, Transfer, Connection, Immediate, Pend, Fail,
         Number, Reqs
<1>2. \/ /\ overlaps' = overlaps \union {k}
         /\ inkernel' = inkernel \union {k}
         /\ returned' = returned
      \/ /\ overlaps' = overlaps \/ overlaps' = overlaps \union {k}
         /\ inkernel' = inkernel
         /\ returned' = returned \union {k}
  BY <1>1 DEF Submit, Transfer, Connection, Immediate, Pend, Fail
<1>3. k \notin 1..nreq /\ 1..nreq' = 1..nreq \union {k}
  BY <1>1
<1>4. Done' = Done /\ InQueue' = InQueue
  BY <1>1 DEF Done, InQueue
<1>5. k \notin Done /\ k \notin returned /\ cur # k
  BY <1>1, <1>3 DEF IInv, QueuedOnce, OnePlace, Held
<1>6. TypeOK'
  <2>1. nreq' \in 0..MaxReqs
    BY <1>1 DEF Reqs
  <2>2. returned' \in SUBSET Reqs /\ overlaps' \in SUBSET Reqs
        /\ inkernel' \in SUBSET Reqs
    BY <1>1, <1>2 DEF IInv, TypeOK
  <2> QED
    BY <1>1, <2>1, <2>2 DEF IInv, TypeOK
<1>7. \A q : Held(q) => Held(q)' /\ q # k
  BY <1>2, <1>3, <1>4 DEF Held
<1>8. k \in inkernel' => Held(k)'
  BY <1>2, <1>3, <1>4, <1>5, <1>1 DEF Held, IInv, OnePlace
<1>9. OnePlace'
  <2>1. \A q \in inkernel' : Held(q)' /\ q # cur
    <3>1. \A q \in inkernel : Held(q) /\ q # cur
      BY DEF IInv, OnePlace
    <3> TAKE q \in inkernel'
    <3>2. CASE q \in inkernel
      BY <1>7, <3>1, <3>2
    <3>3. CASE q = k
      BY <1>5, <1>8, <3>3
    <3> QED
      BY <1>2, <3>2, <3>3
  <2>2. \A i \in DOMAIN port : port[i].req # 0 =>
           Held(port[i].req)' /\ port[i].req \notin inkernel'
    BY <1>1, <1>2, <1>7 DEF IInv, OnePlace
  <2> QED
    BY <1>1, <1>7, <2>1, <2>2 DEF IInv, OnePlace
<1>10. QueuedOnce'
  <2>1. returned' \subseteq returned \union {k}
    BY <1>2
  <2> QED
    BY <1>1, <1>3, <1>4, <1>5, <2>1 DEF IInv, QueuedOnce
<1>11. Drains'
  BY <1>1, <1>4 DEF IInv, Drains, Before
<1> QED
  BY <1>6, <1>9, <1>10, <1>11 DEF IInv

\* start() and the destructor touch no request.
LEMMA QuietInv ==
  ASSUME IInv, start \/ Destroy \/ Joined \/ UNCHANGED vars
  PROVE  IInv'
<1> USE DEF vars, requestVars, kernelVars, loopVars, doneVars
<1>1. /\ UNCHANGED <<nreq, returned, overlaps, inkernel, port, stopped, first,
                     cur, completed_tasks_, harvested, called>>
      /\ loop' = loop \/ (loop = "none" /\ loop' = "waiting")
      /\ life' = life \/ life' \in {"terminated", "joining", "gone"}
  BY DEF start, Destroy, Joined
<1>2. Done' = Done /\ InQueue' = InQueue
  BY <1>1 DEF Done, InQueue
<1>3. TypeOK'
  BY <1>1 DEF IInv, TypeOK
<1>4. OnePlace'
  BY <1>1, <1>2 DEF IInv, OnePlace, Held
<1>5. QueuedOnce'
  BY <1>1, <1>2 DEF IInv, QueuedOnce
<1>6. Drains'
  BY <1>1, <1>2 DEF IInv, Drains, Before
<1> QED
  BY <1>3, <1>4, <1>5, <1>6 DEF IInv

\* The exit packet comes after all that is on the port.
LEMMA StopInv ==
  ASSUME IInv, stop
  PROVE  IInv'
<1> USE DEF requestVars, loopVars, doneVars
<1>1. /\ UNCHANGED <<nreq, returned, overlaps, inkernel, loop, cur,
                     completed_tasks_, harvested, called, life>>
      /\ ~stopped /\ stopped' = TRUE /\ first' = Range(port)
      /\ port' = Append(port, Exit)
  BY DEF stop
<1>2. Exit \in Packets /\ Exit.req = 0 /\ port \in Seq(Packets)
  BY DEF IInv, TypeOK, Packets, Exit
<1>3. /\ DOMAIN port' = 1..(Len(port) + 1) /\ DOMAIN port = 1..Len(port)
      /\ Len(port) \in Nat
      /\ \A i \in 1..Len(port) : port'[i] = port[i]
      /\ port'[Len(port) + 1] = Exit
  BY <1>1, <1>2, PushPop
<1>4. Done' = Done /\ InQueue' = InQueue
  BY <1>1 DEF Done, InQueue
<1>5. \A i \in DOMAIN port : port[i].req # 0
  BY <1>1 DEF IInv, Drains
<1>6. TypeOK'
  <2>1. port' \in Seq(Packets) /\ first' \in SUBSET Packets
    BY <1>1, <1>2, RangeType
  <2> QED
    BY <1>1, <2>1 DEF IInv, TypeOK
<1>7. \A i \in DOMAIN port' : i \in DOMAIN port \/ i = Len(port) + 1
  BY <1>3
<1>8. OnePlace'
  <2>1. \A i, j \in DOMAIN port' : port'[i].req = port'[j].req => i = j
    BY <1>2, <1>3, <1>5, <1>7 DEF IInv, OnePlace
  <2>2. \A i \in DOMAIN port' : port'[i].req # 0 =>
           /\ Held(port'[i].req)
           /\ port'[i].req \notin inkernel /\ port'[i].req # cur
    BY <1>2, <1>3, <1>7 DEF IInv, OnePlace
  <2> QED
    BY <1>1, <1>4, <2>1, <2>2 DEF IInv, OnePlace, Held
<1>9. QueuedOnce'
  BY <1>1, <1>4 DEF IInv, QueuedOnce
<1>10. Drains'
  <2>1. loop # "exited"
    BY <1>1 DEF IInv, Drains
  <2>2. ASSUME NEW p \in first'
        PROVE  \E i \in DOMAIN port' : i < Len(port) + 1 /\ port'[i] = p
    BY <1>1, <1>3, <2>2 DEF Range
  <2>3. Len(port) + 1 \in DOMAIN port'
    BY <1>3
  <2> QED
    BY <1>1, <1>3, <2>1, <2>2, <2>3 DEF Drains, Before
<1> QED
  BY <1>6, <1>8, <1>9, <1>10 DEF IInv

LEMMA CompleteInv ==
  ASSUME IInv, NEW q \in Reqs, NEW ok \in BOOLEAN, Complete(q, ok)
  PROVE  IInv'
<1> USE DEF requestVars, loopVars, doneVars
<1> DEFINE packet == [req |-> q, ok |-> ok]
<1>1. /\ UNCHANGED <<nreq, returned, overlaps, stopped, first, loop, cur,
                     completed_tasks_, harvested, called, life>>
      /\ q \in inkernel /\ inkernel' = inkernel \ {q}
      /\ port' = Append(port, packet)
  BY DEF Complete
<1>2. packet \in Packets /\ packet.req = q /\ port \in Seq(Packets) /\ q # 0
  BY IocpAssumption DEF IInv, TypeOK, Packets, Reqs
<1> HIDE DEF packet
<1>3. /\ DOMAIN port' = 1..(Len(port) + 1) /\ DOMAIN port = 1..Len(port)
      /\ Len(port) \in Nat
      /\ \A i \in 1..Len(port) : port'[i] = port[i]
      /\ port'[Len(port) + 1] = packet
  BY <1>1, <1>2, PushPop
<1>4. Done' = Done /\ InQueue' = InQueue
  BY <1>1 DEF Done, InQueue
<1>5. Held(q) /\ q # cur /\ \A i \in DOMAIN port : port[i].req # q
  <2>1. \A i \in DOMAIN port : port[i].req # q
    BY <1>1, <1>2 DEF IInv, OnePlace
  <2> QED
    BY <1>1, <2>1 DEF IInv, OnePlace
<1>6. TypeOK'
  <2>1. port' \in Seq(Packets) /\ inkernel' \in SUBSET Reqs
    BY <1>1, <1>2 DEF IInv, TypeOK
  <2> QED
    BY <1>1, <2>1 DEF IInv, TypeOK
<1>7. \A i \in DOMAIN port' : i \in DOMAIN port \/ i = Len(port) + 1
  BY <1>3
<1>8. OnePlace'
  <2>1. \A i, j \in DOMAIN port' : port'[i].req = port'[j].req => i = j
    BY <1>2, <1>3, <1>5, <1>7 DEF IInv, OnePlace
  <2>2. \A i \in DOMAIN port' : port'[i].req # 0 =>
           /\ Held(port'[i].req)
           /\ port'[i].req \notin inkernel' /\ port'[i].req # cur
    BY <1>1, <1>2, <1>3, <1>5, <1>7 DEF IInv, OnePlace
  <2> QED
    BY <1>1, <1>4, <2>1, <2>2 DEF IInv, OnePlace, Held
<1>9. QueuedOnce'
  BY <1>1, <1>4 DEF IInv, QueuedOnce
<1>10. Drains'
  <2>1. ASSUME NEW e \in DOMAIN port, Before(e)
        PROVE  Before(e)' /\ e \in DOMAIN port' /\ port'[e] = port[e]
    <3>1. \A i \in DOMAIN port : i \in DOMAIN port' /\ port'[i] = port[i]
      BY <1>3
    <3> QED
      BY <1>1, <1>4, <2>1, <3>1 DEF Before
  <2>2. \A i \in DOMAIN port' : ~stopped => port'[i].req # 0
    BY <1>2, <1>3, <1>7 DEF IInv, Drains
  <2> QED
    BY <1>1, <1>4, <2>1, <2>2 DEF IInv, Drains
<1> QED
  BY <1>6, <1>8, <1>9, <1>10 DEF IInv

\* The front of the port is gone, or with the loop, or was the exit packet:
\* then nothing of before stop() was behind it.
LEMMA TakeInv ==
  ASSUME IInv, Take
  PROVE  IInv'
<1> USE DEF requestVars, doneVars
<1>1. /\ UNCHANGED <<nreq, returned, overlaps, inkernel, stopped, first,
                     completed_tasks_, harvested, called, life>>
      /\ loop = "waiting" /\ port # <<>> /\ port' = Tail(port)
  BY DEF Take
<1>2. PICK p \in Packets : p = Head(port)
  BY <1>1, HeadTailRange DEF IInv, TypeOK
<1>3. /\ DOMAIN port = 1..Len(port) /\ Len(port) \in Nat /\ Len(port) > 0
      /\ p = port[1] /\ 1 \in DOMAIN port
      /\ DOMAIN port' = 1..(Len(port) - 1)
      /\ \A i \in 1..(Len(port) - 1) : port'[i] = port[i + 1]
      /\ port' \in Seq(Packets)
  BY <1>1, <1>2, PushPop DEF IInv, TypeOK
<1>4. \A i \in DOMAIN port' : i + 1 \in DOMAIN port /\ port'[i] = port[i + 1]
  BY <1>3
<1>5. ASSUME NEW i \in DOMAIN port, i # 1
      PROVE  i - 1 \in DOMAIN port' /\ port'[i - 1] = port[i]
  <2>1. i - 1 \in 1..(Len(port) - 1) /\ (i - 1) + 1 = i
    BY <1>3, <1>5
  <2> QED
    BY <1>3, <2>1
<1>6. Done' = Done /\ InQueue' = InQueue
  BY <1>1 DEF Done, InQueue
<1>7. cur = 0
  BY <1>1 DEF IInv, OnePlace
<1>8. /\ p.req \in 0..MaxReqs /\ (p.req = 0 <=> p = Exit) /\ (p.ok => p.req # 0)
      /\ p.req # 0 => Held(p.req) /\ p.req \notin inkernel
  BY <1>3, PacketParts DEF IInv, OnePlace
<1>9. \/ p.req = 0 /\ loop' = "exited" /\ cur' = 0
      \/ p.req # 0 /\ ~p.ok /\ loop' = "waiting" /\ cur' = 0
      \/ p.req # 0 /\ p.ok /\ loop' = "handling" /\ cur' = p.req
  BY <1>1, <1>2, <1>7, <1>8 DEF Take
<1>10. TypeOK'
  <2>1. /\ cur' \in 0..MaxReqs
        /\ loop' \in {"none", "waiting", "handling", "exited"}
    BY <1>8, <1>9, IocpAssumption
  <2> QED
    BY <1>1, <1>3, <2>1 DEF IInv, TypeOK
<1>11. \A i \in DOMAIN port' : port'[i].req # p.req
  <2> SUFFICES ASSUME NEW i \in DOMAIN port', port'[i].req = p.req
               PROVE  FALSE
    OBVIOUS
  <2>1. i + 1 \in DOMAIN port /\ port[i + 1].req = port[1].req
    BY <1>3, <1>4
  <2>2. i + 1 = 1
    BY <1>3, <2>1 DEF IInv, OnePlace
  <2> QED
    BY <2>2, <1>3
<1>12. OnePlace'
  <2>1. \A i, j \in DOMAIN port' : port'[i].req = port'[j].req => i = j
    <3> TAKE i \in DOMAIN port', j \in DOMAIN port'
    <3> HAVE port'[i].req = port'[j].req
    <3>1. i + 1 = j + 1
      BY <1>4 DEF IInv, OnePlace
    <3> QED
      BY <3>1, <1>3
  <2>2. \A i \in DOMAIN port' : port'[i].req # 0 =>
           /\ Held(port'[i].req)
           /\ port'[i].req \notin inkernel /\ port'[i].req # cur'
    BY <1>4, <1>9, <1>11 DEF IInv, OnePlace
  <2>3. /\ \A q \in inkernel : Held(q) /\ q # cur'
        /\ cur' # 0 => Held(cur')
        /\ loop' = "handling" <=> cur' # 0
    <3>1. \A q \in inkernel : Held(q) /\ q # 0
      BY <1>7 DEF IInv, OnePlace
    <3> QED
      BY <1>8, <1>9, <3>1
  <2>4. \A q : Held(q)' <=> Held(q)
    BY <1>1, <1>6 DEF Held
  <2> QED
    BY <1>1, <2>1, <2>2, <2>3, <2>4 DEF OnePlace
<1>13. QueuedOnce'
  BY <1>1, <1>6 DEF IInv, QueuedOnce
<1>14. Drains'
  <2>1. ~stopped => p.req # 0 /\ \A i \in DOMAIN port' : port'[i].req # 0
    BY <1>3, <1>4 DEF IInv, Drains
  <2>2. ASSUME stopped
        PROVE  \/ loop' = "exited" /\ \A x \in first : x.ok => x.req \in Done
               \/ /\ loop' # "exited"
                  /\ \E e \in DOMAIN port' : port'[e] = Exit /\ Before(e)'
    <3>1. PICK e \in DOMAIN port : port[e] = Exit /\ Before(e)
      BY <1>1, <2>2 DEF IInv, Drains
    <3>2. CASE p.req = 0
      <4>1. e = 1
        BY <1>3, <1>8, <3>1, <3>2 DEF IInv, OnePlace
      <4>2. ~\E i \in DOMAIN port : i < e
        BY <1>3, <4>1
      <4>3. \A x \in first : x.ok => x.req # 0
        BY PacketParts DEF IInv, TypeOK
      <4> QED
        BY <1>7, <1>9, <3>1, <3>2, <4>2, <4>3 DEF Before
    <3>3. CASE p.req # 0
      <4>1. e # 1 /\ e - 1 \in DOMAIN port' /\ port'[e - 1] = Exit
        BY <1>3, <1>5, <1>8, <3>1, <3>3
      <4>2. ASSUME NEW x \in first, x.ok
            PROVE  \/ x.req \in Done \union {cur'}
                   \/ \E i \in DOMAIN port' : i < e - 1 /\ port'[i] = x
        <5>1. x.req # 0
          BY <4>2, PacketParts DEF IInv, TypeOK
        <5>2. CASE x.req \in Done
          BY <5>2
        <5>3. ASSUME NEW i \in DOMAIN port, i < e, port[i] = x
              PROVE  \/ x.req = cur'
                     \/ \E j \in DOMAIN port' : j < e - 1 /\ port'[j] = x
          <6>1. CASE i = 1
            BY <1>3, <1>9, <3>3, <4>2, <5>3, <6>1
          <6>2. CASE i # 1
            <7>1. i - 1 \in DOMAIN port' /\ port'[i - 1] = x /\ i - 1 < e - 1
              BY <1>3, <1>5, <5>3, <6>2
            <7> QED
              BY <7>1
          <6> QED
            BY <6>1, <6>2
        <5> QED
          BY <1>7, <3>1, <4>2, <5>1, <5>2, <5>3 DEF Before
      <4>3. Before(e - 1)'
        BY <1>1, <1>6, <4>2 DEF Before
      <4> QED
        BY <1>9, <3>3, <4>1, <4>3
    <3> QED
      BY <3>2, <3>3
  <2> QED
    BY <1>1, <1>6, <1>9, <2>1, <2>2 DEF Drains
<1> QED
  BY <1>10, <1>12, <1>13, <1>14 DEF IInv

\* The callback is queued for the first time, and its OverlapInfo deleted.
LEMMA HandleInv ==
  ASSUME IInv, handle_overlap_success
  PROVE  IInv'
<1> USE DEF requestVars, kernelVars
<1>1. PICK k \in Reqs : k = cur /\ Held(k) /\ k # 0
  <2>1. cur # 0 /\ Held(cur)
    BY DEF handle_overlap_success, IInv, OnePlace
  <2> QED
    BY <2>1, IocpAssumption DEF IInv, TypeOK, Reqs
<1>2. /\ UNCHANGED <<nreq, returned, inkernel, port, stopped, first, harvested,
                     called, life>>
      /\ loop = "handling" /\ loop' = "waiting" /\ cur' = 0
      /\ completed_tasks_' = Append(completed_tasks_, k)
      /\ overlaps' = overlaps \ {k}
  BY <1>1 DEF handle_overlap_success
<1>3. k \notin Done /\ k \in 1..nreq /\ k \notin returned
  BY <1>1 DEF Held
<1>4. /\ completed_tasks_' \in Seq(Reqs)
      /\ Range(completed_tasks_') = Range(completed_tasks_) \union {k}
      /\ IsInjective(completed_tasks_')
  BY <1>1, <1>2, <1>3, AppendRange
     DEF IInv, TypeOK, QueuedOnce, Done, InQueue
<1>5. InQueue' = InQueue \union {k} /\ Done' = Done \union {k}
  BY <1>2, <1>4 DEF InQueue, Done
<1>6. TypeOK'
  BY <1>2, <1>4, IocpAssumption DEF IInv, TypeOK
<1>7. \A q : Held(q) /\ q # k => Held(q)'
  BY <1>2, <1>5 DEF Held
<1>8. OnePlace'
  <2>1. \A i \in DOMAIN port : port[i].req # 0 =>
           Held(port[i].req)' /\ port[i].req \notin inkernel
    BY <1>1, <1>7, <1>2 DEF IInv, OnePlace
  <2>2. \A q \in inkernel : Held(q)' /\ q # 0
    <3>1. inkernel \subseteq Reqs
      BY DEF IInv, TypeOK
    <3> QED
      BY <1>1, <1>7, <3>1, IocpAssumption DEF IInv, OnePlace, Reqs
  <2> QED
    BY <1>2, <2>1, <2>2 DEF IInv, OnePlace
<1>9. QueuedOnce'
  BY <1>2, <1>3, <1>4, <1>5 DEF IInv, QueuedOnce, Done, InQueue
<1>10. Drains'
  <2>1. \A e : Before(e) => Before(e)'
    BY <1>1, <1>2, <1>5 DEF Before
  <2> QED
    BY <1>2, <1>5, <2>1 DEF IInv, Drains
<1> QED
  BY <1>6, <1>8, <1>9, <1>10 DEF IInv

LEMMA ExecutorInv ==
  ASSUME IInv, Executor
  PROVE  IInv'
<1> USE DEF requestVars, kernelVars, loopVars
<1>1. UNCHANGED <<nreq, returned, overlaps, inkernel, port, stopped, first,
                  loop, cur, life>>
  BY DEF Executor, harvest, RunCallback
<1>2. /\ completed_tasks_' \in Seq(Reqs) /\ harvested' \in Seq(Reqs)
      /\ called' \in SUBSET Reqs
      /\ Done' = Done
      /\ IsInjective(completed_tasks_') /\ IsInjective(harvested')
      /\ Range(completed_tasks_') \cap (Range(harvested') \union called') = {}
      /\ Range(harvested') \cap called' = {}
  <2>1. CASE harvest
    <3>1. /\ harvested = <<>> /\ harvested' = completed_tasks_
          /\ completed_tasks_' = <<>> /\ called' = called
      BY <2>1 DEF harvest
    <3> QED
      BY <3>1, EmptyRange DEF IInv, TypeOK, QueuedOnce, Done, InQueue
  <2>2. CASE RunCallback
    <3>1. /\ harvested # <<>> /\ harvested' = Tail(harvested)
          /\ called' = called \union {Head(harvested)}
          /\ completed_tasks_' = completed_tasks_
      BY <2>2 DEF RunCallback
    <3>2. /\ Head(harvested) \in Reqs /\ harvested' \in Seq(Reqs)
          /\ Range(harvested) = {Head(harvested)} \union Range(harvested')
          /\ IsInjective(harvested')
          /\ Head(harvested) \notin Range(harvested')
      BY <3>1, HeadTailRange DEF IInv, TypeOK, QueuedOnce
    <3> QED
      BY <3>1, <3>2 DEF IInv, TypeOK, QueuedOnce, Done, InQueue
  <2> QED
    BY <2>1, <2>2 DEF Executor
<1>3. TypeOK'
  BY <1>1, <1>2 DEF IInv, TypeOK
<1>4. OnePlace'
  BY <1>1, <1>2 DEF IInv, OnePlace, Held
<1>5. QueuedOnce'
  BY <1>1, <1>2 DEF IInv, QueuedOnce
<1>6. Drains'
  BY <1>1, <1>2 DEF IInv, Drains, Before
<1> QED
  BY <1>3, <1>4, <1>5, <1>6 DEF IInv

LEMMA NextInv == IInv /\ [Next]_vars => IInv'
<1> SUFFICES ASSUME IInv, [Next]_vars PROVE IInv'
  OBVIOUS
<1>1. CASE Submit
  BY <1>1, SubmitInv
<1>2. CASE start \/ Destroy \/ Joined \/ UNCHANGED vars
  BY <1>2, QuietInv
<1>3. CASE stop
  BY <1>3, StopInv
<1>4. CASE \E q \in Reqs, ok \in BOOLEAN : Complete(q, ok)
  BY <1>4, CompleteInv
<1>5. CASE iocp_loop
  BY <1>5, TakeInv, HandleInv DEF iocp_loop
<1>6. CASE Executor
  BY <1>6, ExecutorInv
<1> QED
  BY <1>1, <1>2, <1>3, <1>4, <1>5, <1>6 DEF Next

\* The inductive invariant holds in every reachable state.
THEOREM Invariance == Spec => []IInv
  BY InitInv, NextInv, PTL DEF Spec

\* Every variable of Iocp keeps its type.
THEOREM TypeCorrect == Spec => []TypeOK
  BY Invariance, PTL DEF IInv

\* No packet refers to an OverlapInfo that is gone, none is there twice, and
\* the kernel and the loop share none.
THEOREM OverlapsLive == Spec => []LiveOverlaps
<1>1. IInv => LiveOverlaps
  <2> SUFFICES ASSUME IInv PROVE LiveOverlaps
    OBVIOUS
  <2> DEFINE packets == {i \in DOMAIN port : port[i] # Exit}
             inport == {port[i].req : i \in packets}
             taken == {cur} \ {0}
  <2>1. \A i \in packets : i \in DOMAIN port /\ port[i].req # 0
    BY PortParts DEF IInv
  <2>2. inport \subseteq overlaps /\ inport \cap inkernel = {}
        /\ inport \cap taken = {}
    BY <2>1 DEF IInv, OnePlace, Held
  <2>3. inkernel \subseteq overlaps /\ taken \subseteq overlaps
        /\ inkernel \cap taken = {}
    BY DEF IInv, OnePlace, Held
  <2>4. Cardinality(packets) = Cardinality(inport)
    <3>1. IsFiniteSet(packets)
      <4>1. DOMAIN port = 1..Len(port) /\ Len(port) \in Nat
        BY DEF IInv, TypeOK
      <4>2. IsFiniteSet(1..Len(port))
        BY <4>1, FS_Interval
      <4> QED
        BY <4>1, <4>2, FS_Subset
    <3> DEFINE f == [i \in packets |-> port[i].req]
    <3>2. \A i, j \in packets : f[i] = f[j] => i = j
      BY <2>1 DEF IInv, OnePlace
    <3>3. f \in [packets -> inport] /\ \A q \in inport : \E i \in packets : f[i] = q
      OBVIOUS
    <3> HIDE DEF f, packets, inport
    <3>4. f \in Bijection(packets, inport)
      BY <3>2, <3>3 DEF Bijection, Injection, Surjection, IsInjective
    <3>5. ExistsBijection(packets, inport)
      BY <3>4 DEF ExistsBijection
    <3> QED
      BY <3>1, <3>5, FS_Bijection
  <2> QED
    BY <2>2, <2>3, <2>4 DEF LiveOverlaps
<1> QED
  BY <1>1, Invariance, PTL

\* The loop ends only when all that had succeeded before stop() was handled.
THEOREM Drained == Spec => []DrainsBeforeExit
<1>1. IInv => DrainsBeforeExit
  BY DEF IInv, Drains, DrainsBeforeExit, Done, InQueue
<1> QED
  BY <1>1, Invariance, PTL

-----------------------------------------------------------------------------
(* What becomes of a request.                                               *)

\* A packet for q is on the port, of an operation that went well or not.
OnPort(q, oks) == \E i \in DOMAIN port : port[i].req = q /\ port[i].ok \in oks

\* The operation of q has succeeded, and its callback is to be queued, is
\* queued or has run.
Succeeded(q) == OnPort(q, {TRUE}) \/ cur = q \/ q \in Done
InHand(q) == q \in inkernel \/ OnPort(q, BOOLEAN) \/ Succeeded(q)

Keeps ==
    \A q \in Reqs :
        /\ q \in (1..nreq') \ (1..nreq) => q \in returned' \/ InHand(q)'
        /\ Succeeded(q) => Succeeded(q)'
        /\ InHand(q) => \/ InHand(q)'
                        \/ Take /\ Head(port) = [req |-> q, ok |-> FALSE]

\* A step that leaves or extends the port and every place of a request.
LEMMA SameKeeps ==
  ASSUME IInv, nreq' = nreq, inkernel \subseteq inkernel', Done \subseteq Done',
         cur' = cur,
         \A i \in DOMAIN port : i \in DOMAIN port' /\ port'[i] = port[i]
  PROVE  Keeps
<1>1. \A q, oks : OnPort(q, oks) => OnPort(q, oks)'
  BY DEF OnPort
<1> QED
  BY <1>1 DEF Keeps, InHand, Succeeded

LEMMA SubmitKeeps ==
  ASSUME IInv, Submit
  PROVE  Keeps
<1>1. PICK k \in Reqs : k = nreq + 1
  BY IocpAssumption
     DEF Submit, Transfer, Connection, Immediate, Pend, Fail, Number, IInv,
         TypeOK, Reqs
<1>2. /\ nreq' = k /\ 1..k = 1..nreq \union {k}
      /\ UNCHANGED <<port, cur, completed_tasks_, harvested, called>>
      /\ inkernel \subseteq inkernel'
      /\ k \in returned' \/ k \in inkernel'
  BY <1>1 DEF IInv, TypeOK, Submit, Transfer, Connection, Immediate, Pend,
              Fail, Number, doneVars, loopVars
<1>3. Done' = Done /\ \A q, oks : OnPort(q, oks)' <=> OnPort(q, oks)
  BY <1>2 DEF Done, InQueue, OnPort
<1> QED
  BY <1>2, <1>3 DEF Keeps, InHand, Succeeded

\* An operation that is over has its packet.
LEMMA CompleteKeeps ==
  ASSUME IInv, NEW k \in Reqs, NEW ok \in BOOLEAN, Complete(k, ok)
  PROVE  Keeps
<1> DEFINE p == [req |-> k, ok |-> ok]
<1>1. /\ inkernel' = inkernel \ {k} /\ port' = Append(port, p)
      /\ UNCHANGED <<nreq, cur, completed_tasks_, harvested, called>>
  BY DEF Complete, requestVars, loopVars, doneVars
<1>2. p \in Packets /\ port \in Seq(Packets)
  BY DEF Packets, IInv, TypeOK
<1>3. /\ \A i \in DOMAIN port : i \in DOMAIN port' /\ port'[i] = port[i]
      /\ Len(port) + 1 \in DOMAIN port' /\ port'[Len(port) + 1] = p
  BY <1>1, <1>2, PushPop
<1>4. OnPort(k, BOOLEAN)'
  BY <1>3 DEF OnPort
<1>5. Done' = Done /\ \A q, oks : OnPort(q, oks) => OnPort(q, oks)'
  BY <1>1, <1>3 DEF Done, InQueue, OnPort
<1> QED
  BY <1>1, <1>4, <1>5 DEF Keeps, InHand, Succeeded

\* The packet that the loop takes is the exit packet, a failure, or is with
\* the loop now.
LEMMA TakeKeeps ==
  ASSUME IInv, Take
  PROVE  Keeps
<1>1. /\ UNCHANGED <<nreq, inkernel, completed_tasks_, harvested, called>>
      /\ loop = "waiting" /\ port # <<>> /\ port' = Tail(port)
      /\ \/ Head(port) = Exit /\ cur' = cur
         \/ Head(port) # Exit /\ ~Head(port).ok /\ cur' = cur
         \/ Head(port).ok /\ cur' = Head(port).req
  BY DEF Take, requestVars, doneVars
<1>2. PICK p \in Packets : p = Head(port)
  BY <1>1, HeadTailRange DEF IInv, TypeOK
<1>3. /\ p = port[1] /\ p = Head(port)
      /\ \A i \in DOMAIN port : i # 1 =>
           i - 1 \in DOMAIN port' /\ port'[i - 1] = port[i]
  <2>1. /\ DOMAIN port = 1..Len(port) /\ Len(port) \in Nat
        /\ Head(port) = port[1] /\ DOMAIN port' = 1..(Len(port) - 1)
        /\ \A i \in 1..(Len(port) - 1) : port'[i] = port[i + 1]
    BY <1>1, PushPop DEF IInv, TypeOK
  <2>2. ASSUME NEW i \in DOMAIN port, i # 1
        PROVE  i - 1 \in DOMAIN port' /\ port'[i - 1] = port[i]
    <3>1. i - 1 \in 1..(Len(port) - 1) /\ (i - 1) + 1 = i
      BY <2>1, <2>2
    <3> QED
      BY <2>1, <3>1
  <2> QED
    BY <1>2, <2>1, <2>2
<1>4. Done' = Done /\ cur = 0
  BY <1>1 DEF Done, InQueue, IInv, OnePlace
<1>5. ASSUME NEW q \in Reqs, NEW oks \in {{TRUE}, BOOLEAN}, OnPort(q, oks)
      PROVE  OnPort(q, oks)' \/ (p.req = q /\ p.ok \in oks)
  BY <1>3, <1>5 DEF OnPort
<1>6. ASSUME NEW q \in Reqs, p.req = q, p.ok PROVE cur' = q
  BY <1>1, <1>2, <1>6, PacketParts
<1>7. ASSUME NEW q \in Reqs, p.req = q, ~p.ok
      PROVE  Head(port) = [req |-> q, ok |-> FALSE]
  <2>1. p # Exit /\ p.ok \in BOOLEAN
    BY <1>2, <1>7, PacketParts, IocpAssumption DEF Reqs
  <2>2. p \in [req: Reqs, ok: BOOLEAN]
    BY <1>2, <2>1 DEF Packets
  <2> QED
    BY <1>2, <1>7, <2>1, <2>2
<1>8. \A q \in Reqs : q # 0
  BY DEF Reqs
<1>9. ASSUME NEW q \in Reqs, Succeeded(q) PROVE Succeeded(q)'
  BY <1>4, <1>5, <1>6, <1>8, <1>9 DEF Succeeded
<1>10. ASSUME NEW q \in Reqs, InHand(q)
       PROVE  InHand(q)' \/ Head(port) = [req |-> q, ok |-> FALSE]
  <2>1. OnPort(q, BOOLEAN) => \/ OnPort(q, BOOLEAN)' \/ cur' = q
                              \/ Head(port) = [req |-> q, ok |-> FALSE]
    BY <1>5, <1>6, <1>7
  <2> QED
    BY <1>1, <1>9, <1>10, <2>1 DEF InHand, Succeeded
<1> QED
  BY <1>1, <1>9, <1>10 DEF Keeps

\* What the loop was handling has its callback queued.
LEMMA HandleKeeps ==
  ASSUME IInv, handle_overlap_success
  PROVE  Keeps
<1>1. /\ loop = "handling" /\ completed_tasks_' = Append(completed_tasks_, cur)
      /\ cur' = 0
      /\ UNCHANGED <<nreq, port, inkernel, harvested, called>>
  BY DEF handle_overlap_success, requestVars, kernelVars
<1>2. cur \in Reqs
  BY <1>1, IocpAssumption DEF IInv, TypeOK, OnePlace, Reqs
<1>3. Done' = Done \union {cur}
  BY <1>1, <1>2, AppendRange DEF Done, InQueue, IInv, TypeOK
<1>4. \A q, oks : OnPort(q, oks) => OnPort(q, oks)'
  BY <1>1 DEF OnPort
<1> QED
  BY <1>1, <1>3, <1>4 DEF Keeps, InHand, Succeeded

LEMMA ExecutorKeeps ==
  ASSUME IInv, Executor
  PROVE  Keeps
<1>1. UNCHANGED <<nreq, port, inkernel, cur>>
  BY DEF Executor, harvest, RunCallback, requestVars, kernelVars, loopVars
<1>2. Done' = Done
  <2>1. CASE harvest
    BY <2>1, EmptyRange DEF harvest, Done, InQueue
  <2>2. CASE RunCallback
    <3>1. Range(harvested) = {Head(harvested)} \union Range(Tail(harvested))
      BY <2>2, HeadTailRange DEF RunCallback, IInv, TypeOK
    <3> QED
      BY <2>2, <3>1 DEF RunCallback, Done, InQueue
  <2> QED
    BY <2>1, <2>2 DEF Executor
<1> QED
  BY <1>1, <1>2, SameKeeps

LEMMA StepKeeps == IInv /\ [Next]_vars => [Keeps]_vars
<1> SUFFICES ASSUME IInv, Next PROVE Keeps \/ UNCHANGED vars
  OBVIOUS
<1>1. CASE start \/ Destroy \/ Joined
  <2>1. /\ UNCHANGED <<nreq, port, inkernel, cur, completed_tasks_, harvested>>
        /\ called' = called
    BY <1>1 DEF start, Destroy, Joined, requestVars, kernelVars, loopVars,
                doneVars
  <2> QED
    BY <2>1, SameKeeps DEF Done, InQueue
<1>2. CASE stop
  <2>1. /\ UNCHANGED <<nreq, inkernel, cur, completed_tasks_, harvested>>
        /\ called' = called /\ port' = Append(port, Exit)
    BY <1>2 DEF stop, requestVars, loopVars, doneVars
  <2>2. Exit \in Packets /\ port \in Seq(Packets)
    BY DEF Packets, IInv, TypeOK
  <2>3. \A i \in DOMAIN port : i \in DOMAIN port' /\ port'[i] = port[i]
    BY <2>1, <2>2, PushPop
  <2> QED
    BY <2>1, <2>3, SameKeeps DEF Done, InQueue
<1>3. CASE \E q \in Reqs, ok \in BOOLEAN : Complete(q, ok)
  BY <1>3, CompleteKeeps
<1>4. CASE Submit \/ iocp_loop \/ Executor
  BY <1>4, SubmitKeeps, TakeKeeps, HandleKeeps, ExecutorKeeps DEF iocp_loop
<1> QED
  BY <1>1, <1>2, <1>3, <1>4 DEF Next

\* A request that the call does not answer stays with the kernel, the port or
\* the loop until its callback is queued; only a packet of a failure takes it
\* from there, and no success is lost, whatever is stopped or destroyed in
\* between.  This is the safety core of Answered.
THEOREM OnlyFailuresDropped == Spec => [][Keeps]_vars
  BY StepKeeps, Invariance, PTL DEF Spec

-----------------------------------------------------------------------------
(* Iocp implements ProactorSpec.                                            *)

absStatus == [q \in Reqs |-> Status(q)]

\* Status, and its value after a step, by the sets a request is in.
LEMMA StatusIs ==
  ASSUME NEW q \in Reqs
  PROVE  /\ Status(q) =  IF q \in InQueue THEN "completed" ELSE
                         IF q \in called THEN "called" ELSE
                         IF q \in returned THEN "returned" ELSE
                         IF q \in 1..nreq THEN "pending" ELSE "idle"
         /\ Status(q)' = IF q \in InQueue' THEN "completed" ELSE
                         IF q \in called' THEN "called" ELSE
                         IF q \in returned' THEN "returned" ELSE
                         IF q \in 1..nreq' THEN "pending" ELSE "idle"
  BY DEF Status, InQueue

LEMMA InitRefines == Init => Abstract!Init
  BY EmptyRange, IocpAssumption DEF Init, Abstract!Init, Status

LEMMA SubmitRefines ==
  ASSUME IInv, Submit
  PROVE  \E q \in Reqs : Abstract!Submit(q) \/ Abstract!Answer(q)
<1>1. PICK k \in Reqs : k = nreq + 1
  BY IocpAssumption
     DEF Submit, Transfer, Connection, Immediate, Pend, Fail, Number, IInv,
         TypeOK, Reqs
<1>2. /\ nreq' = k /\ k \notin 1..nreq /\ 1..k = 1..nreq \union {k}
      /\ InQueue' = InQueue /\ called' = called
  BY <1>1 DEF IInv, TypeOK, Submit, Transfer, Connection, Immediate, Pend,
              Fail, Number, doneVars, InQueue
<1>3. k \notin InQueue /\ k \notin called /\ k \notin returned
  BY <1>2 DEF IInv, QueuedOnce, Done
<1>4. absStatus[k] = "idle"
  BY <1>2, <1>3, StatusIs DEF absStatus
<1>5. CASE returned' = returned
  <2>1. absStatus' = [absStatus EXCEPT ![k] = "pending"]
    BY <1>2, <1>3, <1>5, StatusIs DEF absStatus
  <2> QED
    BY <1>4, <2>1 DEF Abstract!Submit, Abstract!Move, absStatus
<1>6. CASE returned' = returned \union {k}
  <2>1. absStatus' = [absStatus EXCEPT ![k] = "returned"]
    BY <1>2, <1>3, <1>6, StatusIs DEF absStatus
  <2> QED
    BY <1>4, <2>1 DEF Abstract!Answer, Abstract!Move, absStatus
<1> QED
  BY <1>1, <1>5, <1>6
     DEF Submit, Transfer, Connection, Immediate, Pend, Fail

LEMMA HandleRefines ==
  ASSUME IInv, handle_overlap_success
  PROVE  \E q \in Reqs : Abstract!Complete(q)
<1>1. PICK k \in Reqs : k = cur /\ Held(k)
  <2>1. cur # 0 /\ Held(cur)
    BY DEF handle_overlap_success, IInv, OnePlace
  <2> QED
    BY <2>1, IocpAssumption DEF IInv, TypeOK, Reqs
<1>2. k \in 1..nreq /\ k \notin InQueue \union called \union returned
  BY <1>1 DEF Held, Done
<1>3. /\ completed_tasks_' = Append(completed_tasks_, k)
      /\ UNCHANGED <<nreq, called, returned, harvested>>
  BY <1>1 DEF handle_overlap_success, requestVars
<1>4. InQueue' = InQueue \union {k}
  BY <1>3, AppendRange DEF InQueue, IInv, TypeOK
<1>5. absStatus[k] = "pending"
  BY <1>2, StatusIs DEF absStatus
<1>6. absStatus' = [absStatus EXCEPT ![k] = "completed"]
  BY <1>2, <1>3, <1>4, StatusIs DEF absStatus
<1>7. Abstract!Complete(k)
  BY <1>5, <1>6 DEF Abstract!Complete, Abstract!Move, absStatus
<1> QED
  BY <1>7

LEMMA CallRefines ==
  ASSUME IInv, RunCallback
  PROVE  \E q \in Reqs : Abstract!Call(q)
<1>1. /\ harvested # <<>> /\ harvested' = Tail(harvested)
      /\ called' = called \union {Head(harvested)}
      /\ UNCHANGED <<nreq, returned, completed_tasks_>>
  BY DEF RunCallback, requestVars
<1>2. PICK k \in Reqs : k = Head(harvested)
  BY <1>1, HeadTailRange DEF IInv, TypeOK
<1>3. /\ Range(harvested) = {k} \union Range(harvested')
      /\ k \notin Range(harvested')
  BY <1>1, <1>2, HeadTailRange DEF IInv, TypeOK, QueuedOnce
<1>4. k \in InQueue /\ InQueue' = InQueue \ {k}
  BY <1>1, <1>3 DEF IInv, QueuedOnce, InQueue
<1>5. absStatus[k] = "completed"
  BY <1>4, StatusIs DEF absStatus
<1>6. absStatus' = [absStatus EXCEPT ![k] = "called"]
  BY <1>1, <1>2, <1>4, StatusIs DEF absStatus
<1>7. Abstract!Call(k)
  BY <1>5, <1>6 DEF Abstract!Call, Abstract!Move, absStatus
<1> QED
  BY <1>7

\* Each step of Iocp is a step of ProactorSpec or changes no status.
LEMMA StepRefines == IInv /\ [Next]_vars => [Abstract!Next]_absStatus
<1> SUFFICES ASSUME IInv, [Next]_vars
             PROVE  Abstract!Next \/ absStatus' = absStatus
  OBVIOUS
<1>1. CASE Submit
  BY <1>1, SubmitRefines DEF Abstract!Next
<1>2. CASE handle_overlap_success
  BY <1>2, HandleRefines DEF Abstract!Next
<1>3. CASE RunCallback
  BY <1>3, CallRefines DEF Abstract!Next
<1>4. CASE harvest
  <2>1. /\ harvested = <<>> /\ harvested' = completed_tasks_
        /\ completed_tasks_' = <<>>
        /\ UNCHANGED <<nreq, called, returned>>
    BY <1>4 DEF harvest, requestVars
  <2>2. InQueue' = InQueue
    BY <2>1, EmptyRange DEF InQueue
  <2> QED
    BY <2>1, <2>2, StatusIs DEF absStatus
<1>5. CASE \/ start \/ stop \/ Destroy \/ Joined \/ Take \/ UNCHANGED vars
           \/ (\E q \in Reqs, ok \in BOOLEAN : Complete(q, ok))
  <2>1. UNCHANGED <<requestVars, doneVars>>
    BY <1>5 DEF start, stop, Destroy, Joined, Take, Complete, vars,
                requestVars, doneVars
  <2> QED
    BY <2>1 DEF absStatus, Status, requestVars, doneVars
<1> QED
  BY <1>1, <1>2, <1>3, <1>4, <1>5 DEF Next, iocp_loop, Executor

\* Iocp implements ProactorSpec: a callback runs once, after its operation,
\* and never for a request that was answered by the call itself.
THEOREM Implementation == Spec => ImplementsProactor
<1>1. Init => Abstract!Init
  BY InitRefines
<1>2. IInv /\ [Next]_vars => [Abstract!Next]_absStatus
  BY StepRefines
<1> QED
  BY <1>1, <1>2, Invariance, PTL
     DEF Spec, ImplementsProactor, Abstract!Spec, absStatus

-----------------------------------------------------------------------------
(* Induction.                                                               *)

\* A set of positions that is not empty has a first one.
LEMMA LeastIn ==
  ASSUME NEW T \in SUBSET Nat, T # {}
  PROVE  \E m \in T : \A j \in T : m <= j
<1> DEFINE R == OpToRel(<, Nat)
<1>1. R = {p \in Nat \X Nat : p[1] < p[2]}
  BY DEF OpToRel
<1>2. IsWellFoundedOn(R, Nat)
  BY NatLessThanWellFounded
<1> HIDE DEF R
<1>3. PICK m \in T : \A j \in T : <<j, m>> \notin R
  BY <1>2, WFMin
<1>4. ASSUME NEW j \in T PROVE m <= j
  <2>1. ~(j < m)
    BY <1>1, <1>3
  <2> QED
    BY <2>1
<1> QED
  BY <1>4

\* Induction over the natural numbers, for a property given as a set.
LEMMA SetInduction ==
  ASSUME NEW S, 0 \in S, \A n \in Nat : n \in S => n + 1 \in S
  PROVE  Nat \subseteq S
<1> SUFFICES ASSUME Nat \ S # {} PROVE FALSE
  OBVIOUS
<1>1. PICK m \in Nat \ S : \A j \in Nat \ S : m <= j
  BY LeastIn
<1>2. m # 0 /\ m - 1 \in Nat
  BY <1>1
<1>3. m - 1 \in S
  BY <1>1, <1>2
<1>4. (m - 1) + 1 \in S
  BY <1>2, <1>3
<1> QED
  BY <1>1, <1>2, <1>4

-----------------------------------------------------------------------------
(* Sequences one after the other.                                           *)

LEMMA SeqEqual ==
  ASSUME NEW S, NEW s \in Seq(S), NEW t \in Seq(S), Len(s) = Len(t),
         \A i \in 1..Len(s) : s[i] = t[i]
  PROVE  s = t
  OBVIOUS

LEMMA ConcatIs ==
  ASSUME NEW S, NEW s \in Seq(S), NEW t \in Seq(S)
  PROVE  /\ s \o t \in Seq(S) /\ Len(s \o t) = Len(s) + Len(t)
         /\ \A i \in 1..Len(s) : (s \o t)[i] = s[i]
         /\ \A i \in (Len(s) + 1)..(Len(s) + Len(t)) : (s \o t)[i] = t[i - Len(s)]
  OBVIOUS

LEMMA ConcatAssoc ==
  ASSUME NEW S, NEW s \in Seq(S), NEW t \in Seq(S), NEW u \in Seq(S)
  PROVE  (s \o t) \o u = s \o (t \o u)
<1>1. /\ (s \o t) \o u \in Seq(S) /\ s \o (t \o u) \in Seq(S)
      /\ Len((s \o t) \o u) = Len(s) + Len(t) + Len(u)
      /\ Len(s \o (t \o u)) = Len(s) + Len(t) + Len(u)
      /\ Len(s) \in Nat /\ Len(t) \in Nat /\ Len(u) \in Nat
  OBVIOUS
<1>2. \A i \in 1..(Len(s) + Len(t) + Len(u)) :
        ((s \o t) \o u)[i] = (s \o (t \o u))[i]
  OBVIOUS
<1> QED
  BY <1>1, <1>2, SeqEqual

-----------------------------------------------------------------------------
(* What FlattenSeq computes.                                                *)

\* The function by which it is defined: f[i] is the first i chunks together.
Step(f, s, i) == IF i = 1 THEN s[i] ELSE f[i - 1] \o s[i]
IsPartial(f, s, n) == f = [i \in 1..n |-> Step(f, s, i)]
Partial(s) == CHOOSE f : IsPartial(f, s, Len(s))

LEMMA FlattenIs ==
  ASSUME NEW s
  PROVE  FlattenSeq(s) = IF Len(s) = 0 THEN s ELSE Partial(s)[Len(s)]
  BY DEF FlattenSeq, Partial, IsPartial, Step

LEMMA PartialExists ==
  ASSUME NEW S, NEW s \in Seq(Seq(S))
  PROVE  \A n \in 0..Len(s) : \E f \in [1..n -> Seq(S)] : IsPartial(f, s, n)
<1> DEFINE T == {n \in Nat : n <= Len(s) =>
                   \E f \in [1..n -> Seq(S)] : IsPartial(f, s, n)}
<1>1. 0 \in T
  <2> DEFINE f == [i \in 1..0 |-> <<>>]
  <2>1. f \in [1..0 -> Seq(S)] /\ IsPartial(f, s, 0)
    BY DEF IsPartial
  <2> QED
    BY <2>1
<1>2. ASSUME NEW n \in Nat, n \in T
      PROVE  n + 1 \in T
  <2> SUFFICES ASSUME n + 1 <= Len(s)
               PROVE  \E f \in [1..(n + 1) -> Seq(S)] : IsPartial(f, s, n + 1)
    OBVIOUS
  <2>1. PICK f \in [1..n -> Seq(S)] : IsPartial(f, s, n)
    BY <1>2
  <2> DEFINE g == [i \in 1..(n + 1) |-> IF i = n + 1 THEN Step(f, s, n + 1)
                                                     ELSE f[i]]
  <2>2. Step(f, s, n + 1) \in Seq(S)
    <3>1. s[n + 1] \in Seq(S)
      OBVIOUS
    <3>2. CASE n = 0
      BY <3>1, <3>2 DEF Step
    <3>3. CASE n # 0
      <4>1. f[n] \in Seq(S) /\ (n + 1) - 1 = n /\ n + 1 # 1
        BY <3>3
      <4> QED
        BY <3>1, <4>1 DEF Step
    <3> QED
      BY <3>2, <3>3
  <2>3. g \in [1..(n + 1) -> Seq(S)]
    BY <2>2
  <2>4. \A i \in 1..(n + 1) : g[i] = Step(g, s, i)
    <3> TAKE i \in 1..(n + 1)
    <3>1. \A j \in 1..n : g[j] = f[j]
      OBVIOUS
    <3>2. i # 1 => i - 1 \in 1..n
      OBVIOUS
    <3>3. Step(g, s, i) = Step(f, s, i)
      <4> HIDE DEF g
      <4> QED
        BY <3>1, <3>2 DEF Step
    <3>4. CASE i = n + 1
      BY <3>3, <3>4
    <3>5. CASE i # n + 1
      <4>1. i \in 1..n /\ g[i] = f[i]
        BY <3>5
      <4>2. f[i] = Step(f, s, i)
        BY <2>1, <4>1 DEF IsPartial
      <4> QED
        BY <3>3, <4>1, <4>2
    <3> QED
      BY <3>4, <3>5
  <2>5. IsPartial(g, s, n + 1)
    <3> HIDE DEF g
    <3> QED
      BY <2>3, <2>4 DEF IsPartial
  <2> QED
    BY <2>3, <2>5
<1> HIDE DEF T
<1>3. Nat \subseteq T
  BY <1>1, <1>2, SetInduction
<1> QED
  BY <1>3 DEF T

LEMMA PartialIs ==
  ASSUME NEW S, NEW s \in Seq(Seq(S))
  PROVE  /\ IsPartial(Partial(s), s, Len(s))
         /\ \A i \in 1..Len(s) : Partial(s)[i] = Step(Partial(s), s, i)
<1>1. \E f : IsPartial(f, s, Len(s))
  <2>1. Len(s) \in 0..Len(s)
    OBVIOUS
  <2> QED
    BY <2>1, PartialExists
<1>2. IsPartial(Partial(s), s, Len(s))
  BY <1>1 DEF Partial
<1> QED
  BY <1>2 DEF IsPartial

\* The function is the same for two lists as far as they are the same.
LEMMA PartialPrefix ==
  ASSUME NEW S, NEW s \in Seq(Seq(S)), NEW t \in Seq(Seq(S)),
         NEW n \in Nat, n <= Len(s), n <= Len(t), \A i \in 1..n : s[i] = t[i]
  PROVE  \A i \in 1..n : Partial(s)[i] = Partial(t)[i] /\ Partial(s)[i] \in Seq(S)
<1> DEFINE T == {i \in Nat : i \in 1..n => /\ Partial(s)[i] = Partial(t)[i]
                                           /\ Partial(s)[i] \in Seq(S)}
<1>1. 0 \in T
  OBVIOUS
<1>2. ASSUME NEW i \in Nat, i \in T
      PROVE  i + 1 \in T
  <2> SUFFICES ASSUME i + 1 \in 1..n
               PROVE  /\ Partial(s)[i + 1] = Partial(t)[i + 1]
                      /\ Partial(s)[i + 1] \in Seq(S)
    OBVIOUS
  <2>1. /\ Partial(s)[i + 1] = Step(Partial(s), s, i + 1)
        /\ Partial(t)[i + 1] = Step(Partial(t), t, i + 1)
        /\ s[i + 1] = t[i + 1] /\ s[i + 1] \in Seq(S)
    BY PartialIs
  <2>2. CASE i = 0
    BY <2>1, <2>2 DEF Step
  <2>3. CASE i # 0
    <3>1. /\ Partial(s)[i] = Partial(t)[i] /\ Partial(s)[i] \in Seq(S)
          /\ (i + 1) - 1 = i /\ i + 1 # 1
      BY <1>2, <2>3
    <3>2. \A f, u : Step(f, u, i + 1) = f[i] \o u[i + 1]
      BY <3>1 DEF Step
    <3>3. /\ Partial(s)[i + 1] = Partial(s)[i] \o s[i + 1]
          /\ Partial(t)[i + 1] = Partial(t)[i] \o t[i + 1]
      BY <2>1, <3>2
    <3>4. Partial(s)[i] \o s[i + 1] \in Seq(S)
      BY <2>1, <3>1
    <3> QED
      BY <2>1, <3>1, <3>3, <3>4
  <2> QED
    BY <2>2, <2>3
<1> HIDE DEF T
<1>3. Nat \subseteq T
  BY <1>1, <1>2, SetInduction
<1> QED
  BY <1>3 DEF T

LEMMA FlattenType ==
  ASSUME NEW S, NEW s \in Seq(Seq(S))
  PROVE  FlattenSeq(s) \in Seq(S)
<1>1. CASE Len(s) = 0
  <2>1. s = <<>> /\ FlattenSeq(s) = s
    BY <1>1, FlattenIs
  <2>2. <<>> \in Seq(S)
    OBVIOUS
  <2> QED
    BY <2>1, <2>2
<1>2. CASE Len(s) # 0
  <2>1. Len(s) \in 1..Len(s) /\ Len(s) \in Nat
    BY <1>2
  <2>2. Partial(s)[Len(s)] \in Seq(S)
    BY <2>1, PartialPrefix
  <2> QED
    BY <1>2, <2>2, FlattenIs
<1> QED
  BY <1>1, <1>2

LEMMA FlattenEmpty == FlattenSeq(<<>>) = <<>>
  BY FlattenIs

LEMMA FlattenAppend ==
  ASSUME NEW S, NEW s \in Seq(Seq(S)), NEW x \in Seq(S)
  PROVE  FlattenSeq(Append(s, x)) = FlattenSeq(s) \o x
<1> DEFINE t == Append(s, x)
           n == Len(s)
<1>1. /\ t \in Seq(Seq(S)) /\ Len(t) = n + 1 /\ n \in Nat /\ t[n + 1] = x
      /\ \A i \in 1..n : s[i] = t[i]
  OBVIOUS
<1> HIDE DEF t
<1>2. FlattenSeq(t) = Partial(t)[n + 1]
  BY <1>1, FlattenIs
<1>3. Partial(t)[n + 1] = Step(Partial(t), t, n + 1)
  BY <1>1, PartialIs
<1>4. CASE n = 0
  <2>1. FlattenSeq(s) = <<>>
    BY <1>4, FlattenIs
  <2>2. Partial(t)[n + 1] = x
    BY <1>1, <1>3, <1>4 DEF Step
  <2> QED
    BY <1>2, <2>1, <2>2 DEF t
<1>5. CASE n # 0
  <2>1. FlattenSeq(s) = Partial(s)[n]
    BY <1>5, FlattenIs
  <2>2. Partial(s)[n] = Partial(t)[n]
    <3>1. n \in 1..n /\ n <= Len(s) /\ n <= Len(t)
      BY <1>1, <1>5
    <3> QED
      BY <1>1, <3>1, PartialPrefix
  <2>3. Partial(t)[n + 1] = Partial(t)[n] \o x
    BY <1>1, <1>3, <1>5 DEF Step
  <2> QED
    BY <1>2, <2>1, <2>2, <2>3 DEF t
<1> QED
  BY <1>4, <1>5

\* The bytes of two lists of chunks one after the other.
LEMMA FlattenConcat ==
  ASSUME NEW S, NEW s \in Seq(Seq(S)), NEW t \in Seq(Seq(S))
  PROVE  FlattenSeq(s \o t) = FlattenSeq(s) \o FlattenSeq(t)
<1> DEFINE T == {n \in Nat : \A u \in Seq(Seq(S)) :
                   Len(u) = n => FlattenSeq(s \o u) =
                                   FlattenSeq(s) \o FlattenSeq(u)}
<1>0. FlattenSeq(s) \in Seq(S)
  BY FlattenType
<1>1. 0 \in T
  <2> SUFFICES ASSUME NEW u \in Seq(Seq(S)), Len(u) = 0
               PROVE  FlattenSeq(s \o u) = FlattenSeq(s) \o FlattenSeq(u)
    OBVIOUS
  <2>1. u = <<>> /\ s \o u = s
    OBVIOUS
  <2> QED
    BY <1>0, <2>1, FlattenEmpty
<1>2. ASSUME NEW n \in Nat, n \in T
      PROVE  n + 1 \in T
  <2> SUFFICES ASSUME NEW u \in Seq(Seq(S)), Len(u) = n + 1
               PROVE  FlattenSeq(s \o u) = FlattenSeq(s) \o FlattenSeq(u)
    OBVIOUS
  <2> DEFINE v == SubSeq(u, 1, n)
             x == u[n + 1]
  <2>1. /\ v \in Seq(Seq(S)) /\ Len(v) = n /\ x \in Seq(S)
        /\ u = Append(v, x)
    OBVIOUS
  <2> HIDE DEF v, x
  <2>2. s \o u = Append(s \o v, x) /\ s \o v \in Seq(Seq(S))
    BY <2>1
  <2>3. FlattenSeq(s \o u) = FlattenSeq(s \o v) \o x
    BY <2>1, <2>2, FlattenAppend
  <2>4. FlattenSeq(s \o v) = FlattenSeq(s) \o FlattenSeq(v)
    BY <1>2, <2>1
  <2>5. FlattenSeq(u) = FlattenSeq(v) \o x
    BY <2>1, FlattenAppend
  <2>6. FlattenSeq(v) \in Seq(S)
    BY <2>1, FlattenType
  <2>7. (FlattenSeq(s) \o FlattenSeq(v)) \o x
          = FlattenSeq(s) \o (FlattenSeq(v) \o x)
    <3>1. x \in Seq(S)
      BY <2>1
    <3> DEFINE a == FlattenSeq(s)
               b == FlattenSeq(v)
    <3>2. a \in Seq(S) /\ b \in Seq(S)
      BY <1>0, <2>6
    <3> HIDE DEF a, b, T
    <3>3. (a \o b) \o x = a \o (b \o x)
      BY <3>1, <3>2, ConcatAssoc, SMTT(30)
    <3> QED
      BY <3>3 DEF a, b
  <2> QED
    BY <2>3, <2>4, <2>5, <2>7
<1> HIDE DEF T
<1>3. Nat \subseteq T
  BY <1>1, <1>2, SetInduction
<1>4. Len(t) \in T
  BY <1>3
<1> QED
  BY <1>4 DEF T

LEMMA FlattenOne ==
  ASSUME NEW S, NEW x \in Seq(S)
  PROVE  FlattenSeq(<<x>>) = x
<1>1. <<x>> = Append(<<>>, x) /\ <<>> \in Seq(Seq(S)) /\ <<>> \o x = x
  OBVIOUS
<1> QED
  BY <1>1, FlattenAppend, FlattenEmpty

\* A list of chunks is what stands before a chunk, the chunk, and the rest.
LEMMA FlattenAround ==
  ASSUME NEW S, NEW s \in Seq(Seq(S)), NEW k \in 1..Len(s)
  PROVE  /\ SubSeq(s, 1, k - 1) \in Seq(Seq(S))
         /\ SubSeq(s, k + 1, Len(s)) \in Seq(Seq(S))
         /\ s[k] \in Seq(S)
         /\ FlattenSeq(s) = FlattenSeq(SubSeq(s, 1, k - 1)) \o s[k]
                              \o FlattenSeq(SubSeq(s, k + 1, Len(s)))
         /\ FlattenSeq(SubSeq(s, 1, k)) =
              FlattenSeq(SubSeq(s, 1, k - 1)) \o s[k]
         /\ FlattenSeq(SubSeq(s, k, Len(s))) =
              s[k] \o FlattenSeq(SubSeq(s, k + 1, Len(s)))
         /\ \A x \in Seq(S) :
              FlattenSeq([s EXCEPT ![k] = x]) =
                FlattenSeq(SubSeq(s, 1, k - 1)) \o x
                  \o FlattenSeq(SubSeq(s, k + 1, Len(s)))
<1> DEFINE p == SubSeq(s, 1, k - 1)
           r == SubSeq(s, k + 1, Len(s))
<1>1. /\ p \in Seq(Seq(S)) /\ Len(p) = k - 1
      /\ \A i \in 1..(k - 1) : p[i] = s[i]
  OBVIOUS
<1>2. /\ r \in Seq(Seq(S)) /\ Len(r) = Len(s) - k
      /\ \A i \in 1..(Len(s) - k) : r[i] = s[k + i]
  OBVIOUS
<1>3. s[k] \in Seq(S) /\ Len(s) \in Nat
  OBVIOUS
<1>4. SubSeq(s, 1, k) = Append(p, s[k])
  BY <1>1, <1>3
<1>5. SubSeq(s, k, Len(s)) = <<s[k]>> \o r
  BY <1>2, <1>3
<1> HIDE DEF p, r
<1>6. ASSUME NEW x \in Seq(S)
      PROVE  [s EXCEPT ![k] = x] = Append(p, x) \o r
  <2> DEFINE t == [s EXCEPT ![k] = x]
             q == Append(p, x)
             u == q \o r
  <2>1. /\ t \in Seq(Seq(S)) /\ Len(t) = Len(s) /\ t[k] = x
        /\ \A i \in 1..Len(s) : i # k => t[i] = s[i]
    OBVIOUS
  <2>2. /\ q \in Seq(Seq(S)) /\ Len(q) = k /\ q[k] = x
        /\ \A i \in 1..(k - 1) : q[i] = s[i]
    BY <1>1
  <2> HIDE DEF q
  <2>3. /\ u \in Seq(Seq(S)) /\ Len(u) = Len(s)
        /\ \A i \in 1..k : u[i] = q[i]
        /\ \A i \in (k + 1)..Len(s) : u[i] = r[i - k]
    <3>0. Len(q) = k /\ Len(r) = Len(s) - k /\ k \in Nat
      BY <1>2, <2>2
    <3>1. Len(q) + Len(r) = Len(s) /\ Len(q) = k
      BY <1>3, <3>0
    <3>2. /\ u \in Seq(Seq(S)) /\ Len(u) = Len(q) + Len(r)
          /\ \A i \in 1..Len(q) : u[i] = q[i]
          /\ \A i \in (Len(q) + 1)..(Len(q) + Len(r)) : u[i] = r[i - Len(q)]
      BY <1>2, <2>2, ConcatIs
    <3> QED
      BY <3>1, <3>2
  <2> HIDE DEF t, u
  <2>4. \A i \in (k + 1)..Len(s) : u[i] = s[i]
    <3> TAKE i \in (k + 1)..Len(s)
    <3>1. i - k \in 1..(Len(s) - k) /\ k + (i - k) = i
      BY <1>3
    <3> QED
      BY <1>2, <2>3, <3>1
  <2>5. \A i \in 1..Len(s) : t[i] = u[i]
    <3> TAKE i \in 1..Len(s)
    <3>1. CASE i \in 1..(k - 1)
      BY <2>1, <2>2, <2>3, <3>1
    <3>2. CASE i = k
      BY <2>1, <2>2, <2>3, <3>2
    <3>3. CASE i \in (k + 1)..Len(s)
      <4>1. u[i] = s[i]
        BY <2>4, <3>3
      <4>2. t[i] = s[i]
        BY <2>1, <3>3
      <4> QED
        BY <4>1, <4>2
    <3> QED
      BY <1>3, <3>1, <3>2, <3>3
  <2> QED
    BY <2>1, <2>3, <2>5, SeqEqual DEF t, u, q
<1>7. s = Append(p, s[k]) \o r
  <2>1. s = [s EXCEPT ![k] = s[k]]
    OBVIOUS
  <2> QED
    BY <1>3, <1>6, <2>1
<1>8. FlattenSeq(p) \in Seq(S) /\ FlattenSeq(r) \in Seq(S)
  BY <1>1, <1>2, FlattenType
<1>9. ASSUME NEW x \in Seq(S)
      PROVE  /\ FlattenSeq(Append(p, x)) = FlattenSeq(p) \o x
             /\ FlattenSeq(Append(p, x) \o r) =
                  FlattenSeq(p) \o x \o FlattenSeq(r)
             /\ FlattenSeq(<<x>> \o r) = x \o FlattenSeq(r)
  <2>1. Append(p, x) \in Seq(Seq(S)) /\ <<x>> \in Seq(Seq(S))
    BY <1>1
  <2>2. FlattenSeq(Append(p, x)) = FlattenSeq(p) \o x
    BY <1>1, FlattenAppend
  <2>3. FlattenSeq(Append(p, x) \o r) = FlattenSeq(Append(p, x)) \o FlattenSeq(r)
    BY <1>1, <1>2, <2>1, FlattenConcat
  <2>4. FlattenSeq(<<x>> \o r) = FlattenSeq(<<x>>) \o FlattenSeq(r)
    BY <1>1, <1>2, <2>1, FlattenConcat
  <2> QED
    BY <2>2, <2>3, <2>4, FlattenOne
<1> QED
  BY <1>1, <1>2, <1>3, <1>4, <1>5, <1>6, <1>7, <1>9 DEF p, r

-----------------------------------------------------------------------------
(* The bytes of a buffer.                                                   *)

\* The chunks together are the text.  That the text is found again in the
\* chunks (SameBytes) follows, but does not carry over a step by itself: an
\* insertion looks for its place by the lengths of the chunks before it.
BInv == /\ buffer_ \in Seq(Seq(Byte))
        /\ text = FlattenSeq(buffer_)

\* The first of the chunks that a loop looks for.
LEMMA FirstIs ==
  ASSUME NEW T \in SUBSET Nat, T # {}
  PROVE  First(T) \in T /\ \A j \in T : First(T) <= j
<1>1. \E m \in T : \A j \in T : m <= j
  BY LeastIn
<1> QED
  BY <1>1 DEF First

\* A chunk stands between its begin and its end, and begins where the one
\* before it ends.
LEMMA Places ==
  ASSUME BInv, NEW k \in DOMAIN buffer_
  PROVE  /\ Begin(k) \in Nat /\ End(k) \in Nat /\ size \in Nat
         /\ Begin(k) <= End(k) /\ End(k) <= size
         /\ End(k) = Begin(k) + Len(buffer_[k])
         /\ k = 1 => Begin(k) = 0
         /\ k # 1 => k - 1 \in DOMAIN buffer_ /\ Begin(k) = End(k - 1)
         /\ k = Len(buffer_) => End(k) = size
<1> DEFINE B == buffer_
<1>1. /\ B \in Seq(Seq(Byte)) /\ Len(B) \in Nat /\ DOMAIN B = 1..Len(B)
      /\ k \in 1..Len(B)
  BY DEF BInv
<1>2. ASSUME NEW j \in 1..Len(B)
      PROVE  /\ FlattenSeq(SubSeq(B, 1, j - 1)) \in Seq(Byte)
             /\ FlattenSeq(SubSeq(B, j + 1, Len(B))) \in Seq(Byte)
             /\ B[j] \in Seq(Byte)
             /\ FlattenSeq(SubSeq(B, 1, j)) \in Seq(Byte)
             /\ FlattenSeq(B) = FlattenSeq(SubSeq(B, 1, j - 1)) \o B[j]
                                  \o FlattenSeq(SubSeq(B, j + 1, Len(B)))
             /\ FlattenSeq(SubSeq(B, 1, j)) =
                  FlattenSeq(SubSeq(B, 1, j - 1)) \o B[j]
  <2>1. /\ SubSeq(B, 1, j - 1) \in Seq(Seq(Byte))
        /\ SubSeq(B, j + 1, Len(B)) \in Seq(Seq(Byte))
        /\ B[j] \in Seq(Byte)
        /\ FlattenSeq(B) = FlattenSeq(SubSeq(B, 1, j - 1)) \o B[j]
                             \o FlattenSeq(SubSeq(B, j + 1, Len(B)))
        /\ FlattenSeq(SubSeq(B, 1, j)) =
             FlattenSeq(SubSeq(B, 1, j - 1)) \o B[j]
    BY <1>1, FlattenAround
  <2>2. /\ FlattenSeq(SubSeq(B, 1, j - 1)) \in Seq(Byte)
        /\ FlattenSeq(SubSeq(B, j + 1, Len(B))) \in Seq(Byte)
    BY <2>1, FlattenType
  <2>3. FlattenSeq(SubSeq(B, 1, j - 1)) \o B[j] \in Seq(Byte)
    BY <2>1, <2>2, ConcatIs
  <2> QED
    BY <2>1, <2>2, <2>3
<1>3. ASSUME NEW j \in 1..Len(B)
      PROVE  /\ Begin(j) \in Nat /\ End(j) \in Nat /\ Begin(j) <= End(j)
             /\ End(j) = Len(FlattenSeq(SubSeq(B, 1, j)))
             /\ size = End(j) + Len(FlattenSeq(SubSeq(B, j + 1, Len(B))))
             /\ Len(FlattenSeq(SubSeq(B, j + 1, Len(B)))) \in Nat
  <2> DEFINE p == FlattenSeq(SubSeq(B, 1, j - 1))
             c == B[j]
             r == FlattenSeq(SubSeq(B, j + 1, Len(B)))
             q == p \o c
  <2>1. /\ p \in Seq(Byte) /\ c \in Seq(Byte) /\ r \in Seq(Byte)
        /\ FlattenSeq(B) = q \o r /\ FlattenSeq(SubSeq(B, 1, j)) = q
    BY <1>2
  <2>2. Begin(j) = Len(p) /\ End(j) = Len(p) + Len(c)
    BY DEF Begin, End
  <2> HIDE DEF p, c, r, q
  <2>3. /\ q \in Seq(Byte) /\ Len(q) = Len(p) + Len(c)
    BY <2>1, ConcatIs DEF q
  <2>4. Len(q \o r) = Len(q) + Len(r)
    BY <2>1, <2>3, ConcatIs
  <2>5. Len(p) \in Nat /\ Len(c) \in Nat /\ Len(r) \in Nat
    BY <2>1
  <2>6. size = Len(q) + Len(r)
    BY <2>1, <2>4 DEF size
  <2> QED
    BY <2>1, <2>2, <2>3, <2>5, <2>6 DEF r
<1>4. size \in Nat /\ End(k) <= size
  BY <1>1, <1>3
<1>5. k = 1 => Begin(k) = 0
  <2> SUFFICES ASSUME k = 1 PROVE Begin(k) = 0
    OBVIOUS
  <2> DEFINE p == SubSeq(B, 1, k - 1)
  <2>1. p = <<>>
    BY <1>1
  <2>2. Begin(k) = Len(FlattenSeq(p))
    BY DEF Begin
  <2> HIDE DEF p
  <2>3. FlattenSeq(p) = <<>>
    BY <2>1, FlattenEmpty
  <2> QED
    BY <2>2, <2>3
<1>6. k # 1 => k - 1 \in 1..Len(B) /\ Begin(k) = End(k - 1)
  <2>1. k # 1 => k - 1 \in 1..Len(B)
    BY <1>1
  <2>2. Begin(k) = Len(FlattenSeq(SubSeq(B, 1, k - 1)))
    BY DEF Begin
  <2> QED
    BY <1>3, <2>1, <2>2
<1>7. k = Len(B) => End(k) = size
  <2> SUFFICES ASSUME k = Len(B) PROVE End(k) = size
    OBVIOUS
  <2> DEFINE r == SubSeq(B, k + 1, Len(B))
  <2>1. r = <<>>
    BY <1>1
  <2>2. size = End(k) + Len(FlattenSeq(r)) /\ End(k) \in Nat
    BY <1>1, <1>3
  <2> HIDE DEF r
  <2>3. FlattenSeq(r) = <<>>
    BY <2>1, FlattenEmpty
  <2>4. Len(FlattenSeq(r)) = 0
    BY <2>3
  <2> QED
    BY <2>2, <2>4
<1>8. End(k) = Begin(k) + Len(buffer_[k])
  BY DEF End
<1> QED
  BY <1>1, <1>3, <1>4, <1>5, <1>6, <1>7, <1>8

\* What stands before a chunk, the chunk, and what stands behind it.
Front_(k) == FlattenSeq(SubSeq(buffer_, 1, k - 1))
Rest(k) == FlattenSeq(SubSeq(buffer_, k + 1, Len(buffer_)))

LEMMA Around ==
  ASSUME BInv, NEW k \in DOMAIN buffer_
  PROVE  /\ Front_(k) \in Seq(Byte) /\ Rest(k) \in Seq(Byte)
         /\ buffer_[k] \in Seq(Byte)
         /\ Len(Front_(k)) = Begin(k)
         /\ text = Front_(k) \o buffer_[k] \o Rest(k)
         /\ \A c \in Seq(Byte) :
              /\ ReplaceAt(buffer_, k, c) \in Seq(Seq(Byte))
              /\ FlattenSeq(ReplaceAt(buffer_, k, c)) =
                   Front_(k) \o c \o Rest(k)
              /\ InsertAt(buffer_, k, c) \in Seq(Seq(Byte))
              /\ FlattenSeq(InsertAt(buffer_, k, c)) =
                   Front_(k) \o c \o (buffer_[k] \o Rest(k))
<1> DEFINE B == buffer_
           p == SubSeq(B, 1, k - 1)
           r == SubSeq(B, k + 1, Len(B))
           q == SubSeq(B, k, Len(B))
<1>1. B \in Seq(Seq(Byte)) /\ Len(B) \in Nat /\ k \in 1..Len(B)
  BY DEF BInv
<1>2. /\ p \in Seq(Seq(Byte)) /\ r \in Seq(Seq(Byte)) /\ B[k] \in Seq(Byte)
      /\ FlattenSeq(B) = FlattenSeq(p) \o B[k] \o FlattenSeq(r)
      /\ FlattenSeq(q) = B[k] \o FlattenSeq(r)
      /\ \A x \in Seq(Byte) :
           FlattenSeq([B EXCEPT ![k] = x]) =
             FlattenSeq(p) \o x \o FlattenSeq(r)
  BY <1>1, FlattenAround
<1>3. FlattenSeq(p) \in Seq(Byte) /\ FlattenSeq(r) \in Seq(Byte)
  BY <1>2, FlattenType
<1>4. q \in Seq(Seq(Byte))
  BY <1>1
<1>5. ASSUME NEW c \in Seq(Byte)
      PROVE  /\ ReplaceAt(B, k, c) \in Seq(Seq(Byte))
             /\ FlattenSeq(ReplaceAt(B, k, c)) =
                  FlattenSeq(p) \o c \o FlattenSeq(r)
             /\ InsertAt(B, k, c) \in Seq(Seq(Byte))
             /\ FlattenSeq(InsertAt(B, k, c)) =
                  FlattenSeq(p) \o c \o (B[k] \o FlattenSeq(r))
  <2>1. ReplaceAt(B, k, c) = [B EXCEPT ![k] = c]
    BY DEF ReplaceAt
  <2>2. [B EXCEPT ![k] = c] \in Seq(Seq(Byte))
    BY <1>1
  <2>3. InsertAt(B, k, c) = (p \o <<c>>) \o q
    BY DEF InsertAt
  <2>4. <<c>> \in Seq(Seq(Byte)) /\ FlattenSeq(<<c>>) = c
    BY FlattenOne
  <2> HIDE DEF p, q, r
  <2> DEFINE pc == p \o <<c>>
  <2>5. pc \in Seq(Seq(Byte))
    <3>1. p \in Seq(Seq(Byte))
      BY <1>2
    <3> QED
      BY <2>4, <3>1, ConcatIs
  <2>6. FlattenSeq(pc) = FlattenSeq(p) \o c
    <3>1. p \in Seq(Seq(Byte))
      BY <1>2
    <3>2. FlattenSeq(pc) = FlattenSeq(p) \o FlattenSeq(<<c>>)
      BY <2>4, <3>1, FlattenConcat
    <3> QED
      BY <2>4, <3>2
  <2> HIDE DEF pc
  <2>7. /\ pc \o q \in Seq(Seq(Byte))
        /\ FlattenSeq(pc \o q) = FlattenSeq(pc) \o FlattenSeq(q)
    BY <1>4, <2>5, FlattenConcat, ConcatIs
  <2> QED
    BY <1>2, <2>1, <2>2, <2>3, <2>6, <2>7 DEF pc
<1>6. Front_(k) = FlattenSeq(p) /\ Rest(k) = FlattenSeq(r) /\ B[k] = buffer_[k]
  BY DEF Front_, Rest
<1>7. text = FlattenSeq(B)
  BY DEF BInv
<1>8. Begin(k) = Len(FlattenSeq(p))
  BY DEF Begin
<1> HIDE DEF p, r, q
<1> QED
  BY <1>2, <1>3, <1>5, <1>6, <1>7, <1>8

-----------------------------------------------------------------------------
(* Changes inside of one array and inside of one of its parts.              *)

LEMMA SplicedIs ==
  ASSUME NEW s \in Seq(Byte), NEW d \in Seq(Byte), NEW i \in 0..Len(s)
  PROVE  /\ Spliced(s, i, d) \in Seq(Byte)
         /\ Len(Spliced(s, i, d)) = Len(s) + Len(d)
         /\ \A j \in 1..i : Spliced(s, i, d)[j] = s[j]
         /\ \A j \in (i + 1)..(i + Len(d)) : Spliced(s, i, d)[j] = d[j - i]
         /\ \A j \in (i + Len(d) + 1)..(Len(s) + Len(d)) :
              Spliced(s, i, d)[j] = s[j - Len(d)]
<1> DEFINE a == SubSeq(s, 1, i)
           b == SubSeq(s, i + 1, Len(s))
           ad == a \o d
<1>1. /\ a \in Seq(Byte) /\ Len(a) = i /\ \A j \in 1..i : a[j] = s[j]
  OBVIOUS
<1>2. /\ b \in Seq(Byte) /\ Len(b) = Len(s) - i
      /\ \A j \in 1..(Len(s) - i) : b[j] = s[i + j]
  OBVIOUS
<1>3. Spliced(s, i, d) = ad \o b
  BY DEF Spliced
<1>4. Len(s) \in Nat /\ Len(d) \in Nat /\ i \in Nat /\ i <= Len(s)
  OBVIOUS
<1> HIDE DEF a, b
<1>5. /\ ad \in Seq(Byte) /\ Len(ad) = i + Len(d)
      /\ \A j \in 1..i : ad[j] = a[j]
      /\ \A j \in (i + 1)..(i + Len(d)) : ad[j] = d[j - i]
  BY <1>1, ConcatIs
<1> HIDE DEF ad
<1>6. /\ ad \o b \in Seq(Byte) /\ Len(ad \o b) = Len(ad) + Len(b)
      /\ \A j \in 1..Len(ad) : (ad \o b)[j] = ad[j]
      /\ \A j \in (Len(ad) + 1)..(Len(ad) + Len(b)) :
           (ad \o b)[j] = b[j - Len(ad)]
  BY <1>2, <1>5, ConcatIs
<1>7. Len(ad) = i + Len(d) /\ Len(b) = Len(s) - i
  BY <1>2, <1>5
<1>8. Len(ad) + Len(b) = Len(s) + Len(d)
  BY <1>4, <1>7
<1>9. \A j \in 1..i : (ad \o b)[j] = s[j]
  <2> TAKE j \in 1..i
  <2>1. j \in 1..Len(ad)
    BY <1>4, <1>7
  <2> QED
    BY <1>1, <1>5, <1>6, <2>1
<1>10. \A j \in (i + 1)..(i + Len(d)) : (ad \o b)[j] = d[j - i]
  <2> TAKE j \in (i + 1)..(i + Len(d))
  <2>1. j \in 1..Len(ad)
    BY <1>4, <1>7
  <2> QED
    BY <1>5, <1>6, <2>1
<1>11. \A j \in (i + Len(d) + 1)..(Len(s) + Len(d)) :
         (ad \o b)[j] = s[j - Len(d)]
  <2> TAKE j \in (i + Len(d) + 1)..(Len(s) + Len(d))
  <2>1. j \in (Len(ad) + 1)..(Len(ad) + Len(b))
    BY <1>4, <1>7, <1>8
  <2>2. /\ j - Len(ad) \in 1..(Len(s) - i)
        /\ i + (j - Len(ad)) = j - Len(d)
    BY <1>4, <1>7
  <2> QED
    BY <1>2, <1>6, <2>1, <2>2
<1> QED
  BY <1>3, <1>6, <1>8, <1>9, <1>10, <1>11

LEMMA ThreeParts ==
  ASSUME NEW p \in Seq(Byte), NEW y \in Seq(Byte), NEW r \in Seq(Byte)
  PROVE  /\ p \o y \o r \in Seq(Byte)
         /\ Len(p \o y \o r) = Len(p) + Len(y) + Len(r)
         /\ \A j \in 1..Len(p) : (p \o y \o r)[j] = p[j]
         /\ \A j \in (Len(p) + 1)..(Len(p) + Len(y)) :
              (p \o y \o r)[j] = y[j - Len(p)]
         /\ \A j \in (Len(p) + Len(y) + 1)..(Len(p) + Len(y) + Len(r)) :
              (p \o y \o r)[j] = r[j - Len(p) - Len(y)]
  OBVIOUS

\* An insertion into a part is an insertion into the whole, and a word written
\* over a part, inside of it, is written over the whole.
SplicedIn(p, c, r, d, i) ==
    Spliced(p \o c \o r, Len(p) + i, d) = p \o Spliced(c, i, d) \o r
OverwrittenIn(p, c, r, d, i) ==
    Overwritten(p \o c \o r, Len(p) + i, d) = p \o Overwritten(c, i, d) \o r

LEMMA SplicedInside ==
  ASSUME NEW p \in Seq(Byte), NEW c \in Seq(Byte), NEW r \in Seq(Byte),
         NEW d \in Seq(Byte), NEW i \in 0..Len(c)
  PROVE  SplicedIn(p, c, r, d, i)
<1> DEFINE w == p \o c \o r
           m == Len(p) + i
           x == Spliced(c, i, d)
           v == p \o x \o r
<1>1. /\ Len(p) \in Nat /\ Len(c) \in Nat /\ Len(r) \in Nat /\ Len(d) \in Nat
      /\ i \in Nat /\ i <= Len(c)
  OBVIOUS
<1>2. /\ x \in Seq(Byte) /\ Len(x) = Len(c) + Len(d)
      /\ \A j \in 1..i : x[j] = c[j]
      /\ \A j \in (i + 1)..(i + Len(d)) : x[j] = d[j - i]
      /\ \A j \in (i + Len(d) + 1)..(Len(c) + Len(d)) : x[j] = c[j - Len(d)]
  BY SplicedIs
<1>4. /\ w \in Seq(Byte) /\ Len(w) = Len(p) + Len(c) + Len(r)
      /\ \A j \in 1..Len(p) : w[j] = p[j]
      /\ \A j \in (Len(p) + 1)..(Len(p) + Len(c)) : w[j] = c[j - Len(p)]
      /\ \A j \in (Len(p) + Len(c) + 1)..(Len(p) + Len(c) + Len(r)) :
           w[j] = r[j - Len(p) - Len(c)]
  BY ThreeParts
<1> HIDE DEF x
<1>5. /\ v \in Seq(Byte) /\ Len(v) = Len(p) + Len(x) + Len(r)
      /\ \A j \in 1..Len(p) : v[j] = p[j]
      /\ \A j \in (Len(p) + 1)..(Len(p) + Len(x)) : v[j] = x[j - Len(p)]
      /\ \A j \in (Len(p) + Len(x) + 1)..(Len(p) + Len(x) + Len(r)) :
           v[j] = r[j - Len(p) - Len(x)]
  <2>1. x \in Seq(Byte)
    BY <1>2
  <2> QED
    BY <2>1, ThreeParts
<1> HIDE DEF w, v
<1>6. m \in 0..Len(w)
  BY <1>1, <1>4
<1> DEFINE n == Len(w) + Len(d)
           z == Spliced(w, m, d)
<1>7. /\ z \in Seq(Byte) /\ Len(z) = n
      /\ \A j \in 1..m : z[j] = w[j]
      /\ \A j \in (m + 1)..(m + Len(d)) : z[j] = d[j - m]
      /\ \A j \in (m + Len(d) + 1)..n : z[j] = w[j - Len(d)]
  <2>1. w \in Seq(Byte)
    BY <1>4
  <2> HIDE DEF m
  <2> QED
    BY <1>6, <2>1, SplicedIs
<1> HIDE DEF z
<1>8. n = Len(p) + Len(c) + Len(d) + Len(r) /\ Len(v) = n /\ n \in Nat
  <2>1. Len(x) = Len(c) + Len(d)
    BY <1>2
  <2>2. Len(w) = Len(p) + Len(c) + Len(r)
    BY <1>4
  <2>3. Len(v) = Len(p) + Len(x) + Len(r)
    BY <1>5
  <2> QED
    BY <1>1, <2>1, <2>2, <2>3
<1>9. Len(x) = Len(c) + Len(d)
  BY <1>2
<1>10. ASSUME NEW j \in 1..n PROVE z[j] = v[j]
  <2>0. j \in Nat /\ 1 <= j /\ j <= Len(p) + Len(c) + Len(d) + Len(r)
    BY <1>8
  <2>1. CASE j <= Len(p)
    <3>1. j \in 1..Len(p) /\ j \in 1..m
      BY <1>1, <2>0, <2>1
    <3> QED
      BY <1>4, <1>5, <1>7, <3>1
  <2>2. CASE Len(p) < j /\ j <= m
    <3>1. /\ j \in 1..m /\ j \in (Len(p) + 1)..(Len(p) + Len(c))
          /\ j \in (Len(p) + 1)..(Len(p) + Len(x))
          /\ j - Len(p) \in 1..i
      BY <1>1, <1>9, <2>0, <2>2
    <3>2. z[j] = c[j - Len(p)]
      BY <1>4, <1>7, <3>1
    <3>3. v[j] = x[j - Len(p)]
      BY <1>5, <3>1
    <3> QED
      BY <1>2, <3>1, <3>2, <3>3
  <2>3. CASE m < j /\ j <= m + Len(d)
    <3>1. /\ j \in (m + 1)..(m + Len(d))
          /\ j \in (Len(p) + 1)..(Len(p) + Len(x))
          /\ j - Len(p) \in (i + 1)..(i + Len(d))
          /\ (j - Len(p)) - i = j - m
      BY <1>1, <1>9, <2>0, <2>3
    <3>2. z[j] = d[j - m]
      BY <1>7, <3>1
    <3>3. v[j] = x[j - Len(p)]
      BY <1>5, <3>1
    <3>4. x[j - Len(p)] = d[(j - Len(p)) - i]
      BY <1>2, <3>1
    <3> QED
      BY <3>1, <3>2, <3>3, <3>4
  <2>4. CASE m + Len(d) < j /\ j <= Len(p) + Len(c) + Len(d)
    <3>1. /\ j \in (m + Len(d) + 1)..n
          /\ j - Len(d) \in (Len(p) + 1)..(Len(p) + Len(c))
          /\ j \in (Len(p) + 1)..(Len(p) + Len(x))
          /\ j - Len(p) \in (i + Len(d) + 1)..(Len(c) + Len(d))
          /\ (j - Len(p)) - Len(d) = (j - Len(d)) - Len(p)
      BY <1>1, <1>8, <1>9, <2>0, <2>4
    <3>2. z[j] = w[j - Len(d)]
      BY <1>7, <3>1
    <3>3. w[j - Len(d)] = c[(j - Len(d)) - Len(p)]
      BY <1>4, <3>1
    <3>4. v[j] = x[j - Len(p)]
      BY <1>5, <3>1
    <3>5. x[j - Len(p)] = c[(j - Len(p)) - Len(d)]
      BY <1>2, <3>1
    <3> QED
      BY <3>1, <3>2, <3>3, <3>4, <3>5
  <2>5. CASE Len(p) + Len(c) + Len(d) < j
    <3>1. /\ j \in (m + Len(d) + 1)..n
          /\ j - Len(d) \in (Len(p) + Len(c) + 1)..(Len(p) + Len(c) + Len(r))
          /\ j \in (Len(p) + Len(x) + 1)..(Len(p) + Len(x) + Len(r))
          /\ (j - Len(d)) - Len(p) - Len(c) = j - Len(p) - Len(x)
      BY <1>1, <1>8, <1>9, <2>0, <2>5
    <3>2. z[j] = w[j - Len(d)]
      BY <1>7, <3>1
    <3>3. w[j - Len(d)] = r[(j - Len(d)) - Len(p) - Len(c)]
      BY <1>4, <3>1
    <3>4. v[j] = r[j - Len(p) - Len(x)]
      BY <1>5, <3>1
    <3> QED
      BY <3>1, <3>2, <3>3, <3>4
  <2> QED
    BY <1>1, <2>0, <2>1, <2>2, <2>3, <2>4, <2>5
<1>11. z = v
  BY <1>5, <1>7, <1>8, <1>10, SeqEqual
<1> QED
  BY <1>11 DEF z, v, w, x, SplicedIn

LEMMA OverwrittenIs ==
  ASSUME NEW s \in Seq(Byte), NEW d \in Seq(Byte), NEW i \in Nat
  PROVE  /\ Overwritten(s, i, d) \in Seq(Byte)
         /\ Len(Overwritten(s, i, d)) = Len(s)
         /\ \A j \in 1..Len(s) :
              Overwritten(s, i, d)[j] =
                IF j - i \in DOMAIN d THEN d[j - i] ELSE s[j]
<1> DEFINE f == [j \in 1..Len(s) |-> IF j - i \in DOMAIN d THEN d[j - i] ELSE s[j]]
<1>1. Overwritten(s, i, d) = f /\ Len(s) \in Nat
  BY DEF Overwritten
<1>2. \A j \in 1..Len(s) :
        (IF j - i \in DOMAIN d THEN d[j - i] ELSE s[j]) \in Byte
  OBVIOUS
<1>3. f \in Seq(Byte) /\ Len(f) = Len(s)
  BY <1>1, <1>2
<1> QED
  BY <1>1, <1>3

LEMMA OverwrittenInside ==
  ASSUME NEW p \in Seq(Byte), NEW c \in Seq(Byte), NEW r \in Seq(Byte),
         NEW d \in Seq(Byte), NEW i \in Nat, i + Len(d) <= Len(c)
  PROVE  OverwrittenIn(p, c, r, d, i)
<1> DEFINE w == p \o c \o r
           m == Len(p) + i
           x == Overwritten(c, i, d)
           v == p \o x \o r
           z == Overwritten(w, m, d)
<1>1. /\ Len(p) \in Nat /\ Len(c) \in Nat /\ Len(r) \in Nat /\ Len(d) \in Nat
      /\ i \in Nat /\ i + Len(d) <= Len(c) /\ m \in Nat
      /\ DOMAIN d = 1..Len(d)
  OBVIOUS
<1>2. /\ x \in Seq(Byte) /\ Len(x) = Len(c)
      /\ \A j \in 1..Len(c) :
           x[j] = IF j - i \in DOMAIN d THEN d[j - i] ELSE c[j]
  BY OverwrittenIs
<1>4. /\ w \in Seq(Byte) /\ Len(w) = Len(p) + Len(c) + Len(r)
      /\ \A j \in 1..Len(p) : w[j] = p[j]
      /\ \A j \in (Len(p) + 1)..(Len(p) + Len(c)) : w[j] = c[j - Len(p)]
      /\ \A j \in (Len(p) + Len(c) + 1)..(Len(p) + Len(c) + Len(r)) :
           w[j] = r[j - Len(p) - Len(c)]
  BY ThreeParts
<1> HIDE DEF x
<1>5. /\ v \in Seq(Byte) /\ Len(v) = Len(p) + Len(c) + Len(r)
      /\ \A j \in 1..Len(p) : v[j] = p[j]
      /\ \A j \in (Len(p) + 1)..(Len(p) + Len(c)) : v[j] = x[j - Len(p)]
      /\ \A j \in (Len(p) + Len(c) + 1)..(Len(p) + Len(c) + Len(r)) :
           v[j] = r[j - Len(p) - Len(c)]
  <2>0. x \in Seq(Byte)
    BY <1>2
  <2>1. Len(x) = Len(c)
    BY <1>2
  <2>2. /\ v \in Seq(Byte) /\ Len(v) = Len(p) + Len(x) + Len(r)
        /\ \A j \in 1..Len(p) : v[j] = p[j]
        /\ \A j \in (Len(p) + 1)..(Len(p) + Len(x)) : v[j] = x[j - Len(p)]
        /\ \A j \in (Len(p) + Len(x) + 1)..(Len(p) + Len(x) + Len(r)) :
             v[j] = r[j - Len(p) - Len(x)]
    BY <2>0, ThreeParts
  <2> HIDE DEF v
  <2> QED
    BY <2>1, <2>2
<1> HIDE DEF w, v
<1>6. /\ z \in Seq(Byte) /\ Len(z) = Len(w)
      /\ \A j \in 1..Len(w) :
           z[j] = IF j - m \in DOMAIN d THEN d[j - m] ELSE w[j]
  BY <1>1, <1>4, OverwrittenIs
<1> HIDE DEF z
<1>7. Len(w) = Len(p) + Len(c) + Len(r)
  BY <1>4
<1>8. ASSUME NEW j \in 1..Len(w) PROVE z[j] = v[j]
  <2>0. j \in Nat /\ 1 <= j /\ j <= Len(p) + Len(c) + Len(r)
    BY <1>1, <1>7
  <2>1. z[j] = IF j - m \in 1..Len(d) THEN d[j - m] ELSE w[j]
    BY <1>1, <1>6
  <2>2. CASE j <= Len(p)
    <3>1. j \in 1..Len(p) /\ j - m \notin 1..Len(d)
      BY <1>1, <2>0, <2>2
    <3> QED
      BY <1>4, <1>5, <2>1, <3>1
  <2>3. CASE Len(p) < j /\ j <= Len(p) + Len(c)
    <3>1. /\ j \in (Len(p) + 1)..(Len(p) + Len(c))
          /\ j - Len(p) \in 1..Len(c)
          /\ (j - Len(p)) - i = j - m
      BY <1>1, <2>0, <2>3
    <3>2. v[j] = x[j - Len(p)] /\ w[j] = c[j - Len(p)]
      BY <1>4, <1>5, <3>1
    <3>3. x[j - Len(p)] =
            IF (j - Len(p)) - i \in 1..Len(d) THEN d[(j - Len(p)) - i]
                                              ELSE c[j - Len(p)]
      BY <1>1, <1>2, <3>1
    <3> QED
      BY <2>1, <3>1, <3>2, <3>3
  <2>4. CASE Len(p) + Len(c) < j
    <3>1. /\ j \in (Len(p) + Len(c) + 1)..(Len(p) + Len(c) + Len(r))
          /\ j - m \notin 1..Len(d)
      BY <1>1, <2>0, <2>4
    <3> QED
      BY <1>4, <1>5, <2>1, <3>1
  <2> QED
    BY <1>1, <2>0, <2>2, <2>3, <2>4
<1>9. z = v
  BY <1>4, <1>5, <1>6, <1>8, SeqEqual
<1> QED
  BY <1>9 DEF z, v, w, x, OverwrittenIn

-----------------------------------------------------------------------------
(* The places that the loops find.                                          *)

\* operator[] finds the chunk of every index of the buffer, and only theirs.
LEMMA HoldsIs ==
  ASSUME BInv, NEW index \in Nat, Holds(index) # {}
  PROVE  /\ First(Holds(index)) \in DOMAIN buffer_
         /\ Begin(First(Holds(index))) <= index
         /\ index < End(First(Holds(index)))
<1> DEFINE k == First(Holds(index))
<1>1. DOMAIN buffer_ \subseteq Nat
  BY DEF BInv
<1>2. k \in Holds(index) /\ \A j \in Holds(index) : k <= j
  <2>1. Holds(index) \in SUBSET Nat
    BY <1>1 DEF Holds
  <2> QED
    BY <2>1, FirstIs
<1> HIDE DEF k
<1>3. k \in DOMAIN buffer_ /\ End(k) > index
  BY <1>2 DEF Holds
<1>4. Begin(k) \in Nat /\ End(k) \in Nat
  BY <1>3, Places
<1>5. Begin(k) <= index
  <2>1. CASE k = 1
    BY <1>3, <2>1, Places
  <2>2. CASE k # 1
    <3>1. k - 1 \in DOMAIN buffer_ /\ Begin(k) = End(k - 1)
      BY <1>3, <2>2, Places
    <3>2. ~(End(k - 1) > index)
      <4>1. ~(k <= k - 1)
        BY <1>1, <1>3
      <4> QED
        BY <1>2, <3>1, <4>1 DEF Holds
    <3> QED
      BY <1>4, <3>1, <3>2
  <2> QED
    BY <2>1, <2>2
<1> QED
  BY <1>3, <1>4, <1>5 DEF k

LEMMA HoldsAll ==
  ASSUME BInv, NEW index \in Nat, index < size
  PROVE  Holds(index) # {}
<1> DEFINE n == Len(buffer_)
<1>1. n \in Nat /\ DOMAIN buffer_ = 1..n
  BY DEF BInv
<1>2. n # 0
  <2> SUFFICES ASSUME n = 0 PROVE FALSE
    OBVIOUS
  <2>1. buffer_ = <<>>
    BY DEF BInv
  <2>2. size = 0
    BY <2>1, FlattenEmpty DEF size
  <2> QED
    BY <2>2
<1>3. n \in DOMAIN buffer_ /\ End(n) = size
  BY <1>1, <1>2, Places
<1> QED
  BY <1>3 DEF Holds

\* The chunk where insert() stops: there is one for every index inside of the
\* buffer, none for one beyond it, and it begins at the index or holds it.
LEMMA StopsIs ==
  ASSUME BInv, NEW index \in Nat, index # size
  PROVE  /\ size < index => Stops(index) = {}
         /\ index < size =>
              LET k == First(Stops(index)) IN
              /\ Stops(index) # {}
              /\ k \in DOMAIN buffer_
              /\ Begin(k) # index => Begin(k) < index /\ index < End(k)
<1>1. DOMAIN buffer_ \subseteq Nat /\ size \in Nat
  <2>1. FlattenSeq(buffer_) \in Seq(Byte)
    BY FlattenType DEF BInv
  <2> QED
    BY <2>1 DEF BInv, size
<1>2. ASSUME size < index, Stops(index) # {}
      PROVE  FALSE
  <2>1. PICK k \in DOMAIN buffer_ : Begin(k) = index \/ End(k) > index
    BY <1>2 DEF Stops
  <2>2. /\ Begin(k) \in Nat /\ End(k) \in Nat
        /\ Begin(k) <= End(k) /\ End(k) <= size
    BY Places
  <2> QED
    BY <1>1, <1>2, <2>1, <2>2
<1>3. ASSUME index < size
      PROVE  LET k == First(Stops(index)) IN
             /\ Stops(index) # {}
             /\ k \in DOMAIN buffer_
             /\ Begin(k) # index => Begin(k) < index /\ index < End(k)
  <2> DEFINE k == First(Stops(index))
  <2>1. Stops(index) # {}
    <3>1. Holds(index) # {}
      BY <1>3, HoldsAll
    <3> QED
      BY <3>1 DEF Holds, Stops
  <2>2. k \in Stops(index) /\ \A j \in Stops(index) : k <= j
    <3>1. Stops(index) \in SUBSET Nat
      BY <1>1 DEF Stops
    <3> QED
      BY <2>1, <3>1, FirstIs
  <2> HIDE DEF k
  <2>3. k \in DOMAIN buffer_ /\ (Begin(k) = index \/ End(k) > index)
    BY <2>2 DEF Stops
  <2>4. Begin(k) \in Nat /\ End(k) \in Nat
    BY <2>3, Places
  <2>5. ASSUME Begin(k) # index PROVE Begin(k) < index
    <3>1. CASE k = 1
      <4>1. Begin(k) = 0
        BY <2>3, <3>1, Places
      <4> QED
        BY <2>5, <4>1
    <3>2. CASE k # 1
      <4>1. k - 1 \in DOMAIN buffer_ /\ Begin(k) = End(k - 1)
        BY <2>3, <3>2, Places
      <4>2. ~(End(k - 1) > index)
        <5>1. ~(k <= k - 1)
          BY <1>1, <2>3
        <5> QED
          BY <2>2, <4>1, <5>1 DEF Stops
      <4> QED
        BY <2>4, <2>5, <4>1, <4>2
    <3> QED
      BY <3>1, <3>2
  <2> QED
    BY <2>1, <2>3, <2>5 DEF k
<1> QED
  BY <1>2, <1>3

-----------------------------------------------------------------------------
(* The invariant.                                                           *)

LEMMA ZerosType ==
  ASSUME NEW n \in Nat
  PROVE  Zeros(n) \in Seq(Byte)
<1>1. 0 \in Byte
  BY DEF Byte
<1> QED
  BY <1>1 DEF Zeros

LEMMA BufferInitInv == BufferInit => (Spans = {} => BInv)
<1> SUFFICES ASSUME BufferInit, Spans = {} PROVE BInv
  OBVIOUS
<1>1. CASE buffer_ = <<>> /\ text = <<>>
  <2>1. buffer_ \in Seq(Seq(Byte))
    BY <1>1
  <2> QED
    BY <1>1, <2>1, FlattenEmpty DEF BInv
<1>2. ASSUME NEW x \in Seq(Byte), buffer_ = <<x>>, text = x
      PROVE  BInv
  <2>1. <<x>> \in Seq(Seq(Byte))
    OBVIOUS
  <2> QED
    BY <1>2, <2>1, FlattenOne DEF BInv
<1>3. ASSUME NEW n \in {MaxBytes, 8}, buffer_ = <<Zeros(n)>>, text = Zeros(n)
      PROVE  BInv
  <2>1. n \in Nat
    BY BufferAssumption
  <2>2. Zeros(n) \in Seq(Byte)
    BY <2>1, ZerosType
  <2> QED
    BY <1>2, <1>3, <2>2
<1>4. ASSUME NEW d \in Contents, buffer_ = <<d>>, text = d
      PROVE  BInv
  <2>1. d \in Seq(Byte)
    BY BufferAssumption
  <2> QED
    BY <1>2, <1>4, <2>1
<1> QED
  BY <1>1, <1>3, <1>4 DEF BufferInit

\* A list that grows at its end holds what is appended to the text.
LEMMA GrownIs ==
  ASSUME BInv, NEW d \in Seq(Byte), NEW new_slice \in BOOLEAN
  PROVE  /\ Grown(d, new_slice) \in Seq(Seq(Byte))
         /\ FlattenSeq(Grown(d, new_slice)) = text \o d
<1>1. /\ buffer_ \in Seq(Seq(Byte)) /\ text = FlattenSeq(buffer_)
  BY DEF BInv
<1>2. CASE new_slice \/ buffer_ = <<>>
  <2>1. Grown(d, new_slice) = Append(buffer_, d)
    BY <1>2 DEF Grown
  <2>2. Append(buffer_, d) \in Seq(Seq(Byte))
    BY <1>1
  <2>3. FlattenSeq(Append(buffer_, d)) = FlattenSeq(buffer_) \o d
    BY <1>1, FlattenAppend
  <2> QED
    BY <1>1, <2>1, <2>2, <2>3
<1>3. CASE ~(new_slice \/ buffer_ = <<>>)
  <2> DEFINE n == Len(buffer_)
             x == buffer_[n] \o d
  <2>1. n \in DOMAIN buffer_ /\ buffer_[n] \in Seq(Byte) /\ n \in Nat
    BY <1>1, <1>3
  <2>2. Grown(d, new_slice) = ReplaceAt(buffer_, n, x)
    BY <1>3 DEF Grown, Last
  <2>3. x \in Seq(Byte)
    BY <2>1, ConcatIs
  <2>4. /\ ReplaceAt(buffer_, n, x) \in Seq(Seq(Byte))
        /\ FlattenSeq(ReplaceAt(buffer_, n, x)) = Front_(n) \o x \o Rest(n)
        /\ Front_(n) \in Seq(Byte) /\ text = Front_(n) \o buffer_[n] \o Rest(n)
    BY <2>1, <2>3, Around
  <2>5. Rest(n) = <<>>
    <3> DEFINE r == SubSeq(buffer_, n + 1, n)
    <3>1. r = <<>>
      BY <1>1, <2>1
    <3>2. Rest(n) = FlattenSeq(r)
      BY DEF Rest
    <3> HIDE DEF r
    <3> QED
      BY <3>1, <3>2, FlattenEmpty
  <2>6. Front_(n) \o x = (Front_(n) \o buffer_[n]) \o d
    <3> DEFINE a == Front_(n)
               b == buffer_[n]
    <3>1. a \in Seq(Byte)
      BY <2>4
    <3>2. b \in Seq(Byte)
      BY <2>1
    <3>3. x = b \o d
      OBVIOUS
    <3> HIDE DEF a, b, x
    <3>4. (a \o b) \o d = a \o (b \o d)
      BY <3>1, <3>2, ConcatAssoc
    <3> QED
      BY <3>3, <3>4 DEF a, b
  <2>7. ASSUME NEW a \in Seq(Byte) PROVE a \o <<>> = a
    OBVIOUS
  <2>8. Front_(n) \o x \in Seq(Byte) /\ Front_(n) \o buffer_[n] \in Seq(Byte)
    BY <2>1, <2>3, <2>4, ConcatIs
  <2>9. /\ Front_(n) \o x \o Rest(n) = Front_(n) \o x
        /\ text = Front_(n) \o buffer_[n]
    <3> HIDE DEF x, n
    <3> QED
      BY <2>4, <2>5, <2>7, <2>8
  <2> QED
    BY <2>2, <2>4, <2>6, <2>9
<1> QED
  BY <1>2, <1>3

LEMMA PushInv ==
  ASSUME BInv, NEW d \in Contents, NEW new_slice \in BOOLEAN,
         push_back(d, new_slice)
  PROVE  BInv'
<1>1. d \in Seq(Byte)
  BY BufferAssumption
<1>2. buffer_' = Grown(d, new_slice) /\ text' = text \o d
  BY DEF push_back
<1>3. /\ Grown(d, new_slice) \in Seq(Seq(Byte))
      /\ FlattenSeq(Grown(d, new_slice)) = text \o d
  BY <1>1, GrownIs
<1> QED
  BY <1>2, <1>3 DEF BInv

LEMMA InsertInv ==
  ASSUME BInv, NEW d \in Contents, NEW index \in 0..MaxBytes,
         insert(index, d)
  PROVE  BInv'
<1>1. d \in Seq(Byte) /\ index \in Nat
  BY BufferAssumption
<1>2. /\ buffer_' = Inserted(index, d)
      /\ text' = IF index <= Len(text) THEN Spliced(text, index, d) ELSE text
  BY DEF insert
<1>3. text \in Seq(Byte) /\ size = Len(text) /\ size \in Nat
  <2>1. text = FlattenSeq(buffer_) /\ FlattenSeq(buffer_) \in Seq(Byte)
    BY FlattenType DEF BInv
  <2> QED
    BY <2>1 DEF size
<1>4. ASSUME NEW b \in Seq(Seq(Byte)), Inserted(index, d) = b,
             index <= Len(text), FlattenSeq(b) = Spliced(text, index, d)
      PROVE  BInv'
  BY <1>2, <1>4 DEF BInv
<1>5. CASE index = size
  <2>1. Inserted(index, d) = Grown(d, TRUE)
    BY <1>5 DEF Inserted
  <2>2. /\ Grown(d, TRUE) \in Seq(Seq(Byte))
        /\ FlattenSeq(Grown(d, TRUE)) = text \o d
    BY <1>1, GrownIs
  <2>3. Spliced(text, index, d) = text \o d
    <3> DEFINE z == Spliced(text, index, d)
    <3>1. index \in 0..Len(text) /\ index = Len(text) /\ Len(d) \in Nat
      BY <1>1, <1>3, <1>5
    <3>2. /\ z \in Seq(Byte) /\ Len(z) = Len(text) + Len(d)
          /\ \A j \in 1..index : z[j] = text[j]
          /\ \A j \in (index + 1)..(index + Len(d)) : z[j] = d[j - index]
      BY <1>1, <1>3, <3>1, SplicedIs
    <3> HIDE DEF z
    <3>3. /\ text \o d \in Seq(Byte) /\ Len(text \o d) = Len(text) + Len(d)
          /\ \A j \in 1..Len(text) : (text \o d)[j] = text[j]
          /\ \A j \in (Len(text) + 1)..(Len(text) + Len(d)) :
               (text \o d)[j] = d[j - Len(text)]
      BY <1>1, <1>3, ConcatIs
    <3>4. ASSUME NEW j \in 1..Len(z) PROVE z[j] = (text \o d)[j]
      <4>1. CASE j \in 1..Len(text)
        BY <3>1, <3>2, <3>3, <4>1
      <4>2. CASE j \in (Len(text) + 1)..(Len(text) + Len(d))
        BY <3>1, <3>2, <3>3, <4>2
      <4>3. Len(text) \in Nat /\ Len(d) \in Nat /\ Len(z) = Len(text) + Len(d)
        BY <1>3, <3>1, <3>2
      <4> QED
        BY <4>1, <4>2, <4>3
    <3>5. z = text \o d
      BY <3>2, <3>3, <3>4, SeqEqual
    <3> QED
      BY <3>5 DEF z
  <2>4. index <= Len(text)
    BY <1>3, <1>5
  <2> QED
    <3> DEFINE b == Grown(d, TRUE)
    <3>1. b \in Seq(Seq(Byte)) /\ FlattenSeq(b) = Spliced(text, index, d)
      BY <2>2, <2>3
    <3>2. Inserted(index, d) = b
      BY <2>1
    <3> HIDE DEF b
    <3> QED
      BY <1>4, <2>4, <3>1, <3>2
<1>6. CASE size < index
  <2>1. Stops(index) = {}
    BY <1>1, <1>3, <1>6, StopsIs
  <2>2. Inserted(index, d) = buffer_
    <3>1. index # size
      BY <1>1, <1>3, <1>6
    <3> QED
      BY <2>1, <3>1 DEF Inserted
  <2>3. ~(index <= Len(text))
    BY <1>1, <1>3, <1>6
  <2> QED
    <3>1. buffer_' = buffer_
      BY <1>2, <2>2
    <3>2. text' = text
      BY <1>2, <2>3
    <3> QED
      BY <3>1, <3>2 DEF BInv
<1>7. CASE index < size
  <2> DEFINE k == First(Stops(index))
             i == index - Begin(k)
             c == buffer_[k]
  <2>1. /\ Stops(index) # {} /\ k \in DOMAIN buffer_
        /\ Begin(k) # index => Begin(k) < index /\ index < End(k)
    BY <1>1, <1>3, <1>7, StopsIs
  <2>2. /\ Inserted(index, d) =
             IF Begin(k) = index THEN InsertAt(buffer_, k, d)
             ELSE ReplaceAt(buffer_, k, Spliced(c, i, d))
    <3>1. index # size
      BY <1>1, <1>3, <1>7
    <3>2. Stops(index) # {}
      BY <2>1
    <3> QED
      BY <3>1, <3>2 DEF Inserted
  <2>3. index <= Len(text)
    BY <1>1, <1>3, <1>7
  <2> HIDE DEF k
  <2> DEFINE p == Front_(k)
             r == Rest(k)
  <2>4. /\ p \in Seq(Byte) /\ r \in Seq(Byte) /\ c \in Seq(Byte)
        /\ Len(p) = Begin(k) /\ text = p \o c \o r
        /\ \A x \in Seq(Byte) :
             /\ ReplaceAt(buffer_, k, x) \in Seq(Seq(Byte))
             /\ FlattenSeq(ReplaceAt(buffer_, k, x)) = p \o x \o r
             /\ InsertAt(buffer_, k, x) \in Seq(Seq(Byte))
             /\ FlattenSeq(InsertAt(buffer_, k, x)) = p \o x \o (c \o r)
    BY <2>1, Around
  <2>5. /\ Begin(k) \in Nat /\ End(k) = Begin(k) + Len(c)
    BY <2>1, Places
  <2> HIDE DEF p, r, c
  <2>p. p \in Seq(Byte)
    BY <2>4
  <2>c. c \in Seq(Byte)
    BY <2>4
  <2>r. r \in Seq(Byte)
    BY <2>4
  <2>6. CASE Begin(k) = index
    <3>1. Inserted(index, d) = InsertAt(buffer_, k, d)
      BY <2>2, <2>6
    <3>2. Spliced(text, index, d) = p \o d \o (c \o r)
      <4>1. text = p \o (c \o r) /\ c \o r \in Seq(Byte)
        <5>1. (p \o c) \o r = p \o (c \o r)
          BY <2>p, <2>c, <2>r, ConcatAssoc
        <5>2. c \o r \in Seq(Byte)
          BY <2>c, <2>r, ConcatIs
        <5> QED
          BY <2>4, <5>1, <5>2
      <4> DEFINE q == c \o r
                 w == p \o q
      <4>2. w = text /\ q \in Seq(Byte)
        BY <4>1
      <4> HIDE DEF q
      <4>3. SubSeq(w, 1, index) = p /\ SubSeq(w, index + 1, Len(w)) = q
        <5>1. p \in Seq(Byte) /\ index = Len(p)
          BY <2>4, <2>6
        <5> QED
          BY <4>2, <5>1
      <4>4. Spliced(w, index, d) = p \o d \o q
        BY <4>3 DEF Spliced
      <4> HIDE DEF w
      <4> QED
        BY <4>2, <4>4 DEF q
    <3> DEFINE b == InsertAt(buffer_, k, d)
    <3>3. b \in Seq(Seq(Byte)) /\ FlattenSeq(b) = Spliced(text, index, d)
      BY <1>1, <2>4, <3>2
    <3>4. Inserted(index, d) = b
      BY <3>1
    <3> HIDE DEF b
    <3> QED
      BY <1>4, <2>3, <3>3, <3>4
  <2>7. CASE Begin(k) # index
    <3>1. /\ i \in 0..Len(c) /\ Len(p) + i = index
      <4>1. Len(c) \in Nat /\ Len(p) = Begin(k)
        BY <2>4
      <4> QED
        BY <1>1, <2>1, <2>5, <2>7, <4>1
    <3>2. Inserted(index, d) = ReplaceAt(buffer_, k, Spliced(c, i, d))
      BY <2>2, <2>7
    <3> HIDE DEF i
    <3>3. Spliced(c, i, d) \in Seq(Byte)
      BY <1>1, <2>c, <3>1, SplicedIs
    <3>4. Spliced(p \o c \o r, Len(p) + i, d) = p \o Spliced(c, i, d) \o r
      <4>1. d \in Seq(Byte) /\ i \in 0..Len(c)
        BY <1>1, <3>1
      <4>2. SplicedIn(p, c, r, d, i)
        BY <2>p, <2>c, <2>r, <4>1, SplicedInside
      <4> QED
        BY <4>2 DEF SplicedIn
    <3> DEFINE x == Spliced(c, i, d)
               b == ReplaceAt(buffer_, k, x)
    <3>5. b \in Seq(Seq(Byte)) /\ FlattenSeq(b) = p \o x \o r
      BY <2>4, <3>3
    <3>6. Spliced(text, index, d) = p \o x \o r
      BY <2>4, <3>1, <3>4
    <3>7. Inserted(index, d) = b
      BY <3>2
    <3> HIDE DEF b
    <3>8. FlattenSeq(b) = Spliced(text, index, d)
      BY <3>5, <3>6
    <3> QED
      BY <1>4, <2>3, <3>5, <3>7, <3>8
  <2> QED
    BY <2>6, <2>7
<1> QED
  BY <1>1, <1>3, <1>5, <1>6, <1>7

LEMMA WriteInv ==
  ASSUME BInv, NEW w \in Words, NEW index \in 0..7, write_at(index, w)
  PROVE  BInv'
<1> DEFINE k == First(Holds(index))
           i == index - Begin(k)
           c == buffer_[k]
<1>1. w \in Seq(Byte) /\ Len(w) \in Nat /\ index \in Nat
  BY BufferAssumption
<1>2. /\ Holds(index) # {} /\ index + Len(w) <= End(k)
      /\ buffer_' = ReplaceAt(buffer_, k, Overwritten(c, i, w))
      /\ text' = Overwritten(text, index, w)
  BY DEF write_at, Fits
<1>3. k \in DOMAIN buffer_ /\ Begin(k) <= index
  BY <1>1, <1>2, HoldsIs
<1> HIDE DEF k
<1> DEFINE p == Front_(k)
           r == Rest(k)
<1>4. /\ p \in Seq(Byte) /\ r \in Seq(Byte) /\ c \in Seq(Byte)
      /\ Len(p) = Begin(k) /\ text = p \o c \o r
      /\ \A x \in Seq(Byte) :
           /\ ReplaceAt(buffer_, k, x) \in Seq(Seq(Byte))
           /\ FlattenSeq(ReplaceAt(buffer_, k, x)) = p \o x \o r
  BY <1>3, Around
<1>5. Begin(k) \in Nat /\ End(k) = Begin(k) + Len(c)
  BY <1>3, Places
<1> HIDE DEF p, r, c
<1>6. i \in Nat /\ Len(p) + i = index /\ i + Len(w) <= Len(c)
  <2>1. Len(c) \in Nat /\ Len(p) = Begin(k)
    BY <1>4
  <2> QED
    BY <1>1, <1>2, <1>3, <1>5, <2>1
<1> HIDE DEF i
<1>p. p \in Seq(Byte)
  BY <1>4
<1>c. c \in Seq(Byte)
  BY <1>4
<1>r. r \in Seq(Byte)
  BY <1>4
<1>7. Overwritten(c, i, w) \in Seq(Byte)
  BY <1>1, <1>c, <1>6, OverwrittenIs
<1>8. Overwritten(p \o c \o r, Len(p) + i, w) = p \o Overwritten(c, i, w) \o r
  <2>1. w \in Seq(Byte)
    BY <1>1
  <2>2. i \in Nat /\ i + Len(w) <= Len(c)
    BY <1>6
  <2>3. OverwrittenIn(p, c, r, w, i)
    BY <1>p, <1>c, <1>r, <2>1, <2>2, OverwrittenInside
  <2> QED
    BY <2>3 DEF OverwrittenIn
<1>9. /\ ReplaceAt(buffer_, k, Overwritten(c, i, w)) \in Seq(Seq(Byte))
      /\ FlattenSeq(ReplaceAt(buffer_, k, Overwritten(c, i, w))) =
           Overwritten(text, index, w)
  BY <1>4, <1>6, <1>7, <1>8
<1> QED
  BY <1>2, <1>9 DEF BInv

LEMMA BufferNextInv == BInv /\ [BufferNext]_bufferVars => BInv'
<1> SUFFICES ASSUME BInv, [BufferNext]_bufferVars PROVE BInv'
  OBVIOUS
<1>1. CASE UNCHANGED bufferVars
  BY <1>1 DEF bufferVars, BInv
<1>2. CASE BufferNext
  BY <1>2, PushInv, InsertInv, WriteInv DEF BufferNext
<1> QED
  BY <1>1, <1>2

LEMMA InvSameBytes == BInv => SameBytes
<1> SUFFICES ASSUME BInv PROVE SameBytes
  OBVIOUS
<1>1. size = Len(text) /\ size \in Nat
  <2>1. text = FlattenSeq(buffer_) /\ FlattenSeq(buffer_) \in Seq(Byte)
    BY FlattenType DEF BInv
  <2> QED
    BY <2>1 DEF size
<1>2. ASSUME NEW index \in 0..(size - 1)
      PROVE  At(index) = text[index + 1]
  <2> DEFINE k == First(Holds(index))
             p == Front_(k)
             c == buffer_[k]
             r == Rest(k)
  <2>1. index \in Nat /\ index < size
    BY <1>1
  <2>2. k \in DOMAIN buffer_ /\ Begin(k) <= index /\ index < End(k)
    BY <2>1, HoldsAll, HoldsIs
  <2>3. At(index) = c[index - Begin(k) + 1]
    BY DEF At
  <2> HIDE DEF k
  <2>4. /\ p \in Seq(Byte) /\ r \in Seq(Byte) /\ c \in Seq(Byte)
        /\ Len(p) = Begin(k) /\ text = p \o c \o r
    BY <2>2, Around
  <2>5. Begin(k) \in Nat /\ End(k) = Begin(k) + Len(c)
    BY <2>2, Places
  <2> HIDE DEF p, c, r
  <2>6. \A j \in (Len(p) + 1)..(Len(p) + Len(c)) :
          (p \o c \o r)[j] = c[j - Len(p)]
    BY <2>4, ThreeParts
  <2>7. /\ index + 1 \in (Len(p) + 1)..(Len(p) + Len(c))
        /\ (index + 1) - Len(p) = index - Begin(k) + 1
    <3>1. Len(c) \in Nat /\ Len(p) = Begin(k)
      BY <2>4
    <3> QED
      BY <2>1, <2>2, <2>5, <3>1
  <2> QED
    BY <2>3, <2>4, <2>6, <2>7
<1> QED
  BY <1>1, <1>2 DEF SameBytes

\* However the bytes are cut into chunks, a buffer that was not made of a span
\* holds what the same calls would have made of one array, and operator[]
\* finds each of them.
THEOREM OneArray == BufferSpec => [](Spans = {} => SameBytes)
<1>1. BufferInit => (Spans = {} => BInv)
  BY BufferInitInv
<1>2. (Spans = {} => BInv) /\ [BufferNext]_bufferVars => (Spans = {} => BInv)'
  BY BufferNextInv
<1>3. (Spans = {} => BInv) => (Spans = {} => SameBytes)
  BY InvSameBytes
<1> QED
  BY <1>1, <1>2, <1>3, PTL DEF BufferSpec

-----------------------------------------------------------------------------
(* What a window sends.                                                     *)

\* A piece <<k, first byte, length>> of data(), and what it sends.
Piece == (DOMAIN buffer_) \X Nat \X Nat
Sends(t) == [i \in 1..t[3] |-> Memory(buffer_[t[1]], t[2] + i)]
Given(lo, hi) ==
    [k \in DOMAIN buffer_ |->
       IF Begin(k) < hi THEN Slice(k, lo, hi) ELSE <<>>]

LEMMA SendsType ==
  ASSUME BInv, NEW t \in Piece
  PROVE  /\ Sends(t) \in Seq(0..256) /\ Len(Sends(t)) = t[3]
         /\ \A i \in 1..t[3] : Sends(t)[i] = Memory(buffer_[t[1]], t[2] + i)
<1>1. t[1] \in DOMAIN buffer_ /\ t[2] \in Nat /\ t[3] \in Nat
  BY DEF Piece
<1>2. \A i \in 1..t[3] : Memory(buffer_[t[1]], t[2] + i) \in 0..256
  <2> DEFINE c == buffer_[t[1]]
  <2>1. c \in Seq(Byte)
    BY <1>1 DEF BInv
  <2> HIDE DEF c
  <2>2. \A j \in DOMAIN c : c[j] \in Byte
    BY <2>1
  <2>3. \A j : Memory(c, j) \in 0..256
    BY <2>2 DEF Memory, Wild, Byte
  <2> QED
    BY <2>3 DEF c
<1> DEFINE n == t[3]
           f == [i \in 1..n |-> Memory(buffer_[t[1]], t[2] + i)]
<1>3. f \in [1..n -> 0..256] /\ n \in Nat /\ Sends(t) = f
  BY <1>1, <1>2 DEF Sends
<1> HIDE DEF f, n
<1>4. f \in Seq(0..256) /\ Len(f) = n
  BY <1>3
<1>5. \A i \in 1..n : f[i] = Memory(buffer_[t[1]], t[2] + i)
  BY DEF f
<1> QED
  BY <1>3, <1>4, <1>5 DEF n

\* The bytes of one piece more come behind the others.
SendsMore(s, t) ==
    syscall_sendv(Append(s, t)) = syscall_sendv(s) \o Sends(t)

LEMMA SendvAppend ==
  ASSUME BInv, NEW s \in Seq(Piece), NEW t \in Piece
  PROVE  SendsMore(s, t)
<1> DEFINE u == Append(s, t)
           f == [j \in DOMAIN s |-> Sends(s[j])]
           g == [j \in DOMAIN u |-> Sends(u[j])]
           n == Len(s)
<1>1. /\ n \in Nat /\ u \in Seq(Piece) /\ Len(u) = n + 1 /\ u[n + 1] = t
      /\ \A j \in 1..n : u[j] = s[j] /\ s[j] \in Piece
  OBVIOUS
<1>2. syscall_sendv(s) = FlattenSeq(f) /\ syscall_sendv(u) = FlattenSeq(g)
  BY DEF syscall_sendv, Sends
<1> HIDE DEF u
<1>3. DOMAIN s = 1..n /\ DOMAIN u = 1..(n + 1)
  BY <1>1
<1>4. f \in Seq(Seq(0..256)) /\ Len(f) = n
  BY <1>1, <1>3, SendsType
<1>5. \A j \in 1..(n + 1) : u[j] \in Piece
  BY <1>1
<1>6. g \in Seq(Seq(0..256)) /\ Len(g) = n + 1
  BY <1>1, <1>3, <1>5, SendsType
<1>7. /\ \A j \in 1..n : g[j] = Sends(s[j]) /\ f[j] = Sends(s[j])
      /\ g[n + 1] = Sends(t)
  BY <1>1, <1>3
<1> HIDE DEF f, g
<1>8. Sends(t) \in Seq(0..256)
  BY SendsType
<1>9. g = Append(f, Sends(t))
  <2> DEFINE h == Append(f, Sends(t))
  <2>1. /\ h \in Seq(Seq(0..256)) /\ Len(h) = n + 1 /\ h[n + 1] = Sends(t)
        /\ \A j \in 1..n : h[j] = f[j]
    BY <1>1, <1>4, <1>8
  <2> HIDE DEF h
  <2>2. \A j \in 1..(n + 1) : g[j] = h[j]
    BY <1>1, <1>7, <2>1
  <2>3. g = h
    BY <1>1, <1>6, <2>1, <2>2, SeqEqual
  <2> QED
    BY <2>3 DEF h
<1>10. FlattenSeq(Append(f, Sends(t))) = FlattenSeq(f) \o Sends(t)
  BY <1>4, <1>8, FlattenAppend
<1> QED
  BY <1>2, <1>9, <1>10 DEF SendsMore, u

\* A piece inside of its chunk sends what stands there in the text.
LEMMA SendsInside ==
  ASSUME BInv, NEW k \in DOMAIN buffer_, NEW a \in Nat, NEW l \in Nat,
         a + l <= Len(buffer_[k])
  PROVE  /\ <<k, a, l>> \in Piece
         /\ Len(Sends(<<k, a, l>>)) = l
         /\ \A i \in 1..l : Sends(<<k, a, l>>)[i] = text[Begin(k) + a + i]
<1> DEFINE p == Front_(k)
           c == buffer_[k]
           r == Rest(k)
           t == <<k, a, l>>
<1>1. t \in Piece /\ t[1] = k /\ t[2] = a /\ t[3] = l
  BY DEF Piece
<1>2. /\ p \in Seq(Byte) /\ r \in Seq(Byte) /\ c \in Seq(Byte)
      /\ Len(p) = Begin(k) /\ text = p \o c \o r
  BY Around
<1> HIDE DEF t
<1>3. /\ Len(Sends(t)) = l
      /\ \A i \in 1..l : Sends(t)[i] = Memory(buffer_[k], a + i)
  BY <1>1, SendsType
<1> HIDE DEF p, r
<1>4. \A j \in (Len(p) + 1)..(Len(p) + Len(c)) :
        (p \o c \o r)[j] = c[j - Len(p)]
  BY <1>2, ThreeParts
<1>5. ASSUME NEW i \in 1..l PROVE Sends(t)[i] = text[Begin(k) + a + i]
  <2>1. Len(c) \in Nat /\ DOMAIN c = 1..Len(c) /\ Len(p) \in Nat
    BY <1>2
  <2>2. /\ a + i \in DOMAIN c
        /\ Len(p) + a + i \in (Len(p) + 1)..(Len(p) + Len(c))
        /\ (Len(p) + a + i) - Len(p) = a + i
    BY <2>1
  <2>3. Sends(t)[i] = c[a + i]
    BY <1>3, <2>2 DEF Memory
  <2> QED
    BY <1>2, <1>4, <2>2, <2>3
<1> QED
  BY <1>1, <1>3, <1>5 DEF t

\* What a chunk gives: nothing, or a piece of it that lies where the window
\* and the chunk meet.
Greatest(a, b) == IF a < b THEN b ELSE a
Meets(k, lo, hi, t) ==
    /\ lo <= Least(hi, End(k))
    /\ t[1] = k /\ t[2] \in Nat /\ t[3] \in Nat
    /\ t[2] + t[3] <= Len(buffer_[k])
    /\ Begin(k) + t[2] = Greatest(lo, Least(hi, Begin(k)))
    /\ Begin(k) + t[2] + t[3] = Least(hi, End(k))
GivesNothing(k, lo, hi) ==
    \/ Least(hi, End(k)) = Least(hi, Begin(k))
    \/ Least(hi, End(k)) <= lo

LEMMA ChunkGives ==
  ASSUME BInv, NEW k \in DOMAIN buffer_, NEW lo \in Nat, NEW hi \in Nat,
         lo <= hi, Clean(lo, hi)
  PROVE  \/ /\ Given(lo, hi)[k] = <<>>
            /\ GivesNothing(k, lo, hi)
         \/ \E t \in Piece : /\ Given(lo, hi)[k] = <<t>>
                             /\ Meets(k, lo, hi, t)
<1> DEFINE b == Begin(k)
           e == End(k)
           l == Len(buffer_[k])
           G == Given(lo, hi)[k]
<1>1. b \in Nat /\ e \in Nat /\ l \in Nat /\ e = b + l
  <2>1. buffer_[k] \in Seq(Byte)
    BY DEF BInv
  <2> QED
    BY <2>1, Places
<1>2. /\ b = lo /\ lo < hi => e <= hi
      /\ b < lo /\ lo < e => b = 0
  BY DEF Clean
<1>3. G = IF b < hi THEN Slice(k, lo, hi) ELSE <<>>
  BY DEF Given
<1>4. \A x \in Nat, y \in Nat : <<k, x, y>> \in Piece
  BY DEF Piece
<1> HIDE DEF b, e, l, G
<1>5. CASE b >= hi
  <2>1. G = <<>>
    BY <1>1, <1>3, <1>5
  <2>2. Least(hi, e) = Least(hi, b)
    BY <1>1, <1>5 DEF Least
  <2> QED
    BY <2>1, <2>2 DEF GivesNothing, G, b, e
<1>6. CASE b < hi /\ b # lo /\ e <= lo
  <2>1. G = <<>>
    BY <1>1, <1>3, <1>6 DEF Slice, b, e
  <2>2. Least(hi, e) <= lo
    BY <1>1, <1>6 DEF Least
  <2> QED
    BY <2>1, <2>2 DEF GivesNothing, G, e
<1>7. CASE b < hi /\ (b = lo \/ (b > lo /\ e <= hi))
  <2>1. G = <<<<k, 0, l>>>>
    <3>1. CASE b = lo
      BY <1>1, <1>3, <1>7, <3>1 DEF Slice, b, e, l
    <3>2. CASE b > lo
      BY <1>1, <1>3, <1>7, <3>2 DEF Slice, b, e, l
    <3> QED
      BY <1>1, <1>7, <3>1, <3>2
  <2>2. Meets(k, lo, hi, <<k, 0, l>>)
    BY <1>1, <1>2, <1>7 DEF Meets, Least, Greatest, b, e, l
  <2> QED
    BY <1>1, <1>4, <2>1, <2>2 DEF G
<1>8. CASE b < hi /\ b < lo /\ e > lo
  <2> DEFINE m == Least(hi - lo, l - lo)
  <2>1. b = 0 /\ e = l /\ l >= lo
    BY <1>1, <1>2, <1>8
  <2>2. G = <<<<k, lo, m>>>>
    <3>1. Slice(k, lo, hi) =
            <<<<k, lo - b, Least(hi - lo, Unsigned(l, lo))>>>>
      BY <1>1, <1>8 DEF Slice, b, e, l
    <3>2. Unsigned(l, lo) = l - lo /\ lo - b = lo
      BY <1>1, <2>1 DEF Unsigned
    <3> QED
      BY <1>3, <1>8, <3>1, <3>2
  <2>3. m \in Nat
    BY <1>1, <2>1 DEF Least
  <2>4. Meets(k, lo, hi, <<k, lo, m>>)
    BY <1>1, <1>8, <2>1, <2>3 DEF Meets, Least, Greatest, b, e, l
  <2> HIDE DEF m
  <2> QED
    BY <1>4, <2>2, <2>3, <2>4 DEF G
<1>9. CASE b < hi /\ b > lo /\ e > hi
  <2>1. G = <<<<k, 0, hi - b>>>>
    BY <1>1, <1>3, <1>9 DEF Slice, b, e
  <2>2. hi - b \in Nat
    BY <1>1, <1>9
  <2>3. Meets(k, lo, hi, <<k, 0, hi - b>>)
    BY <1>1, <1>9, <2>2 DEF Meets, Least, Greatest, b, e, l
  <2> QED
    BY <1>4, <2>1, <2>2, <2>3 DEF G
<1>10. \/ b >= hi
       \/ b < hi /\ b # lo /\ e <= lo
       \/ b < hi /\ (b = lo \/ (b > lo /\ e <= hi))
       \/ b < hi /\ b < lo /\ e > lo
       \/ b < hi /\ b > lo /\ e > hi
  BY <1>1
<1> QED
  BY <1>5, <1>6, <1>7, <1>8, <1>9, <1>10

\* The bytes of the text from lo on, as far as x.
IsWindow(s, lo, x) ==
    /\ s \in Seq(0..256)
    /\ Len(s) = IF x >= lo THEN x - lo ELSE 0
    /\ \A i \in 1..Len(s) : s[i] = text[lo + i]

LEMMA WindowKept ==
  ASSUME BInv, NEW k \in DOMAIN buffer_, NEW lo \in Nat, NEW hi \in Nat,
         GivesNothing(k, lo, hi),
         NEW s, IsWindow(s, lo, Least(hi, Begin(k)))
  PROVE  IsWindow(s, lo, Least(hi, End(k)))
<1>1. Begin(k) \in Nat /\ End(k) \in Nat /\ Begin(k) <= End(k)
  BY Places
<1>2. CASE Least(hi, End(k)) = Least(hi, Begin(k))
  BY <1>2
<1>3. CASE Least(hi, End(k)) <= lo
  <2>1. /\ Least(hi, Begin(k)) <= lo
        /\ Least(hi, Begin(k)) \in Nat /\ Least(hi, End(k)) \in Nat
    BY <1>1, <1>3 DEF Least
  <2>2. Len(s) = 0
    BY <2>1 DEF IsWindow
  <2> QED
    BY <1>3, <2>1, <2>2 DEF IsWindow
<1> QED
  BY <1>2, <1>3 DEF GivesNothing

LEMMA WindowGrows ==
  ASSUME BInv, NEW k \in DOMAIN buffer_, NEW lo \in Nat, NEW hi \in Nat,
         NEW t \in Piece, Meets(k, lo, hi, t),
         NEW s, IsWindow(s, lo, Least(hi, Begin(k)))
  PROVE  IsWindow(s \o Sends(t), lo, Least(hi, End(k)))
<1> DEFINE a == t[2]
           l == t[3]
           b == Begin(k)
           u == Sends(t)
           w == s \o u
           x == Least(hi, End(k))
<1>1. b \in Nat /\ End(k) \in Nat /\ b <= End(k)
  BY Places
<1>2. /\ a \in Nat /\ l \in Nat /\ a + l <= Len(buffer_[k]) /\ t = <<k, a, l>>
      /\ lo <= x /\ b + a = Greatest(lo, Least(hi, b)) /\ b + a + l = x
  BY DEF Meets, Piece
<1> HIDE DEF x
<1>3. s \in Seq(0..256) /\ Len(s) \in Nat
  BY DEF IsWindow
<1>4. lo + Len(s) = b + a
  BY <1>1, <1>2 DEF IsWindow, Least, Greatest
<1>5. /\ u \in Seq(0..256) /\ Len(u) = l
      /\ \A i \in 1..l : u[i] = text[b + a + i]
  <2>1. u \in Seq(0..256)
    BY SendsType
  <2> HIDE DEF a, l
  <2>2. /\ Len(Sends(<<k, a, l>>)) = l
        /\ \A i \in 1..l : Sends(<<k, a, l>>)[i] = text[b + a + i]
    BY <1>2, SendsInside
  <2> QED
    BY <1>2, <2>1, <2>2
<1> HIDE DEF a, l, b, u
<1>6. /\ w \in Seq(0..256) /\ Len(w) = Len(s) + Len(u)
      /\ \A i \in 1..Len(s) : w[i] = s[i]
      /\ \A i \in (Len(s) + 1)..(Len(s) + Len(u)) : w[i] = u[i - Len(s)]
  BY <1>3, <1>5, ConcatIs
<1> HIDE DEF w
<1> DEFINE m == Len(s)
<1>0. /\ a \in Nat /\ l \in Nat /\ b \in Nat /\ m \in Nat /\ x \in Nat
      /\ lo + m = b + a /\ b + a + l = x
      /\ Len(u) = l /\ Len(w) = m + l
  <2>1. Len(u) = l /\ Len(w) = m + Len(u)
    BY <1>5, <1>6
  <2>2. a \in Nat /\ l \in Nat /\ b \in Nat /\ m \in Nat /\ b + a + l = x
    BY <1>1, <1>2, <1>3
  <2> QED
    BY <1>4, <2>1, <2>2
<1>7. ASSUME NEW i \in 1..Len(w) PROVE w[i] = text[lo + i]
  <2>1. CASE i <= Len(s)
    BY <1>3, <1>6, <2>1 DEF IsWindow
  <2>2. CASE i > Len(s)
    <3>0. i \in 1..(m + l) /\ i > m
      BY <1>0, <2>2
    <3> HIDE DEF m
    <3>1. /\ i \in (m + 1)..(m + Len(u)) /\ i - m \in 1..l
          /\ b + a + (i - m) = lo + i
      BY <1>0, <3>0
    <3> USE DEF m
    <3> QED
      BY <1>5, <1>6, <3>1
  <2> QED
    BY <1>3, <2>1, <2>2
<1>8. Len(w) = x - lo
  <2> HIDE DEF m
  <2> QED
    BY <1>0
<1> QED
  BY <1>2, <1>6, <1>7, <1>8 DEF IsWindow, w, u, x

\* The end of the first n chunks.
Covers(n) == IF n = 0 THEN 0 ELSE End(n)

LEMMA WindowSent ==
  ASSUME BInv, NEW lo \in Nat, NEW hi \in Nat, lo <= hi, Clean(lo, hi)
  PROVE  IsWindow(syscall_sendv(data(lo, hi)), lo,
                  Least(hi, Covers(Len(buffer_))))
<1> DEFINE G == Given(lo, hi)
           N == Len(buffer_)
           D(n) == FlattenSeq(SubSeq(G, 1, n))
           T == {n \in Nat : n <= N =>
                   /\ D(n) \in Seq(Piece)
                   /\ IsWindow(syscall_sendv(D(n)), lo, Least(hi, Covers(n)))}
<1>1. N \in Nat /\ DOMAIN buffer_ = 1..N
  BY DEF BInv
<1>2. ASSUME NEW k \in 1..N
      PROVE  \/ G[k] = <<>> /\ GivesNothing(k, lo, hi)
             \/ \E t \in Piece : G[k] = <<t>> /\ Meets(k, lo, hi, t)
  BY <1>1, ChunkGives
<1>3. G \in Seq(Seq(Piece)) /\ Len(G) = N
  <2>1. \A k \in 1..N : G[k] \in Seq(Piece)
    <3> HIDE DEF G, N
    <3> TAKE k \in 1..N
    <3>1. ASSUME NEW t \in Piece PROVE <<t>> \in Seq(Piece)
      OBVIOUS
    <3>2. <<>> \in Seq(Piece)
      OBVIOUS
    <3> QED
      BY <1>2, <3>1, <3>2
  <2>2. G \in [1..N -> Seq(Piece)]
    <3>1. DOMAIN G = 1..N /\ G = [k \in DOMAIN G |-> G[k]]
      BY <1>1 DEF Given
    <3> HIDE DEF G, N
    <3> QED
      BY <2>1, <3>1
  <2> HIDE DEF G, N
  <2> QED
    BY <1>1, <2>2
<1> HIDE DEF G, N
<1>4. 0 \in T
  <2>1. SubSeq(G, 1, 0) = <<>>
    BY <1>3
  <2>2. D(0) = <<>>
    BY <2>1, FlattenEmpty
  <2>3. syscall_sendv(<<>>) = <<>>
    <3>1. [j \in DOMAIN <<>> |-> [i \in 1..<<>>[j][3] |->
              Memory(buffer_[<<>>[j][1]], <<>>[j][2] + i)]] = <<>>
      OBVIOUS
    <3> QED
      BY <3>1, FlattenEmpty DEF syscall_sendv
  <2>4. Least(hi, Covers(0)) = 0
    BY DEF Least, Covers
  <2>5. IsWindow(<<>>, lo, 0)
    BY DEF IsWindow
  <2>6. <<>> \in Seq(Piece)
    OBVIOUS
  <2> HIDE DEF D
  <2> QED
    BY <2>2, <2>3, <2>4, <2>5, <2>6
<1>5. ASSUME NEW n \in Nat, n \in T
      PROVE  n + 1 \in T
  <2> DEFINE k == n + 1
             s == syscall_sendv(D(n))
  <2> SUFFICES ASSUME k <= N
               PROVE  /\ D(k) \in Seq(Piece)
                      /\ IsWindow(syscall_sendv(D(k)), lo, Least(hi, Covers(k)))
    OBVIOUS
  <2>1. D(n) \in Seq(Piece) /\ IsWindow(s, lo, Least(hi, Covers(n)))
    BY <1>1, <1>5
  <2>2. k \in 1..N /\ k \in DOMAIN buffer_
    BY <1>1
  <2>3. Covers(n) = Begin(k) /\ Covers(k) = End(k)
    <3>1. /\ k = 1 => Begin(k) = 0
          /\ k # 1 => Begin(k) = End(k - 1)
      BY <2>2, Places
    <3>2. k - 1 = n /\ k # 0
      OBVIOUS
    <3> QED
      BY <3>1, <3>2 DEF Covers
  <2>4. D(k) = D(n) \o G[k]
    <3> DEFINE v == SubSeq(G, 1, n)
               g == G[k]
    <3>1. v \in Seq(Seq(Piece)) /\ g \in Seq(Piece)
      BY <1>1, <1>3, <2>2
    <3>2. SubSeq(G, 1, k) = Append(v, g)
      BY <1>1, <1>3, <2>2
    <3> HIDE DEF v, g
    <3>3. FlattenSeq(Append(v, g)) = FlattenSeq(v) \o g
      BY <3>1, FlattenAppend
    <3> QED
      BY <3>2, <3>3 DEF v, g
  <2> HIDE DEF D, s
  <2>5. CASE G[k] = <<>> /\ GivesNothing(k, lo, hi)
    <3>1. D(k) = D(n)
      BY <2>1, <2>4, <2>5
    <3>2. IsWindow(s, lo, Least(hi, End(k)))
      BY <2>1, <2>2, <2>3, <2>5, WindowKept
    <3> QED
      BY <2>1, <2>3, <3>1, <3>2 DEF s
  <2>6. ASSUME NEW t \in Piece, G[k] = <<t>>, Meets(k, lo, hi, t)
        PROVE  /\ D(k) \in Seq(Piece)
               /\ IsWindow(syscall_sendv(D(k)), lo, Least(hi, Covers(k)))
    <3>1. D(k) = Append(D(n), t) /\ D(k) \in Seq(Piece)
      <4>1. ASSUME NEW d \in Seq(Piece)
            PROVE  d \o <<t>> = Append(d, t) /\ Append(d, t) \in Seq(Piece)
        OBVIOUS
      <4> QED
        BY <2>1, <2>4, <2>6, <4>1
    <3>2. SendsMore(D(n), t)
      BY <2>1, SendvAppend
    <3>3. syscall_sendv(D(k)) = s \o Sends(t)
      BY <3>1, <3>2 DEF SendsMore, s
    <3>4. IsWindow(s \o Sends(t), lo, Least(hi, End(k)))
      BY <2>1, <2>2, <2>3, <2>6, WindowGrows
    <3> QED
      BY <2>3, <3>1, <3>3, <3>4
  <2> QED
    BY <1>2, <2>2, <2>5, <2>6
<1> HIDE DEF T
<1>6. N \in T
  BY <1>1, <1>4, <1>5, SetInduction
<1>7. IsWindow(syscall_sendv(D(N)), lo, Least(hi, Covers(N)))
  BY <1>1, <1>6 DEF T
<1>8. D(N) = data(lo, hi)
  <2>1. SubSeq(G, 1, N) = G
    BY <1>3
  <2> QED
    BY <2>1 DEF data, Given, G
<1> QED
  BY <1>7, <1>8 DEF N

LEMMA InvWindowsSent == BInv /\ size <= Npos => WindowsSent
<1> SUFFICES ASSUME BInv, size <= Npos PROVE WindowsSent
  OBVIOUS
<1> DEFINE N == Len(buffer_)
<1>1. text \in Seq(Byte) /\ size = Len(text) /\ size \in Nat
  <2>1. text = FlattenSeq(buffer_) /\ FlattenSeq(buffer_) \in Seq(Byte)
    BY FlattenType DEF BInv
  <2> QED
    BY <2>1 DEF size
<1>2. Covers(N) = size
  <2>1. N \in Nat /\ DOMAIN buffer_ = 1..N /\ N = 0 => buffer_ = <<>>
    BY DEF BInv
  <2>2. CASE N = 0
    <3>1. size = 0
      BY <2>1, <2>2, FlattenEmpty DEF size
    <3> QED
      BY <2>2, <3>1 DEF Covers
  <2>3. CASE N # 0
    <3>1. N \in DOMAIN buffer_
      BY <2>1, <2>3
    <3> QED
      BY <2>3, <3>1, Places DEF Covers
  <2> QED
    BY <2>2, <2>3
<1>3. ASSUME NEW lo \in Nat, NEW hi \in Nat, lo <= hi, lo <= size,
             Clean(lo, hi)
      PROVE  syscall_sendv(data(lo, hi)) = Bytes(lo, Least(hi, size))
  <2> DEFINE s == syscall_sendv(data(lo, hi))
             x == Least(hi, size)
             t == SubSeq(text, lo + 1, x)
  <2>1. IsWindow(s, lo, x)
    BY <1>2, <1>3, WindowSent
  <2>2. x \in Nat /\ lo <= x /\ x <= Len(text)
    BY <1>1, <1>3 DEF Least
  <2> HIDE DEF s, x
  <2>3. /\ s \in Seq(0..256) /\ Len(s) = x - lo
        /\ \A i \in 1..Len(s) : s[i] = text[lo + i]
    BY <2>1, <2>2 DEF IsWindow
  <2>4. /\ t \in Seq(Byte) /\ Len(t) = x - lo
        /\ \A i \in 1..Len(t) : t[i] = text[lo + i]
    <3>1. lo + 1 \in 1..(Len(text) + 1) /\ x \in lo..Len(text)
      BY <1>1, <2>2
    <3>2. /\ t \in Seq(Byte) /\ Len(t) = x - (lo + 1) + 1
          /\ \A i \in 1..(x - (lo + 1) + 1) : t[i] = text[(lo + 1) + i - 1]
      BY <1>1, <3>1
    <3> HIDE DEF t
    <3>3. x - (lo + 1) + 1 = x - lo
      BY <2>2
    <3>4. \A i \in Nat : (lo + 1) + i - 1 = lo + i
      OBVIOUS
    <3> QED
      BY <2>2, <3>2, <3>3, <3>4
  <2>5. t \in Seq(0..256)
    BY <2>4 DEF Byte
  <2> HIDE DEF t
  <2>6. s = t
    BY <2>3, <2>4, <2>5, SeqEqual
  <2> QED
    BY <2>6 DEF s, t, x, Bytes
<1>4. syscall_sendv(data(0, Npos)) = text
  <2>1. Npos \in Nat
    BY DEF Npos
  <2>2. Clean(0, Npos)
    <3> SUFFICES ASSUME NEW k \in DOMAIN buffer_
                 PROVE  /\ End(k) <= Npos
                        /\ ~(Begin(k) < 0)
      BY DEF Clean
    <3> QED
      BY <1>1, <2>1, Places
  <2>3. Least(Npos, size) = size
    BY <1>1, <2>1 DEF Least
  <2>4. syscall_sendv(data(0, Npos)) = Bytes(0, size)
    BY <1>1, <1>3, <2>1, <2>2, <2>3
  <2>5. Bytes(0, size) = text
    BY <1>1 DEF Bytes
  <2> QED
    BY <2>4, <2>5
<1>5. ASSUME NEW lo \in 0..size, NEW hi \in lo..size, Clean(lo, hi)
      PROVE  syscall_sendv(data(lo, hi)) = Bytes(lo, hi)
  <2>1. /\ lo \in Nat /\ hi \in Nat /\ lo <= hi /\ lo <= size
        /\ Least(hi, size) = hi
    BY <1>1 DEF Least
  <2> QED
    BY <1>3, <1>5, <2>1
<1> QED
  BY <1>4, <1>5 DEF WindowsSent

-----------------------------------------------------------------------------
(* What a word reads.                                                       *)

\* A byte is the sum of its bits.
BitOf(x, b) == IF (x \div b) % 2 = 1 THEN b ELSE 0

LEMMA BitSum ==
  ASSUME NEW x \in Byte
  PROVE  BitOf(x, 1) + BitOf(x, 2) + BitOf(x, 4) + BitOf(x, 8) + BitOf(x, 16)
           + BitOf(x, 32) + BitOf(x, 64) + BitOf(x, 128) = x
<1>1. x \in Nat /\ x <= 255
  BY DEF Byte
<1>2. x \div 1 = x /\ x \div 256 = 0
  BY <1>1
<1>3. /\ x \div 2 \in Nat /\ x \div 4 \in Nat /\ x \div 8 \in Nat
      /\ x \div 16 \in Nat /\ x \div 32 \in Nat /\ x \div 64 \in Nat
      /\ x \div 128 \in Nat
  BY <1>1
<1>4. \A y \in Nat : y % 2 = 1 \/ y % 2 = 0
  OBVIOUS
<1>5. x = 2 * (x \div 2) + (x % 2)
  BY <1>1
<1>6. x \div 2 = 2 * (x \div 4) + ((x \div 2) % 2)
  BY <1>1
<1>7. x \div 4 = 2 * (x \div 8) + ((x \div 4) % 2)
  BY <1>1
<1>8. x \div 8 = 2 * (x \div 16) + ((x \div 8) % 2)
  BY <1>1
<1>9. x \div 16 = 2 * (x \div 32) + ((x \div 16) % 2)
  BY <1>1
<1>10. x \div 32 = 2 * (x \div 64) + ((x \div 32) % 2)
  BY <1>1
<1>11. x \div 64 = 2 * (x \div 128) + ((x \div 64) % 2)
  BY <1>1
<1>12. x \div 128 = 2 * (x \div 256) + ((x \div 128) % 2)
  BY <1>1
<1>13. /\ BitOf(x, 1) = x % 2 /\ BitOf(x, 2) = 2 * ((x \div 2) % 2)
       /\ BitOf(x, 4) = 4 * ((x \div 4) % 2)
       /\ BitOf(x, 8) = 8 * ((x \div 8) % 2)
       /\ BitOf(x, 16) = 16 * ((x \div 16) % 2)
       /\ BitOf(x, 32) = 32 * ((x \div 32) % 2)
       /\ BitOf(x, 64) = 64 * ((x \div 64) % 2)
       /\ BitOf(x, 128) = 128 * ((x \div 128) % 2)
  BY <1>1, <1>2, <1>3, <1>4 DEF BitOf
<1> QED
  BY <1>1, <1>2, <1>3, <1>5, <1>6, <1>7, <1>8, <1>9, <1>10, <1>11, <1>12, <1>13

\* Bytes that are all zero but one are that one together.
LEMMA OrOne ==
  ASSUME NEW S, NEW x \in Byte, x \in S, \A y \in S : y = x \/ y = 0
  PROVE  Or(S) = x
<1> DEFINE On(b) == IF \E y \in S : (y \div b) % 2 = 1 THEN b ELSE 0
<1>1. ASSUME NEW b \in {1, 2, 4, 8, 16, 32, 64, 128}
      PROVE  On(b) = BitOf(x, b)
  <2>1. (0 \div b) % 2 = 0
    BY <1>1
  <2> QED
    BY <2>1 DEF BitOf
<1>2. Or(S) = On(1) + On(2) + On(4) + On(8) + On(16) + On(32) + On(64) + On(128)
  BY DEF Or
<1> HIDE DEF On
<1> QED
  BY <1>1, <1>2, BitSum

\* A word that fits an int's shifts is read whole, whatever shifts beyond the
\* width give: the bytes they shift are 0, and nothing is sign-extended.
LEMMA ReadNarrow ==
  ASSUME NEW n \in {1, 2, 4, 8}, NEW w \in Seq(Byte), Len(w) = n, Narrow(w),
         NEW Kept \in SUBSET (4..(n - 1))
  PROVE  ReadBytes(w, Kept) = w
<1>1. \A i \in 1..n : w[i] \in Byte /\ n - i \in 0..7
  OBVIOUS
<1>2. ASSUME NEW p \in 1..n
      PROVE  Or({Place(n - i, w[i], n - p, Kept) : i \in 1..n}) = w[p]
  <2>1. ASSUME NEW i \in 1..n
        PROVE  Place(n - i, w[i], n - p, Kept) =
                 IF i = p THEN w[p] ELSE 0
    <3>1. CASE n <= 4
      BY <1>1, <3>1 DEF Place
    <3>2. CASE n = 8
      <4>1. w[5] < 128 /\ \A j \in 1..4 : w[j] = 0
        BY <3>2 DEF Narrow
      <4>2. i <= 4 => w[i] = 0
        BY <3>2, <4>1
      <4>3. CASE i <= 4
        BY <1>1, <3>2, <4>1, <4>2, <4>3 DEF Place
      <4>4. CASE i > 4
        <5>1. n - i \notin Kept /\ n - i <= 3 /\ n - i \in Nat
          BY <1>1, <3>2, <4>4
        <5>2. n - i = 3 => w[i] < 128
          BY <3>2, <4>1
        <5>3. n - i = n - p <=> i = p
          BY <3>2
        <5>4. CASE i = p
          BY <5>1, <5>4 DEF Place
        <5>5. CASE i # p
          <6>1. n - p # n - i
            BY <5>3, <5>5
          <6>2. ~(n - i = 3 /\ w[i] >= 128)
            <7>1. PICK v \in 0..255 : v = w[i]
              BY <1>1 DEF Byte
            <7>2. n - i = 3 => v < 128
              BY <5>2, <7>1
            <7>3. ~(n - i = 3 /\ v >= 128)
              BY <7>2
            <7> QED
              BY <7>1, <7>3
          <6> QED
            BY <5>1, <5>5, <6>1, <6>2 DEF Place
        <5> QED
          BY <5>4, <5>5
      <4> QED
        BY <3>2, <4>3, <4>4
    <3> QED
      BY <3>1, <3>2
  <2> DEFINE S == {Place(n - i, w[i], n - p, Kept) : i \in 1..n}
  <2>2. w[p] \in S /\ \A y \in S : y = w[p] \/ y = 0
    BY <2>1
  <2> HIDE DEF S
  <2>3. Or(S) = w[p]
    BY <1>1, <2>2, OrOne
  <2> QED
    BY <2>3 DEF S
<1>3. ReadBytes(w, Kept) = [p \in 1..n |-> w[p]]
  BY <1>2 DEF ReadBytes
<1> QED
  BY <1>3

LEMMA FcnOfSeq ==
  ASSUME NEW S, NEW n \in Nat, NEW s \in Seq(S), Len(s) = n
  PROVE  s \in [1..n -> S]
  OBVIOUS

LEMMA SeqOfFcn ==
  ASSUME NEW S, NEW n \in Nat, NEW s \in [1..n -> S]
  PROVE  s \in Seq(S) /\ Len(s) = n
  OBVIOUS

\* A word inside of one chunk is inside of the text, and operator[] finds it.
LEMMA WordBytes ==
  ASSUME BInv, NEW index \in 0..(size - 1), NEW n \in {1, 2, 4, 8},
         Fits(index, n)
  PROVE  LET w == Bytes(index, index + n) IN
         /\ w \in Seq(Byte) /\ Len(w) = n
         /\ [i \in 1..n |-> At(index + i - 1)] = w
         /\ Reverse(w) \in Seq(Byte) /\ Len(Reverse(w)) = n
         /\ [i \in 1..n |-> At(index + n - i)] = Reverse(w)
<1> DEFINE w == Bytes(index, index + n)
<1>1. text \in Seq(Byte) /\ size = Len(text) /\ size \in Nat
  <2>1. text = FlattenSeq(buffer_) /\ FlattenSeq(buffer_) \in Seq(Byte)
    BY FlattenType DEF BInv
  <2> QED
    BY <2>1 DEF size
<1>2. index \in Nat /\ index + n <= Len(text)
  <2>1. index \in Nat /\ Holds(index) # {}
    BY <1>1 DEF Fits
  <2>2. First(Holds(index)) \in DOMAIN buffer_
    BY <2>1, HoldsIs
  <2>3. End(First(Holds(index))) \in Nat /\ End(First(Holds(index))) <= size
    BY <2>2, Places
  <2> QED
    BY <1>1, <2>1, <2>3 DEF Fits
<1>3. /\ w \in Seq(Byte) /\ Len(w) = n
      /\ \A i \in 1..n : w[i] = text[index + i]
  BY <1>1, <1>2 DEF Bytes
<1> HIDE DEF w
<1>4. \A j \in 0..(size - 1) : At(j) = text[j + 1]
  BY InvSameBytes DEF SameBytes
<1>5. ASSUME NEW i \in 1..n PROVE At(index + i - 1) = w[i]
  <2>1. index + i - 1 \in 0..(size - 1) /\ (index + i - 1) + 1 = index + i
    BY <1>1, <1>2
  <2> QED
    BY <1>3, <1>4, <2>1
<1>6. [i \in 1..n |-> At(index + i - 1)] = w
  BY <1>3, <1>5
<1>7. ASSUME NEW i \in 1..n
      PROVE  n - i + 1 \in 1..n /\ At(index + n - i) = w[n - i + 1]
  <2>1. n - i + 1 \in 1..n /\ index + (n - i + 1) - 1 = index + n - i
    BY <1>2
  <2>2. At(index + (n - i + 1) - 1) = w[n - i + 1]
    BY <1>5, <2>1
  <2> QED
    BY <2>1, <2>2
<1>8. Reverse(w) = [i \in 1..n |-> w[n - i + 1]]
  BY <1>3 DEF Reverse
<1>9. Reverse(w) \in Seq(Byte) /\ Len(Reverse(w)) = n
  <2>1. n \in Nat /\ \A i \in 1..n : w[n - i + 1] \in Byte
    BY <1>3, <1>7
  <2>2. Reverse(w) \in [1..n -> Byte]
    BY <1>8, <2>1
  <2> QED
    BY <2>1, <2>2, SeqOfFcn
<1> QED
  BY <1>3, <1>6, <1>7, <1>8, <1>9 DEF w

LEMMA InvWordsRead == BInv => WordsRead
<1> SUFFICES ASSUME BInv, NEW index \in 0..(size - 1), NEW n \in {1, 2, 4, 8},
                    Fits(index, n)
             PROVE  LET w == Bytes(index, index + n) IN
                    /\ Narrow(w) => read_big_endian_at(index, n) = {w}
                    /\ Narrow(Reverse(w)) =>
                         read_little_endian_at(index, n) = {Reverse(w)}
  BY DEF WordsRead
<1> DEFINE w == Bytes(index, index + n)
<1>0. /\ w \in Seq(Byte) /\ Len(w) = n
      /\ [i \in 1..n |-> At(index + i - 1)] = w
      /\ Reverse(w) \in Seq(Byte) /\ Len(Reverse(w)) = n
      /\ [i \in 1..n |-> At(index + n - i)] = Reverse(w)
  BY WordBytes
<1> HIDE DEF w
<1>1. ASSUME Narrow(w) PROVE read_big_endian_at(index, n) = {w}
  <2>1. \A Kept \in SUBSET (4..(n - 1)) : ReadBytes(w, Kept) = w
    BY <1>0, <1>1, ReadNarrow
  <2>2. {} \in SUBSET (4..(n - 1))
    OBVIOUS
  <2> QED
    BY <1>0, <2>1, <2>2 DEF read_big_endian_at
<1>2. ASSUME Narrow(Reverse(w))
      PROVE  read_little_endian_at(index, n) = {Reverse(w)}
  <2>1. \A Kept \in SUBSET (4..(n - 1)) : ReadBytes(Reverse(w), Kept) = Reverse(w)
    BY <1>0, <1>2, ReadNarrow
  <2>2. {} \in SUBSET (4..(n - 1))
    OBVIOUS
  <2> QED
    BY <1>0, <2>1, <2>2 DEF read_little_endian_at
<1> QED
  BY <1>1, <1>2 DEF w

\* A byte of a sub-buffer is that of the buffer, or there is none.
LEMMA InvSubbufsRead == BInv => SubbufsRead
<1> SUFFICES ASSUME BInv, NEW from \in 0..(size + 1),
                    NEW count \in 0..(size + 1), NEW index \in 0..(size + 1)
             PROVE  SubbufAt(from, from + count, index) =
                      IF index < count /\ from + index < size
                      THEN <<text[from + index + 1]>> ELSE <<>>
  BY DEF SubbufsRead
<1>1. size \in Nat /\ size = Len(text)
  <2>1. FlattenSeq(buffer_) \in Seq(Byte)
    BY FlattenType DEF BInv
  <2> QED
    BY <2>1 DEF size, BInv
<1>2. /\ from \in Nat /\ count \in Nat /\ index \in Nat
      /\ from + index \in Nat /\ (from + count) - from = count
  BY <1>1
<1>3. CASE from + index < size
  <2>1. At(from + index) = text[from + index + 1]
    <3>1. from + index \in 0..(size - 1)
      BY <1>1, <1>2, <1>3
    <3> QED
      BY <3>1, InvSameBytes DEF SameBytes
  <2>2. Holds(from + index) # {}
    BY <1>2, <1>3, HoldsAll
  <2> QED
    BY <1>2, <1>3, <2>1, <2>2 DEF SubbufAt
<1>4. CASE ~(from + index < size)
  <2>1. Holds(from + index) = {}
    <3> SUFFICES ASSUME NEW k \in DOMAIN buffer_, End(k) > from + index
                 PROVE  FALSE
      BY DEF Holds
    <3>1. End(k) \in Nat /\ End(k) <= size
      BY Places
    <3> QED
      BY <1>1, <1>2, <1>4, <3>1
  <2> QED
    BY <1>4, <2>1 DEF SubbufAt
<1> QED
  BY <1>3, <1>4

\* A whole buffer, of no more bytes than a size_t counts and not made of a
\* span, is sent byte by byte, however its bytes are cut into chunks; so is
\* every sub-buffer that begins with a chunk no longer than itself, or inside
\* of the first chunk.  A word that fits an int's shifts is read as it stands,
\* in either order, and so is each byte of a sub-buffer.
THEOREM BufferRead == BufferSpec => [](Spans = {} /\ size <= Npos => Reads)
<1>1. BufferInit => (Spans = {} => BInv)
  BY BufferInitInv
<1>2. (Spans = {} => BInv) /\ [BufferNext]_bufferVars => (Spans = {} => BInv)'
  BY BufferNextInv
<1>3. (Spans = {} => BInv) => (Spans = {} /\ size <= Npos => Reads)
  BY InvWindowsSent, InvWordsRead, InvSubbufsRead DEF Reads
<1> QED
  BY <1>1, <1>2, <1>3, PTL DEF BufferSpec

-----------------------------------------------------------------------------
(* The order of addresses.                                                  *)

LEMMA BelowTail ==
  ASSUME NEW n \in Nat, NEW a \in [1..n -> Nat], NEW b \in [1..n -> Nat],
         \A i \in 1..n : a[i] <= b[i]
  PROVE  Below(a, b)
<1>1. CASE \A i \in 1..n : a[i] = b[i]
  BY <1>1 DEF Below
<1>2. CASE \E i \in 1..n : a[i] # b[i]
  <2> DEFINE T == {i \in 1..n : a[i] # b[i]}
  <2>1. PICK m \in T : \A j \in T : m <= j
    <3>1. T \in SUBSET Nat /\ T # {}
      BY <1>2
    <3> HIDE DEF T
    <3> QED
      BY <3>1, LeastIn
  <2>2. a[m] < b[m]
    <3>1. m \in 1..n /\ a[m] # b[m]
      BY <2>1
    <3>2. a[m] \in Nat /\ b[m] \in Nat /\ a[m] <= b[m]
      BY <3>1
    <3> QED
      BY <3>1, <3>2
  <2>3. \A j \in 1..(m - 1) : a[j] = b[j]
    BY <2>1
  <2> QED
    BY <2>2, <2>3 DEF Below
<1> QED
  BY <1>1, <1>2

LEMMA BelowHead ==
  ASSUME NEW n \in Nat, NEW a \in [1..n -> Nat], NEW b \in [1..n -> Nat],
         NEW k \in 1..n, \A j \in 1..(k - 1) : a[j] = b[j], a[k] # b[k]
  PROVE  Below(a, b) <=> a[k] < b[k]
<1>1. a[k] < b[k] => Below(a, b)
  BY DEF Below
<1>2. ASSUME Below(a, b) PROVE a[k] < b[k]
  <2>1. PICK i \in 1..n : a[i] < b[i] /\ \A j \in 1..(i - 1) : a[j] = b[j]
    BY <1>2 DEF Below
  <2>2. i <= k
    BY <2>1
  <2>3. i >= k
    <3> SUFFICES ASSUME i < k PROVE FALSE
      OBVIOUS
    <3>1. i \in 1..(k - 1)
      OBVIOUS
    <3>2. a[i] = b[i] /\ a[i] \in Nat
      BY <3>1
    <3> QED
      BY <2>1, <3>2
  <2>4. i = k
    BY <2>2, <2>3
  <2> QED
    BY <2>1, <2>4
<1> QED
  BY <1>1, <1>2

\* The leading bytes s, filled up to n with the byte v.
LEMMA Padded ==
  ASSUME NEW n \in Nat, NEW v \in Nat, NEW s \in Seq(Nat), Len(s) <= n,
         NEW t, t = [i \in 1..(n - Len(s)) |-> v]
  PROVE  /\ s \o t \in [1..n -> Nat]
         /\ \A i \in 1..Len(s) : (s \o t)[i] = s[i]
         /\ \A i \in (Len(s) + 1)..n : (s \o t)[i] = v
<1> DEFINE m == n - Len(s)
           u == s \o t
<1>1. m \in Nat /\ n = Len(s) + m /\ Len(s) \in Nat
  OBVIOUS
<1>2. t \in Seq(Nat) /\ Len(t) = m /\ \A i \in 1..m : t[i] = v
  BY <1>1
<1>3. /\ u \in Seq(Nat) /\ Len(u) = n
      /\ \A i \in 1..Len(s) : u[i] = s[i]
      /\ \A i \in (Len(s) + 1)..n : u[i] = t[i - Len(s)]
  BY <1>1, <1>2
<1>4. \A i \in (Len(s) + 1)..n : i - Len(s) \in 1..m
  BY <1>1
<1> HIDE DEF u
<1>5. u \in [1..n -> Nat]
  BY <1>3
<1> QED
  BY <1>2, <1>3, <1>4, <1>5 DEF u

\* The addresses with the leading bytes s lie between s filled up with zeros
\* and s filled up with ones; the others lie below or above both, as the first
\* byte in which they differ says.
Low(n, s) == s \o [i \in 1..(n - Len(s)) |-> 0]
High(n, s) == s \o All(n - Len(s))
LEMMA Leading ==
  ASSUME NEW n \in Nat, NEW a \in [1..n -> Nat], \A i \in 1..n : a[i] <= 255,
         NEW s \in Seq(Nat), Len(s) <= n
  PROVE  /\ (\A i \in 1..Len(s) : a[i] = s[i]) =>
              Below(Low(n, s), a) /\ Below(a, High(n, s))
         /\ \A k \in 1..Len(s) :
              a[k] # s[k] /\ (\A i \in 1..(k - 1) : a[i] = s[i]) =>
                /\ Below(Low(n, s), a) <=> s[k] < a[k]
                /\ Below(a, High(n, s)) <=> a[k] < s[k]
<1> DEFINE lo == Low(n, s)
           hi == High(n, s)
<1>1. lo \in [1..n -> Nat] /\ hi \in [1..n -> Nat]
  <2>1. lo \in [1..n -> Nat]
    BY Padded DEF Low
  <2>2. hi \in [1..n -> Nat]
    <3>1. All(n - Len(s)) = [i \in 1..(n - Len(s)) |-> 255] /\ 255 \in Nat
      BY DEF All
    <3>2. s \o All(n - Len(s)) \in [1..n -> Nat]
      BY <3>1, Padded
    <3> QED
      BY <3>2 DEF High
  <2> QED
    BY <2>1, <2>2
<1>2. \A i \in 1..Len(s) : lo[i] = s[i] /\ hi[i] = s[i]
  BY Padded DEF Low, High, All
<1>3. \A i \in (Len(s) + 1)..n : lo[i] = 0 /\ hi[i] = 255
  BY Padded DEF Low, High, All
<1> HIDE DEF lo, hi
<1>4. Len(s) \in Nat
  OBVIOUS
<1>5. ASSUME \A i \in 1..Len(s) : a[i] = s[i]
      PROVE  Below(lo, a) /\ Below(a, hi)
  <2>1. ASSUME NEW i \in 1..n PROVE lo[i] <= a[i] /\ a[i] <= hi[i]
    <3>1. CASE i \in 1..Len(s)
      BY <1>2, <1>5, <3>1
    <3>2. CASE i \in (Len(s) + 1)..n
      BY <1>3, <3>2
    <3> QED
      BY <1>4, <3>1, <3>2
  <2>2. (\A i \in 1..n : lo[i] <= a[i]) /\ (\A i \in 1..n : a[i] <= hi[i])
    BY <2>1
  <2>3. Below(lo, a)
    BY <1>1, <2>2, BelowTail
  <2>4. Below(a, hi)
    BY <1>1, <2>2, BelowTail
  <2> QED
    BY <2>3, <2>4
<1>6. ASSUME NEW k \in 1..Len(s), a[k] # s[k],
             \A i \in 1..(k - 1) : a[i] = s[i]
      PROVE  /\ Below(lo, a) <=> s[k] < a[k]
             /\ Below(a, hi) <=> a[k] < s[k]
  <2>1. k \in 1..n /\ \A i \in 1..(k - 1) : i \in 1..Len(s)
    BY <1>4
  <2>2. lo[k] = s[k] /\ hi[k] = s[k] /\ lo[k] # a[k] /\ a[k] # hi[k]
    BY <1>2, <1>6
  <2>3. \A i \in 1..(k - 1) : lo[i] = a[i]
    BY <1>2, <1>6, <2>1
  <2>4. \A i \in 1..(k - 1) : a[i] = hi[i]
    BY <1>2, <1>6, <2>1
  <2>5. Below(lo, a) <=> lo[k] < a[k]
    BY <1>1, <2>1, <2>2, <2>3, BelowHead
  <2>6. Below(a, hi) <=> a[k] < hi[k]
    BY <1>1, <2>1, <2>2, <2>4, BelowHead
  <2> QED
    BY <2>2, <2>5, <2>6
<1> QED
  BY <1>5, <1>6 DEF lo, hi

LEMMA InBlock1 ==
  ASSUME NEW n \in Nat, n >= 2,
         NEW a \in [1..n -> Nat], \A i \in 1..n : a[i] <= 255,
         NEW x \in Nat, NEW y \in Nat
  PROVE  Block(a, <<x>>, <<y>>) <=> x <= a[1] /\ a[1] <= y
<1>2. a[1] \in Nat
  OBVIOUS
<1>3. Len(a) = n
  OBVIOUS
<1>4. Block(a, <<x>>, <<y>>) <=>
         Below(Low(n, <<x>>), a) /\ Below(a, High(n, <<y>>))
  BY <1>3 DEF Block, Between, Low, High
<1>5. ASSUME NEW z \in Nat
      PROVE  /\ a[1] = z => Below(Low(n, <<z>>), a) /\ Below(a, High(n, <<z>>))
             /\ a[1] # z => /\ Below(Low(n, <<z>>), a) <=> z < a[1]
                            /\ Below(a, High(n, <<z>>)) <=> a[1] < z
  <2> DEFINE s == <<z>>
  <2>1. s \in Seq(Nat) /\ Len(s) = 1 /\ s[1] = z
    OBVIOUS
  <2> HIDE DEF s
  <2>2. /\ 1 \in 1..Len(s) /\ Len(s) <= n
        /\ \A i \in 1..(1 - 1) : a[i] = s[i]
        /\ a[1] = z => \A i \in 1..Len(s) : a[i] = s[i]
    BY <2>1
  <2>3. CASE a[1] = z
    BY <2>1, <2>2, <2>3, Leading DEF s
  <2>4. CASE a[1] # z
    <3>1. a[1] # s[1]
      BY <2>1, <2>4
    <3>2. /\ Below(Low(n, s), a) <=> s[1] < a[1]
          /\ Below(a, High(n, s)) <=> a[1] < s[1]
      BY <2>1, <2>2, <3>1, Leading
    <3> QED
      BY <2>1, <2>4, <3>2 DEF s
  <2> QED
    BY <2>3, <2>4
<1> QED
  BY <1>2, <1>4, <1>5

LEMMA InBlock2 ==
  ASSUME NEW n \in Nat, n >= 2,
         NEW a \in [1..n -> Nat], \A i \in 1..n : a[i] <= 255,
         NEW w \in Nat, NEW x \in Nat, NEW y \in Nat
  PROVE  Block(a, <<w, x>>, <<w, y>>) <=> a[1] = w /\ x <= a[2] /\ a[2] <= y
<1>2. a[1] \in Nat /\ a[2] \in Nat
  OBVIOUS
<1>3. Len(a) = n
  OBVIOUS
<1>4. Block(a, <<w, x>>, <<w, y>>) <=>
         Below(Low(n, <<w, x>>), a) /\ Below(a, High(n, <<w, y>>))
  BY <1>3 DEF Block, Between, Low, High
<1>5. ASSUME NEW z \in Nat
      PROVE  /\ a[1] = w /\ a[2] = z =>
                  Below(Low(n, <<w, z>>), a) /\ Below(a, High(n, <<w, z>>))
             /\ a[1] # w => /\ Below(Low(n, <<w, z>>), a) <=> w < a[1]
                            /\ Below(a, High(n, <<w, z>>)) <=> a[1] < w
             /\ a[1] = w /\ a[2] # z =>
                            /\ Below(Low(n, <<w, z>>), a) <=> z < a[2]
                            /\ Below(a, High(n, <<w, z>>)) <=> a[2] < z
  <2> DEFINE s == <<w, z>>
  <2>1. s \in Seq(Nat) /\ Len(s) = 2 /\ s[1] = w /\ s[2] = z
    OBVIOUS
  <2> HIDE DEF s
  <2>2. 1 \in 1..Len(s) /\ 2 \in 1..Len(s) /\ Len(s) <= n
    BY <2>1
  <2>3. CASE a[1] = w /\ a[2] = z
    <3>1. \A i \in 1..Len(s) : a[i] = s[i]
      BY <2>1, <2>3
    <3> QED
      BY <2>1, <2>2, <2>3, <3>1, Leading DEF s
  <2>4. CASE a[1] # w
    <3>1. a[1] # s[1] /\ \A i \in 1..(1 - 1) : a[i] = s[i]
      BY <2>1, <2>4
    <3>2. /\ Below(Low(n, s), a) <=> s[1] < a[1]
          /\ Below(a, High(n, s)) <=> a[1] < s[1]
      BY <2>1, <2>2, <3>1, Leading
    <3> QED
      BY <2>1, <2>4, <3>2 DEF s
  <2>5. CASE a[1] = w /\ a[2] # z
    <3>1. a[2] # s[2] /\ \A i \in 1..(2 - 1) : a[i] = s[i]
      BY <2>1, <2>5
    <3>2. /\ Below(Low(n, s), a) <=> s[2] < a[2]
          /\ Below(a, High(n, s)) <=> a[2] < s[2]
      BY <2>1, <2>2, <3>1, Leading
    <3> QED
      BY <2>1, <2>5, <3>2 DEF s
  <2> QED
    BY <2>3, <2>4, <2>5
<1> QED
  BY <1>2, <1>4, <1>5

\* Two addresses each of which is below the other are the same.
LEMMA BelowBoth ==
  ASSUME NEW n \in Nat, NEW a \in [1..n -> Nat], NEW b \in [1..n -> Nat],
         Below(a, b), Below(b, a)
  PROVE  a = b
<1> SUFFICES ASSUME a # b PROVE FALSE
  OBVIOUS
<1>1. PICK i \in 1..n : a[i] < b[i] /\ \A j \in 1..(i - 1) : a[j] = b[j]
  BY DEF Below
<1>2. PICK k \in 1..n : b[k] < a[k] /\ \A j \in 1..(k - 1) : b[j] = a[j]
  BY DEF Below
<1>3. a[i] # b[i] /\ a[k] # b[k]
  BY <1>1, <1>2
<1>4. ~(i < k) /\ ~(k < i)
  BY <1>1, <1>2, <1>3
<1> QED
  BY <1>1, <1>2, <1>4

LEMMA InBlockExact ==
  ASSUME NEW n \in Nat, NEW a \in [1..n -> Nat], NEW c \in [1..n -> Nat]
  PROVE  Block(a, c, c) <=> a = c
<1>1. Len(a) = n /\ Len(c) = n /\ c \in Seq(Nat)
  OBVIOUS
<1>2. c \o [i \in 1..(n - n) |-> 0] = c
  BY <1>1
<1>3. c \o All(n - n) = c
  BY <1>1 DEF All
<1>4. Block(a, c, c) <=> Below(c, a) /\ Below(a, c)
  BY <1>1, <1>2, <1>3 DEF Block, Between
<1>5. Below(a, a)
  BY DEF Below
<1> QED
  BY <1>4, <1>5, BelowBoth

-----------------------------------------------------------------------------
(* The queries.                                                             *)

\* The sixteen bytes of an ip, and the four of which a v4 address consists.
LEMMA IpBytes ==
  ASSUME NEW ip \in [1..16 -> Octets]
  PROVE  /\ ip \in [1..16 -> Nat] /\ \A i \in 1..16 : ip[i] <= 255
         /\ SubSeq(ip, 1, 4) \in [1..4 -> Octets]
         /\ SubSeq(ip, 1, 4) \in [1..4 -> Nat]
         /\ \A i \in 1..4 : /\ SubSeq(ip, 1, 4)[i] = ip[i]
                           /\ SubSeq(ip, 1, 4)[i] <= 255
<1>1. Octets \subseteq Nat /\ \A o \in Octets : o <= 255
  BY DEF Octets
<1>2. ip \in [1..16 -> Nat] /\ \A i \in 1..16 : ip[i] <= 255
  BY <1>1
<1>3. ip \in Seq(Octets) /\ Len(ip) = 16
  BY SeqOfFcn
<1>4. /\ SubSeq(ip, 1, 4) \in Seq(Octets) /\ Len(SubSeq(ip, 1, 4)) = 4
      /\ \A i \in 1..4 : SubSeq(ip, 1, 4)[i] = ip[i]
  BY <1>3
<1>5. SubSeq(ip, 1, 4) \in [1..4 -> Octets]
  BY <1>4, FcnOfSeq
<1>6. SubSeq(ip, 1, 4) \in [1..4 -> Nat]
  BY <1>1, <1>5
<1> QED
  BY <1>2, <1>4, <1>5, <1>6

\* Two bytes compared at once, as the shifts of the code do.
LEMMA TwoBytes ==
  ASSUME NEW x \in Nat, NEW y \in Nat, x <= 255, y <= 255
  PROVE  /\ x * 256 + y = 169 * 256 + 254 <=> x = 169 /\ y = 254
         /\ x * 256 + y = 192 * 256 + 168 <=> x = 192 /\ y = 168
         /\ x * 16 + y \div 16 = 172 * 16 + 1 <=>
              x = 172 /\ 16 <= y /\ y <= 31
         /\ x * 4 + y \div 64 = 100 * 4 + 1 <=>
              x = 100 /\ 64 <= y /\ y <= 127
         /\ y \div 64 = 2 <=> 128 <= y /\ y <= 191
  OBVIOUS

LEMMA PrivateV4 ==
  ASSUME NEW a \in Addresses, a.family = AF_INET
  PROVE  is_private(a) <=> PrivateBlocks(AF_INET, Member(AF_INET, a.ip))
<1> DEFINE m == SubSeq(a.ip, 1, 4)
<1>1. a.ip \in [1..16 -> Octets]
  BY DEF Addresses
<1>2. /\ m \in [1..4 -> Nat] /\ \A i \in 1..4 : m[i] <= 255
      /\ \A i \in 1..4 : m[i] = a.ip[i]
  BY <1>1, IpBytes
<1> HIDE DEF m
<1>3. /\ m[1] \in Nat /\ m[2] \in Nat /\ m[1] <= 255 /\ m[2] <= 255
      /\ a.ip[1] = m[1] /\ a.ip[2] = m[2]
  BY <1>2
<1>4. PrivateBlocks(AF_INET, m) <=>
        \/ m[1] = 10
        \/ m[1] = 100 /\ 64 <= m[2] /\ m[2] <= 127
        \/ m[1] = 127
        \/ m[1] = 169 /\ m[2] = 254
        \/ m[1] = 172 /\ 16 <= m[2] /\ m[2] <= 31
        \/ m[1] = 192 /\ m[2] = 168
  <2>1. 4 \in Nat /\ 4 >= 2
    OBVIOUS
  <2>2. \A x \in Nat : Block(m, <<x>>, <<x>>) <=> m[1] = x
    <3> TAKE x \in Nat
    <3>1. Block(m, <<x>>, <<x>>) <=> x <= m[1] /\ m[1] <= x
      BY <1>2, <2>1, InBlock1
    <3> QED
      BY <1>3, <3>1
  <2>3. \A w, x, y \in Nat :
          Block(m, <<w, x>>, <<w, y>>) <=> m[1] = w /\ x <= m[2] /\ m[2] <= y
    BY <1>2, <2>1, InBlock2
  <2>4. \A w, x \in Nat :
          Block(m, <<w, x>>, <<w, x>>) <=> m[1] = w /\ m[2] = x
    <3> TAKE w, x \in Nat
    <3>1. Block(m, <<w, x>>, <<w, x>>) <=> m[1] = w /\ x <= m[2] /\ m[2] <= x
      BY <2>3
    <3> QED
      BY <1>3, <3>1
  <2> QED
    BY <2>2, <2>3, <2>4 DEF PrivateBlocks
<1>5. is_linklocal(a) <=> m[1] = 169 /\ m[2] = 254
  BY <1>3, TwoBytes DEF is_linklocal, AF_INET, AF_INET6
<1>6. is_loopback(a) <=> m[1] = 127
  BY <1>3 DEF is_loopback, AF_INET, AF_INET6
<1>7. is_private_network(a) <=> \/ m[1] = 10
                                \/ m[1] = 172 /\ 16 <= m[2] /\ m[2] <= 31
                                \/ m[1] = 192 /\ m[2] = 168
  BY <1>3, TwoBytes DEF is_private_network, AF_INET, AF_INET6
<1>8. is_shared_network(a) <=> m[1] = 100 /\ 64 <= m[2] /\ m[2] <= 127
  BY <1>3, TwoBytes DEF is_shared_network
<1>9. Member(AF_INET, a.ip) = m
  BY DEF Member, m
<1> QED
  BY <1>4, <1>5, <1>6, <1>7, <1>8, <1>9 DEF is_private

LEMMA PrivateV6 ==
  ASSUME NEW a \in Addresses, a.family = AF_INET6
  PROVE  is_private(a) <=> PrivateBlocks(AF_INET6, Member(AF_INET6, a.ip))
<1> DEFINE m == a.ip
           one == [i \in 1..16 |-> i \div 16]
<1>1. m \in [1..16 -> Nat] /\ \A i \in 1..16 : m[i] <= 255
  <2>1. a.ip \in [1..16 -> Octets]
    BY DEF Addresses
  <2> QED
    BY <2>1, IpBytes
<1> HIDE DEF m
<1>2. m[1] \in Nat /\ m[2] \in Nat /\ m[1] <= 255 /\ m[2] <= 255
  BY <1>1
<1>3. one = [i \in 1..16 |-> IF i = 16 THEN 1 ELSE 0] /\ one \in [1..16 -> Nat]
  <2>1. \A i \in 1..16 : i \div 16 = IF i = 16 THEN 1 ELSE 0
    OBVIOUS
  <2> QED
    BY <2>1
<1> HIDE DEF one
<1>4. PrivateBlocks(AF_INET6, m) <=>
        \/ m = one
        \/ m[1] = 254 /\ 128 <= m[2] /\ m[2] <= 191
        \/ m[1] = 253
  <2>1. PICK n \in Nat : n = 16
    OBVIOUS
  <2>2. /\ m \in [1..n -> Nat] /\ one \in [1..n -> Nat] /\ n >= 2
        /\ \A i \in 1..n : m[i] <= 255
    BY <1>1, <1>3, <2>1
  <2>3. Block(m, one, one) <=> m = one
    BY <2>2, InBlockExact
  <2>4. \A w, x, y \in Nat :
          Block(m, <<w, x>>, <<w, y>>) <=> m[1] = w /\ x <= m[2] /\ m[2] <= y
    BY <2>2, InBlock2
  <2>5. Block(m, <<253>>, <<253>>) <=> 253 <= m[1] /\ m[1] <= 253
    BY <2>2, InBlock1
  <2> QED
    BY <1>2, <2>3, <2>4, <2>5 DEF PrivateBlocks, AF_INET, AF_INET6, one
<1>5. is_linklocal(a) <=> m[1] = 254 /\ 128 <= m[2] /\ m[2] <= 191
  BY <1>2, TwoBytes DEF is_linklocal, AF_INET, AF_INET6, m
<1>6. is_loopback(a) <=> m = one
  BY <1>3 DEF is_loopback, AF_INET, AF_INET6, m
<1>7. is_private_network(a) <=> m[1] = 253
  BY DEF is_private_network, AF_INET, AF_INET6, m
<1>8. ~is_shared_network(a)
  BY DEF is_shared_network, AF_INET, AF_INET6
<1>9. Member(AF_INET6, a.ip) = m
  BY DEF Member, m, AF_INET, AF_INET6
<1> QED
  BY <1>4, <1>5, <1>6, <1>7, <1>8, <1>9 DEF is_private

-----------------------------------------------------------------------------
(* The way of an address.                                                   *)

\* The ip an address is read by is the one meant, and its port has been
\* swapped once for every hop.
AInv ==
    /\ addr \in Addresses /\ meant \in Addresses /\ hops \in Nat
    /\ addr.family \in Families /\ addr.family = meant.family =>
         Member(addr.family, addr.ip) = Member(meant.family, meant.ip)
    /\ addr.port = IF hops % 2 = 0 THEN meant.port ELSE htons(meant.port)

LEMMA HtonsTwice ==
  ASSUME NEW p \in [1..2 -> Octets]
  PROVE  htons(p) \in [1..2 -> Octets] /\ htons(htons(p)) = p
<1>1. htons(p)[1] = p[2] /\ htons(p)[2] = p[1]
  BY DEF htons
<1>2. \A q \in [1..2 -> Octets] : q = <<q[1], q[2]>>
  OBVIOUS
<1> QED
  BY <1>1, <1>2 DEF htons

LEMMA OverType ==
  ASSUME NEW ip \in [1..16 -> Octets], NEW k \in Nat, k <= 16,
         NEW new \in [1..k -> Octets]
  PROVE  /\ Over(ip, new) \in [1..16 -> Octets]
         /\ \A i \in 1..k : Over(ip, new)[i] = new[i]
  BY DEF Over

LEMMA MadeType ==
  ASSUME NEW f \in Families \union {-1}, NEW pt \in [1..2 -> Octets],
         NEW k \in Nat, k <= 16, NEW ip \in [1..k -> Octets]
  PROVE  Made(f, pt, ip) \in Addresses
<1>1. Zeros16 \in [1..16 -> Octets]
  BY DEF Zeros16, Octets
<1>2. Over(Zeros16, ip) \in [1..16 -> Octets]
  BY <1>1, OverType
<1> QED
  BY <1>2 DEF Made, Addresses

\* What the other end reads of a storage: the member of the union that the
\* family names.
LEMMA Hop ==
  ASSUME NEW a \in Addresses, a.family \in Families
  PROVE  /\ from_storage(to_storage(a)) \in Addresses
         /\ from_storage(to_storage(a)).family = a.family
         /\ from_storage(to_storage(a)).port = htons(a.port)
         /\ Member(a.family, from_storage(to_storage(a)).ip)
              = Member(a.family, a.ip)
<1> DEFINE m == Member(a.family, a.ip)
           b == from_storage(to_storage(a))
<1>1. a.port \in [1..2 -> Octets] /\ a.ip \in [1..16 -> Octets]
  BY DEF Addresses
<1>2. PICK k \in {4, 16} : /\ k = IF a.family = AF_INET THEN 4 ELSE 16
                           /\ m \in [1..k -> Octets]
  <2>1. CASE a.family = AF_INET
    <3>1. m \in [1..4 -> Octets]
      BY <1>1, <2>1, IpBytes DEF Member
    <3> QED
      BY <2>1, <3>1
  <2>2. CASE a.family # AF_INET
    BY <1>1, <2>2 DEF Member
  <2> QED
    BY <2>1, <2>2
<1>3. b = Made(a.family, htons(a.port), m)
  BY DEF from_storage, to_storage
<1>4. b \in Addresses
  <2>1. k \in Nat /\ k <= 16 /\ a.family \in Families \union {-1}
    BY <1>2
  <2>2. htons(a.port) \in [1..2 -> Octets]
    BY <1>1, HtonsTwice
  <2> QED
    BY <1>2, <1>3, <2>1, <2>2, MadeType
<1> HIDE DEF m
<1>5. b.family = a.family /\ b.port = htons(a.port) /\ b.ip = Over(Zeros16, m)
  BY <1>3 DEF Made
<1>6. b.ip \in [1..16 -> Octets] /\ \A i \in 1..k : b.ip[i] = m[i]
  <2>1. Zeros16 \in [1..16 -> Octets]
    BY DEF Zeros16, Octets
  <2> QED
    BY <1>2, <1>5, <2>1, OverType
<1>7. Member(a.family, b.ip) = m
  <2> HIDE DEF b
  <2>1. CASE a.family = AF_INET
    <3>1. /\ SubSeq(b.ip, 1, 4) \in [1..4 -> Octets]
          /\ \A i \in 1..4 : SubSeq(b.ip, 1, 4)[i] = b.ip[i]
      BY <1>6, IpBytes
    <3> QED
      BY <1>2, <1>6, <2>1, <3>1 DEF Member
  <2>2. CASE a.family # AF_INET
    BY <1>2, <1>6, <2>2 DEF Member
  <2> QED
    BY <2>1, <2>2
<1> QED
  BY <1>4, <1>5, <1>7 DEF m

LEMMA AddressInitInv == AddressInit => AInv
<1> SUFFICES ASSUME AddressInit PROVE AInv
  OBVIOUS
<1>1. /\ <<0, 0>> \in [1..2 -> Octets] /\ <<>> \in [1..0 -> Octets]
      /\ -1 \in Families \union {-1} /\ 0 \in Nat /\ 0 <= 16
  BY DEF Octets
<1>2. Made(-1, <<0, 0>>, <<>>) \in Addresses
  BY <1>1, MadeType
<1>3. addr \in Addresses /\ meant = addr
  BY <1>2 DEF AddressInit
<1> QED
  BY <1>3 DEF AddressInit, AInv

LEMMA AddressNextInv == AInv /\ [AddressNext]_addressVars => AInv'
<1> SUFFICES ASSUME AInv, [AddressNext]_addressVars PROVE AInv'
  OBVIOUS
<1>1. \A f \in Families : \A ip \in IpOf[f] :
        \E k \in Nat : k <= 16 /\ ip \in [1..k -> Octets]
  <2>1. /\ V4 \subseteq [1..4 -> Octets] /\ V6 \subseteq [1..16 -> Octets]
        /\ 4 \in Nat /\ 4 <= 16 /\ 16 \in Nat /\ 16 <= 16
    BY AddressAssumption DEF Octets
  <2>2. \A f \in Families : IpOf[f] = V4 \/ IpOf[f] = V6
    BY DEF IpOf
  <2> QED
    BY <2>1, <2>2
<1>2. Ports \subseteq [1..2 -> Octets]
  BY AddressAssumption DEF Octets
<1>3. \A f \in Families : \A ip \in IpOf[f] : \A pt \in [1..2 -> Octets] :
        Made(f, pt, ip) \in Addresses /\ Made(AF_INET, pt, ip) \in Addresses
  <2> SUFFICES ASSUME NEW f \in Families, NEW ip \in IpOf[f],
                      NEW pt \in [1..2 -> Octets]
               PROVE  /\ Made(f, pt, ip) \in Addresses
                      /\ Made(AF_INET, pt, ip) \in Addresses
    OBVIOUS
  <2>1. PICK k \in Nat : k <= 16 /\ ip \in [1..k -> Octets]
    BY <1>1
  <2>2. f \in Families \union {-1} /\ AF_INET \in Families \union {-1}
    BY DEF Families
  <2> QED
    BY <2>1, <2>2, MadeType
<1>4. ASSUME NEW f \in Families, NEW ip \in IpOf[f], NEW pt \in Ports,
             Construct(f, pt, ip)
      PROVE  AInv'
  BY <1>2, <1>3, <1>4 DEF Construct, AInv
<1>5. ASSUME NEW f \in Families, NEW ip \in IpOf[f], NEW pt \in Ports,
             FromSockaddr(f, pt, ip)
      PROVE  AInv'
  <2>1. addr' \in Addresses /\ meant' \in Addresses /\ hops' = 1
    BY <1>2, <1>3, <1>5, HtonsTwice DEF FromSockaddr
  <2>2. addr'.port = htons(meant'.port) /\ addr'.ip = meant'.ip
    BY <1>5 DEF FromSockaddr, Made
  <2> QED
    BY <2>1, <2>2 DEF AInv
<1>6. ASSUME NEW f \in Families, NEW ip \in IpOf[f], set_ip(f, ip)
      PROVE  AInv'
  <2>1. Over(addr.ip, ip) \in [1..16 -> Octets]
    <3>1. addr.ip \in [1..16 -> Octets]
      BY DEF AInv, Addresses
    <3>2. PICK k \in Nat : k <= 16 /\ ip \in [1..k -> Octets]
      BY <1>1
    <3> QED
      BY <3>1, <3>2, OverType
  <2>2. /\ addr' = [family |-> addr.family, port |-> addr.port,
                    ip |-> Over(addr.ip, ip)]
        /\ meant' = [family |-> f, port |-> meant.port,
                     ip |-> Over(addr.ip, ip)]
        /\ hops' = hops
    BY <1>6 DEF set_ip, AInv, Addresses
  <2> QED
    BY <2>1, <2>2 DEF AInv, Addresses
<1>7. ASSUME NEW pt \in Ports, set_port(pt)
      PROVE  AInv'
  BY <1>2, <1>7 DEF set_port, AInv, Addresses
<1>8. CASE Travel
  <2>1. /\ addr' = from_storage(to_storage(addr)) /\ addr.family \in Families
        /\ hops' = hops + 1 /\ meant' = meant /\ addr \in Addresses
    BY <1>8 DEF Travel, AInv
  <2>2. /\ addr' \in Addresses /\ addr'.family = addr.family
        /\ addr'.port = htons(addr.port)
        /\ Member(addr.family, addr'.ip) = Member(addr.family, addr.ip)
    BY <2>1, Hop
  <2>3. addr'.port = IF hops' % 2 = 0 THEN meant.port ELSE htons(meant.port)
    <3>1. meant.port \in [1..2 -> Octets] /\ hops \in Nat
      BY DEF AInv, Addresses
    <3>2. (hops + 1) % 2 = 0 <=> hops % 2 # 0
      BY <3>1
    <3> QED
      BY <2>1, <2>2, <3>1, <3>2, HtonsTwice DEF AInv
  <2> QED
    BY <2>1, <2>2, <2>3 DEF AInv
<1>9. CASE UNCHANGED addressVars
  BY <1>9 DEF addressVars, AInv
<1> QED
  BY <1>4, <1>5, <1>6, <1>7, <1>8, <1>9 DEF AddressNext

LEMMA InvDelivers == AInv => Delivered
<1> SUFFICES ASSUME AInv, addr.family \in Families, addr.family = meant.family
             PROVE  /\ is_private(addr) <=>
                         PrivateBlocks(meant.family,
                                       Member(meant.family, meant.ip))
                    /\ to_storage(addr).ip = Member(meant.family, meant.ip)
                    /\ hops % 2 = 0 =>
                         to_storage(addr).port = htons(meant.port)
  BY DEF Delivered
<1>1. Member(addr.family, addr.ip) = Member(meant.family, meant.ip)
  BY DEF AInv
<1>2. is_private(addr) <=> PrivateBlocks(addr.family,
                                         Member(addr.family, addr.ip))
  <2>1. addr \in Addresses
    BY DEF AInv
  <2> QED
    BY <2>1, PrivateV4, PrivateV6 DEF Families
<1>3. to_storage(addr).ip = Member(addr.family, addr.ip)
  BY DEF to_storage
<1>4. hops % 2 = 0 => to_storage(addr).port = htons(meant.port)
  BY DEF to_storage, AInv
<1> QED
  BY <1>1, <1>2, <1>3, <1>4

\* Whatever its ip and port, and however often an address goes through a
\* sockaddr, it names the host that was meant as long as its family is right,
\* with the port that was meant after an even number of times, and it is
\* private exactly if it lies in a private block.
THEOREM AddressDelivered == AddressSpec => []Delivered
<1>1. AddressInit => AInv
  BY AddressInitInv
<1>2. AInv /\ [AddressNext]_addressVars => AInv'
  BY AddressNextInv
<1>3. AInv => Delivered
  BY InvDelivers
<1> QED
  BY <1>1, <1>2, <1>3, PTL DEF AddressSpec
=============================================================================
