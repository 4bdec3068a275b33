--------------------------- MODULE ChannelProofs ---------------------------
(***************************************************************************)
(* Proofs about Channel, for every set of receivers, senders and contexts: *)
(* values meet calls in order, Channel implements ChannelSpec, no routine  *)
(* finds a null handle on one context, and nothing sent or called is lost. *)
(***************************************************************************)
EXTENDS Channel, QueueLemmas, TLAPS

-----------------------------------------------------------------------------
(* Queues that hold consecutive numbers.                                    *)

\* s holds first, first + 1, ... in this order.
Consecutive(s, first) == \A i \in 1..Len(s) : s[i] = first + (i - 1)

LEMMA ConsecutiveAppend ==
  ASSUME NEW S, NEW s \in Seq(S), NEW first \in Nat, NEW e \in S,
         Consecutive(s, first), e = first + Len(s)
  PROVE  /\ Append(s, e) \in Seq(S) /\ Len(Append(s, e)) = Len(s) + 1
         /\ Append(s, e) # <<>>
         /\ Consecutive(Append(s, e), first)
<1>1. /\ Append(s, e) \in Seq(S) /\ Len(Append(s, e)) = Len(s) + 1
      /\ \A i \in 1..Len(s) : Append(s, e)[i] = s[i]
      /\ Append(s, e)[Len(s) + 1] = e
      /\ Len(s) \in Nat
  OBVIOUS
<1>2. \A i \in 1..(Len(s) + 1) : i \in 1..Len(s) \/ i = Len(s) + 1
  BY <1>1
<1>3. Consecutive(Append(s, e), first)
  BY <1>1, <1>2 DEF Consecutive
<1>4. Append(s, e) # <<>>
  BY <1>1
<1> QED
  BY <1>1, <1>3, <1>4

LEMMA ConsecutiveTail ==
  ASSUME NEW S, NEW s \in Seq(S), NEW first \in Nat, s # <<>>,
         Consecutive(s, first)
  PROVE  /\ Head(s) \in S /\ Head(s) = first
         /\ Tail(s) \in Seq(S) /\ Len(Tail(s)) = Len(s) - 1
         /\ Consecutive(Tail(s), first + 1)
<1>1. /\ Len(s) \in Nat \ {0} /\ Head(s) = s[1] /\ Head(s) \in S
      /\ Tail(s) \in Seq(S) /\ Len(Tail(s)) = Len(s) - 1
      /\ \A i \in 1..(Len(s) - 1) : Tail(s)[i] = s[i + 1]
  OBVIOUS
<1>2. Head(s) = first
  BY <1>1 DEF Consecutive
<1>3. \A i \in 1..(Len(s) - 1) : Tail(s)[i] = (first + 1) + (i - 1)
  <2> TAKE i \in 1..(Len(s) - 1)
  <2>1. i + 1 \in 1..Len(s) /\ i \in Nat
    BY <1>1
  <2>2. s[i + 1] = first + ((i + 1) - 1)
    BY <2>1 DEF Consecutive
  <2> QED
    BY <1>1, <2>1, <2>2
<1> QED
  BY <1>1, <1>2, <1>3 DEF Consecutive

-----------------------------------------------------------------------------
(* The inductive invariant.                                                 *)

\* The two deques: at most one is not empty, and they hold the sends, or the
\* calls, that have no partner yet.
Shape ==
    /\ ready_values_ = <<>> \/ pending_tasks_ = <<>>
    /\ nsent + Len(pending_tasks_) = ncalled + Len(ready_values_)
    /\ Consecutive(ready_values_, ncalled + 1)
    /\ Consecutive(pending_tasks_, nsent + 1)

\* What is spawned, or about to be, has its result; what was yielded is the
\* call's own value.
Yields ==
    /\ phase = "spawn" => matched \in Calls /\ result[matched] # 0
    /\ \A c \in Contexts : \A i \in 1..Len(runq[c]) : result[runq[c][i]] # 0
    /\ \A r \in Receivers : rstate[r] \in {"called", "checked", "suspended"}
                              => rcall[r] \in Calls
    /\ \A k \in Calls : got[k] \in {0, k}

IInv == TypeOK /\ Shape /\ MatchInOrder /\ Yields

LEMMA InitInv == Init => IInv
<1> SUFFICES ASSUME Init PROVE IInv
  OBVIOUS
<1>1. TypeOK
  <2>1. /\ <<>> \in Seq(1..MaxSends) /\ <<>> \in Seq(Calls)
        /\ 0 \in 0..MaxSends /\ 0 \in 0..MaxCalls
    BY ChannelAssumption
  <2>2. /\ nsent \in 0..MaxSends /\ ncalled \in 0..MaxCalls
        /\ ready_values_ \in Seq(1..MaxSends) /\ pending_tasks_ \in Seq(Calls)
        /\ mtx_ \in Places \union {NoOne} /\ matched \in 0..MaxCalls
        /\ phase \in {"none", "spawn", "drop", "join"}
    BY <2>1 DEF Init
  <2>3. /\ caller \in [Calls -> Receivers \union {NoOne}]
        /\ result \in [Calls -> 0..MaxSends]
        /\ handle \in [Calls -> BOOLEAN]
        /\ got \in [Calls -> 0..MaxSends]
    BY <2>1 DEF Init
  <2>4. /\ rstate \in [Receivers -> {"idle", "locking", "called", "checked",
                                     "suspended"}]
        /\ rcall \in [Receivers -> 0..MaxCalls]
        /\ on \in [Places -> Receivers \union {NoOne, Sending}]
        /\ runq \in [Contexts -> Seq(Calls)]
        /\ owned \in SUBSET Contexts
        /\ ctx \in [Contexts -> {"live", "expired", "gone"}]
        /\ crash \in {"no", "null_resume", "self_join"}
    BY <2>1 DEF Init
  <2> QED
    BY <2>2, <2>3, <2>4 DEF TypeOK
<1>2. Shape
  BY DEF Init, Shape, Consecutive
<1>3. MatchInOrder
  BY DEF Init, MatchInOrder, Calls
<1>4. Yields
  BY DEF Init, Yields
<1> QED
  BY <1>1, <1>2, <1>3, <1>4 DEF IInv

\* A send() that finds no waiting recv().
LEMMA SendQueuesInv ==
  ASSUME IInv, NEW p \in Places, SendQueues(p)
  PROVE  IInv'
<1> USE ChannelAssumption DEF SendQueues, senderVars, taskVars, receiverVars,
                              contextVars
<1>1. /\ nsent \in Nat /\ ncalled \in Nat /\ nsent + 1 \in 1..MaxSends
      /\ ready_values_ \in Seq(1..MaxSends)
      /\ nsent = ncalled + Len(ready_values_) /\ Len(ready_values_) \in Nat
  BY DEF IInv, TypeOK, Shape
<1>2. /\ ready_values_' \in Seq(1..MaxSends)
      /\ Len(ready_values_') = Len(ready_values_) + 1
      /\ Consecutive(ready_values_', ncalled + 1)
  BY <1>1, ConsecutiveAppend DEF IInv, Shape
<1>3. TypeOK'
  BY <1>1, <1>2 DEF IInv, TypeOK
<1>4. Shape'
  BY <1>1, <1>2 DEF IInv, Shape, Consecutive
<1>5. MatchInOrder'
  BY <1>1 DEF IInv, MatchInOrder, Calls
<1>6. Yields'
  BY DEF IInv, Yields
<1> QED
  BY <1>3, <1>4, <1>5, <1>6 DEF IInv

\* A send() that finds the oldest waiting recv(), resumed or not.
LEMMA SendPairsInv ==
  ASSUME IInv, NEW p \in Places, SendToNobody(p) \/ SendMatches(p)
  PROVE  IInv'
<1> DEFINE k == Head(pending_tasks_)
<1>1. /\ nsent < MaxSends /\ nsent' = nsent + 1 /\ pending_tasks_ # <<>>
      /\ result' = [result EXCEPT ![k] = nsent + 1]
      /\ pending_tasks_' = Tail(pending_tasks_)
      /\ UNCHANGED <<ncalled, ready_values_, caller, handle, got, rstate,
                     rcall, runq, owned, ctx, crash>>
  BY DEF SendToNobody, SendMatches, receiverVars, contextVars
<1>2. /\ nsent \in Nat /\ ncalled \in Nat /\ nsent + 1 \in 1..MaxSends
      /\ pending_tasks_ \in Seq(Calls)
      /\ ready_values_ = <<>> /\ nsent + Len(pending_tasks_) = ncalled
  <2>1. nsent \in Nat /\ ncalled \in Nat /\ nsent + 1 \in 1..MaxSends
    BY <1>1, ChannelAssumption DEF IInv, TypeOK
  <2>2. pending_tasks_ \in Seq(Calls)
    BY DEF IInv, TypeOK
  <2>3. ready_values_ = <<>> /\ Len(ready_values_) = 0
    BY <1>1 DEF IInv, Shape
  <2>4. nsent + Len(pending_tasks_) = ncalled
    BY <2>1, <2>3 DEF IInv, Shape
  <2> QED
    BY <2>1, <2>2, <2>3, <2>4
<1>3. /\ k \in Calls /\ k = nsent + 1
      /\ pending_tasks_' \in Seq(Calls)
      /\ Len(pending_tasks_') = Len(pending_tasks_) - 1
      /\ Consecutive(pending_tasks_', nsent + 2)
  BY <1>1, <1>2, ConsecutiveTail DEF IInv, Shape
<1>4. TypeOK'
  <2>1. result' \in [Calls -> 0..MaxSends] /\ nsent' \in 0..MaxSends
    BY <1>1, <1>2 DEF IInv, TypeOK
  <2>2. CASE SendToNobody(p)
    BY <1>1, <1>3, <2>1, <2>2 DEF IInv, TypeOK, SendToNobody, senderVars
  <2>3. CASE SendMatches(p)
    <3>1. /\ mtx_' \in Places \union {NoOne} /\ matched' \in 0..MaxCalls
          /\ phase' = "spawn" /\ on' = on
      BY <2>3, <1>3 DEF SendMatches, Calls
    <3> QED
      BY <1>1, <1>3, <2>1, <3>1 DEF IInv, TypeOK
  <2> QED
    BY <2>2, <2>3
<1>5. Shape'
  <2>1. ready_values_' = <<>> /\ Len(ready_values_') = 0
    BY <1>1, <1>2
  <2>2. nsent' + 1 = nsent + 2 /\ Len(pending_tasks_) \in Nat
    BY <1>1, <1>2
  <2>3. nsent' + Len(pending_tasks_') = ncalled' + Len(ready_values_')
    BY <1>1, <1>2, <1>3, <2>1, <2>2
  <2>4. Consecutive(pending_tasks_', nsent' + 1)
    BY <1>3, <2>2
  <2>5. Consecutive(ready_values_', ncalled' + 1)
    BY <2>1 DEF Consecutive
  <2> QED
    BY <2>1, <2>3, <2>4, <2>5 DEF Shape
<1>6. MatchInOrder'
  <2> SUFFICES ASSUME NEW j \in Calls
               PROVE  result'[j] = IF j <= nsent' /\ j <= ncalled' THEN j ELSE 0
    BY DEF MatchInOrder
  <2>1. result[j] = IF j <= nsent /\ j <= ncalled THEN j ELSE 0
    BY DEF IInv, MatchInOrder
  <2>2. Len(pending_tasks_) \in Nat \ {0}
    BY <1>1, <1>2
  <2>3. result'[j] = IF j = nsent + 1 THEN nsent + 1 ELSE result[j]
    BY <1>1, <1>3 DEF IInv, TypeOK
  <2> QED
    BY <1>1, <1>2, <2>1, <2>2, <2>3 DEF Calls
<1>7. Yields'
  <2>1. \A j \in Calls : result[j] # 0 => result'[j] # 0
    BY <1>1, <1>2 DEF IInv, TypeOK
  <2>2. result'[k] # 0
    BY <1>1, <1>2, <1>3 DEF IInv, TypeOK
  <2>3. phase' = "spawn" => matched' \in Calls /\ result'[matched'] # 0
    <3>1. CASE SendToNobody(p)
      BY <3>1, <2>1 DEF SendToNobody, senderVars, IInv, Yields
    <3>2. CASE SendMatches(p)
      BY <3>2, <2>2, <1>3 DEF SendMatches
    <3> QED
      BY <3>1, <3>2
  <2>4. \A c \in Contexts : \A i \in 1..Len(runq[c]) : runq[c][i] \in Calls
    BY DEF IInv, TypeOK
  <2> QED
    BY <1>1, <2>1, <2>3, <2>4 DEF IInv, Yields
<1> QED
  BY <1>4, <1>5, <1>6, <1>7 DEF IInv

\* recv(), whether a value is ready or not.
LEMMA RecvInv ==
  ASSUME IInv, NEW r \in Receivers, recv(r)
  PROVE  IInv'
<1>1. /\ ncalled < MaxCalls /\ ncalled' = ncalled + 1
      /\ caller' = [caller EXCEPT ![ncalled + 1] = r]
      /\ rcall' = [rcall EXCEPT ![r] = ncalled + 1]
      /\ rstate' = [rstate EXCEPT ![r] = "called"]
      /\ UNCHANGED <<nsent, mtx_, phase, matched, handle, got, on, runq,
                     owned, ctx, crash>>
  BY DEF recv, senderVars, contextVars
<1>2. /\ nsent \in Nat /\ ncalled \in Nat /\ ncalled + 1 \in Calls
      /\ pending_tasks_ \in Seq(Calls) /\ ready_values_ \in Seq(1..MaxSends)
      /\ ncalled + 1 \in 0..MaxCalls /\ nsent <= MaxSends
      /\ Len(ready_values_) \in Nat /\ Len(pending_tasks_) \in Nat
  BY <1>1, ChannelAssumption DEF IInv, TypeOK, Calls
<1>3. /\ ready_values_' \in Seq(1..MaxSends) /\ pending_tasks_' \in Seq(Calls)
      /\ Shape'
      /\ result' = IF ncalled < nsent
                     THEN [result EXCEPT ![ncalled + 1] = ncalled + 1]
                     ELSE result
  <2>1. CASE ready_values_ = <<>>
    <3>1. /\ pending_tasks_' = Append(pending_tasks_, ncalled + 1)
          /\ UNCHANGED <<ready_values_, result>>
      BY <2>1 DEF recv
    <3>2. ncalled + 1 = (nsent + 1) + Len(pending_tasks_)
      BY <1>2, <2>1 DEF IInv, Shape
    <3>3. /\ pending_tasks_' \in Seq(Calls)
          /\ Len(pending_tasks_') = Len(pending_tasks_) + 1
          /\ Consecutive(pending_tasks_', nsent + 1)
      BY <1>2, <3>1, <3>2, ConsecutiveAppend DEF IInv, Shape
    <3>4. Shape'
      BY <1>1, <1>2, <2>1, <3>1, <3>2, <3>3 DEF Shape, Consecutive
    <3> QED
      BY <1>2, <2>1, <3>1, <3>2, <3>3, <3>4
  <2>2. CASE ready_values_ # <<>>
    <3>1. /\ result' = [result EXCEPT ![ncalled + 1] = Head(ready_values_)]
          /\ ready_values_' = Tail(ready_values_)
          /\ UNCHANGED pending_tasks_
      BY <2>2 DEF recv
    <3>2. pending_tasks_ = <<>> /\ nsent = ncalled + Len(ready_values_)
      BY <1>2, <2>2 DEF IInv, Shape
    <3>3. /\ Head(ready_values_) = ncalled + 1
          /\ ready_values_' \in Seq(1..MaxSends)
          /\ Len(ready_values_') = Len(ready_values_) - 1
          /\ Consecutive(ready_values_', (ncalled + 1) + 1)
      BY <1>2, <2>2, <3>1, ConsecutiveTail DEF IInv, Shape
    <3>4. Shape'
      BY <1>1, <1>2, <3>1, <3>2, <3>3 DEF Shape, Consecutive
    <3>5. ncalled < nsent
      BY <1>2, <2>2, <3>2
    <3> QED
      BY <1>2, <3>1, <3>2, <3>3, <3>4, <3>5
  <2> QED
    BY <2>1, <2>2
<1>4. TypeOK'
  <2>1. result' \in [Calls -> 0..MaxSends]
    <3>1. ncalled < nsent => ncalled + 1 \in 0..MaxSends
      BY <1>2, ChannelAssumption
    <3> QED
      BY <1>3, <3>1 DEF IInv, TypeOK
  <2>2. /\ caller' \in [Calls -> Receivers \union {NoOne}]
        /\ rcall' \in [Receivers -> 0..MaxCalls]
        /\ rstate' \in [Receivers -> {"idle", "locking", "called", "checked",
                                      "suspended"}]
    BY <1>1, <1>2 DEF IInv, TypeOK
  <2> QED
    BY <1>1, <1>2, <1>3, <2>1, <2>2 DEF IInv, TypeOK
<1>5. MatchInOrder'
  <2> SUFFICES ASSUME NEW j \in Calls
               PROVE  result'[j] = IF j <= nsent' /\ j <= ncalled' THEN j ELSE 0
    BY DEF MatchInOrder
  <2>1. result[j] = IF j <= nsent /\ j <= ncalled THEN j ELSE 0
    BY DEF IInv, MatchInOrder
  <2>2. result'[j] = IF j = ncalled + 1 /\ ncalled < nsent
                       THEN ncalled + 1 ELSE result[j]
    BY <1>2, <1>3 DEF IInv, TypeOK
  <2> QED
    BY <1>1, <1>2, <2>1, <2>2 DEF Calls
<1>6. Yields'
  <2>1. \A j \in Calls : result[j] # 0 => result'[j] # 0
    BY <1>2, <1>3 DEF IInv, TypeOK
  <2>2. \A c \in Contexts : \A i \in 1..Len(runq[c]) : runq[c][i] \in Calls
    BY DEF IInv, TypeOK
  <2>3. \A q \in Receivers : rstate'[q] \in {"called", "checked", "suspended"}
                               => rcall'[q] \in Calls
    BY <1>1, <1>2 DEF IInv, TypeOK, Yields
  <2> QED
    BY <1>1, <2>1, <2>2, <2>3 DEF IInv, Yields
<1> QED
  BY <1>3, <1>4, <1>5, <1>6 DEF IInv

\* The value a call yields is its own.
LEMMA ResumedValue ==
  ASSUME IInv, NEW k \in Calls, result[k] # 0
  PROVE  result[k] = k /\ k \in 1..MaxSends /\ k <= nsent /\ k <= ncalled
  BY ChannelAssumption DEF IInv, TypeOK, MatchInOrder, Calls

LEMMA AwaitInv ==
  ASSUME IInv, NEW r \in Receivers,
         AwaitReady(r) \/ AwaitNotReady(r) \/ await_suspend(r)
  PROVE  IInv'
<1>1. Shape' /\ MatchInOrder'
  BY DEF AwaitReady, AwaitNotReady, await_suspend, queueVars, taskVars, IInv,
         Shape, Consecutive, MatchInOrder
<1>2. rcall[r] \in Calls
  BY DEF IInv, Yields, AwaitReady, AwaitNotReady, await_suspend
<1>3. CASE AwaitReady(r)
  <2>1. result[rcall[r]] = rcall[r] /\ rcall[r] \in 1..MaxSends
    BY <1>2, <1>3, ResumedValue DEF AwaitReady
  <2>2. /\ got' \in [Calls -> 0..MaxSends]
        /\ \A k \in Calls : got'[k] \in {0, k}
    BY <1>2, <1>3, <2>1 DEF AwaitReady, await_resume, IInv, TypeOK, Yields
  <2>3. TypeOK'
    <3>1. /\ rstate' = [rstate EXCEPT ![r] = "idle"]
          /\ rcall' = [rcall EXCEPT ![r] = 0]
          /\ on' = [on EXCEPT ![CtxOf[r]] = NoOne]
      BY <1>3 DEF AwaitReady, await_resume
    <3>2. /\ rstate' \in [Receivers -> {"idle", "locking", "called",
                                        "checked", "suspended"}]
          /\ rcall' \in [Receivers -> 0..MaxCalls]
          /\ on' \in [Places -> Receivers \union {NoOne, Sending}]
      <4>1. 0 \in 0..MaxCalls /\ CtxOf[r] \in Places
        BY ChannelAssumption
      <4>2. rstate' \in [Receivers -> {"idle", "locking", "called",
                                       "checked", "suspended"}]
        BY <3>1 DEF IInv, TypeOK
      <4>3. rcall' \in [Receivers -> 0..MaxCalls]
        BY <3>1, <4>1 DEF IInv, TypeOK
      <4>4. on' \in [Places -> Receivers \union {NoOne, Sending}]
        BY <3>1, <4>1 DEF IInv, TypeOK
      <4> QED
        BY <4>2, <4>3, <4>4
    <3>3. UNCHANGED <<nsent, ncalled, ready_values_, pending_tasks_, mtx_,
                      phase, matched, caller, result, handle, runq, owned,
                      ctx, crash>>
      BY <1>3 DEF AwaitReady, queueVars, senderVars, contextVars
    <3> QED
      BY <2>2, <3>2, <3>3 DEF IInv, TypeOK
  <2>4. Yields'
    BY <1>3, <2>2 DEF AwaitReady, await_resume, IInv, TypeOK, Yields,
       senderVars
  <2> QED
    BY <1>1, <2>3, <2>4 DEF IInv
<1>4. CASE AwaitNotReady(r)
  <2>1. TypeOK'
    BY <1>4 DEF AwaitNotReady, IInv, TypeOK, queueVars, senderVars, taskVars,
       contextVars
  <2>2. Yields'
    BY <1>4 DEF AwaitNotReady, IInv, TypeOK, Yields, senderVars, taskVars
  <2> QED
    BY <1>1, <2>1, <2>2 DEF IInv
<1>5. CASE await_suspend(r)
  <2>1. TypeOK'
    BY <1>5 DEF await_suspend, IInv, TypeOK, queueVars, senderVars,
       contextVars
  <2>2. Yields'
    BY <1>5 DEF await_suspend, IInv, TypeOK, Yields, senderVars
  <2> QED
    BY <1>1, <2>1, <2>2 DEF IInv
<1> QED
  BY <1>3, <1>4, <1>5

LEMMA ResumeInv ==
  ASSUME IInv, NEW c \in Contexts, Resume(c)
  PROVE  IInv'
<1> DEFINE k == Head(runq[c])
<1>1. Shape' /\ MatchInOrder'
  BY DEF Resume, queueVars, IInv, Shape, Consecutive, MatchInOrder
<1>2. /\ k \in Calls /\ result[k] # 0
      /\ Tail(runq[c]) \in Seq(Calls)
      /\ \A i \in 1..Len(Tail(runq[c])) : result[Tail(runq[c])[i]] # 0
  <2>1. runq[c] \in Seq(Calls) /\ runq[c] # <<>>
    BY DEF Resume, IInv, TypeOK
  <2>2. /\ Len(runq[c]) \in Nat \ {0} /\ k = runq[c][1] /\ k \in Calls
        /\ Tail(runq[c]) \in Seq(Calls)
        /\ Len(Tail(runq[c])) = Len(runq[c]) - 1
        /\ \A i \in 1..(Len(runq[c]) - 1) : Tail(runq[c])[i] = runq[c][i + 1]
    BY <2>1
  <2>3. \A i \in 1..Len(runq[c]) : result[runq[c][i]] # 0
    BY DEF IInv, Yields
  <2>4. \A i \in 1..(Len(runq[c]) - 1) : i + 1 \in 1..Len(runq[c])
    BY <2>2
  <2> QED
    BY <2>2, <2>3, <2>4
<1>3. result[k] = k /\ k \in 1..MaxSends
  BY <1>2, ResumedValue
<1>4. runq' = [runq EXCEPT ![c] = Tail(runq[c])]
  BY DEF Resume
<1>5. /\ runq' \in [Contexts -> Seq(Calls)]
      /\ \A d \in Contexts : \A i \in 1..Len(runq'[d]) : result[runq'[d][i]] # 0
  <2>1. \A d \in Contexts : runq'[d] = IF d = c THEN Tail(runq[c]) ELSE runq[d]
    BY <1>4 DEF IInv, TypeOK
  <2> QED
    BY <1>2, <1>4, <2>1 DEF IInv, TypeOK, Yields
<1>6. /\ got' \in [Calls -> 0..MaxSends]
      /\ \A j \in Calls : got'[j] \in {0, j}
  <2>1. got' = got \/ got' = [got EXCEPT ![k] = k]
    BY <1>3 DEF Resume, await_resume
  <2> QED
    BY <1>2, <1>3, <2>1 DEF IInv, TypeOK, Yields
<1>7. /\ rstate' \in [Receivers -> {"idle", "locking", "called", "checked",
                                    "suspended"}]
      /\ rcall' \in [Receivers -> 0..MaxCalls]
      /\ crash' \in {"no", "null_resume", "self_join"}
      /\ \A r \in Receivers : rstate'[r] \in {"called", "checked", "suspended"}
                                => rcall'[r] \in Calls
  <2>1. \/ /\ rstate' = [rstate EXCEPT ![caller[k]] = "idle"]
           /\ rcall' = [rcall EXCEPT ![caller[k]] = 0]
           /\ crash' = crash
        \/ /\ UNCHANGED <<rstate, rcall>>
           /\ crash' = "null_resume"
    BY DEF Resume, await_resume, receiverVars
  <2>2. 0 \in 0..MaxCalls
    BY ChannelAssumption
  <2>3. /\ rstate \in [Receivers -> {"idle", "locking", "called", "checked",
                                     "suspended"}]
        /\ rcall \in [Receivers -> 0..MaxCalls]
        /\ crash \in {"no", "null_resume", "self_join"}
    BY DEF IInv, TypeOK
  <2>4. \A r \in Receivers : rstate[r] \in {"called", "checked", "suspended"}
                               => rcall[r] \in Calls
    BY DEF IInv, Yields
  <2>5. CASE /\ rstate' = [rstate EXCEPT ![caller[k]] = "idle"]
             /\ rcall' = [rcall EXCEPT ![caller[k]] = 0]
             /\ crash' = crash
    <3>1. /\ rstate' \in [Receivers -> {"idle", "locking", "called",
                                        "checked", "suspended"}]
          /\ rcall' \in [Receivers -> 0..MaxCalls]
      BY <2>2, <2>3, <2>5
    <3>2. \A r \in Receivers : rstate'[r] \in {"called", "checked", "suspended"}
                                 => rcall'[r] \in Calls
      BY <2>3, <2>4, <2>5
    <3> QED
      BY <2>3, <2>5, <3>1, <3>2
  <2>6. CASE UNCHANGED <<rstate, rcall>> /\ crash' = "null_resume"
    BY <2>3, <2>4, <2>6
  <2> QED
    BY <2>1, <2>5, <2>6
<1>8. TypeOK'
  BY <1>5, <1>6, <1>7 DEF Resume, IInv, TypeOK, queueVars, senderVars,
     contextVars
<1>9. Yields'
  BY <1>5, <1>6, <1>7 DEF Resume, IInv, Yields, senderVars
<1> QED
  BY <1>1, <1>8, <1>9 DEF IInv

\* The rest of send() and the life of contexts touch neither queues nor
\* results.
LEMMA SendEndsInv ==
  ASSUME IInv, SendSpawns \/ SendDrops \/ SendDestroys \/ SendJoins
  PROVE  IInv'
<1>1. Shape' /\ MatchInOrder'
  BY DEF SendSpawns, SendDrops, SendDestroys, SendJoins, queueVars, taskVars,
         IInv, Shape, Consecutive, MatchInOrder
<1>2. CASE SendSpawns
  <2> DEFINE h == HomeOf(matched)
  <2>1. matched \in Calls /\ result[matched] # 0
    BY <1>2 DEF SendSpawns, IInv, Yields
  <2>2. \A c \in Contexts :
          /\ runq[c] \in Seq(Calls)
          /\ runq'[c] = IF c = h THEN Append(runq[c], matched) ELSE runq[c]
    BY <1>2 DEF SendSpawns, IInv, TypeOK
  <2>3. runq' \in [Contexts -> Seq(Calls)]
    <3>1. \A c \in Contexts : runq'[c] \in Seq(Calls)
      <4> TAKE c \in Contexts
      <4>1. runq[c] \in Seq(Calls) /\ Append(runq[c], matched) \in Seq(Calls)
        BY <2>1, <2>2
      <4> QED
        BY <2>2, <4>1
    <3>2. runq' = [c \in Contexts |-> runq'[c]]
      BY <1>2 DEF SendSpawns, IInv, TypeOK
    <3> QED
      BY <3>1, <3>2
  <2>4. \A c \in Contexts : \A i \in 1..Len(runq'[c]) : result[runq'[c][i]] # 0
    <3> SUFFICES ASSUME NEW c \in Contexts
                 PROVE  \A i \in 1..Len(runq'[c]) : result[runq'[c][i]] # 0
      OBVIOUS
    <3>1. CASE c # h
      BY <2>2, <3>1 DEF IInv, Yields
    <3>2. CASE c = h
      <4>1. /\ Len(runq'[c]) = Len(runq[c]) + 1 /\ Len(runq[c]) \in Nat
            /\ \A i \in 1..Len(runq[c]) : runq'[c][i] = runq[c][i]
            /\ runq'[c][Len(runq[c]) + 1] = matched
        <5>1. runq[c] \in Seq(Calls) /\ runq'[c] = Append(runq[c], matched)
          BY <2>2, <3>2
        <5> QED
          BY <5>1, <2>1
      <4>2. \A i \in 1..(Len(runq[c]) + 1) :
              i \in 1..Len(runq[c]) \/ i = Len(runq[c]) + 1
        BY <4>1
      <4>3. \A i \in 1..Len(runq[c]) : result[runq[c][i]] # 0
        BY DEF IInv, Yields
      <4> QED
        BY <4>1, <4>2, <4>3, <2>1
    <3> QED
      BY <3>1, <3>2
  <2>5. TypeOK'
    BY <1>2, <2>3 DEF SendSpawns, IInv, TypeOK, queueVars, taskVars,
       receiverVars, contextVars
  <2>6. Yields'
    BY <1>2, <2>4 DEF SendSpawns, IInv, Yields, taskVars, receiverVars
  <2> QED
    BY <1>1, <2>5, <2>6 DEF IInv
<1>3. CASE SendDrops \/ SendJoins
  <2>1. TypeOK'
    <3>1. /\ mtx_' \in Places \union {NoOne} /\ phase' = "none"
          /\ matched' \in 0..MaxCalls
      BY <1>3, ChannelAssumption DEF SendDrops, SendJoins, SendReturns
    <3>2. on' \in [Places -> Receivers \union {NoOne, Sending}]
      BY <1>3 DEF SendDrops, SendJoins, SendReturns, IInv, TypeOK
    <3>3. owned' = owned /\ ctx' \in [Contexts -> {"live", "expired", "gone"}]
      BY <1>3 DEF SendDrops, SendJoins, IInv, TypeOK, contextVars
    <3> QED
      BY <1>3, <3>1, <3>2, <3>3
         DEF SendDrops, SendJoins, IInv, TypeOK, queueVars, taskVars,
             receiverVars
  <2>2. Yields'
    BY <1>3 DEF SendDrops, SendJoins, SendReturns, IInv, Yields, taskVars,
       receiverVars
  <2> QED
    BY <1>1, <2>1, <2>2 DEF IInv
<1>4. CASE SendDestroys
  <2>1. TypeOK'
    BY <1>4 DEF SendDestroys, IInv, TypeOK, queueVars, taskVars, receiverVars
  <2>2. Yields'
    BY <1>4 DEF SendDestroys, IInv, Yields, taskVars, receiverVars
  <2> QED
    BY <1>1, <2>1, <2>2 DEF IInv
<1> QED
  BY <1>2, <1>3, <1>4

LEMMA BeginInv ==
  ASSUME IInv, Begin \/ (\E c \in Contexts : Join(c)) \/ UNCHANGED vars
  PROVE  IInv'
<1> USE DEF IInv, Shape, Consecutive, MatchInOrder, Yields, queueVars,
            senderVars, taskVars, receiverVars, contextVars
<1>1. ASSUME NEW p \in Places, BeginSend(p)
      PROVE  IInv'
  BY <1>1 DEF BeginSend, TypeOK
<1>2. ASSUME NEW r \in Receivers, BeginRecv(r)
      PROVE  IInv'
  BY <1>2 DEF BeginRecv, TypeOK
<1>3. ASSUME NEW c \in Contexts, Release(c) \/ Join(c)
      PROVE  IInv'
  <2>1. ctx' \in [Contexts -> {"live", "expired", "gone"}]
    BY <1>3 DEF Release, Join, TypeOK
  <2>2. owned' \in SUBSET Contexts
    BY <1>3 DEF Release, Join, TypeOK
  <2>3. TypeOK'
    BY <1>3, <2>1, <2>2 DEF Release, Join, TypeOK
  <2>4. Shape' /\ MatchInOrder' /\ Yields'
    BY <1>3 DEF Release, Join
  <2> QED
    BY <2>3, <2>4
<1>4. CASE UNCHANGED vars
  BY <1>4 DEF vars, TypeOK
<1> QED
  BY <1>1, <1>2, <1>3, <1>4, ChannelAssumption DEF Begin

LEMMA NextInv == IInv /\ [Next]_vars => IInv'
<1> SUFFICES ASSUME IInv, [Next]_vars PROVE IInv'
  OBVIOUS
<1>1. CASE Sender
  BY <1>1, SendQueuesInv, SendPairsInv, SendEndsInv DEF Sender
<1>2. ASSUME NEW r \in Receivers, Receiver(r)
      PROVE  IInv'
  BY <1>2, RecvInv, AwaitInv DEF Receiver
<1>3. ASSUME NEW c \in Contexts, Context(c)
      PROVE  IInv'
  BY <1>3, ResumeInv, BeginInv DEF Context
<1>4. CASE Begin \/ Quiet \/ UNCHANGED vars
  BY <1>4, BeginInv DEF Quiet
<1> QED
  BY <1>1, <1>2, <1>3, <1>4 DEF Next

\* The inductive invariant holds in every reachable state.
THEOREM Invariance == Spec => []IInv
  BY InitInv, NextInv, PTL DEF Spec

\* Every variable keeps its type: no queue ever holds a value that was not
\* sent or a call that was not made.
THEOREM TypeCorrect == Spec => []TypeOK
<1>1. IInv => TypeOK
  BY DEF IInv
<1> QED
  BY <1>1, Invariance, PTL

\* The k-th recv() meets the k-th send(), whoever sends and receives
\* (channel.h:14-44).
THEOREM InOrder == Spec => []MatchInOrder
<1>1. IInv => MatchInOrder
  BY DEF IInv
<1> QED
  BY <1>1, Invariance, PTL

-----------------------------------------------------------------------------
(* Channel implements ChannelSpec.                                          *)

\* Yielding result[k] is a step of ChannelSpec, or none if it was yielded
\* before.
LEMMA YieldRefines ==
  ASSUME IInv, NEW k \in Calls, result[k] # 0,
         got' = [got EXCEPT ![k] = result[k]],
         UNCHANGED <<nsent, ncalled>>
  PROVE  Abstract!Next \/ UNCHANGED Abstract!vars
<1>1. result[k] = k /\ k <= nsent /\ k <= ncalled
  BY ResumedValue
<1>2. got \in [Calls -> 0..MaxSends] /\ got[k] \in {0, k}
  BY DEF IInv, TypeOK, Yields
<1>3. CASE got[k] = 0
  BY <1>1, <1>3 DEF Abstract!Next, Abstract!Yield, Calls
<1>4. CASE got[k] = k
  <2>1. got' = got
    BY <1>1, <1>2, <1>4
  <2> QED
    BY <2>1 DEF Abstract!vars
<1> QED
  BY <1>2, <1>3, <1>4

LEMMA StepRefines == IInv /\ [Next]_vars => [Abstract!Next]_Abstract!vars
<1> SUFFICES ASSUME IInv, [Next]_vars
             PROVE  Abstract!Next \/ UNCHANGED Abstract!vars
  OBVIOUS
<1>1. ASSUME NEW p \in Places,
             SendQueues(p) \/ SendToNobody(p) \/ SendMatches(p)
      PROVE  Abstract!Next
  BY <1>1 DEF SendQueues, SendToNobody, SendMatches, taskVars, Abstract!Next,
     Abstract!Send
<1>2. ASSUME NEW r \in Receivers, recv(r)
      PROVE  Abstract!Next
  BY <1>2 DEF recv, Abstract!Next, Abstract!Recv
<1>3. ASSUME NEW r \in Receivers, AwaitReady(r)
      PROVE  Abstract!Next \/ UNCHANGED Abstract!vars
  <2>1. rcall[r] \in Calls
    BY <1>3 DEF AwaitReady, IInv, Yields
  <2> QED
    BY <1>3, <2>1, YieldRefines DEF AwaitReady, await_resume, queueVars
<1>4. ASSUME NEW c \in Contexts, Resume(c)
      PROVE  Abstract!Next \/ UNCHANGED Abstract!vars
  <2> DEFINE k == Head(runq[c])
  <2>1. k \in Calls /\ result[k] # 0
    <3>1. runq[c] \in Seq(Calls) /\ runq[c] # <<>>
      BY <1>4 DEF Resume, IInv, TypeOK
    <3>2. k = runq[c][1] /\ 1 \in 1..Len(runq[c]) /\ k \in Calls
      BY <3>1
    <3> QED
      BY <3>2 DEF IInv, Yields
  <2>2. CASE handle[k]
    BY <1>4, <2>1, <2>2, YieldRefines DEF Resume, await_resume, queueVars
  <2>3. CASE ~handle[k]
    BY <1>4, <2>3 DEF Resume, queueVars, Abstract!vars
  <2> QED
    BY <2>2, <2>3
<1>5. CASE UNCHANGED <<nsent, ncalled, got>>
  BY <1>5 DEF Abstract!vars
<1>6. CASE SendSpawns \/ SendDrops \/ SendDestroys \/ SendJoins
  BY <1>6, <1>5 DEF SendSpawns, SendDrops, SendDestroys, SendJoins, queueVars,
     taskVars
<1>7. ASSUME NEW r \in Receivers,
             AwaitNotReady(r) \/ await_suspend(r) \/ BeginRecv(r)
      PROVE  UNCHANGED <<nsent, ncalled, got>>
  BY <1>7 DEF AwaitNotReady, await_suspend, BeginRecv, queueVars, taskVars
<1>8. ASSUME NEW c \in Contexts, Release(c) \/ Join(c)
      PROVE  UNCHANGED <<nsent, ncalled, got>>
  BY <1>8 DEF Release, Join, queueVars, taskVars
<1>9. ASSUME NEW p \in SendFrom, BeginSend(p)
      PROVE  UNCHANGED <<nsent, ncalled, got>>
  BY <1>9 DEF BeginSend, queueVars, taskVars
<1>10. CASE Quiet \/ UNCHANGED vars
  BY <1>10, <1>5 DEF Quiet, vars
<1> QED
  BY <1>1, <1>2, <1>3, <1>4, <1>5, <1>6, <1>7, <1>8, <1>9, <1>10
     DEF Next, Sender, Receiver, Context, Begin

\* Channel implements ChannelSpec: the k-th recv() yields the k-th value, at
\* most once.
THEOREM Implementation == Spec => ImplementsChannel
<1>1. Init => Abstract!Init
  BY DEF Init, Abstract!Init, Calls
<1> QED
  BY <1>1, StepRefines, Invariance, PTL
     DEF Spec, Abstract!Spec, ImplementsChannel

-----------------------------------------------------------------------------
(* Who is resumed: a second invariant, about calls, threads and what is     *)
(* spawned.                                                                 *)

Waiting(r) == rstate[r] \in {"called", "checked", "suspended"}

\* A call that has not yielded is its caller's current one, and has its handle
\* once the caller is suspended.
Callers ==
    /\ \A k \in Calls : k > ncalled => ~handle[k] /\ got[k] = 0
    /\ \A k \in Calls : k <= ncalled =>
         /\ caller[k] \in Receivers
         /\ got[k] = 0 => rcall[caller[k]] = k /\ Waiting(caller[k])
    /\ \A r \in Receivers : Waiting(r) =>
         /\ rcall[r] \in Calls /\ rcall[r] <= ncalled /\ caller[rcall[r]] = r
         /\ got[rcall[r]] = 0
         /\ handle[rcall[r]] <=> rstate[r] = "suspended"
    /\ \A k \in Calls : got[k] # 0 => result[k] # 0

\* Whoever is inside an operation has its thread.
Threads ==
    /\ \A r \in Receivers : rstate[r] \in {"locking", "called", "checked"} =>
         on[CtxOf[r]] = r
    /\ phase # "none" => mtx_ \in Places /\ on[mtx_] = Sending
    /\ \A p \in Places : on[p] = Sending => p \in SendFrom

\* What may still be resumed has its value, and has not been resumed.
ToResume(k) ==
    /\ k \in Calls /\ k <= ncalled /\ result[k] # 0
    /\ handle[k] => got[k] = 0

\* A resumption is spawned once, where recv() was called.
Spawned ==
    /\ \A c \in Contexts :
         /\ IsInjective(runq[c])
         /\ \A k \in Range(runq[c]) : ToResume(k) /\ HomeOf(k) = c
    /\ phase = "spawn" =>
         /\ ToResume(matched) /\ HomeOf(matched) \in Contexts
         /\ \A c \in Contexts : matched \notin Range(runq[c])

\* ResumeOnTheWay, from await_ready on.
OnTheWay ==
    \A r \in Receivers :
        LET k == rcall[r]  c == CtxOf[r] IN
        /\ rstate[r] \in {"checked", "suspended"} /\ result[k] # 0
        /\ c \in Contexts /\ ctx[c] = "live"
        => k \in Range(runq[c]) \/ (phase = "spawn" /\ matched = k)

Resumptions == Callers /\ Threads /\ Spawned /\ OnTheWay

LEMMA ResumptionFacts ==
  ASSUME IInv
  PROVE  /\ NoOne \notin Places /\ NoOne \notin Receivers
         /\ Sending \notin Receivers /\ Sending # NoOne
         /\ SendFrom \subseteq Places /\ Contexts \subseteq Places
         /\ \A r \in Receivers : CtxOf[r] \in Places
         /\ nsent \in Nat /\ ncalled \in Nat /\ Calls \subseteq Nat \ {0}
         /\ on \in [Places -> Receivers \union {NoOne, Sending}]
         /\ rstate \in [Receivers -> {"idle", "locking", "called", "checked",
                                      "suspended"}]
         /\ rcall \in [Receivers -> 0..MaxCalls]
         /\ caller \in [Calls -> Receivers \union {NoOne}]
         /\ result \in [Calls -> 0..MaxSends]
         /\ handle \in [Calls -> BOOLEAN]
         /\ got \in [Calls -> 0..MaxSends]
         /\ runq \in [Contexts -> Seq(Calls)]
         /\ ctx \in [Contexts -> {"live", "expired", "gone"}]
         /\ \A c \in Contexts : Range(runq[c]) \subseteq Calls
         /\ \A k \in Calls : result[k] # 0 <=> k <= nsent /\ k <= ncalled
<1>1. \A c \in Contexts : runq[c] \in Seq(Calls)
  BY DEF IInv, TypeOK
<1>2. \A c \in Contexts : Range(runq[c]) \subseteq Calls
  BY <1>1, RangeType
<1>3. \A k \in Calls : result[k] # 0 <=> k <= nsent /\ k <= ncalled
  BY DEF IInv, MatchInOrder, Calls
<1>4. nsent \in Nat /\ ncalled \in Nat /\ Calls \subseteq Nat \ {0}
  BY ChannelAssumption DEF IInv, TypeOK, Calls
<1> QED
  BY <1>2, <1>3, <1>4, ChannelAssumption DEF IInv, TypeOK, Places

LEMMA InitResumptions == Init => Resumptions
<1> SUFFICES ASSUME Init PROVE Resumptions
  OBVIOUS
<1>1. \A k \in Calls : k > 0 /\ ~(k <= 0)
  BY DEF Calls
<1>2. Callers
  BY <1>1 DEF Init, Callers, Waiting
<1>3. Threads
  BY ChannelAssumption DEF Init, Threads
<1>4. \A c \in Contexts : IsInjective(runq[c]) /\ Range(runq[c]) = {}
  BY EmptyRange DEF Init
<1>5. Spawned
  BY <1>4 DEF Init, Spawned
<1>6. OnTheWay
  BY DEF Init, OnTheWay
<1> QED
  BY <1>2, <1>3, <1>5, <1>6 DEF Resumptions

\* The thread of p begins or ends a send(), or its destruction of a context.
LEMMA ThreadOfSender ==
  ASSUME IInv, Resumptions, NEW p \in Places, NEW x \in {NoOne, Sending},
         on[p] \in {NoOne, Sending}, on' = [on EXCEPT ![p] = x],
         x = Sending => p \in SendFrom,
         UNCHANGED rstate,
         phase' # "none" => mtx_' \in Places /\ on'[mtx_'] = Sending
  PROVE  Threads'
<1>1. \A r \in Receivers : rstate[r] \in {"locking", "called", "checked"} =>
        CtxOf[r] # p
  BY ResumptionFacts DEF Resumptions, Threads
<1> QED
  BY <1>1, ResumptionFacts DEF Resumptions, Threads

LEMMA BeginSendResumptions ==
  ASSUME IInv, Resumptions, NEW p \in SendFrom, BeginSend(p)
  PROVE  Resumptions'
<1>1. /\ on[p] = NoOne /\ on' = [on EXCEPT ![p] = Sending] /\ p \in Places
      /\ UNCHANGED ncalled /\ UNCHANGED caller /\ UNCHANGED handle
      /\ UNCHANGED got /\ UNCHANGED result /\ UNCHANGED rstate
      /\ UNCHANGED rcall /\ UNCHANGED runq /\ UNCHANGED ctx
      /\ UNCHANGED phase /\ UNCHANGED matched /\ UNCHANGED mtx_
  BY ResumptionFacts DEF BeginSend, Free, queueVars, senderVars, taskVars,
     receiverVars, contextVars
<1>2. phase # "none" => mtx_ \in Places /\ on'[mtx_] = Sending
  BY <1>1, ResumptionFacts DEF Resumptions, Threads
<1>3. Threads'
  BY <1>1, <1>2, ThreadOfSender
<1>4. Callers' /\ Spawned' /\ OnTheWay'
  BY <1>1 DEF Resumptions, Callers, Waiting, Spawned, ToResume, HomeOf, OnTheWay
<1> QED
  BY <1>3, <1>4 DEF Resumptions

LEMMA SendQueuesResumptions ==
  ASSUME IInv, Resumptions, NEW p \in Places, SendQueues(p)
  PROVE  Resumptions'
<1>1. /\ on[p] = Sending /\ on' = [on EXCEPT ![p] = NoOne]
      /\ mtx_ = NoOne
      /\ UNCHANGED ncalled /\ UNCHANGED caller /\ UNCHANGED handle
      /\ UNCHANGED got /\ UNCHANGED result /\ UNCHANGED rstate
      /\ UNCHANGED rcall /\ UNCHANGED runq /\ UNCHANGED ctx
      /\ UNCHANGED phase /\ UNCHANGED matched /\ UNCHANGED mtx_
  BY DEF SendQueues, senderVars, taskVars, receiverVars, contextVars
<1>2. phase = "none" /\ phase' = "none"
  BY <1>1, ResumptionFacts DEF Resumptions, Threads
<1>3. Threads'
  <2>1. NoOne # Sending
    BY ResumptionFacts
  <2> QED
    BY <1>1, <1>2, <2>1, ThreadOfSender
<1>4. Callers' /\ Spawned' /\ OnTheWay'
  BY <1>1 DEF Resumptions, Callers, Waiting, Spawned, ToResume, HomeOf, OnTheWay
<1> QED
  BY <1>3, <1>4 DEF Resumptions

LEMMA OldestWaiting ==
  ASSUME IInv, Resumptions, pending_tasks_ # <<>>,
         NEW k, k = Head(pending_tasks_)
  PROVE  /\ k \in Calls /\ k = nsent + 1 /\ k <= ncalled
         /\ result[k] = 0 /\ got[k] = 0
<1>1. /\ pending_tasks_ \in Seq(Calls) /\ nsent \in Nat /\ ncalled \in Nat
      /\ Consecutive(pending_tasks_, nsent + 1) /\ ready_values_ = <<>>
      /\ nsent + Len(pending_tasks_) = ncalled + Len(ready_values_)
  BY ResumptionFacts DEF IInv, TypeOK, Shape
<1>2. k \in Calls /\ k = nsent + 1
  BY <1>1, ConsecutiveTail
<1>3. Len(pending_tasks_) \in Nat \ {0} /\ Len(ready_values_) = 0
  BY <1>1
<1>4. k <= ncalled
  BY <1>1, <1>2, <1>3
<1>5. result[k] = 0
  BY <1>1, <1>2, ResumptionFacts
<1> QED
  BY <1>2, <1>4, <1>5 DEF Resumptions, Callers

\* The oldest waiting call gets its value.
LEMMA SendPairsResumptions ==
  ASSUME IInv, Resumptions, NEW p \in Places, SendToNobody(p) \/ SendMatches(p)
  PROVE  Resumptions'
<1> PICK k : k = Head(pending_tasks_)
  OBVIOUS
<1>1. /\ on[p] = Sending /\ mtx_ = NoOne /\ pending_tasks_ # <<>>
      /\ result' = [result EXCEPT ![k] = nsent + 1]
      /\ UNCHANGED ncalled /\ UNCHANGED caller /\ UNCHANGED handle
      /\ UNCHANGED got /\ UNCHANGED rstate /\ UNCHANGED rcall
      /\ UNCHANGED runq /\ UNCHANGED ctx
  BY DEF SendToNobody, SendMatches, receiverVars, contextVars
<1>2. \/ /\ LockFails(k) /\ on' = [on EXCEPT ![p] = NoOne]
         /\ UNCHANGED phase /\ UNCHANGED matched /\ UNCHANGED mtx_
      \/ /\ ~LockFails(k) /\ UNCHANGED on
         /\ phase' = "spawn" /\ matched' = k /\ mtx_' = p
  BY DEF SendToNobody, SendMatches, senderVars
<1>3. phase = "none"
  BY <1>1, ResumptionFacts DEF Resumptions, Threads
<1>4. k \in Calls /\ k <= ncalled /\ result[k] = 0 /\ got[k] = 0
  BY <1>1, OldestWaiting
<1>5. result'[k] # 0 /\ \A j \in Calls : j # k => result'[j] = result[j]
  <2>1. nsent + 1 # 0
    BY ResumptionFacts
  <2> QED
    BY <1>1, <1>4, <2>1, ResumptionFacts
<1>6. \A c \in Contexts : k \notin Range(runq[c])
  BY <1>4 DEF Resumptions, Spawned, ToResume
<1>7. Callers'
  BY <1>1, <1>4, <1>5 DEF Resumptions, Callers, Waiting
<1>8. Threads'
  <2>1. CASE on' = [on EXCEPT ![p] = NoOne] /\ phase' = phase
    <3>1. NoOne # Sending /\ phase' = "none"
      BY <1>3, <2>1, ResumptionFacts
    <3> QED
      BY <1>1, <2>1, <3>1, ThreadOfSender
  <2>2. CASE on' = on /\ mtx_' = p
    BY <1>1, <2>2 DEF Resumptions, Threads
  <2> QED
    BY <1>2, <2>1, <2>2
<1>9. Spawned'
  <2>1. \A c \in Contexts : \A j \in Range(runq[c]) : ToResume(j)' /\ HomeOf(j)' = c
    BY <1>1, <1>5, <1>6 DEF Resumptions, Spawned, ToResume, HomeOf
  <2>2. ToResume(k)'
    BY <1>1, <1>4, <1>5 DEF ToResume
  <2>3. ~LockFails(k) => HomeOf(k)' \in Contexts
    BY <1>1 DEF LockFails, HomeOf
  <2>4. phase' = "spawn" => matched' = k /\ ~LockFails(k)
    BY <1>2, <1>3
  <2>5. phase' = "spawn" =>
          /\ ToResume(matched)' /\ HomeOf(matched)' \in Contexts
          /\ \A c \in Contexts : matched' \notin Range(runq[c])
    BY <1>6, <2>2, <2>3, <2>4 DEF ToResume, HomeOf
  <2> QED
    BY <1>1, <2>1, <2>5 DEF Resumptions, Spawned
<1>10. OnTheWay'
  <2> SUFFICES ASSUME NEW r \in Receivers,
                      rstate[r] \in {"checked", "suspended"},
                      result'[rcall[r]] # 0,
                      CtxOf[r] \in Contexts, ctx[CtxOf[r]] = "live"
               PROVE  \/ rcall[r] \in Range(runq[CtxOf[r]])
                      \/ phase' = "spawn" /\ matched' = rcall[r]
    BY <1>1 DEF OnTheWay
  <2>1. rcall[r] \in Calls /\ caller[rcall[r]] = r
    BY DEF Resumptions, Callers, Waiting
  <2>2. CASE rcall[r] = k
    <3>1. ~LockFails(k)
      BY <2>1, <2>2 DEF LockFails, HomeOf
    <3> QED
      BY <1>2, <2>2, <3>1
  <2>3. CASE rcall[r] # k
    BY <1>3, <1>5, <2>1, <2>3 DEF Resumptions, OnTheWay
  <2> QED
    BY <2>2, <2>3
<1> QED
  BY <1>7, <1>8, <1>9, <1>10 DEF Resumptions

LEMMA SendSpawnsResumptions ==
  ASSUME IInv, Resumptions, SendSpawns
  PROVE  Resumptions'
<1> DEFINE h == HomeOf(matched)
<1>1. /\ phase = "spawn" /\ phase' = "drop"
      /\ runq' = [runq EXCEPT ![h] = Append(@, matched)]
      /\ UNCHANGED ncalled /\ UNCHANGED caller /\ UNCHANGED handle
      /\ UNCHANGED got /\ UNCHANGED result /\ UNCHANGED rstate
      /\ UNCHANGED rcall /\ UNCHANGED ctx /\ UNCHANGED on
      /\ UNCHANGED matched /\ UNCHANGED mtx_
  BY DEF SendSpawns, queueVars, taskVars, receiverVars, contextVars
<1>2. /\ ToResume(matched) /\ matched \in Calls /\ h \in Contexts
      /\ \A c \in Contexts : matched \notin Range(runq[c])
  BY <1>1 DEF Resumptions, Spawned, ToResume
<1>3. \A c \in Contexts : runq'[c] = IF c = h THEN Append(runq[h], matched)
                                             ELSE runq[c]
  BY <1>1, ResumptionFacts
<1>4. /\ Range(runq'[h]) = Range(runq[h]) \union {matched}
      /\ IsInjective(runq'[h])
  <2>1. runq[h] \in Seq(Calls) /\ IsInjective(runq[h])
    BY <1>2, ResumptionFacts DEF Resumptions, Spawned
  <2> QED
    BY <1>2, <1>3, <2>1, AppendRange
<1>5. /\ Callers' /\ Threads'
  BY <1>1 DEF Resumptions, Callers, Waiting, Threads
<1>6. Spawned'
  <2>1. ASSUME NEW c \in Contexts
        PROVE  /\ IsInjective(runq'[c])
               /\ \A j \in Range(runq'[c]) : ToResume(j) /\ HomeOf(j) = c
    BY <1>2, <1>3, <1>4 DEF Resumptions, Spawned
  <2> QED
    BY <1>1, <2>1 DEF Spawned, ToResume, HomeOf
<1>7. OnTheWay'
  <2> SUFFICES ASSUME NEW r \in Receivers,
                      rstate[r] \in {"checked", "suspended"},
                      result[rcall[r]] # 0,
                      CtxOf[r] \in Contexts, ctx[CtxOf[r]] = "live"
               PROVE  rcall[r] \in Range(runq'[CtxOf[r]])
    BY <1>1 DEF OnTheWay
  <2>1. rcall[r] \in Calls /\ caller[rcall[r]] = r
    BY DEF Resumptions, Callers, Waiting
  <2>2. rcall[r] \in Range(runq[CtxOf[r]]) \/ matched = rcall[r]
    BY DEF Resumptions, OnTheWay
  <2>3. matched = rcall[r] => CtxOf[r] = h
    BY <2>1 DEF HomeOf
  <2> QED
    BY <1>3, <1>4, <2>2, <2>3
<1> QED
  BY <1>5, <1>6, <1>7 DEF Resumptions

\* A sender that returns, or destroys a context, has nothing left to spawn.
LEMMA SendEndsResumptions ==
  ASSUME IInv, Resumptions, SendDrops \/ SendDestroys \/ SendJoins
  PROVE  Resumptions'
<1>1. /\ phase \in {"drop", "join"} /\ phase' \in {"none", "join"}
      /\ UNCHANGED ncalled /\ UNCHANGED caller /\ UNCHANGED handle
      /\ UNCHANGED got /\ UNCHANGED result /\ UNCHANGED rstate
      /\ UNCHANGED rcall /\ UNCHANGED runq
      /\ \A c \in Contexts : ctx'[c] = "live" => ctx[c] = "live"
  BY ResumptionFacts
     DEF SendDrops, SendDestroys, SendJoins, SendReturns, queueVars, taskVars,
         receiverVars, contextVars
<1>2. mtx_ \in Places /\ on[mtx_] = Sending
  BY <1>1 DEF Resumptions, Threads
<1>3. Threads'
  <2>1. CASE phase' = "none"
    <3>1. on' = [on EXCEPT ![mtx_] = NoOne]
      BY <2>1 DEF SendDrops, SendDestroys, SendJoins, SendReturns
    <3>2. NoOne # Sending
      BY ResumptionFacts
    <3> QED
      BY <1>1, <1>2, <2>1, <3>1, <3>2, ThreadOfSender
  <2>2. CASE phase' # "none"
    <3>1. UNCHANGED on /\ UNCHANGED mtx_
      BY <2>2 DEF SendDrops, SendDestroys, SendJoins, SendReturns
    <3> QED
      BY <1>1, <1>2, <3>1 DEF Resumptions, Threads
  <2> QED
    BY <2>1, <2>2
<1>4. Callers' /\ Spawned' /\ OnTheWay'
  BY <1>1 DEF Resumptions, Callers, Waiting, Spawned, ToResume, HomeOf, OnTheWay
<1> QED
  BY <1>3, <1>4 DEF Resumptions

LEMMA BeginRecvResumptions ==
  ASSUME IInv, Resumptions, NEW r \in Receivers, BeginRecv(r)
  PROVE  Resumptions'
<1>1. /\ rstate[r] = "idle" /\ on[CtxOf[r]] = NoOne
      /\ rstate' = [rstate EXCEPT ![r] = "locking"]
      /\ on' = [on EXCEPT ![CtxOf[r]] = r]
      /\ UNCHANGED ncalled /\ UNCHANGED caller /\ UNCHANGED handle
      /\ UNCHANGED got /\ UNCHANGED result /\ UNCHANGED rcall
      /\ UNCHANGED runq /\ UNCHANGED ctx
      /\ UNCHANGED phase /\ UNCHANGED matched /\ UNCHANGED mtx_
  BY DEF BeginRecv, Free, queueVars, senderVars, taskVars, contextVars
<1>2. /\ rstate'[r] = "locking"
      /\ \A q \in Receivers : q # r => rstate'[q] = rstate[q]
      /\ on'[CtxOf[r]] = r
      /\ \A p \in Places : p # CtxOf[r] => on'[p] = on[p]
  BY <1>1, ResumptionFacts
<1>3. Callers'
  <2>1. \A q \in Receivers : Waiting(q)' <=> Waiting(q)
    BY <1>1, <1>2 DEF Waiting
  <2>2. \A q \in Receivers : rstate'[q] = "suspended" <=> rstate[q] = "suspended"
    BY <1>1, <1>2
  <2> QED
    BY <1>1, <2>1, <2>2 DEF Resumptions, Callers
<1>4. Threads'
  <2>1. \A q \in Receivers : q # r /\ rstate[q] \in {"locking", "called", "checked"}
          => CtxOf[q] # CtxOf[r]
    BY <1>1, ResumptionFacts DEF Resumptions, Threads
  <2>2. phase # "none" => mtx_ \in Places /\ on'[mtx_] = Sending
    BY <1>1, <1>2, ResumptionFacts DEF Resumptions, Threads
  <2>3. \A p \in Places : on'[p] = Sending => p \in SendFrom
    BY <1>2, ResumptionFacts DEF Resumptions, Threads
  <2> QED
    BY <1>1, <1>2, <2>1, <2>2, <2>3, ResumptionFacts DEF Resumptions, Threads
<1>5. Spawned'
  BY <1>1 DEF Resumptions, Spawned, ToResume, HomeOf
<1>6. OnTheWay'
  BY <1>1, <1>2 DEF Resumptions, OnTheWay
<1> QED
  BY <1>3, <1>4, <1>5, <1>6 DEF Resumptions

\* A new call: nothing is spawned for it, whether it found a value or not.
LEMMA RecvResumptions ==
  ASSUME IInv, Resumptions, NEW r \in Receivers, recv(r)
  PROVE  Resumptions'
<1> PICK n : n = ncalled + 1
  OBVIOUS
<1>1. /\ rstate[r] = "locking" /\ mtx_ = NoOne /\ ncalled < MaxCalls
      /\ ncalled' = n
      /\ caller' = [caller EXCEPT ![n] = r]
      /\ rcall' = [rcall EXCEPT ![r] = n]
      /\ rstate' = [rstate EXCEPT ![r] = "called"]
      /\ UNCHANGED handle /\ UNCHANGED got /\ UNCHANGED on
      /\ UNCHANGED runq /\ UNCHANGED ctx
      /\ UNCHANGED phase /\ UNCHANGED matched /\ UNCHANGED mtx_
  BY DEF recv, senderVars, contextVars
<1>2. n \in Calls /\ n > ncalled /\ \A k \in Calls : k <= n <=> k <= ncalled \/ k = n
  <2>1. MaxCalls \in Nat /\ ncalled \in Nat /\ ncalled < MaxCalls
    BY <1>1, ResumptionFacts, ChannelAssumption
  <2> QED
    BY <2>1 DEF Calls
<1>3. \A k \in Calls : k # n => result'[k] = result[k]
  BY <1>2, ResumptionFacts DEF recv
<1>4. /\ caller'[n] = r /\ \A k \in Calls : k # n => caller'[k] = caller[k]
      /\ rcall'[r] = n /\ rstate'[r] = "called"
      /\ \A q \in Receivers : q # r => rcall'[q] = rcall[q] /\ rstate'[q] = rstate[q]
  BY <1>1, <1>2, ResumptionFacts
<1>5. phase = "none"
  BY <1>1, ResumptionFacts DEF Resumptions, Threads
<1>6. ~handle[n] /\ got[n] = 0
  BY <1>2 DEF Resumptions, Callers
<1>7. ~Waiting(r) /\ \A q \in Receivers : Waiting(q)' <=> q = r \/ Waiting(q)
  BY <1>1, <1>4 DEF Waiting
<1>8. \A q \in Receivers : Waiting(q) => rcall[q] \in Calls /\ rcall[q] # n
  BY <1>2, ResumptionFacts DEF Resumptions, Callers
<1>9. Callers'
  <2> DEFINE Waits == {"called", "checked", "suspended"}
  <2>1. \A k \in Calls : k > n => ~handle[k] /\ got[k] = 0
    BY <1>2, ResumptionFacts DEF Resumptions, Callers
  <2>2. ASSUME NEW k \in Calls, k <= n
        PROVE  /\ caller'[k] \in Receivers
               /\ got[k] = 0 => /\ rcall'[caller'[k]] = k
                                /\ rstate'[caller'[k]] \in Waits
    <3>1. CASE k = n
      BY <1>4, <3>1
    <3>2. CASE k # n
      <4>1. /\ caller'[k] = caller[k] /\ caller[k] \in Receivers
            /\ got[k] = 0 => rcall[caller[k]] = k /\ rstate[caller[k]] \in Waits
        BY <1>2, <1>4, <2>2, <3>2 DEF Resumptions, Callers, Waiting
      <4>2. CASE got[k] = 0
        <5>1. caller[k] # r
          BY <1>1, <4>1, <4>2
        <5> QED
          BY <1>4, <4>1, <4>2, <5>1
      <4> QED
        BY <4>1, <4>2
    <3> QED
      BY <3>1, <3>2
  <2>3. ASSUME NEW q \in Receivers, Waiting(q)'
        PROVE  /\ rcall'[q] \in Calls /\ rcall'[q] <= n
               /\ caller'[rcall'[q]] = q /\ got[rcall'[q]] = 0
               /\ handle[rcall'[q]] <=> rstate'[q] = "suspended"
    <3>1. CASE q = r
      BY <1>2, <1>4, <1>6, <3>1, ResumptionFacts
    <3>2. CASE q # r
      <4>1. /\ Waiting(q) /\ rcall'[q] = rcall[q] /\ rstate'[q] = rstate[q]
            /\ rcall[q] \in Calls /\ rcall[q] # n
        BY <1>4, <1>7, <1>8, <2>3, <3>2
      <4>2. /\ rcall[q] <= ncalled /\ caller[rcall[q]] = q /\ got[rcall[q]] = 0
            /\ handle[rcall[q]] <=> rstate[q] = "suspended"
        BY <4>1 DEF Resumptions, Callers
      <4> QED
        BY <1>2, <1>4, <4>1, <4>2
    <3> QED
      BY <3>1, <3>2
  <2>4. \A k \in Calls : got[k] # 0 => result'[k] # 0
    BY <1>3, <1>6 DEF Resumptions, Callers
  <2> QED
    BY <1>1, <2>1, <2>2, <2>3, <2>4 DEF Callers, Waiting
<1>10. Threads'
  <2>1. \A q \in Receivers : rstate'[q] \in {"locking", "called", "checked"} =>
          on[CtxOf[q]] = q
    BY <1>1, <1>4 DEF Resumptions, Threads
  <2> QED
    BY <1>1, <1>5, <2>1 DEF Resumptions, Threads
<1>11. Spawned'
  <2>1. ASSUME NEW c \in Contexts, NEW k \in Range(runq[c])
        PROVE  ToResume(k)' /\ HomeOf(k)' = c
    <3>1. ToResume(k) /\ HomeOf(k) = c
      BY DEF Resumptions, Spawned
    <3>2. k \in Calls /\ k # n /\ k <= n
      BY <1>2, <3>1, ResumptionFacts DEF ToResume
    <3> QED
      BY <1>1, <1>3, <1>4, <3>1, <3>2 DEF ToResume, HomeOf
  <2> QED
    BY <1>1, <1>5, <2>1 DEF Resumptions, Spawned
<1>12. OnTheWay'
  <2> SUFFICES ASSUME NEW q \in Receivers,
                      rstate'[q] \in {"checked", "suspended"},
                      result'[rcall'[q]] # 0,
                      CtxOf[q] \in Contexts, ctx[CtxOf[q]] = "live"
               PROVE  rcall'[q] \in Range(runq[CtxOf[q]])
    BY <1>1 DEF OnTheWay
  <2>1. q # r /\ rcall'[q] = rcall[q] /\ rstate'[q] = rstate[q]
    BY <1>4
  <2>2. rcall[q] \in Calls /\ rcall[q] # n
    BY <1>8, <2>1 DEF Waiting
  <2> QED
    BY <1>3, <1>5, <2>1, <2>2 DEF Resumptions, OnTheWay
<1> QED
  BY <1>9, <1>10, <1>11, <1>12 DEF Resumptions

\* Call k of receiver r yields: it is over, and r is idle again.
LEMMA YieldCallers ==
  ASSUME IInv, Resumptions, NEW r \in Receivers, NEW k \in Calls,
         Waiting(r), rcall[r] = k, result[k] # 0, await_resume(r, k),
         UNCHANGED ncalled, UNCHANGED caller, UNCHANGED result, UNCHANGED handle
  PROVE  /\ Callers' /\ got'[k] # 0 /\ \A j \in Calls : j # k => got'[j] = got[j]
         /\ rstate'[r] = "idle"
         /\ \A q \in Receivers : q # r => /\ rcall'[q] = rcall[q]
                                          /\ rstate'[q] = rstate[q]
<1>1. /\ got'[k] = result[k] /\ \A j \in Calls : j # k => got'[j] = got[j]
      /\ rstate'[r] = "idle"
      /\ \A q \in Receivers : q # r => /\ rcall'[q] = rcall[q]
                                       /\ rstate'[q] = rstate[q]
  BY ResumptionFacts DEF await_resume
<1>2. k <= ncalled /\ caller[k] = r
  BY DEF Resumptions, Callers
<1>3. ~Waiting(r)' /\ \A q \in Receivers : q # r => (Waiting(q)' <=> Waiting(q))
  BY <1>1 DEF Waiting
<1>4. Callers'
  <2>1. \A j \in Calls : j > ncalled => ~handle[j] /\ got'[j] = 0
    BY <1>1, <1>2, ResumptionFacts DEF Resumptions, Callers
  <2>2. ASSUME NEW j \in Calls, j <= ncalled
        PROVE  /\ caller[j] \in Receivers
               /\ got'[j] = 0 => rcall'[caller[j]] = j /\ Waiting(caller[j])'
    <3>1. CASE j = k
      BY <1>1, <1>2, <3>1
    <3>2. CASE j # k
      <4>1. /\ caller[j] \in Receivers /\ got'[j] = got[j]
            /\ got[j] = 0 => rcall[caller[j]] = j /\ Waiting(caller[j])
        BY <1>1, <2>2, <3>2 DEF Resumptions, Callers
      <4> QED
        BY <1>1, <1>3, <3>2, <4>1
    <3> QED
      BY <3>1, <3>2
  <2>3. ASSUME NEW q \in Receivers, Waiting(q)'
        PROVE  /\ rcall'[q] \in Calls /\ rcall'[q] <= ncalled
               /\ caller[rcall'[q]] = q /\ got'[rcall'[q]] = 0
               /\ handle[rcall'[q]] <=> rstate'[q] = "suspended"
    <3>1. q # r /\ Waiting(q) /\ rcall'[q] = rcall[q] /\ rstate'[q] = rstate[q]
      BY <1>1, <1>3, <2>3
    <3>2. /\ rcall[q] \in Calls /\ rcall[q] <= ncalled
          /\ caller[rcall[q]] = q /\ got[rcall[q]] = 0
          /\ handle[rcall[q]] <=> rstate[q] = "suspended"
      BY <3>1 DEF Resumptions, Callers
    <3> QED
      BY <1>1, <1>2, <3>1, <3>2
  <2>4. \A j \in Calls : got'[j] # 0 => result[j] # 0
    BY <1>1 DEF Resumptions, Callers
  <2> QED
    BY <2>1, <2>2, <2>3, <2>4 DEF Callers
<1> QED
  BY <1>1, <1>4

LEMMA AwaitReadyResumptions ==
  ASSUME IInv, Resumptions, NEW r \in Receivers, AwaitReady(r)
  PROVE  Resumptions'
<1> PICK k : k = rcall[r]
  OBVIOUS
<1>1. /\ rstate[r] = "called" /\ result[k] # 0 /\ await_resume(r, k)
      /\ on' = [on EXCEPT ![CtxOf[r]] = NoOne]
      /\ UNCHANGED ncalled /\ UNCHANGED caller /\ UNCHANGED result
      /\ UNCHANGED handle /\ UNCHANGED runq /\ UNCHANGED ctx
      /\ UNCHANGED phase /\ UNCHANGED matched /\ UNCHANGED mtx_
  BY DEF AwaitReady, queueVars, senderVars, contextVars
<1>2. Waiting(r) /\ k \in Calls /\ ~handle[k] /\ on[CtxOf[r]] = r
  BY <1>1, ResumptionFacts DEF Resumptions, Callers, Threads, Waiting
<1>3. /\ Callers' /\ got'[k] # 0 /\ \A j \in Calls : j # k => got'[j] = got[j]
      /\ rstate'[r] = "idle"
      /\ \A q \in Receivers : q # r => /\ rcall'[q] = rcall[q]
                                       /\ rstate'[q] = rstate[q]
  BY <1>1, <1>2, YieldCallers
<1>4. /\ on'[CtxOf[r]] = NoOne
      /\ \A p \in Places : p # CtxOf[r] => on'[p] = on[p]
  BY <1>1, ResumptionFacts
<1>5. Threads'
  <2>1. ASSUME NEW q \in Receivers,
               rstate'[q] \in {"locking", "called", "checked"}
        PROVE  on'[CtxOf[q]] = q
    <3>1. q # r /\ on[CtxOf[q]] = q
      BY <1>3, <2>1 DEF Resumptions, Threads
    <3> QED
      BY <1>2, <1>4, <3>1, ResumptionFacts
  <2>2. phase # "none" => mtx_ \in Places /\ on'[mtx_] = Sending
    BY <1>2, <1>4, ResumptionFacts DEF Resumptions, Threads
  <2>3. \A p \in Places : on'[p] = Sending => p \in SendFrom
    BY <1>4, ResumptionFacts DEF Resumptions, Threads
  <2> QED
    BY <1>1, <2>1, <2>2, <2>3 DEF Threads
<1>6. Spawned'
  BY <1>1, <1>2, <1>3 DEF Resumptions, Spawned, ToResume, HomeOf
<1>7. OnTheWay'
  BY <1>1, <1>3 DEF Resumptions, OnTheWay
<1> QED
  BY <1>3, <1>5, <1>6, <1>7 DEF Resumptions

LEMMA AwaitNotReadyResumptions ==
  ASSUME IInv, Resumptions, NEW r \in Receivers, AwaitNotReady(r)
  PROVE  Resumptions'
<1>1. /\ rstate[r] = "called" /\ result[rcall[r]] = 0
      /\ rstate' = [rstate EXCEPT ![r] = "checked"]
      /\ UNCHANGED ncalled /\ UNCHANGED caller /\ UNCHANGED result
      /\ UNCHANGED handle /\ UNCHANGED got /\ UNCHANGED rcall /\ UNCHANGED on
      /\ UNCHANGED runq /\ UNCHANGED ctx
      /\ UNCHANGED phase /\ UNCHANGED matched /\ UNCHANGED mtx_
  BY DEF AwaitNotReady, queueVars, senderVars, taskVars, contextVars
<1>2. rstate'[r] = "checked" /\ \A q \in Receivers : q # r => rstate'[q] = rstate[q]
  BY <1>1, ResumptionFacts
<1>3. \A q \in Receivers : /\ Waiting(q)' <=> Waiting(q)
                           /\ rstate'[q] = "suspended" <=> rstate[q] = "suspended"
  BY <1>1, <1>2 DEF Waiting
<1>4. Callers'
  BY <1>1, <1>3 DEF Resumptions, Callers
<1>5. Threads'
  BY <1>1, <1>2 DEF Resumptions, Threads
<1>6. Spawned'
  BY <1>1 DEF Resumptions, Spawned, ToResume, HomeOf
<1>7. OnTheWay'
  BY <1>1, <1>2 DEF Resumptions, OnTheWay
<1> QED
  BY <1>4, <1>5, <1>6, <1>7 DEF Resumptions

LEMMA AwaitSuspendResumptions ==
  ASSUME IInv, Resumptions, NEW r \in Receivers, await_suspend(r)
  PROVE  Resumptions'
<1> PICK k : k = rcall[r]
  OBVIOUS
<1>1. /\ rstate[r] = "checked"
      /\ handle' = [handle EXCEPT ![k] = TRUE]
      /\ rstate' = [rstate EXCEPT ![r] = "suspended"]
      /\ on' = [on EXCEPT ![CtxOf[r]] = NoOne]
      /\ UNCHANGED ncalled /\ UNCHANGED caller /\ UNCHANGED result
      /\ UNCHANGED got /\ UNCHANGED rcall /\ UNCHANGED runq /\ UNCHANGED ctx
      /\ UNCHANGED phase /\ UNCHANGED matched /\ UNCHANGED mtx_
  BY DEF await_suspend, queueVars, senderVars, contextVars
<1>2. /\ k \in Calls /\ k <= ncalled /\ caller[k] = r /\ got[k] = 0
      /\ on[CtxOf[r]] = r
  BY <1>1 DEF Resumptions, Callers, Threads, Waiting
<1>3. /\ rstate'[r] = "suspended"
      /\ \A q \in Receivers : q # r => rstate'[q] = rstate[q]
      /\ handle'[k] /\ \A j \in Calls : j # k => handle'[j] = handle[j]
      /\ on'[CtxOf[r]] = NoOne
      /\ \A p \in Places : p # CtxOf[r] => on'[p] = on[p]
  BY <1>1, <1>2, ResumptionFacts
<1>4. \A q \in Receivers : Waiting(q)' <=> Waiting(q)
  BY <1>1, <1>3 DEF Waiting
<1>5. Callers'
  <2>1. \A j \in Calls : j > ncalled => ~handle'[j] /\ got[j] = 0
    BY <1>2, <1>3, ResumptionFacts DEF Resumptions, Callers
  <2>2. \A j \in Calls : j <= ncalled =>
          /\ caller[j] \in Receivers
          /\ got[j] = 0 => rcall[caller[j]] = j /\ Waiting(caller[j])'
    BY <1>1, <1>4 DEF Resumptions, Callers
  <2>3. ASSUME NEW q \in Receivers, Waiting(q)'
        PROVE  /\ rcall[q] \in Calls /\ rcall[q] <= ncalled
               /\ caller[rcall[q]] = q /\ got[rcall[q]] = 0
               /\ handle'[rcall[q]] <=> rstate'[q] = "suspended"
    <3>1. /\ rcall[q] \in Calls /\ rcall[q] <= ncalled
          /\ caller[rcall[q]] = q /\ got[rcall[q]] = 0
          /\ handle[rcall[q]] <=> rstate[q] = "suspended"
      BY <1>4, <2>3 DEF Resumptions, Callers
    <3>2. CASE q = r
      BY <1>3, <3>1, <3>2
    <3>3. CASE q # r
      BY <1>2, <1>3, <3>1, <3>3
    <3> QED
      BY <3>1, <3>2, <3>3
  <2> QED
    BY <1>1, <2>1, <2>2, <2>3 DEF Resumptions, Callers
<1>6. Threads'
  <2>1. ASSUME NEW q \in Receivers,
               rstate'[q] \in {"locking", "called", "checked"}
        PROVE  on'[CtxOf[q]] = q
    <3>1. q # r /\ on[CtxOf[q]] = q
      BY <1>3, <2>1 DEF Resumptions, Threads
    <3> QED
      BY <1>2, <1>3, <3>1, ResumptionFacts
  <2>2. phase # "none" => mtx_ \in Places /\ on'[mtx_] = Sending
    BY <1>2, <1>3, ResumptionFacts DEF Resumptions, Threads
  <2>3. \A p \in Places : on'[p] = Sending => p \in SendFrom
    BY <1>3, ResumptionFacts DEF Resumptions, Threads
  <2> QED
    BY <1>1, <2>1, <2>2, <2>3 DEF Threads
<1>7. Spawned'
  BY <1>1, <1>2, <1>3 DEF Resumptions, Spawned, ToResume, HomeOf
<1>8. OnTheWay'
  BY <1>1, <1>3 DEF Resumptions, OnTheWay
<1> QED
  BY <1>5, <1>6, <1>7, <1>8 DEF Resumptions

\* A spawned routine leaves the queue: it resumes its receiver, or finds a
\* null handle.
LEMMA ResumeResumptions ==
  ASSUME IInv, Resumptions, NEW c \in Contexts, Resume(c)
  PROVE  Resumptions'
<1> PICK k : k = Head(runq[c])
  OBVIOUS
<1>1. /\ on[c] = NoOne /\ runq[c] # <<>>
      /\ runq' = [runq EXCEPT ![c] = Tail(runq[c])]
      /\ UNCHANGED ncalled /\ UNCHANGED caller /\ UNCHANGED result
      /\ UNCHANGED handle /\ UNCHANGED on /\ UNCHANGED ctx
      /\ UNCHANGED phase /\ UNCHANGED matched /\ UNCHANGED mtx_
  BY DEF Resume, Free, queueVars, senderVars, contextVars
<1>2. \/ handle[k] /\ await_resume(caller[k], k)
      \/ ~handle[k] /\ UNCHANGED got /\ UNCHANGED rstate /\ UNCHANGED rcall
  BY DEF Resume, receiverVars
<1>3. /\ k \in Calls /\ Range(runq[c]) = {k} \union Range(Tail(runq[c]))
      /\ IsInjective(Tail(runq[c])) /\ k \notin Range(Tail(runq[c]))
  <2>1. runq[c] \in Seq(Calls) /\ IsInjective(runq[c])
    BY ResumptionFacts DEF Resumptions, Spawned
  <2> QED
    BY <1>1, <2>1, HeadTailRange
<1>4. /\ ToResume(k) /\ HomeOf(k) = c
      /\ phase = "spawn" => matched # k
      /\ \A e \in Contexts : e # c => k \notin Range(runq[e])
  BY <1>3 DEF Resumptions, Spawned
<1>5. /\ \A e \in Contexts : e # c => runq'[e] = runq[e]
      /\ runq'[c] = Tail(runq[c])
  BY <1>1, ResumptionFacts
<1>6. \A e \in Contexts :
        /\ IsInjective(runq'[e])
        /\ Range(runq'[e]) \subseteq Range(runq[e]) /\ k \notin Range(runq'[e])
        /\ \A j \in Range(runq[e]) : j # k => j \in Range(runq'[e])
  BY <1>3, <1>4, <1>5 DEF Resumptions, Spawned
<1>7. /\ Callers' /\ \A j \in Calls : j # k => got'[j] = got[j]
      /\ \A q \in Receivers :
           \/ rstate'[q] = "idle"
           \/ rstate'[q] = rstate[q] /\ rcall'[q] = rcall[q]
      /\ \A q \in Receivers :
           rstate'[q] \in {"checked", "suspended"} => rcall[q] # k
  <2>1. CASE handle[k]
    <3> PICK r : r = caller[k]
      OBVIOUS
    <3>1. got[k] = 0 /\ r \in Receivers /\ rcall[r] = k /\ Waiting(r)
      BY <1>4, <2>1 DEF Resumptions, Callers, ToResume
    <3>2. result[k] # 0 /\ await_resume(r, k)
      BY <1>2, <1>4, <2>1 DEF ToResume
    <3>3. /\ Callers' /\ \A j \in Calls : j # k => got'[j] = got[j]
          /\ rstate'[r] = "idle"
          /\ \A q \in Receivers : q # r => /\ rcall'[q] = rcall[q]
                                           /\ rstate'[q] = rstate[q]
      BY <1>1, <1>3, <3>1, <3>2, YieldCallers
    <3>4. \A q \in Receivers :
            rstate'[q] \in {"checked", "suspended"} => rcall[q] # k
      BY <3>3 DEF Resumptions, Callers, Waiting
    <3> QED
      BY <3>3, <3>4
  <2>2. CASE ~handle[k]
    <3>1. UNCHANGED got /\ UNCHANGED rstate /\ UNCHANGED rcall
      BY <1>2, <2>2
    <3>2. Callers'
      BY <1>1, <3>1 DEF Resumptions, Callers, Waiting
    <3>3. ASSUME NEW q \in Receivers, rstate[q] \in {"checked", "suspended"},
                 rcall[q] = k
          PROVE  FALSE
      <4>1. caller[k] = q /\ rstate[q] = "checked"
        BY <2>2, <3>3 DEF Resumptions, Callers, Waiting
      <4>2. on[c] = q
        BY <1>4, <4>1 DEF Resumptions, Threads, HomeOf
      <4> QED
        BY <1>1, <4>2, ResumptionFacts
    <3> QED
      BY <3>1, <3>2, <3>3
  <2> QED
    BY <2>1, <2>2
<1>8. Threads'
  BY <1>1, <1>7 DEF Resumptions, Threads
<1>9. Spawned'
  <2>1. ASSUME NEW e \in Contexts, NEW j \in Range(runq'[e])
        PROVE  ToResume(j)' /\ HomeOf(j)' = e
    <3>1. j # k /\ ToResume(j) /\ HomeOf(j) = e
      BY <1>6 DEF Resumptions, Spawned
    <3> QED
      BY <1>1, <1>7, <3>1 DEF ToResume, HomeOf
  <2>2. phase = "spawn" =>
          /\ ToResume(matched)' /\ HomeOf(matched)' \in Contexts
          /\ \A e \in Contexts : matched \notin Range(runq'[e])
    BY <1>1, <1>4, <1>6, <1>7 DEF Resumptions, Spawned, ToResume, HomeOf
  <2> QED
    BY <1>1, <1>6, <2>1, <2>2 DEF Spawned
<1>10. OnTheWay'
  <2> SUFFICES ASSUME NEW q \in Receivers,
                      rstate'[q] \in {"checked", "suspended"},
                      result[rcall'[q]] # 0,
                      CtxOf[q] \in Contexts, ctx[CtxOf[q]] = "live"
               PROVE  \/ rcall'[q] \in Range(runq'[CtxOf[q]])
                      \/ phase = "spawn" /\ matched = rcall'[q]
    BY <1>1 DEF OnTheWay
  <2>1. /\ rstate'[q] = rstate[q] /\ rcall'[q] = rcall[q] /\ rcall[q] # k
    BY <1>7
  <2>2. \/ rcall[q] \in Range(runq[CtxOf[q]])
        \/ phase = "spawn" /\ matched = rcall[q]
    BY <2>1 DEF Resumptions, OnTheWay
  <2> QED
    BY <1>6, <2>1, <2>2
<1> QED
  BY <1>7, <1>8, <1>9, <1>10 DEF Resumptions

LEMMA ContextResumptions ==
  ASSUME IInv, Resumptions, NEW c \in Contexts, Release(c) \/ Join(c)
  PROVE  Resumptions'
<1>1. /\ UNCHANGED ncalled /\ UNCHANGED caller /\ UNCHANGED result
      /\ UNCHANGED handle /\ UNCHANGED got /\ UNCHANGED rstate
      /\ UNCHANGED rcall /\ UNCHANGED on /\ UNCHANGED runq
      /\ UNCHANGED phase /\ UNCHANGED matched /\ UNCHANGED mtx_
      /\ \A e \in Contexts : ctx'[e] = "live" => ctx[e] = "live"
  BY ResumptionFacts
     DEF Release, Join, queueVars, senderVars, taskVars, receiverVars
<1> QED
  BY <1>1 DEF Resumptions, Callers, Waiting, Threads, Spawned, ToResume,
     HomeOf, OnTheWay

LEMMA NextResumptions == IInv /\ Resumptions /\ [Next]_vars => Resumptions'
<1> SUFFICES ASSUME IInv, Resumptions, [Next]_vars PROVE Resumptions'
  OBVIOUS
<1>1. CASE Sender
  BY <1>1, SendQueuesResumptions, SendPairsResumptions, SendSpawnsResumptions,
     SendEndsResumptions DEF Sender
<1>2. CASE Begin
  BY <1>2, BeginSendResumptions, BeginRecvResumptions, ContextResumptions
     DEF Begin
<1>3. ASSUME NEW r \in Receivers, Receiver(r)
      PROVE  Resumptions'
  BY <1>3, RecvResumptions, AwaitReadyResumptions, AwaitNotReadyResumptions,
     AwaitSuspendResumptions DEF Receiver
<1>4. ASSUME NEW c \in Contexts, Context(c)
      PROVE  Resumptions'
  BY <1>4, ResumeResumptions, ContextResumptions DEF Context
<1>5. CASE Quiet \/ UNCHANGED vars
  BY <1>5 DEF Quiet, vars, Resumptions, Callers, Waiting, Threads, Spawned,
     ToResume, HomeOf, OnTheWay
<1> QED
  BY <1>1, <1>2, <1>3, <1>4, <1>5 DEF Next

LEMMA AlwaysResumptions == Spec => []Resumptions
  BY Invariance, InitResumptions, NextResumptions, PTL DEF Spec

\* A receiver that suspended although its value had just arrived is not
\* forgotten: its resumption is spawned or about to be, as long as its context
\* lives (channel.h:29-31).
THEOREM ResumedOnTheWay == Spec => []ResumeOnTheWay
<1>1. Resumptions => ResumeOnTheWay
  BY DEF Resumptions, OnTheWay, ResumeOnTheWay
<1> QED
  BY <1>1, AlwaysResumptions, PTL

\* The routine that finds a null handle belongs to a receiver that took its
\* value in await_ready, never to one that is still about to suspend
\* (channel.h:31, task.h:54).
THEOREM OnlyLate == Spec => []SpuriousOnlyLate
<1>1. IInv /\ Resumptions => SpuriousOnlyLate
  <2> SUFFICES ASSUME IInv, Resumptions, NEW c \in Contexts,
                      NEW k \in Range(runq[c]), on[c] = NoOne, ~handle[k],
                      got[k] = 0
               PROVE  FALSE
    BY DEF SpuriousOnlyLate
  <2>1. k \in Calls /\ k <= ncalled /\ caller[k] \in Receivers /\ CtxOf[caller[k]] = c
    BY DEF Resumptions, Spawned, ToResume, HomeOf, Callers
  <2>2. rcall[caller[k]] = k /\ Waiting(caller[k])
    BY <2>1 DEF Resumptions, Callers
  <2>3. rstate[caller[k]] \in {"called", "checked"}
    BY <2>1, <2>2 DEF Resumptions, Callers, Waiting
  <2>4. on[c] = caller[k]
    BY <2>1, <2>3 DEF Resumptions, Threads
  <2> QED
    BY <2>1, <2>4, ResumptionFacts
<1> QED
  BY <1>1, Invariance, AlwaysResumptions, PTL

-----------------------------------------------------------------------------
(* One thread: a third invariant, when all of a channel's users share one   *)
(* context.                                                                 *)

OneContext ==
    \E c \in Contexts : SendFrom \subseteq {c} /\ \A r \in Receivers : CtxOf[r] = c

\* Nothing is spawned for a receiver that has not suspended.
Suspended ==
    /\ \A c \in Contexts : \A k \in Range(runq[c]) : handle[k]
    /\ phase = "spawn" => handle[matched]
    /\ crash # "null_resume"

\* A sender never meets a receiver between recv() and await_suspend.
LEMMA MatchedSuspended ==
  ASSUME OneContext, IInv, Resumptions, NEW p \in Places, SendMatches(p)
  PROVE  handle[Head(pending_tasks_)]
<1> PICK k : k = Head(pending_tasks_)
  OBVIOUS
<1>1. on[p] = Sending /\ pending_tasks_ # <<>>
  BY DEF SendMatches
<1>2. k \in Calls /\ k <= ncalled /\ got[k] = 0
  BY <1>1, OldestWaiting
<1> PICK r : r = caller[k]
  OBVIOUS
<1>3. r \in Receivers /\ rcall[r] = k /\ Waiting(r)
  BY <1>2 DEF Resumptions, Callers
<1>4. CtxOf[r] = p
  BY <1>1, <1>3 DEF OneContext, Resumptions, Threads
<1>5. rstate[r] = "suspended"
  BY <1>1, <1>3, <1>4, ResumptionFacts DEF Resumptions, Threads, Waiting
<1> QED
  BY <1>3, <1>5 DEF Resumptions, Callers

LEMMA NextSuspended ==
  ASSUME OneContext
  PROVE  IInv /\ Resumptions /\ Suspended /\ [Next]_vars => Suspended'
<1> SUFFICES ASSUME IInv, Resumptions, Suspended, [Next]_vars PROVE Suspended'
  OBVIOUS
<1>1. ASSUME NEW p \in Places, SendMatches(p)
      PROVE  Suspended'
  <2>1. handle[Head(pending_tasks_)]
    BY <1>1, MatchedSuspended
  <2> QED
    BY <1>1, <2>1 DEF SendMatches, Suspended
<1>2. CASE SendSpawns
  <2>1. /\ ToResume(matched) /\ matched \in Calls /\ handle[matched]
        /\ HomeOf(matched) \in Contexts
    BY <1>2 DEF SendSpawns, Resumptions, Spawned, ToResume, Suspended
  <2>2. runq[HomeOf(matched)] \in Seq(Calls)
    BY <2>1, ResumptionFacts
  <2>3. Range(Append(runq[HomeOf(matched)], matched)) =
          Range(runq[HomeOf(matched)]) \union {matched}
    BY <2>1, <2>2, AppendRange
  <2>4. \A c \in Contexts : \A k \in Range(runq'[c]) : handle[k]
    BY <1>2, <2>1, <2>3, ResumptionFacts DEF SendSpawns, Suspended
  <2> QED
    BY <1>2, <2>4 DEF SendSpawns, Suspended, taskVars
<1>3. ASSUME NEW c \in Contexts, Resume(c)
      PROVE  Suspended'
  <2>1. runq[c] \in Seq(Calls) /\ runq[c] # <<>>
    BY <1>3, ResumptionFacts DEF Resume
  <2>2. Range(Tail(runq[c])) \subseteq Range(runq[c]) /\ Head(runq[c]) \in Range(runq[c])
    BY <2>1, HeadTailRange
  <2>3. handle[Head(runq[c])]
    BY <2>2 DEF Suspended
  <2>4. UNCHANGED crash
    BY <1>3, <2>3 DEF Resume
  <2>5. \A e \in Contexts : Range(runq'[e]) \subseteq Range(runq[e])
    BY <1>3, <2>2, ResumptionFacts DEF Resume
  <2> QED
    BY <1>3, <2>4, <2>5 DEF Resume, Suspended, senderVars
<1>4. ASSUME NEW r \in Receivers, await_suspend(r)
      PROVE  Suspended'
  <2>1. \A k : handle[k] => handle'[k]
    BY <1>4, ResumptionFacts DEF await_suspend, Resumptions, Callers, Waiting
  <2> QED
    BY <1>4, <2>1 DEF await_suspend, Suspended, senderVars
<1>5. ASSUME NEW p \in Places, SendQueues(p) \/ SendToNobody(p) \/ BeginSend(p)
      PROVE  Suspended'
  BY <1>5 DEF SendQueues, SendToNobody, BeginSend, Suspended, senderVars,
     taskVars
<1>6. CASE SendDrops \/ SendDestroys \/ SendJoins
  BY <1>6 DEF SendDrops, SendDestroys, SendJoins, SendReturns, Suspended,
     taskVars
<1>7. ASSUME NEW r \in Receivers,
             BeginRecv(r) \/ recv(r) \/ AwaitReady(r) \/ AwaitNotReady(r)
      PROVE  Suspended'
  BY <1>7 DEF BeginRecv, recv, AwaitReady, AwaitNotReady, Suspended,
     senderVars, taskVars
<1>8. ASSUME NEW c \in Contexts, Release(c) \/ Join(c)
      PROVE  Suspended'
  BY <1>8 DEF Release, Join, Suspended, senderVars, taskVars
<1>9. CASE Quiet \/ UNCHANGED vars
  BY <1>9 DEF Quiet, vars, Suspended
<1> QED
  BY <1>1, <1>2, <1>3, <1>4, <1>5, <1>6, <1>7, <1>8, <1>9, ResumptionFacts
     DEF Next, Sender, Receiver, Context, Begin

\* When all senders and receivers run on one context's thread, no routine finds
\* a null handle: send() never runs between a recv() and its await_suspend
\* (channel.h:31, task.h:46-54).
THEOREM NoNullResumeOnOneContext ==
  ASSUME OneContext
  PROVE  Spec => []NoNullResume
<1>1. Init => Suspended
  BY EmptyRange DEF Init, Suspended
<1>2. Suspended => NoNullResume
  BY DEF Suspended, NoNullResume
<1> QED
  BY <1>1, <1>2, NextSuspended, Invariance, AlwaysResumptions, PTL DEF Spec
-----------------------------------------------------------------------------
(* Nothing that was sent or called is lost.                                 *)

\* Call k has its value, and its receiver is about to look for it, or to be
\* resumed, if its context lives.
Delivering(k) ==
    LET r == caller[k]  c == CtxOf[r] IN
    /\ rcall[r] = k
    /\ \/ rstate[r] \in {"called", "checked"} /\ on[c] = r
       \/ rstate[r] = "suspended" /\ handle[k]
    /\ rstate[r] # "called" /\ c \in Contexts /\ ctx[c] = "live" =>
         k \in Range(runq[c]) \/ (phase = "spawn" /\ matched = k)

\* A value or a call without a partner is queued; a pair was yielded, or is
\* being delivered.
NoneMissed ==
    /\ \A k \in 1..nsent : k > ncalled => k \in Range(ready_values_)
    /\ \A k \in Calls : k <= ncalled =>
         IF k > nsent THEN k \in Range(pending_tasks_)
                      ELSE got[k] = k \/ Delivering(k)

\* What a queue of consecutive numbers holds.
LEMMA ConsecutiveRange ==
  ASSUME NEW S, NEW s \in Seq(S), NEW first \in Nat, Consecutive(s, first),
         NEW k \in Nat, first <= k, k < first + Len(s)
  PROVE  k \in Range(s)
<1>1. Len(s) \in Nat /\ DOMAIN s = 1..Len(s)
  OBVIOUS
<1>2. PICK i \in 1..Len(s) : i = k - first + 1
  BY <1>1
<1>3. s[i] = k
  BY <1>1, <1>2 DEF Consecutive
<1> QED
  BY <1>1, <1>3 DEF Range

\* Of every send and every recv(), from the moment each took effect: the one
\* without a partner waits in its deque, and a pair is with its receiver,
\* which finds it in await_ready or is resumed for it as long as its context
\* lives.  This is the safety core of PairMeets.
THEOREM PairsInHand == Spec => []NoneMissed
<1>1. IInv /\ Resumptions => NoneMissed
  <2> SUFFICES ASSUME IInv, Resumptions PROVE NoneMissed
    OBVIOUS
  <2> DEFINE V == Len(ready_values_)  T == Len(pending_tasks_)
  <2>1. /\ ready_values_ \in Seq(1..MaxSends) /\ pending_tasks_ \in Seq(Calls)
        /\ V \in Nat /\ T \in Nat /\ nsent \in Nat /\ ncalled \in Nat
        /\ nsent + T = ncalled + V /\ (V = 0 \/ T = 0)
        /\ Consecutive(ready_values_, ncalled + 1)
        /\ Consecutive(pending_tasks_, nsent + 1)
    <3>1. /\ ready_values_ \in Seq(1..MaxSends) /\ pending_tasks_ \in Seq(Calls)
          /\ nsent \in Nat /\ ncalled \in Nat
      BY ResumptionFacts DEF IInv, TypeOK
    <3>2. V \in Nat /\ T \in Nat
      BY <3>1
    <3>3. V = 0 \/ T = 0
      BY DEF IInv, Shape
    <3> QED
      BY <3>1, <3>2, <3>3 DEF IInv, Shape
  <2> HIDE DEF V, T
  <2>2. ASSUME NEW k \in 1..nsent, k > ncalled
        PROVE  k \in Range(ready_values_)
    <3>1. k \in Nat /\ ncalled + 1 <= k /\ k < ncalled + 1 + V
      BY <2>1, <2>2
    <3> QED
      BY <2>1, <3>1, ConsecutiveRange DEF V
  <2>3. ASSUME NEW k \in Calls, k <= ncalled, k > nsent
        PROVE  k \in Range(pending_tasks_)
    <3>1. k \in Nat /\ nsent + 1 <= k /\ k < nsent + 1 + T
      BY <2>1, <2>3, ResumptionFacts
    <3> QED
      BY <2>1, <3>1, ConsecutiveRange DEF T
  <2>4. ASSUME NEW k \in Calls, k <= ncalled, k <= nsent, got[k] # k
        PROVE  Delivering(k)
    <3>1. got[k] = 0 /\ result[k] # 0
      BY <2>4, ResumptionFacts DEF IInv, Yields
    <3>2. PICK r \in Receivers : r = caller[k] /\ rcall[r] = k /\ Waiting(r)
      BY <2>4, <3>1 DEF Resumptions, Callers
    <3>3. rstate[r] \in {"called", "checked"} => on[CtxOf[r]] = r
      BY DEF Resumptions, Threads
    <3>4. rstate[r] = "suspended" => handle[k]
      BY <3>2 DEF Resumptions, Callers
    <3>5. /\ rstate[r] # "called" /\ CtxOf[r] \in Contexts
          /\ ctx[CtxOf[r]] = "live"
          => k \in Range(runq[CtxOf[r]]) \/ (phase = "spawn" /\ matched = k)
      BY <3>1, <3>2 DEF Waiting, Resumptions, OnTheWay
    <3> QED
      BY <3>2, <3>3, <3>4, <3>5 DEF Delivering, Waiting
  <2>5. \A k \in Calls : k <= nsent \/ k > nsent
    BY <2>1, ResumptionFacts
  <2> QED
    BY <2>2, <2>3, <2>4, <2>5 DEF NoneMissed
<1> QED
  BY <1>1, Invariance, AlwaysResumptions, PTL
=============================================================================
