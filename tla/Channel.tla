------------------------------ MODULE Channel ------------------------------
(***************************************************************************)
(* bco::Channel (include/bco/coroutine/channel.h) with the Task it hands   *)
(* out (coroutine/task.h) and the part of Context it uses: lock() of a     *)
(* weak_ptr and spawn() to the context's executor.                         *)
(*                                                                         *)
(* Receivers are coroutines.  Each runs on the thread of a context, or on  *)
(* a thread without one (NoCtx), and takes the steps of co_await: recv()   *)
(* under mtx_, await_ready, await_suspend.  A sender holds mtx_ while it   *)
(* matches the oldest waiting recv(), sets its result and spawns a routine *)
(* that resumes it; the shared_ptr it locked meanwhile may become the last *)
(* reference to the context, whose destructor then runs inside send().     *)
(* A value is the number of its send(), a call the number of its recv().   *)
(***************************************************************************)
EXTENDS Naturals, Sequences, FiniteSets, Functions

CONSTANTS
    Receivers,
    Contexts,       \* contexts with an executor thread of their own
    NoCtx,          \* a thread with no current context
    CtxOf,          \* CtxOf[r]: where receiver r runs
    SendFrom,       \* the threads that call send()
    Releasable,     \* the contexts whose owner may drop them
    NoOne, Sending, \* a thread that is free; one that is inside send()
    MaxSends, MaxCalls

Places == Contexts \union {NoCtx}

ASSUME ChannelAssumption ==
    /\ NoCtx \notin Contexts
    /\ CtxOf \in [Receivers -> Places]
    /\ SendFrom \subseteq Places
    /\ Releasable \subseteq Contexts
    /\ Sending \notin Receivers /\ NoOne \notin Receivers \union {Sending}
    /\ NoOne \notin Places
    /\ MaxSends \in Nat /\ MaxCalls \in Nat

Calls == 1..MaxCalls

VARIABLES
    nsent, ncalled,     \* sends and recvs that have taken effect
    ready_values_,      \* std::deque<T>
    pending_tasks_,     \* std::deque<Item>, by call
    mtx_,               \* the place holding the mutex, or NoOne
    phase,              \* what the holder does next: "none", "spawn", ...
    matched,            \* the call the holder has matched
    caller,             \* caller[k]: the receiver that made call k
    result,             \* result[k]: Task::result_, 0 for nullopt
    handle,             \* handle[k]: caller_coroutine_ of k has been set
    got,                \* got[k]: what await_resume of call k returned
    rstate, rcall,      \* each receiver's progress and current call
    on,                 \* on[p]: what the thread of place p is inside of
    runq,               \* runq[c]: the calls whose resumption is spawned
    owned,              \* the contexts whose owner holds its reference
    ctx,                \* ctx[c]: "live", "expired" or "gone"
    crash               \* undefined behaviour or termination, or "no"

queueVars == <<nsent, ncalled, ready_values_, pending_tasks_>>
senderVars == <<mtx_, phase, matched>>
taskVars == <<caller, result, handle, got>>
receiverVars == <<rstate, rcall>>
contextVars == <<owned, ctx>>
vars == <<nsent, ncalled, ready_values_, pending_tasks_, mtx_, phase, matched,
          caller, result, handle, got, rstate, rcall, on, runq, owned, ctx,
          crash>>

TypeOK ==
    /\ nsent \in 0..MaxSends /\ ncalled \in 0..MaxCalls
    /\ ready_values_ \in Seq(1..MaxSends)
    /\ pending_tasks_ \in Seq(Calls)
    /\ mtx_ \in Places \union {NoOne}
    /\ phase \in {"none", "spawn", "drop", "join"}
    /\ matched \in 0..MaxCalls
    /\ caller \in [Calls -> Receivers \union {NoOne}]
    /\ result \in [Calls -> 0..MaxSends]
    /\ handle \in [Calls -> BOOLEAN]
    /\ got \in [Calls -> 0..MaxSends]
    /\ rstate \in [Receivers -> {"idle", "locking", "called", "checked",
                                 "suspended"}]
    /\ rcall \in [Receivers -> 0..MaxCalls]
    /\ on \in [Places -> Receivers \union {NoOne, Sending}]
    /\ runq \in [Contexts -> Seq(Calls)]
    /\ owned \in SUBSET Contexts
    /\ ctx \in [Contexts -> {"live", "expired", "gone"}]
    /\ crash \in {"no", "null_resume", "self_join"}

Init ==
    /\ nsent = 0 /\ ncalled = 0
    /\ ready_values_ = <<>> /\ pending_tasks_ = <<>>
    /\ mtx_ = NoOne /\ phase = "none" /\ matched = 0
    /\ caller = [k \in Calls |-> NoOne]
    /\ result = [k \in Calls |-> 0]
    /\ handle = [k \in Calls |-> FALSE]
    /\ got = [k \in Calls |-> 0]
    /\ rstate = [r \in Receivers |-> "idle"]
    /\ rcall = [r \in Receivers |-> 0]
    /\ on = [p \in Places |-> NoOne]
    /\ runq = [c \in Contexts |-> <<>>]
    /\ owned = Contexts
    /\ ctx = [c \in Contexts |-> "live"]
    /\ crash = "no"

\* The thread of p exists and is inside neither send() nor co_await.
Free(p) == on[p] = NoOne /\ p \notin {c \in Contexts : ctx[c] = "gone"}

\* The send()s and recv()s that were begun and have not taken effect.
\* MaxSends and MaxCalls bound those that are begun.
BegunSends == Cardinality({p \in Places : on[p] = Sending /\ mtx_ # p})
BegunCalls == Cardinality({r \in Receivers : rstate[r] = "locking"})
-----------------------------------------------------------------------------
(* send()                                                                   *)

BeginSend(p) ==
    /\ Free(p) /\ nsent + BegunSends < MaxSends
    /\ on' = [on EXCEPT ![p] = Sending]
    /\ UNCHANGED <<queueVars, senderVars, taskVars, receiverVars, runq,
                   contextVars, crash>>

\* Variant of SendQueues: push_front for push_back.
SendQueues_front(p) ==
    /\ on[p] = Sending /\ mtx_ = NoOne /\ nsent < MaxSends
    /\ pending_tasks_ = <<>>
    /\ nsent' = nsent + 1
    /\ ready_values_' = <<nsent + 1>> \o ready_values_
    /\ on' = [on EXCEPT ![p] = NoOne]
    /\ UNCHANGED <<ncalled, pending_tasks_, senderVars, taskVars,
                   receiverVars, runq, contextVars, crash>>

\* No recv() is waiting: the value is queued.
SendQueues(p) ==
    /\ on[p] = Sending /\ mtx_ = NoOne /\ nsent < MaxSends
    /\ pending_tasks_ = <<>>
    /\ nsent' = nsent + 1
    /\ ready_values_' = Append(ready_values_, nsent + 1)
    /\ on' = [on EXCEPT ![p] = NoOne]
    /\ UNCHANGED <<ncalled, pending_tasks_, senderVars, taskVars,
                   receiverVars, runq, contextVars, crash>>

HomeOf(k) == CtxOf[caller[k]]
LockFails(k) == HomeOf(k) \notin {c \in Contexts : ctx[c] = "live"}

\* The oldest waiting recv() gets the value, and item.ctx.lock() is null:
\* there is nobody to resume it.
SendToNobody(p) ==
    /\ on[p] = Sending /\ mtx_ = NoOne /\ nsent < MaxSends
    /\ pending_tasks_ # <<>>
    /\ LockFails(Head(pending_tasks_))
    /\ nsent' = nsent + 1
    /\ result' = [result EXCEPT ![Head(pending_tasks_)] = nsent + 1]
    /\ pending_tasks_' = Tail(pending_tasks_)
    /\ on' = [on EXCEPT ![p] = NoOne]
    /\ UNCHANGED <<ncalled, ready_values_, senderVars, caller, handle, got,
                   receiverVars, runq, contextVars, crash>>

\* The oldest waiting recv() gets the value, and the sender now holds a
\* reference to its context.
SendMatches(p) ==
    /\ on[p] = Sending /\ mtx_ = NoOne /\ nsent < MaxSends
    /\ pending_tasks_ # <<>>
    /\ ~LockFails(Head(pending_tasks_))
    /\ nsent' = nsent + 1
    /\ result' = [result EXCEPT ![Head(pending_tasks_)] = nsent + 1]
    /\ pending_tasks_' = Tail(pending_tasks_)
    /\ mtx_' = p
    /\ matched' = Head(pending_tasks_)
    /\ phase' = "spawn"
    /\ UNCHANGED <<ncalled, ready_values_, caller, handle, got, receiverVars,
                   on, runq, contextVars, crash>>

\* Variant of SendSpawns: nothing is spawned for a receiver that has not
\* suspended yet.
SendSpawns_if_suspended ==
    /\ phase = "spawn"
    /\ runq' = [runq EXCEPT ![HomeOf(matched)] =
                  IF handle[matched] THEN Append(@, matched) ELSE @]
    /\ phase' = "drop"
    /\ UNCHANGED <<queueVars, mtx_, matched, taskVars, receiverVars, on,
                   contextVars, crash>>

\* ctx->spawn() posts the routine that resumes the receiver.
SendSpawns ==
    /\ phase = "spawn"
    /\ runq' = [runq EXCEPT ![HomeOf(matched)] = Append(@, matched)]
    /\ phase' = "drop"
    /\ UNCHANGED <<queueVars, mtx_, matched, taskVars, receiverVars, on,
                   contextVars, crash>>

SendReturns ==
    /\ mtx_' = NoOne /\ phase' = "none" /\ matched' = 0
    /\ on' = [on EXCEPT ![mtx_] = NoOne]

\* The reference is dropped, then mtx_ released.
SendDrops ==
    /\ phase = "drop"
    /\ HomeOf(matched) \in owned
    /\ SendReturns
    /\ UNCHANGED <<queueVars, taskVars, receiverVars, runq, contextVars, crash>>

\* It was the last reference: the context's destructor runs, mtx_ held, and
\* joins the executor's thread, which must not be this one.
SendDestroys ==
    /\ phase = "drop"
    /\ HomeOf(matched) \notin owned
    /\ phase' = "join"
    /\ ctx' = [ctx EXCEPT ![HomeOf(matched)] = "expired"]
    /\ crash' = IF mtx_ = HomeOf(matched) THEN "self_join" ELSE crash
    /\ UNCHANGED <<queueVars, mtx_, matched, taskVars, receiverVars, on, runq,
                   owned>>

SendJoins ==
    /\ phase = "join" /\ on[HomeOf(matched)] = NoOne
    /\ ctx' = [ctx EXCEPT ![HomeOf(matched)] = "gone"]
    /\ SendReturns
    /\ UNCHANGED <<queueVars, taskVars, receiverVars, runq, owned, crash>>
-----------------------------------------------------------------------------
(* co_await recv()                                                          *)

BeginRecv(r) ==
    /\ rstate[r] = "idle" /\ Free(CtxOf[r])
    /\ ncalled + BegunCalls < MaxCalls
    /\ rstate' = [rstate EXCEPT ![r] = "locking"]
    /\ on' = [on EXCEPT ![CtxOf[r]] = r]
    /\ UNCHANGED <<queueVars, senderVars, taskVars, rcall, runq, contextVars,
                   crash>>

\* Variant of recv: the front of ready_values_ is read and not popped.
recv_keeps_front(r) ==
    /\ rstate[r] = "locking" /\ mtx_ = NoOne /\ ncalled < MaxCalls
    /\ ncalled' = ncalled + 1
    /\ caller' = [caller EXCEPT ![ncalled + 1] = r]
    /\ rcall' = [rcall EXCEPT ![r] = ncalled + 1]
    /\ rstate' = [rstate EXCEPT ![r] = "called"]
    /\ \/ /\ ready_values_ = <<>>
          /\ pending_tasks_' = Append(pending_tasks_, ncalled + 1)
          /\ UNCHANGED result
       \/ /\ ready_values_ # <<>>
          /\ result' = [result EXCEPT ![ncalled + 1] = Head(ready_values_)]
          /\ UNCHANGED pending_tasks_
    /\ UNCHANGED <<nsent, ready_values_, senderVars, handle, got, on, runq,
                   contextVars, crash>>

\* recv(): the call gets the oldest ready value, or joins the waiting ones.
recv(r) ==
    /\ rstate[r] = "locking" /\ mtx_ = NoOne /\ ncalled < MaxCalls
    /\ ncalled' = ncalled + 1
    /\ caller' = [caller EXCEPT ![ncalled + 1] = r]
    /\ rcall' = [rcall EXCEPT ![r] = ncalled + 1]
    /\ rstate' = [rstate EXCEPT ![r] = "called"]
    /\ \/ /\ ready_values_ = <<>>
          /\ pending_tasks_' = Append(pending_tasks_, ncalled + 1)
          /\ UNCHANGED <<ready_values_, result>>
       \/ /\ ready_values_ # <<>>
          /\ result' = [result EXCEPT ![ncalled + 1] = Head(ready_values_)]
          /\ ready_values_' = Tail(ready_values_)
          /\ UNCHANGED pending_tasks_
    /\ UNCHANGED <<nsent, senderVars, handle, got, on, runq, contextVars,
                   crash>>

\* co_await yields the value of call k to receiver r.
await_resume(r, k) ==
    /\ got' = [got EXCEPT ![k] = result[k]]
    /\ rstate' = [rstate EXCEPT ![r] = "idle"]
    /\ rcall' = [rcall EXCEPT ![r] = 0]

\* await_ready, without the mutex: the receiver goes on at once.
AwaitReady(r) ==
    /\ rstate[r] = "called" /\ result[rcall[r]] # 0
    /\ await_resume(r, rcall[r])
    /\ on' = [on EXCEPT ![CtxOf[r]] = NoOne]
    /\ UNCHANGED <<queueVars, senderVars, caller, result, handle, runq,
                   contextVars, crash>>

AwaitNotReady(r) ==
    /\ rstate[r] = "called" /\ result[rcall[r]] = 0
    /\ rstate' = [rstate EXCEPT ![r] = "checked"]
    /\ UNCHANGED <<queueVars, senderVars, taskVars, rcall, on, runq,
                   contextVars, crash>>

\* Variant of await_suspend: the coroutine's handle is not stored.
await_suspend_no_handle(r) ==
    /\ rstate[r] = "checked"
    /\ rstate' = [rstate EXCEPT ![r] = "suspended"]
    /\ on' = [on EXCEPT ![CtxOf[r]] = NoOne]
    /\ UNCHANGED <<queueVars, senderVars, taskVars, rcall, runq, contextVars,
                   crash>>

\* The coroutine is suspended and its thread goes back to its executor.
await_suspend(r) ==
    /\ rstate[r] = "checked"
    /\ handle' = [handle EXCEPT ![rcall[r]] = TRUE]
    /\ rstate' = [rstate EXCEPT ![r] = "suspended"]
    /\ on' = [on EXCEPT ![CtxOf[r]] = NoOne]
    /\ UNCHANGED <<queueVars, senderVars, caller, result, got, rcall, runq,
                   contextVars, crash>>

\* The executor runs the oldest spawned routine: item.task.resume().
Resume(c) ==
    /\ Free(c) /\ runq[c] # <<>>
    /\ runq' = [runq EXCEPT ![c] = Tail(@)]
    /\ LET k == Head(runq[c]) IN
       \/ /\ handle[k]
          /\ await_resume(caller[k], k)
          /\ UNCHANGED crash
       \/ /\ ~handle[k]
          /\ crash' = "null_resume"
          /\ UNCHANGED <<got, receiverVars>>
    /\ UNCHANGED <<queueVars, senderVars, caller, result, handle, on,
                   contextVars>>
-----------------------------------------------------------------------------
(* The owner of a context drops it.                                         *)

Release(c) ==
    /\ c \in Releasable /\ c \in owned
    /\ owned' = owned \ {c}
    /\ ctx' = IF phase \in {"spawn", "drop"} /\ HomeOf(matched) = c
                THEN ctx ELSE [ctx EXCEPT ![c] = "expired"]
    /\ UNCHANGED <<queueVars, senderVars, taskVars, receiverVars, on, runq,
                   crash>>

\* The owner's destructor has joined the executor's thread; what is left in
\* its queue never runs.
Join(c) ==
    /\ ctx[c] = "expired" /\ on[c] = NoOne
    /\ ~(phase = "join" /\ HomeOf(matched) = c)
    /\ ctx' = [ctx EXCEPT ![c] = "gone"]
    /\ UNCHANGED <<queueVars, senderVars, taskVars, receiverVars, on, runq,
                   owned, crash>>
-----------------------------------------------------------------------------
Running == crash = "no"

Sender ==
    /\ Running
    /\ \/ \E p \in Places : SendQueues(p) \/ SendToNobody(p) \/ SendMatches(p)
       \/ SendSpawns \/ SendDrops \/ SendDestroys \/ SendJoins

Receiver(r) ==
    Running /\ (recv(r) \/ AwaitReady(r) \/ AwaitNotReady(r) \/ await_suspend(r))

Context(c) == Running /\ (Resume(c) \/ Join(c))

Begin ==
    /\ Running
    /\ \/ \E p \in SendFrom : BeginSend(p)
       \/ \E r \in Receivers : BeginRecv(r)
       \/ \E c \in Contexts : Release(c)

\* No thread is inside an operation and no routine is left to run, or the
\* program has crashed.
Quiet ==
    /\ \/ ~Running
       \/ /\ \A p \in Places : on[p] = NoOne
          /\ \A c \in Contexts : runq[c] = <<>> \/ ctx[c] = "gone"
    /\ UNCHANGED vars

Next ==
    \/ Sender \/ Begin \/ Quiet
    \/ \E r \in Receivers : Receiver(r)
    \/ \E c \in Contexts : Context(c)

Spec == Init /\ [][Next]_vars

\* An operation that was begun goes on, and every executor goes on running
\* what is spawned.  Nobody has to begin an operation.
FairSpec ==
    /\ Spec
    /\ WF_vars(Sender)
    /\ \A r \in Receivers : WF_vars(Receiver(r))
    /\ \A c \in Contexts : WF_vars(Context(c))
-----------------------------------------------------------------------------
(* Properties.                                                              *)

\* The k-th recv() has the value of the k-th send() as soon as both have been
\* made, and no other value ever: none is lost, doubled or overtaken, whoever
\* sends, receives, suspends or disappears.
MatchInOrder ==
    \A k \in Calls : result[k] = IF k <= nsent /\ k <= ncalled THEN k ELSE 0

\* A suspended receiver whose call has its value is about to be resumed as
\* long as its context lives.
ResumeOnTheWay ==
    \A r \in Receivers :
        LET k == rcall[r]  c == CtxOf[r] IN
        /\ rstate[r] = "suspended" /\ result[k] # 0
        /\ c \in Contexts /\ ctx[c] = "live"
        => k \in Range(runq[c]) \/ (phase = "spawn" /\ matched = k)

\* A routine that finds no coroutine to resume comes too late, not too early:
\* its receiver took the value in await_ready and never suspended.
SpuriousOnlyLate ==
    \A c \in Contexts : \A k \in Range(runq[c]) :
        on[c] = NoOne => handle[k] \/ got[k] # 0

\* When senders and receivers share one thread no routine resumes a call that
\* never suspended.
NoNullResume == crash # "null_resume"

\* Channel implements ChannelSpec.
Abstract == INSTANCE ChannelSpec
ImplementsChannel == Abstract!Spec

\* A sender that joins a context's thread, mtx_ held, while that thread waits
\* for mtx_: neither goes on.
Deadlocked == phase = "join" /\ on[HomeOf(matched)] # NoOne

\* Both halves of a pair lead to delivery to a receiver whose context lives,
\* unless the program crashes in a routine that comes too late, or send() has
\* destroyed a context whose thread waits for the channel.
PairMeets ==
    \A k \in Calls : \A r \in {r \in Receivers : CtxOf[r] \in Contexts} :
        k <= nsent /\ k <= ncalled /\ caller[k] = r
          ~> \/ got[k] = k
             \/ ctx[CtxOf[r]] # "live"
             \/ Deadlocked
             \/ ~Running
=============================================================================
