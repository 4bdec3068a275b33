----------------------------- MODULE Coroutines -----------------------------
(***************************************************************************)
(* Coroutines of bco (coroutine/task.h, cofunc.cpp) and what resumes them: *)
(* the awaitables switch_to and sleep_for return, and the Tasks of         *)
(* TcpSocket and UdpSocket, whose request is submitted when the Task is    *)
(* made and whose callback the executor of the proactor runs (proactor:    *)
(* Select, Epoll or IOCP, as ProactorSpec has it).                         *)
(*                                                                         *)
(* Each co_await is a wait with a number.  A resumed coroutine runs on the *)
(* thread that resumes it.  The current executor of a thread is a          *)
(* thread_local that SimpleExecutor sets when its thread starts; the       *)
(* threads of a MultithreadExecutor have none.                             *)
(***************************************************************************)
EXTENDS Naturals

CONSTANTS
    Coros,          \* the coroutines
    Threads,
    Executors,
    ExecOf,         \* ExecOf[th]: the executor whose jobs a thread runs
    Known,          \* the SimpleExecutors of a context, of one thread each
    Null,           \* no executor
    NoOne,          \* a thread that runs nothing
    MaxWaits        \* bound on the waits of all coroutines

ASSUME CoroutinesAssumption ==
    /\ ExecOf \in [Threads -> Executors]
    /\ Known \subseteq Executors /\ Null \notin Executors
    /\ \A th, th2 \in Threads :
         ExecOf[th] = ExecOf[th2] /\ ExecOf[th] \in Known => th = th2
    /\ NoOne \notin Coros
    /\ MaxWaits \in Nat

Waits == 1..MaxWaits

\* SwitchTask, DelayTask; a socket's recv, recvfrom, send or accept; a
\* socket's connect.
Kinds == {"switch", "delay", "io", "connect"}
Sockets == {"io", "connect"}

\* What is posted for a wait: its resume, or the callback of its request.
Jobs == {"resume", "callback"} \X Waits

\* Contexts outlive their coroutines.
get_current_executor(th) == IF ExecOf[th] \in Known THEN ExecOf[th] ELSE Null

VARIABLES
    nwait,
    kind, owner,    \* of each wait
    home,           \* home[k]: the current executor where k began, or Null
    at,             \* at[k]: the executor its job or callback is given to
    req,            \* req[k]: the request of a socket's wait
    result_,        \* result_[k], or "none"
    handle,         \* the waits whose caller_coroutine_ is set
    kept,           \* the Tasks made and not yet awaited
    late,           \* history: the Tasks another wait was begun before
    cstate, cwait,  \* each coroutine's progress and current wait
    on,             \* on[th]: the coroutine a thread is inside of
    jobs,           \* jobs[e]: what is posted to e
    crash           \* <<kind of failure, wait>>

waitVars == <<nwait, kind, owner, home, at>>
taskVars == <<req, result_, handle, kept, late>>
coroVars == <<cstate, cwait>>
vars == <<nwait, kind, owner, home, at, req, result_, handle, kept, late,
          cstate, cwait, on, jobs, crash>>

NoCrash == <<"no", 0>>

TypeOK ==
    /\ nwait \in 0..MaxWaits
    /\ kind \in [Waits -> Kinds \union {"none"}]
    /\ owner \in [Waits -> Coros \union {NoOne}]
    /\ home \in [Waits -> Executors \union {Null}]
    /\ at \in [Waits -> Executors \union {Null}]
    /\ req \in [Waits -> {"none", "pending", "queued", "called", "answered",
                          "failed"}]
    /\ result_ \in [Waits -> {"none", "value", "error"}]
    /\ handle \in SUBSET Waits
    /\ kept \in SUBSET Waits /\ late \in SUBSET Waits
    /\ cstate \in [Coros -> {"new", "running", "called", "checked",
                             "suspended", "finished"}]
    /\ cwait \in [Coros -> 0..MaxWaits]
    /\ on \in [Threads -> Coros \union {NoOne}]
    /\ jobs \in [Executors -> SUBSET Jobs]
    /\ crash \in {"no", "null_resume", "stray_resume", "null_executor"}
                   \X (0..MaxWaits)

Init ==
    /\ nwait = 0 /\ kind = [k \in Waits |-> "none"]
    /\ owner = [k \in Waits |-> NoOne]
    /\ home = [k \in Waits |-> Null] /\ at = home
    /\ req = [k \in Waits |-> "none"] /\ result_ = [k \in Waits |-> "none"]
    /\ handle = {} /\ kept = {} /\ late = {}
    /\ cstate = [c \in Coros |-> "new"] /\ cwait = [c \in Coros |-> 0]
    /\ on = [th \in Threads |-> NoOne]
    /\ jobs = [e \in Executors |-> {}] /\ crash = NoCrash

Free(th) == on[th] = NoOne
Runs(c, th) == on[th] = c /\ cstate[c] = "running"
-----------------------------------------------------------------------------
(* Coroutines.                                                              *)

\* Context::spawn_aux runs the coroutine as far as it goes.
Begin(c, th) ==
    /\ Free(th) /\ cstate[c] = "new"
    /\ cstate' = [cstate EXCEPT ![c] = "running"]
    /\ on' = [on EXCEPT ![th] = c]
    /\ UNCHANGED <<waitVars, taskVars, cwait, jobs, crash>>

Finish(c, th) ==
    /\ Runs(c, th)
    /\ cstate' = [cstate EXCEPT ![c] = "finished"]
    /\ on' = [on EXCEPT ![th] = NoOne]
    /\ UNCHANGED <<waitVars, taskVars, cwait, jobs, crash>>

NewWait(c, th, k, e) ==
    /\ Runs(c, th) /\ nwait < MaxWaits
    /\ nwait' = nwait + 1
    /\ kind' = [kind EXCEPT ![nwait + 1] = k]
    /\ owner' = [owner EXCEPT ![nwait + 1] = c]
    /\ home' = [home EXCEPT ![nwait + 1] = get_current_executor(th)]
    /\ at' = [at EXCEPT ![nwait + 1] = e]
    /\ UNCHANGED <<handle, on, jobs, crash>>

\* co_await of a SwitchTask or a DelayTask, where it is made.
CoAwait(c, th, k, e) ==
    /\ NewWait(c, th, k, e)
    /\ cstate' = [cstate EXCEPT ![c] = "called"]
    /\ cwait' = [cwait EXCEPT ![c] = nwait + 1]
    /\ late' = late \union kept
    /\ UNCHANGED <<req, result_, kept>>

switch_to(c, th, e) == CoAwait(c, th, "switch", e)
sleep_for(c, th) == CoAwait(c, th, "delay", get_current_executor(th))

\* A function of a socket: an error of the proactor is the Task's result, but
\* what it answers at once, dropping the callback, is not.  (A bound of the
\* model: nobody keeps two Tasks.)
Call(c, th, k, e) ==
    /\ NewWait(c, th, k, e)
    /\ kept = {}
    /\ \E answer \in {"pending", "answered", "failed"} :
         /\ req' = [req EXCEPT ![nwait + 1] = answer]
         /\ result_' = [result_ EXCEPT ![nwait + 1] =
                            IF answer = "failed" THEN "error" ELSE "none"]
    /\ kept' = {nwait + 1}
    /\ UNCHANGED <<late, coroVars>>

\* co_await of a Task the coroutine has made.
Await(c, th, k) ==
    /\ Runs(c, th)
    /\ k \in kept /\ owner[k] = c
    /\ kept' = kept \ {k} /\ late' = late \union (kept \ {k})
    /\ cstate' = [cstate EXCEPT ![c] = "called"]
    /\ cwait' = [cwait EXCEPT ![c] = k]
    /\ UNCHANGED <<waitVars, req, result_, handle, on, jobs,
                   crash>>

await_ready(c, th) ==
    /\ on[th] = c /\ cstate[c] = "called"
    /\ cstate' = [cstate EXCEPT ![c] =
            IF result_[cwait[c]] = "none" THEN "checked" ELSE "running"]
    /\ UNCHANGED <<waitVars, taskVars, cwait, on, jobs, crash>>

\* What await_suspend posts to at[k]: post(), or post_delay() when it is due.
Posted(k) == IF kind[k] \in Sockets THEN {} ELSE {<<"resume", k>>}

\* Variant of await_suspend: caller_coroutine_ is not set.
await_suspend_no_handle(c, th) ==
    LET k == cwait[c] IN
    /\ on[th] = c /\ cstate[c] = "checked"
    /\ cstate' = [cstate EXCEPT ![c] = "suspended"]
    /\ on' = [on EXCEPT ![th] = NoOne]
    /\ IF at[k] = Null
         THEN crash' = <<"null_executor", k>> /\ UNCHANGED jobs
         ELSE /\ jobs' = [jobs EXCEPT ![at[k]] = @ \union Posted(k)]
              /\ UNCHANGED crash
    /\ UNCHANGED <<waitVars, taskVars, cwait>>

\* The coroutine is suspended first: what is posted may resume it on another
\* thread at once.  A delay is posted through the current executor, if any.
await_suspend(c, th) ==
    LET k == cwait[c] IN
    /\ on[th] = c /\ cstate[c] = "checked"
    /\ handle' = handle \union {k}
    /\ cstate' = [cstate EXCEPT ![c] = "suspended"]
    /\ on' = [on EXCEPT ![th] = NoOne]
    /\ IF at[k] = Null
         THEN crash' = <<"null_executor", k>> /\ UNCHANGED jobs
         ELSE /\ jobs' = [jobs EXCEPT ![at[k]] = @ \union Posted(k)]
              /\ UNCHANGED crash
    /\ UNCHANGED <<waitVars, req, result_, kept, late, cwait>>
-----------------------------------------------------------------------------
(* The proactors.                                                           *)

\* Variant of Complete: the request stays where it was submitted and ends
\* again after its callback.
Complete_kept(k) ==
    /\ req[k] \in {"pending", "called"}
    /\ req' = [req EXCEPT ![k] = "queued"]
    /\ jobs' = [jobs EXCEPT ![at[k]] = @ \union {<<"callback", k>>}]
    /\ UNCHANGED <<waitVars, result_, handle, kept, late, coroVars, on, crash>>

\* A request ends and its executor harvests the callback.
Complete(k) ==
    /\ req[k] = "pending"
    /\ req' = [req EXCEPT ![k] = "queued"]
    /\ jobs' = [jobs EXCEPT ![at[k]] = @ \union {<<"callback", k>>}]
    /\ UNCHANGED <<waitVars, result_, handle, kept, late, coroVars, on, crash>>
-----------------------------------------------------------------------------
(* Executors: a free thread runs a job.                                     *)

\* caller_coroutine_.resume()
Resume(k, th) ==
    LET c == owner[k] IN
    IF k \notin handle
      THEN crash' = <<"null_resume", k>> /\ UNCHANGED <<cstate, on>>
    ELSE IF cwait[c] # k \/ cstate[c] # "suspended"
      THEN crash' = <<"stray_resume", k>> /\ UNCHANGED <<cstate, on>>
    ELSE /\ cstate' = [cstate EXCEPT ![c] = "running"]
         /\ on' = [on EXCEPT ![th] = c]
         /\ UNCHANGED crash

Take(th, job) ==
    /\ Free(th) /\ job \in jobs[ExecOf[th]]
    /\ jobs' = [jobs EXCEPT ![ExecOf[th]] = @ \ {job}]

\* SwitchTask and DelayTask are resumed through the awaitable.
RunResume(th, k) ==
    /\ Take(th, <<"resume", k>>)
    /\ Resume(k, th)
    /\ UNCHANGED <<waitVars, taskVars, cwait>>

\* Variant of RunCallback: the result is not set.
RunCallback_no_result(th, k) ==
    /\ Take(th, <<"callback", k>>)
    /\ req' = [req EXCEPT ![k] = "called"]
    /\ IF kind[k] = "io" /\ result_[k] # "none"
         THEN UNCHANGED <<cstate, on, crash>>
         ELSE Resume(k, th)
    /\ UNCHANGED <<waitVars, result_, handle, kept, late, cwait>>

\* Variant of RunCallback: the result is set and nobody is resumed.
RunCallback_no_resume(th, k) ==
    /\ Take(th, <<"callback", k>>)
    /\ req' = [req EXCEPT ![k] = "called"]
    /\ result_' = [result_ EXCEPT ![k] = "value"]
    /\ UNCHANGED <<waitVars, handle, kept, late, coroVars, on, crash>>

\* The callback of a socket; only that of connect does not look at result_.
RunCallback(th, k) ==
    /\ Take(th, <<"callback", k>>)
    /\ req' = [req EXCEPT ![k] = "called"]
    /\ IF kind[k] = "io" /\ result_[k] # "none"
         THEN UNCHANGED <<result_, cstate, on, crash>>
         ELSE result_' = [result_ EXCEPT ![k] = "value"] /\ Resume(k, th)
    /\ UNCHANGED <<waitVars, handle, kept, late, cwait>>
-----------------------------------------------------------------------------
Coroutine(c) ==
    \E th \in Threads :
        \/ Finish(c, th) \/ await_ready(c, th) \/ await_suspend(c, th)
        \/ sleep_for(c, th)
        \/ \E k \in Waits : Await(c, th, k)
        \/ \E e \in Executors :
             \/ \E k \in Sockets : Call(c, th, k, e)
             \/ switch_to(c, th, e)
Run(th) == \E k \in Waits : RunResume(th, k) \/ RunCallback(th, k)

Next ==
    \/ /\ crash = NoCrash
       /\ \/ \E c \in Coros : Coroutine(c) \/ \E th \in Threads : Begin(c, th)
          \/ \E th \in Threads : Run(th)
          \/ \E k \in Waits : Complete(k)
    \/ /\ crash # NoCrash \/ \A th \in Threads : Free(th)
       /\ UNCHANGED vars

Spec == Init /\ [][Next]_vars

\* Threads go on with the jobs posted to their executor and coroutines with
\* their code.  Nobody has to spawn, and no request has to end.
FairSpec ==
    /\ Spec
    /\ \A c \in Coros : WF_vars(crash = NoCrash /\ Coroutine(c))
    /\ \A th \in Threads : WF_vars(crash = NoCrash /\ Run(th))
-----------------------------------------------------------------------------
(* Properties.                                                              *)

\* No job resumes a coroutine that is running, finished or in a later wait:
\* every wait is resumed once, whichever threads run its jobs.
NoStray == crash[1] # "stray_resume"

\* Nothing goes wrong with a wait that begins on the thread of a context's
\* SimpleExecutor, but for a socket's Task whose request another executor
\* completes or which is not awaited at once: handles are set before callbacks
\* run.  On a thread with no current executor a delay is not survived.
SafeAtHome ==
    crash # NoCrash =>
        LET k == crash[2] IN
        \/ kind[k] \in Sockets /\ (at[k] # home[k] \/ k \in kept \union late)
        \/ kind[k] = "delay" /\ home[k] = Null

\* A coroutine that goes on after waiting for a socket finds its result:
\* await_resume makes one up for none.
FindsResult ==
    \A c \in Coros : LET k == cwait[c] IN
        /\ k # 0 /\ cstate[c] = "running" /\ crash = NoCrash
        /\ kind[k] \in Sockets
        => result_[k] # "none"

\* A suspended coroutine is resumed, unless it waits for a request that has
\* not ended or whose answer was dropped, or something has crashed.
Resumes ==
    \A c \in Coros, k \in Waits :
        /\ cstate[c] = "suspended" /\ cwait[c] = k
        /\ kind[k] \in Sockets => req[k] = "queued"
        ~> cwait[c] # k \/ cstate[c] # "suspended" \/ crash # NoCrash
=============================================================================
