---------------------------- MODULE ExecutorSpec ----------------------------
(***************************************************************************)
(* What an executor of bco promises to the code that posts to it           *)
(* (ExecutorInterface, include/bco/executor.h), whatever its threads and   *)
(* queues look like.  A posted task runs exactly once per post, a delayed  *)
(* task does not run before its delay has elapsed, and nothing runs once   *)
(* the destructor has returned.  The order in which ready tasks start is   *)
(* left open: each executor fixes its own.                                 *)
(***************************************************************************)
EXTENDS Naturals

CONSTANTS
    Tasks,      \* the tasks that can be posted
    Delays      \* the delays, in ticks, post_delay is called with

VARIABLES
    status,     \* status[t]: "idle", "ready" to run, or "delayed"
    left,       \* left[t]: ticks before a delayed t may run
    running,    \* the tasks whose body is being executed
    closed      \* the executor's destructor has returned

vars == <<status, left, running, closed>>

TypeOK ==
    /\ status \in [Tasks -> {"idle", "ready", "delayed"}]
    /\ left \in [Tasks -> Nat]
    /\ running \subseteq Tasks
    /\ closed \in BOOLEAN

Init ==
    /\ status = [t \in Tasks |-> "idle"]
    /\ left = [t \in Tasks |-> 0]
    /\ running = {}
    /\ closed = FALSE

\* post, or a completed I/O operation whose callback the executor will run.
\* A running task may be posted again: it is no longer queued.
Post(t) ==
    /\ ~closed
    /\ status[t] = "idle"
    /\ status' = [status EXCEPT ![t] = "ready"]
    /\ UNCHANGED <<left, running, closed>>

PostDelay(t, d) ==
    /\ ~closed
    /\ status[t] = "idle"
    /\ status' = [status EXCEPT ![t] = "delayed"]
    /\ left' = [left EXCEPT ![t] = d]
    /\ UNCHANGED <<running, closed>>

\* One tick passes for every pending delay.
Elapse ==
    /\ left' = [t \in Tasks |-> IF left[t] > 0 THEN left[t] - 1 ELSE 0]
    /\ UNCHANGED <<status, running, closed>>

\* Some delayed tasks whose delay has elapsed become ready.
Mature(S) ==
    /\ \A t \in S : status[t] = "delayed" /\ left[t] = 0
    /\ status' = [t \in Tasks |-> IF t \in S THEN "ready" ELSE status[t]]
    /\ UNCHANGED <<left, running, closed>>

Start(t) ==
    /\ ~closed
    /\ status[t] = "ready"
    /\ t \notin running
    /\ status' = [status EXCEPT ![t] = "idle"]
    /\ running' = running \union {t}
    /\ UNCHANGED <<left, closed>>

Finish(t) ==
    /\ t \in running
    /\ running' = running \ {t}
    /\ UNCHANGED <<status, left, closed>>

\* The destructor returns: no task is being executed and none will be.
Close ==
    /\ running = {}
    /\ closed' = TRUE
    /\ UNCHANGED <<status, left, running>>

Next ==
    \/ \E t \in Tasks : \/ Post(t)
                        \/ \E d \in Delays : PostDelay(t, d)
                        \/ Start(t)
                        \/ Finish(t)
    \/ \E S \in SUBSET Tasks : Mature(S)
    \/ Elapse
    \/ Close

Spec == Init /\ [][Next]_vars
=============================================================================
