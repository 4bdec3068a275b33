---------------------------- MODULE ProactorSpec ----------------------------
(***************************************************************************)
(* What a proactor of bco promises to the code that submits I/O to it      *)
(* (net/socket.h, proactor.h): a request accepted with a callback is       *)
(* completed at most once, only after it was submitted, and its callback   *)
(* runs only after it was harvested, once.                                 *)
(***************************************************************************)
EXTENDS Naturals

CONSTANT Reqs       \* the requests that can be submitted

VARIABLE status     \* "idle", "pending", "completed", "called" or, for a
                    \* request answered by its return value, "returned"

Init == status = [q \in Reqs |-> "idle"]

Move(q, from, to) ==
    /\ status[q] = from
    /\ status' = [status EXCEPT ![q] = to]

Submit(q) == Move(q, "idle", "pending")
Answer(q) == Move(q, "idle", "returned")
Complete(q) == Move(q, "pending", "completed")
Call(q) == Move(q, "completed", "called")

Next == \E q \in Reqs : Submit(q) \/ Answer(q) \/ Complete(q) \/ Call(q)

Spec == Init /\ [][Next]_status
=============================================================================
