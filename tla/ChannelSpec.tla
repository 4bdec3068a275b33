---------------------------- MODULE ChannelSpec ----------------------------
(***************************************************************************)
(* What bco::Channel promises: an unbounded queue whose k-th recv() yields *)
(* the value of the k-th send(), whoever sends and receives, and each call *)
(* yields it at most once.  Values are the numbers of their sends.         *)
(***************************************************************************)
EXTENDS Naturals

CONSTANTS MaxSends, MaxCalls    \* bounds on the two counters

VARIABLES
    nsent,      \* how many send()s have been made
    ncalled,    \* how many recv()s have been made
    got         \* got[k]: the value the k-th recv() returned, 0 before

vars == <<nsent, ncalled, got>>

Init == nsent = 0 /\ ncalled = 0 /\ got = [k \in 1..MaxCalls |-> 0]

Send ==
    /\ nsent < MaxSends
    /\ nsent' = nsent + 1
    /\ UNCHANGED <<ncalled, got>>

Recv ==
    /\ ncalled < MaxCalls
    /\ ncalled' = ncalled + 1
    /\ UNCHANGED <<nsent, got>>

\* co_await of the k-th recv() yields.
Yield(k) ==
    /\ k <= nsent /\ k <= ncalled
    /\ got[k] = 0
    /\ got' = [got EXCEPT ![k] = k]
    /\ UNCHANGED <<nsent, ncalled>>

Next == Send \/ Recv \/ \E k \in 1..MaxCalls : Yield(k)

Spec == Init /\ [][Next]_vars
=============================================================================
