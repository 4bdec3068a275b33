-------------------------- MODULE CoroutinesProofs --------------------------
(***************************************************************************)
(* Proofs about Coroutines, for any number of coroutines, executors,       *)
(* threads and waits: no wait is resumed twice or forgotten, where a wait  *)
(* may begin for nothing to go wrong, and that results are there.          *)
(***************************************************************************)
EXTENDS Coroutines, TLAPS

-----------------------------------------------------------------------------
(* The inductive invariant.                                                 *)

Suspended(k) == cwait[owner[k]] = k /\ cstate[owner[k]] = "suspended"
Calling(k) == cwait[owner[k]] = k /\ cstate[owner[k]] \in {"called", "checked"}

\* Waits are numbered in order, and have an owner and a kind from the start.
Numbered ==
    /\ \A k \in Waits : k > nwait =>
         /\ kind[k] = "none" /\ req[k] = "none" /\ result_[k] = "none"
         /\ k \notin handle /\ k \notin kept
    /\ \A k \in Waits : k <= nwait => owner[k] \in Coros /\ kind[k] \in Kinds

\* A coroutine's current wait is its own, and has its handle unless the
\* coroutine is on its way to await_suspend.
Current ==
    \A c \in Coros :
        /\ cstate[c] = "new" => cwait[c] = 0
        /\ cstate[c] \in {"called", "checked", "suspended"} => cwait[c] # 0
        /\ cwait[c] # 0 => /\ cwait[c] <= nwait /\ owner[cwait[c]] = c
                           /\ cwait[c] \notin kept
        /\ cstate[c] \in {"called", "checked"} => cwait[c] \notin handle

\* A coroutine runs on one thread.
OneThread ==
    /\ \A th \in Threads : on[th] # NoOne =>
         cstate[on[th]] \in {"running", "called", "checked"}
    /\ \A th, th2 \in Threads : on[th] # NoOne /\ on[th] = on[th2] => th = th2

\* What a socket's wait has been through.
Requested ==
    /\ \A k \in kept : kind[k] \in Sockets /\ k \notin handle
    /\ \A k \in Waits : req[k] # "none" => kind[k] \in Sockets
    /\ \A k \in Waits :
         req[k] \in {"pending", "queued"} => result_[k] = "none"

\* What each job stands for, and where it is.
Fits(e, k) ==
    /\ <<"resume", k>> \in jobs[e] =>
         kind[k] \in {"switch", "delay"} /\ k \in handle /\ e = at[k]
    /\ <<"callback", k>> \in jobs[e] =>
         kind[k] \in Sockets /\ req[k] = "queued" /\ e = at[k]
JobsFit == \A e \in Executors, k \in Waits : Fits(e, k)

\* A wait somebody has still to resume.
Due(k) ==
    \/ \E e \in Executors : <<"resume", k>> \in jobs[e]
    \/ kind[k] \in Sockets /\ req[k] # "called"

\* Until then its coroutine stays where it is.
StaysPut == \A k \in handle : Due(k) => Suspended(k)

\* A delay is posted where its wait began, and everything else to an executor.
Posts ==
    \A k \in Waits :
        /\ kind[k] = "delay" => at[k] = home[k]
        /\ kind[k] \in {"switch"} \union Sockets => at[k] \in Executors

OwnerAtHome(k) ==
    \E th \in Threads : get_current_executor(th) = home[k] /\ on[th] = owner[k]

\* A socket's Task that is awaited at once keeps its thread until
\* await_suspend has set the handle.
AwaitedAtHome ==
    /\ \A k \in kept \ late :
         \/ cstate[owner[k]] = "finished"
         \/ cstate[owner[k]] = "running" /\ OwnerAtHome(k)
    /\ \A k \in Waits :
         /\ kind[k] \in Sockets /\ k \notin handle \union kept \union late
         /\ result_[k] = "none"
         => Calling(k) /\ OwnerAtHome(k)

Base == TypeOK /\ Numbered /\ Current /\ OneThread /\ Requested
Turns == JobsFit /\ StaysPut
AtHome == Posts /\ AwaitedAtHome

IInv == Base /\ Turns /\ AtHome /\ NoStray /\ SafeAtHome /\ FindsResult

LEMMA WaitFacts ==
  ASSUME IInv
  PROVE  /\ TypeOK /\ Waits \subseteq Nat \ {0} /\ nwait \in Nat
         /\ kept \subseteq Waits /\ handle \subseteq Waits
         /\ \A k \in Waits : kind[k] # "none" =>
              k <= nwait /\ owner[k] \in Coros /\ owner[k] # NoOne
         /\ \A k \in kept : kind[k] \in Sockets /\ owner[k] \in Coros
         /\ \A k \in Waits : k <= nwait => kind[k] # "none"
         /\ \A k \in handle : owner[k] \in Coros
         /\ \A c \in Coros : cwait[c] # 0 => cwait[c] \in Waits
         /\ \A t \in Threads : on[t] # NoOne => on[t] \in Coros
<1>1. TypeOK /\ Numbered /\ \A k \in kept : kind[k] \in Sockets
  BY DEF IInv, Base, Requested
<1>2. /\ Waits \subseteq Nat \ {0} /\ nwait \in Nat
      /\ kept \subseteq Waits /\ handle \subseteq Waits
  BY <1>1, CoroutinesAssumption DEF TypeOK, Waits
<1>3. \A k \in Waits : kind[k] # "none" =>
        k <= nwait /\ owner[k] \in Coros /\ owner[k] # NoOne
  BY <1>1, <1>2, CoroutinesAssumption DEF Numbered
<1>4. \A k \in Waits : k <= nwait => kind[k] # "none"
  BY <1>1, <1>2 DEF Numbered, Kinds
<1>5. /\ \A k \in kept : owner[k] \in Coros
      /\ \A k \in handle : owner[k] \in Coros
  BY <1>1, <1>2, <1>3 DEF Sockets, Numbered
<1>6. /\ \A c \in Coros : cwait[c] # 0 => cwait[c] \in Waits
      /\ \A t \in Threads : on[t] # NoOne => on[t] \in Coros
  BY <1>1, CoroutinesAssumption DEF TypeOK, Waits
<1> QED
  BY <1>1, <1>2, <1>3, <1>4, <1>5, <1>6

-----------------------------------------------------------------------------
(* The initial states.                                                      *)

LEMMA InitInv == Init => IInv
<1> SUFFICES ASSUME Init PROVE IInv
  OBVIOUS
<1> USE CoroutinesAssumption DEF Init
<1>1. Waits \subseteq Nat \ {0} /\ 0 \in 0..MaxWaits
  BY DEF Waits
<1>3. crash \in {"no", "null_resume", "stray_resume", "null_executor"}
                   \X (0..MaxWaits)
  BY <1>1 DEF NoCrash
<1>4. TypeOK
  BY <1>1, <1>3 DEF TypeOK, Jobs
<1>5. Numbered /\ Current /\ OneThread /\ Requested
  BY <1>1 DEF Numbered, Current, OneThread, Requested
<1>6. Turns /\ AtHome
  BY <1>1 DEF Turns, AtHome, JobsFit, Fits, StaysPut, Posts, AwaitedAtHome,
              Sockets
<1>7. NoStray /\ SafeAtHome /\ FindsResult
  BY DEF NoStray, SafeAtHome, FindsResult, NoCrash
<1> QED
  BY <1>4, <1>5, <1>6, <1>7 DEF IInv, Base

-----------------------------------------------------------------------------
(* Coroutines.                                                              *)

LEMMA AwaitedFrame ==
  ASSUME IInv, UNCHANGED <<kind, owner, home, handle, kept, late>>,
         \A k \in Waits : result_'[k] = "none" => result_[k] = "none",
         \A c \in Coros : cstate[c] \notin {"new", "suspended"} =>
            cstate'[c] = cstate[c] /\ cwait'[c] = cwait[c],
         \A t \in Threads : on[t] # NoOne => on'[t] = on[t]
  PROVE  AwaitedAtHome'
<1>1. /\ kept \subseteq Waits /\ AwaitedAtHome
      /\ \A k \in Waits : kind[k] \in Sockets => owner[k] \in Coros \ {NoOne}
      /\ \A k \in kept : kind[k] \in Sockets
  BY WaitFacts DEF IInv, AtHome, Sockets
<1>2. ASSUME NEW k \in Waits, kind[k] \in Sockets,
             cstate[owner[k]] \notin {"new", "suspended"}
      PROVE  /\ cstate'[owner[k]] = cstate[owner[k]]
             /\ cwait'[owner[k]] = cwait[owner[k]]
             /\ OwnerAtHome(k) => OwnerAtHome(k)'
  BY <1>1, <1>2 DEF OwnerAtHome
<1>3. ASSUME NEW k \in kept \ late
      PROVE  \/ cstate'[owner[k]] = "finished"
             \/ cstate'[owner[k]] = "running" /\ OwnerAtHome(k)'
  BY <1>1, <1>2 DEF AwaitedAtHome
<1>4. ASSUME NEW k \in Waits, kind[k] \in Sockets, result_'[k] = "none",
             k \notin handle \union kept \union late
      PROVE  Calling(k)' /\ OwnerAtHome(k)'
  BY <1>1, <1>2, <1>4 DEF AwaitedAtHome, Calling
<1> QED
  BY <1>3, <1>4 DEF AwaitedAtHome

LEMMA BeginInv ==
  ASSUME IInv, NEW c \in Coros, NEW th \in Threads, Begin(c, th),
         crash = NoCrash
  PROVE  IInv'
<1> USE CoroutinesAssumption DEF Begin, waitVars, taskVars, Free
<1>1. /\ Waits \subseteq Nat \ {0} /\ TypeOK /\ cwait[c] = 0
      /\ kept \subseteq Waits
      /\ \A k \in Waits : kind[k] \in Sockets => owner[k] \in Coros \ {NoOne}
      /\ \A k \in kept : kind[k] \in Sockets
  BY WaitFacts DEF IInv, Base, Current, Sockets
<1>2. TypeOK'
  BY <1>1 DEF TypeOK
<1>3. Numbered' /\ Requested' /\ JobsFit'
  BY DEF IInv, Base, Turns, Numbered, Requested, JobsFit,
         Fits
<1>4. Current'
  BY <1>1 DEF IInv, Base, Current, TypeOK
<1>5. OneThread'
  BY <1>1 DEF IInv, Base, OneThread, TypeOK
<1>6. StaysPut'
  BY <1>1 DEF IInv, Turns, StaysPut, Due, Suspended, TypeOK
<1>7. Posts'
  BY <1>1 DEF IInv, AtHome, Posts, TypeOK
<1>8. AwaitedAtHome'
  BY <1>1, AwaitedFrame DEF TypeOK
<1>9. NoStray' /\ SafeAtHome' /\ FindsResult'
  BY <1>1 DEF IInv, NoStray, SafeAtHome, FindsResult, TypeOK
<1> QED
  BY <1>2, <1>3, <1>4, <1>5, <1>6, <1>7, <1>8, <1>9
  DEF IInv, Base, Turns, AtHome

LEMMA FinishInv ==
  ASSUME IInv, NEW c \in Coros, NEW th \in Threads, Finish(c, th),
         crash = NoCrash
  PROVE  IInv'
<1> USE DEF Finish, Runs, waitVars, taskVars
<1>1. /\ Waits \subseteq Nat \ {0} /\ TypeOK /\ c # NoOne
      /\ kept \subseteq Waits
      /\ \A k \in Waits : kind[k] \in Sockets => owner[k] \in Coros \ {NoOne}
      /\ \A k \in kept : kind[k] \in Sockets
  BY WaitFacts, CoroutinesAssumption DEF Sockets
<1>2. TypeOK'
  BY <1>1 DEF TypeOK
<1>3. Numbered' /\ Requested' /\ JobsFit'
  BY DEF IInv, Base, Turns, Numbered, Requested, JobsFit,
         Fits
<1>4. Current'
  BY <1>1 DEF IInv, Base, Current, TypeOK
<1>5. OneThread'
  BY <1>1 DEF IInv, Base, OneThread, TypeOK
<1>6. StaysPut'
  BY <1>1 DEF IInv, Turns, StaysPut, Due, Suspended, TypeOK
<1>7. Posts'
  BY <1>1 DEF IInv, AtHome, Posts, TypeOK
<1>8. AwaitedAtHome'
  <2>1. ASSUME NEW k \in Waits, kind[k] \in Sockets, owner[k] # c
        PROVE  /\ cstate'[owner[k]] = cstate[owner[k]]
               /\ OwnerAtHome(k) => OwnerAtHome(k)'
    BY <1>1, <2>1 DEF OwnerAtHome, TypeOK
  <2>2. cstate[c] = "running" /\ cstate'[c] = "finished" /\ AwaitedAtHome
    BY <1>1 DEF TypeOK, IInv, AtHome
  <2>3. ASSUME NEW k \in kept \ late
        PROVE  \/ cstate'[owner[k]] = "finished"
               \/ cstate'[owner[k]] = "running" /\ OwnerAtHome(k)'
    BY <1>1, <2>1, <2>2 DEF AwaitedAtHome
  <2>4. ASSUME NEW k \in Waits, kind[k] \in Sockets, result_[k] = "none",
               k \notin handle \union kept \union late
        PROVE  Calling(k)' /\ OwnerAtHome(k)'
    BY <1>1, <2>1, <2>2, <2>4 DEF AwaitedAtHome, Calling
  <2> QED
    BY <2>3, <2>4 DEF AwaitedAtHome
<1>9. NoStray' /\ SafeAtHome' /\ FindsResult'
  BY <1>1 DEF IInv, NoStray, SafeAtHome, FindsResult, TypeOK
<1> QED
  BY <1>2, <1>3, <1>4, <1>5, <1>6, <1>7, <1>8, <1>9
  DEF IInv, Base, Turns, AtHome

\* A new wait is like no other.
LEMMA NewWaitFacts ==
  ASSUME IInv, NEW c \in Coros, NEW th \in Threads, NEW k \in Kinds,
         NEW e \in Executors \union {Null}, NewWait(c, th, k, e)
  PROVE  /\ nwait + 1 \in Waits /\ nwait' = nwait + 1
         /\ kind[nwait + 1] = "none" /\ req[nwait + 1] = "none"
         /\ result_[nwait + 1] = "none"
         /\ nwait + 1 \notin handle /\ nwait + 1 \notin kept
         /\ \A x \in Executors : \A j \in {"resume", "callback"} :
              <<j, nwait + 1>> \notin jobs[x]
         /\ \A d \in Coros : cwait[d] # nwait + 1
<1> DEFINE n == nwait + 1
<1>1. n \in Waits /\ n > nwait /\ nwait' = n /\ nwait \in Nat
  BY CoroutinesAssumption DEF IInv, Base, TypeOK, NewWait, Waits
<1>2. /\ kind[n] = "none" /\ req[n] = "none" /\ result_[n] = "none"
      /\ n \notin handle /\ n \notin kept
  BY <1>1 DEF IInv, Base, Numbered
<1>4. \A x \in Executors : \A j \in {"resume", "callback"} :
         <<j, n>> \notin jobs[x]
  BY <1>1, <1>2 DEF IInv, Turns, JobsFit, Fits, Sockets
<1>5. \A d \in Coros : cwait[d] # n
  BY <1>1 DEF IInv, Base, Current
<1> QED
  BY <1>1, <1>2, <1>4, <1>5

LEMMA NewWaitJobs ==
  ASSUME IInv, NEW c \in Coros, NEW th \in Threads, NEW k \in Kinds,
         NEW e \in Executors \union {Null}, NewWait(c, th, k, e),
         \A j \in Waits : j # nwait + 1 =>
            req'[j] = req[j] /\ result_'[j] = result_[j]
  PROVE  JobsFit'
<1> DEFINE n == nwait + 1
<1>1. \A x \in Executors : \A j \in {"resume", "callback"} :
         <<j, n>> \notin jobs[x]
  BY NewWaitFacts
<1>2. JobsFit /\ TypeOK /\ n \in Waits
  BY NewWaitFacts DEF IInv, Turns, Base
<1>3. /\ UNCHANGED jobs /\ UNCHANGED handle
      /\ \A j \in Waits : j # n =>
           kind'[j] = kind[j] /\ home'[j] = home[j] /\ at'[j] = at[j]
  BY <1>2 DEF NewWait, TypeOK
<1> HIDE DEF n
<1>4. ASSUME NEW x \in Executors, NEW j \in Waits PROVE Fits(x, j)'
  <2>1. CASE j = n
    BY <1>1, <1>3, <2>1 DEF Fits
  <2>2. CASE j # n
    BY <1>2, <1>3, <2>2 DEF JobsFit, Fits, n
  <2> QED
    BY <2>1, <2>2
<1> QED
  BY <1>4 DEF JobsFit

LEMMA CoAwaitInv ==
  ASSUME IInv, NEW c \in Coros, NEW th \in Threads, NEW k \in Kinds \ Sockets,
         NEW e \in Executors \union {Null}, CoAwait(c, th, k, e),
         k = "delay" => e = get_current_executor(th),
         k = "switch" => e \in Executors, crash = NoCrash
  PROVE  IInv'
<1> DEFINE n == nwait + 1
<1>1. /\ Waits \subseteq Nat \ {0} /\ TypeOK /\ c # NoOne /\ n \in Waits
      /\ kept \subseteq Waits /\ handle \subseteq Waits /\ nwait \in Nat
      /\ \A j \in Waits : kind[j] # "none" => owner[j] \in Coros \ {NoOne}
      /\ \A j \in kept : kind[j] \in Sockets
  BY WaitFacts, NewWaitFacts, CoroutinesAssumption DEF CoAwait
<1>2. /\ kind[n] = "none" /\ req[n] = "none" /\ result_[n] = "none"
      /\ n \notin handle /\ n \notin kept
      /\ \A x \in Executors : \A j \in {"resume", "callback"} :
              <<j, n>> \notin jobs[x]
      /\ \A d \in Coros : cwait[d] # n
  BY NewWaitFacts DEF CoAwait
<1>3. /\ nwait' = n
      /\ kind' = [kind EXCEPT ![n] = k] /\ owner' = [owner EXCEPT ![n] = c]
      /\ home' = [home EXCEPT ![n] = get_current_executor(th)]
      /\ at' = [at EXCEPT ![n] = e]
      /\ on[th] = c /\ cstate[c] = "running"
      /\ cstate' = [cstate EXCEPT ![c] = "called"]
      /\ cwait' = [cwait EXCEPT ![c] = n]
      /\ late' = late \union kept
      /\ UNCHANGED <<req, result_, handle, kept, on, jobs, crash>>
  BY DEF CoAwait, NewWait, Runs
<1>4. /\ kind'[n] = k /\ owner'[n] = c /\ home'[n] = get_current_executor(th)
      /\ at'[n] = e
      /\ \A j \in Waits : j # n =>
           /\ kind'[j] = kind[j] /\ owner'[j] = owner[j]
           /\ home'[j] = home[j] /\ at'[j] = at[j]
      /\ cstate'[c] = "called" /\ cwait'[c] = n
      /\ \A d \in Coros : d # c => cstate'[d] = cstate[d] /\ cwait'[d] = cwait[d]
      /\ get_current_executor(th) \in Executors \union {Null}
  BY <1>1, <1>3, CoroutinesAssumption DEF TypeOK, get_current_executor
<1> HIDE DEF n
<1>5. TypeOK'
  BY <1>1, <1>3, <1>4, CoroutinesAssumption DEF TypeOK, Waits, n
<1>6. Numbered'
  BY <1>1, <1>2, <1>3, <1>4 DEF IInv, Base, Numbered, n
<1>7. Current'
  <2>1. Current /\ \A d \in Coros : cwait[d] # 0 => cwait[d] \in Waits
    BY WaitFacts DEF IInv, Base
  <2>2. ASSUME NEW d \in Coros
        PROVE  /\ cstate'[d] = "new" => cwait'[d] = 0
               /\ cstate'[d] \in {"called", "checked", "suspended"} => cwait'[d] # 0
               /\ cwait'[d] # 0 => /\ cwait'[d] <= nwait' /\ owner'[cwait'[d]] = d
                                  /\ cwait'[d] \notin kept'
               /\ cstate'[d] \in {"called", "checked"} => cwait'[d] \notin handle'
    <3>1. CASE d = c
      BY <1>1, <1>2, <1>3, <1>4, <3>1 DEF n
    <3>2. CASE d # c
      <4>1. cstate'[d] = cstate[d] /\ cwait'[d] = cwait[d] /\ cwait[d] # n
        BY <1>2, <1>4, <3>2
      <4>2. cwait[d] # 0 => owner'[cwait[d]] = owner[cwait[d]] /\ cwait[d] \in Nat
        BY <1>1, <1>4, <2>1, <4>1
      <4> QED
        BY <1>1, <1>3, <2>1, <4>1, <4>2 DEF Current, n
    <3> QED
      BY <3>1, <3>2
  <2> QED
    BY <2>2 DEF Current
<1>8. OneThread'
  BY <1>1, <1>3, <1>4 DEF IInv, Base, OneThread, TypeOK
<1>9. Requested'
  BY <1>1, <1>2, <1>3, <1>4 DEF IInv, Base, Requested
<1>10. JobsFit'
  BY <1>1, <1>3, NewWaitJobs DEF CoAwait
<1>11. StaysPut'
  <2> SUFFICES ASSUME NEW j \in handle, Due(j)' PROVE Suspended(j)'
    BY <1>3 DEF StaysPut
  <2>1. j \in Waits /\ j # n
    BY <1>1, <1>2
  <2>2. Due(j)
    BY <1>3, <1>4, <2>1 DEF Due
  <2>3. Suspended(j) /\ owner[j] \in Coros
    BY <2>2, WaitFacts DEF IInv, Turns, StaysPut
  <2> QED
    BY <1>3, <1>4, <2>1, <2>3 DEF Suspended
<1>12. Posts'
  <2>1. Posts
    BY DEF IInv, AtHome
  <2>2. k \in {"switch", "delay"} /\ k \notin Sockets
    BY DEF Kinds, Sockets
  <2> QED
    BY <1>4, <2>1, <2>2 DEF Posts
<1>13. AwaitedAtHome'
  <2>1. kept' \ late' = {}
    BY <1>3
  <2> SUFFICES ASSUME NEW j \in Waits, kind'[j] \in Sockets,
                      j \notin handle \union kept \union late, result_[j] = "none"
               PROVE  Calling(j)' /\ OwnerAtHome(j)'
    BY <1>3, <2>1 DEF AwaitedAtHome
  <2>2. j # n /\ kind[j] \in Sockets /\ owner[j] \in Coros
    BY <1>1, <1>4 DEF Sockets
  <2>3. Calling(j) /\ OwnerAtHome(j)
    BY <2>2 DEF IInv, AtHome, AwaitedAtHome
  <2>4. owner[j] # c
    BY <1>3, <2>3 DEF Calling
  <2> QED
    BY <1>3, <1>4, <2>2, <2>3, <2>4 DEF Calling, OwnerAtHome
<1>14. NoStray' /\ SafeAtHome'
  BY <1>3 DEF IInv, NoStray, SafeAtHome, NoCrash
<1>15. FindsResult'
  BY <1>1, <1>2, <1>3, <1>4 DEF IInv, FindsResult
<1> QED
  BY <1>5, <1>6, <1>7, <1>8, <1>9, <1>10, <1>11, <1>12, <1>13, <1>14, <1>15
  DEF IInv, Base, Turns, AtHome

LEMMA SwitchSleepInv ==
  ASSUME IInv, NEW c \in Coros, NEW th \in Threads, crash = NoCrash,
         sleep_for(c, th) \/ \E e \in Executors : switch_to(c, th, e)
  PROVE  IInv'
<1>1. "switch" \in Kinds \ Sockets /\ "delay" \in Kinds \ Sockets
  BY DEF Kinds, Sockets
<1>2. get_current_executor(th) \in Executors \union {Null}
  BY CoroutinesAssumption DEF get_current_executor
<1>3. CASE sleep_for(c, th)
  BY <1>1, <1>2, <1>3, CoAwaitInv DEF sleep_for
<1>4. CASE \E e \in Executors : switch_to(c, th, e)
  BY <1>1, <1>4, CoAwaitInv DEF switch_to
<1> QED
  BY <1>3, <1>4

LEMMA CallInv ==
  ASSUME IInv, NEW c \in Coros, NEW th \in Threads, NEW k \in Sockets,
         NEW e \in Executors, Call(c, th, k, e), crash = NoCrash
  PROVE  IInv'
<1> DEFINE n == nwait + 1
<1>1. /\ Waits \subseteq Nat \ {0} /\ TypeOK /\ c # NoOne /\ n \in Waits
      /\ kept \subseteq Waits /\ handle \subseteq Waits /\ nwait \in Nat
      /\ \A j \in Waits : kind[j] # "none" => owner[j] \in Coros \ {NoOne}
      /\ k \in Kinds
  BY WaitFacts, NewWaitFacts, CoroutinesAssumption DEF Call, Kinds, Sockets
<1>2. /\ kind[n] = "none" /\ req[n] = "none" /\ result_[n] = "none"
      /\ n \notin handle /\ n \notin kept
      /\ \A d \in Coros : cwait[d] # n
  BY <1>1, NewWaitFacts DEF Call
<1>3. PICK answer \in {"pending", "answered", "failed"} :
        /\ req' = [req EXCEPT ![n] = answer]
        /\ result_' = [result_ EXCEPT ![n] =
                           IF answer = "failed" THEN "error" ELSE "none"]
  BY DEF Call
<1>4. /\ nwait' = n
      /\ kind' = [kind EXCEPT ![n] = k] /\ owner' = [owner EXCEPT ![n] = c]
      /\ home' = [home EXCEPT ![n] = get_current_executor(th)]
      /\ at' = [at EXCEPT ![n] = e]
      /\ on[th] = c /\ cstate[c] = "running" /\ kept = {} /\ kept' = {n}
      /\ UNCHANGED <<cstate, cwait, late, handle, on, jobs, crash>>
  BY DEF Call, NewWait, Runs, coroVars
<1>5. /\ kind'[n] = k /\ owner'[n] = c /\ home'[n] = get_current_executor(th)
      /\ at'[n] = e
      /\ req'[n] = answer /\ (answer # "failed" => result_'[n] = "none")
      /\ \A j \in Waits : j # n =>
           /\ kind'[j] = kind[j] /\ owner'[j] = owner[j]
           /\ home'[j] = home[j] /\ at'[j] = at[j]
           /\ req'[j] = req[j] /\ result_'[j] = result_[j]
      /\ get_current_executor(th) \in Executors \union {Null}
  BY <1>1, <1>3, <1>4, CoroutinesAssumption DEF TypeOK, get_current_executor
<1> HIDE DEF n
<1>6. TypeOK'
  <2>1. /\ kind' \in [Waits -> Kinds \union {"none"}]
        /\ owner' \in [Waits -> Coros \union {NoOne}]
        /\ home' \in [Waits -> Executors \union {Null}]
        /\ at' \in [Waits -> Executors \union {Null}]
    BY <1>1, <1>4, <1>5 DEF TypeOK
  <2>2. /\ req' \in [Waits -> {"none", "pending", "queued", "called", "answered",
                                "failed"}]
        /\ result_' \in [Waits -> {"none", "value", "error"}]
    BY <1>1, <1>3 DEF TypeOK
  <2>3. nwait' \in 0..MaxWaits /\ kept' \in SUBSET Waits
    BY <1>1, <1>4 DEF Waits, n
  <2> QED
    BY <1>1, <1>4, <2>1, <2>2, <2>3 DEF TypeOK
<1>7. Numbered'
  <2>1. Numbered
    BY DEF IInv, Base
  <2>2. ASSUME NEW j \in Waits, j > n
        PROVE  /\ kind'[j] = "none" /\ req'[j] = "none" /\ result_'[j] = "none"
               /\ j \notin handle /\ j \notin kept'
    <3>1. j # n /\ j > nwait
      BY <1>1, <2>2 DEF n
    <3> QED
      BY <1>4, <1>5, <2>1, <3>1 DEF Numbered
  <2>3. ASSUME NEW j \in Waits, j <= n
        PROVE  owner'[j] \in Coros /\ kind'[j] \in Kinds
    <3>1. j = n \/ j <= nwait
      BY <1>1, <2>3 DEF n
    <3> QED
      BY <1>1, <1>5, <2>1, <3>1 DEF Numbered
  <2> QED
    BY <1>4, <2>2, <2>3 DEF Numbered
<1>8. Current'
  <2>1. Current /\ \A d \in Coros : cwait[d] # 0 => cwait[d] \in Waits
    BY WaitFacts DEF IInv, Base
  <2>2. \A d \in Coros : cwait[d] # 0 =>
          /\ owner'[cwait[d]] = owner[cwait[d]] /\ cwait[d] \in Nat
          /\ cwait[d] # n
    BY <1>1, <1>2, <1>5, <2>1
  <2> QED
    BY <1>1, <1>4, <2>1, <2>2 DEF Current, n
<1>9. OneThread'
  BY <1>4 DEF IInv, Base, OneThread
<1>10. Requested'
  BY <1>1, <1>2, <1>4, <1>5 DEF IInv, Base, Requested
<1>11. JobsFit'
  BY <1>1, <1>5, NewWaitJobs DEF Call, n
<1>12. StaysPut'
  <2> SUFFICES ASSUME NEW j \in handle, Due(j)' PROVE Suspended(j)'
    BY <1>4 DEF StaysPut
  <2>1. j \in Waits /\ j # n
    BY <1>1, <1>2
  <2>2. Due(j)
    BY <1>4, <1>5, <2>1 DEF Due
  <2>3. Suspended(j)
    BY <2>2 DEF IInv, Turns, StaysPut
  <2> QED
    BY <1>4, <1>5, <2>1, <2>3 DEF Suspended
<1>13. Posts'
  <2>1. Posts
    BY DEF IInv, AtHome
  <2> QED
    BY <1>5, <2>1 DEF Posts, Sockets
<1>14. AwaitedAtHome'
  <2>1. ASSUME NEW j \in kept' \ late'
        PROVE  cstate'[owner'[j]] = "running" /\ OwnerAtHome(j)'
    BY <1>4, <1>5, <2>1 DEF OwnerAtHome
  <2>2. ASSUME NEW j \in Waits, kind'[j] \in Sockets,
               j \notin handle \union kept' \union late, result_'[j] = "none"
        PROVE  Calling(j)' /\ OwnerAtHome(j)'
    <3>1. j # n
      BY <1>4, <2>2
    <3>2. Calling(j) /\ OwnerAtHome(j)
      BY <1>4, <1>5, <2>2, <3>1 DEF IInv, AtHome, AwaitedAtHome
    <3> QED
      BY <1>4, <1>5, <3>1, <3>2 DEF Calling, OwnerAtHome
  <2> QED
    BY <1>4, <2>1, <2>2 DEF AwaitedAtHome
<1>15. NoStray' /\ SafeAtHome'
  BY <1>4 DEF IInv, NoStray, SafeAtHome, NoCrash
<1>16. FindsResult'
  <2>1. FindsResult /\ \A d \in Coros : cwait[d] # 0 => cwait[d] \in Waits
    BY WaitFacts DEF IInv
  <2>2. \A d \in Coros : cwait[d] # 0 =>
          /\ kind'[cwait[d]] = kind[cwait[d]]
          /\ result_'[cwait[d]] = result_[cwait[d]]
    BY <1>2, <1>5, <2>1
  <2> QED
    BY <1>4, <2>1, <2>2 DEF FindsResult
<1> QED
  BY <1>6, <1>7, <1>8, <1>9, <1>10, <1>11, <1>12, <1>13, <1>14, <1>15, <1>16
  DEF IInv, Base, Turns, AtHome

LEMMA AwaitInv ==
  ASSUME IInv, NEW c \in Coros, NEW th \in Threads, NEW k \in Waits,
         Await(c, th, k), crash = NoCrash
  PROVE  IInv'
<1>1. /\ Waits \subseteq Nat \ {0} /\ TypeOK /\ kept \subseteq Waits
      /\ kind[k] \in Sockets /\ k \notin handle /\ k <= nwait
      /\ \A j \in Waits : kind[j] \in Sockets => owner[j] \in Coros
      /\ \A t \in Threads : on[t] # NoOne => on[t] \in Coros
  BY WaitFacts DEF IInv, Base, Requested, Await, Sockets
<1>2. /\ on[th] = c /\ cstate[c] = "running" /\ k \in kept /\ owner[k] = c
      /\ kept' = kept \ {k} /\ late' = late \union (kept \ {k})
      /\ cstate' = [cstate EXCEPT ![c] = "called"]
      /\ cwait' = [cwait EXCEPT ![c] = k]
      /\ UNCHANGED <<nwait, kind, owner, home, at, req, result_, handle,
                     on, jobs, crash>>
  BY DEF Await, Runs, waitVars
<1>3. /\ cstate'[c] = "called" /\ cwait'[c] = k
      /\ \A d \in Coros : d # c => cstate'[d] = cstate[d] /\ cwait'[d] = cwait[d]
  BY <1>1, <1>2 DEF TypeOK
<1>4. TypeOK'
  BY <1>1, <1>2 DEF TypeOK, Waits
<1>5. Numbered' /\ Requested' /\ JobsFit'
  BY <1>2 DEF IInv, Base, Turns, Numbered, Requested, JobsFit, Fits
<1>6. Current'
  BY <1>1, <1>2, <1>3 DEF IInv, Base, Current
<1>7. OneThread'
  BY <1>1, <1>2, <1>3 DEF IInv, Base, OneThread
<1>8. StaysPut'
  <2>1. StaysPut /\ \A j \in handle : owner[j] \in Coros
    BY WaitFacts DEF IInv, Turns
  <2> QED
    BY <1>2, <1>3, <2>1 DEF StaysPut, Due, Suspended
<1>9. Posts'
  BY <1>1, <1>2, <1>3 DEF IInv, AtHome, Posts
<1>10. AwaitedAtHome'
  <2>1. AwaitedAtHome
    BY DEF IInv, AtHome
  <2>2. kept' \ late' = {}
    BY <1>2
  <2>3. ASSUME NEW j \in Waits, kind[j] \in Sockets, result_[j] = "none",
               j \notin handle \union kept' \union late'
        PROVE  Calling(j)' /\ OwnerAtHome(j)'
    <3>1. CASE j = k
      <4>1. OwnerAtHome(k)
        BY <1>2, <2>1, <2>3, <3>1 DEF AwaitedAtHome
      <4> QED
        BY <1>2, <1>3, <3>1, <4>1 DEF OwnerAtHome, Calling
    <3>2. CASE j # k
      <4>1. Calling(j) /\ OwnerAtHome(j)
        BY <1>2, <2>1, <2>3, <3>2 DEF AwaitedAtHome
      <4>2. owner[j] \in Coros /\ owner[j] # c
        BY <1>1, <1>2, <2>3, <4>1 DEF Calling
      <4> QED
        BY <1>2, <1>3, <4>1, <4>2 DEF OwnerAtHome, Calling
    <3> QED
      BY <3>1, <3>2
  <2> QED
    BY <1>2, <2>2, <2>3 DEF AwaitedAtHome
<1>11. NoStray' /\ SafeAtHome'
  BY <1>2 DEF IInv, NoStray, SafeAtHome, NoCrash
<1>12. FindsResult'
  BY <1>2, <1>3 DEF IInv, FindsResult
<1> QED
  BY <1>4, <1>5, <1>6, <1>7, <1>8, <1>9, <1>10, <1>11, <1>12
  DEF IInv, Base, Turns, AtHome

LEMMA AwaitReadyInv ==
  ASSUME IInv, NEW c \in Coros, NEW th \in Threads, await_ready(c, th),
         crash = NoCrash
  PROVE  IInv'
<1> DEFINE s == IF result_[cwait[c]] = "none" THEN "checked" ELSE "running"
<1>1. /\ Waits \subseteq Nat \ {0} /\ TypeOK /\ kept \subseteq Waits
      /\ \A j \in Waits : kind[j] \in Sockets => owner[j] \in Coros
      /\ \A t \in Threads : on[t] # NoOne => on[t] \in Coros
      /\ \A j \in handle : owner[j] \in Coros
      /\ \A j \in kept : kind[j] \in Sockets
  BY WaitFacts DEF Sockets
<1>2. /\ on[th] = c /\ cstate[c] = "called" /\ cstate' = [cstate EXCEPT ![c] = s]
      /\ UNCHANGED <<nwait, kind, owner, home, at, req, result_, handle,
                     kept, late, cwait, on, jobs, crash>>
  BY DEF await_ready, waitVars, taskVars
<1>3. /\ cstate'[c] = s /\ s \in {"checked", "running"}
      /\ s = "running" => result_[cwait[c]] # "none"
      /\ \A d \in Coros : d # c => cstate'[d] = cstate[d]
  BY <1>1, <1>2 DEF TypeOK
<1> HIDE DEF s
<1>4. TypeOK'
  BY <1>1, <1>2, <1>3 DEF TypeOK
<1>5. Numbered' /\ Requested' /\ JobsFit'
  BY <1>2 DEF IInv, Base, Turns, Numbered, Requested, JobsFit, Fits
<1>6. Current'
  BY <1>2, <1>3 DEF IInv, Base, Current
<1>7. OneThread'
  BY <1>1, <1>2, <1>3 DEF IInv, Base, OneThread
<1>8. StaysPut'
  BY <1>1, <1>2, <1>3 DEF IInv, Turns, StaysPut, Due, Suspended
<1>9. Posts'
  BY <1>1, <1>2, <1>3 DEF IInv, AtHome, Posts
<1>10. AwaitedAtHome'
  <2>1. AwaitedAtHome
    BY DEF IInv, AtHome
  <2>2. ASSUME NEW j \in kept \ late
        PROVE  \/ cstate'[owner[j]] = "finished"
               \/ cstate'[owner[j]] = "running" /\ OwnerAtHome(j)'
    BY <1>1, <1>2, <1>3, <2>1 DEF AwaitedAtHome, OwnerAtHome
  <2>3. ASSUME NEW j \in Waits, kind[j] \in Sockets, result_[j] = "none",
               j \notin handle \union kept \union late
        PROVE  Calling(j)' /\ OwnerAtHome(j)'
    <3>1. Calling(j) /\ OwnerAtHome(j) /\ owner[j] \in Coros
      BY <1>1, <2>1, <2>3 DEF AwaitedAtHome
    <3> QED
      BY <1>2, <1>3, <2>3, <3>1 DEF Calling, OwnerAtHome
  <2> QED
    BY <1>2, <2>2, <2>3 DEF AwaitedAtHome
<1>11. NoStray' /\ SafeAtHome'
  BY <1>2 DEF IInv, NoStray, SafeAtHome, NoCrash
<1>12. FindsResult'
  BY <1>2, <1>3 DEF IInv, FindsResult
<1> QED
  BY <1>4, <1>5, <1>6, <1>7, <1>8, <1>9, <1>10, <1>11, <1>12
  DEF IInv, Base, Turns, AtHome

LEMMA AwaitSuspendInv ==
  ASSUME IInv, NEW c \in Coros, NEW th \in Threads, await_suspend(c, th),
         crash = NoCrash
  PROVE  IInv'
<1> DEFINE k == cwait[c]
<1>1. /\ Waits \subseteq Nat \ {0} /\ TypeOK /\ kept \subseteq Waits
      /\ c # NoOne /\ NoOne \notin Coros
      /\ \A j \in Waits : kind[j] \in Sockets => owner[j] \in Coros
      /\ \A t \in Threads : on[t] # NoOne => on[t] \in Coros
      /\ \A j \in handle : owner[j] \in Coros
      /\ \A j \in kept : kind[j] \in Sockets
  BY WaitFacts, CoroutinesAssumption DEF Sockets
<1>2. /\ on[th] = c /\ cstate[c] = "checked"
      /\ handle' = handle \union {k}
      /\ cstate' = [cstate EXCEPT ![c] = "suspended"]
      /\ on' = [on EXCEPT ![th] = NoOne]
      /\ \/ /\ at[k] = Null /\ crash' = <<"null_executor", k>> /\ jobs' = jobs
         \/ /\ at[k] # Null /\ crash' = crash
            /\ jobs' = [jobs EXCEPT ![at[k]] = @ \union Posted(k)]
      /\ UNCHANGED <<nwait, kind, owner, home, at, req, result_, kept, late,
                     cwait>>
  BY DEF await_suspend, waitVars
<1>3. /\ k \in Waits /\ k <= nwait /\ owner[k] = c /\ kind[k] \in Kinds
      /\ k \notin handle /\ k \notin kept
      /\ at[k] \in Executors \/ at[k] = Null
  <2>1. k # 0 /\ k <= nwait /\ owner[k] = c /\ k \notin kept /\ k \notin handle
    BY <1>2 DEF IInv, Base, Current
  <2>2. k \in Waits
    BY <2>1, WaitFacts
  <2> QED
    BY <1>1, <2>1, <2>2 DEF IInv, Base, Numbered, TypeOK
<1> HIDE DEF k
<1>4. at[k] = Null => kind[k] = "delay" /\ home[k] = Null
  BY <1>3, CoroutinesAssumption DEF IInv, AtHome, Posts, Kinds, Sockets
<1>5. \A e \in Executors : <<"resume", k>> \notin jobs[e]
  BY <1>3 DEF IInv, Turns, JobsFit, Fits
<1>6. /\ cstate'[c] = "suspended" /\ on'[th] = NoOne
      /\ \A d \in Coros : d # c => cstate'[d] = cstate[d]
      /\ \A t \in Threads : t # th => on'[t] = on[t]
  BY <1>1, <1>2 DEF TypeOK
<1>7. \A p, j : <<p, j>> \in Posted(k) <=>
         j = k /\ p = "resume" /\ kind[k] \in {"switch", "delay"}
  BY <1>3 DEF Posted, Kinds, Sockets
<1>8. \A e \in Executors :
         jobs'[e] = jobs[e] \/ (e = at[k] /\ jobs'[e] = jobs[e] \union Posted(k))
  <2>1. CASE jobs' = jobs
    BY <2>1
  <2>2. CASE jobs' = [jobs EXCEPT ![at[k]] = @ \union Posted(k)]
    BY <1>1, <2>2 DEF TypeOK
  <2> QED
    BY <1>2, <2>1, <2>2
<1>9. TypeOK'
  <2>1. Posted(k) \subseteq Jobs
    BY <1>3 DEF Posted, Jobs
  <2>2. jobs' \in [Executors -> SUBSET Jobs]
    BY <1>1, <1>2, <1>3, <2>1 DEF TypeOK
  <2>3. crash' \in {"no", "null_resume", "stray_resume", "null_executor"}
                     \X (0..MaxWaits)
    BY <1>1, <1>2, <1>3 DEF TypeOK, Waits
  <2>4. /\ cstate' \in [Coros -> {"new", "running", "called", "checked",
                                   "suspended", "finished"}]
        /\ on' \in [Threads -> Coros \union {NoOne}]
        /\ handle' \in SUBSET Waits
    BY <1>1, <1>2, <1>3 DEF TypeOK
  <2> QED
    BY <1>1, <1>2, <2>2, <2>3, <2>4 DEF TypeOK
<1>10. Numbered'
  BY <1>1, <1>2, <1>3 DEF IInv, Base, Numbered, TypeOK
<1>11. Requested'
  BY <1>2, <1>3 DEF IInv, Base, Requested
<1>12. Current'
  <2>1. Current /\ \A d \in Coros : d # c /\ cwait[d] = k => FALSE
    BY <1>1, <1>3 DEF IInv, Base, Current
  <2> QED
    BY <1>2, <1>3, <1>6, <2>1 DEF Current, k
<1>13. OneThread'
  BY <1>1, <1>2, <1>6 DEF IInv, Base, OneThread
<1>14. JobsFit'
  <2> SUFFICES ASSUME NEW e \in Executors, NEW j \in Waits PROVE Fits(e, j)'
    BY DEF JobsFit
  <2>1. Fits(e, j)
    BY DEF IInv, Turns, JobsFit
  <2>2. CASE j # k
    <3>1. \A p, x : <<p, j>> \in jobs'[x] /\ x \in Executors => <<p, j>> \in jobs[x]
      BY <1>7, <1>8, <2>2
    <3> QED
      BY <1>2, <2>1, <3>1 DEF Fits
  <2>3. CASE j = k
    <3>1. /\ <<"callback", k>> \in jobs'[e] => <<"callback", k>> \in jobs[e]
          /\ <<"resume", k>> \in jobs'[e] =>
               e = at[k] /\ kind[k] \in {"switch", "delay"}
      BY <1>5, <1>7, <1>8
    <3> QED
      BY <1>2, <2>1, <2>3, <3>1 DEF Fits
  <2> QED
    BY <2>2, <2>3
<1>15. StaysPut'
  <2> SUFFICES ASSUME NEW j \in handle', Due(j)' PROVE Suspended(j)'
    BY DEF StaysPut
  <2>1. CASE j = k
    BY <1>2, <1>3, <1>6, <2>1 DEF Suspended, k
  <2>2. CASE j # k
    <3>1. j \in handle /\ j \in Waits
      BY <1>1, <1>2, <2>2 DEF TypeOK
    <3>2. \A p, x : <<p, j>> \in jobs'[x] /\ x \in Executors => <<p, j>> \in jobs[x]
      BY <1>7, <1>8, <2>2
    <3>3. Due(j)
      BY <1>2, <3>2 DEF Due
    <3>4. Suspended(j) /\ owner[j] \in Coros
      BY <1>1, <3>1, <3>3 DEF IInv, Turns, StaysPut
    <3> QED
      BY <1>2, <1>6, <3>4 DEF Suspended
  <2> QED
    BY <2>1, <2>2
<1>16. Posts'
  BY <1>2 DEF IInv, AtHome, Posts
<1>17. AwaitedAtHome'
  <2>1. AwaitedAtHome
    BY DEF IInv, AtHome
  <2>2. ASSUME NEW j \in kept \ late
        PROVE  \/ cstate'[owner[j]] = "finished"
               \/ cstate'[owner[j]] = "running" /\ OwnerAtHome(j)'
    <3>1. /\ owner[j] \in Coros /\ owner[j] # c
          /\ \/ cstate[owner[j]] = "finished"
             \/ cstate[owner[j]] = "running" /\ OwnerAtHome(j)
      BY <1>1, <1>2, <2>1 DEF AwaitedAtHome
    <3> QED
      BY <1>2, <1>6, <3>1 DEF OwnerAtHome
  <2>3. ASSUME NEW j \in Waits, kind[j] \in Sockets, result_[j] = "none",
               j \notin handle' \union kept \union late
        PROVE  Calling(j)' /\ OwnerAtHome(j)'
    <3>1. Calling(j) /\ OwnerAtHome(j) /\ j # k
      BY <1>2, <2>1, <2>3 DEF AwaitedAtHome
    <3>2. owner[j] \in Coros /\ owner[j] # c
      BY <1>1, <2>3, <3>1 DEF Calling, k
    <3> QED
      BY <1>2, <1>6, <3>1, <3>2 DEF Calling, OwnerAtHome
  <2> QED
    BY <1>2, <2>2, <2>3 DEF AwaitedAtHome
<1>18. NoStray' /\ SafeAtHome'
  BY <1>2, <1>4 DEF IInv, NoStray, SafeAtHome, NoCrash
<1>19. FindsResult'
  BY <1>2, <1>6 DEF IInv, FindsResult
<1> QED
  BY <1>9, <1>10, <1>11, <1>12, <1>13, <1>14, <1>15, <1>16, <1>17, <1>18, <1>19
  DEF IInv, Base, Turns, AtHome

-----------------------------------------------------------------------------
(* The proactors.                                                           *)

LEMMA CompleteInv ==
  ASSUME IInv, NEW k \in Waits, Complete(k), crash = NoCrash
  PROVE  IInv'
<1>1. TypeOK /\ handle \subseteq Waits
  BY WaitFacts DEF TypeOK
<1>2. /\ req[k] = "pending" /\ req' = [req EXCEPT ![k] = "queued"]
      /\ jobs' = [jobs EXCEPT ![at[k]] = @ \union {<<"callback", k>>}]
      /\ UNCHANGED <<nwait, kind, owner, home, at, result_, handle,
                     kept, late, cstate, cwait, on, crash>>
  BY DEF Complete, waitVars, coroVars
<1>3. kind[k] \in Sockets /\ result_[k] = "none" /\ at[k] \in Executors
  BY <1>2 DEF IInv, Base, Requested, AtHome, Posts
<1>4. /\ req'[k] = "queued" /\ \A j \in Waits : j # k => req'[j] = req[j]
      /\ \A e \in Executors : jobs[e] \subseteq jobs'[e]
      /\ \A e \in Executors : \A p, j : <<p, j>> \in jobs'[e] =>
           <<p, j>> \in jobs[e] \/ (p = "callback" /\ j = k /\ e = at[k])
  BY <1>1, <1>2, <1>3 DEF TypeOK
<1>5. TypeOK'
  <2>1. jobs' \in [Executors -> SUBSET Jobs]
    BY <1>1, <1>2, <1>3 DEF TypeOK, Jobs
  <2> QED
    BY <1>1, <1>2, <2>1 DEF TypeOK
<1>6. Numbered' /\ Requested'
  BY <1>2, <1>3, <1>4 DEF IInv, Base, Numbered, Requested, Sockets
<1>7. Current' /\ OneThread'
  BY <1>2 DEF IInv, Base, Current, OneThread
<1>8. JobsFit'
  <2> SUFFICES ASSUME NEW e \in Executors, NEW j \in Waits PROVE Fits(e, j)'
    BY DEF JobsFit
  <2>1. Fits(e, j)
    BY DEF IInv, Turns, JobsFit
  <2>2. /\ <<"resume", j>> \in jobs'[e] => <<"resume", j>> \in jobs[e]
        /\ <<"callback", j>> \in jobs'[e] =>
             <<"callback", j>> \in jobs[e] \/ (j = k /\ e = at[k])
    BY <1>4, <2>1
  <2> QED
    BY <1>2, <1>3, <1>4, <2>1, <2>2 DEF Fits
<1>9. StaysPut'
  <2>1. StaysPut
    BY DEF IInv, Turns
  <2>2. \A e \in Executors, j \in Waits :
          <<"resume", j>> \in jobs'[e] => <<"resume", j>> \in jobs[e]
    BY <1>4
  <2>3. \A j \in Waits : req'[j] # "called" => req[j] # "called"
    BY <1>2, <1>4
  <2> QED
    BY <1>1, <1>2, <2>1, <2>2, <2>3 DEF StaysPut, Due, Suspended
<1>10. Posts'
  BY <1>2 DEF IInv, AtHome, Posts
<1>11. AwaitedAtHome'
  BY <1>2, AwaitedFrame
<1>12. NoStray' /\ SafeAtHome' /\ FindsResult'
  BY <1>2 DEF IInv, NoStray, SafeAtHome, FindsResult, NoCrash
<1> QED
  BY <1>5, <1>6, <1>7, <1>8, <1>9, <1>10, <1>11, <1>12
  DEF IInv, Base, Turns, AtHome

-----------------------------------------------------------------------------
(* Executors.                                                               *)

\* A resumption that finds its coroutine suspended.
Woken(k, th) ==
    /\ k \in handle /\ Suspended(k)
    /\ cstate' = [cstate EXCEPT ![owner[k]] = "running"]
    /\ on' = [on EXCEPT ![th] = owner[k]]

LEMMA ResumeEffect ==
  ASSUME NEW k \in Waits, NEW th \in Threads, Resume(k, th),
         k \in handle => Suspended(k)
  PROVE  \/ /\ k \notin handle /\ crash' = <<"null_resume", k>>
            /\ UNCHANGED cstate /\ UNCHANGED on
         \/ Woken(k, th) /\ UNCHANGED crash
BY DEF Resume, Woken, Suspended

\* What running a job of wait k does not touch.
Ran(k, th) ==
    /\ Free(th)
    /\ Woken(k, th) \/ (UNCHANGED cstate /\ UNCHANGED on)
    /\ UNCHANGED nwait /\ UNCHANGED kind /\ UNCHANGED owner
    /\ UNCHANGED home /\ UNCHANGED at /\ UNCHANGED handle
    /\ UNCHANGED kept /\ UNCHANGED late /\ UNCHANGED cwait
    /\ \A j \in Waits : j # k =>
         req'[j] = req[j] /\ result_'[j] = result_[j]
    /\ result_'[k] = "none" => result_[k] = "none"

LEMMA RanControl ==
  ASSUME IInv, NEW k \in Waits, NEW th \in Threads, Ran(k, th)
  PROVE  /\ Current' /\ OneThread' /\ Posts' /\ AwaitedAtHome'
         /\ cstate' \in [Coros -> {"new", "running", "called", "checked",
                                   "suspended", "finished"}]
         /\ on' \in [Threads -> Coros \union {NoOne}]
<1>1. /\ TypeOK /\ NoOne \notin Coros /\ on[th] = NoOne
      /\ \A t \in Threads : on[t] # NoOne => on[t] \in Coros
      /\ \A j \in handle : owner[j] \in Coros
  BY WaitFacts, CoroutinesAssumption DEF Ran, Free
<1>2. Posts'
  BY DEF IInv, AtHome, Posts, Ran
<1>5. CASE UNCHANGED cstate /\ UNCHANGED on
  <2>1. Current' /\ OneThread'
    BY <1>5 DEF IInv, Base, Current, OneThread, Ran
  <2>3. AwaitedAtHome'
    <3>1. \A j \in Waits : result_'[j] = "none" => result_[j] = "none"
      BY DEF Ran
    <3> QED
      BY <1>5, <3>1, AwaitedFrame DEF Ran
  <2> QED
    BY <1>1, <1>2, <1>5, <2>1, <2>3 DEF TypeOK
<1>6. CASE Woken(k, th)
  <2> DEFINE c == owner[k]
  <2>1. /\ c \in Coros /\ cwait[c] = k /\ cstate[c] = "suspended"
        /\ cstate' = [cstate EXCEPT ![c] = "running"]
        /\ on' = [on EXCEPT ![th] = c]
    BY <1>1, <1>6 DEF Woken, Suspended
  <2> HIDE DEF c
  <2>2. /\ cstate'[c] = "running" /\ on'[th] = c
        /\ \A d \in Coros : d # c => cstate'[d] = cstate[d]
        /\ \A t \in Threads : t # th => on'[t] = on[t]
    BY <1>1, <2>1 DEF TypeOK
  <2>3. Current'
    BY <2>1, <2>2 DEF IInv, Base, Current, Ran
  <2>4. OneThread'
    BY <1>1, <2>1, <2>2 DEF IInv, Base, OneThread
  <2>6. AwaitedAtHome'
    <3>1. \A j \in Waits : result_'[j] = "none" => result_[j] = "none"
      BY DEF Ran
    <3>2. \A d \in Coros : cstate[d] \notin {"new", "suspended"} =>
            cstate'[d] = cstate[d] /\ cwait'[d] = cwait[d]
      BY <2>1, <2>2 DEF Ran
    <3>3. \A t \in Threads : on[t] # NoOne => on'[t] = on[t]
      BY <1>1, <2>2
    <3> QED
      BY <3>1, <3>2, <3>3, AwaitedFrame DEF Ran
  <2> QED
    BY <1>1, <1>2, <2>1, <2>3, <2>4, <2>6 DEF TypeOK
<1> QED
  BY <1>5, <1>6 DEF Ran

LEMMA RanStaysPut ==
  ASSUME IInv, NEW k \in Waits, NEW th \in Threads, Ran(k, th),
         \A j \in Waits : Due(j)' => Due(j),
         Woken(k, th) => ~Due(k)'
  PROVE  StaysPut'
<1> SUFFICES ASSUME NEW j \in handle', Due(j)' PROVE Suspended(j)'
  BY DEF StaysPut
<1>1. j \in handle /\ j \in Waits /\ owner[j] \in Coros
  BY WaitFacts DEF Ran
<1>2. Suspended(j)
  BY <1>1 DEF IInv, Turns, StaysPut
<1>3. CASE UNCHANGED cstate /\ UNCHANGED on
  BY <1>2, <1>3 DEF Suspended, Ran
<1>4. CASE Woken(k, th)
  <2>1. j # k
    BY <1>4
  <2>2. owner[j] # owner[k]
    BY <1>2, <1>4, <2>1 DEF Suspended, Woken
  <2> QED
    BY <1>2, <1>4, <2>2 DEF Suspended, Woken, Ran
<1> QED
  BY <1>3, <1>4 DEF Ran

LEMMA FewerJobs ==
  ASSUME IInv, NEW k \in Waits, NEW th \in Threads, Ran(k, th),
         \A e \in Executors : jobs'[e] \subseteq jobs[e],
         \A e \in Executors : <<"callback", k>> \in jobs'[e] => req'[k] = req[k]
  PROVE  JobsFit'
<1> SUFFICES ASSUME NEW e \in Executors, NEW j \in Waits PROVE Fits(e, j)'
  BY DEF JobsFit
<1>1. Fits(e, j)
  BY DEF IInv, Turns, JobsFit
<1>2. \A p : <<p, j>> \in jobs'[e] => <<p, j>> \in jobs[e]
  BY <1>1
<1>3. /\ result_'[j] = "none" => result_[j] = "none"
      /\ <<"callback", j>> \in jobs'[e] => req'[j] = req[j]
  BY DEF Ran
<1> QED
  BY <1>1, <1>2, <1>3 DEF Fits, Ran

LEMMA TakeEffect ==
  ASSUME TypeOK, NEW th \in Threads, NEW job, Take(th, job)
  PROVE  /\ ExecOf[th] \in Executors /\ Free(th) /\ job \in jobs[ExecOf[th]]
         /\ jobs' \in [Executors -> SUBSET Jobs]
         /\ job \notin jobs'[ExecOf[th]]
         /\ \A e \in Executors : jobs'[e] \subseteq jobs[e]
BY CoroutinesAssumption DEF Take, TypeOK

LEMMA RunResumeInv ==
  ASSUME IInv, NEW th \in Threads, NEW k \in Waits, RunResume(th, k),
         crash = NoCrash
  PROVE  IInv'
<1> DEFINE x == ExecOf[th]
<1>1. TypeOK /\ x \in Executors
  BY CoroutinesAssumption DEF IInv, Base, TypeOK
<1>2. /\ Take(th, <<"resume", k>>) /\ Resume(k, th)
      /\ UNCHANGED <<nwait, kind, owner, home, at, req, result_, handle,
                     kept, late, cwait>>
  BY DEF RunResume, waitVars, taskVars
<1>3. /\ Free(th) /\ <<"resume", k>> \in jobs[x] /\ <<"resume", k>> \notin jobs'[x]
      /\ jobs' \in [Executors -> SUBSET Jobs]
      /\ \A e \in Executors : jobs'[e] \subseteq jobs[e]
  BY <1>1, <1>2, TakeEffect
<1> HIDE DEF x
<1>4. Fits(x, k) /\ \A e \in Executors : Fits(e, k)
  BY <1>1 DEF IInv, Turns, JobsFit
<1>5. k \in handle /\ Suspended(k)
  BY <1>1, <1>3, <1>4 DEF IInv, Turns, StaysPut, Due, Fits
<1>6. Woken(k, th) /\ UNCHANGED crash
  BY <1>2, <1>5, ResumeEffect
<1>7. Ran(k, th)
  BY <1>2, <1>3, <1>6 DEF Ran
<1>8. ~Due(k)'
  <2>1. \A e \in Executors : <<"resume", k>> \notin jobs'[e]
    BY <1>3, <1>4 DEF Fits
  <2>2. kind[k] \notin Sockets
    BY <1>3, <1>4 DEF Fits, Sockets
  <2> QED
    BY <1>2, <2>1, <2>2 DEF Due
<1>9. StaysPut'
  <2>1. \A j \in Waits : Due(j)' => Due(j)
    BY <1>2, <1>3 DEF Due
  <2> QED
    BY <1>7, <1>8, <2>1, RanStaysPut
<1>10. JobsFit'
  BY <1>2, <1>3, <1>7, FewerJobs
<1>11. Current' /\ OneThread' /\ Posts' /\ AwaitedAtHome' /\ TypeOK'
  <2>1. /\ Current' /\ OneThread' /\ Posts' /\ AwaitedAtHome'
        /\ cstate' \in [Coros -> {"new", "running", "called", "checked",
                                  "suspended", "finished"}]
        /\ on' \in [Threads -> Coros \union {NoOne}]
    BY <1>7, RanControl
  <2> QED
    BY <1>1, <1>2, <1>3, <1>6, <2>1 DEF TypeOK
<1>12. Numbered' /\ Requested'
  BY <1>2 DEF IInv, Base, Numbered, Requested
<1>13. NoStray' /\ SafeAtHome'
  BY <1>6 DEF IInv, NoStray, SafeAtHome, NoCrash
<1>14. FindsResult'
  <2>1. kind[k] \in {"switch", "delay"}
    BY <1>3, <1>4 DEF Fits
  <2>2. \A c \in Coros : cstate'[c] = "running" =>
          cstate[c] = "running" \/ cwait[c] = k
    BY <1>1, <1>6 DEF Woken, Suspended, TypeOK
  <2> QED
    BY <1>2, <1>6, <2>1, <2>2 DEF IInv, FindsResult, Sockets
<1> QED
  BY <1>9, <1>10, <1>11, <1>12, <1>13, <1>14
  DEF IInv, Base, Turns, AtHome

LEMMA RunCallbackInv ==
  ASSUME IInv, NEW th \in Threads, NEW k \in Waits, RunCallback(th, k),
         crash = NoCrash
  PROVE  IInv'
<1> DEFINE x == ExecOf[th]
<1>1. TypeOK /\ x \in Executors
  BY CoroutinesAssumption DEF IInv, Base, TypeOK
<1>2. /\ Free(th) /\ <<"callback", k>> \in jobs[x]
      /\ <<"callback", k>> \notin jobs'[x]
      /\ jobs' \in [Executors -> SUBSET Jobs]
      /\ \A e \in Executors : jobs'[e] \subseteq jobs[e]
  BY <1>1, TakeEffect DEF RunCallback
<1> HIDE DEF x
<1>3. /\ kind[k] \in Sockets /\ req[k] = "queued" /\ x = at[k]
      /\ result_[k] = "none"
      /\ \A e \in Executors : <<"callback", k>> \in jobs[e] => e = x
  <2>1. \A e \in Executors : <<"callback", k>> \in jobs[e] =>
          kind[k] \in Sockets /\ req[k] = "queued" /\ e = at[k]
    BY DEF IInv, Turns, JobsFit, Fits
  <2> QED
    BY <1>1, <1>2, <2>1 DEF IInv, Base, Requested
<1>4. /\ req' = [req EXCEPT ![k] = "called"]
      /\ result_' = [result_ EXCEPT ![k] = "value"] /\ Resume(k, th)
      /\ UNCHANGED <<nwait, kind, owner, home, at, handle, kept, late,
                     cwait>>
  BY <1>3 DEF RunCallback, waitVars
<1>5. /\ req'[k] = "called" /\ result_'[k] = "value"
      /\ \A j \in Waits : j # k => req'[j] = req[j] /\ result_'[j] = result_[j]
      /\ req' \in [Waits -> {"none", "pending", "queued", "called", "answered",
                             "failed"}]
      /\ result_' \in [Waits -> {"none", "value", "error"}]
  BY <1>1, <1>4 DEF TypeOK
<1>6. k \in handle => Suspended(k)
  BY <1>3 DEF IInv, Turns, StaysPut, Due
<1>7. \/ /\ k \notin handle /\ crash' = <<"null_resume", k>>
         /\ UNCHANGED cstate /\ UNCHANGED on
      \/ Woken(k, th) /\ UNCHANGED crash
  BY <1>4, <1>6, ResumeEffect
<1>8. Ran(k, th)
  BY <1>2, <1>4, <1>5, <1>7 DEF Ran
<1>9. ~Due(k)'
  <2>1. \A e \in Executors : <<"resume", k>> \notin jobs'[e]
    BY <1>2, <1>3 DEF IInv, Turns, JobsFit, Fits, Sockets
  <2> QED
    BY <1>3, <1>4, <1>5, <2>1 DEF Due, Sockets
<1>10. StaysPut'
  <2>1. ASSUME NEW j \in Waits, Due(j)' PROVE Due(j)
    <3>1. j # k
      BY <1>9, <2>1
    <3> QED
      BY <1>2, <1>4, <1>5, <2>1, <3>1 DEF Due
  <2> QED
    BY <1>8, <1>9, <2>1, RanStaysPut
<1>11. JobsFit'
  <2>1. \A e \in Executors : <<"callback", k>> \notin jobs'[e]
    BY <1>2, <1>3
  <2> QED
    BY <1>2, <1>8, <2>1, FewerJobs
<1>12. Current' /\ OneThread' /\ Posts' /\ AwaitedAtHome' /\ TypeOK'
  <2>1. /\ Current' /\ OneThread' /\ Posts' /\ AwaitedAtHome'
        /\ cstate' \in [Coros -> {"new", "running", "called", "checked",
                                  "suspended", "finished"}]
        /\ on' \in [Threads -> Coros \union {NoOne}]
    BY <1>8, RanControl
  <2>2. crash' \in {"no", "null_resume", "stray_resume", "null_executor"}
                     \X (0..MaxWaits)
    BY <1>1, <1>7 DEF TypeOK, Waits
  <2> QED
    BY <1>1, <1>2, <1>4, <1>5, <2>1, <2>2 DEF TypeOK
<1>13. Numbered' /\ Requested'
  BY <1>3, <1>4, <1>5, WaitFacts DEF IInv, Base, Numbered, Requested, Sockets
<1>14. NoStray'
  BY <1>7 DEF IInv, NoStray
<1>15. SafeAtHome'
  <2> SUFFICES ASSUME k \notin handle, crash' = <<"null_resume", k>>,
                      at[k] = home[k], k \notin kept \union late
               PROVE  FALSE
    BY <1>3, <1>4, <1>7 DEF SafeAtHome, NoCrash
  <2>1. OwnerAtHome(k)
    BY <1>3 DEF IInv, AtHome, AwaitedAtHome
  <2>2. PICK t \in Threads :
          get_current_executor(t) = home[k] /\ on[t] = owner[k]
    BY <2>1 DEF OwnerAtHome
  <2>3. t = th
    BY <1>1, <1>3, <2>2, CoroutinesAssumption DEF get_current_executor, x
  <2>4. owner[k] # NoOne
    BY <1>3, WaitFacts DEF Sockets
  <2> QED
    BY <1>2, <2>2, <2>3, <2>4 DEF Free
<1>16. FindsResult'
  <2>1. \A c \in Coros : cwait[c] # 0 => cwait[c] \in Waits
    BY WaitFacts
  <2>2. ASSUME NEW c \in Coros, cstate'[c] = "running", cwait[c] # 0,
               cwait[c] # k,
               kind[cwait[c]] \in Sockets
        PROVE  result_'[cwait[c]] # "none"
    <3>1. cstate[c] = "running"
      BY <1>1, <1>7, <2>2 DEF Woken, Suspended, TypeOK
    <3> QED
      BY <1>5, <2>1, <2>2, <3>1 DEF IInv, FindsResult
  <2> QED
    BY <1>4, <1>5, <2>2 DEF FindsResult
<1> QED
  BY <1>10, <1>11, <1>12, <1>13, <1>14, <1>15, <1>16
  DEF IInv, Base, Turns, AtHome

-----------------------------------------------------------------------------
(* The specification.                                                       *)

LEMMA StutterInv ==
  ASSUME IInv, UNCHANGED vars
  PROVE  IInv'
<1> USE DEF vars
<1>1. TypeOK' /\ Numbered' /\ Current' /\ OneThread' /\ Requested'
  BY DEF IInv, Base, TypeOK, Numbered, Current, OneThread, Requested
<1>2. JobsFit' /\ StaysPut'
  BY DEF IInv, Turns, JobsFit, Fits, StaysPut, Due, Suspended
<1>3. Posts' /\ AwaitedAtHome'
  BY DEF IInv, AtHome, Posts, AwaitedAtHome, OwnerAtHome, Calling
<1>4. NoStray' /\ SafeAtHome' /\ FindsResult'
  BY DEF IInv, NoStray, SafeAtHome, FindsResult
<1> QED
  BY <1>1, <1>2, <1>3, <1>4 DEF IInv, Base, Turns, AtHome

LEMMA NextInv ==
  ASSUME IInv, [Next]_vars
  PROVE  IInv'
<1>1. CASE UNCHANGED vars
  BY <1>1, StutterInv
<1>2. ASSUME crash = NoCrash, NEW c \in Coros, Coroutine(c) PROVE IInv'
  <2>1. PICK th \in Threads :
          \/ Finish(c, th) \/ await_ready(c, th) \/ await_suspend(c, th)
          \/ sleep_for(c, th)
          \/ \E k \in Waits : Await(c, th, k)
          \/ \E e \in Executors :
               (\E k \in Sockets : Call(c, th, k, e)) \/ switch_to(c, th, e)
    BY <1>2 DEF Coroutine
  <2> QED
    BY <1>2, <2>1, FinishInv, AwaitReadyInv, AwaitSuspendInv, AwaitInv,
       CallInv, SwitchSleepInv
<1>3. ASSUME crash = NoCrash, NEW c \in Coros, NEW th \in Threads, Begin(c, th)
      PROVE  IInv'
  BY <1>3, BeginInv
<1>4. ASSUME crash = NoCrash, NEW th \in Threads, Run(th) PROVE IInv'
  BY <1>4, RunResumeInv, RunCallbackInv DEF Run
<1>5. ASSUME crash = NoCrash, NEW k \in Waits, Complete(k) PROVE IInv'
  BY <1>5, CompleteInv
<1> QED
  BY <1>1, <1>2, <1>3, <1>4, <1>5 DEF Next

THEOREM Invariance == Spec => []IInv
<1>1. Init => IInv
  BY InitInv
<1>2. IInv /\ [Next]_vars => IInv'
  BY NextInv
<1> QED
  BY <1>1, <1>2, PTL DEF Spec

\* The variables keep their types.
THEOREM TypeCorrect == Spec => []TypeOK
<1>1. IInv => TypeOK
  BY DEF IInv, Base
<1> QED
  BY <1>1, Invariance, PTL

\* Whatever the executors and however their threads race, no job of a wait
\* resumes a coroutine that has gone on: a wait is resumed once.
THEOREM ResumedOnce == Spec => []NoStray
<1>1. IInv => NoStray
  BY DEF IInv
<1> QED
  BY <1>1, Invariance, PTL

\* On the thread of a context's SimpleExecutor no null handle is resumed, but
\* for a socket's Task that another executor completes or that is not awaited
\* at once; on a thread with no current executor a delay is what crashes.
THEOREM SafeOnSimpleExecutor == Spec => []SafeAtHome
<1>1. IInv => SafeAtHome
  BY DEF IInv
<1> QED
  BY <1>1, Invariance, PTL

\* A coroutine that goes on after waiting for a socket has its result.
THEOREM ResultsFound == Spec => []FindsResult
<1>1. IInv => FindsResult
  BY DEF IInv
<1> QED
  BY <1>1, Invariance, PTL

-----------------------------------------------------------------------------
(* Nobody is forgotten.                                                     *)

\* What is still to resume a suspended coroutine's wait: a job or a request.
Pending(k) ==
    \/ /\ kind[k] \in {"switch", "delay"} /\ at[k] \in Executors
       /\ <<"resume", k>> \in jobs[at[k]]
    \/ /\ kind[k] \in Sockets /\ result_[k] = "none"
       /\ \/ req[k] \in {"pending", "answered"}
          \/ req[k] = "queued" /\ <<"callback", k>> \in jobs[at[k]]

\* What became of a request.
Request(k) ==
    /\ kind[k] \in Sockets => req[k] # "none"
    /\ req[k] \in {"failed", "called"} => result_[k] # "none"
    /\ req[k] = "queued" => <<"callback", k>> \in jobs[at[k]]

Unanswered(c) ==
    cstate[c] = "checked" /\ kind[cwait[c]] \in Sockets
      => result_[cwait[c]] = "none"
Waiting(c) == cstate[c] = "suspended" => Pending(cwait[c])

RInv ==
    crash = NoCrash =>
        /\ \A k \in Waits : Request(k)
        /\ \A c \in Coros : Unanswered(c) /\ Waiting(c)

\* Nothing that matters to wait k changes, but for jobs that are added.
Untouched(k) ==
    /\ kind'[k] = kind[k] /\ at'[k] = at[k] /\ home'[k] = home[k]
    /\ req'[k] = req[k] /\ result_'[k] = result_[k]
    /\ \A e \in Executors : \A j \in {"resume", "callback"} :
         <<j, k>> \in jobs[e] => <<j, k>> \in jobs'[e]

LEMMA UntouchedStays ==
  ASSUME IInv, NEW k \in Waits, Untouched(k)
  PROVE  (Request(k) => Request(k)') /\ (Pending(k) => Pending(k)')
<1>1. /\ kind[k] \in {"switch"} \union Sockets => at[k] \in Executors
      /\ kind[k] = "delay" => at[k] = home[k]
      /\ at[k] \in Executors \union {Null}
  BY DEF IInv, Base, TypeOK, AtHome, Posts
<1>2. Request(k) => Request(k)'
  <2>1. Request(k) /\ req[k] = "queued" => at[k] \in Executors
    BY <1>1 DEF Request, IInv, Base, Requested
  <2> QED
    BY <2>1 DEF Untouched, Request
<1>3. Pending(k) => Pending(k)'
  BY <1>1 DEF Untouched, Pending
<1> QED
  BY <1>2, <1>3

\* A step after which the only wait it touches, if any, is as it should be.
LEMMA TouchesOne ==
  ASSUME IInv, RInv, crash = NoCrash, NEW k,
         \A j \in Waits : j # k => Untouched(j),
         k \in Waits => Request(k)',
         \A c \in Coros : cwait'[c] # k =>
            /\ cstate'[c] \in {"checked", "suspended"} =>
                 cstate'[c] = cstate[c] /\ cwait'[c] = cwait[c],
         \A c \in Coros : cwait'[c] = k => Unanswered(c)' /\ Waiting(c)'
  PROVE  RInv'
<1>1. \A c \in Coros : cwait[c] # 0 => cwait[c] \in Waits
  BY WaitFacts
<1>2. \A c \in Coros : cstate[c] \in {"checked", "suspended"} => cwait[c] # 0
  BY DEF IInv, Base, Current
<1>3. /\ \A j \in Waits : Request(j)
      /\ \A c \in Coros : Unanswered(c) /\ Waiting(c)
  BY DEF RInv
<1>4. \A j \in Waits : Request(j)'
  <2> TAKE j \in Waits
  <2>1. CASE j = k
    BY <2>1
  <2>2. CASE j # k
    BY <1>3, <2>2, UntouchedStays
  <2> QED
    BY <2>1, <2>2
<1>5. ASSUME NEW c \in Coros PROVE Unanswered(c)' /\ Waiting(c)'
  <2>1. CASE cwait'[c] = k
    BY <2>1
  <2>2. CASE cwait'[c] # k /\ cstate'[c] \in {"checked", "suspended"}
    <3>1. cstate'[c] = cstate[c] /\ cwait'[c] = cwait[c]
      BY <2>2
    <3>2. PICK w \in Waits : w = cwait[c]
      BY <1>1, <1>2, <2>2, <3>1
    <3>3. Untouched(w)
      BY <2>2, <3>1, <3>2
    <3>4. Unanswered(c)'
      BY <1>3, <3>1, <3>2, <3>3 DEF Untouched, Unanswered
    <3>5. Pending(w) => Pending(w)'
      BY <3>3, UntouchedStays
    <3>6. Waiting(c)'
      <4>1. cwait'[c] = w
        BY <3>1, <3>2
      <4>2. Pending(w)' => Waiting(c)'
        BY <4>1 DEF Waiting, Pending
      <4>3. cstate'[c] = "suspended" => Pending(w)
        BY <1>3, <3>1, <3>2 DEF Waiting
      <4>4. cstate'[c] # "suspended" => Waiting(c)'
        BY DEF Waiting
      <4> QED
        BY <3>5, <4>2, <4>3, <4>4
    <3> QED
      BY <3>4, <3>6
  <2>3. CASE cstate'[c] \notin {"checked", "suspended"}
    BY <2>3 DEF Unanswered, Waiting
  <2> QED
    BY <2>1, <2>2, <2>3
<1> QED
  BY <1>4, <1>5 DEF RInv

LEMMA InitRInv == Init => RInv
<1> SUFFICES ASSUME Init PROVE RInv
  OBVIOUS
<1>1. \A k \in Waits : Request(k)
  BY DEF Init, Request, Sockets
<1>2. \A c \in Coros : Unanswered(c) /\ Waiting(c)
  BY DEF Init, Unanswered, Waiting
<1> QED
  BY <1>1, <1>2 DEF RInv

\* The steps of a coroutine before it is suspended.
LEMMA CoroutineRInv ==
  ASSUME IInv, RInv, crash = NoCrash, NEW c \in Coros, NEW th \in Threads,
         \/ Begin(c, th) \/ Finish(c, th) \/ await_ready(c, th)
         \/ \E k \in Waits : Await(c, th, k)
  PROVE  RInv'
<1>0. TypeOK
  BY DEF IInv, Base
<1>1. \A j \in Waits : Untouched(j)
  BY DEF Begin, Finish, await_ready, Await, waitVars, taskVars, Untouched
<1>2. \A d \in Coros : d # c => cstate'[d] = cstate[d] /\ cwait'[d] = cwait[d]
  BY <1>0 DEF Begin, Finish, await_ready, Await, TypeOK
<1>3. \/ cstate'[c] \in {"running", "finished", "called"}
      \/ /\ cstate'[c] = "checked" /\ cwait'[c] = cwait[c]
         /\ result_[cwait[c]] = "none" /\ result_' = result_
         /\ kind' = kind
  BY <1>0 DEF Begin, Finish, await_ready, Await, waitVars, taskVars, TypeOK
<1>4. \A j \in Waits : Request(j)'
  BY <1>1, UntouchedStays DEF RInv
<1>5. ASSUME NEW d \in Coros PROVE Unanswered(d)' /\ Waiting(d)'
  <2>1. CASE d = c
    BY <1>3, <2>1 DEF Unanswered, Waiting
  <2>2. CASE d # c
    <3>1. cstate'[d] = cstate[d] /\ cwait'[d] = cwait[d]
      BY <1>2, <2>2
    <3>2. cstate[d] \in {"checked", "suspended"} => cwait[d] \in Waits
      BY WaitFacts DEF IInv, Base, Current
    <3>3. Unanswered(d) /\ Waiting(d)
      BY DEF RInv
    <3>4. Unanswered(d)'
      BY <1>1, <3>1, <3>2, <3>3 DEF Unanswered, Untouched
    <3>5. Waiting(d)'
      <4> SUFFICES ASSUME cstate'[d] = "suspended"
                   PROVE  Waiting(d)'
        BY DEF Waiting
      <4>1. PICK w \in Waits : w = cwait[d]
        BY <3>1, <3>2
      <4>2. Pending(w)'
        <5>1. Pending(w)
          BY <3>1, <3>3, <4>1 DEF Waiting
        <5> QED
          BY <1>1, <5>1, UntouchedStays
      <4>3. cwait'[d] = w
        BY <3>1, <4>1
      <4> QED
        BY <4>2, <4>3 DEF Waiting, Pending
    <3> QED
      BY <3>4, <3>5
  <2> QED
    BY <2>1, <2>2
<1> QED
  BY <1>4, <1>5 DEF RInv

\* A new wait has no job yet, and its coroutine is not suspended.
LEMMA NewWaitRInv ==
  ASSUME IInv, RInv, crash = NoCrash, NEW c \in Coros, NEW th \in Threads,
         NEW k \in Kinds, NEW e \in Executors \union {Null},
         \/ k \in Sockets /\ Call(c, th, k, e)
         \/ k \notin Sockets /\ CoAwait(c, th, k, e)
  PROVE  RInv'
<1>0. PICK n : n = nwait + 1
  OBVIOUS
<1>1. NewWait(c, th, k, e) /\ TypeOK
  BY DEF Call, CoAwait, IInv, Base
<1>2. /\ n \in Waits /\ req[n] = "none" /\ result_[n] = "none"
      /\ \A d \in Coros : cwait[d] # n
  BY <1>0, <1>1, NewWaitFacts
<1>3. /\ kind' = [kind EXCEPT ![n] = k] /\ home' = [home EXCEPT ![n] = get_current_executor(th)]
      /\ at' = [at EXCEPT ![n] = e] /\ UNCHANGED jobs
      /\ cstate[c] = "running"
  BY <1>0, <1>1 DEF NewWait, Runs
<1>4. \/ /\ k \in Sockets /\ UNCHANGED <<cstate, cwait>>
         /\ \E answer \in {"pending", "answered", "failed"} :
              /\ req' = [req EXCEPT ![n] = answer]
              /\ result_' = [result_ EXCEPT ![n] =
                               IF answer = "failed" THEN "error" ELSE "none"]
      \/ /\ k \notin Sockets /\ UNCHANGED <<req, result_>>
         /\ cstate' = [cstate EXCEPT ![c] = "called"]
         /\ cwait' = [cwait EXCEPT ![c] = n]
  BY <1>0 DEF Call, CoAwait, coroVars
<1>5. \A j \in Waits : j # n => Untouched(j)
  BY <1>1, <1>3, <1>4 DEF TypeOK, Untouched
<1>6. Request(n)'
  <2>1. kind'[n] = k
    BY <1>1, <1>2, <1>3 DEF TypeOK
  <2>2. CASE k \in Sockets
    <3>1. PICK answer \in {"pending", "answered", "failed"} :
            /\ req' = [req EXCEPT ![n] = answer]
            /\ result_' = [result_ EXCEPT ![n] =
                             IF answer = "failed" THEN "error" ELSE "none"]
      BY <1>4, <2>2
    <3>2. /\ req'[n] = answer
          /\ result_'[n] = IF answer = "failed" THEN "error" ELSE "none"
      BY <1>1, <1>2, <3>1 DEF TypeOK
    <3> QED
      BY <3>2 DEF Request
  <2>3. CASE k \notin Sockets
    BY <1>2, <1>4, <2>1, <2>3 DEF Request
  <2> QED
    BY <2>2, <2>3
<1>7. \A d \in Coros : cwait'[d] # n =>
         cstate'[d] = cstate[d] /\ cwait'[d] = cwait[d]
  BY <1>1, <1>4 DEF TypeOK
<1>8. \A d \in Coros : cwait'[d] = n => cstate'[d] = "called"
  BY <1>1, <1>2, <1>4 DEF TypeOK
<1>9. \A d \in Coros : cwait'[d] = n => Unanswered(d)' /\ Waiting(d)'
  BY <1>8 DEF Unanswered, Waiting
<1> QED
  BY <1>2, <1>5, <1>6, <1>7, <1>9, TouchesOne

\* What await_suspend posts, or the request it has made, will resume it.
LEMMA SuspendRInv ==
  ASSUME IInv, RInv, crash = NoCrash, NEW c \in Coros, NEW th \in Threads,
         await_suspend(c, th)
  PROVE  RInv'
<1> SUFFICES ASSUME crash' = NoCrash PROVE RInv'
  BY DEF RInv
<1>0. PICK k : k = cwait[c]
  OBVIOUS
<1>1. /\ cstate[c] = "checked" /\ at[k] # Null
      /\ cstate' = [cstate EXCEPT ![c] = "suspended"]
      /\ jobs' = [jobs EXCEPT ![at[k]] = @ \union Posted(k)]
      /\ UNCHANGED <<nwait, kind, owner, home, at, req, result_, cwait>>
  BY <1>0 DEF await_suspend, waitVars, NoCrash
<1>2. TypeOK /\ k \in Waits /\ k <= nwait /\ owner[k] = c /\ k \notin handle
  <2>1. k # 0
    BY <1>0, <1>1 DEF IInv, Base, Current
  <2> QED
    BY <1>0, <1>1, <2>1, WaitFacts DEF IInv, Base, Current
<1>3. at[k] \in Executors /\ kind[k] \in Kinds
  BY <1>1, <1>2 DEF TypeOK, IInv, Base, Numbered
<1>5. Request(k) /\ Unanswered(c)
  BY <1>2 DEF RInv
<1>6. \A d \in Coros : cwait[d] = k => d = c
  BY <1>2, WaitFacts DEF IInv, Base, Current
<1>7. \A j \in Waits : Untouched(j)
  BY <1>1, <1>2, <1>3 DEF TypeOK, Untouched
<1>8. Request(k)'
  BY <1>2, <1>5, <1>7, UntouchedStays
<1>9. Pending(k)'
  <2>1. \A j \in Posted(k) : j \in jobs'[at[k]]
    BY <1>1, <1>2, <1>3 DEF TypeOK
  <2>2. CASE kind[k] \in Sockets
    <3>1. result_[k] = "none"
      BY <1>0, <1>1, <1>5, <2>2 DEF Unanswered
    <3>2. req[k] \in {"pending", "answered", "queued"}
      BY <1>2, <1>5, <2>2, <3>1 DEF Request, TypeOK
    <3>3. <<"callback", k>> \in jobs[at[k]] => <<"callback", k>> \in jobs'[at[k]]
      BY <1>2, <1>3, <1>7 DEF Untouched
    <3> QED
      BY <1>1, <1>5, <2>2, <3>1, <3>2, <3>3 DEF Pending, Request
  <2>3. CASE kind[k] \in {"switch", "delay"}
    <3>1. <<"resume", k>> \in jobs'[at[k]]
      BY <2>1, <2>3 DEF Posted, Sockets
    <3> QED
      BY <1>1, <1>3, <2>3, <3>1 DEF Pending
  <2> QED
    BY <1>3, <2>2, <2>3 DEF Kinds, Sockets
<1>10. \A d \in Coros : cwait'[d] # k =>
          cstate'[d] = cstate[d] /\ cwait'[d] = cwait[d]
  BY <1>0, <1>1, <1>2 DEF TypeOK
<1>11. ASSUME NEW d \in Coros, cwait'[d] = k
       PROVE  Unanswered(d)' /\ Waiting(d)'
  <2>1. d = c /\ cstate'[d] = "suspended" /\ cwait'[d] = k
    BY <1>1, <1>2, <1>6, <1>11 DEF TypeOK
  <2>2. Waiting(d)'
    BY <1>9, <2>1 DEF Waiting, Pending
  <2> QED
    BY <2>1, <2>2 DEF Unanswered
<1> QED
  BY <1>7, <1>8, <1>10, <1>11, TouchesOne

LEMMA CompleteRInv ==
  ASSUME IInv, RInv, crash = NoCrash, NEW k \in Waits, Complete(k)
  PROVE  RInv'
<1>0. TypeOK /\ at[k] \in Executors
  BY DEF Complete, IInv, Base, Requested, AtHome, Posts
<1>1. /\ req[k] = "pending" /\ req' = [req EXCEPT ![k] = "queued"]
      /\ jobs' = [jobs EXCEPT ![at[k]] = @ \union {<<"callback", k>>}]
      /\ UNCHANGED <<nwait, kind, owner, home, at, result_, cstate, cwait>>
  BY DEF Complete, waitVars, coroVars
<1>2. \A j \in Waits : j # k => Untouched(j)
  BY <1>0, <1>1 DEF Untouched, TypeOK
<1>3. <<"callback", k>> \in jobs'[at[k]] /\ req'[k] = "queued"
  BY <1>0, <1>1 DEF TypeOK
<1>4. Request(k)'
  BY <1>1, <1>3 DEF Request
<1>5. kind[k] \in Sockets /\ result_[k] = "none"
  BY <1>1 DEF IInv, Base, Requested
<1>6. ASSUME NEW d \in Coros, cwait'[d] = k
      PROVE  Unanswered(d)' /\ Waiting(d)'
  <2>1. cwait'[d] = k /\ Pending(k)'
    BY <1>1, <1>3, <1>5, <1>6 DEF Pending
  <2>2. Waiting(d)'
    BY <2>1 DEF Waiting, Pending
  <2>3. Unanswered(d)'
    BY <1>1, <1>5, <1>6 DEF Unanswered
  <2> QED
    BY <2>2, <2>3
<1> QED
  BY <1>1, <1>2, <1>4, <1>6, TouchesOne

\* A job of wait k is run: it resumes the coroutine of k, or none.
LEMMA RanRInv ==
  ASSUME IInv, RInv, crash = NoCrash, NEW k \in Waits, NEW th \in Threads,
         UNCHANGED kind, UNCHANGED at, UNCHANGED home, UNCHANGED cwait,
         \A j \in Waits : j # k =>
           req'[j] = req[j] /\ result_'[j] = result_[j],
         \A e \in Executors : \A p : \A j \in Waits :
           j # k /\ <<p, j>> \in jobs[e] => <<p, j>> \in jobs'[e],
         Request(k)',
         \/ Woken(k, th)
         \/ /\ UNCHANGED cstate
            /\ \A c \in Coros : cwait[c] = k =>
                 /\ cstate[c] = "suspended" => Pending(k)'
                 /\ cstate[c] = "checked" => kind[k] \notin Sockets
  PROVE  RInv'
<1>1. \A j \in Waits : j # k => Untouched(j)
  BY DEF Untouched
<1>2. TypeOK /\ \A c \in Coros : cwait[c] = k => owner[k] = c
  BY WaitFacts DEF IInv, Base, Current
<1>3. CASE Woken(k, th)
  <2>1. /\ cstate' = [cstate EXCEPT ![owner[k]] = "running"]
        /\ cwait[owner[k]] = k
    BY <1>3 DEF Woken, Suspended
  <2>2. \A c \in Coros : cwait'[c] # k => cstate'[c] = cstate[c]
    BY <1>2, <2>1 DEF TypeOK
  <2>3. \A c \in Coros : cwait'[c] = k => cstate'[c] = "running"
    BY <1>2, <2>1 DEF TypeOK
  <2>4. \A c \in Coros : cwait'[c] = k => Unanswered(c)' /\ Waiting(c)'
    BY <2>3 DEF Unanswered, Waiting
  <2> QED
    BY <1>1, <2>2, <2>4, TouchesOne
<1>4. CASE UNCHANGED cstate /\ ~Woken(k, th)
  <2>1. ASSUME NEW c \in Coros, cwait'[c] = k
        PROVE  Unanswered(c)' /\ Waiting(c)'
    <3>1. /\ cstate'[c] = "suspended" => Pending(k)'
          /\ cstate'[c] = "checked" => kind'[k] \notin Sockets
      BY <1>4, <2>1
    <3>2. Unanswered(c)'
      BY <2>1, <3>1 DEF Unanswered
    <3>3. Pending(k)' => Waiting(c)'
      BY <2>1 DEF Waiting, Pending
    <3>4. cstate'[c] # "suspended" => Waiting(c)'
      BY DEF Waiting
    <3> QED
      BY <3>1, <3>2, <3>3, <3>4
  <2> QED
    BY <1>1, <1>4, <2>1, TouchesOne
<1> QED
  BY <1>3, <1>4

\* Jobs of other waits are not taken.
LEMMA OthersStay ==
  ASSUME IInv, NEW th \in Threads, NEW k, NEW p, Take(th, <<p, k>>)
  PROVE  \A e \in Executors : \A q : \A j \in Waits :
            j # k /\ <<q, j>> \in jobs[e] => <<q, j>> \in jobs'[e]
<1>1. TypeOK
  BY DEF IInv, Base
<1> QED
  BY <1>1 DEF Take, TypeOK

LEMMA NoRequest ==
  ASSUME IInv, NEW k \in Waits, kind[k] \notin Sockets,
         UNCHANGED kind, UNCHANGED req
  PROVE  Request(k)'
<1>1. req[k] = "none"
  BY DEF IInv, Base, Requested
<1> QED
  BY <1>1 DEF Request

LEMMA RunResumeRInv ==
  ASSUME IInv, RInv, crash = NoCrash, NEW th \in Threads, NEW k \in Waits,
         RunResume(th, k)
  PROVE  RInv'
<1>1. /\ Take(th, <<"resume", k>>) /\ Resume(k, th)
      /\ UNCHANGED <<kind, home, at, req, result_, cwait>>
  BY DEF RunResume, waitVars, taskVars
<1>2. ExecOf[th] \in Executors
  BY CoroutinesAssumption
<1>3. <<"resume", k>> \in jobs[ExecOf[th]] /\ Fits(ExecOf[th], k)
  BY <1>1, <1>2 DEF Take, IInv, Turns, JobsFit
<1>4. k \in handle /\ Suspended(k) /\ kind[k] \notin Sockets
  BY <1>2, <1>3 DEF IInv, Turns, StaysPut, Due, Fits, Sockets
<1>5. Woken(k, th)
  BY <1>1, <1>4, ResumeEffect
<1>6. Request(k)'
  BY <1>1, <1>4, NoRequest
<1> QED
  BY <1>1, <1>5, <1>6, OthersStay, RanRInv

LEMMA RunCallbackRInv ==
  ASSUME IInv, RInv, crash = NoCrash, NEW th \in Threads, NEW k \in Waits,
         RunCallback(th, k)
  PROVE  RInv'
<1>1. CASE crash' # NoCrash
  BY <1>1 DEF RInv
<1>2. CASE crash' = NoCrash
  <2>1. TypeOK /\ ExecOf[th] \in Executors
    BY CoroutinesAssumption DEF IInv, Base
  <2>2. /\ Take(th, <<"callback", k>>)
        /\ req' = [req EXCEPT ![k] = "called"]
        /\ UNCHANGED <<kind, home, at, cwait>>
    BY DEF RunCallback, waitVars
  <2>3. kind[k] \in Sockets /\ req[k] = "queued" /\ result_[k] = "none"
    BY <2>1, <2>2 DEF Take, IInv, Base, Turns, JobsFit, Fits, Requested
  <2>4. result_' = [result_ EXCEPT ![k] = "value"] /\ Resume(k, th)
    BY <2>3 DEF RunCallback
  <2>5. k \in handle => Suspended(k)
    BY <2>3 DEF IInv, Turns, StaysPut, Due
  <2>6. Woken(k, th)
    BY <1>2, <2>4, <2>5, ResumeEffect DEF NoCrash
  <2>7. Request(k)'
    BY <2>1, <2>2, <2>3, <2>4 DEF Request, TypeOK
  <2>8. \A j \in Waits : j # k =>
           req'[j] = req[j] /\ result_'[j] = result_[j]
    BY <2>1, <2>2, <2>4 DEF TypeOK
  <2> QED
    BY <2>2, <2>6, <2>7, <2>8, OthersStay, RanRInv
<1> QED
  BY <1>1, <1>2

LEMMA NextRInv ==
  ASSUME IInv, RInv, [Next]_vars
  PROVE  RInv'
<1>1. CASE UNCHANGED vars
  BY <1>1 DEF vars, RInv, Request, Unanswered, Waiting, Pending
<1>2. ASSUME crash = NoCrash, NEW c \in Coros, Coroutine(c) PROVE RInv'
  <2>1. PICK th \in Threads :
          \/ Finish(c, th) \/ await_ready(c, th) \/ await_suspend(c, th)
          \/ sleep_for(c, th)
          \/ \E k \in Waits : Await(c, th, k)
          \/ \E e \in Executors :
               (\E k \in Sockets : Call(c, th, k, e)) \/ switch_to(c, th, e)
    BY <1>2 DEF Coroutine
  <2>2. Sockets \subseteq Kinds /\ {"switch", "delay"} \subseteq Kinds \ Sockets
    BY DEF Sockets, Kinds
  <2>3. get_current_executor(th) \in Executors \union {Null}
    BY CoroutinesAssumption DEF get_current_executor
  <2> QED
    BY <1>2, <2>1, <2>2, <2>3, CoroutineRInv, NewWaitRInv, SuspendRInv
    DEF switch_to, sleep_for
<1>3. ASSUME crash = NoCrash, NEW c \in Coros, NEW th \in Threads, Begin(c, th)
      PROVE  RInv'
  BY <1>3, CoroutineRInv
<1>4. ASSUME crash = NoCrash, NEW th \in Threads, Run(th) PROVE RInv'
  BY <1>4, RunResumeRInv, RunCallbackRInv DEF Run
<1>5. ASSUME crash = NoCrash, NEW k \in Waits, Complete(k) PROVE RInv'
  BY <1>5, CompleteRInv
<1> QED
  BY <1>1, <1>2, <1>3, <1>4, <1>5 DEF Next

\* A suspended coroutine always has something left to resume it: a posted job,
\* or a request that has not ended or whose answer was dropped.
NobodyForgotten ==
    \A c \in Coros :
        crash = NoCrash /\ cstate[c] = "suspended" => Pending(cwait[c])

THEOREM NobodyIsForgotten == Spec => []NobodyForgotten
<1>1. Init => RInv
  BY InitRInv
<1>2. IInv /\ RInv /\ [Next]_vars => RInv'
  BY NextRInv
<1>3. RInv => NobodyForgotten
  BY DEF RInv, Waiting, NobodyForgotten
<1> QED
  BY <1>1, <1>2, <1>3, Invariance, PTL DEF Spec
=============================================================================
