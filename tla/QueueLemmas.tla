---------------------------- MODULE QueueLemmas ----------------------------
(***************************************************************************)
(* Facts about queues kept as sequences without repetition: what is in     *)
(* them after a push and after a pop.                                      *)
(***************************************************************************)
EXTENDS Naturals, Sequences, Functions, TLAPS

LEMMA EmptyRange == Range(<<>>) = {} /\ IsInjective(<<>>)
  BY DEF Range, IsInjective

LEMMA RangeType ==
  ASSUME NEW S, NEW s \in Seq(S)
  PROVE  Range(s) \subseteq S
  BY DEF Range

\* push_back adds one element to a queue and keeps it free of repetition when
\* the element is not in it.
LEMMA AppendRange ==
  ASSUME NEW S, NEW s \in Seq(S), NEW e \in S
  PROVE  /\ Append(s, e) \in Seq(S)
         /\ Range(Append(s, e)) = Range(s) \union {e}
         /\ IsInjective(s) /\ e \notin Range(s) => IsInjective(Append(s, e))
<1>1. /\ Append(s, e) \in Seq(S)
      /\ Len(Append(s, e)) = Len(s) + 1
      /\ \A i \in 1..Len(s) : Append(s, e)[i] = s[i]
      /\ Append(s, e)[Len(s) + 1] = e
  OBVIOUS
<1>2. Len(s) \in Nat
  OBVIOUS
<1>3. 1..(Len(s) + 1) = 1..Len(s) \union {Len(s) + 1}
  BY <1>2
<1>4. Range(Append(s, e)) = Range(s) \union {e}
  BY <1>1, <1>2, <1>3 DEF Range
<1>5. ASSUME IsInjective(s), e \notin Range(s)
      PROVE  IsInjective(Append(s, e))
  BY <1>1, <1>2, <1>3, <1>5 DEF Range, IsInjective
<1> QED
  BY <1>1, <1>4, <1>5

\* Taking the front off a queue without repetition takes exactly that element.
LEMMA HeadTailRange ==
  ASSUME NEW S, NEW s \in Seq(S), s # <<>>
  PROVE  /\ Head(s) \in S
         /\ Tail(s) \in Seq(S)
         /\ Range(s) = {Head(s)} \union Range(Tail(s))
         /\ IsInjective(s) => IsInjective(Tail(s)) /\ Head(s) \notin Range(Tail(s))
<1>1. /\ Len(s) \in Nat \ {0}
      /\ Head(s) = s[1]
      /\ Head(s) \in S
      /\ Tail(s) \in Seq(S)
      /\ Len(Tail(s)) = Len(s) - 1
      /\ \A i \in 1..(Len(s) - 1) : Tail(s)[i] = s[i + 1]
  OBVIOUS
<1>2. Range(s) \subseteq {Head(s)} \union Range(Tail(s))
  <2> SUFFICES ASSUME NEW i \in 1..Len(s)
               PROVE  s[i] \in {Head(s)} \union Range(Tail(s))
    BY DEF Range
  <2>1. CASE i = 1
    BY <1>1, <2>1
  <2>2. CASE i # 1
    <3>1. i - 1 \in 1..(Len(s) - 1) /\ Tail(s)[i - 1] = s[i]
      BY <1>1, <2>2
    <3> QED
      BY <1>1, <3>1 DEF Range
  <2> QED
    BY <2>1, <2>2
<1>3. {Head(s)} \union Range(Tail(s)) \subseteq Range(s)
  BY <1>1 DEF Range
<1>4. ASSUME IsInjective(s)
      PROVE  IsInjective(Tail(s)) /\ Head(s) \notin Range(Tail(s))
  <2>1. IsInjective(Tail(s))
    <3> SUFFICES ASSUME NEW i \in 1..(Len(s) - 1), NEW j \in 1..(Len(s) - 1),
                        Tail(s)[i] = Tail(s)[j]
                 PROVE  i = j
      BY <1>1 DEF IsInjective
    <3>1. s[i + 1] = s[j + 1] /\ i + 1 \in 1..Len(s) /\ j + 1 \in 1..Len(s)
      BY <1>1
    <3> QED
      BY <3>1, <1>1, <1>4 DEF IsInjective
  <2>2. \A i \in 1..(Len(s) - 1) : Tail(s)[i] # s[1]
    <3> TAKE i \in 1..(Len(s) - 1)
    <3>1. i + 1 \in 1..Len(s) /\ 1 \in 1..Len(s) /\ i + 1 # 1
      BY <1>1
    <3> QED
      BY <3>1, <1>1, <1>4 DEF IsInjective
  <2> QED
    BY <1>1, <2>1, <2>2 DEF Range
<1> QED
  BY <1>1, <1>2, <1>3, <1>4

\* Appending a whole queue to another adds its elements, and keeps the result
\* free of repetition when the two have nothing in common.
LEMMA ConcatRange ==
  ASSUME NEW S, NEW s \in Seq(S), NEW r \in Seq(S)
  PROVE  /\ s \o r \in Seq(S)
         /\ Range(s \o r) = Range(s) \union Range(r)
         /\ IsInjective(s) /\ IsInjective(r) /\ Range(s) \cap Range(r) = {}
              => IsInjective(s \o r)
<1>1. /\ s \o r \in Seq(S)
      /\ Len(s) \in Nat /\ Len(r) \in Nat
      /\ Len(s \o r) = Len(s) + Len(r)
      /\ \A i \in 1..Len(s) : (s \o r)[i] = s[i]
      /\ \A i \in 1..Len(r) : (s \o r)[Len(s) + i] = r[i]
  OBVIOUS
<1>2. \A i \in 1..(Len(s) + Len(r)) :
        \/ i \in 1..Len(s) /\ (s \o r)[i] = s[i]
        \/ i - Len(s) \in 1..Len(r) /\ (s \o r)[i] = r[i - Len(s)]
  <2> TAKE i \in 1..(Len(s) + Len(r))
  <2>1. CASE i <= Len(s)
    BY <2>1, <1>1
  <2>2. CASE ~(i <= Len(s))
    <3>1. i - Len(s) \in 1..Len(r) /\ Len(s) + (i - Len(s)) = i
      BY <2>2, <1>1
    <3> QED
      BY <3>1, <1>1
  <2> QED
    BY <2>1, <2>2
<1>3. Range(s \o r) \subseteq Range(s) \union Range(r)
  BY <1>1, <1>2 DEF Range
<1>4. Range(s) \subseteq Range(s \o r)
  <2>1. \A i \in 1..Len(s) : i \in 1..(Len(s) + Len(r))
    BY <1>1
  <2> QED
    BY <1>1, <2>1 DEF Range
<1>5. Range(r) \subseteq Range(s \o r)
  <2>1. \A i \in 1..Len(r) : Len(s) + i \in 1..(Len(s) + Len(r))
    BY <1>1
  <2> QED
    BY <1>1, <2>1 DEF Range
<1>6. ASSUME IsInjective(s), IsInjective(r), Range(s) \cap Range(r) = {}
      PROVE  IsInjective(s \o r)
  <2> SUFFICES ASSUME NEW i \in 1..(Len(s) + Len(r)),
                      NEW j \in 1..(Len(s) + Len(r)),
                      (s \o r)[i] = (s \o r)[j]
               PROVE  i = j
    BY <1>1 DEF IsInjective
  <2>1. CASE i \in 1..Len(s) /\ j \in 1..Len(s)
    BY <2>1, <1>1, <1>6 DEF IsInjective
  <2>2. CASE i - Len(s) \in 1..Len(r) /\ j - Len(s) \in 1..Len(r)
    <3>1. r[i - Len(s)] = (s \o r)[i] /\ r[j - Len(s)] = (s \o r)[j]
      BY <2>2, <1>1, <1>2
    <3>2. i - Len(s) = j - Len(s)
      BY <3>1, <2>2, <1>6 DEF IsInjective
    <3> QED
      BY <3>2, <1>1
  <2>3. ASSUME NEW a \in 1..Len(s), NEW b \in 1..Len(r)
        PROVE  s[a] # r[b]
    <3>1. s[a] \in Range(s) /\ r[b] \in Range(r)
      BY <1>1 DEF Range
    <3> QED
      BY <3>1, <1>6
  <2>4. CASE i \in 1..Len(s) /\ j - Len(s) \in 1..Len(r)
    <3>1. s[i] = r[j - Len(s)]
      BY <2>4, <1>1, <1>2
    <3> QED
      BY <3>1, <2>3, <2>4
  <2>5. CASE j \in 1..Len(s) /\ i - Len(s) \in 1..Len(r)
    <3>1. s[j] = r[i - Len(s)]
      BY <2>5, <1>1, <1>2
    <3> QED
      BY <3>1, <2>3, <2>5
  <2>6. /\ i \in 1..Len(s) \/ i - Len(s) \in 1..Len(r)
        /\ j \in 1..Len(s) \/ j - Len(s) \in 1..Len(r)
    BY <1>2
  <2> QED
    BY <2>1, <2>2, <2>4, <2>5, <2>6
<1> QED
  BY <1>1, <1>3, <1>4, <1>5, <1>6

\* Two queues one after the other: what is pushed is last, and the front is
\* taken off the first of them that is not empty.
LEMMA ConcatQueue ==
  ASSUME NEW S, NEW s \in Seq(S), NEW r \in Seq(S)
  PROVE  /\ <<>> \o r = r /\ r \o <<>> = r
         /\ \A e \in S : s \o Append(r, e) = Append(s \o r, e)
         /\ s # <<>> => /\ s \o r # <<>>
                       /\ Head(s \o r) = Head(s)
                       /\ Tail(s \o r) = Tail(s) \o r
  BY SMTT(30)
=============================================================================
