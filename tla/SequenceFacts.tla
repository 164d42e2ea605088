----------------------------- MODULE SequenceFacts -----------------------------
(***************************************************************************)
(* Facts about finite sequences, mostly used as FIFO queues, and about     *)
(* numbers, for the proofs.                                                *)
(***************************************************************************)
EXTENDS Integers, Sequences, SequencesExt, FiniteSets, FiniteSetTheorems,
        SequenceTheorems, WellFoundedInduction, TLAPS

\* The elements of a queue, after one more was appended.
LEMMA ToSetAppend ==
    ASSUME NEW S, NEW s \in Seq(S), NEW e \in S
    PROVE  ToSet(Append(s, e)) = ToSet(s) \cup {e}
<1>1. /\ Append(s, e) \in Seq(S)
      /\ Len(Append(s, e)) = Len(s) + 1
      /\ \A i \in 1..Len(s) : Append(s, e)[i] = s[i]
      /\ Append(s, e)[Len(s) + 1] = e
  BY AppendProperties
<1>2. DOMAIN s = 1..Len(s) /\ DOMAIN Append(s, e) = 1..(Len(s) + 1) /\ Len(s) \in Nat
  BY <1>1, LenProperties
<1> QED BY <1>1, <1>2 DEF ToSet

\* The elements of two queues one after the other.
LEMMA ToSetConcat ==
    ASSUME NEW S, NEW s \in Seq(S), NEW t \in Seq(S)
    PROVE  ToSet(s \o t) = ToSet(s) \cup ToSet(t)
<1>1. /\ Len(s \o t) = Len(s) + Len(t)
      /\ \A i \in 1..(Len(s) + Len(t)) :
             (s \o t)[i] = IF i <= Len(s) THEN s[i] ELSE t[i - Len(s)]
  BY ConcatProperties
<1>2. /\ DOMAIN s = 1..Len(s) /\ DOMAIN t = 1..Len(t)
      /\ DOMAIN (s \o t) = 1..(Len(s) + Len(t))
      /\ Len(s) \in Nat /\ Len(t) \in Nat
  BY <1>1, LenProperties, ConcatProperties
<1>3. ASSUME NEW j \in 1..Len(t)
      PROVE  t[j] \in ToSet(s \o t)
  <2>1. Len(s) + j \in 1..(Len(s) + Len(t)) /\ ~(Len(s) + j <= Len(s))
    BY <1>2
  <2>2. (s \o t)[Len(s) + j] = t[Len(s) + j - Len(s)]
    BY <1>1, <2>1
  <2>3. Len(s) + j - Len(s) = j
    BY <1>2
  <2> QED BY <1>2, <2>1, <2>2, <2>3 DEF ToSet
<1>4. ASSUME NEW i \in 1..Len(s)
      PROVE  s[i] \in ToSet(s \o t)
  BY <1>1, <1>2 DEF ToSet
<1>5. ASSUME NEW i \in 1..(Len(s) + Len(t))
      PROVE  (s \o t)[i] \in ToSet(s) \cup ToSet(t)
  BY <1>1, <1>2 DEF ToSet
<1>6. ToSet(s \o t) \subseteq ToSet(s) \cup ToSet(t)
  BY <1>2, <1>5 DEF ToSet
<1>7. ToSet(s) \subseteq ToSet(s \o t) /\ ToSet(t) \subseteq ToSet(s \o t)
  BY <1>2, <1>3, <1>4 DEF ToSet
<1> QED BY <1>6, <1>7

\* Appending to the second part is appending to the whole.
LEMMA ConcatAppend ==
    ASSUME NEW S, NEW s \in Seq(S), NEW t \in Seq(S), NEW e \in S
    PROVE  s \o Append(t, e) = Append(s \o t, e)
<1>1. Append(t, e) = t \o <<e>> /\ Append(s \o t, e) = (s \o t) \o <<e>>
  BY AppendIsConcat, ConcatProperties
<1> QED BY <1>1, ConcatAssociative

\* Taking from the front of a non-empty first part takes from the front of the whole.
LEMMA ConcatTake ==
    ASSUME NEW S, NEW s \in Seq(S), NEW t \in Seq(S), s # <<>>
    PROVE  /\ s \o t # <<>>
           /\ Head(s \o t) = Head(s)
           /\ Tail(s \o t) = Tail(s) \o t
BY ConcatSimplifications, HeadTailProperties, ConcatProperties

\* Moving an element from the front of one queue to the back of the one before it
\* does not change the whole.
LEMMA MoveAcross ==
    ASSUME NEW S, NEW s \in Seq(S), NEW t \in Seq(S), t # <<>>
    PROVE  Append(s, Head(t)) \o Tail(t) = s \o t
<1>1. /\ Head(t) \in S /\ Tail(t) \in Seq(S)
      /\ t = <<Head(t)>> \o Tail(t)
  BY HeadTailProperties, ConcatProperties
<1>2. Append(s, Head(t)) = s \o <<Head(t)>>
  BY <1>1, AppendIsConcat
<1> QED BY <1>1, <1>2, ConcatAssociative

\* The elements of a non-empty queue are its head and those of its tail.
LEMMA ToSetHeadTail ==
    ASSUME NEW S, NEW s \in Seq(S), s # <<>>
    PROVE  ToSet(s) = {Head(s)} \cup ToSet(Tail(s))
<1>1. /\ Head(s) \in S /\ Tail(s) \in Seq(S)
      /\ s = <<Head(s)>> \o Tail(s)
  BY HeadTailProperties, ConcatProperties
<1>2. <<Head(s)>> \in Seq(S)
  BY <1>1
<1>3. ToSet(<<Head(s)>>) = {Head(s)}
  BY DEF ToSet
<1>4. ToSet(<<Head(s)>> \o Tail(s)) = ToSet(<<Head(s)>>) \cup ToSet(Tail(s))
  BY <1>1, <1>2, ToSetConcat
<1> QED BY <1>1, <1>3, <1>4
-----------------------------------------------------------------------------
(* Queues in which nothing is twice.                                       *)

\* What is not in such a queue can be appended to it.
LEMMA InjectiveAppend ==
    ASSUME NEW S, NEW s \in Seq(S), NEW e \in S, IsInjective(s), e \notin ToSet(s)
    PROVE  IsInjective(Append(s, e))
<1>1. /\ \A i \in 1..Len(s) : Append(s, e)[i] = s[i]
      /\ Append(s, e)[Len(s) + 1] = e
      /\ DOMAIN Append(s, e) = 1..(Len(s) + 1) /\ DOMAIN s = 1..Len(s) /\ Len(s) \in Nat
  BY AppendProperties, LenProperties
<1>2. \A i \in 1..Len(s) : s[i] # e
  BY <1>1 DEF ToSet
<1>3. \A i \in 1..(Len(s) + 1) : i \in 1..Len(s) \/ i = Len(s) + 1
  BY <1>1
<1> QED BY <1>1, <1>2, <1>3 DEF IsInjective

\* Its head is not in its tail, and its tail is again such a queue.
LEMMA InjectiveTail ==
    ASSUME NEW S, NEW s \in Seq(S), IsInjective(s), s # <<>>
    PROVE  IsInjective(Tail(s)) /\ Head(s) \notin ToSet(Tail(s))
<1>1. /\ Head(s) = s[1] /\ Tail(s) \in Seq(S) /\ Len(Tail(s)) = Len(s) - 1
      /\ \A i \in 1..(Len(s) - 1) : Tail(s)[i] = s[i + 1]
      /\ Len(s) \in Nat /\ Len(s) > 0
  BY HeadTailProperties, EmptySeq, LenProperties
<1>2. DOMAIN s = 1..Len(s) /\ DOMAIN Tail(s) = 1..(Len(s) - 1)
  BY <1>1, LenProperties
<1>3. \A i \in 1..(Len(s) - 1) : i + 1 \in DOMAIN s /\ i + 1 # 1 /\ 1 \in DOMAIN s
  BY <1>1, <1>2
<1>4. Head(s) \notin ToSet(Tail(s))
  BY <1>1, <1>2, <1>3 DEF ToSet, IsInjective
<1>5. IsInjective(Tail(s))
  <2>1. ASSUME NEW i \in 1..(Len(s) - 1), NEW j \in 1..(Len(s) - 1), s[i + 1] = s[j + 1]
        PROVE  i = j
    <3>1. i + 1 = j + 1
      BY <1>3, <2>1 DEF IsInjective
    <3> QED BY <1>1, <3>1
  <2> QED BY <1>1, <1>2, <2>1 DEF IsInjective
<1> QED BY <1>4, <1>5

\* Where the first occurrence is, in a queue in which nothing is twice.
LEMMA SelectInInjective ==
    ASSUME NEW S, NEW s \in Seq(S), IsInjective(s), NEW i \in 1..Len(s)
    PROVE  RemoveFirst(s, s[i]) = SubSeq(s, 1, i - 1) \o SubSeq(s, i + 1, Len(s))
<1>1. i \in Int /\ DOMAIN s = 1..Len(s)
  BY LenProperties
<1>2. {j \in 1..Len(s) : s[j] = s[i]} = {i}
  BY <1>1 DEF IsInjective
<1>3. Min({i}) = i
  BY <1>1 DEF Min
<1>4. SelectInSeq(s, LAMBDA v : v = s[i]) = i
  BY <1>2, <1>3 DEF SelectInSeq
<1> QED BY <1>4 DEF RemoveFirst, RemoveAt

\* What is left when one element is taken out.
LEMMA RemoveAtProperties ==
    ASSUME NEW S, NEW s \in Seq(S), NEW i \in 1..Len(s)
    PROVE  /\ RemoveAt(s, i) \in Seq(S)
           /\ Len(RemoveAt(s, i)) = Len(s) - 1
           /\ \A k \in 1..(Len(s) - 1) :
                  RemoveAt(s, i)[k] = IF k <= i - 1 THEN s[k] ELSE s[k + 1]
<1>1. Len(s) \in Nat
  BY LenProperties
<1> DEFINE n == Len(s)
           p == SubSeq(s, 1, i - 1)
           q == SubSeq(s, i + 1, n)
           r == p \o q
<1>2. /\ p \in Seq(S) /\ Len(p) = i - 1
      /\ \A k \in 1..(i - 1) : p[k] = s[k]
  BY <1>1, SubSeqProperties
<1>3. /\ q \in Seq(S) /\ Len(q) = n - i
      /\ \A k \in 1..(n - i) : q[k] = s[k + i]
  <2>1. i + 1 \in Int /\ n \in Int /\ \A k \in (i + 1)..n : s[k] \in S
    BY <1>1
  <2>2. /\ q \in Seq(S)
        /\ Len(q) = IF i + 1 <= n THEN n - (i + 1) + 1 ELSE 0
        /\ \A k \in 1..(n - (i + 1) + 1) : q[k] = s[i + 1 + k - 1]
    BY <2>1, SubSeqProperties
  <2> HIDE DEF q
  <2>3. Len(q) = n - i /\ n - (i + 1) + 1 = n - i
    <3>1. n \in Int /\ i \in Int /\ i <= n
      BY <1>1
    <3> HIDE DEF n
    <3>2. n - (i + 1) + 1 = n - i
      BY <3>1
    <3>3. CASE i + 1 <= n
      BY <2>2, <3>2, <3>3
    <3>4. CASE ~(i + 1 <= n)
      <4>1. n - i = 0
        BY <3>1, <3>4
      <4> QED BY <2>2, <3>2, <3>4, <4>1
    <3> QED BY <3>3, <3>4
  <2>4. ASSUME NEW k \in 1..(n - i)
        PROVE  q[k] = s[k + i]
    <3>1. i + 1 + k - 1 = k + i
      BY <1>1
    <3> QED BY <2>2, <2>3, <3>1
  <2> QED BY <2>2, <2>3, <2>4
<1> HIDE DEF p, q
<1>4. /\ r \in Seq(S) /\ Len(r) = n - 1
      /\ \A k \in 1..(n - 1) : r[k] = IF k <= i - 1 THEN s[k] ELSE s[k + 1]
  <2>1. /\ r \in Seq(S) /\ Len(r) = (i - 1) + (n - i)
        /\ \A k \in 1..((i - 1) + (n - i)) : r[k] =
               IF k <= i - 1 THEN p[k] ELSE q[k - (i - 1)]
    <3>1. /\ r \in Seq(S) /\ Len(r) = Len(p) + Len(q)
          /\ \A k \in 1..(Len(p) + Len(q)) : r[k] =
                 IF k <= Len(p) THEN p[k] ELSE q[k - Len(p)]
      BY <1>2, <1>3, ConcatProperties
    <3> HIDE DEF r, n
    <3> QED BY <1>2, <1>3, <3>1
  <2>2. (i - 1) + (n - i) = n - 1
    BY <1>1
  <2>3. ASSUME NEW k \in 1..(n - 1), ~(k <= i - 1)
        PROVE  k - (i - 1) \in 1..(n - i) /\ (k - (i - 1)) + i = k + 1
    BY <1>1, <2>3
  <2>4. ASSUME NEW k \in 1..(n - 1)
        PROVE  r[k] = IF k <= i - 1 THEN s[k] ELSE s[k + 1]
    <3>1. CASE k <= i - 1
      BY <1>2, <2>1, <2>2, <3>1
    <3>2. CASE ~(k <= i - 1)
      BY <1>3, <2>1, <2>2, <2>3, <3>2
    <3> QED BY <3>1, <3>2
  <2> QED BY <2>1, <2>2, <2>4
<1> HIDE DEF r
<1>5. RemoveAt(s, i) = r
  BY DEF RemoveAt, r, p, q
<1> QED BY <1>4, <1>5

\* Taking an element out of such a queue takes it out of its set.
LEMMA RemoveFirstInjective ==
    ASSUME NEW S, NEW s \in Seq(S), IsInjective(s), NEW e \in ToSet(s)
    PROVE  /\ RemoveFirst(s, e) \in Seq(S)
           /\ IsInjective(RemoveFirst(s, e))
           /\ ToSet(RemoveFirst(s, e)) = ToSet(s) \ {e}
<1>1. DOMAIN s = 1..Len(s) /\ Len(s) \in Nat
  BY LenProperties
<1>2. PICK i \in 1..Len(s) : s[i] = e
  BY <1>1 DEF ToSet
<1> DEFINE n == Len(s)
           r == RemoveAt(s, i)
<1>3. RemoveFirst(s, e) = r
  BY <1>2, SelectInInjective DEF RemoveAt
<1>4. /\ r \in Seq(S) /\ Len(r) = n - 1
      /\ \A k \in 1..(n - 1) : r[k] = IF k <= i - 1 THEN s[k] ELSE s[k + 1]
  BY RemoveAtProperties
<1> HIDE DEF r
<1>5. DOMAIN r = 1..(n - 1)
  BY <1>4, LenProperties
<1>6. IsInjective(r)
  BY <1>1, <1>4, <1>5 DEF IsInjective
<1>7. ToSet(r) \subseteq ToSet(s) \ {e}
  <2>1. \A k \in 1..(n - 1) : \E j \in 1..n : j # i /\ r[k] = s[j]
    <3>1. ASSUME NEW k \in 1..(n - 1)
          PROVE  \E j \in 1..n : j # i /\ r[k] = s[j]
      <4>1. CASE k <= i - 1
        <5>1. k \in 1..n /\ k # i
          BY <1>1, <4>1
        <5> QED BY <1>4, <4>1, <5>1
      <4>2. CASE ~(k <= i - 1)
        <5>1. k + 1 \in 1..n /\ k + 1 # i
          BY <1>1, <4>2
        <5> QED BY <1>4, <4>2, <5>1
      <4> QED BY <4>1, <4>2
    <3> QED BY <3>1
  <2>2. \A j \in 1..n : j # i => s[j] # e
    BY <1>1, <1>2 DEF IsInjective
  <2> QED BY <1>1, <1>5, <2>1, <2>2 DEF ToSet
<1>8. ToSet(s) \ {e} \subseteq ToSet(r)
  <2>1. ASSUME NEW j \in 1..n, j # i
        PROVE  \E k \in 1..(n - 1) : r[k] = s[j]
    <3>1. CASE j < i
      <4>1. j \in 1..(n - 1) /\ j <= i - 1
        BY <1>1, <3>1
      <4> QED BY <1>4, <4>1
    <3>2. CASE j > i
      <4>1. j - 1 \in 1..(n - 1) /\ ~(j - 1 <= i - 1) /\ j - 1 + 1 = j
        BY <1>1, <3>2
      <4> QED BY <1>4, <4>1
    <3> QED BY <1>1, <2>1, <3>1, <3>2
  <2> QED BY <1>1, <1>2, <1>5, <2>1 DEF ToSet
<1> QED BY <1>3, <1>4, <1>6, <1>7, <1>8

-----------------------------------------------------------------------------
(* Sets of numbers, and the orders of a set.                                *)

\* What holds of 0, and of the number after each one it holds of, holds of all.
LEMMA UpTo ==
    ASSUME NEW P, NEW N \in Nat, 0 \in P, \A n \in Nat : n < N /\ n \in P => n + 1 \in P
    PROVE  \A n \in 0..N : n \in P
<1> DEFINE R == {ss \in Nat \X Nat : ss[1] < ss[2]}
           T == {n \in 0..N : n \notin P}
<1>1. IsWellFoundedOn(R, Nat)
  BY NatLessThanWellFounded DEF OpToRel
<1> SUFFICES ASSUME T # {}
             PROVE  FALSE
  OBVIOUS
<1>2. T \subseteq Nat
  OBVIOUS
<1> HIDE DEF R, T
<1>3. PICK t \in T : \A u \in T : <<u, t>> \notin R
  BY <1>1, <1>2, WFMin
<1>4. t \in 1..N /\ t \notin P /\ t - 1 \notin T
  <2>1. t \in 0..N /\ t \notin P /\ t # 0
    BY DEF T
  <2>2. <<t - 1, t>> \in R
    BY <2>1 DEF R
  <2> QED BY <1>3, <2>1, <2>2
<1>5. t - 1 \in P /\ t - 1 \in Nat /\ t - 1 < N
  BY <1>4 DEF T
<1>6. (t - 1) + 1 \in P
  BY <1>5
<1> QED BY <1>4, <1>6

\* The greatest element of a set that has a bound.
LEMMA IndexSets ==
    ASSUME NEW S \in SUBSET Nat, NEW n \in Nat, S # {}, \A i \in S : i <= n
    PROVE  /\ Max(S) \in S
           /\ \A i \in S : i <= Max(S)
<1> DEFINE R == {ss \in Nat \X Nat : ss[1] < ss[2]}
           T == {n - i : i \in S}
<1>1. IsWellFoundedOn(R, Nat)
  BY NatLessThanWellFounded DEF OpToRel
<1>2. T \subseteq Nat /\ T # {}
  <2>1. ASSUME NEW i \in S
        PROVE  n - i \in Nat
    <3>1. i \in Nat /\ i <= n
      OBVIOUS
    <3> QED BY <3>1
  <2> QED BY <2>1
<1> HIDE DEF R
<1>3. PICK t \in T : \A u \in T : <<u, t>> \notin R
  BY <1>1, <1>2, WFMin
<1>4. PICK m \in S : t = n - m
  BY <1>3
<1>5. \A i \in S : i <= m
  <2>1. ASSUME NEW i \in S
        PROVE  ~(n - i < n - m)
    BY <1>2, <1>3, <1>4 DEF R
  <2>2. \A i \in S : i \in Nat /\ m \in Nat
    OBVIOUS
  <2> QED BY <2>1, <2>2
<1> QED BY <1>5 DEF Max

LEMMA MaxIs ==
    ASSUME NEW S \in SUBSET Nat, NEW m \in S, \A i \in S : i <= m
    PROVE  Max(S) = m
<1>1. m \in Nat /\ S # {}
  OBVIOUS
<1>2. Max(S) \in S /\ \A i \in S : i <= Max(S)
  BY <1>1, IndexSets
<1>3. Max(S) \in Nat /\ Max(S) <= m /\ m <= Max(S)
  BY <1>1, <1>2
<1> QED BY <1>1, <1>3

\* An order of a finite set has each of its elements once.
LEMMA OrderIsBijection ==
    ASSUME NEW S, IsFiniteSet(S), NEW order \in SetToSeqs(S)
    PROVE  /\ Cardinality(S) \in Nat
           /\ order \in [1..Cardinality(S) -> S]
           /\ \A i, j \in 1..Cardinality(S) : i # j => order[i] # order[j]
           /\ \A k \in S : \E i \in 1..Cardinality(S) : order[i] = k
<1> DEFINE n == Cardinality(S)
           D == 1..n
<1>1. n \in Nat
  BY FS_CardinalityType
<1>2. order \in [D -> S] /\ \A i, j \in D : i # j => order[i] # order[j]
  BY DEF SetToSeqs
<1>3. IsFiniteSet(D) /\ Cardinality(D) = n
  BY <1>1, FS_Interval
<1>4. order \in Injection(D, S)
  BY <1>2 DEF Injection, IsInjective
<1>5. order \in Surjection(D, S)
  BY <1>3, <1>4, FS_Injection
<1> QED BY <1>1, <1>2, <1>5 DEF Surjection

-----------------------------------------------------------------------------
(* Remainders.                                                             *)

\* What a number is made of, divided by n.
LEMMA RemainderIs ==
    ASSUME NEW n \in Nat, n > 0, NEW x \in Nat,
           NEW p \in Int, NEW r \in 0..(n - 1), x = n * p + r
    PROVE  r = x % n
OBVIOUS

LEMMA Division ==
    ASSUME NEW n \in Nat, n > 0, NEW x \in Nat
    PROVE  \E p \in Int, r \in 0..(n - 1) : x = n * p + r /\ r = x % n
<1> DEFINE p == x \div n
           r == x - n * p
<1>1. p \in Int
  OBVIOUS
<1>2. n * p <= x
  OBVIOUS
<1>3. x < n * p + n
  OBVIOUS
<1> HIDE DEF p
<1>4. r \in 0..(n - 1) /\ x = n * p + r
  BY <1>1, <1>2, <1>3
<1> HIDE DEF r
<1>5. r = x % n
  BY <1>1, <1>4, RemainderIs
<1> QED BY <1>1, <1>4, <1>5

\* Two numbers closer than n, and not the same, leave different remainders.
LEMMA RemaindersDiffer ==
    ASSUME NEW n \in Nat, n > 0, NEW x \in Nat, NEW d \in 1..(n - 1)
    PROVE  x % n # (x + d) % n
<1> SUFFICES ASSUME x % n = (x + d) % n
             PROVE  FALSE
  OBVIOUS
<1>1. PICK p \in Int, r \in 0..(n - 1) : x = n * p + r /\ r = x % n
  BY Division
<1>2. PICK q \in Int, u \in 0..(n - 1) : x + d = n * q + u /\ u = (x + d) % n
  <2>1. x + d \in Nat
    OBVIOUS
  <2> QED BY <2>1, Division
<1>3. r = u
  BY <1>1, <1>2
<1>4. d = n * q - n * p
  <2>1. x = n * p + r /\ x + d = n * q + r
    BY <1>1, <1>2, <1>3
  <2> QED BY <2>1
<1>5. CASE q <= p
  <2>1. n * q <= n * p
    BY <1>5
  <2> QED BY <1>4, <2>1
<1>6. CASE q >= p + 1
  <2>1. n * q >= n * p + n
    BY <1>6
  <2> QED BY <1>4, <2>1
<1> QED BY <1>5, <1>6

\* A counter of w values goes up by one, or starts again at 0.
LEMMA Wraps ==
    ASSUME NEW w \in Nat \ {0}, NEW i \in 0..(w - 1)
    PROVE  /\ (i + 1) % w \in 0..(w - 1)
           /\ (i + 1) % w # 0 => (i + 1) % w = i + 1
<1>1. i + 1 \in Nat /\ w > 0
  OBVIOUS
<1>2. CASE i + 1 = w
  <2>1. i + 1 = w * 1 + 0 /\ 0 \in 0..(w - 1)
    BY <1>2
  <2>2. 0 = (i + 1) % w
    BY <1>1, <2>1, RemainderIs
  <2> QED BY <2>1, <2>2
<1>3. CASE i + 1 # w
  <2>1. i + 1 = w * 0 + (i + 1) /\ i + 1 \in 0..(w - 1)
    BY <1>3
  <2>2. i + 1 = (i + 1) % w
    BY <1>1, <2>1, RemainderIs
  <2> QED BY <2>1, <2>2
<1> QED BY <1>2, <1>3

-----------------------------------------------------------------------------
(* Sequences of whatever they hold.                                        *)

\* A sequence, of whatever it holds.
IsSeq(w) == w \in Seq(ToSet(w))

\* A sequence over a set is one over what it holds.
LEMMA SeqIsSeq ==
    ASSUME NEW S, NEW w \in Seq(S)
    PROVE  IsSeq(w)
<1>1. DOMAIN w = 1..Len(w) /\ Len(w) \in Nat
  BY LenProperties
<1>2. w = [i \in 1..Len(w) |-> w[i]] /\ \A i \in 1..Len(w) : w[i] \in ToSet(w)
  BY <1>1 DEF ToSet
<1> QED BY <1>1, <1>2, IsASeq DEF IsSeq

\* And the empty one.
LEMMA NewIsSeq == IsSeq(<<>>)
BY DEF IsSeq

\* So are two in a row.
LEMMA ConcatIsSeq ==
    ASSUME NEW v, IsSeq(v), NEW w, IsSeq(w)
    PROVE  /\ IsSeq(v \o w)
           /\ ToSet(v \o w) = ToSet(v) \cup ToSet(w)
<1> DEFINE S == ToSet(v) \cup ToSet(w)
<1>1. v \in Seq(S) /\ w \in Seq(S)
  BY SeqMonotonic DEF IsSeq
<1>2. v \o w \in Seq(S)
  BY <1>1, ConcatProperties
<1> QED BY <1>1, <1>2, SeqIsSeq, ToSetConcat

\* One element more.
LEMMA AppendIsSeq ==
    ASSUME NEW w, IsSeq(w), NEW e
    PROVE  /\ IsSeq(Append(w, e)) /\ ToSet(Append(w, e)) = ToSet(w) \cup {e}
           /\ Len(Append(w, e)) = Len(w) + 1 /\ Append(w, e)[Len(w) + 1] = e
           /\ \A i \in 1..Len(w) : Append(w, e)[i] = w[i]
           /\ Append(w, e) = w \o <<e>> /\ IsSeq(<<e>>)
<1> DEFINE S == ToSet(w) \cup {e}
<1>1. w \in Seq(S) /\ e \in S
  BY SeqMonotonic DEF IsSeq
<1>2. Append(w, e) \in Seq(S) /\ ToSet(Append(w, e)) = ToSet(w) \cup {e}
  BY <1>1, AppendProperties, ToSetAppend
<1>3. IsSeq(<<e>>)
  <2>1. <<e>> \in Seq({e})
    OBVIOUS
  <2> QED BY <2>1, SeqIsSeq
<1>4. IsSeq(Append(w, e))
  BY <1>2, SeqIsSeq
<1>5. Append(w, e) = w \o <<e>>
  BY <1>1, AppendIsConcat
<1>6. Len(Append(w, e)) = Len(w) + 1 /\ Append(w, e)[Len(w) + 1] = e
  BY <1>1, AppendProperties
<1>7. \A i \in 1..Len(w) : Append(w, e)[i] = w[i]
  BY <1>1, AppendProperties
<1> QED BY <1>2, <1>3, <1>4, <1>5, <1>6, <1>7

\* One and two elements.
LEMMA PairIsSeq ==
    ASSUME NEW a, NEW b
    PROVE  /\ IsSeq(<<a, b>>) /\ Len(<<a, b>>) = 2 /\ ToSet(<<a, b>>) = {a, b}
           /\ IsSeq(<<a>>) /\ IsSeq(<<b>>) /\ <<a, b>> = <<a>> \o <<b>>
           /\ Len(<<a>>) = 1 /\ ToSet(<<a>>) = {a}
<1>1. <<a, b>> \in Seq({a, b}) /\ <<a>> \in Seq({a}) /\ <<b>> \in Seq({b})
  OBVIOUS
<1>2. IsSeq(<<a, b>>) /\ IsSeq(<<a>>) /\ IsSeq(<<b>>)
  BY <1>1, SeqIsSeq
<1>3. ToSet(<<a, b>>) = {a, b} /\ ToSet(<<a>>) = {a}
  BY DEF ToSet
<1>4. Len(<<a, b>>) = 2 /\ Len(<<a>>) = 1
  OBVIOUS
<1>5. <<a, b>> = <<a>> \o <<b>>
  <2>1. Append(<<a>>, b) = <<a, b>>
    <3>1. Append(<<a>>, b) \in Seq({a, b}) /\ Len(Append(<<a>>, b)) = 2 /\ Len(<<a, b>>) = 2
      OBVIOUS
    <3>2. Append(<<a>>, b)[1] = a /\ Append(<<a>>, b)[2] = b
      OBVIOUS
    <3> DEFINE x == Append(<<a>>, b)
               y == <<a, b>>
    <3>3. x \in Seq({a, b}) /\ y \in Seq({a, b}) /\ Len(x) = Len(y)
      BY <1>1, <3>1
    <3>4. \A i \in 1..Len(x) : x[i] = y[i]
      <4>1. y[1] = a /\ y[2] = b /\ 1..Len(x) = {1, 2}
        BY <3>1
      <4> QED BY <3>2, <4>1
    <3> HIDE DEF x, y
    <3>5. x = y
      BY <3>3, <3>4, SeqEqual
    <3> QED BY <3>5 DEF x, y
  <2>2. IsSeq(<<a>>)
    BY <1>2
  <2> DEFINE v == <<a>>
  <2> HIDE DEF v
  <2>3. Append(v, b) = v \o <<b>>
    BY <2>2, AppendIsSeq DEF v
  <2> QED BY <2>1, <2>3 DEF v
<1> QED BY <1>2, <1>3, <1>4, <1>5

\* Append leaves the first element where it is.
LEMMA FirstStays ==
    ASSUME NEW v, IsSeq(v), NEW l
    PROVE  /\ Append(v, l) # <<>>
           /\ v = <<>> => Append(v, l)[1] = l
           /\ v # <<>> => Append(v, l)[1] = v[1]
<1>1. Len(v) \in Nat /\ DOMAIN v = 1..Len(v)
  BY LenProperties DEF IsSeq
<1>2. Len(Append(v, l)) = Len(v) + 1 /\ Append(v, l)[Len(v) + 1] = l
      /\ \A i \in 1..Len(v) : Append(v, l)[i] = v[i]
  BY AppendIsSeq
<1>3. v # <<>> => Len(v) # 0
  BY EmptySeq DEF IsSeq
<1>4. v = <<>> => Len(v) = 0
  OBVIOUS
<1>5. Append(v, l) # <<>>
  <2>1. Len(Append(v, l)) # 0 /\ Len(<<>>) = 0
    BY <1>1, <1>2
  <2> QED BY <2>1
<1>6. v # <<>> => 1 \in 1..Len(v)
  BY <1>1, <1>3
<1> QED BY <1>2, <1>4, <1>5, <1>6

\* The first i elements are the first i - 1 and the next one.
LEMMA SubSeqGrows ==
    ASSUME NEW w, IsSeq(w), NEW i \in 1..Len(w)
    PROVE  /\ SubSeq(w, 1, i) = Append(SubSeq(w, 1, i - 1), w[i])
           /\ SubSeq(w, 1, i - 1) \in Seq(ToSet(w)) /\ w[i] \in ToSet(w)
<1> DEFINE s == SubSeq(w, 1, i - 1)
<1>1. w \in Seq(ToSet(w)) /\ Len(w) \in Nat /\ DOMAIN w = 1..Len(w)
  BY LenProperties DEF IsSeq
<1>2. SubSeq(w, 1, i) = s \o <<w[i]>>
  <2>1. 1 \in 1..Len(w) /\ i \in 1..Len(w)
    BY <1>1
  <2> QED BY <1>1, <2>1, SubSeqRecursiveSecond
<1>3. s \in Seq(ToSet(w)) /\ w[i] \in ToSet(w)
  <2>1. \A j \in 1..(i - 1) : w[j] \in ToSet(w)
    BY <1>1 DEF ToSet
  <2>2. w[i] \in ToSet(w)
    BY <1>1 DEF ToSet
  <2> QED BY <1>1, <2>1, <2>2, SubSeqProperties
<1> HIDE DEF s
<1>4. Append(s, w[i]) = s \o <<w[i]>>
  BY <1>3, AppendIsConcat
<1> QED BY <1>2, <1>3, <1>4 DEF s

Assoc(a, b, c) == (a \o b) \o c = a \o (b \o c)

\* The order in which three are put in a row does not matter.
LEMMA ConcatThree ==
    ASSUME NEW a, IsSeq(a), NEW b, IsSeq(b), NEW c, IsSeq(c)
    PROVE  Assoc(a, b, c)
<1> DEFINE S == ToSet(a) \cup ToSet(b) \cup ToSet(c)
<1>1. a \in Seq(S) /\ b \in Seq(S) /\ c \in Seq(S)
  BY SeqMonotonic DEF IsSeq
<1> QED BY <1>1, ConcatAssociative DEF Assoc

IsFlatten(F, n, g) == g = [i \in 1..n |-> IF i = 1 THEN F[i] ELSE g[i - 1] \o F[i]]

Flat(F, g) == g[0] = <<>> /\ \A i \in 1..Len(F) : g[i] = g[i - 1] \o F[i]

\* The recursive function of FlattenSeq exists.
LEMMA FlattenExists ==
    ASSUME NEW F, NEW N \in Nat
    PROVE  \E g : IsFlatten(F, N, g)
<1> DEFINE P == {n \in 0..N : \E g : IsFlatten(F, n, g)}
<1>1. 0 \in P
  <2>1. IsFlatten(F, 0, [i \in 1..0 |-> F[i]])
    BY DEF IsFlatten
  <2> QED BY <2>1
<1>2. ASSUME NEW n \in Nat, n < N, n \in P
      PROVE  n + 1 \in P
  <2>1. PICK g : IsFlatten(F, n, g)
    BY <1>2
  <2> DEFINE k == [i \in 1..(n + 1) |-> IF i <= n THEN g[i]
                                        ELSE IF i = 1 THEN F[i] ELSE g[i - 1] \o F[i]]
  <2>2. ASSUME NEW i \in 1..(n + 1)
        PROVE  k[i] = IF i = 1 THEN F[i] ELSE k[i - 1] \o F[i]
    <3>1. CASE i <= n
      <4>1. i \in 1..n
        BY <3>1
      <4>2. k[i] = g[i] /\ g[i] = IF i = 1 THEN F[i] ELSE g[i - 1] \o F[i]
        BY <2>1, <3>1, <4>1 DEF IsFlatten
      <4>3. i # 1 => k[i - 1] = g[i - 1]
        BY <4>1
      <4> QED BY <4>2, <4>3
    <3>2. CASE ~(i <= n)
      <4>1. i # 1 => k[i - 1] = g[i - 1]
        BY <3>2
      <4> QED BY <3>2, <4>1
    <3> QED BY <3>1, <3>2
  <2> HIDE DEF k
  <2>3. IsFlatten(F, n + 1, k)
    <3>1. k = [i \in 1..(n + 1) |-> k[i]]
      BY DEF k
    <3> QED BY <2>2, <3>1 DEF IsFlatten
  <2> QED BY <1>2, <2>3
<1> HIDE DEF P
<1>3. N \in P
  BY <1>1, <1>2, UpTo
<1> QED BY <1>3 DEF P

\* FlattenSeq puts one part after the other.
LEMMA FlattenIs ==
    ASSUME NEW F, IsSeq(F), \A i \in 1..Len(F) : IsSeq(F[i])
    PROVE  \E g : /\ Flat(F, g) /\ FlattenSeq(F) = g[Len(F)]
                  /\ \A i \in 0..Len(F) : IsSeq(g[i])
                  /\ \A i \in 1..Len(F) : ToSet(F[i]) \subseteq ToSet(g[Len(F)])
<1> DEFINE N == Len(F)
           f == CHOOSE f : f = [i \in 1..N |-> IF i = 1 THEN F[i] ELSE f[i - 1] \o F[i]]
           g == [i \in 0..N |-> IF i = 0 THEN <<>> ELSE f[i]]
<1>1. N \in Nat
  BY LenProperties DEF IsSeq
<1>2. f = [i \in 1..N |-> IF i = 1 THEN F[i] ELSE f[i - 1] \o F[i]]
  BY <1>1, FlattenExists DEF IsFlatten
<1>3. FlattenSeq(F) = g[N]
  <2>1. CASE N = 0
    <3>1. FlattenSeq(F) = F /\ F = <<>>
      BY <2>1, EmptySeq DEF FlattenSeq, IsSeq
    <3> QED BY <2>1, <3>1
  <2>2. CASE N # 0
    <3>1. FlattenSeq(F) = f[N]
      BY <2>2 DEF FlattenSeq
    <3>2. N \in 0..N
      BY <1>1
    <3> QED BY <2>2, <3>1, <3>2
  <2> QED BY <2>1, <2>2
<1> HIDE DEF f
<1>4. g[0] = <<>>
  BY <1>1
<1>5. ASSUME NEW i \in 1..N
      PROVE  g[i] = g[i - 1] \o F[i]
  <2>1. CASE i = 1
    <3>1. g[i] = F[i] /\ g[i - 1] = <<>>
      BY <1>1, <1>2, <2>1
    <3>2. <<>> \o F[i] = F[i]
      BY ConcatEmptySeq DEF IsSeq
    <3> QED BY <3>1, <3>2
  <2>2. CASE i # 1
    <3>1. f[i] = f[i - 1] \o F[i]
      BY <1>2, <2>2
    <3>2. g[i] = f[i] /\ g[i - 1] = f[i - 1]
      BY <1>1, <2>2
    <3> QED BY <3>1, <3>2
  <2> QED BY <2>1, <2>2
<1> HIDE DEF g
<1> DEFINE P == {n \in 0..N : IsSeq(g[n]) /\ \A i \in 1..n : ToSet(F[i]) \subseteq ToSet(g[n])}
<1>6. 0 \in P
  <2>1. IsSeq(<<>>)
    BY DEF IsSeq
  <2> QED BY <1>1, <1>4, <2>1
<1>7. ASSUME NEW n \in Nat, n < N, n \in P
      PROVE  n + 1 \in P
  <2>1. n + 1 \in 1..N /\ (n + 1) - 1 = n /\ n + 1 \in 0..N
    BY <1>1, <1>7
  <2>2. g[n + 1] = g[n] \o F[n + 1]
    BY <1>5, <2>1
  <2>3. IsSeq(g[n]) /\ IsSeq(F[n + 1])
    BY <1>7, <2>1
  <2>4. IsSeq(g[n + 1]) /\ ToSet(g[n + 1]) = ToSet(g[n]) \cup ToSet(F[n + 1])
    BY <2>2, <2>3, ConcatIsSeq
  <2>5. \A i \in 1..(n + 1) : i \in 1..n \/ i = n + 1
    BY <1>7
  <2> QED BY <1>7, <2>1, <2>4, <2>5
<1> HIDE DEF P, N
<1>8. \A n \in 0..N : n \in P
  BY <1>1, <1>6, <1>7, UpTo
<1>9. N \in P /\ \A i \in 0..N : IsSeq(g[i])
  BY <1>1, <1>8 DEF P
<1>10. \A i \in 1..N : ToSet(F[i]) \subseteq ToSet(g[N])
  BY <1>9 DEF P
<1>11. Flat(F, g)
  BY <1>4, <1>5 DEF Flat, N
<1> QED BY <1>3, <1>9, <1>10, <1>11 DEF N

\* FlattenSeq, with the first part apart.
LEMMA FlattenFirst ==
    ASSUME NEW F, IsSeq(F), \A i \in 1..Len(F) : IsSeq(F[i]), Len(F) > 0
    PROVE  \E rest : /\ IsSeq(rest) /\ FlattenSeq(F) = F[1] \o rest
                     /\ \A r \in ToSet(rest) : \E i \in 2..Len(F) : r \in ToSet(F[i])
<1> DEFINE N == Len(F)
           Is(n, g, rest) == /\ IsSeq(rest) /\ g = F[1] \o rest
                             /\ \A r \in ToSet(rest) : \E i \in 2..n : r \in ToSet(F[i])
<1>1. N \in Nat /\ N > 0 /\ IsSeq(F[1])
  BY LenProperties DEF IsSeq
<1>2. PICK g : Flat(F, g) /\ FlattenSeq(F) = g[N]
  BY FlattenIs
<1> DEFINE P == {n \in 0..(N - 1) : \E rest : Is(n + 1, g[n + 1], rest)}
<1>3. 0 \in P
  <2>1. g[1] = g[0] \o F[1] /\ g[0] = <<>>
    <3>1. 1 \in 1..Len(F) /\ 1 - 1 = 0
      BY <1>1
    <3>2. g[1] = g[1 - 1] \o F[1] /\ g[0] = <<>>
      BY <1>2, <3>1 DEF Flat
    <3> QED BY <3>1, <3>2
  <2>2. <<>> \o F[1] = F[1] /\ F[1] \o <<>> = F[1]
    BY <1>1, ConcatEmptySeq DEF IsSeq
  <2>3. IsSeq(<<>>) /\ ToSet(<<>>) = {}
    BY DEF IsSeq, ToSet
  <2>4. Is(1, g[1], <<>>)
    BY <2>1, <2>2, <2>3
  <2>5. 0 \in 0..(N - 1) /\ 0 + 1 = 1
    BY <1>1
  <2> HIDE DEF Is, N
  <2> QED BY <2>4, <2>5
<1>4. ASSUME NEW n \in Nat, n < N - 1, n \in P
      PROVE  n + 1 \in P
  <2>1. n + 1 \in 0..(N - 1) /\ n + 2 \in 1..N /\ (n + 2) - 1 = n + 1 /\ (n + 1) + 1 = n + 2 /\ n + 2 >= 2
    BY <1>1, <1>4
  <2>2. PICK rest : Is(n + 1, g[n + 1], rest)
    BY <1>4
  <2>3. g[n + 2] = g[n + 1] \o F[n + 2] /\ IsSeq(F[n + 2])
    BY <1>2, <2>1 DEF Flat
  <2> DEFINE more == rest \o F[n + 2]
  <2>4. IsSeq(more) /\ ToSet(more) = ToSet(rest) \cup ToSet(F[n + 2])
    BY <2>2, <2>3, ConcatIsSeq
  <2>5. g[n + 2] = F[1] \o more
    <3>1. Assoc(F[1], rest, F[n + 2])
      BY <1>1, <2>2, <2>3, ConcatThree
    <3>2. (F[1] \o rest) \o F[n + 2] = F[1] \o (rest \o F[n + 2])
      BY <3>1 DEF Assoc
    <3>3. g[n + 1] = F[1] \o rest
      BY <2>2
    <3> QED BY <2>3, <3>2, <3>3
  <2>6. \A r \in ToSet(more) : \E i \in 2..(n + 2) : r \in ToSet(F[i])
    <3>1. \A i \in 2..(n + 1) : i \in 2..(n + 2)
      BY <1>4
    <3>2. n + 2 \in 2..(n + 2)
      BY <1>4
    <3> HIDE DEF more
    <3> QED BY <2>2, <2>4, <3>1, <3>2
  <2> HIDE DEF more
  <2>7. Is(n + 2, g[n + 2], more)
    BY <2>4, <2>5, <2>6
  <2> HIDE DEF Is
  <2> QED BY <2>1, <2>7
<1> HIDE DEF P
<1>5. N - 1 \in P
  <2>1. N - 1 \in Nat /\ N - 1 \in 0..(N - 1)
    BY <1>1
  <2> DEFINE K == N - 1
  <2>2. \A n \in Nat : n < K /\ n \in P => n + 1 \in P
    BY <1>4
  <2> HIDE DEF K
  <2>3. \A n \in 0..K : n \in P
    BY <1>3, <2>1, <2>2, UpTo DEF K
  <2> QED BY <2>1, <2>3 DEF K
<1>6. (N - 1) + 1 = N
  BY <1>1
<1>7. \E rest : Is(N, g[N], rest)
  BY <1>5, <1>6 DEF P
<1> QED BY <1>2, <1>7
=============================================================================
