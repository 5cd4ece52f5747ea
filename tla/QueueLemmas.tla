---------------------------- MODULE QueueLemmas -----------------------------
(***************************************************************************)
(* What the operations on a queue without duplicates return, keep and lose: *)
(* a lock's waiters, the messages of a person, the results of tasks.       *)
(***************************************************************************)
EXTENDS Integers, Sequences, FiniteSets, SequencesExt, Selection, TLAPS, FiniteSetTheorems,
        SequenceTheorems, WellFoundedInduction

\* The indexes of a sequence and what is at them.
LEMMA Positions ==
    ASSUME NEW S, NEW s \in Seq(S)
    PROVE  /\ DOMAIN s = 1 .. Len(s) /\ Len(s) \in Nat /\ \A i \in 1 .. Len(s) : s[i] \in S
           /\ Range(s) \subseteq S /\ (Range(s) = {} <=> s = <<>>)
<1>1. DOMAIN s = 1 .. Len(s) /\ Len(s) \in Nat /\ \A i \in 1 .. Len(s) : s[i] \in S
  BY LenProperties, ElementOfSeq
<1>2. Range(s) \subseteq S
  BY <1>1 DEF Range
<1>3. s # <<>> => s[1] \in Range(s)
  BY <1>1, EmptySeq DEF Range
<1>4. s = <<>> => Range(s) = {}
  BY DEF Range
<1> QED BY <1>1, <1>2, <1>3, <1>4

\* Nothing, and one thing, as a sequence.
LEMMA Short ==
    ASSUME NEW S
    PROVE  /\ <<>> \in Seq(S) /\ Range(<<>>) = {} /\ IsInjective(<<>>)
           /\ \A x \in S : <<x>> \in Seq(S) /\ Range(<<x>>) = {x} /\ IsInjective(<<x>>)
<1>1. <<>> \in Seq(S) /\ Range(<<>>) = {} /\ IsInjective(<<>>)
  BY EmptySeq DEF Range, IsInjective
<1>2. ASSUME NEW x \in S
      PROVE  <<x>> \in Seq(S) /\ Range(<<x>>) = {x} /\ IsInjective(<<x>>)
  BY DEF Range, IsInjective
<1> QED BY <1>1, <1>2

\* Two queues one behind the other.
LEMMA Joined ==
    ASSUME NEW S, NEW s \in Seq(S), NEW t \in Seq(S)
    PROVE  /\ s \o t \in Seq(S) /\ Range(s \o t) = Range(s) \cup Range(t)
           /\ IsInjective(s) /\ IsInjective(t) /\ Range(s) \cap Range(t) = {} => IsInjective(s \o t)
<1>1. /\ s \o t \in Seq(S) /\ Len(s \o t) = Len(s) + Len(t)
      /\ \A i \in 1 .. Len(s) + Len(t) :
            (s \o t)[i] = IF i <= Len(s) THEN s[i] ELSE t[i - Len(s)]
  BY ConcatProperties
<1>2. /\ DOMAIN s = 1 .. Len(s) /\ DOMAIN t = 1 .. Len(t) /\ DOMAIN (s \o t) = 1 .. Len(s) + Len(t)
      /\ Len(s) \in Nat /\ Len(t) \in Nat
  BY <1>1, Positions
<1>3. Range(s \o t) = Range(s) \cup Range(t)
  BY RangeConcatenation
<1>4. SUFFICES ASSUME IsInjective(s), IsInjective(t), Range(s) \cap Range(t) = {},
                      NEW i \in 1 .. Len(s) + Len(t), NEW j \in 1 .. Len(s) + Len(t),
                      (s \o t)[i] = (s \o t)[j]
               PROVE  i = j
  BY <1>1, <1>2, <1>3 DEF IsInjective
<1>5. CASE i <= Len(s) /\ j <= Len(s)
  BY <1>1, <1>2, <1>4, <1>5 DEF IsInjective
<1>6. CASE ~(i <= Len(s)) /\ ~(j <= Len(s))
  <2>1. /\ i - Len(s) \in 1 .. Len(t) /\ j - Len(s) \in 1 .. Len(t)
        /\ (s \o t)[i] = t[i - Len(s)] /\ (s \o t)[j] = t[j - Len(s)]
    BY <1>1, <1>2, <1>6
  <2>2. i - Len(s) = j - Len(s)
    BY <1>2, <1>4, <2>1 DEF IsInjective
  <2> QED BY <1>2, <2>2
<1>7. ASSUME NEW k \in 1 .. Len(s) + Len(t), NEW l \in 1 .. Len(s) + Len(t), k <= Len(s), ~(l <= Len(s))
      PROVE  (s \o t)[k] # (s \o t)[l]
  <2>1. l - Len(s) \in 1 .. Len(t) /\ (s \o t)[l] = t[l - Len(s)] /\ (s \o t)[k] = s[k] /\ k \in 1 .. Len(s)
    BY <1>1, <1>2, <1>7
  <2>2. t[l - Len(s)] \in Range(t) /\ s[k] \in Range(s)
    BY <1>2, <2>1 DEF Range
  <2> QED BY <1>4, <2>1, <2>2
<1> QED BY <1>4, <1>5, <1>6, <1>7

\* One more at the end.
LEMMA Appended ==
    ASSUME NEW S, NEW s \in Seq(S), NEW x \in S
    PROVE  /\ Append(s, x) \in Seq(S) /\ Range(Append(s, x)) = Range(s) \cup {x}
           /\ IsInjective(s) /\ x \notin Range(s) => IsInjective(Append(s, x))
<1>1. Append(s, x) = s \o <<x>>
  BY AppendIsConcat
<1>2. <<x>> \in Seq(S) /\ Range(<<x>>) = {x} /\ IsInjective(<<x>>)
  BY Short
<1>3. /\ s \o <<x>> \in Seq(S) /\ Range(s \o <<x>>) = Range(s) \cup Range(<<x>>)
      /\ IsInjective(s) /\ Range(s) \cap Range(<<x>>) = {} => IsInjective(s \o <<x>>)
  BY <1>2, Joined
<1>4. x \notin Range(s) => Range(s) \cap Range(<<x>>) = {}
  BY <1>2
<1> QED BY <1>1, <1>2, <1>3, <1>4

\* The first is served.
LEMMA Served ==
    ASSUME NEW S, NEW s \in Seq(S), s # <<>>
    PROVE  /\ Head(s) \in S /\ Head(s) \in Range(s) /\ Tail(s) \in Seq(S)
           /\ Range(s) = {Head(s)} \cup Range(Tail(s))
           /\ IsInjective(s) => /\ IsInjective(Tail(s)) /\ Head(s) \notin Range(Tail(s))
                                /\ Range(Tail(s)) = Range(s) \ {Head(s)}
<1>1. /\ Head(s) \in S /\ Tail(s) \in Seq(S) /\ Len(Tail(s)) = Len(s) - 1
      /\ \A i \in 1 .. Len(Tail(s)) : Tail(s)[i] = s[i + 1]
  BY HeadTailProperties
<1>2. /\ DOMAIN s = 1 .. Len(s) /\ Len(s) \in Nat \ {0}
      /\ DOMAIN Tail(s) = 1 .. Len(s) - 1
  BY <1>1, LenProperties, EmptySeq
<1>3. Head(s) = s[1]
  BY <1>2
<1>4. \A i \in 1 .. Len(s) - 1 : i + 1 \in 1 .. Len(s) /\ i + 1 # 1
  BY <1>2
<1>5. \A i \in 1 .. Len(s) : i = 1 \/ (i - 1 \in 1 .. Len(s) - 1 /\ i - 1 + 1 = i)
  BY <1>2
<1>6. \A i \in 1 .. Len(s) : i # 1 => s[i] = Tail(s)[i - 1] /\ i - 1 \in 1 .. Len(s) - 1
  BY <1>1, <1>5
<1>7. Range(Tail(s)) \subseteq Range(s) /\ Head(s) \in Range(s)
  BY <1>1, <1>2, <1>3, <1>4 DEF Range
<1>8. Range(s) \subseteq {Head(s)} \cup Range(Tail(s))
  <2>1. SUFFICES ASSUME NEW i \in 1 .. Len(s) PROVE s[i] \in {Head(s)} \cup Range(Tail(s))
    BY <1>2 DEF Range
  <2>2. CASE i = 1
    BY <1>3, <2>2
  <2>3. CASE i # 1
    <3>1. s[i] = Tail(s)[i - 1] /\ i - 1 \in DOMAIN Tail(s)
      BY <1>2, <1>6, <2>3
    <3> QED BY <3>1 DEF Range
  <2> QED BY <2>2, <2>3
<1>9. IsInjective(s) => IsInjective(Tail(s)) /\ Head(s) \notin Range(Tail(s))
  <2> HAVE IsInjective(s)
  <2>1. \A i, j \in 1 .. Len(s) : s[i] = s[j] => i = j
    BY <1>2 DEF IsInjective
  <2>2. \A i, j \in 1 .. Len(s) - 1 : Tail(s)[i] = Tail(s)[j] => i = j
    <3>1. ASSUME NEW i \in 1 .. Len(s) - 1, NEW j \in 1 .. Len(s) - 1, Tail(s)[i] = Tail(s)[j]
          PROVE  i = j
      <4>1. s[i + 1] = s[j + 1] /\ i + 1 \in 1 .. Len(s) /\ j + 1 \in 1 .. Len(s)
        BY <1>1, <1>4, <3>1
      <4>2. i + 1 = j + 1
        BY <2>1, <4>1
      <4> QED BY <4>2, <1>2
    <3> QED BY <3>1
  <2>3. \A i \in 1 .. Len(s) - 1 : Tail(s)[i] # s[1]
    BY <1>1, <1>2, <1>4, <2>1
  <2> QED BY <1>2, <1>3, <2>2, <2>3 DEF IsInjective, Range
<1> QED BY <1>1, <1>7, <1>8, <1>9

\* One taken out of the middle.
LEMMA TakenOut ==
    ASSUME NEW S, NEW s \in Seq(S), NEW k \in DOMAIN s
    PROVE  /\ RemoveAt(s, k) \in Seq(S) /\ s[k] \in Range(s)
           /\ IsInjective(s) => /\ IsInjective(RemoveAt(s, k))
                                /\ Range(RemoveAt(s, k)) = Range(s) \ {s[k]}
<1> DEFINE front == SubSeq(s, 1, k - 1)
           back == SubSeq(s, k + 1, Len(s))
<1>1. /\ DOMAIN s = 1 .. Len(s) /\ Len(s) \in Nat /\ k \in 1 .. Len(s)
      /\ \A i \in 1 .. Len(s) : s[i] \in S
  BY Positions
<1>2. /\ front \in Seq(S) /\ Len(front) = k - 1
      /\ \A i \in 1 .. k - 1 : front[i] = s[i]
  BY <1>1, SubSeqProperties, 1 \in Int, k - 1 \in Int, \A i \in 1 .. k - 1 : s[i] \in S
<1>3. /\ back \in Seq(S) /\ Len(back) = Len(s) - k
      /\ \A i \in 1 .. Len(s) - k : back[i] = s[k + i]
  <2>1. k + 1 \in Int /\ Len(s) \in Int /\ \A i \in k + 1 .. Len(s) : s[i] \in S
    BY <1>1
  <2>2. /\ back \in Seq(S)
        /\ Len(back) = IF k + 1 <= Len(s) THEN Len(s) - (k + 1) + 1 ELSE 0
        /\ \A i \in 1 .. Len(s) - (k + 1) + 1 : back[i] = s[k + 1 + i - 1]
    BY <2>1, SubSeqProperties
  <2>3. Len(s) - (k + 1) + 1 = Len(s) - k /\ (~(k + 1 <= Len(s)) => Len(s) - k = 0)
    <3>1. \A n \in Nat : \A q \in 1 .. n :
              n - (q + 1) + 1 = n - q /\ (~(q + 1 <= n) => n - q = 0)
      OBVIOUS
    <3> QED BY <3>1, <1>1
  <2>4. \A i \in 1 .. Len(s) - k : k + 1 + i - 1 = k + i
    BY <1>1
  <2> QED BY <2>2, <2>3, <2>4
<1>4. DOMAIN front = 1 .. k - 1 /\ DOMAIN back = 1 .. Len(s) - k
  BY <1>2, <1>3, LenProperties
<1>5. RemoveAt(s, k) = front \o back
  BY DEF RemoveAt
<1>6. s[k] \in Range(s)
  BY DEF Range
<1> HIDE DEF front, back
<1>7. RemoveAt(s, k) \in Seq(S)
  BY <1>2, <1>3, <1>5, Joined
<1>8. SUFFICES ASSUME IsInjective(s)
               PROVE  /\ IsInjective(front \o back)
                      /\ Range(front) \cup Range(back) = Range(s) \ {s[k]}
  BY <1>2, <1>3, <1>5, <1>6, <1>7, Joined
<1>9. \A i, j \in 1 .. Len(s) : s[i] = s[j] => i = j
  BY <1>1, <1>8 DEF IsInjective
<1>10. \A i \in 1 .. k - 1 : i \in 1 .. Len(s) /\ i # k /\ i < k
  BY <1>1
<1>11. \A i \in 1 .. Len(s) - k : k + i \in 1 .. Len(s) /\ k + i # k /\ ~(k + i < k)
  BY <1>1
<1>12. IsInjective(front)
  BY <1>2, <1>4, <1>9, <1>10 DEF IsInjective
<1>13. IsInjective(back)
  <2>1. ASSUME NEW i \in 1 .. Len(s) - k, NEW j \in 1 .. Len(s) - k, back[i] = back[j]
        PROVE  i = j
    <3>1. k + i = k + j
      BY <1>3, <1>9, <1>11, <2>1
    <3> QED BY <3>1, <1>1
  <2> QED BY <1>4, <2>1 DEF IsInjective
<1>14. Range(front) \cap Range(back) = {}
  <2>1. ASSUME NEW i \in 1 .. k - 1, NEW j \in 1 .. Len(s) - k
        PROVE  front[i] # back[j]
    <3>1. front[i] = s[i] /\ back[j] = s[k + j] /\ i # k + j
      BY <1>2, <1>3, <1>10, <1>11
    <3> QED BY <3>1, <1>9, <1>10, <1>11
  <2> QED BY <1>4, <2>1 DEF Range
<1>15. Range(front) \cup Range(back) \subseteq Range(s) \ {s[k]}
  <2>1. \A i \in 1 .. k - 1 : front[i] \in Range(s) /\ front[i] # s[k]
    BY <1>1, <1>2, <1>9, <1>10 DEF Range
  <2>2. \A i \in 1 .. Len(s) - k : back[i] \in Range(s) /\ back[i] # s[k]
    BY <1>1, <1>3, <1>9, <1>11 DEF Range
  <2> QED BY <1>4, <2>1, <2>2 DEF Range
<1>16. Range(s) \ {s[k]} \subseteq Range(front) \cup Range(back)
  <2>1. SUFFICES ASSUME NEW i \in 1 .. Len(s), i # k PROVE s[i] \in Range(front) \cup Range(back)
    BY <1>1 DEF Range
  <2>2. CASE i < k
    <3>1. i \in 1 .. k - 1
      BY <1>1, <2>2
    <3> QED BY <3>1, <1>2, <1>4 DEF Range
  <2>3. CASE ~(i < k)
    <3>1. i - k \in 1 .. Len(s) - k /\ k + (i - k) = i
      BY <1>1, <2>1, <2>3
    <3>2. back[i - k] = s[i]
      BY <3>1, <1>3
    <3> QED BY <3>1, <3>2, <1>4 DEF Range
  <2> QED BY <2>2, <2>3
<1> QED BY <1>2, <1>3, <1>12, <1>13, <1>14, <1>15, <1>16, Joined

\* The first that equals x is taken out.
LEMMA FirstTakenOut ==
    ASSUME NEW S, NEW s \in Seq(S), NEW x \in Range(s), IsInjective(s)
    PROVE  /\ RemoveFirst(s, x) \in Seq(S) /\ IsInjective(RemoveFirst(s, x))
           /\ Range(RemoveFirst(s, x)) = Range(s) \ {x}
<1> DEFINE I == {i \in 1 .. Len(s) : s[i] = x}
           k == Min(I)
<1>1. DOMAIN s = 1 .. Len(s) /\ Len(s) \in Nat
  BY Positions
<1>2. I # {} /\ I \subseteq Nat /\ \E i \in 1 .. Len(s) : s[i] = x
  BY <1>1 DEF Range
<1>3. PICK m \in I : \A j \in I : ~(<<j, m>> \in OpToRel(<, Nat))
  BY <1>2, WFMin, NatLessThanWellFounded
<1>4. \A j \in I : m <= j
  <2>1. \A j \in I : ~(j < m)
    BY <1>2, <1>3 DEF OpToRel
  <2> QED BY <1>2, <2>1
<1>5. k \in I
  BY <1>4 DEF Min
<1>6. RemoveFirst(s, x) = RemoveAt(s, k)
  BY <1>2 DEF RemoveFirst, SelectInSeq
<1> HIDE DEF k
<1>7. k \in DOMAIN s /\ s[k] = x
  BY <1>1, <1>5
<1> QED BY <1>6, <1>7, TakenOut

\* A finite set, in some order.
LEMMA Listed ==
    ASSUME NEW S, IsFiniteSet(S)
    PROVE  SetToSeq(S) \in Seq(S) /\ IsInjective(SetToSeq(S)) /\ Range(SetToSeq(S)) = S
<1> DEFINE n == Cardinality(S)
           f == SetToSeq(S)
<1>1. n \in Nat /\ \E g \in [1 .. n -> S] : IsInjective(g)
  BY FS_CardinalityType DEF ExistsBijection, Bijection, Injection
<1>2. f \in [1 .. n -> S] /\ IsInjective(f)
  BY <1>1 DEF SetToSeq
<1> HIDE DEF f
<1>3. f \in Injection(1 .. n, S)
  BY <1>2 DEF Injection
<1>4. IsFiniteSet(1 .. n) /\ Cardinality(1 .. n) = n
  BY <1>1, FS_Interval
<1>5. f \in Surjection(1 .. n, S)
  BY <1>3, <1>4, FS_Injection
<1>6. Range(f) = S
  BY <1>2, <1>5 DEF Surjection, Range
<1>7. f \in Seq(S)
  BY <1>1, <1>2
<1> QED BY <1>2, <1>6, <1>7 DEF f

\* A set of numbers has a least one.
LEMMA Least ==
    ASSUME NEW B \in SUBSET Nat, B # {}
    PROVE  \E m \in B : \A k \in B : ~(k < m)
<1>1. PICK m \in B : \A k \in B : ~(<<k, m>> \in OpToRel(<, Nat))
  BY WFMin, NatLessThanWellFounded
<1> QED BY <1>1 DEF OpToRel

\* What a filter leaves of a sequence.
LEMMA Selected ==
    ASSUME NEW T, NEW q \in Seq(T), NEW S
    PROVE  Within(q, S) \in Seq(T) /\ Range(Within(q, S)) = Range(q) \cap S
<1> DEFINE n == Len(q)
           Next1(f, i) == IF i = 0 THEN <<>>
                          ELSE IF q[i] \in S THEN Append(f[i - 1], q[i]) ELSE f[i - 1]
           Good(m) == \E f : f = [i \in 0 .. m |-> Next1(f, i)]
           Bad == {m \in 0 .. n : ~Good(m)}
           kept[i \in 0 .. n] == IF i = 0 THEN <<>>
                                 ELSE IF q[i] \in S THEN Append(kept[i - 1], q[i]) ELSE kept[i - 1]
<1>1. n \in Nat /\ DOMAIN q = 1 .. n /\ \A i \in 1 .. n : q[i] \in T
  BY LenProperties, ElementOfSeq
<1> HIDE DEF n
<1>2. Bad = {}
  <2>1. SUFFICES ASSUME Bad # {} PROVE FALSE
    OBVIOUS
  <2>2. PICK m \in Bad : \A k \in Bad : ~(k < m)
    <3>1. Bad \in SUBSET Nat
      BY <1>1
    <3> HIDE DEF Bad
    <3> QED BY <2>1, <3>1, Least
  <2>3. CASE m = 0
    <3> DEFINE f == [i \in 0 .. m |-> <<>>]
    <3>1. f = [i \in 0 .. m |-> Next1(f, i)]
      BY <2>3
    <3> QED BY <2>2, <3>1
  <2>4. CASE m # 0
    <3>1. m \in 0 .. n /\ m - 1 \in 0 .. n /\ m - 1 < m
      BY <1>1, <2>2, <2>4
    <3>2. Good(m - 1)
      BY <2>2, <3>1
    <3>3. PICK g : g = [i \in 0 .. (m - 1) |-> Next1(g, i)]
      BY <3>2
    <3> DEFINE f == [i \in 0 .. m |-> IF i = m THEN Next1(g, i) ELSE g[i]]
    <3>4. ASSUME NEW i \in 0 .. m PROVE f[i] = Next1(f, i)
      <4>1. CASE i = 0
        <5>1. i \in 0 .. (m - 1) /\ i # m
          BY <3>1, <2>4, <4>1
        <5>2. g[i] = <<>>
          BY <3>3, <4>1, <5>1
        <5> QED BY <4>1, <5>1, <5>2
      <4>2. CASE i # 0
        <5>1. i - 1 \in 0 .. (m - 1) /\ i - 1 # m /\ i - 1 \in 0 .. m /\ (i # m => i \in 0 .. (m - 1))
          BY <1>1, <3>1, <4>2
        <5>2. f[i - 1] = g[i - 1]
          BY <5>1
        <5>3. i # m => g[i] = Next1(g, i)
          BY <3>3, <5>1
        <5>4. f[i] = Next1(g, i)
          BY <5>3
        <5> QED BY <5>2, <5>4
      <4> QED BY <4>1, <4>2
    <3>5. f = [i \in 0 .. m |-> Next1(f, i)]
      BY <3>4
    <3> QED BY <2>2, <3>5
  <2> QED BY <2>3, <2>4
<1>3. Good(n)
  <2>1. n \in 0 .. n
    BY <1>1
  <2> HIDE DEF Good
  <2> QED BY <1>2, <2>1
<1>4. kept = [i \in 0 .. n |-> Next1(kept, i)]
  BY <1>3
<1>5. Within(q, S) = kept[n]
  BY DEF Within, n
<1> HIDE DEF kept
<1> DEFINE Seen(i) == {q[j] : j \in 1 .. i}
           Wrong == {i \in 0 .. n : ~(kept[i] \in Seq(T) /\ Range(kept[i]) = Seen(i) \cap S)}
<1>6. Wrong = {}
  <2>1. SUFFICES ASSUME Wrong # {} PROVE FALSE
    OBVIOUS
  <2>2. PICK m \in Wrong : \A k \in Wrong : ~(k < m)
    <3>1. Wrong \in SUBSET Nat
      BY <1>1
    <3> HIDE DEF Wrong
    <3> QED BY <2>1, <3>1, Least
  <2>3. kept[m] = Next1(kept, m) /\ m \in 0 .. n
    BY <1>4, <2>2
  <2>4. CASE m = 0
    <3>1. kept[m] = <<>> /\ Seen(m) = {}
      BY <2>3, <2>4
    <3>2. <<>> \in Seq(T) /\ Range(<<>>) = {}
      BY Short
    <3> QED BY <2>2, <3>1, <3>2
  <2>5. CASE m # 0
    <3>1. m - 1 \in 0 .. n /\ m - 1 < m /\ m \in 1 .. n
      BY <1>1, <2>3, <2>5
    <3>2. kept[m - 1] \in Seq(T) /\ Range(kept[m - 1]) = Seen(m - 1) \cap S
      BY <2>2, <3>1
    <3>3. Seen(m) = Seen(m - 1) \cup {q[m]}
      <4>1. \A j \in 1 .. m : j = m \/ j \in 1 .. (m - 1)
        BY <3>1
      <4>2. \A j \in 1 .. (m - 1) : j \in 1 .. m
        BY <3>1
      <4>3. m \in 1 .. m
        BY <3>1
      <4> QED BY <4>1, <4>2, <4>3
    <3>4. q[m] \in T
      BY <1>1, <3>1
    <3>5. CASE q[m] \notin S
      BY <2>2, <2>3, <2>5, <3>2, <3>3, <3>5
    <3>6. CASE q[m] \in S
      <4>1. kept[m] = Append(kept[m - 1], q[m])
        BY <2>3, <2>5, <3>6
      <4>2. kept[m] \in Seq(T) /\ Range(kept[m]) = Range(kept[m - 1]) \cup {q[m]}
        BY <3>2, <3>4, <4>1, Appended
      <4> QED BY <2>2, <3>2, <3>3, <3>6, <4>2
    <3> QED BY <3>5, <3>6
  <2> QED BY <2>4, <2>5
<1>7. kept[n] \in Seq(T) /\ Range(kept[n]) = Seen(n) \cap S
  <2>1. n \in 0 .. n
    BY <1>1
  <2> HIDE DEF Seen
  <2> QED BY <1>6, <2>1
<1>8. Seen(n) = Range(q)
  BY <1>1 DEF Range
<1> QED BY <1>5, <1>7, <1>8

-----------------------------------------------------------------------------
(* What a step leaves as it was. *)

=============================================================================
