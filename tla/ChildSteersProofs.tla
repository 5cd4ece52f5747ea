------------------------- MODULE ChildSteersProofs -------------------------
(***************************************************************************)
(* The safety of the child mailbox for every set of messages, runs and     *)
(* callers and every bound.                                                *)
(***************************************************************************)
EXTENDS ChildSteers, FiniteSetTheorems, SequenceTheorems,
        WellFoundedInduction, TLAPS

-----------------------------------------------------------------------------
(* Sequences seen as the messages they hold. *)

LEMMA ElemsType ==
    ASSUME NEW s \in Seq(Text)
    PROVE  Elems(s) \subseteq Text /\ (Elems(s) = {} <=> s = <<>>)
<1>1. DOMAIN s = 1 .. Len(s) /\ Len(s) \in Nat
  BY LenProperties
<1>2. Elems(s) \subseteq Text
  BY <1>1, ElementOfSeq DEF Elems
<1>3. s # <<>> => Elems(s) # {}
  <2>1. SUFFICES ASSUME s # <<>> PROVE s[1] \in Elems(s)
    OBVIOUS
  <2>2. 1 \in DOMAIN s
    BY <2>1, <1>1, EmptySeq
  <2> QED BY <2>2 DEF Elems
<1>4. s = <<>> => Elems(s) = {}
  BY DEF Elems
<1> QED BY <1>2, <1>3, <1>4

LEMMA ElemsEmpty == <<>> \in Seq(Text) /\ Elems(<<>>) = {}
<1>1. <<>> \in Seq(Text)
  BY EmptySeq
<1> QED BY <1>1, ElemsType

LEMMA ElemsConcat ==
    ASSUME NEW s \in Seq(Text), NEW t \in Seq(Text)
    PROVE  s \o t \in Seq(Text) /\ Elems(s \o t) = Elems(s) \cup Elems(t)
<1>1. /\ s \o t \in Seq(Text)
      /\ Len(s \o t) = Len(s) + Len(t)
      /\ \A i \in 1 .. Len(s) + Len(t) :
            (s \o t)[i] = IF i <= Len(s) THEN s[i] ELSE t[i - Len(s)]
  BY ConcatProperties
<1>2. /\ DOMAIN s = 1 .. Len(s) /\ Len(s) \in Nat
      /\ DOMAIN t = 1 .. Len(t) /\ Len(t) \in Nat
      /\ DOMAIN (s \o t) = 1 .. Len(s) + Len(t)
  BY <1>1, LenProperties
<1>3. ASSUME NEW i \in DOMAIN (s \o t)
      PROVE  (s \o t)[i] \in Elems(s) \cup Elems(t)
  <2>1. CASE i <= Len(s)
    <3>1. i \in DOMAIN s /\ (s \o t)[i] = s[i]
      BY <2>1, <1>1, <1>2
    <3> QED BY <3>1 DEF Elems
  <2>2. CASE ~(i <= Len(s))
    <3>1. i - Len(s) \in DOMAIN t /\ (s \o t)[i] = t[i - Len(s)]
      BY <2>2, <1>1, <1>2
    <3> QED BY <3>1 DEF Elems
  <2> QED BY <2>1, <2>2
<1>4. ASSUME NEW i \in DOMAIN s PROVE s[i] \in Elems(s \o t)
  <2>1. i \in DOMAIN (s \o t) /\ (s \o t)[i] = s[i]
    BY <1>1, <1>2
  <2> QED BY <2>1 DEF Elems
<1>5. ASSUME NEW i \in DOMAIN t PROVE t[i] \in Elems(s \o t)
  <2>1. /\ Len(s) + i \in DOMAIN (s \o t)
        /\ (s \o t)[Len(s) + i] = t[i]
    BY <1>1, <1>2
  <2> QED BY <2>1 DEF Elems
<1> QED BY <1>1, <1>3, <1>4, <1>5 DEF Elems

LEMMA ElemsAppend ==
    ASSUME NEW s \in Seq(Text), NEW x \in Text
    PROVE  Append(s, x) \in Seq(Text) /\ Elems(Append(s, x)) = Elems(s) \cup {x}
<1>1. <<x>> \in Seq(Text) /\ Elems(<<x>>) = {x}
  BY DEF Elems
<1>2. Append(s, x) = s \o <<x>>
  BY AppendIsConcat
<1> QED BY <1>1, <1>2, ElemsConcat

LEMMA ElemsHeadTail ==
    ASSUME NEW s \in Seq(Text), s # <<>>
    PROVE  /\ Head(s) \in Elems(s) /\ Head(s) \in Text
           /\ Tail(s) \in Seq(Text) /\ Elems(Tail(s)) \subseteq Elems(s)
<1>1. /\ Head(s) \in Text /\ Tail(s) \in Seq(Text)
      /\ Len(Tail(s)) = Len(s) - 1
      /\ \A i \in 1 .. Len(Tail(s)) : Tail(s)[i] = s[i+1]
  BY HeadTailProperties
<1>2. /\ DOMAIN s = 1 .. Len(s) /\ Len(s) \in Nat \ {0}
      /\ DOMAIN Tail(s) = 1 .. Len(Tail(s))
  BY <1>1, LenProperties, EmptySeq
<1>3. Head(s) = s[1] /\ 1 \in DOMAIN s
  BY <1>2
<1>4. ASSUME NEW i \in DOMAIN Tail(s) PROVE Tail(s)[i] \in Elems(s)
  <2>1. i + 1 \in DOMAIN s /\ Tail(s)[i] = s[i+1]
    BY <1>1, <1>2
  <2> QED BY <2>1 DEF Elems
<1> QED BY <1>1, <1>3, <1>4 DEF Elems

\* A message in a sequence has a first occurrence.
LEMMA FirstOccurrence ==
    ASSUME NEW s \in Seq(Text), NEW t \in Elems(s)
    PROVE  \E i \in DOMAIN s : s[i] = t /\ \A j \in 1 .. i-1 : s[j] # t
<1> DEFINE At == {i \in DOMAIN s : s[i] = t}
<1>1. DOMAIN s = 1 .. Len(s) /\ Len(s) \in Nat
  BY LenProperties
<1>2. At \subseteq Nat /\ At # {}
  BY <1>1 DEF Elems
<1>3. PICK i \in At : \A j \in At : ~ (<<j, i>> \in OpToRel(<, Nat))
  BY <1>2, WFMin, NatLessThanWellFounded
<1>4. \A j \in At : ~(j < i)
  BY <1>2, <1>3 DEF OpToRel
<1>5. \A j \in 1 .. i-1 : s[j] # t
  BY <1>1, <1>4
<1> QED BY <1>5

\* How often a message occurs in a sequence.
N(s, t) == Cardinality({i \in DOMAIN s : s[i] = t})

\* A message occurs a number of times, none if it is not there.
LEMMA NType ==
    ASSUME NEW s \in Seq(Text), NEW t \in Text
    PROVE  /\ IsFiniteSet({i \in DOMAIN s : s[i] = t})
           /\ N(s, t) \in Nat /\ (N(s, t) = 0 <=> t \notin Elems(s))
<1> DEFINE At == {i \in DOMAIN s : s[i] = t}
<1>1. DOMAIN s = 1 .. Len(s) /\ Len(s) \in Nat
  BY LenProperties
<1>2. IsFiniteSet(DOMAIN s)
  BY <1>1, FS_Interval
<1>3. IsFiniteSet(At)
  BY <1>2, FS_Subset, At \in SUBSET (DOMAIN s)
<1>4. Cardinality(At) \in Nat /\ (Cardinality(At) = 0 <=> At = {})
  BY <1>3, FS_CardinalityType, FS_EmptySet
<1>5. t \in Elems(s) <=> At # {}
  BY DEF Elems
<1> QED BY <1>3, <1>4, <1>5 DEF N

\* No message occurs in the empty sequence.
LEMMA NEmpty == ASSUME NEW t \in Text PROVE N(<<>>, t) = 0
  BY ElemsEmpty, NType

\* A message alone occurs once.
LEMMA NSingle ==
    ASSUME NEW x \in Text, NEW t \in Text
    PROVE  <<x>> \in Seq(Text) /\ N(<<x>>, t) = IF x = t THEN 1 ELSE 0
<1>1. <<x>> \in Seq(Text) /\ DOMAIN <<x>> = {1} /\ <<x>>[1] = x
  OBVIOUS
<1>2. CASE x = t
  <2>1. {i \in DOMAIN <<x>> : <<x>>[i] = t} = {1}
    BY <1>1, <1>2
  <2> QED BY <1>1, <1>2, <2>1, FS_Singleton DEF N
<1>3. CASE x # t
  <2>1. {i \in DOMAIN <<x>> : <<x>>[i] = t} = {}
    BY <1>1, <1>3
  <2> QED BY <1>1, <1>3, <2>1, FS_EmptySet DEF N
<1> QED BY <1>2, <1>3

\* Behind each other, the copies add up.
LEMMA NConcat ==
    ASSUME NEW s \in Seq(Text), NEW u \in Seq(Text), NEW t \in Text
    PROVE  s \o u \in Seq(Text) /\ N(s \o u, t) = N(s, t) + N(u, t)
<1> DEFINE A == {i \in DOMAIN s : s[i] = t}
           B == {i \in DOMAIN u : u[i] = t}
           C == {i \in DOMAIN (s \o u) : (s \o u)[i] = t}
           D == {i \in Len(s) + 1 .. Len(s) + Len(u) : i - Len(s) \in B}
           f == [i \in B |-> Len(s) + i]
<1>1. /\ s \o u \in Seq(Text) /\ Len(s \o u) = Len(s) + Len(u)
      /\ \A i \in 1 .. Len(s) + Len(u) : (s \o u)[i] = IF i <= Len(s) THEN s[i] ELSE u[i - Len(s)]
  BY ConcatProperties
<1>2. /\ DOMAIN s = 1 .. Len(s) /\ Len(s) \in Nat /\ DOMAIN u = 1 .. Len(u) /\ Len(u) \in Nat
      /\ DOMAIN (s \o u) = 1 .. Len(s) + Len(u)
  BY <1>1, LenProperties
<1>3. C = A \cup D
  <2>1. ASSUME NEW i \in C PROVE i \in A \cup D
    <3>1. CASE i <= Len(s)
      BY <1>1, <1>2, <3>1
    <3>2. CASE ~(i <= Len(s))
      <4>1. i - Len(s) \in DOMAIN u /\ u[i - Len(s)] = t
        BY <1>1, <1>2, <3>2
      <4>2. i \in Len(s) + 1 .. Len(s) + Len(u)
        BY <1>1, <1>2, <3>2
      <4> QED BY <4>1, <4>2
    <3> QED BY <3>1, <3>2
  <2>2. ASSUME NEW i \in A PROVE i \in C
    <3>1. i \in 1 .. Len(s) + Len(u) /\ i <= Len(s)
      BY <1>2
    <3> QED BY <1>1, <1>2, <3>1
  <2>3. ASSUME NEW i \in D PROVE i \in C
    <3>1. i \in 1 .. Len(s) + Len(u) /\ ~(i <= Len(s)) /\ u[i - Len(s)] = t
      BY <1>2
    <3> QED BY <1>1, <1>2, <3>1
  <2> QED BY <2>1, <2>2, <2>3
<1>4. A \cap D = {}
  BY <1>2
<1>5. IsFiniteSet(A) /\ IsFiniteSet(B) /\ Cardinality(A) \in Nat /\ Cardinality(B) \in Nat
  BY NType, FS_CardinalityType DEF N
<1>6. f \in Bijection(B, D)
  <2>1. ASSUME NEW i \in B PROVE Len(s) + i \in D
    <3>1. i \in 1 .. Len(u)
      BY <1>2
    <3>2. Len(s) + i \in Len(s) + 1 .. Len(s) + Len(u) /\ (Len(s) + i) - Len(s) = i
      BY <1>2, <3>1
    <3> QED BY <3>2
  <2>2. f \in [B -> D]
    BY <2>1
  <2>3. ASSUME NEW i \in B, NEW j \in B, f[i] = f[j] PROVE i = j
    <3>1. i \in Nat /\ j \in Nat /\ Len(s) + i = Len(s) + j
      BY <1>2, <2>3
    <3> QED BY <1>2, <3>1
  <2>4. ASSUME NEW k \in D PROVE \E i \in B : f[i] = k
    <3>1. k - Len(s) \in B /\ Len(s) + (k - Len(s)) = k
      BY <1>2
    <3> QED BY <3>1
  <2> HIDE DEF f, B, D
  <2> QED BY <2>2, <2>3, <2>4 DEF Bijection, Injection, Surjection, IsInjective
<1>7. IsFiniteSet(D) /\ Cardinality(D) = Cardinality(B)
  BY <1>5, <1>6, FS_Bijection DEF ExistsBijection
<1> HIDE DEF A, B, C, D
<1>8. Cardinality(C) = Cardinality(A) + Cardinality(D) - Cardinality({})
  BY <1>3, <1>4, <1>5, <1>7, FS_Union
<1>9. Cardinality({}) = 0
  BY FS_EmptySet
<1>10. Cardinality(C) = Cardinality(A) + Cardinality(B)
  BY <1>5, <1>7, <1>8, <1>9
<1> QED BY <1>1, <1>10 DEF N, A, B, C

\* A message put at the end is one copy more.
LEMMA NAppend ==
    ASSUME NEW s \in Seq(Text), NEW x \in Text, NEW t \in Text
    PROVE  N(Append(s, x), t) = N(s, t) + (IF x = t THEN 1 ELSE 0)
<1> DEFINE u == <<x>>
<1>1. u \in Seq(Text) /\ N(u, t) = IF x = t THEN 1 ELSE 0
  BY NSingle
<1>2. Append(s, x) = s \o u
  BY AppendIsConcat
<1> HIDE DEF u
<1> QED BY <1>1, <1>2, NConcat

\* The head is one copy, the tail has the others.
LEMMA NHeadTail ==
    ASSUME NEW s \in Seq(Text), s # <<>>, NEW t \in Text
    PROVE  /\ Head(s) \in Text /\ Tail(s) \in Seq(Text)
           /\ N(s, t) = (IF Head(s) = t THEN 1 ELSE 0) + N(Tail(s), t)
<1>1. /\ Head(s) \in Text /\ Tail(s) \in Seq(Text) /\ Len(Tail(s)) = Len(s) - 1
      /\ \A i \in 1 .. Len(Tail(s)) : Tail(s)[i] = s[i+1]
  BY HeadTailProperties
<1>2. Len(s) \in Nat \ {0} /\ Head(s) = s[1]
  BY LenProperties, EmptySeq
<1>3. /\ <<Head(s)>> \in Seq(Text) /\ Len(<<Head(s)>>) = 1 /\ <<Head(s)>>[1] = Head(s)
  BY <1>1
<1> DEFINE u == <<Head(s)>>
<1> HIDE DEF u
<1>4. /\ u \o Tail(s) \in Seq(Text) /\ Len(u \o Tail(s)) = 1 + Len(Tail(s))
      /\ \A i \in 1 .. 1 + Len(Tail(s)) : (u \o Tail(s))[i] = IF i <= 1 THEN u[i] ELSE Tail(s)[i - 1]
  BY <1>1, <1>3, ConcatProperties DEF u
<1>5. ASSUME NEW i \in 1 .. Len(s) PROVE (u \o Tail(s))[i] = s[i]
  <2>1. CASE i = 1
    BY <1>1, <1>2, <1>3, <1>4, <2>1 DEF u
  <2>2. CASE i # 1
    <3>1. i - 1 \in 1 .. Len(Tail(s)) /\ (i - 1) + 1 = i /\ ~(i <= 1) /\ i \in 1 .. 1 + Len(Tail(s))
      BY <1>1, <1>2, <2>2
    <3> QED BY <1>1, <1>4, <3>1
  <2> QED BY <2>1, <2>2
<1>6. Len(u \o Tail(s)) = Len(s)
  BY <1>1, <1>2, <1>4
<1>7. s = u \o Tail(s)
  BY <1>4, <1>5, <1>6, SeqEqual
<1>8. N(s, t) = N(u, t) + N(Tail(s), t)
  <2>1. u \in Seq(Text)
    BY <1>3 DEF u
  <2>2. N(u \o Tail(s), t) = N(u, t) + N(Tail(s), t)
    BY <1>1, <2>1, NConcat
  <2> QED BY <1>7, <2>2
<1> QED BY <1>1, <1>8, NSingle DEF u

\* Of a message that is there, the first copy is taken and nothing else.
LEMMA WithoutParts ==
    ASSUME NEW s \in Seq(Text), NEW x \in Elems(s)
    PROVE  \E front, back \in Seq(Text) :
              s = front \o (<<x>> \o back) /\ Without(s, x) = front \o back
<1> DEFINE p == CHOOSE i \in DOMAIN s : s[i] = x /\ \A j \in 1 .. i-1 : s[j] # x
           front == SubSeq(s, 1, p - 1)
           back == SubSeq(s, p + 1, Len(s))
<1>1. DOMAIN s = 1 .. Len(s) /\ Len(s) \in Nat /\ \A i \in 1 .. Len(s) : s[i] \in Text
  BY LenProperties, ElementOfSeq
<1>2. p \in 1 .. Len(s) /\ s[p] = x /\ x \in Text
  BY <1>1, FirstOccurrence
<1> HIDE DEF p
<1>3. /\ front \in Seq(Text) /\ Len(front) = p - 1
      /\ \A i \in 1 .. p - 1 : front[i] = s[i]
  BY <1>1, <1>2, SubSeqProperties, 1 \in Int, p - 1 \in Int, \A i \in 1 .. p-1 : s[i] \in Text
<1>4. /\ back \in Seq(Text) /\ Len(back) = Len(s) - p
      /\ \A i \in 1 .. Len(s) - p : back[i] = s[p + i]
  <2>1. p + 1 \in Int /\ Len(s) \in Int /\ \A i \in p+1 .. Len(s) : s[i] \in Text
    BY <1>1, <1>2
  <2>2. /\ back \in Seq(Text)
        /\ Len(back) = IF p + 1 <= Len(s) THEN Len(s) - (p + 1) + 1 ELSE 0
        /\ \A i \in 1 .. Len(s) - (p + 1) + 1 : back[i] = s[p + 1 + i - 1]
    BY <2>1, SubSeqProperties
  <2>3. /\ Len(s) - (p + 1) + 1 = Len(s) - p
        /\ ~(p + 1 <= Len(s)) => Len(s) - p = 0
    <3>1. \A n \in Nat : \A q \in 1 .. n :
            /\ n - (q + 1) + 1 = n - q
            /\ ~(q + 1 <= n) => n - q = 0
      OBVIOUS
    <3> QED BY <3>1, <1>1, <1>2
  <2>4. \A i \in 1 .. Len(s) - p : p + 1 + i - 1 = p + i
    BY <1>1, <1>2
  <2> QED BY <2>2, <2>3, <2>4
<1>5. Without(s, x) = front \o back
  BY DEF Without, p
<1> HIDE DEF front, back
<1>6. <<x>> \in Seq(Text) /\ Len(<<x>>) = 1 /\ <<x>>[1] = x
  BY <1>2
<1> DEFINE one == <<x>>
<1> HIDE DEF one
<1>7. /\ one \o back \in Seq(Text) /\ Len(one \o back) = 1 + (Len(s) - p)
      /\ \A i \in 1 .. 1 + (Len(s) - p) : (one \o back)[i] = IF i <= 1 THEN one[i] ELSE back[i - 1]
  BY <1>4, <1>6, ConcatProperties DEF one
<1> DEFINE rest == one \o back
<1> HIDE DEF rest
<1>8. /\ front \o rest \in Seq(Text) /\ Len(front \o rest) = (p - 1) + Len(rest)
      /\ \A i \in 1 .. (p - 1) + Len(rest) :
            (front \o rest)[i] = IF i <= p - 1 THEN front[i] ELSE rest[i - (p - 1)]
  <2>1. rest \in Seq(Text)
    BY <1>7 DEF rest
  <2>2. /\ front \o rest \in Seq(Text) /\ Len(front \o rest) = Len(front) + Len(rest)
        /\ \A i \in 1 .. Len(front) + Len(rest) :
              (front \o rest)[i] = IF i <= Len(front) THEN front[i] ELSE rest[i - Len(front)]
    BY <1>3, <2>1, ConcatProperties
  <2>3. Len(front) = p - 1
    BY <1>3
  <2> QED BY <2>2, <2>3
<1>9. Len(rest) = 1 + (Len(s) - p) /\ (p - 1) + Len(rest) = Len(s)
  BY <1>1, <1>2, <1>7 DEF rest
<1>10. ASSUME NEW i \in 1 .. Len(s) PROVE (front \o rest)[i] = s[i]
  <2>1. CASE i <= p - 1
    BY <1>1, <1>2, <1>3, <1>8, <1>9, <2>1
  <2>2. CASE i = p
    <3>1. ~(i <= p - 1) /\ i - (p - 1) = 1 /\ 1 \in 1 .. 1 + (Len(s) - p)
      BY <1>1, <1>2, <2>2
    <3>2. rest[1] = x
      BY <1>6, <1>7, <3>1 DEF rest, one
    <3> QED BY <1>2, <1>8, <1>9, <2>2, <3>1, <3>2
  <2>3. CASE i > p
    <3> DEFINE k == i - (p - 1)
    <3>1. /\ ~(i <= p - 1) /\ k \in 1 .. 1 + (Len(s) - p) /\ ~(k <= 1) /\ k - 1 \in 1 .. Len(s) - p
          /\ p + (k - 1) = i
      BY <1>1, <1>2, <2>3
    <3>2. (front \o rest)[i] = rest[k]
      BY <1>8, <1>9, <3>1
    <3> HIDE DEF k
    <3>3. rest[k] = back[k - 1]
      BY <1>7, <3>1 DEF rest
    <3> QED BY <1>4, <3>1, <3>2, <3>3
  <2>4. i <= p - 1 \/ i = p \/ i > p
    BY <1>1, <1>2
  <2> QED BY <2>1, <2>2, <2>3, <2>4
<1>11. s = front \o rest
  BY <1>8, <1>9, <1>10, SeqEqual
<1> QED BY <1>3, <1>4, <1>5, <1>11 DEF rest, one

\* Without takes one copy of the message away, and none of another.
LEMMA NWithout ==
    ASSUME NEW s \in Seq(Text), NEW x \in Elems(s), NEW t \in Text
    PROVE  Without(s, x) \in Seq(Text) /\ N(s, t) = (IF x = t THEN 1 ELSE 0) + N(Without(s, x), t)
<1>1. x \in Text
  BY ElemsType
<1>2. PICK front \in Seq(Text), back \in Seq(Text) :
         s = front \o (<<x>> \o back) /\ Without(s, x) = front \o back
  BY WithoutParts
<1> DEFINE u == <<x>>
<1>3. u \in Seq(Text) /\ N(u, t) = IF x = t THEN 1 ELSE 0
  BY <1>1, NSingle
<1>4. s = front \o (u \o back) /\ Without(s, x) = front \o back
  BY <1>2
<1> HIDE DEF u
<1>5. u \o back \in Seq(Text) /\ N(u \o back, t) = N(u, t) + N(back, t)
  BY <1>3, NConcat
<1>6. N(front \o (u \o back), t) = N(front, t) + (N(u, t) + N(back, t))
  <2> DEFINE v == u \o back
  <2>1. v \in Seq(Text) /\ N(v, t) = N(u, t) + N(back, t)
    BY <1>5
  <2> HIDE DEF v
  <2>2. N(front \o v, t) = N(front, t) + N(v, t)
    BY <2>1, NConcat
  <2> QED BY <2>1, <2>2 DEF v
<1>7. front \o back \in Seq(Text) /\ N(front \o back, t) = N(front, t) + N(back, t)
  BY NConcat
<1>8. N(front, t) \in Nat /\ N(back, t) \in Nat /\ N(u, t) \in Nat
  BY <1>3, NType
<1>9. N(s, t) = N(front, t) + (N(u, t) + N(back, t))
  BY <1>4, <1>6
<1> QED BY <1>3, <1>4, <1>7, <1>8, <1>9

\* Taking out the first occurrence of t loses t at most.
LEMMA WithoutLosesOne ==
    ASSUME NEW s \in Seq(Text), NEW t \in Elems(s)
    PROVE  Without(s, t) \in Seq(Text) /\ Elems(s) \subseteq Elems(Without(s, t)) \cup {t}
<1>1. /\ Without(s, t) \in Seq(Text)
      /\ \A x \in Text : N(s, x) = (IF t = x THEN 1 ELSE 0) + N(Without(s, t), x)
  <2>1. ASSUME NEW x \in Text PROVE N(s, x) = (IF t = x THEN 1 ELSE 0) + N(Without(s, t), x)
    BY NWithout
  <2>2. t \in Text
    BY ElemsType
  <2> QED BY <2>1, <2>2, NWithout
<1>2. ASSUME NEW x \in Elems(s), x # t PROVE x \in Elems(Without(s, t))
  <2>1. x \in Text
    BY ElemsType
  <2>2. N(s, x) # 0 /\ N(s, x) = N(Without(s, t), x)
    <3>1. N(s, x) = 0 + N(Without(s, t), x) /\ N(Without(s, t), x) \in Nat
      BY <1>1, <1>2, <2>1, NType
    <3>2. N(s, x) # 0
      BY <1>2, <2>1, NType
    <3>3. N(s, x) = N(Without(s, t), x)
      BY <3>1
    <3> QED BY <3>2, <3>3
  <2> QED BY <1>1, <2>1, <2>2, NType
<1> QED BY <1>1, <1>2

-----------------------------------------------------------------------------
(* The methods of ChildSteers: each keeps the entry and its file in step, and *)
(* what each does to the messages owed.                                       *)

LEMMA Written ==
    ASSUME NEW s \in Run \cup {NoRun}, NEW c \in Seq(Text), NEW p \in Seq(Text),
           Keep(s, c, p) \/ KeepOrPrune(s, c, p)
    PROVE  /\ EntryOK' /\ MirrorIsOwed' /\ claimed' = c
           /\ Elems(mirror') = Elems(c) \cup Elems(p)
<1>1. c \o p \in Seq(Text) /\ Elems(c \o p) = Elems(c) \cup Elems(p)
  BY ElemsConcat
<1>2. mirror' = c \o p /\ claimed' = c /\ pending' = p /\ sender' = s
  BY DEF Keep, KeepOrPrune
<1>3. EntryOK'
  BY <1>1, <1>2 DEF EntryOK, Keep, KeepOrPrune
<1>4. MirrorIsOwed'
  BY <1>2 DEF MirrorIsOwed, Keep, KeepOrPrune
<1> QED BY <1>1, <1>2, <1>3, <1>4

LEMMA Owed ==
    ASSUME EntryOK, MirrorIsOwed
    PROVE  Waiting \in Seq(Text) /\ Elems(mirror) = Elems(claimed) \cup Elems(Waiting)
<1>1. CASE loaded
  <2>1. mirror = claimed \o pending /\ Waiting = pending
    BY <1>1 DEF MirrorIsOwed, Waiting
  <2> QED BY <2>1, ElemsConcat DEF EntryOK
<1>2. CASE ~loaded
  <2>1. claimed = <<>> /\ Waiting = mirror
    BY <1>2 DEF MirrorIsOwed, Waiting
  <2>2. Elems(claimed) = {}
    BY <2>1, ElemsType DEF EntryOK
  <2> QED BY <2>1, <2>2 DEF EntryOK
<1> QED BY <1>1, <1>2 DEF EntryOK

LEMMA BeginOwes ==
    ASSUME EntryOK, MirrorIsOwed, NEW s \in Run \cup {NoRun}, Begin(s), claimed = <<>>
    PROVE  /\ EntryOK' /\ MirrorIsOwed' /\ claimed' = Waiting
           /\ Elems(mirror') = Elems(mirror)
<1>1. <<>> \in Seq(Text) /\ Elems(<<>>) = {}
  BY ElemsEmpty
<1> QED BY <1>1, Owed, Written DEF Begin

LEMMA QueueOwes ==
    ASSUME EntryOK, MirrorIsOwed, NEW t \in Text, Queue(t)
    PROVE  /\ EntryOK' /\ MirrorIsOwed' /\ claimed' = claimed
           /\ Elems(mirror') = Elems(mirror) \cup {t}
<1> DEFINE p == IF t \in Elems(Waiting) THEN Waiting ELSE Append(Waiting, t)
<1>1. p \in Seq(Text) /\ Elems(p) = Elems(Waiting) \cup {t}
  BY Owed, ElemsAppend
<1>2. Keep(sender, claimed, p)
  BY DEF Queue
<1> HIDE DEF p
<1>3. sender \in Run \cup {NoRun} /\ claimed \in Seq(Text)
  BY DEF EntryOK
<1> QED BY <1>1, <1>2, <1>3, Owed, Written

LEMMA PeekOwes ==
    ASSUME EntryOK, MirrorIsOwed, Peek
    PROVE  /\ EntryOK' /\ MirrorIsOwed' /\ claimed' = claimed
           /\ Elems(mirror') = Elems(mirror)
<1>1. sender \in Run \cup {NoRun} /\ claimed \in Seq(Text)
  BY DEF EntryOK
<1> QED BY <1>1, Owed, Written DEF Peek

LEMMA SteerOwes ==
    ASSUME EntryOK, MirrorIsOwed, NEW t \in Text, Steer(t), loaded
    PROVE  /\ EntryOK' /\ MirrorIsOwed' /\ claimed' = claimed
           /\ Elems(mirror') = Elems(mirror) \cup {t}
<1>1. /\ sender \in Run \cup {NoRun} /\ claimed \in Seq(Text)
      /\ pending \in Seq(Text) /\ Waiting = pending
  BY DEF EntryOK, Waiting
<1>2. Append(pending, t) \in Seq(Text) /\ Elems(Append(pending, t)) = Elems(pending) \cup {t}
  BY <1>1, ElemsAppend
<1> QED BY <1>1, <1>2, Owed, Written, ZenonT(60) DEF Steer

LEMMA CommittedOwes ==
    ASSUME EntryOK, MirrorIsOwed, Committed
    PROVE  /\ EntryOK' /\ MirrorIsOwed' /\ claimed' = <<>>
           /\ Elems(mirror) = Elems(mirror') \cup Elems(claimed)
<1>1. CASE loaded
  <2>1. /\ sender \in Run \cup {NoRun} /\ pending \in Seq(Text)
        /\ Waiting = pending /\ <<>> \in Seq(Text) /\ Elems(<<>>) = {}
    BY <1>1, ElemsEmpty DEF EntryOK, Waiting
  <2> QED BY <1>1, <2>1, Owed, Written DEF Committed
<1>2. CASE ~loaded
  <2>1. UNCHANGED entry /\ claimed = <<>>
    BY <1>2 DEF Committed, MirrorIsOwed
  <2>2. Elems(claimed) = {}
    BY <2>1, ElemsType DEF EntryOK
  <2> QED BY <2>1, <2>2 DEF entry, EntryOK, MirrorIsOwed
<1> QED BY <1>1, <1>2 DEF EntryOK

LEMMA DeliveredOwes ==
    ASSUME EntryOK, MirrorIsOwed, NEW t \in Text, Delivered(t)
    PROVE  /\ EntryOK' /\ MirrorIsOwed' /\ claimed' = claimed
           /\ Elems(mirror) \subseteq Elems(mirror') \cup {t}
<1>1. CASE loaded
  <2> DEFINE p == IF t \in Elems(pending) THEN Without(pending, t) ELSE pending
  <2>1. /\ sender \in Run \cup {NoRun} /\ claimed \in Seq(Text)
        /\ pending \in Seq(Text) /\ Waiting = pending
    BY <1>1 DEF EntryOK, Waiting
  <2>2. p \in Seq(Text) /\ Elems(pending) \subseteq Elems(p) \cup {t}
    BY <2>1, WithoutLosesOne
  <2>3. KeepOrPrune(sender, claimed, p)
    BY <1>1 DEF Delivered
  <2> HIDE DEF p
  <2>4. /\ EntryOK' /\ MirrorIsOwed' /\ claimed' = claimed
        /\ Elems(mirror') = Elems(claimed) \cup Elems(p)
    BY <2>1, <2>2, <2>3, Written
  <2> QED BY <2>1, <2>2, <2>4, Owed
<1>2. CASE ~loaded
  <2>1. UNCHANGED entry
    BY <1>2 DEF Delivered
  <2> QED BY <2>1 DEF entry, EntryOK, MirrorIsOwed
<1> QED BY <1>1, <1>2 DEF EntryOK

LEMMA EndOwes ==
    ASSUME EntryOK, MirrorIsOwed, NEW back \in Seq(Text), End(back),
           Elems(claimed) \subseteq Elems(back)
    PROVE  /\ EntryOK' /\ MirrorIsOwed' /\ claimed' = <<>>
           /\ Elems(mirror) \subseteq Elems(mirror')
<1>1. /\ back \o Waiting \in Seq(Text)
      /\ Elems(back \o Waiting) = Elems(back) \cup Elems(Waiting)
  BY Owed, ElemsConcat
<1>2. <<>> \in Seq(Text) /\ Elems(<<>>) = {} /\ NoRun \in Run \cup {NoRun}
  BY ElemsEmpty
<1> QED BY <1>1, <1>2, Owed, Written DEF End
-----------------------------------------------------------------------------
(* Every step keeps the inductive invariant. *)

\* What is spent is counted.
LEMMA SpendType ==
    ASSUME HistOK, NEW what \in DOMAIN Bounds, Spend(what)
    PROVE  spent' \in [DOMAIN Bounds -> Nat]
  BY DEF HistOK, Spend

\* The names of the bounds.
LEMMA BoundNames ==
    /\ "say" \in DOMAIN Bounds /\ "claims" \in DOMAIN Bounds
    /\ "crashes" \in DOMAIN Bounds /\ "faults" \in DOMAIN Bounds
    /\ "cuts" \in DOMAIN Bounds
  BY DEF Bounds

LEMMA SendSteeredStep ==
    ASSUME IInv, NEW c \in Caller, NEW t \in Text, SendSteered(c, t)
    PROVE  IInv'
<1>1. /\ EntryOK' /\ MirrorIsOwed' /\ claimed' = claimed
      /\ Elems(mirror') = Elems(mirror) \cup {t}
  BY SteerOwes DEF SendSteered, Steerable, IInv, TypeOK
<1>2. RunsOK' /\ TurnOK' /\ VerbOK' /\ HistOK'
  <2>1. spent' \in [DOMAIN Bounds -> Nat]
    BY SpendType, BoundNames DEF SendSteered, IInv, TypeOK
  <2>2. RunsOK'
    BY <1>1, ElemsEmpty DEF SendSteered, runs, verb, Accept, Steer, Steerable, IInv, TypeOK, RunsOK, Places
  <2>3. TurnOK'
    <3>1. sender \in Run /\ chan[sender] \in Seq(Text)
      BY DEF SendSteered, Steerable, IInv, TypeOK, EntryOK, TurnOK
    <3>2. Append(chan[sender], t) \in Seq(Text)
      BY <3>1, ElemsAppend
    <3> QED BY <3>1, <3>2 DEF SendSteered, Steer, runs, IInv, TypeOK, TurnOK
  <2>4. VerbOK'
    BY <1>1 DEF SendSteered, runs, verb, Accept, Steer, Steerable, IInv, TypeOK, VerbOK
  <2>5. HistOK'
    BY <2>1, <1>1 DEF SendSteered, runs, verb, Accept, Steer, Steerable, IInv, TypeOK, TurnOK, HistOK, Hands
  <2> QED BY <2>2, <2>3, <2>4, <2>5
<1>3. HoldIsClaimed'
  BY <1>1 DEF SendSteered, runs, verb, Accept, Steer, Steerable, IInv, TypeOK, RunsOK, HoldIsClaimed, Holding
<1>4. StartedIsRead'
  BY <1>1 DEF SendSteered, runs, verb, Accept, Steer, Steerable, IInv, TypeOK, RunsOK, StartedIsRead, Read
<1>5. AnnouncedIsRead'
  BY <1>1 DEF SendSteered, runs, verb, Accept, Steer, Steerable, IInv, TypeOK, TurnOK, AnnouncedIsRead, Read
<1>6. AcceptedIsKept'
  BY <1>1 DEF SendSteered, runs, verb, Accept, Steer, Steerable, IInv, TypeOK, TurnOK, HistOK, AcceptedIsKept, Said, Read, Hands
<1> QED BY <1>1, <1>2, <1>3, <1>4, <1>5, <1>6 DEF IInv, TypeOK

LEMMA SendUnsteeredStep ==
    ASSUME IInv, NEW c \in Caller, NEW t \in Text, SendUnsteered(c, t)
    PROVE  IInv'
<1>1. /\ EntryOK' /\ MirrorIsOwed' /\ claimed' = claimed
      /\ mirror' = mirror
  BY DEF SendUnsteered, entry, IInv, TypeOK, EntryOK, MirrorIsOwed
<1>2. RunsOK' /\ TurnOK' /\ VerbOK' /\ HistOK'
  <2>1. spent' \in [DOMAIN Bounds -> Nat]
    BY SpendType, BoundNames DEF SendUnsteered, IInv, TypeOK
  <2>2. RunsOK'
    BY <1>1, ElemsEmpty DEF SendUnsteered, entry, runs, turn, IInv, TypeOK, RunsOK, Places
  <2>3. TurnOK'
    BY <1>1, ElemsEmpty DEF SendUnsteered, entry, runs, turn, IInv, TypeOK, RunsOK, TurnOK
  <2>4. VerbOK'
    BY NoTextAssumption DEF SendUnsteered, IInv, TypeOK, VerbOK
  <2>5. HistOK'
    BY <2>1, <1>1 DEF SendUnsteered, entry, runs, turn, IInv, TypeOK, TurnOK, HistOK, Hands
  <2> QED BY <2>2, <2>3, <2>4, <2>5
<1>3. HoldIsClaimed'
  BY <1>1 DEF SendUnsteered, entry, runs, turn, IInv, TypeOK, RunsOK, HoldIsClaimed, Holding
<1>4. StartedIsRead'
  BY <1>1 DEF SendUnsteered, entry, runs, turn, IInv, TypeOK, RunsOK, StartedIsRead, Read
<1>5. AnnouncedIsRead'
  BY <1>1 DEF SendUnsteered, entry, runs, turn, IInv, TypeOK, TurnOK, AnnouncedIsRead, Read
<1>6. AcceptedIsKept'
  BY <1>1 DEF SendUnsteered, entry, runs, turn, IInv, TypeOK, TurnOK, HistOK, AcceptedIsKept, Said, Read, Hands
<1> QED BY <1>1, <1>2, <1>3, <1>4, <1>5, <1>6 DEF IInv, TypeOK

LEMMA LookAtClaimStep ==
    ASSUME IInv, NEW c \in Caller, LookAtClaim(c)
    PROVE  IInv'
<1>1. /\ EntryOK' /\ MirrorIsOwed' /\ claimed' = claimed
      /\ mirror' = mirror
  BY DEF LookAtClaim, entry, IInv, TypeOK, EntryOK, MirrorIsOwed
<1>2. RunsOK' /\ TurnOK' /\ VerbOK' /\ HistOK'
  <2>2. RunsOK'
    BY <1>1, ElemsEmpty DEF LookAtClaim, entry, runs, turn, hist, IInv, TypeOK, RunsOK, Places
  <2>3. TurnOK'
    BY <1>1, ElemsEmpty DEF LookAtClaim, entry, runs, turn, hist, IInv, TypeOK, RunsOK, TurnOK
  <2>4. VerbOK'
    BY <1>1 DEF LookAtClaim, entry, runs, turn, hist, IInv, TypeOK, VerbOK
  <2>5. HistOK'
    BY <1>1 DEF LookAtClaim, entry, runs, turn, hist, IInv, TypeOK, TurnOK, HistOK, Hands
  <2> QED BY <2>2, <2>3, <2>4, <2>5
<1>3. HoldIsClaimed'
  BY <1>1 DEF LookAtClaim, entry, runs, turn, hist, IInv, TypeOK, RunsOK, HoldIsClaimed, Holding
<1>4. StartedIsRead'
  BY <1>1 DEF LookAtClaim, entry, runs, turn, hist, IInv, TypeOK, RunsOK, StartedIsRead, Read
<1>5. AnnouncedIsRead'
  BY <1>1 DEF LookAtClaim, entry, runs, turn, hist, IInv, TypeOK, TurnOK, AnnouncedIsRead, Read
<1>6. AcceptedIsKept'
  BY <1>1 DEF LookAtClaim, entry, runs, turn, hist, IInv, TypeOK, TurnOK, HistOK, AcceptedIsKept, Said, Read, Hands
<1> QED BY <1>1, <1>2, <1>3, <1>4, <1>5, <1>6 DEF IInv, TypeOK

LEMMA HoldStep ==
    ASSUME IInv, NEW c \in Caller, Hold(c)
    PROVE  IInv'
<1>1. /\ EntryOK' /\ MirrorIsOwed' /\ claimed' = claimed
      /\ Elems(mirror') = Elems(mirror) \cup {words[c]} /\ words[c] \in Text
  <2>1. words[c] \in Text
    BY DEF Hold, IInv, TypeOK, VerbOK
  <2> QED BY <2>1, QueueOwes DEF Hold, IInv, TypeOK
<1>2. RunsOK' /\ TurnOK' /\ VerbOK' /\ HistOK'
  <2>2. RunsOK'
    BY <1>1, ElemsEmpty DEF Hold, runs, turn, Return, Accept, IInv, TypeOK, RunsOK, Places
  <2>3. TurnOK'
    BY <1>1, ElemsEmpty DEF Hold, runs, turn, Return, Accept, IInv, TypeOK, RunsOK, TurnOK
  <2>4. VerbOK'
    BY <1>1 DEF Hold, runs, turn, Return, Accept, IInv, TypeOK, VerbOK
  <2>5. HistOK'
    BY <1>1 DEF Hold, runs, turn, Return, Accept, IInv, TypeOK, TurnOK, HistOK, Hands
  <2> QED BY <2>2, <2>3, <2>4, <2>5
<1>3. HoldIsClaimed'
  BY <1>1 DEF Hold, runs, turn, Return, Accept, IInv, TypeOK, RunsOK, HoldIsClaimed, Holding
<1>4. StartedIsRead'
  BY <1>1 DEF Hold, runs, turn, Return, Accept, IInv, TypeOK, RunsOK, StartedIsRead, Read
<1>5. AnnouncedIsRead'
  BY <1>1 DEF Hold, runs, turn, Return, Accept, IInv, TypeOK, TurnOK, AnnouncedIsRead, Read
<1>6. AcceptedIsKept'
  BY <1>1 DEF Hold, runs, turn, Return, Accept, IInv, TypeOK, TurnOK, HistOK, AcceptedIsKept, Said, Read, Hands
<1> QED BY <1>1, <1>2, <1>3, <1>4, <1>5, <1>6 DEF IInv, TypeOK

LEMMA ParkStep ==
    ASSUME IInv, NEW c \in Caller, Park(c)
    PROVE  IInv'
<1>1. /\ EntryOK' /\ MirrorIsOwed' /\ claimed' = claimed
      /\ Elems(mirror') = Elems(mirror) \cup {words[c]} /\ words[c] \in Text
  <2>1. words[c] \in Text
    BY DEF Park, IInv, TypeOK, VerbOK
  <2> QED BY <2>1, QueueOwes DEF Park, IInv, TypeOK
<1>2. RunsOK' /\ TurnOK' /\ VerbOK' /\ HistOK'
  <2>2. RunsOK'
    BY <1>1, ElemsEmpty DEF Park, runs, turn, Accept, IInv, TypeOK, RunsOK, Places
  <2>3. TurnOK'
    BY <1>1, ElemsEmpty DEF Park, runs, turn, Accept, IInv, TypeOK, RunsOK, TurnOK
  <2>4. VerbOK'
    BY <1>1 DEF Park, runs, turn, Accept, IInv, TypeOK, VerbOK
  <2>5. HistOK'
    BY <1>1 DEF Park, runs, turn, Accept, IInv, TypeOK, TurnOK, HistOK, Hands
  <2> QED BY <2>2, <2>3, <2>4, <2>5
<1>3. HoldIsClaimed'
  BY <1>1 DEF Park, runs, turn, Accept, IInv, TypeOK, RunsOK, HoldIsClaimed, Holding
<1>4. StartedIsRead'
  BY <1>1 DEF Park, runs, turn, Accept, IInv, TypeOK, RunsOK, StartedIsRead, Read
<1>5. AnnouncedIsRead'
  BY <1>1 DEF Park, runs, turn, Accept, IInv, TypeOK, TurnOK, AnnouncedIsRead, Read
<1>6. AcceptedIsKept'
  BY <1>1 DEF Park, runs, turn, Accept, IInv, TypeOK, TurnOK, HistOK, AcceptedIsKept, Said, Read, Hands
<1> QED BY <1>1, <1>2, <1>3, <1>4, <1>5, <1>6 DEF IInv, TypeOK

LEMMA ResumeDeclinedStep ==
    ASSUME IInv, NEW c \in Caller, ResumeDeclined(c)
    PROVE  IInv'
<1>1. /\ EntryOK' /\ MirrorIsOwed' /\ claimed' = claimed
      /\ Elems(mirror') = Elems(mirror)
  BY PeekOwes DEF ResumeDeclined, IInv, TypeOK
<1>2. RunsOK' /\ TurnOK' /\ VerbOK' /\ HistOK'
  <2>2. RunsOK'
    BY <1>1, ElemsEmpty DEF ResumeDeclined, runs, turn, hist, Return, IInv, TypeOK, RunsOK, Places
  <2>3. TurnOK'
    BY <1>1, ElemsEmpty DEF ResumeDeclined, runs, turn, hist, Return, IInv, TypeOK, RunsOK, TurnOK
  <2>4. VerbOK'
    BY <1>1 DEF ResumeDeclined, runs, turn, hist, Return, IInv, TypeOK, VerbOK
  <2>5. HistOK'
    BY <1>1 DEF ResumeDeclined, runs, turn, hist, Return, IInv, TypeOK, TurnOK, HistOK, Hands
  <2> QED BY <2>2, <2>3, <2>4, <2>5
<1>3. HoldIsClaimed'
  BY <1>1 DEF ResumeDeclined, runs, turn, hist, Return, IInv, TypeOK, RunsOK, HoldIsClaimed, Holding
<1>4. StartedIsRead'
  BY <1>1 DEF ResumeDeclined, runs, turn, hist, Return, IInv, TypeOK, RunsOK, StartedIsRead, Read
<1>5. AnnouncedIsRead'
  BY <1>1 DEF ResumeDeclined, runs, turn, hist, Return, IInv, TypeOK, TurnOK, AnnouncedIsRead, Read
<1>6. AcceptedIsKept'
  BY <1>1 DEF ResumeDeclined, runs, turn, hist, Return, IInv, TypeOK, TurnOK, HistOK, AcceptedIsKept, Said, Read, Hands
<1> QED BY <1>1, <1>2, <1>3, <1>4, <1>5, <1>6 DEF IInv, TypeOK

LEMMA ResumeClaimsStep ==
    ASSUME IInv, NEW c \in Caller, NEW r \in Run, NEW k \in Kinds, ResumeClaims(c, r, k)
    PROVE  IInv'
<1>1. /\ EntryOK' /\ MirrorIsOwed' /\ claimed' = claimed
      /\ mirror' = mirror
  BY DEF ResumeClaims, entry, IInv, TypeOK, EntryOK, MirrorIsOwed
<1>2. RunsOK' /\ TurnOK' /\ VerbOK' /\ HistOK'
  <2>1. spent' \in [DOMAIN Bounds -> Nat]
    BY SpendType, BoundNames DEF ResumeClaims, IInv, TypeOK
  <2>2. RunsOK'
    BY <1>1, ElemsEmpty DEF ResumeClaims, To, entry, turn, Return, IInv, TypeOK, RunsOK, Places
  <2>3. TurnOK'
    BY <1>1, ElemsEmpty DEF ResumeClaims, To, entry, turn, Return, IInv, TypeOK, RunsOK, TurnOK
  <2>4. VerbOK'
    BY <1>1 DEF ResumeClaims, To, entry, turn, Return, IInv, TypeOK, VerbOK
  <2>5. HistOK'
    BY <2>1, <1>1 DEF ResumeClaims, To, entry, turn, Return, IInv, TypeOK, TurnOK, HistOK, Hands
  <2> QED BY <2>2, <2>3, <2>4, <2>5
<1>3. HoldIsClaimed'
  BY <1>1, NoRunAssumption DEF ResumeClaims, To, IInv, TypeOK, RunsOK, HoldIsClaimed, Holding
<1>4. StartedIsRead'
  BY <1>1 DEF ResumeClaims, To, entry, turn, Return, IInv, TypeOK, RunsOK, StartedIsRead, Read
<1>5. AnnouncedIsRead'
  BY <1>1 DEF ResumeClaims, To, entry, turn, Return, IInv, TypeOK, TurnOK, AnnouncedIsRead, Read
<1>6. AcceptedIsKept'
  BY <1>1 DEF ResumeClaims, To, entry, turn, Return, IInv, TypeOK, TurnOK, HistOK, AcceptedIsKept, Said, Read, Hands
<1> QED BY <1>1, <1>2, <1>3, <1>4, <1>5, <1>6 DEF IInv, TypeOK

LEMMA ClaimStep ==
    ASSUME IInv, NEW r \in Run, NEW k \in Kinds, Claim(r, k)
    PROVE  IInv'
<1>1. /\ EntryOK' /\ MirrorIsOwed' /\ claimed' = claimed
      /\ mirror' = mirror
  BY DEF Claim, entry, IInv, TypeOK, EntryOK, MirrorIsOwed
<1>2. RunsOK' /\ TurnOK' /\ VerbOK' /\ HistOK'
  <2>1. spent' \in [DOMAIN Bounds -> Nat]
    BY SpendType, BoundNames DEF Claim, IInv, TypeOK
  <2>2. RunsOK'
    BY <1>1, ElemsEmpty DEF Claim, To, entry, turn, verb, IInv, TypeOK, RunsOK, Places
  <2>3. TurnOK'
    BY <1>1, ElemsEmpty DEF Claim, To, entry, turn, verb, IInv, TypeOK, RunsOK, TurnOK
  <2>4. VerbOK'
    BY <1>1 DEF Claim, To, entry, turn, verb, IInv, TypeOK, VerbOK
  <2>5. HistOK'
    BY <2>1, <1>1 DEF Claim, To, entry, turn, verb, IInv, TypeOK, TurnOK, HistOK, Hands
  <2> QED BY <2>2, <2>3, <2>4, <2>5
<1>3. HoldIsClaimed'
  BY <1>1, NoRunAssumption DEF Claim, To, IInv, TypeOK, RunsOK, HoldIsClaimed, Holding
<1>4. StartedIsRead'
  BY <1>1 DEF Claim, To, entry, turn, verb, IInv, TypeOK, RunsOK, StartedIsRead, Read
<1>5. AnnouncedIsRead'
  BY <1>1 DEF Claim, To, entry, turn, verb, IInv, TypeOK, TurnOK, AnnouncedIsRead, Read
<1>6. AcceptedIsKept'
  BY <1>1 DEF Claim, To, entry, turn, verb, IInv, TypeOK, TurnOK, HistOK, AcceptedIsKept, Said, Read, Hands
<1> QED BY <1>1, <1>2, <1>3, <1>4, <1>5, <1>6 DEF IInv, TypeOK

LEMMA BeginRunStep ==
    ASSUME IInv, NEW r \in Run, BeginRun(r)
    PROVE  IInv'
<1>1. /\ EntryOK' /\ MirrorIsOwed' /\ claimed' = Waiting
      /\ Elems(mirror') = Elems(mirror) /\ Waiting \in Seq(Text)
  <2>1. \A q \in Run : pc[q] \notin Holding
    BY DEF BeginRun, IInv, HoldIsClaimed, Holding
  <2>2. claimed = <<>>
    BY <2>1 DEF IInv, HoldIsClaimed
  <2> DEFINE s == IF kind[r] = "routed" THEN NoRun ELSE r
  <2>3. s \in Run \cup {NoRun} /\ Begin(s)
    BY DEF BeginRun
  <2> HIDE DEF s
  <2> QED BY <2>2, <2>3, BeginOwes, Owed DEF IInv, TypeOK
<1>2. RunsOK' /\ TurnOK' /\ VerbOK' /\ HistOK'
  <2>2. RunsOK'
    BY <1>1, ElemsEmpty DEF BeginRun, To, turn, verb, hist, IInv, TypeOK, RunsOK, Places
  <2>3. TurnOK'
    BY <1>1, ElemsEmpty DEF BeginRun, To, turn, verb, hist, IInv, TypeOK, RunsOK, TurnOK
  <2>4. VerbOK'
    BY <1>1 DEF BeginRun, To, turn, verb, hist, IInv, TypeOK, VerbOK
  <2>5. HistOK'
    BY <1>1 DEF BeginRun, To, turn, verb, hist, IInv, TypeOK, TurnOK, HistOK, Hands
  <2> QED BY <2>2, <2>3, <2>4, <2>5
<1>3. HoldIsClaimed'
  BY <1>1 DEF BeginRun, To, turn, verb, hist, IInv, TypeOK, RunsOK, HoldIsClaimed, Holding
<1>4. StartedIsRead'
  BY <1>1 DEF BeginRun, To, turn, verb, hist, IInv, TypeOK, RunsOK, StartedIsRead, Read
<1>5. AnnouncedIsRead'
  BY <1>1 DEF BeginRun, To, turn, verb, hist, IInv, TypeOK, TurnOK, AnnouncedIsRead, Read
<1>6. AcceptedIsKept'
  BY <1>1 DEF BeginRun, To, turn, verb, hist, IInv, TypeOK, TurnOK, HistOK, AcceptedIsKept, Said, Read, Hands
<1> QED BY <1>1, <1>2, <1>3, <1>4, <1>5, <1>6 DEF IInv, TypeOK

LEMMA UnclaimStep ==
    ASSUME IInv, NEW r \in Run, Unclaim(r)
    PROVE  IInv'
<1>1. /\ EntryOK' /\ MirrorIsOwed' /\ claimed' = claimed
      /\ mirror' = mirror
  BY DEF Unclaim, entry, IInv, TypeOK, EntryOK, MirrorIsOwed
<1>2. RunsOK' /\ TurnOK' /\ VerbOK' /\ HistOK'
  <2>2. RunsOK'
    BY ElemsEmpty DEF Unclaim, To, IInv, TypeOK, RunsOK, Places, Kinds
  <2>3. TurnOK'
    BY <1>1, ElemsEmpty DEF Unclaim, To, entry, turn, verb, hist, IInv, TypeOK, RunsOK, TurnOK
  <2>4. VerbOK'
    BY <1>1 DEF Unclaim, To, entry, turn, verb, hist, IInv, TypeOK, VerbOK
  <2>5. HistOK'
    BY <1>1 DEF Unclaim, To, entry, turn, verb, hist, IInv, TypeOK, TurnOK, HistOK, Hands
  <2> QED BY <2>2, <2>3, <2>4, <2>5
<1>3. HoldIsClaimed'
  BY <1>1 DEF Unclaim, To, entry, turn, verb, hist, IInv, TypeOK, RunsOK, HoldIsClaimed, Holding
<1>4. StartedIsRead'
  BY <1>1 DEF Unclaim, To, entry, turn, verb, hist, IInv, TypeOK, RunsOK, StartedIsRead, Read
<1>5. AnnouncedIsRead'
  BY <1>1 DEF Unclaim, To, entry, turn, verb, hist, IInv, TypeOK, TurnOK, AnnouncedIsRead, Read
<1>6. AcceptedIsKept'
  BY <1>1 DEF Unclaim, To, entry, turn, verb, hist, IInv, TypeOK, TurnOK, HistOK, AcceptedIsKept, Said, Read, Hands
<1> QED BY <1>1, <1>2, <1>3, <1>4, <1>5, <1>6 DEF IInv, TypeOK

LEMMA StartedStep ==
    ASSUME IInv, NEW r \in Run, Started(r)
    PROVE  IInv'
<1>1. /\ EntryOK' /\ MirrorIsOwed' /\ claimed' = <<>>
      /\ Elems(mirror) = Elems(mirror') \cup Elems(claimed)
  BY CommittedOwes DEF Started, IInv, TypeOK
<1>2. RunsOK' /\ TurnOK' /\ VerbOK' /\ HistOK'
  <2>2. RunsOK'
    BY <1>1, ElemsEmpty DEF Started, To, turn, verb, IInv, TypeOK, RunsOK, Places
  <2>3. TurnOK'
    BY <1>1, ElemsEmpty DEF Started, To, turn, verb, IInv, TypeOK, RunsOK, TurnOK
  <2>4. VerbOK'
    BY <1>1 DEF Started, To, turn, verb, IInv, TypeOK, VerbOK
  <2>5. HistOK'
    <3>1. Elems(queued[r]) \subseteq Text
      BY ElemsType DEF IInv, TypeOK, RunsOK
    <3> QED BY <3>1 DEF Started, IInv, TypeOK, HistOK
  <2> QED BY <2>2, <2>3, <2>4, <2>5
<1>3. HoldIsClaimed'
  BY <1>1 DEF Started, To, turn, verb, IInv, TypeOK, RunsOK, HoldIsClaimed, Holding
<1>4. StartedIsRead'
  BY <1>1 DEF Started, To, turn, verb, IInv, TypeOK, RunsOK, StartedIsRead, Read
<1>5. AnnouncedIsRead'
  BY <1>1 DEF Started, To, turn, verb, IInv, TypeOK, TurnOK, AnnouncedIsRead, Read
<1>6. AcceptedIsKept'
  <2>1. claimed = queued[r]
    BY DEF Started, IInv, HoldIsClaimed, Holding
  <2>2. Elems(claimed) \subseteq Read \cup forgotten'
    BY <2>1 DEF Started, IInv, StartedIsRead
  <2>3. Said' = Said /\ Read' = Read /\ Hands' = Hands /\ forgotten \subseteq forgotten'
    BY DEF Started, turn, Said, Read, Hands
  <2> QED BY <1>1, <2>2, <2>3 DEF IInv, AcceptedIsKept
<1> QED BY <1>1, <1>2, <1>3, <1>4, <1>5, <1>6 DEF IInv, TypeOK

LEMMA ReleaseStep ==
    ASSUME IInv, NEW r \in Run, Release(r)
    PROVE  IInv'
<1>1. /\ EntryOK' /\ MirrorIsOwed' /\ claimed' = <<>>
      /\ Elems(mirror) \subseteq Elems(mirror')
  <2>1. queued[r] \in Seq(Text) /\ Elems(claimed) \subseteq Elems(queued[r])
    <3>1. CASE pc[r] \in Holding
      BY <3>1 DEF IInv, TypeOK, RunsOK, HoldIsClaimed
    <3>2. CASE pc[r] = "settled"
      <4>1. \A q \in Run : pc[q] \notin Holding
        BY <3>2 DEF IInv, HoldIsClaimed, Holding
      <4> QED BY <4>1, ElemsEmpty DEF IInv, TypeOK, RunsOK, HoldIsClaimed
    <3> QED BY <3>1, <3>2 DEF Release, Holding
  <2> QED BY <2>1, EndOwes DEF Release, IInv, TypeOK
<1>2. RunsOK' /\ TurnOK' /\ VerbOK' /\ HistOK'
  <2>2. RunsOK'
    BY <1>1, ElemsEmpty DEF Release, Idle, To, verb, hist, IInv, TypeOK, RunsOK, Places
  <2>3. TurnOK'
    BY <1>1, ElemsEmpty DEF Release, Idle, To, verb, hist, IInv, TypeOK, RunsOK, TurnOK
  <2>4. VerbOK'
    BY <1>1 DEF Release, Idle, To, verb, hist, IInv, TypeOK, VerbOK
  <2>5. HistOK'
    BY <1>1 DEF Release, Idle, To, verb, hist, IInv, TypeOK, TurnOK, HistOK, Hands
  <2> QED BY <2>2, <2>3, <2>4, <2>5
<1>3. HoldIsClaimed'
  BY <1>1 DEF Release, Idle, To, verb, hist, IInv, TypeOK, RunsOK, HoldIsClaimed, Holding
<1>4. StartedIsRead'
  BY <1>1 DEF Release, Idle, To, verb, hist, IInv, TypeOK, RunsOK, StartedIsRead, Read
<1>5. AnnouncedIsRead'
  BY <1>1 DEF Release, Idle, To, verb, hist, IInv, TypeOK, TurnOK, AnnouncedIsRead, Read
<1>6. AcceptedIsKept'
  BY <1>1 DEF Release, Idle, To, verb, hist, IInv, TypeOK, TurnOK, HistOK, AcceptedIsKept, Said, Read, Hands
<1> QED BY <1>1, <1>2, <1>3, <1>4, <1>5, <1>6 DEF IInv, TypeOK

LEMMA AbandonStep ==
    ASSUME IInv, NEW r \in Run, Abandon(r)
    PROVE  IInv'
<1>1. /\ EntryOK' /\ MirrorIsOwed' /\ claimed' = claimed
      /\ mirror' = mirror
  BY DEF Abandon, entry, IInv, TypeOK, EntryOK, MirrorIsOwed
<1>2. RunsOK' /\ TurnOK' /\ VerbOK' /\ HistOK'
  <2>2. RunsOK'
    BY <1>1, ElemsEmpty DEF Abandon, Idle, To, entry, verb, IInv, TypeOK, RunsOK, Places
  <2>3. TurnOK'
    BY <1>1, ElemsEmpty DEF Abandon, Idle, To, entry, verb, IInv, TypeOK, RunsOK, TurnOK
  <2>4. VerbOK'
    BY <1>1 DEF Abandon, Idle, To, entry, verb, IInv, TypeOK, VerbOK
  <2>5. HistOK'
    BY <1>1 DEF Abandon, Idle, To, entry, verb, IInv, TypeOK, TurnOK, HistOK, Hands
  <2> QED BY <2>2, <2>3, <2>4, <2>5
<1>3. HoldIsClaimed'
  BY <1>1 DEF Abandon, Idle, To, entry, verb, IInv, TypeOK, RunsOK, HoldIsClaimed, Holding
<1>4. StartedIsRead'
  BY <1>1 DEF Abandon, Idle, To, entry, verb, IInv, TypeOK, RunsOK, StartedIsRead, Read
<1>5. AnnouncedIsRead'
  BY ElemsEmpty DEF Abandon, Idle, IInv, TypeOK, TurnOK, AnnouncedIsRead, Read
<1>6. AcceptedIsKept'
  BY <1>1 DEF Abandon, Idle, To, entry, verb, IInv, TypeOK, TurnOK, HistOK, AcceptedIsKept, Said, Read, Hands
<1> QED BY <1>1, <1>2, <1>3, <1>4, <1>5, <1>6 DEF IInv, TypeOK

LEMMA StartTurnStep ==
    ASSUME IInv, NEW r \in Run, StartTurn(r)
    PROVE  IInv'
<1>1. /\ EntryOK' /\ MirrorIsOwed' /\ claimed' = claimed
      /\ mirror' = mirror
  BY DEF StartTurn, entry, IInv, TypeOK, EntryOK, MirrorIsOwed
<1>2. RunsOK' /\ TurnOK' /\ VerbOK' /\ HistOK'
  <2>2. RunsOK'
    BY <1>1, ElemsEmpty DEF StartTurn, To, entry, turn, verb, hist, IInv, TypeOK, RunsOK, Places
  <2>3. TurnOK'
    BY <1>1, ElemsEmpty DEF StartTurn, To, entry, turn, verb, hist, IInv, TypeOK, RunsOK, TurnOK
  <2>4. VerbOK'
    BY <1>1 DEF StartTurn, To, entry, turn, verb, hist, IInv, TypeOK, VerbOK
  <2>5. HistOK'
    <3>1. queued[r] \in Seq(Text) /\ reads \in [Text -> Nat]
      BY DEF IInv, TypeOK, RunsOK, HistOK
    <3>2. \A t \in Text :
             Cardinality({i \in DOMAIN queued[r] : queued[r][i] = t}) \in Nat
      BY <3>1, NType DEF N
    <3>3. reads' \in [Text -> Nat]
      BY <3>1, <3>2 DEF StartTurn
    <3> QED BY <3>3 DEF StartTurn, hist, IInv, TypeOK, HistOK
  <2> QED BY <2>2, <2>3, <2>4, <2>5
<1>0. Read \subseteq Read' /\ Elems(queued[r]) \subseteq Read'
  <2>1. queued[r] \in Seq(Text)
    BY DEF IInv, TypeOK, RunsOK
  <2>2. \A t \in Text : reads[t] \in Nat
    BY DEF IInv, TypeOK, HistOK
  <2>3. \A t \in Text : LET n == Cardinality({i \in DOMAIN queued[r] : queued[r][i] = t})
                         IN  n \in Nat /\ (t \in Elems(queued[r]) => n > 0)
    <3>1. \A t \in Text : N(queued[r], t) \in Nat /\ (t \in Elems(queued[r]) => N(queued[r], t) # 0)
      BY <2>1, NType
    <3>2. \A n \in Nat : n # 0 => n > 0
      OBVIOUS
    <3> QED BY <3>1, <3>2 DEF N
  <2>4. Elems(queued[r]) \subseteq Text
    BY <2>1, ElemsType
  <2> QED BY <2>2, <2>3, <2>4 DEF StartTurn, Read
<1>3. HoldIsClaimed'
  BY <1>1 DEF StartTurn, To, entry, turn, verb, hist, IInv, TypeOK, RunsOK, HoldIsClaimed, Holding
<1>4. StartedIsRead'
  BY <1>0 DEF StartTurn, To, IInv, TypeOK, RunsOK, StartedIsRead
<1>5. AnnouncedIsRead'
  BY <1>0 DEF StartTurn, turn, hist, IInv, AnnouncedIsRead
<1>6. AcceptedIsKept'
  BY <1>0, <1>1 DEF StartTurn, turn, hist, IInv, AcceptedIsKept, Said, Hands
<1> QED BY <1>1, <1>2, <1>3, <1>4, <1>5, <1>6 DEF IInv, TypeOK

LEMMA NeverStartStep ==
    ASSUME IInv, NEW r \in Run, NeverStart(r)
    PROVE  IInv'
<1>1. /\ EntryOK' /\ MirrorIsOwed' /\ claimed' = claimed
      /\ mirror' = mirror
  BY DEF NeverStart, entry, IInv, TypeOK, EntryOK, MirrorIsOwed
<1>2. RunsOK' /\ TurnOK' /\ VerbOK' /\ HistOK'
  <2>2. RunsOK'
    BY <1>1, ElemsEmpty DEF NeverStart, Idle, To, entry, verb, hist, IInv, TypeOK, RunsOK, Places
  <2>3. TurnOK'
    BY <1>1, ElemsEmpty DEF NeverStart, Idle, To, entry, verb, hist, IInv, TypeOK, RunsOK, TurnOK
  <2>4. VerbOK'
    BY <1>1 DEF NeverStart, Idle, To, entry, verb, hist, IInv, TypeOK, VerbOK
  <2>5. HistOK'
    BY <1>1 DEF NeverStart, Idle, To, entry, verb, hist, IInv, TypeOK, TurnOK, HistOK, Hands
  <2> QED BY <2>2, <2>3, <2>4, <2>5
<1>3. HoldIsClaimed'
  BY <1>1 DEF NeverStart, Idle, To, entry, verb, hist, IInv, TypeOK, RunsOK, HoldIsClaimed, Holding
<1>4. StartedIsRead'
  BY <1>1 DEF NeverStart, Idle, To, entry, verb, hist, IInv, TypeOK, RunsOK, StartedIsRead, Read
<1>5. AnnouncedIsRead'
  BY <1>1 DEF NeverStart, Idle, To, entry, verb, hist, IInv, TypeOK, TurnOK, AnnouncedIsRead, Read
<1>6. AcceptedIsKept'
  BY <1>1 DEF NeverStart, Idle, To, entry, verb, hist, IInv, TypeOK, TurnOK, HistOK, AcceptedIsKept, Said, Read, Hands
<1> QED BY <1>1, <1>2, <1>3, <1>4, <1>5, <1>6 DEF IInv, TypeOK

LEMMA NeverStartCutStep ==
    ASSUME IInv, NEW r \in Run, NeverStartCut(r)
    PROVE  IInv'
<1>1. /\ EntryOK' /\ MirrorIsOwed' /\ claimed' = claimed
      /\ mirror' = mirror
  BY DEF NeverStartCut, entry, IInv, TypeOK, EntryOK, MirrorIsOwed
<1>2. RunsOK' /\ TurnOK' /\ VerbOK' /\ HistOK'
  <2>1. spent' \in [DOMAIN Bounds -> Nat]
    BY SpendType, BoundNames DEF NeverStartCut, IInv, TypeOK
  <2>2. RunsOK'
    BY <1>1, ElemsEmpty DEF NeverStartCut, Idle, To, entry, verb, IInv, TypeOK, RunsOK, Places
  <2>3. TurnOK'
    BY <1>1, ElemsEmpty DEF NeverStartCut, Idle, To, entry, verb, IInv, TypeOK, RunsOK, TurnOK
  <2>4. VerbOK'
    BY <1>1 DEF NeverStartCut, Idle, To, entry, verb, IInv, TypeOK, VerbOK
  <2>5. HistOK'
    BY <2>1, <1>1 DEF NeverStartCut, Idle, To, entry, verb, IInv, TypeOK, TurnOK, HistOK, Hands
  <2> QED BY <2>2, <2>3, <2>4, <2>5
<1>3. HoldIsClaimed'
  BY <1>1 DEF NeverStartCut, Idle, To, entry, verb, IInv, TypeOK, RunsOK, HoldIsClaimed, Holding
<1>4. StartedIsRead'
  BY <1>1 DEF NeverStartCut, Idle, To, entry, verb, IInv, TypeOK, RunsOK, StartedIsRead, Read
<1>5. AnnouncedIsRead'
  BY <1>1 DEF NeverStartCut, Idle, To, entry, verb, IInv, TypeOK, TurnOK, AnnouncedIsRead, Read
<1>6. AcceptedIsKept'
  BY <1>1 DEF NeverStartCut, Idle, To, entry, verb, IInv, TypeOK, TurnOK, HistOK, AcceptedIsKept, Said, Read, Hands
<1> QED BY <1>1, <1>2, <1>3, <1>4, <1>5, <1>6 DEF IInv, TypeOK

LEMMA DrainStep ==
    ASSUME IInv, NEW r \in Run, Drain(r)
    PROVE  IInv'
<1>1. /\ EntryOK' /\ MirrorIsOwed' /\ claimed' = claimed
      /\ mirror' = mirror
  BY DEF Drain, entry, IInv, TypeOK, EntryOK, MirrorIsOwed
<1>2. RunsOK' /\ TurnOK' /\ VerbOK' /\ HistOK'
  <2>2. RunsOK'
    BY <1>1, ElemsEmpty DEF Drain, entry, runs, verb, hist, IInv, TypeOK, RunsOK, Places
  <2>3. TurnOK'
    BY <1>1, ElemsEmpty DEF Drain, entry, runs, verb, hist, IInv, TypeOK, RunsOK, TurnOK
  <2>4. VerbOK'
    BY <1>1 DEF Drain, entry, runs, verb, hist, IInv, TypeOK, VerbOK
  <2>5. HistOK'
    BY <1>1 DEF Drain, entry, runs, verb, hist, IInv, TypeOK, TurnOK, HistOK, Hands
  <2> QED BY <2>2, <2>3, <2>4, <2>5
<1>3. HoldIsClaimed'
  BY <1>1 DEF Drain, entry, runs, verb, hist, IInv, TypeOK, RunsOK, HoldIsClaimed, Holding
<1>4. StartedIsRead'
  BY <1>1 DEF Drain, entry, runs, verb, hist, IInv, TypeOK, RunsOK, StartedIsRead, Read
<1>5. AnnouncedIsRead'
  BY <1>1 DEF Drain, entry, runs, verb, hist, IInv, TypeOK, TurnOK, AnnouncedIsRead, Read
<1>6. AcceptedIsKept'
  BY <1>1 DEF Drain, entry, runs, verb, hist, IInv, TypeOK, TurnOK, HistOK, AcceptedIsKept, Said, Read, Hands
<1> QED BY <1>1, <1>2, <1>3, <1>4, <1>5, <1>6 DEF IInv, TypeOK

LEMMA AnnounceStep ==
    ASSUME IInv, NEW r \in Run, Announce(r)
    PROVE  IInv'
<1>1. /\ EntryOK' /\ MirrorIsOwed' /\ claimed' = claimed
      /\ mirror' = mirror
  BY DEF Announce, entry, IInv, TypeOK, EntryOK, MirrorIsOwed
<1>2. RunsOK' /\ TurnOK' /\ VerbOK' /\ HistOK'
  <2>2. RunsOK'
    BY <1>1, ElemsEmpty DEF Announce, entry, runs, verb, hist, IInv, TypeOK, RunsOK, Places
  <2>3. TurnOK'
    BY <1>1, ElemsEmpty DEF Announce, entry, runs, verb, hist, IInv, TypeOK, RunsOK, TurnOK
  <2>4. VerbOK'
    BY <1>1 DEF Announce, entry, runs, verb, hist, IInv, TypeOK, VerbOK
  <2>5. HistOK'
    BY <1>1 DEF Announce, entry, runs, verb, hist, IInv, TypeOK, TurnOK, HistOK, Hands
  <2> QED BY <2>2, <2>3, <2>4, <2>5
<1>3. HoldIsClaimed'
  BY <1>1 DEF Announce, entry, runs, verb, hist, IInv, TypeOK, RunsOK, HoldIsClaimed, Holding
<1>4. StartedIsRead'
  BY <1>1 DEF Announce, entry, runs, verb, hist, IInv, TypeOK, RunsOK, StartedIsRead, Read
<1>5. AnnouncedIsRead'
  <2>1. /\ events[r] \in Seq(Text) /\ drained[r] \in Seq(Text) /\ drained[r] # <<>>
        /\ hand[r] = NoText
    BY DEF Announce, IInv, TypeOK, TurnOK
  <2>2. Head(drained[r]) \in Text
    BY <2>1, ElemsHeadTail
  <2>3. Elems(events'[r]) = Elems(events[r]) \cup {Head(drained[r])}
    BY <2>1, <2>2, ElemsAppend DEF Announce, IInv, TypeOK, TurnOK
  <2>4. Elems(events[r]) \subseteq Text
    BY <2>1, ElemsType
  <2>5. hand'[r] = Head(drained[r]) /\ UNCHANGED <<reads, forgotten>>
    BY DEF Announce, hist, IInv, TypeOK, TurnOK
  <2>6. \A q \in Run \ {r} : UNCHANGED <<events[q], hand[q]>>
    BY DEF Announce, IInv, TypeOK, TurnOK
  <2> QED BY <2>1, <2>3, <2>4, <2>5, <2>6, NoTextAssumption
          DEF IInv, AnnouncedIsRead, Read
<1>6. AcceptedIsKept'
  BY <1>1 DEF Announce, entry, runs, verb, hist, IInv, TypeOK, TurnOK, HistOK, AcceptedIsKept, Said, Read, Hands
<1> QED BY <1>1, <1>2, <1>3, <1>4, <1>5, <1>6 DEF IInv, TypeOK

LEMMA AppendSteerStep ==
    ASSUME IInv, NEW r \in Run, AppendSteer(r)
    PROVE  IInv'
<1>1. /\ EntryOK' /\ MirrorIsOwed' /\ claimed' = claimed
      /\ mirror' = mirror
  BY DEF AppendSteer, entry, IInv, TypeOK, EntryOK, MirrorIsOwed
<1>2. RunsOK' /\ TurnOK' /\ VerbOK' /\ HistOK'
  <2>2. RunsOK'
    BY <1>1, ElemsEmpty DEF AppendSteer, entry, runs, verb, hist, IInv, TypeOK, RunsOK, Places
  <2>3. TurnOK'
    BY <1>1, ElemsEmpty DEF AppendSteer, entry, runs, verb, hist, IInv, TypeOK, RunsOK, TurnOK
  <2>4. VerbOK'
    BY <1>1 DEF AppendSteer, entry, runs, verb, hist, IInv, TypeOK, VerbOK
  <2>5. HistOK'
    BY <1>1 DEF AppendSteer, entry, runs, verb, hist, IInv, TypeOK, TurnOK, HistOK, Hands
  <2> QED BY <2>2, <2>3, <2>4, <2>5
<1>0. Read' = Read \cup {hand[r]}
  <2>1. hand[r] \in Text /\ reads \in [Text -> Nat]
    BY DEF AppendSteer, IInv, TypeOK, TurnOK, HistOK
  <2> QED BY <2>1 DEF AppendSteer, Read
<1>3. HoldIsClaimed'
  BY <1>1 DEF AppendSteer, entry, runs, verb, hist, IInv, TypeOK, RunsOK, HoldIsClaimed, Holding
<1>4. StartedIsRead'
  BY <1>0 DEF AppendSteer, runs, IInv, StartedIsRead
<1>5. AnnouncedIsRead'
  BY <1>0 DEF AppendSteer, hist, IInv, TypeOK, TurnOK, AnnouncedIsRead
<1>6. AcceptedIsKept'
  BY <1>1 DEF AppendSteer, entry, runs, verb, hist, IInv, TypeOK, TurnOK, HistOK, AcceptedIsKept, Said, Read, Hands
<1> QED BY <1>1, <1>2, <1>3, <1>4, <1>5, <1>6 DEF IInv, TypeOK

LEMMA AppendSteerFailsStep ==
    ASSUME IInv, NEW r \in Run, AppendSteerFails(r)
    PROVE  IInv'
<1>1. /\ EntryOK' /\ MirrorIsOwed' /\ claimed' = claimed
      /\ mirror' = mirror
  BY DEF AppendSteerFails, entry, IInv, TypeOK, EntryOK, MirrorIsOwed
<1>2. RunsOK' /\ TurnOK' /\ VerbOK' /\ HistOK'
  <2>1. spent' \in [DOMAIN Bounds -> Nat]
    BY SpendType, BoundNames DEF AppendSteerFails, IInv, TypeOK
  <2>2. RunsOK'
    BY <1>1, ElemsEmpty DEF AppendSteerFails, Idle, To, entry, verb, IInv, TypeOK, RunsOK, Places
  <2>3. TurnOK'
    BY <1>1, ElemsEmpty DEF AppendSteerFails, Idle, To, entry, verb, IInv, TypeOK, RunsOK, TurnOK
  <2>4. VerbOK'
    BY <1>1 DEF AppendSteerFails, Idle, To, entry, verb, IInv, TypeOK, VerbOK
  <2>5. HistOK'
    BY <2>1, <1>1 DEF AppendSteerFails, Idle, To, entry, verb, IInv, TypeOK, TurnOK, HistOK, Hands
  <2> QED BY <2>2, <2>3, <2>4, <2>5
<1>0. pc[r] = "running"
  BY DEF AppendSteerFails, IInv, TypeOK, TurnOK
<1>3. HoldIsClaimed'
  BY <1>0, <1>1 DEF AppendSteerFails, To, IInv, TypeOK, RunsOK, HoldIsClaimed, Holding
<1>4. StartedIsRead'
  BY <1>0 DEF AppendSteerFails, To, IInv, TypeOK, RunsOK, StartedIsRead, Read
<1>5. AnnouncedIsRead'
  BY <1>1 DEF AppendSteerFails, Idle, To, entry, verb, IInv, TypeOK, TurnOK, AnnouncedIsRead, Read
<1>6. AcceptedIsKept'
  BY <1>1 DEF AppendSteerFails, Idle, To, entry, verb, IInv, TypeOK, TurnOK, HistOK, AcceptedIsKept, Said, Read, Hands
<1> QED BY <1>1, <1>2, <1>3, <1>4, <1>5, <1>6 DEF IInv, TypeOK

LEMMA EndTurnStep ==
    ASSUME IInv, NEW r \in Run, EndTurn(r)
    PROVE  IInv'
<1>1. /\ EntryOK' /\ MirrorIsOwed' /\ claimed' = claimed
      /\ mirror' = mirror
  BY DEF EndTurn, entry, IInv, TypeOK, EntryOK, MirrorIsOwed
<1>2. RunsOK' /\ TurnOK' /\ VerbOK' /\ HistOK'
  <2>2. RunsOK'
    BY <1>1, ElemsEmpty DEF EndTurn, Idle, To, entry, verb, hist, IInv, TypeOK, RunsOK, Places
  <2>3. TurnOK'
    BY <1>1, ElemsEmpty DEF EndTurn, Idle, To, entry, verb, hist, IInv, TypeOK, RunsOK, TurnOK
  <2>4. VerbOK'
    BY <1>1 DEF EndTurn, Idle, To, entry, verb, hist, IInv, TypeOK, VerbOK
  <2>5. HistOK'
    BY <1>1 DEF EndTurn, Idle, To, entry, verb, hist, IInv, TypeOK, TurnOK, HistOK, Hands
  <2> QED BY <2>2, <2>3, <2>4, <2>5
<1>3. HoldIsClaimed'
  BY <1>1 DEF EndTurn, Idle, To, entry, verb, hist, IInv, TypeOK, RunsOK, HoldIsClaimed, Holding
<1>4. StartedIsRead'
  BY <1>1 DEF EndTurn, Idle, To, entry, verb, hist, IInv, TypeOK, RunsOK, StartedIsRead, Read
<1>5. AnnouncedIsRead'
  BY <1>1 DEF EndTurn, Idle, To, entry, verb, hist, IInv, TypeOK, TurnOK, AnnouncedIsRead, Read
<1>6. AcceptedIsKept'
  BY <1>1 DEF EndTurn, Idle, To, entry, verb, hist, IInv, TypeOK, TurnOK, HistOK, AcceptedIsKept, Said, Read, Hands
<1> QED BY <1>1, <1>2, <1>3, <1>4, <1>5, <1>6 DEF IInv, TypeOK

LEMMA PublishStep ==
    ASSUME IInv, NEW r \in Run, Publish(r)
    PROVE  IInv'
<1>0. /\ Head(events[r]) \in Text /\ Head(events[r]) \in Elems(events[r])
      /\ Tail(events[r]) \in Seq(Text) /\ Elems(Tail(events[r])) \subseteq Elems(events[r])
  BY ElemsHeadTail DEF Publish, IInv, TypeOK, TurnOK
<1>1. /\ EntryOK' /\ MirrorIsOwed' /\ claimed' = claimed
      /\ Elems(mirror) \subseteq Elems(mirror') \cup {Head(events[r])}
  BY <1>0, DeliveredOwes DEF Publish, IInv, TypeOK
<1>2. RunsOK' /\ TurnOK' /\ VerbOK' /\ HistOK'
  <2>2. RunsOK'
    BY <1>1, ElemsEmpty DEF Publish, runs, verb, hist, IInv, TypeOK, RunsOK, Places
  <2>3. TurnOK'
    BY <1>1, ElemsEmpty DEF Publish, runs, verb, hist, IInv, TypeOK, RunsOK, TurnOK
  <2>4. VerbOK'
    BY <1>1 DEF Publish, runs, verb, hist, IInv, TypeOK, VerbOK
  <2>5. HistOK'
    BY <1>1 DEF Publish, runs, verb, hist, IInv, TypeOK, TurnOK, HistOK, Hands
  <2> QED BY <2>2, <2>3, <2>4, <2>5
<1>3. HoldIsClaimed'
  BY <1>1 DEF Publish, runs, verb, hist, IInv, TypeOK, RunsOK, HoldIsClaimed, Holding
<1>4. StartedIsRead'
  BY <1>1 DEF Publish, runs, verb, hist, IInv, TypeOK, RunsOK, StartedIsRead, Read
<1>5. AnnouncedIsRead'
  BY <1>0 DEF Publish, IInv, TypeOK, TurnOK, AnnouncedIsRead, Read, hist
<1>6. AcceptedIsKept'
  <2>1. Head(events[r]) \in Read \cup Hands \cup forgotten
    BY <1>0, NoTextAssumption DEF IInv, AnnouncedIsRead, Hands
  <2>2. Said' = Said /\ Read' = Read /\ Hands' = Hands /\ forgotten' = forgotten
    BY DEF Publish, hist, Said, Read, Hands
  <2> QED BY <1>1, <2>1, <2>2 DEF IInv, AcceptedIsKept
<1> QED BY <1>1, <1>2, <1>3, <1>4, <1>5, <1>6 DEF IInv, TypeOK

LEMMA RouteSteeredStep ==
    ASSUME IInv, NEW t \in Text, RouteSteered(t)
    PROVE  IInv'
<1>1. /\ EntryOK' /\ MirrorIsOwed' /\ claimed' = claimed
      /\ Elems(mirror') = Elems(mirror) \cup {t}
  BY SteerOwes DEF RouteSteered, Steerable, IInv, TypeOK
<1>2. RunsOK' /\ TurnOK' /\ VerbOK' /\ HistOK'
  <2>1. spent' \in [DOMAIN Bounds -> Nat]
    BY SpendType, BoundNames DEF RouteSteered, IInv, TypeOK
  <2>2. RunsOK'
    BY <1>1, ElemsEmpty DEF RouteSteered, runs, verb, Accept, Steer, Steerable, IInv, TypeOK, RunsOK, Places
  <2>3. TurnOK'
    <3>1. sender \in Run /\ chan[sender] \in Seq(Text)
      BY DEF RouteSteered, Steerable, IInv, TypeOK, EntryOK, TurnOK
    <3>2. Append(chan[sender], t) \in Seq(Text)
      BY <3>1, ElemsAppend
    <3> QED BY <3>1, <3>2 DEF RouteSteered, Steer, runs, IInv, TypeOK, TurnOK
  <2>4. VerbOK'
    BY <1>1 DEF RouteSteered, runs, verb, Accept, Steer, Steerable, IInv, TypeOK, VerbOK
  <2>5. HistOK'
    BY <2>1, <1>1 DEF RouteSteered, runs, verb, Accept, Steer, Steerable, IInv, TypeOK, TurnOK, HistOK, Hands
  <2> QED BY <2>2, <2>3, <2>4, <2>5
<1>3. HoldIsClaimed'
  BY <1>1 DEF RouteSteered, runs, verb, Accept, Steer, Steerable, IInv, TypeOK, RunsOK, HoldIsClaimed, Holding
<1>4. StartedIsRead'
  BY <1>1 DEF RouteSteered, runs, verb, Accept, Steer, Steerable, IInv, TypeOK, RunsOK, StartedIsRead, Read
<1>5. AnnouncedIsRead'
  BY <1>1 DEF RouteSteered, runs, verb, Accept, Steer, Steerable, IInv, TypeOK, TurnOK, AnnouncedIsRead, Read
<1>6. AcceptedIsKept'
  BY <1>1 DEF RouteSteered, runs, verb, Accept, Steer, Steerable, IInv, TypeOK, TurnOK, HistOK, AcceptedIsKept, Said, Read, Hands
<1> QED BY <1>1, <1>2, <1>3, <1>4, <1>5, <1>6 DEF IInv, TypeOK

LEMMA CountStep ==
    ASSUME IInv, Count
    PROVE  IInv'
<1>1. /\ EntryOK' /\ MirrorIsOwed' /\ claimed' = claimed
      /\ Elems(mirror') = Elems(mirror)
  BY PeekOwes DEF Count, IInv, TypeOK
<1>2. RunsOK' /\ TurnOK' /\ VerbOK' /\ HistOK'
  <2>2. RunsOK'
    BY <1>1, ElemsEmpty DEF Count, runs, turn, verb, hist, IInv, TypeOK, RunsOK, Places
  <2>3. TurnOK'
    BY <1>1, ElemsEmpty DEF Count, runs, turn, verb, hist, IInv, TypeOK, RunsOK, TurnOK
  <2>4. VerbOK'
    BY <1>1 DEF Count, runs, turn, verb, hist, IInv, TypeOK, VerbOK
  <2>5. HistOK'
    BY <1>1 DEF Count, runs, turn, verb, hist, IInv, TypeOK, TurnOK, HistOK, Hands
  <2> QED BY <2>2, <2>3, <2>4, <2>5
<1>3. HoldIsClaimed'
  BY <1>1 DEF Count, runs, turn, verb, hist, IInv, TypeOK, RunsOK, HoldIsClaimed, Holding
<1>4. StartedIsRead'
  BY <1>1 DEF Count, runs, turn, verb, hist, IInv, TypeOK, RunsOK, StartedIsRead, Read
<1>5. AnnouncedIsRead'
  BY <1>1 DEF Count, runs, turn, verb, hist, IInv, TypeOK, TurnOK, AnnouncedIsRead, Read
<1>6. AcceptedIsKept'
  BY <1>1 DEF Count, runs, turn, verb, hist, IInv, TypeOK, TurnOK, HistOK, AcceptedIsKept, Said, Read, Hands
<1> QED BY <1>1, <1>2, <1>3, <1>4, <1>5, <1>6 DEF IInv, TypeOK

LEMMA CrashStep ==
    ASSUME IInv, Crash
    PROVE  IInv'
<1>1. /\ EntryOK' /\ MirrorIsOwed' /\ claimed' = <<>>
      /\ mirror' = mirror
  BY ElemsEmpty DEF Crash, IInv, TypeOK, EntryOK, MirrorIsOwed
<1>2. RunsOK' /\ TurnOK' /\ VerbOK' /\ HistOK'
  <2>1. spent' \in [DOMAIN Bounds -> Nat]
    BY SpendType, BoundNames DEF Crash, IInv, TypeOK
  <2>2. RunsOK'
    BY ElemsEmpty DEF Crash, IInv, TypeOK, RunsOK, Places, Kinds
  <2>3. TurnOK'
    BY <1>1, ElemsEmpty DEF Crash, IInv, TypeOK, RunsOK, TurnOK
  <2>4. VerbOK'
    BY <1>1 DEF Crash, IInv, TypeOK, VerbOK
  <2>5. HistOK'
    BY <2>1, <1>1 DEF Crash, IInv, TypeOK, TurnOK, HistOK, Hands
  <2> QED BY <2>2, <2>3, <2>4, <2>5
<1>3. HoldIsClaimed'
  BY <1>1 DEF Crash, IInv, TypeOK, RunsOK, HoldIsClaimed, Holding
<1>4. StartedIsRead'
  BY <1>1 DEF Crash, IInv, TypeOK, RunsOK, StartedIsRead, Read
<1>5. AnnouncedIsRead'
  BY ElemsEmpty DEF Crash, AnnouncedIsRead
<1>6. AcceptedIsKept'
  BY <1>1 DEF Crash, IInv, TypeOK, TurnOK, HistOK, AcceptedIsKept, Said, Read, Hands
<1> QED BY <1>1, <1>2, <1>3, <1>4, <1>5, <1>6 DEF IInv, TypeOK
-----------------------------------------------------------------------------
LEMMA InitInv == Init => IInv
<1> SUFFICES ASSUME Init PROVE IInv
  OBVIOUS
<1>1. TypeOK
  BY ElemsEmpty, BoundNames DEF Init, TypeOK, EntryOK, RunsOK, TurnOK, VerbOK, HistOK, Places, Kinds
<1>2. MirrorIsOwed /\ HoldIsClaimed
  BY DEF Init, MirrorIsOwed, HoldIsClaimed, Holding
<1>3. StartedIsRead /\ AnnouncedIsRead
  BY ElemsEmpty DEF Init, StartedIsRead, AnnouncedIsRead
<1>4. AcceptedIsKept
  BY DEF Init, AcceptedIsKept, Said
<1> QED BY <1>1, <1>2, <1>3, <1>4 DEF IInv

LEMMA StutterInv == IInv /\ UNCHANGED vars => IInv'
<1> SUFFICES ASSUME IInv, UNCHANGED vars PROVE IInv'
  OBVIOUS
<1>1. UNCHANGED <<entry, runs, turn, verb, reads, hist>>
  BY DEF vars
<1>2. TypeOK'
  BY <1>1 DEF entry, runs, turn, verb, hist, IInv, TypeOK, EntryOK, RunsOK, TurnOK,
              VerbOK, HistOK
<1>3. MirrorIsOwed' /\ HoldIsClaimed'
  BY <1>1 DEF entry, runs, IInv, MirrorIsOwed, HoldIsClaimed
<1>4. StartedIsRead' /\ AnnouncedIsRead' /\ AcceptedIsKept'
  BY <1>1 DEF entry, runs, turn, hist, IInv, StartedIsRead, AnnouncedIsRead,
              AcceptedIsKept, Said, Read, Hands
<1> QED BY <1>2, <1>3, <1>4 DEF IInv

LEMMA NextInv == IInv /\ [Next]_vars => IInv'
<1> SUFFICES ASSUME IInv, Next PROVE IInv'
  BY StutterInv
<1>1. ASSUME NEW c \in Caller, CallerStep(c) PROVE IInv'
  BY <1>1, SendSteeredStep, SendUnsteeredStep, LookAtClaimStep, HoldStep, ParkStep,
     ResumeDeclinedStep, ResumeClaimsStep DEF CallerStep
<1>2. ASSUME NEW r \in Run, RunStep(r) PROVE IInv'
  BY <1>2, ClaimStep, BeginRunStep, UnclaimStep, StartedStep, ReleaseStep, AbandonStep
     DEF RunStep
<1>3. ASSUME NEW r \in Run, TurnStep(r) PROVE IInv'
  BY <1>3, StartTurnStep, NeverStartStep, NeverStartCutStep, DrainStep, AnnounceStep,
     AppendSteerStep, AppendSteerFailsStep, EndTurnStep DEF TurnStep
<1> QED BY <1>1, <1>2, <1>3, PublishStep, RouteSteeredStep, CountStep, CrashStep DEF Next

\* The inductive invariant holds in every reachable state.
THEOREM Invariance == Spec => []IInv
<1>1. Init => IInv
  BY InitInv
<1>2. IInv /\ [Next]_vars => IInv'
  BY NextInv
<1> QED BY <1>1, <1>2, PTL DEF Spec

\* Every variable keeps its type, whatever the code does and however often the
\* process dies.
THEOREM TypeCorrect == Spec => []TypeOK
<1>1. IInv => TypeOK
  BY DEF IInv
<1> QED BY <1>1, Invariance, PTL

\* The claim makes the holds of a child exclusive: the hold of a run drops
\* before its claim does, so begin never overwrites what another hold took.
THEOREM HoldsAreExclusive == Spec => []OneHold
<1>1. IInv => OneHold
  BY DEF IInv, HoldIsClaimed, OneHold, Holding
<1> QED BY <1>1, Invariance, PTL

\* The mirror file is what memory owes, in order, in every state.
THEOREM MirrorIsExact == Spec => []MirrorIsOwed
<1>1. IInv => MirrorIsOwed
  BY DEF IInv
<1> QED BY <1>1, Invariance, PTL

\* No accepted message is lost but in the two named windows.
THEOREM MessagesAreKept == Spec => []AcceptedIsKept
<1>1. IInv => AcceptedIsKept
  BY DEF IInv
<1> QED BY <1>1, Invariance, PTL

-----------------------------------------------------------------------------
(* How often a message is owed: the invariant the counting properties need. *)

\* The channel and the events of a run are empty outside its turn.
TurnsFit ==
    /\ \A r \in Run : pc[r] \notin {"begun", "running"} => chan[r] = <<>>
    /\ \A r \in Run : pc[r] # "running" => drained[r] = <<>>
    /\ \A r \in Run : pc[r] \notin {"running", "over"} => events[r] = <<>>

\* Every copy a turn has in hand, or has announced to a watcher that has not looked
\* yet, is a copy owed: equal messages are told apart by how many there are.
FlightFits ==
    \A r \in Run, t \in Text :
        N(chan[r], t) + N(drained[r], t) + N(events[r], t) <= N(pending, t)

\* What the log has of a hold that is still owed, and what is announced before it is
\* in the log.
ReadAndOwed(r, t) ==
    (IF pc[r] \in {"running", "over"} THEN N(queued[r], t) ELSE 0) + N(events[r], t)
Unread(r, t) == IF hand[r] = t THEN 1 ELSE 0

\* What is in the log and what is owed was accepted as often, but for what is both.
CountsFit ==
    ~replayable => \A t \in Text :
        /\ \A r \in Run : pc[r] \in Holding =>
              reads[t] + N(mirror, t) + Unread(r, t) <= said[t] + ReadAndOwed(r, t)
        /\ (\A r \in Run : pc[r] \notin Holding) => reads[t] + N(mirror, t) <= said[t]

CInv == TurnsFit /\ FlightFits /\ CountsFit

-----------------------------------------------------------------------------
(* What the methods do to the copies owed. *)

\* What a save writes: the file has the claimed copies and those that wait.
LEMMA CopiesWritten ==
    ASSUME NEW s \in Run \cup {NoRun}, NEW c \in Seq(Text), NEW p \in Seq(Text),
           Keep(s, c, p) \/ KeepOrPrune(s, c, p), NEW t \in Text
    PROVE  N(mirror', t) = N(c, t) + N(p, t) /\ N(pending', t) = N(p, t)
<1>1. mirror' = c \o p /\ pending' = p
  BY DEF Keep, KeepOrPrune
<1> QED BY <1>1, NConcat

\* The file has what is claimed and what waits.
LEMMA CopiesOwed ==
    ASSUME EntryOK, MirrorIsOwed, NEW t \in Text
    PROVE  /\ Waiting \in Seq(Text) /\ N(mirror, t) = N(claimed, t) + N(Waiting, t)
           /\ N(pending, t) <= N(Waiting, t)
           /\ N(mirror, t) \in Nat /\ N(claimed, t) \in Nat /\ N(Waiting, t) \in Nat /\ N(pending, t) \in Nat
<1>1. Waiting \in Seq(Text)
  BY Owed
<1>2. /\ N(mirror, t) \in Nat /\ N(claimed, t) \in Nat /\ N(Waiting, t) \in Nat /\ N(pending, t) \in Nat
  BY <1>1, NType DEF EntryOK
<1>3. CASE loaded
  <2>1. mirror = claimed \o pending /\ Waiting = pending
    BY <1>3 DEF MirrorIsOwed, Waiting
  <2>2. N(claimed \o pending, t) = N(claimed, t) + N(pending, t)
    BY NConcat DEF EntryOK
  <2> QED BY <1>1, <1>2, <2>1, <2>2
<1>4. CASE ~loaded
  <2>1. claimed = <<>> /\ pending = <<>> /\ Waiting = mirror
    BY <1>4 DEF MirrorIsOwed, Waiting
  <2>2. N(<<>>, t) = 0
    BY NEmpty
  <2> QED BY <1>1, <1>2, <2>1, <2>2
<1> QED BY <1>3, <1>4 DEF EntryOK

\* A begin loses no copy.
LEMMA BeginCopies ==
    ASSUME EntryOK, MirrorIsOwed, NEW s \in Run \cup {NoRun}, Begin(s), claimed = <<>>, NEW t \in Text
    PROVE  N(mirror', t) = N(mirror, t)
<1>1. <<>> \in Seq(Text) /\ N(<<>>, t) = 0
  BY ElemsEmpty, NEmpty
<1>2. N(mirror', t) = N(Waiting, t) + N(<<>>, t)
  BY <1>1, CopiesOwed, CopiesWritten DEF Begin
<1> QED BY <1>1, <1>2, CopiesOwed

\* A queue adds a copy of its message at most.
LEMMA QueueCopies ==
    ASSUME EntryOK, MirrorIsOwed, NEW x \in Text, Queue(x), NEW t \in Text
    PROVE  /\ N(mirror', t) <= N(mirror, t) + (IF x = t THEN 1 ELSE 0)
           /\ N(pending, t) <= N(pending', t)
<1> DEFINE p == IF x \in Elems(Waiting) THEN Waiting ELSE Append(Waiting, x)
<1>1. Waiting \in Seq(Text) /\ N(Waiting, t) \in Nat
  BY CopiesOwed
<1>2. p \in Seq(Text)
  BY <1>1, ElemsAppend
<1>3. N(Append(Waiting, x), t) = N(Waiting, t) + (IF x = t THEN 1 ELSE 0)
  BY <1>1, NAppend
<1>4. N(p, t) <= N(Waiting, t) + (IF x = t THEN 1 ELSE 0) /\ N(Waiting, t) <= N(p, t)
  BY <1>1, <1>3
<1>5. Keep(sender, claimed, p)
  BY DEF Queue
<1> HIDE DEF p
<1>6. N(p, t) \in Nat
  BY <1>2, NType
<1>7. sender \in Run \cup {NoRun} /\ claimed \in Seq(Text)
  BY DEF EntryOK
<1>8. N(mirror', t) = N(claimed, t) + N(p, t) /\ N(pending', t) = N(p, t)
  BY <1>2, <1>5, <1>7, CopiesWritten
<1> QED BY <1>4, <1>6, <1>8, CopiesOwed

\* A peek changes no copy.
LEMMA PeekCopies ==
    ASSUME EntryOK, MirrorIsOwed, Peek, NEW t \in Text
    PROVE  N(mirror', t) = N(mirror, t) /\ N(pending, t) <= N(pending', t)
<1>1. sender \in Run \cup {NoRun} /\ claimed \in Seq(Text) /\ Waiting \in Seq(Text)
  BY CopiesOwed DEF EntryOK
<1>2. N(mirror', t) = N(claimed, t) + N(Waiting, t) /\ N(pending', t) = N(Waiting, t)
  BY <1>1, CopiesWritten DEF Peek
<1> QED BY <1>2, CopiesOwed

\* A steer adds one copy of its message.
LEMMA SteerCopies ==
    ASSUME EntryOK, MirrorIsOwed, NEW x \in Text, Steer(x), loaded, NEW t \in Text
    PROVE  /\ N(mirror', t) = N(mirror, t) + (IF x = t THEN 1 ELSE 0)
           /\ N(pending', t) = N(pending, t) + (IF x = t THEN 1 ELSE 0)
<1>1. /\ sender \in Run \cup {NoRun} /\ claimed \in Seq(Text)
      /\ pending \in Seq(Text) /\ Waiting = pending /\ Append(pending, x) \in Seq(Text)
  BY ElemsAppend DEF EntryOK, Waiting
<1>2. N(Append(pending, x), t) = N(pending, t) + (IF x = t THEN 1 ELSE 0)
  BY <1>1, NAppend
<1>3. /\ N(mirror', t) = N(claimed, t) + N(Append(pending, x), t)
      /\ N(pending', t) = N(Append(pending, x), t)
  BY <1>1, CopiesWritten DEF Steer
<1> QED BY <1>1, <1>2, <1>3, CopiesOwed

\* A commit leaves the copies that wait.
LEMMA CommittedCopies ==
    ASSUME EntryOK, MirrorIsOwed, Committed, NEW t \in Text
    PROVE  N(mirror, t) = N(claimed, t) + N(mirror', t) /\ N(pending', t) = N(pending, t)
<1>1. <<>> \in Seq(Text) /\ N(<<>>, t) = 0
  BY ElemsEmpty, NEmpty
<1>2. CASE loaded
  <2>1. sender \in Run \cup {NoRun} /\ pending \in Seq(Text) /\ Waiting = pending
    BY <1>2 DEF EntryOK, Waiting
  <2>2. N(mirror', t) = N(<<>>, t) + N(pending, t) /\ N(pending', t) = N(pending, t)
    BY <1>1, <1>2, <2>1, CopiesWritten DEF Committed
  <2> QED BY <1>1, <2>1, <2>2, CopiesOwed
<1>3. CASE ~loaded
  <2>1. claimed = <<>> /\ mirror' = mirror /\ pending' = pending
    BY <1>3 DEF MirrorIsOwed, Committed, entry
  <2> QED BY <1>1, <2>1, CopiesOwed
<1> QED BY <1>2, <1>3 DEF EntryOK

\* A delivery takes one copy of its message off, if it is owed.
LEMMA DeliveredCopies ==
    ASSUME EntryOK, MirrorIsOwed, NEW x \in Text, Delivered(x), N(pending, x) > 0, NEW t \in Text
    PROVE  /\ N(mirror, t) = N(mirror', t) + (IF x = t THEN 1 ELSE 0)
           /\ N(pending, t) = N(pending', t) + (IF x = t THEN 1 ELSE 0)
<1>1. pending \in Seq(Text) /\ claimed \in Seq(Text) /\ sender \in Run \cup {NoRun}
  BY DEF EntryOK
<1>2. x \in Elems(pending)
  <2>1. N(pending, x) \in Nat /\ (N(pending, x) = 0 <=> x \notin Elems(pending))
    BY <1>1, NType
  <2>2. N(pending, x) # 0
    BY <2>1
  <2> QED BY <2>1, <2>2
<1>3. loaded /\ Waiting = pending
  <2>1. pending # <<>>
    BY <1>2, ElemsEmpty
  <2> QED BY <2>1 DEF MirrorIsOwed, Waiting
<1>4. /\ Without(pending, x) \in Seq(Text)
      /\ N(pending, t) = (IF x = t THEN 1 ELSE 0) + N(Without(pending, x), t)
  BY <1>1, <1>2, NWithout
<1>5. KeepOrPrune(sender, claimed, Without(pending, x))
  BY <1>2, <1>3 DEF Delivered
<1>6. /\ N(mirror', t) = N(claimed, t) + N(Without(pending, x), t)
      /\ N(pending', t) = N(Without(pending, x), t)
  BY <1>1, <1>4, <1>5, CopiesWritten
<1>7. N(Without(pending, x), t) \in Nat
  BY <1>4, NType
<1>8. /\ N(mirror, t) = N(claimed, t) + N(pending, t) /\ N(claimed, t) \in Nat /\ N(pending, t) \in Nat
  BY <1>3, CopiesOwed
<1> DEFINE d == IF x = t THEN 1 ELSE 0
<1>9. d \in {0, 1} /\ N(pending, t) = d + N(Without(pending, x), t)
  BY <1>4
<1>10. N(mirror, t) \in Int /\ N(mirror', t) \in Int
  BY <1>6, <1>7, <1>8
<1> HIDE DEF d
<1>11. N(mirror, t) = N(mirror', t) + d /\ N(pending, t) = N(pending', t) + d
  BY <1>6, <1>7, <1>8, <1>9, <1>10
<1> QED BY <1>11 DEF d

\* An end loses no copy.
LEMMA EndCopies ==
    ASSUME EntryOK, MirrorIsOwed, End(claimed), NEW t \in Text
    PROVE  N(mirror', t) = N(mirror, t) /\ N(pending, t) <= N(pending', t)
<1>1. /\ <<>> \in Seq(Text) /\ N(<<>>, t) = 0 /\ NoRun \in Run \cup {NoRun}
      /\ claimed \in Seq(Text) /\ Waiting \in Seq(Text)
  BY ElemsEmpty, NEmpty, CopiesOwed DEF EntryOK
<1>2. /\ claimed \o Waiting \in Seq(Text)
      /\ N(claimed \o Waiting, t) = N(claimed, t) + N(Waiting, t)
  BY <1>1, NConcat
<1>3. /\ N(mirror', t) = N(<<>>, t) + N(claimed \o Waiting, t)
      /\ N(pending', t) = N(claimed \o Waiting, t)
  BY <1>1, <1>2, CopiesWritten DEF End
<1> QED BY <1>1, <1>2, <1>3, CopiesOwed

-----------------------------------------------------------------------------
(* The copies after a step. *)

\* All that is counted is a number.
Numbers ==
    /\ \A t \in Text : /\ reads[t] \in Nat /\ said[t] \in Nat
                       /\ N(mirror, t) \in Nat /\ N(pending, t) \in Nat
    /\ \A r \in Run, t \in Text :
          /\ N(chan[r], t) \in Nat /\ N(drained[r], t) \in Nat /\ N(events[r], t) \in Nat
          /\ N(queued[r], t) \in Nat /\ ReadAndOwed(r, t) \in Nat /\ Unread(r, t) \in {0, 1}

\* And is one in every state of the invariant.
LEMMA Counted == IInv => Numbers
<1> SUFFICES ASSUME IInv PROVE Numbers
  OBVIOUS
<1>1. \A t \in Text : /\ reads[t] \in Nat /\ said[t] \in Nat
                      /\ N(mirror, t) \in Nat /\ N(pending, t) \in Nat
  BY NType DEF IInv, TypeOK, HistOK, EntryOK
<1>2. \A r \in Run, t \in Text :
         /\ N(chan[r], t) \in Nat /\ N(drained[r], t) \in Nat /\ N(events[r], t) \in Nat
         /\ N(queued[r], t) \in Nat
  BY NType DEF IInv, TypeOK, TurnOK, RunsOK
<1> QED BY <1>1, <1>2 DEF ReadAndOwed, Unread, Numbers

\* As after the step.
LEMMA StillCounted == IInv' => Numbers'
  BY Counted, PTL

\* Who holds has the claim, alone.
LEMMA OneHolds ==
    ASSUME IInv, NEW r \in Run, pc[r] # "idle"
    PROVE  \A q \in Run \ {r} : pc[q] = "idle"
  BY DEF IInv, HoldIsClaimed

\* A step that takes no copy on or off a turn.
LEMMA FlightStays ==
    ASSUME FlightFits, IInv, IInv', UNCHANGED <<chan, drained, events>>,
           \A t \in Text : N(pending, t) <= N(pending', t)
    PROVE  FlightFits'
<1> SUFFICES ASSUME NEW r \in Run, NEW t \in Text
             PROVE  N(chan'[r], t) + N(drained'[r], t) + N(events'[r], t) <= N(pending', t)
  BY DEF FlightFits
<1>1. /\ N(chan[r], t) \in Nat /\ N(drained[r], t) \in Nat /\ N(events[r], t) \in Nat
      /\ N(pending, t) \in Nat /\ N(pending', t) \in Nat
  BY Counted, StillCounted DEF Numbers
<1>2. N(chan[r], t) + N(drained[r], t) + N(events[r], t) <= N(pending, t) /\ N(pending, t) <= N(pending', t)
  BY DEF FlightFits
<1> QED BY <1>1, <1>2

\* A turn that ends leaves its channel and what it drained.
LEMMA FlightEnds ==
    ASSUME FlightFits, IInv, IInv', NEW r \in Run, Idle(r), UNCHANGED pending,
           UNCHANGED events \/ events' = [events EXCEPT ![r] = <<>>]
    PROVE  FlightFits'
<1> SUFFICES ASSUME NEW q \in Run, NEW t \in Text
             PROVE  N(chan'[q], t) + N(drained'[q], t) + N(events'[q], t) <= N(pending, t)
  BY DEF FlightFits
<1>1. /\ N(chan[q], t) \in Nat /\ N(drained[q], t) \in Nat /\ N(events[q], t) \in Nat
      /\ N(pending, t) \in Nat
  BY Counted, StillCounted DEF Numbers
<1>2. N(chan[q], t) + N(drained[q], t) + N(events[q], t) <= N(pending, t)
  BY DEF FlightFits
<1>3. N(<<>>, t) = 0
  BY NEmpty
<1>4. CASE q = r
  <2>1. chan'[q] = <<>> /\ drained'[q] = <<>>
    BY <1>4 DEF Idle, IInv, TypeOK, TurnOK
  <2>2. events'[q] = events[q] \/ events'[q] = <<>>
    BY <1>4 DEF IInv, TypeOK, TurnOK
  <2> QED BY <1>1, <1>2, <1>3, <2>1, <2>2
<1>5. CASE q # r
  <2>1. chan'[q] = chan[q] /\ drained'[q] = drained[q] /\ events'[q] = events[q]
    BY <1>5 DEF Idle, IInv, TypeOK, TurnOK
  <2> QED BY <1>2, <2>1
<1> QED BY <1>4, <1>5

\* A step that changes no hold.
LEMMA CountsStay ==
    ASSUME CountsFit, IInv, IInv', UNCHANGED <<pc, queued, events, hand, replayable>>,
           \A t \in Text : reads'[t] + N(mirror', t) + said[t] <= reads[t] + N(mirror, t) + said'[t]
    PROVE  CountsFit'
<1> SUFFICES ASSUME ~replayable, NEW t \in Text
             PROVE  /\ \A r \in Run : pc[r] \in Holding =>
                         reads'[t] + N(mirror', t) + Unread(r, t)' <= said'[t] + ReadAndOwed(r, t)'
                    /\ (\A r \in Run : pc[r] \notin Holding) => reads'[t] + N(mirror', t) <= said'[t]
  BY DEF CountsFit
<1>1. /\ reads[t] \in Nat /\ said[t] \in Nat /\ N(mirror, t) \in Nat
      /\ reads'[t] \in Nat /\ said'[t] \in Nat /\ N(mirror', t) \in Nat
  BY Counted, StillCounted DEF Numbers
<1>2. reads'[t] + N(mirror', t) + said[t] <= reads[t] + N(mirror, t) + said'[t]
  OBVIOUS
<1>3. ASSUME NEW r \in Run, pc[r] \in Holding
      PROVE  reads'[t] + N(mirror', t) + Unread(r, t)' <= said'[t] + ReadAndOwed(r, t)'
  <2>1. Unread(r, t)' = Unread(r, t) /\ ReadAndOwed(r, t)' = ReadAndOwed(r, t)
    BY DEF Unread, ReadAndOwed
  <2>2. Unread(r, t) \in {0, 1} /\ ReadAndOwed(r, t) \in Nat
    BY Counted, StillCounted DEF Numbers
  <2>3. reads[t] + N(mirror, t) + Unread(r, t) <= said[t] + ReadAndOwed(r, t)
    BY <1>3 DEF CountsFit
  <2> HIDE DEF Unread, ReadAndOwed
  <2> QED BY <1>1, <1>2, <2>1, <2>2, <2>3
<1>4. ASSUME \A r \in Run : pc[r] \notin Holding PROVE reads'[t] + N(mirror', t) <= said'[t]
  <2>1. reads[t] + N(mirror, t) <= said[t]
    BY <1>4 DEF CountsFit
  <2> QED BY <1>1, <1>2, <2>1
<1> QED BY <1>3, <1>4

\* A step of the run that holds, and goes on holding.
LEMMA HoldCounts ==
    ASSUME CountsFit, IInv, IInv', NEW r \in Run, pc[r] \in Holding, pc'[r] \in Holding,
           UNCHANGED replayable,
           \A t \in Text :
              reads'[t] + N(mirror', t) + Unread(r, t)' + said[t] + ReadAndOwed(r, t)
                <= reads[t] + N(mirror, t) + Unread(r, t) + said'[t] + ReadAndOwed(r, t)'
    PROVE  CountsFit'
<1>1. \A q \in Run \ {r} : pc'[q] = "idle"
  <2>1. pc'[r] # "idle"
    BY DEF Holding
  <2> QED BY <2>1 DEF IInv, HoldIsClaimed
<1>2. ASSUME ~replayable, NEW t \in Text
      PROVE  reads'[t] + N(mirror', t) + Unread(r, t)' <= said'[t] + ReadAndOwed(r, t)'
  <2>1. /\ reads[t] \in Nat /\ said[t] \in Nat /\ N(mirror, t) \in Nat
        /\ reads'[t] \in Nat /\ said'[t] \in Nat /\ N(mirror', t) \in Nat
    BY Counted, StillCounted DEF Numbers
  <2>2. /\ Unread(r, t) \in {0, 1} /\ ReadAndOwed(r, t) \in Nat
        /\ Unread(r, t)' \in {0, 1} /\ ReadAndOwed(r, t)' \in Nat
    BY Counted, StillCounted DEF Numbers
  <2>3. reads[t] + N(mirror, t) + Unread(r, t) <= said[t] + ReadAndOwed(r, t)
    BY <1>2 DEF CountsFit
  <2>4. reads'[t] + N(mirror', t) + Unread(r, t)' + said[t] + ReadAndOwed(r, t)
                <= reads[t] + N(mirror, t) + Unread(r, t) + said'[t] + ReadAndOwed(r, t)'
    OBVIOUS
  <2> HIDE DEF Unread, ReadAndOwed
  <2> QED BY <2>1, <2>2, <2>3, <2>4
<1>3. \A q \in Run : pc'[q] \in Holding => q = r
  BY <1>1 DEF Holding
<1> QED BY <1>2, <1>3 DEF CountsFit

\* A step with no hold before or after.
LEMMA FreeCounts ==
    ASSUME CountsFit, IInv, IInv', UNCHANGED <<reads, said, replayable>>,
           \A q \in Run : pc[q] \notin Holding /\ pc'[q] \notin Holding,
           \A t \in Text : N(mirror', t) <= N(mirror, t)
    PROVE  CountsFit'
<1> SUFFICES ASSUME ~replayable, NEW t \in Text PROVE reads[t] + N(mirror', t) <= said[t]
  BY DEF CountsFit
<1>1. reads[t] \in Nat /\ said[t] \in Nat /\ N(mirror, t) \in Nat /\ N(mirror', t) \in Nat
  BY Counted, StillCounted DEF Numbers
<1>2. reads[t] + N(mirror, t) <= said[t] /\ N(mirror', t) <= N(mirror, t)
  BY DEF CountsFit
<1> QED BY <1>1, <1>2

\* A hold that is taken, or given back: what the log has of it is owed no more.
LEMMA LetGoCounts ==
    ASSUME CountsFit, IInv, IInv', NEW r \in Run, pc[r] \in Holding, pc'[r] \notin Holding,
           \A q \in Run \ {r} : pc'[q] = pc[q], UNCHANGED <<reads, said, replayable>>,
           \A t \in Text : N(mirror', t) + ReadAndOwed(r, t) <= N(mirror, t)
    PROVE  CountsFit'
<1>1. ASSUME ~replayable, NEW t \in Text PROVE reads[t] + N(mirror', t) <= said[t]
  <2>1. reads[t] \in Nat /\ said[t] \in Nat /\ N(mirror, t) \in Nat /\ N(mirror', t) \in Nat
    BY Counted, StillCounted DEF Numbers
  <2>2. Unread(r, t) \in {0, 1} /\ ReadAndOwed(r, t) \in Nat
    BY Counted, StillCounted DEF Numbers
  <2>3. reads[t] + N(mirror, t) + Unread(r, t) <= said[t] + ReadAndOwed(r, t)
    BY <1>1 DEF CountsFit
  <2>4. N(mirror', t) + ReadAndOwed(r, t) <= N(mirror, t)
    OBVIOUS
  <2> HIDE DEF Unread, ReadAndOwed
  <2> QED BY <2>1, <2>2, <2>3, <2>4
<1>2. ASSUME NEW q \in Run PROVE pc'[q] \notin Holding
  BY OneHolds DEF Holding
<1> QED BY <1>1, <1>2 DEF CountsFit

-----------------------------------------------------------------------------
(* Every step keeps the copies counted. *)

\* A step that leaves the turns alone.
LEMMA TurnsStay ==
    ASSUME TurnsFit, UNCHANGED <<pc, chan, drained, events>>
    PROVE  TurnsFit'
  BY DEF TurnsFit

\* The verb and the readers touch no turn.
LEMMA VerbCounts ==
    ASSUME IInv, IInv', CInv,
           \/ \E c \in Caller : \/ \E t \in Text : SendUnsteered(c, t)
                              \/ LookAtClaim(c) \/ Hold(c) \/ Park(c) \/ ResumeDeclined(c)
           \/ Count
    PROVE  CInv'
<1>1. UNCHANGED <<claim, pc, kind, queued>> /\ UNCHANGED <<chan, drained, hand, events>> /\ UNCHANGED <<reads, replayable>>
  BY DEF SendUnsteered, LookAtClaim, Hold, Park, ResumeDeclined, Count, runs, turn, hist, Spend
<1>2. ASSUME NEW x \in Text
      PROVE  /\ N(pending, x) <= N(pending', x)
             /\ reads'[x] + N(mirror', x) + said[x] <= reads[x] + N(mirror, x) + said'[x]
  <2>1. /\ reads[x] \in Nat /\ said[x] \in Nat /\ N(mirror, x) \in Nat /\ N(pending, x) \in Nat
        /\ said'[x] \in Nat /\ N(mirror', x) \in Nat
    BY Counted, StillCounted DEF Numbers
  <2>2. EntryOK /\ MirrorIsOwed /\ said \in [Text -> Nat]
    BY DEF IInv, TypeOK, HistOK
  <2>3. CASE \E c \in Caller : (\E t \in Text : SendUnsteered(c, t)) \/ LookAtClaim(c)
    <3>1. pending' = pending /\ mirror' = mirror /\ said' = said
      BY <2>3 DEF SendUnsteered, LookAtClaim, entry, hist
    <3> QED BY <1>1, <2>1, <3>1
  <2>4. ASSUME NEW c \in Caller, Hold(c) \/ Park(c)
        PROVE  /\ N(pending, x) <= N(pending', x)
               /\ reads'[x] + N(mirror', x) + said[x] <= reads[x] + N(mirror, x) + said'[x]
    <3>1. words[c] \in Text /\ Queue(words[c]) /\ said' = [said EXCEPT ![words[c]] = @ + 1]
      BY <2>4 DEF Hold, Park, Accept, IInv, TypeOK, VerbOK
    <3>2. /\ N(mirror', x) <= N(mirror, x) + (IF words[c] = x THEN 1 ELSE 0)
          /\ N(pending, x) <= N(pending', x)
      BY <2>2, <3>1, QueueCopies
    <3>3. said'[x] = said[x] + (IF words[c] = x THEN 1 ELSE 0)
      BY <2>1, <2>2, <3>1
    <3> QED BY <1>1, <2>1, <3>2, <3>3
  <2>5. CASE (\E c \in Caller : ResumeDeclined(c)) \/ Count
    <3>1. Peek /\ said' = said
      BY <2>5 DEF ResumeDeclined, Count, hist
    <3>2. N(mirror', x) = N(mirror, x) /\ N(pending, x) <= N(pending', x)
      BY <2>2, <3>1, PeekCopies
    <3> QED BY <1>1, <2>1, <3>1, <3>2
  <2> QED BY <2>3, <2>4, <2>5
<1>3. TurnsFit'
  BY <1>1, TurnsStay DEF CInv
<1>4. FlightFits'
  BY <1>1, <1>2, FlightStays DEF CInv
<1>5. CountsFit'
  BY <1>1, <1>2, CountsStay DEF CInv
<1> QED BY <1>3, <1>4, <1>5 DEF CInv

\* A steer is owed and in the channel.
LEMMA SteerCounts ==
    ASSUME IInv, IInv', CInv, NEW t \in Text, Steerable, Steer(t), Accept(t),
           UNCHANGED <<runs, drained, hand, events, reads, replayable>>
    PROVE  CInv'
<1>1. sender \in Run /\ pc[sender] \in {"begun", "running"} /\ loaded
  BY DEF Steerable, IInv, TypeOK, EntryOK
<1>2. /\ chan' = [chan EXCEPT ![sender] = Append(@, t)] /\ said' = [said EXCEPT ![t] = @ + 1]
      /\ UNCHANGED <<claim, pc, kind, queued>>
  BY DEF Steer, Accept, runs
<1>3. chan \in [Run -> Seq(Text)] /\ said \in [Text -> Nat] /\ EntryOK /\ MirrorIsOwed
  BY DEF IInv, TypeOK, TurnOK, HistOK
<1>4. TurnsFit'
  <2>1. TurnsFit
    BY DEF CInv
  <2> QED BY <1>1, <1>2, <1>3, <2>1 DEF TurnsFit
<1>5. \A x \in Text : /\ N(mirror', x) = N(mirror, x) + (IF t = x THEN 1 ELSE 0)
                      /\ N(pending', x) = N(pending, x) + (IF t = x THEN 1 ELSE 0)
  BY <1>1, <1>3, SteerCopies
<1>6. FlightFits'
  <2> SUFFICES ASSUME NEW q \in Run, NEW x \in Text
               PROVE  N(chan'[q], x) + N(drained[q], x) + N(events[q], x) <= N(pending', x)
    BY DEF FlightFits
  <2>1. /\ N(chan[q], x) \in Nat /\ N(drained[q], x) \in Nat /\ N(events[q], x) \in Nat
        /\ N(pending, x) \in Nat
    BY Counted DEF Numbers
  <2>2. N(chan[q], x) + N(drained[q], x) + N(events[q], x) <= N(pending, x)
    BY DEF CInv, FlightFits
  <2>3. N(chan'[q], x) <= N(chan[q], x) + (IF t = x THEN 1 ELSE 0)
    <3>1. CASE q = sender
      <4>1. chan'[q] = Append(chan[q], t) /\ chan[q] \in Seq(Text)
        BY <1>2, <1>3, <3>1
      <4>2. N(Append(chan[q], t), x) = N(chan[q], x) + (IF t = x THEN 1 ELSE 0)
        BY <4>1, NAppend
      <4> QED BY <2>1, <4>1, <4>2
    <3>2. CASE q # sender
      <4>1. chan'[q] = chan[q]
        BY <1>2, <1>3, <3>2
      <4> QED BY <2>1, <4>1
    <3> QED BY <3>1, <3>2
  <2>4. N(chan'[q], x) \in Nat /\ N(pending', x) \in Nat
    BY StillCounted DEF Numbers
  <2> QED BY <1>5, <2>1, <2>2, <2>3, <2>4
<1>7. CountsFit'
  <2>1. ASSUME NEW x \in Text PROVE reads'[x] + N(mirror', x) + said[x] <= reads[x] + N(mirror, x) + said'[x]
    <3>1. reads[x] \in Nat /\ said[x] \in Nat /\ N(mirror, x) \in Nat /\ N(mirror', x) \in Nat /\ said'[x] \in Nat
      BY Counted, StillCounted DEF Numbers
    <3>2. said'[x] = said[x] + (IF t = x THEN 1 ELSE 0)
      BY <1>2, <1>3
    <3> QED BY <1>5, <3>1, <3>2
  <2> QED BY <1>2, <2>1, CountsStay DEF CInv
<1> QED BY <1>4, <1>6, <1>7 DEF CInv

\* A claim comes before the hold, and goes after it.
LEMMA ClaimCounts ==
    ASSUME IInv, IInv', CInv, NEW r \in Run, NEW k \in Kinds,
           Claim(r, k) \/ (\E c \in Caller : ResumeClaims(c, r, k)) \/ Unclaim(r)
    PROVE  CInv'
<1>1. /\ UNCHANGED <<loaded, sender, claimed, pending, mirror>> /\ UNCHANGED <<chan, drained, hand, events>>
      /\ UNCHANGED <<reads, said, replayable>>
      /\ pc[r] \in {"idle", "claimed", "closing"} /\ pc' = [pc EXCEPT ![r] = pc'[r]] /\ pc'[r] \in {"idle", "claimed"}
      /\ \A q \in Run \ {r} : pc[q] = "idle"
  <2>1. pc \in [Run -> Places]
    BY DEF IInv, TypeOK, RunsOK
  <2>2. \A q \in Run \ {r} : pc[q] = "idle"
    BY NoRunAssumption, <2>1 DEF Claim, ResumeClaims, Unclaim, IInv, HoldIsClaimed
  <2> QED BY <2>1, <2>2 DEF Claim, ResumeClaims, Unclaim, To, entry, turn, hist, Spend
<1>2. pc \in [Run -> Places]
  BY DEF IInv, TypeOK, RunsOK
<1>3. TurnsFit'
  <2>1. TurnsFit
    BY DEF CInv
  <2> QED BY <1>1, <1>2, <2>1 DEF TurnsFit
<1>4. \A t \in Text : N(pending, t) \in Nat /\ N(mirror, t) \in Nat
  BY Counted DEF Numbers
<1>5. FlightFits'
  BY <1>1, <1>4, FlightStays DEF CInv
<1>6. \A q \in Run : pc[q] \notin Holding /\ pc'[q] \notin Holding
  BY <1>1, <1>2 DEF Holding
<1>7. CountsFit'
  BY <1>1, <1>4, <1>6, FreeCounts DEF CInv
<1> QED BY <1>3, <1>5, <1>7 DEF CInv

\* A hold takes all that waits, and has read none of it.
LEMMA BeginRunCounts ==
    ASSUME IInv, IInv', CInv, NEW r \in Run, BeginRun(r)
    PROVE  CInv'
<1>1. /\ pc[r] = "claimed" /\ pc' = [pc EXCEPT ![r] = "begun"] /\ pc \in [Run -> Places]
      /\ UNCHANGED <<chan, drained, hand, events>> /\ UNCHANGED <<reads, said, replayable>>
  BY DEF BeginRun, To, turn, hist, IInv, TypeOK, RunsOK
<1>2. \A q \in Run \ {r} : pc[q] = "idle"
  BY <1>1, OneHolds
<1>3. \A q \in Run : chan[q] = <<>> /\ drained[q] = <<>> /\ events[q] = <<>>
  BY <1>1, <1>2 DEF CInv, TurnsFit
<1>4. TurnsFit'
  BY <1>1, <1>3 DEF TurnsFit
<1>5. FlightFits'
  <2> SUFFICES ASSUME NEW q \in Run, NEW t \in Text
               PROVE  N(chan[q], t) + N(drained[q], t) + N(events[q], t) <= N(pending', t)
    BY <1>1 DEF FlightFits
  <2>1. N(<<>>, t) = 0 /\ N(pending', t) \in Nat
    BY NEmpty, StillCounted DEF Numbers
  <2> QED BY <1>3, <2>1
<1>6. ASSUME NEW t \in Text PROVE N(mirror', t) = N(mirror, t)
  <2>1. claimed = <<>>
    BY <1>1, <1>2 DEF IInv, HoldIsClaimed, Holding
  <2> DEFINE s == IF kind[r] = "routed" THEN NoRun ELSE r
  <2>2. s \in Run \cup {NoRun} /\ Begin(s)
    BY DEF BeginRun
  <2> HIDE DEF s
  <2> QED BY <2>1, <2>2, BeginCopies DEF IInv, TypeOK
<1>7. CountsFit'
  <2> SUFFICES ASSUME ~replayable, NEW t \in Text
               PROVE  \A q \in Run : pc'[q] \in Holding =>
                         reads[t] + N(mirror', t) + Unread(q, t)' <= said[t] + ReadAndOwed(q, t)'
    BY <1>1 DEF CountsFit, Holding
  <2>1. \A q \in Run : pc'[q] \in Holding => q = r
    BY <1>1, <1>2 DEF Holding
  <2>2. Unread(r, t)' = 0
    <3>1. hand[r] = NoText
      BY <1>1 DEF IInv, TypeOK, TurnOK
    <3> QED BY <1>1, <3>1, NoTextAssumption DEF Unread
  <2>3. reads[t] + N(mirror, t) <= said[t]
    BY <1>1, <1>2 DEF CInv, CountsFit, Holding
  <2>4. /\ reads[t] \in Nat /\ said[t] \in Nat /\ N(mirror, t) \in Nat /\ ReadAndOwed(r, t)' \in Nat
    BY Counted, StillCounted DEF Numbers
  <2> HIDE DEF Unread, ReadAndOwed
  <2> QED BY <1>6, <2>1, <2>2, <2>3, <2>4
<1> QED BY <1>4, <1>5, <1>7 DEF CInv

\* The prompt has each copy of the hold.
LEMMA StartTurnCounts ==
    ASSUME IInv, IInv', CInv, NEW r \in Run, StartTurn(r)
    PROVE  CInv'
<1>1. /\ pc[r] = "begun" /\ pc' = [pc EXCEPT ![r] = "running"] /\ pc \in [Run -> Places]
      /\ UNCHANGED <<loaded, sender, claimed, pending, mirror>> /\ UNCHANGED <<claim, kind, queued>>
      /\ UNCHANGED <<chan, drained, hand, events>> /\ UNCHANGED <<said, replayable>>
      /\ \A t \in Text : reads'[t] = reads[t] + N(queued[r], t)
  BY DEF StartTurn, To, entry, turn, hist, N, IInv, TypeOK, RunsOK
<1>2. TurnsFit'
  <2>1. TurnsFit
    BY DEF CInv
  <2> QED BY <1>1, <2>1 DEF TurnsFit
<1>3. \A t \in Text : N(pending, t) \in Nat
  BY Counted DEF Numbers
<1>4. FlightFits'
  BY <1>1, <1>3, FlightStays DEF CInv
<1>5. ASSUME NEW t \in Text
      PROVE  reads'[t] + N(mirror', t) + Unread(r, t)' + said[t] + ReadAndOwed(r, t)
                <= reads[t] + N(mirror, t) + Unread(r, t) + said'[t] + ReadAndOwed(r, t)'
  <2>1. ReadAndOwed(r, t) = 0 + N(events[r], t) /\ ReadAndOwed(r, t)' = N(queued[r], t) + N(events[r], t)
    BY <1>1 DEF ReadAndOwed
  <2>2. Unread(r, t)' = Unread(r, t)
    BY <1>1 DEF Unread
  <2>3. /\ reads[t] \in Nat /\ said[t] \in Nat /\ N(mirror, t) \in Nat /\ Unread(r, t) \in {0, 1}
        /\ N(queued[r], t) \in Nat /\ N(events[r], t) \in Nat
    BY Counted DEF Numbers
  <2> HIDE DEF Unread, ReadAndOwed
  <2> QED BY <1>1, <2>1, <2>2, <2>3
<1>6. CountsFit'
  BY <1>1, <1>5, HoldCounts DEF CInv, Holding
<1> QED BY <1>2, <1>4, <1>6 DEF CInv

\* A turn that never starts, or is over: what it had not announced is owed still.
LEMMA EndTurnCounts ==
    ASSUME IInv, IInv', CInv, NEW r \in Run,
           NeverStart(r) \/ NeverStartCut(r) \/ EndTurn(r) \/ AppendSteerFails(r)
    PROVE  CInv'
<1>1. /\ Idle(r) /\ UNCHANGED <<loaded, sender, claimed, pending, mirror>> /\ UNCHANGED <<claim, kind, queued>>
      /\ UNCHANGED <<events, reads, said, replayable>>
      /\ pc' = [pc EXCEPT ![r] = pc'[r]] /\ pc \in [Run -> Places]
      /\ \/ pc[r] = "begun" /\ pc'[r] \in {"dropped", "cut"}
         \/ pc[r] = "running" /\ pc'[r] = "over"
  <2>1. pc \in [Run -> Places] /\ (hand[r] # NoText => pc[r] = "running")
    BY DEF IInv, TypeOK, RunsOK, TurnOK
  <2>2. CASE NeverStart(r) \/ NeverStartCut(r)
    BY <2>1, <2>2 DEF NeverStart, NeverStartCut, To, entry, hist
  <2>3. CASE EndTurn(r) \/ AppendSteerFails(r)
    BY <2>1, <2>3 DEF EndTurn, AppendSteerFails, To, entry, hist
  <2> QED BY <2>2, <2>3
<1>2. /\ chan' = [chan EXCEPT ![r] = <<>>] /\ drained' = [drained EXCEPT ![r] = <<>>]
      /\ hand' = [hand EXCEPT ![r] = NoText]
      /\ chan \in [Run -> Seq(Text)] /\ drained \in [Run -> Seq(Text)] /\ hand \in [Run -> Text \cup {NoText}]
  BY <1>1 DEF Idle, IInv, TypeOK, TurnOK
<1>3. TurnsFit'
  <2>1. TurnsFit
    BY DEF CInv
  <2> QED BY <1>1, <1>2, <2>1 DEF TurnsFit
<1>4. FlightFits'
  BY <1>1, FlightEnds DEF CInv
<1>5. ASSUME NEW t \in Text
      PROVE  reads'[t] + N(mirror', t) + Unread(r, t)' + said[t] + ReadAndOwed(r, t)
                <= reads[t] + N(mirror, t) + Unread(r, t) + said'[t] + ReadAndOwed(r, t)'
  <2>1. ReadAndOwed(r, t)' = ReadAndOwed(r, t)
    BY <1>1 DEF ReadAndOwed
  <2>2. Unread(r, t)' = 0
    BY <1>2, NoTextAssumption DEF Unread
  <2>3. /\ reads[t] \in Nat /\ said[t] \in Nat /\ N(mirror, t) \in Nat /\ Unread(r, t) \in {0, 1}
        /\ ReadAndOwed(r, t) \in Nat
    BY Counted DEF Numbers
  <2> HIDE DEF Unread, ReadAndOwed
  <2> QED BY <1>1, <2>1, <2>2, <2>3
<1>6. CountsFit'
  <2>1. pc[r] \in Holding /\ pc'[r] \in Holding
    BY <1>1 DEF Holding
  <2> QED BY <1>1, <1>5, <2>1, HoldCounts DEF CInv
<1> QED BY <1>3, <1>4, <1>6 DEF CInv

\* The channel is drained whole.
LEMMA DrainCounts ==
    ASSUME IInv, IInv', CInv, NEW r \in Run, Drain(r)
    PROVE  CInv'
<1>1. /\ pc[r] = "running" /\ UNCHANGED <<loaded, sender, claimed, pending, mirror>>
      /\ UNCHANGED <<claim, pc, kind, queued>> /\ UNCHANGED <<hand, events, reads, said, replayable>>
      /\ drained' = [drained EXCEPT ![r] = @ \o chan[r]] /\ chan' = [chan EXCEPT ![r] = <<>>]
      /\ chan \in [Run -> Seq(Text)] /\ drained \in [Run -> Seq(Text)]
  BY DEF Drain, entry, runs, hist, IInv, TypeOK, TurnOK
<1>2. TurnsFit'
  <2>1. TurnsFit
    BY DEF CInv
  <2> QED BY <1>1, <2>1 DEF TurnsFit
<1>3. FlightFits'
  <2> SUFFICES ASSUME NEW q \in Run, NEW t \in Text
               PROVE  N(chan'[q], t) + N(drained'[q], t) + N(events[q], t) <= N(pending, t)
    BY <1>1 DEF FlightFits
  <2>1. /\ N(chan[q], t) \in Nat /\ N(drained[q], t) \in Nat /\ N(events[q], t) \in Nat
        /\ N(pending, t) \in Nat
    BY Counted DEF Numbers
  <2>2. N(chan[q], t) + N(drained[q], t) + N(events[q], t) <= N(pending, t)
    BY DEF CInv, FlightFits
  <2>3. CASE q = r
    <3>1. chan'[q] = <<>> /\ drained'[q] = drained[q] \o chan[q]
      BY <1>1, <2>3
    <3>2. N(<<>>, t) = 0
      BY NEmpty
    <3>3. N(drained[q] \o chan[q], t) = N(drained[q], t) + N(chan[q], t)
      <4>1. drained[q] \in Seq(Text) /\ chan[q] \in Seq(Text)
        BY <1>1
      <4> QED BY <4>1, NConcat
    <3> QED BY <2>1, <2>2, <3>1, <3>2, <3>3
  <2>4. CASE q # r
    BY <1>1, <2>2, <2>4
  <2> QED BY <2>3, <2>4
<1>4. \A t \in Text : reads[t] \in Nat /\ said[t] \in Nat /\ N(mirror, t) \in Nat
  BY Counted DEF Numbers
<1>5. CountsFit'
  BY <1>1, <1>4, CountsStay DEF CInv
<1> QED BY <1>2, <1>3, <1>5 DEF CInv

\* What is announced is in hand, and owed until the watcher has looked.
LEMMA AnnounceCounts ==
    ASSUME IInv, IInv', CInv, NEW r \in Run, Announce(r)
    PROVE  CInv'
<1> DEFINE x == Head(drained[r])
<1>1. /\ pc[r] = "running" /\ UNCHANGED <<loaded, sender, claimed, pending, mirror>>
      /\ UNCHANGED <<claim, pc, kind, queued>> /\ UNCHANGED <<chan, reads, said, replayable>>
      /\ hand[r] = NoText /\ drained[r] # <<>>
      /\ hand' = [hand EXCEPT ![r] = x] /\ events' = [events EXCEPT ![r] = Append(@, x)]
      /\ drained' = [drained EXCEPT ![r] = Tail(@)]
      /\ hand \in [Run -> Text \cup {NoText}] /\ drained \in [Run -> Seq(Text)] /\ events \in [Run -> Seq(Text)]
  BY DEF Announce, entry, runs, hist, IInv, TypeOK, TurnOK
<1>2. /\ x \in Text /\ Tail(drained[r]) \in Seq(Text)
      /\ \A t \in Text : N(drained[r], t) = (IF x = t THEN 1 ELSE 0) + N(Tail(drained[r]), t)
  <2>1. drained[r] \in Seq(Text)
    BY <1>1
  <2> QED BY <1>1, <2>1, NHeadTail
<1> HIDE DEF x
<1>3. \A t \in Text : N(events'[r], t) = N(events[r], t) + (IF x = t THEN 1 ELSE 0)
  <2>1. events[r] \in Seq(Text) /\ events'[r] = Append(events[r], x)
    BY <1>1
  <2> QED BY <1>2, <2>1, NAppend
<1>4. TurnsFit'
  <2>1. TurnsFit
    BY DEF CInv
  <2> QED BY <1>1, <2>1 DEF TurnsFit
<1>5. FlightFits'
  <2> SUFFICES ASSUME NEW q \in Run, NEW t \in Text
               PROVE  N(chan[q], t) + N(drained'[q], t) + N(events'[q], t) <= N(pending, t)
    BY <1>1 DEF FlightFits
  <2>1. /\ N(chan[q], t) \in Nat /\ N(drained[q], t) \in Nat /\ N(events[q], t) \in Nat
        /\ N(pending, t) \in Nat /\ N(drained'[q], t) \in Nat
    BY Counted, StillCounted DEF Numbers
  <2>2. N(chan[q], t) + N(drained[q], t) + N(events[q], t) <= N(pending, t)
    BY DEF CInv, FlightFits
  <2>3. CASE q = r
    <3>1. drained'[q] = Tail(drained[q])
      BY <1>1, <2>3
    <3>2. N(drained[q], t) = (IF x = t THEN 1 ELSE 0) + N(drained'[q], t)
      BY <1>2, <2>3, <3>1
    <3>3. N(events'[q], t) = N(events[q], t) + (IF x = t THEN 1 ELSE 0)
      BY <1>3, <2>3
    <3> QED BY <2>1, <2>2, <3>2, <3>3
  <2>4. CASE q # r
    BY <1>1, <2>2, <2>4
  <2> QED BY <2>3, <2>4
<1>6. ASSUME NEW t \in Text
      PROVE  reads'[t] + N(mirror', t) + Unread(r, t)' + said[t] + ReadAndOwed(r, t)
                <= reads[t] + N(mirror, t) + Unread(r, t) + said'[t] + ReadAndOwed(r, t)'
  <2>1. ReadAndOwed(r, t) = N(queued[r], t) + N(events[r], t) /\ ReadAndOwed(r, t)' = N(queued[r], t) + N(events'[r], t)
    BY <1>1 DEF ReadAndOwed
  <2>2. Unread(r, t)' = (IF x = t THEN 1 ELSE 0)
    <3>1. hand'[r] = x
      BY <1>1
    <3> QED BY <3>1 DEF Unread
  <2>3. /\ reads[t] \in Nat /\ said[t] \in Nat /\ N(mirror, t) \in Nat /\ Unread(r, t) \in {0, 1}
        /\ N(queued[r], t) \in Nat /\ N(events[r], t) \in Nat
    BY Counted DEF Numbers
  <2>4. N(events'[r], t) = N(events[r], t) + (IF x = t THEN 1 ELSE 0)
    BY <1>3
  <2>5. reads'[t] = reads[t] /\ said'[t] = said[t] /\ N(mirror', t) = N(mirror, t)
    BY <1>1
  <2> DEFINE d == IF x = t THEN 1 ELSE 0
  <2>6. d \in {0, 1} /\ Unread(r, t)' = d /\ ReadAndOwed(r, t)' = ReadAndOwed(r, t) + d
    BY <2>1, <2>2, <2>3, <2>4
  <2>7. ReadAndOwed(r, t) \in Nat
    BY Counted DEF Numbers
  <2> HIDE DEF Unread, ReadAndOwed, d
  <2> QED BY <2>3, <2>5, <2>6, <2>7
<1>7. CountsFit'
  BY <1>1, <1>6, HoldCounts DEF CInv, Holding
<1> QED BY <1>4, <1>5, <1>7 DEF CInv

\* Appended: in the log, not in hand.
LEMMA AppendSteerCounts ==
    ASSUME IInv, IInv', CInv, NEW r \in Run, AppendSteer(r)
    PROVE  CInv'
<1>1. /\ pc[r] = "running" /\ UNCHANGED <<loaded, sender, claimed, pending, mirror>>
      /\ UNCHANGED <<claim, pc, kind, queued>> /\ UNCHANGED <<chan, drained, events, said, replayable>>
      /\ hand[r] \in Text /\ reads' = [reads EXCEPT ![hand[r]] = @ + 1] /\ hand' = [hand EXCEPT ![r] = NoText]
      /\ hand \in [Run -> Text \cup {NoText}] /\ reads \in [Text -> Nat]
  BY DEF AppendSteer, entry, runs, hist, IInv, TypeOK, TurnOK, HistOK
<1>2. TurnsFit'
  BY <1>1, TurnsStay DEF CInv
<1>3. \A t \in Text : N(pending, t) \in Nat
  BY Counted DEF Numbers
<1>4. FlightFits'
  BY <1>1, <1>3, FlightStays DEF CInv
<1>5. ASSUME NEW t \in Text
      PROVE  reads'[t] + N(mirror', t) + Unread(r, t)' + said[t] + ReadAndOwed(r, t)
                <= reads[t] + N(mirror, t) + Unread(r, t) + said'[t] + ReadAndOwed(r, t)'
  <2>1. ReadAndOwed(r, t)' = ReadAndOwed(r, t)
    BY <1>1 DEF ReadAndOwed
  <2>2. Unread(r, t)' = 0 /\ reads'[t] = reads[t] + Unread(r, t)
    BY <1>1, NoTextAssumption DEF Unread
  <2>3. /\ reads[t] \in Nat /\ said[t] \in Nat /\ N(mirror, t) \in Nat /\ Unread(r, t) \in {0, 1}
        /\ ReadAndOwed(r, t) \in Nat
    BY Counted DEF Numbers
  <2> HIDE DEF Unread, ReadAndOwed
  <2> QED BY <1>1, <2>1, <2>2, <2>3
<1>6. CountsFit'
  BY <1>1, <1>5, HoldCounts DEF CInv, Holding
<1> QED BY <1>2, <1>4, <1>6 DEF CInv

\* The watcher takes one copy off the file for each event.
LEMMA PublishCounts ==
    ASSUME IInv, IInv', CInv, NEW r \in Run, Publish(r)
    PROVE  CInv'
<1> DEFINE x == Head(events[r])
<1>1. /\ events[r] # <<>> /\ Delivered(x) /\ events' = [events EXCEPT ![r] = Tail(@)]
      /\ UNCHANGED <<claim, pc, kind, queued>> /\ UNCHANGED <<chan, drained, hand, reads, said, replayable>>
      /\ events \in [Run -> Seq(Text)] /\ EntryOK /\ MirrorIsOwed
  BY DEF Publish, runs, hist, IInv, TypeOK, TurnOK
<1>2. /\ x \in Text /\ \A t \in Text : N(events[r], t) = (IF x = t THEN 1 ELSE 0) + N(events'[r], t)
  <2>1. events[r] \in Seq(Text) /\ events'[r] = Tail(events[r])
    BY <1>1
  <2> QED BY <1>1, <2>1, NHeadTail
<1> HIDE DEF x
<1>3. pc[r] \in {"running", "over"}
  BY <1>1 DEF CInv, TurnsFit
<1>4. \A q \in Run \ {r} : events[q] = <<>> /\ chan[q] = <<>> /\ drained[q] = <<>>
  <2>1. \A q \in Run \ {r} : pc[q] = "idle"
    BY <1>3, OneHolds
  <2> QED BY <2>1 DEF CInv, TurnsFit
<1>5. N(pending, x) > 0
  <2>1. /\ N(chan[r], x) \in Nat /\ N(drained[r], x) \in Nat /\ N(events'[r], x) \in Nat /\ N(pending, x) \in Nat
    BY <1>2, Counted, StillCounted DEF Numbers
  <2>2. N(chan[r], x) + N(drained[r], x) + N(events[r], x) <= N(pending, x)
    BY <1>2 DEF CInv, FlightFits
  <2>3. N(events[r], x) = 1 + N(events'[r], x)
    BY <1>2
  <2> QED BY <2>1, <2>2, <2>3
<1>6. \A t \in Text : /\ N(mirror, t) = N(mirror', t) + (IF x = t THEN 1 ELSE 0)
                      /\ N(pending, t) = N(pending', t) + (IF x = t THEN 1 ELSE 0)
  BY <1>1, <1>2, <1>5, DeliveredCopies
<1>7. TurnsFit'
  <2>1. TurnsFit
    BY DEF CInv
  <2> QED BY <1>1, <1>3, <2>1 DEF TurnsFit
<1>8. FlightFits'
  <2> SUFFICES ASSUME NEW q \in Run, NEW t \in Text
               PROVE  N(chan[q], t) + N(drained[q], t) + N(events'[q], t) <= N(pending', t)
    BY <1>1 DEF FlightFits
  <2>1. /\ N(chan[q], t) \in Nat /\ N(drained[q], t) \in Nat /\ N(events'[q], t) \in Nat
        /\ N(pending', t) \in Nat
    BY <1>1, Counted, StillCounted DEF Numbers
  <2>2. CASE q = r
    <3>1. N(chan[q], t) + N(drained[q], t) + N(events[q], t) <= N(pending, t)
      BY DEF CInv, FlightFits
    <3>2. N(events[q], t) = (IF x = t THEN 1 ELSE 0) + N(events'[q], t)
      BY <1>2, <2>2
    <3> QED BY <1>6, <2>1, <3>1, <3>2
  <2>3. CASE q # r
    <3>1. events'[q] = <<>> /\ chan[q] = <<>> /\ drained[q] = <<>>
      BY <1>1, <1>4, <2>3
    <3>2. N(<<>>, t) = 0
      BY NEmpty
    <3> QED BY <2>1, <3>1, <3>2
  <2> QED BY <2>2, <2>3
<1>9. ASSUME NEW t \in Text
      PROVE  reads'[t] + N(mirror', t) + Unread(r, t)' + said[t] + ReadAndOwed(r, t)
                <= reads[t] + N(mirror, t) + Unread(r, t) + said'[t] + ReadAndOwed(r, t)'
  <2>1. ReadAndOwed(r, t) = N(queued[r], t) + N(events[r], t) /\ ReadAndOwed(r, t)' = N(queued[r], t) + N(events'[r], t)
    BY <1>1, <1>3 DEF ReadAndOwed
  <2>2. Unread(r, t)' = Unread(r, t)
    BY <1>1 DEF Unread
  <2>3. /\ reads[t] \in Nat /\ said[t] \in Nat /\ N(mirror', t) \in Nat /\ Unread(r, t) \in {0, 1}
        /\ N(queued[r], t) \in Nat /\ N(events'[r], t) \in Nat
    BY Counted, StillCounted DEF Numbers
  <2>4. N(events[r], t) = (IF x = t THEN 1 ELSE 0) + N(events'[r], t)
    BY <1>2
  <2>5. N(mirror, t) = N(mirror', t) + (IF x = t THEN 1 ELSE 0)
    BY <1>6
  <2>6. reads'[t] = reads[t] /\ said'[t] = said[t]
    BY <1>1
  <2> DEFINE d == IF x = t THEN 1 ELSE 0
  <2>7. d \in {0, 1} /\ N(mirror, t) = N(mirror', t) + d /\ ReadAndOwed(r, t) = ReadAndOwed(r, t)' + d
    BY <2>1, <2>3, <2>4, <2>5
  <2>8. ReadAndOwed(r, t)' \in Nat
    BY StillCounted DEF Numbers
  <2> HIDE DEF Unread, ReadAndOwed, d
  <2> QED BY <2>2, <2>3, <2>6, <2>7, <2>8
<1>10. CountsFit'
  BY <1>1, <1>3, <1>9, HoldCounts DEF CInv, Holding
<1> QED BY <1>7, <1>8, <1>10 DEF CInv

\* What the turn has read leaves the file, each copy once.
LEMMA StartedCounts ==
    ASSUME IInv, IInv', CInv, NEW r \in Run, Started(r)
    PROVE  CInv'
<1>1. /\ pc[r] \in {"over", "cut"} /\ events[r] = <<>> /\ Committed /\ EntryOK /\ MirrorIsOwed
      /\ pc' = [pc EXCEPT ![r] = "settled"] /\ pc \in [Run -> Places]
      /\ UNCHANGED <<chan, drained, hand, events>> /\ UNCHANGED <<reads, said, replayable>>
  BY DEF Started, To, turn, IInv, TypeOK, RunsOK
<1>2. TurnsFit'
  <2>1. TurnsFit
    BY DEF CInv
  <2> QED BY <1>1, <2>1 DEF TurnsFit
<1>3. ASSUME NEW t \in Text
      PROVE  N(mirror, t) = N(claimed, t) + N(mirror', t) /\ N(pending, t) <= N(pending', t)
  <2>1. N(pending, t) \in Nat
    BY Counted DEF Numbers
  <2> QED BY <1>1, <2>1, CommittedCopies
<1>4. FlightFits'
  BY <1>1, <1>3, FlightStays DEF CInv
<1>5. ASSUME NEW t \in Text PROVE N(mirror', t) + ReadAndOwed(r, t) <= N(mirror, t)
  <2>1. claimed = queued[r]
    BY <1>1 DEF IInv, HoldIsClaimed, Holding
  <2>2. ReadAndOwed(r, t) <= N(claimed, t)
    <3>1. N(<<>>, t) = 0 /\ N(queued[r], t) \in Nat
      BY NEmpty, Counted DEF Numbers
    <3> QED BY <1>1, <2>1, <3>1 DEF ReadAndOwed
  <2>3. N(mirror', t) \in Nat /\ ReadAndOwed(r, t) \in Nat /\ N(queued[r], t) \in Nat
    BY Counted, StillCounted DEF Numbers
  <2> HIDE DEF ReadAndOwed
  <2> QED BY <1>3, <2>1, <2>2, <2>3
<1>6. CountsFit'
  <2>1. pc[r] \in Holding /\ pc'[r] \notin Holding /\ \A q \in Run \ {r} : pc'[q] = pc[q]
    BY <1>1 DEF Holding
  <2> QED BY <1>1, <1>5, <2>1, LetGoCounts DEF CInv
<1> QED BY <1>2, <1>4, <1>6 DEF CInv

\* What the turn did not read goes back ahead of what was said meanwhile.
LEMMA ReleaseCounts ==
    ASSUME IInv, IInv', CInv, NEW r \in Run, Release(r)
    PROVE  CInv'
<1>1. /\ pc[r] \in {"dropped", "settled", "begun"} /\ events[r] = <<>> /\ End(queued[r])
      /\ EntryOK /\ MirrorIsOwed /\ pc \in [Run -> Places]
      /\ pc' = [pc EXCEPT ![r] = pc'[r]] /\ pc'[r] \in {"claimed", "closing"}
      /\ Idle(r) /\ UNCHANGED <<events, reads, said, replayable>>
  BY DEF Release, To, hist, IInv, TypeOK, RunsOK
<1>2. /\ chan' = [chan EXCEPT ![r] = <<>>] /\ drained' = [drained EXCEPT ![r] = <<>>]
      /\ chan \in [Run -> Seq(Text)] /\ drained \in [Run -> Seq(Text)]
  BY <1>1 DEF Idle, IInv, TypeOK, TurnOK
<1>3. TurnsFit'
  <2>1. TurnsFit
    BY DEF CInv
  <2> QED BY <1>1, <1>2, <2>1 DEF TurnsFit
<1>4. \A q \in Run \ {r} : pc[q] = "idle"
  BY <1>1, OneHolds
<1>5. claimed = queued[r]
  <2>1. CASE pc[r] \in Holding
    BY <2>1 DEF IInv, HoldIsClaimed
  <2>2. CASE pc[r] = "settled"
    <3>1. \A q \in Run : pc[q] \notin Holding
      BY <1>4, <2>2 DEF Holding
    <3> QED BY <3>1 DEF IInv, HoldIsClaimed
  <2> QED BY <1>1, <2>1, <2>2 DEF Holding
<1>6. \A t \in Text : N(mirror', t) = N(mirror, t) /\ N(pending, t) <= N(pending', t)
  BY <1>1, <1>5, EndCopies
<1>7. FlightFits'
  <2> SUFFICES ASSUME NEW q \in Run, NEW t \in Text
               PROVE  N(chan'[q], t) + N(drained'[q], t) + N(events[q], t) <= N(pending', t)
    BY <1>1 DEF FlightFits
  <2>1. chan'[q] = <<>> /\ drained'[q] = <<>> /\ events[q] = <<>>
    <3>1. CASE q = r
      BY <1>1, <1>2, <3>1
    <3>2. CASE q # r
      BY <1>2, <1>4, <3>2 DEF CInv, TurnsFit
    <3> QED BY <3>1, <3>2
  <2>2. N(<<>>, t) = 0 /\ N(pending', t) \in Nat
    BY NEmpty, StillCounted DEF Numbers
  <2> QED BY <2>1, <2>2
<1>8. CountsFit'
  <2>1. \A t \in Text : N(mirror, t) \in Nat
    BY Counted DEF Numbers
  <2>2. CASE pc[r] \in Holding
    <3>1. ASSUME NEW t \in Text PROVE N(mirror', t) + ReadAndOwed(r, t) <= N(mirror, t)
      <4>1. N(<<>>, t) = 0
        BY NEmpty
      <4>2. ReadAndOwed(r, t) = 0
        BY <1>1, <4>1 DEF ReadAndOwed
      <4> QED BY <1>6, <2>1, <4>2
    <3>2. pc'[r] \notin Holding /\ \A q \in Run \ {r} : pc'[q] = pc[q]
      BY <1>1 DEF Holding
    <3> QED BY <1>1, <2>2, <3>1, <3>2, LetGoCounts DEF CInv
  <2>3. CASE pc[r] \notin Holding
    <3>1. \A q \in Run : pc[q] \notin Holding /\ pc'[q] \notin Holding
      BY <1>1, <1>4, <2>3 DEF Holding
    <3>2. \A t \in Text : N(mirror', t) <= N(mirror, t)
      BY <1>6, <2>1
    <3> QED BY <1>1, <3>1, <3>2, FreeCounts DEF CInv
  <2> QED BY <2>2, <2>3
<1> QED BY <1>3, <1>7, <1>8 DEF CInv

\* A dropped call, and a kill, may say a thing twice.
LEMMA AbandonCounts ==
    ASSUME IInv, IInv', CInv, NEW r \in Run, Abandon(r)
    PROVE  CInv'
<1>1. /\ Idle(r) /\ events' = [events EXCEPT ![r] = <<>>] /\ replayable' = TRUE
      /\ pc' = [pc EXCEPT ![r] = "dropped"] /\ pc \in [Run -> Places] /\ UNCHANGED pending
      /\ events \in [Run -> Seq(Text)] /\ chan \in [Run -> Seq(Text)] /\ drained \in [Run -> Seq(Text)]
  BY DEF Abandon, To, entry, IInv, TypeOK, RunsOK, TurnOK
<1>2. TurnsFit'
  <2>1. TurnsFit
    BY DEF CInv
  <2> QED BY <1>1, <2>1 DEF TurnsFit, Idle
<1>3. FlightFits'
  BY <1>1, FlightEnds DEF CInv
<1>4. CountsFit'
  BY <1>1 DEF CountsFit
<1> QED BY <1>2, <1>3, <1>4 DEF CInv

\* A crash clears the turns.
LEMMA CrashCounts ==
    ASSUME IInv, IInv', Crash
    PROVE  CInv'
<1>1. TurnsFit' /\ CountsFit'
  BY DEF Crash, TurnsFit, CountsFit
<1>2. FlightFits'
  <2> SUFFICES ASSUME NEW q \in Run, NEW t \in Text
               PROVE  N(chan'[q], t) + N(drained'[q], t) + N(events'[q], t) <= N(pending', t)
    BY DEF FlightFits
  <2>1. chan'[q] = <<>> /\ drained'[q] = <<>> /\ events'[q] = <<>> /\ N(<<>>, t) = 0 /\ N(pending', t) \in Nat
    BY NEmpty, StillCounted DEF Numbers, Crash
  <2> QED BY <2>1
<1> QED BY <1>1, <1>2 DEF CInv

-----------------------------------------------------------------------------
(* The counted theorems. *)

\* No copy at the start.
LEMMA InitCounts == Init => CInv
<1> SUFFICES ASSUME Init PROVE CInv
  OBVIOUS
<1>1. \A t \in Text : N(<<>>, t) = 0
  BY NEmpty
<1>2. TurnsFit
  BY DEF Init, TurnsFit
<1>3. FlightFits
  BY <1>1 DEF Init, FlightFits
<1>4. CountsFit
  BY <1>1 DEF Init, CountsFit, Holding
<1> QED BY <1>2, <1>3, <1>4 DEF CInv

\* Every step keeps the copies counted.
LEMMA NextCounts == IInv /\ IInv' /\ CInv /\ [Next]_vars => CInv'
<1> SUFFICES ASSUME IInv, IInv', CInv, [Next]_vars PROVE CInv'
  OBVIOUS
<1>1. CASE UNCHANGED vars
  <2>1. UNCHANGED <<entry, runs, turn, reads, hist>>
    BY <1>1 DEF vars
  <2>2. UNCHANGED <<pending, mirror, pc, queued, chan, drained, hand, events, reads, said, replayable>>
    BY <2>1 DEF entry, runs, turn, hist
  <2> QED BY <2>2 DEF CInv, TurnsFit, FlightFits, CountsFit, ReadAndOwed, Unread
<1>2. ASSUME NEW c \in Caller, CallerStep(c) PROVE CInv'
  <2>1. ASSUME NEW t \in Text, SendSteered(c, t) PROVE CInv'
    BY <2>1, SteerCounts DEF SendSteered
  <2>2. CASE (\E t \in Text : SendUnsteered(c, t)) \/ LookAtClaim(c) \/ Hold(c) \/ Park(c) \/ ResumeDeclined(c)
    BY <2>2, VerbCounts
  <2>3. ASSUME NEW r \in Run, NEW k \in Kinds, ResumeClaims(c, r, k) PROVE CInv'
    BY <2>3, ClaimCounts
  <2> QED BY <1>2, <2>1, <2>2, <2>3 DEF CallerStep
<1>3. ASSUME NEW r \in Run, RunStep(r) PROVE CInv'
  <2>1. CASE (\E k \in Kinds : Claim(r, k)) \/ Unclaim(r)
    <3>1. "background" \in Kinds
      BY DEF Kinds
    <3> QED BY <2>1, <3>1, ClaimCounts
  <2> QED BY <1>3, <2>1, BeginRunCounts, StartedCounts, ReleaseCounts, AbandonCounts DEF RunStep
<1>4. ASSUME NEW r \in Run, TurnStep(r) PROVE CInv'
  BY <1>4, StartTurnCounts, EndTurnCounts, DrainCounts, AnnounceCounts, AppendSteerCounts DEF TurnStep
<1>5. ASSUME NEW t \in Text, RouteSteered(t) PROVE CInv'
  BY <1>5, SteerCounts DEF RouteSteered
<1> QED BY <1>1, <1>2, <1>3, <1>4, <1>5, PublishCounts, VerbCounts, CrashCounts DEF Next

\* The copies are counted in every reachable state.
THEOREM CopiesCounted == Spec => []CInv
<1>1. Init => CInv
  BY InitCounts
<1>2. IInv /\ IInv' /\ CInv /\ [Next]_vars => CInv'
  BY NextCounts
<1> QED BY <1>1, <1>2, Invariance, PTL DEF Spec

\* What a live turn has not read is owed still (ChildSteers::steer, the watcher).
THEOREM InFlightOwed == Spec => []InFlightIsOwed
<1>1. IInv /\ CInv => InFlightIsOwed
  <2> SUFFICES ASSUME IInv, CInv, NEW r \in Run, NEW t \in Elems(chan[r]) \cup Elems(drained[r])
               PROVE  t \in Elems(pending)
    BY DEF InFlightIsOwed
  <2>1. chan[r] \in Seq(Text) /\ drained[r] \in Seq(Text) /\ pending \in Seq(Text)
    BY DEF IInv, TypeOK, TurnOK, EntryOK
  <2>2. t \in Text
    BY <2>1, ElemsType
  <2>3. /\ N(chan[r], t) \in Nat /\ N(drained[r], t) \in Nat /\ N(events[r], t) \in Nat
        /\ N(pending, t) \in Nat
    BY <2>2, Counted DEF Numbers
  <2>4. N(chan[r], t) # 0 \/ N(drained[r], t) # 0
    BY <2>1, <2>2, NType
  <2>5. N(chan[r], t) + N(drained[r], t) + N(events[r], t) <= N(pending, t)
    BY <2>2 DEF CInv, FlightFits
  <2>6. N(pending, t) # 0
    BY <2>3, <2>4, <2>5
  <2> QED BY <2>1, <2>2, <2>6, NType
<1> QED BY <1>1, Invariance, CopiesCounted, PTL

\* No message is put before the child more often than it was accepted (the hold
\* gives back only what its turn did not append).
THEOREM NothingIsReplayed == Spec => []NoReplay
<1>1. IInv /\ CInv => NoReplay
  <2> SUFFICES ASSUME IInv, CInv, ~replayable, NEW t \in Text PROVE reads[t] <= said[t]
    BY DEF NoReplay
  <2>1. reads[t] \in Nat /\ said[t] \in Nat /\ N(mirror, t) \in Nat /\ N(pending, t) \in Nat
    BY Counted DEF Numbers
  <2>2. CASE \A r \in Run : pc[r] \notin Holding
    <3>1. reads[t] + N(mirror, t) <= said[t]
      BY <2>2 DEF CInv, CountsFit
    <3> QED BY <2>1, <3>1
  <2>3. ASSUME NEW r \in Run, pc[r] \in Holding PROVE reads[t] <= said[t]
    <3>1. reads[t] + N(mirror, t) + Unread(r, t) <= said[t] + ReadAndOwed(r, t)
      BY <2>3 DEF CInv, CountsFit
    <3>2. /\ Unread(r, t) \in {0, 1} /\ ReadAndOwed(r, t) \in Nat /\ N(queued[r], t) \in Nat
          /\ N(chan[r], t) \in Nat /\ N(drained[r], t) \in Nat /\ N(events[r], t) \in Nat
      BY Counted DEF Numbers
    <3>3. claimed = queued[r]
      BY <2>3 DEF IInv, HoldIsClaimed
    <3>4. N(events[r], t) <= N(pending, t)
      <4>1. N(chan[r], t) + N(drained[r], t) + N(events[r], t) <= N(pending, t)
        BY DEF CInv, FlightFits
      <4> QED BY <2>1, <3>2, <4>1
    <3>5. /\ N(mirror, t) = N(claimed, t) + N(Waiting, t) /\ N(pending, t) <= N(Waiting, t)
          /\ N(Waiting, t) \in Nat /\ N(claimed, t) \in Nat
      BY CopiesOwed DEF IInv, TypeOK
    <3>6. ReadAndOwed(r, t) <= N(queued[r], t) + N(events[r], t)
      BY <3>2 DEF ReadAndOwed
    <3>7. ReadAndOwed(r, t) <= N(mirror, t)
      <4> HIDE DEF ReadAndOwed
      <4>1. N(queued[r], t) + N(events[r], t) <= N(claimed, t) + N(Waiting, t)
        BY <2>1, <3>2, <3>3, <3>4, <3>5
      <4> QED BY <3>2, <3>5, <3>6, <4>1
    <3> HIDE DEF ReadAndOwed, Unread
    <3> QED BY <2>1, <3>1, <3>2, <3>7
  <2> QED BY <2>2, <2>3
<1> QED BY <1>1, Invariance, CopiesCounted, PTL

-----------------------------------------------------------------------------
(* The order of what is owed. *)

\* A sequence is in its own order.
LEMMA SameOrder ==
    ASSUME NEW s \in Seq(Text)
    PROVE  IsSubsequence(s, s)
<1> DEFINE f == [i \in DOMAIN s |-> i]
<1>1. f \in [DOMAIN s -> DOMAIN s]
  OBVIOUS
<1>2. /\ \A i, j \in DOMAIN s : i < j => f[i] < f[j]
      /\ \A i \in DOMAIN s : s[i] = s[f[i]]
  OBVIOUS
<1> HIDE DEF f
<1> QED BY <1>1, <1>2 DEF IsSubsequence

\* What is left of a sequence when a piece of it goes is in its order.
LEMMA PieceGone ==
    ASSUME NEW a \in Seq(Text), NEW u \in Seq(Text), NEW b \in Seq(Text)
    PROVE  IsSubsequence(a \o b, a \o (u \o b))
<1> DEFINE ub == u \o b
           s == a \o b
           t == a \o ub
           f == [i \in DOMAIN s |-> IF i <= Len(a) THEN i ELSE i + Len(u)]
<1>1. Len(a) \in Nat /\ Len(u) \in Nat /\ Len(b) \in Nat
  BY LenProperties
<1>2. /\ ub \in Seq(Text) /\ Len(ub) = Len(u) + Len(b)
      /\ \A i \in 1 .. Len(u) + Len(b) : ub[i] = IF i <= Len(u) THEN u[i] ELSE b[i - Len(u)]
  BY ConcatProperties
<1> HIDE DEF ub
<1>3. /\ s \in Seq(Text) /\ Len(s) = Len(a) + Len(b)
      /\ \A i \in 1 .. Len(a) + Len(b) : s[i] = IF i <= Len(a) THEN a[i] ELSE b[i - Len(a)]
  BY ConcatProperties
<1>4. /\ t \in Seq(Text) /\ Len(t) = Len(a) + Len(ub)
      /\ \A i \in 1 .. Len(a) + Len(ub) : t[i] = IF i <= Len(a) THEN a[i] ELSE ub[i - Len(a)]
  <2>1. ub \in Seq(Text)
    BY <1>2
  <2> QED BY <2>1, ConcatProperties
<1> HIDE DEF s, t
<1>5. DOMAIN s = 1 .. Len(a) + Len(b) /\ DOMAIN t = 1 .. Len(a) + (Len(u) + Len(b))
  BY <1>2, <1>3, <1>4, LenProperties
<1>6. f \in [DOMAIN s -> DOMAIN t]
  <2>1. ASSUME NEW i \in DOMAIN s PROVE (IF i <= Len(a) THEN i ELSE i + Len(u)) \in DOMAIN t
    BY <1>1, <1>5
  <2> QED BY <2>1
<1>7. ASSUME NEW i \in DOMAIN s, NEW j \in DOMAIN s, i < j PROVE f[i] < f[j]
  BY <1>1, <1>5, <1>7
<1>8. ASSUME NEW i \in DOMAIN s PROVE s[i] = t[f[i]]
  <2>1. CASE i <= Len(a)
    <3>1. i \in 1 .. Len(a) + Len(ub) /\ f[i] = i
      BY <1>1, <1>2, <1>5, <2>1
    <3> QED BY <1>3, <1>4, <1>5, <2>1, <3>1
  <2>2. CASE ~(i <= Len(a))
    <3> DEFINE k == i + Len(u)
    <3>1. /\ k \in 1 .. Len(a) + Len(ub) /\ ~(k <= Len(a)) /\ k - Len(a) \in 1 .. Len(u) + Len(b)
          /\ ~(k - Len(a) <= Len(u)) /\ (k - Len(a)) - Len(u) = i - Len(a)
      BY <1>1, <1>2, <1>5, <2>2
    <3>2. f[i] = k
      BY <2>2
    <3> HIDE DEF k, f
    <3>3. t[k] = ub[k - Len(a)]
      BY <1>4, <3>1
    <3>4. ub[k - Len(a)] = b[i - Len(a)]
      BY <1>2, <3>1
    <3>5. s[i] = b[i - Len(a)]
      BY <1>3, <1>5, <2>2
    <3> QED BY <3>2, <3>3, <3>4, <3>5
  <2> QED BY <2>1, <2>2
<1> HIDE DEF f
<1>9. IsSubsequence(s, t)
  BY <1>6, <1>7, <1>8 DEF IsSubsequence
<1> QED BY <1>9 DEF s, t, ub

\* The file is what is claimed and then what waits.
LEMMA MirrorIs ==
    ASSUME EntryOK, MirrorIsOwed
    PROVE  /\ mirror = claimed \o Waiting /\ Waiting \in Seq(Text)
           /\ claimed \in Seq(Text) /\ mirror \in Seq(Text)
<1>1. CASE loaded
  BY <1>1 DEF MirrorIsOwed, Waiting, EntryOK
<1>2. CASE ~loaded
  <2>1. claimed = <<>> /\ Waiting = mirror /\ mirror \in Seq(Text)
    BY <1>2 DEF MirrorIsOwed, Waiting, EntryOK
  <2> QED BY <2>1, ConcatEmptySeq DEF EntryOK
<1> QED BY <1>1, <1>2 DEF EntryOK

\* What one step may do to it.
InOrder ==
    \/ IsSubsequence(mirror', mirror)
    \/ \E t \in Text : IsSubsequence(mirror', Append(mirror, t))

\* The file as it was is in order.
LEMMA SameIsInOrder == ASSUME EntryOK, mirror' = mirror PROVE InOrder
  BY SameOrder DEF InOrder, EntryOK

\* A message joined at the end is in order.
LEMMA JoinIsInOrder ==
    ASSUME EntryOK, MirrorIsOwed, NEW t \in Text, mirror' = claimed \o Append(Waiting, t)
    PROVE  InOrder
<1> DEFINE u == <<t>>
<1>1. u \in Seq(Text) /\ mirror = claimed \o Waiting /\ Waiting \in Seq(Text) /\ claimed \in Seq(Text)
      /\ mirror \in Seq(Text)
  BY MirrorIs
<1>2. Append(Waiting, t) = Waiting \o u /\ Append(mirror, t) = mirror \o u
  BY <1>1, AppendIsConcat
<1> HIDE DEF u
<1>3. (claimed \o Waiting) \o u = claimed \o (Waiting \o u)
  BY <1>1, ConcatAssociative
<1>4. mirror' = Append(mirror, t)
  BY <1>1, <1>2, <1>3
<1>5. Append(mirror, t) \in Seq(Text)
  BY <1>1, ElemsAppend
<1> QED BY <1>4, <1>5, SameOrder DEF InOrder

\* A queue puts its message last, or nowhere.
LEMMA QueueInOrder == ASSUME EntryOK, MirrorIsOwed, NEW t \in Text, Queue(t) PROVE InOrder
<1>1. mirror = claimed \o Waiting
  BY MirrorIs
<1>2. mirror' = claimed \o (IF t \in Elems(Waiting) THEN Waiting ELSE Append(Waiting, t))
  BY DEF Queue, Keep
<1>3. CASE t \in Elems(Waiting)
  BY <1>1, <1>2, <1>3, SameIsInOrder
<1>4. CASE t \notin Elems(Waiting)
  BY <1>2, <1>4, JoinIsInOrder
<1> QED BY <1>3, <1>4

\* A delivery takes one message out of the line.
LEMMA DeliveredInOrder == ASSUME EntryOK, MirrorIsOwed, NEW x \in Text, Delivered(x) PROVE InOrder
<1>1. CASE loaded /\ x \in Elems(pending)
  <2>1. pending \in Seq(Text) /\ claimed \in Seq(Text) /\ mirror = claimed \o pending
    BY <1>1 DEF EntryOK, MirrorIsOwed
  <2>2. PICK front \in Seq(Text), back \in Seq(Text) :
           pending = front \o (<<x>> \o back) /\ Without(pending, x) = front \o back
    BY <1>1, <2>1, WithoutParts
  <2>3. mirror' = claimed \o (front \o back)
    BY <1>1, <2>2 DEF Delivered, KeepOrPrune
  <2> DEFINE u == <<x>>
             rest == u \o back
             a == claimed \o front
  <2>4. u \in Seq(Text)
    OBVIOUS
  <2>5. pending = front \o rest
    BY <2>2
  <2> HIDE DEF u
  <2>6. rest \in Seq(Text) /\ a \in Seq(Text)
    BY <2>1, <2>4, ConcatProperties
  <2>7. a \o back = claimed \o (front \o back)
    BY <2>1, ConcatAssociative
  <2>8. IsSubsequence(a \o back, a \o rest)
    BY <2>4, <2>6, PieceGone
  <2> HIDE DEF rest
  <2>9. a \o rest = claimed \o (front \o rest)
    BY <2>1, <2>6, ConcatAssociative, SMTT(30)
  <2> HIDE DEF a
  <2> QED BY <2>1, <2>3, <2>5, <2>7, <2>8, <2>9 DEF InOrder
<1>2. CASE loaded /\ x \notin Elems(pending)
  <2>1. mirror' = mirror
    BY <1>2 DEF Delivered, KeepOrPrune, MirrorIsOwed
  <2> QED BY <2>1, SameIsInOrder
<1>3. CASE ~loaded
  <2>1. mirror' = mirror
    BY <1>3 DEF Delivered, entry
  <2> QED BY <2>1, SameIsInOrder
<1> QED BY <1>1, <1>2, <1>3

\* A commit takes the claimed front off.
LEMMA CommittedInOrder == ASSUME EntryOK, MirrorIsOwed, Committed PROVE InOrder
<1>1. CASE loaded
  <2>1. pending \in Seq(Text) /\ claimed \in Seq(Text) /\ mirror = claimed \o pending
    BY <1>1 DEF EntryOK, MirrorIsOwed
  <2>2. mirror' = <<>> \o pending /\ <<>> \in Seq(Text)
    BY <1>1 DEF Committed, KeepOrPrune
  <2>3. claimed \o pending \in Seq(Text)
    BY <2>1, ConcatProperties
  <2>4. IsSubsequence(<<>> \o pending, <<>> \o (claimed \o pending))
    BY <2>1, <2>2, PieceGone
  <2>5. <<>> \o (claimed \o pending) = claimed \o pending
    BY <2>3, ConcatEmptySeq
  <2> QED BY <2>1, <2>2, <2>4, <2>5 DEF InOrder
<1>2. CASE ~loaded
  <2>1. mirror' = mirror
    BY <1>2 DEF Committed, entry
  <2> QED BY <2>1, SameIsInOrder
<1> QED BY <1>1, <1>2

\* The other methods leave the file as it was.
LEMMA OthersInOrder ==
    ASSUME EntryOK, MirrorIsOwed,
           Peek \/ End(claimed) \/ (claimed = <<>> /\ \E s \in Run \cup {NoRun} : Begin(s))
    PROVE  InOrder
<1>1. mirror = claimed \o Waiting /\ Waiting \in Seq(Text) /\ mirror \in Seq(Text)
  BY MirrorIs
<1>2. CASE Peek
  BY <1>1, <1>2, SameIsInOrder DEF Peek, KeepOrPrune
<1>3. CASE End(claimed)
  <2>1. mirror' = <<>> \o (claimed \o Waiting)
    BY <1>3 DEF End, KeepOrPrune
  <2>2. <<>> \o mirror = mirror
    BY <1>1, ConcatEmptySeq
  <2> QED BY <1>1, <2>1, <2>2, SameIsInOrder
<1>4. CASE claimed = <<>> /\ \E s \in Run \cup {NoRun} : Begin(s)
  <2>1. mirror' = Waiting \o <<>>
    BY <1>4 DEF Begin, Keep
  <2>2. Waiting \o <<>> = Waiting /\ <<>> \o Waiting = Waiting
    BY <1>1, ConcatEmptySeq
  <2> QED BY <1>1, <1>4, <2>1, <2>2, SameIsInOrder
<1> QED BY <1>2, <1>3, <1>4

\* One step never reorders what is owed (begin, queue, steer, delivered, end).
THEOREM OrderIsKept == Spec => OwedKeepsOrder
<1>1. ASSUME IInv, Next PROVE InOrder
  <2>1. EntryOK /\ MirrorIsOwed
    BY <1>1 DEF IInv, TypeOK
  <2>2. ASSUME NEW t \in Text, Steerable, Steer(t) PROVE InOrder
    <3>1. Waiting = pending
      BY <2>2 DEF Steerable, Waiting
    <3> QED BY <2>1, <2>2, <3>1, JoinIsInOrder DEF Steer, Keep
  <2>3. ASSUME NEW c \in Caller, CallerStep(c) PROVE InOrder
    <3>1. CASE \E t \in Text : SendSteered(c, t)
      BY <2>2, <3>1 DEF SendSteered
    <3>2. CASE (\E t \in Text : SendUnsteered(c, t)) \/ LookAtClaim(c) \/ (\E r \in Run, k \in Kinds : ResumeClaims(c, r, k))
      BY <2>1, <3>2, SameIsInOrder DEF SendUnsteered, LookAtClaim, ResumeClaims, entry
    <3>3. CASE Hold(c) \/ Park(c)
      <4>1. words[c] \in Text
        BY <1>1, <3>3 DEF Hold, Park, IInv, TypeOK, VerbOK
      <4> QED BY <2>1, <3>3, <4>1, QueueInOrder DEF Hold, Park
    <3>4. CASE ResumeDeclined(c)
      BY <2>1, <3>4, OthersInOrder DEF ResumeDeclined
    <3> QED BY <2>3, <3>1, <3>2, <3>3, <3>4 DEF CallerStep
  <2>4. ASSUME NEW r \in Run, RunStep(r) PROVE InOrder
    <3>1. CASE (\E k \in Kinds : Claim(r, k)) \/ Unclaim(r) \/ Abandon(r)
      BY <2>1, <3>1, SameIsInOrder DEF Claim, Unclaim, Abandon, entry
    <3>2. CASE BeginRun(r)
      <4>1. claimed = <<>>
        BY <1>1, <3>2 DEF BeginRun, IInv, HoldIsClaimed, Holding
      <4> DEFINE s == IF kind[r] = "routed" THEN NoRun ELSE r
      <4>2. s \in Run \cup {NoRun} /\ Begin(s)
        BY <3>2 DEF BeginRun
      <4> HIDE DEF s
      <4> QED BY <2>1, <4>1, <4>2, OthersInOrder
    <3>3. CASE Started(r)
      BY <2>1, <3>3, CommittedInOrder DEF Started
    <3>4. CASE Release(r)
      <4>1. claimed = queued[r]
        <5>1. CASE pc[r] \in Holding
          BY <1>1, <5>1 DEF IInv, HoldIsClaimed
        <5>2. CASE pc[r] \notin Holding
          <6>1. pc[r] = "settled"
            BY <3>4, <5>2 DEF Release, Holding
          <6>2. \A q \in Run : pc[q] \notin Holding
            BY <1>1, <6>1, OneHolds DEF Holding
          <6> QED BY <1>1, <6>1, <6>2 DEF IInv, HoldIsClaimed
        <5> QED BY <5>1, <5>2
      <4> QED BY <2>1, <3>4, <4>1, OthersInOrder DEF Release
    <3> QED BY <2>4, <3>1, <3>2, <3>3, <3>4 DEF RunStep
  <2>5. ASSUME NEW r \in Run, TurnStep(r) PROVE InOrder
    <3>1. UNCHANGED entry
      BY <2>5 DEF TurnStep, StartTurn, NeverStart, NeverStartCut, Drain, Announce, AppendSteer,
                  AppendSteerFails, EndTurn
    <3> QED BY <2>1, <3>1, SameIsInOrder DEF entry
  <2>6. ASSUME NEW r \in Run, Publish(r) PROVE InOrder
    <3>1. events[r] \in Seq(Text) /\ events[r] # <<>>
      BY <1>1, <2>6 DEF Publish, IInv, TypeOK, TurnOK
    <3>2. Head(events[r]) \in Text
      BY <3>1, ElemsHeadTail
    <3> QED BY <2>1, <2>6, <3>2, DeliveredInOrder DEF Publish
  <2>7. CASE \E t \in Text : RouteSteered(t)
    BY <2>2, <2>7 DEF RouteSteered
  <2>8. CASE Count
    BY <2>1, <2>8, OthersInOrder DEF Count
  <2>9. CASE Crash
    BY <2>1, <2>9, SameIsInOrder DEF Crash
  <2> QED BY <1>1, <2>3, <2>4, <2>5, <2>6, <2>7, <2>8, <2>9 DEF Next
<1>2. IInv /\ [Next]_vars => [IsSubsequence(mirror', mirror)
                               \/ \E t \in Text : IsSubsequence(mirror', Append(mirror, t))]_vars
  BY <1>1 DEF InOrder
<1> QED BY <1>2, Invariance, PTL DEF Spec, OwedKeepsOrder

=============================================================================
