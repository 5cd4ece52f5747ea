---------------------------- MODULE SessionLogProofs ----------------------------
(* What a job reads of a session's log, and what it may do to it: every line,     *)
(* window, checkpoint and open session is made of entries, starts with the        *)
(* metadata and names no working tree that is still to come, whether an append is *)
(* written, torn, refused or failed, a log is loaded through its index or in full,*)
(* sealed, rewound, deleted or left by a death.                                   *)
EXTENDS TurnLoop, QueueLemmas

--------------------------------------------------------------------------------
(* The stages of a fold.                                                          *)
Stages(events, lines) ==
  LET fold[i \in 0..Len(lines)] ==
        IF i = 0 THEN events
        ELSE IF lines[i].k = "rewind" THEN SubSeq(fold[i - 1], 1, lines[i].n)
        ELSE Append(fold[i - 1], lines[i])
  IN fold

(* What an event does to the stream before it.                                    *)
Then(events, e) == IF e.k = "rewind" THEN SubSeq(events, 1, e.n) ELSE Append(events, e)

(* A fold takes its lines one by one.                                             *)
LEMMA StagesAre ==
  ASSUME NEW events, NEW lines \in Seq(Entry)
  PROVE  /\ Stages(events, lines)[0] = events
         /\ \A i \in 1..Len(lines) : Stages(events, lines)[i] = Then(Stages(events, lines)[i - 1], lines[i])
         /\ FoldedOnto(events, lines) = Stages(events, lines)[Len(lines)]
<1> DEFINE n == Len(lines)
           Next1(f, i) == IF i = 0 THEN events
                          ELSE IF lines[i].k = "rewind" THEN SubSeq(f[i - 1], 1, lines[i].n)
                          ELSE Append(f[i - 1], lines[i])
           Good(m) == \E f : f = [i \in 0 .. m |-> Next1(f, i)]
           Bad == {m \in 0 .. n : ~Good(m)}
           fold[i \in 0 .. n] == IF i = 0 THEN events
                                 ELSE IF lines[i].k = "rewind" THEN SubSeq(fold[i - 1], 1, lines[i].n)
                                 ELSE Append(fold[i - 1], lines[i])
<1>1. n \in Nat
  BY LenProperties
<1> HIDE DEF n
<1>2. Bad = {}
  <2>1. SUFFICES ASSUME Bad # {} PROVE FALSE
    OBVIOUS
  <2>2. PICK m \in Bad : \A k \in Bad : ~(k < m)
    <3>1. Bad \in SUBSET Nat
      BY <1>1
    <3> HIDE DEF Bad
    <3> QED BY <2>1, <3>1, Least
  <2>3. CASE m = 0
    <3> DEFINE f == [i \in 0 .. m |-> events]
    <3>1. f = [i \in 0 .. m |-> Next1(f, i)]
      BY <2>3
    <3> QED BY <2>2, <3>1
  <2>4. CASE m # 0
    <3>1. m \in 0 .. n /\ m - 1 \in 0 .. n /\ m - 1 < m
      BY <1>1, <2>2, <2>4
    <3>2. Good(m - 1)
      BY <2>2, <3>1
    <3>3. PICK g : g = [i \in 0 .. (m - 1) |-> Next1(g, i)]
      BY <3>2
    <3> DEFINE f == [i \in 0 .. m |-> IF i = m THEN Next1(g, i) ELSE g[i]]
    <3>4. ASSUME NEW i \in 0 .. m PROVE f[i] = Next1(f, i)
      <4>1. CASE i = 0
        <5>1. i \in 0 .. (m - 1) /\ i # m
          BY <3>1, <2>4, <4>1
        <5>2. g[i] = events
          BY <3>3, <4>1, <5>1
        <5> QED BY <4>1, <5>1, <5>2
      <4>2. CASE i # 0
        <5>1. i - 1 \in 0 .. (m - 1) /\ i - 1 # m /\ i - 1 \in 0 .. m /\ (i # m => i \in 0 .. (m - 1))
          BY <1>1, <3>1, <4>2
        <5>2. f[i - 1] = g[i - 1]
          BY <5>1
        <5>3. i # m => g[i] = Next1(g, i)
          BY <3>3, <5>1
        <5>4. f[i] = Next1(g, i)
          BY <5>3
        <5> QED BY <5>2, <5>4
      <4> QED BY <4>1, <4>2
    <3>5. f = [i \in 0 .. m |-> Next1(f, i)]
      BY <3>4
    <3> QED BY <2>2, <3>5
  <2> QED BY <2>3, <2>4
<1>3. Good(n)
  <2>1. n \in 0 .. n
    BY <1>1
  <2> HIDE DEF Good
  <2> QED BY <1>2, <2>1
<1>4. fold = [i \in 0 .. n |-> Next1(fold, i)]
  BY <1>3
<1>5. Stages(events, lines) = fold /\ FoldedOnto(events, lines) = fold[n]
  BY DEF Stages, FoldedOnto, n
<1> HIDE DEF fold
<1>6. fold[0] = events
  BY <1>1, <1>4
<1>7. ASSUME NEW i \in 1 .. n PROVE fold[i] = Then(fold[i - 1], lines[i])
  <2>1. i \in 0 .. n /\ i # 0
    BY <1>1
  <2> QED BY <1>4, <2>1 DEF Then
<1> QED BY <1>5, <1>6, <1>7 DEF n

(* The stages of a fold depend on the lines before them.                          *)
LEMMA StagesAgree ==
  ASSUME NEW events, NEW p \in Seq(Entry), NEW q \in Seq(Entry), NEW n \in Nat, n <= Len(p), n <= Len(q),
         \A i \in 1..n : p[i] = q[i]
  PROVE  Stages(events, p)[n] = Stages(events, q)[n]
<1> DEFINE f == Stages(events, p)
           g == Stages(events, q)
           Bad == {m \in 0..n : f[m] # g[m]}
<1>1. /\ f[0] = events /\ \A i \in 1..Len(p) : f[i] = Then(f[i - 1], p[i])
      /\ g[0] = events /\ \A i \in 1..Len(q) : g[i] = Then(g[i - 1], q[i])
      /\ Len(p) \in Nat /\ Len(q) \in Nat
  BY StagesAre, LenProperties
<1> HIDE DEF f, g
<1>2. Bad = {}
  <2>1. SUFFICES ASSUME Bad # {} PROVE FALSE
    OBVIOUS
  <2>2. PICK m \in Bad : \A k \in Bad : ~(k < m)
    <3>1. Bad \in SUBSET Nat
      OBVIOUS
    <3> HIDE DEF Bad
    <3> QED BY <2>1, <3>1, Least
  <2>3. m # 0 /\ m \in 1..n
    BY <1>1, <2>2
  <2>4. m - 1 \in 0..n /\ m - 1 < m /\ m \in 1..Len(p) /\ m \in 1..Len(q)
    BY <1>1, <2>3
  <2>5. f[m - 1] = g[m - 1]
    BY <2>2, <2>4
  <2>6. f[m] = g[m]
    BY <1>1, <2>3, <2>4, <2>5
  <2> QED BY <2>2, <2>6
<1>3. n \in 0..n
  OBVIOUS
<1> QED BY <1>2, <1>3 DEF f, g

(* A prefix, and one more line.                                                   *)
LEMMA FoldOf ==
  ASSUME NEW events, NEW lines \in Seq(Entry)
  PROVE  /\ \A n \in 0..Len(lines) : /\ SubSeq(lines, 1, n) \in Seq(Entry)
                                     /\ FoldedOnto(events, SubSeq(lines, 1, n)) = Stages(events, lines)[n]
         /\ \A e \in Entry : FoldedOnto(events, Append(lines, e)) = Then(FoldedOnto(events, lines), e)
         /\ FoldedOnto(events, <<>>) = events
<1>1. Len(lines) \in Nat
  BY LenProperties
<1>2. ASSUME NEW n \in 0..Len(lines)
      PROVE  /\ SubSeq(lines, 1, n) \in Seq(Entry)
             /\ FoldedOnto(events, SubSeq(lines, 1, n)) = Stages(events, lines)[n]
  <2> DEFINE p == SubSeq(lines, 1, n)
  <2>1. \A i \in 1..n : lines[i] \in Entry
    BY <1>1, ElementOfSeq
  <2>2. p \in Seq(Entry) /\ Len(p) = n /\ \A i \in 1..n : p[i] = lines[i]
    BY <1>1, <2>1, SubSeqProperties
  <2> HIDE DEF p
  <2>3. Stages(events, p)[n] = Stages(events, lines)[n]
    BY <1>1, <2>2, StagesAgree
  <2>4. FoldedOnto(events, p) = Stages(events, p)[n]
    BY <2>2, StagesAre
  <2> QED BY <2>2, <2>3, <2>4 DEF p
<1>3. ASSUME NEW e \in Entry PROVE FoldedOnto(events, Append(lines, e)) = Then(FoldedOnto(events, lines), e)
  <2> DEFINE q == Append(lines, e)
             n == Len(lines)
  <2>1. q \in Seq(Entry) /\ Len(q) = n + 1 /\ q[n + 1] = e /\ \A i \in 1..n : q[i] = lines[i]
    BY AppendProperties
  <2> HIDE DEF q
  <2>2. FoldedOnto(events, q) = Stages(events, q)[n + 1]
    BY <2>1, StagesAre
  <2>3. Stages(events, q)[n + 1] = Then(Stages(events, q)[n], e)
    <3>1. n + 1 \in 1..Len(q) /\ (n + 1) - 1 = n
      BY <1>1, <2>1
    <3> QED BY <2>1, <3>1, StagesAre
  <2>4. Stages(events, q)[n] = Stages(events, lines)[n]
    <3>1. n \in Nat /\ n <= Len(q) /\ n <= Len(lines)
      BY <1>1, <2>1
    <3> HIDE DEF n
    <3> QED BY <2>1, <3>1, StagesAgree
  <2>5. FoldedOnto(events, lines) = Stages(events, lines)[n]
    BY StagesAre
  <2> QED BY <2>2, <2>3, <2>4, <2>5 DEF q
<1>4. FoldedOnto(events, <<>>) = events
  <2> DEFINE none == <<>>
  <2>1. none \in Seq(Entry) /\ Len(none) = 0
    BY EmptySeq
  <2> HIDE DEF none
  <2>2. FoldedOnto(events, none) = Stages(events, none)[Len(none)]
    BY <2>1, StagesAre
  <2>3. Stages(events, none)[0] = events
    BY <2>1, StagesAre
  <2> QED BY <2>1, <2>2, <2>3 DEF none
<1> QED BY <1>2, <1>3, <1>4

(* A clean fold is made of its lines.                                             *)
LEMMA FoldIsClean ==
  ASSUME NEW lines \in Seq(Entry), FoldsCleanly(lines)
  PROVE  /\ Folded(lines) \in Seq(Entry)
         /\ \A i \in DOMAIN Folded(lines) : \E j \in DOMAIN lines : Folded(lines)[i] = lines[j]
<1> DEFINE f == Stages(<<>>, lines)
           Made(s) == s \in Seq(Entry) /\ \A i \in DOMAIN s : \E j \in DOMAIN lines : s[i] = lines[j]
           Bad == {m \in 0..Len(lines) : ~Made(f[m])}
<1>1. /\ Len(lines) \in Nat /\ DOMAIN lines = 1..Len(lines)
      /\ f[0] = <<>> /\ \A i \in 1..Len(lines) : f[i] = Then(f[i - 1], lines[i])
      /\ Folded(lines) = f[Len(lines)]
      /\ \A n \in 0..Len(lines) : FoldedOnto(<<>>, SubSeq(lines, 1, n)) = f[n]
      /\ \A i \in 1..Len(lines) : lines[i] \in Entry
  BY StagesAre, FoldOf, LenProperties, ElementOfSeq DEF Folded
<1> HIDE DEF f
<1>2. Bad = {}
  <2>1. SUFFICES ASSUME Bad # {} PROVE FALSE
    OBVIOUS
  <2>2. PICK m \in Bad : \A k \in Bad : ~(k < m)
    <3>1. Bad \in SUBSET Nat
      BY <1>1
    <3> HIDE DEF Bad
    <3> QED BY <2>1, <3>1, Least
  <2>3. m # 0
    <3>1. Made(<<>>)
      BY EmptySeq
    <3>2. m \in Bad /\ Made(f[0])
      BY <1>1, <2>2, <3>1
    <3> HIDE DEF Made
    <3> QED BY <3>2
  <2>4. m \in 1..Len(lines) /\ m - 1 \in 0..Len(lines) /\ m - 1 < m
    BY <1>1, <2>2, <2>3
  <2>5. Made(f[m - 1]) /\ f[m] = Then(f[m - 1], lines[m]) /\ lines[m] \in Entry
    BY <1>1, <2>2, <2>4
  <2> DEFINE s == f[m - 1]
             e == lines[m]
  <2>6. s \in Seq(Entry) /\ Len(s) \in Nat /\ DOMAIN s = 1..Len(s) /\ \A i \in 1..Len(s) : s[i] \in Entry
    BY <2>5, LenProperties, ElementOfSeq
  <2>7. CASE e.k = "rewind"
    <3>1. e.n <= Len(s) /\ e.n \in Nat
      <4>1. e.n <= Len(Folded(SubSeq(lines, 1, m - 1)))
        BY <1>1, <2>4, <2>7 DEF FoldsCleanly
      <4> QED BY <1>1, <2>4, <2>5, <4>1 DEF Folded, Entry
    <3> HIDE DEF s, e
    <3>2. \A i \in 1..e.n : i \in 1..Len(s) /\ s[i] \in Entry
      BY <2>6, <3>1
    <3>3. SubSeq(s, 1, e.n) \in Seq(Entry) /\ Len(SubSeq(s, 1, e.n)) = e.n
          /\ \A i \in 1..e.n : SubSeq(s, 1, e.n)[i] = s[i]
      BY <2>6, <3>1, <3>2, SubSeqProperties
    <3>4. DOMAIN SubSeq(s, 1, e.n) = 1..e.n
      BY <3>3, LenProperties
    <3>5. Made(SubSeq(s, 1, e.n))
      BY <2>5, <2>6, <3>2, <3>3, <3>4 DEF s
    <3> QED BY <2>2, <2>5, <2>7, <3>5 DEF Then, s, e
  <2>8. CASE e.k # "rewind"
    <3> HIDE DEF s, e
    <3>1. e \in Entry
      BY <2>5 DEF e
    <3>2. Append(s, e) \in Seq(Entry) /\ Len(Append(s, e)) = Len(s) + 1
          /\ (\A i \in 1..Len(s) : Append(s, e)[i] = s[i]) /\ Append(s, e)[Len(s) + 1] = e
      BY <2>6, <3>1, AppendProperties
    <3>3. DOMAIN Append(s, e) = 1..(Len(s) + 1)
      BY <3>2, LenProperties
    <3>4. ASSUME NEW i \in 1..(Len(s) + 1) PROVE \E j \in DOMAIN lines : Append(s, e)[i] = lines[j]
      <4>1. CASE i = Len(s) + 1
        BY <1>1, <2>4, <3>2, <4>1 DEF e
      <4>2. CASE i # Len(s) + 1
        <5>1. i \in 1..Len(s)
          BY <2>6, <4>2
        <5> QED BY <2>5, <2>6, <3>2, <5>1 DEF s
      <4> QED BY <4>1, <4>2
    <3>5. Made(Append(s, e))
      BY <3>2, <3>3, <3>4
    <3> QED BY <2>2, <2>5, <2>8, <3>5 DEF Then, s, e
  <2> QED BY <2>7, <2>8
<1>3. Len(lines) \in 0..Len(lines)
  BY <1>1
<1>4. Made(f[Len(lines)])
  BY <1>2, <1>3
<1> QED BY <1>1, <1>4

--------------------------------------------------------------------------------
(* A tree that an event records is one there was by then.                         *)
Dated(events, stamp) == \A i \in DOMAIN events : events[i].k = "tree" => events[i].n <= stamp

Rooted(events) == events # <<>> => events[1].k = "meta"

FileFits(f) ==
  /\ f \in [there : BOOLEAN, lines : Seq(Entry), torn : BOOLEAN, stamp : Nat]
  /\ ~f.there => f.lines = <<>> /\ ~f.torn
  /\ f.there => f.stamp >= 1
  /\ Dated(f.lines, f.stamp)

IndexFits(ix, stamp) == ix # None => ix \in IndexFile /\ Dated(ix.window, stamp)

SessionFits(s, stamp) ==
  /\ s \in OpenSession
  /\ s.tail <= Len(s.events) /\ s.stamp <= stamp
  /\ Rooted(s.events) /\ Dated(s.events, stamp) /\ IndexFits(s.ckpt, stamp)

LogFits ==
  /\ FileFits(file) /\ IndexFits(index, file.stamp)
  /\ sess \in [Actor -> OpenSession \cup {None}]
  /\ \A a \in Actor : sess[a] # None => at[a] = "held" /\ SessionFits(sess[a], file.stamp)

(* A fresh event of some kind.                                                    *)
LEMMA EventsAre ==
  ASSUME NEW k \in Kinds
  PROVE  /\ Event(k) \in Entry /\ Event(k).k = k /\ Event(k).n = 0 /\ Event(k).calls = <<>>
         /\ \A n \in Nat : [Event(k) EXCEPT !.n = n] \in Entry /\ [Event(k) EXCEPT !.n = n].k = k
                           /\ [Event(k) EXCEPT !.n = n].n = n
         /\ \A c \in Nat : [Event(k) EXCEPT !.call = c] \in Entry /\ [Event(k) EXCEPT !.call = c].k = k
         /\ \A p \in BOOLEAN : [Event(k) EXCEPT !.pics = p] \in Entry /\ [Event(k) EXCEPT !.pics = p].k = k
         /\ \A q \in Seq(Call) : [Event(k) EXCEPT !.calls = q] \in Entry /\ [Event(k) EXCEPT !.calls = q].k = k
                                 /\ [Event(k) EXCEPT !.calls = q].calls = q
BY EmptySeq DEF Event, Entry

(* The greatest of some numbers that are bounded.                                 *)
LEMMA GreatestIs ==
  ASSUME NEW S \in SUBSET Nat, NEW n \in Nat, \A m \in S : m <= n
  PROVE  /\ GreatestOf(S) \in S \cup {0} /\ GreatestOf(S) \in Nat
         /\ \A m \in S : m <= GreatestOf(S)
<1> DEFINE B == {k \in Nat : \A m \in S : m <= k}
<1>1. PICK k \in B : \A j \in B : ~(j < k)
  <2>1. B \in SUBSET Nat /\ n \in B
    OBVIOUS
  <2> HIDE DEF B
  <2> QED BY <2>1, Least
<1>2. k \in S \cup {0}
  <2>1. SUFFICES ASSUME k \notin S, k # 0 PROVE FALSE
    OBVIOUS
  <2>2. k - 1 \in B /\ k - 1 < k
    BY <1>1, <2>1
  <2> QED BY <1>1, <2>2
<1>3. k \in S \cup {0} /\ \A m \in S : m <= k
  BY <1>1, <1>2
<1>4. GreatestOf(S) \in S \cup {0} /\ \A m \in S : m <= GreatestOf(S)
  BY <1>3 DEF GreatestOf
<1>5. S \cup {0} \subseteq Nat
  OBVIOUS
<1> HIDE DEF B
<1> QED BY <1>4, <1>5

(* Where a log's newest compaction cuts it.                                       *)
LEMMA CutIs ==
  ASSUME NEW events \in Seq(Entry)
  PROVE  CompactionCut(events) \in 0..Len(events)
<1> DEFINE S == {LeastOf(events[i].n, i - 1) : i \in {j \in DOMAIN events : events[j].k = "compaction"}}
<1>1. Len(events) \in Nat /\ DOMAIN events = 1..Len(events) /\ \A i \in 1..Len(events) : events[i] \in Entry
  BY LenProperties, ElementOfSeq
<1>2. \A i \in DOMAIN events : LeastOf(events[i].n, i - 1) \in Nat /\ LeastOf(events[i].n, i - 1) <= Len(events)
  BY <1>1 DEF LeastOf, Entry
<1>3. S \in SUBSET Nat /\ \A m \in S : m <= Len(events)
  BY <1>2
<1>4. CompactionCut(events) = GreatestOf(S)
  BY DEF CompactionCut
<1> HIDE DEF S
<1>5. GreatestOf(S) \in S \cup {0} /\ GreatestOf(S) \in Nat
  BY <1>1, <1>3, GreatestIs
<1> QED BY <1>1, <1>3, <1>4, <1>5

(* The call ids of a log are call ids.                                            *)
LEMMA CallIdsAre ==
  ASSUME NEW events \in Seq(Entry)
  PROVE  CallIds(events) \in SUBSET Nat
<1>1. DOMAIN events = 1..Len(events) /\ \A i \in 1..Len(events) : events[i] \in Entry
  BY LenProperties, ElementOfSeq
<1>2. ASSUME NEW i \in DOMAIN events PROVE CallsOf(events[i]) \subseteq Nat
  <2> DEFINE q == events[i].calls
  <2>1. q \in Seq(Call)
    BY <1>1 DEF Entry
  <2>2. DOMAIN q = 1..Len(q) /\ \A j \in 1..Len(q) : q[j] \in Call
    BY <2>1, LenProperties, ElementOfSeq
  <2> QED BY <2>2 DEF CallsOf, Call
<1> QED BY <1>2 DEF CallIds

(* What is left to answer of a log is calls, and there is some when it is open.   *)
LEMMA UnansweredAre ==
  ASSUME NEW events \in Seq(Entry)
  PROVE  /\ Unanswered(events) \in Seq(Call) /\ Interrupted(events) \in Seq(Call)
         /\ OpenCalls(events) # {} => Unanswered(events) # <<>>
         /\ IsPending(events) => Unanswered(events) # <<>>
<1> DEFINE open == OpenCalls(events)
           Holds(i) == Range(events[i].calls) \cap open # {}
           holder == CHOOSE i \in DOMAIN events : Holds(i)
<1>1. DOMAIN events = 1..Len(events) /\ \A i \in 1..Len(events) : events[i] \in Entry
  BY LenProperties, ElementOfSeq
<1>2. <<>> \in Seq(Call)
  BY EmptySeq
<1>3. ASSUME open # {} PROVE Unanswered(events) \in Seq(Call) /\ Unanswered(events) # <<>>
  <2>1. PICK i \in DOMAIN events : Holds(i)
    BY <1>3 DEF OpenCalls
  <2>2. holder \in DOMAIN events /\ Holds(holder)
    BY <2>1
  <2> DEFINE q == events[holder].calls
  <2>3. Unanswered(events) = Within(q, open)
    BY <1>3 DEF Unanswered
  <2> HIDE DEF holder
  <2>4. q \in Seq(Call)
    BY <1>1, <2>2 DEF Entry
  <2>5. Range(q) \cap open # {}
    BY <2>2
  <2> HIDE DEF q
  <2>6. Within(q, open) \in Seq(Call) /\ Range(Within(q, open)) # {}
    BY <2>4, <2>5, Selected
  <2>7. Within(q, open) # <<>>
    BY <2>6, Positions
  <2> QED BY <2>3, <2>6, <2>7
<1>4. open = {} => Unanswered(events) = <<>>
  BY DEF Unanswered
<1>5. IsPending(events) => open # {}
  <2>1. Cardinality({}) = 0
    BY FS_EmptySet
  <2>2. IsPending(events) => Cardinality(OpenCalls(events)) = 1
    BY DEF IsPending
  <2>3. 0 # 1
    OBVIOUS
  <2> HIDE DEF open
  <2>4. open = {} => OpenCalls(events) = {}
    BY DEF open
  <2> QED BY <2>1, <2>2, <2>3, <2>4
<1> HIDE DEF open
<1>6. Unanswered(events) \in Seq(Call)
  BY <1>2, <1>3, <1>4
<1> QED BY <1>2, <1>3, <1>5, <1>6 DEF Interrupted, open

(* A sealed window is made of events.                                             *)
LEMMA SealedIs ==
  ASSUME NEW events \in Seq(Entry), NEW cut \in Nat, cut < Len(events),
         NEW stamp \in Nat, stamp >= 1, Dated(events, stamp)
  PROVE  /\ Sealed(events, cut) \in Seq(Entry) /\ Sealed(events, cut) # <<>>
         /\ Dated(Sealed(events, cut), stamp)
<1> DEFINE part == SubSeq(events, cut + 1, Len(events))
           one == <<events[1]>>
           window == one \o part
           last == CHOOSE i \in DOMAIN window :
                     /\ window[i].k = "compaction"
                     /\ \A j \in DOMAIN window : window[j].k = "compaction" => j <= i
<1>1. Len(events) \in Nat /\ DOMAIN events = 1..Len(events) /\ \A i \in 1..Len(events) : events[i] \in Entry
  BY LenProperties, ElementOfSeq
<1>2. part \in Seq(Entry) /\ Len(part) = Len(events) - cut
      /\ \A i \in 1..(Len(events) - cut) : part[i] = events[cut + i]
  <2>1. \A i \in (cut + 1)..Len(events) : events[i] \in Entry
    BY <1>1
  <2> DEFINE n == Len(events)
             m == cut + 1
  <2>2. n \in Int /\ m \in Int /\ m <= n /\ \A i \in m..n : events[i] \in Entry
    BY <1>1, <2>1
  <2> HIDE DEF n, m
  <2>3. SubSeq(events, m, n) \in Seq(Entry) /\ Len(SubSeq(events, m, n)) = n - m + 1
        /\ \A i \in 1..(n - m + 1) : SubSeq(events, m, n)[i] = events[m + i - 1]
    BY <2>2, SubSeqProperties
  <2>4. n - m + 1 = Len(events) - cut /\ \A i \in 1..(Len(events) - cut) : m + i - 1 = cut + i
    BY <1>1 DEF n, m
  <2> QED BY <2>3, <2>4 DEF n, m
<1>3. one \in Seq(Entry) /\ Len(one) = 1 /\ one[1] = events[1] /\ events[1] \in Entry
  <2>1. events[1] \in Entry
    BY <1>1
  <2> QED BY <2>1
<1> HIDE DEF part, one
<1>4. window \in Seq(Entry) /\ Len(window) = 1 + Len(part)
      /\ \A i \in 1..(1 + Len(part)) : window[i] = IF i <= 1 THEN one[i] ELSE part[i - 1]
  <2>1. window \in Seq(Entry) /\ Len(window) = Len(one) + Len(part)
        /\ \A i \in 1..(Len(one) + Len(part)) : window[i] = IF i <= Len(one) THEN one[i] ELSE part[i - Len(one)]
    BY <1>2, <1>3, ConcatProperties
  <2> HIDE DEF window
  <2> QED BY <1>3, <2>1
<1> DEFINE n == Len(window)
           made == [i \in DOMAIN window |->
                      IF i = last THEN [window[i] EXCEPT !.n = 1]
                      ELSE IF window[i].k = "cutoff" THEN [window[i] EXCEPT !.n = Rebased(window[i].n, cut)]
                      ELSE window[i]]
<1>5. Sealed(events, cut) = made
  BY DEF Sealed, part, one
<1>6. n \in Nat /\ n >= 1 /\ DOMAIN window = 1..n /\ \A i \in 1..n : window[i] \in Entry
  <2>1. n \in Nat /\ DOMAIN window = 1..n /\ \A i \in 1..n : window[i] \in Entry
    BY <1>4, LenProperties, ElementOfSeq
  <2> HIDE DEF window
  <2> QED BY <1>1, <1>2, <1>4, <2>1
<1>7. ASSUME NEW i \in 1..n
      PROVE  \E j \in DOMAIN events : window[i] = events[j]
  <2>1. CASE i = 1
    <3>1. 1 \in 1..(1 + Len(part)) /\ 1 \in DOMAIN events
      BY <1>1, <1>2
    <3>2. window[1] = events[1]
      BY <1>3, <1>4, <3>1
    <3> QED BY <2>1, <3>1, <3>2
  <2>2. CASE i # 1
    <3>1. i \in 1..(1 + Len(part)) /\ ~(i <= 1) /\ i - 1 \in 1..(Len(events) - cut)
          /\ cut + (i - 1) \in DOMAIN events
      BY <1>1, <1>2, <1>4, <2>2
    <3>2. window[i] = part[i - 1] /\ part[i - 1] = events[cut + (i - 1)]
      BY <1>2, <1>4, <3>1
    <3> QED BY <3>1, <3>2
  <2> QED BY <2>1, <2>2
<1> HIDE DEF window, last, n
<1>8. ASSUME NEW i \in 1..n
      PROVE  made[i] \in Entry /\ (made[i].k = "tree" => made[i].n <= stamp)
  <2>1. window[i] \in Entry /\ (window[i].k = "tree" => window[i].n <= stamp)
    BY <1>6, <1>7 DEF Dated
  <2>2. Rebased(window[i].n, cut) \in Nat
    BY <2>1 DEF Rebased, Entry
  <2>3. made[i] = IF i = last THEN [window[i] EXCEPT !.n = 1]
                  ELSE IF window[i].k = "cutoff" THEN [window[i] EXCEPT !.n = Rebased(window[i].n, cut)]
                  ELSE window[i]
    BY <1>6
  <2> HIDE DEF made
  <2>4. CASE i = last
    <3> DEFINE e == window[i]
    <3>1. made[i] = [e EXCEPT !.n = 1]
      BY <2>3, <2>4
    <3>2. e \in Entry
      BY <2>1
    <3> HIDE DEF e
    <3>3. [e EXCEPT !.n = 1] \in Entry /\ [e EXCEPT !.n = 1].n = 1
      BY <3>2 DEF Entry
    <3> QED BY <3>1, <3>3
  <2>5. CASE i # last /\ window[i].k = "cutoff"
    <3> DEFINE e == window[i]
               x == Rebased(window[i].n, cut)
    <3>1. made[i] = [e EXCEPT !.n = x]
      BY <2>3, <2>5
    <3>2. e \in Entry /\ x \in Nat /\ e.k # "tree"
      BY <2>1, <2>2, <2>5
    <3> HIDE DEF e, x
    <3>3. [e EXCEPT !.n = x] \in Entry /\ [e EXCEPT !.n = x].k = e.k
      BY <3>2 DEF Entry
    <3> QED BY <3>1, <3>2, <3>3
  <2>6. CASE i # last /\ window[i].k # "cutoff"
    BY <2>1, <2>3, <2>6
  <2> QED BY <2>4, <2>5, <2>6
<1>9. made \in [1..n -> Entry]
  BY <1>6, <1>8
<1>10. made \in Seq(Entry) /\ DOMAIN made = 1..n
  <2> HIDE DEF made
  <2> QED BY <1>6, <1>9
<1>11. Dated(made, stamp) /\ made # <<>>
  <2> HIDE DEF made
  <2>1. 1 \in DOMAIN made
    BY <1>6, <1>10
  <2>2. DOMAIN <<>> = {}
    OBVIOUS
  <2>3. made # <<>>
    BY <2>1, <2>2
  <2> QED BY <1>8, <1>10, <2>3 DEF Dated
<1> QED BY <1>5, <1>10, <1>11

(* Where a turn cuts its images.                                                  *)
LEMMA CutoffIs ==
  ASSUME NEW events \in Seq(Entry)
  PROVE  CutoffBefore(events, MaxPics, KeepPics) \in Nat
<1> DEFINE cut == GreatestOf({ImageCut(events), CompactionCut(events)})
           shown == {i \in DOMAIN events : events[i].pics}
           carried == {i \in shown : i > cut}
           Newer(i) == {j \in shown : j >= i}
           kept == {i \in shown : Cardinality(Newer(i)) <= KeepPics}
           oldest == CHOOSE i \in kept : \A j \in kept : i <= j
           n == Len(events)
<1>1. n \in Nat /\ DOMAIN events = 1..n
  BY LenProperties
<1>2. CutoffBefore(events, MaxPics, KeepPics)
        = IF Cardinality(carried) > MaxPics /\ oldest - 1 > cut THEN oldest - 1 ELSE 0
  BY DEF CutoffBefore
<1> HIDE DEF n, cut
<1>3. shown \in SUBSET Nat /\ \A i \in shown : i >= 1 /\ i <= n
  BY <1>1
<1>4. Cardinality(carried) > MaxPics => shown # {}
  <2>1. carried = {} => Cardinality(carried) = 0
    BY FS_EmptySet
  <2>2. carried \subseteq shown
    OBVIOUS
  <2> HIDE DEF carried, shown
  <2>3. ~(0 > MaxPics)
    BY LoopAssumption
  <2> QED BY <2>1, <2>2, <2>3
<1> HIDE DEF shown
<1>5. ASSUME shown # {} PROVE oldest - 1 \in Nat
  <2> DEFINE newest == GreatestOf(shown)
  <2>1. newest \in shown \cup {0} /\ newest \in Nat /\ \A i \in shown : i <= newest
    <3>1. \A i \in shown : i <= n
      BY <1>3
    <3> QED BY <1>1, <1>3, <3>1, GreatestIs
  <2> HIDE DEF newest
  <2>2. newest \in shown
    <3>1. PICK i \in shown : TRUE
      BY <1>5
    <3>2. i >= 1 /\ i \in Nat /\ i <= newest
      BY <1>3, <2>1
    <3> QED BY <2>1, <3>2
  <2>3. Newer(newest) = {newest}
    <3>1. \A j \in shown : j >= newest <=> j = newest
      BY <1>3, <2>1
    <3> QED BY <2>2, <3>1
  <2>4. Cardinality(Newer(newest)) = 1
    <3>1. Cardinality({newest}) = 1
      BY FS_Singleton
    <3> QED BY <2>3, <3>1
  <2>5. newest \in kept
    <3>1. 1 <= KeepPics
      BY LoopAssumption
    <3> HIDE DEF Newer
    <3> QED BY <2>2, <2>4, <3>1
  <2>6. kept \in SUBSET Nat /\ kept # {} /\ \A i \in kept : i >= 1
    BY <1>3, <2>5
  <2> HIDE DEF kept
  <2>7. PICK m \in kept : \A k \in kept : ~(k < m)
    BY <2>6, Least
  <2>8. \A k \in kept : m <= k
    BY <2>6, <2>7
  <2>9. oldest \in kept
    BY <2>8
  <2> HIDE DEF oldest
  <2> QED BY <2>6, <2>9
<1> HIDE DEF carried, oldest
<1> QED BY <1>2, <1>4, <1>5

(* The places of a window's events are indexes, whatever the log.                 *)
LEMMA PlacesAre ==
  ASSUME NEW lines \in Seq(Entry), NEW i \in DOMAIN Window(Folded(lines)).events
  PROVE  i - 1 \in Nat
<1> DEFINE q == Folded(lines)
           base == CompactionCut(q)
<1>1. Len(lines) \in Nat /\ Stages(<<>>, lines)[0] = <<>>
      /\ (\A j \in 1..Len(lines) : Stages(<<>>, lines)[j] = Then(Stages(<<>>, lines)[j - 1], lines[j]))
      /\ q = Stages(<<>>, lines)[Len(lines)]
  BY StagesAre, LenProperties DEF Folded
<1> HIDE DEF q
<1>2. \A j \in DOMAIN q : j \in Nat \ {0}
  <2>1. CASE Len(lines) = 0
    BY <1>1, <2>1
  <2>2. CASE Len(lines) # 0
    <3> DEFINE s == Stages(<<>>, lines)[Len(lines) - 1]
               e == lines[Len(lines)]
    <3>1. q = Then(s, e) /\ e \in Entry
      <4>1. Len(lines) \in 1..Len(lines)
        BY <1>1, <2>2
      <4>2. lines[Len(lines)] \in Entry
        BY <4>1, ElementOfSeq
      <4> QED BY <1>1, <4>1, <4>2
    <3> HIDE DEF s, e
    <3>2. \A j \in DOMAIN Append(s, e) : j \in Nat \ {0}
      OBVIOUS
    <3>3. e.n \in Nat
      BY <3>1 DEF Entry
    <3>4. \A j \in DOMAIN SubSeq(s, 1, e.n) : j \in Nat \ {0}
      BY <3>3
    <3> QED BY <3>1, <3>2, <3>4 DEF Then
  <2> QED BY <2>1, <2>2
<1>3. CASE base = 0
  <2>1. Window(q).events = q
    BY <1>3 DEF Window
  <2> QED BY <1>2, <2>1 DEF q
<1>4. CASE base # 0
  <2> HIDE DEF base
  <2>1. DOMAIN Window(q).events = 1..(Len(q) - base + 1)
    BY <1>4 DEF Window, base
  <2>2. \A j \in 1..(Len(q) - base + 1) : j \in Nat \ {0}
    OBVIOUS
  <2> QED BY <2>1, <2>2 DEF q
<1> QED BY <1>3, <1>4

(* A message of the provider is an event, with a call for each tool it names.     *)
LEMMA MessagesAre ==
  ASSUME NEW a, NEW tools \in Seq(Tools), FileFits(file)
  PROVE  /\ Message(a, tools) \in Entry /\ Message(a, tools).k = "asst"
         /\ Message(a, tools).calls \in Seq(Call)
<1>1. Len(tools) \in Nat /\ DOMAIN tools = 1..Len(tools) /\ \A i \in 1..Len(tools) : tools[i] \in Tools
  BY LenProperties, ElementOfSeq
<1>2. ASSUME NEW i \in 1..Len(tools) PROVE FreeCall(a, i) \in Nat
  <2>1. i \in Nat /\ file.stamp \in Nat
    BY DEF FileFits
  <2>2. 10 * (file.stamp + 1) + i \in Nat
    BY <2>1
  <2> QED BY <2>1, <2>2 DEF FreeCall, FreshCall
<1> DEFINE made == [i \in DOMAIN tools |-> [call |-> FreeCall(a, i), tool |-> tools[i]]]
<1>3. made \in [1..Len(tools) -> Call]
  BY <1>1, <1>2 DEF Call
<1>4. CallsMade(a, tools) = made
  BY DEF CallsMade
<1> HIDE DEF made
<1>5. CallsMade(a, tools) \in Seq(Call)
  BY <1>1, <1>3, <1>4
<1>6. "asst" \in Kinds
  BY DEF Kinds
<1> HIDE DEF Kinds
<1> QED BY <1>5, <1>6, EventsAre DEF Message

(* What a reply names are tools.                                                  *)
LEMMA ToolsAre ==
  /\ \A reply : ToolsOf(reply) \in Seq(Tools)
  /\ \A tools \in {<<>>, <<"bash">>} : tools \in Seq(Tools)
  /\ <<"bash">> \in Seq(Tools)
<1>1. "bash" \in Tools /\ Question \in Tools
  BY DEF Tools
<1> HIDE DEF Tools, Question
<1>2. <<>> \in Seq(Tools) /\ <<"bash">> \in Seq(Tools) /\ <<Question>> \in Seq(Tools)
      /\ <<"bash", "bash">> \in Seq(Tools) /\ <<Question, "bash">> \in Seq(Tools)
  BY <1>1
<1> QED BY <1>2 DEF ToolsOf

(* A call's answer is an event.                                                   *)
LEMMA ResultsAre ==
  ASSUME NEW q \in Seq(Call), q # <<>>
  PROVE  /\ ResultOf(Head(q)) \in Entry /\ ResultOf(Head(q)).k = "result" /\ Tail(q) \in Seq(Call)
         /\ q[1] = Head(q)
         /\ \A p \in BOOLEAN : [ResultOf(Head(q)) EXCEPT !.pics = p] \in Entry
                               /\ [ResultOf(Head(q)) EXCEPT !.pics = p].k = "result"
<1>1. Head(q) \in Call /\ Tail(q) \in Seq(Call) /\ q[1] = Head(q)
  BY HeadTailProperties
<1>2. Head(q).call \in Nat
  BY <1>1 DEF Call
<1>3. "result" \in Kinds
  BY DEF Kinds
<1>4. ResultOf(Head(q)) \in Entry /\ ResultOf(Head(q)).k = "result"
  BY <1>2, <1>3, EventsAre DEF ResultOf
<1> QED BY <1>1, <1>4 DEF Entry

(* The events of a load through the index.                                        *)
LEMMA IndexedAre ==
  ASSUME FileFits(file), IndexFits(index, file.stamp), Usable(index)
  PROVE  /\ Indexed(index) \in Seq(Entry) /\ Dated(Indexed(index), file.stamp)
         /\ Indexed(index) # <<>> /\ Rooted(Indexed(index))
         /\ Len(index.window) <= Len(Indexed(index)) /\ Len(index.window) \in Nat
<1> DEFINE q == index.window
           r == TailOf(index)
<1>1. index \in IndexFile /\ Dated(q, file.stamp) /\ file.lines \in Seq(Entry) /\ Dated(file.lines, file.stamp)
  BY DEF Usable, IndexFits, FileFits
<1>2. q \in Seq(Entry) /\ index.offset \in Nat
  BY <1>1 DEF IndexFile
<1>3. /\ Len(q) \in Nat /\ DOMAIN q = 1..Len(q) /\ Len(file.lines) \in Nat
      /\ DOMAIN file.lines = 1..Len(file.lines) /\ \A i \in 1..Len(file.lines) : file.lines[i] \in Entry
  BY <1>1, <1>2, LenProperties, ElementOfSeq
<1>4. r \in Seq(Entry) /\ \A i \in DOMAIN r : \E j \in DOMAIN file.lines : r[i] = file.lines[j]
  <2> DEFINE m == index.offset + 1
             n == Len(file.lines)
  <2>1. m \in Int /\ m >= 1 /\ n \in Int /\ \A i \in m..n : file.lines[i] \in Entry
    BY <1>2, <1>3
  <2>2. r = SubSeq(file.lines, m, n)
    BY DEF TailOf
  <2>3. DOMAIN file.lines = 1..n
    BY <1>3
  <2> HIDE DEF m, n, r
  <2>4. r \in Seq(Entry) /\ Len(r) = (IF m <= n THEN n - m + 1 ELSE 0)
        /\ \A i \in 1..(n - m + 1) : r[i] = file.lines[m + i - 1]
    BY <2>1, <2>2, SubSeqProperties
  <2>5. DOMAIN r = 1..Len(r)
    BY <2>4, LenProperties
  <2>6. \A i \in DOMAIN r : i \in 1..(n - m + 1) /\ m + i - 1 \in 1..n
    BY <2>1, <2>4, <2>5
  <2> QED BY <2>3, <2>4, <2>6
<1> HIDE DEF q, r
<1>5. q \o r \in Seq(Entry) /\ Len(q \o r) = Len(q) + Len(r) /\ Len(r) \in Nat /\ DOMAIN r = 1..Len(r)
      /\ \A i \in 1..(Len(q) + Len(r)) : (q \o r)[i] = IF i <= Len(q) THEN q[i] ELSE r[i - Len(q)]
  BY <1>2, <1>4, ConcatProperties, LenProperties
<1>6. DOMAIN (q \o r) = 1..(Len(q) + Len(r))
  BY <1>5, LenProperties
<1>7. Dated(q \o r, file.stamp)
  <2>1. SUFFICES ASSUME NEW i \in 1..(Len(q) + Len(r)), (q \o r)[i].k = "tree"
                 PROVE (q \o r)[i].n <= file.stamp
    BY <1>6 DEF Dated
  <2>2. CASE i <= Len(q)
    <3>1. i \in DOMAIN q /\ (q \o r)[i] = q[i]
      BY <1>3, <1>5, <2>2
    <3> QED BY <1>1, <2>1, <3>1 DEF Dated
  <2>3. CASE ~(i <= Len(q))
    <3>1. i - Len(q) \in DOMAIN r /\ (q \o r)[i] = r[i - Len(q)]
      BY <1>3, <1>5, <2>3
    <3> QED BY <1>1, <1>4, <2>1, <3>1 DEF Dated
  <2> QED BY <2>2, <2>3
<1>8. Indexed(index) = q \o r /\ Valid(q \o r) /\ q \o r # <<>>
  BY DEF Usable, Valid, Indexed, q, r
<1>9. Rooted(q \o r)
  BY <1>8 DEF Valid, Rooted
<1> QED BY <1>3, <1>5, <1>7, <1>8, <1>9 DEF q

--------------------------------------------------------------------------------
(* How the log moves when one actor works on it.                                  *)
LogMoves(a) ==
  /\ FileFits(file') /\ file.stamp <= file'.stamp
  /\ IndexFits(index', file'.stamp)
  /\ sess' = [sess EXCEPT ![a] = sess'[a]]
  /\ sess'[a] # None => SessionFits(sess'[a], file'.stamp)
  /\ faults' \in 0..faults

(* What fits a stamp fits a later one.                                            *)
LEMMA FitsLater ==
  ASSUME NEW m \in Nat, NEW n \in Nat, m <= n
  PROVE  /\ \A q \in Seq(Entry) : Dated(q, m) => Dated(q, n)
         /\ \A ix : IndexFits(ix, m) => IndexFits(ix, n)
         /\ \A s : SessionFits(s, m) => SessionFits(s, n)
<1>1. ASSUME NEW q \in Seq(Entry), Dated(q, m) PROVE Dated(q, n)
  <2>1. DOMAIN q = 1..Len(q) /\ \A i \in 1..Len(q) : q[i] \in Entry
    BY LenProperties, ElementOfSeq
  <2>2. \A i \in DOMAIN q : q[i].n \in Nat
    BY <2>1 DEF Entry
  <2> QED BY <1>1, <2>2 DEF Dated
<1>2. ASSUME NEW ix, IndexFits(ix, m) PROVE IndexFits(ix, n)
  <2>1. ix \in IndexFile => ix.window \in Seq(Entry)
    BY DEF IndexFile
  <2> QED BY <1>1, <1>2, <2>1 DEF IndexFits
<1>3. ASSUME NEW s, SessionFits(s, m) PROVE SessionFits(s, n)
  <2>1. s.events \in Seq(Entry) /\ s.stamp \in Nat
    BY <1>3 DEF SessionFits, OpenSession
  <2>2. Dated(s.events, n) /\ IndexFits(s.ckpt, n)
    BY <1>1, <1>2, <1>3, <2>1 DEF SessionFits
  <2>3. s.stamp <= n
    BY <1>3, <2>1 DEF SessionFits
  <2> QED BY <1>3, <2>2, <2>3 DEF SessionFits
<1> QED BY <1>1, <1>2, <1>3

(* One more event at the end of a log.                                            *)
LEMMA OneMore ==
  ASSUME NEW q \in Seq(Entry), NEW e \in Entry, NEW n \in Nat, Dated(q, n), e.k = "tree" => e.n <= n
  PROVE  /\ Append(q, e) \in Seq(Entry) /\ Append(q, e) # <<>> /\ Len(Append(q, e)) = Len(q) + 1
         /\ Dated(Append(q, e), n)
         /\ Rooted(q) /\ (q = <<>> => e.k = "meta") => Rooted(Append(q, e))
<1> DEFINE r == Append(q, e)
<1>1. /\ r \in Seq(Entry) /\ Len(r) = Len(q) + 1 /\ r[Len(q) + 1] = e /\ \A i \in 1..Len(q) : r[i] = q[i]
  BY AppendProperties
<1>2. Len(q) \in Nat /\ DOMAIN q = 1..Len(q) /\ (q = <<>> <=> Len(q) = 0)
  BY LenProperties, EmptySeq
<1> HIDE DEF r
<1>3. DOMAIN r = 1..(Len(q) + 1)
  BY <1>1, LenProperties
<1>4. r # <<>>
  BY <1>1, <1>2
<1>5. Dated(r, n)
  <2>1. SUFFICES ASSUME NEW i \in 1..(Len(q) + 1), r[i].k = "tree" PROVE r[i].n <= n
    BY <1>3 DEF Dated
  <2>2. i = Len(q) + 1 \/ i \in 1..Len(q)
    BY <1>2
  <2> QED BY <1>1, <1>2, <2>1, <2>2 DEF Dated
<1>6. ASSUME Rooted(q), q = <<>> => e.k = "meta" PROVE Rooted(r)
  <2>1. CASE q = <<>>
    BY <1>1, <1>2, <1>6, <2>1 DEF Rooted
  <2>2. CASE q # <<>>
    <3>1. 1 \in 1..Len(q)
      BY <1>2, <2>2
    <3> QED BY <1>1, <1>6, <2>2, <3>1 DEF Rooted
  <2> QED BY <2>1, <2>2
<1> QED BY <1>1, <1>4, <1>5, <1>6 DEF r

(* A checkpoint of a session is an index.                                         *)
LEMMA CheckpointsFit ==
  ASSUME NEW s, SessionFits(s, file'.stamp), FileFits(file'), file'.there, NEW cut \in Nat, Sealable(s, cut)
  PROVE  /\ IndexFits(Checkpoint(s, cut), file'.stamp) /\ Checkpoint(s, cut) \in IndexFile
         /\ Checkpoint(s, cut).window # <<>> /\ Rooted(Checkpoint(s, cut).window)
         /\ Checkpoint(s, cut).window \in Seq(Entry) /\ Dated(Checkpoint(s, cut).window, file'.stamp)
<1> DEFINE c == Checkpoint(s, cut)
           n == file'.stamp
           w == Sealed(s.events, cut)
<1>1. /\ s \in OpenSession /\ s.tail <= Len(s.events) /\ Dated(s.events, n) /\ IndexFits(s.ckpt, n)
      /\ n \in Nat /\ n >= 1 /\ file'.lines \in Seq(Entry)
  BY DEF SessionFits, FileFits
<1>2. /\ s.events \in Seq(Entry) /\ s.base \in Nat /\ s.tail \in Nat /\ Len(s.events) \in Nat
      /\ (s.ckpt # None => s.ckpt.known \in SUBSET Nat) /\ Len(file'.lines) \in Nat
  BY <1>1, LenProperties DEF OpenSession, IndexFits, IndexFile
<1>3. cut < Len(s.events) /\ Valid(w)
  BY DEF Sealable
<1>4. w \in Seq(Entry) /\ w # <<>> /\ Dated(w, n)
  BY <1>1, <1>2, <1>3, SealedIs
<1>5. Rooted(w)
  BY <1>3 DEF Valid, Rooted
<1>6. KnownCalls(s) \in SUBSET Nat
  <2> DEFINE m == s.tail + 1
             k == Len(s.events)
  <2>1. m \in Int /\ m >= 1 /\ k \in Int /\ \A i \in m..k : s.events[i] \in Entry
    BY <1>2, ElementOfSeq
  <2> HIDE DEF m, k
  <2>2. SubSeq(s.events, m, k) \in Seq(Entry)
    BY <2>1, SubSeqProperties
  <2>3. CallIds(SubSeq(s.events, m, k)) \in SUBSET Nat
    BY <2>2, CallIdsAre
  <2>4. KnownCalls(s) = (IF s.ckpt = None THEN {} ELSE s.ckpt.known) \cup CallIds(SubSeq(s.events, m, k))
    BY DEF KnownCalls, m, k
  <2> QED BY <1>2, <2>3, <2>4
<1>7. Canonical(s.base, cut) \in Nat
  BY <1>2 DEF Canonical
<1> HIDE DEF w
<1>8. c = [window |-> w, start |-> Canonical(s.base, cut), offset |-> Len(file'.lines),
           known |-> KnownCalls(s), ids |-> TRUE, stamp |-> n]
  BY DEF Checkpoint, w
<1> HIDE DEF c, n
<1>9. c \in IndexFile /\ c.window = w
  BY <1>1, <1>2, <1>4, <1>6, <1>7, <1>8 DEF IndexFile
<1> QED BY <1>4, <1>5, <1>9 DEF c, n, IndexFits

(* Sealing a session, or sealing it again.                                        *)
LEMMA PublishesFit ==
  ASSUME NEW a \in Actor, NEW s, SessionFits(s, file'.stamp), FileFits(file'), file'.there,
         sess \in [Actor -> OpenSession \cup {None}], None \notin OpenSession, faults \in Nat,
         IndexFits(index, file'.stamp),
         (\E cut \in Nat : Publishes(a, s, cut)) \/ Refreshes(a, s)
  PROVE  /\ IndexFits(index', file'.stamp) /\ sess' = [sess EXCEPT ![a] = sess'[a]]
         /\ SessionFits(sess'[a], file'.stamp) /\ sess'[a] # None
         /\ sess'[a].events = s.events /\ faults' \in 0..faults
<1> DEFINE n == file'.stamp
<1>1. s \in OpenSession /\ s # None /\ n \in Nat
  BY DEF SessionFits, FileFits
<1>2. ASSUME sess' = [sess EXCEPT ![a] = s]
      PROVE  sess' = [sess EXCEPT ![a] = sess'[a]] /\ SessionFits(sess'[a], n) /\ sess'[a] # None
             /\ sess'[a].events = s.events
  <2>1. sess'[a] = s
    BY <1>2
  <2> QED BY <1>1, <1>2, <2>1
<1>3. Fails => faults' \in 0..faults
  BY DEF Fails
<1>4. ASSUME NEW c, c \in IndexFile, IndexFits(c, n), NEW m \in Nat, m <= Len(s.events),
             sess' = [sess EXCEPT ![a] = [s EXCEPT !.ckpt = c, !.tail = m]]
                \/ sess' = [sess EXCEPT ![a] = [s EXCEPT !.ckpt = c]]
      PROVE  sess' = [sess EXCEPT ![a] = sess'[a]] /\ SessionFits(sess'[a], n) /\ sess'[a] # None
             /\ sess'[a].events = s.events
  <2> DEFINE r == sess'[a]
  <2>1. r = [s EXCEPT !.ckpt = c, !.tail = m] \/ r = [s EXCEPT !.ckpt = c]
    BY <1>4
  <2>2. sess' = [sess EXCEPT ![a] = r]
    BY <1>4
  <2> HIDE DEF r
  <2>3. /\ r \in OpenSession /\ r.events = s.events /\ r.stamp = s.stamp /\ r.ckpt = c
        /\ r.tail \in {m, s.tail}
    BY <1>1, <1>4, <2>1 DEF OpenSession
  <2>4. SessionFits(r, n)
    <3>1. Rooted(s.events) /\ Dated(s.events, n) /\ s.stamp <= n /\ s.tail <= Len(s.events)
      BY DEF SessionFits
    <3> HIDE DEF n
    <3> QED BY <1>4, <2>3, <3>1 DEF SessionFits
  <2>5. r # None
    BY <2>3
  <2> QED BY <2>2, <2>3, <2>4, <2>5 DEF r
<1>5. ASSUME NEW cut \in Nat, Publishes(a, s, cut)
      PROVE  /\ IndexFits(index', n) /\ sess' = [sess EXCEPT ![a] = sess'[a]]
             /\ SessionFits(sess'[a], n) /\ sess'[a] # None
             /\ sess'[a].events = s.events /\ faults' \in 0..faults
  <2>1. CASE Sealable(s, cut) /\ index' = Checkpoint(s, cut) /\ UNCHANGED faults
             /\ sess' = [sess EXCEPT ![a] = [s EXCEPT !.ckpt = index', !.tail = Len(s.events)]]
    <3>1. IndexFits(index', n) /\ index' \in IndexFile
      BY <2>1, CheckpointsFit
    <3>2. Len(s.events) \in Nat /\ Len(s.events) <= Len(s.events)
      BY <1>1, LenProperties DEF OpenSession
    <3>3. faults' \in 0..faults
      BY <2>1
    <3> DEFINE c == index'
               m == Len(s.events)
    <3>4. sess' = [sess EXCEPT ![a] = [s EXCEPT !.ckpt = c, !.tail = m]]
      BY <2>1
    <3>5. c \in IndexFile /\ IndexFits(c, n) /\ m \in Nat /\ m <= Len(s.events)
      BY <3>1, <3>2
    <3> HIDE DEF n, c, m
    <3>6. sess' = [sess EXCEPT ![a] = sess'[a]] /\ SessionFits(sess'[a], n) /\ sess'[a] # None
          /\ sess'[a].events = s.events
      BY <1>4, <3>4, <3>5
    <3> QED BY <3>3, <3>5, <3>6 DEF c
  <2>2. CASE sess' = [sess EXCEPT ![a] = s] /\ index' = index /\ (Fails \/ UNCHANGED faults)
    BY <1>2, <1>3, <2>2
  <2> QED BY <1>5, <2>1, <2>2 DEF Publishes
<1>6. ASSUME Refreshes(a, s)
      PROVE  /\ IndexFits(index', n) /\ sess' = [sess EXCEPT ![a] = sess'[a]]
             /\ SessionFits(sess'[a], n) /\ sess'[a] # None
             /\ sess'[a].events = s.events /\ faults' \in 0..faults
  <2>1. CASE s.ckpt # None /\ index' = [s.ckpt EXCEPT !.stamp = file'.stamp] /\ UNCHANGED faults
             /\ sess' = [sess EXCEPT ![a] = [s EXCEPT !.ckpt = index']]
    <3>1. s.ckpt \in IndexFile /\ Dated(s.ckpt.window, n)
      BY <2>1 DEF SessionFits, IndexFits
    <3>2. index' \in IndexFile /\ index'.window = s.ckpt.window
      BY <1>1, <2>1, <3>1 DEF IndexFile
    <3>3. IndexFits(index', n)
      BY <3>1, <3>2 DEF IndexFits
    <3>4. Len(s.events) \in Nat /\ Len(s.events) <= Len(s.events)
      BY <1>1, LenProperties DEF OpenSession
    <3>5. faults' \in 0..faults
      BY <2>1
    <3> DEFINE c == index'
               m == Len(s.events)
    <3>6. sess' = [sess EXCEPT ![a] = [s EXCEPT !.ckpt = c]]
      BY <2>1
    <3>7. c \in IndexFile /\ IndexFits(c, n) /\ m \in Nat /\ m <= Len(s.events)
      BY <3>2, <3>3, <3>4
    <3> HIDE DEF n, c, m
    <3>8. sess' = [sess EXCEPT ![a] = sess'[a]] /\ SessionFits(sess'[a], n) /\ sess'[a] # None
          /\ sess'[a].events = s.events
      BY <1>4, <3>6, <3>7
    <3> QED BY <3>5, <3>7, <3>8 DEF c
  <2>2. CASE sess' = [sess EXCEPT ![a] = s] /\ index' = index /\ (Fails \/ UNCHANGED faults)
    BY <1>2, <1>3, <2>2
  <2> QED BY <1>6, <2>1, <2>2 DEF Refreshes
<1> QED BY <1>5, <1>6

(* The line of an event, and the event with its id.                               *)
LEMMA LinesAre ==
  ASSUME NEW a, NEW e \in Entry, NEW n \in Nat, sess[a] \in OpenSession, NEW new, new = [e EXCEPT !.id = n]
  PROVE  /\ new \in Entry /\ new.k = e.k /\ new.n = e.n
         /\ CanonicalEvent(a, new) \in Entry /\ CanonicalEvent(a, new).k = e.k
         /\ e.k = "tree" => CanonicalEvent(a, new).n = e.n
<1>1. new \in Entry /\ new.k = e.k /\ new.n = e.n
  BY DEF Entry
<1>2. Canonical(sess[a].base, new.n) \in Nat
  <2>1. sess[a].base \in Nat /\ new.n \in Nat
    BY <1>1 DEF OpenSession, Entry
  <2> QED BY <2>1 DEF Canonical
<1>3. [new EXCEPT !.n = Canonical(sess[a].base, new.n)] \in Entry
      /\ [new EXCEPT !.n = Canonical(sess[a].base, new.n)].k = new.k
  BY <1>1, <1>2 DEF Entry
<1>4. CanonicalEvent(a, new) \in Entry /\ CanonicalEvent(a, new).k = e.k
      /\ (e.k = "tree" => CanonicalEvent(a, new).n = e.n)
  BY <1>1, <1>3 DEF CanonicalEvent
<1> QED BY <1>1, <1>4

(* A file that got a line.                                                        *)
LEMMA GrownFits ==
  ASSUME FileFits(file), file.there, NEW e \in Entry, e.k = "tree" => e.n <= file.stamp,
         NEW f, f = [file EXCEPT !.lines = Append(@, e), !.stamp = @ + 1]
  PROVE  FileFits(f) /\ f.there /\ f.stamp = file.stamp + 1
<1>1. /\ file.stamp \in Nat /\ file.lines \in Seq(Entry) /\ file.stamp + 1 \in Nat
      /\ file.stamp <= file.stamp + 1 /\ Dated(file.lines, file.stamp)
  BY DEF FileFits
<1>2. Dated(file.lines, file.stamp + 1)
  BY <1>1, FitsLater
<1>3. e.k = "tree" => e.n <= file.stamp + 1
  BY <1>1 DEF Entry
<1>4. Append(file.lines, e) \in Seq(Entry) /\ Dated(Append(file.lines, e), file.stamp + 1)
  BY <1>1, <1>2, <1>3, OneMore
<1> DEFINE q == Append(file.lines, e)
<1>5. f = [file EXCEPT !.lines = q, !.stamp = file.stamp + 1]
  OBVIOUS
<1> HIDE DEF q
<1>6. f \in [there : BOOLEAN, lines : Seq(Entry), torn : BOOLEAN, stamp : Nat]
      /\ f.there /\ f.lines = q /\ f.stamp = file.stamp + 1
  BY <1>1, <1>4, <1>5 DEF FileFits, q
<1> QED BY <1>1, <1>4, <1>6 DEF FileFits, q

(* A file with part of a line.                                                    *)
LEMMA TornFits ==
  ASSUME FileFits(file), file.there, NEW b \in BOOLEAN,
         NEW f, f = [file EXCEPT !.torn = b, !.stamp = @ + 1]
  PROVE  FileFits(f) /\ f.there /\ f.stamp = file.stamp + 1 /\ f.lines = file.lines
<1>1. /\ file.stamp \in Nat /\ file.lines \in Seq(Entry) /\ file.stamp + 1 \in Nat
      /\ file.stamp <= file.stamp + 1 /\ Dated(file.lines, file.stamp)
  BY DEF FileFits
<1>2. Dated(file.lines, file.stamp + 1)
  BY <1>1, FitsLater
<1>3. f \in [there : BOOLEAN, lines : Seq(Entry), torn : BOOLEAN, stamp : Nat]
      /\ f.there /\ f.lines = file.lines /\ f.stamp = file.stamp + 1
  BY <1>1 DEF FileFits
<1> QED BY <1>1, <1>2, <1>3 DEF FileFits

(* An open session, with the log it has open.                                     *)
HasOpen(a) ==
  /\ a \in Actor /\ FileFits(file) /\ file.there /\ IndexFits(index, file.stamp)
  /\ sess \in [Actor -> OpenSession \cup {None}] /\ sess[a] # None /\ SessionFits(sess[a], file.stamp)
  /\ faults \in Nat

(* An event that may be put at its end.                                           *)
Apt(a, e) ==
  /\ e \in Entry /\ (e.k = "tree" => e.n <= file.stamp)
  /\ sess[a].events = <<>> => e.k = "meta"

(* An append that succeeds.                                                     *)
LEMMA AppendsFit ==
  ASSUME NEW a, HasOpen(a), NEW e, Apt(a, e), Appends(a, e)
  PROVE  LogMoves(a) /\ file'.there /\ sess'[a] # None /\ sess'[a].events # <<>>
<1> DEFINE n == file.stamp + 1
           new == [e EXCEPT !.id = file.stamp + 1]
           s == [sess[a] EXCEPT !.events = Append(@, new), !.stamp = file.stamp + 1]
           line == CanonicalEvent(a, new)
<1>1. /\ file.stamp \in Nat /\ n \in Nat /\ file.stamp <= n /\ sess[a] \in OpenSession /\ e \in Entry /\ e.n \in Nat
      /\ sess[a].events \in Seq(Entry) /\ sess[a].stamp \in Nat
  <2>1. file.stamp \in Nat /\ sess[a] \in OpenSession /\ e \in Entry
    BY DEF HasOpen, FileFits, SessionFits, Apt
  <2>2. e.n \in Nat
    BY <2>1 DEF Entry
  <2>3. sess[a].events \in Seq(Entry) /\ sess[a].stamp \in Nat
    BY <2>1 DEF OpenSession
  <2> QED BY <2>1, <2>2, <2>3
<1>2. /\ new \in Entry /\ new.k = e.k /\ new.n = e.n /\ line \in Entry /\ line.k = e.k
      /\ (e.k = "tree" => line.n = e.n)
  <2>1. new = [e EXCEPT !.id = n] /\ n \in Nat /\ line = CanonicalEvent(a, new)
    BY <1>1
  <2>2. sess[a] \in OpenSession /\ e \in Entry
    BY <1>1
  <2> HIDE DEF new, n, line
  <2>3. /\ new \in Entry /\ new.k = e.k /\ new.n = e.n
        /\ CanonicalEvent(a, new) \in Entry /\ CanonicalEvent(a, new).k = e.k
        /\ e.k = "tree" => CanonicalEvent(a, new).n = e.n
    BY <2>1, <2>2, LinesAre
  <2> QED BY <2>1, <2>3
<1>3. file' = [file EXCEPT !.lines = Append(@, line), !.stamp = @ + 1]
  BY DEF Appends
<1>4. IF e.k = "compaction" THEN Publishes(a, s, e.n) ELSE Refreshes(a, s)
  BY DEF Appends
<1> HIDE DEF line
<1>5. FileFits(file') /\ file'.there /\ file'.stamp = n
  <2>1. line.k = "tree" => line.n <= file.stamp
    BY <1>2 DEF Apt
  <2> HIDE DEF new, s
  <2> QED BY <1>2, <1>3, <2>1, GrownFits DEF HasOpen
<1>6. SessionFits(sess[a], n) /\ IndexFits(index, n)
  BY <1>1, FitsLater DEF HasOpen
<1> HIDE DEF new
<1> DEFINE q == Append(sess[a].events, new)
<1>7. q \in Seq(Entry) /\ q # <<>> /\ Len(q) = Len(sess[a].events) + 1 /\ Dated(q, n) /\ Rooted(q)
  <2>1. Dated(sess[a].events, n) /\ Rooted(sess[a].events)
    BY <1>6 DEF SessionFits
  <2>2. new.k = "tree" => new.n <= n
    BY <1>1, <1>2 DEF Apt
  <2>3. sess[a].events = <<>> => new.k = "meta"
    BY <1>2 DEF Apt
  <2> QED BY <1>1, <1>2, <2>1, <2>2, <2>3, OneMore
<1>8. s = [sess[a] EXCEPT !.events = q, !.stamp = n]
  OBVIOUS
<1> HIDE DEF q, s
<1>9. /\ s \in OpenSession /\ s.events = q /\ s.stamp = n /\ s.tail = sess[a].tail /\ s.ckpt = sess[a].ckpt
  BY <1>1, <1>7, <1>8 DEF OpenSession
<1>10. SessionFits(s, n)
  <2>1. sess[a].tail <= Len(sess[a].events) /\ IndexFits(sess[a].ckpt, n)
    BY <1>6 DEF SessionFits
  <2>2. sess[a].tail \in Nat /\ Len(sess[a].events) \in Nat
    BY <1>1, LenProperties DEF OpenSession
  <2>3. sess[a].tail <= Len(q)
    BY <1>7, <2>1, <2>2
  <2>4. n <= n
    BY <1>1
  <2> HIDE DEF n
  <2> QED BY <1>7, <1>9, <2>1, <2>3, <2>4 DEF SessionFits
<1> HIDE DEF n
<1>11. (\E cut \in Nat : Publishes(a, s, cut)) \/ Refreshes(a, s)
  BY <1>1, <1>4
<1>12. /\ IndexFits(index', n) /\ sess' = [sess EXCEPT ![a] = sess'[a]]
       /\ SessionFits(sess'[a], n) /\ sess'[a] # None
       /\ sess'[a].events = s.events /\ faults' \in 0..faults
  <2>1. /\ a \in Actor /\ SessionFits(s, file'.stamp) /\ FileFits(file') /\ file'.there
        /\ sess \in [Actor -> OpenSession \cup {None}] /\ None \notin OpenSession /\ faults \in Nat
        /\ IndexFits(index, file'.stamp)
    BY <1>5, <1>6, <1>10, NoneAssumption DEF HasOpen
  <2> QED BY <1>5, <1>11, <2>1, PublishesFit
<1> QED BY <1>1, <1>5, <1>7, <1>9, <1>12 DEF LogMoves

(* An append that fails, having written nothing, a part or all of its line.     *)
LEMMA AppendFailsFits ==
  ASSUME NEW a, HasOpen(a), NEW e, Apt(a, e), AppendFails(a, e)
  PROVE  LogMoves(a) /\ file'.there /\ sess' = sess
<1> DEFINE n == file.stamp + 1
           line == CanonicalEvent(a, [e EXCEPT !.id = file.stamp + 1])
<1>1. /\ file.stamp \in Nat /\ n \in Nat /\ file.stamp <= n /\ sess[a] \in OpenSession /\ e \in Entry
  BY DEF HasOpen, FileFits, SessionFits, Apt
<1>2. FileFits(file') /\ file'.there /\ file.stamp <= file'.stamp /\ file'.stamp \in Nat
  <2>1. CASE UNCHANGED file
    BY <1>1, <2>1 DEF HasOpen
  <2>2. CASE file' = [file EXCEPT !.torn = TRUE, !.stamp = @ + 1]
    BY <1>1, <2>2, TornFits DEF HasOpen
  <2>3. CASE file' = [file EXCEPT !.lines = Append(@, line), !.stamp = @ + 1]
    <3> DEFINE new == [e EXCEPT !.id = n]
    <3>1. line \in Entry /\ line.k = e.k /\ (e.k = "tree" => line.n = e.n)
      <4>1. new = [e EXCEPT !.id = n] /\ n \in Nat /\ line = CanonicalEvent(a, new)
        BY <1>1
      <4> HIDE DEF new, n, line
      <4> QED BY <1>1, <4>1, LinesAre
    <3> HIDE DEF line
    <3>2. line.k = "tree" => line.n <= file.stamp
      BY <3>1 DEF Apt
    <3>3. FileFits(file') /\ file'.there /\ file'.stamp = n
      BY <2>3, <3>1, <3>2, GrownFits DEF HasOpen
    <3> QED BY <1>1, <3>3
  <2> QED BY <2>1, <2>2, <2>3 DEF AppendFails
<1>3. sess' = sess /\ index' = index /\ faults' \in 0..faults
  BY DEF AppendFails, Fails, HasOpen
<1>4. SessionFits(sess[a], file'.stamp) /\ IndexFits(index, file'.stamp)
  BY <1>1, <1>2, FitsLater DEF HasOpen
<1>5. sess' = [sess EXCEPT ![a] = sess'[a]]
  BY <1>3 DEF HasOpen
<1> QED BY <1>2, <1>3, <1>4, <1>5 DEF LogMoves

(* A session that loses its checkpoint.                                           *)
LEMMA Uncheckpointed ==
  ASSUME NEW a, HasOpen(a), NEW c \in {None, sess[a].ckpt}, sess' = [sess EXCEPT ![a].ckpt = c]
  PROVE  /\ sess' = [sess EXCEPT ![a] = sess'[a]] /\ sess'[a] # None
         /\ SessionFits(sess'[a], file.stamp) /\ sess'[a].events = sess[a].events
<1>1. a \in Actor /\ sess[a] \in OpenSession /\ SessionFits(sess[a], file.stamp)
  BY DEF HasOpen, SessionFits
<1> DEFINE r == [sess[a] EXCEPT !.ckpt = c]
<1>2. r \in OpenSession /\ r.events = sess[a].events /\ r.stamp = sess[a].stamp /\ r.tail = sess[a].tail /\ r.ckpt = c
  <2>1. c \in IndexFile \cup {None}
    BY <1>1 DEF OpenSession
  <2> QED BY <1>1, <2>1 DEF OpenSession
<1>3. sess' = [sess EXCEPT ![a] = r] /\ sess'[a] = r
  BY <1>1 DEF HasOpen
<1> HIDE DEF r
<1>4. IndexFits(c, file.stamp)
  BY <1>1 DEF SessionFits, IndexFits
<1>5. SessionFits(r, file.stamp)
  BY <1>1, <1>2, <1>4 DEF SessionFits
<1> QED BY <1>2, <1>3, <1>5, NoneAssumption

(* An append that is refused before it writes.                                  *)
LEMMA AppendRefusedFits ==
  ASSUME NEW a, HasOpen(a), AppendRefused(a)
  PROVE  LogMoves(a) /\ file'.there /\ sess'[a] # None /\ sess'[a].events = sess[a].events
<1> DEFINE c == IF sess[a].stamp = file.stamp THEN sess[a].ckpt ELSE None
<1>1. file' = file /\ index' = index /\ faults' = faults
  BY DEF AppendRefused
<1>2. sess' = [sess EXCEPT ![a].ckpt = c]
  BY DEF AppendRefused
<1>3. c \in {None, sess[a].ckpt}
  OBVIOUS
<1> HIDE DEF c
<1>4. /\ sess' = [sess EXCEPT ![a] = sess'[a]] /\ sess'[a] # None
      /\ SessionFits(sess'[a], file.stamp) /\ sess'[a].events = sess[a].events
  BY <1>2, <1>3, Uncheckpointed
<1>5. file.stamp \in Nat /\ file.stamp <= file.stamp /\ faults' \in 0..faults
  BY <1>1 DEF HasOpen, FileFits
<1> QED BY <1>1, <1>4, <1>5 DEF LogMoves, HasOpen

(* One append of a job: what it makes of the log and of the job.                  *)
LEMMA WritesFit ==
  ASSUME NEW a, HasOpen(a), NEW e, Apt(a, e), NEW done, NEW failed, Writes(a, e, done, failed)
  PROVE  /\ LogMoves(a) /\ file'.there /\ sess'[a] # None /\ UNCHANGED leaseVars
         /\ \/ turn' = [turn EXCEPT ![a] = done] /\ sess'[a].events # <<>>
            \/ turn' = [turn EXCEPT ![a] = failed]
         /\ sess[a].events # <<>> => sess'[a].events # <<>>
<1>1. CASE Appends(a, e) /\ turn' = [turn EXCEPT ![a] = done]
  BY <1>1, AppendsFit DEF Writes
<1>2. CASE AppendFails(a, e) /\ turn' = [turn EXCEPT ![a] = failed]
  BY <1>2, AppendFailsFits DEF Writes, HasOpen
<1>3. CASE AppendRefused(a) /\ turn' = [turn EXCEPT ![a] = failed]
  BY <1>3, AppendRefusedFits DEF Writes
<1> QED BY <1>1, <1>2, <1>3 DEF Writes

(* The log as an actor finds it.                                                  *)
Readable ==
  /\ FileFits(file) /\ IndexFits(index, file.stamp)
  /\ sess \in [Actor -> OpenSession \cup {None}] /\ faults \in Nat

(* What fits when only the session of an actor changes.                           *)
LEMMA SessionMoves ==
  ASSUME NEW a \in Actor, Readable, NEW s, sess' = [sess EXCEPT ![a] = s],
         FileFits(file'), file.stamp <= file'.stamp, IndexFits(index', file'.stamp),
         s # None => SessionFits(s, file'.stamp), faults' \in 0..faults
  PROVE  LogMoves(a) /\ sess'[a] = s
<1>1. sess'[a] = s /\ sess' = [sess EXCEPT ![a] = sess'[a]]
  BY DEF Readable
<1> QED BY <1>1 DEF LogMoves

(* A session that is created is open, with nothing in it yet.                   *)
LEMMA CreateFits ==
  ASSUME NEW a \in Actor, Readable, CreateFile(a)
  PROVE  LogMoves(a) /\ file'.there /\ sess'[a] # None /\ sess'[a].events = <<>>
<1> DEFINE n == file.stamp + 1
           s == [events |-> <<>>, base |-> 0, stamp |-> n, ckpt |-> None, tail |-> 0]
<1>1. file.stamp \in Nat /\ n \in Nat /\ file.stamp <= n /\ n >= 1 /\ n <= n
      /\ ~file.there /\ file.lines = <<>> /\ ~file.torn
  BY DEF Readable, FileFits, CreateFile
<1>2. <<>> \in Seq(Entry) /\ Len(<<>>) = 0 /\ \A m : Dated(<<>>, m)
  BY EmptySeq DEF Dated
<1>3. FileFits(file') /\ file'.there /\ file'.stamp = n
  <2>1. file' = [file EXCEPT !.there = TRUE, !.stamp = @ + 1]
    BY DEF CreateFile
  <2>2. file' \in [there : BOOLEAN, lines : Seq(Entry), torn : BOOLEAN, stamp : Nat]
        /\ file'.there /\ file'.lines = <<>> /\ file'.stamp = n
    BY <1>1, <1>2, <2>1 DEF Readable, FileFits
  <2>3. n >= 1 /\ Dated(<<>>, n)
    BY <1>1, <1>2
  <2> HIDE DEF n
  <2> QED BY <2>2, <2>3 DEF FileFits
<1>4. sess' = [sess EXCEPT ![a] = s] /\ index' = index /\ faults' = faults
  BY DEF CreateFile
<1>5. IndexFits(index, n) /\ faults' \in 0..faults
  BY <1>1, <1>4, FitsLater DEF Readable
<1> HIDE DEF n
<1>6. s \in OpenSession
  BY <1>1, <1>2 DEF OpenSession
<1>7. SessionFits(s, n)
  BY <1>1, <1>2, <1>6 DEF SessionFits, Rooted, IndexFits
<1>8. s.events = <<>>
  OBVIOUS
<1> HIDE DEF s
<1>9. s # None
  BY <1>6, NoneAssumption
<1>10. LogMoves(a) /\ sess'[a] = s
  BY <1>1, <1>3, <1>4, <1>5, <1>7, SessionMoves
<1> QED BY <1>3, <1>8, <1>9, <1>10

(* A load through the index.                                                    *)
LEMMA LoadIndexedFits ==
  ASSUME NEW a \in Actor, Readable, Usable(index), LoadIndexed(a)
  PROVE  LogMoves(a) /\ file'.there /\ sess'[a] # None /\ sess'[a].events # <<>>
<1> DEFINE q == Indexed(index)
           s == [events |-> q, base |-> index.start, stamp |-> file.stamp, ckpt |-> index,
                 tail |-> Len(index.window)]
<1>1. /\ q \in Seq(Entry) /\ Dated(q, file.stamp) /\ q # <<>> /\ Rooted(q)
      /\ Len(index.window) <= Len(q) /\ Len(index.window) \in Nat
  BY IndexedAre DEF Readable
<1>2. index \in IndexFile /\ file.stamp \in Nat /\ file.stamp <= file.stamp /\ file.there
  BY DEF Readable, IndexFits, FileFits, Usable
<1>3. index.start \in Nat
  BY <1>2 DEF IndexFile
<1>4. sess' = [sess EXCEPT ![a] = s] /\ index' = index /\ file' = file /\ faults' = faults
  BY DEF LoadIndexed
<1> HIDE DEF q
<1>5. s \in OpenSession
  BY <1>1, <1>2, <1>3 DEF OpenSession
<1>6. SessionFits(s, file.stamp)
  BY <1>1, <1>2, <1>5 DEF SessionFits, Readable
<1>7. s.events = q
  OBVIOUS
<1> HIDE DEF s
<1>8. s # None
  BY <1>5, NoneAssumption
<1>9. faults' \in 0..faults
  BY <1>4 DEF Readable
<1>10. LogMoves(a) /\ sess'[a] = s
  BY <1>2, <1>4, <1>6, <1>9, SessionMoves DEF Readable
<1> QED BY <1>1, <1>2, <1>4, <1>7, <1>8, <1>10

(* A load of the whole log, which may seal it again.                            *)
LEMMA LoadWholeFits ==
  ASSUME NEW a \in Actor, Readable, file.there, Replays(file.lines), LoadWhole(a)
  PROVE  LogMoves(a) /\ file'.there /\ sess'[a] # None /\ sess'[a].events # <<>>
<1> DEFINE n == file'.stamp
           q == Folded(file.lines)
           s == [events |-> q, base |-> 0, stamp |-> n, ckpt |-> None, tail |-> 0]
           cut == CompactionCut(q)
<1>1. FileFits(file') /\ file'.there /\ n \in Nat /\ file.stamp \in Nat /\ file.stamp <= n /\ n <= n
      /\ file'.lines = file.lines
  <2>1. CASE file.torn
    <3>1. file' = [file EXCEPT !.torn = FALSE, !.stamp = @ + 1]
      BY <2>1 DEF LoadWhole
    <3>2. FileFits(file') /\ file'.there /\ file'.stamp = file.stamp + 1 /\ file'.lines = file.lines
      BY <3>1, TornFits DEF Readable
    <3> QED BY <3>2 DEF Readable, FileFits
  <2>2. CASE ~file.torn
    <3>1. file' = file
      BY <2>2 DEF LoadWhole
    <3> QED BY <3>1 DEF Readable, FileFits
  <2> QED BY <2>1, <2>2
<1>2. file.lines \in Seq(Entry) /\ FoldsCleanly(file.lines) /\ Valid(q)
      /\ Dated(file.lines, file.stamp)
  BY DEF Readable, FileFits, Replays
<1>3. q \in Seq(Entry) /\ \A i \in DOMAIN q : \E j \in DOMAIN file.lines : q[i] = file.lines[j]
  BY <1>2, FoldIsClean
<1> HIDE DEF q
<1>4. Dated(q, file.stamp) /\ q # <<>> /\ Rooted(q)
  BY <1>2, <1>3 DEF Dated, Valid, Rooted
<1>5. Dated(q, n) /\ IndexFits(index, n)
  BY <1>1, <1>3, <1>4, FitsLater DEF Readable
<1>6. s \in OpenSession
  BY <1>1, <1>3 DEF OpenSession
<1>7. SessionFits(s, n)
  <2>1. Len(q) \in Nat
    BY <1>3, LenProperties
  <2>2. 0 <= Len(q)
    BY <2>1
  <2> HIDE DEF n
  <2> QED BY <1>1, <1>4, <1>5, <1>6, <2>2 DEF SessionFits, IndexFits
<1>8. cut \in Nat
  <2>1. cut \in 0..Len(q) /\ Len(q) \in Nat
    BY <1>3, CutIs, LenProperties
  <2> QED BY <2>1
<1>9. ASSUME sess' = [sess EXCEPT ![a] = s], UNCHANGED index, faults' \in 0..faults
      PROVE  LogMoves(a) /\ sess'[a] # None /\ sess'[a].events # <<>>
  <2>1. s # None /\ s.events # <<>>
    BY <1>4, <1>6, NoneAssumption
  <2> HIDE DEF s
  <2>2. LogMoves(a) /\ sess'[a] = s
    BY <1>1, <1>5, <1>7, <1>9, SessionMoves
  <2> QED BY <2>1, <2>2
<1>10. ASSUME Sealable(s, cut), index' = Checkpoint(s, cut), UNCHANGED faults,
              sess' = [sess EXCEPT ![a] = [events |-> index'.window, base |-> index'.start,
                                           stamp |-> file'.stamp, ckpt |-> index',
                                           tail |-> Len(index'.window)]]
       PROVE  LogMoves(a) /\ sess'[a] # None /\ sess'[a].events # <<>>
  <2> DEFINE c == index'
             w == c.window
             r == [events |-> w, base |-> c.start, stamp |-> n, ckpt |-> c, tail |-> Len(w)]
  <2> HIDE DEF s, cut
  <2>1. IndexFits(c, n) /\ c \in IndexFile /\ w # <<>> /\ Rooted(w) /\ w \in Seq(Entry)
    BY <1>1, <1>7, <1>8, <1>10, CheckpointsFit
  <2>2. sess' = [sess EXCEPT ![a] = r]
    BY <1>10
  <2>3. c.start \in Nat
    BY <2>1 DEF IndexFile
  <2>4. Dated(w, n)
    <3>1. Checkpoint(s, cut).window \in Seq(Entry) /\ Dated(Checkpoint(s, cut).window, n)
      BY <1>1, <1>7, <1>8, <1>10, CheckpointsFit
    <3> QED BY <1>10, <3>1
  <2>5. Len(w) \in Nat /\ Len(w) <= Len(w)
    BY <2>1, LenProperties
  <2> HIDE DEF c, w, n
  <2>6. r \in OpenSession
    BY <1>1, <2>1, <2>3, <2>5 DEF OpenSession
  <2>7. SessionFits(r, n)
    BY <1>1, <2>1, <2>4, <2>5, <2>6 DEF SessionFits
  <2>8. r.events = w
    OBVIOUS
  <2> HIDE DEF r
  <2>9. r # None
    BY <2>6, NoneAssumption
  <2>10. faults' \in 0..faults
    BY <1>10 DEF Readable
  <2>11. LogMoves(a) /\ sess'[a] = r
    BY <1>1, <2>1, <2>2, <2>7, <2>10, SessionMoves DEF n, c
  <2> QED BY <2>1, <2>8, <2>9, <2>11
<1>11. Fails => faults' \in 0..faults
  BY DEF Fails, Readable
<1>12. UNCHANGED faults => faults' \in 0..faults
  BY DEF Readable
<1>13. IF Sealable(s, cut)
       THEN \/ /\ index' = Checkpoint(s, cut)
               /\ sess' = [sess EXCEPT ![a] = [events |-> index'.window, base |-> index'.start,
                                               stamp |-> file'.stamp, ckpt |-> index',
                                               tail |-> Len(index'.window)]]
               /\ UNCHANGED faults
            \/ Fails /\ sess' = [sess EXCEPT ![a] = s] /\ UNCHANGED index
       ELSE sess' = [sess EXCEPT ![a] = s] /\ UNCHANGED index /\ UNCHANGED faults
  BY DEF LoadWhole, q
<1> HIDE DEF s, cut
<1>14. LogMoves(a) /\ sess'[a] # None /\ sess'[a].events # <<>>
  BY <1>9, <1>10, <1>11, <1>12, <1>13
<1> QED BY <1>1, <1>14

(* A load of a session opens it.                                                  *)
LEMMA LoadsFit ==
  ASSUME NEW a \in Actor, Readable, Loadable, Loads(a)
  PROVE  LogMoves(a) /\ file'.there /\ sess'[a] # None /\ sess'[a].events # <<>>
<1>1. CASE Usable(index)
  BY <1>1, LoadIndexedFits DEF Loads
<1>2. CASE ~Usable(index)
  BY <1>2, LoadWholeFits DEF Loads, Loadable
<1> QED BY <1>1, <1>2

(* The rest of what jobs do to the log.                                           *)
LEMMA DropIdsFits ==
  ASSUME NEW a, HasOpen(a), DropIds(a)
  PROVE  LogMoves(a) /\ file' = file /\ sess' = sess
<1>1. file' = file /\ sess' = sess /\ faults' = faults /\ a \in Actor /\ file.stamp \in Nat
  BY DEF DropIds, HasOpen, FileFits
<1>2. IndexFits(index', file.stamp)
  <2>1. CASE index # None /\ index' = [index EXCEPT !.ids = FALSE]
    <3>1. index \in IndexFile /\ Dated(index.window, file.stamp)
      BY <2>1 DEF HasOpen, IndexFits
    <3>2. index' \in IndexFile /\ index'.window = index.window
      BY <2>1, <3>1 DEF IndexFile
    <3> QED BY <3>1, <3>2 DEF IndexFits
  <2>2. CASE index' = index
    BY <2>2 DEF HasOpen
  <2> QED BY <2>1, <2>2 DEF DropIds
<1>3. sess' = [sess EXCEPT ![a] = sess'[a]] /\ faults' \in 0..faults
  BY <1>1 DEF HasOpen
<1> QED BY <1>1, <1>2, <1>3 DEF LogMoves, HasOpen

(* A rewind that drops the index.                                               *)
LEMMA DropIndexFits ==
  ASSUME NEW a, HasOpen(a), DropIndex(a)
  PROVE  LogMoves(a) /\ file' = file /\ sess'[a] # None /\ sess'[a].events = sess[a].events
<1>1. file' = file /\ index' = None /\ faults' = faults /\ file.stamp \in Nat /\ faults' \in 0..faults
  BY DEF DropIndex, HasOpen, FileFits
<1>2. sess' = [sess EXCEPT ![a].ckpt = None]
  BY DEF DropIndex
<1>3. /\ sess' = [sess EXCEPT ![a] = sess'[a]] /\ sess'[a] # None
      /\ SessionFits(sess'[a], file.stamp) /\ sess'[a].events = sess[a].events
  BY <1>2, Uncheckpointed
<1> QED BY <1>1, <1>3 DEF LogMoves, HasOpen, IndexFits

(* What a delete does to the sidecars and to the log.                           *)
LEMMA DeleteFits ==
  ASSUME NEW a \in Actor, Readable, sess[a] # None => SessionFits(sess[a], file.stamp),
         DeleteSidecars(a) \/ DeleteLog(a)
  PROVE  LogMoves(a) /\ sess' = sess
<1>1. sess' = sess /\ faults' = faults /\ file.stamp \in Nat /\ file.stamp + 1 \in Nat
      /\ file.stamp <= file.stamp + 1 /\ faults' \in 0..faults
  BY DEF DeleteSidecars, DeleteLog, Readable, FileFits
<1>2. sess' = [sess EXCEPT ![a] = sess'[a]]
  BY <1>1 DEF Readable
<1>3. CASE DeleteSidecars(a)
  <2>1. file' = file /\ index' = None
    BY <1>3 DEF DeleteSidecars
  <2> QED BY <1>1, <1>2, <2>1 DEF LogMoves, Readable, IndexFits
<1>4. CASE DeleteLog(a)
  <2> DEFINE n == file.stamp + 1
  <2>1. file' = [there |-> FALSE, lines |-> <<>>, torn |-> FALSE, stamp |-> n] /\ index' = index
    BY <1>4 DEF DeleteLog, NoFileYet
  <2>2. FileFits(file') /\ file'.stamp = n
    <3>1. <<>> \in Seq(Entry) /\ Dated(<<>>, n)
      BY EmptySeq DEF Dated
    <3> QED BY <1>1, <2>1, <3>1 DEF FileFits
  <2>3. IndexFits(index, n) /\ (sess[a] # None => SessionFits(sess[a], n))
    BY <1>1, FitsLater DEF Readable
  <2> QED BY <1>1, <1>2, <2>1, <2>2, <2>3 DEF LogMoves
<1> QED BY <1>3, <1>4

(* A holder that dies or leaves has no session open.                            *)
LEMMA DiesFits ==
  ASSUME NEW a \in Actor, Readable, SessionDies(a) \/ Closes(a)
  PROVE  LogMoves(a) /\ sess'[a] = None /\ (file.there => file'.there)
<1>1. sess' = [sess EXCEPT ![a] = None] /\ index' = index /\ faults' = faults /\ file.stamp \in Nat
      /\ file.stamp + 1 \in Nat
  BY DEF SessionDies, Closes, Readable, FileFits
<1>2. faults' \in 0..faults
  BY <1>1 DEF Readable
<1>3. FileFits(file') /\ (file.there => file'.there) /\ file.stamp <= file'.stamp /\ file'.stamp \in Nat
  <2>1. CASE file' = file
    BY <1>1, <2>1 DEF Readable
  <2>2. CASE file.there /\ file' = [file EXCEPT !.torn = TRUE, !.stamp = @ + 1]
    <3>1. FileFits(file') /\ file'.there /\ file'.stamp = file.stamp + 1
      BY <2>2, TornFits DEF Readable
    <3> QED BY <1>1, <3>1
  <2> QED BY <2>1, <2>2 DEF SessionDies, Closes
<1>4. IndexFits(index', file'.stamp)
  BY <1>1, <1>3, FitsLater DEF Readable
<1>5. LogMoves(a) /\ sess'[a] = None
  BY <1>1, <1>2, <1>3, <1>4, SessionMoves
<1> QED BY <1>3, <1>5

(* A step that leaves the log alone.                                            *)
LEMMA LogStays ==
  ASSUME NEW a \in Actor, Readable, sess[a] # None => SessionFits(sess[a], file.stamp), UNCHANGED logVars
  PROVE  LogMoves(a) /\ file' = file /\ sess' = sess
<1>1. file' = file /\ index' = index /\ sess' = sess /\ faults' = faults
  BY DEF logVars
<1>2. sess' = [sess EXCEPT ![a] = sess'[a]] /\ file.stamp <= file.stamp /\ faults' \in 0..faults
  BY <1>1 DEF Readable, FileFits
<1> QED BY <1>1, <1>2 DEF LogMoves, Readable

--------------------------------------------------------------------------------
(* What Append does, position by position.                                        *)
LEMMA Grown ==
  ASSUME NEW T, NEW q \in Seq(T), NEW e \in T
  PROVE  /\ Append(q, e) \in Seq(T) /\ Len(Append(q, e)) = Len(q) + 1
         /\ DOMAIN Append(q, e) = 1..(Len(q) + 1) /\ DOMAIN q = 1..Len(q) /\ Len(q) \in Nat
         /\ Append(q, e)[Len(q) + 1] = e /\ \A i \in 1..Len(q) : Append(q, e)[i] = q[i] /\ q[i] \in T
<1>1. /\ Append(q, e) \in Seq(T) /\ Len(Append(q, e)) = Len(q) + 1
      /\ Append(q, e)[Len(q) + 1] = e /\ \A i \in 1..Len(q) : Append(q, e)[i] = q[i]
  BY AppendProperties
<1> QED BY <1>1, LenProperties, ElementOfSeq

(* A result comes after its call.                                                 *)
LEMMA AnsweredAfter ==
  ASSUME NEW log \in Seq(Entry), Valid(log), NEW i \in DOMAIN log, NEW c \in CallsOf(log[i]),
         NEW j \in DOMAIN log, IsResultOf(log[j], c)
  PROVE  i < j
<1>1. DOMAIN log = 1..Len(log) /\ Len(log) \in Nat
  BY LenProperties
<1>2. PICK h \in 1..(j - 1) : c \in CallsOf(log[h])
  BY DEF Valid, IsResultOf
<1>3. h \in DOMAIN log /\ h < j /\ i \in Nat /\ h \in Nat
  BY <1>1
<1>4. h < i \/ i < h => CallsOf(log[h]) \cap CallsOf(log[i]) = {}
  BY <1>3 DEF Valid
<1>5. h = i
  BY <1>2, <1>3, <1>4
<1> QED BY <1>3, <1>5

(* Nothing is open: every call has its result behind it.                          *)
LEMMA SettledAre ==
  ASSUME NEW log \in Seq(Entry), Valid(log), OpenCalls(log) = {},
         NEW i \in DOMAIN log, NEW c \in CallsOf(log[i])
  PROVE  \E r \in (i + 1)..Len(log) : IsResultOf(log[r], c)
<1>1. DOMAIN log = 1..Len(log) /\ Len(log) \in Nat /\ log[i] \in Entry
  BY LenProperties, ElementOfSeq
<1>2. PICK k \in DOMAIN log[i].calls : log[i].calls[k].call = c
  BY DEF CallsOf
<1>3. log[i].calls[k] \in Range(log[i].calls)
  BY DEF Range
<1>4. \E j \in DOMAIN log : IsResultOf(log[j], c)
  BY <1>2, <1>3 DEF OpenCalls
<1>5. PICK j \in DOMAIN log : IsResultOf(log[j], c)
  BY <1>4
<1>6. i < j
  BY <1>5, AnsweredAfter
<1> QED BY <1>1, <1>5, <1>6

(* One more event replays, when it is new, answers what is open and comes over    *)
(* nothing that is.                                                               *)
LEMMA ValidGrows ==
  ASSUME NEW log \in Seq(Entry), Valid(log), NEW e \in Entry,
         e.k # "meta", \A i \in DOMAIN log : log[i].id # e.id,
         CallsOf(e) \cap CallIds(log) = {}, Cardinality(CallsOf(e)) = Len(e.calls),
         AllowedWhileUnanswered(e) \/ OpenCalls(log) = {},
         e.k = "result" => \E c \in OpenCalls(log) : c.call = e.call
  PROVE  Valid(Append(log, e))
<1> DEFINE q == Append(log, e)
           n == Len(log)
<1>1. /\ n \in Nat /\ DOMAIN log = 1..n /\ DOMAIN q = 1..(n + 1) /\ q[n + 1] = e
      /\ (\A i \in 1..n : q[i] = log[i] /\ log[i] \in Entry)
  BY Grown
<1>2. q # <<>> /\ Len(q) = n + 1
  BY Grown, EmptySeq
<1>3. n >= 1 /\ log[1].k = "meta"
  <2>1. log # <<>> /\ log[1].k = "meta"
    BY DEF Valid
  <2> QED BY <1>1, <2>1, EmptySeq
<1> HIDE DEF q, n
<1>4. q[1].k = "meta"
  BY <1>1, <1>3
<1>5. ASSUME NEW i \in 1..(n + 1), NEW j \in 1..(n + 1), i < j
      PROVE  /\ q[j].k # "meta" /\ q[i].id # q[j].id
             /\ CallsOf(q[i]) \cap CallsOf(q[j]) = {}
             /\ \A c \in CallsOf(q[i]) :
                  AllowedWhileUnanswered(q[j]) \/ \E r \in (i + 1)..(j - 1) : IsResultOf(q[r], c)
  <2>1. i \in 1..n /\ q[i] = log[i]
    BY <1>1, <1>5
  <2>2. CASE j = n + 1
    <3>1. q[j] = e
      BY <1>1, <2>2
    <3>2. CallsOf(log[i]) \cap CallsOf(e) = {}
      BY <1>1, <2>1 DEF CallIds
    <3>3. ASSUME NEW c \in CallsOf(q[i])
          PROVE  AllowedWhileUnanswered(e) \/ \E r \in (i + 1)..n : IsResultOf(q[r], c)
      <4>1. SUFFICES ASSUME OpenCalls(log) = {} PROVE \E r \in (i + 1)..n : IsResultOf(q[r], c)
        OBVIOUS
      <4>2. PICK r \in (i + 1)..n : IsResultOf(log[r], c)
        BY <1>1, <2>1, <4>1, SettledAre DEF n
      <4>3. r \in 1..n
        BY <1>1, <2>1
      <4> QED BY <1>1, <4>2, <4>3
    <3>4. (n + 1) - 1 = n
      BY <1>1
    <3> QED BY <1>1, <2>1, <2>2, <3>1, <3>2, <3>3, <3>4
  <2>3. CASE j # n + 1
    <3>1. j \in 1..n /\ q[j] = log[j]
      BY <1>1, <2>3
    <3>2. /\ log[j].k # "meta" /\ log[i].id # log[j].id
          /\ CallsOf(log[i]) \cap CallsOf(log[j]) = {}
          /\ \A c \in CallsOf(log[i]) :
               AllowedWhileUnanswered(log[j]) \/ \E r \in (i + 1)..(j - 1) : IsResultOf(log[r], c)
      BY <1>1, <1>5, <2>1, <3>1 DEF Valid
    <3>3. \A r \in (i + 1)..(j - 1) : q[r] = log[r]
      BY <1>1, <2>1, <3>1
    <3> QED BY <2>1, <3>1, <3>2, <3>3
  <2> QED BY <2>2, <2>3
<1>6. ASSUME NEW j \in 1..(n + 1)
      PROVE  /\ q[j].k = "result" =>
                  \E i \in 1..(j - 1) : /\ q[j].call \in CallsOf(q[i])
                                        /\ ~\E r \in (i + 1)..(j - 1) : IsResultOf(q[r], q[j].call)
             /\ Cardinality(CallsOf(q[j])) = Len(q[j].calls)
  <2>1. CASE j = n + 1
    <3>1. q[j] = e
      BY <1>1, <2>1
    <3>2. ASSUME e.k = "result"
          PROVE  \E i \in 1..(j - 1) : /\ e.call \in CallsOf(q[i])
                                       /\ ~\E r \in (i + 1)..(j - 1) : IsResultOf(q[r], e.call)
      <4>1. PICK c \in OpenCalls(log) : c.call = e.call
        BY <3>2
      <4>2. PICK i \in DOMAIN log : c \in Range(log[i].calls)
        BY DEF OpenCalls
      <4>3. \A r \in DOMAIN log : ~IsResultOf(log[r], e.call)
        BY <4>1 DEF OpenCalls
      <4>4. e.call \in CallsOf(log[i])
        BY <4>1, <4>2 DEF CallsOf, Range
      <4>5. i \in 1..(j - 1) /\ q[i] = log[i] /\ \A r \in (i + 1)..(j - 1) : r \in DOMAIN log /\ q[r] = log[r]
        BY <1>1, <2>1
      <4> QED BY <4>3, <4>4, <4>5
    <3> QED BY <3>1, <3>2
  <2>2. CASE j # n + 1
    <3>1. j \in 1..n /\ q[j] = log[j] /\ \A i \in 1..(j - 1) : q[i] = log[i]
      BY <1>1, <2>2
    <3>2. /\ log[j].k = "result" =>
                  \E i \in 1..(j - 1) : /\ log[j].call \in CallsOf(log[i])
                                        /\ ~\E r \in (i + 1)..(j - 1) : IsResultOf(log[r], log[j].call)
          /\ Cardinality(CallsOf(log[j])) = Len(log[j].calls)
      BY <1>1, <3>1 DEF Valid
    <3>3. \A i \in 1..(j - 1) : \A r \in (i + 1)..(j - 1) : r \in 1..(j - 1)
      BY <1>1
    <3> QED BY <3>1, <3>2, <3>3
  <2> QED BY <2>1, <2>2
<1>7. Valid(q)
  BY <1>1, <1>2, <1>4, <1>5, <1>6 DEF Valid
<1> QED BY <1>7 DEF q

(* The metadata alone replays.                                                    *)
LEMMA ValidFirst ==
  ASSUME NEW e \in Entry, e.k = "meta", e.calls = <<>>
  PROVE  Valid(Append(<<>>, e))
<1> DEFINE q == Append(<<>>, e)
<1>1. <<>> \in Seq(Entry) /\ Len(<<>>) = 0
  BY EmptySeq
<1>2. Len(q) = 1 /\ DOMAIN q = 1..1 /\ q[1] = e
  <2> DEFINE none == <<>>
  <2>1. none \in Seq(Entry) /\ Len(none) = 0
    BY <1>1
  <2> HIDE DEF none
  <2>2. Len(Append(none, e)) = 1 /\ DOMAIN Append(none, e) = 1..1 /\ Append(none, e)[1] = e
    BY <2>1, Grown
  <2> QED BY <2>2 DEF none
<1> HIDE DEF q
<1>3. q # <<>>
  BY <1>1, <1>2
<1>4. CallsOf(e) = {} /\ Cardinality({}) = 0 /\ Len(e.calls) = 0
  BY <1>1, FS_EmptySet DEF CallsOf
<1>5. Cardinality(CallsOf(q[1])) = Len(q[1].calls)
  BY <1>2, <1>4
<1>6. \A i \in DOMAIN q : i = 1
  BY <1>2
<1>7. Valid(q)
  BY <1>2, <1>3, <1>5, <1>6 DEF Valid
<1> QED BY <1>7 DEF q

(* A part of a log from its start replays as the log did.                         *)
LEMMA ValidPrefix ==
  ASSUME NEW log \in Seq(Entry), Valid(log), NEW n \in 1..Len(log), NEW q \in Seq(Entry), Len(q) = n,
         \A i \in 1..n : q[i] = log[i]
  PROVE  Valid(q)
<1>1. DOMAIN log = 1..Len(log) /\ Len(log) \in Nat /\ DOMAIN q = 1..n /\ n \in Nat /\ n >= 1
  BY LenProperties
<1>2. q # <<>>
  BY <1>1, EmptySeq
<1>3. q[1].k = "meta"
  BY <1>1 DEF Valid
<1>4. ASSUME NEW i \in 1..n, NEW j \in 1..n, i < j
      PROVE  /\ q[j].k # "meta" /\ q[i].id # q[j].id
             /\ CallsOf(q[i]) \cap CallsOf(q[j]) = {}
             /\ \A c \in CallsOf(q[i]) :
                  AllowedWhileUnanswered(q[j]) \/ \E r \in (i + 1)..(j - 1) : IsResultOf(q[r], c)
  <2>1. i \in DOMAIN log /\ j \in DOMAIN log /\ q[i] = log[i] /\ q[j] = log[j]
    BY <1>1
  <2>2. \A r \in (i + 1)..(j - 1) : q[r] = log[r]
    BY <1>1
  <2> QED BY <1>4, <2>1, <2>2 DEF Valid
<1>5. ASSUME NEW j \in 1..n
      PROVE  /\ q[j].k = "result" =>
                  \E i \in 1..(j - 1) : /\ q[j].call \in CallsOf(q[i])
                                        /\ ~\E r \in (i + 1)..(j - 1) : IsResultOf(q[r], q[j].call)
             /\ Cardinality(CallsOf(q[j])) = Len(q[j].calls)
  <2>1. j \in DOMAIN log /\ q[j] = log[j] /\ \A i \in 1..(j - 1) : q[i] = log[i]
    BY <1>1
  <2>2. \A i \in 1..(j - 1) : \A r \in (i + 1)..(j - 1) : r \in 1..(j - 1)
    BY <1>1
  <2>3. /\ log[j].k = "result" =>
                  \E i \in 1..(j - 1) : /\ log[j].call \in CallsOf(log[i])
                                        /\ ~\E r \in (i + 1)..(j - 1) : IsResultOf(log[r], log[j].call)
        /\ Cardinality(CallsOf(log[j])) = Len(log[j].calls)
    BY <2>1 DEF Valid
  <2> QED BY <2>1, <2>2, <2>3
<1> QED BY <1>1, <1>2, <1>3, <1>4, <1>5 DEF Valid

--------------------------------------------------------------------------------
(* What one more event opens and answers.                                         *)
LEMMA OpenGrows ==
  ASSUME NEW log \in Seq(Entry), NEW e \in Entry,
         \A j \in DOMAIN log : log[j].k = "result" => log[j].call \notin CallsOf(e)
  PROVE  OpenCalls(Append(log, e)) =
           {c \in OpenCalls(log) : ~IsResultOf(e, c.call)} \cup {c \in Range(e.calls) : ~IsResultOf(e, c.call)}
<1> DEFINE q == Append(log, e)
           n == Len(log)
<1>1. /\ n \in Nat /\ DOMAIN log = 1..n /\ DOMAIN q = 1..(n + 1) /\ q[n + 1] = e
      /\ \A i \in 1..n : q[i] = log[i]
  BY Grown
<1> HIDE DEF q, n
<1>2. ASSUME NEW c PROVE (\A j \in DOMAIN q : ~IsResultOf(q[j], c.call))
                           <=> (\A j \in DOMAIN log : ~IsResultOf(log[j], c.call)) /\ ~IsResultOf(e, c.call)
  <2>1. \A j \in 1..(n + 1) : j = n + 1 \/ j \in 1..n
    BY <1>1
  <2>2. n + 1 \in 1..(n + 1) /\ \A j \in 1..n : j \in 1..(n + 1)
    BY <1>1
  <2> QED BY <1>1, <2>1, <2>2
<1>3. ASSUME NEW c PROVE (\E i \in DOMAIN q : c \in Range(q[i].calls))
                           <=> (\E i \in DOMAIN log : c \in Range(log[i].calls)) \/ c \in Range(e.calls)
  <2>1. \A j \in 1..(n + 1) : j = n + 1 \/ j \in 1..n
    BY <1>1
  <2>2. n + 1 \in 1..(n + 1) /\ \A j \in 1..n : j \in 1..(n + 1)
    BY <1>1
  <2> QED BY <1>1, <2>1, <2>2
<1>4. ASSUME NEW c \in Range(e.calls) PROVE \A j \in DOMAIN log : ~IsResultOf(log[j], c.call)
  <2>1. c.call \in CallsOf(e)
    BY DEF CallsOf, Range
  <2> QED BY <2>1 DEF IsResultOf
<1>5. ASSUME NEW c
      PROVE  c \in OpenCalls(q) <=> \/ c \in OpenCalls(log) /\ ~IsResultOf(e, c.call)
                                    \/ c \in Range(e.calls) /\ ~IsResultOf(e, c.call)
  <2>1. c \in OpenCalls(q) <=> /\ \E i \in DOMAIN q : c \in Range(q[i].calls)
                               /\ \A j \in DOMAIN q : ~IsResultOf(q[j], c.call)
    BY DEF OpenCalls
  <2>2. c \in OpenCalls(log) <=> /\ \E i \in DOMAIN log : c \in Range(log[i].calls)
                                 /\ \A j \in DOMAIN log : ~IsResultOf(log[j], c.call)
    BY DEF OpenCalls
  <2> QED BY <1>2, <1>3, <1>4, <2>1, <2>2
<1> QED BY <1>5 DEF q

(* The result of a call leaves the others open, an event without calls all of     *)
(* them, and a message opens its own.                                             *)
LEMMA OpenThen ==
  ASSUME NEW log \in Seq(Entry), NEW e \in Entry,
         \A j \in DOMAIN log : log[j].k = "result" => log[j].call \notin CallsOf(e)
  PROVE  /\ e.calls = <<>> /\ e.k # "result" => OpenCalls(Append(log, e)) = OpenCalls(log)
         /\ e.calls = <<>> /\ e.k = "result"
              => OpenCalls(Append(log, e)) = {c \in OpenCalls(log) : c.call # e.call}
         /\ e.k # "result" => OpenCalls(Append(log, e)) = OpenCalls(log) \cup Range(e.calls)
<1>1. OpenCalls(Append(log, e)) =
        {c \in OpenCalls(log) : ~IsResultOf(e, c.call)} \cup {c \in Range(e.calls) : ~IsResultOf(e, c.call)}
  BY OpenGrows
<1>2. e.calls = <<>> => Range(e.calls) = {}
  BY DEF Range
<1>3. e.k # "result" => \A c : ~IsResultOf(e, c.call)
  BY DEF IsResultOf
<1>4. e.k = "result" => \A c : IsResultOf(e, c.call) <=> c.call = e.call
  BY DEF IsResultOf
<1> QED BY <1>1, <1>2, <1>3, <1>4

(* The numbers up to one.                                                         *)
LEMMA CountTo ==
  ASSUME NEW n \in Nat
  PROVE  IsFiniteSet(1..n) /\ Cardinality(1..n) = n
BY FS_Interval

(* The calls a message makes have ids of their own.                               *)
LEMMA CallsDiffer ==
  ASSUME NEW q \in Seq(Call), Cardinality({q[i].call : i \in DOMAIN q}) = Len(q)
  PROVE  /\ \A i, j \in DOMAIN q : q[i].call = q[j].call => i = j
         /\ IsInjective(q)
<1> DEFINE S == 1..Len(q)
           T == {q[i].call : i \in S}
           f == [i \in S |-> q[i].call]
<1>1. DOMAIN q = S /\ Len(q) \in Nat
  BY LenProperties
<1>2. IsFiniteSet(S) /\ Cardinality(S) = Len(q)
  BY <1>1, CountTo
<1>3. f \in Surjection(S, T)
  BY DEF Surjection
<1>4. Cardinality(T) = Cardinality(S)
  BY <1>1, <1>2
<1> HIDE DEF S, T, f
<1>5. f \in Injection(S, T)
  BY <1>2, <1>3, <1>4, FS_SurjSameCardinalityImpliesInj
<1>6. \A i, j \in S : f[i] = f[j] => i = j
  BY <1>5 DEF Injection, IsInjective
<1>7. \A i, j \in DOMAIN q : q[i].call = q[j].call => i = j
  BY <1>1, <1>6 DEF f
<1> QED BY <1>7 DEF IsInjective

(* A filter leaves no more of each element than there was.                        *)
LEMMA SelectedOnce ==
  ASSUME NEW T, NEW q \in Seq(T), NEW S, IsInjective(q)
  PROVE  IsInjective(Within(q, S))
<1> DEFINE n == Len(q)
           Next1(f, i) == IF i = 0 THEN <<>>
                          ELSE IF q[i] \in S THEN Append(f[i - 1], q[i]) ELSE f[i - 1]
           Good(m) == \E f : f = [i \in 0 .. m |-> Next1(f, i)]
           Bad == {m \in 0 .. n : ~Good(m)}
           kept[i \in 0 .. n] == IF i = 0 THEN <<>>
                                 ELSE IF q[i] \in S THEN Append(kept[i - 1], q[i]) ELSE kept[i - 1]
<1>1. n \in Nat /\ DOMAIN q = 1..n /\ \A i \in 1..n : q[i] \in T
  BY LenProperties, ElementOfSeq
<1> HIDE DEF n
<1>2. Bad = {}
  <2>1. SUFFICES ASSUME Bad # {} PROVE FALSE
    OBVIOUS
  <2>2. PICK m \in Bad : \A k \in Bad : ~(k < m)
    <3>1. Bad \in SUBSET Nat
      BY <1>1
    <3> HIDE DEF Bad
    <3> QED BY <2>1, <3>1, Least
  <2>3. CASE m = 0
    <3> DEFINE f == [i \in 0 .. m |-> <<>>]
    <3>1. f = [i \in 0 .. m |-> Next1(f, i)]
      BY <2>3
    <3> QED BY <2>2, <3>1
  <2>4. CASE m # 0
    <3>1. m \in 0 .. n /\ m - 1 \in 0 .. n /\ m - 1 < m
      BY <1>1, <2>2, <2>4
    <3>2. Good(m - 1)
      BY <2>2, <3>1
    <3>3. PICK g : g = [i \in 0 .. (m - 1) |-> Next1(g, i)]
      BY <3>2
    <3> DEFINE f == [i \in 0 .. m |-> IF i = m THEN Next1(g, i) ELSE g[i]]
    <3>4. ASSUME NEW i \in 0 .. m PROVE f[i] = Next1(f, i)
      <4>1. CASE i = 0
        <5>1. i \in 0 .. (m - 1) /\ i # m
          BY <3>1, <2>4, <4>1
        <5>2. g[i] = <<>>
          BY <3>3, <4>1, <5>1
        <5> QED BY <4>1, <5>1, <5>2
      <4>2. CASE i # 0
        <5>1. i - 1 \in 0 .. (m - 1) /\ i - 1 # m /\ i - 1 \in 0 .. m /\ (i # m => i \in 0 .. (m - 1))
          BY <1>1, <3>1, <4>2
        <5>2. f[i - 1] = g[i - 1]
          BY <5>1
        <5>3. i # m => g[i] = Next1(g, i)
          BY <3>3, <5>1
        <5>4. f[i] = Next1(g, i)
          BY <5>3
        <5> QED BY <5>2, <5>4
      <4> QED BY <4>1, <4>2
    <3>5. f = [i \in 0 .. m |-> Next1(f, i)]
      BY <3>4
    <3> QED BY <2>2, <3>5
  <2> QED BY <2>3, <2>4
<1>3. Good(n)
  <2>1. n \in 0 .. n
    BY <1>1
  <2> HIDE DEF Good
  <2> QED BY <1>2, <2>1
<1>4. kept = [i \in 0 .. n |-> Next1(kept, i)]
  BY <1>3
<1>5. Within(q, S) = kept[n]
  BY DEF Within, n
<1> HIDE DEF kept
<1>6. kept[0] = <<>> /\ \A i \in 1..n : kept[i] = IF q[i] \in S THEN Append(kept[i - 1], q[i]) ELSE kept[i - 1]
  <2>1. 0 \in 0..n /\ \A i \in 1..n : i \in 0..n /\ i # 0
    BY <1>1
  <2> QED BY <1>4, <2>1
<1> DEFINE Fine(m) == /\ kept[m] \in Seq(T) /\ IsInjective(kept[m])
                      /\ \A x \in Range(kept[m]) : \E i \in 1..m : q[i] = x
           Worse == {m \in 0..n : ~Fine(m)}
<1>7. Worse = {}
  <2>1. SUFFICES ASSUME Worse # {} PROVE FALSE
    OBVIOUS
  <2>2. PICK m \in Worse : \A k \in Worse : ~(k < m)
    <3>1. Worse \in SUBSET Nat
      BY <1>1
    <3> HIDE DEF Worse
    <3> QED BY <2>1, <3>1, Least
  <2>3. Fine(0)
    <3>1. <<>> \in Seq(T) /\ IsInjective(<<>>) /\ Range(<<>>) = {}
      BY EmptySeq DEF Range, IsInjective
    <3> QED BY <1>6, <3>1
  <2>4. m # 0
    <3> HIDE DEF Fine
    <3> QED BY <2>2, <2>3
  <2>5. m \in 1..n /\ m - 1 \in 0..n /\ m - 1 < m /\ m \in Nat
    BY <1>1, <2>2, <2>4
  <2>6. Fine(m - 1)
    <3> HIDE DEF Fine
    <3> QED BY <2>2, <2>5
  <2> DEFINE p == kept[m - 1]
  <2>7. p \in Seq(T) /\ IsInjective(p) /\ \A x \in Range(p) : \E i \in 1..(m - 1) : q[i] = x
    BY <2>6
  <2> HIDE DEF p
  <2>8. CASE q[m] \in S
    <3>1. kept[m] = Append(p, q[m])
      BY <1>6, <2>5, <2>8 DEF p
    <3>2. q[m] \notin Range(p)
      <4>1. SUFFICES ASSUME q[m] \in Range(p) PROVE FALSE
        OBVIOUS
      <4>2. PICK i \in 1..(m - 1) : q[i] = q[m]
        BY <2>7, <4>1
      <4>3. i \in DOMAIN q /\ m \in DOMAIN q /\ i # m
        BY <1>1, <2>5
      <4> QED BY <4>2, <4>3 DEF IsInjective
    <3>3. Append(p, q[m]) \in Seq(T) /\ IsInjective(Append(p, q[m])) /\ Range(Append(p, q[m])) = Range(p) \cup {q[m]}
      BY <1>1, <2>5, <2>7, <3>2, Appended
    <3>4. \A i \in 1..(m - 1) : i \in 1..m
      BY <2>5
    <3>5. Fine(m)
      BY <2>5, <2>7, <3>1, <3>3, <3>4
    <3> HIDE DEF Fine
    <3> QED BY <2>2, <3>5
  <2>9. CASE q[m] \notin S
    <3>1. kept[m] = p
      BY <1>6, <2>5, <2>9 DEF p
    <3>2. \A i \in 1..(m - 1) : i \in 1..m
      BY <2>5
    <3>3. Fine(m)
      BY <2>7, <3>1, <3>2
    <3> HIDE DEF Fine
    <3> QED BY <2>2, <3>3
  <2> QED BY <2>8, <2>9
<1>8. n \in 0..n
  BY <1>1
<1>9. Fine(n)
  <2> HIDE DEF Fine
  <2> QED BY <1>7, <1>8
<1> QED BY <1>5, <1>9

(* The open calls of a log that replays are those of one message, in its order,   *)
(* and no two of them have one id.                                                *)
LEMMA UnansweredTell ==
  ASSUME NEW log \in Seq(Entry), Valid(log), \A i \in DOMAIN log : log[i].k # "asst" => log[i].calls = <<>>
  PROVE  /\ Range(Unanswered(log)) = OpenCalls(log) /\ IsInjective(Unanswered(log))
         /\ \A c, d \in OpenCalls(log) : c.call = d.call => c = d
         /\ OpenCalls(log) = {} <=> Unanswered(log) = <<>>
<1> DEFINE open == OpenCalls(log)
           Holds(i) == Range(log[i].calls) \cap open # {}
           holder == CHOOSE i \in DOMAIN log : Holds(i)
<1>1. DOMAIN log = 1..Len(log) /\ Len(log) \in Nat /\ \A i \in 1..Len(log) : log[i] \in Entry
  BY LenProperties, ElementOfSeq
<1>2. ASSUME NEW i \in DOMAIN log, NEW j \in DOMAIN log, NEW c \in open, NEW d \in open,
             c \in Range(log[i].calls), d \in Range(log[j].calls)
      PROVE  ~(i < j)
  <2>1. SUFFICES ASSUME i < j PROVE FALSE
    OBVIOUS
  <2>2. c.call \in CallsOf(log[i])
    BY <1>2 DEF CallsOf, Range
  <2>3. log[j].calls # <<>>
    <3>1. Range(<<>>) = {}
      BY DEF Range
    <3> QED BY <1>2, <3>1
  <2>4. ~AllowedWhileUnanswered(log[j])
    BY <2>3 DEF AllowedWhileUnanswered
  <2>5. PICK r \in (i + 1)..(j - 1) : IsResultOf(log[r], c.call)
    BY <2>1, <2>2, <2>4 DEF Valid
  <2>6. r \in DOMAIN log
    BY <1>1
  <2> QED BY <2>5, <2>6 DEF OpenCalls
<1>3. \A i \in DOMAIN log : log[i].calls \in Seq(Call) /\ Cardinality(CallsOf(log[i])) = Len(log[i].calls)
  BY <1>1 DEF Valid, Entry
<1>4. CASE open = {}
  <2>1. Unanswered(log) = <<>>
    BY <1>4 DEF Unanswered
  <2>2. Range(<<>>) = {} /\ IsInjective(<<>>)
    BY DEF Range, IsInjective
  <2> QED BY <1>4, <2>1, <2>2
<1>5. CASE open # {}
  <2>1. PICK c0 \in open : TRUE
    BY <1>5
  <2>2. PICK h \in DOMAIN log : c0 \in Range(log[h].calls)
    BY <2>1 DEF OpenCalls
  <2>3. Holds(h)
    BY <2>1, <2>2
  <2>4. holder \in DOMAIN log /\ Holds(holder)
    BY <2>2, <2>3
  <2>5. Unanswered(log) = Within(log[holder].calls, open)
    BY <1>5 DEF Unanswered
  <2> HIDE DEF holder
  <2> DEFINE q == log[holder].calls
  <2>6. q \in Seq(Call) /\ IsInjective(q) /\ \A i, j \in DOMAIN q : q[i].call = q[j].call => i = j
    <3>1. q \in Seq(Call) /\ Cardinality({q[i].call : i \in DOMAIN q}) = Len(q)
      BY <1>3, <2>4 DEF CallsOf
    <3> HIDE DEF q
    <3> QED BY <3>1, CallsDiffer
  <2>7. open \subseteq Range(q)
    <3>1. SUFFICES ASSUME NEW d \in open PROVE d \in Range(q)
      OBVIOUS
    <3>2. PICK j \in DOMAIN log : d \in Range(log[j].calls)
      BY DEF OpenCalls
    <3>3. PICK c \in open : c \in Range(log[holder].calls)
      BY <2>4
    <3>4. ~(j < holder) /\ ~(holder < j)
      BY <1>2, <2>4, <3>2, <3>3
    <3>5. j = holder
      BY <1>1, <2>4, <3>2, <3>4
    <3> QED BY <3>2, <3>5
  <2> HIDE DEF q, open
  <2>8. Within(q, open) \in Seq(Call) /\ Range(Within(q, open)) = open
    <3>1. q \in Seq(Call)
      BY <2>6
    <3>2. Within(q, open) \in Seq(Call) /\ Range(Within(q, open)) = Range(q) \cap open
      BY <3>1, Selected
    <3> QED BY <2>7, <3>2
  <2>9. IsInjective(Within(q, open))
    <3>1. q \in Seq(Call) /\ IsInjective(q)
      BY <2>6
    <3> QED BY <3>1, SelectedOnce
  <2>10. \A c, d \in open : c.call = d.call => c = d
    BY <2>6, <2>7 DEF Range, open
  <2>11. Unanswered(log) # <<>>
    <3>1. Range(<<>>) = {}
      BY DEF Range
    <3> QED BY <1>5, <2>5, <2>8, <3>1 DEF q, open
  <2> QED BY <1>5, <2>5, <2>8, <2>9, <2>10, <2>11 DEF q, open
<1> QED BY <1>4, <1>5

--------------------------------------------------------------------------------
(* Where the event at i of a window that starts at base is in the log: the first  *)
(* is the metadata, and a base of 0 is the whole log.                             *)
At(base, i) == IF base = 0 \/ i = 1 THEN i ELSE base + i - 1

(* A cut after n does not part a working tree from the message it was saved for   *)
(* (compact_if_needed_locked).                                                    *)
WellCut(log, n) == n > 0 => ~(log[n].k = "tree" /\ log[n + 1].k = "user")

(* The compactions of a log keep a part of what came before them, are well cut,   *)
(* and each cuts at or past every earlier one.                                    *)
Spaced(log) ==
  \A i \in DOMAIN log : log[i].k = "compaction" =>
     /\ log[i].n \in 1..(i - 1) /\ WellCut(log, log[i].n)
     /\ \A j \in 1..(i - 1) : log[j].k = "compaction" => j <= log[i].n

(* An event of a window is the one of the log, but for the place a compaction or a*)
(* cutoff names, which is one of the window.                                      *)
Alike(base, x, y) ==
  /\ x.k = y.k /\ x.id = y.id /\ x.calls = y.calls /\ x.call = y.call /\ x.pics = y.pics
  /\ x.k \notin {"compaction", "cutoff"} => x.n = y.n
  /\ x.k = "compaction" => x.n >= 1 /\ y.n = Canonical(base, x.n)

(* A window that starts at base shows a log up to a place, event by event.        *)
Shows(w, base, log, upto) ==
  /\ upto = Canonical(base, Len(w)) /\ upto <= Len(log) /\ (base > 0 => base < upto)
  /\ \A i \in DOMAIN w : Alike(base, w[i], log[At(base, i)])

(* The newest compaction of a log up to a place cuts at base.                     *)
Newest(log, upto, base) ==
  /\ base > 0
  /\ \E q \in (base + 1)..upto : /\ log[q].k = "compaction" /\ log[q].n = base
                                 /\ \A j \in (q + 1)..upto : log[j].k # "compaction"

(* Only a message makes calls, only a result answers one, and 0 is no call.       *)
Plain(e) ==
  /\ e.k # "asst" => e.calls = <<>>
  /\ e.k # "result" => e.call = 0
  /\ 0 \notin CallsOf(e)

(* Places in a window are places in the log.                                      *)
LEMMA Placed ==
  ASSUME NEW base \in Nat, NEW m \in Nat
  PROVE  /\ Canonical(base, m) \in Nat /\ (m = 0 => Canonical(base, m) = 0) /\ m <= Canonical(base, m)
         /\ m # 0 => Canonical(base, m + 1) = Canonical(base, m) + 1
         /\ \A i \in 1..m : At(base, i) \in 1..Canonical(base, m)
         /\ base > 0 => \A i \in 1..m : i > 1 => At(base, i) = base + i - 1 /\ At(base, i) > base
         /\ \A i, j \in 1..m : i < j => At(base, i) < At(base, j)
         /\ m # 0 => \A p \in 1..Canonical(base, m) : p = 1 \/ p > base => \E i \in 1..m : At(base, i) = p
<1>1. CASE base = 0
  BY <1>1 DEF Canonical, At
<1>2. CASE base > 0
  <2>1. /\ Canonical(base, m) = (IF m = 0 THEN 0 ELSE base + m - 1)
        /\ Canonical(base, m + 1) = base + m
        /\ \A i \in 1..m : At(base, i) = IF i = 1 THEN 1 ELSE base + i - 1
    BY <1>2 DEF Canonical, At
  <2>2. /\ Canonical(base, m) \in Nat /\ (m = 0 => Canonical(base, m) = 0) /\ m <= Canonical(base, m)
        /\ m # 0 => Canonical(base, m + 1) = Canonical(base, m) + 1
    BY <1>2, <2>1
  <2>3. \A i \in 1..m : At(base, i) \in 1..Canonical(base, m)
    BY <1>2, <2>1
  <2>4. /\ \A i \in 1..m : i > 1 => At(base, i) = base + i - 1 /\ At(base, i) > base
        /\ \A i, j \in 1..m : i < j => At(base, i) < At(base, j)
    BY <1>2, <2>1
  <2>5. ASSUME m # 0, NEW p \in 1..Canonical(base, m), p = 1 \/ p > base PROVE \E i \in 1..m : At(base, i) = p
    <3>1. CASE p = 1
      <4>1. 1 \in 1..m
        BY <2>5
      <4> QED BY <2>1, <3>1, <4>1
    <3>2. CASE p # 1
      <4> DEFINE i == p - base + 1
      <4>1. i \in 1..m /\ i # 1 /\ base + i - 1 = p
        BY <1>2, <2>1, <2>5, <3>2
      <4> HIDE DEF i
      <4> QED BY <2>1, <4>1
    <3> QED BY <3>1, <3>2
  <2> QED BY <2>2, <2>3, <2>4, <2>5
<1> QED BY <1>1, <1>2

(* A window, event by event.                                                      *)
LEMMA ShownAre ==
  ASSUME NEW log \in Seq(Entry), NEW w \in Seq(Entry), NEW base \in Nat, NEW upto, Shows(w, base, log, upto)
  PROVE  /\ upto \in 0..Len(log) /\ upto = Canonical(base, Len(w)) /\ (base > 0 => base < upto /\ Len(w) > 1)
         /\ (Len(w) = 0 => upto = 0)
         /\ \A i \in 1..Len(w) : At(base, i) \in 1..upto /\ Alike(base, w[i], log[At(base, i)])
         /\ Len(w) # 0 => \A p \in 1..upto : p = 1 \/ p > base => \E i \in 1..Len(w) : At(base, i) = p
<1>1. Len(w) \in Nat /\ Len(log) \in Nat /\ DOMAIN w = 1..Len(w)
  BY LenProperties
<1> DEFINE m == Len(w)
<1>2. m \in Nat
  BY <1>1
<1>3. upto = Canonical(base, m) /\ upto <= Len(log) /\ (base > 0 => base < upto)
      /\ \A i \in 1..m : Alike(base, w[i], log[At(base, i)])
  BY <1>1 DEF Shows
<1> HIDE DEF m
<1>4. base > 0 => m > 1
  BY <1>2, <1>3 DEF Canonical
<1>5. /\ upto \in Nat /\ (m = 0 => upto = 0) /\ \A i \in 1..m : At(base, i) \in 1..upto
      /\ m # 0 => \A p \in 1..upto : p = 1 \/ p > base => \E i \in 1..m : At(base, i) = p
  BY <1>2, <1>3, Placed
<1>6. upto \in 0..Len(log)
  BY <1>1, <1>3, <1>5
<1> QED BY <1>3, <1>4, <1>5, <1>6 DEF m

(* The window leaves the same calls open as the log.                              *)
LEMMA WindowOpens ==
  ASSUME NEW log \in Seq(Entry), NEW w \in Seq(Entry), NEW base \in Nat, Shows(w, base, log, Len(log)),
         Valid(log), \A i \in DOMAIN log : Plain(log[i]),
         base > 0 => \E q \in (base + 1)..Len(log) : log[q].k = "compaction"
  PROVE  OpenCalls(w) = OpenCalls(log)
<1> DEFINE n == Len(log)
           m == Len(w)
<1>1. /\ n \in Nat /\ m \in Nat /\ DOMAIN log = 1..n /\ DOMAIN w = 1..m
      /\ (\A i \in 1..n : log[i] \in Entry) /\ (\A i \in 1..m : w[i] \in Entry)
  BY LenProperties, ElementOfSeq
<1>2. /\ \A i \in 1..m : At(base, i) \in 1..n /\ Alike(base, w[i], log[At(base, i)])
      /\ m # 0 => \A p \in 1..n : p = 1 \/ p > base => \E i \in 1..m : At(base, i) = p
      /\ m = 0 => n = 0
  BY ShownAre
<1>3. n # 0 /\ log[1].k = "meta"
  <2>1. log # <<>> /\ log[1].k = "meta"
    BY DEF Valid
  <2> QED BY <2>1, EmptySeq
<1>4. m # 0 /\ log[1].calls = <<>> /\ 1 \in 1..n
  <2>1. 1 \in DOMAIN log
    BY <1>1, <1>3
  <2> QED BY <1>1, <1>2, <1>3, <2>1 DEF Plain
<1>5. \A i \in 1..m : base > 0 /\ i > 1 => At(base, i) > base
  BY <1>1, Placed
<1>6. \A i \in 1..m : w[i].calls = log[At(base, i)].calls
      /\ \A c : IsResultOf(w[i], c) <=> IsResultOf(log[At(base, i)], c)
  BY <1>2 DEF Alike, IsResultOf
<1> HIDE DEF n, m
<1>7. ASSUME NEW c \in OpenCalls(w) PROVE c \in OpenCalls(log)
  <2>1. PICK i \in 1..m : c \in Range(w[i].calls)
    BY <1>1 DEF OpenCalls
  <2>2. At(base, i) \in DOMAIN log /\ c \in Range(log[At(base, i)].calls)
    BY <1>1, <1>2, <1>6, <2>1
  <2>3. ASSUME NEW j \in 1..n, IsResultOf(log[j], c.call) PROVE FALSE
    <3>1. CASE j = 1 \/ j > base
      <4>1. PICK h \in 1..m : At(base, h) = j
        BY <1>2, <1>4, <3>1
      <4>2. IsResultOf(w[h], c.call)
        BY <1>6, <2>3, <4>1
      <4> QED BY <1>1, <4>2 DEF OpenCalls
    <3>2. CASE ~(j = 1 \/ j > base)
      <4>1. c.call \in CallsOf(log[At(base, i)])
        BY <2>2 DEF CallsOf, Range
      <4>2. At(base, i) < j
        BY <1>1, <2>2, <2>3, <4>1, AnsweredAfter
      <4>3. i = 1
        BY <1>1, <1>2, <1>5, <2>1, <3>2, <4>2
      <4>4. At(base, i) = 1
        BY <4>3 DEF At
      <4>5. Range(<<>>) = {}
        BY DEF Range
      <4> QED BY <1>4, <2>2, <4>4, <4>5
    <3> QED BY <3>1, <3>2
  <2> QED BY <1>1, <2>2, <2>3 DEF OpenCalls
<1>8. ASSUME NEW c \in OpenCalls(log) PROVE c \in OpenCalls(w)
  <2>1. PICK p \in 1..n : c \in Range(log[p].calls)
    BY <1>1 DEF OpenCalls
  <2>2. p = 1 \/ p > base
    <3>1. SUFFICES ASSUME p # 1, p <= base PROVE FALSE
      BY <1>1
    <3>2. PICK q \in (base + 1)..n : log[q].k = "compaction"
      BY <1>1, <3>1 DEF n
    <3>3. q \in 1..n /\ p < q
      BY <1>1, <3>1
    <3>4. c.call \in CallsOf(log[p])
      BY <2>1 DEF CallsOf, Range
    <3>5. PICK r \in (p + 1)..(q - 1) : IsResultOf(log[r], c.call)
      BY <1>1, <3>2, <3>3, <3>4 DEF Valid, AllowedWhileUnanswered
    <3>6. r \in DOMAIN log
      BY <1>1, <3>3
    <3> QED BY <3>5, <3>6 DEF OpenCalls
  <2>3. PICK i \in 1..m : At(base, i) = p
    BY <1>2, <1>4, <2>2
  <2>4. c \in Range(w[i].calls)
    BY <1>6, <2>1, <2>3
  <2>5. \A j \in 1..m : ~IsResultOf(w[j], c.call)
    BY <1>1, <1>2, <1>6 DEF OpenCalls
  <2> QED BY <1>1, <2>4, <2>5 DEF OpenCalls
<1> QED BY <1>7, <1>8

(* What the window says is unanswered: all that is open.                          *)
LEMMA OpenIsUnanswered ==
  ASSUME NEW log \in Seq(Entry), NEW w \in Seq(Entry), NEW base \in Nat, Shows(w, base, log, Len(log)),
         Valid(log), \A i \in DOMAIN log : Plain(log[i]), OpenCalls(w) # {}
  PROVE  HasUnanswered(w)
<1> DEFINE n == Len(log)
           m == Len(w)
           stops == {i \in DOMAIN w : ~AllowedWhileUnanswered(w[i])}
           stop == CHOOSE i \in stops : \A j \in stops : j <= i
           after == {w[i].call : i \in (stop + 1)..m}
<1>1. /\ n \in Nat /\ m \in Nat /\ DOMAIN log = 1..n /\ DOMAIN w = 1..m
      /\ (\A i \in 1..n : log[i] \in Entry) /\ (\A i \in 1..m : w[i] \in Entry)
  BY LenProperties, ElementOfSeq
<1>2. \A i \in 1..m : At(base, i) \in 1..n /\ Alike(base, w[i], log[At(base, i)])
  BY ShownAre
<1>3. \A i, j \in 1..m : i < j => At(base, i) < At(base, j)
  BY <1>1, Placed
<1>4. /\ \A i \in 1..m : w[i].calls = log[At(base, i)].calls /\ w[i].call = log[At(base, i)].call
                         /\ w[i].k = log[At(base, i)].k
      /\ \A i \in 1..m : CallsOf(w[i]) = CallsOf(log[At(base, i)])
      /\ \A i \in 1..m : Plain(log[At(base, i)])
  BY <1>1, <1>2 DEF Alike, CallsOf
<1>5. PICK c \in OpenCalls(w) : TRUE
  OBVIOUS
<1>6. PICK i \in 1..m : c \in Range(w[i].calls)
  BY <1>1 DEF OpenCalls
<1>7. c.call \in CallsOf(w[i])
  BY <1>6 DEF CallsOf, Range
<1>8. i \in stops
  <2>1. w[i].calls # <<>>
    <3>1. Range(<<>>) = {}
      BY DEF Range
    <3> QED BY <1>6, <3>1
  <2>2. w[i].k = "asst"
    BY <1>4, <2>1 DEF Plain
  <2> QED BY <1>1, <2>2 DEF AllowedWhileUnanswered
<1>9. stop \in stops /\ \A j \in stops : j <= stop
  <2>1. stops \in SUBSET Nat /\ \A j \in stops : j <= m
    BY <1>1
  <2>2. GreatestOf(stops) \in stops \cup {0} /\ \A j \in stops : j <= GreatestOf(stops)
    <3> HIDE DEF stops
    <3> QED BY <1>1, <2>1, GreatestIs
  <2>3. i > 0 /\ i \in Nat
    BY <1>1
  <2>4. GreatestOf(stops) \in stops
    <3> HIDE DEF stops
    <3> QED BY <1>8, <2>2, <2>3
  <2> HIDE DEF stops
  <2> QED BY <2>2, <2>4
<1> HIDE DEF stop
<1>10. stop \in 1..m /\ ~AllowedWhileUnanswered(w[stop]) /\ i <= stop
  BY <1>1, <1>8, <1>9
<1>11. i = stop
  <2>1. SUFFICES ASSUME i < stop PROVE FALSE
    BY <1>1, <1>10
  <2>2. At(base, i) \in DOMAIN log /\ At(base, stop) \in DOMAIN log /\ At(base, i) < At(base, stop)
    BY <1>1, <1>2, <1>3, <1>10, <2>1
  <2>3. ~AllowedWhileUnanswered(log[At(base, stop)]) /\ c.call \in CallsOf(log[At(base, i)])
    BY <1>4, <1>7, <1>10 DEF AllowedWhileUnanswered
  <2>4. PICK r \in (At(base, i) + 1)..(At(base, stop) - 1) : IsResultOf(log[r], c.call)
    BY <2>2, <2>3 DEF Valid
  <2>5. r > At(base, i) /\ r < At(base, stop) /\ r \in 1..n
    BY <1>1, <2>2
  <2>6. r = 1 \/ r > base
    <3>1. CASE base = 0
      BY <1>1, <2>5, <3>1
    <3>2. CASE i = 1
      <4>1. w[i].k = "asst"
        <5>1. w[i].calls # <<>>
          <6>1. Range(<<>>) = {}
            BY DEF Range
          <6> QED BY <1>6, <6>1
        <5> QED BY <1>4, <5>1 DEF Plain
      <4>2. log[1].k = "asst"
        BY <1>4, <3>2, <4>1 DEF At
      <4> QED BY <4>2 DEF Valid
    <3>3. CASE base > 0 /\ i # 1
      <4>1. At(base, i) > base
        BY <1>1, <3>3, Placed
      <4> QED BY <1>1, <2>2, <2>5, <4>1
    <3> QED BY <1>1, <3>1, <3>2, <3>3
  <2>7. PICK h \in 1..m : At(base, h) = r
    <3>1. m # 0
      BY <1>1
    <3> QED BY <2>5, <2>6, <3>1, ShownAre
  <2>8. IsResultOf(w[h], c.call)
    BY <1>4, <2>4, <2>7 DEF IsResultOf
  <2> QED BY <1>1, <2>8 DEF OpenCalls
<1>12. c.call \notin after
  <2>1. SUFFICES ASSUME NEW j \in (stop + 1)..m, w[j].call = c.call PROVE FALSE
    OBVIOUS
  <2>2. j \in 1..m /\ j > stop
    BY <1>1, <1>10
  <2>3. c.call # 0
    BY <1>4, <1>7 DEF Plain
  <2>4. w[j].k = "result"
    BY <1>4, <2>1, <2>2, <2>3 DEF Plain
  <2> QED BY <1>1, <2>1, <2>2, <2>4 DEF OpenCalls, IsResultOf
<1>13. ~(CallsOf(w[stop]) \subseteq after)
  BY <1>7, <1>11, <1>12
<1>14. stops # {}
  BY <1>8
<1>15. HasUnanswered(w) <=> stops # {} /\ ~(CallsOf(w[stop]) \subseteq after)
  BY DEF HasUnanswered, stop
<1> QED BY <1>13, <1>14, <1>15

(* How far into the log the window of a checkpoint reaches.                       *)
Reach(ix) == Canonical(ix.start, Len(ix.window))

(* A set of call ids is that of the log up to a place.                            *)
Knows(known, log, upto) ==
  /\ \A i \in 1..upto : CallsOf(log[i]) \subseteq known
  /\ \A c \in known : \E i \in 1..upto : c \in CallsOf(log[i])

(* A checkpoint covers a log: its window shows the part it reaches, it knows the  *)
(* call ids of that part and starts at its newest compaction, and the lines after *)
(* its offset are the rest of the log, with no rewind among them.                 *)
Covers(ix, log, lines) ==
  /\ ix.offset <= Len(lines) /\ Len(log) + ix.offset = Reach(ix) + Len(lines)
  /\ \A i \in 1..(Len(lines) - ix.offset) : log[Reach(ix) + i] = lines[ix.offset + i]
  /\ Shows(ix.window, ix.start, log, Reach(ix))
  /\ Knows(ix.known, log, Reach(ix))
  /\ Newest(log, Reach(ix), ix.start)

(* A window and its log grow by the same event.                                   *)
LEMMA ShowsGrows ==
  ASSUME NEW log \in Seq(Entry), NEW w \in Seq(Entry), NEW base \in Nat, Shows(w, base, log, Len(log)),
         NEW x \in Entry, NEW y \in Entry, Alike(base, x, y)
  PROVE  Shows(Append(w, x), base, Append(log, y), Len(Append(log, y)))
<1> DEFINE m == Len(w)
           n == Len(log)
           w2 == Append(w, x)
           l2 == Append(log, y)
<1>1. /\ n \in Nat /\ Len(l2) = n + 1 /\ l2[n + 1] = y /\ \A i \in 1..n : l2[i] = log[i]
  BY Grown
<1>2. /\ m \in Nat /\ Len(w2) = m + 1 /\ w2[m + 1] = x /\ (\A i \in 1..m : w2[i] = w[i])
      /\ DOMAIN w2 = 1..(m + 1)
  BY Grown
<1>3. /\ n = Canonical(base, m) /\ (base > 0 => base < n /\ m > 1) /\ (m = 0 => n = 0)
      /\ \A i \in 1..m : At(base, i) \in 1..n /\ Alike(base, w[i], log[At(base, i)])
  BY ShownAre
<1> HIDE DEF m, n, w2, l2
<1>4. Canonical(base, m + 1) = n + 1 /\ At(base, m + 1) = n + 1
  BY <1>1, <1>2, <1>3 DEF Canonical, At
<1>5. ASSUME NEW i \in 1..(m + 1) PROVE Alike(base, w2[i], l2[At(base, i)])
  <2>1. CASE i = m + 1
    BY <1>1, <1>2, <1>4, <2>1
  <2>2. CASE i # m + 1
    <3>1. i \in 1..m
      BY <1>2, <2>2
    <3> QED BY <1>1, <1>2, <1>3, <3>1
  <2> QED BY <2>1, <2>2
<1>6. base > 0 => base < n + 1
  BY <1>1, <1>3
<1>7. Shows(w2, base, l2, n + 1)
  BY <1>1, <1>2, <1>4, <1>5, <1>6 DEF Shows
<1> QED BY <1>1, <1>7 DEF w2, l2

(* What a window shows of a log it shows of a longer one.                         *)
LEMMA ShowsLonger ==
  ASSUME NEW log \in Seq(Entry), NEW w \in Seq(Entry), NEW base \in Nat, NEW upto, Shows(w, base, log, upto),
         NEW q \in Seq(Entry), Len(log) <= Len(q), \A i \in 1..Len(log) : q[i] = log[i]
  PROVE  Shows(w, base, q, upto)
<1>1. Len(log) \in Nat /\ Len(q) \in Nat /\ DOMAIN w = 1..Len(w) /\ Len(w) \in Nat
  BY LenProperties
<1>2. /\ upto \in 0..Len(log) /\ upto = Canonical(base, Len(w)) /\ (base > 0 => base < upto)
      /\ \A i \in 1..Len(w) : At(base, i) \in 1..upto /\ Alike(base, w[i], log[At(base, i)])
  BY ShownAre
<1>3. ASSUME NEW i \in 1..Len(w) PROVE Alike(base, w[i], q[At(base, i)])
  <2>1. At(base, i) \in 1..Len(log)
    BY <1>1, <1>2
  <2> QED BY <1>2, <2>1
<1>4. upto <= Len(q)
  BY <1>1, <1>2
<1> QED BY <1>1, <1>2, <1>3, <1>4 DEF Shows

(* So does a checkpoint, line by line.                                            *)
LEMMA CoversGrows ==
  ASSUME NEW log \in Seq(Entry), NEW lines \in Seq(Entry), NEW ix \in IndexFile, Covers(ix, log, lines),
         NEW e \in Entry, NEW iy \in IndexFile,
         iy.window = ix.window, iy.start = ix.start, iy.offset = ix.offset, iy.known = ix.known
  PROVE  Covers(iy, Append(log, e), Append(lines, e)) /\ Reach(iy) = Reach(ix)
<1> DEFINE n == Len(log)
           k == Len(lines)
           l2 == Append(log, e)
           k2 == Append(lines, e)
           r == Reach(ix)
<1>1. /\ n \in Nat /\ Len(l2) = n + 1 /\ l2[n + 1] = e /\ (\A i \in 1..n : l2[i] = log[i]) /\ l2 \in Seq(Entry)
  BY Grown
<1>2. /\ k \in Nat /\ Len(k2) = k + 1 /\ k2[k + 1] = e /\ \A i \in 1..k : k2[i] = lines[i]
  BY Grown
<1>3. ix.window \in Seq(Entry) /\ ix.start \in Nat /\ ix.offset \in Nat
  BY DEF IndexFile
<1>4. Reach(iy) = r
  BY DEF Reach
<1>5. /\ ix.offset <= k /\ n + ix.offset = r + k /\ r \in Nat /\ r <= n
      /\ \A i \in 1..(k - ix.offset) : log[r + i] = lines[ix.offset + i]
  <2>1. Shows(ix.window, ix.start, log, r)
    BY DEF Covers
  <2>2. r \in 0..n
    <3> HIDE DEF r
    <3> QED BY <1>3, <2>1, ShownAre
  <2> QED BY <1>1, <2>2 DEF Covers
<1>6. Shows(ix.window, ix.start, log, r) /\ Knows(ix.known, log, r) /\ Newest(log, r, ix.start)
  BY DEF Covers
<1> HIDE DEF n, k, l2, k2, r
<1>7. Shows(ix.window, ix.start, l2, r)
  <2>1. Len(log) <= Len(l2) /\ \A i \in 1..Len(log) : l2[i] = log[i]
    BY <1>1 DEF n
  <2> QED BY <1>1, <1>3, <1>6, <2>1, ShowsLonger
<1>8. \A i \in 1..r : l2[i] = log[i]
  BY <1>1, <1>5
<1>9. Knows(ix.known, l2, r)
  BY <1>6, <1>8 DEF Knows
<1>10. Newest(l2, r, ix.start)
  <2>1. PICK q \in (ix.start + 1)..r : /\ log[q].k = "compaction" /\ log[q].n = ix.start
                                       /\ \A j \in (q + 1)..r : log[j].k # "compaction"
    BY <1>6 DEF Newest
  <2>2. q \in 1..r /\ \A j \in (q + 1)..r : j \in 1..r
    BY <1>3, <1>5
  <2> QED BY <1>6, <1>8, <2>1, <2>2 DEF Newest
<1>11. ASSUME NEW i \in 1..((k + 1) - ix.offset) PROVE l2[r + i] = k2[ix.offset + i]
  <2> DEFINE o == ix.offset
  <2>1. o \in Nat /\ k \in Nat /\ n \in Nat /\ r \in Nat /\ o <= k /\ n + o = r + k /\ i \in 1..((k + 1) - o)
    BY <1>1, <1>2, <1>3, <1>5
  <2>2. \A j \in 1..(k - o) : log[r + j] = lines[o + j]
    BY <1>5
  <2> HIDE DEF o
  <2>3. CASE i = (k + 1) - o
    <3>1. r + i = n + 1 /\ o + i = k + 1
      BY <2>1, <2>3
    <3> QED BY <1>1, <1>2, <3>1 DEF o
  <2>4. CASE i # (k + 1) - o
    <3>1. i \in 1..(k - o) /\ r + i \in 1..n /\ o + i \in 1..k
      BY <2>1, <2>4
    <3> QED BY <1>1, <1>2, <2>2, <3>1 DEF o
  <2> QED BY <2>3, <2>4
<1>12. ix.offset <= k + 1 /\ (n + 1) + ix.offset = r + (k + 1)
  BY <1>1, <1>2, <1>3, <1>5
<1>13. Covers(iy, l2, k2)
  BY <1>1, <1>2, <1>4, <1>7, <1>9, <1>10, <1>11, <1>12 DEF Covers
<1> QED BY <1>4, <1>13 DEF l2, k2, r

(* The same checkpoint, sealed under another stamp.                               *)
LEMMA CoversSame ==
  ASSUME NEW log, NEW lines, NEW ix, Covers(ix, log, lines), NEW iy,
         iy.window = ix.window, iy.start = ix.start, iy.offset = ix.offset, iy.known = ix.known
  PROVE  Covers(iy, log, lines) /\ Reach(iy) = Reach(ix)
BY DEF Covers, Reach

--------------------------------------------------------------------------------
(* The newest compaction of a log with its compactions in order is where it is    *)
(* cut, and the only one past the cut.                                            *)
LEMMA NewestTells ==
  ASSUME NEW log \in Seq(Entry), Spaced(log)
  PROVE  /\ \A b \in Nat : Newest(log, Len(log), b) => CompactionCut(log) = b
         /\ CompactionCut(log) # 0 => Newest(log, Len(log), CompactionCut(log))
         /\ \A b \in Nat : \A u \in 1..Len(log) : Newest(log, u, b) => WellCut(log, b)
<1> DEFINE n == Len(log)
           C == {j \in DOMAIN log : log[j].k = "compaction"}
           S == {LeastOf(log[i].n, i - 1) : i \in C}
           T == {log[i].n : i \in C}
<1>1. n \in Nat /\ DOMAIN log = 1..n /\ \A i \in 1..n : log[i] \in Entry
  BY LenProperties, ElementOfSeq
<1>2. \A i \in C : i \in 1..n /\ log[i].n \in 1..(i - 1) /\ \A j \in 1..(i - 1) : j \in C => j <= log[i].n
  BY <1>1 DEF Spaced
<1>3. \A i \in C : LeastOf(log[i].n, i - 1) = log[i].n
  BY <1>1, <1>2 DEF LeastOf
<1>4. S = T
  BY <1>3
<1>5. CompactionCut(log) = GreatestOf(T)
  <2>1. CompactionCut(log) = GreatestOf(S)
    BY DEF CompactionCut
  <2> HIDE DEF S, T
  <2> QED BY <1>4, <2>1
<1> HIDE DEF C
<1>6. T \in SUBSET Nat /\ \A m \in T : m <= n
  BY <1>1, <1>2
<1>7. GreatestOf(T) \in T \cup {0} /\ GreatestOf(T) \in Nat /\ \A m \in T : m <= GreatestOf(T)
  <2> HIDE DEF T, n
  <2> QED BY <1>1, <1>6, GreatestIs
<1> DEFINE g == GreatestOf(T)
<1>8. g \in T \cup {0} /\ g \in Nat /\ \A i \in C : log[i].n <= g
  BY <1>7
<1>9. g # 0 => \E i \in C : log[i].n = g
  BY <1>7
<1>10. CompactionCut(log) = g
  BY <1>5
<1> HIDE DEF g, T, S, n
<1>11. ASSUME NEW b \in Nat, Newest(log, n, b) PROVE g = b
  <2>1. PICK q \in (b + 1)..n : /\ log[q].k = "compaction" /\ log[q].n = b
                                /\ \A j \in (q + 1)..n : log[j].k # "compaction"
    BY <1>11 DEF Newest
  <2>2. q \in 1..n /\ q \in C /\ b > 0
    BY <1>1, <1>11, <2>1 DEF Newest, C
  <2>3. b <= g /\ g # 0
    BY <1>8, <2>1, <2>2
  <2>4. PICK i \in C : log[i].n = g
    BY <1>9, <2>3
  <2>5. i \in 1..n /\ g \in 1..(i - 1) /\ \A j \in 1..(i - 1) : j \in C => j <= g
    BY <1>2, <2>4
  <2>6. i <= q
    <3>1. i \in DOMAIN log /\ log[i].k = "compaction"
      BY <2>4 DEF C
    <3> QED BY <1>1, <2>1, <2>2, <2>5, <3>1
  <2>7. CASE i = q
    BY <2>1, <2>4, <2>7
  <2>8. CASE i < q
    <3>1. i \in 1..(q - 1)
      BY <2>2, <2>5, <2>8
    <3>2. i <= b
      BY <1>2, <2>1, <2>2, <2>4, <3>1
    <3> QED BY <2>3, <2>5, <3>2, <1>8, <1>1
  <2> QED BY <2>2, <2>5, <2>6, <2>7, <2>8
<1>12. ASSUME g # 0 PROVE Newest(log, n, g)
  <2>1. PICK i \in C : log[i].n = g
    BY <1>9, <1>12
  <2>2. i \in 1..n /\ g \in 1..(i - 1) /\ log[i].k = "compaction"
    BY <1>1, <1>2, <2>1 DEF C
  <2>3. ASSUME NEW j \in (i + 1)..n, log[j].k = "compaction" PROVE FALSE
    <3>1. j \in 1..n /\ j \in C /\ i \in 1..(j - 1)
      BY <1>1, <2>2, <2>3 DEF C
    <3>2. i <= log[j].n /\ log[j].n <= g
      BY <1>2, <1>8, <2>1, <3>1
    <3>3. log[j].n \in Nat
      BY <1>2, <3>1
    <3> QED BY <1>8, <2>2, <3>2, <3>3
  <2>4. i \in (g + 1)..n /\ g > 0
    BY <1>1, <1>8, <1>12, <2>2
  <2> QED BY <2>1, <2>2, <2>3, <2>4 DEF Newest
<1>13. ASSUME NEW b \in Nat, NEW u \in 1..n, Newest(log, u, b) PROVE WellCut(log, b)
  <2>1. PICK q \in (b + 1)..u : log[q].k = "compaction" /\ log[q].n = b
    BY <1>13 DEF Newest
  <2>2. q \in DOMAIN log
    BY <1>1, <1>13, <2>1
  <2> QED BY <2>1, <2>2 DEF Spaced
<1> QED BY <1>10, <1>11, <1>12, <1>13 DEF n

(* What sealing does, event by event: the compaction past the cut now keeps       *)
(* everything, and what else has an index has another.                            *)
LEMMA SealedAre ==
  ASSUME NEW events \in Seq(Entry), NEW cut \in 1..(Len(events) - 1), events[1].k = "meta",
         NEW q \in (cut + 1)..Len(events), events[q].k = "compaction",
         \A j \in (cut + 1)..Len(events) : events[j].k = "compaction" => j = q
  PROVE  /\ DOMAIN Sealed(events, cut) = 1..(Len(events) - cut + 1)
         /\ Sealed(events, cut) \in Seq(Entry) => Len(Sealed(events, cut)) = Len(events) - cut + 1
         /\ \A i \in 1..(Len(events) - cut + 1) :
              LET e == events[IF i = 1 THEN 1 ELSE cut + i - 1]
              IN /\ Sealed(events, cut)[i].k = e.k /\ Sealed(events, cut)[i].id = e.id
                 /\ Sealed(events, cut)[i].calls = e.calls /\ Sealed(events, cut)[i].call = e.call
                 /\ Sealed(events, cut)[i].pics = e.pics
                 /\ e.k \notin {"compaction", "cutoff"} => Sealed(events, cut)[i].n = e.n
                 /\ e.k = "compaction" => Sealed(events, cut)[i].n = 1 /\ cut + i - 1 = q
<1> DEFINE part == SubSeq(events, cut + 1, Len(events))
           one == <<events[1]>>
           window == one \o part
           last == CHOOSE i \in DOMAIN window :
                     /\ window[i].k = "compaction"
                     /\ \A j \in DOMAIN window : window[j].k = "compaction" => j <= i
           n == Len(events)
           m == n - cut + 1
           Old(i) == events[IF i = 1 THEN 1 ELSE cut + i - 1]
<1>1. n \in Nat /\ DOMAIN events = 1..n /\ (\A i \in 1..n : events[i] \in Entry) /\ m \in Nat /\ m >= 2
      /\ cut \in Nat /\ cut >= 1 /\ cut < n
  BY LenProperties, ElementOfSeq
<1>2. part \in Seq(Entry) /\ Len(part) = n - cut /\ \A i \in 1..(n - cut) : part[i] = events[cut + i]
  <2>1. \A i \in (cut + 1)..n : events[i] \in Entry
    BY <1>1
  <2> DEFINE k == cut + 1
  <2>2. n \in Int /\ k \in Int /\ k <= n /\ \A i \in k..n : events[i] \in Entry
    BY <1>1, <2>1
  <2> HIDE DEF n, k
  <2>3. SubSeq(events, k, n) \in Seq(Entry) /\ Len(SubSeq(events, k, n)) = n - k + 1
        /\ \A i \in 1..(n - k + 1) : SubSeq(events, k, n)[i] = events[k + i - 1]
    BY <2>2, SubSeqProperties
  <2>4. n - k + 1 = n - cut /\ \A i \in 1..(n - cut) : k + i - 1 = cut + i
    BY <1>1 DEF k
  <2> QED BY <2>3, <2>4 DEF n, k
<1>3. one \in Seq(Entry) /\ Len(one) = 1 /\ one[1] = events[1]
  <2>1. events[1] \in Entry
    BY <1>1
  <2> QED BY <2>1
<1> HIDE DEF part, one
<1>4. window \in Seq(Entry) /\ Len(window) = m /\ \A i \in 1..m : window[i] = Old(i)
  <2>1. window \in Seq(Entry) /\ Len(window) = Len(one) + Len(part)
        /\ \A i \in 1..(Len(one) + Len(part)) : window[i] = IF i <= Len(one) THEN one[i] ELSE part[i - Len(one)]
    BY <1>2, <1>3, ConcatProperties
  <2> HIDE DEF window
  <2>2. Len(window) = m /\ \A i \in 1..m : window[i] = IF i <= 1 THEN one[i] ELSE part[i - 1]
    BY <1>1, <1>2, <1>3, <2>1
  <2>3. ASSUME NEW i \in 1..m PROVE window[i] = Old(i)
    <3>1. CASE i = 1
      BY <1>3, <2>2, <3>1
    <3>2. CASE i # 1
      <4>1. ~(i <= 1) /\ i - 1 \in 1..(n - cut) /\ cut + (i - 1) = cut + i - 1
        BY <1>1, <3>2
      <4> QED BY <1>2, <2>2, <3>2, <4>1
    <3> QED BY <3>1, <3>2
  <2> QED BY <2>1, <2>2, <2>3
<1>5. DOMAIN window = 1..m
  BY <1>4, LenProperties
<1> DEFINE made == [i \in DOMAIN window |->
                      IF i = last THEN [window[i] EXCEPT !.n = 1]
                      ELSE IF window[i].k = "cutoff" THEN [window[i] EXCEPT !.n = Rebased(window[i].n, cut)]
                      ELSE window[i]]
<1>6. Sealed(events, cut) = made
  BY DEF Sealed, part, one
<1> HIDE DEF window
<1>7. ASSUME NEW i \in 1..m PROVE window[i].k = "compaction" => cut + i - 1 = q
  <2>1. i # 1 => cut + i - 1 \in (cut + 1)..n
    BY <1>1
  <2> QED BY <1>4, <2>1
<1>8. q - cut + 1 \in 1..m /\ window[q - cut + 1].k = "compaction" /\ cut + (q - cut + 1) - 1 = q
  <2>1. q - cut + 1 \in 1..m /\ q - cut + 1 # 1 /\ cut + (q - cut + 1) - 1 = q
    BY <1>1
  <2>2. Old(q - cut + 1) = events[q]
    BY <2>1
  <2> QED BY <1>4, <2>1, <2>2
<1>9. last = q - cut + 1
  <2> DEFINE p == q - cut + 1
             P(i) == window[i].k = "compaction" /\ \A j \in DOMAIN window : window[j].k = "compaction" => j <= i
  <2>1. \A j \in 1..m : window[j].k = "compaction" => j = p
    BY <1>1, <1>7
  <2>2. p \in DOMAIN window /\ P(p) /\ \A i \in DOMAIN window : P(i) => i = p
    BY <1>1, <1>5, <1>8, <2>1
  <2> HIDE DEF p
  <2>3. last = CHOOSE i \in DOMAIN window : P(i)
    OBVIOUS
  <2> HIDE DEF P, last
  <2> QED BY <2>2, <2>3 DEF p
<1> HIDE DEF last
<1>10. ASSUME NEW i \in 1..m
       PROVE  /\ made[i].k = Old(i).k /\ made[i].id = Old(i).id /\ made[i].calls = Old(i).calls
              /\ made[i].call = Old(i).call /\ made[i].pics = Old(i).pics
              /\ Old(i).k \notin {"compaction", "cutoff"} => made[i].n = Old(i).n
              /\ Old(i).k = "compaction" => made[i].n = 1 /\ cut + i - 1 = q
  <2> DEFINE e == window[i]
  <2>1. e = Old(i) /\ e \in Entry
    BY <1>4, <1>5, ElementOfSeq
  <2>2. made[i] = IF i = last THEN [e EXCEPT !.n = 1]
                  ELSE IF e.k = "cutoff" THEN [e EXCEPT !.n = Rebased(e.n, cut)] ELSE e
    BY <1>5
  <2>3. i = last => e.k = "compaction"
    BY <1>8, <1>9
  <2>4. e.k = "compaction" => i = last /\ cut + i - 1 = q
    BY <1>1, <1>7, <1>9
  <2> HIDE DEF e, made
  <2>5. \A v : /\ [e EXCEPT !.n = v].k = e.k /\ [e EXCEPT !.n = v].id = e.id
               /\ [e EXCEPT !.n = v].calls = e.calls /\ [e EXCEPT !.n = v].call = e.call
               /\ [e EXCEPT !.n = v].pics = e.pics /\ [e EXCEPT !.n = v].n = v
    BY <2>1 DEF Entry
  <2>6. /\ made[i].k = e.k /\ made[i].id = e.id /\ made[i].calls = e.calls
        /\ made[i].call = e.call /\ made[i].pics = e.pics
        /\ e.k \notin {"compaction", "cutoff"} => made[i].n = e.n
        /\ e.k = "compaction" => made[i].n = 1 /\ cut + i - 1 = q
    BY <2>2, <2>3, <2>4, <2>5
  <2> QED BY <2>1, <2>6
<1>11. DOMAIN made = 1..m
  BY <1>5
<1> HIDE DEF made
<1> DEFINE sealed == Sealed(events, cut)
<1>12. sealed \in Seq(Entry) => Len(sealed) = m
  <2>1. SUFFICES ASSUME sealed \in Seq(Entry) PROVE Len(sealed) = m
    OBVIOUS
  <2>2. DOMAIN sealed = 1..m
    BY <1>6, <1>11
  <2> HIDE DEF sealed, m
  <2>3. DOMAIN sealed = 1..Len(sealed) /\ Len(sealed) \in Nat
    BY <2>1, LenProperties
  <2> QED BY <1>1, <2>2, <2>3
<1> QED BY <1>6, <1>10, <1>11, <1>12 DEF m, n

(* Places in a sealed window are places in the log.                               *)
LEMMA Replaced ==
  ASSUME NEW base \in Nat, NEW cut \in Nat, cut >= 1
  PROVE  /\ Canonical(base, cut) \in Nat /\ Canonical(base, cut) >= 1
         /\ \A i \in Nat : i > 1 => At(Canonical(base, cut), i) = At(base, cut + i - 1)
                                    /\ At(base, cut + i - 1) = Canonical(base, cut) + i - 1
         /\ \A m \in Nat : m > cut =>
              Canonical(Canonical(base, cut), m - cut + 1) = Canonical(base, m)
         /\ \A i \in Nat : i > cut => At(base, i) > Canonical(base, cut)
<1>1. CASE base = 0
  <2>1. Canonical(base, cut) = cut /\ \A i \in Nat : At(base, i) = i
    BY <1>1 DEF Canonical, At
  <2>2. \A i \in Nat : i > 1 => At(cut, i) = cut + i - 1
    BY DEF At
  <2>3. \A m \in Nat : m > cut => Canonical(cut, m - cut + 1) = m /\ Canonical(base, m) = m
    BY <1>1 DEF Canonical
  <2> QED BY <2>1, <2>2, <2>3
<1>2. CASE base > 0
  <2> DEFINE z == base + cut - 1
  <2>1. Canonical(base, cut) = z /\ z \in Nat /\ z >= 1 /\ \A i \in Nat : i > 1 => At(base, i) = base + i - 1
    BY <1>2 DEF Canonical, At
  <2>2. \A i \in Nat : i > 1 => At(z, i) = z + i - 1
    BY <2>1 DEF At
  <2>3. \A m \in Nat : m > cut => Canonical(z, m - cut + 1) = z + (m - cut + 1) - 1 /\ Canonical(base, m) = base + m - 1
    BY <1>2, <2>1 DEF Canonical
  <2>4. \A m \in Nat : m > cut => z + (m - cut + 1) - 1 = base + m - 1
    OBVIOUS
  <2>5. \A i \in Nat : i > 1 => cut + i - 1 > 1 /\ cut + i - 1 \in Nat /\ base + (cut + i - 1) - 1 = z + i - 1
    OBVIOUS
  <2>6. \A i \in Nat : i > cut => i > 1 /\ base + i - 1 > z
    OBVIOUS
  <2> HIDE DEF z
  <2>7. \A m \in Nat : m > cut => Canonical(z, m - cut + 1) = Canonical(base, m)
    BY <2>3, <2>4
  <2>8. ASSUME NEW i \in Nat, i > 1 PROVE At(z, i) = At(base, cut + i - 1) /\ At(base, cut + i - 1) = z + i - 1
    <3>1. cut + i - 1 > 1 /\ cut + i - 1 \in Nat /\ base + (cut + i - 1) - 1 = z + i - 1
      BY <2>5, <2>8
    <3>2. At(base, cut + i - 1) = base + (cut + i - 1) - 1
      BY <2>1, <3>1
    <3> QED BY <2>2, <2>8, <3>1, <3>2
  <2>9. \A i \in Nat : i > cut => At(base, i) > z
    BY <2>1, <2>6
  <2> QED BY <2>1, <2>7, <2>8, <2>9
<1> QED BY <1>1, <1>2

(* A sealed window shows the log from the cut on.                                 *)
LEMMA SealedShows ==
  ASSUME NEW log \in Seq(Entry), NEW w \in Seq(Entry), NEW base \in Nat, Shows(w, base, log, Len(log)),
         NEW cut \in 1..(Len(w) - 1), w[1].k = "meta",
         NEW q \in (cut + 1)..Len(w), w[q].k = "compaction",
         \A j \in (cut + 1)..Len(w) : w[j].k = "compaction" => j = q,
         log[At(base, q)].n = Canonical(base, cut), Sealed(w, cut) \in Seq(Entry)
  PROVE  /\ Canonical(base, cut) \in Nat
         /\ Shows(Sealed(w, cut), Canonical(base, cut), log, Len(log))
         /\ Newest(log, Len(log), Canonical(base, cut))
<1> DEFINE m == Len(w)
           n == Len(log)
           z == Canonical(base, cut)
           v == Sealed(w, cut)
           k == m - cut + 1
<1>1. /\ n \in Nat /\ m \in Nat /\ DOMAIN log = 1..n /\ DOMAIN w = 1..m
      /\ cut \in Nat /\ cut >= 1 /\ cut < m /\ q \in 1..m /\ q > cut /\ k \in Nat /\ k >= 2
  BY LenProperties
<1>2. /\ n = Canonical(base, m) /\ (base > 0 => base < n)
      /\ \A i \in 1..m : At(base, i) \in 1..n /\ Alike(base, w[i], log[At(base, i)])
      /\ \A p \in 1..n : p = 1 \/ p > base => \E i \in 1..m : At(base, i) = p
  <2>1. m # 0
    BY <1>1
  <2> QED BY <2>1, ShownAre
<1>3. /\ z \in Nat /\ z >= 1
      /\ \A i \in Nat : i > 1 => At(z, i) = At(base, cut + i - 1) /\ At(base, cut + i - 1) = z + i - 1
      /\ Canonical(z, k) = Canonical(base, m)
      /\ \A i \in Nat : i > cut => At(base, i) > z
  BY <1>1, Replaced
<1>4. DOMAIN v = 1..k /\ Len(v) = k
      /\ \A i \in 1..k :
           LET e == w[IF i = 1 THEN 1 ELSE cut + i - 1]
           IN /\ v[i].k = e.k /\ v[i].id = e.id /\ v[i].calls = e.calls /\ v[i].call = e.call
              /\ v[i].pics = e.pics
              /\ e.k \notin {"compaction", "cutoff"} => v[i].n = e.n
              /\ e.k = "compaction" => v[i].n = 1 /\ cut + i - 1 = q
  BY SealedAre
<1> HIDE DEF m, n, z, v, k
<1>5. ASSUME NEW i \in 1..k PROVE Alike(z, v[i], log[At(z, i)])
  <2>1. CASE i = 1
    <3>1. At(z, i) = 1 /\ At(base, 1) = 1 /\ 1 \in 1..m
      BY <1>1, <2>1 DEF At
    <3>2. Alike(base, w[1], log[1])
      BY <1>2, <3>1
    <3>3. /\ v[1].k = w[1].k /\ v[1].id = w[1].id /\ v[1].calls = w[1].calls /\ v[1].call = w[1].call
          /\ v[1].pics = w[1].pics
          /\ v[1].n = w[1].n
      BY <1>4, <2>1
    <3> QED BY <2>1, <3>1, <3>2, <3>3 DEF Alike
  <2>2. CASE i # 1
    <3> DEFINE p == cut + i - 1
    <3>1. i \in Nat /\ i > 1 /\ p \in 1..m
      BY <1>1, <2>2 DEF k
    <3>2. At(z, i) = At(base, p)
      BY <1>3, <3>1
    <3>3. Alike(base, w[p], log[At(base, p)])
      BY <1>2, <3>1
    <3>4. /\ v[i].k = w[p].k /\ v[i].id = w[p].id /\ v[i].calls = w[p].calls /\ v[i].call = w[p].call
          /\ v[i].pics = w[p].pics
          /\ w[p].k \notin {"compaction", "cutoff"} => v[i].n = w[p].n
          /\ w[p].k = "compaction" => v[i].n = 1 /\ p = q
      BY <1>4, <2>2
    <3> HIDE DEF p
    <3>5. Canonical(z, 1) = z
      <4>1. z \in Nat /\ z # 0 /\ z + 1 - 1 = z
        BY <1>3
      <4> QED BY <4>1 DEF Canonical
    <3>6. w[p].k = "compaction" => log[At(base, p)].n = z
      BY <3>4 DEF z
    <3> QED BY <3>2, <3>3, <3>4, <3>5, <3>6 DEF Alike
  <2> QED BY <2>1, <2>2
<1>6. z < n
  <2>1. q \in 1..m /\ q \in Nat /\ q > cut
    BY <1>1
  <2>2. At(base, q) > z /\ At(base, q) \in 1..n
    BY <1>2, <1>3, <2>1
  <2> QED BY <1>1, <1>3, <2>2
<1>7. Shows(v, z, log, n)
  BY <1>2, <1>3, <1>4, <1>5, <1>6 DEF Shows, n
<1>8. Newest(log, n, z)
  <2> DEFINE p == At(base, q)
  <2>1. p \in 1..n /\ p > z /\ log[p].k = "compaction" /\ log[p].n = z
    <3>1. Alike(base, w[q], log[p]) /\ q \in Nat
      BY <1>1, <1>2
    <3> QED BY <1>1, <1>2, <1>3, <3>1 DEF Alike, z
  <2>2. ASSUME NEW j \in (p + 1)..n, log[j].k = "compaction" PROVE FALSE
    <3>1. j \in 1..n /\ (j = 1 \/ j > base)
      <4>1. p > base \/ base = 0
        <5>1. q > 1
          BY <1>1
        <5> QED BY <1>1, <5>1 DEF At
      <4> QED BY <1>1, <2>1, <4>1
    <3>2. PICK h \in 1..m : At(base, h) = j
      BY <1>2, <3>1
    <3>3. w[h].k = "compaction"
      BY <1>2, <2>2, <3>2 DEF Alike
    <3>4. h > q
      <4>1. ~(h < q)
        <5>1. h < q => At(base, h) < p
          BY <1>1, Placed
        <5> QED BY <2>1, <3>2, <5>1
      <4>2. h # q
        BY <2>1, <3>2
      <4> QED BY <1>1, <4>1, <4>2
    <3>5. h \in (cut + 1)..m
      BY <1>1, <3>4
    <3> QED BY <1>1, <3>3, <3>4, <3>5 DEF m
  <2>3. p \in (z + 1)..n /\ z > 0
    BY <1>1, <1>3, <2>1
  <2> HIDE DEF p
  <2> QED BY <2>1, <2>2, <2>3 DEF Newest
<1> QED BY <1>3, <1>7, <1>8 DEF v, z, n

(* The events of a window after a place.                                          *)
LEMMA RestIs ==
  ASSUME NEW w \in Seq(Entry), NEW tail \in 0..Len(w), NEW rest, rest = SubSeq(w, tail + 1, Len(w))
  PROVE  DOMAIN rest = 1..(Len(w) - tail) /\ \A i \in 1..(Len(w) - tail) : rest[i] = w[tail + i]
<1> DEFINE m == Len(w)
<1>1. m \in Nat /\ tail \in Nat /\ tail <= m /\ \A i \in 1..m : w[i] \in Entry
  BY LenProperties, ElementOfSeq
<1>3. DOMAIN rest = 1..(m - tail) /\ \A i \in 1..(m - tail) : rest[i] = w[tail + i]
  <2> DEFINE k == tail + 1
  <2>1. k \in Int /\ m \in Int /\ \A i \in k..m : w[i] \in Entry
    BY <1>1
  <2>2. rest = SubSeq(w, k, m)
    OBVIOUS
  <2> HIDE DEF k, m
  <2>3. rest \in Seq(Entry) /\ Len(rest) = (IF k <= m THEN m - k + 1 ELSE 0)
        /\ \A i \in 1..(m - k + 1) : rest[i] = w[k + i - 1]
    BY ONLY <2>1, <2>2, SubSeqProperties
  <2>4. DOMAIN rest = 1..Len(rest)
    BY <2>3, LenProperties
  <2>5. /\ (IF k <= m THEN m - k + 1 ELSE 0) = m - tail /\ m - k + 1 = m - tail
        /\ \A i \in 1..(m - tail) : k + i - 1 = tail + i
    <3>1. m \in Nat /\ tail \in Nat /\ tail <= m
      BY <1>1
    <3> QED BY <3>1 DEF k
  <2> QED BY <2>3, <2>4, <2>5
<1> QED BY <1>3

(* The call ids known by a place, and those of the events after it.               *)
LEMMA KnownAre ==
  ASSUME NEW log \in Seq(Entry), NEW w \in Seq(Entry), NEW base \in Nat, Shows(w, base, log, Len(log)),
         NEW tail \in 0..Len(w), base > 0 => tail > 0, NEW known, Knows(known, log, Canonical(base, tail)),
         NEW rest, rest = SubSeq(w, tail + 1, Len(w))
  PROVE  Knows(known \cup CallIds(rest), log, Len(log))
<1> DEFINE m == Len(w)
           n == Len(log)
           r == Canonical(base, tail)
<1>1. n \in Nat /\ m \in Nat /\ DOMAIN w = 1..m /\ tail \in Nat /\ tail <= m /\ \A i \in 1..m : w[i] \in Entry
  BY LenProperties, ElementOfSeq
<1>2. /\ n = Canonical(base, m) /\ (base > 0 => base < n /\ m > 1) /\ (m = 0 => n = 0)
      /\ \A i \in 1..m : At(base, i) \in 1..n /\ Alike(base, w[i], log[At(base, i)])
      /\ m # 0 => \A p \in 1..n : p = 1 \/ p > base => \E i \in 1..m : At(base, i) = p
  BY ShownAre
<1>3. DOMAIN rest = 1..(m - tail) /\ \A i \in 1..(m - tail) : rest[i] = w[tail + i]
  BY RestIs
<1>4. /\ r \in Nat /\ (base = 0 => r = tail) /\ (\A i \in 1..tail : At(base, i) \in 1..r)
      /\ (base > 0 => r >= base)
  <2>1. tail \in Nat /\ (base > 0 => tail > 0)
    BY <1>1
  <2>2. r \in Nat /\ \A i \in 1..tail : At(base, i) \in 1..r
    BY <2>1, Placed
  <2>3. base > 0 => r = base + tail - 1
    BY <2>1 DEF Canonical
  <2>4. base = 0 => r = tail
    BY DEF Canonical
  <2> QED BY <2>1, <2>2, <2>3, <2>4
<1> HIDE DEF m, n, r
<1>5. ASSUME NEW p \in 1..n, p > r PROVE \E i \in DOMAIN rest : CallsOf(rest[i]) = CallsOf(log[p])
  <2>1. m # 0 /\ (p = 1 \/ p > base)
    BY <1>1, <1>2, <1>4, <1>5
  <2>2. PICK i \in 1..m : At(base, i) = p
    BY <1>2, <2>1
  <2>3. i > tail
    BY <1>1, <1>4, <1>5, <2>2
  <2>4. i - tail \in DOMAIN rest /\ rest[i - tail] = w[i]
    BY <1>1, <1>3, <2>3
  <2>5. CallsOf(w[i]) = CallsOf(log[p])
    BY <1>2, <2>2 DEF Alike, CallsOf
  <2> QED BY <2>4, <2>5
<1>6. ASSUME NEW i \in DOMAIN rest PROVE \E p \in 1..n : CallsOf(rest[i]) = CallsOf(log[p])
  <2>1. tail + i \in 1..m /\ rest[i] = w[tail + i]
    BY <1>1, <1>3
  <2>2. CallsOf(w[tail + i]) = CallsOf(log[At(base, tail + i)]) /\ At(base, tail + i) \in 1..n
    BY <1>2, <2>1 DEF Alike, CallsOf
  <2> QED BY <2>1, <2>2
<1>7. r <= n
  <2>1. CASE base = 0
    BY <1>1, <1>2, <1>4, <2>1 DEF Canonical
  <2>2. CASE base > 0
    BY <1>1, <1>2, <2>2 DEF Canonical, r
  <2> QED BY <2>1, <2>2
<1>8. ASSUME NEW p \in 1..n PROVE CallsOf(log[p]) \subseteq known \cup CallIds(rest)
  <2>1. CASE p <= r
    <3>1. p \in 1..r
      BY <1>1, <1>4, <2>1
    <3> QED BY <3>1 DEF Knows, r
  <2>2. CASE p > r
    BY <1>5, <2>2 DEF CallIds
  <2> QED BY <1>1, <1>4, <2>1, <2>2
<1>9. ASSUME NEW c \in known \cup CallIds(rest) PROVE \E p \in 1..n : c \in CallsOf(log[p])
  <2>1. CASE c \in known
    <3>1. PICK p \in 1..r : c \in CallsOf(log[p])
      BY <2>1 DEF Knows, r
    <3> QED BY <1>1, <1>4, <1>7, <3>1
  <2>2. CASE c \in CallIds(rest)
    BY <1>6, <2>2 DEF CallIds
  <2> QED BY <2>1, <2>2
<1> QED BY <1>8, <1>9 DEF Knows, n

--------------------------------------------------------------------------------
(* The numbers an event has by some stamp of the file.                            *)
Numbered(e, stamp) == e.id <= stamp /\ \A c \in CallsOf(e) : c < 10 * (stamp + 1)

(* A log as the writers leave it: it replays, its compactions are in order, and   *)
(* its events are plain and numbered by stamps the file has had.                  *)
Sound(log, stamp) ==
  /\ Valid(log) /\ Spaced(log)
  /\ \A i \in DOMAIN log : Plain(log[i]) /\ Numbered(log[i], stamp)

(* How a checkpoint's reach and the lines after it add up.                        *)
LEMMA AddsUp ==
  ASSUME NEW n \in Nat, NEW k \in Nat, NEW o \in Nat, NEW m \in Nat, NEW r \in Nat, NEW b \in Nat,
         n + o = r + k, r = b + m - 1
  PROVE  n - r = k - o /\ n = b + (m + (k - o)) - 1
OBVIOUS

(* A checkpoint with the lines after it shows the log, and knows its calls.       *)
LEMMA IndexedShows ==
  ASSUME NEW log \in Seq(Entry), NEW lines \in Seq(Entry), NEW ix \in IndexFile, Covers(ix, log, lines),
         NEW t, t = SubSeq(lines, ix.offset + 1, Len(lines)), \A i \in DOMAIN t : t[i].k # "compaction"
  PROVE  /\ ix.window \o t \in Seq(Entry) /\ Shows(ix.window \o t, ix.start, log, Len(log))
         /\ Newest(log, Len(log), ix.start) /\ Knows(ix.known \cup CallIds(t), log, Len(log))
         /\ Len(log) >= 1
<1> DEFINE n == Len(log)
           k == Len(lines)
           o == ix.offset
           r == Reach(ix)
           w == ix.window
           m == Len(w)
           b == ix.start
           x == w \o t
<1>1. /\ n \in Nat /\ k \in Nat /\ DOMAIN log = 1..n /\ DOMAIN lines = 1..k
      /\ (\A i \in 1..n : log[i] \in Entry) /\ \A i \in 1..k : lines[i] \in Entry
  BY LenProperties, ElementOfSeq
<1>2. w \in Seq(Entry) /\ b \in Nat /\ o \in Nat /\ m \in Nat /\ DOMAIN w = 1..m
  <2>1. w \in Seq(Entry) /\ b \in Nat /\ o \in Nat
    BY DEF IndexFile
  <2> QED BY <2>1, LenProperties
<1>3. /\ Shows(w, b, log, r) /\ Knows(ix.known, log, r) /\ Newest(log, r, b) /\ r = Canonical(b, m)
      /\ o <= k /\ n + o = r + k /\ \A i \in 1..(k - o) : log[r + i] = lines[o + i]
  BY DEF Covers, Reach
<1>4. t \in Seq(Entry) /\ Len(t) = k - o /\ DOMAIN t = 1..(k - o)
      /\ \A i \in 1..(k - o) : t[i] = log[r + i] /\ log[r + i].k # "compaction"
  <2> DEFINE p == o + 1
  <2>1. p \in Int /\ k \in Int /\ p >= 1 /\ \A i \in p..k : lines[i] \in Entry
    BY <1>1, <1>2
  <2>2. t = SubSeq(lines, p, k)
    OBVIOUS
  <2> HIDE DEF p, k
  <2>0. SubSeq(lines, p, k) \in Seq(Entry) /\ Len(SubSeq(lines, p, k)) = (IF p <= k THEN k - p + 1 ELSE 0)
        /\ \A i \in 1..(k - p + 1) : SubSeq(lines, p, k)[i] = lines[p + i - 1]
    BY <2>1, SubSeqProperties
  <2>3. t \in Seq(Entry) /\ Len(t) = (IF p <= k THEN k - p + 1 ELSE 0)
        /\ \A i \in 1..(k - p + 1) : t[i] = lines[p + i - 1]
    BY <2>0, <2>2
  <2>4. DOMAIN t = 1..Len(t)
    BY <2>3, LenProperties
  <2> HIDE DEF o
  <2>5. (IF p <= k THEN k - p + 1 ELSE 0) = k - o /\ k - p + 1 = k - o /\ \A i \in 1..(k - o) : p + i - 1 = o + i
    BY <1>1, <1>2, <1>3 DEF p
  <2>6. \A i \in 1..(k - o) : t[i] = lines[o + i]
    BY <2>3, <2>5
  <2> QED BY <1>3, <2>3, <2>4, <2>5, <2>6
<1> HIDE DEF n, k, o, r, w, m, b
<1>5. /\ r \in Nat /\ r <= n /\ m > 1 /\ b > 0 /\ b < r /\ r = b + m - 1
      /\ \A i \in 1..m : At(b, i) \in 1..r /\ Alike(b, w[i], log[At(b, i)])
  <2>1. b > 0
    BY <1>3 DEF Newest
  <2>2. /\ r \in 0..n /\ r = Canonical(b, m) /\ (b > 0 => b < r /\ m > 1)
        /\ \A i \in 1..m : At(b, i) \in 1..r /\ Alike(b, w[i], log[At(b, i)])
    BY <1>2, <1>3, ShownAre DEF m, n
  <2>3. r = b + m - 1
    BY <1>2, <2>1, <2>2 DEF Canonical
  <2>4. r \in Nat /\ r <= n
    BY <1>1, <2>2
  <2> QED BY <2>1, <2>2, <2>3, <2>4
<1>14. n \in Nat /\ k \in Nat /\ o \in Nat /\ m \in Nat /\ r \in Nat /\ b \in Nat /\ n + o = r + k /\ r = b + m - 1
  BY <1>1, <1>2, <1>3, <1>5
<1>15. n - r = k - o /\ n = b + (m + (k - o)) - 1
  BY <1>14, AddsUp
<1>6. x \in Seq(Entry) /\ Len(x) = m + (k - o)
      /\ \A i \in 1..(m + (k - o)) : x[i] = IF i <= m THEN w[i] ELSE t[i - m]
  <2>1. x \in Seq(Entry) /\ Len(x) = Len(w) + Len(t)
        /\ \A i \in 1..(Len(w) + Len(t)) : x[i] = IF i <= Len(w) THEN w[i] ELSE t[i - Len(w)]
    BY <1>2, <1>4, ConcatProperties
  <2> QED BY <1>4, <2>1 DEF m
<1> HIDE DEF x
<1>7. DOMAIN x = 1..(m + (k - o)) /\ k - o \in Nat
  <2>1. k - o \in Nat
    BY <1>1, <1>2, <1>3
  <2> QED BY <1>6, <2>1, LenProperties
<1>8. n = Canonical(b, m + (k - o))
  <2>1. n = b + (m + (k - o)) - 1
    BY <1>15
  <2>2. m + (k - o) # 0
    BY <1>5, <1>7, <1>2
  <2> QED BY <1>5, <2>1, <2>2 DEF Canonical
<1>9. ASSUME NEW i \in 1..(m + (k - o)) PROVE Alike(b, x[i], log[At(b, i)])
  <2>1. CASE i <= m
    <3>1. i \in 1..m /\ x[i] = w[i]
      BY <1>2, <1>6, <1>7, <2>1
    <3> QED BY <1>5, <3>1
  <2>2. CASE i > m
    <3>1. i - m \in 1..(k - o) /\ ~(i <= m) /\ i # 1
      BY <1>2, <1>5, <1>7, <2>2
    <3>2. x[i] = log[r + (i - m)] /\ log[r + (i - m)].k # "compaction"
      BY <1>4, <1>6, <3>1
    <3>3. At(b, i) = r + (i - m)
      <4>1. At(b, i) = b + i - 1
        BY <1>5, <3>1 DEF At
      <4> QED BY <1>2, <1>5, <1>7, <4>1
    <3> QED BY <3>2, <3>3 DEF Alike
  <2> QED BY <1>2, <1>7, <2>1, <2>2
<1>10. Shows(x, b, log, n)
  <2>1. b < n /\ n <= n
    BY <1>1, <1>2, <1>5
  <2> QED BY <1>6, <1>7, <1>8, <1>9, <2>1 DEF Shows, n
<1>11. Newest(log, n, b)
  <2>1. PICK q \in (b + 1)..r : log[q].k = "compaction" /\ log[q].n = b /\ \A j \in (q + 1)..r : log[j].k # "compaction"
    BY <1>3 DEF Newest
  <2>2. q \in (b + 1)..n
    BY <1>1, <1>2, <1>5
  <2>3. ASSUME NEW j \in (q + 1)..n PROVE log[j].k # "compaction"
    <3>1. CASE j <= r
      <4>1. j \in (q + 1)..r
        BY <1>1, <1>5, <3>1
      <4> QED BY <2>1, <4>1
    <3>2. CASE j > r
      <4> DEFINE h == j - r
      <4>1. h \in 1..(k - o) /\ r + h = j
        <5>1. n - r = k - o
          BY <1>15
        <5> QED BY <1>1, <1>5, <1>7, <2>2, <3>2, <5>1
      <4> HIDE DEF h
      <4> QED BY <1>4, <4>1
    <3> QED BY <1>1, <1>5, <2>2, <3>1, <3>2
  <2> QED BY <1>5, <2>1, <2>2, <2>3 DEF Newest
<1>12. Knows(ix.known \cup CallIds(t), log, n)
  <2>1. ASSUME NEW p \in 1..n PROVE CallsOf(log[p]) \subseteq ix.known \cup CallIds(t)
    <3>1. CASE p <= r
      <4>1. p \in 1..r
        BY <1>1, <1>5, <3>1
      <4> QED BY <1>3, <4>1 DEF Knows
    <3>2. CASE p > r
      <4> DEFINE h == p - r
      <4>1. h \in 1..(k - o) /\ r + h = p
        <5>1. n - r = k - o
          BY <1>15
        <5> QED BY <1>1, <1>5, <1>7, <3>2, <5>1
      <4> HIDE DEF h
      <4>2. h \in DOMAIN t /\ t[h] = log[p]
        BY <1>4, <4>1
      <4> QED BY <4>2 DEF CallIds
    <3> QED BY <1>1, <1>5, <3>1, <3>2
  <2>2. ASSUME NEW c \in ix.known \cup CallIds(t) PROVE \E p \in 1..n : c \in CallsOf(log[p])
    <3>1. CASE c \in ix.known
      <4>1. PICK p \in 1..r : c \in CallsOf(log[p])
        BY <1>3, <3>1 DEF Knows
      <4> QED BY <1>1, <1>5, <4>1
    <3>2. CASE c \in CallIds(t)
      <4>1. PICK h \in 1..(k - o) : c \in CallsOf(t[h])
        BY <1>4, <3>2 DEF CallIds
      <4>2. r + h \in 1..n /\ t[h] = log[r + h]
        <5>1. n - r = k - o
          BY <1>15
        <5>2. r + h \in 1..n
          BY <1>1, <1>5, <1>7, <5>1
        <5> QED BY <1>4, <5>2
      <4> QED BY <4>1, <4>2
    <3> QED BY <3>1, <3>2
  <2> QED BY <2>1, <2>2 DEF Knows
<1>13. n >= 1
  BY <1>1, <1>2, <1>5
<1> QED BY <1>6, <1>10, <1>11, <1>12, <1>13 DEF x, w, b, n

(* The numbers of a log are bounded by a later stamp too.                         *)
LEMMA SoundLater ==
  ASSUME NEW log \in Seq(Entry), NEW m \in Nat, NEW n \in Nat, m <= n, Sound(log, m)
  PROVE  Sound(log, n)
<1>1. \A i \in DOMAIN log : log[i] \in Entry
  BY LenProperties, ElementOfSeq
<1>2. ASSUME NEW i \in DOMAIN log PROVE Numbered(log[i], n)
  <2>1. log[i].id \in Nat /\ CallsOf(log[i]) \subseteq Nat
    <3>1. log[i].id \in Nat /\ log[i].calls \in Seq(Call)
      BY <1>1 DEF Entry
    <3>2. \A j \in DOMAIN log[i].calls : log[i].calls[j] \in Call
      BY <3>1, LenProperties, ElementOfSeq
    <3> QED BY <3>1, <3>2 DEF CallsOf, Call
  <2>2. Numbered(log[i], m)
    BY DEF Sound
  <2>3. log[i].id <= n
    BY <2>1, <2>2 DEF Numbered
  <2>4. \A c \in CallsOf(log[i]) : c < 10 * (n + 1)
    BY <2>1, <2>2 DEF Numbered
  <2> QED BY <2>3, <2>4 DEF Numbered
<1> QED BY <1>2 DEF Sound

(* A sound log stays so with an event that fits behind it.                        *)
LEMMA SoundGrows ==
  ASSUME NEW log \in Seq(Entry), NEW stamp \in Nat, Sound(log, stamp), NEW e \in Entry,
         e.k # "meta", e.id = stamp + 1, Plain(e), \A c \in CallsOf(e) : c < 10 * (stamp + 2),
         CallsOf(e) \cap CallIds(log) = {}, Cardinality(CallsOf(e)) = Len(e.calls),
         AllowedWhileUnanswered(e) \/ OpenCalls(log) = {},
         e.k = "result" => \E c \in OpenCalls(log) : c.call = e.call,
         e.k = "compaction" =>
           /\ e.n \in 1..Len(log) /\ \A j \in 1..Len(log) : log[j].k = "compaction" => j <= e.n
           /\ e.n < Len(log) => WellCut(log, e.n)
  PROVE  Sound(Append(log, e), stamp + 1)
<1> DEFINE n == Len(log)
           q == Append(log, e)
<1>1. /\ n \in Nat /\ DOMAIN log = 1..n /\ DOMAIN q = 1..(n + 1) /\ q[n + 1] = e /\ q \in Seq(Entry)
      /\ (\A i \in 1..n : q[i] = log[i] /\ log[i] \in Entry)
  BY Grown
<1>2. Sound(log, stamp + 1) /\ Valid(log) /\ Spaced(log)
  <2>1. Sound(log, stamp + 1)
    BY SoundLater
  <2> QED BY <2>1 DEF Sound
<1>3. Valid(q)
  <2>1. \A i \in DOMAIN log : log[i].id # e.id
    <3>1. \A i \in 1..n : log[i].id \in Nat
      BY <1>1 DEF Entry
    <3>2. \A i \in 1..n : log[i].id <= stamp
      BY <1>1 DEF Sound, Numbered
    <3> QED BY <1>1, <3>1, <3>2
  <2> QED BY <1>2, <2>1, ValidGrows
<1> HIDE DEF n, q
<1>4. ASSUME NEW i \in 1..(n + 1) PROVE Plain(q[i]) /\ Numbered(q[i], stamp + 1)
  <2>1. CASE i = n + 1
    <3>1. Numbered(e, stamp + 1)
      <4>1. (stamp + 1) + 1 = stamp + 2
        OBVIOUS
      <4> QED BY <4>1 DEF Numbered
    <3> QED BY <1>1, <2>1, <3>1
  <2>2. CASE i # n + 1
    <3>1. i \in 1..n
      BY <1>1, <2>2
    <3> QED BY <1>1, <1>2, <3>1 DEF Sound
  <2> QED BY <2>1, <2>2
<1>5. ASSUME NEW i \in 1..(n + 1), q[i].k = "compaction"
      PROVE  /\ q[i].n \in 1..(i - 1) /\ WellCut(q, q[i].n)
             /\ \A j \in 1..(i - 1) : q[j].k = "compaction" => j <= q[i].n
  <2>1. CASE i = n + 1
    <3>1. e.n \in 1..n /\ (\A j \in 1..n : log[j].k = "compaction" => j <= e.n) /\ (e.n < n => WellCut(log, e.n))
      BY <1>1, <1>5, <2>1 DEF n
    <3>2. i - 1 = n /\ q[i] = e
      BY <1>1, <2>1
    <3>3. WellCut(q, e.n)
      <4>1. CASE e.n < n
        <5>1. e.n \in 1..n /\ e.n + 1 \in 1..n
          BY <1>1, <3>1, <4>1
        <5> QED BY <1>1, <3>1, <4>1, <5>1 DEF WellCut
      <4>2. CASE ~(e.n < n)
        <5>1. e.n = n
          BY <1>1, <3>1, <4>2
        <5> QED BY <1>1, <1>5, <2>1, <5>1 DEF WellCut
      <4> QED BY <4>1, <4>2
    <3> QED BY <1>1, <3>1, <3>2, <3>3
  <2>2. CASE i # n + 1
    <3>1. i \in 1..n /\ q[i] = log[i]
      BY <1>1, <2>2
    <3>2. /\ log[i].n \in 1..(i - 1) /\ WellCut(log, log[i].n)
          /\ \A j \in 1..(i - 1) : log[j].k = "compaction" => j <= log[i].n
      BY <1>1, <1>2, <1>5, <3>1 DEF Spaced
    <3>3. \A j \in 1..(i - 1) : j \in 1..n
      BY <1>1, <3>1
    <3>4. log[i].n + 1 \in 1..n /\ log[i].n \in 1..n
      BY <1>1, <3>1, <3>2
    <3> QED BY <1>1, <3>1, <3>2, <3>3, <3>4 DEF WellCut
  <2> QED BY <2>1, <2>2
<1>6. Spaced(q)
  BY <1>1, <1>5 DEF Spaced
<1> QED BY <1>1, <1>3, <1>4, <1>6 DEF Sound, q

(* A sound log is sound cut short, and before a user message nothing is open.     *)
LEMMA SoundPrefix ==
  ASSUME NEW log \in Seq(Entry), NEW stamp \in Nat, Sound(log, stamp), NEW n \in 1..Len(log),
         NEW q \in Seq(Entry), Len(q) = n, \A i \in 1..n : q[i] = log[i]
  PROVE  /\ Sound(q, stamp)
         /\ n < Len(log) /\ log[n + 1].k = "user" => OpenCalls(q) = {}
<1>1. DOMAIN log = 1..Len(log) /\ Len(log) \in Nat /\ DOMAIN q = 1..n /\ n \in Nat
  BY LenProperties
<1>2. Valid(log) /\ Spaced(log) /\ \A i \in DOMAIN log : Plain(log[i]) /\ Numbered(log[i], stamp)
  BY DEF Sound
<1>3. Valid(q)
  BY <1>2, ValidPrefix
<1>4. \A i \in DOMAIN q : Plain(q[i]) /\ Numbered(q[i], stamp)
  BY <1>1, <1>2
<1>5. ASSUME NEW i \in 1..n, q[i].k = "compaction"
      PROVE  /\ q[i].n \in 1..(i - 1) /\ WellCut(q, q[i].n)
             /\ \A j \in 1..(i - 1) : q[j].k = "compaction" => j <= q[i].n
  <2>1. i \in DOMAIN log /\ q[i] = log[i]
    BY <1>1
  <2>2. /\ log[i].n \in 1..(i - 1) /\ WellCut(log, log[i].n)
        /\ \A j \in 1..(i - 1) : log[j].k = "compaction" => j <= log[i].n
    BY <1>2, <1>5, <2>1 DEF Spaced
  <2>3. (\A j \in 1..(i - 1) : j \in 1..n) /\ log[i].n \in 1..n /\ log[i].n + 1 \in 1..n
    BY <1>1, <2>2
  <2> QED BY <2>1, <2>2, <2>3 DEF WellCut
<1>6. Spaced(q)
  BY <1>1, <1>5 DEF Spaced
<1>7. ASSUME n < Len(log), log[n + 1].k = "user", NEW c \in OpenCalls(q) PROVE FALSE
  <2>1. PICK i \in 1..n : c \in Range(q[i].calls)
    BY <1>1 DEF OpenCalls
  <2>2. c.call \in CallsOf(log[i])
    BY <2>1 DEF CallsOf, Range
  <2>3. i \in DOMAIN log /\ n + 1 \in DOMAIN log /\ i < n + 1 /\ ~AllowedWhileUnanswered(log[n + 1])
    BY <1>1, <1>7 DEF AllowedWhileUnanswered
  <2> DEFINE m == n + 1
  <2>4. m \in DOMAIN log /\ i < m /\ ~AllowedWhileUnanswered(log[m])
    BY <2>3
  <2> HIDE DEF m
  <2>5. PICK r \in (i + 1)..(m - 1) : IsResultOf(log[r], c.call)
    BY <1>2, <2>2, <2>3, <2>4 DEF Valid
  <2>6. m - 1 = n
    BY <1>1 DEF m
  <2>7. r \in (i + 1)..n /\ r \in 1..n
    BY <1>1, <2>6
  <2> QED BY <1>1, <2>5, <2>7 DEF OpenCalls
<1> QED BY <1>3, <1>4, <1>6, <1>7 DEF Sound

(* A fold stays clean with one more line that cuts within it.                     *)
LEMMA CleanGrows ==
  ASSUME NEW lines \in Seq(Entry), FoldsCleanly(lines), NEW e \in Entry,
         e.k = "rewind" => e.n <= Len(Folded(lines))
  PROVE  /\ FoldsCleanly(Append(lines, e))
         /\ Folded(Append(lines, e)) = Then(Folded(lines), e)
<1> DEFINE n == Len(lines)
           q == Append(lines, e)
<1>1. /\ n \in Nat /\ DOMAIN lines = 1..n /\ DOMAIN q = 1..(n + 1) /\ q[n + 1] = e /\ q \in Seq(Entry)
      /\ (\A i \in 1..n : q[i] = lines[i]) /\ Len(q) = n + 1
  BY Grown
<1>2. /\ \A i \in 0..n : FoldedOnto(<<>>, SubSeq(lines, 1, i)) = Stages(<<>>, lines)[i]
      /\ FoldedOnto(<<>>, Append(lines, e)) = Then(FoldedOnto(<<>>, lines), e)
      /\ Stages(<<>>, lines)[n] = FoldedOnto(<<>>, lines)
  BY FoldOf, StagesAre
<1>3. \A i \in 0..(n + 1) : FoldedOnto(<<>>, SubSeq(q, 1, i)) = Stages(<<>>, q)[i]
  <2>1. \A i \in 0..Len(q) : FoldedOnto(<<>>, SubSeq(q, 1, i)) = Stages(<<>>, q)[i]
    <3>1. q \in Seq(Entry)
      BY <1>1
    <3> HIDE DEF q
    <3> QED BY <3>1, FoldOf
  <2> QED BY <1>1, <2>1
<1>4. \A i \in 0..n : Stages(<<>>, q)[i] = Stages(<<>>, lines)[i]
  <2>1. SUFFICES ASSUME NEW i \in 0..n PROVE Stages(<<>>, q)[i] = Stages(<<>>, lines)[i]
    OBVIOUS
  <2>2. i \in Nat /\ i <= Len(lines) /\ i <= Len(q) /\ \A j \in 1..i : q[j] = lines[j]
    BY <1>1
  <2> HIDE DEF q, n
  <2> QED BY <1>1, <2>2, StagesAgree
<1> HIDE DEF n, q
<1>5. ASSUME NEW i \in 1..(n + 1), q[i].k = "rewind"
      PROVE  q[i].n <= Len(Folded(SubSeq(q, 1, i - 1)))
  <2>1. i - 1 \in 0..n /\ i - 1 \in 0..(n + 1)
    BY <1>1
  <2>2. Folded(SubSeq(q, 1, i - 1)) = Stages(<<>>, lines)[i - 1]
    BY <1>3, <1>4, <2>1 DEF Folded
  <2>3. CASE i = n + 1
    <3>1. Folded(SubSeq(q, 1, i - 1)) = Folded(lines)
      BY <1>1, <1>2, <2>2, <2>3 DEF Folded
    <3> QED BY <1>1, <1>5, <2>3, <3>1
  <2>4. CASE i # n + 1
    <3>1. i \in DOMAIN lines /\ q[i] = lines[i]
      BY <1>1, <2>4
    <3>2. Folded(SubSeq(lines, 1, i - 1)) = Stages(<<>>, lines)[i - 1]
      BY <1>2, <2>1 DEF Folded
    <3>3. q[i].n <= Len(Folded(SubSeq(lines, 1, i - 1)))
      BY <1>5, <3>1 DEF FoldsCleanly
    <3> QED BY <2>2, <3>2, <3>3
  <2> QED BY <2>3, <2>4
<1>6. FoldsCleanly(q)
  BY <1>1, <1>5 DEF FoldsCleanly
<1> QED BY <1>2, <1>6 DEF Folded, q

(* Where a turn's own compaction cuts.                                            *)
LEMMA BoundaryTells ==
  ASSUME NEW events \in Seq(Entry)
  PROVE  /\ TurnBoundary(events) \in Nat
         /\ events # <<>> /\ Last(events).k = "user" =>
              /\ TurnBoundary(events) < Len(events)
              /\ \A i \in (TurnBoundary(events) + 1)..(Len(events) - 1) : events[i].k \in {"invoked", "tree"}
              /\ TurnBoundary(events) > 0 => events[TurnBoundary(events)].k \notin {"invoked", "tree"}
<1> DEFINE users == {i \in DOMAIN events : events[i].k = "user"}
           n == Len(events)
           Next1(f, i) == IF i > 0 /\ events[i].k \in {"invoked", "tree"} THEN f[i - 1] ELSE i
           Good(m) == \E f : f = [i \in 0..m |-> Next1(f, i)]
           Bad == {m \in 0..n : ~Good(m)}
           cut[i \in 0..n] == IF i > 0 /\ events[i].k \in {"invoked", "tree"} THEN cut[i - 1] ELSE i
<1>1. n \in Nat /\ DOMAIN events = 1..n
  BY LenProperties
<1>2. TurnBoundary(events) = IF users = {} THEN 0 ELSE cut[GreatestOf(users) - 1]
  BY DEF TurnBoundary
<1> HIDE DEF n
<1>3. Bad = {}
  <2>1. SUFFICES ASSUME Bad # {} PROVE FALSE
    OBVIOUS
  <2>2. PICK m \in Bad : \A k \in Bad : ~(k < m)
    <3>1. Bad \in SUBSET Nat
      BY <1>1
    <3> HIDE DEF Bad
    <3> QED BY <2>1, <3>1, Least
  <2>3. CASE m = 0
    <3> DEFINE f == [i \in 0..m |-> i]
    <3>1. f = [i \in 0..m |-> Next1(f, i)]
      BY <2>3
    <3> QED BY <2>2, <3>1
  <2>4. CASE m # 0
    <3>1. m \in 0..n /\ m - 1 \in 0..n /\ m - 1 < m
      BY <1>1, <2>2, <2>4
    <3>2. Good(m - 1)
      BY <2>2, <3>1
    <3>3. PICK g : g = [i \in 0..(m - 1) |-> Next1(g, i)]
      BY <3>2
    <3> DEFINE f == [i \in 0..m |-> IF i = m THEN Next1(g, i) ELSE g[i]]
    <3>4. ASSUME NEW i \in 0..m PROVE f[i] = Next1(f, i)
      <4>1. CASE i = 0
        <5>1. i \in 0..(m - 1) /\ i # m /\ ~(i > 0)
          BY <3>1, <2>4, <4>1
        <5>2. g[i] = i
          BY <3>3, <5>1
        <5> QED BY <5>1, <5>2
      <4>2. CASE i # 0
        <5>1. i - 1 \in 0..(m - 1) /\ i - 1 # m /\ i - 1 \in 0..m /\ (i # m => i \in 0..(m - 1))
          BY <1>1, <3>1, <4>2
        <5>2. f[i - 1] = g[i - 1]
          BY <5>1
        <5>3. i # m => g[i] = Next1(g, i)
          BY <3>3, <5>1
        <5>4. f[i] = Next1(g, i)
          BY <5>3
        <5> QED BY <5>2, <5>4
      <4> QED BY <4>1, <4>2
    <3>5. f = [i \in 0..m |-> Next1(f, i)]
      BY <3>4
    <3> QED BY <2>2, <3>5
  <2> QED BY <2>3, <2>4
<1>4. Good(n)
  <2>1. n \in 0..n
    BY <1>1
  <2> HIDE DEF Good
  <2> QED BY <1>3, <2>1
<1>5. cut = [i \in 0..n |-> Next1(cut, i)]
  BY <1>4
<1> HIDE DEF cut
<1> DEFINE Fits(m) ==
             /\ cut[m] \in 0..m
             /\ \A i \in (cut[m] + 1)..m : events[i].k \in {"invoked", "tree"}
             /\ cut[m] > 0 => events[cut[m]].k \notin {"invoked", "tree"}
           Odd == {m \in 0..n : ~Fits(m)}
<1>6. Odd = {}
  <2>1. SUFFICES ASSUME Odd # {} PROVE FALSE
    OBVIOUS
  <2>2. PICK m \in Odd : \A k \in Odd : ~(k < m)
    <3>1. Odd \in SUBSET Nat
      BY <1>1
    <3> HIDE DEF Odd
    <3> QED BY <2>1, <3>1, Least
  <2>3. m \in Nat /\ m \in 0..n /\ (m > 0 => m - 1 \in 0..n /\ m - 1 < m)
    BY <1>1, <2>2
  <2>4. cut[m] = Next1(cut, m)
    BY <1>5, <2>3
  <2>5. m > 0 => Fits(m - 1)
    <3> HIDE DEF Fits
    <3> QED BY <2>2, <2>3
  <2>6. CASE m > 0 /\ events[m].k \in {"invoked", "tree"}
    <3>1. cut[m] = cut[m - 1] /\ Fits(m - 1)
      BY <2>4, <2>5, <2>6
    <3>2. cut[m] \in 0..m /\ (cut[m] > 0 => events[cut[m]].k \notin {"invoked", "tree"})
      BY <2>3, <2>6, <3>1
    <3>3. ASSUME NEW i \in (cut[m] + 1)..m PROVE events[i].k \in {"invoked", "tree"}
      <4>1. i = m \/ i \in (cut[m - 1] + 1)..(m - 1)
        BY <2>3, <3>1
      <4> QED BY <2>6, <3>1, <4>1
    <3> QED BY <2>2, <3>2, <3>3
  <2>7. CASE ~(m > 0 /\ events[m].k \in {"invoked", "tree"})
    <3>1. cut[m] = m
      BY <2>4, <2>7
    <3>2. Fits(m)
      BY <2>3, <2>7, <3>1
    <3> QED BY <2>2, <3>2
  <2> QED BY <2>6, <2>7
<1>7. users # {} => GreatestOf(users) - 1 \in 0..n
  <2>1. users \in SUBSET Nat /\ \A m \in users : m <= n /\ m >= 1
    BY <1>1
  <2> HIDE DEF users
  <2>2. GreatestOf(users) \in users \cup {0} /\ GreatestOf(users) \in Nat
        /\ \A m \in users : m <= GreatestOf(users)
    BY <1>1, <2>1, GreatestIs
  <2> DEFINE g == GreatestOf(users)
  <2>3. g \in users \cup {0} /\ g \in Nat /\ \A m \in users : m <= g
    BY <2>2
  <2> HIDE DEF g
  <2>4. ASSUME users # {} PROVE g >= 1 /\ g <= n
    <3>1. PICK u \in users : TRUE
      BY <2>4
    <3>2. u \in Nat /\ u >= 1 /\ u <= g
      BY <2>1, <2>3
    <3>3. g >= 1 /\ g # 0
      BY <2>3, <3>2
    <3>4. g \in users
      BY <2>3, <3>3
    <3> QED BY <2>1, <3>3, <3>4
  <2>5. users # {} => g - 1 \in 0..n
    BY <1>1, <2>3, <2>4
  <2> QED BY <2>5 DEF g
<1>8. \A m \in 0..n : Fits(m)
  BY <1>6
<1>9. TurnBoundary(events) \in Nat
  <2>1. \A m \in 0..n : cut[m] \in Nat
    BY <1>8
  <2> HIDE DEF users
  <2> QED BY <1>2, <1>7, <2>1
<1>10. ASSUME events # <<>>, Last(events).k = "user"
       PROVE  n \in Nat \ {0} /\ TurnBoundary(events) = cut[n - 1]
  <2>1. n # 0 /\ Last(events) = events[n]
    BY <1>1, <1>10, EmptySeq DEF Last, n
  <2>2. n \in users
    BY <1>1, <1>10, <2>1
  <2>3. users \in SUBSET Nat /\ \A m \in users : m <= n
    BY <1>1
  <2> HIDE DEF users
  <2> DEFINE g == GreatestOf(users)
  <2>4. g \in Nat /\ n <= g /\ g \in users \cup {0}
    BY <1>1, <2>2, <2>3, GreatestIs
  <2>5. TurnBoundary(events) = cut[g - 1]
    BY <1>2, <2>2
  <2> HIDE DEF g
  <2>6. g = n
    BY <1>1, <2>3, <2>4
  <2> QED BY <1>1, <2>1, <2>5, <2>6
<1>11. ASSUME events # <<>>, Last(events).k = "user"
       PROVE  /\ TurnBoundary(events) < n
              /\ \A i \in (TurnBoundary(events) + 1)..(n - 1) : events[i].k \in {"invoked", "tree"}
              /\ TurnBoundary(events) > 0 => events[TurnBoundary(events)].k \notin {"invoked", "tree"}
  <2>1. n - 1 \in 0..n /\ n - 1 < n
    BY <1>1, <1>10, <1>11
  <2>2. Fits(n - 1) /\ TurnBoundary(events) = cut[n - 1]
    BY <1>8, <1>10, <1>11, <2>1
  <2> QED BY <1>1, <2>1, <2>2
<1> QED BY <1>9, <1>11 DEF n


(* Whatever the log, what is unanswered is open.                                  *)
LEMMA UnansweredIn ==
  ASSUME NEW events \in Seq(Entry)
  PROVE  \A i \in DOMAIN Unanswered(events) :
            Unanswered(events)[i] \in OpenCalls(events) /\ Unanswered(events)[i] \in Call
<1> DEFINE open == OpenCalls(events)
           Holds(i) == Range(events[i].calls) \cap open # {}
           holder == CHOOSE i \in DOMAIN events : Holds(i)
<1>1. DOMAIN events = 1..Len(events) /\ \A i \in 1..Len(events) : events[i] \in Entry
  BY LenProperties, ElementOfSeq
<1>2. ASSUME open # {} PROVE \A i \in DOMAIN Unanswered(events) : Unanswered(events)[i] \in open
  <2>1. PICK h \in DOMAIN events : Holds(h)
    BY <1>2 DEF OpenCalls
  <2>2. holder \in DOMAIN events /\ Holds(holder)
    BY <2>1
  <2> DEFINE q == events[holder].calls
  <2>3. Unanswered(events) = Within(q, open)
    BY <1>2 DEF Unanswered
  <2> HIDE DEF holder
  <2>4. q \in Seq(Call)
    BY <1>1, <2>2 DEF Entry
  <2> HIDE DEF q
  <2>5. Within(q, open) \in Seq(Call) /\ Range(Within(q, open)) = Range(q) \cap open
    BY <2>4, Selected
  <2> HIDE DEF open
  <2>6. \A i \in DOMAIN Within(q, open) : Within(q, open)[i] \in Range(Within(q, open))
    BY DEF Range
  <2> QED BY <2>3, <2>5, <2>6
<1>3. open = {} => Unanswered(events) = <<>>
  BY DEF Unanswered
<1>4. DOMAIN <<>> = {}
  OBVIOUS
<1>5. Unanswered(events) \in Seq(Call)
  BY UnansweredAre
<1>6. \A i \in DOMAIN Unanswered(events) : Unanswered(events)[i] \in Call
  BY <1>5, LenProperties, ElementOfSeq
<1> HIDE DEF open
<1> QED BY <1>2, <1>3, <1>4, <1>6 DEF open

(* The calls a message makes are new to the session: in the window, and behind it.*)
LEMMA CallsFresh ==
  ASSUME NEW a, NEW tools \in Seq(Tools), Len(tools) <= 2, FileFits(file), NEW known,
         \A c : ContainsCall(a, c) <=> c \in known,
         \A c \in known : c \in Nat /\ c < 10 * (file.stamp + 1)
  PROVE  LET m == Message(a, tools)
         IN /\ m \in Entry /\ m.k = "asst" /\ m.call = 0 /\ m.n = 0 /\ m.calls \in Seq(Call)
            /\ CallsOf(m) \cap known = {} /\ Cardinality(CallsOf(m)) = Len(m.calls)
            /\ 0 \notin CallsOf(m) /\ \A c \in CallsOf(m) : c < 10 * (file.stamp + 2)
            /\ Len(m.calls) = Len(tools)
<1> DEFINE m == Message(a, tools)
           n == Len(tools)
           s == file.stamp
           f == [i \in 1..n |-> FreeCall(a, i)]
<1>1. n \in Nat /\ DOMAIN tools = 1..n /\ s \in Nat /\ n <= 2
  BY LenProperties DEF FileFits
<1>2. m \in Entry /\ m.k = "asst" /\ m.calls \in Seq(Call)
  BY MessagesAre
<1>3. m.call = 0 /\ m.n = 0 /\ m.calls = CallsMade(a, tools)
  BY DEF Message, Event
<1>4. /\ DOMAIN m.calls = 1..n
      /\ \A i \in 1..n : m.calls[i].call = FreeCall(a, i)
  BY <1>1, <1>3 DEF CallsMade
<1>5. Len(m.calls) = n
  BY <1>1, <1>2, <1>4, LenProperties
<1>6. CallsOf(m) = {f[i] : i \in 1..n}
  BY <1>4 DEF CallsOf
<1>7. ASSUME NEW i \in 1..n
      PROVE  /\ f[i] = FreeCall(a, i) /\ i \in {1, 2}
             /\ f[i] = IF i \in known THEN 10 * (s + 1) + i ELSE i
  BY <1>1 DEF FreeCall, FreshCall
<1> HIDE DEF m, n, s, f
<1>8. ASSUME NEW i \in 1..n
      PROVE f[i] \in Nat /\ f[i] # 0 /\ f[i] < 10 * (s + 2) /\ f[i] \notin known
            /\ f[i] \in {i, 10 * (s + 1) + i}
  <2>1. i \in {1, 2} /\ f[i] = IF i \in known THEN 10 * (s + 1) + i ELSE i
    BY <1>7
  <2>2. \A c \in known : c \in Nat /\ c < 10 * (s + 1)
    BY DEF s
  <2>3. 10 * (s + 1) + i \notin known
    BY <1>1, <2>1, <2>2
  <2> QED BY <1>1, <2>1, <2>3
<1>9. \A i, j \in 1..n : f[i] = f[j] => i = j
  <2>1. SUFFICES ASSUME NEW i \in 1..n, NEW j \in 1..n, f[i] = f[j] PROVE i = j
    OBVIOUS
  <2>2. i \in {1, 2} /\ j \in {1, 2} /\ f[i] \in {i, 10 * (s + 1) + i} /\ f[j] \in {j, 10 * (s + 1) + j}
    BY <1>7, <1>8
  <2> QED BY <1>1, <2>1, <2>2
<1>10. Cardinality(CallsOf(m)) = n
  <2>1. IsFiniteSet(1..n) /\ Cardinality(1..n) = n
    BY <1>1, CountTo
  <2> DEFINE S == 1..n
             T == CallsOf(m)
  <2>2. f \in [S -> T]
    BY <1>6 DEF f
  <2> HIDE DEF S, T
  <2>3. f \in Bijection(S, T)
    <3>1. \A i, j \in S : f[i] = f[j] => i = j
      BY <1>9 DEF S
    <3>2. \A t \in T : \E i \in S : f[i] = t
      BY <1>6 DEF S, T
    <3> QED BY <2>2, <3>1, <3>2 DEF Bijection, Injection, Surjection, IsInjective
  <2>4. IsFiniteSet(S) /\ Cardinality(S) = n
    BY <2>1 DEF S
  <2>5. Cardinality(T) = Cardinality(S)
    BY <2>3, <2>4, FS_Bijection DEF ExistsBijection
  <2> QED BY <2>4, <2>5 DEF T
<1>11. CallsOf(m) \cap known = {} /\ 0 \notin CallsOf(m) /\ \A c \in CallsOf(m) : c < 10 * (s + 2)
  BY <1>6, <1>8
<1> QED BY <1>2, <1>3, <1>5, <1>10, <1>11 DEF m, n, s

(* A reply names at most two tools.                                               *)
LEMMA ToolsFew ==
  /\ \A reply : Len(ToolsOf(reply)) <= 2
  /\ \A tools \in {<<>>, <<"bash">>} : Len(tools) <= 2
  /\ Len(<<"bash">>) <= 2
<1>1. /\ Len(<<>>) = 0 /\ Len(<<"bash">>) = 1 /\ Len(<<Question>>) = 1
      /\ Len(<<"bash", "bash">>) = 2 /\ Len(<<Question, "bash">>) = 2
  OBVIOUS
<1> QED BY <1>1 DEF ToolsOf
=================================================================================
