-------------------------- MODULE SessionPromisesProofs --------------------------
(* What a session's log, its index, its rewinds and its turns promise, proved for  *)
(* any number of processes, jobs and files.  IInv (TurnLoopProofs) says that all   *)
(* of it is made of entries and who has it open; SInv says what it tells: the log  *)
(* loads, the index covers it, an open session shows it to its end, a job knows    *)
(* which calls it owes and where it rewinds, and nothing else is left open.        *)
EXTENDS TurnLoopProofs

(* The log loads, and every event in it fits.                                     *)
LogTells(f) == f.lines # <<>> => FoldsCleanly(f.lines) /\ Sound(Folded(f.lines), f.stamp)

(* An index with the stamp of the file covers the log.                            *)
IndexTells(ix, f) ==
  ix # None => ix.stamp <= f.stamp /\ (ix.stamp = f.stamp => Covers(ix, Folded(f.lines), f.lines))

(* An open session that has the stamp of the file shows the log to its end.       *)
Follows(s, f) ==
  LET log == Folded(f.lines) IN
  /\ Shows(s.events, s.base, log, Len(log))
  /\ OpenCalls(s.events) = OpenCalls(log)
  /\ WellCut(log, s.base)
  /\ s.ckpt # None => Covers(s.ckpt, log, f.lines) /\ Canonical(s.base, s.tail) = Reach(s.ckpt)

(* A session without a checkpoint is the whole log.                               *)
Complete(s) == s.ckpt = None => s.base = 0 /\ s.tail = 0

(* A log as such.                                                                 *)
LEMMA LogIs ==
  ASSUME NEW f, FileFits(f), LogTells(f)
  PROVE  /\ f.lines \in Seq(Entry) /\ f.stamp \in Nat /\ Folded(f.lines) \in Seq(Entry)
         /\ f.lines # <<>> => Valid(Folded(f.lines)) /\ Spaced(Folded(f.lines)) /\ Folded(f.lines) # <<>>
                              /\ \A i \in DOMAIN Folded(f.lines) : Plain(Folded(f.lines)[i])
         /\ f.lines = <<>> => Folded(f.lines) = <<>>
<1>1. f.lines \in Seq(Entry) /\ f.stamp \in Nat
  BY DEF FileFits
<1>2. f.lines = <<>> => Folded(f.lines) = <<>>
  BY <1>1, FoldOf DEF Folded
<1>3. ASSUME f.lines # <<>>
      PROVE  /\ Folded(f.lines) \in Seq(Entry) /\ Valid(Folded(f.lines)) /\ Spaced(Folded(f.lines))
             /\ \A i \in DOMAIN Folded(f.lines) : Plain(Folded(f.lines)[i])
  BY <1>1, <1>3, FoldIsClean DEF LogTells, Sound
<1>4. Valid(Folded(f.lines)) => Folded(f.lines) # <<>>
  BY DEF Valid
<1>5. <<>> \in Seq(Entry)
  BY EmptySeq
<1> QED BY <1>1, <1>2, <1>3, <1>4, <1>5

(* Where a compaction may cut: past every earlier one, never between a checkpoint *)
(* and its message.                                                               *)
LEMMA CutFits ==
  ASSUME NEW log \in Seq(Entry), NEW w \in Seq(Entry), NEW base \in Nat, Shows(w, base, log, Len(log)),
         WellCut(log, base), NEW c \in 1..Len(w),
         \/ c = Len(w)
         \/ /\ c < Len(w) /\ w[Len(w)].k = "user" /\ w[c].k \notin {"invoked", "tree"}
            /\ \A i \in (c + 1)..(Len(w) - 1) : w[i].k \in {"invoked", "tree"}
  PROVE  /\ Canonical(base, c) \in 1..Len(log)
         /\ \A j \in 1..Len(log) : log[j].k = "compaction" => j <= Canonical(base, c)
         /\ Canonical(base, c) < Len(log) => WellCut(log, Canonical(base, c))
<1> DEFINE z == Canonical(base, c)
           n == Len(w)
<1>1. n \in Nat /\ Len(log) \in Nat /\ c \in 1..n
  BY LenProperties
<1>2. /\ Len(log) = Canonical(base, n)
      /\ \A i \in 1..n : At(base, i) \in 1..Len(log) /\ Alike(base, w[i], log[At(base, i)])
      /\ n # 0 => \A p \in 1..Len(log) : p = 1 \/ p > base => \E i \in 1..n : At(base, i) = p
  BY <1>1, ShownAre
<1>3. z \in Nat /\ z >= 1 /\ z <= Canonical(base, n) /\ (base > 0 => z >= base)
      /\ (c > 1 \/ base = 0 => z = At(base, c)) /\ (c = 1 /\ base > 0 => z = base)
  BY <1>1 DEF Canonical, At
<1>4. \A i \in 1..n : i <= c => At(base, i) <= z
  BY <1>1 DEF Canonical, At
<1>5. z \in 1..Len(log)
  BY <1>1, <1>2, <1>3
<1> HIDE DEF z, n
<1>6. ASSUME NEW j \in 1..Len(log), log[j].k = "compaction" PROVE j <= z
  <2>1. SUFFICES ASSUME j > z PROVE FALSE
    BY <1>1, <1>3
  <2>2. j > base /\ n # 0
    BY <1>1, <1>3, <2>1
  <2>3. PICK i \in 1..n : At(base, i) = j
    BY <1>2, <2>2
  <2>4. i > c /\ i \in (c + 1)..n
    BY <1>1, <1>3, <1>4, <2>1, <2>3
  <2>5. w[i].k = "compaction"
    BY <1>2, <1>6, <2>3 DEF Alike
  <2>6. i = n \/ i \in (c + 1)..(n - 1)
    BY <1>1, <2>4
  <2>7. c < n
    BY <1>1, <2>4
  <2> QED BY <1>1, <2>5, <2>6, <2>7 DEF n
<1>7. ASSUME z < Len(log) PROVE WellCut(log, z)
  <2>1. c # n
    BY <1>2, <1>7, <1>3 DEF z
  <2>2. w[c].k \notin {"invoked", "tree"}
    BY <2>1 DEF n
  <2>3. CASE c > 1 \/ base = 0
    <3>1. log[z].k = w[c].k
      BY <1>1, <1>2, <1>3, <2>3 DEF Alike
    <3> QED BY <2>2, <3>1 DEF WellCut
  <2>4. CASE c = 1 /\ base > 0
    BY <1>3, <2>4
  <2> QED BY <1>1, <2>3, <2>4
<1> QED BY <1>5, <1>6, <1>7 DEF z

(* The call ids a session knows are those of the log.                             *)
LEMMA KnownHere ==
  ASSUME NEW f, FileFits(f), LogTells(f), NEW s \in OpenSession, Follows(s, f), Complete(s),
         s.tail <= Len(s.events)
  PROVE  Knows(KnownCalls(s), Folded(f.lines), Len(Folded(f.lines)))
<1> DEFINE log == Folded(f.lines)
           w == s.events
           base == s.base
           tail == s.tail
           known == IF s.ckpt = None THEN {} ELSE s.ckpt.known
           rest == SubSeq(w, tail + 1, Len(w))
<1>1. /\ log \in Seq(Entry) /\ Len(log) \in Nat
      /\ w \in Seq(Entry) /\ Len(w) \in Nat /\ base \in Nat /\ tail \in Nat
  BY LogIs, LenProperties DEF OpenSession
<1>3. Shows(w, base, log, Len(log))
  BY DEF Follows
<1>5. tail \in 0..Len(w)
  BY <1>1
<1>6. Knows(known, log, Canonical(base, tail)) /\ (base > 0 => tail > 0)
  <2>1. CASE s.ckpt = None
    <3>1. base = 0 /\ tail = 0 /\ known = {}
      BY <2>1 DEF Complete
    <3>2. Canonical(0, 0) = 0
      BY DEF Canonical
    <3>3. Knows({}, log, 0)
      BY DEF Knows
    <3> QED BY <3>1, <3>2, <3>3
  <2>2. CASE s.ckpt # None
    <3> DEFINE ix == s.ckpt
    <3>1. Covers(ix, log, f.lines) /\ Canonical(base, tail) = Reach(ix) /\ known = ix.known
      BY <2>2 DEF Follows
    <3>2. ix.start > 0 /\ Shows(ix.window, ix.start, log, Reach(ix)) /\ Knows(ix.known, log, Reach(ix))
      BY <3>1 DEF Covers, Newest
    <3>3. ix \in IndexFile
      BY <2>2 DEF OpenSession
    <3> HIDE DEF ix
    <3>4. ix.start \in Nat /\ ix.window \in Seq(Entry)
      BY <3>3 DEF IndexFile
    <3>5. Reach(ix) \in 0..Len(log) /\ ix.start < Reach(ix)
      BY <1>1, <3>2, <3>4, ShownAre
    <3>6. Canonical(base, tail) # 0
      BY <1>1, <3>1, <3>4, <3>5
    <3>7. tail # 0
      BY <3>6 DEF Canonical
    <3> QED BY <1>1, <3>1, <3>2, <3>7
  <2> QED BY <2>1, <2>2
<1> HIDE DEF log, w, base, tail, known, rest
<1>9. rest = SubSeq(w, tail + 1, Len(w))
  BY DEF rest
<1>10. Knows(known \cup CallIds(rest), log, Len(log))
  BY <1>1, <1>3, <1>5, <1>6, <1>9, KnownAre
<1>11. KnownCalls(s) = known \cup CallIds(rest)
  BY DEF KnownCalls, known, rest, w, tail
<1> QED BY <1>10, <1>11 DEF log

(* A checkpoint just sealed covers the log.                                       *)
LEMMA SealCovers ==
  ASSUME NEW f, FileFits(f), LogTells(f), NEW s \in OpenSession, Follows(s, f), Complete(s),
         s.tail <= Len(s.events), NEW cut \in Nat, Sealable(s, cut),
         NEW q \in (cut + 1)..Len(s.events), s.events[q].k = "compaction",
         \A j \in (cut + 1)..Len(s.events) : s.events[j].k = "compaction" => j = q,
         Folded(f.lines)[At(s.base, q)].n = Canonical(s.base, cut),
         NEW ck \in IndexFile, ck.window = Sealed(s.events, cut), ck.start = Canonical(s.base, cut),
         ck.offset = Len(f.lines), ck.known = KnownCalls(s)
  PROVE  /\ Covers(ck, Folded(f.lines), f.lines) /\ Reach(ck) = Len(Folded(f.lines))
         /\ Canonical(s.base, Len(s.events)) = Len(Folded(f.lines))
<1> DEFINE log == Folded(f.lines)
           w == s.events
           base == s.base
           z == Canonical(base, cut)
<1>1. /\ f.lines \in Seq(Entry) /\ log \in Seq(Entry) /\ Len(f.lines) \in Nat /\ Len(log) \in Nat
      /\ w \in Seq(Entry) /\ Len(w) \in Nat /\ base \in Nat
  BY LogIs, LenProperties DEF OpenSession
<1>2. /\ cut \in 1..(Len(w) - 1) /\ Valid(w) /\ w[1].k = "meta"
  <2>1. cut # 0 /\ cut < Len(w) /\ Valid(w)
    BY DEF Sealable
  <2>2. cut \in 1..(Len(w) - 1)
    BY <1>1, <2>1
  <2>3. w[1].k = "meta"
    BY <2>1 DEF Valid
  <2> QED BY <2>1, <2>2, <2>3
<1>3. Shows(w, base, log, Len(log))
  BY DEF Follows
<1>4. Sealed(w, cut) \in Seq(Entry)
  BY DEF IndexFile
<1> HIDE DEF log, w, base, z
<1>7. q \in (cut + 1)..Len(w) /\ w[q].k = "compaction"
      /\ (\A j \in (cut + 1)..Len(w) : w[j].k = "compaction" => j = q) /\ log[At(base, q)].n = Canonical(base, cut)
  BY DEF log, w, base
<1>8. z \in Nat /\ Shows(Sealed(w, cut), z, log, Len(log)) /\ Newest(log, Len(log), z)
  BY <1>1, <1>2, <1>3, <1>4, <1>7, SealedShows DEF z
<1>10. Knows(ck.known, log, Len(log))
  BY KnownHere DEF log
<1>12. ck.window = Sealed(w, cut) /\ ck.start = z /\ ck.offset = Len(f.lines)
  BY DEF w, z, base
<1>13. Reach(ck) = Len(log)
  BY <1>8, <1>12 DEF Reach, Shows
<1>14. Covers(ck, log, f.lines)
  <2>1. \A i \in 1..(Len(f.lines) - ck.offset) : FALSE
    BY <1>1, <1>12
  <2>2. ck.offset <= Len(f.lines) /\ Len(log) + ck.offset = Reach(ck) + Len(f.lines)
    BY <1>1, <1>12, <1>13
  <2> QED BY <1>8, <1>10, <1>12, <1>13, <2>1, <2>2 DEF Covers
<1>15. Canonical(base, Len(w)) = Len(log)
  BY <1>3 DEF Shows
<1> QED BY <1>13, <1>14, <1>15 DEF log, w, base

--------------------------------------------------------------------------------
(* A log shows itself.                                                            *)
LEMMA ShowsItself ==
  ASSUME NEW log \in Seq(Entry), Spaced(log)
  PROVE  Shows(log, 0, log, Len(log)) /\ WellCut(log, 0)
<1>1. DOMAIN log = 1..Len(log) /\ Len(log) \in Nat /\ \A i \in 1..Len(log) : log[i] \in Entry
  BY LenProperties, ElementOfSeq
<1>2. ASSUME NEW i \in 1..Len(log) PROVE Alike(0, log[i], log[At(0, i)])
  <2>1. At(0, i) = i
    BY DEF At
  <2>2. log[i].k = "compaction" => log[i].n \in 1..(i - 1)
    BY <1>1 DEF Spaced
  <2>3. log[i].k = "compaction" => log[i].n >= 1
    BY <1>1, <2>2
  <2>4. Canonical(0, log[i].n) = log[i].n
    BY DEF Canonical
  <2> QED BY <2>1, <2>3, <2>4 DEF Alike
<1>3. Len(log) = Canonical(0, Len(log)) /\ ~(0 > 0)
  BY DEF Canonical
<1> QED BY <1>1, <1>2, <1>3 DEF Shows, WellCut

(* A session loaded through a checkpoint that covers the log follows it.          *)
LEMMA LoadFollows ==
  ASSUME NEW f, FileFits(f), LogTells(f), f.lines # <<>>, NEW ix \in IndexFile,
         Covers(ix, Folded(f.lines), f.lines), NEW t, t = SubSeq(f.lines, ix.offset + 1, Len(f.lines)),
         \A i \in DOMAIN t : t[i].k # "compaction",
         NEW s, s.events = ix.window \o t, s.base = ix.start, s.ckpt = ix, s.tail = Len(ix.window)
  PROVE  Follows(s, f)
<1> DEFINE log == Folded(f.lines)
           w == ix.window \o t
<1>1. f.lines \in Seq(Entry) /\ log \in Seq(Entry) /\ Valid(log) /\ Spaced(log)
      /\ \A i \in DOMAIN log : Plain(log[i])
  BY LogIs
<1>2. w \in Seq(Entry) /\ Shows(w, ix.start, log, Len(log)) /\ Newest(log, Len(log), ix.start) /\ Len(log) >= 1
  BY <1>1, IndexedShows
<1>3. ix.start \in Nat /\ Len(log) \in Nat
  BY <1>1, LenProperties DEF IndexFile
<1> HIDE DEF log, w
<1>4. \E q \in (ix.start + 1)..Len(log) : log[q].k = "compaction"
  BY <1>2 DEF Newest
<1>5. OpenCalls(w) = OpenCalls(log)
  BY <1>1, <1>2, <1>3, <1>4, WindowOpens
<1>6. WellCut(log, ix.start)
  BY <1>1, <1>2, <1>3, NewestTells
<1>7. Covers(ix, log, f.lines) /\ s.events = w
  BY DEF log, w
<1>8. Canonical(s.base, s.tail) = Reach(s.ckpt)
  BY DEF Reach
<1> QED BY <1>2, <1>5, <1>6, <1>7, <1>8 DEF Follows, log

(* The only compaction past the cut of a log.                                     *)
LEMMA SoleCompaction ==
  ASSUME NEW log \in Seq(Entry), Spaced(log), CompactionCut(log) # 0
  PROVE  \E q \in (CompactionCut(log) + 1)..Len(log) :
            /\ log[q].k = "compaction" /\ log[q].n = CompactionCut(log)
            /\ \A j \in (CompactionCut(log) + 1)..Len(log) : log[j].k = "compaction" => j = q
<1> DEFINE c == CompactionCut(log)
<1>1. Newest(log, Len(log), c)
  BY NewestTells
<1>2. c \in 0..Len(log) /\ Len(log) \in Nat /\ DOMAIN log = 1..Len(log)
  BY CutIs, LenProperties
<1> HIDE DEF c
<1>3. PICK q \in (c + 1)..Len(log) : /\ log[q].k = "compaction" /\ log[q].n = c
                                     /\ \A j \in (q + 1)..Len(log) : log[j].k # "compaction"
  BY <1>1 DEF Newest
<1>4. ASSUME NEW j \in (c + 1)..Len(log), log[j].k = "compaction" PROVE j = q
  <2>1. SUFFICES ASSUME j # q PROVE FALSE
    OBVIOUS
  <2>2. j \notin (q + 1)..Len(log)
    BY <1>3, <1>4
  <2>3. j \in 1..(q - 1) /\ q \in DOMAIN log
    BY <1>2, <2>1, <2>2
  <2>4. j <= log[q].n
    BY <1>3, <1>4, <2>3 DEF Spaced
  <2> QED BY <1>2, <1>3, <2>4
<1> QED BY <1>3, <1>4 DEF c

(* A session loaded in full follows the log, and so does the window it seals.     *)
LEMMA WholeFollows ==
  ASSUME NEW f, FileFits(f), LogTells(f), f.lines # <<>>, NEW s \in OpenSession,
         s.events = Folded(f.lines), s.base = 0, s.ckpt = None, s.tail = 0
  PROVE  /\ Follows(s, f) /\ Complete(s)
         /\ \A ck \in IndexFile : \A cut :
              (/\ cut = CompactionCut(s.events) /\ Sealable(s, cut) /\ ck.window = Sealed(s.events, cut)
               /\ ck.start = Canonical(0, cut) /\ ck.offset = Len(f.lines) /\ ck.known = KnownCalls(s))
              => /\ Covers(ck, Folded(f.lines), f.lines)
                 /\ \A r : (/\ r.events = ck.window /\ r.base = ck.start /\ r.ckpt = ck
                            /\ r.tail = Len(ck.window)) => Follows(r, f)
<1> DEFINE log == Folded(f.lines)
<1>1. f.lines \in Seq(Entry) /\ log \in Seq(Entry) /\ Valid(log) /\ Spaced(log)
      /\ \A i \in DOMAIN log : Plain(log[i])
  BY LogIs
<1>2. Follows(s, f) /\ Complete(s)
  BY <1>1, ShowsItself DEF Follows, Complete
<1>3. ASSUME NEW ck \in IndexFile, NEW cut, cut = CompactionCut(s.events), Sealable(s, cut),
             ck.window = Sealed(s.events, cut),
             ck.start = Canonical(0, cut), ck.offset = Len(f.lines), ck.known = KnownCalls(s)
      PROVE  /\ Covers(ck, log, f.lines)
             /\ \A r : (/\ r.events = ck.window /\ r.base = ck.start /\ r.ckpt = ck
                        /\ r.tail = Len(ck.window)) => Follows(r, f)
  <2>1. cut \in 0..Len(log) /\ cut # 0 /\ cut \in Nat /\ Len(log) \in Nat
    BY <1>1, <1>3, CutIs, LenProperties DEF Sealable
  <2>2. PICK q \in (cut + 1)..Len(log) :
              /\ log[q].k = "compaction" /\ log[q].n = cut
              /\ \A j \in (cut + 1)..Len(log) : log[j].k = "compaction" => j = q
    BY <1>1, <1>3, <2>1, SoleCompaction
  <2>3. At(0, q) = q /\ Canonical(0, cut) = cut
    BY DEF At, Canonical
  <2>4. s.tail <= Len(s.events)
    BY <2>1
  <2>5. Covers(ck, log, f.lines) /\ Reach(ck) = Len(log)
    <3>1. /\ q \in (cut + 1)..Len(s.events) /\ s.events[q].k = "compaction"
          /\ \A j \in (cut + 1)..Len(s.events) : s.events[j].k = "compaction" => j = q
          /\ log[At(s.base, q)].n = Canonical(s.base, cut)
      BY <2>2, <2>3
    <3> HIDE DEF log
    <3> QED BY <1>2, <1>3, <2>1, <2>4, <3>1, SealCovers DEF log
  <2> HIDE DEF log
  <2>6. ck.window \in Seq(Entry) /\ ck.start \in Nat
    BY DEF IndexFile
  <2>7. Shows(ck.window, ck.start, log, Len(log)) /\ Newest(log, Len(log), ck.start)
    BY <2>5 DEF Covers
  <2>8. \E p \in (ck.start + 1)..Len(log) : log[p].k = "compaction"
    BY <2>7 DEF Newest
  <2>9. OpenCalls(ck.window) = OpenCalls(log)
    BY <1>1, <2>6, <2>7, <2>8, WindowOpens
  <2>10. WellCut(log, ck.start)
    <3>1. Len(log) \in 1..Len(log)
      BY <2>1
    <3> QED BY <1>1, <2>6, <2>7, <3>1, NewestTells
  <2>11. ASSUME NEW r, r.events = ck.window, r.base = ck.start, r.ckpt = ck, r.tail = Len(ck.window)
         PROVE Follows(r, f)
    <3>1. Canonical(r.base, r.tail) = Reach(r.ckpt)
      BY <2>11 DEF Reach
    <3> QED BY <2>5, <2>7, <2>9, <2>10, <2>11, <3>1 DEF Follows, log
  <2> QED BY <2>5, <2>11
<1> HIDE DEF log
<1> QED BY <1>2, <1>3 DEF log

(* What the calls left open are when an event comes after them.                   *)
OpenAfter(e, open) ==
  IF e.k = "result" THEN {c \in open : c.call # e.call} ELSE open \cup Range(e.calls)

(* An event that may be the next line of a log.                                   *)
FitsBehind(e, log, stamp) ==
  /\ e \in Entry /\ e.k \notin {"meta", "rewind", "invoked"} /\ e.id = stamp + 1 /\ Plain(e)
  /\ \A c \in CallsOf(e) : c < 10 * (stamp + 2)
  /\ CallsOf(e) \cap CallIds(log) = {} /\ Cardinality(CallsOf(e)) = Len(e.calls)
  /\ AllowedWhileUnanswered(e) \/ OpenCalls(log) = {}
  /\ e.k = "result" => \E c \in OpenCalls(log) : c.call = e.call
  /\ e.k = "compaction" =>
       /\ e.n \in 1..Len(log) /\ \A j \in 1..Len(log) : log[j].k = "compaction" => j <= e.n
       /\ e.n < Len(log) => WellCut(log, e.n)

(* What is open after an event that makes calls of its own, or answers one.       *)
LEMMA OpensAre ==
  ASSUME NEW log \in Seq(Entry), NEW e \in Entry, Plain(e),
         \A j \in DOMAIN log : log[j].k = "result" => log[j].call \notin CallsOf(e)
  PROVE  OpenCalls(Append(log, e)) = OpenAfter(e, OpenCalls(log))
<1>1. e.k = "result" => e.calls = <<>>
  BY DEF Plain
<1> QED BY <1>1, OpenThen DEF OpenAfter

(* A result of the log answers a call of the log.                                 *)
LEMMA ResultsKnown ==
  ASSUME NEW log \in Seq(Entry), Valid(log), NEW j \in DOMAIN log, log[j].k = "result"
  PROVE  log[j].call \in CallIds(log)
<1>1. DOMAIN log = 1..Len(log) /\ Len(log) \in Nat
  BY LenProperties
<1>2. PICK i \in 1..(j - 1) : log[j].call \in CallsOf(log[i])
  BY DEF Valid
<1>3. i \in DOMAIN log
  BY <1>1, <1>2
<1> QED BY <1>2, <1>3 DEF CallIds

(* A log with one more line that fits tells as much; an index that told of it is  *)
(* out of date.                                                                   *)
LEMMA GrownTells ==
  ASSUME NEW f, FileFits(f), LogTells(f), f.lines # <<>>, NEW y, FitsBehind(y, Folded(f.lines), f.stamp),
         NEW g, g.lines = Append(f.lines, y), g.stamp = f.stamp + 1
  PROVE  /\ Folded(g.lines) = Append(Folded(f.lines), y) /\ g.lines # <<>>
         /\ LogTells(g)
         /\ OpenCalls(Folded(g.lines)) = OpenAfter(y, OpenCalls(Folded(f.lines)))
         /\ \A ix \in IndexFile \cup {None} : IndexTells(ix, f) => IndexTells(ix, g)
<1> DEFINE log == Folded(f.lines)
<1>1. /\ f.lines \in Seq(Entry) /\ f.stamp \in Nat /\ log \in Seq(Entry) /\ Valid(log)
      /\ FoldsCleanly(f.lines) /\ Sound(log, f.stamp)
  BY LogIs DEF LogTells
<1>2. y \in Entry /\ y.k # "rewind" /\ y.k # "meta" /\ Plain(y) /\ CallsOf(y) \cap CallIds(log) = {}
  BY DEF FitsBehind
<1>3. FoldsCleanly(g.lines) /\ Folded(g.lines) = Append(log, y)
  BY <1>1, <1>2, CleanGrows DEF Then
<1>4. Sound(Append(log, y), f.stamp + 1)
  <2>1. FitsBehind(y, log, f.stamp)
    OBVIOUS
  <2> HIDE DEF log
  <2> QED BY <1>1, <2>1, SoundGrows DEF FitsBehind
<1>5. g.lines # <<>>
  <2>1. Len(g.lines) = Len(f.lines) + 1 /\ Len(f.lines) \in Nat
    BY <1>1, <1>2, Grown
  <2>2. Len(g.lines) # 0
    BY <2>1
  <2> QED BY <2>2, EmptySeq
<1>6. OpenCalls(Append(log, y)) = OpenAfter(y, OpenCalls(log))
  <2> HIDE DEF log
  <2>1. \A j \in DOMAIN log : log[j].k = "result" => log[j].call \notin CallsOf(y)
    BY <1>1, <1>2, ResultsKnown
  <2> QED BY <1>1, <1>2, <2>1, OpensAre
<1>7. ASSUME NEW ix \in IndexFile \cup {None}, IndexTells(ix, f) PROVE IndexTells(ix, g)
  <2>1. ix # None => ix.stamp \in Nat
    BY DEF IndexFile
  <2>2. ix # None => ix.stamp <= f.stamp
    BY <1>7 DEF IndexTells
  <2> QED BY <1>1, <2>1, <2>2 DEF IndexTells
<1> QED BY <1>3, <1>4, <1>5, <1>6, <1>7 DEF LogTells

(* A session that follows the log follows it through one more event.              *)
LEMMA GrownFollows ==
  ASSUME NEW f, FileFits(f), LogTells(f), f.lines # <<>>, NEW y, FitsBehind(y, Folded(f.lines), f.stamp),
         NEW g, g.lines = Append(f.lines, y), g.stamp = f.stamp + 1,
         NEW s \in OpenSession, Follows(s, f), NEW x \in Entry, Alike(s.base, x, y), Plain(x),
         NEW r, r.events = Append(s.events, x), r.base = s.base, r.tail = s.tail,
         \/ s.ckpt = None /\ r.ckpt = None
         \/ /\ s.ckpt # None /\ r.ckpt \in IndexFile /\ r.ckpt.window = s.ckpt.window
            /\ r.ckpt.start = s.ckpt.start /\ r.ckpt.offset = s.ckpt.offset /\ r.ckpt.known = s.ckpt.known
  PROVE  Follows(r, g)
<1> DEFINE log == Folded(f.lines)
           w == s.events
           base == s.base
<1>1. /\ f.lines \in Seq(Entry) /\ log \in Seq(Entry) /\ Valid(log) /\ Len(log) \in Nat
      /\ w \in Seq(Entry) /\ base \in Nat
  BY LogIs, LenProperties DEF OpenSession
<1>2. y \in Entry /\ Plain(y) /\ CallsOf(y) \cap CallIds(log) = {}
  BY DEF FitsBehind
<1>3. Folded(g.lines) = Append(log, y) /\ OpenCalls(Append(log, y)) = OpenAfter(y, OpenCalls(log))
  <2>1. /\ Folded(g.lines) = Append(Folded(f.lines), y)
        /\ OpenCalls(Folded(g.lines)) = OpenAfter(y, OpenCalls(Folded(f.lines)))
    BY GrownTells
  <2> QED BY <2>1
<1>4. /\ Shows(w, base, log, Len(log)) /\ OpenCalls(w) = OpenCalls(log) /\ WellCut(log, base)
      /\ s.ckpt # None => Covers(s.ckpt, log, f.lines) /\ Canonical(base, s.tail) = Reach(s.ckpt)
  BY DEF Follows
<1>5. r.events = Append(w, x) /\ r.base = base /\ Alike(base, x, y)
  OBVIOUS
<1> HIDE DEF log, w, base
<1>6. Shows(Append(w, x), base, Append(log, y), Len(Append(log, y)))
  BY <1>1, <1>2, <1>4, <1>5, ShowsGrows
<1>7. OpenCalls(Append(w, x)) = OpenAfter(x, OpenCalls(w))
  <2>1. DOMAIN w = 1..Len(w) /\ DOMAIN log = 1..Len(log)
    BY <1>1, LenProperties
  <2>2. \A j \in 1..Len(w) : At(base, j) \in 1..Len(log) /\ Alike(base, w[j], log[At(base, j)])
    BY <1>1, <1>4, ShownAre
  <2>3. ASSUME NEW j \in DOMAIN w, w[j].k = "result" PROVE w[j].call \notin CallsOf(x)
    <3>1. PICK i \in DOMAIN log : log[i].k = "result" /\ log[i].call = w[j].call
      BY <2>1, <2>2, <2>3 DEF Alike
    <3>2. w[j].call \in CallIds(log)
      BY <1>1, <3>1, ResultsKnown
    <3>3. CallsOf(x) = CallsOf(y)
      BY <1>5 DEF Alike, CallsOf
    <3> QED BY <1>2, <3>2, <3>3
  <2> QED BY <1>1, <2>3, OpensAre
<1>8. OpenAfter(x, OpenCalls(w)) = OpenAfter(y, OpenCalls(log))
  BY <1>4, <1>5 DEF OpenAfter, Alike
<1>9. WellCut(Append(log, y), base)
  <2>1. base > 0 => base < Len(log)
    BY <1>4 DEF Shows
  <2>2. base > 0 => base \in 1..Len(log) /\ base + 1 \in 1..Len(log)
    BY <1>1, <2>1
  <2>3. \A i \in 1..Len(log) : Append(log, y)[i] = log[i]
    BY <1>1, <1>2, Grown
  <2> QED BY <1>4, <2>2, <2>3 DEF WellCut
<1>10. ASSUME r.ckpt # None
       PROVE  Covers(r.ckpt, Append(log, y), Append(f.lines, y)) /\ Canonical(base, s.tail) = Reach(r.ckpt)
  <2>1. /\ s.ckpt # None /\ r.ckpt \in IndexFile /\ s.ckpt \in IndexFile
        /\ r.ckpt.window = s.ckpt.window
        /\ r.ckpt.start = s.ckpt.start /\ r.ckpt.offset = s.ckpt.offset /\ r.ckpt.known = s.ckpt.known
    BY <1>10 DEF OpenSession
  <2> DEFINE ix == s.ckpt
             iy == r.ckpt
  <2>2. /\ ix \in IndexFile /\ iy \in IndexFile /\ Covers(ix, log, f.lines) /\ Canonical(base, s.tail) = Reach(ix)
        /\ iy.window = ix.window /\ iy.start = ix.start /\ iy.offset = ix.offset /\ iy.known = ix.known
    BY <1>4, <2>1
  <2> HIDE DEF ix, iy
  <2>3. Covers(iy, Append(log, y), Append(f.lines, y)) /\ Reach(iy) = Reach(ix)
    BY <1>1, <1>2, <2>2, CoversGrows
  <2> QED BY <2>2, <2>3 DEF iy
<1> QED BY <1>3, <1>5, <1>6, <1>7, <1>8, <1>9, <1>10 DEF Follows, log

(* A file and a session that follows it, each grown by the same compaction.       *)
GrewBoth(f, g, y, s, r, x) ==
  /\ FileFits(f) /\ LogTells(f) /\ f.lines # <<>> /\ FitsBehind(y, Folded(f.lines), f.stamp)
  /\ FileFits(g) /\ g.lines = Append(f.lines, y) /\ g.stamp = f.stamp + 1
  /\ s \in OpenSession /\ Follows(s, f) /\ Complete(s) /\ s.tail <= Len(s.events)
  /\ x \in Entry /\ Alike(s.base, x, y) /\ Plain(x) /\ x.k = "compaction"
  /\ r \in OpenSession /\ r.events = Append(s.events, x) /\ r.base = s.base /\ r.tail = s.tail /\ r.ckpt = s.ckpt

(* A checkpoint of a session at a cut.                                            *)
Seals(ck, s, cut, f) ==
  /\ Sealable(s, cut) /\ ck \in IndexFile /\ ck.window = Sealed(s.events, cut)
  /\ ck.start = Canonical(s.base, cut) /\ ck.offset = Len(f.lines) /\ ck.known = KnownCalls(s)

(* A compaction just appended is the only one past its cut, and what it seals     *)
(* covers the log.                                                                *)
LEMMA GrownSeals ==
  ASSUME NEW f, NEW g, NEW y, NEW s, NEW r, NEW x, GrewBoth(f, g, y, s, r, x), NEW ck, Seals(ck, r, x.n, g)
  PROVE  /\ Covers(ck, Folded(g.lines), g.lines)
         /\ Canonical(r.base, Len(r.events)) = Reach(ck)
<1> USE DEF GrewBoth, Seals
<1> DEFINE log == Folded(f.lines)
           lag == Folded(g.lines)
           w == s.events
           v == r.events
           base == s.base
           cut == x.n
           q == Len(v)
<1>1. /\ log \in Seq(Entry) /\ Valid(log) /\ Len(log) \in Nat
      /\ w \in Seq(Entry) /\ base \in Nat /\ y \in Entry /\ Len(w) \in Nat /\ x.n \in Nat
  BY LogIs, LenProperties DEF OpenSession, FitsBehind, Entry
<1>2. lag = Append(log, y) /\ LogTells(g) /\ Follows(r, g) /\ Complete(r)
  <2>1. lag = Append(log, y) /\ LogTells(g)
    BY GrownTells
  <2>2. \/ s.ckpt = None /\ r.ckpt = None
        \/ /\ s.ckpt # None /\ r.ckpt \in IndexFile /\ r.ckpt.window = s.ckpt.window
           /\ r.ckpt.start = s.ckpt.start /\ r.ckpt.offset = s.ckpt.offset /\ r.ckpt.known = s.ckpt.known
    BY DEF OpenSession
  <2>3. Follows(r, g)
    BY <2>2, GrownFollows
  <2>4. Complete(r)
    BY DEF Complete
  <2> QED BY <2>1, <2>3, <2>4
<1>3. /\ q = Len(w) + 1 /\ v[q] = x /\ \A i \in 1..Len(w) : v[i] = w[i]
  BY <1>1, Grown
<1>4. Shows(w, base, log, Len(log))
  BY DEF Follows
<1>5. y.k = "compaction" /\ y.n = Canonical(base, cut) /\ cut >= 1
  BY DEF Alike
<1>6. \A j \in 1..Len(log) : log[j].k = "compaction" => j <= y.n
  BY <1>5 DEF FitsBehind
<1>7. cut < q
  BY DEF Sealable
<1>8. Shows(v, base, lag, Len(lag))
  BY <1>2 DEF Follows
<1>9. lag[At(base, q)] = y
  <2>1. At(base, q) = Len(log) + 1
    <3>1. Len(log) = Canonical(base, Len(w)) /\ (base > 0 => Len(w) > 1)
      BY <1>1, <1>4, ShownAre
    <3> QED BY <1>1, <1>3, <3>1 DEF Canonical, At
  <2> QED BY <1>1, <1>2, <2>1, Grown
<1> HIDE DEF log, lag, w, v, base, cut, q
<1>10. ASSUME NEW j \in (cut + 1)..q, v[j].k = "compaction" PROVE j = q
  <2>1. SUFFICES ASSUME j # q PROVE FALSE
    OBVIOUS
  <2>2. j \in 1..Len(w) /\ v[j] = w[j] /\ j > cut
    BY <1>1, <1>3, <1>5, <2>1 DEF cut
  <2>3. At(base, j) \in 1..Len(log) /\ log[At(base, j)].k = "compaction"
    BY <1>1, <1>4, <1>10, <2>2, ShownAre DEF Alike
  <2>4. At(base, j) <= Canonical(base, cut)
    BY <1>5, <1>6, <2>3
  <2>5. cut \in Nat /\ cut >= 1 /\ j \in Nat
    BY <1>1, <1>5, <2>2 DEF cut
  <2>6. At(base, j) > Canonical(base, cut) /\ Canonical(base, cut) \in Nat
    BY <1>1, <2>2, <2>5, Replaced
  <2> QED BY <1>1, <2>3, <2>4, <2>6
<1>11. q \in (cut + 1)..q /\ v[q].k = "compaction"
  BY <1>1, <1>3, <1>5, <1>7 DEF cut
<1>12. /\ r.events = v /\ r.base = base /\ x.n = cut /\ cut \in Nat
       /\ r.tail <= Len(r.events)
  <2>1. r.events = v /\ r.base = base /\ x.n = cut /\ cut \in Nat /\ s.tail = r.tail /\ s.tail <= Len(w)
    BY <1>1 DEF v, base, cut, w
  <2>2. s.tail \in Nat
    BY DEF OpenSession
  <2>3. s.tail <= q
    BY <1>1, <1>3, <2>1, <2>2
  <2> QED BY <2>1, <2>3 DEF q
<1>13. /\ q \in (cut + 1)..Len(r.events) /\ r.events[q].k = "compaction"
       /\ \A j \in (cut + 1)..Len(r.events) : r.events[j].k = "compaction" => j = q
       /\ Folded(g.lines)[At(r.base, q)].n = Canonical(r.base, cut)
  <2>1. Len(r.events) = q
    BY <1>12 DEF q
  <2> QED BY <1>5, <1>9, <1>10, <1>11, <1>12, <2>1 DEF lag
<1>14. /\ Sealable(r, cut) /\ ck.window = Sealed(r.events, cut) /\ ck.start = Canonical(r.base, cut)
  BY DEF cut
<1>15. Covers(ck, Folded(g.lines), g.lines) /\ Reach(ck) = Len(Folded(g.lines))
       /\ Canonical(r.base, Len(r.events)) = Len(Folded(g.lines))
  BY <1>2, <1>12, <1>13, <1>14, SealCovers
<1> QED BY <1>15

--------------------------------------------------------------------------------
(* Where a job owes answers, where it rewinds, and where it owes nothing.         *)
Owing == {"answers", "stepdone", "asking", "tools"}
(* Where a job rewinds (rewind_session), from the tree it brings back to the mark.*)
Marking == {"restore", "dropids", "dropindex", "mark"}
(* Where a job owes no answer: before it asks the model, and all through a rewind.*)
Settled == {"prompt", "compactstart", "top", "steers", "compactmid", "cutoff", "request", "resume"}
           \cup Marking

(* What a job in hand knows of the log: what it owes is what is open.             *)
JobTells(t, s, f) ==
  LET log == Folded(f.lines)
      open == OpenCalls(log)
  IN t.pc \in Opens =>
       /\ s.stamp = f.stamp => Follows(s, f) /\ (t.pc = "mark" \/ Complete(s))
       /\ t.pc \notin {"closing", "finish"} => s.stamp = f.stamp
       /\ t.pc = "meta" <=> f.lines = <<>>
       /\ t.pc \in Owing => Range(t.todo) = open /\ IsInjective(t.todo)
       /\ t.pc = "asking" => Len(t.todo) = 1 /\ t.todo[1].tool = Question
       /\ t.pc \in Settled => open = {}
       /\ t.pc = "begin" => open = {} \/ IsPending(log)
       /\ t.pc = "compactstart" /\ t.job = "say" => s.events # <<>> /\ Last(s.events).k = "user"

(* What a rewind under way knows of its target, the index and the tree.           *)
RewindTells(t, s, ix, now, kept) ==
  /\ t.pc \in Marking => /\ t.cut >= 1 /\ t.cut + 1 \in DOMAIN s.events
                         /\ s.events[t.cut + 1].k = "user" /\ s.events[t.cut + 1].id = t.target
  /\ t.pc = "mark" => s.ckpt = None /\ ix = None
  /\ t.pc = "restore" /\ HasTree(s.events, t.cut) => now \in kept

(* While nobody died, no write failed and nobody owes an answer, nothing but a    *)
(* question is open.                                                              *)
CalmTells ==
  kills = plan.kills /\ faults = plan.faults /\ (\A a \in Actor : turn[a].pc \notin Owing)
    => OpenCalls(Said) = {} \/ IsPending(Said)

(* The second invariant of the session: the log loads, the index covers it, every *)
(* job in hand knows what it owes and where it rewinds, and nothing is left open. *)
SInv ==
  /\ LogTells(file) /\ IndexTells(index, file)
  /\ \A a \in Actor : JobTells(turn[a], sess[a], file) /\ RewindTells(turn[a], sess[a], index, tree, saved)
  /\ CalmTells

(* Who has the session open is alone.                                             *)
LEMMA Alone ==
  ASSUME IInv, NEW a \in Actor, at[a] = "held"
  PROVE  \A b \in Actor : b # a => turn[b].pc \notin Opens \cup {"leave", "deletelog"}
<1>1. \A b \in Actor : b # a => at[b] # "held"
  BY LeaseInvOneOwner DEF IInv, OneOwner
<1>2. \A b \in Actor : HoldFits(b)
  BY ActorIs
<1> QED BY <1>1, <1>2 DEF HoldFits, Opens

(* A step nobody with the session open takes part in.                             *)
LEMMA SaysStay ==
  ASSUME SInv, LogTells(file'), IndexTells(index', file'), CalmTells',
         \A b \in Actor : turn'[b].pc \in Opens =>
            /\ turn'[b] = turn[b] /\ sess'[b] = sess[b] /\ file' = file /\ index' = index
            /\ tree' = tree /\ saved' = saved
  PROVE  SInv'
<1>1. ASSUME NEW b \in Actor
      PROVE /\ JobTells(turn'[b], sess'[b], file')
            /\ RewindTells(turn'[b], sess'[b], index', tree', saved')
  <2>1. CASE turn'[b].pc \in Opens
    <3>1. JobTells(turn[b], sess[b], file) /\ RewindTells(turn[b], sess[b], index, tree, saved)
      BY DEF SInv
    <3> QED BY <2>1, <3>1
  <2>2. CASE turn'[b].pc \notin Opens
    <3>1. turn'[b].pc \notin Marking /\ turn'[b].pc # "mark" /\ turn'[b].pc # "restore"
      BY <2>2 DEF Opens, Marking
    <3> QED BY <2>2, <3>1 DEF JobTells, RewindTells
  <2> QED BY <2>1, <2>2
<1> QED BY <1>1 DEF SInv

(* A step of the one who has it.                                                  *)
LEMMA OwnerMoves ==
  ASSUME IInv, SInv, NEW a \in Actor, at[a] = "held", NEW t, turn' = [turn EXCEPT ![a] = t],
         LogTells(file'), IndexTells(index', file'),
         JobTells(t, sess'[a], file'), RewindTells(t, sess'[a], index', tree', saved'),
         kills' = plan'.kills /\ faults' = plan'.faults /\ t.pc \notin Owing
           => OpenCalls(Folded(file'.lines)) = {} \/ IsPending(Folded(file'.lines))
  PROVE  SInv'
<1>1. DOMAIN turn = Actor
  BY ActorIs
<1>2. turn'[a] = t /\ \A b \in Actor : b # a => turn'[b] = turn[b]
  BY <1>1
<1>3. \A b \in Actor : b # a => turn[b].pc \notin Opens
  BY Alone
<1>4. ASSUME NEW b \in Actor
      PROVE /\ JobTells(turn'[b], sess'[b], file')
            /\ RewindTells(turn'[b], sess'[b], index', tree', saved')
  <2>1. CASE b = a
    BY <1>2, <2>1
  <2>2. CASE b # a
    <3>1. turn'[b].pc \notin Opens
      BY <1>2, <1>3, <2>2
    <3>2. turn'[b].pc \notin Marking /\ turn'[b].pc # "mark" /\ turn'[b].pc # "restore"
      BY <3>1 DEF Opens, Marking
    <3> QED BY <3>1, <3>2 DEF JobTells, RewindTells
  <2> QED BY <2>1, <2>2
<1>5. CalmTells'
  <2>1. (\A b \in Actor : turn'[b].pc \notin Owing) => t.pc \notin Owing
    BY <1>2
  <2> QED BY <2>1 DEF CalmTells, Said
<1> QED BY <1>4, <1>5 DEF SInv

(* What is known of calm before a step, in the same words.                        *)
LEMMA CalmIs ==
  ASSUME IInv, SInv, NEW a \in Actor, at[a] = "held", turn[a].pc \notin Owing,
         kills = plan.kills, faults = plan.faults
  PROVE  OpenCalls(Said) = {} \/ IsPending(Said)
<1>1. \A b \in Actor : b # a => turn[b].pc \notin Owing
  BY Alone DEF Owing, Opens
<1> QED BY <1>1 DEF SInv, CalmTells

(* What a step may say: nothing, or one event that fits behind the log.           *)
Speech ==
  \/ file'.lines = file.lines
  \/ file.lines # <<>> /\ \E y : FitsBehind(y, Said, file.stamp) /\ Folded(file'.lines) = Append(Said, y)

(* A step of it that leaves files and session as they are.                        *)
LEMMA QuietTells ==
  ASSUME IInv, SInv, NEW a \in Actor, at[a] = "held", NEW t, turn' = [turn EXCEPT ![a] = t],
         UNCHANGED logVars, plan' = plan, kills' = kills,
         JobTells(t, sess[a], file), RewindTells(t, sess[a], index, tree', saved'),
         t.pc \notin Owing /\ turn[a].pc \in Owing => OpenCalls(Said) = {} \/ IsPending(Said)
  PROVE  SInv' /\ Speech
<1>1. file' = file /\ index' = index /\ sess' = sess /\ faults' = faults
  BY DEF logVars
<1>2. LogTells(file') /\ IndexTells(index', file')
  BY <1>1 DEF SInv
<1>3. kills' = plan'.kills /\ faults' = plan'.faults /\ t.pc \notin Owing
           => OpenCalls(Folded(file'.lines)) = {} \/ IsPending(Folded(file'.lines))
  <2>1. Folded(file'.lines) = Said
    BY <1>1 DEF Said
  <2> QED BY <1>1, <2>1, CalmIs
<1>4. JobTells(t, sess'[a], file') /\ RewindTells(t, sess'[a], index', tree', saved')
  BY <1>1
<1>5. SInv'
  BY <1>2, <1>3, <1>4, OwnerMoves
<1> QED BY <1>1, <1>5 DEF Speech

--------------------------------------------------------------------------------
(* An event a job may append, but for the calls it finds open.                    *)
Sayable(a, e) ==
  /\ e \in Entry /\ e.k \notin {"meta", "rewind", "invoked"} /\ Plain(e)
  /\ \A c \in CallsOf(e) : c < 10 * (file.stamp + 2)
  /\ CallsOf(e) \cap CallIds(Said) = {} /\ Cardinality(CallsOf(e)) = Len(e.calls)
  /\ e.k = "result" => \E c \in OpenCalls(Said) : c.call = e.call
  /\ e.k = "compaction" =>
       LET z == Canonical(sess[a].base, e.n)
       IN /\ e.n >= 1 /\ z \in 1..Len(Said)
          /\ \A j \in 1..Len(Said) : Said[j].k = "compaction" => j <= z
          /\ z < Len(Said) => WellCut(Said, z)

(* What is known where a job has the session open.                                *)
LEMMA OpenTells ==
  ASSUME IInv, SInv, NEW a \in Actor, turn[a].pc \in Opens \ {"meta"}
  PROVE  /\ FileFits(file) /\ LogTells(file) /\ file.lines # <<>> /\ IndexTells(index, file)
         /\ index \in IndexFile \cup {None} /\ sess[a] \in OpenSession /\ sess[a].tail <= Len(sess[a].events)
         /\ sess[a].stamp = file.stamp => Follows(sess[a], file) /\ (turn[a].pc = "mark" \/ Complete(sess[a]))
         /\ turn[a].pc \notin {"closing", "finish"} => sess[a].stamp = file.stamp
         /\ Said = Folded(file.lines) /\ Said \in Seq(Entry) /\ Valid(Said) /\ Spaced(Said)
         /\ (\A i \in DOMAIN Said : Plain(Said[i])) /\ file.stamp \in Nat /\ sess[a].stamp <= file.stamp
         /\ file.lines \in Seq(Entry) /\ Sound(Said, file.stamp) /\ at[a] = "held"
         /\ Rooted(sess[a].events)
<1>1. HasOpen(a) /\ at[a] = "held"
  BY OpenIs
<1>2. /\ FileFits(file) /\ IndexFits(index, file.stamp) /\ SessionFits(sess[a], file.stamp)
  BY <1>1 DEF HasOpen
<1>3. index \in IndexFile \cup {None} /\ sess[a] \in OpenSession /\ sess[a].tail <= Len(sess[a].events)
      /\ sess[a].stamp <= file.stamp /\ Rooted(sess[a].events)
  BY <1>2 DEF IndexFits, SessionFits
<1>4. LogTells(file) /\ IndexTells(index, file) /\ JobTells(turn[a], sess[a], file)
  BY DEF SInv
<1>5. file.lines # <<>>
  BY <1>4 DEF JobTells
<1>6. /\ Folded(file.lines) \in Seq(Entry) /\ Valid(Folded(file.lines)) /\ Spaced(Folded(file.lines))
      /\ (\A i \in DOMAIN Folded(file.lines) : Plain(Folded(file.lines)[i])) /\ file.stamp \in Nat
      /\ file.lines \in Seq(Entry)
  BY <1>2, <1>4, <1>5, LogIs
<1>7. /\ sess[a].stamp = file.stamp => Follows(sess[a], file) /\ (turn[a].pc = "mark" \/ Complete(sess[a]))
      /\ turn[a].pc \notin {"closing", "finish"} => sess[a].stamp = file.stamp
  BY <1>4 DEF JobTells
<1>8. Sound(Folded(file.lines), file.stamp)
  BY <1>4, <1>5 DEF LogTells
<1> QED BY <1>1, <1>2, <1>3, <1>4, <1>5, <1>6, <1>7, <1>8 DEF Said

(* The line a job may append fits behind the log, and the event it keeps is like  *)
(* that line.                                                                     *)
LEMMA LineFits ==
  ASSUME IInv, SInv, NEW a \in Actor, turn[a].pc \in Opens \ {"meta"}, NEW e, Sayable(a, e), MayAppend(a, e),
         NEW new, new = [e EXCEPT !.id = file.stamp + 1], NEW y, y = CanonicalEvent(a, new)
  PROVE  /\ FitsBehind(y, Said, file.stamp) /\ Alike(sess[a].base, new, y)
         /\ new \in Entry /\ Plain(new) /\ new.k = e.k /\ new.n = e.n
         /\ \A open : OpenAfter(y, open) = OpenAfter(e, open)
<1>1. /\ sess[a] \in OpenSession /\ sess[a].stamp = file.stamp /\ Follows(sess[a], file)
      /\ Said = Folded(file.lines) /\ Said \in Seq(Entry) /\ Valid(Said)
      /\ (\A i \in DOMAIN Said : Plain(Said[i])) /\ file.stamp \in Nat
  BY OpenTells DEF MayAppend
<1>2. e \in Entry /\ e.k \notin {"meta", "rewind", "invoked"} /\ Plain(e)
  BY DEF Sayable
<1> DEFINE n == file.stamp + 1
<1>3. n \in Nat /\ new = [e EXCEPT !.id = n]
  BY <1>1
<1> HIDE DEF n
<1>4. /\ new \in Entry /\ new.k = e.k /\ new.n = e.n
      /\ y \in Entry /\ y.k = e.k
  <2>1. e \in Entry /\ sess[a] \in OpenSession
    BY <1>1, <1>2
  <2> QED BY ONLY <1>3, <2>1, y = CanonicalEvent(a, new), LinesAre
<1>5. /\ new.id = n /\ new.calls = e.calls /\ new.call = e.call /\ new.pics = e.pics
  BY <1>2, <1>3 DEF Entry
<1>6. /\ y.id = n /\ y.calls = e.calls /\ y.call = e.call /\ y.pics = e.pics
      /\ e.k \notin {"compaction", "cutoff"} => y.n = e.n
      /\ e.k = "compaction" => y.n = Canonical(sess[a].base, e.n)
  BY <1>4, <1>5 DEF CanonicalEvent, Entry
<1>7. Alike(sess[a].base, new, y)
  BY <1>4, <1>5, <1>6 DEF Alike, Sayable
<1>8. Plain(new) /\ Plain(y) /\ CallsOf(y) = CallsOf(e)
  BY <1>2, <1>4, <1>5, <1>6 DEF Plain, CallsOf
<1>9. AllowedWhileUnanswered(y) \/ OpenCalls(Said) = {}
  <2>1. SUFFICES ASSUME OpenCalls(Said) # {} PROVE AllowedWhileUnanswered(y)
    OBVIOUS
  <2>2. /\ Shows(sess[a].events, sess[a].base, Said, Len(Said))
        /\ OpenCalls(sess[a].events) = OpenCalls(Said)
    BY <1>1 DEF Follows
  <2>3. sess[a].events \in Seq(Entry) /\ sess[a].base \in Nat
    BY <1>1 DEF OpenSession
  <2>4. HasUnanswered(sess[a].events)
    BY <1>1, <2>1, <2>2, <2>3, OpenIsUnanswered
  <2>5. AllowedWhileUnanswered(e)
    BY <2>4 DEF MayAppend
  <2> QED BY <1>4, <2>5 DEF AllowedWhileUnanswered
<1>10. y.id = file.stamp + 1
  BY <1>6 DEF n
<1>11. y.k = "compaction" =>
         /\ y.n \in 1..Len(Said) /\ \A j \in 1..Len(Said) : Said[j].k = "compaction" => j <= y.n
         /\ y.n < Len(Said) => WellCut(Said, y.n)
  BY <1>4, <1>6 DEF Sayable
<1>12. FitsBehind(y, Said, file.stamp)
  BY <1>2, <1>4, <1>6, <1>8, <1>9, <1>10, <1>11 DEF FitsBehind, Sayable
<1>13. \A open : OpenAfter(y, open) = OpenAfter(e, open)
  BY <1>4, <1>6 DEF OpenAfter
<1> QED BY <1>4, <1>7, <1>8, <1>12, <1>13

(* An append that lands: log, index and session go on together.                   *)
LEMMA AppendSays ==
  ASSUME IInv, SInv, NEW a \in Actor, turn[a].pc \in Opens \ {"meta"}, NEW e, Apt(a, e), Sayable(a, e),
         MayAppend(a, e), Appends(a, e), Complete(sess[a])
  PROVE  /\ LogTells(file') /\ IndexTells(index', file') /\ Follows(sess'[a], file') /\ Complete(sess'[a])
         /\ sess'[a].stamp = file'.stamp /\ file'.lines # <<>> /\ faults' <= faults
         /\ sess'[a].events # <<>> /\ Last(sess'[a].events).k = e.k
         /\ OpenCalls(Folded(file'.lines)) = OpenAfter(e, OpenCalls(Said)) /\ Speech
<1> DEFINE new == [e EXCEPT !.id = file.stamp + 1]
           y == CanonicalEvent(a, new)
           s == sess[a]
           r == [s EXCEPT !.events = Append(@, new), !.stamp = file.stamp + 1]
           n == e.n
<1>1. /\ FileFits(file) /\ LogTells(file) /\ file.lines # <<>> /\ IndexTells(index, file)
      /\ index \in IndexFile \cup {None} /\ s \in OpenSession /\ s.tail <= Len(s.events)
      /\ s.stamp = file.stamp /\ Follows(s, file) /\ Said = Folded(file.lines) /\ file.stamp \in Nat
  BY OpenTells DEF MayAppend
<1>2. /\ FitsBehind(y, Said, file.stamp) /\ Alike(s.base, new, y)
      /\ new \in Entry /\ Plain(new) /\ new.k = e.k /\ new.n = n
      /\ \A open : OpenAfter(y, open) = OpenAfter(e, open)
  <2> HIDE DEF new
  <2>1. new = [e EXCEPT !.id = file.stamp + 1]
    BY DEF new
  <2> QED BY <2>1, LineFits
<1>3. HasOpen(a)
  BY OpenIs
<1>4. LogMoves(a) /\ sess'[a] # None /\ sess'[a].events # <<>>
  BY <1>3, AppendsFit
<1>5. /\ FileFits(file') /\ IndexFits(index', file'.stamp) /\ SessionFits(sess'[a], file'.stamp) /\ faults' \in 0..faults
  BY <1>4 DEF LogMoves
<1>6. /\ file' = [file EXCEPT !.lines = Append(@, y), !.stamp = @ + 1]
      /\ IF e.k = "compaction" THEN Publishes(a, r, n) ELSE Refreshes(a, r)
  BY DEF Appends
<1>7. DOMAIN sess = Actor
  BY DEF IInv, LogFits
<1>8. /\ r.events = Append(s.events, new) /\ r.stamp = file.stamp + 1 /\ r.base = s.base
      /\ r.tail = s.tail /\ r.ckpt = s.ckpt /\ r \in OpenSession
  <2> HIDE DEF new, s
  <2>1. Append(s.events, new) \in Seq(Entry)
    BY <1>1, <1>2, Grown DEF OpenSession
  <2>2. file.stamp + 1 \in Nat
    BY <1>1
  <2> QED BY <1>1, <2>1, <2>2 DEF OpenSession
<1> HIDE DEF r, s, y, new
<1>9. file'.lines = Append(file.lines, y) /\ file'.stamp = file.stamp + 1
  BY <1>1, <1>6 DEF FileFits
<1>10. /\ Folded(file'.lines) = Append(Said, y) /\ file'.lines # <<>> /\ LogTells(file')
       /\ OpenCalls(Folded(file'.lines)) = OpenAfter(y, OpenCalls(Said))
       /\ \A ix \in IndexFile \cup {None} : IndexTells(ix, file) => IndexTells(ix, file')
  BY <1>1, <1>2, <1>9, GrownTells
<1>11. ASSUME NEW q, q.events = r.events, q.base = r.base, q.tail = r.tail,
              \/ s.ckpt = None /\ q.ckpt = None
              \/ /\ s.ckpt # None /\ q.ckpt \in IndexFile /\ q.ckpt.window = s.ckpt.window
                 /\ q.ckpt.start = s.ckpt.start /\ q.ckpt.offset = s.ckpt.offset /\ q.ckpt.known = s.ckpt.known
       PROVE  Follows(q, file')
  <2>1. q.events = Append(s.events, new) /\ q.base = s.base /\ q.tail = s.tail
    BY <1>8, <1>11
  <2> QED BY <1>1, <1>2, <1>9, <1>11, <2>1, GrownFollows
<1>12. Complete(s)
  BY DEF s
<1>13. Follows(r, file') /\ Complete(r)
  <2>1. \/ s.ckpt = None /\ r.ckpt = None
        \/ /\ s.ckpt # None /\ r.ckpt \in IndexFile /\ r.ckpt.window = s.ckpt.window
           /\ r.ckpt.start = s.ckpt.start /\ r.ckpt.offset = s.ckpt.offset /\ r.ckpt.known = s.ckpt.known
    BY <1>1, <1>8 DEF OpenSession
  <2>2. Follows(r, file')
    BY <1>11, <2>1
  <2> QED BY <1>8, <1>12, <2>2 DEF Complete
<1>14. /\ IndexTells(index', file') /\ Follows(sess'[a], file') /\ Complete(sess'[a])
       /\ sess'[a].events = r.events /\ sess'[a].stamp = r.stamp
  <2>1. CASE sess' = [sess EXCEPT ![a] = r] /\ UNCHANGED index
    <3>1. sess'[a] = r
      BY <1>7, <2>1
    <3>2. IndexTells(index', file')
      BY <1>1, <1>10, <2>1
    <3> QED BY <1>13, <3>1, <3>2
  <2>2. CASE /\ e.k = "compaction" /\ Sealable(r, n) /\ index' = Checkpoint(r, n)
             /\ sess' = [sess EXCEPT ![a] = [r EXCEPT !.ckpt = index', !.tail = Len(r.events)]]
    <3> DEFINE ck == index'
               q == [r EXCEPT !.ckpt = ck, !.tail = Len(r.events)]
    <3>1. /\ ck.window = Sealed(r.events, n) /\ ck.start = Canonical(r.base, n)
          /\ ck.offset = Len(file'.lines) /\ ck.known = KnownCalls(r) /\ ck.stamp = file'.stamp /\ ck # None
      <4>2. n \in Nat
        BY <1>2 DEF Entry
      <4>3. SessionFits(r, file'.stamp)
        <5>1. SessionFits(sess'[a], file'.stamp) /\ sess'[a] = q
          BY <1>5, <1>7, <2>2
        <5>2. r.tail <= Len(r.events)
          <6>1. Len(r.events) = Len(s.events) + 1 /\ Len(s.events) \in Nat
            BY <1>1, <1>2, <1>8, Grown DEF OpenSession
          <6>2. s.tail \in Nat
            BY <1>1 DEF OpenSession
          <6> QED BY <1>1, <1>8, <6>1, <6>2
        <5>3. SessionFits(s, file.stamp)
          BY <1>3 DEF HasOpen, s
        <5>4. IndexFits(s.ckpt, file'.stamp)
          <6>1. file.stamp + 1 \in Nat /\ file.stamp <= file.stamp + 1
            BY <1>1
          <6> QED BY <1>1, <1>9, <5>3, <6>1, FitsLater DEF SessionFits
        <5>5. q.events = r.events /\ q.stamp = r.stamp
          BY <1>8 DEF OpenSession
        <5> QED BY <1>8, <5>1, <5>2, <5>4, <5>5 DEF SessionFits
      <4>4. Checkpoint(r, n) \in IndexFile
        <5>1. file'.there
          BY <1>3, <1>6 DEF HasOpen, FileFits
        <5> QED BY <1>5, <2>2, <4>2, <4>3, <5>1, CheckpointsFit
      <4>5. ck \in IndexFile
        BY <2>2, <4>4
      <4>6. ck # None
        BY <4>5, NoneAssumption
      <4> QED BY <2>2, <4>6 DEF Checkpoint
    <3>2. ck \in IndexFile
      BY <1>5, <3>1 DEF IndexFits
    <3>3. sess'[a] = q /\ q.events = r.events /\ q.base = r.base /\ q.ckpt = ck /\ q.tail = Len(r.events)
          /\ q.stamp = r.stamp
      BY <1>7, <1>8, <2>2 DEF OpenSession
    <3> HIDE DEF ck, q
    <3>4. Covers(ck, Folded(file'.lines), file'.lines) /\ Canonical(r.base, Len(r.events)) = Reach(ck)
      <4>1. new.k = "compaction" /\ Sealable(r, new.n) /\ ck.window = Sealed(r.events, new.n)
            /\ ck.start = Canonical(r.base, new.n)
        BY <1>2, <2>2, <3>1
      <4>2. FitsBehind(y, Folded(file.lines), file.stamp)
        BY <1>1, <1>2
      <4>3. GrewBoth(file, file', y, s, r, new)
        BY <1>1, <1>2, <1>5, <1>8, <1>9, <1>12, <4>1, <4>2 DEF GrewBoth
      <4>4. Seals(ck, r, new.n, file')
        BY <3>1, <3>2, <4>1 DEF Seals
      <4> QED BY <4>3, <4>4, GrownSeals
    <3>5. Follows(q, file')
      BY <1>13, <3>3, <3>4 DEF Follows
    <3>6. Complete(q)
      BY <3>1, <3>3 DEF Complete
    <3>7. IndexTells(index', file')
      <4>1. file'.stamp <= file'.stamp
        BY <1>5 DEF FileFits
      <4> QED BY <3>1, <3>4, <4>1 DEF IndexTells, ck
    <3> QED BY <3>3, <3>5, <3>6, <3>7
  <2>3. CASE /\ r.ckpt # None /\ index' = [r.ckpt EXCEPT !.stamp = file'.stamp]
             /\ sess' = [sess EXCEPT ![a] = [r EXCEPT !.ckpt = index']]
    <3> DEFINE ck == index'
               q == [r EXCEPT !.ckpt = ck]
               cs == s.ckpt
    <3>1. r.ckpt = cs /\ cs \in IndexFile
      BY <1>1, <1>8, <2>3 DEF OpenSession
    <3>2. /\ ck.window = cs.window /\ ck.start = cs.start /\ ck.offset = cs.offset /\ ck.known = cs.known
          /\ ck.stamp = file'.stamp /\ ck \in IndexFile
      <4>1. file'.stamp \in Nat
        BY <1>5 DEF FileFits
      <4> HIDE DEF cs
      <4> QED BY <2>3, <3>1, <4>1 DEF IndexFile
    <3>3. sess'[a] = q /\ q.events = r.events /\ q.base = r.base /\ q.ckpt = ck /\ q.tail = r.tail
          /\ q.stamp = r.stamp
      BY <1>7, <1>8, <2>3 DEF OpenSession
    <3>4. ck # None
      BY <3>2, NoneAssumption
    <3> HIDE DEF ck, q
    <3>5. Follows(q, file')
      <4>1. s.ckpt # None
        BY <1>8, <2>3
      <4> HIDE DEF cs
      <4>2. cs = s.ckpt
        BY DEF cs
      <4> QED BY <1>11, <3>2, <3>3, <4>1, <4>2
    <3>6. Complete(q)
      BY <3>3, <3>4 DEF Complete
    <3>7. IndexTells(index', file')
      <4>1. file'.stamp <= file'.stamp
        BY <1>5 DEF FileFits
      <4>2. Covers(ck, Folded(file'.lines), file'.lines)
        BY <3>3, <3>4, <3>5 DEF Follows
      <4> QED BY <3>2, <4>1, <4>2 DEF IndexTells, ck
    <3> QED BY <3>3, <3>5, <3>6, <3>7
  <2> QED BY <1>6, <2>1, <2>2, <2>3 DEF Publishes, Refreshes
<1>15. sess'[a].stamp = file'.stamp
  BY <1>8, <1>9, <1>14
<1>16. Last(sess'[a].events).k = e.k
  <2>1. Len(r.events) = Len(s.events) + 1 /\ r.events[Len(s.events) + 1] = new
    BY <1>1, <1>2, <1>8, Grown DEF OpenSession
  <2> QED BY <1>2, <1>14, <2>1 DEF Last
<1>17. faults' <= faults
  BY <1>3, <1>5 DEF HasOpen
<1>18. Speech
  BY <1>1, <1>2, <1>10 DEF Speech
<1> QED BY <1>2, <1>4, <1>10, <1>14, <1>15, <1>16, <1>17, <1>18

(* A file that changed, but for its lines, tells what it did; an index is now out *)
(* of date.                                                                       *)
LEMMA TornTells ==
  ASSUME NEW f, FileFits(f), LogTells(f), NEW g, g.lines = f.lines, g.stamp \in Nat, f.stamp < g.stamp
  PROVE  /\ LogTells(g)
         /\ \A ix \in IndexFile \cup {None} : IndexTells(ix, f) => IndexTells(ix, g)
<1>1. f.stamp \in Nat /\ f.stamp <= g.stamp
  BY DEF FileFits
<1>2. LogTells(g)
  <2>1. SUFFICES ASSUME f.lines # <<>> PROVE FoldsCleanly(f.lines) /\ Sound(Folded(f.lines), g.stamp)
    BY DEF LogTells
  <2>2. FoldsCleanly(f.lines) /\ Sound(Folded(f.lines), f.stamp) /\ Folded(f.lines) \in Seq(Entry)
    BY <2>1, LogIs DEF LogTells
  <2> QED BY <1>1, <2>2, SoundLater
<1>3. ASSUME NEW ix \in IndexFile \cup {None}, IndexTells(ix, f) PROVE IndexTells(ix, g)
  <2>1. ix # None => ix.stamp \in Nat
    BY DEF IndexFile
  <2>2. ix # None => ix.stamp <= f.stamp
    BY <1>3 DEF IndexTells
  <2> QED BY <1>1, <2>1, <2>2 DEF IndexTells
<1> QED BY <1>2, <1>3

(* An ordinary event is appended only when nothing is open.                       *)
LEMMA OrdinaryWaits ==
  ASSUME IInv, SInv, NEW a \in Actor, turn[a].pc \in Opens \ {"meta"}, NEW e, MayAppend(a, e),
         ~AllowedWhileUnanswered(e)
  PROVE  OpenCalls(Said) = {}
<1>1. /\ sess[a] \in OpenSession /\ sess[a].stamp = file.stamp /\ Follows(sess[a], file)
      /\ Said = Folded(file.lines) /\ Said \in Seq(Entry) /\ Valid(Said)
      /\ (\A i \in DOMAIN Said : Plain(Said[i]))
  BY OpenTells DEF MayAppend
<1>2. /\ Shows(sess[a].events, sess[a].base, Said, Len(Said))
      /\ OpenCalls(sess[a].events) = OpenCalls(Said)
  BY <1>1 DEF Follows
<1>3. sess[a].events \in Seq(Entry) /\ sess[a].base \in Nat
  BY <1>1 DEF OpenSession
<1>4. ~HasUnanswered(sess[a].events)
  BY DEF MayAppend
<1> QED BY <1>1, <1>2, <1>3, <1>4, OpenIsUnanswered

(* An append that fails, or is refused.                                           *)
NotWritten(a, e) ==
  (MayAppend(a, e) /\ AppendFails(a, e)) \/ (~MayAppend(a, e) /\ AppendRefused(a))

(* After it the job closes or leaves.                                             *)
GivesUp(a, e, t) ==
  /\ turn[a].pc \in Opens \ {"meta", "mark"} /\ Sayable(a, e) /\ NotWritten(a, e)
  /\ t.pc \in {"leave", "closing"} /\ turn' = [turn EXCEPT ![a] = t]
  /\ plan' = plan /\ kills' = kills /\ (turn[a].pc \in Owing => e.k = "result")

(* It tells as much as before.                                                    *)
LEMMA FailedSays ==
  ASSUME IInv, SInv, NEW a \in Actor, NEW e, NEW t, GivesUp(a, e, t)
  PROVE  SInv' /\ Speech
<1> DEFINE s == sess[a]
<1>0. /\ turn[a].pc \in Opens \ {"meta", "mark"} /\ Sayable(a, e) /\ NotWritten(a, e)
      /\ t.pc \in {"leave", "closing"} /\ turn' = [turn EXCEPT ![a] = t]
      /\ plan' = plan /\ kills' = kills /\ (turn[a].pc \in Owing => e.k = "result")
  BY DEF GivesUp
<1>1. /\ FileFits(file) /\ LogTells(file) /\ file.lines # <<>> /\ IndexTells(index, file)
      /\ index \in IndexFile \cup {None} /\ s \in OpenSession
      /\ (s.stamp = file.stamp => Follows(s, file) /\ Complete(s))
      /\ (turn[a].pc \notin {"closing", "finish"} => s.stamp = file.stamp)
      /\ Said = Folded(file.lines) /\ file.stamp \in Nat /\ s.stamp <= file.stamp /\ at[a] = "held"
  BY <1>0, OpenTells
<1>2. t.pc \notin Owing /\ t.pc \notin Settled /\ t.pc \notin Marking /\ t.pc \notin {"meta", "begin", "asking", "compactstart", "mark", "restore"}
  BY <1>0 DEF Owing, Settled, Marking
<1>3. \A r, ix, now, kept : RewindTells(t, r, ix, now, kept)
  BY <1>2 DEF RewindTells
<1>4. ASSUME NEW f, f.lines # <<>>, NEW r, r.stamp = f.stamp => Follows(r, f) /\ Complete(r)
      PROVE JobTells(t, r, f)
  BY <1>0, <1>2, <1>4 DEF JobTells, Opens
<1>5. ASSUME MayAppend(a, e), AppendFails(a, e) PROVE SInv' /\ Speech
  <2>1. ~(faults' = plan'.faults) /\ index' = index /\ sess' = sess
    <3>1. plan \in Plans /\ faults \in 0..plan.faults
      BY DEF IInv, RestFits
    <3>2. plan.faults \in Nat
      BY <3>1, PlansAssumption
    <3> QED BY <1>0, <1>5, <3>1, <3>2 DEF AppendFails, Fails
  <2> DEFINE new == [e EXCEPT !.id = file.stamp + 1]
             y == CanonicalEvent(a, new)
  <2>2. FitsBehind(y, Said, file.stamp)
    <3> HIDE DEF new
    <3>1. new = [e EXCEPT !.id = file.stamp + 1]
      BY DEF new
    <3> QED BY <1>0, <1>5, <3>1, LineFits
  <2> HIDE DEF y, new
  <2>3. \/ file' = file
        \/ file'.lines = file.lines /\ file'.stamp = file.stamp + 1
        \/ file'.lines = Append(file.lines, y) /\ file'.stamp = file.stamp + 1
    BY <1>1, <1>5 DEF AppendFails, FileFits, y, new
  <2>4. CASE file' = file
    <3>1. JobTells(t, sess'[a], file')
      BY <1>1, <1>4, <2>1, <2>4
    <3>2. SInv'
      BY <1>1, <1>3, <2>1, <2>4, <3>1, <1>0, OwnerMoves
    <3> QED BY <2>4, <3>2 DEF Speech
  <2>5. CASE file'.lines = file.lines /\ file'.stamp = file.stamp + 1
    <3>1. file'.stamp \in Nat /\ file.stamp < file'.stamp /\ s.stamp # file'.stamp
      BY <1>1, <2>5 DEF OpenSession
    <3>2. LogTells(file') /\ IndexTells(index', file')
      BY <1>1, <2>1, <2>5, <3>1, TornTells
    <3>3. JobTells(t, sess'[a], file')
      BY <1>1, <1>4, <2>1, <2>5, <3>1
    <3>4. SInv'
      BY <1>1, <1>3, <2>1, <3>2, <3>3, <1>0, OwnerMoves
    <3> QED BY <2>5, <3>4 DEF Speech
  <2>6. CASE file'.lines = Append(file.lines, y) /\ file'.stamp = file.stamp + 1
    <3>1. s.stamp # file'.stamp
      BY <1>1, <2>6 DEF OpenSession
    <3>2. LogTells(file') /\ IndexTells(index', file') /\ file'.lines # <<>>
          /\ Folded(file'.lines) = Append(Said, y)
      BY <1>1, <2>1, <2>2, <2>6, GrownTells
    <3>3. JobTells(t, sess'[a], file')
      BY <1>4, <2>1, <3>1, <3>2
    <3>4. SInv'
      BY <1>1, <1>3, <2>1, <3>2, <3>3, <1>0, OwnerMoves
    <3> QED BY <1>1, <2>2, <3>2, <3>4 DEF Speech
  <2> QED BY <2>3, <2>4, <2>5, <2>6
<1>6. ASSUME ~MayAppend(a, e), AppendRefused(a) PROVE SInv' /\ Speech
  <2>1. file' = file /\ index' = index /\ faults' = faults
    BY <1>6 DEF AppendRefused
  <2>2. turn[a].pc \notin Owing
    <3>1. SUFFICES ASSUME turn[a].pc \in Owing PROVE FALSE
      OBVIOUS
    <3>2. e.k = "result" /\ s.stamp = file.stamp
      BY <1>0, <1>1, <3>1 DEF Owing
    <3> QED BY <1>0, <1>6, <3>2 DEF MayAppend, AllowedWhileUnanswered
  <2>3. DOMAIN sess = Actor
    BY DEF IInv, LogFits
  <2>4. /\ sess'[a].events = s.events /\ sess'[a].base = s.base /\ sess'[a].stamp = s.stamp
        /\ sess'[a].tail = s.tail /\ (s.stamp = file.stamp => sess'[a].ckpt = s.ckpt)
    BY <1>0, <1>1, <1>6, <2>3 DEF AppendRefused, OpenSession
  <2>5. sess'[a].stamp = file.stamp => Follows(sess'[a], file) /\ Complete(sess'[a])
    BY <1>1, <2>4 DEF Follows, Complete
  <2>6. JobTells(t, sess'[a], file')
    BY <1>1, <1>4, <2>1, <2>5
  <2>7. kills' = plan'.kills /\ faults' = plan'.faults
           => OpenCalls(Folded(file'.lines)) = {} \/ IsPending(Folded(file'.lines))
    BY <1>0, <1>1, <2>1, <2>2, CalmIs
  <2>8. SInv'
    BY <1>1, <1>3, <2>1, <2>6, <2>7, <1>0, OwnerMoves
  <2> QED BY <2>1, <2>8 DEF Speech
<1> QED BY <1>0, <1>5, <1>6 DEF NotWritten

(* One append of a job, and what it may say of where the job goes.                *)
Writing(a, e, done, failed) ==
  /\ turn[a].pc \in Opens \ {"meta", "mark"} /\ Apt(a, e) /\ Sayable(a, e) /\ Writes(a, e, done, failed)
  /\ failed.pc \in {"leave", "closing"} /\ done.pc \notin {"meta", "asking"} \cup Marking
  /\ plan' = plan /\ kills' = kills /\ (turn[a].pc \in Owing => e.k = "result")
  /\ MayAppend(a, e) => IF done.pc \in Owing
                        THEN Range(done.todo) = OpenAfter(e, OpenCalls(Said)) /\ IsInjective(done.todo)
                        ELSE OpenAfter(e, OpenCalls(Said)) = {}
  /\ done.pc = "compactstart" /\ done.job = "say" => e.k = "user"

(* Whatever becomes of it, it tells.                                              *)
LEMMA WriteSays ==
  ASSUME IInv, SInv, NEW a \in Actor, NEW e, NEW done, NEW failed, Writing(a, e, done, failed)
  PROVE  SInv' /\ Speech
<1>0. /\ turn[a].pc \in Opens /\ turn[a].pc \notin {"meta", "mark"} /\ Apt(a, e) /\ Sayable(a, e)
      /\ failed.pc \in {"leave", "closing"} /\ done.pc \notin {"meta", "asking"} \cup Marking
      /\ plan' = plan /\ kills' = kills /\ (turn[a].pc \in Owing => e.k = "result")
  BY DEF Writing
<1>1. CASE MayAppend(a, e) /\ Appends(a, e) /\ turn' = [turn EXCEPT ![a] = done]
  <2>1. Complete(sess[a]) /\ at[a] = "held"
    BY <1>0, <1>1, OpenTells DEF MayAppend
  <2>2. /\ LogTells(file') /\ IndexTells(index', file') /\ Follows(sess'[a], file') /\ Complete(sess'[a])
        /\ sess'[a].stamp = file'.stamp /\ file'.lines # <<>>
        /\ sess'[a].events # <<>> /\ Last(sess'[a].events).k = e.k
        /\ OpenCalls(Folded(file'.lines)) = OpenAfter(e, OpenCalls(Said)) /\ Speech
    BY <1>0, <1>1, <2>1, AppendSays
  <2>3. done.pc \notin Owing => OpenCalls(Folded(file'.lines)) = {}
    BY <1>1, <2>2 DEF Writing
  <2>4. JobTells(done, sess'[a], file')
    <3>1. done.pc \in Settled \/ done.pc = "begin" => done.pc \notin Owing
      BY DEF Settled, Owing, Marking
    <3>2. done.pc \in Owing => Range(done.todo) = OpenCalls(Folded(file'.lines)) /\ IsInjective(done.todo)
      BY <1>1, <2>2 DEF Writing
    <3>3. done.pc = "compactstart" /\ done.job = "say" => Last(sess'[a].events).k = "user"
      BY <2>2 DEF Writing
    <3> QED BY <1>0, <1>1, <2>2, <2>3, <3>1, <3>2, <3>3 DEF JobTells
  <2>5. RewindTells(done, sess'[a], index', tree', saved')
    BY <1>0 DEF RewindTells, Marking
  <2>6. SInv'
    BY <1>0, <1>1, <2>1, <2>2, <2>3, <2>4, <2>5, OwnerMoves
  <2> QED BY <2>2, <2>6
<1>2. CASE NotWritten(a, e) /\ turn' = [turn EXCEPT ![a] = failed]
  <2>1. GivesUp(a, e, failed)
    BY <1>0, <1>2 DEF GivesUp
  <2> QED BY <2>1, FailedSays
<1> QED BY <1>1, <1>2 DEF Writes, NotWritten, Writing

(* A job's calls are those of the log.                                            *)
LEMMA SessionKnows ==
  ASSUME IInv, SInv, NEW a \in Actor, turn[a].pc \in Opens \ {"meta", "mark"}, sess[a].stamp = file.stamp
  PROVE  \A c : ContainsCall(a, c) <=> c \in CallIds(Said)
<1> DEFINE s == sess[a]
           w == s.events
           rest == SubSeq(w, s.tail + 1, Len(w))
<1>1. /\ FileFits(file) /\ LogTells(file) /\ s \in OpenSession /\ s.tail <= Len(w)
      /\ Follows(s, file) /\ Complete(s) /\ Said = Folded(file.lines) /\ Said \in Seq(Entry)
  BY OpenTells
<1>2. Knows(KnownCalls(s), Said, Len(Said))
  BY <1>1, KnownHere
<1>3. /\ w \in Seq(Entry) /\ s.tail \in Nat /\ s.base \in Nat /\ Len(w) \in Nat /\ DOMAIN w = 1..Len(w)
      /\ DOMAIN Said = 1..Len(Said)
  BY <1>1, LenProperties DEF OpenSession
<1>4. Shows(w, s.base, Said, Len(Said))
  BY <1>1 DEF Follows
<1> HIDE DEF s, w
<1>5. ASSUME NEW c \in CallIds(w) PROVE c \in CallIds(Said)
  <2>1. PICK i \in 1..Len(w) : c \in CallsOf(w[i])
    BY <1>3 DEF CallIds
  <2>2. At(s.base, i) \in 1..Len(Said) /\ w[i].calls = Said[At(s.base, i)].calls
    BY <1>1, <1>3, <1>4, ShownAre DEF Alike
  <2>3. c \in CallsOf(Said[At(s.base, i)])
    BY <2>1, <2>2 DEF CallsOf
  <2> QED BY <1>3, <2>2, <2>3 DEF CallIds
<1>6. CallIds(rest) \subseteq CallIds(w)
  <2>1. ASSUME NEW i \in DOMAIN rest PROVE s.tail + i \in DOMAIN w /\ rest[i] = w[s.tail + i]
    <3>1. w \in Seq(Entry) /\ s.tail \in 0..Len(w) /\ rest = SubSeq(w, s.tail + 1, Len(w))
      BY <1>1, <1>3 DEF w
    <3> HIDE DEF rest
    <3>2. DOMAIN rest = 1..(Len(w) - s.tail) /\ \A j \in 1..(Len(w) - s.tail) : rest[j] = w[s.tail + j]
      BY <3>1, RestIs
    <3> QED BY <1>3, <3>1, <3>2
  <2> QED BY <2>1 DEF CallIds
<1>7. \A c : c \in KnownCalls(s) <=> c \in CallIds(Said)
  BY <1>2, <1>3 DEF Knows, CallIds
<1>8. \A c : ContainsCall(a, c) <=> c \in CallIds(w) \/ (s.ckpt # None /\ c \in s.ckpt.known)
  BY DEF ContainsCall, s, w
<1>9. KnownCalls(s) = (IF s.ckpt = None THEN {} ELSE s.ckpt.known) \cup CallIds(rest)
  BY DEF KnownCalls, w, rest
<1> HIDE DEF rest
<1> QED BY <1>5, <1>6, <1>7, <1>8, <1>9

(* The forms of an event without calls that answers none.                         *)
LEMMA FormsAre ==
  ASSUME NEW k \in Kinds
  PROVE  /\ Event(k).call = 0
         /\ \A n : [Event(k) EXCEPT !.n = n].calls = <<>> /\ [Event(k) EXCEPT !.n = n].call = 0
         /\ \A p : [Event(k) EXCEPT !.pics = p].calls = <<>> /\ [Event(k) EXCEPT !.pics = p].call = 0
BY DEF Event

(* An ordinary event without calls.                                               *)
LEMMA OrdinarySays ==
  ASSUME IInv, SInv, NEW a \in Actor, turn[a].pc \in Opens \ {"meta"},
         NEW e \in Entry, e.k \in {"user", "tree", "cutoff", "finished"}, e.calls = <<>>, e.call = 0
  PROVE  /\ Sayable(a, e)
         /\ MayAppend(a, e) => OpenCalls(Said) = {} /\ OpenAfter(e, OpenCalls(Said)) = {}
<1>1. CallsOf(e) = {}
  BY DEF CallsOf
<1>2. Sayable(a, e)
  <2>1. Plain(e)
    BY <1>1 DEF Plain
  <2>2. Cardinality(CallsOf(e)) = Len(e.calls)
    BY <1>1, FS_EmptySet, EmptySeq
  <2> QED BY <1>1, <2>1, <2>2 DEF Sayable
<1>3. ~AllowedWhileUnanswered(e)
  BY DEF AllowedWhileUnanswered
<1>4. Range(e.calls) = {}
  BY DEF Range
<1> QED BY <1>2, <1>3, <1>4, OrdinaryWaits DEF OpenAfter

(* The answer of an open call.                                                    *)
LEMMA AnswerSays ==
  ASSUME NEW a \in Actor, NEW c \in OpenCalls(Said), NEW e \in Entry, e.k = "result", e.calls = <<>>,
         e.call = c.call
  PROVE  Sayable(a, e) /\ \A open : OpenAfter(e, open) = {d \in open : d.call # c.call}
<1>1. CallsOf(e) = {}
  BY DEF CallsOf
<1>2. Plain(e) /\ Cardinality(CallsOf(e)) = Len(e.calls)
  BY <1>1, FS_EmptySet, EmptySeq DEF Plain
<1> QED BY <1>1, <1>2 DEF Sayable, OpenAfter

(* A message of the provider.                                                     *)
LEMMA MessageSays ==
  ASSUME IInv, SInv, NEW a \in Actor, turn[a].pc = "request", NEW tools \in Seq(Tools), Len(tools) <= 2
  PROVE  LET m == Message(a, tools)
         IN /\ Sayable(a, m) /\ m \in Entry /\ m.k = "asst" /\ m.calls \in Seq(Call) /\ IsInjective(m.calls)
            /\ Len(m.calls) = Len(tools)
            /\ MayAppend(a, m) => OpenAfter(m, OpenCalls(Said)) = Range(m.calls)
<1> DEFINE m == Message(a, tools)
<1>1. turn[a].pc \in Opens \ {"meta", "mark"} /\ turn[a].pc \notin {"closing", "finish"} /\ turn[a].pc \in Opens \ {"meta"}
  BY DEF Opens
<1>2. /\ FileFits(file) /\ sess[a].stamp = file.stamp /\ Sound(Said, file.stamp) /\ Said \in Seq(Entry)
  BY <1>1, OpenTells
<1>3. \A c : ContainsCall(a, c) <=> c \in CallIds(Said)
  BY <1>1, <1>2, SessionKnows
<1>4. \A c \in CallIds(Said) : c \in Nat /\ c < 10 * (file.stamp + 1)
  <2>1. \A c \in CallIds(Said) : c \in Nat
    BY <1>2, CallIdsAre
  <2> QED BY <1>2, <2>1 DEF CallIds, Sound, Numbered
<1> DEFINE known == CallIds(Said)
<1>5. /\ m \in Entry /\ m.k = "asst" /\ m.call = 0 /\ m.n = 0 /\ m.calls \in Seq(Call)
      /\ CallsOf(m) \cap known = {} /\ Cardinality(CallsOf(m)) = Len(m.calls)
      /\ 0 \notin CallsOf(m) /\ (\A c \in CallsOf(m) : c < 10 * (file.stamp + 2))
      /\ Len(m.calls) = Len(tools)
  <2>1. \A c : ContainsCall(a, c) <=> c \in known
    BY <1>3
  <2>2. \A c \in known : c \in Nat /\ c < 10 * (file.stamp + 1)
    BY <1>4
  <2> HIDE DEF known, m
  <2>3. LET r == Message(a, tools)
         IN /\ r \in Entry /\ r.k = "asst" /\ r.call = 0 /\ r.n = 0 /\ r.calls \in Seq(Call)
            /\ CallsOf(r) \cap known = {} /\ Cardinality(CallsOf(r)) = Len(r.calls)
            /\ 0 \notin CallsOf(r) /\ \A c \in CallsOf(r) : c < 10 * (file.stamp + 2)
            /\ Len(r.calls) = Len(tools)
    BY <1>2, <2>1, <2>2, CallsFresh
  <2> QED BY <2>3 DEF m
<1> HIDE DEF m
<1>6. Sayable(a, m)
  <2>1. Plain(m)
    BY <1>5 DEF Plain
  <2> QED BY <1>5, <2>1 DEF Sayable
<1>7. IsInjective(m.calls)
  <2>1. Cardinality({m.calls[i].call : i \in DOMAIN m.calls}) = Len(m.calls)
    BY <1>5 DEF CallsOf
  <2> QED BY <1>5, <2>1, CallsDiffer
<1>8. MayAppend(a, m) => OpenCalls(Said) = {}
  <2>1. ~AllowedWhileUnanswered(m)
    BY <1>5 DEF AllowedWhileUnanswered
  <2> QED BY <1>1, <2>1, OrdinaryWaits
<1>9. MayAppend(a, m) => OpenAfter(m, OpenCalls(Said)) = Range(m.calls)
  BY <1>5, <1>8 DEF OpenAfter
<1> QED BY <1>5, <1>6, <1>7, <1>9 DEF m

(* Where a job goes with calls to answer.                                         *)
LEMMA AnsweringIs ==
  ASSUME NEW t, t \in TurnOf(t.target), NEW todo \in Seq(Call), NEW next \in Nexts
  PROVE  LET r == Answering(t, todo, next)
         IN /\ r.todo = todo /\ r.job = t.job /\ r.cut = t.cut /\ r.target = t.target
            /\ r.pc = IF todo = <<>> THEN next ELSE "answers"
<1> DEFINE r == Answering(t, todo, next)
<1> HIDE DEF r
<1>1. r = IF todo = <<>> THEN [t EXCEPT !.todo = <<>>, !.pc = next]
          ELSE [t EXCEPT !.todo = todo, !.pc = "answers", !.next = next]
  BY DEF r, Answering
<1>2. /\ r.todo = todo /\ r.job = t.job /\ r.cut = t.cut /\ r.target = t.target
      /\ r.pc = IF todo = <<>> THEN next ELSE "answers"
  BY <1>1 DEF TurnOf
<1> QED BY <1>2 DEF r

(* What a job that answers its calls then owes.                                   *)
LEMMA AnsweringOwes ==
  ASSUME NEW todo \in Seq(Call), NEW next \in Nexts, NEW r, r.todo = todo,
         r.pc = IF todo = <<>> THEN next ELSE "answers", NEW open, open = Range(todo), IsInjective(todo)
  PROVE  /\ IF r.pc \in Owing THEN Range(r.todo) = open /\ IsInjective(r.todo) ELSE open = {}
         /\ r.pc \notin {"meta", "asking", "compactstart"} \cup Marking
<1>1. CASE todo = <<>>
  BY <1>1 DEF Nexts, Owing, Marking, Range
<1>2. CASE todo # <<>>
  BY <1>2 DEF Owing, Marking
<1> QED BY <1>1, <1>2

--------------------------------------------------------------------------------
(* What a job that goes on has kept.                                              *)
LEMMA ToIs ==
  ASSUME IInv, NEW a \in Actor, NEW pc, NEW t, t = To(a, pc)
  PROVE  /\ t.pc = pc /\ t.todo = turn[a].todo /\ t.job = turn[a].job /\ t.cut = turn[a].cut
         /\ t.target = turn[a].target /\ turn[a] \in TurnOf(turn[a].target)
<1>1. turn[a] \in TurnOf(turn[a].target)
  BY ActorIs DEF TurnFits
<1>2. t = [turn[a] EXCEPT !.pc = pc]
  BY DEF To
<1> QED BY <1>1, <1>2 DEF TurnOf

(* What the log says to a job that has it open.                                   *)
LEMMA HereIs ==
  ASSUME IInv, SInv, NEW a \in Actor, turn[a].pc \in Opens \ {"meta"}
  PROVE  /\ sess[a].stamp = file.stamp =>
              /\ OpenCalls(sess[a].events) = OpenCalls(Said) /\ (IsPending(sess[a].events) <=> IsPending(Said))
              /\ Follows(sess[a], file) /\ (turn[a].pc = "mark" \/ Complete(sess[a]))
         /\ turn[a].pc \notin {"closing", "finish"} => sess[a].stamp = file.stamp
         /\ turn[a].pc \in Owing => Range(turn[a].todo) = OpenCalls(Said) /\ IsInjective(turn[a].todo)
         /\ turn[a].pc = "asking" => Len(turn[a].todo) = 1 /\ turn[a].todo[1].tool = Question
         /\ turn[a].pc \in Settled => OpenCalls(Said) = {}
         /\ turn[a].pc = "begin" => OpenCalls(Said) = {} \/ IsPending(Said)
         /\ turn[a].pc = "compactstart" /\ turn[a].job = "say"
              => sess[a].events # <<>> /\ Last(sess[a].events).k = "user"
         /\ RewindTells(turn[a], sess[a], index, tree, saved)
<1>1. JobTells(turn[a], sess[a], file) /\ RewindTells(turn[a], sess[a], index, tree, saved)
  BY DEF SInv
<1>2. Said = Folded(file.lines)
  BY DEF Said
<1>3. sess[a].stamp = file.stamp => OpenCalls(sess[a].events) = OpenCalls(Said)
  BY <1>1, <1>2 DEF JobTells, Follows
<1> QED BY <1>1, <1>2, <1>3 DEF JobTells, IsPending

(* A step that writes nothing, and what it must know of where it goes.            *)
Quiet(a, t) ==
  /\ turn[a].pc \in Opens \ {"meta", "mark"} /\ turn' = [turn EXCEPT ![a] = t] /\ UNCHANGED logVars
  /\ plan' = plan /\ kills' = kills
  /\ t.pc \notin {"meta", "begin", "mark"}
  /\ t.pc \in {"closing", "finish"} \/ t.pc \notin Opens \/ turn[a].pc \notin {"closing", "finish"}
  /\ t.pc \in Owing => Range(t.todo) = OpenCalls(Said) /\ IsInjective(t.todo)
  /\ t.pc = "asking" => Len(t.todo) = 1 /\ t.todo[1].tool = Question
  /\ t.pc \in Settled => OpenCalls(Said) = {}
  /\ ~(t.pc = "compactstart" /\ t.job = "say")
  /\ RewindTells(t, sess[a], index, tree', saved')
  /\ t.pc \notin Owing /\ turn[a].pc \in Owing => OpenCalls(Said) = {} \/ IsPending(Said)

(* It tells as much as before.                                                    *)
LEMMA QuietSays ==
  ASSUME IInv, SInv, NEW a \in Actor, NEW t, Quiet(a, t)
  PROVE  SInv' /\ Speech
<1>1. /\ turn[a].pc \in Opens /\ turn[a].pc # "meta" /\ turn[a].pc # "mark"
  BY DEF Quiet
<1>2. /\ sess[a].stamp = file.stamp => Follows(sess[a], file) /\ (turn[a].pc = "mark" \/ Complete(sess[a]))
      /\ turn[a].pc \notin {"closing", "finish"} => sess[a].stamp = file.stamp
  BY <1>1, HereIs
<1>3. file.lines # <<>> /\ at[a] = "held" /\ Said = Folded(file.lines)
  BY <1>1, OpenTells
<1>4. JobTells(t, sess[a], file)
  <2>1. /\ t.pc \notin {"meta", "begin", "mark"}
        /\ t.pc \in {"closing", "finish"} \/ t.pc \notin Opens \/ turn[a].pc \notin {"closing", "finish"}
        /\ t.pc \in Owing => Range(t.todo) = OpenCalls(Said) /\ IsInjective(t.todo)
        /\ t.pc = "asking" => Len(t.todo) = 1 /\ t.todo[1].tool = Question
        /\ t.pc \in Settled => OpenCalls(Said) = {}
        /\ ~(t.pc = "compactstart" /\ t.job = "say")
    BY DEF Quiet
  <2> QED BY <1>1, <1>2, <1>3, <2>1 DEF JobTells
<1> QED BY <1>3, <1>4, QuietTells DEF Quiet

(* One append of an ordinary event without calls, and where the job goes.         *)
Ordinary(a, e, done, failed) ==
  /\ turn[a].pc \in Opens \ {"meta", "mark"} /\ turn[a].pc \notin Owing
  /\ e \in Entry /\ e.k \in {"user", "tree", "cutoff", "finished"} /\ e.calls = <<>> /\ e.call = 0
  /\ (e.k = "tree" => e.n <= file.stamp) /\ Writes(a, e, done, failed)
  /\ failed.pc \in {"leave", "closing"} /\ done.pc \notin {"meta"} \cup Marking \cup Owing
  /\ plan' = plan /\ kills' = kills
  /\ done.pc = "compactstart" /\ done.job = "say" => e.k = "user"

(* It tells.                                                                      *)
LEMMA OrdinaryTells ==
  ASSUME IInv, SInv, NEW a \in Actor, NEW e, NEW done, NEW failed, Ordinary(a, e, done, failed)
  PROVE  SInv' /\ Speech
<1>1. /\ turn[a].pc \in Opens \ {"meta"} /\ turn[a].pc \notin Owing
      /\ e \in Entry /\ e.k \in {"user", "tree", "cutoff", "finished"} /\ e.calls = <<>> /\ e.call = 0
      /\ done.pc \notin Owing /\ done.pc # "asking"
  BY DEF Ordinary, Owing
<1>2. Sayable(a, e) /\ (MayAppend(a, e) => OpenAfter(e, OpenCalls(Said)) = {})
  BY <1>1, OrdinarySays
<1>3. Apt(a, e)
  <2>1. sess[a].events # <<>>
    BY <1>1, OpenIs
  <2> QED BY <2>1 DEF Ordinary, Apt
<1>4. Writing(a, e, done, failed)
  BY <1>1, <1>2, <1>3 DEF Ordinary, Writing
<1> QED BY <1>4, WriteSays

(* The rest of what an owner's step leaves alone.                                 *)
LEMMA RestIsAlone ==
  ASSUME UNCHANGED restVars
  PROVE  plan' = plan /\ kills' = kills /\ tree' = tree /\ saved' = saved
BY DEF restVars, treeVars

(* A rewind under way is in its own steps only.                                   *)
LEMMA Unmarked ==
  ASSUME NEW t, t.pc \notin Marking
  PROVE  \A s, ix, now, kept : RewindTells(t, s, ix, now, kept)
BY DEF RewindTells, Marking

(* The first of some calls, and the rest.                                         *)
LEMMA TailAre ==
  ASSUME NEW q \in Seq(Call), q # <<>>, IsInjective(q)
  PROVE  /\ Tail(q) \in Seq(Call) /\ IsInjective(Tail(q)) /\ Head(q) = q[1] /\ Head(q) \in Range(q)
         /\ Head(q) \in Call /\ Range(Tail(q)) = Range(q) \ {Head(q)} /\ Len(Tail(q)) = Len(q) - 1
         /\ Len(q) \in Nat /\ Len(q) >= 1
<1> DEFINE n == Len(q)
           r == Tail(q)
<1>1. /\ n \in Nat /\ n >= 1 /\ DOMAIN q = 1..n /\ r \in Seq(Call) /\ Len(r) = n - 1 /\ DOMAIN r = 1..(n - 1)
      /\ Head(q) = q[1] /\ Head(q) \in Call /\ \A i \in 1..(n - 1) : r[i] = q[i + 1]
  BY HeadTailProperties, LenProperties, EmptySeq
<1> HIDE DEF n, r
<1>2. \A i, j \in 1..n : q[i] = q[j] => i = j
  BY <1>1 DEF IsInjective
<1>3. IsInjective(r)
  <2>1. ASSUME NEW i \in 1..(n - 1), NEW j \in 1..(n - 1), r[i] = r[j] PROVE i = j
    <3>1. i + 1 \in 1..n /\ j + 1 \in 1..n /\ q[i + 1] = q[j + 1]
      BY <1>1, <2>1
    <3>2. i + 1 = j + 1
      BY <1>2, <3>1
    <3> QED BY <3>2
  <2> QED BY <1>1, <2>1 DEF IsInjective
<1>4. Head(q) \in Range(q)
  BY <1>1 DEF Range
<1>5. Range(r) = Range(q) \ {Head(q)}
  <2>1. ASSUME NEW x \in Range(r) PROVE x \in Range(q) \ {Head(q)}
    <3>1. PICK i \in 1..(n - 1) : x = r[i]
      BY <1>1, <2>1 DEF Range
    <3>2. i + 1 \in 1..n /\ x = q[i + 1] /\ i + 1 # 1 /\ 1 \in 1..n
      BY <1>1, <3>1
    <3>3. x # q[1]
      BY <1>2, <3>2
    <3> QED BY <1>1, <3>2, <3>3 DEF Range
  <2>2. ASSUME NEW x \in Range(q) \ {Head(q)} PROVE x \in Range(r)
    <3>1. PICK i \in 1..n : x = q[i]
      BY <1>1, <2>2 DEF Range
    <3>2. i # 1
      BY <1>1, <2>2, <3>1
    <3>3. i - 1 \in 1..(n - 1) /\ (i - 1) + 1 = i
      BY <1>1, <3>2
    <3>4. r[i - 1] = x
      BY <1>1, <3>1, <3>3
    <3> QED BY <1>1, <3>3, <3>4 DEF Range
  <2> QED BY <2>1, <2>2
<1> QED BY <1>1, <1>3, <1>4, <1>5 DEF n, r

--------------------------------------------------------------------------------
(* A loaded session that is refused.                                              *)
LEMMA BeginRefusedTells ==
  ASSUME IInv, SInv, NEW a \in Actor, BeginRefused(a)
  PROVE  SInv' /\ Speech
<1> DEFINE t == To(a, "leave")
<1>1. turn[a].pc = "begin" /\ turn' = [turn EXCEPT ![a] = t] /\ UNCHANGED logVars /\ UNCHANGED restVars
  BY DEF BeginRefused, Moves
<1>2. t.pc = "leave"
  BY ToIs
<1> HIDE DEF t
<1>3. Quiet(a, t)
  <2>1. turn[a].pc \in Opens \ {"meta", "mark"} /\ t.pc \notin Owing /\ t.pc \notin Settled /\ t.pc \notin Opens
        /\ turn[a].pc \notin Owing /\ t.pc \notin Marking
    BY <1>1, <1>2 DEF Opens, Owing, Settled, Marking
  <2> QED BY <1>1, <1>2, <2>1, RestIsAlone, Unmarked DEF Quiet
<1> QED BY <1>3, QuietSays

(* What a job that is not refused has found.                                      *)
LEMMA BegunIs ==
  ASSUME IInv, SInv, NEW a \in Actor, turn[a].pc = "begin", ~Refuses(a), turn[a].job \in Jobs
  PROVE  /\ turn[a].job = "answer" => IsPending(Said) /\ IsPending(sess[a].events)
         /\ turn[a].job # "answer" => OpenCalls(Said) = {}
<1>1. turn[a].pc \in Opens \ {"meta"} /\ turn[a].pc \notin {"closing", "finish"}
  BY DEF Opens
<1>2. /\ sess[a].stamp = file.stamp /\ OpenCalls(sess[a].events) = OpenCalls(Said)
      /\ (IsPending(sess[a].events) <=> IsPending(Said)) /\ Follows(sess[a], file)
      /\ OpenCalls(Said) = {} \/ IsPending(Said)
  BY <1>1, HereIs
<1>3. turn[a].job \in Turns \cup {"compact", "rewind"}
  BY <1>1, ActorIs DEF TurnFits
<1>4. CASE turn[a].job \in {"say", "continue", "answer", "rewind"}
  BY <1>2, <1>4 DEF Refuses
<1>5. CASE turn[a].job = "compact"
  <2>1. ~HasUnanswered(sess[a].events)
    BY <1>5 DEF Refuses
  <2>2. OpenCalls(sess[a].events) = {}
    <3>1. /\ Said \in Seq(Entry) /\ Valid(Said) /\ (\A i \in DOMAIN Said : Plain(Said[i]))
          /\ sess[a] \in OpenSession /\ Said = Folded(file.lines)
      BY <1>1, OpenTells
    <3>2. sess[a].events \in Seq(Entry) /\ sess[a].base \in Nat
          /\ Shows(sess[a].events, sess[a].base, Said, Len(Said))
      BY <1>2, <3>1 DEF OpenSession, Follows
    <3> QED BY <2>1, <3>1, <3>2, OpenIsUnanswered
  <2> QED BY <1>2, <1>5, <2>2
<1> QED BY <1>3, <1>4, <1>5 DEF Turns

(* The tree and the prompt.                                                       *)
LEMMA BeginSayTells ==
  ASSUME IInv, SInv, NEW a \in Actor, BeginSay(a)
  PROVE  SInv' /\ Speech
<1> DEFINE t == To(a, "prompt")
           l == To(a, "leave")
           e == [Event("tree") EXCEPT !.n = tree]
<1>1. /\ turn[a].pc = "begin" /\ ~Refuses(a) /\ turn[a].job = "say" /\ plan' = plan /\ kills' = kills
      /\ \/ Writes(a, e, t, l)
         \/ turn' = [turn EXCEPT ![a] = t] /\ UNCHANGED logVars
  BY DEF BeginSay, Leaving, Moves
<1>2. t.pc = "prompt" /\ l.pc = "leave" /\ turn[a].pc \in Opens \ {"meta", "mark"} /\ turn[a].pc \notin Owing
  BY <1>1, ToIs DEF Opens, Owing
<1>3. tree \in Nat /\ tree <= file.stamp /\ "tree" \in Kinds
  BY ActorIs DEF Kinds
<1>4. e \in Entry /\ e.k = "tree" /\ e.n = tree /\ e.calls = <<>> /\ e.call = 0
  BY <1>3, EventsAre, FormsAre
<1> HIDE DEF t, l, e
<1>5. CASE Writes(a, e, t, l)
  <2>1. t.pc \notin {"meta"} \cup Marking \cup Owing
    BY <1>2 DEF Marking, Owing
  <2>2. Ordinary(a, e, t, l)
    BY <1>1, <1>2, <1>3, <1>4, <1>5, <2>1 DEF Ordinary
  <2> QED BY <2>2, OrdinaryTells
<1>6. CASE turn' = [turn EXCEPT ![a] = t] /\ UNCHANGED logVars
  <2>1. OpenCalls(Said) = {}
    BY <1>1, BegunIs DEF Jobs, Turns
  <2>2. t.pc \notin Owing /\ t.pc \notin Marking
    BY <1>2 DEF Owing, Marking
  <2>3. Quiet(a, t)
    BY <1>1, <1>2, <1>6, <2>1, <2>2, Unmarked DEF Quiet
  <2> QED BY <2>3, QuietSays
<1> QED BY <1>1, <1>5, <1>6

(* The prompt.                                                                    *)
LEMMA PromptTells ==
  ASSUME IInv, SInv, NEW a \in Actor, Prompt(a)
  PROVE  SInv' /\ Speech
<1> DEFINE t == To(a, "compactstart")
           l == To(a, "leave")
<1>1. turn[a].pc = "prompt" /\ plan' = plan /\ kills' = kills
  BY DEF Prompt, Started, restVars
<1>2. PICK pics \in Shown : Writes(a, [Event("user") EXCEPT !.pics = pics], t, l)
  BY DEF Prompt, Leaving
<1> DEFINE e == [Event("user") EXCEPT !.pics = pics]
<1>3. e \in Entry /\ e.k = "user" /\ e.calls = <<>> /\ e.call = 0
  <2>1. pics \in BOOLEAN /\ "user" \in Kinds
    BY DEF Shown, Kinds
  <2> QED BY <2>1, EventsAre, FormsAre
<1>4. t.pc = "compactstart" /\ l.pc = "leave" /\ turn[a].pc \in Opens \ {"meta", "mark"} /\ turn[a].pc \notin Owing
  BY <1>1, ToIs DEF Opens, Owing
<1>5. Writes(a, e, t, l)
  BY <1>2
<1> HIDE DEF t, l, e
<1>6. t.pc \notin {"meta"} \cup Marking \cup Owing
  BY <1>4 DEF Marking, Owing
<1>7. Ordinary(a, e, t, l)
  BY <1>1, <1>3, <1>4, <1>5, <1>6 DEF Ordinary
<1> QED BY <1>7, OrdinaryTells

(* A turn that continues.                                                         *)
LEMMA BeginContinueTells ==
  ASSUME IInv, SInv, NEW a \in Actor, BeginContinue(a)
  PROVE  SInv' /\ Speech
<1> DEFINE t == To(a, "compactstart")
<1>1. turn[a].pc = "begin" /\ ~Refuses(a) /\ turn[a].job = "continue" /\ turn' = [turn EXCEPT ![a] = t]
      /\ UNCHANGED logVars /\ plan' = plan /\ kills' = kills
  BY DEF BeginContinue, Moves, Started
<1>2. t.pc = "compactstart" /\ t.job = "continue"
  BY <1>1, ToIs
<1> HIDE DEF t
<1>3. OpenCalls(Said) = {}
  BY <1>1, BegunIs DEF Jobs, Turns
<1>4. t.pc \notin Owing /\ t.pc \notin Marking /\ turn[a].pc \in Opens \ {"meta", "mark"}
  BY <1>1, <1>2 DEF Owing, Marking, Opens
<1>5. Quiet(a, t)
  BY <1>1, <1>2, <1>3, <1>4, Unmarked DEF Quiet
<1> QED BY <1>5, QuietSays

(* A sole call, and its answer.                                                   *)
LEMMA SoleAnswer ==
  ASSUME NEW open, Cardinality(open) = 1, IsFiniteSet(open), NEW c \in open
  PROVE  open = {c}
<1>1. PICK x : open = {x}
  BY FS_Singleton
<1> QED BY <1>1

(* What is open of a log is finite.                                               *)
LEMMA OpenFinite ==
  ASSUME NEW log \in Seq(Entry), Valid(log), \A i \in DOMAIN log : Plain(log[i])
  PROVE  IsFiniteSet(OpenCalls(log))
<1> DEFINE q == Unanswered(log)
<1>1. q \in Seq(Call) /\ Range(q) = OpenCalls(log)
  BY UnansweredAre, UnansweredTell DEF Plain
<1> HIDE DEF q
<1>2. Len(q) \in Nat /\ DOMAIN q = 1..Len(q)
  BY <1>1, LenProperties
<1>3. IsFiniteSet(1..Len(q))
  BY <1>2, CountTo
<1>4. q \in Surjection(1..Len(q), Range(q))
  <2>1. q \in [1..Len(q) -> Call]
    BY <1>1, LenProperties
  <2> QED BY <1>2, <2>1 DEF Surjection, Range
<1> QED BY <1>1, <1>3, <1>4, FS_Surjection

(* The answer to a question resumes the turn.                                     *)
LEMMA BeginAnswerTells ==
  ASSUME IInv, SInv, NEW a \in Actor, BeginAnswer(a)
  PROVE  SInv' /\ Speech
<1> DEFINE q == Unanswered(sess[a].events)
           c == q[1]
           e == ResultOf(c)
           t == To(a, "compactstart")
           l == To(a, "leave")
<1>1. turn[a].pc = "begin" /\ turn[a].job = "answer" /\ ~Refuses(a) /\ Writes(a, e, t, l)
      /\ plan' = plan /\ kills' = kills
  BY DEF BeginAnswer, Leaving, Started, restVars
<1>2. turn[a].pc \in Opens \ {"meta", "mark"} /\ turn[a].pc \notin Owing /\ turn[a].pc \notin {"closing", "finish"}
      /\ turn[a].pc \in Opens \ {"meta"}
  BY <1>1 DEF Opens, Owing
<1>3. /\ sess[a].stamp = file.stamp /\ OpenCalls(sess[a].events) = OpenCalls(Said)
  BY <1>2, HereIs
<1>4. IsPending(Said) /\ IsPending(sess[a].events)
  BY <1>1, BegunIs DEF Jobs, Turns
<1>5. /\ sess[a].events \in Seq(Entry) /\ Said \in Seq(Entry) /\ Valid(Said) /\ sess[a].events # <<>>
      /\ \A i \in DOMAIN Said : Plain(Said[i])
  BY <1>2, OpenIs, OpenTells
<1>6. q \in Seq(Call) /\ q # <<>>
  BY <1>4, <1>5, UnansweredAre
<1>7. c \in OpenCalls(Said) /\ c \in Call
  <2>1. 1 \in DOMAIN q
    BY <1>6, EmptySeq, LenProperties
  <2>2. \A i \in DOMAIN q : q[i] \in OpenCalls(sess[a].events) /\ q[i] \in Call
    BY <1>5, UnansweredIn
  <2> QED BY <1>3, <2>1, <2>2
<1>8. OpenCalls(Said) = {c}
  <2> HIDE DEF c
  <2> QED BY <1>4, <1>5, <1>7, OpenFinite, SoleAnswer DEF IsPending
<1>9. e \in Entry /\ e.k = "result" /\ e.calls = <<>> /\ e.call = c.call
  <2> HIDE DEF c
  <2>1. c.call \in Nat /\ "result" \in Kinds
    BY <1>7 DEF Call, Kinds
  <2> QED BY <2>1, EventsAre DEF ResultOf, Event
<1>10. t.pc = "compactstart" /\ t.job = "answer" /\ l.pc = "leave"
  BY <1>1, ToIs
<1> HIDE DEF q, c, e, t, l
<1>11. Sayable(a, e) /\ OpenAfter(e, OpenCalls(Said)) = {}
  <2>1. Sayable(a, e) /\ OpenAfter(e, {c}) = {d \in {c} : d.call # c.call}
    BY <1>7, <1>9, AnswerSays
  <2> QED BY <1>8, <2>1
<1>12. Apt(a, e) /\ t.pc \notin Owing /\ t.pc \notin {"meta", "asking"} \cup Marking
  BY <1>5, <1>9, <1>10 DEF Apt, Owing, Marking
<1>13. Writing(a, e, t, l)
  BY <1>1, <1>2, <1>9, <1>10, <1>11, <1>12 DEF Writing
<1> QED BY <1>13, WriteSays

--------------------------------------------------------------------------------
(* Where a job that may compact is, and where it goes.                            *)
LEMMA CompactingIs ==
  ASSUME IInv, SInv, NEW a \in Actor, AtCompaction(a) \/ turn[a].pc = "compactmid",
         NEW t, t = To(a, AfterCompaction(a))
  PROVE  /\ turn[a].pc \in {"compactstart", "compactmid", "begin"} /\ turn[a].pc \in Opens \ {"meta", "mark"}
         /\ turn[a].pc \notin Owing /\ t.pc \in {"top", "cutoff", "leave"}
         /\ t.pc # "leave" => OpenCalls(Said) = {}
<1>1. turn[a].pc \in {"compactstart", "compactmid", "begin"}
  BY DEF AtCompaction
<1>2. turn[a].pc \in Opens \ {"meta", "mark"} /\ turn[a].pc \notin Owing /\ turn[a].pc \in Opens \ {"meta"}
  BY <1>1 DEF Opens, Owing
<1>3. t.pc = AfterCompaction(a)
  BY ToIs
<1>4. /\ t.pc \in {"top", "cutoff", "leave"} /\ (turn[a].pc = "begin" => t.pc = "leave")
  BY <1>1, <1>3 DEF AfterCompaction
<1>5. turn[a].pc # "begin" => turn[a].pc \in Settled
  BY <1>1 DEF Settled
<1> QED BY <1>1, <1>2, <1>4, <1>5, HereIs

(* Nothing is compacted.                                                          *)
LEMMA NoCompactionTells ==
  ASSUME IInv, SInv, NEW a \in Actor, NoCompaction(a)
  PROVE  SInv' /\ Speech
<1> DEFINE t == To(a, AfterCompaction(a))
<1>1. turn' = [turn EXCEPT ![a] = t] /\ UNCHANGED logVars /\ UNCHANGED restVars
      /\ (AtCompaction(a) \/ turn[a].pc = "compactmid")
  BY DEF NoCompaction, Moves
<1> HIDE DEF t
<1>2. /\ turn[a].pc \in {"compactstart", "compactmid", "begin"} /\ turn[a].pc \in Opens \ {"meta", "mark"}
      /\ turn[a].pc \notin Owing /\ t.pc \in {"top", "cutoff", "leave"}
      /\ t.pc # "leave" => OpenCalls(Said) = {}
  BY <1>1, CompactingIs DEF t
<1>3. Quiet(a, t)
  <2>1. t.pc \notin Owing /\ t.pc \notin Marking /\ (t.pc = "leave" => t.pc \notin Opens \cup Settled)
    BY <1>2 DEF Owing, Marking, Opens, Settled
  <2> QED BY <1>1, <1>2, <2>1, RestIsAlone, Unmarked DEF Quiet
<1> QED BY <1>3, QuietSays

(* The summary fails.                                                             *)
LEMMA CompactionFailsTells ==
  ASSUME IInv, SInv, NEW a \in Actor, CompactionFails(a)
  PROVE  SInv' /\ Speech
<1> DEFINE p == IF turn[a].job = "compact" THEN "leave" ELSE "closing"
           t == To(a, p)
<1>1. turn' = [turn EXCEPT ![a] = t] /\ UNCHANGED logVars /\ UNCHANGED restVars /\ AtCompaction(a)
  BY DEF CompactionFails, Moves
<1>2. /\ turn[a].pc \in {"compactstart", "compactmid", "begin"} /\ turn[a].pc \in Opens \ {"meta", "mark"}
      /\ turn[a].pc \notin Owing
  BY <1>1, CompactingIs
<1>3. t.pc \in {"leave", "closing"}
  BY ToIs
<1> HIDE DEF t, p
<1>4. Quiet(a, t)
  <2>1. t.pc \notin Owing /\ t.pc \notin Marking /\ t.pc \notin Settled /\ (t.pc = "leave" => t.pc \notin Opens)
    BY <1>3 DEF Owing, Marking, Opens, Settled
  <2> QED BY <1>1, <1>2, <1>3, <2>1, RestIsAlone, Unmarked DEF Quiet
<1> QED BY <1>4, QuietSays

(* Where a compaction of a job cuts.                                              *)
LEMMA CompactionSays ==
  ASSUME IInv, SInv, NEW a \in Actor, AtCompaction(a), Compactable(a),
         NEW e \in Entry, e.k = "compaction", e.n = CutFor(a), e.calls = <<>>, e.call = 0
  PROVE  /\ Sayable(a, e)
         /\ MayAppend(a, e) => OpenAfter(e, OpenCalls(Said)) = {}
<1> DEFINE s == sess[a]
           w == s.events
           base == s.base
           c == CutFor(a)
<1>1. turn[a].pc \in Opens \ {"meta"} /\ turn[a].pc \notin {"closing", "finish"} /\ turn[a].pc \in Opens \ {"meta", "mark"}
  BY CompactingIs DEF AtCompaction
<1>2. /\ s \in OpenSession /\ Said \in Seq(Entry) /\ Said = Folded(file.lines) /\ s.stamp = file.stamp
      /\ Follows(s, file)
  BY <1>1, OpenTells
<1>3. /\ w \in Seq(Entry) /\ base \in Nat /\ Shows(w, base, Said, Len(Said)) /\ WellCut(Said, base)
  BY <1>2 DEF OpenSession, Follows
<1>4. c \in 1..Len(w) /\ (\/ c = Len(w)
                          \/ /\ c < Len(w) /\ w[Len(w)].k = "user" /\ w[c].k \notin {"invoked", "tree"}
                             /\ \A i \in (c + 1)..(Len(w) - 1) : w[i].k \in {"invoked", "tree"})
  <2>1. c > CompactionCut(w) /\ CompactionCut(w) \in Nat /\ Len(w) \in Nat
    BY <1>3, CutIs, LenProperties DEF Compactable
  <2>2. CASE turn[a].job = "say" /\ turn[a].pc = "compactstart"
    <3>1. c = TurnBoundary(w) /\ w # <<>> /\ Last(w).k = "user"
      BY <1>1, <2>2, HereIs DEF CutFor
    <3>2. c \in Nat /\ c < Len(w) /\ (\A i \in (c + 1)..(Len(w) - 1) : w[i].k \in {"invoked", "tree"})
          /\ (c > 0 => w[c].k \notin {"invoked", "tree"})
      BY <1>3, <3>1, BoundaryTells
    <3>3. w[Len(w)].k = "user"
      BY <3>1 DEF Last
    <3> HIDE DEF c, w
    <3> QED BY <2>1, <3>2, <3>3
  <2>3. CASE ~(turn[a].job = "say" /\ turn[a].pc = "compactstart")
    <3>1. c = Len(w)
      BY <2>3 DEF CutFor
    <3> HIDE DEF c, w
    <3> QED BY <2>1, <3>1
  <2> QED BY <2>2, <2>3
<1> HIDE DEF c, w, base
<1>5. /\ Canonical(base, c) \in 1..Len(Said)
      /\ \A j \in 1..Len(Said) : Said[j].k = "compaction" => j <= Canonical(base, c)
      /\ Canonical(base, c) < Len(Said) => WellCut(Said, Canonical(base, c))
  <2>1. Shows(w, base, Said, Len(Said)) /\ WellCut(Said, base) /\ w \in Seq(Entry) /\ base \in Nat
    BY <1>3
  <2> QED BY ONLY <1>2, <1>4, <2>1, CutFits
<1>6. CallsOf(e) = {} /\ Plain(e) /\ Cardinality(CallsOf(e)) = Len(e.calls) /\ Range(e.calls) = {}
  <2>1. CallsOf(e) = {} /\ Range(e.calls) = {}
    BY DEF CallsOf, Range
  <2> QED BY <2>1, FS_EmptySet, EmptySeq DEF Plain
<1>7. Sayable(a, e)
  <2>1. e.n = c /\ c >= 1 /\ base = sess[a].base
    BY <1>4 DEF c, base
  <2>2. LET z == Canonical(sess[a].base, e.n)
        IN /\ e.n >= 1 /\ z \in 1..Len(Said)
           /\ \A j \in 1..Len(Said) : Said[j].k = "compaction" => j <= z
           /\ z < Len(Said) => WellCut(Said, z)
    BY <1>5, <2>1
  <2> QED BY <1>6, <2>2 DEF Sayable
<1>8. ~AllowedWhileUnanswered(e)
  BY DEF AllowedWhileUnanswered
<1>9. MayAppend(a, e) => OpenCalls(Said) = {}
  BY <1>1, <1>8, OrdinaryWaits
<1> QED BY <1>6, <1>7, <1>9 DEF OpenAfter

(* The summary is appended.                                                       *)
LEMMA CompactsTells ==
  ASSUME IInv, SInv, NEW a \in Actor, Compacts(a)
  PROVE  SInv' /\ Speech
<1> DEFINE t == To(a, AfterCompaction(a))
           l == IF turn[a].job = "compact" THEN To(a, "leave") ELSE To(a, "closing")
           n == CutFor(a)
           e == [Event("compaction") EXCEPT !.n = n]
<1>1. Writes(a, e, t, l) /\ UNCHANGED restVars /\ AtCompaction(a) /\ Compactable(a)
  BY DEF Compacts, Leaving, Closing
<1>2. l.pc \in {"leave", "closing"}
  BY ToIs
<1>3. n \in Nat /\ "compaction" \in Kinds
  BY <1>1, CompactionIs DEF Kinds
<1> HIDE DEF t, l, n
<1>4. e \in Entry /\ e.k = "compaction" /\ e.n = n /\ e.calls = <<>> /\ e.call = 0
  BY <1>3, EventsAre, FormsAre
<1>5. /\ turn[a].pc \in {"compactstart", "compactmid", "begin"} /\ turn[a].pc \in Opens \ {"meta", "mark"}
      /\ turn[a].pc \notin Owing /\ t.pc \in {"top", "cutoff", "leave"} /\ turn[a].pc \in Opens \ {"meta"}
  BY <1>1, CompactingIs DEF t
<1> HIDE DEF e
<1>6. Sayable(a, e) /\ (MayAppend(a, e) => OpenAfter(e, OpenCalls(Said)) = {})
  BY <1>1, <1>4, CompactionSays DEF n
<1>7. Apt(a, e)
  BY <1>4, <1>5, AptIs
<1>8. t.pc \notin Owing /\ t.pc \notin {"meta", "asking", "compactstart"} \cup Marking
  BY <1>5 DEF Owing, Marking
<1>9. Writing(a, e, t, l)
  BY <1>1, <1>2, <1>5, <1>6, <1>7, <1>8, RestIsAlone DEF Writing
<1> QED BY <1>9, WriteSays

(* A job in the loop, where it owes nothing.                                      *)
LEMMA LoopTells ==
  ASSUME IInv, SInv, NEW a \in Actor, turn[a].pc \in {"top", "steers", "compactmid", "cutoff", "request", "resume"}
  PROVE  /\ turn[a].pc \in Opens \ {"meta", "mark"} /\ turn[a].pc \in Opens \ {"meta"}
         /\ turn[a].pc \notin Owing /\ turn[a].pc \notin {"closing", "finish"} /\ OpenCalls(Said) = {}
         /\ turn[a] \in TurnOf(turn[a].target) /\ Closing(a).pc = "closing"
<1>1. turn[a].pc \in Opens \ {"meta", "mark"} /\ turn[a].pc \in Opens \ {"meta"}
      /\ turn[a].pc \notin Owing /\ turn[a].pc \notin {"closing", "finish"} /\ turn[a].pc \in Settled
  BY DEF Opens, Owing, Settled
<1> QED BY <1>1, HereIs, ToIs DEF Closing

(* A step of the loop that writes nothing.                                        *)
LEMMA LoopSays ==
  ASSUME IInv, SInv, NEW a \in Actor, turn[a].pc \in {"top", "steers", "compactmid", "cutoff", "request", "resume"},
         NEW t, turn' = [turn EXCEPT ![a] = t], UNCHANGED logVars, UNCHANGED restVars,
         t.pc \in {"top", "steers", "compactmid", "cutoff", "request", "closing"}
  PROVE  SInv' /\ Speech
<1>1. turn[a].pc \in Opens \ {"meta", "mark"} /\ turn[a].pc \notin Owing /\ turn[a].pc \notin {"closing", "finish"}
      /\ OpenCalls(Said) = {}
  BY LoopTells
<1>2. t.pc \notin Owing /\ t.pc \notin Marking
  BY DEF Owing, Marking
<1>3. Quiet(a, t)
  BY <1>1, <1>2, RestIsAlone, Unmarked DEF Quiet
<1> QED BY <1>3, QuietSays

--------------------------------------------------------------------------------
(* The top of the loop, the steers dropped, and the moment after a resume.        *)
LEMMA LoopStepsTell ==
  ASSUME IInv, SInv, NEW a \in Actor, Top(a) \/ SteersDone(a) \/ Resume(a)
  PROVE  SInv' /\ Speech
<1>1. turn[a].pc \in {"top", "steers", "resume"} /\ UNCHANGED logVars /\ UNCHANGED restVars
  BY DEF Top, SteersDone, Resume
<1>2. turn[a] \in TurnOf(turn[a].target) /\ Closing(a).pc = "closing"
  BY <1>1, LoopTells
<1>3. \E t : turn' = [turn EXCEPT ![a] = t]
             /\ t.pc \in {"top", "steers", "compactmid", "cutoff", "request", "closing"}
  <2>1. CASE Top(a)
    <3> DEFINE sent == turn[a].steers + turn[a].inbox
               t == [To(a, "steers") EXCEPT !.steers = sent, !.inbox = 0,
                                            !.iters = IF sent > 0 THEN 0 ELSE @]
    <3>1. t.pc = "steers"
      BY <1>2 DEF To, TurnOf
    <3>2. \/ turn' = [turn EXCEPT ![a] = Closing(a)]
          \/ turn' = [turn EXCEPT ![a] = t]
      BY <2>1 DEF Top
    <3> HIDE DEF t
    <3> QED BY <1>2, <3>1, <3>2
  <2>2. CASE SteersDone(a)
    <3> DEFINE t == [To(a, "compactmid") EXCEPT !.steers = 0]
    <3>1. t.pc = "compactmid"
      BY <1>2 DEF To, TurnOf
    <3>2. turn' = [turn EXCEPT ![a] = t]
      BY <2>2 DEF SteersDone
    <3> HIDE DEF t
    <3> QED BY <3>1, <3>2
  <2>3. CASE Resume(a)
    <3> DEFINE p == IF turn[a].cancelled THEN "closing" ELSE "top"
               t == To(a, p)
    <3>1. t.pc \in {"closing", "top"}
      BY ToIs
    <3>2. turn' = [turn EXCEPT ![a] = t]
      BY <2>3 DEF Resume, Moves
    <3> HIDE DEF t
    <3> QED BY <3>1, <3>2
  <2> QED BY <2>1, <2>2, <2>3
<1>4. PICK t : turn' = [turn EXCEPT ![a] = t]
             /\ t.pc \in {"top", "steers", "compactmid", "cutoff", "request", "closing"}
  BY <1>3
<1> QED BY <1>1, <1>4, LoopSays

(* An append of the loop of an ordinary event, and where it goes.                 *)
LEMMA LoopWrites ==
  ASSUME IInv, SInv, NEW a \in Actor, turn[a].pc \in {"top", "steers", "compactmid", "cutoff", "request", "resume"},
         NEW e \in Entry, e.k \in {"user", "cutoff"}, e.calls = <<>>, e.call = 0,
         NEW t, t.pc \in {"steers", "request"}, Writes(a, e, t, Closing(a)), UNCHANGED restVars
  PROVE  SInv' /\ Speech
<1> DEFINE l == Closing(a)
<1>1. turn[a].pc \in Opens \ {"meta", "mark"} /\ turn[a].pc \notin Owing /\ l.pc = "closing"
  BY LoopTells
<1>2. Writes(a, e, t, l)
  OBVIOUS
<1> HIDE DEF l
<1>3. t.pc \notin {"meta"} \cup Marking \cup Owing /\ t.pc # "compactstart" /\ e.k # "tree"
  BY DEF Marking, Owing
<1>4. Ordinary(a, e, t, l)
  BY <1>1, <1>2, <1>3, RestIsAlone DEF Ordinary
<1> QED BY <1>4, OrdinaryTells

(* A steer is appended.                                                           *)
LEMMA AppendSteerTells ==
  ASSUME IInv, SInv, NEW a \in Actor, AppendSteer(a)
  PROVE  SInv' /\ Speech
<1> DEFINE t == [turn[a] EXCEPT !.steers = @ - 1]
           e == Event("user")
<1>1. turn[a].pc = "steers" /\ Writes(a, e, t, Closing(a)) /\ UNCHANGED restVars
  BY DEF AppendSteer
<1>2. t.pc = "steers"
  BY <1>1, LoopTells DEF TurnOf
<1>3. e \in Entry /\ e.k = "user" /\ e.calls = <<>> /\ e.call = 0
  <2>1. "user" \in Kinds
    BY DEF Kinds
  <2> QED BY <2>1, EventsAre, FormsAre
<1> HIDE DEF t, e
<1> QED BY <1>1, <1>2, <1>3, LoopWrites

(* The image cutoff.                                                              *)
LEMMA CutoffTells ==
  ASSUME IInv, SInv, NEW a \in Actor, Cutoff(a)
  PROVE  SInv' /\ Speech
<1> DEFINE t == To(a, "request")
           n == CutoffBefore(sess[a].events, MaxPics, KeepPics)
           e == [Event("cutoff") EXCEPT !.n = n]
<1>1. turn[a].pc = "cutoff" /\ UNCHANGED restVars
      /\ \/ turn' = [turn EXCEPT ![a] = t] /\ UNCHANGED logVars
         \/ Writes(a, e, t, Closing(a))
  BY DEF Cutoff, Moves
<1>2. t.pc = "request"
  BY ToIs
<1>3. e \in Entry /\ e.k = "cutoff" /\ e.calls = <<>> /\ e.call = 0
  <2>1. turn[a].pc \in Opens
    BY <1>1 DEF Opens
  <2>2. n \in Nat
    BY <2>1, OpenIs, CutoffIs
  <2>3. "cutoff" \in Kinds
    BY DEF Kinds
  <2> HIDE DEF n
  <2> QED BY <2>2, <2>3, EventsAre, FormsAre
<1> HIDE DEF t, e
<1>4. CASE turn' = [turn EXCEPT ![a] = t] /\ UNCHANGED logVars
  BY <1>1, <1>2, <1>4, LoopSays
<1>5. CASE Writes(a, e, t, Closing(a))
  BY <1>1, <1>2, <1>3, <1>5, LoopWrites
<1> QED BY <1>1, <1>4, <1>5

--------------------------------------------------------------------------------
(* A message of the provider is appended, and its calls are owed.                 *)
LEMMA ReplyWrites ==
  ASSUME IInv, SInv, NEW a \in Actor, turn[a].pc = "request",
         NEW tools \in Seq(Tools), Len(tools) <= 2, NEW m, m = Message(a, tools),
         NEW t, t.todo = m.calls, NEW l, l.pc = "closing",
         t.pc = "stepdone" \/ \E next \in {"resume", "closing"} : t.pc = IF m.calls = <<>> THEN next ELSE "answers",
         Writes(a, m, t, l), UNCHANGED restVars
  PROVE  SInv' /\ Speech
<1>1. turn[a].pc \in Opens \ {"meta", "mark"} /\ turn[a].pc \notin Owing /\ turn[a].pc \in Opens \ {"meta"}
  BY LoopTells
<1>2. /\ Sayable(a, m) /\ m \in Entry /\ m.k = "asst" /\ m.calls \in Seq(Call) /\ IsInjective(m.calls)
      /\ MayAppend(a, m) => OpenAfter(m, OpenCalls(Said)) = Range(m.calls)
  BY MessageSays
<1>3. Apt(a, m)
  BY <1>1, <1>2, AptIs
<1>4. /\ (IF t.pc \in Owing THEN Range(t.todo) = Range(m.calls) /\ IsInjective(t.todo) ELSE Range(m.calls) = {})
      /\ t.pc \notin {"meta", "asking", "compactstart"} \cup Marking
  <2>1. CASE t.pc = "stepdone"
    BY <1>2, <2>1 DEF Owing, Marking
  <2>2. CASE t.pc # "stepdone"
    <3>1. PICK next \in {"resume", "closing"} : t.pc = IF m.calls = <<>> THEN next ELSE "answers"
      BY <2>2
    <3>2. next \in Nexts /\ IsInjective(m.calls)
      BY <1>2 DEF Nexts
    <3> QED BY <1>2, <3>1, <3>2, AnsweringOwes
  <2> QED BY <2>1, <2>2
<1>5. Writing(a, m, t, l)
  BY <1>1, <1>2, <1>3, <1>4, RestIsAlone DEF Writing
<1> QED BY <1>5, WriteSays

(* A complete response.                                                           *)
LEMMA ReplyTells ==
  ASSUME IInv, SInv, NEW a \in Actor, Reply(a)
  PROVE  SInv' /\ Speech
<1>1. turn[a].pc = "request" /\ UNCHANGED restVars
  BY DEF Reply
<1>2. PICK reply \in plan.replies \cap {"text", "tool", "tools", "ask", "mixed"} :
        Writes(a, Message(a, ToolsOf(reply)),
               [To(a, "stepdone") EXCEPT !.iters = @ + 1, !.todo = Message(a, ToolsOf(reply)).calls],
               [Closing(a) EXCEPT !.iters = @ + 1])
  BY DEF Reply
<1> DEFINE tools == ToolsOf(reply)
           m == Message(a, tools)
           t == [To(a, "stepdone") EXCEPT !.iters = @ + 1, !.todo = m.calls]
           l == [Closing(a) EXCEPT !.iters = @ + 1]
<1>3. tools \in Seq(Tools) /\ Len(tools) <= 2
  BY ToolsAre, ToolsFew
<1>4. t.todo = m.calls /\ t.pc = "stepdone" /\ l.pc = "closing"
  <2>1. turn[a] \in TurnOf(turn[a].target)
    BY <1>1, LoopTells
  <2> HIDE DEF m
  <2> QED BY <2>1 DEF To, Closing, TurnOf
<1>5. Writes(a, m, t, l)
  BY <1>2
<1>6. m = Message(a, tools)
  OBVIOUS
<1> HIDE DEF tools, m, t, l
<1> QED BY <1>1, <1>3, <1>4, <1>5, <1>6, ReplyWrites

(* A step cut short: its calls are answered, then the turn resumes or closes.     *)
LEMMA BrokenWrites ==
  ASSUME IInv, SInv, NEW a \in Actor, turn[a].pc = "request",
         NEW tools \in Seq(Tools), Len(tools) <= 2, NEW m, m = Message(a, tools),
         NEW next \in {"resume", "closing"}, NEW t,
         t.pc = Answering(turn[a], m.calls, next).pc, t.todo = Answering(turn[a], m.calls, next).todo,
         Writes(a, m, t, Closing(a)), UNCHANGED restVars
  PROVE  SInv' /\ Speech
<1> DEFINE l == Closing(a)
           r == Answering(turn[a], m.calls, next)
<1>1. turn[a] \in TurnOf(turn[a].target) /\ l.pc = "closing"
  BY LoopTells
<1>2. m.calls \in Seq(Call) /\ next \in Nexts
  BY MessageSays DEF Nexts
<1> DEFINE q == m.calls
<1>3. r.todo = m.calls /\ r.pc = IF m.calls = <<>> THEN next ELSE "answers"
  <2>1. q \in Seq(Call)
    BY <1>2
  <2> HIDE DEF q
  <2>2. LET x == Answering(turn[a], q, next) IN x.todo = q /\ x.pc = IF q = <<>> THEN next ELSE "answers"
    BY <1>1, <1>2, <2>1, AnsweringIs
  <2> QED BY <2>2 DEF q
<1>4. Writes(a, m, t, l) /\ t.todo = r.todo /\ t.pc = r.pc
  OBVIOUS
<1> HIDE DEF l, r
<1> QED BY <1>1, <1>3, <1>4, ReplyWrites

(* The resume after an interrupted step.                                          *)
LEMMA InterruptTells ==
  ASSUME IInv, SInv, NEW a \in Actor, Interrupt(a)
  PROVE  SInv' /\ Speech
<1> DEFINE tools == <<"bash">>
           m == Message(a, tools)
           r == Answering(turn[a], m.calls, "resume")
           t == [r EXCEPT !.resumes = @ + 1]
<1>1. turn[a].pc = "request" /\ UNCHANGED restVars /\ Writes(a, m, t, Closing(a))
  BY DEF Interrupt
<1>2. tools \in Seq(Tools) /\ Len(tools) <= 2
  BY ToolsAre, ToolsFew
<1> HIDE DEF tools
<1>3. t.pc = r.pc /\ t.todo = r.todo
  <2>1. turn[a] \in TurnOf(turn[a].target) /\ turn[a].job \in Turns
    <3>1. turn[a].pc \in (Body \ {"answers"}) \cup {"resume"}
      BY <1>1 DEF Body
    <3> QED BY <1>1, <3>1, LoopTells, RunningIs
  <2> DEFINE q == m.calls
  <2>2. q \in Seq(Call) /\ "resume" \in Nexts
    BY <1>1, <1>2, MessageSays DEF Nexts
  <2> HIDE DEF q
  <2>3. TurnFits(Answering(turn[a], q, "resume"))
    BY <2>1, <2>2, AnsweringFits
  <2>4. r \in TurnOf(r.target)
    BY <2>3 DEF TurnFits, q
  <2> HIDE DEF r
  <2> QED BY <2>4 DEF TurnOf
<1>4. m = Message(a, tools)
  OBVIOUS
<1>5. t.pc = Answering(turn[a], m.calls, "resume").pc /\ t.todo = Answering(turn[a], m.calls, "resume").todo
  BY <1>3
<1> HIDE DEF m, t, r
<1> QED BY <1>1, <1>2, <1>4, <1>5, BrokenWrites

(* A step that fails, or is cut short by a cancellation.                          *)
LEMMA FailTells ==
  ASSUME IInv, SInv, NEW a \in Actor, FailStep(a) \/ AbortStream(a)
  PROVE  SInv' /\ Speech
<1>1. turn[a].pc = "request" /\ UNCHANGED restVars
      /\ \/ \E tools \in {<<>>, <<"bash">>} :
              Writes(a, Message(a, tools), Answering(turn[a], Message(a, tools).calls, "closing"), Closing(a))
         \/ Moves(a, "closing") /\ UNCHANGED logVars
  BY DEF FailStep, AbortStream
<1>2. CASE Moves(a, "closing") /\ UNCHANGED logVars
  <2> DEFINE t == To(a, "closing")
  <2>1. turn' = [turn EXCEPT ![a] = t]
    BY <1>2 DEF Moves
  <2>2. t.pc = "closing"
    BY ToIs
  <2> HIDE DEF t
  <2> QED BY <1>1, <1>2, <2>1, <2>2, LoopSays
<1>3. ASSUME NEW tools \in {<<>>, <<"bash">>},
             Writes(a, Message(a, tools), Answering(turn[a], Message(a, tools).calls, "closing"), Closing(a))
      PROVE  SInv' /\ Speech
  <2> DEFINE m == Message(a, tools)
             t == Answering(turn[a], m.calls, "closing")
  <2>1. tools \in Seq(Tools) /\ Len(tools) <= 2
    BY ToolsAre, ToolsFew
  <2>2. m = Message(a, tools) /\ Writes(a, m, t, Closing(a))
    BY <1>3
  <2>3. t.pc = Answering(turn[a], m.calls, "closing").pc /\ t.todo = Answering(turn[a], m.calls, "closing").todo
    OBVIOUS
  <2> HIDE DEF m, t
  <2> QED BY <1>1, <2>1, <2>2, <2>3, BrokenWrites
<1> QED BY <1>1, <1>2, <1>3

(* The next of the calls owed is open, and what is open after its answer is the   *)
(* rest.                                                                          *)
LEMMA NextAnswer ==
  ASSUME IInv, SInv, NEW a \in Actor, turn[a].pc \in Owing, turn[a].todo # <<>>,
         NEW e \in Entry, e.k = "result", e.calls = <<>>, e.call = Head(turn[a].todo).call
  PROVE  LET q == turn[a].todo
         IN /\ turn[a] \in TurnOf(turn[a].target) /\ Tail(q) \in Seq(Call) /\ IsInjective(Tail(q))
            /\ turn[a].pc \in Opens \ {"meta", "mark"} /\ Sayable(a, e) /\ Apt(a, e)
            /\ OpenAfter(e, OpenCalls(Said)) = Range(Tail(q)) /\ Len(Tail(q)) = Len(q) - 1
            /\ Len(q) \in Nat
<1> DEFINE q == turn[a].todo
           open == OpenCalls(Said)
           c == Head(q)
<1>1. turn[a].pc \in Opens \ {"meta"} /\ turn[a].pc \in Opens \ {"meta", "mark"}
  BY DEF Owing, Opens
<1>2. turn[a] \in TurnOf(turn[a].target) /\ q \in Seq(Call)
  BY ActorIs DEF TurnFits, TurnOf
<1>3. Range(q) = open /\ IsInjective(q)
  BY <1>1, HereIs
<1>4. Said \in Seq(Entry) /\ Valid(Said) /\ (\A i \in DOMAIN Said : Plain(Said[i])) /\ sess[a].events # <<>>
  BY <1>1, OpenTells, OpenIs
<1>5. \A d, g \in open : d.call = g.call => d = g
  <2>1. \A i \in DOMAIN Said : Said[i].k # "asst" => Said[i].calls = <<>>
    BY <1>4 DEF Plain
  <2> QED BY <1>4, <2>1, UnansweredTell
<1> HIDE DEF q, open, c
<1>6. q # <<>>
  BY DEF q
<1>7. /\ Tail(q) \in Seq(Call) /\ IsInjective(Tail(q)) /\ Head(q) \in Range(q)
      /\ Range(Tail(q)) = Range(q) \ {Head(q)} /\ Len(Tail(q)) = Len(q) - 1 /\ Len(q) \in Nat
  BY <1>2, <1>3, <1>6, TailAre
<1>8. c \in open /\ e.call = c.call
  BY <1>3, <1>7 DEF c, q
<1>9. Sayable(a, e) /\ OpenAfter(e, open) = {d \in open : d.call # c.call}
  BY <1>8, AnswerSays DEF open
<1>10. {d \in open : d.call # c.call} = open \ {c}
  BY <1>5, <1>8
<1>11. Apt(a, e)
  BY <1>4 DEF Apt
<1> QED BY <1>1, <1>2, <1>3, <1>7, <1>9, <1>10, <1>11 DEF q, open, c

(* The calls owed are answered one by one.                                        *)
LEMMA AnswerNextTells ==
  ASSUME IInv, SInv, NEW a \in Actor, AnswerNext(a)
  PROVE  SInv' /\ Speech
<1> DEFINE t == turn[a]
           p == t.pics /\ Len(t.todo) > 1
           u == [t EXCEPT !.pics = p]
           e == [ResultOf(Head(t.todo)) EXCEPT !.pics = t.pics]
           done == Answering(u, Tail(t.todo), t.next)
           failed == IF t.next = "begin" THEN Leaving(a) ELSE Closing(a)
<1>1. t.pc = "answers" /\ t.pc \in Owing /\ Writes(a, e, done, failed) /\ UNCHANGED restVars
  BY DEF AnswerNext, Owing
<1>2. TurnFits(t)
  BY ActorIs
<1>3. /\ t.todo # <<>> /\ t.next \in Nexts /\ t.todo \in Seq(Call) /\ t.pics \in BOOLEAN
  BY <1>1, <1>2 DEF TurnFits, TurnOf
<1>4. e \in Entry /\ e.k = "result" /\ e.calls = <<>> /\ e.call = Head(t.todo).call
  <2>1. e \in Entry /\ e.k = "result"
    BY <1>3, ResultsAre
  <2> QED BY <2>1 DEF ResultOf, Event
<1>5. u \in TurnOf(u.target)
  <2>1. p \in BOOLEAN
    BY <1>3
  <2> HIDE DEF p
  <2> QED BY <1>2, <2>1 DEF TurnFits, TurnOf
<1>6. failed.pc \in {"leave", "closing"}
  BY ToIs DEF Leaving, Closing
<1> HIDE DEF u, p, e, failed
<1> DEFINE todo == Tail(t.todo)
<1>7. /\ todo \in Seq(Call) /\ IsInjective(todo) /\ t.pc \in Opens \ {"meta", "mark"}
      /\ Sayable(a, e) /\ Apt(a, e) /\ OpenAfter(e, OpenCalls(Said)) = Range(todo)
  BY <1>1, <1>3, <1>4, NextAnswer
<1> HIDE DEF todo
<1> DEFINE r == Answering(u, todo, t.next)
<1>8. done = r
  BY DEF todo
<1>9. r.todo = todo /\ r.pc = IF todo = <<>> THEN t.next ELSE "answers"
  BY <1>3, <1>5, <1>7, AnsweringIs
<1> HIDE DEF r, done
<1>10. /\ IF r.pc \in Owing THEN Range(r.todo) = Range(todo) /\ IsInjective(r.todo) ELSE Range(todo) = {}
       /\ r.pc \notin {"meta", "asking", "compactstart"} \cup Marking
  BY <1>3, <1>7, <1>9, AnsweringOwes
<1>11. Writing(a, e, done, failed)
  BY <1>1, <1>4, <1>6, <1>7, <1>8, <1>10, RestIsAlone DEF Writing
<1> QED BY <1>11, WriteSays

(* A step goes on with what it owes.                                              *)
LEMMA OwingMoves ==
  ASSUME IInv, SInv, NEW a \in Actor, turn[a].pc \in {"stepdone", "tools"},
         NEW r, turn' = [turn EXCEPT ![a] = r], UNCHANGED logVars, plan' = plan, kills' = kills,
         \/ r.pc \in {"answers", "tools"} /\ r.todo = turn[a].todo
         \/ r.pc = "asking" /\ r.todo = turn[a].todo /\ Len(r.todo) = 1 /\ r.todo[1].tool = Question
         \/ r.pc \in {"closing", "top"} /\ turn[a].todo = <<>>
  PROVE  SInv' /\ Speech
<1>1. turn[a].pc \in Opens \ {"meta"} /\ turn[a].pc \in Opens \ {"meta", "mark"} /\ turn[a].pc \in Owing
  BY DEF Owing, Opens
<1>2. Range(turn[a].todo) = OpenCalls(Said) /\ IsInjective(turn[a].todo)
  BY <1>1, HereIs
<1>3. turn[a].todo = <<>> => OpenCalls(Said) = {}
  BY <1>2 DEF Range
<1>4. r.pc \notin Marking /\ (r.pc \in {"closing", "top"} <=> r.pc \notin Owing)
  BY DEF Owing, Marking
<1>5. Quiet(a, r)
  BY <1>1, <1>2, <1>3, <1>4, Unmarked DEF Quiet, Settled
<1> QED BY <1>5, QuietSays

(* The step is settled.                                                           *)
LEMMA StepDoneTells ==
  ASSUME IInv, SInv, NEW a \in Actor, StepDone(a)
  PROVE  SInv' /\ Speech
<1> DEFINE t == turn[a]
           q == t.todo
           up == [To(a, "top") EXCEPT !.steers = t.inbox, !.inbox = 0]
           Asks == \E i \in DOMAIN q : q[i].tool = Question
<1>1. /\ t.pc = "stepdone" /\ UNCHANGED <<leaseVars, logVars, restVars>> /\ DOMAIN turn = Actor
      /\ turn = [turn EXCEPT ![a] = t]
  BY ActorIs DEF StepDone
<1>2. t \in TurnOf(t.target) /\ q \in Seq(Call)
  BY <1>1, CallsIs
<1>3. ASSUME NEW next \in {"closing", "top"}, NEW r, r = Answering(t, q, next)
      PROVE  \/ r.pc = "answers" /\ r.todo = q
             \/ r.pc \in {"closing", "top"} /\ q = <<>>
  <2>1. next \in Nexts
    BY DEF Nexts
  <2>2. r.todo = q /\ r.pc = IF q = <<>> THEN next ELSE "answers"
    BY <1>2, <1>3, <2>1, AnsweringIs
  <2> QED BY <2>2
<1>4. up.pc = "top"
  BY <1>2 DEF To, TurnOf
<1>5. \E r : /\ turn' = [turn EXCEPT ![a] = r]
             /\ \/ r.pc \in {"answers", "tools"} /\ r.todo = q
                \/ r.pc = "asking" /\ r.todo = q /\ Len(r.todo) = 1 /\ r.todo[1].tool = Question
                \/ r.pc \in {"closing", "top"} /\ q = <<>>
  <2> HIDE DEF up
  <2>1. \/ turn' = [turn EXCEPT ![a] = Answering(t, q, "closing")]
        \/ q = <<>> /\ turn' = [turn EXCEPT ![a] = up]
        \/ q = <<>> /\ turn' = [turn EXCEPT ![a] = Closing(a)]
        \/ turn' = [turn EXCEPT ![a] = Answering(t, q, "top")]
        \/ q # <<>> /\ Asks /\ ~(Len(q) > 1) /\ turn' = [turn EXCEPT ![a] = To(a, "asking")]
        \/ q # <<>> /\ turn' = [turn EXCEPT ![a] = To(a, "tools")]
    BY <1>1 DEF StepDone, up
  <2>2. CASE turn' = [turn EXCEPT ![a] = Answering(t, q, "closing")]
    <3> DEFINE r == Answering(t, q, "closing")
    <3>1. turn' = [turn EXCEPT ![a] = r]
      BY <2>2
    <3>2. (r.pc = "answers" /\ r.todo = q) \/ (r.pc \in {"closing", "top"} /\ q = <<>>)
      BY <1>3
    <3> HIDE DEF r
    <3> QED BY <3>1, <3>2
  <2>3. CASE turn' = [turn EXCEPT ![a] = Answering(t, q, "top")]
    <3> DEFINE r == Answering(t, q, "top")
    <3>1. turn' = [turn EXCEPT ![a] = r]
      BY <2>3
    <3>2. (r.pc = "answers" /\ r.todo = q) \/ (r.pc \in {"closing", "top"} /\ q = <<>>)
      BY <1>3
    <3> HIDE DEF r
    <3> QED BY <3>1, <3>2
  <2>4. CASE q = <<>> /\ turn' = [turn EXCEPT ![a] = up]
    BY <1>4, <2>4
  <2>5. CASE q = <<>> /\ turn' = [turn EXCEPT ![a] = Closing(a)]
    <3> DEFINE r == Closing(a)
    <3>1. r.pc = "closing"
      BY ToIs DEF Closing
    <3>2. turn' = [turn EXCEPT ![a] = r]
      BY <2>5
    <3> HIDE DEF r
    <3> QED BY <2>5, <3>1, <3>2
  <2>6. CASE q # <<>> /\ Asks /\ ~(Len(q) > 1) /\ turn' = [turn EXCEPT ![a] = To(a, "asking")]
    <3>1. DOMAIN q = 1..Len(q) /\ Len(q) \in Nat /\ Len(q) # 0
      BY <1>2, <2>6, LenProperties, EmptySeq
    <3>2. Len(q) = 1 /\ q[1].tool = Question
      <4>1. Len(q) = 1
        <5> DEFINE n == Len(q)
        <5>1. ~(n > 1)
          BY <2>6
        <5>2. n \in Nat /\ n # 0
          BY <3>1
        <5> HIDE DEF n
        <5>3. n = 1
          BY <5>1, <5>2
        <5> QED BY <5>3 DEF n
      <4>2. PICK i \in 1..Len(q) : q[i].tool = Question
        BY <2>6, <3>1
      <4>3. i = 1
        BY <4>1
      <4> QED BY <4>1, <4>2, <4>3
    <3> DEFINE r == To(a, "asking")
    <3>3. r.pc = "asking" /\ r.todo = q
      BY ToIs
    <3>4. turn' = [turn EXCEPT ![a] = r]
      BY <2>6
    <3> HIDE DEF r
    <3> QED BY <3>2, <3>3, <3>4
  <2>7. CASE q # <<>> /\ turn' = [turn EXCEPT ![a] = To(a, "tools")]
    <3> DEFINE r == To(a, "tools")
    <3>1. r.pc = "tools" /\ r.todo = q
      BY ToIs
    <3>2. turn' = [turn EXCEPT ![a] = r]
      BY <2>7
    <3> HIDE DEF r
    <3> QED BY <3>1, <3>2
  <2> QED BY <2>1, <2>2, <2>3, <2>4, <2>5, <2>6, <2>7
<1>6. PICK r : /\ turn' = [turn EXCEPT ![a] = r]
               /\ \/ r.pc \in {"answers", "tools"} /\ r.todo = q
                  \/ r.pc = "asking" /\ r.todo = q /\ Len(r.todo) = 1 /\ r.todo[1].tool = Question
                  \/ r.pc \in {"closing", "top"} /\ q = <<>>
  BY <1>5
<1> HIDE DEF up
<1> QED BY <1>1, <1>6, OwingMoves, RestIsAlone

(* The tools return.                                                              *)
LEMMA ToolsReturnTells ==
  ASSUME IInv, SInv, NEW a \in Actor, ToolsReturn(a)
  PROVE  SInv' /\ Speech
<1> DEFINE t == turn[a]
           s == Answering(t, t.todo, "top")
<1>1. t.pc = "tools" /\ UNCHANGED logVars /\ plan' = plan /\ kills' = kills
  BY DEF ToolsReturn
<1>2. PICK p \in Shown : turn' = [turn EXCEPT ![a] = [s EXCEPT !.pics = p]]
  <2>1. turn = [turn EXCEPT ![a] = t] /\ DOMAIN turn = Actor
    BY ActorIs
  <2> QED BY <2>1 DEF ToolsReturn
<1>3. t \in TurnOf(t.target) /\ t.todo \in Seq(Call) /\ "top" \in Nexts
  BY <1>1, CallsIs DEF Nexts
<1>4. s.todo = t.todo /\ s.pc = IF t.todo = <<>> THEN "top" ELSE "answers"
  BY <1>3, AnsweringIs
<1> DEFINE r == [s EXCEPT !.pics = p]
<1>5. r.todo = s.todo /\ r.pc = s.pc
  OBVIOUS
<1>6. turn' = [turn EXCEPT ![a] = r]
  BY <1>2
<1> HIDE DEF r, s
<1> QED BY <1>1, <1>4, <1>5, <1>6, OwingMoves

(* The user answers.                                                              *)
LEMMA AnsweredTells ==
  ASSUME IInv, SInv, NEW a \in Actor, Answered(a)
  PROVE  SInv' /\ Speech
<1> DEFINE t == turn[a]
           e == ResultOf(Head(t.todo))
           r == [To(a, "top") EXCEPT !.todo = <<>>]
           l == Closing(a)
<1>1. t.pc = "asking" /\ t.pc \in Owing /\ UNCHANGED restVars /\ Writes(a, e, r, l)
  BY DEF Answered, Owing
<1>2. t \in TurnOf(t.target) /\ t.todo \in Seq(Call) /\ t.todo # <<>> /\ t.pc \in Opens \ {"meta"} /\ l.pc = "closing"
  BY <1>1, CallsIs
<1>3. e \in Entry /\ e.k = "result" /\ e.calls = <<>> /\ e.call = Head(t.todo).call
  <2>1. e \in Entry /\ e.k = "result"
    BY <1>2, ResultsAre
  <2> QED BY <2>1 DEF ResultOf, Event
<1>4. r.pc = "top"
  BY <1>2 DEF To, TurnOf
<1>5. Len(t.todo) = 1
  BY <1>1, <1>2, HereIs
<1> HIDE DEF e, r, l
<1> DEFINE todo == Tail(t.todo)
<1>6. /\ todo \in Seq(Call) /\ t.pc \in Opens \ {"meta", "mark"}
      /\ Sayable(a, e) /\ Apt(a, e) /\ OpenAfter(e, OpenCalls(Said)) = Range(todo) /\ Len(todo) = Len(t.todo) - 1
  BY <1>1, <1>2, <1>3, NextAnswer
<1> HIDE DEF todo
<1>7. Range(todo) = {}
  <2>1. Len(todo) = 0
    BY <1>5, <1>6
  <2>2. todo = <<>>
    BY <1>6, <2>1, EmptySeq
  <2> QED BY <2>2 DEF Range
<1>8. r.pc \notin Owing /\ r.pc \notin {"meta", "asking", "compactstart"} \cup Marking
  BY <1>4 DEF Owing, Marking
<1>9. Writing(a, e, r, l)
  BY <1>1, <1>2, <1>3, <1>6, <1>7, <1>8, RestIsAlone DEF Writing
<1> QED BY <1>9, WriteSays

(* A sole call that is a question is what a session waits for.                    *)
LEMMA SoleQuestion ==
  ASSUME NEW log, NEW q \in Seq(Call), Len(q) = 1, q[1].tool = Question, Range(q) = OpenCalls(log)
  PROVE  IsPending(log)
<1>1. DOMAIN q = 1..1
  BY LenProperties
<1>2. OpenCalls(log) = {q[1]}
  BY <1>1 DEF Range
<1>3. Cardinality({q[1]}) = 1
  BY FS_Singleton
<1> QED BY <1>2, <1>3 DEF IsPending

(* A cancelled question is abandoned.                                             *)
LEMMA AbandonTells ==
  ASSUME IInv, SInv, NEW a \in Actor, AbandonQuestion(a)
  PROVE  SInv' /\ Speech
<1> DEFINE t == To(a, "closing")
<1>1. turn[a].pc = "asking" /\ turn' = [turn EXCEPT ![a] = t] /\ UNCHANGED logVars /\ UNCHANGED restVars
  BY DEF AbandonQuestion, Moves
<1>2. t.pc = "closing"
  BY ToIs
<1>3. turn[a].todo \in Seq(Call) /\ turn[a].pc \in Opens \ {"meta"} /\ turn[a].pc \in Opens \ {"meta", "mark"}
      /\ turn[a].pc \in Owing
  BY <1>1, CallsIs DEF Owing, Opens
<1>4. IsPending(Said)
  <2>1. Range(turn[a].todo) = OpenCalls(Said) /\ Len(turn[a].todo) = 1 /\ turn[a].todo[1].tool = Question
    BY <1>1, <1>3, HereIs
  <2> QED BY <1>3, <2>1, SoleQuestion
<1> HIDE DEF t
<1>5. t.pc \notin Owing /\ t.pc \notin Marking /\ t.pc \notin Settled
  BY <1>2 DEF Owing, Marking, Settled
<1>6. Quiet(a, t)
  BY <1>1, <1>2, <1>3, <1>4, <1>5, RestIsAlone, Unmarked DEF Quiet
<1> QED BY <1>6, QuietSays

(* The scratch is dropped.                                                        *)
LEMMA DropScratchTells ==
  ASSUME IInv, SInv, NEW a \in Actor, DropScratch(a)
  PROVE  SInv' /\ Speech
<1> DEFINE t == To(a, "finish")
<1>1. turn[a].pc = "closing" /\ turn' = [turn EXCEPT ![a] = t] /\ UNCHANGED logVars /\ plan' = plan /\ kills' = kills
  BY DEF DropScratch, Moves
<1>2. t.pc = "finish"
  BY ToIs
<1> HIDE DEF t
<1>3. /\ turn[a].pc \in Opens \ {"meta", "mark"} /\ turn[a].pc \notin Owing
      /\ t.pc \notin Owing /\ t.pc \notin Marking /\ t.pc \notin Settled
  BY <1>1, <1>2 DEF Owing, Marking, Settled, Opens
<1>4. Quiet(a, t)
  BY <1>1, <1>2, <1>3, Unmarked DEF Quiet
<1> QED BY <1>4, QuietSays

(* The end of the turn is written.                                                *)
LEMMA FinishTells ==
  ASSUME IInv, SInv, NEW a \in Actor, Finish(a)
  PROVE  SInv' /\ Speech
<1> DEFINE e == Event("finished")
           l == Leaving(a)
<1>1. turn[a].pc = "finish" /\ Writes(a, e, l, l) /\ UNCHANGED restVars
  BY DEF Finish
<1>2. l.pc = "leave"
  BY ToIs DEF Leaving
<1>3. e \in Entry /\ e.k = "finished" /\ e.calls = <<>> /\ e.call = 0
  <2>1. "finished" \in Kinds
    BY DEF Kinds
  <2> QED BY <2>1, EventsAre, FormsAre
<1> HIDE DEF e, l
<1>4. turn[a].pc \in Opens \ {"meta", "mark"} /\ turn[a].pc \notin Owing /\ l.pc \notin {"meta"} \cup Marking \cup Owing
  BY <1>1, <1>2 DEF Opens, Owing, Marking
<1>5. Ordinary(a, e, l, l)
  BY <1>1, <1>2, <1>3, <1>4, RestIsAlone DEF Ordinary
<1> QED BY <1>5, OrdinaryTells

--------------------------------------------------------------------------------
(* Where a rewind cuts: the index of the window is one of the log, right before   *)
(* the message it takes back; and the event before it is the one the window has   *)
(* there, or none of a checkpoint.                                                *)
RewindPoint(a, n) ==
  LET events == sess[a].events
      cut == turn[a].cut
  IN /\ n = Canonical(sess[a].base, cut) /\ n \in Nat /\ n >= 1 /\ n < Len(Said) /\ n + 1 \in DOMAIN Said
     /\ Said[n + 1].k = "user" /\ Said[n + 1].id = turn[a].target
     /\ cut \in 1..Len(events)
     /\ \/ Alike(sess[a].base, events[cut], Said[n])
        \/ events[cut].k # "tree" /\ Said[n].k # "tree"

(* The message a rewind takes back is in the log where its window has it.         *)
LEMMA RewindPoints ==
  ASSUME IInv, SInv, NEW a \in Actor, turn[a].pc \in Opens \ {"meta"}, sess[a].stamp = file.stamp,
         turn[a].cut + 1 \in DOMAIN sess[a].events, sess[a].events[turn[a].cut + 1].k = "user",
         sess[a].events[turn[a].cut + 1].id = turn[a].target
  PROVE  turn[a].cut >= 1 /\ \E n : RewindPoint(a, n)
<1> DEFINE w == sess[a].events
           base == sess[a].base
           cut == turn[a].cut
           n == Canonical(base, cut)
           m == Len(w)
<1>1. /\ Follows(sess[a], file) /\ Said = Folded(file.lines) /\ Said \in Seq(Entry) /\ Valid(Said)
      /\ sess[a] \in OpenSession /\ Rooted(w) /\ Len(Said) \in Nat /\ DOMAIN Said = 1..Len(Said)
  BY OpenTells, LenProperties
<1>2. /\ w \in Seq(Entry) /\ base \in Nat /\ cut \in Nat /\ m \in Nat /\ DOMAIN w = 1..m
  <2>1. cut \in Nat
    BY ActorIs DEF TurnFits, TurnOf
  <2>2. w \in Seq(Entry) /\ base \in Nat
    BY <1>1 DEF OpenSession
  <2> QED BY <2>1, <2>2, LenProperties
<1>3. Shows(w, base, Said, Len(Said)) /\ WellCut(Said, base)
  BY <1>1 DEF Follows
<1>4. cut + 1 \in 1..m /\ w[cut + 1].k = "user" /\ w[cut + 1].id = turn[a].target
  BY <1>2
<1>5. w # <<>> /\ w[1].k = "meta"
  BY <1>1, <1>2, <1>4, EmptySeq DEF Rooted
<1> HIDE DEF w, base, cut, n, m
<1>6. cut >= 1 /\ cut \in 1..m /\ cut < m
  <2>1. cut # 0
    BY <1>4, <1>5
  <2> QED BY <1>2, <1>4, <2>1
<1>7. /\ Len(Said) = Canonical(base, m) /\ (base > 0 => base < Len(Said))
      /\ \A i \in 1..m : At(base, i) \in 1..Len(Said) /\ Alike(base, w[i], Said[At(base, i)])
  BY <1>1, <1>2, <1>3, ShownAre DEF m
<1>8. /\ n \in Nat /\ n >= 1 /\ At(base, cut + 1) = n + 1 /\ (base = 0 \/ cut > 1 => At(base, cut) = n)
      /\ (base > 0 /\ cut = 1 => n = base)
  BY <1>2, <1>6 DEF n, Canonical, At
<1>9. n + 1 \in 1..Len(Said) /\ Said[n + 1].k = "user" /\ Said[n + 1].id = turn[a].target
  BY <1>4, <1>7, <1>8 DEF Alike
<1>10. Alike(base, w[cut], Said[n]) \/ (w[cut].k # "tree" /\ Said[n].k # "tree")
  <2>1. CASE base = 0 \/ cut > 1
    BY <1>6, <1>7, <1>8, <2>1
  <2>2. CASE base > 0 /\ cut = 1
    <3>1. Said[n].k # "tree"
      BY <1>3, <1>8, <1>9, <2>2 DEF WellCut
    <3>2. w[cut].k = "meta"
      BY <1>5, <2>2
    <3> QED BY <3>1, <3>2
  <2> QED BY <1>2, <1>6, <2>1, <2>2
<1>11. n < Len(Said)
  BY <1>1, <1>8, <1>9
<1>12. RewindPoint(a, n)
  BY <1>1, <1>6, <1>8, <1>9, <1>10, <1>11 DEF RewindPoint, w, base, cut, n, m
<1> QED BY <1>6, <1>12 DEF cut

(* What a rewind under way may count on.                                          *)
LEMMA RewindIs ==
  ASSUME IInv, SInv, NEW a \in Actor, turn[a].pc \in Marking
  PROVE  /\ turn[a].pc \in Opens \ {"meta"} /\ turn[a].pc \notin {"closing", "finish"} /\ turn[a].pc \notin Owing
         /\ turn[a].pc \in Settled
         /\ OpenCalls(Said) = {} /\ sess[a].stamp = file.stamp
         /\ turn[a].cut >= 1 /\ turn[a].cut + 1 \in DOMAIN sess[a].events
         /\ sess[a].events[turn[a].cut + 1].k = "user" /\ sess[a].events[turn[a].cut + 1].id = turn[a].target
         /\ \E n : RewindPoint(a, n)
<1>1. turn[a].pc \in Opens \ {"meta"} /\ turn[a].pc \notin {"closing", "finish"} /\ turn[a].pc \in Settled
      /\ turn[a].pc \notin Owing
  BY DEF Marking, Opens, Settled, Owing
<1>2. OpenCalls(Said) = {} /\ sess[a].stamp = file.stamp /\ RewindTells(turn[a], sess[a], index, tree, saved)
  BY <1>1, HereIs
<1>3. /\ turn[a].cut >= 1 /\ turn[a].cut + 1 \in DOMAIN sess[a].events
      /\ sess[a].events[turn[a].cut + 1].k = "user" /\ sess[a].events[turn[a].cut + 1].id = turn[a].target
  BY <1>2 DEF RewindTells
<1> QED BY <1>1, <1>2, <1>3, RewindPoints

(* The rewind of a message begins with a snapshot of the tree as it is.           *)
LEMMA SaveTreeTells ==
  ASSUME IInv, SInv, NEW a \in Actor, SaveTree(a)
  PROVE  SInv' /\ Speech
<1> DEFINE t == To(a, "restore")
           HasIt == HasTree(sess[a].events, turn[a].cut)
<1>1. /\ turn[a].pc = "begin" /\ turn[a].job = "rewind" /\ ~Refuses(a) /\ turn' = [turn EXCEPT ![a] = t]
      /\ UNCHANGED logVars /\ plan' = plan /\ kills' = kills /\ tree' = tree
      /\ saved' = IF HasIt THEN saved \cup {tree} ELSE saved
  BY DEF SaveTree, Moves
<1>2. t.pc = "restore" /\ t.cut = turn[a].cut /\ t.target = turn[a].target
  BY ToIs
<1>3. OpenCalls(Said) = {}
  BY <1>1, BegunIs DEF Jobs, Turns
<1>4. turn[a].pc \in Opens \ {"meta", "mark"} /\ turn[a].pc \notin Owing /\ turn[a].pc \in Opens \ {"meta"}
      /\ turn[a].pc \notin {"closing", "finish"}
  BY <1>1 DEF Opens, Owing
<1>5. /\ turn[a].cut + 1 \in DOMAIN sess[a].events /\ sess[a].events[turn[a].cut + 1].k = "user"
      /\ sess[a].events[turn[a].cut + 1].id = turn[a].target
  BY <1>1 DEF Refuses
<1>6. turn[a].cut >= 1
  <2>1. sess[a].stamp = file.stamp
    BY <1>4, HereIs
  <2> QED BY <1>4, <1>5, <2>1, RewindPoints
<1> HIDE DEF t
<1>7. RewindTells(t, sess[a], index, tree', saved')
  BY <1>1, <1>2, <1>5, <1>6 DEF RewindTells
<1>8. Quiet(a, t)
  BY <1>1, <1>2, <1>3, <1>4, <1>7 DEF Quiet, Owing
<1> QED BY <1>8, QuietSays

(* What a rewind brings back: the tree of the message it takes back.              *)
Restored(a) ==
  /\ tree' # tree => tree \in saved
  /\ \A i \in DOMAIN Said :
        i > 1 /\ Said[i].id = turn[a].target /\ Said[i - 1].k = "tree" => tree' = Said[i - 1].n

(* The tree a rewind brings back is the one the log has before the message.       *)
LEMMA RestoreTreeTells ==
  ASSUME IInv, SInv, NEW a \in Actor, RestoreTree(a)
  PROVE  SInv' /\ Speech /\ Restored(a)
<1> DEFINE t == To(a, "dropids")
           w == sess[a].events
           cut == turn[a].cut
<1>1. /\ turn[a].pc = "restore" /\ turn[a].pc \in Marking /\ turn' = [turn EXCEPT ![a] = t]
      /\ UNCHANGED logVars /\ plan' = plan /\ kills' = kills /\ saved' = saved
      /\ tree' = IF HasTree(w, cut) THEN w[cut].n ELSE tree
  BY DEF RestoreTree, Moves, Marking
<1>2. t.pc = "dropids" /\ t.cut = cut /\ t.target = turn[a].target
  BY ToIs
<1>3. /\ turn[a].pc \in Opens \ {"meta"} /\ turn[a].pc \notin {"closing", "finish"} /\ turn[a].pc \notin Owing
      /\ OpenCalls(Said) = {} /\ cut >= 1 /\ cut + 1 \in DOMAIN w
      /\ w[cut + 1].k = "user" /\ w[cut + 1].id = turn[a].target /\ \E n : RewindPoint(a, n)
  BY <1>1, RewindIs
<1>4. RewindTells(turn[a], sess[a], index, tree, saved)
  BY <1>3, HereIs
<1> HIDE DEF t
<1>5. SInv' /\ Speech
  <2>1. RewindTells(t, sess[a], index, tree', saved')
    BY <1>2, <1>3 DEF RewindTells
  <2>2. turn[a].pc \in Opens \ {"meta", "mark"}
    BY <1>1, <1>3
  <2>3. Quiet(a, t)
    BY <1>1, <1>2, <1>3, <2>1, <2>2 DEF Quiet, Owing
  <2> QED BY <2>3, QuietSays
<1>6. tree' # tree => tree \in saved
  BY <1>1, <1>4 DEF RewindTells
<1>7. ASSUME NEW i \in DOMAIN Said, i > 1, Said[i].id = turn[a].target, Said[i - 1].k = "tree"
      PROVE  tree' = Said[i - 1].n
  <2>1. PICK n : RewindPoint(a, n)
    BY <1>3
  <2>2. /\ n \in Nat /\ n >= 1 /\ n + 1 \in DOMAIN Said /\ Said[n + 1].id = turn[a].target
        /\ cut \in 1..Len(w) /\ (Alike(sess[a].base, w[cut], Said[n]) \/ Said[n].k # "tree")
    BY <2>1 DEF RewindPoint
  <2>3. Valid(Said) /\ Said \in Seq(Entry) /\ DOMAIN Said = 1..Len(Said) /\ Len(Said) \in Nat
    BY <1>3, OpenTells, LenProperties
  <2>4. \A j, k \in DOMAIN Said : j < k => Said[j].id # Said[k].id
    BY <2>3 DEF Valid
  <2>5. i = n + 1
    <3>1. i \in Nat /\ n + 1 \in Nat
      BY <2>2, <2>3
    <3>2. ~(i < n + 1) /\ ~(n + 1 < i)
      BY <1>7, <2>2, <2>4
    <3> QED BY <3>1, <3>2
  <2>6. i - 1 = n
    BY <2>2, <2>5
  <2>7. Alike(sess[a].base, w[cut], Said[n]) /\ Said[n].k = "tree"
    BY <1>7, <2>2, <2>6
  <2>8. w[cut].k = "tree" /\ w[cut].n = Said[n].n
    BY <2>7 DEF Alike
  <2>9. HasTree(w, cut)
    BY <2>2, <2>8 DEF HasTree
  <2> QED BY <1>1, <2>6, <2>8, <2>9
<1> QED BY <1>5, <1>6, <1>7 DEF Restored

(* The id file goes, then the index.                                              *)
LEMMA RewindIndexTells ==
  ASSUME IInv, SInv, NEW a \in Actor, RewindIndex(a)
  PROVE  SInv' /\ Speech
<1> DEFINE s == sess[a]
<1>1. /\ turn[a].pc \in {"dropids", "dropindex"} /\ turn[a].pc \in Marking /\ UNCHANGED restVars
  BY DEF RewindIndex, Marking
<1>2. /\ turn[a].pc \in Opens \ {"meta"} /\ turn[a].pc \notin {"closing", "finish"} /\ turn[a].pc \notin Owing
      /\ OpenCalls(Said) = {} /\ s.stamp = file.stamp
      /\ turn[a].cut >= 1 /\ turn[a].cut + 1 \in DOMAIN s.events
      /\ s.events[turn[a].cut + 1].k = "user" /\ s.events[turn[a].cut + 1].id = turn[a].target
  BY <1>1, RewindIs
<1>3. /\ LogTells(file) /\ IndexTells(index, file) /\ file.lines # <<>> /\ at[a] = "held"
      /\ index \in IndexFile \cup {None} /\ s \in OpenSession /\ Said = Folded(file.lines)
  BY <1>2, OpenTells
<1>4. Follows(s, file) /\ Complete(s)
  BY <1>1, <1>2, HereIs
<1>5. DOMAIN sess = Actor
  BY DEF IInv, LogFits
<1>6. \A t : /\ t.pc \in {"dropindex", "mark"} /\ t.cut = turn[a].cut /\ t.target = turn[a].target
             => t.pc \in Opens /\ t.pc \notin Owing /\ t.pc # "asking" /\ t.pc # "restore"
  BY DEF Opens, Owing
<1>7. CASE turn[a].pc = "dropids" /\ DropIds(a) /\ Moves(a, "dropindex")
  <2> DEFINE t == To(a, "dropindex")
  <2>1. t.pc = "dropindex" /\ t.cut = turn[a].cut /\ t.target = turn[a].target
    BY ToIs
  <2>2. turn' = [turn EXCEPT ![a] = t] /\ file' = file /\ sess' = sess /\ faults' = faults
        /\ (index' = index \/ (index # None /\ index' = [index EXCEPT !.ids = FALSE]))
    BY <1>7 DEF Moves, DropIds
  <2> HIDE DEF t
  <2>3. IndexTells(index', file)
    <3>1. CASE index' = index
      BY <1>3, <3>1
    <3>2. CASE index # None /\ index' = [index EXCEPT !.ids = FALSE]
      <4>1. index \in IndexFile
        BY <1>3, <3>2
      <4>2. /\ index'.window = index.window /\ index'.start = index.start /\ index'.offset = index.offset
            /\ index'.known = index.known /\ index'.stamp = index.stamp
        BY <3>2, <4>1 DEF IndexFile
      <4>3. index.stamp <= file.stamp /\ (index.stamp = file.stamp => Covers(index, Folded(file.lines), file.lines))
        BY <1>3, <3>2 DEF IndexTells
      <4> QED BY <4>2, <4>3, CoversSame DEF IndexTells
    <3> QED BY <2>2, <3>1, <3>2
  <2>4. JobTells(t, s, file)
    BY <1>2, <1>3, <1>4, <2>1, <1>6 DEF JobTells
  <2>5. RewindTells(t, s, index', tree', saved')
    BY <1>2, <2>1 DEF RewindTells
  <2>6. SInv'
    BY <1>2, <1>3, <2>2, <2>3, <2>4, <2>5, OwnerMoves
  <2> QED BY <2>2, <2>6 DEF Speech
<1>8. CASE turn[a].pc = "dropindex" /\ DropIndex(a) /\ Moves(a, "mark")
  <2> DEFINE t == To(a, "mark")
  <2>1. t.pc = "mark" /\ t.cut = turn[a].cut /\ t.target = turn[a].target
    BY ToIs
  <2>2. turn' = [turn EXCEPT ![a] = t] /\ file' = file /\ index' = None /\ faults' = faults
        /\ sess' = [sess EXCEPT ![a].ckpt = None]
    BY <1>8 DEF Moves, DropIndex
  <2> DEFINE r == sess'[a]
  <2>3. r.ckpt = None /\ r.events = s.events /\ r.base = s.base /\ r.stamp = s.stamp
    BY <1>3, <1>5, <2>2 DEF OpenSession
  <2> HIDE DEF t, r
  <2>4. Follows(r, file)
    BY <1>4, <2>3 DEF Follows
  <2>5. JobTells(t, r, file)
    BY <1>2, <1>3, <2>4, <2>1, <2>3, <1>6 DEF JobTells
  <2>6. RewindTells(t, r, index', tree', saved')
    BY <1>2, <2>1, <2>2, <2>3 DEF RewindTells
  <2>7. IndexTells(index', file')
    BY <2>2 DEF IndexTells
  <2>8. SInv'
    BY <1>2, <1>3, <2>2, <2>5, <2>6, <2>7, OwnerMoves DEF r
  <2> QED BY <2>2, <2>8 DEF Speech
<1> QED BY <1>7, <1>8 DEF RewindIndex

(* What a rewind unsays: the message it was asked to take back, and all after it. *)
Unsent(a) ==
  /\ OpenCalls(Said) = {}
  /\ \E i \in DOMAIN Said : /\ Said[i].k = "user" /\ Said[i].id = turn[a].target
                            /\ Folded(file'.lines) = SubSeq(Said, 1, i - 1)

(* A log cut where a rewind cuts it tells as much.                                *)
LEMMA CutTells ==
  ASSUME NEW f, FileFits(f), LogTells(f), f.lines # <<>>, NEW n \in 1..(Len(Folded(f.lines)) - 1),
         Folded(f.lines)[n + 1].k = "user", NEW y \in Entry, y.k = "rewind", y.n = n,
         NEW g, g.lines = Append(f.lines, y), g.stamp = f.stamp + 1
  PROVE  /\ Folded(g.lines) = SubSeq(Folded(f.lines), 1, n) /\ g.lines # <<>> /\ LogTells(g)
         /\ OpenCalls(Folded(g.lines)) = {}
<1> DEFINE log == Folded(f.lines)
           q == SubSeq(log, 1, n)
<1>1. /\ f.lines \in Seq(Entry) /\ f.stamp \in Nat /\ log \in Seq(Entry) /\ Len(log) \in Nat
      /\ FoldsCleanly(f.lines) /\ Sound(log, f.stamp)
  BY LogIs, LenProperties DEF LogTells
<1>2. n \in 1..Len(log) /\ n < Len(log) /\ n <= Len(log) /\ log[n + 1].k = "user"
  BY <1>1
<1>3. FoldsCleanly(g.lines) /\ Folded(g.lines) = q
  <2>1. FoldsCleanly(Append(f.lines, y)) /\ Folded(Append(f.lines, y)) = Then(log, y)
    BY <1>1, <1>2, CleanGrows
  <2> QED BY <2>1 DEF Then
<1>4. q \in Seq(Entry) /\ Len(q) = n /\ \A i \in 1..n : q[i] = log[i]
  <2>1. 1 \in 1..(Len(log) + 1) /\ n \in (1 - 1)..Len(log)
    BY <1>1, <1>2
  <2> HIDE DEF log
  <2>2. q \in Seq(Entry) /\ Len(q) = n - 1 + 1 /\ \A i \in 1..(n - 1 + 1) : q[i] = log[1 + i - 1]
    BY <1>1, <2>1, SubSeqProperties
  <2>3. n - 1 + 1 = n /\ \A i \in 1..n : 1 + i - 1 = i
    BY <1>2
  <2> QED BY <2>2, <2>3
<1> HIDE DEF log, q
<1>5. Sound(q, f.stamp) /\ OpenCalls(q) = {}
  BY <1>1, <1>2, <1>4, SoundPrefix
<1>6. Sound(q, g.stamp)
  <2>1. f.stamp + 1 \in Nat /\ f.stamp <= f.stamp + 1
    BY <1>1
  <2> QED BY <1>1, <1>4, <1>5, <2>1, SoundLater
<1>7. g.lines # <<>>
  BY <1>1, Grown, EmptySeq
<1> QED BY <1>3, <1>5, <1>6, <1>7 DEF LogTells, log, q

(* The rewind is marked, or is not.                                               *)
LEMMA MarkRewindTells ==
  ASSUME IInv, SInv, NEW a \in Actor, MarkRewind(a)
  PROVE  SInv' /\ (file'.lines = file.lines \/ Unsent(a))
<1> DEFINE e == Marker(a, turn[a].cut)
           t == Leaving(a)
           new == [e EXCEPT !.id = file.stamp + 1]
<1>1. turn[a].pc = "mark" /\ turn[a].pc \in Marking /\ UNCHANGED restVars /\ Writes(a, e, t, t)
  BY DEF MarkRewind, Marking
<1>2. /\ turn[a].pc \in Opens \ {"meta"} /\ turn[a].pc \notin {"closing", "finish"} /\ turn[a].pc \notin Owing
      /\ OpenCalls(Said) = {} /\ sess[a].stamp = file.stamp /\ \E n : RewindPoint(a, n)
  BY <1>1, RewindIs
<1>3. /\ FileFits(file) /\ LogTells(file) /\ IndexTells(index, file) /\ file.lines # <<>> /\ at[a] = "held"
      /\ sess[a] \in OpenSession /\ Said = Folded(file.lines) /\ file.stamp \in Nat
      /\ Said \in Seq(Entry) /\ Len(Said) \in Nat
  BY <1>2, OpenTells, LenProperties
<1>4. sess[a].ckpt = None /\ index = None
  <2>1. RewindTells(turn[a], sess[a], index, tree, saved)
    BY <1>2, HereIs
  <2> QED BY <1>1, <2>1 DEF RewindTells
<1>5. PICK n : RewindPoint(a, n)
  BY <1>2
<1>6. /\ n = Canonical(sess[a].base, turn[a].cut) /\ n \in 1..(Len(Said) - 1) /\ n + 1 \in DOMAIN Said
      /\ Said[n + 1].k = "user" /\ Said[n + 1].id = turn[a].target
  BY <1>3, <1>5 DEF RewindPoint
<1>7. e \in Entry /\ e.k = "rewind" /\ e.n = n
  <2>1. "rewind" \in Kinds /\ n \in Nat /\ e = [Event("rewind") EXCEPT !.n = n]
    BY <1>6 DEF Kinds, Marker
  <2> QED BY <2>1, EventsAre DEF Event
<1>8. t.pc = "leave"
  BY ToIs DEF Leaving
<1> HIDE DEF e, t
<1>9. new \in Entry /\ new.k = "rewind" /\ new.n = n /\ CanonicalEvent(a, new) = new
  <2>1. file.stamp + 1 \in Nat
    BY <1>3
  <2>2. new \in Entry /\ new.k = "rewind" /\ new.n = n
    BY <1>7, <2>1 DEF Entry
  <2> QED BY <2>2 DEF CanonicalEvent
<1>10. t.pc \notin Opens /\ t.pc \notin Owing /\ t.pc \notin Marking
  BY <1>8 DEF Opens, Owing, Marking
<1>11. /\ \A f : \A s : JobTells(t, s, f)
       /\ \A s, ix, now, kept : RewindTells(t, s, ix, now, kept)
  BY <1>10, Unmarked DEF JobTells
<1>12. turn' = [turn EXCEPT ![a] = t] /\ index' = None
       /\ \/ file' = file
          \/ file'.lines = file.lines /\ file'.stamp = file.stamp + 1
          \/ file'.lines = Append(file.lines, new) /\ file'.stamp = file.stamp + 1
  <2>1. CASE MayAppend(a, e) /\ Appends(a, e) /\ turn' = [turn EXCEPT ![a] = t]
    <3> DEFINE s == [sess[a] EXCEPT !.events = Append(@, new), !.stamp = file.stamp + 1]
    <3>1. /\ file' = [file EXCEPT !.lines = Append(@, CanonicalEvent(a, new)), !.stamp = @ + 1]
          /\ Refreshes(a, s)
      BY <1>7, <2>1 DEF Appends
    <3>2. s.ckpt = None
      BY <1>3, <1>4 DEF OpenSession
    <3>3. index' = index
      BY <3>1, <3>2 DEF Refreshes
    <3>4. file'.lines = Append(file.lines, new) /\ file'.stamp = file.stamp + 1
      BY <1>3, <1>9, <3>1 DEF FileFits
    <3> QED BY <1>4, <2>1, <3>3, <3>4
  <2>2. CASE MayAppend(a, e) /\ AppendFails(a, e) /\ turn' = [turn EXCEPT ![a] = t]
    <3> HIDE DEF new
    <3>0. new = [e EXCEPT !.id = file.stamp + 1]
      BY DEF new
    <3>1. index' = index
      BY <2>2 DEF AppendFails
    <3>2. \/ file' = file
          \/ file' = [file EXCEPT !.torn = TRUE, !.stamp = @ + 1]
          \/ file' = [file EXCEPT !.lines = Append(@, new), !.stamp = @ + 1]
      BY <1>9, <2>2, <3>0 DEF AppendFails
    <3> QED BY <1>3, <1>4, <2>2, <3>1, <3>2 DEF FileFits
  <2>3. CASE ~MayAppend(a, e) /\ AppendRefused(a) /\ turn' = [turn EXCEPT ![a] = t]
    BY <1>4, <2>3 DEF AppendRefused
  <2> QED BY <1>1, <2>1, <2>2, <2>3 DEF Writes
<1> HIDE DEF new
<1>13. IndexTells(index', file')
  BY <1>12 DEF IndexTells
<1>14. CASE file'.lines = file.lines /\ (file' = file \/ file'.stamp = file.stamp + 1)
  <2>1. LogTells(file')
    <3>1. CASE file' = file
      BY <1>3, <3>1
    <3>2. CASE file'.stamp = file.stamp + 1
      <4>1. file'.stamp \in Nat /\ file.stamp < file'.stamp
        BY <1>3, <3>2
      <4> QED BY <1>3, <1>14, <4>1, TornTells
    <3> QED BY <1>14, <3>1, <3>2
  <2>2. OpenCalls(Folded(file'.lines)) = {}
    BY <1>2, <1>3, <1>14
  <2>3. SInv'
    BY <1>3, <1>11, <1>12, <1>13, <2>1, <2>2, OwnerMoves
  <2> QED BY <1>14, <2>3
<1>15. CASE file'.lines = Append(file.lines, new) /\ file'.stamp = file.stamp + 1
  <2>1. /\ Folded(file'.lines) = SubSeq(Said, 1, n) /\ LogTells(file') /\ OpenCalls(Folded(file'.lines)) = {}
    BY <1>3, <1>6, <1>9, <1>15, CutTells
  <2>2. SInv'
    BY <1>3, <1>11, <1>12, <1>13, <2>1, OwnerMoves
  <2>3. (n + 1) - 1 = n
    BY <1>6
  <2>4. Unsent(a)
    BY <1>2, <1>6, <2>1, <2>3 DEF Unsent
  <2> QED BY <2>2, <2>4
<1> QED BY <1>12, <1>14, <1>15

--------------------------------------------------------------------------------

(* The file of a new session.                                                     *)
LEMMA CreateTells ==
  ASSUME IInv, SInv, NEW a \in Actor, Create(a)
  PROVE  SInv' /\ file'.lines = file.lines
<1>1. turn[a].job = "create" /\ turn[a].pc = "acquire" /\ at[a] = "held" /\ UNCHANGED restVars
  BY DEF Create
<1>2. LogTells(file) /\ IndexTells(index, file) /\ FileFits(file) /\ file.stamp \in Nat
      /\ index \in IndexFile \cup {None} /\ DOMAIN sess = Actor
  BY DEF SInv, IInv, LogFits, IndexFits, FileFits
<1>3. turn[a].pc \notin Owing /\ turn[a].pc \notin Opens
  BY <1>1 DEF Owing, Opens
<1>4. CASE CreateFile(a) /\ Moves(a, "meta")
  <2> DEFINE t == To(a, "meta")
             s == [events |-> <<>>, base |-> 0, stamp |-> file.stamp + 1, ckpt |-> None, tail |-> 0]
  <2>1. t.pc = "meta"
    BY ToIs
  <2>2. /\ turn' = [turn EXCEPT ![a] = t] /\ file' = [file EXCEPT !.there = TRUE, !.stamp = @ + 1]
        /\ sess' = [sess EXCEPT ![a] = s] /\ index' = index /\ faults' = faults /\ ~file.there
    BY <1>4 DEF CreateFile, Moves
  <2>3. file.lines = <<>>
    BY <1>2, <2>2 DEF FileFits
  <2>4. file'.lines = <<>> /\ file'.stamp = file.stamp + 1 /\ sess'[a] = s
    BY <1>2, <2>2, <2>3 DEF FileFits
  <2>5. Folded(<<>>) = <<>> /\ OpenCalls(<<>>) = {}
    <3>1. Folded(<<>>) = <<>>
      BY FoldOf, EmptySeq DEF Folded
    <3>2. OpenCalls(<<>>) = {}
      BY DEF OpenCalls
    <3> QED BY <3>1, <3>2
  <2>6. LogTells(file')
    BY <2>4 DEF LogTells
  <2>7. IndexTells(index', file')
    <3>1. file.stamp < file'.stamp /\ file'.stamp \in Nat
      BY <1>2, <2>4
    <3> QED BY <1>2, <2>2, <2>3, <2>4, <3>1, TornTells
  <2>8. Follows(s, file')
    <3>1. Shows(<<>>, 0, <<>>, 0)
      BY DEF Shows, Canonical
    <3>2. WellCut(<<>>, 0)
      BY DEF WellCut
    <3>3. Len(<<>>) = 0
      BY EmptySeq
    <3> QED BY <2>4, <2>5, <3>1, <3>2, <3>3 DEF Follows
  <2>9. Complete(s) /\ s.stamp = file'.stamp
    BY <2>4 DEF Complete
  <2> HIDE DEF t, s
  <2>10. JobTells(t, s, file')
    BY <2>1, <2>4, <2>5, <2>8, <2>9 DEF JobTells, Owing, Settled, Marking
  <2>11. RewindTells(t, s, index', tree', saved')
    <3>1. t.pc \notin Marking
      BY <2>1 DEF Marking
    <3> QED BY <3>1, Unmarked
  <2>12. SInv'
    BY <1>1, <2>2, <2>4, <2>5, <2>6, <2>7, <2>10, <2>11, OwnerMoves
  <2> QED BY <2>3, <2>4, <2>12
<1>5. CASE file.there /\ UNCHANGED logVars /\ Moves(a, "leave")
  <2> DEFINE t == To(a, "leave")
  <2>1. t.pc = "leave" /\ turn' = [turn EXCEPT ![a] = t]
    BY <1>5, ToIs DEF Moves
  <2> HIDE DEF t
  <2>2. t.pc \notin Opens /\ t.pc \notin Marking
    BY <2>1 DEF Opens, Marking
  <2>3. JobTells(t, sess[a], file) /\ RewindTells(t, sess[a], index, tree', saved')
    BY <2>2, Unmarked DEF JobTells
  <2>4. SInv'
    BY <1>1, <1>3, <1>5, <2>1, <2>3, QuietTells, RestIsAlone
  <2> QED BY <1>5, <2>4 DEF logVars
<1> QED BY <1>4, <1>5 DEF Create

--------------------------------------------------------------------------------
(* The first line of a log.                                                       *)
LEMMA FirstTells ==
  ASSUME NEW f, FileFits(f), f.lines = <<>>, NEW y \in Entry, y.k = "meta", y.id = f.stamp + 1, y.calls = <<>>,
         y.call = 0, NEW g, g.lines = Append(f.lines, y), g.stamp = f.stamp + 1
  PROVE  Folded(g.lines) = Append(<<>>, y) /\ LogTells(g) /\ OpenCalls(Folded(g.lines)) = {}
<1>1. f.lines \in Seq(Entry) /\ <<>> \in Seq(Entry) /\ Folded(<<>>) = <<>> /\ f.stamp \in Nat
  BY FoldOf, EmptySeq DEF FileFits, Folded
<1>2. FoldsCleanly(<<>>)
  BY DEF FoldsCleanly
<1>3. FoldsCleanly(g.lines) /\ Folded(g.lines) = Append(<<>>, y)
  <2>1. FoldsCleanly(Append(<<>>, y)) /\ Folded(Append(<<>>, y)) = Then(<<>>, y)
    BY <1>1, <1>2, CleanGrows
  <2> QED BY <2>1 DEF Then
<1> DEFINE q == Append(<<>>, y)
<1>4. DOMAIN q = 1..1 /\ q[1] = y
  <2>1. Len(<<>>) = 0
    BY EmptySeq
  <2>2. DOMAIN q = 1..(0 + 1) /\ q[0 + 1] = y
    BY <1>1, <2>1, Grown
  <2> QED BY <2>2
<1>5. Valid(q)
  BY ValidFirst
<1> HIDE DEF q
<1>6. CallsOf(y) = {} /\ Range(y.calls) = {}
  BY DEF CallsOf, Range
<1>7. Sound(q, g.stamp)
  <2>1. Spaced(q)
    BY <1>4 DEF Spaced
  <2>2. Plain(y) /\ Numbered(y, g.stamp)
    <3>1. y.id \in Nat
      BY DEF Entry
    <3> QED BY <1>1, <1>6, <3>1 DEF Plain, Numbered
  <2> QED BY <1>4, <1>5, <2>1, <2>2 DEF Sound
<1>8. OpenCalls(q) = {}
  BY <1>4, <1>6 DEF OpenCalls
<1> QED BY <1>3, <1>7, <1>8 DEF LogTells, q

(* The session of a new file has nothing in it, and no checkpoint.                *)
LEMMA NewIs ==
  ASSUME IInv, SInv, NEW a \in Actor, turn[a].pc = "meta"
  PROVE  /\ file.lines = <<>> /\ sess[a].events = <<>> /\ sess[a].stamp = file.stamp /\ sess[a].ckpt = None
         /\ sess[a] \in OpenSession /\ FileFits(file) /\ file.stamp \in Nat /\ at[a] = "held" /\ DOMAIN sess = Actor
         /\ index \in IndexFile \cup {None} /\ IndexTells(index, file)
<1>1. turn[a].pc \in Opens
  BY DEF Opens
<1>2. /\ FileFits(file) /\ file.stamp \in Nat /\ at[a] = "held" /\ sess[a] \in OpenSession /\ sess[a].events = <<>>
      /\ index \in IndexFile \cup {None} /\ DOMAIN sess = Actor
  BY <1>1, OpenIs DEF HasOpen, SessionFits, FileFits, IndexFits
<1>3. /\ file.lines = <<>> /\ sess[a].stamp = file.stamp /\ Follows(sess[a], file) /\ IndexTells(index, file)
  <2>1. JobTells(turn[a], sess[a], file) /\ IndexTells(index, file)
    BY DEF SInv
  <2> QED BY <1>1, <2>1 DEF JobTells
<1>4. Folded(file.lines) = <<>>
  BY <1>3, FoldOf, EmptySeq DEF Folded
<1>5. sess[a].ckpt = None
  <2>1. SUFFICES ASSUME sess[a].ckpt # None PROVE FALSE
    OBVIOUS
  <2> DEFINE ix == sess[a].ckpt
             log == Folded(file.lines)
  <2>2. ix \in IndexFile /\ log \in Seq(Entry) /\ Len(log) = 0
    BY <1>2, <1>4, <2>1, EmptySeq DEF OpenSession
  <2>3. Shows(ix.window, ix.start, log, Reach(ix)) /\ ix.start > 0
    BY <1>3, <2>1 DEF Follows, Covers, Newest
  <2> HIDE DEF ix, log
  <2>4. ix.window \in Seq(Entry) /\ ix.start \in Nat
    BY <2>2 DEF IndexFile
  <2>5. Reach(ix) \in 0..Len(log) /\ ix.start < Reach(ix)
    BY <2>2, <2>3, <2>4, ShownAre
  <2> QED BY <2>2, <2>4, <2>5
<1> QED BY <1>2, <1>3, <1>5

(* The first line of a session is its metadata.                                   *)
Begun == file.lines = <<>> /\ \E y : y.k = "meta" /\ Folded(file'.lines) = Append(<<>>, y)

(* A job that finds the file empty writes the metadata, and nothing else.         *)
LEMMA WriteMetaTells ==
  ASSUME IInv, SInv, NEW a \in Actor, WriteMeta(a)
  PROVE  SInv' /\ (file'.lines = file.lines \/ Begun)
<1> DEFINE e == Event("meta")
           t == Leaving(a)
           new == [e EXCEPT !.id = file.stamp + 1]
<1>1. turn[a].pc = "meta" /\ UNCHANGED restVars /\ Writes(a, e, t, t)
  BY DEF WriteMeta
<1>2. /\ file.lines = <<>> /\ sess[a].events = <<>> /\ sess[a].stamp = file.stamp /\ sess[a].ckpt = None
      /\ sess[a] \in OpenSession /\ FileFits(file) /\ file.stamp \in Nat /\ at[a] = "held" /\ DOMAIN sess = Actor
      /\ index \in IndexFile \cup {None} /\ IndexTells(index, file)
  BY <1>1, NewIs
<1>3. t.pc = "leave"
  BY ToIs DEF Leaving
<1>4. e \in Entry /\ e.k = "meta" /\ e.calls = <<>> /\ e.call = 0
  <2>1. "meta" \in Kinds
    BY DEF Kinds
  <2> QED BY <2>1, EventsAre, FormsAre
<1> HIDE DEF e, t
<1>5. /\ new \in Entry /\ new.k = "meta" /\ new.id = file.stamp + 1 /\ new.calls = <<>> /\ new.call = 0
      /\ CanonicalEvent(a, new) = new
  <2>1. file.stamp + 1 \in Nat
    BY <1>2
  <2>2. new \in Entry /\ new.k = "meta" /\ new.id = file.stamp + 1 /\ new.calls = <<>> /\ new.call = 0
    BY <1>4, <2>1 DEF Entry
  <2> QED BY <2>2 DEF CanonicalEvent
<1>6. t.pc \notin Opens /\ t.pc \notin Owing /\ t.pc \notin Marking
  BY <1>3 DEF Opens, Owing, Marking
<1>7. /\ \A f : \A s : JobTells(t, s, f)
      /\ \A s, ix, now, kept : RewindTells(t, s, ix, now, kept)
  BY <1>6, Unmarked DEF JobTells
<1>8. MayAppend(a, e)
  BY <1>2, <1>4 DEF MayAppend, AllowedWhileUnanswered
<1>9. turn' = [turn EXCEPT ![a] = t] /\ index' = index
      /\ \/ file' = file
         \/ file'.lines = file.lines /\ file'.stamp = file.stamp + 1
         \/ file'.lines = Append(file.lines, new) /\ file'.stamp = file.stamp + 1
  <2>1. CASE Appends(a, e) /\ turn' = [turn EXCEPT ![a] = t]
    <3> DEFINE s == [sess[a] EXCEPT !.events = Append(@, new), !.stamp = file.stamp + 1]
    <3>1. /\ file' = [file EXCEPT !.lines = Append(@, CanonicalEvent(a, new)), !.stamp = @ + 1]
          /\ Refreshes(a, s)
      BY <1>4, <2>1 DEF Appends
    <3>2. s.ckpt = None
      BY <1>2 DEF OpenSession
    <3>3. index' = index
      BY <3>1, <3>2 DEF Refreshes
    <3>4. file'.lines = Append(file.lines, new) /\ file'.stamp = file.stamp + 1
      BY <1>2, <1>5, <3>1 DEF FileFits
    <3> QED BY <2>1, <3>3, <3>4
  <2>2. CASE AppendFails(a, e) /\ turn' = [turn EXCEPT ![a] = t]
    <3> HIDE DEF new
    <3>0. new = [e EXCEPT !.id = file.stamp + 1]
      BY DEF new
    <3>1. index' = index
      BY <2>2 DEF AppendFails
    <3>2. \/ file' = file
          \/ file' = [file EXCEPT !.torn = TRUE, !.stamp = @ + 1]
          \/ file' = [file EXCEPT !.lines = Append(@, new), !.stamp = @ + 1]
      BY <1>5, <2>2, <3>0 DEF AppendFails
    <3> QED BY <1>2, <2>2, <3>1, <3>2 DEF FileFits
  <2> QED BY <1>1, <1>8, <2>1, <2>2 DEF Writes
<1> HIDE DEF new
<1>10. file' = file \/ (file'.stamp \in Nat /\ file.stamp < file'.stamp)
  BY <1>2, <1>9
<1>11. IndexTells(index', file')
  <2>1. index # None => index.stamp \in Nat /\ index.stamp <= file.stamp
    BY <1>2 DEF IndexFile, IndexTells
  <2> QED BY <1>2, <1>9, <1>10, <2>1 DEF IndexTells
<1>12. CASE file'.lines = file.lines
  <2>1. LogTells(file')
    BY <1>2, <1>12 DEF LogTells
  <2>2. OpenCalls(Folded(file'.lines)) = {}
    <3>1. Folded(<<>>) = <<>>
      BY FoldOf, EmptySeq DEF Folded
    <3> QED BY <1>2, <1>12, <3>1 DEF OpenCalls
  <2>3. SInv'
    BY <1>2, <1>7, <1>9, <1>11, <2>1, <2>2, OwnerMoves
  <2> QED BY <1>12, <2>3
<1>13. CASE file'.lines = Append(file.lines, new) /\ file'.stamp = file.stamp + 1
  <2>1. Folded(file'.lines) = Append(<<>>, new) /\ LogTells(file') /\ OpenCalls(Folded(file'.lines)) = {}
    BY <1>2, <1>5, <1>13, FirstTells
  <2>2. SInv'
    BY <1>2, <1>7, <1>9, <1>11, <2>1, OwnerMoves
  <2> QED BY <1>2, <1>5, <2>1, <2>2 DEF Begun
<1> QED BY <1>9, <1>12, <1>13

(* A session is deleted: its sidecars, then its log.                              *)
LEMMA DeleteTells ==
  ASSUME IInv, SInv, NEW a \in Actor, Delete(a)
  PROVE  SInv' /\ (file'.lines = file.lines \/ file'.lines = <<>>)
<1>1. /\ LogTells(file) /\ IndexTells(index, file) /\ FileFits(file) /\ file.stamp \in Nat
      /\ index \in IndexFile \cup {None} /\ plan' = plan /\ kills' = kills
      /\ turn[a].pc \in {"acquire", "deletelog"}
  BY DEF SInv, IInv, LogFits, IndexFits, FileFits, Delete
<1>2. at[a] = "held" /\ turn[a].pc \notin Owing
  <2>1. turn[a].pc \notin {"idle", "acquire"} => at[a] = "held"
    BY ActorIs DEF HoldFits
  <2> QED BY <1>1, <2>1 DEF Delete, Owing
<1>3. ASSUME NEW t, t.pc \in {"deletelog", "leave"}
      PROVE  /\ t.pc \notin Owing /\ JobTells(t, sess'[a], file')
             /\ RewindTells(t, sess'[a], index', tree', saved')
  <2>1. t.pc \notin Opens /\ t.pc \notin Owing /\ t.pc \notin Marking
    BY <1>3 DEF Opens, Owing, Marking
  <2> QED BY <2>1, Unmarked DEF JobTells
<1>4. CASE DeleteSidecars(a) /\ Moves(a, "deletelog")
  <2> DEFINE t == To(a, "deletelog")
  <2>1. t.pc = "deletelog" /\ turn' = [turn EXCEPT ![a] = t] /\ index' = None /\ file' = file /\ faults' = faults
    BY <1>4, ToIs DEF Moves, DeleteSidecars
  <2> HIDE DEF t
  <2>2. IndexTells(index', file')
    BY <2>1 DEF IndexTells
  <2>3. kills' = plan'.kills /\ faults' = plan'.faults /\ t.pc \notin Owing
           => OpenCalls(Folded(file'.lines)) = {} \/ IsPending(Folded(file'.lines))
    <3>1. Folded(file'.lines) = Said
      BY <2>1 DEF Said
    <3> QED BY <1>1, <1>2, <2>1, <3>1, CalmIs
  <2>4. LogTells(file')
    BY <1>1, <2>1
  <2>5. t.pc \notin Owing /\ JobTells(t, sess'[a], file') /\ RewindTells(t, sess'[a], index', tree', saved')
    BY <1>3, <2>1
  <2>6. SInv'
    BY <1>2, <2>1, <2>2, <2>3, <2>4, <2>5, OwnerMoves
  <2> QED BY <2>1, <2>6
<1>5. CASE DeleteLog(a) /\ Moves(a, "leave")
  <2> DEFINE t == To(a, "leave")
  <2>1. t.pc = "leave" /\ turn' = [turn EXCEPT ![a] = t] /\ index' = index
        /\ file' = [NoFileYet EXCEPT !.stamp = file.stamp + 1]
    BY <1>5, ToIs DEF Moves, DeleteLog
  <2> HIDE DEF t
  <2>2. file'.lines = <<>> /\ file'.stamp = file.stamp + 1
    BY <2>1 DEF NoFileYet
  <2>3. IndexTells(index', file')
    <3>1. index # None => index.stamp \in Nat /\ index.stamp <= file.stamp
      BY <1>1 DEF IndexFile, IndexTells
    <3> QED BY <1>1, <2>1, <2>2, <3>1 DEF IndexTells
  <2>4. OpenCalls(Folded(file'.lines)) = {}
    <3>1. Folded(<<>>) = <<>>
      BY FoldOf, EmptySeq DEF Folded
    <3> QED BY <2>2, <3>1 DEF OpenCalls
  <2>5. LogTells(file')
    BY <2>2 DEF LogTells
  <2>6. t.pc \notin Owing /\ JobTells(t, sess'[a], file') /\ RewindTells(t, sess'[a], index', tree', saved')
    BY <1>3, <2>1
  <2>7. SInv'
    BY <1>2, <2>1, <2>3, <2>4, <2>5, <2>6, OwnerMoves
  <2> QED BY <2>2, <2>7
<1> QED BY <1>4, <1>5 DEF Delete

(* What a load makes of the log: the session it opens shows all of it.            *)
Opened(s) ==
  /\ s \in OpenSession /\ s.stamp = file'.stamp /\ Valid(s.events)
  /\ FileFits(file') /\ file'.lines = file.lines /\ file.lines # <<>>
  /\ LogTells(file') /\ IndexTells(index', file')
  /\ Follows(s, file') /\ Complete(s)

(* What it shows open is what is.                                                 *)
LEMMA OpenedOwes ==
  ASSUME NEW s, Opened(s)
  PROVE  LET todo == Interrupted(s.events)
             open == OpenCalls(Folded(file'.lines))
         IN /\ todo \in Seq(Call) /\ IsInjective(todo)
            /\ todo # <<>> => Range(todo) = open
            /\ todo = <<>> => open = {} \/ IsPending(Folded(file'.lines))
<1> DEFINE log == Folded(file'.lines)
           w == s.events
<1>1. /\ w \in Seq(Entry) /\ s.base \in Nat /\ log \in Seq(Entry) /\ Valid(w)
      /\ Shows(w, s.base, log, Len(log)) /\ OpenCalls(w) = OpenCalls(log)
      /\ \A i \in DOMAIN log : Plain(log[i])
  BY LogIs DEF Opened, OpenSession, Follows
<1> HIDE DEF log, w
<1>2. \A i \in DOMAIN w : w[i].k # "asst" => w[i].calls = <<>>
  <2>1. SUFFICES ASSUME NEW i \in DOMAIN w, w[i].k # "asst" PROVE w[i].calls = <<>>
    OBVIOUS
  <2>2. i \in 1..Len(w) /\ Len(log) \in Nat
    BY <1>1, LenProperties
  <2>3. At(s.base, i) \in 1..Len(log) /\ Alike(s.base, w[i], log[At(s.base, i)])
    BY <1>1, <2>2, ShownAre
  <2>4. At(s.base, i) \in DOMAIN log
    BY <1>1, <2>3, LenProperties
  <2> QED BY <1>1, <2>1, <2>3, <2>4 DEF Alike, Plain
<1>3. Range(Unanswered(w)) = OpenCalls(w) /\ IsInjective(Unanswered(w))
      /\ (OpenCalls(w) = {} <=> Unanswered(w) = <<>>)
  BY <1>1, <1>2, UnansweredTell
<1>4. Unanswered(w) \in Seq(Call) /\ <<>> \in Seq(Call)
  BY <1>1, UnansweredAre, EmptySeq
<1>5. IsPending(w) <=> IsPending(log)
  BY <1>1 DEF IsPending
<1>6. IsInjective(<<>>)
  BY DEF IsInjective
<1>7. Interrupted(w) = IF IsPending(w) THEN <<>> ELSE Unanswered(w)
  BY DEF Interrupted
<1>8. CASE IsPending(w)
  BY <1>4, <1>5, <1>6, <1>7, <1>8 DEF log, w
<1>9. CASE ~IsPending(w)
  BY <1>1, <1>3, <1>4, <1>7, <1>9 DEF log, w
<1> QED BY <1>8, <1>9

(* A job that has opened the session owes the answers it found missing.           *)
LEMMA LoadedTells ==
  ASSUME IInv, SInv, NEW a \in Actor, at[a] = "held", turn[a].pc = "acquire",
         NEW s, Opened(s), sess' = [sess EXCEPT ![a] = s],
         turn' = [turn EXCEPT ![a] = Answering(turn[a], Interrupted(s.events), "begin")],
         plan' = plan, kills' = kills
  PROVE  SInv' /\ file'.lines = file.lines
<1> DEFINE todo == Interrupted(s.events)
           t == Answering(turn[a], todo, "begin")
           log == Folded(file'.lines)
           open == OpenCalls(log)
<1>1. /\ todo \in Seq(Call) /\ IsInjective(todo) /\ (todo # <<>> => Range(todo) = open)
      /\ (todo = <<>> => open = {} \/ IsPending(log))
  BY OpenedOwes
<1>2. sess'[a] = s
  <2>1. DOMAIN sess = Actor
    BY DEF IInv, LogFits
  <2> QED BY <2>1
<1>3. LogTells(file') /\ IndexTells(index', file') /\ s.stamp = file'.stamp /\ file'.lines = file.lines
      /\ file'.lines # <<>> /\ Follows(s, file') /\ Complete(s)
  BY DEF Opened
<1>4. turn[a] \in TurnOf(turn[a].target) /\ "begin" \in Nexts
  BY ActorIs DEF TurnFits, Nexts
<1>5. turn' = [turn EXCEPT ![a] = t]
  OBVIOUS
<1> HIDE DEF todo
<1>6. t.todo = todo /\ t.pc = IF todo = <<>> THEN "begin" ELSE "answers"
  BY <1>1, <1>4, AnsweringIs
<1> HIDE DEF t
<1>7. t.pc \in Owing => Range(t.todo) = open /\ IsInjective(t.todo)
  BY <1>1, <1>6 DEF Owing
<1>8. t.pc \notin {"meta", "asking", "compactstart", "closing", "finish"} /\ t.pc \notin Settled /\ t.pc \notin Marking
  BY <1>6 DEF Settled, Marking
<1>9. t.pc = "begin" => open = {} \/ IsPending(log)
  BY <1>1, <1>6
<1>10. t.pc \notin Owing => open = {} \/ IsPending(log)
  BY <1>6, <1>9 DEF Owing
<1>11. JobTells(t, s, file')
  BY <1>3, <1>7, <1>8, <1>9 DEF JobTells
<1>12. RewindTells(t, s, index', tree', saved')
  BY <1>8, Unmarked
<1> HIDE DEF log, open
<1>13. SInv'
  BY <1>2, <1>3, <1>5, <1>10, <1>11, <1>12, OwnerMoves DEF log, open
<1> QED BY <1>3, <1>13

(* A load through the index.                                                      *)
LEMMA IndexedOpens ==
  ASSUME IInv, SInv, NEW a \in Actor, Usable(index), LoadIndexed(a)
  PROVE  \E s : Opened(s) /\ sess' = [sess EXCEPT ![a] = s]
<1> DEFINE t == TailOf(index)
           w == Indexed(index)
           s == [events |-> w, base |-> index.start, stamp |-> file.stamp, ckpt |-> index,
                 tail |-> Len(index.window)]
           log == Folded(file.lines)
<1>1. FileFits(file) /\ IndexFits(index, file.stamp) /\ LogTells(file) /\ IndexTells(index, file)
      /\ index # None /\ index.stamp = file.stamp /\ Valid(w) /\ TailFits(index)
      /\ w = index.window \o t /\ t = SubSeq(file.lines, index.offset + 1, Len(file.lines))
  BY DEF IInv, LogFits, SInv, Usable, TailOf, Indexed
<1>2. index \in IndexFile /\ w \in Seq(Entry) /\ Len(index.window) \in Nat /\ file.stamp \in Nat
  BY <1>1, IndexedAre DEF IndexFits, FileFits
<1>3. Covers(index, log, file.lines)
  BY <1>1 DEF IndexTells
<1>4. file.lines \in Seq(Entry) /\ log \in Seq(Entry)
  BY <1>1, LogIs
<1>5. \A i \in DOMAIN t : t[i].k # "compaction"
  BY <1>1 DEF TailFits
<1>6. file' = file /\ index' = index /\ sess' = [sess EXCEPT ![a] = s]
  BY DEF LoadIndexed
<1>7. s \in OpenSession
  <2>1. index.start \in Nat /\ index \in IndexFile \cup {None}
    BY <1>2 DEF IndexFile
  <2> HIDE DEF w
  <2> QED BY <1>2, <2>1 DEF OpenSession
<1>8. s.events = index.window \o t /\ s.base = index.start /\ s.ckpt = index /\ s.tail = Len(index.window)
      /\ s.stamp = file.stamp /\ s.events = w
  BY <1>1
<1> HIDE DEF t, w, s
<1>9. t = SubSeq(file.lines, index.offset + 1, Len(file.lines))
  BY <1>1
<1>10. file.lines # <<>>
  <2> HIDE DEF log
  <2>1. Len(log) >= 1
    <3>1. Shows(index.window, index.start, log, Reach(index)) /\ index.start > 0
      BY <1>3 DEF Covers, Newest
    <3>2. index.window \in Seq(Entry) /\ index.start \in Nat
      BY <1>2 DEF IndexFile
    <3>3. Reach(index) \in 0..Len(log) /\ index.start < Reach(index)
      BY <1>4, <3>1, <3>2, ShownAre
    <3>4. Len(log) \in Nat
      BY <1>4, LenProperties
    <3> QED BY <3>2, <3>3, <3>4
  <2>2. log # <<>>
    BY <2>1, EmptySeq
  <2> QED BY <1>1, <2>2, LogIs DEF log
<1>11. Follows(s, file)
  BY <1>1, <1>2, <1>3, <1>5, <1>8, <1>9, <1>10, LoadFollows
<1>12. Complete(s)
  BY <1>1, <1>8 DEF Complete
<1>13. Opened(s)
  BY <1>1, <1>6, <1>7, <1>8, <1>10, <1>11, <1>12 DEF Opened
<1> QED BY <1>6, <1>13

(* The file a full load leaves: cut where a line was torn, and the same lines.    *)
LEMMA MendedTells ==
  ASSUME IInv, SInv, NEW a \in Actor, file.there, Replays(file.lines), LoadWhole(a)
  PROVE  /\ FileFits(file') /\ file'.there /\ file'.stamp \in Nat /\ file.stamp <= file'.stamp
         /\ file'.lines = file.lines /\ LogTells(file')
         /\ \A ix \in IndexFile \cup {None} : IndexTells(ix, file) => IndexTells(ix, file')
<1>1. FileFits(file) /\ LogTells(file)
  BY DEF IInv, LogFits, SInv
<1>2. file.stamp \in Nat /\ file' = IF file.torn THEN [file EXCEPT !.torn = FALSE, !.stamp = @ + 1] ELSE file
  BY <1>1 DEF LoadWhole, FileFits
<1>3. CASE file.torn
  <2>1. FileFits(file') /\ file'.there /\ file'.stamp = file.stamp + 1 /\ file'.lines = file.lines
    BY <1>1, <1>2, <1>3, TornFits
  <2>2. file'.stamp \in Nat /\ file.stamp < file'.stamp /\ file.stamp <= file'.stamp
    BY <1>2, <2>1
  <2> QED BY <1>1, <2>1, <2>2, TornTells
<1>4. CASE ~file.torn
  BY <1>1, <1>2, <1>4
<1> QED BY <1>3, <1>4

(* A load in full.                                                                *)
LEMMA WholeOpens ==
  ASSUME IInv, SInv, NEW a \in Actor, file.there, Replays(file.lines), LoadWhole(a)
  PROVE  \E s : Opened(s) /\ sess' = [sess EXCEPT ![a] = s]
<1> DEFINE q == Folded(file.lines)
           n == file'.stamp
           s == [events |-> q, base |-> 0, stamp |-> n, ckpt |-> None, tail |-> 0]
           cut == CompactionCut(q)
           ck == Checkpoint(s, cut)
           r == [events |-> ck.window, base |-> ck.start, stamp |-> n, ckpt |-> ck, tail |-> Len(ck.window)]
<1>1. /\ FileFits(file') /\ file'.there /\ n \in Nat /\ file'.lines = file.lines /\ LogTells(file')
      /\ \A ix \in IndexFile \cup {None} : IndexTells(ix, file) => IndexTells(ix, file')
  BY MendedTells
<1>2. file.lines # <<>> /\ Valid(q) /\ q \in Seq(Entry) /\ IndexTells(index, file)
      /\ index \in IndexFile \cup {None}
  <2>1. FileFits(file) /\ LogTells(file) /\ IndexTells(index, file) /\ IndexFits(index, file.stamp)
    BY DEF IInv, LogFits, SInv
  <2> QED BY <2>1, LogIs DEF Replays, IndexFits
<1>3. \/ sess' = [sess EXCEPT ![a] = s] /\ index' = index
      \/ Sealable(s, cut) /\ index' = ck /\ sess' = [sess EXCEPT ![a] = r]
  BY DEF LoadWhole
<1>4. s \in OpenSession /\ s.events = q /\ s.base = 0 /\ s.stamp = n /\ s.ckpt = None /\ s.tail = 0
  BY <1>1, <1>2 DEF OpenSession
<1> HIDE DEF s
<1>5. /\ Follows(s, file') /\ Complete(s)
      /\ \A c \in IndexFile : \A u :
           (/\ u = CompactionCut(s.events) /\ Sealable(s, u) /\ c.window = Sealed(s.events, u)
            /\ c.start = Canonical(0, u) /\ c.offset = Len(file'.lines) /\ c.known = KnownCalls(s))
           => /\ Covers(c, Folded(file'.lines), file'.lines)
              /\ \A o : (/\ o.events = c.window /\ o.base = c.start /\ o.ckpt = c
                         /\ o.tail = Len(c.window)) => Follows(o, file')
  BY <1>1, <1>2, <1>4, WholeFollows
<1>6. CASE sess' = [sess EXCEPT ![a] = s] /\ index' = index
  <2>1. Opened(s)
    BY <1>1, <1>2, <1>4, <1>5, <1>6 DEF Opened
  <2> QED BY <1>6, <2>1
<1>7. CASE Sealable(s, cut) /\ index' = ck /\ sess' = [sess EXCEPT ![a] = r]
  <2>1. SessionFits(s, n)
    <3>1. Rooted(q)
      BY <1>2 DEF Valid, Rooted
    <3>2. Dated(q, n)
      <4>1. FoldsCleanly(file.lines) /\ file.lines \in Seq(Entry) /\ Dated(file.lines, n)
        BY <1>1, <1>2 DEF LogTells, FileFits
      <4>2. \A i \in DOMAIN q : \E j \in DOMAIN file.lines : q[i] = file.lines[j]
        BY <4>1, FoldIsClean
      <4> QED BY <4>1, <4>2 DEF Dated
    <3>3. Len(q) \in Nat /\ 0 <= Len(q) /\ n <= n
      BY <1>1, <1>2, LenProperties
    <3> HIDE DEF q, n
    <3> QED BY <1>4, <3>1, <3>2, <3>3 DEF SessionFits, IndexFits
  <2>2. cut \in Nat
    <3>1. cut \in 0..Len(q) /\ Len(q) \in Nat
      BY <1>2, CutIs, LenProperties
    <3> QED BY <3>1
  <2> HIDE DEF cut, n, q
  <2>3. ck \in IndexFile /\ IndexFits(ck, n)
    BY <1>1, <1>7, <2>1, <2>2, CheckpointsFit DEF n
  <2>4. ck.window = Sealed(s.events, cut) /\ ck.start = Canonical(0, cut) /\ ck.offset = Len(file'.lines)
        /\ ck.known = KnownCalls(s) /\ ck.stamp = n
    BY <1>4 DEF Checkpoint, n
  <2>5. cut = CompactionCut(s.events)
    BY <1>4 DEF cut
  <2>6. ck.window \in Seq(Entry) /\ ck.start \in Nat /\ Len(ck.window) \in Nat
    BY <2>3, LenProperties DEF IndexFile
  <2>7. Valid(ck.window)
    BY <1>7, <2>4 DEF Sealable
  <2> HIDE DEF ck
  <2>8. r \in OpenSession /\ r.events = ck.window /\ r.base = ck.start /\ r.ckpt = ck /\ r.tail = Len(ck.window)
        /\ r.stamp = n
    BY <1>1, <2>3, <2>6 DEF OpenSession
  <2> HIDE DEF r
  <2>9. Covers(ck, Folded(file'.lines), file'.lines) /\ Follows(r, file')
    BY <1>5, <1>7, <2>3, <2>4, <2>5, <2>8
  <2>10. IndexTells(index', file')
    BY <1>1, <1>7, <2>4, <2>9 DEF IndexTells, n
  <2>11. ck # None
    BY <2>3, NoneAssumption
  <2>12. Complete(r)
    BY <2>8, <2>11 DEF Complete
  <2>13. Opened(r)
    BY <1>1, <1>2, <2>7, <2>8, <2>9, <2>10, <2>12 DEF Opened, n
  <2> QED BY <1>7, <2>13
<1> QED BY <1>3, <1>6, <1>7

(* A session is loaded, or cannot be.                                             *)
LEMMA LoadTells ==
  ASSUME IInv, SInv, NEW a \in Actor, Load(a)
  PROVE  SInv' /\ file'.lines = file.lines
<1>1. turn[a].pc = "acquire" /\ at[a] = "held" /\ UNCHANGED restVars
  BY DEF Load
<1>2. plan' = plan /\ kills' = kills
  BY <1>1, RestIsAlone
<1>3. CASE Loadable
  <2>1. Loads(a) /\ turn' = [turn EXCEPT ![a] = Answering(turn[a], Interrupted(sess'[a].events), "begin")]
    <3>1. turn = [turn EXCEPT ![a] = turn[a]] /\ DOMAIN turn = Actor
      BY ActorIs
    <3> QED BY <1>3, <3>1 DEF Load
  <2>2. \E s : Opened(s) /\ sess' = [sess EXCEPT ![a] = s]
    <3>1. CASE Usable(index)
      BY <2>1, <3>1, IndexedOpens DEF Loads
    <3>2. CASE ~Usable(index)
      BY <1>3, <2>1, <3>2, WholeOpens DEF Loads, Loadable
    <3> QED BY <3>1, <3>2
  <2>3. PICK s : Opened(s) /\ sess' = [sess EXCEPT ![a] = s]
    BY <2>2
  <2>4. sess'[a] = s
    <3>1. DOMAIN sess = Actor
      BY DEF IInv, LogFits
    <3> QED BY <2>3, <3>1
  <2> QED BY <1>1, <1>2, <2>1, <2>3, <2>4, LoadedTells
<1>4. CASE ~Loadable
  <2> DEFINE t == To(a, "leave")
  <2>1. t.pc = "leave" /\ turn' = [turn EXCEPT ![a] = t] /\ UNCHANGED logVars
    BY <1>4, ToIs DEF Load, Moves
  <2> HIDE DEF t
  <2>2. t.pc \notin Opens /\ t.pc \notin Marking
    BY <2>1 DEF Opens, Marking
  <2>3. JobTells(t, sess[a], file) /\ RewindTells(t, sess[a], index, tree', saved')
    BY <2>2, Unmarked DEF JobTells
  <2>4. turn[a].pc \notin Owing
    BY <1>1 DEF Owing
  <2>5. SInv'
    BY <1>1, <1>2, <2>1, <2>3, <2>4, QuietTells
  <2> QED BY <2>1, <2>5 DEF logVars
<1> QED BY <1>3, <1>4

--------------------------------------------------------------------------------
(* A step that leaves what the log has to do with as it is: a cancellation, a     *)
(* word sent meanwhile, a lease that is given up, a look at the file.             *)
LEMMA SameTells ==
  ASSUME SInv, UNCHANGED logVars, UNCHANGED <<tree, saved, plan, kills>>,
         \A b \in Actor : /\ turn'[b].pc = turn[b].pc /\ turn'[b].todo = turn[b].todo /\ turn'[b].job = turn[b].job
                          /\ turn'[b].cut = turn[b].cut /\ turn'[b].target = turn[b].target
  PROVE  SInv' /\ file'.lines = file.lines
<1>1. file' = file /\ index' = index /\ sess' = sess /\ faults' = faults
      /\ tree' = tree /\ saved' = saved /\ plan' = plan /\ kills' = kills
  BY DEF logVars
<1>2. ASSUME NEW b \in Actor
      PROVE  JobTells(turn'[b], sess'[b], file') /\ RewindTells(turn'[b], sess'[b], index', tree', saved')
  <2>1. JobTells(turn[b], sess[b], file) /\ RewindTells(turn[b], sess[b], index, tree, saved)
    BY DEF SInv
  <2>2. JobTells(turn'[b], sess[b], file)
    BY <2>1 DEF JobTells
  <2>3. RewindTells(turn'[b], sess[b], index, tree, saved)
    BY <2>1 DEF RewindTells
  <2> QED BY <1>1, <2>2, <2>3
<1>3. CalmTells'
  <2>1. CalmTells
    BY DEF SInv
  <2> QED BY <1>1, <2>1 DEF CalmTells, Said
<1>4. LogTells(file') /\ IndexTells(index', file')
  BY <1>1 DEF SInv
<1> QED BY <1>1, <1>2, <1>3, <1>4 DEF SInv

(* A step of an actor that does not have the session open, or closes it.          *)
LEMMA AsideTells ==
  ASSUME IInv, SInv, NEW a \in Actor, turn[a].pc \notin Opens, NEW r, r.pc \notin Opens,
         turn' = [turn EXCEPT ![a] = r], UNCHANGED <<file, index, faults, tree, saved, plan, kills>>,
         \A b \in Actor : b # a => sess'[b] = sess[b]
  PROVE  SInv' /\ file'.lines = file.lines
<1>1. DOMAIN turn = Actor
  BY ActorIs
<1>2. turn'[a] = r /\ \A b \in Actor : b # a => turn'[b] = turn[b]
  BY <1>1
<1>3. Owing \subseteq Opens
  BY DEF Owing, Opens
<1>4. CalmTells'
  <2>1. CalmTells
    BY DEF SInv
  <2>2. (\A b \in Actor : turn'[b].pc \notin Owing) => \A b \in Actor : turn[b].pc \notin Owing
    BY <1>2, <1>3
  <2> QED BY <2>1, <2>2 DEF CalmTells, Said
<1>5. LogTells(file') /\ IndexTells(index', file')
  BY DEF SInv
<1>6. \A b \in Actor : turn'[b].pc \in Opens =>
         /\ turn'[b] = turn[b] /\ sess'[b] = sess[b] /\ file' = file /\ index' = index
         /\ tree' = tree /\ saved' = saved
  BY <1>2
<1> QED BY <1>4, <1>5, <1>6, SaysStay

(* A job is taken up, or passed over.                                             *)
LEMMA TakeTells ==
  ASSUME IInv, SInv, NEW a \in Actor, Take(a) \/ Skip(a)
  PROVE  SInv' /\ file'.lines = file.lines
<1>1. DOMAIN turn = Actor
  BY ActorIs
<1>2. CASE Skip(a)
  <2>1. UNCHANGED logVars /\ turn' = turn /\ UNCHANGED <<tree, saved, plan, kills>>
    BY <1>2 DEF Skip, treeVars
  <2> QED BY <2>1, SameTells
<1>3. CASE Take(a)
  <2>1. PICK t \in Targets(Head(jobs[a])) :
          turn' = [turn EXCEPT ![a] = [Idle EXCEPT !.job = Head(jobs[a]), !.pc = "acquire",
                                                   !.target = t.id, !.cut = t.cut]]
    BY <1>3 DEF Take
  <2> DEFINE r == [Idle EXCEPT !.job = Head(jobs[a]), !.pc = "acquire", !.target = t.id, !.cut = t.cut]
  <2>2. r.pc = "acquire" /\ turn' = [turn EXCEPT ![a] = r]
    BY <2>1 DEF Idle
  <2> HIDE DEF r
  <2>3. turn[a].pc \notin Opens /\ r.pc \notin Opens
    BY <1>3, <2>2 DEF Opens, Take
  <2>4. UNCHANGED <<file, index, faults, tree, saved, plan, kills>> /\ sess' = sess
    BY <1>3 DEF Take, logVars, treeVars
  <2> QED BY <2>2, <2>3, <2>4, AsideTells
<1> QED BY <1>2, <1>3

(* The lease is asked for, and given up.                                          *)
LEMMA LeaseTells ==
  ASSUME IInv, SInv, NEW a \in Actor, Acquire(a) \/ Released(a)
  PROVE  SInv' /\ file'.lines = file.lines
<1>1. DOMAIN turn = Actor
  BY ActorIs
<1>2. UNCHANGED logVars /\ UNCHANGED <<tree, saved, plan, kills>>
  BY DEF Acquire, Released, restVars, treeVars
<1>3. turn' = turn \/ (turn[a].pc = "acquire" /\ turn' = [turn EXCEPT ![a] = Idle])
  <2>1. turn = [turn EXCEPT ![a] = turn[a]]
    BY ActorIs
  <2> QED BY <2>1 DEF Acquire, Released
<1>4. CASE turn' = turn
  BY <1>2, <1>4, SameTells
<1>5. CASE turn[a].pc = "acquire" /\ turn' = [turn EXCEPT ![a] = Idle]
  <2>1. turn[a].pc \notin Opens /\ Idle.pc \notin Opens
    BY <1>5 DEF Opens, Idle
  <2>2. UNCHANGED <<file, index, faults, tree, saved, plan, kills>> /\ sess' = sess
    BY <1>2 DEF logVars
  <2> QED BY <1>5, <2>1, <2>2, AsideTells
<1> QED BY <1>3, <1>4, <1>5

(* The session is closed.                                                         *)
LEMMA LeaveTells ==
  ASSUME IInv, SInv, NEW a \in Actor, Leave(a)
  PROVE  SInv' /\ file'.lines = file.lines
<1>1. turn' = [turn EXCEPT ![a] = Idle] /\ sess' = [sess EXCEPT ![a] = None]
      /\ UNCHANGED <<file, index, faults, tree, saved, plan, kills>>
  BY DEF Leave, Closes, restVars, treeVars
<1>2. turn[a].pc \notin Opens
  <2>1. CASE turn[a].pc = "leave"
    BY <2>1 DEF Opens
  <2>2. CASE at[a] = "swept"
    <3>1. turn[a].pc \in {"idle", "acquire"}
      BY <2>2, ActorIs DEF HoldFits
    <3> QED BY <3>1 DEF Opens
  <2> QED BY <2>1, <2>2 DEF Leave
<1>3. \A b \in Actor : b # a => sess'[b] = sess[b]
  <2>1. DOMAIN sess = Actor
    BY DEF IInv, LogFits
  <2> QED BY <1>1, <2>1
<1>4. Idle.pc \notin Opens
  BY DEF Opens, Idle
<1> QED BY <1>1, <1>2, <1>3, <1>4, AsideTells

(* A turn is cancelled, or something is said to it.                               *)
LEMMA ToldTells ==
  ASSUME IInv, SInv, NEW a \in Actor, Cancel(a) \/ Steer(a)
  PROVE  SInv' /\ file'.lines = file.lines
<1>1. DOMAIN turn = Actor /\ turn[a] \in TurnOf(turn[a].target)
  BY ActorIs DEF TurnFits
<1>2. UNCHANGED logVars /\ UNCHANGED <<tree, saved, plan, kills>>
  BY DEF Cancel, Steer, restVars, treeVars
<1>3. turn' = [turn EXCEPT ![a].cancelled = TRUE]
      \/ turn' = [turn EXCEPT ![a].inbox = @ + 1, ![a].told = TRUE]
  BY DEF Cancel, Steer
<1>4. \A b \in Actor : /\ turn'[b].pc = turn[b].pc /\ turn'[b].todo = turn[b].todo /\ turn'[b].job = turn[b].job
                       /\ turn'[b].cut = turn[b].cut /\ turn'[b].target = turn[b].target
  <2>1. CASE turn' = [turn EXCEPT ![a].cancelled = TRUE]
    BY <1>1, <2>1 DEF TurnOf
  <2>2. CASE turn' = [turn EXCEPT ![a].inbox = @ + 1, ![a].told = TRUE]
    BY <1>1, <2>2 DEF TurnOf
  <2> QED BY <1>3, <2>1, <2>2
<1> QED BY <1>2, <1>4, SameTells

(* A watcher looks.                                                               *)
LEMMA PollTells ==
  ASSUME SInv, Poll
  PROVE  SInv' /\ file'.lines = file.lines
<1>1. UNCHANGED logVars /\ turn' = turn /\ UNCHANGED <<tree, saved, plan, kills>>
  BY DEF Poll, treeVars
<1> QED BY <1>1, SameTells

(* A process dies, perhaps over half a line.                                      *)
LEMMA KillTells ==
  ASSUME IInv, SInv, NEW a \in Actor, Kill(a)
  PROVE  SInv' /\ file'.lines = file.lines
<1>1. /\ turn' = [turn EXCEPT ![a] = Idle] /\ sess' = [sess EXCEPT ![a] = None] /\ kills' = kills - 1
      /\ UNCHANGED <<index, faults, plan, tree, saved>>
      /\ \/ file' = file
         \/ sess[a] # None /\ file' = [file EXCEPT !.torn = TRUE, !.stamp = @ + 1]
  BY DEF Kill, SessionDies, treeVars
<1>2. DOMAIN turn = Actor /\ DOMAIN sess = Actor /\ FileFits(file) /\ file.stamp \in Nat /\ LogTells(file)
      /\ IndexTells(index, file) /\ index \in IndexFile \cup {None}
  BY ActorIs DEF IInv, LogFits, SInv, IndexFits
<1>3. turn'[a].pc \notin Opens /\ \A b \in Actor : b # a => turn'[b] = turn[b] /\ sess'[b] = sess[b]
  BY <1>1, <1>2 DEF Opens, Idle
<1>4. CalmTells'
  <2>1. kills \in 0..plan.kills /\ plan \in Plans
    BY DEF IInv, RestFits
  <2>2. plan.kills \in Nat
    BY <2>1, PlansAssumption
  <2>3. kills' # plan'.kills
    BY <1>1, <2>1, <2>2
  <2> QED BY <2>3 DEF CalmTells
<1>5. CASE file' = file
  <2>1. LogTells(file') /\ IndexTells(index', file')
    BY <1>1, <1>2, <1>5
  <2>2. \A b \in Actor : turn'[b].pc \in Opens =>
           /\ turn'[b] = turn[b] /\ sess'[b] = sess[b] /\ file' = file /\ index' = index
           /\ tree' = tree /\ saved' = saved
    BY <1>1, <1>3, <1>5
  <2> QED BY <1>4, <1>5, <2>1, <2>2, SaysStay
<1>6. CASE sess[a] # None /\ file' = [file EXCEPT !.torn = TRUE, !.stamp = @ + 1]
  <2>1. file'.lines = file.lines /\ file'.stamp = file.stamp + 1
    BY <1>2, <1>6 DEF FileFits
  <2>2. file'.stamp \in Nat /\ file.stamp < file'.stamp
    BY <1>2, <2>1
  <2>3. LogTells(file') /\ IndexTells(index', file')
    BY <1>1, <1>2, <2>1, <2>2, TornTells
  <2>4. at[a] = "held"
    BY <1>6, ActorIs
  <2>5. \A b \in Actor : turn'[b].pc \notin Opens
    BY <1>3, <2>4, Alone
  <2>6. SInv'
    BY <1>4, <2>3, <2>5, SaysStay
  <2> QED BY <2>1, <2>6
<1> QED BY <1>1, <1>5, <1>6

--------------------------------------------------------------------------------

(* At the start the session is not there, or has its first line.                  *)
LEMMA InitTells ==
  ASSUME Init
  PROVE  SInv
<1>1. \A a \in Actor : turn[a] = Idle
  BY DEF Init
<1>2. index = None
  BY DEF Init
<1>3. IndexTells(index, file)
  BY <1>2 DEF IndexTells
<1>4. \A a \in Actor : JobTells(turn[a], sess[a], file) /\ RewindTells(turn[a], sess[a], index, tree, saved)
  <2>1. Idle.pc \notin Opens /\ Idle.pc \notin Marking
    BY DEF Idle, Opens, Marking
  <2> QED BY <1>1, <2>1, Unmarked DEF JobTells
<1>5. LogTells(file) /\ OpenCalls(Said) = {}
  <2>1. CASE file = NoFileYet
    <3>1. file.lines = <<>>
      BY <2>1 DEF NoFileYet
    <3>2. Folded(<<>>) = <<>>
      BY FoldOf, EmptySeq DEF Folded
    <3> QED BY <3>1, <3>2 DEF LogTells, OpenCalls, Said
  <2>2. CASE file = [there |-> TRUE, lines |-> <<[Event("meta") EXCEPT !.id = 1]>>, torn |-> FALSE, stamp |-> 1]
    <3> DEFINE y == [Event("meta") EXCEPT !.id = 1]
    <3>1. y \in Entry /\ y.k = "meta" /\ y.id = 1 /\ y.calls = <<>> /\ y.call = 0
      <4>1. "meta" \in Kinds
        BY DEF Kinds
      <4>2. Event("meta") \in Entry /\ Event("meta").k = "meta" /\ Event("meta").calls = <<>> /\ Event("meta").call = 0
        BY <4>1, EventsAre, FormsAre
      <4> QED BY <4>2 DEF Entry
    <3> HIDE DEF y
    <3>2. FileFits(NoFileYet) /\ NoFileYet.lines = <<>> /\ NoFileYet.stamp = 0
      BY EmptySeq DEF NoFileYet, FileFits, Dated
    <3>3. file.lines = <<y>> /\ file.stamp = 1
      BY <2>2 DEF y
    <3>4. file.lines = Append(NoFileYet.lines, y) /\ file.stamp = NoFileYet.stamp + 1 /\ y.id = NoFileYet.stamp + 1
      BY <3>1, <3>2, <3>3
    <3> QED BY <3>1, <3>2, <3>4, FirstTells DEF Said
  <2> QED BY <2>1, <2>2 DEF Init
<1> QED BY <1>3, <1>4, <1>5 DEF SInv, CalmTells

(* What a step of an actor does to the log, and who may do it: one event more by  *)
(* who has the session open, a rewind by who marks it, or the end of the file.    *)
Utters(a) ==
  \/ file'.lines = file.lines
  \/ turn[a].pc \in Opens \ {"mark"} /\ (Speech \/ Begun)
  \/ turn[a].pc = "mark" /\ Unsent(a)
  \/ file'.lines = <<>>

(* The steps a job that has the session open takes by itself.                     *)
LEMMA OpenStepsUtter ==
  ASSUME IInv, SInv, NEW a \in Actor,
         \/ WriteMeta(a) \/ AnswerNext(a)
         \/ BeginRefused(a) \/ BeginSay(a) \/ Prompt(a) \/ BeginContinue(a) \/ BeginAnswer(a)
         \/ NoCompaction(a) \/ Top(a) \/ AppendSteer(a) \/ SteersDone(a) \/ Cutoff(a)
         \/ AbortStream(a) \/ Resume(a) \/ StepDone(a) \/ AbandonQuestion(a)
         \/ DropScratch(a) \/ Finish(a) \/ SaveTree(a) \/ RestoreTree(a) \/ RewindIndex(a)
  PROVE  SInv' /\ Utters(a)
<1>1. turn[a].pc \in Opens \ {"mark"}
  <2>1. CASE NoCompaction(a)
    <3>1. turn[a].pc \in {"compactstart", "compactmid", "begin"}
      BY <2>1 DEF NoCompaction, AtCompaction
    <3> QED BY <3>1 DEF Opens
  <2>2. CASE ~NoCompaction(a)
    BY <2>2 DEF Opens, WriteMeta, AnswerNext, BeginRefused, BeginSay, Prompt, BeginContinue, BeginAnswer,
                Top, AppendSteer, SteersDone, Cutoff, AbortStream, Resume, StepDone, AbandonQuestion,
                DropScratch, Finish, SaveTree, RestoreTree, RewindIndex
  <2> QED BY <2>1, <2>2
<1>2. CASE WriteMeta(a)
  BY <1>1, <1>2, WriteMetaTells DEF Utters
<1>3. CASE AnswerNext(a) \/ StepDone(a) \/ AbandonQuestion(a) \/ DropScratch(a) \/ Finish(a)
  <2>1. SInv' /\ Speech
    BY <1>3, AnswerNextTells, StepDoneTells, AbandonTells, DropScratchTells, FinishTells
  <2> QED BY <1>1, <2>1 DEF Utters
<1>4. CASE BeginRefused(a) \/ BeginSay(a) \/ Prompt(a) \/ BeginContinue(a) \/ BeginAnswer(a)
  <2>1. SInv' /\ Speech
    BY <1>4, BeginRefusedTells, BeginSayTells, PromptTells, BeginContinueTells, BeginAnswerTells
  <2> QED BY <1>1, <2>1 DEF Utters
<1>5. CASE NoCompaction(a) \/ Top(a) \/ AppendSteer(a) \/ SteersDone(a) \/ Cutoff(a) \/ Resume(a)
           \/ AbortStream(a)
  <2>1. SInv' /\ Speech
    BY <1>5, NoCompactionTells, LoopStepsTell, AppendSteerTells, CutoffTells, FailTells
  <2> QED BY <1>1, <2>1 DEF Utters
<1>6. CASE SaveTree(a) \/ RestoreTree(a) \/ RewindIndex(a)
  <2>1. SInv' /\ Speech
    BY <1>6, SaveTreeTells, RestoreTreeTells, RewindIndexTells
  <2> QED BY <1>1, <2>1 DEF Utters
<1> QED BY <1>2, <1>3, <1>4, <1>5, <1>6

(* A step of a job, and what waits for others.                                    *)
LEMMA ForcedUtters ==
  ASSUME IInv, SInv, NEW a \in Actor, Forced(a)
  PROVE  SInv' /\ Utters(a)
<1>1. CASE Acquire(a) \/ Leave(a) \/ Released(a) \/ Create(a) \/ Load(a)
  <2>1. SInv' /\ file'.lines = file.lines
    BY <1>1, LeaseTells, LeaveTells, CreateTells, LoadTells
  <2> QED BY <2>1 DEF Utters
<1>2. CASE Delete(a)
  BY <1>2, DeleteTells DEF Utters
<1>3. CASE MarkRewind(a)
  <2>1. turn[a].pc = "mark"
    BY <1>3 DEF MarkRewind
  <2> QED BY <1>3, <2>1, MarkRewindTells DEF Utters
<1>4. CASE ToolsReturn(a)
  <2>1. SInv' /\ Speech
    BY <1>4, ToolsReturnTells
  <2>2. turn[a].pc \in Opens \ {"mark"}
    BY <1>4 DEF ToolsReturn, Opens
  <2> QED BY <2>1, <2>2 DEF Utters
<1> QED BY <1>1, <1>2, <1>3, <1>4, OpenStepsUtter DEF Forced

(* What a job that has the session open waits for: the model, a tool, an answer.  *)
LEMMA WaitedUtters ==
  ASSUME IInv, SInv, NEW a \in Actor, Waited(a)
  PROVE  SInv' /\ Utters(a)
<1>1. turn[a].pc \in Opens \ {"mark"}
  <2>1. CASE Compacts(a) \/ CompactionFails(a)
    <3>1. turn[a].pc \in {"compactstart", "compactmid", "begin"}
      BY <2>1 DEF Compacts, CompactionFails, AtCompaction
    <3> QED BY <3>1 DEF Opens
  <2>2. CASE Reply(a) \/ Interrupt(a) \/ FailStep(a) \/ ToolsReturn(a) \/ Answered(a)
    BY <2>2 DEF Reply, Interrupt, FailStep, ToolsReturn, Answered, Opens
  <2> QED BY <2>1, <2>2 DEF Waited
<1>2. SInv' /\ Speech
  BY CompactsTells, CompactionFailsTells, ReplyTells, InterruptTells, FailTells, ToolsReturnTells, AnsweredTells
     DEF Waited
<1> QED BY <1>1, <1>2 DEF Utters

(* Every step tells, and says what its actor may.                                 *)
LEMMA NextTells ==
  ASSUME IInv, SInv, Next
  PROVE  SInv' /\ (file'.lines = file.lines \/ \E a \in Actor : Utters(a))
<1>1. CASE Poll
  BY <1>1, PollTells
<1>2. ASSUME NEW a \in Actor, Take(a) \/ Skip(a) \/ Cancel(a) \/ Steer(a) \/ Kill(a)
      PROVE  SInv' /\ file'.lines = file.lines
  BY <1>2, TakeTells, ToldTells, KillTells
<1>3. ASSUME NEW a \in Actor, Forced(a) \/ Waited(a)
      PROVE  SInv' /\ Utters(a)
  BY <1>3, ForcedUtters, WaitedUtters
<1> QED BY <1>1, <1>2, <1>3 DEF Next

(* Nothing moves.                                                                 *)
LEMMA StutterTells ==
  ASSUME SInv, UNCHANGED vars
  PROVE  SInv' /\ file'.lines = file.lines
BY SameTells DEF vars, restVars, treeVars

(* The second invariant of the session.                                           *)
THEOREM SessionTells == Spec => []SInv
<1>1. Init => SInv
  BY InitTells
<1>2. IInv /\ SInv /\ [Next]_vars => SInv'
  BY NextTells, StutterTells
<1>3. Spec => []IInv
  BY Invariance
<1> QED BY <1>1, <1>2, <1>3, PTL DEF Spec

--------------------------------------------------------------------------------
(* Whatever was torn, refused, cancelled or killed, the log replays: what the     *)
(* writer checks before it appends (append_event) holds of what a later open has. *)
THEOREM LogAlwaysLoads == Spec => []AlwaysLoads
<1>1. SInv => AlwaysLoads
  BY DEF SInv, LogTells, Sound, AlwaysLoads, Replays
<1> QED BY <1>1, SessionTells, PTL

(* When every job ended with no death and no failed write, no call is without its *)
(* result but a question the log ends in (persist_partial_step).                  *)
THEOREM TurnsLeaveNothingOpen == Spec => []LeavesNothingOpen
<1>1. SInv => LeavesNothingOpen
  <2>1. "idle" \notin Owing
    BY DEF Owing
  <2>2. OpenCalls(Said) = {} => Unanswered(Said) = <<>>
    BY DEF Unanswered
  <2> QED BY <2>1, <2>2 DEF SInv, CalmTells, LeavesNothingOpen
<1> QED BY <1>1, SessionTells, PTL

(* A rewind that marks the log unsends the message it was asked to.               *)
LEMMA MarkUnsends ==
  ASSUME IInv, SInv, Next, NEW a \in Actor, turn[a].pc = "mark", Len(file'.lines) > Len(file.lines)
  PROVE  Unsent(a)
<1>1. Len(file.lines) \in Nat /\ Len(<<>>) = 0
  <2>1. file.lines \in Seq(Entry)
    BY DEF IInv, LogFits, FileFits
  <2> QED BY <2>1, LenProperties, EmptySeq
<1>2. file'.lines # file.lines /\ file'.lines # <<>>
  BY <1>1
<1>3. PICK b \in Actor : Utters(b)
  BY <1>2, NextTells
<1>4. turn[b].pc \in Opens
  BY <1>2, <1>3 DEF Utters, Opens
<1>5. at[a] = "held"
  BY ActorIs DEF HoldFits
<1>6. b = a
  BY <1>4, <1>5, Alone
<1> QED BY <1>2, <1>3, <1>6 DEF Utters

(* A rewind takes back the message it was asked for and what follows it, though   *)
(* its index was chosen before the lease and is one of the window (rewind_to).    *)
THEOREM RewindsUnsend == Spec => RewindUnsends
<1>1. IInv /\ SInv /\ [Next]_vars =>
        [\A a \in Actor :
           turn[a].pc = "mark" /\ Len(file'.lines) > Len(file.lines) =>
             \E i \in DOMAIN Said : /\ Said[i].k = "user" /\ Said[i].id = turn[a].target
                                    /\ Folded(file'.lines) = SubSeq(Said, 1, i - 1)]_vars
  BY MarkUnsends DEF Unsent
<1> QED BY <1>1, Invariance, SessionTells, PTL DEF Spec, RewindUnsends

(* Each step changes its own actor's job only.                                    *)
LEMMA OwnJob ==
  ASSUME IInv, NEW a \in Actor, Forced(a) \/ Waited(a) \/ Take(a) \/ Skip(a) \/ Cancel(a) \/ Steer(a) \/ Kill(a)
  PROVE  \E t : turn' = [turn EXCEPT ![a] = t]
<1>1. turn = [turn EXCEPT ![a] = turn[a]]
  BY ActorIs
<1>2. \A e, done, failed : Writes(a, e, done, failed) => \E t : turn' = [turn EXCEPT ![a] = t]
  BY DEF Writes
<1>3. \A pc : Moves(a, pc) => \E t : turn' = [turn EXCEPT ![a] = t]
  BY DEF Moves
<1>4. CASE Acquire(a) \/ Leave(a) \/ Released(a) \/ Create(a) \/ WriteMeta(a) \/ Delete(a) \/ Load(a)
  <2>1. CASE Acquire(a)
    BY <1>1, <2>1 DEF Acquire
  <2>2. CASE Leave(a) \/ Released(a)
    BY <1>1, <2>2 DEF Leave, Released
  <2>3. CASE Create(a) \/ WriteMeta(a) \/ Delete(a)
    BY <1>2, <1>3, <2>3 DEF Create, WriteMeta, Delete
  <2>4. CASE Load(a)
    BY <1>3, <2>4 DEF Load
  <2> QED BY <1>4, <2>1, <2>2, <2>3, <2>4
<1>5. CASE \/ AnswerNext(a) \/ BeginRefused(a) \/ BeginSay(a) \/ Prompt(a) \/ BeginContinue(a) \/ BeginAnswer(a)
           \/ NoCompaction(a)
  BY <1>2, <1>3, <1>5 DEF AnswerNext, BeginRefused, BeginSay, Prompt, BeginContinue, BeginAnswer, NoCompaction
<1>6. CASE Top(a)
  BY <1>6 DEF Top
<1>7. CASE \/ AppendSteer(a) \/ SteersDone(a) \/ Cutoff(a) \/ AbortStream(a) \/ Resume(a)
  BY <1>2, <1>3, <1>7 DEF AppendSteer, SteersDone, Cutoff, AbortStream, Resume
<1>8. CASE StepDone(a)
  BY <1>8 DEF StepDone
<1>9. CASE \/ AbandonQuestion(a) \/ ToolsReturn(a) \/ DropScratch(a) \/ Finish(a)
           \/ SaveTree(a) \/ RestoreTree(a) \/ RewindIndex(a) \/ MarkRewind(a)
  BY <1>2, <1>3, <1>9
     DEF AbandonQuestion, ToolsReturn, DropScratch, Finish, SaveTree, RestoreTree, RewindIndex, MarkRewind
<1>10. CASE Waited(a)
  BY <1>2, <1>3, <1>10 DEF Waited, Compacts, CompactionFails, Reply, Interrupt, FailStep, ToolsReturn, Answered
<1>11. CASE Take(a) \/ Skip(a)
  BY <1>1, <1>11 DEF Take, Skip
<1>12. CASE Cancel(a) \/ Steer(a) \/ Kill(a)
  BY <1>12 DEF Cancel, Steer, Kill
<1> QED BY <1>4, <1>5, <1>6, <1>7, <1>8, <1>9, <1>10, <1>11, <1>12 DEF Forced

(* Only the restore takes a rewind past the restore.                              *)
LEMMA RestoreIs ==
  ASSUME IInv, Next, NEW a \in Actor, turn[a].pc = "restore", turn'[a].pc = "dropids"
  PROVE  RestoreTree(a)
<1>1. DOMAIN turn = Actor /\ turn[a] \in TurnOf(turn[a].target) /\ at[a] = "held"
  BY ActorIs DEF TurnFits, HoldFits
<1>2. PICK b \in Actor : Forced(b) \/ Waited(b) \/ Take(b) \/ Skip(b) \/ Cancel(b) \/ Steer(b) \/ Kill(b)
  BY DEF Next, Poll
<1>3. b = a
  <2>1. PICK t : turn' = [turn EXCEPT ![b] = t]
    BY <1>2, OwnJob
  <2> QED BY <1>1, <2>1
<1>4. ~Waited(a)
  BY DEF Waited, Compacts, CompactionFails, AtCompaction, Reply, Interrupt, FailStep, ToolsReturn, Answered
<1>5. ~Take(a) /\ ~Skip(a)
  BY DEF Take, Skip
<1>6. ~Cancel(a)
  <2>1. SUFFICES ASSUME Cancel(a) PROVE FALSE
    OBVIOUS
  <2>2. turn' = [turn EXCEPT ![a].cancelled = TRUE]
    BY <2>1 DEF Cancel
  <2>3. turn'[a].pc = turn[a].pc
    BY <1>1, <2>2 DEF TurnOf
  <2> QED BY <2>3
<1>7. ~Steer(a)
  BY DEF Steer, InBody, Body
<1>8. ~Kill(a)
  BY <1>1 DEF Kill, Idle
<1>9. ~(Acquire(a) \/ Leave(a) \/ Released(a))
  <2>1. ~Acquire(a)
    BY DEF Acquire
  <2>2. ~Leave(a)
    BY <1>1 DEF Leave
  <2>3. ~Released(a)
    BY DEF Released
  <2> QED BY <2>1, <2>2, <2>3
<1>10. ~(Create(a) \/ WriteMeta(a) \/ Delete(a) \/ Load(a) \/ AnswerNext(a) \/ BeginRefused(a) \/ BeginSay(a)
         \/ Prompt(a) \/ BeginContinue(a) \/ BeginAnswer(a) \/ NoCompaction(a))
  BY DEF Create, WriteMeta, Delete, Load, AnswerNext, BeginRefused, BeginSay, Prompt, BeginContinue,
         BeginAnswer, NoCompaction, AtCompaction
<1>11. ~(Top(a) \/ AppendSteer(a) \/ SteersDone(a) \/ Cutoff(a) \/ AbortStream(a) \/ Resume(a) \/ StepDone(a)
         \/ AbandonQuestion(a) \/ ToolsReturn(a) \/ DropScratch(a) \/ Finish(a) \/ SaveTree(a) \/ RewindIndex(a)
         \/ MarkRewind(a))
  BY DEF Top, AppendSteer, SteersDone, Cutoff, AbortStream, Resume, StepDone, AbandonQuestion, ToolsReturn,
         DropScratch, Finish, SaveTree, RewindIndex, MarkRewind
<1> QED BY <1>2, <1>3, <1>4, <1>5, <1>6, <1>7, <1>8, <1>9, <1>10, <1>11 DEF Forced

(* A rewind brings back the tree saved before the message, whatever was compacted *)
(* in between: no compaction cuts between the two (compact_if_needed_locked).     *)
THEOREM RewindsRestore == Spec => RewindRestores
<1>1. IInv /\ SInv /\ [Next]_vars =>
        [\A a \in Actor :
           turn[a].pc = "restore" /\ turn'[a].pc = "dropids" =>
             /\ tree' # tree => tree \in saved
             /\ \A i \in DOMAIN Said :
                   i > 1 /\ Said[i].id = turn[a].target /\ Said[i - 1].k = "tree"
                     => tree' = Said[i - 1].n]_vars
  BY RestoreIs, RestoreTreeTells DEF Restored
<1> QED BY <1>1, Invariance, SessionTells, PTL DEF Spec, RewindRestores

--------------------------------------------------------------------------------
(* The calls a log makes, when they are known.                                    *)
LEMMA KnownIs ==
  ASSUME NEW log \in Seq(Entry), NEW known, Knows(known, log, Len(log))
  PROVE  known = CallIds(log)
<1>1. DOMAIN log = 1..Len(log)
  BY LenProperties
<1>2. \A c \in known : c \in CallIds(log)
  BY <1>1 DEF Knows, CallIds
<1>3. \A c \in CallIds(log) : c \in known
  BY <1>1 DEF Knows, CallIds
<1> QED BY <1>2, <1>3

(* What a believed index shows of the log, in the log's own words.                *)
LEMMA BelievedShows ==
  ASSUME IInv, SInv, Usable(index)
  PROVE  /\ Said \in Seq(Entry) /\ Len(Said) \in Nat /\ Indexed(index) \in Seq(Entry) /\ index.start \in Nat
         /\ Shows(Indexed(index), index.start, Said, Len(Said)) /\ index.start > 0
         /\ CompactionCut(Said) = index.start
         /\ index.known \cup CallIds(TailOf(index)) = CallIds(Said)
<1> DEFINE t == TailOf(index)
<1>1. FileFits(file) /\ IndexFits(index, file.stamp) /\ LogTells(file) /\ IndexTells(index, file)
      /\ index # None /\ index.stamp = file.stamp /\ TailFits(index)
      /\ Indexed(index) = index.window \o t /\ t = SubSeq(file.lines, index.offset + 1, Len(file.lines))
  BY DEF IInv, LogFits, SInv, Usable, TailOf, Indexed
<1>2. index \in IndexFile /\ Covers(index, Said, file.lines) /\ file.lines \in Seq(Entry)
      /\ Said \in Seq(Entry) /\ Len(Said) \in Nat
  <2>1. Said \in Seq(Entry) /\ file.lines \in Seq(Entry)
    BY <1>1, LogIs DEF Said
  <2> QED BY <1>1, <2>1, LenProperties DEF IndexFits, IndexTells, Said
<1>3. \A i \in DOMAIN t : t[i].k # "compaction"
  BY <1>1 DEF TailFits
<1> DEFINE log == Said
<1> HIDE DEF log
<1>4. log = Said
  BY DEF log
<1>5. /\ index.window \o t \in Seq(Entry) /\ Shows(index.window \o t, index.start, log, Len(log))
      /\ Newest(log, Len(log), index.start) /\ Knows(index.known \cup CallIds(t), log, Len(log))
  <2>1. log \in Seq(Entry) /\ Covers(index, log, file.lines)
    BY <1>2, <1>4
  <2> QED BY <1>1, <1>2, <1>3, <2>1, IndexedShows
<1>6. index.start \in Nat /\ index.start > 0
  BY <1>2, <1>5 DEF IndexFile, Newest
<1>7. Spaced(log)
  <2>1. file.lines # <<>>
    <3>1. \E q \in (index.start + 1)..Len(log) : TRUE
      BY <1>5 DEF Newest
    <3>2. log # <<>>
      BY <1>6, <3>1, EmptySeq
    <3> QED BY <1>1, <1>4, <3>2, LogIs DEF Said
  <2> QED BY <1>1, <1>4, <2>1, LogIs DEF Said
<1>8. CompactionCut(log) = index.start
  BY <1>2, <1>4, <1>5, <1>6, <1>7, NewestTells
<1>9. index.known \cup CallIds(t) = CallIds(log)
  BY <1>2, <1>4, <1>5, KnownIs
<1> QED BY <1>1, <1>2, <1>4, <1>5, <1>6, <1>8, <1>9

(* The window of a full parse, with its events where an index has them.           *)
Shifted(base, e) == IF e.k \in {"compaction", "cutoff"} THEN [e EXCEPT !.n = Rebased(e.n, base)] ELSE e

(* What a full parse keeps of the log: the metadata and the events after the base.*)
Parsed(log, base) == [i \in 1..(Len(log) - base + 1) |-> Shifted(base, log[At(base, i)])]

(* It is the window.                                                              *)
LEMMA WindowIs ==
  ASSUME NEW log, NEW base \in Nat, base > 0, CompactionCut(log) = base
  PROVE  Window(log).base = base /\ Window(log).events = Parsed(log, base)
<1>1. base # 0
  OBVIOUS
<1>2. \A i : At(base, i) = IF i = 1 THEN 1 ELSE base + i - 1
  BY <1>1 DEF At
<1>3. Parsed(log, base) = [i \in 1..(Len(log) - base + 1) |->
                            Shifted(base, log[IF i = 1 THEN 1 ELSE base + i - 1])]
  BY <1>2 DEF Parsed
<1> QED BY <1>1, <1>3 DEF Window, Shifted

(* An event of a window, and the one a full parse has there.                      *)
LEMMA ShiftsAgree ==
  ASSUME NEW base \in Nat, base > 0, NEW x \in Entry, NEW e \in Entry, Alike(base, x, e),
         NEW y, y = Shifted(base, e)
  PROVE  /\ x.k = y.k /\ (x.k = "compaction" => x.n = y.n)
         /\ x.k \in {"compaction", "cutoff"} => [x EXCEPT !.n = 0] = [y EXCEPT !.n = 0]
         /\ x.k \notin {"compaction", "cutoff"} => x = y
<1>1. /\ x.k = e.k /\ x.id = e.id /\ x.calls = e.calls /\ x.call = e.call /\ x.pics = e.pics
      /\ x.k \notin {"compaction", "cutoff"} => x.n = e.n
      /\ x.k = "compaction" => x.n >= 1 /\ e.n = Canonical(base, x.n)
  BY DEF Alike
<1>2. /\ x = [k |-> x.k, id |-> x.id, calls |-> x.calls, call |-> x.call, n |-> x.n, pics |-> x.pics]
      /\ e = [k |-> e.k, id |-> e.id, calls |-> e.calls, call |-> e.call, n |-> e.n, pics |-> e.pics]
      /\ x.n \in Nat /\ e.n \in Nat
  BY DEF Entry
<1>3. CASE e.k \in {"compaction", "cutoff"}
  <2>1. y = [e EXCEPT !.n = Rebased(e.n, base)]
    BY <1>3 DEF Shifted
  <2>2. y = [k |-> e.k, id |-> e.id, calls |-> e.calls, call |-> e.call, n |-> Rebased(e.n, base), pics |-> e.pics]
    BY <1>2, <2>1
  <2>3. y.k = e.k /\ y.n = Rebased(e.n, base)
    BY <2>2
  <2>4. x.k = "compaction" => x.n = Rebased(e.n, base)
    BY <1>1, <1>2 DEF Canonical, Rebased
  <2>5. [y EXCEPT !.n = 0] = [k |-> e.k, id |-> e.id, calls |-> e.calls, call |-> e.call, n |-> 0, pics |-> e.pics]
    BY <2>2
  <2>6. [x EXCEPT !.n = 0] = [k |-> x.k, id |-> x.id, calls |-> x.calls, call |-> x.call, n |-> 0, pics |-> x.pics]
    BY <1>2
  <2> QED BY <1>1, <1>3, <2>3, <2>4, <2>5, <2>6
<1>4. CASE e.k \notin {"compaction", "cutoff"}
  <2>1. x = e
    BY <1>1, <1>2, <1>4
  <2> QED BY <1>4, <2>1 DEF Shifted
<1> QED BY <1>3, <1>4

(* A window through an index and the window of a full parse, event by event.      *)
LEMMA WindowsAgree ==
  ASSUME NEW log \in Seq(Entry), NEW w \in Seq(Entry), NEW base \in Nat, base > 0, Shows(w, base, log, Len(log))
  PROVE  LET v == Parsed(log, base)
         IN /\ Unplaced(w) = Unplaced(v) /\ DOMAIN w = DOMAIN v
            /\ \A i \in DOMAIN w : w[i].k = v[i].k /\ (w[i].k = "compaction" => w[i].n = v[i].n)
<1> DEFINE v == Parsed(log, base)
<1>1. Len(log) \in Nat /\ Len(w) \in Nat /\ DOMAIN w = 1..Len(w) /\ DOMAIN log = 1..Len(log)
  BY LenProperties
<1>2. /\ Len(log) = Canonical(base, Len(w)) /\ base < Len(log) /\ Len(w) > 1
      /\ \A i \in 1..Len(w) : At(base, i) \in 1..Len(log) /\ Alike(base, w[i], log[At(base, i)])
  BY ShownAre
<1>3. Len(log) - base + 1 = Len(w)
  BY <1>1, <1>2 DEF Canonical
<1>4. DOMAIN v = 1..Len(w) /\ DOMAIN v = DOMAIN w /\ \A i \in 1..Len(w) : v[i] = Shifted(base, log[At(base, i)])
  BY <1>1, <1>3 DEF Parsed
<1> HIDE DEF v
<1>5. ASSUME NEW i \in 1..Len(w)
      PROVE  /\ w[i].k = v[i].k /\ (w[i].k = "compaction" => w[i].n = v[i].n)
             /\ w[i].k \in {"compaction", "cutoff"} => [w[i] EXCEPT !.n = 0] = [v[i] EXCEPT !.n = 0]
             /\ w[i].k \notin {"compaction", "cutoff"} => w[i] = v[i]
  <2> DEFINE x == w[i]
             e == log[At(base, i)]
             y == v[i]
  <2>1. x \in Entry /\ e \in Entry /\ Alike(base, x, e) /\ y = Shifted(base, e)
    BY <1>1, <1>2, <1>4
  <2> HIDE DEF x, e, y
  <2>2. /\ x.k = y.k /\ (x.k = "compaction" => x.n = y.n)
        /\ x.k \in {"compaction", "cutoff"} => [x EXCEPT !.n = 0] = [y EXCEPT !.n = 0]
        /\ x.k \notin {"compaction", "cutoff"} => x = y
    BY <2>1, ShiftsAgree
  <2> QED BY <2>2 DEF x, y
<1>6. Unplaced(w) = Unplaced(v)
  BY <1>1, <1>4, <1>5 DEF Unplaced
<1> QED BY <1>1, <1>4, <1>5, <1>6 DEF v

(* An index with the stamp of the file, with the lines after its offset, is what a*)
(* full parse makes of the log: no seal, rewind, deletion or death leaves one that*)
(* lies (read_indexed_replay against read_replay).                                *)
THEOREM IndexIsTheLog == Spec => []IndexTellsTheLog
<1>1. IInv /\ SInv => IndexTellsTheLog
  <2> DEFINE w == Indexed(index)
             base == index.start
             log == Said
             v == Parsed(log, base)
  <2>1. SUFFICES ASSUME IInv, SInv, Usable(index)
                 PROVE  /\ Unplaced(w) = Unplaced(Window(log).events) /\ base = Window(log).base
                        /\ CompactionCut(w) = CompactionCut(Window(log).events)
                        /\ index.known \cup CallIds(TailOf(index)) = CallIds(log)
    BY DEF IndexTellsTheLog
  <2>2. /\ log \in Seq(Entry) /\ w \in Seq(Entry) /\ base \in Nat /\ base > 0
        /\ Shows(w, base, log, Len(log)) /\ CompactionCut(log) = base
        /\ index.known \cup CallIds(TailOf(index)) = CallIds(log)
    BY <2>1, BelievedShows
  <2> HIDE DEF w, base, log
  <2>3. Window(log).events = v /\ Window(log).base = base
    BY <2>2, WindowIs
  <2>4. /\ Unplaced(w) = Unplaced(v) /\ DOMAIN w = DOMAIN v
        /\ \A i \in DOMAIN w : w[i].k = v[i].k /\ (w[i].k = "compaction" => w[i].n = v[i].n)
    BY <2>2, WindowsAgree
  <2> HIDE DEF v
  <2>5. CompactionCut(w) = CompactionCut(v)
    <3>1. {LeastOf(w[i].n, i - 1) : i \in {j \in DOMAIN w : w[j].k = "compaction"}}
            = {LeastOf(v[i].n, i - 1) : i \in {j \in DOMAIN v : v[j].k = "compaction"}}
      BY <2>4
    <3> QED BY <3>1 DEF CompactionCut
  <2> QED BY <2>2, <2>3, <2>4, <2>5
<1> QED BY <1>1, Invariance, SessionTells, PTL

--------------------------------------------------------------------------------
(* What the conversation has unanswered is what the log has.                      *)
LEMMA TalkIs ==
  /\ \A events : Talk!Unanswered(events) = Unanswered(events)
  /\ \A events : Talk!Last(events) = Last(events)
<1>1. ASSUME NEW events PROVE Talk!Unanswered(events) = Unanswered(events)
  BY DEF Talk!Unanswered, Unanswered, Talk!OpenCalls, OpenCalls, Talk!IsResultOf, IsResultOf,
         Talk!Range, Range, Talk!Within, Within
<1>2. ASSUME NEW events PROVE Talk!Last(events) = Last(events)
  BY DEF Talk!Last, Last
<1> QED BY <1>1, <1>2

(* The log starts as a conversation does.                                         *)
LEMMA InitTalks ==
  ASSUME Init
  PROVE  Talk!ConversationInit
<1>1. CASE file = NoFileYet
  <2>1. file.lines = <<>>
    BY <1>1 DEF NoFileYet
  <2>2. Folded(<<>>) = <<>>
    BY FoldOf, EmptySeq DEF Folded
  <2> QED BY <2>1, <2>2 DEF Talk!ConversationInit, Said
<1>2. CASE file = [there |-> TRUE, lines |-> <<[Event("meta") EXCEPT !.id = 1]>>, torn |-> FALSE, stamp |-> 1]
  <2> DEFINE y == [Event("meta") EXCEPT !.id = 1]
  <2>1. y \in Entry /\ y.k = "meta" /\ y.id = 1 /\ y.calls = <<>> /\ y.call = 0
    <3>1. "meta" \in Kinds
      BY DEF Kinds
    <3>2. Event("meta") \in Entry /\ Event("meta").k = "meta" /\ Event("meta").calls = <<>> /\ Event("meta").call = 0
      BY <3>1, EventsAre, FormsAre
    <3> QED BY <3>2 DEF Entry
  <2> HIDE DEF y
  <2>2. FileFits(NoFileYet) /\ NoFileYet.lines = <<>> /\ NoFileYet.stamp = 0
    BY EmptySeq DEF NoFileYet, FileFits, Dated
  <2>3. file.lines = Append(NoFileYet.lines, y) /\ file.stamp = NoFileYet.stamp + 1 /\ y.id = NoFileYet.stamp + 1
    BY <1>2, <2>1, <2>2 DEF y
  <2>4. Said = Append(<<>>, y)
    BY <2>1, <2>2, <2>3, FirstTells DEF Said
  <2>5. <<>> \in Seq(Entry) /\ Len(<<>>) = 0
    BY EmptySeq
  <2>6. Len(Append(<<>>, y)) = 0 + 1 /\ Append(<<>>, y)[0 + 1] = y
    BY <2>1, <2>5, Grown
  <2> QED BY <2>1, <2>4, <2>6 DEF Talk!ConversationInit
<1> QED BY <1>1, <1>2 DEF Init

(* What is said is one event more.                                                *)
LEMMA OneMoreSaid ==
  ASSUME NEW log \in Seq(Entry), NEW y \in Entry, NEW q, q = Append(log, y)
  PROVE  Len(q) = Len(log) + 1 /\ Last(q) = y /\ q[Len(log) + 1] = y
<1>1. Len(q) = Len(log) + 1 /\ q[Len(log) + 1] = y
  BY Grown
<1> QED BY <1>1 DEF Last

(* An event that fits behind the log is spoken, or answers.                       *)
LEMMA SpeechTalks ==
  ASSUME SInv, FileFits(file), file.lines # <<>>, NEW y, FitsBehind(y, Said, file.stamp), Said' = Append(Said, y)
  PROVE  Talk!Speaks \/ Talk!Answers
<1>1. Said \in Seq(Entry) /\ Valid(Said) /\ Said # <<>> /\ \A i \in DOMAIN Said : Plain(Said[i])
  BY LogIs DEF Said, SInv
<1>2. y \in Entry /\ y.k \notin {"meta", "rewind", "invoked"} /\ (AllowedWhileUnanswered(y) \/ OpenCalls(Said) = {})
      /\ (y.k = "result" => \E c \in OpenCalls(Said) : c.call = y.call)
  BY DEF FitsBehind
<1>3. Len(Said') = Len(Said) + 1 /\ Last(Said') = y
  BY <1>1, <1>2, OneMoreSaid
<1>4. Talk!Says
  BY <1>3, TalkIs DEF Talk!Says
<1>5. CASE y.k = "result"
  <2>1. PICK c \in OpenCalls(Said) : c.call = y.call
    BY <1>2, <1>5
  <2>2. \A i \in DOMAIN Said : Said[i].k # "asst" => Said[i].calls = <<>>
    BY <1>1 DEF Plain
  <2>3. Range(Unanswered(Said)) = OpenCalls(Said)
    BY <1>1, <2>2, UnansweredTell
  <2>4. \E i \in DOMAIN Unanswered(Said) : Unanswered(Said)[i] = c
    BY <2>1, <2>3 DEF Range
  <2> QED BY <1>3, <1>4, <1>5, <2>1, <2>4, TalkIs DEF Talk!Answers
<1>6. CASE y.k # "result"
  <2>1. OpenCalls(Said) = {}
    BY <1>2, <1>6 DEF AllowedWhileUnanswered
  <2>2. Unanswered(Said) = <<>>
    BY <2>1 DEF Unanswered
  <2> QED BY <1>1, <1>2, <1>3, <1>4, <1>6, <2>2, TalkIs DEF Talk!Speaks
<1> QED BY <1>5, <1>6

(* The metadata begins it.                                                        *)
LEMMA BegunTalks ==
  ASSUME SInv, FileFits(file), FileFits(file'), LogTells(file'), Begun
  PROVE  Talk!Begins
<1>1. PICK y : y.k = "meta" /\ Said' = Append(<<>>, y)
  BY DEF Begun, Said
<1>2. Said = <<>>
  <2>1. Folded(<<>>) = <<>>
    BY FoldOf, EmptySeq DEF Folded
  <2> QED BY <2>1 DEF Begun, Said
<1>3. Len(Said') = 1 /\ Said'[1] = y
  BY <1>1
<1>4. Last(Said') = y
  BY <1>3 DEF Last
<1>5. Len(<<>>) = 0
  BY EmptySeq
<1> QED BY <1>1, <1>2, <1>3, <1>4, <1>5, TalkIs DEF Talk!Begins, Talk!Says

(* The marker unsays.                                                             *)
LEMMA UnsentTalks ==
  ASSUME SInv, FileFits(file), NEW a \in Actor, Unsent(a)
  PROVE  Talk!Unsays
<1>1. Said \in Seq(Entry) /\ Len(Said) \in Nat /\ DOMAIN Said = 1..Len(Said)
  <2>1. Said \in Seq(Entry)
    BY LogIs DEF Said, SInv
  <2> QED BY <2>1, LenProperties
<1>2. PICK i \in DOMAIN Said : Said[i].k = "user" /\ Said' = SubSeq(Said, 1, i - 1)
  BY DEF Unsent, Said
<1>3. Unanswered(Said) = <<>>
  BY DEF Unsent, Unanswered
<1>4. Len(SubSeq(Said, 1, i - 1)) < Len(Said)
  <2> DEFINE log == Said
  <2>1. log \in Seq(Entry) /\ i \in 1..Len(log) /\ Len(log) \in Nat
    BY <1>1, <1>2
  <2> HIDE DEF log
  <2>2. 1 \in 1..(Len(log) + 1) /\ i - 1 \in (1 - 1)..Len(log)
    BY <2>1
  <2>3. Len(SubSeq(log, 1, i - 1)) = i - 1 - 1 + 1
    BY <2>1, <2>2, SubSeqProperties
  <2>4. i - 1 - 1 + 1 < Len(log)
    BY <2>1
  <2> QED BY <2>3, <2>4 DEF log
<1> QED BY <1>1, <1>2, <1>3, <1>4, TalkIs DEF Talk!Unsays

(* Every step of the session is one of the conversation, or none.                 *)
LEMMA StepTalks ==
  ASSUME IInv, SInv, [Next]_vars
  PROVE  Talk!ConversationNext \/ Said' = Said
<1>1. FileFits(file) /\ FileFits(file') /\ LogTells(file')
  <2>1. IInv'
    BY NextFits
  <2>2. SInv'
    BY NextTells, StutterTells
  <2> QED BY <2>1, <2>2 DEF IInv, LogFits, SInv
<1>2. CASE file'.lines = file.lines
  BY <1>2 DEF Said
<1>3. CASE file'.lines # file.lines
  <2>1. PICK a \in Actor : Utters(a)
    BY <1>3, NextTells, StutterTells
  <2>2. CASE Speech
    <3>1. PICK y : file.lines # <<>> /\ FitsBehind(y, Said, file.stamp) /\ Said' = Append(Said, y)
      BY <1>3, <2>2 DEF Speech, Said
    <3> QED BY <1>1, <3>1, SpeechTalks DEF Talk!ConversationNext
  <2>3. CASE Begun
    BY <1>1, <2>3, BegunTalks DEF Talk!ConversationNext
  <2>4. CASE Unsent(a)
    BY <1>1, <2>4, UnsentTalks DEF Talk!ConversationNext
  <2>5. CASE file'.lines = <<>>
    <3>1. Folded(<<>>) = <<>>
      BY FoldOf, EmptySeq DEF Folded
    <3> QED BY <2>5, <3>1 DEF Talk!ConversationNext, Talk!Goes, Said
  <2> QED BY <1>3, <2>1, <2>2, <2>3, <2>4, <2>5 DEF Utters
<1> QED BY <1>2, <1>3

(* The turns of a session, the rewinds and the deletions are the conversation of  *)
(* Conversation.tla: calls open with a message, close with a result of their own, *)
(* and a new user message comes when none is open.                                *)
THEOREM SessionTalks == Spec => KeepsTheConversation
<1>1. Init => Talk!ConversationInit
  BY InitTalks
<1>2. IInv /\ SInv /\ [Next]_vars => [Talk!ConversationNext]_Said
  BY StepTalks
<1> QED BY <1>1, <1>2, Invariance, SessionTells, PTL DEF Spec, KeepsTheConversation, Talk!ConversationSpec

--------------------------------------------------------------------------------
(* A fold goes on from where it was left.                                         *)
LEMMA FoldsOn ==
  ASSUME NEW lines \in Seq(Entry), NEW k \in 0..Len(lines)
  PROVE  FoldedOnto(Folded(SubSeq(lines, 1, k)), SubSeq(lines, k + 1, Len(lines))) = Folded(lines)
<1> DEFINE n == Len(lines)
           q == SubSeq(lines, k + 1, n)
           f == Stages(<<>>, lines)
           g == Stages(f[k], q)
           Bad == {j \in 0..(n - k) : g[j] # f[k + j]}
<1>1. n \in Nat /\ k \in Nat /\ k <= n
  BY LenProperties
<1>2. q \in Seq(Entry) /\ Len(q) = n - k /\ \A i \in 1..(n - k) : q[i] = lines[k + i]
  BY <1>1, RestIs
<1>3. /\ \A i \in 1..n : f[i] = Then(f[i - 1], lines[i])
      /\ Folded(lines) = f[n] /\ Folded(SubSeq(lines, 1, k)) = f[k]
  BY StagesAre, FoldOf DEF Folded
<1> HIDE DEF f, q
<1>4. /\ g[0] = f[k] /\ \A i \in 1..Len(q) : g[i] = Then(g[i - 1], q[i])
      /\ FoldedOnto(f[k], q) = g[Len(q)]
  BY <1>2, StagesAre
<1> HIDE DEF n, g
<1>5. Bad = {}
  <2>1. SUFFICES ASSUME Bad # {} PROVE FALSE
    OBVIOUS
  <2>2. PICK m \in Bad : \A j \in Bad : ~(j < m)
    <3>1. Bad \in SUBSET Nat
      BY <1>1
    <3> HIDE DEF Bad
    <3> QED BY <2>1, <3>1, Least
  <2>3. m # 0
    BY <1>1, <1>4, <2>2
  <2>4. m \in 1..(n - k) /\ m - 1 \in 0..(n - k) /\ m - 1 < m /\ k + m \in 1..n /\ (k + m) - 1 = k + (m - 1)
    BY <1>1, <2>2, <2>3
  <2>5. g[m - 1] = f[k + (m - 1)]
    BY <2>2, <2>4
  <2>6. g[m] = Then(g[m - 1], q[m]) /\ q[m] = lines[k + m]
    BY <1>2, <1>4, <2>4
  <2>7. f[k + m] = Then(f[k + (m - 1)], lines[k + m])
    BY <1>3, <2>4
  <2> QED BY <2>2, <2>5, <2>6, <2>7
<1>6. g[n - k] = f[k + (n - k)] /\ k + (n - k) = n
  BY <1>1, <1>5
<1> QED BY <1>2, <1>3, <1>4, <1>6 DEF n, q

(* What a step does to the lines of the file: nothing, one more, or none is left. *)
(* The stamp never goes back, and the first line of a file carries its own.       *)
Grows ==
  /\ file.stamp <= file'.stamp
  /\ \/ file'.lines = file.lines
     \/ file'.lines = <<>>
     \/ \E y : /\ file'.lines = Append(file.lines, y)
               /\ file.lines = <<>> => y.id = file.stamp + 1 /\ y.id <= file'.stamp

(* An append does.                                                                *)
LEMMA WritesGrow ==
  ASSUME FileFits(file), NEW a, NEW e, NEW done, NEW failed, Writes(a, e, done, failed),
         file.lines = <<>> => e = Event("meta")
  PROVE  Grows
<1> DEFINE y == CanonicalEvent(a, [e EXCEPT !.id = file.stamp + 1])
<1>1. file = [there |-> file.there, lines |-> file.lines, torn |-> file.torn, stamp |-> file.stamp]
      /\ file.stamp \in Nat
  BY DEF FileFits
<1>2. file.lines = <<>> => y.id = file.stamp + 1
  BY DEF CanonicalEvent, Event
<1> HIDE DEF y
<1>3. \/ file' = file
      \/ file' = [file EXCEPT !.torn = TRUE, !.stamp = @ + 1]
      \/ file' = [file EXCEPT !.lines = Append(@, y), !.stamp = @ + 1]
  BY DEF Writes, Appends, AppendFails, AppendRefused, y
<1>4. CASE file' = file
  BY <1>1, <1>4 DEF Grows
<1>5. CASE file' = [file EXCEPT !.torn = TRUE, !.stamp = @ + 1]
  BY <1>1, <1>5 DEF Grows
<1>6. CASE file' = [file EXCEPT !.lines = Append(@, y), !.stamp = @ + 1]
  <2>1. file'.lines = Append(file.lines, y) /\ file'.stamp = file.stamp + 1
    BY <1>1, <1>6
  <2>2. file.stamp <= file'.stamp /\ (file.lines = <<>> => y.id <= file'.stamp)
    BY <1>1, <1>2, <2>1
  <2> QED BY <1>2, <2>1, <2>2 DEF Grows
<1> QED BY <1>3, <1>4, <1>5, <1>6

(* So does every step.                                                            *)
LEMMA StepGrows ==
  ASSUME IInv, SInv, [Next]_vars
  PROVE  Grows
<1>1. /\ FileFits(file) /\ file.stamp \in Nat
      /\ file = [there |-> file.there, lines |-> file.lines, torn |-> file.torn, stamp |-> file.stamp]
  BY DEF IInv, LogFits, FileFits
<1>2. /\ file' = file => Grows
      /\ file'.lines \in {file.lines, <<>>} /\ file'.stamp \in {file.stamp, file.stamp + 1} => Grows
  BY <1>1 DEF Grows
<1>3. ASSUME NEW a \in Actor, NEW e, NEW done, NEW failed, Writes(a, e, done, failed),
             turn[a].pc \in Opens \ {"meta"} \/ e = Event("meta")
      PROVE  Grows
  <2>1. turn[a].pc \in Opens \ {"meta"} => file.lines # <<>>
    BY DEF SInv, JobTells
  <2> QED BY <1>1, <1>3, <2>1, WritesGrow
<1>4. ASSUME NEW a \in Actor, Forced(a) PROVE Grows
  <2>1. CASE Acquire(a) \/ Leave(a) \/ Released(a)
    BY <1>2, <2>1 DEF Acquire, Leave, Closes, Released, logVars
  <2>2. CASE Create(a) \/ Delete(a) \/ Load(a)
    <3>1. \/ file' = file
          \/ file' = [file EXCEPT !.there = TRUE, !.stamp = @ + 1]
          \/ file' = [file EXCEPT !.torn = FALSE, !.stamp = @ + 1]
          \/ file' = [NoFileYet EXCEPT !.stamp = file.stamp + 1]
      BY <2>2 DEF Create, CreateFile, Delete, DeleteSidecars, DeleteLog, Load, Loads, LoadIndexed, LoadWhole,
                  logVars
    <3>2. file'.lines \in {file.lines, <<>>} /\ file'.stamp \in {file.stamp, file.stamp + 1}
      BY <1>1, <3>1 DEF NoFileYet
    <3> QED BY <1>2, <3>2
  <2>3. CASE WriteMeta(a) \/ AnswerNext(a)
    BY <1>3, <2>3 DEF WriteMeta, AnswerNext, Opens
  <2>4. CASE BeginRefused(a) \/ BeginSay(a) \/ Prompt(a) \/ BeginContinue(a) \/ BeginAnswer(a)
    BY <1>2, <1>3, <2>4 DEF BeginRefused, BeginSay, Prompt, BeginContinue, BeginAnswer, logVars, Opens
  <2>5. CASE NoCompaction(a) \/ Top(a) \/ AppendSteer(a) \/ SteersDone(a) \/ Cutoff(a)
    BY <1>2, <1>3, <2>5 DEF NoCompaction, Top, AppendSteer, SteersDone, Cutoff, logVars, Opens
  <2>6. CASE AbortStream(a) \/ Resume(a) \/ StepDone(a) \/ AbandonQuestion(a) \/ ToolsReturn(a)
    BY <1>2, <1>3, <2>6 DEF AbortStream, Opens, Resume, StepDone, AbandonQuestion, ToolsReturn, logVars
  <2>7. CASE DropScratch(a) \/ Finish(a)
    BY <1>2, <1>3, <2>7 DEF DropScratch, Finish, logVars, Opens
  <2>8. CASE SaveTree(a) \/ RestoreTree(a) \/ RewindIndex(a) \/ MarkRewind(a)
    BY <1>2, <1>3, <2>8 DEF SaveTree, RestoreTree, RewindIndex, DropIds, DropIndex, MarkRewind, logVars, Opens
  <2> QED BY <1>4, <2>1, <2>2, <2>3, <2>4, <2>5, <2>6, <2>7, <2>8 DEF Forced
<1>5. ASSUME NEW a \in Actor, Waited(a) PROVE Grows
  <2>1. CASE Compacts(a)
    <3>1. turn[a].pc \in {"compactstart", "compactmid", "begin"}
      BY <2>1 DEF Compacts, AtCompaction
    <3> QED BY <1>3, <2>1, <3>1 DEF Compacts, Opens
  <2>2. CASE CompactionFails(a)
    BY <1>2, <2>2 DEF CompactionFails, logVars
  <2>3. CASE Reply(a) \/ Interrupt(a) \/ FailStep(a) \/ ToolsReturn(a) \/ Answered(a)
    BY <1>2, <1>3, <2>3 DEF Reply, Interrupt, FailStep, ToolsReturn, Answered, logVars, Opens
  <2> QED BY <1>5, <2>1, <2>2, <2>3 DEF Waited
<1>6. ASSUME NEW a \in Actor, Take(a) \/ Skip(a) \/ Cancel(a) \/ Steer(a) PROVE Grows
  BY <1>2, <1>6 DEF Take, Skip, Cancel, Steer, logVars
<1>7. ASSUME NEW a \in Actor, Kill(a) PROVE Grows
  <2>1. file' = file \/ file' = [file EXCEPT !.torn = TRUE, !.stamp = @ + 1]
    BY <1>7 DEF Kill, SessionDies
  <2>2. file'.lines \in {file.lines, <<>>} /\ file'.stamp \in {file.stamp, file.stamp + 1}
    BY <1>1, <2>1
  <2> QED BY <1>2, <2>2
<1>8. CASE Poll \/ UNCHANGED vars
  BY <1>2, <1>8 DEF Poll, vars, logVars
<1> QED BY <1>4, <1>5, <1>6, <1>7, <1>8 DEF Next

(* Nothing folds to nothing.                                                      *)
LEMMA EmptyFold == Folded(<<>>) = <<>>
BY FoldOf, EmptySeq DEF Folded

(* Parts of a sequence: none of it, and all of it.                                *)
LEMMA Parts ==
  ASSUME NEW S, NEW s \in Seq(S)
  PROVE  SubSeq(s, 1, 0) = <<>> /\ SubSeq(s, 1, Len(s)) = s
OBVIOUS

(* What an append leaves alone.                                                   *)
LEMMA PartOfMore ==
  ASSUME NEW S, NEW s \in Seq(S), NEW y, NEW n \in 0..Len(s)
  PROVE  SubSeq(Append(s, y), 1, n) = SubSeq(s, 1, n)
OBVIOUS

(* Nobody but a poll moves the tail.                                              *)
LEMMA NextUnwatched ==
  ASSUME [Next]_vars, ~Poll
  PROVE  watch' = watch
<1>1. ASSUME NEW a \in Actor, Forced(a) PROVE watch' = watch
  <2>1. CASE Acquire(a) \/ Leave(a) \/ Released(a) \/ Create(a) \/ WriteMeta(a) \/ Load(a) \/ AnswerNext(a)
    BY <2>1 DEF Acquire, Leave, Released, Create, WriteMeta, Load, AnswerNext, restVars
  <2>2. CASE Delete(a)
    BY <2>2 DEF Delete
  <2>3. CASE BeginRefused(a) \/ BeginSay(a) \/ Prompt(a) \/ BeginContinue(a) \/ BeginAnswer(a)
    BY <2>3 DEF BeginRefused, BeginSay, Prompt, BeginContinue, BeginAnswer, Started, restVars
  <2>4. CASE NoCompaction(a) \/ Top(a) \/ AppendSteer(a) \/ SteersDone(a) \/ Cutoff(a)
    BY <2>4 DEF NoCompaction, Top, AppendSteer, SteersDone, Cutoff, restVars
  <2>5. CASE AbortStream(a) \/ Resume(a) \/ StepDone(a) \/ AbandonQuestion(a) \/ ToolsReturn(a)
    BY <2>5 DEF AbortStream, Resume, StepDone, AbandonQuestion, ToolsReturn, restVars
  <2>6. CASE DropScratch(a) \/ Finish(a) \/ SaveTree(a) \/ RestoreTree(a) \/ RewindIndex(a) \/ MarkRewind(a)
    BY <2>6 DEF DropScratch, Finish, SaveTree, RestoreTree, RewindIndex, MarkRewind, restVars
  <2> QED BY <1>1, <2>1, <2>2, <2>3, <2>4, <2>5, <2>6 DEF Forced
<1>2. ASSUME NEW a \in Actor, Waited(a) PROVE watch' = watch
  BY <1>2 DEF Waited, Compacts, CompactionFails, Reply, Interrupt, FailStep, ToolsReturn, Answered, restVars
<1>3. ASSUME NEW a \in Actor, Take(a) \/ Skip(a) \/ Cancel(a) \/ Steer(a) \/ Kill(a) PROVE watch' = watch
  BY <1>3 DEF Take, Skip, Cancel, Steer, Kill, restVars
<1> QED BY <1>1, <1>2, <1>3 DEF Next, vars, restVars

(* What a tail that follows the file at the path holds.                           *)
Following ==
  watch.lines > 0 /\ watch.born = Identity =>
     /\ watch.lines <= Len(file.lines)
     /\ watch.events = Folded(SubSeq(file.lines, 1, watch.lines))

(* The first line carries the id of its file, and a tail that has read anything   *)
(* was begun by one; what it holds of the file at the path is a prefix of it.     *)
TailTells ==
  /\ watch = [born |-> watch.born, lines |-> watch.lines, events |-> watch.events, gone |-> watch.gone]
  /\ watch.born \in 0..file.stamp /\ watch.lines \in Nat
  /\ file.lines # <<>> => file.lines[1].id \in 1..file.stamp
  /\ watch.lines > 0 => watch.born > 0
  /\ watch.lines = 0 => watch.events = <<>>
  /\ Following

(* A new session is followed from its first line.                                 *)
LEMMA InitFollows ==
  ASSUME Init
  PROVE  TailTells
<1>1. watch = [born |-> 0, lines |-> 0, events |-> <<>>, gone |-> FALSE]
  BY DEF Init
<1>2. file.stamp \in Nat /\ (file.lines # <<>> => file.lines[1].id \in 1..file.stamp)
  BY DEF Init, NoFileYet, Event
<1>3. /\ watch.lines = 0 /\ watch.events = <<>> /\ watch.born = 0
      /\ watch = [born |-> watch.born, lines |-> watch.lines, events |-> watch.events, gone |-> watch.gone]
  BY <1>1
<1> QED BY <1>2, <1>3 DEF TailTells, Following

(* The file goes on, or makes way for another, while the tail does not look.      *)
LEMMA Unwatched ==
  ASSUME IInv, IInv', TailTells, Grows, watch' = watch
  PROVE  TailTells'
<1>1. /\ file.lines \in Seq(Entry) /\ file'.lines \in Seq(Entry)
      /\ file.stamp \in Nat /\ file'.stamp \in Nat /\ file.stamp <= file'.stamp
  BY DEF IInv, LogFits, FileFits, Grows
<1>2. watch.lines \in Nat /\ watch.born \in 0..file.stamp
  BY DEF TailTells
<1>3. /\ watch' = [born |-> watch'.born, lines |-> watch'.lines, events |-> watch'.events, gone |-> watch'.gone]
      /\ watch'.born \in 0..file'.stamp /\ watch'.lines \in Nat
      /\ watch'.lines > 0 => watch'.born > 0
      /\ watch'.lines = 0 => watch'.events = <<>>
  BY <1>1, <1>2 DEF TailTells
<1>4. CASE file'.lines = file.lines
  <2>1. Identity' = Identity
    BY <1>4 DEF Identity
  <2>2. file'.lines # <<>> => file'.lines[1].id \in 1..file'.stamp
    BY <1>1, <1>4 DEF TailTells
  <2>3. Following'
    BY <1>4, <2>1 DEF TailTells, Following
  <2> QED BY <1>3, <2>2, <2>3 DEF TailTells
<1>5. CASE file'.lines = <<>>
  <2>1. Identity' = 0
    BY <1>5 DEF Identity
  <2>2. Following'
    BY <1>2, <2>1 DEF TailTells, Following
  <2> QED BY <1>3, <1>5, <2>2 DEF TailTells
<1>6. ASSUME NEW y, file'.lines = Append(file.lines, y),
             file.lines = <<>> => y.id = file.stamp + 1 /\ y.id <= file'.stamp
      PROVE  TailTells'
  <2>1. /\ Len(file'.lines) = Len(file.lines) + 1 /\ file'.lines # <<>>
        /\ file.lines # <<>> => file'.lines[1] = file.lines[1]
        /\ file.lines = <<>> => file'.lines[1] = y
    BY <1>1, <1>6, LenProperties
  <2>2. file'.lines[1].id \in 1..file'.stamp /\ Identity' = file'.lines[1].id
    BY <1>1, <1>6, <2>1 DEF TailTells, Identity
  <2>3. Following'
    <3>1. CASE file.lines = <<>>
      <4>1. watch.born # Identity'
        BY <1>1, <1>2, <1>6, <2>1, <2>2, <3>1
      <4> QED BY <4>1 DEF Following
    <3>2. CASE file.lines # <<>>
      <4>1. Identity' = Identity
        BY <2>1, <2>2, <3>2 DEF Identity
      <4>2. ASSUME watch.lines > 0, watch.born = Identity
            PROVE  /\ watch.lines <= Len(file'.lines)
                   /\ watch.events = Folded(SubSeq(file'.lines, 1, watch.lines))
        <5>1. watch.lines <= Len(file.lines) /\ watch.events = Folded(SubSeq(file.lines, 1, watch.lines))
          BY <4>2 DEF TailTells, Following
        <5>2. SubSeq(file'.lines, 1, watch.lines) = SubSeq(file.lines, 1, watch.lines)
          BY <1>1, <1>2, <1>6, <5>1, PartOfMore
        <5>3. Len(file.lines) \in Nat
          BY <1>1
        <5>4. watch.lines <= Len(file'.lines)
          BY <1>2, <2>1, <5>1, <5>3
        <5>5. watch.events = Folded(SubSeq(file'.lines, 1, watch.lines))
          BY <5>1, <5>2
        <5> QED BY <5>4, <5>5
      <4> QED BY <4>1, <4>2 DEF Following
    <3> QED BY <3>1, <3>2
  <2> QED BY <1>3, <2>2, <2>3 DEF TailTells
<1> QED BY <1>4, <1>5, <1>6 DEF Grows

(* A poll reads on from where the tail was, or all of another file.               *)
LEMMA PollFollows ==
  ASSUME IInv, TailTells, Poll
  PROVE  TailTells'
<1>1. file.lines \in Seq(Entry) /\ file.stamp \in Nat /\ file' = file /\ Len(file.lines) \in Nat
  BY LenProperties DEF IInv, LogFits, FileFits, Poll, logVars
<1>2. /\ watch.lines \in Nat /\ watch.born \in 0..file.stamp
      /\ watch = [born |-> watch.born, lines |-> watch.lines, events |-> watch.events, gone |-> watch.gone]
  BY DEF TailTells
<1>3. Identity \in 0..file.stamp /\ Identity' = Identity /\ (file.lines # <<>> => Identity > 0)
  BY <1>1 DEF Identity, TailTells
<1>4. CASE watch' = [watch EXCEPT !.gone = TRUE]
  BY <1>1, <1>3, <1>4 DEF TailTells, Following
<1>5. ASSUME Reads(Folded(file.lines)) PROVE TailTells'
  <2>1. watch' = [watch EXCEPT !.born = Identity, !.lines = Len(file.lines), !.events = Folded(file.lines)]
    BY <1>5 DEF Reads
  <2>2. SubSeq(file.lines, 1, Len(file.lines)) = file.lines
    BY <1>1, Parts
  <2>3. /\ watch' = [born |-> watch'.born, lines |-> watch'.lines, events |-> watch'.events, gone |-> watch'.gone]
        /\ watch'.born = Identity /\ watch'.lines = Len(file.lines) /\ watch'.events = Folded(file.lines)
    BY <1>2, <2>1
  <2>4. watch'.lines > 0 => watch'.born > 0
    BY <1>1, <1>3, <2>3
  <2>5. watch'.lines = 0 => watch'.events = <<>>
    BY <1>1, <2>3, EmptyFold, EmptySeq
  <2>6. Following'
    <3>1. file'.lines = file.lines /\ Len(file.lines) <= Len(file.lines)
      BY <1>1
    <3>2. SubSeq(file'.lines, 1, watch'.lines) = file.lines
      BY <2>2, <2>3, <3>1
    <3>3. watch'.lines <= Len(file'.lines)
      BY <2>3, <3>1
    <3>4. watch'.events = Folded(SubSeq(file'.lines, 1, watch'.lines))
      BY <2>3, <3>2
    <3> QED BY <3>3, <3>4 DEF Following
  <2> QED BY <1>1, <1>3, <2>3, <2>4, <2>5, <2>6 DEF TailTells
<1>6. CASE ~FileReplaced /\ Len(file.lines) > watch.lines /\ Reads(FoldedOnto(watch.events, Unseen))
  <2>1. watch.lines \in 0..Len(file.lines)
    BY <1>1, <1>2, <1>6
  <2>2. watch.events = Folded(SubSeq(file.lines, 1, watch.lines))
    <3>1. CASE watch.lines = 0
      BY <1>1, <3>1, EmptyFold, Parts DEF TailTells
    <3>2. CASE watch.lines > 0
      BY <1>6, <3>2 DEF FileReplaced, TailTells, Following
    <3> QED BY <1>2, <3>1, <3>2
  <2>3. FoldedOnto(watch.events, Unseen) = Folded(file.lines)
    BY <1>1, <2>1, <2>2, FoldsOn DEF Unseen
  <2> QED BY <1>5, <1>6, <2>3
<1> QED BY <1>4, <1>5, <1>6 DEF Poll

(* And so does every step.                                                        *)
LEMMA NextFollows ==
  ASSUME IInv, IInv', SInv, TailTells, [Next]_vars
  PROVE  TailTells'
<1>1. CASE Poll
  BY <1>1, PollFollows
<1>2. CASE ~Poll
  <2>1. watch' = watch
    BY <1>2, NextUnwatched
  <2> QED BY <2>1, StepGrows, Unwatched
<1> QED BY <1>1, <1>2

(* A SessionTail builds on what a reader of the same lines would have: rewinds    *)
(* consumed in parts, and a log deleted and made anew, come out the same.         *)
THEOREM TailFollows == Spec => []TailIsTheLog
<1>1. Init => TailTells
  BY InitFollows
<1>2. IInv /\ IInv' /\ SInv /\ TailTells /\ [Next]_vars => TailTells'
  BY NextFollows
<1>3. IInv /\ TailTells => TailIsTheLog
  <2>1. SUFFICES ASSUME IInv, TailTells, ~FileReplaced
                 PROVE  watch.events = Folded(SubSeq(file.lines, 1, watch.lines))
    BY DEF TailIsTheLog
  <2>2. file.lines \in Seq(Entry) /\ watch.lines \in Nat
    BY <2>1 DEF IInv, LogFits, FileFits, TailTells
  <2>3. CASE watch.lines = 0
    BY <2>1, <2>2, <2>3, EmptyFold, Parts DEF TailTells
  <2>4. CASE watch.lines > 0
    BY <2>1, <2>4 DEF FileReplaced, TailTells, Following
  <2> QED BY <2>2, <2>3, <2>4
<1> QED BY <1>1, <1>2, <1>3, Invariance, SessionTells, PTL DEF Spec
==================================================================================
