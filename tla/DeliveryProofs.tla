--------------------------- MODULE DeliveryProofs ---------------------------
(***************************************************************************)
(* What holds of the delivery of background reports for every tree, every   *)
(* set of tasks and every bound: the types (TypeCorrect), that nothing     *)
(* recorded is lost (WordsKept), that no session is told a thing twice but *)
(* for what waited unread in its mailbox and what its log could not be      *)
(* asked about (OnceOnly), and that the whole implements Completions       *)
(* (PromiseKept).                                                          *)
(***************************************************************************)
EXTENDS Delivery, QueueLemmas

\* What a text is made of.
Mark == {"completed", "failed", "replaced", "salvaged"}
Word == Origin \cup Mark

\* What is recorded: the words of a task or the ending of a hop, in the envelopes
\* of the sessions that could not take it.  What a log may have besides: the
\* salvage of such a text.
IsRecord(t) == \E u \in Texts : /\ Carries(t, u)
                                /\ \A i \in 1 .. Len(t) - Len(u) : t[i] = "replaced"
Rec == {t \in Seq(Word) : IsRecord(t)}
IsLine(t) == t \in Rec \/ (Len(t) > 1 /\ t[1] = "salvaged" /\ Tail(t) \in Rec)
Line == {t \in Seq(Word) : IsLine(t)}

\* What is sent, to a session of the tree.
Notes == [to : DOMAIN Parent, text : Rec]
Parcels == [note : Notes, hops : 0 .. Hops]

DiskFits ==
    /\ log \in [Session -> Seq(Line)] /\ mailbox \in [Below -> Seq(Rec)]
    /\ \A s \in Below : log[s] \in Seq(Rec)
    /\ outbox \in [Session -> Seq(Rec)] /\ tombs \in [Session -> SUBSET Rec]
    /\ \A s \in Session \ DOMAIN Parent : log[s] = <<>> /\ outbox[s] = <<>>
    /\ issued \subseteq Notes /\ lapsed \subseteq Rec

Routing == {"routing", "looked", "claimed", "taken", "recorded"}
Telling == {"followup", "told"}

\* What the driver has in hand at each place.
JobFits ==
    /\ job \in [at : {"idle"} \cup Routing \cup Telling, parcel : Parcels \cup {NoNote},
                next : [to : DOMAIN Parent, text : Line] \cup {NoNote}, retire : Notes \cup {NoNote}]
    /\ job.at \in Routing => job.parcel \in Parcels /\ Here # Root
    /\ job.at \in Telling => /\ job.retire \in Notes /\ job.next \in [to : DOMAIN Parent, text : Line]
                             /\ job.next.text \in {job.retire.text, Wrapped("salvaged", job.retire.text)}
    /\ job.at = "recorded" =>
          /\ job.next \in Notes
          /\ job.next \in issued \/ job.next.text \in lapsed
          /\ job.retire # NoNote => job.next.text = Wrapped("replaced", job.retire.text)

WorldFits == tree \in Trees /\ cond \in [Below -> {"ok", "gone", "unknown"}]

CarryFits ==
    /\ born \in [Origin -> {"running", "recorded", "sent"}]
    /\ chan \in Seq(Notes)
    /\ phase \in {"closed", "scanning", "open"} /\ toscan \subseteq Session
    /\ queue \in Seq(Parcels) /\ held \in Seq(Parcels) /\ \A p \in ToSet(held) : p.note.to # Root

RunFits ==
    /\ run \in [Below -> {"free", "steerable", "deaf", "routed"}]
    /\ \A s \in Below : run[s] = "routed" <=> job.at \in {"claimed", "taken"} /\ Here = s

ClosedFits ==
    phase = "closed" => /\ queue = <<>> /\ held = <<>> /\ chan = <<>> /\ job = Idle
                        /\ \A o \in Origin : born[o] # "recorded"

Types == WorldFits /\ DiskFits /\ JobFits /\ CarryFits /\ RunFits /\ ClosedFits

\* Nothing that was recorded, nor anything a tombstone stands for, is lost.
Kept(t) == Heard(t) \/ Owed(t) \/ Lapsed(t)
AllKept ==
    /\ \A n \in issued : Kept(n.text)
    /\ \A s \in Session : \A t \in tombs[s] : Kept(t)

\* What a session has been told, can still read, and is about to be told.
Coming(s) == IF job.at \in {"looked", "claimed"} /\ Here = s THEN <<Words>> ELSE <<>>
Reaches(s) == (log[s] \o mailbox[s]) \o Coming(s)

\* No two of a sequence of lines hold one text, but those of E.
Apart(lines, E) ==
    \A i, j \in DOMAIN lines : i # j =>
        \A t \in Line : Holds(lines[i], t) /\ Holds(lines[j], t) => t \in E

\* What a session may be told twice.
Asked(s) == {t \in Line : AskedBlind(s, t)}
Excused(s) == {t \in Line : <<s, t>> \in unread} \cup Asked(s)

Once ==
    /\ \A s \in Below : Apart(Reaches(s), Excused(s))
    /\ Apart(log[Root], Asked(Root))

IInv == Types /\ AllKept /\ Once

-----------------------------------------------------------------------------
(* Texts. *)

\* One text ends in another when it has its words at its end.
LEMMA Ends ==
    ASSUME NEW u \in Seq(Word), NEW t \in Seq(Word)
    PROVE  Carries(u, t) <=> /\ Len(t) <= Len(u)
                             /\ \A i \in 1 .. Len(t) : u[(Len(u) - Len(t)) + i] = t[i]
<1> DEFINE ru == Reverse(u)
           rt == Reverse(t)
<1>1. Len(u) \in Nat /\ Len(t) \in Nat
  BY LenProperties
<1>2. /\ ru \in Seq(Word) /\ Len(ru) = Len(u) /\ \A i \in 1 .. Len(u) : ru[i] = u[(Len(u) - i) + 1]
      /\ rt \in Seq(Word) /\ Len(rt) = Len(t) /\ \A i \in 1 .. Len(t) : rt[i] = t[(Len(t) - i) + 1]
  <2>1. \A i \in 1 .. Len(u) : (Len(u) - i) + 1 \in 1 .. Len(u)
    BY <1>1
  <2>2. \A i \in 1 .. Len(t) : (Len(t) - i) + 1 \in 1 .. Len(t)
    BY <1>1
  <2>3. \A i \in 1 .. Len(u) : u[i] \in Word
    BY ElementOfSeq
  <2>4. \A i \in 1 .. Len(t) : t[i] \in Word
    BY ElementOfSeq
  <2> QED BY <1>1, <2>1, <2>2, <2>3, <2>4 DEF Reverse
<1> HIDE DEF ru, rt
<1>3. Carries(u, t) <=> Len(t) <= Len(u) /\ SubSeq(rt, 1, Len(t)) = SubSeq(ru, 1, Len(t))
  BY <1>2 DEF Carries, IsSuffix, IsPrefix, ru, rt
<1>4. ASSUME Len(t) <= Len(u)
      PROVE  SubSeq(rt, 1, Len(t)) = SubSeq(ru, 1, Len(t)) <=> \A i \in 1 .. Len(t) : rt[i] = ru[i]
  <2>1. \A i \in 1 .. Len(t) : rt[i] \in Word /\ ru[i] \in Word
    BY <1>1, <1>2, <1>4, ElementOfSeq
  <2>2. /\ SubSeq(rt, 1, Len(t)) \in Seq(Word) /\ Len(SubSeq(rt, 1, Len(t))) = Len(t)
        /\ \A i \in 1 .. Len(t) : SubSeq(rt, 1, Len(t))[i] = rt[i]
    BY <1>1, <2>1, SubSeqProperties
  <2>3. /\ SubSeq(ru, 1, Len(t)) \in Seq(Word) /\ Len(SubSeq(ru, 1, Len(t))) = Len(t)
        /\ \A i \in 1 .. Len(t) : SubSeq(ru, 1, Len(t))[i] = ru[i]
    BY <1>1, <2>1, SubSeqProperties
  <2> QED BY <2>2, <2>3, SeqEqual
<1>5. ASSUME Len(t) <= Len(u)
      PROVE  (\A i \in 1 .. Len(t) : rt[i] = ru[i])
                <=> (\A i \in 1 .. Len(t) : u[(Len(u) - Len(t)) + i] = t[i])
  <2>1. ASSUME NEW i \in 1 .. Len(t)
        PROVE  /\ (Len(t) - i) + 1 \in 1 .. Len(t)
               /\ (Len(u) - i) + 1 = (Len(u) - Len(t)) + ((Len(t) - i) + 1)
               /\ (Len(t) - ((Len(t) - i) + 1)) + 1 = i
               /\ i \in 1 .. Len(u)
    BY <1>1, <1>5
  <2>2. ASSUME \A i \in 1 .. Len(t) : rt[i] = ru[i], NEW j \in 1 .. Len(t)
        PROVE  u[(Len(u) - Len(t)) + j] = t[j]
    <3> DEFINE i == (Len(t) - j) + 1
    <3>1. i \in 1 .. Len(t) /\ i \in 1 .. Len(u)
      BY <2>1
    <3>2. (Len(u) - i) + 1 = (Len(u) - Len(t)) + j /\ (Len(t) - i) + 1 = j
      BY <1>1, <2>1
    <3> HIDE DEF i
    <3>3. rt[i] = t[j] /\ ru[i] = u[(Len(u) - Len(t)) + j]
      BY <1>2, <3>1, <3>2
    <3> QED BY <2>2, <3>1, <3>3
  <2>3. ASSUME \A i \in 1 .. Len(t) : u[(Len(u) - Len(t)) + i] = t[i], NEW j \in 1 .. Len(t)
        PROVE  rt[j] = ru[j]
    <3>1. rt[j] = t[(Len(t) - j) + 1] /\ ru[j] = u[(Len(u) - j) + 1]
      BY <1>2, <2>1
    <3> QED BY <2>1, <2>3, <3>1
  <2> QED BY <2>2, <2>3
<1> QED BY <1>3, <1>4, <1>5

\* A text ends in itself, and holds itself.
LEMMA EndsInItself == ASSUME NEW u \in Seq(Word) PROVE Carries(u, u) /\ Holds(u, u)
<1>1. Len(u) \in Nat /\ Len(u) - Len(u) = 0
  BY LenProperties
<1>2. \A i \in 1 .. Len(u) : (Len(u) - Len(u)) + i = i
  BY <1>1
<1>3. Carries(u, u)
  BY <1>1, <1>2, Ends
<1> QED BY <1>1, <1>3 DEF Holds

\* What the end of a text carries, or holds, the text does.
LEMMA EndsThrough ==
    ASSUME NEW u \in Seq(Word), NEW v \in Seq(Word), NEW t \in Seq(Word), Carries(u, v), Carries(v, t)
    PROVE  Carries(u, t) /\ (Holds(u, v) /\ Holds(v, t) => Holds(u, t))
<1>1. Len(u) \in Nat /\ Len(v) \in Nat /\ Len(t) \in Nat
  BY LenProperties
<1>2. /\ Len(v) <= Len(u) /\ \A i \in 1 .. Len(v) : u[(Len(u) - Len(v)) + i] = v[i]
      /\ Len(t) <= Len(v) /\ \A i \in 1 .. Len(t) : v[(Len(v) - Len(t)) + i] = t[i]
  BY Ends
<1>3. Len(t) <= Len(u)
  BY <1>1, <1>2
<1>4. ASSUME NEW i \in 1 .. Len(t) PROVE u[(Len(u) - Len(t)) + i] = t[i]
  <2> DEFINE k == (Len(v) - Len(t)) + i
  <2>1. k \in 1 .. Len(v) /\ (Len(u) - Len(v)) + k = (Len(u) - Len(t)) + i
    BY <1>1, <1>2
  <2>2. v[k] = t[i]
    BY <1>2
  <2> HIDE DEF k
  <2>3. u[(Len(u) - Len(v)) + k] = v[k]
    BY <1>2, <2>1
  <2> QED BY <2>1, <2>2, <2>3
<1>5. Carries(u, t)
  BY <1>3, <1>4, Ends
<1>6. ASSUME Holds(u, v), Holds(v, t), NEW i \in 1 .. Len(u) - Len(t) PROVE u[i] # "replaced"
  <2>1. CASE i <= Len(u) - Len(v)
    BY <1>1, <1>6, <2>1 DEF Holds
  <2>2. CASE ~(i <= Len(u) - Len(v))
    <3> DEFINE k == i - (Len(u) - Len(v))
    <3>1. k \in 1 .. Len(v) - Len(t) /\ k \in 1 .. Len(v) /\ (Len(u) - Len(v)) + k = i
      BY <1>1, <1>2, <2>2
    <3> HIDE DEF k
    <3>2. u[i] = v[k]
      BY <1>2, <3>1
    <3> QED BY <1>6, <3>1, <3>2 DEF Holds
  <2> QED BY <2>1, <2>2
<1> QED BY <1>5, <1>6 DEF Holds

\* An envelope: what it is made of, and that it ends in what it is put around.
LEMMA Envelope ==
    ASSUME NEW h \in Word, NEW t \in Seq(Word)
    PROVE  LET w == Wrapped(h, t) IN
           /\ w \in Seq(Word) /\ Len(w) = 1 + Len(t) /\ w[1] = h /\ Tail(w) = t
           /\ \A i \in 1 .. Len(t) : w[1 + i] = t[i]
           /\ Carries(w, t) /\ (h # "replaced" => Holds(w, t))
<1> DEFINE one == <<h>>
           w == one \o t
<1>1. one \in Seq(Word) /\ Len(one) = 1 /\ one[1] = h
  OBVIOUS
<1> HIDE DEF one
<1>2. Len(t) \in Nat
  BY LenProperties
<1>3. /\ w \in Seq(Word) /\ Len(w) = 1 + Len(t)
      /\ \A i \in 1 .. 1 + Len(t) : w[i] = IF i <= 1 THEN one[i] ELSE t[i - 1]
  <2>1. one \in Seq(Word)
    BY <1>1
  <2>2. /\ w \in Seq(Word) /\ Len(w) = Len(one) + Len(t)
        /\ \A i \in 1 .. Len(one) + Len(t) : w[i] = IF i <= Len(one) THEN one[i] ELSE t[i - Len(one)]
    BY <2>1, ConcatProperties
  <2> QED BY <1>1, <2>2
<1>4. Wrapped(h, t) = w
  BY DEF Wrapped, one
<1> HIDE DEF w
<1>5. w[1] = h
  BY <1>1, <1>2, <1>3
<1>6. ASSUME NEW i \in 1 .. Len(t) PROVE w[1 + i] = t[i]
  <2>1. 1 + i \in 1 .. 1 + Len(t) /\ ~(1 + i <= 1) /\ (1 + i) - 1 = i
    BY <1>2
  <2> QED BY <1>3, <2>1
<1>7. Len(w) - Len(t) = 1 /\ Len(t) <= Len(w)
  BY <1>2, <1>3
<1>8. Carries(w, t)
  BY <1>3, <1>6, <1>7, Ends
<1>9. h # "replaced" => Holds(w, t)
  <2>1. \A i \in 1 .. 1 : i = 1
    OBVIOUS
  <2> QED BY <1>5, <1>7, <1>8, <2>1 DEF Holds
<1>10. Tail(w) = t
  <2>1. w # <<>>
    BY <1>2, <1>3
  <2>2. Tail(w) \in Seq(Word) /\ Len(Tail(w)) = Len(w) - 1 /\ \A i \in 1 .. Len(Tail(w)) : Tail(w)[i] = w[i + 1]
    BY <1>3, <2>1, HeadTailProperties
  <2>3. Len(Tail(w)) = Len(t)
    BY <1>2, <1>3, <2>2
  <2>4. \A i \in 1 .. Len(Tail(w)) : Tail(w)[i] = t[i]
    <3>1. \A i \in 1 .. Len(t) : i + 1 = 1 + i
      BY <1>2
    <3> QED BY <1>6, <2>2, <2>3, <3>1
  <2> QED BY <2>2, <2>3, <2>4, SeqEqual
<1> QED BY <1>3, <1>4, <1>5, <1>6, <1>8, <1>9, <1>10

\* The words of a task and the endings of its hops.
LEMMA Bases ==
    /\ \A o \in Origin : Told(o) \in Texts /\ Nested(o, "completed") \in Texts /\ Nested(o, "failed") \in Texts
    /\ \A u \in Texts : /\ u \in Seq(Word) /\ Len(u) \in 1 .. 2 /\ u[1] \in Origin
                        /\ Len(u) = 2 => u[2] \in {"completed", "failed"}
<1>1. \A o \in Origin : Told(o) \in Texts /\ Nested(o, "completed") \in Texts /\ Nested(o, "failed") \in Texts
  BY DEF Texts
<1>2. ASSUME NEW o \in Origin
      PROVE  /\ <<o>> \in Seq(Word) /\ Len(<<o>>) = 1 /\ <<o>>[1] = o
             /\ \A how \in {"completed", "failed"} :
                   /\ <<o, how>> \in Seq(Word) /\ Len(<<o, how>>) = 2
                   /\ <<o, how>>[1] = o /\ <<o, how>>[2] = how
  BY DEF Word, Mark
<1>3. ASSUME NEW u \in Texts
      PROVE  /\ u \in Seq(Word) /\ Len(u) \in 1 .. 2 /\ u[1] \in Origin
             /\ Len(u) = 2 => u[2] \in {"completed", "failed"}
  <2>1. PICK o \in Origin : u \in {<<o>>, <<o, "completed">>, <<o, "failed">>}
    BY DEF Texts, Told, Nested
  <2>2. CASE u = <<o>>
    BY <1>2, <2>2
  <2>3. CASE u = <<o, "completed">>
    BY <1>2, <2>3
  <2>4. CASE u = <<o, "failed">>
    BY <1>2, <2>4
  <2> QED BY <2>1, <2>2, <2>3, <2>4
<1> QED BY <1>1, <1>3

\* A text with no envelope is a record.
LEMMA BaseIsRecord == \A u \in Texts : u \in Rec
<1>1. ASSUME NEW u \in Texts PROVE u \in Rec
  <2>1. u \in Seq(Word) /\ Len(u) \in Nat
    BY Bases, LenProperties
  <2>2. \A i \in 1 .. Len(u) - Len(u) : u[i] = "replaced"
    BY <2>1
  <2> QED BY <2>1, <2>2, EndsInItself DEF Rec, IsRecord
<1> QED BY <1>1

\* So is a replacement of one; a salvage is a line of a log.
LEMMA WrappedIsLine ==
    ASSUME NEW t \in Rec
    PROVE  Wrapped("replaced", t) \in Rec /\ Wrapped("salvaged", t) \in Line /\ t \in Line
<1>1. t \in Seq(Word) /\ Len(t) \in Nat /\ "replaced" \in Word /\ "salvaged" \in Word
  BY LenProperties DEF Rec, Word, Mark
<1>2. PICK u \in Texts : Carries(t, u) /\ \A i \in 1 .. Len(t) - Len(u) : t[i] = "replaced"
  BY DEF Rec, IsRecord
<1>3. u \in Seq(Word) /\ Len(u) \in 1 .. 2
  BY Bases
<1>4. Len(u) <= Len(t)
  BY <1>1, <1>2, <1>3, Ends
<1> DEFINE w == Wrapped("replaced", t)
<1>5. /\ w \in Seq(Word) /\ Len(w) = 1 + Len(t) /\ w[1] = "replaced"
      /\ \A i \in 1 .. Len(t) : w[1 + i] = t[i]
      /\ Carries(w, t)
  BY <1>1, Envelope
<1> HIDE DEF w
<1>6. Carries(w, u)
  BY <1>1, <1>2, <1>3, <1>5, EndsThrough
<1>7. ASSUME NEW i \in 1 .. Len(w) - Len(u) PROVE w[i] = "replaced"
  <2>1. CASE i = 1
    BY <1>5, <2>1
  <2>2. CASE i # 1
    <3>1. i - 1 \in 1 .. Len(t) - Len(u) /\ i - 1 \in 1 .. Len(t) /\ 1 + (i - 1) = i
      BY <1>1, <1>3, <1>4, <1>5, <2>2
    <3>2. w[1 + (i - 1)] = t[i - 1]
      BY <1>5, <3>1
    <3>3. t[i - 1] = "replaced"
      BY <1>2, <3>1
    <3> QED BY <3>1, <3>2, <3>3
  <2> QED BY <2>1, <2>2
<1>8. w \in Rec
  BY <1>5, <1>6, <1>7 DEF Rec, IsRecord
<1> DEFINE v == Wrapped("salvaged", t)
<1>9. v \in Seq(Word) /\ Len(v) = 1 + Len(t) /\ v[1] = "salvaged" /\ Tail(v) = t
  BY <1>1, Envelope
<1> HIDE DEF v
<1>10. Len(v) > 1
  BY <1>1, <1>3, <1>4, <1>9
<1>11. v \in Line
  BY <1>9, <1>10 DEF Line, IsLine
<1>12. t \in Line
  BY <1>1 DEF Line, IsLine
<1> QED BY <1>8, <1>11, <1>12 DEF w, v

\* No line is empty, and one of a single word is that word of a task.
LEMMA EmptyIsNoLine ==
    ASSUME NEW t \in Line
    PROVE  Len(t) # 0 /\ (Len(t) = 1 => t[1] \in Origin)
<1>1. t \in Seq(Word) /\ Len(t) \in Nat
  BY LenProperties DEF Line
<1>2. CASE t \in Rec
  <2>1. PICK u \in Texts : Carries(t, u)
    BY <1>2 DEF Rec, IsRecord
  <2>2. u \in Seq(Word) /\ Len(u) \in 1 .. 2 /\ u[1] \in Origin
    BY Bases
  <2>3. Len(u) <= Len(t) /\ t[(Len(t) - Len(u)) + 1] = u[1]
    BY <1>1, <2>1, <2>2, Ends
  <2>4. Len(t) = 1 => (Len(t) - Len(u)) + 1 = 1
    BY <1>1, <2>2, <2>3
  <2> QED BY <1>1, <2>2, <2>3, <2>4
<1>3. CASE t \notin Rec
  <2>1. Len(t) > 1
    BY <1>3 DEF Line, IsLine
  <2> QED BY <1>1, <2>1
<1> QED BY <1>2, <1>3

\* What a line is about is a task.
LEMMA LineIsAbout ==
    ASSUME NEW t \in Line
    PROVE  /\ t \in Seq(Word) /\ IsText(t)
           /\ t \in Rec => /\ About(t) \in Origin
                           /\ \A how \in {"completed", "failed"} : Nested(About(t), how) \in Rec
<1>1. t \in Seq(Word) /\ Len(t) \in Nat
  BY LenProperties DEF Line
<1>2. ASSUME NEW r \in Rec PROVE IsText(r)
  BY DEF Rec, IsRecord, IsText
<1>3. CASE t \in Rec
  <2>1. PICK u \in Texts : Carries(t, u)
    BY <1>3 DEF Rec, IsRecord
  <2>2. u \in Seq(Word) /\ Len(u) \in 1 .. 2 /\ u[1] \in Origin
    BY Bases
  <2>3. Len(u) <= Len(t) /\ t[(Len(t) - Len(u)) + 1] = u[1]
    BY <1>1, <2>1, <2>2, Ends
  <2>4. (Len(t) - Len(u)) + 1 \in DOMAIN t
    BY <1>1, <2>2, <2>3, LenProperties
  <2>5. \E o \in Origin : o \in ToSet(t)
    BY <2>2, <2>3, <2>4 DEF ToSet
  <2>6. About(t) \in Origin
    BY <2>5 DEF About
  <2> QED BY <1>1, <1>2, <1>3, <2>6, Bases, BaseIsRecord
<1>4. CASE t \notin Rec
  <2>1. Len(t) > 1 /\ t[1] = "salvaged" /\ Tail(t) \in Rec
    BY <1>4 DEF Line, IsLine
  <2> DEFINE r == Tail(t)
  <2>2. r \in Seq(Word) /\ Len(r) = Len(t) - 1 /\ \A i \in 1 .. Len(r) : r[i] = t[i + 1]
    BY <1>1, <2>1, HeadTailProperties
  <2> HIDE DEF r
  <2>3. Carries(t, r)
    <3>1. Len(r) <= Len(t) /\ Len(t) - Len(r) = 1
      BY <1>1, <2>2
    <3>2. \A i \in 1 .. Len(r) : 1 + i = i + 1
      BY <1>1, <2>2
    <3> QED BY <1>1, <2>2, <3>1, <3>2, Ends
  <2>4. PICK u \in Texts : Carries(r, u)
    BY <1>2, <2>1 DEF IsText, r
  <2>5. Carries(t, u)
    BY <1>1, <2>2, <2>3, <2>4, Bases, EndsThrough
  <2> QED BY <1>1, <1>4, <2>5 DEF IsText
<1> QED BY <1>3, <1>4

\* A record holds no line but itself: what is in an envelope is not held, and what a
\* hop's ending adds is no text.
LEMMA RecordsHoldThemselves ==
    ASSUME NEW w \in Rec, NEW t \in Line, Holds(w, t)
    PROVE  t = w
<1>1. w \in Seq(Word) /\ t \in Seq(Word) /\ Len(w) \in Nat /\ Len(t) \in Nat
  BY LenProperties DEF Rec, Line
<1>2. PICK u \in Texts : Carries(w, u) /\ \A i \in 1 .. Len(w) - Len(u) : w[i] = "replaced"
  BY DEF Rec, IsRecord
<1>3. u \in Seq(Word) /\ Len(u) \in 1 .. 2 /\ u[1] \in Origin /\ (Len(u) = 2 => u[2] \in {"completed", "failed"})
  BY Bases
<1>4. Len(u) <= Len(w) /\ \A i \in 1 .. Len(u) : w[(Len(w) - Len(u)) + i] = u[i]
  BY <1>1, <1>2, <1>3, Ends
<1>5. /\ Len(t) <= Len(w) /\ \A i \in 1 .. Len(t) : w[(Len(w) - Len(t)) + i] = t[i]
      /\ \A i \in 1 .. Len(w) - Len(t) : w[i] # "replaced"
  BY <1>1, Ends DEF Holds
<1>6. CASE Len(t) = Len(w)
  <2>1. \A i \in 1 .. Len(t) : (Len(w) - Len(t)) + i = i
    BY <1>1, <1>6
  <2> QED BY <1>1, <1>5, <1>6, <2>1, SeqEqual
<1>7. ASSUME Len(t) < Len(w) PROVE FALSE
  <2>1. 1 \in 1 .. Len(w) - Len(t) /\ w[1] # "replaced"
    BY <1>1, <1>5, <1>7
  <2>2. Len(w) = Len(u)
    BY <1>1, <1>2, <1>3, <1>4, <2>1
  <2>3. (Len(w) = 1 /\ Len(t) = 0) \/ (Len(w) = 2 /\ Len(t) \in 0 .. 1)
    <3>1. \A a \in 1 .. 2, b \in Nat : b < a => (a = 1 /\ b = 0) \/ (a = 2 /\ b \in 0 .. 1)
      OBVIOUS
    <3>2. Len(w) \in 1 .. 2
      BY <1>3, <2>2
    <3> QED BY <1>1, <1>7, <3>1, <3>2
  <2>4. Len(t) # 0
    BY <1>1, EmptyIsNoLine
  <2>5. Len(w) = 2 /\ Len(t) = 1 /\ (Len(w) - Len(t)) + 1 = 2 /\ (Len(w) - Len(u)) + 2 = 2
    <3>1. \A b \in 0 .. 1 : b # 0 => b = 1
      OBVIOUS
    <3>2. Len(w) = 2 /\ Len(t) = 1
      BY <2>3, <2>4, <3>1
    <3> QED BY <2>2, <3>2
  <2>6. t[1] = w[2] /\ w[2] = u[2] /\ u[2] \in {"completed", "failed"}
    BY <1>3, <1>4, <1>5, <2>2, <2>5
  <2>7. t[1] \in Origin
    BY <1>1, <2>5, EmptyIsNoLine
  <2> QED BY <2>6, <2>7, OriginAssumption
<1> QED BY <1>1, <1>5, <1>6, <1>7

\* What a salvage holds is itself or what it salvages.
LEMMA SalvageHolds ==
    ASSUME NEW r \in Rec, NEW t \in Line, Holds(Wrapped("salvaged", r), t)
    PROVE  t = Wrapped("salvaged", r) \/ t = r
<1> DEFINE w == Wrapped("salvaged", r)
<1>1. /\ r \in Seq(Word) /\ t \in Seq(Word) /\ Len(r) \in Nat /\ Len(t) \in Nat /\ "salvaged" \in Word
  BY LenProperties DEF Rec, Line, Word, Mark
<1>2. w \in Seq(Word) /\ Len(w) = 1 + Len(r) /\ \A i \in 1 .. Len(r) : w[1 + i] = r[i]
  BY <1>1, Envelope
<1> HIDE DEF w
<1>3. /\ Len(t) <= Len(w) /\ \A i \in 1 .. Len(t) : w[(Len(w) - Len(t)) + i] = t[i]
      /\ \A i \in 1 .. Len(w) - Len(t) : w[i] # "replaced"
  BY <1>1, <1>2, Ends DEF Holds, w
<1>4. CASE Len(t) = Len(w)
  <2>1. \A i \in 1 .. Len(t) : (Len(w) - Len(t)) + i = i
    BY <1>1, <1>2, <1>4
  <2>2. t = w
    BY <1>1, <1>2, <1>3, <1>4, <2>1, SeqEqual
  <2> QED BY <2>2 DEF w
<1>5. CASE Len(t) # Len(w)
  <2>1. Len(t) <= Len(r)
    BY <1>1, <1>2, <1>3, <1>5
  <2>2. ASSUME NEW i \in 1 .. Len(t) PROVE r[(Len(r) - Len(t)) + i] = t[i]
    <3> DEFINE k == (Len(r) - Len(t)) + i
    <3>1. k \in 1 .. Len(r) /\ 1 + k = (Len(w) - Len(t)) + i
      BY <1>1, <1>2, <2>1
    <3> HIDE DEF k
    <3>2. r[k] = t[i]
      BY <1>2, <1>3, <3>1
    <3> QED BY <3>2 DEF k
  <2>3. ASSUME NEW i \in 1 .. Len(r) - Len(t) PROVE r[i] # "replaced"
    <3>1. i \in 1 .. Len(r) /\ 1 + i \in 1 .. Len(w) - Len(t)
      BY <1>1, <1>2, <2>1
    <3> QED BY <1>2, <1>3, <3>1
  <2>4. Holds(r, t)
    BY <1>1, <2>1, <2>2, <2>3, Ends DEF Holds
  <2> QED BY <2>4, RecordsHoldThemselves
<1> QED BY <1>4, <1>5

\* A text ends in the words of one task at most: its last.
LEMMA LastWord ==
    ASSUME NEW u \in Seq(Word), NEW o \in Origin
    PROVE  /\ Told(o) \in Seq(Word)
           /\ Carries(u, Told(o)) <=> Len(u) >= 1 /\ u[Len(u)] = o
<1>1. <<o>> \in Seq(Word) /\ Len(<<o>>) = 1 /\ <<o>>[1] = o
  BY DEF Word
<1>2. Len(u) \in Nat /\ (Len(u) - 1) + 1 = Len(u) /\ \A i \in 1 .. 1 : i = 1
  BY LenProperties
<1> DEFINE t == <<o>>
<1>3. t \in Seq(Word) /\ Len(t) = 1 /\ t[1] = o
  BY <1>1
<1> HIDE DEF t
<1>4. Carries(u, t) <=> Len(t) <= Len(u) /\ \A i \in 1 .. Len(t) : u[(Len(u) - Len(t)) + i] = t[i]
  BY <1>3, Ends
<1>5. Carries(u, t) <=> Len(u) >= 1 /\ u[Len(u)] = o
  BY <1>2, <1>3, <1>4
<1> QED BY <1>3, <1>5 DEF Told, t

-----------------------------------------------------------------------------
(* The types. *)

\* The tree never changes, nor what is meant by it.
LEMMA TreeStays ==
    ASSUME UNCHANGED tree
    PROVE  /\ Parent' = Parent /\ Target' = Target /\ Hops' = Hops /\ Below' = Below
           /\ Notes' = Notes /\ Parcels' = Parcels
  BY DEF Parent, Target, Hops, Below, Notes, Parcels

\* Every session of the tree but the root has a parent in it, and every report goes
\* to a session of it.
LEMMA InTree ==
    ASSUME WorldFits
    PROVE  /\ Root \in DOMAIN Parent /\ DOMAIN Parent \subseteq Session
           /\ Below \subseteq Session /\ DOMAIN Parent = Below \cup {Root} /\ Root \notin Below
           /\ \A s \in Below : Parent[s] \in DOMAIN Parent
           /\ \A o \in DOMAIN Target : o \in Origin /\ Target[o] \in DOMAIN Parent
           /\ Hops \in Nat
<1>1. /\ Root \in DOMAIN Parent /\ DOMAIN Parent \subseteq Session
      /\ \A s \in DOMAIN Parent : Parent[s] \in IF s = Root THEN {NoSession} ELSE DOMAIN Parent
      /\ \A o \in DOMAIN Target : o \in Origin /\ Target[o] \in DOMAIN Parent
      /\ Hops \in Nat
  BY TreeAssumption DEF WorldFits, Parent, Target, Hops
<1> QED BY <1>1 DEF Below

\* A step that writes nothing.
LEMMA DiskStays ==
    ASSUME Types, UNCHANGED <<tree, log, mailbox, outbox, tombs, issued, lapsed>>
    PROVE  DiskFits'
<1>1. Below' = Below /\ Parent' = Parent /\ Notes' = Notes
  BY TreeStays
<1> QED BY <1>1 DEF Types, DiskFits

\* A report that is recorded, or that the disk refused.
LEMMA RecordFits ==
    ASSUME Types, UNCHANGED <<tree, log, mailbox, tombs>>, NEW n \in Notes, NEW ok \in BOOLEAN, Record(n, ok)
    PROVE  /\ DiskFits' /\ (n \in issued' \/ n.text \in lapsed')
           /\ issued \subseteq issued' /\ lapsed \subseteq lapsed'
<1>1. Below' = Below /\ Parent' = Parent /\ Notes' = Notes
  BY TreeStays
<1>2. n.to \in DOMAIN Parent /\ n.text \in Rec /\ n.to \in Session
  BY InTree DEF Notes, Types
<1>3. CASE ok
  <2>1. outbox' = [outbox EXCEPT ![n.to] = Append(@, n.text)] /\ issued' = issued \cup {n} /\ lapsed' = lapsed
    BY <1>3 DEF Record
  <2>2. outbox[n.to] \in Seq(Rec) /\ outbox \in [Session -> Seq(Rec)]
    BY <1>2 DEF Types, DiskFits
  <2>3. Append(outbox[n.to], n.text) \in Seq(Rec)
    BY <1>2, <2>2, Appended
  <2>4. outbox' \in [Session -> Seq(Rec)] /\ \A s \in Session \ DOMAIN Parent : outbox'[s] = <<>>
    <3>1. \A s \in Session \ DOMAIN Parent : outbox[s] = <<>>
      BY DEF Types, DiskFits
    <3> QED BY <1>2, <2>1, <2>2, <2>3, <3>1
  <2> QED BY <1>1, <2>1, <2>4 DEF Types, DiskFits
<1>4. CASE ~ok
  <2>1. UNCHANGED <<outbox, issued>> /\ lapsed' = lapsed \cup {n.text}
    BY <1>4 DEF Record
  <2> QED BY <1>1, <1>2, <2>1 DEF Types, DiskFits
<1> QED BY <1>3, <1>4

\* An entry that is retired, or is not.
LEMMA RetireFits ==
    ASSUME Types, UNCHANGED <<tree, log, mailbox, outbox, issued, lapsed>>,
           NEW n \in Notes \cup {NoNote}, NEW ok \in BOOLEAN, Retire(n, ok)
    PROVE  DiskFits'
<1>1. Below' = Below /\ Parent' = Parent /\ Notes' = Notes
  BY TreeStays
<1>2. tombs' \in [Session -> SUBSET Rec]
  <2>1. tombs \in [Session -> SUBSET Rec]
    BY DEF Types, DiskFits
  <2>2. CASE n \in Notes
    <3>1. n.to \in Session /\ n.text \in Rec
      BY <2>2, InTree DEF Notes, Types
    <3> QED BY <2>1, <3>1 DEF Retire
  <2>3. CASE n = NoNote
    BY <2>1, <2>3 DEF Retire
  <2> QED BY <2>2, <2>3
<1> QED BY <1>1, <1>2 DEF Types, DiskFits

\* A session that is told something.
LEMMA TellFits ==
    ASSUME Types, UNCHANGED <<tree, outbox, tombs, issued, lapsed>>, mailbox' \in [Below -> Seq(Rec)],
           NEW s \in DOMAIN Parent, NEW texts \in Seq(Line), s # Root => texts \in Seq(Rec), Tell(s, texts)
    PROVE  DiskFits'
<1>1. Below' = Below /\ Parent' = Parent /\ Notes' = Notes
  BY TreeStays
<1>2. log \in [Session -> Seq(Line)] /\ s \in Session /\ log' = [log EXCEPT ![s] = @ \o texts]
  BY InTree DEF Types, DiskFits, Tell
<1>3. log[s] \in Seq(Line) /\ log[s] \o texts \in Seq(Line)
  <2>1. log[s] \in Seq(Line)
    BY <1>2
  <2> QED BY <2>1, ConcatProperties
<1>4. log' \in [Session -> Seq(Line)]
  BY <1>2, <1>3
<1>5. ASSUME NEW q \in Below PROVE log'[q] \in Seq(Rec)
  <2>1. q \in Session /\ log[q] \in Seq(Rec) /\ q # Root
    BY InTree DEF Types, DiskFits
  <2>2. CASE q = s
    <3>1. texts \in Seq(Rec) /\ log[s] \in Seq(Rec)
      BY <2>1, <2>2
    <3>2. log[s] \o texts \in Seq(Rec)
      BY <3>1, ConcatProperties
    <3> QED BY <1>2, <2>2, <3>2
  <2> QED BY <1>2, <2>1, <2>2
<1>6. \A q \in Session \ DOMAIN Parent : log'[q] = <<>>
  BY <1>2 DEF Types, DiskFits
<1> QED BY <1>1, <1>4, <1>5, <1>6 DEF Types, DiskFits

\* A step that leaves the driver's parcel in its place.
LEMMA JobStays ==
    ASSUME Types, UNCHANGED <<tree, job>>, issued \subseteq issued', lapsed \subseteq lapsed'
    PROVE  JobFits'
<1>1. Parent' = Parent /\ Notes' = Notes /\ Parcels' = Parcels
  BY TreeStays
<1> QED BY <1>1 DEF Types, JobFits, Here, Note0

\* A step that changes no turn, nor the driver's hold on one.
LEMMA RunStays ==
    ASSUME Types, UNCHANGED <<tree, run>>,
           \/ UNCHANGED job
           \/ job.at \notin {"claimed", "taken"} /\ job'.at \notin {"claimed", "taken"}
    PROVE  RunFits'
<1>1. Below' = Below
  BY TreeStays
<1> QED BY <1>1 DEF Types, RunFits, Here, Note0

\* A step of an open driver's, or one that publishes nothing while it is closed.
LEMMA WorldStays == ASSUME Types, UNCHANGED world PROVE WorldFits'
  BY TreeStays DEF Types, WorldFits, world

\* An idle driver has nothing in hand.
LEMMA IdleFits == ASSUME Types, UNCHANGED tree, job' = Idle PROVE JobFits'
  BY TreeStays DEF Types, JobFits, Idle, Routing, Telling, Here, Note0

\* Nothing that is carried changes.
LEMMA CarryStays ==
    ASSUME Types, UNCHANGED <<tree, born, chan, phase, toscan, queue, held>>
    PROVE  CarryFits'
  BY TreeStays DEF Types, CarryFits

\* An open driver is not a closed one.
LEMMA OpenStays == ASSUME phase = "open", UNCHANGED phase PROVE ClosedFits'
  BY DEF ClosedFits

-----------------------------------------------------------------------------
(* What is in hand. *)

\* A note to a session of the tree, and a parcel with it.
LEMMA NoteIs ==
    ASSUME NEW s \in DOMAIN Parent, NEW t \in Rec
    PROVE  /\ Note(s, t) \in Notes /\ Note(s, t).to = s /\ Note(s, t).text = t
           /\ \A k \in 0 .. Hops : Parcel(Note(s, t), k) \in Parcels
  BY DEF Note, Parcel, Notes, Parcels

\* What a parcel is.
LEMMA ParcelIs ==
    ASSUME NEW p \in Parcels
    PROVE  /\ p.note \in Notes /\ p.note.to \in DOMAIN Parent /\ p.note.text \in Rec
           /\ p.hops \in 0 .. Hops
  BY DEF Notes, Parcels

\* What the driver routes.
LEMMA Routed ==
    ASSUME Types, job.at \in Routing
    PROVE  /\ job.parcel \in Parcels /\ Note0 \in Notes /\ Here \in Below /\ Words \in Rec
           /\ Words \in Seq(Word) /\ Parent[Here] \in DOMAIN Parent
<1>1. job.parcel \in Parcels /\ Here # Root
  BY DEF Types, JobFits
<1>2. Note0 \in Notes /\ Here \in DOMAIN Parent /\ Words \in Rec
  BY <1>1, ParcelIs DEF Note0, Here, Words
<1>3. Here \in Below
  BY <1>1, <1>2 DEF Below
<1> QED BY <1>1, <1>2, <1>3, InTree DEF Types, Rec

\* A parcel that goes on.
LEMMA JobMoves ==
    ASSUME Types, UNCHANGED tree, job.at \in {"routing", "looked", "claimed"},
           NEW x \in {"looked", "claimed", "taken"}, job' = [job EXCEPT !.at = x]
    PROVE  JobFits' /\ job'.at = x /\ job'.parcel = job.parcel /\ Here' = Here /\ Words' = Words
<1>1. Parent' = Parent /\ Notes' = Notes /\ Parcels' = Parcels
  BY TreeStays
<1>2. job.parcel \in Parcels /\ Here # Root
  BY Routed, InTree DEF Routing, Types
<1>3. /\ job' \in [at : {"idle"} \cup Routing \cup Telling, parcel : Parcels \cup {NoNote},
                   next : [to : DOMAIN Parent, text : Line] \cup {NoNote}, retire : Notes \cup {NoNote}]
      /\ job'.at = x /\ job'.parcel = job.parcel
  BY DEF Types, JobFits, Routing
<1>4. Here' = Here /\ Words' = Words
  BY <1>3 DEF Here, Words, Note0
<1> QED BY <1>1, <1>2, <1>3, <1>4 DEF JobFits, Routing, Telling

\* A follow-up that has been told.
LEMMA FollowUpMoves ==
    ASSUME Types, UNCHANGED tree, job.at = "followup", job' = [job EXCEPT !.at = "told"]
    PROVE  JobFits'
<1>1. Parent' = Parent /\ Notes' = Notes /\ Parcels' = Parcels
  BY TreeStays
<1>2. /\ job' \in [at : {"idle"} \cup Routing \cup Telling, parcel : Parcels \cup {NoNote},
                   next : [to : DOMAIN Parent, text : Line] \cup {NoNote}, retire : Notes \cup {NoNote}]
      /\ job'.at = "told" /\ job'.next = job.next /\ job'.retire = job.retire
  BY DEF Types, JobFits, Telling
<1> QED BY <1>1, <1>2 DEF Types, JobFits, Routing, Telling

\* A follow-up of a report, or of its salvage.
LEMMA FollowUpFits ==
    ASSUME Types, UNCHANGED tree, NEW n \in Notes,
           job' = FollowUp(n.text, n) \/ job' = Salvaged(n)
    PROVE  JobFits' /\ job'.at = "followup"
<1>1. Parent' = Parent /\ Notes' = Notes /\ Parcels' = Parcels
  BY TreeStays
<1>2. PICK u \in {n.text, Wrapped("salvaged", n.text)} : job' = FollowUp(u, n)
  BY DEF Salvaged
<1>3. n.text \in Rec /\ Root \in DOMAIN Parent
  BY InTree DEF Notes, Types
<1>4. u \in Line
  BY <1>3, WrappedIsLine
<1>5. /\ job'.at = "followup" /\ job'.parcel = NoNote /\ job'.next = [to |-> Root, text |-> u] /\ job'.retire = n
      /\ job' \in [at : {"idle"} \cup Routing \cup Telling, parcel : Parcels \cup {NoNote},
                   next : [to : DOMAIN Parent, text : Line] \cup {NoNote}, retire : Notes \cup {NoNote}]
  BY <1>2, <1>3, <1>4 DEF FollowUp, Note, Telling
<1>6. job'.next \in [to : DOMAIN Parent, text : Line] /\ job'.next.text = u
  BY <1>3, <1>4, <1>5
<1> QED BY <1>1, <1>2, <1>5, <1>6 DEF JobFits, Routing, Telling

\* A next hop that is recorded.
LEMMA RecordedFits ==
    ASSUME Types, UNCHANGED tree, job.at \in Routing,
           NEW n \in Notes, n \in issued' \/ n.text \in lapsed',
           NEW r \in Notes \cup {NoNote}, r # NoNote => n.text = Wrapped("replaced", r.text),
           job' = Recorded(n, r)
    PROVE  JobFits' /\ job'.at = "recorded"
<1>1. Parent' = Parent /\ Notes' = Notes /\ Parcels' = Parcels
  BY TreeStays
<1>2. job.parcel \in Parcels /\ Here # Root
  BY Routed, InTree DEF Types
<1>3. n \in [to : DOMAIN Parent, text : Line]
  BY WrappedIsLine DEF Notes
<1>4. /\ job'.at = "recorded" /\ job'.parcel = job.parcel /\ job'.next = n /\ job'.retire = r
      /\ job' \in [at : {"idle"} \cup Routing \cup Telling, parcel : Parcels \cup {NoNote},
                   next : [to : DOMAIN Parent, text : Line] \cup {NoNote}, retire : Notes \cup {NoNote}]
  BY <1>2, <1>3 DEF Recorded, Routing
<1>5. Here' = Here
  BY <1>4 DEF Here, Note0
<1> QED BY <1>1, <1>2, <1>4, <1>5 DEF JobFits, Telling

\* A parcel that is put back.
LEMMA HoldFits ==
    ASSUME Types, UNCHANGED <<tree, born, chan, phase, toscan, queue>>, job.at \in Routing, Hold
    PROVE  CarryFits' /\ JobFits'
<1>1. Parcels' = Parcels /\ Notes' = Notes
  BY TreeStays
<1>2. job.parcel \in Parcels /\ job.parcel.note.to # Root
  BY Routed, InTree DEF Types, Here, Note0
<1>3. held \in Seq(Parcels) /\ held' = Append(held, job.parcel)
  BY DEF Types, CarryFits, Hold
<1>4. held' \in Seq(Parcels) /\ ToSet(held') = ToSet(held) \cup {job.parcel}
  BY <1>2, <1>3, Appended DEF ToSet, Range
<1>5. JobFits'
  BY IdleFits DEF Hold
<1> QED BY <1>1, <1>2, <1>4, <1>5 DEF Types, CarryFits

-----------------------------------------------------------------------------
(* Every step keeps the types. *)

\* The publishers.
LEMMA RecordOriginTypes ==
    ASSUME Types, NEW o \in DOMAIN Target, RecordOrigin(o)
    PROVE  Types'
<1>1. UNCHANGED <<tree, cond, log, mailbox, tombs, run, chan, phase, toscan, queue, held, job>>
  BY DEF RecordOrigin, world, driver
<1>2. PICK ok \in BOOLEAN : Record(Note(Target[o], Told(o)), ok)
  BY DEF RecordOrigin
<1>3. o \in Origin /\ Note(Target[o], Told(o)) \in Notes
  BY InTree, Bases, BaseIsRecord, NoteIs DEF Types
<1>4. DiskFits' /\ issued \subseteq issued' /\ lapsed \subseteq lapsed'
  BY <1>1, <1>2, <1>3, RecordFits
<1>5. JobFits' /\ RunFits' /\ WorldFits'
  BY <1>1, <1>4, JobStays, RunStays, WorldStays DEF world
<1>6. CarryFits' /\ ClosedFits'
  <2>1. born' \in [Origin -> {"running", "recorded", "sent"}] /\ phase = "open"
    BY DEF Types, CarryFits, RecordOrigin
  <2> QED BY <1>1, <2>1, TreeStays DEF Types, CarryFits, ClosedFits
<1> QED BY <1>4, <1>5, <1>6 DEF Types

\* A recorded report is sent.
LEMMA SendOriginTypes ==
    ASSUME Types, NEW o \in DOMAIN Target, SendOrigin(o)
    PROVE  Types'
<1>1. UNCHANGED <<tree, cond, log, mailbox, outbox, tombs, issued, lapsed, run, phase, toscan, queue, held, job>>
  BY DEF SendOrigin, world, driver, disk, hist
<1>2. o \in Origin /\ Note(Target[o], Told(o)) \in Notes
  BY InTree, Bases, BaseIsRecord, NoteIs DEF Types
<1>3. DiskFits' /\ JobFits' /\ RunFits' /\ WorldFits'
  BY <1>1, DiskStays, JobStays, RunStays, WorldStays DEF world
<1>4. chan' \in Seq(Notes)
  BY <1>2, Appended DEF Types, CarryFits, SendOrigin
<1>5. CarryFits' /\ ClosedFits'
  <2>1. born' \in [Origin -> {"running", "recorded", "sent"}] /\ phase # "closed"
    BY <1>2 DEF Types, CarryFits, ClosedFits, SendOrigin
  <2> QED BY <1>1, <1>4, <2>1, TreeStays DEF Types, CarryFits, ClosedFits
<1> QED BY <1>3, <1>5 DEF Types

\* A mailbox is that of a session below the root, and can be emptied.
LEMMA MailIs ==
    ASSUME Types, NEW s \in Below
    PROVE  /\ s \in DOMAIN Parent /\ s # Root /\ mailbox[s] \in Seq(Rec) /\ mailbox[s] \in Seq(Line)
           /\ [mailbox EXCEPT ![s] = <<>>] \in [Below -> Seq(Rec)]
<1>1. s \in DOMAIN Parent /\ s # Root
  BY DEF Below
<1>2. mailbox \in [Below -> Seq(Rec)] /\ mailbox[s] \in Seq(Rec)
  BY DEF Types, DiskFits
<1>3. Rec \subseteq Line
  BY WrappedIsLine
<1>4. mailbox[s] \in Seq(Line)
  BY <1>2, <1>3, SeqMonotonic
<1>5. <<>> \in Seq(Rec)
  BY Short
<1> QED BY <1>1, <1>2, <1>4, <1>5

\* A turn of its own begins ...
LEMMA BeginOwnTypes ==
    ASSUME Types, NEW s \in Below, BeginOwn(s)
    PROVE  Types'
<1>1. UNCHANGED <<tree, cond, outbox, tombs, issued, lapsed, born, chan, phase, toscan, queue, held, job>>
  BY DEF BeginOwn, world, driver, hist
<1>2. DiskFits'
  <2>1. mailbox' \in [Below -> Seq(Rec)] /\ Tell(s, mailbox[s])
    BY MailIs DEF BeginOwn
  <2> QED BY <1>1, <2>1, MailIs, TellFits
<1>3. JobFits' /\ WorldFits' /\ CarryFits' /\ ClosedFits'
  BY <1>1, JobStays, WorldStays, CarryStays, OpenStays DEF world, BeginOwn
<1>4. RunFits'
  <2>1. PICK how \in {"steerable", "deaf"} : run' = [run EXCEPT ![s] = how]
    BY DEF BeginOwn
  <2>2. run[s] = "free" /\ Below' = Below /\ Here' = Here
    BY <1>1, TreeStays DEF BeginOwn, Here, Note0
  <2> QED BY <1>1, <2>1, <2>2 DEF Types, RunFits
<1> QED BY <1>2, <1>3, <1>4 DEF Types

\* ... reads what was steered ...
LEMMA ReadSteersTypes ==
    ASSUME Types, NEW s \in Below, ReadSteers(s)
    PROVE  Types'
<1>1. UNCHANGED <<tree, cond, outbox, tombs, issued, lapsed, run, born, chan, phase, toscan, queue, held, job>>
  BY DEF ReadSteers, world, driver, hist
<1>2. DiskFits'
  <2>1. mailbox' \in [Below -> Seq(Rec)] /\ Tell(s, mailbox[s])
    BY MailIs DEF ReadSteers
  <2> QED BY <1>1, <2>1, MailIs, TellFits
<1>3. JobFits' /\ WorldFits' /\ CarryFits' /\ RunFits'
  BY <1>1, JobStays, WorldStays, CarryStays, RunStays DEF world
<1>4. ClosedFits'
  BY <1>1 DEF Types, ClosedFits
<1> QED BY <1>2, <1>3, <1>4 DEF Types

\* ... and ends.
LEMMA EndOwnTypes ==
    ASSUME Types, NEW s \in Below, EndOwn(s)
    PROVE  Types'
<1>1. UNCHANGED <<tree, cond, log, mailbox, outbox, tombs, issued, lapsed, born, chan, phase, toscan, queue, held, job>>
  BY DEF EndOwn, world, driver, hist, disk
<1>2. DiskFits' /\ JobFits' /\ WorldFits' /\ CarryFits'
  BY <1>1, DiskStays, JobStays, WorldStays, CarryStays DEF world
<1>3. ClosedFits'
  BY <1>1 DEF Types, ClosedFits
<1>4. RunFits'
  <2>1. run' = [run EXCEPT ![s] = "free"] /\ run[s] \in {"steerable", "deaf"} /\ Below' = Below /\ Here' = Here
    BY <1>1, TreeStays DEF EndOwn, Here, Note0
  <2> QED BY <1>1, <2>1 DEF Types, RunFits
<1> QED BY <1>2, <1>3, <1>4 DEF Types

\* What an entry owes is what of it nothing that was read settles.
LEMMA KeptLines ==
    ASSUME Types, NEW s \in Session, NEW heard, NEW retired
    PROVE  /\ Undelivered(s, heard, retired) \in Seq(Rec)
           /\ ToSet(Undelivered(s, heard, retired)) = ToSet(outbox[s]) \ (heard \cup retired)
<1>1. outbox[s] \in Seq(Rec)
  BY DEF Types, DiskFits
<1> DEFINE S == ToSet(outbox[s]) \ (heard \cup retired)
           kept == Undelivered(s, heard, retired)
<1>2. kept = Within(outbox[s], S)
  BY DEF Undelivered
<1>3. ToSet(outbox[s]) \cap S = S
  OBVIOUS
<1> HIDE DEF S, kept
<1>4. kept \in Seq(Rec) /\ Range(kept) = Range(outbox[s]) \cap S
  BY <1>1, <1>2, Selected
<1> QED BY <1>3, <1>4 DEF ToSet, Range, S, kept

\* What a look at a file leaves of it, and of its tombstones, and what it adopts.
LEMMA ScannedFile ==
    ASSUME NEW s \in Session, ScanFile(s)
    PROVE  \E heard \in {HeardIn(s), {}}, retired \in {tombs[s], {}} :
              LET kept == Undelivered(s, heard, retired) IN
              /\ \E left \in {kept, outbox[s]} : outbox' = [outbox EXCEPT ![s] = left]
              /\ \E stones \in {{}, tombs[s]} : tombs' = [tombs EXCEPT ![s] = stones]
              /\ Adopt(s, kept)
<1>1. PICK heard \in {HeardIn(s), {}}, retired \in {tombs[s], {}} :
        LET kept == Undelivered(s, heard, retired) IN
        \E left \in {kept, outbox[s]} : \E stones \in {Swept(s, kept, left), tombs[s]} :
            /\ outbox' = [outbox EXCEPT ![s] = left]
            /\ tombs' = [tombs EXCEPT ![s] = stones]
            /\ Adopt(s, kept)
  BY DEF ScanFile
<1> DEFINE kept == Undelivered(s, heard, retired)
<1>2. PICK left \in {kept, outbox[s]} : \E stones \in {Swept(s, kept, left), tombs[s]} :
         outbox' = [outbox EXCEPT ![s] = left] /\ tombs' = [tombs EXCEPT ![s] = stones] /\ Adopt(s, kept)
  BY <1>1
<1> HIDE DEF kept
<1>3. PICK stones \in {Swept(s, kept, left), tombs[s]} :
         outbox' = [outbox EXCEPT ![s] = left] /\ tombs' = [tombs EXCEPT ![s] = stones] /\ Adopt(s, kept)
  BY <1>2
<1>4. stones \in {{}, tombs[s]}
  BY DEF Swept
<1>5. /\ \E l \in {kept, outbox[s]} : outbox' = [outbox EXCEPT ![s] = l]
      /\ \E z \in {{}, tombs[s]} : tombs' = [tombs EXCEPT ![s] = z]
      /\ Adopt(s, kept)
  BY <1>3, <1>4
<1> QED BY <1>5 DEF kept

\* The driver adopts what an entry still owes.
LEMMA ScanTypes ==
    ASSUME Types, NEW s \in Session, Scan(s)
    PROVE  Types'
<1>1. UNCHANGED <<tree, cond, log, mailbox, issued, lapsed, run, born, chan, phase, held, job>>
  BY DEF Scan, world, hist
<1>2. outbox[s] \in Seq(Rec) /\ outbox \in [Session -> Seq(Rec)] /\ tombs \in [Session -> SUBSET Rec]
  BY DEF Types, DiskFits
<1>3. PICK kept \in Seq(Rec) :
         /\ ToSet(kept) \subseteq ToSet(outbox[s])
         /\ outbox' = outbox \/ outbox' = [outbox EXCEPT ![s] = kept]
         /\ tombs' = tombs \/ tombs' = [tombs EXCEPT ![s] = {}]
         /\ queue' = queue \/ Adopt(s, kept)
  <2>1. CASE UNCHANGED <<outbox, tombs, queue>>
    BY <1>2, <2>1
  <2>2. CASE ScanFile(s)
    <3>1. PICK heard \in {HeardIn(s), {}}, retired \in {tombs[s], {}} :
              LET kept == Undelivered(s, heard, retired) IN
              /\ \E left \in {kept, outbox[s]} : outbox' = [outbox EXCEPT ![s] = left]
              /\ \E stones \in {{}, tombs[s]} : tombs' = [tombs EXCEPT ![s] = stones]
              /\ Adopt(s, kept)
      BY <2>2, ScannedFile
    <3> DEFINE kept == Undelivered(s, heard, retired)
    <3>2. kept \in Seq(Rec) /\ ToSet(kept) \subseteq ToSet(outbox[s])
      BY KeptLines
    <3>3. /\ \E left \in {kept, outbox[s]} : outbox' = [outbox EXCEPT ![s] = left]
          /\ \E stones \in {{}, tombs[s]} : tombs' = [tombs EXCEPT ![s] = stones]
          /\ Adopt(s, kept)
      BY <3>1
    <3> HIDE DEF kept
    <3>4. outbox' = outbox \/ outbox' = [outbox EXCEPT ![s] = kept]
      BY <1>2, <3>3
    <3>5. tombs' = tombs \/ tombs' = [tombs EXCEPT ![s] = {}]
      BY <1>2, <3>3
    <3> QED BY <3>2, <3>3, <3>4, <3>5
  <2> QED BY <2>1, <2>2 DEF Scan
<1> DEFINE adopted == [i \in DOMAIN kept |-> Parcel(Note(s, kept[i]), Hops)]
<1>4. toscan' \subseteq Session /\ phase # "closed" /\ Parcels' = Parcels /\ Notes' = Notes
  BY <1>1, TreeStays DEF Scan, Types, CarryFits
<1>5. Len(kept) \in Nat /\ DOMAIN kept = 1 .. Len(kept) /\ \A i \in 1 .. Len(kept) : kept[i] \in Rec
  BY <1>3, LenProperties, ElementOfSeq
<1>6. s \notin DOMAIN Parent => kept = <<>>
  <2>1. s \notin DOMAIN Parent => outbox[s] = <<>>
    BY DEF Types, DiskFits
  <2>2. ToSet(<<>>) = {}
    BY DEF ToSet
  <2>3. s \notin DOMAIN Parent => ToSet(kept) = {}
    BY <1>3, <2>1, <2>2
  <2>4. ToSet(kept) = {} => kept = <<>>
    BY <1>3, Positions DEF ToSet, Range
  <2> QED BY <2>3, <2>4
<1>7. adopted \in Seq(Parcels)
  <2>1. ASSUME NEW i \in 1 .. Len(kept) PROVE Parcel(Note(s, kept[i]), Hops) \in Parcels
    <3>1. s \in DOMAIN Parent
      BY <1>5, <1>6, EmptySeq
    <3>2. Hops \in 0 .. Hops
      BY InTree DEF Types
    <3> QED BY <1>5, <3>1, <3>2, NoteIs
  <2>2. adopted \in [1 .. Len(kept) -> Parcels]
    BY <1>5, <2>1
  <2> QED BY <1>5, <2>2, SeqDef
<1> HIDE DEF adopted
<1>8. queue' \in Seq(Parcels)
  <2>1. queue \in Seq(Parcels)
    BY DEF Types, CarryFits
  <2>2. queue \o adopted \in Seq(Parcels)
    BY <1>7, <2>1, ConcatProperties
  <2>3. Adopt(s, kept) => queue' = queue \o adopted
    BY DEF Adopt, adopted
  <2> QED BY <1>3, <2>1, <2>2, <2>3
<1>9. CarryFits'
  BY <1>1, <1>4, <1>8 DEF Types, CarryFits
<1>10. DiskFits'
  <2>1. outbox' \in [Session -> Seq(Rec)] /\ tombs' \in [Session -> SUBSET Rec]
    BY <1>2, <1>3 DEF Types, DiskFits
  <2>2. \A q \in Session \ DOMAIN Parent : outbox'[q] = <<>>
    BY <1>3, <1>6 DEF Types, DiskFits
  <2>3. Below' = Below /\ Parent' = Parent
    BY <1>1, TreeStays
  <2> QED BY <1>1, <1>4, <2>1, <2>2, <2>3 DEF Types, DiskFits
<1>11. JobFits' /\ RunFits' /\ WorldFits' /\ ClosedFits'
  BY <1>1, <1>4, JobStays, RunStays, WorldStays DEF world, ClosedFits
<1> QED BY <1>9, <1>10, <1>11 DEF Types

\* It opens.
LEMMA OpenTypes == ASSUME Types, Open \/ Opened PROVE Types'
<1>1. UNCHANGED <<tree, cond, log, mailbox, outbox, tombs, issued, lapsed, run, born, chan, queue, held, job>>
  BY DEF Open, Opened, disk, world, hist
<1>2. phase' \in {"scanning", "open"} /\ toscan' \subseteq Session
  BY DEF Open, Opened, Types, CarryFits
<1>3. DiskFits' /\ JobFits' /\ RunFits' /\ WorldFits'
  BY <1>1, DiskStays, JobStays, RunStays, WorldStays DEF world
<1>4. CarryFits' /\ ClosedFits'
  BY <1>1, <1>2, TreeStays DEF Types, CarryFits, ClosedFits
<1> QED BY <1>3, <1>4 DEF Types

\* The driver takes a parcel.
LEMMA ReceiveTypes == ASSUME Types, Receive PROVE Types'
<1>1. UNCHANGED <<tree, cond, log, mailbox, outbox, tombs, issued, lapsed, run, born, phase, toscan, held, job>>
      /\ phase = "open"
  BY DEF Receive, disk, world, hist, At
<1>2. chan \in Seq(Notes) /\ queue \in Seq(Parcels) /\ chan # <<>> /\ Hops \in 0 .. Hops
  BY InTree DEF Types, CarryFits, Receive
<1>3. Head(chan) \in Notes /\ Tail(chan) \in Seq(Notes)
  BY <1>2, Served
<1>4. Parcel(Head(chan), Hops) \in Parcels
  BY <1>2, <1>3 DEF Parcel, Parcels
<1>5. queue' \in Seq(Parcels) /\ chan' \in Seq(Notes)
  BY <1>2, <1>3, <1>4, Appended DEF Receive
<1>6. DiskFits' /\ JobFits' /\ RunFits' /\ WorldFits' /\ ClosedFits'
  BY <1>1, DiskStays, JobStays, RunStays, WorldStays, OpenStays DEF world
<1>7. CarryFits'
  BY <1>1, <1>5, TreeStays DEF Types, CarryFits
<1> QED BY <1>6, <1>7 DEF Types

\* A parcel is taken in hand.
LEMMA TakeTypes == ASSUME Types, Take PROVE Types'
<1>1. UNCHANGED <<tree, cond, log, mailbox, outbox, tombs, issued, lapsed, run, born, chan, phase, toscan, held>>
      /\ phase = "open" /\ job.at = "idle"
  BY DEF Take, disk, world, hist, At
<1> DEFINE p == Head(queue)
<1>2. queue \in Seq(Parcels) /\ queue # <<>>
  BY DEF Types, CarryFits, Take
<1>3. p \in Parcels /\ queue' \in Seq(Parcels)
  BY <1>2, Served DEF Take
<1>4. p.note \in Notes
  BY <1>3, ParcelIs
<1>5. JobFits' /\ job'.at \in {"followup", "routing"}
  <2>1. CASE p.note.to = Root
    <3>1. job' = FollowUp(p.note.text, p.note)
      BY <2>1 DEF Take
    <3> QED BY <1>1, <1>4, <3>1, FollowUpFits
  <2>2. CASE p.note.to # Root
    <3>1. job' = [Idle EXCEPT !.at = "routing", !.parcel = p]
      BY <2>2 DEF Take
    <3> HIDE DEF p
    <3>2. /\ job'.at = "routing" /\ job'.parcel = p /\ Here' = p.note.to
          /\ job' \in [at : {"idle"} \cup Routing \cup Telling, parcel : Parcels \cup {NoNote},
                       next : [to : DOMAIN Parent, text : Line] \cup {NoNote}, retire : Notes \cup {NoNote}]
      BY <1>3, <3>1 DEF Idle, Routing, Here, Note0
    <3> QED BY <1>1, <1>3, <2>2, <3>2, TreeStays DEF JobFits, Routing, Telling
  <2> QED BY <2>1, <2>2
<1>6. DiskFits' /\ RunFits' /\ WorldFits' /\ ClosedFits'
  BY <1>1, <1>5, DiskStays, RunStays, WorldStays, OpenStays DEF world
<1>7. CarryFits'
  BY <1>1, <1>3, TreeStays DEF Types, CarryFits
<1> QED BY <1>5, <1>6, <1>7 DEF Types

\* Held parcels are queued again.
LEMMA RetryTypes == ASSUME Types, Retry PROVE Types'
<1>1. UNCHANGED <<tree, cond, log, mailbox, outbox, tombs, issued, lapsed, run, born, chan, phase, toscan, job>>
      /\ phase = "open"
  BY DEF Retry, disk, world, hist, At
<1>2. DiskFits' /\ JobFits' /\ RunFits' /\ WorldFits' /\ ClosedFits'
  BY <1>1, DiskStays, JobStays, RunStays, WorldStays, OpenStays DEF world
<1>3. queue' \in Seq(Parcels) /\ held' \in Seq(Parcels) /\ ToSet(held') = {}
  BY Short DEF Retry, Types, CarryFits, ToSet
<1>4. CarryFits'
  BY <1>1, <1>3, TreeStays DEF Types, CarryFits
<1> QED BY <1>2, <1>4 DEF Types

\* The root is told, and its entry retired.
LEMMA RetiredTypes == ASSUME Types, AlreadyTold \/ RetireTold PROVE Types'
<1>1. UNCHANGED <<tree, cond, log, mailbox, outbox, issued, lapsed, run, born, chan, phase, toscan, queue, held>>
      /\ phase = "open" /\ job.at \in Telling /\ job' = Idle
  BY DEF AlreadyTold, RetireTold, world, hist, At, Telling
<1>2. PICK ok \in BOOLEAN : Retire(job.retire, ok)
  BY DEF AlreadyTold, RetireTold
<1>3. job.retire \in Notes \cup {NoNote}
  BY <1>1 DEF Types, JobFits
<1>4. DiskFits'
  BY <1>1, <1>2, <1>3, RetireFits
<1>5. job'.at \notin {"claimed", "taken"} /\ job.at \notin {"claimed", "taken"}
  BY <1>1 DEF Idle, Telling
<1>6. JobFits' /\ RunFits' /\ WorldFits' /\ ClosedFits' /\ CarryFits'
  BY <1>1, <1>5, IdleFits, RunStays, WorldStays, OpenStays, CarryStays DEF world
<1> QED BY <1>4, <1>6 DEF Types

\* The root is told.
LEMMA TellRootTypes == ASSUME Types, TellRoot PROVE Types'
<1>1. UNCHANGED <<tree, cond, mailbox, outbox, tombs, issued, lapsed, run, born, chan, phase, toscan, queue, held>>
      /\ phase = "open" /\ job.at = "followup" /\ job' = [job EXCEPT !.at = "told"]
  BY DEF TellRoot, world, hist, At
<1>2. job.next.text \in Line /\ <<job.next.text>> \in Seq(Line)
  <2>1. job.next.text \in Line
    BY <1>1 DEF Types, JobFits, Telling
  <2> QED BY <2>1, Short
<1>3. DiskFits'
  <2>1. Tell(Root, <<job.next.text>>) /\ Root \in DOMAIN Parent
    BY InTree DEF TellRoot, Types
  <2>2. mailbox' \in [Below -> Seq(Rec)]
    BY <1>1 DEF Types, DiskFits
  <2> DEFINE texts == <<job.next.text>>
  <2>3. texts \in Seq(Line) /\ Tell(Root, texts)
    BY <1>2, <2>1
  <2> HIDE DEF texts
  <2> QED BY <1>1, <2>1, <2>2, <2>3, TellFits
<1>4. JobFits' /\ job'.at = "told"
  BY <1>1, FollowUpMoves DEF Types, JobFits
<1>5. RunFits' /\ WorldFits' /\ ClosedFits' /\ CarryFits'
  BY <1>1, <1>4, RunStays, WorldStays, OpenStays, CarryStays DEF world
<1> QED BY <1>3, <1>4, <1>5 DEF Types

\* The disposition of a hop.
LEMMA DisposeTypes == ASSUME Types, Dispose PROVE Types'
<1>1. UNCHANGED <<tree, cond, log, mailbox, outbox, issued, lapsed, run, born, chan, phase, toscan, held>>
      /\ phase = "open" /\ job.at = "recorded"
  BY DEF Dispose, world, hist, At
<1>2. /\ job.parcel \in Parcels /\ job.next \in Notes /\ job.retire \in Notes \cup {NoNote}
  BY <1>1 DEF Types, JobFits, Routing
<1>3. DiskFits'
  <2>1. PICK ok \in BOOLEAN : Retire(job.retire, ok)
    BY DEF Dispose
  <2> QED BY <1>1, <1>2, <2>1, RetireFits
<1>4. JobFits' /\ job'.at \in {"followup", "idle"} /\ queue' \in Seq(Parcels)
  <2>0. queue \in Seq(Parcels)
    BY DEF Types, CarryFits
  <2>1. CASE job.parcel.hops = 0
    <3>1. job' = Salvaged(job.next) /\ queue' = queue
      BY <2>1 DEF Dispose
    <3> QED BY <1>1, <1>2, <2>0, <3>1, FollowUpFits
  <2>2. CASE job.parcel.hops # 0
    <3>1. job' = Idle /\ queue' = Append(queue, Parcel(job.next, job.parcel.hops - 1))
      BY <2>2 DEF Dispose
    <3>2. job.parcel.hops - 1 \in 0 .. Hops
      BY <1>2, <2>2, ParcelIs, InTree DEF Types
    <3>3. Parcel(job.next, job.parcel.hops - 1) \in Parcels
      BY <1>2, <3>2 DEF Parcel, Parcels
    <3>4. queue' \in Seq(Parcels)
      BY <2>0, <3>1, <3>3, Appended
    <3>5. JobFits' /\ job'.at = "idle"
      BY <1>1, <3>1, IdleFits DEF Idle
    <3> QED BY <3>4, <3>5
  <2> QED BY <2>1, <2>2
<1>5. RunFits' /\ WorldFits' /\ ClosedFits'
  BY <1>1, <1>4, RunStays, WorldStays, OpenStays DEF world
<1>6. CarryFits'
  BY <1>1, <1>4, TreeStays DEF Types, CarryFits
<1> QED BY <1>3, <1>4, <1>5, <1>6 DEF Types

\* A claim that is given back.
LEMMA UnclaimFits ==
    ASSUME Types, UNCHANGED tree, job.at \in {"claimed", "taken"}, Unclaim, job'.at \notin {"claimed", "taken"}
    PROVE  RunFits'
<1>1. Here \in Below /\ Below' = Below
  BY Routed, TreeStays DEF Routing
<1>2. run' = [run EXCEPT ![Here] = "free"]
  BY DEF Unclaim
<1>3. run \in [Below -> {"free", "steerable", "deaf", "routed"}]
      /\ \A s \in Below : run[s] = "routed" <=> Here = s
  BY DEF Types, RunFits
<1>4. run' \in [Below -> {"free", "steerable", "deaf", "routed"}] /\ \A s \in Below : run'[s] # "routed"
  BY <1>1, <1>2, <1>3
<1> QED BY <1>1, <1>4 DEF RunFits

\* A route that lets the parcel go: held for later, delivered, or into the salvage.
LEMMA RouteLeavesTypes ==
    ASSUME Types, RouteUnreadable \/ RouteDelivered \/ RouteUnknown \/ RouteBusy
    PROVE  Types'
<1>1. UNCHANGED <<tree, cond, log, mailbox, outbox, tombs, issued, lapsed, run, born, chan, phase, toscan, queue>>
      /\ phase = "open" /\ job.at \in {"routing", "looked"}
  BY DEF RouteUnreadable, RouteDelivered, RouteUnknown, RouteBusy, Unsteered, disk, world, hist, At
<1>2. job.at \in Routing /\ Note0 \in Notes
  BY <1>1, Routed DEF Routing
<1>3. JobFits' /\ CarryFits' /\ job'.at \notin {"claimed", "taken"}
  <2>1. CASE Hold
    BY <1>1, <1>2, <2>1, HoldFits DEF Hold, Idle
  <2>2. CASE job' = Idle /\ UNCHANGED held
    BY <1>1, <2>2, IdleFits, CarryStays DEF Idle
  <2>3. CASE job' = Salvaged(Note0) /\ UNCHANGED held
    BY <1>1, <1>2, <2>3, FollowUpFits, CarryStays
  <2> QED BY <2>1, <2>2, <2>3 DEF RouteUnreadable, RouteDelivered, RouteUnknown, RouteBusy
<1>4. DiskFits' /\ RunFits' /\ WorldFits' /\ ClosedFits'
  BY <1>1, <1>3, DiskStays, RunStays, WorldStays, OpenStays DEF world
<1> QED BY <1>3, <1>4 DEF Types

\* A route looks for its target.
LEMMA RouteLookTypes == ASSUME Types, RouteLook PROVE Types'
<1>1. UNCHANGED <<tree, cond, log, mailbox, outbox, tombs, issued, lapsed, run, born, chan, phase, toscan, queue, held>>
      /\ phase = "open" /\ job.at = "routing" /\ job' = [job EXCEPT !.at = "looked"]
  BY DEF RouteLook, disk, world, At
<1>2. JobFits' /\ job'.at = "looked"
  BY <1>1, JobMoves
<1>3. DiskFits' /\ RunFits' /\ WorldFits' /\ ClosedFits' /\ CarryFits'
  BY <1>1, <1>2, DiskStays, RunStays, WorldStays, OpenStays, CarryStays DEF world
<1> QED BY <1>2, <1>3 DEF Types

\* A live turn takes it.
LEMMA RouteSteerTypes == ASSUME Types, RouteSteer PROVE Types'
<1>1. UNCHANGED <<tree, cond, log, outbox, tombs, issued, lapsed, run, born, chan, phase, toscan, queue, held>>
      /\ phase = "open" /\ job.at = "looked" /\ job' = Idle
      /\ mailbox' = [mailbox EXCEPT ![Here] = Append(@, Words)]
  BY DEF RouteSteer, world, hist, At
<1>2. Here \in Below /\ Words \in Rec
  BY <1>1, Routed DEF Routing
<1>3. mailbox \in [Below -> Seq(Rec)]
  BY DEF Types, DiskFits
<1>4. mailbox' \in [Below -> Seq(Rec)]
  <2>1. Append(mailbox[Here], Words) \in Seq(Rec)
    <3>1. mailbox[Here] \in Seq(Rec)
      BY <1>2, <1>3
    <3> QED BY <1>2, <3>1, Appended
  <2> QED BY <1>1, <1>3, <2>1
<1>5. DiskFits'
  BY <1>1, <1>4, TreeStays DEF Types, DiskFits
<1>6. JobFits' /\ job'.at = "idle"
  BY <1>1, IdleFits DEF Idle
<1>7. RunFits' /\ WorldFits' /\ ClosedFits' /\ CarryFits'
  BY <1>1, <1>6, RunStays, WorldStays, OpenStays, CarryStays DEF world
<1> QED BY <1>5, <1>6, <1>7 DEF Types

\* A replacement goes to the parent.
LEMMA RouteReplacedTypes == ASSUME Types, RouteReplaced PROVE Types'
<1>1. UNCHANGED <<tree, cond, log, mailbox, tombs, run, born, chan, phase, toscan, queue, held>>
      /\ phase = "open" /\ job.at = "looked"
  BY DEF RouteReplaced, Unsteered, world, At
<1> DEFINE next == Note(Parent[Here], Wrapped("replaced", Words))
<1>2. Note0 \in Notes /\ Words \in Rec /\ Parent[Here] \in DOMAIN Parent /\ job.at \in Routing
  BY <1>1, Routed DEF Routing
<1>3. next \in Notes /\ next.text = Wrapped("replaced", Note0.text)
  BY <1>2, WrappedIsLine, NoteIs DEF Words
<1>4. PICK ok \in BOOLEAN : Record(next, ok)
  BY DEF RouteReplaced
<1>5. job' = Recorded(next, Note0)
  BY DEF RouteReplaced
<1> HIDE DEF next
<1>6. DiskFits' /\ (next \in issued' \/ next.text \in lapsed')
  BY <1>1, <1>3, <1>4, RecordFits
<1>7. JobFits' /\ job'.at = "recorded"
  BY <1>1, <1>2, <1>3, <1>5, <1>6, RecordedFits
<1>8. RunFits' /\ WorldFits' /\ ClosedFits' /\ CarryFits'
  BY <1>1, <1>7, RunStays, WorldStays, OpenStays, CarryStays DEF world
<1> QED BY <1>6, <1>7, <1>8 DEF Types

\* The target is claimed for a turn of its own ...
LEMMA RouteClaimTypes == ASSUME Types, RouteClaim PROVE Types'
<1>1. UNCHANGED <<tree, cond, log, mailbox, outbox, tombs, issued, lapsed, born, chan, phase, toscan, queue, held>>
      /\ phase = "open" /\ job.at = "looked" /\ job' = [job EXCEPT !.at = "claimed"]
      /\ run' = [run EXCEPT ![Here] = "routed"]
  BY DEF RouteClaim, Unsteered, disk, world, hist, At
<1>2. JobFits' /\ job'.at = "claimed" /\ Here' = Here
  BY <1>1, JobMoves
<1>3. RunFits'
  <2>1. Here \in Below /\ Below' = Below
    BY <1>1, Routed, TreeStays DEF Routing
  <2>2. run \in [Below -> {"free", "steerable", "deaf", "routed"}] /\ \A s \in Below : run[s] # "routed"
    BY <1>1 DEF Types, RunFits
  <2>3. /\ run' \in [Below -> {"free", "steerable", "deaf", "routed"}]
        /\ \A s \in Below : run'[s] = "routed" <=> Here = s
    BY <1>1, <2>1, <2>2
  <2> QED BY <1>2, <2>1, <2>3 DEF RunFits
<1>4. DiskFits' /\ WorldFits' /\ ClosedFits' /\ CarryFits'
  BY <1>1, DiskStays, WorldStays, OpenStays, CarryStays DEF world
<1> QED BY <1>2, <1>3, <1>4 DEF Types

\* ... which it may not get, ...
LEMMA RouteBlockedTypes == ASSUME Types, RouteBlocked PROVE Types'
<1>1. UNCHANGED <<tree, cond, log, mailbox, outbox, tombs, issued, lapsed, born, chan, phase, toscan, queue>>
      /\ phase = "open" /\ job.at = "claimed" /\ Hold /\ Unclaim
  BY DEF RouteBlocked, disk, world, hist, At
<1>2. JobFits' /\ CarryFits' /\ job'.at = "idle"
  BY <1>1, HoldFits DEF Routing, Hold, Idle
<1>3. DiskFits' /\ RunFits' /\ WorldFits' /\ ClosedFits'
  BY <1>1, <1>2, DiskStays, UnclaimFits, WorldStays, OpenStays DEF world
<1> QED BY <1>2, <1>3 DEF Types

\* ... and in which it is told, ...
LEMMA RouteTurnTypes == ASSUME Types, RouteTurn PROVE Types'
<1>1. UNCHANGED <<tree, cond, outbox, tombs, issued, lapsed, run, born, chan, phase, toscan, queue, held>>
      /\ phase = "open" /\ job.at = "claimed" /\ job' = [job EXCEPT !.at = "taken"]
      /\ Tell(Here, Append(mailbox[Here], Words)) /\ mailbox' = [mailbox EXCEPT ![Here] = <<>>]
  BY DEF RouteTurn, world, hist, At
<1>2. Here \in Below /\ Words \in Rec
  BY <1>1, Routed DEF Routing
<1>3. mailbox[Here] \in Seq(Rec) /\ mailbox' \in [Below -> Seq(Rec)] /\ Here \in DOMAIN Parent
  BY <1>1, <1>2, MailIs
<1> DEFINE texts == Append(mailbox[Here], Words)
<1>4. texts \in Seq(Rec) /\ texts \in Seq(Line)
  <2>1. texts \in Seq(Rec)
    BY <1>2, <1>3, Appended
  <2> HIDE DEF texts
  <2>2. Rec \subseteq Line
    BY WrappedIsLine
  <2> QED BY <2>1, <2>2, SeqMonotonic
<1>5. Tell(Here, texts)
  BY <1>1
<1> HIDE DEF texts
<1>6. DiskFits'
  BY <1>1, <1>3, <1>4, <1>5, TellFits
<1>7. JobFits' /\ job'.at = "taken" /\ Here' = Here
  BY <1>1, JobMoves
<1>8. RunFits'
  BY <1>1, <1>7, TreeStays DEF Types, RunFits
<1>9. WorldFits' /\ ClosedFits' /\ CarryFits'
  BY <1>1, WorldStays, OpenStays, CarryStays DEF world
<1> QED BY <1>6, <1>7, <1>8, <1>9 DEF Types

\* ... and whose ending climbs.
LEMMA RouteEndsTypes == ASSUME Types, RouteTurnEnds \/ RouteTurnDeclined PROVE Types'
<1>1. UNCHANGED <<tree, cond, log, mailbox, tombs, born, chan, phase, toscan, queue, held>>
      /\ phase = "open" /\ job.at \in {"claimed", "taken"} /\ Unclaim
  BY DEF RouteTurnEnds, RouteTurnDeclined, Climb, world, At
<1>2. PICK how \in {"completed", "failed"}, ok \in BOOLEAN :
         LET next == Note(Parent[Here], Nested(About(Words), how))
         IN  Record(next, ok) /\ job' = Recorded(next, NoNote)
  BY DEF RouteTurnEnds, RouteTurnDeclined, Climb
<1> DEFINE next == Note(Parent[Here], Nested(About(Words), how))
<1>3. Words \in Rec /\ Parent[Here] \in DOMAIN Parent /\ job.at \in Routing
  BY <1>1, Routed DEF Routing
<1>4. next \in Notes
  <2>1. Nested(About(Words), how) \in Rec
    BY <1>3, WrappedIsLine, LineIsAbout
  <2> QED BY <1>3, <2>1, NoteIs
<1>5. Record(next, ok) /\ job' = Recorded(next, NoNote)
  BY <1>2
<1> HIDE DEF next
<1>6. DiskFits' /\ (next \in issued' \/ next.text \in lapsed')
  BY <1>1, <1>4, <1>5, RecordFits
<1>7. JobFits' /\ job'.at = "recorded"
  BY <1>1, <1>3, <1>4, <1>5, <1>6, RecordedFits
<1>8. RunFits' /\ WorldFits' /\ ClosedFits' /\ CarryFits'
  BY <1>1, <1>7, UnclaimFits, WorldStays, OpenStays, CarryStays DEF world
<1> QED BY <1>6, <1>7, <1>8 DEF Types

\* The process ends.
LEMMA StopTypes == ASSUME Types, Stop PROVE Types'
<1>1. UNCHANGED <<tree, cond, log, mailbox, outbox, tombs, issued, lapsed>> /\ job' = Idle
  BY DEF Stop, disk, world, hist
<1>2. DiskFits' /\ JobFits' /\ WorldFits'
  BY <1>1, DiskStays, IdleFits, WorldStays DEF world
<1>3. CarryFits'
  <2>1. <<>> \in Seq(Notes) /\ <<>> \in Seq(Parcels) /\ ToSet(<<>>) = {}
    BY Short DEF ToSet
  <2>2. born' \in [Origin -> {"running", "recorded", "sent"}]
    BY DEF Stop, Types, CarryFits
  <2> QED BY <1>1, <2>1, <2>2, TreeStays DEF Stop, CarryFits
<1>4. RunFits'
  BY <1>1, TreeStays DEF Stop, RunFits, Idle
<1>5. ClosedFits'
  BY DEF Stop, ClosedFits, Types, CarryFits
<1> QED BY <1>2, <1>3, <1>4, <1>5 DEF Types

\* At the start there is nothing.
LEMMA InitTypes == Init => Types
<1> SUFFICES ASSUME Init PROVE Types
  OBVIOUS
<1>1. <<>> \in Seq(Rec) /\ <<>> \in Seq(Line) /\ <<>> \in Seq(Notes) /\ <<>> \in Seq(Parcels) /\ ToSet(<<>>) = {}
  BY Short DEF ToSet
<1>2. WorldFits
  BY DEF Init, WorldFits
<1>3. DiskFits
  BY <1>1, <1>2, InTree DEF Init, DiskFits
<1>4. JobFits
  BY DEF Init, JobFits, Idle, Routing, Telling
<1>5. CarryFits /\ RunFits /\ ClosedFits
  BY <1>1 DEF Init, CarryFits, RunFits, ClosedFits, Idle
<1> QED BY <1>2, <1>3, <1>4, <1>5 DEF Types

\* Every step keeps the types.
LEMMA NextTypes == Types /\ [Next]_vars => Types'
<1> SUFFICES ASSUME Types, [Next]_vars PROVE Types'
  OBVIOUS
<1>1. ASSUME NEW o \in DOMAIN Target, Publisher(o) PROVE Types'
  BY <1>1, RecordOriginTypes, SendOriginTypes DEF Publisher
<1>2. ASSUME NEW s \in Below, OwnTurn(s) PROVE Types'
  BY <1>2, BeginOwnTypes, ReadSteersTypes, EndOwnTypes DEF OwnTurn
<1>3. CASE Driver
  <2>1. CASE Route
    BY <2>1, RouteLeavesTypes, RouteLookTypes, RouteSteerTypes, RouteReplacedTypes, RouteClaimTypes,
       RouteBlockedTypes, RouteTurnTypes, RouteEndsTypes DEF Route
  <2>2. CASE \E s \in Session : Scan(s)
    BY <2>2, ScanTypes
  <2> QED BY <1>3, <2>1, <2>2, OpenTypes, ReceiveTypes, TakeTypes, RetryTypes, RetiredTypes, TellRootTypes,
             DisposeTypes DEF Driver
<1>4. CASE UNCHANGED vars
  <2>1. UNCHANGED <<tree, cond, log, mailbox, outbox, tombs, issued, lapsed, run, born, chan, phase, toscan, queue,
                    held, job>>
    BY <1>4 DEF vars, disk, world, driver, hist
  <2>2. DiskFits' /\ JobFits' /\ RunFits' /\ WorldFits' /\ CarryFits'
    BY <2>1, DiskStays, JobStays, RunStays, WorldStays, CarryStays DEF world
  <2>3. ClosedFits'
    BY <2>1 DEF Types, ClosedFits
  <2> QED BY <2>2, <2>3 DEF Types
<1> QED BY <1>1, <1>2, <1>3, <1>4, OpenTypes, StopTypes DEF Next

-----------------------------------------------------------------------------
(* What every step keeps of what was recorded. *)

\* What is still to be said, or the disk would not take.
Debt(t) == Owed(t) \/ Lapsed(t)

\* What was heard was heard, and what was owed is owed or heard.
Remains ==
    \A t \in Seq(Word) : (Heard(t) => Heard(t)') /\ (Debt(t) => Debt(t)' \/ Heard(t)')

\* What is recorded or settled by the step is kept.
NewIsKept ==
    /\ \A n \in issued' : n \in issued \/ Kept(n.text)'
    /\ \A s \in Session : \A t \in tombs'[s] : t \in tombs[s] \/ Kept(t)'

\* A step owes no more, but for what was heard and is owed again; or it records one
\* note, and tells nobody.
NoDebt == \A t \in Seq(Word) : Debt(t)' => Debt(t) \/ Heard(t)
OneDebt ==
    /\ \A t \in Seq(Word) : Heard(t)' => Heard(t)
    /\ \E n \in Notes : \A t \in Seq(Word) : Debt(t)' => Debt(t) \/ Carries(n.text, t)

Keeps == Remains /\ NewIsKept /\ (NoDebt \/ OneDebt)

\* A step that writes nothing.
LEMMA NothingWritten ==
    ASSUME UNCHANGED <<log, outbox, tombs, issued, lapsed>>
    PROVE  Keeps
<1>1. ASSUME NEW t PROVE Heard(t)' <=> Heard(t)
  BY DEF Heard
<1>2. ASSUME NEW t PROVE Debt(t)' <=> Debt(t)
  BY DEF Debt, Owed, Lapsed, Live
<1> QED BY <1>1, <1>2 DEF Keeps, Remains, NewIsKept, NoDebt

\* A session that is told.
LEMMA ToldKeeps ==
    ASSUME Types, UNCHANGED <<outbox, tombs, issued, lapsed>>,
           NEW s \in Session, NEW texts \in Seq(Line), Tell(s, texts)
    PROVE  Keeps
<1>1. ASSUME NEW t PROVE Debt(t)' <=> Debt(t)
  BY DEF Debt, Owed, Lapsed, Live
<1>2. ASSUME NEW t \in Seq(Word), Heard(t) PROVE Heard(t)'
  <2>1a. PICK q \in Session : \E i \in DOMAIN log[q] : Carries(log[q][i], t)
    BY <1>2 DEF Heard
  <2>1. PICK i \in DOMAIN log[q] : Carries(log[q][i], t)
    BY <2>1a
  <2>2. log \in [Session -> Seq(Line)] /\ log' = [log EXCEPT ![s] = @ \o texts]
    BY DEF Types, DiskFits, Tell
  <2>3. CASE q = s
    <3>1. log[s] \in Seq(Line) /\ log'[s] = log[s] \o texts
      BY <2>2
    <3>2. /\ Len(log[s] \o texts) = Len(log[s]) + Len(texts) /\ log[s] \o texts \in Seq(Line)
          /\ \A j \in 1 .. Len(log[s]) + Len(texts) :
                (log[s] \o texts)[j] = IF j <= Len(log[s]) THEN log[s][j] ELSE texts[j - Len(log[s])]
      BY <3>1, ConcatProperties
    <3> DEFINE new == log[s] \o texts
    <3>3. /\ Len(log[s]) \in Nat /\ Len(texts) \in Nat /\ DOMAIN log[s] = 1 .. Len(log[s])
          /\ DOMAIN new = 1 .. Len(log[s]) + Len(texts)
      BY <3>1, <3>2, LenProperties
    <3>4. i \in DOMAIN new /\ new[i] = log[s][i]
      BY <2>1, <2>3, <3>2, <3>3
    <3> QED BY <2>1, <2>3, <3>1, <3>4 DEF Heard
  <2>4. CASE q # s
    BY <2>1, <2>2, <2>4 DEF Heard
  <2> QED BY <2>3, <2>4
<1> QED BY <1>1, <1>2 DEF Keeps, Remains, NewIsKept, NoDebt

\* A note that is recorded, or refused by the disk.
LEMMA RecordKeeps ==
    ASSUME Types, AllKept, UNCHANGED <<log, tombs>>, NEW n \in Notes, NEW ok \in BOOLEAN, Record(n, ok)
    PROVE  Keeps
<1>1. n.to \in Session /\ n.text \in Rec /\ n.text \in Seq(Word) /\ Carries(n.text, n.text)
  BY InTree, EndsInItself DEF Types, Notes, Rec
<1>2. ASSUME NEW t PROVE Heard(t)' <=> Heard(t)
  BY DEF Heard
<1>3. outbox \in [Session -> Seq(Rec)] /\ outbox[n.to] \in Seq(Rec)
  BY <1>1 DEF Types, DiskFits
<1>4. CASE ok
  <2>1. outbox' = [outbox EXCEPT ![n.to] = Append(@, n.text)] /\ issued' = issued \cup {n} /\ lapsed' = lapsed
    BY <1>4 DEF Record
  <2>2. ToSet(Append(outbox[n.to], n.text)) = ToSet(outbox[n.to]) \cup {n.text}
    <3> DEFINE old == outbox[n.to]
               x == n.text
    <3>1. old \in Seq(Rec) /\ x \in Rec
      BY <1>1, <1>3
    <3> HIDE DEF old, x
    <3>2. Range(Append(old, x)) = Range(old) \cup {x}
      BY <3>1, Appended
    <3> QED BY <3>2 DEF old, x, ToSet, Range
  <2>3. \A s \in Session : Live(s)' = IF s = n.to THEN Live(s) \cup ({n.text} \ tombs[s]) ELSE Live(s)
    BY <1>3, <2>1, <2>2 DEF Live
  <2>4. ASSUME NEW t PROVE (Debt(t) => Debt(t)') /\ (Debt(t)' => Debt(t) \/ Carries(n.text, t))
    BY <2>1, <2>3 DEF Debt, Owed, Lapsed
  <2>5. Kept(n.text)'
    <3>1. CASE n.text \in tombs[n.to]
      <4>1. Kept(n.text)
        BY <1>1, <3>1 DEF AllKept
      <4> QED BY <1>2, <2>4, <4>1 DEF Kept, Debt
    <3>2. CASE n.text \notin tombs[n.to]
      <4>1. n.text \in Live(n.to)'
        BY <1>1, <2>3, <3>2
      <4>2. Owed(n.text)'
        BY <1>1, <4>1 DEF Owed
      <4> QED BY <4>2 DEF Kept
    <3> QED BY <3>1, <3>2
  <2>6. NewIsKept
    BY <2>1, <2>5 DEF NewIsKept
  <2> QED BY <1>2, <2>4, <2>6 DEF Keeps, Remains, OneDebt
<1>5. CASE ~ok
  <2>1. UNCHANGED <<outbox, issued>> /\ lapsed' = lapsed \cup {n.text}
    BY <1>5 DEF Record
  <2>2. ASSUME NEW t PROVE (Debt(t) => Debt(t)') /\ (Debt(t)' => Debt(t) \/ Carries(n.text, t))
    BY <2>1 DEF Debt, Owed, Lapsed, Live
  <2> QED BY <1>2, <2>1, <2>2 DEF Keeps, Remains, OneDebt, NewIsKept
<1> QED BY <1>4, <1>5

\* An entry is retired only once its words were heard, or are in what replaces it.
LEMMA RetireKeeps ==
    ASSUME Types, UNCHANGED <<log, outbox, issued, lapsed>>,
           NEW n \in Notes \cup {NoNote}, NEW ok \in BOOLEAN, Retire(n, ok),
           n # NoNote => Heard(n.text) \/ Kept(Wrapped("replaced", n.text))
    PROVE  Keeps
<1>1. ASSUME NEW t PROVE Heard(t)' <=> Heard(t)
  BY DEF Heard
<1>2. CASE UNCHANGED tombs
  BY <1>2, NothingWritten
<1>3. CASE ~UNCHANGED tombs
  <2>1. n # NoNote /\ n \in Notes /\ tombs' = [tombs EXCEPT ![n.to] = @ \cup {n.text}]
    BY <1>3 DEF Retire
  <2> DEFINE x == n.text
             w == Wrapped("replaced", x)
  <2>2. n.to \in Session /\ x \in Rec /\ x \in Seq(Word) /\ "replaced" \in Word
    BY <2>1, InTree DEF Types, Notes, Rec, Word, Mark
  <2>3. w \in Seq(Word) /\ Len(w) = 1 + Len(x) /\ Carries(w, x) /\ Len(x) \in Nat
    BY <2>2, Envelope, LenProperties
  <2>4. Heard(x) \/ Kept(w)
    BY <2>1
  <2>5. tombs \in [Session -> SUBSET Rec] /\ outbox \in [Session -> Seq(Rec)] /\ lapsed \subseteq Rec
        /\ log \in [Session -> Seq(Line)]
    BY DEF Types, DiskFits
  <2> HIDE DEF x, w
  <2>6. \A s \in Session : Live(s) \ {x} \subseteq Live(s)' /\ Live(s)' \subseteq Live(s)
    BY <2>1, <2>5 DEF Live, x
  <2>7. \A s \in Session : \A u \in Live(s) : u \in Seq(Word)
    <3>1. ASSUME NEW s \in Session PROVE ToSet(outbox[s]) \subseteq Rec
      BY <2>5, Positions DEF ToSet, Range
    <3> QED BY <3>1 DEF Live, Rec
  <2>8. \A s \in Session : \A i \in DOMAIN log[s] : log[s][i] \in Seq(Word)
    <3>1. ASSUME NEW s \in Session PROVE \A i \in DOMAIN log[s] : log[s][i] \in Line
      BY <2>5, Positions
    <3> QED BY <3>1 DEF Line
  <2>9. ASSUME NEW t \in Seq(Word), NEW q \in Seq(Word), Carries(q, t), Heard(q) PROVE Heard(t)
    <3>1a. PICK s \in Session : \E i \in DOMAIN log[s] : Carries(log[s][i], q)
      BY <2>9 DEF Heard
    <3>1. PICK i \in DOMAIN log[s] : Carries(log[s][i], q)
      BY <3>1a
    <3>2. Carries(log[s][i], t)
      BY <2>8, <2>9, <3>1, EndsThrough
    <3> QED BY <3>2 DEF Heard
  <2>10. ASSUME NEW t \in Seq(Word), NEW q \in Seq(Word), Carries(q, t), Lapsed(q) PROVE Lapsed(t)
    <3>1. PICK u \in lapsed : Carries(u, q)
      BY <2>10 DEF Lapsed
    <3>2. u \in Seq(Word)
      BY <2>5 DEF Rec
    <3>3. Carries(u, t)
      BY <2>10, <3>1, <3>2, EndsThrough
    <3> QED BY <3>3 DEF Lapsed
  \* What the replacement carries is still owed without the entry.
  <2>11. ASSUME NEW t \in Seq(Word), Carries(x, t) PROVE Heard(t)' \/ Debt(t)'
    <3>1. CASE Heard(x)
      BY <1>1, <2>2, <2>9, <2>11, <3>1
    <3>2. Carries(w, t)
      BY <2>2, <2>3, <2>11, EndsThrough
    <3>3. CASE Heard(w)
      BY <1>1, <2>3, <2>9, <3>2, <3>3
    <3>4. CASE Lapsed(w)
      <4>1. Lapsed(t)
        BY <2>3, <2>10, <3>2, <3>4
      <4> QED BY <4>1 DEF Debt, Lapsed
    <3>5. CASE Owed(w)
      <4>1a. PICK s \in Session : \E u \in Live(s) : Carries(u, w)
        BY <3>5 DEF Owed
      <4>1. PICK u \in Live(s) : Carries(u, w)
        BY <4>1a
      <4>2. u \in Seq(Word) /\ Carries(u, t)
        BY <2>3, <2>7, <3>2, <4>1, EndsThrough
      <4>3. Len(w) <= Len(u)
        BY <2>3, <4>1, <4>2, Ends
      <4>4. u # x
        BY <2>3, <4>3
      <4>5. u \in Live(s)'
        BY <2>6, <4>1, <4>4
      <4> QED BY <4>2, <4>5 DEF Debt, Owed
    <3> QED BY <2>4, <3>1, <3>3, <3>4, <3>5 DEF Kept
  <2>12. ASSUME NEW t \in Seq(Word), Debt(t) PROVE Debt(t)' \/ Heard(t)'
    <3>1. CASE Lapsed(t)
      BY <3>1 DEF Debt, Lapsed
    <3>2. CASE Owed(t)
      <4>1a. PICK s \in Session : \E u \in Live(s) : Carries(u, t)
        BY <3>2 DEF Owed
      <4>1. PICK u \in Live(s) : Carries(u, t)
        BY <4>1a
      <4>2. CASE u = x
        BY <2>11, <4>1, <4>2
      <4>3. CASE u # x
        <5>1. u \in Live(s)'
          BY <2>6, <4>1, <4>3
        <5> QED BY <4>1, <5>1 DEF Debt, Owed
      <4> QED BY <4>2, <4>3
    <3> QED BY <2>12, <3>1, <3>2 DEF Debt
  <2>13. Remains
    BY <1>1, <2>12 DEF Remains
  <2>14. NewIsKept
    <3>1. Carries(x, x)
      BY <2>2, EndsInItself
    <3>2. Kept(x)'
      BY <2>2, <2>11, <3>1 DEF Kept, Debt
    <3> QED BY <2>1, <2>5, <3>2 DEF NewIsKept, x
  <2>15. NoDebt
    <3>1. ASSUME NEW t, Owed(t)' PROVE Owed(t)
      <4>1a. PICK s \in Session : \E u \in Live(s)' : Carries(u, t)
        BY <3>1 DEF Owed
      <4>1. PICK u \in Live(s)' : Carries(u, t)
        BY <4>1a
      <4> QED BY <2>6, <4>1 DEF Owed
    <3> QED BY <3>1 DEF NoDebt, Debt, Lapsed
  <2> QED BY <2>13, <2>14, <2>15 DEF Keeps
<1> QED BY <1>2, <1>3

\* What carries a text keeps it, when it is kept itself.
LEMMA KeptCarries ==
    ASSUME Types, NEW u \in Seq(Word), NEW t \in Seq(Word), Carries(u, t), Kept(u)
    PROVE  Debt(t) \/ Heard(t)
<1>1. ASSUME NEW v \in Seq(Word), Carries(v, u) PROVE Carries(v, t)
  BY <1>1, EndsThrough
<1>2. /\ \A s \in Session : log[s] \in Seq(Line) /\ ToSet(outbox[s]) \subseteq Seq(Word)
      /\ lapsed \subseteq Seq(Word)
  <2>1. ASSUME NEW s \in Session PROVE ToSet(outbox[s]) \subseteq Rec
    <3>1. outbox[s] \in Seq(Rec)
      BY DEF Types, DiskFits
    <3> QED BY <3>1, Positions DEF ToSet, Range
  <2> QED BY <2>1 DEF Types, DiskFits, Rec
<1>3. CASE Heard(u)
  <2>1. PICK s \in Session : \E i \in DOMAIN log[s] : Carries(log[s][i], u)
    BY <1>3 DEF Heard
  <2>2. PICK i \in DOMAIN log[s] : Carries(log[s][i], u)
    BY <2>1
  <2>3. log[s][i] \in Seq(Word)
    <3>1. log[s][i] \in Line
      BY <1>2, <2>2, Positions
    <3> QED BY <3>1 DEF Line
  <2> QED BY <1>1, <2>2, <2>3 DEF Heard
<1>4. CASE Owed(u)
  <2>1. PICK s \in Session : \E v \in Live(s) : Carries(v, u)
    BY <1>4 DEF Owed
  <2>2. PICK v \in Live(s) : Carries(v, u)
    BY <2>1
  <2>3. v \in Seq(Word)
    BY <1>2, <2>2 DEF Live
  <2> QED BY <1>1, <2>2, <2>3 DEF Debt, Owed
<1>5. CASE Lapsed(u)
  BY <1>1, <1>2, <1>5 DEF Debt, Lapsed
<1> QED BY <1>3, <1>4, <1>5 DEF Kept

\* A look at an entry takes away only what was heard; what it brings back had been
\* settled.
LEMMA ScanKeeps == ASSUME Types, AllKept, NEW s \in Session, Scan(s) PROVE Keeps
<1>1. UNCHANGED <<log, issued, lapsed>>
  BY DEF Scan, hist
<1>2. ASSUME NEW t PROVE Heard(t)' <=> Heard(t)
  BY <1>1 DEF Heard
<1>3. CASE UNCHANGED <<outbox, tombs>>
  BY <1>1, <1>3, NothingWritten
<1>4. CASE ScanFile(s)
  <2>1. outbox \in [Session -> Seq(Rec)] /\ tombs \in [Session -> SUBSET Rec] /\ log \in [Session -> Seq(Line)]
    BY DEF Types, DiskFits
  <2>2. PICK heard \in {HeardIn(s), {}}, retired \in {tombs[s], {}} :
            /\ \E left \in {Undelivered(s, heard, retired), outbox[s]} : outbox' = [outbox EXCEPT ![s] = left]
            /\ \E stones \in {{}, tombs[s]} : tombs' = [tombs EXCEPT ![s] = stones]
    BY <1>4, ScannedFile
  <2> DEFINE kept == Undelivered(s, heard, retired)
  <2>3. PICK left \in {kept, outbox[s]} : outbox' = [outbox EXCEPT ![s] = left]
    BY <2>2
  <2>4. PICK stones \in {{}, tombs[s]} : tombs' = [tombs EXCEPT ![s] = stones]
    BY <2>2
  <2>5. ToSet(kept) = ToSet(outbox[s]) \ (heard \cup retired)
    BY KeptLines
  <2> HIDE DEF kept
  <2>6. Live(s)' = ToSet(left) \ stones /\ \A q \in Session : q # s => Live(q)' = Live(q)
    BY <2>1, <2>3, <2>4 DEF Live
  <2>7. ASSUME NEW u \in Live(s) PROVE u \in Live(s)' \/ Delivered(s, u)
    BY <2>3, <2>4, <2>5, <2>6 DEF Live, HeardIn
  <2>8. Live(s)' \subseteq ToSet(outbox[s])
    BY <2>3, <2>5, <2>6
  <2>9. ASSUME NEW q \in Session, NEW u \in ToSet(outbox[q]) PROVE u \in Seq(Word)
    <3>1. ToSet(outbox[q]) \subseteq Rec
      BY <2>1, Positions DEF ToSet, Range
    <3> QED BY <2>9, <3>1 DEF Rec
  <2>10. ASSUME NEW t \in Seq(Word), Debt(t) PROVE Debt(t)' \/ Heard(t)'
    <3>1. CASE Lapsed(t)
      BY <1>1, <3>1 DEF Debt, Lapsed
    <3>2. CASE Owed(t)
      <4>1a. PICK q \in Session : \E u \in Live(q) : Carries(u, t)
        BY <3>2 DEF Owed
      <4>1. PICK u \in Live(q) : Carries(u, t)
        BY <4>1a
      <4>2. CASE u \in Live(q)'
        BY <4>1, <4>2 DEF Debt, Owed
      <4>3. CASE u \notin Live(q)'
        <5>1. q = s /\ Delivered(s, u)
          BY <2>6, <2>7, <4>1, <4>3
        <5>2. PICK i \in DOMAIN log[s] : Holds(log[s][i], u)
          BY <5>1 DEF Delivered
        <5>3. u \in Seq(Word)
          BY <2>9, <4>1 DEF Live
        <5>4. log[s][i] \in Seq(Word)
          <6>1. log[s][i] \in Line
            BY <2>1, <5>2, Positions
          <6> QED BY <6>1 DEF Line
        <5>5. Carries(log[s][i], u)
          BY <5>2 DEF Holds
        <5>6. Carries(log[s][i], t)
          BY <4>1, <5>3, <5>4, <5>5, EndsThrough
        <5> QED BY <1>2, <5>2, <5>6 DEF Heard
      <4> QED BY <4>2, <4>3
    <3> QED BY <2>10, <3>1, <3>2 DEF Debt
  <2>11. NoDebt
    <3>1. ASSUME NEW t \in Seq(Word), Owed(t)' PROVE Debt(t) \/ Heard(t)
      <4>1a. PICK q \in Session : \E u \in Live(q)' : Carries(u, t)
        BY <3>1 DEF Owed
      <4>1. PICK u \in Live(q)' : Carries(u, t)
        BY <4>1a
      <4>2. CASE u \in Live(q)
        BY <4>1, <4>2 DEF Debt, Owed
      <4>3. CASE u \notin Live(q)
        <5>1. q = s /\ u \in ToSet(outbox[s]) /\ u \in tombs[s]
          BY <2>6, <2>8, <4>1, <4>3 DEF Live
        <5>2. Kept(u) /\ u \in Seq(Word)
          BY <2>9, <5>1 DEF AllKept
        <5> QED BY <4>1, <5>2, KeptCarries
      <4> QED BY <4>2, <4>3
    <3> QED BY <1>1, <3>1 DEF NoDebt, Debt, Lapsed
  <2>12. NewIsKept
    BY <1>1, <2>1, <2>4 DEF NewIsKept
  <2> QED BY <1>2, <2>10, <2>11, <2>12 DEF Keeps, Remains
<1> QED BY <1>3, <1>4 DEF Scan

\* Every step keeps what was recorded.
LEMMA NextKeeps == Types /\ AllKept /\ [Next]_vars => Keeps
<1> SUFFICES ASSUME Types, AllKept, [Next]_vars PROVE Keeps
  OBVIOUS
<1>1. ASSUME NEW o \in DOMAIN Target, RecordOrigin(o) PROVE Keeps
  <2>1. PICK ok \in BOOLEAN : Record(Note(Target[o], Told(o)), ok)
    BY <1>1 DEF RecordOrigin
  <2>2. Note(Target[o], Told(o)) \in Notes
    BY InTree, Bases, BaseIsRecord, NoteIs DEF Types
  <2> QED BY <1>1, <2>1, <2>2, RecordKeeps DEF RecordOrigin
<1>2. ASSUME NEW s \in Below, BeginOwn(s) \/ ReadSteers(s) PROVE Keeps
  <2>1. Tell(s, mailbox[s]) /\ UNCHANGED <<outbox, tombs, issued, lapsed>>
    BY <1>2 DEF BeginOwn, ReadSteers, hist
  <2>2. mailbox[s] \in Seq(Line) /\ s \in Session
    BY MailIs, InTree DEF Types
  <2> QED BY <2>1, <2>2, ToldKeeps
<1>3. CASE TellRoot
  <2> DEFINE texts == <<job.next.text>>
  <2>1. Tell(Root, texts) /\ UNCHANGED <<outbox, tombs, issued, lapsed>> /\ Root \in Session
    BY <1>3, InTree DEF TellRoot, hist, Types
  <2>2. job.next.text \in Line
    BY <1>3 DEF TellRoot, At, Types, JobFits, Telling
  <2>3. texts \in Seq(Line)
    BY <2>2, Short
  <2> HIDE DEF texts
  <2> QED BY <2>1, <2>3, ToldKeeps
<1>4. CASE RouteTurn
  <2>1. job.at \in Routing
    BY <1>4 DEF RouteTurn, At, Routing
  <2>2. Here \in Below /\ Words \in Rec /\ Here \in Session
    BY <2>1, Routed, InTree DEF Types
  <2> DEFINE texts == Append(mailbox[Here], Words)
  <2>3. Tell(Here, texts) /\ UNCHANGED <<outbox, tombs, issued, lapsed>>
    BY <1>4 DEF RouteTurn, hist
  <2>4. texts \in Seq(Line)
    <3>1. mailbox[Here] \in Seq(Line) /\ Words \in Line
      BY <2>2, MailIs, WrappedIsLine
    <3> QED BY <3>1, Appended
  <2> HIDE DEF texts
  <2> QED BY <2>2, <2>3, <2>4, ToldKeeps
<1>5. CASE RouteReplaced
  <2> DEFINE next == Note(Parent[Here], Wrapped("replaced", Words))
  <2>1. job.at \in Routing
    BY <1>5 DEF RouteReplaced, Unsteered, At, Routing
  <2>2. next \in Notes
    BY <2>1, Routed, WrappedIsLine, NoteIs
  <2>3. PICK ok \in BOOLEAN : Record(next, ok)
    BY <1>5 DEF RouteReplaced
  <2> HIDE DEF next
  <2> QED BY <1>5, <2>2, <2>3, RecordKeeps DEF RouteReplaced
<1>6. CASE RouteTurnEnds \/ RouteTurnDeclined
  <2>1. PICK how \in {"completed", "failed"}, ok \in BOOLEAN :
           Record(Note(Parent[Here], Nested(About(Words), how)), ok)
    BY <1>6 DEF RouteTurnEnds, RouteTurnDeclined, Climb
  <2> DEFINE next == Note(Parent[Here], Nested(About(Words), how))
  <2>2. job.at \in Routing
    BY <1>6 DEF RouteTurnEnds, RouteTurnDeclined, At, Routing
  <2>3. next \in Notes
    <3>1. Words \in Rec /\ Parent[Here] \in DOMAIN Parent
      BY <2>2, Routed
    <3>2. Nested(About(Words), how) \in Rec
      BY <3>1, WrappedIsLine, LineIsAbout
    <3> QED BY <3>1, <3>2, NoteIs
  <2>4. Record(next, ok) /\ UNCHANGED <<log, tombs>>
    BY <1>6, <2>1 DEF RouteTurnEnds, RouteTurnDeclined
  <2> HIDE DEF next
  <2> QED BY <2>3, <2>4, RecordKeeps
<1>7. CASE AlreadyTold \/ RetireTold
  <2>1. PICK ok \in BOOLEAN : Retire(job.retire, ok)
    BY <1>7 DEF AlreadyTold, RetireTold
  <2>2. job.retire \in Notes /\ Delivered(Root, job.retire.text)
    BY <1>7 DEF AlreadyTold, RetireTold, At, Types, JobFits, Telling
  <2>3. Heard(job.retire.text)
    BY <2>2, InTree DEF Delivered, Heard, Holds, Types
  <2> QED BY <1>7, <2>1, <2>2, <2>3, RetireKeeps DEF AlreadyTold, RetireTold, hist
<1>8. CASE Dispose
  <2>1. PICK ok \in BOOLEAN : Retire(job.retire, ok)
    BY <1>8 DEF Dispose
  <2>2. job.at = "recorded"
    BY <1>8 DEF Dispose, At
  <2>3. /\ job.next \in Notes /\ (job.next \in issued \/ job.next.text \in lapsed)
        /\ job.retire \in Notes \cup {NoNote}
        /\ job.retire # NoNote => job.next.text = Wrapped("replaced", job.retire.text)
    BY <2>2 DEF Types, JobFits
  <2>4. Kept(job.next.text)
    <3>1. CASE job.next \in issued
      BY <3>1 DEF AllKept
    <3>2. CASE job.next.text \in lapsed
      <4>1. job.next.text \in Seq(Word)
        BY <2>3 DEF Notes, Rec
      <4>2. Carries(job.next.text, job.next.text)
        BY <4>1, EndsInItself
      <4> QED BY <3>2, <4>2 DEF Kept, Lapsed
    <3> QED BY <2>3, <3>1, <3>2
  <2> QED BY <1>8, <2>1, <2>3, <2>4, RetireKeeps DEF Dispose, hist
<1>9. ASSUME NEW s \in Session, Scan(s) PROVE Keeps
  BY <1>9, ScanKeeps
<1>10. CASE \/ UNCHANGED vars
            \/ \E o \in DOMAIN Target : SendOrigin(o)
            \/ \E s \in Below : EndOwn(s)
            \/ Open \/ Opened \/ Receive \/ Take \/ Retry \/ Stop
            \/ RouteUnreadable \/ RouteDelivered \/ RouteLook \/ RouteSteer \/ RouteUnknown
            \/ RouteBusy \/ RouteClaim \/ RouteBlocked
  <2>1. UNCHANGED <<log, outbox, tombs, issued, lapsed>>
    <3>1. CASE \/ UNCHANGED vars
               \/ \E o \in DOMAIN Target : SendOrigin(o)
               \/ \E s \in Below : EndOwn(s)
               \/ Open \/ Opened \/ Receive \/ Take \/ Retry \/ Stop
      BY <3>1 DEF vars, SendOrigin, EndOwn, Open, Opened, Receive, Take, Retry, Stop, disk, hist
    <3>2. CASE \/ RouteUnreadable \/ RouteDelivered \/ RouteLook \/ RouteSteer \/ RouteUnknown
               \/ RouteBusy \/ RouteClaim \/ RouteBlocked
      BY <3>2 DEF RouteUnreadable, RouteDelivered, RouteLook, RouteSteer, RouteUnknown, RouteBusy, RouteClaim,
                  RouteBlocked, disk, hist
    <3> QED BY <1>10, <3>1, <3>2
  <2> QED BY <2>1, NothingWritten
<1>11. CASE Driver
  BY <1>3, <1>4, <1>5, <1>6, <1>7, <1>8, <1>9, <1>10, <1>11 DEF Driver, Route
<1> QED BY <1>1, <1>2, <1>10, <1>11 DEF Next, Publisher, OwnTurn

\* So nothing recorded is ever lost.
LEMMA NextKept == Types /\ Types' /\ AllKept /\ [Next]_vars => AllKept'
<1> SUFFICES ASSUME Types, Types', AllKept, [Next]_vars PROVE AllKept'
  OBVIOUS
<1>1. Keeps
  BY NextKeeps
<1>2. ASSUME NEW t \in Seq(Word), Kept(t) PROVE Kept(t)'
  BY <1>1, <1>2 DEF Keeps, Remains, Kept, Debt
<1>3. ASSUME NEW n \in issued' PROVE Kept(n.text)'
  <2>1. CASE n \in issued
    <3>1. n.text \in Seq(Word)
      BY <2>1 DEF Types, DiskFits, Notes, Rec
    <3> QED BY <1>2, <2>1, <3>1 DEF AllKept
  <2>2. CASE n \notin issued
    BY <1>1, <2>2 DEF Keeps, NewIsKept
  <2> QED BY <2>1, <2>2
<1>4. ASSUME NEW s \in Session, NEW t \in tombs'[s] PROVE Kept(t)'
  <2>1. CASE t \in tombs[s]
    <3>1. t \in Seq(Word)
      BY <2>1 DEF Types, DiskFits, Rec
    <3> QED BY <1>2, <2>1, <3>1 DEF AllKept
  <2>2. CASE t \notin tombs[s]
    BY <1>1, <2>2 DEF Keeps, NewIsKept
  <2> QED BY <2>1, <2>2
<1> QED BY <1>3, <1>4 DEF AllKept

-----------------------------------------------------------------------------
(* No session is told a thing twice. *)

\* What is apart stays so with more exceptions, and without its end.
LEMMA ApartLess ==
    ASSUME NEW a \in Seq(Line), NEW b \in Seq(Line), NEW E, NEW F, E \subseteq F, Apart(a \o b, E)
    PROVE  Apart(a, F)
<1> DEFINE c == a \o b
<1>1. c \in Seq(Line) /\ Len(c) = Len(a) + Len(b) /\ Len(a) \in Nat /\ Len(b) \in Nat
      /\ \A i \in 1 .. Len(a) + Len(b) : c[i] = IF i <= Len(a) THEN a[i] ELSE b[i - Len(a)]
  BY ConcatProperties, LenProperties
<1>2. DOMAIN c = 1 .. Len(a) + Len(b) /\ DOMAIN a = 1 .. Len(a)
  BY <1>1, LenProperties
<1>3. Apart(c, E)
  OBVIOUS
<1> HIDE DEF c
<1>4. \A i \in DOMAIN a : i \in DOMAIN c /\ c[i] = a[i]
  BY <1>1, <1>2
<1> QED BY <1>3, <1>4 DEF Apart

\* And with one more line, if what it holds with one before is excepted.
LEMMA ApartMore ==
    ASSUME NEW a \in Seq(Line), NEW x \in Line, NEW E, NEW F, E \subseteq F, Apart(a, E),
           \A i \in DOMAIN a : \A t \in Line : Holds(a[i], t) /\ Holds(x, t) => t \in F
    PROVE  Apart(a \o <<x>>, F)
<1> DEFINE one == <<x>>
           c == a \o one
<1>1. one \in Seq(Line) /\ Len(one) = 1 /\ one[1] = x
  OBVIOUS
<1> HIDE DEF one
<1>2. c \in Seq(Line) /\ Len(c) = Len(a) + 1 /\ Len(a) \in Nat
      /\ \A i \in 1 .. Len(a) + 1 : c[i] = IF i <= Len(a) THEN a[i] ELSE one[i - Len(a)]
  <2>1. c \in Seq(Line) /\ Len(c) = Len(a) + Len(one)
        /\ \A i \in 1 .. Len(a) + Len(one) : c[i] = IF i <= Len(a) THEN a[i] ELSE one[i - Len(a)]
    BY <1>1, ConcatProperties
  <2> QED BY <1>1, <2>1, LenProperties
<1>3. DOMAIN c = 1 .. Len(a) + 1 /\ DOMAIN a = 1 .. Len(a)
  BY <1>2, LenProperties
<1>4. \A i \in DOMAIN c : (i \in DOMAIN a /\ c[i] = a[i]) \/ (i = Len(a) + 1 /\ c[i] = x)
  BY <1>1, <1>2, <1>3
<1>5. c = a \o <<x>>
  BY DEF one
<1> HIDE DEF c
<1>6. ASSUME NEW i \in DOMAIN c, NEW j \in DOMAIN c, i # j, NEW t \in Line, Holds(c[i], t), Holds(c[j], t)
      PROVE  t \in F
  <2>1. CASE i \in DOMAIN a /\ c[i] = a[i]
    <3>1. CASE j \in DOMAIN a /\ c[j] = a[j]
      BY <1>6, <2>1, <3>1 DEF Apart
    <3>2. CASE c[j] = x
      BY <1>6, <2>1, <3>2
    <3> QED BY <1>4, <3>1, <3>2
  <2>2. CASE i = Len(a) + 1 /\ c[i] = x
    <3>1. j \in DOMAIN a /\ c[j] = a[j]
      BY <1>4, <1>6, <2>2
    <3> QED BY <1>6, <2>2, <3>1
  <2> QED BY <1>4, <2>1, <2>2
<1> QED BY <1>5, <1>6 DEF Apart

\* What a session below the root has been told, can read and is about to be told.
LEMMA ReachIs ==
    ASSUME Types, NEW s \in Below
    PROVE  /\ log[s] \in Seq(Line) /\ log[s] \in Seq(Rec) /\ mailbox[s] \in Seq(Line) /\ mailbox[s] \in Seq(Rec)
           /\ Coming(s) \in Seq(Line)
           /\ log[s] \o mailbox[s] \in Seq(Line) /\ log[s] \o mailbox[s] \in Seq(Rec)
<1>1. Rec \subseteq Line
  BY WrappedIsLine
<1>2. log[s] \in Seq(Rec) /\ mailbox[s] \in Seq(Rec)
  BY DEF Types, DiskFits
<1>3. log[s] \in Seq(Line) /\ mailbox[s] \in Seq(Line)
  BY <1>1, <1>2, SeqMonotonic
<1>4. Coming(s) \in Seq(Line)
  <2>1. CASE job.at \in {"looked", "claimed"} /\ Here = s
    <3>1. Words \in Line
      BY <1>1, <2>1, Routed DEF Routing
    <3>2. <<Words>> \in Seq(Line)
      BY <3>1, Short
    <3> QED BY <2>1, <3>2 DEF Coming
  <2>2. CASE ~(job.at \in {"looked", "claimed"} /\ Here = s)
    BY <2>2, Short DEF Coming
  <2> QED BY <2>1, <2>2
<1>5. log[s] \o mailbox[s] \in Seq(Line)
  BY <1>3, ConcatProperties
<1>6. log[s] \o mailbox[s] \in Seq(Rec)
  BY <1>2, ConcatProperties
<1> QED BY <1>2, <1>3, <1>4, <1>5, <1>6

\* The parts of it, each at the end of the one before.
LEMMA Regroup ==
    ASSUME NEW a \in Seq(Line), NEW b \in Seq(Line), NEW c \in Seq(Line), NEW w \in Line
    PROVE  /\ ((a \o b) \o <<>>) \o c = (a \o b) \o c
           /\ (a \o Append(b, w)) \o <<>> = (a \o b) \o <<w>>
           /\ ((a \o Append(b, w)) \o <<>>) \o <<>> = (a \o b) \o <<w>>
<1> DEFINE ab == a \o b
           one == <<w>>
           bw == b \o one
           abw == a \o bw
<1>1. ab \in Seq(Line) /\ one \in Seq(Line) /\ Append(b, w) = bw
  BY ConcatProperties, Short, AppendIsConcat
<1> HIDE DEF one
<1>2. bw \in Seq(Line)
  BY <1>1, ConcatProperties
<1>3. (a \o b) \o one = abw
  BY <1>1, ConcatAssociative
<1> HIDE DEF bw, ab
<1>4. abw \in Seq(Line)
  BY <1>2, ConcatProperties
<1> HIDE DEF abw
<1>5. ab \o <<>> = ab /\ abw \o <<>> = abw
  BY <1>1, <1>4, ConcatEmptySeq
<1> QED BY <1>1, <1>3, <1>5 DEF ab, one, abw

\* What a session may be told twice is read off the history.
LEMMA SameExcuse ==
    ASSUME UNCHANGED <<unread, blind>>
    PROVE  \A s : Asked(s)' = Asked(s) /\ Excused(s)' = Excused(s)
  BY DEF Asked, Excused, AskedBlind

\* A step that tells nobody, and is about to tell nobody else.
LEMMA NobodyTold ==
    ASSUME Types, Once, UNCHANGED <<tree, log, mailbox, unread, blind>>,
           \/ job'.at \notin {"looked", "claimed"}
           \/ job.at \in {"looked", "claimed"} /\ job'.parcel = job.parcel
    PROVE  Once'
<1>1. Below' = Below
  BY TreeStays
<1>2. ASSUME NEW s \in Below PROVE Apart(Reaches(s)', Excused(s)')
  <2> DEFINE E == Excused(s)
             a == log[s] \o mailbox[s]
             b == Coming(s)
             none == <<>>
  <2>1. a \in Seq(Line) /\ b \in Seq(Line) /\ none \in Seq(Line) /\ Apart(a \o b, E)
    BY ReachIs, Short DEF Once, Reaches
  <2>2. Coming(s)' = b \/ Coming(s)' = none
    BY DEF Coming, Here, Words, Note0
  <2>3. log'[s] \o mailbox'[s] = a
    OBVIOUS
  <2> HIDE DEF a, b, none
  <2>4. Apart(a, E)
    BY <2>1, ApartLess
  <2>5. a \o none = a
    BY <2>1, ConcatEmptySeq DEF none
  <2>6. Apart(a \o b, E) /\ Apart(a \o none, E)
    BY <2>1, <2>4, <2>5
  <2> HIDE DEF E
  <2>7. Reaches(s)' = a \o Coming(s)'
    BY <2>3 DEF Reaches
  <2>8. Apart(Reaches(s)', E)
    BY <2>2, <2>6, <2>7
  <2>9. Excused(s)' = E
    BY SameExcuse DEF E
  <2> QED BY <2>8, <2>9
<1>3. Apart(log'[Root], Asked(Root)')
  BY SameExcuse DEF Once
<1> QED BY <1>1, <1>2, <1>3 DEF Once

\* A step that moves what a session reaches, and adds nothing to it.
LEMMA SameReach ==
    ASSUME Types, Once, UNCHANGED <<tree, unread, blind>>, log'[Root] = log[Root],
           \A s \in Below : Reaches(s)' = Reaches(s)
    PROVE  Once'
  BY TreeStays, SameExcuse DEF Once

\* A turn of its own reads the mailbox: what could be read has been told.
LEMMA ReadOnce ==
    ASSUME Types, Once, NEW s \in Below, BeginOwn(s) \/ ReadSteers(s)
    PROVE  Once'
<1>1. /\ UNCHANGED <<tree, unread, blind, job>>
      /\ log' = [log EXCEPT ![s] = @ \o mailbox[s]] /\ mailbox' = [mailbox EXCEPT ![s] = <<>>]
  BY DEF BeginOwn, ReadSteers, world, hist, driver, Tell
<1>2. log \in [Session -> Seq(Line)] /\ mailbox \in [Below -> Seq(Rec)] /\ Below \subseteq Session /\ Root \notin Below
  BY InTree DEF Types, DiskFits
<1>3. ASSUME NEW q \in Below PROVE Reaches(q)' = Reaches(q)
  <2>1. Coming(q)' = Coming(q)
    BY <1>1 DEF Coming, Here, Words, Note0
  <2>2. CASE q = s
    <3>1. log'[q] = log[s] \o mailbox[s] /\ mailbox'[q] = <<>>
      BY <1>1, <1>2, <2>2
    <3>2. ((log[s] \o mailbox[s]) \o <<>>) \o Coming(s) = (log[s] \o mailbox[s]) \o Coming(s)
      <4> DEFINE a == log[s]
                 b == mailbox[s]
                 c == Coming(s)
                 ab == a \o b
      <4>2. a \in Seq(Line) /\ b \in Seq(Line) /\ c \in Seq(Line) /\ ab \in Seq(Line)
        BY ReachIs
      <4> HIDE DEF ab
      <4>3. ab \o <<>> = ab
        BY <4>2, ConcatEmptySeq
      <4> QED BY <4>3 DEF ab
    <3> QED BY <2>1, <2>2, <3>1, <3>2 DEF Reaches
  <2>3. CASE q # s
    BY <1>1, <1>2, <2>1, <2>3 DEF Reaches
  <2> QED BY <2>2, <2>3
<1>4. log'[Root] = log[Root]
  BY <1>1, <1>2
<1> QED BY <1>1, <1>3, <1>4, SameReach

\* The parcel is steered in, or said by a turn of its own: it was on its way.
LEMMA RouteOnce ==
    ASSUME Types, Once, RouteSteer \/ RouteTurn
    PROVE  Once'
<1> DEFINE s == Here
<1>1. /\ UNCHANGED <<tree, unread, blind>> /\ job.at \in {"looked", "claimed"} /\ job'.at \notin {"looked", "claimed"}
      /\ \/ UNCHANGED log /\ mailbox' = [mailbox EXCEPT ![s] = Append(@, Words)]
         \/ /\ log' = [log EXCEPT ![s] = @ \o Append(mailbox[s], Words)]
            /\ mailbox' = [mailbox EXCEPT ![s] = <<>>]
  <2>1. CASE RouteSteer
    BY <2>1 DEF RouteSteer, At, Idle, world, hist
  <2>2. CASE RouteTurn
    <3>1. job.at = "claimed" /\ job' = [job EXCEPT !.at = "taken"]
      BY <2>2 DEF RouteTurn, At
    <3>2. job'.at = "taken"
      BY <3>1 DEF Types, JobFits
    <3> QED BY <2>2, <3>1, <3>2 DEF RouteTurn, world, hist, Tell
  <2> QED BY <2>1, <2>2
<1>2. s \in Below /\ Words \in Line /\ job.at \in Routing
  BY <1>1, Routed, WrappedIsLine DEF Routing
<1>3. log \in [Session -> Seq(Line)] /\ mailbox \in [Below -> Seq(Rec)] /\ Below \subseteq Session /\ Root \notin Below
  BY InTree DEF Types, DiskFits
<1>4. ASSUME NEW q \in Below PROVE Reaches(q)' = Reaches(q)
  <2>1. Coming(q)' = <<>>
    BY <1>1 DEF Coming
  <2>2. CASE q = s
    <3>1. Coming(q) = <<Words>>
      BY <1>1, <2>2 DEF Coming
    <3>2. \/ log'[q] = log[q] /\ mailbox'[q] = Append(mailbox[q], Words)
          \/ log'[q] = log[q] \o Append(mailbox[q], Words) /\ mailbox'[q] = <<>>
      BY <1>1, <1>2, <1>3, <2>2
    <3>3. log[q] \in Seq(Line) /\ mailbox[q] \in Seq(Line)
      BY ReachIs
    <3> DEFINE a == log[q]
               b == mailbox[q]
               w == Words
    <3>4. a \in Seq(Line) /\ b \in Seq(Line) /\ w \in Line
      BY <1>2, <3>3
    <3> HIDE DEF a, b, w
    <3>5. /\ (a \o Append(b, w)) \o <<>> = (a \o b) \o <<w>>
          /\ ((a \o Append(b, w)) \o <<>>) \o <<>> = (a \o b) \o <<w>>
      BY <3>4, Regroup
    <3> QED BY <2>1, <3>1, <3>2, <3>5 DEF Reaches, a, b, w
  <2>3. CASE q # s
    <3>1. Coming(q) = <<>> /\ log'[q] = log[q] /\ mailbox'[q] = mailbox[q]
      BY <1>1, <1>2, <1>3, <2>3 DEF Coming
    <3> QED BY <2>1, <3>1 DEF Reaches
  <2> QED BY <2>2, <2>3
<1>5. log'[Root] = log[Root]
  <2>1. s # Root /\ s \in Session /\ Root \in Session
    BY <1>2, <1>3, InTree DEF Types
  <2>2. UNCHANGED log \/ log' = [log EXCEPT ![s] = @ \o Append(mailbox[s], Words)]
    BY <1>1
  <2> DEFINE more == log[s] \o Append(mailbox[s], Words)
  <2>3. UNCHANGED log \/ log' = [log EXCEPT ![s] = more]
    BY <2>2
  <2> HIDE DEF s, more
  <2> QED BY <1>3, <2>1, <2>3
<1> QED BY <1>1, <1>4, <1>5, SameReach

\* A route looks at the log first; the mailbox it does not see is what unread notes,
\* and the log it cannot read is what blind notes.
LEMMA LookOnce == ASSUME Types, Once, RouteLook PROVE Once'
<1> DEFINE s == Here
           w == Words
<1>1. /\ UNCHANGED <<tree, log, mailbox>> /\ job.at = "routing" /\ job' = [job EXCEPT !.at = "looked"]
      /\ blind' = IF Delivered(s, w) THEN blind \cup {<<s, w>>} ELSE blind
      /\ unread' = IF \E u \in ToSet(mailbox[s]) : Holds(u, w) THEN unread \cup {<<s, w>>} ELSE unread
  BY DEF RouteLook, Unheard, At, world, disk
<1>2. job'.at = "looked" /\ Here' = s /\ Words' = w /\ s \in Below /\ w \in Rec /\ w \in Line
  BY <1>1, JobMoves, Routed, WrappedIsLine DEF Routing
<1> HIDE DEF s, w
<1>3. Below' = Below
  BY <1>1, TreeStays
<1>4. \A q : Asked(q) \subseteq Asked(q)' /\ Excused(q) \subseteq Excused(q)'
  BY <1>1 DEF Asked, Excused, AskedBlind
<1>5. ASSUME NEW q \in Below PROVE Apart(Reaches(q)', Excused(q)')
  <2> DEFINE E == Excused(q)
             F == Excused(q)'
             a == log[q] \o mailbox[q]
  <2>1. a \in Seq(Line) /\ a \in Seq(Rec) /\ Coming(q) = <<>> /\ E \subseteq F
    BY <1>1, <1>4, ReachIs DEF Coming
  <2>2. Apart(a, E)
    <3> DEFINE none == <<>>
    <3>1. none \in Seq(Line) /\ Apart(a \o none, E)
      BY <2>1, Short DEF Once, Reaches
    <3> HIDE DEF a, none
    <3> QED BY <2>1, <3>1, ApartLess
  <2>3. Reaches(q)' = a \o Coming(q)'
    BY <1>1 DEF Reaches
  <2>4. CASE q # s
    <3>1. Coming(q)' = <<>>
      BY <1>2, <2>4 DEF Coming
    <3> HIDE DEF a
    <3>2. Reaches(q)' = a
      BY <2>1, <2>3, <3>1, ConcatEmptySeq
    <3>3. Apart(a, F)
      BY <2>1, <2>2 DEF Apart
    <3> QED BY <3>2, <3>3
  <2>5. CASE q = s
    <3>1. Coming(q)' = <<w>>
      BY <1>2, <2>5 DEF Coming
    <3>2. ASSUME NEW i \in DOMAIN a, NEW t \in Line, Holds(a[i], t), Holds(w, t) PROVE t \in F
      <4>1. t = w
        BY <1>2, <3>2, RecordsHoldThemselves
      <4>2. log[q] \in Seq(Line) /\ mailbox[q] \in Seq(Line)
        BY ReachIs
      <4> DEFINE l == log[q]
                 m == mailbox[q]
      <4>3. /\ Len(l) \in Nat /\ Len(m) \in Nat /\ DOMAIN l = 1 .. Len(l) /\ DOMAIN m = 1 .. Len(m)
            /\ DOMAIN a = 1 .. Len(l) + Len(m)
            /\ \A k \in 1 .. Len(l) + Len(m) : a[k] = IF k <= Len(l) THEN l[k] ELSE m[k - Len(l)]
        <5>1. /\ l \o m \in Seq(Line) /\ Len(l \o m) = Len(l) + Len(m)
              /\ \A k \in 1 .. Len(l) + Len(m) : (l \o m)[k] = IF k <= Len(l) THEN l[k] ELSE m[k - Len(l)]
          BY <4>2, ConcatProperties
        <5>2. DOMAIN (l \o m) = 1 .. Len(l) + Len(m)
          BY <5>1, LenProperties
        <5> QED BY <4>2, <5>1, <5>2, LenProperties
      <4> HIDE DEF a, l, m
      <4>4. CASE i <= Len(l)
        <5>1. i \in DOMAIN l /\ a[i] = l[i]
          BY <3>2, <4>3, <4>4
        <5>2. Delivered(s, w)
          BY <2>5, <3>2, <4>1, <5>1 DEF Delivered, l
        <5>3. <<s, w>> \in blind' /\ Holds(w, w)
          BY <1>1, <3>2, <4>1, <5>2
        <5>4. <<q, t>> \in blind' /\ Holds(t, t)
          BY <2>5, <4>1, <5>3
        <5>5. AskedBlind(q, t)'
          <6>1. <<q, t>>[1] = q /\ <<q, t>>[2] = t
            OBVIOUS
          <6> QED BY <5>4, <6>1 DEF AskedBlind
        <5> QED BY <3>2, <5>5 DEF F, Excused, Asked
      <4>5. CASE ~(i <= Len(l))
        <5>1. i - Len(l) \in DOMAIN m /\ a[i] = m[i - Len(l)]
          BY <3>2, <4>3, <4>5
        <5>2. \E u \in ToSet(mailbox[s]) : Holds(u, w)
          BY <2>5, <3>2, <4>1, <5>1 DEF ToSet, m
        <5>3. <<q, t>> \in unread'
          BY <1>1, <2>5, <4>1, <5>2
        <5> QED BY <3>2, <5>3 DEF F, Excused
      <4> QED BY <4>4, <4>5
    <3> HIDE DEF a, E, F
    <3>3. Apart(a \o <<w>>, F)
      BY <1>2, <2>1, <2>2, <3>2, ApartMore
    <3> QED BY <2>3, <3>1, <3>3 DEF F
  <2> QED BY <2>4, <2>5
<1>6. Apart(log'[Root], Asked(Root)')
  BY <1>1, <1>4 DEF Once, Apart
<1> QED BY <1>3, <1>5, <1>6 DEF Once

\* The root is told what its log does not hold, or cannot be read for.
LEMMA RootOnce == ASSUME Types, Once, TellRoot PROVE Once'
<1> DEFINE r == job.retire.text
           x == job.next.text
           a == log[Root]
<1>1. /\ UNCHANGED <<tree, mailbox, unread>> /\ job.at = "followup" /\ job' = [job EXCEPT !.at = "told"]
      /\ blind' = IF Delivered(Root, r) THEN blind \cup {<<Root, r>>} ELSE blind
      /\ log' = [log EXCEPT ![Root] = @ \o <<x>>]
  BY DEF TellRoot, Unheard, At, world, Tell
<1>2. r \in Rec /\ x \in {r, Wrapped("salvaged", r)} /\ x \in Line /\ job'.at = "told"
  <2>1. job.retire \in Notes /\ x \in {r, Wrapped("salvaged", r)} /\ x \in Line
    BY <1>1 DEF Types, JobFits, Telling
  <2>2. job'.at = "told"
    BY <1>1 DEF Types, JobFits
  <2> QED BY <2>1, <2>2 DEF Notes
<1>3. log \in [Session -> Seq(Line)] /\ Below \subseteq Session /\ Root \notin Below /\ Root \in Session
  BY InTree DEF Types, DiskFits
<1> DEFINE E == Asked(Root)'
<1>4. a \in Seq(Line) /\ Apart(a, Asked(Root)) /\ log'[Root] = a \o <<x>>
  BY <1>1, <1>3 DEF Once
<1>5. ASSUME NEW i \in DOMAIN a, Holds(a[i], r), NEW t \in Line, Holds(t, r) PROVE t \in E
  <2>1. <<Root, r>> \in blind'
    BY <1>1, <1>5 DEF Delivered
  <2>2. <<Root, r>>[1] = Root /\ <<Root, r>>[2] = r
    OBVIOUS
  <2>3. AskedBlind(Root, t)'
    BY <1>5, <2>1, <2>2 DEF AskedBlind
  <2> QED BY <1>5, <2>3 DEF Asked
<1>5a. \A q : Asked(q) \subseteq Asked(q)' /\ Excused(q) \subseteq Excused(q)'
  BY <1>1 DEF Asked, Excused, AskedBlind
<1>5b. Apart(a, E)
  BY <1>4, <1>5a DEF Apart
<1>6. \A i \in DOMAIN a : a[i] \in Line /\ a[i] \in Seq(Word)
  BY <1>4, Positions DEF Line
<1> HIDE DEF a, r, x, E
<1>7. ASSUME NEW i \in DOMAIN a, NEW t \in Line, Holds(a[i], t), Holds(x, t) PROVE t \in E
  <2>0. r \in Seq(Word) /\ "salvaged" \in Word /\ x \in Seq(Word) /\ t \in Seq(Word)
    BY <1>2 DEF Rec, Line, Word, Mark
  <2>1. CASE t = r
    BY <1>5, <1>7, <2>0, <2>1, EndsInItself
  <2>2. CASE t # r
    <3>1. x # r
      BY <1>2, <1>7, <2>2, RecordsHoldThemselves
    <3>2. x = Wrapped("salvaged", r)
      BY <1>2, <3>1
    <3>3. t = x
      BY <1>2, <1>7, <2>2, <3>2, SalvageHolds
    <3>4. Holds(x, r)
      BY <2>0, <3>2, Envelope
    <3>5. Holds(a[i], r)
      BY <1>6, <1>7, <2>0, <3>3, <3>4, EndsThrough DEF Holds
    <3> QED BY <1>5, <1>7, <3>3, <3>4, <3>5
  <2> QED BY <2>1, <2>2
<1>8. Apart(a \o <<x>>, E)
  BY <1>2, <1>4, <1>5b, <1>7, ApartMore
<1>9. ASSUME NEW s \in Below PROVE Apart(Reaches(s)', Excused(s)')
  <2>1. Reaches(s)' = Reaches(s)
    <3>1. log'[s] = log[s] /\ mailbox'[s] = mailbox[s]
      BY <1>1, <1>3
    <3>2. Coming(s)' = <<>> /\ Coming(s) = <<>>
      BY <1>1, <1>2 DEF Coming
    <3> QED BY <3>1, <3>2 DEF Reaches
  <2> QED BY <1>5a, <2>1 DEF Once, Apart
<1>10. Apart(log'[Root], Asked(Root)')
  BY <1>4, <1>8 DEF E
<1> QED BY <1>1, <1>9, <1>10, TreeStays DEF Once

\* No step tells a session what it has been told, can read or is about to be told,
\* but for what unread and blind note.
LEMMA NextOnce == Types /\ Once /\ [Next]_vars => Once'
<1> SUFFICES ASSUME Types, Once, [Next]_vars PROVE Once'
  OBVIOUS
<1>1. CASE UNCHANGED <<tree, log, mailbox, unread, blind, job>>
  BY <1>1, NobodyTold
<1>2. CASE \/ UNCHANGED vars
           \/ \E o \in DOMAIN Target : Publisher(o)
           \/ \E s \in Below : EndOwn(s)
           \/ \E s \in Session : Scan(s)
           \/ Open \/ Opened \/ Receive \/ Retry
  <2>1. CASE UNCHANGED vars \/ Open \/ Opened \/ Receive \/ Retry
    BY <1>1, <2>1 DEF vars, disk, world, driver, hist, Open, Opened, Receive, Retry
  <2>2. CASE \/ \E o \in DOMAIN Target : Publisher(o)
             \/ \E s \in Below : EndOwn(s)
             \/ \E s \in Session : Scan(s)
    BY <1>1, <2>2 DEF Publisher, RecordOrigin, SendOrigin, EndOwn, Scan, disk, world, driver, hist
  <2> QED BY <1>2, <2>1, <2>2
<1>3. CASE Take
  <2>1. UNCHANGED <<tree, log, mailbox, unread, blind>>
    BY <1>3 DEF Take, disk, world, hist
  <2>2. job'.at \in {"followup", "routing"}
    BY <1>3 DEF Take, FollowUp, Idle
  <2> QED BY <2>1, <2>2, NobodyTold
<1>4. CASE RouteClaim
  <2>1. UNCHANGED <<tree, log, mailbox, unread, blind>> /\ job.at = "looked" /\ job' = [job EXCEPT !.at = "claimed"]
    BY <1>4 DEF RouteClaim, Unsteered, At, disk, world, hist
  <2>2. job'.parcel = job.parcel
    BY <2>1 DEF Types, JobFits
  <2> QED BY <2>1, <2>2, NobodyTold
<1>5. CASE \/ AlreadyTold \/ RetireTold \/ Dispose \/ Stop
           \/ RouteUnreadable \/ RouteDelivered \/ RouteUnknown \/ RouteReplaced \/ RouteBusy
           \/ RouteBlocked \/ RouteTurnEnds \/ RouteTurnDeclined
  <2>1. UNCHANGED <<tree, log, mailbox, unread, blind>>
    <3>1. CASE AlreadyTold \/ RetireTold \/ Dispose \/ Stop
      BY <3>1 DEF AlreadyTold, RetireTold, Dispose, Stop, disk, world, hist
    <3>2. CASE \/ RouteUnreadable \/ RouteDelivered \/ RouteUnknown \/ RouteReplaced \/ RouteBusy
               \/ RouteBlocked \/ RouteTurnEnds \/ RouteTurnDeclined
      BY <3>2 DEF RouteUnreadable, RouteDelivered, RouteUnknown, RouteReplaced, RouteBusy, RouteBlocked,
                  RouteTurnEnds, RouteTurnDeclined, disk, world, hist
    <3> QED BY <1>5, <3>1, <3>2
  <2>2. job'.at \in {"idle", "followup", "recorded"}
    <3>1. CASE AlreadyTold \/ RetireTold \/ Dispose \/ Stop
      BY <3>1 DEF AlreadyTold, RetireTold, Dispose, Stop, Salvaged, FollowUp, Idle
    <3>2. CASE RouteUnreadable \/ RouteDelivered \/ RouteUnknown \/ RouteBusy \/ RouteBlocked
      BY <3>2 DEF RouteUnreadable, RouteDelivered, RouteUnknown, RouteBusy, RouteBlocked,
                  Hold, Salvaged, FollowUp, Idle
    <3>3. CASE RouteReplaced \/ RouteTurnEnds \/ RouteTurnDeclined
      <4>1. \E next, origin : job' = Recorded(next, origin)
        BY <3>3 DEF RouteReplaced, RouteTurnEnds, RouteTurnDeclined, Climb
      <4> QED BY <4>1 DEF Recorded
    <3> QED BY <1>5, <3>1, <3>2, <3>3
  <2> QED BY <2>1, <2>2, NobodyTold
<1>6. ASSUME NEW s \in Below, OwnTurn(s) PROVE Once'
  BY <1>2, <1>6, ReadOnce DEF OwnTurn
<1>7. CASE Driver
  BY <1>2, <1>3, <1>4, <1>5, <1>7, RouteOnce, LookOnce, RootOnce DEF Driver, Route
<1> QED BY <1>2, <1>5, <1>6, <1>7 DEF Next

\* At the start nothing was recorded and nobody was told.
LEMMA InitKept == Init => AllKept /\ Once
<1> SUFFICES ASSUME Init PROVE AllKept /\ Once
  OBVIOUS
<1>1. Types
  BY InitTypes
<1>2. AllKept
  BY DEF Init, AllKept
<1>3. ASSUME NEW E PROVE Apart(<<>>, E)
  BY DEF Apart
<1>4. log[Root] = <<>>
  BY <1>1, InTree DEF Init, Types
<1>5. ASSUME NEW s \in Below PROVE Reaches(s) = <<>>
  <2>1. log[s] = <<>> /\ mailbox[s] = <<>> /\ Coming(s) = <<>>
    BY <1>1, InTree DEF Init, Types, Coming, Idle
  <2>2. <<>> \in Seq(Line)
    BY Short
  <2>3. <<>> \o <<>> = <<>>
    BY <2>2, ConcatEmptySeq
  <2> QED BY <2>1, <2>3 DEF Reaches
<1> QED BY <1>2, <1>3, <1>4, <1>5 DEF Once

\* The invariant the theorems below rest on: what everything is made of, that nothing
\* recorded is lost, and that nothing is told twice, counting what a session can read
\* and what is on its way to it.
THEOREM Invariance == Spec => []IInv
<1>1. Init => IInv
  BY InitTypes, InitKept DEF IInv
<1>2. IInv /\ [Next]_vars => IInv'
  BY NextTypes, NextKept, NextOnce DEF IInv
<1> QED BY <1>1, <1>2, PTL DEF Spec

\* Every text on disk or on its way is some task's words or the ending of a hop; what
\* is held back is never meant for the root; only a claimed session is driven by a
\* routed turn; and a closed driver has nothing in hand.
THEOREM TypeCorrect == Spec => []TypeOK
<1>1. IInv => TypeOK
  <2> SUFFICES ASSUME Types PROVE TypeOK
    BY DEF IInv
  <2>1. ASSUME NEW t \in Line PROVE IsText(t)
    BY LineIsAbout
  <2>2. Rec \subseteq Line
    BY WrappedIsLine
  <2>3. ASSUME NEW T, T \subseteq Line, NEW q \in Seq(T), NEW t \in ToSet(q) PROVE IsText(t)
    <3>1. t \in T
      BY <2>3, Positions DEF ToSet
    <3> QED BY <2>1, <2>3, <3>1
  <2>4. ASSUME NEW s \in Session, NEW t \in ToSet(log[s]) \cup ToSet(outbox[s]) \cup tombs[s] PROVE IsText(t)
    <3>1. log[s] \in Seq(Line) /\ outbox[s] \in Seq(Rec) /\ tombs[s] \subseteq Rec
      BY DEF Types, DiskFits
    <3> QED BY <2>1, <2>2, <2>3, <2>4, <3>1
  <2>5. ASSUME NEW s \in Below, NEW t \in ToSet(mailbox[s]) PROVE IsText(t)
    <3>1. mailbox[s] \in Seq(Rec)
      BY DEF Types, DiskFits
    <3> QED BY <2>2, <2>3, <2>5, <3>1
  <2>6. ASSUME NEW n \in Notes PROVE IsNote(n)
    <3>1. n.to \in Session /\ n.text \in Rec
      BY InTree DEF Types, Notes
    <3> QED BY <2>1, <2>2, <3>1 DEF IsNote
  <2>7. \A i \in DOMAIN chan : IsNote(chan[i])
    <3>1. chan \in Seq(Notes)
      BY DEF Types, CarryFits
    <3> QED BY <2>6, <3>1, Positions
  <2>8. ASSUME NEW p \in ToSet(queue) \cup ToSet(held) PROVE IsParcel(p)
    <3>1. queue \in Seq(Parcels) /\ held \in Seq(Parcels)
      BY DEF Types, CarryFits
    <3>2. p \in Parcels
      BY <2>8, <3>1, Positions DEF ToSet
    <3> QED BY <2>6, <3>2 DEF Parcels, IsParcel
  <2> QED BY <2>4, <2>5, <2>7, <2>8 DEF TypeOK, Types, WorldFits, CarryFits, RunFits, ClosedFits
<1> QED BY <1>1, Invariance, PTL

\* Whatever was written to the outbox is heard, owed, or was refused by the disk.
THEOREM WordsKept == Spec => []WordsAreKept
<1>1. IInv => WordsAreKept
  BY DEF IInv, AllKept, Kept, WordsAreKept
<1> QED BY <1>1, Invariance, PTL

\* No session is told the same thing twice, but for what was routed again while its
\* first copy waited in the mailbox, and what it was asked about when its log held it
\* and could not be read.
THEOREM OnceOnly == Spec => []ToldOnce
<1>1. IInv => ToldOnce
  <2> SUFFICES ASSUME Types, Once, NEW s \in Session, NEW t \in ToSet(log[s]), Times(s, t) > 1
               PROVE  <<s, t>> \in unread \/ AskedBlind(s, t)
    BY DEF IInv, ToldOnce
  <2> DEFINE I == {i \in DOMAIN log[s] : Holds(log[s][i], t)}
  <2>1. log[s] \in Seq(Line)
    BY DEF Types, DiskFits
  <2>2. t \in Line /\ IsFiniteSet(I)
    <3>1. DOMAIN log[s] = 1 .. Len(log[s]) /\ Len(log[s]) \in Nat /\ \A i \in 1 .. Len(log[s]) : log[s][i] \in Line
      BY <2>1, Positions
    <3>2. IsFiniteSet(1 .. Len(log[s]))
      BY <3>1, FS_Interval
    <3>3. I \subseteq 1 .. Len(log[s])
      BY <3>1
    <3> QED BY <3>1, <3>2, <3>3, FS_Subset DEF ToSet
  <2>3. Cardinality(I) > 1
    BY DEF Times
  <2> HIDE DEF I
  <2>4. \E i, j \in I : i # j
    <3>1. SUFFICES ASSUME ~\E i, j \in I : i # j PROVE FALSE
      OBVIOUS
    <3>2. I # {}
      BY <2>3, FS_EmptySet
    <3>3. PICK i \in I : TRUE
      BY <3>2
    <3>4. I = {i}
      BY <3>1, <3>3
    <3>5. Cardinality(I) = 1
      BY <3>4, FS_Singleton
    <3> QED BY <2>3, <3>5
  <2>5. PICK i \in I, j \in I : i # j
    BY <2>4
  <2>6. i \in DOMAIN log[s] /\ j \in DOMAIN log[s] /\ Holds(log[s][i], t) /\ Holds(log[s][j], t)
    BY DEF I
  <2>7. CASE s \in Below
    <3> DEFINE E == Excused(s)
               a == log[s]
               m == mailbox[s]
               c == Coming(s)
               am == a \o m
    <3>1. a \in Seq(Line) /\ m \in Seq(Line) /\ c \in Seq(Line) /\ am \in Seq(Line)
      BY <2>7, ReachIs
    <3>2. Apart(am \o c, E)
      BY <2>7 DEF Once, Reaches
    <3> HIDE DEF E, c, m
    <3>3. Apart(a, E)
      <4> HIDE DEF am
      <4>1. Apart(am, E)
        BY <3>1, <3>2, ApartLess
      <4> USE DEF am
      <4>2. Apart(a \o m, E)
        BY <4>1
      <4> HIDE DEF am, a
      <4> QED BY <3>1, <4>2, ApartLess
    <3>4. t \in E
      BY <2>2, <2>5, <2>6, <3>3 DEF Apart
    <3> QED BY <3>4 DEF E, Excused, Asked
  <2>8. CASE s = Root
    BY <2>2, <2>5, <2>6, <2>8 DEF Once, Apart, Asked
  <2>9. CASE s \in Session \ DOMAIN Parent
    BY <2>6, <2>9 DEF Types, DiskFits
  <2> QED BY <2>7, <2>8, <2>9 DEF Below
<1> QED BY <1>1, Invariance, PTL

\* Words a step adds to what is owed are those of one task.
LEMMA OneOwes ==
    ASSUME NEW n \in Notes, NEW o \in Origin, NEW p \in Origin,
           Carries(n.text, Told(o)), Carries(n.text, Told(p))
    PROVE  o = p
  BY LastWord DEF Notes, Rec

\* Delivery implements Completions: every step tells sessions of some reports, writes
\* one down, or is no concern of theirs.
THEOREM PromiseKept == Spec => KeepsThePromise
<1> DEFINE state == [o \in Origin |-> StateOf(o)]
<1>1. Init => Promise!Init
  <2> SUFFICES ASSUME Init, NEW o \in Origin PROVE StateOf(o) = "unborn"
    BY DEF Promise!Init
  <2>1. ~Heard(Told(o))
    BY DEF Heard, Init
  <2>2. ~Owed(Told(o))
    <3>1. \A s \in Session : Live(s) = {}
      BY DEF Init, Live, ToSet
    <3> QED BY <3>1 DEF Owed
  <2>3. ~Lapsed(Told(o))
    BY DEF Lapsed, Init
  <2> QED BY <2>1, <2>2, <2>3 DEF StateOf
<1>2. IInv /\ [Next]_vars => [Promise!Next]_state
  <2> SUFFICES ASSUME IInv, [Next]_vars, state' # state PROVE Promise!Next
    OBVIOUS
  <2>1. Keeps
    BY NextKeeps DEF IInv
  <2> DEFINE H(o) == Heard(Told(o))
             D(o) == Debt(Told(o))
             S(o) == IF H(o) THEN "heard" ELSE IF D(o) THEN "owed" ELSE "unborn"
  <2>2. state = [o \in Origin |-> S(o)] /\ state' = [o \in Origin |-> S(o)']
    BY DEF StateOf, Debt
  <2>3. \A o \in Origin : Told(o) \in Seq(Word)
    BY Bases
  <2>4. \A o \in Origin : (H(o) => H(o)') /\ (D(o) => D(o)' \/ H(o)')
    BY <2>1, <2>3 DEF Keeps, Remains
  <2>5. CASE NoDebt
    <3> DEFINE T == {o \in Origin : H(o)' /\ ~H(o)}
    <3>1. \A o \in Origin : D(o)' => D(o) \/ H(o)
      BY <2>3, <2>5 DEF NoDebt
    <3> HIDE DEF H, D
    <3>2. \A o \in Origin : S(o)' = IF o \in T THEN "heard" ELSE S(o)
      BY <2>4, <3>1
    <3>3. \A o \in Origin : state[o] = S(o)
      BY <2>2
    <3>4. T \cap Promise!Heard = {}
      BY <3>3 DEF Promise!Heard
    <3>5. Promise!Become(T, "heard")
      BY <2>2, <3>2, <3>3 DEF Promise!Become
    <3>6. T # {}
      BY <2>2, <3>2
    <3> HIDE DEF T, state
    <3>7. T \in SUBSET Origin
      BY DEF T
    <3> QED BY <3>4, <3>5, <3>6, <3>7 DEF Promise!Next, Promise!Hear
  <2>6. CASE OneDebt
    <3>1. PICK n \in Notes : \A t \in Seq(Word) : Debt(t)' => Debt(t) \/ Carries(n.text, t)
      BY <2>6 DEF OneDebt
    <3>2. \A o \in Origin : (H(o)' => H(o)) /\ (D(o)' => D(o) \/ Carries(n.text, Told(o)))
      BY <2>3, <2>6, <3>1 DEF OneDebt
    <3> HIDE DEF H, D
    <3>3. PICK o \in Origin : S(o)' # S(o)
      BY <2>2
    <3>4. ~H(o) /\ ~H(o)' /\ ~D(o) /\ D(o)' /\ Carries(n.text, Told(o))
      BY <2>4, <3>2, <3>3
    <3>5. ASSUME NEW p \in Origin, p # o PROVE S(p)' = S(p)
      <4>1. ~Carries(n.text, Told(p))
        BY <3>4, <3>5, OneOwes
      <4> QED BY <2>4, <3>2, <4>1
    <3>6. \A p \in Origin : state[p] = S(p)
      BY <2>2
    <3>7. o \in Promise!Unborn
      BY <3>4, <3>6 DEF Promise!Unborn
    <3>8. Promise!Become({o}, "owed")
      BY <2>2, <3>4, <3>5, <3>6 DEF Promise!Become
    <3> HIDE DEF state
    <3> QED BY <3>7, <3>8 DEF Promise!Next, Promise!Publish
  <2> QED BY <2>1, <2>5, <2>6 DEF Keeps
<1> QED BY <1>1, <1>2, Invariance, PTL DEF Spec, KeepsThePromise, Promise!Spec
=====
