------------------------- MODULE BackgroundRunsProofs -------------------------
(***************************************************************************)
(* The safety of the background runs for every set of runs, sessions,      *)
(* checkouts and plans and every limit: what each run holds at each place  *)
(* (GuardsFit) carries all of it.                                          *)
(***************************************************************************)
EXTENDS BackgroundRuns, FiniteSetTheorems, SequenceTheorems,
        WellFoundedInduction, TLAPS

-----------------------------------------------------------------------------
(* The inductive invariant. *)

\* Where a run has its session for itself, and where it is and holds anything.
Inside == {"acquire", "queued", "marking", "validating", "turn", "stopping"}
Underway == Inside \cup {"look", "enter", "checking"}

\* Where a run may be.
PlaceOf(r) ==
    /\ r \notin Task => place[r] \notin {"look", "enter", "checking"}
    /\ r \in Edit => place[r] \notin Inside \ {"turn"}
    /\ place[r] \in {"queued", "marking"} => call[r].writes
    /\ r \in admitted => place[r] \in Inside \cup {"leaving", "gone"}
    /\ r \in detached => place[r] # "idle"
    /\ r \in detached \cup Job /\ place[r] \in Inside => r \in admitted

\* What a run holds before it lets go, guard by guard.
Carries(r) ==
    /\ "permit"  \in guards[r] <=> r \in detached \/ r \in Job
    /\ "resumed" \in guards[r] <=> place[r] = "checking" /\ call[r].resumes
    /\ "claim"   \in guards[r] <=> (r \in Task \/ r \in Delivery) /\ place[r] \in Inside
    /\ "slot"    \in guards[r] <=> r \in Task /\ (place[r] \in Inside \/ place[r] = "checking")
    /\ "over" \notin guards[r]
    /\ "row"     \in guards[r] <=> r \in admitted
    /\ "lease"   \in guards[r] <=>
          \/ place[r] = "marking"
          \/ place[r] \in {"validating", "turn", "stopping"} /\ (call[r].writes \/ r \in Edit)
    /\ "mark"    \in guards[r] <=>
          /\ call[r].writes /\ r \notin Edit
          /\ place[r] = "validating" \/ (r \notin Task /\ place[r] \in {"turn", "stopping"})
    /\ "holder"  \in guards[r] <=> r \in Task /\ call[r].writes /\ place[r] \in {"turn", "stopping"}

GuardsOf(r) == /\ place[r] \in Underway => Carries(r)
               /\ place[r] \in {"idle", "gone"} => guards[r] = {}

\* What a run may still hold while it lets go.
MayCarry(r) ==
    /\ ~("slot" \in guards[r] /\ "over" \in guards[r])
    /\ ~("resumed" \in guards[r] /\ "claim" \in guards[r])
    /\ ~("mark" \in guards[r] /\ "holder" \in guards[r])
    /\ "permit" \in guards[r] => r \in detached \/ r \in Job
    /\ "row" \in guards[r] => r \in admitted
    /\ "claim" \in guards[r] => r \in Task \/ r \in Delivery
    /\ "mark" \in guards[r] => r \notin Edit
    /\ "slot" \in guards[r] \/ "holder" \in guards[r] => r \in Task
    /\ "over" \in guards[r] \/ "resumed" \in guards[r] => r \in Task /\ r \notin admitted
    /\ r \in Job => r \in admitted
LeavingOf(r) == place[r] = "leaving" => MayCarry(r)

PlacesFit == \A r \in Run : PlaceOf(r)
GuardsFit == \A r \in Run : GuardsOf(r)
LeavingFits == \A r \in Run : LeavingOf(r)

\* The sets the slot counter counts.
Holding(gs) == {r \in Run : guards[r] \cap gs # {}}
SlotsFit ==
    /\ IsFiniteSet(Holding({"slot", "over"})) /\ IsFiniteSet(Holding({"slot"}))
    /\ SlotsAreCounted

\* A session is claimed while a run has it, and by one.
HasSession(r) == r \in Task \cup Delivery /\ guards[r] \cap {"resumed", "claim"} # {}
ClaimsFit ==
    /\ \A r \in Run : HasSession(r) => call[r].session \in active
    /\ \A r, q \in Run : r # q /\ HasSession(r) /\ HasSession(q) => call[r].session # call[q].session

\* The lock is its clones', or the waiter's it was handed to.
LockOf(r) == /\ "run" \in clones[r] <=> "lease" \in guards[r]
             /\ "write" \in clones[r] => place[r] \in {"leaving", "gone"}
             /\ clones[r] # {} => lock[Tree(r)] = r
Belongs(c) == lock[c] # Free => /\ Tree(lock[c]) = c
                                /\ clones[lock[c]] # {} \/ At(lock[c], "queued")
Waiting(c) == \A i \in DOMAIN queue[c] :
                 At(queue[c][i], "queued") /\ Tree(queue[c][i]) = c /\ lock[c] # queue[c][i]
LocksFit == (\A r \in Run : LockOf(r)) /\ \A c \in Checkout : Belongs(c) /\ Waiting(c)

\* What stops a run stops all that hangs from it.
StoppersFit ==
    \A r \in Run : \A s \in ctx[r].stoppers :
        ~At(s, "idle") /\ ctx[s].stoppers \subseteq ctx[r].stoppers

\* A row is in the registry or awaited, and goes last.
RowsFit ==
    /\ \A r \in admitted :
          IF "row" \in guards[r] THEN r \in registry \cup awaited
          ELSE guards[r] \subseteq (IF r \in died THEN {"permit"} ELSE {})
    /\ shut = "open" => awaited = {}
    /\ shut # "open" => registry = {}
    /\ shut = "done" => \A r \in awaited : At(r, "gone")

\* The reservation is there until the one report.
ReportsFit ==
    \A r \in Run : IF r \in admitted THEN notices[r] = IF "permit" \in guards[r] THEN 0 ELSE 1
                   ELSE notices[r] = 0

\* A call is inside what its caller is inside of, and a waiter inside nothing
\* that waits for it.
NestOf(r) ==
    /\ IsFiniteSet(ctx[r].inside) /\ r \notin ctx[r].inside
    /\ \A h \in ctx[r].inside \cap Run : ~At(h, "idle") /\ ctx[h].inside \subseteq ctx[r].inside
    /\ ctx[r].inside \cap Run # {} => Nested(r)
    /\ Nested(r) /\ Live(r) /\ call[r].writes => ~SameTree(r)
    /\ At(r, "queued") => ~Nested(r)
NestsFit == IsFiniteSet({r \in Run : ~At(r, "idle")}) /\ \A r \in Run : NestOf(r)

IInv ==
    /\ TypeOK /\ PlacesFit /\ GuardsFit /\ LeavingFits /\ SlotsFit /\ ClaimsFit /\ LocksFit
    /\ HolderIsNamed /\ StoppersFit /\ StopsWithItsOwner /\ RowsFit /\ ReportsFit /\ NestsFit

-----------------------------------------------------------------------------
(* The steps, by what they disturb. *)

\* A run goes from one place to another and takes and drops nothing but, at most,
\* its wait for a lease.
Moves(r) ==
    \/ Look(r) \/ Decline(r) \/ Finish(r) \/ GiveUp(r) \/ StopEarly(r) \/ Halt(r)
    \/ HaltDelivery(r) \/ HaltJob(r) \/ Panic(r) \/ Stopped(r) \/ Unwind(r)

\* A run takes something.
Gets(r) ==
    \/ Ask(r) \/ Enter(r) \/ Admit(r) \/ AskJob(r) \/ Deliver(r) \/ EditTree(r)
    \/ Acquire(r) \/ Wake(r) \/ Mark(r) \/ Validate(r)

\* No run goes anywhere.
Stays ==
    \/ \E r \in Run : WriteEnds(r) \/ CancelTask(r) \/ CancelDelivery(r) \/ Receive(r)
    \/ \E h \in {Root, Person} : Abandon(h)
    \/ AbortAll \/ Shutdown \/ ShutdownReturns

\* A step of the system is a step of one run, or moves none.
LEMMA NextIsOne ==
    ASSUME Next
    PROVE  (\E r \in Run : Gets(r) \/ Moves(r) \/ LetGo(r) \/ Leave(r)) \/ Stays
BY DEF Next, Steps, Gets, Moves, Stays

\* What a move does.
LEMMA MovesDo ==
    ASSUME NEW r \in Run, Moves(r)
    PROVE  /\ UNCHANGED <<fixed, guards, mark, active, running, registry, shut, awaited, sent>>
           /\ place[r] \in Underway
           /\ \/ At(r, "look") /\ Go(r, "enter")
              \/ Go(r, "leaving")
              \/ r \in admitted \cup Delivery /\ At(r, "turn") /\ Go(r, "stopping")
<1>1. CASE Look(r)
  BY <1>1 DEF Look, At, Go, Underway, Inside, ends, pools, reg, leases
<1>2. CASE Decline(r) \/ Finish(r) \/ StopEarly(r) \/ HaltJob(r)
  BY <1>2 DEF Decline, Finish, StopEarly, HaltJob, At, Go, Underway, Inside, pools, reg, leases
<1>3. CASE GiveUp(r)
  BY <1>3 DEF GiveUp, StopWaiting, At, Go, Underway, Inside, pools, reg, leases
<1>4. CASE Halt(r) \/ HaltDelivery(r) \/ Panic(r)
  BY <1>4 DEF Halt, HaltDelivery, Panic, At, Go, Underway, Inside, pools, reg, leases
<1>5. CASE Stopped(r)
  BY <1>5 DEF Stopped, MayWriteOn, LeaveWriting, At, Go, Underway, Inside, pools, reg, leases
<1>6. CASE Unwind(r)
  BY <1>6 DEF Unwind, MayWriteOn, LeaveWriting, StopWaiting, At, Go, Underway, Inside, pools, reg, leases
<1> QED BY <1>1, <1>2, <1>3, <1>4, <1>5, <1>6 DEF Moves

\* What the rest leaves alone.
LEMMA StaysDo ==
    ASSUME Stays
    PROVE  /\ UNCHANGED <<fixed, place, guards, mark, active, running, notices, died>>
           /\ UNCHANGED <<lock, queue, clones>> \/ \E r \in Run : WriteEnds(r)
           /\ shut' = shut \/ Shutdown \/ ShutdownReturns
<1>1. CASE \E r \in Run : WriteEnds(r)
  BY <1>1 DEF WriteEnds, DropClone, pools, reg, sent, ends
<1>2. CASE \E r \in Run : CancelTask(r) \/ CancelDelivery(r) \/ Receive(r)
  BY <1>2 DEF CancelTask, CancelDelivery, Receive, Cancels, pools, reg, leases, sent, ends
<1>3. CASE \E h \in {Root, Person} : Abandon(h)
  BY <1>3 DEF Abandon, pools, reg, leases, sent
<1>4. CASE AbortAll \/ Shutdown \/ ShutdownReturns
  BY <1>4 DEF AbortAll, Shutdown, ShutdownReturns, pools, reg, leases, sent, ends
<1> QED BY <1>1, <1>2, <1>3, <1>4 DEF Stays
-----------------------------------------------------------------------------
(* What the operators do. *)

\* A call names a checkout, a session and a caller.
LEMMA CallIsTyped ==
    ASSUME TypeOK
    PROVE  /\ call \in [Run -> Call]
           /\ \A r \in Run : /\ Tree(r) \in Checkout /\ call[r].session \in Session
                             /\ call[r].writes \in BOOLEAN /\ call[r].resumes \in BOOLEAN
                             /\ Nested(r) => Host(r) \in Task \cup Delivery \cup {Free}
                             /\ ~Nested(r) => Host(r) \in Tops
           /\ \A r \in Edit : Tree(r) = Home
BY PlansAssumption, RunAssumption DEF TypeOK, Call, Tree, Host, Nested, Tops, Run

\* A run is of one kind, and neither a caller nor nobody.
LEMMA RunIsTyped ==
    /\ Free \notin Run /\ Holder = Run
    /\ \A r \in Run : r \in Task \/ r \in Job \/ r \in Delivery \/ r \in Edit
    /\ \A r \in Task : r \in Run /\ r \notin Job /\ r \notin Delivery /\ r \notin Edit
    /\ \A r \in Job : r \in Run /\ r \notin Task /\ r \notin Delivery /\ r \notin Edit
    /\ \A r \in Delivery : r \in Run /\ r \notin Job /\ r \notin Task /\ r \notin Edit
    /\ \A r \in Edit : r \in Run /\ r \notin Job /\ r \notin Task /\ r \notin Delivery
    /\ Tops \cap Run = {} /\ Free \notin Tops
BY RunAssumption, FreeAssumption DEF Run

\* The parts of the type invariant a step can disturb.
Contexts == [ancestry : SUBSET Checkout, inside : SUBSET (Run \cup Tops), stoppers : SUBSET Run]

\* What a run inherits is a context.
LEMMA ContextIsTyped ==
    ASSUME TypeOK, NEW r \in Run, NEW bg \in BOOLEAN, Nested(r) => Host(r) # Free
    PROVE  Context(r, bg) \in Contexts
<1>1. Tree(r) \in Checkout /\ Host(r) \in Run \cup Tops /\ (Nested(r) => Host(r) \in Run)
  BY CallIsTyped, RunIsTyped
<1>2. HostCtx(r) \in Contexts
  BY <1>1 DEF HostCtx, NoContext, Contexts, TypeOK
<1> QED BY <1>1, <1>2 DEF Context, Contexts

\* A queue loses its head, or one waiter.
LEMMA QueueLoses ==
    ASSUME NEW s \in Seq(Holder), IsInjective(s), NEW i \in DOMAIN s
    PROVE  /\ RemoveAt(s, i) \in Seq(Holder) /\ IsInjective(RemoveAt(s, i))
           /\ \A j \in DOMAIN RemoveAt(s, i) :
                 \E k \in DOMAIN s : k # i /\ RemoveAt(s, i)[j] = s[k]
<1> DEFINE front == SubSeq(s, 1, i - 1)
           back == SubSeq(s, i + 1, Len(s))
<1>1. DOMAIN s = 1 .. Len(s) /\ Len(s) \in Nat /\ \A j \in 1 .. Len(s) : s[j] \in Holder
  BY LenProperties, ElementOfSeq
<1>2. /\ front \in Seq(Holder) /\ Len(front) = i - 1
      /\ \A j \in 1 .. i - 1 : front[j] = s[j]
  BY <1>1, SubSeqProperties, 1 \in Int, i - 1 \in Int, \A j \in 1 .. i - 1 : s[j] \in Holder
<1>3. /\ back \in Seq(Holder) /\ Len(back) = Len(s) - i
      /\ \A j \in 1 .. Len(s) - i : back[j] = s[i + j]
  <2>1. i + 1 \in Int /\ Len(s) \in Int /\ \A j \in i + 1 .. Len(s) : s[j] \in Holder
    BY <1>1
  <2>2. /\ back \in Seq(Holder)
        /\ Len(back) = IF i + 1 <= Len(s) THEN Len(s) - (i + 1) + 1 ELSE 0
        /\ \A j \in 1 .. Len(s) - (i + 1) + 1 : back[j] = s[i + 1 + j - 1]
    BY <2>1, SubSeqProperties
  <2>3. Len(s) - (i + 1) + 1 = Len(s) - i /\ (~(i + 1 <= Len(s)) => Len(s) - i = 0)
    <3>1. \A n \in Nat : \A q \in 1 .. n :
              n - (q + 1) + 1 = n - q /\ (~(q + 1 <= n) => n - q = 0)
      OBVIOUS
    <3> QED BY <3>1, <1>1
  <2>4. \A j \in 1 .. Len(s) - i : i + 1 + j - 1 = i + j
    BY <1>1
  <2> QED BY <2>2, <2>3, <2>4
<1>4. RemoveAt(s, i) = front \o back
  BY DEF RemoveAt
<1> HIDE DEF front, back
<1>5. /\ front \o back \in Seq(Holder) /\ Len(front \o back) = Len(s) - 1
      /\ \A j \in 1 .. Len(s) - 1 : (front \o back)[j] = IF j < i THEN s[j] ELSE s[j + 1]
  <2>1. /\ front \o back \in Seq(Holder) /\ Len(front \o back) = Len(front) + Len(back)
        /\ \A j \in 1 .. Len(front) + Len(back) :
              (front \o back)[j] = IF j <= Len(front) THEN front[j] ELSE back[j - Len(front)]
    BY <1>2, <1>3, ConcatProperties
  <2>2. Len(front) + Len(back) = Len(s) - 1
    BY <1>1, <1>2, <1>3
  <2>3. ASSUME NEW j \in 1 .. Len(s) - 1
        PROVE  (front \o back)[j] = IF j < i THEN s[j] ELSE s[j + 1]
    <3>1. CASE j < i
      <4>1. j <= Len(front) /\ j \in 1 .. i - 1
        BY <3>1, <1>1, <1>2
      <4> QED BY <4>1, <2>1, <2>2, <1>2, <3>1
    <3>2. CASE ~(j < i)
      <4>1. ~(j <= Len(front)) /\ j - Len(front) \in 1 .. Len(s) - i /\ i + (j - Len(front)) = j + 1
        BY <3>2, <1>1, <1>2
      <4> QED BY <4>1, <2>1, <2>2, <1>3, <3>2
    <3> QED BY <3>1, <3>2
  <2> QED BY <2>1, <2>2, <2>3
<1>6. DOMAIN (front \o back) = 1 .. Len(s) - 1
  BY <1>5, LenProperties
<1> DEFINE From(j) == IF j < i THEN j ELSE j + 1
<1>7. \A j \in DOMAIN (front \o back) :
          From(j) \in DOMAIN s /\ From(j) # i /\ (front \o back)[j] = s[From(j)]
  <2>1. \A n \in Nat : \A q \in 1 .. n : \A j \in 1 .. n - 1 :
            IF j < q THEN j \in 1 .. n /\ j # q ELSE j + 1 \in 1 .. n /\ j + 1 # q
    OBVIOUS
  <2>2. i \in 1 .. Len(s)
    BY <1>1
  <2> QED BY <2>1, <2>2, <1>1, <1>5, <1>6
<1>8. \A j, k \in DOMAIN (front \o back) : From(j) = From(k) => j = k
  <2>1. \A n \in Nat : \A q \in 1 .. n : \A j, k \in 1 .. n - 1 :
            (IF j < q THEN j ELSE j + 1) = (IF k < q THEN k ELSE k + 1) => j = k
    OBVIOUS
  <2>2. i \in 1 .. Len(s)
    BY <1>1
  <2> QED BY <2>1, <2>2, <1>1, <1>6
<1>9. IsInjective(front \o back)
  <2>1. SUFFICES ASSUME NEW j \in DOMAIN (front \o back), NEW k \in DOMAIN (front \o back),
                        (front \o back)[j] = (front \o back)[k]
                 PROVE  j = k
    BY DEF IsInjective
  <2> HIDE DEF From
  <2>2. From(j) = From(k)
    BY <2>1, <1>7 DEF IsInjective
  <2> QED BY <2>2, <1>8
<1> HIDE DEF From
<1> QED BY <1>4, <1>5, <1>7, <1>9

\* A queue whose head is served keeps the others.
LEMMA QueuePops ==
    ASSUME NEW s \in Seq(Holder), IsInjective(s), s # <<>>
    PROVE  /\ Head(s) = s[1] /\ 1 \in DOMAIN s /\ Head(s) \in Holder
           /\ Tail(s) \in Seq(Holder) /\ IsInjective(Tail(s))
           /\ \A j \in DOMAIN Tail(s) : \E k \in DOMAIN s : k # 1 /\ Tail(s)[j] = s[k]
<1>1. /\ Head(s) \in Holder /\ Tail(s) \in Seq(Holder) /\ Len(Tail(s)) = Len(s) - 1
      /\ \A i \in 1 .. Len(Tail(s)) : Tail(s)[i] = s[i + 1]
  BY HeadTailProperties
<1>2. /\ DOMAIN s = 1 .. Len(s) /\ Len(s) \in Nat \ {0}
      /\ DOMAIN Tail(s) = 1 .. Len(Tail(s))
  BY <1>1, LenProperties, EmptySeq
<1>3. \A i \in DOMAIN Tail(s) : i + 1 \in DOMAIN s /\ i + 1 # 1
  BY <1>1, <1>2
<1>4. Head(s) = s[1] /\ 1 \in DOMAIN s
  BY <1>2
<1> QED BY <1>1, <1>2, <1>3, <1>4 DEF IsInjective

\* A queue joined by one who is not in it.
LEMMA QueueGrows ==
    ASSUME NEW s \in Seq(Holder), IsInjective(s), NEW r \in Holder, \A i \in DOMAIN s : s[i] # r
    PROVE  /\ Append(s, r) \in Seq(Holder) /\ IsInjective(Append(s, r))
           /\ \A j \in DOMAIN Append(s, r) :
                 Append(s, r)[j] = r \/ \E k \in DOMAIN s : Append(s, r)[j] = s[k]
<1>1. /\ Append(s, r) \in Seq(Holder) /\ Len(Append(s, r)) = Len(s) + 1
      /\ \A i \in 1 .. Len(s) : Append(s, r)[i] = s[i]
      /\ Append(s, r)[Len(s) + 1] = r
  BY AppendProperties
<1>2. /\ DOMAIN s = 1 .. Len(s) /\ Len(s) \in Nat
      /\ DOMAIN Append(s, r) = 1 .. Len(s) + 1
  BY <1>1, LenProperties
<1>3. \A j \in 1 .. Len(s) + 1 : j \in 1 .. Len(s) \/ j = Len(s) + 1
  BY <1>2
<1> QED BY <1>1, <1>2, <1>3 DEF IsInjective

\* The lock of a checkout goes to the first waiter.
LEMMA HandOverDoes ==
    ASSUME LeasesTypeOK, NEW c \in Checkout, HandOver(c)
    PROVE  /\ lock' \in [Checkout -> Holder \cup {Free}] /\ queue' \in [Checkout -> Seq(Holder)]
           /\ \A d \in Checkout : IsInjective(queue'[d])
           /\ \A d \in Checkout \ {c} : lock'[d] = lock[d] /\ queue'[d] = queue[d]
           /\ lock'[c] = Free \/ \E k \in DOMAIN queue[c] : lock'[c] = queue[c][k]
           /\ \A j \in DOMAIN queue'[c] : /\ queue'[c][j] # lock'[c]
                                          /\ \E k \in DOMAIN queue[c] : queue'[c][j] = queue[c][k]
<1>1. queue[c] \in Seq(Holder) /\ IsInjective(queue[c])
  BY DEF LeasesTypeOK
<1>2. CASE queue[c] = <<>>
  <2>1. lock' = [lock EXCEPT ![c] = Free] /\ queue' = queue
    BY <1>2 DEF HandOver
  <2>2. DOMAIN queue'[c] = {}
    BY <1>2, <2>1
  <2> QED BY <2>1, <2>2 DEF LeasesTypeOK
<1>3. CASE queue[c] # <<>>
  <2>1. lock' = [lock EXCEPT ![c] = Head(queue[c])] /\ queue' = [queue EXCEPT ![c] = Tail(queue[c])]
    BY <1>3 DEF HandOver
  <2>2. /\ Head(queue[c]) = queue[c][1] /\ 1 \in DOMAIN queue[c] /\ Head(queue[c]) \in Holder
        /\ Tail(queue[c]) \in Seq(Holder) /\ IsInjective(Tail(queue[c]))
        /\ \A j \in DOMAIN Tail(queue[c]) : \E k \in DOMAIN queue[c] :
              k # 1 /\ Tail(queue[c])[j] = queue[c][k]
    BY <1>1, <1>3, QueuePops
  <2>3. lock' \in [Checkout -> Holder \cup {Free}] /\ lock'[c] = queue[c][1]
    BY <2>1, <2>2 DEF LeasesTypeOK
  <2>4. queue' \in [Checkout -> Seq(Holder)] /\ queue'[c] = Tail(queue[c])
    BY <2>1, <2>2 DEF LeasesTypeOK
  <2>5. \A d \in Checkout \ {c} : lock'[d] = lock[d] /\ queue'[d] = queue[d]
    BY <2>1 DEF LeasesTypeOK
  <2>6. \A j \in DOMAIN queue'[c] : queue'[c][j] # lock'[c]
    BY <2>2, <2>3, <2>4, <1>1 DEF IsInjective
  <2>7. \A d \in Checkout : IsInjective(queue'[d])
    BY <2>2, <2>4, <2>5 DEF LeasesTypeOK
  <2> QED BY <2>2, <2>3, <2>4, <2>5, <2>6, <2>7
<1> QED BY <1>2, <1>3

\* A waiter that gives up leaves the others where they are.
LEMMA LeaveQueueDoes ==
    ASSUME LeasesTypeOK, NEW c \in Checkout, NEW r, LeaveQueue(c, r)
    PROVE  /\ lock' = lock /\ queue' \in [Checkout -> Seq(Holder)]
           /\ \A d \in Checkout : IsInjective(queue'[d])
           /\ \A d \in Checkout \ {c} : queue'[d] = queue[d]
           /\ \A j \in DOMAIN queue'[c] : /\ queue'[c][j] # r
                                          /\ \E k \in DOMAIN queue[c] : queue'[c][j] = queue[c][k]
<1>1. queue[c] \in Seq(Holder) /\ IsInjective(queue[c])
  BY DEF LeasesTypeOK
<1>2. PICK i \in DOMAIN queue[c] :
          queue[c][i] = r /\ queue' = [queue EXCEPT ![c] = RemoveAt(queue[c], i)]
  BY DEF LeaveQueue
<1>3. /\ RemoveAt(queue[c], i) \in Seq(Holder) /\ IsInjective(RemoveAt(queue[c], i))
      /\ \A j \in DOMAIN RemoveAt(queue[c], i) :
            \E k \in DOMAIN queue[c] : k # i /\ RemoveAt(queue[c], i)[j] = queue[c][k]
  BY <1>1, QueueLoses
<1>4. queue' \in [Checkout -> Seq(Holder)] /\ queue'[c] = RemoveAt(queue[c], i)
  BY <1>2, <1>3 DEF LeasesTypeOK
<1>5. \A d \in Checkout \ {c} : queue'[d] = queue[d]
  BY <1>2 DEF LeasesTypeOK
<1>6. \A d \in Checkout : IsInjective(queue'[d])
  BY <1>3, <1>4, <1>5 DEF LeasesTypeOK
<1>7. \A j \in DOMAIN queue'[c] : queue'[c][j] # r
  BY <1>1, <1>2, <1>3, <1>4 DEF IsInjective
<1>8. lock' = lock
  BY DEF LeaveQueue
<1> QED BY <1>3, <1>4, <1>5, <1>6, <1>7, <1>8

\* The first guard in a run's order: it holds that one and none before it.
LEMMA Least ==
    ASSUME NEW n \in Nat, NEW P \in SUBSET (1 .. n), P # {}
    PROVE  \E i \in P : \A j \in 1 .. i - 1 : j \notin P
<1>1. P \subseteq Nat
  OBVIOUS
<1>2. PICK i \in P : \A j \in P : ~ (<<j, i>> \in OpToRel(<, Nat))
  BY <1>1, WFMin, NatLessThanWellFounded
<1>3. \A j \in P : ~(j < i)
  BY <1>1, <1>2 DEF OpToRel
<1> QED BY <1>1, <1>3

\* The guard let go next is held, and none before it in the order is.
LEMMA FirstInOrder ==
    ASSUME NEW r \in Run, NEW n \in Nat, DOMAIN Order(r) = 1 .. n, guards[r] # {},
           \A g \in guards[r] : \E i \in 1 .. n : Order(r)[i] = g
    PROVE  /\ NextGuard(r) \in guards[r]
           /\ \E i \in 1 .. n : /\ Order(r)[i] = NextGuard(r)
                                /\ \A j \in 1 .. i - 1 : Order(r)[j] \notin guards[r]
<1> DEFINE order == Order(r)
           First(g) == \E i \in DOMAIN order :
                          order[i] = g /\ \A j \in 1 .. i - 1 : order[j] \notin guards[r]
<1> HIDE DEF order
<1>1. DOMAIN order = 1 .. n /\ \A g \in guards[r] : \E i \in 1 .. n : order[i] = g
  BY DEF order
<1>2. \E g \in guards[r] : First(g)
  <2> DEFINE P == {i \in 1 .. n : order[i] \in guards[r]}
  <2>1. P \in SUBSET (1 .. n) /\ P # {}
    BY <1>1
  <2>2. PICK i \in P : \A j \in 1 .. i - 1 : j \notin P
    BY <2>1, Least
  <2>3. \A j \in 1 .. i - 1 : order[j] \notin guards[r]
    BY <2>2
  <2> QED BY <2>2, <2>3, <1>1
<1>3. NextGuard(r) = CHOOSE g \in guards[r] : First(g)
  BY DEF NextGuard, order
<1> HIDE DEF First
<1>4. NextGuard(r) \in guards[r] /\ First(NextGuard(r))
  BY <1>2, <1>3
<1> QED BY <1>1, <1>4 DEF First, order

\* What LetGo lets go: something, the row after all but the claim of a run that is
\* no task and the permit of one that panicked.
LEMMA NextGuardIs ==
    ASSUME TypeOK, LeavingFits, NEW r \in Run, At(r, "leaving"), guards[r] # {}
    PROVE  /\ NextGuard(r) \in guards[r]
           /\ NextGuard(r) = "row" =>
                 guards[r] \subseteq {"row"} \cup (IF r \in died THEN {"permit"} ELSE {})
<1>1. guards[r] \subseteq Guards /\ (r \in admitted => r \in Task \cup Job) /\ died \subseteq admitted
  BY RunIsTyped DEF TypeOK
<1>2. CASE r \in Task \cap died
  <2> DEFINE order == Order(r)
  <2>1. order = <<"mark", "lease", "holder", "slot", "claim", "row", "permit">>
    BY <1>2, <1>1, RunIsTyped DEF Order
  <2>2. /\ DOMAIN order = 1 .. 7 /\ order[1] = "mark" /\ order[2] = "lease" /\ order[3] = "holder" /\ order[4] = "slot"
        /\ order[5] = "claim" /\ order[6] = "row" /\ order[7] = "permit"
    BY <2>1
  <2> HIDE DEF order
  <2>3. \A g \in guards[r] : \E i \in 1 .. 7 : order[i] = g
    BY <2>2, <1>1, <1>2, RunIsTyped DEF LeavingFits, LeavingOf, MayCarry, At, Guards
  <2>4. /\ NextGuard(r) \in guards[r]
        /\ \E i \in 1 .. 7 : /\ order[i] = NextGuard(r)
                             /\ \A j \in 1 .. i - 1 : order[j] \notin guards[r]
    BY <2>2, <2>3, FirstInOrder DEF order
  <2> QED BY <2>2, <2>4, <1>1, <1>2, RunIsTyped DEF LeavingFits, LeavingOf, MayCarry, At, Guards
<1>3. CASE r \in died \ Task
  <2> DEFINE order == Order(r)
  <2>1. order = <<"mark", "lease", "row", "permit">>
    BY <1>3, <1>1, RunIsTyped DEF Order
  <2>2. /\ DOMAIN order = 1 .. 4 /\ order[1] = "mark" /\ order[2] = "lease" /\ order[3] = "row" /\ order[4] = "permit"
    BY <2>1
  <2> HIDE DEF order
  <2>3. \A g \in guards[r] : \E i \in 1 .. 4 : order[i] = g
    BY <2>2, <1>1, <1>3, RunIsTyped DEF LeavingFits, LeavingOf, MayCarry, At, Guards
  <2>4. /\ NextGuard(r) \in guards[r]
        /\ \E i \in 1 .. 4 : /\ order[i] = NextGuard(r)
                             /\ \A j \in 1 .. i - 1 : order[j] \notin guards[r]
    BY <2>2, <2>3, FirstInOrder DEF order
  <2> QED BY <2>2, <2>4, <1>1, <1>3, RunIsTyped DEF LeavingFits, LeavingOf, MayCarry, At, Guards
<1>4. CASE r \in (Task \cap admitted) \ died
  <2> DEFINE order == Order(r)
  <2>1. order = <<"mark", "lease", "holder", "permit", "slot", "claim", "row">>
    BY <1>4, <1>1, RunIsTyped DEF Order
  <2>2. /\ DOMAIN order = 1 .. 7 /\ order[1] = "mark" /\ order[2] = "lease" /\ order[3] = "holder" /\ order[4] = "permit"
        /\ order[5] = "slot" /\ order[6] = "claim" /\ order[7] = "row"
    BY <2>1
  <2> HIDE DEF order
  <2>3. \A g \in guards[r] : \E i \in 1 .. 7 : order[i] = g
    BY <2>2, <1>1, <1>4, RunIsTyped DEF LeavingFits, LeavingOf, MayCarry, At, Guards
  <2>4. /\ NextGuard(r) \in guards[r]
        /\ \E i \in 1 .. 7 : /\ order[i] = NextGuard(r)
                             /\ \A j \in 1 .. i - 1 : order[j] \notin guards[r]
    BY <2>2, <2>3, FirstInOrder DEF order
  <2> QED BY <2>2, <2>4, <1>1, <1>4, RunIsTyped DEF LeavingFits, LeavingOf, MayCarry, At, Guards
<1>5. CASE r \in (Job \cup Delivery) \ died
  <2> DEFINE order == Order(r)
  <2>1. order = <<"mark", "lease", "permit", "row", "claim">>
    BY <1>5, <1>1, RunIsTyped DEF Order
  <2>2. /\ DOMAIN order = 1 .. 5 /\ order[1] = "mark" /\ order[2] = "lease" /\ order[3] = "permit" /\ order[4] = "row"
        /\ order[5] = "claim"
    BY <2>1
  <2> HIDE DEF order
  <2>3. \A g \in guards[r] : \E i \in 1 .. 5 : order[i] = g
    BY <2>2, <1>1, <1>5, RunIsTyped DEF LeavingFits, LeavingOf, MayCarry, At, Guards
  <2>4. /\ NextGuard(r) \in guards[r]
        /\ \E i \in 1 .. 5 : /\ order[i] = NextGuard(r)
                             /\ \A j \in 1 .. i - 1 : order[j] \notin guards[r]
    BY <2>2, <2>3, FirstInOrder DEF order
  <2> QED BY <2>2, <2>4, <1>1, <1>5, RunIsTyped DEF LeavingFits, LeavingOf, MayCarry, At, Guards
<1>6. CASE r \in Edit \cup (Task \ admitted)
  <2> DEFINE order == Order(r)
  <2>1. order = <<"over", "mark", "lease", "holder", "claim", "slot", "resumed", "permit">>
    BY <1>6, <1>1, RunIsTyped DEF Order
  <2>2. /\ DOMAIN order = 1 .. 8 /\ order[1] = "over" /\ order[2] = "mark" /\ order[3] = "lease" /\ order[4] = "holder"
        /\ order[5] = "claim" /\ order[6] = "slot" /\ order[7] = "resumed" /\ order[8] = "permit"
    BY <2>1
  <2> HIDE DEF order
  <2>3. \A g \in guards[r] : \E i \in 1 .. 8 : order[i] = g
    BY <2>2, <1>1, <1>6, RunIsTyped DEF LeavingFits, LeavingOf, MayCarry, At, Guards
  <2>4. /\ NextGuard(r) \in guards[r]
        /\ \E i \in 1 .. 8 : /\ order[i] = NextGuard(r)
                             /\ \A j \in 1 .. i - 1 : order[j] \notin guards[r]
    BY <2>2, <2>3, FirstInOrder DEF order
  <2> QED BY <2>2, <2>4, <1>1, <1>6, RunIsTyped DEF LeavingFits, LeavingOf, MayCarry, At, Guards
<1> QED BY <1>1, <1>2, <1>3, <1>4, <1>5, <1>6, RunIsTyped

\* What LetGo does with the guard it drops.
LEMMA LetGoDoes ==
    ASSUME TypeOK, LeavingFits, NEW r \in Run, LetGo(r)
    PROVE  \E g \in guards[r] :
              /\ At(r, "leaving") /\ g \in Guards
              /\ g = "row" => guards[r] \subseteq {"row"} \cup (IF r \in died THEN {"permit"} ELSE {})
              /\ guards' = [guards EXCEPT ![r] = @ \ {g}]
              /\ IF g = "lease" THEN DropClone(Tree(r), r, "run")
                 ELSE IF g \in {"mark", "holder"} THEN DropMark(Tree(r), r) ELSE UNCHANGED leases
              /\ active' = IF g \in {"resumed", "claim"} THEN active \ {call[r].session} ELSE active
              /\ running' = IF g \in {"slot", "over"} THEN running - 1 ELSE running
              /\ registry' = IF g = "row" THEN registry \ {r} ELSE registry
              /\ IF g = "permit" THEN Report(r) ELSE UNCHANGED sent
              /\ UNCHANGED <<fixed, place, ends, shut, awaited>>
<1> DEFINE g == NextGuard(r)
<1>1. At(r, "leaving") /\ guards[r] # {}
  BY DEF LetGo
<1>2. g \in guards[r] /\ (g = "row" =>
          guards[r] \subseteq {"row"} \cup (IF r \in died THEN {"permit"} ELSE {}))
  BY <1>1, NextGuardIs
<1>3. g \in Guards
  BY <1>2 DEF TypeOK
<1>4. /\ guards' = [guards EXCEPT ![r] = @ \ {g}]
      /\ CASE g = "lease" -> DropClone(Tree(r), r, "run")
           [] g \in {"mark", "holder"} -> DropMark(Tree(r), r)
           [] OTHER -> UNCHANGED leases
      /\ active' = IF g \in {"resumed", "claim"} THEN active \ {call[r].session} ELSE active
      /\ running' = IF g \in {"slot", "over"} THEN running - 1 ELSE running
      /\ registry' = IF g = "row" THEN registry \ {r} ELSE registry
      /\ IF g = "permit" THEN Report(r) ELSE UNCHANGED sent
      /\ UNCHANGED <<fixed, place, ends, shut, awaited>>
  BY DEF LetGo
<1> HIDE DEF g
<1>5. IF g = "lease" THEN DropClone(Tree(r), r, "run")
      ELSE IF g \in {"mark", "holder"} THEN DropMark(Tree(r), r) ELSE UNCHANGED leases
  BY <1>4
<1> QED BY <1>1, <1>2, <1>3, <1>4, <1>5
-----------------------------------------------------------------------------
(* Types. *)

\* The steps that touch the leases keep their types.
LEMMA LeasesTyped ==
    ASSUME TypeOK, NEW r \in Run,
           \/ TryTake(Tree(r), r) \/ Granted(Tree(r), r) \/ StopWaiting(Tree(r), r)
           \/ (\E k \in {"run", "write"} : DropClone(Tree(r), r, k))
           \/ LeaveWriting(r) \/ HoldAs(Tree(r), r) \/ DropMark(Tree(r), r)
           \/ (\A i \in DOMAIN queue[Tree(r)] : queue[Tree(r)][i] # r) /\ Wait(Tree(r), r)
           \/ UNCHANGED leases
    PROVE  LeasesTypeOK'
<1> DEFINE c == Tree(r)
<1>1. c \in Checkout /\ r \in Holder /\ LeasesTypeOK /\ Free \notin Holder
  BY CallIsTyped, RunIsTyped DEF TypeOK
<1> HIDE DEF c
<1>2. CASE TryTake(c, r) \/ Granted(c, r) \/ LeaveWriting(r) \/ UNCHANGED leases
  <2>1. UNCHANGED <<queue, mark>> /\ (lock' = lock \/ lock' = [lock EXCEPT ![c] = r])
    BY <1>2 DEF TryTake, Granted, LeaveWriting, leases
  <2>2. clones' = clones \/ \E ks \in SUBSET {"run", "write"} : clones' = [clones EXCEPT ![r] = ks]
    <3>1. CASE TryTake(c, r) \/ Granted(c, r) \/ UNCHANGED leases
      BY <3>1 DEF TryTake, Granted, leases
    <3>2. CASE LeaveWriting(r)
      BY <1>1, <3>2 DEF LeaveWriting, LeasesTypeOK
    <3> QED BY <1>2, <3>1, <3>2
  <2> QED BY <1>1, <2>1, <2>2 DEF LeasesTypeOK
<1>6. CASE HoldAs(c, r) \/ DropMark(c, r)
  BY <1>1, <1>6 DEF LeasesTypeOK, HoldAs, DropMark
<1>3. CASE StopWaiting(c, r)
  <2>1. UNCHANGED <<clones, mark>> /\ (HandOver(c) \/ LeaveQueue(c, r))
    BY <1>3 DEF StopWaiting
  <2> QED BY <1>1, <2>1, HandOverDoes, LeaveQueueDoes DEF LeasesTypeOK
<1>4. ASSUME NEW k \in {"run", "write"}, DropClone(c, r, k) PROVE LeasesTypeOK'
  <2>1. clones' = [clones EXCEPT ![r] = @ \ {k}] /\ mark' = mark
    BY <1>4 DEF DropClone
  <2>2. HandOver(c) \/ UNCHANGED <<lock, queue>>
    BY <1>4 DEF DropClone
  <2>3. clones' \in [Holder -> SUBSET {"run", "write"}]
    BY <1>1, <2>1 DEF LeasesTypeOK
  <2> QED BY <1>1, <2>1, <2>2, <2>3, HandOverDoes DEF LeasesTypeOK
<1>5. CASE (\A i \in DOMAIN queue[c] : queue[c][i] # r) /\ Wait(c, r)
  <2>1. queue[c] \in Seq(Holder) /\ IsInjective(queue[c])
    BY <1>1 DEF LeasesTypeOK
  <2>2. Append(queue[c], r) \in Seq(Holder) /\ IsInjective(Append(queue[c], r))
    BY <1>1, <1>5, <2>1, QueueGrows
  <2>3. queue' = [queue EXCEPT ![c] = Append(queue[c], r)] /\ UNCHANGED <<lock, clones, mark>>
    BY <1>5 DEF Wait
  <2> QED BY <1>1, <2>2, <2>3 DEF LeasesTypeOK
<1> QED BY <1>2, <1>3, <1>4, <1>5, <1>6 DEF c

\* What a run holds and where it is are of their types, whatever it takes.
LEMMA HoldTyped ==
    ASSUME TypeOK, NEW r \in Run, NEW gs \in SUBSET Guards,
           Hold(r, gs) \/ Claimed(r, gs) \/ guards' = [guards EXCEPT ![r] = Settled(@)] \/ guards' = guards
    PROVE  guards' \in [Run -> SUBSET Guards]
<1>1. guards[r] \subseteq Guards /\ {"claim", "holder"} \subseteq Guards
  BY DEF TypeOK, Guards
<1>2. \E hs \in SUBSET Guards : guards' = [guards EXCEPT ![r] = hs] \/ guards' = guards
  <2>1. guards[r] \cup gs \in SUBSET Guards /\ (guards[r] \ {"resumed"}) \cup {"claim"} \cup gs \in SUBSET Guards
        /\ Settled(guards[r]) \in SUBSET Guards
    BY <1>1 DEF Settled
  <2> QED BY <2>1 DEF Hold, Claimed
<1> QED BY <1>2 DEF TypeOK

\* A run goes from place to place.
LEMMA GoTyped ==
    ASSUME TypeOK, NEW r \in Run, NEW p \in Places, Go(r, p) \/ place' = place
    PROVE  place' \in [Run -> Places]
BY DEF TypeOK, Go

\* What a run takes is of its type: it never queues twice for one lease.
LEMMA GetsTyped ==
    ASSUME IInv, NEW r \in Run, Gets(r)
    PROVE  TypeOK'
<1>0. TypeOK /\ Tree(r) \in Checkout /\ Free \notin Run
  BY CallIsTyped, RunIsTyped DEF IInv
<1> DEFINE PG == place' \in [Run -> Places] /\ guards' \in [Run -> SUBSET Guards]
<1>1. CASE Ask(r)
  <2>1. /\ UNCHANGED <<leases, call, admitted, ends, pools, reg, sent>> /\ r \in Task
    BY <1>1 DEF Ask
  <2>2. detached' \subseteq Task /\ detached \subseteq detached'
    BY <1>0, <1>1 DEF Ask, Reserve, TypeOK
  <2>3. PG
    <3>1. Go(r, "gone") \/ Go(r, "look")
      BY <1>1 DEF Ask, Reserve
    <3>2. Hold(r, {"permit"}) \/ Hold(r, {}) \/ guards' = guards
      BY <1>1 DEF Ask, Reserve
    <3> QED BY <1>0, <3>1, <3>2, GoTyped, HoldTyped DEF Places, Guards
  <2>4. ctx' \in [Run -> Contexts]
    <3>1. ctx' = ctx \/ \E bg \in BOOLEAN : ctx' = [ctx EXCEPT ![r] = Context(r, bg)]
      BY <1>1 DEF Ask, Reserve
    <3>2. \A bg \in BOOLEAN : Context(r, bg) \in Contexts
      BY <1>0, <1>1, ContextIsTyped DEF Ask
    <3> QED BY <1>0, <3>1, <3>2 DEF TypeOK, Contexts
  <2>5. LeasesTypeOK'
    BY <1>0, <2>1, LeasesTyped
  <2> QED BY <1>0, <2>1, <2>2, <2>3, <2>4, <2>5 DEF TypeOK, Contexts, ends, pools, reg, sent
<1>2. CASE Enter(r)
  <2>1. UNCHANGED <<leases, fixed, ends, reg, sent>>
    BY <1>2 DEF Enter
  <2>2. PG
    <3>1. Go(r, "leaving") \/ Go(r, "checking")
      BY <1>2 DEF Enter
    <3>2. \E gs \in SUBSET {"resumed", "over", "slot"} : Hold(r, gs) \/ guards' = guards
      BY <1>2 DEF Enter
    <3> QED BY <1>0, <3>1, <3>2, GoTyped, HoldTyped DEF Places, Guards
  <2>3. active' \subseteq Session /\ running' \in Nat
    BY <1>0, <1>2, CallIsTyped DEF Enter, TypeOK
  <2>4. LeasesTypeOK'
    BY <1>0, <2>1, LeasesTyped
  <2> QED BY <1>0, <2>1, <2>2, <2>3, <2>4 DEF TypeOK, fixed, ends, reg, sent
<1>3. CASE Admit(r)
  <2>1. UNCHANGED <<leases, call, detached, cancelled, cut, died, running, shut, awaited, sent>>
    BY <1>3 DEF Admit
  <2>2. PG
    <3>1. Go(r, "leaving") \/ Go(r, "acquire")
      BY <1>3 DEF Admit, Register
    <3>2. Claimed(r, {"row"}) \/ Claimed(r, {})
      BY <1>3 DEF Admit
    <3> QED BY <1>0, <3>1, <3>2, GoTyped, HoldTyped DEF Places, Guards
  <2>3. active' \subseteq Session
    BY <1>0, <1>3, CallIsTyped DEF Admit, TypeOK
  <2>4. /\ admitted \subseteq admitted' /\ admitted' \subseteq admitted \cup (detached \cap {r})
        /\ stop' \subseteq Run /\ registry' \subseteq registry \cup (admitted' \cap {r})
    BY <1>0, <1>3 DEF Admit, Register, TypeOK
  <2>5. ctx' \in [Run -> Contexts]
    BY <1>0, <1>3 DEF Admit, Register, TypeOK, Contexts
  <2>6. LeasesTypeOK'
    BY <1>0, <2>1, LeasesTyped
  <2> QED BY <1>0, <2>1, <2>2, <2>3, <2>4, <2>5, <2>6 DEF TypeOK, Contexts, sent
<1>4. CASE AskJob(r)
  <2>1. UNCHANGED <<leases, call, detached, ends, pools, shut, awaited, sent>> /\ r \in Job
    BY <1>4 DEF AskJob
  <2>2. PG
    <3>1. Go(r, "gone") \/ Go(r, "acquire")
      BY <1>4 DEF AskJob
    <3>2. Hold(r, {"permit", "row"}) \/ guards' = guards
      BY <1>4 DEF AskJob
    <3> QED BY <1>0, <3>1, <3>2, GoTyped, HoldTyped DEF Places, Guards
  <2>3. /\ admitted \subseteq admitted' /\ admitted' \subseteq admitted \cup {r}
        /\ registry' \subseteq registry \cup (admitted' \cap {r})
    BY <1>4 DEF AskJob
  <2>4. ctx' \in [Run -> Contexts]
    BY <1>0, <1>4 DEF AskJob, NoContext, TypeOK, Contexts
  <2>5. LeasesTypeOK'
    BY <1>0, <2>1, LeasesTyped
  <2> QED BY <1>0, <2>1, <2>2, <2>3, <2>4, <2>5 DEF TypeOK, Contexts, ends, pools, sent
<1>5. CASE Deliver(r)
  <2>1. UNCHANGED <<leases, call, detached, admitted, ends, running, reg, sent>>
    BY <1>5 DEF Deliver
  <2>2. PG
    <3>1. Go(r, "acquire") /\ Hold(r, {"claim"})
      BY <1>5 DEF Deliver
    <3> QED BY <1>0, <3>1, GoTyped, HoldTyped DEF Places, Guards
  <2>3. active' \subseteq Session
    BY <1>0, <1>5, CallIsTyped DEF Deliver, TypeOK
  <2>4. ctx' \in [Run -> Contexts]
    BY <1>0, <1>5 DEF Deliver, TypeOK, Contexts
  <2>5. LeasesTypeOK'
    BY <1>0, <2>1, LeasesTyped
  <2> QED BY <1>0, <2>1, <2>2, <2>3, <2>4, <2>5 DEF TypeOK, Contexts, ends, reg, sent
<1>6. CASE EditTree(r)
  <2>1. UNCHANGED <<call, detached, admitted, ends, pools, reg, sent>> /\ r \in Edit
    BY <1>6 DEF EditTree
  <2>2. PG
    <3>1. Go(r, "gone") \/ Go(r, "turn")
      BY <1>6 DEF EditTree
    <3>2. Hold(r, {"lease"}) \/ guards' = guards
      BY <1>6 DEF EditTree
    <3> QED BY <1>0, <3>1, <3>2, GoTyped, HoldTyped DEF Places, Guards
  <2>3. ctx' \in [Run -> Contexts]
    <3>1. ctx' = ctx \/ ctx' = [ctx EXCEPT ![r].inside = {Root}]
      BY <1>6 DEF EditTree
    <3>2. {Root} \in SUBSET (Run \cup Tops)
      BY DEF Tops
    <3>3. ctx \in [Run -> Contexts]
      BY <1>0 DEF TypeOK, Contexts
    <3>4. [ctx[r] EXCEPT !.inside = {Root}] \in Contexts
      BY <3>2, <3>3 DEF Contexts
    <3> QED BY <3>1, <3>3, <3>4
  <2>4. LeasesTypeOK'
    <3>1. Tree(r) = Home
      BY <1>0, <2>1, CallIsTyped
    <3>2. UNCHANGED leases \/ TryTake(Tree(r), r)
      BY <1>6, <3>1 DEF EditTree
    <3> QED BY <1>0, <3>2, LeasesTyped
  <2> QED BY <1>0, <2>1, <2>2, <2>3, <2>4 DEF TypeOK, Contexts, ends, pools, reg, sent
<1>7. CASE Acquire(r) \/ Wake(r) \/ Mark(r) \/ Validate(r)
  <2>1. UNCHANGED <<fixed, ends, pools, reg, sent>>
    BY <1>7 DEF Acquire, Wake, Mark, Validate
  <2>2. PG
    <3>1. \E p \in Places : Go(r, p)
      BY <1>7 DEF Acquire, Wake, Mark, Validate, Places
    <3>2. \E gs \in SUBSET Guards : \/ Hold(r, gs) \/ guards' = [guards EXCEPT ![r] = Settled(@)]
                                  \/ guards' = guards
      BY <1>7 DEF Acquire, Wake, Mark, Validate, Guards
    <3> QED BY <1>0, <3>1, <3>2, GoTyped, HoldTyped
  <2>3. LeasesTypeOK'
    <3>1. At(r, "acquire") => \A i \in DOMAIN queue[Tree(r)] : queue[Tree(r)][i] # r
      BY <1>0 DEF IInv, LocksFit, Waiting, At
    <3>2. \/ UNCHANGED leases \/ TryTake(Tree(r), r) \/ (Wait(Tree(r), r) /\ At(r, "acquire"))
          \/ Granted(Tree(r), r) \/ HoldAs(Tree(r), r)
      BY <1>7 DEF Acquire, Wake, Mark, Validate
    <3> QED BY <1>0, <3>1, <3>2, LeasesTyped
  <2> QED BY <1>0, <2>1, <2>2, <2>3 DEF TypeOK, fixed, ends, pools, reg, sent
<1> QED BY <1>1, <1>2, <1>3, <1>4, <1>5, <1>6, <1>7 DEF Gets

\* A run that only moves disturbs no type.
LEMMA MovesTyped ==
    ASSUME TypeOK, NEW r \in Run, Moves(r)
    PROVE  TypeOK'
<1>1. /\ UNCHANGED <<fixed, guards, mark, active, running, registry, shut, awaited, sent>>
      /\ Go(r, "enter") \/ Go(r, "leaving") \/ Go(r, "stopping")
  BY MovesDo
<1>2. place' \in [Run -> Places]
  BY <1>1, GoTyped DEF Places
<1>3. LeasesTypeOK'
  <2>1. UNCHANGED leases \/ StopWaiting(Tree(r), r) \/ LeaveWriting(r)
    BY DEF Moves, Look, Decline, Finish, GiveUp, StopEarly, Halt, HaltDelivery, HaltJob, Panic,
           Stopped, Unwind, MayWriteOn
  <2> QED BY <2>1, LeasesTyped
<1>4. stop' \subseteq Run /\ cancelled' \subseteq Run /\ cut' \subseteq Run /\ died' \subseteq admitted
  <2>1. CASE UNCHANGED ends
    BY <2>1 DEF ends, TypeOK
  <2>2. CASE Halt(r)
    BY <2>2 DEF Halt, Cancels, Stops, Hanging, Drops, Within, TypeOK, Run
  <2>3. CASE HaltDelivery(r) \/ Panic(r)
    BY <2>3 DEF HaltDelivery, Panic, Drops, Within, TypeOK, Run
  <2>4. UNCHANGED ends \/ Halt(r) \/ HaltDelivery(r) \/ Panic(r)
    BY DEF Moves, Look, Decline, Finish, GiveUp, StopEarly, HaltJob, Stopped, Unwind
  <2> QED BY <2>1, <2>2, <2>3, <2>4
<1> QED BY <1>1, <1>2, <1>3, <1>4 DEF TypeOK, fixed, sent

\* What is let go was counted: the slot counter stays a natural number.
LEMMA LetGoTyped ==
    ASSUME IInv, NEW r \in Run, LetGo(r)
    PROVE  TypeOK'
<1>0. TypeOK /\ LeavingFits
  BY DEF IInv
<1>1. PICK g \in guards[r] :
          /\ At(r, "leaving") /\ g \in Guards
          /\ guards' = [guards EXCEPT ![r] = @ \ {g}]
          /\ IF g = "lease" THEN DropClone(Tree(r), r, "run")
             ELSE IF g \in {"mark", "holder"} THEN DropMark(Tree(r), r) ELSE UNCHANGED leases
          /\ active' = IF g \in {"resumed", "claim"} THEN active \ {call[r].session} ELSE active
          /\ running' = IF g \in {"slot", "over"} THEN running - 1 ELSE running
          /\ registry' = IF g = "row" THEN registry \ {r} ELSE registry
          /\ IF g = "permit" THEN Report(r) ELSE UNCHANGED sent
          /\ UNCHANGED <<fixed, place, ends, shut, awaited>>
  BY <1>0, LetGoDoes
<1>2. LeasesTypeOK'
  BY <1>0, <1>1, LeasesTyped
<1>3. guards' \in [Run -> SUBSET Guards]
  BY <1>0, <1>1 DEF TypeOK
<1>4. running' \in Nat
  <2>1. CASE g \in {"slot", "over"}
    <3>1. r \in Holding({"slot", "over"})
      BY <1>1, <2>1 DEF Holding
    <3>2. running = Cardinality(Holding({"slot", "over"})) /\ IsFiniteSet(Holding({"slot", "over"}))
      BY DEF IInv, SlotsFit, SlotsAreCounted, Counts, Holding
    <3>3. running \in Nat /\ running # 0
      BY <3>1, <3>2, FS_EmptySet, FS_CardinalityType
    <3> QED BY <1>1, <2>1, <3>3
  <2> QED BY <1>0, <1>1, <2>1 DEF TypeOK
<1>5. channel' \subseteq admitted /\ notices' \in [Run -> Nat]
  BY <1>0, <1>1 DEF Report, sent, TypeOK
<1>6. active' \subseteq Session /\ registry' \subseteq admitted
  BY <1>0, <1>1 DEF TypeOK
<1> QED BY <1>0, <1>1, <1>2, <1>3, <1>4, <1>5, <1>6 DEF TypeOK, fixed, ends

\* Nor do the steps of the callers and the driver.
LEMMA StaysTyped ==
    ASSUME IInv, Stays
    PROVE  TypeOK'
<1>0. TypeOK
  BY DEF IInv
<1>1. ASSUME NEW r \in Run, WriteEnds(r) PROVE TypeOK'
  <2>1. DropClone(Tree(r), r, "write") /\ UNCHANGED <<fixed, place, guards, ends, pools, reg, sent>>
    BY <1>1 DEF WriteEnds
  <2>2. LeasesTypeOK'
    BY <1>0, <2>1, LeasesTyped
  <2> QED BY <1>0, <2>1, <2>2 DEF TypeOK, fixed, ends, pools, reg, sent
<1>2. ASSUME NEW r \in Run, CancelTask(r) \/ CancelDelivery(r) \/ Receive(r) PROVE TypeOK'
  <2>1. CASE CancelTask(r) \/ Receive(r)
    BY <1>0, <2>1 DEF CancelTask, Receive, Stops, TypeOK, LeasesTypeOK, leases, fixed, ends, pools, reg, sent
  <2>2. CASE CancelDelivery(r)
    <3>1. UNCHANGED <<leases, fixed, place, guards, cut, died, pools, reg, sent>>
      BY <2>2 DEF CancelDelivery
    <3>2. cancelled' \subseteq Run /\ stop' \subseteq Run
      BY <1>0, <2>2 DEF CancelDelivery, Cancels, Stops, Hanging, TypeOK, Run
    <3> QED BY <1>0, <3>1, <3>2 DEF TypeOK, LeasesTypeOK, leases, fixed, pools, reg, sent
  <2> QED BY <1>2, <2>1, <2>2
<1>3. ASSUME NEW h \in {Root, Person}, Abandon(h) PROVE TypeOK'
  BY <1>0, <1>3 DEF Abandon, Drops, Within, TypeOK, LeasesTypeOK, leases, fixed, pools, reg, sent
<1>4. CASE AbortAll \/ Shutdown \/ ShutdownReturns
  BY <1>0, <1>4 DEF AbortAll, Shutdown, ShutdownReturns, Stops, TypeOK, LeasesTypeOK, leases, fixed,
                    ends, pools, reg, sent, Run
<1> QED BY <1>1, <1>2, <1>3, <1>4 DEF Stays

\* Every step keeps the types.
LEMMA NextTyped ==
    ASSUME IInv, Next
    PROVE  TypeOK'
<1>0. TypeOK
  BY DEF IInv
<1>1. ASSUME NEW r \in Run, Leave(r) PROVE TypeOK'
  <2>1. Go(r, "gone") /\ UNCHANGED <<leases, fixed, guards, cancelled, died, pools, reg, sent>>
        /\ stop' \subseteq stop /\ cut' \subseteq cut
    BY <1>1 DEF Leave
  <2> QED BY <1>0, <2>1, GoTyped DEF Places, TypeOK, LeasesTypeOK, leases, fixed, pools, reg, sent
<1> QED BY <1>0, <1>1, NextIsOne, GetsTyped, MovesTyped, LetGoTyped, StaysTyped
-----------------------------------------------------------------------------
(* Places and guards. *)

\* Only the run that steps goes anywhere or takes or drops a guard.
LEMMA OthersKeep ==
    ASSUME TypeOK, NEW r \in Run, Gets(r) \/ Moves(r) \/ LetGo(r) \/ Leave(r)
    PROVE  /\ UNCHANGED call
           /\ \A q \in Run \ {r} : /\ place'[q] = place[q] /\ guards'[q] = guards[q]
                                   /\ q \in detached' <=> q \in detached
                                   /\ q \in admitted' <=> q \in admitted
                                   /\ notices'[q] = notices[q] /\ ctx'[q] = ctx[q]
                                   /\ q \in died' <=> q \in died
<1> USE DEF TypeOK, Go, fixed, sent, ends
<1>1. CASE Ask(r)
  BY <1>1 DEF Ask, Reserve, Hold
<1>2. CASE Enter(r)
  BY <1>2 DEF Enter, Hold
<1>3. CASE Admit(r)
  BY <1>3 DEF Admit, Register, Claimed
<1>4. CASE AskJob(r)
  BY <1>4 DEF AskJob, Hold
<1>5. CASE Deliver(r) \/ EditTree(r)
  BY <1>5 DEF Deliver, EditTree, Hold
<1>6. CASE Acquire(r) \/ Wake(r) \/ Mark(r) \/ Validate(r)
  BY <1>6 DEF Acquire, Wake, Mark, Validate, Hold
<1>7. CASE Moves(r)
  <2>1. UNCHANGED <<fixed, guards, sent>> /\ \E p \in Places : Go(r, p)
    BY <1>7, MovesDo DEF Places
  <2>2. \A q \in Run \ {r} : q \in died' <=> q \in died
    <3>1. CASE Panic(r)
      BY <3>1 DEF Panic
    <3>2. CASE ~Panic(r)
      BY <1>7, <3>2 DEF Moves, Look, Decline, Finish, GiveUp, StopEarly, Halt, HaltDelivery, HaltJob,
                        Stopped, Unwind
    <3> QED BY <3>1, <3>2
  <2> QED BY <2>1, <2>2
<1>8. CASE LetGo(r) \/ Leave(r)
  BY <1>8 DEF LetGo, Leave, Report
<1> QED BY <1>1, <1>2, <1>3, <1>4, <1>5, <1>6, <1>7, <1>8 DEF Gets

\* A run that takes nothing more and goes to let go holds what it may.
LEMMA LeavesFitting ==
    ASSUME TypeOK, NEW r \in Run, PlaceOf(r), GuardsOf(r), place[r] \in Underway,
           Go(r, "leaving"), UNCHANGED <<call, guards, detached, admitted>>
    PROVE  PlaceOf(r)' /\ GuardsOf(r)' /\ LeavingOf(r)'
<1>1. place'[r] = "leaving" /\ guards'[r] = guards[r]
  BY DEF Go, TypeOK
<1>2. MayCarry(r)'
  BY <1>1, RunIsTyped DEF PlaceOf, GuardsOf, MayCarry, Carries, Underway, Inside
<1>3. PlaceOf(r)'
  BY <1>1 DEF PlaceOf, Inside
<1> QED BY <1>1, <1>2, <1>3 DEF GuardsOf, LeavingOf, Underway, Inside

\* A run that takes something then holds what its new place says.
LEMMA GetsFits ==
    ASSUME TypeOK, NEW r \in Run, PlaceOf(r), GuardsOf(r), LeavingOf(r), Gets(r)
    PROVE  PlaceOf(r)' /\ GuardsOf(r)' /\ LeavingOf(r)'
<1> USE DEF Go, At, Hold
<1>0. /\ r \in Task \/ r \in Job \/ r \in Delivery \/ r \in Edit
      /\ r \in Task => r \notin Job /\ r \notin Delivery /\ r \notin Edit
      /\ r \in Job => r \notin Delivery /\ r \notin Edit
      /\ r \in Delivery => r \notin Edit
      /\ place \in [Run -> Places] /\ guards \in [Run -> SUBSET Guards]
      /\ r \in detached => r \in Task
      /\ r \in admitted => r \in detached \/ r \in Job
      /\ call[r].writes \in BOOLEAN /\ call[r].resumes \in BOOLEAN
  BY RunIsTyped, CallIsTyped DEF TypeOK
<1>1. CASE Ask(r)
  <2>1. r \in Task /\ place[r] = "idle" /\ UNCHANGED <<call, admitted>> /\ r \notin admitted
    BY <1>1 DEF Ask, PlaceOf, Inside
  <2>2. CASE place'[r] = "gone" /\ guards' = guards /\ detached' = detached
    BY <1>0, <2>1, <2>2 DEF PlaceOf, GuardsOf, LeavingOf, Underway, Inside
  <2>3. ASSUME NEW bg \in BOOLEAN, Reserve(r, bg)
        PROVE  PlaceOf(r)' /\ GuardsOf(r)' /\ LeavingOf(r)'
    <3>1. /\ place'[r] = "look" /\ detached' = IF bg THEN detached \cup {r} ELSE detached
          /\ guards'[r] = IF bg THEN {"permit"} ELSE {}
      BY <1>0, <2>1, <2>3 DEF Reserve, GuardsOf
    <3>2. r \notin detached
      BY <2>1 DEF PlaceOf
    <3> QED BY <1>0, <2>1, <3>1, <3>2 DEF PlaceOf, GuardsOf, LeavingOf, Carries, Underway, Inside
  <2>4. \/ place'[r] = "gone" /\ guards' = guards /\ detached' = detached
        \/ \E bg \in BOOLEAN : Reserve(r, bg)
    BY <1>0, <1>1 DEF Ask
  <2> QED BY <2>2, <2>3, <2>4
<1>2. CASE Enter(r)
  <2>1. place[r] = "enter" /\ UNCHANGED <<call, detached, admitted>>
    BY <1>2 DEF Enter, fixed
  <2>2. Carries(r) /\ r \in Task /\ r \notin admitted
    BY <1>0, <2>1 DEF GuardsOf, PlaceOf, Underway, Inside
  <2>3. LET claim == IF call[r].resumes THEN {"resumed"} ELSE {} IN
        \/ place'[r] = "leaving" /\ guards'[r] = guards[r]
        \/ place'[r] = "leaving" /\ guards'[r] = guards[r] \cup claim \cup {"over"}
        \/ place'[r] = "checking" /\ guards'[r] = guards[r] \cup claim \cup {"slot"}
    BY <1>0, <1>2 DEF Enter
  <2>4. PlaceOf(r)'
    BY <1>0, <2>1, <2>2, <2>3 DEF PlaceOf, Inside
  <2>5. CASE place'[r] = "leaving"
    <3>1. MayCarry(r)'
      BY <1>0, <2>1, <2>2, <2>3, <2>5 DEF Carries, MayCarry, Inside
    <3> QED BY <2>4, <2>5, <3>1 DEF GuardsOf, LeavingOf, Underway, Inside
  <2>6. CASE place'[r] = "checking"
    <3>1. Carries(r)'
      BY <1>0, <2>1, <2>2, <2>3, <2>6 DEF Carries, Inside
    <3> QED BY <2>4, <2>6, <3>1 DEF GuardsOf, LeavingOf
  <2> QED BY <2>3, <2>5, <2>6
<1>3. CASE Admit(r)
  <2>1. place[r] = "checking" /\ UNCHANGED <<call, detached>>
    BY <1>3 DEF Admit
  <2>2. Carries(r) /\ r \in Task /\ r \notin admitted
    BY <1>0, <2>1 DEF GuardsOf, PlaceOf, Underway, Inside
  <2>3. CASE r \in detached /\ Register(r) /\ Claimed(r, {"row"})
    <3>1. /\ place'[r] = "acquire" /\ r \in admitted'
          /\ guards'[r] = (guards[r] \ {"resumed"}) \cup {"claim"} \cup {"row"}
      BY <1>0, <2>3 DEF Register, Claimed
    <3>2. Carries(r)'
      BY <1>0, <2>1, <2>2, <2>3, <3>1 DEF Carries, Inside
    <3>3. PlaceOf(r)'
      BY <1>0, <2>1, <2>2, <2>3, <3>1 DEF PlaceOf, Inside
    <3> QED BY <3>1, <3>2, <3>3 DEF GuardsOf, LeavingOf
  <2>4. CASE Go(r, "leaving") /\ Claimed(r, {}) /\ admitted' = admitted
    <3>1. /\ place'[r] = "leaving"
          /\ guards'[r] = (guards[r] \ {"resumed"}) \cup {"claim"} \cup {}
      BY <1>0, <2>4 DEF Claimed
    <3>2. MayCarry(r)'
      BY <1>0, <2>1, <2>2, <2>4, <3>1 DEF Carries, MayCarry, Inside
    <3>3. PlaceOf(r)'
      BY <1>0, <2>1, <2>2, <2>4, <3>1 DEF PlaceOf, Inside
    <3> QED BY <3>1, <3>2, <3>3 DEF GuardsOf, LeavingOf, Underway, Inside
  <2>5. CASE r \notin detached /\ Go(r, "acquire") /\ Claimed(r, {}) /\ admitted' = admitted
    <3>1. /\ place'[r] = "acquire"
          /\ guards'[r] = (guards[r] \ {"resumed"}) \cup {"claim"} \cup {}
      BY <1>0, <2>5 DEF Claimed
    <3>2. Carries(r)'
      BY <1>0, <2>1, <2>2, <2>5, <3>1 DEF Carries, Inside
    <3>3. PlaceOf(r)'
      BY <1>0, <2>1, <2>2, <2>5, <3>1 DEF PlaceOf, Inside
    <3> QED BY <3>1, <3>2, <3>3 DEF GuardsOf, LeavingOf
  <2> QED BY <1>3, <2>3, <2>4, <2>5 DEF Admit
<1>4. CASE AskJob(r)
  <2>1. place[r] = "idle" /\ r \in Job /\ UNCHANGED <<call, detached>> /\ guards[r] = {}
    BY <1>4 DEF AskJob, GuardsOf
  <2>2. CASE place'[r] = "gone" /\ UNCHANGED <<guards, admitted>>
    BY <1>0, <2>1, <2>2 DEF PlaceOf, GuardsOf, LeavingOf, Underway, Inside
  <2>3. CASE place'[r] = "acquire" /\ guards'[r] = {"permit", "row"} /\ r \in admitted'
    <3>1. Carries(r)' /\ PlaceOf(r)'
      BY <1>0, <2>1, <2>3 DEF Carries, PlaceOf, Inside
    <3> QED BY <2>3, <3>1 DEF GuardsOf, LeavingOf
  <2> QED BY <1>0, <1>4, <2>1, <2>2, <2>3 DEF AskJob
<1>5. CASE Deliver(r)
  <2>1. /\ place[r] = "idle" /\ r \in Delivery /\ UNCHANGED <<call, detached, admitted>>
        /\ place'[r] = "acquire" /\ guards'[r] = {"claim"}
    BY <1>0, <1>5 DEF Deliver, GuardsOf
  <2>2. Carries(r)' /\ PlaceOf(r)'
    BY <1>0, <2>1 DEF Carries, PlaceOf, Inside
  <2> QED BY <2>1, <2>2 DEF GuardsOf, LeavingOf
<1>6. CASE EditTree(r)
  <2>1. place[r] = "idle" /\ r \in Edit /\ UNCHANGED <<call, detached, admitted>> /\ guards[r] = {}
    BY <1>6 DEF EditTree, GuardsOf
  <2>2. CASE place'[r] = "gone" /\ UNCHANGED guards
    BY <1>0, <2>1, <2>2 DEF PlaceOf, GuardsOf, LeavingOf, Underway, Inside
  <2>3. CASE place'[r] = "turn" /\ guards'[r] = {"lease"}
    <3>1. Carries(r)' /\ PlaceOf(r)'
      BY <1>0, <2>1, <2>3 DEF Carries, PlaceOf, Inside
    <3> QED BY <2>3, <3>1 DEF GuardsOf, LeavingOf
  <2> QED BY <1>0, <1>6, <2>1, <2>2, <2>3 DEF EditTree
<1>7. CASE Acquire(r)
  <2>1. place[r] = "acquire" /\ UNCHANGED <<call, detached, admitted>>
    BY <1>7 DEF Acquire, fixed
  <2>2. Carries(r) /\ r \notin Edit
    BY <1>0, <2>1 DEF GuardsOf, PlaceOf, Underway, Inside
  <2>3. \/ ~call[r].writes /\ place'[r] = "validating" /\ guards'[r] = guards[r]
        \/ call[r].writes /\ place'[r] = "marking" /\ guards'[r] = guards[r] \cup {"lease"}
        \/ call[r].writes /\ place'[r] = "queued" /\ guards'[r] = guards[r]
        \/ Go(r, "leaving") /\ UNCHANGED guards
    BY <1>0, <1>7 DEF Acquire
  <2>4. CASE Go(r, "leaving") /\ UNCHANGED guards
    BY <2>1, <2>4, LeavesFitting DEF Underway, Inside
  <2>5. CASE ~call[r].writes /\ place'[r] = "validating" /\ guards'[r] = guards[r]
    <3>1. Carries(r)' /\ PlaceOf(r)'
      BY <1>0, <2>1, <2>2, <2>5 DEF Carries, PlaceOf, Inside
    <3> QED BY <2>5, <3>1 DEF GuardsOf, LeavingOf
  <2>6. CASE call[r].writes /\ place'[r] = "marking" /\ guards'[r] = guards[r] \cup {"lease"}
    <3>1. Carries(r)' /\ PlaceOf(r)'
      BY <1>0, <2>1, <2>2, <2>6 DEF Carries, PlaceOf, Inside
    <3> QED BY <2>6, <3>1 DEF GuardsOf, LeavingOf
  <2>7. CASE call[r].writes /\ place'[r] = "queued" /\ guards'[r] = guards[r]
    <3>1. Carries(r)' /\ PlaceOf(r)'
      BY <1>0, <2>1, <2>2, <2>7 DEF Carries, PlaceOf, Inside
    <3> QED BY <2>7, <3>1 DEF GuardsOf, LeavingOf
  <2> QED BY <2>3, <2>4, <2>5, <2>6, <2>7
<1>8. CASE Wake(r) \/ Mark(r)
  <2>1. UNCHANGED <<call, detached, admitted>>
    BY <1>8 DEF Wake, Mark, fixed
  <2>2. place[r] \in Underway /\ call[r].writes /\ r \notin Edit
    BY <1>0, <1>8 DEF Wake, Mark, PlaceOf, Underway, Inside
  <2>3. \/ place[r] = "queued" /\ place'[r] = "marking" /\ guards'[r] = guards[r] \cup {"lease"}
        \/ /\ place[r] = "marking" /\ place'[r] = IF r \in Job THEN "turn" ELSE "validating"
           /\ guards'[r] = guards[r] \cup {"mark"}
    BY <1>0, <1>8 DEF Wake, Mark
  <2>4. PlaceOf(r)'
    BY <1>0, <2>1, <2>2, <2>3 DEF PlaceOf, Inside
  <2>5. Carries(r)'
    BY <1>0, <2>1, <2>2, <2>3 DEF GuardsOf, Carries, Inside
  <2> QED BY <2>3, <2>4, <2>5 DEF GuardsOf, LeavingOf
<1>9. CASE Validate(r)
  <2>1. place[r] = "validating" /\ UNCHANGED <<call, detached, admitted>>
    BY <1>9 DEF Validate, fixed
  <2>2. Carries(r) /\ r \notin Edit
    BY <1>0, <2>1 DEF GuardsOf, PlaceOf, Underway, Inside
  <2>3. CASE Go(r, "leaving") /\ UNCHANGED guards
    BY <2>1, <2>3, LeavesFitting DEF Underway, Inside
  <2>4. CASE Go(r, "turn") /\ guards' = IF r \in Task THEN [guards EXCEPT ![r] = Settled(@)] ELSE guards
    <3>1. place'[r] = "turn" /\ guards'[r] = IF r \in Task THEN Settled(guards[r]) ELSE guards[r]
      BY <1>0, <2>4
    <3>2. guards'[r] = IF r \in Task /\ call[r].writes THEN (guards[r] \ {"mark"}) \cup {"holder"}
                       ELSE guards[r]
      BY <1>0, <2>1, <2>2, <3>1 DEF Settled, Carries
    <3>3. PlaceOf(r)'
      BY <1>0, <2>1, <2>2, <3>1 DEF PlaceOf, Inside
    <3>4. Carries(r)'
      BY <1>0, <2>1, <2>2, <3>1, <3>2 DEF Carries, Inside
    <3> QED BY <3>1, <3>3, <3>4 DEF GuardsOf, LeavingOf
  <2> QED BY <1>9, <2>3, <2>4 DEF Validate
<1> QED BY <1>1, <1>2, <1>3, <1>4, <1>5, <1>6, <1>7, <1>8, <1>9 DEF Gets

\* A run that moves holds what its new place says.
LEMMA MovesFit ==
    ASSUME TypeOK, NEW r \in Run, PlaceOf(r), GuardsOf(r), LeavingOf(r), Moves(r)
    PROVE  PlaceOf(r)' /\ GuardsOf(r)' /\ LeavingOf(r)'
<1>1. /\ UNCHANGED <<call, guards, detached, admitted>> /\ place[r] \in Underway
      /\ \/ At(r, "look") /\ Go(r, "enter")
         \/ Go(r, "leaving")
         \/ r \in admitted \cup Delivery /\ At(r, "turn") /\ Go(r, "stopping")
  BY MovesDo DEF fixed
<1>2. CASE Go(r, "leaving")
  BY <1>1, <1>2, LeavesFitting
<1>3. CASE At(r, "look") /\ Go(r, "enter")
  <2>1. place[r] = "look" /\ place'[r] = "enter" /\ guards'[r] = guards[r] /\ Carries(r)
    BY <1>1, <1>3 DEF At, Go, TypeOK, GuardsOf
  <2>2. Carries(r)'
    BY <1>1, <2>1 DEF Carries, Inside
  <2>3. PlaceOf(r)'
    BY <1>1, <2>1 DEF PlaceOf, Inside
  <2> QED BY <2>1, <2>2, <2>3 DEF GuardsOf, LeavingOf
<1>4. CASE r \in admitted \cup Delivery /\ At(r, "turn") /\ Go(r, "stopping")
  <2>1. place[r] = "turn" /\ place'[r] = "stopping" /\ guards'[r] = guards[r] /\ Carries(r)
    BY <1>1, <1>4 DEF At, Go, TypeOK, GuardsOf
  <2>2. Carries(r)'
    BY <1>1, <2>1 DEF Carries, Inside
  <2>3. r \notin Edit
    BY <1>4, RunIsTyped DEF TypeOK
  <2>4. PlaceOf(r)'
    BY <1>1, <2>1, <2>3 DEF PlaceOf, Inside
  <2> QED BY <2>1, <2>2, <2>4 DEF GuardsOf, LeavingOf
<1> QED BY <1>1, <1>2, <1>3, <1>4

\* A run that lets go, one guard at a time, holds what it may until it is gone.
LEMMA LeavingFit ==
    ASSUME TypeOK, LeavingFits, NEW r \in Run, PlaceOf(r), LetGo(r) \/ Leave(r)
    PROVE  PlaceOf(r)' /\ GuardsOf(r)' /\ LeavingOf(r)'
<1>1. CASE LetGo(r)
  <2>1. PICK g \in guards[r] : /\ At(r, "leaving") /\ guards' = [guards EXCEPT ![r] = @ \ {g}]
                               /\ UNCHANGED <<fixed, place, ends, shut, awaited>>
    BY <1>1, LetGoDoes
  <2>2. place[r] = "leaving" /\ place' = place /\ guards'[r] = guards[r] \ {g}
        /\ UNCHANGED <<call, detached, admitted>>
    BY <2>1 DEF TypeOK, At, fixed
  <2>3. MayCarry(r)
    BY <2>2 DEF LeavingFits, LeavingOf
  <2>4. MayCarry(r)'
    BY <2>2, <2>3 DEF MayCarry
  <2>5. PlaceOf(r)'
    BY <2>2 DEF PlaceOf
  <2> QED BY <2>2, <2>4, <2>5 DEF GuardsOf, LeavingOf, Underway, Inside
<1>2. CASE Leave(r)
  <2>1. place[r] = "leaving" /\ place'[r] = "gone" /\ guards'[r] = {} 
        /\ UNCHANGED <<call, detached, admitted>>
    BY <1>2 DEF Leave, At, Go, TypeOK, fixed
  <2>2. PlaceOf(r)'
    BY <2>1 DEF PlaceOf, Inside
  <2> QED BY <2>1, <2>2 DEF GuardsOf, LeavingOf, Underway, Inside
<1> QED BY <1>1, <1>2

\* Every run is where it may be and holds what it does there.
LEMMA NextFits ==
    ASSUME TypeOK, PlacesFit, GuardsFit, LeavingFits, Next
    PROVE  PlacesFit' /\ GuardsFit' /\ LeavingFits'
<1>1. CASE Stays
  <2>1. UNCHANGED <<call, place, guards, detached, admitted>>
    BY <1>1, StaysDo DEF fixed
  <2> QED BY <2>1 DEF PlacesFit, GuardsFit, LeavingFits, PlaceOf, GuardsOf, LeavingOf, Carries, MayCarry
<1>2. ASSUME NEW r \in Run, Gets(r) \/ Moves(r) \/ LetGo(r) \/ Leave(r)
      PROVE  PlacesFit' /\ GuardsFit' /\ LeavingFits'
  <2>1. PlaceOf(r)' /\ GuardsOf(r)' /\ LeavingOf(r)'
    BY <1>2, GetsFits, MovesFit, LeavingFit DEF PlacesFit, GuardsFit, LeavingFits
  <2>2. ASSUME NEW q \in Run \ {r} PROVE PlaceOf(q)' /\ GuardsOf(q)' /\ LeavingOf(q)'
    <3>1. /\ call' = call /\ place'[q] = place[q] /\ guards'[q] = guards[q]
          /\ q \in detached' <=> q \in detached
          /\ q \in admitted' <=> q \in admitted
      BY <1>2, <2>2, OthersKeep
    <3>2. PlaceOf(q) /\ GuardsOf(q) /\ LeavingOf(q)
      BY <2>2 DEF PlacesFit, GuardsFit, LeavingFits
    <3>3. Carries(q)' <=> Carries(q)
      BY <3>1 DEF Carries
    <3>4. MayCarry(q)' <=> MayCarry(q)
      BY <3>1 DEF MayCarry
    <3>5. PlaceOf(q)'
      BY <3>1, <3>2 DEF PlaceOf
    <3> QED BY <3>1, <3>2, <3>3, <3>4, <3>5 DEF GuardsOf, LeavingOf
  <2> QED BY <2>1, <2>2 DEF PlacesFit, GuardsFit, LeavingFits
<1> QED BY <1>1, <1>2, NextIsOne
-----------------------------------------------------------------------------
(* The slots. *)

\* A step that touches no slot.
LEMMA SlotsKept ==
    ASSUME SlotsFit, running' = running,
           \A q \in Run : /\ "slot" \in guards'[q] <=> "slot" \in guards[q]
                          /\ "over" \in guards'[q] <=> "over" \in guards[q]
    PROVE  SlotsFit'
<1>1. /\ Holding({"slot", "over"})' = Holding({"slot", "over"})
      /\ Holding({"slot"})' = Holding({"slot"})
  BY DEF Holding
<1> QED BY <1>1 DEF SlotsFit, SlotsAreCounted, Counts, Holding

\* A task that enters is counted, and has a slot only below the limit.
LEMMA EnterCounts ==
    ASSUME TypeOK, GuardsFit, SlotsFit, NEW r \in Run, Enter(r)
    PROVE  SlotsFit'
<1> DEFINE Both == Holding({"slot", "over"})
           Slots == Holding({"slot"})
<1>1. "slot" \notin guards[r] /\ "over" \notin guards[r]
  BY DEF Enter, At, GuardsFit, GuardsOf, Carries, Underway, Inside
<1>2. /\ IsFiniteSet(Both) /\ IsFiniteSet(Slots) /\ running = Cardinality(Both)
      /\ Cardinality(Slots) <= MaxConcurrent /\ Slots \subseteq Both
      /\ r \notin Both /\ r \notin Slots
  BY <1>1 DEF SlotsFit, SlotsAreCounted, Counts, Holding
<1>3. Cardinality(Both) \in Nat /\ Cardinality(Slots) \in Nat /\ Cardinality(Slots) <= Cardinality(Both)
  BY <1>2, FS_CardinalityType, FS_Subset
<1>4. \A q \in Run \ {r} : guards'[q] = guards[q]
  BY OthersKeep DEF Gets
<1>5. CASE UNCHANGED <<guards, running>>
  BY <1>5, SlotsKept
<1>6. ASSUME running' = running + 1, "slot" \notin guards'[r], "over" \in guards'[r]
      PROVE  SlotsFit'
  <2>1. Both' = Both \cup {r} /\ Slots' = Slots
    BY <1>1, <1>4, <1>6 DEF Holding
  <2>2. IsFiniteSet(Both \cup {r}) /\ Cardinality(Both \cup {r}) = Cardinality(Both) + 1
    BY <1>2, FS_AddElement
  <2> QED BY <1>2, <1>6, <2>1, <2>2 DEF SlotsFit, SlotsAreCounted, Counts, Holding
<1>7. ASSUME running' = running + 1, "slot" \in guards'[r], ~(running >= MaxConcurrent)
      PROVE  SlotsFit'
  <2>1. Both' = Both \cup {r} /\ Slots' = Slots \cup {r}
    BY <1>1, <1>4, <1>7 DEF Holding
  <2>2. /\ IsFiniteSet(Both \cup {r}) /\ Cardinality(Both \cup {r}) = Cardinality(Both) + 1
        /\ IsFiniteSet(Slots \cup {r}) /\ Cardinality(Slots \cup {r}) = Cardinality(Slots) + 1
    BY <1>2, FS_AddElement
  <2>3. Cardinality(Slots) + 1 <= MaxConcurrent
    BY <1>2, <1>3, <1>7, LimitsAssumption
  <2> QED BY <1>2, <1>7, <2>1, <2>2, <2>3 DEF SlotsFit, SlotsAreCounted, Counts, Holding
<1>8. \/ UNCHANGED <<guards, running>>
      \/ running' = running + 1 /\ "slot" \notin guards'[r] /\ "over" \in guards'[r]
      \/ running' = running + 1 /\ "slot" \in guards'[r] /\ ~(running >= MaxConcurrent)
  BY <1>1 DEF Enter, Hold, TypeOK
<1> QED BY <1>5, <1>6, <1>7, <1>8

\* A slot or a refused count is put back once.
LEMMA LetGoCounts ==
    ASSUME TypeOK, LeavingFits, SlotsFit, NEW r \in Run, LetGo(r)
    PROVE  SlotsFit'
<1> DEFINE Both == Holding({"slot", "over"})
           Slots == Holding({"slot"})
<1>1. PICK g \in guards[r] :
          /\ At(r, "leaving") /\ guards' = [guards EXCEPT ![r] = @ \ {g}]
          /\ running' = IF g \in {"slot", "over"} THEN running - 1 ELSE running
  BY LetGoDoes
<1>2. /\ IsFiniteSet(Both) /\ IsFiniteSet(Slots) /\ running = Cardinality(Both)
      /\ Cardinality(Slots) <= MaxConcurrent
  BY DEF SlotsFit, SlotsAreCounted, Counts, Holding
<1>3. /\ \A q \in Run \ {r} : guards'[q] = guards[q]
      /\ guards'[r] = guards[r] \ {g}
  BY <1>1 DEF TypeOK
<1>4. CASE g \notin {"slot", "over"}
  BY <1>1, <1>3, <1>4, SlotsKept
<1>5. CASE g \in {"slot", "over"}
  <2>1. ~("slot" \in guards[r] /\ "over" \in guards[r])
    BY <1>1 DEF LeavingFits, LeavingOf, MayCarry, At
  <2>2. Both' = Both \ {r} /\ r \in Both /\ Slots' = Slots \ {r}
    BY <1>1, <1>3, <1>5, <2>1 DEF Holding
  <2>3. /\ IsFiniteSet(Both \ {r}) /\ Cardinality(Both \ {r}) = Cardinality(Both) - 1
        /\ IsFiniteSet(Slots \ {r}) /\ Cardinality(Slots \ {r}) <= Cardinality(Slots)
        /\ Cardinality(Slots \ {r}) \in Nat /\ Cardinality(Slots) \in Nat
    BY <1>2, <2>2, FS_RemoveElement, FS_Subset, FS_CardinalityType
  <2>4. Cardinality(Slots \ {r}) <= MaxConcurrent
    BY <1>2, <2>3, LimitsAssumption
  <2> QED BY <1>1, <1>2, <1>5, <2>2, <2>3, <2>4 DEF SlotsFit, SlotsAreCounted, Counts, Holding
<1> QED BY <1>4, <1>5

\* What the steps take that neither count nor claim.
LEMMA TakesOther ==
    ASSUME NEW r \in Run, Gets(r), ~Enter(r), ~Admit(r), ~Deliver(r)
    PROVE  /\ UNCHANGED <<call, active, running>>
           /\ \/ \E gs \in SUBSET {"permit", "row", "lease", "mark"} : Hold(r, gs)
              \/ guards' = [guards EXCEPT ![r] = Settled(@)]
              \/ guards' = guards
<1>1. CASE Ask(r) \/ AskJob(r)
  BY <1>1 DEF Ask, Reserve, AskJob, pools
<1>2. CASE EditTree(r)
  BY <1>2 DEF EditTree, pools
<1>3. CASE Acquire(r) \/ Wake(r) \/ Mark(r) \/ Validate(r)
  BY <1>3 DEF Acquire, Wake, Mark, Validate, pools, fixed
<1> QED BY <1>1, <1>2, <1>3 DEF Gets

\* The slots are counted.
LEMMA NextCounts ==
    ASSUME TypeOK, GuardsFit, LeavingFits, SlotsFit, Next
    PROVE  SlotsFit'
<1>1. CASE Stays
  BY <1>1, StaysDo, SlotsKept
<1>2. ASSUME NEW r \in Run, Moves(r) \/ Leave(r) PROVE SlotsFit'
  BY <1>2, MovesDo, SlotsKept DEF Leave, pools
<1>3. ASSUME NEW r \in Run, Gets(r), ~Enter(r) PROVE SlotsFit'
  <2>1. \A q \in Run \ {r} : guards'[q] = guards[q]
    BY <1>3, OthersKeep
  <2>2. running' = running
    BY <1>3, TakesOther DEF Admit, Deliver
  <2>3. \/ \E gs \in SUBSET {"permit", "row", "lease", "mark", "claim"} : Hold(r, gs) \/ Claimed(r, gs)
        \/ guards' = [guards EXCEPT ![r] = Settled(@)]
        \/ guards' = guards
    <3>1. CASE Admit(r) \/ Deliver(r)
      BY <3>1 DEF Admit, Deliver
    <3> QED BY <1>3, <3>1, TakesOther
  <2>4. /\ "slot" \in guards'[r] <=> "slot" \in guards[r]
        /\ "over" \in guards'[r] <=> "over" \in guards[r]
    BY <2>3 DEF TypeOK, Hold, Claimed, Settled
  <2> QED BY <2>1, <2>2, <2>4, SlotsKept
<1> QED BY <1>1, <1>2, <1>3, NextIsOne, EnterCounts, LetGoCounts
-----------------------------------------------------------------------------
(* The sessions. *)

\* A step that claims no session.
LEMMA ClaimsKept ==
    ASSUME ClaimsFit, call' = call, active \subseteq active',
           \A q \in Run : HasSession(q)' => HasSession(q)
    PROVE  ClaimsFit'
BY DEF ClaimsFit

\* A claim on a session nobody has.
LEMMA ClaimTaken ==
    ASSUME ClaimsFit, call' = call, NEW r \in Run,
           \A q \in Run \ {r} : HasSession(q) => call[q].session # call[r].session,
           \A q \in Run \ {r} : HasSession(q)' => HasSession(q),
           active' = active \cup {call[r].session}
    PROVE  ClaimsFit'
BY DEF ClaimsFit

\* A session is one run's at a time: a fresh one nobody else has, a resumed one was free.
LEMMA NextClaims ==
    ASSUME TypeOK, PlacesFit, GuardsFit, LeavingFits, ClaimsFit, Next
    PROVE  ClaimsFit'
<1>1. CASE Stays
  BY <1>1, StaysDo, ClaimsKept DEF fixed, HasSession
<1>2. ASSUME NEW r \in Run, Moves(r) \/ Leave(r) PROVE ClaimsFit'
  BY <1>2, MovesDo, ClaimsKept DEF Leave, pools, fixed, HasSession
<1>3. ASSUME NEW r \in Run, Gets(r), NEW q \in Run \ {r} PROVE HasSession(q)' <=> HasSession(q)
  BY <1>3, OthersKeep DEF HasSession
<1>4. ASSUME NEW r \in Run, Gets(r), ~Enter(r), ~Admit(r), ~Deliver(r) PROVE ClaimsFit'
  <2>1. guards'[r] \cap {"resumed", "claim"} = guards[r] \cap {"resumed", "claim"}
    BY <1>4, TakesOther DEF Hold, Settled, TypeOK
  <2> QED BY <1>3, <1>4, <2>1, TakesOther, ClaimsKept DEF HasSession
<1>5. ASSUME NEW r \in Run, Enter(r) PROVE ClaimsFit'
  <2>1. call' = call /\ \A q \in Run \ {r} : HasSession(q)' <=> HasSession(q)
    BY <1>3, <1>5 DEF Gets, Enter, fixed
  <2>2. CASE call[r].resumes /\ call[r].session \notin active
    <3>1. active' = active \cup {call[r].session}
      BY <1>5, <2>2 DEF Enter
    <3>2. \A q \in Run \ {r} : HasSession(q) => call[q].session # call[r].session
      BY <2>2 DEF ClaimsFit
    <3> QED BY <2>1, <3>1, <3>2, ClaimTaken
  <2>3. CASE ~(call[r].resumes /\ call[r].session \notin active)
    <3>1. /\ active' = active
          /\ \/ guards' = guards
             \/ guards' = [guards EXCEPT ![r] = @ \cup ({} \cup {"over"})]
             \/ guards' = [guards EXCEPT ![r] = @ \cup ({} \cup {"slot"})]
      BY <1>5, <2>3 DEF Enter, Hold
    <3>2. HasSession(r)' => HasSession(r)
      BY <3>1 DEF HasSession, TypeOK
    <3> QED BY <2>1, <3>1, <3>2, ClaimsKept
  <2> QED BY <2>2, <2>3
<1>6. ASSUME NEW r \in Run, Admit(r) PROVE ClaimsFit'
  <2>1. call' = call /\ \A q \in Run \ {r} : HasSession(q)' <=> HasSession(q)
    BY <1>3, <1>6 DEF Gets, Admit
  <2>2. active' = active \cup {call[r].session} /\ Carries(r) /\ At(r, "checking")
    BY <1>6 DEF Admit, At, GuardsFit, GuardsOf, Underway
  <2>3. r \in Task
    BY <2>2 DEF PlacesFit, PlaceOf, At
  <2>4. ASSUME NEW q \in Run \ {r}, HasSession(q) PROVE call[q].session # call[r].session
    <3>1. CASE call[r].resumes
      BY <2>2, <2>3, <2>4, <3>1 DEF Carries, At, HasSession, ClaimsFit
    <3>2. CASE ~call[r].resumes
      BY <2>3, <2>4, <3>2, PlansAssumption DEF HasSession, TypeOK
    <3> QED BY <3>1, <3>2
  <2> QED BY <2>1, <2>2, <2>4, ClaimTaken
<1>7. ASSUME NEW r \in Run, Deliver(r) PROVE ClaimsFit'
  <2>1. call' = call /\ \A q \in Run \ {r} : HasSession(q)' <=> HasSession(q)
    BY <1>3, <1>7 DEF Gets, Deliver
  <2>2. active' = active \cup {call[r].session} /\ call[r].session \notin active
    BY <1>7 DEF Deliver
  <2>3. \A q \in Run \ {r} : HasSession(q) => call[q].session # call[r].session
    BY <2>2 DEF ClaimsFit
  <2> QED BY <2>1, <2>2, <2>3, ClaimTaken
<1>8. ASSUME NEW r \in Run, LetGo(r) PROVE ClaimsFit'
  <2>1. PICK g \in guards[r] :
            /\ At(r, "leaving") /\ guards' = [guards EXCEPT ![r] = @ \ {g}]
            /\ active' = IF g \in {"resumed", "claim"} THEN active \ {call[r].session} ELSE active
            /\ UNCHANGED fixed
    BY <1>8, LetGoDoes
  <2>2. /\ call' = call /\ guards'[r] = guards[r] \ {g}
        /\ \A q \in Run \ {r} : guards'[q] = guards[q]
    BY <2>1 DEF TypeOK, fixed
  <2>3. CASE g \notin {"resumed", "claim"}
    BY <2>1, <2>2, <2>3, ClaimsKept DEF HasSession
  <2>4. CASE g \in {"resumed", "claim"}
    <3>1. MayCarry(r)
      BY <2>1 DEF LeavingFits, LeavingOf, At
    <3>2. HasSession(r) /\ ~HasSession(r)'
      BY <2>1, <2>2, <2>4, <3>1 DEF MayCarry, HasSession
    <3>3. \A q \in Run \ {r} : HasSession(q)' <=> HasSession(q)
      BY <2>2 DEF HasSession
    <3> QED BY <2>1, <2>2, <2>4, <3>2, <3>3 DEF ClaimsFit
  <2> QED BY <2>3, <2>4
<1> QED BY <1>1, <1>2, <1>4, <1>5, <1>6, <1>7, <1>8, NextIsOne
-----------------------------------------------------------------------------
(* The leases. *)

\* A step of one run disturbs its own leases and its own checkout's.
LEMMA LocksStep ==
    ASSUME TypeOK, LocksFit, NEW r \in Run, call' = call, NEW c, c = Tree(r),
           \A q \in Run \ {r} : /\ place'[q] = place[q] /\ clones'[q] = clones[q]
                                /\ "lease" \in guards'[q] <=> "lease" \in guards[q],
           \A d \in Checkout \ {c} : lock'[d] = lock[d] /\ queue'[d] = queue[d],
           \A q \in Run \ {r} : Tree(q) = c /\ clones[q] # {} => lock'[c] = q,
           LockOf(r)', Belongs(c)', Waiting(c)'
    PROVE  LocksFit'
<1>0. /\ \A q \in Run : Tree(q) \in Checkout /\ LockOf(q) /\ Tree(q)' = Tree(q)
      /\ \A d \in Checkout : Belongs(d) /\ Waiting(d) /\ lock[d] \in Run \cup {Free}
      /\ \A d \in Checkout : \A i \in DOMAIN queue[d] : queue[d][i] \in Run
  BY CallIsTyped, RunIsTyped, ElementOfSeq, LenProperties DEF LocksFit, TypeOK, LeasesTypeOK, Tree
<1>1. ASSUME NEW q \in Run \ {r} PROVE LockOf(q)'
  <2>1. Tree(q)' = Tree(q) /\ Tree(q) \in Checkout /\ LockOf(q)
    BY <1>0
  <2>2. clones'[q] # {} => lock'[Tree(q)] = q
    BY <2>1 DEF LockOf
  <2> QED BY <2>1, <2>2 DEF LockOf
<1>2. ASSUME NEW d \in Checkout \ {c} PROVE Belongs(d)'
  <2>1. Belongs(d) /\ lock'[d] = lock[d] /\ lock[d] \in Run \cup {Free}
    BY <1>0
  <2>2. lock[d] # Free => lock[d] # r /\ lock[d] \in Run /\ Tree(lock[d])' = Tree(lock[d])
    BY <1>0, <2>1 DEF Belongs
  <2> QED BY <2>1, <2>2 DEF Belongs, At
<1>3. ASSUME NEW d \in Checkout \ {c} PROVE Waiting(d)'
  <2>1. Waiting(d) /\ lock'[d] = lock[d] /\ queue'[d] = queue[d]
    BY <1>0
  <2>2. \A i \in DOMAIN queue[d] : /\ queue[d][i] # r /\ queue[d][i] \in Run
                                   /\ Tree(queue[d][i])' = Tree(queue[d][i])
    BY <1>0, <2>1 DEF Waiting
  <2> QED BY <2>1, <2>2 DEF Waiting, At
<1>4. \A q \in Run : LockOf(q)'
  BY <1>1
<1>5. \A d \in Checkout : Belongs(d)' /\ Waiting(d)'
  BY <1>2, <1>3
<1> QED BY <1>4, <1>5 DEF LocksFit

\* A step that leaves the leases alone.
LEMMA LocksQuiet ==
    ASSUME TypeOK, LocksFit, NEW r \in Run, UNCHANGED <<call, lock, queue, clones>>,
           \A q \in Run \ {r} : place'[q] = place[q] /\ guards'[q] = guards[q],
           "lease" \in guards'[r] <=> "lease" \in guards[r],
           place'[r] = place[r] \/ (~At(r, "queued") /\ place[r] \notin {"leaving", "gone"})
                \/ (place'[r] = "gone" /\ At(r, "leaving"))
    PROVE  LocksFit'
<1> DEFINE c == Tree(r)
<1>0. /\ LockOf(r) /\ Belongs(c) /\ Waiting(c) /\ c \in Checkout
      /\ \A q \in Run : LockOf(q) /\ Tree(q)' = Tree(q)
  BY CallIsTyped DEF LocksFit, Tree
<1>1. LockOf(r)'
  BY <1>0 DEF LockOf, At
<1>2. Belongs(c)'
  <2>1. lock[c] \in Run \cup {Free} 
    BY <1>0, RunIsTyped DEF TypeOK, LeasesTypeOK
  <2>2. lock' = lock /\ clones' = clones /\ (lock[c] # Free => Tree(lock[c])' = Tree(lock[c]))
    BY <1>0, <2>1
  <2>3. lock[c] \in Run \ {r} => place'[lock[c]] = place[lock[c]]
    OBVIOUS
  <2>4. lock[c] = r /\ At(r, "queued") => At(r, "queued")'
    BY DEF At
  <2> QED BY <1>0, <2>1, <2>2, <2>3, <2>4 DEF Belongs, At
<1>3. Waiting(c)'
  <2>1. \A i \in DOMAIN queue[c] : queue[c][i] \in Run
    BY <1>0, RunIsTyped, ElementOfSeq, LenProperties DEF TypeOK, LeasesTypeOK
  <2>2. \A q \in Run : At(q, "queued") => At(q, "queued")'
    BY DEF At
  <2> QED BY <1>0, <2>1, <2>2 DEF Waiting
<1>4. \A q \in Run \ {r} : Tree(q) = c /\ clones[q] # {} => lock'[c] = q
  BY <1>0 DEF LockOf
<1> QED BY <1>0, <1>1, <1>2, <1>3, <1>4, LocksStep

\* A free lock is taken.
LEMMA LockTaken ==
    ASSUME TypeOK, LocksFit, NEW r \in Run, UNCHANGED call, ~At(r, "queued"), clones[r] = {},
           TryTake(Tree(r), r), place'[r] \notin {"leaving", "gone"}, "lease" \in guards'[r],
           \A q \in Run \ {r} : place'[q] = place[q] /\ guards'[q] = guards[q]
    PROVE  LocksFit'
<1> DEFINE c == Tree(r)
<1>0. /\ Waiting(c) /\ c \in Checkout /\ c' = c /\ r \in Holder /\ r # Free /\ Tree(r)' = c
      /\ \A q \in Run : LockOf(q) /\ Tree(q)' = Tree(q)
      /\ \A i \in DOMAIN queue[c] : queue[c][i] \in Run
  BY CallIsTyped, RunIsTyped, ElementOfSeq, LenProperties DEF LocksFit, Tree, TypeOK, LeasesTypeOK
<1>1. /\ lock[c] = Free /\ lock'[c] = r /\ clones'[r] = {"run"} /\ queue' = queue
      /\ \A d \in Checkout \ {c} : lock'[d] = lock[d]
      /\ \A q \in Run \ {r} : clones'[q] = clones[q]
  BY <1>0, RunIsTyped DEF TryTake, TypeOK, LeasesTypeOK
<1> HIDE DEF c
<1>2. LockOf(r)'
  BY <1>0, <1>1 DEF LockOf
<1>3. Belongs(c)'
  BY <1>0, <1>1 DEF Belongs
<1>4. Waiting(c)'
  BY <1>0, <1>1 DEF Waiting, At
<1>5. \A q \in Run \ {r} : Tree(q) = c /\ clones[q] # {} => lock'[c] = q
  BY <1>0, <1>1, RunIsTyped DEF LockOf
<1> QED BY <1>0, <1>1, <1>2, <1>3, <1>4, <1>5, LocksStep DEF c

\* A run joins the queue of a lock it does not have.
LEMMA LockAwaited ==
    ASSUME TypeOK, LocksFit, NEW r \in Run, UNCHANGED call, ~At(r, "queued"), clones[r] = {},
           Wait(Tree(r), r), place'[r] = "queued", guards' = guards, "lease" \notin guards[r],
           \A q \in Run \ {r} : place'[q] = place[q]
    PROVE  LocksFit'
<1> DEFINE c == Tree(r)
<1>0. /\ Waiting(c) /\ Belongs(c) /\ c \in Checkout /\ c' = c /\ r \in Holder /\ r # Free /\ Tree(r)' = c
      /\ \A q \in Run : LockOf(q) /\ Tree(q)' = Tree(q)
      /\ \A i \in DOMAIN queue[c] : queue[c][i] \in Run
      /\ queue[c] \in Seq(Holder) /\ IsInjective(queue[c]) /\ lock[c] \in Run \cup {Free}
  BY CallIsTyped, RunIsTyped, ElementOfSeq, LenProperties DEF LocksFit, Tree, TypeOK, LeasesTypeOK
<1>1. /\ lock[c] # Free /\ UNCHANGED <<lock, clones>> /\ queue'[c] = Append(queue[c], r)
      /\ \A d \in Checkout \ {c} : queue'[d] = queue[d]
  BY <1>0 DEF Wait, TypeOK, LeasesTypeOK
<1>2. lock[c] # r
  BY <1>0, <1>1 DEF Belongs
<1> HIDE DEF c
<1>3. \A i \in DOMAIN queue[c] : queue[c][i] # r
  BY <1>0 DEF Waiting
<1>4. \A j \in DOMAIN queue'[c] : queue'[c][j] = r \/ \E k \in DOMAIN queue[c] : queue'[c][j] = queue[c][k]
  BY <1>0, <1>1, <1>3, QueueGrows
<1>5. LockOf(r)'
  BY <1>0, <1>1 DEF LockOf
<1>6. Belongs(c)'
  BY <1>0, <1>1, <1>2 DEF Belongs, At
<1>7. Waiting(c)'
  BY <1>0, <1>1, <1>2, <1>3, <1>4 DEF Waiting, At
<1>8. \A q \in Run \ {r} : Tree(q) = c /\ clones[q] # {} => lock'[c] = q
  BY <1>0, <1>1 DEF LockOf
<1> QED BY <1>0, <1>1, <1>5, <1>6, <1>7, <1>8, LocksStep DEF c

\* A waiter wakes with the lock it was handed.
LEMMA LockReceived ==
    ASSUME TypeOK, LocksFit, NEW r \in Run, UNCHANGED call, At(r, "queued"),
           Granted(Tree(r), r), place'[r] \notin {"leaving", "gone"}, "lease" \in guards'[r],
           \A q \in Run \ {r} : place'[q] = place[q] /\ guards'[q] = guards[q]
    PROVE  LocksFit'
<1> DEFINE c == Tree(r)
<1>0. /\ Waiting(c) /\ c \in Checkout /\ c' = c /\ r \in Holder /\ Tree(r)' = c
      /\ \A q \in Run : LockOf(q) /\ Tree(q)' = Tree(q)
      /\ \A i \in DOMAIN queue[c] : queue[c][i] \in Run
  BY CallIsTyped, RunIsTyped, ElementOfSeq, LenProperties DEF LocksFit, Tree, TypeOK, LeasesTypeOK
<1>1. /\ lock[c] = r /\ clones'[r] = {"run"} /\ UNCHANGED <<lock, queue>>
      /\ \A q \in Run \ {r} : clones'[q] = clones[q]
  BY <1>0, RunIsTyped DEF Granted, TypeOK, LeasesTypeOK
<1> HIDE DEF c
<1>2. LockOf(r)'
  BY <1>0, <1>1 DEF LockOf
<1>3. Belongs(c)'
  BY <1>0, <1>1 DEF Belongs
<1>4. Waiting(c)'
  BY <1>0, <1>1 DEF Waiting, At
<1>5. \A q \in Run \ {r} : Tree(q) = c /\ clones[q] # {} => lock'[c] = q
  BY <1>0, <1>1 DEF LockOf
<1> QED BY <1>0, <1>1, <1>2, <1>3, <1>4, <1>5, LocksStep DEF c

\* The lock of a checkout nobody has, or whose holder lets it go.
LEMMA LockHandedOver ==
    ASSUME TypeOK, LocksFit, NEW r \in Run, UNCHANGED call, HandOver(Tree(r)), lock[Tree(r)] = r,
           clones'[r] = {}, ~At(r, "queued")', "lease" \notin guards'[r],
           \A q \in Run \ {r} : /\ place'[q] = place[q] /\ clones'[q] = clones[q]
                                /\ "lease" \in guards'[q] <=> "lease" \in guards[q]
    PROVE  LocksFit'
<1> DEFINE c == Tree(r)
<1>0. /\ Waiting(c) /\ c \in Checkout /\ c' = c /\ Tree(r)' = c /\ LeasesTypeOK
      /\ \A q \in Run : LockOf(q) /\ Tree(q)' = Tree(q)
      /\ \A i \in DOMAIN queue[c] : queue[c][i] \in Run
  BY CallIsTyped, RunIsTyped, ElementOfSeq, LenProperties DEF LocksFit, Tree, TypeOK, LeasesTypeOK
<1>1. /\ \A d \in Checkout \ {c} : lock'[d] = lock[d] /\ queue'[d] = queue[d]
      /\ lock'[c] = Free \/ \E k \in DOMAIN queue[c] : lock'[c] = queue[c][k]
      /\ \A j \in DOMAIN queue'[c] : /\ queue'[c][j] # lock'[c]
                                     /\ \E k \in DOMAIN queue[c] : queue'[c][j] = queue[c][k]
  BY <1>0, HandOverDoes
<1> HIDE DEF c
<1>2. \A q \in Run : (\E k \in DOMAIN queue[c] : q = queue[c][k]) =>
          q # r /\ place'[q] = "queued" /\ Tree(q)' = c /\ q # Free
  BY <1>0, RunIsTyped DEF Waiting, At, c
<1>8. \A k \in DOMAIN queue[c] : queue[c][k] \in Run
  BY <1>0
<1>3. LockOf(r)'
  BY <1>0 DEF LockOf
<1>4. Belongs(c)'
  BY <1>0, <1>1, <1>2, <1>8 DEF Belongs, At
<1>5. Waiting(c)'
  BY <1>0, <1>1, <1>2, <1>8 DEF Waiting, At
<1>6. \A q \in Run \ {r} : Tree(q) = c /\ clones[q] # {} => lock'[c] = q
  BY <1>0 DEF LockOf, c
<1> QED BY <1>0, <1>1, <1>3, <1>4, <1>5, <1>6, LocksStep DEF c

\* A waiter gives up, and passes on the lock if it was handed it.
LEMMA LockLeft ==
    ASSUME TypeOK, LocksFit, NEW r \in Run, UNCHANGED call, At(r, "queued"), clones[r] = {},
           StopWaiting(Tree(r), r), place'[r] = "leaving", guards' = guards,
           \A q \in Run \ {r} : place'[q] = place[q]
    PROVE  LocksFit'
<1> DEFINE c == Tree(r)
<1>0. /\ Waiting(c) /\ Belongs(c) /\ c \in Checkout /\ c' = c /\ Tree(r)' = c /\ LeasesTypeOK
      /\ \A q \in Run : LockOf(q) /\ Tree(q)' = Tree(q)
      /\ \A i \in DOMAIN queue[c] : queue[c][i] \in Run
      /\ lock[c] \in Run \cup {Free} /\ clones' = clones
  BY CallIsTyped, RunIsTyped, ElementOfSeq, LenProperties DEF LocksFit, Tree, TypeOK, LeasesTypeOK, StopWaiting
<1>1. CASE lock[c] = r
  <2>1. HandOver(c) /\ clones'[r] = {} /\ ~At(r, "queued")' /\ "lease" \notin guards'[r]
    BY <1>0, <1>1 DEF StopWaiting, At, LockOf
  <2> QED BY <1>0, <1>1, <2>1, LockHandedOver
<1>2. CASE lock[c] # r
  <2>1. LeaveQueue(c, r)
    BY <1>2 DEF StopWaiting
  <2>2. /\ lock' = lock
        /\ \A d \in Checkout \ {c} : queue'[d] = queue[d]
        /\ \A j \in DOMAIN queue'[c] : /\ queue'[c][j] # r
                                       /\ \E k \in DOMAIN queue[c] : queue'[c][j] = queue[c][k]
    BY <1>0, <2>1, LeaveQueueDoes
  <2> HIDE DEF c
  <2>3. LockOf(r)'
    BY <1>0 DEF LockOf
  <2>4. Belongs(c)'
    BY <1>0, <1>2, <2>2 DEF Belongs, At
  <2>5. Waiting(c)'
    <3>1. \A q \in Run \ {r} : (\E k \in DOMAIN queue[c] : q = queue[c][k]) =>
              place'[q] = "queued" /\ Tree(q)' = c /\ lock'[c] # q
      BY <1>0, <2>2 DEF Waiting, At
    <3>2. \A k \in DOMAIN queue[c] : queue[c][k] \in Run
      BY <1>0
    <3> QED BY <1>0, <2>2, <3>1, <3>2 DEF Waiting, At
  <2>6. \A q \in Run \ {r} : Tree(q) = c /\ clones[q] # {} => lock'[c] = q
    BY <1>0, <2>2 DEF LockOf
  <2> QED BY <1>0, <2>2, <2>3, <2>4, <2>5, <2>6, LocksStep DEF c
<1> QED BY <1>1, <1>2

\* A clone goes; the lock with the last one.
LEMMA CloneDropped ==
    ASSUME TypeOK, LocksFit, NEW r \in Run, UNCHANGED <<call, place>>, NEW k \in {"run", "write"},
           DropClone(Tree(r), r, k), k \in clones[r], place[r] \in {"leaving", "gone"},
           "lease" \in guards'[r] <=> "lease" \in guards[r] /\ k # "run",
           \A q \in Run \ {r} : guards'[q] = guards[q]
    PROVE  LocksFit'
<1> DEFINE c == Tree(r)
<1>0. /\ Waiting(c) /\ Belongs(c) /\ c \in Checkout /\ c' = c /\ Tree(r)' = c /\ r \in Holder
      /\ \A q \in Run : LockOf(q) /\ Tree(q)' = Tree(q)
      /\ \A i \in DOMAIN queue[c] : queue[c][i] \in Run
      /\ lock[c] = r
  BY CallIsTyped, RunIsTyped, ElementOfSeq, LenProperties DEF LocksFit, Tree, TypeOK, LeasesTypeOK, LockOf
<1>1. /\ clones'[r] = clones[r] \ {k} /\ clones[r] \subseteq {"run", "write"}
      /\ \A q \in Run \ {r} : clones'[q] = clones[q]
  BY <1>0, RunIsTyped DEF DropClone, TypeOK, LeasesTypeOK
<1>2. CASE clones[r] = {k}
  <2>1. HandOver(c) /\ clones'[r] = {} /\ ~At(r, "queued")' /\ "lease" \notin guards'[r]
    BY <1>0, <1>1, <1>2 DEF DropClone, At, LockOf
  <2> QED BY <1>0, <1>1, <2>1, LockHandedOver
<1>3. CASE clones[r] # {k}
  <2>1. UNCHANGED <<lock, queue>> /\ clones'[r] # {}
    BY <1>1, <1>3 DEF DropClone
  <2> HIDE DEF c
  <2>2. LockOf(r)'
    BY <1>0, <1>1, <2>1 DEF LockOf
  <2>3. Belongs(c)'
    BY <1>0, <2>1 DEF Belongs
  <2>4. Waiting(c)'
    BY <1>0, <2>1 DEF Waiting, At
  <2>5. \A q \in Run \ {r} : Tree(q) = c /\ clones[q] # {} => lock'[c] = q
    BY <1>0, <2>1 DEF LockOf
  <2> QED BY <1>0, <1>1, <2>1, <2>2, <2>3, <2>4, <2>5, LocksStep DEF c
<1> QED BY <1>2, <1>3

\* A file write keeps a clone of its run's lease.
LEMMA LeftWriting ==
    ASSUME TypeOK, LocksFit, NEW r \in Run, UNCHANGED <<call, guards>>, LeaveWriting(r),
           place'[r] = "leaving", ~At(r, "queued"), \A q \in Run \ {r} : place'[q] = place[q]
    PROVE  LocksFit'
<1> DEFINE c == Tree(r)
<1>0. /\ Waiting(c) /\ Belongs(c) /\ c \in Checkout /\ c' = c /\ Tree(r)' = c /\ r \in Holder
      /\ \A q \in Run : LockOf(q) /\ Tree(q)' = Tree(q)
      /\ \A i \in DOMAIN queue[c] : queue[c][i] \in Run
  BY CallIsTyped, RunIsTyped, ElementOfSeq, LenProperties DEF LocksFit, Tree, TypeOK, LeasesTypeOK
<1>1. /\ clones'[r] = clones[r] \cup {"write"} /\ "run" \in clones[r] /\ UNCHANGED <<lock, queue>>
      /\ \A q \in Run \ {r} : clones'[q] = clones[q]
  BY <1>0, RunIsTyped DEF LeaveWriting, TypeOK, LeasesTypeOK
<1>2. lock[c] = r
  BY <1>0, <1>1 DEF LockOf
<1> HIDE DEF c
<1>3. LockOf(r)'
  BY <1>0, <1>1, <1>2 DEF LockOf, c
<1>4. Belongs(c)'
  BY <1>0, <1>1, <1>2 DEF Belongs
<1>5. Waiting(c)'
  BY <1>0, <1>1 DEF Waiting, At
<1>6. \A q \in Run \ {r} : Tree(q) = c /\ clones[q] # {} => lock'[c] = q
  BY <1>0, <1>1, <1>2 DEF LockOf
<1> QED BY <1>0, <1>1, <1>3, <1>4, <1>5, <1>6, LocksStep DEF c

\* What the steps that take do to the leases.
LEMMA GetsLocks ==
    ASSUME TypeOK, PlacesFit, GuardsFit, LocksFit, NEW r \in Run, Gets(r)
    PROVE  LocksFit'
<1>0. /\ call' = call /\ \A q \in Run \ {r} : place'[q] = place[q] /\ guards'[q] = guards[q]
      /\ LockOf(r) /\ GuardsOf(r) /\ PlaceOf(r) /\ clones[r] \subseteq {"run", "write"}
      /\ place \in [Run -> Places] /\ guards \in [Run -> SUBSET Guards]
  BY OthersKeep, RunIsTyped DEF LocksFit, GuardsFit, PlacesFit, TypeOK, LeasesTypeOK
<1>1. CASE Ask(r) \/ Enter(r) \/ AskJob(r) \/ Deliver(r)
  <2>1. UNCHANGED leases /\ ~At(r, "queued") /\ place[r] \notin {"leaving", "gone"}
    BY <1>1 DEF Ask, Enter, AskJob, Deliver, At
  <2>2. "lease" \in guards'[r] <=> "lease" \in guards[r]
    <3>1. CASE Ask(r)
      <4>1. guards' = guards \/ Hold(r, {"permit"}) \/ Hold(r, {})
        BY <3>1 DEF Ask, Reserve
      <4> QED BY <1>0, <4>1 DEF Hold
    <3>2. CASE Enter(r)
      BY <1>0, <3>2 DEF Enter, Hold
    <3>3. CASE AskJob(r) \/ Deliver(r)
      BY <1>0, <3>3 DEF AskJob, Deliver, Hold
    <3> QED BY <1>1, <3>1, <3>2, <3>3
  <2> QED BY <1>0, <2>1, <2>2, LocksQuiet DEF leases
<1>2. CASE Admit(r)
  <2>1. UNCHANGED leases /\ ~At(r, "queued") /\ place[r] \notin {"leaving", "gone"}
    BY <1>2 DEF Admit, At
  <2>2. "lease" \in guards'[r] <=> "lease" \in guards[r]
    BY <1>0, <1>2 DEF Admit, Claimed
  <2> QED BY <1>0, <2>1, <2>2, LocksQuiet DEF leases
<1>3. CASE EditTree(r)
  <2>1. At(r, "idle") /\ Tree(r) = Home /\ guards[r] = {}
    BY <1>0, <1>3, CallIsTyped DEF EditTree, GuardsOf, At
  <2>2. clones[r] = {}
    BY <1>0, <2>1 DEF LockOf, At
  <2>3. CASE UNCHANGED <<leases, guards>>
    BY <1>0, <2>1, <2>3, LocksQuiet DEF leases, At
  <2>4. CASE TryTake(Home, r) /\ Hold(r, {"lease"}) /\ Go(r, "turn")
    <3>1. place'[r] = "turn" /\ "lease" \in guards'[r]
      BY <1>0, <2>4 DEF Go, Hold
    <3> QED BY <1>0, <2>1, <2>2, <2>4, <3>1, LockTaken DEF At
  <2> QED BY <1>3, <2>3, <2>4 DEF EditTree
<1>4. CASE Acquire(r)
  <2>1. At(r, "acquire")
    BY <1>4 DEF Acquire
  <2>2. "lease" \notin guards[r]
    BY <1>0, <2>1 DEF GuardsOf, Carries, At, Underway, Inside
  <2>3. clones[r] = {}
    BY <1>0, <2>1, <2>2 DEF LockOf, At
  <2>4. CASE UNCHANGED <<leases, guards>>
    BY <1>0, <2>1, <2>4, LocksQuiet DEF leases, At
  <2>5. CASE TryTake(Tree(r), r) /\ Hold(r, {"lease"}) /\ Go(r, "marking")
    <3>1. place'[r] = "marking" /\ "lease" \in guards'[r]
      BY <1>0, <2>5 DEF Go, Hold
    <3> QED BY <1>0, <2>1, <2>3, <2>5, <3>1, LockTaken DEF At
  <2>6. CASE Wait(Tree(r), r) /\ Go(r, "queued") /\ UNCHANGED guards
    <3>1. place'[r] = "queued"
      BY <1>0, <2>6 DEF Go
    <3> QED BY <1>0, <2>1, <2>2, <2>3, <2>6, <3>1, LockAwaited DEF At
  <2> QED BY <1>4, <2>4, <2>5, <2>6 DEF Acquire
<1>5. CASE Wake(r)
  <2>1. /\ At(r, "queued") /\ Granted(Tree(r), r)
        /\ place'[r] = "marking" /\ "lease" \in guards'[r]
    BY <1>0, <1>5 DEF Wake, Hold, Go
  <2> QED BY <1>0, <2>1, LockReceived
<1>6. CASE Mark(r) \/ Validate(r)
  <2>1. UNCHANGED <<lock, queue, clones>> /\ place[r] \in {"marking", "validating"}
    BY <1>6 DEF Mark, Validate, HoldAs, leases, At
  <2>2. "lease" \in guards'[r] <=> "lease" \in guards[r]
    BY <1>0, <1>6 DEF Mark, Validate, Hold, Settled
  <2> QED BY <1>0, <2>1, <2>2, LocksQuiet DEF At
<1> QED BY <1>1, <1>2, <1>3, <1>4, <1>5, <1>6 DEF Gets

\* What the steps that move do to the leases.
LEMMA MovesLocks ==
    ASSUME TypeOK, PlacesFit, GuardsFit, LocksFit, NEW r \in Run, Moves(r)
    PROVE  LocksFit'
<1>0. /\ call' = call /\ \A q \in Run \ {r} : place'[q] = place[q]
      /\ guards' = guards /\ place[r] \in Underway
      /\ LockOf(r) /\ GuardsOf(r) /\ clones[r] \subseteq {"run", "write"}
  BY OthersKeep, MovesDo, RunIsTyped DEF LocksFit, GuardsFit, TypeOK, LeasesTypeOK
<1>1. CASE UNCHANGED leases /\ ~At(r, "queued")
  BY <1>0, <1>1, LocksQuiet DEF leases, Underway, Inside
<1>2. CASE At(r, "queued") /\ StopWaiting(Tree(r), r) /\ Go(r, "leaving")
  <2>1. place'[r] = "leaving" /\ "lease" \notin guards[r]
    BY <1>0, <1>2 DEF GuardsOf, Carries, At, Go, TypeOK
  <2>2. clones[r] = {}
    BY <1>0, <1>2, <2>1 DEF LockOf, At
  <2> QED BY <1>0, <1>2, <2>1, <2>2, LockLeft
<1>3. CASE LeaveWriting(r) /\ ~At(r, "queued") /\ Go(r, "leaving")
  <2>1. place'[r] = "leaving"
    BY <1>3 DEF Go, TypeOK
  <2> QED BY <1>0, <1>3, <2>1, LeftWriting
<1>4. CASE Look(r) \/ Decline(r) \/ Finish(r) \/ StopEarly(r) \/ Halt(r) \/ HaltDelivery(r) \/ HaltJob(r) \/ Panic(r)
  <2>1. UNCHANGED leases /\ ~At(r, "queued")
    BY <1>4 DEF Look, Decline, Finish, StopEarly, Halt, HaltDelivery, HaltJob, Panic, At
  <2> QED BY <1>1, <2>1
<1>5. CASE GiveUp(r) \/ Stopped(r) \/ Unwind(r)
  <2>1. \/ UNCHANGED leases /\ ~At(r, "queued")
        \/ At(r, "queued") /\ StopWaiting(Tree(r), r) /\ Go(r, "leaving")
        \/ LeaveWriting(r) /\ ~At(r, "queued") /\ Go(r, "leaving")
    BY <1>5 DEF GiveUp, Stopped, Unwind, MayWriteOn, At
  <2> QED BY <1>1, <1>2, <1>3, <2>1
<1> QED BY <1>4, <1>5 DEF Moves

\* A lock is its clones' or its first waiter's.
LEMMA NextLocks ==
    ASSUME TypeOK, PlacesFit, GuardsFit, LeavingFits, LocksFit, Next
    PROVE  LocksFit'
<1>1. CASE Stays
  <2>1. UNCHANGED <<call, place, guards>>
    BY <1>1, StaysDo DEF fixed
  <2>2. CASE UNCHANGED <<lock, queue, clones>>
    BY <2>1, <2>2 DEF LocksFit, LockOf, Belongs, Waiting, Tree, At
  <2>3. ASSUME NEW r \in Run, WriteEnds(r) PROVE LocksFit'
    <3>1. "write" \in clones[r] /\ DropClone(Tree(r), r, "write")
      BY <2>3 DEF WriteEnds
    <3>2. place[r] \in {"leaving", "gone"}
      BY <3>1 DEF LocksFit, LockOf
    <3> QED BY <2>1, <3>1, <3>2, CloneDropped
  <2> QED BY <1>1, <2>2, <2>3, StaysDo
<1>2. ASSUME NEW r \in Run, Leave(r) PROVE LocksFit'
  <2>1. /\ UNCHANGED <<leases, call, guards>> /\ At(r, "leaving") /\ place'[r] = "gone"
        /\ \A q \in Run \ {r} : place'[q] = place[q]
    BY <1>2 DEF Leave, fixed, Go, TypeOK
  <2> QED BY <2>1, LocksQuiet DEF leases
<1>3. ASSUME NEW r \in Run, LetGo(r) PROVE LocksFit'
  <2>1. PICK g \in guards[r] :
          /\ At(r, "leaving") /\ guards' = [guards EXCEPT ![r] = @ \ {g}]
          /\ IF g = "lease" THEN DropClone(Tree(r), r, "run")
             ELSE IF g \in {"mark", "holder"} THEN DropMark(Tree(r), r) ELSE UNCHANGED leases
          /\ UNCHANGED <<fixed, place, ends, shut, awaited>>
    BY <1>3, LetGoDoes
  <2>2. /\ UNCHANGED <<call, place>> /\ guards'[r] = guards[r] \ {g}
        /\ \A q \in Run \ {r} : guards'[q] = guards[q]
    BY <2>1 DEF fixed, TypeOK
  <2>3. CASE g = "lease"
    <3>1. "run" \in clones[r]
      BY <2>3 DEF LocksFit, LockOf
    <3> QED BY <2>1, <2>2, <2>3, <3>1, CloneDropped DEF At
  <2>4. CASE g # "lease"
    <3>1. UNCHANGED <<lock, queue, clones>>
      BY <2>1, <2>4 DEF DropMark, leases
    <3> QED BY <2>2, <2>4, <3>1, LocksQuiet
  <2> QED BY <2>3, <2>4
<1> QED BY <1>1, <1>2, <1>3, GetsLocks, MovesLocks, NextIsOne
-----------------------------------------------------------------------------
(* The names. *)

Names(r) == Marked(r) /\ ~At(r, "leaving") => mark[Tree(r)] = r
Named(c) == mark[c] # Free => Marked(mark[c]) /\ Tree(mark[c]) = c

\* A step that writes no name.
LEMMA NamesKept ==
    ASSUME TypeOK, HolderIsNamed, UNCHANGED <<call, mark>>,
           \A q \in Run : Marked(q)' <=> Marked(q),
           \A q \in Run : At(q, "leaving") => At(q, "leaving")' \/ ~Marked(q)
    PROVE  HolderIsNamed'
<1>1. ASSUME NEW c \in Checkout PROVE Named(c)'
  <2>1. CASE mark[c] # Free
    <3>1. PICK q \in Run : q = mark[c] /\ q = mark'[c]
      BY <2>1, RunIsTyped DEF TypeOK, LeasesTypeOK
    <3>2. Marked(q)' /\ Tree(q)' = c
      BY <2>1, <3>1 DEF HolderIsNamed, Tree
    <3> QED BY <3>1, <3>2 DEF Named, Marked, Tree
  <2> QED BY <2>1 DEF Named
<1>2. \A r \in Run : Names(r)'
  BY DEF HolderIsNamed, Names, Tree
<1> QED BY <1>1, <1>2 DEF HolderIsNamed, Names, Named

\* The name goes on a checkout whose lock is the run's, so nobody else's is on it.
LEMMA MarkNames ==
    ASSUME TypeOK, GuardsFit, LocksFit, HolderIsNamed, NEW r \in Run, Mark(r)
    PROVE  HolderIsNamed'
<1> DEFINE c == Tree(r)
<1>0. /\ c \in Checkout /\ call' = call /\ At(r, "marking")
      /\ mark' = [mark EXCEPT ![c] = r] /\ place'[r] # "leaving" /\ guards'[r] = guards[r] \cup {"mark"}
      /\ \A q \in Run \ {r} : place'[q] = place[q] /\ guards'[q] = guards[q]
      /\ r \in Holder /\ mark'[c] = r /\ \A d \in Checkout \ {c} : mark'[d] = mark[d]
      /\ \A d \in Checkout : mark[d] \in Run \cup {Free}
      /\ r # Free
  BY CallIsTyped, RunIsTyped DEF Mark, HoldAs, Hold, Go, fixed, TypeOK, LeasesTypeOK
<1>1. ASSUME NEW q \in Run, Marked(q) \/ q = r, ~At(q, "leaving") PROVE lock[Tree(q)] = q
  <2>1. LockOf(q) /\ GuardsOf(q) /\ place[q] \in Places
    BY DEF LocksFit, GuardsFit, TypeOK
  <2>2. place[q] \in Underway /\ Carries(q)
    BY <1>0, <1>1, <2>1 DEF GuardsOf, Marked, At, Places, Underway, Inside
  <2>3. "lease" \in guards[q]
    BY <1>0, <1>1, <2>2 DEF Carries, Marked, At
  <2> QED BY <2>1, <2>3 DEF LockOf
<1>2. ASSUME NEW q \in Run PROVE Names(q)'
  <2> SUFFICES ASSUME Marked(q)', ~At(q, "leaving")' PROVE mark'[Tree(q)'] = q
    BY DEF Names
  <2>1. Tree(q)' = Tree(q) /\ Tree(q) \in Checkout
    BY <1>0, CallIsTyped DEF Tree
  <2>2. CASE q = r
    BY <1>0, <2>1, <2>2
  <2>3. CASE q # r
    <3>1. Marked(q) /\ ~At(q, "leaving")
      BY <1>0, <2>3 DEF Marked, At
    <3>2. Tree(q) # c
      BY <1>0, <1>1, <2>3, <3>1 DEF At
    <3> QED BY <1>0, <2>1, <3>1, <3>2 DEF HolderIsNamed
  <2> QED BY <2>2, <2>3
<1>3. ASSUME NEW d \in Checkout PROVE Named(d)'
  <2> SUFFICES ASSUME mark'[d] # Free PROVE Named(d)'
    BY DEF Named
  <2>1. PICK q \in Run : q = mark'[d]
    BY <1>0
  <2>2. call'[q].checkout = d /\ guards'[q] \cap {"mark", "holder"} # {}
    <3>1. CASE d = c
      BY <1>0, <2>1, <3>1 DEF Tree
    <3>2. CASE d # c
      <4>1. mark[d] = q /\ q # Free
        BY <1>0, <2>1, <3>2
      <4>2. Marked(q) /\ Tree(q) = d
        BY <4>1 DEF HolderIsNamed
      <4> QED BY <1>0, <3>2, <4>2 DEF Marked, Tree
    <3> QED BY <3>1, <3>2
  <2> QED BY <2>1, <2>2 DEF Named, Marked, Tree
<1> QED BY <1>2, <1>3 DEF HolderIsNamed, Names, Named

\* Whoever drops its name leaves the next holder's.
LEMMA DropNames ==
    ASSUME TypeOK, LeavingFits, HolderIsNamed, NEW r \in Run, At(r, "leaving"), DropMark(Tree(r), r),
           UNCHANGED <<call, place>>, NEW g \in guards[r], g \in {"mark", "holder"},
           guards' = [guards EXCEPT ![r] = @ \ {g}]
    PROVE  HolderIsNamed'
<1> DEFINE c == Tree(r)
<1>0. /\ c \in Checkout /\ guards'[r] = guards[r] \ {g}
      /\ \A q \in Run \ {r} : guards'[q] = guards[q]
      /\ mark'[c] # r /\ (mark'[c] = mark[c] \/ mark'[c] = Free)
      /\ \A d \in Checkout \ {c} : mark'[d] = mark[d]
      /\ \A d \in Checkout : mark[d] \in Run \cup {Free}
      /\ ~("mark" \in guards[r] /\ "holder" \in guards[r])
  BY CallIsTyped, RunIsTyped DEF DropMark, TypeOK, LeasesTypeOK, LeavingFits, LeavingOf, MayCarry, At
<1>1. guards'[r] \cap {"mark", "holder"} = {}
  BY <1>0
<1>2. ASSUME NEW q \in Run PROVE Names(q)'
  <2> SUFFICES ASSUME Marked(q)', ~At(q, "leaving")' PROVE mark'[Tree(q)'] = q
    BY DEF Names
  <2>1. Tree(q)' = Tree(q) /\ Tree(q) \in Checkout /\ q # r
    BY <1>1, CallIsTyped DEF Tree, Marked
  <2>2. mark[Tree(q)] = q
    BY <1>0, <2>1 DEF HolderIsNamed, Marked, At
  <2>3. mark'[Tree(q)] = mark[Tree(q)]
    <3>1. CASE Tree(q) # c
      BY <1>0, <2>1, <3>1
    <3>2. CASE Tree(q) = c
      BY <2>1, <2>2, <3>2, <1>0 DEF DropMark, TypeOK, LeasesTypeOK
    <3> QED BY <3>1, <3>2
  <2> QED BY <2>1, <2>2, <2>3
<1>3. ASSUME NEW d \in Checkout PROVE Named(d)'
  <2> SUFFICES ASSUME mark'[d] # Free PROVE Named(d)'
    BY DEF Named
  <2>1. mark[d] # Free /\ mark'[d] = mark[d] /\ mark[d] \in Run
    BY <1>0
  <2>2. Marked(mark[d]) /\ Tree(mark[d]) = d
    BY <2>1 DEF HolderIsNamed
  <2>3. mark[d] # r
    <3>1. CASE d = c
      BY <1>0, <2>1, <3>1
    <3>2. CASE d # c
      BY <2>2, <3>2
    <3> QED BY <3>1, <3>2
  <2>4. PICK q \in Run \ {r} : q = mark'[d] /\ q = mark[d]
    BY <2>1, <2>3
  <2>5. call'[q].checkout = d /\ guards'[q] \cap {"mark", "holder"} # {}
    BY <1>0, <2>2, <2>4 DEF Marked, Tree
  <2> QED BY <2>4, <2>5 DEF Named, Marked, Tree
<1> QED BY <1>2, <1>3 DEF HolderIsNamed, Names, Named

\* The name on a checkout is its holder's.
LEMMA NextNames ==
    ASSUME TypeOK, PlacesFit, GuardsFit, LeavingFits, LocksFit, HolderIsNamed, Next
    PROVE  HolderIsNamed'
<1>1. CASE Stays
  BY <1>1, StaysDo, NamesKept DEF fixed, Marked, At
<1>2. ASSUME NEW r \in Run, Leave(r) PROVE HolderIsNamed'
  <2>1. /\ UNCHANGED <<call, mark, guards>> /\ guards[r] = {} 
        /\ \A q \in Run \ {r} : place'[q] = place[q]
    BY <1>2 DEF Leave, fixed, leases, Go, TypeOK
  <2> QED BY <2>1, NamesKept DEF Marked, At
<1>3. ASSUME NEW r \in Run, Moves(r) PROVE HolderIsNamed'
  <2>1. /\ UNCHANGED <<call, mark, guards>> /\ place[r] # "leaving"
        /\ \A q \in Run \ {r} : place'[q] = place[q]
    BY <1>3, MovesDo, OthersKeep DEF fixed, Underway, Inside
  <2> QED BY <2>1, NamesKept DEF Marked, At
<1>4. ASSUME NEW r \in Run, Gets(r), ~Mark(r) PROVE HolderIsNamed'
  <2>1. /\ call' = call
        /\ \A q \in Run \ {r} : place'[q] = place[q] /\ guards'[q] = guards[q]
    BY <1>4, OthersKeep
  <2>2. mark' = mark /\ place[r] # "leaving"
    BY <1>4 DEF Gets, Ask, Enter, Admit, AskJob, Deliver, EditTree, Acquire, Wake, Validate, leases, At,
                TryTake, Wait, Granted
  <2>3. \/ \E gs \in SUBSET {"permit", "row", "lease", "claim", "resumed", "over", "slot"} :
               Hold(r, gs) \/ Claimed(r, gs)
        \/ guards' = [guards EXCEPT ![r] = Settled(@)]
        \/ guards' = guards
    <3>1. CASE Ask(r) \/ AskJob(r) \/ EditTree(r) \/ Deliver(r)
      BY <3>1 DEF Ask, Reserve, AskJob, EditTree, Deliver
    <3>2. CASE Enter(r)
      BY <3>2 DEF Enter
    <3>3. CASE Admit(r)
      BY <3>3 DEF Admit
    <3>4. CASE Acquire(r) \/ Wake(r) \/ Validate(r)
      BY <3>4 DEF Acquire, Wake, Validate
    <3> QED BY <1>4, <3>1, <3>2, <3>3, <3>4 DEF Gets
  <2>4. \/ {"mark", "holder"} \cap guards'[r] = {"mark", "holder"} \cap guards[r]
        \/ guards'[r] = Settled(guards[r])
    BY <2>3 DEF Hold, Claimed, TypeOK
  <2>5. guards'[r] \cap {"mark", "holder"} # {} <=> guards[r] \cap {"mark", "holder"} # {}
    BY <2>4 DEF Settled
  <2>6. \A q \in Run : Marked(q)' <=> Marked(q)
    BY <2>1, <2>5 DEF Marked
  <2> QED BY <2>1, <2>2, <2>6, NamesKept DEF At
<1>5. ASSUME NEW r \in Run, LetGo(r) PROVE HolderIsNamed'
  <2>1. PICK g \in guards[r] :
          /\ At(r, "leaving") /\ guards' = [guards EXCEPT ![r] = @ \ {g}]
          /\ IF g = "lease" THEN DropClone(Tree(r), r, "run")
             ELSE IF g \in {"mark", "holder"} THEN DropMark(Tree(r), r) ELSE UNCHANGED leases
          /\ UNCHANGED <<fixed, place, ends, shut, awaited>>
    BY <1>5, LetGoDoes
  <2>2. UNCHANGED <<call, place>>
    BY <2>1 DEF fixed
  <2>3. CASE g \in {"mark", "holder"}
    BY <2>1, <2>2, <2>3, DropNames
  <2>4. CASE g \notin {"mark", "holder"}
    <3>1. mark' = mark
      BY <2>1, <2>4 DEF DropClone, leases
    <3>2. \A q \in Run : Marked(q)' <=> Marked(q)
      BY <2>1, <2>4 DEF Marked, TypeOK
    <3> QED BY <2>2, <3>1, <3>2, NamesKept DEF At
  <2> QED BY <2>3, <2>4
<1> QED BY <1>1, <1>2, <1>3, <1>4, <1>5, MarkNames, NextIsOne DEF Gets
-----------------------------------------------------------------------------
(* What stops with what. *)

\* A step that starts no run.
LEMMA StoppersKept ==
    ASSUME TypeOK, StoppersFit, \A q \in Run : ctx'[q].stoppers = ctx[q].stoppers,
           \A q \in Run : At(q, "idle")' => At(q, "idle")
    PROVE  StoppersFit'
BY DEF StoppersFit, TypeOK

\* A run asked for hangs from what its caller hangs from, and from itself at most.
LEMMA StoppersBorn ==
    ASSUME TypeOK, StoppersFit, NEW r \in Run, At(r, "idle"), ~At(r, "idle")',
           NEW ss \in SUBSET Run, ctx'[r].stoppers \in {ss, ss \cup {r}},
           \A s \in ss : ~At(s, "idle") /\ ctx[s].stoppers \subseteq ss,
           \A q \in Run \ {r} : ctx'[q] = ctx[q] /\ place'[q] = place[q]
    PROVE  StoppersFit'
<1>1. \A q \in Run : r \notin ctx[q].stoppers /\ ctx[q].stoppers \subseteq Run
  BY DEF StoppersFit, TypeOK
<1>2. r \notin ss
  OBVIOUS
<1>3. ASSUME NEW s \in ctx'[r].stoppers PROVE ~At(s, "idle")' /\ ctx'[s].stoppers \subseteq ctx'[r].stoppers
  <2>1. CASE s = r
    BY <2>1
  <2>2. CASE s # r
    <3>1. s \in ss /\ s \in Run \ {r}
      BY <1>3, <2>2
    <3> QED BY <3>1 DEF At
  <2> QED BY <2>1, <2>2
<1>4. ASSUME NEW q \in Run \ {r}, NEW s \in ctx'[q].stoppers
      PROVE  ~At(s, "idle")' /\ ctx'[s].stoppers \subseteq ctx'[q].stoppers
  <2>1. s \in Run \ {r} /\ ~At(s, "idle") /\ ctx[s].stoppers \subseteq ctx[q].stoppers
    BY <1>1, <1>4 DEF StoppersFit
  <2> QED BY <2>1 DEF At
<1> QED BY <1>3, <1>4 DEF StoppersFit

\* Where a step leaves what a run hangs from, and nobody becomes idle again.
LEMMA StoppersStay ==
    ASSUME TypeOK, Next, NEW q \in Run
    PROVE  /\ ctx'[q].stoppers = ctx[q].stoppers \/ Ask(q) \/ AskJob(q) \/ Deliver(q)
           /\ At(q, "idle")' => At(q, "idle")
<1> USE DEF At
<1>1. CASE Stays
  BY <1>1, StaysDo DEF fixed
<1>2. ASSUME NEW r \in Run \ {q}, Gets(r) \/ Moves(r) \/ LetGo(r) \/ Leave(r)
      PROVE  ctx'[q].stoppers = ctx[q].stoppers /\ (At(q, "idle")' => At(q, "idle"))
  BY <1>2, OthersKeep
<1>3. CASE Moves(q)
  BY <1>3, MovesDo DEF fixed, Go, TypeOK, Underway, Inside
<1>4. CASE LetGo(q) \/ Leave(q)
  BY <1>4 DEF LetGo, Leave, fixed, Go, TypeOK
<1>5. CASE Enter(q) \/ Acquire(q) \/ Wake(q) \/ Mark(q) \/ Validate(q)
  BY <1>5 DEF Enter, Acquire, Wake, Mark, Validate, fixed, Go, TypeOK
<1>6. CASE Admit(q) \/ EditTree(q)
  BY <1>6 DEF Admit, Register, EditTree, Go, TypeOK
<1>7. CASE Ask(q) \/ AskJob(q) \/ Deliver(q)
  BY <1>7 DEF Ask, AskJob, Deliver
<1> QED BY <1>1, <1>2, <1>3, <1>4, <1>5, <1>6, <1>7, NextIsOne DEF Gets

\* What stops a run stops what hangs from it.
LEMMA NextStoppers ==
    ASSUME TypeOK, StoppersFit, Next
    PROVE  StoppersFit'
<1>1. CASE \A q \in Run : ctx'[q].stoppers = ctx[q].stoppers
  BY <1>1, StoppersStay, StoppersKept
<1>2. ASSUME NEW r \in Run, Ask(r) \/ AskJob(r) \/ Deliver(r) PROVE StoppersFit'
  <2>0. /\ At(r, "idle") /\ \A q \in Run \ {r} : ctx'[q] = ctx[q] /\ place'[q] = place[q]
        /\ ctx \in [Run -> Contexts]
    BY <1>2, OthersKeep DEF Gets, Ask, AskJob, Deliver, TypeOK, Contexts
  <2>1. CASE ctx' = ctx
    BY <2>0, <2>1, StoppersStay, StoppersKept
  <2>2. CASE AskJob(r) /\ ctx' # ctx
    <3>1. ctx'[r].stoppers = {} \cup {r} /\ ~At(r, "idle")'
      BY <2>0, <2>2 DEF AskJob, NoContext, Go, At, TypeOK
    <3> QED BY <2>0, <3>1, {} \in SUBSET Run, StoppersBorn
  <2>3. CASE Deliver(r)
    <3>1. ctx'[r].stoppers = {} \cup {r} /\ ~At(r, "idle")'
      BY <2>0, <2>3 DEF Deliver, Go, At, TypeOK
    <3> QED BY <2>0, <3>1, {} \in SUBSET Run, StoppersBorn
  <2>4. CASE Ask(r) /\ ctx' # ctx
    <3>1. PICK bg \in BOOLEAN : Reserve(r, bg)
      BY <2>4 DEF Ask
    <3>2. ~At(r, "idle")' /\ ctx'[r] = Context(r, bg)
      BY <2>0, <3>1 DEF Reserve, Go, At, TypeOK
    <3>3. ctx'[r].stoppers \in {HostCtx(r).stoppers, HostCtx(r).stoppers \cup {r}}
      BY <3>2 DEF Context
    <3>4. Nested(r) => Host(r) \in Run
      BY <2>4, CallIsTyped, RunIsTyped DEF Ask
    <3>5. /\ HostCtx(r).stoppers \in SUBSET Run
          /\ \A s \in HostCtx(r).stoppers : ~At(s, "idle") /\ ctx[s].stoppers \subseteq HostCtx(r).stoppers
      <4>1. CASE Nested(r)
        BY <2>0, <3>4, <4>1 DEF HostCtx, StoppersFit, Contexts
      <4>2. CASE ~Nested(r)
        BY <4>2 DEF HostCtx, NoContext
      <4> QED BY <4>1, <4>2
    <3> QED BY <2>0, <3>2, <3>3, <3>5, StoppersBorn
  <2> QED BY <1>2, <2>1, <2>2, <2>3, <2>4
<1> QED BY <1>1, <1>2, StoppersStay

\* A token cancelled cancels what hangs from it, and tells it to stop.
LEMMA CancelsStop ==
    ASSUME TypeOK, StoppersFit, StopsWithItsOwner, NEW r \in Run, Cancels(r),
           UNCHANGED <<ctx, admitted>>, \A q \in Run : Live(q)' => Live(q)
    PROVE  StopsWithItsOwner'
<1>1. /\ cancelled' = cancelled \cup {r} \cup Hanging(r)
      /\ stop' = stop \cup {q \in {r} \cup Hanging(r) : Live(q)}
      /\ admitted \subseteq Run
  BY RunIsTyped DEF Cancels, Stops, TypeOK
<1>2. ASSUME NEW q \in admitted, Live(q), NEW s \in ctx[q].stoppers \ {q}, s \in cancelled'
      PROVE  q \in stop'
  <2>1. CASE s \in cancelled
    BY <1>1, <1>2, <2>1 DEF StopsWithItsOwner
  <2>2. CASE s = r
    BY <1>1, <1>2, <2>2 DEF Hanging
  <2>3. CASE s \in Hanging(r)
    <3>1. r \in ctx[s].stoppers /\ ctx[s].stoppers \subseteq ctx[q].stoppers
      BY <1>1, <1>2, <2>3 DEF Hanging, StoppersFit
    <3>2. q \in Hanging(r)
      BY <3>1 DEF Hanging
    <3> QED BY <1>1, <1>2, <3>2
  <2> QED BY <1>1, <1>2, <2>1, <2>2, <2>3
<1> QED BY <1>1, <1>2 DEF StopsWithItsOwner

\* Nobody else is cancelled, and who is told to stop is told until it is gone.
LEMMA StopsKept ==
    ASSUME StopsWithItsOwner, cancelled' = cancelled,
           \A q \in admitted' : q \in admitted /\ ctx'[q].stoppers = ctx[q].stoppers,
           \A q \in admitted : Live(q)' => Live(q) /\ (q \in stop => q \in stop')
    PROVE  StopsWithItsOwner'
BY DEF StopsWithItsOwner

\* What a stopped run started is told to stop.
LEMMA NextStops ==
    ASSUME TypeOK, PlacesFit, StoppersFit, StopsWithItsOwner, Next
    PROVE  StopsWithItsOwner'
<1>0. admitted \subseteq Run
  BY RunIsTyped DEF TypeOK
<1>1. CASE Stays
  <2>1. UNCHANGED <<ctx, admitted, place>>
    BY <1>1, StaysDo DEF fixed
  <2>2. CASE \E r \in Run : CancelDelivery(r)
    BY <2>1, <2>2, CancelsStop DEF CancelDelivery, Live
  <2>3. CASE ~\E r \in Run : CancelDelivery(r)
    <3>1. cancelled' = cancelled /\ stop \subseteq stop'
      BY <1>1, <2>3 DEF Stays, WriteEnds, CancelTask, Receive, Abandon, AbortAll, Shutdown, ShutdownReturns,
                        Stops, ends
    <3> QED BY <2>1, <3>1, StopsKept DEF Live
  <2> QED BY <2>2, <2>3
<1>2. ASSUME NEW r \in Run, Moves(r) PROVE StopsWithItsOwner'
  <2>1. /\ UNCHANGED <<ctx, admitted>> /\ place[r] \in Underway
        /\ \A q \in Run \ {r} : place'[q] = place[q]
    BY <1>2, MovesDo, OthersKeep DEF fixed
  <2>2. \A q \in Run : Live(q)' => Live(q)
    BY <2>1 DEF Live, Underway, Inside
  <2>3. CASE Halt(r)
    BY <2>1, <2>2, <2>3, CancelsStop DEF Halt
  <2>4. CASE ~Halt(r)
    <3>1. cancelled' = cancelled /\ stop' = stop
      BY <1>2, <2>4 DEF Moves, Look, Decline, Finish, GiveUp, StopEarly, HaltDelivery, HaltJob, Panic,
                        Stopped, Unwind, ends
    <3> QED BY <1>0, <2>1, <2>2, <3>1, StopsKept
  <2> QED BY <2>3, <2>4
<1>3. ASSUME NEW r \in Run, Leave(r) PROVE StopsWithItsOwner'
  <2>1. /\ UNCHANGED <<ctx, admitted, cancelled>> /\ stop' = stop \ {r} /\ place'[r] = "gone"
        /\ \A q \in Run \ {r} : place'[q] = place[q]
    BY <1>3, OthersKeep DEF Leave, fixed, Go, TypeOK
  <2> QED BY <1>0, <2>1, StopsKept DEF Live
<1>4. ASSUME NEW r \in Run, LetGo(r) PROVE StopsWithItsOwner'
  BY <1>0, <1>4, StopsKept DEF LetGo, fixed, ends, Live
<1>5. ASSUME NEW r \in Run, Gets(r) PROVE StopsWithItsOwner'
  <2>1. \A q \in Run \ {r} : place'[q] = place[q] /\ ctx'[q] = ctx[q] /\ (q \in admitted' <=> q \in admitted)
    BY <1>5, OthersKeep
  <2>2. CASE Ask(r) \/ Deliver(r) \/ EditTree(r)
    <3>1. UNCHANGED <<admitted, stop, cancelled>> /\ At(r, "idle")
      BY <2>2 DEF Ask, Deliver, EditTree, ends
    <3>2. r \notin admitted
      BY <3>1 DEF PlacesFit, PlaceOf, At, Inside
    <3>3. \A q \in admitted : q \in Run \ {r}
      BY <1>0, <3>2
    <3> QED BY <2>1, <3>1, <3>3, StopsKept DEF Live
  <2>3. CASE AskJob(r)
    <3>1. UNCHANGED <<stop, cancelled>> /\ At(r, "idle") /\ admitted' \subseteq admitted \cup {r}
      BY <2>3 DEF AskJob, ends
    <3>2. r \notin admitted
      BY <3>1 DEF PlacesFit, PlaceOf, At, Inside
    <3>3. r \in admitted' => ctx'[r].stoppers = {r}
      BY <2>3, <3>2 DEF AskJob, NoContext, TypeOK
    <3>4. ASSUME NEW q \in admitted', Live(q)', (ctx'[q].stoppers \ {q}) \cap cancelled' # {}
          PROVE  q \in stop'
      <4>1. q \in Run \ {r} /\ q \in admitted
        BY <1>0, <3>1, <3>3, <3>4
      <4> QED BY <2>1, <3>1, <3>4, <4>1 DEF StopsWithItsOwner, Live
    <3> QED BY <3>4 DEF StopsWithItsOwner
  <2>4. CASE Admit(r)
    <3>1. cancelled' = cancelled /\ At(r, "checking")
      BY <2>4 DEF Admit
    <3>2. r \notin admitted
      BY <3>1 DEF PlacesFit, PlaceOf, At, Inside
    <3>3. CASE UNCHANGED <<admitted, stop>>
      <4>1. \A q \in admitted : q \in Run \ {r}
        BY <1>0, <3>2
      <4> QED BY <2>1, <3>1, <3>3, <4>1, StopsKept DEF Live
    <3>4. CASE Register(r)
      <4>1. /\ admitted' = admitted \cup {r} /\ ctx'[r].stoppers = ctx[r].stoppers
            /\ stop' = IF (ctx[r].stoppers \ {r}) \cap cancelled # {} THEN stop \cup {r} ELSE stop
        BY <3>4 DEF Register, TypeOK
      <4>2. ASSUME NEW q \in admitted', Live(q)', (ctx'[q].stoppers \ {q}) \cap cancelled' # {}
            PROVE  q \in stop'
        <5>1. CASE q = r
          BY <3>1, <4>1, <4>2, <5>1
        <5>2. CASE q # r
          BY <1>0, <2>1, <3>1, <4>1, <4>2, <5>2 DEF StopsWithItsOwner, Live
        <5> QED BY <5>1, <5>2
      <4> QED BY <4>2 DEF StopsWithItsOwner
    <3> QED BY <2>4, <3>3, <3>4 DEF Admit
  <2>5. CASE Enter(r) \/ Acquire(r) \/ Wake(r) \/ Mark(r) \/ Validate(r)
    <3>1. UNCHANGED <<ctx, admitted, stop, cancelled>> /\ place[r] \notin {"idle", "gone"}
      BY <2>5 DEF Enter, Acquire, Wake, Mark, Validate, fixed, ends, At
    <3> QED BY <1>0, <2>1, <3>1, StopsKept DEF Live
  <2> QED BY <1>5, <2>2, <2>3, <2>4, <2>5 DEF Gets
<1> QED BY <1>1, <1>2, <1>3, <1>4, <1>5, NextIsOne
-----------------------------------------------------------------------------
(* The registry and the reports. *)

\* What a step does to the row and the report of the run that takes it.
LEMMA RowsKept ==
    ASSUME TypeOK, RowsFit, UNCHANGED <<shut, awaited>>, NEW r \in Run, admitted' \subseteq Run,
           \A q \in Run \ {r} : /\ guards'[q] = guards[q] /\ place'[q] = place[q]
                                /\ q \in admitted' <=> q \in admitted
                                /\ q \in died => q \in died'
                                /\ q \in registry => q \in registry',
           r \in admitted' => IF "row" \in guards'[r] THEN r \in registry' \cup awaited
                              ELSE guards'[r] \subseteq (IF r \in died' THEN {"permit"} ELSE {}),
           shut # "open" => registry' \subseteq registry,
           At(r, "gone") => At(r, "gone")'
    PROVE  RowsFit'
<1>2. ASSUME NEW q \in Run, q \in admitted'
      PROVE  IF "row" \in guards'[q] THEN q \in registry' \cup awaited'
             ELSE guards'[q] \subseteq (IF q \in died' THEN {"permit"} ELSE {})
  BY <1>2 DEF RowsFit
<1>3. \A q \in awaited : q \in Run
  BY RunIsTyped DEF TypeOK
<1>4. shut' = "done" => \A q \in awaited' : At(q, "gone")'
  BY <1>3 DEF RowsFit, At
<1>5. \A q \in admitted' : q \in Run
  OBVIOUS
<1> QED BY <1>2, <1>4, <1>5 DEF RowsFit

\* A row is in the registry or awaited, and goes after all its run holds.
LEMMA NextRows ==
    ASSUME TypeOK, TypeOK', PlacesFit, GuardsFit, LeavingFits, RowsFit, Next
    PROVE  RowsFit'
<1>0. admitted \subseteq Run /\ admitted' \subseteq Run /\ awaited \subseteq Run
  BY RunIsTyped DEF TypeOK
<1>1. CASE Stays
  <2>1. UNCHANGED <<admitted, place, guards, died>>
    BY <1>1, StaysDo DEF fixed
  <2>2. CASE Shutdown
    BY <2>1, <2>2 DEF Shutdown, RowsFit
  <2>3. CASE ShutdownReturns
    BY <2>1, <2>3 DEF ShutdownReturns, RowsFit, At
  <2>4. CASE UNCHANGED reg
    BY <2>1, <2>4 DEF reg, RowsFit, At
  <2>5. Shutdown \/ ShutdownReturns \/ UNCHANGED reg
    BY <1>1 DEF Stays, WriteEnds, CancelTask, CancelDelivery, Receive, Abandon, AbortAll
  <2> QED BY <2>2, <2>3, <2>4, <2>5
<1>2. ASSUME NEW r \in Run, Moves(r) PROVE RowsFit'
  <2>1. /\ UNCHANGED <<admitted, guards, registry, shut, awaited>> /\ place[r] \in Underway
        /\ \A q \in Run \ {r} : place'[q] = place[q] /\ (q \in died' <=> q \in died)
    BY <1>2, MovesDo, OthersKeep DEF fixed
  <2>2. r \in died => r \in died'
    BY <1>2 DEF Moves, Look, Decline, Finish, GiveUp, StopEarly, Halt, HaltDelivery, HaltJob, Panic,
                Stopped, Unwind, ends
  <2>3. r \in admitted => "row" \in guards[r]
    BY <2>1 DEF GuardsFit, GuardsOf, Carries
  <2>4. r \in admitted => r \in registry \cup awaited
    BY <2>3 DEF RowsFit
  <2> QED BY <1>0, <2>1, <2>2, <2>3, <2>4, RowsKept DEF At, Underway, Inside
<1>3. ASSUME NEW r \in Run, Leave(r) PROVE RowsFit'
  <2>1. /\ UNCHANGED <<admitted, guards, registry, shut, awaited, died>> /\ At(r, "gone")' /\ guards[r] = {}
        /\ \A q \in Run \ {r} : place'[q] = place[q]
    BY <1>3, OthersKeep DEF Leave, fixed, reg, Go, At, TypeOK
  <2> QED BY <1>0, <2>1, RowsKept
<1>4. ASSUME NEW r \in Run, LetGo(r) PROVE RowsFit'
  <2>1. PICK g \in guards[r] :
          /\ At(r, "leaving")
          /\ g = "row" => guards[r] \subseteq {"row"} \cup (IF r \in died THEN {"permit"} ELSE {})
          /\ guards' = [guards EXCEPT ![r] = @ \ {g}]
          /\ registry' = IF g = "row" THEN registry \ {r} ELSE registry
          /\ UNCHANGED <<fixed, place, ends, shut, awaited>>
    BY <1>4, LetGoDoes
  <2>2. /\ UNCHANGED <<admitted, died, shut, awaited, place>> /\ guards'[r] = guards[r] \ {g}
        /\ \A q \in Run \ {r} : guards'[q] = guards[q] /\ (q \in registry => q \in registry')
        /\ registry' \subseteq registry
    BY <2>1 DEF fixed, ends, TypeOK
  <2>3. r \in admitted => IF "row" \in guards'[r] THEN r \in registry' \cup awaited
                          ELSE guards'[r] \subseteq (IF r \in died' THEN {"permit"} ELSE {})
    <3>1. CASE "row" \in guards[r]
      BY <2>1, <2>2, <3>1 DEF RowsFit
    <3>2. CASE "row" \notin guards[r]
      BY <2>1, <2>2, <3>2 DEF RowsFit
    <3> QED BY <3>1, <3>2
  <2> QED BY <1>0, <2>1, <2>2, <2>3, RowsKept DEF At
<1>5. ASSUME NEW r \in Run, Gets(r) PROVE RowsFit'
  <2>1. /\ \A q \in Run \ {r} : /\ guards'[q] = guards[q] /\ place'[q] = place[q]
                                /\ q \in admitted' <=> q \in admitted
                                /\ q \in died' <=> q \in died
        /\ GuardsOf(r) /\ PlaceOf(r) /\ guards \in [Run -> SUBSET Guards]
    BY <1>5, OthersKeep DEF GuardsFit, PlacesFit, TypeOK
  <2>2. CASE Ask(r) \/ Deliver(r) \/ EditTree(r) \/ Enter(r)
    <3>1. UNCHANGED <<admitted, reg>> /\ (At(r, "idle") \/ At(r, "enter"))
      BY <2>2 DEF Ask, Deliver, EditTree, Enter, fixed
    <3>2. r \notin admitted
      BY <2>1, <3>1 DEF PlaceOf, At, Inside
    <3> QED BY <1>0, <2>1, <3>1, <3>2, RowsKept DEF reg, At
  <2>3. CASE AskJob(r) \/ Admit(r)
    <3>1. /\ UNCHANGED <<shut, awaited>> /\ (At(r, "idle") \/ At(r, "checking")) /\ registry \subseteq registry'
          /\ shut # "open" => registry' = registry
      BY <2>3 DEF AskJob, Admit, Register
    <3>2. r \notin admitted
      BY <2>1, <3>1 DEF PlaceOf, At, Inside
    <3>3. r \in admitted' => "row" \in guards'[r] /\ r \in registry'
      <4>1. CASE AskJob(r)
        BY <2>1, <3>2, <4>1 DEF AskJob, Hold
      <4>2. CASE Admit(r)
        BY <2>1, <3>2, <4>2 DEF Admit, Register, Claimed
      <4> QED BY <2>3, <4>1, <4>2
    <3> QED BY <1>0, <2>1, <3>1, <3>3, RowsKept DEF At
  <2>4. CASE Acquire(r) \/ Wake(r) \/ Mark(r) \/ Validate(r)
    <3>1. UNCHANGED <<admitted, reg>> /\ place[r] \in {"acquire", "queued", "marking", "validating"}
      BY <2>4 DEF Acquire, Wake, Mark, Validate, fixed, At
    <3>2. r \in admitted => "row" \in guards[r]
      BY <2>1, <3>1 DEF GuardsOf, Carries, Underway, Inside
    <3>3. r \in admitted => r \in registry \cup awaited
      BY <3>2 DEF RowsFit
    <3>4. "row" \in guards[r] => "row" \in guards'[r]
      BY <2>1, <2>4 DEF Acquire, Wake, Mark, Validate, Hold, Settled
    <3> QED BY <1>0, <2>1, <3>1, <3>2, <3>3, <3>4, RowsKept DEF reg, At
  <2> QED BY <1>5, <2>2, <2>3, <2>4 DEF Gets
<1> QED BY <1>1, <1>2, <1>3, <1>4, <1>5, NextIsOne

\* What one run has reported.
ReportOf(r) == IF r \in admitted THEN notices[r] = IF "permit" \in guards[r] THEN 0 ELSE 1
               ELSE notices[r] = 0

\* A run reports when its reservation goes, and not again.
LEMMA OneReports ==
    ASSUME TypeOK, GuardsFit, PlacesFit, LeavingFits, NEW r \in Run, ReportOf(r),
           Gets(r) \/ Moves(r) \/ LetGo(r) \/ Leave(r)
    PROVE  /\ ReportOf(r)'
           /\ r \in admitted => r \in admitted'
           /\ r \in admitted' /\ r \notin admitted => notices'[r] = 0
           /\ r \in admitted /\ notices[r] = 1 => notices'[r] = 1
<1>0. GuardsOf(r) /\ PlaceOf(r) /\ guards \in [Run -> SUBSET Guards]
  BY DEF GuardsFit, PlacesFit, TypeOK
<1>1. CASE Moves(r) \/ Leave(r)
  <2>1. UNCHANGED <<admitted, guards, notices>>
    BY <1>1, MovesDo DEF Leave, fixed, sent
  <2> QED BY <2>1 DEF ReportOf
<1>2. CASE LetGo(r)
  <2>1. PICK g \in guards[r] :
          /\ guards' = [guards EXCEPT ![r] = @ \ {g}]
          /\ IF g = "permit" THEN Report(r) ELSE UNCHANGED sent
          /\ UNCHANGED <<fixed, place, ends, shut, awaited>>
    BY <1>2, LetGoDoes
  <2>2. admitted' = admitted /\ guards'[r] = guards[r] \ {g}
    BY <2>1 DEF fixed, TypeOK
  <2>3. CASE g = "permit"
    <3>1. notices'[r] = IF r \in admitted THEN notices[r] + 1 ELSE notices[r]
      BY <2>1, <2>3 DEF Report, sent, TypeOK
    <3> QED BY <2>2, <2>3, <3>1 DEF ReportOf
  <2>4. CASE g # "permit"
    BY <2>1, <2>2, <2>4 DEF ReportOf, sent
  <2> QED BY <2>3, <2>4
<1>3. CASE Ask(r) \/ Deliver(r) \/ EditTree(r) \/ Enter(r)
  <2>1. UNCHANGED <<admitted, sent>> /\ (At(r, "idle") \/ At(r, "enter"))
    BY <1>3 DEF Ask, Deliver, EditTree, Enter, fixed
  <2>2. r \notin admitted
    BY <1>0, <2>1 DEF PlaceOf, At, Inside
  <2> QED BY <2>1, <2>2 DEF ReportOf, sent
<1>4. CASE AskJob(r) \/ Admit(r)
  <2>1. notices' = notices /\ (At(r, "idle") \/ At(r, "checking"))
    BY <1>4 DEF AskJob, Admit, sent
  <2>2. r \notin admitted
    BY <1>0, <2>1 DEF PlaceOf, At, Inside
  <2>3. r \in admitted' => "permit" \in guards'[r]
    <3>1. CASE AskJob(r)
      BY <1>0, <2>2, <3>1 DEF AskJob, Hold
    <3>2. CASE Admit(r) /\ r \in detached
      <4>1. "permit" \in guards[r]
        BY <1>0, <3>2 DEF Admit, GuardsOf, Carries, At, Underway
      <4> QED BY <1>0, <3>2, <4>1 DEF Admit, Claimed
    <3>3. CASE Admit(r) /\ r \notin detached
      BY <2>2, <3>3 DEF Admit
    <3> QED BY <1>4, <3>1, <3>2, <3>3
  <2> QED BY <2>1, <2>2, <2>3 DEF ReportOf
<1>5. CASE Acquire(r) \/ Wake(r) \/ Mark(r) \/ Validate(r)
  <2>1. UNCHANGED <<admitted, sent>>
    BY <1>5 DEF Acquire, Wake, Mark, Validate, fixed
  <2>2. "permit" \in guards'[r] <=> "permit" \in guards[r]
    BY <1>0, <1>5 DEF Acquire, Wake, Mark, Validate, Hold, Settled
  <2> QED BY <2>1, <2>2 DEF ReportOf, sent
<1> QED BY <1>1, <1>2, <1>3, <1>4, <1>5 DEF Gets

\* A reservation is there until the one report.
LEMMA NextReports ==
    ASSUME TypeOK, GuardsFit, PlacesFit, LeavingFits, ReportsFit, Next
    PROVE  ReportsFit'
<1>0. \A r \in Run : ReportOf(r)
  BY DEF ReportsFit, ReportOf
<1>1. CASE Stays
  BY <1>1, StaysDo DEF fixed, ReportsFit
<1>2. ASSUME NEW r \in Run, Gets(r) \/ Moves(r) \/ LetGo(r) \/ Leave(r) PROVE ReportsFit'
  <2>1. ReportOf(r)'
    BY <1>0, <1>2, OneReports
  <2>2. \A q \in Run \ {r} : ReportOf(q)'
    BY <1>0, <1>2, OthersKeep DEF ReportOf
  <2> QED BY <2>1, <2>2 DEF ReportsFit, ReportOf
<1> QED BY <1>1, <1>2, NextIsOne
-----------------------------------------------------------------------------
(* Calls inside calls. *)

\* A step of one run disturbs its own nest.
LEMMA NestsStep ==
    ASSUME TypeOK, NestsFit, NEW r \in Run, call' = call,
           \A q \in Run \ {r} : place'[q] = place[q] /\ ctx'[q] = ctx[q],
           NestOf(r)', At(r, "idle")' => At(r, "idle"),
           ctx'[r].inside \subseteq ctx[r].inside \/ At(r, "idle")
    PROVE  NestsFit'
<1>1. ASSUME NEW q \in Run \ {r} PROVE NestOf(q)'
  <2>1. NestOf(q) /\ ctx'[q] = ctx[q] /\ place'[q] = place[q]
    BY DEF NestsFit
  <2>2. \A h \in ctx[q].inside \cap Run : place'[h] # "idle" /\ ctx'[h].inside \subseteq ctx[q].inside
    BY <2>1 DEF NestOf, At
  <2> QED BY <2>1, <2>2 DEF NestOf, At, Nested, SameTree, HostTree, Host, Tree, Live
<1>2. IsFiniteSet({q \in Run : ~At(q, "idle")})'
  <2> DEFINE S == {q \in Run : ~At(q, "idle")}
  <2>1. IsFiniteSet(S) /\ S' \in SUBSET (S \cup {r})
    BY DEF NestsFit, At
  <2>2. IsFiniteSet(S \cup {r})
    BY <2>1, FS_AddElement
  <2> HIDE DEF S
  <2>3. IsFiniteSet(S')
    BY <2>1, <2>2, FS_Subset
  <2> QED BY <2>3 DEF S
<1> QED BY <1>1, <1>2 DEF NestsFit

\* A run goes on where it was, inside what it was inside of.
LEMMA NestsQuiet ==
    ASSUME TypeOK, NestsFit, NEW r \in Run, call' = call,
           \A q \in Run \ {r} : place'[q] = place[q] /\ ctx'[q] = ctx[q],
           ctx'[r].inside = ctx[r].inside, At(r, "idle")' => At(r, "idle"),
           Live(r)' => Live(r), At(r, "queued")' => At(r, "queued") \/ ~Nested(r)
    PROVE  NestsFit'
<1>1. NestOf(r)
  BY DEF NestsFit
<1>2. \A h \in ctx[r].inside \cap Run : place'[h] # "idle" /\ ctx'[h].inside \subseteq ctx[r].inside
  BY <1>1 DEF NestOf, At
<1>3. NestOf(r)'
  BY <1>1, <1>2 DEF NestOf, At, Nested, SameTree, HostTree, Host, Tree
<1> QED BY <1>3, NestsStep

\* A run that stands in no other's future.
LEMMA NestsAlone ==
    ASSUME TypeOK, NestsFit, NEW r \in Run, call' = call,
           \A q \in Run \ {r} : place'[q] = place[q] /\ ctx'[q] = ctx[q],
           ctx'[r].inside \in {{}, {Root}}, ~At(r, "idle")', ~At(r, "queued")',
           Live(r) \/ ~Nested(r), At(r, "idle") \/ ctx'[r].inside = {}
    PROVE  NestsFit'
<1>1. NestOf(r) /\ Root \notin Run
  BY RunIsTyped DEF NestsFit, Tops
<1>2. IsFiniteSet(ctx'[r].inside) /\ ctx'[r].inside \cap Run = {}
  <2>1. IsFiniteSet({}) /\ IsFiniteSet({Root})
    BY FS_EmptySet, FS_Singleton
  <2> QED BY <1>1, <2>1
<1>3. NestOf(r)'
  BY <1>1, <1>2 DEF NestOf, At, Nested, SameTree, HostTree, Host, Tree
<1> QED BY <1>3, NestsStep

\* A call inside a turn is inside what its caller is inside of.
LEMMA AskNests ==
    ASSUME TypeOK, NestsFit, NEW r \in Run, Ask(r), place'[r] # "gone"
    PROVE  NestsFit'
<1>0. /\ call' = call /\ \A q \in Run \ {r} : place'[q] = place[q] /\ ctx'[q] = ctx[q]
      /\ At(r, "idle") /\ HostPolls(r) /\ Host(r) # Free /\ ~Go(r, "gone")
  BY OthersKeep DEF Gets, Ask, Go, TypeOK
<1>1. Allowed(r) /\ \E bg \in BOOLEAN : Reserve(r, bg)
  BY <1>0 DEF Ask
<1>2. place'[r] = "look" /\ ctx'[r].inside = HostCtx(r).inside \cup {Host(r)}
  BY <1>1 DEF Reserve, Go, Context, TypeOK
<1>3. /\ IsFiniteSet(HostCtx(r).inside) /\ r \notin HostCtx(r).inside /\ Host(r) # r
      /\ \A h \in (HostCtx(r).inside \cup {Host(r)}) \cap Run :
            /\ h \in Run \ {r} /\ ~At(h, "idle")
            /\ ctx[h].inside \subseteq HostCtx(r).inside \cup {Host(r)}
      /\ (HostCtx(r).inside \cup {Host(r)}) \cap Run # {} => Nested(r)
  <2>1. CASE Nested(r)
    <3>1. Host(r) \in Run /\ At(Host(r), "turn") /\ HostCtx(r) = ctx[Host(r)]
      BY <1>0, <2>1, CallIsTyped, RunIsTyped DEF HostPolls, HostCtx
    <3>2. NestOf(Host(r)) /\ Host(r) # r
      BY <1>0, <3>1 DEF NestsFit, At
    <3>3. \A h \in ctx[Host(r)].inside \cap Run : ~At(h, "idle") /\ ctx[h].inside \subseteq ctx[Host(r)].inside
      BY <3>2 DEF NestOf
    <3>4. \A h \in Run : ~At(h, "idle") => h # r
      BY <1>0
    <3>5. ~At(Host(r), "idle") /\ IsFiniteSet(ctx[Host(r)].inside)
      BY <3>1, <3>2 DEF At, NestOf
    <3> QED BY <2>1, <3>1, <3>2, <3>3, <3>4, <3>5
  <2>2. CASE ~Nested(r)
    <3>1. HostCtx(r).inside = {} /\ Host(r) \notin Run
      BY <2>2, CallIsTyped, RunIsTyped DEF HostCtx, NoContext
    <3> QED BY <3>1, FS_EmptySet
  <2> QED BY <2>1, <2>2
<1>4. IsFiniteSet(ctx'[r].inside) /\ r \notin ctx'[r].inside
  BY <1>2, <1>3, FS_AddElement
<1>5. \A h \in ctx'[r].inside \cap Run : place'[h] # "idle" /\ ctx'[h].inside \subseteq ctx'[r].inside
  BY <1>0, <1>2, <1>3 DEF At
<1>6. ctx'[r].inside \cap Run # {} => Nested(r)
  BY <1>2, <1>3
<1>7. Nested(r) /\ call[r].writes => ~SameTree(r)
  BY <1>1 DEF Allowed
<1>8. NestOf(r)'
  BY <1>0, <1>2, <1>4, <1>5, <1>6, <1>7 DEF NestOf, At, Nested, SameTree, HostTree, Host, Tree
<1> QED BY <1>0, <1>2, <1>8, NestsStep DEF At

\* A call is inside what its caller is inside of, and no waiter is.
LEMMA NextNests ==
    ASSUME TypeOK, PlacesFit, NestsFit, Next
    PROVE  NestsFit'
<1>1. CASE Stays
  <2>1. UNCHANGED <<call, ctx, place>>
    BY <1>1, StaysDo DEF fixed
  <2> QED BY <2>1 DEF NestsFit, NestOf, At, Nested, SameTree, HostTree, Host, Tree, Live
<1>2. ASSUME NEW r \in Run, Moves(r) \/ LetGo(r) \/ Leave(r) PROVE NestsFit'
  <2>1. /\ UNCHANGED <<call, ctx>> /\ \A q \in Run \ {r} : place'[q] = place[q]
        /\ place'[r] = place[r] \/ (place[r] \notin {"idle", "gone"} /\ place'[r] \notin {"idle", "queued"})
    BY <1>2, OthersKeep, MovesDo DEF LetGo, Leave, fixed, Go, At, TypeOK, Underway, Inside
  <2> QED BY <2>1, NestsQuiet DEF At, Live
<1>3. ASSUME NEW r \in Run, Gets(r) PROVE NestsFit'
  <2>0. /\ call' = call /\ \A q \in Run \ {r} : place'[q] = place[q] /\ ctx'[q] = ctx[q]
        /\ place \in [Run -> Places] /\ ctx \in [Run -> Contexts]
    BY <1>3, OthersKeep DEF TypeOK, Contexts
  <2>1. CASE Ask(r)
    <3>1. CASE place'[r] = "gone"
      <4>1. ctx' = ctx
        BY <2>0, <2>1, <3>1 DEF Ask, Reserve, Go
      <4> QED BY <2>0, <3>1, <4>1, NestsQuiet DEF At, Live
    <3> QED BY <2>1, <3>1, AskNests
  <2>2. CASE AskJob(r) \/ EditTree(r)
    <3>1. ~Nested(r) /\ At(r, "idle") /\ Root \in Tops
      BY <2>2 DEF AskJob, EditTree, Nested, Tops
    <3>2. \/ place'[r] = "gone" /\ ctx' = ctx
          \/ place'[r] \in {"acquire", "turn"} /\ ctx'[r].inside \in {{}, {Root}}
      BY <2>0, <2>2 DEF AskJob, EditTree, NoContext, Go, Contexts
    <3>3. CASE place'[r] = "gone" /\ ctx' = ctx
      BY <2>0, <3>3, NestsQuiet DEF At, Live
    <3>4. CASE place'[r] \in {"acquire", "turn"} /\ ctx'[r].inside \in {{}, {Root}}
      BY <2>0, <3>1, <3>4, NestsAlone DEF At
    <3> QED BY <3>2, <3>3, <3>4
  <2>3. CASE Deliver(r)
    <3>1. /\ ~Nested(r) /\ At(r, "idle")
          /\ place'[r] = "acquire" /\ ctx'[r].inside = {}
      BY <2>0, <2>3 DEF Deliver, Nested, Tops, Go
    <3> QED BY <2>0, <3>1, NestsAlone DEF At
  <2>4. CASE Enter(r) \/ Wake(r) \/ Mark(r) \/ Validate(r)
    <3>1. /\ ctx' = ctx /\ place[r] \notin {"idle", "gone"} /\ place'[r] \notin {"idle", "queued"}
      BY <2>0, <2>4 DEF Enter, Wake, Mark, Validate, fixed, Go, At
    <3> QED BY <2>0, <3>1, NestsQuiet DEF At, Live
  <2>5. CASE Acquire(r)
    <3>1. ctx' = ctx /\ At(r, "acquire") /\ place'[r] # "idle"
      BY <2>0, <2>5 DEF Acquire, fixed, Go
    <3>2. place'[r] = "queued" => call[r].writes /\ ~Cross(r)
      BY <2>0, <2>5 DEF Acquire, Go
    <3>3. place'[r] = "queued" => ~Nested(r)
      BY <3>1, <3>2 DEF NestsFit, NestOf, Cross, Live, At
    <3> QED BY <2>0, <3>1, <3>3, NestsQuiet DEF At, Live
  <2>6. CASE Admit(r)
    <3>1. At(r, "checking") /\ place'[r] \in {"leaving", "acquire"}
          /\ ctx'[r].inside \in {{}, ctx[r].inside}
      BY <2>0, <2>6 DEF Admit, Register, Go, Contexts
    <3>2. CASE ctx'[r].inside = {}
      BY <2>0, <3>1, <3>2, NestsAlone DEF At, Live
    <3>3. CASE ctx'[r].inside = ctx[r].inside
      BY <2>0, <3>1, <3>3, NestsQuiet DEF At, Live
    <3> QED BY <3>1, <3>2, <3>3
  <2> QED BY <1>3, <2>1, <2>2, <2>3, <2>4, <2>5, <2>6 DEF Gets
<1> QED BY <1>1, <1>2, <1>3, NextIsOne
-----------------------------------------------------------------------------
(* The inductive invariant is one. *)

\* It holds at the start.
LEMMA InitFits ==
    ASSUME Init
    PROVE  IInv
<1> USE DEF Init, LeasesInit
<1>0. call \in [Run -> Call] /\ Holder = Run /\ Free \notin Run
  BY PlansAssumption, RunIsTyped
<1>1. TypeOK
  <2>1. <<>> \in Seq(Holder) /\ IsInjective(<<>>)
    BY EmptySeq DEF IsInjective
  <2>2. LeasesTypeOK
    BY <2>1 DEF LeasesTypeOK
  <2>3. ctx \in [Run -> Contexts]
    BY DEF NoContext, Contexts
  <2> QED BY <2>2, <2>3 DEF TypeOK, Contexts, Places
<1>2. PlacesFit /\ GuardsFit /\ LeavingFits
  BY DEF PlacesFit, PlaceOf, GuardsFit, GuardsOf, LeavingFits, LeavingOf, Underway, Inside
<1>3. SlotsFit
  <2>1. \A gs : Holding(gs) = {} /\ Counts(gs) = Cardinality({})
    BY DEF Holding, Counts
  <2>2. IsFiniteSet({}) /\ Cardinality({}) = 0 /\ 0 <= MaxConcurrent
    BY FS_EmptySet, LimitsAssumption
  <2> QED BY <2>1, <2>2 DEF SlotsFit, SlotsAreCounted
<1>4. ClaimsFit
  BY DEF ClaimsFit, HasSession
<1>5. LocksFit
  BY <1>0 DEF LocksFit, LockOf, Belongs, Waiting
<1>6. HolderIsNamed
  BY DEF HolderIsNamed, Marked
<1>7. StoppersFit /\ StopsWithItsOwner /\ RowsFit /\ ReportsFit
  BY DEF StoppersFit, StopsWithItsOwner, RowsFit, ReportsFit, NoContext
<1>8. NestsFit
  <2>1. {r \in Run : ~At(r, "idle")} = {}
    BY DEF At
  <2> QED BY <2>1, FS_EmptySet DEF NestsFit, NestOf, NoContext, At, Live
<1> QED BY <1>1, <1>2, <1>3, <1>4, <1>5, <1>6, <1>7, <1>8 DEF IInv

\* It is kept by every step.
LEMMA NextKeeps ==
    ASSUME IInv, [Next]_vars
    PROVE  IInv'
<1>1. CASE Next
  <2>1. /\ TypeOK /\ PlacesFit /\ GuardsFit /\ LeavingFits /\ SlotsFit /\ ClaimsFit /\ LocksFit
        /\ HolderIsNamed /\ StoppersFit /\ StopsWithItsOwner /\ RowsFit /\ ReportsFit /\ NestsFit
    BY DEF IInv
  <2>2. TypeOK'
    BY <1>1, NextTyped
  <2>3. PlacesFit' /\ GuardsFit' /\ LeavingFits'
    BY <1>1, <2>1, NextFits
  <2>4. SlotsFit' /\ ClaimsFit' /\ LocksFit' /\ HolderIsNamed'
    BY <1>1, <2>1, NextCounts, NextClaims, NextLocks, NextNames
  <2>5. StoppersFit' /\ StopsWithItsOwner' /\ RowsFit' /\ ReportsFit' /\ NestsFit'
    BY <1>1, <2>1, <2>2, NextStoppers, NextStops, NextRows, NextReports, NextNests
  <2> QED BY <2>2, <2>3, <2>4, <2>5 DEF IInv
<1>2. CASE UNCHANGED vars
  <2>1. UNCHANGED <<lock, queue, clones, mark, call, ctx, detached, admitted, place, guards,
                    stop, cancelled, cut, died, active, running, registry, shut, awaited,
                    channel, notices>>
    BY <1>2 DEF vars, leases, fixed, ends, pools, reg, sent
  <2>2. TypeOK' /\ LocksFit'
    BY <2>1 DEF IInv, TypeOK, LeasesTypeOK, LocksFit, LockOf, Belongs, Waiting, At, Tree
  <2>6. SlotsFit' /\ ClaimsFit'
    BY <2>1, SlotsKept, ClaimsKept DEF IInv, HasSession
  <2>7. HolderIsNamed'
    BY <2>1, NamesKept DEF IInv, Marked, At
  <2>3. PlacesFit' /\ GuardsFit' /\ LeavingFits'
    BY <2>1 DEF IInv, PlacesFit, PlaceOf, GuardsFit, GuardsOf, LeavingFits, LeavingOf, Carries, MayCarry
  <2>4. StoppersFit' /\ StopsWithItsOwner' /\ RowsFit' /\ ReportsFit'
    BY <2>1 DEF IInv, StoppersFit, StopsWithItsOwner, RowsFit, ReportsFit, At, Live
  <2>5. NestsFit'
    BY <2>1 DEF IInv, NestsFit, NestOf, At, Live, Nested, SameTree, HostTree, Host, Tree
  <2> QED BY <2>2, <2>3, <2>4, <2>5, <2>6, <2>7 DEF IInv
<1> QED BY <1>1, <1>2

\* What each run holds at each place, and all that follows from it, is an
\* invariant of the background runs, whatever the plan, the limits and the number
\* of runs.
THEOREM Invariance == Spec => []IInv
<1>1. Init => IInv
  BY InitFits
<1>2. IInv /\ [Next]_vars => IInv'
  BY NextKeeps
<1> QED BY <1>1, <1>2, PTL DEF Spec

-----------------------------------------------------------------------------
(* The properties. *)

\* Who is in a turn has its session, and a session is had by one.
LEMMA Sessions == ASSUME IInv PROVE OneTurnPerSession
<1>1. ASSUME NEW r \in Task \cup Delivery, InTurn(r) PROVE HasSession(r) /\ r \in Run
  <2>1. r \in Run /\ GuardsOf(r)
    BY RunIsTyped DEF IInv, GuardsFit
  <2>2. Carries(r)
    BY <1>1, <2>1 DEF GuardsOf, InTurn, Underway, Inside
  <2> QED BY <1>1, <2>1, <2>2 DEF Carries, InTurn, HasSession, Inside
<1> QED BY <1>1 DEF IInv, ClaimsFit, OneTurnPerSession

\* Who writes has the lock of its checkout, and a lock belongs to one.
LEMMA Writers == ASSUME IInv PROVE WritersExclude
<1>1. ASSUME NEW r \in Run, Writing(r) PROVE lock[Tree(r)] = r
  <2>1. GuardsOf(r) /\ LockOf(r)
    BY DEF IInv, GuardsFit, LocksFit
  <2>2. CASE "write" \in clones[r]
    BY <2>1, <2>2 DEF LockOf
  <2>3. CASE call[r].writes /\ InTurn(r)
    <3>1. Carries(r)
      BY <2>1, <2>3 DEF GuardsOf, InTurn, Underway, Inside
    <3>2. "lease" \in guards[r]
      BY <2>3, <3>1 DEF Carries, InTurn
    <3> QED BY <2>1, <3>2 DEF LockOf
  <2> QED BY <1>1, <2>2, <2>3 DEF Writing
<1> QED BY <1>1 DEF WritersExclude

\* Who still has a row is awaited, and whoever is awaited is gone.
LEMMA Closing == ASSUME IInv PROVE ShutdownIsComplete
<1>1. SUFFICES ASSUME shut = "done", NEW r \in admitted
               PROVE  guards[r] \subseteq (IF r \in died THEN {"permit"} ELSE {})
  BY DEF ShutdownIsComplete
<1>2. CASE "row" \in guards[r]
  <2>1. r \in awaited
    BY <1>1, <1>2 DEF IInv, RowsFit
  <2>2. At(r, "gone") /\ r \in Run
    BY <1>1, <2>1, RunIsTyped DEF IInv, RowsFit, TypeOK
  <2>3. guards[r] = {}
    BY <2>2 DEF IInv, GuardsFit, GuardsOf, At
  <2> QED BY <2>3
<1>3. CASE "row" \notin guards[r]
  BY <1>3 DEF IInv, RowsFit
<1> QED BY <1>2, <1>3

\* A set of numbers has a least one.
LEMMA Minimum ==
    ASSUME NEW P \in SUBSET Nat, P # {}
    PROVE  \E i \in P : \A j \in P : ~(j < i)
<1>1. PICK i \in P : \A j \in P : ~ (<<j, i>> \in OpToRel(<, Nat))
  BY WFMin, NatLessThanWellFounded
<1>2. \A j \in P : ~(j < i)
  BY <1>1 DEF OpToRel
<1> QED BY <1>2

\* A chain of calls inside calls ends at a turn nothing in the set runs in, and a
\* queue at its first waiter.
LEMMA Waits == ASSUME IInv PROVE NoCircularWait
<1> DEFINE waiting == {r \in Run : \E q \in Run : WaitsFor(r, q)}
<1> SUFFICES ASSUME NEW D \in (SUBSET waiting) \ {{}}, \A r \in D : \E q \in D : WaitsFor(r, q)
             PROVE  FALSE
  BY DEF NoCircularWait
<1>1. /\ D \subseteq Run /\ D # {} /\ \A r \in D : \E q \in D : WaitsFor(r, q)
      /\ \A r \in D : (At(r, "queued") /\ lock[Tree(r)] # r) \/ At(r, "turn")
  BY DEF WaitsFor
<1> HIDE DEF waiting
<1>2. CASE \E r \in D : At(r, "turn")
  <2> DEFINE S == {r \in Run : ~At(r, "idle")}
             Room(r) == S \ ctx[r].inside
             Rooms == {Cardinality(Room(r)) : r \in {q \in D : At(q, "turn")}}
  <2>1. \A r \in Run : IsFiniteSet(Room(r)) /\ Cardinality(Room(r)) \in Nat
    <3>1. IsFiniteSet(S)
      BY DEF IInv, NestsFit
    <3>2. \A r \in Run : Room(r) \in SUBSET S
      OBVIOUS
    <3> HIDE DEF S, Room
    <3> QED BY <3>1, <3>2, FS_Subset, FS_CardinalityType
  <2>2. Rooms \in SUBSET Nat /\ Rooms # {}
    BY <1>1, <1>2, <2>1
  <2>3. PICK r \in D : At(r, "turn") /\ \A q \in D : At(q, "turn") => ~(Cardinality(Room(q)) < Cardinality(Room(r)))
    <3> HIDE DEF Room
    <3>1. PICK n \in Rooms : \A m \in Rooms : ~(m < n)
      BY <2>2, Minimum
    <3> QED BY <3>1
  <2>4. PICK q \in D : r \in ctx[q].inside
    BY <1>1, <2>3 DEF WaitsFor, Within, At
  <2>5. r \in Run /\ q \in Run /\ NestOf(r) /\ NestOf(q)
    BY <1>1 DEF IInv, NestsFit
  <2>6. At(q, "turn")
    BY <1>1, <2>4, <2>5 DEF NestOf
  <2>7. Room(q) \in SUBSET (Room(r) \ {r}) /\ r \in Room(r)
    BY <2>3, <2>4, <2>5 DEF NestOf, At
  <2> HIDE DEF Room
  <2>8. /\ IsFiniteSet(Room(r) \ {r}) /\ Cardinality(Room(r) \ {r}) = Cardinality(Room(r)) - 1
        /\ Cardinality(Room(q)) <= Cardinality(Room(r) \ {r})
    BY <2>1, <2>5, <2>7, FS_RemoveElement, FS_Subset
  <2>9. Cardinality(Room(q)) < Cardinality(Room(r))
    BY <2>1, <2>5, <2>8
  <2> QED BY <2>3, <2>6, <2>9
<1>3. CASE ~\E r \in D : At(r, "turn")
  <2>1. /\ \A r \in D : At(r, "queued") /\ lock[Tree(r)] # r /\ Tree(r) \in Checkout
        /\ \A r \in D : \A i \in DOMAIN queue[Tree(r)] : Tree(queue[Tree(r)][i]) = Tree(r)
        /\ \A r \in D : lock[Tree(r)] # Free => Tree(lock[Tree(r)]) = Tree(r)
        /\ \A r \in D : DOMAIN queue[Tree(r)] \subseteq Nat /\ IsInjective(queue[Tree(r)])
        /\ \A r \in D : r # Free
    <3>1. \A r \in D : Tree(r) \in Checkout /\ r # Free /\ r \in Run
      BY <1>1, CallIsTyped, RunIsTyped DEF IInv
    <3>2. \A c \in Checkout : Belongs(c) /\ Waiting(c)
      BY DEF IInv, LocksFit
    <3>3. \A c \in Checkout : queue[c] \in Seq(Holder) /\ IsInjective(queue[c])
      BY DEF IInv, TypeOK, LeasesTypeOK
    <3>4. \A c \in Checkout : DOMAIN queue[c] \subseteq Nat
      BY <3>3, LenProperties
    <3> QED BY <1>1, <1>3, <3>1, <3>2, <3>3, <3>4 DEF Belongs, Waiting
  <2>2. ASSUME NEW r \in D
        PROVE  \E i, j \in DOMAIN queue[Tree(r)] : i < j /\ queue[Tree(r)][i] \in D /\ queue[Tree(r)][j] = r
    <3>1. PICK q \in D : WaitsFor(r, q)
      BY <1>1
    <3>2. q # lock[Tree(r)]
      BY <2>1
    <3> QED BY <1>3, <3>1, <3>2 DEF WaitsFor
  <2> DEFINE P == {i \in Nat : \E r \in D : i \in DOMAIN queue[Tree(r)] /\ queue[Tree(r)][i] = r}
  <2>3. P \in SUBSET Nat /\ P # {}
    BY <1>1, <2>1, <2>2
  <2>4. PICK i \in P : \A j \in P : ~(j < i)
    BY <2>3, Minimum
  <2>5. PICK r \in D : i \in DOMAIN queue[Tree(r)] /\ queue[Tree(r)][i] = r
    BY <2>4
  <2>6. PICK j \in DOMAIN queue[Tree(r)] : j < i /\ queue[Tree(r)][j] \in D
    BY <2>1, <2>2, <2>5 DEF IsInjective
  <2>7. j \in P
    BY <2>1, <2>6
  <2> QED BY <2>4, <2>6, <2>7
<1> QED BY <1>2, <1>3

\* Every step is one of what a call that is told "started" may rely on, or none.
LEMMA StepKeepsThePromise ==
    ASSUME IInv, [Next]_vars
    PROVE  [Promise!Next]_([r \in Run |-> Promised(r)])
<1> DEFINE status == [r \in Run |-> Promised(r)]
<1>0. \A r \in Run : ReportOf(r) /\ (r \in admitted => notices[r] \in {0, 1})
  BY DEF IInv, ReportsFit, ReportOf
<1>1. ASSUME UNCHANGED <<admitted, notices>> PROVE UNCHANGED status
  BY <1>1 DEF Promised
<1>2. CASE Stays
  BY <1>1, <1>2, StaysDo DEF fixed
<1>3. CASE UNCHANGED vars
  BY <1>1, <1>3 DEF vars, fixed, sent
<1>4. ASSUME NEW r \in Run, Gets(r) \/ Moves(r) \/ LetGo(r) \/ Leave(r)
      PROVE  Promise!Next \/ UNCHANGED status
  <2>1. /\ ReportOf(r)' /\ (r \in admitted => r \in admitted')
        /\ r \in admitted' /\ r \notin admitted => notices'[r] = 0
        /\ r \in admitted /\ notices[r] = 1 => notices'[r] = 1
    BY <1>0, <1>4, OneReports DEF IInv
  <2>2. \A q \in Run \ {r} : Promised(q)' = Promised(q)
    BY <1>4, OthersKeep DEF Promised, IInv
  <2>3. \/ Promised(r)' = Promised(r)
        \/ Promised(r) = "unasked" /\ Promised(r)' = "started"
        \/ Promised(r) = "started" /\ Promised(r)' = "reported"
    BY <1>0, <2>1 DEF Promised, ReportOf
  <2>4. status' = [status EXCEPT ![r] = Promised(r)']
    BY <2>2
  <2>5. status[r] = Promised(r)
    OBVIOUS
  <2>6. CASE Promised(r)' = Promised(r)
    BY <2>2, <2>6
  <2>7. CASE Promised(r) = "unasked" /\ Promised(r)' = "started"
    BY <2>4, <2>5, <2>7 DEF Promise!Next, Promise!Start
  <2>8. CASE Promised(r) = "started" /\ Promised(r)' = "reported"
    BY <2>4, <2>5, <2>8 DEF Promise!Next, Promise!Report
  <2> QED BY <2>3, <2>6, <2>7, <2>8
<1> QED BY <1>2, <1>3, <1>4, NextIsOne

-----------------------------------------------------------------------------
(* The theorems. *)

\* Every variable keeps its type: of the guards a run lets go none is let go
\* twice, the slot counter never goes below zero, and nobody queues twice for a
\* lease.
THEOREM TypeCorrect == Spec => []TypeOK
<1>1. IInv => TypeOK
  BY DEF IInv
<1> QED BY <1>1, Invariance, PTL

\* The slot counter counts what is taken and no more tasks than the limit have a
\* slot (SlotGuard and the fetch_add of run_task_observed).
THEOREM SlotsCounted == Spec => []SlotsAreCounted
<1>1. IInv => SlotsAreCounted
  BY DEF IInv, SlotsFit
<1> QED BY <1>1, Invariance, PTL

\* Two turns never drive one session (claim_session, ActiveSessionGuard).
THEOREM OneTurnEach == Spec => []OneTurnPerSession
<1>1. IInv => OneTurnPerSession
  BY Sessions
<1> QED BY <1>1, Invariance, PTL

\* Two mutators never share a checkout, a file write that outlives its caller
\* included (WorkspaceLease, run_blocking_io).
THEOREM WritersApart == Spec => []WritersExclude
<1>1. IInv => WritersExclude
  BY Writers
<1> QED BY <1>1, Invariance, PTL

\* The name on a checkout is its holder's for the whole of the turn (HolderMark).
THEOREM HolderNamed == Spec => []HolderIsNamed
<1>1. IInv => HolderIsNamed
  BY DEF IInv
<1> QED BY <1>1, Invariance, PTL

\* What a stopped task started is told to stop, also while it was being started
\* (detached_owner, child_token).
THEOREM OwnerStops == Spec => []StopsWithItsOwner
<1>1. IInv => StopsWithItsOwner
  BY DEF IInv
<1> QED BY <1>1, Invariance, PTL

\* Once shutdown has returned, no run that was told "started" holds anything but a
\* panicked one's report to make (shutdown, BackgroundTaskGuard).
THEOREM ShutdownCompletes == Spec => []ShutdownIsComplete
<1>1. IInv => ShutdownIsComplete
  BY Closing
<1> QED BY <1>1, Invariance, PTL

\* No set of runs waits only for each other (acquire_task_lease).
THEOREM NobodyWaitsInACircle == Spec => []NoCircularWait
<1>1. IInv => NoCircularWait
  BY Waits
<1> QED BY <1>1, Invariance, PTL

\* A call told "started" is reported at most once, and one that is refused never
\* (ReservedNotification): the runs implement the safety part of BackgroundPromise.
THEOREM PromiseKept == Spec => Promise!Safe
<1>1. Init => Promise!Init
  BY DEF Init, Promise!Init, Promised
<1>2. IInv /\ [Next]_vars => [Promise!Next]_([r \in Run |-> Promised(r)])
  BY StepKeepsThePromise
<1> QED BY <1>1, <1>2, Invariance, PTL DEF Spec, Promise!Safe
=============================================================================
