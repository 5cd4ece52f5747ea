----------------------------- MODULE TurnLoopProofs -----------------------------
(* One writer per session, for every set of actors and of inodes: the identity    *)
(* check after the lock and the one before the unlink are enough, whatever sweeps *)
(* and deaths come between.  And whatever the jobs of a session do, they touch its*)
(* lease only as it allows, and its log, under it, as SessionLogProofs allows:    *)
(* so a session in memory, the turn that has it and the scratch go together.      *)
EXTENDS SessionPromises, SessionLogProofs

(* Who has won a flock and not let it go, and who has found it to be the path's.  *)
Locked(a) == at[a] \in {"locked", "held", "swept", "unlinking", "releasing"}
Confirmed(a) == at[a] \in {"held", "unlinking"}

(* The strengthening of OneOwner: a winner has the flock of the inode in its hand, *)
(* and while an actor owns the session, or is about to unlink its lock, the path  *)
(* names that inode.                                                              *)
HandsAreOpen == \A a \in Actor : at[a] \in {"opened", "found"} \/ Locked(a) => hand[a] \in Inode
LocksAreHeld == \A a \in Actor : Locked(a) => locks[hand[a]] = a
OwnersAreNamed == \A a \in Actor : Confirmed(a) => hand[a] = named

LeaseInv == LeaseTypeOK /\ HandsAreOpen /\ LocksAreHeld /\ OwnersAreNamed

--------------------------------------------------------------------------------
(* A newly opened handle is an inode.                                             *)
LEMMA OpenedIsInode ==
  ASSUME NEW a \in Actor, LeaseTypeOK, Open(a)
  PROVE  named' \in Inode
<1>1. CASE named # NoFile
  BY <1>1 DEF Open, LeaseTypeOK
<1>2. CASE named = NoFile
  <2>1. Unused # {} /\ named' = CHOOSE i \in Unused : TRUE
    BY <1>2 DEF Open
  <2>2. named' \in Unused
    BY <2>1
  <2>. QED
    BY <2>2 DEF Unused
<1>. QED
  BY <1>1, <1>2

(* Every lease step keeps the types.                                              *)
LEMMA LeaseStepTypeOK ==
  ASSUME LeaseTypeOK, NEW a \in Actor, LeaseStep(a)
  PROVE  LeaseTypeOK'
<1>. USE LeaseAssumption DEF LeaseTypeOK, Places, Goes
<1>1. CASE Open(a)
  BY <1>1, OpenedIsInode DEF Open
<1>2. CASE LockWon(a)
  BY <1>2 DEF LockWon
<1>3. CASE LockRefused(a)
  BY <1>3 DEF LockRefused
<1>4. CASE Identified(a)
  BY <1>4 DEF Identified
<1>5. CASE Orphaned(a)
  <2>1. tries' \in [Actor -> 0..Attempts]
    <3>1. CASE tries[a] + 1 < Attempts
      <4>1. tries[a] \in Nat /\ tries[a] + 1 \in 0..Attempts
        BY <3>1
      <4>. QED
        BY <1>5, <3>1, <4>1 DEF Orphaned
    <3>2. CASE ~(tries[a] + 1 < Attempts)
      BY <1>5, <3>2 DEF Orphaned
    <3>. QED
      BY <3>1, <3>2
  <2>2. at' \in [Actor -> Places]
    BY <1>5 DEF Orphaned
  <2>. QED
    BY <1>5, <2>1, <2>2 DEF Orphaned
<1>6. CASE Find(a)
  BY <1>6 DEF Find
<1>7. CASE LetGo(a)
  BY <1>7 DEF LetGo
<1>8. CASE Unlink(a)
  BY <1>8 DEF Unlink
<1>9. CASE Unlock(a)
  BY <1>9 DEF Unlock
<1>10. CASE LeaseDies(a)
  BY <1>10 DEF LeaseDies
<1>. QED
  BY <1>1, <1>2, <1>3, <1>4, <1>5, <1>6, <1>7, <1>8, <1>9, <1>10 DEF LeaseStep

(* Every lease step keeps the winners their flocks and the owners their name.     *)
LEMMA LeaseStepInv ==
  ASSUME LeaseInv, NEW a \in Actor, LeaseStep(a)
  PROVE  LeaseInv'
<1>. USE LeaseAssumption DEF LeaseInv, LeaseTypeOK, Places, Goes, HandsAreOpen, LocksAreHeld,
                             OwnersAreNamed, Locked, Confirmed
<1>0. LeaseTypeOK'
  BY LeaseStepTypeOK
<1>1. CASE Open(a)
  <2>1. named' \in Inode
    BY <1>1, OpenedIsInode
  <2>2. \A b \in Actor : Confirmed(b) => named' = named
    BY <1>1 DEF Open
  <2>. QED
    BY <1>0, <1>1, <2>1, <2>2 DEF Open
<1>2. CASE LockWon(a)
  BY <1>0, <1>2 DEF LockWon
<1>3. CASE LockRefused(a)
  BY <1>0, <1>3 DEF LockRefused
<1>4. CASE Identified(a)
  BY <1>0, <1>4 DEF Identified, HoldsTheNamed
<1>5. CASE Orphaned(a)
  BY <1>0, <1>5 DEF Orphaned
<1>6. CASE Find(a)
  BY <1>0, <1>6 DEF Find
<1>7. CASE LetGo(a)
  BY <1>0, <1>7 DEF LetGo, HoldsTheNamed
<1>8. CASE Unlink(a)
  <2>1. \A b \in Actor : Confirmed(b) => b = a
    BY <1>8 DEF Unlink
  <2>. QED
    BY <1>0, <1>8, <2>1 DEF Unlink
<1>9. CASE Unlock(a)
  BY <1>0, <1>9 DEF Unlock
<1>10. CASE LeaseDies(a)
  BY <1>0, <1>10 DEF LeaseDies
<1>. QED
  BY <1>1, <1>2, <1>3, <1>4, <1>5, <1>6, <1>7, <1>8, <1>9, <1>10 DEF LeaseStep

(* Nothing but the lease's own variables disturbs it.                             *)
LEMMA LeaseStutters ==
  ASSUME LeaseInv, UNCHANGED leaseVars
  PROVE  LeaseInv'
BY DEF LeaseInv, LeaseTypeOK, HandsAreOpen, LocksAreHeld, OwnersAreNamed, Locked, Confirmed, leaseVars

LEMMA LeaseInitInv == LeaseInit => LeaseInv
BY LeaseAssumption DEF LeaseInit, LeaseInv, LeaseTypeOK, Places, HandsAreOpen, LocksAreHeld,
   OwnersAreNamed, Locked, Confirmed

(* Two owners would hold one inode's flock.                                       *)
LEMMA LeaseInvOneOwner == LeaseInv => OneOwner
BY DEF LeaseInv, LocksAreHeld, OwnersAreNamed, Locked, Confirmed, OneOwner

--------------------------------------------------------------------------------
(* The lease of a session, on its own, never has two owners (store.rs:            *)
(* acquire_writer_id, locked_the_named_file, Drop for SessionWriter,              *)
(* sweep_stale_locks).                                                            *)
THEOREM LeaseHasOneOwner == LeaseSpec => [](LeaseTypeOK /\ OneOwner)
<1>1. LeaseInv /\ [LeaseNext]_leaseVars => LeaseInv'
  BY LeaseStepInv, LeaseStutters DEF LeaseNext
<1>2. LeaseInv => LeaseTypeOK /\ OneOwner
  BY LeaseInvOneOwner DEF LeaseInv
<1>. QED
  BY LeaseInitInv, <1>1, <1>2, PTL DEF LeaseSpec

--------------------------------------------------------------------------------
(* An append leaves the lease alone.                                              *)
LEMMA WritesKeepTheLease ==
  ASSUME NEW a, NEW e, NEW done, NEW failed, Writes(a, e, done, failed)
  PROVE  UNCHANGED leaseVars
BY DEF Writes

(* What a job does without waiting is a lease step or leaves the lease alone.     *)
LEMMA ForcedKeepsTheLease ==
  ASSUME NEW a \in Actor, Forced(a)
  PROVE  LeaseStep(a) \/ UNCHANGED leaseVars
<1>. USE WritesKeepTheLease
<1>1. CASE Acquire(a)
  BY <1>1 DEF Acquire, LeaseStep
<1>2. CASE Leave(a)
  BY <1>2 DEF Leave, LeaseStep
<1>3. CASE Released(a)
  BY <1>3 DEF Released, LeaseStep
<1>4. CASE Create(a) \/ WriteMeta(a) \/ Delete(a) \/ Load(a) \/ AnswerNext(a)
  BY <1>4 DEF Create, WriteMeta, Delete, Load, AnswerNext
<1>5. CASE BeginRefused(a) \/ BeginSay(a) \/ Prompt(a) \/ BeginContinue(a) \/ BeginAnswer(a)
  BY <1>5 DEF BeginRefused, BeginSay, Prompt, BeginContinue, BeginAnswer
<1>6. CASE NoCompaction(a) \/ Top(a) \/ AppendSteer(a) \/ SteersDone(a) \/ Cutoff(a)
  BY <1>6 DEF NoCompaction, Top, AppendSteer, SteersDone, Cutoff
<1>7. CASE AbortStream(a) \/ Resume(a) \/ StepDone(a) \/ AbandonQuestion(a)
  BY <1>7 DEF AbortStream, Resume, StepDone, AbandonQuestion
<1>8. CASE turn[a].cancelled /\ ToolsReturn(a)
  BY <1>8 DEF ToolsReturn
<1>9. CASE DropScratch(a) \/ Finish(a)
  BY <1>9 DEF DropScratch, Finish
<1>10. CASE SaveTree(a) \/ RestoreTree(a) \/ RewindIndex(a) \/ MarkRewind(a)
  BY <1>10 DEF SaveTree, RestoreTree, RewindIndex, MarkRewind
<1>. QED
  BY <1>1, <1>2, <1>3, <1>4, <1>5, <1>6, <1>7, <1>8, <1>9, <1>10 DEF Forced

(* So does what waits for the provider, the tools or the user.                    *)
LEMMA WaitedKeepsTheLease ==
  ASSUME NEW a \in Actor, Waited(a)
  PROVE  UNCHANGED leaseVars
BY WritesKeepTheLease
   DEF Waited, Compacts, CompactionFails, Reply, Interrupt, FailStep, ToolsReturn, Answered

(* Every step touches the lease as the lease allows, or not at all.             *)
LEMMA NextKeepsTheLease ==
  ASSUME Next
  PROVE  LeaseNext \/ UNCHANGED leaseVars
<1>1. CASE Poll
  BY <1>1 DEF Poll
<1>2. ASSUME NEW a \in Actor,
             Take(a) \/ Skip(a) \/ Forced(a) \/ Waited(a) \/ Cancel(a) \/ Steer(a) \/ Kill(a)
      PROVE  LeaseStep(a) \/ UNCHANGED leaseVars
  <2>1. CASE Take(a) \/ Skip(a) \/ Cancel(a) \/ Steer(a)
    BY <2>1 DEF Take, Skip, Cancel, Steer
  <2>2. CASE Kill(a)
    BY <2>2 DEF Kill, LeaseStep
  <2>. QED
    BY <1>2, <2>1, <2>2, ForcedKeepsTheLease, WaitedKeepsTheLease
<1>. QED
  BY <1>1, <1>2 DEF Next, LeaseNext

--------------------------------------------------------------------------------
(* The turns, compactions, rewinds, deletes and sweeps of one session implement   *)
(* its lease.                                                                     *)
THEOREM TurnsKeepTheLease == Spec => LeaseSpec
<1>1. Init => LeaseInit
  BY DEF Init
<1>2. [Next]_vars => [LeaseNext]_leaseVars
  BY NextKeepsTheLease DEF vars
<1>. QED
  BY <1>1, <1>2, PTL DEF Spec, LeaseSpec

(* No session ever has two writers, whatever its jobs, deaths and write failures. *)
THEOREM SessionHasOneOwner == Spec => []OneOwner
BY TurnsKeepTheLease, LeaseHasOneOwner, PTL

--------------------------------------------------------------------------------

(* What a job is made of; a target is any event id.                               *)
Opens == {"meta", "answers", "begin", "prompt", "compactstart", "top", "steers", "compactmid",
          "cutoff", "request", "stepdone", "resume", "asking", "tools", "closing", "finish",
          "restore", "dropids", "dropindex", "mark"}
Nexts == {"begin", "resume", "closing", "top"}

TurnOf(target) ==
  [job : Jobs \cup {"none"}, pc : Opens \cup {"idle", "acquire", "leave", "deletelog"},
   todo : Seq(Call), next : Nexts \cup {"idle"}, iters : 0..MaxIterations,
   resumes : 0..MaxResumes, steers : Nat, inbox : Nat, told : BOOLEAN, cancelled : BOOLEAN,
   target : {target}, cut : Nat, pics : BOOLEAN]

(* The steps a turn runs under its scratch.                                       *)
Running(t) == t.pc \in Body \cup {"resume"} /\ (t.pc = "answers" => t.next # "begin")

TurnFits(t) ==
  /\ t \in TurnOf(t.target)
  /\ t.pc \in {"steers", "compactmid", "cutoff", "request"} => t.iters < MaxIterations
  /\ t.todo # <<>> => t.pc \in {"answers", "stepdone", "asking", "tools", "closing", "finish", "leave"}
  /\ t.pc \in {"answers", "asking", "tools"} => t.todo # <<>>
  /\ t.pc = "answers" => t.next \in Nexts
  /\ Running(t) \/ t.pc = "prompt" => t.job \in Turns
  /\ t.pc \in {"answers", "begin"} => t.job \in Turns \cup {"compact", "rewind"}

(* Whose hands the session is in, and what a job that has it open may count on.   *)
HoldFits(a) ==
  LET t == turn[a] IN
  /\ t.pc \notin {"idle", "acquire"} => at[a] = "held"
  /\ t.pc \in Opens => file.there /\ sess[a] # None
  /\ t.pc \in Opens => (t.pc = "meta" <=> sess[a].events = <<>>)
  /\ t.pc = "restore" => t.cut < Len(sess[a].events)

TurnsFit ==
  /\ DOMAIN turn = Actor /\ turn = [a \in Actor |-> turn[a]]
  /\ \A a \in Actor : TurnFits(turn[a]) /\ HoldFits(a)

RestFits ==
  /\ plan \in Plans /\ kills \in 0..plan.kills /\ faults \in 0..plan.faults
  /\ jobs \in [Actor -> Seq(Jobs)]
  /\ tree \in 0..file.stamp /\ saved \subseteq 0..file.stamp

ScratchFits ==
  /\ scratch \in Actor \cup {Nobody, Leftover}
  /\ \A a \in Actor : scratch = a <=> Running(turn[a])

(* What becomes of the scratch when a job goes to t.                              *)
ScratchStep(a, t) ==
  \/ scratch' = scratch /\ (Running(t) <=> Running(turn[a]))
  \/ at[a] = "held" /\ scratch' = a /\ Running(t)
  \/ at[a] = "held" /\ scratch' = Nobody /\ ~Running(t)
  \/ scratch = a /\ scratch' = Leftover /\ ~Running(t)

IInv == LeaseInv /\ LogFits /\ TurnsFit /\ RestFits /\ ScratchFits

--------------------------------------------------------------------------------
(* Jobs.                                                                          *)

(* The calls a job has to answer.                                                 *)
LEMMA AnsweringFits ==
  ASSUME NEW t, t \in TurnOf(t.target), NEW todo \in Seq(Call), NEW next \in Nexts,
         t.job \in Turns \/ (next = "begin" /\ t.job \in {"compact", "rewind"})
  PROVE  LET r == Answering(t, todo, next)
         IN /\ TurnFits(r) /\ r.pc \in {"answers", next} /\ r.pc \in Opens \ {"meta", "restore"}
            /\ Running(r) <=> next # "begin"
            /\ r.job = t.job /\ r.target = t.target /\ r.resumes = t.resumes
<1> DEFINE r == Answering(t, todo, next)
<1>0. <<>> \in Seq(Call)
  BY EmptySeq
<1>1. CASE todo = <<>>
  <2>1. r = [t EXCEPT !.todo = <<>>, !.pc = next]
    BY <1>1 DEF Answering
  <2>2. r \in TurnOf(r.target) /\ r.todo = <<>> /\ r.pc = next /\ r.job = t.job /\ r.target = t.target
        /\ r.resumes = t.resumes
    <3> DEFINE x == t.target
    <3>1. t \in TurnOf(x) /\ next \in Opens
      BY DEF Nexts, Opens
    <3> HIDE DEF x, r
    <3>2. [t EXCEPT !.todo = <<>>, !.pc = next] \in TurnOf(x)
      BY <1>0, <3>1 DEF TurnOf
    <3>3. /\ r.todo = <<>> /\ r.pc = next /\ r.job = t.job /\ r.target = t.target
          /\ r.resumes = t.resumes
      BY <2>1, <3>1 DEF TurnOf
    <3> QED BY <2>1, <3>2, <3>3 DEF x
  <2> QED BY <2>2 DEF TurnFits, Running, Body, Nexts, Opens, Turns
<1>2. CASE todo # <<>>
  <2>1. r = [t EXCEPT !.todo = todo, !.pc = "answers", !.next = next]
    BY <1>2 DEF Answering
  <2>2. /\ r \in TurnOf(r.target) /\ r.todo = todo /\ r.pc = "answers" /\ r.next = next /\ r.job = t.job
        /\ r.target = t.target /\ r.resumes = t.resumes
    <3> DEFINE x == t.target
    <3>1. t \in TurnOf(x) /\ "answers" \in Opens
      BY DEF Opens
    <3> HIDE DEF x, r
    <3>2. [t EXCEPT !.todo = todo, !.pc = "answers", !.next = next] \in TurnOf(x)
      BY <3>1 DEF TurnOf
    <3>3. /\ r.todo = todo /\ r.pc = "answers" /\ r.next = next /\ r.job = t.job
          /\ r.target = t.target /\ r.resumes = t.resumes
      BY <2>1, <3>1 DEF TurnOf
    <3> QED BY <2>1, <3>2, <3>3 DEF x
  <2> QED BY <1>2, <2>2 DEF TurnFits, Running, Body, Nexts, Opens, Turns
<1> QED BY <1>1, <1>2

(* One actor's step, when what it does to the log, the lease and the scratch      *)
(* agrees with where its job goes.                                                *)
LEMMA JobMoves ==
  ASSUME IInv, LeaseInv', NEW a \in Actor, NEW t, turn' = [turn EXCEPT ![a] = t], TurnFits(t), LogMoves(a),
         (file.there => file'.there) \/ at[a] = "held",
         \A b \in Actor : b # a => at'[b] = at[b],
         t.pc \notin {"idle", "acquire"} \/ sess'[a] # None => at'[a] = "held",
         t.pc \in Opens => /\ file'.there /\ sess'[a] # None
                           /\ (t.pc = "meta" <=> sess'[a].events = <<>>),
         t.pc = "restore" => t.cut < Len(sess'[a].events),
         plan' = plan, kills' \in 0..kills, jobs' \in [Actor -> Seq(Jobs)],
         tree' \in 0..file'.stamp, saved' \subseteq 0..file'.stamp,
         ScratchStep(a, t)
  PROVE  IInv'
<1>1. /\ LeaseInv /\ LogFits /\ TurnsFit /\ RestFits /\ ScratchFits
  BY DEF IInv
<1>2. \A b \in Actor : at[a] = "held" /\ b # a => at[b] # "held"
  BY <1>1, LeaseInvOneOwner DEF OneOwner
<1>3. turn'[a] = t /\ (\A b \in Actor : b # a => turn'[b] = turn[b]) /\ DOMAIN turn' = Actor
      /\ turn' = [b \in Actor |-> turn'[b]]
  <2>1. DOMAIN turn = Actor
    BY <1>1 DEF TurnsFit
  <2> QED BY <2>1
<1>4. \A b \in Actor : b # a => sess'[b] = sess[b]
  BY <1>1 DEF LogMoves, LogFits
<1>5. file.stamp \in Nat /\ file'.stamp \in Nat /\ file.stamp <= file'.stamp
  BY <1>1 DEF LogMoves, LogFits, FileFits
<1>6. LogFits'
  <2>1. ASSUME NEW b \in Actor, sess'[b] # None PROVE at'[b] = "held" /\ SessionFits(sess'[b], file'.stamp)
    <3>1. CASE b = a
      BY <2>1, <3>1 DEF LogMoves
    <3>2. CASE b # a
      <4>1. sess[b] # None /\ at[b] = "held" /\ SessionFits(sess[b], file.stamp)
        BY <1>1, <1>4, <2>1, <3>2 DEF LogFits
      <4> QED BY <1>4, <1>5, <3>2, <4>1, FitsLater
    <3> QED BY <3>1, <3>2
  <2>2. sess' \in [Actor -> OpenSession \cup {None}]
    <3>1. sess'[a] \in OpenSession \cup {None}
      BY <2>1 DEF SessionFits
    <3>2. sess \in [Actor -> OpenSession \cup {None}] /\ sess' = [sess EXCEPT ![a] = sess'[a]]
      BY <1>1 DEF LogFits, LogMoves
    <3> QED BY <3>1, <3>2
  <2> QED BY <2>1, <2>2 DEF LogFits, LogMoves
<1>7. TurnsFit'
  <2>1. ASSUME NEW b \in Actor PROVE TurnFits(turn'[b])
    BY <1>1, <1>3 DEF TurnsFit
  <2>2. ASSUME NEW b \in Actor PROVE HoldFits(b)'
    <3>1. CASE b = a
      BY <1>3, <3>1 DEF HoldFits
    <3>2. CASE b # a
      <4>1. HoldFits(b)
        BY <1>1 DEF TurnsFit
      <4>2. turn[b].pc \in Opens => at[b] = "held"
        BY <4>1 DEF HoldFits, Opens
      <4>3. turn[b].pc \in Opens => file'.there
        BY <1>2, <3>2, <4>1, <4>2 DEF HoldFits
      <4> QED BY <1>3, <1>4, <3>2, <4>1, <4>3 DEF HoldFits
    <3> QED BY <3>1, <3>2
  <2> QED BY <1>3, <2>1, <2>2 DEF TurnsFit
<1>8. RestFits'
  <2>1. plan.kills \in Nat /\ plan.faults \in Nat /\ kills \in 0..plan.kills /\ faults \in 0..plan.faults
    BY <1>1, PlansAssumption DEF RestFits
  <2>2. kills' \in 0..plan.kills /\ faults' \in 0..plan.faults
    BY <2>1 DEF LogMoves
  <2> QED BY <1>1, <2>2 DEF RestFits
<1>9. ScratchFits'
  <2>1. \A b \in Actor : Running(turn[b]) => at[b] = "held"
    BY <1>1 DEF TurnsFit, HoldFits, Running, Body
  <2>2. \A b \in Actor : scratch = b <=> Running(turn[b])
    BY <1>1 DEF ScratchFits
  <2>3. Nobody \notin Actor /\ Leftover \notin Actor /\ scratch \in Actor \cup {Nobody, Leftover}
    BY <1>1, LeaseAssumption, LoopAssumption DEF ScratchFits
  <2>4. scratch' \in Actor \cup {Nobody, Leftover}
    BY <2>3 DEF ScratchStep
  <2>5. ASSUME NEW b \in Actor PROVE scratch' = b <=> Running(turn'[b])
    <3>1. CASE b = a
      BY <1>3, <2>2, <2>3, <3>1 DEF ScratchStep
    <3>2. CASE b # a
      <4>1. turn'[b] = turn[b] /\ (scratch = b <=> Running(turn[b]))
        BY <1>3, <2>2, <3>2
      <4>2. at[a] = "held" => ~Running(turn[b])
        BY <1>2, <2>1, <3>2
      <4>3. b # Nobody /\ b # Leftover
        BY <2>3
      <4> QED BY <3>2, <4>1, <4>2, <4>3 DEF ScratchStep
    <3> QED BY <3>1, <3>2
  <2> QED BY <2>4, <2>5 DEF ScratchFits
<1> QED BY <1>6, <1>7, <1>8, <1>9 DEF IInv

(* A job that has the session open.                                               *)
LEMMA OpenIs ==
  ASSUME IInv, NEW a \in Actor, turn[a].pc \in Opens
  PROVE  /\ HasOpen(a) /\ at[a] = "held" /\ (turn[a].pc = "meta" <=> sess[a].events = <<>>)
         /\ sess[a].events \in Seq(Entry) /\ Dated(sess[a].events, file.stamp)
<1>1. LogFits /\ HoldFits(a) /\ RestFits
  BY DEF IInv, TurnsFit
<1>2. faults \in Nat
  BY <1>1, PlansAssumption DEF RestFits
<1>3. file.there /\ sess[a] # None /\ at[a] = "held" /\ SessionFits(sess[a], file.stamp)
  BY <1>1 DEF HoldFits, LogFits
<1>4. HasOpen(a)
  BY <1>1, <1>2, <1>3 DEF HasOpen, LogFits
<1>5. sess[a].events \in Seq(Entry) /\ Dated(sess[a].events, file.stamp)
  BY <1>3 DEF SessionFits, OpenSession
<1> QED BY <1>1, <1>3, <1>4, <1>5 DEF HoldFits

(* What the invariant says of one actor, and of the log for it.                   *)
LEMMA ActorIs ==
  ASSUME IInv, NEW a \in Actor
  PROVE  /\ Readable /\ TurnFits(turn[a]) /\ HoldFits(a) /\ LeaseInv
         /\ sess[a] # None => at[a] = "held" /\ SessionFits(sess[a], file.stamp)
         /\ file.stamp \in Nat /\ DOMAIN turn = Actor /\ turn = [turn EXCEPT ![a] = turn[a]]
         /\ kills \in Nat /\ kills \in 0..kills /\ jobs \in [Actor -> Seq(Jobs)]
         /\ tree \in 0..file.stamp /\ saved \subseteq 0..file.stamp
<1>1. LogFits /\ RestFits /\ LeaseInv /\ TurnsFit
  BY DEF IInv
<1>2. faults \in Nat /\ kills \in Nat
  BY <1>1, PlansAssumption DEF RestFits
<1>3. Readable
  BY <1>1, <1>2 DEF Readable, LogFits
<1>4. kills \in 0..kills
  BY <1>2
<1>5. turn = [turn EXCEPT ![a] = turn[a]] /\ DOMAIN turn = Actor
  <2>1. DOMAIN turn = Actor /\ turn = [b \in Actor |-> turn[b]]
    BY <1>1 DEF TurnsFit
  <2> QED BY <2>1
<1>6. file.stamp \in Nat
  BY <1>1 DEF LogFits, FileFits
<1> QED BY <1>1, <1>2, <1>3, <1>4, <1>5, <1>6 DEF LogFits, RestFits, TurnsFit

(* A step of a job with the session open that writes nothing.                     *)
LEMMA QuietStep ==
  ASSUME IInv, NEW a \in Actor, turn[a].pc \in Opens \ {"meta"}, NEW t, turn' = [turn EXCEPT ![a] = t],
         TurnFits(t), t.pc \in (Opens \ {"meta"}) \cup {"leave"},
         t.pc = "restore" => t.cut < Len(sess[a].events),
         UNCHANGED <<leaseVars, logVars, plan, jobs, kills>>,
         tree' \in 0..file.stamp, saved' \subseteq 0..file.stamp, ScratchStep(a, t)
  PROVE  IInv'
<1>1. /\ Readable /\ LeaseInv /\ (sess[a] # None => SessionFits(sess[a], file.stamp))
      /\ kills \in 0..kills /\ jobs \in [Actor -> Seq(Jobs)]
  BY ActorIs
<1>2. HasOpen(a) /\ at[a] = "held" /\ sess[a].events # <<>>
  BY OpenIs
<1>3. LogMoves(a) /\ file' = file /\ sess' = sess
  BY <1>1, LogStays
<1>4. LeaseInv' /\ at' = at
  BY <1>1, LeaseStutters DEF leaseVars
<1>5. t.pc # "meta"
  BY DEF Opens
<1>6. t.pc \in Opens => file'.there /\ sess'[a] # None /\ (t.pc = "meta" <=> sess'[a].events = <<>>)
  BY <1>2, <1>3, <1>5 DEF HasOpen
<1>7. t.pc = "restore" => t.cut < Len(sess'[a].events)
  BY <1>3
<1>8. plan' = plan /\ kills' \in 0..kills /\ jobs' \in [Actor -> Seq(Jobs)]
      /\ tree' \in 0..file'.stamp /\ saved' \subseteq 0..file'.stamp
  BY <1>1, <1>3
<1>9. \A b \in Actor : b # a => at'[b] = at[b]
  BY <1>4
<1>10. at'[a] = "held"
  BY <1>2, <1>4
<1> QED BY <1>2, <1>3, <1>4, <1>6, <1>7, <1>8, <1>9, <1>10, JobMoves

(* A step of a job with the session open that appends one event.                  *)
LEMMA WriteStep ==
  ASSUME IInv, NEW a \in Actor, turn[a].pc \in Opens, NEW e, Apt(a, e), NEW done, NEW failed,
         Writes(a, e, done, failed), TurnFits(done), TurnFits(failed),
         {done.pc, failed.pc} \subseteq (Opens \ {"meta", "restore"}) \cup {"leave"},
         turn[a].pc = "meta" => done.pc = "leave" /\ failed.pc = "leave",
         UNCHANGED <<plan, jobs, kills, tree>>, saved' \subseteq 0..file.stamp,
         \A t \in {done, failed} : turn' = [turn EXCEPT ![a] = t] => ScratchStep(a, t)
  PROVE  IInv'
<1>1. /\ LeaseInv /\ kills \in 0..kills /\ jobs \in [Actor -> Seq(Jobs)] /\ file.stamp \in Nat
      /\ tree \in 0..file.stamp
  BY ActorIs
<1>2. HasOpen(a) /\ at[a] = "held" /\ (turn[a].pc = "meta" <=> sess[a].events = <<>>)
  BY OpenIs
<1>3. /\ LogMoves(a) /\ file'.there /\ sess'[a] # None /\ UNCHANGED leaseVars
      /\ (turn' = [turn EXCEPT ![a] = done] \/ turn' = [turn EXCEPT ![a] = failed])
      /\ (sess[a].events # <<>> => sess'[a].events # <<>>)
  BY <1>2, WritesFit
<1>4. LeaseInv' /\ at' = at
  BY <1>1, <1>3, LeaseStutters DEF leaseVars
<1>5. PICK t \in {done, failed} : turn' = [turn EXCEPT ![a] = t]
  BY <1>3
<1>6. TurnFits(t) /\ t.pc \notin {"meta", "restore"} /\ (turn[a].pc = "meta" => t.pc \notin Opens)
  BY <1>5 DEF Opens
<1>7. t.pc \in Opens => file'.there /\ sess'[a] # None /\ (t.pc = "meta" <=> sess'[a].events = <<>>)
  BY <1>2, <1>3, <1>6
<1>8. file'.stamp \in Nat /\ file.stamp <= file'.stamp
  BY <1>3 DEF LogMoves, FileFits
<1>9. plan' = plan /\ kills' \in 0..kills /\ jobs' \in [Actor -> Seq(Jobs)]
      /\ tree' \in 0..file'.stamp /\ saved' \subseteq 0..file'.stamp
  BY <1>1, <1>8
<1>10. /\ \A b \in Actor : b # a => at'[b] = at[b]
       /\ at'[a] = "held" /\ ScratchStep(a, t) /\ (t.pc = "restore" => t.cut < Len(sess'[a].events))
  BY <1>2, <1>4, <1>5, <1>6
<1> QED BY <1>2, <1>3, <1>4, <1>5, <1>6, <1>7, <1>9, <1>10, JobMoves

(* Where an error takes a job, and where a turn that goes on stays.               *)
LEMMA LeavingFits ==
  ASSUME NEW t, TurnFits(t), NEW r, r = [t EXCEPT !.pc = "leave"]
  PROVE  TurnFits(r) /\ r.pc = "leave" /\ ~Running(r)
<1>1. r \in TurnOf(r.target) /\ r.pc = "leave"
  BY DEF TurnFits, TurnOf
<1> QED BY <1>1 DEF TurnFits, Running, Body

(* A turn that closes still has its scratch.                                    *)
LEMMA ClosingFits ==
  ASSUME NEW t, TurnFits(t), t.job \in Turns, NEW r, r = [t EXCEPT !.pc = "closing"]
  PROVE  TurnFits(r) /\ r.pc = "closing" /\ Running(r)
<1>1. r \in TurnOf(r.target) /\ r.pc = "closing" /\ r.job = t.job
  BY DEF TurnFits, TurnOf, Opens
<1> QED BY <1>1 DEF TurnFits, Running, Body

(* A job that goes on to a step that asks nothing of it.                          *)
LEMMA PlainFits ==
  ASSUME NEW t, TurnFits(t), t.todo = <<>>, NEW pc \in {"prompt", "compactstart", "top", "finish",
                              "restore", "dropids", "dropindex", "mark", "meta", "deletelog"},
         pc \in {"prompt", "compactstart", "top"} => t.job \in Turns, NEW r, r = [t EXCEPT !.pc = pc]
  PROVE  TurnFits(r) /\ r.pc = pc /\ r.cut = t.cut /\ (Running(r) <=> pc \in {"compactstart", "top"})
<1>1. r \in TurnOf(r.target) /\ r.pc = pc /\ r.job = t.job /\ r.todo = t.todo /\ r.cut = t.cut
  BY DEF TurnFits, TurnOf, Opens
<1> QED BY <1>1 DEF TurnFits, Running, Body

--------------------------------------------------------------------------------
(* Each step keeps the invariant.                                                 *)

(* A lease step of an actor is nobody else's.                                     *)
LEMMA OthersStay ==
  ASSUME LeaseTypeOK, NEW a \in Actor, LeaseStep(a)
  PROVE  \A b \in Actor : b # a => at'[b] = at[b]
BY DEF LeaseTypeOK, LeaseStep, Open, LockWon, LockRefused, Identified, Orphaned, Find, LetGo,
       Unlink, Unlock, LeaseDies, Goes

(* An actor without a job.                                                      *)
LEMMA IdleFits == TurnFits(Idle) /\ Idle.pc = "idle" /\ ~Running(Idle)
<1>1. <<>> \in Seq(Call) /\ 0 \in 0..MaxIterations /\ 0 \in 0..MaxResumes
  BY EmptySeq, LoopAssumption
<1>2. Idle \in TurnOf(0) /\ Idle.target = 0 /\ Idle.pc = "idle" /\ Idle.todo = <<>>
  BY <1>1 DEF Idle, TurnOf
<1> QED BY <1>2 DEF TurnFits, Running, Body

(* A job that is taken up starts from nothing.                                    *)
LEMMA TakenFits ==
  ASSUME NEW job \in Jobs, NEW id, NEW cut \in Nat,
         NEW t, t = [Idle EXCEPT !.job = job, !.pc = "acquire", !.target = id, !.cut = cut]
  PROVE  TurnFits(t) /\ t.pc = "acquire" /\ ~Running(t)
<1>1. <<>> \in Seq(Call) /\ 0 \in 0..MaxIterations /\ 0 \in 0..MaxResumes
  BY EmptySeq, LoopAssumption
<1>2. t \in TurnOf(t.target) /\ t.pc = "acquire" /\ t.todo = <<>>
  BY <1>1 DEF Idle, TurnOf
<1> QED BY <1>2 DEF TurnFits, Running, Body

(* A job is taken up, or is not worth it.                                       *)
LEMMA TakeKeeps ==
  ASSUME IInv, NEW a \in Actor, Take(a) \/ Skip(a)
  PROVE  IInv'
<1>1. /\ Readable /\ TurnFits(turn[a]) /\ HoldFits(a) /\ LeaseInv
      /\ (sess[a] # None => at[a] = "held" /\ SessionFits(sess[a], file.stamp))
      /\ file.stamp \in Nat /\ kills \in 0..kills /\ jobs \in [Actor -> Seq(Jobs)]
      /\ tree \in 0..file.stamp /\ saved \subseteq 0..file.stamp
      /\ turn = [turn EXCEPT ![a] = turn[a]]
  BY ActorIs
<1>2. turn[a].pc = "idle" /\ at[a] = "idle" /\ jobs[a] # <<>> /\ jobs' = [jobs EXCEPT ![a] = Tail(@)]
      /\ UNCHANGED <<leaseVars, logVars>> /\ plan' = plan /\ scratch' = scratch /\ tree' = tree
      /\ saved' = saved /\ kills' = kills
  BY DEF Take, Skip, treeVars
<1>3. LogMoves(a) /\ file' = file /\ sess' = sess
  BY <1>1, <1>2, LogStays
<1>4. LeaseInv' /\ at' = at
  BY <1>1, <1>2, LeaseStutters DEF leaseVars
<1>5. Head(jobs[a]) \in Jobs /\ jobs' \in [Actor -> Seq(Jobs)]
  <2>1. jobs[a] \in Seq(Jobs)
    BY <1>1
  <2>2. Head(jobs[a]) \in Jobs /\ Tail(jobs[a]) \in Seq(Jobs)
    BY <1>2, <2>1, HeadTailProperties
  <2> QED BY <1>1, <1>2, <2>2
<1>6. sess'[a] = None /\ ~Running(turn[a])
  <2>1. sess[a] = None
    BY <1>1, <1>2
  <2> QED BY <1>2, <1>3, <2>1 DEF Running, Body
<1>7. \E t : turn' = [turn EXCEPT ![a] = t] /\ TurnFits(t) /\ t.pc \in {"idle", "acquire"} /\ ~Running(t)
  <2>1. CASE Skip(a)
    <3>1. turn' = turn
      BY <2>1 DEF Skip
    <3> QED BY <1>1, <1>2, <1>6, <3>1
  <2>2. CASE Take(a)
    <3>1. PICK r \in Targets(Head(jobs[a])) :
             turn' = [turn EXCEPT ![a] = [Idle EXCEPT !.job = Head(jobs[a]), !.pc = "acquire",
                                                      !.target = r.id, !.cut = r.cut]]
      BY <2>2 DEF Take
    <3>2. r.cut \in Nat
      <4>1. CASE Head(jobs[a]) # "rewind"
        BY <4>1 DEF Targets
      <4>2. CASE Head(jobs[a]) = "rewind"
        <5>1. PICK i \in DOMAIN Window(Folded(file.lines)).events : r.cut = i - 1
          BY <4>2 DEF Targets
        <5>2. file.lines \in Seq(Entry)
          BY <1>1 DEF Readable, FileFits
        <5> QED BY <5>1, <5>2, PlacesAre
      <4> QED BY <4>1, <4>2
    <3> DEFINE t == [Idle EXCEPT !.job = Head(jobs[a]), !.pc = "acquire", !.target = r.id, !.cut = r.cut]
    <3>3. TurnFits(t) /\ t.pc = "acquire" /\ ~Running(t)
      BY <1>5, <3>2, TakenFits
    <3>4. turn' = [turn EXCEPT ![a] = t]
      BY <3>1
    <3> HIDE DEF t
    <3> QED BY <3>3, <3>4
  <2> QED BY <2>1, <2>2
<1>8. PICK t : turn' = [turn EXCEPT ![a] = t] /\ TurnFits(t) /\ t.pc \in {"idle", "acquire"} /\ ~Running(t)
  BY <1>7
<1>9. /\ (t.pc \notin {"idle", "acquire"} \/ sess'[a] # None => at'[a] = "held")
      /\ t.pc \notin Opens /\ t.pc # "restore" /\ ScratchStep(a, t)
      /\ \A b \in Actor : b # a => at'[b] = at[b]
      /\ (file.there => file'.there)
  BY <1>2, <1>3, <1>4, <1>6, <1>8 DEF Opens, ScratchStep
<1>10. plan' = plan /\ kills' \in 0..kills /\ tree' \in 0..file'.stamp /\ saved' \subseteq 0..file'.stamp
  BY <1>1, <1>2, <1>3
<1> QED BY <1>3, <1>4, <1>5, <1>8, <1>9, <1>10, JobMoves

(* A step of the lease, with the job where it was or at its end.                  *)
LEMMA LeaseMoves ==
  ASSUME IInv, NEW a \in Actor, LeaseStep(a), NEW t \in {turn[a], Idle}, turn' = [turn EXCEPT ![a] = t],
         LogMoves(a), file.there => file'.there, ~Running(turn[a]), sess'[a] = None,
         t.pc \in {"idle", "acquire"}, scratch' = scratch,
         UNCHANGED <<plan, jobs, kills, tree, saved>>
  PROVE  IInv'
<1>1. /\ TurnFits(turn[a]) /\ LeaseInv /\ file.stamp \in Nat
      /\ kills \in 0..kills /\ jobs \in [Actor -> Seq(Jobs)]
      /\ tree \in 0..file.stamp /\ saved \subseteq 0..file.stamp
  BY ActorIs
<1>2. LeaseInv' /\ \A b \in Actor : b # a => at'[b] = at[b]
  BY <1>1, LeaseStepInv, OthersStay DEF LeaseInv
<1>3. TurnFits(t) /\ ~Running(t) /\ ScratchStep(a, t) /\ t.pc \notin Opens /\ t.pc # "restore"
  BY <1>1, IdleFits DEF ScratchStep, Opens
<1>4. file.stamp <= file'.stamp /\ file'.stamp \in Nat
  BY DEF LogMoves, FileFits
<1>5. plan' = plan /\ kills' \in 0..kills /\ jobs' \in [Actor -> Seq(Jobs)]
      /\ tree' \in 0..file'.stamp /\ saved' \subseteq 0..file'.stamp
  BY <1>1, <1>4
<1>6. t.pc \notin {"idle", "acquire"} \/ sess'[a] # None => at'[a] = "held"
  OBVIOUS
<1> QED BY <1>2, <1>3, <1>5, <1>6, JobMoves

(* The lease is taken, refused or released.                                     *)
LEMMA AcquireKeeps ==
  ASSUME IInv, NEW a \in Actor, Acquire(a) \/ Released(a)
  PROVE  IInv'
<1>1. /\ Readable /\ TurnFits(turn[a]) /\ HoldFits(a) /\ LeaseInv
      /\ (sess[a] # None => at[a] = "held" /\ SessionFits(sess[a], file.stamp))
      /\ turn = [turn EXCEPT ![a] = turn[a]]
      /\ file.stamp \in Nat /\ kills \in 0..kills /\ jobs \in [Actor -> Seq(Jobs)]
      /\ tree \in 0..file.stamp /\ saved \subseteq 0..file.stamp
  BY ActorIs
<1>2. UNCHANGED <<logVars, restVars>>
  BY DEF Acquire, Released
<1>3. LogMoves(a) /\ file' = file /\ sess' = sess
  BY <1>1, <1>2, LogStays
<1>4. plan' = plan /\ jobs' = jobs /\ scratch' = scratch /\ tree' = tree /\ saved' = saved /\ kills' = kills
  BY <1>2 DEF restVars, treeVars
<1>5. at[a] # "held"
  BY DEF Acquire, Released, Open, Find, LockWon, Identified, LockRefused, Orphaned, Unlink, Unlock
<1>6. turn[a].pc \in {"idle", "acquire"} /\ sess'[a] = None /\ ~Running(turn[a])
  BY <1>1, <1>3, <1>5 DEF HoldFits, Running, Body
<1>7. PICK t \in {turn[a], Idle} : turn' = [turn EXCEPT ![a] = t]
  BY <1>1 DEF Acquire, Released
<1>8. t.pc \in {"idle", "acquire"}
  BY <1>6, <1>7, IdleFits
<1>9. CASE LeaseStep(a)
  BY <1>3, <1>4, <1>6, <1>7, <1>8, <1>9, LeaseMoves
<1>10. CASE UNCHANGED leaseVars
  <2>1. LeaseInv' /\ at' = at
    BY <1>1, <1>10, LeaseStutters DEF leaseVars
  <2>2. TurnFits(t) /\ ~Running(t) /\ ScratchStep(a, t) /\ t.pc \notin Opens /\ t.pc # "restore"
    BY <1>1, <1>4, <1>6, <1>7, <1>8, IdleFits DEF ScratchStep, Opens
  <2>3. plan' = plan /\ kills' \in 0..kills /\ jobs' \in [Actor -> Seq(Jobs)]
        /\ tree' \in 0..file'.stamp /\ saved' \subseteq 0..file'.stamp
    BY <1>1, <1>3, <1>4
  <2>4. t.pc \notin {"idle", "acquire"} \/ sess'[a] # None => at'[a] = "held"
    BY <1>6, <1>8
  <2>5. (file.there => file'.there) /\ \A b \in Actor : b # a => at'[b] = at[b]
    BY <1>3, <2>1
  <2> QED BY <1>3, <1>7, <2>1, <2>2, <2>3, <2>4, <2>5, JobMoves
<1>11. LeaseStep(a) \/ UNCHANGED leaseVars
  BY DEF Acquire, Released, LeaseStep
<1> QED BY <1>9, <1>10, <1>11

(* A job that ends lets its session and its lease go.                           *)
LEMMA LeaveKeeps ==
  ASSUME IInv, NEW a \in Actor, Leave(a)
  PROVE  IInv'
<1>1. Readable /\ HoldFits(a)
  BY ActorIs
<1>2. LetGo(a) /\ Closes(a) /\ turn' = [turn EXCEPT ![a] = Idle] /\ UNCHANGED restVars
      /\ (turn[a].pc = "leave" \/ at[a] = "swept")
  BY DEF Leave
<1>3. LogMoves(a) /\ sess'[a] = None /\ (file.there => file'.there)
  BY <1>1, <1>2, DiesFits
<1>4. ~Running(turn[a])
  BY <1>1, <1>2 DEF HoldFits, Running, Body
<1>5. LeaseStep(a)
  BY <1>2 DEF LeaseStep
<1>6. plan' = plan /\ jobs' = jobs /\ scratch' = scratch /\ tree' = tree /\ saved' = saved /\ kills' = kills
  BY <1>2 DEF restVars, treeVars
<1> QED BY <1>2, <1>3, <1>4, <1>5, <1>6, IdleFits, LeaseMoves

(* A death leaves the scratch to nobody.                                        *)
LEMMA KillKeeps ==
  ASSUME IInv, NEW a \in Actor, Kill(a)
  PROVE  IInv'
<1>1. /\ Readable /\ LeaseInv /\ kills \in Nat /\ jobs \in [Actor -> Seq(Jobs)] /\ file.stamp \in Nat
      /\ tree \in 0..file.stamp /\ saved \subseteq 0..file.stamp
  BY ActorIs
<1>2. /\ kills > 0 /\ kills' = kills - 1 /\ LeaseDies(a) /\ SessionDies(a)
      /\ turn' = [turn EXCEPT ![a] = Idle] /\ plan' = plan /\ jobs' = jobs /\ tree' = tree /\ saved' = saved
      /\ scratch' = IF scratch = a THEN Leftover ELSE scratch
  BY DEF Kill, treeVars
<1>3. LogMoves(a) /\ sess'[a] = None /\ (file.there => file'.there)
  BY <1>1, <1>2, DiesFits
<1>4. LeaseStep(a)
  BY <1>2 DEF LeaseStep
<1>5. LeaseInv' /\ \A b \in Actor : b # a => at'[b] = at[b]
  BY <1>1, <1>4, LeaseStepInv, OthersStay DEF LeaseInv
<1>6. scratch = a <=> Running(turn[a])
  BY DEF IInv, ScratchFits
<1>7. ScratchStep(a, Idle)
  BY <1>2, <1>6, IdleFits DEF ScratchStep
<1>8. file.stamp <= file'.stamp /\ file'.stamp \in Nat
  BY <1>3 DEF LogMoves, FileFits
<1>9. plan' = plan /\ kills' \in 0..kills /\ jobs' \in [Actor -> Seq(Jobs)]
      /\ tree' \in 0..file'.stamp /\ saved' \subseteq 0..file'.stamp
  BY <1>1, <1>2, <1>8
<1>10. Idle.pc \notin Opens /\ Idle.pc # "restore"
       /\ (Idle.pc \notin {"idle", "acquire"} \/ sess'[a] # None => at'[a] = "held")
  BY <1>3, IdleFits DEF Opens
<1> QED BY <1>2, <1>3, <1>5, <1>7, <1>9, <1>10, IdleFits, JobMoves

(* A step of a job that holds the session and has, or is left, nothing open, or   *)
(* has it just opened.                                                            *)
LEMMA HeldStep ==
  ASSUME IInv, NEW a \in Actor, at[a] = "held", UNCHANGED leaseVars, LogMoves(a), NEW t,
         turn' = [turn EXCEPT ![a] = t], TurnFits(t), t.pc # "restore",
         t.pc \in Opens => file'.there /\ sess'[a] # None /\ (t.pc = "meta" <=> sess'[a].events = <<>>),
         UNCHANGED <<plan, jobs, kills, tree, saved>>, ScratchStep(a, t)
  PROVE  IInv'
<1>1. /\ LeaseInv /\ kills \in 0..kills /\ jobs \in [Actor -> Seq(Jobs)] /\ file.stamp \in Nat
      /\ tree \in 0..file.stamp /\ saved \subseteq 0..file.stamp
  BY ActorIs
<1>2. LeaseInv' /\ at' = at
  BY <1>1, LeaseStutters DEF leaseVars
<1>3. file.stamp <= file'.stamp /\ file'.stamp \in Nat
  BY DEF LogMoves, FileFits
<1>4. plan' = plan /\ kills' \in 0..kills /\ jobs' \in [Actor -> Seq(Jobs)]
      /\ tree' \in 0..file'.stamp /\ saved' \subseteq 0..file'.stamp
  BY <1>1, <1>3
<1>5. at'[a] = "held" /\ \A b \in Actor : b # a => at'[b] = at[b]
  BY <1>2
<1> QED BY <1>2, <1>4, <1>5, JobMoves

(* A create finds its file there, or makes it.                                  *)
LEMMA CreateKeeps ==
  ASSUME IInv, NEW a \in Actor, Create(a)
  PROVE  IInv'
<1>1. /\ Readable /\ TurnFits(turn[a]) /\ (sess[a] # None => SessionFits(sess[a], file.stamp))
  BY ActorIs
<1>2. turn[a].pc = "acquire" /\ at[a] = "held" /\ UNCHANGED <<leaseVars, restVars>> /\ turn[a].todo = <<>>
  BY <1>1 DEF Create, TurnFits
<1>3. plan' = plan /\ jobs' = jobs /\ scratch' = scratch /\ tree' = tree /\ saved' = saved /\ kills' = kills
      /\ UNCHANGED leaseVars /\ ~Running(turn[a])
  BY <1>2 DEF restVars, treeVars, Running, Body
<1>4. CASE CreateFile(a) /\ Moves(a, "meta")
  <2> DEFINE t == To(a, "meta")
  <2>1. t = [turn[a] EXCEPT !.pc = "meta"] /\ turn' = [turn EXCEPT ![a] = t]
    BY <1>4 DEF To, Moves
  <2>2. LogMoves(a) /\ file'.there /\ sess'[a] # None /\ sess'[a].events = <<>>
    BY <1>1, <1>4, CreateFits
  <2> HIDE DEF t
  <2>3. TurnFits(t) /\ t.pc = "meta" /\ ~Running(t)
    BY <1>1, <1>2, <2>1, PlainFits
  <2>4. ScratchStep(a, t)
    BY <1>3, <2>3 DEF ScratchStep
  <2>5. UNCHANGED <<plan, jobs, kills, tree, saved>>
    BY <1>3
  <2> QED BY <1>2, <2>1, <2>2, <2>3, <2>4, <2>5, HeldStep
<1>5. CASE UNCHANGED logVars /\ Moves(a, "leave")
  <2> DEFINE t == To(a, "leave")
  <2>1. t = [turn[a] EXCEPT !.pc = "leave"] /\ turn' = [turn EXCEPT ![a] = t]
    BY <1>5 DEF To, Moves
  <2>2. LogMoves(a)
    BY <1>1, <1>5, LogStays
  <2> HIDE DEF t
  <2>3. TurnFits(t) /\ t.pc = "leave" /\ ~Running(t)
    BY <1>1, <2>1, LeavingFits
  <2>4. ScratchStep(a, t) /\ t.pc \notin Opens
    BY <1>3, <2>3 DEF ScratchStep, Opens
  <2>5. UNCHANGED <<plan, jobs, kills, tree, saved>>
    BY <1>3
  <2> QED BY <1>2, <2>1, <2>2, <2>3, <2>4, <2>5, HeldStep
<1> QED BY <1>4, <1>5 DEF Create

(* A delete is under the lease, so no turn has its scratch there.               *)
LEMMA DeleteKeeps ==
  ASSUME IInv, NEW a \in Actor, Delete(a)
  PROVE  IInv'
<1>1. /\ Readable /\ TurnFits(turn[a]) /\ (sess[a] # None => SessionFits(sess[a], file.stamp)) /\ HoldFits(a)
  BY ActorIs
<1>2. turn[a].pc \in {"acquire", "deletelog"} /\ at[a] = "held" /\ UNCHANGED <<leaseVars, plan, jobs, treeVars, kills>>
      /\ turn[a].todo = <<>> /\ ~Running(turn[a])
  BY <1>1 DEF Delete, TurnFits, HoldFits, Running, Body
<1>3. UNCHANGED <<plan, jobs, kills, tree, saved>> /\ UNCHANGED leaseVars
  BY <1>2 DEF treeVars
<1>4. LogMoves(a)
  BY <1>1, DeleteFits DEF Delete
<1>5. CASE scratch' = Nobody /\ Moves(a, "deletelog")
  <2> DEFINE t == To(a, "deletelog")
  <2>1. t = [turn[a] EXCEPT !.pc = "deletelog"] /\ turn' = [turn EXCEPT ![a] = t]
    BY <1>5 DEF To, Moves
  <2> HIDE DEF t
  <2>2. TurnFits(t) /\ t.pc = "deletelog" /\ ~Running(t)
    BY <1>1, <1>2, <2>1, PlainFits
  <2>3. ScratchStep(a, t) /\ t.pc \notin Opens /\ t.pc # "restore"
    BY <1>2, <1>5, <2>2 DEF ScratchStep, Opens
  <2> QED BY <1>2, <1>3, <1>4, <2>1, <2>2, <2>3, HeldStep
<1>6. CASE UNCHANGED scratch /\ Moves(a, "leave")
  <2> DEFINE t == To(a, "leave")
  <2>1. t = [turn[a] EXCEPT !.pc = "leave"] /\ turn' = [turn EXCEPT ![a] = t]
    BY <1>6 DEF To, Moves
  <2> HIDE DEF t
  <2>2. TurnFits(t) /\ t.pc = "leave" /\ ~Running(t)
    BY <1>1, <2>1, LeavingFits
  <2>3. ScratchStep(a, t) /\ t.pc \notin Opens /\ t.pc # "restore"
    BY <1>2, <1>6, <2>2 DEF ScratchStep, Opens
  <2> QED BY <1>2, <1>3, <1>4, <2>1, <2>2, <2>3, HeldStep
<1> QED BY <1>5, <1>6 DEF Delete

(* A load opens the session, with its interrupted calls to answer.              *)
LEMMA LoadKeeps ==
  ASSUME IInv, NEW a \in Actor, Load(a)
  PROVE  IInv'
<1>1. /\ Readable /\ TurnFits(turn[a]) /\ (sess[a] # None => SessionFits(sess[a], file.stamp))
      /\ turn = [turn EXCEPT ![a] = turn[a]] /\ DOMAIN turn = Actor
  BY ActorIs
<1>2. turn[a].pc = "acquire" /\ at[a] = "held" /\ UNCHANGED <<leaseVars, restVars>>
      /\ turn[a].job \in Turns \cup {"compact", "rewind"} /\ turn[a].todo = <<>>
  BY <1>1 DEF Load, TurnFits
<1>3. UNCHANGED <<plan, jobs, kills, tree, saved>> /\ UNCHANGED leaseVars /\ scratch' = scratch
      /\ ~Running(turn[a])
  BY <1>2 DEF restVars, treeVars, Running, Body
<1>4. CASE Loadable
  <2> DEFINE q == Interrupted(sess'[a].events)
             t == Answering(turn[a], q, "begin")
  <2>1. turn' = [turn EXCEPT ![a] = t]
    BY <1>1, <1>4 DEF Load
  <2>2. LogMoves(a) /\ file'.there /\ sess'[a] # None /\ sess'[a].events # <<>>
    BY <1>1, <1>4, LoadsFit DEF Load
  <2>3. sess'[a].events \in Seq(Entry)
    BY <2>2 DEF LogMoves, SessionFits, OpenSession
  <2>4. q \in Seq(Call)
    BY <2>3, UnansweredAre
  <2>5. "begin" \in Nexts /\ turn[a] \in TurnOf(turn[a].target)
    BY <1>1 DEF Nexts, TurnFits
  <2> HIDE DEF q
  <2>6. TurnFits(t) /\ t.pc \in Opens \ {"meta", "restore"} /\ ~Running(t)
    BY <1>2, <2>4, <2>5, AnsweringFits
  <2> HIDE DEF t
  <2>7. ScratchStep(a, t)
    BY <1>3, <2>6 DEF ScratchStep
  <2> QED BY <1>2, <1>3, <2>1, <2>2, <2>6, <2>7, HeldStep
<1>5. CASE ~Loadable
  <2> DEFINE t == To(a, "leave")
  <2>1. t = [turn[a] EXCEPT !.pc = "leave"] /\ turn' = [turn EXCEPT ![a] = t] /\ UNCHANGED logVars
    BY <1>5 DEF To, Moves, Load
  <2>2. LogMoves(a)
    BY <1>1, <2>1, LogStays
  <2> HIDE DEF t
  <2>3. TurnFits(t) /\ t.pc = "leave" /\ ~Running(t)
    BY <1>1, <2>1, LeavingFits
  <2>4. ScratchStep(a, t) /\ t.pc \notin Opens /\ t.pc # "restore"
    BY <1>3, <2>3 DEF ScratchStep, Opens
  <2> QED BY <1>2, <1>3, <2>1, <2>2, <2>3, <2>4, HeldStep
<1> QED BY <1>4, <1>5

(* What a step that has the session open leaves alone.                            *)
LEMMA RestStays ==
  ASSUME IInv, NEW a \in Actor, UNCHANGED restVars
  PROVE  /\ UNCHANGED <<plan, jobs, kills, tree>> /\ tree' \in 0..file.stamp
         /\ saved' \subseteq 0..file.stamp /\ scratch' = scratch
BY ActorIs DEF restVars, treeVars

(* An event that is neither a tree nor the first one is apt.                      *)
LEMMA AptIs ==
  ASSUME IInv, NEW a \in Actor, turn[a].pc \in Opens \ {"meta"}, NEW e \in Entry, e.k # "tree"
  PROVE  Apt(a, e)
BY OpenIs DEF Apt

(* The metadata is the first event of a new session.                            *)
LEMMA WriteMetaKeeps ==
  ASSUME IInv, NEW a \in Actor, WriteMeta(a)
  PROVE  IInv'
<1> DEFINE e == Event("meta")
           t == Leaving(a)
<1>1. turn[a].pc = "meta" /\ turn[a].pc \in Opens /\ Writes(a, e, t, t) /\ UNCHANGED restVars
  BY DEF WriteMeta, Opens
<1>2. e \in Entry /\ e.k = "meta"
  BY EventsAre DEF Kinds
<1>3. Apt(a, e)
  BY <1>2 DEF Apt
<1>4. t = [turn[a] EXCEPT !.pc = "leave"] /\ TurnFits(turn[a])
  BY ActorIs DEF Leaving, To
<1> HIDE DEF e, t
<1>5. TurnFits(t) /\ t.pc = "leave" /\ ~Running(t) /\ ~Running(turn[a])
  BY <1>1, <1>4, LeavingFits DEF Running, Body
<1>6. ScratchStep(a, t) /\ UNCHANGED <<plan, jobs, kills, tree>> /\ saved' \subseteq 0..file.stamp
  BY <1>1, <1>5, RestStays DEF ScratchStep
<1> QED BY <1>1, <1>3, <1>5, <1>6, WriteStep

(* An append of a turn under its scratch, whose error closes it.                  *)
LEMMA RunningWrites ==
  ASSUME IInv, NEW a \in Actor, turn[a].pc \in Opens \ {"meta"}, Running(turn[a]),
         NEW e \in Entry, e.k # "tree", NEW done, NEW failed,
         TurnFits(failed), failed.pc = "closing", Running(failed),
         Writes(a, e, done, failed), TurnFits(done), Running(done), done.pc # "meta",
         UNCHANGED restVars
  PROVE  IInv'
<1>1. Apt(a, e) /\ turn[a].pc \in Opens /\ turn[a].pc # "meta"
  BY AptIs
<1>3. {done.pc, failed.pc} \subseteq (Opens \ {"meta", "restore"}) \cup {"leave"}
  BY DEF Running, Body, Opens
<1>4. /\ UNCHANGED <<plan, jobs, kills, tree>> /\ saved' \subseteq 0..file.stamp
      /\ ScratchStep(a, done) /\ ScratchStep(a, failed)
  BY RestStays DEF ScratchStep
<1>5. \A r \in {done, failed} : turn' = [turn EXCEPT ![a] = r] => ScratchStep(a, r)
  BY <1>4
<1> QED BY <1>1, <1>3, <1>4, <1>5, WriteStep

(* One more call is answered.                                                   *)
LEMMA AnswerNextKeeps ==
  ASSUME IInv, NEW a \in Actor, AnswerNext(a)
  PROVE  IInv'
<1> DEFINE t == turn[a]
           p == t.pics /\ Len(t.todo) > 1
           u == [t EXCEPT !.pics = p]
           e == [ResultOf(Head(t.todo)) EXCEPT !.pics = t.pics]
           done == Answering(u, Tail(t.todo), t.next)
           failed == IF t.next = "begin" THEN Leaving(a) ELSE Closing(a)
<1>1. t.pc = "answers" /\ t.pc \in Opens \ {"meta"} /\ Writes(a, e, done, failed) /\ UNCHANGED restVars
  BY DEF AnswerNext, Opens
<1>2. TurnFits(t)
  BY ActorIs
<1>3. /\ t.todo # <<>> /\ t.next \in Nexts /\ t.todo \in Seq(Call) /\ t.pics \in BOOLEAN
      /\ t.job \in Turns \cup {"compact", "rewind"} /\ (t.next # "begin" => t.job \in Turns)
      /\ (Running(t) <=> t.next # "begin")
  BY <1>1, <1>2 DEF TurnFits, TurnOf, Running, Body
<1>4. e \in Entry /\ e.k = "result" /\ Tail(t.todo) \in Seq(Call)
  BY <1>3, ResultsAre
<1>5. u \in TurnOf(u.target) /\ u.job = t.job
  <2>1. p \in BOOLEAN
    BY <1>3
  <2> HIDE DEF p
  <2> QED BY <1>2, <2>1 DEF TurnFits, TurnOf
<1> HIDE DEF u, p, e
<1> DEFINE todo == Tail(t.todo)
<1>6. todo \in Seq(Call) /\ done = Answering(u, todo, t.next)
  BY <1>4
<1> HIDE DEF todo
<1>7. TurnFits(done) /\ done.pc \in Opens \ {"meta", "restore"} /\ (Running(done) <=> t.next # "begin")
  <2>1. u.job \in Turns \/ (t.next = "begin" /\ u.job \in {"compact", "rewind"})
    BY <1>3, <1>5
  <2> DEFINE r == Answering(u, todo, t.next)
  <2>2. TurnFits(r) /\ r.pc \in Opens \ {"meta", "restore"} /\ (Running(r) <=> t.next # "begin")
    BY <1>3, <1>5, <1>6, <2>1, AnsweringFits
  <2> QED BY <1>6, <2>2
<1>8. Closing(a) = [t EXCEPT !.pc = "closing"] /\ Leaving(a) = [t EXCEPT !.pc = "leave"]
  BY DEF Closing, Leaving, To
<1>9. /\ TurnFits(failed) /\ failed.pc \in {"leave", "closing"} /\ (Running(failed) <=> t.next # "begin")
  <2>1. CASE t.next = "begin"
    BY <1>2, <1>8, <2>1, LeavingFits
  <2>2. CASE t.next # "begin"
    BY <1>2, <1>3, <1>8, <2>2, ClosingFits
  <2> QED BY <2>1, <2>2
<1> HIDE DEF done, failed
<1>10. Apt(a, e)
  BY <1>1, <1>4, AptIs
<1>11. /\ UNCHANGED <<plan, jobs, kills, tree>> /\ saved' \subseteq 0..file.stamp
       /\ ScratchStep(a, done) /\ ScratchStep(a, failed)
  BY <1>1, <1>3, <1>7, <1>9, RestStays DEF ScratchStep
<1>12. {done.pc, failed.pc} \subseteq (Opens \ {"meta", "restore"}) \cup {"leave"}
  BY <1>7, <1>9 DEF Opens
<1> QED BY <1>1, <1>7, <1>9, <1>10, <1>11, <1>12, WriteStep

--------------------------------------------------------------------------------
(* The begin of a job.                                                            *)
LEMMA BeginIs ==
  ASSUME IInv, NEW a \in Actor, turn[a].pc \in {"begin", "prompt"}
  PROVE  /\ TurnFits(turn[a]) /\ turn[a].pc \in Opens \ {"meta"} /\ ~Running(turn[a]) /\ turn[a].todo = <<>>
         /\ at[a] = "held" /\ sess[a].events \in Seq(Entry)
         /\ To(a, "leave") = [turn[a] EXCEPT !.pc = "leave"] /\ Leaving(a) = To(a, "leave")
         /\ TurnFits(To(a, "leave")) /\ To(a, "leave").pc = "leave" /\ ~Running(To(a, "leave"))
         /\ turn[a].pc = "prompt" => turn[a].job \in Turns
<1>1. TurnFits(turn[a])
  BY ActorIs
<1>2. turn[a].pc \in Opens \ {"meta"} /\ ~Running(turn[a]) /\ turn[a].todo = <<>>
  BY <1>1 DEF Opens, Running, Body, TurnFits
<1>3. at[a] = "held" /\ sess[a].events \in Seq(Entry)
  BY <1>2, OpenIs
<1> DEFINE t == To(a, "leave")
<1>4. t = [turn[a] EXCEPT !.pc = "leave"] /\ Leaving(a) = t
  BY DEF To, Leaving
<1> HIDE DEF t
<1>5. TurnFits(t) /\ t.pc = "leave" /\ ~Running(t)
  BY <1>1, <1>4, LeavingFits
<1> QED BY <1>1, <1>2, <1>3, <1>4, <1>5 DEF TurnFits, t

(* A job that is refused.                                                       *)
LEMMA BeginRefusedKeeps ==
  ASSUME IInv, NEW a \in Actor, BeginRefused(a)
  PROVE  IInv'
<1> DEFINE t == To(a, "leave")
<1>1. turn[a].pc \in {"begin", "prompt"} /\ turn' = [turn EXCEPT ![a] = t]
      /\ UNCHANGED <<leaseVars, logVars>> /\ UNCHANGED restVars
  BY DEF BeginRefused, Moves
<1>2. turn[a].pc \in Opens \ {"meta"} /\ ~Running(turn[a]) /\ TurnFits(t) /\ t.pc = "leave" /\ ~Running(t)
  BY <1>1, BeginIs
<1> HIDE DEF t
<1>3. ScratchStep(a, t) /\ UNCHANGED <<leaseVars, logVars, plan, jobs, kills>>
      /\ tree' \in 0..file.stamp /\ saved' \subseteq 0..file.stamp
  BY <1>1, <1>2, RestStays DEF ScratchStep
<1> QED BY <1>1, <1>2, <1>3, QuietStep

(* A message begins with the tree it was said to.                               *)
LEMMA BeginSayKeeps ==
  ASSUME IInv, NEW a \in Actor, BeginSay(a)
  PROVE  IInv'
<1> DEFINE t == To(a, "prompt")
           l == To(a, "leave")
           e == [Event("tree") EXCEPT !.n = tree]
<1>1. turn[a].pc \in {"begin", "prompt"} /\ turn[a].job \in Turns
      /\ UNCHANGED <<plan, jobs, kills, tree>> /\ scratch' = scratch
  BY DEF BeginSay, Turns
<1>2. /\ turn[a].pc \in Opens /\ turn[a].pc # "meta" /\ ~Running(turn[a]) /\ TurnFits(l) /\ l.pc = "leave" /\ ~Running(l)
      /\ Leaving(a) = l /\ turn[a].todo = <<>> /\ TurnFits(turn[a])
  BY <1>1, BeginIs
<1>3. tree \in 0..file.stamp /\ saved \subseteq 0..file.stamp /\ file.stamp \in Nat
  BY ActorIs
<1>4. t = [turn[a] EXCEPT !.pc = "prompt"]
  BY DEF To
<1> HIDE DEF t, l
<1>5. TurnFits(t) /\ t.pc = "prompt" /\ ~Running(t)
  BY <1>1, <1>2, <1>4, PlainFits
<1>6. ScratchStep(a, t) /\ ScratchStep(a, l)
  BY <1>1, <1>2, <1>5 DEF ScratchStep
<1>7. tree' \in 0..file.stamp /\ saved' \subseteq 0..file.stamp
  BY <1>1, <1>3 DEF BeginSay
<1>8. CASE Writes(a, e, t, l)
  <2>1. e \in Entry /\ e.k = "tree" /\ e.n = tree
    <3>1. tree \in Nat /\ "tree" \in Kinds
      BY <1>3 DEF Kinds
    <3> QED BY <3>1, EventsAre
  <2>2. sess[a].events # <<>>
    BY <1>2, OpenIs
  <2>3. Apt(a, e)
    BY <1>3, <2>1, <2>2 DEF Apt
  <2>4. {t.pc, l.pc} \subseteq (Opens \ {"meta", "restore"}) \cup {"leave"}
    BY <1>2, <1>5 DEF Opens
  <2> HIDE DEF e
  <2> QED BY <1>1, <1>2, <1>5, <1>6, <1>7, <1>8, <2>3, <2>4, WriteStep
<1>9. CASE turn' = [turn EXCEPT ![a] = t] /\ UNCHANGED <<leaseVars, logVars>>
  <2>1. t.pc \in (Opens \ {"meta"}) \cup {"leave"} /\ turn[a].pc \in Opens \ {"meta"}
    BY <1>2, <1>5 DEF Opens
  <2> QED BY <1>1, <1>5, <1>6, <1>7, <1>9, <2>1, QuietStep
<1> QED BY <1>2, <1>8, <1>9 DEF BeginSay, Moves, t, l

(* The first append of a turn that started: its scratch is there with it.         *)
LEMMA StartWrites ==
  ASSUME IInv, NEW a \in Actor, turn[a].pc \in {"begin", "prompt"}, turn[a].job \in Turns,
         NEW e \in Entry, e.k # "tree", Writes(a, e, To(a, "compactstart"), Leaving(a)),
         IF turn'[a].pc = "compactstart" THEN Started(a) ELSE UNCHANGED restVars
  PROVE  IInv'
<1> DEFINE t == To(a, "compactstart")
           l == To(a, "leave")
<1>1. /\ turn[a].pc \in Opens \ {"meta"} /\ ~Running(turn[a]) /\ TurnFits(l) /\ l.pc = "leave" /\ ~Running(l)
      /\ Leaving(a) = l /\ turn[a].todo = <<>> /\ TurnFits(turn[a]) /\ at[a] = "held"
  BY BeginIs
<1>2. t = [turn[a] EXCEPT !.pc = "compactstart"] /\ DOMAIN turn = Actor
  BY ActorIs DEF To
<1>3. Writes(a, e, t, l)
  BY <1>1
<1> HIDE DEF t, l
<1>4. TurnFits(t) /\ t.pc = "compactstart" /\ Running(t)
  BY <1>1, <1>2, PlainFits
<1>5. Apt(a, e)
  BY <1>1, AptIs
<1>6. ASSUME NEW r \in {t, l}, turn' = [turn EXCEPT ![a] = r] PROVE ScratchStep(a, r)
  <2>1. turn'[a] = r
    BY <1>2, <1>6
  <2>2. CASE r = t
    <3>1. scratch' = a
      BY <1>4, <2>1, <2>2 DEF Started
    <3> QED BY <1>1, <1>4, <2>2, <3>1 DEF ScratchStep
  <2>3. CASE r = l
    <3>1. scratch' = scratch
      BY <1>1, <2>1, <2>3 DEF restVars
    <3> QED BY <1>1, <2>3, <3>1 DEF ScratchStep
  <2> QED BY <1>6, <2>2, <2>3
<1>7. UNCHANGED <<plan, jobs, kills, tree, saved>>
  BY DEF Started, restVars, treeVars
<1>8. saved' \subseteq 0..file.stamp
  BY <1>7, ActorIs
<1>9. {t.pc, l.pc} \subseteq (Opens \ {"meta", "restore"}) \cup {"leave"} /\ turn[a].pc \in Opens /\ turn[a].pc # "meta"
  BY <1>1, <1>4 DEF Opens
<1> QED BY <1>1, <1>3, <1>4, <1>5, <1>6, <1>7, <1>8, <1>9, WriteStep

(* The prompt starts the turn.                                                  *)
LEMMA PromptKeeps ==
  ASSUME IInv, NEW a \in Actor, Prompt(a)
  PROVE  IInv'
<1>1. turn[a].pc = "prompt"
  BY DEF Prompt
<1>2. turn[a].job \in Turns
  BY <1>1, BeginIs
<1>3. PICK pics \in Shown : Writes(a, [Event("user") EXCEPT !.pics = pics], To(a, "compactstart"), Leaving(a))
  BY DEF Prompt
<1>4. IF turn'[a].pc = "compactstart" THEN Started(a) ELSE UNCHANGED restVars
  BY DEF Prompt
<1> DEFINE e == [Event("user") EXCEPT !.pics = pics]
<1>5. e \in Entry /\ e.k # "tree"
  <2>1. pics \in BOOLEAN /\ "user" \in Kinds
    BY DEF Shown, Kinds
  <2>2. e \in Entry /\ e.k = "user"
    BY <2>1, EventsAre
  <2> QED BY <2>2
<1> HIDE DEF e
<1>6. Writes(a, e, To(a, "compactstart"), Leaving(a))
  BY <1>3 DEF e
<1> QED BY <1>1, <1>2, <1>4, <1>5, <1>6, StartWrites

(* The answer of a question starts the turn.                                    *)
LEMMA BeginAnswerKeeps ==
  ASSUME IInv, NEW a \in Actor, BeginAnswer(a)
  PROVE  IInv'
<1> DEFINE q == Unanswered(sess[a].events)
           e == ResultOf(q[1])
<1>1. turn[a].pc = "begin" /\ turn[a].job = "answer" /\ ~Refuses(a)
      /\ Writes(a, e, To(a, "compactstart"), Leaving(a))
      /\ IF turn'[a].pc = "compactstart" THEN Started(a) ELSE UNCHANGED restVars
  BY DEF BeginAnswer
<1>2. sess[a].events \in Seq(Entry)
  BY <1>1, BeginIs
<1>3. IsPending(sess[a].events)
  BY <1>1 DEF Refuses
<1>4. q \in Seq(Call) /\ q # <<>>
  BY <1>2, <1>3, UnansweredAre
<1> HIDE DEF q
<1>5. e \in Entry /\ e.k = "result"
  BY <1>4, ResultsAre
<1> HIDE DEF e
<1>6. turn[a].job \in Turns /\ e.k # "tree"
  BY <1>1, <1>5 DEF Turns
<1> QED BY <1>1, <1>5, <1>6, StartWrites

(* A turn that continues writes nothing first.                                  *)
LEMMA BeginContinueKeeps ==
  ASSUME IInv, NEW a \in Actor, BeginContinue(a)
  PROVE  IInv'
<1> DEFINE t == To(a, "compactstart")
<1>1. turn[a].pc \in {"begin", "prompt"} /\ turn[a].job \in Turns /\ turn' = [turn EXCEPT ![a] = t]
      /\ scratch' = a /\ UNCHANGED <<leaseVars, logVars, plan, jobs, kills>> /\ tree' = tree /\ saved' = saved
  BY DEF BeginContinue, Turns, Moves, Started, treeVars
<1>2. turn[a].pc \in Opens \ {"meta"} /\ turn[a].todo = <<>> /\ TurnFits(turn[a]) /\ at[a] = "held"
  BY <1>1, BeginIs
<1>3. t = [turn[a] EXCEPT !.pc = "compactstart"]
  BY DEF To
<1> HIDE DEF t
<1>4. TurnFits(t) /\ t.pc = "compactstart" /\ Running(t)
  BY <1>1, <1>2, <1>3, PlainFits
<1>5. ScratchStep(a, t) /\ t.pc \in (Opens \ {"meta"}) \cup {"leave"} /\ t.pc # "restore"
  BY <1>1, <1>2, <1>4 DEF ScratchStep, Opens
<1>6. tree' \in 0..file.stamp /\ saved' \subseteq 0..file.stamp
  BY <1>1, ActorIs
<1> QED BY <1>1, <1>2, <1>4, <1>5, <1>6, QuietStep

--------------------------------------------------------------------------------
(* The loop of a turn.                                                            *)
LEMMA RunningIs ==
  ASSUME IInv, NEW a \in Actor, turn[a].pc \in (Body \ {"answers"}) \cup {"resume"}
  PROVE  /\ TurnFits(turn[a]) /\ turn[a].pc \in Opens \ {"meta"} /\ Running(turn[a])
         /\ turn[a].job \in Turns /\ turn[a].job # "compact" /\ at[a] = "held"
         /\ sess[a].events \in Seq(Entry) /\ FileFits(file)
         /\ Closing(a) = [turn[a] EXCEPT !.pc = "closing"] /\ To(a, "closing") = Closing(a)
         /\ TurnFits(Closing(a)) /\ Closing(a).pc = "closing" /\ Running(Closing(a))
<1>1. TurnFits(turn[a])
  BY ActorIs
<1>2. turn[a].pc \in Opens \ {"meta"} /\ Running(turn[a])
  BY DEF Opens, Running, Body
<1>3. turn[a].job \in Turns /\ turn[a].job # "compact"
  BY <1>1, <1>2 DEF TurnFits, Turns
<1>4. at[a] = "held" /\ sess[a].events \in Seq(Entry) /\ FileFits(file)
  BY <1>2, OpenIs DEF HasOpen
<1> DEFINE c == Closing(a)
<1>5. c = [turn[a] EXCEPT !.pc = "closing"] /\ To(a, "closing") = c
  BY DEF Closing, To
<1> HIDE DEF c
<1>6. TurnFits(c) /\ c.pc = "closing" /\ Running(c)
  BY <1>1, <1>3, <1>5, ClosingFits
<1> QED BY <1>1, <1>2, <1>3, <1>4, <1>5, <1>6 DEF c

(* A step of the loop that writes nothing.                                        *)
LEMMA RunningStep ==
  ASSUME IInv, NEW a \in Actor, turn[a].pc \in Opens \ {"meta"}, Running(turn[a]),
         NEW t, turn' = [turn EXCEPT ![a] = t], TurnFits(t), Running(t),
         UNCHANGED <<leaseVars, logVars>>, UNCHANGED <<plan, jobs, kills, scratch>>,
         tree' \in 0..file.stamp, saved' \subseteq 0..file.stamp
  PROVE  IInv'
<1>1. t.pc \in (Opens \ {"meta"}) \cup {"leave"} /\ t.pc # "restore"
  BY DEF Opens, Running, Body
<1>2. ScratchStep(a, t) /\ UNCHANGED <<leaseVars, logVars, plan, jobs, kills>>
  BY DEF ScratchStep
<1> QED BY <1>1, <1>2, QuietStep

(* The last append of a job.                                                      *)
LEMMA LastWrites ==
  ASSUME IInv, NEW a \in Actor, turn[a].pc \in Opens \ {"meta"}, ~Running(turn[a]),
         NEW e \in Entry, e.k # "tree", Writes(a, e, Leaving(a), Leaving(a)), UNCHANGED restVars
  PROVE  IInv'
<1> DEFINE t == Leaving(a)
<1>1. t = [turn[a] EXCEPT !.pc = "leave"] /\ TurnFits(turn[a]) /\ Writes(a, e, t, t)
  BY ActorIs DEF Leaving, To
<1> HIDE DEF t
<1>2. TurnFits(t) /\ t.pc = "leave" /\ ~Running(t)
  BY <1>1, LeavingFits
<1>3. ScratchStep(a, t) /\ UNCHANGED <<plan, jobs, kills, tree>> /\ saved' \subseteq 0..file.stamp
  BY <1>2, RestStays DEF ScratchStep
<1>4. Apt(a, e) /\ turn[a].pc \in Opens
  BY AptIs
<1> QED BY <1>1, <1>2, <1>3, <1>4, WriteStep, ZenonT(60)

(* Where a compaction leaves a turn, and how far it cuts.                         *)
LEMMA CompactionIs ==
  ASSUME IInv, NEW a \in Actor, AtCompaction(a) \/ turn[a].pc = "compactmid"
  PROVE  /\ \/ turn[a].pc = "begin" /\ turn[a].job = "compact" /\ AfterCompaction(a) = "leave"
            \/ /\ turn[a].pc \in {"compactstart", "compactmid"} /\ turn[a].job # "compact"
               /\ TurnFits(To(a, AfterCompaction(a))) /\ Running(To(a, AfterCompaction(a)))
               /\ To(a, AfterCompaction(a)).pc # "meta"
         /\ turn[a].pc \in Opens \ {"meta"} /\ sess[a].events \in Seq(Entry)
         /\ CutFor(a) \in Nat
<1>1. turn[a].pc \in {"begin", "compactstart", "compactmid"}
  BY DEF AtCompaction
<1>2. turn[a].pc \in Opens \ {"meta"}
  BY <1>1 DEF Opens
<1>3. sess[a].events \in Seq(Entry)
  BY <1>2, OpenIs
<1>4. CutFor(a) \in Nat
  BY <1>3, BoundaryTells, LenProperties DEF CutFor
<1>5. CASE turn[a].pc = "begin"
  BY <1>2, <1>3, <1>4, <1>5 DEF AtCompaction, AfterCompaction
<1>6. CASE turn[a].pc # "begin"
  <2>1. /\ TurnFits(turn[a]) /\ Running(turn[a]) /\ turn[a].job \in Turns /\ turn[a].job # "compact"
    <3>1. turn[a].pc \in (Body \ {"answers"}) \cup {"resume"}
      BY <1>1, <1>6 DEF Body
    <3> QED BY <3>1, RunningIs
  <2> DEFINE pc == AfterCompaction(a)
             t == To(a, pc)
  <2>2. \/ (turn[a].pc = "compactstart" /\ pc = "top")
        \/ (turn[a].pc = "compactmid" /\ pc = "cutoff")
    BY <1>1, <1>6 DEF AfterCompaction
  <2> HIDE DEF pc
  <2>3. t = [turn[a] EXCEPT !.pc = pc]
    BY DEF To
  <2> HIDE DEF t
  <2>4. t \in TurnOf(t.target) /\ t.pc = pc /\ t.job = turn[a].job /\ t.todo = turn[a].todo /\ t.iters = turn[a].iters
    BY <2>1, <2>2, <2>3 DEF TurnFits, TurnOf, Opens
  <2>5. TurnFits(t) /\ Running(t) /\ t.pc # "meta"
    BY <2>1, <2>2, <2>4 DEF TurnFits, Running, Body
  <2> QED BY <1>1, <1>2, <1>3, <1>4, <1>6, <2>1, <2>5 DEF t, pc
<1> QED BY <1>5, <1>6

(* Nothing is compacted.                                                        *)
LEMMA NoCompactionKeeps ==
  ASSUME IInv, NEW a \in Actor, NoCompaction(a)
  PROVE  IInv'
<1> DEFINE t == To(a, AfterCompaction(a))
<1>1. turn' = [turn EXCEPT ![a] = t] /\ UNCHANGED <<leaseVars, logVars>> /\ UNCHANGED restVars
      /\ (AtCompaction(a) \/ turn[a].pc = "compactmid")
  BY DEF NoCompaction, Moves
<1>2. /\ UNCHANGED <<plan, jobs, kills, tree>> /\ tree' \in 0..file.stamp
      /\ saved' \subseteq 0..file.stamp /\ scratch' = scratch
  BY <1>1, RestStays
<1>3. turn[a].pc \in Opens \ {"meta"}
  BY <1>1, CompactionIs
<1>4. CASE turn[a].pc = "begin"
  <2>1. AfterCompaction(a) = "leave"
    BY <1>1, <1>4, CompactionIs
  <2>2. TurnFits(t) /\ t.pc = "leave" /\ ~Running(t) /\ ~Running(turn[a])
    BY <1>4, <2>1, BeginIs
  <2> HIDE DEF t
  <2>3. ScratchStep(a, t) /\ UNCHANGED <<leaseVars, logVars, plan, jobs, kills>>
    BY <1>1, <1>2, <2>2 DEF ScratchStep
  <2> QED BY <1>1, <1>2, <1>3, <2>2, <2>3, QuietStep
<1>5. CASE turn[a].pc # "begin"
  <2>1. turn[a].pc \in {"compactstart", "compactmid"} /\ TurnFits(t) /\ Running(t)
    BY <1>1, <1>5, CompactionIs
  <2>2. Running(turn[a])
    BY <2>1 DEF Running, Body
  <2> HIDE DEF t
  <2>3. UNCHANGED <<plan, jobs, kills, scratch>>
    BY <1>2
  <2> QED BY <1>1, <1>2, <1>3, <2>1, <2>2, <2>3, RunningStep
<1> QED BY <1>4, <1>5

(* A summary is appended.                                                       *)
LEMMA CompactsKeeps ==
  ASSUME IInv, NEW a \in Actor, Compacts(a)
  PROVE  IInv'
<1> DEFINE t == To(a, AfterCompaction(a))
           e == [Event("compaction") EXCEPT !.n = CutFor(a)]
           f == IF turn[a].job = "compact" THEN Leaving(a) ELSE Closing(a)
<1>1. AtCompaction(a) /\ Writes(a, e, t, f) /\ UNCHANGED restVars
  BY DEF Compacts
<1>2. turn[a].pc \in Opens \ {"meta"} /\ CutFor(a) \in Nat
  BY <1>1, CompactionIs
<1>3. e \in Entry /\ e.k # "tree"
  <2>1. "compaction" \in Kinds
    BY DEF Kinds
  <2>2. e \in Entry /\ e.k = "compaction"
    BY <1>2, <2>1, EventsAre
  <2> QED BY <2>2
<1> HIDE DEF e
<1>4. CASE turn[a].pc = "begin"
  <2>1. AfterCompaction(a) = "leave" /\ turn[a].job = "compact" /\ ~Running(turn[a]) /\ Leaving(a) = To(a, "leave")
    BY <1>1, <1>4, CompactionIs, BeginIs
  <2>2. Writes(a, e, Leaving(a), Leaving(a))
    BY <1>1, <2>1
  <2> QED BY <1>1, <1>2, <1>3, <2>1, <2>2, LastWrites
<1>5. CASE turn[a].pc # "begin"
  <2>1. turn[a].pc \in {"compactstart", "compactmid"} /\ TurnFits(t) /\ Running(t) /\ turn[a].job # "compact" /\ t.pc # "meta"
    BY <1>1, <1>5, CompactionIs
  <2>2. turn[a].pc \in (Body \ {"answers"}) \cup {"resume"}
    BY <2>1 DEF Body
  <2>3. f = Closing(a)
    BY <2>1
  <2>4. Running(turn[a]) /\ TurnFits(f) /\ f.pc = "closing" /\ Running(f)
    BY <2>2, <2>3, RunningIs
  <2> HIDE DEF t, f
  <2> QED BY <1>1, <1>2, <1>3, <2>1, <2>4, RunningWrites
<1> QED BY <1>4, <1>5

(* No summary comes.                                                            *)
LEMMA CompactionFailsKeeps ==
  ASSUME IInv, NEW a \in Actor, CompactionFails(a)
  PROVE  IInv'
<1> DEFINE pc == IF turn[a].job = "compact" THEN "leave" ELSE "closing"
           t == To(a, pc)
<1>1. AtCompaction(a) /\ turn' = [turn EXCEPT ![a] = t] /\ UNCHANGED <<leaseVars, logVars>> /\ UNCHANGED restVars
  BY DEF CompactionFails, Moves
<1>2. turn[a].pc \in Opens \ {"meta"}
  BY <1>1, CompactionIs
<1>3. /\ UNCHANGED <<plan, jobs, kills, tree>> /\ tree' \in 0..file.stamp
      /\ saved' \subseteq 0..file.stamp /\ scratch' = scratch
  BY <1>1, RestStays
<1>4. CASE turn[a].pc = "begin"
  <2>1. pc = "leave"
    BY <1>1, <1>4, CompactionIs
  <2>2. TurnFits(t) /\ t.pc = "leave" /\ ~Running(t) /\ ~Running(turn[a])
    BY <1>4, <2>1, BeginIs
  <2> HIDE DEF t
  <2>3. ScratchStep(a, t) /\ UNCHANGED <<leaseVars, logVars, plan, jobs, kills>>
    BY <1>1, <1>3, <2>2 DEF ScratchStep
  <2> QED BY <1>1, <1>2, <1>3, <2>2, <2>3, QuietStep
<1>5. CASE turn[a].pc # "begin"
  <2>1. turn[a].pc \in {"compactstart", "compactmid"} /\ turn[a].job # "compact"
    BY <1>1, <1>5, CompactionIs
  <2>2. turn[a].pc \in (Body \ {"answers"}) \cup {"resume"}
    BY <2>1 DEF Body
  <2>3. t = Closing(a)
    BY <2>1 DEF Closing, To
  <2>4. Running(turn[a]) /\ TurnFits(t) /\ Running(t)
    BY <2>2, <2>3, RunningIs
  <2> HIDE DEF t
  <2>5. UNCHANGED <<plan, jobs, kills, scratch>>
    BY <1>3
  <2> QED BY <1>1, <1>2, <1>3, <2>4, <2>5, RunningStep
<1> QED BY <1>4, <1>5

(* A turn with no calls in hand that goes on, or ends.                            *)
LEMMA LoopFits ==
  ASSUME NEW t, t \in TurnOf(t.target), t.job \in Turns, t.todo = <<>>,
         t.pc \in {"top", "steers", "compactmid", "cutoff", "request", "closing"},
         t.pc \in {"steers", "compactmid", "cutoff", "request"} => t.iters < MaxIterations
  PROVE  TurnFits(t) /\ Running(t) /\ t.pc \in Opens \ {"meta"}
BY DEF TurnFits, Running, Body, Opens

(* What a turn in its loop has in hand.                                           *)
LEMMA LoopIs ==
  ASSUME IInv, NEW a \in Actor, turn[a].pc \in {"top", "steers", "compactmid", "cutoff", "request", "resume"}
  PROVE  /\ turn[a] \in TurnOf(turn[a].target) /\ turn[a].todo = <<>> /\ turn[a].job \in Turns
         /\ turn[a].pc \in {"steers", "compactmid", "cutoff", "request"} => turn[a].iters < MaxIterations
         /\ turn[a].pc \in (Body \ {"answers"}) \cup {"resume"}
         /\ turn[a].pc \in Opens \ {"meta"} /\ Running(turn[a]) /\ at[a] = "held"
         /\ sess[a].events \in Seq(Entry) /\ FileFits(file)
         /\ TurnFits(Closing(a)) /\ Closing(a).pc = "closing" /\ Running(Closing(a))
<1>1. turn[a].pc \in (Body \ {"answers"}) \cup {"resume"}
  BY DEF Body
<1> QED BY <1>1, RunningIs DEF TurnFits

(* A step of the loop that only moves the turn.                                   *)
LEMMA LoopStep ==
  ASSUME IInv, NEW a \in Actor, turn[a].pc \in Opens \ {"meta"}, Running(turn[a]),
         UNCHANGED <<leaseVars, logVars, restVars>>,
         \E t : turn' = [turn EXCEPT ![a] = t] /\ TurnFits(t) /\ Running(t)
  PROVE  IInv'
<1>1. UNCHANGED <<leaseVars, logVars>> /\ UNCHANGED restVars
  OBVIOUS
<1>2. UNCHANGED <<plan, jobs, kills, scratch>> /\ tree' \in 0..file.stamp /\ saved' \subseteq 0..file.stamp
  BY <1>1, RestStays
<1> QED BY <1>1, <1>2, RunningStep

(* The top of the loop takes what was sent, while the budget lasts.             *)
LEMMA TopKeeps ==
  ASSUME IInv, NEW a \in Actor, Top(a)
  PROVE  IInv'
<1> DEFINE t == turn[a]
           sent == t.steers + t.inbox
           r == [To(a, "steers") EXCEPT !.steers = sent, !.inbox = 0, !.iters = IF sent > 0 THEN 0 ELSE @]
<1>1. t.pc = "top" /\ UNCHANGED <<leaseVars, logVars, restVars>>
  BY DEF Top
<1>2. /\ t \in TurnOf(t.target) /\ t.todo = <<>> /\ t.job \in Turns
      /\ t.pc \in Opens \ {"meta"} /\ Running(t) /\ TurnFits(Closing(a)) /\ Running(Closing(a))
  BY <1>1, LoopIs
<1>3. CASE turn' = [turn EXCEPT ![a] = Closing(a)]
  BY <1>1, <1>2, <1>3, LoopStep
<1>4. CASE t.iters < MaxIterations /\ turn' = [turn EXCEPT ![a] = r]
  <2>1. sent \in Nat /\ 0 \in 0..MaxIterations /\ 0 < MaxIterations
    BY <1>2, LoopAssumption DEF TurnOf
  <2> HIDE DEF sent
  <2>2. r \in TurnOf(r.target) /\ r.pc = "steers" /\ r.todo = <<>> /\ r.job = t.job /\ r.iters < MaxIterations
    BY <1>2, <1>4, <2>1 DEF To, TurnOf, Opens
  <2> HIDE DEF r
  <2>3. TurnFits(r) /\ Running(r)
    BY <1>2, <2>2, LoopFits
  <2> QED BY <1>1, <1>2, <1>4, <2>3, LoopStep
<1>5. t.iters >= MaxIterations \/ t.iters < MaxIterations
  BY <1>2, LoopAssumption DEF TurnOf
<1> QED BY <1>3, <1>4, <1>5 DEF Top

(* The steers are done.                                                         *)
LEMMA SteersDoneKeeps ==
  ASSUME IInv, NEW a \in Actor, SteersDone(a)
  PROVE  IInv'
<1> DEFINE t == turn[a]
           r == [To(a, "compactmid") EXCEPT !.steers = 0]
<1>1. t.pc = "steers" /\ UNCHANGED <<leaseVars, logVars, restVars>> /\ turn' = [turn EXCEPT ![a] = r]
  BY DEF SteersDone
<1>2. /\ t \in TurnOf(t.target) /\ t.todo = <<>> /\ t.job \in Turns /\ t.iters < MaxIterations
      /\ t.pc \in Opens \ {"meta"} /\ Running(t)
  BY <1>1, LoopIs
<1>3. r \in TurnOf(r.target) /\ r.pc = "compactmid" /\ r.todo = <<>> /\ r.job = t.job /\ r.iters < MaxIterations
  BY <1>2 DEF To, TurnOf, Opens
<1> HIDE DEF r
<1>4. TurnFits(r) /\ Running(r)
  BY <1>2, <1>3, LoopFits
<1> QED BY <1>1, <1>2, <1>4, LoopStep

(* An interrupted step starts over.                                             *)
LEMMA ResumeKeeps ==
  ASSUME IInv, NEW a \in Actor, Resume(a)
  PROVE  IInv'
<1> DEFINE t == turn[a]
           pc == IF t.cancelled THEN "closing" ELSE "top"
           r == To(a, pc)
<1>1. t.pc = "resume" /\ UNCHANGED <<leaseVars, logVars, restVars>> /\ turn' = [turn EXCEPT ![a] = r]
  BY DEF Resume, Moves
<1>2. /\ t \in TurnOf(t.target) /\ t.todo = <<>> /\ t.job \in Turns
      /\ t.pc \in Opens \ {"meta"} /\ Running(t)
  BY <1>1, LoopIs
<1>3. pc \in {"closing", "top"}
  OBVIOUS
<1> HIDE DEF pc
<1>4. r \in TurnOf(r.target) /\ r.pc = pc /\ r.todo = <<>> /\ r.job = t.job
  BY <1>2, <1>3 DEF To, TurnOf, Opens
<1> HIDE DEF r
<1>5. TurnFits(r) /\ Running(r)
  BY <1>2, <1>3, <1>4, LoopFits
<1> QED BY <1>1, <1>2, <1>5, LoopStep

(* A steer is appended.                                                         *)
LEMMA AppendSteerKeeps ==
  ASSUME IInv, NEW a \in Actor, AppendSteer(a)
  PROVE  IInv'
<1> DEFINE t == turn[a]
           r == [t EXCEPT !.steers = @ - 1]
           e == Event("user")
<1>1. t.pc = "steers" /\ t.steers > 0 /\ Writes(a, e, r, Closing(a)) /\ UNCHANGED restVars
  BY DEF AppendSteer
<1>2. /\ t \in TurnOf(t.target) /\ t.todo = <<>> /\ t.job \in Turns /\ t.iters < MaxIterations
      /\ t.pc \in Opens \ {"meta"} /\ Running(t)
      /\ TurnFits(Closing(a)) /\ Closing(a).pc = "closing" /\ Running(Closing(a))
  BY <1>1, LoopIs
<1>3. t.steers - 1 \in Nat
  BY <1>1, <1>2 DEF TurnOf
<1>4. r \in TurnOf(r.target) /\ r.pc = "steers" /\ r.todo = <<>> /\ r.job = t.job /\ r.iters < MaxIterations
  BY <1>1, <1>2, <1>3 DEF TurnOf
<1> HIDE DEF r
<1>5. TurnFits(r) /\ Running(r) /\ r.pc # "meta"
  BY <1>2, <1>4, LoopFits
<1>6. e \in Entry /\ e.k # "tree"
  <2>1. "user" \in Kinds
    BY DEF Kinds
  <2>2. e \in Entry /\ e.k = "user"
    BY <2>1, EventsAre
  <2> QED BY <2>2
<1> HIDE DEF e
<1> QED BY <1>1, <1>2, <1>5, <1>6, RunningWrites

(* The pictures are cut off.                                                    *)
LEMMA CutoffKeeps ==
  ASSUME IInv, NEW a \in Actor, Cutoff(a)
  PROVE  IInv'
<1> DEFINE t == turn[a]
           r == To(a, "request")
           before == CutoffBefore(sess[a].events, MaxPics, KeepPics)
           e == [Event("cutoff") EXCEPT !.n = before]
<1>1. /\ t.pc = "cutoff" /\ UNCHANGED restVars
      /\ \/ turn' = [turn EXCEPT ![a] = r] /\ UNCHANGED <<leaseVars, logVars>>
         \/ Writes(a, e, r, Closing(a))
  BY DEF Cutoff, Moves
<1>2. /\ t \in TurnOf(t.target) /\ t.todo = <<>> /\ t.job \in Turns /\ t.iters < MaxIterations
      /\ t.pc \in Opens \ {"meta"} /\ Running(t) /\ sess[a].events \in Seq(Entry)
      /\ TurnFits(Closing(a)) /\ Closing(a).pc = "closing" /\ Running(Closing(a))
  BY <1>1, LoopIs
<1>3. r \in TurnOf(r.target) /\ r.pc = "request" /\ r.todo = <<>> /\ r.job = t.job /\ r.iters < MaxIterations
  BY <1>1, <1>2 DEF To, TurnOf, Opens
<1> HIDE DEF r
<1>4. TurnFits(r) /\ Running(r) /\ r.pc # "meta"
  BY <1>2, <1>3, LoopFits
<1>5. e \in Entry /\ e.k # "tree"
  <2>1. "cutoff" \in Kinds
    BY DEF Kinds
  <2>2. before \in Nat
    BY <1>2, CutoffIs
  <2>3. e \in Entry /\ e.k = "cutoff"
    BY <2>1, <2>2, EventsAre
  <2> QED BY <2>3
<1> HIDE DEF e
<1>6. CASE turn' = [turn EXCEPT ![a] = r] /\ UNCHANGED <<leaseVars, logVars>>
  BY <1>1, <1>2, <1>4, <1>6, LoopStep
<1>7. CASE Writes(a, e, r, Closing(a))
  BY <1>1, <1>2, <1>4, <1>5, <1>7, RunningWrites
<1> QED BY <1>1, <1>6, <1>7

--------------------------------------------------------------------------------
(* What the provider, the tools and the user answer.                              *)

(* The counters of a turn, its pictures and its cancellation matter to nothing    *)
(* but themselves.                                                                *)
LEMMA CountersFit ==
  ASSUME NEW t, TurnFits(t)
  PROVE  /\ \A p \in BOOLEAN : LET r == [t EXCEPT !.pics = p]
                               IN TurnFits(r) /\ r.pc = t.pc /\ (Running(r) <=> Running(t))
         /\ \A n \in 0..MaxResumes : LET r == [t EXCEPT !.resumes = n]
                                     IN TurnFits(r) /\ r.pc = t.pc /\ (Running(r) <=> Running(t))
         /\ LET r == [t EXCEPT !.cancelled = TRUE]
            IN TurnFits(r) /\ r.pc = t.pc /\ r.cut = t.cut /\ (Running(r) <=> Running(t))
<1>1. ASSUME NEW p \in BOOLEAN
      PROVE  LET r == [t EXCEPT !.pics = p]
             IN TurnFits(r) /\ r.pc = t.pc /\ (Running(r) <=> Running(t))
  <2> DEFINE r == [t EXCEPT !.pics = p]
  <2>1. r \in TurnOf(r.target) /\ r.pc = t.pc /\ r.todo = t.todo /\ r.next = t.next /\ r.job = t.job /\ r.iters = t.iters
    BY DEF TurnFits, TurnOf
  <2> QED BY <2>1 DEF TurnFits, Running
<1>2. ASSUME NEW n \in 0..MaxResumes
      PROVE  LET r == [t EXCEPT !.resumes = n]
             IN TurnFits(r) /\ r.pc = t.pc /\ (Running(r) <=> Running(t))
  <2> DEFINE r == [t EXCEPT !.resumes = n]
  <2>1. r \in TurnOf(r.target) /\ r.pc = t.pc /\ r.todo = t.todo /\ r.next = t.next /\ r.job = t.job /\ r.iters = t.iters
    BY DEF TurnFits, TurnOf
  <2> QED BY <2>1 DEF TurnFits, Running
<1>3. LET r == [t EXCEPT !.cancelled = TRUE]
      IN TurnFits(r) /\ r.pc = t.pc /\ r.cut = t.cut /\ (Running(r) <=> Running(t))
  <2> DEFINE r == [t EXCEPT !.cancelled = TRUE]
  <2>1. r \in TurnOf(r.target) /\ r.pc = t.pc /\ r.todo = t.todo /\ r.next = t.next /\ r.job = t.job /\ r.iters = t.iters
        /\ r.cut = t.cut
    BY DEF TurnFits, TurnOf
  <2> QED BY <2>1 DEF TurnFits, Running
<1> QED BY <1>1, <1>2, <1>3

(* A reply is appended, and the step it makes has its calls to settle.            *)
LEMMA ReplyKeeps ==
  ASSUME IInv, NEW a \in Actor, Reply(a)
  PROVE  IInv'
<1>1. PICK reply : LET m == Message(a, ToolsOf(reply))
                   IN Writes(a, m, [To(a, "stepdone") EXCEPT !.iters = @ + 1, !.todo = m.calls],
                             [Closing(a) EXCEPT !.iters = @ + 1])
  BY DEF Reply
<1> DEFINE t == turn[a]
           e == Message(a, ToolsOf(reply))
           q == e.calls
           r == [To(a, "stepdone") EXCEPT !.iters = @ + 1, !.todo = q]
           f == [Closing(a) EXCEPT !.iters = @ + 1]
<1>2. t.pc = "request" /\ UNCHANGED restVars /\ Writes(a, e, r, f)
  BY <1>1 DEF Reply
<1>3. /\ t \in TurnOf(t.target) /\ t.todo = <<>> /\ t.job \in Turns /\ t.iters < MaxIterations
      /\ t.pc \in Opens \ {"meta"} /\ Running(t) /\ FileFits(file)
  BY <1>2, LoopIs
<1>4. e \in Entry /\ e.k # "tree" /\ q \in Seq(Call)
  <2>1. ToolsOf(reply) \in Seq(Tools)
    BY ToolsAre
  <2> DEFINE tools == ToolsOf(reply)
  <2>2. tools \in Seq(Tools)
    BY <2>1
  <2> HIDE DEF tools
  <2>3. Message(a, tools) \in Entry /\ Message(a, tools).k = "asst" /\ Message(a, tools).calls \in Seq(Call)
    BY <1>3, <2>2, MessagesAre
  <2> QED BY <2>3 DEF tools
<1> HIDE DEF e, q
<1>5. t.iters + 1 \in 0..MaxIterations
  BY <1>3, LoopAssumption DEF TurnOf
<1>6. r \in TurnOf(r.target) /\ r.pc = "stepdone" /\ r.job = t.job
  BY <1>3, <1>4, <1>5 DEF To, TurnOf, Opens
<1>7. f \in TurnOf(f.target) /\ f.pc = "closing" /\ f.job = t.job /\ f.todo = <<>>
  BY <1>3, <1>5 DEF To, Closing, TurnOf, Opens
<1> HIDE DEF r, f
<1>8. TurnFits(r) /\ Running(r) /\ r.pc # "meta"
  BY <1>3, <1>6 DEF TurnFits, Running, Body
<1>9. TurnFits(f) /\ Running(f)
  BY <1>3, <1>7, LoopFits
<1> QED BY <1>2, <1>3, <1>4, <1>7, <1>8, <1>9, RunningWrites

(* A message of a stream that broke, failed or was cancelled: its calls are       *)
(* answered one by one.                                                           *)
LEMMA BrokenIs ==
  ASSUME IInv, NEW a \in Actor, turn[a].pc = "request", NEW tools \in {<<>>, <<"bash">>},
         NEW next \in {"resume", "closing"}
  PROVE  LET m == Message(a, tools)
             r == Answering(turn[a], m.calls, next)
         IN /\ m \in Entry /\ m.k # "tree" /\ TurnFits(r) /\ Running(r) /\ r.pc # "meta"
            /\ r.resumes = turn[a].resumes
<1> DEFINE t == turn[a]
           m == Message(a, tools)
           q == m.calls
           r == Answering(t, q, next)
<1>1. t \in TurnOf(t.target) /\ t.job \in Turns /\ FileFits(file)
  BY LoopIs
<1>2. m \in Entry /\ m.k = "asst" /\ q \in Seq(Call)
  BY <1>1, ToolsAre, MessagesAre
<1> HIDE DEF q, m
<1>3. next \in Nexts /\ next # "begin"
  BY DEF Nexts
<1>4. TurnFits(r) /\ r.pc \in Opens \ {"meta", "restore"} /\ Running(r) /\ r.resumes = t.resumes
  BY <1>1, <1>2, <1>3, AnsweringFits
<1> HIDE DEF r
<1> QED BY <1>2, <1>4 DEF q, m, r

(* A stream that broke is resumed, within its budget.                           *)
LEMMA InterruptKeeps ==
  ASSUME IInv, NEW a \in Actor, Interrupt(a)
  PROVE  IInv'
<1> DEFINE t == turn[a]
           m == Message(a, <<"bash">>)
           s == Answering(t, m.calls, "resume")
           n == t.resumes + 1
           r == [s EXCEPT !.resumes = n]
<1>1. t.pc = "request" /\ t.resumes < MaxResumes /\ UNCHANGED restVars
      /\ Writes(a, m, [s EXCEPT !.resumes = @ + 1], Closing(a))
  BY DEF Interrupt
<1>2. /\ t \in TurnOf(t.target) /\ t.pc \in Opens \ {"meta"} /\ Running(t)
      /\ TurnFits(Closing(a)) /\ Closing(a).pc = "closing" /\ Running(Closing(a))
  BY <1>1, LoopIs
<1>3. m \in Entry /\ m.k # "tree" /\ TurnFits(s) /\ Running(s) /\ s.pc # "meta" /\ s.resumes = t.resumes
  BY <1>1, BrokenIs
<1> HIDE DEF s, m
<1>4. n \in 0..MaxResumes
  BY <1>1, <1>2, LoopAssumption DEF TurnOf
<1>5. r = [s EXCEPT !.resumes = @ + 1]
  BY <1>3
<1>6. TurnFits(r) /\ Running(r) /\ r.pc # "meta"
  BY <1>3, <1>4, CountersFit
<1>7. Writes(a, m, r, Closing(a))
  BY <1>1, <1>5
<1> HIDE DEF r, n
<1> QED BY <1>1, <1>2, <1>3, <1>6, <1>7, RunningWrites

(* A stream failed, or was cancelled.                                           *)
LEMMA FailKeeps ==
  ASSUME IInv, NEW a \in Actor, FailStep(a) \/ AbortStream(a)
  PROVE  IInv'
<1>1. turn[a].pc = "request" /\ UNCHANGED restVars
  BY DEF FailStep, AbortStream
<1>2. /\ turn[a].pc \in Opens \ {"meta"} /\ Running(turn[a])
      /\ TurnFits(Closing(a)) /\ Closing(a).pc = "closing" /\ Running(Closing(a))
  BY <1>1, LoopIs
<1>3. CASE \E tools \in {<<>>, <<"bash">>} :
              LET m == Message(a, tools)
              IN Writes(a, m, Answering(turn[a], m.calls, "closing"), Closing(a))
  <2>1. PICK tools \in {<<>>, <<"bash">>} :
              LET m == Message(a, tools)
              IN Writes(a, m, Answering(turn[a], m.calls, "closing"), Closing(a))
    BY <1>3
  <2> DEFINE m == Message(a, tools)
             r == Answering(turn[a], m.calls, "closing")
  <2>2. m \in Entry /\ m.k # "tree" /\ TurnFits(r) /\ Running(r) /\ r.pc # "meta"
    BY <1>1, BrokenIs
  <2>3. Writes(a, m, r, Closing(a))
    BY <2>1
  <2> HIDE DEF m, r
  <2> QED BY <1>1, <1>2, <2>2, <2>3, RunningWrites
<1>4. CASE Moves(a, "closing") /\ UNCHANGED <<leaseVars, logVars>>
  <2>1. turn' = [turn EXCEPT ![a] = Closing(a)] /\ UNCHANGED <<leaseVars, logVars, restVars>>
    BY <1>1, <1>4 DEF Moves, Closing
  <2> QED BY <1>2, <2>1, LoopStep
<1> QED BY <1>3, <1>4 DEF FailStep, AbortStream

(* A turn with the calls of its step in hand.                                     *)
LEMMA CallsIs ==
  ASSUME IInv, NEW a \in Actor, turn[a].pc \in {"stepdone", "asking", "tools"}
  PROVE  /\ turn[a] \in TurnOf(turn[a].target) /\ turn[a].job \in Turns /\ turn[a].todo \in Seq(Call)
         /\ turn[a].pc \in {"asking", "tools"} => turn[a].todo # <<>>
         /\ turn[a].pc \in Opens \ {"meta"} /\ Running(turn[a])
         /\ TurnFits(Closing(a)) /\ Closing(a).pc = "closing" /\ Running(Closing(a))
<1>1. turn[a].pc \in (Body \ {"answers"}) \cup {"resume"}
  BY DEF Body
<1> QED BY <1>1, RunningIs DEF TurnFits, TurnOf

(* The calls of a step go where they are settled.                               *)
LEMMA StepDoneKeeps ==
  ASSUME IInv, NEW a \in Actor, StepDone(a)
  PROVE  IInv'
<1> DEFINE t == turn[a]
           q == t.todo
           i == t.inbox
           up == [To(a, "top") EXCEPT !.steers = i, !.inbox = 0]
           ask == To(a, "asking")
           run == To(a, "tools")
<1>1. /\ t.pc = "stepdone" /\ UNCHANGED <<leaseVars, logVars, restVars>> /\ DOMAIN turn = Actor
      /\ turn = [turn EXCEPT ![a] = t]
  BY ActorIs DEF StepDone
<1>2. /\ t \in TurnOf(t.target) /\ t.job \in Turns /\ q \in Seq(Call)
      /\ t.pc \in Opens \ {"meta"} /\ Running(t) /\ TurnFits(Closing(a)) /\ Running(Closing(a))
  BY <1>1, CallsIs
<1>3. \A next \in {"closing", "top"} :
         TurnFits(Answering(t, q, next)) /\ Running(Answering(t, q, next))
  <2>1. ASSUME NEW next \in {"closing", "top"}
        PROVE  TurnFits(Answering(t, q, next)) /\ Running(Answering(t, q, next))
    <3>1. next \in Nexts /\ next # "begin"
      BY DEF Nexts
    <3> QED BY <1>2, <3>1, AnsweringFits
  <2> QED BY <2>1
<1>4. ASSUME q = <<>> PROVE TurnFits(up) /\ Running(up)
  <2>1. i \in Nat
    BY <1>2 DEF TurnOf
  <2> HIDE DEF i
  <2>2. up \in TurnOf(up.target) /\ up.pc = "top" /\ up.todo = q /\ up.job = t.job
    BY <1>2, <2>1 DEF To, TurnOf, Opens
  <2> HIDE DEF up
  <2> QED BY <1>2, <1>4, <2>2, LoopFits
<1>5. ASSUME q # <<>>, NEW pc \in {"asking", "tools"} PROVE TurnFits(To(a, pc)) /\ Running(To(a, pc))
  <2> DEFINE r == To(a, pc)
  <2>1. r \in TurnOf(r.target) /\ r.pc = pc /\ r.todo = q /\ r.job = t.job
    BY <1>2 DEF To, TurnOf, Opens
  <2> HIDE DEF r
  <2> QED BY <1>2, <1>5, <2>1 DEF TurnFits, Running, Body, r
<1>6. \/ turn' = [turn EXCEPT ![a] = Answering(t, q, "closing")]
      \/ q = <<>> /\ turn' = [turn EXCEPT ![a] = up]
      \/ turn' = [turn EXCEPT ![a] = Closing(a)]
      \/ turn' = [turn EXCEPT ![a] = Answering(t, q, "top")]
      \/ q # <<>> /\ turn' = [turn EXCEPT ![a] = ask]
      \/ q # <<>> /\ turn' = [turn EXCEPT ![a] = run]
  BY <1>1 DEF StepDone
<1> HIDE DEF up
<1>7. CASE turn' = [turn EXCEPT ![a] = Answering(t, q, "closing")]
  BY <1>1, <1>2, <1>3, <1>7, LoopStep
<1>8. CASE turn' = [turn EXCEPT ![a] = Answering(t, q, "top")]
  BY <1>1, <1>2, <1>3, <1>8, LoopStep
<1>9. CASE turn' = [turn EXCEPT ![a] = Closing(a)]
  BY <1>1, <1>2, <1>9, LoopStep
<1>10. CASE q = <<>> /\ turn' = [turn EXCEPT ![a] = up]
  BY <1>1, <1>2, <1>4, <1>10, LoopStep
<1>11. CASE q # <<>> /\ (turn' = [turn EXCEPT ![a] = ask] \/ turn' = [turn EXCEPT ![a] = run])
  BY <1>1, <1>2, <1>5, <1>11, LoopStep
<1> QED BY <1>6, <1>7, <1>8, <1>9, <1>10, <1>11

(* The tools return with an outcome for every call.                             *)
LEMMA ToolsReturnKeeps ==
  ASSUME IInv, NEW a \in Actor, ToolsReturn(a)
  PROVE  IInv'
<1> DEFINE t == turn[a]
           s == Answering(t, t.todo, "top")
<1>1. /\ t.pc = "tools" /\ UNCHANGED <<leaseVars, logVars>> /\ UNCHANGED <<plan, jobs, kills, scratch>>
      /\ saved' = saved /\ (tree' = tree \/ tree' = file.stamp)
  BY DEF ToolsReturn
<1>2. PICK p \in Shown : turn' = [turn EXCEPT ![a] = [s EXCEPT !.pics = p]]
  <2>1. turn = [turn EXCEPT ![a] = t] /\ DOMAIN turn = Actor
    BY ActorIs
  <2> QED BY <2>1 DEF ToolsReturn
<1>3. /\ t \in TurnOf(t.target) /\ t.job \in Turns /\ t.todo \in Seq(Call)
      /\ t.pc \in Opens \ {"meta"} /\ Running(t)
  BY <1>1, CallsIs
<1>4. TurnFits(s) /\ Running(s)
  <2>1. "top" \in Nexts /\ "top" # "begin"
    BY DEF Nexts
  <2> QED BY <1>3, <2>1, AnsweringFits
<1> HIDE DEF s
<1> DEFINE r == [s EXCEPT !.pics = p]
<1>5. TurnFits(r) /\ Running(r)
  <2>1. p \in BOOLEAN
    BY DEF Shown
  <2> QED BY <1>4, <2>1, CountersFit
<1>6. tree' \in 0..file.stamp /\ saved' \subseteq 0..file.stamp
  <2>1. tree \in 0..file.stamp /\ saved \subseteq 0..file.stamp /\ file.stamp \in Nat
    BY ActorIs
  <2> QED BY <1>1, <2>1
<1> HIDE DEF r
<1> QED BY <1>1, <1>2, <1>3, <1>5, <1>6, RunningStep DEF r

(* The user answers a question.                                                 *)
LEMMA AnsweredKeeps ==
  ASSUME IInv, NEW a \in Actor, Answered(a)
  PROVE  IInv'
<1> DEFINE t == turn[a]
           e == ResultOf(Head(t.todo))
           r == [To(a, "top") EXCEPT !.todo = <<>>]
<1>1. t.pc = "asking" /\ UNCHANGED restVars /\ Writes(a, e, r, Closing(a))
  BY DEF Answered
<1>2. /\ t \in TurnOf(t.target) /\ t.job \in Turns /\ t.todo \in Seq(Call) /\ t.todo # <<>>
      /\ t.pc \in Opens \ {"meta"} /\ Running(t)
      /\ TurnFits(Closing(a)) /\ Closing(a).pc = "closing" /\ Running(Closing(a))
  BY <1>1, CallsIs
<1>3. e \in Entry /\ e.k = "result"
  BY <1>2, ResultsAre
<1>4. e.k # "tree"
  BY <1>3
<1>5. <<>> \in Seq(Call)
  BY EmptySeq
<1>6. r \in TurnOf(r.target) /\ r.pc = "top" /\ r.todo = <<>> /\ r.job = t.job
  BY <1>2, <1>5 DEF To, TurnOf, Opens
<1> HIDE DEF r, e
<1>7. TurnFits(r) /\ Running(r) /\ r.pc # "meta"
  BY <1>2, <1>6, LoopFits
<1> QED BY <1>1, <1>2, <1>3, <1>4, <1>7, RunningWrites

(* A cancelled question is abandoned.                                           *)
LEMMA AbandonKeeps ==
  ASSUME IInv, NEW a \in Actor, AbandonQuestion(a)
  PROVE  IInv'
<1>1. turn[a].pc = "asking" /\ turn' = [turn EXCEPT ![a] = Closing(a)] /\ UNCHANGED <<leaseVars, logVars, restVars>>
  BY DEF AbandonQuestion, Moves, Closing
<1>2. /\ turn[a].pc \in Opens \ {"meta"} /\ Running(turn[a]) /\ TurnFits(Closing(a)) /\ Running(Closing(a))
  BY <1>1, CallsIs
<1> QED BY <1>1, <1>2, LoopStep

--------------------------------------------------------------------------------
(* The end of a turn, and the rewind.                                             *)
LEMMA DropScratchKeeps ==
  ASSUME IInv, NEW a \in Actor, DropScratch(a)
  PROVE  IInv'
<1> DEFINE t == turn[a]
           r == To(a, "finish")
<1>1. /\ t.pc = "closing" /\ t.pc \in Opens \ {"meta"} /\ turn' = [turn EXCEPT ![a] = r]
      /\ UNCHANGED <<leaseVars, logVars, plan, jobs, kills>> /\ scratch' = Nobody
      /\ tree' = tree /\ saved' = saved
  BY DEF DropScratch, Moves, Opens, treeVars
<1>2. TurnFits(t) /\ at[a] = "held"
  BY <1>1, ActorIs, OpenIs
<1>3. r \in TurnOf(r.target) /\ r.pc = "finish" /\ r.todo = t.todo /\ r.job = t.job
  BY <1>2 DEF To, TurnFits, TurnOf, Opens
<1> HIDE DEF r
<1>4. TurnFits(r) /\ ~Running(r) /\ r.pc \in (Opens \ {"meta"}) \cup {"leave"} /\ r.pc # "restore"
  BY <1>3 DEF TurnFits, Running, Body, Opens
<1>5. ScratchStep(a, r)
  BY <1>1, <1>2, <1>4 DEF ScratchStep
<1>6. tree' \in 0..file.stamp /\ saved' \subseteq 0..file.stamp
  BY <1>1, ActorIs
<1> QED BY <1>1, <1>4, <1>5, <1>6, QuietStep

(* The last append of a turn or of a rewind.                                    *)
LEMMA FinishKeeps ==
  ASSUME IInv, NEW a \in Actor, Finish(a) \/ MarkRewind(a)
  PROVE  IInv'
<1>1. /\ turn[a].pc \in {"finish", "mark"} /\ UNCHANGED restVars
      /\ \/ Writes(a, Event("finished"), Leaving(a), Leaving(a))
         \/ Writes(a, Marker(a, turn[a].cut), Leaving(a), Leaving(a))
  BY DEF Finish, MarkRewind
<1>2. turn[a].pc \in Opens \ {"meta"} /\ ~Running(turn[a])
  BY <1>1 DEF Opens, Running, Body
<1>3. \A e : e \in {Event("finished"), Marker(a, turn[a].cut)} => e \in Entry /\ e.k # "tree"
  <2>1. "finished" \in Kinds /\ "rewind" \in Kinds
    BY DEF Kinds
  <2>2. Event("finished") \in Entry /\ Event("finished").k = "finished"
    BY <2>1, EventsAre
  <2> DEFINE n == Canonical(sess[a].base, turn[a].cut)
  <2>3. n \in Nat
    <3>1. turn[a].cut \in Nat
      BY ActorIs DEF TurnFits, TurnOf
    <3>2. sess[a].base \in Nat
      BY <1>2, OpenIs DEF HasOpen, SessionFits, OpenSession
    <3> QED BY <3>1, <3>2 DEF Canonical
  <2> HIDE DEF n
  <2>4. [Event("rewind") EXCEPT !.n = n] \in Entry /\ [Event("rewind") EXCEPT !.n = n].k = "rewind"
    BY <2>1, <2>3, EventsAre
  <2> QED BY <2>2, <2>4 DEF Marker, n
<1>4. PICK e \in {Event("finished"), Marker(a, turn[a].cut)} : Writes(a, e, Leaving(a), Leaving(a))
  BY <1>1
<1>5. e \in Entry /\ e.k # "tree"
  BY <1>3
<1> QED BY <1>1, <1>2, <1>4, <1>5, LastWrites

(* A rewind that is not refused cuts inside the session.                        *)
LEMMA SaveTreeKeeps ==
  ASSUME IInv, NEW a \in Actor, SaveTree(a)
  PROVE  IInv'
<1> DEFINE t == turn[a]
           r == To(a, "restore")
<1>1. /\ t.pc = "begin" /\ t.job = "rewind" /\ ~Refuses(a) /\ turn' = [turn EXCEPT ![a] = r]
      /\ UNCHANGED <<leaseVars, logVars, plan, jobs, kills>> /\ scratch' = scratch /\ tree' = tree
      /\ (saved' = saved \/ saved' = saved \cup {tree})
  BY DEF SaveTree, Moves
<1>2. TurnFits(t) /\ t.todo = <<>> /\ ~Running(t) /\ t.pc \in Opens \ {"meta"} /\ sess[a].events \in Seq(Entry)
  BY <1>1, BeginIs
<1>3. r = [t EXCEPT !.pc = "restore"]
  BY DEF To
<1>4. t.cut < Len(sess[a].events)
  <2>1. t.cut + 1 \in DOMAIN sess[a].events
    BY <1>1 DEF Refuses
  <2>2. t.cut \in Nat
    BY <1>2 DEF TurnFits, TurnOf
  <2>3. DOMAIN sess[a].events = 1..Len(sess[a].events) /\ Len(sess[a].events) \in Nat
    BY <1>2, LenProperties
  <2> QED BY <2>1, <2>2, <2>3
<1> HIDE DEF r
<1>5. TurnFits(r) /\ ~Running(r) /\ r.pc = "restore" /\ r.cut = t.cut
  BY <1>2, <1>3, PlainFits
<1>6. r.pc \in (Opens \ {"meta"}) \cup {"leave"} /\ r.cut < Len(sess[a].events) /\ ScratchStep(a, r)
  BY <1>1, <1>2, <1>4, <1>5 DEF Opens, ScratchStep
<1>7. tree' \in 0..file.stamp /\ saved' \subseteq 0..file.stamp
  BY <1>1, ActorIs
<1> QED BY <1>1, <1>2, <1>5, <1>6, <1>7, QuietStep

(* The tree a rewind brings back is one there was.                              *)
LEMMA RestoreTreeKeeps ==
  ASSUME IInv, NEW a \in Actor, RestoreTree(a)
  PROVE  IInv'
<1> DEFINE t == turn[a]
           q == sess[a].events
           r == To(a, "dropids")
<1>1. /\ t.pc = "restore" /\ turn' = [turn EXCEPT ![a] = r]
      /\ UNCHANGED <<leaseVars, logVars, plan, jobs, kills>> /\ scratch' = scratch /\ saved' = saved
      /\ tree' = IF HasTree(q, t.cut) THEN q[t.cut].n ELSE tree
  BY DEF RestoreTree, Moves
<1>2. TurnFits(t) /\ t.pc \in Opens \ {"meta"} /\ ~Running(t) /\ t.todo = <<>>
  BY <1>1, ActorIs DEF Opens, Running, Body, TurnFits
<1>3. q \in Seq(Entry) /\ Dated(q, file.stamp)
  BY <1>2, OpenIs
<1>4. t.cut < Len(q) /\ t.cut \in Nat
  BY <1>1, <1>2, ActorIs DEF HoldFits, TurnFits, TurnOf
<1>5. tree' \in 0..file.stamp /\ saved' \subseteq 0..file.stamp
  <2>1. tree \in 0..file.stamp /\ saved \subseteq 0..file.stamp /\ file.stamp \in Nat
    BY ActorIs
  <2>2. CASE HasTree(q, t.cut)
    <3>1. t.cut \in DOMAIN q /\ q[t.cut].k = "tree"
      <4>1. DOMAIN q = 1..Len(q) /\ Len(q) \in Nat
        BY <1>3, LenProperties
      <4> QED BY <1>4, <2>2, <4>1 DEF HasTree
    <3>2. q[t.cut] \in Entry
      BY <1>3, <3>1, ElementOfSeq, LenProperties
    <3>3. q[t.cut].n \in Nat /\ q[t.cut].n <= file.stamp
      BY <1>3, <3>1, <3>2 DEF Dated, Entry
    <3> QED BY <1>1, <2>1, <2>2, <3>3
  <2>3. CASE ~HasTree(q, t.cut)
    BY <1>1, <2>1, <2>3
  <2> QED BY <2>2, <2>3
<1>6. r = [t EXCEPT !.pc = "dropids"]
  BY DEF To
<1> HIDE DEF r
<1>7. TurnFits(r) /\ ~Running(r) /\ r.pc = "dropids"
  BY <1>2, <1>6, PlainFits
<1>8. r.pc \in (Opens \ {"meta"}) \cup {"leave"} /\ r.pc # "restore" /\ ScratchStep(a, r)
  BY <1>1, <1>2, <1>7 DEF Opens, ScratchStep
<1> QED BY <1>1, <1>2, <1>5, <1>7, <1>8, QuietStep

(* A rewind drops the ids, then the index.                                      *)
LEMMA RewindIndexKeeps ==
  ASSUME IInv, NEW a \in Actor, RewindIndex(a)
  PROVE  IInv'
<1> DEFINE t == turn[a]
<1>1. /\ t.pc \in {"dropids", "dropindex"} /\ UNCHANGED leaseVars /\ UNCHANGED restVars
  BY DEF RewindIndex
<1>2. TurnFits(t) /\ t.pc \in Opens \ {"meta"} /\ ~Running(t) /\ t.todo = <<>>
  BY <1>1, ActorIs DEF Opens, Running, Body, TurnFits
<1>3. HasOpen(a) /\ at[a] = "held" /\ sess[a].events # <<>>
  BY <1>2, OpenIs
<1>4. PICK pc \in {"dropindex", "mark"} : Moves(a, pc)
  BY DEF RewindIndex
<1> DEFINE r == To(a, pc)
<1>5. r = [t EXCEPT !.pc = pc] /\ turn' = [turn EXCEPT ![a] = r]
  BY <1>4 DEF To, Moves
<1> HIDE DEF r
<1>6. TurnFits(r) /\ ~Running(r) /\ r.pc \in {"dropindex", "mark"}
  BY <1>2, <1>5, PlainFits
<1>7. LogMoves(a) /\ file' = file /\ sess'[a] # None /\ sess'[a].events # <<>>
  <2>1. CASE DropIds(a)
    <3>1. LogMoves(a) /\ file' = file /\ sess' = sess
      BY <1>3, <2>1, DropIdsFits
    <3> QED BY <1>3, <3>1 DEF HasOpen
  <2>2. CASE DropIndex(a)
    BY <1>3, <2>2, DropIndexFits
  <2> QED BY <2>1, <2>2 DEF RewindIndex
<1>8. file'.there
  BY <1>3, <1>7 DEF HasOpen
<1>9. UNCHANGED <<plan, jobs, kills, tree, saved>> /\ ScratchStep(a, r)
  BY <1>1, <1>2, <1>6 DEF restVars, treeVars, ScratchStep
<1>10. r.pc # "restore" /\ (r.pc \in Opens => file'.there /\ sess'[a] # None /\ (r.pc = "meta" <=> sess'[a].events = <<>>))
  BY <1>6, <1>7, <1>8
<1> QED BY <1>1, <1>3, <1>5, <1>6, <1>7, <1>9, <1>10, HeldStep

(* What the user does meanwhile.                                                  *)
LEMMA SteerKeeps ==
  ASSUME IInv, NEW a \in Actor, Steer(a)
  PROVE  IInv'
<1> DEFINE t == turn[a]
           n == t.inbox + 1
           r == [t EXCEPT !.inbox = n, !.told = TRUE]
<1>1. InBody(a) /\ UNCHANGED <<leaseVars, logVars, restVars>>
  BY DEF Steer
<1>2. turn' = [turn EXCEPT ![a] = r]
  <2>1. a \in DOMAIN turn
    BY ActorIs
  <2>2. turn' = [turn EXCEPT ![a].inbox = @ + 1, ![a].told = TRUE]
    BY DEF Steer
  <2> QED BY <2>1, <2>2
<1>3. TurnFits(t) /\ Running(t) /\ t.pc \in Opens \ {"meta"} /\ t.inbox \in Nat
  BY <1>1, ActorIs DEF InBody, Running, Body, Opens, TurnFits, TurnOf
<1>4. n \in Nat
  BY <1>3
<1> HIDE DEF n
<1>5. r \in TurnOf(r.target) /\ r.pc = t.pc /\ r.todo = t.todo /\ r.next = t.next /\ r.job = t.job /\ r.iters = t.iters
  BY <1>3, <1>4 DEF TurnFits, TurnOf
<1> HIDE DEF r
<1>6. TurnFits(r) /\ Running(r)
  BY <1>3, <1>5 DEF TurnFits, Running
<1> QED BY <1>1, <1>2, <1>3, <1>6, LoopStep

(* A cancellation finds a job anywhere.                                         *)
LEMMA CancelKeeps ==
  ASSUME IInv, NEW a \in Actor, Cancel(a)
  PROVE  IInv'
<1> DEFINE t == turn[a]
           r == [t EXCEPT !.cancelled = TRUE]
<1>1. UNCHANGED <<leaseVars, logVars>> /\ UNCHANGED restVars
  BY DEF Cancel
<1>2. turn' = [turn EXCEPT ![a] = r]
  <2>1. a \in DOMAIN turn
    BY ActorIs
  <2>2. turn' = [turn EXCEPT ![a].cancelled = TRUE]
    BY DEF Cancel
  <2> QED BY <2>1, <2>2
<1>3. /\ Readable /\ TurnFits(t) /\ HoldFits(a) /\ LeaseInv
      /\ (sess[a] # None => at[a] = "held" /\ SessionFits(sess[a], file.stamp))
      /\ kills \in 0..kills /\ jobs \in [Actor -> Seq(Jobs)]
      /\ tree \in 0..file.stamp /\ saved \subseteq 0..file.stamp
  BY ActorIs
<1>4. TurnFits(r) /\ r.pc = t.pc /\ r.cut = t.cut /\ (Running(r) <=> Running(t))
  BY <1>3, CountersFit
<1> HIDE DEF r
<1>5. LogMoves(a) /\ file' = file /\ sess' = sess
  BY <1>1, <1>3, LogStays
<1>6. LeaseInv' /\ at' = at
  BY <1>1, <1>3, LeaseStutters DEF leaseVars
<1>7. /\ plan' = plan /\ kills' \in 0..kills /\ jobs' \in [Actor -> Seq(Jobs)]
      /\ tree' \in 0..file'.stamp /\ saved' \subseteq 0..file'.stamp /\ ScratchStep(a, r)
  BY <1>1, <1>3, <1>4, <1>5 DEF restVars, treeVars, ScratchStep
<1>8. /\ (r.pc \notin {"idle", "acquire"} \/ sess'[a] # None => at'[a] = "held")
      /\ (r.pc \in Opens => file'.there /\ sess'[a] # None /\ (r.pc = "meta" <=> sess'[a].events = <<>>))
      /\ (r.pc = "restore" => r.cut < Len(sess'[a].events))
      /\ (file.there => file'.there)
      /\ \A b \in Actor : b # a => at'[b] = at[b]
  BY <1>3, <1>4, <1>5, <1>6 DEF HoldFits
<1> QED BY <1>2, <1>4, <1>5, <1>6, <1>7, <1>8, JobMoves

(* Polling the tail changes only what its reader has seen.                        *)
LEMMA StaysPut ==
  ASSUME IInv, UNCHANGED <<leaseVars, logVars, turn, plan, jobs, scratch, treeVars, kills>>
  PROVE  IInv'
<1>1. /\ UNCHANGED leaseVars /\ at' = at
      /\ file' = file /\ index' = index /\ sess' = sess /\ faults' = faults
      /\ turn' = turn /\ plan' = plan /\ jobs' = jobs /\ scratch' = scratch /\ tree' = tree
      /\ saved' = saved /\ kills' = kills
  BY DEF leaseVars, logVars, treeVars
<1>2. LeaseInv'
  BY <1>1, LeaseStutters DEF IInv
<1>3. LogFits' /\ RestFits'
  BY <1>1 DEF IInv, LogFits, RestFits
<1>4. TurnsFit'
  BY <1>1 DEF IInv, TurnsFit, HoldFits
<1>5. ScratchFits'
  BY <1>1 DEF IInv, ScratchFits
<1> QED BY <1>2, <1>3, <1>4, <1>5 DEF IInv

--------------------------------------------------------------------------------
(* The whole system.                                                              *)
LEMMA InitFits == Init => IInv
<1> SUFFICES ASSUME Init PROVE IInv
  OBVIOUS
<1>1. LeaseInv /\ at = [a \in Actor |-> "idle"]
  BY LeaseInitInv DEF Init, LeaseInit
<1>2. FileFits(file) /\ file.stamp \in Nat
  <2>1. CASE plan.created
    <3> DEFINE e == [Event("meta") EXCEPT !.id = 1]
    <3>1. file = [there |-> TRUE, lines |-> <<e>>, torn |-> FALSE, stamp |-> 1]
      BY <2>1 DEF Init
    <3>2. e \in Entry /\ e.k = "meta"
      BY EmptySeq DEF Event, Entry, Kinds
    <3> HIDE DEF e
    <3>3. <<e>> \in Seq(Entry) /\ Dated(<<e>>, 1)
      BY <3>2 DEF Dated
    <3> QED BY <3>1, <3>3 DEF FileFits
  <2>2. CASE ~plan.created
    <3>1. file = [there |-> FALSE, lines |-> <<>>, torn |-> FALSE, stamp |-> 0]
      BY <2>2 DEF Init, NoFileYet
    <3>2. <<>> \in Seq(Entry) /\ Dated(<<>>, 0)
      BY EmptySeq DEF Dated
    <3> QED BY <3>1, <3>2 DEF FileFits
  <2> QED BY <2>1, <2>2
<1>3. LogFits
  BY <1>2 DEF Init, LogFits, IndexFits
<1>4. turn = [a \in Actor |-> Idle] /\ scratch = Nobody
  BY DEF Init
<1>5. TurnsFit
  <2>1. ASSUME NEW a \in Actor PROVE TurnFits(turn[a]) /\ HoldFits(a)
    BY <1>4, IdleFits DEF HoldFits, Opens
  <2>2. DOMAIN turn = Actor /\ turn = [a \in Actor |-> turn[a]]
    BY <1>4
  <2> QED BY <2>1, <2>2 DEF TurnsFit
<1>6. RestFits
  <2>1. plan \in Plans /\ plan.kills \in Nat /\ plan.faults \in Nat /\ plan.jobs \in [Actor -> Seq(Jobs)]
    BY PlansAssumption DEF Init
  <2>2. kills = plan.kills /\ faults = plan.faults /\ jobs = plan.jobs /\ tree = 0 /\ saved = {}
    BY DEF Init
  <2>3. plan.kills \in 0..plan.kills /\ plan.faults \in 0..plan.faults
    BY <2>1
  <2> QED BY <1>2, <2>1, <2>2, <2>3 DEF RestFits
<1>7. ScratchFits
  <2>1. Nobody \notin Actor
    BY LeaseAssumption
  <2> QED BY <1>4, <2>1, IdleFits DEF ScratchFits
<1> QED BY <1>1, <1>3, <1>5, <1>6, <1>7 DEF IInv

(* What an actor does on its own keeps the invariant.                           *)
LEMMA ForcedFits ==
  ASSUME IInv, NEW a \in Actor, Forced(a)
  PROVE  IInv'
<1>1. CASE Acquire(a) \/ Leave(a) \/ Released(a)
  BY <1>1, AcquireKeeps, LeaveKeeps
<1>2. CASE Create(a) \/ WriteMeta(a) \/ Delete(a) \/ Load(a) \/ AnswerNext(a)
  BY <1>2, CreateKeeps, WriteMetaKeeps, DeleteKeeps, LoadKeeps, AnswerNextKeeps
<1>3. CASE BeginRefused(a) \/ BeginSay(a) \/ Prompt(a) \/ BeginContinue(a) \/ BeginAnswer(a)
  BY <1>3, BeginRefusedKeeps, BeginSayKeeps, PromptKeeps, BeginContinueKeeps, BeginAnswerKeeps
<1>4. CASE NoCompaction(a) \/ Top(a) \/ AppendSteer(a) \/ SteersDone(a) \/ Cutoff(a)
  BY <1>4, NoCompactionKeeps, TopKeeps, AppendSteerKeeps, SteersDoneKeeps, CutoffKeeps
<1>5. CASE AbortStream(a) \/ Resume(a) \/ StepDone(a) \/ AbandonQuestion(a)
  BY <1>5, FailKeeps, ResumeKeeps, StepDoneKeeps, AbandonKeeps
<1>6. CASE turn[a].cancelled /\ ToolsReturn(a)
  BY <1>6, ToolsReturnKeeps
<1>7. CASE DropScratch(a) \/ Finish(a)
  BY <1>7, DropScratchKeeps, FinishKeeps
<1>8. CASE SaveTree(a) \/ RestoreTree(a) \/ RewindIndex(a) \/ MarkRewind(a)
  BY <1>8, SaveTreeKeeps, RestoreTreeKeeps, RewindIndexKeeps, FinishKeeps
<1> QED BY <1>1, <1>2, <1>3, <1>4, <1>5, <1>6, <1>7, <1>8 DEF Forced

(* So does what waits for the provider, the tools or the user.                  *)
LEMMA WaitedFits ==
  ASSUME IInv, NEW a \in Actor, Waited(a)
  PROVE  IInv'
BY CompactsKeeps, CompactionFailsKeeps, ReplyKeeps, InterruptKeeps, FailKeeps, ToolsReturnKeeps, AnsweredKeeps
   DEF Waited

(* So does every step.                                                          *)
LEMMA NextFits == IInv /\ [Next]_vars => IInv'
<1> SUFFICES ASSUME IInv, [Next]_vars PROVE IInv'
  OBVIOUS
<1>1. ASSUME NEW a \in Actor,
             Take(a) \/ Skip(a) \/ Forced(a) \/ Waited(a) \/ Cancel(a) \/ Steer(a) \/ Kill(a)
      PROVE  IInv'
  <2>1. CASE Take(a) \/ Skip(a)
    BY <2>1, TakeKeeps
  <2>2. CASE Forced(a) \/ Waited(a)
    BY <2>2, ForcedFits, WaitedFits
  <2>3. CASE Cancel(a) \/ Steer(a) \/ Kill(a)
    BY <2>3, CancelKeeps, SteerKeeps, KillKeeps
  <2> QED BY <1>1, <2>1, <2>2, <2>3
<1>2. CASE Poll
  BY <1>2, StaysPut DEF Poll
<1>3. CASE UNCHANGED vars
  BY <1>3, StaysPut DEF vars, restVars
<1> QED BY <1>1, <1>2, <1>3 DEF Next

(* However a session is written, cancelled, rewound, deleted, torn and killed,    *)
(* every session in memory is held under the lease and made of what the log may   *)
(* be made of, every job is where it may be, and the scratch has one owner.       *)
THEOREM Invariance == Spec => []IInv
BY InitFits, NextFits, PTL DEF Spec

(* The types of the lease, the log, the turns and the tree hold for any plan, any *)
(* number of processes and any number of deaths and failed writes: among them     *)
(* that no open session outlives its lease or has seen more than the file, and    *)
(* that the loop and its resumes stay within their budgets.                       *)
THEOREM SessionTypes == Spec => []TypeOK
<1>1. IInv => TypeOK
  <2> SUFFICES ASSUME IInv PROVE TypeOK
    OBVIOUS
  <2>1. LeaseInv /\ LogFits /\ TurnsFit /\ RestFits /\ ScratchFits
    BY DEF IInv
  <2>2. LeaseTypeOK
    BY <2>1 DEF LeaseInv
  <2>3. LogTypeOK
    <3>1. /\ file \in [there : BOOLEAN, lines : Seq(Entry), torn : BOOLEAN, stamp : Nat]
          /\ (~file.there => file.lines = <<>> /\ ~file.torn)
          /\ index \in IndexFile \cup {None} /\ sess \in [Actor -> OpenSession \cup {None}]
      BY <2>1 DEF LogFits, FileFits, IndexFits
    <3>2. ASSUME NEW a \in Actor, sess[a] # None
          PROVE  /\ at[a] = "held" /\ (sess[a].events # <<>> => sess[a].events[1].k = "meta")
                 /\ sess[a].tail <= Len(sess[a].events) /\ sess[a].stamp <= file.stamp
      BY <2>1, <3>2 DEF LogFits, SessionFits, Rooted
    <3> QED BY <3>1, <3>2 DEF LogTypeOK
  <2>4. tree \in Nat /\ saved \subseteq 0..file.stamp
    BY <2>1 DEF RestFits, LogFits, FileFits
  <2>5. ASSUME NEW a \in Actor
        PROVE  /\ turn[a].iters \in 0..MaxIterations /\ turn[a].resumes \in 0..MaxResumes
               /\ (turn[a].todo # <<>> => turn[a].pc \in {"answers", "stepdone", "asking", "tools", "closing",
                                                        "finish", "leave"})
               /\ (turn[a].pc \notin {"idle", "acquire"} => at[a] = "held")
    <3>1. TurnFits(turn[a]) /\ HoldFits(a)
      BY <2>1 DEF TurnsFit
    <3> QED BY <3>1 DEF TurnFits, TurnOf, HoldFits
  <2> QED BY <2>1, <2>2, <2>3, <2>4, <2>5 DEF TypeOK, RestFits, ScratchFits
<1> QED BY <1>1, Invariance, PTL

(* The scratch at the path is the running turn's, from its start to its end, and  *)
(* whoever has it holds the lease, whatever is cancelled, deleted or killed.      *)
THEOREM ScratchKept == Spec => []ScratchIsTheTurns
<1>1. IInv => ScratchIsTheTurns
  <2> SUFFICES ASSUME IInv, NEW a \in Actor
               PROVE  (InBody(a) => scratch = a) /\ (scratch = a => at[a] = "held")
    BY DEF ScratchIsTheTurns
  <2>1. scratch = a <=> Running(turn[a])
    BY DEF IInv, ScratchFits
  <2>2. HoldFits(a)
    BY DEF IInv, TurnsFit
  <2>3. InBody(a) => Running(turn[a])
    BY DEF InBody, Running
  <2>4. Running(turn[a]) => at[a] = "held"
    BY <2>2 DEF HoldFits, Running, Body
  <2> QED BY <2>1, <2>3, <2>4
<1> QED BY <1>1, Invariance, PTL
=================================================================================
