-------------------------------- MODULE TurnLoop --------------------------------
(* The jobs that open a session - turns, manual compaction, rewind, create,       *)
(* delete, tidying, the lock sweep - and the steps of a turn, each append one     *)
(* action (crates/ilar/src/agent/turn.rs, compaction.rs, rewind.rs, checkpoint.rs,*)
(* session/live.rs, session/tail.rs).  Between any two actions another actor may  *)
(* move, the turn may be cancelled and the process may die.                       *)
(*   plan    what may happen, chosen at the start: the provider's replies, and    *)
(*           which of "compact", "pictures", "snapshot", "steer", "cancel",       *)
(*           "watch" are on                                                       *)
(*   jobs    the jobs each actor still has to do, in order                        *)
(*   turn    the job in hand: its pc, the calls it has still to answer and where  *)
(*           it goes then, its counters, whether it was cancelled                 *)
(*   scratch whose live scratch the path names: an actor, Nobody, or Leftover     *)
(*   tree    the version of the working tree; saved: the versions snapshots keep  *)
(*   watch   a SessionTail: the file it reads (born), [lines, events, gone]       *)
(*   kills   how many processes may still die                                     *)
EXTENDS SessionLog

CONSTANTS Plans,
          MaxIterations, MaxResumes,     \* config.max_iterations, max_mid_stream_resumes
          MaxPics, KeepPics,             \* the image budget
          MaxLines,                      \* bound: no new job or request past it
          Leftover

ASSUME LoopAssumption ==
  /\ MaxIterations \in Nat \ {0} /\ MaxResumes \in Nat /\ MaxLines \in Nat /\ MaxPics \in Nat
  /\ Leftover \notin Actor \cup {Nobody} /\ KeepPics \in Nat \ {0}

(* The jobs that run a turn, and all of them.                                     *)
Turns == {"say", "continue", "answer"}
Jobs == Turns \cup {"compact", "rewind", "create", "delete", "empty", "sweep"}

ASSUME PlansAssumption ==
  \A p \in Plans : /\ p.jobs \in [Actor -> Seq(Jobs)] /\ p.created \in BOOLEAN
                   /\ p.kills \in Nat /\ p.faults \in Nat

VARIABLES plan, jobs, turn, scratch, tree, saved, watch, kills

treeVars == <<tree, saved>>
restVars == <<plan, jobs, scratch, treeVars, watch, kills>>
vars == <<leaseVars, logVars, turn, restVars>>

Idle == [job |-> "none", pc |-> "idle", todo |-> <<>>, next |-> "idle", iters |-> 0,
         resumes |-> 0, steers |-> 0, inbox |-> 0, told |-> FALSE, cancelled |-> FALSE,
         target |-> 0, cut |-> 0, pics |-> FALSE]

Init ==
  /\ LeaseInit
  /\ plan \in Plans
  /\ file = IF plan.created THEN [there |-> TRUE, lines |-> <<[Event("meta") EXCEPT !.id = 1]>>,
                                  torn |-> FALSE, stamp |-> 1]
            ELSE NoFileYet
  /\ index = None
  /\ sess = [a \in Actor |-> None]
  /\ faults = plan.faults
  /\ jobs = plan.jobs
  /\ turn = [a \in Actor |-> Idle]
  /\ scratch = Nobody
  /\ tree = 0 /\ saved = {}
  /\ watch = [born |-> 0, lines |-> 0, events |-> <<>>, gone |-> FALSE]
  /\ kills = plan.kills

(* Between a turn's LiveScratch::start and its drop.                              *)
Body == {"compactstart", "top", "steers", "compactmid", "cutoff", "request", "stepdone",
         "asking", "tools", "answers", "closing"}

InBody(a) ==
  /\ turn[a].job \in Turns /\ turn[a].pc \in Body
  /\ turn[a].pc = "answers" => turn[a].next # "begin"

On(flag) == flag \in plan.may

(* Whether a prompt or a result may carry a picture.                              *)
Shown == IF On("pictures") THEN BOOLEAN ELSE {FALSE}

--------------------------------------------------------------------------------
(* One append of a job: where it goes when the write succeeds, and when it fails. *)
Writes(a, e, done, failed) ==
  /\ IF MayAppend(a, e)
     THEN \/ Appends(a, e) /\ turn' = [turn EXCEPT ![a] = done]
          \/ AppendFails(a, e) /\ turn' = [turn EXCEPT ![a] = failed]
     ELSE AppendRefused(a) /\ turn' = [turn EXCEPT ![a] = failed]
  /\ UNCHANGED leaseVars

To(a, pc) == [turn[a] EXCEPT !.pc = pc]
Moves(a, pc) == turn' = [turn EXCEPT ![a] = To(a, pc)]
Leaving(a) == To(a, "leave")
Closing(a) == To(a, "closing")

(* Where a turn goes with calls to answer: to the answers, or on when none is left.*)
Answering(t, todo, next) ==
  IF todo = <<>> THEN [t EXCEPT !.todo = <<>>, !.pc = next]
  ELSE [t EXCEPT !.todo = todo, !.pc = "answers", !.next = next]

ResultOf(c) == [Event("result") EXCEPT !.call = c.call]

--------------------------------------------------------------------------------
(* A job begins with what it reads before it has the lease: a rewind's target     *)
(* (a user message of an earlier load), and for "empty" (remove_if_empty) that    *)
(* nobody ever said anything.                                                     *)
Unspoken == \A i \in DOMAIN file.lines : file.lines[i].k # "user"

Targets(job) ==
  IF job # "rewind" THEN {[id |-> 0, cut |-> 0]}
  ELSE LET w == Window(Folded(file.lines)).events
       IN {[id |-> w[i].id, cut |-> i - 1] : i \in {j \in DOMAIN w : w[j].k = "user"}}

(* The job is worth beginning: a message to rewind to, a session to tidy away.    *)
Called(job) == Targets(job) # {} /\ (job = "empty" => file.lines # <<>> /\ Unspoken)

Take(a) ==
  /\ turn[a].pc = "idle" /\ at[a] = "idle" /\ jobs[a] # <<>>
  /\ Len(file.lines) <= MaxLines
  /\ Called(Head(jobs[a]))
  /\ \E t \in Targets(Head(jobs[a])) :
        turn' = [turn EXCEPT ![a] = [Idle EXCEPT !.job = Head(jobs[a]), !.pc = "acquire",
                                                 !.target = t.id, !.cut = t.cut]]
  /\ jobs' = [jobs EXCEPT ![a] = Tail(@)]
  /\ UNCHANGED <<leaseVars, logVars, plan, scratch, treeVars, watch, kills>>

Skip(a) ==
  /\ turn[a].pc = "idle" /\ at[a] = "idle" /\ jobs[a] # <<>>
  /\ ~Called(Head(jobs[a]))
  /\ jobs' = [jobs EXCEPT ![a] = Tail(@)]
  /\ UNCHANGED <<leaseVars, logVars, turn, plan, scratch, treeVars, watch, kills>>

(* acquire_writer_id, or a sweep's look for a lock file. A refusal ends the job.  *)
Acquire(a) ==
  /\ turn[a].pc = "acquire"
  /\ \/ turn[a].job # "sweep" /\ Open(a) /\ UNCHANGED turn
     \/ turn[a].job = "sweep" /\ Find(a) /\ UNCHANGED turn
     \/ /\ turn[a].job = "sweep" /\ at[a] = "idle" /\ named = NoFile
        /\ turn' = [turn EXCEPT ![a] = Idle] /\ UNCHANGED leaseVars
     \/ LockWon(a) /\ UNCHANGED turn
     \/ Identified(a) /\ UNCHANGED turn
     \/ LockRefused(a) /\ turn' = [turn EXCEPT ![a] = Idle]
     \/ Orphaned(a) /\ turn' = [turn EXCEPT ![a] = IF at'[a] = "idle" THEN Idle ELSE @]
  /\ UNCHANGED <<logVars, restVars>>

(* The writer is dropped, with its session; a sweep ends the same way.            *)
Leave(a) ==
  /\ turn[a].pc = "leave" \/ at[a] = "swept"
  /\ LetGo(a) /\ Closes(a)
  /\ turn' = [turn EXCEPT ![a] = Idle]
  /\ UNCHANGED restVars

Released(a) ==
  /\ Unlink(a) \/ Unlock(a)
  /\ UNCHANGED <<logVars, turn, restVars>>

--------------------------------------------------------------------------------
(* create: the file, then its metadata line.                                      *)
Create(a) ==
  /\ turn[a].job = "create" /\ turn[a].pc = "acquire" /\ at[a] = "held"
  /\ \/ CreateFile(a) /\ Moves(a, "meta")
     \/ file.there /\ UNCHANGED logVars /\ Moves(a, "leave")
  /\ UNCHANGED <<leaseVars, restVars>>

WriteMeta(a) ==
  /\ turn[a].pc = "meta"
  /\ Writes(a, Event("meta"), Leaving(a), Leaving(a))
  /\ UNCHANGED restVars

\* Mutant of Delete: files go before the lease is there.
DeleteUnleased(a) ==
  /\ turn[a].job \in {"delete", "empty"}
  /\ \/ /\ turn[a].pc = "acquire"
        /\ DeleteSidecars(a) /\ scratch' = Nobody /\ Moves(a, "deletelog")
     \/ /\ turn[a].pc = "deletelog" /\ at[a] = "held"
        /\ DeleteLog(a) /\ UNCHANGED scratch /\ Moves(a, "leave")
  /\ UNCHANGED <<leaseVars, plan, jobs, treeVars, watch, kills>>

(* delete, which remove_if_empty ends in: sidecars and scratch, then the log.     *)
Delete(a) ==
  /\ turn[a].job \in {"delete", "empty"}
  /\ \/ /\ turn[a].pc = "acquire" /\ at[a] = "held"
        /\ DeleteSidecars(a) /\ scratch' = Nobody /\ Moves(a, "deletelog")
     \/ /\ turn[a].pc = "deletelog"
        /\ DeleteLog(a) /\ UNCHANGED scratch /\ Moves(a, "leave")
  /\ UNCHANGED <<leaseVars, plan, jobs, treeVars, watch, kills>>

\* Mutant of Load: the log is read before the lock's identity is checked.
LoadEarly(a) ==
  /\ turn[a].job \in Turns \cup {"compact", "rewind"}
  /\ turn[a].pc = "acquire" /\ at[a] \in {"locked", "held"} /\ Loadable
  /\ Loads(a)
  /\ turn' = [turn EXCEPT ![a] = Answering(@, Interrupted(sess'[a].events), "begin")]
  /\ UNCHANGED <<leaseVars, restVars>>

(* SessionWriter::load, then the interrupted calls are answered one by one.       *)
Load(a) ==
  /\ turn[a].job \in Turns \cup {"compact", "rewind"}
  /\ turn[a].pc = "acquire" /\ at[a] = "held"
  /\ IF Loadable
     THEN /\ Loads(a)
          /\ turn' = [turn EXCEPT ![a] = Answering(@, Interrupted(sess'[a].events), "begin")]
     ELSE UNCHANGED logVars /\ Moves(a, "leave")
  /\ UNCHANGED <<leaseVars, restVars>>

(* One answer of the calls still to be answered: interrupted, aborted, refused or *)
(* failed ones get an error, executed ones their output. A failed write ends the  *)
(* job with an error.                                                             *)
AnswerNext(a) ==
  /\ turn[a].pc = "answers"
  /\ Writes(a, [ResultOf(Head(turn[a].todo)) EXCEPT !.pics = turn[a].pics],
            Answering([turn[a] EXCEPT !.pics = @ /\ Len(turn[a].todo) > 1],
                      Tail(turn[a].todo), turn[a].next),
            IF turn[a].next = "begin" THEN Leaving(a) ELSE Closing(a))
  /\ UNCHANGED restVars

--------------------------------------------------------------------------------
(* The scratch is started and TurnStarted published.                              *)
Started(a) == scratch' = a /\ UNCHANGED <<plan, jobs, treeVars, watch, kills>>

(* What refuses a loaded session before anything is written for the job.          *)
Refuses(a) ==
  LET events == sess[a].events IN
  CASE turn[a].job = "say" -> IsPending(events)
    [] turn[a].job = "continue" -> IsPending(events) \/ Wordless(events)
    [] turn[a].job = "answer" -> ~IsPending(events)
    [] turn[a].job = "compact" -> Wordless(events) \/ HasUnanswered(events)
    [] turn[a].job = "rewind" ->
         ~ /\ ~IsPending(events)
           /\ turn[a].cut + 1 \in DOMAIN events
           /\ events[turn[a].cut + 1].k = "user"
           /\ events[turn[a].cut + 1].id = turn[a].target

BeginRefused(a) ==
  /\ turn[a].pc = "begin" /\ Refuses(a)
  /\ Moves(a, "leave")
  /\ UNCHANGED <<leaseVars, logVars, restVars>>

(* TurnStart::User: the tree is snapshotted (best effort) and recorded before the *)
(* prompt.                                                                        *)
BeginSay(a) ==
  /\ turn[a].pc = "begin" /\ ~Refuses(a) /\ turn[a].job = "say"
  /\ \/ /\ On("snapshot") /\ saved' = saved \cup {tree}
        /\ Writes(a, [Event("tree") EXCEPT !.n = tree], To(a, "prompt"), Leaving(a))
     \/ ~On("snapshot") /\ Moves(a, "prompt") /\ UNCHANGED <<leaseVars, logVars, saved>>
  /\ UNCHANGED <<plan, jobs, scratch, tree, watch, kills>>

Prompt(a) ==
  /\ turn[a].pc = "prompt"
  /\ \E pics \in Shown :
        Writes(a, [Event("user") EXCEPT !.pics = pics], To(a, "compactstart"), Leaving(a))
  /\ IF turn'[a].pc = "compactstart" THEN Started(a) ELSE UNCHANGED restVars

(* TurnStart::Continue.                                                           *)
BeginContinue(a) ==
  /\ turn[a].pc = "begin" /\ ~Refuses(a) /\ turn[a].job = "continue"
  /\ Moves(a, "compactstart") /\ Started(a)
  /\ UNCHANGED <<leaseVars, logVars>>

(* TurnStart::Resume: the answer is the pending call's result.                    *)
BeginAnswer(a) ==
  /\ turn[a].pc = "begin" /\ ~Refuses(a) /\ turn[a].job = "answer"
  /\ Writes(a, ResultOf(Unanswered(sess[a].events)[1]), To(a, "compactstart"), Leaving(a))
  /\ IF turn'[a].pc = "compactstart" THEN Started(a) ELSE UNCHANGED restVars

--------------------------------------------------------------------------------
\* Mutant of TurnBoundary: the cut falls between a checkpoint and its message.
BareBoundary(events) ==
  LET users == {i \in DOMAIN events : events[i].k = "user"}
  IN IF users = {} THEN 0 ELSE GreatestOf(users) - 1

(* CompactionCut::TurnBoundary: the last user message, with the invocation or the *)
(* checkpoint before it.                                                          *)
TurnBoundary(events) ==
  LET users == {i \in DOMAIN events : events[i].k = "user"}
      cut[i \in 0..Len(events)] ==
        IF i > 0 /\ events[i].k \in {"invoked", "tree"} THEN cut[i - 1] ELSE i
  IN IF users = {} THEN 0 ELSE cut[GreatestOf(users) - 1]

CutFor(a) ==
  IF turn[a].job = "say" /\ turn[a].pc = "compactstart" THEN TurnBoundary(sess[a].events)
  ELSE Len(sess[a].events)

(* compact_if_needed_locked has something to do: a cut past the last one, and     *)
(* words before it.                                                               *)
Compactable(a) ==
  /\ ~turn[a].cancelled
  /\ CutFor(a) > CompactionCut(sess[a].events)
  /\ ~Wordless(SubSeq(sess[a].events, 1, CutFor(a)))

AfterCompaction(a) ==
  CASE turn[a].pc = "compactstart" -> "top"
    [] turn[a].pc = "compactmid" -> "cutoff"
    [] turn[a].pc = "begin" -> "leave"

AtCompaction(a) ==
  \/ turn[a].pc = "compactstart"
  \/ turn[a].pc = "compactmid" /\ turn[a].iters > 0
  \/ turn[a].pc = "begin" /\ turn[a].job = "compact" /\ ~Refuses(a)

(* The threshold is not reached, the turn was cancelled, or nothing is to compact.*)
NoCompaction(a) ==
  /\ AtCompaction(a) \/ turn[a].pc = "compactmid"
  /\ turn[a].job = "compact" => ~Compactable(a)
  /\ Moves(a, AfterCompaction(a))
  /\ UNCHANGED <<leaseVars, logVars, restVars>>

(* The provider summarizes and the summary is appended.                           *)
Compacts(a) ==
  /\ AtCompaction(a) /\ On("compact") /\ Compactable(a)
  /\ Writes(a, [Event("compaction") EXCEPT !.n = CutFor(a)], To(a, AfterCompaction(a)),
            IF turn[a].job = "compact" THEN Leaving(a) ELSE Closing(a))
  /\ UNCHANGED restVars

(* The provider fails, or gives no usable summary: the error ends the job.        *)
CompactionFails(a) ==
  /\ AtCompaction(a) /\ On("compact") /\ Compactable(a) /\ "failed" \in plan.replies
  /\ Moves(a, IF turn[a].job = "compact" THEN "leave" ELSE "closing")
  /\ UNCHANGED <<leaseVars, logVars, restVars>>

--------------------------------------------------------------------------------
(* The top of the loop: the budget, the cancellation, then what was sent meanwhile.*)
Top(a) ==
  /\ turn[a].pc = "top"
  /\ IF turn[a].iters >= MaxIterations \/ turn[a].cancelled THEN turn' = [turn EXCEPT ![a] = Closing(a)]
     ELSE LET sent == turn[a].steers + turn[a].inbox
          IN turn' = [turn EXCEPT ![a] = [To(a, "steers") EXCEPT
                        !.steers = sent, !.inbox = 0, !.iters = IF sent > 0 THEN 0 ELSE @]]
  /\ UNCHANGED <<leaseVars, logVars, restVars>>

(* Each steer is published, then appended; a cancellation wins the publish and    *)
(* the rest is dropped unappended.                                                *)
AppendSteer(a) ==
  /\ turn[a].pc = "steers" /\ turn[a].steers > 0 /\ ~turn[a].cancelled
  /\ Writes(a, Event("user"), [turn[a] EXCEPT !.steers = @ - 1], Closing(a))
  /\ UNCHANGED restVars

SteersDone(a) ==
  /\ turn[a].pc = "steers" /\ (turn[a].steers = 0 \/ turn[a].cancelled)
  /\ turn' = [turn EXCEPT ![a] = [To(a, "compactmid") EXCEPT !.steers = 0]]
  /\ UNCHANGED <<leaseVars, logVars, restVars>>

(* The image cutoff, when the pictures outgrew their budget.                      *)
Cutoff(a) ==
  /\ turn[a].pc = "cutoff"
  /\ LET before == CutoffBefore(sess[a].events, MaxPics, KeepPics)
     IN IF before = 0 THEN Moves(a, "request") /\ UNCHANGED <<leaseVars, logVars>>
        ELSE Writes(a, [Event("cutoff") EXCEPT !.n = before], To(a, "request"), Closing(a))
  /\ UNCHANGED restVars

--------------------------------------------------------------------------------
\* Mutant of ContainsCall: only the window is asked.
ContainsInWindow(a, id) == id \in CallIds(sess[a].events)

(* free_call_id: the provider numbers its calls anew in every response; one the   *)
(* session already has is logged under a fresh id.                                *)
ContainsCall(a, id) ==
  \/ id \in CallIds(sess[a].events)
  \/ sess[a].ckpt # None /\ id \in sess[a].ckpt.known

FreshCall(i) == 10 * (file.stamp + 1) + i

FreeCall(a, i) == IF ContainsCall(a, i) THEN FreshCall(i) ELSE i

(* What a reply of the provider calls.                                            *)
ToolsOf(reply) ==
  CASE reply = "tools" -> <<"bash", "bash">>
    [] reply = "tool" -> <<"bash">>
    [] reply = "ask" -> <<Question>>
    [] reply = "mixed" -> <<Question, "bash">>
    [] OTHER -> <<>>

CallsMade(a, tools) == [i \in DOMAIN tools |-> [call |-> FreeCall(a, i), tool |-> tools[i]]]

Message(a, tools) == [Event("asst") EXCEPT !.calls = CallsMade(a, tools)]

(* A complete response: one more iteration, and the message is appended.          *)
Reply(a) ==
  /\ turn[a].pc = "request" /\ Len(file.lines) <= MaxLines
  /\ \E reply \in plan.replies \cap {"text", "tool", "tools", "ask", "mixed"} :
        LET m == Message(a, ToolsOf(reply))
        IN Writes(a, m, [To(a, "stepdone") EXCEPT !.iters = @ + 1, !.todo = m.calls],
                  [Closing(a) EXCEPT !.iters = @ + 1])
  /\ UNCHANGED restVars

(* A transient failure after content: the partial step is persisted, its calls    *)
(* answered, and the turn resumes, at most MaxResumes times.                      *)
Interrupt(a) ==
  /\ turn[a].pc = "request" /\ "broken" \in plan.replies /\ turn[a].resumes < MaxResumes
  /\ LET m == Message(a, <<"bash">>)
     IN Writes(a, m, [Answering(turn[a], m.calls, "resume") EXCEPT !.resumes = @ + 1], Closing(a))
  /\ UNCHANGED restVars

\* Mutant of FailStep: the announced calls stay without answers.
FailUnanswered(a) ==
  /\ turn[a].pc = "request" /\ "failed" \in plan.replies
  /\ \E tools \in {<<>>, <<"bash">>} : Writes(a, Message(a, tools), Closing(a), Closing(a))
  /\ UNCHANGED restVars

(* Any other failure: persist_failed_step, with what was announced, and the error *)
(* ends the turn.                                                                 *)
FailStep(a) ==
  /\ turn[a].pc = "request" /\ "failed" \in plan.replies
  /\ \E tools \in {<<>>, <<"bash">>} :
        LET m == Message(a, tools)
        IN Writes(a, m, Answering(turn[a], m.calls, "closing"), Closing(a))
  /\ UNCHANGED restVars

(* The stream is cancelled: what was accumulated is persisted and its calls are   *)
(* answered, or nothing was.                                                      *)
AbortStream(a) ==
  /\ turn[a].pc = "request" /\ turn[a].cancelled
  /\ \/ \E tools \in {<<>>, <<"bash">>} :
           LET m == Message(a, tools)
           IN Writes(a, m, Answering(turn[a], m.calls, "closing"), Closing(a))
     \/ Moves(a, "closing") /\ UNCHANGED <<leaseVars, logVars>>
  /\ UNCHANGED restVars

(* After an interrupted step the loop waits a moment and starts over.             *)
Resume(a) ==
  /\ turn[a].pc = "resume"
  /\ Moves(a, IF turn[a].cancelled THEN "closing" ELSE "top")
  /\ UNCHANGED <<leaseVars, logVars, restVars>>

(* The step is settled: cancelled calls get their synthetic answers; without      *)
(* calls the turn goes on only for a steer; a question among others refuses all;  *)
(* a sole one asks; everything else runs.                                         *)
StepDone(a) ==
  LET calls == turn[a].todo
      asks == \E i \in DOMAIN calls : calls[i].tool = Question
  IN /\ turn[a].pc = "stepdone"
     /\ turn' = [turn EXCEPT ![a] =
          IF turn[a].cancelled THEN Answering(@, calls, "closing")
          ELSE IF calls = <<>> THEN
            IF turn[a].inbox > 0 THEN [To(a, "top") EXCEPT !.steers = turn[a].inbox, !.inbox = 0]
            ELSE Closing(a)
          ELSE IF asks /\ Len(calls) > 1 THEN Answering(@, calls, "top")
          ELSE IF asks THEN To(a, "asking")
          ELSE To(a, "tools")]
     /\ UNCHANGED <<leaseVars, logVars, restVars>>

(* The tools return, or are cut short by the cancellation: either way every call  *)
(* has an outcome. They may have changed the tree.                                *)
ToolsReturn(a) ==
  /\ turn[a].pc = "tools"
  /\ tree' = IF On("snapshot") THEN file.stamp ELSE tree
  /\ \E pics \in Shown : turn' = [turn EXCEPT ![a] = [Answering(@, @.todo, "top") EXCEPT !.pics = pics]]
  /\ UNCHANGED <<leaseVars, logVars, plan, jobs, scratch, saved, watch, kills>>

(* The user answers, or nobody can: the call gets its result.                     *)
Answered(a) ==
  /\ turn[a].pc = "asking"
  /\ Writes(a, ResultOf(Head(turn[a].todo)), [To(a, "top") EXCEPT !.todo = <<>>], Closing(a))
  /\ UNCHANGED restVars

\* Mutant of AbandonQuestion: a question waits a cancellation out.
NeverAbandon(a) == FALSE /\ UNCHANGED vars

(* Cancelled while it asks: the turn ends with the call open.                     *)
AbandonQuestion(a) ==
  /\ turn[a].pc = "asking" /\ turn[a].cancelled
  /\ Moves(a, "closing")
  /\ UNCHANGED <<leaseVars, logVars, restVars>>

--------------------------------------------------------------------------------
(* run_turn_steps returns, its terminal event published, and drops the scratch.   *)
DropScratch(a) ==
  /\ turn[a].pc = "closing"
  /\ scratch' = Nobody
  /\ Moves(a, "finish")
  /\ UNCHANGED <<leaseVars, logVars, plan, jobs, treeVars, watch, kills>>

(* TurnFinished, best effort: refused while a question is open.                   *)
Finish(a) ==
  /\ turn[a].pc = "finish"
  /\ Writes(a, Event("finished"), Leaving(a), Leaving(a))
  /\ UNCHANGED restVars

--------------------------------------------------------------------------------
(* rewind_session: the turn's checkpoint is the event right before its prompt.    *)
HasTree(events, cut) == cut > 0 /\ events[cut].k = "tree"

(* The safety snapshot of the tree as it is.                                      *)
SaveTree(a) ==
  /\ turn[a].pc = "begin" /\ ~Refuses(a) /\ turn[a].job = "rewind"
  /\ saved' = IF HasTree(sess[a].events, turn[a].cut) THEN saved \cup {tree} ELSE saved
  /\ Moves(a, "restore")
  /\ UNCHANGED <<leaseVars, logVars, plan, jobs, scratch, tree, watch, kills>>

RestoreTree(a) ==
  /\ turn[a].pc = "restore"
  /\ tree' = IF HasTree(sess[a].events, turn[a].cut) THEN sess[a].events[turn[a].cut].n ELSE tree
  /\ Moves(a, "dropids")
  /\ UNCHANGED <<leaseVars, logVars, plan, jobs, scratch, saved, watch, kills>>

RewindIndex(a) ==
  /\ \/ turn[a].pc = "dropids" /\ DropIds(a) /\ Moves(a, "dropindex")
     \/ turn[a].pc = "dropindex" /\ DropIndex(a) /\ Moves(a, "mark")
  /\ UNCHANGED <<leaseVars, restVars>>

MarkRewind(a) ==
  /\ turn[a].pc = "mark"
  /\ Writes(a, Marker(a, turn[a].cut), Leaving(a), Leaving(a))
  /\ UNCHANGED restVars

--------------------------------------------------------------------------------
(* The user cancels, or says something meanwhile.                                 *)
Cancel(a) ==
  /\ On("cancel") /\ ~turn[a].cancelled /\ turn[a].pc # "idle"
  /\ turn[a].job \in Turns \cup {"compact"}
  /\ turn' = [turn EXCEPT ![a].cancelled = TRUE]
  /\ UNCHANGED <<leaseVars, logVars, restVars>>

Steer(a) ==
  /\ On("steer") /\ InBody(a) /\ ~turn[a].told
  /\ turn' = [turn EXCEPT ![a].inbox = @ + 1, ![a].told = TRUE]
  /\ UNCHANGED <<leaseVars, logVars, restVars>>

(* The process dies. Its scratch stays.                                           *)
Kill(a) ==
  /\ kills > 0 /\ at[a] # "idle"
  /\ kills' = kills - 1
  /\ LeaseDies(a) /\ SessionDies(a)
  /\ turn' = [turn EXCEPT ![a] = Idle]
  /\ scratch' = IF scratch = a THEN Leftover ELSE scratch
  /\ UNCHANGED <<plan, jobs, treeVars, watch>>

(* Which file is at the path (device and inode), told by the id of its first line: *)
(* the stamp moves on through a deletion. Assumed: a new log has an inode of its   *)
(* own, though a file system may give one of a deleted file again.                 *)
Identity == IF file.lines = <<>> THEN 0 ELSE file.lines[1].id

\* Mutant of FileReplaced: only a file that shrank is another one.
FileShrunk == watch.lines > 0 /\ Len(file.lines) < watch.lines

(* What the tail has read is not, or no more, the start of the file at the path.  *)
FileReplaced == watch.lines > 0 /\ (watch.born # Identity \/ Len(file.lines) < watch.lines)

(* The lines the tail has not seen.                                               *)
Unseen == SubSeq(file.lines, watch.lines + 1, Len(file.lines))

Reads(events) ==
  watch' = [watch EXCEPT !.born = Identity, !.lines = Len(file.lines), !.events = events]

\* Mutant of Poll: what came is folded on its own, and then added.
PollApart ==
  /\ On("watch") /\ ~watch.gone
  /\ Len(file.lines) > watch.lines /\ Reads(watch.events \o Folded(Unseen))
  /\ UNCHANGED <<leaseVars, logVars, turn, plan, jobs, scratch, treeVars, kills>>

(* SessionTail::poll: the file is gone; or it is another one, read from its first *)
(* line; or the lines not seen are read, the markers applied as they come.        *)
Poll ==
  /\ On("watch") /\ ~watch.gone
  /\ \/ ~file.there /\ watch.lines > 0 /\ watch' = [watch EXCEPT !.gone = TRUE]
     \/ file.there /\ FileReplaced /\ Reads(Folded(file.lines))
     \/ ~FileReplaced /\ Len(file.lines) > watch.lines /\ Reads(FoldedOnto(watch.events, Unseen))
  /\ UNCHANGED <<leaseVars, logVars, turn, plan, jobs, scratch, treeVars, kills>>

--------------------------------------------------------------------------------
(* What an actor does without waiting for anyone outside.                         *)
Forced(a) ==
  \/ Acquire(a) \/ Leave(a) \/ Released(a)
  \/ Create(a) \/ WriteMeta(a) \/ Delete(a) \/ Load(a) \/ AnswerNext(a)
  \/ BeginRefused(a) \/ BeginSay(a) \/ Prompt(a) \/ BeginContinue(a) \/ BeginAnswer(a)
  \/ NoCompaction(a) \/ Top(a) \/ AppendSteer(a) \/ SteersDone(a) \/ Cutoff(a)
  \/ AbortStream(a) \/ Resume(a) \/ StepDone(a) \/ AbandonQuestion(a)
  \/ turn[a].cancelled /\ ToolsReturn(a)
  \/ DropScratch(a) \/ Finish(a)
  \/ SaveTree(a) \/ RestoreTree(a) \/ RewindIndex(a) \/ MarkRewind(a)

(* What waits for the provider, the tools or the user.                            *)
Waited(a) ==
  \/ Compacts(a) \/ CompactionFails(a)
  \/ Reply(a) \/ Interrupt(a) \/ FailStep(a) \/ ToolsReturn(a) \/ Answered(a)

Next ==
  \/ \E a \in Actor : Take(a) \/ Skip(a) \/ Forced(a) \/ Waited(a) \/ Cancel(a) \/ Steer(a) \/ Kill(a)
  \/ Poll

Fairness == \A a \in Actor : WF_vars(Forced(a))

Spec == Init /\ [][Next]_vars /\ Fairness
==================================================================================
