---------------------------- MODULE TerminalLoop ----------------------------
(***************************************************************************)
(* The terminal's event loop (crates/ilar-tui/src/main.rs, schedule.rs,    *)
(* decide.rs): one task that owns the turn slot, the queue, the steers sent *)
(* and not yet seen, and the backlog of results; the turn, the compaction  *)
(* and the deliveries it spawns run beside it.                             *)
(*                                                                         *)
(* One iteration goes through the stages of "stage": the top (an adopted   *)
(* backlog lands, events are drained), the join of the operation in the    *)
(* slot, the join of deliveries, the intents, a compaction, the            *)
(* notifications, one key.  The operations take their steps between any    *)
(* two of them.  The loop starts on a session that is already on screen:   *)
(* restore, rewind, questions, focus views and one-turn models are left    *)
(* out.  While they are, "busy" is the slot being taken.                   *)
(***************************************************************************)
EXTENDS Naturals, Sequences, FiniteSets, SequencesExt

CONSTANTS
    Message, Kind,       \* what the person may say, and how each is written
    Own, Foreign,        \* results for this session, and for another
    Nested,              \* a routed result and the one its own turn leads to
    Backlog,             \* results of an earlier run, still in the outbox
    Days,                \* the words of one run of the program, for each run
    MaxRounds,           \* MAX_GOAL_ROUNDS
    MaxKeys              \* bound: keys pressed

Note == Own \cup Foreign
Word == Message \cup Note

ASSUME WordsAssumption ==
    /\ Kind \in [Message -> {"plain", "compact", "goal"}]
    /\ Message \cap Note = {} /\ Own \cap Foreign = {} /\ Backlog \subseteq Note
    /\ IsFiniteSet(Backlog)
    /\ Nested \in [Foreign -> Own] /\ IsInjective(Nested) /\ Range(Nested) \cap Backlog = {}
ASSUME DaysAssumption ==
    \A day \in Days : day \subseteq Word /\ \A n \in day \cap Foreign : Nested[n] \in day
ASSUME BoundsAssumption == MaxRounds \in Nat /\ MaxKeys \in Nat

VARIABLES
    stage, intents,      \* where the iteration is; what it has decided
    task,                \* turn_handle and what it runs
    inbox, events,       \* the steer channel; Steered events not yet drained
    log,                 \* what the session's log has taken
    queued, pending,     \* queued_messages, pending_steers
    held, channel, blocked, routed,  \* the results, by where they are
    paused, engaged, gate, seen,     \* notifications_paused; turn_gate; background_running
    modal, draft, retry, goal, compact, fired,  \* the app's flags
    unsent, dropped, shown, unborn,  \* words, by where else they are
    stopped, due,        \* the person said stop; a queued message is to be sent
    orphans, keys        \* turns whose handle was overwritten; keys pressed

words   == <<unsent, dropped, shown, unborn>>
mail    == <<held, channel, blocked, routed>>
steers  == <<inbox, events, pending>>
flags   == <<modal, draft, retry, goal, compact, fired>>
pauses  == <<paused, engaged, gate, seen>>
duties  == <<stopped, due>>
vars    == <<stage, intents, task, steers, log, queued, mail, pauses, flags, words,
             duties, orphans, keys>>

Stages   == {"join", "drain", "mail", "keys"}
Outcomes == {"none", "completed", "failed", "declined", "aborted", "crashed"}
NoGoal   == MaxRounds + 2
Empty    == [kind |-> "none", prompt |-> <<>>, at |-> "none", end |-> "none",
             cancelled |-> FALSE]
Intent(do, said) == [do |-> do, words |-> said]

TypeOK ==
    /\ stage \in Stages
    /\ intents \in Seq([do : {"start", "send", "resume", "round", "ungoal"}, words : Seq(Word)])
    /\ task \in [kind : {"none", "turn", "compaction"}, prompt : Seq(Word), cancelled : BOOLEAN,
                at : {"none", "starting", "live", "closed", "done"}, end : Outcomes]
    /\ (task.kind = "none") = (task = Empty)
    /\ {inbox, events, log, queued, pending} \subseteq Seq(Word)
    /\ {held, channel, blocked} \subseteq Seq(Note)
    /\ routed \subseteq [note : Foreign, end : {"none", "delivered", "propagate", "hold", "failed"}]
    /\ {paused, engaged, gate, seen, modal, draft, retry, compact, fired, stopped, due} \subseteq BOOLEAN
    /\ goal \in 0..MaxRounds \cup {NoGoal}
    /\ {unsent, dropped, shown, unborn} \subseteq SUBSET Word
    /\ orphans \in Nat /\ keys \in 0..MaxKeys

Init ==
    /\ stage = "join" /\ intents = <<>> /\ task = Empty
    /\ inbox = <<>> /\ events = <<>> /\ pending = <<>> /\ log = <<>> /\ queued = <<>>
    /\ held = <<>> /\ channel = <<>> /\ blocked = <<>> /\ routed = {}
    /\ paused = FALSE /\ engaged = FALSE /\ gate = FALSE /\ seen = FALSE
    /\ modal = FALSE /\ draft = FALSE /\ retry = FALSE /\ goal = NoGoal /\ compact = FALSE
    /\ fired = FALSE
    /\ \E day \in Days : unsent = day \cap Message /\ unborn = day \cap Note /\ dropped = Word \ day
    /\ shown = {}
    /\ stopped = FALSE /\ due = FALSE /\ orphans = 0 /\ keys = 0

Running   == task.kind # "none"
Steerable == task.kind = "turn" /\ task.at \in {"starting", "live"}
Accepts   == ~modal /\ ~draft

\* Mutant of Target: what cannot be steered is thought to be idle.
TargetUnsteered == IF Steerable THEN "steer" ELSE "turn"

\* submit_target
Target == IF ~Running THEN "turn" ELSE IF Steerable THEN "steer" ELSE "queue"

\* Mutant of AllRead: what the turn announced since the last pass is not drained.
AllReadStale == TRUE

\* Nothing the turn announced is still to be drained.
AllRead == events = <<>>

\* Mutant of Flows: an abort lets notifications flow as well.
FlowsAborted(end) == end # "crashed"

\* The ends of a turn after which notifications flow again.
Flows(end) == end \in {"completed", "failed", "declined"}

\* Mutant of MayStart: a held queue keeps results out too.
MayStartUnqueued == ~Running /\ ~paused /\ ~modal /\ queued = <<>>

MayStart == ~Running /\ ~paused /\ ~modal

-----------------------------------------------------------------------------
(* The operation in the slot, on a task of its own. *)

\* The turn appends its prompt, or fails before it can.
TurnTakesThePrompt ==
    /\ task.kind = "turn" /\ task.at = "starting"
    /\ task' = [task EXCEPT !.at = "live"]
    /\ log' = log \o task.prompt
    /\ UNCHANGED <<stage, intents, steers, queued, mail, pauses, flags, words, duties, orphans, keys>>

\* Between two requests the turn announces the steers it has and appends them.
TurnTakesSteers ==
    /\ task.kind = "turn" /\ task.at = "live" /\ ~task.cancelled /\ inbox # <<>>
    /\ log' = log \o inbox /\ events' = events \o inbox /\ inbox' = <<>>
    /\ UNCHANGED <<stage, intents, task, pending, queued, mail, pauses, flags, words, duties, orphans, keys>>

\* The turn is over and has dropped its receiver; its handle is not finished yet.
TurnCloses ==
    /\ task.kind = "turn" /\ task.at \in {"starting", "live"}
    /\ \E end \in Outcomes \ {"none"} :
          /\ end \in {"completed", "failed"} => task.at = "live"
          /\ end = "declined" => task.at = "starting"
          /\ end = "aborted" => task.cancelled
          /\ task' = [task EXCEPT !.at = "closed", !.end = end]
    /\ inbox' = <<>>
    /\ UNCHANGED <<stage, intents, events, pending, log, queued, mail, pauses, flags, words, duties, orphans, keys>>

TurnFinishes ==
    /\ task.at = "closed"
    /\ task' = [task EXCEPT !.at = "done"]
    /\ UNCHANGED <<stage, intents, steers, log, queued, mail, pauses, flags, words, duties, orphans, keys>>

CompactionFinishes ==
    /\ task.kind = "compaction" /\ task.at = "starting"
    /\ \E end \in {"completed", "failed", "aborted", "crashed"} :
          /\ end = "aborted" => task.cancelled
          /\ task' = [task EXCEPT !.at = "done", !.end = end]
    /\ UNCHANGED <<stage, intents, steers, log, queued, mail, pauses, flags, words, duties, orphans, keys>>

(* The runs whose results these are, and the deliveries. *)

\* A detached task ends: its report is on the notification channel.
ResultArrives(n) ==
    /\ n \in unborn \ Backlog /\ \A f \in Foreign : Nested[f] # n
    /\ unborn' = unborn \ {n} /\ channel' = Append(channel, n)
    /\ UNCHANGED <<stage, intents, task, steers, log, queued, held, blocked, routed,
                   pauses, flags, unsent, dropped, shown, duties, orphans, keys>>

\* route_notification's outcome: taken, passed on, the target busy, or an error.
DeliveryEnds(r) ==
    /\ r \in routed /\ r.end = "none"
    /\ \E end \in {"delivered", "propagate", "hold", "failed"} :
          routed' = (routed \ {r}) \cup {[r EXCEPT !.end = end]}
    /\ UNCHANGED <<stage, intents, task, steers, log, queued, held, channel, blocked,
                   pauses, flags, words, duties, orphans, keys>>

-----------------------------------------------------------------------------
(* The loop. *)

\* The stall watchdog and Esc stop an operation the same way: what is detached
\* lives on and its results wait.
Stops ==
    /\ task' = [task EXCEPT !.cancelled = TRUE]
    /\ paused' = (paused \/ seen) /\ stopped' = (stopped \/ seen)

\* The outbox scan may land between the join and the pass: the backlog is held,
\* and holds everything unless a turn was seen in the slot since the start.
Adopts(lands, taken) ==
    /\ lands => Backlog \cap unborn # {}
    /\ engaged' = (engaged \/ taken)
    /\ held' = IF lands THEN held \o SetToSeq(Backlog \cap unborn) ELSE held
    /\ unborn' = IF lands THEN unborn \ Backlog ELSE unborn

Holds(lands) == lands /\ ~engaged'

StallAborts ==
    /\ stage = "join" /\ task.kind = "turn" /\ ~task.cancelled
    /\ Stops
    /\ UNCHANGED <<stage, intents, steers, log, queued, mail, engaged, gate, seen, flags,
                   words, due, orphans, keys>>

\* Mutant of AfterTurn: one round over the cap.
AfterTurnOver(completed, achieved) ==
    LET free == completed /\ Accepts IN
    IF free /\ queued # <<>> THEN <<Intent("send", <<>>)>>
    ELSE IF ~free \/ goal = NoGoal THEN <<>>
    ELSE IF achieved \/ goal > MaxRounds THEN <<Intent("ungoal", <<>>)>>
    ELSE <<Intent("round", <<>>)>>

\* What after_turn decides: a goal's next round only when no message waits for
\* the turn, then the head of the queue.
AfterTurn(completed, achieved) ==
    LET free == completed /\ Accepts IN
    IF free /\ queued # <<>> THEN <<Intent("send", <<>>)>>
    ELSE IF ~free \/ goal = NoGoal THEN <<>>
    ELSE IF achieved \/ goal >= MaxRounds THEN <<Intent("ungoal", <<>>)>>
    ELSE <<Intent("round", <<>>)>>

\* complete for a root turn, or for the operation whose task died: after_turn
\* looks at the queue before the undelivered steers go to its head.
JoinTurn ==
    /\ stage = "join" /\ AllRead /\ task.at = "done"
    /\ task.kind = "turn" \/ task.end = "crashed"
    /\ stage' = "drain" /\ task' = Empty
    /\ queued' = pending \o queued
    /\ pending' = <<>> /\ inbox' = <<>> /\ events' = <<>>
    /\ \E achieved \in BOOLEAN :
          LET decided == AfterTurn(task.end = "completed", achieved) IN
          intents' = intents \o decided
    /\ due' = (task.end = "completed" /\ Accepts /\ queued # <<>>)
    /\ \E lands \in BOOLEAN :
          /\ Adopts(lands, FALSE)
          /\ paused' = ((paused \/ Holds(lands)) /\ ~Flows(task.end))
          /\ stopped' = ((stopped \/ Holds(lands)) /\ task.end \in {"aborted", "crashed"})
    /\ fired' = (fired /\ (task.kind = "compaction" \/ task.end = "declined"))
    /\ retry' = (task.end \in {"failed", "aborted"} \/ retry)
    /\ UNCHANGED <<log, channel, blocked, routed, gate, seen, modal, draft, goal, compact,
                   unsent, dropped, shown, orphans, keys>>

\* complete for a compaction that ended, well or not.
JoinCompaction ==
    /\ stage = "join" /\ task.at = "done" /\ task.kind = "compaction" /\ task.end # "crashed"
    /\ stage' = "drain" /\ task' = Empty
    /\ due' = (task.end = "completed" /\ Accepts /\ queued # <<>>)
    /\ intents' = intents \o IF due' THEN <<Intent("send", <<>>)>> ELSE <<>>
    /\ \E lands \in BOOLEAN :
          /\ Adopts(lands, FALSE)
          /\ paused' = (paused \/ Holds(lands)) /\ stopped' = (stopped \/ Holds(lands))
    /\ UNCHANGED <<steers, log, queued, channel, blocked, routed, gate, seen, flags,
                   unsent, dropped, shown, orphans, keys>>

\* A Steered event takes the message from the pending list to the transcript.
ReadsSteered ==
    /\ stage = "join" /\ ~AllRead
    /\ pending' = RemoveFirst(pending, Head(events))
    /\ shown' = shown \cup {Head(events)} /\ events' = Tail(events)
    /\ UNCHANGED <<stage, intents, task, inbox, log, queued, mail, pauses, flags, unsent, dropped,
                   unborn, duties, orphans, keys>>

\* Nothing to join, or its end comes after the look.
NoJoin ==
    /\ stage = "join" /\ AllRead /\ task.at # "done" /\ stage' = "drain"
    /\ \E lands \in BOOLEAN :
          /\ Adopts(lands, Running)
          /\ paused' = (paused \/ Holds(lands)) /\ stopped' = (stopped \/ Holds(lands))
    /\ UNCHANGED <<intents, task, steers, log, queued, channel, blocked, routed, gate, seen,
                   flags, unsent, dropped, shown, due, orphans, keys>>

\* routed_complete: what disposition makes of a delivery's end.
JoinDelivery(r) ==
    /\ stage = "drain" /\ r \in routed /\ r.end # "none"
    /\ routed' = routed \ {r}
    /\ CASE r.end = "propagate" ->
              /\ held' = Append(held \o channel, Nested[r.note]) /\ channel' = <<>>
              /\ shown' = shown \cup {r.note} /\ unborn' = unborn \ {Nested[r.note]}
              /\ UNCHANGED <<paused>>
         [] r.end = "hold" ->
              /\ held' = <<r.note>> \o held /\ paused' = TRUE
              /\ UNCHANGED <<channel, shown, unborn>>
         [] OTHER ->
              /\ shown' = shown \cup {r.note}
              /\ UNCHANGED <<held, channel, unborn, paused>>
    /\ UNCHANGED <<stage, intents, task, steers, log, queued, blocked, engaged, gate, seen,
                   flags, unsent, dropped, duties, orphans, keys>>

-----------------------------------------------------------------------------
(* The intents. *)

\* spawn_root_turn: the slot, the token and both channels are the new turn's,
\* whoever had them.
Spawns(kind, prompt) ==
    /\ task' = [Empty EXCEPT !.kind = kind, !.prompt = prompt, !.at = "starting"]
    /\ orphans' = orphans + (IF Running THEN 1 ELSE 0)
    /\ inbox' = <<>> /\ events' = <<>> /\ due' = FALSE

Command(w) == IF w \in Message THEN Kind[w] ELSE "plain"

\* prepare_prompt on a message: a command does its work and starts nothing, a
\* goal is armed or reworded, anything else is the prompt of a turn.
Prepares(m) ==
    IF Command(m) = "compact" \/ (Command(m) = "goal" /\ goal # NoGoal)
    THEN /\ compact' = (compact \/ Command(m) = "compact")
         /\ dropped' = dropped \cup {m} /\ due' = FALSE
         /\ UNCHANGED <<task, orphans, inbox, events, goal, retry, shown>>
    ELSE /\ goal' = IF Command(m) = "goal" THEN 0 ELSE goal
         /\ shown' = shown \cup {m} /\ retry' = FALSE
         /\ Spawns("turn", <<m>>)
         /\ UNCHANGED <<compact, dropped>>

\* apply_intent for a turn the person or the queue asked for.
PerformStart ==
    /\ stage = "drain" /\ intents # <<>> /\ Head(intents).do \in {"start", "send"}
    /\ intents' = Tail(intents)
    /\ IF Head(intents).do = "start"
       THEN Prepares(Head(Head(intents).words)) /\ UNCHANGED queued
       ELSE Prepares(Head(queued)) /\ queued' = Tail(queued)
    /\ UNCHANGED <<stage, log, mail, pending, pauses, modal, draft, fired, unsent, unborn, stopped, keys>>

\* A resume, a goal's next round, a goal that is over.
PerformOther ==
    /\ stage = "drain" /\ intents # <<>> /\ Head(intents).do \in {"resume", "round", "ungoal"}
    /\ intents' = Tail(intents)
    /\ IF Head(intents).do = "ungoal"
       THEN goal' = NoGoal /\ UNCHANGED <<task, orphans, inbox, events, due, retry>>
       ELSE /\ goal' = IF Head(intents).do = "round" THEN goal + 1 ELSE goal
            /\ retry' = FALSE /\ Spawns("turn", <<>>)
    /\ UNCHANGED <<stage, log, queued, mail, pending, pauses, modal, draft, compact, fired,
                   words, stopped, keys>>

\* Mutant of Drained: the gate opens before the intents are performed.
DrainedLate == stage = "drain" /\ \A r \in routed : r.end = "none"

\* Every intent is performed and every delivery that had ended is filed.
Drained == stage = "drain" /\ intents = <<>> /\ \A r \in routed : r.end = "none"

\* A compaction asked for starts when the slot is free; one for the warm cache
\* when nothing else wants the session either.
Compacts ==
    /\ Drained /\ ~Running
    /\ \/ compact /\ UNCHANGED fired
       \/ /\ ~compact /\ ~fired /\ ~modal /\ queued = <<>> /\ routed = {} /\ log # <<>>
          /\ fired' = TRUE
    /\ Spawns("compaction", <<>>) /\ compact' = FALSE
    /\ gate' = FALSE /\ stage' = "mail"
    /\ UNCHANGED <<intents, log, queued, mail, pending, paused, engaged, seen, modal, draft, retry, goal,
                   words, stopped, keys>>

OpensTheGate ==
    /\ Drained /\ ~(compact /\ ~Running)
    /\ gate' = MayStart /\ stage' = "mail"
    /\ UNCHANGED <<intents, task, steers, log, queued, mail, paused, engaged, seen, flags, words,
                   duties, orphans, keys>>

-----------------------------------------------------------------------------
(* The notifications. *)

\* next_notification: the backlog first, then the channel.
NextNote == IF held # <<>> THEN Head(held) ELSE Head(channel)
Takes(n) ==
    /\ stage = "mail" /\ ~paused /\ held \o channel # <<>> /\ n = NextNote
    /\ IF held # <<>> THEN held' = Tail(held) /\ UNCHANGED channel
                      ELSE channel' = Tail(channel) /\ UNCHANGED held

\* One for another session is delivered beside whatever runs.
Routes(n) ==
    /\ Takes(n) /\ n \in Foreign
    /\ routed' = routed \cup {[note |-> n, end |-> "none"]}
    /\ UNCHANGED <<stage, intents, task, steers, log, queued, blocked, pauses, flags, words, duties, orphans, keys>>

StartsNotificationTurn(n) ==
    /\ Takes(n) /\ n \in Own /\ gate
    /\ gate' = FALSE /\ shown' = shown \cup {n} /\ retry' = FALSE
    /\ Spawns("turn", <<n>>)
    /\ UNCHANGED <<stage, intents, log, queued, blocked, routed, pending, paused, engaged, seen,
                   modal, draft, goal, compact, fired, unsent, dropped, unborn, stopped, keys>>

\* It goes into the turn that runs, as a steer, or back when nothing takes it.
SteersNotification(n) ==
    /\ Takes(n) /\ n \in Own /\ ~gate
    /\ IF Steerable
       THEN inbox' = Append(inbox, n) /\ pending' = Append(pending, n) /\ UNCHANGED blocked
       ELSE blocked' = Append(blocked, n) /\ UNCHANGED <<inbox, pending>>
    /\ UNCHANGED <<stage, intents, task, events, log, queued, routed, pauses, flags, words, duties, orphans, keys>>

\* The pass ends: what was not admitted goes back in front, a pause shows the
\* channel's too, and what runs in the background is counted for the next key.
Presents ==
    /\ stage = "mail" /\ (paused \/ held \o channel = <<>>)
    /\ stage' = "keys" /\ blocked' = <<>>
    /\ held' = blocked \o held \o IF paused THEN channel ELSE <<>>
    /\ channel' = IF paused THEN <<>> ELSE channel
    /\ seen' = \E n \in unborn \ Backlog : \A f \in Foreign : Nested[f] # n
    /\ UNCHANGED <<intents, task, steers, log, queued, routed, paused, engaged, gate, flags, words,
                   duties, orphans, keys>>

-----------------------------------------------------------------------------
(* One key. *)

Key ==
    /\ stage = "keys" /\ keys < MaxKeys /\ keys' = keys + 1 /\ stage' = "join"

NoKey ==
    /\ stage = "keys" /\ stage' = "join"
    /\ UNCHANGED <<intents, task, steers, log, queued, mail, pauses, flags, words, duties, orphans, keys>>

\* submit refuses /compact beside anything, and any command as a steer.
Refused(m) == \/ Kind[m] = "compact" /\ Running
              \/ Kind[m] = "goal" /\ Steerable

\* Enter: a turn when nothing runs, a steer into one that does, the queue when
\* it cannot be steered.
Submit(m) ==
    /\ Key /\ ~modal /\ m \in unsent /\ ~Refused(m)
    /\ unsent' = unsent \ {m} /\ draft' = FALSE
    /\ CASE Target = "turn" -> /\ intents' = Append(intents, Intent("start", <<m>>))
                               /\ UNCHANGED <<inbox, pending, queued>>
         [] Target = "steer" -> /\ inbox' = Append(inbox, m) /\ pending' = Append(pending, m)
                                /\ UNCHANGED <<intents, queued>>
         [] OTHER -> queued' = Append(queued, m) /\ UNCHANGED <<intents, inbox, pending>>
    /\ UNCHANGED <<task, events, log, mail, pauses, modal, retry, goal, compact, fired,
                   dropped, shown, unborn, duties, orphans>>

\* A letter in the prompt, or a message refused: there is a draft.
Types ==
    /\ Key /\ ~modal /\ ~draft /\ draft' = TRUE
    /\ UNCHANGED <<intents, task, steers, log, queued, mail, pauses, modal, retry, goal, compact, fired,
                   words, duties, orphans>>

\* Esc: it stops what runs; with nothing to stop it clears the prompt.
Esc ==
    /\ Key /\ ~modal
    /\ IF Running
       THEN Stops /\ UNCHANGED draft
       ELSE draft' = FALSE /\ UNCHANGED <<task, paused, stopped>>
    /\ UNCHANGED <<intents, steers, log, queued, mail, engaged, gate, seen, modal, retry, goal, compact, fired,
                   words, due, orphans>>

\* Ctrl-R continues a turn that ended badly.
Retry ==
    /\ Key /\ ~modal /\ ~Running /\ retry /\ ~draft
    /\ intents' = Append(intents, Intent("resume", <<>>))
    /\ UNCHANGED <<task, steers, log, queued, mail, pauses, flags, words, duties, orphans>>

\* A picker or the pending manager opens or closes.
TogglesModal ==
    /\ Key /\ modal' = ~modal
    /\ UNCHANGED <<intents, task, steers, log, queued, mail, pauses, draft, retry, goal, compact, fired,
                   words, duties, orphans>>

(* The pending manager's entries. *)

DeliverHeld ==
    /\ Key /\ modal /\ paused /\ held # <<>>
    /\ paused' = FALSE /\ stopped' = FALSE /\ modal' = FALSE
    /\ UNCHANGED <<intents, task, steers, log, queued, mail, engaged, gate, seen, draft, retry, goal,
                   compact, fired, words, due, orphans>>

\* Cancel-all: the tasks and deliveries are told, and what they still report waits.
CancelBackground ==
    /\ Key /\ modal
    /\ paused' = TRUE /\ stopped' = TRUE /\ seen' = FALSE
    /\ UNCHANGED <<intents, task, steers, log, queued, mail, engaged, gate, flags,
                   words, due, orphans>>

\* A queued message is deleted, or taken back into the prompt.
TakesBack(k) ==
    /\ Key /\ modal /\ k \in DOMAIN queued
    /\ queued' = RemoveAt(queued, k) /\ dropped' = dropped \cup {queued[k]}
    /\ \/ UNCHANGED <<modal, draft>>
       \/ modal' = FALSE /\ draft' = TRUE
    /\ UNCHANGED <<intents, task, steers, log, mail, pauses, retry, goal, compact, fired,
                   unsent, shown, unborn, duties, orphans>>

-----------------------------------------------------------------------------
TaskSteps == TurnTakesThePrompt \/ TurnTakesSteers \/ TurnCloses \/ TurnFinishes \/ CompactionFinishes
Delivering == \E r \in routed : DeliveryEnds(r)
LoopSteps ==
    \/ ReadsSteered \/ JoinTurn \/ JoinCompaction \/ NoJoin \/ (\E r \in routed : JoinDelivery(r))
    \/ PerformStart \/ PerformOther \/ Compacts \/ OpensTheGate
    \/ (\E n \in Note : Routes(n) \/ StartsNotificationTurn(n) \/ SteersNotification(n))
    \/ Presents \/ NoKey
Keys ==
    \/ \E m \in Message : Submit(m)
    \/ Types \/ Esc \/ Retry \/ TogglesModal
    \/ DeliverHeld \/ CancelBackground \/ \E k \in DOMAIN queued : TakesBack(k)

Next == \/ TaskSteps \/ Delivering \/ LoopSteps \/ Keys
        \/ (\E n \in Note : ResultArrives(n)) \/ StallAborts

\* The loop polls for ever, and what it spawns ends: the tasks are the runtime's.
Fairness == WF_vars(TaskSteps) /\ WF_vars(LoopSteps) /\ WF_vars(Delivering)

Spec == Init /\ [][Next]_vars /\ Fairness

-----------------------------------------------------------------------------
\* The words of what is decided first, which nothing may wait behind.
Decided == IF intents = <<>> THEN <<>> ELSE Head(intents).words
Waiting == queued \o pending \o held \o channel \o blocked \o Decided

\* Every message of the person and every result is in exactly one place: still to
\* come, waiting in one queue, under delivery, in the transcript or taken back.
\* What the session's log has is in it once and waits nowhere to be said again.
EveryWordOnce ==
    /\ LET sets == <<unsent, dropped, shown, unborn, {r.note : r \in routed}, Range(Waiting)>> IN
       /\ UNION Range(sets) = Word
       /\ \A i, j \in DOMAIN sets : i # j => sets[i] \cap sets[j] = {}
    /\ IsInjective(Waiting) /\ IsInjective(log)
    /\ Range(log) \subseteq shown \cup Range(events)

\* No turn's handle is overwritten by another's: a message said, one queued, a
\* retry, a goal round and a result each start one, from decisions taken a stage or
\* an iteration earlier.
OneTurnAtATime == orphans = 0

NoteStarts == stage = "mail" /\ task'.prompt # task.prompt /\ Range(task'.prompt) \cap Note # {}

\* The slot a completed operation leaves goes to the message that was queued for
\* it, before any result that came meanwhile.
QueueOutranksResults == [][NoteStarts => ~due]_vars

\* Once the person has stopped a turn with work detached, or cancelled that work,
\* or has said nothing yet to a backlog, no result starts a turn or is delivered
\* elsewhere until a turn of theirs has run or they ask for it.
StopIsQuiet ==
    [][stopped /\ stopped' => ~NoteStarts /\ {r.note : r \in routed'} \subseteq {r.note : r \in routed}]_vars

\* A result that has arrived does not wait for ever unless something the person
\* can see holds it: a pause, or an overlay.
ResultsMove ==
    \A n \in Note : n \in Range(held \o channel \o blocked)
                     ~> n \notin Range(held \o channel \o blocked) \/ paused \/ modal
=============================================================================
