------------------------ MODULE TerminalLoopProofs -------------------------
(***************************************************************************)
(* Proofs about TerminalLoop: for any words, any results, any commands, any *)
(* number of keys and of rounds of a goal.                                 *)
(***************************************************************************)
EXTENDS TerminalLoop, QueueLemmas

-----------------------------------------------------------------------------
(* The inductive invariant. *)

\* The stage, the counters, and no turn without a handle.
PhaseFits ==
    /\ stage \in Stages /\ goal \in 0..MaxRounds \cup {NoGoal} /\ keys \in 0..MaxKeys
    /\ orphans = 0

\* The flags; what the person stopped is held.
FlagsFit ==
    /\ paused \in BOOLEAN /\ engaged \in BOOLEAN /\ gate \in BOOLEAN /\ seen \in BOOLEAN
    /\ modal \in BOOLEAN /\ draft \in BOOLEAN /\ retry \in BOOLEAN /\ compact \in BOOLEAN
    /\ fired \in BOOLEAN /\ stopped \in BOOLEAN /\ due \in BOOLEAN
    /\ stopped => paused

\* Where a turn is; only a turn has steers.
TaskType == [kind : {"none", "turn", "compaction"}, prompt : Seq(Word), cancelled : BOOLEAN,
             at : {"none", "starting", "live", "closed", "done"}, end : Outcomes]
TaskFits ==
    /\ task \in TaskType /\ (task.kind = "none" => task = Empty)
    /\ task.kind # "none" => task.at # "none"
    /\ task.kind = "compaction" => task.at \in {"starting", "done"}
    /\ task.kind # "turn" => inbox = <<>> /\ events = <<>> /\ pending = <<>>

\* One thing is decided at a time, for an idle slot, and done in the same pass; what
\* is decided of the head of the queue finds it there.  A result's turn is let in
\* only while the slot is idle.
Decision == [do : {"start", "send", "resume", "round", "ungoal"}, words : Seq(Word)]
DecisionFits(i) ==
    /\ i \in Decision /\ task = Empty /\ stage \in {"join", "drain"}
    /\ i.do = "start" => \E m \in Message : i.words = <<m>>
    /\ i.do # "start" => i.words = <<>>
    /\ i.do \notin {"start", "resume"} => stage = "drain"
    /\ i.do = "send" => queued # <<>>
    /\ i.do = "round" => goal < MaxRounds
DecisionsFit ==
    /\ intents = <<>> \/ \E i \in Decision : intents = <<i>> /\ DecisionFits(i)
    /\ due => intents = <<Intent("send", <<>>)>>
    /\ gate /\ stage = "mail" => task = Empty

\* A steer is announced, or waits in the channel, or was left behind by a turn that
\* ended; whichever it is, the loop still has it.
SteersFit ==
    /\ inbox \in Seq(Word) /\ events \in Seq(Word) /\ pending \in Seq(Word)
    /\ Range(events) \subseteq Range(pending) /\ Range(inbox) \subseteq Range(pending)
    /\ Range(events) \cap Range(inbox) = {}
    /\ IsInjective(events) /\ IsInjective(inbox) /\ IsInjective(pending)

\* The log has what was shown or announced, and not yet the prompt of a turn that
\* has not begun.
LogFits ==
    /\ log \in Seq(Word) /\ IsInjective(log) /\ Range(log) \subseteq shown \cup Range(events)
    /\ IsInjective(task.prompt)
    /\ task.at = "starting" => Range(task.prompt) \subseteq shown \ Range(log)

\* What a delivery leads to is still to come.
NestedFits ==
    /\ routed \subseteq [note : Foreign, end : {"none", "delivered", "propagate", "hold", "failed"}]
    /\ \A r, s \in routed : r.note = s.note => r = s
    /\ \A f \in Foreign : f \in shown \cup dropped \/ Nested[f] \in unborn

\* The queues have nothing twice.
QueuesFit ==
    /\ queued \in Seq(Word) /\ held \in Seq(Note) /\ channel \in Seq(Note) /\ blocked \in Seq(Note)
    /\ IsInjective(queued) /\ IsInjective(held) /\ IsInjective(channel) /\ IsInjective(blocked)

\* Every word is in one place.
Routed == {r.note : r \in routed}
Homes == [unsent |-> unsent, dropped |-> dropped, shown |-> shown, unborn |-> unborn, routed |-> Routed,
          queued |-> Range(queued), pending |-> Range(pending), held |-> Range(held),
          channel |-> Range(channel), blocked |-> Range(blocked), decided |-> Range(Decided)]
Home == {"unsent", "dropped", "shown", "unborn", "routed", "queued", "pending", "held", "channel",
         "blocked", "decided"}
Apart(h) ==
    /\ \A w \in Word : \E i \in Home : w \in h[i]
    /\ \A i \in Home : h[i] \subseteq Word
    /\ \A i, j \in Home : i # j => h[i] \cap h[j] = {}
PlacesFit == Apart(Homes)

IInv ==
    /\ PhaseFits /\ FlagsFit /\ TaskFits /\ DecisionsFit /\ SteersFit /\ LogFits /\ NestedFits
    /\ QueuesFit /\ PlacesFit

-----------------------------------------------------------------------------
(* What the words are. *)

\* A result is a word, a message is not a result, and Nested tells results apart.
LEMMA WordsAre ==
    /\ Message \subseteq Word /\ Note \subseteq Word /\ Own \subseteq Note /\ Foreign \subseteq Note
    /\ Message \cap Note = {} /\ Own \cap Foreign = {}
    /\ Backlog \subseteq Note /\ IsFiniteSet(Backlog)
    /\ \A f \in Foreign : Nested[f] \in Own /\ Nested[f] \notin Backlog
    /\ \A f, g \in Foreign : Nested[f] = Nested[g] => f = g
<1>1. /\ Message \subseteq Word /\ Note \subseteq Word /\ Own \subseteq Note /\ Foreign \subseteq Note
      /\ Message \cap Note = {} /\ Own \cap Foreign = {} /\ Backlog \subseteq Note /\ IsFiniteSet(Backlog)
  BY WordsAssumption DEF Word, Note
<1>2. Nested \in [Foreign -> Own] /\ IsInjective(Nested) /\ Range(Nested) \cap Backlog = {}
  BY WordsAssumption
<1>3. \A f \in Foreign : Nested[f] \in Own /\ Nested[f] \in Range(Nested)
  BY <1>2 DEF Range
<1>4. \A f, g \in Foreign : Nested[f] = Nested[g] => f = g
  BY <1>2 DEF IsInjective
<1> QED BY <1>1, <1>2, <1>3, <1>4

\* A sequence of results is one of words.
LEMMA NotesAreWords ==
    ASSUME NEW s \in Seq(Note)
    PROVE  s \in Seq(Word)
BY WordsAre, SeqMonotonic

\* The slot when it is idle.
LEMMA EmptyIs ==
    /\ Empty \in TaskType /\ Empty.kind = "none" /\ Empty.at = "none" /\ Empty.end = "none"
    /\ Empty.prompt = <<>> /\ IsInjective(Empty.prompt) /\ Range(Empty.prompt) = {}
<1>1. <<>> \in Seq(Word) /\ IsInjective(<<>>) /\ Range(<<>>) = {}
  BY Short
<1> QED BY <1>1 DEF Empty, TaskType, Outcomes

\* The inductive invariant has the types.
LEMMA TypesHold ==
    ASSUME IInv
    PROVE  TypeOK
<1>1. stage \in Stages /\ goal \in 0..MaxRounds \cup {NoGoal} /\ orphans \in Nat /\ keys \in 0..MaxKeys
  BY DEF IInv, PhaseFits
<1>2. intents \in Seq([do : {"start", "send", "resume", "round", "ungoal"}, words : Seq(Word)])
  <2>1. CASE intents = <<>>
    BY <2>1, EmptySeq
  <2>2. CASE \E i \in Decision : intents = <<i>>
    BY <2>2, Short DEF Decision
  <2> QED BY <2>1, <2>2 DEF IInv, DecisionsFit
<1>3. /\ task \in [kind : {"none", "turn", "compaction"}, prompt : Seq(Word), cancelled : BOOLEAN,
                   at : {"none", "starting", "live", "closed", "done"}, end : Outcomes]
      /\ (task.kind = "none") = (task = Empty)
  <2>1. task \in TaskType /\ (task.kind = "none" => task = Empty)
    BY DEF IInv, TaskFits
  <2>2. (task.kind = "none") <=> (task = Empty)
    BY <2>1, EmptyIs
  <2>3. (task.kind = "none") = (task = Empty)
    BY <2>2
  <2> QED BY <2>1, <2>3 DEF TaskType
<1>4. {inbox, events, log, queued, pending} \subseteq Seq(Word)
  BY DEF IInv, SteersFit, LogFits, QueuesFit
<1>5. {held, channel, blocked} \subseteq Seq(Note)
  BY DEF IInv, QueuesFit
<1>6. routed \subseteq [note : Foreign, end : {"none", "delivered", "propagate", "hold", "failed"}]
  BY DEF IInv, NestedFits
<1>7. {paused, engaged, gate, seen, modal, draft, retry, compact, fired, stopped, due} \subseteq BOOLEAN
  BY DEF IInv, FlagsFit
<1>8. {unsent, dropped, shown, unborn} \subseteq SUBSET Word
  <2>1. \A i \in Home : Homes[i] \subseteq Word
    BY DEF IInv, PlacesFit, Apart
  <2> QED BY <2>1 DEF Homes, Home
<1> QED BY <1>1, <1>2, <1>3, <1>4, <1>5, <1>6, <1>7, <1>8 DEF TypeOK

-----------------------------------------------------------------------------
(* The places of the words. *)

\* What the places are called.
LEMMA HomesAre ==
    /\ Homes["unsent"] = unsent /\ Homes["dropped"] = dropped /\ Homes["shown"] = shown
    /\ Homes["unborn"] = unborn /\ Homes["routed"] = Routed /\ Homes["queued"] = Range(queued)
    /\ Homes["pending"] = Range(pending) /\ Homes["held"] = Range(held)
    /\ Homes["channel"] = Range(channel) /\ Homes["blocked"] = Range(blocked)
    /\ Homes["decided"] = Range(Decided)
BY DEF Homes

\* Words that go from one place to another stay apart from all others.
LEMMA Moves ==
    ASSUME NEW h, NEW g, Apart(h), NEW i \in Home, NEW j \in Home, i # j,
           NEW M, M \subseteq h[i], g[i] = h[i] \ M, g[j] = h[j] \cup M,
           \A k \in Home : k \notin {i, j} => g[k] = h[k]
    PROVE  Apart(g)
<1>1. \A w \in Word : \E k \in Home : w \in g[k]
  <2>1. SUFFICES ASSUME NEW w \in Word PROVE \E k \in Home : w \in g[k]
    OBVIOUS
  <2>2. PICK k \in Home : w \in h[k]
    BY DEF Apart
  <2>3. w \in g[k] \/ w \in g[j]
    BY <2>2
  <2> QED BY <2>3
<1>2. \A k \in Home : g[k] \subseteq Word
  BY DEF Apart
<1>3. ASSUME NEW k \in Home, NEW l \in Home, k # l
      PROVE  g[k] \cap g[l] = {}
  <2>1. SUFFICES ASSUME NEW w, w \in g[k], w \in g[l] PROVE FALSE
    OBVIOUS
  <2>2. \A p, q \in Home : w \in h[p] /\ w \in h[q] => p = q
    BY DEF Apart
  <2>3. CASE w \in M
    <3>1. w \in h[i] /\ w \notin g[i]
      BY <2>3
    <3>2. k = j
      BY <2>1, <2>2, <3>1
    <3>3. l = j
      BY <2>1, <2>2, <3>1
    <3> QED BY <3>2, <3>3, <1>3
  <2>4. CASE w \notin M
    <3>1. w \in h[k]
      BY <2>1, <2>4
    <3>2. w \in h[l]
      BY <2>1, <2>4
    <3> QED BY <3>1, <3>2, <2>2, <1>3
  <2> QED BY <2>3, <2>4
<1> QED BY <1>1, <1>2, <1>3 DEF Apart

\* What is apart, spelled out where two places meet.
LEMMA ApartAre ==
    ASSUME PlacesFit
    PROVE  /\ unsent \cup dropped \cup shown \cup unborn \cup Routed \subseteq Word
           /\ \A i, j \in Home : i # j => Homes[i] \cap Homes[j] = {}
BY HomesAre DEF PlacesFit, Apart, Home

-----------------------------------------------------------------------------
(* A part of the invariant holds on while its variables stay.              *)

\* A step that leaves the stage, the goal and the counters alone.
LEMMA PhaseStays ==
    ASSUME PhaseFits, UNCHANGED <<stage, goal, keys, orphans>>
    PROVE  PhaseFits'
BY DEF PhaseFits

\* A step that touches no flag.
LEMMA FlagsStay ==
    ASSUME FlagsFit, UNCHANGED <<pauses, modal, draft, retry, compact, fired, duties>>
    PROVE  FlagsFit'
BY DEF FlagsFit, pauses, duties

\* A step that leaves the slot and the steers alone.
LEMMA TaskStays ==
    ASSUME TaskFits, UNCHANGED <<task, steers>>
    PROVE  TaskFits'
BY DEF TaskFits, steers

\* A step that leaves alone what is decided and what it was decided of.
LEMMA DecisionsStay ==
    ASSUME DecisionsFit, UNCHANGED <<stage, intents, task, queued, goal, due, gate>>
    PROVE  DecisionsFit'
BY DEF DecisionsFit, DecisionFits

\* A step that touches no steer.
LEMMA SteersStay ==
    ASSUME SteersFit, UNCHANGED steers
    PROVE  SteersFit'
BY DEF SteersFit, steers

\* A step that says nothing and shows nothing.
LEMMA LogStays ==
    ASSUME LogFits, UNCHANGED <<log, shown, events, task>>
    PROVE  LogFits'
BY DEF LogFits

\* A step that leaves the deliveries and what they lead to alone.
LEMMA NestedStay ==
    ASSUME NestedFits, UNCHANGED <<routed, shown, dropped, unborn>>
    PROVE  NestedFits'
BY DEF NestedFits

\* A step that touches no queue.
LEMMA QueuesStay ==
    ASSUME QueuesFit, UNCHANGED <<queued, held, channel, blocked>>
    PROVE  QueuesFit'
BY DEF QueuesFit

\* A step that moves no word.
LEMMA PlacesStay ==
    ASSUME PlacesFit, UNCHANGED <<words, routed, queued, pending, held, channel, blocked, intents>>
    PROVE  PlacesFit'
BY DEF PlacesFit, Homes, Decided, Routed, words

\* Nothing at all happens.
LEMMA AllStays ==
    ASSUME IInv, UNCHANGED vars
    PROVE  IInv'
<1>1. /\ UNCHANGED <<stage, intents, task, steers, log, queued, mail, pauses, flags, words,
                     duties, orphans, keys>>
  BY DEF vars
<1>2. /\ UNCHANGED <<held, channel, blocked, routed>> /\ UNCHANGED <<modal, draft, retry, goal, compact, fired>>
      /\ UNCHANGED <<shown, dropped, unborn>> /\ UNCHANGED <<inbox, events, pending>> /\ UNCHANGED <<due, gate>>
  BY <1>1 DEF mail, flags, words, steers, duties, pauses
<1>3. PhaseFits' /\ FlagsFit' /\ TaskFits' /\ DecisionsFit'
  BY <1>1, <1>2, PhaseStays, FlagsStay, TaskStays, DecisionsStay DEF IInv
<1>4. SteersFit' /\ LogFits' /\ NestedFits' /\ QueuesFit' /\ PlacesFit'
  BY <1>1, <1>2, SteersStay, LogStays, NestedStay, QueuesStay, PlacesStay DEF IInv
<1> QED BY <1>3, <1>4 DEF IInv

\* With nothing decided, no message promised the slot and no result let in, the rest
\* may be as it likes.
LEMMA NothingDecided ==
    ASSUME intents' = <<>>, due' = FALSE, gate' /\ stage' = "mail" => task' = Empty
    PROVE  DecisionsFit'
BY DEF DecisionsFit

\* What runs in the slot, and what is not decided meanwhile.
LEMMA Occupied ==
    ASSUME IInv, task.kind # "none"
    PROVE  intents = <<>> /\ due = FALSE /\ ~(gate /\ stage = "mail")
<1>1. task # Empty
  BY EmptyIs
<1>2. intents = <<>>
  BY <1>1 DEF IInv, DecisionsFit, DecisionFits
<1>3. due \in BOOLEAN /\ ~due
  BY <1>2 DEF IInv, DecisionsFit, FlagsFit
<1> QED BY <1>1, <1>2, <1>3 DEF IInv, DecisionsFit

-----------------------------------------------------------------------------
(* The operation in the slot. *)

\* The prompt was shown and not yet said.
LEMMA TurnTakesThePromptFits ==
    ASSUME IInv, TurnTakesThePrompt
    PROVE  IInv'
<1>1. /\ task.kind = "turn" /\ task.at = "starting" /\ task' = [task EXCEPT !.at = "live"]
      /\ log' = log \o task.prompt
      /\ UNCHANGED <<stage, intents, steers, queued, mail, pauses, flags, words, duties, orphans, keys>>
  BY DEF TurnTakesThePrompt
<1>2. /\ UNCHANGED <<held, channel, blocked, routed>> /\ UNCHANGED <<modal, draft, retry, goal, compact, fired>>
      /\ UNCHANGED <<shown, dropped, unborn>> /\ UNCHANGED <<inbox, events, pending>> /\ UNCHANGED <<due, gate>>
  BY <1>1 DEF mail, flags, words, steers, duties, pauses
<1>3. task \in TaskType /\ task' \in TaskType /\ task'.kind = "turn" /\ task'.at = "live" /\ task'.prompt = task.prompt
  BY <1>1 DEF IInv, TaskFits, TaskType
<1>4. TaskFits'
  BY <1>3 DEF TaskFits
<1>5. DecisionsFit'
  BY <1>1, <1>2, Occupied, NothingDecided
<1>6. LogFits'
  <2>1. /\ log \in Seq(Word) /\ IsInjective(log) /\ Range(log) \subseteq shown \cup Range(events)
        /\ task.prompt \in Seq(Word) /\ IsInjective(task.prompt) /\ Range(task.prompt) \subseteq shown \ Range(log)
    BY <1>1, <1>3 DEF IInv, LogFits, TaskType
  <2>2. log' \in Seq(Word) /\ IsInjective(log') /\ Range(log') = Range(log) \cup Range(task.prompt)
    BY <1>1, <2>1, Joined
  <2> QED BY <1>2, <1>3, <2>1, <2>2 DEF LogFits
<1>7. PhaseFits' /\ FlagsFit' /\ SteersFit' /\ NestedFits' /\ QueuesFit' /\ PlacesFit'
  BY <1>1, <1>2, PhaseStays, FlagsStay, SteersStay, NestedStay, QueuesStay, PlacesStay DEF IInv
<1> QED BY <1>4, <1>5, <1>6, <1>7 DEF IInv

\* A steer is said and announced at once, and was neither before.
LEMMA TurnTakesSteersFits ==
    ASSUME IInv, TurnTakesSteers
    PROVE  IInv'
<1>1. /\ task.kind = "turn" /\ task.at = "live"
      /\ log' = log \o inbox /\ events' = events \o inbox /\ inbox' = <<>>
      /\ UNCHANGED <<stage, intents, task, pending, queued, mail, pauses, flags, words, duties, orphans, keys>>
  BY DEF TurnTakesSteers
<1>2. /\ UNCHANGED <<held, channel, blocked, routed>> /\ UNCHANGED <<modal, draft, retry, goal, compact, fired>>
      /\ UNCHANGED <<shown, dropped, unborn>> /\ UNCHANGED <<due, gate>>
  BY <1>1 DEF mail, flags, words, duties, pauses
<1>3. /\ inbox \in Seq(Word) /\ events \in Seq(Word) /\ pending \in Seq(Word)
      /\ Range(events) \subseteq Range(pending) /\ Range(inbox) \subseteq Range(pending)
      /\ Range(events) \cap Range(inbox) = {}
      /\ IsInjective(events) /\ IsInjective(inbox) /\ IsInjective(pending)
      /\ log \in Seq(Word) /\ IsInjective(log) /\ Range(log) \subseteq shown \cup Range(events)
      /\ IsInjective(task.prompt)
  BY DEF IInv, SteersFit, LogFits
<1>4. /\ events' \in Seq(Word) /\ IsInjective(events') /\ Range(events') = Range(events) \cup Range(inbox)
  BY <1>1, <1>3, Joined
<1>5. inbox' \in Seq(Word) /\ IsInjective(inbox') /\ Range(inbox') = {}
  BY <1>1, Short
<1>6. Range(pending) \cap shown = {}
  BY ApartAre, HomesAre DEF IInv, Home
<1>7. log' \in Seq(Word) /\ IsInjective(log') /\ Range(log') = Range(log) \cup Range(inbox)
  <2>1. Range(log) \cap Range(inbox) = {}
    BY <1>3, <1>6
  <2> QED BY <1>1, <1>3, <2>1, Joined
<1>8. TaskFits'
  BY <1>1 DEF IInv, TaskFits
<1>9. SteersFit'
  BY <1>1, <1>3, <1>4, <1>5 DEF SteersFit
<1>10. LogFits'
  BY <1>1, <1>2, <1>3, <1>4, <1>7 DEF LogFits
<1>11. PhaseFits' /\ FlagsFit' /\ DecisionsFit' /\ NestedFits' /\ QueuesFit' /\ PlacesFit'
  BY <1>1, <1>2, PhaseStays, FlagsStay, DecisionsStay, NestedStay, QueuesStay, PlacesStay DEF IInv
<1> QED BY <1>8, <1>9, <1>10, <1>11 DEF IInv

\* A change of the slot that leaves the prompt as it is: the turn or the compaction
\* goes on, is told to stop, or ends.
LEMMA SlotGoesOn ==
    ASSUME IInv, task.kind # "none", task' \in TaskType, task'.kind = task.kind,
           task'.prompt = task.prompt, task'.at # "none", task'.at = "starting" => task.at = "starting",
           task.kind = "compaction" => task'.at \in {"starting", "done"},
           UNCHANGED <<intents, gate, due, stage, log, shown, events, pending>>,
           task.kind # "turn" => inbox' = inbox
    PROVE  TaskFits' /\ DecisionsFit' /\ LogFits'
<1>1. TaskFits'
  BY DEF IInv, TaskFits
<1>2. DecisionsFit'
  BY Occupied, NothingDecided
<1>3. LogFits'
  BY DEF IInv, LogFits
<1> QED BY <1>1, <1>2, <1>3

\* What was in the channel is left in the pending list.
LEMMA TurnClosesFits ==
    ASSUME IInv, TurnCloses
    PROVE  IInv'
<1>1. /\ task.kind = "turn"
      /\ \E end \in Outcomes : task' = [task EXCEPT !.at = "closed", !.end = end]
      /\ inbox' = <<>>
      /\ UNCHANGED <<stage, intents, events, pending, log, queued, mail, pauses, flags, words, duties, orphans, keys>>
  BY DEF TurnCloses
<1>2. /\ UNCHANGED <<held, channel, blocked, routed>> /\ UNCHANGED <<modal, draft, retry, goal, compact, fired>>
      /\ UNCHANGED <<shown, dropped, unborn>> /\ UNCHANGED <<due, gate>>
  BY <1>1 DEF mail, flags, words, duties, pauses
<1>3. task \in TaskType /\ task' \in TaskType /\ task'.kind = "turn" /\ task'.at = "closed" /\ task'.prompt = task.prompt
  BY <1>1 DEF IInv, TaskFits, TaskType
<1>4. TaskFits' /\ DecisionsFit' /\ LogFits'
  BY <1>1, <1>2, <1>3, SlotGoesOn
<1>5. SteersFit'
  <2>1. inbox' \in Seq(Word) /\ IsInjective(inbox') /\ Range(inbox') = {}
    BY <1>1, Short
  <2> QED BY <1>1, <2>1 DEF IInv, SteersFit
<1>6. PhaseFits' /\ FlagsFit' /\ NestedFits' /\ QueuesFit' /\ PlacesFit'
  BY <1>1, <1>2, PhaseStays, FlagsStay, NestedStay, QueuesStay, PlacesStay DEF IInv
<1> QED BY <1>4, <1>5, <1>6 DEF IInv

\* The end of the task leaves what it did.
LEMMA SlotFinishesFits ==
    ASSUME IInv, TurnFinishes \/ CompactionFinishes
    PROVE  IInv'
<1>1. /\ \E end \in Outcomes : task' = [task EXCEPT !.at = "done", !.end = end]
      /\ UNCHANGED <<stage, intents, steers, log, queued, mail, pauses, flags, words, duties, orphans, keys>>
      /\ task.kind # "none" /\ task \in TaskType
  <2>1. task \in TaskType /\ (task.kind = "none" => task.at = "none")
    BY EmptyIs DEF IInv, TaskFits
  <2>2. CASE TurnFinishes
    <3>1. task' = [task EXCEPT !.at = "done"] /\ task.at = "closed"
      BY <2>2 DEF TurnFinishes
    <3>2. task' = [task EXCEPT !.at = "done", !.end = task.end] /\ task.end \in Outcomes
      BY <2>1, <3>1 DEF TaskType
    <3> QED BY <2>1, <2>2, <3>1, <3>2 DEF TurnFinishes
  <2>3. CASE CompactionFinishes
    BY <2>1, <2>3 DEF CompactionFinishes, Outcomes
  <2> QED BY <2>2, <2>3
<1>2. /\ UNCHANGED <<held, channel, blocked, routed>> /\ UNCHANGED <<modal, draft, retry, goal, compact, fired>>
      /\ UNCHANGED <<shown, dropped, unborn>> /\ UNCHANGED <<due, gate>> /\ UNCHANGED <<inbox, events, pending>>
  BY <1>1 DEF mail, flags, words, steers, duties, pauses
<1>3. task' \in TaskType /\ task'.kind = task.kind /\ task'.at = "done" /\ task'.prompt = task.prompt
  BY <1>1 DEF TaskType
<1>4. TaskFits' /\ DecisionsFit' /\ LogFits'
  BY <1>1, <1>2, <1>3, SlotGoesOn
<1>5. PhaseFits' /\ FlagsFit' /\ SteersFit' /\ NestedFits' /\ QueuesFit' /\ PlacesFit'
  BY <1>1, <1>2, PhaseStays, FlagsStay, SteersStay, NestedStay, QueuesStay, PlacesStay DEF IInv
<1> QED BY <1>4, <1>5 DEF IInv

\* The watchdog and Esc tell what runs to stop.
LEMMA StopsFit ==
    ASSUME IInv, task.kind # "none", Stops,
           UNCHANGED <<intents, gate, due, stage, log, shown, events, pending, inbox>>,
           UNCHANGED <<engaged, seen, modal, draft, retry, compact, fired>>
    PROVE  FlagsFit' /\ TaskFits' /\ DecisionsFit' /\ LogFits'
<1>1. FlagsFit'
  BY DEF IInv, FlagsFit, Stops
<1>2. task \in TaskType /\ task.at # "none" /\ (task.kind = "compaction" => task.at \in {"starting", "done"})
  BY DEF IInv, TaskFits
<1>3. task' \in TaskType /\ task'.kind = task.kind /\ task'.at = task.at /\ task'.prompt = task.prompt
  BY <1>2 DEF Stops, TaskType
<1> QED BY <1>1, <1>2, <1>3, SlotGoesOn

\* The watchdog's stop holds what is detached.
LEMMA StallAbortsFits ==
    ASSUME IInv, StallAborts
    PROVE  IInv'
<1>1. /\ task.kind # "none" /\ Stops
      /\ UNCHANGED <<stage, intents, steers, log, queued, mail, engaged, gate, seen, flags,
                     words, due, orphans, keys>>
  BY DEF StallAborts
<1>2. /\ UNCHANGED <<held, channel, blocked, routed>> /\ UNCHANGED <<modal, draft, retry, goal, compact, fired>>
      /\ UNCHANGED <<shown, dropped, unborn>> /\ UNCHANGED <<inbox, events, pending>>
  BY <1>1 DEF mail, flags, words, steers
<1>3. FlagsFit' /\ TaskFits' /\ DecisionsFit' /\ LogFits'
  BY <1>1, <1>2, StopsFit
<1>4. PhaseFits' /\ SteersFit' /\ NestedFits' /\ QueuesFit' /\ PlacesFit'
  BY <1>1, <1>2, PhaseStays, SteersStay, NestedStay, QueuesStay, PlacesStay DEF IInv
<1> QED BY <1>3, <1>4 DEF IInv

-----------------------------------------------------------------------------
(* The results. *)

\* The places are what they are made of.
LEMMA HomesBecome ==
    /\ Homes'["unsent"] = unsent' /\ Homes'["dropped"] = dropped' /\ Homes'["shown"] = shown'
    /\ Homes'["unborn"] = unborn' /\ Homes'["routed"] = Routed' /\ Homes'["queued"] = Range(queued')
    /\ Homes'["pending"] = Range(pending') /\ Homes'["held"] = Range(held')
    /\ Homes'["channel"] = Range(channel') /\ Homes'["blocked"] = Range(blocked')
    /\ Homes'["decided"] = Range(Decided')
BY DEF Homes

\* A result is born at the end of the channel.
LEMMA ResultArrivesFits ==
    ASSUME IInv, NEW n \in Note, ResultArrives(n)
    PROVE  IInv'
<1>1. /\ n \in unborn \ Backlog /\ \A f \in Foreign : Nested[f] # n
      /\ unborn' = unborn \ {n} /\ channel' = Append(channel, n)
      /\ UNCHANGED <<stage, intents, task, steers, log, queued, held, blocked, routed,
                     pauses, flags, unsent, dropped, shown, duties, orphans, keys>>
  BY DEF ResultArrives
<1>2. /\ UNCHANGED <<modal, draft, retry, goal, compact, fired>>
      /\ UNCHANGED <<due, gate>> /\ UNCHANGED <<inbox, events, pending>>
  BY <1>1 DEF flags, steers, duties, pauses
<1>3. /\ channel \in Seq(Note) /\ IsInjective(channel) /\ n \notin Range(channel)
  BY <1>1, ApartAre, HomesAre DEF IInv, QueuesFit, Home
<1>4. channel' \in Seq(Note) /\ IsInjective(channel') /\ Range(channel') = Range(channel) \cup {n}
  BY <1>1, <1>3, Appended
<1>5. QueuesFit'
  BY <1>1, <1>4 DEF IInv, QueuesFit
<1>6. NestedFits'
  BY <1>1 DEF IInv, NestedFits
<1>7. PlacesFit'
  <2>1. /\ Homes'["unborn"] = Homes["unborn"] \ {n} /\ Homes'["channel"] = Homes["channel"] \cup {n}
        /\ {n} \subseteq Homes["unborn"]
    BY <1>1, <1>4, HomesAre, HomesBecome
  <2>2. \A k \in Home : k \notin {"unborn", "channel"} => Homes'[k] = Homes[k]
    BY <1>1, <1>2, HomesAre, HomesBecome DEF Home, Decided, Routed
  <2>3. "unborn" \in Home /\ "channel" \in Home /\ Apart(Homes)
    BY DEF Home, IInv, PlacesFit
  <2> QED BY <2>1, <2>2, <2>3, Moves DEF PlacesFit
<1>8. PhaseFits' /\ FlagsFit' /\ TaskFits' /\ DecisionsFit' /\ SteersFit' /\ LogFits'
  BY <1>1, <1>2, PhaseStays, FlagsStay, TaskStays, DecisionsStay, SteersStay, LogStays DEF IInv
<1> QED BY <1>5, <1>6, <1>7, <1>8 DEF IInv

\* A delivery that ends is still the one delivery of its result.
LEMMA DeliveryEndsFits ==
    ASSUME IInv, NEW r \in routed, DeliveryEnds(r)
    PROVE  IInv'
<1>1. /\ \E end \in {"delivered", "propagate", "hold", "failed"} :
            routed' = (routed \ {r}) \cup {[r EXCEPT !.end = end]}
      /\ UNCHANGED <<stage, intents, task, steers, log, queued, held, channel, blocked,
                     pauses, flags, words, duties, orphans, keys>>
  BY DEF DeliveryEnds
<1>2. /\ UNCHANGED <<modal, draft, retry, goal, compact, fired>> /\ UNCHANGED <<shown, dropped, unborn>>
      /\ UNCHANGED <<due, gate>> /\ UNCHANGED <<inbox, events, pending>>
  BY <1>1 DEF flags, steers, duties, pauses, words
<1>3. PICK end \in {"delivered", "propagate", "hold", "failed"} :
          routed' = (routed \ {r}) \cup {[r EXCEPT !.end = end]}
  BY <1>1
<1>4. /\ r \in [note : Foreign, end : {"none", "delivered", "propagate", "hold", "failed"}]
      /\ \A s \in routed : s.note = r.note => s = r
  BY DEF IInv, NestedFits
<1>5. /\ [r EXCEPT !.end = end] \in [note : Foreign, end : {"none", "delivered", "propagate", "hold", "failed"}]
      /\ [r EXCEPT !.end = end].note = r.note
  BY <1>4
<1>6. NestedFits'
  BY <1>2, <1>3, <1>4, <1>5 DEF IInv, NestedFits
<1>7. Routed' = Routed
  BY <1>3, <1>5 DEF Routed
<1>8. PlacesFit'
  BY <1>1, <1>2, <1>7 DEF IInv, PlacesFit, Homes, Decided, words
<1>9. PhaseFits' /\ FlagsFit' /\ TaskFits' /\ DecisionsFit' /\ SteersFit' /\ LogFits' /\ QueuesFit'
  BY <1>1, <1>2, PhaseStays, FlagsStay, TaskStays, DecisionsStay, SteersStay, LogStays, QueuesStay DEF IInv
<1> QED BY <1>6, <1>8, <1>9 DEF IInv

\* The next result leaves the backlog or the channel for another place.
LEMMA TakesDoes ==
    ASSUME IInv, NEW n \in Note, Takes(n)
    PROVE  /\ stage = "mail" /\ intents = <<>> /\ due = FALSE /\ ~stopped /\ ~paused
           /\ held' \in Seq(Note) /\ IsInjective(held') /\ channel' \in Seq(Note) /\ IsInjective(channel')
           /\ n \notin shown \cup dropped \cup unborn \cup Routed \cup Range(pending) \cup Range(blocked)
           /\ \A j \in Home \ {"held", "channel"} :
                 /\ Homes'[j] = Homes[j] \cup {n}
                 /\ \A k \in Home : k \notin {"held", "channel", j} => Homes'[k] = Homes[k]
                 => PlacesFit'
<1>1. stage = "mail" /\ ~paused /\ held \o channel # <<>> /\ n = NextNote
  BY DEF Takes
<1>2. intents = <<>> /\ due = FALSE /\ ~stopped
  <2>1. intents = <<>> /\ ~due /\ due \in BOOLEAN
    BY <1>1 DEF IInv, DecisionsFit, DecisionFits, FlagsFit
  <2> QED BY <1>1, <2>1 DEF IInv, FlagsFit
<1>3. /\ held \in Seq(Note) /\ IsInjective(held) /\ channel \in Seq(Note) /\ IsInjective(channel)
  BY DEF IInv, QueuesFit
<1>4. \E from \in {"held", "channel"} :
          /\ n \in Homes[from]
          /\ held' \in Seq(Note) /\ IsInjective(held') /\ channel' \in Seq(Note) /\ IsInjective(channel')
          /\ Homes'[from] = Homes[from] \ {n}
          /\ \A k \in {"held", "channel"} : k # from => Homes'[k] = Homes[k]
  <2>1. CASE held # <<>>
    <3>1. n = Head(held) /\ held' = Tail(held) /\ channel' = channel
      BY <1>1, <2>1 DEF Takes, NextNote
    <3>2. /\ n \in Range(held) /\ held' \in Seq(Note) /\ IsInjective(held')
          /\ Range(held') = Range(held) \ {n}
      BY <1>3, <2>1, <3>1, Served
    <3> QED BY <1>3, <3>1, <3>2, HomesAre, HomesBecome
  <2>2. CASE held = <<>>
    <3>1. n = Head(channel) /\ channel' = Tail(channel) /\ held' = held
      BY <1>1, <2>2 DEF Takes, NextNote
    <3>2. channel # <<>>
      BY <1>1, <1>3, <2>2, ConcatEmptySeq
    <3>3. /\ n \in Range(channel) /\ channel' \in Seq(Note) /\ IsInjective(channel')
          /\ Range(channel') = Range(channel) \ {n}
      BY <1>3, <3>1, <3>2, Served
    <3> QED BY <1>3, <3>1, <3>3, HomesAre, HomesBecome
  <2> QED BY <2>1, <2>2
<1>5. PICK from \in {"held", "channel"} :
          /\ n \in Homes[from]
          /\ Homes'[from] = Homes[from] \ {n}
          /\ \A k \in {"held", "channel"} : k # from => Homes'[k] = Homes[k]
  BY <1>4
<1>6. n \notin shown \cup dropped \cup unborn \cup Routed \cup Range(pending) \cup Range(blocked)
  <2>1. \A k \in Home : k # from => n \notin Homes[k]
    BY <1>5, ApartAre DEF IInv, Home
  <2> QED BY <2>1, <1>5, HomesAre DEF Home
<1>7. ASSUME NEW j \in Home \ {"held", "channel"}, Homes'[j] = Homes[j] \cup {n},
             \A k \in Home : k \notin {"held", "channel", j} => Homes'[k] = Homes[k]
      PROVE  PlacesFit'
  <2>1. /\ from \in Home /\ j \in Home /\ from # j /\ Apart(Homes) /\ {n} \subseteq Homes[from]
        /\ \A k \in Home : k \notin {from, j} => Homes'[k] = Homes[k]
    BY <1>5, <1>7 DEF Home, IInv, PlacesFit
  <2> QED BY <1>5, <1>7, <2>1, Moves DEF PlacesFit
<1> QED BY <1>1, <1>2, <1>4, <1>6, <1>7

\* A result for another session leaves the queue for its delivery.
LEMMA RoutesFits ==
    ASSUME IInv, NEW n \in Note, Routes(n)
    PROVE  IInv'
<1>1. /\ Takes(n) /\ n \in Foreign
      /\ routed' = routed \cup {[note |-> n, end |-> "none"]}
      /\ UNCHANGED <<stage, intents, task, steers, log, queued, blocked, pauses, flags, words, duties, orphans, keys>>
  BY DEF Routes
<1>2. /\ UNCHANGED <<modal, draft, retry, goal, compact, fired>> /\ UNCHANGED <<unsent, dropped, shown, unborn>>
      /\ UNCHANGED <<due, gate>> /\ UNCHANGED <<inbox, events, pending>>
  BY <1>1 DEF flags, steers, duties, pauses, words
<1>3. Routed' = Routed \cup {n} /\ n \notin Routed
  <2>1. n \notin Routed
    BY <1>1, TakesDoes
  <2>2. Routed' = Routed \cup {n}
    <3> DEFINE r == [note |-> n, end |-> "none"]
    <3>1. routed' = routed \cup {r} /\ r.note = n
      BY <1>1
    <3> HIDE DEF r
    <3> QED BY <3>1 DEF Routed
  <2> QED BY <2>1, <2>2
<1>4. QueuesFit'
  BY <1>1, TakesDoes DEF IInv, QueuesFit
<1>5. NestedFits'
  <2>1. \A r \in routed : r.note # n
    BY <1>3 DEF Routed
  <2> QED BY <1>1, <1>2, <2>1 DEF IInv, NestedFits
<1>6. PlacesFit'
  <2>1. "routed" \in Home \ {"held", "channel"} /\ Homes'["routed"] = Homes["routed"] \cup {n}
    BY <1>3, HomesAre, HomesBecome DEF Home
  <2>2. \A k \in Home : k \notin {"held", "channel", "routed"} => Homes'[k] = Homes[k]
    BY <1>1, <1>2, HomesAre, HomesBecome DEF Home, Decided
  <2> QED BY <1>1, <2>1, <2>2, TakesDoes
<1>7. PhaseFits' /\ FlagsFit' /\ TaskFits' /\ DecisionsFit' /\ SteersFit' /\ LogFits'
  BY <1>1, <1>2, PhaseStays, FlagsStay, TaskStays, DecisionsStay, SteersStay, LogStays DEF IInv
<1> QED BY <1>4, <1>5, <1>6, <1>7 DEF IInv

\* A result goes into the turn, or is set aside.
LEMMA SteersNotificationFits ==
    ASSUME IInv, NEW n \in Note, SteersNotification(n)
    PROVE  IInv'
<1>1. /\ Takes(n)
      /\ \/ /\ Steerable /\ inbox' = Append(inbox, n) /\ pending' = Append(pending, n)
            /\ UNCHANGED blocked
         \/ blocked' = Append(blocked, n) /\ UNCHANGED <<inbox, pending>>
      /\ UNCHANGED <<stage, intents, task, events, log, queued, routed, pauses, flags, words, duties, orphans, keys>>
  BY DEF SteersNotification
<1>2. /\ UNCHANGED <<modal, draft, retry, goal, compact, fired>> /\ UNCHANGED <<unsent, dropped, shown, unborn>>
      /\ UNCHANGED <<due, gate>>
  BY <1>1 DEF flags, duties, pauses, words
<1>3. /\ n \notin Range(pending) /\ n \notin Range(blocked)
      /\ held' \in Seq(Note) /\ IsInjective(held') /\ channel' \in Seq(Note) /\ IsInjective(channel')
  BY <1>1, TakesDoes
<1>4. n \in Word
  BY WordsAre
<1>5. PhaseFits' /\ FlagsFit' /\ DecisionsFit' /\ LogFits' /\ NestedFits'
  BY <1>1, <1>2, PhaseStays, FlagsStay, DecisionsStay, LogStays, NestedStay DEF IInv
<1>6. CASE /\ Steerable /\ inbox' = Append(inbox, n) /\ pending' = Append(pending, n)
           /\ UNCHANGED blocked
  <2>1. TaskFits'
    BY <1>1, <1>6 DEF IInv, TaskFits, Steerable
  <2>2. /\ inbox \in Seq(Word) /\ pending \in Seq(Word) /\ events \in Seq(Word)
        /\ IsInjective(inbox) /\ IsInjective(pending) /\ IsInjective(events)
        /\ Range(events) \subseteq Range(pending) /\ Range(inbox) \subseteq Range(pending)
        /\ Range(events) \cap Range(inbox) = {}
    BY DEF IInv, SteersFit
  <2>3. inbox' \in Seq(Word) /\ IsInjective(inbox') /\ Range(inbox') = Range(inbox) \cup {n}
    BY <1>3, <1>4, <1>6, <2>2, Appended
  <2>4. pending' \in Seq(Word) /\ IsInjective(pending') /\ Range(pending') = Range(pending) \cup {n}
    BY <1>3, <1>4, <1>6, <2>2, Appended
  <2>5. SteersFit'
    BY <1>1, <1>3, <2>2, <2>3, <2>4 DEF SteersFit
  <2>6. QueuesFit'
    BY <1>1, <1>3, <1>6 DEF IInv, QueuesFit
  <2>7. PlacesFit'
    <3>1. "pending" \in Home \ {"held", "channel"} /\ Homes'["pending"] = Homes["pending"] \cup {n}
      BY <2>4, HomesAre, HomesBecome DEF Home
    <3>2. \A k \in Home : k \notin {"held", "channel", "pending"} => Homes'[k] = Homes[k]
      BY <1>1, <1>2, <1>6, HomesAre, HomesBecome DEF Home, Decided, Routed
    <3> QED BY <1>1, <3>1, <3>2, TakesDoes
  <2> QED BY <1>5, <2>1, <2>5, <2>6, <2>7 DEF IInv
<1>7. CASE blocked' = Append(blocked, n) /\ UNCHANGED <<inbox, pending>>
  <2>1. TaskFits' /\ SteersFit'
    BY <1>1, <1>7, TaskStays, SteersStay DEF IInv, steers
  <2>2. blocked' \in Seq(Note) /\ IsInjective(blocked') /\ Range(blocked') = Range(blocked) \cup {n}
    BY <1>3, <1>7, Appended DEF IInv, QueuesFit
  <2>3. QueuesFit'
    BY <1>1, <1>3, <2>2 DEF IInv, QueuesFit
  <2>4. PlacesFit'
    <3>1. "blocked" \in Home \ {"held", "channel"} /\ Homes'["blocked"] = Homes["blocked"] \cup {n}
      BY <2>2, HomesAre, HomesBecome DEF Home
    <3>2. \A k \in Home : k \notin {"held", "channel", "blocked"} => Homes'[k] = Homes[k]
      BY <1>1, <1>2, <1>7, HomesAre, HomesBecome DEF Home, Decided, Routed
    <3> QED BY <1>1, <3>1, <3>2, TakesDoes
  <2> QED BY <1>5, <2>1, <2>3, <2>4 DEF IInv
<1> QED BY <1>1, <1>6, <1>7

-----------------------------------------------------------------------------
(* Turns and compactions that start. *)

\* An idle slot has no steers, and the log has only what was shown.
LEMMA Idle ==
    ASSUME IInv, task = Empty
    PROVE  /\ inbox = <<>> /\ events = <<>> /\ pending = <<>> /\ ~Running
           /\ log \in Seq(Word) /\ IsInjective(log) /\ Range(log) \subseteq shown
<1>1. task.kind = "none"
  BY EmptyIs
<1>2. events = <<>> /\ inbox = <<>> /\ pending = <<>>
  BY <1>1 DEF IInv, TaskFits
<1>3. Range(events) = {}
  BY <1>2, Short
<1> QED BY <1>1, <1>2, <1>3 DEF IInv, LogFits, Running

\* A start in an idle slot with words that were never shown before.
LEMMA SpawnsDo ==
    ASSUME IInv, task = Empty, NEW kind \in {"turn", "compaction"}, NEW prompt \in Seq(Word),
           IsInjective(prompt), Range(prompt) \cap shown = {}, Range(prompt) \subseteq shown',
           shown \subseteq shown', Spawns(kind, prompt), UNCHANGED <<log, pending>>, intents' = <<>>,
           ~(gate' /\ stage' = "mail")
    PROVE  TaskFits' /\ DecisionsFit' /\ SteersFit' /\ LogFits' /\ orphans' = orphans
<1>1. /\ inbox = <<>> /\ events = <<>> /\ pending = <<>> /\ ~Running
      /\ log \in Seq(Word) /\ IsInjective(log) /\ Range(log) \subseteq shown
  BY Idle
<1>2. /\ task' = [Empty EXCEPT !.kind = kind, !.prompt = prompt, !.at = "starting"]
      /\ orphans' = orphans + (IF Running THEN 1 ELSE 0)
      /\ inbox' = <<>> /\ events' = <<>> /\ due' = FALSE
  BY DEF Spawns
<1>3. orphans' = orphans
  BY <1>1, <1>2 DEF IInv, PhaseFits
<1>4. /\ task' \in TaskType /\ task'.kind = kind /\ task'.prompt = prompt /\ task'.at = "starting"
  BY <1>2, EmptyIs DEF TaskType
<1>5. TaskFits'
  BY <1>1, <1>2, <1>4 DEF TaskFits
<1>6. DecisionsFit'
  BY <1>2, NothingDecided
<1>7. /\ <<>> \in Seq(Word) /\ Range(<<>>) = {} /\ IsInjective(<<>>)
  BY Short
<1>8. SteersFit'
  BY <1>1, <1>2, <1>7 DEF SteersFit
<1>9. LogFits'
  BY <1>1, <1>2, <1>4 DEF LogFits
<1> QED BY <1>3, <1>5, <1>6, <1>8, <1>9

\* The gate is open only before an idle slot.
LEMMA StartsNotificationTurnFits ==
    ASSUME IInv, NEW n \in Note, StartsNotificationTurn(n)
    PROVE  IInv'
<1>1. /\ Takes(n) /\ gate
      /\ gate' = FALSE /\ shown' = shown \cup {n} /\ retry' = FALSE
      /\ Spawns("turn", <<n>>)
      /\ UNCHANGED <<stage, intents, log, queued, blocked, routed, pending, paused, engaged, seen,
                     modal, draft, goal, compact, fired, unsent, dropped, unborn, stopped, keys>>
  BY DEF StartsNotificationTurn
<1>2. /\ stage = "mail" /\ intents = <<>>
      /\ held' \in Seq(Note) /\ IsInjective(held') /\ channel' \in Seq(Note) /\ IsInjective(channel')
      /\ n \notin shown
  BY <1>1, TakesDoes
<1>3. task = Empty
  BY <1>1, <1>2 DEF IInv, DecisionsFit
<1>4. n \in Word /\ <<n>> \in Seq(Word) /\ IsInjective(<<n>>) /\ Range(<<n>>) = {n}
  BY WordsAre, Short
<1>5. TaskFits' /\ DecisionsFit' /\ SteersFit' /\ LogFits' /\ orphans' = orphans
  BY <1>1, <1>2, <1>3, <1>4, SpawnsDo
<1>6. PhaseFits'
  BY <1>1, <1>5 DEF IInv, PhaseFits
<1>7. FlagsFit'
  BY <1>1 DEF IInv, FlagsFit, Spawns
<1>8. NestedFits'
  BY <1>1 DEF IInv, NestedFits
<1>9. QueuesFit'
  BY <1>1, <1>2 DEF IInv, QueuesFit
<1>10. PlacesFit'
  <2>1. "shown" \in Home \ {"held", "channel"} /\ Homes'["shown"] = Homes["shown"] \cup {n}
    BY <1>1, HomesAre, HomesBecome DEF Home
  <2>2. \A k \in Home : k \notin {"held", "channel", "shown"} => Homes'[k] = Homes[k]
    BY <1>1, HomesAre, HomesBecome DEF Home, Decided, Routed
  <2> QED BY <1>1, <2>1, <2>2, TakesDoes
<1> QED BY <1>5, <1>6, <1>7, <1>8, <1>9, <1>10 DEF IInv

\* A compaction starts in an idle slot with nothing decided.
LEMMA CompactsFits ==
    ASSUME IInv, Compacts
    PROVE  IInv'
<1>1. /\ stage = "drain" /\ intents = <<>> /\ ~Running
      /\ Spawns("compaction", <<>>) /\ compact' = FALSE
      /\ gate' = FALSE /\ stage' = "mail" /\ fired' \in {fired, TRUE}
      /\ UNCHANGED <<intents, log, queued, mail, pending, paused, engaged, seen, modal, draft, retry, goal,
                     words, stopped, keys>>
  BY DEF Compacts, Drained
<1>2. UNCHANGED <<held, channel, blocked, routed>> /\ UNCHANGED <<unsent, dropped, shown, unborn>>
  BY <1>1 DEF mail, words
<1>3. task = Empty
  BY <1>1 DEF IInv, TaskFits, Running
<1>4. <<>> \in Seq(Word) /\ IsInjective(<<>>) /\ Range(<<>>) = {}
  BY Short
<1>5. TaskFits' /\ DecisionsFit' /\ SteersFit' /\ LogFits' /\ orphans' = orphans
  BY <1>1, <1>2, <1>3, <1>4, SpawnsDo
<1>6. PhaseFits'
  BY <1>1, <1>5 DEF IInv, PhaseFits, Stages
<1>7. FlagsFit'
  BY <1>1 DEF IInv, FlagsFit, Spawns
<1>8. NestedFits' /\ QueuesFit' /\ PlacesFit'
  BY <1>1, <1>2, NestedStay, QueuesStay, PlacesStay DEF IInv
<1> QED BY <1>5, <1>6, <1>7, <1>8 DEF IInv

\* The gate opens before an idle slot with nothing decided.
LEMMA OpensTheGateFits ==
    ASSUME IInv, OpensTheGate
    PROVE  IInv'
<1>1. /\ intents = <<>> /\ gate' = MayStart /\ stage' = "mail"
      /\ UNCHANGED <<intents, task, steers, log, queued, mail, paused, engaged, seen, flags, words,
                     duties, orphans, keys>>
  BY DEF OpensTheGate, Drained
<1>2. /\ UNCHANGED <<held, channel, blocked, routed>> /\ UNCHANGED <<modal, draft, retry, goal, compact, fired>>
      /\ UNCHANGED <<shown, dropped, unborn>> /\ UNCHANGED <<due, stopped>> /\ UNCHANGED <<inbox, events, pending>>
  BY <1>1 DEF mail, flags, words, steers, duties
<1>3. PhaseFits'
  BY <1>1, <1>2 DEF IInv, PhaseFits, Stages
<1>4. FlagsFit'
  BY <1>1, <1>2 DEF IInv, FlagsFit, MayStart
<1>5. DecisionsFit'
  <2>1. due = FALSE
    BY <1>1 DEF IInv, DecisionsFit, FlagsFit
  <2>2. gate' => task = Empty
    BY <1>1 DEF MayStart, Running, IInv, TaskFits
  <2> QED BY <1>1, <1>2, <2>1, <2>2, NothingDecided
<1>6. TaskFits' /\ SteersFit' /\ LogFits' /\ NestedFits' /\ QueuesFit' /\ PlacesFit'
  BY <1>1, <1>2, TaskStays, SteersStay, LogStays, NestedStay, QueuesStay, PlacesStay DEF IInv
<1> QED BY <1>3, <1>4, <1>5, <1>6 DEF IInv

\* What was set aside goes in front, and the channel behind: nothing is lost or doubled.
LEMMA PresentsFits ==
    ASSUME IInv, Presents
    PROVE  IInv'
<1> DEFINE last == IF paused THEN channel ELSE <<>>
<1>1. /\ stage = "mail" /\ stage' = "keys" /\ blocked' = <<>>
      /\ held' = blocked \o held \o last
      /\ channel' = IF paused THEN <<>> ELSE channel
      /\ seen' \in BOOLEAN
      /\ UNCHANGED <<intents, task, steers, log, queued, routed, paused, engaged, gate, flags, words,
                     duties, orphans, keys>>
  BY DEF Presents
<1>2. /\ UNCHANGED <<modal, draft, retry, goal, compact, fired>> /\ UNCHANGED <<unsent, dropped, shown, unborn>>
      /\ UNCHANGED <<due, stopped>> /\ UNCHANGED <<inbox, events, pending>>
  BY <1>1 DEF flags, words, steers, duties
<1>3. intents = <<>> /\ due = FALSE
  <2>1. intents = <<>>
    BY <1>1 DEF IInv, DecisionsFit, DecisionFits
  <2> QED BY <2>1 DEF IInv, DecisionsFit, FlagsFit
<1>4. DecisionsFit'
  BY <1>1, <1>2, <1>3, NothingDecided
<1>5. PhaseFits'
  BY <1>1, <1>2 DEF IInv, PhaseFits, Stages
<1>6. FlagsFit'
  BY <1>1, <1>2 DEF IInv, FlagsFit
<1>7. /\ blocked \in Seq(Note) /\ held \in Seq(Note) /\ channel \in Seq(Note)
      /\ IsInjective(blocked) /\ IsInjective(held) /\ IsInjective(channel)
  BY DEF IInv, QueuesFit
<1>8. /\ <<>> \in Seq(Note) /\ Range(<<>>) = {} /\ IsInjective(<<>>)
  BY Short
<1>9. /\ last \in Seq(Note) /\ IsInjective(last) /\ channel' \in Seq(Note) /\ IsInjective(channel')
      /\ Range(channel') = Range(channel) \ Range(last) /\ Range(last) \subseteq Range(channel)
  BY <1>1, <1>7, <1>8
<1> HIDE DEF last
<1>10. /\ Range(blocked) \cap Range(held) = {}
       /\ (Range(blocked) \cup Range(held)) \cap Range(last) = {}
  <2>1. Range(blocked) \cap Range(held) = {} /\ Range(blocked) \cap Range(channel) = {} /\ Range(held) \cap Range(channel) = {}
    BY ApartAre, HomesAre DEF IInv, Home
  <2> QED BY <1>9, <2>1
<1>11. /\ blocked \o held \in Seq(Note) /\ IsInjective(blocked \o held)
       /\ Range(blocked \o held) = Range(blocked) \cup Range(held)
  BY <1>7, <1>10, Joined
<1>12. /\ held' \in Seq(Note) /\ IsInjective(held')
       /\ Range(held') = Range(blocked) \cup Range(held) \cup Range(last)
  <2> DEFINE front == blocked \o held
  <2>1. /\ front \in Seq(Note) /\ IsInjective(front) /\ Range(front) = Range(blocked) \cup Range(held)
        /\ held' = front \o last
    BY <1>1, <1>11
  <2> HIDE DEF front
  <2>2. Range(front) \cap Range(last) = {}
    BY <1>10, <2>1
  <2> QED BY <1>9, <2>1, <2>2, Joined
<1>13. QueuesFit'
  BY <1>1, <1>8, <1>9, <1>12 DEF IInv, QueuesFit
<1>14. PlacesFit'
  <2> DEFINE h == [Homes EXCEPT !["blocked"] = {}, !["held"] = Range(blocked) \cup Range(held)]
  <2>1. Apart(Homes) /\ "blocked" \in Home /\ "held" \in Home /\ "channel" \in Home
    BY DEF IInv, PlacesFit, Home
  <2>2. /\ h["blocked"] = Homes["blocked"] \ Range(blocked) /\ h["held"] = Homes["held"] \cup Range(blocked)
        /\ Range(blocked) \subseteq Homes["blocked"]
        /\ \A k \in Home : k \notin {"blocked", "held"} => h[k] = Homes[k]
    BY HomesAre DEF Homes, Home
  <2>3. Apart(h)
    <3> HIDE DEF h
    <3> QED BY <2>1, <2>2, Moves
  <2>4. /\ Homes'["channel"] = h["channel"] \ Range(last) /\ Homes'["held"] = h["held"] \cup Range(last)
        /\ Range(last) \subseteq h["channel"]
    <3>1. h["channel"] = Range(channel) /\ h["held"] = Range(blocked) \cup Range(held)
      BY <2>2, HomesAre DEF Home
    <3> HIDE DEF h
    <3> QED BY <1>9, <1>12, <3>1, HomesBecome
  <2>5. \A k \in Home : k \notin {"channel", "held"} => Homes'[k] = h[k]
    <3>1. Homes'["blocked"] = h["blocked"]
      BY <1>1, <1>8, <2>2, HomesAre, HomesBecome
    <3>2. \A k \in Home : k \notin {"channel", "held", "blocked"} => Homes'[k] = Homes[k]
      BY <1>1, <1>2, HomesAre, HomesBecome DEF Home, Decided, Routed
    <3> HIDE DEF h
    <3> QED BY <2>2, <3>1, <3>2
  <2> HIDE DEF h
  <2> QED BY <2>1, <2>3, <2>4, <2>5, Moves DEF PlacesFit
<1>15. TaskFits' /\ SteersFit' /\ LogFits' /\ NestedFits'
  BY <1>1, <1>2, TaskStays, SteersStay, LogStays, NestedStay DEF IInv
<1> QED BY <1>4, <1>5, <1>6, <1>13, <1>14, <1>15 DEF IInv

\* A message announced leaves the pending list for the transcript.
LEMMA ReadsSteeredFits ==
    ASSUME IInv, ReadsSteered
    PROVE  IInv'
<1> DEFINE w == Head(events)
<1>1. /\ stage = "join" /\ events # <<>>
      /\ pending' = RemoveFirst(pending, w)
      /\ shown' = shown \cup {w} /\ events' = Tail(events)
      /\ UNCHANGED <<stage, intents, task, inbox, log, queued, mail, pauses, flags, unsent, dropped,
                     unborn, duties, orphans, keys>>
  BY DEF ReadsSteered, AllRead
<1>2. /\ UNCHANGED <<held, channel, blocked, routed>> /\ UNCHANGED <<modal, draft, retry, goal, compact, fired>>
      /\ UNCHANGED <<due, gate>>
  BY <1>1 DEF mail, flags, duties, pauses
<1>3. /\ inbox \in Seq(Word) /\ events \in Seq(Word) /\ pending \in Seq(Word)
      /\ Range(events) \subseteq Range(pending) /\ Range(inbox) \subseteq Range(pending)
      /\ Range(events) \cap Range(inbox) = {}
      /\ IsInjective(events) /\ IsInjective(inbox) /\ IsInjective(pending)
  BY DEF IInv, SteersFit
<1>4. /\ w \in Range(events) /\ events' \in Seq(Word) /\ IsInjective(events')
      /\ Range(events') = Range(events) \ {w}
  BY <1>1, <1>3, Served
<1> HIDE DEF w
<1>5. /\ w \in Range(pending) /\ pending' \in Seq(Word) /\ IsInjective(pending')
      /\ Range(pending') = Range(pending) \ {w}
  BY <1>1, <1>3, <1>4, FirstTakenOut
<1>6. TaskFits'
  BY <1>1 DEF IInv, TaskFits
<1>7. SteersFit'
  BY <1>1, <1>3, <1>4, <1>5 DEF SteersFit
<1>8. LogFits'
  BY <1>1, <1>4 DEF IInv, LogFits
<1>9. NestedFits'
  BY <1>1, <1>2 DEF IInv, NestedFits
<1>10. PlacesFit'
  <2>1. /\ Homes'["pending"] = Homes["pending"] \ {w} /\ Homes'["shown"] = Homes["shown"] \cup {w}
        /\ {w} \subseteq Homes["pending"]
    BY <1>1, <1>5, HomesAre, HomesBecome
  <2>2. \A k \in Home : k \notin {"pending", "shown"} => Homes'[k] = Homes[k]
    BY <1>1, <1>2, HomesAre, HomesBecome DEF Home, Decided, Routed
  <2>3. "pending" \in Home /\ "shown" \in Home /\ Apart(Homes)
    BY DEF Home, IInv, PlacesFit
  <2> QED BY <2>1, <2>2, <2>3, Moves DEF PlacesFit
<1>11. PhaseFits' /\ FlagsFit' /\ DecisionsFit' /\ QueuesFit'
  BY <1>1, <1>2, PhaseStays, FlagsStay, DecisionsStay, QueuesStay DEF IInv
<1> QED BY <1>6, <1>7, <1>8, <1>9, <1>10, <1>11 DEF IInv

-----------------------------------------------------------------------------
(* The joins. *)

\* What the adopted backlog brings: results nobody had yet, behind those held.
LEMMA AdoptsDoes ==
    ASSUME IInv, NEW lands \in BOOLEAN, NEW taken \in BOOLEAN, Adopts(lands, taken)
    PROVE  /\ held' \in Seq(Note) /\ IsInjective(held') /\ engaged' \in BOOLEAN
           /\ unborn' \subseteq unborn /\ \A f \in Foreign : Nested[f] \in unborn => Nested[f] \in unborn'
           /\ Range(held') = Range(held) \cup (unborn \ unborn')
<1>1. /\ engaged' = (engaged \/ taken)
      /\ held' = IF lands THEN held \o SetToSeq(Backlog \cap unborn) ELSE held
      /\ unborn' = IF lands THEN unborn \ Backlog ELSE unborn
  BY DEF Adopts
<1>2. engaged' \in BOOLEAN
  BY <1>1
<1>3. held \in Seq(Note) /\ IsInjective(held)
  BY DEF IInv, QueuesFit
<1>4. unborn' \subseteq unborn /\ \A f \in Foreign : Nested[f] \in unborn => Nested[f] \in unborn'
  BY <1>1, WordsAre
<1>5. CASE ~lands
  BY <1>1, <1>2, <1>3, <1>4, <1>5
<1>6. CASE lands
  <2> DEFINE more == SetToSeq(Backlog \cap unborn)
  <2>1. IsFiniteSet(Backlog \cap unborn) /\ Backlog \cap unborn \subseteq Note
    BY WordsAre, FS_Intersection
  <2>2. more \in Seq(Backlog \cap unborn) /\ IsInjective(more) /\ Range(more) = Backlog \cap unborn
    BY <2>1, Listed
  <2>3. held' = held \o more
    BY <1>1, <1>6
  <2> HIDE DEF more
  <2>4. more \in Seq(Note)
    BY <2>1, <2>2, SeqMonotonic
  <2>5. Range(held) \cap unborn = {}
    BY ApartAre, HomesAre DEF IInv, Home
  <2>6. /\ held' \in Seq(Note) /\ IsInjective(held') /\ Range(held') = Range(held) \cup Range(more)
    BY <1>3, <2>2, <2>3, <2>4, <2>5, Joined
  <2>7. unborn \ unborn' = Backlog \cap unborn
    BY <1>1, <1>6
  <2> QED BY <1>2, <1>4, <2>2, <2>6, <2>7
<1> QED BY <1>5, <1>6

\* The places after the backlog was adopted.
LEMMA AdoptedApart ==
    ASSUME PlacesFit, unborn' \subseteq unborn, Range(held') = Range(held) \cup (unborn \ unborn'),
           NEW g, g["unborn"] = unborn', g["held"] = Range(held'),
           \A k \in Home : k \notin {"unborn", "held"} => g[k] = Homes[k]
    PROVE  Apart(g)
<1> DEFINE M == unborn \ unborn'
<1>1. /\ Apart(Homes) /\ "unborn" \in Home /\ "held" \in Home
      /\ M \subseteq Homes["unborn"] /\ g["unborn"] = Homes["unborn"] \ M /\ g["held"] = Homes["held"] \cup M
  BY HomesAre DEF PlacesFit, Home
<1> HIDE DEF M
<1> QED BY <1>1, Moves

\* What after_turn decides.
LEMMA AfterTurnDecides ==
    ASSUME IInv, NEW completed \in BOOLEAN, NEW achieved \in BOOLEAN
    PROVE  LET a == AfterTurn(completed, achieved) IN
           /\ completed /\ Accepts /\ queued # <<>> => a = <<Intent("send", <<>>)>>
           /\ a = <<>> \/ \E i \in Decision : /\ a = <<i>> /\ i.words = <<>>
                                              /\ i.do \notin {"start", "resume"}
                                              /\ i.do = "send" => queued # <<>>
                                              /\ i.do = "round" => goal < MaxRounds
<1> DEFINE a == AfterTurn(completed, achieved)
           free == completed /\ Accepts
<1>1. a = IF free /\ queued # <<>> THEN <<Intent("send", <<>>)>>
          ELSE IF ~free \/ goal = NoGoal THEN <<>>
          ELSE IF achieved \/ goal >= MaxRounds THEN <<Intent("ungoal", <<>>)>>
          ELSE <<Intent("round", <<>>)>>
  BY DEF AfterTurn
<1>2. <<>> \in Seq(Word)
  BY Short
<1>3. \A do \in {"send", "ungoal", "round"} :
          /\ Intent(do, <<>>) \in Decision /\ Intent(do, <<>>).words = <<>> /\ Intent(do, <<>>).do = do
  BY <1>2 DEF Intent, Decision
<1>4. goal \in 0..MaxRounds \cup {NoGoal} /\ MaxRounds \in Nat
  BY BoundsAssumption DEF IInv, PhaseFits
<1> HIDE DEF a, free
<1>5. CASE free /\ queued # <<>>
  <2>1. a = <<Intent("send", <<>>)>>
    BY <1>1, <1>5
  <2> QED BY <1>3, <1>5, <2>1 DEF a, free
<1>6. CASE ~(free /\ queued # <<>>) /\ (~free \/ goal = NoGoal)
  BY <1>1, <1>6 DEF a, free
<1>7. CASE ~(free /\ queued # <<>>) /\ ~(~free \/ goal = NoGoal) /\ (achieved \/ goal >= MaxRounds)
  <2>1. a = <<Intent("ungoal", <<>>)>>
    BY <1>1, <1>7
  <2> QED BY <1>3, <1>7, <2>1 DEF a, free
<1>8. CASE ~(free /\ queued # <<>>) /\ ~(~free \/ goal = NoGoal) /\ ~(achieved \/ goal >= MaxRounds)
  <2>1. a = <<Intent("round", <<>>)>>
    BY <1>1, <1>8
  <2>2. goal < MaxRounds
    BY <1>4, <1>8
  <2> QED BY <1>3, <1>8, <2>1, <2>2 DEF a, free
<1> QED BY <1>5, <1>6, <1>7, <1>8 DEF a, free

\* What is decided at a join, and that it has no words of its own.
LEMMA JoinDecides ==
    ASSUME intents' = <<>> \/ \E i \in Decision : /\ intents' = <<i>> /\ i.words = <<>>
                                                  /\ i.do \notin {"start", "resume"}
                                                  /\ i.do = "send" => queued' # <<>>
                                                  /\ i.do = "round" => goal' < MaxRounds,
           stage' = "drain", task' = Empty, due' => intents' = <<Intent("send", <<>>)>>
    PROVE  DecisionsFit' /\ Range(Decided') = {}
<1>1. DecisionsFit'
  BY DEF DecisionsFit, DecisionFits
<1>2. Decided' = <<>>
  BY DEF Decided
<1> QED BY <1>1, <1>2, Short

\* What the turn left pending goes to the queue, and one thing is decided.
LEMMA JoinTurnFits ==
    ASSUME IInv, JoinTurn
    PROVE  IInv'
<1>1. PICK achieved \in BOOLEAN, lands \in BOOLEAN :
          /\ intents' = intents \o AfterTurn(task.end = "completed", achieved)
          /\ Adopts(lands, FALSE)
          /\ paused' = ((paused \/ Holds(lands)) /\ ~Flows(task.end))
          /\ stopped' = ((stopped \/ Holds(lands)) /\ task.end \in {"aborted", "crashed"})
  BY DEF JoinTurn
<1>2. /\ events = <<>> /\ task.at = "done"
      /\ stage' = "drain" /\ task' = Empty
      /\ queued' = pending \o queued
      /\ pending' = <<>> /\ inbox' = <<>> /\ events' = <<>>
      /\ due' = (task.end = "completed" /\ Accepts /\ queued # <<>>)
      /\ fired' = (fired /\ (task.kind = "compaction" \/ task.end = "declined"))
      /\ retry' = (task.end \in {"failed", "aborted"} \/ retry)
      /\ UNCHANGED <<log, channel, blocked, routed, gate, seen, modal, draft, goal, compact,
                     unsent, dropped, shown, orphans, keys>>
  BY DEF JoinTurn, AllRead
<1>3. task.kind # "none"
  BY <1>2, EmptyIs DEF IInv, TaskFits
<1>4. intents = <<>>
  BY <1>3, Occupied
<1>5. PhaseFits'
  BY <1>2 DEF IInv, PhaseFits, Stages
<1>6. /\ held' \in Seq(Note) /\ IsInjective(held') /\ engaged' \in BOOLEAN
      /\ unborn' \subseteq unborn /\ \A f \in Foreign : Nested[f] \in unborn => Nested[f] \in unborn'
      /\ Range(held') = Range(held) \cup (unborn \ unborn')
  BY <1>1, AdoptsDoes
<1>7. FlagsFit'
  <2>1. paused' \in BOOLEAN /\ stopped' \in BOOLEAN /\ due' \in BOOLEAN /\ fired' \in BOOLEAN
    BY <1>1, <1>2
  <2>2. retry' \in BOOLEAN
    BY <1>2 DEF IInv, FlagsFit
  <2>3. stopped' => paused'
    BY <1>1 DEF IInv, FlagsFit, Flows
  <2> QED BY <1>2, <1>6, <2>1, <2>2, <2>3 DEF IInv, FlagsFit
<1>8. /\ queued \in Seq(Word) /\ pending \in Seq(Word) /\ IsInjective(queued) /\ IsInjective(pending)
      /\ Range(queued) \cap Range(pending) = {}
  BY ApartAre, HomesAre DEF IInv, QueuesFit, SteersFit, Home
<1>9. /\ queued' \in Seq(Word) /\ IsInjective(queued') /\ Range(queued') = Range(pending) \cup Range(queued)
  BY <1>2, <1>8, Joined
<1>10. queued # <<>> => queued' # <<>>
  <2>1. (Range(queued) = {} <=> queued = <<>>) /\ (Range(queued') = {} <=> queued' = <<>>)
    BY <1>8, <1>9, Positions
  <2> QED BY <1>9, <2>1
<1>11. DecisionsFit' /\ Range(Decided') = {}
  <2> DEFINE completed == task.end = "completed"
             a == AfterTurn(completed, achieved)
  <2>1. completed \in BOOLEAN
    OBVIOUS
  <2>2. intents' = <<>> \o a /\ due' = (completed /\ Accepts /\ queued # <<>>)
    BY <1>1, <1>2, <1>4
  <2> HIDE DEF completed
  <2>3. /\ completed /\ Accepts /\ queued # <<>> => a = <<Intent("send", <<>>)>>
        /\ a = <<>> \/ \E i \in Decision : /\ a = <<i>> /\ i.words = <<>>
                                           /\ i.do \notin {"start", "resume"}
                                           /\ i.do = "send" => queued # <<>>
                                           /\ i.do = "round" => goal < MaxRounds
    BY <2>1, AfterTurnDecides
  <2> HIDE DEF a
  <2>4. a \in Seq(Decision)
    <3>1. CASE a = <<>>
      BY <3>1, Short
    <3>2. CASE \E i \in Decision : a = <<i>>
      BY <3>2, Short
    <3> QED BY <2>3, <3>1, <3>2
  <2>5. intents' = a
    BY <2>2, <2>4, ConcatEmptySeq
  <2>6. \/ intents' = <<>>
        \/ \E i \in Decision : /\ intents' = <<i>> /\ i.words = <<>>
                               /\ i.do \notin {"start", "resume"}
                               /\ i.do = "send" => queued' # <<>>
                               /\ i.do = "round" => goal' < MaxRounds
    BY <1>2, <1>10, <2>3, <2>5
  <2> QED BY <1>2, <2>2, <2>3, <2>5, <2>6, JoinDecides
<1>12. /\ <<>> \in Seq(Word) /\ Range(<<>>) = {} /\ IsInjective(<<>>)
  BY Short
<1>13. TaskFits' /\ SteersFit'
  BY <1>2, <1>12, EmptyIs DEF TaskFits, SteersFit
<1>14. LogFits'
  BY <1>2, EmptyIs DEF IInv, LogFits
<1>15. NestedFits'
  BY <1>2, <1>6 DEF IInv, NestedFits
<1>16. QueuesFit'
  BY <1>2, <1>6, <1>9 DEF IInv, QueuesFit
<1>17. PlacesFit'
  <2> DEFINE h == [Homes EXCEPT !["unborn"] = unborn', !["held"] = Range(held')]
  <2>1. /\ h["unborn"] = unborn' /\ h["held"] = Range(held')
        /\ \A k \in Home : k \notin {"unborn", "held"} => h[k] = Homes[k]
    BY DEF Homes, Home
  <2> HIDE DEF h
  <2>2. Apart(h)
    BY <1>6, <2>1, AdoptedApart DEF IInv
  <2>3. Range(Decided) = {}
    BY <1>4, <1>12 DEF Decided
  <2>4. /\ Homes'["pending"] = h["pending"] \ Range(pending)
        /\ Homes'["queued"] = h["queued"] \cup Range(pending) /\ Range(pending) \subseteq h["pending"]
        /\ "pending" \in Home /\ "queued" \in Home
    BY <1>2, <1>9, <1>12, <2>1, HomesAre, HomesBecome DEF Home
  <2>5. \A k \in Home : k \notin {"pending", "queued"} => Homes'[k] = h[k]
    BY <1>2, <1>11, <2>1, <2>3, HomesAre, HomesBecome, ZenonT(60) DEF Home, Routed
  <2> QED BY <2>2, <2>4, <2>5, Moves DEF PlacesFit
<1> QED BY <1>5, <1>7, <1>11, <1>13, <1>14, <1>15, <1>16, <1>17 DEF IInv

\* The backlog that lands at another join.
LEMMA LandsFits ==
    ASSUME IInv, NEW lands \in BOOLEAN, NEW taken \in BOOLEAN, Adopts(lands, taken),
           paused' = (paused \/ Holds(lands)), stopped' = (stopped \/ Holds(lands)), due' \in BOOLEAN,
           Range(Decided') = Range(Decided),
           UNCHANGED <<steers, log, queued, channel, blocked, routed, gate, seen, flags,
                       unsent, dropped, shown, orphans, keys>>
    PROVE  FlagsFit' /\ SteersFit' /\ NestedFits' /\ QueuesFit' /\ PlacesFit'
<1>1. /\ held' \in Seq(Note) /\ IsInjective(held') /\ engaged' \in BOOLEAN
      /\ unborn' \subseteq unborn /\ \A f \in Foreign : Nested[f] \in unborn => Nested[f] \in unborn'
      /\ Range(held') = Range(held) \cup (unborn \ unborn')
  BY AdoptsDoes
<1>2. UNCHANGED <<modal, draft, retry, goal, compact, fired>> /\ UNCHANGED <<inbox, events, pending>>
  BY DEF flags, steers
<1>3. FlagsFit'
  <2>1. paused' \in BOOLEAN /\ stopped' \in BOOLEAN /\ (stopped' => paused')
    BY DEF IInv, FlagsFit
  <2> QED BY <1>1, <1>2, <2>1 DEF IInv, FlagsFit
<1>4. NestedFits'
  BY <1>1 DEF IInv, NestedFits
<1>5. QueuesFit'
  BY <1>1 DEF IInv, QueuesFit
<1>6. PlacesFit'
  <2>1. /\ Homes'["unborn"] = unborn' /\ Homes'["held"] = Range(held')
        /\ \A k \in Home : k \notin {"unborn", "held"} => Homes'[k] = Homes[k]
    BY <1>2, HomesAre, HomesBecome DEF Home, Routed
  <2> QED BY <1>1, <2>1, AdoptedApart DEF IInv, PlacesFit
<1> QED BY <1>3, <1>4, <1>5, <1>6, SteersStay DEF IInv

\* A compaction leaves nothing pending, and one thing is decided.
LEMMA JoinCompactionFits ==
    ASSUME IInv, JoinCompaction
    PROVE  IInv'
<1>1. PICK lands \in BOOLEAN :
          /\ Adopts(lands, FALSE)
          /\ paused' = (paused \/ Holds(lands)) /\ stopped' = (stopped \/ Holds(lands))
  BY DEF JoinCompaction
<1>2. /\ task.kind = "compaction"
      /\ stage' = "drain" /\ task' = Empty
      /\ due' = (task.end = "completed" /\ Accepts /\ queued # <<>>)
      /\ intents' = intents \o IF due' THEN <<Intent("send", <<>>)>> ELSE <<>>
      /\ UNCHANGED <<steers, log, queued, channel, blocked, routed, gate, seen, flags,
                     unsent, dropped, shown, orphans, keys>>
  BY DEF JoinCompaction
<1>3. UNCHANGED <<modal, draft, retry, goal, compact, fired>> /\ UNCHANGED <<inbox, events, pending>>
  BY <1>2 DEF flags, steers
<1>4. intents = <<>>
  BY <1>2, Occupied
<1>5. Intent("send", <<>>) \in Decision /\ Intent("send", <<>>).do = "send" /\ Intent("send", <<>>).words = <<>>
  BY Short DEF Decision, Intent
<1>6. intents' = IF due' THEN <<Intent("send", <<>>)>> ELSE <<>>
  <2> DEFINE i == Intent("send", <<>>)
  <2>1. <<i>> \in Seq(Decision) /\ <<>> \in Seq(Decision)
    BY <1>5, Short
  <2> HIDE DEF i
  <2>2. <<>> \o <<i>> = <<i>> /\ <<>> \o <<>> = <<>>
    BY <2>1, ConcatEmptySeq
  <2> QED BY <1>2, <1>4, <2>2 DEF i
<1>7. DecisionsFit' /\ Range(Decided') = {}
  <2>1. due' => queued' # <<>>
    BY <1>2
  <2>2. \/ intents' = <<>>
        \/ \E i \in Decision : /\ intents' = <<i>> /\ i.words = <<>>
                               /\ i.do \notin {"start", "resume"}
                               /\ i.do = "send" => queued' # <<>>
                               /\ i.do = "round" => goal' < MaxRounds
    BY <1>5, <1>6, <2>1
  <2> QED BY <1>2, <1>6, <2>2, JoinDecides
<1>8. due' \in BOOLEAN /\ Range(Decided') = Range(Decided)
  BY <1>2, <1>4, <1>7, Short DEF Decided
<1>9. FlagsFit' /\ SteersFit' /\ NestedFits' /\ QueuesFit' /\ PlacesFit'
  BY <1>1, <1>2, <1>8, LandsFits
<1>10. PhaseFits'
  BY <1>2, <1>3 DEF IInv, PhaseFits, Stages
<1>11. TaskFits' /\ LogFits'
  BY <1>2, <1>3, EmptyIs DEF IInv, TaskFits, LogFits
<1> QED BY <1>7, <1>9, <1>10, <1>11 DEF IInv

\* Nothing is joined; a backlog may land.
LEMMA NoJoinFits ==
    ASSUME IInv, NoJoin
    PROVE  IInv'
<1>1. PICK lands \in BOOLEAN :
          /\ Adopts(lands, Running)
          /\ paused' = (paused \/ Holds(lands)) /\ stopped' = (stopped \/ Holds(lands))
  BY DEF NoJoin
<1>2. /\ stage = "join" /\ stage' = "drain"
      /\ UNCHANGED <<intents, task, steers, log, queued, channel, blocked, routed, gate, seen,
                     flags, unsent, dropped, shown, due, orphans, keys>>
  BY DEF NoJoin
<1>3. UNCHANGED <<modal, draft, retry, goal, compact, fired>> /\ UNCHANGED <<inbox, events, pending>>
  BY <1>2 DEF flags, steers
<1>4. due' \in BOOLEAN /\ Range(Decided') = Range(Decided) /\ Running \in BOOLEAN
  BY <1>2 DEF IInv, FlagsFit, Decided, Running
<1>5. FlagsFit' /\ SteersFit' /\ NestedFits' /\ QueuesFit' /\ PlacesFit'
  BY <1>1, <1>2, <1>4, LandsFits
<1>6. PhaseFits'
  BY <1>2, <1>3 DEF IInv, PhaseFits, Stages
<1>7. DecisionsFit'
  BY <1>2, <1>3 DEF IInv, DecisionsFit, DecisionFits
<1>8. TaskFits' /\ LogFits'
  BY <1>2, <1>3, TaskStays, LogStays DEF IInv
<1> QED BY <1>5, <1>6, <1>7, <1>8 DEF IInv

\* A delivery's end is filed.
LEMMA JoinDeliveryFits ==
    ASSUME IInv, NEW r \in routed, JoinDelivery(r)
    PROVE  IInv'
<1> DEFINE n == r.note
           next == Nested[n]
<1>1. /\ r \in routed /\ routed' = routed \ {r}
      /\ \/ /\ held' = Append(held \o channel, next) /\ channel' = <<>>
            /\ shown' = shown \cup {n} /\ unborn' = unborn \ {next}
            /\ UNCHANGED <<paused>>
         \/ /\ held' = <<n>> \o held /\ paused' = TRUE
            /\ UNCHANGED <<channel, shown, unborn>>
         \/ /\ shown' = shown \cup {n}
            /\ UNCHANGED <<held, channel, unborn, paused>>
      /\ UNCHANGED <<stage, intents, task, steers, log, queued, blocked, engaged, gate, seen,
                     flags, unsent, dropped, duties, orphans, keys>>
  BY DEF JoinDelivery
<1>2. UNCHANGED <<modal, draft, retry, goal, compact, fired>> /\ UNCHANGED <<inbox, events, pending>> /\ UNCHANGED <<due, stopped>>
  BY <1>1 DEF flags, steers, duties
<1>3. n \in Foreign /\ n \in Note /\ next \in Note /\ \A s \in routed : s.note = n => s = r
  BY <1>1, WordsAre DEF IInv, NestedFits
<1>4. Routed' = Routed \ {n} /\ n \in Routed
  BY <1>1, <1>3 DEF Routed
<1>5. n \notin shown \cup dropped \cup Range(held) \cup Range(channel)
  BY <1>4, ApartAre, HomesAre DEF IInv, Home
<1>6. next \in unborn
  BY <1>3, <1>5 DEF IInv, NestedFits
<1>7. next \notin Range(held) \cup Range(channel)
  BY <1>6, ApartAre, HomesAre DEF IInv, Home
<1>8. /\ held \in Seq(Note) /\ IsInjective(held) /\ channel \in Seq(Note) /\ IsInjective(channel)
      /\ Range(held) \cap Range(channel) = {}
  BY ApartAre, HomesAre DEF IInv, QueuesFit, Home
<1>9. "routed" \in Home /\ "shown" \in Home /\ "held" \in Home /\ "channel" \in Home /\ "unborn" \in Home /\ Apart(Homes)
  BY DEF Home, IInv, PlacesFit
<1> HIDE DEF n, next
<1>10. PhaseFits' /\ TaskFits' /\ DecisionsFit' /\ SteersFit'
  BY <1>1, <1>2, PhaseStays, TaskStays, DecisionsStay, SteersStay DEF IInv
<1>11. FlagsFit'
  <2>1. paused' \in {paused, TRUE}
    BY <1>1
  <2>2. paused' \in BOOLEAN /\ (stopped => paused')
    BY <2>1 DEF IInv, FlagsFit
  <2> QED BY <1>1, <1>2, <2>2 DEF IInv, FlagsFit
<1>12. LogFits'
  BY <1>1, <1>2 DEF IInv, LogFits
<1>13. CASE /\ held' = Append(held \o channel, next) /\ channel' = <<>>
            /\ shown' = shown \cup {n} /\ unborn' = unborn \ {next}
  <2>1. held \o channel \in Seq(Note) /\ IsInjective(held \o channel) /\ Range(held \o channel) = Range(held) \cup Range(channel)
    BY <1>8, Joined
  <2>2. /\ held' \in Seq(Note) /\ IsInjective(held') /\ Range(held') = Range(held) \cup Range(channel) \cup {next}
    <3> DEFINE front == held \o channel
    <3>1. front \in Seq(Note) /\ IsInjective(front) /\ Range(front) = Range(held) \cup Range(channel) /\ held' = Append(front, next)
      BY <1>13, <2>1
    <3> HIDE DEF front
    <3> QED BY <1>3, <1>7, <3>1, Appended
  <2>3. channel' \in Seq(Note) /\ IsInjective(channel') /\ Range(channel') = {}
    BY <1>13, Short
  <2>4. QueuesFit'
    BY <1>1, <2>2, <2>3 DEF IInv, QueuesFit
  <2>5. NestedFits'
    <3>1. \A f \in Foreign : f # n => Nested[f] # next
      BY <1>3, WordsAre DEF next
    <3>2. \A f \in Foreign : f \in shown' \cup dropped' \/ Nested[f] \in unborn'
      BY <1>1, <1>13, <3>1 DEF IInv, NestedFits
    <3> QED BY <1>1, <3>2 DEF IInv, NestedFits
  <2>6. PlacesFit'
    <3> DEFINE h == [Homes EXCEPT !["routed"] = Routed \ {n}, !["shown"] = shown \cup {n}]
               i == [h EXCEPT !["unborn"] = unborn \ {next}, !["held"] = Range(held) \cup {next}]
    <3>1. h["routed"] = Homes["routed"] \ {n} /\ h["shown"] = Homes["shown"] \cup {n} /\ {n} \subseteq Homes["routed"]
          /\ \A k \in Home : k \notin {"routed", "shown"} => h[k] = Homes[k]
      BY <1>4, HomesAre DEF Homes, Home
    <3>2. /\ i["unborn"] = unborn \ {next} /\ i["held"] = Range(held) \cup {next}
          /\ \A k \in Home : k \notin {"unborn", "held"} => i[k] = h[k]
      BY DEF Homes, Home
    <3> HIDE DEF h, i
    <3>3. Apart(h)
      BY <1>9, <3>1, Moves
    <3>4. h["unborn"] = unborn /\ h["held"] = Range(held) /\ h["channel"] = Range(channel)
      BY <3>1, HomesAre DEF Home
    <3>5. Apart(i)
      <4>1. i["unborn"] = h["unborn"] \ {next} /\ i["held"] = h["held"] \cup {next} /\ {next} \subseteq h["unborn"]
        BY <1>6, <3>2, <3>4
      <4> QED BY <1>9, <3>2, <3>3, <4>1, Moves
    <3>6. /\ Homes'["channel"] = i["channel"] \ Range(channel) /\ Homes'["held"] = i["held"] \cup Range(channel)
          /\ Range(channel) \subseteq i["channel"]
      BY <1>9, <2>2, <2>3, <3>2, <3>4, HomesBecome
    <3>7. \A k \in Home : k \notin {"channel", "held"} => Homes'[k] = i[k]
      <4>1. Homes'["routed"] = i["routed"] /\ Homes'["shown"] = i["shown"] /\ Homes'["unborn"] = i["unborn"]
        BY <1>4, <1>9, <1>13, <3>1, <3>2, HomesAre, HomesBecome
      <4>2. \A k \in Home : k \notin {"channel", "held", "routed", "shown", "unborn"} => Homes'[k] = Homes[k]
        BY <1>1, <1>2, HomesAre, HomesBecome, SMTT(30) DEF Home, Decided
      <4>3. \A k \in Home : k \notin {"channel", "held", "routed", "shown", "unborn"} => Homes'[k] = i[k]
        BY <3>1, <3>2, <4>2
      <4> QED BY <4>1, <4>3
    <3> DEFINE g == Homes'
               M == Range(channel)
    <3>8. /\ "channel" \in Home /\ "held" \in Home /\ "channel" # "held"
          /\ M \subseteq i["channel"] /\ g["channel"] = i["channel"] \ M /\ g["held"] = i["held"] \cup M
          /\ \A k \in Home : k \notin {"channel", "held"} => g[k] = i[k]
      BY <3>6, <3>7 DEF Home
    <3> HIDE DEF g, M
    <3>9. Apart(g)
      BY <3>5, <3>8, Moves
    <3> QED BY <3>9 DEF g, PlacesFit
  <2> QED BY <1>10, <1>11, <1>12, <2>4, <2>5, <2>6 DEF IInv
<1>14. CASE held' = <<n>> \o held /\ UNCHANGED <<channel, shown, unborn>>
  <2>1. <<n>> \in Seq(Note) /\ IsInjective(<<n>>) /\ Range(<<n>>) = {n}
    BY <1>3, Short
  <2>2. held' \in Seq(Note) /\ IsInjective(held') /\ Range(held') = Range(held) \cup {n}
    <3> DEFINE one == <<n>>
    <3>1. one \in Seq(Note) /\ IsInjective(one) /\ Range(one) = {n} /\ held' = one \o held
      BY <1>14, <2>1
    <3> HIDE DEF one
    <3>2. Range(one) \cap Range(held) = {}
      BY <1>5, <3>1
    <3> QED BY <1>8, <3>1, <3>2, Joined
  <2>3. QueuesFit'
    BY <1>1, <1>14, <2>2 DEF IInv, QueuesFit
  <2>4. NestedFits'
    BY <1>1, <1>14 DEF IInv, NestedFits
  <2>5. PlacesFit'
    <3>1. Homes'["routed"] = Homes["routed"] \ {n} /\ Homes'["held"] = Homes["held"] \cup {n} /\ {n} \subseteq Homes["routed"]
      BY <1>4, <2>2, HomesAre, HomesBecome
    <3>2. \A k \in Home : k \notin {"routed", "held"} => Homes'[k] = Homes[k]
      BY <1>1, <1>2, <1>14, HomesAre, HomesBecome DEF Home, Decided
    <3> QED BY <1>9, <3>1, <3>2, Moves DEF PlacesFit
  <2> QED BY <1>10, <1>11, <1>12, <2>3, <2>4, <2>5 DEF IInv
<1>15. CASE shown' = shown \cup {n} /\ UNCHANGED <<held, channel, unborn>>
  <2>1. QueuesFit'
    BY <1>1, <1>15 DEF IInv, QueuesFit
  <2>2. NestedFits'
    BY <1>1, <1>15 DEF IInv, NestedFits
  <2>3. PlacesFit'
    <3>1. Homes'["routed"] = Homes["routed"] \ {n} /\ Homes'["shown"] = Homes["shown"] \cup {n} /\ {n} \subseteq Homes["routed"]
      BY <1>4, <1>15, HomesAre, HomesBecome
    <3>2. \A k \in Home : k \notin {"routed", "shown"} => Homes'[k] = Homes[k]
      BY <1>1, <1>2, <1>15, HomesAre, HomesBecome DEF Home, Decided
    <3> QED BY <1>9, <3>1, <3>2, Moves DEF PlacesFit
  <2> QED BY <1>10, <1>11, <1>12, <2>1, <2>2, <2>3 DEF IInv
<1> QED BY <1>1, <1>13, <1>14, <1>15

-----------------------------------------------------------------------------
(* The intents. *)

\* A word that was promised the slot is said, does its work, or starts its turn.
LEMMA PreparesDoes ==
    ASSUME IInv, task = Empty, NEW m \in Word, NEW from \in {"decided", "queued"}, m \in Homes[from],
           Prepares(m), intents' = <<>>, UNCHANGED <<stage, log, mail, pending, pauses, modal, draft, fired,
                                                     unsent, unborn, stopped, keys>>,
           stage # "mail",
           Homes'[from] = Homes[from] \ {m}, \A k \in {"decided", "queued"} : k # from => Homes'[k] = Homes[k],
           queued' \in Seq(Word), IsInjective(queued')
    PROVE  IInv'
<1>1. UNCHANGED <<held, channel, blocked, routed>> /\ UNCHANGED <<paused, engaged, gate, seen>>
  BY DEF mail, pauses
<1>2. /\ inbox = <<>> /\ events = <<>> /\ pending = <<>> /\ ~Running
  BY Idle
<1>3. m \notin shown
  BY ApartAre, HomesAre DEF IInv, Home
<1>4. QueuesFit'
  BY <1>1 DEF IInv, QueuesFit
<1>5. /\ from \in Home /\ "dropped" \in Home /\ "shown" \in Home /\ from # "dropped" /\ from # "shown" /\ Apart(Homes)
      /\ {m} \subseteq Homes[from]
  BY DEF Home, IInv, PlacesFit
<1>6. \A k \in Home : k \notin {from, "dropped", "shown"} => Homes'[k] = Homes[k]
  BY <1>1, HomesAre, HomesBecome DEF Home, Routed
<1>7. CASE /\ compact' \in BOOLEAN
           /\ dropped' = dropped \cup {m} /\ due' = FALSE
           /\ UNCHANGED <<task, orphans, inbox, events, goal, retry, shown>>
  <2>1. PhaseFits' /\ SteersFit' /\ LogFits' /\ TaskFits'
    BY <1>7, PhaseStays, SteersStay, LogStays, TaskStays DEF IInv, steers
  <2>2. FlagsFit'
    BY <1>1, <1>7 DEF IInv, FlagsFit
  <2>3. DecisionsFit'
    BY <1>7, NothingDecided
  <2>4. NestedFits'
    BY <1>1, <1>7 DEF IInv, NestedFits
  <2>5. PlacesFit'
    <3>1. Homes'["dropped"] = Homes["dropped"] \cup {m} /\ Homes'["shown"] = Homes["shown"]
      BY <1>7, HomesAre, HomesBecome
    <3>2. \A k \in Home : k \notin {from, "dropped"} => Homes'[k] = Homes[k]
      BY <1>6, <3>1
    <3> QED BY <1>5, <3>1, <3>2, Moves DEF PlacesFit
  <2> QED BY <1>4, <2>1, <2>2, <2>3, <2>4, <2>5 DEF IInv
<1>8. CASE /\ goal' \in {0, goal}
           /\ shown' = shown \cup {m} /\ retry' = FALSE
           /\ Spawns("turn", <<m>>)
           /\ UNCHANGED <<compact, dropped>>
  <2>1. <<m>> \in Seq(Word) /\ IsInjective(<<m>>) /\ Range(<<m>>) = {m}
    BY Short
  <2>2. TaskFits' /\ DecisionsFit' /\ SteersFit' /\ LogFits' /\ orphans' = orphans
    BY <1>3, <1>8, <2>1, SpawnsDo
  <2>3. PhaseFits'
    BY <1>8, <2>2, BoundsAssumption DEF IInv, PhaseFits
  <2>4. FlagsFit'
    BY <1>1, <1>8 DEF IInv, FlagsFit, Spawns
  <2>5. NestedFits'
    BY <1>1, <1>8 DEF IInv, NestedFits
  <2>6. PlacesFit'
    <3>1. Homes'["shown"] = Homes["shown"] \cup {m} /\ Homes'["dropped"] = Homes["dropped"]
      BY <1>8, HomesAre, HomesBecome
    <3>2. \A k \in Home : k \notin {from, "shown"} => Homes'[k] = Homes[k]
      BY <1>6, <3>1
    <3> QED BY <1>5, <3>1, <3>2, Moves DEF PlacesFit
  <2> QED BY <1>4, <2>2, <2>3, <2>4, <2>5, <2>6 DEF IInv
<1>9. compact \in BOOLEAN
  BY DEF IInv, FlagsFit
<1> QED BY <1>7, <1>8, <1>9 DEF Prepares

\* The decision is performed in the pass that took it, in an idle slot.
LEMMA PerformStartFits ==
    ASSUME IInv, PerformStart
    PROVE  IInv'
<1>1. /\ stage = "drain" /\ intents # <<>> /\ Head(intents).do \in {"start", "send"}
      /\ intents' = Tail(intents)
      /\ \/ /\ Head(intents).do = "start"
            /\ Prepares(Head(Head(intents).words)) /\ UNCHANGED queued
         \/ /\ Head(intents).do = "send"
            /\ Prepares(Head(queued)) /\ queued' = Tail(queued)
      /\ UNCHANGED <<stage, log, mail, pending, pauses, modal, draft, fired, unsent, unborn, stopped, keys>>
  BY DEF PerformStart
<1>2. PICK i \in Decision : intents = <<i>> /\ DecisionFits(i)
  BY <1>1 DEF IInv, DecisionsFit
<1>3. Head(intents) = i /\ Tail(intents) = <<>> /\ task = Empty
  BY <1>2 DEF DecisionFits
<1>4. intents' = <<>> /\ Decided = i.words /\ Decided' = <<>>
  BY <1>1, <1>3 DEF Decided
<1>5. Range(Decided') = {}
  BY <1>4, Short
<1>6. queued \in Seq(Word) /\ IsInjective(queued)
  BY DEF IInv, QueuesFit
<1>7. CASE i.do = "start"
  <2>1. PICK m \in Message : i.words = <<m>>
    BY <1>2, <1>7 DEF DecisionFits
  <2>2. Range(Decided) = {m} /\ m \in Word
    BY <1>4, <2>1, WordsAre, Short
  <2>3. Prepares(m) /\ UNCHANGED queued
    BY <1>1, <1>3, <1>7, <2>1
  <2>4. "decided" \in {"decided", "queued"} /\ m \in Homes["decided"]
        /\ Homes'["decided"] = Homes["decided"] \ {m} /\ Homes'["queued"] = Homes["queued"]
    BY <1>5, <2>2, <2>3, HomesAre, HomesBecome
  <2> QED BY <1>1, <1>3, <1>4, <1>6, <2>2, <2>3, <2>4, PreparesDoes
<1>8. CASE i.do = "send"
  <2>1. queued # <<>> /\ i.words = <<>>
    BY <1>2, <1>8 DEF DecisionFits
  <2> DEFINE m == Head(queued)
  <2>2. Prepares(m) /\ queued' = Tail(queued)
    BY <1>1, <1>3, <1>8
  <2>3. m \in Word /\ m \in Range(queued) /\ queued' \in Seq(Word) /\ IsInjective(queued') /\ Range(queued') = Range(queued) \ {m}
    BY <1>6, <2>1, <2>2, Served
  <2> HIDE DEF m
  <2>4. Range(Decided) = {}
    BY <1>4, <2>1, Short
  <2>5. "queued" \in {"decided", "queued"} /\ m \in Homes["queued"]
        /\ Homes'["queued"] = Homes["queued"] \ {m} /\ Homes'["decided"] = Homes["decided"]
    BY <1>5, <2>3, <2>4, HomesAre, HomesBecome
  <2> QED BY <1>1, <1>3, <1>4, <2>2, <2>3, <2>5, PreparesDoes
<1> QED BY <1>1, <1>3, <1>7, <1>8

\* A resume or a round has no words of its own.
LEMMA PerformOtherFits ==
    ASSUME IInv, PerformOther
    PROVE  IInv'
<1>1. /\ stage = "drain" /\ intents # <<>> /\ Head(intents).do \in {"resume", "round", "ungoal"}
      /\ intents' = Tail(intents)
      /\ \/ /\ Head(intents).do = "ungoal"
            /\ goal' = NoGoal /\ UNCHANGED <<task, orphans, inbox, events, due, retry>>
         \/ /\ goal' = IF Head(intents).do = "round" THEN goal + 1 ELSE goal
            /\ retry' = FALSE /\ Spawns("turn", <<>>)
      /\ UNCHANGED <<stage, log, queued, mail, pending, pauses, modal, draft, compact, fired,
                     words, stopped, keys>>
  BY DEF PerformOther
<1>2. PICK i \in Decision : intents = <<i>> /\ DecisionFits(i)
  BY <1>1 DEF IInv, DecisionsFit
<1>3. Head(intents) = i /\ Tail(intents) = <<>> /\ task = Empty /\ i.words = <<>>
  BY <1>1, <1>2 DEF DecisionFits
<1>4. intents' = <<>> /\ Decided = <<>> /\ Decided' = <<>>
  BY <1>1, <1>3 DEF Decided
<1>5. UNCHANGED <<held, channel, blocked, routed>> /\ UNCHANGED <<unsent, dropped, shown, unborn>> /\ UNCHANGED <<paused, engaged, gate, seen>>
  BY <1>1 DEF mail, words, pauses
<1>6. due = FALSE
  <2>1. due => i = Intent("send", <<>>)
    BY <1>2 DEF IInv, DecisionsFit
  <2>2. i # Intent("send", <<>>)
    BY <1>1, <1>3 DEF Intent
  <2> QED BY <2>1, <2>2 DEF IInv, FlagsFit
<1>7. PlacesFit'
  BY <1>1, <1>4, <1>5 DEF IInv, PlacesFit, Homes, Routed
<1>8. NestedFits' /\ QueuesFit'
  BY <1>1, <1>5, NestedStay, QueuesStay DEF IInv
<1>9. CASE goal' = NoGoal /\ UNCHANGED <<task, orphans, inbox, events, due, retry>>
  <2>1. PhaseFits'
    BY <1>1, <1>9 DEF IInv, PhaseFits
  <2>2. FlagsFit'
    BY <1>1, <1>5, <1>9 DEF IInv, FlagsFit
  <2>3. DecisionsFit'
    BY <1>1, <1>4, <1>6, <1>9, NothingDecided
  <2>4. TaskFits' /\ SteersFit' /\ LogFits'
    BY <1>1, <1>5, <1>9, TaskStays, SteersStay, LogStays DEF IInv, steers
  <2> QED BY <1>7, <1>8, <2>1, <2>2, <2>3, <2>4 DEF IInv
<1>10. CASE /\ goal' = IF i.do = "round" THEN goal + 1 ELSE goal
            /\ retry' = FALSE /\ Spawns("turn", <<>>)
  <2>1. <<>> \in Seq(Word) /\ IsInjective(<<>>) /\ Range(<<>>) = {}
    BY Short
  <2>2. TaskFits' /\ DecisionsFit' /\ SteersFit' /\ LogFits' /\ orphans' = orphans
    BY <1>1, <1>3, <1>4, <1>5, <1>10, <2>1, SpawnsDo
  <2>3. goal' \in 0..MaxRounds \cup {NoGoal}
    <3>1. goal \in 0..MaxRounds \cup {NoGoal} /\ MaxRounds \in Nat /\ (i.do = "round" => goal < MaxRounds)
      BY <1>2, BoundsAssumption DEF IInv, PhaseFits, DecisionFits
    <3> QED BY <1>10, <3>1 DEF NoGoal
  <2>4. PhaseFits'
    BY <1>1, <2>2, <2>3 DEF IInv, PhaseFits
  <2>5. FlagsFit'
    BY <1>1, <1>5, <1>10 DEF IInv, FlagsFit, Spawns
  <2> QED BY <1>7, <1>8, <2>2, <2>4, <2>5 DEF IInv
<1> QED BY <1>1, <1>3, <1>9, <1>10

-----------------------------------------------------------------------------
(* The keys. *)

\* A key comes when nothing is decided, and the next pass begins.
LEMMA KeyDoes ==
    ASSUME IInv, Key \/ NoKey, UNCHANGED <<goal, orphans>>
    PROVE  /\ PhaseFits' /\ intents = <<>> /\ due = FALSE /\ stage' = "join"
<1>1. stage = "keys" /\ stage' = "join" /\ (keys' = keys \/ (keys < MaxKeys /\ keys' = keys + 1))
  BY DEF Key, NoKey
<1>2. keys' \in 0..MaxKeys
  BY <1>1, BoundsAssumption DEF IInv, PhaseFits
<1>3. intents = <<>>
  BY <1>1 DEF IInv, DecisionsFit, DecisionFits
<1>4. due = FALSE
  BY <1>3 DEF IInv, DecisionsFit, FlagsFit
<1>5. PhaseFits'
  BY <1>1, <1>2 DEF IInv, PhaseFits, Stages
<1> QED BY <1>1, <1>3, <1>4, <1>5

\* A key that touches flags only.
LEMMA FlagKeyFits ==
    ASSUME IInv, Key \/ NoKey, UNCHANGED <<goal, orphans>>,
           UNCHANGED <<intents, task, steers, log, queued, mail, words, due>>, FlagsFit'
    PROVE  IInv'
<1>1. PhaseFits' /\ intents' = <<>> /\ due' = FALSE /\ stage' = "join"
  BY KeyDoes
<1>2. DecisionsFit'
  BY <1>1, NothingDecided
<1>3. /\ UNCHANGED <<held, channel, blocked, routed>> /\ UNCHANGED <<shown, dropped, unborn>>
      /\ UNCHANGED <<inbox, events, pending>>
  BY DEF mail, words, steers
<1>4. TaskFits' /\ SteersFit' /\ LogFits' /\ NestedFits' /\ QueuesFit' /\ PlacesFit'
  BY <1>3, TaskStays, SteersStay, LogStays, NestedStay, QueuesStay, PlacesStay DEF IInv
<1> QED BY <1>1, <1>2, <1>4 DEF IInv

\* The keys that move no word.
LEMMA FlagKeysFit ==
    ASSUME IInv, NoKey \/ Types \/ TogglesModal \/ DeliverHeld \/ CancelBackground
    PROVE  IInv'
<1>1. CASE NoKey
  <2>1. UNCHANGED <<intents, task, steers, log, queued, mail, pauses, flags, words, duties, orphans, keys>>
    BY <1>1 DEF NoKey
  <2>2. UNCHANGED <<modal, draft, retry, goal, compact, fired>> /\ UNCHANGED <<due, stopped>>
    BY <2>1 DEF flags, duties
  <2>3. FlagsFit'
    BY <2>1, <2>2, FlagsStay DEF IInv
  <2> QED BY <1>1, <2>1, <2>2, <2>3, FlagKeyFits
<1>2. CASE Types
  <2>1. /\ Key /\ draft' = TRUE
        /\ UNCHANGED <<intents, task, steers, log, queued, mail, pauses, modal, retry, goal, compact, fired,
                       words, duties, orphans>>
    BY <1>2 DEF Types
  <2>2. UNCHANGED <<paused, engaged, gate, seen>> /\ UNCHANGED <<due, stopped>>
    BY <2>1 DEF pauses, duties
  <2>3. FlagsFit'
    BY <2>1, <2>2 DEF IInv, FlagsFit
  <2> QED BY <2>1, <2>2, <2>3, FlagKeyFits
<1>3. CASE TogglesModal
  <2>1. /\ Key /\ modal' = ~modal
        /\ UNCHANGED <<intents, task, steers, log, queued, mail, pauses, draft, retry, goal, compact, fired,
                       words, duties, orphans>>
    BY <1>3 DEF TogglesModal
  <2>2. UNCHANGED <<paused, engaged, gate, seen>> /\ UNCHANGED <<due, stopped>>
    BY <2>1 DEF pauses, duties
  <2>3. FlagsFit'
    BY <2>1, <2>2 DEF IInv, FlagsFit
  <2> QED BY <2>1, <2>2, <2>3, FlagKeyFits
<1>4. CASE DeliverHeld
  <2>1. /\ Key
        /\ paused' = FALSE /\ stopped' = FALSE /\ modal' = FALSE
        /\ UNCHANGED <<intents, task, steers, log, queued, mail, engaged, gate, seen, draft, retry, goal,
                       compact, fired, words, due, orphans>>
    BY <1>4 DEF DeliverHeld
  <2>2. FlagsFit'
    BY <2>1 DEF IInv, FlagsFit
  <2> QED BY <2>1, <2>2, FlagKeyFits
<1>5. CASE CancelBackground
  <2>1. /\ Key
        /\ paused' = TRUE /\ stopped' = TRUE /\ seen' = FALSE
        /\ UNCHANGED <<intents, task, steers, log, queued, mail, engaged, gate, flags,
                       words, due, orphans>>
    BY <1>5 DEF CancelBackground
  <2>2. UNCHANGED <<modal, draft, retry, goal, compact, fired>>
    BY <2>1 DEF flags
  <2>3. FlagsFit'
    BY <2>1, <2>2 DEF IInv, FlagsFit
  <2> QED BY <2>1, <2>2, <2>3, FlagKeyFits
<1> QED BY <1>1, <1>2, <1>3, <1>4, <1>5

\* Esc stops what runs, and what is detached is held.
LEMMA EscFits ==
    ASSUME IInv, Esc
    PROVE  IInv'
<1>1. /\ Key
      /\ \/ Running /\ Stops /\ UNCHANGED draft
         \/ draft' = FALSE /\ UNCHANGED <<task, paused, stopped>>
      /\ UNCHANGED <<intents, steers, log, queued, mail, engaged, gate, seen, modal, retry, goal, compact, fired,
                     words, due, orphans>>
  BY DEF Esc
<1>2. CASE Running /\ Stops /\ UNCHANGED draft
  <2>1. PhaseFits' /\ intents' = <<>> /\ due' = FALSE /\ stage' = "join"
    BY <1>1, KeyDoes
  <2>2. /\ UNCHANGED <<held, channel, blocked, routed>> /\ UNCHANGED <<shown, dropped, unborn>>
        /\ UNCHANGED <<inbox, events, pending>>
    BY <1>1 DEF mail, words, steers
  <2>3. DecisionsFit'
    BY <2>1, NothingDecided
  <2>4. FlagsFit'
    BY <1>1, <1>2 DEF IInv, FlagsFit, Stops
  <2>5. /\ task \in TaskType /\ IsInjective(task.prompt)
        /\ task' = [task EXCEPT !.cancelled = TRUE]
    BY <1>2 DEF IInv, TaskFits, LogFits, Stops
  <2>6. task' \in TaskType /\ task'.kind = task.kind /\ task'.at = task.at /\ task'.prompt = task.prompt /\ task.kind # "none"
    BY <1>2, <2>5 DEF TaskType, Running
  <2>7. TaskFits'
    BY <2>2, <2>6 DEF IInv, TaskFits
  <2>8. LogFits'
    BY <1>1, <2>2, <2>6 DEF IInv, LogFits
  <2>9. SteersFit' /\ NestedFits' /\ QueuesFit' /\ PlacesFit'
    BY <1>1, <2>2, SteersStay, NestedStay, QueuesStay, PlacesStay DEF IInv
  <2> QED BY <2>1, <2>3, <2>4, <2>7, <2>8, <2>9 DEF IInv
<1>3. CASE draft' = FALSE /\ UNCHANGED <<task, paused, stopped>>
  <2>1. FlagsFit'
    BY <1>1, <1>3 DEF IInv, FlagsFit
  <2> QED BY <1>1, <1>3, <2>1, FlagKeyFits
<1> QED BY <1>1, <1>2, <1>3

\* A key that starts a turn in an idle slot.
LEMMA KeyDecides ==
    ASSUME IInv, Key, UNCHANGED <<goal, orphans, gate, due, task, queued>>, task.kind = "none",
           NEW i \in Decision, intents' = Append(intents, i),
           \/ i.do = "start" /\ \E m \in Message : i.words = <<m>>
           \/ i.do = "resume" /\ i.words = <<>>
    PROVE  PhaseFits' /\ DecisionsFit' /\ Decided = <<>> /\ Decided' = i.words
<1>1. PhaseFits' /\ intents = <<>> /\ due = FALSE /\ stage' = "join"
  BY KeyDoes
<1>2. intents' = <<i>>
  BY <1>1
<1>3. task = Empty
  BY DEF IInv, TaskFits
<1>4. DecisionsFit'
  BY <1>1, <1>2, <1>3 DEF DecisionsFit, DecisionFits
<1> QED BY <1>1, <1>2, <1>4 DEF Decided

\* A resume is decided only for an idle slot.
LEMMA RetryFits ==
    ASSUME IInv, Retry
    PROVE  IInv'
<1>1. /\ Key /\ task.kind = "none"
      /\ intents' = Append(intents, Intent("resume", <<>>))
      /\ UNCHANGED <<task, steers, log, queued, mail, pauses, flags, words, duties, orphans>>
  BY DEF Retry, Running
<1>2. /\ UNCHANGED <<held, channel, blocked, routed>> /\ UNCHANGED <<modal, draft, retry, goal, compact, fired>>
      /\ UNCHANGED <<unsent, dropped, shown, unborn>> /\ UNCHANGED <<due, gate>> /\ UNCHANGED <<inbox, events, pending>>
  BY <1>1 DEF mail, flags, words, steers, duties, pauses
<1>3. Intent("resume", <<>>) \in Decision /\ Intent("resume", <<>>).do = "resume" /\ Intent("resume", <<>>).words = <<>>
  BY Short DEF Decision, Intent
<1>4. PhaseFits' /\ DecisionsFit' /\ Decided = <<>> /\ Decided' = <<>>
  BY <1>1, <1>2, <1>3, KeyDecides
<1>5. PlacesFit'
  BY <1>1, <1>2, <1>4 DEF IInv, PlacesFit, Homes, Routed
<1>6. FlagsFit' /\ TaskFits' /\ SteersFit' /\ LogFits' /\ NestedFits' /\ QueuesFit'
  BY <1>1, <1>2, FlagsStay, TaskStays, SteersStay, LogStays, NestedStay, QueuesStay DEF IInv
<1> QED BY <1>4, <1>5, <1>6 DEF IInv

\* A message goes to the slot, to the turn or to the queue.
LEMMA SubmitFits ==
    ASSUME IInv, NEW m \in Message, Submit(m)
    PROVE  IInv'
<1>1. /\ Key /\ m \in unsent
      /\ unsent' = unsent \ {m} /\ draft' = FALSE
      /\ \/ /\ Target = "turn" /\ intents' = Append(intents, Intent("start", <<m>>))
            /\ UNCHANGED <<inbox, pending, queued>>
         \/ /\ Target = "steer" /\ inbox' = Append(inbox, m) /\ pending' = Append(pending, m)
            /\ UNCHANGED <<intents, queued>>
         \/ queued' = Append(queued, m) /\ UNCHANGED <<intents, inbox, pending>>
      /\ UNCHANGED <<task, events, log, mail, pauses, modal, retry, goal, compact, fired,
                     dropped, shown, unborn, duties, orphans>>
  BY DEF Submit
<1>2. UNCHANGED <<held, channel, blocked, routed>> /\ UNCHANGED <<paused, engaged, gate, seen>> /\ UNCHANGED <<due, stopped>>
  BY <1>1 DEF mail, duties, pauses
<1>3. /\ m \in Word /\ m \notin Range(pending) /\ m \notin Range(queued)
  BY <1>1, WordsAre, ApartAre, HomesAre DEF IInv, Home
<1>4. PhaseFits' /\ intents = <<>> /\ due = FALSE /\ stage' = "join"
  BY <1>1, KeyDoes
<1>5. FlagsFit'
  BY <1>1, <1>2 DEF IInv, FlagsFit
<1>6. LogFits' /\ NestedFits'
  BY <1>1, <1>2, LogStays, NestedStay DEF IInv
<1>7. /\ "unsent" \in Home /\ "decided" \in Home /\ "pending" \in Home /\ "queued" \in Home /\ Apart(Homes)
      /\ {m} \subseteq Homes["unsent"] /\ Homes'["unsent"] = Homes["unsent"] \ {m}
      /\ \A k \in Home : k \notin {"unsent", "decided", "pending", "queued"} => Homes'[k] = Homes[k]
  BY <1>1, <1>2, HomesAre, HomesBecome DEF Home, IInv, PlacesFit, Routed
<1>8. CASE /\ Target = "turn" /\ intents' = Append(intents, Intent("start", <<m>>))
           /\ UNCHANGED <<inbox, pending, queued>>
  <2>1. task.kind = "none"
    BY <1>8 DEF Target, Running
  <2>2. <<m>> \in Seq(Word) /\ Range(<<m>>) = {m} /\ Range(<<>>) = {}
    BY <1>3, Short
  <2> DEFINE i == Intent("start", <<m>>)
  <2>3. i \in Decision /\ i.do = "start" /\ i.words = <<m>>
    BY <2>2 DEF Decision, Intent
  <2>4. intents' = Append(intents, i)
    BY <1>8
  <2> HIDE DEF i
  <2>5. DecisionsFit' /\ Decided = <<>> /\ Decided' = <<m>>
    BY <1>1, <1>2, <1>8, <2>1, <2>3, <2>4, KeyDecides
  <2>6. TaskFits' /\ SteersFit' /\ QueuesFit'
    BY <1>1, <1>2, <1>8, TaskStays, SteersStay, QueuesStay DEF IInv, steers
  <2>7. PlacesFit'
    <3>1. /\ Homes'["decided"] = Homes["decided"] \cup {m}
          /\ Homes'["pending"] = Homes["pending"] /\ Homes'["queued"] = Homes["queued"]
      BY <1>8, <2>2, <2>5, HomesAre, HomesBecome
    <3>2. \A k \in Home : k \notin {"unsent", "decided"} => Homes'[k] = Homes[k]
      BY <1>7, <3>1
    <3> QED BY <1>7, <3>1, <3>2, Moves DEF PlacesFit
  <2> QED BY <1>4, <1>5, <1>6, <2>5, <2>6, <2>7 DEF IInv
<1>9. ASSUME intents' = intents
      PROVE  DecisionsFit' /\ Homes'["decided"] = Homes["decided"]
  <2>1. DecisionsFit'
    BY <1>2, <1>4, <1>9, NothingDecided
  <2> QED BY <1>9, <2>1, HomesAre, HomesBecome DEF Decided
<1>10. CASE /\ Target = "steer" /\ inbox' = Append(inbox, m) /\ pending' = Append(pending, m)
            /\ UNCHANGED <<intents, queued>>
  <2>1. task.kind = "turn"
    BY <1>10 DEF Target, Running, Steerable
  <2>2. TaskFits'
    BY <1>1, <2>1 DEF IInv, TaskFits
  <2>3. /\ inbox \in Seq(Word) /\ pending \in Seq(Word) /\ events \in Seq(Word)
        /\ IsInjective(inbox) /\ IsInjective(pending) /\ IsInjective(events)
        /\ Range(events) \subseteq Range(pending) /\ Range(inbox) \subseteq Range(pending)
        /\ Range(events) \cap Range(inbox) = {}
    BY DEF IInv, SteersFit
  <2>4. inbox' \in Seq(Word) /\ IsInjective(inbox') /\ Range(inbox') = Range(inbox) \cup {m}
    BY <1>3, <1>10, <2>3, Appended
  <2>5. pending' \in Seq(Word) /\ IsInjective(pending') /\ Range(pending') = Range(pending) \cup {m}
    BY <1>3, <1>10, <2>3, Appended
  <2>6. SteersFit'
    BY <1>1, <1>3, <2>3, <2>4, <2>5 DEF SteersFit
  <2>7. QueuesFit'
    BY <1>2, <1>10, QueuesStay DEF IInv
  <2>8. PlacesFit'
    <3>1. Homes'["pending"] = Homes["pending"] \cup {m} /\ Homes'["queued"] = Homes["queued"]
      BY <1>10, <2>5, HomesAre, HomesBecome
    <3>2. \A k \in Home : k \notin {"unsent", "pending"} => Homes'[k] = Homes[k]
      BY <1>7, <1>9, <1>10, <3>1
    <3> QED BY <1>7, <3>1, <3>2, Moves DEF PlacesFit
  <2> QED BY <1>4, <1>5, <1>6, <1>9, <1>10, <2>2, <2>6, <2>7, <2>8 DEF IInv
<1>11. CASE queued' = Append(queued, m) /\ UNCHANGED <<intents, inbox, pending>>
  <2>1. TaskFits' /\ SteersFit'
    BY <1>1, <1>11, TaskStays, SteersStay DEF IInv, steers
  <2>2. queued' \in Seq(Word) /\ IsInjective(queued') /\ Range(queued') = Range(queued) \cup {m}
    BY <1>3, <1>11, Appended DEF IInv, QueuesFit
  <2>3. QueuesFit'
    BY <1>2, <2>2 DEF IInv, QueuesFit
  <2>4. PlacesFit'
    <3>1. Homes'["queued"] = Homes["queued"] \cup {m} /\ Homes'["pending"] = Homes["pending"]
      BY <1>11, <2>2, HomesAre, HomesBecome
    <3>2. \A k \in Home : k \notin {"unsent", "queued"} => Homes'[k] = Homes[k]
      BY <1>7, <1>9, <1>11, <3>1
    <3> QED BY <1>7, <3>1, <3>2, Moves DEF PlacesFit
  <2> QED BY <1>4, <1>5, <1>6, <1>9, <1>11, <2>1, <2>3, <2>4 DEF IInv
<1> QED BY <1>1, <1>8, <1>10, <1>11

\* A queued message goes back to the person.
LEMMA TakesBackFits ==
    ASSUME IInv, NEW k \in DOMAIN queued, TakesBack(k)
    PROVE  IInv'
<1> DEFINE w == queued[k]
<1>1. /\ Key
      /\ queued' = RemoveAt(queued, k) /\ dropped' = dropped \cup {w}
      /\ modal' \in {modal, FALSE} /\ draft' \in {draft, TRUE}
      /\ UNCHANGED <<intents, task, steers, log, mail, pauses, retry, goal, compact, fired,
                     unsent, shown, unborn, duties, orphans>>
  BY DEF TakesBack
<1>2. /\ UNCHANGED <<held, channel, blocked, routed>> /\ UNCHANGED <<paused, engaged, gate, seen>>
      /\ UNCHANGED <<due, stopped>> /\ UNCHANGED <<inbox, events, pending>>
  BY <1>1 DEF mail, duties, pauses, steers
<1>3. /\ w \in Range(queued) /\ queued' \in Seq(Word) /\ IsInjective(queued') /\ Range(queued') = Range(queued) \ {w}
  BY <1>1, TakenOut DEF IInv, QueuesFit
<1> HIDE DEF w
<1>4. PhaseFits' /\ intents = <<>> /\ due = FALSE /\ stage' = "join"
  BY <1>1, KeyDoes
<1>5. DecisionsFit'
  BY <1>1, <1>2, <1>4, NothingDecided
<1>6. FlagsFit'
  BY <1>1, <1>2 DEF IInv, FlagsFit
<1>7. NestedFits'
  BY <1>1, <1>2 DEF IInv, NestedFits
<1>8. QueuesFit'
  BY <1>2, <1>3 DEF IInv, QueuesFit
<1>9. PlacesFit'
  <2>1. /\ Homes'["queued"] = Homes["queued"] \ {w} /\ Homes'["dropped"] = Homes["dropped"] \cup {w}
        /\ {w} \subseteq Homes["queued"]
    BY <1>1, <1>3, HomesAre, HomesBecome
  <2>2. \A i \in Home : i \notin {"queued", "dropped"} => Homes'[i] = Homes[i]
    BY <1>1, <1>2, HomesAre, HomesBecome DEF Home, Decided, Routed
  <2>3. "queued" \in Home /\ "dropped" \in Home /\ Apart(Homes)
    BY DEF Home, IInv, PlacesFit
  <2> QED BY <2>1, <2>2, <2>3, Moves DEF PlacesFit
<1>10. TaskFits' /\ SteersFit' /\ LogFits'
  BY <1>1, <1>2, TaskStays, SteersStay, LogStays DEF IInv
<1> QED BY <1>4, <1>5, <1>6, <1>7, <1>8, <1>9, <1>10 DEF IInv

-----------------------------------------------------------------------------
(* The theorems. *)

\* It holds at the start.
LEMMA InitFits ==
    ASSUME Init
    PROVE  IInv
<1>1. /\ stage = "join" /\ intents = <<>> /\ task = Empty
      /\ inbox = <<>> /\ events = <<>> /\ pending = <<>> /\ log = <<>> /\ queued = <<>>
      /\ held = <<>> /\ channel = <<>> /\ blocked = <<>> /\ routed = {}
      /\ paused = FALSE /\ engaged = FALSE /\ gate = FALSE /\ seen = FALSE
      /\ modal = FALSE /\ draft = FALSE /\ retry = FALSE /\ goal = NoGoal /\ compact = FALSE
      /\ fired = FALSE /\ shown = {} /\ stopped = FALSE /\ due = FALSE /\ orphans = 0 /\ keys = 0
  BY DEF Init
<1>2. PICK day \in Days : unsent = day \cap Message /\ unborn = day \cap Note /\ dropped = Word \ day
  BY DEF Init
<1>3. /\ <<>> \in Seq(Word) /\ <<>> \in Seq(Note) /\ Range(<<>>) = {} /\ IsInjective(<<>>)
  BY Short
<1>4. PhaseFits
  BY <1>1, BoundsAssumption DEF PhaseFits, Stages
<1>5. FlagsFit
  BY <1>1 DEF FlagsFit
<1>6. TaskFits /\ LogFits
  BY <1>1, <1>3, EmptyIs DEF TaskFits, LogFits
<1>7. DecisionsFit
  BY <1>1 DEF DecisionsFit
<1>8. SteersFit /\ QueuesFit
  BY <1>1, <1>3 DEF SteersFit, QueuesFit
<1>9. NestedFits
  <2>1. ASSUME NEW f \in Foreign, f \notin dropped PROVE Nested[f] \in unborn
    <3>1. f \in day \cap Foreign
      BY <1>2, <2>1, WordsAre
    <3>2. Nested[f] \in day /\ Nested[f] \in Note
      BY <3>1, DaysAssumption, WordsAre
    <3> QED BY <1>2, <3>2
  <2> QED BY <1>1, <2>1 DEF NestedFits
<1>10. PlacesFit
  <2>1. day \subseteq Word /\ Message \cap Note = {} /\ Word = Message \cup Note
    BY DaysAssumption, WordsAre DEF Word
  <2>2. /\ Homes["shown"] = {} /\ Homes["routed"] = {} /\ Homes["queued"] = {} /\ Homes["pending"] = {}
        /\ Homes["held"] = {} /\ Homes["channel"] = {} /\ Homes["blocked"] = {} /\ Homes["decided"] = {}
    BY <1>1, <1>3, HomesAre DEF Routed, Decided
  <2>3. Homes["unsent"] = day \cap Message /\ Homes["unborn"] = day \cap Note /\ Homes["dropped"] = Word \ day
    BY <1>2, HomesAre
  <2>4. \A w \in Word : \E i \in {"unsent", "unborn", "dropped"} : w \in Homes[i]
    BY <2>1, <2>3
  <2>5. \A i \in Home : i \in {"unsent", "unborn", "dropped"} \/ Homes[i] = {}
    BY <2>2 DEF Home
  <2>6. \A i, j \in {"unsent", "unborn", "dropped"} : i # j => Homes[i] \cap Homes[j] = {}
    BY <2>1, <2>3
  <2>7. \A i \in {"unsent", "unborn", "dropped"} : i \in Home /\ Homes[i] \subseteq Word
    BY <2>1, <2>3 DEF Home
  <2> QED BY <2>4, <2>5, <2>6, <2>7 DEF PlacesFit, Apart
<1> QED BY <1>4, <1>5, <1>6, <1>7, <1>8, <1>9, <1>10 DEF IInv

\* Whatever step is taken, the invariant holds on.
LEMMA NextFits ==
    ASSUME IInv, Next
    PROVE  IInv'
<1>1. CASE TaskSteps
  BY <1>1, TurnTakesThePromptFits, TurnTakesSteersFits, TurnClosesFits, SlotFinishesFits DEF TaskSteps
<1>2. CASE Delivering
  BY <1>2, DeliveryEndsFits DEF Delivering
<1>3. CASE LoopSteps
  <2>1. CASE ReadsSteered \/ JoinTurn \/ JoinCompaction \/ NoJoin
    BY <2>1, ReadsSteeredFits, JoinTurnFits, JoinCompactionFits, NoJoinFits
  <2>2. CASE \E r \in routed : JoinDelivery(r)
    BY <2>2, JoinDeliveryFits
  <2>3. CASE PerformStart \/ PerformOther \/ Compacts \/ OpensTheGate
    BY <2>3, PerformStartFits, PerformOtherFits, CompactsFits, OpensTheGateFits
  <2>4. CASE \E n \in Note : Routes(n) \/ StartsNotificationTurn(n) \/ SteersNotification(n)
    BY <2>4, RoutesFits, StartsNotificationTurnFits, SteersNotificationFits
  <2>5. CASE Presents \/ NoKey
    BY <2>5, PresentsFits, FlagKeysFit
  <2> QED BY <1>3, <2>1, <2>2, <2>3, <2>4, <2>5 DEF LoopSteps
<1>4. CASE Keys
  <2>1. CASE \E m \in Message : Submit(m)
    BY <2>1, SubmitFits
  <2>2. CASE Types \/ Esc \/ Retry \/ TogglesModal \/ DeliverHeld \/ CancelBackground
    BY <2>2, FlagKeysFit, EscFits, RetryFits
  <2>3. CASE \E k \in DOMAIN queued : TakesBack(k)
    BY <2>3, TakesBackFits
  <2> QED BY <1>4, <2>1, <2>2, <2>3 DEF Keys
<1>5. CASE \E n \in Note : ResultArrives(n)
  BY <1>5, ResultArrivesFits
<1>6. CASE StallAborts
  BY <1>6, StallAbortsFits
<1> QED BY <1>1, <1>2, <1>3, <1>4, <1>5, <1>6 DEF Next

\* The stages, the slot, what is decided, the steers, the log and the place of every
\* word fit together in every state the loop reaches.
THEOREM Invariance == Spec => []IInv
<1>1. Init => IInv
  BY InitFits
<1>2. IInv /\ [Next]_vars => IInv'
  BY NextFits, AllStays
<1> QED BY <1>1, <1>2, PTL DEF Spec

\* Every variable of the loop keeps its type; a goal has no round over its cap.
THEOREM TypeCorrect == Spec => []TypeOK
<1>1. IInv => TypeOK
  BY TypesHold
<1> QED BY <1>1, Invariance, PTL

\* No turn's handle is overwritten by another's (spawn_root_turn and its callers).
THEOREM OneTurn == Spec => []OneTurnAtATime
<1>1. IInv => OneTurnAtATime
  BY DEF IInv, PhaseFits, OneTurnAtATime
<1> QED BY <1>1, Invariance, PTL

\* What waits, as one sequence: nothing is in it twice.
LEMMA WaitingFits ==
    ASSUME IInv
    PROVE  /\ IsInjective(Waiting)
           /\ Range(Waiting) = Range(queued) \cup Range(pending) \cup Range(held) \cup Range(channel)
                                   \cup Range(blocked) \cup Range(Decided)
<1>1. /\ queued \in Seq(Word) /\ pending \in Seq(Word) /\ held \in Seq(Word) /\ channel \in Seq(Word)
      /\ blocked \in Seq(Word) /\ IsInjective(queued) /\ IsInjective(pending) /\ IsInjective(held)
      /\ IsInjective(channel) /\ IsInjective(blocked)
  BY NotesAreWords DEF IInv, QueuesFit, SteersFit
<1>2. Decided \in Seq(Word) /\ IsInjective(Decided)
  <2>1. CASE intents = <<>>
    BY <2>1, Short DEF Decided
  <2>2. CASE intents # <<>>
    <3>1. PICK i \in Decision : intents = <<i>> /\ DecisionFits(i)
      BY <2>2 DEF IInv, DecisionsFit
    <3>2. Decided = i.words
      BY <3>1 DEF Decided
    <3>3. CASE i.do = "start"
      <4>1. PICK m \in Message : i.words = <<m>>
        BY <3>1, <3>3 DEF DecisionFits
      <4> QED BY <3>2, <4>1, WordsAre, Short
    <3>4. CASE i.do # "start"
      BY <3>1, <3>2, <3>4, Short DEF DecisionFits
    <3> QED BY <3>3, <3>4
  <2> QED BY <2>1, <2>2
<1>3. /\ \A t \in {pending, held, channel, blocked, Decided} : Range(queued) \cap Range(t) = {}
      /\ \A t \in {held, channel, blocked, Decided} : Range(pending) \cap Range(t) = {}
      /\ \A t \in {channel, blocked, Decided} : Range(held) \cap Range(t) = {}
      /\ \A t \in {blocked, Decided} : Range(channel) \cap Range(t) = {}
      /\ Range(blocked) \cap Range(Decided) = {}
  <2>1. \A i, j \in {"queued", "pending", "held", "channel", "blocked", "decided"} : i # j => Homes[i] \cap Homes[j] = {}
    BY ApartAre DEF IInv, Home
  <2> QED BY <2>1, HomesAre
<1> DEFINE two == queued \o pending
           three == two \o held
           four == three \o channel
           five == four \o blocked
<1>4. two \in Seq(Word) /\ IsInjective(two) /\ Range(two) = Range(queued) \cup Range(pending)
  BY <1>1, <1>3, Joined
<1>5. Waiting = five \o Decided
  BY DEF Waiting
<1> HIDE DEF two
<1>6. three \in Seq(Word) /\ IsInjective(three) /\ Range(three) = Range(two) \cup Range(held)
  <2>1. Range(two) \cap Range(held) = {}
    BY <1>3, <1>4
  <2> QED BY <1>1, <1>4, <2>1, Joined
<1> HIDE DEF three
<1>7. four \in Seq(Word) /\ IsInjective(four) /\ Range(four) = Range(three) \cup Range(channel)
  <2>1. Range(three) \cap Range(channel) = {}
    BY <1>3, <1>4, <1>6
  <2> QED BY <1>1, <1>6, <2>1, Joined
<1> HIDE DEF four
<1>8. five \in Seq(Word) /\ IsInjective(five) /\ Range(five) = Range(four) \cup Range(blocked)
  <2>1. Range(four) \cap Range(blocked) = {}
    BY <1>3, <1>4, <1>6, <1>7
  <2> QED BY <1>1, <1>7, <2>1, Joined
<1> HIDE DEF five
<1>9. IsInjective(five \o Decided) /\ Range(five \o Decided) = Range(five) \cup Range(Decided)
  <2>1. Range(five) \cap Range(Decided) = {}
    BY <1>3, <1>4, <1>6, <1>7, <1>8
  <2> QED BY <1>2, <1>8, <2>1, Joined
<1> QED BY <1>4, <1>5, <1>6, <1>7, <1>8, <1>9

\* Nothing said or reported is lost, doubled or said again.
LEMMA WordsFit ==
    ASSUME IInv
    PROVE  EveryWordOnce
<1> DEFINE sets == <<unsent, dropped, shown, unborn, {r.note : r \in routed}, Range(Waiting)>>
           queues == {"queued", "pending", "held", "channel", "blocked", "decided"}
<1>1. /\ IsInjective(Waiting)
      /\ Range(Waiting) = Range(queued) \cup Range(pending) \cup Range(held) \cup Range(channel)
                              \cup Range(blocked) \cup Range(Decided)
  BY WaitingFits
<1>2. Range(Waiting) = UNION {Homes[i] : i \in queues}
  BY <1>1, HomesAre
<1>3. /\ sets[1] = Homes["unsent"] /\ sets[2] = Homes["dropped"] /\ sets[3] = Homes["shown"]
      /\ sets[4] = Homes["unborn"] /\ sets[5] = Homes["routed"] /\ sets[6] = Range(Waiting)
      /\ DOMAIN sets = 1 .. 6
  BY HomesAre DEF Routed
<1>4. /\ \A w \in Word : \E i \in Home : w \in Homes[i]
      /\ \A i \in Home : Homes[i] \subseteq Word
      /\ \A i, j \in Home : i # j => Homes[i] \cap Homes[j] = {}
  BY DEF IInv, PlacesFit, Apart
<1>5. Home = {"unsent", "dropped", "shown", "unborn", "routed"} \cup queues
  BY DEF Home
<1> HIDE DEF sets
<1>6. UNION Range(sets) = Word
  <2>1. Range(sets) = {sets[1], sets[2], sets[3], sets[4], sets[5], sets[6]}
    BY <1>3 DEF Range
  <2>2. Range(Waiting) \subseteq Word
    BY <1>2, <1>4, <1>5
  <2>3. UNION Range(sets) \subseteq Word
    BY <1>3, <1>4, <1>5, <2>1, <2>2
  <2>4. ASSUME NEW w \in Word PROVE w \in UNION Range(sets)
    <3>1. PICK i \in Home : w \in Homes[i]
      BY <1>4
    <3>2. CASE i \in queues
      BY <1>2, <1>3, <2>1, <3>1, <3>2
    <3>3. CASE i \in {"unsent", "dropped", "shown", "unborn", "routed"}
      BY <1>3, <2>1, <3>1, <3>3
    <3> QED BY <1>5, <3>2, <3>3
  <2> QED BY <2>3, <2>4
<1>7. \A i \in {"unsent", "dropped", "shown", "unborn", "routed"} : Homes[i] \cap Range(Waiting) = {}
  BY <1>2, <1>4, <1>5
<1>8. \A i, j \in DOMAIN sets : i # j => sets[i] \cap sets[j] = {}
  <2>1. \A i, j \in {"unsent", "dropped", "shown", "unborn", "routed"} : i # j => Homes[i] \cap Homes[j] = {}
    BY <1>4, <1>5
  <2>2. \A i \in 1 .. 6 : i = 1 \/ i = 2 \/ i = 3 \/ i = 4 \/ i = 5 \/ i = 6
    OBVIOUS
  <2>3. \A i \in 1 .. 6 : \/ i = 6 /\ sets[i] = Range(Waiting)
                          \/ \E h \in {"unsent", "dropped", "shown", "unborn", "routed"} : i # 6 /\ sets[i] = Homes[h]
    BY <1>3, <2>2
  <2>4. ASSUME NEW i \in 1 .. 5, NEW j \in 1 .. 5, i # j PROVE sets[i] \cap sets[j] = {}
    <3>1. \A k \in 1 .. 5 : k = 1 \/ k = 2 \/ k = 3 \/ k = 4 \/ k = 5
      OBVIOUS
    <3>2. CASE i = 1
      BY <1>3, <2>1, <2>4, <3>1, <3>2
    <3>3. CASE i = 2
      BY <1>3, <2>1, <2>4, <3>1, <3>3
    <3>4. CASE i = 3
      BY <1>3, <2>1, <2>4, <3>1, <3>4
    <3>5. CASE i = 4
      BY <1>3, <2>1, <2>4, <3>1, <3>5
    <3>6. CASE i = 5
      BY <1>3, <2>1, <2>4, <3>1, <3>6
    <3> QED BY <3>1, <3>2, <3>3, <3>4, <3>5, <3>6
  <2>5. \A i, j \in 1 .. 6 : i # j => (i \in 1 .. 5 /\ j \in 1 .. 5) \/ i = 6 \/ j = 6
    OBVIOUS
  <2>6. \A i \in 1 .. 6 : i # 6 => sets[i] \cap Range(Waiting) = {}
    BY <1>7, <2>3
  <2> QED BY <1>3, <2>4, <2>5, <2>6
<1>9. IsInjective(log) /\ Range(log) \subseteq shown \cup Range(events)
  BY DEF IInv, LogFits
<1> QED BY <1>1, <1>6, <1>8, <1>9 DEF EveryWordOnce, sets

\* Every message and every result is in one place, and the log says it once
\* (queued_messages, pending_steers, the notifications and the outcomes of routing).
THEOREM WordsOnce == Spec => []EveryWordOnce
<1>1. IInv => EveryWordOnce
  BY WordsFit
<1> QED BY <1>1, Invariance, PTL

\* The slot a completed operation leaves goes to the queued message before any
\* result (settle, after_turn).
THEOREM QueueFirst == Spec => QueueOutranksResults
<1>1. IInv /\ [Next]_vars => [NoteStarts => ~due]_vars
  <2>1. SUFFICES ASSUME IInv, NoteStarts PROVE ~due
    OBVIOUS
  <2>2. stage = "mail"
    BY <2>1 DEF NoteStarts
  <2>3. intents = <<>>
    BY <2>1, <2>2 DEF IInv, DecisionsFit, DecisionFits
  <2> QED BY <2>1, <2>3 DEF IInv, DecisionsFit
<1> QED BY <1>1, Invariance, PTL DEF Spec, QueueOutranksResults

\* What the person stopped stays stopped: no result starts a turn or leaves for
\* another session (pause_for_detached, next_notification).
THEOREM StopsAreQuiet == Spec => StopIsQuiet
<1>1. ASSUME IInv, Next, stopped PROVE ~NoteStarts /\ {r.note : r \in routed'} \subseteq {r.note : r \in routed}
  <2>1. paused
    BY <1>1 DEF IInv, FlagsFit
  <2>2. \A n \in Note : ~Takes(n)
    BY <2>1 DEF Takes
  <2>3. \A n \in Note : ~Routes(n) /\ ~StartsNotificationTurn(n) /\ ~SteersNotification(n)
    BY <2>2 DEF Routes, StartsNotificationTurn, SteersNotification
  <2>4. SUFFICES (task'.prompt = task.prompt \/ stage # "mail") /\ {r.note : r \in routed'} \subseteq {r.note : r \in routed}
    BY DEF NoteStarts
  <2>5. CASE TaskSteps
    <3>1. routed' = routed
      BY <2>5 DEF TaskSteps, TurnTakesThePrompt, TurnTakesSteers, TurnCloses, TurnFinishes,
                  CompactionFinishes, mail
    <3>2. task'.prompt = task.prompt
      <4>1. task \in TaskType
        BY <1>1 DEF IInv, TaskFits
      <4>2. CASE TurnTakesThePrompt \/ TurnFinishes
        BY <4>1, <4>2 DEF TurnTakesThePrompt, TurnFinishes, TaskType
      <4>3. CASE TurnTakesSteers
        BY <4>3 DEF TurnTakesSteers
      <4>4. CASE TurnCloses
        BY <4>1, <4>4 DEF TurnCloses, TaskType
      <4>5. CASE CompactionFinishes
        BY <4>1, <4>5 DEF CompactionFinishes, TaskType
      <4> QED BY <2>5, <4>2, <4>3, <4>4, <4>5 DEF TaskSteps
    <3> QED BY <3>1, <3>2
  <2>6. CASE Delivering
    <3>1. PICK r \in routed : DeliveryEnds(r)
      BY <2>6 DEF Delivering
    <3>2. PICK end \in {"delivered", "propagate", "hold", "failed"} :
             routed' = (routed \ {r}) \cup {[r EXCEPT !.end = end]}
      BY <3>1 DEF DeliveryEnds
    <3>3. r \in [note : Foreign, end : {"none", "delivered", "propagate", "hold", "failed"}]
      BY <1>1 DEF IInv, NestedFits
    <3>4. [r EXCEPT !.end = end].note = r.note
      BY <3>3
    <3>5. task' = task
      BY <3>1 DEF DeliveryEnds
    <3> QED BY <3>2, <3>4, <3>5
  <2>7. CASE LoopSteps
    <3>1. CASE ReadsSteered \/ JoinTurn \/ JoinCompaction \/ NoJoin
      <4>1. routed' = routed /\ stage # "mail"
        BY <3>1 DEF ReadsSteered, JoinTurn, JoinCompaction, NoJoin, mail
      <4> QED BY <4>1
    <3>2. ASSUME NEW r \in routed, JoinDelivery(r) PROVE task' = task /\ routed' = routed \ {r}
      BY <3>2 DEF JoinDelivery
    <3>3. CASE PerformStart \/ PerformOther \/ Compacts \/ OpensTheGate
      <4>1. routed' = routed /\ stage # "mail"
        BY <3>3 DEF PerformStart, PerformOther, Compacts, OpensTheGate, Drained, mail
      <4> QED BY <4>1
    <3>4. CASE Presents \/ NoKey
      BY <3>4 DEF Presents, NoKey, mail
    <3>5. CASE \E r \in routed : JoinDelivery(r)
      BY <3>2, <3>5
    <3> QED BY <2>3, <2>7, <3>1, <3>3, <3>4, <3>5 DEF LoopSteps
  <2>8. CASE Keys
    <3>1. stage = "keys"
      BY <2>8 DEF Keys, Key, Submit, Types, Esc, Retry, TogglesModal, DeliverHeld, CancelBackground, TakesBack
    <3>2. routed' = routed
      <4>1. ASSUME NEW m \in Message, Submit(m) PROVE routed' = routed
        BY <4>1 DEF Submit, mail
      <4>2. ASSUME NEW k \in DOMAIN queued, TakesBack(k) PROVE routed' = routed
        BY <4>2 DEF TakesBack, mail
      <4>3. CASE Types \/ Esc \/ Retry \/ TogglesModal \/ DeliverHeld \/ CancelBackground
        BY <4>3 DEF Types, Esc, Retry, TogglesModal, DeliverHeld, CancelBackground, mail
      <4> QED BY <2>8, <4>1, <4>2, <4>3 DEF Keys
    <3> QED BY <3>1, <3>2
  <2>9. CASE \E n \in Note : ResultArrives(n)
    BY <2>9 DEF ResultArrives
  <2>10. CASE StallAborts
    BY <2>10 DEF StallAborts, mail
  <2> QED BY <1>1, <2>5, <2>6, <2>7, <2>8, <2>9, <2>10 DEF Next
<1>2. IInv /\ [Next]_vars => [stopped /\ stopped' => ~NoteStarts /\ {r.note : r \in routed'} \subseteq {r.note : r \in routed}]_vars
  BY <1>1
<1> QED BY <1>2, Invariance, PTL DEF Spec, StopIsQuiet
=============================================================================
