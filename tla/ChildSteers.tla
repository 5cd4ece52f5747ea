---------------------------- MODULE ChildSteers ----------------------------
(***************************************************************************)
(* The mailbox of one child session (crates/ilar/src/subagent.rs): what a  *)
(* parent says to a delegated task, and where the words wait until a turn  *)
(* of the child has them in its log.                                       *)
(*                                                                         *)
(* Three kinds of actor share it.  Callers of the message verb steer the   *)
(* running turn, hold the words, or park them and start a resume.  Runs    *)
(* (a background task, a foreground task or a routed completion) claim the *)
(* session, take everything that waits as the head of their prompt, and    *)
(* give it back if their turn never started.  The turn itself drains its   *)
(* channel at step boundaries, publishing a Steered event and then         *)
(* appending the message.  Entries of different sessions share one mutex   *)
(* and nothing else, so one child is modelled; every method body of        *)
(* ChildSteers is one critical section and one atomic step here.           *)
(*                                                                         *)
(* A mirror write is taken to succeed; a log append may fail, and the      *)
(* process may be killed between any two steps.                            *)
(***************************************************************************)
EXTENDS Naturals, Sequences, FiniteSets

CONSTANTS
    Text,           \* the messages that can be said, told apart by their words
    Run,            \* identities of runs of the child session
    Caller,         \* concurrent callers of the message verb
    MaxSay,         \* bound: calls of the message verb and routed steers
    MaxClaims,      \* bound: claims of the session
    MaxCrashes,     \* bound: restarts of the process
    MaxFaults,      \* bound: failed appends
    MaxCuts,        \* bound: cancelled runs whose turn also never started
    NoText, NoRun   \* "no message in hand", "no run"

ASSUME NoTextAssumption == NoText \notin Text
ASSUME NoRunAssumption == NoRun \notin Run
ASSUME BoundsAssumption ==
    /\ MaxSay \in Nat /\ MaxClaims \in Nat /\ MaxCrashes \in Nat
    /\ MaxFaults \in Nat /\ MaxCuts \in Nat

VARIABLES
    \* The child's entry in the map, and its file under steers/.
    loaded, sender, claimed, pending, mirror,
    \* The session claim, and each run's hold, channel and turn.
    claim, pc, kind, queued, chan, drained, hand, events,
    \* Callers of the message verb.
    at, words,
    \* The child's log: how often each message was appended to it.
    reads,
    \* History: how often each message was accepted; the messages dropped
    \* in one of the two windows the properties name; whether a restart or
    \* a dropped foreground call has made a second delivery legitimate; and
    \* the counters of the bounds.
    said, forgotten, replayable, spent

entry == <<loaded, sender, claimed, pending, mirror>>
turn  == <<chan, drained, hand, events>>
runs  == <<claim, pc, kind, queued>>
verb  == <<at, words>>
hist  == <<said, forgotten, replayable, spent>>
vars  == <<entry, runs, turn, verb, reads, hist>>

Elems(s) == {s[i] : i \in DOMAIN s}

\* The first occurrence of t taken out of s.
Without(s, t) ==
    LET at1 == CHOOSE i \in DOMAIN s : s[i] = t /\ \A j \in 1 .. i-1 : s[j] # t
    IN  SubSeq(s, 1, at1 - 1) \o SubSeq(s, at1 + 1, Len(s))

Read == {t \in Text : reads[t] > 0}
Said == {t \in Text : said[t] > 0}
Hands == {hand[r] : r \in Run} \ {NoText}

Kinds == {"background", "foreground", "routed"}
Places == {"idle", "claimed", "begun", "running", "over", "cut", "dropped",
           "settled", "closing"}
\* A run between begin and the end of its hold.
Holding == {"begun", "running", "over", "cut", "dropped"}

Bounds == [say |-> MaxSay, claims |-> MaxClaims, crashes |-> MaxCrashes,
           faults |-> MaxFaults, cuts |-> MaxCuts]
Spend(what) == /\ spent[what] < Bounds[what]
               /\ spent' = [spent EXCEPT ![what] = @ + 1]
-----------------------------------------------------------------------------
(* The methods of ChildSteers, each under the lock. *)

\* What waits for the child: an entry this process has not touched is read
\* off disk first.
Waiting == IF loaded THEN pending ELSE mirror

\* Leave the entry with this content, its mirror rewritten.
Keep(s, c, p) ==
    /\ loaded' = TRUE /\ sender' = s /\ claimed' = c /\ pending' = p
    /\ mirror' = c \o p

\* The same, forgetting an entry that has nothing to say.
KeepOrPrune(s, c, p) ==
    /\ loaded' = (s # NoRun \/ c # <<>> \/ p # <<>>)
    /\ sender' = s /\ claimed' = c /\ pending' = p
    /\ mirror' = c \o p

Begin(s) == Keep(s, Waiting, <<>>)

Queue(t) ==
    Keep(sender, claimed, IF t \in Elems(Waiting) THEN Waiting ELSE Append(Waiting, t))

\* holds and pending: reads that load the entry and prune it again.
Peek == KeepOrPrune(sender, claimed, Waiting)

\* Mutant of Committed: the file is not rewritten.
CommittedUnmirrored ==
    IF loaded THEN /\ loaded' = (sender # NoRun \/ pending # <<>>)
                   /\ claimed' = <<>>
                   /\ UNCHANGED <<sender, pending, mirror>>
              ELSE UNCHANGED entry

Committed ==
    IF loaded THEN KeepOrPrune(sender, <<>>, pending) ELSE UNCHANGED entry

Delivered(t) ==
    IF ~loaded THEN UNCHANGED entry
    ELSE KeepOrPrune(sender, claimed,
                     IF t \in Elems(pending) THEN Without(pending, t) ELSE pending)

\* Mutant of End: what the run gives back goes behind what was said meanwhile.
EndBehind(restored) == KeepOrPrune(NoRun, <<>>, Waiting \o restored)

End(restored) == KeepOrPrune(NoRun, <<>>, restored \o Waiting)

\* The entry has a channel and its receiver is still there.
Steerable == loaded /\ sender # NoRun /\ pc[sender] \in {"begun", "running"}

\* Mutant of Steer: one copy of equal messages is owed, as queue has it.
SteerOwesOnce(t) ==
    /\ Keep(sender, claimed, IF t \in Elems(pending) THEN pending ELSE Append(pending, t))
    /\ chan' = [chan EXCEPT ![sender] = Append(@, t)]

Steer(t) ==
    /\ Keep(sender, claimed, Append(pending, t))
    /\ chan' = [chan EXCEPT ![sender] = Append(@, t)]

Accept(t) == said' = [said EXCEPT ![t] = @ + 1]
-----------------------------------------------------------------------------
(* Callers. *)

Return(c) == /\ at' = [at EXCEPT ![c] = "idle"]
             /\ words' = [words EXCEPT ![c] = NoText]

ForegroundRow ==
    \E r \in Run : pc[r] \notin {"idle", "claimed"} /\ kind[r] = "foreground"

\* task_message, up to its first branch: a foreground row refuses it, a
\* live turn takes it.
SendSteered(c, t) ==
    /\ at[c] = "idle" /\ ~ForegroundRow /\ Steerable
    /\ Spend("say") /\ Steer(t) /\ Accept(t)
    /\ UNCHANGED <<runs, drained, hand, events, verb, reads, forgotten, replayable>>

SendUnsteered(c, t) ==
    /\ at[c] = "idle" /\ ~ForegroundRow /\ ~Steerable
    /\ Spend("say")
    /\ at' = [at EXCEPT ![c] = "unsteered"]
    /\ words' = [words EXCEPT ![c] = t]
    /\ UNCHANGED <<entry, runs, turn, reads, said, forgotten, replayable>>

\* session_is_active decides between holding the words and resuming.
LookAtClaim(c) ==
    /\ at[c] = "unsteered"
    /\ at' = [at EXCEPT ![c] = IF claim # NoRun THEN "hold" ELSE "park"]
    /\ UNCHANGED <<entry, runs, turn, words, reads, hist>>

Hold(c) ==
    /\ at[c] = "hold"
    /\ Queue(words[c]) /\ Accept(words[c])
    /\ Return(c)
    /\ UNCHANGED <<runs, turn, reads, forgotten, replayable, spent>>

\* Parked first, then the resume is attempted.
Park(c) ==
    /\ at[c] = "park"
    /\ Queue(words[c]) /\ Accept(words[c])
    /\ at' = [at EXCEPT ![c] = "resume"]
    /\ UNCHANGED <<runs, turn, words, reads, forgotten, replayable, spent>>

\* run_task declined it (claimed meanwhile, no slot, a failed validation):
\* the verb asks whether the words are still parked.
ResumeDeclined(c) ==
    /\ at[c] = "resume"
    /\ Peek
    /\ Return(c)
    /\ UNCHANGED <<runs, turn, reads, hist>>

\* route_notification offers a result to the live turn by the same method;
\* it is no caller of the verb and no foreground row refuses it.
RouteSteered(t) ==
    /\ Steerable
    /\ Spend("say") /\ Steer(t) /\ Accept(t)
    /\ UNCHANGED <<runs, drained, hand, events, verb, reads, forgotten, replayable>>

\* The tasks tool counts what waits.
Count == Peek /\ UNCHANGED <<runs, turn, verb, reads, hist>>
-----------------------------------------------------------------------------
(* Runs.  The hold is a ChildTurnSteer: taken by Begin, emptied by started, *)
(* given back when it drops.  The claim on the session outlives it.         *)

Idle(r) ==
    /\ chan' = [chan EXCEPT ![r] = <<>>]
    /\ drained' = [drained EXCEPT ![r] = <<>>]
    /\ hand' = [hand EXCEPT ![r] = NoText]

To(r, place) == pc' = [pc EXCEPT ![r] = place]

Claim(r, k) ==
    /\ pc[r] = "idle" /\ claim = NoRun
    /\ Spend("claims")
    /\ claim' = r /\ To(r, "claimed") /\ kind' = [kind EXCEPT ![r] = k]
    /\ UNCHANGED <<entry, queued, turn, verb, reads, said, forgotten, replayable>>

\* The message verb's resume, in either mode, is an ordinary task run.
ResumeClaims(c, r, k) ==
    /\ at[c] = "resume" /\ pc[r] = "idle" /\ claim = NoRun
    /\ k # "routed"
    /\ Spend("claims")
    /\ Return(c)
    /\ claim' = r /\ To(r, "claimed") /\ kind' = [kind EXCEPT ![r] = k]
    /\ UNCHANGED <<entry, queued, turn, reads, said, forgotten, replayable>>

\* open for a task, adopt for a routed completion.
BeginRun(r) ==
    /\ pc[r] = "claimed"
    /\ Begin(IF kind[r] = "routed" THEN NoRun ELSE r)
    /\ queued' = [queued EXCEPT ![r] = Waiting]
    /\ To(r, "begun")
    /\ UNCHANGED <<claim, kind, turn, verb, reads, hist>>

\* A refusal between the claim and the hold, the end of a routed delivery's
\* retries, or the end of the run.
Unclaim(r) ==
    /\ pc[r] \in {"claimed", "closing"}
    /\ claim' = NoRun /\ To(r, "idle") /\ kind' = [kind EXCEPT ![r] = "background"]
    /\ UNCHANGED <<entry, queued, turn, verb, reads, hist>>

\* The prompt append: everything the hold took is in the log.
StartTurn(r) ==
    /\ pc[r] = "begun"
    /\ To(r, "running")
    /\ reads' = [t \in Text |->
          reads[t] + Cardinality({i \in DOMAIN queued[r] : queued[r][i] = t})]
    /\ UNCHANGED <<entry, claim, kind, queued, turn, verb, hist>>

\* Mutant of NeverStart: the run takes it for a turn that appended its prompt.
NeverStartUnmarked(r) ==
    /\ pc[r] = "begun"
    /\ To(r, "over") /\ Idle(r)
    /\ UNCHANGED <<entry, claim, kind, queued, events, verb, reads, hist>>

\* A failure before the append, marked TurnNeverStarted and seen by the run.
NeverStart(r) ==
    /\ pc[r] = "begun"
    /\ To(r, "dropped") /\ Idle(r)
    /\ UNCHANGED <<entry, claim, kind, queued, events, verb, reads, hist>>

\* The same failure under a cancelled background run: the select has already
\* left the turn's branch, and the result it awaits is not looked at.
NeverStartCut(r) ==
    /\ pc[r] = "begun" /\ kind[r] = "background"
    /\ Spend("cuts")
    /\ To(r, "cut") /\ Idle(r)
    /\ UNCHANGED <<entry, claim, kind, queued, events, verb, reads, said, forgotten, replayable>>

\* A step boundary: everything pending in the channel.
Drain(r) ==
    /\ pc[r] = "running" /\ chan[r] # <<>> /\ hand[r] = NoText
    /\ drained' = [drained EXCEPT ![r] = @ \o chan[r]]
    /\ chan' = [chan EXCEPT ![r] = <<>>]
    /\ UNCHANGED <<entry, runs, hand, events, verb, reads, hist>>

\* The confirmation is published first ...
Announce(r) ==
    /\ pc[r] = "running" /\ hand[r] = NoText /\ drained[r] # <<>>
    /\ hand' = [hand EXCEPT ![r] = Head(drained[r])]
    /\ events' = [events EXCEPT ![r] = Append(@, Head(drained[r]))]
    /\ drained' = [drained EXCEPT ![r] = Tail(@)]
    /\ UNCHANGED <<entry, runs, chan, verb, reads, hist>>

\* ... and the message appended after it,
AppendSteer(r) ==
    /\ hand[r] # NoText
    /\ reads' = [reads EXCEPT ![hand[r]] = @ + 1]
    /\ hand' = [hand EXCEPT ![r] = NoText]
    /\ UNCHANGED <<entry, runs, chan, drained, events, verb, hist>>

\* Mutant of AppendSteerFails: the message stays in hand after its turn.
AppendSteerFailsInHand(r) ==
    /\ hand[r] # NoText
    /\ Spend("faults")
    /\ forgotten' = forgotten \cup {hand[r]}
    /\ To(r, "over")
    /\ UNCHANGED <<entry, claim, kind, queued, turn, verb, reads, said, replayable>>

\* unless the append fails, which ends the turn.
AppendSteerFails(r) ==
    /\ hand[r] # NoText
    /\ Spend("faults")
    /\ forgotten' = forgotten \cup {hand[r]}
    /\ To(r, "over") /\ Idle(r)
    /\ UNCHANGED <<entry, claim, kind, queued, events, verb, reads, said, replayable>>

\* The turn is over: finished, failed, aborted, out of iterations, or dropped
\* after the abort grace.  Its receiver goes, and what it had drained but not
\* announced goes with it.
EndTurn(r) ==
    /\ pc[r] = "running" /\ hand[r] = NoText
    /\ To(r, "over") /\ Idle(r)
    /\ UNCHANGED <<entry, claim, kind, queued, events, verb, reads, hist>>

\* Mutant of Publish: the watcher stops with the turn and leaves events behind.
PublishWhileRunning(r) ==
    /\ events[r] # <<>> /\ pc[r] = "running"
    /\ kind[r] = "foreground" => hand[r] = NoText
    /\ Delivered(Head(events[r]))
    /\ events' = [events EXCEPT ![r] = Tail(@)]
    /\ UNCHANGED <<runs, chan, drained, hand, verb, reads, hist>>

\* ActivityPublisher::publish of a Steered event: on a task of its own for a
\* background run, between polls of the turn for a foreground one.
Publish(r) ==
    /\ events[r] # <<>>
    /\ kind[r] = "foreground" => hand[r] = NoText
    /\ Delivered(Head(events[r]))
    /\ events' = [events EXCEPT ![r] = Tail(@)]
    /\ UNCHANGED <<runs, chan, drained, hand, verb, reads, hist>>

\* Mutant of Started: the hold keeps what its turn has read.
StartedKeepsQueue(r) ==
    /\ pc[r] \in {"over", "cut"} /\ events[r] = <<>>
    /\ Committed
    /\ To(r, "settled")
    /\ forgotten' = forgotten \cup
          (IF pc[r] = "cut" THEN Elems(queued[r]) ELSE {})
    /\ UNCHANGED <<claim, kind, queued, turn, verb, reads, said, replayable, spent>>

\* Every event has been drained: the hold counts its messages as read.
Started(r) ==
    /\ pc[r] \in {"over", "cut"} /\ events[r] = <<>>
    /\ Committed
    /\ queued' = [queued EXCEPT ![r] = <<>>]
    /\ To(r, "settled")
    /\ forgotten' = forgotten \cup
          (IF pc[r] = "cut" THEN Elems(queued[r]) ELSE {})
    /\ UNCHANGED <<claim, kind, turn, verb, reads, said, replayable, spent>>

\* The hold drops; a task that lost its lease never reached its turn.  A routed
\* attempt that never started is back where it took the hold, to try again
\* under the same claim or give up.
Release(r) ==
    /\ \/ pc[r] \in {"dropped", "settled"}
       \/ pc[r] = "begun" /\ kind[r] # "routed"
    /\ events[r] = <<>>
    /\ End(queued[r])
    /\ queued' = [queued EXCEPT ![r] = <<>>]
    /\ To(r, IF kind[r] = "routed" /\ pc[r] = "dropped" THEN "claimed" ELSE "closing")
    /\ Idle(r)
    /\ UNCHANGED <<claim, kind, events, verb, reads, hist>>

\* Mutant of Abandon: the claim is released before the hold drops.
AbandonUnclaims(r) ==
    /\ pc[r] \in {"begun", "running"} /\ kind[r] = "foreground"
    /\ hand[r] = NoText
    /\ To(r, "dropped") /\ Idle(r)
    /\ events' = [events EXCEPT ![r] = <<>>]
    /\ claim' = NoRun /\ replayable' = TRUE
    /\ UNCHANGED <<entry, kind, queued, verb, reads, said, forgotten, spent>>

\* The parent's turn is cancelled and the executor drops the foreground
\* call where it stands: no started, whatever the log says.
Abandon(r) ==
    /\ pc[r] \in {"begun", "running"} /\ kind[r] = "foreground"
    /\ hand[r] = NoText
    /\ To(r, "dropped") /\ Idle(r)
    /\ events' = [events EXCEPT ![r] = <<>>]
    /\ replayable' = TRUE
    /\ UNCHANGED <<entry, claim, kind, queued, verb, reads, said, forgotten, spent>>

\* The process is killed; the mirror and the log are what the next one has.
Crash ==
    /\ Spend("crashes")
    /\ loaded' = FALSE /\ sender' = NoRun /\ claimed' = <<>> /\ pending' = <<>>
    /\ claim' = NoRun
    /\ pc' = [r \in Run |-> "idle"]
    /\ queued' = [r \in Run |-> <<>>]
    /\ chan' = [r \in Run |-> <<>>]
    /\ drained' = [r \in Run |-> <<>>]
    /\ hand' = [r \in Run |-> NoText]
    /\ events' = [r \in Run |-> <<>>]
    /\ at' = [c \in Caller |-> "idle"] /\ words' = [c \in Caller |-> NoText]
    /\ kind' = [r \in Run |-> "background"]
    /\ forgotten' = forgotten \cup Hands
    /\ replayable' = TRUE
    /\ UNCHANGED <<mirror, reads, said>>
-----------------------------------------------------------------------------
Init ==
    /\ loaded = FALSE /\ sender = NoRun
    /\ claimed = <<>> /\ pending = <<>> /\ mirror = <<>>
    /\ claim = NoRun
    /\ pc = [r \in Run |-> "idle"]
    /\ kind = [r \in Run |-> "background"]
    /\ queued = [r \in Run |-> <<>>]
    /\ chan = [r \in Run |-> <<>>]
    /\ drained = [r \in Run |-> <<>>]
    /\ hand = [r \in Run |-> NoText]
    /\ events = [r \in Run |-> <<>>]
    /\ at = [c \in Caller |-> "idle"]
    /\ words = [c \in Caller |-> NoText]
    /\ reads = [t \in Text |-> 0]
    /\ said = [t \in Text |-> 0]
    /\ forgotten = {} /\ replayable = FALSE
    /\ spent = [what \in DOMAIN Bounds |-> 0]

CallerStep(c) ==
    \/ \E t \in Text : SendSteered(c, t) \/ SendUnsteered(c, t)
    \/ LookAtClaim(c) \/ Hold(c) \/ Park(c) \/ ResumeDeclined(c)
    \/ \E r \in Run, k \in Kinds : ResumeClaims(c, r, k)

RunStep(r) ==
    \/ \E k \in Kinds : Claim(r, k)
    \/ BeginRun(r) \/ Unclaim(r) \/ Started(r) \/ Release(r)
    \/ Abandon(r)

TurnStep(r) ==
    \/ StartTurn(r) \/ NeverStart(r) \/ NeverStartCut(r)
    \/ Drain(r) \/ Announce(r) \/ AppendSteer(r) \/ AppendSteerFails(r)
    \/ EndTurn(r)

Next ==
    \/ \E c \in Caller : CallerStep(c)
    \/ \E r \in Run : RunStep(r) \/ TurnStep(r) \/ Publish(r)
    \/ \E t \in Text : RouteSteered(t)
    \/ Count
    \/ Crash

\* Code between awaits runs on, drop code is synchronous, and a watcher
\* drains the events it is sent: once its turn is over, a run's own steps
\* are not put off for ever.  Nothing makes a turn end or a caller speak.
Fairness ==
    \A r \in Run :
        /\ WF_vars(Publish(r)) /\ WF_vars(Started(r))
        /\ WF_vars(pc[r] # "begun" /\ Release(r))
        /\ WF_vars(pc[r] = "closing" /\ Unclaim(r))

Spec == Init /\ [][Next]_vars /\ Fairness
-----------------------------------------------------------------------------
(* Properties. *)

EntryOK ==
    /\ loaded \in BOOLEAN /\ sender \in Run \cup {NoRun}
    /\ claimed \in Seq(Text) /\ pending \in Seq(Text) /\ mirror \in Seq(Text)

RunsOK ==
    /\ claim \in Run \cup {NoRun}
    /\ pc \in [Run -> Places] /\ kind \in [Run -> Kinds]
    /\ queued \in [Run -> Seq(Text)]

TurnOK ==
    /\ chan \in [Run -> Seq(Text)] /\ drained \in [Run -> Seq(Text)]
    /\ hand \in [Run -> Text \cup {NoText}] /\ events \in [Run -> Seq(Text)]
    /\ \A r \in Run : hand[r] # NoText => pc[r] = "running"

VerbOK ==
    /\ at \in [Caller -> {"idle", "unsteered", "hold", "park", "resume"}]
    /\ words \in [Caller -> Text \cup {NoText}]
    /\ \A c \in Caller : at[c] # "idle" => words[c] # NoText

HistOK ==
    /\ reads \in [Text -> Nat] /\ said \in [Text -> Nat]
    /\ forgotten \subseteq Text /\ replayable \in BOOLEAN
    /\ spent \in [DOMAIN Bounds -> Nat]

\* Every variable has its type; a message is in hand only while a turn runs,
\* and a caller between two steps of the verb still has its words.
TypeOK == EntryOK /\ RunsOK /\ TurnOK /\ VerbOK /\ HistOK

\* Two runs never hold the child's queue at once: the hold of the earlier one
\* has dropped before the session can be claimed again (begin overwrites
\* claimed, so a second hold would erase the first one's messages).
OneHold == \A r, q \in Run : pc[r] \in Holding /\ pc[q] \in Holding => r = q

\* The file is exactly what memory owes, in the order it is owed, whatever
\* mixture of runs, callers and readers touched the entry last; an entry the
\* map has forgotten owes what the file says.
MirrorIsOwed ==
    IF loaded THEN mirror = claimed \o pending
    ELSE sender = NoRun /\ claimed = <<>> /\ pending = <<>>

\* A message a caller was told is queued, held or parked is in the child's log
\* or still in the file that survives the process, except in the two windows
\* the code leaves open: announced and not yet appended, and the prompt of a
\* never-started turn whose cancelled run did not look at its result.
AcceptedIsKept ==
    Said \subseteq Read \cup Elems(mirror) \cup Hands \cup forgotten

\* The strengthening that makes AcceptedIsKept inductive.  A hold implies the
\* claim, so holds exclude each other, and what memory calls claimed is what
\* the one hold took; a turn that started has it in its log; and what a Steered
\* event names has been appended, is in hand, or was lost in that window.
HoldIsClaimed ==
    /\ \A r \in Run : pc[r] # "idle" => claim = r
    /\ \A r \in Run : IF pc[r] \in Holding THEN claimed = queued[r]
                       ELSE queued[r] = <<>>
    /\ (\A r \in Run : pc[r] \notin Holding) => claimed = <<>>

StartedIsRead ==
    \A r \in Run : pc[r] \in {"running", "over"} => Elems(queued[r]) \subseteq Read

AnnouncedIsRead ==
    \A r \in Run : Elems(events[r]) \subseteq Read \cup {hand[r]} \cup forgotten

IInv == /\ TypeOK /\ MirrorIsOwed /\ HoldIsClaimed
        /\ StartedIsRead /\ AnnouncedIsRead /\ AcceptedIsKept

\* What the comments of ChildSteers and of the background run promise, with no
\* exception: saying a thing twice is recoverable, losing it is not.
NeverLost == Said \subseteq Read \cup Elems(mirror) \cup Hands

\* Without a restart and without a foreground call dropped mid-turn no message
\* is put before the child more often than it was accepted: what a run gives
\* back is only what its turn did not append.
NoReplay == ~replayable => \A t \in Text : reads[t] <= said[t]

\* What is in a live turn's channel, or drained and not yet announced, is still
\* owed, so the turn may end without reading it.
InFlightIsOwed ==
    \A r \in Run : Elems(chan[r]) \cup Elems(drained[r]) \subseteq Elems(pending)

\* One step never reorders what is owed: messages leave anywhere and join at
\* the end; a run gives its queue back ahead of what was said meanwhile.
IsSubsequence(s, t) ==
    \E f \in [DOMAIN s -> DOMAIN t] :
        /\ \A i, j \in DOMAIN s : i < j => f[i] < f[j]
        /\ \A i \in DOMAIN s : s[i] = t[f[i]]

OwedKeepsOrder ==
    [][IsSubsequence(mirror', mirror)
       \/ \E t \in Text : IsSubsequence(mirror', Append(mirror, t))]_vars

\* A run whose turn is over hands the session on: no ending leaves the claim
\* taken, which would park every later message for ever.
OverFreesSession ==
    \A r \in Run : pc[r] \in {"over", "cut"} ~> claim # r
=============================================================================
