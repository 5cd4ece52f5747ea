------------------------------ MODULE Delivery ------------------------------
(***************************************************************************)
(* How the report of a background task reaches the session that asked for  *)
(* it (crates/ilar/src/outbox.rs, delivery.rs, SubagentSpawner's            *)
(* route_notification) and how a headless run carries it there (exec_run   *)
(* in crates/ilar-tui/src/exec.rs).                                        *)
(*                                                                         *)
(* A publisher writes the report to the outbox and then to the driver's    *)
(* channel.  The driver reads the outbox when it opens, then carries one    *)
(* parcel at a time: a report for the root is a follow-up turn, one for a   *)
(* session below it is steered into its live turn or becomes a turn of its *)
(* own, whose result climbs to the next session, and one that nothing can  *)
(* take climbs wrapped in a replacement or is salvaged into the root.       *)
(*                                                                         *)
(* A text is the sequence of its wrappings, outermost first; the words of  *)
(* a task are their own last element.  A text carries the words of another *)
(* when it ends in it, and holds it, character by character, unless a      *)
(* replacement took the envelope off in between.  Reading a session's      *)
(* mailbox is one step here: the windows inside it are the subject of      *)
(* ChildSteers.                                                            *)
(*                                                                         *)
(* Whether a text was delivered is asked of the log.  A log that cannot be *)
(* read answers no, so a text it holds may be adopted and told again.      *)
(***************************************************************************)
EXTENDS Naturals, SequencesExt, FiniteSets, Selection

CONSTANTS
    Session, Root, NoSession,
    Origin,                     \* background tasks
    Trees,                      \* the trees the driver may be opened on: each
                                \*   session's parent, who asked for each task,
                                \*   PROPAGATION_HOPS, and the bounds on ends
                                \*   of the process, on turns of its own, and
                                \*   on failed file operations and turns
    NoNote                      \* "no notification"

ASSUME TreeAssumption ==
    /\ Root \in Session /\ NoSession \notin Session
    /\ \A t \in Trees :
          /\ Root \in DOMAIN t.parent /\ DOMAIN t.parent \subseteq Session
          /\ \A s \in DOMAIN t.parent :
                t.parent[s] \in IF s = Root THEN {NoSession} ELSE DOMAIN t.parent
          /\ DOMAIN t.target \subseteq Origin
          /\ \A o \in DOMAIN t.target : t.target[o] \in DOMAIN t.parent
          /\ t.hops \in Nat /\ t.turns \in Nat /\ t.stops \in Nat /\ t.faults \in Nat
\* A task is not one of the marks a text is wrapped in.
ASSUME OriginAssumption ==
    Origin \cap {"completed", "failed", "replaced", "salvaged"} = {}

VARIABLES
    \* The tree, and the bound of its sessions' own turns: fixed at the start.
    tree,
    \* On disk: logs, mailboxes of unread steers, outbox entries, tombstones.
    log, mailbox, outbox, tombs,
    \* Each session below the root: what its agent and workspace are now, and
    \* which turn drives it.
    cond, run,
    \* Publishers, the channel, and the driver.
    born, chan, phase, toscan, queue, held, job,
    \* History: what was recorded; what could not be; what was routed while an
    \* earlier copy waited in a mailbox; what a log that holds it could not be
    \* read for; and the counters of the bounds.
    issued, lapsed, unread, blind, spent

disk   == <<log, mailbox, outbox, tombs>>
driver == <<phase, toscan, queue, held, job>>
hist   == <<issued, lapsed, unread, blind>>
world  == <<tree, cond>>
vars   == <<disk, world, run, born, chan, driver, hist, spent>>

Parent == tree.parent
Target == tree.target
Hops == tree.hops
Below == DOMAIN Parent \ {Root}

Told(o) == <<o>>
Nested(o, how) == <<o, how>>
Wrapped(how, t) == <<how>> \o t
\* The task a text is about: the description every hop carries on.
About(t) == CHOOSE o \in Origin : o \in ToSet(t)
\* u has the words of t; u has t as a substring, envelope included.
Carries(u, t) == IsSuffix(t, u)
Holds(u, t) == Carries(u, t) /\ \A i \in 1 .. Len(u) - Len(t) : u[i] # "replaced"

Note(s, t) == [to |-> s, text |-> t]
Parcel(n, hops) == [note |-> n, hops |-> hops]

Bounds == [stops |-> tree.stops, faults |-> tree.faults, turns |-> tree.turns]
Spend(what) == /\ spent[what] < Bounds[what]
               /\ spent' = [spent EXCEPT ![what] = @ + 1]
\* A best-effort operation: it succeeds, or fails without a word.
Try(ok) == IF ok THEN UNCHANGED spent ELSE Spend("faults")

Delivered(s, t) == \E i \in DOMAIN log[s] : Holds(log[s][i], t)
Tell(s, texts) == log' = [log EXCEPT ![s] = @ \o texts]

\* is_delivered says no: the log lacks the text, or could not be read.
Unheard(s, t) ==
    /\ Try(~Delivered(s, t))
    /\ blind' = IF Delivered(s, t) THEN blind \cup {<<s, t>>} ELSE blind

\* still_undelivered: the lines of an entry that neither what was heard nor what
\* was retired settles.
HeardIn(s) == {t \in ToSet(outbox[s]) : Delivered(s, t)}
Undelivered(s, heard, retired) ==
    Within(outbox[s], ToSet(outbox[s]) \ (heard \cup retired))
-----------------------------------------------------------------------------
(* The outbox.  Its writers and its compaction take one lock. *)

Record(n, ok) ==
    IF ok THEN /\ outbox' = [outbox EXCEPT ![n.to] = Append(@, n.text)]
               /\ issued' = issued \cup {n} /\ UNCHANGED lapsed
          ELSE lapsed' = lapsed \cup {n.text} /\ UNCHANGED <<outbox, issued>>

\* A tombstone is written only beside an entry.
Retire(n, ok) ==
    tombs' = IF n # NoNote /\ ok /\ outbox[n.to] # <<>>
             THEN [tombs EXCEPT ![n.to] = @ \cup {n.text}] ELSE tombs

\* The tombstones go with the lines they settled: when the file does, and when its
\* rewrite succeeded.
Swept(s, kept, left) ==
    IF kept = <<>> \/ (kept # outbox[s] /\ left = kept) THEN {} ELSE tombs[s]

Adopt(s, lines) ==
    queue' = queue \o [i \in DOMAIN lines |-> Parcel(Note(s, lines[i]), Hops)]

\* pending, one file, under the lock: read, filter, rewrite.  A log or a sidecar
\* that cannot be read settles nothing, and a line it would have settled is
\* adopted; a failed write or removal says nothing.
ScanFile(s) ==
    \E heard \in {HeardIn(s), {}}, retired \in {tombs[s], {}} :
        LET kept == Undelivered(s, heard, retired) IN
        \E left \in {kept, outbox[s]} : \E stones \in {Swept(s, kept, left), tombs[s]} :
            /\ Try(/\ heard = HeardIn(s) /\ retired = tombs[s]
                   /\ left = kept /\ stones = Swept(s, kept, left))
            /\ outbox' = [outbox EXCEPT ![s] = left]
            /\ tombs' = [tombs EXCEPT ![s] = stones]
            /\ Adopt(s, kept)

\* A file that is not there, or whose session's head cannot be read, is left alone.
Scan(s) ==
    /\ phase = "scanning" /\ s \in toscan
    /\ toscan' = toscan \ {s}
    /\ \/ outbox[s] # <<>> /\ ScanFile(s)
       \/ Try(outbox[s] = <<>>) /\ UNCHANGED <<outbox, tombs, queue>>
    /\ UNCHANGED <<log, mailbox, world, run, born, chan, phase, held, job, hist>>
-----------------------------------------------------------------------------
(* Publishers: ReservedNotification::deliver.  A headless run reads the     *)
(* outbox before its first turn, so nothing publishes while it does.       *)

RecordOrigin(o) ==
    /\ born[o] = "running" /\ phase = "open"
    /\ born' = [born EXCEPT ![o] = "recorded"]
    /\ \E ok \in BOOLEAN : Try(ok) /\ Record(Note(Target[o], Told(o)), ok)
    /\ UNCHANGED <<log, mailbox, tombs, world, run, chan, driver, unread, blind>>

SendOrigin(o) ==
    /\ born[o] = "recorded"
    /\ born' = [born EXCEPT ![o] = "sent"]
    /\ chan' = Append(chan, Note(Target[o], Told(o)))
    /\ UNCHANGED <<disk, world, run, driver, hist, spent>>
-----------------------------------------------------------------------------
(* Turns the sessions below the root run of their own accord. *)

\* A turn claims its session and reads the mailbox as the head of its prompt.
BeginOwn(s) ==
    /\ phase = "open" /\ run[s] = "free"
    /\ Spend("turns")
    /\ \E how \in {"steerable", "deaf"} : run' = [run EXCEPT ![s] = how]
    /\ Tell(s, mailbox[s]) /\ mailbox' = [mailbox EXCEPT ![s] = <<>>]
    /\ UNCHANGED <<outbox, tombs, world, born, chan, driver, hist>>

ReadSteers(s) ==
    /\ run[s] = "steerable" /\ mailbox[s] # <<>>
    /\ Tell(s, mailbox[s]) /\ mailbox' = [mailbox EXCEPT ![s] = <<>>]
    /\ UNCHANGED <<outbox, tombs, world, run, born, chan, driver, hist, spent>>

\* What was steered and not read stays in the mailbox.
EndOwn(s) ==
    /\ s \in Below /\ run[s] \in {"steerable", "deaf"}
    /\ run' = [run EXCEPT ![s] = "free"]
    /\ UNCHANGED <<disk, world, born, chan, driver, hist, spent>>
-----------------------------------------------------------------------------
(* The driver: exec_run around deliver_step. *)

Idle == [at |-> "idle", parcel |-> NoNote, next |-> NoNote, retire |-> NoNote]
At(place) == phase = "open" /\ job.at = place
Note0 == job.parcel.note
Here == Note0.to
Words == Note0.text

\* The follow-up of a report, or of the salvage of a stranded one.
FollowUp(prompt, stranded) ==
    [at |-> "followup", parcel |-> NoNote, next |-> Note(Root, prompt),
     retire |-> stranded]
Salvaged(stranded) == FollowUp(Wrapped("salvaged", stranded.text), stranded)

\* The next hop is recorded; the disposition is still to be acted on.
Recorded(next, origin) ==
    [at |-> "recorded", parcel |-> job.parcel, next |-> next, retire |-> origin]

Open ==
    /\ phase = "closed"
    /\ phase' = "scanning" /\ toscan' = Session
    /\ UNCHANGED <<disk, world, run, born, chan, queue, held, job, hist, spent>>

Opened ==
    /\ phase = "scanning" /\ toscan = {}
    /\ phase' = "open"
    /\ UNCHANGED <<disk, world, run, born, chan, toscan, queue, held, job, hist, spent>>

Receive ==
    /\ At("idle") /\ chan # <<>>
    /\ queue' = Append(queue, Parcel(Head(chan), Hops)) /\ chan' = Tail(chan)
    /\ UNCHANGED <<disk, world, run, born, phase, toscan, held, job, hist, spent>>

\* Mutant of Take: the entry is retired when its follow-up is decided.
TakeRetires ==
    /\ At("idle") /\ queue # <<>>
    /\ LET p == Head(queue)
       IN  /\ job' = IF p.note.to = Root THEN FollowUp(p.note.text, p.note)
                     ELSE [Idle EXCEPT !.at = "routing", !.parcel = p]
           /\ Retire(p.note, p.note.to = Root)
    /\ queue' = Tail(queue)
    /\ UNCHANGED <<log, mailbox, outbox, world, run, born, chan, phase, toscan,
                   held, hist, spent>>

\* A report for the root becomes a follow-up turn.
Take ==
    /\ At("idle") /\ queue # <<>>
    /\ LET p == Head(queue)
       IN  job' = IF p.note.to = Root THEN FollowUp(p.note.text, p.note)
                  ELSE [Idle EXCEPT !.at = "routing", !.parcel = p]
    /\ queue' = Tail(queue)
    /\ UNCHANGED <<disk, world, run, born, chan, phase, toscan, held, hist, spent>>

\* Mutant of Retry: held parcels wait for new mail.
RetryBehindMail ==
    /\ At("idle") /\ queue # <<>> /\ held # <<>>
    /\ queue' = queue \o held /\ held' = <<>>
    /\ UNCHANGED <<disk, world, run, born, chan, phase, toscan, job, hist, spent>>

\* Held parcels are retried once nothing else waits.
Retry ==
    /\ At("idle") /\ queue = <<>> /\ held # <<>>
    /\ queue' = held /\ held' = <<>>
    /\ UNCHANGED <<disk, world, run, born, chan, phase, toscan, job, hist, spent>>

Hold == /\ job' = Idle /\ held' = Append(held, job.parcel)

\* Already in the root's log: settle it and say nothing.
AlreadyTold ==
    /\ At("followup") /\ Delivered(Root, job.retire.text)
    /\ \E ok \in BOOLEAN : Try(ok) /\ Retire(job.retire, ok)
    /\ job' = Idle
    /\ UNCHANGED <<log, mailbox, outbox, world, run, born, chan, phase, toscan,
                   queue, held, hist>>

\* Mutant of TellRoot: the root's log is not asked first.
TellRootAgain ==
    /\ At("followup")
    /\ Tell(Root, <<job.next.text>>)
    /\ job' = [job EXCEPT !.at = "told"]
    /\ UNCHANGED <<mailbox, outbox, tombs, world, run, born, chan, phase, toscan,
                   queue, held, hist, spent>>

\* The follow-up turn appends its prompt ...
TellRoot ==
    /\ At("followup") /\ Unheard(Root, job.retire.text)
    /\ Tell(Root, <<job.next.text>>)
    /\ job' = [job EXCEPT !.at = "told"]
    /\ UNCHANGED <<mailbox, outbox, tombs, world, run, born, chan, phase, toscan,
                   queue, held, issued, lapsed, unread>>

\* ... and once it is over the entry is retired; when the log cannot be read then,
\* it is not, as when the tombstone cannot be written.
RetireTold ==
    /\ At("told") /\ Delivered(Root, job.retire.text)
    /\ \E ok \in BOOLEAN : Try(ok) /\ Retire(job.retire, ok)
    /\ job' = Idle
    /\ UNCHANGED <<log, mailbox, outbox, world, run, born, chan, phase, toscan,
                   queue, held, hist>>

\* route_notification: the target's log cannot be read, ...
RouteUnreadable ==
    /\ At("routing") /\ Spend("faults")
    /\ Hold
    /\ UNCHANGED <<disk, world, run, born, chan, phase, toscan, queue, hist>>

\* ... or holds the text already, ...
RouteDelivered ==
    /\ At("routing") /\ Delivered(Here, Words)
    /\ job' = Idle
    /\ UNCHANGED <<disk, world, run, born, chan, phase, toscan, queue, held, hist, spent>>

\* ... which is asked once, before the waiting starts: by a second read of the
\* log, whose failure counts as no.
RouteLook ==
    /\ At("routing") /\ Unheard(Here, Words)
    /\ job' = [job EXCEPT !.at = "looked"]
    /\ unread' = IF \E u \in ToSet(mailbox[Here]) : Holds(u, Words)
                 THEN unread \cup {<<Here, Words>>} ELSE unread
    /\ UNCHANGED <<disk, world, run, born, chan, phase, toscan, queue, held, issued,
                   lapsed>>

\* Then a live turn takes it, at the top or between rounds of the claim, ...
RouteSteer ==
    /\ At("looked") /\ run[Here] = "steerable"
    /\ mailbox' = [mailbox EXCEPT ![Here] = Append(@, Words)]
    /\ job' = Idle
    /\ UNCHANGED <<log, outbox, tombs, world, run, born, chan, phase, toscan,
                   queue, held, hist, spent>>

Unsteered == At("looked") /\ run[Here] # "steerable"

\* Mutant of RouteUnknown: retired before its salvage is in a log.
RouteUnknownRetires ==
    /\ Unsteered /\ cond[Here] = "unknown"
    /\ Retire(Note0, TRUE) /\ job' = Salvaged(Note0)
    /\ UNCHANGED <<log, mailbox, outbox, world, run, born, chan, phase, toscan,
                   queue, held, hist, spent>>

\* ... or its agent is unknown, ...
RouteUnknown ==
    /\ Unsteered /\ cond[Here] = "unknown"
    /\ job' = Salvaged(Note0)
    /\ UNCHANGED <<disk, world, run, born, chan, phase, toscan, queue, held, hist, spent>>

\* ... or its workspace or context is gone: a replacement carrying the words
\* is recorded for its parent.
RouteReplaced ==
    /\ Unsteered /\ cond[Here] = "gone"
    /\ LET next == Note(Parent[Here], Wrapped("replaced", Words))
       IN  /\ \E ok \in BOOLEAN : Try(ok) /\ Record(next, ok)
           /\ job' = Recorded(next, Note0)
    /\ UNCHANGED <<log, mailbox, tombs, world, run, born, chan, phase, toscan,
                   queue, held, unread, blind>>

\* ... or every round found it claimed, ...
RouteBusy ==
    /\ Unsteered /\ cond[Here] = "ok" /\ run[Here] # "free"
    /\ Hold
    /\ UNCHANGED <<disk, world, run, born, chan, phase, toscan, queue, hist, spent>>

\* ... or it is claimed for a turn of its own.
RouteClaim ==
    /\ Unsteered /\ cond[Here] = "ok" /\ run[Here] = "free"
    /\ run' = [run EXCEPT ![Here] = "routed"]
    /\ job' = [job EXCEPT !.at = "claimed"]
    /\ UNCHANGED <<disk, world, born, chan, phase, toscan, queue, held, hist, spent>>

Unclaim == run' = [run EXCEPT ![Here] = "free"]

\* Mutant of RouteBlocked: the early return leaks the claim.
RouteBlockedClaimed ==
    /\ At("claimed") /\ Spend("faults")
    /\ Hold
    /\ UNCHANGED <<disk, world, run, born, chan, phase, toscan, queue, hist>>

\* The lease does not come, or another process holds the writer.
RouteBlocked ==
    /\ At("claimed") /\ Spend("faults")
    /\ Hold /\ Unclaim
    /\ UNCHANGED <<disk, world, born, chan, phase, toscan, queue, hist>>

RouteTurn ==
    /\ At("claimed")
    /\ Tell(Here, Append(mailbox[Here], Words))
    /\ mailbox' = [mailbox EXCEPT ![Here] = <<>>]
    /\ job' = [job EXCEPT !.at = "taken"]
    /\ UNCHANGED <<outbox, tombs, world, run, born, chan, phase, toscan, queue,
                   held, hist, spent>>

\* The ending of the routed turn is recorded for the target's parent.
Climb(how) ==
    LET next == Note(Parent[Here], Nested(About(Words), how))
    IN  /\ \E ok \in BOOLEAN : Try(ok) /\ Record(next, ok)
        /\ job' = Recorded(next, NoNote) /\ Unclaim

RouteTurnEnds ==
    /\ At("taken")
    /\ \E how \in {"completed", "failed"} : Climb(how)
    /\ UNCHANGED <<log, mailbox, tombs, world, born, chan, phase, toscan, queue,
                   held, unread, blind>>

\* A turn that failed before its append climbs like one that ran.
RouteTurnDeclined ==
    /\ At("claimed") /\ Spend("faults")
    /\ LET next == Note(Parent[Here], Nested(About(Words), "failed"))
       IN  Record(next, TRUE) /\ job' = Recorded(next, NoNote) /\ Unclaim
    /\ UNCHANGED <<log, mailbox, tombs, world, born, chan, phase, toscan, queue,
                   held, unread, blind>>

\* disposition: a replaced origin is retired, and the next hop is carried on
\* with one hop less, or salvaged when none is left.
Dispose ==
    /\ At("recorded")
    /\ \E ok \in BOOLEAN : Try(ok) /\ Retire(job.retire, ok)
    /\ IF job.parcel.hops = 0
       THEN job' = Salvaged(job.next) /\ UNCHANGED queue
       ELSE job' = Idle /\ queue' = Append(queue, Parcel(job.next, job.parcel.hops - 1))
    /\ UNCHANGED <<log, mailbox, outbox, world, run, born, chan, phase, toscan,
                   held, hist>>

\* The process ends: it is done, gives up on what it holds, or is killed.
Stop ==
    /\ phase # "closed" /\ Spend("stops")
    /\ phase' = "closed" /\ toscan' = {}
    /\ queue' = <<>> /\ held' = <<>> /\ chan' = <<>> /\ job' = Idle
    /\ run' = [s \in Below |-> "free"]
    /\ born' = [o \in Origin |-> IF born[o] = "recorded" THEN "sent" ELSE born[o]]
    /\ UNCHANGED <<disk, world, hist>>
-----------------------------------------------------------------------------
Init ==
    /\ tree \in Trees
    /\ log = [s \in Session |-> <<>>] /\ mailbox = [s \in Below |-> <<>>]
    /\ outbox = [s \in Session |-> <<>>] /\ tombs = [s \in Session |-> {}]
    /\ cond \in [Below -> {"ok", "gone", "unknown"}]
    /\ run = [s \in Below |-> "free"]
    /\ born = [o \in Origin |-> "running"] /\ chan = <<>>
    /\ phase = "closed" /\ toscan = {} /\ queue = <<>> /\ held = <<>> /\ job = Idle
    /\ issued = {} /\ lapsed = {} /\ unread = {} /\ blind = {}
    /\ spent = [what \in DOMAIN Bounds |-> 0]

Publisher(o) == RecordOrigin(o) \/ SendOrigin(o)

OwnTurn(s) == BeginOwn(s) \/ ReadSteers(s) \/ EndOwn(s)

Route ==
    \/ RouteUnreadable \/ RouteDelivered \/ RouteLook \/ RouteSteer \/ RouteUnknown
    \/ RouteReplaced \/ RouteBusy \/ RouteClaim \/ RouteBlocked \/ RouteTurn
    \/ RouteTurnEnds \/ RouteTurnDeclined

Driver ==
    \/ (\E s \in Session : Scan(s)) \/ Opened \/ Receive \/ Take \/ Retry
    \/ AlreadyTold \/ TellRoot \/ RetireTold \/ Dispose \/ Route

Next ==
    \/ \E o \in DOMAIN Target : Publisher(o)
    \/ \E s \in Below : OwnTurn(s)
    \/ Driver \/ Open \/ Stop

\* The driver's loop runs on, a recorded report is sent by the next statement,
\* and turns end: the provider's requests have timeouts.
Fairness ==
    /\ WF_vars(Driver)
    /\ \A o \in Origin : WF_vars(SendOrigin(o))
    /\ \A s \in Session : WF_vars(EndOwn(s))

Spec == Init /\ [][Next]_vars /\ Fairness
-----------------------------------------------------------------------------
(* Properties. *)

Texts == UNION {{Told(o), Nested(o, "completed"), Nested(o, "failed")} : o \in Origin}

\* Lines on disk that still owe their words.
Live(s) == ToSet(outbox[s]) \ tombs[s]
Heard(t) == \E s \in Session : \E i \in DOMAIN log[s] : Carries(log[s][i], t)
Owed(t) == \E s \in Session : \E u \in Live(s) : Carries(u, t)
\* Best-effort: the disk refused a copy of these words.
Lapsed(t) == \E u \in lapsed : Carries(u, t)

IsText(t) == \E u \in Texts : Carries(t, u)
IsNote(n) == n.to \in Session /\ IsText(n.text)
IsParcel(p) == IsNote(p.note) /\ p.hops \in 0 .. Hops

\* Every text is some task's words or the ending of a hop about it, however
\* often wrapped; what is held back for a retry is never meant for the root;
\* only a claimed session is driven by a routed turn; and a closed driver has
\* nothing in hand.
TypeOK ==
    /\ \A s \in Session : \A t \in ToSet(log[s]) \cup ToSet(outbox[s]) \cup tombs[s] : IsText(t)
    /\ \A s \in Below : \A t \in ToSet(mailbox[s]) : IsText(t)
    /\ cond \in [Below -> {"ok", "gone", "unknown"}]
    /\ run \in [Below -> {"free", "steerable", "deaf", "routed"}]
    /\ born \in [Origin -> {"running", "recorded", "sent"}]
    /\ \A i \in DOMAIN chan : IsNote(chan[i])
    /\ phase \in {"closed", "scanning", "open"} /\ toscan \subseteq Session
    /\ \A p \in ToSet(queue) \cup ToSet(held) : IsParcel(p)
    /\ \A p \in ToSet(held) : p.note.to # Root
    /\ \A s \in Below : run[s] = "routed" <=>
          job.at \in {"claimed", "taken"} /\ Here = s
    /\ phase = "closed" => queue = <<>> /\ held = <<>> /\ chan = <<>> /\ job = Idle

\* Whatever was written to the outbox is never lost: the words of every task
\* and of every hop are in some session's log or in a line that still owes
\* them, through crashes, retires, compactions, replacements and salvage.  In
\* particular an origin is retired only once what replaces it is on disk.
WordsAreKept ==
    \A n \in issued : Heard(n.text) \/ Owed(n.text) \/ Lapsed(n.text)

\* No session is told the same thing twice, although deliveries are interrupted
\* anywhere and every open adopts what is not in a log, but for two exceptions:
\* what was routed again while its first copy waited unread in the session's
\* mailbox, and what the session was asked about when its log held it and could
\* not be read, where is_delivered errs toward delivering.
Times(s, t) == Cardinality({i \in DOMAIN log[s] : Holds(log[s][i], t)})
AskedBlind(s, t) == \E m \in blind : m[1] = s /\ Holds(t, m[2])
ToldOnce ==
    \A s \in Session : \A t \in ToSet(log[s]) :
        Times(s, t) > 1 => <<s, t>> \in unread \/ AskedBlind(s, t)

\* The same without exceptions: what route_notification's comments call the
\* exactly-once promise of a steer.
ToldExactlyOnce ==
    \A s \in Session : \A t \in ToSet(log[s]) : Times(s, t) <= 1

\* delivery.rs on a climb that owes no retire: the target's log took the origin
\* and ran a turn on it, and that log is the origin's retire.
ClimbedIsTaken ==
    job.at = "recorded" /\ job.retire = NoNote => Delivered(Here, Words)

\* What the driver carries, waiting or under way.
InHand(t) ==
    \/ \E p \in ToSet(queue) \cup ToSet(held) : Carries(p.note.text, t)
    \/ \E n \in ToSet(chan) : Carries(n.text, t)
    \/ job.parcel # NoNote /\ Carries(Words, t)
    \/ job.next # NoNote /\ Carries(job.next.text, t)

\* What a session could still be told of from its mailbox.
Posted(t) == \E s \in Below : \E u \in ToSet(mailbox[s]) : Carries(u, t)

\* An open driver does not sit on a report: every one it has in hand reaches a
\* log or a mailbox, unless the process ends or the target's turn declined.
Declined(t) == \E n \in issued : n.text = Nested(About(t), "failed")
InHandIsSettled ==
    \A t \in Texts :
        InHand(t) ~> (phase = "closed" \/ Heard(t) \/ Posted(t) \/ Declined(t))

\* Delivery implements Completions: a report on disk is owed until some log of
\* the tree carries its words, and is never owed or lost after that.
StateOf(o) ==
    IF Heard(Told(o)) THEN "heard"
    ELSE IF Owed(Told(o)) \/ Lapsed(Told(o)) THEN "owed" ELSE "unborn"

Promise == INSTANCE Completions WITH state <- [o \in Origin |-> StateOf(o)]
KeepsThePromise == Promise!Spec
=============================================================================
