# A verification of ilar's message and completion plumbing

ilar is a coding agent: a turn loop over an append-only session log, tools, and
sub-agents that run as sessions of their own.  Its parents and children talk in
two directions.  A parent *says* something to a delegated task while it runs,
and a finished background task *reports* to the session that asked for it.  Both
paths promise that nothing is lost through busy sessions, turns that never
start, cancelled runs, failed writes and killed processes.  The project models
these two paths, as each is a protocol of many actors over files; the runs that
use them and the resources those take; the session's log with the lease, the
turns, compactions and rewinds that write it; and the terminal's event loop,
which decides what runs when.

All paths below are relative to `src/crates/`.

## 1. Inventory

| Component | State | Operations | Hard behaviour | What makes it correct |
|---|---|---|---|---|
| **Child steers** `ilar/src/subagent.rs` 310-600 | per child: sender, claimed queue, pending queue; a mirror file under `steers/` | open, adopt, begin, steer, queue, holds, committed, delivered, pending, end, prune | many actors under one mutex, with checks before the lock and use after it; files read lazily | nothing accepted is lost; no replay without cause; order; file = memory |
| **Subagent runs** `ilar/src/subagent.rs` 998-1890 | active sessions, rows, slots, permits | run_task_observed, message_task_outcome, cancel, stall watch | claim, hold and events end in a fixed order; drop at any await | one run per session; every run hands its session, slot and permit back |
| **Completion outbox** `ilar/src/outbox.rs` | one file of lines per target session, one of tombstones | record, retire, pending | read, filter and rewrite beside writers; crash between files | an entry leaves only when its words are in a log or replaced |
| **Delivery** `ilar/src/delivery.rs`, `route_notification` in `subagent.rs` 2168-2515 | a parcel and its hop budget | is_delivered, disposition, climb, deliver_step, salvaged | steering, claims with a minute of retries, replacement, salvage | each report told once, and told at all |
| **Headless run** `ilar-tui/src/exec.rs` | queue, held parcels | the loop of exec_run | retry only when idle; exit at any point | a parcel in hand is settled |
| **Turn loop** `ilar/src/agent/turn.rs` | the open session, the step's calls, the steer channel | run_turn, steps, drain_steers, tool rounds, endings | cancellation, failed appends, never-started boundary | calls and results pair up; steers land at step boundaries |
| **Compaction** `ilar/src/compaction.rs` | cut, summary | compact, cut choice | races a turn's appends | no call without its result across a cut |
| **Tool executor and leases** `ilar/src/tools/executor.rs`, `tools/mod.rs` | RwLock per workspace, holder marks, barrier queue | acquire_lease, try_acquire, execute_calls | nested acquisition, barrier beside concurrent tools | no writer beside another; no self-deadlock |
| **Session store** `ilar/src/session/` | JSONL logs, lock files, replay index, live scratch | acquire_writer, create, append, load, tail, delete, fork, sweep | torn tails, lock files replaced under a waiter, an index that outlived its log, readers beside a writer | one writer; the log always loads; index and tail say what the log says |
| **Listing and pointers** `ilar/src/session/last_by_dir.rs`, `summary_cache.rs` | caches by stamp | scan, list | - | - |
| **Checkpoint and rewind** `ilar/src/checkpoint.rs`, `rewind.rs` | git refs, log cut | snapshot, rewind | the cut is chosen before the lease; log and tree move in two steps | a rewind unsays the message it was asked to and restores its tree |
| **Questions, secrets, grants** `ilar/src/question.rs`, `secrets.rs`, `ilar-tui/src/questions.rs` | pending question, waiting senders | ask, answer, cancel | answer races cancel and restart | a pending question refuses new turns, and is answered once |
| **Terminal scheduling** `ilar-tui/src/schedule.rs`, `decide.rs`, `main.rs` | turn slot, queue, steers in flight, held results, pause, goal | tick, complete, settle, after_turn, submit, stop | six places that start a turn; tasks that move between two stages of the loop | every word once; one turn at a time; the queue before results; a stop stays quiet |
| **Serve driver** `ilar-tui/src/serve/drive.rs` | per session runtime and lanes | consumer, route loop, pause, shutdown | adopts while tasks run; its own retry limit | as Delivery, across several drivers |
| **Gateway** `ilar-gateway/src/gateway.rs`, `driver.rs`, `bus.rs` | seats, routes, inbox | inbound, watch_notifications, handle_follow_up | two queues into one seat | as Delivery |
| **Gateway schedule** `ilar-gateway/src/cron.rs`, `weekly.rs`, `review.rs` | job store | due, run, mark | crash between take and run | a due job runs once |
| **Channels and commands** `ilar-gateway/src/channel.rs`, `commands.rs` | none of their own | parse, send | network | - |
| **Providers** `ilar/src/provider/`, `model.rs`, `auth.rs` | HTTP streams | request, retry | read timeout 300 s | a request ends |
| **Tools** `ilar/src/tools/` | files and processes | edit, bash, service | outside the program | - |
| **Memory, recall, config** `ilar/src/memory.rs`, `recall.rs`, `runtime.rs` | files | load, select | - | - |
| **Rendering** `ilar-tui/src/view.rs`, `transcript.rs` | screen | draw | - | - |

How they interact: a surface (exec, terminal, serve, gateway) owns a driver
loop and runs turns of the root through the turn loop.  A turn calls the task
tools, which start runs of children; a run claims the child's session, takes the
child's mailbox as the head of its prompt, runs the turn loop on the child's
log, and publishes a notification when it ends.  A publisher writes the
notification to the outbox, then to a channel whose one reader is the surface's
driver; the driver appends it to the root by a turn, or routes it to a session
below, which may steer a live turn (the mailbox again) or run one.  Shared
state: the mailbox map (one mutex), the set of active sessions (one mutex), the
outbox files (one process-wide lock), the session logs (writer lease per log).

## 2. Modules

### ChildSteers: the mailbox of one child

One variable per field: `loaded`, `sender`, `claimed`, `pending` are the entry
of the map, `mirror` its file, `claim` the session's place in `active_sessions`;
`pc`, `kind`, `queued` are the run and its `ChildTurnSteer`; `chan`, `drained`,
`hand`, `events` are the steer channel, the turn's drained messages, the one
between its event and its append, and the event channel to the watcher; `at`
and `words` are the callers of the message verb.  `reads` is the child's log.

A critical section of the mutex is one step, and so is the code between two
awaits or two locks; everything else interleaves.  In particular these are
separate steps: the failed steer, the look at `active_sessions`, the queueing of
the words (`SendUnsteered`, `LookAtClaim`, `Hold` or `Park`); the turn's
`Announce` (Steered event) and `AppendSteer`; the watcher's `Publish`; the
claim, the hold (`BeginRun`), the prompt append (`StartTurn`), `Started`,
`Release` of the hold, and `Unclaim`, which the code orders by declaration order.
A run is background, foreground (its caller may be dropped at any poll:
`Abandon`) or routed (no channel, and it may take the hold again under the same
claim).  `NeverStart` is every exit of `run_turn_inner` and `run_turn_steps`
marked TurnNeverStarted; `NeverStartCut` is the same exit under a cancelled background run.
`Crash` keeps the mirror and the log.

Abstracted: a mirror write succeeds; a message is its words (the map has no
other identity for it either); the many reasons to refuse a run are
`ResumeDeclined` and an `Unclaim` before the hold.

### Delivery: reports

`log`, `mailbox`, `outbox`, `tombs` are the disk.  A driver is `phase` (closed,
scanning the outbox, open), `toscan` (the files `pending` has still to read),
`queue`, `held`, and `job`, the parcel in hand with the place in
`deliver_step`/`route_notification`/`exec_run` it has reached:

| `job.at` | code |
|---|---|
| `followup` | `Step::FollowUp` decided; the root's log is asked next |
| `told` | the follow-up turn appended its prompt; its entry is not yet retired |
| `routing` | `route_notification` entered |
| `looked` | `is_delivered` answered no, rightly or blindly; workspace checks and claim rounds |
| `claimed` | the session is claimed for a routed turn |
| `taken` | that turn appended its prompt |
| `recorded` | the next hop is on disk; `disposition` has not acted on it |

A text is the sequence of its wrappings.  The name of a task is no wrapping
(`OriginAssumption`): a mark is a sentence of the program's own.  `Holds` is the code's substring
test: a salvage quotes the whole text, so it holds it; a replacement takes the
envelope off (`unwrapped`), so it has the words and not the text.  `Carries` is
"has the words", what a reader cares about.

`cond[s]` says what a routed turn would find: the session usable, its workspace
or context gone, or its agent unknown.  It is chosen once per behaviour.
`run[s]` is the turn that drives a session below the root: its own, steerable
or not, or the routed one.  The turns a session runs of its own accord are
`BeginOwn`, `ReadSteers`, `EndOwn`; what they do to a mailbox in several steps
is ChildSteers' subject and one step here.

`Stop` stands for every end of the process: done, error, cancelled or killed.
Faults are failed records, tombstones, rewrites, removals and reads, leases that do
not come and turns that decline.

What a failed read of a log does depends on who asks.  A head that cannot be read
leaves the outbox file for a later scan (`Scan`), and a load that fails holds the
parcel (`RouteUnreadable`).  But `is_delivered` (`delivery.rs:42`) and
`still_undelivered` (`outbox.rs:307`) take a log they cannot read for one that holds
nothing: `Unheard`, in `TellRoot` and `RouteLook`, and the empty `heard` of
`ScanFile`.  A text the log holds is then adopted and told again; the code says it
"errs toward delivering".  `blind` remembers which session was asked for which text.
A read that fails after the follow-up (`exec.rs:550`) only leaves the entry, which is
`RetireTold` with a tombstone that is not written.

`ScanFile` is the compaction of one file: what could be read of the log and of the
tombstones, whether the rewrite or the removal of the file worked, and whether that
of the tombstones did.  At most one of these goes wrong in one look at one file.  A
kill between the two files leaves what a failed removal leaves.

Not modelled here: an entry of a deleted session (`Readable::Gone`), routing to
a parentless session other than the root, a line of the outbox that does not parse,
the retries of other surfaces (ServeDelivery and GatewaySeat below).

### Completions: the promise

Per report: unborn, owed, heard.  `Delivery` implements it under the mapping
`StateOf`: a report is *heard* if some session's log has its words, *owed* if a
live outbox line does.  A step to heard cannot be undone and no step goes from
owed back to unborn, which is "never lost" and "never forgotten" in one.

### BackgroundRuns: tasks, jobs, deliveries, edits

One module for everything that runs beside or inside a root session's turn,
since what is hard is what they do to each other.  `call[r]` is what run `r` is
asked for, chosen once by a *plan*: its caller (the root's turn, a person in a
task's view, the driver, or another run), its session (made or resumed), its
checkout, whether it writes, and what `background` said.

A run is at one of these places:

| `place` | code |
|---|---|
| `look` | the lease of the caller and the reservation decided; `detached_holder` is asked next |
| `enter` | claim of a resumed session, slot |
| `checking` | the session, model and settings are read; any of them may refuse |
| `acquire`, `queued` | `acquire_task_lease`: try, or wait in the lock's order |
| `marking`, `validating` | the lease is held; its name goes up; the worktree is looked at again |
| `turn` | the model's turn, a job's command, an edit |
| `stopping` | told to stop: the token is cancelled and the turn has its grace |
| `leaving` | guards drop, one a step, in the order of the code |

`guards[r]` is the set of Rust guards the run holds, one name per local:
`permit` (ReservedNotification), `resumed` and `claim` (ActiveSessionGuard
before and after it is the run's own), `slot`, `over` (a counted call about to be
refused), `row` (BackgroundTaskGuard), `lease`, `mark` and `holder` (HolderMark in
`acquire_task_lease` and in the run).  `Order` is the order they drop in, which
differs for a job, a detached task that ended, one that panicked, and a call
that was refused or dropped.  The shared state is one variable each:
`active` (active_sessions), `running` (the slot counter), `registry` and `shut`
(background_tasks, closed), `channel` (notify_tx), with reserved and sent
notifications together at most `Capacity`.

`ctx[r]` is what ToolContext hands down: `ancestry` (workspace_ancestry),
`inside` (the futures this one lives in) and `stoppers` (whose token it hangs
from: `detached_owner`).  A detached run is inside nothing.  A foreground one is
inside its caller and everything its caller is inside: when one of these is
dropped (`Abandon`, `Halt`, `HaltDelivery`, `Panic`), it is cut and unwinds from
the innermost out.  `Sync` are the places between two awaits, where a future can
neither be dropped nor its siblings polled (`Polling`).

Not modelled: panel rows and the wait tool, a closed notification receiver, a
panic outside a turn, a sibling writer waited for inside one step (the code says
no tool reaches it), services.

### WorkspaceLeases: the lock of a checkout

`lock` and `queue` are one tokio RwLock per checkout used for writing only: a
lock let go belongs to the first waiter before that waiter runs, and a waiter
dropped in between passes it on (`StopWaiting`).  `clones` are the clones of a
holder's `Arc<WorkspaceLease>`: its own, and that of a file write on a blocking
thread that goes on after the caller is dropped.  `mark` is the `holders` map.
BackgroundRuns extends this module with `Holder` as its runs.

What BackgroundRuns assumes of its plans (`RunAssumption`, `PlansAssumption`): a
run has one role, a session is made by at most one call or was there before all
of them (a new session's id is fresh), and the root edits the checkout it works in.

### BackgroundPromise

Per call: unasked, started, reported, with every report fair.  BackgroundRuns
implements it: a call that was answered "started" is reported once and for all,
one that was refused never.

### SessionEvents, SessionLease, SessionLog, TurnLoop: one session

Four layers, each EXTENDing the one before.

`SessionEvents` has no state: what an entry of a log is, and the pure functions of
a log.  Folding of rewind
markers, the validator (`Valid`), what is unanswered, the active window of a
compacted log with its re-based indexes, the compaction and image cuts.  They
are recursive functions, not RECURSIVE operators, so that lemmas can be proved about
them.  Indexes are from 0, as in the code.  `Selection` holds the one filter they
share with Delivery: `Within(q, S)`, the elements of a sequence that are in a set.

`SessionLease` is the flock protocol of `<id>.lock`: an inode and a path are
different things.  `named` is the inode the path names, `locks` who holds each
inode's flock, `hand` the open handles.  `Open`, `LockWon`/`LockRefused`, the
identity check `Identified`/`Orphaned`, the drop's `LetGo`, `Unlink`, `Unlock`,
the sweep's `Find` and a death are steps of their own.

`SessionLog` adds `file` (committed lines, a torn tail, a stamp), `index` (the
replay checkpoint with its id file) and `sess`, each actor's open `Session`.
`Appends` is `append_event` whole: the refusal over unanswered calls, the
canonical indexes, the write, the refresh or the publication of the checkpoint
(`Publishes` after a compaction).  `LogTypeOK` gives the record types of all three
in full.  `AppendFails` leaves a torn line that the next
writer cuts.  Event ids and tree versions are taken from the stamp.

`TurnLoop` is the jobs: `turn[a].pc` is the place in the job, and each append
is an action.

| `pc` | code |
|---|---|
| `acquire` | `acquire_writer`, up to the lease; `meta`, `deletelog` the second step of create and delete |
| `answers` | one answer of `todo`, the calls an interrupted, cancelled, failed or executed step leaves; then `next` |
| `begin`, `prompt` | `TurnStart` decided, refused or appended |
| `compactstart`, `compactmid` | the two `compact_if_needed_locked` of a turn |
| `top`, `steers`, `cutoff`, `request` | one iteration up to the response |
| `stepdone`, `asking`, `tools` | what the calls of a response lead to |
| `resume` | the wait after a stream that broke off |
| `closing`, `finish`, `leave` | the scratch dropped, `TurnFinished`, the writer dropped |
| `restore`, `dropids`, `dropindex`, `mark` | `rewind_session` after its safety snapshot |

`watch` is a `SessionTail` over the same file: the lines it has consumed, its folded
events, and which file they came from (`born`).  A poll (`Poll`) consumes the lines it
has not seen, or reads all of the file when there is another one at the path or
it became shorter (`Resync`), or finds none.  `tree` is the version of the working
tree, `saved` the versions a snapshot keeps, `scratch` whose live scratch is
at the path.

Abstracted: an event's words; a provider's reply is one of a few shapes (`text`,
`tool`, `tools`, `ask`, `mixed`, `broken` after content, `failed`), whose call ids
start anew in each response, which is what `free_call_id` is for; whether the
threshold of a compaction is reached is a choice; a git command succeeds.

### Conversation

What a session promises whoever talks to it, without files, locks, indexes,
compactions and crashes: events are said one at a time, nothing ordinary over a
call without an answer, a rewind unsays one user message and all after it, and
the whole may go.  TurnLoop implements it with `said <- Folded(file.lines)`.
`SessionPromises` holds this and the other properties of the four layers.

### TerminalLoop: the event loop of the terminal

`stage` is the place in one iteration: `join` (events drained, the operation in
the slot joined), `drain` (deliveries joined, intents performed, a compaction
started, the gate for results read), `mail` (`settle`'s notification pass) and
`keys` (one key or none).  `task` is the turn slot with what runs in it, which
moves by itself between any two of them; `inbox` and `events` are its two
channels.  `queued`, `pending`, `held`, `channel`, `blocked`, `routed` are where a
word may wait; `unsent`, `unborn`, `shown`, `dropped` where else it is.  `intents`
carries decisions from the join and the keys to the next pass, which is where a
start can have become stale.  A word is in the model once, so that being lost
and being doubled are both visible.  `WordsAssumption` says so of the constants:
messages and results differ, two deliveries do not lead to the same result, and
what a delivery leads to is not in the backlog of an earlier process.

### Composition

TurnLoop is composed of SessionLog and SessionLease by EXTENDS and implements
`LeaseSpec` (proved).  TurnLoop's `AppendSteer` is ChildSteers'
`Announce`/`AppendSteer` as one step: what is lost between the two is the subject
there.  TerminalLoop's `TurnTakesThePrompt`, `TurnTakesSteers`, `TurnCloses` are
TurnLoop's `Prompt`, `AppendSteer`, and everything from `StepDone` to `Leave`;
its `routed` is one `route_notification` of Delivery, with its end a choice.

BackgroundRuns and ChildSteers share the claim and the end of a run: `Claimed`
is before `BeginRun` there, and `LetGo` of the claim is its `Unclaim`.  The
steer hold drops before the claim in both.  BackgroundRuns' `Report` is
Delivery's `RecordOrigin` and `SendOrigin`, and `Deliver` is `RouteClaim`.

Delivery and ChildSteers meet in the mailbox: `RouteSteer` there is
`RouteSteered` here, and a routed run here (`kind = "routed"`) is
`RouteClaim`..`Climb` there.  Delivery needs of ChildSteers only that a steered
text is kept until it is read (`AcceptedIsKept`, `InFlightIsOwed`), and it does
not need even that for `WordsAreKept`: the outbox line stays until a log has the
words, so a message lost in one of the two windows of ChildSteers is
adopted again at the next open.

## 3. Runs

| Run | Instance | What it shows |
|---|---|---|
| `child_steers` | 2 runs, 1 caller, 2 texts, bounds below | `TypeOK`, `OneHold`, `MirrorIsOwed`, `AcceptedIsKept`, `NoReplay`, `InFlightIsOwed`, `OwedKeepsOrder`, `OverFreesSession` |
| `child_steers_crash` | the same with a crash | `NeverLost` fails (finding 1) |
| `child_steers_cut` | the same with a cancelled start | `NeverLost` fails (finding 2) |
| `delivery` | three trees: root and child with a report each; three levels with one hop; a root alone whose log fails to be read twice | `TypeOK`, `WordsAreKept`, `ToldOnce`, `KeepsThePromise`, `InHandIsSettled`, replacements of replacements and salvages included |
| `delivery_twice` | one stop, one own turn | `ToldExactlyOnce` fails (finding 3) |
| `delivery_declined` | one fault | `ClimbedIsTaken` fails (finding 4) |
| `background` | five plans, two slots, two reservations | `TypeOK`, `SlotsAreCounted`, `OneTurnPerSession`, `WritersExclude`, `HolderIsNamed`, `StopsWithItsOwner`, `ShutdownIsComplete` |
| `background_ends` | three plans that wait, one with four tasks in two checkouts | `NoCircularWait`, `KeepsThePromise`, `EveryCallEnds` |
| `background_step` | a detached and a blocking task and a job | `StepNeverWaitsForJob` fails (finding 5) |
| `session` | two processes, twelve plans of jobs | `TypeOK`, `OneOwner`, `AlwaysLoads`, `IndexTellsTheLog`, `LeavesNothingOpen`, `ScratchIsTheTurns`, `TailIsTheLog`, `KeepsTheConversation`, `RewindUnsends`, `RewindRestores`, `CancelledEnds` |
| `session_pictures` | three turns with pictures and a compaction | `IndexKeepsPictures` fails (finding 6) |
| `terminal` | five days of two or three words, three keys | `TypeOK`, `EveryWordOnce`, `OneTurnAtATime`, `QueueOutranksResults`, `StopIsQuiet`, `ResultsMove`, and no deadlock |

The properties:

* `OneHold`: `begin` overwrites `claimed`; two holds would erase messages.
* `MirrorIsOwed`: prune, lazy reload and rewrite keep file and memory equal in
  content *and order*.
* `AcceptedIsKept`: what a caller was told is queued, held or parked is in the
  log or in the file, except in two named windows (`Hands`, `forgotten`).
* `NoReplay`: without a crash or a dropped foreground call a child reads each
  message at most as often as it was said.
* `InFlightIsOwed`: a turn may end without reading its channel.
* `OwedKeepsOrder`: no step reorders what waits.
* `OverFreesSession`: a turn that is over leads to the session being free.
* `WordsAreKept`: whatever the outbox accepted is in a log or in a live line.
* `ToldOnce`: a session is told once, except of what was routed again while an
  earlier copy sat unread in its mailbox (`unread`), and of what it was asked about
  while its log held it and could not be read (`blind`).
* `InHandIsSettled`: an open driver gets every parcel it holds into a log or a
  mailbox.
* `KeepsThePromise`: refinement of Completions, or of BackgroundPromise.
* `SlotsAreCounted`: the counter is the calls that hold or are about to give
  back a slot, through every refusal, drop and panic.
* `OneTurnPerSession`: a task, a resume and a delivery never drive one session
  at a time.
* `WritersExclude`: two writers never share a checkout, a file write that
  outlived its caller included.
* `HolderIsNamed`: the name on a checkout is its holder's from the mark to the
  end of the turn, and no name outlives its run.
* `StopsWithItsOwner`: what a stopped task started is told, also when it was
  being started at that moment.
* `ShutdownIsComplete`: after shutdown returned no run told "started" holds
  anything.  One exception is in the property: a run that panicked drops its
  registry entry before its report, so shutdown may miss it and the report may come after.
* `NoCircularWait`: no set of runs waits only for its own members: callers for
  the calls inside them, waiters for the holder and for those ahead.
* `EveryCallEnds`: what was asked for ends and lets go of every clone.
* `OneOwner`: two actors never hold one session, though locks are unlinked and
  swept under those who wait for them.
* `AlwaysLoads`: no torn line, refused append, reused call id, cancellation or
  death leaves a log the validator refuses.
* `IndexTellsTheLog`: an index that would be believed gives the window, the cut
  and the call ids of a full parse.
* `LeavesNothingOpen`: without a death or a failed write only a question stays
  unanswered, whatever was cancelled or broke off.
* `ScratchIsTheTurns`: the live scratch at the path is the running turn's.
* `TailIsTheLog`: a watcher has what a reader has, whatever it missed between polls: a
  rewind, or a deletion and a new log as long as the old one.
* `KeepsTheConversation`: the refinement of Conversation.
* `RewindUnsends`, `RewindRestores`: the marker unsays the message that was chosen
  before the lease, and the tree is that message's.
* `CancelledEnds`: a cancelled job ends wherever it was, questions and retries
  included.
* `EveryWordOnce`: what a person said and what a task reported is in one place
  of the terminal, and in the log at most once.
* `OneTurnAtATime`: no start overwrites the handle of a turn that runs.
* `QueueOutranksResults`: the slot a completed turn leaves is the queue's, not
  that of a result that came meanwhile.
* `StopIsQuiet`: after a stop no result starts a turn or is delivered elsewhere
  until a turn of the person's ends or they ask for it.
* `ResultsMove`: a result waits for ever only behind a pause or an overlay.

### Bounds

`MaxSay`, `MaxClaims`, `MaxCrashes`, `MaxFaults`, `MaxCuts` (ChildSteers) and
`stops`, `faults`, `turns`, `hops` of a tree (Delivery) are charged by `Spend` in
the guards of exactly the steps they name; nothing else is bounded.
`MCChildSteers.cfg` says three messages of two texts, so that order, duplicates and a message
said during another's window exist; it claims twice, so that a second run
meets what the first left; it crashes, fails an append and cuts a start at most
once each.
In `MCDelivery.cfg` the pair stops twice: one stop leaves the disk state a next open must
repair, and the second tests the repair.  One fault is enough below the root, where
what was steered is adopted without one; for the root to be told again the scan and
the follow-up must both fail to read its log, so the lone root has two.  The trees (`Trees`, chosen at the start)
are a root with one child, and a chain of three with one hop, so that a replacement of
a replacement is out of hops: the code's budget of eight is a guard against cyclic
logs, and the step at zero is the same (244,585 distinct states).

BackgroundRuns is bounded by its plans, each with few calls that meet at one
resource: `SharedSession` (a resume, the person's and a delivery on one session),
`OneCheckout` (a detached and a blocking task and a job), `Edits` (the root's
own edit beside tasks), `Crossing` (two tasks with a child each in the other's
checkout), `Family` (a delivery starts a task that starts two more) and `Crowd`
(more calls than slots and reservations).  `MaxConcurrent` and `Capacity` are 2
where the limits are the subject; four slots in `background_ends`, where waiting
is.  `MaxPanics` counts panics.  Each call is made at most once, so a resume is
another run of the same session.

The session is bounded by its plans: the jobs of each process in order, the
replies the provider may give, which features are on, how many processes die
and how many writes fail.  Each plan makes one kind of meeting happen: a log
compacted, rewound and compacted again; a rewind chosen while another process
compacts; reused call ids in and behind an index; a session created, swept,
tidied and deleted under a turn; two creations; a question answered, cancelled,
abandoned and answered later; broken streams and refused writes; steers; pictures.
Three inodes are one more than two handles and a name need; `Attempts` is the
code's 4.  `MaxIterations = 2`, `MaxResumes = 1` and a budget of one picture
reach each limit.  No job or request begins past `MaxLines = 24` lines; the plans
end before that.

The terminal is bounded by `Days`, the words of one run (each chosen so that some
two of them meet: a queued message and a result, a delivery and what it leads
to, a backlog, a goal, a compaction beside a result), by `MaxKeys = 3` keys and by
`MaxRounds = 1` goal round (the cap is reached at once; the code's is 25).  Three keys
are enough to say two things and stop, or open a modal, act in it and close it
(499,630 distinct states).

Deadlock is checked in `terminal`, whose loop always goes round.  In the other runs
it is not: those systems stop when nobody speaks, and the bounds end a behaviour
as well.

### Fairness

ChildSteers: weak fairness of a run's own steps after its turn is over
(`Publish`, `Started`, `Release`, `Unclaim`).  They are straight-line code
and drops, and the watcher is a task that drains a channel.  Nothing makes a
turn end or a caller speak.

Delivery: weak fairness of the driver as a whole (a loop of one task), of
`SendOrigin` (the statement after the record) and of `EndOwn`.  That a turn ends
is what the provider's read timeout (300 s, `ilar/src/provider/transport.rs:19`)
and the iteration limits give; without it a busy session stays busy and a
parcel for it is rightly held.  Publishers, new turns, `Open` and `Stop` are
never forced.

BackgroundRuns: weak fairness of each run's own steps once it was asked for
(they are one tokio task, and a stop, the grace of an abort and the end of a
blocking write are timers or I/O), and of the end of shutdown.  `Finish` is fair
only for a run that nobody watches: a detached task, and what is inside it, may
hang for ever and still ends, as the stall watch halts it (`Halt`); a job has a
timeout (`HaltJob`).  Turns of the root, of the person and of deliveries have no
watch and end by the provider's timeout and the iteration limit.  No call, stop,
drop, panic or shutdown is forced.

TurnLoop: weak fairness of `Forced(a)`, an actor's straight-line code, locks and
file writes, which wait for nobody: `acquire_writer` refuses and does not block.
What waits for the provider, the tools or the person (`Waited`) is not forced,
except the return of tools after a cancellation, which kills them.

TerminalLoop: weak fairness of the loop (one task that polls with a timeout), of the
operation in the slot and of deliveries.  That a turn ends is the provider's read
timeout and the iteration limit, as above.  Keys, results and the watchdog are
never forced.

## 4. Proofs

All proofs are TLAPS proofs, for every value of the constants that satisfies the
named assumptions: any number of messages, runs, sessions, processes and words,
any plans, trees and days, and any bounds.  Each component has the same shape: an
invariant `IInv` made of named parts, a lemma per action (or per group of actions that
disturb the same parts) that the action keeps it, the theorem `Invariance`, and
the properties as consequences.  TLC looked for counterexamples to each `IInv` (and to
`CInv`, `SInv` and `TailTells`) on the component's own instance before it was proved (with sequences up to a length where
the invariant ranges over them).

### The mailbox (ChildSteersProofs)

| Theorem | Statement |
|---|---|
| `Invariance` | `Spec => []IInv` |
| `TypeCorrect` | `Spec => []TypeOK` |
| `HoldsAreExclusive` | `Spec => []OneHold` |
| `MirrorIsExact` | `Spec => []MirrorIsOwed` |
| `MessagesAreKept` | `Spec => []AcceptedIsKept` |
| `CopiesCounted` | `Spec => []CInv` |
| `InFlightOwed` | `Spec => []InFlightIsOwed` |
| `NothingIsReplayed` | `Spec => []NoReplay` |
| `OrderIsKept` | `Spec => OwedKeepsOrder` |

Assumptions: `NoTextAssumption`, `NoRunAssumption`, `BoundsAssumption`.

`AcceptedIsKept` is not inductive: `Started` throws away
`claimed`, and that is right only because of what the run did before.  `IInv`
adds what the step relies on:

* `MirrorIsOwed`, as properties speak of the file and actions of memory;
* `HoldIsClaimed`: a run past idle has the session's claim, so holds exclude each
  other, and `claimed` is what the one hold took.  So `Started` forgets no
  other run's messages and `Begin` overwrites nothing;
* `StartedIsRead`: a turn that runs or ran has its queue in the log;
* `AnnouncedIsRead`: what a Steered event names was appended, is in hand, or was
  lost in the named window.  So `Publish` forgets only what is accounted for.

`OneHold` follows from `HoldIsClaimed` alone.

That nothing is read twice needs a second invariant, as the map tells equal
messages apart only by how many there are.  `CInv` counts copies: what a
turn has in hand and what it has announced are together no more than wait in
`pending` (`FlightFits`), and what is in the log and what is owed were accepted as
often, but for what is both (`CountsFit`).  `InFlightIsOwed` and `NoReplay` follow.
`OwedKeepsOrder` is an action property: each step takes away some of what waits,
adds at the end, or puts back what a hold took before what came after it.

### Reports (DeliveryProofs)

| Theorem | Statement |
|---|---|
| `Invariance` | `Spec => []IInv` |
| `TypeCorrect` | `Spec => []TypeOK` |
| `WordsKept` | `Spec => []WordsAreKept` |
| `OnceOnly` | `Spec => []ToldOnce` |
| `PromiseKept` | `Spec => KeepsThePromise` |

Assumptions: `TreeAssumption` (which holds the bounds) and `OriginAssumption`.

`IInv == Types /\ AllKept /\ Once`.  `Types` says what a text is, which
`TypeOK` does not: the words of one task or of the ending of a hop, in the envelopes of
those who could not take it (`Rec`), and in a root's log perhaps a salvage of one
(`Line`).  A text ends in the words of one task, so whether a log holds one report
says nothing of another.  `AllKept` is `WordsAreKept` for every tombstone too: a
line leaves the outbox only by a tombstone or by a log that holds it, a tombstone is
written only for what is heard, replaced or lapsed, and a line that comes back from
its tombstone, which a scan could not read, had been one of these.  `Once` adds to the logs what a session can
still read and is about to be told (`Reaches`): a turn reads its mailbox later, so
`ToldOnce` must hold of both together.  It excepts what a session is `Excused` for:
`unread`, the window of finding 3, and `blind`, what the log was asked for and could
not be read.  The root has no mailbox, so for it `blind` alone.  A salvage holds the
text it quotes, which is why `AskedBlind` speaks of texts that hold the one asked for.

`PromiseKept` is the whole refinement of Completions, which has no fairness: each step
of Delivery tells some reports, or records one, or changes the state of none.

### Runs, leases, endings (BackgroundRunsProofs)

| Theorem | Statement |
|---|---|
| `Invariance` | `Spec => []IInv` |
| `TypeCorrect` | `Spec => []TypeOK` |
| `SlotsCounted` | `Spec => []SlotsAreCounted` |
| `OneTurnEach` | `Spec => []OneTurnPerSession` |
| `WritersApart` | `Spec => []WritersExclude` |
| `HolderNamed` | `Spec => []HolderIsNamed` |
| `OwnerStops` | `Spec => []StopsWithItsOwner` |
| `ShutdownCompletes` | `Spec => []ShutdownIsComplete` |
| `NobodyWaitsInACircle` | `Spec => []NoCircularWait` |
| `PromiseKept` | `Spec => Promise!Safe` |

Assumptions: `RunAssumption`, `PlansAssumption`, `LimitsAssumption`,
`FreeAssumption`.

The invariant ties every piece of shared state to the guards that give it back.
`GuardsFit` says exactly which guards a run holds at each place before it lets
go, and `LeavingFits` which it may still hold while they drop, in whatever order.
From there: `SlotsFit` (the counter is the number of runs with such a guard),
`ClaimsFit` (two runs with a session's guard have different sessions), `LocksFit`
(the lock is its clones', or the first waiter's that it was handed to; waiters are in
one queue once), `RowsFit` and `ReportsFit` (a row is in the registry or awaited by
shutdown and goes last; the reservation is there until the one report), and
`StoppersFit` (the stoppers of a stopper are stoppers too).  `HolderIsNamed` and
`StopsWithItsOwner` are parts as they stand.

`NobodyWaitsInACircle` rests on `NestsFit`: what a call is inside of is closed
upwards, and a call made inside another never waits in a queue: one that would write
where its caller works is refused, and so is one that would have to wait elsewhere.  If a set of runs that wait for each other has a
turn in it, take one that is inside the most: what it waits for is a call inside it, which
waits in no queue and so is a turn that is inside more.  If they are all in queues, the
first of them in one waits for the holder, who is in no queue.

`PromiseKept` is the safety half of the refinement that `background_ends` checks whole.

### The session (SessionLogProofs, TurnLoopProofs, SessionPromisesProofs)

| Theorem | Statement |
|---|---|
| `LeaseHasOneOwner` | `LeaseSpec => [](LeaseTypeOK /\ OneOwner)` |
| `TurnsKeepTheLease` | `Spec => LeaseSpec` |
| `SessionHasOneOwner` | `Spec => []OneOwner` |
| `Invariance` | `Spec => []IInv` |
| `SessionTypes` | `Spec => []TypeOK` |
| `ScratchKept` | `Spec => []ScratchIsTheTurns` |
| `SessionTells` | `Spec => []SInv` |
| `LogAlwaysLoads` | `Spec => []AlwaysLoads` |
| `TurnsLeaveNothingOpen` | `Spec => []LeavesNothingOpen` |
| `IndexIsTheLog` | `Spec => []IndexTellsTheLog` |
| `RewindsUnsend` | `Spec => RewindUnsends` |
| `RewindsRestore` | `Spec => RewindRestores` |
| `SessionTalks` | `Spec => KeepsTheConversation` |
| `TailFollows` | `Spec => []TailIsTheLog` |

Assumptions: `LeaseAssumption`, `NoneAssumption`, `LoopAssumption`,
`PlansAssumption`.

`OneOwner` alone is not inductive: that a winner *compared* its
inode with the name matters only as long as nobody renames it.  `LeaseInv` adds that
whoever is past the lock has the flock of the inode in its hand (`LocksAreHeld`), that
hands of actors in the protocol are open (`HandsAreOpen`), and that the inode of whoever
confirmed it is the named one (`OwnersAreNamed`): an unlink is then only ever the
owner's or the sweep's that won the same inode, and two owners would hold one flock.  The second
theorem is a step simulation: an action of TurnLoop is a step of the
lease or leaves its five variables alone, so the first theorem carries over.

`SessionTypes` is more than bookkeeping here, as `TypeOK` says that every index a
log keeps, cuts at or re-bases stays an index of that log: the functions of SessionEvents
are shown to return logs, cuts and calls of the right range for every log
(SessionLogProofs), and each operation of the store (`Appends`, torn, failed and
refused ones, the two loads, the publication and removal of an index, deletion, a
death) to keep `LogTypeOK`.

`IInv == LeaseInv /\ LogFits /\ TurnsFit /\ RestFits /\ ScratchFits`.  `TurnsFit`
is what a job may count on at each place: it is the lease's owner, the log is
there and its session open, a turn has calls to answer exactly where it answers
them, and an iteration or a retry is within its limit.  `ScratchFits` says that a turn's scratch is at
the path exactly while that turn is between its prompt and its end, which needs
`OneOwner`: a second turn would replace the scratch of the first.  An action is
shown to be a step of one job (`JobMoves`) with a move of the log (`LogMoves`), and
only then compared with the other actors.

The first six theorems say that all of it is made of entries and who has it open.  What
it *tells* is a second inductive invariant over the first (SessionPromisesProofs):
`SInv`, of five parts.

* `LogTells`: the log replays (`Valid`, `FoldsCleanly`), each compaction in it cuts at
  or past every earlier one and never between a snapshot and its message (`Spaced`,
  `WellCut`), and all its ids and call ids are below the stamp's (`Numbered`).  The last
  is what makes the call ids of a new message new: `free_call_id` looks them up
  in what the session knows, and what it knows is all of the log.
* `IndexTells`: an index with the stamp of the file `Covers` the log.  Its window shows
  the log event by event (`Shows`: the events are `Alike`, up to the index a compaction
  or a cutoff carries, which is one of the window), it starts at the newest compaction
  (`Newest`), it knows the call ids of what it reaches, and the lines after its offset
  are the rest of the log.  An append that does not refresh the index leaves it with an
  older stamp and it is not believed, so nothing more needs to be said of it.
* `JobTells`: an open session with the stamp of the file shows the log to its end
  (`Follows`), and only a failed write, after which the job closes, parts the two;
  what a job has in `todo` is exactly what is open, each call once;
  where it asks the model, compacts or rewinds nothing is.
* `RewindTells`: the message a rewind was asked for is still right after its cut, and
  the tree it reads is kept.
* `CalmTells`: while no death and no failed write was spent and no job owes an answer,
  nothing is open but a question.

It is needed because every check of the code is of the *session in memory*: `append_event`
refuses an event by the open calls of the window, a rewind finds its message in the
window, a compaction cuts it.  `AlwaysLoads` is a property of the file, and only
`Follows` carries the check from the one to the other.  The same goes for an indexed load:
it is as good as a full one only by `Covers`.  The argument has one lemma per
operation of the store (`AppendSays`, `TornTells`, `FailedSays`, `LoadFollows`,
`WholeFollows`, `SealCovers`, `CutTells`), made into one per action of a job, and
`NextTells` also says what a step does to the log (`Utters`): nothing, one fitting event by
the owner of the lease (`Speech`), the first line, one rewind by who marks it (`Unsent`),
or the end of the file.

The promises follow from there.  `AlwaysLoads` is in `LogTells`, `LeavesNothingOpen` in
`CalmTells`.  `RewindUnsends` is `Unsent` with `Follows`: the index of the window becomes
one of the log (`RewindPoints`), where the same event is.  `RewindRestores` needs
`WellCut` besides: were the window cut between a snapshot and its message, the tree
would be found missing (`RestoreTreeTells`).  For `IndexTellsTheLog`, both the indexed
window and the parsed one are shown to be the same function of the log and the cut
(`ShiftsAgree`, `WindowsAgree`), for a log whose newest compaction is the index's start
(`BelievedShows`).  `KeepsTheConversation` reads `Utters` as the actions of Conversation.

`TailIsTheLog` has an invariant of its own, `TailTells`: the first line of a log carries
an id that no earlier log of the session had, and a tail begun by the file at the path
holds the fold of a prefix of it (`Following`).  Every step appends a line, takes all
away or leaves the lines as they are (`StepGrows`), so only a new first line can part the
two, and it shows in the identity; and a fold goes on from where it was left
(`FoldsOn`), so a poll may be cut anywhere.

### The terminal (TerminalLoopProofs)

| Theorem | Statement |
|---|---|
| `Invariance` | `Spec => []IInv` |
| `TypeCorrect` | `Spec => []TypeOK` |
| `OneTurn` | `Spec => []OneTurnAtATime` |
| `WordsOnce` | `Spec => []EveryWordOnce` |
| `QueueFirst` | `Spec => QueueOutranksResults` |
| `StopsAreQuiet` | `Spec => StopIsQuiet` |

Assumptions: `WordsAssumption`, `DaysAssumption`, `BoundsAssumption`.

`OneTurnAtATime` holds because a decision cannot grow stale: `DecisionsFit` says that at
most one is under way, that the slot was free when it was made and is free until it is
performed, and that what it says of the head of the queue is still so.
`EveryWordOnce` is `PlacesFit`, that the eleven places a word may be in are disjoint
and together all there are, with what keeps them so: no queue has a word twice
(`QueuesFit`), what was announced or waits in the channel is still pending
(`SteersFit`), and the log is what was shown or announced (`LogFits`).  One lemma
(`Moves`) says that what goes from one place to another leaves the rest apart, and
each action is an instance of it.

### What the proofs share (QueueLemmas)

What taking the head, appending, filtering and removing do to a queue without
duplicates.  `Least` says that a set of numbers has a smallest: with it, a fact about a
recursive function is proved by looking at the first index where it fails, as is
done for `Selected` (a filter) and for the folds of SessionLogProofs.

### TLC only

* Liveness: `OverFreesSession`, `InHandIsSettled`, `EveryCallEnds`, `CancelledEnds`,
  `ResultsMove`, and the fairness of BackgroundPromise in `KeepsThePromise`.  The
  prover does not reason about fairness and ENABLED.

## 5. Findings

1. *A steer read by nobody* (`child_steers_crash`).  The turn publishes
   `Steered` before it appends (`ilar/src/agent/turn.rs:1936`); the watcher removes the
   message from memory and file at once.  Killed in between, the process has
   lost the message, against "saying a thing twice is recoverable, losing it is
   not" (`subagent.rs:446`).
2. *A cancelled start reads the queue* (`child_steers_cut`).  If the stop or
   stall branch of the select wins while the turn fails before its prompt, the
   result is discarded (`subagent.rs:1632`) and `started` counts the queue as
   read, against the comment at 1651.
3. *A report told twice* (`delivery_twice`).  Steered, unread at exit: the next
   open adopts the outbox line and the next routed prompt also carries the mailbox copy,
   against the exactly-once comment at `subagent.rs:2194`.
4. *A climb whose origin nobody took* (`delivery_declined`).  A routed turn that
   failed before its append leaves by the same `Propagate` as one that ran
   (`subagent.rs:2464`); its origin is in no log, and each later open adopts and
   fails it again, against `delivery.rs:139`.
5. *A blocking call that waits for a detached run* (`background_step`).
   `detached_holder` is asked before the lease (`subagent.rs:1142`), so a detached
   run that was admitted a moment before, and has not yet taken the lease or is
   first in its queue, is not seen; the step then waits for all of it, which the tool's own
   description (`subagent.rs:3846`) says is refused.
6. *Pictures an indexed load drops* (`session_pictures`).  An `ImageCutoff`
   recorded after a compaction has a canonical index; `read_indexed_replay` joins window and tail
   without re-basing it (`ilar/src/session/store.rs:1264`), which `active_replay_window`
   and `publish_checkpoint` both do (1560, 2105).  A request after an indexed
   load then shows fewer pictures than one after a full parse of the same log.

Seen while modelling, without a run of their own:

* A restore that lands clears `busy` and asks for the queue (`ilar-tui/src/main.rs:4281-4291`)
  when no turn is in the slot, without looking for a turn that the open carries
  along as an intent or for a rewind; a second operation could then start.
* A rewind that fails writes back the pause it found (`main.rs:4352`), so a
  pause set meanwhile is lost.
* A queued message that turns out to be a command starts no turn, and the rest of the
  queue waits for the next key.
* An Esc that comes when the turn has already completed is followed by a join that
  lets results flow again; `StopIsQuiet` is therefore up to the next join.
* A tail tells one file from another by device and inode (`session/tail.rs:228-237`), "so a
  replaced file is not mistaken for an appended one".  A file system may give the inode
  of a deleted log to the next file; `TailIsTheLog` assumes it does not.
* `remove_if_empty` (`store.rs:815-828`) asks for a user message before it has the
  lease, though its doc says it refuses "a session with a user message".

## 6. Plan

Done: ChildSteers, Delivery, Completions, BackgroundRuns, WorkspaceLeases,
SessionLease, SessionLog, TurnLoop, Conversation, TerminalLoop.

Proved: every invariant and action property the passing runs check, the implementation
of Completions and Conversation, and the safety of BackgroundPromise.

Next: the re-basing of image cutoffs, once the code does it (section 5).

Then, as modules of their own: **ServeDelivery** (per-session lanes,
`ROUTE_RETRY_LIMIT`, no salvage on a terminal error, adoption beside running
tasks), **GatewaySeat** (the same around `deliver_step`), **Cron** (due jobs taken
once through a restart).

## 7. Not modelled, and why

Providers, channel adapters, rendering, prompts and the effect of tools are
I/O and text.  Memory, recall and configuration are read at start or chosen per
turn and share nothing concurrently.  Session lists, the last session of a
directory and the summary cache are caches rebuilt from the logs.  The other
surfaces (serve, gateway, its schedule) are in the plan.

Of the session: a fork (it copies a folded prefix to a log of its own), the bytes of the id
file and stray id files, the line a lock holder writes about itself, the recall
note and the note about a leaked call (each one more append at a place that has one),
retries before the first content (they write nothing), a child's turn, a failing
git command, and of a tail the resumption at a given line (`open_at`), lines that will
not parse, and a file that changes between the look at its metadata and the read.

Of the terminal: restoring and rewinding a session, questions, focus views of
sub-agents, one-turn model overrides, pictures, subtasks, the cap on held
results (`MAX_HELD_NOTIFICATIONS`, 256) and the capacity of channels; of its keys
and commands, the abort of a goal (`/goal abort`, `PendingAction::AbortGoal`), the
manager's `DismissRetry` and `RetryNow` (a retry is asked for by a key of the prompt),
and the terminal event `peek_palette` buffers before the gate looks.  While these are out, "busy" is the slot being taken.
