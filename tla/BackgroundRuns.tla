---------------------------- MODULE BackgroundRuns ----------------------------
(***************************************************************************)
(* Everything that runs beside or inside a root session's turn and the     *)
(* resources it takes (SubagentSpawner in crates/ilar/src/subagent.rs, the *)
(* executor in tools/executor.rs): tasks, detached or waited for, jobs,    *)
(* deliveries of a result to a finished session, and the root's own edits. *)
(*                                                                         *)
(* A run takes, in this order, a reserved notification, the claim on its   *)
(* session, a slot, an entry of the registry, the write lease of its       *)
(* checkout and its name on it.  Each is a Rust guard: whatever way a run  *)
(* ends, it lets go of what it holds one guard at a time, in the order its *)
(* locals drop.  A run that is waited for lives inside the future of its   *)
(* caller and is dropped with it; a detached one has a task of its own and *)
(* stops when the task that owns it stops.                                 *)
(***************************************************************************)
EXTENDS WorkspaceLeases

CONSTANTS
    Task, Job, Delivery, Edit,  \* the runs, by kind
    Root, Person, Driver,       \* callers that are no run: the root's turn, the
                                \* person typing to a task, the driver's loop
    Session,
    Home,                       \* the checkout of the callers that are no run
    Plans,                      \* assignments of a call to every run
    MaxConcurrent, Capacity,    \* max_concurrent, NOTIFICATION_CAPACITY
    MaxPanics                   \* bound: panics of a run's body

Run == Task \cup Job \cup Delivery \cup Edit
Tops == {Root, Person, Driver}

Call == [host : Tops \cup Task \cup Delivery \cup {Free}, session : Session,
         checkout : Checkout, writes : BOOLEAN, resumes : BOOLEAN,
         asked : {"unsaid", "background", "foreground"}]

\* A run is of one kind, and no caller is a run.
ASSUME RunAssumption ==
    /\ Holder = Run /\ Tops \cap (Run \cup {Free}) = {} /\ Root # Person
    /\ Task \cap (Job \cup Delivery \cup Edit) = {}
    /\ Job \cap (Delivery \cup Edit) = {} /\ Delivery \cap Edit = {}
\* A session is made by one call or was there before all of them; the root edits
\* the checkout it works in.
ASSUME PlansAssumption ==
    /\ Plans \subseteq [Run -> Call] /\ Home \in Checkout
    /\ \A plan \in Plans, r \in Task, q \in Task \cup Delivery :
          r # q /\ ~plan[r].resumes => plan[r].session # plan[q].session
    /\ \A plan \in Plans, r \in Edit : plan[r].checkout = Home
ASSUME LimitsAssumption == MaxConcurrent \in Nat /\ Capacity \in Nat /\ MaxPanics \in Nat

VARIABLES
    call, place, guards,
    ctx,                        \* what a run inherits from its caller
    detached, admitted,         \* tasks that run detached; runs told "started"
    stop, cancelled, cut,       \* told to stop; turn's token cancelled; dropped
    died,                       \* runs whose body panicked
    active, running,            \* active_sessions; the slot counter
    registry, shut, awaited,    \* background_tasks; shutdown
    channel, notices            \* reports sent and not received; reports made

ends  == <<stop, cancelled, cut, died>>
pools == <<active, running>>
reg   == <<registry, shut, awaited>>
sent  == <<channel, notices>>
fixed == <<call, ctx, detached, admitted>>
vars  == <<leases, fixed, place, guards, ends, pools, reg, sent>>

Places == {"idle", "look", "enter", "checking", "acquire", "queued", "marking",
           "validating", "turn", "stopping", "leaving", "gone"}
Guards == {"permit", "resumed", "claim", "slot", "over", "row", "lease", "mark", "holder"}

TypeOK ==
    /\ LeasesTypeOK
    /\ call \in Plans /\ place \in [Run -> Places] /\ guards \in [Run -> SUBSET Guards]
    /\ ctx \in [Run -> [ancestry : SUBSET Checkout, inside : SUBSET (Run \cup Tops),
                        stoppers : SUBSET Run]]
    /\ detached \subseteq Task /\ admitted \subseteq detached \cup Job
    /\ stop \subseteq Run /\ cancelled \subseteq Run /\ cut \subseteq Run /\ died \subseteq admitted
    /\ active \subseteq Session /\ running \in Nat
    /\ registry \subseteq admitted /\ awaited \subseteq admitted
    /\ shut \in {"open", "waiting", "done"}
    /\ channel \subseteq admitted /\ notices \in [Run -> Nat]

NoContext == [ancestry |-> {}, inside |-> {}, stoppers |-> {}]

Init ==
    /\ LeasesInit
    /\ call \in Plans
    /\ place = [r \in Run |-> "idle"] /\ guards = [r \in Run |-> {}]
    /\ ctx = [r \in Run |-> NoContext]
    /\ detached = {} /\ admitted = {}
    /\ stop = {} /\ cancelled = {} /\ cut = {} /\ died = {}
    /\ active = {} /\ running = 0
    /\ registry = {} /\ shut = "open" /\ awaited = {}
    /\ channel = {} /\ notices = [r \in Run |-> 0]
-----------------------------------------------------------------------------
Host(r) == call[r].host
Tree(r) == call[r].checkout
Alone(r) == call[r].asked = "foreground"
InStep(r) == Host(r) # Person

Nested(r) == Host(r) \notin Tops
HostTree(r) == IF Nested(r) THEN Tree(Host(r)) ELSE Home
HostCtx(r) == IF Nested(r) THEN ctx[Host(r)] ELSE NoContext
SameTree(r) == Tree(r) = HostTree(r)
Cross(r) == Nested(r) /\ ~SameTree(r)

Live(r) == place[r] \notin {"idle", "gone"}
Within(h) == {r \in Run : h \in ctx[r].inside /\ Live(r)}
\* The runs whose tokens hang from h's.
Hanging(h) == {r \in admitted \cup Delivery : h \in ctx[r].stoppers}

\* Code between two awaits: a caller's future is neither dropped nor polled
\* elsewhere while a call inside it is there.
Sync == {"look", "enter", "acquire", "marking", "leaving"}
Polling(h) == \E r \in Within(h) : place[r] \in Sync

\* A mark that outlives every step of the model's.
DetachedHolder(r) == r \in detached \cup Job \cup Delivery \/ Host(r) = Person

\* Reserved or sent and not received: try_reserve_owned fails when full.
Full == Cardinality({r \in Run : "permit" \in guards[r]}) + Cardinality(channel) >= Capacity

At(r, p) == place[r] = p
Go(r, p) == place' = [place EXCEPT ![r] = p]
Hold(r, gs) == guards' = [guards EXCEPT ![r] = @ \cup gs]
-----------------------------------------------------------------------------
(* A task is asked for, up to the first shared resource. *)

Allowed(r) ==
    /\ SameTree(r) \/ Tree(r) \notin HostCtx(r).ancestry
    /\ ~(call[r].writes /\ SameTree(r) /\ Nested(r))

\* A step runs an edit alone; tasks may start beside each other.
HostPolls(r) ==
    /\ IF Nested(r) THEN At(Host(r), "turn") /\ Host(r) \notin cut ELSE Host(r) \in {Root, Person}
    /\ \A h \in HostCtx(r).inside \cup {Host(r)} : ~Polling(h)
    /\ Host(r) = Root => \A e \in Edit : ~At(e, "turn")

\* The context a call gets: what it is inside of, and what stops its work.
Context(r, bg) ==
    [ancestry |-> HostCtx(r).ancestry \cup {Tree(r)},
     inside   |-> HostCtx(r).inside \cup {Host(r)},
     stoppers |-> HostCtx(r).stoppers \cup (IF bg THEN {r} ELSE {})]

Reserve(r, bg) ==
    /\ detached' = IF bg THEN detached \cup {r} ELSE detached
    /\ ctx' = [ctx EXCEPT ![r] = Context(r, bg)]
    /\ Hold(r, IF bg THEN {"permit"} ELSE {})
    /\ Go(r, "look")

Ask(r) ==
    /\ r \in Task /\ At(r, "idle") /\ Host(r) # Free /\ HostPolls(r)
    /\ \/ /\ ~Allowed(r) \/ (Full /\ call[r].asked = "background")
          /\ Go(r, "gone") /\ UNCHANGED <<guards, ctx, detached>>
       \/ Allowed(r) /\ ~Alone(r) /\ ~Full /\ Reserve(r, TRUE)
       \/ Allowed(r) /\ (Alone(r) \/ (Full /\ call[r].asked = "unsaid")) /\ Reserve(r, FALSE)
    /\ UNCHANGED <<leases, call, admitted, ends, pools, reg, sent>>

\* Only a call the model is blocked on is refused behind a detached holder.
Look(r) ==
    /\ At(r, "look")
    /\ IF /\ Alone(r) /\ InStep(r) /\ call[r].writes
          /\ mark[Tree(r)] # Free /\ DetachedHolder(mark[Tree(r)])
       THEN Go(r, "leaving") ELSE Go(r, "enter")
    /\ UNCHANGED <<leases, fixed, guards, ends, pools, reg, sent>>

\* Mutant of Enter: the limit is one off.
EnterOneMore(r) ==
    /\ At(r, "enter")
    /\ LET s == call[r].session
           claim == IF call[r].resumes THEN {"resumed"} ELSE {}
       IN  IF call[r].resumes /\ s \in active
           THEN Go(r, "leaving") /\ UNCHANGED <<guards, active, running>>
           ELSE /\ active' = IF call[r].resumes THEN active \cup {s} ELSE active
                /\ running' = running + 1
                /\ IF running > MaxConcurrent
                   THEN Hold(r, claim \cup {"over"}) /\ Go(r, "leaving")
                   ELSE Hold(r, claim \cup {"slot"}) /\ Go(r, "checking")
    /\ UNCHANGED <<leases, fixed, ends, reg, sent>>

\* Mutant of Enter: a refused call puts back what it never took.
EnterUncounted(r) ==
    /\ At(r, "enter")
    /\ LET s == call[r].session
           claim == IF call[r].resumes THEN {"resumed"} ELSE {}
       IN  IF call[r].resumes /\ s \in active
           THEN Go(r, "leaving") /\ UNCHANGED <<guards, active, running>>
           ELSE /\ active' = IF call[r].resumes THEN active \cup {s} ELSE active
                /\ running' = IF running >= MaxConcurrent THEN running ELSE running + 1
                /\ IF running >= MaxConcurrent
                   THEN Hold(r, claim \cup {"over"}) /\ Go(r, "leaving")
                   ELSE Hold(r, claim \cup {"slot"}) /\ Go(r, "checking")
    /\ UNCHANGED <<leases, fixed, ends, reg, sent>>

\* The claim of a resumed session, then the slot: over the limit the counter
\* is put back, and until then it counts one too many.
Enter(r) ==
    /\ At(r, "enter")
    /\ LET s == call[r].session
           claim == IF call[r].resumes THEN {"resumed"} ELSE {}
       IN  IF call[r].resumes /\ s \in active
           THEN Go(r, "leaving") /\ UNCHANGED <<guards, active, running>>
           ELSE /\ active' = IF call[r].resumes THEN active \cup {s} ELSE active
                /\ running' = running + 1
                /\ IF running >= MaxConcurrent
                   THEN Hold(r, claim \cup {"over"}) /\ Go(r, "leaving")
                   ELSE Hold(r, claim \cup {"slot"}) /\ Go(r, "checking")
    /\ UNCHANGED <<leases, fixed, ends, reg, sent>>

\* What the log and the settings decide: a session that cannot be loaded or is
\* another's, a worktree that is gone, a model nobody provides.
Decline(r) ==
    /\ At(r, "checking") /\ Go(r, "leaving")
    /\ UNCHANGED <<leases, fixed, guards, ends, pools, reg, sent>>

\* Mutant of Register: whether it is closed was asked before the lock.
RegisterClosed(r) ==
    /\ registry' = registry \cup {r} /\ admitted' = admitted \cup {r}
    /\ stop' = IF (ctx[r].stoppers \ {r}) \cap cancelled # {} THEN stop \cup {r} ELSE stop
    /\ ctx' = [ctx EXCEPT ![r].inside = {}]
    /\ Go(r, "acquire")

\* Mutant of Register: the token hangs from nothing.
RegisterUnowned(r) ==
    /\ shut = "open"
    /\ registry' = registry \cup {r} /\ admitted' = admitted \cup {r}
    /\ UNCHANGED stop
    /\ ctx' = [ctx EXCEPT ![r].inside = {}]
    /\ Go(r, "acquire")

\* Under the registry's lock: not once it is closed.  The new token hangs from
\* the owner's, so an owner already stopped stops it at birth.
Register(r) ==
    /\ shut = "open"
    /\ registry' = registry \cup {r} /\ admitted' = admitted \cup {r}
    /\ stop' = IF (ctx[r].stoppers \ {r}) \cap cancelled # {} THEN stop \cup {r} ELSE stop
    /\ ctx' = [ctx EXCEPT ![r].inside = {}]
    /\ Go(r, "acquire")

\* From here on the claim is the run's own, whoever took it.
Claimed(r, gs) == guards' = [guards EXCEPT ![r] = (@ \ {"resumed"}) \cup {"claim"} \cup gs]

\* Mutant of Admit: the claim stays with the call and drops when it returns.
AdmitUnclaimed(r) ==
    /\ At(r, "checking") /\ r \notin cut
    /\ active' = IF r \in detached THEN active \ {call[r].session}
                 ELSE active \cup {call[r].session}
    /\ \/ /\ r \in detached /\ Register(r) /\ guards' = [guards EXCEPT ![r] = {"permit", "slot", "row"}]
       \/ /\ r \in detached /\ shut # "open" /\ Go(r, "leaving") /\ Claimed(r, {})
          /\ UNCHANGED <<registry, admitted, stop, ctx>>
       \/ /\ r \notin detached /\ Go(r, "acquire") /\ Claimed(r, {})
          /\ UNCHANGED <<registry, admitted, stop, ctx>>
    /\ UNCHANGED <<leases, call, detached, cancelled, cut, died, running, shut, awaited, sent>>

Admit(r) ==
    /\ At(r, "checking") /\ r \notin cut
    /\ active' = active \cup {call[r].session}
    /\ \/ /\ r \in detached /\ Register(r) /\ Claimed(r, {"row"})
       \/ /\ r \in detached /\ shut # "open" /\ Go(r, "leaving") /\ Claimed(r, {})
          /\ UNCHANGED <<registry, admitted, stop, ctx>>
       \/ /\ r \notin detached /\ Go(r, "acquire") /\ Claimed(r, {})
          /\ UNCHANGED <<registry, admitted, stop, ctx>>
    /\ UNCHANGED <<leases, call, detached, cancelled, cut, died, running, shut, awaited, sent>>
-----------------------------------------------------------------------------
(* Jobs, deliveries and edits. *)

\* A job is the only call of its step and never starts inside a task.
AskJob(r) ==
    /\ r \in Job /\ At(r, "idle") /\ Host(r) = Root /\ Within(Root) = {}
    /\ IF Full \/ shut # "open"
       THEN Go(r, "gone") /\ UNCHANGED <<guards, registry, admitted, ctx>>
       ELSE /\ Hold(r, {"permit", "row"}) /\ Go(r, "acquire")
            /\ registry' = registry \cup {r} /\ admitted' = admitted \cup {r}
            /\ ctx' = [ctx EXCEPT ![r] = [NoContext EXCEPT !.stoppers = {r}]]
    /\ UNCHANGED <<leases, call, detached, ends, pools, shut, awaited, sent>>

\* Waiting for the claim it holds nothing; giving up hands the result back.
Deliver(r) ==
    /\ r \in Delivery /\ At(r, "idle") /\ Host(r) = Driver /\ call[r].session \notin active
    /\ active' = active \cup {call[r].session}
    /\ Hold(r, {"claim"}) /\ Go(r, "acquire")
    /\ ctx' = [ctx EXCEPT ![r] = [ancestry |-> {Tree(r)}, inside |-> {}, stoppers |-> {r}]]
    /\ UNCHANGED <<leases, call, detached, admitted, ends, running, reg, sent>>

\* The root's own edit never waits: it is refused behind whoever holds the tree.
EditTree(r) ==
    /\ r \in Edit /\ At(r, "idle") /\ Host(r) = Root /\ Within(Root) = {}
    /\ IF lock[Home] = Free
       THEN /\ TryTake(Home, r) /\ Hold(r, {"lease"}) /\ Go(r, "turn")
            /\ ctx' = [ctx EXCEPT ![r].inside = {Root}]
       ELSE Go(r, "gone") /\ UNCHANGED <<leases, guards, ctx>>
    /\ UNCHANGED <<call, detached, admitted, ends, pools, reg, sent>>
-----------------------------------------------------------------------------
(* The lease, the name and the turn. *)

\* Mutant of Acquire: a nested call waits like any other.
AcquireWaiting(r) ==
    /\ At(r, "acquire")
    /\ \/ ~call[r].writes /\ Go(r, "validating") /\ UNCHANGED <<leases, guards>>
       \/ /\ call[r].writes /\ TryTake(Tree(r), r)
          /\ Hold(r, {"lease"}) /\ Go(r, "marking")
       \/ /\ call[r].writes /\ Wait(Tree(r), r)
          /\ Go(r, "queued") /\ UNCHANGED guards
    /\ UNCHANGED <<fixed, ends, pools, reg, sent>>

\* A call inside a task never waits for another checkout.
Acquire(r) ==
    /\ At(r, "acquire")
    /\ \/ ~call[r].writes /\ Go(r, "validating") /\ UNCHANGED <<leases, guards>>
       \/ /\ call[r].writes /\ TryTake(Tree(r), r)
          /\ Hold(r, {"lease"}) /\ Go(r, "marking")
       \/ /\ call[r].writes /\ lock[Tree(r)] # Free /\ Cross(r)
          /\ Go(r, "leaving") /\ UNCHANGED <<leases, guards>>
       \/ /\ call[r].writes /\ ~Cross(r) /\ Wait(Tree(r), r)
          /\ Go(r, "queued") /\ UNCHANGED guards
    /\ UNCHANGED <<fixed, ends, pools, reg, sent>>

Wake(r) ==
    /\ At(r, "queued") /\ r \notin cut /\ Granted(Tree(r), r)
    /\ Hold(r, {"lease"}) /\ Go(r, "marking")
    /\ UNCHANGED <<fixed, ends, pools, reg, sent>>

Mark(r) ==
    /\ At(r, "marking") /\ HoldAs(Tree(r), r)
    /\ Hold(r, {"mark"}) /\ Go(r, IF r \in Job THEN "turn" ELSE "validating")
    /\ UNCHANGED <<fixed, ends, pools, reg, sent>>

\* A task's lease goes to its turn and its mark to the run around it, which
\* turns round the order they drop in.
Settled(gs) == IF "mark" \in gs THEN (gs \ {"mark"}) \cup {"holder"} ELSE gs

\* Only a checkout that is not the caller's own is looked at again.
Validate(r) ==
    /\ At(r, "validating") /\ r \notin cut
    /\ \/ /\ Go(r, "turn")
          /\ guards' = IF r \in Task THEN [guards EXCEPT ![r] = Settled(@)] ELSE guards
       \/ (r \in Delivery \/ ~SameTree(r)) /\ Go(r, "leaving") /\ UNCHANGED guards
    /\ UNCHANGED <<leases, fixed, ends, pools, reg, sent>>

\* A turn ends by itself once the calls inside it have.
Finish(r) ==
    /\ At(r, "turn") /\ r \notin cut /\ Within(r) = {}
    /\ Go(r, "leaving")
    /\ UNCHANGED <<leases, fixed, guards, ends, pools, reg, sent>>
-----------------------------------------------------------------------------
(* Ends from outside. *)

Stops(rs) == stop' = stop \cup {r \in rs : Live(r)}
Cancels(r) == /\ cancelled' = cancelled \cup {r} \cup Hanging(r)
              /\ Stops({r} \cup Hanging(r))
Drops(h) == cut' = cut \cup Within(h)

\* A wait for the lease gives way to a stop; a job's also to its timeout and a
\* delivery's to ROUTE_LEASE_WAIT.
GiveUp(r) ==
    /\ \/ r \in stop /\ place[r] \in {"acquire", "queued"} /\ r \in admitted \cup Delivery
       \/ r \in Job \cup Delivery /\ At(r, "queued")
    /\ IF At(r, "queued") THEN StopWaiting(Tree(r), r) ELSE UNCHANGED leases
    /\ Go(r, "leaving")
    /\ UNCHANGED <<fixed, guards, ends, pools, reg, sent>>

\* Before the turn there is nothing to wind down.
StopEarly(r) ==
    /\ At(r, "validating") /\ r \in stop /\ r \in admitted \cup Delivery
    /\ Go(r, "leaving")
    /\ UNCHANGED <<leases, fixed, guards, ends, pools, reg, sent>>

\* A detached turn that is told to stop, or has gone quiet: its token is
\* cancelled and it has BACKGROUND_ABORT_GRACE to wind down.
Halt(r) ==
    /\ r \in Task \cap admitted /\ At(r, "turn") /\ ~Polling(r)
    /\ Cancels(r) /\ Drops(r) /\ Go(r, "stopping")
    /\ UNCHANGED <<leases, fixed, guards, died, pools, reg, sent>>

HaltDelivery(r) ==
    /\ r \in Delivery \cap stop /\ At(r, "turn") /\ ~Polling(r)
    /\ Drops(r) /\ Go(r, "stopping")
    /\ UNCHANGED <<leases, fixed, guards, stop, cancelled, died, pools, reg, sent>>

\* A job's future is dropped where it stands, at a stop or its timeout.
HaltJob(r) ==
    /\ r \in Job /\ At(r, "turn") /\ Go(r, "leaving")
    /\ UNCHANGED <<leases, fixed, guards, ends, pools, reg, sent>>

Panic(r) ==
    /\ r \in admitted /\ At(r, "turn") /\ ~Polling(r) /\ Cardinality(died) < MaxPanics
    /\ died' = died \cup {r} /\ Drops(r) /\ Go(r, "stopping")
    /\ UNCHANGED <<leases, fixed, guards, stop, cancelled, pools, reg, sent>>

\* A file write the turn had handed to a blocking thread goes on without it.
MayWriteOn(r) == UNCHANGED leases \/ (call[r].writes /\ LeaveWriting(r))

Stopped(r) ==
    /\ At(r, "stopping") /\ Within(r) = {} /\ MayWriteOn(r) /\ Go(r, "leaving")
    /\ UNCHANGED <<fixed, guards, ends, pools, reg, sent>>

\* The caller's future is dropped, and with it this one, at whatever await it is.
Unwind(r) ==
    /\ r \in cut /\ Within(r) = {} /\ Go(r, "leaving")
    /\ \/ place[r] \in {"checking", "validating"} /\ UNCHANGED leases
       \/ At(r, "queued") /\ StopWaiting(Tree(r), r)
       \/ At(r, "turn") /\ MayWriteOn(r)
    /\ UNCHANGED <<fixed, guards, ends, pools, reg, sent>>

WriteEnds(r) ==
    /\ "write" \in clones[r] /\ DropClone(Tree(r), r, "write")
    /\ UNCHANGED <<fixed, place, guards, ends, pools, reg, sent>>
-----------------------------------------------------------------------------
(* Letting go, in the order the guards drop. *)

Order(r) ==
    CASE r \in Task \cap died -> <<"mark", "lease", "holder", "slot", "claim", "row", "permit">>
      [] r \in died \ Task -> <<"mark", "lease", "row", "permit">>
      [] r \in (Task \cap admitted) \ died -> <<"mark", "lease", "holder", "permit", "slot", "claim", "row">>
      [] r \in (Job \cup Delivery) \ died -> <<"mark", "lease", "permit", "row", "claim">>
      [] OTHER -> <<"over", "mark", "lease", "holder", "claim", "slot", "resumed", "permit">>

\* The first of its guards in that order.
NextGuard(r) ==
    LET order == Order(r)
    IN  CHOOSE g \in guards[r] : \E i \in DOMAIN order :
            order[i] = g /\ \A j \in 1 .. i - 1 : order[j] \notin guards[r]

\* Mutant of Report: the reservation is armed when it is taken.
ReportAlways(r) == notices' = [notices EXCEPT ![r] = @ + 1] /\ UNCHANGED channel

\* A reservation that was told "started" is spent on the report; one that was
\* not is given back without a word.
Report(r) ==
    IF r \in admitted
    THEN notices' = [notices EXCEPT ![r] = @ + 1] /\ channel' = channel \cup {r}
    ELSE UNCHANGED sent

LetGo(r) ==
    /\ At(r, "leaving") /\ guards[r] # {}
    /\ LET g == NextGuard(r)
       IN  /\ guards' = [guards EXCEPT ![r] = @ \ {g}]
           /\ CASE g = "lease" -> DropClone(Tree(r), r, "run")
                [] g \in {"mark", "holder"} -> DropMark(Tree(r), r)
                [] OTHER -> UNCHANGED leases
           /\ active' = IF g \in {"resumed", "claim"} THEN active \ {call[r].session} ELSE active
           /\ running' = IF g \in {"slot", "over"} THEN running - 1 ELSE running
           /\ registry' = IF g = "row" THEN registry \ {r} ELSE registry
           /\ IF g = "permit" THEN Report(r) ELSE UNCHANGED sent
    /\ UNCHANGED <<fixed, place, ends, shut, awaited>>

\* Its token and its future are gone with it.
Leave(r) ==
    /\ At(r, "leaving") /\ guards[r] = {} /\ Go(r, "gone")
    /\ stop' = stop \ {r} /\ cut' = cut \ {r}
    /\ UNCHANGED <<leases, fixed, guards, cancelled, died, pools, reg, sent>>
-----------------------------------------------------------------------------
(* The callers and the driver. *)

\* A turn given up, or a view closed, drops the calls inside it.
Abandon(h) ==
    /\ Within(h) \ cut # {} /\ ~Polling(h) /\ Drops(h)
    /\ UNCHANGED <<leases, fixed, place, guards, stop, cancelled, died, pools, reg, sent>>

CancelTask(r) ==
    /\ r \in registry \cap Task /\ r \notin stop /\ Stops({r})
    /\ UNCHANGED <<leases, fixed, place, guards, cancelled, cut, died, pools, reg, sent>>

CancelDelivery(r) ==
    /\ r \in Delivery /\ Live(r) /\ r \notin stop /\ Cancels(r)
    /\ UNCHANGED <<leases, fixed, place, guards, cut, died, pools, reg, sent>>

AbortAll ==
    /\ ~(registry \subseteq stop) /\ Stops(registry)
    /\ UNCHANGED <<leases, fixed, place, guards, cancelled, cut, died, pools, reg, sent>>

Receive(r) ==
    /\ r \in channel /\ channel' = channel \ {r}
    /\ UNCHANGED <<leases, fixed, place, guards, ends, pools, reg, notices>>

\* Close, stop and drain the registry under its lock, then wait for each body.
Shutdown ==
    /\ shut = "open" /\ shut' = "waiting"
    /\ Stops(registry) /\ awaited' = registry /\ registry' = {}
    /\ UNCHANGED <<leases, fixed, place, guards, cancelled, cut, died, pools, sent>>

ShutdownReturns ==
    /\ shut = "waiting" /\ \A r \in awaited : At(r, "gone")
    /\ shut' = "done"
    /\ UNCHANGED <<leases, fixed, place, guards, ends, pools, registry, awaited, sent>>
-----------------------------------------------------------------------------
\* What a run does of its own once asked for.  A detached task's turn need not
\* end by itself: the stall watch ends one that hangs, and a job has a timeout.
Watched(r) == r \in Job \/ ctx[r].stoppers \cap Task # {}
Steps(r) ==
    \/ Look(r) \/ Enter(r) \/ Decline(r) \/ Admit(r) \/ Acquire(r) \/ Wake(r) \/ Mark(r)
    \/ Validate(r) \/ GiveUp(r) \/ StopEarly(r) \/ Halt(r) \/ HaltDelivery(r) \/ HaltJob(r)
    \/ Stopped(r) \/ Unwind(r) \/ LetGo(r) \/ Leave(r) \/ WriteEnds(r)

Next ==
    \/ \E r \in Run : \/ Ask(r) \/ AskJob(r) \/ Deliver(r) \/ EditTree(r) \/ Steps(r)
                      \/ Finish(r) \/ Panic(r) \/ CancelTask(r) \/ CancelDelivery(r) \/ Receive(r)
    \/ \E h \in {Root, Person} : Abandon(h)
    \/ AbortAll \/ Shutdown \/ ShutdownReturns

Fairness ==
    /\ \A r \in Run : WF_vars(Steps(r)) /\ WF_vars(~Watched(r) /\ Finish(r))
    /\ WF_vars(ShutdownReturns)

Spec == Init /\ [][Next]_vars /\ Fairness
-----------------------------------------------------------------------------
(* Properties. *)

Counts(gs) == Cardinality({r \in Run : guards[r] \cap gs # {}})

\* The slot counter is exactly what is taken, a call about to be refused
\* included, and no more tasks than the limit ever have a slot (SlotGuard and
\* the fetch_add of run_task_observed).
SlotsAreCounted == running = Counts({"slot", "over"}) /\ Counts({"slot"}) <= MaxConcurrent

InTurn(r) == place[r] \in {"turn", "stopping"}

\* Two turns never drive one session, whichever of a task, a resume and a
\* delivery they are (claim_session, ActiveSessionGuard).
OneTurnPerSession ==
    \A r, q \in Task \cup Delivery :
        r # q /\ InTurn(r) /\ InTurn(q) => call[r].session # call[q].session

Writing(r) == (call[r].writes /\ InTurn(r)) \/ "write" \in clones[r]

\* Two mutators never share a checkout: not across a handover, a stop, an
\* abandoned step or a file write that outlives its caller (WorkspaceLease,
\* run_blocking_io).
WritersExclude ==
    \A r, q \in Run : r # q /\ Writing(r) /\ Writing(q) => Tree(r) # Tree(q)

Marked(r) == guards[r] \cap {"mark", "holder"} # {}

\* The name on a checkout is its holder's for the whole of the turn, however
\* late the one before lets go of its own, and no name outlives its run
\* (HolderMark): a refusal names who really holds the checkout.
HolderIsNamed ==
    /\ \A r \in Run : Marked(r) /\ ~At(r, "leaving") => mark[Tree(r)] = r
    /\ \A c \in Checkout : mark[c] # Free => Marked(mark[c]) /\ Tree(mark[c]) = c

\* r cannot go on before q has.
WaitsFor(r, q) ==
    \/ /\ At(r, "queued") /\ lock[Tree(r)] # r
       /\ \/ q = lock[Tree(r)]
          \/ \E i, j \in DOMAIN queue[Tree(r)] :
                i < j /\ queue[Tree(r)][i] = q /\ queue[Tree(r)][j] = r
    \/ At(r, "turn") /\ q \in Within(r)

\* No set of runs waits only for each other: a task never waits for another
\* checkout while its caller holds one (acquire_task_lease).
NoCircularWait ==
    LET waiting == {r \in Run : \E q \in Run : WaitsFor(r, q)}
    IN  ~ \E D \in (SUBSET waiting) \ {{}} : \A r \in D : \E q \in D : WaitsFor(r, q)

\* What a stopped task started is told to stop, also when it was being started
\* at that moment (detached_owner, child_token).
StopsWithItsOwner ==
    \A r \in admitted :
        Live(r) /\ (ctx[r].stoppers \ {r}) \cap cancelled # {} => r \in stop

\* Once shutdown has returned, no run that was told "started" holds anything,
\* except that one that panicked may still have its report to make.
ShutdownIsComplete ==
    shut = "done" => \A r \in admitted : guards[r] \subseteq (IF r \in died THEN {"permit"} ELSE {})

\* A call that is told "started" is reported exactly once and always; one that
\* is refused never is (ReservedNotification).
Promised(r) ==
    IF notices[r] = 0 THEN IF r \in admitted THEN "started" ELSE "unasked"
    ELSE IF notices[r] = 1 /\ r \in admitted THEN "reported" ELSE "broken"
Promise == INSTANCE BackgroundPromise WITH Call <- Run, status <- [r \in Run |-> Promised(r)]
KeepsThePromise == Promise!Spec

\* Whatever was asked for ends, and lets go of all it took.
EveryCallEnds == \A r \in Run : Live(r) ~> At(r, "gone") /\ clones[r] = {}

\* A step the model is blocked on never waits behind a run that outlives it:
\* what the comment of the check in run_task_observed promises.
StepNeverWaitsForJob ==
    \A r \in Task :
        At(r, "queued") /\ Alone(r) /\ InStep(r) /\ lock[Tree(r)] # r
            => ~DetachedHolder(lock[Tree(r)])
=============================================================================
