--------------------------- MODULE WorkspaceLeases ---------------------------
(***************************************************************************)
(* The write lease of each checkout and the name its holder puts on it     *)
(* (WorkspaceScheduler in crates/ilar/src/tools/mod.rs).  Readers take no  *)
(* lock.  A writer takes the lock when it is free; otherwise it waits in   *)
(* the order of arrival, and a lock let go is handed to the first waiter   *)
(* before that waiter runs again.  A lease is reference counted: the run   *)
(* has one clone of it and a file write on a blocking thread, which goes   *)
(* on when its caller is dropped, may have another.                        *)
(***************************************************************************)
EXTENDS Naturals, SequencesExt, FiniteSets

CONSTANTS Checkout, Holder, Free

ASSUME FreeAssumption == Free \notin Holder

VARIABLES
    lock,     \* whom the lock of each checkout belongs to
    queue,    \* who waits for it, in order
    clones,   \* the clones of each holder's lease: of the "run", of a "write"
    mark      \* whose name is on each checkout

leases == <<lock, queue, clones, mark>>

LeasesTypeOK ==
    /\ lock \in [Checkout -> Holder \cup {Free}]
    /\ mark \in [Checkout -> Holder \cup {Free}]
    /\ clones \in [Holder -> SUBSET {"run", "write"}]
    /\ queue \in [Checkout -> Seq(Holder)] /\ \A c \in Checkout : IsInjective(queue[c])

LeasesInit ==
    /\ lock = [c \in Checkout |-> Free] /\ queue = [c \in Checkout |-> <<>>]
    /\ clones = [r \in Holder |-> {}] /\ mark = [c \in Checkout |-> Free]

\* A free lock has no waiters: it is handed over before it is seen free.
TryTake(c, r) ==
    /\ lock[c] = Free
    /\ lock' = [lock EXCEPT ![c] = r] /\ clones' = [clones EXCEPT ![r] = {"run"}]
    /\ UNCHANGED <<queue, mark>>

Wait(c, r) ==
    /\ lock[c] # Free
    /\ queue' = [queue EXCEPT ![c] = Append(@, r)]
    /\ UNCHANGED <<lock, clones, mark>>

Granted(c, r) ==
    /\ lock[c] = r
    /\ clones' = [clones EXCEPT ![r] = {"run"}]
    /\ UNCHANGED <<lock, queue, mark>>

HandOver(c) ==
    IF queue[c] = <<>> THEN lock' = [lock EXCEPT ![c] = Free] /\ UNCHANGED queue
    ELSE /\ lock' = [lock EXCEPT ![c] = Head(queue[c])]
         /\ queue' = [queue EXCEPT ![c] = Tail(@)]

\* The waiter leaves its place in the queue.
LeaveQueue(c, r) ==
    /\ \E i \in DOMAIN queue[c] : queue[c][i] = r /\ queue' = [queue EXCEPT ![c] = RemoveAt(@, i)]
    /\ UNCHANGED lock

\* Mutant of StopWaiting: the lock handed to a waiter is lost with it.
StopWaitingKept(c, r) ==
    /\ IF lock[c] = r THEN UNCHANGED <<lock, queue>> ELSE LeaveQueue(c, r)
    /\ UNCHANGED <<clones, mark>>

\* A waiter dropped: one that was handed the lock and never woke passes it on.
StopWaiting(c, r) ==
    /\ IF lock[c] = r THEN HandOver(c) ELSE LeaveQueue(c, r)
    /\ UNCHANGED <<clones, mark>>

\* Mutant of DropClone: a write on a blocking thread has no part in the lease.
DropCloneOfRun(c, r, k) ==
    /\ clones' = [clones EXCEPT ![r] = @ \ {k}]
    /\ IF k = "run" THEN HandOver(c) ELSE UNCHANGED <<lock, queue>>
    /\ UNCHANGED mark

DropClone(c, r, k) ==
    /\ clones' = [clones EXCEPT ![r] = @ \ {k}]
    /\ IF clones[r] = {k} THEN HandOver(c) ELSE UNCHANGED <<lock, queue>>
    /\ UNCHANGED mark

\* A run dropped in the middle of a file write leaves the write its clone.
LeaveWriting(r) ==
    /\ "run" \in clones[r]
    /\ clones' = [clones EXCEPT ![r] = @ \cup {"write"}]
    /\ UNCHANGED <<lock, queue, mark>>

HoldAs(c, r) == mark' = [mark EXCEPT ![c] = r] /\ UNCHANGED <<lock, queue, clones>>

\* Mutant of DropMark: a late drop erases the next holder's name.
DropAnyMark(c, r) ==
    /\ mark' = [mark EXCEPT ![c] = Free]
    /\ UNCHANGED <<lock, queue, clones>>

\* Only its own name: the next holder may have written another already.
DropMark(c, r) ==
    /\ mark' = [mark EXCEPT ![c] = IF @ = r THEN Free ELSE @]
    /\ UNCHANGED <<lock, queue, clones>>
=============================================================================
