------------------------------ MODULE SessionLease ------------------------------
(* The writer lease of one session (crates/ilar/src/session/store.rs): a flock on *)
(* the file <id>.lock, which its holder unlinks before it lets go.  A lock is an  *)
(* inode and not a path, so an acquirer that won an inode compares it with what   *)
(* the path names now, and so does whoever is about to unlink.  An actor is one   *)
(* process or one turn of one; a sweep (sweep_stale_locks) is an actor too.       *)
(*   named   the inode the path <id>.lock names, or NoFile                        *)
(*   locks   who holds the flock of each inode                                    *)
(*   hand    the inode behind each actor's open handle                            *)
(*   tries   how often an acquisition met an inode without a name                 *)
(*   at      where each actor is: "idle", "opening" (to try again), "opened",     *)
(*           "locked", "held" (a SessionWriter exists), "found" and "swept" (the  *)
(*           same two steps of a sweep), "unlinking", "releasing"                 *)
EXTENDS Naturals

CONSTANTS Actor, Inode, NoFile, Nobody,
          Attempts                       \* LOCK_IDENTITY_ATTEMPTS

ASSUME LeaseAssumption ==
  /\ NoFile \notin Inode /\ Nobody \notin Actor
  /\ Attempts \in Nat \ {0}

VARIABLES named, locks, hand, tries, at

leaseVars == <<named, locks, hand, tries, at>>

Places == {"idle", "opening", "opened", "locked", "held", "found", "swept", "unlinking", "releasing"}

LeaseTypeOK ==
  /\ named \in Inode \cup {NoFile}
  /\ locks \in [Inode -> Actor \cup {Nobody}]
  /\ hand \in [Actor -> Inode \cup {NoFile}]
  /\ tries \in [Actor -> 0..Attempts]
  /\ at \in [Actor -> Places]

LeaseInit ==
  /\ named = NoFile
  /\ locks = [i \in Inode |-> Nobody]
  /\ hand = [a \in Actor |-> NoFile]
  /\ tries = [a \in Actor |-> 0]
  /\ at = [a \in Actor |-> "idle"]

--------------------------------------------------------------------------------
(* Inodes nobody names and nobody has open: a file just created gets one of them. *)
Unused == {i \in Inode : i # named /\ \A a \in Actor : hand[a] # i}

Goes(a, place) == at' = [at EXCEPT ![a] = place]

(* acquire_writer_id opens the path, creating the file when it is not there.      *)
Open(a) ==
  /\ at[a] \in {"idle", "opening"}
  /\ IF named # NoFile THEN named' = named
     ELSE Unused # {} /\ named' = CHOOSE i \in Unused : TRUE
  /\ hand' = [hand EXCEPT ![a] = named']
  /\ Goes(a, "opened")
  /\ UNCHANGED <<locks, tries>>

(* try_lock_exclusive wins.                                                       *)
LockWon(a) ==
  /\ at[a] \in {"opened", "found"}
  /\ locks[hand[a]] = Nobody
  /\ locks' = [locks EXCEPT ![hand[a]] = a]
  /\ Goes(a, IF at[a] = "opened" THEN "locked" ELSE "swept")
  /\ UNCHANGED <<named, hand, tries>>

(* The flock is somebody's: the acquirer is refused ("session is held by"), the   *)
(* sweep goes on to the next file.                                                *)
LockRefused(a) ==
  /\ at[a] \in {"opened", "found"}
  /\ locks[hand[a]] # Nobody
  /\ hand' = [hand EXCEPT ![a] = NoFile]
  /\ tries' = [tries EXCEPT ![a] = 0]
  /\ Goes(a, "idle")
  /\ UNCHANGED <<named, locks>>

\* Mutant of HoldsTheNamed: a won lock is taken for the path's.
HoldsAny(a) == TRUE

(* locked_the_named_file: what the handle holds is what the path names.           *)
HoldsTheNamed(a) == hand[a] = named

(* The re-stat agrees: the actor is the session's writer.                         *)
Identified(a) ==
  /\ at[a] = "locked"
  /\ HoldsTheNamed(a)
  /\ tries' = [tries EXCEPT ![a] = 0]
  /\ Goes(a, "held")
  /\ UNCHANGED <<named, locks, hand>>

(* It does not: the orphan is dropped and the acquisition starts over, or gives   *)
(* up after the last attempt.                                                     *)
Orphaned(a) ==
  /\ at[a] = "locked"
  /\ ~HoldsTheNamed(a)
  /\ locks' = [locks EXCEPT ![hand[a]] = Nobody]
  /\ hand' = [hand EXCEPT ![a] = NoFile]
  /\ IF tries[a] + 1 < Attempts
     THEN tries' = [tries EXCEPT ![a] = @ + 1] /\ Goes(a, "opening")
     ELSE tries' = [tries EXCEPT ![a] = 0] /\ Goes(a, "idle")
  /\ UNCHANGED named

(* A sweep opens the lock files it finds, and creates none.                       *)
Find(a) ==
  /\ at[a] = "idle"
  /\ named # NoFile
  /\ hand' = [hand EXCEPT ![a] = named]
  /\ Goes(a, "found")
  /\ UNCHANGED <<named, locks, tries>>

(* Drop of the writer, and the end of a sweep: unlink while the flock is held,    *)
(* only if the path still names this inode, then release.                         *)
LetGo(a) ==
  /\ at[a] \in {"held", "swept"}
  /\ Goes(a, IF HoldsTheNamed(a) THEN "unlinking" ELSE "releasing")
  /\ UNCHANGED <<named, locks, hand, tries>>

Unlink(a) ==
  /\ at[a] = "unlinking"
  /\ named' = NoFile
  /\ Goes(a, "releasing")
  /\ UNCHANGED <<locks, hand, tries>>

Unlock(a) ==
  /\ at[a] = "releasing"
  /\ locks' = [locks EXCEPT ![hand[a]] = Nobody]
  /\ hand' = [hand EXCEPT ![a] = NoFile]
  /\ Goes(a, "idle")
  /\ UNCHANGED <<named, tries>>

(* The process dies: the system closes its handle and frees its flock, and the    *)
(* lock file stays behind.                                                        *)
LeaseDies(a) ==
  /\ at[a] # "idle"
  /\ locks' = [i \in Inode |-> IF locks[i] = a THEN Nobody ELSE locks[i]]
  /\ hand' = [hand EXCEPT ![a] = NoFile]
  /\ tries' = [tries EXCEPT ![a] = 0]
  /\ Goes(a, "idle")
  /\ UNCHANGED named

LeaseStep(a) ==
  \/ Open(a) \/ LockWon(a) \/ LockRefused(a) \/ Identified(a) \/ Orphaned(a)
  \/ Find(a) \/ LetGo(a) \/ Unlink(a) \/ Unlock(a) \/ LeaseDies(a)

LeaseNext == \E a \in Actor : LeaseStep(a)

LeaseSpec == LeaseInit /\ [][LeaseNext]_leaseVars

--------------------------------------------------------------------------------
(* A session never has two writers, through unlinks, orphans, sweeps and deaths   *)
(* (store.rs: "the very thing the identity check exists to prevent").             *)
OneOwner == \A a, b \in Actor : at[a] = "held" /\ at[b] = "held" => a = b
==================================================================================
