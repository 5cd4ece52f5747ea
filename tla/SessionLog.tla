------------------------------- MODULE SessionLog -------------------------------
(* The append-only log of one session, its disposable replay index, and the open *)
(* sessions that write it (crates/ilar/src/session/store.rs, replay_index.rs).    *)
(* The log is the truth; the index is a sealed copy of the active window and of   *)
(* every call id behind it, believed only while its stamp is the file's.          *)
(*   file   [there, lines, torn, stamp]: the committed lines, whether a partial   *)
(*          line follows them, and a counter that moves with every change: the    *)
(*          FileStamp, and the source of event ids                                *)
(*   index  [window, start, offset, known, ids, stamp] or None: the events of the *)
(*          checkpoint, where they begin, the lines it covers, the call ids of    *)
(*          all history, whether the id file it names is there, the stamp sealed  *)
(*   sess   each actor's open Session: [events, base, stamp, ckpt, tail], or None *)
(*   faults how many writes may still fail                                        *)
EXTENDS SessionLease, SessionEvents

CONSTANT None

VARIABLES file, index, sess, faults

logVars == <<file, index, sess, faults>>

NoFileYet == [there |-> FALSE, lines |-> <<>>, torn |-> FALSE, stamp |-> 0]

(* What an index holds, and what a session in memory does.                        *)
IndexFile == [window : Seq(Entry), start : Nat, offset : Nat, known : SUBSET Nat, ids : BOOLEAN,
              stamp : Nat]
OpenSession == [events : Seq(Entry), base : Nat, stamp : Nat, ckpt : IndexFile \cup {None}, tail : Nat]

ASSUME NoneAssumption == None \notin OpenSession \cup IndexFile

LogTypeOK ==
  /\ file \in [there : BOOLEAN, lines : Seq(Entry), torn : BOOLEAN, stamp : Nat]
  /\ index \in IndexFile \cup {None}
  /\ sess \in [Actor -> OpenSession \cup {None}]
  /\ ~file.there => file.lines = <<>> /\ ~file.torn
  /\ \A a \in Actor : sess[a] # None => /\ at[a] = "held"
                                        /\ sess[a].events # <<>> => sess[a].events[1].k = "meta"
                                        /\ sess[a].tail <= Len(sess[a].events)
                                        /\ sess[a].stamp <= file.stamp

--------------------------------------------------------------------------------
(* read_indexed_replay: what makes the index believed. Its stamp is the file's,   *)
(* its id file is there, its window and the window with the tail both replay, and *)
(* the tail is committed, holds no compaction and no rewind, and repeats no id.   *)
TailOf(ix) == SubSeq(file.lines, ix.offset + 1, Len(file.lines))

TailFits(ix) ==
  /\ ~\E i \in DOMAIN TailOf(ix) : TailOf(ix)[i].k \in {"compaction", "rewind"}
  /\ CallIds(TailOf(ix)) \cap ix.known = {}

Indexed(ix) == ix.window \o TailOf(ix)

Usable(ix) ==
  /\ file.there /\ ix # None
  /\ ix.stamp = file.stamp /\ ix.ids /\ ~file.torn
  /\ ix.start # 0 /\ Len(ix.window) >= 2
  /\ \E i \in DOMAIN ix.window : ix.window[i].k = "compaction"
  /\ TailFits(ix)
  /\ Valid(ix.window) /\ Valid(Indexed(ix))

(* read_events: the folded log replays from the first line.                       *)
Replays(lines) == lines # <<>> /\ FoldsCleanly(lines) /\ Valid(Folded(lines))

--------------------------------------------------------------------------------
(* publish_checkpoint of a session at a local cut: the window it seals. The last  *)
(* compaction now keeps from 1, and cutoffs move with the cut.                    *)
Sealed(events, cut) ==
  LET window == <<events[1]>> \o SubSeq(events, cut + 1, Len(events))
      last == CHOOSE i \in DOMAIN window :
                /\ window[i].k = "compaction"
                /\ \A j \in DOMAIN window : window[j].k = "compaction" => j <= i
  IN [i \in DOMAIN window |->
        IF i = last THEN [window[i] EXCEPT !.n = 1]
        ELSE IF window[i].k = "cutoff" THEN [window[i] EXCEPT !.n = Rebased(window[i].n, cut)]
        ELSE window[i]]

\* Mutant of KnownCalls: a new checkpoint forgets what the one before it knew.
KnownSinceCheckpoint(s) == CallIds(SubSeq(s.events, s.tail + 1, Len(s.events)))

(* The call ids a session's history holds: the records of the index before, and   *)
(* those of the events since.                                                     *)
KnownCalls(s) ==
  (IF s.ckpt = None THEN {} ELSE s.ckpt.known) \cup CallIds(SubSeq(s.events, s.tail + 1, Len(s.events)))

(* Whether there is a window to seal: a cut inside, and a compaction kept in it.  *)
Sealable(s, cut) ==
  /\ cut # 0 /\ cut < Len(s.events)
  /\ \E i \in (cut + 1)..Len(s.events) : s.events[i].k = "compaction"
  /\ Valid(s.events) /\ Valid(Sealed(s.events, cut))
  /\ s.ckpt # None => CallIds(SubSeq(s.events, s.tail + 1, Len(s.events))) \cap s.ckpt.known = {}

Checkpoint(s, cut) ==
  [window |-> Sealed(s.events, cut), start |-> Canonical(s.base, cut),
   offset |-> Len(file'.lines), known |-> KnownCalls(s), ids |-> TRUE, stamp |-> file'.stamp]

(* The environment: a write to the disk fails.                                    *)
Fails == faults > 0 /\ faults' = faults - 1

(* The checkpoint goes to disk, or (a fault) stays as it was: the disk keeps the  *)
(* old one, whose stamp is stale now, and so does the session.                    *)
Publishes(a, s, cut) ==
  IF Sealable(s, cut)
  THEN \/ /\ index' = Checkpoint(s, cut)
          /\ sess' = [sess EXCEPT ![a] = [s EXCEPT !.ckpt = index', !.tail = Len(s.events)]]
          /\ UNCHANGED faults
       \/ /\ Fails
          /\ sess' = [sess EXCEPT ![a] = s]
          /\ UNCHANGED index
  ELSE sess' = [sess EXCEPT ![a] = s] /\ UNCHANGED <<index, faults>>

(* refresh_checkpoint: the session's checkpoint is sealed again under the new     *)
(* stamp, or (a fault) is not.                                                    *)
Refreshes(a, s) ==
  IF s.ckpt # None
  THEN \/ /\ index' = [s.ckpt EXCEPT !.stamp = file'.stamp]
          /\ sess' = [sess EXCEPT ![a] = [s EXCEPT !.ckpt = index']]
          /\ UNCHANGED faults
       \/ /\ Fails
          /\ sess' = [sess EXCEPT ![a] = s]
          /\ UNCHANGED index
  ELSE sess' = [sess EXCEPT ![a] = s] /\ UNCHANGED <<index, faults>>

--------------------------------------------------------------------------------
\* Mutant of MayAppend: an open call keeps nothing out.
MayAppendOver(a, e) == sess[a].stamp = file.stamp

(* append_event writes only to the file it last saw, and no ordinary event while  *)
(* a call is unanswered.                                                          *)
MayAppend(a, e) ==
  /\ sess[a].stamp = file.stamp
  /\ AllowedWhileUnanswered(e) \/ ~HasUnanswered(sess[a].events)

(* The line that goes to the file: its indexes are the whole log's.               *)
CanonicalEvent(a, e) ==
  IF e.k \in {"compaction", "cutoff"} THEN [e EXCEPT !.n = Canonical(sess[a].base, e.n)] ELSE e

(* append_event of a line it may write: the line is on disk, the event in memory, *)
(* and the index follows as best it can.                                          *)
Appends(a, e) ==
  LET new == [e EXCEPT !.id = file.stamp + 1]
      s == [sess[a] EXCEPT !.events = Append(@, new), !.stamp = file.stamp + 1]
  IN /\ file' = [file EXCEPT !.lines = Append(@, CanonicalEvent(a, new)), !.stamp = @ + 1]
     /\ IF e.k = "compaction" THEN Publishes(a, s, e.n) ELSE Refreshes(a, s)

(* The write fails: it wrote nothing, part of the line, or all of it. Memory keeps *)
(* the state before.                                                              *)
AppendFails(a, e) ==
  /\ Fails
  /\ \/ UNCHANGED file
     \/ file' = [file EXCEPT !.torn = TRUE, !.stamp = @ + 1]
     \/ file' = [file EXCEPT !.lines = Append(@, CanonicalEvent(a, [e EXCEPT !.id = file.stamp + 1])),
                             !.stamp = @ + 1]
  /\ UNCHANGED <<index, sess>>

(* Refused before the write; a file that changed also costs the checkpoint.       *)
AppendRefused(a) ==
  /\ sess' = [sess EXCEPT ![a].ckpt = IF sess[a].stamp = file.stamp THEN @ ELSE None]
  /\ UNCHANGED <<file, index, faults>>

--------------------------------------------------------------------------------
(* SessionStore::create: the file is made, and its first append is the metadata.  *)
CreateFile(a) ==
  /\ ~file.there
  /\ file' = [file EXCEPT !.there = TRUE, !.stamp = @ + 1]
  /\ sess' = [sess EXCEPT ![a] = [events |-> <<>>, base |-> 0, stamp |-> file.stamp + 1,
                                  ckpt |-> None, tail |-> 0]]
  /\ UNCHANGED <<index, faults>>

(* SessionWriter::load through the index.                                         *)
LoadIndexed(a) ==
  /\ sess' = [sess EXCEPT ![a] = [events |-> Indexed(index), base |-> index.start,
                                  stamp |-> file.stamp, ckpt |-> index,
                                  tail |-> Len(index.window)]]
  /\ UNCHANGED <<file, index, faults>>

(* SessionWriter::load in full: the torn tail is cut off, a compacted log gets    *)
(* its index back (unless that fails), and with it the session shrinks to the     *)
(* window.                                                                        *)
LoadWhole(a) ==
  LET whole == [events |-> Folded(file.lines), base |-> 0, stamp |-> file'.stamp,
                ckpt |-> None, tail |-> 0]
      cut == CompactionCut(whole.events)
      Whole == sess' = [sess EXCEPT ![a] = whole] /\ UNCHANGED index
  IN /\ file' = IF file.torn THEN [file EXCEPT !.torn = FALSE, !.stamp = @ + 1] ELSE file
     /\ IF Sealable(whole, cut)
        THEN \/ /\ index' = Checkpoint(whole, cut)
                /\ sess' = [sess EXCEPT ![a] = [events |-> index'.window, base |-> index'.start,
                                                stamp |-> file'.stamp, ckpt |-> index',
                                                tail |-> Len(index'.window)]]
                /\ UNCHANGED faults
             \/ Fails /\ Whole
        ELSE Whole /\ UNCHANGED faults

(* No committed event, or a log that does not replay.                             *)
Loadable == file.there /\ (Usable(index) \/ Replays(file.lines))

Loads(a) == IF Usable(index) THEN LoadIndexed(a) ELSE LoadWhole(a)

(* The calls a load answers as interrupted: all that are open, but for a pending  *)
(* question.                                                                      *)
Interrupted(events) == IF IsPending(events) THEN <<>> ELSE Unanswered(events)

--------------------------------------------------------------------------------
(* rewind_to drops the id file, then the index, and only then marks the log.      *)
DropIds(a) ==
  /\ index' = IF index # None /\ sess[a].ckpt # None THEN [index EXCEPT !.ids = FALSE] ELSE index
  /\ UNCHANGED <<file, sess, faults>>

DropIndex(a) ==
  /\ index' = None
  /\ sess' = [sess EXCEPT ![a].ckpt = None]
  /\ UNCHANGED <<file, faults>>

\* Mutant of Marker: the window's index goes to the log as it is.
LocalMarker(a, cut) == [Event("rewind") EXCEPT !.n = cut]

(* The marker for the local index `cut`. The session is consumed with it.         *)
Marker(a, cut) == [Event("rewind") EXCEPT !.n = Canonical(sess[a].base, cut)]

(* SessionStore::delete, with the lease held: index and ids, then the log.        *)
DeleteSidecars(a) == index' = None /\ UNCHANGED <<file, sess, faults>>

DeleteLog(a) ==
  /\ file' = [NoFileYet EXCEPT !.stamp = file.stamp + 1]
  /\ UNCHANGED <<index, sess, faults>>

(* The holder of an open session dies, perhaps in the middle of a line.           *)
SessionDies(a) ==
  /\ sess' = [sess EXCEPT ![a] = None]
  /\ file' \in {file} \cup (IF sess[a] # None /\ file.there /\ sess[a].stamp = file.stamp
                            THEN {[file EXCEPT !.torn = TRUE, !.stamp = @ + 1]} ELSE {})
  /\ UNCHANGED <<index, faults>>

Closes(a) == sess' = [sess EXCEPT ![a] = None] /\ UNCHANGED <<file, index, faults>>
==================================================================================
