----------------------------- MODULE SessionPromises -----------------------------
(* What a session's log, its index, its watchers and its turns must keep, while   *)
(* two processes open it, are cancelled, fail to write and die (TurnLoop).        *)
EXTENDS TurnLoop

(* The log as a reader has it: its lines with the rewinds folded.                 *)
Said == Folded(file.lines)

TypeOK ==
  /\ LeaseTypeOK /\ LogTypeOK
  /\ plan \in Plans /\ kills \in 0..plan.kills /\ faults \in 0..plan.faults
  /\ scratch \in Actor \cup {Nobody, Leftover}
  /\ tree \in Nat /\ saved \subseteq 0..file.stamp
  /\ \A a \in Actor :
        /\ turn[a].iters \in 0..MaxIterations /\ turn[a].resumes \in 0..MaxResumes
        /\ turn[a].todo # <<>> => turn[a].pc \in {"answers", "stepdone", "asking", "tools", "closing",
                                                 "finish", "leave"}
        /\ turn[a].pc \notin {"idle", "acquire"} => at[a] = "held"

(* Whatever was torn, refused, cancelled or killed, the log always loads: no      *)
(* crash, no failed append and no order of two writers leaves a line behind that  *)
(* the validator refuses (append_event: "a log ... no later open can read").      *)
AlwaysLoads == file.there /\ file.lines # <<>> => Replays(file.lines)

(* An event without the index it carries, which is checked apart.                 *)
Unplaced(events) ==
  [i \in DOMAIN events |->
     IF events[i].k \in {"compaction", "cutoff"} THEN [events[i] EXCEPT !.n = 0] ELSE events[i]]

(* An index that would be believed tells what a full parse would: the same active *)
(* window at the same place, cut at the same event, and every call id of the      *)
(* whole history (what contains_tool_call looks calls up in).                     *)
IndexTellsTheLog ==
  Usable(index) =>
    LET window == Window(Said)
        events == Indexed(index)
    IN /\ Unplaced(events) = Unplaced(window.events)
       /\ index.start = window.base
       /\ CompactionCut(events) = CompactionCut(window.events)
       /\ index.known \cup CallIds(TailOf(index)) = CallIds(Said)

(* An indexed load shows a request the same pictures as a full parse would.       *)
IndexKeepsPictures ==
  Usable(index) => ImageCut(Indexed(index)) = ImageCut(Window(Said).events)

(* A turn that ended without a death or a failed write left no call open but a    *)
(* question to resume, however it was cancelled, failed or interrupted.           *)
LeavesNothingOpen ==
  (kills = plan.kills /\ faults = plan.faults /\ \A a \in Actor : turn[a].pc = "idle")
    => (Unanswered(Said) = <<>> \/ IsPending(Said))

(* The scratch at the path is the one of the turn that runs, from its start to its *)
(* end, and is gone before the lease is: no other job, death or delete takes it.  *)
ScratchIsTheTurns ==
  \A a \in Actor :
     /\ InBody(a) => scratch = a
     /\ scratch = a => at[a] = "held"

(* What the next poll of a SessionTail builds on is what a reader of the same      *)
(* lines would have: rewinds are consumed in parts, and a log deleted and made    *)
(* anew, however long, is not taken for the one it has read.                      *)
TailIsTheLog ==
  ~watch.gone /\ ~FileReplaced => watch.events = Folded(SubSeq(file.lines, 1, watch.lines))

(* The log implements the conversation.                                           *)
Talk == INSTANCE Conversation WITH said <- Said
KeepsTheConversation == Talk!ConversationSpec

(* A rewind unsends exactly the message it was asked to, and everything after it, *)
(* though its index was chosen before the lease and is one of the window.         *)
RewindUnsends ==
  [][\A a \in Actor :
       turn[a].pc = "mark" /\ Len(file'.lines) > Len(file.lines) =>
         \E i \in DOMAIN Said : /\ Said[i].k = "user" /\ Said[i].id = turn[a].target
                                /\ Folded(file'.lines) = SubSeq(Said, 1, i - 1)]_vars

(* And it brings back the tree that message was said to, whatever was compacted   *)
(* since, after a snapshot of the tree it replaces.                               *)
RewindRestores ==
  [][\A a \in Actor :
       turn[a].pc = "restore" /\ turn'[a].pc = "dropids" =>
         /\ tree' # tree => tree \in saved
         /\ \A i \in DOMAIN Said :
               i > 1 /\ Said[i].id = turn[a].target /\ Said[i - 1].k = "tree"
                 => tree' = Said[i - 1].n]_vars

(* A cancelled job ends, wherever the cancellation found it.                      *)
CancelledEnds == \A a \in Actor : turn[a].cancelled ~> turn[a].pc = "idle"
==================================================================================
