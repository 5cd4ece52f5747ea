------------------------------ MODULE SessionEvents ------------------------------
(* What one session's log says, as pure functions of its events: how rewind      *)
(* markers fold, which logs may be replayed, what is left unanswered, and which   *)
(* part of a compacted log is the active window (crates/ilar/src/session/store.rs,*)
(* compaction.rs, image.rs).  An event is a record; its words are abstracted away.*)
(*   k      what it is: "meta", "user", "invoked" (a SubagentInvocation), "tree"  *)
(*          (a Checkpoint), "asst", "result", "compaction", "cutoff" (an          *)
(*          ImageCutoff), "rewind" (a marker) or "finished" (TurnFinished)        *)
(*   id     its event id                                                          *)
(*   calls  the tool calls an assistant message makes, each [call, tool]          *)
(*   call   the call a result answers                                             *)
(*   n      kept_from of a compaction, before of a cutoff, to of a marker         *)
(*   pics   whether it carries a picture                                          *)
(* Indexes into a log are the code's: from 0, so index i is element i + 1.        *)
EXTENDS Naturals, Sequences, SequencesExt, Selection

Event(k) == [k |-> k, id |-> 0, calls |-> <<>>, call |-> 0, n |-> 0, pics |-> FALSE]

(* The question tool's name: the one call a restore may leave open.               *)
Question == "question"

(* What the lines of a log are made of.                                           *)
Tools == {"bash", Question}
Call == [call : Nat, tool : Tools]
Kinds == {"meta", "user", "invoked", "tree", "asst", "result", "compaction", "cutoff", "rewind", "finished"}
Entry == [k : Kinds, id : Nat, calls : Seq(Call), call : Nat, n : Nat, pics : BOOLEAN]

CallsOf(e) == {e.calls[i].call : i \in DOMAIN e.calls}

(* Every call id the events make: the records the id index keeps of them.         *)
CallIds(events) == UNION {CallsOf(events[i]) : i \in DOMAIN events}

--------------------------------------------------------------------------------
(* fold_rewinds: a marker truncates the stream to its index and vanishes.         *)
FoldedOnto(events, lines) ==
  LET fold[i \in 0..Len(lines)] ==
        IF i = 0 THEN events
        ELSE IF lines[i].k = "rewind" THEN SubSeq(fold[i - 1], 1, lines[i].n)
        ELSE Append(fold[i - 1], lines[i])
  IN fold[Len(lines)]

Folded(lines) == FoldedOnto(<<>>, lines)

(* apply_rewind's check: no marker cuts past the stream before it.                *)
FoldsCleanly(lines) ==
  \A i \in DOMAIN lines :
     lines[i].k = "rewind" => lines[i].n <= Len(Folded(SubSeq(lines, 1, i - 1)))

(* allowed_while_unanswered: the kinds the validator lets past an open call.      *)
AllowedWhileUnanswered(e) == e.k \in {"result", "meta", "invoked"}

IsResultOf(e, call) == e.k = "result" /\ e.call = call

(* The calls no result answers. A log that replays has them in one message, and   *)
(* Unanswered has them in its order.                                              *)
OpenCalls(events) ==
  {c \in UNION {Range(events[i].calls) : i \in DOMAIN events} :
     \A j \in DOMAIN events : ~IsResultOf(events[j], c.call)}

Unanswered(events) ==
  LET open == OpenCalls(events)
      holder == CHOOSE i \in DOMAIN events : Range(events[i].calls) \cap open # {}
  IN IF open = {} THEN <<>> ELSE Within(events[holder].calls, open)

(* validate_replay accepts the events: metadata first and once, every event id   *)
(* and call id new, every result for a call still open, and nothing ordinary      *)
(* between a call and its result.                                                 *)
Valid(events) ==
  /\ events # <<>> /\ events[1].k = "meta"
  /\ \A i, j \in DOMAIN events :
        i < j => /\ events[j].k # "meta" /\ events[i].id # events[j].id
                 /\ CallsOf(events[i]) \cap CallsOf(events[j]) = {}
                 /\ \A c \in CallsOf(events[i]) :
                       AllowedWhileUnanswered(events[j])
                         \/ \E r \in (i + 1)..(j - 1) : IsResultOf(events[r], c)
  /\ \A j \in DOMAIN events :
        /\ events[j].k = "result" =>
              \E i \in 1..(j - 1) :
                 /\ events[j].call \in CallsOf(events[i])
                 /\ ~\E r \in (i + 1)..(j - 1) : IsResultOf(events[r], events[j].call)
        /\ Cardinality(CallsOf(events[j])) = Len(events[j].calls)

(* has_unanswered_calls: walk back over results and exempt kinds to the message   *)
(* that made the calls.                                                           *)
HasUnanswered(events) ==
  LET stops == {i \in DOMAIN events : ~AllowedWhileUnanswered(events[i])}
      stop == CHOOSE i \in stops : \A j \in stops : j <= i
      after == {events[i].call : i \in (stop + 1)..Len(events)}
  IN stops # {} /\ ~(CallsOf(events[stop]) \subseteq after)

(* pending_question: the sole open call, when it is a question.                   *)
IsPending(events) ==
  Cardinality(OpenCalls(events)) = 1 /\ \A c \in OpenCalls(events) : c.tool = Question

--------------------------------------------------------------------------------
(* compaction_cut and image_cut: where the newest boundary of each kind lies.     *)
LeastOf(a, b) == IF a < b THEN a ELSE b
GreatestOf(S) == CHOOSE m \in S \cup {0} : \A n \in S : n <= m

CompactionCut(events) ==
  GreatestOf({LeastOf(events[i].n, i - 1) : i \in {j \in DOMAIN events : events[j].k = "compaction"}})

ImageCut(events) ==
  GreatestOf({events[i].n : i \in {j \in DOMAIN events : events[j].k = "cutoff"}})

(* How an index moves when everything before `base` but the metadata goes.        *)
Rebased(n, base) == (IF n > base THEN n - base ELSE 0) + 1

(* active_replay_window: the metadata, then everything from the compaction's cut, *)
(* with the indexes of compactions and cutoffs moved along.                       *)
Window(events) ==
  LET base == CompactionCut(events)
      Moved(e) == IF e.k \in {"compaction", "cutoff"} THEN [e EXCEPT !.n = Rebased(e.n, base)] ELSE e
  IN IF base = 0 THEN [events |-> events, base |-> 0]
     ELSE [events |-> [i \in 1..(Len(events) - base + 1) |->
                         Moved(events[IF i = 1 THEN 1 ELSE base + i - 1])],
           base |-> base]

(* canonical_index: what a local index is in the whole log.                       *)
Canonical(base, local) == IF base = 0 \/ local = 0 THEN local ELSE base + local - 1

(* render_transcript is empty: nothing a request would carry.                     *)
Wordless(events) ==
  \A i \in DOMAIN events : events[i].k \notin {"user", "asst", "result", "compaction"}

(* cutoff_before with a budget of MaxPics pictures, of which the newest Keep stay:*)
(* the index of the oldest kept one, or 0 for "the budget holds".                 *)
CutoffBefore(events, MaxPics, Keep) ==
  LET cut == GreatestOf({ImageCut(events), CompactionCut(events)})
      shown == {i \in DOMAIN events : events[i].pics}
      carried == {i \in shown : i > cut}
      kept == {i \in shown : Cardinality({j \in shown : j >= i}) <= Keep}
      oldest == CHOOSE i \in kept : \A j \in kept : i <= j
      before == oldest - 1
  IN IF Cardinality(carried) > MaxPics /\ before > cut THEN before ELSE 0
==================================================================================
