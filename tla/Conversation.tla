------------------------------ MODULE Conversation ------------------------------
(* What a session promises whoever talks to it, without files, locks, indexes,    *)
(* crashes or compactions: the events said so far.  It only grows, one event at a *)
(* time; nothing ordinary is said over a call without an answer; a rewind unsays a *)
(* user message and all that came after it; and it may be deleted as a whole.     *)
(*   said   the events said and not unsaid, oldest first                          *)
EXTENDS SessionEvents

VARIABLE said

Says == Len(said') = Len(said) + 1 /\ said' = Append(said, Last(said'))

ConversationInit == said = <<>> \/ (Len(said) = 1 /\ said[1].k = "meta")

Begins == Says /\ said = <<>> /\ said'[1].k = "meta"

Speaks ==
  /\ Says /\ said # <<>> /\ Unanswered(said) = <<>>
  /\ Last(said').k \notin {"meta", "result"}

Answers ==
  /\ Says /\ Last(said').k = "result"
  /\ \E i \in DOMAIN Unanswered(said) : Unanswered(said)[i].call = Last(said').call

Unsays ==
  /\ Len(said') < Len(said) /\ Unanswered(said) = <<>>
  /\ \E i \in DOMAIN said : said[i].k = "user" /\ said' = SubSeq(said, 1, i - 1)

Goes == said' = <<>>

ConversationNext == Begins \/ Speaks \/ Answers \/ Unsays \/ Goes

ConversationSpec == ConversationInit /\ [][ConversationNext]_said
==================================================================================
