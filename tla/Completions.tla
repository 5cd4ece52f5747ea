---------------------------- MODULE Completions ----------------------------
(***************************************************************************)
(* What the delivery of background completions promises: the report of a   *)
(* finished task, once it is on disk, is owed until some session of its    *)
(* tree has been told of it, and is never owed or told again after that.   *)
(* Delivery implements this specification.                                 *)
(***************************************************************************)
CONSTANT Origin         \* the background tasks that report

VARIABLE state          \* what became of each report

Unborn == {o \in Origin : state[o] = "unborn"}
Heard == {o \in Origin : state[o] = "heard"}

Become(S, what) == state' = [o \in Origin |-> IF o \in S THEN what ELSE state[o]]

Init == state = [o \in Origin |-> "unborn"]

\* The report is written down.
Publish(o) == o \in Unborn /\ Become({o}, "owed")

\* One prompt tells a session of several reports.
Hear(S) == S # {} /\ S \cap Heard = {} /\ Become(S, "heard")

Next == (\E o \in Origin : Publish(o)) \/ (\E S \in SUBSET Origin : Hear(S))

Spec == Init /\ [][Next]_state
=============================================================================
