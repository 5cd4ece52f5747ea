-------------------------- MODULE BackgroundPromise --------------------------
(***************************************************************************)
(* What a call that is told "started" may rely on: exactly one report, and *)
(* sooner or later it comes.  A call that is refused gets no report.       *)
(***************************************************************************)
CONSTANT Call

VARIABLE status

Init == status = [r \in Call |-> "unasked"]

Start(r) == status[r] = "unasked" /\ status' = [status EXCEPT ![r] = "started"]
Report(r) == status[r] = "started" /\ status' = [status EXCEPT ![r] = "reported"]

Next == \E r \in Call : Start(r) \/ Report(r)

Safe == Init /\ [][Next]_status
Spec == Safe /\ \A r \in Call : WF_status(Report(r))
=============================================================================
