-------------------------- MODULE MCBackgroundRuns --------------------------
(***************************************************************************)
(* Instances of BackgroundRuns for TLC: a few calls each, chosen so that   *)
(* they meet at one resource.                                              *)
(***************************************************************************)
EXTENDS BackgroundRuns, TLC

CONSTANTS t1, t2, t3, t4, j1, d1, e1, home, tree, s1, s2, s3, s4, s5

CallOf(host, session, checkout, writes, resumes, asked) ==
    [host |-> host, session |-> session, checkout |-> checkout,
     writes |-> writes, resumes |-> resumes, asked |-> asked]

Absent == [r \in Run |-> CallOf(Free, s5, home, FALSE, TRUE, "unsaid")]

\* A resume of a session by the model, another by the person, and the delivery of
\* a result to it.
SharedSession ==
    t1 :> CallOf(Root, s1, home, FALSE, TRUE, "unsaid")
    @@ t2 :> CallOf(Person, s1, home, FALSE, TRUE, "foreground")
    @@ d1 :> CallOf(Driver, s1, home, FALSE, TRUE, "unsaid")
    @@ Absent

\* A detached and a blocking task and a job in one checkout.
OneCheckout ==
    t1 :> CallOf(Root, s1, home, TRUE, FALSE, "unsaid")
    @@ t2 :> CallOf(Root, s2, home, TRUE, FALSE, "foreground")
    @@ j1 :> CallOf(Root, s5, home, TRUE, TRUE, "background")
    @@ Absent

\* The root's edit beside a task of its own and one the person talks to.
Edits ==
    t1 :> CallOf(Root, s1, home, TRUE, FALSE, "foreground")
    @@ t2 :> CallOf(Person, s2, home, TRUE, TRUE, "foreground")
    @@ e1 :> CallOf(Root, s5, home, TRUE, TRUE, "foreground")
    @@ Absent

\* Two tasks of one step in two checkouts, each with a child that wants the
\* other's.
Crossing ==
    t1 :> CallOf(Root, s1, home, TRUE, FALSE, "foreground")
    @@ t2 :> CallOf(Root, s2, tree, TRUE, FALSE, "foreground")
    @@ t3 :> CallOf(t1, s3, tree, TRUE, FALSE, "foreground")
    @@ t4 :> CallOf(t2, s4, home, TRUE, FALSE, "foreground")
    @@ Absent

\* A delivery, a task it starts, what that task starts, and a child that may not
\* go back to the checkout the delivery has.
Family ==
    d1 :> CallOf(Driver, s1, home, TRUE, TRUE, "unsaid")
    @@ t1 :> CallOf(d1, s2, tree, TRUE, FALSE, "unsaid")
    @@ t2 :> CallOf(t1, s3, tree, FALSE, FALSE, "unsaid")
    @@ t3 :> CallOf(t1, s4, home, TRUE, FALSE, "foreground")
    @@ Absent

\* More calls than slots or reservations.
Crowd ==
    t1 :> CallOf(Root, s1, home, FALSE, FALSE, "unsaid")
    @@ t2 :> CallOf(Root, s2, home, FALSE, FALSE, "unsaid")
    @@ t3 :> CallOf(t1, s4, home, FALSE, FALSE, "background")
    @@ Absent

AllPlans == {SharedSession, OneCheckout, Edits, Family, Crowd}
WaitingPlans == {SharedSession, Edits, Crossing}
OnePlan == {OneCheckout}
=============================================================================
