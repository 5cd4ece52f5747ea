----------------------------- MODULE MCDelivery -----------------------------
(***************************************************************************)
(* Instances of Delivery for TLC: a root with one child and a report for   *)
(* each of them, a chain of three sessions with one report at its end, and *)
(* a root alone whose log fails to be read twice, by the scan that adopts a *)
(* report it holds and by the follow-up that asks again.                   *)
(***************************************************************************)
EXTENDS Delivery, TLC

CONSTANTS root, mid, low, o1, o2

Pair == [parent |-> root :> NoSession @@ mid :> root,
         target |-> o1 :> mid @@ o2 :> root, hops |-> 2, turns |-> 2, stops |-> 2,
         faults |-> 1]
Chain == [parent |-> root :> NoSession @@ mid :> root @@ low :> mid,
          target |-> o1 :> low, hops |-> 1, turns |-> 1, stops |-> 1,
          faults |-> 1]
Alone == [parent |-> root :> NoSession, target |-> o1 :> root, hops |-> 1, turns |-> 0,
          stops |-> 2, faults |-> 2]

AllTrees == {Pair, Chain, Alone}
BriefPair == {[Pair EXCEPT !.turns = 1, !.stops = 1, !.faults = 0]}
IdlePair == {[Pair EXCEPT !.turns = 0, !.stops = 0]}
=============================================================================
