--------------------------- MODULE MCChildSteers ---------------------------
(***************************************************************************)
(* Instances of ChildSteers for TLC: two messages, two runs of the session *)
(* and one caller of the message verb.                                     *)
(***************************************************************************)
EXTENDS ChildSteers, TLC

=============================================================================
