----------------------------- MODULE MCTerminal -----------------------------
(***************************************************************************)
(* A small instance of TerminalLoop for TLC.                               *)
(***************************************************************************)
EXTENDS TerminalLoop, TLC

CONSTANTS m1, m2, g, c, o1, o2, a1, f1

Written == m1 :> "plain" @@ m2 :> "plain" @@ g :> "goal" @@ c :> "compact"
Leads == f1 :> o2

AllDays == {{m1, m2, o1}, {m1, f1, o2}, {m1, a1}, {g, m1}, {c, m1, o1}}
=============================================================================
