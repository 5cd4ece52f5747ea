------------------------------- MODULE Selection -------------------------------
(* What the filters of the code do to a sequence of lines, calls or messages.     *)
EXTENDS Naturals, Sequences

(* The elements of q that are in S, in their order.                               *)
Within(q, S) ==
  LET kept[i \in 0..Len(q)] ==
        IF i = 0 THEN <<>>
        ELSE IF q[i] \in S THEN Append(kept[i - 1], q[i]) ELSE kept[i - 1]
  IN kept[Len(q)]
================================================================================
