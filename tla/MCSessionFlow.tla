----------------------------- MODULE MCSessionFlow -----------------------------
(* Instances of SessionFlow for TLC: turns of one to three messages, of which *)
(* message 3 alone is larger than the budget.                                 *)
EXTENDS SessionFlow

CONSTANTS t1, t2, t3

Weights == [m \in Msg |-> IF m = 3 THEN 3 ELSE 1]

\* A question and its answer, then another pair of which the first fills a chunk
\* of its own.
TwoTurns == [t \in Turn |-> IF t = t1 THEN <<1, 2>> ELSE <<3, 4>>]

\* A long turn beside a short one.
LongTurn == [t \in Turn |-> IF t = t1 THEN <<1, 3, 2>> ELSE <<4>>]

\* A pair of messages and two turns of one message each.
ThreeTurns == [t \in Turn |-> IF t = t1 THEN <<1, 3>> ELSE IF t = t2 THEN <<2>> ELSE <<4>>]

\* Turns of one message each.
ShortTurns == [t \in Turn |-> IF t = t1 THEN <<1>> ELSE <<2>>]
===============================================================================
