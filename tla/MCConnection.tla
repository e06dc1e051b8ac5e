---------------------------- MODULE MCConnection ----------------------------
EXTENDS Connection

CONSTANTS v4, v6, r1, r2

Ann(v, r) == [op |-> "announce", version |-> v, route |-> r]
Wdr(v, r) == [op |-> "withdraw", version |-> v, route |-> r]

\* Updates of one family, of both, and of a route announced and withdrawn by the
\* same message.
MCMessages ==
  { <<Ann(v4, r1), Wdr(v4, r2), Wdr(v6, r1)>>,
    <<Ann(v4, r2), Ann(v6, r1), Wdr(v4, r1)>>,
    <<Ann(v4, r1), Wdr(v4, r1)>> }

MCSeed == [v \in {v4, v6} |-> IF v = v4 THEN {r2} ELSE {}]
NoSeed == [v \in {v4, v6} |-> {}]
=============================================================================
