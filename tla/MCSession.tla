----------------------------- MODULE MCSession -----------------------------
EXTENDS Session

CONSTANTS v4, v6, r1, r2

Ann(v, r) == [op |-> "announce", version |-> v, route |-> r]
Wdr(v, r) == [op |-> "withdraw", version |-> v, route |-> r]

\* Updates of both families, and a route announced and withdrawn by one message.
MCMessages ==
  { <<Ann(v4, r1), Wdr(v4, r2), Wdr(v6, r1)>>,
    <<Ann(v4, r2), Ann(v6, r1), Wdr(v4, r1), Wdr(v4, r2)>> }

MCSeed == [v \in {v4, v6} |-> IF v = v4 THEN {r2} ELSE {}]
=============================================================================
