----------------------------- MODULE MCRelayMatch -----------------------------
EXTENDS RelayMatch
CONSTANTS k1, k2
Addr(i, n) == [ip |-> i, port |-> n]
\* Both players behind one public address; player 0's NAT picks a new port.
PlayerAddrs == [p \in Slot |-> IF p = 0 THEN {Addr(1, 1), Addr(1, 2)} ELSE {Addr(1, 3)}]
Old == {Addr(2, 1), Addr(2, 3), Addr(3, 2)}
AllAddrs == PlayerAddrs[0] \cup PlayerAddrs[1] \cup Old
NewKeys == <<k1, k2>>
\* Both players left the room and came back: message numbers restart.
SameKeys == <<k1, k1>>
=============================================================================
