--------------------------- MODULE MCSessionLobby ---------------------------
EXTENDS SessionLobby
CONSTANTS a, b, c
\* Everybody has a name of its own; and a comes back as c under its old name.
OwnNames == [x \in Clients |-> x]
SharedName == [x \in Clients |-> IF x = c THEN a ELSE x]
\* A room at its creation, and one with two players and a spectator.
NewRoom == <<>>
PairAndGuest == <<a, b, c>>
VpsRoom == {[local |-> FALSE, p2p |-> FALSE]}
VpsOrDirect == VpsRoom \cup {[local |-> TRUE, p2p |-> TRUE]}
=============================================================================
