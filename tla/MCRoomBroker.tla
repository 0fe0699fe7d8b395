---------------------------- MODULE MCRoomBroker ----------------------------
(* TLC instances of RoomBroker: rooms are interchangeable, and so are      *)
(* handlers.                                                               *)
EXTENDS RoomBroker, TLC

RoomsAlike == Permutations(Codes) \cup Permutations(Tasks)

=============================================================================
