------------------------------ MODULE MCDesync ------------------------------
(***************************************************************************)
(* Two players a and b, with or without a spectator.                       *)
(***************************************************************************)
EXTENDS Desync, TLC

CONSTANTS a, b, s

MCPlayers == {a, b}
MCWatchers == {s}
Symmetry == Permutations(MCPlayers)
=============================================================================
