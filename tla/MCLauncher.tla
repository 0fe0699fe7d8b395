----------------------------- MODULE MCLauncher ----------------------------
(***************************************************************************)
(* Two rooms this launcher may make and one that another player has made.  *)
(***************************************************************************)
EXTENDS Launcher

CONSTANTS r1, r2, r3

MCRooms == {r1, r2, r3}
MCForeign == {r3}
============================================================================
