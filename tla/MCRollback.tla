----------------------------- MODULE MCRollback -----------------------------
(***************************************************************************)
(* Two cues of which one may interrupt, one task that comes and goes, two  *)
(* frames of prediction.  A sound is stopped with all others, or because   *)
(* another one needs its player.                                           *)
(***************************************************************************)
EXTENDS Rollback

MCCues == {"hit", "voice"}
MCInterruptible == {"hit"}
MCInputs == {<<"play", "hit">>, <<"play", "voice">>, <<"hush">>, <<"task", "CAM SHAKE">>}
=============================================================================
