----------------------------- MODULE MCUpdater -----------------------------
(***************************************************************************)
(* Two updaters: the first may still run when the player has reopened the  *)
(* launcher and started a second update.                                   *)
(***************************************************************************)
EXTENDS Updater

CONSTANTS u1, u2

MCUpdaters == {u1, u2}
MCOneUpdater == {u1}
MCDigest == [kind : {"full", "missing", "extra"}, digest : {TRUE}]
\* Without a digest the incomplete release; RequiredStays holds for them all.
MCReleases == MCDigest \cup {[kind |-> "missing", digest |-> FALSE]}
MCFull == [kind : {"full"}, digest : BOOLEAN]
============================================================================
