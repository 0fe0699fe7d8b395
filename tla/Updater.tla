------------------------------- MODULE Updater ------------------------------
(***************************************************************************)
(* The in-app update: the launcher checks, downloads, verifies, unpacks    *)
(* and validates a release and starts Updater.exe (github_release_client); *)
(* Updater.exe validates again, waits for the launcher, stops RelayHost    *)
(* and mirrors the package over the install directory (updater.cxx).       *)
(*                                                                         *)
(* Meanwhile the game may start and exit, the player may open the launcher *)
(* again and start a second update, and the machine may lose power. What   *)
(* Windows, tar.exe and robocopy.exe do is external: a file of a running   *)
(* image cannot be replaced or deleted, robocopy goes on with the other    *)
(* files after one failed and reports it in its exit code.                 *)
(*                                                                         *)
(* "other" stands for any name off the allowlist, the player's own files   *)
(* in the install directory included. One launcher window is open at a     *)
(* time; the one that supervises a game is part of "game".                 *)
(***************************************************************************)
EXTENDS Naturals, Sequences

CONSTANTS Releases,      \* what GitHub may have published
          Updaters,      \* runs of Updater.exe that may be alive together
          Disturbances,  \* subset of {"game", "reopen", "power"}
          MaxPowerLoss   \* bound on power losses

ASSUME UpdaterAssumption ==
    /\ Releases \subseteq [kind : {"full", "missing", "extra"}, digest : BOOLEAN]
    /\ Disturbances \subseteq {"game", "reopen", "power"}
    /\ MaxPowerLoss \in Nat

(* The order in which NTFS lists them, and robocopy takes them.            *)
Order == <<"BUILD_INFO.txt", "Launcher.exe", "RelayHost.exe", "Sidecar.dll",
           "Updater.exe", "other">>
Names == {Order[i] : i \in DOMAIN Order}
Required == Names \ {"other"}

(* "bad" comes from a download that is not what was published, "torn" from *)
(* a copy that lost power.                                                 *)
Contents == {"old", "new", "bad", "torn", "absent"}

VARIABLES release,   \* what GitHub publishes: zip, and whether with a digest
          zip,       \* the downloaded file in %TEMP%
          staging,   \* the extract directory in %TEMP%, never emptied
          install,   \* the install directory
          launcher,  \* "closed", "open", "exiting" or the step of its update
          updater,   \* step of each Updater.exe
          next,      \* the place in Order its robocopy is at
          failed,    \* its robocopy could not replace or delete a file
          game,      \* the game runs, and the launcher that started it
          relayHost, \* RelayHost.exe runs
          losses     \* power losses so far

vars == <<release, zip, staging, install, launcher, updater, next, failed,
          game, relayHost, losses>>

Package(kind) ==
    [f \in Names |-> CASE kind = "missing" /\ f = "RelayHost.exe" -> "absent"
                       [] f = "other" /\ kind # "extra" -> "absent"
                       [] OTHER -> "new"]

(* Updater.exe is the only file whose content may be the same in both      *)
(* releases: then it is "new" from the start.                              *)
Init ==
    /\ release \in Releases
    /\ zip = "none"
    /\ staging = [f \in Names |-> "absent"]
    /\ \E u, o \in {"old", "new"} :
           install = [f \in Names |-> CASE f = "Updater.exe" -> u
                                        [] f = "other" /\ o = "new" -> "absent"
                                        [] OTHER -> "old"]
    /\ launcher = "open"
    /\ updater = [u \in Updaters |-> "none"]
    /\ next = [u \in Updaters |-> 1]
    /\ failed = [u \in Updaters |-> FALSE]
    /\ game = FALSE
    /\ relayHost \in BOOLEAN
    /\ losses = 0

UpdaterVars == <<updater, next, failed>>
OutsideVars == <<release, game, relayHost, losses>>

----------------------------------------------------------------------------
(* The launcher, up to the start of Updater.exe.                           *)

Active(u) == updater[u] \notin {"none", "done"}

IsGameProcessRunning == game

(* BUILD_INFO.txt names the release; unreadable, the running image does.   *)
ReadInstalledVersion ==
    IF install["BUILD_INFO.txt"] \in {"old", "new"}
    THEN install["BUILD_INFO.txt"] ELSE install["Launcher.exe"]

CheckForUpdate == ReadInstalledVersion = "old"

(* applyUpdate: refused while the game runs or when nothing is newer; the  *)
(* download takes minutes, in which anything else may happen.              *)
HandleApplyUpdate ==
    /\ launcher = "open"
    /\ ~IsGameProcessRunning
    /\ CheckForUpdate
    /\ launcher' = "downloading"
    /\ UNCHANGED <<zip, staging, install, UpdaterVars, OutsideVars>>

(* A status other than 2xx, a broken connection, a full disk or an empty    *)
(* body leave no file; what arrives whole may still not be what was        *)
(* published.                                                              *)
HttpDownloadUrl == {"good", "corrupt", "none"}

(* Only from hosts of GitHub.                                              *)
TryHttpDownload == HttpDownloadUrl \cup {"none"}

(* From the browser's address, else from the API's.                        *)
DownloadReleaseZip ==
    /\ launcher = "downloading"
    /\ \E browser, api \in TryHttpDownload :
           LET file == IF browser # "none" THEN browser ELSE api
           IN  /\ zip' = file
               /\ launcher' = IF file = "none" THEN "open" ELSE "downloaded"
    /\ UNCHANGED <<staging, install, UpdaterVars, OutsideVars>>

\* Mutant: the digest is not compared.
VerifyAnything ==
    /\ launcher = "downloaded"
    /\ launcher' = "verified"
    /\ UNCHANGED <<zip, staging, install, UpdaterVars, OutsideVars>>

(* Only the published zip has the published SHA-256.                       *)
ComputeFileSha256Hex == IF zip = "good" THEN "published" ELSE "other"

(* A release without a published digest cannot be verified; where there is *)
(* one, a file that cannot be read is refused like one that differs.       *)
VerifyDownload ==
    /\ launcher = "downloaded"
    /\ \/ /\ release.digest
          /\ launcher' = "open" /\ zip' = "none"
       \/ /\ release.digest => ComputeFileSha256Hex = "published"
          /\ launcher' = "verified" /\ UNCHANGED zip
    /\ UNCHANGED <<staging, install, UpdaterVars, OutsideVars>>

(* What tar writes: of a corrupt zip, other contents under the same names. *)
Unpacked ==
    LET p == Package(release.kind)
    IN IF zip = "good" THEN p
       ELSE [f \in Names |-> IF p[f] = "new" THEN "bad" ELSE p[f]]

(* New files overwrite those of an earlier attempt, the rest stays. The    *)
(* zip stays too, but the next download replaces it before it is read.     *)
ExpandZipArchive ==
    /\ launcher = "verified"
    /\ staging' = [f \in Names |->
                      IF Unpacked[f] = "absent" THEN staging[f] ELSE Unpacked[f]]
    /\ \/ launcher' = "extracted"
       \/ zip = "corrupt" /\ launcher' = "open"
    /\ zip' = "none"
    /\ UNCHANGED <<install, UpdaterVars, OutsideVars>>

\* Mutant: only the allowlist is checked.
ValidatePackageTreeOnly == staging["other"] = "absent"

(* Every required file is there and every file is on the allowlist; the    *)
(* launcher and Updater.exe have the same code for it.                     *)
ValidateStagedPackage ==
    /\ \A f \in Required : staging[f] # "absent"
    /\ staging["other"] = "absent"

(* The updater runs from the install directory; the window then closes.    *)
SpawnUpdater ==
    /\ launcher = "extracted"
    /\ ValidateStagedPackage
    /\ install["Updater.exe"] \notin {"absent", "torn"}
    /\ \E u \in Updaters :
           /\ ~Active(u)
           /\ updater' = [updater EXCEPT ![u] = "validate"]
    /\ launcher' = "exiting"
    /\ UNCHANGED <<zip, staging, install, next, failed, OutsideVars>>

RejectPackage ==
    /\ launcher = "extracted"
    /\ ~ValidateStagedPackage \/ install["Updater.exe"] \in {"absent", "torn"}
    /\ launcher' = "open"
    /\ UNCHANGED <<zip, staging, install, UpdaterVars, OutsideVars>>

LauncherExits ==
    /\ launcher = "exiting"
    /\ launcher' = "closed"
    /\ UNCHANGED <<zip, staging, install, UpdaterVars, OutsideVars>>

----------------------------------------------------------------------------
(* Updater.exe.                                                            *)

UpdaterStep(u, from, to) ==
    /\ updater[u] = from
    /\ updater' = [updater EXCEPT ![u] = to]

ValidateAgain(u) ==
    /\ UpdaterStep(u, "validate",
                   IF ValidateStagedPackage THEN "wait" ELSE "none")
    /\ UNCHANGED <<zip, staging, install, launcher, next, failed, OutsideVars>>

\* Mutant: the wait has no limit.
WaitForever(u) ==
    /\ UpdaterStep(u, "wait", "stop")
    /\ launcher # "exiting"
    /\ UNCHANGED <<zip, staging, install, launcher, next, failed, OutsideVars>>

(* The launcher's exit and the end of the 30 seconds are the same to it.   *)
WaitForProcessExit(u) ==
    /\ UpdaterStep(u, "wait", "stop")
    /\ UNCHANGED <<zip, staging, install, launcher, next, failed, OutsideVars>>

(* Only RelayHost.exe is stopped, not the game and not a launcher.         *)
StopProcessesByName(u) ==
    /\ UpdaterStep(u, "stop", "mirror")
    /\ relayHost' = FALSE
    /\ UNCHANGED <<zip, staging, install, launcher, next, failed, release,
                   game, losses>>

Locked(f) ==
    \/ f = "Launcher.exe" /\ (launcher # "closed" \/ game)
    \/ f = "Sidecar.dll" /\ game
    \/ f = "RelayHost.exe" /\ relayHost
    \/ f = "Updater.exe" /\ \E u \in Updaters : Active(u)

(* robocopy /MIR on one name: what differs is replaced, what the package   *)
(* does not have is deleted, after two retries it gives up on a file.      *)
MirrorFile(u) ==
    /\ updater[u] = "mirror" /\ next[u] <= Len(Order)
    /\ next' = [next EXCEPT ![u] = @ + 1]
    /\ LET f == Order[next[u]]
       IN \/ /\ install[f] = staging[f]
             /\ UNCHANGED <<install, failed>>
          \/ /\ install[f] # staging[f] /\ Locked(f)
             /\ failed' = [failed EXCEPT ![u] = TRUE]
             /\ UNCHANGED install
          \/ /\ install[f] # staging[f] /\ ~Locked(f)
             /\ install' = [install EXCEPT ![f] = staging[f]]
             /\ UNCHANGED failed
    /\ UNCHANGED <<zip, staging, launcher, updater, OutsideVars>>

\* Mutant: robocopy's exit code is not looked at.
MirrorEndsAnyhow(u) ==
    /\ next[u] > Len(Order)
    /\ UpdaterStep(u, "mirror", "start")
    /\ failed' = [failed EXCEPT ![u] = FALSE]
    /\ next' = [next EXCEPT ![u] = 1]
    /\ UNCHANGED <<zip, staging, install, launcher, OutsideVars>>

(* An exit code over 7 ends the updater; the launcher stays closed.        *)
MirrorEnds(u) ==
    /\ next[u] > Len(Order)
    /\ UpdaterStep(u, "mirror", IF failed[u] THEN "none" ELSE "start")
    /\ failed' = [failed EXCEPT ![u] = FALSE]
    /\ next' = [next EXCEPT ![u] = 1]
    /\ UNCHANGED <<zip, staging, install, launcher, OutsideVars>>

StartLauncher(u) ==
    /\ UpdaterStep(u, "start", IF install["Launcher.exe"] = "absent"
                               THEN "none" ELSE "done")
    /\ launcher' = IF launcher = "closed" /\ install["Launcher.exe"] # "absent"
                   THEN "open" ELSE launcher
    /\ UNCHANGED <<zip, staging, install, next, failed, OutsideVars>>

UpdaterRuns(u) ==
    \/ ValidateAgain(u) \/ WaitForProcessExit(u) \/ StopProcessesByName(u)
    \/ MirrorFile(u) \/ MirrorEnds(u) \/ StartLauncher(u)

----------------------------------------------------------------------------
(* The player and the machine.                                             *)

Runs(f) == install[f] \in {"old", "new", "bad"}

(* The window ends and its process goes on with the game, or another       *)
(* launcher process does all of it; a host's game has a RelayHost.         *)
CreateSF4Process ==
    /\ "game" \in Disturbances
    /\ ~game /\ Runs("Launcher.exe") /\ Runs("Sidecar.dll")
    /\ game' = TRUE
    /\ relayHost' \in {relayHost, Runs("RelayHost.exe")}
    /\ launcher' \in {launcher} \cup
                     (IF launcher = "open" THEN {"closed"} ELSE {})
    /\ UNCHANGED <<release, zip, staging, install, UpdaterVars, losses>>

GameExits ==
    /\ game
    /\ game' = FALSE
    /\ relayHost' = FALSE
    /\ UNCHANGED <<release, zip, staging, install, launcher, UpdaterVars,
                   losses>>

OpenLauncher ==
    /\ "reopen" \in Disturbances
    /\ launcher = "closed" /\ Runs("Launcher.exe")
    /\ launcher' = "open"
    /\ UNCHANGED <<release, zip, staging, install, UpdaterVars, game,
                   relayHost, losses>>

BeingCopied(u) ==
    /\ updater[u] = "mirror" /\ next[u] <= Len(Order)
    /\ LET f == Order[next[u]]
       IN staging[f] # "absent" /\ install[f] # staging[f] /\ ~Locked(f)

(* A file being copied may be left half-written.                           *)
PowerLoss ==
    /\ "power" \in Disturbances
    /\ losses < MaxPowerLoss
    /\ losses' = losses + 1
    /\ \/ UNCHANGED install
       \/ \E u \in Updaters : BeingCopied(u) /\ LET f == Order[next[u]]
             IN install' = [install EXCEPT ![f] = "torn"]
    /\ zip' = "none"
    /\ launcher' = "closed"
    /\ updater' = [u \in Updaters |-> "none"]
    /\ next' = [u \in Updaters |-> 1]
    /\ failed' = [u \in Updaters |-> FALSE]
    /\ game' = FALSE
    /\ relayHost' = FALSE
    /\ UNCHANGED <<release, staging>>

Next ==
    \/ HandleApplyUpdate \/ DownloadReleaseZip \/ VerifyDownload
    \/ ExpandZipArchive \/ SpawnUpdater \/ RejectPackage \/ LauncherExits
    \/ \E u \in Updaters : UpdaterRuns(u)
    \/ CreateSF4Process \/ GameExits \/ OpenLauncher \/ PowerLoss

Spec == Init /\ [][Next]_vars

(* Updater.exe and the robocopy it waits for go on running; nothing makes  *)
(* a player close a window or the game.                                    *)
FairSpec == Spec /\ \A u \in Updaters : WF_vars(UpdaterRuns(u))

(* ... and a launcher that said it would close does.                       *)
PromptSpec == FairSpec /\ WF_vars(LauncherExits)

----------------------------------------------------------------------------
(* Types of the state, and: the steps after the download have a file.      *)
TypeOK ==
    /\ release \in Releases
    /\ zip \in {"none", "good", "corrupt"}
    /\ launcher \in {"downloaded", "verified"} => zip # "none"
    /\ staging \in [Names -> Contents \ {"old", "torn"}]
    /\ install \in [Names -> Contents]
    /\ launcher \in {"closed", "open", "downloading", "downloaded",
                     "verified", "extracted", "exiting"}
    /\ updater \in [Updaters -> {"none", "validate", "wait", "stop", "mirror",
                                 "start", "done"}]
    /\ next \in [Updaters -> 1 .. Len(Order) + 1]
    /\ failed \in [Updaters -> BOOLEAN]
    /\ game \in BOOLEAN /\ relayHost \in BOOLEAN
    /\ losses \in 0 .. MaxPowerLoss

(* Where the release has a digest, nothing of a download that differs from *)
(* it is ever installed, whatever earlier attempts left in %TEMP% and      *)
(* however two updates overlap.                                            *)
NoBadFiles == release.digest => \A f \in Names : install[f] # "bad"

(* No update, complete or not, leaves the install directory without a file *)
(* the launcher needs, although /MIR deletes what the package lacks.       *)
RequiredPresent == \A f \in Required : install[f] # "absent"

(* An updater that reports success has left the whole release installed,   *)
(* also when a game, a launcher or another updater locked files.           *)
DoneMeansComplete ==
    [][\A u \in Updaters :
          updater'[u] = "done" /\ updater[u] # "done" /\ release.digest
             => \A f \in Required : install'[f] = "new"]_vars

(* An updater that was started ends, even if the launcher never exits.     *)
UpdateEnds == \A u \in Updaters : updater[u] = "validate" ~> ~Active(u)

(* RELEASE_NOTES_v0.4.3: the update "replaces the install folder and       *)
(* restarts the launcher", here once a complete, good package is unpacked. *)
LauncherRestarts ==
    \A u \in Updaters :
        updater[u] = "validate" /\ staging = Package("full") ~> updater[u] = "done"
============================================================================
