---------------------------- MODULE UpdaterProofs ----------------------------
(***************************************************************************)
(* What the in-app update guarantees for any releases, any number of       *)
(* updaters alive together and any number of power losses.                 *)
(***************************************************************************)
EXTENDS Updater, TLAPS

Stages == {"none", "validate", "wait", "stop", "mirror", "start", "done"}
Launchers == {"closed", "open", "downloading", "downloaded", "verified",
              "extracted", "exiting"}

(* robocopy's list is the six names, each once.                             *)
LEMMA OrderFacts ==
    /\ Len(Order) = 6
    /\ \A i \in 1 .. 6 : Order[i] \in Names
    /\ \A f \in Names : \E i \in 1 .. 6 : Order[i] = f
    /\ Required \subseteq Names
    /\ {"BUILD_INFO.txt", "Launcher.exe", "RelayHost.exe", "Sidecar.dll",
        "Updater.exe", "other"} \subseteq Names
<1>1. Len(Order) = 6 /\ DOMAIN Order = 1 .. 6
  BY DEF Order
<1>2. \A i \in 1 .. 6 : Order[i] \in Names
  BY <1>1 DEF Names
<1>3. \A f \in Names : \E i \in 1 .. 6 : Order[i] = f
  BY <1>1 DEF Names
<1>4. /\ Order[1] = "BUILD_INFO.txt" /\ Order[2] = "Launcher.exe"
      /\ Order[3] = "RelayHost.exe" /\ Order[4] = "Sidecar.dll"
      /\ Order[5] = "Updater.exe" /\ Order[6] = "other"
  BY DEF Order
<1>5. {"BUILD_INFO.txt", "Launcher.exe", "RelayHost.exe", "Sidecar.dll",
       "Updater.exe", "other"} \subseteq Names
  BY <1>2, <1>4
<1> QED BY <1>1, <1>2, <1>3, <1>5 DEF Required

(* A package holds new files only.                                          *)
LEMMA PackageType ==
    ASSUME NEW kind PROVE Package(kind) \in [Names -> {"new", "absent"}]
BY DEF Package

(* Unpacking leaves new files, and those of a corrupt zip are bad.          *)
LEMMA UnpackedType ==
    /\ Unpacked \in [Names -> {"new", "bad", "absent"}]
    /\ zip = "good" => \A f \in Names : Unpacked[f] # "bad"
BY PackageType DEF Unpacked

----------------------------------------------------------------------------
(* The inductive invariant: what an updater past its validation reads is a *)
(* whole package, a digest keeps everything bad out, and a mirror without  *)
(* a failure has left new files behind it.                                 *)

Staged ==
    \A u \in Updaters :
        updater[u] \in {"wait", "stop", "mirror", "start", "done"}
            => \A f \in Required : staging[f] # "absent"

Clean ==
    release.digest =>
        /\ launcher = "verified" => zip = "good"
        /\ \A f \in Names : staging[f] # "bad" /\ install[f] # "bad"

Fresh ==
    \A u \in Updaters : updater[u] # "mirror" => next[u] = 1 /\ failed[u] = FALSE

Progress ==
    release.digest =>
        \A u \in Updaters :
            /\ updater[u] = "mirror" /\ failed[u] = FALSE =>
                  \A i \in 1 .. 6 : i < next[u] /\ Order[i] \in Required
                                        => install[Order[i]] = "new"
            /\ updater[u] = "start" => \A f \in Required : install[f] = "new"

Inv == TypeOK /\ Staged /\ RequiredPresent /\ Clean /\ Fresh /\ Progress

(* The installation starts whole.                                           *)
LEMMA InitInv == Init => Inv
<1> SUFFICES ASSUME Init PROVE Inv
  OBVIOUS
<1> USE UpdaterAssumption, OrderFacts
<1>1. PICK u0, o \in {"old", "new"} :
         install = [f \in Names |-> CASE f = "Updater.exe" -> u0
                                      [] f = "other" /\ o = "new" -> "absent"
                                      [] OTHER -> "old"]
  BY DEF Init
<1>2. install \in [Names -> {"old", "new", "absent"}]
  BY <1>1
<1>3. \A f \in Required : install[f] # "absent"
  BY <1>1 DEF Required
<1>4. install \in [Names -> Contents] /\ staging \in [Names -> Contents \ {"old", "torn"}]
  BY <1>2 DEF Init, Contents
<1>5. next \in [Updaters -> 1 .. Len(Order) + 1]
  BY DEF Init
<1>6. losses \in 0 .. MaxPowerLoss
  BY DEF Init
<1>7. TypeOK
  BY <1>4, <1>5, <1>6 DEF Init, TypeOK
<1> QED BY <1>2, <1>3, <1>7 DEF Init, Inv, Staged, RequiredPresent, Clean, Fresh, Progress

----------------------------------------------------------------------------
(* Type correctness of every step.                                          *)
LEMMA TypeStep == TypeOK /\ [Next]_vars => TypeOK'
<1> SUFFICES ASSUME TypeOK, [Next]_vars PROVE TypeOK'
  OBVIOUS
<1> USE OrderFacts DEF TypeOK, UpdaterVars, OutsideVars
<1> DEFINE Known == {"new", "bad", "absent"}
<1>0. staging \in [Names -> Known] /\ Contents \ {"old", "torn"} = Known
  BY DEF Contents
<1>1. CASE HandleApplyUpdate
  BY <1>1 DEF HandleApplyUpdate
<1>2. CASE DownloadReleaseZip
  BY <1>2 DEF DownloadReleaseZip, TryHttpDownload, HttpDownloadUrl
<1>3. CASE VerifyDownload
  BY <1>3 DEF VerifyDownload
<1>4. CASE ExpandZipArchive
  <2>1. staging' \in [Names -> Known]
    BY <1>0, <1>4, UnpackedType DEF ExpandZipArchive
  <2> QED BY <1>0, <1>4, <2>1 DEF ExpandZipArchive
<1>5. CASE SpawnUpdater
  BY <1>5 DEF SpawnUpdater
<1>6. CASE RejectPackage
  BY <1>6 DEF RejectPackage
<1>7. CASE LauncherExits
  BY <1>7 DEF LauncherExits
<1>8. ASSUME NEW u \in Updaters, UpdaterRuns(u) PROVE TypeOK'
  <2>1. CASE ValidateAgain(u)
    BY <2>1 DEF ValidateAgain, UpdaterStep
  <2>2. CASE WaitForProcessExit(u)
    BY <2>2 DEF WaitForProcessExit, UpdaterStep
  <2>3. CASE StopProcessesByName(u)
    BY <2>3 DEF StopProcessesByName, UpdaterStep
  <2>4. CASE MirrorFile(u)
    <3>1. next' \in [Updaters -> 1 .. Len(Order) + 1]
      BY <2>4 DEF MirrorFile
    <3>2. Order[next[u]] \in Names
      BY <2>4 DEF MirrorFile
    <3>3. install' \in [Names -> Contents]
      <4>1. \/ install' = install
            \/ install' = [install EXCEPT ![Order[next[u]]] = staging[Order[next[u]]]]
        BY <2>4 DEF MirrorFile
      <4>2. staging[Order[next[u]]] \in Contents
        BY <1>0, <3>2
      <4> QED BY <4>1, <4>2
    <3>4. failed' = failed \/ failed' = [failed EXCEPT ![u] = TRUE]
      BY <2>4 DEF MirrorFile
    <3>5. failed' \in [Updaters -> BOOLEAN]
      BY <3>4
    <3> QED BY <2>4, <3>1, <3>3, <3>5 DEF MirrorFile
  <2>5. CASE MirrorEnds(u)
    <3>1. next' \in [Updaters -> 1 .. Len(Order) + 1]
      BY <2>5 DEF MirrorEnds
    <3>2. failed' \in [Updaters -> BOOLEAN]
      BY <2>5 DEF MirrorEnds
    <3> QED BY <2>5, <3>1, <3>2 DEF MirrorEnds, UpdaterStep
  <2>6. CASE StartLauncher(u)
    BY <2>6 DEF StartLauncher, UpdaterStep
  <2> QED BY <1>8, <2>1, <2>2, <2>3, <2>4, <2>5, <2>6 DEF UpdaterRuns
<1>9. CASE CreateSF4Process
  <2>1. Runs("RelayHost.exe") \in BOOLEAN
    BY DEF Runs
  <2> QED BY <1>9, <2>1 DEF CreateSF4Process
<1>10. CASE GameExits
  BY <1>10 DEF GameExits
<1>11. CASE OpenLauncher
  BY <1>11 DEF OpenLauncher
<1>12. CASE PowerLoss
  <2>1. install' \in [Names -> Contents]
    <3>1. CASE UNCHANGED install
      BY <3>1
    <3>2. ASSUME NEW u \in Updaters, install' = [install EXCEPT ![Order[next[u]]] = "torn"]
          PROVE  install' \in [Names -> Contents]
      BY <3>2 DEF Contents
    <3> QED BY <1>12, <3>1, <3>2 DEF PowerLoss
  <2>2. losses' \in 0 .. MaxPowerLoss
    BY <1>12, UpdaterAssumption DEF PowerLoss
  <2>3. next' \in [Updaters -> 1 .. Len(Order) + 1]
    BY <1>12 DEF PowerLoss
  <2>4. updater' = [u \in Updaters |-> "none"] /\ failed' = [u \in Updaters |-> FALSE]
    BY <1>12 DEF PowerLoss
  <2> QED BY <1>12, <2>1, <2>2, <2>3, <2>4 DEF PowerLoss
<1>13. CASE UNCHANGED vars
  BY <1>13 DEF vars
<1> QED BY <1>1, <1>2, <1>3, <1>4, <1>5, <1>6, <1>7, <1>8, <1>9, <1>10, <1>11, <1>12, <1>13
        DEF Next

----------------------------------------------------------------------------
(* Steps that touch neither the two directories nor the updaters keep all  *)
(* but what a digest says of a verified zip.                               *)
LEMMA OutsideStep ==
    ASSUME Inv, UNCHANGED <<release, staging, install, UpdaterVars>>,
           release.digest /\ launcher' = "verified" => zip' = "good"
    PROVE  Staged' /\ RequiredPresent' /\ Clean' /\ Fresh' /\ Progress'
BY DEF Inv, UpdaterVars, Staged, RequiredPresent, Clean, Fresh, Progress

(* A released zip that passes a digest's check is the published one, and    *)
(* unpacking it, again or not, only adds new files.                         *)
LEMMA ExpandStep ==
    ASSUME Inv, ExpandZipArchive
    PROVE  Staged' /\ RequiredPresent' /\ Clean' /\ Fresh' /\ Progress'
<1> USE OrderFacts, UnpackedType DEF Inv, ExpandZipArchive, OutsideVars, UpdaterVars
<1>1. staging' \in [Names -> {"new", "bad", "absent"}]
  BY DEF TypeOK, Contents
<1>2. \A f \in Names : staging[f] # "absent" => staging'[f] # "absent"
  OBVIOUS
<1>3. Staged'
  BY <1>2 DEF Staged
<1>4. release.digest => \A f \in Names : staging'[f] # "bad"
  BY DEF Clean
<1>5. Clean'
  BY <1>4 DEF Clean
<1> QED BY <1>3, <1>5 DEF RequiredPresent, Fresh, Progress

(* An updater that validates, waits or stops RelayHost leaves the files     *)
(* alone; one that goes on after validating has a whole package.            *)
LEMMA PreparationStep ==
    ASSUME Inv, NEW u \in Updaters,
           ValidateAgain(u) \/ WaitForProcessExit(u) \/ StopProcessesByName(u)
    PROVE  Staged' /\ RequiredPresent' /\ Clean' /\ Fresh' /\ Progress'
<1> USE DEF Inv, TypeOK, OutsideVars, UpdaterStep, ValidateAgain,
            WaitForProcessExit, StopProcessesByName
<1>1. UNCHANGED <<staging, install, next, failed, zip, launcher, release>>
  OBVIOUS
<1>2. updater' \in [Updaters -> Stages] /\ \A v \in Updaters \ {u} : updater'[v] = updater[v]
  BY DEF Stages
<1>3. updater'[u] \in {"none", "wait", "stop", "mirror"} /\ updater[u] \in {"validate", "wait", "stop"}
  OBVIOUS
<1>4. updater'[u] # "none" => \A f \in Required : staging[f] # "absent"
  BY DEF Staged, ValidateStagedPackage
<1>5. Staged'
  BY <1>1, <1>2, <1>3, <1>4 DEF Staged
<1>6. next[u] = 1
  BY <1>3 DEF Fresh
<1>7. Fresh'
  BY <1>1, <1>2, <1>3 DEF Fresh
<1>8. Progress'
  BY <1>1, <1>2, <1>3, <1>6 DEF Progress
<1> QED BY <1>1, <1>5, <1>7, <1>8 DEF RequiredPresent, Clean

(* One name of the mirror: a staged file is new where there is a digest, so *)
(* what is new already stays, whoever mirrors.                              *)
LEMMA MirrorFileStep ==
    ASSUME Inv, NEW u \in Updaters, MirrorFile(u)
    PROVE  Staged' /\ RequiredPresent' /\ Clean' /\ Fresh' /\ Progress'
<1> USE OrderFacts DEF Inv
<1> DEFINE g == Order[next[u]]
<1>1. /\ updater[u] = "mirror" /\ next[u] \in 1 .. 6 /\ g \in Names
      /\ UNCHANGED <<staging, updater, zip, launcher, release>>
      /\ next' = [next EXCEPT ![u] = @ + 1]
  BY DEF MirrorFile, TypeOK, OutsideVars
<1>2. \/ install' = install /\ failed' = failed /\ install[g] = staging[g]
      \/ install' = install /\ failed' = [failed EXCEPT ![u] = TRUE]
      \/ install' = [install EXCEPT ![g] = staging[g]] /\ failed' = failed
  BY DEF MirrorFile
<1>3. \A f \in Names : install'[f] = install[f] \/ install'[f] = staging[f]
  BY <1>1, <1>2 DEF TypeOK
<1>4. \A f \in Required : staging[f] # "absent"
  BY <1>1 DEF Staged
<1>5. RequiredPresent'
  BY <1>3, <1>4 DEF RequiredPresent
<1>6. Clean'
  BY <1>1, <1>3 DEF Clean
<1>7. Fresh'
  BY <1>1, <1>2 DEF Fresh, TypeOK
<1>8. ASSUME release.digest PROVE \A f \in Required : staging[f] = "new"
  BY <1>4, <1>8 DEF Clean, TypeOK, Contents
<1>9. ASSUME release.digest
      PROVE  \A f \in Required : install[f] = "new" => install'[f] = "new"
  BY <1>3, <1>8, <1>9
<1>10. ASSUME release.digest, failed'[u] = FALSE, g \in Required PROVE install'[g] = "new"
  BY <1>1, <1>2, <1>8, <1>10 DEF TypeOK
<1>11. ASSUME NEW v \in Updaters, release.digest,
              updater'[v] = "mirror", failed'[v] = FALSE,
              NEW i \in 1 .. 6, i < next'[v], Order[i] \in Required
       PROVE  install'[Order[i]] = "new"
  <2>1. failed[v] = FALSE /\ updater[v] = "mirror"
    BY <1>1, <1>2, <1>11 DEF TypeOK
  <2>2. CASE i < next[v]
    BY <1>9, <1>11, <2>1, <2>2 DEF Progress
  <2>3. CASE ~(i < next[v])
    <3>1. v = u /\ i = next[u]
      BY <1>1, <1>11, <2>3 DEF TypeOK
    <3> QED BY <1>10, <1>11, <3>1
  <2> QED BY <2>2, <2>3
<1>12. ASSUME NEW v \in Updaters, release.digest, updater'[v] = "start", NEW f \in Required
       PROVE  install'[f] = "new"
  BY <1>1, <1>9, <1>12 DEF Progress
<1>13. Progress'
  BY ZenonT(60), <1>1, <1>11, <1>12 DEF Progress
<1> QED BY <1>1, <1>5, <1>6, <1>7, <1>13 DEF Staged

(* A mirror that ends without a failure has been at every name.             *)
LEMMA MirrorEndsStep ==
    ASSUME Inv, NEW u \in Updaters, MirrorEnds(u)
    PROVE  Staged' /\ RequiredPresent' /\ Clean' /\ Fresh' /\ Progress'
<1> USE OrderFacts DEF Inv
<1>1. /\ updater[u] = "mirror" /\ next[u] > 6
      /\ updater' = [updater EXCEPT ![u] = IF failed[u] THEN "none" ELSE "start"]
      /\ failed' = [failed EXCEPT ![u] = FALSE] /\ next' = [next EXCEPT ![u] = 1]
      /\ UNCHANGED <<staging, install, zip, launcher, release>>
  BY DEF MirrorEnds, UpdaterStep, OutsideVars
<1>2. \A v \in Updaters : v # u => /\ updater'[v] = updater[v] /\ next'[v] = next[v]
                                   /\ failed'[v] = failed[v]
  BY <1>1 DEF TypeOK
<1>3. /\ updater'[u] \in {"none", "start"} /\ next'[u] = 1 /\ failed'[u] = FALSE
      /\ updater'[u] = "start" => failed[u] = FALSE
  BY <1>1 DEF TypeOK
<1>4. Staged'
  BY <1>1, <1>2, <1>3 DEF Staged
<1>5. Fresh'
  BY <1>2, <1>3 DEF Fresh
<1>6. ASSUME release.digest, failed[u] = FALSE, NEW f \in Required PROVE install[f] = "new"
  <2>1. PICK i \in 1 .. 6 : Order[i] = f
    OBVIOUS
  <2>2. i < next[u]
    BY <1>1 DEF TypeOK
  <2> QED BY <1>1, <1>6, <2>1, <2>2 DEF Progress
<1>7. ASSUME NEW v \in Updaters, release.digest,
             updater'[v] = "mirror", failed'[v] = FALSE,
             NEW i \in 1 .. 6, i < next'[v], Order[i] \in Required
      PROVE  install'[Order[i]] = "new"
  <2>1. v # u
    BY <1>3, <1>7
  <2> QED BY <1>1, <1>2, <1>7, <2>1 DEF Progress
<1>8. ASSUME NEW v \in Updaters, release.digest, updater'[v] = "start", NEW f \in Required
      PROVE  install'[f] = "new"
  <2>1. CASE v = u
    BY <1>1, <1>3, <1>6, <1>8, <2>1
  <2>2. CASE v # u
    BY <1>1, <1>2, <1>8, <2>2 DEF Progress
  <2> QED BY <2>1, <2>2
<1>9. Progress'
  BY <1>1, <1>7, <1>8 DEF Progress
<1> QED BY <1>1, <1>4, <1>5, <1>9 DEF RequiredPresent, Clean

(* The report of success changes no file.                                   *)
LEMMA StartLauncherStep ==
    ASSUME Inv, NEW u \in Updaters, StartLauncher(u)
    PROVE  Staged' /\ RequiredPresent' /\ Clean' /\ Fresh' /\ Progress'
<1> USE DEF Inv
<1>1. /\ updater[u] = "start" /\ launcher' \in {"open", launcher}
      /\ updater' = [updater EXCEPT ![u] = IF install["Launcher.exe"] = "absent"
                                           THEN "none" ELSE "done"]
      /\ UNCHANGED <<staging, install, next, failed, zip, release>>
  BY DEF StartLauncher, UpdaterStep, OutsideVars
<1>2. \A v \in Updaters : v # u => updater'[v] = updater[v]
  BY <1>1 DEF TypeOK
<1>3. updater'[u] \in {"none", "done"}
  BY <1>1 DEF TypeOK
<1>4. Staged'
  BY <1>1, <1>2, <1>3 DEF Staged
<1>5. Fresh'
  BY <1>1, <1>2, <1>3 DEF Fresh
<1>6. Progress'
  BY <1>1, <1>2, <1>3 DEF Progress
<1> QED BY <1>1, <1>4, <1>5, <1>6 DEF RequiredPresent, Clean

(* A power loss tears at most the file being copied; no updater is left to  *)
(* report success, and what stays is not absent.                            *)
LEMMA PowerLossStep ==
    ASSUME Inv, PowerLoss
    PROVE  Staged' /\ RequiredPresent' /\ Clean' /\ Fresh' /\ Progress'
<1> USE OrderFacts DEF Inv
<1>1. /\ updater' = [u \in Updaters |-> "none"] /\ next' = [u \in Updaters |-> 1]
      /\ failed' = [u \in Updaters |-> FALSE] /\ launcher' = "closed"
      /\ UNCHANGED <<staging, release>>
  BY DEF PowerLoss
<1>2. \A f \in Names : install'[f] \in {install[f], "torn"}
  <2>1. CASE UNCHANGED install
    BY <2>1
  <2>2. ASSUME NEW u \in Updaters, install' = [install EXCEPT ![Order[next[u]]] = "torn"]
        PROVE  \A f \in Names : install'[f] \in {install[f], "torn"}
    BY <2>2 DEF TypeOK
  <2> QED BY <2>1, <2>2 DEF PowerLoss
<1>3. RequiredPresent'
  BY <1>2 DEF RequiredPresent
<1>4. Clean'
  BY <1>1, <1>2 DEF Clean
<1>5. Staged' /\ Fresh' /\ Progress'
  BY <1>1 DEF Staged, Fresh, Progress
<1> QED BY <1>3, <1>4, <1>5

(* A new updater has everything before it; the window that started it is    *)
(* about to close.                                                          *)
LEMMA SpawnUpdaterStep ==
    ASSUME Inv, SpawnUpdater
    PROVE  Staged' /\ RequiredPresent' /\ Clean' /\ Fresh' /\ Progress'
<1> USE DEF Inv
<1>1. PICK u \in Updaters : ~Active(u) /\ updater' = [updater EXCEPT ![u] = "validate"]
  BY DEF SpawnUpdater
<1>2. launcher' = "exiting" /\ UNCHANGED <<zip, staging, install, next, failed, release>>
  BY DEF SpawnUpdater, OutsideVars
<1>3. updater'[u] = "validate" /\ \A v \in Updaters : v # u => updater'[v] = updater[v]
  BY <1>1 DEF TypeOK
<1>4. next[u] = 1 /\ failed[u] = FALSE
  BY <1>1 DEF Active, Fresh
<1>5. Staged'
  BY <1>2, <1>3 DEF Staged
<1>6. Fresh'
  BY <1>2, <1>3, <1>4 DEF Fresh
<1>7. Progress'
  BY <1>2, <1>3 DEF Progress
<1> QED BY <1>2, <1>5, <1>6, <1>7 DEF RequiredPresent, Clean

----------------------------------------------------------------------------
(* Every step keeps the invariant.                                          *)
LEMMA InvStep == Inv /\ [Next]_vars => Inv'
<1> SUFFICES ASSUME Inv, [Next]_vars
             PROVE  Staged' /\ RequiredPresent' /\ Clean' /\ Fresh' /\ Progress'
  BY TypeStep DEF Inv
<1>1. CASE HandleApplyUpdate
  BY <1>1, OutsideStep DEF HandleApplyUpdate, OutsideVars
<1>2. CASE DownloadReleaseZip
  <2>1. launcher' # "verified"
    BY <1>2 DEF DownloadReleaseZip
  <2> QED BY <1>2, <2>1, OutsideStep DEF DownloadReleaseZip, OutsideVars
<1>3. CASE VerifyDownload
  <2>1. release.digest /\ launcher' = "verified" => zip' = "good"
    BY <1>3 DEF VerifyDownload, ComputeFileSha256Hex
  <2> QED BY <1>3, <2>1, OutsideStep DEF VerifyDownload, OutsideVars
<1>4. CASE ExpandZipArchive
  BY <1>4, ExpandStep
<1>5. CASE SpawnUpdater
  BY <1>5, SpawnUpdaterStep
<1>6. CASE RejectPackage
  BY <1>6, OutsideStep DEF RejectPackage, OutsideVars
<1>7. CASE LauncherExits
  BY <1>7, OutsideStep DEF LauncherExits, OutsideVars
<1>8. ASSUME NEW u \in Updaters, UpdaterRuns(u)
      PROVE  Staged' /\ RequiredPresent' /\ Clean' /\ Fresh' /\ Progress'
  BY <1>8, PreparationStep, MirrorFileStep, MirrorEndsStep, StartLauncherStep DEF UpdaterRuns
<1>9. CASE CreateSF4Process
  <2>1. launcher' \in {launcher, "closed"} /\ UNCHANGED zip
    BY <1>9 DEF CreateSF4Process
  <2> QED BY <1>9, <2>1, OutsideStep DEF CreateSF4Process, Inv, Clean
<1>10. CASE GameExits
  BY <1>10, OutsideStep DEF GameExits, Inv, Clean
<1>11. CASE OpenLauncher
  BY <1>11, OutsideStep DEF OpenLauncher
<1>12. CASE PowerLoss
  BY <1>12, PowerLossStep
<1>13. CASE UNCHANGED vars
  BY <1>13, OutsideStep DEF vars, UpdaterVars, Inv, Clean
<1> QED BY <1>1, <1>2, <1>3, <1>4, <1>5, <1>6, <1>7, <1>8, <1>9, <1>10, <1>11, <1>12, <1>13
        DEF Next

(* Hence the invariant always holds.                                        *)
LEMMA AlwaysInv == Spec => []Inv
<1>1. Init => Inv
  BY InitInv
<1>2. Inv /\ [Next]_vars => Inv'
  BY InvStep
<1> QED BY <1>1, <1>2, PTL DEF Spec

(* The state keeps its types, and the steps after a download have a file.   *)
THEOREM UpdaterTypeCorrect == Spec => []TypeOK
<1>1. Inv => TypeOK
  BY DEF Inv
<1> QED BY <1>1, AlwaysInv, PTL

(* No update leaves the install directory without a file the launcher       *)
(* needs, although robocopy /MIR deletes what the package lacks.            *)
THEOREM RequiredStays == Spec => []RequiredPresent
<1>1. Inv => RequiredPresent
  BY DEF Inv
<1> QED BY <1>1, AlwaysInv, PTL

(* With a published digest nothing of a wrong download is ever installed.   *)
THEOREM NothingBadInstalled == Spec => []NoBadFiles
<1>1. Inv => NoBadFiles
  BY DEF Inv, Clean, NoBadFiles
<1> QED BY <1>1, AlwaysInv, PTL

(* An updater that reports success leaves the whole release installed: only *)
(* StartLauncher reports it, and Progress holds when it does.               *)
THEOREM DoneIsComplete == Spec => DoneMeansComplete
<1>1. ASSUME Inv, Inv', [Next]_vars
      PROVE  [\A u \in Updaters :
                 updater'[u] = "done" /\ updater[u] # "done" /\ release.digest
                    => \A f \in Required : install'[f] = "new"]_vars
  <2> SUFFICES ASSUME NEW u \in Updaters, updater'[u] = "done", updater[u] # "done",
                      release.digest, NEW f \in Required
               PROVE  install'[f] = "new"
    OBVIOUS
  <2>1. updater'[u] # updater[u]
    OBVIOUS
  <2>2. PICK w \in Updaters : UpdaterRuns(w)
    <3>1. ~SpawnUpdater
      BY <1>1, <2>1 DEF SpawnUpdater, Inv, TypeOK
    <3>2. ~PowerLoss
      BY DEF PowerLoss
    <3> QED BY <1>1, <2>1, <3>1, <3>2
            DEF Next, vars, UpdaterVars, HandleApplyUpdate, DownloadReleaseZip, VerifyDownload,
                ExpandZipArchive, RejectPackage, LauncherExits, CreateSF4Process, GameExits,
                OpenLauncher
  <2>3. StartLauncher(w) /\ w = u
    <3>1. ~MirrorFile(w)
      BY <2>1 DEF MirrorFile
    <3>2. w = u
      BY <2>1, <2>2, <3>1, <1>1
         DEF UpdaterRuns, ValidateAgain, WaitForProcessExit, StopProcessesByName, MirrorEnds,
             StartLauncher, UpdaterStep, Inv, TypeOK
    <3> QED BY <2>2, <3>1, <3>2, <1>1
            DEF UpdaterRuns, ValidateAgain, WaitForProcessExit, StopProcessesByName, MirrorEnds,
                UpdaterStep, Inv, TypeOK
  <2>4. updater[u] = "start" /\ install' = install
    BY <2>3 DEF StartLauncher, UpdaterStep
  <2> QED BY <1>1, <2>4 DEF Inv, Progress
<1> QED BY <1>1, AlwaysInv, PTL DEF Spec, DoneMeansComplete
=============================================================================
