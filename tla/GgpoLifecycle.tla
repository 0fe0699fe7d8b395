--------------------------- MODULE GgpoLifecycle ---------------------------
(***************************************************************************)
(* One game process, from the lobby through its battles: the GGPO session, *)
(* the simulation gate that decides whether the next frame may run, the    *)
(* room connection (control plane), the pacing debt, the sync watchdog and *)
(* the deferred close that keeps a session alive for spectators.           *)
(*                                                                         *)
(* The process is single-threaded: every action below is one handler that  *)
(* the outer tick (fUserApp::Steam_PostUpdate), the engine's battle update *)
(* or a callback of GGPO / Steam sockets runs to its end.  All statics the *)
(* handlers share are fields of `app', so that a handler which calls       *)
(* another is the composition of two operators.                            *)
(***************************************************************************)
EXTENDS Naturals

CONSTANTS
    Transports,   \* the ways GGPO traffic may travel, a subset of AllTransports
    MaxPace,      \* largest pacing debt, in waits of one outer frame
    DevOverlay    \* the launcher enabled the developer overlay

AllTransports == {"udp", "p2p", "tunnel", "direct"}

ASSUME TransportsAssumption == Transports \subseteq AllTransports
ASSUME MaxPaceAssumption == MaxPace \in Nat
ASSUME DevOverlayAssumption == DevOverlay \in BOOLEAN

VARIABLES
    app,          \* the statics of fSystem, NetplayFacade and fUserApp
    link,         \* the GGPO library's own view of its peer
    synced,       \* fVsBattle::bSessionSynced, the BATTLE_SYNCED barrier
    audience,     \* the lobby holds more than the two players
    watchLate,    \* more than 20 s since s_ggpoBattleStartTick
    deferLate     \* GetTickCount() has reached s_deferGgpoCloseUntil

vars == <<app, link, synced, audience, watchLate, deferLate>>

AppType ==
    [ ggpo          : {"none", "player", "spectator"},   \* fSystem::ggpo
      phase         : {"none", "waiting", "running", "closing"},
      manualPause   : BOOLEAN,                           \* simGate.*
      fatal         : BOOLEAN,
      stalled       : BOOLEAN,
      warning       : BOOLEAN,
      interrupted   : BOOLEAN,            \* bGgpoConnectionInterrupted
      updateAllowed : BOOLEAN,            \* bUpdateAllowed
      halt          : BOOLEAN,            \* bHaltAfterNext
      pacer         : 0..MaxPace,         \* pacer.outstandingMs
      tunnel        : BOOLEAN,            \* GgpoRelay::IsActive
      transport     : AllTransports,      \* the launcher's configuration
      reported      : BOOLEAN,            \* effectiveMode is UDP relay
      syncRunning   : BOOLEAN,            \* s_ggpoSyncPhase = Running
      watching      : BOOLEAN,            \* s_ggpoBattleStartTick # 0
      fallbackTried : BOOLEAN,            \* s_udpGgpoFallbackTried
      room          : {"none", "up", "down"},  \* netplay object, connection
      lost          : BOOLEAN,            \* s_controlPlaneLost
      deferClose    : BOOLEAN,            \* s_deferGgpoClose
      deferPending  : BOOLEAN,            \* s_deferredGgpoPending
      leaving       : BOOLEAN,            \* ready state is RS_ISLEAVING
      flow          : {"menu", "loading", "fight"} ]  \* fight: not BF__IDLE

(* Type correctness of the process's statics and of its surroundings. *)
TypeOK ==
    /\ app \in AppType
    /\ link \in {"none", "syncing", "live", "gone"}
    /\ {synced, audience, watchLate, deferLate} \subseteq BOOLEAN

-----------------------------------------------------------------------------
(* The gate and the session: what the handlers are composed of.            *)

CanAdvance(a) == a.phase = "running" /\ ~a.manualPause /\ ~a.fatal

MayAdvance(a) == a.updateAllowed /\ (a.ggpo = "none" \/ CanAdvance(a))

OnSessionClosed(a) ==
    [a EXCEPT !.phase = "none", !.stalled = FALSE, !.warning = FALSE]

\* Mutant: the pacing debt is left standing.
RetireKeepsDebt(a) ==
    IF a.ggpo = "none"
    THEN a
    ELSE [OnSessionClosed(a) EXCEPT !.ggpo = "none", !.interrupted = FALSE]

RetireGgpoSession(a) ==
    IF a.ggpo = "none"
    THEN a
    ELSE [OnSessionClosed(a) EXCEPT !.ggpo = "none", !.interrupted = FALSE,
                                    !.pacer = 0]

AbortGgpoMatch(a) ==
    LET stopped == [a EXCEPT !.fatal = TRUE, !.updateAllowed = FALSE,
                             !.interrupted = FALSE]
    IN  [RetireGgpoSession(stopped) EXCEPT !.tunnel = FALSE,
                                           !.leaving = a.flow # "menu"]

CancelDeferredGgpoClose(a) ==
    [a EXCEPT !.deferClose = FALSE, !.deferPending = FALSE]

\* Mutant: a new session ignores the pause.
OpenSessionUnpaused(a) ==
    LET fresh == RetireGgpoSession(CancelDeferredGgpoClose(a))
    IN  [fresh EXCEPT !.phase = "waiting", !.fatal = FALSE, !.stalled = FALSE,
                      !.warning = FALSE, !.pacer = 0, !.updateAllowed = TRUE]

\* fSystem::StartGGPO and StartSpectating up to the library call.
OpenSession(a) ==
    LET fresh == RetireGgpoSession(CancelDeferredGgpoClose(a))
    IN  [fresh EXCEPT !.phase = "waiting", !.fatal = FALSE, !.stalled = FALSE,
                      !.warning = FALSE, !.pacer = 0,
                      !.updateAllowed = ~a.manualPause]

StartGGPO(a, result) ==
    LET opened == [OpenSession(a) EXCEPT !.interrupted = FALSE]
    IN  CASE result = "ok"          -> [opened EXCEPT !.ggpo = "player"]
          [] result = "start_fails" -> AbortGgpoMatch(opened)
          [] result = "add_fails"   ->
                 AbortGgpoMatch([opened EXCEPT !.ggpo = "player"])

\* A failed spectator session is logged and the battle goes on without it.
StartSpectating(a, ok) ==
    [OpenSession(a) EXCEPT !.ggpo = IF ok THEN "spectator" ELSE "none"]

ResetGgpoBattleWatch(a) ==
    [a EXCEPT !.watching = TRUE, !.fallbackTried = FALSE, !.syncRunning = FALSE]

ShutdownNetplay(a) ==
    [RetireGgpoSession(a) EXCEPT
        !.pacer = 0, !.tunnel = FALSE, !.reported = FALSE,
        !.syncRunning = FALSE, !.watching = FALSE, !.fallbackTried = FALSE,
        !.room = "none", !.deferClose = FALSE, !.deferPending = FALSE,
        !.lost = FALSE]

HandleNetplayFailure(a) ==
    LET stopped == IF a.ggpo = "none"
                   THEN a
                   ELSE [a EXCEPT !.leaving = @ \/ a.flow = "fight",
                                  !.fatal = TRUE, !.updateAllowed = FALSE]
    IN  ShutdownNetplay(stopped)

HandleControlPlaneLoss(a) ==
    LET fightRunning == /\ a.ggpo # "none"
                        /\ a.phase = "running"
                        /\ ~a.fatal
                        /\ a.flow = "fight"
    IN  CASE a.lost                            -> a
          [] ~a.lost /\ fightRunning /\ ~a.tunnel -> [a EXCEPT !.lost = TRUE]
          [] OTHER                             -> HandleNetplayFailure(a)

-----------------------------------------------------------------------------
(* Joining a room, and the user's controls.                                *)

Init ==
    /\ app = [ ggpo |-> "none", phase |-> "none", manualPause |-> FALSE,
               fatal |-> FALSE, stalled |-> FALSE, warning |-> FALSE,
               interrupted |-> FALSE, updateAllowed |-> TRUE, halt |-> FALSE,
               pacer |-> 0, tunnel |-> FALSE, transport |-> "direct",
               reported |-> FALSE, syncRunning |-> FALSE, watching |-> FALSE,
               fallbackTried |-> FALSE, room |-> "none", lost |-> FALSE,
               deferClose |-> FALSE, deferPending |-> FALSE,
               leaving |-> FALSE, flow |-> "menu" ]
    /\ link = "none"
    /\ synced = FALSE
    /\ audience = FALSE
    /\ watchLate = FALSE
    /\ deferLate = FALSE

StartSession ==
    /\ app.room = "none" /\ app.flow = "menu"
    /\ \E t \in Transports : app' = [app EXCEPT !.room = "up", !.transport = t]
    /\ audience' \in BOOLEAN
    /\ UNCHANGED <<link, synced, watchLate, deferLate>>

\* A LOBBY_UPDATE brings the first spectator or tells of the last one leaving.
LobbyUpdate ==
    /\ app.room = "up"
    /\ audience' = ~audience
    /\ UNCHANGED <<app, link, synced, watchLate, deferLate>>

\* The overlay's Disconnect button.
Disconnect ==
    /\ app.room # "none"
    /\ app' = ShutdownNetplay(app)
    /\ UNCHANGED <<link, synced, audience, watchLate, deferLate>>

Paused(a, yes) == [a EXCEPT !.updateAllowed = ~yes, !.manualPause = yes]

PressPause == app' = Paused(app, TRUE)

PressPlay == app' = Paused(app, FALSE)

PressHalt == app' = [app EXCEPT !.halt = TRUE]

PressStep == app' = [Paused(app, FALSE) EXCEPT !.halt = TRUE]

\* The "Simulation control" tab of the developer overlay.
SimulationControl ==
    /\ DevOverlay
    /\ PressPause \/ PressPlay \/ PressHalt \/ PressStep
    /\ UNCHANGED <<link, synced, audience, watchLate, deferLate>>

-----------------------------------------------------------------------------
(* A battle starts: fUserApp::_OnVsBattleTasksRegistered and its branches. *)

Loading == [app EXCEPT !.flow = "loading", !.leaving = FALSE]

\* Registration owns GGPO's UDP port: a deferred session is closed first.
ReleasePort(a) ==
    IF a.ggpo = "none"
    THEN a
    ELSE [RetireGgpoSession(CancelDeferredGgpoClose(a)) EXCEPT !.tunnel = FALSE]

StartResults == {"ok", "start_fails", "add_fails"}

\* The state in which the player's branch calls StartGGPO.
Prepared ==
    CASE app.transport \in {"udp", "p2p"} ->
             [ReleasePort(Loading) EXCEPT !.reported = app.transport = "udp"]
      [] app.transport = "tunnel" -> [Loading EXCEPT !.tunnel = TRUE]
      [] app.transport = "direct" -> Loading

PlayerStarts ==
    /\ \E result \in StartResults :
           app' = ResetGgpoBattleWatch(StartGGPO(Prepared, result))
    /\ watchLate' = FALSE

\* Registration or the tunnel's endpoint fails, and the battle is aborted; a
\* tunnel that does not start, or an opponent who has left, only raises an
\* alert and the battle keeps loading.
PlayerCannotStart ==
    /\ \/ app.transport # "direct" /\ app' = AbortGgpoMatch(Prepared)
       \/ app.transport = "tunnel" /\ app' = [Loading EXCEPT !.tunnel = FALSE]
       \/ ~audience /\ app' = Loading
    /\ UNCHANGED watchLate

SpectatorStarts ==
    /\ audience
    /\ \E ok \in BOOLEAN : app' = StartSpectating(Loading, ok)
    /\ UNCHANGED watchLate

RegisterTasks ==
    /\ app.flow = "menu" /\ app.room # "none"
    /\ PlayerStarts \/ PlayerCannotStart \/ SpectatorStarts
    /\ link' = IF app'.phase = "waiting" THEN "syncing" ELSE link
    /\ synced' = FALSE
    /\ UNCHANGED <<audience, deferLate>>

\* A battle that has nothing to do with netplay.
OfflineBattle ==
    /\ app.flow = "menu" /\ app.room = "none"
    /\ app' = Loading
    /\ synced' = FALSE
    /\ UNCHANGED <<link, audience, watchLate, deferLate>>

BattleSynced ==
    /\ app.flow = "loading" /\ app.room = "up" /\ ~synced
    /\ synced' = TRUE
    /\ UNCHANGED <<app, link, audience, watchLate, deferLate>>

HasInitialized == app.flow = "fight" \/ app.room = "none" \/ synced

-----------------------------------------------------------------------------
(* fSystem::BattleUpdate: one deterministic frame, or a reason to skip it. *)

\* The tail of BattleUpdate, reached by every frame that did not return early.
HaltAfterNext(a) ==
    IF a.halt THEN [Paused(a, TRUE) EXCEPT !.halt = FALSE] ELSE a

OnFrameAccepted(a) == [a EXCEPT !.stalled = FALSE]

\* ggpo_add_local_input reaches the prediction threshold.
OnPredictionThreshold(a) == [a EXCEPT !.stalled = TRUE]

\* The frame's possible outcomes: accepted; refused for now; input or sync
\* irrecoverable (early return); advance_frame fails; the save callback finds
\* no free slot, aborts, and the update still records the frame as accepted.
FrameOutcomes(a) ==
    { HaltAfterNext(OnFrameAccepted(a)),
      OnPredictionThreshold(a),
      a,
      AbortGgpoMatch(a),
      HaltAfterNext(AbortGgpoMatch(a)),
      HaltAfterNext(OnFrameAccepted(AbortGgpoMatch(a))) }

BattleUpdate ==
    /\ app.flow # "menu" /\ HasInitialized
    /\ MayAdvance(app)
    /\ IF app.ggpo # "none" /\ app.flow = "fight"
       THEN app' \in FrameOutcomes(app)
       ELSE app' = HaltAfterNext([app EXCEPT !.flow = "fight"])
    /\ UNCHANGED <<link, synced, audience, watchLate, deferLate>>

\* Rollback inside ggpo_idle: advance_frame_callback is not gated.
Rollback ==
    /\ app.ggpo # "none" /\ link \in {"live", "gone"}
    /\ app' \in {app, AbortGgpoMatch(app)}
    /\ UNCHANGED <<link, synced, audience, watchLate, deferLate>>

\* The engine tears the battle down: a match ends, or the state is leaving.
NotifyMatchEnded(a) ==
    LET defer == ~a.lost /\ a.room # "none" /\ audience
    IN  [a EXCEPT !.deferClose = defer, !.deferPending = defer]

OnBattleClosing(a) == [a EXCEPT !.phase = IF @ = "none" THEN @ ELSE "closing"]

FinalizeControlPlaneLoss(a) == IF a.lost THEN ShutdownNetplay(a) ELSE a

Closed(a) ==
    LET ended == NotifyMatchEnded(OnBattleClosing(a))
    IN  CASE a.ggpo = "none" -> a
          [] a.ggpo # "none" /\ ended.deferClose ->
                 [ended EXCEPT !.pacer = 0, !.interrupted = FALSE]
          [] OTHER -> [RetireGgpoSession(ended) EXCEPT !.tunnel = FALSE]

CloseBattle ==
    /\ app.flow = "fight" \/ (app.flow = "loading" /\ app.leaving)
    /\ app' = FinalizeControlPlaneLoss([Closed(app) EXCEPT !.flow = "menu"])
    /\ deferLate' = (deferLate /\ ~app'.deferClose)
    /\ UNCHANGED <<link, synced, audience, watchLate>>

-----------------------------------------------------------------------------
(* The callbacks of GGPO's on_event, delivered by ggpo_idle.               *)

OnRunning ==
    /\ app.ggpo # "none" /\ link = "syncing"
    /\ link' = "live"
    /\ app' = [app EXCEPT !.phase = IF @ = "waiting" THEN "running" ELSE @,
                          !.syncRunning = TRUE]
    /\ UNCHANGED <<synced, audience, watchLate, deferLate>>

\* Mutant: a connection warning freezes the simulation.
InterruptedFreezes(a) == [a EXCEPT !.interrupted = TRUE, !.warning = TRUE,
                                   !.updateAllowed = FALSE]

Interrupted(a) == [a EXCEPT !.interrupted = IF a.warning THEN @ ELSE TRUE,
                            !.warning = TRUE]

Resumed(a) == [a EXCEPT !.interrupted = IF a.warning THEN FALSE ELSE @,
                        !.warning = FALSE]

OnConnectionEvent ==
    /\ app.ggpo # "none" /\ link = "live"
    /\ app' \in {Interrupted(app), Resumed(app)}
    /\ UNCHANGED <<link, synced, audience, watchLate, deferLate>>

OnDisconnectedFromPeer ==
    /\ app.ggpo # "none" /\ link = "live"
    /\ link' = "gone"
    /\ app' = [Resumed(app) EXCEPT !.leaving = app.flow # "menu",
                                   !.interrupted = FALSE]
    /\ UNCHANGED <<synced, audience, watchLate, deferLate>>

\* PacingController: a fresh estimate replaces the debt, clamped; zero is
\* ignored.
OnRecommendation(a, ahead) ==
    IF ahead = 0 THEN a
    ELSE [a EXCEPT !.pacer = IF ahead > MaxPace THEN MaxPace ELSE ahead]

OnTimesync ==
    /\ app.ggpo # "none" /\ link = "live"
    /\ \E ahead \in 0..(MaxPace + 1) : app' = OnRecommendation(app, ahead)
    /\ UNCHANGED <<link, synced, audience, watchLate, deferLate>>

-----------------------------------------------------------------------------
(* The outer tick: NetplayFacade::TickFrame, the pacing wait, the clock.   *)

SyncTimedOut(a) ==
    /\ a.ggpo # "none" /\ ~a.updateAllowed /\ ~a.fallbackTried
    /\ a.reported /\ ~a.syncRunning /\ a.watching /\ watchLate

Watchdog(a) ==
    IF SyncTimedOut(a)
    THEN AbortGgpoMatch([a EXCEPT !.fallbackTried = TRUE])
    ELSE a

\* Mutant: the deferral never runs out.
ShouldDeferAlways(a) == a.deferClose

ShouldDeferGgpoClose(a) == a.deferClose /\ ~deferLate

DeferredClose(a) ==
    IF a.deferPending /\ a.ggpo # "none" /\ ~ShouldDeferGgpoClose(a)
    THEN CancelDeferredGgpoClose(
             [RetireGgpoSession(a) EXCEPT !.tunnel = FALSE])
    ELSE a

TickFrame ==
    /\ app' = DeferredClose(Watchdog(app))
    /\ UNCHANGED <<link, synced, audience, watchLate, deferLate>>

\* One bounded wait; the elapsed time reported may be anything.
PacedWait ==
    /\ app.ggpo # "none" /\ MayAdvance(app) /\ ~app.stalled /\ app.pacer > 0
    /\ \E left \in 0..app.pacer : app' = [app EXCEPT !.pacer = left]
    /\ UNCHANGED <<link, synced, audience, watchLate, deferLate>>

WatchExpires ==
    /\ app.watching /\ ~watchLate
    /\ watchLate' = TRUE
    /\ UNCHANGED <<app, link, synced, audience, deferLate>>

DeferExpires ==
    /\ app.deferClose /\ ~deferLate
    /\ deferLate' = TRUE
    /\ UNCHANGED <<app, link, synced, audience, watchLate>>

\* SessionClient's callback: the room connection closed or failed.
LoseRoom ==
    /\ app.room = "up"
    /\ LET down == [app EXCEPT !.room = "down"]
       IN  app' = IF app.ggpo # "none" THEN HandleControlPlaneLoss(down)
                                       ELSE down
    /\ UNCHANGED <<link, synced, audience, watchLate, deferLate>>

\* The client's or the local server's Step reports an error.
StepFails ==
    /\ app.room # "none"
    /\ app' = HandleControlPlaneLoss(app)
    /\ UNCHANGED <<link, synced, audience, watchLate, deferLate>>

-----------------------------------------------------------------------------
Next ==
    \/ StartSession \/ LobbyUpdate \/ Disconnect \/ SimulationControl
    \/ RegisterTasks \/ OfflineBattle \/ BattleSynced
    \/ BattleUpdate \/ Rollback \/ CloseBattle
    \/ OnRunning \/ OnConnectionEvent \/ OnDisconnectedFromPeer \/ OnTimesync
    \/ TickFrame \/ PacedWait \/ WatchExpires \/ DeferExpires
    \/ LoseRoom \/ StepFails

Spec == Init /\ [][Next]_vars

\* The game runs its outer tick every frame, and the clock moves on.
FairSpec ==
    /\ Spec
    /\ WF_vars(TickFrame)
    /\ WF_vars(WatchExpires)
    /\ WF_vars(DeferExpires)

-----------------------------------------------------------------------------
(* Properties.                                                             *)

(* A pause asked for in the developer overlay stays in force: no rematch,  *)
(* abort, room loss or late GGPO event lets frames run again while         *)
(* manualPause is set; with no session left, where bUpdateAllowed alone    *)
(* decides, included.                                                      *)
PauseHolds == app.manualPause => ~MayAdvance(app)

(* A fatal error always takes the session with it (AbortGgpoMatch,         *)
(* HandleNetplayFailure), and a new session never starts out fatal.        *)
FatalHasNoSession == app.fatal => app.ggpo = "none"

(* A session outlives its battle only while CloseBattle's deferral for     *)
(* spectators is pending, with the gate closed and the room object alive.  *)
SessionHasBattle ==
    app.ggpo # "none" /\ app.flow = "menu"
        => app.deferPending /\ app.phase = "closing" /\ app.room # "none"

(* Whatever path closed the session, nothing of it is carried into the     *)
(* next battle: no pacing debt, connection warning or prediction stall.    *)
NothingOutlivesSession ==
    app.ggpo = "none"
        => /\ app.pacer = 0
           /\ ~app.warning /\ ~app.interrupted /\ ~app.stalled

(* Degraded mode (room lost, fight goes on) exists only inside a fight     *)
(* whose GGPO traffic does not ride on the room connection, and never      *)
(* together with a deferred close.                                         *)
DegradedSound ==
    app.lost => /\ app.flow = "fight"
                /\ app.room # "none"
                /\ ~app.tunnel
                /\ ~app.deferClose /\ ~app.deferPending

(* While a session lives, the gate moves only with GGPO's RUNNING event,   *)
(* the developer controls (halt after next included) or the end of the     *)
(* battle: connection warnings, resumes, stalls, ticks, rollbacks and room *)
(* loss in a healthy fight neither freeze nor thaw the simulation.         *)
GateMovesOnlyBy ==
    [][app.ggpo # "none" /\ app'.ggpo # "none"
           /\ MayAdvance(app) # MayAdvance(app)'
         => \/ OnRunning \/ SimulationControl
            \/ BattleUpdate /\ app.halt
            \/ CloseBattle \/ RegisterTasks]_vars

(* Degraded mode ends only in the safe disconnected state: when the flag   *)
(* is cleared, the room, the session and every deferral are gone.          *)
LossIsFinal ==
    [][app.lost /\ ~app'.lost
         => app'.room = "none" /\ app'.ggpo = "none" /\ ~app'.deferPending]_vars

(* A session kept open for spectators is closed in the end, by TickFrame   *)
(* once the deferral has expired if by nothing else.                       *)
DeferredCloses ==
    (app.ggpo # "none" /\ app.flow = "menu")
        ~> (app.ggpo = "none" \/ app.flow # "menu")

(* A player's session over the UDP relay that never reaches RUNNING does   *)
(* not wait for ever: the 20 s sync watchdog aborts it to the lobby.       *)
SyncWaitEnds ==
    (app.ggpo = "player" /\ app.reported /\ app.phase = "waiting")
        ~> (app.ggpo = "none" \/ app.phase # "waiting")

=============================================================================
