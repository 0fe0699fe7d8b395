------------------------------ MODULE Launcher -----------------------------
(***************************************************************************)
(* Launcher.exe from its start to its exit: the Qt window on the GUI       *)
(* thread (relay_netplay_window.cxx), the bridge that posts its messages   *)
(* to the controller on a worker thread and queues the replies back        *)
(* (controller_bridge.cxx), the other two front ends (electron_ipc.cxx and *)
(* the command line, netplay_wizard.cxx), and wWinMain, which starts the   *)
(* game and looks after RelayHost.exe.                                     *)
(*                                                                         *)
(* w holds the window's members that a handler reads; labels, screens,     *)
(* status lines and the room list are left out, and so are the texts of    *)
(* fields that are only copied into messages.                              *)
(***************************************************************************)
EXTENDS LaunchController, Sequences

CONSTANTS Foreign,    \* rooms other players have made
          FrontEnds,  \* subset of {"qt", "ipc", "cli"}
          Envs,       \* values of SF4E_GGPO_TRANSPORT
          MaxClicks   \* bound on what the player does and on timer ticks

ASSUME LauncherAssumption ==
    /\ Foreign \subseteq Rooms
    /\ FrontEnds \subseteq {"qt", "ipc", "cli"}
    /\ Envs \subseteq {"auto", "legacy", "udp", "p2p"}
    /\ MaxClicks \in Nat

VARIABLES b,         \* outside: live, spent, vps, env (see LaunchController)
          ui,        \* the front end of this run
          c,         \* the controller
          w,         \* the window
          toWorker,  \* messages posted to the worker thread
          toGui,     \* replies and signals queued to the GUI thread
          proc,      \* "starting", "ui", "closing", "launching", "game", "exited"
          clicks,    \* what the player did and the timer ticked so far
          hist       \* what happened, for the properties

vars == <<b, ui, c, w, toWorker, toGui, proc, clicks, hist>>

Message(type) == [type |-> type]

NewWindow ==
    [simple |-> TRUE, code |-> None, timer |-> FALSE,
     startOn |-> FALSE, createOn |-> TRUE, joinOn |-> TRUE,
     busy |-> FALSE, installShown |-> FALSE, installOn |-> TRUE,
     hostMethod |-> "relay", joinMethod |-> "relay",
     advertiseEmpty |-> TRUE, defaultPort |-> TRUE, urlOk |-> TRUE]

Init ==
    /\ \E vps \in BOOLEAN, env \in Envs :
           b = [live |-> Foreign, spent |-> Foreign, vps |-> vps, env |-> env]
    /\ ui \in FrontEnds
    /\ \E stored \in StoredSettings :
           c = NewController(LoadPersistedSettings(stored))
    /\ w = NewWindow
    /\ toWorker = IF ui = "qt" THEN <<Message("getState")>> ELSE <<>>
    /\ toGui = <<>>
    /\ proc = "starting"
    /\ clicks = 0
    /\ hist = [closedByUser |-> FALSE, createFailed |-> FALSE, starts |-> 0,
               startSinceArmed |-> FALSE, launched |-> FALSE]

----------------------------------------------------------------------------
(* The window's helpers: a window in, a window out; a window and the       *)
(* messages it posts where a helper posts.                                 *)

With(win, posts) == [w |-> win, posts |-> posts]

HostConnectMethod(win) == IF win.simple THEN "relay" ELSE win.hostMethod

UpdateHostControls(win) ==
    [win EXCEPT !.startOn = HostConnectMethod(win) # "relay" \/ win.code # None]

StopRelayHeartbeat(win) == [win EXCEPT !.timer = FALSE]

OnRelayHeartbeat(win) ==
    IF win.code = None THEN With(StopRelayHeartbeat(win), <<>>)
    ELSE With(win, <<[type |-> "relayHeartbeat", code |-> win.code]>>)

StartRelayHeartbeat(win) ==
    IF win.code = None THEN With(StopRelayHeartbeat(win), <<>>)
    ELSE OnRelayHeartbeat([win EXCEPT !.timer = TRUE])

\* An edited address or port asks for a new preview, in Advanced mode.
OnAdvertiseChanged(win) ==
    IF win.simple THEN <<>> ELSE <<Message("previewRoomCode")>>

\* Fields follow the state; the ones a user may edit only while empty.  The
\* port and the address signal their change as if the user had made it.
SyncFromState(win, r) ==
    LET mode == [win EXCEPT !.simple = IF r.simpleUi # None THEN r.simpleUi
                                       ELSE @]
        portMoves == r.defaultPort # None /\ r.defaultPort # win.defaultPort
        addressMoves == r.advertise /\ win.advertiseEmpty
        Preview(moved) == IF moved THEN OnAdvertiseChanged(mode) ELSE <<>>
    IN  With(UpdateHostControls(
                [mode EXCEPT !.defaultPort = IF portMoves THEN r.defaultPort
                                             ELSE @,
                             !.advertiseEmpty = @ /\ ~r.advertise,
                             !.code = IF IsShortRoomCode(r.preview)
                                      THEN r.preview ELSE @]),
             Preview(portMoves) \o Preview(addressMoves))

\* Mutant: the timer is not armed.
FinalizeUnarmed(win, r) ==
    With([UpdateHostControls([win EXCEPT !.code = IF IsShortRoomCode(r.preview)
                                                  THEN r.preview ELSE None])
          EXCEPT !.createOn = TRUE], <<>>)

FinalizeRelayRoomResponse(win, r) ==
    StartRelayHeartbeat(
        [UpdateHostControls([win EXCEPT !.code = IF IsShortRoomCode(r.preview)
                                                 THEN r.preview ELSE None])
         EXCEPT !.createOn = TRUE])

\* Mutant: an error leaves the Join button off.
OnErrorKeepsJoin(win) ==
    UpdateHostControls([win EXCEPT !.installOn = @ \/ win.busy,
                                   !.busy = FALSE, !.createOn = TRUE])

OnError(win) ==
    UpdateHostControls([win EXCEPT !.installOn = @ \/ win.busy,
                                   !.busy = FALSE,
                                   !.createOn = TRUE, !.joinOn = TRUE])

OnUpdateCheck(win, r) ==
    [win EXCEPT !.busy = FALSE,
                !.installShown = IF r.available = None THEN @ ELSE r.available]

OnState(win, r) ==
    LET beaten == CASE r.heartbeatOk = FALSE ->
                           UpdateHostControls([StopRelayHeartbeat(win)
                                               EXCEPT !.code = None])
                    [] r.heartbeatOk = TRUE -> [win EXCEPT !.startOn = TRUE]
                    [] OTHER -> win
        synced == SyncFromState(beaten, r)
        final == FinalizeRelayRoomResponse(synced.w, r)
    IN  IF r.preview = None THEN synced
        ELSE With(final.w, synced.posts \o final.posts)

HandleMessage(win, r) ==
    CASE r.type = "error" -> With(OnError(win), <<>>)
      [] r.type = "updateCheck" -> With(OnUpdateCheck(win, r), <<>>)
      [] r.type = "updateApply" ->
             With([win EXCEPT !.busy = TRUE, !.installShown = FALSE], <<>>)
      [] r.type = "state" -> OnState(win, r)
      [] OTHER -> With(win, <<>>)

----------------------------------------------------------------------------
(* The player at the window.                                               *)

\* One thing the player does: the window changes and posts messages.
Click(win, posts) ==
    /\ ui = "qt" /\ proc = "ui"
    /\ clicks < MaxClicks
    /\ clicks' = clicks + 1
    /\ w' = win
    /\ toWorker' = toWorker \o posts
    /\ UNCHANGED <<b, ui, c, toGui, proc>>

KeepHist == UNCHANGED hist
StartPosted == hist' = [hist EXCEPT !.startSinceArmed = TRUE]

\* onModeSimple, onModeAdvanced: applyUiMode(true)
SetMode(simple) ==
    /\ Click(UpdateHostControls([w EXCEPT !.simple = simple]),
             <<[type |-> "setUiMode", simpleUi |-> simple]>>)
    /\ KeepHist

OnCreateRelayRoom ==
    /\ w.createOn
    /\ Click([w EXCEPT !.createOn = FALSE], <<Message("createRelayRoom")>>)
    /\ KeepHist

\* Buttons whose handler only posts.
OnPostOnly ==
    /\ \/ ~w.simple /\ Click(w, <<Message("fetchPublicIp")>>)
       \/ ~w.simple /\ Click(w, <<Message("tryUpnp")>>)
       \/ Click(w, <<Message("listRooms")>>)
       \/ w.installShown /\ Click(w, <<Message("openUrl")>>)
    /\ KeepHist

EditAdvertise ==
    /\ ~w.simple
    /\ \E empty \in BOOLEAN :
          Click([w EXCEPT !.advertiseEmpty = empty], OnAdvertiseChanged(w))
    /\ KeepHist

EditPort ==
    /\ ~w.simple
    /\ Click([w EXCEPT !.defaultPort = ~@], OnAdvertiseChanged(w))
    /\ KeepHist

ChooseMethod ==
    /\ ~w.simple
    /\ \/ \E m \in {"relay", "direct", "autoNat"} :
             Click(UpdateHostControls([w EXCEPT !.hostMethod = m]), <<>>)
       \/ \E m \in {"relay", "direct"} :
             Click([w EXCEPT !.joinMethod = m], <<>>)
    /\ KeepHist

OnBrokerChanged ==
    /\ ~w.simple
    /\ \E ok \in BOOLEAN : Click([w EXCEPT !.urlOk = ok],
                                 <<[type |-> "saveSettings", urlOk |-> ok]>>)
    /\ KeepHist

\* The settings are saved first; the button goes off and the heartbeat stops
\* until a reply turns them on again.
StartGameHost ==
    LET method == HostConnectMethod(w)
        save == [type |-> "saveSettings", urlOk |-> w.urlOk]
        start == [type |-> "start", mode |-> "host", method |-> method,
                  code |-> IF method = "relay" THEN w.code ELSE Empty,
                  portOk |-> TRUE, defaultPort |-> w.defaultPort]
    IN  /\ w.startOn
        /\ IF method = "relay" /\ w.code = None
           THEN Click(w, <<save>>) /\ KeepHist
           ELSE /\ Click([StopRelayHeartbeat(w) EXCEPT !.startOn = FALSE],
                         <<save, start>>)
                /\ StartPosted

StartMessage(method, target) ==
    [type |-> "start", mode |-> "join", method |-> method, target |-> target,
     portOk |-> TRUE]

\* Text that does not fit the chosen method is refused with a toast.
StartGameJoin ==
    \E target \in Foreign \cup {Bare(r) : r \in Foreign} \cup {Addr, Junk} :
        LET short == IsShortRoomCode(target)
            method == IF ~w.simple THEN w.joinMethod
                      ELSE IF short THEN "relay" ELSE "direct"
        IN  /\ w.joinOn
            /\ (method = "relay") <=> short
            /\ Click([StopRelayHeartbeat(w) EXCEPT !.joinOn = FALSE],
                     <<StartMessage(method, target)>>)
            /\ StartPosted

OnStartOffline ==
    /\ Click(StopRelayHeartbeat(w),
             <<[type |-> "start", mode |-> "idle", portOk |-> TRUE]>>)
    /\ StartPosted

OnFindMatch ==
    /\ Click(w, <<StartMessage("matchmaking", Empty)>>)
    /\ StartPosted

OnRoomSelected ==
    /\ Click([w EXCEPT !.joinMethod = "relay"], <<>>)
    /\ KeepHist

OnCheckUpdate ==
    /\ ~w.busy
    /\ Click([w EXCEPT !.busy = TRUE], <<Message("checkUpdate")>>)
    /\ KeepHist

OnApplyUpdate ==
    /\ w.installShown /\ w.installOn
    /\ Click([w EXCEPT !.busy = TRUE, !.installOn = FALSE],
             <<Message("applyUpdate")>>)
    /\ KeepHist

HeartbeatTick ==
    /\ w.timer
    /\ Click(OnRelayHeartbeat(w).w, OnRelayHeartbeat(w).posts)
    /\ KeepHist

\* The event loop ends: the window is read no more, and replies reach nobody.
Quit ==
    /\ proc' = "closing"
    /\ w' = NewWindow
    /\ toGui' = <<>>

\* closeEvent: the flags are read from the GUI thread, whatever the worker does.
CloseEvent ==
    /\ Quit
    /\ toWorker' = IF c.finished \/ c.cancelled THEN toWorker
                   ELSE Append(toWorker, Message("cancel"))

UserCloses ==
    /\ ui = "qt" /\ proc = "ui"
    /\ CloseEvent
    /\ hist' = [hist EXCEPT !.closedByUser = TRUE]
    /\ UNCHANGED <<b, ui, c, clicks>>

----------------------------------------------------------------------------
(* The bridge.                                                             *)

IsStart(m) == m.type \in {"start", "offlineStart"}

\* What handling m does to the controller, the broker and the start count.
Handled(m, o) ==
    /\ c' = o.c
    /\ b' = IF o.made = None THEN b
            ELSE [b EXCEPT !.live = @ \cup {o.made}, !.spent = @ \cup {o.made}]

CountStart(h, m) ==
    [h EXCEPT !.starts = IF IsStart(m) /\ @ < 2 THEN @ + 1 ELSE @]

\* The reply, then the signals whose flag is set, after every message.
Emitted(o) ==
    (IF o.reply = None THEN <<>> ELSE <<o.reply>>) \o
    (IF o.c.exitForUpdate THEN <<Message("exitForUpdate")>> ELSE <<>>) \o
    (IF o.c.finished THEN <<Message("launcherFinished")>> ELSE <<>>)

\* ControllerBridgeWorker::handle; it goes on while the window closes.
WorkerHandles ==
    /\ ui = "qt" /\ proc \in {"ui", "closing"}
    /\ toWorker # <<>>
    /\ \E o \in HandleWebMessage(c, b, Head(toWorker)) :
          /\ Handled(Head(toWorker), o)
          /\ toGui' = IF proc = "ui" THEN toGui \o Emitted(o) ELSE <<>>
    /\ toWorker' = Tail(toWorker)
    /\ hist' = CountStart(hist, Head(toWorker))
    /\ UNCHANGED <<ui, w, proc, clicks>>

GuiReceives ==
    /\ ui = "qt" /\ proc = "ui"
    /\ toGui # <<>>
    /\ UNCHANGED <<b, ui, c, clicks>>
    /\ LET r == Head(toGui) IN
       \/ /\ r.type = "launcherFinished"
          /\ CloseEvent
          /\ UNCHANGED hist
       \/ /\ r.type = "exitForUpdate"
          /\ Quit
          /\ UNCHANGED <<toWorker, hist>>
       \/ /\ r.type \notin {"launcherFinished", "exitForUpdate"}
          /\ toGui' = Tail(toGui)
          /\ LET s == HandleMessage(w, r)
             IN  /\ w' = s.w
                 /\ toWorker' = toWorker \o s.posts
                 /\ hist' = [hist EXCEPT !.startSinceArmed = @ /\ ~s.w.timer]
          /\ UNCHANGED proc

----------------------------------------------------------------------------
(* The other front ends, and wWinMain.                                     *)

\* RunElectronIpcBridge: one line at a time; nothing is handled after a finish.
IpcMessages ==
    {Message(t) : t \in {"getState", "createRelayRoom", "applyUpdate", "cancel",
                         "copyText", "offlineStart", "unknown"}} \cup
    {[type |-> "start", mode |-> "host", method |-> "relay", code |-> Empty,
      portOk |-> ok, defaultPort |-> TRUE] : ok \in BOOLEAN} \cup
    {StartMessage(method, target) : method \in {"relay", "autoNat"},
                                    target \in {Bare(r) : r \in Foreign}}

IpcLine ==
    /\ ui = "ipc" /\ proc = "ui" /\ clicks < MaxClicks
    /\ clicks' = clicks + 1
    /\ \E m \in IpcMessages :
          /\ \E o \in HandleWebMessage(c, b, m) :
                /\ Handled(m, o)
                /\ proc' = IF o.c.exitForUpdate THEN "exited"
                           ELSE IF ~o.c.finished THEN "ui"
                           ELSE IF o.c.cancelled THEN "exited" ELSE "launching"
          /\ hist' = CountStart(hist, m)
    /\ UNCHANGED <<ui, w, toWorker, toGui>>

IpcStdinEnds ==
    /\ ui = "ipc" /\ proc = "ui"
    /\ proc' = "exited"
    /\ UNCHANGED <<b, ui, c, w, toWorker, toGui, clicks, hist>>

\* STEAM_APP_PATH names a folder with SSFIV.exe, or a Steam library has one.
FindSF4 == BOOLEAN

\* The folder of the DLLs is put before the PATH the game will inherit.
UpdatePath == BOOLEAN

\* Without either the launcher shows a message and returns.
StartUp ==
    /\ proc = "starting"
    /\ \E path \in UpdatePath, found \in FindSF4 :
          proc' = IF path /\ found THEN "ui" ELSE "exited"
    /\ UNCHANGED <<b, ui, c, w, toWorker, toGui, clicks, hist>>

\* ApplyNetplayConfigFromWizard: --host and --join, without the controller.
WizardConfigs(mode, t) ==
    LET Joined(e) == [NoConfig EXCEPT !.mode = "join", !.session = e]
    IN  CASE mode = "idle" -> {NoConfig}
          [] mode = "host" -> {[NoConfig EXCEPT !.mode = "host",
                                                !.session = Addr]}
          [] mode = "join" /\ IsShortRoomCode(t) ->
                 {IF sr.ok THEN Joined(sr.endpoint) ELSE None :
                     sr \in ResolveJoinRelayRoom(t, b.live, c.settings.urlOk)}
          [] OTHER -> {IF ParseRoomCode(t) = None THEN None ELSE Joined(Addr)}

CommandLine ==
    /\ ui = "cli" /\ proc = "ui"
    /\ \E mode \in {"idle", "host", "join"}, t \in Foreign \cup {Addr, Junk} :
          \E cfg \in WizardConfigs(mode, t) :
             IF cfg = None
             THEN proc' = "exited" /\ UNCHANGED c
             ELSE proc' = "launching" /\ c' = [c EXCEPT !.cfg = cfg]
    /\ UNCHANGED <<b, ui, w, toWorker, toGui, clicks, hist>>

\* The bridge's destructor ends the worker: what it has not begun is dropped.
UiReturns ==
    /\ ui = "qt" /\ proc = "closing"
    /\ toWorker' = <<>>
    /\ proc' = IF c.finished /\ ~c.cancelled THEN "launching" ELSE "exited"
    /\ UNCHANGED <<b, ui, c, w, toGui, clicks, hist>>

\* With a RelayHost of its own the launcher stays until the game exits.  When
\* the game cannot be started it leaves by ExitProcess.
CreateSF4Process ==
    /\ proc = "launching"
    /\ \/ /\ proc' = IF c.relayHost = "none" THEN "exited" ELSE "game"
          /\ hist' = [hist EXCEPT !.launched = TRUE]
       \/ /\ proc' = "exited"
          /\ hist' = [hist EXCEPT !.createFailed = TRUE]
    /\ UNCHANGED <<b, ui, c, w, toWorker, toGui, clicks>>

\* Mutant: RelayHost is not stopped.
GameExitsKeepsRelayHost ==
    /\ proc = "game"
    /\ proc' = "exited"
    /\ UNCHANGED <<b, ui, c, w, toWorker, toGui, clicks, hist>>

GameExits ==
    /\ proc = "game"
    /\ proc' = "exited"
    /\ c' = StopRelayHost(c)
    /\ UNCHANGED <<b, ui, w, toWorker, toGui, clicks, hist>>

RelayHostDies ==
    /\ c.relayHost = "live" /\ proc # "exited"
    /\ c' = [c EXCEPT !.relayHost = "dead"]
    /\ UNCHANGED <<b, ui, w, toWorker, toGui, proc, clicks, hist>>

----------------------------------------------------------------------------
User ==
    \/ \E simple \in BOOLEAN : SetMode(simple)
    \/ OnCreateRelayRoom
    \/ OnPostOnly
    \/ EditAdvertise
    \/ EditPort
    \/ ChooseMethod
    \/ OnBrokerChanged
    \/ StartGameHost
    \/ StartGameJoin
    \/ OnStartOffline
    \/ OnFindMatch
    \/ OnRoomSelected
    \/ OnCheckUpdate
    \/ OnApplyUpdate
    \/ UserCloses

Next ==
    \/ StartUp
    \/ User
    \/ HeartbeatTick
    \/ WorkerHandles
    \/ GuiReceives
    \/ IpcLine
    \/ IpcStdinEnds
    \/ CommandLine
    \/ UiReturns
    \/ CreateSF4Process
    \/ GameExits
    \/ RelayHostDies

Spec == Init /\ [][Next]_vars
----------------------------------------------------------------------------
(* Properties.                                                             *)

\* The type invariant of the launcher.
TypeOK ==
    /\ b.live \subseteq b.spent /\ b.spent \subseteq Rooms
    /\ c.settings.relayRoomCode \in Maybe(Rooms)
    /\ c.settings.relayHostSecret \in Maybe(Rooms)
    /\ c.settings.lastJoinHost \in Texts
    /\ c.cfg.code \in Maybe(Texts)
    /\ c.cfg.session \in Maybe(Rooms \cup {Addr})
    /\ c.relayHost \in {"none", "live", "dead"}
    /\ w.code \in Maybe(Rooms)
    /\ \A f \in {"simple", "timer", "startOn", "createOn", "joinOn", "busy"} :
          w[f] \in BOOLEAN
    /\ proc \in {"starting", "ui", "closing", "launching", "game", "exited"}
    /\ clicks \in 0..MaxClicks /\ hist.starts \in 0..2

\* Both threads have caught up and the window is open.
Quiet == ui = "qt" /\ proc = "ui" /\ toWorker = <<>> /\ toGui = <<>>

\* Until a start is handled, the code the window shares (when it shows one) is
\* the room the controller would host and heartbeat.
CodeConverges ==
    Quiet /\ hist.starts = 0 => w.code \in {None, c.settings.relayRoomCode}

\* A shared code is kept alive: the 60 s timer runs while a code is shown,
\* unless a start was pressed since the timer was last armed.
KeepAlive ==
    ui = "qt" /\ proc = "ui" /\ w.code # None =>
        w.timer \/ hist.startSinceArmed

\* Another player's room token only ever reaches a game that goes to that
\* player's room: nothing of one attempt is left in the config of the next.
CredentialsSource ==
    hist.launched /\ c.cfg.token \in Foreign =>
        c.cfg.token = NormalizeRelayRoomCode(c.cfg.code)

\* A game launched after a single start has what its mode needs: a session
\* endpoint, and a RelayHost of this launcher exactly when it is to host here.
LaunchedIsConfigured ==
    proc = "launching" /\ hist.starts < 2 =>
        /\ c.cfg.mode # "idle" => c.cfg.session # None
        /\ c.cfg.central = 1 <=> c.relayHost # "none"

\* A launcher told to go direct dials the peer, not the relay.
P2pDialsPeer ==
    proc = "launching" /\ c.cfg.transport = 2 /\ b.env = "auto" =>
        c.cfg.dial = "peer"

\* RelayHost.exe outlives the launcher only when the window was closed on a
\* start under way, or when the game could not be started.
NoOrphan ==
    proc = "exited" /\ c.relayHost = "live" =>
        hist.closedByUser \/ hist.createFailed

\* No button stays off: when both threads have caught up, every request that
\* turned one off has been answered in a way that turned it on again.
ControlsComeBack ==
    Quiet => w.joinOn /\ w.createOn /\ (w.code # None => w.startOn)
============================================================================
