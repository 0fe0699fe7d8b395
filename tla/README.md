# TLA+ models of SF4 Netplay Launcher

This directory holds TLA+ specifications of the SF4 Netplay Launcher: the room
protocol, the UDP relay for GGPO traffic, the life of a GGPO session inside the
game process, its rollbacks and its desync detection, the room broker with its
relay manager, the launcher itself and the in-app updater. TLC checks small
instances; TLAPS proves some of the properties for every value of the
constants. `PROJECT.json` maps every definition to its source lines. Paths below
are relative to the repository root `src/`.

## 1. The system

Two players start the launcher. The host's asks the **room broker** for a room;
the broker has the **relay manager** start a session relay and a GGPO UDP relay
on a port pair. The guest's resolves the room code, and both ask for a connect
plan. The launcher starts the game with the **sidecar** and its configuration.
In the game, the **session client** connects to the **session server** (on the
relay, or in the host's RelayHost for Direct IP), players pick characters and
press Ready, the server starts the match, both processes load it and meet at a
barrier. Each player then registers with the **UDP relay** (or punches through
NAT, or tunnels through the session connection) and opens a **GGPO session**,
which rolls back and re-simulates frames until the battle ends, is aborted, or a
connection is lost; after it comes a rematch. While a fight runs, the machines
compare captures of their states.

| Component | State | Operations | Hard behaviour |
|---|---|---|---|
| Session server (`src/session/sf4e__SessionServer.cxx`) | members in seat order, per-seat ready numbers, loaded flags, punch marks | one handler per message, batched in `Step`; connection callbacks | per-seat data against erased members; one update for a whole batch |
| Session client, lobby driver (`sf4e__SessionClient.cxx`, `sf4e__UserApp.cxx`, `sf4e__GameEvents.cxx`, `sf4e__Overlay.cxx`) | copy of the lobby, outstanding Ready, pending match, battle phase | `Step`, Ready, Rematch, pre-battle hand-over, barrier | decisions on stale copies, signals of an earlier match |
| GGPO UDP relay (`src/relay/ggpo_udp_relay.cxx`) | legacy slots, active and pending generation | registration (two protocols), forwarding, health, idle exit | late, duplicated, reordered registrations; address changes |
| Transport preparation (`sf4e__GgpoTransport.cxx`) | socket, retry timer | register, wait, time out, punch | an answer to an earlier attempt |
| GGPO lifecycle (`sf4e__Game__Battle__System.cxx`, `sf4e__NetplayFacade.cxx`, `common/sf4e__GgpoGate.hxx`) | session, gate, deferrals, watchdog, loss flag | start, events, frames, retire, abort, defer, lose | six ways to end a session, events around pauses |
| Pacing (`common/sf4e__PacingController.hxx`) | debt | recommend, repay, reset | debt that outlives its session |
| Rollback save states (`sf4e__Game__Battle__System.cxx`, `sf4e__Game.cxx`, `sf4e__Game__Battle.cxx`) | pool of states, memento keys and their buffers, two sound managers | save, load, free, advance, training save and load, sound sync | buffers that move between owners; sounds of frames that never happened |
| Desync detection (`sf4e__UserApp.cxx`, `sf4e__SessionClient.cxx`, `sf4e__Game__Battle__System.cxx`) | captures, pending lists, reports | capture, send when aged, compare, report, leave | captures of predictions, of another match, of spectators |
| Room broker (`services/room-broker`) | rooms, reserved ports, queue | HTTP handlers, sweep | handlers that interleave at every `await` |
| Relay manager (`services/vps-relay/relay-manager.js`) | processes by port | start, replace, stop, probe | late stops and starts, processes that exit |
| Connection strategy (`src/launcher/connect_strategy.cxx`, `room_broker_client.cxx`) | none of its own | create, heartbeat, join, plan, health, probe | every call may fail half-way |
| Launch controller (`src/launcher/netplay/netplay_launch_controller.cxx`) | settings, credentials, game configuration | one handler per message | configuration filled over several calls that may fail |
| Window, bridge, process (`src/launcher/qt`, `launcher.cxx`, `relay_host_spawn.cxx`) | fields, timer, queues to and from a worker thread, RelayHost | buttons, timer, replies, start, exit | replies that meet a window that has moved on |
| Updater (`src/launcher/update`, `src/launcher/updater.cxx`) | staging and install directories, `Updater.exe` | check, download, verify, unpack, validate, mirror, restart | partial mirrors, power loss, overlapping updates |
| Tunnel pump, relay process mains, overlay drawing, engine bindings, loader, diagnostics | | | not modelled, section 8 |

What makes each part correct: the lobby seats nobody twice and starts a match
only on the players' own Ready, both players fight the same battle and enter it
together, nobody waits for ever; the relay pairs exactly the two players of one
match and forwards only between them; the simulation never runs past a pause, a
fatal error or without a session, and whatever the end of a session was, nothing
of it leaks into the next; a rollback gives back exactly the state that was
saved, and what is heard is what the corrected frames play; a match ends as
desynchronised only when it is; a port belongs to one room and a room keeps its
relays; a shared room is kept alive and a game is started with the credentials
and session its mode needs; an update never leaves a broken or unverified
installation. `hazards` in `PROJECT.json` lists where the code can go wrong in a
way tests hardly reach, with the properties that watch each place.

## 2. Modules

| Module | Models | Runs |
|---|---|---|
| `SessionLobby` | server, clients, lobby driver, barrier, punch coordination | `MCSessionLobby`: `lobby_*` |
| `UdpRelay` | the relay alone, under arbitrary datagrams | through `RelayMatch` |
| `RelayMatch` | two players, the relay and the network; extends `UdpRelay` | `MCRelayMatch`: `relay_match` |
| `GgpoLifecycle` | one game process: gate, session, facade, pacing | `MCGgpoLifecycle`: `ggpo_lifecycle` |
| `Timeline` | abstract: the state is that of the inputs, going back is exact | refined by `Rollback` |
| `PureSounds`, `SaveStates` | sound managers; save states and buffers (operators) | through `Rollback` |
| `Rollback` | one battle with GGPO's callbacks; extends `SaveStates` | `MCRollback`: `rollback` |
| `Desync` | captures, their exchange and comparison, on all machines | `MCDesync`: `desync*` |
| `RoomBroker` | broker handlers as tasks, calls under way, manager | `MCRoomBroker`: `broker_*` |
| `ConnectStrategy`, `LaunchController` | calls to the broker; message handlers (operators) | through `Launcher` |
| `Launcher` | window, bridge, worker, process, RelayHost; extends both | `MCLauncher`: `launcher` |
| `Updater` | the in-app update from the check to the restart | `MCUpdater`: `updater` |
| `SessionLobbyProofs`, `RelayMatchProofs` (of `UdpRelay` too), `RoomBrokerProofs`, `GgpoLifecycleProofs`, `RollbackProofs`, `DesyncProofs`, `LauncherProofs`, `UpdaterProofs` | theorems | TLAPS |

**SessionLobby.** `srv` is the `SessionServer`, `cl[c]` the client and game
process behind connection `c`, `up`/`down` the reliable, ordered connections. A
`Step` of the server is several actions: one per message of the batch and
`FlushStep`, which sends the update, the start and the sync signal in the
code's order. A player who reconnects is another member of `Clients` with the
same name. A run starts in a new room, or (`Joined`) in a room that is quiet
again after its members joined. Choices are the number of the Ready they were
sent with. Fields marked *history* only record which match something belongs to.

**UdpRelay, RelayMatch.** Addresses are records of IP and port, a generation is
a key. `RelaySpec` lets any datagram come from anywhere. `RelayMatch` puts two
players around the relay, one match after another. Its network loses,
duplicates and reorders datagrams. It assumes that once a player registers for a
match no datagram it sent or was sent in an earlier match is delivered; what its
peer sent still may be (`StaleDatagrams`), until the peer registers too.
Without this bound, GGPO's own data of an earlier match could be forwarded,
which the relay does not and cannot tell apart.

**GgpoLifecycle.** The process is single-threaded, so each handler is one
action, and a handler that calls another is a composition of operators on the
record `app`. Time is abstract: `WatchExpires` and `DeferExpires` say that the
20 s of the watchdog and the deferral have passed. The pacing debt counts waits
of one outer frame; milliseconds are left out.

**SaveStates, PureSounds, Rollback, Timeline.** The contents of an object are
the history of inputs they come from, so two states are equal exactly when they
come from the same inputs. A buffer is allocated by the engine when a key is
initialised and freed when it is initialised again or cleared; reading a freed
one gives `Garbage`. Units that come and go (`Tasks`) have a task and a key of
their own; an object's existence is part of the unit's memento. `ggpo` is GGPO's
synchronization layer, external: a ring of `Prediction + 2` positions, of which
it frees the one it saves to; a rollback loads the last frame known good and
advances again. Training mode serves the overlay's load and save requests
at the start of a frame, in the first slot. The real sound manager takes the lowest
free player, or the oldest one when the cue may interrupt.
`ReplaysExactly == INSTANCE Timeline WITH state <- History, now <- Now` maps
the live objects to `Timeline`'s state: the history they agree on, or `Garbage`
when they do not, or when the wrong objects exist.

**Desync.** A captured value is the match and whether it comes from the inputs
really given, from a prediction or from a machine that has diverged. A machine
ticks: it receives what was forwarded to it, simulates, captures, sends what is
old enough and compares. Legacy snapshots end a match, hashes are only reported.
A player runs at most `Prediction` frames ahead of the inputs it has heard; the
assumption that captures age longer than twice that is 60 against 8 in the code.

**RoomBroker.** A JavaScript handler runs to its next `await` without
interruption. A handler is therefore a task with a pc, and the code between two
awaits is an action. Requests to the manager are members of `calls` and arrive in
any order; `fetch` may reject them. A code stands for a room's code, token and
hash; port *i* for the pair of ports of index *i*. A relay process is its entry
in the manager's map; the manager's probe loops are one step with the start they
follow, and their failure is `StartFails`. A connection that breaks after the
manager has acted, and a restart of either service, are not modelled.

**ConnectStrategy, LaunchController, Launcher.** A call to the broker is the set
of results it may return when the broker knows certain rooms: it may fail before
or after the broker has acted. A controller message runs to its end, so it is a
function from the controller's state to the set of its outcomes (next state,
room made, reply). `Launcher` puts the window on the GUI thread, the controller
on the worker thread and the two queues of `controller_bridge.cxx` between them;
the Electron and command-line front ends drive the same controller. `proc` is
`wWinMain`. Texts are members of a small set: a code, a code without its prefix,
an address, nothing, junk. `clicks` bounds what the player does.

**Updater.** A file is one of six names with one of five contents. The launcher's
part is one action per call of the download and apply chain, `UpdaterRuns(u)`
one action per stage of `Updater.exe`, and the mirror one action per file, in
NTFS's order. Windows and robocopy are external: a file of a running image can
be neither replaced nor deleted, robocopy goes on after a failure and reports it.
One window is open at a time; the game and its supervising launcher come and go.

## 3. Runs

| Run | Shows | Bounds |
|---|---|---|
| `lobby_rematch` | `SeatReadyIsOwn`, `SameSetup`, `GenerationKnown`, `PunchTogether` through ready, fight, close and rematch, on a VPS room and a punching direct room | 2 clients, 2 Readies each (a match and a rematch; one player may press while its battle still closes), batches of 2 (enough for two handlers to share one flush) |
| `lobby_rotation` | `MembersDistinct`, `ViewConverges` while clients join, leave, return under their old name, and results rotate the seats | 3 clients, 2 seats, 1 result |
| `lobby_abort` | `BarrierHolds`, `BarrierOpens` with a spectator in the room when a player's match may fail | 3 clients, who have joined, 1 match |
| `relay_match` | `StartedTogether`, `ActiveComplete`, `ForwardsThePlayers`, `OnlyPeerData`; two players who keep probing both start (`BothStart`) | 2 matches, both players behind one public IP, a NAT that changes a port, three addresses of legacy clients |
| `ggpo_lifecycle` | `PauseHolds`, `NothingOutlivesSession`, `GateMovesOnlyBy`; a session kept for spectators is closed (`DeferredCloses`) | every transport, debt up to 2 |
| `rollback` | `FollowsTimeline` (the refinement), `BuffersOwnedOnce`, `NeverFull`, `CuesFollow`, `SurvivorsPlayOn` | 4 frames with 2 of prediction (every ring position is reused and freed), 2 cues of which one interrupts, 2 players, 1 task, 3 training frames; a sound stops with all others or because another takes its player |
| `desync` | `NoFalseDesync`, `NoFalseReport`, `DivergenceCaught` | 2 players, 1 of prediction, captures every 2 frames that age 3, 2 pending hashes (the list overflows), 7 frames, 2 matches |
| `broker_rooms` | `TypeOK`, `PortsExclusive`, `ReservationsHeld`, `OccupiedStays` | 2 rooms, 2 ports, 2 handlers of any kind, 1 fault, both transports |
| `broker_relays` | `RelayRestored` | 2 rooms in turn on 1 port, 2 handlers of which one checks relays, 2 faults |
| `launcher` | `CodeConverges`, `KeepAlive`, `CredentialsSource`, `LaunchedIsConfigured`, `NoOrphan`, `ControlsComeBack` | 3 rooms of which one is another player's, 3 clicks or ticks (two requests queued and one reply late), all front ends |
| `updater` | `NoBadFiles`, `RequiredPresent`, `DoneMeansComplete`; a started updater ends (`UpdateEnds`) | 2 updaters, whole, incomplete and overfull releases with a digest and an incomplete one without, 1 power loss, games and reopened launchers at any step |
| `desync_spectator` | violated, section 4 | 1 spectator, 4 frames, 2 matches |

A second match, a second room on the same port, a third client, a second updater
or a second queued request are what the stale data of a first one needs to do
harm; the bounds above are the smallest in which all of these occur. Each
property of a passing run has a mutant of the code in `mutants` that breaks it
under the run's own bounds. Runs with `CHECK_DEADLOCK FALSE` stop when the bound
on presses, matches, frames or rooms is used up. In `desync` both players are
interchangeable, in `broker_rooms` rooms and handlers are; only invariants and
action properties are checked with these symmetries.

`LaunchedIsConfigured` and `CodeConverges` are stated for a launcher on which
Start was pressed at most once, respectively not yet: what more presses do is
below. `KeepAlive` excuses a heartbeat timer that a Start has stopped.
`CredentialsSource` speaks of another player's token only. `CuesFollow` and
`SurvivorsPlayOn` ask for a free player per sound (`PlayersEnough`): the players
orphaned by timelines that a rollback gave up (`NothingOrphaned`, below) may fill
the real manager, and a sync then takes the oldest of them.

Type invariants are proved; `broker_rooms` also checks its own.
`updater` has no whole release without a digest: what such a release may do is
in section 4, and `RequiredStays` is proved for every release.

## 4. Known divergences

`desync_spectator` is a finding: the server forwards every member's snapshot to
all, and a player compares whatever it is sent. A spectator that has diverged, or
that still shows the previous match, ends the players' match.

The following definitions state what a document, a comment or the code around
them says; they do **not** hold. They are kept in the modules, in no run. Adding
one to the named cfg shows it.

| Definition | Add to | What happens |
|---|---|---|
| `SessionLobby!SeatReadyIsOwn` with `MayLeave = {a}` | `lobby_rematch` | ready numbers are kept by seat (`sf4e__SessionServer.cxx:563`): a member that leaves passes its readiness on to whoever moves into its seat |
| `SessionLobby!ReadyAnswered` | `lobby_rematch`, under `FairSpec` | a Ready handled in one `Step` with the opponent's rematch reset is never answered, and the button stays blocked (`sf4e__SessionClient.cxx:315`) |
| `StartedTogether` with `KeyOf <- SameKeys` | `relay_match` | two matches with one generation key (connection ids and message numbers restart with the connections) let a player start on the registrations of the previous match (`ggpo_udp_relay.cxx:288`) |
| `GgpoLifecycle!SyncWaitEnds` with `Transports <- VpsRelay` | `ggpo_lifecycle` | the sync watchdog asks for `!bUpdateAllowed` (`sf4e__NetplayFacade.cxx:564`), which `StartGGPO` has just set, so a session that never synchronises is not aborted |
| `RoomBroker!RelayServesOwner` | `broker_rooms` | a relay check that waits for the manager while its room is deleted restarts that room's UDP relay on the port of the next room (`server.js:291`); health answers do not tell tokens apart, so nothing repairs it |
| `Launcher!P2pDialsPeer` | `launcher` | a plan for p2p carries the relay's host and port, and `ApplyConnectPlanJson` (`connect_strategy.cxx:439`) dials them instead of the peer |
| `Desync!DivergenceCaught` with `Watchers <- MCWatchers`, `MaxFrames = 6`, `MaxMatches = 1`, `HashInterval = 9` | `desync` | the first snapshot of a frame confirms and erases a player's own (`sf4e__SessionClient.cxx:366`); after a spectator's that agrees, the peer's that differs is kept as pending and compared with nothing |
| `Updater!LauncherRestarts`, `PromptSpec`, `MCOneUpdater`, `MCFull` | `updater` | `Updater.exe` mirrors over its own running image: robocopy reports a failure and the launcher is not restarted (`docs/RELEASE_NOTES_v0.4.3.md:17`) |
| `Rollback!NothingOrphaned` | `rollback` | the second real player of a cue whose twin survives is never stopped (`sf4e__Game__Battle.cxx:349`) |

More behaviour that was met while modelling:

* Lobby. `MT_BATTLE_LOADED` waits for every member's flag
  (`sf4e__SessionServer.cxx:315`), so a client that joins between the start
  signal and the last loaded report keeps both players at the barrier until it
  leaves. `CanLobbyReady` does not ask whether the player is back in the menu: a
  Ready pressed while the battle still closes may be cleared by the same
  process's reset after the match has started on it; `SameSetup` and
  `GenerationKnown` are therefore stated for players who press in the menu
  (`Unhurried`). In a rematch with a spectator, its loaded report for the
  previous battle can count for the new one (`BarrierHolds` with three clients
  and two matches).
* Launcher. A second Start queued behind a finished one runs on the first one's
  configuration. "Get code" pressed twice leaves a Start hosting with the
  credentials of either room. Those of the host's own room fill a guest's
  configuration when its plan fails. The code of a lost room comes back with the
  next full state reply, and the replies to a preview or a public-IP request
  clear it. A failed join leaves the heartbeat off
  (against `docs/TEAM_QUICKSTART.md:140`), and a heartbeat for one room that is
  answered late clears the room made since. A window closed on a start under way
  leaves RelayHost running. The button that refreshes the public IP stays off
  once pressed. A broker with VPS relays whose health check fails is treated as
  one without. `--join` of a VPS room sets no credentials.
* Updater. Whether a game runs is asked before the mirror and not during it.
  `BUILD_INFO.txt` is the first file copied, so a mirror that fails later looks
  like the new version to the next check. The extract directory is never
  emptied: one file too many blocks all later updates of that tag, and a second
  update without a digest unpacks into the directory the first one mirrors. The
  allowlist is the one of the installed launcher.
* Rollback. A sound that a sync has started is not added to the claimed players
  (`sf4e__Game__Battle.cxx:410`, against the comment at 377), so a full manager
  may take it for the next one.

## 5. Fairness

* `SessionLobby`: the game loop steps client and server every frame, so pending
  messages, flushes, the hand-over and the barrier poll are weakly fair. Nobody
  is obliged to press anything or to leave.
* `RelayMatch`: `RegisterWithUdpRelay` probes every few hundred milliseconds
  (weak fairness). A datagram sent again and again gets through (strong fairness
  of its delivery): the network may lose any of them, but not all.
* `GgpoLifecycle`: `TickFrame` runs every frame, and clocks move on.
* `RoomBroker`: Node resumes handlers and the manager answers. The host's
  launcher sends a heartbeat every minute; strong fairness, because the number of
  handlers is a bound of the model and a heartbeat may find none free.
* `Updater`: `Updater.exe`, and the robocopy it waits for, go on running. No
  fairness for the launcher, the game or the player, so that `UpdateEnds` covers
  a launcher that never exits. `PromptSpec` adds that a launcher that said it
  would close does.

`Rollback`, `Desync` and `Launcher` state safety only.

## 6. Proofs

* `SessionLobbyProofs`, for any clients, seats and number of matches:
  `TypeCorrect`; `NobodySeatedTwice` (inductive with `TypeOK`);
  `ViewsConverge`; `ReadyIsOwn`. `ViewConverges` speaks of a client with nothing
  left to poll, so its invariant `ViewInv` says what a client *will* show after
  the updates already under way (`Shows`). `SeatReadyIsOwn` follows a Ready on
  its whole way: pressed, sent, marked on its seat, sent back, shown, withdrawn.
  `ReadyInv` says for each client that these stages exclude each other
  (`PlayerOK`). `ReadyIsOwn` assumes `MayLeave = {}`: with members that leave,
  the property is false (section 4).
  The life of a match, `SetupsAgree`, `GenerationsKnown`, `BarrierIsHeld` and
  `PunchedTogether`, is proved for any number of matches between two
  connections of which none leaves, aborts a match or presses "Report win"
  (`Duo`), and for behaviours in which Ready is pressed in the menu
  (`Unhurried`, which `SameSetup` and `GenerationKnown` include). The invariant
  `LifeInv` has five parts. `Ways`: each client is at one place of the way of
  the last match (start due, loading, punching, waiting, fighting, back), and
  its two queues hold what that place allows, in order. `Barrier`: while the
  server has not heard of everybody's load nobody is let through and no
  BATTLE_SYNCED is due. `Marks`: as long as somebody is on the way to the
  barrier both Ready marks stand, and the marks of the next match belong to
  players whose reset has been handled; so a match starts only when nothing of
  the last one is under way. `Pairs`: a punch flag stands for a player whose
  PUNCH_READY was heard and whose opponent's was not. `Brief`: there is a lobby
  with both Ready marks that every client started from, and later updates agree
  with it for as long as they can reach a battle that loads.
* `RelayMatchProofs`, first of `UdpRelay` alone, for any keys, addresses, ports
  and datagrams: `RelayTypeCorrect`; `RelayComplete` (`ActiveComplete`, with
  `RegisteredMeansBoth` as the second half of the invariant: an SF4R answer
  stands for two registrations of its key); `RelayReplacedWhole` (an action
  property, from the same invariant); `RelayLegacyDistinct`. Then of a room:
  `MatchTypeCorrect`; `MatchImplementsRelay` (every step of
  a room is a step of `RelaySpec` or leaves the relay alone, so the theorems
  above hold in every room); and `NobodyStartsAlone`, `ForwardsForBoth` and
  `NoStrayData`, under the assumption that distinct matches have distinct keys
  (`DistinctKeys`, which `SameKeys` drops) and the players' addresses differ
  (`DistinctAddrs`). The invariant has four parts: `AirInv` (datagrams in flight
  carry their sender's present match and address), `StartInv` (who is recorded
  for a key has entered a match of that key, and an SF4R in flight stands for
  both), `PairInv` (the relay's two endpoints are addresses of the two players)
  and `DataInv` (data is in flight only from one player to the other).
* `RoomBrokerProofs`: `BrokerTypeCorrect`, `PortsAreExclusive`,
  `ReservationsAreHeld` and the action property `OccupiedRoomsStay`, for any
  number of rooms, ports, handlers and faults. The invariants are inductive only
  together and with `Coded` (a handler's code has been drawn): a port is free
  for a new creation because reservations are exactly what creations hold, and a
  creation may free its port because no other holds it.
* `GgpoLifecycleProofs`, for any transports and any bound on the debt:
  `LifecycleTypeCorrect`, `PausesHold`, `FatalIsClosed`, `SessionsHaveBattles`,
  `NothingIsCarriedOver`, `LossIsSound`, and the action properties
  `LossEndsDisconnected` and `GateIsSteady`. Handlers call each other, so the
  invariant is a predicate `Good(a)` on a value of `app`, and there is one lemma
  per operator that says it keeps `Good`; an action combines them. `Good` adds
  to the types: a pause forbids updates and a fatal error leaves no session
  (`Gated`); without a session there is no debt, warning, interruption or stall
  (`Spent`); a deferral with a session means a closing gate (`Deferred`); a
  session in the menu is pending, closing and has a room (`Placed`); a lost room
  implies a fight that does not ride on it (`Degraded`).
* `RollbackProofs`, for any prediction window, tasks, cues, inputs and fights of
  any length: `TypeCorrect`; `SlotAlwaysFree`; `BuffersHaveOneOwner`;
  `RollbackFollowsTimeline`, the refinement of `Timeline`. The invariant `RInv`
  relates three layers. `Memory`: used slots and live keys own every allocated
  buffer once, and a used slot is a whole frame. `InStep`: a position of GGPO's
  ring holds a frame of its residue, the ring refers to exactly the used slots,
  and the state in each is that of the inputs up to its frame. `InTraining`: the
  first slot alone is used. There are as many save
  states as ring positions, and GGPO frees what the position it saves to held:
  that is why one is always free. A used slot is a whole frame: that is why
  loading it gives back the history, hence the state `Timeline` returns to.
* `DesyncProofs`, for any intervals, any ages above twice the prediction window
  and any number of matches of any length: `TypeCorrect` and `HashesAreRight`
  with any spectators; `SnapshotsAreRight` and `DivergenceEndsTheMatch` in a room
  without them, since with one both are false (section 4). The argument: a
  capture is sent when its sender is more than two windows past the frame; so it
  has heard a frame more than one window past it; so the receiver has simulated
  that one; so the receiver has heard the captured frame itself, and neither
  machine captures it again. `DInv` states this as a relation between a player,
  its peer and the messages between them: a capture is what the machine would
  capture now (`Held`), what the peer sent and is not yet compared is final on
  both sides (`Towards`, `Passed`), the announcement of a match follows all
  messages of the one before (`Turn`), what a player no longer waits for was
  compared (`Compared`), and what it waits for is unsent or on its way
  (`OnItsWay`). A tick is taken apart into the messages (one lemma each), the
  reconciliation (`Reconciled`), what is heard (`HeardMoves`) and what is
  captured again (`Retaken`).
* `LauncherProofs`, for any rooms, front ends and number of clicks and ticks:
  `TypeCorrect`, `HeartbeatKept`, `NoRelayHostLeft`, `TokensStayWithTheirRoom`,
  `GameIsConfigured`, `SharedCodeIsHosted`, `ButtonsComeBack`. The invariant
  `LInv` relates window and controller through the two queues between them: a
  button that is off has its request or its reply still under way (`ButtonInv`),
  a code that is shown is the controller's or is about to be replaced
  (`CodeInv`), RelayHost runs only for a launch that was asked for (`HostInv`), a game
  that starts has the whole configuration of its mode (`StartInv`).
* `UpdaterProofs`, for any releases, updaters and power losses:
  `UpdaterTypeCorrect`, `RequiredStays`, `NothingBadInstalled`, and the action
  property `DoneIsComplete`. The invariant adds to what is stated: an updater
  past its validation reads a staging directory with every required file
  (`Staged`); with a digest nothing bad is staged or installed and a verified zip
  is a good one (`Clean`); an updater that is not mirroring has its counters
  reset (`Fresh`); and a mirror without a failure so far has left new files
  behind it (`Progress`), which survives the mirrors of others because with a
  digest all they copy is new.

Constants are constrained only by the named `ASSUME`s of each module and by the
hypotheses named above. Only model-checked: liveness (the prover supports neither
it nor `ENABLED`); the barrier with a spectator and aborts
(`lobby_abort`), and the punch after a hurried Ready (`lobby_rematch`); and
`CuesFollow` and `SurvivorsPlayOn` of `Rollback`, whose sync is a fold over the sounds and so needs induction over
data. What the recursive functions of `Desync` compute (messages handled,
frames captured, frames in order) is proved from a least counterexample instead.

## 7. Running

    tlc -workers 2 -config lobby_rematch.cfg MCSessionLobby
    tlapm RoomBrokerProofs.tla

The MC module of every run is the one named in `PROJECT.json`. The longest runs
are `lobby_rematch` (3 million states) and `launcher` (2.5 million), each about a
minute and a half or less; the longest proof takes about five minutes.

What is left, in this order:

1. `SessionLobby`: an abstract specification of a match (agree, load, fight) and
   its refinement; the life of a match with a third connection and with aborts.
2. `Pacing`: the controller in milliseconds, with an abstract bound on the debt;
   `GgpoTunnel`: the socket pump of `sf4e__GgpoRelay.cxx` between GGPO and the
   session connection.
3. `RoomBroker`: restart of the broker over running relays, the quick-match
   queue, `FORCE_VPS_RELAY=0`.

## 8. Not modelled

* The tunnel's pump (`sf4e__GgpoRelay.cxx`) and the millisecond slicing of
  pacing: planned. `GgpoLifecycle` knows whether a battle uses the tunnel.
* Of the broker: the quick-match queue and restarts (planned); the NAT probe's
  server side, rate limits and the room list, which are bookkeeping.
* The session relay's and RelayHost's process mains: argument parsing and a poll
  loop around the `SessionServer` that is modelled.
* What a memento holds inside and which fields a hash covers: engine data.
* Overlay drawing, engine bindings in `src/Dimps`, the sidecar's entry point,
  UPnP, registry and HTTP helpers and rollback diagnostics have no control state
  that netplay depends on, or are calls into closed libraries.
* `AbortGgpoMatch` inside a GGPO callback closes the session on the stack, and
  the punch loop steps the session client below itself; lifetimes inside one call
  are below the granularity of these models.
* Real spectator sessions save nothing, so `Rollback` has players only.
