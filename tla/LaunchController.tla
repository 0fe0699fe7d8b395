-------------------------- MODULE LaunchController -------------------------
(***************************************************************************)
(* NetplayLaunchController: the object both launcher front ends send their *)
(* messages to.  HandleWebMessage runs one message to its end, so it is a  *)
(* function from the controller's state to the SET of outcomes it can have *)
(* (the calls it makes may fail); an outcome is the next controller state, *)
(* the room the broker has made for it, and the reply (None for none).     *)
(*                                                                         *)
(* b is what the controller meets outside: the broker's rooms (live), the  *)
(* rooms ever made (spent), whether the broker says forceVpsRelay (vps)    *)
(* and SF4E_GGPO_TRANSPORT (env).  Names, delays and round settings are    *)
(* copied from message to settings to config and are left out; of the      *)
(* session port only whether it is the default one is kept.                *)
(***************************************************************************)
EXTENDS ConnectStrategy

\* NetplayConfig, as memset leaves it.  code is the text the player gave;
\* session the endpoint; token, match and port name the room they are of.
NoConfig == [mode |-> "idle", central |-> 0, session |-> None, code |-> None,
             token |-> None, match |-> None, port |-> None, dial |-> None,
             transport |-> 0, role |-> 0]

\* LoadPersistedSettings: what the file says, but a room that an earlier run
\* left there is cleared.
StoredSettings == [simpleUi : BOOLEAN, urlOk : BOOLEAN,
                   relayRoomCode : Rooms \cup {None}]

LoadPersistedSettings(stored) ==
    [simpleUi |-> stored.simpleUi, urlOk |-> stored.urlOk,
     relayRoomCode |-> None, relayHostSecret |-> None,
     lastJoinHost |-> Empty, defaultPort |-> TRUE]

\* The controller's members; relayHost is relay_host_spawn.cxx's process id.
NewController(settings) ==
    [settings |-> settings, creds |-> NoCreds, cfg |-> NoConfig,
     finished |-> FALSE, cancelled |-> FALSE, exitForUpdate |-> FALSE,
     relayHost |-> "none"]

----------------------------------------------------------------------------
(* Replies.  A field that a reply does not carry is None.                  *)

Reply(type) == [type |-> type, simpleUi |-> None, preview |-> None,
                heartbeatOk |-> None, defaultPort |-> None, advertise |-> FALSE,
                available |-> None]
Error == Reply("error")

Maybe(S) == S \cup {None}

\* Every reply the controller can make.
Replies ==
    [type : {"state", "error", "updateCheck", "updateApply", "openedUrl", "copied"},
     simpleUi : Maybe(BOOLEAN), preview : Maybe(Rooms \cup {"address"}),
     heartbeatOk : Maybe(BOOLEAN), defaultPort : Maybe(BOOLEAN),
     advertise : BOOLEAN, available : Maybe(BOOLEAN)]

\* The text "address" is no room, and None is no reply.
ASSUME ReplyAssumption ==
    /\ "address" \notin Rooms \cup {None}
    /\ None \notin Replies

\* roomCodePreview is the room's code while there is one, else an address.
BuildStateJson(c) ==
    [Reply("state") EXCEPT !.simpleUi = c.settings.simpleUi,
                           !.defaultPort = c.settings.defaultPort,
                           !.advertise = TRUE,
                           !.preview = IF c.settings.relayRoomCode # None
                                       THEN c.settings.relayRoomCode
                                       ELSE "address"]

Outcome(c, reply) == [c |-> c, made |-> None, reply |-> reply]

----------------------------------------------------------------------------
(* RelayHost.exe, of which the launcher keeps the process id.  "live": it  *)
(* runs; "dead": it has gone but the id is kept; "none": no id.            *)

StopRelayHost(c) == [c EXCEPT !.relayHost = "none"]

\* Mutant: a RelayHost that was terminated again counts as started.
SpawnRelayHostUnchecked(c) ==
    {[c |-> StopRelayHost(c), ok |-> TRUE],
     [c |-> [StopRelayHost(c) EXCEPT !.relayHost = "live"], ok |-> TRUE]}

\* Within five seconds the port is in use, by whichever process, or the new
\* process has at least lived for 400 ms; or neither.
WaitForLocalTcpPort == BOOLEAN

\* Stops the previous one first; a process that does not listen in time is
\* terminated again.
SpawnRelayHost(c) ==
    {[c |-> IF up THEN [StopRelayHost(c) EXCEPT !.relayHost = "live"]
            ELSE StopRelayHost(c),
      ok |-> up] : up \in WaitForLocalTcpPort}

----------------------------------------------------------------------------
(* GGPO transport of a start through a VPS relay.                          *)

ApplyConnectPlanToConfig(cfg, plan) ==
    IF ~plan.ok THEN cfg
    ELSE [cfg EXCEPT !.transport = plan.transport, !.dial = plan.dial,
                     !.port = plan.port, !.token = plan.token,
                     !.match = plan.match]

\* What was learnt when this launcher made a room fills what the plan left
\* open, and replaces the plan's match id.
FillFromSession(cfg, creds) ==
    LET fillPort == creds.port # None /\ cfg.port = None
    IN  [cfg EXCEPT !.token = IF @ = None THEN creds.token ELSE @,
                    !.match = IF creds.match # None THEN creds.match ELSE @,
                    !.port = IF fillPort THEN creds.port ELSE @,
                    !.dial = IF fillPort THEN "relay" ELSE @]

ConfigureGgpoTransportForRelay(c, b, code, role) ==
    IF b.env = "legacy" THEN {[c EXCEPT !.cfg.transport = 0]}
    ELSE {LET cfg == FillFromSession(ApplyConnectPlanToConfig(c.cfg, plan),
                                     c.creds)
              udp == cfg.transport = 0 /\ cfg.port # None /\ cfg.token # None
          IN  [c EXCEPT !.cfg =
                 [cfg EXCEPT !.transport = CASE b.env = "udp" -> 1
                                             [] b.env = "p2p" -> 2
                                             [] udp -> 1
                                             [] OTHER -> @,
                             !.role = IF role = "host" THEN 1 ELSE 2]] :
          plan \in FetchConnectPlan(code, b.live, b.vps, c.settings.urlOk)}

----------------------------------------------------------------------------
(* "start": the config is cleared, filled by mode, and the launcher is     *)
(* told to finish; every early return leaves finished and cancelled alone. *)

Finish(c) == Outcome([c EXCEPT !.finished = TRUE, !.cancelled = FALSE], None)

StartHostRelay(c, b, m) ==
    LET code == IF m.code # Empty THEN m.code ELSE c.settings.relayRoomCode
        Found(sr, vps) ==
            [c EXCEPT !.settings.relayRoomCode = code,
                      !.cfg.session = sr.endpoint, !.cfg.code = code,
                      !.cfg.central = IF vps THEN 2 ELSE 1]
        Go(c1) ==
            IF c1.cfg.central = 2
            THEN {Finish(c2) :
                     c2 \in ConfigureGgpoTransportForRelay(c1, b, code, "host")}
            ELSE {IF s.ok THEN Finish(s.c) ELSE Outcome(s.c, Error) :
                     s \in SpawnRelayHost(c1)}
    IN  IF code = None THEN {Outcome(c, Error)}
        ELSE UNION {IF sr.ok
                    THEN UNION {Go(Found(sr, vps)) :
                             vps \in FetchBrokerHealth(b.vps, c.settings.urlOk)}
                    ELSE {Outcome(c, Error)} :
                    sr \in ResolveJoinRelayRoom(code, b.live, c.settings.urlOk)}

\* Direct hosting; a UPnP mapping is tried for autoNat and changes nothing here.
StartHostDirect(c) == {Finish([c EXCEPT !.cfg.session = Addr])}

ResolveJoin(c, b, m) ==
    CASE m.method = "matchmaking" -> ResolveJoinMatchmaking(b.live, c.settings.urlOk)
      [] m.method = "autoNat" -> {ResolveJoinAutoNat}
      [] m.method = "relay" -> ResolveJoinRelayRoom(m.target, b.live,
                                                    c.settings.urlOk)
      [] OTHER -> {ResolveJoinDirectIp(m.target)}

\* A TCP connection within five seconds.
ProbeRemoteTcpConnect == BOOLEAN

\* Without a VPS the endpoint of a short code is probed.
ProbeFailures(m, vps) ==
    IF IsShortRoomCode(m.target) /\ ~vps
    THEN {~reached : reached \in ProbeRemoteTcpConnect} ELSE {FALSE}

StartJoin(c, b, m) ==
    LET relay == m.method = "relay"
        Reached(sr, vps) ==
            [c EXCEPT !.cfg.session = sr.endpoint,
                      !.cfg.central =
                          IF vps /\ m.method \in {"relay", "matchmaking"}
                          THEN 2 ELSE 0,
                      !.cfg.code = IF relay THEN m.target ELSE @]
        Configured(c1) ==
            IF c1.cfg.central = 2 /\ relay
            THEN ConfigureGgpoTransportForRelay(c1, b, m.target, "guest")
            ELSE {c1}
        Joined(c2) ==
            Finish([c2 EXCEPT !.settings.lastJoinHost =
                                  IF relay THEN m.target ELSE Addr])
    IN  UNION {IF sr.ok
               THEN UNION {UNION {{IF failed THEN Outcome(c2, Error)
                                   ELSE Joined(c2) :
                                   failed \in ProbeFailures(m, vps)} :
                                  c2 \in Configured(Reached(sr, vps))} :
                           vps \in FetchBrokerHealth(b.vps, c.settings.urlOk)}
               ELSE {Outcome(c, Error)} :
               sr \in ResolveJoin(c, b, m)}

\* Mutant: the config is not cleared.
StartUncleared(c, b, m) ==
    LET c0 == [c EXCEPT !.cfg.mode = m.mode]
    IN  CASE m.mode = "host" /\ m.method = "relay" -> StartHostRelay(c0, b, m)
          [] m.mode = "host" /\ m.method # "relay" -> StartHostDirect(c0)
          [] m.mode = "join" -> StartJoin(c0, b, m)
          [] OTHER -> {Finish(c0)}

HandleStart(c, b, m) ==
    LET c0 == [c EXCEPT !.settings.defaultPort = IF m.mode = "host"
                                                 THEN m.defaultPort ELSE @,
                        !.cfg = [NoConfig EXCEPT !.mode = m.mode]]
    IN  CASE ~m.portOk -> {Outcome(c, Error)}
          [] m.portOk /\ m.mode = "host" /\ m.method = "relay" ->
                 StartHostRelay(c0, b, m)
          [] m.portOk /\ m.mode = "host" /\ m.method # "relay" ->
                 StartHostDirect(c0)
          [] m.portOk /\ m.mode = "join" -> StartJoin(c0, b, m)
          [] OTHER -> {Finish(c0)}

HandleOfflineStart(c) == {Finish([c EXCEPT !.cfg = NoConfig])}

----------------------------------------------------------------------------
(* The other messages.                                                     *)

HandleGetState(c) == {Outcome(c, BuildStateJson(c))}

\* The last known address stands in for one that cannot be fetched; with
\* neither it is an error.
HandleFetchPublicIp(c) ==
    {Outcome(c, Error),
     Outcome(c, [Reply("state") EXCEPT !.advertise = TRUE,
                                       !.preview = "address"])}

HandlePreviewRoomCode(c) ==
    {Outcome(c, [Reply("state") EXCEPT !.preview = "address"])}

HandleSetUiMode(c, m) ==
    LET c1 == [c EXCEPT !.settings.simpleUi = m.simpleUi]
    IN  {Outcome(c1, BuildStateJson(c1))}

HandleSaveSettings(c, m) ==
    IF ~m.urlOk THEN {Outcome(c, Error)}
    ELSE LET c1 == [c EXCEPT !.settings.urlOk = TRUE]
         IN  {Outcome(c1, BuildStateJson(c1))}

\* None: the check failed.
HandleCheckUpdate(c) ==
    {Outcome(c, [Reply("updateCheck") EXCEPT !.available = a]) :
        a \in {TRUE, FALSE, None}}

\* The game runs, the check or the download fails, nothing is newer: an error.
HandleApplyUpdate(c) ==
    {Outcome(c, Error),
     Outcome([c EXCEPT !.exitForUpdate = TRUE], Reply("updateApply"))}

\* Sidecar.dll is hashed, or cannot be read.
HashSidecarDllNextToLauncher == BOOLEAN

\* A VPS relay is asked for with the hash; without it no room is created.
CreateRelayRoomWithAdvertise(c, b) ==
    UNION {IF vps /\ ~hashed
           THEN {[ok |-> FALSE, made |-> None, creds |-> NoCreds]}
           ELSE CreateRelayRoom(b.live, b.spent, b.vps, c.settings.urlOk) :
           vps \in FetchBrokerHealth(b.vps, c.settings.urlOk),
           hashed \in HashSidecarDllNextToLauncher}

\* Mutant: the new code is not stored.
CreateRelayRoomKeepsCode(c, b) ==
    {[c |-> IF r.ok THEN [c EXCEPT !.settings.relayHostSecret = r.made,
                                   !.creds = r.creds] ELSE c,
      made |-> r.made,
      reply |-> IF r.ok THEN [Reply("state") EXCEPT !.preview = r.made]
                ELSE Error] :
     r \in CreateRelayRoomWithAdvertise(c, b)}

\* The room's code, secret and credentials replace those of an earlier room.
HandleCreateRelayRoom(c, b) ==
    {IF r.ok
     THEN [c |-> [c EXCEPT !.settings.relayRoomCode = r.made,
                           !.settings.relayHostSecret = r.made,
                           !.creds = r.creds],
           made |-> r.made,
           reply |-> [Reply("state") EXCEPT !.preview = r.made]]
     ELSE [c |-> c, made |-> r.made, reply |-> Error] :
     r \in CreateRelayRoomWithAdvertise(c, b)}

HandleRelayHeartbeat(c, b, m) ==
    {Outcome(c, [Reply("state") EXCEPT !.heartbeatOk = ok]) :
     ok \in HeartbeatRelayRoom(m.code, c.settings.relayHostSecret, b.live,
                               c.settings.urlOk)}

\* natStatus, a room list or a list error: nothing the window keeps.
HandleTryUpnp(c) == {Outcome(c, Reply("state")) : nat \in TryConfigureHostUpnp}
HandleListRooms(c) == {Outcome(c, Reply("state"))}

\* A disallowed link, or a shell that cannot open it, is an error.
HandleOpenUrl(c) == {Outcome(c, Error), Outcome(c, Reply("openedUrl"))}
HandleCopyText(c) == {Outcome(c, Error), Outcome(c, Reply("copied"))}

HandleCancel(c) ==
    {Outcome([c EXCEPT !.cancelled = TRUE, !.finished = TRUE], None)}

HandleWebMessage(c, b, m) ==
    CASE m.type = "getState" -> HandleGetState(c)
      [] m.type = "fetchPublicIp" -> HandleFetchPublicIp(c)
      [] m.type = "copyText" -> HandleCopyText(c)
      [] m.type = "openUrl" -> HandleOpenUrl(c)
      [] m.type = "previewRoomCode" -> HandlePreviewRoomCode(c)
      [] m.type = "setUiMode" -> HandleSetUiMode(c, m)
      [] m.type = "saveSettings" -> HandleSaveSettings(c, m)
      [] m.type = "checkUpdate" -> HandleCheckUpdate(c)
      [] m.type = "applyUpdate" -> HandleApplyUpdate(c)
      [] m.type = "createRelayRoom" -> HandleCreateRelayRoom(c, b)
      [] m.type = "relayHeartbeat" -> HandleRelayHeartbeat(c, b, m)
      [] m.type = "tryUpnp" -> HandleTryUpnp(c)
      [] m.type = "listRooms" -> HandleListRooms(c)
      [] m.type = "cancel" -> HandleCancel(c)
      [] m.type = "offlineStart" -> HandleOfflineStart(c)
      [] m.type = "start" -> HandleStart(c, b, m)
      [] OTHER -> {Outcome(c, Error)}
============================================================================
