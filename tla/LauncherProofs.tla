--------------------------- MODULE LauncherProofs ---------------------------
(***************************************************************************)
(* Proofs about Launcher, for any rooms, front ends, SF4E_GGPO_TRANSPORT   *)
(* values and any number of clicks and timer ticks.                        *)
(*                                                                         *)
(* LInv is the inductive invariant.  Its conjuncts relate the window on    *)
(* the GUI thread to the controller on the worker thread through the two   *)
(* queues between them: what the window shows or has switched off is       *)
(* either settled in the controller or has its request or its answer still *)
(* under way.  The proofs follow the calls: what each handler of the       *)
(* controller returns (Started, Answered), what each reply does to the     *)
(* window (Received), then one lemma per step.                             *)
(***************************************************************************)
EXTENDS Launcher, SequenceTheorems, TLAPS

(* What the worker queues to the GUI thread besides replies.                *)
Signals == [type : {"exitForUpdate", "launcherFinished"}]

(* The messages that ask for a game.                                        *)
Starts ==
    [type : {"start"}, mode : {"host"}, method : {"relay", "direct", "autoNat"},
     code : Rooms \cup {Empty}, portOk : BOOLEAN, defaultPort : BOOLEAN] \cup
    [type : {"start"}, mode : {"join"},
     method : {"relay", "direct", "matchmaking", "autoNat"},
     target : Texts, portOk : BOOLEAN] \cup
    [type : {"start"}, mode : {"idle"}, portOk : BOOLEAN] \cup
    [type : {"offlineStart"}]

(* The messages that ask for anything else.                                 *)
Others ==
    [type : {"getState", "fetchPublicIp", "tryUpnp", "listRooms", "openUrl",
             "previewRoomCode", "createRelayRoom", "checkUpdate", "applyUpdate",
             "cancel", "copyText", "unknown"}] \cup
    [type : {"relayHeartbeat"}, code : Rooms] \cup
    [type : {"setUiMode"}, simpleUi : BOOLEAN] \cup
    [type : {"saveSettings"}, urlOk : BOOLEAN]

Messages == Starts \cup Others

(* Types: what is outside, the settings, the credentials of a room made     *)
(* here, the config, the controller, the window.                            *)
IsOutside(out) ==
    /\ out = [live |-> out.live, spent |-> out.spent, vps |-> out.vps, env |-> out.env]
    /\ out.live \subseteq out.spent /\ out.spent \subseteq Rooms
    /\ Foreign \subseteq out.spent /\ out.vps \in BOOLEAN

IsSettings(settings) ==
    settings \in [simpleUi : BOOLEAN, urlOk : BOOLEAN, relayRoomCode : Maybe(Rooms),
                  relayHostSecret : Maybe(Rooms), lastJoinHost : Texts,
                  defaultPort : BOOLEAN]

IsCreds(creds) ==
    /\ creds \in [token : Maybe(Rooms), match : Maybe(Rooms), port : Maybe(Rooms)]
    /\ creds.token \notin Foreign

(* A config that holds another player's room token goes to that player's    *)
(* room.                                                                    *)
IsConfig(cfg) ==
    /\ cfg \in [mode : {"idle", "host", "join"}, central : {0, 1, 2},
                session : Maybe(Rooms \cup {Addr}), code : Maybe(Texts),
                token : Maybe(Rooms), match : Maybe(Rooms), port : Maybe(Rooms),
                dial : {"relay", "peer", None}, transport : {0, 1, 2},
                role : {0, 1, 2}]
    /\ cfg.token \in Foreign => cfg.token = NormalizeRelayRoomCode(cfg.code)

IsController(k) ==
    /\ k = [settings |-> k.settings, creds |-> k.creds, cfg |-> k.cfg,
            finished |-> k.finished, cancelled |-> k.cancelled,
            exitForUpdate |-> k.exitForUpdate, relayHost |-> k.relayHost]
    /\ IsSettings(k.settings)
    /\ IsCreds(k.creds)
    /\ IsConfig(k.cfg)
    /\ k.finished \in BOOLEAN /\ k.cancelled \in BOOLEAN /\ k.exitForUpdate \in BOOLEAN
    /\ k.relayHost \in {"none", "live", "dead"}

IsWindow(win) ==
    win \in [simple : BOOLEAN, code : Maybe(Rooms), timer : BOOLEAN,
             startOn : BOOLEAN, createOn : BOOLEAN, joinOn : BOOLEAN,
             busy : BOOLEAN, installShown : BOOLEAN, installOn : BOOLEAN,
             hostMethod : {"relay", "direct", "autoNat"},
             joinMethod : {"relay", "direct"},
             advertiseEmpty : BOOLEAN, defaultPort : BOOLEAN, urlOk : BOOLEAN]

IsHist(h) ==
    h \in [closedByUser : BOOLEAN, createFailed : BOOLEAN, starts : 0 .. 2,
           startSinceArmed : BOOLEAN, launched : BOOLEAN]

(* Types of the whole state.                                                *)
TypeInv ==
    /\ IsOutside(b) /\ IsController(c) /\ IsWindow(w) /\ IsHist(hist)
    /\ toWorker \in Seq(Messages)
    /\ toGui \in Seq(Replies \cup Signals)
    /\ ui \in {"qt", "ipc", "cli"}
    /\ proc \in {"starting", "ui", "closing", "launching", "game", "exited"}
    /\ clicks \in 0 .. MaxClicks

(* The controller has been told to launch.                                  *)
Ready(k) == k.finished /\ ~k.cancelled

(* It has what the mode needs: a session endpoint, and a RelayHost of its   *)
(* own exactly when it is to host here.                                     *)
Configured(k) ==
    /\ k.cfg.mode # "idle" => k.cfg.session # None
    /\ k.cfg.central = 1 <=> k.relayHost # "none"

(* The window is open.                                                      *)
Open == ui = "qt" /\ proc = "ui"

(* Before the first start there is nothing to launch; after one, what is to *)
(* be launched is configured.                                               *)
StartInv ==
    /\ hist.starts = 0 => ~Ready(c) /\ c.relayHost = "none"
    /\ hist.starts = 1 /\ Ready(c) /\ proc \notin {"game", "exited"} => Configured(c)
    /\ proc = "launching" /\ hist.starts < 2 => Configured(c)
    /\ ui = "cli" => c.relayHost = "none"

(* What a sequence holds.                                                   *)
Elems(s) == {s[i] : i \in DOMAIN s}

(* RelayHost runs only for a launch that was asked for, and is cancelled    *)
(* only by a player who closes the window; the launcherFinished signal      *)
(* tells of a controller that has finished.                                 *)
HostInv ==
    /\ c.relayHost = "live" => c.finished /\ (c.cancelled => hist.closedByUser)
    /\ \A m \in Elems(toWorker) : m.type = "cancel" => hist.closedByUser
    /\ \A r \in Elems(toGui) : r.type = "launcherFinished" => c.finished
    /\ ui = "ipc" /\ proc = "ui" => ~c.finished /\ ~c.exitForUpdate
    /\ proc = "starting" => /\ w = NewWindow /\ toGui = <<>> /\ c.relayHost = "none"
                            /\ ~c.finished /\ ~c.exitForUpdate

(* A request of a type waits for the worker; an error or the end waits for  *)
(* the window; a reply shows a code or an address.                          *)
Asks(s, type) == \E m \in Elems(s) : m.type = type
Refuses(s) == \E r \in Elems(s) : r.type \in {"error", "launcherFinished"}
Shown(r) == r.type = "state" /\ r.preview # None

(* A button that is off has its request or an answer that turns it on again *)
(* under way.                                                               *)
ButtonInv ==
    Open => /\ w.joinOn \/ Asks(toWorker, "start") \/ Refuses(toGui)
            /\ w.code = None \/ w.startOn \/ Asks(toWorker, "start") \/ Refuses(toGui)
            /\ w.createOn \/ Asks(toWorker, "createRelayRoom") \/ Refuses(toGui)
                  \/ \E r \in Elems(toGui) : Shown(r)

(* A reply that gives the window a room code.                               *)
Tells(r, code) == r.type = "state" /\ r.preview = code /\ code \in Rooms

(* Before a start, a window that shows another code than the controller's   *)
(* has a reply with that code under way, and after each reply with an old   *)
(* code comes one with the present code.                                    *)
CodeInv ==
    LET code == c.settings.relayRoomCode IN
    Open /\ hist.starts = 0 =>
        /\ \/ w.code \in {None, code}
           \/ \E r \in Elems(toGui) : Tells(r, code)
        /\ \A i \in DOMAIN toGui : toGui[i].type = "state" /\ toGui[i].preview \in Rooms =>
               \E j \in DOMAIN toGui : j >= i /\ Tells(toGui[j], code)

(* The inductive invariant.                                                 *)
LInv == TypeInv /\ StartInv /\ HostInv /\ ButtonInv /\ CodeInv /\ KeepAlive /\ NoOrphan

-----------------------------------------------------------------------------
(* What a start does: an error leaves the flags alone, a success is ready   *)
(* to launch, and configured unless an earlier RelayHost is still there.    *)
Started(k, o) ==
    /\ IsController(o.c) /\ o.c.creds = k.creds
    /\ o.c.exitForUpdate = k.exitForUpdate
    /\ o.made = None
    /\ \/ /\ o.reply = Error
          /\ o.c.finished = k.finished /\ o.c.cancelled = k.cancelled
          /\ o.c.relayHost \in {k.relayHost, "none"}
       \/ /\ o.reply = None /\ Ready(o.c)
          /\ k.relayHost = "none" => Configured(o.c)

(* The cleared config.                                                      *)
LEMMA NoConfigIs == IsConfig(NoConfig) /\ NoConfig.mode = "idle" /\ NoConfig.central = 0
BY RoomsAssumption, LauncherAssumption DEF IsConfig, NoConfig, Maybe, Texts

(* What a connect plan holds: the token is that of the room it was fetched  *)
(* for.                                                                     *)
LEMMA PlanIs ==
    ASSUME NEW t, NEW live \in SUBSET Rooms, NEW vps \in BOOLEAN, NEW urlOk \in BOOLEAN,
           NEW plan \in FetchConnectPlan(t, live, vps, urlOk), plan.ok
    PROVE  /\ plan.transport \in {0, 1, 2}
           /\ plan.dial \in {"relay", "peer", None}
           /\ plan.port \in Maybe(Rooms)
           /\ plan.token = NormalizeRelayRoomCode(t) /\ plan.token \in Rooms
           /\ plan.match \in Rooms
<1> DEFINE Sent(j) == /\ j.transport \in {"legacy_session_tunnel", "udp_relay", "p2p"}
                      /\ j.remote \in {"relay", None} /\ j.host = "relay"
                      /\ j.ggpoPort \in BOOLEAN
<1>1. \A j \in BrokerPlans(vps) : Sent(j)
  <2>1. \A tr \in {"legacy_session_tunnel", "udp_relay", "p2p"}, has \in BOOLEAN :
            Sent(BrokerPlan(tr, has))
    BY DEF BrokerPlan
  <2> HIDE DEF Sent
  <2> QED BY <2>1 DEF BrokerPlans
<1>2. PICK j \in BrokerPlans(vps), r \in BrokerRequest(urlOk, NormalizeRelayRoomCode(t)) \cap live :
          plan = ApplyConnectPlanJson(j, r)
  <2>1. plan # NoPlan
    BY DEF NoPlan
  <2> DEFINE Overlaid(first, probed) ==
                IF probed THEN RegisterEndpoint(first, vps) ELSE {first}
             plans == UNION {Overlaid(first, probed) :
                           first \in BrokerPlans(vps),
                           probed \in SendBrokerNatProbe}
  <2>2. plans \subseteq BrokerPlans(vps)
    BY DEF RegisterEndpoint
  <2>3. plan \in {NoPlan} \cup {ApplyConnectPlanJson(j, r) :
                          j \in plans,
                          r \in BrokerRequest(urlOk, NormalizeRelayRoomCode(t)) \cap live}
    BY DEF FetchConnectPlan
  <2> HIDE DEF plans
  <2>4. PICK j \in plans, r \in BrokerRequest(urlOk, NormalizeRelayRoomCode(t)) \cap live :
            plan = ApplyConnectPlanJson(j, r)
    BY <2>1, <2>3
  <2> QED BY <2>2, <2>4
<1>3. r \in Rooms /\ r = NormalizeRelayRoomCode(t)
  BY RoomsAssumption DEF BrokerRequest, HttpRequest
<1>4. TransportFromString[j.transport] \in {0, 1, 2}
  BY <1>1 DEF TransportFromString
<1>5. /\ plan.transport = TransportFromString[j.transport]
      /\ plan.dial \in {j.remote, j.host}
      /\ plan.port \in {r, None} /\ plan.token = r /\ plan.match = r
  BY <1>1, <1>2, RoomsAssumption DEF ApplyConnectPlanJson
<1> QED BY <1>1, <1>3, <1>4, <1>5 DEF Maybe

(* The controller with another config.                                      *)
LEMMA WithConfigIs ==
    ASSUME NEW k, IsController(k), NEW cfg, IsConfig(cfg)
    PROVE  LET r == [k EXCEPT !.cfg = cfg] IN
           /\ IsController(r) /\ r.cfg = cfg
           /\ r.settings = k.settings /\ r.creds = k.creds /\ r.relayHost = k.relayHost
           /\ r.finished = k.finished /\ r.cancelled = k.cancelled
           /\ r.exitForUpdate = k.exitForUpdate
BY DEF IsController


(* FillFromSession keeps the token rule: what it adds is of a room made     *)
(* here.                                                                    *)
LEMMA FillIs ==
    ASSUME NEW cfg, IsConfig(cfg), NEW creds, IsCreds(creds)
    PROVE  LET r == FillFromSession(cfg, creds) IN
           /\ IsConfig(r) /\ r.mode = cfg.mode /\ r.session = cfg.session
           /\ r.central = cfg.central /\ r.code = cfg.code
<1> DEFINE fillPort == creds.port # None /\ cfg.port = None
           x1 == [cfg EXCEPT !.token = IF @ = None THEN creds.token ELSE @]
           x2 == [x1 EXCEPT !.match = IF creds.match # None THEN creds.match ELSE @]
           x3 == [x2 EXCEPT !.port = IF fillPort THEN creds.port ELSE @]
           x4 == [x3 EXCEPT !.dial = IF fillPort THEN "relay" ELSE @]
           Same(x) == /\ IsConfig(x) /\ x.mode = cfg.mode /\ x.session = cfg.session
                      /\ x.central = cfg.central /\ x.code = cfg.code
<1>1. FillFromSession(cfg, creds) = x4
  BY DEF FillFromSession
<1>2. Same(x1)
  BY DEF IsConfig, IsCreds
<1> HIDE DEF x1
<1>3. Same(x2)
  BY <1>2 DEF IsConfig, IsCreds
<1> HIDE DEF x2
<1>4. Same(x3)
  BY <1>3 DEF IsConfig, IsCreds
<1> HIDE DEF x3
<1>5. Same(x4)
  BY <1>4 DEF IsConfig
<1> QED BY <1>1, <1>5

(* ApplyConnectPlanToConfig keeps the token rule when the plan is that of   *)
(* the config's code.                                                       *)
LEMMA ApplyPlanIs ==
    ASSUME NEW cfg, IsConfig(cfg), NEW live \in SUBSET Rooms, NEW vps \in BOOLEAN,
           NEW urlOk \in BOOLEAN,
           NEW plan \in FetchConnectPlan(cfg.code, live, vps, urlOk)
    PROVE  LET r == ApplyConnectPlanToConfig(cfg, plan) IN
           /\ IsConfig(r) /\ r.mode = cfg.mode /\ r.session = cfg.session
           /\ r.central = cfg.central /\ r.code = cfg.code
<1> DEFINE x1 == [cfg EXCEPT !.transport = plan.transport, !.dial = plan.dial]
           x2 == [x1 EXCEPT !.port = plan.port]
           x3 == [x2 EXCEPT !.token = plan.token]
           x4 == [x3 EXCEPT !.match = plan.match]
           Same(x) == /\ IsConfig(x) /\ x.mode = cfg.mode /\ x.session = cfg.session
                      /\ x.central = cfg.central /\ x.code = cfg.code
<1>1. CASE ~plan.ok
  BY <1>1 DEF ApplyConnectPlanToConfig
<1>2. CASE plan.ok
  <2>1. ApplyConnectPlanToConfig(cfg, plan) = x4
    BY <1>2 DEF ApplyConnectPlanToConfig
  <2>2. /\ plan.transport \in {0, 1, 2}
        /\ plan.dial \in {"relay", "peer", None}
        /\ plan.port \in Maybe(Rooms)
        /\ plan.token = NormalizeRelayRoomCode(cfg.code) /\ plan.token \in Rooms
        /\ plan.match \in Rooms
    BY <1>2, PlanIs
  <2>3. Same(x1)
    BY <2>2 DEF IsConfig
  <2> HIDE DEF x1
  <2>4. Same(x2)
    BY <2>2, <2>3 DEF IsConfig
  <2> HIDE DEF x2
  <2>5. Same(x3)
    BY <2>2, <2>4 DEF IsConfig, Maybe
  <2> HIDE DEF x3
  <2>6. Same(x4)
    BY <2>2, <2>5 DEF IsConfig, Maybe
  <2> QED BY <2>1, <2>6
<1> QED BY <1>1, <1>2

(* ConfigureGgpoTransportForRelay changes only the transport part of the    *)
(* config.                                                                  *)
LEMMA ConfigureIs ==
    ASSUME NEW k, IsController(k), NEW out, IsOutside(out),
           NEW role,
           NEW r \in ConfigureGgpoTransportForRelay(k, out, k.cfg.code, role)
    PROVE  /\ IsController(r)
           /\ r.cfg.mode = k.cfg.mode /\ r.cfg.session = k.cfg.session
           /\ r.cfg.central = k.cfg.central
           /\ r.settings = k.settings /\ r.creds = k.creds /\ r.relayHost = k.relayHost
           /\ r.finished = k.finished /\ r.cancelled = k.cancelled
           /\ r.exitForUpdate = k.exitForUpdate
<1>1. CASE out.env = "legacy"
  <2>1. r = [k EXCEPT !.cfg.transport = 0]
    BY <1>1 DEF ConfigureGgpoTransportForRelay
  <2>2. r = [k EXCEPT !.cfg = [k.cfg EXCEPT !.transport = 0]]
    BY <2>1
  <2>3. IsConfig([k.cfg EXCEPT !.transport = 0])
    BY DEF IsController, IsConfig
  <2> QED BY <2>2, <2>3, WithConfigIs DEF IsController, IsConfig
<1>2. CASE out.env # "legacy"
  <2> DEFINE cfgOf(plan) == FillFromSession(ApplyConnectPlanToConfig(k.cfg, plan), k.creds)
  <2>1. PICK plan \in FetchConnectPlan(k.cfg.code, out.live, out.vps, k.settings.urlOk) :
           LET filled == cfgOf(plan)
               udp == filled.transport = 0 /\ filled.port # None /\ filled.token # None
           IN r = [k EXCEPT !.cfg =
               [filled EXCEPT !.transport = CASE out.env = "udp" -> 1
                                           [] out.env = "p2p" -> 2
                                           [] udp -> 1
                                           [] OTHER -> @,
                           !.role = IF role = "host" THEN 1 ELSE 2]]
    BY <1>2 DEF ConfigureGgpoTransportForRelay
  <2>2. IsConfig(cfgOf(plan)) /\ cfgOf(plan).mode = k.cfg.mode
        /\ cfgOf(plan).session = k.cfg.session /\ cfgOf(plan).central = k.cfg.central
    <3> DEFINE applied == ApplyConnectPlanToConfig(k.cfg, plan)
    <3>1. IsConfig(k.cfg) /\ IsCreds(k.creds) /\ out.live \in SUBSET Rooms
          /\ out.vps \in BOOLEAN /\ k.settings.urlOk \in BOOLEAN
      BY DEF IsController, IsOutside, IsSettings
    <3>2. IsConfig(applied) /\ applied.mode = k.cfg.mode /\ applied.session = k.cfg.session
          /\ applied.central = k.cfg.central
      BY <3>1, ApplyPlanIs
    <3> HIDE DEF applied
    <3>3. LET f == FillFromSession(applied, k.creds) IN
          IsConfig(f) /\ f.mode = k.cfg.mode /\ f.session = k.cfg.session
          /\ f.central = k.cfg.central
      BY <3>1, <3>2, FillIs
    <3> QED BY <3>3 DEF applied
  <2> HIDE DEF cfgOf
  <2>3. PICK n \in {0, 1, 2}, h \in {1, 2} :
            r = [k EXCEPT !.cfg = [cfgOf(plan) EXCEPT !.transport = n, !.role = h]]
    <3>1. cfgOf(plan).transport \in {0, 1, 2}
      BY <2>2 DEF IsConfig
    <3> DEFINE filled == cfgOf(plan)
               udp == filled.transport = 0 /\ filled.port # None /\ filled.token # None
               n == CASE out.env = "udp" -> 1
                      [] out.env = "p2p" -> 2
                      [] udp -> 1
                      [] OTHER -> filled.transport
               h == IF role = "host" THEN 1 ELSE 2
    <3>2. n \in {0, 1, 2} /\ h \in {1, 2}
      BY <3>1
    <3>3. r = [k EXCEPT !.cfg = [filled EXCEPT !.transport = n, !.role = h]]
      BY <2>1
    <3> HIDE DEF n, h
    <3> QED BY <3>2, <3>3
  <2> DEFINE cfg == [cfgOf(plan) EXCEPT !.transport = n, !.role = h]
  <2>4. IsConfig(cfg) /\ cfg.mode = k.cfg.mode /\ cfg.session = k.cfg.session
        /\ cfg.central = k.cfg.central
    BY <2>2 DEF IsConfig
  <2>5. r = [k EXCEPT !.cfg = cfg]
    BY <2>3
  <2> HIDE DEF cfg
  <2> QED BY <2>4, <2>5, WithConfigIs
<1> QED BY <1>1, <1>2

(* The end of a start that succeeds, and an error.                          *)
LEMMA FinishIs ==
    ASSUME NEW k, IsController(k)
    PROVE  LET o == Finish(k) IN
           /\ IsController(o.c) /\ Ready(o.c) /\ o.made = None /\ o.reply = None
           /\ o.c.cfg = k.cfg /\ o.c.settings = k.settings /\ o.c.creds = k.creds
           /\ o.c.relayHost = k.relayHost /\ o.c.exitForUpdate = k.exitForUpdate
BY DEF IsController, Finish, Outcome, Ready

LEMMA ErrorIs ==
    /\ Error \in Replies /\ Error # None /\ Error.type = "error"
    /\ \A k : Outcome(k, Error).c = k /\ Outcome(k, Error).made = None
              /\ Outcome(k, Error).reply = Error
<1>1. Error \in Replies /\ Error.type = "error"
  BY DEF Error, Reply, Replies, Maybe
<1>2. \A k : Outcome(k, Error).c = k /\ Outcome(k, Error).made = None
              /\ Outcome(k, Error).reply = Error
  BY DEF Outcome
<1> QED BY <1>1, <1>2, ReplyAssumption

(* SpawnRelayHost leaves a RelayHost exactly when it succeeds.              *)
LEMMA SpawnIs ==
    ASSUME NEW k, IsController(k), NEW s \in SpawnRelayHost(k)
    PROVE  /\ IsController(s.c) /\ s.c.relayHost = IF s.ok THEN "live" ELSE "none"
           /\ s.c.cfg = k.cfg /\ s.c.settings = k.settings /\ s.c.creds = k.creds
           /\ s.c.finished = k.finished /\ s.c.cancelled = k.cancelled
           /\ s.c.exitForUpdate = k.exitForUpdate
<1>1. PICK up \in BOOLEAN :
          s = [c |-> IF up THEN [StopRelayHost(k) EXCEPT !.relayHost = "live"]
                     ELSE StopRelayHost(k), ok |-> up]
  BY DEF SpawnRelayHost, WaitForLocalTcpPort
<1>2. CASE up
  BY <1>1, <1>2 DEF IsController, StopRelayHost
<1>3. CASE ~up
  BY <1>1, <1>3 DEF IsController, StopRelayHost
<1> QED BY <1>2, <1>3

(* The controller with other settings.                                      *)
LEMMA WithSettingsIs ==
    ASSUME NEW k, IsController(k), NEW s, IsSettings(s)
    PROVE  LET r == [k EXCEPT !.settings = s] IN
           /\ IsController(r) /\ r.settings = s
           /\ r.cfg = k.cfg /\ r.creds = k.creds /\ r.relayHost = k.relayHost
           /\ r.finished = k.finished /\ r.cancelled = k.cancelled
           /\ r.exitForUpdate = k.exitForUpdate
BY DEF IsController

(* What a start whose configuration was cleared may still be.               *)
Cleared(k, k0) ==
    /\ IsController(k0) /\ k0.creds = k.creds /\ k0.cfg.token = None
    /\ k0.exitForUpdate = k.exitForUpdate
    /\ k0.finished = k.finished /\ k0.cancelled = k.cancelled
    /\ k0.relayHost = k.relayHost

(* The kinds of start.                                                      *)
LEMMA StartHostDirectIs ==
    ASSUME NEW k, NEW k0, Cleared(k, k0), k0.cfg.central = 0,
           NEW o \in StartHostDirect(k0)
    PROVE  Started(k, o)
<1> DEFINE cfg == [k0.cfg EXCEPT !.session = Addr]
           k1 == [k0 EXCEPT !.cfg = cfg]
<1>1. o = Finish(k1)
  BY DEF StartHostDirect
<1>2. IsConfig(cfg) /\ cfg.central = 0 /\ cfg.session = Addr /\ cfg.token = None
  BY DEF Cleared, IsController, IsConfig, Maybe
<1> HIDE DEF cfg
<1>3. Cleared(k, k1) /\ k1.cfg = cfg
  BY <1>2, WithConfigIs DEF Cleared
<1> HIDE DEF k1
<1> QED BY <1>1, <1>2, <1>3, FinishIs, RoomsAssumption DEF Cleared, Started, Configured

(* A room that resolves gives its endpoint.                                 *)
LEMMA ResolveIs ==
    ASSUME NEW t, NEW live \in SUBSET Rooms, NEW urlOk,
           NEW sr \in ResolveJoinRelayRoom(t, live, urlOk), sr.ok
    PROVE  sr.endpoint \in Rooms
<1>1. sr # Failed
  BY DEF Failed
<1>2. PICK r \in live : sr = Resolved(r)
  BY <1>1 DEF ResolveJoinRelayRoom
<1> QED BY <1>2 DEF Resolved

LEMMA StartHostRelayIs ==
    ASSUME NEW k, NEW k0, Cleared(k, k0), k0.cfg.central = 0, NEW out, IsOutside(out),
           NEW m \in Messages, m.code \in Rooms \cup {Empty},
           NEW o \in StartHostRelay(k0, out, m)
    PROVE  Started(k, o)
<1> DEFINE code == IF m.code # Empty THEN m.code ELSE k0.settings.relayRoomCode
           Found(sr, vps) ==
              [k0 EXCEPT !.settings.relayRoomCode = code,
                         !.cfg.session = sr.endpoint, !.cfg.code = code,
                         !.cfg.central = IF vps THEN 2 ELSE 1]
           Go(c1) ==
              IF c1.cfg.central = 2
              THEN {Finish(c2) :
                     c2 \in ConfigureGgpoTransportForRelay(c1, out, code, "host")}
              ELSE {IF s.ok THEN Finish(s.c) ELSE Outcome(s.c, Error) :
                     s \in SpawnRelayHost(c1)}
<1>1. o = Outcome(k0, Error) => Started(k, o)
  BY ErrorIs DEF Cleared, Started
<1>2. CASE o = Outcome(k0, Error)
  BY <1>1, <1>2
<1>3. CASE o # Outcome(k0, Error)
  <2>1. o \in UNION {IF sr.ok
                    THEN UNION {Go(Found(sr, vps)) :
                             vps \in FetchBrokerHealth(out.vps, k0.settings.urlOk)}
                    ELSE {Outcome(k0, Error)} :
                    sr \in ResolveJoinRelayRoom(code, out.live, k0.settings.urlOk)}
        /\ code # None
    BY <1>3 DEF StartHostRelay
  <2> HIDE DEF Go, Found
  <2>2. PICK sr \in ResolveJoinRelayRoom(code, out.live, k0.settings.urlOk) :
           sr.ok /\ o \in UNION {Go(Found(sr, vps)) :
                             vps \in FetchBrokerHealth(out.vps, k0.settings.urlOk)}
    BY <1>3, <2>1
  <2>3. PICK vps \in FetchBrokerHealth(out.vps, k0.settings.urlOk) : o \in Go(Found(sr, vps))
    BY <2>2
  <2>4. sr.endpoint \in Rooms
    BY <2>2, ResolveIs DEF IsOutside
  <2>5. code \in Rooms
    BY <2>1, RoomsAssumption DEF Cleared, IsController, IsSettings, Maybe
  <2> DEFINE settings == [k0.settings EXCEPT !.relayRoomCode = code]
             x1 == [k0.cfg EXCEPT !.session = sr.endpoint]
             x2 == [x1 EXCEPT !.code = code]
             x3 == [x2 EXCEPT !.central = IF vps THEN 2 ELSE 1]
             k1 == [k0 EXCEPT !.settings = settings]
             k2 == [k1 EXCEPT !.cfg = x3]
  <2>6. Found(sr, vps) = k2
    BY DEF Found
  <2>7. /\ IsConfig(x3) /\ x3.session = sr.endpoint /\ x3.code = code /\ x3.token = None
        /\ x3.central = IF vps THEN 2 ELSE 1
    <3>1. None \notin Foreign /\ IsConfig(k0.cfg) /\ k0.cfg.token = None
      BY RoomsAssumption, LauncherAssumption DEF Cleared, IsController
    <3>2. IsConfig(x1) /\ x1.session = sr.endpoint /\ x1.token = None
      BY <2>4, <3>1 DEF IsConfig, Maybe
    <3> HIDE DEF x1
    <3>3. IsConfig(x2) /\ x2.session = sr.endpoint /\ x2.token = None /\ x2.code = code
      BY <2>5, <3>1, <3>2 DEF IsConfig, Maybe, Texts
    <3> HIDE DEF x2
    <3> QED BY <3>1, <3>3 DEF IsConfig
  <2> HIDE DEF x3
  <2>8. IsSettings(settings)
    BY <2>5 DEF Cleared, IsController, IsSettings, Maybe
  <2> HIDE DEF settings
  <2>9. Cleared(k, k1) /\ k1.cfg = k0.cfg
    BY <2>8, WithSettingsIs DEF Cleared
  <2> HIDE DEF k1
  <2>10. Cleared(k, k2) /\ k2.cfg = x3
    BY <2>7, <2>9, WithConfigIs DEF Cleared
  <2> HIDE DEF k2
  <2>11. o \in Go(k2) /\ k2.cfg.session # None /\ k2.cfg.code = code
    BY <2>3, <2>4, <2>6, <2>7, <2>10, RoomsAssumption
  <2>12. CASE k2.cfg.central = 2
    <3>1. PICK c2 \in ConfigureGgpoTransportForRelay(k2, out, k2.cfg.code, "host") : o = Finish(c2)
      BY <2>11, <2>12 DEF Go
    <3>2. /\ IsController(c2) /\ c2.cfg.session = k2.cfg.session /\ c2.cfg.central = 2
          /\ c2.creds = k2.creds /\ c2.relayHost = k2.relayHost
          /\ c2.exitForUpdate = k2.exitForUpdate
      BY <2>10, <2>12, <3>1, ConfigureIs DEF Cleared
    <3> QED BY <3>1, <3>2, <2>10, <2>11, FinishIs DEF Cleared, Started, Configured
  <2>13. CASE k2.cfg.central # 2
    <3>1. k2.cfg.central = 1
      BY <2>7, <2>10, <2>13
    <3>2. PICK s \in SpawnRelayHost(k2) : o = IF s.ok THEN Finish(s.c) ELSE Outcome(s.c, Error)
      BY <2>11, <2>13 DEF Go
    <3>3. /\ IsController(s.c) /\ s.c.relayHost = IF s.ok THEN "live" ELSE "none"
          /\ s.c.cfg = k2.cfg /\ s.c.creds = k2.creds
          /\ s.c.finished = k2.finished /\ s.c.cancelled = k2.cancelled
          /\ s.c.exitForUpdate = k2.exitForUpdate
      BY <2>10, <3>2, SpawnIs DEF Cleared
    <3>4. CASE s.ok
      BY <3>1, <3>2, <3>3, <3>4, <2>10, <2>11, FinishIs DEF Cleared, Started, Configured
    <3>5. CASE ~s.ok
      BY <3>2, <3>3, <3>5, <2>10, ErrorIs DEF Cleared, Started
    <3> QED BY <3>4, <3>5
  <2> QED BY ONLY SMTT(30), <2>12, <2>13
<1> QED BY <1>2, <1>3

LEMMA ResolveJoinIs ==
    ASSUME NEW k, IsController(k), NEW out, IsOutside(out),
           NEW m \in Messages, m.target \in Texts,
           NEW sr \in ResolveJoin(k, out, m), sr.ok
    PROVE  sr.endpoint \in Rooms \cup {Addr}
<1>1. out.live \in SUBSET Rooms
  BY DEF IsOutside
<1>2. CASE m.method = "matchmaking"
  <2>1. sr # Failed
    BY DEF Failed
  <2>2. PICK r \in out.live : sr \in ResolveJoinRelayRoom(r, out.live, k.settings.urlOk)
    <3>1. sr \in ResolveJoinMatchmaking(out.live, k.settings.urlOk)
      BY <1>2 DEF ResolveJoin
    <3> QED BY <2>1, <3>1 DEF ResolveJoinMatchmaking
  <2> QED BY <1>1, <2>2, ResolveIs
<1>3. CASE m.method = "autoNat"
  BY <1>3 DEF ResolveJoin, ResolveJoinAutoNat, Failed
<1>4. CASE m.method = "relay"
  BY <1>1, <1>4, ResolveIs DEF ResolveJoin
<1>5. CASE m.method \notin {"matchmaking", "autoNat", "relay"}
  <2>1. sr = ResolveJoinDirectIp(m.target)
    BY <1>5 DEF ResolveJoin
  <2> QED BY <2>1, RoomsAssumption DEF ResolveJoinDirectIp, Failed, Resolved, ParseRoomCode
<1> QED BY <1>2, <1>3, <1>4, <1>5

LEMMA StartJoinIs ==
    ASSUME NEW k, NEW k0, Cleared(k, k0), k0.cfg.central = 0, NEW out, IsOutside(out),
           NEW m \in Messages, m.target \in Texts,
           NEW o \in StartJoin(k0, out, m)
    PROVE  Started(k, o)
<1> DEFINE relay == m.method = "relay"
           Reached(sr, vps) ==
            [k0 EXCEPT !.cfg.session = sr.endpoint,
                      !.cfg.central =
                          IF vps /\ m.method \in {"relay", "matchmaking"}
                          THEN 2 ELSE 0,
                      !.cfg.code = IF relay THEN m.target ELSE @]
           Configurations(c1) ==
            IF c1.cfg.central = 2 /\ relay
            THEN ConfigureGgpoTransportForRelay(c1, out, m.target, "guest")
            ELSE {c1}
           Joined(c2) ==
            Finish([c2 EXCEPT !.settings.lastJoinHost =
                                  IF relay THEN m.target ELSE Addr])
<1>1. CASE o = Outcome(k0, Error)
  BY <1>1, ErrorIs DEF Cleared, Started
<1>2. CASE o # Outcome(k0, Error)
  <2>1. o \in UNION {IF sr.ok
               THEN UNION {UNION {{IF failed THEN Outcome(c2, Error)
                                   ELSE Joined(c2) :
                                   failed \in ProbeFailures(m, vps)} :
                                  c2 \in Configurations(Reached(sr, vps))} :
                           vps \in FetchBrokerHealth(out.vps, k0.settings.urlOk)}
               ELSE {Outcome(k0, Error)} :
               sr \in ResolveJoin(k0, out, m)}
    BY DEF StartJoin
  <2> HIDE DEF Reached, Configurations, Joined
  <2>2. PICK sr \in ResolveJoin(k0, out, m) : sr.ok
           /\ o \in UNION {UNION {{IF failed THEN Outcome(c2, Error)
                                   ELSE Joined(c2) :
                                   failed \in ProbeFailures(m, vps)} :
                                  c2 \in Configurations(Reached(sr, vps))} :
                           vps \in FetchBrokerHealth(out.vps, k0.settings.urlOk)}
    BY <1>2, <2>1
  <2>3. PICK vps \in FetchBrokerHealth(out.vps, k0.settings.urlOk) :
           o \in UNION {{IF failed THEN Outcome(c2, Error)
                                   ELSE Joined(c2) :
                                   failed \in ProbeFailures(m, vps)} :
                                  c2 \in Configurations(Reached(sr, vps))}
    BY <2>2
  <2>4. PICK c2 \in Configurations(Reached(sr, vps)) :
            o \in {Outcome(c2, Error), Joined(c2)}
    BY <2>3
  <2>5. sr.endpoint \in Rooms \cup {Addr}
    BY <2>2, ResolveJoinIs DEF Cleared
  <2> DEFINE n == IF vps /\ m.method \in {"relay", "matchmaking"} THEN 2 ELSE 0
             x1 == [k0.cfg EXCEPT !.session = sr.endpoint]
             x2 == [x1 EXCEPT !.central = n]
             x3 == [x2 EXCEPT !.code = IF relay THEN m.target ELSE @]
             k1 == [k0 EXCEPT !.cfg = x3]
  <2>6. Reached(sr, vps) = k1
    BY ZenonT(60) DEF Reached
  <2>7. /\ IsConfig(x3) /\ x3.session = sr.endpoint /\ x3.token = None
        /\ x3.central \in {0, 2} /\ (relay => x3.code = m.target)
    <3>1. None \notin Foreign /\ IsConfig(k0.cfg) /\ k0.cfg.token = None
      BY RoomsAssumption, LauncherAssumption DEF Cleared, IsController
    <3>2. IsConfig(x1) /\ x1.session = sr.endpoint /\ x1.token = None
      BY <2>5, <3>1 DEF IsConfig, Maybe
    <3> HIDE DEF x1
    <3>3. IsConfig(x2) /\ x2.session = sr.endpoint /\ x2.token = None /\ x2.central \in {0, 2}
      BY <3>1, <3>2 DEF IsConfig
    <3> HIDE DEF x2
    <3> QED BY <3>1, <3>3 DEF IsConfig, Maybe
  <2> HIDE DEF x3
  <2>8. Cleared(k, k1) /\ k1.cfg = x3
    BY <2>7, WithConfigIs DEF Cleared
  <2> HIDE DEF k1
  <2>9. /\ IsController(c2) /\ c2.cfg.session = sr.endpoint /\ c2.cfg.central \in {0, 2}
        /\ c2.creds = k.creds /\ c2.relayHost = k.relayHost
        /\ c2.finished = k.finished /\ c2.cancelled = k.cancelled
        /\ c2.exitForUpdate = k.exitForUpdate
    <3>1. CASE k1.cfg.central = 2 /\ relay
      <4>1. c2 \in ConfigureGgpoTransportForRelay(k1, out, k1.cfg.code, "guest")
        BY <2>4, <2>6, <2>7, <2>8, <3>1 DEF Configurations
      <4> QED BY <2>7, <2>8, <4>1, ConfigureIs DEF Cleared
    <3>2. CASE ~(k1.cfg.central = 2 /\ relay)
      <4>1. c2 = k1
        BY <2>4, <2>6, <3>2 DEF Configurations
      <4> QED BY <2>7, <2>8, <4>1 DEF Cleared
    <3> QED BY <3>1, <3>2
  <2>10. CASE o = Outcome(c2, Error)
    BY <2>9, <2>10, ErrorIs DEF Started
  <2>11. CASE o = Joined(c2)
    <3> DEFINE settings == [c2.settings EXCEPT !.lastJoinHost = IF relay THEN m.target ELSE Addr]
               k3 == [c2 EXCEPT !.settings = settings]
    <3>1. o = Finish(k3)
      BY <2>11 DEF Joined
    <3>2. IsSettings(settings)
      BY <2>9 DEF IsController, IsSettings, Texts
    <3> HIDE DEF settings
    <3>3. IsController(k3) /\ k3.cfg = c2.cfg /\ k3.creds = c2.creds
          /\ k3.relayHost = c2.relayHost /\ k3.exitForUpdate = c2.exitForUpdate
      BY <2>9, <3>2, WithSettingsIs
    <3> HIDE DEF k3
    <3>4. sr.endpoint # None
      BY <2>5, RoomsAssumption
    <3> QED BY <3>1, <3>3, <3>4, <2>9, FinishIs DEF Started, Configured
  <2> QED BY ONLY SMTT(30), <2>4, <2>10, <2>11
<1> QED BY <1>1, <1>2

(* Every start.                                                             *)
LEMMA StartIs ==
    ASSUME NEW k, IsController(k), NEW out, IsOutside(out), NEW m \in Starts,
           NEW o \in HandleWebMessage(k, out, m)
    PROVE  Started(k, o)
<1>1. CASE m.type = "offlineStart"
  <2> DEFINE k1 == [k EXCEPT !.cfg = NoConfig]
  <2>1. o = Finish(k1)
    BY <1>1 DEF HandleWebMessage, HandleOfflineStart
  <2>2. Cleared(k, k1) /\ k1.cfg = NoConfig
    BY NoConfigIs, WithConfigIs DEF Cleared, NoConfig
  <2> HIDE DEF k1
  <2> QED BY <2>1, <2>2, NoConfigIs, FinishIs DEF Cleared, Started, Configured
<1>2. CASE m.type # "offlineStart"
  <2>1. /\ m.type = "start" /\ m.mode \in {"host", "join", "idle"} /\ m.portOk \in BOOLEAN
        /\ m \in Messages
        /\ m.mode = "host" => m.code \in Rooms \cup {Empty} /\ m.defaultPort \in BOOLEAN
        /\ m.mode = "join" => m.target \in Texts
    BY <1>2 DEF Starts, Messages
  <2> DEFINE settings == [k.settings EXCEPT !.defaultPort = IF m.mode = "host"
                                                           THEN m.defaultPort ELSE @]
             cfg == [NoConfig EXCEPT !.mode = m.mode]
             k1 == [k EXCEPT !.settings = settings]
             k0 == [k1 EXCEPT !.cfg = cfg]
  <2>2. o \in CASE ~m.portOk -> {Outcome(k, Error)}
          [] m.portOk /\ m.mode = "host" /\ m.method = "relay" ->
                 StartHostRelay(k0, out, m)
          [] m.portOk /\ m.mode = "host" /\ m.method # "relay" ->
                 StartHostDirect(k0)
          [] m.portOk /\ m.mode = "join" -> StartJoin(k0, out, m)
          [] OTHER -> {Finish(k0)}
    BY <2>1 DEF HandleWebMessage, HandleStart
  <2>3. IsSettings(settings)
    BY <2>1 DEF IsController, IsSettings
  <2> HIDE DEF settings
  <2>4. IsConfig(cfg) /\ cfg.token = None /\ cfg.central = 0 /\ cfg.mode = m.mode
    BY <2>1, NoConfigIs DEF IsConfig, NoConfig
  <2> HIDE DEF cfg
  <2>5. /\ IsController(k1) /\ k1.creds = k.creds /\ k1.relayHost = k.relayHost
        /\ k1.finished = k.finished /\ k1.cancelled = k.cancelled
        /\ k1.exitForUpdate = k.exitForUpdate
    BY <2>3, WithSettingsIs
  <2> HIDE DEF k1
  <2>6. Cleared(k, k0) /\ k0.cfg = cfg
    BY <2>4, <2>5, WithConfigIs DEF Cleared
  <2> HIDE DEF k0
  <2>7. CASE ~m.portOk
    BY <2>2, <2>7, ErrorIs DEF Started
  <2>8. CASE m.portOk /\ m.mode = "host" /\ m.method = "relay"
    BY <2>1, <2>2, <2>4, <2>6, <2>8, StartHostRelayIs
  <2>9. CASE m.portOk /\ m.mode = "host" /\ m.method # "relay"
    BY <2>1, <2>2, <2>4, <2>6, <2>9, StartHostDirectIs
  <2>10. CASE m.portOk /\ m.mode = "join"
    BY <2>1, <2>2, <2>4, <2>6, <2>10, StartJoinIs
  <2>11. CASE m.portOk /\ m.mode = "idle"
    <3>1. o = Finish(k0)
      BY <2>2, <2>11
    <3>2. /\ IsController(o.c) /\ Ready(o.c) /\ o.made = None /\ o.reply = None
          /\ o.c.cfg = cfg /\ o.c.creds = k.creds /\ o.c.relayHost = k.relayHost
          /\ o.c.exitForUpdate = k.exitForUpdate
      BY <2>6, <3>1, FinishIs DEF Cleared
    <3> QED BY <2>4, <2>11, <3>2 DEF Started, Configured
  <2> QED BY <2>1, <2>7, <2>8, <2>9, <2>10, <2>11
<1> QED BY <1>1, <1>2

(* What any other message does.                                             *)
Answered(k, out, m, o) ==
    /\ IsController(o.c) /\ o.c.cfg = k.cfg /\ o.c.relayHost = k.relayHost
    /\ o.made \in Maybe(Rooms)
    /\ o.reply \in Maybe(Replies)
    /\ IF m.type = "cancel" THEN o.c.finished /\ o.c.cancelled
       ELSE o.c.finished = k.finished /\ o.c.cancelled = k.cancelled
    /\ LET code == o.c.settings.relayRoomCode IN
       /\ code = k.settings.relayRoomCode \/ (o.reply # None /\ Tells(o.reply, code))
       /\ o.reply # None /\ o.reply.type = "state" /\ o.reply.preview \in Rooms =>
              o.reply.preview = code
    /\ m.type = "createRelayRoom" => o.reply = Error \/ (o.reply # None /\ Shown(o.reply))

(* Replies: a state tells of the controller's present room only.            *)
LEMMA StateIs ==
    ASSUME NEW k, IsController(k)
    PROVE  LET r == BuildStateJson(k) IN
           /\ r \in Replies /\ r # None
           /\ r.preview \in Rooms => r.preview = k.settings.relayRoomCode
<1> DEFINE preview == IF k.settings.relayRoomCode # None THEN k.settings.relayRoomCode
                      ELSE "address"
           r1 == [Reply("state") EXCEPT !.simpleUi = k.settings.simpleUi]
           r2 == [r1 EXCEPT !.defaultPort = k.settings.defaultPort]
           r3 == [r2 EXCEPT !.advertise = TRUE]
           r4 == [r3 EXCEPT !.preview = preview]
<1>1. BuildStateJson(k) = r4
  BY DEF BuildStateJson
<1>2. preview \in Rooms \cup {"address"}
      /\ (preview \in Rooms => preview = k.settings.relayRoomCode)
  BY ReplyAssumption DEF IsController, IsSettings, Maybe
<1> HIDE DEF preview
<1>3. r1 \in Replies
  BY DEF Reply, Replies, Maybe, IsController, IsSettings
<1> HIDE DEF r1
<1>4. r2 \in Replies
  BY <1>3 DEF Replies, Maybe, IsController, IsSettings
<1> HIDE DEF r2
<1>5. r3 \in Replies
  BY <1>4 DEF Replies
<1> HIDE DEF r3
<1>6. r4 \in Replies /\ r4.preview = preview
  BY <1>2, <1>5 DEF Replies, Maybe
<1> QED BY <1>1, <1>2, <1>6, ReplyAssumption

LEMMA ReplyIs ==
    ASSUME NEW type \in {"state", "error", "updateCheck", "updateApply", "openedUrl", "copied"}
    PROVE  /\ Reply(type) \in Replies /\ Reply(type).type = type
           /\ Reply(type).preview = None
BY DEF Reply, Replies, Maybe

(* A reply that changes nothing in the controller.                          *)
LEMMA AnsweredAs ==
    ASSUME NEW k, IsController(k), NEW out, NEW r \in Replies,
           r.type = "state" /\ r.preview \in Rooms => r.preview = k.settings.relayRoomCode,
           NEW m, m.type \notin {"cancel", "createRelayRoom"}
    PROVE  Answered(k, out, m, Outcome(k, r))
BY DEF Answered, Outcome, Maybe

(* createRelayRoom stores the code it answers.                              *)
LEMMA CreateIs ==
    ASSUME NEW k, IsController(k), NEW out, IsOutside(out),
           NEW m, m.type = "createRelayRoom",
           NEW o \in HandleCreateRelayRoom(k, out)
    PROVE  Answered(k, out, m, o)
<1>1. PICK r \in CreateRelayRoomWithAdvertise(k, out) :
         o = IF r.ok
             THEN [c |-> [k EXCEPT !.settings.relayRoomCode = r.made,
                           !.settings.relayHostSecret = r.made,
                           !.creds = r.creds],
                   made |-> r.made,
                   reply |-> [Reply("state") EXCEPT !.preview = r.made]]
             ELSE [c |-> k, made |-> r.made, reply |-> Error]
  BY DEF HandleCreateRelayRoom
<1>2. /\ r.made \in Maybe(Rooms)
      /\ r.ok => /\ r.made \in Rooms /\ r.made \notin Foreign
                 /\ r.creds.token = r.made /\ IsCreds(r.creds)
  <2>1. r = [ok |-> FALSE, made |-> None, creds |-> NoCreds]
        \/ r \in CreateRelayRoom(out.live, out.spent, out.vps, k.settings.urlOk)
    BY DEF CreateRelayRoomWithAdvertise
  <2>2. \/ r = [ok |-> FALSE, made |-> None, creds |-> NoCreds]
        \/ \E x \in Rooms \ (out.live \cup out.spent) :
              \/ r = [ok |-> FALSE, made |-> x, creds |-> NoCreds]
              \/ \E p \in {None, x} :
                    r = [ok |-> TRUE, made |-> x,
                         creds |-> [token |-> x, match |-> x, port |-> p]]
    BY <2>1 DEF CreateRelayRoom
  <2> QED BY <2>2 DEF IsOutside, IsCreds, Maybe
<1>3. CASE ~r.ok
  BY <1>1, <1>2, <1>3, ErrorIs DEF Answered, Maybe
<1>4. CASE r.ok
  <2> DEFINE s1 == [k.settings EXCEPT !.relayRoomCode = r.made]
             s2 == [s1 EXCEPT !.relayHostSecret = r.made]
             k1 == [k EXCEPT !.settings = s2]
             k2 == [k1 EXCEPT !.creds = r.creds]
             reply == [Reply("state") EXCEPT !.preview = r.made]
  <2>1. o.c = k2 /\ o.made = r.made /\ o.reply = reply
    BY <1>1, <1>4
  <2>2. reply \in Replies /\ reply.type = "state" /\ reply.preview = r.made
    BY <1>2, <1>4, ReplyIs DEF Replies, Maybe
  <2> HIDE DEF reply
  <2>3. IsSettings(s1) /\ s1.relayRoomCode = r.made
    BY <1>2, <1>4 DEF IsController, IsSettings, Maybe
  <2> HIDE DEF s1
  <2>4. IsSettings(s2) /\ s2.relayRoomCode = r.made
    BY <1>2, <1>4, <2>3 DEF IsSettings, Maybe
  <2> HIDE DEF s2
  <2>5. /\ IsController(k1) /\ k1.settings = s2 /\ k1.cfg = k.cfg
        /\ k1.relayHost = k.relayHost /\ k1.finished = k.finished /\ k1.cancelled = k.cancelled
    BY <2>4, WithSettingsIs
  <2> HIDE DEF k1
  <2>6. /\ IsController(k2) /\ k2.settings = s2 /\ k2.cfg = k.cfg
        /\ k2.relayHost = k.relayHost /\ k2.finished = k.finished /\ k2.cancelled = k.cancelled
    BY <1>2, <1>4, <2>5 DEF IsController
  <2> HIDE DEF k2
  <2>7. r.made # None
    BY <1>2, <1>4, RoomsAssumption
  <2> QED BY <1>2, <1>4, <2>1, <2>2, <2>4, <2>6, <2>7, ReplyAssumption
          DEF Answered, Tells, Shown, Maybe
<1> QED BY <1>3, <1>4

(* The controller with the update flag set.                                 *)
LEMMA WithExitIs ==
    ASSUME NEW k, IsController(k), NEW x \in BOOLEAN
    PROVE  LET r == [k EXCEPT !.exitForUpdate = x] IN
           /\ IsController(r) /\ r.settings = k.settings
           /\ r.cfg = k.cfg /\ r.creds = k.creds /\ r.relayHost = k.relayHost
           /\ r.finished = k.finished /\ r.cancelled = k.cancelled
BY DEF IsController

(* Every other message.                                                     *)
LEMMA OtherIs ==
    ASSUME NEW k, IsController(k), NEW out, IsOutside(out), NEW m \in Others,
           NEW o \in HandleWebMessage(k, out, m)
    PROVE  Answered(k, out, m, o)
<1> DEFINE Plain(r) == r \in Replies /\
                (r.type = "state" /\ r.preview \in Rooms => r.preview = k.settings.relayRoomCode)
<1>1. \A r : Plain(r) /\ m.type \notin {"cancel", "createRelayRoom"}
             => Answered(k, out, m, Outcome(k, r))
  BY AnsweredAs
<1>2. Plain(Error) /\ Plain(BuildStateJson(k))
      /\ \A type \in {"state", "error", "updateCheck", "updateApply", "openedUrl", "copied"} :
            Plain(Reply(type))
  BY ErrorIs, StateIs, ReplyIs, RoomsAssumption
<1>3. m.type = "relayHeartbeat" => m.code \in Rooms
  BY DEF Others
<1> HIDE DEF Plain
<1>4. CASE m.type = "getState"
  BY <1>1, <1>2, <1>4 DEF HandleWebMessage, HandleGetState
<1>5. CASE m.type = "fetchPublicIp"
  <2> DEFINE r == [Reply("state") EXCEPT !.advertise = TRUE, !.preview = "address"]
  <2>1. Plain(r)
    BY ReplyIs, ReplyAssumption DEF Plain, Replies, Maybe
  <2>2. o \in {Outcome(k, Error), Outcome(k, r)}
    BY <1>5 DEF HandleWebMessage, HandleFetchPublicIp
  <2> HIDE DEF r
  <2> QED BY <1>1, <1>2, <1>5, <2>1, <2>2
<1>6. CASE m.type = "copyText"
  BY <1>1, <1>2, <1>6 DEF HandleWebMessage, HandleCopyText
<1>7. CASE m.type = "openUrl"
  BY <1>1, <1>2, <1>7 DEF HandleWebMessage, HandleOpenUrl
<1>8. CASE m.type = "previewRoomCode"
  <2> DEFINE r == [Reply("state") EXCEPT !.preview = "address"]
  <2>1. Plain(r)
    BY ReplyIs, ReplyAssumption DEF Plain, Replies, Maybe
  <2>2. o = Outcome(k, r)
    BY <1>8 DEF HandleWebMessage, HandlePreviewRoomCode
  <2> HIDE DEF r
  <2> QED BY <1>1, <1>8, <2>1, <2>2
<1>9. CASE m.type = "setUiMode"
  <2> DEFINE s == [k.settings EXCEPT !.simpleUi = m.simpleUi]
             k1 == [k EXCEPT !.settings = s]
  <2>1. o = Outcome(k1, BuildStateJson(k1)) /\ m.simpleUi \in BOOLEAN
    BY <1>9 DEF HandleWebMessage, HandleSetUiMode, Others
  <2>2. IsSettings(s) /\ s.relayRoomCode = k.settings.relayRoomCode
    BY <2>1 DEF IsController, IsSettings
  <2> HIDE DEF s
  <2>3. /\ IsController(k1) /\ k1.settings = s /\ k1.cfg = k.cfg
        /\ k1.relayHost = k.relayHost /\ k1.finished = k.finished /\ k1.cancelled = k.cancelled
    BY <2>2, WithSettingsIs
  <2> HIDE DEF k1
  <2> QED BY <1>9, <2>1, <2>2, <2>3, StateIs DEF Answered, Outcome, Maybe
<1>10. CASE m.type = "saveSettings"
  <2> DEFINE s == [k.settings EXCEPT !.urlOk = TRUE]
             k1 == [k EXCEPT !.settings = s]
  <2>1. o \in {Outcome(k, Error), Outcome(k1, BuildStateJson(k1))}
    BY <1>10 DEF HandleWebMessage, HandleSaveSettings
  <2>2. IsSettings(s) /\ s.relayRoomCode = k.settings.relayRoomCode
    BY <2>1 DEF IsController, IsSettings
  <2> HIDE DEF s
  <2>3. /\ IsController(k1) /\ k1.settings = s /\ k1.cfg = k.cfg
        /\ k1.relayHost = k.relayHost /\ k1.finished = k.finished /\ k1.cancelled = k.cancelled
    BY <2>2, WithSettingsIs
  <2> HIDE DEF k1
  <2>4. CASE o = Outcome(k, Error)
    BY <1>1, <1>2, <1>10, <2>4
  <2>5. CASE o = Outcome(k1, BuildStateJson(k1))
    BY <1>10, <2>5, <2>2, <2>3, StateIs DEF Answered, Outcome, Maybe
  <2> QED BY <2>1, <2>4, <2>5
<1>11. CASE m.type = "checkUpdate"
  <2>1. PICK a \in {TRUE, FALSE, None} :
            o = Outcome(k, [Reply("updateCheck") EXCEPT !.available = a])
    BY <1>11 DEF HandleWebMessage, HandleCheckUpdate
  <2>2. Plain([Reply("updateCheck") EXCEPT !.available = a])
    BY ReplyIs DEF Plain, Replies, Maybe
  <2> QED BY <1>1, <1>11, <2>1, <2>2
<1>12. CASE m.type = "applyUpdate"
  <2> DEFINE k1 == [k EXCEPT !.exitForUpdate = TRUE]
  <2>1. o \in {Outcome(k, Error), Outcome(k1, Reply("updateApply"))}
    BY <1>12 DEF HandleWebMessage, HandleApplyUpdate
  <2>2. /\ IsController(k1) /\ k1.settings = k.settings /\ k1.cfg = k.cfg
        /\ k1.relayHost = k.relayHost /\ k1.finished = k.finished /\ k1.cancelled = k.cancelled
    BY WithExitIs
  <2> HIDE DEF k1
  <2>3. CASE o = Outcome(k, Error)
    BY <1>1, <1>2, <1>12, <2>3
  <2>4. CASE o = Outcome(k1, Reply("updateApply"))
    BY <1>12, <2>4, <2>2, ReplyIs DEF Answered, Outcome, Maybe
  <2> QED BY <2>1, <2>3, <2>4
<1>13. CASE m.type = "createRelayRoom"
  BY <1>13, CreateIs DEF HandleWebMessage
<1>14. CASE m.type = "relayHeartbeat"
  <2>1. PICK ok \in BOOLEAN : o = Outcome(k, [Reply("state") EXCEPT !.heartbeatOk = ok])
    BY <1>14 DEF HandleWebMessage, HandleRelayHeartbeat, HeartbeatRelayRoom
  <2>2. Plain([Reply("state") EXCEPT !.heartbeatOk = ok])
    BY ReplyIs, RoomsAssumption DEF Plain, Replies, Maybe
  <2> QED BY <1>1, <1>14, <2>1, <2>2
<1>15. CASE m.type = "tryUpnp"
  BY <1>1, <1>2, <1>15 DEF HandleWebMessage, HandleTryUpnp
<1>16. CASE m.type = "listRooms"
  BY <1>1, <1>2, <1>16 DEF HandleWebMessage, HandleListRooms
<1>17. CASE m.type = "cancel"
  <2>1. o = Outcome([k EXCEPT !.cancelled = TRUE, !.finished = TRUE], None)
    BY <1>17 DEF HandleWebMessage, HandleCancel
  <2> QED BY <1>17, <2>1 DEF Answered, Outcome, Maybe, IsController
<1>18. CASE m.type = "unknown"
  BY <1>1, <1>2, <1>18 DEF HandleWebMessage
<1>19. m.type \in {"getState", "fetchPublicIp", "tryUpnp", "listRooms", "openUrl",
             "previewRoomCode", "createRelayRoom", "checkUpdate", "applyUpdate",
             "cancel", "copyText", "unknown", "relayHeartbeat", "setUiMode", "saveSettings"}
  BY DEF Others
<1> QED BY <1>4, <1>5, <1>6, <1>7, <1>8, <1>9, <1>10, <1>11, <1>12, <1>13, <1>14, <1>15,
           <1>16, <1>17, <1>18, <1>19

-----------------------------------------------------------------------------
(* What the window posts, except when it closes.                            *)
Posts == {m \in Messages : m.type # "cancel"}

(* Sequences of posts.                                                      *)
LEMMA PostIs ==
    /\ <<>> \in Seq(Posts)
    /\ \A m \in Posts : <<m>> \in Seq(Posts)
    /\ \A p, q \in Seq(Posts) : p \o q \in Seq(Posts)
    /\ Seq(Posts) \subseteq Seq(Messages)
    /\ Message("previewRoomCode") \in Posts
    /\ \A code \in Rooms : [type |-> "relayHeartbeat", code |-> code] \in Posts
<1>1. Posts \subseteq Messages
  BY DEF Posts
<1>2. Seq(Posts) \subseteq Seq(Messages)
  BY <1>1
<1>3. Message("previewRoomCode") \in Posts
  BY DEF Posts, Messages, Others, Message
<1>4. \A code \in Rooms : [type |-> "relayHeartbeat", code |-> code] \in Posts
  BY DEF Posts, Messages, Others
<1>5. /\ <<>> \in Seq(Posts)
      /\ \A m \in Posts : <<m>> \in Seq(Posts)
      /\ \A p, q \in Seq(Posts) : p \o q \in Seq(Posts)
  OBVIOUS
<1> QED BY <1>2, <1>3, <1>4, <1>5

(* The window's helpers, one by one.                                        *)
LEMMA UpdateHostControlsIs ==
    ASSUME NEW win, IsWindow(win)
    PROVE  LET r == UpdateHostControls(win) IN
           /\ IsWindow(r) /\ r.code = win.code /\ r.timer = win.timer
           /\ r.joinOn = win.joinOn /\ r.createOn = win.createOn
           /\ r.simple = win.simple
           /\ r.code # None => r.startOn
<1> DEFINE on == HostConnectMethod(win) # "relay" \/ win.code # None
           r == [win EXCEPT !.startOn = on]
<1>1. on \in BOOLEAN /\ (win.code # None => on)
  OBVIOUS
<1> HIDE DEF on
<1>2. /\ IsWindow(r) /\ r.code = win.code /\ r.timer = win.timer
      /\ r.joinOn = win.joinOn /\ r.createOn = win.createOn /\ r.startOn = on
      /\ r.simple = win.simple
  BY <1>1 DEF IsWindow
<1>3. UpdateHostControls(win) = r
  BY DEF UpdateHostControls, on
<1> QED BY <1>1, <1>2, <1>3

LEMMA WithCodeIs ==
    ASSUME NEW win, IsWindow(win), NEW code \in Maybe(Rooms)
    PROVE  LET r == [win EXCEPT !.code = code] IN
           /\ IsWindow(r) /\ r.code = code /\ r.timer = win.timer
           /\ r.joinOn = win.joinOn /\ r.createOn = win.createOn
           /\ r.startOn = win.startOn
BY DEF IsWindow

LEMMA WithTimerIs ==
    ASSUME NEW win, IsWindow(win), NEW on \in BOOLEAN
    PROVE  LET r == [win EXCEPT !.timer = on] IN
           /\ IsWindow(r) /\ r.code = win.code /\ r.timer = on
           /\ r.joinOn = win.joinOn /\ r.createOn = win.createOn
           /\ r.startOn = win.startOn
BY DEF IsWindow

LEMMA HeartbeatIs ==
    ASSUME NEW win, IsWindow(win)
    PROVE  LET s == OnRelayHeartbeat(win) IN
           /\ s.posts \in Seq(Posts)
           /\ IsWindow(s.w) /\ s.w.code = win.code
           /\ s.w.timer = IF win.code = None THEN FALSE ELSE win.timer
           /\ s.w.joinOn = win.joinOn /\ s.w.createOn = win.createOn
           /\ s.w.startOn = win.startOn
<1>1. CASE win.code = None
  BY <1>1, WithTimerIs, PostIs DEF OnRelayHeartbeat, StopRelayHeartbeat, With
<1>2. CASE win.code # None
  <2>1. win.code \in Rooms
    BY <1>2 DEF IsWindow, Maybe
  <2> QED BY <1>2, <2>1, PostIs DEF OnRelayHeartbeat, With
<1> QED BY <1>1, <1>2

LEMMA StartHeartbeatIs ==
    ASSUME NEW win, IsWindow(win)
    PROVE  LET s == StartRelayHeartbeat(win) IN
           /\ s.posts \in Seq(Posts)
           /\ IsWindow(s.w) /\ s.w.code = win.code
           /\ s.w.code # None => s.w.timer
           /\ s.w.joinOn = win.joinOn /\ s.w.createOn = win.createOn
           /\ s.w.startOn = win.startOn
<1>1. CASE win.code = None
  BY <1>1, WithTimerIs, PostIs DEF StartRelayHeartbeat, StopRelayHeartbeat, With
<1>2. CASE win.code # None
  <2> DEFINE r == [win EXCEPT !.timer = TRUE]
  <2>1. StartRelayHeartbeat(win) = OnRelayHeartbeat(r)
    BY <1>2 DEF StartRelayHeartbeat
  <2>2. /\ IsWindow(r) /\ r.code = win.code /\ r.timer = TRUE
        /\ r.joinOn = win.joinOn /\ r.createOn = win.createOn
        /\ r.startOn = win.startOn
    BY WithTimerIs
  <2> HIDE DEF r
  <2> QED BY ZenonT(60), <1>2, <2>1, <2>2, HeartbeatIs
<1> QED BY <1>1, <1>2

(* What a reply may do to the window that receives it.                      *)
Received(win, r, s) ==
    /\ IsWindow(s.w) /\ s.posts \in Seq(Posts)
    /\ s.w.code # None /\ ~s.w.timer => win.code # None /\ ~win.timer
    /\ win.joinOn \/ r.type = "error" => s.w.joinOn
    /\ win.createOn \/ r.type = "error" \/ Shown(r) => s.w.createOn
    /\ win.code = None \/ win.startOn \/ r.type = "error" => s.w.code = None \/ s.w.startOn
    /\ IF Shown(r) THEN s.w.code = IF r.preview \in Rooms THEN r.preview ELSE None
       ELSE s.w.code \in {win.code, None}

(* The parts of OnState.                                                    *)
LEMMA FinalizeIs ==
    ASSUME NEW win, IsWindow(win), NEW r \in Replies
    PROVE  LET s == FinalizeRelayRoomResponse(win, r) IN
           /\ s.posts \in Seq(Posts)
           /\ IsWindow(s.w) /\ s.w.code = IF r.preview \in Rooms THEN r.preview ELSE None
           /\ s.w.code # None => s.w.timer /\ s.w.startOn
           /\ s.w.joinOn = win.joinOn /\ s.w.createOn
<1> DEFINE code == IF r.preview \in Rooms THEN r.preview ELSE None
           w1 == [win EXCEPT !.code = code]
           w2 == UpdateHostControls(w1)
           w3 == [w2 EXCEPT !.createOn = TRUE]
<1>1. FinalizeRelayRoomResponse(win, r) = StartRelayHeartbeat(w3)
  BY DEF FinalizeRelayRoomResponse, IsShortRoomCode
<1>2. code \in Maybe(Rooms)
  BY DEF Maybe
<1> HIDE DEF code
<1>3. IsWindow(w1) /\ w1.code = code /\ w1.joinOn = win.joinOn
  BY <1>2, WithCodeIs
<1> HIDE DEF w1
<1>4. IsWindow(w2) /\ w2.code = code /\ w2.joinOn = win.joinOn /\ (code # None => w2.startOn)
  BY <1>3, UpdateHostControlsIs
<1> HIDE DEF w2
<1>5. IsWindow(w3) /\ w3.code = code /\ w3.joinOn = win.joinOn /\ (code # None => w3.startOn)
      /\ w3.createOn
  BY <1>4 DEF IsWindow
<1> HIDE DEF w3
<1> QED BY <1>1, <1>5, StartHeartbeatIs DEF code

LEMMA SyncIs ==
    ASSUME NEW win, IsWindow(win), NEW r \in Replies
    PROVE  LET s == SyncFromState(win, r) IN
           /\ s.posts \in Seq(Posts)
           /\ IsWindow(s.w)
           /\ s.w.code = IF r.preview \in Rooms THEN r.preview ELSE win.code
           /\ s.w.code # None => s.w.startOn
           /\ s.w.timer = win.timer
           /\ s.w.joinOn = win.joinOn /\ s.w.createOn = win.createOn
<1> DEFINE mode == [win EXCEPT !.simple = IF r.simpleUi # None THEN r.simpleUi
                                       ELSE @]
           portMoves == r.defaultPort # None /\ r.defaultPort # win.defaultPort
           addressMoves == r.advertise /\ win.advertiseEmpty
           Preview(moved) == IF moved THEN OnAdvertiseChanged(mode) ELSE <<>>
           w1 == [mode EXCEPT !.defaultPort = IF portMoves THEN r.defaultPort ELSE @]
           w2 == [w1 EXCEPT !.advertiseEmpty = @ /\ ~r.advertise]
           w3 == [w2 EXCEPT !.code = IF IsShortRoomCode(r.preview) THEN r.preview ELSE @]
           s == SyncFromState(win, r)
           Same(x) == /\ IsWindow(x) /\ x.code = win.code /\ x.timer = win.timer
                      /\ x.joinOn = win.joinOn /\ x.createOn = win.createOn
<1>1. s.w = UpdateHostControls(w3) /\ s.posts = Preview(portMoves) \o Preview(addressMoves)
  BY ZenonT(60) DEF SyncFromState, With
<1>2. Same(mode)
  BY DEF IsWindow, Replies, Maybe
<1>3. \A moved : Preview(moved) \in Seq(Posts)
  BY PostIs DEF OnAdvertiseChanged
<1> HIDE DEF mode, Preview
<1>4. s.posts \in Seq(Posts)
  BY <1>1, <1>3, PostIs
<1>5. Same(w1)
  BY <1>2 DEF IsWindow, Replies, Maybe
<1> HIDE DEF w1
<1>6. Same(w2)
  BY <1>5 DEF IsWindow, Replies
<1> HIDE DEF w2
<1>7. /\ IsWindow(w3) /\ w3.code = IF r.preview \in Rooms THEN r.preview ELSE win.code
      /\ w3.timer = win.timer /\ w3.joinOn = win.joinOn /\ w3.createOn = win.createOn
  BY <1>6 DEF IsWindow, Maybe, IsShortRoomCode
<1> HIDE DEF w3
<1> QED BY <1>1, <1>4, <1>7, UpdateHostControlsIs

(* Every reply.                                                             *)
LEMMA OnStateIs ==
    ASSUME NEW win, IsWindow(win), NEW r \in Replies, r.type = "state"
    PROVE  Received(win, r, OnState(win, r))
<1> DEFINE beaten == CASE r.heartbeatOk = FALSE ->
                           UpdateHostControls([StopRelayHeartbeat(win)
                                               EXCEPT !.code = None])
                       [] r.heartbeatOk = TRUE -> [win EXCEPT !.startOn = TRUE]
                       [] OTHER -> win
           synced == SyncFromState(beaten, r)
           final == FinalizeRelayRoomResponse(synced.w, r)
<1>1. OnState(win, r) = IF r.preview = None THEN synced
                        ELSE With(final.w, synced.posts \o final.posts)
  BY DEF OnState
<1>2. /\ IsWindow(beaten) /\ beaten.joinOn = win.joinOn /\ beaten.createOn = win.createOn
      /\ \/ beaten.code = None
         \/ beaten.code = win.code /\ beaten.timer = win.timer
  <2>1. CASE r.heartbeatOk = FALSE
    <3> DEFINE w1 == [win EXCEPT !.timer = FALSE]
               w2 == [w1 EXCEPT !.code = None]
    <3>1. beaten = UpdateHostControls(w2)
      BY <2>1 DEF StopRelayHeartbeat
    <3>2. IsWindow(w1) /\ w1.joinOn = win.joinOn /\ w1.createOn = win.createOn
      BY WithTimerIs
    <3> HIDE DEF w1
    <3>3. IsWindow(w2) /\ w2.joinOn = win.joinOn /\ w2.createOn = win.createOn /\ w2.code = None
      BY <3>2, WithCodeIs DEF Maybe
    <3> HIDE DEF w2, beaten
    <3> QED BY <3>1, <3>3, UpdateHostControlsIs
  <2>2. CASE r.heartbeatOk # FALSE /\ r.heartbeatOk = TRUE
    <3>1. beaten = [win EXCEPT !.startOn = TRUE]
      BY <2>2
    <3> QED BY <3>1 DEF IsWindow
  <2>3. CASE r.heartbeatOk # FALSE /\ r.heartbeatOk # TRUE
    BY <2>3
  <2> QED BY <2>1, <2>2, <2>3
<1> HIDE DEF beaten
<1>3. /\ synced.posts \in Seq(Posts)
      /\ IsWindow(synced.w)
      /\ synced.w.code = IF r.preview \in Rooms THEN r.preview ELSE beaten.code
      /\ synced.w.code # None => synced.w.startOn
      /\ synced.w.timer = beaten.timer
      /\ synced.w.joinOn = win.joinOn /\ synced.w.createOn = win.createOn
  BY <1>2, SyncIs
<1> HIDE DEF synced
<1>4. CASE r.preview = None
  <2>1. r.preview \notin Rooms /\ ~Shown(r)
    BY <1>4, RoomsAssumption DEF Shown
  <2> QED BY <1>1, <1>2, <1>3, <1>4, <2>1 DEF Received
<1>5. CASE r.preview # None
  <2>1. /\ final.posts \in Seq(Posts)
        /\ IsWindow(final.w)
        /\ final.w.code = IF r.preview \in Rooms THEN r.preview ELSE None
        /\ final.w.code # None => final.w.timer /\ final.w.startOn
        /\ final.w.joinOn = win.joinOn /\ final.w.createOn
    BY <1>3, FinalizeIs
  <2> HIDE DEF final
  <2> DEFINE posts == synced.posts \o final.posts
             s == OnState(win, r)
  <2>2. posts \in Seq(Posts)
    BY <1>3, <2>1, PostIs
  <2>3. s = With(final.w, posts)
    BY <1>1, <1>5
  <2>4. Shown(r)
    BY <1>5 DEF Shown
  <2> HIDE DEF posts, s
  <2>5. s.w = final.w /\ s.posts = posts
    BY <2>3 DEF With
  <2>6. Received(win, r, s)
    BY <2>1, <2>2, <2>4, <2>5 DEF Received
  <2> QED BY <2>6 DEF s
<1> QED BY <1>4, <1>5

LEMMA HandleMessageIs ==
    ASSUME NEW win, IsWindow(win), NEW r \in Replies
    PROVE  Received(win, r, HandleMessage(win, r))
<1>1. CASE r.type = "error"
  <2> DEFINE w1 == [win EXCEPT !.installOn = @ \/ win.busy]
             w2 == [w1 EXCEPT !.busy = FALSE, !.createOn = TRUE]
             w3 == [w2 EXCEPT !.joinOn = TRUE]
  <2>1. HandleMessage(win, r) = With(UpdateHostControls(w3), <<>>)
    BY <1>1 DEF HandleMessage, OnError
  <2>2. IsWindow(w1) /\ w1.code = win.code /\ w1.timer = win.timer
    BY DEF IsWindow
  <2> HIDE DEF w1
  <2>3. IsWindow(w2) /\ w2.code = win.code /\ w2.timer = win.timer /\ w2.createOn
    BY <2>2 DEF IsWindow
  <2> HIDE DEF w2
  <2>4. IsWindow(w3) /\ w3.code = win.code /\ w3.timer = win.timer /\ w3.createOn /\ w3.joinOn
    BY <2>3 DEF IsWindow
  <2> HIDE DEF w3
  <2> QED BY <1>1, <2>1, <2>4, UpdateHostControlsIs, PostIs DEF Received, With, Shown
<1>2. CASE r.type = "updateCheck"
  <2> DEFINE w1 == [win EXCEPT !.busy = FALSE]
             w2 == [w1 EXCEPT !.installShown = IF r.available = None THEN @ ELSE r.available]
  <2>1. HandleMessage(win, r) = With(w2, <<>>)
    BY <1>2 DEF HandleMessage, OnUpdateCheck
  <2> DEFINE Same(x) == /\ IsWindow(x) /\ x.code = win.code /\ x.timer = win.timer
                        /\ x.joinOn = win.joinOn /\ x.createOn = win.createOn
                        /\ x.startOn = win.startOn
  <2>2. Same(w1)
    BY DEF IsWindow
  <2> HIDE DEF w1
  <2>3. Same(w2)
    BY <2>2 DEF IsWindow, Replies, Maybe
  <2> HIDE DEF w2
  <2> QED BY <1>2, <2>1, <2>3, PostIs DEF Received, With, Shown
<1>3. CASE r.type = "updateApply"
  <2> DEFINE w1 == [win EXCEPT !.busy = TRUE, !.installShown = FALSE]
  <2>1. HandleMessage(win, r) = With(w1, <<>>)
    BY <1>3 DEF HandleMessage
  <2>2. /\ IsWindow(w1) /\ w1.code = win.code /\ w1.timer = win.timer
        /\ w1.joinOn = win.joinOn /\ w1.createOn = win.createOn
        /\ w1.startOn = win.startOn
    BY DEF IsWindow
  <2> HIDE DEF w1
  <2> QED BY <1>3, <2>1, <2>2, PostIs DEF Received, With, Shown
<1>4. CASE r.type = "state"
  BY <1>4, OnStateIs DEF HandleMessage
<1>5. CASE r.type \notin {"error", "updateCheck", "updateApply", "state"}
  <2>1. HandleMessage(win, r) = With(win, <<>>)
    BY <1>5 DEF HandleMessage
  <2> QED BY <1>5, <2>1, PostIs DEF Received, With, Shown
<1> QED BY <1>1, <1>2, <1>3, <1>4, <1>5

-----------------------------------------------------------------------------
(* What a concatenation and a tail hold, and where.                         *)
LEMMA Concat ==
    ASSUME NEW S, NEW s \in Seq(S), NEW t \in Seq(S)
    PROVE  /\ s \o t \in Seq(S)
           /\ \A i \in DOMAIN s : i \in DOMAIN (s \o t) /\ (s \o t)[i] = s[i] /\ i \in 1 .. Len(s)
           /\ \A i \in DOMAIN t : /\ Len(s) + i \in DOMAIN (s \o t)
                                  /\ (s \o t)[Len(s) + i] = t[i] /\ i \in 1 .. Len(t)
           /\ \A j \in DOMAIN (s \o t) : j \in DOMAIN s \/ \E i \in DOMAIN t : j = Len(s) + i
<1>1. /\ s \o t \in Seq(S) /\ Len(s \o t) = Len(s) + Len(t)
      /\ \A i \in 1 .. Len(s) + Len(t) : (s \o t)[i] = IF i <= Len(s) THEN s[i] ELSE t[i - Len(s)]
  BY ConcatProperties
<1>2. /\ DOMAIN s = 1 .. Len(s) /\ DOMAIN t = 1 .. Len(t)
      /\ DOMAIN (s \o t) = 1 .. Len(s) + Len(t)
      /\ Len(s) \in Nat /\ Len(t) \in Nat
  BY <1>1, LenProperties
<1> DEFINE u == s \o t
<1>3. \A j \in 1 .. Len(s) + Len(t) : j \in 1 .. Len(s) \/ \E i \in 1 .. Len(t) : j = Len(s) + i
  <2> SUFFICES ASSUME NEW j \in 1 .. Len(s) + Len(t), j \notin 1 .. Len(s)
               PROVE  \E i \in 1 .. Len(t) : j = Len(s) + i
    OBVIOUS
  <2>1. j - Len(s) \in 1 .. Len(t) /\ j = Len(s) + (j - Len(s))
    BY <1>2
  <2> QED BY <2>1
<1>4. \A i \in 1 .. Len(s) : i \in DOMAIN u /\ u[i] = s[i]
  <2> SUFFICES ASSUME NEW i \in 1 .. Len(s) PROVE i \in DOMAIN u /\ u[i] = s[i]
    OBVIOUS
  <2>1. i \in 1 .. Len(s) + Len(t) /\ i <= Len(s)
    BY <1>2
  <2> QED BY <1>1, <1>2, <2>1
<1>5. \A i \in 1 .. Len(t) : Len(s) + i \in DOMAIN u /\ u[Len(s) + i] = t[i]
  <2> SUFFICES ASSUME NEW i \in 1 .. Len(t)
               PROVE  Len(s) + i \in DOMAIN u /\ u[Len(s) + i] = t[i]
    OBVIOUS
  <2> DEFINE j == Len(s) + i
  <2>1. j \in 1 .. Len(s) + Len(t) /\ ~(j <= Len(s)) /\ j - Len(s) = i
    BY <1>2
  <2> HIDE DEF j
  <2>2. u[j] = t[j - Len(s)]
    BY <1>1, <2>1
  <2> QED BY <1>2, <2>1, <2>2 DEF j
<1>6. u \in Seq(S)
  BY <1>1
<1> HIDE DEF u
<1>7. DOMAIN u = 1 .. Len(s) + Len(t)
  BY <1>2 DEF u
<1> QED BY <1>2, <1>3, <1>4, <1>5, <1>6, <1>7 DEF u

LEMMA ElemsOfConcat ==
    ASSUME NEW S, NEW s \in Seq(S), NEW t \in Seq(S)
    PROVE  Elems(s \o t) = Elems(s) \cup Elems(t)
<1> DEFINE u == s \o t
<1>1. /\ \A i \in DOMAIN s : i \in DOMAIN u /\ u[i] = s[i]
      /\ \A i \in DOMAIN t : /\ Len(s) + i \in DOMAIN u /\ u[Len(s) + i] = t[i]
      /\ \A j \in DOMAIN u : j \in DOMAIN s \/ \E i \in DOMAIN t : j = Len(s) + i
  BY SMTT(30), Concat
<1> HIDE DEF u
<1>2. \A x \in Elems(u) : x \in Elems(s) \/ x \in Elems(t)
  BY <1>1 DEF Elems
<1>3. \A x \in Elems(s) : x \in Elems(u)
  BY <1>1 DEF Elems
<1>4. \A x \in Elems(t) : x \in Elems(u)
  BY <1>1 DEF Elems
<1>5. Elems(u) = Elems(s) \cup Elems(t)
  BY <1>2, <1>3, <1>4
<1> QED BY <1>5 DEF u

LEMMA ElemsOfTail ==
    ASSUME NEW S, NEW s \in Seq(S), s # <<>>
    PROVE  /\ Tail(s) \in Seq(S) /\ Head(s) \in S
           /\ Elems(s) = {Head(s)} \cup Elems(Tail(s))
           /\ 1 \in DOMAIN s /\ s[1] = Head(s)
           /\ \A i \in DOMAIN Tail(s) : i \in Nat /\ i + 1 \in DOMAIN s /\ Tail(s)[i] = s[i + 1]
           /\ \A i \in DOMAIN s : i = 1 \/ (i - 1 \in DOMAIN Tail(s) /\ Tail(s)[i - 1] = s[i])
           /\ \A i \in DOMAIN s : i \in Nat
<1> DEFINE u == Tail(s)
<1>1. /\ Head(s) \in S /\ u \in Seq(S) /\ Len(u) = Len(s) - 1
      /\ Head(s) = s[1] /\ Len(s) \in Nat /\ Len(s) > 0
      /\ \A i \in 1 .. Len(u) : u[i] = s[i + 1]
  BY HeadTailProperties, EmptySeq
<1>2. DOMAIN s = 1 .. Len(s) /\ DOMAIN u = 1 .. Len(s) - 1
  BY <1>1, LenProperties
<1> HIDE DEF u
<1>3. /\ \A i \in DOMAIN u : i \in Nat /\ i + 1 \in DOMAIN s /\ u[i] = s[i + 1]
      /\ \A i \in DOMAIN s : i = 1 \/ (i - 1 \in DOMAIN u /\ u[i - 1] = s[i])
      /\ 1 \in DOMAIN s
      /\ \A i \in DOMAIN s : i \in Nat
  BY <1>1, <1>2
<1>4. Elems(s) = {Head(s)} \cup Elems(u)
  <2>1. ASSUME NEW x \in Elems(s) PROVE x \in {Head(s)} \cup Elems(u)
    <3>1. PICK i \in DOMAIN s : x = s[i]
      BY DEF Elems
    <3>2. CASE i = 1
      BY <1>1, <3>1, <3>2
    <3>3. CASE i # 1
      <4>1. i - 1 \in DOMAIN u /\ u[i - 1] = x
        BY <1>3, <3>1, <3>3
      <4> QED BY <4>1 DEF Elems
    <3> QED BY <3>2, <3>3
  <2>2. \A x \in Elems(u) : x \in Elems(s)
    BY <1>3 DEF Elems
  <2>3. Head(s) \in Elems(s)
    BY <1>1, <1>3 DEF Elems
  <2> QED BY <2>1, <2>2, <2>3
<1> QED BY <1>1, <1>3, <1>4 DEF u

LEMMA ElemsOfShort ==
    /\ Elems(<<>>) = {}
    /\ \A m : Elems(<<m>>) = {m}
    /\ \A m, n : Elems(<<m, n>>) = {m, n}
<1>1. \A m : DOMAIN <<m>> = {1} /\ <<m>>[1] = m
  OBVIOUS
<1>2. \A m, n : DOMAIN <<m, n>> = {1, 2} /\ <<m, n>>[1] = m /\ <<m, n>>[2] = n
  OBVIOUS
<1>3. DOMAIN <<>> = {}
  OBVIOUS
<1> QED BY <1>1, <1>2, <1>3 DEF Elems

LEMMA ElemsIn ==
    ASSUME NEW S, NEW s \in Seq(S)
    PROVE  Elems(s) \subseteq S
BY DEF Elems

(* With the window closed nothing is shown.                                 *)
LEMMA Closed == ~Open' => ButtonInv' /\ CodeInv' /\ KeepAlive'
BY DEF ButtonInv, CodeInv, KeepAlive, Open

(* The first window and the first controller.                               *)
LEMMA NewWindowIs ==
    /\ IsWindow(NewWindow) /\ NewWindow.code = None
    /\ NewWindow.joinOn /\ NewWindow.createOn
BY DEF NewWindow, IsWindow, Maybe

LEMMA NewControllerIs ==
    ASSUME NEW stored \in StoredSettings
    PROVE  LET k == NewController(LoadPersistedSettings(stored)) IN
           /\ IsController(k) /\ ~Ready(k) /\ k.relayHost = "none"
           /\ ~k.finished /\ ~k.exitForUpdate
<1> DEFINE s == LoadPersistedSettings(stored)
<1>1. IsSettings(s)
  BY DEF StoredSettings, LoadPersistedSettings, IsSettings, Maybe, Texts
<1>2. IsCreds(NoCreds)
  BY RoomsAssumption, LauncherAssumption DEF IsCreds, NoCreds, Maybe
<1> HIDE DEF s
<1>3. LET k == NewController(s) IN
           /\ IsController(k) /\ ~Ready(k) /\ k.relayHost = "none"
           /\ ~k.finished /\ ~k.exitForUpdate
  BY <1>1, <1>2, NoConfigIs DEF NewController, IsController, Ready
<1> QED BY <1>3 DEF s

(* The invariant holds at first.                                            *)
LEMMA LInit == Init => LInv
<1> SUFFICES ASSUME Init PROVE LInv
  OBVIOUS
<1>1. ~Open /\ proc = "starting" /\ clicks \in 0 .. MaxClicks /\ ui \in {"qt", "ipc", "cli"}
  BY LauncherAssumption DEF Init, Open
<1>2. /\ IsController(c) /\ ~Ready(c) /\ c.relayHost = "none"
      /\ ~c.finished /\ ~c.exitForUpdate
  BY NewControllerIs DEF Init
<1>3. IsOutside(b)
  BY LauncherAssumption DEF Init, IsOutside
<1>4. IsWindow(w)
  BY NewWindowIs DEF Init
<1>5. IsHist(hist) /\ hist.starts = 0
  BY DEF Init, IsHist
<1>6. /\ toWorker \in Seq(Messages) /\ toGui = <<>>
      /\ \A m \in Elems(toWorker) : m.type # "cancel"
  <2>1. Message("getState") \in Messages /\ Message("getState").type = "getState"
    BY DEF Messages, Others, Message
  <2>2. toWorker \in {<<Message("getState")>>, <<>>} /\ toGui = <<>>
    BY DEF Init
  <2> DEFINE m == Message("getState")
  <2> HIDE DEF m
  <2>3. CASE toWorker = <<m>>
    BY <2>1, <2>2, <2>3, ElemsOfShort DEF m
  <2>4. CASE toWorker = <<>>
    BY <2>2, <2>4, ElemsOfShort
  <2> QED BY <2>2, <2>3, <2>4 DEF m
<1>7. TypeInv
  BY <1>1, <1>2, <1>3, <1>4, <1>5, <1>6 DEF TypeInv
<1>8. StartInv /\ NoOrphan
  BY <1>1, <1>2, <1>5 DEF StartInv, NoOrphan
<1>9. HostInv
  <2>1. w = NewWindow
    BY DEF Init
  <2> QED BY <1>1, <1>2, <1>6, <2>1, ElemsOfShort DEF HostInv
<1>10. ButtonInv /\ CodeInv /\ KeepAlive
  BY <1>1 DEF ButtonInv, CodeInv, KeepAlive, Open
<1> QED BY <1>7, <1>8, <1>9, <1>10 DEF LInv

(* What the player, or the window's timer, does: nothing is shared or       *)
(* hidden, and a button goes off only with its request.                     *)
Clicked(win, posts) ==
    /\ IsWindow(win) /\ posts \in Seq(Posts)
    /\ Click(win, posts)
    /\ hist' = hist \/ hist' = [hist EXCEPT !.startSinceArmed = TRUE]
    /\ win.code = w.code
    /\ win.timer = w.timer \/ win.code = None \/ hist'.startSinceArmed
    /\ w.joinOn => win.joinOn \/ Asks(posts, "start")
    /\ w.createOn => win.createOn \/ Asks(posts, "createRelayRoom")
    /\ w.code = None \/ w.startOn => win.code = None \/ win.startOn \/ Asks(posts, "start")

(* Pressing a start changes nothing else of the history.                    *)
LEMMA HistIs ==
    ASSUME NEW h, IsHist(h)
    PROVE  LET r == [h EXCEPT !.startSinceArmed = TRUE] IN
           /\ IsHist(r) /\ r.startSinceArmed /\ r.starts = h.starts
           /\ r.closedByUser = h.closedByUser /\ r.createFailed = h.createFailed
BY DEF IsHist

(* Clicks keep the invariant.                                               *)
LEMMA ClickKeeps ==
    ASSUME LInv, NEW win, NEW posts, Clicked(win, posts)
    PROVE  LInv'
<1>1. /\ w' = win /\ toWorker' = toWorker \o posts
      /\ UNCHANGED <<b, ui, c, toGui, proc>>
      /\ Open /\ clicks' \in 0 .. MaxClicks
  BY LauncherAssumption DEF Clicked, Click, Open, LInv, TypeInv
<1>2. /\ IsHist(hist') /\ hist'.starts = hist.starts
      /\ hist'.closedByUser = hist.closedByUser /\ hist'.createFailed = hist.createFailed
      /\ hist.startSinceArmed => hist'.startSinceArmed
  BY HistIs DEF Clicked, LInv, TypeInv
<1>3. toWorker \in Seq(Messages) /\ posts \in Seq(Messages) /\ posts \in Seq(Posts)
  BY PostIs DEF LInv, TypeInv, Clicked
<1>4. toWorker' \in Seq(Messages) /\ Elems(toWorker') = Elems(toWorker) \cup Elems(posts)
  BY <1>1, <1>3, Concat, ElemsOfConcat
<1>5. \A m \in Elems(posts) : m.type # "cancel"
  BY <1>3, ElemsIn DEF Posts
<1>6. TypeInv'
  BY <1>1, <1>2, <1>4 DEF LInv, TypeInv, Clicked
<1>7. StartInv' /\ NoOrphan'
  BY <1>1, <1>2 DEF LInv, StartInv, NoOrphan, Open
<1>8. HostInv'
  BY <1>1, <1>2, <1>4, <1>5 DEF LInv, HostInv, Open
<1>9. ButtonInv'
  BY <1>1, <1>4 DEF LInv, ButtonInv, Clicked, Open, Asks
<1>10. CodeInv'
  BY <1>1, <1>2 DEF LInv, CodeInv, Clicked, Open
<1>11. KeepAlive'
  BY <1>1, <1>2 DEF LInv, KeepAlive, Clicked, Open
<1> QED BY <1>6, <1>7, <1>8, <1>9, <1>10, <1>11 DEF LInv

(* The messages the buttons post.                                           *)
LEMMA PlayerPosts ==
    /\ \A simple \in BOOLEAN : [type |-> "setUiMode", simpleUi |-> simple] \in Posts
    /\ \A ok \in BOOLEAN : [type |-> "saveSettings", urlOk |-> ok] \in Posts
    /\ \A type \in {"createRelayRoom", "fetchPublicIp", "tryUpnp", "listRooms", "openUrl",
                    "checkUpdate", "applyUpdate"} : Message(type) \in Posts
    /\ [type |-> "start", mode |-> "idle", portOk |-> TRUE] \in Posts
    /\ \A method \in {"relay", "direct", "matchmaking", "autoNat"}, target \in Texts :
          StartMessage(method, target) \in Posts
    /\ \A method \in {"relay", "direct", "autoNat"}, code \in Rooms \cup {Empty}, p \in BOOLEAN :
          [type |-> "start", mode |-> "host", method |-> method, code |-> code,
           portOk |-> TRUE, defaultPort |-> p] \in Posts
<1>1. \A simple \in BOOLEAN : [type |-> "setUiMode", simpleUi |-> simple] \in Posts
  BY DEF Posts, Messages, Others
<1>2. \A ok \in BOOLEAN : [type |-> "saveSettings", urlOk |-> ok] \in Posts
  BY DEF Posts, Messages, Others
<1>3. \A type \in {"createRelayRoom", "fetchPublicIp", "tryUpnp", "listRooms", "openUrl",
                    "checkUpdate", "applyUpdate"} : Message(type) \in Posts
  BY DEF Posts, Messages, Others, Message
<1>4. [type |-> "start", mode |-> "idle", portOk |-> TRUE] \in Posts
  BY DEF Posts, Messages, Starts
<1>5. \A method \in {"relay", "direct", "matchmaking", "autoNat"}, target \in Texts :
          StartMessage(method, target) \in Posts
  BY DEF Posts, Messages, Starts, StartMessage
<1>6. \A method \in {"relay", "direct", "autoNat"}, code \in Rooms \cup {Empty}, p \in BOOLEAN :
          [type |-> "start", mode |-> "host", method |-> method, code |-> code,
           portOk |-> TRUE, defaultPort |-> p] \in Posts
  BY DEF Posts, Messages, Starts
<1> QED BY <1>1, <1>2, <1>3, <1>4, <1>5, <1>6

(* Window updates that leave the code, the timer and the buttons alone, and *)
(* those that turn a button off.                                            *)
LEMMA WindowFields ==
    ASSUME NEW win, IsWindow(win), NEW x \in BOOLEAN,
           NEW m \in {"relay", "direct", "autoNat"}, NEW j \in {"relay", "direct"}
    PROVE  \A r \in {[win EXCEPT !.simple = x], [win EXCEPT !.advertiseEmpty = x],
                     [win EXCEPT !.defaultPort = x], [win EXCEPT !.hostMethod = m],
                     [win EXCEPT !.joinMethod = j], [win EXCEPT !.urlOk = x],
                     [win EXCEPT !.busy = x], [win EXCEPT !.installOn = x]} :
              /\ IsWindow(r) /\ r.code = win.code /\ r.timer = win.timer
              /\ r.joinOn = win.joinOn /\ r.createOn = win.createOn
              /\ r.startOn = win.startOn
BY DEF IsWindow

LEMMA PressIs ==
    ASSUME NEW win, IsWindow(win)
    PROVE  /\ LET r == [win EXCEPT !.createOn = FALSE] IN
              /\ IsWindow(r) /\ r.code = win.code /\ r.timer = win.timer
              /\ r.joinOn = win.joinOn /\ r.startOn = win.startOn
           /\ LET r == [win EXCEPT !.joinOn = FALSE] IN
              /\ IsWindow(r) /\ r.code = win.code /\ r.timer = win.timer
              /\ r.createOn = win.createOn /\ r.startOn = win.startOn
           /\ LET r == [win EXCEPT !.startOn = FALSE] IN
              /\ IsWindow(r) /\ r.code = win.code /\ r.timer = win.timer
              /\ r.createOn = win.createOn /\ r.joinOn = win.joinOn
<1>1. LET r == [win EXCEPT !.createOn = FALSE] IN
              /\ IsWindow(r) /\ r.code = win.code /\ r.timer = win.timer
              /\ r.joinOn = win.joinOn /\ r.startOn = win.startOn
  BY DEF IsWindow
<1>2. LET r == [win EXCEPT !.joinOn = FALSE] IN
              /\ IsWindow(r) /\ r.code = win.code /\ r.timer = win.timer
              /\ r.createOn = win.createOn /\ r.startOn = win.startOn
  BY DEF IsWindow
<1>3. LET r == [win EXCEPT !.startOn = FALSE] IN
              /\ IsWindow(r) /\ r.code = win.code /\ r.timer = win.timer
              /\ r.createOn = win.createOn /\ r.joinOn = win.joinOn
  BY DEF IsWindow
<1> QED BY <1>1, <1>2, <1>3

(* What posting one message asks for.                                       *)
LEMMA AsksOne ==
    /\ \A m \in Posts : <<m>> \in Seq(Posts) /\ \A type : Asks(<<m>>, type) <=> m.type = type
    /\ \A m, n \in Posts : <<m, n>> \in Seq(Posts)
                           /\ \A type : Asks(<<m, n>>, type) <=> type \in {m.type, n.type}
<1>1. \A m, n \in Posts : <<m, n>> \in Seq(Posts) /\ <<m>> \in Seq(Posts)
  OBVIOUS
<1>2. ASSUME NEW m, NEW type PROVE Asks(<<m>>, type) <=> m.type = type
  <2> DEFINE s == <<m>>
  <2>1. Elems(s) = {m}
    BY ElemsOfShort
  <2> HIDE DEF s
  <2>2. Asks(s, type) <=> m.type = type
    BY <2>1 DEF Asks
  <2> QED BY <2>2 DEF s
<1>3. ASSUME NEW m, NEW n, NEW type PROVE Asks(<<m, n>>, type) <=> type \in {m.type, n.type}
  <2> DEFINE s == <<m, n>>
  <2>1. Elems(s) = {m, n}
    BY ElemsOfShort
  <2> HIDE DEF s
  <2>2. Asks(s, type) <=> type \in {m.type, n.type}
    BY <2>1 DEF Asks
  <2> QED BY <2>2 DEF s
<1> QED BY <1>1, <1>2, <1>3

(* A click that leaves the code, the timer and the buttons alone.           *)
Still(win, posts) ==
    /\ IsWindow(win) /\ posts \in Seq(Posts)
    /\ Click(win, posts)
    /\ hist' = hist \/ hist' = [hist EXCEPT !.startSinceArmed = TRUE]
    /\ win.code = w.code /\ win.timer = w.timer
    /\ win.joinOn = w.joinOn /\ win.createOn = w.createOn
    /\ win.startOn = w.startOn \/ (win.code # None => win.startOn)

(* Such a click is one of those above.                                      *)
LEMMA StillIs ==
    ASSUME NEW win, NEW posts, Still(win, posts)
    PROVE  Clicked(win, posts)
BY DEF Still, Clicked

(* Every button, and the timer, is such a click.                            *)
LEMMA UserClicks ==
    ASSUME LInv, User \/ HeartbeatTick, ~UserCloses
    PROVE  \E win, posts : Clicked(win, posts)
<1>1. IsWindow(w) /\ IsHist(hist)
  BY DEF LInv, TypeInv
<1>2. <<>> \in Seq(Posts) /\ OnAdvertiseChanged(w) \in Seq(Posts)
  BY PostIs DEF OnAdvertiseChanged
<1>3. /\ w.simple \in BOOLEAN /\ w.urlOk \in BOOLEAN /\ w.defaultPort \in BOOLEAN
      /\ w.code \in Maybe(Rooms)
      /\ w.hostMethod \in {"relay", "direct", "autoNat"} /\ w.joinMethod \in {"relay", "direct"}
  BY <1>1 DEF IsWindow
<1>4. KeepHist => hist' = hist
  BY DEF KeepHist
<1>5. StartPosted => hist' = [hist EXCEPT !.startSinceArmed = TRUE] /\ hist'.startSinceArmed
  BY <1>1, HistIs DEF StartPosted
<1>6. ASSUME NEW simple \in BOOLEAN, SetMode(simple)
      PROVE  \E win, posts : Clicked(win, posts)
  <2> DEFINE w1 == [w EXCEPT !.simple = simple]
             win == UpdateHostControls(w1)
             posts == <<[type |-> "setUiMode", simpleUi |-> simple]>>
  <2>1. /\ IsWindow(w1) /\ w1.code = w.code /\ w1.timer = w.timer
        /\ w1.joinOn = w.joinOn /\ w1.createOn = w.createOn
    BY <1>1, WindowFields
  <2>2. Click(win, posts) /\ hist' = hist
    BY <1>4, <1>6 DEF SetMode
  <2>3. posts \in Seq(Posts)
    BY PlayerPosts, PostIs
  <2> HIDE DEF w1, posts
  <2>4. Still(win, posts)
    BY <2>1, <2>2, <2>3, UpdateHostControlsIs DEF Still
  <2> QED BY <2>4, StillIs
<1>7. ASSUME OnCreateRelayRoom
      PROVE  \E win, posts : Clicked(win, posts)
  <2> DEFINE win == [w EXCEPT !.createOn = FALSE]
             m == Message("createRelayRoom")
             posts == <<m>>
  <2>1. /\ IsWindow(win) /\ win.code = w.code /\ win.timer = w.timer
        /\ win.joinOn = w.joinOn /\ win.startOn = w.startOn
    BY <1>1, PressIs
  <2>2. Click(win, posts) /\ hist' = hist
    BY <1>4, <1>7 DEF OnCreateRelayRoom
  <2>3. m \in Posts /\ m.type = "createRelayRoom"
    BY PlayerPosts DEF Message
  <2> HIDE DEF win, m
  <2>4. posts \in Seq(Posts) /\ Asks(posts, "createRelayRoom")
    BY <2>3, AsksOne
  <2> HIDE DEF posts
  <2>5. Clicked(win, posts)
    BY <2>1, <2>2, <2>4 DEF Clicked
  <2> QED BY <2>5
<1>8. ASSUME OnPostOnly
      PROVE  \E win, posts : Clicked(win, posts)
  <2>1. PICK type \in {"fetchPublicIp", "tryUpnp", "listRooms", "openUrl"} :
            Click(w, <<Message(type)>>)
    BY <1>8 DEF OnPostOnly
  <2> DEFINE posts == <<Message(type)>>
  <2>2. posts \in Seq(Posts)
    BY PlayerPosts, PostIs
  <2>3. hist' = hist
    BY <1>4, <1>8 DEF OnPostOnly
  <2> HIDE DEF posts
  <2>4. Still(w, posts)
    BY <1>1, <2>1, <2>2, <2>3 DEF Still, posts
  <2> QED BY <2>4, StillIs
<1>9. ASSUME EditAdvertise
      PROVE  \E win, posts : Clicked(win, posts)
  <2>1. PICK empty \in BOOLEAN : Click([w EXCEPT !.advertiseEmpty = empty], OnAdvertiseChanged(w))
    BY <1>9 DEF EditAdvertise
  <2>2. hist' = hist
    BY <1>4, <1>9 DEF EditAdvertise
  <2> DEFINE win == [w EXCEPT !.advertiseEmpty = empty]
  <2>3. /\ IsWindow(win) /\ win.code = w.code /\ win.timer = w.timer
        /\ win.joinOn = w.joinOn /\ win.createOn = w.createOn /\ win.startOn = w.startOn
    BY <1>1, WindowFields
  <2> HIDE DEF win
  <2>4. Still(win, OnAdvertiseChanged(w))
    BY <1>2, <2>1, <2>2, <2>3 DEF Still, win
  <2> QED BY <2>4, StillIs
<1>10. ASSUME EditPort
       PROVE  \E win, posts : Clicked(win, posts)
  <2> DEFINE p == ~w.defaultPort
             win == [w EXCEPT !.defaultPort = p]
  <2>1. Click(win, OnAdvertiseChanged(w)) /\ hist' = hist
    BY <1>4, <1>10 DEF EditPort
  <2> HIDE DEF p
  <2>2. /\ IsWindow(win) /\ win.code = w.code /\ win.timer = w.timer
        /\ win.joinOn = w.joinOn /\ win.createOn = w.createOn /\ win.startOn = w.startOn
    <3>1. p \in BOOLEAN
      BY DEF p
    <3> QED BY <1>1, <3>1, WindowFields
  <2> HIDE DEF win
  <2>3. Still(win, OnAdvertiseChanged(w))
    BY <1>2, <2>1, <2>2 DEF Still
  <2> QED BY <2>3, StillIs
<1>11. ASSUME ChooseMethod
       PROVE  \E win, posts : Clicked(win, posts)
  <2>1. hist' = hist
    BY <1>4, <1>11 DEF ChooseMethod
  <2>2. ASSUME NEW m \in {"relay", "direct", "autoNat"},
               Click(UpdateHostControls([w EXCEPT !.hostMethod = m]), <<>>)
        PROVE  \E win, posts : Clicked(win, posts)
    <3> DEFINE w1 == [w EXCEPT !.hostMethod = m]
               win == UpdateHostControls(w1)
    <3>1. /\ IsWindow(w1) /\ w1.code = w.code /\ w1.timer = w.timer
          /\ w1.joinOn = w.joinOn /\ w1.createOn = w.createOn
      BY <1>1, WindowFields
    <3>2. Click(win, <<>>)
      BY <2>2
    <3> HIDE DEF w1
    <3>3. Still(win, <<>>)
      BY <1>2, <2>1, <3>1, <3>2, UpdateHostControlsIs DEF Still
    <3> QED BY <3>3, StillIs
  <2>3. ASSUME NEW m \in {"relay", "direct"}, Click([w EXCEPT !.joinMethod = m], <<>>)
        PROVE  \E win, posts : Clicked(win, posts)
    <3> DEFINE win == [w EXCEPT !.joinMethod = m]
    <3>1. /\ IsWindow(win) /\ win.code = w.code /\ win.timer = w.timer
          /\ win.joinOn = w.joinOn /\ win.createOn = w.createOn /\ win.startOn = w.startOn
      BY <1>1, WindowFields
    <3> HIDE DEF win
    <3>2. Still(win, <<>>)
      BY <1>2, <2>1, <2>3, <3>1 DEF Still, win
    <3> QED BY <3>2, StillIs
  <2> QED BY <1>11, <2>2, <2>3 DEF ChooseMethod
<1>12. ASSUME OnBrokerChanged
       PROVE  \E win, posts : Clicked(win, posts)
  <2>1. PICK ok \in BOOLEAN : Click([w EXCEPT !.urlOk = ok],
                                  <<[type |-> "saveSettings", urlOk |-> ok]>>)
    BY <1>12 DEF OnBrokerChanged
  <2>2. hist' = hist
    BY <1>4, <1>12 DEF OnBrokerChanged
  <2> DEFINE win == [w EXCEPT !.urlOk = ok]
             posts == <<[type |-> "saveSettings", urlOk |-> ok]>>
  <2>3. /\ IsWindow(win) /\ win.code = w.code /\ win.timer = w.timer
        /\ win.joinOn = w.joinOn /\ win.createOn = w.createOn /\ win.startOn = w.startOn
    BY <1>1, WindowFields
  <2>4. posts \in Seq(Posts)
    BY PlayerPosts, PostIs
  <2>5. Click(win, posts)
    BY <2>1
  <2> HIDE DEF win, posts
  <2>6. Still(win, posts)
    BY <2>2, <2>3, <2>4, <2>5 DEF Still
  <2> QED BY <2>6, StillIs
<1>13. ASSUME StartGameHost
       PROVE  \E win, posts : Clicked(win, posts)
  <2> DEFINE method == HostConnectMethod(w)
             code == IF method = "relay" THEN w.code ELSE Empty
             save == [type |-> "saveSettings", urlOk |-> w.urlOk]
             start == [type |-> "start", mode |-> "host", method |-> method, code |-> code,
                       portOk |-> TRUE, defaultPort |-> w.defaultPort]
             w1 == [w EXCEPT !.timer = FALSE]
             win == [w1 EXCEPT !.startOn = FALSE]
  <2>1. IF method = "relay" /\ w.code = None
        THEN Click(w, <<save>>) /\ KeepHist
        ELSE Click(win, <<save, start>>) /\ StartPosted
    BY <1>13 DEF StartGameHost, StopRelayHeartbeat
  <2>2. save \in Posts /\ save.type = "saveSettings" /\ start.type = "start"
    BY <1>3, PlayerPosts
  <2>3. method \in {"relay", "direct", "autoNat"}
    BY <1>3 DEF HostConnectMethod
  <2>4. ~(method = "relay" /\ w.code = None) => start \in Posts
    <3> SUFFICES ASSUME ~(method = "relay" /\ w.code = None) PROVE start \in Posts
      OBVIOUS
    <3> HIDE DEF method
    <3>1. code \in Rooms \cup {Empty}
      BY <1>3 DEF Maybe
    <3> HIDE DEF code
    <3> QED BY <1>3, <2>3, <3>1, PlayerPosts
  <2>5. IsWindow(w1) /\ w1.code = w.code /\ w1.joinOn = w.joinOn /\ w1.createOn = w.createOn
    BY <1>1, WithTimerIs
  <2> HIDE DEF w1, method, save, start
  <2>6. /\ IsWindow(win) /\ win.code = w.code
        /\ win.joinOn = w.joinOn /\ win.createOn = w.createOn
    BY <2>5, PressIs
  <2> HIDE DEF win
  <2>7. CASE method = "relay" /\ w.code = None
    <3> DEFINE posts == <<save>>
    <3>1. posts \in Seq(Posts) /\ Click(w, posts) /\ hist' = hist
      BY <1>4, <2>1, <2>2, <2>7, AsksOne
    <3> HIDE DEF posts
    <3>2. Still(w, posts)
      BY <1>1, <3>1 DEF Still
    <3> QED BY <3>2, StillIs
  <2>8. CASE ~(method = "relay" /\ w.code = None)
    <3> DEFINE posts == <<save, start>>
    <3>1. posts \in Seq(Posts) /\ Asks(posts, "start")
      BY <2>2, <2>4, <2>8, AsksOne
    <3>2. Click(win, posts) /\ StartPosted
      BY <2>1, <2>8
    <3> HIDE DEF posts
    <3>3. Clicked(win, posts)
      BY <1>5, <2>6, <3>1, <3>2 DEF Clicked
    <3> QED BY <3>3
  <2> QED BY <2>7, <2>8
<1>14. ASSUME StartGameJoin
       PROVE  \E win, posts : Clicked(win, posts)
  <2>1. PICK target \in Foreign \cup {Bare(r) : r \in Foreign} \cup {Addr, Junk},
             method \in {"relay", "direct"} :
          /\ Click([StopRelayHeartbeat(w) EXCEPT !.joinOn = FALSE],
                   <<StartMessage(method, target)>>)
          /\ StartPosted
    BY <1>3, <1>14 DEF StartGameJoin
  <2> DEFINE w1 == [w EXCEPT !.timer = FALSE]
             win == [w1 EXCEPT !.joinOn = FALSE]
             start == StartMessage(method, target)
             posts == <<start>>
  <2>2. Click(win, posts)
    BY <2>1 DEF StopRelayHeartbeat
  <2>3. start \in Posts /\ start.type = "start"
    <3>1. target \in Texts
      BY LauncherAssumption DEF Texts
    <3> QED BY <3>1, PlayerPosts DEF StartMessage
  <2>4. IsWindow(w1) /\ w1.code = w.code /\ w1.startOn = w.startOn /\ w1.createOn = w.createOn
    BY <1>1, WithTimerIs
  <2> HIDE DEF w1, start
  <2>5. /\ IsWindow(win) /\ win.code = w.code
        /\ win.startOn = w.startOn /\ win.createOn = w.createOn
    BY <2>4, PressIs
  <2>6. posts \in Seq(Posts) /\ Asks(posts, "start")
    BY <2>3, AsksOne
  <2> HIDE DEF win, posts
  <2>7. Clicked(win, posts)
    BY <1>5, <2>1, <2>2, <2>5, <2>6 DEF Clicked
  <2> QED BY <2>7
<1>15. ASSUME OnStartOffline
       PROVE  \E win, posts : Clicked(win, posts)
  <2> DEFINE win == [w EXCEPT !.timer = FALSE]
             start == [type |-> "start", mode |-> "idle", portOk |-> TRUE]
             posts == <<start>>
  <2>1. Click(win, posts) /\ StartPosted
    BY <1>15 DEF OnStartOffline, StopRelayHeartbeat
  <2>2. posts \in Seq(Posts)
    BY PlayerPosts, PostIs
  <2>3. /\ IsWindow(win) /\ win.code = w.code /\ win.joinOn = w.joinOn
        /\ win.startOn = w.startOn /\ win.createOn = w.createOn
    BY <1>1, WithTimerIs
  <2> HIDE DEF win, posts
  <2>4. Clicked(win, posts)
    BY <1>5, <2>1, <2>2, <2>3 DEF Clicked
  <2> QED BY <2>4
<1>16. ASSUME OnFindMatch
       PROVE  \E win, posts : Clicked(win, posts)
  <2> DEFINE posts == <<StartMessage("matchmaking", Empty)>>
  <2>1. Click(w, posts) /\ StartPosted
    BY <1>16 DEF OnFindMatch
  <2>2. posts \in Seq(Posts)
    BY PlayerPosts, PostIs DEF Texts
  <2> HIDE DEF posts
  <2>3. Still(w, posts)
    BY <1>1, <1>5, <2>1, <2>2 DEF Still
  <2> QED BY <2>3, StillIs
<1>17. ASSUME OnRoomSelected
       PROVE  \E win, posts : Clicked(win, posts)
  <2> DEFINE win == [w EXCEPT !.joinMethod = "relay"]
  <2>1. Click(win, <<>>) /\ hist' = hist
    BY <1>4, <1>17 DEF OnRoomSelected
  <2>2. /\ IsWindow(win) /\ win.code = w.code /\ win.timer = w.timer
        /\ win.joinOn = w.joinOn /\ win.createOn = w.createOn /\ win.startOn = w.startOn
    BY <1>1, WindowFields
  <2> HIDE DEF win
  <2>3. Still(win, <<>>)
    BY <1>2, <2>1, <2>2 DEF Still
  <2> QED BY <2>3, StillIs
<1>18. ASSUME OnCheckUpdate
       PROVE  \E win, posts : Clicked(win, posts)
  <2> DEFINE win == [w EXCEPT !.busy = TRUE]
             posts == <<Message("checkUpdate")>>
  <2>1. Click(win, posts) /\ hist' = hist
    BY <1>4, <1>18 DEF OnCheckUpdate
  <2>2. posts \in Seq(Posts)
    BY PlayerPosts, PostIs
  <2>3. /\ IsWindow(win) /\ win.code = w.code /\ win.timer = w.timer
        /\ win.joinOn = w.joinOn /\ win.createOn = w.createOn /\ win.startOn = w.startOn
    BY <1>1, WindowFields
  <2> HIDE DEF win, posts
  <2>4. Still(win, posts)
    BY <2>1, <2>2, <2>3 DEF Still
  <2> QED BY <2>4, StillIs
<1>19. ASSUME OnApplyUpdate
       PROVE  \E win, posts : Clicked(win, posts)
  <2> DEFINE w1 == [w EXCEPT !.busy = TRUE]
             win == [w1 EXCEPT !.installOn = FALSE]
             posts == <<Message("applyUpdate")>>
  <2>1. Click(win, posts) /\ hist' = hist
    BY <1>4, <1>19 DEF OnApplyUpdate
  <2>2. posts \in Seq(Posts)
    BY PlayerPosts, PostIs
  <2>3. /\ IsWindow(w1) /\ w1.code = w.code /\ w1.timer = w.timer
        /\ w1.joinOn = w.joinOn /\ w1.createOn = w.createOn /\ w1.startOn = w.startOn
    BY <1>1, WindowFields
  <2> HIDE DEF w1, posts
  <2>4. /\ IsWindow(win) /\ win.code = w.code /\ win.timer = w.timer
        /\ win.joinOn = w.joinOn /\ win.createOn = w.createOn /\ win.startOn = w.startOn
    BY <2>3, WindowFields
  <2> HIDE DEF win
  <2>5. Still(win, posts)
    BY <2>1, <2>2, <2>4 DEF Still
  <2> QED BY <2>5, StillIs
<1>20. ASSUME HeartbeatTick
       PROVE  \E win, posts : Clicked(win, posts)
  <2> DEFINE s == OnRelayHeartbeat(w)
  <2>1. Click(s.w, s.posts) /\ hist' = hist
    BY <1>4, <1>20 DEF HeartbeatTick
  <2>2. /\ s.posts \in Seq(Posts)
        /\ IsWindow(s.w) /\ s.w.code = w.code
        /\ s.w.timer = IF w.code = None THEN FALSE ELSE w.timer
        /\ s.w.joinOn = w.joinOn /\ s.w.createOn = w.createOn
        /\ s.w.startOn = w.startOn
    BY <1>1, HeartbeatIs
  <2> HIDE DEF s
  <2>3. Clicked(s.w, s.posts)
    BY <2>1, <2>2 DEF Clicked
  <2> QED BY <2>3
<1> QED BY <1>6, <1>7, <1>8, <1>9, <1>10, <1>11, <1>12, <1>13, <1>14, <1>15, <1>16, <1>17,
           <1>18, <1>19, <1>20 DEF User

(* Counting the starts.                                                     *)
LEMMA CountStartIs ==
    ASSUME NEW h, IsHist(h), NEW m \in Messages
    PROVE  LET r == CountStart(h, m) IN
           /\ IsHist(r)
           /\ r.closedByUser = h.closedByUser /\ r.createFailed = h.createFailed
           /\ r.startSinceArmed = h.startSinceArmed
           /\ r.starts = IF m \in Starts THEN IF h.starts < 2 THEN h.starts + 1 ELSE 2
                         ELSE h.starts
<1>1. m \in Starts <=> IsStart(m)
  <2>1. \A x \in Starts : IsStart(x)
    BY DEF Starts, IsStart
  <2>2. \A x \in Others : ~IsStart(x)
    BY DEF Others, IsStart
  <2> QED BY <2>1, <2>2 DEF Messages
<1> DEFINE n == IF IsStart(m) /\ h.starts < 2 THEN h.starts + 1 ELSE h.starts
           r == [h EXCEPT !.starts = n]
<1>2. n \in 0 .. 2 /\ n = IF m \in Starts THEN IF h.starts < 2 THEN h.starts + 1 ELSE 2
                         ELSE h.starts
  <2>1. h.starts \in 0 .. 2
    BY DEF IsHist
  <2> QED BY <1>1, <2>1
<1> HIDE DEF n
<1>3. /\ IsHist(r) /\ r.closedByUser = h.closedByUser /\ r.createFailed = h.createFailed
      /\ r.startSinceArmed = h.startSinceArmed /\ r.starts = n
  BY <1>2 DEF IsHist
<1>4. CountStart(h, m) = r
  BY DEF CountStart, n
<1> HIDE DEF r
<1> QED BY <1>2, <1>3, <1>4

(* What the worker queues after a message.                                  *)
LEMMA EmittedIs ==
    ASSUME NEW o, IsController(o.c), o.reply \in Maybe(Replies)
    PROVE  LET e == Emitted(o) IN
           /\ e \in Seq(Replies \cup Signals)
           /\ o.reply # None => 1 \in DOMAIN e /\ e[1] = o.reply
           /\ o.reply # None => o.reply \in Elems(e)
           /\ o.c.finished => \E r \in Elems(e) : r.type = "launcherFinished"
           /\ \A r \in Elems(e) : \/ o.reply # None /\ r = o.reply
                                  \/ r.type = "exitForUpdate"
                                  \/ r.type = "launcherFinished" /\ o.c.finished
<1> DEFINE S == Replies \cup Signals
           e1 == IF o.reply = None THEN <<>> ELSE <<o.reply>>
           e2 == IF o.c.exitForUpdate THEN <<Message("exitForUpdate")>> ELSE <<>>
           e3 == IF o.c.finished THEN <<Message("launcherFinished")>> ELSE <<>>
<1>1. Emitted(o) = (e1 \o e2) \o e3
  BY DEF Emitted
<1>2. e1 \in Seq(S) /\ Elems(e1) = IF o.reply = None THEN {} ELSE {o.reply}
  <2>1. CASE o.reply = None
    BY <2>1, ElemsOfShort
  <2>2. CASE o.reply # None
    <3>1. o.reply \in S /\ e1 = <<o.reply>>
      BY <2>2 DEF Maybe
    <3> HIDE DEF e1, S
    <3> QED BY <2>2, <3>1, ElemsOfShort
  <2> QED BY <2>1, <2>2
<1>3. o.reply # None => 1 \in DOMAIN e1 /\ e1[1] = o.reply
  OBVIOUS
<1>4. e2 \in Seq(S) /\ \A r \in Elems(e2) : r.type = "exitForUpdate"
  <2> DEFINE m == Message("exitForUpdate")
  <2>1. m \in S /\ m.type = "exitForUpdate"
    BY DEF Message, Signals
  <2> HIDE DEF m
  <2>2. e2 = <<m>> \/ e2 = <<>>
    BY DEF m
  <2> HIDE DEF e2, S
  <2>3. CASE e2 = <<m>>
    BY <2>1, <2>3, ElemsOfShort
  <2>4. CASE e2 = <<>>
    BY <2>4, ElemsOfShort
  <2> QED BY <2>2, <2>3, <2>4
<1>5. /\ e3 \in Seq(S)
      /\ o.c.finished => \E r \in Elems(e3) : r.type = "launcherFinished"
      /\ \A r \in Elems(e3) : r.type = "launcherFinished" /\ o.c.finished
  <2> DEFINE m == Message("launcherFinished")
  <2>1. m \in S /\ m.type = "launcherFinished"
    BY DEF Message, Signals
  <2> HIDE DEF m
  <2>2. (o.c.finished /\ e3 = <<m>>) \/ (~o.c.finished /\ e3 = <<>>)
    BY DEF m
  <2> HIDE DEF e3, S
  <2>3. CASE e3 = <<m>>
    <3>1. Elems(e3) = {m} /\ e3 \in Seq(S) /\ o.c.finished
      <4>1. <<m>> # <<>>
        OBVIOUS
      <4> QED BY <2>1, <2>2, <2>3, <4>1, ElemsOfShort
    <3> QED BY <2>1, <3>1
  <2>4. CASE e3 = <<>>
    <3>1. Elems(e3) = {} /\ e3 \in Seq(S) /\ ~o.c.finished
      <4>1. <<m>> # <<>>
        OBVIOUS
      <4> QED BY <2>2, <2>4, <4>1, ElemsOfShort
    <3> QED BY <3>1
  <2> QED BY <2>2, <2>3, <2>4
<1> HIDE DEF e1, e2, e3, S
<1> DEFINE f == e1 \o e2
<1>6. /\ f \in Seq(S) /\ Elems(f) = Elems(e1) \cup Elems(e2)
      /\ 1 \in DOMAIN e1 => 1 \in DOMAIN f /\ f[1] = e1[1]
  BY <1>2, <1>4, Concat, ElemsOfConcat
<1> HIDE DEF f
<1> DEFINE e == f \o e3
<1>7. /\ e \in Seq(S) /\ Elems(e) = Elems(f) \cup Elems(e3)
      /\ 1 \in DOMAIN f => 1 \in DOMAIN e /\ e[1] = f[1]
  BY <1>5, <1>6, Concat, ElemsOfConcat
<1>8. Emitted(o) = e
  BY <1>1 DEF f
<1> HIDE DEF e
<1> QED BY <1>2, <1>3, <1>4, <1>5, <1>6, <1>7, <1>8 DEF S

(* The rooms outside only grow.                                             *)
LEMMA HandledIs ==
    ASSUME IsOutside(b), NEW m, NEW o, Handled(m, o), o.made \in Maybe(Rooms)
    PROVE  IsOutside(b') /\ c' = o.c
<1>1. CASE o.made = None
  BY <1>1 DEF Handled
<1>2. CASE o.made # None
  <2> DEFINE l == b.live \cup {o.made}
             s == b.spent \cup {o.made}
             x1 == [b EXCEPT !.live = l]
             x2 == [x1 EXCEPT !.spent = s]
  <2>1. b' = x2 /\ c' = o.c
    BY <1>2 DEF Handled
  <2>2. l \subseteq s /\ s \subseteq Rooms /\ Foreign \subseteq s
    BY <1>2 DEF IsOutside, Maybe
  <2> HIDE DEF l, s
  <2>3. /\ x1.live = l /\ x1.vps \in BOOLEAN
        /\ x1 = [live |-> x1.live, spent |-> x1.spent, vps |-> x1.vps, env |-> x1.env]
    BY DEF IsOutside
  <2> HIDE DEF x1
  <2>4. IsOutside(x2)
    BY <2>2, <2>3 DEF IsOutside
  <2> QED BY <2>1, <2>4
<1> QED BY <1>1, <1>2

(* One lemma per step of the launcher.                                      *)
LEMMA StartUpKeeps == LInv /\ StartUp => LInv'
<1> SUFFICES ASSUME LInv, StartUp PROVE LInv'
  OBVIOUS
<1>1. /\ UNCHANGED <<b, ui, c, w, toWorker, toGui, clicks, hist>>
      /\ proc = "starting" /\ proc' \in {"ui", "exited"}
  BY DEF StartUp
<1>2. /\ w = NewWindow /\ toGui = <<>> /\ c.relayHost = "none"
      /\ ~c.finished /\ ~c.exitForUpdate /\ ~Ready(c)
  BY <1>1 DEF LInv, HostInv, Ready
<1>3. TypeInv'
  BY <1>1 DEF LInv, TypeInv
<1>4. StartInv' /\ NoOrphan'
  BY <1>1, <1>2 DEF LInv, StartInv, NoOrphan
<1>5. HostInv'
  BY <1>1, <1>2 DEF LInv, HostInv
<1>6. ButtonInv'
  BY <1>1, <1>2, NewWindowIs DEF ButtonInv
<1>7. CodeInv'
  BY <1>1, <1>2, NewWindowIs DEF CodeInv
<1>8. KeepAlive'
  BY <1>1, <1>2, NewWindowIs DEF KeepAlive
<1> QED BY <1>3, <1>4, <1>5, <1>6, <1>7, <1>8 DEF LInv

LEMMA UserClosesKeeps == LInv /\ UserCloses => LInv'
<1> SUFFICES ASSUME LInv, UserCloses PROVE LInv'
  OBVIOUS
<1>1. /\ UNCHANGED <<b, ui, c, clicks>> /\ ui = "qt" /\ proc = "ui"
      /\ proc' = "closing" /\ w' = NewWindow /\ toGui' = <<>>
      /\ toWorker' \in {toWorker, Append(toWorker, Message("cancel"))}
      /\ hist' = [hist EXCEPT !.closedByUser = TRUE]
  BY DEF UserCloses, CloseEvent, Quit
<1>2. IsHist(hist') /\ hist'.closedByUser /\ hist'.starts = hist.starts
  BY <1>1 DEF LInv, TypeInv, IsHist
<1>3. toWorker' \in Seq(Messages)
  <2>1. Message("cancel") \in Messages
    BY DEF Messages, Others, Message
  <2> QED BY SMTT(30), <1>1, <2>1, AppendProperties DEF LInv, TypeInv
<1>4. Elems(toGui') = {}
  BY <1>1, ElemsOfShort
<1>5. TypeInv'
  BY <1>1, <1>2, <1>3, NewWindowIs DEF LInv, TypeInv
<1>6. StartInv' /\ NoOrphan'
  BY <1>1, <1>2 DEF LInv, StartInv, NoOrphan
<1>7. HostInv'
  BY <1>1, <1>2, <1>4 DEF LInv, HostInv
<1>8. ~Open'
  BY <1>1 DEF Open
<1> QED BY <1>5, <1>6, <1>7, <1>8, Closed DEF LInv

(* The launcher exits with nothing changed.                                 *)
LEMMA LeavesKeeps ==
    ASSUME LInv, UNCHANGED <<b, ui, c, w, toWorker, toGui, clicks, hist>>,
           proc # "starting", proc' = "exited",
           c.relayHost = "live" => hist.closedByUser \/ hist.createFailed
    PROVE  LInv'
<1>1. TypeInv'
  BY DEF LInv, TypeInv
<1>2. StartInv' /\ NoOrphan'
  BY DEF LInv, StartInv, NoOrphan
<1>3. HostInv'
  BY DEF LInv, HostInv
<1>4. ~Open'
  BY DEF Open
<1> QED BY <1>1, <1>2, <1>3, <1>4, Closed DEF LInv

LEMMA IpcStdinEndsKeeps == LInv /\ IpcStdinEnds => LInv'
<1> SUFFICES ASSUME LInv, IpcStdinEnds PROVE LInv'
  OBVIOUS
<1>1. /\ UNCHANGED <<b, ui, c, w, toWorker, toGui, clicks, hist>>
      /\ ui = "ipc" /\ proc = "ui" /\ proc' = "exited"
  BY DEF IpcStdinEnds
<1>2. c.relayHost # "live"
  BY <1>1 DEF LInv, HostInv
<1> QED BY <1>1, <1>2, LeavesKeeps

LEMMA UiReturnsKeeps == LInv /\ UiReturns => LInv'
<1> SUFFICES ASSUME LInv, UiReturns PROVE LInv'
  OBVIOUS
<1>1. /\ UNCHANGED <<b, ui, c, w, toGui, clicks, hist>>
      /\ ui = "qt" /\ proc = "closing" /\ toWorker' = <<>>
      /\ proc' = IF Ready(c) THEN "launching" ELSE "exited"
  BY DEF UiReturns, Ready
<1>2. Elems(toWorker') = {} /\ toWorker' \in Seq(Messages)
  BY <1>1, ElemsOfShort
<1>3. TypeInv'
  BY <1>1, <1>2 DEF LInv, TypeInv
<1>4. hist.starts \in 0 .. 2
  BY DEF LInv, TypeInv, IsHist
<1>5. StartInv'
  <2>1. Ready(c) /\ hist.starts < 2 => Configured(c)
    BY <1>1, <1>4 DEF LInv, StartInv
  <2> QED BY <1>1, <2>1 DEF LInv, StartInv
<1>6. NoOrphan'
  BY <1>1 DEF LInv, NoOrphan, HostInv, Ready
<1>7. HostInv'
  BY <1>1, <1>2 DEF LInv, HostInv
<1>8. ~Open'
  BY <1>1 DEF Open
<1> QED BY <1>3, <1>5, <1>6, <1>7, <1>8, Closed DEF LInv

LEMMA CreateSF4ProcessKeeps == LInv /\ CreateSF4Process => LInv'
<1> SUFFICES ASSUME LInv, CreateSF4Process PROVE LInv'
  OBVIOUS
<1>1. /\ UNCHANGED <<b, ui, c, w, toWorker, toGui, clicks>>
      /\ proc = "launching" /\ proc' \in {"exited", "game"}
      /\ \/ proc' = "exited" /\ (c.relayHost = "none" \/ hist'.createFailed)
         \/ proc' = "game"
      /\ IsHist(hist') /\ hist'.closedByUser = hist.closedByUser
      /\ hist'.starts = hist.starts
  <2>1. IsHist(hist)
    BY DEF LInv, TypeInv
  <2>2. CASE hist' = [hist EXCEPT !.launched = TRUE]
                 /\ proc' = IF c.relayHost = "none" THEN "exited" ELSE "game"
    BY <2>1, <2>2 DEF CreateSF4Process, IsHist
  <2>3. CASE hist' = [hist EXCEPT !.createFailed = TRUE] /\ proc' = "exited"
    BY <2>1, <2>3 DEF CreateSF4Process, IsHist
  <2> QED BY <2>2, <2>3 DEF CreateSF4Process
<1>2. TypeInv'
  BY <1>1 DEF LInv, TypeInv
<1>3. StartInv' /\ NoOrphan'
  BY <1>1 DEF LInv, StartInv, NoOrphan
<1>4. HostInv'
  BY <1>1 DEF LInv, HostInv
<1>5. ~Open'
  BY <1>1 DEF Open
<1> QED BY <1>2, <1>3, <1>4, <1>5, Closed DEF LInv

(* The controller with RelayHost in another state.                          *)
LEMMA WithRelayHostIs ==
    ASSUME NEW k, IsController(k), NEW state \in {"none", "live", "dead"}
    PROVE  LET r == [k EXCEPT !.relayHost = state] IN
           /\ IsController(r) /\ r.relayHost = state
           /\ r.cfg = k.cfg /\ r.settings = k.settings /\ r.creds = k.creds
           /\ r.finished = k.finished /\ r.cancelled = k.cancelled
           /\ r.exitForUpdate = k.exitForUpdate
BY DEF IsController

LEMMA GameExitsKeeps == LInv /\ GameExits => LInv'
<1> SUFFICES ASSUME LInv, GameExits PROVE LInv'
  OBVIOUS
<1>1. /\ UNCHANGED <<b, ui, w, toWorker, toGui, clicks, hist>>
      /\ proc = "game" /\ proc' = "exited"
      /\ c' = [c EXCEPT !.relayHost = "none"]
  BY DEF GameExits, StopRelayHost
<1>2. /\ IsController(c') /\ c'.relayHost = "none" /\ c'.finished = c.finished
      /\ c'.cancelled = c.cancelled
  BY <1>1, WithRelayHostIs DEF LInv, TypeInv
<1>3. TypeInv'
  BY <1>1, <1>2 DEF LInv, TypeInv
<1>4. StartInv' /\ NoOrphan'
  BY <1>1, <1>2 DEF LInv, StartInv, NoOrphan, Ready
<1>5. HostInv'
  BY <1>1, <1>2 DEF LInv, HostInv
<1>6. ~Open'
  BY <1>1 DEF Open
<1> QED BY <1>3, <1>4, <1>5, <1>6, Closed DEF LInv

LEMMA RelayHostDiesKeeps == LInv /\ RelayHostDies => LInv'
<1> SUFFICES ASSUME LInv, RelayHostDies PROVE LInv'
  OBVIOUS
<1>1. /\ UNCHANGED <<b, ui, w, toWorker, toGui, proc, clicks, hist>>
      /\ c.relayHost = "live" /\ proc # "exited"
      /\ c' = [c EXCEPT !.relayHost = "dead"]
  BY DEF RelayHostDies
<1>2. /\ IsController(c') /\ c'.relayHost = "dead" /\ c'.finished = c.finished
      /\ c'.cancelled = c.cancelled /\ c'.cfg = c.cfg /\ c'.settings = c.settings
      /\ c'.exitForUpdate = c.exitForUpdate
  BY <1>1, WithRelayHostIs DEF LInv, TypeInv
<1>3. TypeInv'
  BY <1>1, <1>2 DEF LInv, TypeInv
<1>4. StartInv' /\ NoOrphan'
  BY <1>1, <1>2 DEF LInv, StartInv, NoOrphan, Ready, Configured
<1>5. HostInv'
  BY <1>1, <1>2 DEF LInv, HostInv
<1>6. ButtonInv'
  BY <1>1 DEF LInv, ButtonInv, Open
<1>7. CodeInv' /\ KeepAlive'
  BY <1>1, <1>2 DEF LInv, CodeInv, KeepAlive, Open
<1> QED BY <1>3, <1>4, <1>5, <1>6, <1>7 DEF LInv

(* A config made from the command line.                                     *)
LEMMA WizardIs ==
    ASSUME NEW mode \in {"idle", "host", "join"}, NEW t \in Texts, IsOutside(b),
           NEW cfg \in WizardConfigs(mode, t), cfg # None
    PROVE  /\ IsConfig(cfg) /\ cfg.central = 0
           /\ cfg.mode # "idle" => cfg.session # None
<1>1. ASSUME NEW m \in {"host", "join"}, NEW e \in Rooms \cup {Addr},
             cfg = [NoConfig EXCEPT !.mode = m, !.session = e]
      PROVE  /\ IsConfig(cfg) /\ cfg.central = 0 /\ cfg.session # None
  <2>1. IsConfig(cfg)
    BY <1>1, NoConfigIs DEF IsConfig, NoConfig, Maybe
  <2> QED BY <1>1, <2>1, RoomsAssumption DEF NoConfig
<1>2. CASE mode = "idle"
  BY <1>2, NoConfigIs DEF WizardConfigs
<1>3. CASE mode = "host"
  BY <1>1, <1>3 DEF WizardConfigs
<1>4. CASE mode = "join" /\ IsShortRoomCode(t)
  <2>1. PICK sr \in ResolveJoinRelayRoom(t, b.live, c.settings.urlOk) :
           cfg = IF sr.ok THEN [NoConfig EXCEPT !.mode = "join", !.session = sr.endpoint]
                 ELSE None
    BY <1>4 DEF WizardConfigs
  <2>2. sr.ok /\ sr.endpoint \in Rooms
    BY <2>1, ResolveIs DEF IsOutside
  <2> QED BY <1>1, <2>1, <2>2
<1>5. CASE mode = "join" /\ ~IsShortRoomCode(t)
  <2>1. cfg = [NoConfig EXCEPT !.mode = "join", !.session = Addr]
    BY <1>5 DEF WizardConfigs
  <2> QED BY <1>1, <2>1
<1> QED BY <1>2, <1>3, <1>4, <1>5

LEMMA CommandLineKeeps == LInv /\ CommandLine => LInv'
<1> SUFFICES ASSUME LInv, CommandLine PROVE LInv'
  OBVIOUS
<1>1. /\ UNCHANGED <<b, ui, w, toWorker, toGui, clicks, hist>>
      /\ ui = "cli" /\ proc = "ui"
  BY DEF CommandLine
<1>2. c.relayHost = "none"
  BY <1>1 DEF LInv, StartInv
<1>3. PICK mode \in {"idle", "host", "join"}, t \in Foreign \cup {Addr, Junk} :
         \E cfg \in WizardConfigs(mode, t) :
             IF cfg = None
             THEN proc' = "exited" /\ UNCHANGED c
             ELSE proc' = "launching" /\ c' = [c EXCEPT !.cfg = cfg]
  BY DEF CommandLine
<1>4. PICK cfg \in WizardConfigs(mode, t) :
             IF cfg = None
             THEN proc' = "exited" /\ UNCHANGED c
             ELSE proc' = "launching" /\ c' = [c EXCEPT !.cfg = cfg]
  BY <1>3
<1>5. t \in Texts
  BY LauncherAssumption DEF Texts
<1>6. CASE cfg = None
  BY <1>1, <1>2, <1>4, <1>6, LeavesKeeps
<1>7. CASE cfg # None
  <2>1. /\ IsConfig(cfg) /\ cfg.central = 0
        /\ cfg.mode # "idle" => cfg.session # None
    BY <1>5, <1>7, WizardIs DEF LInv, TypeInv
  <2>2. proc' = "launching" /\ c' = [c EXCEPT !.cfg = cfg]
    BY <1>4, <1>7
  <2>3. /\ IsController(c') /\ c'.relayHost = "none" /\ c'.finished = c.finished
        /\ c'.cancelled = c.cancelled /\ c'.cfg = cfg
    BY <1>2, <2>1, <2>2, WithConfigIs DEF LInv, TypeInv
  <2>4. TypeInv'
    BY <1>1, <2>2, <2>3 DEF LInv, TypeInv
  <2>5. StartInv' /\ NoOrphan'
    BY <1>1, <2>1, <2>2, <2>3 DEF LInv, StartInv, NoOrphan, Ready, Configured
  <2>6. HostInv'
    BY <1>1, <2>2, <2>3 DEF LInv, HostInv
  <2>7. ~Open'
    BY <1>1, <2>2 DEF Open
  <2> QED BY <2>4, <2>5, <2>6, <2>7, Closed DEF LInv
<1> QED BY <1>6, <1>7

(* What handling one message does to the controller, on any thread.         *)
LEMMA HandlingIs ==
    ASSUME LInv, NEW m \in Messages, NEW o \in HandleWebMessage(c, b, m), Handled(m, o),
           hist' = CountStart(hist, m)
    PROVE  /\ c' = o.c /\ IsController(c') /\ IsOutside(b')
           /\ o.reply \in Maybe(Replies)
           /\ IsHist(hist') /\ hist'.closedByUser = hist.closedByUser
           /\ hist'.createFailed = hist.createFailed
           /\ hist'.startSinceArmed = hist.startSinceArmed
           /\ hist'.starts = 0 => /\ hist.starts = 0 /\ m \in Others
                                  /\ ~Ready(c') /\ c'.relayHost = "none"
           /\ hist'.starts = 1 /\ Ready(c') =>
                  Configured(c') \/ (hist.starts = 1 /\ Ready(c) /\ ~Configured(c))
           /\ c.finished => c'.finished
           /\ c'.finished /\ c'.cancelled =>
                  (c.finished /\ c.cancelled) \/ m.type = "cancel"
           /\ c'.relayHost = "live" => c.relayHost = "live" \/ Ready(c')
           /\ ~(c.finished \/ c.exitForUpdate) /\ c'.exitForUpdate => c'.relayHost = c.relayHost
           /\ m \in Starts => Started(c, o)
           /\ m \in Others => Answered(c, b, m, o)
<1>1. IsController(c) /\ IsOutside(b) /\ IsHist(hist)
  BY DEF LInv, TypeInv
<1>2. /\ IsHist(hist')
      /\ hist'.closedByUser = hist.closedByUser /\ hist'.createFailed = hist.createFailed
      /\ hist'.startSinceArmed = hist.startSinceArmed
      /\ hist'.starts = IF m \in Starts THEN IF hist.starts < 2 THEN hist.starts + 1 ELSE 2
                        ELSE hist.starts
      /\ hist.starts \in 0 .. 2
  BY <1>1, CountStartIs DEF IsHist
<1>3. hist.starts = 0 => ~Ready(c) /\ c.relayHost = "none"
  BY DEF LInv, StartInv
<1>4. \A x \in Starts : x \notin Others
  <2>1. \A x \in Starts : x.type \in {"start", "offlineStart"}
    BY DEF Starts
  <2>2. \A x \in Others : x.type \notin {"start", "offlineStart"}
    BY DEF Others
  <2> QED BY <2>1, <2>2
<1>5. CASE m \in Starts
  <2>1. Started(c, o)
    BY <1>1, <1>5, StartIs
  <2>2. /\ IsController(o.c) /\ o.made = None /\ o.reply \in Maybe(Replies)
        /\ o.c.exitForUpdate = c.exitForUpdate
        /\ \/ /\ o.reply = Error
              /\ o.c.finished = c.finished /\ o.c.cancelled = c.cancelled
              /\ o.c.relayHost \in {c.relayHost, "none"}
           \/ /\ o.reply = None /\ Ready(o.c)
              /\ c.relayHost = "none" => Configured(o.c)
    BY <2>1, ErrorIs DEF Started, Maybe
  <2>3. IsOutside(b') /\ c' = o.c
    BY <1>1, <2>2, HandledIs DEF Maybe
  <2>4. hist'.starts # 0 /\ (hist'.starts = 1 => hist.starts = 0)
    BY <1>2, <1>5
  <2>5. CASE o.reply = Error
    BY <1>2, <1>3, <1>4, <1>5, <2>1, <2>2, <2>3, <2>4, <2>5, ErrorIs DEF Ready
  <2>6. CASE o.reply # Error
    BY <1>2, <1>3, <1>4, <1>5, <2>1, <2>2, <2>3, <2>4, <2>6, ErrorIs DEF Ready
  <2> QED BY <2>5, <2>6
<1>6. CASE m \in Others
  <2>1. Answered(c, b, m, o)
    BY <1>1, <1>6, OtherIs
  <2>2. /\ IsController(o.c) /\ o.c.cfg = c.cfg /\ o.c.relayHost = c.relayHost
        /\ o.made \in Maybe(Rooms) /\ o.reply \in Maybe(Replies)
        /\ IF m.type = "cancel" THEN o.c.finished /\ o.c.cancelled
           ELSE o.c.finished = c.finished /\ o.c.cancelled = c.cancelled
    BY <2>1 DEF Answered
  <2>3. IsOutside(b') /\ c' = o.c
    BY <1>1, <2>2, HandledIs
  <2>4. hist'.starts = hist.starts
    BY <1>2, <1>4, <1>6
  <2> QED BY <1>2, <1>3, <1>4, <1>6, <2>1, <2>2, <2>3, <2>4 DEF Ready, Configured
<1> QED BY <1>5, <1>6 DEF Messages

(* The bridge sends no other messages.                                      *)
LEMMA IpcMessagesAre == IpcMessages \subseteq Messages
<1>1. \A m \in {Message(t) : t \in {"getState", "createRelayRoom", "applyUpdate", "cancel",
                         "copyText", "offlineStart", "unknown"}} : m \in Messages
  BY DEF Message, Messages, Others, Starts
<1>2. \A ok \in BOOLEAN :
         [type |-> "start", mode |-> "host", method |-> "relay", code |-> Empty,
          portOk |-> ok, defaultPort |-> TRUE] \in Messages
  BY DEF Messages, Starts
<1>3. \A method \in {"relay", "autoNat"}, target \in {Bare(r) : r \in Foreign} :
         StartMessage(method, target) \in Messages
  BY LauncherAssumption DEF StartMessage, Messages, Starts, Texts
<1> QED BY <1>1, <1>2, <1>3 DEF IpcMessages

LEMMA IpcLineKeeps == LInv /\ IpcLine => LInv'
<1> SUFFICES ASSUME LInv, IpcLine PROVE LInv'
  OBVIOUS
<1>1. /\ UNCHANGED <<ui, w, toWorker, toGui>> /\ ui = "ipc" /\ proc = "ui"
      /\ clicks' \in 0 .. MaxClicks
  BY LauncherAssumption DEF IpcLine, LInv, TypeInv
<1>0. PICK m \in IpcMessages :
          /\ \E o \in HandleWebMessage(c, b, m) :
                /\ Handled(m, o)
                /\ proc' = IF o.c.exitForUpdate THEN "exited"
                           ELSE IF ~o.c.finished THEN "ui"
                           ELSE IF o.c.cancelled THEN "exited" ELSE "launching"
          /\ hist' = CountStart(hist, m)
  BY DEF IpcLine
<1>2. PICK o \in HandleWebMessage(c, b, m) :
          /\ Handled(m, o) /\ hist' = CountStart(hist, m)
          /\ proc' = IF o.c.exitForUpdate THEN "exited"
                           ELSE IF ~o.c.finished THEN "ui"
                           ELSE IF o.c.cancelled THEN "exited" ELSE "launching"
  BY <1>0
<1>3. m \in Messages
  BY IpcMessagesAre
<1>4. /\ c' = o.c /\ IsController(c') /\ IsOutside(b')
      /\ IsHist(hist') /\ hist'.closedByUser = hist.closedByUser
      /\ hist'.createFailed = hist.createFailed
      /\ hist'.starts = 0 => ~Ready(c') /\ c'.relayHost = "none"
      /\ hist'.starts = 1 /\ Ready(c') => Configured(c') \/ (hist.starts = 1 /\ Ready(c))
      /\ c.finished => c'.finished
      /\ c'.relayHost = "live" => c.relayHost = "live" \/ Ready(c')
      /\ ~(c.finished \/ c.exitForUpdate) /\ c'.exitForUpdate => c'.relayHost = c.relayHost
  BY <1>2, <1>3, HandlingIs
<1>5. ~c.finished /\ ~c.exitForUpdate /\ c.relayHost # "live" /\ ~Ready(c)
  BY <1>1 DEF LInv, HostInv, Ready
<1>6. proc' = IF c'.exitForUpdate THEN "exited"
                           ELSE IF ~c'.finished THEN "ui"
                           ELSE IF c'.cancelled THEN "exited" ELSE "launching"
  BY <1>2, <1>4
<1>7. TypeInv'
  BY <1>1, <1>4, <1>6 DEF LInv, TypeInv
<1>8. StartInv'
  <2>1. hist'.starts \in 0 .. 2
    BY <1>4 DEF IsHist
  <2> QED BY <1>1, <1>4, <1>5, <1>6, <2>1 DEF StartInv, Ready
<1>9. NoOrphan'
  BY <1>4, <1>5, <1>6 DEF NoOrphan, Ready
<1>10. HostInv'
  BY <1>1, <1>4, <1>5, <1>6 DEF LInv, HostInv, Ready
<1>11. ~Open'
  BY <1>1 DEF Open
<1> QED BY <1>7, <1>8, <1>9, <1>10, <1>11, Closed DEF LInv

(* A reply is not a signal.                                                 *)
LEMMA RepliesAre ==
    /\ \A r \in Replies : r.type \notin {"launcherFinished", "exitForUpdate"}
    /\ \A r \in Signals : r.type \in {"launcherFinished", "exitForUpdate"}
BY DEF Replies, Signals

LEMMA WorkerHandlesKeeps == LInv /\ WorkerHandles => LInv'
<1> SUFFICES ASSUME LInv, WorkerHandles PROVE LInv'
  OBVIOUS
<1> DEFINE m == Head(toWorker)
<1>1. /\ UNCHANGED <<ui, w, proc, clicks>> /\ ui = "qt" /\ proc \in {"ui", "closing"}
      /\ toWorker # <<>> /\ toWorker' = Tail(toWorker)
      /\ hist' = CountStart(hist, m)
  BY DEF WorkerHandles
<1>2. PICK o \in HandleWebMessage(c, b, m) :
          /\ Handled(m, o)
          /\ toGui' = IF proc = "ui" THEN toGui \o Emitted(o) ELSE <<>>
  BY DEF WorkerHandles
<1>3. /\ m \in Messages /\ toWorker' \in Seq(Messages)
      /\ Elems(toWorker) = {m} \cup Elems(toWorker')
  BY <1>1, ElemsOfTail DEF LInv, TypeInv
<1> HIDE DEF m
<1>4. /\ c' = o.c /\ IsController(c') /\ IsOutside(b')
      /\ o.reply \in Maybe(Replies)
      /\ IsHist(hist') /\ hist'.closedByUser = hist.closedByUser
      /\ hist'.createFailed = hist.createFailed
      /\ hist'.startSinceArmed = hist.startSinceArmed
      /\ hist'.starts = 0 => /\ hist.starts = 0 /\ m \in Others
                             /\ ~Ready(c') /\ c'.relayHost = "none"
      /\ hist'.starts = 1 /\ Ready(c') =>
             Configured(c') \/ (hist.starts = 1 /\ Ready(c) /\ ~Configured(c))
      /\ c.finished => c'.finished
      /\ c'.finished /\ c'.cancelled =>
             (c.finished /\ c.cancelled) \/ m.type = "cancel"
      /\ c'.relayHost = "live" => c.relayHost = "live" \/ Ready(c')
      /\ m \in Starts => Started(c, o)
      /\ m \in Others => Answered(c, b, m, o)
  BY <1>1, <1>2, <1>3, HandlingIs
<1> DEFINE e == Emitted(o)
<1>5. /\ e \in Seq(Replies \cup Signals)
      /\ o.reply # None => 1 \in DOMAIN e /\ e[1] = o.reply
      /\ o.reply # None => o.reply \in Elems(e)
      /\ o.c.finished => \E r \in Elems(e) : r.type = "launcherFinished"
      /\ \A r \in Elems(e) : \/ o.reply # None /\ r = o.reply
                             \/ r.type = "exitForUpdate"
                             \/ r.type = "launcherFinished" /\ o.c.finished
  BY <1>4, EmittedIs
<1> HIDE DEF e
<1>6. toGui \in Seq(Replies \cup Signals)
  BY DEF LInv, TypeInv
<1>7. proc = "ui" => /\ toGui' = toGui \o e
                     /\ Elems(toGui') = Elems(toGui) \cup Elems(e)
  BY <1>2, <1>5, <1>6, ElemsOfConcat DEF e
<1>8. proc # "ui" => toGui' = <<>> /\ Elems(toGui') = {}
  BY <1>2, ElemsOfShort
<1>9. toGui' \in Seq(Replies \cup Signals)
  <2>1. CASE proc = "ui"
    <3>1. toGui \o e \in Seq(Replies \cup Signals)
      BY <1>5, <1>6
    <3> QED BY <1>7, <2>1, <3>1
  <2>2. CASE proc # "ui"
    <3>1. toGui' = <<>>
      BY <1>8, <2>2
    <3> QED BY <3>1
  <2> QED BY <2>1, <2>2
<1>10. o.reply # None => o.reply.type # "launcherFinished"
  BY <1>4, RepliesAre DEF Maybe
<1>11. TypeInv'
  BY <1>1, <1>3, <1>4, <1>9 DEF LInv, TypeInv
<1>12. StartInv' /\ NoOrphan'
  <2>1. hist.starts = 1 /\ Ready(c) => Configured(c)
    BY <1>1 DEF LInv, StartInv
  <2> QED BY <1>1, <1>4, <2>1 DEF StartInv, NoOrphan
<1>13. HostInv'
  <2>1. c'.relayHost = "live" => c'.finished /\ (c'.cancelled => hist'.closedByUser)
    <3>1. SUFFICES ASSUME c'.relayHost = "live"
                   PROVE  c'.finished /\ (c'.cancelled => hist'.closedByUser)
      OBVIOUS
    <3>2. /\ c.relayHost = "live" => c.finished /\ (c.cancelled => hist.closedByUser)
          /\ m.type = "cancel" => hist.closedByUser
      BY <1>3 DEF LInv, HostInv
    <3> QED BY <1>4, <3>1, <3>2 DEF Ready
  <2>2. \A x \in Elems(toWorker') : x.type = "cancel" => hist'.closedByUser
    BY <1>3, <1>4 DEF LInv, HostInv
  <2>3. \A r \in Elems(toGui') : r.type = "launcherFinished" => c'.finished
    BY <1>4, <1>5, <1>7, <1>8, <1>10 DEF LInv, HostInv
  <2> QED BY <1>1, <2>1, <2>2, <2>3 DEF HostInv
<1>14. CASE proc = "closing"
  <2>1. ~Open'
    BY <1>1, <1>14 DEF Open
  <2> QED BY <1>11, <1>12, <1>13, <2>1, Closed DEF LInv
<1>15. CASE proc = "ui"
  <2>1. Open /\ Open'
    BY <1>1, <1>15 DEF Open
  <2>2. KeepAlive'
    BY <1>1, <1>4, <2>1 DEF LInv, KeepAlive, Open
  <2>3. /\ Elems(toGui') = Elems(toGui) \cup Elems(e)
        /\ Elems(toWorker) = {m} \cup Elems(toWorker')
    BY <1>3, <1>7, <1>15
  <2>4. m.type = "start" => Refuses(toGui')
    <3> SUFFICES ASSUME m.type = "start" PROVE Refuses(toGui')
      OBVIOUS
    <3>1. m \in Starts
      BY <1>3 DEF Messages, Others
    <3>2. CASE o.reply = Error
      BY <1>5, <2>3, <3>2, ErrorIs DEF Refuses
    <3>3. CASE o.reply # Error
      <4>1. o.c.finished
        BY <1>4, <3>1, <3>3 DEF Started, Ready
      <4> QED BY <1>5, <2>3, <4>1 DEF Refuses
    <3> QED BY <3>2, <3>3
  <2>5. m.type = "createRelayRoom" => Refuses(toGui') \/ \E r \in Elems(toGui') : Shown(r)
    <3> SUFFICES ASSUME m.type = "createRelayRoom"
                 PROVE  Refuses(toGui') \/ \E r \in Elems(toGui') : Shown(r)
      OBVIOUS
    <3>1. m \in Others
      BY <1>3 DEF Messages, Starts
    <3>2. o.reply = Error \/ (o.reply # None /\ Shown(o.reply))
      BY <1>4, <3>1 DEF Answered
    <3> QED BY <1>5, <2>3, <3>2, ErrorIs DEF Refuses
  <2>6. /\ \A type : Asks(toWorker, type) => m.type = type \/ Asks(toWorker', type)
        /\ Refuses(toGui) => Refuses(toGui')
        /\ (\E r \in Elems(toGui) : Shown(r)) => \E r \in Elems(toGui') : Shown(r)
    BY <2>3 DEF Asks, Refuses
  <2>7. ButtonInv'
    BY <1>1, <2>1, <2>4, <2>5, <2>6 DEF LInv, ButtonInv
  <2>8. CodeInv'
    <3> SUFFICES ASSUME hist'.starts = 0
                 PROVE  LET code == c'.settings.relayRoomCode IN
                        /\ \/ w.code \in {None, code}
                           \/ \E r \in Elems(toGui') : Tells(r, code)
                        /\ \A i \in DOMAIN toGui' :
                               toGui'[i].type = "state" /\ toGui'[i].preview \in Rooms =>
                               \E j \in DOMAIN toGui' : j >= i /\ Tells(toGui'[j], code)
      BY <1>1 DEF CodeInv
    <3> DEFINE code == c.settings.relayRoomCode
               next == c'.settings.relayRoomCode
    <3>1. hist.starts = 0 /\ m \in Others /\ Answered(c, b, m, o)
      BY <1>4
    <3>2. /\ next = code \/ (o.reply # None /\ Tells(o.reply, next))
          /\ o.reply # None /\ o.reply.type = "state" /\ o.reply.preview \in Rooms =>
                 o.reply.preview = next
      BY <1>4, <3>1 DEF Answered
    <3>3. /\ \/ w.code \in {None, code}
             \/ \E r \in Elems(toGui) : Tells(r, code)
          /\ \A i \in DOMAIN toGui : toGui[i].type = "state" /\ toGui[i].preview \in Rooms =>
               \E j \in DOMAIN toGui : j >= i /\ Tells(toGui[j], code)
      BY <2>1, <3>1 DEF LInv, CodeInv
    <3> HIDE DEF code, next
    <3>4. w.code \in {None, next} \/ \E r \in Elems(toGui') : Tells(r, next)
      <4>1. CASE next = code
        BY <2>3, <3>3, <4>1
      <4>2. CASE next # code
        BY <1>5, <2>3, <3>2, <4>2
      <4> QED BY <4>1, <4>2
    <3> DEFINE n == Len(toGui)
    <3>5. /\ \A i \in DOMAIN toGui : i \in DOMAIN toGui' /\ toGui'[i] = toGui[i] /\ i \in 1 .. n
          /\ \A i \in DOMAIN e : /\ n + i \in DOMAIN toGui' /\ toGui'[n + i] = e[i]
                                /\ i \in 1 .. Len(e)
          /\ \A j \in DOMAIN toGui' : j \in DOMAIN toGui \/ \E i \in DOMAIN e : j = n + i
          /\ n \in Nat /\ Len(e) \in Nat
      BY <1>5, <1>6, <1>7, <1>15, Concat, LenProperties
    <3> HIDE DEF n
    <3>6. ASSUME NEW i \in DOMAIN toGui', toGui'[i].type = "state", toGui'[i].preview \in Rooms
          PROVE  \E j \in DOMAIN toGui' : j >= i /\ Tells(toGui'[j], next)
      <4>1. CASE i \in DOMAIN toGui
        <5>1. PICK j \in DOMAIN toGui : j >= i /\ Tells(toGui[j], code)
          BY <3>3, <3>5, <3>6, <4>1
        <5>2. CASE next = code
          BY <3>5, <5>1, <5>2
        <5>3. CASE next # code
          <6>1. 1 \in DOMAIN e /\ Tells(e[1], next)
            BY <1>5, <3>2, <5>3
          <6>2. n + 1 \in DOMAIN toGui' /\ toGui'[n + 1] = e[1] /\ n + 1 >= i
            BY <3>5, <4>1, <6>1
          <6> QED BY <6>1, <6>2
        <5> QED BY <5>2, <5>3
      <4>2. CASE i \notin DOMAIN toGui
        <5>1. PICK k \in DOMAIN e : i = n + k
          BY <3>5, <4>2
        <5>2. toGui'[i] = e[k] /\ i >= i
          BY <3>5, <5>1
        <5>3. e[k] \in Elems(e) /\ e[k].type = "state"
          BY <3>6, <5>2 DEF Elems
        <5>4. o.reply # None /\ e[k] = o.reply
          BY <1>5, <5>3
        <5>5. Tells(e[k], next)
          BY <3>2, <3>6, <5>2, <5>4 DEF Tells
        <5> QED BY <5>2, <5>5
      <4> QED BY <4>1, <4>2
    <3> QED BY <3>4, <3>6 DEF next
  <2> QED BY <1>11, <1>12, <1>13, <2>2, <2>7, <2>8 DEF LInv
<1> QED BY <1>1, <1>14, <1>15

(* The window closes at the end of a start or for an update.                *)
LEMMA ClosesKeeps ==
    ASSUME LInv, Open, UNCHANGED <<b, ui, c, clicks, toWorker, hist>>,
           proc' = "closing", w' = NewWindow, toGui' = <<>>
    PROVE  LInv'
<1>1. Elems(toGui') = {} /\ toGui' \in Seq(Replies \cup Signals)
  BY ElemsOfShort
<1>2. TypeInv'
  BY <1>1, NewWindowIs DEF LInv, TypeInv
<1>3. StartInv' /\ NoOrphan'
  BY DEF LInv, StartInv, NoOrphan, Open
<1>4. HostInv'
  BY <1>1 DEF LInv, HostInv, Open
<1>5. ~Open'
  BY DEF Open
<1> QED BY <1>2, <1>3, <1>4, <1>5, Closed DEF LInv

LEMMA GuiReceivesKeeps == LInv /\ GuiReceives => LInv'
<1> SUFFICES ASSUME LInv, GuiReceives PROVE LInv'
  OBVIOUS
<1> DEFINE r == Head(toGui)
<1>1. /\ UNCHANGED <<b, ui, c, clicks>> /\ ui = "qt" /\ proc = "ui" /\ Open /\ toGui # <<>>
  BY DEF GuiReceives, Open
<1>2. /\ r \in Replies \cup Signals /\ Tail(toGui) \in Seq(Replies \cup Signals)
      /\ Elems(toGui) = {r} \cup Elems(Tail(toGui))
      /\ 1 \in DOMAIN toGui /\ toGui[1] = r
      /\ \A i \in DOMAIN Tail(toGui) : i \in Nat /\ i + 1 \in DOMAIN toGui
                                      /\ Tail(toGui)[i] = toGui[i + 1]
      /\ \A i \in DOMAIN toGui : i = 1 \/ (i - 1 \in DOMAIN Tail(toGui)
                                           /\ Tail(toGui)[i - 1] = toGui[i])
      /\ \A i \in DOMAIN toGui : i \in Nat
  BY <1>1, ElemsOfTail DEF LInv, TypeInv
<1>3. \/ /\ r.type = "launcherFinished"
         /\ CloseEvent
         /\ UNCHANGED hist
      \/ /\ r.type = "exitForUpdate"
         /\ Quit
         /\ UNCHANGED <<toWorker, hist>>
      \/ /\ r.type \notin {"launcherFinished", "exitForUpdate"}
         /\ toGui' = Tail(toGui)
         /\ LET s == HandleMessage(w, r)
            IN  /\ w' = s.w
                /\ toWorker' = toWorker \o s.posts
                /\ hist' = [hist EXCEPT !.startSinceArmed = @ /\ ~s.w.timer]
         /\ UNCHANGED proc
  BY DEF GuiReceives
<1> HIDE DEF r
<1>4. CASE r.type = "launcherFinished"
  <2>1. c.finished
    BY <1>2, <1>4 DEF LInv, HostInv
  <2> QED BY <1>1, <1>3, <1>4, <2>1, ClosesKeeps DEF CloseEvent, Quit
<1>5. CASE r.type = "exitForUpdate"
  BY <1>1, <1>3, <1>5, ClosesKeeps DEF Quit
<1>6. CASE r.type \notin {"launcherFinished", "exitForUpdate"}
  <2> DEFINE s == HandleMessage(w, r)
             armed == hist.startSinceArmed /\ ~s.w.timer
  <2>1. /\ toGui' = Tail(toGui) /\ w' = s.w /\ toWorker' = toWorker \o s.posts
        /\ hist' = [hist EXCEPT !.startSinceArmed = armed]
        /\ UNCHANGED proc
    BY <1>3, <1>6
  <2>2. r \in Replies
    BY <1>2, <1>6, RepliesAre
  <2>3. Received(w, r, s)
    BY <2>2, HandleMessageIs DEF LInv, TypeInv
  <2> HIDE DEF s
  <2>4. armed \in BOOLEAN
    OBVIOUS
  <2>5. /\ IsHist(hist') /\ hist'.closedByUser = hist.closedByUser
        /\ hist'.createFailed = hist.createFailed /\ hist'.starts = hist.starts
        /\ hist'.startSinceArmed = armed
    <3> HIDE DEF armed
    <3> QED BY <2>1, <2>4 DEF LInv, TypeInv, IsHist
  <2>6. /\ toWorker \in Seq(Messages) /\ s.posts \in Seq(Messages) /\ s.posts \in Seq(Posts)
        /\ IsWindow(s.w)
    BY <2>3, PostIs DEF LInv, TypeInv, Received
  <2>7. toWorker' \in Seq(Messages) /\ Elems(toWorker') = Elems(toWorker) \cup Elems(s.posts)
    BY <2>1, <2>6, Concat, ElemsOfConcat
  <2>8. \A m \in Elems(s.posts) : m.type # "cancel"
    BY <2>6, ElemsIn DEF Posts
  <2>9. TypeInv'
    BY <1>1, <1>2, <2>1, <2>5, <2>6, <2>7 DEF LInv, TypeInv
  <2>10. StartInv' /\ NoOrphan'
    BY <1>1, <2>1, <2>5 DEF LInv, StartInv, NoOrphan
  <2>11. HostInv'
    BY <1>1, <1>2, <2>1, <2>5, <2>7, <2>8 DEF LInv, HostInv
  <2>12. KeepAlive'
    <3>1. s.w.code # None /\ ~s.w.timer => hist.startSinceArmed
      BY <1>1, <2>3 DEF LInv, KeepAlive, Received
    <3> QED BY <1>1, <2>1, <2>5, <3>1 DEF KeepAlive
  <2>13. ButtonInv'
    <3>1. /\ Asks(toWorker, "start") => Asks(toWorker', "start")
          /\ Asks(toWorker, "createRelayRoom") => Asks(toWorker', "createRelayRoom")
      BY <2>7 DEF Asks
    <3>2. Refuses(toGui) => r.type = "error" \/ Refuses(toGui')
      BY <1>2, <1>6, <2>1 DEF Refuses
    <3>3. (\E x \in Elems(toGui) : Shown(x)) => Shown(r) \/ \E x \in Elems(toGui') : Shown(x)
      BY <1>2, <2>1
    <3>4. /\ w.joinOn \/ r.type = "error" => s.w.joinOn
          /\ w.createOn \/ r.type = "error" \/ Shown(r) => s.w.createOn
          /\ w.code = None \/ w.startOn \/ r.type = "error" => s.w.code = None \/ s.w.startOn
      BY <2>3 DEF Received
    <3> QED BY <1>1, <2>1, <3>1, <3>2, <3>3, <3>4 DEF LInv, ButtonInv
  <2>14. CodeInv'
    <3> DEFINE code == c.settings.relayRoomCode
    <3> SUFFICES ASSUME hist.starts = 0
                 PROVE  /\ \/ s.w.code \in {None, code}
                           \/ \E x \in Elems(toGui') : Tells(x, code)
                        /\ \A i \in DOMAIN toGui' :
                               toGui'[i].type = "state" /\ toGui'[i].preview \in Rooms =>
                               \E j \in DOMAIN toGui' : j >= i /\ Tells(toGui'[j], code)
      BY <1>1, <2>1, <2>5 DEF CodeInv
    <3>1. /\ \/ w.code \in {None, code}
             \/ \E x \in Elems(toGui) : Tells(x, code)
          /\ \A i \in DOMAIN toGui : toGui[i].type = "state" /\ toGui[i].preview \in Rooms =>
               \E j \in DOMAIN toGui : j >= i /\ Tells(toGui[j], code)
      BY <1>1 DEF LInv, CodeInv
    <3> HIDE DEF code
    <3>2. IF Shown(r) THEN s.w.code = IF r.preview \in Rooms THEN r.preview ELSE None
          ELSE s.w.code \in {w.code, None}
      BY <2>3 DEF Received
    <3>3. s.w.code \in {None, code} \/ \E x \in Elems(toGui') : Tells(x, code)
      <4>1. CASE Shown(r) /\ r.preview \in Rooms
        <5>1. PICK j \in DOMAIN toGui : Tells(toGui[j], code)
          BY <1>2, <3>1, <4>1 DEF Shown
        <5>2. CASE j = 1
          BY <1>2, <3>2, <4>1, <5>1, <5>2 DEF Tells
        <5>3. CASE j # 1
          <6>1. j - 1 \in DOMAIN toGui' /\ Tells(toGui'[j - 1], code)
            BY <1>2, <2>1, <5>1, <5>3
          <6> QED BY <6>1 DEF Elems
        <5> QED BY <5>2, <5>3
      <4>2. CASE Shown(r) /\ r.preview \notin Rooms
        BY <3>2, <4>2
      <4>3. CASE ~Shown(r)
        <5>1. ~Tells(r, code)
          BY <4>3, RoomsAssumption DEF Tells, Shown
        <5> QED BY <1>2, <2>1, <3>1, <3>2, <4>3, <5>1
      <4> QED BY <4>1, <4>2, <4>3
    <3>4. ASSUME NEW i \in DOMAIN toGui', toGui'[i].type = "state", toGui'[i].preview \in Rooms
          PROVE  \E j \in DOMAIN toGui' : j >= i /\ Tells(toGui'[j], code)
      <4>1. i \in Nat /\ i + 1 \in DOMAIN toGui /\ toGui'[i] = toGui[i + 1]
        BY <1>2, <2>1
      <4>2. PICK j \in DOMAIN toGui : j >= i + 1 /\ Tells(toGui[j], code)
        BY <3>1, <3>4, <4>1
      <4>3. j # 1 \/ i = 0
        BY <1>2, <4>1, <4>2
      <4>4. i # 0
        <5>1. i \in 1 .. Len(Tail(toGui))
          BY <1>2, <2>1, LenProperties
        <5> QED BY <5>1
      <4>5. j - 1 \in DOMAIN toGui' /\ toGui'[j - 1] = toGui[j] /\ j - 1 >= i
        BY <1>2, <2>1, <4>1, <4>2, <4>3, <4>4
      <4> QED BY <4>2, <4>5
    <3> QED BY <3>3, <3>4
  <2> QED BY <2>9, <2>10, <2>11, <2>12, <2>13, <2>14 DEF LInv
<1> QED BY <1>4, <1>5, <1>6

-----------------------------------------------------------------------------
(* Every step keeps the invariant.                                          *)
LEMMA LStep == LInv /\ [Next]_vars => LInv'
<1> SUFFICES ASSUME LInv, [Next]_vars PROVE LInv'
  OBVIOUS
<1>1. CASE UNCHANGED vars
  BY <1>1 DEF vars, LInv, TypeInv, StartInv, HostInv, ButtonInv, CodeInv, KeepAlive, NoOrphan, Open
<1>2. CASE Next
  <2>1. (User \/ HeartbeatTick) /\ ~UserCloses => LInv'
    BY UserClicks, ClickKeeps
  <2>2. UserCloses => LInv'
    BY UserClosesKeeps
  <2> QED BY <1>2, <2>1, <2>2, StartUpKeeps, WorkerHandlesKeeps, GuiReceivesKeeps, IpcLineKeeps,
             IpcStdinEndsKeeps, CommandLineKeeps, UiReturnsKeeps, CreateSF4ProcessKeeps,
             GameExitsKeeps, RelayHostDiesKeeps DEF Next
<1> QED BY <1>1, <1>2

(* The invariant holds of the specification.                                *)
LEMMA LInvariant == Spec => []LInv
BY LInit, LStep, PTL DEF Spec

(* Types of the launcher: no room, text, endpoint or process state is       *)
(* invented, and the rooms the broker knows were once made.                 *)
THEOREM TypeCorrect == Spec => []TypeOK
<1>1. LInv => TypeOK
  <2> SUFFICES ASSUME LInv PROVE TypeOK
    OBVIOUS
  <2>1. TypeInv
    BY DEF LInv
  <2>2. /\ b.live \subseteq b.spent /\ b.spent \subseteq Rooms
    BY <2>1 DEF TypeInv, IsOutside
  <2>3. /\ c.settings.relayRoomCode \in Maybe(Rooms)
        /\ c.settings.relayHostSecret \in Maybe(Rooms)
        /\ c.settings.lastJoinHost \in Texts
    BY <2>1 DEF TypeInv, IsController, IsSettings
  <2>4. /\ c.cfg.code \in Maybe(Texts)
        /\ c.cfg.session \in Maybe(Rooms \cup {Addr})
        /\ c.relayHost \in {"none", "live", "dead"}
    BY <2>1 DEF TypeInv, IsController, IsConfig
  <2>5. /\ w.code \in Maybe(Rooms)
        /\ \A f \in {"simple", "timer", "startOn", "createOn", "joinOn", "busy"} :
              w[f] \in BOOLEAN
    BY <2>1 DEF TypeInv, IsWindow
  <2>6. hist.starts \in 0 .. 2
    BY <2>1 DEF TypeInv, IsHist
  <2> QED BY <2>1, <2>2, <2>3, <2>4, <2>5, <2>6 DEF TypeInv, TypeOK
<1> QED BY <1>1, LInvariant, PTL

(* onRelayHeartbeat's timer runs as long as a room code is shown, unless a  *)
(* start was pressed since it was last armed.                               *)
THEOREM HeartbeatKept == Spec => []KeepAlive
<1>1. LInv => KeepAlive
  BY DEF LInv
<1> QED BY <1>1, LInvariant, PTL

(* When the launcher has exited, RelayHost.exe runs on only if the player   *)
(* closed the window on a start under way or SSFIV.exe could not be         *)
(* started.                                                                 *)
THEOREM NoRelayHostLeft == Spec => []NoOrphan
<1>1. LInv => NoOrphan
  BY DEF LInv
<1> QED BY <1>1, LInvariant, PTL

(* Another player's room token only reaches a game that goes to that        *)
(* player's room: HandleStart clears the config, so nothing of one attempt  *)
(* is left in the next.                                                     *)
THEOREM TokensStayWithTheirRoom == Spec => []CredentialsSource
<1>1. LInv => CredentialsSource
  BY DEF LInv, TypeInv, IsController, IsConfig, CredentialsSource
<1> QED BY <1>1, LInvariant, PTL

(* A game launched after a single start has the session endpoint its mode   *)
(* needs, and a RelayHost of this launcher exactly when it is to host here. *)
THEOREM GameIsConfigured == Spec => []LaunchedIsConfigured
<1>1. LInv => LaunchedIsConfigured
  BY DEF LInv, StartInv, Configured, LaunchedIsConfigured
<1> QED BY <1>1, LInvariant, PTL

(* With both threads caught up and no start handled, the code the window    *)
(* shows is the controller's room, whatever order codes were made and       *)
(* replies received in.                                                     *)
THEOREM SharedCodeIsHosted == Spec => []CodeConverges
<1>1. LInv => CodeConverges
  <2> SUFFICES ASSUME LInv, Quiet, hist.starts = 0
               PROVE  w.code \in {None, c.settings.relayRoomCode}
    BY DEF CodeConverges
  <2>1. Elems(toGui) = {}
    BY ElemsOfShort DEF Quiet
  <2> QED BY <2>1 DEF LInv, CodeInv, Open, Quiet
<1> QED BY <1>1, LInvariant, PTL

(* With both threads caught up no button is off for good: every request     *)
(* that turned one off was answered in a way that turned it on.             *)
THEOREM ButtonsComeBack == Spec => []ControlsComeBack
<1>1. LInv => ControlsComeBack
  <2> SUFFICES ASSUME LInv, Quiet
               PROVE  w.joinOn /\ w.createOn /\ (w.code # None => w.startOn)
    BY DEF ControlsComeBack
  <2>1. Elems(toGui) = {} /\ Elems(toWorker) = {} /\ Open
    BY ElemsOfShort DEF Quiet, Open
  <2>2. ~Refuses(toGui) /\ \A type : ~Asks(toWorker, type)
    BY <2>1 DEF Refuses, Asks
  <2> QED BY <2>1, <2>2 DEF LInv, ButtonInv
<1> QED BY <1>1, LInvariant, PTL
=============================================================================
