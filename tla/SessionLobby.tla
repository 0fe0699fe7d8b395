---------------------------- MODULE SessionLobby ----------------------------
(***************************************************************************)
(* The room protocol: one SessionServer, the SessionClients connected to   *)
(* it, and the part of each game process (fUserApp, fVsBattle, Overlay)    *)
(* that the protocol drives: lobby, Ready, loading, the battle-loaded      *)
(* barrier, the fight and the way back to the lobby.                       *)
(*                                                                         *)
(* A member of Clients is one connection, hence one game process; a player *)
(* who reconnects is another member with the same name.  Connections are   *)
(* reliable and ordered (k_nSteamNetworkingSend_Reliable): up[c] and       *)
(* down[c] are the messages in flight from and to c.                       *)
(*                                                                         *)
(* SessionServer::Step handles a batch of messages and only then sends     *)
(* what the batch made necessary, so a Step is several actions here: one   *)
(* per message (srv.batch > 0 in between) and FlushStep at its end.        *)
(* Connection callbacks and the hosting process's own calls happen between *)
(* Steps (srv.batch = 0).                                                  *)
(***************************************************************************)
EXTENDS Integers, Sequences, FiniteSets

CONSTANTS
    Clients,      \* connections
    NameOf,       \* the user name each client joins with
    WrongHash,    \* clients whose sidecar hash differs from the server's
    HostClient,   \* the client in NetplayMode::Host, which owns the settings
    Modes,        \* the room's modes.  local: the server runs in HostClient's
                  \* process (Direct IP); p2p: matches punch through NAT first
    Joined,       \* the members at the start: none in a new room, or a room
                  \* that is quiet again after its first clients have joined
    MayLeave,     \* clients that may close or lose their connection
    EagerReady,   \* clients whose player presses Ready while the battle closes
    MaxMembers,   \* MAX_SF4E_PROTOCOL_USERS
    MaxBatch,     \* SESSION_SERVER_MAX_MESSAGES_PER_POLL
    MaxReadies,   \* bound: Ready presses per client
    MaxResults,   \* bound: presses of the developer "Report win" button
    MayAbort,     \* clients whose match may fail, once
    NoOne         \* no player, no choice

ASSUME LobbyAssumption ==
    /\ MaxMembers \in Nat /\ MaxMembers >= 2
    /\ MaxBatch \in Nat /\ MaxBatch >= 1
    /\ MaxReadies \in Nat /\ MaxResults \in Nat
    /\ HostClient \in Clients /\ WrongHash \subseteq Clients
    /\ MayLeave \cup EagerReady \cup MayAbort \subseteq Clients
    /\ Modes \subseteq [local : BOOLEAN, p2p : BOOLEAN]
    /\ Joined \in Seq(Clients) /\ Len(Joined) <= MaxMembers
    /\ \A i, j \in 1..Len(Joined) :
        /\ Joined[i] \notin WrongHash
        /\ NameOf[Joined[i]] = NameOf[Joined[j]] => i = j
    /\ NoOne \notin Clients

VARIABLES
    srv,   \* the SessionServer
    up,    \* up[c]: messages from c not yet polled by the server
    down,  \* down[c]: messages to c not yet polled by the client
    cl     \* cl[c]: the SessionClient and game process behind connection c

vars == <<srv, up, down, cl>>

Side == {0, 1}
Elems(s) == {s[i] : i \in DOMAIN s}

(* What vector::erase leaves of s when the i-th element goes.               *)
Erase(s, i) == [j \in 1..(Len(s) - 1) |-> IF j < i THEN s[j] ELSE s[j + 1]]

(* What a player chose when it pressed Ready for the n-th time.             *)
Choice == (Clients \X (1..MaxReadies)) \cup {NoOne}

NoMatchData == [ready |-> [s \in Side |-> -1],
                chara |-> [s \in Side |-> NoOne],
                env   |-> NoOne,
                stage |-> NoOne]

\* Mutant: one ready player is enough.
IsAnyReady(match) == \E s \in Side : match.ready[s] # -1

(* MatchData::IsAllReady *)
IsAllReady(match) == \A s \in Side : match.ready[s] # -1

(* MatchData::ClearReady *)
ClearReady(match) == [match EXCEPT !.ready = [s \in Side |-> -1]]

NullLobby == [members |-> <<>>, match |-> NoMatchData, custom |-> FALSE]

\* The host has pushed its settings to the room at the start.
Pushed == Joined # <<>> /\ NameOf[Joined[1]] = NameOf[HostClient]

InitServer(mode) ==
    [mode     |-> mode,
     greeted  |-> Elems(Joined),   \* domain of cidMap
     members  |-> Joined,  \* clients, in seat order
     loaded   |-> {},      \* members whose flags hold MF_BATTLE_LOADED
     match    |-> NoMatchData,
     custom   |-> Pushed,  \* the host's settings replaced the server's own
     punch    |-> [s \in Side |-> FALSE],
     dirty    |-> FALSE,   \* _dataDirty
     allReady |-> FALSE,   \* Step's local bSendLobbyAllReady
     synced   |-> FALSE,   \* Step's local bSendBattleSynced
     batch    |-> 0,       \* messages handled so far in this Step
     alive    |-> TRUE,    \* FALSE: the process died of an index out of range
     starts   |-> 0]       \* history: LOBBY_ALLREADY broadcasts so far

InitClient(c) ==
    LET in == c \in Elems(Joined) IN
    [conn        |-> IF in THEN "open" ELSE "idle",
     view        |-> IF in      \* _lobbyData and _matchData
                     THEN [NullLobby EXCEPT !.members = Joined, !.custom = Pushed]
                     ELSE NullLobby,
     outstanding |-> -1,         \* _outstandingReadyRequestNumber
     readies     |-> 0,          \* number of the last Ready message sent
     settingsSent |-> Pushed /\ c = HostClient,  \* s_sentLobbySettings
     phase       |-> "menu",     \* what the game process is doing
     ggpo        |-> FALSE,      \* fSystem::ggpo # nullptr
     pending     |-> FALSE,      \* s_pendingMatchStart
     sentLoaded  |-> FALSE,      \* fVsBattle::bSessionSentLoaded
     synced      |-> FALSE,      \* fVsBattle::bSessionSynced
     punchGo     |-> FALSE,      \* _punchGoReceived
     results     |-> 0,
     aborted     |-> FALSE,
     early       |-> FALSE,      \* history: pressed Ready outside the menu
     start       |-> 0,          \* history: last LOBBY_ALLREADY received
     battle      |-> 0,          \* history: the start this battle comes from
     arrived     |-> 0,          \* history: last battle reported as loaded
     punched     |-> 0,          \* history: last battle it sent PUNCH_READY for
     setup       |-> NullLobby]  \* what the running battle was set up with

Init ==
    /\ srv \in {InitServer(mode) : mode \in Modes}
    /\ up = [c \in Clients |-> <<>>]
    /\ down = [c \in Clients |-> <<>>]
    /\ cl = [c \in Clients |-> InitClient(c)]

-----------------------------------------------------------------------------
(* Sending *)

Send(c, msgs) == up' = [up EXCEPT ![c] = @ \o msgs]

(* Respond: one message to one connection; lost if the peer has gone.       *)
Respond(c, msg) ==
    down' = IF cl[c].conn = "open"
            THEN [down EXCEPT ![c] = Append(@, msg)] ELSE down

(* BroadcastMessage to everyone in clients.                                 *)
Broadcast(members, msgs) ==
    down' = [c \in Clients |-> IF c \in Elems(members) /\ cl[c].conn = "open"
                               THEN down[c] \o msgs ELSE down[c]]

-----------------------------------------------------------------------------
(* SessionServer: one action per message type.                              *)

(* The side a connection plays, -1 for everybody else.                      *)
SideOf(members, c) ==
    IF Len(members) > 0 /\ members[1] = c THEN 0
    ELSE IF Len(members) > 1 /\ members[2] = c THEN 1 ELSE -1

(* A message of type t from c is next in the poll group.                    *)
Polled(c, t) ==
    /\ srv.alive /\ srv.batch < MaxBatch
    /\ cl[c].conn \in {"open", "left"}
    /\ up[c] # <<>>
    /\ Head(up[c]).t = t

(* c's message has been handled, leaving the server in state new.           *)
Handled(c, new) ==
    /\ srv' = [new EXCEPT !.batch = @ + 1]
    /\ up' = [up EXCEPT ![c] = Tail(@)]

RecvHello(c) ==
    /\ Polled(c, "hello")
    /\ c \notin srv.greeted
    /\ Handled(c, [srv EXCEPT !.greeted = @ \cup {c}])
    /\ Respond(c, [t |-> "hello_resp"])
    /\ UNCHANGED cl

\* Mutant: the name is not compared.
JoinAnyName(c) ==
    IF c \in WrongHash THEN "hash_invalid"
    ELSE IF Len(srv.members) >= MaxMembers THEN "lobby_full" ELSE "ok"

(* RegisterToWait *)
JoinResult(c) ==
    IF c \in WrongHash THEN "hash_invalid"
    ELSE IF Len(srv.members) >= MaxMembers THEN "lobby_full"
    ELSE IF \E m \in Elems(srv.members) : NameOf[m] = NameOf[c]
         THEN "name_taken"
    ELSE "ok"

RecvJoinReq(c) ==
    /\ Polled(c, "joinreq")
    /\ c \in srv.greeted
    /\ IF JoinResult(c) = "ok"
       THEN /\ Handled(c, [srv EXCEPT !.members = Append(@, c), !.dirty = TRUE])
            /\ UNCHANGED down
       ELSE /\ Handled(c, srv)
            /\ Respond(c, [t |-> "joinrej", why |-> JoinResult(c)])
    /\ UNCHANGED cl

RecvSetChara(c) ==
    /\ Polled(c, "setchara")
    /\ LET s == SideOf(srv.members, c) IN
       Handled(c, IF s = -1 THEN srv
                  ELSE [srv EXCEPT !.match.chara[s] = Head(up[c]).choice,
                                   !.dirty = TRUE])
    /\ UNCHANGED <<down, cl>>

RecvSetEnv(c) ==
    /\ Polled(c, "setenv")
    /\ Handled(c, IF SideOf(srv.members, c) # 0 THEN srv
                  ELSE [srv EXCEPT !.match.env = Head(up[c]).choice,
                                   !.dirty = TRUE])
    /\ UNCHANGED <<down, cl>>

RecvSetStage(c) ==
    /\ Polled(c, "setstage")
    /\ Handled(c, IF SideOf(srv.members, c) # 0 THEN srv
                  ELSE [srv EXCEPT !.match.stage = Head(up[c]).choice,
                                   !.dirty = TRUE])
    /\ UNCHANGED <<down, cl>>

RecvSetSettings(c) ==
    /\ Polled(c, "setsettings")
    /\ Handled(c, IF SideOf(srv.members, c) # 0 THEN srv
                  ELSE [srv EXCEPT !.custom = TRUE, !.dirty = TRUE])
    /\ UNCHANGED <<down, cl>>

LoadedFlags(c) == srv.loaded \cup ({c} \cap Elems(srv.members))

\* Mutant: the flags are tested before the sender's is set.
EveryoneLoadedBefore(c) == Elems(srv.members) \subseteq srv.loaded

\* Mutant: the sender's own flag decides.
SenderLoaded(c) == c \in LoadedFlags(c)

(* Whether every member has loaded once c's flag is set.                    *)
EveryoneLoaded(c) == Elems(srv.members) \subseteq LoadedFlags(c)

(* The flag is set for c if it is a member; whether to send BATTLE_SYNCED   *)
(* is recomputed from scratch by every BATTLE_LOADED of the batch.          *)
RecvLoaded(c) ==
    /\ Polled(c, "loaded")
    /\ Handled(c, [srv EXCEPT !.loaded = LoadedFlags(c),
                              !.synced = EveryoneLoaded(c),
                              !.dirty = TRUE])
    /\ UNCHANGED <<down, cl>>

RecvReady(c) ==
    /\ Polled(c, "ready")
    /\ LET s == SideOf(srv.members, c)
           match == [srv.match EXCEPT !.ready[s] = Head(up[c]).n] IN
       Handled(c, IF s = -1 THEN srv
                  ELSE [srv EXCEPT !.match = match,
                                   !.allReady = @ \/ IsAllReady(match),
                                   !.dirty = TRUE])
    /\ UNCHANGED <<down, cl>>

(* HandleResults: the loser goes to the back of the queue, flags included.  *)
(* The reporter's index is not checked: with that seat empty the code       *)
(* dereferences clients.end(), and the process dies.                        *)
HandleResults(s) ==
    IF s < Len(srv.members)
    THEN [srv EXCEPT !.members = Append(Erase(@, s + 1), @[s + 1]),
                     !.match = NoMatchData, !.dirty = TRUE]
    ELSE [srv EXCEPT !.alive = FALSE]

RecvResults(c) ==
    /\ Polled(c, "results")
    /\ Handled(c, HandleResults(Head(up[c]).loser))
    /\ UNCHANGED <<down, cl>>

(* ResetLobbyForRematch, with ClearReady and ResetBattleSync.               *)
ResetForRematch(s) ==
    [s EXCEPT !.match = ClearReady(@), !.loaded = {},
              !.punch = [x \in Side |-> FALSE], !.dirty = TRUE]

RecvReset(c) ==
    /\ Polled(c, "reset")
    /\ Handled(c, IF SideOf(srv.members, c) = -1 THEN srv
                  ELSE ResetForRematch(srv))
    /\ UNCHANGED <<down, cl>>

\* Mutant: the first punch_ready releases both.
AnyPunched(punch) == \E x \in Side : punch[x]

BothPunched(punch) == \A x \in Side : punch[x]

RecvPunchReady(c) ==
    /\ Polled(c, "punch_ready")
    /\ LET s == SideOf(srv.members, c)
           punch == [srv.punch EXCEPT ![s] = TRUE]
           both == BothPunched(punch) IN
       IF s = -1 THEN Handled(c, srv) /\ UNCHANGED down
       ELSE /\ Handled(c, [srv EXCEPT !.punch = IF both THEN [x \in Side |-> FALSE]
                                                ELSE punch])
            /\ IF both THEN Broadcast(srv.members, <<[t |-> "punch_go"]>>)
               ELSE UNCHANGED down
    /\ UNCHANGED cl

LobbyData == [members |-> srv.members, match |-> srv.match, custom |-> srv.custom]

UpdateMessage == IF srv.dirty THEN <<[t |-> "update", data |-> LobbyData]>> ELSE <<>>
ReadyMessage ==
    IF srv.allReady THEN <<[t |-> "allready", n |-> srv.starts + 1]>> ELSE <<>>
SyncedMessage == IF srv.synced THEN <<[t |-> "synced"]>> ELSE <<>>

\* Mutant: the signals overtake the data they refer to.
SignalsFirst == ReadyMessage \o SyncedMessage \o UpdateMessage

(* What Step broadcasts at its end, in order.                               *)
StepMessages == UpdateMessage \o ReadyMessage \o SyncedMessage

(* The end of Step: the data update first, then the two signals.            *)
FlushStep ==
    /\ srv.alive /\ (srv.batch > 0 \/ srv.dirty)
    /\ Broadcast(srv.members, StepMessages)
    /\ srv' = [srv EXCEPT !.dirty = FALSE, !.allReady = FALSE, !.synced = FALSE,
                          !.batch = 0,
                          !.starts = IF srv.allReady THEN @ + 1 ELSE @]
    /\ UNCHANGED <<up, cl>>

Without(members, c) ==
    IF c \in Elems(members)
    THEN Erase(members, CHOOSE i \in DOMAIN members : members[i] = c)
    ELSE members

\* Mutant: the remaining members are not told.
EraseSilently(c) ==
    [srv EXCEPT !.members = Without(@, c), !.loaded = @ \ {c}]

(* Erase c from clients; ready marks and punch flags stay with their seats. *)
EraseMember(c) ==
    [srv EXCEPT !.members = Without(@, c),
                !.loaded = @ \ {c},
                !.dirty = @ \/ c \in Elems(srv.members)]

(* OnSteamNetConnectionStatusChanged, closed or problem detected: the       *)
(* member is erased, what it had sent and was not polled is dropped.        *)
ServerDisconnect(c) ==
    /\ srv.alive /\ srv.batch = 0
    /\ \/ cl[c].conn = "left" /\ cl' = [cl EXCEPT ![c].conn = "gone"]
       \/ cl[c].conn = "open" /\ c \in MayLeave
          /\ cl' = [cl EXCEPT ![c].conn = "dropped"]
    /\ srv' = EraseMember(c)
    /\ up' = [up EXCEPT ![c] = <<>>]
    /\ UNCHANGED down

-----------------------------------------------------------------------------
(* SessionClient and the game process.                                      *)

(* k_ESteamNetworkingConnectionState_Connected: say hello.                  *)
Connect(c) ==
    /\ cl[c].conn = "idle"
    /\ cl' = [cl EXCEPT ![c].conn = "open"]
    /\ Send(c, <<[t |-> "hello"]>>)
    /\ UNCHANGED <<srv, down>>

(* Disconnect, or the client's end of a lost connection.                    *)
Leave(c) ==
    /\ c \in MayLeave
    /\ \/ cl[c].conn = "open" /\ cl' = [cl EXCEPT ![c].conn = "left"]
       \/ cl[c].conn = "dropped" /\ cl' = [cl EXCEPT ![c].conn = "gone"]
    /\ down' = [down EXCEPT ![c] = <<>>]
    /\ UNCHANGED <<srv, up>>

(* StartMatchFromLobby: only from the main menu and with an opponent.       *)
CanStart(k) == k.phase = "menu" /\ Len(k.view.members) >= 2

StartMatchFromLobby(k) ==
    [k EXCEPT !.synced = FALSE, !.sentLoaded = FALSE,
              !.phase = IF CanStart(k) THEN "loading" ELSE @,
              !.battle = IF CanStart(k) THEN k.start ELSE @,
              !.setup = IF CanStart(k) THEN k.view ELSE @,
              !.pending = ~CanStart(k)]

(* TryStartPendingMatch, from TickFrame.                                    *)
TryStartPendingMatch(k) ==
    IF k.pending /\ Len(k.view.members) >= 2 THEN StartMatchFromLobby(k) ELSE k

(* A data update answers the outstanding Ready when the client's own slot,  *)
(* found by name, carries that Ready's message number.                      *)
AnswersReady(k, c, data) ==
    \E s \in Side :
        /\ s < Len(data.members)
        /\ NameOf[data.members[s + 1]] = NameOf[c]
        /\ data.match.ready[s] = k.outstanding

OnDataUpdate(k, c, data) ==
    [k EXCEPT !.view = data,
              !.outstanding = IF AnswersReady(k, c, data) THEN -1 ELSE @]

(* SessionClient::Step on one message, then TickFrame.                      *)
ClientStep(c) ==
    /\ cl[c].conn \in {"open", "dropped"}
    /\ down[c] # <<>>
    /\ LET m == Head(down[c])
           k == cl[c]
           new == CASE m.t = "update"   -> OnDataUpdate(k, c, m.data)
                    [] m.t = "allready" -> StartMatchFromLobby([k EXCEPT !.start = m.n])
                    [] m.t = "synced"   -> [k EXCEPT !.synced = TRUE]
                    [] m.t = "punch_go" -> [k EXCEPT !.punchGo = TRUE]
                    [] m.t = "joinrej"  -> [k EXCEPT !.conn = IF @ = "open" THEN "left" ELSE "gone"]
                    [] OTHER            -> k IN
       /\ cl' = [cl EXCEPT ![c] = TryStartPendingMatch(new)]
       /\ down' = [down EXCEPT ![c] = IF m.t = "joinrej" THEN <<>> ELSE Tail(@)]
       /\ IF m.t = "hello_resp" /\ k.conn = "open"
          THEN Send(c, <<[t |-> "joinreq"]>>) ELSE UNCHANGED up
    /\ UNCHANGED srv

(* TickFrame without a message: a pending start is tried every frame.       *)
TickFrame(c) ==
    /\ TryStartPendingMatch(cl[c]) # cl[c]
    /\ cl' = [cl EXCEPT ![c] = TryStartPendingMatch(@)]
    /\ UNCHANGED <<srv, up, down>>

(* TickFrame: the host pushes its battle settings once, as soon as it sees  *)
(* itself in the first seat.                                                *)
PushSettings(c) ==
    /\ c = HostClient /\ ~cl[c].settingsSent /\ cl[c].conn = "open"
    /\ cl[c].phase # "punching"
    /\ cl[c].view.members # <<>>
    /\ NameOf[cl[c].view.members[1]] = NameOf[c]
    /\ cl' = [cl EXCEPT ![c].settingsSent = TRUE]
    /\ Send(c, <<[t |-> "setsettings"]>>)
    /\ UNCHANGED <<srv, down>>

\* Mutant: Ready stays available while an answer is outstanding.
CanReadyAgain(k, c) ==
    /\ k.conn = "open" /\ ~k.ggpo
    /\ SideOf(k.view.members, c) # -1

(* CanLobbyReady: connected, no GGPO session, a player, not ready already   *)
(* and no Ready waiting for its answer.                                     *)
CanLobbyReady(k, c) ==
    LET s == SideOf(k.view.members, c) IN
    /\ k.conn = "open" /\ ~k.ggpo
    /\ s # -1
    /\ k.outstanding = -1
    /\ k.view.match.ready[s] = -1

(* TryLobbyReady; a punching process is blocked in its punch loop.          *)
PressReady(c) ==
    LET k == cl[c]
        n == k.readies + 1
        pick == <<c, n>>
        env == IF SideOf(k.view.members, c) = 0
               THEN <<[t |-> "setenv", choice |-> pick],
                      [t |-> "setstage", choice |-> pick]>>
               ELSE <<>> IN
    /\ CanLobbyReady(k, c) /\ k.readies < MaxReadies
    /\ k.phase # "punching" /\ (k.phase = "closing" => c \in EagerReady)
    /\ cl' = [cl EXCEPT ![c].readies = n, ![c].outstanding = n,
                        ![c].early = @ \/ k.phase # "menu"]
    /\ Send(c, <<[t |-> "setchara", choice |-> pick]>> \o env
               \o <<[t |-> "ready", n |-> n]>>)
    /\ UNCHANGED <<srv, down>>

(* The developer overlay's "Report win".                                    *)
ReportWin(c) ==
    LET s == SideOf(cl[c].view.members, c) IN
    /\ cl[c].conn = "open" /\ s # -1 /\ cl[c].results < MaxResults
    /\ cl' = [cl EXCEPT ![c].results = @ + 1]
    /\ Send(c, <<[t |-> "results", loser |-> 1 - s]>>)
    /\ UNCHANGED <<srv, down>>

(* TryCoordinatedP2pPunch: announce, then wait for PUNCH_GO or a timeout.   *)
StartPunch(c) ==
    /\ srv.mode.p2p /\ cl[c].phase = "loading" /\ cl[c].conn = "open"
    /\ cl' = [cl EXCEPT ![c].phase = "punching", ![c].punchGo = FALSE,
                        ![c].punched = cl[c].battle]
    /\ Send(c, <<[t |-> "punch_ready"]>>)
    /\ UNCHANGED <<srv, down>>

(* _OnVsPreBattleTasksRegistered and _OnVsBattleTasksRegistered: the battle *)
(* takes characters, stage and seed from the data held by then (the         *)
(* settings were taken when the match was started), and a GGPO session is   *)
(* created when the lobby still shows two members.                          *)
RegisterTasks(c) ==
    /\ cl[c].phase = IF srv.mode.p2p /\ cl[c].conn = "open" THEN "punching" ELSE "loading"
    /\ cl' = [cl EXCEPT ![c].phase = "waiting",
                        ![c].ggpo = Len(cl[c].view.members) >= 2,
                        ![c].setup = [cl[c].view EXCEPT !.custom = cl[c].setup.custom]]
    /\ UNCHANGED <<srv, up, down>>

(* AbortGgpoMatch before or during the fight.                               *)
AbortMatch(c) ==
    /\ cl[c].phase \in {"loading", "punching", "waiting", "fight"}
    /\ c \in MayAbort /\ ~cl[c].aborted
    /\ cl' = [cl EXCEPT ![c].phase = "closing", ![c].ggpo = FALSE,
                        ![c].aborted = TRUE]
    /\ UNCHANGED <<srv, up, down>>

(* fVsBattle::HasInitialized: report the load once, hold at the barrier.    *)
HasInitialized(c) ==
    LET k == cl[c] IN
    /\ k.phase = "waiting"
    /\ ~k.sentLoaded \/ k.synced
    /\ cl' = [cl EXCEPT ![c].sentLoaded = TRUE,
                        ![c].phase = IF k.synced THEN "fight" ELSE @,
                        ![c].arrived = IF k.sentLoaded THEN @ ELSE k.battle]
    /\ IF ~k.sentLoaded /\ k.conn = "open"
       THEN Send(c, <<[t |-> "loaded"]>>) ELSE UNCHANGED up
    /\ UNCHANGED <<srv, down>>

(* CloseBattle: the session is closed, or kept for a while for spectators.  *)
CloseBattle(c) ==
    /\ cl[c].phase = "fight"
    /\ cl' = [cl EXCEPT ![c].phase = "closing",
                        ![c].ggpo = Len(cl[c].view.members) > 2]
    /\ UNCHANGED <<srv, up, down>>

(* TickFrame: the deferred session is closed.                               *)
DeferredClose(c) ==
    /\ cl[c].ggpo /\ cl[c].phase \in {"closing", "menu"}
    /\ cl' = [cl EXCEPT ![c].ggpo = FALSE]
    /\ UNCHANGED <<srv, up, down>>

(* fVsBattle::ExitForeground: reset the lobby, directly on a server in this *)
(* process and by message otherwise.                                        *)
ExitForeground(c) ==
    /\ cl[c].phase = "closing"
    /\ cl' = [cl EXCEPT ![c].phase = "menu", ![c].sentLoaded = FALSE,
                        ![c].synced = FALSE]
    /\ IF srv.mode.local /\ c = HostClient
       THEN srv.batch = 0 /\ srv' = ResetForRematch(srv) /\ UNCHANGED up
       ELSE /\ IF cl[c].conn = "open" THEN Send(c, <<[t |-> "reset"]>>)
               ELSE UNCHANGED up
            /\ UNCHANGED srv
    /\ UNCHANGED down

ServerMessage(c) ==
    \/ RecvHello(c) \/ RecvJoinReq(c) \/ RecvSetChara(c) \/ RecvSetEnv(c)
    \/ RecvSetStage(c) \/ RecvSetSettings(c) \/ RecvLoaded(c) \/ RecvReady(c)
    \/ RecvResults(c) \/ RecvReset(c) \/ RecvPunchReady(c)

ClientAction(c) ==
    \/ Connect(c) \/ Leave(c) \/ ClientStep(c) \/ TickFrame(c)
    \/ PushSettings(c) \/ PressReady(c) \/ ReportWin(c) \/ StartPunch(c)
    \/ RegisterTasks(c) \/ AbortMatch(c) \/ HasInitialized(c) \/ CloseBattle(c)
    \/ DeferredClose(c) \/ ExitForeground(c)

Next ==
    \/ FlushStep
    \/ \E c \in Clients : ServerMessage(c) \/ ServerDisconnect(c) \/ ClientAction(c)

Spec == Init /\ [][Next]_vars

-----------------------------------------------------------------------------
(* Fairness: the game loop runs Steam_PostUpdate every frame, which steps    *)
(* the client, the server and TickFrame; the engine keeps loading a battle    *)
(* it has started.  Nothing obliges a user to join, press or leave.           *)
Fairness ==
    /\ WF_vars(FlushStep)
    /\ \A c \in Clients :
        /\ WF_vars(ServerMessage(c))
        /\ WF_vars(ClientStep(c)) /\ WF_vars(TickFrame(c))
        /\ WF_vars(RegisterTasks(c)) /\ WF_vars(HasInitialized(c))

FairSpec == Spec /\ Fairness

-----------------------------------------------------------------------------
(* Properties *)

MatchData == [ready : [Side -> {-1} \cup (1..MaxReadies)],
              chara : [Side -> Choice], env : Choice, stage : Choice]
Lobby == [members : Seq(Clients), match : MatchData, custom : BOOLEAN]

UpMessage ==
    [t : {"hello", "joinreq", "setsettings", "loaded", "reset", "punch_ready"}]
    \cup [t : {"setchara", "setenv", "setstage"}, choice : Choice]
    \cup [t : {"ready"}, n : 1..MaxReadies]
    \cup [t : {"results"}, loser : Side]

DownMessage ==
    [t : {"hello_resp", "synced", "punch_go"}]
    \cup [t : {"joinrej"}, why : {"hash_invalid", "lobby_full", "name_taken"}]
    \cup [t : {"update"}, data : Lobby]
    \cup [t : {"allready"}, n : Nat]

Server == [mode : Modes, greeted : SUBSET Clients, members : Seq(Clients),
           loaded : SUBSET Clients, match : MatchData, custom : BOOLEAN,
           punch : [Side -> BOOLEAN], dirty : BOOLEAN, allReady : BOOLEAN,
           synced : BOOLEAN, batch : 0..MaxBatch, alive : BOOLEAN, starts : Nat]

Client == [conn : {"idle", "open", "left", "dropped", "gone"},
           view : Lobby, setup : Lobby,
           outstanding : {-1} \cup (1..MaxReadies), readies : 0..MaxReadies,
           settingsSent : BOOLEAN, ggpo : BOOLEAN, pending : BOOLEAN,
           phase : {"menu", "loading", "punching", "waiting", "fight", "closing"},
           sentLoaded : BOOLEAN, synced : BOOLEAN, punchGo : BOOLEAN,
           results : 0..MaxResults, aborted : BOOLEAN, early : BOOLEAN,
           start : Nat, battle : Nat, arrived : Nat, punched : Nat]

(* Every value the server and the clients hold has the type the code        *)
(* declares for it; messages are those of the protocol.                     *)
TypeOK ==
    /\ srv \in Server /\ cl \in [Clients -> Client]
    /\ up \in [Clients -> Seq(UpMessage)]
    /\ down \in [Clients -> Seq(DownMessage)]

(* Nobody is seated twice, two members never share a name, and only         *)
(* greeted clients with the server's hash get in, whatever joins, leaves    *)
(* and result rotations happen in between (RegisterToWait, HandleResults).  *)
MembersDistinct ==
    /\ Len(srv.members) <= MaxMembers
    /\ Elems(srv.members) \subseteq srv.greeted \ WrongHash
    /\ \A i, j \in DOMAIN srv.members :
        NameOf[srv.members[i]] = NameOf[srv.members[j]] => i = j

(* A client that has polled everything sent to it shows the lobby the       *)
(* server holds: no change of seats, choices or readiness is ever left      *)
(* without a data update (_dataDirty).                                      *)
ViewConverges ==
    \A c \in Elems(srv.members) :
        (srv.alive /\ srv.batch = 0 /\ ~srv.dirty /\ cl[c].conn = "open"
           /\ down[c] = <<>>) => cl[c].view = LobbyData

(* A seat marked ready is taken, and by a player whose own last Ready it    *)
(* is: README.md:147 has both players press Ready before a match.           *)
SeatReadyIsOwn ==
    \A s \in Side : srv.match.ready[s] # -1 =>
        /\ s < Len(srv.members)
        /\ srv.match.ready[s] = cl[srv.members[s + 1]].readies

\* Every Ready so far was pressed back in the menu, after the last battle.
Unhurried == \A c \in Clients : ~cl[c].early

InBattle(c) == cl[c].phase \in {"waiting", "fight"}

\* What the battle of c is made of; spectators may join while it is set up.
BattleSetup(c) ==
    LET l == cl[c].setup IN <<SubSeq(l.members, 1, 2), l.match, l.custom>>

(* Two processes in the same battle were set up with the same seats,        *)
(* characters, stage, seed and settings, although each took them from its   *)
(* own copy of the lobby at its own time.  A Ready pressed while a battle   *)
(* still closes is undone by that process's own reset: excluded here.       *)
SameSetup ==
    Unhurried => \A c, d \in Clients :
        (InBattle(c) /\ InBattle(d) /\ cl[c].battle = cl[d].battle)
            => BattleSetup(c) = BattleSetup(d)

(* Nobody fights before every connected member of the battle has loaded it: *)
(* a BATTLE_SYNCED left over from another match never opens the barrier.    *)
BarrierHolds ==
    \A c, d \in Clients :
        (/\ cl[c].phase = "fight" /\ d \in Elems(cl[c].setup.members)
         /\ cl[d].conn = "open")
           => cl[d].arrived >= cl[c].battle

(* A battle is registered with the relay under two Ready numbers, so both   *)
(* are still there when the battle is set up: no path of the lobby clears   *)
(* them between the start of a match and its battle, as long as players     *)
(* press Ready in the menu.                                                 *)
GenerationKnown ==
    Unhurried => \A c \in Clients : InBattle(c) =>
        \A s \in Side : cl[c].setup.match.ready[s] # -1

(* PUNCH_GO reaches a punching player only when its opponent punches for    *)
(* the same battle: no flag of an earlier, aborted attempt counts.          *)
PunchTogether ==
    \A c, d \in Clients :
        (/\ cl[c].phase = "punching" /\ cl[c].punchGo
         /\ d \in Elems(cl[c].setup.members))
           => cl[d].punched >= cl[c].battle

(* Every Ready gets its answer: the player does not stay in front of        *)
(* "Waiting for response..." for good.                                      *)
ReadyAnswered ==
    \A c \in Clients : cl[c].outstanding # -1 ~> cl[c].outstanding = -1

(* A process that has loaded its battle does not wait at the barrier for    *)
(* ever, unless a player's match has failed.                                *)
BarrierOpens ==
    \A c \in Clients :
        cl[c].phase = "waiting" ~> \/ cl[c].phase # "waiting"
                                   \/ \E d \in Clients : cl[d].aborted

=============================================================================
