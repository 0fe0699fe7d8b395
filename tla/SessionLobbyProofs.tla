------------------------- MODULE SessionLobbyProofs -------------------------
(***************************************************************************)
(* Theorems about SessionLobby: who is seated, what the clients see,       *)
(* what a Ready mark means, and the life of a match.                       *)
(*                                                                         *)
(* Types and MembersDistinct are inductive by themselves.  ViewConverges   *)
(* speaks of a client with nothing left to poll, so ViewInv says of every  *)
(* client what it will show once it has polled what is under way (Shows).  *)
(* SeatReadyIsOwn needs the whole way of a Ready: pressed, in up, marked   *)
(* on the server, on its way back in down, seen, withdrawn.  PlayerOK says *)
(* for one client that these stages exclude each other.  It is stated over *)
(* the values of that client's queues and fields, so that a lemma for each *)
(* thing that may happen to a client (MessageTaken ... Pressed) can be     *)
(* cited by every action that makes it happen.                             *)
(*                                                                         *)
(* What a match promises (SameSetup, GenerationKnown, BarrierHolds,        *)
(* PunchTogether) needs the whole way of a match for both players and the  *)
(* server: LifeInv, at the end of the module, for two connections that     *)
(* stay (Duo) and players who press Ready in the menu.                     *)
(***************************************************************************)
EXTENDS SessionLobby, SequenceTheorems, TLAPS

(* A client that shows v and polls msgs ends up showing l.                  *)
Shows(v, msgs, l) ==
    \/ v = l /\ \A i \in DOMAIN msgs : msgs[i].t # "update"
    \/ \E i \in DOMAIN msgs :
        /\ msgs[i].t = "update" /\ msgs[i].data = l
        /\ \A j \in DOMAIN msgs : j > i => msgs[j].t # "update"

(* What a member shows once it has polled everything is what the server     *)
(* holds, unless the server is about to tell; nobody joins unconnected.     *)
ViewInv ==
    /\ \A c \in Elems(srv.members) :
        (srv.alive /\ ~srv.dirty /\ cl[c].conn = "open")
            => Shows(cl[c].view, down[c], LobbyData)
    /\ \A c \in srv.greeted : cl[c].conn # "idle"

(* Members have names, hence connections, of their own.                     *)
OwnNamesIn(members) ==
    \A i, j \in DOMAIN members : NameOf[members[i]] = NameOf[members[j]] => i = j

-----------------------------------------------------------------------------
(* Types *)

LEMMA InitTypes == Init => TypeOK
<1> SUFFICES ASSUME Init PROVE TypeOK
  OBVIOUS
<1> USE LobbyAssumption
<1>1. NoMatchData \in MatchData
  BY DEF NoMatchData, MatchData, Choice, Side
<1>2. Joined \in Seq(Clients) /\ Elems(Joined) \in SUBSET Clients
  BY ElementOfSeq DEF Elems
<1>3. Pushed \in BOOLEAN
  BY DEF Pushed
<1>4. \A mode \in Modes : InitServer(mode) \in Server
  <2> HIDE DEF NoMatchData, Pushed, Elems
  <2> QED BY <1>1, <1>2, <1>3 DEF InitServer, Server, Side
<1>5. NullLobby \in Lobby /\ [NullLobby EXCEPT !.members = Joined, !.custom = Pushed] \in Lobby
  <2>1. NullLobby \in Lobby
    BY <1>1 DEF NullLobby, Lobby
  <2>2. \A k \in Lobby : [k EXCEPT !.members = Joined, !.custom = Pushed] \in Lobby
    <3> HIDE DEF Pushed
    <3> QED BY <1>2, <1>3 DEF Lobby
  <2> HIDE DEF NullLobby, Lobby
  <2> QED BY <2>1, <2>2
<1>6. ASSUME NEW c \in Clients PROVE InitClient(c) \in Client
  <2>1. NullLobby \in Lobby /\ [NullLobby EXCEPT !.members = Joined, !.custom = Pushed] \in Lobby
    BY <1>5
  <2> DEFINE v == [NullLobby EXCEPT !.members = Joined, !.custom = Pushed]
  <2>2. v \in Lobby
    BY <1>5
  <2> HIDE DEF v
  <2>3. InitClient(c).settingsSent \in BOOLEAN
    BY <1>3 DEF InitClient
  <2> HIDE DEF NullLobby, Pushed, Elems
  <2> QED BY <2>1, <2>2, <1>3 DEF InitClient, Client, v
<1>7. <<>> \in Seq(UpMessage) /\ <<>> \in Seq(DownMessage)
  OBVIOUS
<1> HIDE DEF InitServer, InitClient, Server, Client
<1> QED BY <1>4, <1>6, <1>7 DEF Init, TypeOK

(* Fields of a client are replaced one by one.                              *)
LEMMA ClientFields ==
  ASSUME NEW k \in Client
  PROVE  /\ \A x \in {"idle", "open", "left", "dropped", "gone"} : [k EXCEPT !.conn = x] \in Client
         /\ \A x \in Lobby : [k EXCEPT !.view = x] \in Client /\ [k EXCEPT !.setup = x] \in Client
         /\ \A x \in {-1} \cup (1..MaxReadies) : [k EXCEPT !.outstanding = x] \in Client
         /\ \A x \in 0..MaxReadies : [k EXCEPT !.readies = x] \in Client
         /\ \A x \in {"menu", "loading", "punching", "waiting", "fight", "closing"} :
              [k EXCEPT !.phase = x] \in Client
         /\ \A x \in 0..MaxResults : [k EXCEPT !.results = x] \in Client
         /\ \A x \in Nat : /\ [k EXCEPT !.start = x] \in Client
                           /\ [k EXCEPT !.battle = x] \in Client
                           /\ [k EXCEPT !.arrived = x] \in Client
                           /\ [k EXCEPT !.punched = x] \in Client
         /\ \A x \in BOOLEAN : /\ [k EXCEPT !.settingsSent = x] \in Client
                               /\ [k EXCEPT !.ggpo = x] \in Client
                               /\ [k EXCEPT !.pending = x] \in Client
                               /\ [k EXCEPT !.sentLoaded = x] \in Client
                               /\ [k EXCEPT !.synced = x] \in Client
                               /\ [k EXCEPT !.punchGo = x] \in Client
                               /\ [k EXCEPT !.aborted = x] \in Client
                               /\ [k EXCEPT !.early = x] \in Client
<1> USE DEF Client
<1>1. \A x \in {"idle", "open", "left", "dropped", "gone"} : [k EXCEPT !.conn = x] \in Client
  OBVIOUS
<1>2. \A x \in Lobby : [k EXCEPT !.view = x] \in Client /\ [k EXCEPT !.setup = x] \in Client
  OBVIOUS
<1>3. \A x \in {-1} \cup (1..MaxReadies) : [k EXCEPT !.outstanding = x] \in Client
  OBVIOUS
<1>4. \A x \in 0..MaxReadies : [k EXCEPT !.readies = x] \in Client
  OBVIOUS
<1>5. \A x \in {"menu", "loading", "punching", "waiting", "fight", "closing"} :
        [k EXCEPT !.phase = x] \in Client
  OBVIOUS
<1>6. \A x \in 0..MaxResults : [k EXCEPT !.results = x] \in Client
  OBVIOUS
<1>7. \A x \in Nat : /\ [k EXCEPT !.start = x] \in Client
                     /\ [k EXCEPT !.battle = x] \in Client
  OBVIOUS
<1>8. \A x \in Nat : /\ [k EXCEPT !.arrived = x] \in Client
                     /\ [k EXCEPT !.punched = x] \in Client
  OBVIOUS
<1>9. \A x \in BOOLEAN : /\ [k EXCEPT !.settingsSent = x] \in Client
                         /\ [k EXCEPT !.ggpo = x] \in Client
                         /\ [k EXCEPT !.pending = x] \in Client
                         /\ [k EXCEPT !.sentLoaded = x] \in Client
  OBVIOUS
<1>10. \A x \in BOOLEAN : /\ [k EXCEPT !.synced = x] \in Client
                          /\ [k EXCEPT !.punchGo = x] \in Client
                          /\ [k EXCEPT !.aborted = x] \in Client
                          /\ [k EXCEPT !.early = x] \in Client
  OBVIOUS
<1> HIDE DEF Client
<1> QED BY <1>1, <1>2, <1>3, <1>4, <1>5, <1>6, <1>7, <1>8, <1>9, <1>10

(* And so are those of the server.                                          *)
LEMMA ServerFields ==
  ASSUME NEW r \in Server
  PROVE  /\ \A x \in SUBSET Clients : [r EXCEPT !.greeted = x] \in Server
                                      /\ [r EXCEPT !.loaded = x] \in Server
         /\ \A x \in Seq(Clients) : [r EXCEPT !.members = x] \in Server
         /\ \A x \in MatchData : [r EXCEPT !.match = x] \in Server
         /\ \A x \in [Side -> BOOLEAN] : [r EXCEPT !.punch = x] \in Server
         /\ \A x \in 0..MaxBatch : [r EXCEPT !.batch = x] \in Server
         /\ \A x \in Nat : [r EXCEPT !.starts = x] \in Server
         /\ \A x \in BOOLEAN : /\ [r EXCEPT !.custom = x] \in Server
                               /\ [r EXCEPT !.dirty = x] \in Server
                               /\ [r EXCEPT !.allReady = x] \in Server
                               /\ [r EXCEPT !.synced = x] \in Server
                               /\ [r EXCEPT !.alive = x] \in Server
<1> USE DEF Server
<1>1. \A x \in SUBSET Clients : [r EXCEPT !.greeted = x] \in Server
                                /\ [r EXCEPT !.loaded = x] \in Server
  OBVIOUS
<1>2. \A x \in Seq(Clients) : [r EXCEPT !.members = x] \in Server
  OBVIOUS
<1>3. \A x \in MatchData : [r EXCEPT !.match = x] \in Server
  OBVIOUS
<1>4. \A x \in [Side -> BOOLEAN] : [r EXCEPT !.punch = x] \in Server
  OBVIOUS
<1>5. \A x \in 0..MaxBatch : [r EXCEPT !.batch = x] \in Server
  OBVIOUS
<1>6. \A x \in Nat : [r EXCEPT !.starts = x] \in Server
  OBVIOUS
<1>7. \A x \in BOOLEAN : /\ [r EXCEPT !.custom = x] \in Server
                         /\ [r EXCEPT !.dirty = x] \in Server
                         /\ [r EXCEPT !.allReady = x] \in Server
                         /\ [r EXCEPT !.synced = x] \in Server
                         /\ [r EXCEPT !.alive = x] \in Server
  OBVIOUS
<1> HIDE DEF Server
<1> QED BY <1>1, <1>2, <1>3, <1>4, <1>5, <1>6, <1>7

(* The data of a match.                                                     *)
LEMMA MatchFields ==
  ASSUME NEW m \in MatchData
  PROVE  /\ NoMatchData \in MatchData /\ ClearReady(m) \in MatchData
         /\ \A s \in Side : \A x \in 1..MaxReadies : [m EXCEPT !.ready[s] = x] \in MatchData
         /\ \A s \in Side : \A x \in Choice : [m EXCEPT !.chara[s] = x] \in MatchData
         /\ \A x \in Choice : [m EXCEPT !.env = x] \in MatchData /\ [m EXCEPT !.stage = x] \in MatchData
<1> USE DEF MatchData
<1>1. NoMatchData \in MatchData /\ ClearReady(m) \in MatchData
  BY DEF NoMatchData, Choice, ClearReady
<1>2. ASSUME NEW s \in Side, NEW x \in 1..MaxReadies PROVE [m EXCEPT !.ready[s] = x] \in MatchData
  <2> DEFINE f == [m.ready EXCEPT ![s] = x]
  <2>1. f \in [Side -> {-1} \cup (1..MaxReadies)]
    OBVIOUS
  <2>2. [m EXCEPT !.ready[s] = x] = [m EXCEPT !.ready = f]
    OBVIOUS
  <2> HIDE DEF f
  <2> QED BY <2>1, <2>2
<1>3. ASSUME NEW s \in Side, NEW x \in Choice PROVE [m EXCEPT !.chara[s] = x] \in MatchData
  <2> DEFINE f == [m.chara EXCEPT ![s] = x]
  <2>1. f \in [Side -> Choice]
    OBVIOUS
  <2>2. [m EXCEPT !.chara[s] = x] = [m EXCEPT !.chara = f]
    OBVIOUS
  <2> HIDE DEF f
  <2> QED BY <2>1, <2>2
<1>4. \A x \in Choice : [m EXCEPT !.env = x] \in MatchData /\ [m EXCEPT !.stage = x] \in MatchData
  OBVIOUS
<1> HIDE DEF MatchData
<1> QED BY <1>1, <1>2, <1>3, <1>4

(* One member less.                                                         *)
LEMMA EraseIs ==
  ASSUME NEW S, NEW s \in Seq(S), NEW i \in 1..Len(s)
  PROVE  /\ Erase(s, i) \in Seq(S) /\ Len(Erase(s, i)) = Len(s) - 1
         /\ \A j \in 1..(Len(s) - 1) : Erase(s, i)[j] = IF j < i THEN s[j] ELSE s[j + 1]
<1>1. Len(s) \in Nat /\ \A j \in 1..Len(s) : s[j] \in S
  BY ElementOfSeq
<1>2. Erase(s, i) \in [1..(Len(s) - 1) -> S]
  BY <1>1 DEF Erase
<1>3. Len(s) - 1 \in Nat
  BY <1>1
<1>4. Erase(s, i) \in Seq(S)
  BY <1>2, <1>3
<1> QED BY <1>2, <1>3, <1>4 DEF Erase

(* What is sent keeps to the protocol.                                      *)
LEMMA SentTypes ==
  ASSUME TypeOK, NEW c \in Clients
  PROVE  /\ \A msgs \in Seq(UpMessage) : Send(c, msgs) => up' \in [Clients -> Seq(UpMessage)]
         /\ \A m \in DownMessage : Respond(c, m) => down' \in [Clients -> Seq(DownMessage)]
         /\ \A members : \A msgs \in Seq(DownMessage) :
              Broadcast(members, msgs) => down' \in [Clients -> Seq(DownMessage)]
<1>1. ASSUME NEW msgs \in Seq(UpMessage), Send(c, msgs) PROVE up' \in [Clients -> Seq(UpMessage)]
  BY <1>1 DEF TypeOK, Send
<1>2. ASSUME NEW m \in DownMessage, Respond(c, m) PROVE down' \in [Clients -> Seq(DownMessage)]
  BY <1>2 DEF TypeOK, Respond
<1>3. ASSUME NEW members, NEW msgs \in Seq(DownMessage), Broadcast(members, msgs)
      PROVE down' \in [Clients -> Seq(DownMessage)]
  BY <1>3 DEF TypeOK, Broadcast
<1> QED BY <1>1, <1>2, <1>3

(* A polled message is one of the protocol's, of the type that was polled.  *)
LEMMA PolledIs ==
  ASSUME TypeOK, NEW c \in Clients, NEW t, Polled(c, t)
  PROVE  /\ up[c] \in Seq(UpMessage) /\ up[c] # <<>>
         /\ Head(up[c]) \in UpMessage /\ Head(up[c]).t = t
         /\ Head(up[c]) = up[c][1] /\ 1 \in DOMAIN up[c]
         /\ t \in {"setchara", "setenv", "setstage"} => Head(up[c]).choice \in Choice
         /\ t = "ready" => Head(up[c]).n \in 1..MaxReadies
         /\ t = "results" => Head(up[c]).loser \in Side
         /\ srv.batch + 1 \in 0..MaxBatch /\ srv.alive
<1>1. up[c] \in Seq(UpMessage) /\ up[c] # <<>> /\ Head(up[c]).t = t
  BY DEF TypeOK, Polled
<1>2. Head(up[c]) \in UpMessage /\ Head(up[c]) = up[c][1] /\ 1 \in DOMAIN up[c]
  BY <1>1
<1>3. /\ t \in {"setchara", "setenv", "setstage"} => Head(up[c]).choice \in Choice
      /\ t = "ready" => Head(up[c]).n \in 1..MaxReadies
      /\ t = "results" => Head(up[c]).loser \in Side
  <2> DEFINE m == Head(up[c])
  <2>1. m \in UpMessage /\ m.t = t
    BY <1>1, <1>2
  <2> HIDE DEF m
  <2>2. /\ t \in {"setchara", "setenv", "setstage"} => m.choice \in Choice
        /\ t = "ready" => m.n \in 1..MaxReadies
        /\ t = "results" => m.loser \in Side
    BY <2>1 DEF UpMessage
  <2> QED BY <2>2 DEF m
<1>4. srv.batch + 1 \in 0..MaxBatch /\ srv.alive
  BY LobbyAssumption DEF TypeOK, Polled, Server
<1> QED BY <1>1, <1>2, <1>3, <1>4

LEMMA HandledTypes ==
  ASSUME TypeOK, NEW c \in Clients, NEW t, Polled(c, t),
         NEW new \in Server, new.batch = srv.batch, Handled(c, new)
  PROVE  srv' \in Server /\ up' \in [Clients -> Seq(UpMessage)]
<1>1. srv.batch + 1 \in 0..MaxBatch
  BY PolledIs
<1>2. srv' \in Server
  BY <1>1, ServerFields DEF Handled
<1>3. Tail(up[c]) \in Seq(UpMessage)
  BY PolledIs
<1> QED BY <1>2, <1>3 DEF Handled, TypeOK

LEMMA SideIs ==
  ASSUME NEW members \in Seq(Clients), NEW c
  PROVE  /\ SideOf(members, c) \in Side \cup {-1}
         /\ \A s \in Side : SideOf(members, c) = s => s < Len(members) /\ members[s + 1] = c
         /\ SideOf(members, c) = -1 =>
              \A s \in Side : s < Len(members) => members[s + 1] # c
<1>1. Len(members) \in Nat
  OBVIOUS
<1> QED BY <1>1 DEF SideOf, Side

(* The messages of one Step.                                                *)
LEMMA StepMessagesType == TypeOK => StepMessages \in Seq(DownMessage)
<1> SUFFICES ASSUME TypeOK PROVE StepMessages \in Seq(DownMessage)
  OBVIOUS
<1>0. srv \in Server
  BY DEF TypeOK
<1>1. LobbyData \in Lobby
  BY <1>0 DEF LobbyData, Lobby, Server
<1>2. [t |-> "update", data |-> LobbyData] \in DownMessage
  <2> HIDE DEF LobbyData
  <2> QED BY <1>1 DEF DownMessage
<1>3. [t |-> "allready", n |-> srv.starts + 1] \in DownMessage
  <2>1. srv.starts + 1 \in Nat
    BY <1>0 DEF Server
  <2> QED BY <2>1 DEF DownMessage
<1>4. [t |-> "synced"] \in DownMessage
  BY DEF DownMessage
<1>5. UpdateMessage \in Seq(DownMessage) /\ ReadyMessage \in Seq(DownMessage)
      /\ SyncedMessage \in Seq(DownMessage)
  <2> HIDE DEF DownMessage
  <2> QED BY <1>2, <1>3, <1>4 DEF UpdateMessage, ReadyMessage, SyncedMessage
<1> QED BY <1>5 DEF StepMessages

LEMMA ResetTypes ==
  ASSUME NEW r \in Server
  PROVE  ResetForRematch(r) \in Server /\ ResetForRematch(r).batch = r.batch
<1> DEFINE x1 == [r EXCEPT !.match = ClearReady(r.match)]
           x2 == [x1 EXCEPT !.loaded = {}]
           x3 == [x2 EXCEPT !.punch = [x \in Side |-> FALSE]]
           x4 == [x3 EXCEPT !.dirty = TRUE]
<1>1. x1 \in Server
  <2>1. r.match \in MatchData
    BY DEF Server
  <2>2. ClearReady(r.match) \in MatchData
    BY <2>1, MatchFields
  <2> HIDE DEF ClearReady
  <2> QED BY <2>2, ServerFields
<1> HIDE DEF x1
<1>2. x2 \in Server
  BY <1>1, ServerFields
<1> HIDE DEF x2
<1>3. x3 \in Server
  BY <1>2, ServerFields
<1> HIDE DEF x3
<1>4. x4 \in Server
  BY <1>3, ServerFields
<1>5. ResetForRematch(r) = x4
  BY DEF ResetForRematch, x1, x2, x3, Server
<1>6. ResetForRematch(r).batch = r.batch
  BY DEF ResetForRematch, Server
<1> QED BY <1>4, <1>5, <1>6

(* What Step makes of a batch's messages has the types of the server.       *)
LEMMA ServerMessageTypes == TypeOK /\ (\E c \in Clients : ServerMessage(c)) => TypeOK'
<1> SUFFICES ASSUME TypeOK, NEW c \in Clients, ServerMessage(c) PROVE TypeOK'
  OBVIOUS
<1>0. /\ srv \in Server /\ cl \in [Clients -> Client]
      /\ up \in [Clients -> Seq(UpMessage)] /\ down \in [Clients -> Seq(DownMessage)]
  BY DEF TypeOK
<1>a. /\ srv.match \in MatchData /\ srv.members \in Seq(Clients) /\ srv.greeted \in SUBSET Clients
      /\ srv.loaded \in SUBSET Clients /\ srv.punch \in [Side -> BOOLEAN] /\ srv.allReady \in BOOLEAN
  BY <1>0 DEF Server
<1>b. SideOf(srv.members, c) \in Side \cup {-1}
  BY <1>a, SideIs
<1>c. ASSUME NEW t, Polled(c, t), NEW new \in Server, new.batch = srv.batch, Handled(c, new),
             cl' = cl, down' \in [Clients -> Seq(DownMessage)]
      PROVE  TypeOK'
  BY <1>c, HandledTypes, <1>0 DEF TypeOK
<1>d. srv = [srv EXCEPT !.batch = srv.batch]
  BY <1>0 DEF Server
<1>1. CASE RecvHello(c)
  <2> DEFINE x == [srv EXCEPT !.greeted = @ \cup {c}]
  <2>1. x \in Server /\ x.batch = srv.batch
    <3> DEFINE g == srv.greeted \cup {c}
    <3>1. g \in SUBSET Clients
      BY <1>a
    <3>2. x = [srv EXCEPT !.greeted = g]
      OBVIOUS
    <3>3. x.batch = srv.batch
      BY <1>0 DEF Server
    <3> HIDE DEF x, g
    <3> QED BY <3>1, <3>2, <3>3, <1>0, ServerFields
  <2>2. [t |-> "hello_resp"] \in DownMessage
    BY DEF DownMessage
  <2>3. Handled(c, x) /\ Polled(c, "hello") /\ Respond(c, [t |-> "hello_resp"]) /\ cl' = cl
    BY <1>1 DEF RecvHello
  <2> HIDE DEF x, Server
  <2>4. down' \in [Clients -> Seq(DownMessage)]
    BY <2>2, <2>3, SentTypes
  <2> QED BY <2>1, <2>3, <2>4, <1>c
<1>2. CASE RecvJoinReq(c)
  <2>1. CASE JoinResult(c) = "ok"
    <3> DEFINE seats == Append(srv.members, c)
               x1 == [srv EXCEPT !.members = seats]
               x2 == [x1 EXCEPT !.dirty = TRUE]
    <3>0. seats \in Seq(Clients)
      BY <1>a
    <3>1. x1 \in Server
      <4> HIDE DEF seats
      <4> QED BY <3>0, <1>0, ServerFields
    <3> HIDE DEF x1
    <3>2. x2 \in Server
      BY <3>1, ServerFields
    <3>3. x2.batch = srv.batch /\ [srv EXCEPT !.members = Append(@, c), !.dirty = TRUE] = x2
      BY <1>0 DEF x1, Server
    <3> HIDE DEF x2
    <3>4. Handled(c, x2) /\ Polled(c, "joinreq") /\ cl' = cl /\ down' = down
      BY <1>2, <2>1, <3>3 DEF RecvJoinReq
    <3> QED BY <3>2, <3>3, <3>4, <1>c, <1>0
  <2>2. CASE JoinResult(c) # "ok"
    <3>1. JoinResult(c) \in {"hash_invalid", "lobby_full", "name_taken"}
      BY <2>2 DEF JoinResult
    <3>2. [t |-> "joinrej", why |-> JoinResult(c)] \in DownMessage
      <4> HIDE DEF JoinResult
      <4> QED BY <3>1 DEF DownMessage
    <3>3. Handled(c, srv) /\ Polled(c, "joinreq") /\ cl' = cl
          /\ Respond(c, [t |-> "joinrej", why |-> JoinResult(c)])
      BY <1>2, <2>2 DEF RecvJoinReq
    <3>4. down' \in [Clients -> Seq(DownMessage)]
      BY <3>2, <3>3, SentTypes
    <3> QED BY <3>3, <3>4, <1>c, <1>0
  <2> QED BY <2>1, <2>2
<1>3. CASE RecvSetChara(c)
  <2> DEFINE s == SideOf(srv.members, c)
             m == [srv.match EXCEPT !.chara[s] = Head(up[c]).choice]
             x1 == [srv EXCEPT !.match = m]
             x2 == [x1 EXCEPT !.dirty = TRUE]
  <2>0. Polled(c, "setchara") /\ cl' = cl /\ down' = down
        /\ Handled(c, IF s = -1 THEN srv
                      ELSE [srv EXCEPT !.match.chara[s] = Head(up[c]).choice, !.dirty = TRUE])
    BY <1>3 DEF RecvSetChara
  <2>1. CASE s = -1
    BY <2>0, <2>1, <1>0, <1>c
  <2>2. CASE s # -1
    <3>1. m \in MatchData
      BY <2>0, <2>2, <1>b, PolledIs, <1>a, MatchFields
    <3>2. [srv EXCEPT !.match.chara[s] = Head(up[c]).choice, !.dirty = TRUE] = x2 /\ x2.batch = srv.batch
      BY <1>0 DEF Server
    <3> HIDE DEF m
    <3>3. x1 \in Server
      BY <3>1, <1>0, ServerFields
    <3> HIDE DEF x1
    <3>4. x2 \in Server
      BY <3>3, ServerFields
    <3> HIDE DEF x2
    <3>5. Handled(c, x2)
      BY <2>0, <2>2, <3>2
    <3> QED BY <2>0, <3>2, <3>4, <3>5, <1>c, <1>0
  <2> QED BY <2>1, <2>2
<1>4. CASE RecvSetEnv(c)
  <2> DEFINE m == [srv.match EXCEPT !.env = Head(up[c]).choice]
             x1 == [srv EXCEPT !.match = m]
             x2 == [x1 EXCEPT !.dirty = TRUE]
  <2>0. Polled(c, "setenv") /\ cl' = cl /\ down' = down
        /\ Handled(c, IF SideOf(srv.members, c) # 0 THEN srv
                      ELSE [srv EXCEPT !.match.env = Head(up[c]).choice, !.dirty = TRUE])
    BY <1>4 DEF RecvSetEnv
  <2>1. m \in MatchData
    BY <2>0, PolledIs, <1>a, MatchFields
  <2>2. [srv EXCEPT !.match.env = Head(up[c]).choice, !.dirty = TRUE] = x2 /\ x2.batch = srv.batch
    BY <1>0 DEF Server
  <2> HIDE DEF m
  <2>3. x1 \in Server
    BY <2>1, <1>0, ServerFields
  <2> HIDE DEF x1
  <2>4. x2 \in Server
    BY <2>3, ServerFields
  <2> HIDE DEF x2
  <2>5. Handled(c, IF SideOf(srv.members, c) # 0 THEN srv ELSE x2)
    BY <2>0, <2>2
  <2>6. CASE SideOf(srv.members, c) # 0
    BY <2>0, <2>5, <2>6, <1>0, <1>c
  <2>7. CASE SideOf(srv.members, c) = 0
    <3>1. Handled(c, x2)
      BY <2>5, <2>7
    <3> QED BY <2>0, <2>2, <2>4, <3>1, <1>c, <1>0
  <2> QED BY <2>6, <2>7
<1>5. CASE RecvSetStage(c)
  <2> DEFINE m == [srv.match EXCEPT !.stage = Head(up[c]).choice]
             x1 == [srv EXCEPT !.match = m]
             x2 == [x1 EXCEPT !.dirty = TRUE]
  <2>0. Polled(c, "setstage") /\ cl' = cl /\ down' = down
        /\ Handled(c, IF SideOf(srv.members, c) # 0 THEN srv
                      ELSE [srv EXCEPT !.match.stage = Head(up[c]).choice, !.dirty = TRUE])
    BY <1>5 DEF RecvSetStage
  <2>1. m \in MatchData
    BY <2>0, PolledIs, <1>a, MatchFields
  <2>2. [srv EXCEPT !.match.stage = Head(up[c]).choice, !.dirty = TRUE] = x2 /\ x2.batch = srv.batch
    BY <1>0 DEF Server
  <2> HIDE DEF m
  <2>3. x1 \in Server
    BY <2>1, <1>0, ServerFields
  <2> HIDE DEF x1
  <2>4. x2 \in Server
    BY <2>3, ServerFields
  <2> HIDE DEF x2
  <2>5. Handled(c, IF SideOf(srv.members, c) # 0 THEN srv ELSE x2)
    BY <2>0, <2>2
  <2>6. CASE SideOf(srv.members, c) # 0
    BY <2>0, <2>5, <2>6, <1>0, <1>c
  <2>7. CASE SideOf(srv.members, c) = 0
    <3>1. Handled(c, x2)
      BY <2>5, <2>7
    <3> QED BY <2>0, <2>2, <2>4, <3>1, <1>c, <1>0
  <2> QED BY <2>6, <2>7
<1>6. CASE RecvSetSettings(c)
  <2> DEFINE x1 == [srv EXCEPT !.custom = TRUE]
             x2 == [x1 EXCEPT !.dirty = TRUE]
  <2>0. Polled(c, "setsettings") /\ cl' = cl /\ down' = down
        /\ Handled(c, IF SideOf(srv.members, c) # 0 THEN srv
                      ELSE [srv EXCEPT !.custom = TRUE, !.dirty = TRUE])
    BY <1>6 DEF RecvSetSettings
  <2>2. [srv EXCEPT !.custom = TRUE, !.dirty = TRUE] = x2 /\ x2.batch = srv.batch
    BY <1>0 DEF Server
  <2>3. x1 \in Server
    BY <1>0, ServerFields
  <2> HIDE DEF x1
  <2>4. x2 \in Server
    BY <2>3, ServerFields
  <2> HIDE DEF x2
  <2>5. Handled(c, IF SideOf(srv.members, c) # 0 THEN srv ELSE x2)
    BY <2>0, <2>2
  <2>6. CASE SideOf(srv.members, c) # 0
    BY <2>0, <2>5, <2>6, <1>0, <1>c
  <2>7. CASE SideOf(srv.members, c) = 0
    <3>1. Handled(c, x2)
      BY <2>5, <2>7
    <3> QED BY <2>0, <2>2, <2>4, <3>1, <1>c, <1>0
  <2> QED BY <2>6, <2>7
<1>7. CASE RecvLoaded(c)
  <2> DEFINE x1 == [srv EXCEPT !.loaded = LoadedFlags(c)]
             x2 == [x1 EXCEPT !.synced = EveryoneLoaded(c)]
             x3 == [x2 EXCEPT !.dirty = TRUE]
  <2>1. LoadedFlags(c) \in SUBSET Clients /\ EveryoneLoaded(c) \in BOOLEAN
    BY <1>a DEF LoadedFlags, EveryoneLoaded
  <2>2. Polled(c, "loaded") /\ cl' = cl /\ down' = down /\ Handled(c, x3) /\ x3.batch = srv.batch
    BY <1>7, <1>0 DEF RecvLoaded, Server
  <2> HIDE DEF LoadedFlags, EveryoneLoaded
  <2>3. x1 \in Server
    BY <2>1, <1>0, ServerFields
  <2> HIDE DEF x1
  <2>4. x2 \in Server
    BY <2>1, <2>3, ServerFields
  <2> HIDE DEF x2
  <2>5. x3 \in Server
    BY <2>4, ServerFields
  <2> HIDE DEF x3
  <2> QED BY <2>2, <2>5, <1>c, <1>0
<1>8. CASE RecvReady(c)
  <2> DEFINE s == SideOf(srv.members, c)
             m == [srv.match EXCEPT !.ready[s] = Head(up[c]).n]
             all == srv.allReady \/ IsAllReady(m)
             x1 == [srv EXCEPT !.match = m]
             x2 == [x1 EXCEPT !.allReady = all]
             x3 == [x2 EXCEPT !.dirty = TRUE]
  <2>0. Polled(c, "ready") /\ cl' = cl /\ down' = down /\ x3.batch = srv.batch
        /\ Handled(c, IF s = -1 THEN srv ELSE x3)
    BY <1>8, <1>0 DEF RecvReady, Server
  <2>1. CASE s = -1
    BY <2>0, <2>1, <1>0, <1>c
  <2>2. CASE s # -1
    <3>1. m \in MatchData
      BY <2>0, <2>2, <1>b, PolledIs, <1>a, MatchFields
    <3>2. all \in BOOLEAN
      BY <1>a DEF IsAllReady
    <3> HIDE DEF m
    <3>3. x1 \in Server
      BY <3>1, <1>0, ServerFields
    <3> HIDE DEF x1, all
    <3>4. x2 \in Server
      BY <3>2, <3>3, ServerFields
    <3> HIDE DEF x2
    <3>5. x3 \in Server
      BY <3>4, ServerFields
    <3> HIDE DEF x3
    <3>6. Handled(c, x3)
      BY <2>0, <2>2
    <3> QED BY <2>0, <3>5, <3>6, <1>c, <1>0
  <2> QED BY <2>1, <2>2
<1>9. CASE RecvResults(c)
  <2> DEFINE s == Head(up[c]).loser
             seats == Append(Erase(srv.members, s + 1), srv.members[s + 1])
             x1 == [srv EXCEPT !.members = seats]
             x2 == [x1 EXCEPT !.match = NoMatchData]
             x3 == [x2 EXCEPT !.dirty = TRUE]
             y  == [srv EXCEPT !.alive = FALSE]
  <2>0. Polled(c, "results") /\ cl' = cl /\ down' = down /\ Handled(c, HandleResults(s))
    BY <1>9 DEF RecvResults
  <2>1. s \in Side
    BY <2>0, PolledIs
  <2> HIDE DEF s
  <2>2. CASE s < Len(srv.members)
    <3>1. s + 1 \in 1..Len(srv.members)
      BY <2>1, <2>2, <1>a DEF Side
    <3>2. seats \in Seq(Clients)
      BY <3>1, <1>a, EraseIs, ElementOfSeq
    <3>3. HandleResults(s) = x3 /\ x3.batch = srv.batch
      BY <2>2, <1>0 DEF HandleResults, Server
    <3> HIDE DEF seats
    <3>4. x1 \in Server
      BY <3>2, <1>0, ServerFields
    <3> HIDE DEF x1
    <3>5. x2 \in Server
      BY <3>4, <1>a, ServerFields, MatchFields
    <3> HIDE DEF x2
    <3>6. x3 \in Server
      BY <3>5, ServerFields
    <3> HIDE DEF x3
    <3>7. Handled(c, x3)
      BY <2>0, <3>3
    <3> QED BY <2>0, <3>3, <3>6, <3>7, <1>c, <1>0
  <2>3. CASE ~(s < Len(srv.members))
    <3>0. FALSE \in BOOLEAN /\ HandleResults(s) = y
      BY <2>3 DEF HandleResults
    <3>1a. y.batch = srv.batch
      BY <1>0 DEF Server
    <3>1b. \A x \in BOOLEAN : [srv EXCEPT !.alive = x] \in Server
      BY <1>0, ServerFields
    <3>1. y \in Server /\ y.batch = srv.batch
      BY <3>1a, <3>1b
    <3> HIDE DEF y
    <3>2. Handled(c, y)
      BY <2>0, <3>0
    <3> QED BY <2>0, <3>1, <3>2, <1>c, <1>0
  <2> QED BY <2>2, <2>3
<1>10. CASE RecvReset(c)
  <2>0. Polled(c, "reset") /\ cl' = cl /\ down' = down
        /\ Handled(c, IF SideOf(srv.members, c) = -1 THEN srv ELSE ResetForRematch(srv))
    BY <1>10 DEF RecvReset
  <2>1. CASE SideOf(srv.members, c) = -1
    BY <2>0, <2>1, <1>0, <1>c
  <2>2. CASE SideOf(srv.members, c) # -1
    BY <2>0, <2>2, <1>0, <1>c, ResetTypes
  <2> QED BY <2>1, <2>2
<1>11. CASE RecvPunchReady(c)
  <2> DEFINE s == SideOf(srv.members, c)
             p == [srv.punch EXCEPT ![s] = TRUE]
             q == IF BothPunched(p) THEN [x \in Side |-> FALSE] ELSE p
             x1 == [srv EXCEPT !.punch = q]
  <2>0. Polled(c, "punch_ready") /\ cl' = cl
        /\ IF s = -1 THEN Handled(c, srv) /\ down' = down
           ELSE /\ Handled(c, x1)
                /\ IF BothPunched(p) THEN Broadcast(srv.members, <<[t |-> "punch_go"]>>)
                   ELSE down' = down
    BY <1>11 DEF RecvPunchReady
  <2>1. CASE s = -1
    BY <2>0, <2>1, <1>0, <1>c
  <2>2. CASE s # -1
    <3>1. q \in [Side -> BOOLEAN]
      BY <1>a
    <3>2. x1.batch = srv.batch
      BY <1>0 DEF Server
    <3>3. <<[t |-> "punch_go"]>> \in Seq(DownMessage)
      BY DEF DownMessage
    <3>4. down' \in [Clients -> Seq(DownMessage)]
      BY <2>0, <2>2, <3>3, <1>0, SentTypes
    <3>5. Handled(c, x1)
      BY <2>0, <2>2
    <3> HIDE DEF q
    <3>6. x1 \in Server
      BY <3>1, <1>0, ServerFields
    <3> HIDE DEF x1
    <3> QED BY <2>0, <3>2, <3>4, <3>5, <3>6, <1>c
  <2> QED BY <2>1, <2>2
<1> QED BY <1>1, <1>2, <1>3, <1>4, <1>5, <1>6, <1>7, <1>8, <1>9, <1>10, <1>11 DEF ServerMessage

(* A client's state is replaced by one of the same type.                    *)
LEMMA ClientReplaced ==
  ASSUME TypeOK, NEW c \in Clients, NEW k \in Client,
         cl' = [cl EXCEPT ![c] = k], srv' \in Server,
         up' \in [Clients -> Seq(UpMessage)], down' \in [Clients -> Seq(DownMessage)]
  PROVE  TypeOK'
BY DEF TypeOK

LEMMA StartTypes ==
  ASSUME NEW k \in Client
  PROVE  StartMatchFromLobby(k) \in Client /\ TryStartPendingMatch(k) \in Client
<1> DEFINE can == CanStart(k)
           x1 == [k EXCEPT !.synced = FALSE]
           x2 == [x1 EXCEPT !.sentLoaded = FALSE]
           x3 == [x2 EXCEPT !.phase = IF can THEN "loading" ELSE k.phase]
           x4 == [x3 EXCEPT !.battle = IF can THEN k.start ELSE k.battle]
           x5 == [x4 EXCEPT !.setup = IF can THEN k.view ELSE k.setup]
           x6 == [x5 EXCEPT !.pending = ~can]
<1>1. k.phase \in {"menu", "loading", "punching", "waiting", "fight", "closing"}
      /\ k.start \in Nat /\ k.battle \in Nat /\ k.view \in Lobby /\ k.setup \in Lobby
  BY DEF Client
<1>2. StartMatchFromLobby(k) = x6
  <2> HIDE DEF CanStart
  <2> QED BY DEF StartMatchFromLobby, Client
<1> HIDE DEF can
<1>4. x1 \in Client
  BY ClientFields
<1> HIDE DEF x1
<1>5. x2 \in Client
  BY <1>4, ClientFields
<1> HIDE DEF x2
<1>6. x3 \in Client
  BY <1>5, <1>1, ClientFields
<1> HIDE DEF x3
<1>7. x4 \in Client
  BY <1>6, <1>1, ClientFields
<1> HIDE DEF x4
<1>8. x5 \in Client
  BY <1>7, <1>1, ClientFields
<1> HIDE DEF x5
<1>9. x6 \in Client
  <2> DEFINE p == ~can
  <2>1. p \in BOOLEAN
    OBVIOUS
  <2> HIDE DEF p
  <2>2. [x5 EXCEPT !.pending = p] \in Client
    BY <2>1, <1>8, ClientFields
  <2> QED BY <2>2 DEF p
<1> HIDE DEF x6
<1>10. StartMatchFromLobby(k) \in Client
  BY <1>2, <1>9
<1> QED BY <1>10 DEF TryStartPendingMatch

LEMMA TypedMessage ==
  ASSUME NEW m \in DownMessage
  PROVE  /\ m.t = "update" => m.data \in Lobby
         /\ m.t = "allready" => m.n \in Nat
BY DEF DownMessage

LEMMA ClientStepTypes == TypeOK /\ (\E c \in Clients : ClientStep(c)) => TypeOK'
<1> SUFFICES ASSUME TypeOK, NEW c \in Clients, ClientStep(c) PROVE TypeOK'
  OBVIOUS
<1> DEFINE m == Head(down[c])
           k == cl[c]
           new == CASE m.t = "update"   -> OnDataUpdate(k, c, m.data)
                    [] m.t = "allready" -> StartMatchFromLobby([k EXCEPT !.start = m.n])
                    [] m.t = "synced"   -> [k EXCEPT !.synced = TRUE]
                    [] m.t = "punch_go" -> [k EXCEPT !.punchGo = TRUE]
                    [] m.t = "joinrej"  -> [k EXCEPT !.conn = IF @ = "open" THEN "left" ELSE "gone"]
                    [] OTHER            -> k
<1>0. /\ cl' = [cl EXCEPT ![c] = TryStartPendingMatch(new)]
      /\ down' = [down EXCEPT ![c] = IF m.t = "joinrej" THEN <<>> ELSE Tail(down[c])]
      /\ IF m.t = "hello_resp" /\ k.conn = "open" THEN Send(c, <<[t |-> "joinreq"]>>) ELSE up' = up
      /\ srv' = srv /\ down[c] # <<>>
  BY DEF ClientStep
<1>1. k \in Client /\ down[c] \in Seq(DownMessage)
  BY DEF TypeOK
<1>2. m \in DownMessage /\ Tail(down[c]) \in Seq(DownMessage) /\ <<>> \in Seq(DownMessage)
  BY <1>0, <1>1
<1>3. down' \in [Clients -> Seq(DownMessage)]
  <2> HIDE DEF m
  <2> QED BY <1>0, <1>2 DEF TypeOK
<1>4. <<[t |-> "joinreq"]>> \in Seq(UpMessage)
  BY DEF UpMessage
<1>5. up' \in [Clients -> Seq(UpMessage)]
  BY <1>0, <1>4, SentTypes DEF TypeOK
<1> HIDE DEF m, k
<1>6. new \in Client
  <2>1. CASE m.t = "update"
    <3> DEFINE x1 == [k EXCEPT !.view = m.data]
               o == IF AnswersReady(k, c, m.data) THEN -1 ELSE k.outstanding
               x2 == [x1 EXCEPT !.outstanding = o]
    <3>1. new = x2
      <4> HIDE DEF AnswersReady
      <4> QED BY <2>1, <1>1 DEF OnDataUpdate, Client
    <3>2. o \in {-1} \cup (1..MaxReadies)
      BY <1>1 DEF Client
    <3>3. x1 \in Client
      BY <1>1, <1>2, <2>1, TypedMessage, ClientFields
    <3> HIDE DEF x1, o
    <3>4. x2 \in Client
      BY <3>2, <3>3, ClientFields
    <3> HIDE DEF x2, new
    <3> QED BY <3>1, <3>4
  <2>2. CASE m.t = "allready"
    <3> DEFINE x1 == [k EXCEPT !.start = m.n]
    <3>1. x1 \in Client
      BY <1>1, <1>2, <2>2, TypedMessage, ClientFields
    <3>2. new = StartMatchFromLobby(x1)
      BY <2>2
    <3> HIDE DEF x1, new
    <3> QED BY <3>1, <3>2, StartTypes
  <2>3. CASE m.t = "synced"
    <3>1. new = [k EXCEPT !.synced = TRUE]
      BY <2>3
    <3> HIDE DEF new
    <3>2. \A x \in BOOLEAN : [k EXCEPT !.synced = x] \in Client
      BY <1>1, ClientFields
    <3> QED BY <3>1, <3>2
  <2>4. CASE m.t = "punch_go"
    <3>1. new = [k EXCEPT !.punchGo = TRUE]
      BY <2>4
    <3> HIDE DEF new
    <3>2. \A x \in BOOLEAN : [k EXCEPT !.punchGo = x] \in Client
      BY <1>1, ClientFields
    <3> QED BY <3>1, <3>2
  <2>5. CASE m.t = "joinrej"
    <3> DEFINE o == IF k.conn = "open" THEN "left" ELSE "gone"
    <3>1. new = [k EXCEPT !.conn = o]
      BY <2>5
    <3>2. o \in {"idle", "open", "left", "dropped", "gone"}
      OBVIOUS
    <3> HIDE DEF new, o
    <3> QED BY <1>1, <3>1, <3>2, ClientFields
  <2>6. CASE m.t \notin {"update", "allready", "synced", "punch_go", "joinrej"}
    <3>1. new = k
      BY <2>6
    <3> QED BY <3>1, <1>1
  <2> QED BY <2>1, <2>2, <2>3, <2>4, <2>5, <2>6
<1> HIDE DEF new
<1>7. TryStartPendingMatch(new) \in Client
  BY <1>6, StartTypes
<1> QED BY <1>0, <1>3, <1>5, <1>7, ClientReplaced DEF TypeOK

LEMMA SeenSide ==
  ASSUME NEW k \in Client, NEW c
  PROVE  /\ SideOf(k.view.members, c) \in Side \cup {-1}
         /\ SideOf(k.view.members, c) # -1 => 1 - SideOf(k.view.members, c) \in Side
<1>1. k.view.members \in Seq(Clients)
  BY DEF Client, Lobby
<1>2. SideOf(k.view.members, c) \in Side \cup {-1}
  BY <1>1, SideIs
<1> QED BY <1>2 DEF Side

(* The buttons and the process's own steps.                                 *)
LEMMA ClientActionTypes == TypeOK /\ (\E c \in Clients : ClientAction(c)) => TypeOK'
<1> SUFFICES ASSUME TypeOK, NEW c \in Clients, ClientAction(c) PROVE TypeOK'
  OBVIOUS
<1> DEFINE k == cl[c]
<1>0. /\ srv \in Server /\ cl \in [Clients -> Client] /\ k \in Client
      /\ up \in [Clients -> Seq(UpMessage)] /\ down \in [Clients -> Seq(DownMessage)]
  BY DEF TypeOK
<1>a. /\ k.phase \in {"menu", "loading", "punching", "waiting", "fight", "closing"}
      /\ k.battle \in Nat /\ k.arrived \in Nat /\ k.view \in Lobby /\ k.setup \in Lobby
      /\ k.readies \in 0..MaxReadies /\ k.results \in 0..MaxResults /\ k.early \in BOOLEAN
  BY <1>0 DEF Client
<1>b. ASSUME NEW x \in Client, cl' = [cl EXCEPT ![c] = x], srv' = srv, up' = up, down' = down
      PROVE TypeOK'
  BY <1>b, <1>0, ClientReplaced
<1>c. ASSUME NEW x \in Client, cl' = [cl EXCEPT ![c] = x], srv' = srv, down' = down,
             NEW msgs \in Seq(UpMessage), Send(c, msgs)
      PROVE TypeOK'
  BY <1>c, <1>0, SentTypes, ClientReplaced
<1>d. \A t \in {"hello", "joinreq", "setsettings", "loaded", "reset", "punch_ready"} :
        <<[t |-> t]>> \in Seq(UpMessage)
  BY DEF UpMessage
<1>1. CASE Connect(c)
  <2>1. [k EXCEPT !.conn = "open"] \in Client
    BY <1>0, ClientFields
  <2>2. cl' = [cl EXCEPT ![c] = [k EXCEPT !.conn = "open"]]
    BY <1>1, <1>0 DEF Connect
  <2>3. Send(c, <<[t |-> "hello"]>>) /\ srv' = srv /\ down' = down
    BY <1>1 DEF Connect
  <2> HIDE DEF k
  <2> QED BY <2>1, <2>2, <2>3, <1>c, <1>d
<1>2. CASE Leave(c)
  <2>1. PICK x \in {"left", "gone"} : cl' = [cl EXCEPT ![c].conn = x]
    BY <1>2 DEF Leave
  <2>2. [k EXCEPT !.conn = x] \in Client
    BY <1>0, ClientFields
  <2>3. cl' = [cl EXCEPT ![c] = [k EXCEPT !.conn = x]]
    BY <2>1, <1>0
  <2>4. down' \in [Clients -> Seq(DownMessage)] /\ srv' = srv /\ up' = up
    BY <1>2, <1>0 DEF Leave
  <2> HIDE DEF k
  <2> QED BY <2>2, <2>3, <2>4, <1>0, ClientReplaced
<1>3. CASE ClientStep(c)
  BY <1>3, ClientStepTypes
<1>4. CASE TickFrame(c)
  <2>1. TryStartPendingMatch(k) \in Client
    BY <1>0, StartTypes
  <2>2. cl' = [cl EXCEPT ![c] = TryStartPendingMatch(k)] /\ UNCHANGED <<srv, up, down>>
    BY <1>4 DEF TickFrame
  <2> HIDE DEF k
  <2> QED BY <2>1, <2>2, <1>b
<1>5. CASE PushSettings(c)
  <2>1. \A x \in BOOLEAN : [k EXCEPT !.settingsSent = x] \in Client
    BY <1>0, ClientFields
  <2>2. cl' = [cl EXCEPT ![c] = [k EXCEPT !.settingsSent = TRUE]]
    BY <1>5, <1>0 DEF PushSettings
  <2>3. Send(c, <<[t |-> "setsettings"]>>) /\ srv' = srv /\ down' = down
    BY <1>5 DEF PushSettings
  <2> HIDE DEF k
  <2>4. [k EXCEPT !.settingsSent = TRUE] \in Client
    BY <2>1
  <2> QED BY <2>4, <2>2, <2>3, <1>c, <1>d
<1>6. CASE PressReady(c)
  <2> DEFINE n == k.readies + 1
             late == k.early \/ k.phase # "menu"
             x1 == [k EXCEPT !.readies = n]
             x2 == [x1 EXCEPT !.outstanding = n]
             x3 == [x2 EXCEPT !.early = late]
             pick == <<c, n>>
             env == IF SideOf(k.view.members, c) = 0
                    THEN <<[t |-> "setenv", choice |-> pick], [t |-> "setstage", choice |-> pick]>>
                    ELSE <<>>
             msgs == <<[t |-> "setchara", choice |-> pick]>> \o env \o <<[t |-> "ready", n |-> n]>>
  <2>1. k.readies < MaxReadies /\ Send(c, msgs) /\ srv' = srv /\ down' = down
    BY <1>6 DEF PressReady
  <2>2. n \in 1..MaxReadies /\ n \in 0..MaxReadies
    BY SMTT(30), <2>1, <1>a, LobbyAssumption
  <2>3. cl' = [cl EXCEPT ![c] = x3]
    BY <1>6, <1>0 DEF PressReady, Client
  <2>4. pick \in Choice
    BY <2>2 DEF Choice
  <2> HIDE DEF n, pick
  <2>5. /\ [t |-> "setchara", choice |-> pick] \in UpMessage
        /\ [t |-> "setenv", choice |-> pick] \in UpMessage
        /\ [t |-> "setstage", choice |-> pick] \in UpMessage
        /\ [t |-> "ready", n |-> n] \in UpMessage
    BY <2>2, <2>4 DEF UpMessage
  <2>6. msgs \in Seq(UpMessage)
    <3>1. env \in Seq(UpMessage)
      BY <2>5
    <3>2. <<[t |-> "setchara", choice |-> pick]>> \in Seq(UpMessage)
          /\ <<[t |-> "ready", n |-> n]>> \in Seq(UpMessage)
      BY <2>5
    <3> HIDE DEF env
    <3> QED BY <3>1, <3>2
  <2> HIDE DEF msgs
  <2>7. x1 \in Client
    BY <2>2, <1>0, ClientFields
  <2> HIDE DEF x1
  <2>8. x2 \in Client
    BY <2>2, <2>7, ClientFields
  <2>9. late \in BOOLEAN
    BY <1>a
  <2> HIDE DEF x2, late
  <2>10. x3 \in Client
    BY <2>8, <2>9, ClientFields
  <2> HIDE DEF x3, k
  <2> QED BY <2>1, <2>3, <2>6, <2>10, <1>c
<1>7. CASE ReportWin(c)
  <2> DEFINE s == SideOf(k.view.members, c)
             x == [k EXCEPT !.results = k.results + 1]
  <2>1. s # -1 /\ k.results < MaxResults /\ srv' = srv /\ down' = down
        /\ Send(c, <<[t |-> "results", loser |-> 1 - s]>>) /\ cl' = [cl EXCEPT ![c] = x]
    BY <1>7, <1>0 DEF ReportWin
  <2>2. k.results + 1 \in 0..MaxResults
    <3>1. k.results \in 0..MaxResults /\ k.results < MaxResults
      BY <2>1, <1>a
    <3> HIDE DEF k
    <3> QED BY <3>1, LobbyAssumption
  <2>3. x \in Client
    BY <2>2, <1>0, ClientFields
  <2>4. 1 - s \in Side
    BY <2>1, <1>0, SeenSide
  <2>5. [t |-> "results", loser |-> 1 - s] \in UpMessage
    BY <2>4 DEF UpMessage
  <2>6. <<[t |-> "results", loser |-> 1 - s]>> \in Seq(UpMessage)
    BY <2>5
  <2> HIDE DEF x, s, k
  <2> QED BY <2>1, <2>3, <2>6, <1>c
<1>8. CASE StartPunch(c)
  <2> DEFINE x1 == [k EXCEPT !.phase = "punching"]
             x2 == [x1 EXCEPT !.punchGo = FALSE]
             x3 == [x2 EXCEPT !.punched = k.battle]
  <2>1. cl' = [cl EXCEPT ![c] = x3]
    BY <1>8, <1>0 DEF StartPunch, Client
  <2>2. Send(c, <<[t |-> "punch_ready"]>>) /\ srv' = srv /\ down' = down
    BY <1>8 DEF StartPunch
  <2>3. x1 \in Client
    BY <1>0, ClientFields
  <2> HIDE DEF x1
  <2>4. \A x \in BOOLEAN : [x1 EXCEPT !.punchGo = x] \in Client
    BY <2>3, ClientFields
  <2>5. x2 \in Client
    BY <2>4
  <2> HIDE DEF x2
  <2>6. x3 \in Client
    BY <2>5, <1>a, ClientFields
  <2> HIDE DEF x3, k
  <2> QED BY <2>1, <2>2, <2>6, <1>c, <1>d
<1>9. CASE RegisterTasks(c)
  <2> DEFINE two == Len(k.view.members) >= 2
             l == [k.view EXCEPT !.custom = k.setup.custom]
             x1 == [k EXCEPT !.phase = "waiting"]
             x2 == [x1 EXCEPT !.ggpo = two]
             x3 == [x2 EXCEPT !.setup = l]
  <2>1. cl' = [cl EXCEPT ![c] = x3]
    BY <1>9, <1>0 DEF RegisterTasks, Client
  <2>2. UNCHANGED <<srv, up, down>>
    BY <1>9 DEF RegisterTasks
  <2>3. l \in Lobby /\ two \in BOOLEAN
    BY <1>a DEF Lobby
  <2>4. x1 \in Client
    BY <1>0, ClientFields
  <2> HIDE DEF x1, two, l
  <2>5. x2 \in Client
    BY <2>3, <2>4, ClientFields
  <2> HIDE DEF x2
  <2>6. x3 \in Client
    BY <2>3, <2>5, ClientFields
  <2> HIDE DEF x3, k
  <2> QED BY <2>1, <2>2, <2>6, <1>b
<1>10. CASE AbortMatch(c)
  <2> DEFINE x1 == [k EXCEPT !.phase = "closing"]
             x2 == [x1 EXCEPT !.ggpo = FALSE]
             x3 == [x2 EXCEPT !.aborted = TRUE]
  <2>1. cl' = [cl EXCEPT ![c] = x3]
    BY <1>10, <1>0 DEF AbortMatch, Client
  <2>2. UNCHANGED <<srv, up, down>>
    BY <1>10 DEF AbortMatch
  <2>3. x1 \in Client
    BY <1>0, ClientFields
  <2> HIDE DEF x1
  <2>4. \A x \in BOOLEAN : [x1 EXCEPT !.ggpo = x] \in Client
    BY <2>3, ClientFields
  <2>5. x2 \in Client
    BY <2>4
  <2> HIDE DEF x2
  <2>6. \A x \in BOOLEAN : [x2 EXCEPT !.aborted = x] \in Client
    BY <2>5, ClientFields
  <2>7. x3 \in Client
    BY <2>6
  <2> HIDE DEF x3, k
  <2> QED BY <2>1, <2>2, <2>7, <1>b
<1>11. CASE HasInitialized(c)
  <2> DEFINE p == IF k.synced THEN "fight" ELSE k.phase
             a == IF k.sentLoaded THEN k.arrived ELSE k.battle
             x1 == [k EXCEPT !.sentLoaded = TRUE]
             x2 == [x1 EXCEPT !.phase = p]
             x3 == [x2 EXCEPT !.arrived = a]
  <2>1. cl' = [cl EXCEPT ![c] = x3]
    BY <1>11, <1>0 DEF HasInitialized, Client
  <2>2. srv' = srv /\ down' = down /\ (Send(c, <<[t |-> "loaded"]>>) \/ up' = up)
    BY <1>11 DEF HasInitialized
  <2>3. \A x \in BOOLEAN : [k EXCEPT !.sentLoaded = x] \in Client
    BY <1>0, ClientFields
  <2>4. x1 \in Client
    BY <2>3
  <2>5. p \in {"menu", "loading", "punching", "waiting", "fight", "closing"} /\ a \in Nat
    BY <1>a
  <2> HIDE DEF x1, p, a
  <2>6. x2 \in Client
    BY <2>4, <2>5, ClientFields
  <2> HIDE DEF x2
  <2>7. x3 \in Client
    BY <2>5, <2>6, ClientFields
  <2> HIDE DEF x3, k
  <2> QED BY <2>1, <2>2, <2>7, <1>b, <1>c, <1>d
<1>12. CASE CloseBattle(c)
  <2> DEFINE more == Len(k.view.members) > 2
             x1 == [k EXCEPT !.phase = "closing"]
             x2 == [x1 EXCEPT !.ggpo = more]
  <2>1. cl' = [cl EXCEPT ![c] = x2]
    BY <1>12, <1>0 DEF CloseBattle, Client
  <2>2. UNCHANGED <<srv, up, down>>
    BY <1>12 DEF CloseBattle
  <2>3. more \in BOOLEAN
    OBVIOUS
  <2>4. x1 \in Client
    BY <1>0, ClientFields
  <2> HIDE DEF x1, more
  <2>5. x2 \in Client
    BY <2>3, <2>4, ClientFields
  <2> HIDE DEF x2, k
  <2> QED BY <2>1, <2>2, <2>5, <1>b
<1>13. CASE DeferredClose(c)
  <2>1. \A x \in BOOLEAN : [k EXCEPT !.ggpo = x] \in Client
    BY <1>0, ClientFields
  <2>2. [k EXCEPT !.ggpo = FALSE] \in Client
    BY <2>1
  <2>3. cl' = [cl EXCEPT ![c] = [k EXCEPT !.ggpo = FALSE]] /\ UNCHANGED <<srv, up, down>>
    BY <1>13, <1>0 DEF DeferredClose
  <2> HIDE DEF k
  <2> QED BY <2>2, <2>3, <1>b
<1>14. CASE ExitForeground(c)
  <2> DEFINE x1 == [k EXCEPT !.phase = "menu"]
             x2 == [x1 EXCEPT !.sentLoaded = FALSE]
             x3 == [x2 EXCEPT !.synced = FALSE]
  <2>1. cl' = [cl EXCEPT ![c] = x3]
    BY <1>14, <1>0 DEF ExitForeground, Client
  <2>2. /\ down' = down
        /\ \/ srv' = ResetForRematch(srv) /\ up' = up
           \/ Send(c, <<[t |-> "reset"]>>) /\ srv' = srv
           \/ up' = up /\ srv' = srv
    BY <1>14 DEF ExitForeground
  <2>3. x1 \in Client
    BY <1>0, ClientFields
  <2> HIDE DEF x1
  <2>4. \A x \in BOOLEAN : [x1 EXCEPT !.sentLoaded = x] \in Client
    BY <2>3, ClientFields
  <2>5. x2 \in Client
    BY <2>4
  <2> HIDE DEF x2
  <2>6. \A x \in BOOLEAN : [x2 EXCEPT !.synced = x] \in Client
    BY <2>5, ClientFields
  <2>7. x3 \in Client
    BY <2>6
  <2> HIDE DEF x3, k
  <2>8. ResetForRematch(srv) \in Server
    BY <1>0, ResetTypes
  <2>9. CASE srv' = ResetForRematch(srv) /\ up' = up
    BY <2>1, <2>2, <2>7, <2>8, <2>9, <1>0, ClientReplaced
  <2>10. CASE Send(c, <<[t |-> "reset"]>>) /\ srv' = srv
    BY <2>1, <2>2, <2>7, <2>10, <1>c, <1>d
  <2>11. CASE up' = up /\ srv' = srv
    BY <2>1, <2>2, <2>7, <2>11, <1>b
  <2> QED BY <2>2, <2>9, <2>10, <2>11
<1> QED BY <1>1, <1>2, <1>3, <1>4, <1>5, <1>6, <1>7, <1>8, <1>9, <1>10, <1>11, <1>12,
           <1>13, <1>14 DEF ClientAction

(* Who remains when one member is erased, and in which seats.               *)
LEMMA WithoutIs ==
  ASSUME NEW m \in Seq(Clients), NEW c
  PROVE  /\ Without(m, c) \in Seq(Clients)
         /\ Len(Without(m, c)) <= Len(m)
         /\ Elems(Without(m, c)) \subseteq Elems(m)
         /\ OwnNamesIn(m) => OwnNamesIn(Without(m, c))
         /\ c \notin Elems(m) => Without(m, c) = m
<1>1. CASE c \notin Elems(m)
  BY <1>1 DEF Without
<1>2. CASE c \in Elems(m)
  <2> DEFINE i == CHOOSE i \in DOMAIN m : m[i] = c
             w == Erase(m, i)
  <2>1. i \in 1..Len(m)
    BY <1>2 DEF Elems
  <2>2. Without(m, c) = w
    BY <1>2 DEF Without
  <2> HIDE DEF i
  <2>3. /\ w \in Seq(Clients) /\ Len(w) = Len(m) - 1
        /\ \A j \in 1..(Len(m) - 1) : w[j] = IF j < i THEN m[j] ELSE m[j + 1]
    BY <2>1, EraseIs
  <2> HIDE DEF w
  <2>4. Len(m) \in Nat /\ DOMAIN m = 1..Len(m) /\ DOMAIN w = 1..(Len(m) - 1)
    BY <2>3
  <2>5. Elems(w) \subseteq Elems(m)
    BY <2>3, <2>4 DEF Elems
  <2>6. ASSUME OwnNamesIn(m) PROVE OwnNamesIn(w)
    <3> SUFFICES ASSUME NEW j \in DOMAIN w, NEW k \in DOMAIN w, NameOf[w[j]] = NameOf[w[k]] PROVE j = k
      BY DEF OwnNamesIn
    <3> DEFINE J == IF j < i THEN j ELSE j + 1
               K == IF k < i THEN k ELSE k + 1
    <3>1. J \in DOMAIN m /\ K \in DOMAIN m /\ w[j] = m[J] /\ w[k] = m[K]
      BY <2>3, <2>4, <2>1
    <3>2. J = K
      BY <3>1, <2>6 DEF OwnNamesIn
    <3> QED BY <3>2, <2>4, <2>1
  <2> QED BY <1>2, <2>2, <2>3, <2>4, <2>5, <2>6
<1> QED BY <1>1, <1>2

(* The loser of a match moves to the back of the same queue.                *)
Rotated(m, i) == Append(Erase(m, i), m[i])

LEMMA RotatedIs ==
  ASSUME NEW m \in Seq(Clients), NEW i \in 1..Len(m)
  PROVE  /\ Rotated(m, i) \in Seq(Clients) /\ Len(Rotated(m, i)) = Len(m)
         /\ Elems(Rotated(m, i)) = Elems(m)
         /\ OwnNamesIn(m) => OwnNamesIn(Rotated(m, i))
<1> DEFINE w == Erase(m, i)
           r == Append(w, m[i])
<1>1. /\ w \in Seq(Clients) /\ Len(w) = Len(m) - 1
      /\ \A j \in 1..(Len(m) - 1) : w[j] = IF j < i THEN m[j] ELSE m[j + 1]
  BY EraseIs
<1>2. Len(m) \in Nat /\ DOMAIN m = 1..Len(m) /\ m[i] \in Clients
  BY ElementOfSeq
<1> HIDE DEF w
<1>3. r \in Seq(Clients) /\ Len(r) = Len(m) /\ DOMAIN r = 1..Len(m)
  BY <1>1, <1>2
<1>4. \A j \in 1..Len(m) : r[j] = IF j < i THEN m[j] ELSE IF j < Len(m) THEN m[j + 1] ELSE m[i]
  BY <1>1, <1>2
<1> HIDE DEF r
<1>5. ASSUME NEW j \in 1..Len(m) PROVE r[j] \in Elems(m)
  <2> DEFINE J == IF j < i THEN j ELSE IF j < Len(m) THEN j + 1 ELSE i
  <2>1. J \in 1..Len(m) /\ r[j] = m[J]
    BY <1>2, <1>4
  <2> QED BY <2>1, <1>2 DEF Elems
<1>6. ASSUME NEW j \in 1..Len(m) PROVE m[j] \in Elems(r)
  <2> DEFINE J == IF j < i THEN j ELSE IF j = i THEN Len(m) ELSE j - 1
  <2>1. J \in 1..Len(m) /\ r[J] = m[j]
    BY <1>2, <1>4
  <2> QED BY <2>1, <1>3 DEF Elems
<1>7. ASSUME OwnNamesIn(m) PROVE OwnNamesIn(r)
  <2> SUFFICES ASSUME NEW j \in 1..Len(m), NEW k \in 1..Len(m), NameOf[r[j]] = NameOf[r[k]] PROVE j = k
    BY <1>3 DEF OwnNamesIn
  <2> DEFINE J == IF j < i THEN j ELSE IF j < Len(m) THEN j + 1 ELSE i
             K == IF k < i THEN k ELSE IF k < Len(m) THEN k + 1 ELSE i
  <2>1. J \in DOMAIN m /\ K \in DOMAIN m /\ r[j] = m[J] /\ r[k] = m[K]
    BY <1>2, <1>4
  <2>2. J = K
    BY <2>1, <1>7 DEF OwnNamesIn
  <2>3. j < i => J = j
    OBVIOUS
  <2>4. ~(j < i) => J = IF j < Len(m) THEN j + 1 ELSE i
    OBVIOUS
  <2>5. k < i => K = k
    OBVIOUS
  <2>6. ~(k < i) => K = IF k < Len(m) THEN k + 1 ELSE i
    OBVIOUS
  <2> HIDE DEF J, K
  <2> QED BY <2>2, <2>3, <2>4, <2>5, <2>6, <1>2
<1>8. Rotated(m, i) = r
  BY DEF Rotated, r, w
<1>9. Elems(r) = Elems(m)
  BY <1>2, <1>3, <1>5, <1>6 DEF Elems
<1> QED BY <1>3, <1>7, <1>8, <1>9

(* A new member takes the last seat.                                        *)
LEMMA SeatedIs ==
  ASSUME NEW m \in Seq(Clients), NEW c \in Clients
  PROVE  /\ Append(m, c) \in Seq(Clients) /\ Len(Append(m, c)) = Len(m) + 1
         /\ Elems(Append(m, c)) = Elems(m) \cup {c}
         /\ (OwnNamesIn(m) /\ \A d \in Elems(m) : NameOf[d] # NameOf[c])
              => OwnNamesIn(Append(m, c))
<1> DEFINE r == Append(m, c)
<1>1. r \in Seq(Clients) /\ Len(r) = Len(m) + 1 /\ Len(m) \in Nat
      /\ DOMAIN r = 1..(Len(m) + 1) /\ DOMAIN m = 1..Len(m)
      /\ \A j \in 1..Len(m) : r[j] = m[j]
  OBVIOUS
<1>2. r[Len(m) + 1] = c
  OBVIOUS
<1> HIDE DEF r
<1>3. Elems(r) = Elems(m) \cup {c}
  <2>1. ASSUME NEW x \in Elems(r) PROVE x \in Elems(m) \cup {c}
    BY <2>1, <1>1, <1>2 DEF Elems
  <2>2. ASSUME NEW x \in Elems(m) PROVE x \in Elems(r)
    BY <2>2, <1>1 DEF Elems
  <2>3. c \in Elems(r)
    BY <1>1, <1>2 DEF Elems
  <2> QED BY <2>1, <2>2, <2>3
<1>4. ASSUME OwnNamesIn(m), \A d \in Elems(m) : NameOf[d] # NameOf[c] PROVE OwnNamesIn(r)
  <2> SUFFICES ASSUME NEW j \in DOMAIN r, NEW k \in DOMAIN r, NameOf[r[j]] = NameOf[r[k]] PROVE j = k
    BY DEF OwnNamesIn
  <2> QED BY <1>1, <1>2, <1>4 DEF OwnNamesIn, Elems
<1> QED BY <1>1, <1>3, <1>4 DEF r

LEMMA DisconnectTypes ==
  ASSUME TypeOK, NEW c \in Clients, ServerDisconnect(c) PROVE TypeOK'
<1> DEFINE k == cl[c]
           w == Without(srv.members, c)
           d == srv.dirty \/ c \in Elems(srv.members)
           x1 == [srv EXCEPT !.members = w]
           x2 == [x1 EXCEPT !.loaded = srv.loaded \ {c}]
           x3 == [x2 EXCEPT !.dirty = d]
<1>0. srv \in Server /\ k \in Client /\ cl \in [Clients -> Client] /\ srv.members \in Seq(Clients)
      /\ srv.loaded \in SUBSET Clients /\ srv.dirty \in BOOLEAN
      /\ up \in [Clients -> Seq(UpMessage)] /\ down \in [Clients -> Seq(DownMessage)]
  BY DEF TypeOK, Server
<1>1. EraseMember(c) = x3
  BY <1>0 DEF EraseMember, Server
<1>2. w \in Seq(Clients) /\ d \in BOOLEAN
  BY <1>0, WithoutIs
<1> HIDE DEF w, d
<1>3. x1 \in Server
  BY <1>0, <1>2, ServerFields
<1> HIDE DEF x1
<1>4. x2 \in Server
  BY <1>0, <1>3, ServerFields
<1> HIDE DEF x2
<1>5. x3 \in Server
  BY <1>2, <1>4, ServerFields
<1> HIDE DEF x3
<1>6. srv' \in Server /\ down' = down /\ up' \in [Clients -> Seq(UpMessage)]
  BY <1>0, <1>1, <1>5 DEF ServerDisconnect
<1>7. PICK x \in {"gone", "dropped"} : cl' = [cl EXCEPT ![c].conn = x]
  BY DEF ServerDisconnect
<1>8. cl' = [cl EXCEPT ![c] = [k EXCEPT !.conn = x]]
  BY <1>0, <1>7
<1>9. [k EXCEPT !.conn = x] \in Client
  BY <1>0, ClientFields
<1> HIDE DEF k
<1> QED BY <1>0, <1>6, <1>8, <1>9, ClientReplaced

LEMMA FlushTypes == TypeOK /\ FlushStep => TypeOK'
<1> SUFFICES ASSUME TypeOK, FlushStep PROVE TypeOK'
  OBVIOUS
<1> DEFINE n == IF srv.allReady THEN srv.starts + 1 ELSE srv.starts
           x1 == [srv EXCEPT !.dirty = FALSE]
           x2 == [x1 EXCEPT !.allReady = FALSE]
           x3 == [x2 EXCEPT !.synced = FALSE]
           x4 == [x3 EXCEPT !.batch = 0]
           x5 == [x4 EXCEPT !.starts = n]
<1>0. srv \in Server /\ cl' = cl /\ up' = up
  BY DEF TypeOK, FlushStep
<1>1. srv' = x5
  BY <1>0 DEF FlushStep, Server
<1>2. n \in Nat /\ 0 \in 0..MaxBatch
  BY <1>0, LobbyAssumption DEF Server
<1>3. \A r \in Server : \A x \in BOOLEAN : /\ [r EXCEPT !.dirty = x] \in Server
                                           /\ [r EXCEPT !.allReady = x] \in Server
                                           /\ [r EXCEPT !.synced = x] \in Server
  BY ServerFields
<1> HIDE DEF n
<1>4. x1 \in Server
  BY <1>0, <1>3
<1> HIDE DEF x1
<1>5. x2 \in Server
  BY <1>3, <1>4
<1> HIDE DEF x2
<1>6. x3 \in Server
  BY <1>3, <1>5
<1> HIDE DEF x3
<1>7. x4 \in Server
  BY <1>2, <1>6, ServerFields
<1> HIDE DEF x4
<1>8. x5 \in Server
  BY <1>2, <1>7, ServerFields
<1> HIDE DEF x5
<1>9. down' \in [Clients -> Seq(DownMessage)]
  BY StepMessagesType, SentTypes, LobbyAssumption DEF FlushStep
<1> QED BY <1>0, <1>1, <1>8, <1>9 DEF TypeOK

(* Every value has the type the code declares for it, whatever the clients  *)
(* send and whoever leaves.                                                 *)
THEOREM TypeCorrect == Spec => []TypeOK
<1>1. TypeOK /\ [Next]_vars => TypeOK'
  <2> SUFFICES ASSUME TypeOK, [Next]_vars PROVE TypeOK'
    OBVIOUS
  <2>1. CASE FlushStep
    BY <2>1, FlushTypes
  <2>2. ASSUME NEW c \in Clients, ServerMessage(c) PROVE TypeOK'
    BY <2>2, ServerMessageTypes
  <2>3. ASSUME NEW c \in Clients, ServerDisconnect(c) PROVE TypeOK'
    BY <2>3, DisconnectTypes
  <2>4. ASSUME NEW c \in Clients, ClientAction(c) PROVE TypeOK'
    BY <2>4, ClientActionTypes
  <2>5. CASE UNCHANGED vars
    BY <2>5 DEF TypeOK, vars
  <2> QED BY <2>1, <2>2, <2>3, <2>4, <2>5 DEF Next
<1> QED BY InitTypes, <1>1, PTL DEF Spec

-----------------------------------------------------------------------------
(* Members *)

(* What handling one message of c does to the server's lobby.               *)
LEMMA MessageEffects ==
  ASSUME TypeOK, NEW c \in Clients, ServerMessage(c)
  PROVE  /\ cl' = cl /\ up' = [up EXCEPT ![c] = Tail(up[c])]
         /\ srv.greeted \subseteq srv'.greeted
         /\ RecvJoinReq(c) \/ RecvResults(c) \/ srv'.members = srv.members
         /\ RecvReady(c) \/ RecvResults(c) \/ RecvReset(c) \/ srv'.match.ready = srv.match.ready
         /\ srv'.dirty = TRUE \/ srv'.alive = FALSE
            \/ (srv'.members = srv.members /\ srv'.match = srv.match
                /\ srv'.custom = srv.custom /\ srv'.dirty = srv.dirty)
         /\ srv.alive
<1>0. srv \in Server /\ srv.match \in MatchData
  BY DEF TypeOK, Server
<1> USE <1>0 DEF Handled, Server, MatchData
<1>1. CASE RecvHello(c)
  BY <1>1 DEF RecvHello, Polled
<1>2. CASE RecvJoinReq(c)
  <2> HIDE DEF JoinResult
  <2> QED BY <1>2 DEF RecvJoinReq, Polled
<1>3. CASE RecvSetChara(c)
  <2>1. SideOf(srv.members, c) # -1 => SideOf(srv.members, c) \in Side
    BY SideIs
  <2> HIDE DEF SideOf
  <2> QED BY <1>3, <2>1 DEF RecvSetChara, Polled
<1>4. CASE RecvSetEnv(c)
  BY <1>4 DEF RecvSetEnv, Polled
<1>5. CASE RecvSetStage(c)
  BY <1>5 DEF RecvSetStage, Polled
<1>6. CASE RecvSetSettings(c)
  BY <1>6 DEF RecvSetSettings, Polled
<1>7. CASE RecvLoaded(c)
  BY <1>7 DEF RecvLoaded, Polled
<1>8. CASE RecvReady(c)
  BY <1>8 DEF RecvReady, Polled
<1>9. CASE RecvResults(c)
  BY <1>9 DEF RecvResults, HandleResults, Polled
<1>10. CASE RecvReset(c)
  BY <1>10 DEF RecvReset, ResetForRematch, Polled
<1>11. CASE RecvPunchReady(c)
  BY <1>11 DEF RecvPunchReady, Polled
<1> QED BY <1>1, <1>2, <1>3, <1>4, <1>5, <1>6, <1>7, <1>8, <1>9, <1>10, <1>11 DEF ServerMessage

(* Only the server's own hand-over of a match in its process is not a       *)
(* message.                                                                 *)
LEMMA ClientEffects ==
  ASSUME TypeOK, NEW c \in Clients, ClientAction(c)
  PROVE  srv' = srv \/ (srv' = ResetForRematch(srv) /\ ExitForeground(c))
BY DEF ClientAction, Connect, Leave, ClientStep, TickFrame, PushSettings, PressReady, ReportWin,
       StartPunch, RegisterTasks, AbortMatch, HasInitialized, CloseBattle, DeferredClose,
       ExitForeground

LEMMA MembersInit == Init => MembersDistinct
<1> SUFFICES ASSUME Init PROVE MembersDistinct
  OBVIOUS
<1>1. srv.members = Joined /\ srv.greeted = Elems(Joined)
  BY DEF Init, InitServer
<1>2. Joined \in Seq(Clients) /\ DOMAIN Joined = 1..Len(Joined)
  BY LobbyAssumption
<1> QED BY <1>1, <1>2, LobbyAssumption DEF MembersDistinct, Elems

LEMMA MembersStep == TypeOK /\ MembersDistinct /\ [Next]_vars => MembersDistinct'
<1> SUFFICES ASSUME TypeOK, MembersDistinct, [Next]_vars PROVE MembersDistinct'
  OBVIOUS
<1>0. srv \in Server /\ srv.members \in Seq(Clients) /\ Len(srv.members) \in Nat
  BY DEF TypeOK, Server
<1>1. Len(srv.members) <= MaxMembers /\ Elems(srv.members) \subseteq srv.greeted \ WrongHash
      /\ OwnNamesIn(srv.members)
  BY DEF MembersDistinct, OwnNamesIn
<1>2. ASSUME Len(srv'.members) <= MaxMembers, Elems(srv'.members) \subseteq srv'.greeted \ WrongHash,
             OwnNamesIn(srv'.members)
      PROVE MembersDistinct'
  BY <1>2 DEF MembersDistinct, OwnNamesIn
<1>3. ASSUME srv'.members = srv.members, srv.greeted \subseteq srv'.greeted PROVE MembersDistinct'
  BY <1>1, <1>2, <1>3
<1>4. CASE FlushStep
  BY <1>0, <1>3, <1>4 DEF FlushStep, Server
<1>5. ASSUME NEW c \in Clients, ServerMessage(c) PROVE MembersDistinct'
  <2>1. CASE RecvJoinReq(c)
    <3>1. CASE JoinResult(c) = "ok"
      <4>1. srv'.members = Append(srv.members, c) /\ srv'.greeted = srv.greeted /\ c \in srv.greeted
        BY <2>1, <3>1, <1>0 DEF RecvJoinReq, Handled, Server
      <4>2. c \notin WrongHash /\ Len(srv.members) < MaxMembers
            /\ \A d \in Elems(srv.members) : NameOf[d] # NameOf[c]
        BY <3>1, <1>0, LobbyAssumption DEF JoinResult
      <4>3. /\ Len(srv'.members) = Len(srv.members) + 1
            /\ Elems(srv'.members) = Elems(srv.members) \cup {c}
            /\ OwnNamesIn(srv'.members)
        BY <4>1, <4>2, <1>0, <1>1, SeatedIs
      <4> QED BY <4>1, <4>2, <4>3, <1>0, <1>1, <1>2, LobbyAssumption
    <3>2. CASE JoinResult(c) # "ok"
      BY <2>1, <3>2, <1>0, <1>3 DEF RecvJoinReq, Handled, Server
    <3> QED BY <3>1, <3>2
  <2>2. CASE RecvResults(c)
    <3> DEFINE s == Head(up[c]).loser
    <3>1. s \in Side /\ Handled(c, HandleResults(s))
      BY <2>2, PolledIs DEF RecvResults
    <3> HIDE DEF s
    <3>2. CASE s < Len(srv.members)
      <4>1. srv'.members = Rotated(srv.members, s + 1) /\ srv'.greeted = srv.greeted
        BY <3>1, <3>2, <1>0 DEF HandleResults, Handled, Rotated, Server
      <4>2. s + 1 \in 1..Len(srv.members)
        BY <3>1, <3>2, <1>0 DEF Side
      <4> QED BY <4>1, <4>2, <1>0, <1>1, <1>2, RotatedIs
    <3>3. CASE ~(s < Len(srv.members))
      BY <3>1, <3>3, <1>0, <1>3 DEF HandleResults, Handled, Server
    <3> QED BY <3>2, <3>3
  <2> QED BY <2>1, <2>2, <1>3, <1>5, MessageEffects
<1>6. ASSUME NEW c \in Clients, ServerDisconnect(c) PROVE MembersDistinct'
  <2>1. srv'.members = Without(srv.members, c) /\ srv'.greeted = srv.greeted
    BY <1>6, <1>0 DEF ServerDisconnect, EraseMember, Server
  <2>2. Len(Without(srv.members, c)) \in Nat
    BY <1>0, WithoutIs
  <2> QED BY <2>1, <2>2, <1>0, <1>1, <1>2, WithoutIs, LobbyAssumption
<1>7. ASSUME NEW c \in Clients, ClientAction(c) PROVE MembersDistinct'
  <2>1. ResetForRematch(srv).members = srv.members /\ ResetForRematch(srv).greeted = srv.greeted
    BY <1>0 DEF ResetForRematch, Server
  <2> QED BY <2>1, <1>3, <1>7, ClientEffects
<1>8. CASE UNCHANGED vars
  BY <1>3, <1>8 DEF vars
<1> QED BY <1>4, <1>5, <1>6, <1>7, <1>8 DEF Next

(* Nobody is seated twice, no two members share a name and nobody gets in   *)
(* without its greeting and the right hash, for any number of clients that  *)
(* join, leave and rotate.                                                  *)
THEOREM NobodySeatedTwice == Spec => []MembersDistinct
BY MembersInit, MembersStep, TypeCorrect, PTL DEF Spec

-----------------------------------------------------------------------------
(* Views *)

LEMMA ShowsOthers ==
  ASSUME NEW v, NEW l, NEW msgs \in Seq(DownMessage), Shows(v, msgs, l),
         NEW q \in Seq(DownMessage), \A i \in DOMAIN q : q[i].t # "update"
  PROVE  Shows(v, msgs \o q, l)
<1> DEFINE r == msgs \o q
<1>1. /\ Len(msgs) \in Nat /\ Len(q) \in Nat /\ DOMAIN msgs = 1..Len(msgs) /\ DOMAIN q = 1..Len(q)
      /\ DOMAIN r = 1..(Len(msgs) + Len(q))
      /\ \A i \in 1..Len(msgs) : r[i] = msgs[i]
      /\ \A i \in 1..(Len(msgs) + Len(q)) : i > Len(msgs) => r[i] = q[i - Len(msgs)]
  OBVIOUS
<1> HIDE DEF r
<1>2. ASSUME NEW i \in DOMAIN r, i > Len(msgs) PROVE r[i].t # "update"
  <2>1. i - Len(msgs) \in DOMAIN q /\ r[i] = q[i - Len(msgs)]
    BY <1>1, <1>2
  <2> QED BY <2>1
<1>3. CASE v = l /\ \A i \in DOMAIN msgs : msgs[i].t # "update"
  <2>1. \A i \in DOMAIN r : r[i].t # "update"
    BY <1>1, <1>2, <1>3
  <2>2. Shows(v, r, l)
    BY <1>3, <2>1 DEF Shows
  <2> QED BY <2>2 DEF r
<1>4. ASSUME NEW i \in DOMAIN msgs, msgs[i].t = "update", msgs[i].data = l,
             \A j \in DOMAIN msgs : j > i => msgs[j].t # "update"
      PROVE  Shows(v, msgs \o q, l)
  <2>1. i \in DOMAIN r /\ r[i] = msgs[i]
    BY <1>1
  <2>2. ASSUME NEW j \in DOMAIN r, j > i PROVE r[j].t # "update"
    BY <1>1, <1>2, <1>4, <2>2
  <2>3. Shows(v, r, l)
    BY <1>4, <2>1, <2>2 DEF Shows
  <2> QED BY <2>3 DEF r
<1> QED BY <1>3, <1>4 DEF Shows

LEMMA ShowsNews ==
  ASSUME NEW v, NEW l, NEW msgs \in Seq(DownMessage), NEW q \in Seq(DownMessage),
         1 \in DOMAIN q, q[1].t = "update", q[1].data = l,
         \A i \in DOMAIN q : i > 1 => q[i].t # "update"
  PROVE  Shows(v, msgs \o q, l)
<1> DEFINE r == msgs \o q
           n == Len(msgs) + 1
<1>1. /\ Len(msgs) \in Nat /\ Len(q) \in Nat /\ DOMAIN msgs = 1..Len(msgs) /\ DOMAIN q = 1..Len(q)
      /\ DOMAIN r = 1..(Len(msgs) + Len(q))
      /\ \A i \in 1..(Len(msgs) + Len(q)) : i > Len(msgs) => r[i] = q[i - Len(msgs)]
  OBVIOUS
<1> HIDE DEF r
<1>2. n \in DOMAIN r /\ r[n] = q[1]
  BY <1>1
<1>3. ASSUME NEW j \in DOMAIN r, j > n PROVE r[j].t # "update"
  <2>1. j - Len(msgs) \in DOMAIN q /\ j - Len(msgs) > 1 /\ r[j] = q[j - Len(msgs)]
    BY <1>1, <1>3
  <2> QED BY <2>1
<1> HIDE DEF n
<1>4. Shows(v, r, l)
  BY <1>2, <1>3 DEF Shows
<1> QED BY <1>4 DEF r

LEMMA ShowsNext ==
  ASSUME NEW v, NEW l, NEW msgs \in Seq(DownMessage), Shows(v, msgs, l), msgs # <<>>
  PROVE  Shows(IF Head(msgs).t = "update" THEN Head(msgs).data ELSE v, Tail(msgs), l)
<1> DEFINE r == Tail(msgs)
           w == IF Head(msgs).t = "update" THEN Head(msgs).data ELSE v
<1>1. /\ Len(msgs) \in Nat /\ DOMAIN msgs = 1..Len(msgs) /\ 1 \in DOMAIN msgs /\ Head(msgs) = msgs[1]
      /\ DOMAIN r = 1..(Len(msgs) - 1)
      /\ \A i \in 1..(Len(msgs) - 1) : r[i] = msgs[i + 1]
  OBVIOUS
<1> HIDE DEF r
<1>2. CASE v = l /\ \A i \in DOMAIN msgs : msgs[i].t # "update"
  <2>1. w = l
    BY <1>1, <1>2
  <2>2. \A i \in DOMAIN r : r[i].t # "update"
    BY <1>1, <1>2
  <2> HIDE DEF w
  <2>3. Shows(w, r, l)
    BY <2>1, <2>2 DEF Shows
  <2> QED BY <2>3 DEF w, r
<1>3. ASSUME NEW i \in DOMAIN msgs, msgs[i].t = "update", msgs[i].data = l,
             \A j \in DOMAIN msgs : j > i => msgs[j].t # "update"
      PROVE  Shows(w, r, l)
  <2>1. CASE i = 1
    <3>1. w = l
      BY <1>1, <1>3, <2>1
    <3>2. ASSUME NEW j \in DOMAIN r PROVE r[j].t # "update"
      <4>1. j + 1 \in DOMAIN msgs /\ j + 1 > i /\ r[j] = msgs[j + 1]
        BY <1>1, <2>1
      <4> QED BY <4>1, <1>3
    <3> HIDE DEF w
    <3> QED BY <3>1, <3>2 DEF Shows
  <2>2. CASE i # 1
    <3>1. i - 1 \in DOMAIN r /\ r[i - 1] = msgs[i]
      BY <1>1, <2>2
    <3>2. ASSUME NEW j \in DOMAIN r, j > i - 1 PROVE r[j].t # "update"
      <4>1. j + 1 \in DOMAIN msgs /\ j + 1 > i /\ r[j] = msgs[j + 1]
        BY <1>1, <3>2
      <4> QED BY <4>1, <1>3
    <3> HIDE DEF w
    <3> QED BY <3>1, <3>2, <1>3 DEF Shows
  <2> QED BY <2>1, <2>2
<1> QED BY <1>2, <1>3 DEF Shows, r

LEMMA TwoInARow ==
  ASSUME NEW S, NEW r \in Seq(S), NEW x \in S
  PROVE  LET q == r \o <<x>> IN
         /\ q \in Seq(S) /\ DOMAIN q = 1..(Len(r) + 1) /\ Len(q) = Len(r) + 1
         /\ \A i \in 1..Len(r) : q[i] = r[i]
         /\ q[Len(r) + 1] = x
<1>1. <<x>> \in Seq(S) /\ Len(<<x>>) = 1 /\ <<x>>[1] = x /\ Len(r) \in Nat
  OBVIOUS
<1> QED BY <1>1

(* The data update comes first in a Step's messages, the signals after it.  *)
LEMMA StepMessagesAre ==
  ASSUME TypeOK
  PROVE  LET q == StepMessages IN
         /\ srv.dirty => /\ 1 \in DOMAIN q /\ q[1].t = "update" /\ q[1].data = LobbyData
                         /\ \A i \in DOMAIN q : i > 1 => q[i].t \in {"allready", "synced"}
         /\ ~srv.dirty => \A i \in DOMAIN q : q[i].t \in {"allready", "synced"}
<1> DEFINE a == [t |-> "allready", n |-> srv.starts + 1]
           b == [t |-> "synced"]
           u == [t |-> "update", data |-> LobbyData]
<1>1. u.t = "update" /\ u.data = LobbyData /\ a.t = "allready" /\ b.t = "synced"
  OBVIOUS
<1>2. StepMessages = ((IF srv.dirty THEN <<u>> ELSE <<>>) \o (IF srv.allReady THEN <<a>> ELSE <<>>))
                     \o (IF srv.synced THEN <<b>> ELSE <<>>)
  BY DEF StepMessages, UpdateMessage, ReadyMessage, SyncedMessage
<1> DEFINE S == {u, a, b}
           x == IF srv.dirty THEN <<u>> ELSE <<>>
           y == IF srv.allReady THEN x \o <<a>> ELSE x
           z == IF srv.synced THEN y \o <<b>> ELSE y
<1> HIDE DEF a, b, u
<1>3. /\ x \in Seq(S) /\ DOMAIN x = 1..Len(x) /\ Len(x) \in Nat
      /\ srv.dirty => Len(x) = 1 /\ x[1] = u
      /\ ~srv.dirty => Len(x) = 0
  <2>1. CASE srv.dirty
    <3>1. x = <<u>> /\ u \in S
      BY <2>1
    <3> HIDE DEF x, S
    <3> QED BY <3>1, <2>1
  <2>2. CASE ~srv.dirty
    <3>1. x = <<>>
      BY <2>2
    <3> HIDE DEF x, S
    <3> QED BY <3>1, <2>2
  <2> QED BY <2>1, <2>2
<1> HIDE DEF x
<1>4. /\ y \in Seq(S) /\ DOMAIN y = 1..Len(y) /\ Len(y) \in Nat /\ Len(y) >= Len(x)
      /\ \A i \in 1..Len(y) : IF i <= Len(x) THEN y[i] = x[i] ELSE y[i] = a
  <2>1. CASE srv.allReady
    <3> DEFINE w == x \o <<a>>
    <3>1. /\ w \in Seq(S) /\ DOMAIN w = 1..(Len(x) + 1) /\ Len(w) = Len(x) + 1
          /\ \A i \in 1..Len(x) : w[i] = x[i]
          /\ w[Len(x) + 1] = a
      BY <1>3, TwoInARow
    <3>2. y = w
      BY <2>1
    <3> HIDE DEF w, y
    <3> QED BY <1>3, <3>1, <3>2
  <2>2. CASE ~srv.allReady
    BY <1>3, <2>2
  <2> QED BY <2>1, <2>2
<1>5. StepMessages = z
  BY <1>2, <1>3, <1>4 DEF x
<1> HIDE DEF y
<1>6. /\ DOMAIN z = 1..Len(z) /\ Len(z) \in Nat /\ Len(z) >= Len(y)
      /\ \A i \in 1..Len(z) : IF i <= Len(y) THEN z[i] = y[i] ELSE z[i] = b
  <2>1. CASE srv.synced
    <3> DEFINE w == y \o <<b>>
    <3>1. /\ w \in Seq(S) /\ DOMAIN w = 1..(Len(y) + 1) /\ Len(w) = Len(y) + 1
          /\ \A i \in 1..Len(y) : w[i] = y[i]
          /\ w[Len(y) + 1] = b
      BY <1>4, TwoInARow
    <3>2. z = w
      BY <2>1
    <3> HIDE DEF w, z
    <3> QED BY <1>4, <3>1, <3>2
  <2>2. CASE ~srv.synced
    BY <1>4, <2>2
  <2> QED BY <2>1, <2>2
<1> HIDE DEF z
<1>7. \A i \in 1..Len(z) : i > Len(x) => z[i] \in {a, b}
  BY <1>3, <1>4, <1>6
<1>8. srv.dirty => 1 \in DOMAIN z /\ z[1] = u
  BY <1>3, <1>4, <1>6
<1>9. CASE srv.dirty
  BY <1>1, <1>3, <1>5, <1>6, <1>7, <1>8, <1>9
<1>10. CASE ~srv.dirty
  BY <1>1, <1>3, <1>5, <1>6, <1>7, <1>10
<1> QED BY <1>9, <1>10

LEMMA StartKeeps ==
  ASSUME NEW k \in Client
  PROVE  LET n == TryStartPendingMatch(k) IN
         LET m == StartMatchFromLobby(k) IN
         /\ n.conn = k.conn /\ n.view = k.view /\ n.readies = k.readies /\ n.outstanding = k.outstanding
         /\ m.conn = k.conn /\ m.view = k.view /\ m.readies = k.readies /\ m.outstanding = k.outstanding
<1>1. LET m == StartMatchFromLobby(k) IN
      m.conn = k.conn /\ m.view = k.view /\ m.readies = k.readies /\ m.outstanding = k.outstanding
  <2> HIDE DEF CanStart
  <2> QED BY DEF StartMatchFromLobby, Client
<1> QED BY <1>1 DEF TryStartPendingMatch

(* What polling one message does to the client's copy of the lobby.         *)
LEMMA ClientStepEffects ==
  ASSUME TypeOK, NEW c \in Clients, ClientStep(c)
  PROVE  LET m == Head(down[c]) IN
         /\ down[c] \in Seq(DownMessage) /\ down[c] # <<>> /\ m \in DownMessage
         /\ \A d \in Clients \ {c} : cl'[d] = cl[d] /\ down'[d] = down[d] /\ up'[d] = up[d]
         /\ down'[c] = IF m.t = "joinrej" THEN <<>> ELSE Tail(down[c])
         /\ cl'[c].view = IF m.t = "update" THEN m.data ELSE cl[c].view
         /\ cl'[c].readies = cl[c].readies
         /\ cl'[c].outstanding = IF m.t = "update" /\ AnswersReady(cl[c], c, m.data)
                                 THEN -1 ELSE cl[c].outstanding
         /\ m.t # "joinrej" => cl'[c].conn = cl[c].conn
         /\ m.t = "joinrej" => cl'[c].conn = IF cl[c].conn = "open" THEN "left" ELSE "gone"
         /\ up'[c] = IF m.t = "hello_resp" /\ cl[c].conn = "open"
                     THEN up[c] \o <<[t |-> "joinreq"]>> ELSE up[c]
         /\ srv' = srv /\ cl[c].conn \in {"open", "dropped"}
<1> DEFINE m == Head(down[c])
           k == cl[c]
           new == CASE m.t = "update"   -> OnDataUpdate(k, c, m.data)
                    [] m.t = "allready" -> StartMatchFromLobby([k EXCEPT !.start = m.n])
                    [] m.t = "synced"   -> [k EXCEPT !.synced = TRUE]
                    [] m.t = "punch_go" -> [k EXCEPT !.punchGo = TRUE]
                    [] m.t = "joinrej"  -> [k EXCEPT !.conn = IF @ = "open" THEN "left" ELSE "gone"]
                    [] OTHER            -> k
<1>0. /\ cl' = [cl EXCEPT ![c] = TryStartPendingMatch(new)]
      /\ down' = [down EXCEPT ![c] = IF m.t = "joinrej" THEN <<>> ELSE Tail(down[c])]
      /\ IF m.t = "hello_resp" /\ k.conn = "open" THEN Send(c, <<[t |-> "joinreq"]>>) ELSE up' = up
      /\ srv' = srv /\ down[c] # <<>> /\ k.conn \in {"open", "dropped"}
  BY DEF ClientStep
<1>1. /\ k \in Client /\ down[c] \in Seq(DownMessage) /\ cl \in [Clients -> Client]
      /\ up \in [Clients -> Seq(UpMessage)] /\ down \in [Clients -> Seq(DownMessage)]
  BY DEF TypeOK
<1>2. m \in DownMessage
  BY <1>0, <1>1
<1>3. /\ \A d \in Clients \ {c} : cl'[d] = cl[d] /\ down'[d] = down[d] /\ up'[d] = up[d]
      /\ down'[c] = IF m.t = "joinrej" THEN <<>> ELSE Tail(down[c])
      /\ up'[c] = IF m.t = "hello_resp" /\ cl[c].conn = "open"
                  THEN up[c] \o <<[t |-> "joinreq"]>> ELSE up[c]
      /\ cl'[c] = TryStartPendingMatch(new)
  <2> HIDE DEF m, new
  <2> QED BY <1>0, <1>1 DEF Send
<1>4. /\ new \in Client
      /\ new.view = IF m.t = "update" THEN m.data ELSE k.view
      /\ new.readies = k.readies
      /\ new.outstanding = IF m.t = "update" /\ AnswersReady(k, c, m.data)
                           THEN -1 ELSE k.outstanding
      /\ m.t # "joinrej" => new.conn = k.conn
      /\ m.t = "joinrej" => new.conn = IF k.conn = "open" THEN "left" ELSE "gone"
  <2> HIDE DEF m, k
  <2>1. CASE m.t = "update"
    <3> DEFINE x1 == [k EXCEPT !.view = m.data]
               o == IF AnswersReady(k, c, m.data) THEN -1 ELSE k.outstanding
               x2 == [x1 EXCEPT !.outstanding = o]
    <3>1. new = x2
      <4> HIDE DEF AnswersReady
      <4> QED BY <2>1, <1>1 DEF OnDataUpdate, Client
    <3>2. o \in {-1} \cup (1..MaxReadies)
      BY <1>1 DEF Client
    <3>3. x1 \in Client
      BY <1>1, <1>2, <2>1, TypedMessage, ClientFields
    <3>4. x1.view = m.data /\ x1.readies = k.readies /\ x1.conn = k.conn
      BY <1>1 DEF Client
    <3> HIDE DEF x1, o
    <3>5. x2 \in Client
      BY <3>2, <3>3, ClientFields
    <3>6. x2.view = m.data /\ x2.readies = k.readies /\ x2.conn = k.conn /\ x2.outstanding = o
      BY <3>3, <3>4 DEF Client
    <3> HIDE DEF x2, new
    <3> QED BY <3>1, <3>5, <3>6, <2>1 DEF o
  <2>2. CASE m.t = "allready"
    <3> DEFINE x1 == [k EXCEPT !.start = m.n]
    <3>1. x1 \in Client
      BY <1>1, <1>2, <2>2, TypedMessage, ClientFields
    <3>2. x1.view = k.view /\ x1.readies = k.readies /\ x1.conn = k.conn /\ x1.outstanding = k.outstanding
      BY <1>1 DEF Client
    <3>3. new = StartMatchFromLobby(x1)
      BY <2>2
    <3> HIDE DEF x1, new
    <3> QED BY <3>1, <3>2, <3>3, <2>2, StartTypes, StartKeeps
  <2>3. CASE m.t = "synced"
    <3>1. new = [k EXCEPT !.synced = TRUE]
      BY <2>3
    <3> HIDE DEF new
    <3>2. \A x \in BOOLEAN : [k EXCEPT !.synced = x] \in Client
      BY <1>1, ClientFields
    <3>3. new \in Client
      BY <3>1, <3>2
    <3> QED BY <3>1, <3>3, <2>3, <1>1 DEF Client
  <2>4. CASE m.t = "punch_go"
    <3>1. new = [k EXCEPT !.punchGo = TRUE]
      BY <2>4
    <3> HIDE DEF new
    <3>2. \A x \in BOOLEAN : [k EXCEPT !.punchGo = x] \in Client
      BY <1>1, ClientFields
    <3>3. new \in Client
      BY <3>1, <3>2
    <3> QED BY <3>1, <3>3, <2>4, <1>1 DEF Client
  <2>5. CASE m.t = "joinrej"
    <3> DEFINE o == IF k.conn = "open" THEN "left" ELSE "gone"
    <3>1. new = [k EXCEPT !.conn = o]
      BY <2>5
    <3>2. o \in {"idle", "open", "left", "dropped", "gone"}
      OBVIOUS
    <3> HIDE DEF new, o
    <3>3. new \in Client
      BY <1>1, <3>1, <3>2, ClientFields
    <3>4. new.conn = o /\ new.view = k.view /\ new.readies = k.readies /\ new.outstanding = k.outstanding
      BY <1>1, <3>1 DEF Client
    <3> QED BY <3>3, <3>4, <2>5 DEF o
  <2>6. CASE m.t \notin {"update", "allready", "synced", "punch_go", "joinrej"}
    <3>1. new = k
      BY <2>6
    <3> QED BY <3>1, <1>1, <2>6
  <2> QED BY <2>1, <2>2, <2>3, <2>4, <2>5, <2>6
<1> HIDE DEF new
<1>5. LET x == TryStartPendingMatch(new) IN
      x.conn = new.conn /\ x.view = new.view /\ x.readies = new.readies /\ x.outstanding = new.outstanding
  BY <1>4, StartKeeps
<1> HIDE DEF TryStartPendingMatch
<1> QED BY <1>0, <1>1, <1>2, <1>3, <1>4, <1>5

(* The other steps of a process leave its copy of the lobby alone.          *)
LEMMA ClientKeeps ==
  ASSUME TypeOK, NEW c \in Clients, ClientAction(c), ~ClientStep(c)
  PROVE  /\ \A d \in Clients : cl'[d].view = cl[d].view
         /\ \A d \in Clients \ {c} : cl'[d] = cl[d] /\ down'[d] = down[d] /\ up'[d] = up[d]
         /\ cl'[c].conn = cl[c].conn \/ Leave(c) \/ Connect(c)
         /\ Leave(c) => c \in MayLeave /\ cl'[c].conn \in {"left", "gone"}
         /\ Leave(c) \/ down'[c] = down[c]
         /\ PressReady(c) \/ (cl'[c].readies = cl[c].readies /\ cl'[c].outstanding = cl[c].outstanding)
<1> DEFINE k == cl[c]
<1>0. cl \in [Clients -> Client] /\ k \in Client /\ up \in [Clients -> Seq(UpMessage)]
      /\ down \in [Clients -> Seq(DownMessage)]
  BY DEF TypeOK
<1>a. \A msgs : Send(c, msgs) => \A d \in Clients \ {c} : up'[d] = up[d]
  BY <1>0 DEF Send
<1>b. ASSUME NEW x, cl' = [cl EXCEPT ![c] = x],
             x.view = k.view /\ (x.conn = k.conn \/ Connect(c)),
             PressReady(c) \/ (x.readies = k.readies /\ x.outstanding = k.outstanding),
             down' = down, \A d \in Clients \ {c} : up'[d] = up[d], ~Leave(c)
      PROVE  /\ \A d \in Clients : cl'[d].view = cl[d].view
             /\ \A d \in Clients \ {c} : cl'[d] = cl[d] /\ down'[d] = down[d] /\ up'[d] = up[d]
             /\ cl'[c].conn = cl[c].conn \/ Leave(c) \/ Connect(c)
             /\ Leave(c) => c \in MayLeave /\ cl'[c].conn \in {"left", "gone"}
             /\ Leave(c) \/ down'[c] = down[c]
             /\ PressReady(c) \/ (cl'[c].readies = cl[c].readies /\ cl'[c].outstanding = cl[c].outstanding)
  BY <1>0, <1>b
<1>l. CASE Leave(c)
  <2>1. PICK x \in {"left", "gone"} : cl' = [cl EXCEPT ![c].conn = x]
    BY <1>l DEF Leave
  <2>2. /\ cl'[c].conn = x /\ cl'[c].view = k.view /\ cl'[c].readies = k.readies
        /\ cl'[c].outstanding = k.outstanding
        /\ \A d \in Clients \ {c} : cl'[d] = cl[d]
    BY <2>1, <1>0 DEF Client
  <2> QED BY <1>l, <2>2, <1>0 DEF Leave
<1>1. CASE Connect(c) /\ ~Leave(c)
  <2> DEFINE x == [k EXCEPT !.conn = "open"]
  <2>1. cl' = [cl EXCEPT ![c] = x] /\ x.view = k.view /\ x.readies = k.readies
        /\ x.outstanding = k.outstanding
    BY <1>1, <1>0 DEF Connect, Client
  <2>2. down' = down /\ (up' = up \/ \E msgs : Send(c, msgs))
    BY <1>1 DEF Connect
  <2> HIDE DEF x, k
  <2> QED BY <1>1, <2>1, <2>2, <1>a, <1>b
<1>2. CASE TickFrame(c) /\ ~Leave(c)
  <2> DEFINE x == TryStartPendingMatch(k)
  <2>0. x.view = k.view /\ x.readies = k.readies /\ x.outstanding = k.outstanding /\ x.conn = k.conn
    BY <1>0, StartKeeps
  <2>1. cl' = [cl EXCEPT ![c] = x]
    BY <1>2 DEF TickFrame
  <2>2. down' = down /\ (up' = up \/ \E msgs : Send(c, msgs))
    BY <1>2 DEF TickFrame
  <2> HIDE DEF x, k
  <2> QED BY <1>2, <2>0, <2>1, <2>2, <1>a, <1>b
<1>3. CASE PushSettings(c) /\ ~Leave(c)
  <2> DEFINE x == [k EXCEPT !.settingsSent = TRUE]
  <2>1. cl' = [cl EXCEPT ![c] = x] /\ x.view = k.view /\ x.readies = k.readies
        /\ x.outstanding = k.outstanding /\ x.conn = k.conn
    BY <1>3, <1>0 DEF PushSettings, Client
  <2>2. down' = down /\ (up' = up \/ \E msgs : Send(c, msgs))
    BY <1>3 DEF PushSettings
  <2> HIDE DEF x, k
  <2> QED BY <1>3, <2>1, <2>2, <1>a, <1>b
<1>4. CASE PressReady(c) /\ ~Leave(c)
  <2> DEFINE x == [k EXCEPT !.readies = k.readies + 1, !.outstanding = k.readies + 1,
                            !.early = k.early \/ k.phase # "menu"]
  <2>1. cl' = [cl EXCEPT ![c] = x] /\ x.view = k.view /\ x.conn = k.conn
    BY <1>4, <1>0 DEF PressReady, Client
  <2>2. down' = down /\ \E msgs : Send(c, msgs)
    BY <1>4 DEF PressReady
  <2> HIDE DEF x, k
  <2> QED BY <1>4, <2>1, <2>2, <1>a, <1>b
<1>5. CASE ReportWin(c) /\ ~Leave(c)
  <2> DEFINE x == [k EXCEPT !.results = k.results + 1]
  <2>1. cl' = [cl EXCEPT ![c] = x] /\ x.view = k.view /\ x.readies = k.readies
        /\ x.outstanding = k.outstanding /\ x.conn = k.conn
    BY <1>5, <1>0 DEF ReportWin, Client
  <2>2. down' = down /\ (up' = up \/ \E msgs : Send(c, msgs))
    BY <1>5 DEF ReportWin
  <2> HIDE DEF x, k
  <2> QED BY <1>5, <2>1, <2>2, <1>a, <1>b
<1>6. CASE StartPunch(c) /\ ~Leave(c)
  <2> DEFINE x == [k EXCEPT !.phase = "punching", !.punchGo = FALSE, !.punched = k.battle]
  <2>1. cl' = [cl EXCEPT ![c] = x] /\ x.view = k.view /\ x.readies = k.readies
        /\ x.outstanding = k.outstanding /\ x.conn = k.conn
    BY <1>6, <1>0 DEF StartPunch, Client
  <2>2. down' = down /\ (up' = up \/ \E msgs : Send(c, msgs))
    BY <1>6 DEF StartPunch
  <2> HIDE DEF x, k
  <2> QED BY <1>6, <2>1, <2>2, <1>a, <1>b
<1>7. CASE RegisterTasks(c) /\ ~Leave(c)
  <2> DEFINE x == [k EXCEPT !.phase = "waiting", !.ggpo = Len(k.view.members) >= 2, !.setup = [k.view EXCEPT !.custom = k.setup.custom]]
  <2>1. cl' = [cl EXCEPT ![c] = x] /\ x.view = k.view /\ x.readies = k.readies
        /\ x.outstanding = k.outstanding /\ x.conn = k.conn
    BY <1>7, <1>0 DEF RegisterTasks, Client
  <2>2. down' = down /\ (up' = up \/ \E msgs : Send(c, msgs))
    BY <1>7 DEF RegisterTasks
  <2> HIDE DEF x, k
  <2> QED BY <1>7, <2>1, <2>2, <1>a, <1>b
<1>8. CASE AbortMatch(c) /\ ~Leave(c)
  <2> DEFINE x == [k EXCEPT !.phase = "closing", !.ggpo = FALSE, !.aborted = TRUE]
  <2>1. cl' = [cl EXCEPT ![c] = x] /\ x.view = k.view /\ x.readies = k.readies
        /\ x.outstanding = k.outstanding /\ x.conn = k.conn
    BY <1>8, <1>0 DEF AbortMatch, Client
  <2>2. down' = down /\ (up' = up \/ \E msgs : Send(c, msgs))
    BY <1>8 DEF AbortMatch
  <2> HIDE DEF x, k
  <2> QED BY <1>8, <2>1, <2>2, <1>a, <1>b
<1>9. CASE HasInitialized(c) /\ ~Leave(c)
  <2> DEFINE x == [k EXCEPT !.sentLoaded = TRUE, !.phase = IF k.synced THEN "fight" ELSE k.phase, !.arrived = IF k.sentLoaded THEN k.arrived ELSE k.battle]
  <2>1. cl' = [cl EXCEPT ![c] = x] /\ x.view = k.view /\ x.readies = k.readies
        /\ x.outstanding = k.outstanding /\ x.conn = k.conn
    BY <1>9, <1>0 DEF HasInitialized, Client
  <2>2. down' = down /\ (up' = up \/ \E msgs : Send(c, msgs))
    BY <1>9 DEF HasInitialized
  <2> HIDE DEF x, k
  <2> QED BY <1>9, <2>1, <2>2, <1>a, <1>b
<1>10. CASE CloseBattle(c) /\ ~Leave(c)
  <2> DEFINE x == [k EXCEPT !.phase = "closing", !.ggpo = Len(k.view.members) > 2]
  <2>1. cl' = [cl EXCEPT ![c] = x] /\ x.view = k.view /\ x.readies = k.readies
        /\ x.outstanding = k.outstanding /\ x.conn = k.conn
    BY <1>10, <1>0 DEF CloseBattle, Client
  <2>2. down' = down /\ (up' = up \/ \E msgs : Send(c, msgs))
    BY <1>10 DEF CloseBattle
  <2> HIDE DEF x, k
  <2> QED BY <1>10, <2>1, <2>2, <1>a, <1>b
<1>11. CASE DeferredClose(c) /\ ~Leave(c)
  <2> DEFINE x == [k EXCEPT !.ggpo = FALSE]
  <2>1. cl' = [cl EXCEPT ![c] = x] /\ x.view = k.view /\ x.readies = k.readies
        /\ x.outstanding = k.outstanding /\ x.conn = k.conn
    BY <1>11, <1>0 DEF DeferredClose, Client
  <2>2. down' = down /\ (up' = up \/ \E msgs : Send(c, msgs))
    BY <1>11 DEF DeferredClose
  <2> HIDE DEF x, k
  <2> QED BY <1>11, <2>1, <2>2, <1>a, <1>b
<1>12. CASE ExitForeground(c) /\ ~Leave(c)
  <2> DEFINE x == [k EXCEPT !.phase = "menu", !.sentLoaded = FALSE, !.synced = FALSE]
  <2>1. cl' = [cl EXCEPT ![c] = x] /\ x.view = k.view /\ x.readies = k.readies
        /\ x.outstanding = k.outstanding /\ x.conn = k.conn
    BY <1>12, <1>0 DEF ExitForeground, Client
  <2>2. down' = down /\ (up' = up \/ \E msgs : Send(c, msgs))
    BY <1>12 DEF ExitForeground
  <2> HIDE DEF x, k
  <2> QED BY <1>12, <2>1, <2>2, <1>a, <1>b
<1> QED BY <1>l, <1>1, <1>2, <1>3, <1>4, <1>5, <1>6, <1>7, <1>8, <1>9, <1>10, <1>11, <1>12 DEF ClientAction

LEMMA ViewInit == Init => ViewInv
<1> SUFFICES ASSUME Init PROVE ViewInv
  OBVIOUS
<1>1. /\ srv.members = Joined /\ srv.greeted = Elems(Joined) /\ srv.match = NoMatchData
      /\ srv.custom = Pushed
      /\ \A c \in Clients : down[c] = <<>> /\ cl[c] = InitClient(c)
  BY DEF Init, InitServer
<1>2. Elems(Joined) \subseteq Clients
  BY LobbyAssumption, ElementOfSeq DEF Elems
<1>3. ASSUME NEW c \in Elems(Joined)
      PROVE  cl[c].view = LobbyData /\ down[c] = <<>> /\ cl[c].conn = "open"
  <2>1. cl[c].view = [NullLobby EXCEPT !.members = Joined, !.custom = Pushed] /\ cl[c].conn = "open"
    <3>1. cl[c] = InitClient(c)
      BY <1>1, <1>2
    <3> HIDE DEF NullLobby, Pushed, Elems
    <3> QED BY <3>1 DEF InitClient
  <2>2. LobbyData = [members |-> Joined, match |-> NoMatchData, custom |-> Pushed]
    BY <1>1 DEF LobbyData
  <2> HIDE DEF Pushed
  <2> QED BY <1>1, <1>2, <2>1, <2>2 DEF NullLobby
<1> HIDE DEF LobbyData
<1> QED BY <1>1, <1>3 DEF ViewInv, Shows

(* What one message makes the server send are no data updates.              *)
LEMMA MessageAnswers ==
  ASSUME TypeOK, NEW c \in Clients, ServerMessage(c), NEW d \in Clients
  PROVE  \E q \in Seq(DownMessage) : /\ \A i \in DOMAIN q : q[i].t # "update"
                                     /\ down'[d] = down[d] \o q
<1>0. down \in [Clients -> Seq(DownMessage)] /\ down[d] \in Seq(DownMessage)
  BY DEF TypeOK
<1>1. ASSUME NEW m \in DownMessage, m.t # "update", down'[d] = down[d] \o <<m>>
      PROVE  \E q \in Seq(DownMessage) : /\ \A i \in DOMAIN q : q[i].t # "update"
                                         /\ down'[d] = down[d] \o q
  <2>1. <<m>> \in Seq(DownMessage) /\ \A i \in DOMAIN <<m>> : <<m>>[i].t # "update"
    BY <1>1
  <2> QED BY <1>1, <2>1
<1>2. ASSUME down'[d] = down[d]
      PROVE  \E q \in Seq(DownMessage) : /\ \A i \in DOMAIN q : q[i].t # "update"
                                         /\ down'[d] = down[d] \o q
  <2>1. <<>> \in Seq(DownMessage) /\ \A i \in DOMAIN <<>> : <<>>[i].t # "update"
    OBVIOUS
  <2>2. down[d] \o <<>> = down[d]
    BY <1>0
  <2> QED BY <1>2, <2>1, <2>2
<1>3. ASSUME NEW m \in DownMessage, m.t # "update", Respond(c, m)
      PROVE  down'[d] = down[d] \/ down'[d] = down[d] \o <<m>>
  BY <1>0, <1>3 DEF Respond
<1>4. ASSUME NEW m \in DownMessage, Broadcast(srv.members, <<m>>)
      PROVE  down'[d] = down[d] \/ down'[d] = down[d] \o <<m>>
  BY <1>0, <1>4 DEF Broadcast
<1>5. CASE RecvHello(c)
  <2>1. [t |-> "hello_resp"] \in DownMessage /\ Respond(c, [t |-> "hello_resp"])
    BY <1>5 DEF DownMessage, RecvHello
  <2> QED BY <2>1, <1>1, <1>2, <1>3
<1>6. CASE RecvJoinReq(c)
  <2> DEFINE m == [t |-> "joinrej", why |-> JoinResult(c)]
  <2>1. CASE JoinResult(c) = "ok"
    BY <1>2, <1>6, <2>1 DEF RecvJoinReq
  <2>2. CASE JoinResult(c) # "ok"
    <3>1. JoinResult(c) \in {"hash_invalid", "lobby_full", "name_taken"}
      BY <2>2 DEF JoinResult
    <3>2. m \in DownMessage /\ m.t # "update"
      <4> HIDE DEF JoinResult
      <4> QED BY <3>1 DEF DownMessage
    <3>3. Respond(c, m)
      BY <1>6, <2>2 DEF RecvJoinReq
    <3> HIDE DEF m
    <3> QED BY <3>2, <3>3, <1>1, <1>2, <1>3
  <2> QED BY <2>1, <2>2
<1>7. CASE RecvPunchReady(c)
  <2>1. [t |-> "punch_go"] \in DownMessage
        /\ (down' = down \/ Broadcast(srv.members, <<[t |-> "punch_go"]>>))
    BY <1>7 DEF DownMessage, RecvPunchReady
  <2> QED BY <2>1, <1>1, <1>2, <1>4
<1>8. CASE ~RecvHello(c) /\ ~RecvJoinReq(c) /\ ~RecvPunchReady(c)
  <2>1. down' = down
    BY <1>8 DEF ServerMessage, RecvSetChara, RecvSetEnv, RecvSetStage, RecvSetSettings, RecvLoaded,
                RecvReady, RecvResults, RecvReset
  <2> QED BY <2>1, <1>2
<1> QED BY <1>5, <1>6, <1>7, <1>8

LEMMA ViewStep == TypeOK /\ MembersDistinct /\ ViewInv /\ [Next]_vars => ViewInv'
<1> SUFFICES ASSUME TypeOK, MembersDistinct, ViewInv, [Next]_vars PROVE ViewInv'
  OBVIOUS
<1>0. /\ srv \in Server /\ srv.members \in Seq(Clients) /\ srv.greeted \in SUBSET Clients
      /\ cl \in [Clients -> Client] /\ down \in [Clients -> Seq(DownMessage)]
  BY DEF TypeOK, Server
<1>1. Elems(srv.members) \subseteq srv.greeted /\ Elems(srv.members) \subseteq Clients
  BY <1>0, ElementOfSeq DEF MembersDistinct, Elems
<1>2. CASE FlushStep
  <2> DEFINE q == StepMessages
  <2>1. srv'.members = srv.members /\ srv'.greeted = srv.greeted /\ srv'.alive = srv.alive
        /\ LobbyData' = LobbyData /\ cl' = cl
    BY <1>0, <1>2 DEF FlushStep, Server, LobbyData
  <2>2. q \in Seq(DownMessage)
    BY StepMessagesType
  <2>3. /\ srv.dirty => /\ 1 \in DOMAIN q /\ q[1].t = "update" /\ q[1].data = LobbyData
                        /\ \A i \in DOMAIN q : i > 1 => q[i].t # "update"
        /\ ~srv.dirty => \A i \in DOMAIN q : q[i].t # "update"
    <3> HIDE DEF StepMessages, LobbyData
    <3>1. /\ srv.dirty => /\ 1 \in DOMAIN q /\ q[1].t = "update" /\ q[1].data = LobbyData
                          /\ \A i \in DOMAIN q : i > 1 => q[i].t \in {"allready", "synced"}
          /\ ~srv.dirty => \A i \in DOMAIN q : q[i].t \in {"allready", "synced"}
      BY StepMessagesAre
    <3> HIDE DEF q
    <3> QED BY <3>1
  <2>4. Broadcast(srv.members, q)
    BY <1>2 DEF FlushStep
  <2> HIDE DEF q, LobbyData
  <2>5. ASSUME NEW c \in Elems(srv.members), srv.alive, cl[c].conn = "open"
        PROVE  Shows(cl[c].view, down'[c], LobbyData)
    <3>1. down'[c] = down[c] \o q /\ down[c] \in Seq(DownMessage)
      BY <1>0, <1>1, <2>4, <2>5 DEF Broadcast
    <3>2. CASE srv.dirty
      BY <2>2, <2>3, <3>1, <3>2, ShowsNews
    <3>3. CASE ~srv.dirty
      <4>1. Shows(cl[c].view, down[c], LobbyData)
        BY <2>5, <3>3 DEF ViewInv
      <4> QED BY <2>2, <2>3, <3>1, <3>3, <4>1, ShowsOthers
    <3> QED BY <3>2, <3>3
  <2> QED BY <2>1, <2>5 DEF ViewInv
<1>3. ASSUME NEW c \in Clients, ServerMessage(c) PROVE ViewInv'
  <2>1. /\ cl' = cl /\ srv.alive
        /\ srv'.dirty = TRUE \/ srv'.alive = FALSE
           \/ (srv'.members = srv.members /\ srv'.match = srv.match
               /\ srv'.custom = srv.custom /\ srv'.dirty = srv.dirty)
    BY <1>3, MessageEffects
  <2>2. \A d \in srv'.greeted : cl[d].conn # "idle"
    <3>1. srv'.greeted \subseteq srv.greeted \cup {c}
      <4>1. srv'.greeted \subseteq srv.greeted \/ RecvHello(c)
        BY ZenonT(60), <1>0, <1>3 DEF ServerMessage, RecvJoinReq, RecvSetChara, RecvSetEnv, RecvSetStage,
           RecvSetSettings, RecvLoaded, RecvReady, RecvResults, RecvReset, RecvPunchReady, Handled,
           HandleResults, ResetForRematch, Server
      <4> QED BY <4>1, <1>0 DEF RecvHello, Handled, Server
    <3>2. cl[c].conn # "idle"
      BY <1>3 DEF ServerMessage, RecvHello, RecvJoinReq, RecvSetChara, RecvSetEnv, RecvSetStage,
         RecvSetSettings, RecvLoaded, RecvReady, RecvResults, RecvReset, RecvPunchReady, Polled
    <3> QED BY <3>1, <3>2 DEF ViewInv
  <2>3. CASE srv'.dirty = TRUE \/ srv'.alive = FALSE
    BY <2>1, <2>2, <2>3 DEF ViewInv
  <2>4. CASE srv'.members = srv.members /\ srv'.match = srv.match
             /\ srv'.custom = srv.custom /\ srv'.dirty = srv.dirty
    <3>1. LobbyData' = LobbyData
      BY <2>4 DEF LobbyData
    <3> HIDE DEF LobbyData
    <3>2. ASSUME NEW d \in Elems(srv.members), ~srv.dirty, cl[d].conn = "open"
          PROVE  Shows(cl[d].view, down'[d], LobbyData)
      <4>1. PICK q \in Seq(DownMessage) : (\A i \in DOMAIN q : q[i].t # "update")
                                          /\ down'[d] = down[d] \o q
        BY <1>1, <1>3, MessageAnswers
      <4>2. Shows(cl[d].view, down[d], LobbyData) /\ down[d] \in Seq(DownMessage)
        BY <1>0, <1>1, <2>1, <3>2 DEF ViewInv
      <4> QED BY <4>1, <4>2, ShowsOthers
    <3> QED BY <2>1, <2>2, <2>4, <3>1, <3>2 DEF ViewInv
  <2> QED BY <2>1, <2>3, <2>4
<1>4. ASSUME NEW c \in Clients, ServerDisconnect(c) PROVE ViewInv'
  <2>1. /\ srv'.members = Without(srv.members, c) /\ srv'.greeted = srv.greeted
        /\ srv'.dirty = (srv.dirty \/ c \in Elems(srv.members))
        /\ srv'.match = srv.match /\ srv'.custom = srv.custom /\ srv'.alive = srv.alive
        /\ down' = down
    BY <1>4, <1>0 DEF ServerDisconnect, EraseMember, Server
  <2>2. \A d \in Clients : cl'[d].view = cl[d].view /\ (d # c => cl'[d].conn = cl[d].conn)
                           /\ cl'[c].conn \in {"gone", "dropped"}
    BY <1>0, <1>4 DEF ServerDisconnect, Client
  <2>3. \A d \in srv'.greeted : cl'[d].conn # "idle"
    BY <1>0, <2>1, <2>2 DEF ViewInv
  <2>4. CASE c \in Elems(srv.members)
    BY <2>1, <2>3, <2>4 DEF ViewInv
  <2>5. CASE c \notin Elems(srv.members)
    <3>1. Without(srv.members, c) = srv.members
      BY <1>0, <2>5, WithoutIs
    <3>2. LobbyData' = LobbyData
      BY <2>1, <3>1 DEF LobbyData
    <3> HIDE DEF LobbyData
    <3>3. ASSUME NEW d \in Elems(srv.members), srv'.alive, ~srv'.dirty, cl'[d].conn = "open"
          PROVE  Shows(cl'[d].view, down'[d], LobbyData)
      <4>1. d # c /\ d \in Clients
        BY <1>1, <2>5
      <4> QED BY <2>1, <2>2, <3>3, <4>1 DEF ViewInv
    <3> QED BY <2>1, <2>3, <3>1, <3>2, <3>3 DEF ViewInv
  <2> QED BY <2>4, <2>5
<1>5. ASSUME NEW c \in Clients, ClientAction(c) PROVE ViewInv'
  <2>1. CASE ClientStep(c)
    <3> DEFINE m == Head(down[c])
    <3>1. /\ down[c] \in Seq(DownMessage) /\ down[c] # <<>>
          /\ \A d \in Clients \ {c} : cl'[d] = cl[d] /\ down'[d] = down[d]
          /\ down'[c] = IF m.t = "joinrej" THEN <<>> ELSE Tail(down[c])
          /\ cl'[c].view = IF m.t = "update" THEN m.data ELSE cl[c].view
          /\ m.t # "joinrej" => cl'[c].conn = cl[c].conn
          /\ m.t = "joinrej" => cl'[c].conn = IF cl[c].conn = "open" THEN "left" ELSE "gone"
          /\ srv' = srv
      BY <2>1, ClientStepEffects
    <3>2. LobbyData' = LobbyData
      BY <3>1 DEF LobbyData
    <3> HIDE DEF LobbyData, m
    <3>3. ASSUME NEW d \in Elems(srv.members), srv.alive, ~srv.dirty, cl'[d].conn = "open"
          PROVE  Shows(cl'[d].view, down'[d], LobbyData)
      <4>1. CASE d # c
        BY <1>1, <3>1, <3>3, <4>1 DEF ViewInv
      <4>2. CASE d = c
        <5>1. m.t # "joinrej" /\ cl[c].conn = "open" /\ down'[c] = Tail(down[c])
          BY <3>1, <3>3, <4>2
        <5>2. Shows(cl[c].view, down[c], LobbyData)
          BY <3>3, <4>2, <5>1 DEF ViewInv
        <5>3. Shows(IF m.t = "update" THEN m.data ELSE cl[c].view, Tail(down[c]), LobbyData)
          BY <3>1, <5>2, ShowsNext DEF m
        <5> QED BY <3>1, <4>2, <5>1, <5>3
      <4> QED BY <4>1, <4>2
    <3>4. \A d \in srv.greeted : cl'[d].conn # "idle"
      BY <1>0, <3>1 DEF ViewInv
    <3> QED BY <3>1, <3>2, <3>3, <3>4 DEF ViewInv
  <2>2. CASE ~ClientStep(c)
    <3>1. /\ \A d \in Clients : cl'[d].view = cl[d].view
          /\ \A d \in Clients \ {c} : cl'[d] = cl[d] /\ down'[d] = down[d]
          /\ cl'[c].conn = cl[c].conn \/ Leave(c) \/ Connect(c)
          /\ Leave(c) => cl'[c].conn \in {"left", "gone"}
          /\ Leave(c) \/ down'[c] = down[c]
      BY <1>5, <2>2, ClientKeeps
    <3>2. Connect(c) => c \notin srv.greeted /\ cl'[c].conn = "open"
      BY <1>0 DEF ViewInv, Connect, Client
    <3>3. \A d \in srv.greeted : cl'[d].conn # "idle"
      BY <1>0, <3>1, <3>2 DEF ViewInv
    <3>4. CASE srv' = srv
      <4>1. LobbyData' = LobbyData
        BY <3>4 DEF LobbyData
      <4> HIDE DEF LobbyData
      <4>2. ASSUME NEW d \in Elems(srv.members), srv.alive, ~srv.dirty, cl'[d].conn = "open"
            PROVE  Shows(cl'[d].view, down'[d], LobbyData)
        <5>1. d \in Clients /\ d \in srv.greeted
          BY <1>1
        <5>2. cl[d].conn = "open" /\ down'[d] = down[d]
          BY <3>1, <3>2, <4>2, <5>1
        <5> QED BY <3>1, <4>2, <5>1, <5>2 DEF ViewInv
      <4> QED BY <3>3, <3>4, <4>1, <4>2 DEF ViewInv
    <3>5. CASE srv' = ResetForRematch(srv)
      <4>1. srv'.dirty = TRUE /\ srv'.greeted = srv.greeted
        BY <1>0, <3>5 DEF ResetForRematch, Server
      <4> QED BY <3>3, <4>1 DEF ViewInv
    <3> QED BY <1>5, <3>4, <3>5, ClientEffects
  <2> QED BY <2>1, <2>2
<1>6. CASE UNCHANGED vars
  BY <1>6 DEF vars, ViewInv, LobbyData
<1> QED BY <1>2, <1>3, <1>4, <1>5, <1>6 DEF Next

(* No change of seats, choices or readiness is left without a data update,  *)
(* whatever the order of the handlers that make one (_dataDirty).           *)
THEOREM ViewsConverge == Spec => []ViewConverges
<1>1. ViewInv => ViewConverges
  BY DEF ViewInv, ViewConverges, Shows
<1> QED BY <1>1, ViewInit, ViewStep, MembersInit, MembersStep, TypeCorrect, PTL DEF Spec

-----------------------------------------------------------------------------
(* Ready marks *)

(* The Ready number a lobby shows for c, -1 if c has no seat in it.         *)
Mark(data, c) ==
    IF SideOf(data.members, c) = -1 THEN -1
    ELSE data.match.ready[SideOf(data.members, c)]

(* A connection asks to join once: its question u, the answer to it in      *)
(* msgs, its membership and its being outside exclude each other.           *)
Asks(m) == m.t \in {"hello", "joinreq"}
Answers(m) == m.t \in {"hello_resp", "joinrej"}
JoinsOnce(u, msgs, in, conn) ==
    /\ \A i, j \in DOMAIN u : Asks(u[i]) /\ Asks(u[j]) => i = j
    /\ \A i, j \in DOMAIN msgs : Answers(msgs[i]) /\ Answers(msgs[j]) => i = j
    /\ \A i \in DOMAIN u : Asks(u[i]) =>
        ~in /\ conn = "open" /\ \A j \in DOMAIN msgs : ~Answers(msgs[j])
    /\ \A j \in DOMAIN msgs : Answers(msgs[j]) => ~in /\ conn = "open"
    /\ in => conn = "open"
    /\ conn # "dropped"

(* What is sent to c shows c among members with names of their own.         *)
ShowsSelf(c, msgs) ==
    \A i \in DOMAIN msgs : msgs[i].t = "update" =>
        c \in Elems(msgs[i].data.members) /\ OwnNamesIn(msgs[i].data.members)

(* No lobby, shown (v), sent (msgs) or held (l), marks c ready.             *)
Unmarked(c, v, msgs, l) ==
    /\ v = -1 /\ l = -1
    /\ \A i \in DOMAIN msgs : msgs[i].t = "update" => Mark(msgs[i].data, c) = -1

(* At most one Ready of c is under way: its last one, which waits for its   *)
(* answer o and which nobody has seen.                                      *)
OneReady(c, u, v, o, n, msgs, l) ==
    /\ \A i, j \in DOMAIN u : u[i].t = "ready" /\ u[j].t = "ready" => i = j
    /\ \A i \in DOMAIN u : u[i].t = "ready" =>
        u[i].n = n /\ o = n /\ Unmarked(c, v, msgs, l)

(* From the i-th message on, c is not marked any more.                      *)
Withdrawn(c, i, msgs, l) ==
    /\ l = -1
    /\ \A k \in DOMAIN msgs : msgs[k].t = "update" /\ k > i => Mark(msgs[k].data, c) = -1

(* All lobbies mark c with its last Ready n or not at all, and a mark that  *)
(* c has seen (or will see) and that is withdrawn does not come back.       *)
MarksFollow(c, v, o, n, msgs, l) ==
    /\ o \in {-1, n} /\ v \in {-1, n} /\ l \in {-1, n}
    /\ \A i \in DOMAIN msgs : msgs[i].t = "update" => Mark(msgs[i].data, c) \in {-1, n}
    /\ o = -1 /\ v = -1 => Withdrawn(c, 0, msgs, l)
    /\ \A i \in DOMAIN msgs :
        (/\ msgs[i].t = "update" /\ Mark(msgs[i].data, c) = -1
         /\ \/ o = -1
            \/ \E h \in DOMAIN msgs : /\ msgs[h].t = "update" /\ h < i
                                      /\ Mark(msgs[h].data, c) # -1)
            => Withdrawn(c, i, msgs, l)

PlayerOK(c, u, msgs, k, in, l) ==
    /\ JoinsOnce(u, msgs, in, k.conn)
    /\ ShowsSelf(c, msgs)
    /\ OneReady(c, u, Mark(k.view, c), k.outstanding, k.readies, msgs, l)
    /\ MarksFollow(c, Mark(k.view, c), k.outstanding, k.readies, msgs, l)

SeatsTaken == \A s \in Side : srv.match.ready[s] # -1 => s < Len(srv.members)

ReadyInv ==
    /\ SeatsTaken
    /\ \A c \in Clients :
        PlayerOK(c, up[c], down[c], cl[c], c \in Elems(srv.members), Mark(LobbyData, c))

LEMMA ConcatIs ==
  ASSUME NEW S, NEW s \in Seq(S), NEW q \in Seq(S)
  PROVE  LET r == s \o q IN
         /\ r \in Seq(S) /\ DOMAIN s = 1..Len(s) /\ DOMAIN q = 1..Len(q) /\ Len(s) \in Nat /\ Len(q) \in Nat
         /\ DOMAIN r = 1..(Len(s) + Len(q))
         /\ \A i \in DOMAIN s : i \in DOMAIN r /\ r[i] = s[i]
         /\ \A i \in DOMAIN q : i + Len(s) \in DOMAIN r /\ r[i + Len(s)] = q[i]
         /\ \A i \in DOMAIN r : /\ i \in Nat
                                /\ i \notin DOMAIN s => /\ i - Len(s) \in DOMAIN q /\ r[i] = q[i - Len(s)]
                                                        /\ i > Len(s)
OBVIOUS

LEMMA TailIs ==
  ASSUME NEW S, NEW s \in Seq(S), s # <<>>
  PROVE  LET r == Tail(s) IN
         /\ r \in Seq(S) /\ DOMAIN s = 1..Len(s) /\ 1 \in DOMAIN s /\ Head(s) = s[1] /\ Head(s) \in S
         /\ \A i \in DOMAIN r : i \in Nat /\ i >= 1 /\ i + 1 \in DOMAIN s /\ r[i] = s[i + 1]
         /\ \A i \in DOMAIN s : i \in Nat /\ (i # 1 => i - 1 \in DOMAIN r /\ r[i - 1] = s[i])
<1> DEFINE r == Tail(s)
<1>1. /\ Len(s) \in Nat /\ DOMAIN s = 1..Len(s) /\ Len(s) >= 1 /\ Head(s) = s[1] /\ Head(s) \in S
      /\ r \in Seq(S) /\ DOMAIN r = 1..(Len(s) - 1)
      /\ \A i \in 1..(Len(s) - 1) : r[i] = s[i + 1]
  OBVIOUS
<1> HIDE DEF r
<1>2. \A i \in DOMAIN s : i # 1 => i - 1 \in DOMAIN r /\ r[i - 1] = s[i]
  BY <1>1
<1> QED BY <1>1, <1>2 DEF r

(* Messages that are neither data nor answers change nothing for a player.  *)
LEMMA OthersSent ==
  ASSUME NEW c, NEW u, NEW k, NEW in, NEW l, NEW msgs \in Seq(DownMessage),
         NEW q \in Seq(DownMessage), \A i \in DOMAIN q : q[i].t # "update" /\ ~Answers(q[i]),
         PlayerOK(c, u, msgs, k, in, l)
  PROVE  PlayerOK(c, u, msgs \o q, k, in, l)
<1> DEFINE r == msgs \o q
           v == Mark(k.view, c)
           o == k.outstanding
           n == k.readies
<1>1. /\ \A i \in DOMAIN msgs : i \in DOMAIN r /\ r[i] = msgs[i]
      /\ \A i \in DOMAIN r : i \notin DOMAIN msgs => r[i].t # "update" /\ ~Answers(r[i])
  BY ConcatIs
<1> HIDE DEF r, Answers
<1>2. \A i \in DOMAIN r : r[i].t = "update" => i \in DOMAIN msgs /\ r[i] = msgs[i]
  BY <1>1
<1>3. JoinsOnce(u, r, in, k.conn)
  <2>1. JoinsOnce(u, msgs, in, k.conn)
    BY DEF PlayerOK
  <2>2. \A i \in DOMAIN r : Answers(r[i]) => i \in DOMAIN msgs /\ r[i] = msgs[i]
    BY <1>1
  <2> QED BY <2>1, <2>2 DEF JoinsOnce
<1>4. ShowsSelf(c, r)
  BY <1>2 DEF ShowsSelf, PlayerOK
<1> HIDE DEF v, o, n
<1>5. Unmarked(c, v, msgs, l) => Unmarked(c, v, r, l)
  <2> HIDE DEF Mark
  <2> QED BY <1>2 DEF Unmarked
<1>6. OneReady(c, u, v, o, n, r, l)
  <2>1. OneReady(c, u, v, o, n, msgs, l)
    BY DEF PlayerOK, v, o, n
  <2> HIDE DEF Unmarked
  <2> QED BY <2>1, <1>5 DEF OneReady
<1>7. \A i : Withdrawn(c, i, msgs, l) => Withdrawn(c, i, r, l)
  <2> HIDE DEF Mark
  <2> QED BY <1>2 DEF Withdrawn
<1>8. MarksFollow(c, v, o, n, r, l)
  <2>1. MarksFollow(c, v, o, n, msgs, l)
    BY DEF PlayerOK, v, o, n
  <2> HIDE DEF Mark, Withdrawn
  <2> QED BY <2>1, <1>2, <1>7 DEF MarksFollow
<1> QED BY <1>3, <1>4, <1>6, <1>8 DEF PlayerOK, v, o, n, r

(* A data update of what the server holds, followed by signals.             *)
LEMMA NewsSent ==
  ASSUME NEW c, NEW u, NEW k, NEW l, NEW msgs \in Seq(DownMessage),
         NEW q \in Seq(DownMessage), 1 \in DOMAIN q, q[1].t = "update", Mark(q[1].data, c) = l,
         c \in Elems(q[1].data.members), OwnNamesIn(q[1].data.members),
         \A i \in DOMAIN q : i > 1 => q[i].t # "update" /\ ~Answers(q[i]),
         PlayerOK(c, u, msgs, k, TRUE, l)
  PROVE  PlayerOK(c, u, msgs \o q, k, TRUE, l)
<1> DEFINE r == msgs \o q
           v == Mark(k.view, c)
           o == k.outstanding
           n == k.readies
           z == 1 + Len(msgs)
<1>1. /\ \A i \in DOMAIN msgs : i \in DOMAIN r /\ r[i] = msgs[i] /\ i < z
      /\ z \in DOMAIN r /\ r[z] = q[1]
      /\ \A i \in DOMAIN r : i \notin DOMAIN msgs /\ i # z => r[i].t # "update" /\ ~Answers(r[i])
      /\ DOMAIN msgs \subseteq Int /\ DOMAIN r \subseteq Int /\ z \in Int
  <2>1. /\ DOMAIN msgs = 1..Len(msgs) /\ DOMAIN q = 1..Len(q) /\ Len(msgs) \in Nat /\ Len(q) \in Nat
        /\ DOMAIN r = 1..(Len(msgs) + Len(q))
        /\ \A i \in DOMAIN msgs : i \in DOMAIN r /\ r[i] = msgs[i]
        /\ \A i \in DOMAIN q : i + Len(msgs) \in DOMAIN r /\ r[i + Len(msgs)] = q[i]
        /\ \A i \in DOMAIN r : i \notin DOMAIN msgs => /\ i - Len(msgs) \in DOMAIN q /\ r[i] = q[i - Len(msgs)]
                                                       /\ i > Len(msgs)
    BY ConcatIs
  <2> HIDE DEF r, Answers
  <2>2. \A i \in DOMAIN r : i \notin DOMAIN msgs /\ i # z => i - Len(msgs) > 1
    BY <2>1
  <2> QED BY <2>1, <2>2
<1>2. ~Answers(q[1])
  BY DEF Answers
<1> HIDE DEF r, z, Answers
<1>3. \A i \in DOMAIN r : r[i].t = "update" => (i \in DOMAIN msgs /\ r[i] = msgs[i]) \/ i = z
  BY <1>1
<1>4. JoinsOnce(u, r, TRUE, k.conn)
  <2>1. JoinsOnce(u, msgs, TRUE, k.conn)
    BY DEF PlayerOK
  <2>2. \A i \in DOMAIN r : Answers(r[i]) => i \in DOMAIN msgs /\ r[i] = msgs[i]
    BY <1>1, <1>2
  <2> QED BY <2>1, <2>2 DEF JoinsOnce
<1>5. ShowsSelf(c, r)
  <2> HIDE DEF OwnNamesIn, Elems
  <2> QED BY <1>1, <1>3 DEF ShowsSelf, PlayerOK
<1> HIDE DEF v, o, n, Mark
<1>6. Unmarked(c, v, msgs, l) => Unmarked(c, v, r, l)
  BY <1>1, <1>3 DEF Unmarked
<1>7. OneReady(c, u, v, o, n, r, l)
  <2>1. OneReady(c, u, v, o, n, msgs, l)
    BY DEF PlayerOK, v, o, n
  <2> HIDE DEF Unmarked
  <2> QED BY <2>1, <1>6 DEF OneReady
<1>8. \A i : Withdrawn(c, i, msgs, l) => Withdrawn(c, i, r, l)
  BY <1>1, <1>3 DEF Withdrawn
<1>9. l = -1 => Withdrawn(c, z, r, l)
  BY <1>1, <1>3 DEF Withdrawn
<1>10. MarksFollow(c, v, o, n, r, l)
  <2>1. MarksFollow(c, v, o, n, msgs, l)
    BY DEF PlayerOK, v, o, n
  <2> HIDE DEF Withdrawn
  <2>2. ASSUME NEW i \in DOMAIN r, r[i].t = "update", Mark(r[i].data, c) = -1,
               o = -1 \/ \E h \in DOMAIN r : r[h].t = "update" /\ h < i /\ Mark(r[h].data, c) # -1
        PROVE  Withdrawn(c, i, r, l)
    <3>1. CASE i = z
      BY <1>1, <1>9, <2>2, <3>1
    <3>2. CASE i # z
      <4>1. i \in DOMAIN msgs /\ r[i] = msgs[i] /\ i < z
        BY <1>1, <1>3, <2>2, <3>2
      <4>2. \A h \in DOMAIN r : r[h].t = "update" /\ h < i => h \in DOMAIN msgs /\ r[h] = msgs[h]
        BY <1>1, <1>3, <4>1
      <4>3. Withdrawn(c, i, msgs, l)
        BY <2>1, <2>2, <4>1, <4>2 DEF MarksFollow
      <4> QED BY <4>3, <1>8
    <3> QED BY <3>1, <3>2
  <2>3. \A i \in DOMAIN r : r[i].t = "update" => Mark(r[i].data, c) \in {-1, n}
    BY <1>1, <1>3, <2>1 DEF MarksFollow
  <2>4. o = -1 /\ v = -1 => Withdrawn(c, 0, r, l)
    BY <1>8, <2>1 DEF MarksFollow
  <2> QED BY <2>1, <2>2, <2>3, <2>4 DEF MarksFollow
<1> QED BY <1>4, <1>5, <1>7, <1>10 DEF PlayerOK, v, o, n, r

(* The server takes up c's next message.                                    *)
LEMMA MessageTaken ==
  ASSUME NEW c, NEW k, NEW in, NEW l, NEW msgs, NEW u \in Seq(UpMessage), u # <<>>,
         PlayerOK(c, u, msgs, k, in, l)
  PROVE  /\ PlayerOK(c, Tail(u), msgs, k, in, l)
         /\ Asks(Head(u)) => /\ \A i \in DOMAIN Tail(u) : ~Asks(Tail(u)[i])
                             /\ ~in /\ k.conn = "open" /\ \A j \in DOMAIN msgs : ~Answers(msgs[j])
         /\ Head(u).t = "ready" =>
              /\ \A i \in DOMAIN Tail(u) : Tail(u)[i].t # "ready"
              /\ Head(u).n = k.readies /\ k.outstanding = k.readies
              /\ Unmarked(c, Mark(k.view, c), msgs, l)
<1> DEFINE w == Tail(u)
           v == Mark(k.view, c)
           o == k.outstanding
           n == k.readies
<1>1. /\ 1 \in DOMAIN u /\ Head(u) = u[1]
      /\ \A i \in DOMAIN w : i + 1 \in DOMAIN u /\ w[i] = u[i + 1] /\ i + 1 # 1
      /\ DOMAIN w \subseteq Int
  <2>1. /\ 1 \in DOMAIN u /\ Head(u) = u[1]
        /\ \A i \in DOMAIN w : i \in Nat /\ i >= 1 /\ i + 1 \in DOMAIN u /\ w[i] = u[i + 1]
    BY TailIs
  <2> HIDE DEF w
  <2> QED BY <2>1
<1> HIDE DEF w, Asks, Answers
<1>2. JoinsOnce(u, msgs, in, k.conn)
  BY DEF PlayerOK
<1>3. \A i, j \in DOMAIN w : i + 1 = j + 1 => i = j
  BY <1>1
<1>4. JoinsOnce(w, msgs, in, k.conn)
  <2>1. \A i, j \in DOMAIN w : Asks(w[i]) /\ Asks(w[j]) => i = j
    BY <1>1, <1>2, <1>3 DEF JoinsOnce
  <2> QED BY <1>1, <1>2, <2>1 DEF JoinsOnce
<1>5. Asks(Head(u)) => /\ \A i \in DOMAIN w : ~Asks(w[i])
                       /\ ~in /\ k.conn = "open" /\ \A j \in DOMAIN msgs : ~Answers(msgs[j])
  BY <1>1, <1>2 DEF JoinsOnce
<1>6. OneReady(c, u, v, o, n, msgs, l)
  BY DEF PlayerOK
<1> HIDE DEF v, o, n, Unmarked
<1>7. OneReady(c, w, v, o, n, msgs, l)
  <2>1. \A i, j \in DOMAIN w : w[i].t = "ready" /\ w[j].t = "ready" => i = j
    BY <1>1, <1>3, <1>6 DEF OneReady
  <2> QED BY <1>1, <1>6, <2>1 DEF OneReady
<1>8. Head(u).t = "ready" =>
        /\ \A i \in DOMAIN w : w[i].t # "ready"
        /\ Head(u).n = n /\ o = n /\ Unmarked(c, v, msgs, l)
  BY <1>1, <1>6 DEF OneReady
<1> QED BY <1>4, <1>5, <1>7, <1>8 DEF PlayerOK, v, o, n, w

(* The server withdraws c's mark.                                           *)
LEMMA MarkLost ==
  ASSUME NEW c, NEW u, NEW msgs, NEW k, NEW in, NEW l, PlayerOK(c, u, msgs, k, in, l)
  PROVE  PlayerOK(c, u, msgs, k, in, -1)
<1> HIDE DEF Mark, JoinsOnce, ShowsSelf
<1> QED BY DEF PlayerOK, OneReady, MarksFollow, Withdrawn, Unmarked

(* c sends something that is neither a question nor a Ready.                *)
LEMMA OthersAsked ==
  ASSUME NEW c, NEW k, NEW in, NEW l, NEW msgs, NEW u \in Seq(UpMessage), NEW m \in UpMessage,
         ~Asks(m), m.t # "ready", PlayerOK(c, u, msgs, k, in, l)
  PROVE  PlayerOK(c, u \o <<m>>, msgs, k, in, l)
<1> DEFINE w == u \o <<m>>
           v == Mark(k.view, c)
           o == k.outstanding
           n == k.readies
<1>1. /\ \A i \in DOMAIN u : i \in DOMAIN w /\ w[i] = u[i]
      /\ \A i \in DOMAIN w : i \notin DOMAIN u => w[i] = m
  <2>1. <<m>> \in Seq(UpMessage) /\ DOMAIN <<m>> = {1} /\ <<m>>[1] = m
    OBVIOUS
  <2> DEFINE q == <<m>>
  <2> HIDE DEF q
  <2>2. /\ \A i \in DOMAIN u : i \in DOMAIN w /\ w[i] = u[i]
        /\ \A i \in DOMAIN w : i \notin DOMAIN u => i - Len(u) \in DOMAIN <<m>> /\ w[i] = <<m>>[i - Len(u)]
    BY <2>1, ConcatIs
  <2> HIDE DEF w
  <2> QED BY <2>1, <2>2
<1> HIDE DEF w, Asks, Answers
<1>2. JoinsOnce(w, msgs, in, k.conn)
  <2>1. JoinsOnce(u, msgs, in, k.conn)
    BY DEF PlayerOK
  <2>2. \A i \in DOMAIN w : Asks(w[i]) => i \in DOMAIN u /\ w[i] = u[i]
    BY <1>1
  <2> QED BY <2>1, <2>2 DEF JoinsOnce
<1> HIDE DEF v, o, n, Unmarked
<1>3. OneReady(c, w, v, o, n, msgs, l)
  <2>1. OneReady(c, u, v, o, n, msgs, l)
    BY DEF PlayerOK, v, o, n
  <2>2. \A i \in DOMAIN w : w[i].t = "ready" => i \in DOMAIN u /\ w[i] = u[i]
    BY <1>1
  <2> QED BY <2>1, <2>2 DEF OneReady
<1> QED BY <1>2, <1>3 DEF PlayerOK, v, o, n, w

(* Only these fields of a client matter.                                    *)
LEMMA SamePlayer ==
  ASSUME NEW c, NEW u, NEW msgs, NEW k, NEW in, NEW l, PlayerOK(c, u, msgs, k, in, l), NEW x,
         x.conn = k.conn, x.view = k.view, x.outstanding = k.outstanding, x.readies = k.readies
  PROVE  PlayerOK(c, u, msgs, x, in, l)
BY DEF PlayerOK

(* A data update answers a Ready exactly when it marks c with it.           *)
LEMMA AnswersWhenMarked ==
  ASSUME NEW c \in Clients, NEW k, NEW data \in Lobby, c \in Elems(data.members),
         OwnNamesIn(data.members), k.outstanding # -1
  PROVE  AnswersReady(k, c, data) <=> Mark(data, c) = k.outstanding
<1>0. data.members \in Seq(Clients) /\ Len(data.members) \in Nat
      /\ DOMAIN data.members = 1..Len(data.members)
  BY DEF Lobby
<1>1. PICK p \in DOMAIN data.members : data.members[p] = c
  BY DEF Elems
<1>2. ASSUME NEW s \in Side, s < Len(data.members), NameOf[data.members[s + 1]] = NameOf[c]
      PROVE  s + 1 = p
  <2>1. s + 1 \in DOMAIN data.members
    BY <1>0, <1>2 DEF Side
  <2> QED BY <1>1, <1>2, <2>1 DEF OwnNamesIn
<1>3. \A s \in Side : SideOf(data.members, c) = s => s < Len(data.members) /\ data.members[s + 1] = c
  BY <1>0, SideIs
<1>4. SideOf(data.members, c) = IF p <= 2 THEN p - 1 ELSE -1
  <2>1. SideOf(data.members, c) \in Side \cup {-1}
    BY <1>0, SideIs
  <2>2. SideOf(data.members, c) = -1 => \A s \in Side : s < Len(data.members) => data.members[s + 1] # c
    BY <1>0, SideIs
  <2>3. p <= 2 => p - 1 \in Side /\ p - 1 < Len(data.members) /\ (p - 1) + 1 = p
    BY <1>0, <1>1 DEF Side
  <2>4. \A s \in Side : SideOf(data.members, c) = s => s + 1 = p
    BY <1>2, <1>3
  <2> DEFINE d == SideOf(data.members, c)
  <2> HIDE DEF d
  <2>5. d \in Side \cup {-1} /\ (d \in Side => d + 1 = p)
    BY <2>1, <2>4 DEF d
  <2>6. p <= 2 => d # -1
    <3> SUFFICES ASSUME p <= 2, d = -1 PROVE FALSE
      OBVIOUS
    <3>1. p - 1 \in Side /\ p - 1 < Len(data.members) /\ data.members[(p - 1) + 1] = c
      BY <1>1, <2>3
    <3> QED BY <2>2, <3>1 DEF d
  <2>7. p \in Int
    BY <1>0, <1>1
  <2>8. d = IF p <= 2 THEN p - 1 ELSE -1
    BY <2>5, <2>6, <2>7 DEF Side
  <2> QED BY <2>8 DEF d
<1>5. p <= 2 => p - 1 \in Side /\ p - 1 < Len(data.members) /\ (p - 1) + 1 = p
  BY <1>0, <1>1 DEF Side
<1>6. \A s \in Side : s + 1 = p => p <= 2 /\ s = p - 1
  BY <1>0, <1>1 DEF Side
<1>7. p \in Nat /\ p - 1 # -1
  BY <1>0, <1>1
<1> HIDE DEF SideOf
<1>8. CASE p <= 2
  <2>1. Mark(data, c) = data.match.ready[p - 1]
    BY <1>4, <1>7, <1>8 DEF Mark
  <2>2. AnswersReady(k, c, data) <=> data.match.ready[p - 1] = k.outstanding
    BY <1>1, <1>2, <1>5, <1>6, <1>8 DEF AnswersReady
  <2> QED BY <2>1, <2>2
<1>9. CASE ~(p <= 2)
  <2>1. Mark(data, c) = -1
    BY <1>4, <1>9 DEF Mark
  <2>2. ~AnswersReady(k, c, data)
    BY <1>2, <1>6, <1>9 DEF AnswersReady
  <2> QED BY <2>1, <2>2
<1> QED BY <1>8, <1>9

(* c polls a message that does not turn it away.                            *)
LEMMA MessagePolled ==
  ASSUME NEW c \in Clients, NEW u, NEW in, NEW l, NEW k \in Client,
         NEW msgs \in Seq(DownMessage), msgs # <<>>, PlayerOK(c, u, msgs, k, in, l),
         NEW x, x.conn = k.conn, x.readies = k.readies,
         x.view = IF Head(msgs).t = "update" THEN Head(msgs).data ELSE k.view,
         x.outstanding = IF Head(msgs).t = "update" /\ AnswersReady(k, c, Head(msgs).data)
                         THEN -1 ELSE k.outstanding
  PROVE  /\ PlayerOK(c, u, Tail(msgs), x, in, l)
         /\ Answers(Head(msgs)) => /\ \A i \in DOMAIN Tail(msgs) : ~Answers(Tail(msgs)[i])
                                   /\ ~in /\ k.conn = "open" /\ \A i \in DOMAIN u : ~Asks(u[i])
<1> DEFINE r == Tail(msgs)
           m == Head(msgs)
           v == Mark(k.view, c)
           o == k.outstanding
           n == k.readies
           y == Mark(x.view, c)
           p == x.outstanding
<1>1. /\ 1 \in DOMAIN msgs /\ m = msgs[1] /\ m \in DownMessage
      /\ \A i \in DOMAIN r : i + 1 \in DOMAIN msgs /\ r[i] = msgs[i + 1] /\ i + 1 # 1 /\ 1 < i + 1 /\ i > 0
      /\ \A i \in DOMAIN msgs : i # 1 => i - 1 \in DOMAIN r /\ r[i - 1] = msgs[i]
      /\ DOMAIN r \subseteq Int /\ DOMAIN msgs \subseteq Int
  <2>1. /\ 1 \in DOMAIN msgs /\ m = msgs[1] /\ m \in DownMessage
        /\ \A i \in DOMAIN r : i \in Nat /\ i >= 1 /\ i + 1 \in DOMAIN msgs /\ r[i] = msgs[i + 1]
        /\ \A i \in DOMAIN msgs : i \in Nat /\ (i # 1 => i - 1 \in DOMAIN r /\ r[i - 1] = msgs[i])
    BY TailIs
  <2> HIDE DEF r, m
  <2> QED BY <2>1
<1>2. n \in Nat
  BY LobbyAssumption DEF Client
<1>3. m.t = "update" => m.data \in Lobby
  BY <1>1, TypedMessage
<1> HIDE DEF r, m, Asks, Answers
<1>4. JoinsOnce(u, msgs, in, k.conn) /\ ShowsSelf(c, msgs) /\ OneReady(c, u, v, o, n, msgs, l)
      /\ MarksFollow(c, v, o, n, msgs, l)
  BY DEF PlayerOK
<1>5. \A i, j \in DOMAIN r : i + 1 = j + 1 => i = j
  BY <1>1
<1>6. JoinsOnce(u, r, in, k.conn)
  <2>1. \A i, j \in DOMAIN r : Answers(r[i]) /\ Answers(r[j]) => i = j
    BY <1>1, <1>4, <1>5 DEF JoinsOnce
  <2> QED BY <1>1, <1>4, <2>1 DEF JoinsOnce
<1>7. Answers(m) => /\ \A i \in DOMAIN r : ~Answers(r[i])
                    /\ ~in /\ k.conn = "open" /\ \A i \in DOMAIN u : ~Asks(u[i])
  BY <1>1, <1>4 DEF JoinsOnce
<1>8. ShowsSelf(c, r)
  <2> HIDE DEF Elems, OwnNamesIn
  <2> QED BY SMTT(30), <1>1, <1>4 DEF ShowsSelf
<1>9. m.t = "update" => /\ c \in Elems(m.data.members) /\ OwnNamesIn(m.data.members)
                        /\ Mark(m.data, c) \in {-1, n}
  <2> HIDE DEF Elems, OwnNamesIn, Mark
  <2> QED BY <1>1, <1>4 DEF ShowsSelf, MarksFollow
<1>10. /\ m.t # "update" => y = v /\ p = o
       /\ m.t = "update" => /\ y = Mark(m.data, c)
                            /\ p = IF o = -1 \/ y = o THEN -1 ELSE o
  <2>1. m.t # "update" => y = v /\ p = o
    BY DEF m
  <2>2. m.t = "update" => y = Mark(m.data, c)
    BY DEF m
  <2>3. ASSUME m.t = "update" PROVE p = IF o = -1 \/ y = o THEN -1 ELSE o
    <3>1. CASE o = -1
      BY <2>3, <3>1 DEF m
    <3>2. CASE o # -1
      <4>1. AnswersReady(k, c, m.data) <=> Mark(m.data, c) = o
        BY <1>3, <1>9, <2>3, <3>2, AnswersWhenMarked
      <4>2. p = IF AnswersReady(k, c, m.data) THEN -1 ELSE o
        BY <2>3 DEF m
      <4> HIDE DEF AnswersReady, y, p, Mark
      <4> QED BY <4>1, <4>2, <2>2, <2>3, <3>2
    <3> QED BY <3>1, <3>2
  <2> HIDE DEF y, p, v, o
  <2> QED BY <2>1, <2>2, <2>3
<1>11. x.readies = n /\ x.conn = k.conn
  OBVIOUS
<1> HIDE DEF v, o, n, y, p, Mark
<1>12. Unmarked(c, v, msgs, l) => Unmarked(c, y, r, l)
  BY <1>1, <1>10 DEF Unmarked
<1>13. OneReady(c, u, y, p, n, r, l)
  <2>1. ASSUME NEW i \in DOMAIN u, u[i].t = "ready" PROVE u[i].n = n /\ p = n /\ Unmarked(c, y, r, l)
    <3>1. u[i].n = n /\ o = n /\ Unmarked(c, v, msgs, l)
      BY <1>4, <2>1 DEF OneReady
    <3>2. y = -1
      BY <3>1, <1>12 DEF Unmarked
    <3>3. p = o
      BY <1>2, <1>10, <3>1, <3>2
    <3> QED BY <1>12, <3>1, <3>3
  <2> HIDE DEF Unmarked
  <2> QED BY <1>4, <2>1 DEF OneReady
<1>14. \A i \in DOMAIN r : Withdrawn(c, i + 1, msgs, l) => Withdrawn(c, i, r, l)
  <2> SUFFICES ASSUME NEW i \in DOMAIN r, Withdrawn(c, i + 1, msgs, l),
                      NEW j \in DOMAIN r, r[j].t = "update", j > i
               PROVE  l = -1 /\ Mark(r[j].data, c) = -1
    BY DEF Withdrawn
  <2>1. j + 1 > i + 1 /\ j + 1 \in DOMAIN msgs /\ r[j] = msgs[j + 1]
    BY <1>1
  <2> QED BY <2>1 DEF Withdrawn
<1>15. Withdrawn(c, 0, msgs, l) \/ Withdrawn(c, 1, msgs, l) => Withdrawn(c, 0, r, l)
  <2> SUFFICES ASSUME Withdrawn(c, 0, msgs, l) \/ Withdrawn(c, 1, msgs, l)
               PROVE  Withdrawn(c, 0, r, l)
    OBVIOUS
  <2>1. ASSUME NEW j \in DOMAIN r, r[j].t = "update" PROVE Mark(r[j].data, c) = -1
    <3>1. j + 1 > 1 /\ j + 1 > 0 /\ j + 1 \in DOMAIN msgs /\ r[j] = msgs[j + 1]
      BY <1>1
    <3> QED BY <2>1, <3>1 DEF Withdrawn
  <2> QED BY <2>1 DEF Withdrawn
<1>16. MarksFollow(c, y, p, n, r, l)
  <2>1. p \in {-1, n} /\ y \in {-1, n} /\ l \in {-1, n}
    BY <1>4, <1>9, <1>10 DEF MarksFollow
  <2>2. \A i \in DOMAIN r : r[i].t = "update" => Mark(r[i].data, c) \in {-1, n}
    <3>1. \A i \in DOMAIN msgs : msgs[i].t = "update" => Mark(msgs[i].data, c) \in {-1, n}
      BY <1>4 DEF MarksFollow
    <3> QED BY SMTT(30), <1>1, <3>1
  <2>3. ASSUME p = -1, y = -1 PROVE Withdrawn(c, 0, r, l)
    <3>1. CASE m.t = "update"
      <4>1. o = -1
        BY <1>2, <1>4, <1>10, <2>3, <3>1 DEF MarksFollow
      <4>2. Withdrawn(c, 1, msgs, l)
        <5> HIDE DEF Withdrawn
        <5> QED BY <1>1, <1>4, <1>10, <2>3, <3>1, <4>1 DEF MarksFollow
      <4> QED BY <1>15, <4>2
    <3>2. CASE m.t # "update"
      <4>1. Withdrawn(c, 0, msgs, l)
        <5> HIDE DEF Withdrawn
        <5> QED BY <1>4, <1>10, <2>3, <3>2 DEF MarksFollow
      <4> QED BY <1>15, <4>1
    <3> QED BY <3>1, <3>2
  <2>4. ASSUME NEW i \in DOMAIN r, r[i].t = "update", Mark(r[i].data, c) = -1,
               p = -1 \/ \E h \in DOMAIN r : r[h].t = "update" /\ h < i /\ Mark(r[h].data, c) # -1
        PROVE  Withdrawn(c, i, r, l)
    <3>1. i + 1 \in DOMAIN msgs /\ r[i] = msgs[i + 1]
      BY <1>1
    <3>2. o = -1 \/ \E h \in DOMAIN msgs : msgs[h].t = "update" /\ h < i + 1 /\ Mark(msgs[h].data, c) # -1
      <4>1. CASE p = -1
        <5>1. CASE o = -1
          BY <5>1
        <5>2. CASE o # -1
          <6>1. m.t = "update" /\ Mark(m.data, c) # -1
            BY <1>10, <4>1, <5>2
          <6>2. 1 < i + 1
            BY <1>1
          <6> QED BY <1>1, <6>1, <6>2
        <5> QED BY <5>1, <5>2
      <4>2. ASSUME NEW h \in DOMAIN r, r[h].t = "update", h < i, Mark(r[h].data, c) # -1
            PROVE  \E g \in DOMAIN msgs : msgs[g].t = "update" /\ g < i + 1 /\ Mark(msgs[g].data, c) # -1
        <5>1. h + 1 \in DOMAIN msgs /\ r[h] = msgs[h + 1] /\ h + 1 < i + 1
          BY <1>1, <4>2
        <5> QED BY <4>2, <5>1
      <4> QED BY <2>4, <4>1, <4>2
    <3>3. Withdrawn(c, i + 1, msgs, l)
      <4> HIDE DEF Withdrawn
      <4> QED BY <1>4, <2>4, <3>1, <3>2 DEF MarksFollow
    <3> QED BY <1>14, <3>3
  <2> HIDE DEF Withdrawn
  <2> QED BY <2>1, <2>2, <2>3, <2>4 DEF MarksFollow
<1> QED BY <1>6, <1>7, <1>8, <1>11, <1>13, <1>16 DEF PlayerOK, v, o, n, y, p, r, m

(* The server takes c's Ready.                                              *)
LEMMA Marked ==
  ASSUME NEW c, NEW u, NEW msgs, NEW k, NEW in, NEW l, PlayerOK(c, u, msgs, k, in, l),
         k.readies \in Nat, k.outstanding = k.readies, \A i \in DOMAIN u : u[i].t # "ready",
         Unmarked(c, Mark(k.view, c), msgs, l)
  PROVE  PlayerOK(c, u, msgs, k, in, k.readies)
<1> HIDE DEF Mark, JoinsOnce, ShowsSelf
<1> QED BY DEF PlayerOK, OneReady, MarksFollow, Withdrawn, Unmarked

(* c becomes a member.                                                      *)
LEMMA Seated ==
  ASSUME NEW c, NEW u, NEW msgs, NEW k, NEW l, PlayerOK(c, u, msgs, k, FALSE, l),
         \A i \in DOMAIN u : ~Asks(u[i]), \A i \in DOMAIN msgs : ~Answers(msgs[i]),
         k.conn = "open"
  PROVE  PlayerOK(c, u, msgs, k, TRUE, l)
BY DEF PlayerOK, JoinsOnce

(* c is answered, or asks, when nothing else is under way.                  *)
LEMMA OneMore ==
  ASSUME NEW S, NEW s \in Seq(S), NEW m \in S
  PROVE  LET r == s \o <<m>> IN
         /\ \A i \in DOMAIN s : i \in DOMAIN r /\ r[i] = s[i]
         /\ \A i \in DOMAIN r : i \notin DOMAIN s => i = Len(s) + 1 /\ r[i] = m
<1>1. <<m>> \in Seq(S) /\ DOMAIN <<m>> = {1} /\ <<m>>[1] = m
  OBVIOUS
<1> DEFINE q == <<m>>
           r == s \o q
<1>2. q \in Seq(S) /\ DOMAIN q = {1} /\ q[1] = m
  BY <1>1
<1> HIDE DEF q
<1>3. /\ \A i \in DOMAIN s : i \in DOMAIN r /\ r[i] = s[i]
      /\ \A i \in DOMAIN r : i \in Nat /\ (i \notin DOMAIN s => i - Len(s) \in DOMAIN q /\ r[i] = q[i - Len(s)])
      /\ Len(s) \in Nat
  BY <1>2, ConcatIs
<1> HIDE DEF r
<1>4. \A i \in DOMAIN r : i \notin DOMAIN s => i = Len(s) + 1 /\ r[i] = m
  BY <1>2, <1>3
<1> QED BY <1>3, <1>4 DEF r, q

LEMMA AnswerSent ==
  ASSUME NEW c, NEW u, NEW k, NEW l, NEW msgs \in Seq(DownMessage),
         PlayerOK(c, u, msgs, k, FALSE, l),
         \A i \in DOMAIN u : ~Asks(u[i]), \A i \in DOMAIN msgs : ~Answers(msgs[i]),
         k.conn = "open", NEW m \in DownMessage, Answers(m)
  PROVE  PlayerOK(c, u, msgs \o <<m>>, k, FALSE, l)
<1> DEFINE r == msgs \o <<m>>
           v == Mark(k.view, c)
           o == k.outstanding
           n == k.readies
<1>1. /\ \A i \in DOMAIN msgs : i \in DOMAIN r /\ r[i] = msgs[i]
      /\ \A i \in DOMAIN r : i \notin DOMAIN msgs => i = Len(msgs) + 1 /\ r[i] = m
  BY OneMore
<1>2. m.t # "update"
  BY DEF Answers
<1> HIDE DEF r, Answers, Asks
<1>3. \A i \in DOMAIN r : r[i].t = "update" => i \in DOMAIN msgs /\ r[i] = msgs[i]
  BY <1>1, <1>2
<1>4. JoinsOnce(u, r, FALSE, k.conn)
  <2>1. \A i, j \in DOMAIN r : Answers(r[i]) /\ Answers(r[j]) => i = j
    BY <1>1
  <2> QED BY <2>1 DEF PlayerOK, JoinsOnce
<1>5. ShowsSelf(c, r)
  BY <1>3 DEF ShowsSelf, PlayerOK
<1> HIDE DEF v, o, n, Mark
<1>6. Unmarked(c, v, msgs, l) => Unmarked(c, v, r, l)
  BY <1>3 DEF Unmarked
<1>7. OneReady(c, u, v, o, n, r, l)
  <2>1. OneReady(c, u, v, o, n, msgs, l)
    BY DEF PlayerOK, v, o, n
  <2> HIDE DEF Unmarked
  <2> QED BY <2>1, <1>6 DEF OneReady
<1>8. \A i : Withdrawn(c, i, msgs, l) => Withdrawn(c, i, r, l)
  BY <1>3 DEF Withdrawn
<1>9. MarksFollow(c, v, o, n, r, l)
  <2>1. MarksFollow(c, v, o, n, msgs, l)
    BY DEF PlayerOK, v, o, n
  <2> HIDE DEF Withdrawn
  <2> QED BY <2>1, <1>3, <1>8 DEF MarksFollow
<1> QED BY <1>4, <1>5, <1>7, <1>9 DEF PlayerOK, v, o, n, r

LEMMA QuestionSent ==
  ASSUME NEW c, NEW k, NEW l, NEW msgs, NEW u \in Seq(UpMessage),
         PlayerOK(c, u, msgs, k, FALSE, l),
         \A i \in DOMAIN u : ~Asks(u[i]), \A i \in DOMAIN msgs : ~Answers(msgs[i]),
         NEW m \in UpMessage, Asks(m),
         NEW x, x.conn = "open", x.view = k.view, x.outstanding = k.outstanding, x.readies = k.readies
  PROVE  PlayerOK(c, u \o <<m>>, msgs, x, FALSE, l)
<1> DEFINE w == u \o <<m>>
           v == Mark(k.view, c)
           o == k.outstanding
           n == k.readies
<1>1. /\ \A i \in DOMAIN u : i \in DOMAIN w /\ w[i] = u[i]
      /\ \A i \in DOMAIN w : i \notin DOMAIN u => i = Len(u) + 1 /\ w[i] = m
  BY OneMore
<1>2. m.t # "ready"
  BY DEF Asks
<1> HIDE DEF w, Asks, Answers
<1>3. JoinsOnce(w, msgs, FALSE, "open")
  <2>1. \A i, j \in DOMAIN w : Asks(w[i]) /\ Asks(w[j]) => i = j
    BY <1>1
  <2>2. \A i, j \in DOMAIN msgs : Answers(msgs[i]) /\ Answers(msgs[j]) => i = j
    OBVIOUS
  <2> QED BY <2>1, <2>2 DEF JoinsOnce
<1>4. OneReady(c, w, v, o, n, msgs, l)
  <2>1. OneReady(c, u, v, o, n, msgs, l)
    BY DEF PlayerOK
  <2>2. \A i \in DOMAIN w : w[i].t = "ready" => i \in DOMAIN u /\ w[i] = u[i]
    BY <1>1, <1>2
  <2> HIDE DEF Unmarked, v, o, n
  <2> QED BY <2>1, <2>2 DEF OneReady
<1> QED BY <1>3, <1>4 DEF PlayerOK, w

(* c is turned away and drops the connection.                               *)
LEMMA TurnedAway ==
  ASSUME NEW c, NEW u, NEW msgs, NEW k, NEW in, NEW l, PlayerOK(c, u, msgs, k, in, l), ~in,
         \A i \in DOMAIN u : ~Asks(u[i]),
         NEW x, x.conn \in {"left", "gone"}, x.view = k.view, x.outstanding = k.outstanding,
         x.readies = k.readies
  PROVE  PlayerOK(c, u, <<>>, x, in, l)
<1> HIDE DEF Mark, Asks, Answers
<1>1. JoinsOnce(u, <<>>, in, x.conn)
  BY DEF JoinsOnce
<1> QED BY <1>1 DEF PlayerOK, ShowsSelf, OneReady, Unmarked, MarksFollow, Withdrawn

(* The connection of somebody who is not a member is closed.                *)
LEMMA ConnectionClosed ==
  ASSUME NEW c, NEW u, NEW msgs, NEW k, NEW in, NEW l, PlayerOK(c, u, msgs, k, in, l),
         k.conn # "open",
         NEW x, x.conn = "gone", x.view = k.view, x.outstanding = k.outstanding,
         x.readies = k.readies
  PROVE  ~in /\ PlayerOK(c, <<>>, msgs, x, in, l)
<1> HIDE DEF Mark, Asks, Answers
<1> QED BY DEF PlayerOK, JoinsOnce, OneReady

(* c presses Ready: no lobby marks it at that moment.                       *)
LEMMA Pressed ==
  ASSUME NEW c, NEW k, NEW in, NEW l, NEW msgs, NEW u \in Seq(UpMessage),
         PlayerOK(c, u, msgs, k, in, l), k.readies \in Nat, DOMAIN msgs \subseteq Nat \ {0},
         k.outstanding = -1, Mark(k.view, c) = -1,
         NEW x, x.conn = k.conn, x.view = k.view, x.outstanding = k.readies + 1,
         x.readies = k.readies + 1,
         NEW q \in Seq(UpMessage), \A i \in DOMAIN q : ~Asks(q[i]),
         \A i, j \in DOMAIN q : q[i].t = "ready" /\ q[j].t = "ready" => i = j,
         \A i \in DOMAIN q : q[i].t = "ready" => q[i].n = k.readies + 1
  PROVE  PlayerOK(c, u \o q, msgs, x, in, l)
<1> DEFINE w == u \o q
           v == Mark(k.view, c)
           n == k.readies
<1>1. /\ \A i \in DOMAIN u : i \in DOMAIN w /\ w[i] = u[i]
      /\ \A i \in DOMAIN w : i \notin DOMAIN u => i - Len(u) \in DOMAIN q /\ w[i] = q[i - Len(u)]
      /\ DOMAIN w \subseteq Int /\ Len(u) \in Int
  BY ConcatIs
<1> HIDE DEF w, Asks, Answers
<1>2. JoinsOnce(w, msgs, in, k.conn)
  <2>1. JoinsOnce(u, msgs, in, k.conn)
    BY DEF PlayerOK
  <2>2. \A i \in DOMAIN w : Asks(w[i]) => i \in DOMAIN u /\ w[i] = u[i]
    BY <1>1
  <2> QED BY <2>1, <2>2 DEF JoinsOnce
<1>3. \A i \in DOMAIN u : u[i].t # "ready"
  <2>1. k.outstanding # n
    OBVIOUS
  <2> HIDE DEF Unmarked
  <2> QED BY <2>1 DEF PlayerOK, OneReady
<1>4. Unmarked(c, v, msgs, l)
  <2>1. 0 \in Int /\ \A i \in DOMAIN msgs : msgs[i].t = "update" => Mark(msgs[i].data, c) \in {-1, n}
    BY DEF PlayerOK, MarksFollow
  <2>2. Withdrawn(c, 0, msgs, l)
    <3> HIDE DEF Withdrawn
    <3> QED BY DEF PlayerOK, MarksFollow
  <2>3. ASSUME NEW i \in DOMAIN msgs, msgs[i].t = "update" PROVE Mark(msgs[i].data, c) = -1
    <3>1. i > 0
      OBVIOUS
    <3> QED BY <2>2, <2>3, <3>1 DEF Withdrawn
  <2> QED BY <2>2, <2>3 DEF Unmarked, Withdrawn
<1>5. OneReady(c, w, v, n + 1, n + 1, msgs, l)
  <2>1. \A i \in DOMAIN w : w[i].t = "ready" => i - Len(u) \in DOMAIN q /\ w[i] = q[i - Len(u)]
    BY <1>1, <1>3
  <2>2. ASSUME NEW i \in DOMAIN w, NEW j \in DOMAIN w, w[i].t = "ready", w[j].t = "ready" PROVE i = j
    <3>1. i - Len(u) = j - Len(u)
      BY <2>1, <2>2
    <3> QED BY <3>1, <1>1
  <2>3. \A i \in DOMAIN w : w[i].t = "ready" => w[i].n = n + 1
    BY <2>1
  <2> HIDE DEF Unmarked
  <2> QED BY <1>4, <2>2, <2>3 DEF OneReady
<1>6. MarksFollow(c, v, n + 1, n + 1, msgs, l)
  <2> HIDE DEF Mark
  <2> QED BY <1>4 DEF Unmarked, MarksFollow, Withdrawn
<1>7. ShowsSelf(c, msgs)
  BY DEF PlayerOK
<1> QED BY <1>2, <1>5, <1>6, <1>7 DEF PlayerOK, w

-----------------------------------------------------------------------------
(* Every step keeps the marks in order                                      *)

(* Where a mark is read.                                                    *)
LEMMA MarkIs ==
  ASSUME NEW data, data.members \in Seq(Clients), NEW c
  PROVE  /\ (\A s \in Side : data.match.ready[s] = -1) => Mark(data, c) = -1
         /\ c \notin Elems(data.members) => Mark(data, c) = -1
         /\ \A s \in Side : (SideOf(data.members, c) = s) => Mark(data, c) = data.match.ready[s]
<1>1. SideOf(data.members, c) \in Side \cup {-1}
      /\ \A s \in Side : SideOf(data.members, c) = s => s < Len(data.members) /\ data.members[s + 1] = c
  BY SideIs
<1>2. ASSUME NEW s \in Side, SideOf(data.members, c) = s PROVE c \in Elems(data.members)
  <2>1. s < Len(data.members) /\ data.members[s + 1] = c
    BY <1>1, <1>2
  <2>2. s + 1 \in DOMAIN data.members
    BY <2>1 DEF Side
  <2> QED BY <2>1, <2>2 DEF Elems
<1>3. -1 \notin Side
  BY DEF Side
<1> HIDE DEF SideOf, Side, Elems
<1> QED BY <1>1, <1>2, <1>3 DEF Mark

(* Seats keep their marks while members and marks stay.                     *)
LEMMA MarkStays ==
  ASSUME NEW a, NEW b, NEW c, a.members = b.members, a.match.ready = b.match.ready
  PROVE  Mark(a, c) = Mark(b, c)
BY DEF Mark

(* A new member gets no mark and takes nobody's.                            *)
LEMMA MarkOfNew ==
  ASSUME NEW a, NEW b, NEW c \in Clients, NEW d, a.members \in Seq(Clients),
         b.members = Append(a.members, c), b.match.ready = a.match.ready, c \notin Elems(a.members),
         \A s \in Side : a.match.ready[s] # -1 => s < Len(a.members)
  PROVE  /\ d # c => Mark(b, d) = Mark(a, d)
         /\ Mark(b, c) = -1
<1> DEFINE m == a.members
           r == b.members
<1>1. m \in Seq(Clients) /\ r \in Seq(Clients) /\ Len(m) \in Nat /\ Len(r) = Len(m) + 1
      /\ (\A j \in 1..Len(m) : r[j] = m[j] /\ m[j] # c) /\ r[Len(m) + 1] = c
  BY DEF Elems
<1> HIDE DEF m, r
<1>2. ASSUME d # c PROVE SideOf(r, d) = SideOf(m, d)
  BY <1>1, <1>2 DEF SideOf
<1>3. ASSUME NEW s \in Side, SideOf(r, c) = s PROVE ~(s < Len(m))
  <2>1. s < Len(r) /\ r[s + 1] = c
    BY <1>1, <1>3, SideIs
  <2>2. CASE s < Len(m)
    <3>1. s + 1 \in 1..Len(m)
      BY <1>1, <2>2 DEF Side
    <3> QED BY <3>1, <2>1, <1>1
  <2> QED BY <2>2
<1>4. SideOf(r, c) \in Side \cup {-1}
  BY <1>1, SideIs
<1>5. Mark(b, c) = -1
  <2> HIDE DEF SideOf
  <2>1. CASE SideOf(r, c) \in Side
    BY <2>1, <1>3 DEF Mark, m, r
  <2>2. CASE SideOf(r, c) = -1
    BY <2>2 DEF Mark, r
  <2> QED BY <2>1, <2>2, <1>4
<1>6. d # c => Mark(b, d) = Mark(a, d)
  <2> HIDE DEF SideOf
  <2> QED BY <1>2 DEF Mark, m, r
<1> QED BY <1>5, <1>6

(* A Ready marks its sender's seat and no other.                            *)
LEMMA MarkOfReady ==
  ASSUME NEW a, NEW b, NEW c, NEW d, a.members \in Seq(Clients), b.members = a.members,
         NEW s \in Side, SideOf(a.members, c) = s,
         \A z \in Side : z # s => b.match.ready[z] = a.match.ready[z]
  PROVE  /\ d # c => Mark(b, d) = Mark(a, d)
         /\ Mark(b, c) = b.match.ready[s]
<1>1. s < Len(a.members) /\ a.members[s + 1] = c
  BY SideIs
<1>3. -1 \notin Side
  BY DEF Side
<1>4. Mark(b, c) = b.match.ready[s]
  <2> HIDE DEF SideOf, Side
  <2> QED BY <1>3 DEF Mark
<1>5. ASSUME d # c PROVE Mark(b, d) = Mark(a, d)
  <2>1. SideOf(a.members, d) \in Side \cup {-1} /\ SideOf(a.members, d) # s
    BY <1>1, <1>3, <1>5, SideIs
  <2> HIDE DEF SideOf, Side
  <2> QED BY <2>1 DEF Mark
<1> QED BY <1>4, <1>5

LEMMA ReadyInit == Init => ReadyInv
<1> SUFFICES ASSUME Init PROVE ReadyInv
  OBVIOUS
<1>1. /\ srv.members = Joined /\ srv.match = NoMatchData /\ Joined \in Seq(Clients)
      /\ \A s \in Side : NoMatchData.ready[s] = -1
  BY LobbyAssumption DEF Init, InitServer, NoMatchData
<1>2. SeatsTaken
  BY <1>1 DEF SeatsTaken
<1>3. ASSUME NEW c \in Clients
      PROVE  PlayerOK(c, up[c], down[c], cl[c], c \in Elems(srv.members), Mark(LobbyData, c))
  <2> DEFINE k == cl[c]
  <2>1. up[c] = <<>> /\ down[c] = <<>> /\ k.conn = (IF c \in Elems(Joined) THEN "open" ELSE "idle")
        /\ k.outstanding = -1 /\ k.readies = 0
    BY DEF Init, InitClient
  <2>2. k.view.match = NoMatchData /\ k.view.members \in Seq(Clients)
    <3>1. k.view = IF c \in Elems(Joined) THEN [NullLobby EXCEPT !.members = Joined, !.custom = Pushed]
                   ELSE NullLobby
      BY DEF Init, InitClient
    <3>2. NullLobby.match = NoMatchData /\ NullLobby.members = <<>> /\ <<>> \in Seq(Clients)
          /\ [NullLobby EXCEPT !.members = Joined, !.custom = Pushed].match = NoMatchData
          /\ [NullLobby EXCEPT !.members = Joined, !.custom = Pushed].members = Joined
      <4> HIDE DEF NoMatchData, Pushed
      <4> QED BY DEF NullLobby
    <3> QED BY <1>1, <3>1, <3>2
  <2>3. Mark(k.view, c) = -1
    BY <1>1, <2>2, MarkIs
  <2>4. Mark(LobbyData, c) = -1
    <3>1. LobbyData.members = Joined /\ LobbyData.match = NoMatchData
      BY <1>1 DEF LobbyData
    <3> HIDE DEF LobbyData
    <3> QED BY <1>1, <3>1, MarkIs
  <2> HIDE DEF Mark, k
  <2>5. JoinsOnce(<<>>, <<>>, c \in Elems(srv.members), k.conn)
    BY <1>1, <2>1 DEF JoinsOnce
  <2>6. ShowsSelf(c, <<>>) /\ OneReady(c, <<>>, -1, -1, 0, <<>>, -1) /\ MarksFollow(c, -1, -1, 0, <<>>, -1)
    BY DEF ShowsSelf, OneReady, MarksFollow, Withdrawn
  <2> QED BY <2>1, <2>3, <2>4, <2>5, <2>6 DEF PlayerOK, k
<1> QED BY <1>2, <1>3 DEF ReadyInv

(* What the invariant says of the players after a step follows from what it *)
(* says of each.                                                            *)
LEMMA ReadyNext ==
  ASSUME SeatsTaken',
         \A d \in Clients : PlayerOK(d, up'[d], down'[d], cl'[d], d \in Elems(srv'.members), Mark(LobbyData', d))
  PROVE  ReadyInv'
<1> HIDE DEF PlayerOK, Mark, SeatsTaken, LobbyData
<1> QED BY DEF ReadyInv

LEMMA LobbyIs ==
  /\ LobbyData.members = srv.members /\ LobbyData.match = srv.match
  /\ LobbyData'.members = srv'.members /\ LobbyData'.match = srv'.match
BY DEF LobbyData

(* The server handles one message of c: what everybody's invariant is once  *)
(* that message has been taken up.                                          *)
LEMMA TakenUp ==
  ASSUME TypeOK, ReadyInv, NEW c \in Clients, ServerMessage(c)
  PROVE  /\ \A d \in Clients :
              PlayerOK(d, up'[d], down[d], cl[d], d \in Elems(srv.members), Mark(LobbyData, d))
         /\ Asks(Head(up[c])) =>
              /\ \A i \in DOMAIN up'[c] : ~Asks(up'[c][i])
              /\ c \notin Elems(srv.members) /\ cl[c].conn = "open"
              /\ \A j \in DOMAIN down[c] : ~Answers(down[c][j])
         /\ Head(up[c]).t = "ready" =>
              /\ \A i \in DOMAIN up'[c] : up'[c][i].t # "ready"
              /\ Head(up[c]).n = cl[c].readies /\ cl[c].outstanding = cl[c].readies
              /\ Unmarked(c, Mark(cl[c].view, c), down[c], Mark(LobbyData, c))
<1>1. up' = [up EXCEPT ![c] = Tail(up[c])] /\ up \in [Clients -> Seq(UpMessage)]
  BY MessageEffects DEF TypeOK
<1>2. up[c] # <<>> /\ up[c] \in Seq(UpMessage)
  BY <1>1 DEF ServerMessage, RecvHello, RecvJoinReq, RecvSetChara, RecvSetEnv, RecvSetStage,
     RecvSetSettings, RecvLoaded, RecvReady, RecvResults, RecvReset, RecvPunchReady, Polled
<1>3. \A d \in Clients : PlayerOK(d, up[d], down[d], cl[d], d \in Elems(srv.members), Mark(LobbyData, d))
  BY DEF ReadyInv
<1>4. up'[c] = Tail(up[c]) /\ \A d \in Clients \ {c} : up'[d] = up[d]
  BY <1>1
<1> HIDE DEF PlayerOK, Mark, LobbyData, Asks, Answers, Unmarked
<1>5. PlayerOK(c, up[c], down[c], cl[c], c \in Elems(srv.members), Mark(LobbyData, c))
  BY <1>3
<1>6. /\ PlayerOK(c, Tail(up[c]), down[c], cl[c], c \in Elems(srv.members), Mark(LobbyData, c))
      /\ Asks(Head(up[c])) =>
           /\ \A i \in DOMAIN Tail(up[c]) : ~Asks(Tail(up[c])[i])
           /\ ~(c \in Elems(srv.members)) /\ cl[c].conn = "open"
           /\ \A j \in DOMAIN down[c] : ~Answers(down[c][j])
      /\ Head(up[c]).t = "ready" =>
           /\ \A i \in DOMAIN Tail(up[c]) : Tail(up[c])[i].t # "ready"
           /\ Head(up[c]).n = cl[c].readies /\ cl[c].outstanding = cl[c].readies
           /\ Unmarked(c, Mark(cl[c].view, c), down[c], Mark(LobbyData, c))
  BY <1>2, <1>5, MessageTaken
<1>7. \A d \in Clients :
        PlayerOK(d, up'[d], down[d], cl[d], d \in Elems(srv.members), Mark(LobbyData, d))
  BY <1>3, <1>4, <1>6
<1> QED BY <1>4, <1>6, <1>7

LEMMA MarksTaken ==
  ASSUME TypeOK, MembersDistinct, ReadyInv, NEW c \in Clients, ServerMessage(c)
  PROVE  ReadyInv'
<1> DEFINE m == Head(up[c])
           In(d) == d \in Elems(srv.members)
           l(d) == Mark(LobbyData, d)
<1>0. /\ srv \in Server /\ srv.match \in MatchData /\ srv.members \in Seq(Clients)
      /\ Len(srv.members) \in Nat /\ DOMAIN srv.match.ready = Side
      /\ cl \in [Clients -> Client] /\ down \in [Clients -> Seq(DownMessage)] /\ cl' = cl
      /\ SeatsTaken
  <2>1. srv \in Server /\ cl \in [Clients -> Client] /\ down \in [Clients -> Seq(DownMessage)]
        /\ cl' = cl
    BY MessageEffects DEF TypeOK
  <2>2. srv.match \in MatchData /\ srv.members \in Seq(Clients)
    BY <2>1 DEF Server
  <2>3. DOMAIN srv.match.ready = Side
    BY <2>2 DEF MatchData
  <2>4. SeatsTaken
    BY DEF ReadyInv
  <2> QED BY <2>1, <2>2, <2>3, <2>4
<1>1. /\ \A d \in Clients : PlayerOK(d, up'[d], down[d], cl[d], In(d), l(d))
      /\ Asks(m) => /\ \A i \in DOMAIN up'[c] : ~Asks(up'[c][i])
                    /\ ~In(c) /\ cl[c].conn = "open"
                    /\ \A j \in DOMAIN down[c] : ~Answers(down[c][j])
      /\ m.t = "ready" =>
           /\ \A i \in DOMAIN up'[c] : up'[c][i].t # "ready"
           /\ m.n = cl[c].readies /\ cl[c].outstanding = cl[c].readies
           /\ Unmarked(c, Mark(cl[c].view, c), down[c], l(c))
  BY TakenUp
<1>m. LobbyData.members = srv.members /\ LobbyData.match = srv.match
      /\ LobbyData'.members = srv'.members /\ LobbyData'.match = srv'.match
  BY LobbyIs
<1> HIDE DEF PlayerOK, Mark, LobbyData, Asks, Answers, Unmarked, m
(* Members and marks stay, and nobody hears of anything but signals.        *)
<1>2. ASSUME srv'.members = srv.members, srv'.match.ready = srv.match.ready,
             \A d \in Clients : PlayerOK(d, up'[d], down'[d], cl[d], In(d), l(d))
      PROVE  ReadyInv'
  <2>1. SeatsTaken'
    BY <1>0, <1>2 DEF SeatsTaken
  <2>2. \A d \in Clients : Mark(LobbyData', d) = l(d)
    BY <1>2, <1>m, MarkStays
  <2> HIDE DEF l
  <2> QED BY <1>0, <1>2, <2>1, <2>2, ReadyNext
(* All marks are withdrawn.                                                 *)
<1>3. ASSUME srv'.members \in Seq(Clients), Elems(srv'.members) = Elems(srv.members),
             \A s \in Side : srv'.match.ready[s] = -1, down' = down
      PROVE  ReadyInv'
  <2>1. SeatsTaken'
    BY <1>3 DEF SeatsTaken
  <2>2. \A d \in Clients : Mark(LobbyData', d) = -1
    BY <1>3, <1>m, MarkIs
  <2>3. \A d \in Clients : PlayerOK(d, up'[d], down[d], cl[d], In(d), -1)
    BY <1>1, MarkLost
  <2> HIDE DEF l
  <2> QED BY <1>0, <1>3, <2>1, <2>2, <2>3, ReadyNext
<1>4. CASE RecvHello(c)
  <2> DEFINE a == [t |-> "hello_resp"]
  <2>1. Polled(c, "hello") /\ Respond(c, a) /\ srv'.members = srv.members /\ srv'.match = srv.match
    BY <1>4, <1>0 DEF RecvHello, Handled, Server
  <2>2. a \in DownMessage /\ Answers(a) /\ Asks(m)
    BY <2>1 DEF DownMessage, Answers, Asks, Polled, m
  <2> HIDE DEF a
  <2>3. down'[c] = down[c] \o <<a>> /\ \A d \in Clients \ {c} : down'[d] = down[d]
    BY <1>0, <1>1, <2>1, <2>2 DEF Respond
  <2>4. PlayerOK(c, up'[c], down[c] \o <<a>>, cl[c], FALSE, l(c))
    <3>1. In(c) = FALSE
      BY <1>1, <2>2
    <3>2. PlayerOK(c, up'[c], down[c], cl[c], FALSE, l(c))
      BY <1>1, <3>1
    <3> QED BY <1>0, <1>1, <2>2, <3>2, AnswerSent
  <2>5. In(c) = FALSE
    BY <1>1, <2>2
  <2>6. \A d \in Clients : PlayerOK(d, up'[d], down'[d], cl[d], In(d), l(d))
    BY <1>1, <2>3, <2>4, <2>5
  <2> HIDE DEF l, In
  <2> QED BY <1>2, <2>1, <2>6
<1>5. CASE RecvJoinReq(c)
  <2>0. Polled(c, "joinreq") /\ Asks(m)
    BY <1>5 DEF RecvJoinReq, Polled, Asks, m
  <2>a. In(c) = FALSE
    BY <1>1, <2>0
  <2>1. CASE JoinResult(c) = "ok"
    <3>1. srv'.members = Append(srv.members, c) /\ srv'.match = srv.match /\ down' = down
      BY <1>5, <2>1, <1>0 DEF RecvJoinReq, Handled, Server
    <3>2. SeatsTaken'
      BY <1>0, <3>1 DEF SeatsTaken, Side
    <3>3. Elems(srv'.members) = Elems(srv.members) \cup {c}
      BY <1>0, <3>1, SeatedIs
    <3>4. ASSUME NEW d \in Clients PROVE (d # c => Mark(LobbyData', d) = l(d)) /\ Mark(LobbyData', c) = -1
      <4>1. \A s \in Side : LobbyData.match.ready[s] # -1 => s < Len(LobbyData.members)
        BY <1>0, <1>m DEF SeatsTaken
      <4>2. LobbyData.members \in Seq(Clients) /\ LobbyData'.members = Append(LobbyData.members, c)
            /\ LobbyData'.match.ready = LobbyData.match.ready /\ c \notin Elems(LobbyData.members)
        BY <1>0, <1>m, <2>a, <3>1
      <4> QED BY <4>1, <4>2, MarkOfNew
    <3>5. l(c) = -1
      BY <1>0, <1>m, <2>a, MarkIs
    <3>6. PlayerOK(c, up'[c], down[c], cl[c], TRUE, -1)
      <4>1. PlayerOK(c, up'[c], down[c], cl[c], FALSE, -1)
        BY <1>1, <2>a, <3>5
      <4> QED BY <1>1, <2>0, <4>1, Seated
    <3> HIDE DEF l
    <3>7. ASSUME NEW d \in Clients
          PROVE PlayerOK(d, up'[d], down'[d], cl'[d], d \in Elems(srv'.members), Mark(LobbyData', d))
      <4>1. CASE d = c
        <5>1. (d \in Elems(srv'.members)) = TRUE
          BY <3>3, <4>1
        <5> QED BY <1>0, <3>1, <3>4, <3>6, <4>1, <5>1
      <4>2. CASE d # c
        <5>1. (d \in Elems(srv'.members)) = In(d)
          BY <3>3, <4>2
        <5>2. PlayerOK(d, up'[d], down[d], cl[d], In(d), l(d))
          BY <1>1
        <5> QED BY <1>0, <3>1, <3>4, <4>2, <5>1, <5>2
      <4> QED BY <4>1, <4>2
    <3> QED BY <3>2, <3>7, ReadyNext
  <2>2. CASE JoinResult(c) # "ok"
    <3> DEFINE a == [t |-> "joinrej", why |-> JoinResult(c)]
    <3>1. Respond(c, a) /\ srv'.members = srv.members /\ srv'.match = srv.match
      <4> HIDE DEF JoinResult
      <4> QED BY <1>5, <2>2, <1>0 DEF RecvJoinReq, Handled, Server
    <3>2. a \in DownMessage /\ Answers(a)
      <4>1. JoinResult(c) \in {"hash_invalid", "lobby_full", "name_taken"}
        BY <2>2 DEF JoinResult
      <4> HIDE DEF JoinResult
      <4> QED BY <4>1 DEF DownMessage, Answers
    <3> HIDE DEF a
    <3>3. down'[c] = down[c] \o <<a>> /\ \A d \in Clients \ {c} : down'[d] = down[d]
      BY <1>0, <1>1, <2>0, <3>1 DEF Respond
    <3>4. PlayerOK(c, up'[c], down[c] \o <<a>>, cl[c], FALSE, l(c))
      <4>1. PlayerOK(c, up'[c], down[c], cl[c], FALSE, l(c))
        BY <1>1, <2>a
      <4> QED BY <1>0, <1>1, <2>0, <3>2, <4>1, AnswerSent
    <3>5. \A d \in Clients : PlayerOK(d, up'[d], down'[d], cl[d], In(d), l(d))
      BY <1>1, <2>a, <3>3, <3>4
    <3> HIDE DEF l, In
    <3> QED BY <1>2, <3>1, <3>5
  <2> QED BY <2>1, <2>2
<1>6. CASE RecvReady(c)
  <2> DEFINE s == SideOf(srv.members, c)
  <2>0. Polled(c, "ready") /\ m.t = "ready" /\ down' = down
    BY <1>6 DEF RecvReady, Polled, m
  <2>1. CASE s = -1
    <3>1. srv'.members = srv.members /\ srv'.match = srv.match
      BY <1>6, <1>0, <2>1 DEF RecvReady, Handled, Server
    <3> HIDE DEF l, In
    <3> QED BY <1>1, <1>2, <2>0, <3>1
  <2>2. CASE s # -1
    <3>1. s \in Side /\ s < Len(srv.members)
      BY <1>0, <2>2, SideIs
    <3> HIDE DEF s
    <3>2. srv'.members = srv.members /\ srv'.match.ready = [srv.match.ready EXCEPT ![s] = m.n]
      BY <1>6, <1>0, <2>2, <3>1 DEF RecvReady, Handled, Server, MatchData, m, s
    <3>3. SeatsTaken'
      BY <1>0, <3>1, <3>2 DEF SeatsTaken
    <3>4. \A d \in Clients : (d # c => Mark(LobbyData', d) = l(d)) /\ Mark(LobbyData', c) = m.n
      <4>1. SideOf(LobbyData.members, c) = s
        BY <1>m DEF s
      <4>2. /\ LobbyData.members \in Seq(Clients) /\ LobbyData'.members = LobbyData.members
            /\ LobbyData'.match.ready = [LobbyData.match.ready EXCEPT ![s] = m.n]
            /\ DOMAIN LobbyData.match.ready = Side
        BY <1>0, <1>m, <3>2
      <4>3. /\ LobbyData'.match.ready[s] = m.n
            /\ \A z \in Side : z # s => LobbyData'.match.ready[z] = LobbyData.match.ready[z]
        BY <3>1, <4>2
      <4> HIDE DEF SideOf
      <4> QED BY <3>1, <4>1, <4>2, <4>3, MarkOfReady
    <3>5. PlayerOK(c, up'[c], down[c], cl[c], In(c), m.n)
      <4>1. cl[c].readies \in Nat
        BY <1>0, LobbyAssumption DEF Client
      <4>2. PlayerOK(c, up'[c], down[c], cl[c], In(c), cl[c].readies)
        BY <1>1, <2>0, <4>1, Marked
      <4> QED BY <1>1, <2>0, <4>2
    <3> HIDE DEF l
    <3>6. ASSUME NEW d \in Clients
          PROVE PlayerOK(d, up'[d], down'[d], cl'[d], d \in Elems(srv'.members), Mark(LobbyData', d))
      <4>1. PlayerOK(d, up'[d], down[d], cl[d], In(d), l(d))
        BY <1>1
      <4>2. CASE d = c
        BY <1>0, <2>0, <3>2, <3>4, <3>5, <4>2
      <4>3. CASE d # c
        BY <1>0, <2>0, <3>2, <3>4, <4>1, <4>3
      <4> QED BY <4>2, <4>3
    <3> QED BY <3>3, <3>6, ReadyNext
  <2> QED BY <2>1, <2>2
<1>7. CASE RecvResults(c)
  <2> DEFINE s == m.loser
  <2>1. s \in Side /\ Handled(c, HandleResults(s)) /\ down' = down
    BY <1>7, PolledIs DEF RecvResults, m
  <2> HIDE DEF s
  <2>2. CASE s < Len(srv.members)
    <3>1. srv'.members = Rotated(srv.members, s + 1) /\ srv'.match = NoMatchData
      BY <2>1, <2>2, <1>0 DEF HandleResults, Handled, Rotated, Server
    <3>2. s + 1 \in 1..Len(srv.members)
      BY <2>1, <2>2, <1>0 DEF Side
    <3>3. srv'.members \in Seq(Clients) /\ Elems(srv'.members) = Elems(srv.members)
      BY <1>0, <3>1, <3>2, RotatedIs
    <3>4. \A x \in Side : srv'.match.ready[x] = -1
      BY <3>1 DEF NoMatchData
    <3> QED BY <1>3, <2>1, <3>3, <3>4
  <2>3. CASE ~(s < Len(srv.members))
    <3>1. srv'.members = srv.members /\ srv'.match = srv.match
      BY <2>1, <2>3, <1>0 DEF HandleResults, Handled, Server
    <3> HIDE DEF l, In
    <3> QED BY <1>1, <1>2, <2>1, <3>1
  <2> QED BY <2>2, <2>3
<1>8. CASE RecvReset(c)
  <2>1. down' = down /\ srv'.members = srv.members
        /\ \/ srv'.match = srv.match
           \/ srv'.match = ClearReady(srv.match)
    BY <1>8, <1>0 DEF RecvReset, ResetForRematch, Handled, Server
  <2>2. CASE srv'.match = srv.match
    <3> HIDE DEF l, In
    <3> QED BY <1>1, <1>2, <2>1, <2>2
  <2>3. CASE srv'.match = ClearReady(srv.match)
    <3>1. \A x \in Side : srv'.match.ready[x] = -1
      BY <1>0, <2>3 DEF ClearReady, MatchData
    <3> QED BY <1>0, <1>3, <2>1, <3>1
  <2> QED BY <2>1, <2>2, <2>3
<1>9. CASE RecvPunchReady(c)
  <2> DEFINE a == [t |-> "punch_go"]
  <2>1. srv'.members = srv.members /\ srv'.match = srv.match
        /\ (down' = down \/ Broadcast(srv.members, <<a>>))
    BY <1>9, <1>0 DEF RecvPunchReady, Handled, Server
  <2>2. a \in DownMessage /\ ~Answers(a) /\ a.t # "update"
    BY DEF DownMessage, Answers
  <2> HIDE DEF a
  <2>3. <<a>> \in Seq(DownMessage) /\ \A i \in DOMAIN <<a>> : <<a>>[i] = a
    BY <2>2
  <2>4. \A d \in Clients : PlayerOK(d, up'[d], down'[d], cl[d], In(d), l(d))
    <3> DEFINE q == <<a>>
    <3>1. q \in Seq(DownMessage) /\ \A i \in DOMAIN q : q[i].t # "update" /\ ~Answers(q[i])
      BY <2>2, <2>3
    <3>2. \A d \in Clients : down'[d] = down[d] \/ down'[d] = down[d] \o q
      BY <1>0, <2>1 DEF Broadcast
    <3> HIDE DEF q, l, In
    <3>3. ASSUME NEW d \in Clients PROVE PlayerOK(d, up'[d], down[d] \o q, cl[d], In(d), l(d))
      <4>1. down[d] \in Seq(DownMessage) /\ PlayerOK(d, up'[d], down[d], cl[d], In(d), l(d))
        BY <1>0, <1>1
      <4> QED BY <3>1, <4>1, OthersSent
    <3> QED BY <1>1, <3>2, <3>3
  <2> HIDE DEF l, In
  <2> QED BY <1>2, <2>1, <2>4
<1>10. CASE RecvSetChara(c)
  <2>1. down' = down /\ srv'.members = srv.members /\ srv'.match.ready = srv.match.ready
    <3>1. down' = down
      BY <1>10 DEF RecvSetChara
    <3>2. ~RecvJoinReq(c) /\ ~RecvResults(c) /\ ~RecvReady(c) /\ ~RecvReset(c)
      BY <1>10 DEF RecvSetChara, RecvJoinReq, RecvResults, RecvReady, RecvReset, Polled
    <3> QED BY <3>1, <3>2, MessageEffects
  <2> HIDE DEF l, In
  <2> QED BY <1>1, <1>2, <2>1
<1>11. CASE RecvSetEnv(c) \/ RecvSetStage(c) \/ RecvSetSettings(c) \/ RecvLoaded(c)
  <2>1. down' = down /\ srv'.members = srv.members /\ srv'.match.ready = srv.match.ready
    <3>1. down' = down
      BY <1>11 DEF RecvSetEnv, RecvSetStage, RecvSetSettings, RecvLoaded
    <3>2. ~RecvJoinReq(c) /\ ~RecvResults(c) /\ ~RecvReady(c) /\ ~RecvReset(c)
      BY <1>11 DEF RecvSetEnv, RecvSetStage, RecvSetSettings, RecvLoaded, RecvJoinReq, RecvResults,
         RecvReady, RecvReset, Polled
    <3> QED BY <3>1, <3>2, MessageEffects
  <2> HIDE DEF l, In
  <2> QED BY <1>1, <1>2, <2>1
<1> QED BY <1>4, <1>5, <1>6, <1>7, <1>8, <1>9, <1>10, <1>11 DEF ServerMessage

LEMMA MarksFlushed ==
  ASSUME TypeOK, MembersDistinct, ReadyInv, FlushStep
  PROVE  ReadyInv'
<1> DEFINE q == StepMessages
           In(d) == d \in Elems(srv.members)
           l(d) == Mark(LobbyData, d)
<1>1. /\ srv \in Server /\ down \in [Clients -> Seq(DownMessage)] /\ q \in Seq(DownMessage)
      /\ OwnNamesIn(srv.members)
  BY StepMessagesType DEF TypeOK, MembersDistinct, OwnNamesIn
<1>2. /\ srv'.members = srv.members /\ srv'.match = srv.match /\ up' = up /\ cl' = cl
      /\ Broadcast(srv.members, q)
  BY <1>1 DEF FlushStep, Server
<1>3. /\ srv.dirty => /\ 1 \in DOMAIN q /\ q[1].t = "update" /\ q[1].data = LobbyData
                      /\ \A i \in DOMAIN q : i > 1 => q[i].t # "update" /\ ~Answers(q[i])
      /\ ~srv.dirty => \A i \in DOMAIN q : q[i].t # "update" /\ ~Answers(q[i])
  <2> HIDE DEF StepMessages, LobbyData
  <2>1. /\ srv.dirty => /\ 1 \in DOMAIN q /\ q[1].t = "update" /\ q[1].data = LobbyData
                        /\ \A i \in DOMAIN q : i > 1 => q[i].t \in {"allready", "synced"}
        /\ ~srv.dirty => \A i \in DOMAIN q : q[i].t \in {"allready", "synced"}
    BY StepMessagesAre
  <2> HIDE DEF q
  <2> QED BY <2>1 DEF Answers
<1>4. LobbyData.members = srv.members /\ \A d : Mark(LobbyData', d) = l(d)
  BY <1>2, LobbyIs, MarkStays
<1>5. \A d \in Clients : PlayerOK(d, up[d], down[d], cl[d], In(d), l(d))
  BY DEF ReadyInv
<1> HIDE DEF q, PlayerOK, Mark, LobbyData, Answers, Elems, OwnNamesIn
<1>6. ASSUME NEW d \in Clients PROVE PlayerOK(d, up[d], down'[d], cl[d], In(d), l(d))
  <2>1. PlayerOK(d, up[d], down[d], cl[d], In(d), l(d)) /\ down[d] \in Seq(DownMessage)
    BY <1>1, <1>5
  <2>2. CASE ~In(d)
    <3>1. down'[d] = down[d]
      BY <1>2, <2>2 DEF Broadcast
    <3> QED BY <2>1, <3>1
  <2>3. CASE In(d) /\ ~srv.dirty
    <3>1. cl[d].conn = "open"
      BY <2>1, <2>3 DEF PlayerOK, JoinsOnce
    <3>2. down'[d] = down[d] \o q
      BY <1>2, <2>3, <3>1 DEF Broadcast
    <3> HIDE DEF In, l
    <3> QED BY <1>1, <1>3, <2>1, <2>3, <3>2, OthersSent
  <2>4. CASE In(d) /\ srv.dirty
    <3>1. cl[d].conn = "open"
      BY <2>1, <2>4 DEF PlayerOK, JoinsOnce
    <3>2. down'[d] = down[d] \o q
      BY <1>2, <2>4, <3>1 DEF Broadcast
    <3>3. PlayerOK(d, up[d], down[d], cl[d], TRUE, l(d)) /\ In(d) = TRUE
      BY <2>1, <2>4
    <3>4. d \in Elems(q[1].data.members) /\ OwnNamesIn(q[1].data.members) /\ Mark(q[1].data, d) = l(d)
      BY <1>1, <1>3, <1>4, <2>4
    <3> HIDE DEF In, l
    <3>5. PlayerOK(d, up[d], down[d] \o q, cl[d], TRUE, l(d))
      BY <1>1, <1>3, <2>1, <2>4, <3>3, <3>4, NewsSent
    <3> QED BY <3>2, <3>3, <3>5
  <2> QED BY <2>2, <2>3, <2>4
<1>7. SeatsTaken'
  BY <1>2 DEF ReadyInv, SeatsTaken
<1> HIDE DEF l
<1> QED BY <1>2, <1>4, <1>6, <1>7, ReadyNext

(* Without anybody who may leave, only connections that the client itself   *)
(* dropped when it was turned away are closed.                              *)
LEMMA MarksClosed ==
  ASSUME TypeOK, ReadyInv, MayLeave = {}, NEW c \in Clients, ServerDisconnect(c)
  PROVE  ReadyInv'
<1> DEFINE In(d) == d \in Elems(srv.members)
           l(d) == Mark(LobbyData, d)
<1>1. /\ srv \in Server /\ srv.members \in Seq(Clients) /\ cl \in [Clients -> Client]
      /\ up \in [Clients -> Seq(UpMessage)]
  BY DEF TypeOK, Server
<1>2. /\ cl[c].conn = "left" /\ cl' = [cl EXCEPT ![c].conn = "gone"]
      /\ up' = [up EXCEPT ![c] = <<>>] /\ down' = down
      /\ srv'.members = Without(srv.members, c) /\ srv'.match = srv.match
  BY <1>1 DEF ServerDisconnect, EraseMember, Server
<1>3. /\ cl'[c].conn = "gone" /\ cl'[c].view = cl[c].view /\ cl'[c].outstanding = cl[c].outstanding
      /\ cl'[c].readies = cl[c].readies /\ up'[c] = <<>>
      /\ \A d \in Clients \ {c} : cl'[d] = cl[d] /\ up'[d] = up[d]
  BY <1>1, <1>2 DEF Client
<1>4. \A d \in Clients : PlayerOK(d, up[d], down[d], cl[d], In(d), l(d))
  BY DEF ReadyInv
<1> HIDE DEF PlayerOK, Mark, LobbyData
<1>5. ~In(c) /\ PlayerOK(c, <<>>, down[c], cl'[c], In(c), l(c))
  <2>1. PlayerOK(c, up[c], down[c], cl[c], In(c), l(c)) /\ cl[c].conn # "open"
    BY <1>2, <1>4
  <2> HIDE DEF In, l
  <2> QED BY <1>3, <2>1, ConnectionClosed
<1>6. srv'.members = srv.members
  BY <1>1, <1>2, <1>5, WithoutIs
<1>7. \A d : Mark(LobbyData', d) = l(d)
  BY <1>2, <1>6, LobbyIs, MarkStays
<1>8. SeatsTaken'
  BY <1>2, <1>6 DEF ReadyInv, SeatsTaken
<1>9. \A d \in Clients : PlayerOK(d, up'[d], down'[d], cl'[d], In(d), l(d))
  BY <1>2, <1>3, <1>4, <1>5
<1> HIDE DEF l
<1> QED BY <1>6, <1>7, <1>8, <1>9, ReadyNext

(* What a client sends besides its questions and its Ready.                 *)
LEMMA ClientSends ==
  ASSUME TypeOK, NEW c \in Clients, ClientAction(c), ~ClientStep(c), ~Connect(c), ~PressReady(c)
  PROVE  \/ up'[c] = up[c]
         \/ \E m \in UpMessage : ~Asks(m) /\ m.t # "ready" /\ up'[c] = up[c] \o <<m>>
<1>0. up \in [Clients -> Seq(UpMessage)]
  BY DEF TypeOK
<1>1. ASSUME NEW m \in UpMessage, ~Asks(m), m.t # "ready", Send(c, <<m>>)
      PROVE  \E a \in UpMessage : ~Asks(a) /\ a.t # "ready" /\ up'[c] = up[c] \o <<a>>
  <2>1. up'[c] = up[c] \o <<m>>
    BY <1>0, <1>1 DEF Send
  <2> QED BY <1>1, <2>1
<1>2. CASE PushSettings(c)
  <2> DEFINE m == [t |-> "setsettings"]
  <2>1. m \in UpMessage /\ ~Asks(m) /\ m.t # "ready" /\ Send(c, <<m>>)
    BY <1>2 DEF UpMessage, Asks, PushSettings
  <2> HIDE DEF m
  <2> QED BY <1>1, <2>1
<1>3. CASE ReportWin(c)
  <2> DEFINE s == SideOf(cl[c].view.members, c)
             m == [t |-> "results", loser |-> 1 - s]
  <2>1. s \in Side
    <3>1. cl[c].view.members \in Seq(Clients)
      BY DEF TypeOK, Client, Lobby
    <3>2. s \in Side \cup {-1}
      BY <3>1, SideIs
    <3> HIDE DEF SideOf
    <3> QED BY <1>3, <3>2 DEF ReportWin
  <2>2. Send(c, <<m>>)
    <3> HIDE DEF SideOf
    <3> QED BY <1>3 DEF ReportWin
  <2> HIDE DEF s
  <2>3. 1 - s \in Side
    BY <2>1 DEF Side
  <2>4. m \in UpMessage /\ ~Asks(m) /\ m.t # "ready"
    BY <2>3 DEF UpMessage, Asks
  <2> HIDE DEF m
  <2> QED BY <1>1, <2>2, <2>4
<1>4. CASE StartPunch(c)
  <2> DEFINE m == [t |-> "punch_ready"]
  <2>1. m \in UpMessage /\ ~Asks(m) /\ m.t # "ready" /\ Send(c, <<m>>)
    BY <1>4 DEF UpMessage, Asks, StartPunch
  <2> HIDE DEF m
  <2> QED BY <1>1, <2>1
<1>5. CASE HasInitialized(c)
  <2> DEFINE m == [t |-> "loaded"]
  <2>1. m \in UpMessage /\ ~Asks(m) /\ m.t # "ready" /\ (Send(c, <<m>>) \/ up' = up)
    BY <1>5 DEF UpMessage, Asks, HasInitialized
  <2> HIDE DEF m
  <2> QED BY <1>1, <2>1
<1>6. CASE ExitForeground(c)
  <2> DEFINE m == [t |-> "reset"]
  <2>1. m \in UpMessage /\ ~Asks(m) /\ m.t # "ready" /\ (Send(c, <<m>>) \/ up' = up)
    BY <1>6 DEF UpMessage, Asks, ExitForeground
  <2> HIDE DEF m
  <2> QED BY <1>1, <2>1
<1>7. CASE Leave(c) \/ TickFrame(c) \/ RegisterTasks(c) \/ AbortMatch(c) \/ CloseBattle(c) \/ DeferredClose(c)
  BY <1>7 DEF Leave, TickFrame, RegisterTasks, AbortMatch, CloseBattle, DeferredClose
<1> QED BY <1>2, <1>3, <1>4, <1>5, <1>6, <1>7 DEF ClientAction

(* A player sends one Ready, after its choices.                             *)
LEMMA ReadySent ==
  ASSUME TypeOK, NEW c \in Clients, PressReady(c)
  PROVE  \E q \in Seq(UpMessage) :
           /\ up'[c] = up[c] \o q
           /\ \A i \in DOMAIN q : ~Asks(q[i])
           /\ \A i, j \in DOMAIN q : q[i].t = "ready" /\ q[j].t = "ready" => i = j
           /\ \A i \in DOMAIN q : q[i].t = "ready" => q[i].n = cl[c].readies + 1
           /\ \E z \in DOMAIN q : q[z].t = "ready" /\ \A i \in DOMAIN q : i # z =>
                i < z /\ q[i].t \in {"setchara", "setenv", "setstage"}
<1> DEFINE n == cl[c].readies + 1
           pick == <<c, n>>
           h == [t |-> "setchara", choice |-> pick]
           a == [t |-> "setenv", choice |-> pick]
           b == [t |-> "setstage", choice |-> pick]
           r == [t |-> "ready", n |-> n]
           env == IF SideOf(cl[c].view.members, c) = 0 THEN <<a, b>> ELSE <<>>
           q == <<h>> \o env \o <<r>>
<1>1. n \in 1..MaxReadies /\ pick \in Choice
  <2>1. n \in 1..MaxReadies
    <3>1. cl[c].readies \in 0..MaxReadies
      BY DEF TypeOK, Client
    <3>2. cl[c].readies < MaxReadies
      BY DEF PressReady
    <3> QED BY <3>1, <3>2, LobbyAssumption
  <2> HIDE DEF n
  <2> QED BY <2>1 DEF Choice
<1>2. up'[c] = up[c] \o q
  <2> HIDE DEF SideOf
  <2> QED BY DEF PressReady, Send, TypeOK
<1>3. /\ {h, a, b, r} \subseteq UpMessage
      /\ \A x \in {h, a, b} : ~Asks(x) /\ x.t \in {"setchara", "setenv", "setstage"}
      /\ ~Asks(r) /\ r.t = "ready" /\ r.n = n
  <2> HIDE DEF n, pick
  <2> QED BY <1>1 DEF UpMessage, Asks
<1> HIDE DEF h, a, b, r
<1>4. /\ env \in Seq(UpMessage) /\ \A i \in DOMAIN env : env[i] \in {h, a, b}
  <2>1. <<a, b>> \in Seq(UpMessage) /\ \A i \in DOMAIN <<a, b>> : <<a, b>>[i] \in {h, a, b}
    BY <1>3
  <2>2. <<>> \in Seq(UpMessage) /\ DOMAIN <<>> = {}
    OBVIOUS
  <2> HIDE DEF SideOf
  <2> QED BY <2>1, <2>2
<1> HIDE DEF env
<1> DEFINE g == <<h>>
           e == g \o env
<1>5. g \in Seq(UpMessage) /\ \A i \in DOMAIN g : g[i] = h
  BY <1>3
<1> HIDE DEF g
<1>6. e \in Seq(UpMessage) /\ \A i \in DOMAIN e : e[i] \in {h, a, b}
  <2>1. \A i \in DOMAIN e : /\ i \in DOMAIN g => e[i] = g[i]
                            /\ i \notin DOMAIN g => \E j \in DOMAIN env : e[i] = env[j]
    BY <1>4, <1>5, ConcatIs
  <2> QED BY <1>4, <1>5, <2>1
<1> HIDE DEF e
<1>7. q = e \o <<r>>
  BY DEF e, g
<1> DEFINE w == e \o <<r>>
<1>8. w \in Seq(UpMessage)
  BY <1>3, <1>6
<1>9. \A i \in DOMAIN w : w[i] \in {h, a, b} \/ (i = Len(e) + 1 /\ w[i] = r)
  <2>1. \A i \in DOMAIN w : (i \in DOMAIN e /\ w[i] = e[i]) \/ (i = Len(e) + 1 /\ w[i] = r)
    BY <1>3, <1>6, OneMore
  <2> HIDE DEF w
  <2> QED BY <1>6, <2>1
<1>12. /\ Len(e) + 1 \in DOMAIN w /\ w[Len(e) + 1] = r
      /\ \A i \in DOMAIN w : i # Len(e) + 1 => i < Len(e) + 1 /\ w[i] \in {h, a, b}
  <2>1. /\ \A i \in DOMAIN w : (i \in DOMAIN e /\ w[i] = e[i]) \/ (i = Len(e) + 1 /\ w[i] = r)
        /\ DOMAIN e = 1..Len(e) /\ Len(e) \in Nat /\ Len(e) + 1 \in DOMAIN w /\ w[Len(e) + 1] = r
    BY <1>3, <1>6, OneMore
  <2> HIDE DEF w
  <2> QED BY <1>6, <2>1
<1> HIDE DEF w, n, Asks
<1>10. /\ \A i \in DOMAIN w : ~Asks(w[i])
       /\ \A i, j \in DOMAIN w : w[i].t = "ready" /\ w[j].t = "ready" => i = j
       /\ \A i \in DOMAIN w : w[i].t = "ready" => w[i].n = n
  BY <1>3, <1>9
<1>13. \E z \in DOMAIN w : w[z].t = "ready" /\ \A i \in DOMAIN w : i # z =>
         i < z /\ w[i].t \in {"setchara", "setenv", "setstage"}
  BY <1>3, <1>12
<1>11. up'[c] = up[c] \o w
  BY <1>2, <1>7 DEF w
<1> QED BY <1>8, <1>10, <1>13, <1>11 DEF n

LEMMA MarksSeen ==
  ASSUME TypeOK, ReadyInv, NEW c \in Clients, ClientStep(c)
  PROVE  PlayerOK(c, up'[c], down'[c], cl'[c], c \in Elems(srv.members), Mark(LobbyData, c))
<1> DEFINE m == Head(down[c])
           in == c \in Elems(srv.members)
           l == Mark(LobbyData, c)
           k == cl[c]
           x == cl'[c]
<1>1. /\ down[c] \in Seq(DownMessage) /\ down[c] # <<>>
      /\ down'[c] = IF m.t = "joinrej" THEN <<>> ELSE Tail(down[c])
      /\ x.view = IF m.t = "update" THEN m.data ELSE k.view
      /\ x.readies = k.readies
      /\ x.outstanding = IF m.t = "update" /\ AnswersReady(k, c, m.data) THEN -1 ELSE k.outstanding
      /\ m.t # "joinrej" => x.conn = k.conn
      /\ m.t = "joinrej" => x.conn = IF k.conn = "open" THEN "left" ELSE "gone"
      /\ up'[c] = IF m.t = "hello_resp" /\ k.conn = "open" THEN up[c] \o <<[t |-> "joinreq"]>> ELSE up[c]
  BY ClientStepEffects
<1>2. /\ k \in Client /\ up[c] \in Seq(UpMessage) /\ PlayerOK(c, up[c], down[c], k, in, l)
  BY DEF TypeOK, ReadyInv
<1> DEFINE u == up[c]
           msgs == down[c]
<1>a. /\ msgs \in Seq(DownMessage) /\ msgs # <<>> /\ m = Head(msgs) /\ k \in Client
      /\ PlayerOK(c, u, msgs, k, in, l)
  BY <1>1, <1>2
<1> HIDE DEF m, in, l, k, x, u, msgs, PlayerOK, AnswersReady, Answers, Asks
<1>3. CASE m.t = "joinrej"
  <2>1. Answers(m)
    BY <1>3 DEF Answers
  <2>2. /\ k.view = IF m.t = "update" THEN m.data ELSE k.view
        /\ k.outstanding = IF m.t = "update" /\ AnswersReady(k, c, m.data) THEN -1 ELSE k.outstanding
    BY <1>3
  <2>3. ~in /\ \A i \in DOMAIN u : ~Asks(u[i])
    <3>1. Answers(m) => ~in /\ \A i \in DOMAIN u : ~Asks(u[i])
      BY ZenonT(60), <1>a, <2>2, MessagePolled
    <3> QED BY <2>1, <3>1
  <2>4. x.conn \in {"left", "gone"} /\ x.view = k.view /\ x.outstanding = k.outstanding
        /\ x.readies = k.readies /\ up'[c] = up[c] /\ down'[c] = <<>>
    BY <1>1, <1>3
  <2>5. PlayerOK(c, up[c], <<>>, x, in, l)
    BY <1>2, <2>3, <2>4, TurnedAway DEF u
  <2> QED BY <2>4, <2>5 DEF in, l, x
<1>4. CASE m.t # "joinrej"
  <2>1. x.conn = k.conn /\ down'[c] = Tail(down[c])
    BY <1>1, <1>4
  <2>2. /\ PlayerOK(c, up[c], Tail(down[c]), x, in, l)
        /\ Answers(m) => /\ \A i \in DOMAIN Tail(down[c]) : ~Answers(Tail(down[c])[i])
                         /\ ~in /\ k.conn = "open" /\ \A i \in DOMAIN up[c] : ~Asks(up[c][i])
    <3>1. x.conn = k.conn /\ x.readies = k.readies
          /\ x.view = (IF m.t = "update" THEN m.data ELSE k.view)
          /\ x.outstanding = (IF m.t = "update" /\ AnswersReady(k, c, m.data) THEN -1 ELSE k.outstanding)
      BY <1>1, <2>1
    <3>2. /\ PlayerOK(c, u, Tail(msgs), x, in, l)
          /\ Answers(m) => /\ \A i \in DOMAIN Tail(msgs) : ~Answers(Tail(msgs)[i])
                           /\ ~in /\ k.conn = "open" /\ \A i \in DOMAIN u : ~Asks(u[i])
      BY ZenonT(60), <1>a, <3>1, MessagePolled
    <3> QED BY <3>2 DEF u, msgs
  <2>3. CASE m.t # "hello_resp"
    BY <1>1, <2>1, <2>2, <2>3 DEF in, l, x
  <2>4. CASE m.t = "hello_resp"
    <3> DEFINE a == [t |-> "joinreq"]
    <3>1. a \in UpMessage /\ Asks(a) /\ Answers(m)
      BY <2>4 DEF UpMessage, Asks, Answers
    <3> HIDE DEF a
    <3>2. up'[c] = up[c] \o <<a>> /\ x.conn = "open"
      BY <1>1, <2>1, <2>2, <2>4, <3>1 DEF a
    <3>3. in = FALSE
      BY <2>2, <3>1 DEF in
    <3>4. PlayerOK(c, up[c], Tail(down[c]), x, FALSE, l)
      BY <2>2, <3>3
    <3>5. PlayerOK(c, up[c] \o <<a>>, Tail(down[c]), x, FALSE, l)
      BY <1>2, <2>2, <3>1, <3>2, <3>4, QuestionSent
    <3> QED BY <2>1, <3>2, <3>3, <3>5 DEF in, l, x
  <2> QED BY <2>3, <2>4
<1> QED BY <1>3, <1>4

LEMMA MarksMoved ==
  ASSUME TypeOK, ReadyInv, MayLeave = {}, NEW c \in Clients, ClientAction(c), ~ClientStep(c)
  PROVE  PlayerOK(c, up'[c], down'[c], cl'[c], c \in Elems(srv.members), Mark(LobbyData, c))
<1> DEFINE in == c \in Elems(srv.members)
           l == Mark(LobbyData, c)
           k == cl[c]
           x == cl'[c]
           u == up[c]
<1>1. /\ x.view = k.view /\ down'[c] = down[c] /\ ~Leave(c)
      /\ x.conn = k.conn \/ Connect(c)
      /\ PressReady(c) \/ (x.readies = k.readies /\ x.outstanding = k.outstanding)
  BY ClientKeeps
<1>2. /\ k \in Client /\ u \in Seq(UpMessage) /\ down[c] \in Seq(DownMessage)
      /\ PlayerOK(c, u, down[c], k, in, l)
  BY DEF TypeOK, ReadyInv
<1>3. CASE Connect(c)
  <2> DEFINE a == [t |-> "hello"]
  <2>1. k.conn = "idle" /\ x.conn = "open" /\ up'[c] = u \o <<a>>
        /\ x.readies = k.readies /\ x.outstanding = k.outstanding
    BY <1>3 DEF Connect, Send, TypeOK, Client
  <2>2. a \in UpMessage /\ Asks(a)
    BY DEF UpMessage, Asks
  <2> HIDE DEF a, k, x, u, l, Mark
  <2>3. in = FALSE /\ (\A i \in DOMAIN u : ~Asks(u[i])) /\ \A i \in DOMAIN down[c] : ~Answers(down[c][i])
    <3> HIDE DEF in, Asks, Answers
    <3>1. ~in /\ (\A i \in DOMAIN u : ~Asks(u[i])) /\ \A i \in DOMAIN down[c] : ~Answers(down[c][i])
      BY <1>2, <2>1 DEF PlayerOK, JoinsOnce
    <3> QED BY <3>1 DEF in
  <2> HIDE DEF in, Asks, Answers, PlayerOK
  <2>4. PlayerOK(c, u, down[c], k, FALSE, l)
    BY <1>2, <2>3
  <2>5. PlayerOK(c, u \o <<a>>, down[c], x, FALSE, l)
    BY <1>1, <1>2, <2>1, <2>2, <2>3, <2>4, QuestionSent
  <2> QED BY <1>1, <2>1, <2>3, <2>5 DEF in, l, x
<1>4. CASE PressReady(c)
  <2>1. PICK q \in Seq(UpMessage) :
           /\ up'[c] = u \o q
           /\ \A i \in DOMAIN q : ~Asks(q[i])
           /\ \A i, j \in DOMAIN q : q[i].t = "ready" /\ q[j].t = "ready" => i = j
           /\ \A i \in DOMAIN q : q[i].t = "ready" => q[i].n = k.readies + 1
    BY <1>4, ReadySent
  <2>2. k.outstanding = -1 /\ Mark(k.view, c) = -1
    <3> HIDE DEF SideOf
    <3> QED BY <1>4 DEF PressReady, CanLobbyReady, Mark
  <2>3. x.outstanding = k.readies + 1 /\ x.readies = k.readies + 1 /\ x.conn = k.conn
    BY <1>4 DEF PressReady, TypeOK, Client
  <2>4. k.readies \in Nat
    BY <1>2, LobbyAssumption DEF Client
  <2>5. DOMAIN down[c] \subseteq Nat \ {0}
    BY <1>2
  <2> HIDE DEF in, l, k, x, u, PlayerOK, Mark, Asks
  <2>6. PlayerOK(c, u \o q, down[c], x, in, l)
    BY <1>1, <1>2, <2>1, <2>2, <2>3, <2>4, <2>5, Pressed
  <2> QED BY <1>1, <2>1, <2>6 DEF in, l, x
<1>5. CASE ~Connect(c) /\ ~PressReady(c)
  <2>1. \/ up'[c] = u
        \/ \E m \in UpMessage : ~Asks(m) /\ m.t # "ready" /\ up'[c] = u \o <<m>>
    BY <1>5, ClientSends
  <2>2. x.view = k.view /\ x.conn = k.conn /\ x.readies = k.readies /\ x.outstanding = k.outstanding
    BY <1>1, <1>5
  <2> HIDE DEF in, l, k, x, u, PlayerOK, Asks
  <2>3. PlayerOK(c, u, down[c], x, in, l)
    BY <1>2, <2>2, SamePlayer
  <2>4. PlayerOK(c, up'[c], down[c], x, in, l)
    BY <1>2, <2>1, <2>3, OthersAsked
  <2> QED BY <1>1, <2>4 DEF in, l, x
<1> QED BY <1>3, <1>4, <1>5

LEMMA ReadyStep ==
  TypeOK /\ MembersDistinct /\ ReadyInv /\ MayLeave = {} /\ [Next]_vars => ReadyInv'
<1> SUFFICES ASSUME TypeOK, MembersDistinct, ReadyInv, MayLeave = {}, [Next]_vars PROVE ReadyInv'
  OBVIOUS
<1>1. CASE FlushStep
  BY <1>1, MarksFlushed
<1>2. ASSUME NEW c \in Clients, ServerMessage(c) PROVE ReadyInv'
  BY <1>2, MarksTaken
<1>3. ASSUME NEW c \in Clients, ServerDisconnect(c) PROVE ReadyInv'
  BY <1>3, MarksClosed
<1>4. ASSUME NEW c \in Clients, ClientAction(c) PROVE ReadyInv'
  <2> DEFINE In(d) == d \in Elems(srv.members)
             l(d) == Mark(LobbyData, d)
  <2>1. PlayerOK(c, up'[c], down'[c], cl'[c], In(c), l(c))
    BY <1>4, MarksSeen, MarksMoved
  <2>2. \A d \in Clients \ {c} : cl'[d] = cl[d] /\ down'[d] = down[d] /\ up'[d] = up[d]
    BY <1>4, ClientStepEffects, ClientKeeps
  <2>3. \A d \in Clients : PlayerOK(d, up[d], down[d], cl[d], In(d), l(d))
    BY DEF ReadyInv
  <2> HIDE DEF PlayerOK, Mark, LobbyData
  <2>4. \A d \in Clients : PlayerOK(d, up'[d], down'[d], cl'[d], In(d), l(d))
    BY <2>1, <2>2, <2>3
  <2>5. CASE srv' = srv
    <3>1. SeatsTaken'
      BY <2>5 DEF ReadyInv, SeatsTaken
    <3>2. \A d : Mark(LobbyData', d) = l(d)
      BY <2>5, LobbyIs, MarkStays
    <3> HIDE DEF l
    <3> QED BY <2>4, <2>5, <3>1, <3>2, ReadyNext
  <2>6. CASE srv' = ResetForRematch(srv)
    <3>1. srv'.members = srv.members /\ srv'.match = ClearReady(srv.match)
          /\ srv.match \in MatchData /\ srv.members \in Seq(Clients)
      BY <2>6 DEF ResetForRematch, TypeOK, Server
    <3>2. \A s \in Side : srv'.match.ready[s] = -1
      BY <3>1 DEF ClearReady, MatchData
    <3>3. SeatsTaken'
      BY <3>2 DEF SeatsTaken
    <3>4. \A d : Mark(LobbyData', d) = -1
      BY <3>1, <3>2, LobbyIs, MarkIs
    <3>5. \A d \in Clients : PlayerOK(d, up'[d], down'[d], cl'[d], In(d), -1)
      BY <2>4, MarkLost
    <3> QED BY <3>1, <3>3, <3>4, <3>5, ReadyNext
  <2> QED BY <1>4, <2>5, <2>6, ClientEffects
<1>5. CASE UNCHANGED vars
  <2> HIDE DEF PlayerOK, Mark
  <2> QED BY <1>5 DEF vars, ReadyInv, SeatsTaken, LobbyData
<1> QED BY <1>1, <1>2, <1>3, <1>4, <1>5 DEF Next

(* A seat that is marked ready is taken, and the mark is the last Ready of  *)
(* the player on it, however the messages of any number of clients overtake *)
(* each other - as long as no member closes its connection: the marks stay  *)
(* with their seats then, and go over to whoever moves up.                  *)
THEOREM ReadyIsOwn == ASSUME MayLeave = {} PROVE Spec => []SeatReadyIsOwn
<1>1. TypeOK /\ MembersDistinct /\ ReadyInv => SeatReadyIsOwn
  <2> SUFFICES ASSUME TypeOK, MembersDistinct, ReadyInv, NEW s \in Side, srv.match.ready[s] # -1
               PROVE  s < Len(srv.members) /\ srv.match.ready[s] = cl[srv.members[s + 1]].readies
    BY DEF SeatReadyIsOwn
  <2> DEFINE c == srv.members[s + 1]
  <2>1. srv.members \in Seq(Clients) /\ s < Len(srv.members) /\ s + 1 \in DOMAIN srv.members
    BY DEF TypeOK, Server, ReadyInv, SeatsTaken, Side
  <2>2. c \in Clients /\ c \in Elems(srv.members)
    BY <2>1 DEF Elems
  <2>3. \A i \in DOMAIN srv.members : srv.members[i] = c => i = s + 1
    BY <2>1 DEF MembersDistinct
  <2> HIDE DEF c
  <2>4. SideOf(srv.members, c) = s
    BY <2>1, <2>3 DEF SideOf, Side, c
  <2>5. Mark(LobbyData, c) = srv.match.ready[s]
    BY <2>1, <2>4, LobbyIs, MarkIs
  <2>6. Mark(LobbyData, c) \in {-1, cl[c].readies}
    <3>1. PlayerOK(c, up[c], down[c], cl[c], c \in Elems(srv.members), Mark(LobbyData, c))
      BY <2>2 DEF ReadyInv
    <3> HIDE DEF Mark, LobbyData, Elems
    <3> QED BY <3>1 DEF PlayerOK, MarksFollow
  <2> QED BY <2>1, <2>5, <2>6 DEF c
<1>2. TypeOK /\ MembersDistinct /\ ReadyInv /\ [Next]_vars => ReadyInv'
  BY ReadyStep
<1> QED BY <1>1, <1>2, ReadyInit, NobodySeatedTwice, TypeCorrect, MembersInit, MembersStep, PTL DEF Spec

-----------------------------------------------------------------------------
(* The life of a match                                                     *)

Has(msgs, t) == \E i \in DOMAIN msgs : msgs[i].t = t
Once(msgs, t) == \A i, j \in DOMAIN msgs : msgs[i].t = t /\ msgs[j].t = t => i = j

(* LOBBY_ALLREADY is on its way to a client.                                *)
Due(q) == Has(q, "allready")

(* The order in what a client sends: its choices, their Ready, and nothing  *)
(* of a match after it; PUNCH_READY before the report that it has loaded.   *)
Picks == {"setchara", "setenv", "setstage"}
Kinds == {"loaded", "reset", "ready", "punch_ready"}
SentInOrder(u) ==
    /\ Once(u, "loaded") /\ Once(u, "punch_ready") /\ ~Has(u, "results")
    /\ \A i, j \in DOMAIN u : u[i].t = "ready" /\ i < j => u[j].t \notin Kinds
    /\ \A i \in DOMAIN u : u[i].t \in Picks => \E j \in DOMAIN u : i < j /\ u[j].t = "ready"
    /\ \A i, j \in DOMAIN u : u[i].t = "loaded" /\ i < j => u[j].t # "punch_ready"

(* Where a client is on its way through the n-th match: its start is due,   *)
(* it loads, waits at the barrier, fights and is back in the menu.          *)
OnItsWay(k, u, q, n) ==
    /\ ~k.pending
    /\ Due(q) => k.phase = "menu" /\ k.start = n - 1 /\ k.arrived = n - 1
    /\ \A i \in DOMAIN q : q[i].t = "allready" => q[i].n = n
    /\ ~Due(q) => k.start = n /\ k.arrived \in {n - 1, n}
    /\ k.phase = "menu" => ~k.sentLoaded /\ ~k.synced /\ (~Due(q) => k.arrived = n)
    /\ k.phase # "menu" => n > 0 /\ k.battle = n
    /\ k.phase \in {"loading", "punching"} => k.arrived # n /\ ~k.sentLoaded /\ ~k.synced
    /\ k.phase = "waiting" => (k.sentLoaded <=> k.arrived = n) /\ (k.synced => k.arrived = n)
    /\ k.phase \in {"fight", "closing"} => k.arrived = n
    /\ Once(q, "allready") /\ Once(q, "synced")
    /\ Has(q, "synced") => k.phase = "waiting" /\ k.arrived = n /\ ~k.synced
    /\ Has(u, "loaded") => k.phase = "waiting" /\ k.arrived = n
    /\ Has(u, "reset") => k.phase = "menu" /\ ~Due(q) /\ n > 0
    /\ Has(u, "ready") => k.phase = "menu" /\ ~Due(q)

(* Its punch for the n-th match; flag is the server's for its seat.         *)
Punches(k, u, n, p2p, flag) ==
    /\ k.punched <= n
    /\ p2p => (k.punched = n <=> k.arrived = n \/ k.phase \in {"punching", "waiting"})
    /\ ~p2p => k.phase # "punching"
    /\ Has(u, "punch_ready") \/ flag => p2p /\ k.punched = n /\ n > 0
    /\ Has(u, "punch_ready") => ~flag /\ (k.arrived # n \/ Has(u, "loaded"))

(* The server has not been told of the client's punch for the n-th match.   *)
Unheard(k, u, n) == k.punched # n \/ Has(u, "punch_ready")

(* The server does not know yet that the client has loaded the n-th match.  *)
Early(k, u, n) == k.arrived # n \/ Has(u, "loaded")

(* The client has been let through the barrier of the n-th match.           *)
Opened(k, q, n) ==
    \/ k.synced \/ Has(q, "synced") \/ k.phase \in {"fight", "closing"}
    \/ k.phase = "menu" /\ ~Due(q) /\ n > 0

(* It is back in the menu, and its reset has been handled.                  *)
Rest(k, u, q) == k.phase = "menu" /\ ~Due(q) /\ ~Has(u, "reset")

(* A PUNCH_GO that counts: heard in a punch or still under way to one.      *)
Go(k, q) ==
    \/ k.phase = "punching" /\ k.punchGo
    \/ \E i \in DOMAIN q : q[i].t = "punch_go"
                           /\ \A j \in DOMAIN q : q[j].t = "allready" => j < i

Agrees(data, x) == data.members = x.members /\ data.match = x.match

(* The client starts, or has started, the n-th match from the lobby x.      *)
Briefed(k, q, n, x) ==
    /\ \A i \in DOMAIN q : q[i].t = "allready" =>
        IF i = 1 THEN k.view = x
        ELSE i - 1 \in DOMAIN q /\ q[i - 1].t = "update" /\ q[i - 1].data = x
    /\ k.phase # "menu" => k.setup.custom = x.custom
    /\ k.phase \in {"waiting", "fight"} => Agrees(k.setup, x)
    /\ k.phase \in {"loading", "punching"} => Agrees(k.view, x)
    /\ k.arrived # n => \A j \in DOMAIN q :
        (q[j].t = "update" /\ \A i \in DOMAIN q : q[i].t = "allready" => i < j)
            => Agrees(q[j].data, x)

Flag(s, c) == SideOf(s.members, c) # -1 /\ s.punch[SideOf(s.members, c)]
SomeEarly(s, K, U) == \E c \in Clients : Early(K[c], U[c], s.starts)
Held(k, u) == k.phase \in {"waiting", "fight", "closing"} \/ Has(u, "reset")

(* The invariant, of a server s and clients K that have sent U and are sent *)
(* Q: where everybody is, ...                                               *)
Ways(s, K, U, Q) == \A c \in Clients :
    /\ SentInOrder(U[c])
    /\ OnItsWay(K[c], U[c], Q[c], s.starts)
    /\ Punches(K[c], U[c], s.starts, s.mode.p2p, Flag(s, c))

(* ... that a flag stands for a player who waits for the other's punch, ... *)
Pairs(s, K, U, Q) ==
    /\ s.mode.p2p => \A c, d \in Clients : c # d =>
        (Flag(s, c) <=> ~Unheard(K[c], U[c], s.starts) /\ Unheard(K[d], U[d], s.starts))
    /\ \A i \in Side : s.punch[i] => i < Len(s.members)
    /\ \A c, d \in Clients : Go(K[c], Q[c]) => K[d].punched = s.starts

(* ... that nobody is let through while somebody is early, ...              *)
Barrier(s, K, U, Q) ==
    /\ SomeEarly(s, K, U) => ~s.synced /\ \A d \in Clients : ~Opened(K[d], Q[d], s.starts)
    /\ s.synced => \A d \in Clients : K[d].phase = "waiting" /\ ~Opened(K[d], Q[d], s.starts)
    /\ \A d \in s.loaded : ~Early(K[d], U[d], s.starts) /\ s.starts > 0 /\ Held(K[d], U[d])

(* ... whose Ready marks there are: those of a match that starts, until the *)
(* first reset after it, and then those of players who are back, ...        *)
Marks(s, K, U, Q) ==
    /\ SomeEarly(s, K, U) => IsAllReady(s.match)
    /\ \A i \in Side : s.match.ready[i] # -1 =>
        \/ Rest(K[s.members[i + 1]], U[s.members[i + 1]], Q[s.members[i + 1]])
        \/ IsAllReady(s.match) /\ \A d \in Clients : ~Rest(K[d], U[d], Q[d])
    /\ s.allReady => s.dirty /\ IsAllReady(s.match) /\ \A d \in Clients : Rest(K[d], U[d], Q[d])
    /\ s.starts > 0 => Len(s.members) >= 2

(* ... and the lobby the last match was started from.                       *)
Brief(s, K, U, Q, x) ==
    /\ \A c \in Clients : Briefed(K[c], Q[c], s.starts, x)
    /\ IsAllReady(x.match) /\ Len(x.members) >= 2
    /\ SomeEarly(s, K, U) => Agrees(s, x)

LifeInv ==
    /\ Ways(srv, cl, up, down) /\ Pairs(srv, cl, up, down)
    /\ Barrier(srv, cl, up, down) /\ Marks(srv, cl, up, down)
    /\ srv.starts > 0 => \E x \in Lobby : Brief(srv, cl, up, down, x)

-----------------------------------------------------------------------------
(* Queues *)

LEMMA UpTaken ==
  ASSUME NEW u \in Seq(UpMessage), u # <<>>, SentInOrder(u)
  PROVE  LET w == Tail(u) IN LET m == Head(u) IN
         /\ SentInOrder(w) /\ m.t # "results"
         /\ \A t \in Kinds : (Has(w, t) => Has(u, t)) /\ (Has(u, t) => Has(w, t) \/ m.t = t)
         /\ m.t \in Kinds => Has(u, m.t)
         /\ m.t = "loaded" => ~Has(w, "loaded") /\ ~Has(w, "punch_ready")
         /\ m.t = "punch_ready" => ~Has(w, "punch_ready")
         /\ m.t = "ready" => \A t \in Kinds : ~Has(w, t)
         /\ m.t \in Picks => Has(u, "ready")
<1> DEFINE w == Tail(u)
           m == Head(u)
<1>1. /\ DOMAIN u \subseteq Nat /\ 1 \in DOMAIN u /\ m = u[1] /\ DOMAIN w \subseteq Nat
      /\ \A i \in DOMAIN w : i \in Nat /\ i >= 1 /\ i + 1 \in DOMAIN u /\ w[i] = u[i + 1]
      /\ \A i \in DOMAIN u : i \in Nat /\ (i # 1 => i - 1 \in DOMAIN w /\ w[i - 1] = u[i] /\ i > 1)
  BY TailIs
<1> HIDE DEF w, m
<1>2. \A t : Has(w, t) => Has(u, t)
  BY <1>1 DEF Has
<1>3. \A t : Has(u, t) => Has(w, t) \/ m.t = t
  BY <1>1 DEF Has
<1>4. Has(u, m.t)
  BY <1>1 DEF Has
<1>5. ASSUME NEW t, Once(u, t)
      PROVE  Once(w, t) /\ (m.t = t => ~Has(w, t))
  <2>1. ASSUME NEW i \in DOMAIN w, NEW j \in DOMAIN w, w[i].t = t, w[j].t = t PROVE i = j
    <3>1. i + 1 = j + 1
      BY <1>1, <1>5, <2>1 DEF Once
    <3> QED BY <1>1, <3>1
  <2>2. ASSUME NEW i \in DOMAIN w, w[i].t = t, m.t = t PROVE FALSE
    <3>1. i + 1 = 1
      BY <1>1, <1>5, <2>2 DEF Once
    <3> QED BY <1>1, <3>1
  <2> QED BY <2>1, <2>2 DEF Once, Has
<1>6. ASSUME NEW i \in DOMAIN w, NEW j \in DOMAIN w, i < j
      PROVE  /\ w[i].t = "ready" => w[j].t \notin Kinds
             /\ w[i].t = "loaded" => w[j].t # "punch_ready"
  <2>1. i + 1 \in DOMAIN u /\ j + 1 \in DOMAIN u /\ i + 1 < j + 1 /\ w[i] = u[i + 1] /\ w[j] = u[j + 1]
    BY <1>1, <1>6
  <2> QED BY <2>1 DEF SentInOrder
<1>7. ASSUME NEW j \in DOMAIN w
      PROVE  /\ m.t = "ready" => w[j].t \notin Kinds
             /\ m.t = "loaded" => w[j].t # "punch_ready"
  <2>1. j + 1 \in DOMAIN u /\ 1 < j + 1 /\ w[j] = u[j + 1] /\ 1 \in DOMAIN u /\ m = u[1]
    BY <1>1
  <2> QED BY <2>1 DEF SentInOrder
<1>8. ASSUME NEW i \in DOMAIN w, w[i].t \in Picks
      PROVE  \E j \in DOMAIN w : i < j /\ w[j].t = "ready"
  <2>1. i + 1 \in DOMAIN u /\ w[i] = u[i + 1] /\ i >= 1 /\ i \in Nat
    BY <1>1
  <2>2. PICK j \in DOMAIN u : i + 1 < j /\ u[j].t = "ready"
    BY <1>8, <2>1 DEF SentInOrder
  <2>3. j - 1 \in DOMAIN w /\ w[j - 1] = u[j] /\ i < j - 1
    BY <1>1, <2>1, <2>2
  <2> QED BY <2>2, <2>3
<1>9. m.t \in Picks => Has(u, "ready")
  BY <1>1 DEF SentInOrder, Has
<1>10. m.t # "results" /\ ~Has(w, "results")
  BY <1>2, <1>4 DEF SentInOrder
<1>11. SentInOrder(w)
  BY <1>5, <1>6, <1>8, <1>10 DEF SentInOrder
<1>12. m.t = "loaded" => ~Has(w, "loaded") /\ ~Has(w, "punch_ready")
  BY <1>5, <1>7 DEF SentInOrder, Has
<1>13. m.t = "punch_ready" => ~Has(w, "punch_ready")
  BY <1>5 DEF SentInOrder
<1>14. m.t = "ready" => \A t \in Kinds : ~Has(w, t)
  BY <1>7 DEF Has
<1> HIDE DEF SentInOrder, Has
<1> QED BY <1>2, <1>3, <1>4, <1>9, <1>10, <1>11, <1>12, <1>13, <1>14 DEF w, m

(* One message is sent, at a time when it keeps the order.                  *)
LEMMA UpSent ==
  ASSUME NEW u \in Seq(UpMessage), SentInOrder(u), NEW m \in UpMessage,
         m.t \notin Picks \cup {"ready", "results"},
         Has(u, "ready") => m.t \notin Kinds,
         m.t \in {"loaded", "punch_ready"} => ~Has(u, m.t),
         m.t = "punch_ready" => ~Has(u, "loaded")
  PROVE  LET w == u \o <<m>> IN
         SentInOrder(w) /\ \A t \in Kinds : Has(w, t) <=> Has(u, t) \/ m.t = t
<1> DEFINE w == u \o <<m>>
<1>1. /\ \A i \in DOMAIN u : i \in DOMAIN w /\ w[i] = u[i]
      /\ \A i \in DOMAIN w : i \notin DOMAIN u => i = Len(u) + 1 /\ w[i] = m
      /\ DOMAIN u = 1..Len(u) /\ Len(u) \in Nat /\ Len(u) + 1 \in DOMAIN w /\ w[Len(u) + 1] = m
  BY OneMore
<1> HIDE DEF w
<1>2. \A t : Has(w, t) <=> Has(u, t) \/ m.t = t
  BY <1>1 DEF Has
<1>3. ASSUME NEW t, Once(u, t), m.t = t => ~Has(u, t)
      PROVE  Once(w, t)
  <2> SUFFICES ASSUME NEW i \in DOMAIN w, NEW j \in DOMAIN w, w[i].t = t, w[j].t = t PROVE i = j
    BY DEF Once
  <2>1. i \in DOMAIN u /\ j \in DOMAIN u => i = j
    BY <1>1, <1>3 DEF Once
  <2>2. i \notin DOMAIN u /\ j \notin DOMAIN u => i = j
    BY <1>1
  <2>3. i \in DOMAIN u /\ j \notin DOMAIN u => FALSE
    BY <1>1, <1>3 DEF Has
  <2>4. i \notin DOMAIN u /\ j \in DOMAIN u => FALSE
    BY <1>1, <1>3 DEF Has
  <2> QED BY <2>1, <2>2, <2>3, <2>4
<1>4. ASSUME NEW i \in DOMAIN w, NEW j \in DOMAIN w, i < j
      PROVE  /\ w[i].t = "ready" => w[j].t \notin Kinds
             /\ w[i].t = "loaded" => w[j].t # "punch_ready"
  <2>1. i \in DOMAIN u
    BY <1>1, <1>4
  <2>2. CASE j \in DOMAIN u
    BY <1>1, <1>4, <2>1, <2>2 DEF SentInOrder
  <2>3. CASE j \notin DOMAIN u
    BY <1>1, <2>1, <2>3 DEF Has
  <2> QED BY <2>2, <2>3
<1>5. ASSUME NEW i \in DOMAIN w, w[i].t \in Picks
      PROVE  \E j \in DOMAIN w : i < j /\ w[j].t = "ready"
  <2>1. i \in DOMAIN u /\ u[i].t \in Picks
    BY <1>1, <1>5
  <2> QED BY <1>1, <2>1 DEF SentInOrder
<1>6. SentInOrder(w)
  BY <1>2, <1>3, <1>4, <1>5 DEF SentInOrder
<1> HIDE DEF SentInOrder, Has
<1> QED BY <1>2, <1>6 DEF w

(* The choices and their Ready, as ReadySent has them, in order.            *)
LEMMA ChoicesSent ==
  ASSUME NEW u \in Seq(UpMessage), SentInOrder(u), ~Has(u, "ready"),
         NEW q \in Seq(UpMessage), NEW z \in DOMAIN q, q[z].t = "ready",
         \A i \in DOMAIN q : i # z => i < z /\ q[i].t \in Picks
  PROVE  LET w == u \o q IN
         SentInOrder(w) /\ \A t \in Kinds : Has(w, t) <=> Has(u, t) \/ t = "ready"
<1> DEFINE w == u \o q
<1>1. /\ DOMAIN u = 1..Len(u) /\ Len(u) \in Nat /\ DOMAIN q \subseteq Nat \ {0}
      /\ \A i \in DOMAIN u : i \in DOMAIN w /\ w[i] = u[i]
      /\ \A i \in DOMAIN q : i + Len(u) \in DOMAIN w /\ w[i + Len(u)] = q[i]
      /\ \A i \in DOMAIN w : i \in Nat /\ (i \notin DOMAIN u => /\ i - Len(u) \in DOMAIN q
                                                                /\ w[i] = q[i - Len(u)] /\ i > Len(u))
  BY ConcatIs
<1> HIDE DEF w
<1> DEFINE y == z + Len(u)
<1>2. y \in DOMAIN w /\ y \in Nat /\ y > Len(u) /\ w[y].t = "ready"
  BY <1>1
<1>3. \A i \in DOMAIN w : i \notin DOMAIN u /\ i # y => i < y /\ w[i].t \in Picks
  BY <1>1
<1> HIDE DEF y
<1>4. \A t \in Kinds \cup {"results"} : Has(w, t) <=> Has(u, t) \/ t = "ready"
  <2>1. \A t : Has(u, t) => Has(w, t)
    BY <1>1 DEF Has
  <2>2. Has(w, "ready")
    BY <1>2 DEF Has
  <2>3. ASSUME NEW t \in Kinds \cup {"results"}, Has(w, t), t # "ready" PROVE Has(u, t)
    <3>1. PICK i \in DOMAIN w : w[i].t = t
      BY <2>3 DEF Has
    <3>2. i \in DOMAIN u
      BY <1>2, <1>3, <2>3, <3>1 DEF Kinds, Picks
    <3> QED BY <1>1, <3>1, <3>2 DEF Has
  <2> QED BY <2>1, <2>2, <2>3
<1>5. ASSUME NEW t \in {"loaded", "punch_ready"} PROVE Once(w, t)
  <2>1. \A i \in DOMAIN w : w[i].t = t => i \in DOMAIN u /\ u[i].t = t
    BY <1>1, <1>2, <1>3 DEF Picks
  <2>2. Once(u, t)
    BY DEF SentInOrder
  <2> QED BY <2>1, <2>2 DEF Once
<1>6. ASSUME NEW i \in DOMAIN w, NEW j \in DOMAIN w, i < j
      PROVE  /\ w[i].t = "ready" => w[j].t \notin Kinds
             /\ w[i].t = "loaded" => w[j].t # "punch_ready"
  <2>1. w[i].t # "ready"
    <3>1. CASE i \in DOMAIN u
      BY <1>1, <3>1 DEF Has
    <3>2. CASE i \notin DOMAIN u /\ i # y
      BY <1>3, <3>2 DEF Picks
    <3>3. CASE i = y
      <4>1. j \notin DOMAIN u /\ j # y /\ j \in Nat /\ y \in Nat /\ y < j
        BY <1>1, <1>2, <1>6, <3>3
      <4> QED BY <1>3, <4>1
    <3> QED BY <3>1, <3>2, <3>3
  <2>2. w[i].t = "loaded" => w[j].t # "punch_ready"
    <3>1. CASE j \in DOMAIN u
      <4>1. i \in DOMAIN u
        BY <1>1, <1>6, <3>1
      <4> QED BY <1>1, <1>6, <3>1, <4>1 DEF SentInOrder
    <3>2. CASE j \notin DOMAIN u
      BY <1>2, <1>3, <3>2 DEF Picks
    <3> QED BY <3>1, <3>2
  <2> QED BY <2>1, <2>2
<1>7. ASSUME NEW i \in DOMAIN w, w[i].t \in Picks
      PROVE  \E j \in DOMAIN w : i < j /\ w[j].t = "ready"
  <2>1. CASE i \in DOMAIN u
    BY <1>1, <1>2, <2>1
  <2>2. CASE i \notin DOMAIN u
    <3>1. i # y
      BY <1>2, <1>7 DEF Picks
    <3> QED BY <1>2, <1>3, <2>2, <3>1
  <2> QED BY <2>1, <2>2
<1>8. ~Has(w, "results")
  BY <1>4 DEF SentInOrder
<1>9. SentInOrder(w)
  BY <1>5, <1>6, <1>7, <1>8 DEF SentInOrder
<1> HIDE DEF SentInOrder, Has
<1> QED BY <1>4, <1>9 DEF w

LEMMA DownTaken ==
  ASSUME NEW q \in Seq(DownMessage), q # <<>>
  PROVE  LET w == Tail(q) IN LET m == Head(q) IN
         /\ \A t : (Has(w, t) => Has(q, t)) /\ (Has(q, t) => Has(w, t) \/ m.t = t)
         /\ Has(q, m.t)
         /\ \A t : Once(q, t) => Once(w, t) /\ (m.t = t => ~Has(w, t))
         /\ \A n : (\A i \in DOMAIN q : q[i].t = "allready" => q[i].n = n)
                   => /\ \A i \in DOMAIN w : w[i].t = "allready" => w[i].n = n
                      /\ m.t = "allready" => m.n = n
<1> DEFINE w == Tail(q)
           m == Head(q)
<1>1. /\ DOMAIN q \subseteq Nat /\ 1 \in DOMAIN q /\ m = q[1] /\ DOMAIN w \subseteq Nat
      /\ \A i \in DOMAIN w : i \in Nat /\ i >= 1 /\ i + 1 \in DOMAIN q /\ w[i] = q[i + 1]
      /\ \A i \in DOMAIN q : i \in Nat /\ (i # 1 => i - 1 \in DOMAIN w /\ w[i - 1] = q[i] /\ i > 1)
  BY TailIs
<1> HIDE DEF w, m
<1>2. \A t : Has(w, t) => Has(q, t)
  BY <1>1 DEF Has
<1>3. \A t : Has(q, t) => Has(w, t) \/ m.t = t
  BY <1>1 DEF Has
<1>4. Has(q, m.t)
  BY <1>1 DEF Has
<1>5. ASSUME NEW t, Once(q, t)
      PROVE  Once(w, t) /\ (m.t = t => ~Has(w, t))
  <2>1. ASSUME NEW i \in DOMAIN w, NEW j \in DOMAIN w, w[i].t = t, w[j].t = t PROVE i = j
    <3>1. i + 1 = j + 1
      BY <1>1, <1>5, <2>1 DEF Once
    <3> QED BY <1>1, <3>1
  <2>2. ASSUME NEW i \in DOMAIN w, w[i].t = t, m.t = t PROVE FALSE
    <3>1. i + 1 = 1
      BY <1>1, <1>5, <2>2 DEF Once
    <3> QED BY <1>1, <3>1
  <2> QED BY <2>1, <2>2 DEF Once, Has
<1>6. ASSUME NEW n, \A i \in DOMAIN q : q[i].t = "allready" => q[i].n = n
      PROVE  /\ \A i \in DOMAIN w : w[i].t = "allready" => w[i].n = n
             /\ m.t = "allready" => m.n = n
  BY <1>1, <1>6
<1> HIDE DEF Has, Once
<1> QED BY <1>2, <1>3, <1>4, <1>5, <1>6 DEF w, m

LEMMA DownSent ==
  ASSUME NEW q \in Seq(DownMessage), NEW m \in DownMessage
  PROVE  LET w == q \o <<m>> IN
         /\ w \in Seq(DownMessage)
         /\ \A t : Has(w, t) <=> Has(q, t) \/ m.t = t
         /\ \A t : Once(q, t) /\ (m.t = t => ~Has(q, t)) => Once(w, t)
         /\ \A n : (/\ \A i \in DOMAIN q : q[i].t = "allready" => q[i].n = n
                    /\ m.t = "allready" => m.n = n)
                   => \A i \in DOMAIN w : w[i].t = "allready" => w[i].n = n
<1> DEFINE w == q \o <<m>>
<1>0. w \in Seq(DownMessage)
  OBVIOUS
<1>1. /\ \A i \in DOMAIN q : i \in DOMAIN w /\ w[i] = q[i]
      /\ \A i \in DOMAIN w : i \notin DOMAIN q => i = Len(q) + 1 /\ w[i] = m
      /\ DOMAIN q = 1..Len(q) /\ Len(q) \in Nat /\ Len(q) + 1 \in DOMAIN w /\ w[Len(q) + 1] = m
  BY OneMore
<1> HIDE DEF w
<1>2. \A t : Has(w, t) <=> Has(q, t) \/ m.t = t
  BY <1>1 DEF Has
<1>3. ASSUME NEW t, Once(q, t), m.t = t => ~Has(q, t)
      PROVE  Once(w, t)
  <2> SUFFICES ASSUME NEW i \in DOMAIN w, NEW j \in DOMAIN w, w[i].t = t, w[j].t = t PROVE i = j
    BY DEF Once
  <2>1. i \in DOMAIN q /\ j \in DOMAIN q => i = j
    BY <1>1, <1>3 DEF Once
  <2>2. i \notin DOMAIN q /\ j \notin DOMAIN q => i = j
    BY <1>1
  <2>3. i \in DOMAIN q /\ j \notin DOMAIN q => FALSE
    BY <1>1, <1>3 DEF Has
  <2>4. i \notin DOMAIN q /\ j \in DOMAIN q => FALSE
    BY <1>1, <1>3 DEF Has
  <2> QED BY <2>1, <2>2, <2>3, <2>4
<1>4. ASSUME NEW n, \A i \in DOMAIN q : q[i].t = "allready" => q[i].n = n,
             m.t = "allready" => m.n = n
      PROVE  \A i \in DOMAIN w : w[i].t = "allready" => w[i].n = n
  BY <1>1, <1>4
<1> HIDE DEF Has, Once
<1> QED BY <1>0, <1>2, <1>3, <1>4 DEF w

(* A client polls anything but LOBBY_ALLREADY.                              *)
LEMMA BriefTaken ==
  ASSUME NEW q \in Seq(DownMessage), q # <<>>, NEW k, NEW j, NEW n, NEW x, Briefed(k, q, n, x),
         Head(q).t # "allready",
         j.view = IF Head(q).t = "update" THEN Head(q).data ELSE k.view,
         j.phase = k.phase, j.setup = k.setup, j.arrived = k.arrived,
         Due(q) => k.phase = "menu",
         k.phase \in {"loading", "punching"} => k.arrived # n
  PROVE  Briefed(j, Tail(q), n, x)
<1> DEFINE w == Tail(q)
           m == Head(q)
<1>1. /\ DOMAIN q \subseteq Nat /\ 1 \in DOMAIN q /\ m = q[1] /\ DOMAIN w \subseteq Nat
      /\ \A i \in DOMAIN w : i \in Nat /\ i >= 1 /\ i + 1 \in DOMAIN q /\ w[i] = q[i + 1]
      /\ \A i \in DOMAIN q : i \in Nat /\ (i # 1 => i - 1 \in DOMAIN w /\ w[i - 1] = q[i] /\ i > 1)
  BY TailIs
<1>0. m.t # "allready" /\ j.view = IF m.t = "update" THEN m.data ELSE k.view
  OBVIOUS
<1> HIDE DEF w, m
<1>2. ASSUME NEW i \in DOMAIN w, w[i].t = "allready"
      PROVE  IF i = 1 THEN j.view = x
             ELSE i - 1 \in DOMAIN w /\ w[i - 1].t = "update" /\ w[i - 1].data = x
  <2>1. i \in Nat /\ i >= 1 /\ i + 1 \in DOMAIN q /\ w[i] = q[i + 1] /\ i + 1 # 1 /\ (i + 1) - 1 = i
    BY <1>1
  <2>2. i \in DOMAIN q /\ q[i].t = "update" /\ q[i].data = x
    BY <1>2, <2>1 DEF Briefed
  <2>3. CASE i = 1
    BY <1>0, <1>1, <2>2, <2>3
  <2>4. CASE i # 1
    BY <1>1, <2>2, <2>4
  <2> QED BY <2>3, <2>4
<1>3. k.phase \in {"loading", "punching"} => Agrees(j.view, x)
  <2> SUFFICES ASSUME k.phase \in {"loading", "punching"} PROVE Agrees(j.view, x)
    OBVIOUS
  <2>1. Agrees(k.view, x)
    BY DEF Briefed
  <2>2. CASE m.t = "update"
    <3>1. \A i \in DOMAIN q : q[i].t # "allready"
      BY DEF Due, Has
    <3>2. Agrees(m.data, x)
      BY <1>1, <2>2, <3>1 DEF Briefed
    <3> QED BY <1>0, <2>2, <3>2
  <2>3. CASE m.t # "update"
    BY <1>0, <2>1, <2>3
  <2> QED BY <2>2, <2>3
<1>4. ASSUME k.arrived # n, NEW i \in DOMAIN w, w[i].t = "update",
             \A h \in DOMAIN w : w[h].t = "allready" => h < i
      PROVE  Agrees(w[i].data, x)
  <2>1. i + 1 \in DOMAIN q /\ w[i] = q[i + 1] /\ i \in Nat
    BY <1>1
  <2>2. ASSUME NEW h \in DOMAIN q, q[h].t = "allready" PROVE h < i + 1
    <3>1. h # 1
      BY <1>0, <1>1, <2>2
    <3>2. h - 1 \in DOMAIN w /\ w[h - 1] = q[h] /\ h \in Nat
      BY <1>1, <3>1
    <3> QED BY <1>4, <2>1, <2>2, <3>2
  <2> QED BY <1>4, <2>1, <2>2 DEF Briefed
<1>5. k.phase # "menu" => k.setup.custom = x.custom
  BY DEF Briefed
<1>6. k.phase \in {"waiting", "fight"} => Agrees(k.setup, x)
  BY DEF Briefed
<1> HIDE DEF Agrees
<1> QED BY <1>2, <1>3, <1>4, <1>5, <1>6 DEF Briefed, w

(* LOBBY_ALLREADY comes right behind the lobby it starts.                   *)
LEMMA BriefStarts ==
  ASSUME NEW q \in Seq(DownMessage), q # <<>>, NEW k, NEW n, NEW x, Briefed(k, q, n, x),
         Head(q).t = "allready", Once(q, "allready")
  PROVE  /\ k.view = x
         /\ k.arrived # n => \A i \in DOMAIN Tail(q) : Tail(q)[i].t = "update" => Agrees(Tail(q)[i].data, x)
         /\ ~Due(Tail(q))
<1> DEFINE w == Tail(q)
           m == Head(q)
<1>1. /\ DOMAIN q \subseteq Nat /\ 1 \in DOMAIN q /\ m = q[1] /\ DOMAIN w \subseteq Nat
      /\ \A i \in DOMAIN w : i \in Nat /\ i >= 1 /\ i + 1 \in DOMAIN q /\ w[i] = q[i + 1]
  BY TailIs
<1>2. m.t = "allready" /\ ~Has(w, "allready")
  BY DownTaken
<1> HIDE DEF w, m
<1>3. k.view = x
  BY <1>1, <1>2 DEF Briefed
<1>4. ASSUME k.arrived # n, NEW i \in DOMAIN w, w[i].t = "update" PROVE Agrees(w[i].data, x)
  <2>1. i + 1 \in DOMAIN q /\ w[i] = q[i + 1] /\ i \in Nat /\ 1 < i + 1
    BY <1>1
  <2>2. \A h \in DOMAIN q : q[h].t = "allready" => h = 1
    BY <1>1, <1>2 DEF Once
  <2> QED BY <1>4, <2>1, <2>2 DEF Briefed
<1> QED BY <1>2, <1>3, <1>4 DEF w, Due

(* Data that agrees with a start under way is sent, or no data.             *)
LEMMA BriefSent ==
  ASSUME NEW q \in Seq(DownMessage), NEW m \in DownMessage, NEW k, NEW n, NEW x, Briefed(k, q, n, x),
         m.t # "allready", m.t = "update" /\ k.arrived # n => Agrees(m.data, x)
  PROVE  Briefed(k, q \o <<m>>, n, x)
<1> DEFINE w == q \o <<m>>
<1>1. /\ \A i \in DOMAIN q : i \in DOMAIN w /\ w[i] = q[i]
      /\ \A i \in DOMAIN w : i \notin DOMAIN q => i = Len(q) + 1 /\ w[i] = m
      /\ DOMAIN q = 1..Len(q) /\ Len(q) \in Nat
  BY OneMore
<1> HIDE DEF w
<1>2. ASSUME NEW i \in DOMAIN w, w[i].t = "allready"
      PROVE  IF i = 1 THEN k.view = x
             ELSE i - 1 \in DOMAIN w /\ w[i - 1].t = "update" /\ w[i - 1].data = x
  <2>1. i \in DOMAIN q /\ q[i].t = "allready"
    BY <1>1, <1>2
  <2> QED BY ZenonT(60), <1>1, <2>1 DEF Briefed
<1>3. ASSUME k.arrived # n, NEW i \in DOMAIN w, w[i].t = "update",
             \A h \in DOMAIN w : w[h].t = "allready" => h < i
      PROVE  Agrees(w[i].data, x)
  <2>1. CASE i \in DOMAIN q
    <3>1. \A h \in DOMAIN q : q[h].t = "allready" => h < i
      BY <1>1, <1>3
    <3> QED BY <1>1, <1>3, <2>1, <3>1 DEF Briefed
  <2>2. CASE i \notin DOMAIN q
    BY <1>1, <1>3, <2>2
  <2> QED BY <2>1, <2>2
<1> HIDE DEF Agrees
<1> QED BY <1>2, <1>3 DEF Briefed, w

LEMMA GoTaken ==
  ASSUME NEW q \in Seq(DownMessage), q # <<>>, NEW k, NEW j, Go(j, Tail(q)),
         Head(q).t # "punch_go" => j.punchGo = k.punchGo,
         j.phase = k.phase \/ j.phase \in {"menu", "loading"},
         k.phase # "menu" => ~Due(q)
  PROVE  Go(k, q)
<1> DEFINE w == Tail(q)
           m == Head(q)
<1>1. /\ DOMAIN q \subseteq Nat /\ 1 \in DOMAIN q /\ m = q[1] /\ DOMAIN w \subseteq Nat
      /\ \A i \in DOMAIN w : i \in Nat /\ i >= 1 /\ i + 1 \in DOMAIN q /\ w[i] = q[i + 1]
      /\ \A i \in DOMAIN q : i \in Nat /\ (i # 1 => i - 1 \in DOMAIN w /\ w[i - 1] = q[i] /\ i > 1)
  BY TailIs
<1>0. (m.t # "punch_go" => j.punchGo = k.punchGo) /\ Go(j, w)
  OBVIOUS
<1> HIDE DEF w, m
<1>2. CASE j.phase = "punching" /\ j.punchGo
  <2>1. CASE m.t # "punch_go"
    BY <1>0, <1>2, <2>1 DEF Go
  <2>2. CASE m.t = "punch_go"
    <3>1. k.phase = "punching"
      BY <1>2
    <3>2. \A i \in DOMAIN q : q[i].t # "allready"
      BY <3>1 DEF Due, Has
    <3> QED BY <1>1, <2>2, <3>2 DEF Go
  <2> QED BY <2>1, <2>2
<1>3. CASE \E i \in DOMAIN w : w[i].t = "punch_go"
                               /\ \A h \in DOMAIN w : w[h].t = "allready" => h < i
  <2>1. PICK i \in DOMAIN w : w[i].t = "punch_go"
                               /\ \A h \in DOMAIN w : w[h].t = "allready" => h < i
    BY <1>3
  <2>2. i + 1 \in DOMAIN q /\ q[i + 1].t = "punch_go" /\ i \in Nat /\ i >= 1
    BY <1>1, <2>1
  <2>3. ASSUME NEW h \in DOMAIN q, q[h].t = "allready" PROVE h < i + 1
    <3>1. CASE h = 1
      BY <2>2, <3>1
    <3>2. CASE h # 1
      <4>1. h - 1 \in DOMAIN w /\ w[h - 1] = q[h] /\ h \in Nat
        BY <1>1, <3>2
      <4> QED BY <2>1, <2>2, <2>3, <4>1
    <3> QED BY <3>1, <3>2
  <2> QED BY <2>2, <2>3 DEF Go
<1> QED BY <1>0, <1>2, <1>3 DEF Go

LEMMA GoSent ==
  ASSUME NEW q \in Seq(DownMessage), NEW m \in DownMessage, NEW k, Go(k, q \o <<m>>)
  PROVE  /\ Go(k, q) \/ m.t = "punch_go"
         /\ m.t = "allready" => k.phase = "punching"
<1> DEFINE w == q \o <<m>>
<1>1. /\ \A i \in DOMAIN q : i \in DOMAIN w /\ w[i] = q[i]
      /\ \A i \in DOMAIN w : i \notin DOMAIN q => i = Len(q) + 1 /\ w[i] = m
      /\ DOMAIN q = 1..Len(q) /\ Len(q) \in Nat /\ Len(q) + 1 \in DOMAIN w /\ w[Len(q) + 1] = m
  BY OneMore
<1>0. Go(k, w)
  OBVIOUS
<1> HIDE DEF w
<1>2. CASE k.phase = "punching" /\ k.punchGo
  BY <1>2 DEF Go
<1>3. CASE ~(k.phase = "punching" /\ k.punchGo)
  <2>1. PICK i \in DOMAIN w : w[i].t = "punch_go"
                               /\ \A h \in DOMAIN w : w[h].t = "allready" => h < i
    BY <1>0, <1>3 DEF Go
  <2>2. m.t # "allready"
    BY <1>1, <2>1
  <2>3. CASE i \in DOMAIN q
    BY <1>1, <2>1, <2>2, <2>3 DEF Go
  <2>4. CASE i \notin DOMAIN q
    BY <1>1, <2>1, <2>2, <2>4
  <2> QED BY <2>2, <2>3, <2>4
<1> QED BY <1>2, <1>3

-----------------------------------------------------------------------------
(* Steps that keep the invariant                                            *)

(* What this argument needs of the room: two connections that stay.         *)
Duo ==
    /\ \A c, d, e \in Clients : c = d \/ d = e \/ c = e
    /\ MayLeave = {} /\ MayAbort = {} /\ MaxResults = 0

(* From k, u, q to j, w, r a client goes on, or what it has sent or been    *)
(* sent is taken up, and nobody else can tell, ...                          *)
Stays(k, u, q, j, w, r, n, p2p, flag) ==
    /\ SentInOrder(w) /\ OnItsWay(j, w, r, n) /\ Punches(j, w, n, p2p, flag)
    /\ Early(j, w, n) => Early(k, u, n)
    /\ Opened(j, r, n) => Opened(k, q, n)
    /\ Rest(j, w, r) <=> Rest(k, u, q)
    /\ k.phase = "waiting" /\ ~Opened(k, q, n) /\ ~Early(k, u, n) => j.phase = "waiting"
    /\ Held(k, u) /\ ~Early(k, u, n) => Held(j, w)

(* ... nor is there news of its punch.                                      *)
Moves(k, u, q, j, w, r, n, p2p, flag) ==
    /\ Stays(k, u, q, j, w, r, n, p2p, flag)
    /\ Go(j, r) => Go(k, q)
    /\ k.punched = n => j.punched = n
    /\ Unheard(j, w, n) <=> Unheard(k, u, n)

LEMMA StaysPut ==
  ASSUME NEW k, NEW u, NEW q, NEW n, NEW p2p, NEW flag,
         SentInOrder(u), OnItsWay(k, u, q, n), Punches(k, u, n, p2p, flag)
  PROVE  Moves(k, u, q, k, u, q, n, p2p, flag)
<1> HIDE DEF SentInOrder, OnItsWay, Punches, Early, Opened, Rest, Go, Unheard, Has, Held
<1> QED BY DEF Moves, Stays

LEMMA BarrierKept ==
  ASSUME NEW s, NEW K, NEW U, NEW Q, NEW z, NEW L, NEW V, NEW R, Barrier(s, K, U, Q),
         \A d \in Clients : Stays(K[d], U[d], Q[d], L[d], V[d], R[d], s.starts, s.mode.p2p, Flag(z, d)),
         z.starts = s.starts, z.synced = s.synced, z.loaded \subseteq s.loaded, s.loaded \subseteq Clients
  PROVE  Barrier(z, L, V, R)
<1> USE DEF Stays
<1> HIDE DEF SentInOrder, OnItsWay, Punches, Early, Opened, Rest, Go, Unheard, Has, Flag, Held
<1>1. SomeEarly(z, L, V) => SomeEarly(s, K, U)
  BY DEF SomeEarly
<1>2. \A d \in Clients : Opened(L[d], R[d], s.starts) => Opened(K[d], Q[d], s.starts)
  OBVIOUS
<1>3. z.synced => \A d \in Clients : L[d].phase = "waiting" /\ ~Opened(L[d], R[d], s.starts)
  <2> SUFFICES ASSUME z.synced, NEW d \in Clients
               PROVE  L[d].phase = "waiting" /\ ~Opened(L[d], R[d], s.starts)
    OBVIOUS
  <2>1. K[d].phase = "waiting" /\ ~Opened(K[d], Q[d], s.starts) /\ ~SomeEarly(s, K, U)
    BY DEF Barrier
  <2>2. ~Early(K[d], U[d], s.starts)
    BY <2>1 DEF SomeEarly
  <2> QED BY <2>1, <2>2
<1>4. ASSUME NEW d \in z.loaded
      PROVE  ~Early(L[d], V[d], s.starts) /\ s.starts > 0 /\ Held(L[d], V[d])
  <2>1. d \in Clients /\ ~Early(K[d], U[d], s.starts) /\ s.starts > 0 /\ Held(K[d], U[d])
    BY DEF Barrier
  <2> QED BY <2>1
<1> HIDE DEF Stays
<1> QED BY <1>1, <1>2, <1>3, <1>4 DEF Barrier

LEMMA MarksKept ==
  ASSUME NEW s, NEW K, NEW U, NEW Q, NEW z, NEW L, NEW V, NEW R, Marks(s, K, U, Q),
         \A d \in Clients : Stays(K[d], U[d], Q[d], L[d], V[d], R[d], s.starts, s.mode.p2p, Flag(z, d)),
         z.starts = s.starts, z.match.ready = s.match.ready, z.allReady = s.allReady,
         s.allReady /\ s.dirty => z.dirty,
         \A i \in Side : s.match.ready[i] # -1 => /\ z.members[i + 1] = s.members[i + 1]
                                                  /\ s.members[i + 1] \in Clients,
         Len(s.members) >= 2 => Len(z.members) >= 2
  PROVE  Marks(z, L, V, R)
<1> USE DEF Stays
<1> HIDE DEF SentInOrder, OnItsWay, Punches, Early, Opened, Rest, Go, Unheard, Has, Flag, Held
<1>1. SomeEarly(z, L, V) => SomeEarly(s, K, U)
  BY DEF SomeEarly
<1>2. \A d \in Clients : Rest(L[d], V[d], R[d]) <=> Rest(K[d], U[d], Q[d])
  OBVIOUS
<1>3. IsAllReady(z.match) <=> IsAllReady(s.match)
  BY DEF IsAllReady
<1> HIDE DEF Stays, IsAllReady
<1>4. ASSUME NEW i \in Side, z.match.ready[i] # -1
      PROVE  \/ Rest(L[z.members[i + 1]], V[z.members[i + 1]], R[z.members[i + 1]])
             \/ IsAllReady(z.match) /\ \A d \in Clients : ~Rest(L[d], V[d], R[d])
  <2>1. s.match.ready[i] # -1 /\ z.members[i + 1] = s.members[i + 1] /\ s.members[i + 1] \in Clients
    BY <1>4
  <2>2. \/ Rest(K[s.members[i + 1]], U[s.members[i + 1]], Q[s.members[i + 1]])
        \/ IsAllReady(s.match) /\ \A d \in Clients : ~Rest(K[d], U[d], Q[d])
    BY <2>1 DEF Marks
  <2> QED BY <1>2, <1>3, <2>1, <2>2
<1> QED BY <1>1, <1>2, <1>3, <1>4 DEF Marks

LEMMA PairsKept ==
  ASSUME NEW s, NEW K, NEW U, NEW Q, NEW z, NEW L, NEW V, NEW R, Pairs(s, K, U, Q),
         \A d \in Clients : Moves(K[d], U[d], Q[d], L[d], V[d], R[d], s.starts, s.mode.p2p, Flag(z, d)),
         z.starts = s.starts, z.mode = s.mode, \A d \in Clients : Flag(z, d) <=> Flag(s, d),
         z.punch = s.punch, Len(z.members) >= Len(s.members), Len(s.members) \in Nat, Len(z.members) \in Nat
  PROVE  Pairs(z, L, V, R)
<1> USE DEF Moves
<1> HIDE DEF Stays, Go, Unheard, Has, Flag
<1>1. z.mode.p2p => \A c, d \in Clients : c # d =>
        (Flag(z, c) <=> ~Unheard(L[c], V[c], z.starts) /\ Unheard(L[d], V[d], z.starts))
  BY DEF Pairs
<1>2. \A i \in Side : z.punch[i] => i < Len(z.members)
  BY DEF Pairs, Side
<1>3. \A c, d \in Clients : Go(L[c], R[c]) => L[d].punched = z.starts
  BY DEF Pairs
<1> HIDE DEF Moves
<1> QED BY <1>1, <1>2, <1>3 DEF Pairs

LEMMA BriefKept ==
  ASSUME NEW s, NEW K, NEW U, NEW Q, NEW z, NEW L, NEW V, NEW R, NEW x, Brief(s, K, U, Q, x),
         \A d \in Clients : Stays(K[d], U[d], Q[d], L[d], V[d], R[d], s.starts, s.mode.p2p, Flag(z, d)),
         \A d \in Clients : Briefed(K[d], Q[d], s.starts, x) => Briefed(L[d], R[d], s.starts, x),
         z.starts = s.starts,
         SomeEarly(s, K, U) => z.members = s.members /\ z.match = s.match
  PROVE  Brief(z, L, V, R, x)
<1> HIDE DEF SentInOrder, OnItsWay, Punches, Early, Opened, Rest, Go, Unheard, Has, Flag, Briefed, Held
<1>1. SomeEarly(z, L, V) => SomeEarly(s, K, U)
  BY DEF SomeEarly, Stays
<1> QED BY <1>1 DEF Brief, Agrees

LEMMA WaysKept ==
  ASSUME NEW s, NEW K, NEW U, NEW Q, NEW z, NEW L, NEW V, NEW R,
         \A d \in Clients : Stays(K[d], U[d], Q[d], L[d], V[d], R[d], s.starts, s.mode.p2p, Flag(z, d)),
         z.starts = s.starts, z.mode = s.mode
  PROVE  Ways(z, L, V, R)
<1> HIDE DEF SentInOrder, OnItsWay, Punches, Early, Opened, Rest, Go, Unheard, Has, Flag, Briefed, Held
<1> QED BY DEF Ways, Stays

(* Clients go on and the server's part of the match stays as it is.         *)
LEMMA AllKept ==
  ASSUME TypeOK, TypeOK', LifeInv, SeatsTaken,
         \A d \in Clients : Moves(cl[d], up[d], down[d], cl'[d], up'[d], down'[d],
                                  srv.starts, srv.mode.p2p, Flag(srv', d)),
         \A x \in Lobby : Len(x.members) >= 2 /\ Brief(srv, cl, up, down, x) => \A d \in Clients :
             Briefed(cl[d], down[d], srv.starts, x) => Briefed(cl'[d], down'[d], srv.starts, x),
         srv'.starts = srv.starts, srv'.mode = srv.mode, srv'.members = srv.members,
         srv'.match.ready = srv.match.ready, SomeEarly(srv, cl, up) => srv'.match = srv.match,
         srv'.punch = srv.punch, srv'.loaded = srv.loaded, srv'.synced = srv.synced,
         srv'.allReady = srv.allReady, srv.allReady /\ srv.dirty => srv'.dirty
  PROVE  LifeInv'
<1>1. /\ srv.members \in Seq(Clients) /\ Len(srv.members) \in Nat /\ srv.loaded \subseteq Clients
      /\ srv.starts \in Nat
  BY DEF TypeOK, Server
<1>2. \A i \in Side : srv.match.ready[i] # -1 => srv.members[i + 1] \in Clients
  BY <1>1 DEF SeatsTaken, Side
<1>3. /\ Ways(srv, cl, up, down) /\ Pairs(srv, cl, up, down)
      /\ Barrier(srv, cl, up, down) /\ Marks(srv, cl, up, down)
      /\ srv.starts > 0 => \E x \in Lobby : Brief(srv, cl, up, down, x)
  BY DEF LifeInv
<1>4. \A d \in Clients : Flag(srv', d) = Flag(srv, d)
  BY DEF Flag
<1>m. \A d \in Clients : Stays(cl[d], up[d], down[d], cl'[d], up'[d], down'[d],
                               srv.starts, srv.mode.p2p, Flag(srv', d))
  BY DEF Moves
<1> HIDE DEF Stays, Moves, Flag, Briefed
<1>5. Ways(srv', cl', up', down')
  BY <1>m, WaysKept
<1>6. Pairs(srv', cl', up', down')
  BY <1>1, <1>3, <1>4, PairsKept
<1>7. Barrier(srv', cl', up', down')
  BY <1>1, <1>3, <1>m, BarrierKept
<1>8. Marks(srv', cl', up', down')
  BY <1>1, <1>2, <1>3, <1>m, MarksKept
<1>9. srv'.starts > 0 => \E x \in Lobby : Brief(srv', cl', up', down', x)
  <2> SUFFICES ASSUME srv'.starts > 0 PROVE \E x \in Lobby : Brief(srv', cl', up', down', x)
    OBVIOUS
  <2>1. PICK x \in Lobby : Brief(srv, cl, up, down, x)
    BY <1>3
  <2>2. Len(x.members) >= 2
    BY <2>1 DEF Brief
  <2>3. Brief(srv', cl', up', down', x)
    BY <2>1, <2>2, <1>m, BriefKept
  <2> QED BY <2>3
<1> QED BY <1>5, <1>6, <1>7, <1>8, <1>9 DEF LifeInv

-----------------------------------------------------------------------------
(* The steps of a client                                                    *)

LEMMA OneMoves ==
  ASSUME TypeOK, TypeOK', LifeInv, SeatsTaken, NEW c \in Clients, srv' = srv,
         \A d \in Clients \ {c} : cl'[d] = cl[d] /\ up'[d] = up[d] /\ down'[d] = down[d],
         Moves(cl[c], up[c], down[c], cl'[c], up'[c], down'[c],
               srv.starts, srv.mode.p2p, Flag(srv, c)),
         \A x \in Lobby : Len(x.members) >= 2 /\ Briefed(cl[c], down[c], srv.starts, x)
                            => Briefed(cl'[c], down'[c], srv.starts, x)
  PROVE  LifeInv'
<1> HIDE DEF Moves, Briefed, Flag, SentInOrder, OnItsWay, Punches
<1>1. \A d \in Clients : Moves(cl[d], up[d], down[d], cl'[d], up'[d], down'[d],
                               srv.starts, srv.mode.p2p, Flag(srv', d))
  <2> SUFFICES ASSUME NEW d \in Clients
               PROVE  Moves(cl[d], up[d], down[d], cl'[d], up'[d], down'[d],
                            srv.starts, srv.mode.p2p, Flag(srv, d))
    BY DEF Flag
  <2>1. CASE d = c
    BY <2>1
  <2>2. CASE d # c
    <3>1. Moves(cl[d], up[d], down[d], cl[d], up[d], down[d], srv.starts, srv.mode.p2p, Flag(srv, d))
      BY StaysPut DEF LifeInv, Ways
    <3> QED BY <2>2, <3>1
  <2> QED BY <2>1, <2>2
<1>2. \A x \in Lobby : Len(x.members) >= 2 /\ Brief(srv, cl, up, down, x) => \A d \in Clients :
        Briefed(cl[d], down[d], srv.starts, x) => Briefed(cl'[d], down'[d], srv.starts, x)
  OBVIOUS
<1> HIDE DEF Brief
<1> QED BY <1>1, <1>2, AllKept

(* What is known of one client.                                             *)
LEMMA FactsOf ==
  ASSUME TypeOK, LifeInv, NEW c \in Clients
  PROVE  /\ cl[c] \in Client /\ up[c] \in Seq(UpMessage) /\ down[c] \in Seq(DownMessage)
         /\ srv.starts \in Nat /\ SentInOrder(up[c])
         /\ OnItsWay(cl[c], up[c], down[c], srv.starts)
         /\ Punches(cl[c], up[c], srv.starts, srv.mode.p2p, Flag(srv, c))
         /\ cl \in [Clients -> Client] /\ up \in [Clients -> Seq(UpMessage)]
         /\ down \in [Clients -> Seq(DownMessage)]
<1> HIDE DEF SentInOrder, OnItsWay, Punches, Flag
<1> QED BY DEF TypeOK, Server, LifeInv, Ways

(* Nothing of the match changes, though something is sent.                  *)
LEMMA QuietMoves ==
  ASSUME NEW k \in Client, NEW j \in Client, NEW u, NEW w, NEW q, NEW n \in Nat, NEW p2p, NEW flag,
         OnItsWay(k, u, q, n), Punches(k, u, n, p2p, flag), SentInOrder(w),
         j.phase = k.phase, j.pending = k.pending, j.start = k.start, j.battle = k.battle,
         j.arrived = k.arrived, j.punched = k.punched, j.sentLoaded = k.sentLoaded,
         j.synced = k.synced, j.punchGo = k.punchGo, j.view = k.view, j.setup = k.setup,
         \A t \in Kinds \ {"ready"} : Has(w, t) <=> Has(u, t),
         Has(w, "ready") => Has(u, "ready") \/ (k.phase = "menu" /\ ~Due(q))
  PROVE  /\ Moves(k, u, q, j, w, q, n, p2p, flag)
         /\ \A x : Briefed(k, q, n, x) => Briefed(j, q, n, x)
<1>1. \A t \in {"loaded", "reset", "punch_ready"} : Has(w, t) <=> Has(u, t)
  BY DEF Kinds
<1> HIDE DEF SentInOrder, Has, Once, Due, Agrees, Client
<1>2. OnItsWay(j, w, q, n)
  BY <1>1 DEF OnItsWay
<1>3. Punches(j, w, n, p2p, flag)
  BY <1>1 DEF Punches
<1>4. Go(j, q) => Go(k, q)
  BY DEF Go
<1> HIDE DEF Go, OnItsWay, Punches
<1>5. Moves(k, u, q, j, w, q, n, p2p, flag)
  BY <1>1, <1>2, <1>3, <1>4 DEF Moves, Stays, Unheard, Early, Opened, Rest, Held
<1>6. \A x : Briefed(k, q, n, x) => Briefed(j, q, n, x)
  BY DEF Briefed
<1> QED BY <1>5, <1>6

(* TryCoordinatedP2pPunch.                                                  *)
LEMMA PunchMoves ==
  ASSUME NEW k \in Client, NEW j \in Client, NEW u, NEW w, NEW q, NEW n \in Nat, NEW p2p, NEW flag,
         OnItsWay(k, u, q, n), Punches(k, u, n, p2p, flag), SentInOrder(w),
         p2p, k.phase = "loading", j = [k EXCEPT !.phase = "punching", !.punchGo = FALSE,
                                                 !.punched = k.battle],
         \A t \in Kinds : Has(w, t) <=> Has(u, t) \/ t = "punch_ready", flag \in BOOLEAN
  PROVE  /\ Moves(k, u, q, j, w, q, n, p2p, flag)
         /\ \A x : Briefed(k, q, n, x) => Briefed(j, q, n, x)
<1>1. /\ \A t \in {"loaded", "reset", "ready"} : Has(w, t) <=> Has(u, t)
      /\ Has(w, "punch_ready")
  BY DEF Kinds
<1>0. /\ j.phase = "punching" /\ j.punched = k.battle /\ ~j.punchGo /\ j.pending = k.pending
      /\ j.start = k.start /\ j.battle = k.battle /\ j.arrived = k.arrived
      /\ j.sentLoaded = k.sentLoaded /\ j.synced = k.synced /\ j.view = k.view /\ j.setup = k.setup
  BY DEF Client
<1>t. k.punched \in Nat /\ k.battle \in Nat
  BY DEF Client
<1> HIDE DEF SentInOrder, Has, Once, Due, Agrees, Client
<1>2. OnItsWay(j, w, q, n)
  BY <1>0, <1>1 DEF OnItsWay
<1>3. k.punched # n /\ ~flag /\ k.battle = n /\ n > 0 /\ k.arrived # n
  BY DEF OnItsWay, Punches
<1>4. Punches(j, w, n, p2p, flag)
  BY <1>0, <1>1, <1>3, <1>t DEF Punches
<1>5. Go(j, q) => Go(k, q)
  BY <1>0 DEF Go
<1> HIDE DEF Go, OnItsWay, Punches
<1>6. Moves(k, u, q, j, w, q, n, p2p, flag)
  BY <1>0, <1>1, <1>2, <1>3, <1>4, <1>5 DEF Moves, Stays, Unheard, Early, Opened, Rest, Held
<1>7. \A x : Briefed(k, q, n, x) => Briefed(j, q, n, x)
  BY <1>0 DEF Briefed
<1> QED BY <1>6, <1>7

(* The tasks of the battle are registered: it takes the lobby as shown.     *)
LEMMA RegisterMoves ==
  ASSUME NEW k \in Client, NEW j \in Client, NEW u, NEW q, NEW n \in Nat, NEW p2p, NEW flag,
         OnItsWay(k, u, q, n), Punches(k, u, n, p2p, flag), SentInOrder(u),
         k.phase = IF p2p THEN "punching" ELSE "loading", p2p \in BOOLEAN,
         j = [k EXCEPT !.phase = "waiting", !.ggpo = Len(k.view.members) >= 2,
                       !.setup = [k.view EXCEPT !.custom = k.setup.custom]]
  PROVE  /\ Moves(k, u, q, j, u, q, n, p2p, flag)
         /\ \A x : Briefed(k, q, n, x) => Briefed(j, q, n, x)
<1>0. /\ j.phase = "waiting" /\ j.punched = k.punched /\ j.punchGo = k.punchGo /\ j.pending = k.pending
      /\ j.start = k.start /\ j.battle = k.battle /\ j.arrived = k.arrived
      /\ j.sentLoaded = k.sentLoaded /\ j.synced = k.synced /\ j.view = k.view
      /\ j.setup = [k.view EXCEPT !.custom = k.setup.custom]
  BY DEF Client
<1>t. /\ j.setup.custom = k.setup.custom /\ j.setup.members = k.view.members
      /\ j.setup.match = k.view.match
  BY <1>0 DEF Client, Lobby
<1> HIDE DEF SentInOrder, Has, Once, Due, Client
<1>2. OnItsWay(j, u, q, n)
  BY <1>0 DEF OnItsWay
<1>3. k.arrived # n /\ n > 0
  BY DEF OnItsWay
<1>4. Punches(j, u, n, p2p, flag)
  BY <1>0, <1>3 DEF Punches
<1>5. Go(j, q) => Go(k, q)
  BY <1>0 DEF Go
<1> HIDE DEF Go, OnItsWay, Punches
<1>6. Moves(k, u, q, j, u, q, n, p2p, flag)
  BY <1>0, <1>3, <1>2, <1>4, <1>5 DEF Moves, Stays, Unheard, Early, Opened, Rest, Held
<1>7. \A x : Briefed(k, q, n, x) => Briefed(j, q, n, x)
  BY <1>0, <1>t DEF Briefed, Agrees
<1> QED BY <1>6, <1>7

(* HasInitialized: the load is reported, or the barrier has opened.         *)
LEMMA LoadMoves ==
  ASSUME NEW k \in Client, NEW j \in Client, NEW u, NEW w, NEW q, NEW n \in Nat, NEW p2p, NEW flag,
         OnItsWay(k, u, q, n), Punches(k, u, n, p2p, flag), SentInOrder(w),
         k.phase = "waiting", ~k.sentLoaded \/ k.synced, k.synced => ~Early(k, u, n),
         j = [k EXCEPT !.sentLoaded = TRUE, !.phase = IF k.synced THEN "fight" ELSE k.phase,
                       !.arrived = IF k.sentLoaded THEN k.arrived ELSE k.battle],
         k.sentLoaded => w = u,
         ~k.sentLoaded => \A t \in Kinds : Has(w, t) <=> Has(u, t) \/ t = "loaded"
  PROVE  /\ Moves(k, u, q, j, w, q, n, p2p, flag)
         /\ \A x : Briefed(k, q, n, x) => Briefed(j, q, n, x)
<1>0. /\ j.phase = (IF k.synced THEN "fight" ELSE "waiting") /\ j.punched = k.punched
      /\ j.punchGo = k.punchGo /\ j.pending = k.pending /\ j.start = k.start /\ j.battle = k.battle
      /\ j.arrived = (IF k.sentLoaded THEN k.arrived ELSE k.battle)
      /\ j.sentLoaded = TRUE /\ j.synced = k.synced /\ j.view = k.view /\ j.setup = k.setup
  BY DEF Client
<1>t. /\ k.sentLoaded \in BOOLEAN /\ k.synced \in BOOLEAN
  BY DEF Client
<1>1. ~k.sentLoaded => /\ \A t \in {"reset", "ready", "punch_ready"} : Has(w, t) <=> Has(u, t)
                       /\ Has(w, "loaded")
  BY DEF Kinds
<1> HIDE DEF SentInOrder, Has, Once, Client, Agrees
<1>2. /\ k.battle = n /\ n > 0 /\ (k.sentLoaded <=> k.arrived = n) /\ (k.synced => k.arrived = n)
      /\ ~Due(q) /\ ~Has(u, "reset") /\ ~Has(u, "ready")
  BY DEF OnItsWay
<1>3. CASE ~k.sentLoaded
  <2>1. ~k.synced /\ k.arrived # n /\ j.arrived = n /\ j.phase = "waiting"
    BY <1>0, <1>2, <1>3
  <2> HIDE DEF Due
  <2>2. OnItsWay(j, w, q, n)
    BY <1>0, <1>1, <1>2, <1>3, <2>1 DEF OnItsWay
  <2>3. Punches(j, w, n, p2p, flag)
    BY <1>0, <1>1, <1>2, <1>3, <2>1 DEF Punches
  <2>4. Go(j, q) => Go(k, q)
    BY <1>0, <2>1 DEF Go
  <2> HIDE DEF Go, OnItsWay, Punches
  <2>5. Moves(k, u, q, j, w, q, n, p2p, flag)
    BY <1>0, <1>1, <1>2, <1>3, <2>1, <2>2, <2>3, <2>4 DEF Moves, Stays, Unheard, Early, Opened, Rest, Held
  <2>6. \A x : Briefed(k, q, n, x) => Briefed(j, q, n, x)
    BY <1>0, <2>1 DEF Briefed
  <2> QED BY <2>5, <2>6
<1>4. CASE k.sentLoaded
  <2>1. k.synced /\ k.arrived = n /\ j.arrived = n /\ j.phase = "fight" /\ w = u
    BY <1>0, <1>2, <1>4
  <2>0. ~Has(q, "synced")
    BY <2>1 DEF OnItsWay
  <2>2. ~Has(u, "loaded") /\ ~Early(k, u, n) /\ ~Has(u, "punch_ready")
    BY <2>1 DEF Early, Punches
  <2> HIDE DEF Due
  <2>3. OnItsWay(j, w, q, n)
    BY <1>0, <1>2, <2>0, <2>1, <2>2 DEF OnItsWay
  <2>4. Punches(j, w, n, p2p, flag)
    BY <1>0, <1>2, <2>1, <2>2 DEF Punches
  <2>5. Go(j, q) => Go(k, q)
    BY <1>0, <2>1 DEF Go
  <2> HIDE DEF Go, OnItsWay, Punches
  <2>6. Moves(k, u, q, j, w, q, n, p2p, flag)
    BY <1>0, <1>2, <2>0, <2>1, <2>2, <2>3, <2>4, <2>5 DEF Moves, Stays, Unheard, Early, Opened, Rest, Held
  <2>7. \A x : Briefed(k, q, n, x) => Briefed(j, q, n, x)
    BY <1>0, <2>1 DEF Briefed
  <2> QED BY <2>6, <2>7
<1> QED BY <1>3, <1>4

(* CloseBattle.                                                             *)
LEMMA CloseMoves ==
  ASSUME NEW k \in Client, NEW j \in Client, NEW u, NEW q, NEW n \in Nat, NEW p2p, NEW flag, NEW g,
         OnItsWay(k, u, q, n), Punches(k, u, n, p2p, flag), SentInOrder(u),
         k.phase = "fight", j = [k EXCEPT !.phase = "closing", !.ggpo = g]
  PROVE  /\ Moves(k, u, q, j, u, q, n, p2p, flag)
         /\ \A x : Briefed(k, q, n, x) => Briefed(j, q, n, x)
<1>0. /\ j.phase = "closing" /\ j.punched = k.punched /\ j.punchGo = k.punchGo /\ j.pending = k.pending
      /\ j.start = k.start /\ j.battle = k.battle /\ j.arrived = k.arrived
      /\ j.sentLoaded = k.sentLoaded /\ j.synced = k.synced /\ j.view = k.view /\ j.setup = k.setup
  BY DEF Client
<1> HIDE DEF SentInOrder, Has, Once, Due, Client, Agrees
<1>2. OnItsWay(j, u, q, n)
  BY <1>0 DEF OnItsWay
<1>4. Punches(j, u, n, p2p, flag)
  BY <1>0 DEF Punches
<1>5. Go(j, q) => Go(k, q)
  BY <1>0 DEF Go
<1> HIDE DEF Go, OnItsWay, Punches
<1>6. Moves(k, u, q, j, u, q, n, p2p, flag)
  BY <1>0, <1>2, <1>4, <1>5 DEF Moves, Stays, Unheard, Early, Opened, Rest, Held
<1>7. \A x : Briefed(k, q, n, x) => Briefed(j, q, n, x)
  BY <1>0 DEF Briefed
<1> QED BY <1>6, <1>7

(* ExitForeground, with its message.                                        *)
LEMMA ExitMoves ==
  ASSUME NEW k \in Client, NEW j \in Client, NEW u, NEW w, NEW q, NEW n \in Nat, NEW p2p, NEW flag,
         OnItsWay(k, u, q, n), Punches(k, u, n, p2p, flag), SentInOrder(w),
         k.phase = "closing", j = [k EXCEPT !.phase = "menu", !.sentLoaded = FALSE, !.synced = FALSE],
         \A t \in Kinds : Has(w, t) <=> Has(u, t) \/ t = "reset"
  PROVE  /\ Moves(k, u, q, j, w, q, n, p2p, flag)
         /\ \A x : Briefed(k, q, n, x) => Briefed(j, q, n, x)
<1>1. /\ \A t \in {"loaded", "punch_ready", "ready"} : Has(w, t) <=> Has(u, t)
      /\ Has(w, "reset")
  BY DEF Kinds
<1>0. /\ j.phase = "menu" /\ j.punched = k.punched /\ j.punchGo = k.punchGo /\ j.pending = k.pending
      /\ j.start = k.start /\ j.battle = k.battle /\ j.arrived = k.arrived
      /\ ~j.sentLoaded /\ ~j.synced /\ j.view = k.view /\ j.setup = k.setup
  BY DEF Client
<1> HIDE DEF SentInOrder, Has, Once, Client, Agrees
<1>2. k.arrived = n /\ n > 0 /\ ~Due(q) /\ ~Has(u, "ready") /\ ~Has(u, "loaded") /\ ~Has(q, "synced")
  BY DEF OnItsWay
<1> HIDE DEF Due
<1>3. OnItsWay(j, w, q, n)
  BY <1>0, <1>1, <1>2 DEF OnItsWay
<1>4. Punches(j, w, n, p2p, flag)
  BY <1>0, <1>1, <1>2 DEF Punches
<1>5. Go(j, q) => Go(k, q)
  BY <1>0 DEF Go
<1> HIDE DEF Go, OnItsWay, Punches
<1>6. Moves(k, u, q, j, w, q, n, p2p, flag)
  BY <1>0, <1>1, <1>2, <1>3, <1>4, <1>5 DEF Moves, Stays, Unheard, Early, Opened, Rest, Held
<1>7. \A x : Briefed(k, q, n, x) => Briefed(j, q, n, x)
  BY <1>0 DEF Briefed
<1> QED BY <1>6, <1>7

(* A client polls data, an answer or PUNCH_GO.                              *)
LEMMA PollMoves ==
  ASSUME NEW k \in Client, NEW j \in Client, NEW u, NEW w, NEW q \in Seq(DownMessage), q # <<>>,
         NEW n \in Nat, NEW p2p, NEW flag,
         OnItsWay(k, u, q, n), Punches(k, u, n, p2p, flag), SentInOrder(w),
         Head(q).t \notin {"allready", "synced"},
         j.phase = k.phase, j.pending = k.pending, j.start = k.start, j.battle = k.battle,
         j.arrived = k.arrived, j.punched = k.punched, j.sentLoaded = k.sentLoaded,
         j.synced = k.synced, j.setup = k.setup,
         Head(q).t # "punch_go" => j.punchGo = k.punchGo,
         j.view = IF Head(q).t = "update" THEN Head(q).data ELSE k.view,
         \A t \in Kinds : Has(w, t) <=> Has(u, t)
  PROVE  /\ Moves(k, u, q, j, w, Tail(q), n, p2p, flag)
         /\ \A x : Briefed(k, q, n, x) => Briefed(j, Tail(q), n, x)
<1> DEFINE r == Tail(q)
<1>0. \A t \in {"loaded", "reset", "ready", "punch_ready"} : Has(w, t) <=> Has(u, t)
  BY DEF Kinds
<1>1. /\ \A t \in {"allready", "synced"} : (Has(r, t) <=> Has(q, t)) /\ (Once(q, t) => Once(r, t))
      /\ (\A i \in DOMAIN q : q[i].t = "allready" => q[i].n = n)
           => \A i \in DOMAIN r : r[i].t = "allready" => r[i].n = n
  BY DownTaken
<1>2. (k.phase # "menu" => ~Due(q)) /\ (k.phase \in {"loading", "punching"} => k.arrived # n)
  BY DEF OnItsWay
<1>3. \A x : Briefed(k, q, n, x) => Briefed(j, r, n, x)
  BY <1>2, BriefTaken
<1>4. Go(j, r) => Go(k, q)
  BY <1>2, GoTaken
<1> HIDE DEF r, SentInOrder, Has, Once, Client, Go
<1>5. OnItsWay(j, w, r, n)
  BY <1>0, <1>1 DEF OnItsWay, Due
<1>6. Punches(j, w, n, p2p, flag)
  BY <1>0 DEF Punches
<1>7. Moves(k, u, q, j, w, r, n, p2p, flag)
  <2> HIDE DEF OnItsWay, Punches
  <2> QED BY <1>0, <1>1, <1>4, <1>5, <1>6 DEF Moves, Stays, Unheard, Early, Opened, Rest, Held, Due
<1> QED BY <1>3, <1>7 DEF r

(* LOBBY_ALLREADY: the match is started from the lobby as shown.            *)
LEMMA StartMoves ==
  ASSUME NEW k \in Client, NEW j \in Client, NEW u, NEW q \in Seq(DownMessage), q # <<>>,
         NEW n \in Nat, NEW p2p, NEW flag,
         OnItsWay(k, u, q, n), Punches(k, u, n, p2p, flag), SentInOrder(u),
         Head(q).t = "allready",
         j.phase = "loading", ~j.pending, j.start = Head(q).n, j.battle = Head(q).n,
         j.arrived = k.arrived, j.punched = k.punched, ~j.sentLoaded, ~j.synced,
         j.punchGo = k.punchGo, j.view = k.view, j.setup = k.view
  PROVE  /\ Moves(k, u, q, j, u, Tail(q), n, p2p, flag)
         /\ \A x : Briefed(k, q, n, x) => Briefed(j, Tail(q), n, x)
<1> DEFINE r == Tail(q)
<1>0. Head(q).n = n /\ Due(q) /\ Once(q, "allready")
  BY DownTaken DEF OnItsWay, Due
<1>1. /\ ~Due(r) /\ Once(r, "allready") /\ (Has(r, "synced") => Has(q, "synced"))
      /\ (Once(q, "synced") => Once(r, "synced"))
      /\ (\A i \in DOMAIN q : q[i].t = "allready" => q[i].n = n)
           => \A i \in DOMAIN r : r[i].t = "allready" => r[i].n = n
  BY <1>0, DownTaken DEF Due
<1>2. /\ k.phase = "menu" /\ k.start = n - 1 /\ k.arrived = n - 1 /\ ~Has(q, "synced")
      /\ ~Has(u, "reset") /\ ~Has(u, "ready") /\ ~Has(u, "loaded") /\ ~k.synced /\ k.start \in Nat
  BY <1>0 DEF OnItsWay, Client
<1>3. ASSUME NEW x, Briefed(k, q, n, x) PROVE Briefed(j, r, n, x)
  <2>1. /\ k.view = x
        /\ \A i \in DOMAIN r : r[i].t = "update" => Agrees(r[i].data, x)
    BY <1>0, <1>2, <1>3, BriefStarts
  <2>2. \A i \in DOMAIN r : r[i].t # "allready"
    BY <1>1 DEF Due, Has
  <2>3. Agrees(k.view, x) /\ k.view.custom = x.custom
    BY <2>1 DEF Agrees
  <2> HIDE DEF r, Agrees
  <2> QED BY <2>1, <2>2, <2>3 DEF Briefed
<1>4. Go(j, r) => Go(k, q)
  BY <1>2, GoTaken
<1> HIDE DEF r, SentInOrder, Has, Once, Client, Go, Due
<1>5. n > 0
  BY <1>2
<1>6. OnItsWay(j, u, r, n)
  BY <1>0, <1>1, <1>2, <1>5 DEF OnItsWay
<1>7. Punches(j, u, n, p2p, flag)
  BY <1>2 DEF Punches
<1>8. Moves(k, u, q, j, u, r, n, p2p, flag)
  <2> HIDE DEF OnItsWay, Punches
  <2> QED BY <1>0, <1>1, <1>2, <1>4, <1>6, <1>7 DEF Moves, Stays, Unheard, Early, Opened, Rest, Held
<1> QED BY <1>3, <1>8 DEF r

LEMMA SyncedMoves ==
  ASSUME NEW k \in Client, NEW j \in Client, NEW u, NEW q \in Seq(DownMessage), q # <<>>,
         NEW n \in Nat, NEW p2p, NEW flag,
         OnItsWay(k, u, q, n), Punches(k, u, n, p2p, flag), SentInOrder(u),
         Head(q).t = "synced",
         j.phase = k.phase, j.pending = k.pending, j.start = k.start, j.battle = k.battle,
         j.arrived = k.arrived, j.punched = k.punched, j.sentLoaded = k.sentLoaded,
         j.synced, j.setup = k.setup, j.punchGo = k.punchGo, j.view = k.view
  PROVE  /\ Moves(k, u, q, j, u, Tail(q), n, p2p, flag)
         /\ \A x : Briefed(k, q, n, x) => Briefed(j, Tail(q), n, x)
<1> DEFINE r == Tail(q)
<1>0. Has(q, "synced") /\ Once(q, "synced")
  BY DownTaken DEF OnItsWay
<1>1. /\ (Has(r, "allready") <=> Has(q, "allready")) /\ (Once(q, "allready") => Once(r, "allready"))
      /\ ~Has(r, "synced") /\ Once(r, "synced")
      /\ (\A i \in DOMAIN q : q[i].t = "allready" => q[i].n = n)
           => \A i \in DOMAIN r : r[i].t = "allready" => r[i].n = n
  BY <1>0, DownTaken
<1>2. k.phase = "waiting" /\ ~Due(q) /\ k.arrived = n
  BY <1>0 DEF OnItsWay
<1>3. \A x : Briefed(k, q, n, x) => Briefed(j, r, n, x)
  BY <1>2, BriefTaken
<1>4. Go(j, r) => Go(k, q)
  BY <1>2, GoTaken
<1> HIDE DEF r, SentInOrder, Has, Once, Client, Go
<1>5. OnItsWay(j, u, r, n)
  BY <1>0, <1>1, <1>2 DEF OnItsWay, Due
<1>6. Punches(j, u, n, p2p, flag)
  BY DEF Punches
<1>7. Moves(k, u, q, j, u, r, n, p2p, flag)
  <2> HIDE DEF OnItsWay, Punches
  <2> QED BY <1>0, <1>1, <1>2, <1>4, <1>5, <1>6 DEF Moves, Stays, Unheard, Early, Opened, Rest, Held, Due
<1> QED BY <1>3, <1>7 DEF r

(* A client is turned away: no match has been started then.                 *)
LEMMA RejectedMoves ==
  ASSUME NEW k \in Client, NEW j \in Client, NEW u, NEW w, NEW q, NEW n \in Nat, NEW p2p, NEW flag,
         OnItsWay(k, u, q, n), Punches(k, u, n, p2p, flag), SentInOrder(w), n = 0,
         j.phase = k.phase, j.pending = k.pending, j.start = k.start, j.battle = k.battle,
         j.arrived = k.arrived, j.punched = k.punched, j.sentLoaded = k.sentLoaded,
         j.synced = k.synced, \A t \in Kinds : Has(w, t) => Has(u, t)
  PROVE  /\ Moves(k, u, q, j, w, <<>>, n, p2p, flag)
         /\ \A x : Briefed(j, <<>>, n, x)
<1> DEFINE r == <<>>
<1>0. \A t \in {"loaded", "reset", "ready", "punch_ready"} : Has(w, t) => Has(u, t)
  BY DEF Kinds
<1>1. DOMAIN r = {} /\ \A t : ~Has(r, t) /\ Once(r, t)
  BY DEF Has, Once
<1> HIDE DEF r
<1>2. /\ k.phase = "menu" /\ ~Due(q) /\ ~Has(u, "loaded") /\ ~Has(q, "synced") /\ ~Has(u, "reset")
      /\ ~Has(u, "punch_ready")
  BY DEF OnItsWay, Punches, Client
<1>3. ~Go(j, r)
  BY <1>1, <1>2 DEF Go
<1> HIDE DEF SentInOrder, Has, Once, Client, Go
<1>5. OnItsWay(j, w, r, n)
  BY <1>0, <1>1, <1>2 DEF OnItsWay, Due
<1>6. Punches(j, w, n, p2p, flag)
  BY <1>0, <1>2 DEF Punches
<1>7. Moves(k, u, q, j, w, r, n, p2p, flag)
  <2> HIDE DEF OnItsWay, Punches
  <2> QED BY <1>0, <1>1, <1>2, <1>3, <1>5, <1>6 DEF Moves, Stays, Unheard, Early, Opened, Rest, Held, Due
<1>8. \A x : Briefed(j, r, n, x)
  <2>1. k.arrived = n
    BY <1>2 DEF OnItsWay
  <2> QED BY <1>1, <1>2, <2>1 DEF Briefed
<1> QED BY <1>7, <1>8 DEF r

(* Two members are all there is.                                            *)
LEMMA BothSeated ==
  ASSUME Duo, TypeOK, MembersDistinct, Len(srv.members) >= 2
  PROVE  /\ \A c \in Clients : c \in Elems(srv.members) /\ SideOf(srv.members, c) \in Side
         /\ \A i \in Side : srv.members[i + 1] \in Clients /\ SideOf(srv.members, srv.members[i + 1]) = i
         /\ \A c \in Clients : c = srv.members[1] \/ c = srv.members[2]
         /\ srv.members[1] # srv.members[2]
<1>1. /\ srv.members \in Seq(Clients) /\ Len(srv.members) \in Nat /\ 1 \in DOMAIN srv.members
      /\ 2 \in DOMAIN srv.members
  BY DEF TypeOK, Server
<1>2. srv.members[1] \in Clients /\ srv.members[2] \in Clients /\ srv.members[1] # srv.members[2]
  BY <1>1 DEF MembersDistinct
<1>3. \A c \in Clients : c = srv.members[1] \/ c = srv.members[2]
  BY <1>2 DEF Duo
<1>4. \A c \in Clients : c \in Elems(srv.members) /\ SideOf(srv.members, c) \in Side
  BY <1>1, <1>3 DEF Elems, SideOf, Side
<1>5. \A i \in Side : srv.members[i + 1] \in Clients /\ SideOf(srv.members, srv.members[i + 1]) = i
  BY <1>1, <1>2 DEF SideOf, Side
<1> QED BY <1>2, <1>3, <1>4, <1>5

LEMMA MembersOpen ==
  ASSUME ReadyInv, NEW c \in Clients, c \in Elems(srv.members)
  PROVE  cl[c].conn = "open"
<1> HIDE DEF ShowsSelf, OneReady, MarksFollow, Elems, Mark, LobbyData
<1> QED BY DEF ReadyInv, PlayerOK, JoinsOnce

LEMMA OpenOnceStarted ==
  ASSUME Duo, TypeOK, MembersDistinct, ReadyInv, LifeInv, srv.starts > 0
  PROVE  /\ Len(srv.members) >= 2
         /\ \A c \in Clients : cl[c].conn = "open" /\ c \in Elems(srv.members)
<1>1. Len(srv.members) >= 2
  BY DEF LifeInv, Marks
<1>2. \A c \in Clients : c \in Elems(srv.members)
  BY <1>1, BothSeated
<1> HIDE DEF ReadyInv, LifeInv
<1> QED BY <1>1, <1>2, MembersOpen

(* What a Ready under way, or the wish to press one, says of the mark.      *)
LEMMA ReadyMeans ==
  ASSUME TypeOK, ReadyInv, NEW c \in Clients
  PROVE  /\ Has(up[c], "ready") => /\ Mark(LobbyData, c) = -1
                                   /\ cl[c].outstanding # -1
         /\ cl[c].outstanding = -1 /\ Mark(cl[c].view, c) = -1 => Mark(LobbyData, c) = -1
         /\ cl[c].conn # "dropped"
<1>1. PlayerOK(c, up[c], down[c], cl[c], c \in Elems(srv.members), Mark(LobbyData, c))
  BY DEF ReadyInv
<1>2. cl[c].readies \in Nat
  BY LobbyAssumption DEF TypeOK, Client
<1> HIDE DEF Mark, LobbyData, ShowsSelf
<1>3. cl[c].outstanding = -1 /\ Mark(cl[c].view, c) = -1 => Mark(LobbyData, c) = -1
  BY <1>1 DEF PlayerOK, MarksFollow, Withdrawn
<1>4. Has(up[c], "ready") => Mark(LobbyData, c) = -1 /\ cl[c].outstanding = cl[c].readies
  BY <1>1 DEF PlayerOK, OneReady, Unmarked, Has
<1>5. cl[c].conn # "dropped"
  BY <1>1 DEF PlayerOK, JoinsOnce
<1> QED BY <1>2, <1>3, <1>4, <1>5

(* While somebody is early, or a start is due, both seats are marked.       *)
LEMMA NobodyEarly ==
  ASSUME Duo, TypeOK, MembersDistinct, ReadyInv, LifeInv, NEW c \in Clients, Mark(LobbyData, c) = -1,
         SideOf(srv.members, c) # -1 \/ srv.starts > 0
  PROVE  /\ ~SomeEarly(srv, cl, up) /\ ~IsAllReady(srv.match) /\ ~srv.allReady
         /\ \A d \in Clients : ~Due(down[d])
<1>1. SideOf(srv.members, c) \in Side
  <2>1. srv.members \in Seq(Clients)
    BY DEF TypeOK, Server
  <2>2. SideOf(srv.members, c) \in Side \cup {-1}
    BY <2>1, SideIs
  <2>3. CASE SideOf(srv.members, c) # -1
    <3> HIDE DEF SideOf
    <3> QED BY <2>2, <2>3
  <2>4. CASE srv.starts > 0
    <3>1. Len(srv.members) >= 2
      BY <2>4 DEF LifeInv, Marks
    <3> QED BY <3>1, BothSeated
  <2> QED BY <2>3, <2>4
<1>2. srv.match.ready[SideOf(srv.members, c)] = -1
  <2>1. -1 \notin Side
    BY DEF Side
  <2> HIDE DEF SideOf
  <2> QED BY <1>1, <2>1, LobbyIs DEF Mark
<1>3. ~IsAllReady(srv.match)
  BY <1>1, <1>2 DEF IsAllReady
<1>4. ~SomeEarly(srv, cl, up) /\ ~srv.allReady
  BY <1>3 DEF LifeInv, Marks
<1>5. ASSUME NEW d \in Clients PROVE ~Due(down[d])
  <2>1. OnItsWay(cl[d], up[d], down[d], srv.starts) /\ srv.starts \in Nat
    BY DEF LifeInv, Ways, TypeOK, Server
  <2>2. cl[d].arrived = srv.starts
    <3> HIDE DEF Has
    <3> QED BY <1>4 DEF SomeEarly, Early
  <2> QED BY <2>1, <2>2 DEF OnItsWay
<1> QED BY <1>3, <1>4, <1>5

(* Once somebody has been let through and has left the barrier.             *)
LEMMA SomebodyThrough ==
  ASSUME TypeOK, LifeInv, NEW c \in Clients,
         cl[c].phase = "closing" \/ Has(up[c], "reset")
  PROVE  ~SomeEarly(srv, cl, up) /\ ~srv.synced /\ ~srv.allReady /\ srv.starts > 0
<1>1. OnItsWay(cl[c], up[c], down[c], srv.starts) /\ srv.starts \in Nat
  BY DEF LifeInv, Ways, TypeOK, Server
<1> HIDE DEF Has
<1>2. /\ Opened(cl[c], down[c], srv.starts) /\ srv.starts > 0 /\ ~Rest(cl[c], up[c], down[c])
      /\ cl[c].phase # "waiting"
  BY <1>1 DEF OnItsWay, Opened, Rest
<1> HIDE DEF Opened, Rest
<1> QED BY <1>2 DEF LifeInv, Barrier, Marks

(* Whoever has loaded a punched match has been heard.                       *)
LEMMA HeardOnceLoaded ==
  ASSUME NEW k, NEW u, NEW n, NEW p2p, NEW flag, Punches(k, u, n, p2p, flag), p2p, ~Early(k, u, n)
  PROVE  ~Unheard(k, u, n)
<1> HIDE DEF Has
<1> QED BY DEF Punches, Early, Unheard

(* The lobby is reset, by a message or in the server's own process.         *)
LEMMA ResetKept ==
  ASSUME TypeOK, TypeOK', LifeInv, srv'.starts = srv.starts, srv'.mode = srv.mode,
         srv'.members = srv.members, \A i \in Side : srv'.match.ready[i] = -1, srv'.loaded = {},
         \A i \in Side : ~srv'.punch[i], srv'.synced = srv.synced, srv'.allReady = srv.allReady,
         ~srv.synced, ~srv.allReady, ~SomeEarly(srv, cl, up),
         \A d \in Clients :
           /\ SentInOrder(up'[d]) /\ OnItsWay(cl'[d], up'[d], down'[d], srv.starts)
           /\ Punches(cl'[d], up'[d], srv.starts, srv.mode.p2p, FALSE)
           /\ Early(cl'[d], up'[d], srv.starts) => Early(cl[d], up[d], srv.starts)
           /\ Go(cl'[d], down'[d]) => Go(cl[d], down[d])
           /\ cl'[d].punched = cl[d].punched
           /\ \A x : Briefed(cl[d], down[d], srv.starts, x) => Briefed(cl'[d], down'[d], srv.starts, x)
  PROVE  LifeInv'
<1> HIDE DEF SentInOrder, OnItsWay, Punches, Early, Opened, Rest, Go, Has, Briefed, Held
<1>1. ~SomeEarly(srv', cl', up')
  BY DEF SomeEarly
<1>2. \A d : ~Flag(srv', d)
  <2>1. srv.members \in Seq(Clients)
    BY DEF TypeOK, Server
  <2>2. \A d : SideOf(srv.members, d) \in Side \cup {-1}
    BY <2>1, SideIs
  <2> HIDE DEF SideOf
  <2> QED BY <2>2 DEF Flag
<1> HIDE DEF SomeEarly
<1>3. Ways(srv', cl', up', down')
  <2>1. \A d \in Clients : Flag(srv', d) = FALSE
    BY <1>2 DEF Flag
  <2> HIDE DEF Flag
  <2> QED BY <2>1 DEF Ways
<1> HIDE DEF Flag
<1>4. Pairs(srv', cl', up', down')
  <2>1. \A c, d \in Clients : Go(cl'[c], down'[c]) => cl'[d].punched = srv'.starts
    BY DEF LifeInv, Pairs
  <2>2. \A d \in Clients : srv.mode.p2p => ~Unheard(cl'[d], up'[d], srv.starts)
    <3> HIDE DEF Unheard
    <3>1. \A d \in Clients : ~Early(cl'[d], up'[d], srv.starts)
      BY <1>1 DEF SomeEarly
    <3> QED BY <3>1, HeardOnceLoaded
  <2> HIDE DEF Unheard
  <2> QED BY <1>2, <2>1, <2>2 DEF Pairs
<1>5. Barrier(srv', cl', up', down')
  BY <1>1 DEF Barrier
<1>6. Marks(srv', cl', up', down')
  BY <1>1 DEF Marks, LifeInv
<1>7. srv'.starts > 0 => \E x \in Lobby : Brief(srv', cl', up', down', x)
  <2> SUFFICES ASSUME srv'.starts > 0 PROVE \E x \in Lobby : Brief(srv', cl', up', down', x)
    OBVIOUS
  <2>1. PICK x \in Lobby : Brief(srv, cl, up, down, x)
    BY DEF LifeInv
  <2>2. Brief(srv', cl', up', down', x)
    BY <1>1, <2>1 DEF Brief
  <2> QED BY <2>2
<1> HIDE DEF Ways, Pairs, Barrier, Marks, Brief
<1> QED BY <1>3, <1>4, <1>5, <1>6, <1>7 DEF LifeInv

(* What polling one message makes of a client with no start pending.        *)
LEMMA ClientStepIs ==
  ASSUME TypeOK, NEW c \in Clients, ClientStep(c), ~cl[c].pending
  PROVE  LET m == Head(down[c]) IN LET k == cl[c] IN LET j == cl'[c] IN
         /\ m.t # "allready" => /\ j.phase = k.phase /\ j.pending = k.pending /\ j.start = k.start
                                /\ j.battle = k.battle /\ j.arrived = k.arrived /\ j.punched = k.punched
                                /\ j.sentLoaded = k.sentLoaded /\ j.setup = k.setup
                                /\ m.t # "synced" => j.synced = k.synced
                                /\ m.t = "synced" => j.synced
                                /\ m.t # "punch_go" => j.punchGo = k.punchGo
         /\ m.t = "allready" /\ CanStart(k) =>
                /\ j.phase = "loading" /\ ~j.pending /\ j.start = m.n /\ j.battle = m.n
                /\ j.arrived = k.arrived /\ j.punched = k.punched /\ ~j.sentLoaded /\ ~j.synced
                /\ j.punchGo = k.punchGo /\ j.setup = k.view
<1> DEFINE m == Head(down[c])
           k == cl[c]
           j == cl'[c]
<1>1. k \in Client /\ cl \in [Clients -> Client]
  BY DEF TypeOK
<1>2. CASE m.t = "update"
  <2> DEFINE x == OnDataUpdate(k, c, m.data)
  <2>1. /\ x.phase = k.phase /\ x.pending = k.pending /\ x.start = k.start
        /\ x.battle = k.battle /\ x.arrived = k.arrived /\ x.punched = k.punched
        /\ x.sentLoaded = k.sentLoaded /\ x.setup = k.setup /\ x.synced = k.synced /\ x.punchGo = k.punchGo
    <3> HIDE DEF AnswersReady, m, k
    <3> QED BY <1>1 DEF OnDataUpdate, Client
  <2>2. j = TryStartPendingMatch(x)
    <3> HIDE DEF OnDataUpdate
    <3> QED BY <1>1, <1>2 DEF ClientStep
  <2> HIDE DEF x, m, k, j
  <2>3. ~x.pending
    BY <2>1 DEF k
  <2>4. j = x
    BY <2>2, <2>3 DEF TryStartPendingMatch
  <2> QED BY <1>2, <2>1, <2>4 DEF m, k, j
<1>3. CASE m.t = "allready" /\ CanStart(k)
  <2> DEFINE y == [k EXCEPT !.start = m.n]
             x == StartMatchFromLobby(y)
  <2>1. j = TryStartPendingMatch(x)
    <3> HIDE DEF StartMatchFromLobby
    <3> QED BY <1>1, <1>3 DEF ClientStep
  <2> HIDE DEF m, k, j
  <2>2. /\ y.phase = k.phase /\ y.view = k.view /\ y.start = m.n /\ y.battle = k.battle
        /\ y.arrived = k.arrived /\ y.punched = k.punched /\ y.punchGo = k.punchGo /\ CanStart(y)
        /\ DOMAIN y = DOMAIN k
    BY <1>1, <1>3 DEF Client, CanStart
  <2>3. y = [y EXCEPT !.start = y.start] /\ \A f \in DOMAIN k : f \in DOMAIN y
    BY <2>2
  <2>4. /\ x.phase = "loading" /\ ~x.pending /\ x.start = m.n /\ x.battle = m.n
        /\ x.arrived = k.arrived /\ x.punched = k.punched /\ ~x.sentLoaded /\ ~x.synced
        /\ x.punchGo = k.punchGo /\ x.setup = k.view
    <3>1. DOMAIN y = {"conn", "view", "setup", "outstanding", "readies", "settingsSent", "ggpo", "pending",
                      "phase", "sentLoaded", "synced", "punchGo", "results", "aborted", "early", "start",
                      "battle", "arrived", "punched"}
      BY <1>1, <2>2 DEF Client
    <3> HIDE DEF y, CanStart
    <3> QED BY <2>2, <3>1 DEF StartMatchFromLobby
  <2> HIDE DEF x
  <2>5. j = x
    BY <2>1, <2>4 DEF TryStartPendingMatch
  <2> QED BY <1>3, <2>4, <2>5 DEF m, k, j
<1>4. CASE m.t \in {"synced", "punch_go", "joinrej"}
  <2> DEFINE o == IF k.conn = "open" THEN "left" ELSE "gone"
             x == IF m.t = "synced" THEN [k EXCEPT !.synced = TRUE]
                  ELSE IF m.t = "punch_go" THEN [k EXCEPT !.punchGo = TRUE]
                  ELSE [k EXCEPT !.conn = o]
  <2>1. j = TryStartPendingMatch(x)
    BY <1>1, <1>4 DEF ClientStep
  <2> HIDE DEF m, k, j, o
  <2>2. /\ x.phase = k.phase /\ x.pending = k.pending /\ x.start = k.start
        /\ x.battle = k.battle /\ x.arrived = k.arrived /\ x.punched = k.punched
        /\ x.sentLoaded = k.sentLoaded /\ x.setup = k.setup
        /\ m.t # "synced" => x.synced = k.synced
        /\ m.t = "synced" => x.synced
        /\ m.t # "punch_go" => x.punchGo = k.punchGo
    BY <1>1 DEF Client
  <2> HIDE DEF x
  <2>3. ~x.pending
    BY <2>2 DEF k
  <2>4. j = x
    BY <2>1, <2>3 DEF TryStartPendingMatch
  <2> QED BY <1>4, <2>2, <2>4 DEF m, k, j
<1>5. CASE m.t \notin {"update", "allready", "synced", "punch_go", "joinrej"}
  <2>1. j = TryStartPendingMatch(k)
    BY <1>1, <1>5 DEF ClientStep
  <2>2. j = k
    BY <2>1 DEF TryStartPendingMatch
  <2> QED BY <1>5, <2>2
<1>6. CASE m.t = "allready" /\ ~CanStart(k)
  BY <1>6
<1> QED BY <1>2, <1>3, <1>4, <1>5, <1>6

(* An answer under way tells a connection that is not seated.               *)
LEMMA NotIn ==
  ASSUME Duo, TypeOK, MembersDistinct, ReadyInv, LifeInv, NEW c \in Clients,
         down[c] # <<>>, Answers(Head(down[c]))
  PROVE  srv.starts = 0 /\ c \notin Elems(srv.members)
<1>1. JoinsOnce(up[c], down[c], c \in Elems(srv.members), cl[c].conn)
  <2> HIDE DEF JoinsOnce, ShowsSelf, OneReady, MarksFollow, Mark, LobbyData, Elems
  <2> QED BY DEF ReadyInv, PlayerOK
<1>2. 1 \in DOMAIN down[c] /\ Head(down[c]) = down[c][1]
  BY DEF TypeOK
<1>3. c \notin Elems(srv.members)
  <2> HIDE DEF Elems
  <2> QED BY <1>1, <1>2 DEF JoinsOnce, Answers
<1>4. srv.starts \in Nat
  BY DEF TypeOK, Server
<1>5. srv.starts = 0
  <2> HIDE DEF Elems, LifeInv, ReadyInv, MembersDistinct
  <2> QED BY <1>3, <1>4, OpenOnceStarted
<1> QED BY <1>3, <1>5

(* The session client polls one message.                                    *)
LEMMA PolledOne ==
  ASSUME Duo, TypeOK, TypeOK', MembersDistinct, ReadyInv, LifeInv, NEW c \in Clients, ClientStep(c)
  PROVE  LifeInv'
<1> DEFINE k == cl[c]
           j == cl'[c]
           u == up[c]
           w == up'[c]
           q == down[c]
           m == Head(q)
           n == srv.starts
           p2p == srv.mode.p2p
           flag == Flag(srv, c)
<1>1. /\ k \in Client /\ j \in Client /\ u \in Seq(UpMessage) /\ q \in Seq(DownMessage)
      /\ n \in Nat /\ SentInOrder(u) /\ OnItsWay(k, u, q, n) /\ Punches(k, u, n, p2p, flag)
  BY FactsOf DEF TypeOK
<1>2. /\ q # <<>> /\ m \in DownMessage
      /\ \A d \in Clients \ {c} : cl'[d] = cl[d] /\ down'[d] = down[d] /\ up'[d] = up[d]
      /\ down'[c] = IF m.t = "joinrej" THEN <<>> ELSE Tail(q)
      /\ j.view = IF m.t = "update" THEN m.data ELSE k.view
      /\ w = IF m.t = "hello_resp" /\ k.conn = "open" THEN u \o <<[t |-> "joinreq"]>> ELSE u
      /\ srv' = srv
  BY ClientStepEffects
<1>3. SentInOrder(w) /\ \A t \in Kinds : Has(w, t) <=> Has(u, t)
  <2>1. CASE w = u
    BY <1>1, <2>1
  <2>2. CASE w # u
    <3> DEFINE a == [t |-> "joinreq"]
    <3>1. a \in UpMessage /\ a.t = "joinreq" /\ w = u \o <<a>> /\ m.t = "hello_resp" /\ k.conn = "open"
      BY <1>2, <2>2 DEF UpMessage
    <3>2. \A t \in Kinds : a.t # t
      BY <3>1 DEF Kinds
    <3>3. a.t \notin Kinds /\ a.t \notin Picks \cup {"ready", "results"} /\ a.t \notin {"loaded", "punch_ready"}
      BY <3>1 DEF Picks, Kinds
    <3> HIDE DEF a, w, u, SentInOrder, Has, Kinds, Picks
    <3> QED BY <1>1, <3>1, <3>2, <3>3, UpSent
  <2> QED BY <2>1, <2>2
<1>4. ~k.pending
  BY <1>1 DEF OnItsWay
<1>5. /\ m.t # "allready" => /\ j.phase = k.phase /\ j.pending = k.pending /\ j.start = k.start
                             /\ j.battle = k.battle /\ j.arrived = k.arrived /\ j.punched = k.punched
                             /\ j.sentLoaded = k.sentLoaded /\ j.setup = k.setup
                             /\ m.t # "synced" => j.synced = k.synced
                             /\ m.t = "synced" => j.synced
                             /\ m.t # "punch_go" => j.punchGo = k.punchGo
      /\ m.t = "allready" /\ CanStart(k) =>
                /\ j.phase = "loading" /\ ~j.pending /\ j.start = m.n /\ j.battle = m.n
                /\ j.arrived = k.arrived /\ j.punched = k.punched /\ ~j.sentLoaded /\ ~j.synced
                /\ j.punchGo = k.punchGo /\ j.setup = k.view
  BY <1>4, ClientStepIs
<1>6. m.t = "allready" => CanStart(k)
  <2> SUFFICES ASSUME m.t = "allready" PROVE CanStart(k)
    OBVIOUS
  <2>1. Due(q) /\ Once(q, "allready")
    BY <1>1, <1>2, DownTaken DEF OnItsWay, Due
  <2>2. k.phase = "menu" /\ k.start = n - 1 /\ k.start \in Nat
    BY <1>1, <2>1 DEF OnItsWay, Client
  <2>3. n > 0
    BY <1>1, <2>2
  <2>4. PICK x \in Lobby : Brief(srv, cl, up, down, x)
    BY <2>3 DEF LifeInv
  <2>5. Briefed(k, q, n, x) /\ Len(x.members) >= 2
    <3> HIDE DEF Briefed
    <3> QED BY <2>4 DEF Brief
  <2>6. k.view = x
    <3> HIDE DEF Briefed
    <3> QED BY <1>1, <1>2, <2>1, <2>5, BriefStarts
  <2> QED BY <2>2, <2>5, <2>6 DEF CanStart
<1>7. m.t = "joinrej" => n = 0
  <2> HIDE DEF LifeInv
  <2> QED BY <1>2, NotIn DEF Answers
<1> HIDE DEF k, j, u, w, q, m, n, p2p, flag
<1> DEFINE r == IF m.t = "joinrej" THEN <<>> ELSE Tail(q)
<1>8. Moves(k, u, q, j, w, r, n, p2p, flag) /\ \A x : Briefed(k, q, n, x) => Briefed(j, r, n, x)
  <2> HIDE DEF Moves, Briefed, OnItsWay, Punches, SentInOrder, Has, CanStart
  <2>1. CASE m.t = "allready"
    <3>1. w = u /\ r = Tail(q)
      BY <1>2, <2>1
    <3> QED BY <1>1, <1>2, <1>5, <1>6, <2>1, <3>1, StartMoves DEF m
  <2>2. CASE m.t = "synced"
    <3>1. w = u /\ r = Tail(q)
      BY <1>2, <2>2
    <3> QED BY <1>1, <1>2, <1>5, <2>2, <3>1, SyncedMoves DEF m
  <2>3. CASE m.t = "joinrej"
    <3>1. r = <<>> /\ w = u /\ n = 0
      BY <1>2, <1>7, <2>3
    <3> QED BY <1>1, <1>2, <1>3, <1>5, <2>3, <3>1, RejectedMoves
  <2>4. CASE m.t \notin {"allready", "synced", "joinrej"}
    <3>1. r = Tail(q)
      BY <2>4
    <3> QED BY <1>1, <1>2, <1>3, <1>5, <2>4, <3>1, PollMoves DEF m
  <2> QED BY <2>1, <2>2, <2>3, <2>4
<1>9. down'[c] = r
  BY <1>2 DEF q
<1> HIDE DEF r, Moves, Briefed, LifeInv
<1>10. \A x \in Lobby : Len(x.members) >= 2 /\ Briefed(cl[c], down[c], srv.starts, x)
                            => Briefed(cl'[c], down'[c], srv.starts, x)
  BY <1>8, <1>9 DEF k, j, q, n
<1>11. Moves(cl[c], up[c], down[c], cl'[c], up'[c], down'[c], srv.starts, srv.mode.p2p, Flag(srv, c))
  BY <1>8, <1>9 DEF k, j, q, n, u, w, p2p, flag
<1>12. SeatsTaken
  BY DEF ReadyInv
<1> QED BY <1>2, <1>10, <1>11, <1>12, OneMoves

(* One message of a client is sent; nothing of the match changes with it.   *)
LEMMA OneSent ==
  ASSUME TypeOK, LifeInv, NEW c \in Clients, NEW m \in UpMessage, up'[c] = up[c] \o <<m>>,
         m.t \notin Picks \cup {"ready", "results"},
         m.t \in Kinds => ~Has(up[c], "ready"),
         m.t \in {"loaded", "punch_ready"} => ~Has(up[c], m.t),
         m.t = "punch_ready" => ~Has(up[c], "loaded")
  PROVE  SentInOrder(up'[c]) /\ \A t \in Kinds : Has(up'[c], t) <=> Has(up[c], t) \/ t = m.t
<1>1. up[c] \in Seq(UpMessage) /\ SentInOrder(up[c])
  BY FactsOf
<1> HIDE DEF SentInOrder, Has, Kinds, Picks
<1> QED BY <1>1, UpSent

LEMMA QuietKept ==
  ASSUME Duo, TypeOK, TypeOK', MembersDistinct, ReadyInv, LifeInv, NEW c \in Clients,
         Connect(c) \/ PushSettings(c) \/ DeferredClose(c)
  PROVE  LifeInv'
<1> DEFINE k == cl[c]
           j == cl'[c]
           u == up[c]
           w == up'[c]
           q == down[c]
           n == srv.starts
           p2p == srv.mode.p2p
           flag == Flag(srv, c)
<1>1. /\ k \in Client /\ j \in Client /\ u \in Seq(UpMessage) /\ q \in Seq(DownMessage)
      /\ n \in Nat /\ SentInOrder(u) /\ OnItsWay(k, u, q, n) /\ Punches(k, u, n, p2p, flag)
      /\ cl \in [Clients -> Client] /\ up \in [Clients -> Seq(UpMessage)]
  BY FactsOf DEF TypeOK
<1>2. /\ j.phase = k.phase /\ j.pending = k.pending /\ j.start = k.start /\ j.battle = k.battle
      /\ j.arrived = k.arrived /\ j.punched = k.punched /\ j.sentLoaded = k.sentLoaded
      /\ j.synced = k.synced /\ j.punchGo = k.punchGo /\ j.view = k.view /\ j.setup = k.setup
      /\ srv' = srv /\ down'[c] = q
      /\ \A d \in Clients \ {c} : cl'[d] = cl[d] /\ up'[d] = up[d] /\ down'[d] = down[d]
  <2> HIDE DEF Client, LifeInv, ReadyInv, TypeOK, MembersDistinct, Duo
  <2>1. DOMAIN k = {"conn", "view", "setup", "outstanding", "readies", "settingsSent", "ggpo", "pending",
                    "phase", "sentLoaded", "synced", "punchGo", "results", "aborted", "early", "start",
                    "battle", "arrived", "punched"}
    BY <1>1 DEF Client
  <2>2. CASE Connect(c)
    BY <1>1, <2>1, <2>2 DEF Connect, Send
  <2>3. CASE PushSettings(c)
    BY <1>1, <2>1, <2>3 DEF PushSettings, Send
  <2>4. CASE DeferredClose(c)
    BY <1>1, <2>1, <2>4 DEF DeferredClose
  <2> QED BY <2>2, <2>3, <2>4
<1>3. SentInOrder(w) /\ \A t \in Kinds : Has(w, t) <=> Has(u, t)
  <2>1. CASE DeferredClose(c)
    <3>1. w = u
      BY <2>1 DEF DeferredClose
    <3> QED BY <1>1, <3>1
  <2>2. CASE Connect(c) \/ PushSettings(c)
    <3>1. PICK m \in UpMessage : m.t \in {"hello", "setsettings"} /\ w = u \o <<m>>
      <4>1. [t |-> "hello"] \in UpMessage /\ [t |-> "setsettings"] \in UpMessage
        BY DEF UpMessage
      <4>2. w = u \o <<[t |-> "hello"]>> \/ w = u \o <<[t |-> "setsettings"]>>
        BY <1>1, <2>2 DEF Connect, PushSettings, Send
      <4> QED BY <4>1, <4>2
    <3>2. m.t \notin Kinds /\ m.t \notin Picks \cup {"ready", "results"}
          /\ m.t \notin {"loaded", "punch_ready"}
      BY <3>1 DEF Kinds, Picks
    <3>3. SentInOrder(w) /\ \A t \in Kinds : Has(w, t) <=> Has(u, t) \/ t = m.t
      <4> HIDE DEF SentInOrder, Has, Kinds, Picks, LifeInv
      <4> QED BY <3>1, <3>2, OneSent
    <3> QED BY <3>2, <3>3
  <2> QED BY <2>1, <2>2
<1>4. (\A t \in Kinds \ {"ready"} : Has(w, t) <=> Has(u, t)) /\ (Has(w, "ready") => Has(u, "ready"))
  BY <1>3 DEF Kinds
<1> HIDE DEF k, j, u, w, q, n, p2p, flag, Moves, Briefed, OnItsWay, Punches, SentInOrder, Has, LifeInv, Kinds
<1>5. Moves(k, u, q, j, w, q, n, p2p, flag) /\ \A x : Briefed(k, q, n, x) => Briefed(j, q, n, x)
  BY <1>1, <1>2, <1>3, <1>4, QuietMoves
<1>6. SeatsTaken
  BY DEF ReadyInv
<1>7. /\ Moves(cl[c], up[c], down[c], cl'[c], up'[c], down'[c], srv.starts, srv.mode.p2p, Flag(srv, c))
      /\ \A x \in Lobby : Len(x.members) >= 2 /\ Briefed(cl[c], down[c], srv.starts, x)
                            => Briefed(cl'[c], down'[c], srv.starts, x)
  BY <1>2, <1>5 DEF k, j, q, n, u, w, p2p, flag
<1> QED BY <1>2, <1>6, <1>7, OneMoves

(* TryLobbyReady, pressed in the menu.                                      *)
LEMMA PressKept ==
  ASSUME Duo, TypeOK, TypeOK', MembersDistinct, ReadyInv, LifeInv, Unhurried', NEW c \in Clients,
         PressReady(c)
  PROVE  LifeInv'
<1> DEFINE k == cl[c]
           j == cl'[c]
           u == up[c]
           w == up'[c]
           q == down[c]
           n == srv.starts
           p2p == srv.mode.p2p
           flag == Flag(srv, c)
<1>1. /\ k \in Client /\ j \in Client /\ u \in Seq(UpMessage) /\ q \in Seq(DownMessage)
      /\ n \in Nat /\ SentInOrder(u) /\ OnItsWay(k, u, q, n) /\ Punches(k, u, n, p2p, flag)
      /\ cl \in [Clients -> Client] /\ up \in [Clients -> Seq(UpMessage)]
  BY FactsOf DEF TypeOK
<1>2. /\ j.phase = k.phase /\ j.pending = k.pending /\ j.start = k.start /\ j.battle = k.battle
      /\ j.arrived = k.arrived /\ j.punched = k.punched /\ j.sentLoaded = k.sentLoaded
      /\ j.synced = k.synced /\ j.punchGo = k.punchGo /\ j.view = k.view /\ j.setup = k.setup
      /\ srv' = srv /\ down'[c] = q /\ j.early = (k.early \/ k.phase # "menu")
      /\ \A d \in Clients \ {c} : cl'[d] = cl[d] /\ up'[d] = up[d] /\ down'[d] = down[d]
  <2> HIDE DEF SideOf, CanLobbyReady
  <2> QED BY <1>1 DEF PressReady, Send, Client
<1>3. k.phase = "menu"
  BY <1>2 DEF Unhurried
<1>4. k.outstanding = -1 /\ Mark(k.view, c) = -1 /\ SideOf(k.view.members, c) # -1
  <2> HIDE DEF SideOf
  <2> QED BY DEF PressReady, CanLobbyReady, Mark
<1>5. Mark(LobbyData, c) = -1 /\ ~Has(u, "ready")
  BY <1>4, ReadyMeans
<1>6. ~Due(q)
  <2>1. CASE n > 0
    <3> HIDE DEF Due, LifeInv, ReadyInv, MembersDistinct, Mark
    <3> QED BY <1>5, <2>1, NobodyEarly
  <2>2. CASE n = 0
    BY <1>1, <2>2 DEF OnItsWay, Client
  <2> QED BY <1>1, <2>1, <2>2
<1>7. PICK a \in Seq(UpMessage) : w = u \o a /\ \E z \in DOMAIN a : a[z].t = "ready" /\ \A i \in DOMAIN a :
         i # z => i < z /\ a[i].t \in {"setchara", "setenv", "setstage"}
  BY ReadySent
<1>8. SentInOrder(w) /\ \A t \in Kinds : Has(w, t) <=> Has(u, t) \/ t = "ready"
  <2>1. PICK z \in DOMAIN a : a[z].t = "ready" /\ \A i \in DOMAIN a : i # z => i < z /\ a[i].t \in Picks
    BY <1>7 DEF Picks
  <2> HIDE DEF u, w, SentInOrder, Has, Kinds, Picks
  <2> QED BY <1>1, <1>5, <1>7, <2>1, ChoicesSent
<1>9. (\A t \in Kinds \ {"ready"} : Has(w, t) <=> Has(u, t))
  BY <1>8 DEF Kinds
<1> HIDE DEF k, j, u, w, q, n, p2p, flag, Moves, Briefed, OnItsWay, Punches, SentInOrder, Has, LifeInv, Kinds, Due
<1>10. Moves(k, u, q, j, w, q, n, p2p, flag) /\ \A x : Briefed(k, q, n, x) => Briefed(j, q, n, x)
  BY <1>1, <1>2, <1>3, <1>6, <1>8, <1>9, QuietMoves
<1>11. SeatsTaken
  BY DEF ReadyInv
<1>12. /\ Moves(cl[c], up[c], down[c], cl'[c], up'[c], down'[c], srv.starts, srv.mode.p2p, Flag(srv, c))
       /\ \A x \in Lobby : Len(x.members) >= 2 /\ Briefed(cl[c], down[c], srv.starts, x)
                             => Briefed(cl'[c], down'[c], srv.starts, x)
  BY <1>2, <1>10 DEF k, j, q, n, u, w, p2p, flag
<1> QED BY <1>2, <1>11, <1>12, OneMoves

(* The steps of the game process on the way through a match.                *)
LEMMA BattleKept ==
  ASSUME Duo, TypeOK, TypeOK', MembersDistinct, ReadyInv, LifeInv, NEW c \in Clients,
         StartPunch(c) \/ RegisterTasks(c) \/ HasInitialized(c) \/ CloseBattle(c)
         \/ (ExitForeground(c) /\ ~(srv.mode.local /\ c = HostClient))
  PROVE  LifeInv'
<1> DEFINE k == cl[c]
           j == cl'[c]
           u == up[c]
           w == up'[c]
           q == down[c]
           n == srv.starts
           p2p == srv.mode.p2p
           flag == Flag(srv, c)
<1>1. /\ k \in Client /\ j \in Client /\ u \in Seq(UpMessage) /\ q \in Seq(DownMessage)
      /\ n \in Nat /\ SentInOrder(u) /\ OnItsWay(k, u, q, n) /\ Punches(k, u, n, p2p, flag)
      /\ cl \in [Clients -> Client] /\ up \in [Clients -> Seq(UpMessage)]
  BY FactsOf DEF TypeOK
<1>2. p2p \in BOOLEAN /\ flag \in BOOLEAN
  <2>1. p2p \in BOOLEAN
    BY LobbyAssumption DEF TypeOK, Server
  <2>2. flag \in BOOLEAN
    BY Zenon DEF Flag
  <2> QED BY <2>1, <2>2
<1>3. k.phase # "menu"
  BY DEF StartPunch, RegisterTasks, HasInitialized, CloseBattle, ExitForeground
<1>4. n > 0 /\ k.conn = "open" /\ ~Has(u, "ready")
  <2>1. n > 0 /\ ~Has(u, "ready")
    BY <1>1, <1>3 DEF OnItsWay
  <2>2. k.conn = "open"
    <3> HIDE DEF LifeInv, ReadyInv, MembersDistinct
    <3> QED BY <2>1, OpenOnceStarted
  <2> QED BY <2>1, <2>2
<1>5. /\ srv' = srv /\ down'[c] = q
      /\ \A d \in Clients \ {c} : cl'[d] = cl[d] /\ up'[d] = up[d] /\ down'[d] = down[d]
  BY <1>1 DEF StartPunch, RegisterTasks, HasInitialized, CloseBattle, ExitForeground, Send
<1>6. ASSUME NEW m \in UpMessage, m.t \in {"punch_ready", "loaded", "reset"}, Send(c, <<m>>),
             m.t \in {"loaded", "punch_ready"} => ~Has(up[c], m.t),
             m.t = "punch_ready" => ~Has(up[c], "loaded")
      PROVE  SentInOrder(w) /\ \A t \in Kinds : Has(w, t) <=> Has(u, t) \/ t = m.t
  <2>1. w = u \o <<m>>
    BY <1>1, <1>6 DEF Send
  <2>2. m.t \notin Picks \cup {"ready", "results"}
    BY <1>6 DEF Picks
  <2> HIDE DEF SentInOrder, Has, Kinds, Picks, LifeInv
  <2> QED BY <1>4, <1>6, <2>1, <2>2, OneSent
<1>7. [t |-> "punch_ready"] \in UpMessage /\ [t |-> "loaded"] \in UpMessage /\ [t |-> "reset"] \in UpMessage
  BY DEF UpMessage
<1>8. CASE StartPunch(c)
  <2>1. p2p /\ k.phase = "loading" /\ Send(c, <<[t |-> "punch_ready"]>>)
        /\ j = [k EXCEPT !.phase = "punching", !.punchGo = FALSE, !.punched = k.battle]
    BY <1>1, <1>8 DEF StartPunch, Client
  <2>2. ~Has(u, "punch_ready") /\ ~Has(u, "loaded")
    BY <1>1, <2>1 DEF OnItsWay, Punches
  <2>3. SentInOrder(w) /\ \A t \in Kinds : Has(w, t) <=> Has(u, t) \/ t = "punch_ready"
    <3> DEFINE m == [t |-> "punch_ready"]
    <3>1. m \in UpMessage /\ m.t = "punch_ready" /\ Send(c, <<m>>)
      BY <1>7, <2>1
    <3> HIDE DEF m, SentInOrder, Kinds, Send, Has
    <3> QED BY <1>6, <2>2, <3>1
  <2> HIDE DEF k, j, u, w, q, n, p2p, flag, Moves, Briefed, OnItsWay, Punches, SentInOrder, Has, LifeInv, Kinds
  <2>4. Moves(k, u, q, j, w, q, n, p2p, flag) /\ \A x : Briefed(k, q, n, x) => Briefed(j, q, n, x)
    <3>1. /\ k \in Client /\ j \in Client /\ n \in Nat /\ OnItsWay(k, u, q, n) /\ Punches(k, u, n, p2p, flag)
          /\ SentInOrder(w) /\ p2p /\ k.phase = "loading" /\ flag \in BOOLEAN
          /\ j = [k EXCEPT !.phase = "punching", !.punchGo = FALSE, !.punched = k.battle]
          /\ \A t \in Kinds : Has(w, t) <=> Has(u, t) \/ t = "punch_ready"
      BY <1>1, <1>2, <2>1, <2>3
    <3> QED BY ONLY ZenonT(60), <3>1, PunchMoves
  <2>5. SeatsTaken
    BY DEF ReadyInv
  <2>6. /\ Moves(cl[c], up[c], down[c], cl'[c], up'[c], down'[c], srv.starts, srv.mode.p2p, Flag(srv, c))
        /\ \A x \in Lobby : Len(x.members) >= 2 /\ Briefed(cl[c], down[c], srv.starts, x)
                              => Briefed(cl'[c], down'[c], srv.starts, x)
    BY <1>5, <2>4 DEF k, j, q, n, u, w, p2p, flag
  <2> QED BY <1>5, <2>5, <2>6, OneMoves
<1>9. CASE RegisterTasks(c)
  <2>1. /\ k.phase = IF p2p THEN "punching" ELSE "loading"
        /\ j = [k EXCEPT !.phase = "waiting", !.ggpo = Len(k.view.members) >= 2,
                         !.setup = [k.view EXCEPT !.custom = k.setup.custom]]
        /\ w = u
    BY <1>1, <1>4, <1>9 DEF RegisterTasks, Client
  <2> HIDE DEF k, j, u, w, q, n, p2p, flag, Moves, Briefed, OnItsWay, Punches, SentInOrder, Has, LifeInv, Kinds
  <2>4. Moves(k, u, q, j, w, q, n, p2p, flag) /\ \A x : Briefed(k, q, n, x) => Briefed(j, q, n, x)
    <3>1. Moves(k, u, q, j, u, q, n, p2p, flag) /\ \A x : Briefed(k, q, n, x) => Briefed(j, q, n, x)
      BY ONLY <1>1, <1>2, <2>1, RegisterMoves
    <3> QED BY <2>1, <3>1
  <2>5. SeatsTaken
    BY DEF ReadyInv
  <2>6. /\ Moves(cl[c], up[c], down[c], cl'[c], up'[c], down'[c], srv.starts, srv.mode.p2p, Flag(srv, c))
        /\ \A x \in Lobby : Len(x.members) >= 2 /\ Briefed(cl[c], down[c], srv.starts, x)
                              => Briefed(cl'[c], down'[c], srv.starts, x)
    BY <1>5, <2>4 DEF k, j, q, n, u, w, p2p, flag
  <2> QED BY <1>5, <2>5, <2>6, OneMoves
<1>10. CASE HasInitialized(c)
  <2>1. /\ k.phase = "waiting" /\ (~k.sentLoaded \/ k.synced)
        /\ j = [k EXCEPT !.sentLoaded = TRUE, !.phase = IF k.synced THEN "fight" ELSE k.phase,
                         !.arrived = IF k.sentLoaded THEN k.arrived ELSE k.battle]
        /\ k.sentLoaded => w = u
        /\ ~k.sentLoaded => Send(c, <<[t |-> "loaded"]>>)
    BY <1>1, <1>4, <1>10 DEF HasInitialized, Client
  <2>2. k.synced => ~Early(k, u, n)
    <3>1. k.synced => Opened(k, q, n)
      BY DEF Opened
    <3> HIDE DEF Early, Opened
    <3> QED BY <3>1 DEF LifeInv, Barrier, SomeEarly
  <2>3. ~k.sentLoaded => ~Has(u, "loaded")
    BY <1>1, <2>1 DEF OnItsWay
  <2>4. ~k.sentLoaded => SentInOrder(w) /\ \A t \in Kinds : Has(w, t) <=> Has(u, t) \/ t = "loaded"
    <3> DEFINE m == [t |-> "loaded"]
    <3>1. m \in UpMessage /\ m.t = "loaded" /\ (~k.sentLoaded => Send(c, <<m>>))
      BY <1>7, <2>1
    <3> HIDE DEF m, SentInOrder, Kinds, Send, Has
    <3> QED BY <1>6, <2>3, <3>1
  <2>5. SentInOrder(w)
    BY <1>1, <2>1, <2>4
  <2> HIDE DEF k, j, u, w, q, n, p2p, flag, Moves, Briefed, OnItsWay, Punches, SentInOrder, Has, LifeInv, Kinds, Early
  <2>6. Moves(k, u, q, j, w, q, n, p2p, flag) /\ \A x : Briefed(k, q, n, x) => Briefed(j, q, n, x)
    BY <1>1, <2>1, <2>2, <2>4, <2>5, LoadMoves
  <2>7. SeatsTaken
    BY DEF ReadyInv
  <2>8. /\ Moves(cl[c], up[c], down[c], cl'[c], up'[c], down'[c], srv.starts, srv.mode.p2p, Flag(srv, c))
        /\ \A x \in Lobby : Len(x.members) >= 2 /\ Briefed(cl[c], down[c], srv.starts, x)
                              => Briefed(cl'[c], down'[c], srv.starts, x)
    BY <1>5, <2>6 DEF k, j, q, n, u, w, p2p, flag
  <2> QED BY <1>5, <2>7, <2>8, OneMoves
<1>11. CASE CloseBattle(c)
  <2>1. /\ k.phase = "fight" /\ w = u
        /\ j = [k EXCEPT !.phase = "closing", !.ggpo = Len(k.view.members) > 2]
    BY <1>1, <1>11 DEF CloseBattle, Client
  <2> DEFINE g == Len(k.view.members) > 2
  <2> HIDE DEF k, j, u, w, q, n, p2p, flag, Moves, Briefed, OnItsWay, Punches, SentInOrder, Has, LifeInv, Kinds
  <2>4. Moves(k, u, q, j, w, q, n, p2p, flag) /\ \A x : Briefed(k, q, n, x) => Briefed(j, q, n, x)
    <3>1. j = [k EXCEPT !.phase = "closing", !.ggpo = g]
      BY <2>1
    <3> HIDE DEF g
    <3> QED BY <1>1, <2>1, <3>1, CloseMoves
  <2>5. SeatsTaken
    BY DEF ReadyInv
  <2>6. /\ Moves(cl[c], up[c], down[c], cl'[c], up'[c], down'[c], srv.starts, srv.mode.p2p, Flag(srv, c))
        /\ \A x \in Lobby : Len(x.members) >= 2 /\ Briefed(cl[c], down[c], srv.starts, x)
                              => Briefed(cl'[c], down'[c], srv.starts, x)
    BY <1>5, <2>4 DEF k, j, q, n, u, w, p2p, flag
  <2> QED BY <1>5, <2>5, <2>6, OneMoves
<1>12. CASE ExitForeground(c) /\ ~(srv.mode.local /\ c = HostClient)
  <2>1. /\ k.phase = "closing" /\ Send(c, <<[t |-> "reset"]>>)
        /\ j = [k EXCEPT !.phase = "menu", !.sentLoaded = FALSE, !.synced = FALSE]
    BY <1>1, <1>4, <1>12 DEF ExitForeground, Client
  <2>2. SentInOrder(w) /\ \A t \in Kinds : Has(w, t) <=> Has(u, t) \/ t = "reset"
    <3> DEFINE m == [t |-> "reset"]
    <3>1. m \in UpMessage /\ m.t = "reset" /\ Send(c, <<m>>)
      BY <1>7, <2>1
    <3> HIDE DEF m, SentInOrder, Kinds, Send, Has
    <3> QED BY <1>6, <3>1
  <2> HIDE DEF k, j, u, w, q, n, p2p, flag, Moves, Briefed, OnItsWay, Punches, SentInOrder, Has, LifeInv, Kinds
  <2>4. Moves(k, u, q, j, w, q, n, p2p, flag) /\ \A x : Briefed(k, q, n, x) => Briefed(j, q, n, x)
    BY <1>1, <2>1, <2>2, ExitMoves
  <2>5. SeatsTaken
    BY DEF ReadyInv
  <2>6. /\ Moves(cl[c], up[c], down[c], cl'[c], up'[c], down'[c], srv.starts, srv.mode.p2p, Flag(srv, c))
        /\ \A x \in Lobby : Len(x.members) >= 2 /\ Briefed(cl[c], down[c], srv.starts, x)
                              => Briefed(cl'[c], down'[c], srv.starts, x)
    BY <1>5, <2>4 DEF k, j, q, n, u, w, p2p, flag
  <2> QED BY <1>5, <2>5, <2>6, OneMoves
<1> QED BY <1>8, <1>9, <1>10, <1>11, <1>12

(* The hosting process resets the lobby itself.                             *)
LEMMA OwnResetKept ==
  ASSUME TypeOK, TypeOK', LifeInv, NEW c \in Clients,
         ExitForeground(c), srv.mode.local /\ c = HostClient
  PROVE  LifeInv'
<1> DEFINE k == cl[c]
           j == cl'[c]
           u == up[c]
           q == down[c]
           n == srv.starts
           p2p == srv.mode.p2p
<1>1. /\ k \in Client /\ n \in Nat /\ SentInOrder(u) /\ OnItsWay(k, u, q, n)
      /\ Punches(k, u, n, p2p, Flag(srv, c)) /\ cl \in [Clients -> Client]
  BY FactsOf DEF TypeOK
<1>2. /\ k.phase = "closing" /\ srv' = ResetForRematch(srv) /\ up' = up /\ down' = down
      /\ j = [k EXCEPT !.phase = "menu", !.sentLoaded = FALSE, !.synced = FALSE]
      /\ \A d \in Clients \ {c} : cl'[d] = cl[d]
  <2> HIDE DEF Client
  <2> QED BY <1>1 DEF ExitForeground
<1>3. /\ srv'.starts = n /\ srv'.mode = srv.mode /\ srv'.members = srv.members
      /\ \A i \in Side : srv'.match.ready[i] = -1 /\ ~srv'.punch[i]
      /\ srv'.loaded = {} /\ srv'.synced = srv.synced /\ srv'.allReady = srv.allReady
  <2>1. srv \in Server /\ srv.match \in MatchData
    BY DEF TypeOK, Server
  <2> QED BY <1>2, <2>1 DEF ResetForRematch, ClearReady, Server, MatchData
<1>4. ~SomeEarly(srv, cl, up) /\ ~srv.synced /\ ~srv.allReady /\ n > 0
  <2> HIDE DEF LifeInv, SomeEarly
  <2> QED BY <1>2, SomebodyThrough
<1>5. ASSUME NEW d \in Clients
      PROVE  /\ SentInOrder(up[d]) /\ OnItsWay(cl[d], up[d], down[d], n)
             /\ Punches(cl[d], up[d], n, p2p, FALSE)
  <2>1. /\ SentInOrder(up[d]) /\ OnItsWay(cl[d], up[d], down[d], n)
        /\ Punches(cl[d], up[d], n, p2p, Flag(srv, d))
    BY FactsOf
  <2> HIDE DEF SentInOrder, OnItsWay, Flag, Has
  <2> QED BY <2>1 DEF Punches
<1>6. /\ j.phase = "menu" /\ j.punched = k.punched /\ j.punchGo = k.punchGo /\ j.pending = k.pending
      /\ j.start = k.start /\ j.battle = k.battle /\ j.arrived = k.arrived
      /\ ~j.sentLoaded /\ ~j.synced /\ j.view = k.view /\ j.setup = k.setup
  BY <1>1, <1>2 DEF Client
<1>7. /\ OnItsWay(j, u, q, n) /\ Punches(j, u, n, p2p, FALSE)
      /\ Early(j, u, n) => Early(k, u, n)
      /\ Go(j, q) => Go(k, q)
      /\ \A x : Briefed(k, q, n, x) => Briefed(j, q, n, x)
  <2>0. Punches(k, u, n, p2p, FALSE)
    BY <1>5
  <2> HIDE DEF k, j, u, q, n, p2p, Has, Once, Agrees, Due, Client
  <2>1. ~Due(q) /\ k.arrived = n /\ ~Has(q, "synced")
    BY <1>1, <1>2 DEF OnItsWay
  <2>2. OnItsWay(j, u, q, n)
    BY <1>1, <1>2, <1>6, <2>1 DEF OnItsWay
  <2>3. Punches(j, u, n, p2p, FALSE)
    BY <1>2, <1>6, <2>0, <2>1 DEF Punches
  <2>4. Go(j, q) => Go(k, q)
    BY <1>6 DEF Go
  <2>5. \A x : Briefed(k, q, n, x) => Briefed(j, q, n, x)
    BY <1>2, <1>6 DEF Briefed
  <2>6. Early(j, u, n) => Early(k, u, n)
    BY <1>6 DEF Early
  <2> QED BY <2>2, <2>3, <2>4, <2>5, <2>6
<1> HIDE DEF LifeInv, SentInOrder, OnItsWay, Punches, Early, Go, Briefed
<1>8. ASSUME NEW d \in Clients
      PROVE  /\ SentInOrder(up'[d]) /\ OnItsWay(cl'[d], up'[d], down'[d], srv.starts)
             /\ Punches(cl'[d], up'[d], srv.starts, srv.mode.p2p, FALSE)
             /\ Early(cl'[d], up'[d], srv.starts) => Early(cl[d], up[d], srv.starts)
             /\ Go(cl'[d], down'[d]) => Go(cl[d], down[d])
             /\ cl'[d].punched = cl[d].punched
             /\ \A x : Briefed(cl[d], down[d], srv.starts, x) => Briefed(cl'[d], down'[d], srv.starts, x)
  <2>1. CASE d = c
    BY <1>2, <1>5, <1>6, <1>7, <2>1
  <2>2. CASE d # c
    <3>1. cl'[d] = cl[d] /\ up'[d] = up[d] /\ down'[d] = down[d]
      BY <1>2, <2>2
    <3> QED BY <1>5, <3>1
  <2> QED BY <2>1, <2>2
<1> HIDE DEF k, j, u, q, n, p2p, SomeEarly
<1>9. srv'.starts = srv.starts /\ ~SomeEarly(srv, cl, up)
  BY <1>3, <1>4 DEF n
<1> QED BY <1>3, <1>4, <1>8, <1>9, ResetKept

(* Every step of a client.                                                  *)
LEMMA ClientKept ==
  ASSUME Duo, TypeOK, TypeOK', MembersDistinct, ReadyInv, LifeInv, Unhurried', NEW c \in Clients,
         ClientAction(c)
  PROVE  LifeInv'
<1>1. cl[c] \in Client /\ ~cl[c].pending /\ OnItsWay(cl[c], up[c], down[c], srv.starts)
  BY FactsOf DEF OnItsWay
<1>2. ~TickFrame(c)
  BY <1>1 DEF TickFrame, TryStartPendingMatch
<1>3. ~Leave(c) /\ ~AbortMatch(c) /\ ~ReportWin(c)
  BY <1>1 DEF Duo, Leave, AbortMatch, ReportWin, Client
<1> HIDE DEF LifeInv, ReadyInv, MembersDistinct, Duo, Unhurried
<1>4. CASE ClientStep(c)
  BY <1>4, PolledOne
<1>5. CASE Connect(c) \/ PushSettings(c) \/ DeferredClose(c)
  BY <1>5, QuietKept
<1>6. CASE PressReady(c)
  BY <1>6, PressKept
<1>7. CASE StartPunch(c) \/ RegisterTasks(c) \/ HasInitialized(c) \/ CloseBattle(c)
           \/ (ExitForeground(c) /\ ~(srv.mode.local /\ c = HostClient))
  BY <1>7, BattleKept
<1>8. CASE ExitForeground(c) /\ srv.mode.local /\ c = HostClient
  BY <1>8, OwnResetKept
<1> QED BY <1>2, <1>3, <1>4, <1>5, <1>6, <1>7, <1>8 DEF ClientAction

-----------------------------------------------------------------------------
(* The steps of the server                                                  *)

(* A message of c that is not about a match is taken up, and perhaps        *)
(* answered.                                                                *)
LEMMA AnsweredMoves ==
  ASSUME NEW k \in Client, NEW u, NEW w, NEW q \in Seq(DownMessage), NEW r, NEW n \in Nat, NEW p2p, NEW flag,
         OnItsWay(k, u, q, n), Punches(k, u, n, p2p, flag), SentInOrder(w),
         \A t \in Kinds \ {"ready"} : Has(w, t) <=> Has(u, t), Has(w, "ready") => Has(u, "ready"),
         r = q \/ \E a \in DownMessage : Answers(a) /\ r = q \o <<a>>
  PROVE  /\ Moves(k, u, q, k, w, r, n, p2p, flag)
         /\ \A x : Briefed(k, q, n, x) => Briefed(k, r, n, x)
<1>1. /\ Moves(k, u, q, k, w, q, n, p2p, flag)
      /\ OnItsWay(k, w, q, n) /\ Punches(k, w, n, p2p, flag)
  <2> HIDE DEF SentInOrder, OnItsWay, Punches, Moves, Stays, Briefed, Has, Kinds, Client, Due
  <2>1. Moves(k, u, q, k, w, q, n, p2p, flag)
    BY QuietMoves
  <2> QED BY <2>1 DEF Moves, Stays
<1>2. CASE r = q
  <2> HIDE DEF SentInOrder, OnItsWay, Punches, Moves, Briefed, Has, Kinds, Client
  <2> QED BY <1>1, <1>2
<1>3. CASE \E a \in DownMessage : Answers(a) /\ r = q \o <<a>>
  <2>1. PICK a \in DownMessage : a.t \in {"hello_resp", "joinrej"} /\ r = q \o <<a>>
    BY <1>3 DEF Answers
  <2>2. /\ \A t \in {"allready", "synced"} : (Has(r, t) <=> Has(q, t)) /\ (Once(q, t) => Once(r, t))
        /\ (\A i \in DOMAIN q : q[i].t = "allready" => q[i].n = n)
             => \A i \in DOMAIN r : r[i].t = "allready" => r[i].n = n
    BY <2>1, DownSent
  <2>3. Go(k, r) => Go(k, q)
    BY <2>1, GoSent
  <2>4. \A x : Briefed(k, q, n, x) => Briefed(k, r, n, x)
    BY <2>1, BriefSent
  <2> HIDE DEF SentInOrder, Briefed, Has, Once, Kinds, Client, Go
  <2>5. OnItsWay(k, w, r, n)
    BY <1>1, <2>2 DEF OnItsWay, Due
  <2>6. (Due(r) <=> Due(q)) /\ (Has(r, "synced") <=> Has(q, "synced"))
    BY <2>2 DEF Due
  <2> HIDE DEF OnItsWay, Punches, Due
  <2>7. Moves(k, u, q, k, w, r, n, p2p, flag)
    BY <1>1, <2>3, <2>5, <2>6 DEF Moves, Stays, Unheard, Early, Opened, Rest, Held
  <2> QED BY <2>4, <2>7
<1> QED BY <1>2, <1>3

(* Any message of c is taken up by the server.                              *)
LEMMA TakenIs ==
  ASSUME TypeOK, LifeInv, NEW c \in Clients, ServerMessage(c)
  PROVE  /\ cl' = cl /\ \A d \in Clients \ {c} : up'[d] = up[d]
         /\ SentInOrder(up'[c]) /\ Head(up[c]).t # "results"
         /\ \A t \in Kinds : /\ Has(up'[c], t) => Has(up[c], t)
                             /\ Has(up[c], t) => Has(up'[c], t) \/ Head(up[c]).t = t
         /\ Head(up[c]).t \in Kinds => Has(up[c], Head(up[c]).t)
         /\ Head(up[c]).t = "loaded" => ~Has(up'[c], "loaded") /\ ~Has(up'[c], "punch_ready")
         /\ Head(up[c]).t = "punch_ready" => ~Has(up'[c], "punch_ready")
         /\ Head(up[c]).t = "ready" => \A t \in Kinds : ~Has(up'[c], t)
         /\ Head(up[c]).t \in Picks => Has(up[c], "ready")
<1>1. cl' = cl /\ up' = [up EXCEPT ![c] = Tail(up[c])] /\ up \in [Clients -> Seq(UpMessage)]
  BY MessageEffects DEF TypeOK
<1>2. up[c] # <<>> /\ up[c] \in Seq(UpMessage) /\ SentInOrder(up[c])
  <2>1. up[c] # <<>>
    BY DEF ServerMessage, RecvHello, RecvJoinReq, RecvSetChara, RecvSetEnv, RecvSetStage,
     RecvSetSettings, RecvLoaded, RecvReady, RecvResults, RecvReset, RecvPunchReady, Polled
  <2> QED BY <2>1, FactsOf
<1>3. up'[c] = Tail(up[c]) /\ \A d \in Clients \ {c} : up'[d] = up[d]
  BY <1>1
<1> HIDE DEF SentInOrder, Has, Kinds, Picks, LifeInv
<1> QED BY <1>1, <1>2, <1>3, UpTaken

(* Such a message, as everybody sees it.                                    *)
LEMMA TakenMoves ==
  ASSUME TypeOK, LifeInv, NEW c \in Clients, ServerMessage(c),
         Head(up[c]).t \notin {"loaded", "reset", "punch_ready"},
         \A d \in Clients : Flag(srv', d) = Flag(srv, d),
         \A d \in Clients : \/ down'[d] = down[d]
                            \/ \E a \in DownMessage : Answers(a) /\ down'[d] = down[d] \o <<a>>
  PROVE  \A d \in Clients :
           /\ Moves(cl[d], up[d], down[d], cl'[d], up'[d], down'[d], srv.starts, srv.mode.p2p, Flag(srv', d))
           /\ \A x : Briefed(cl[d], down[d], srv.starts, x) => Briefed(cl'[d], down'[d], srv.starts, x)
<1> SUFFICES ASSUME NEW d \in Clients
             PROVE  /\ Moves(cl[d], up[d], down[d], cl'[d], up'[d], down'[d], srv.starts, srv.mode.p2p, Flag(srv', d))
                    /\ \A x : Briefed(cl[d], down[d], srv.starts, x) => Briefed(cl'[d], down'[d], srv.starts, x)
  OBVIOUS
<1> DEFINE k == cl[d]
           u == up[d]
           w == up'[d]
           q == down[d]
           r == down'[d]
           n == srv.starts
           p2p == srv.mode.p2p
           flag == Flag(srv, d)
<1>1. /\ k \in Client /\ u \in Seq(UpMessage) /\ q \in Seq(DownMessage)
      /\ n \in Nat /\ SentInOrder(u) /\ OnItsWay(k, u, q, n) /\ Punches(k, u, n, p2p, flag)
  BY FactsOf DEF TypeOK
<1>2. /\ cl'[d] = k /\ SentInOrder(w)
      /\ \A t \in {"loaded", "reset", "punch_ready"} : Has(w, t) <=> Has(u, t)
      /\ Has(w, "ready") => Has(u, "ready")
  <2> HIDE DEF SentInOrder, Has, LifeInv
  <2>1. CASE d = c
    BY <2>1, TakenIs DEF Kinds
  <2>2. CASE d # c
    BY <1>1, <2>2, TakenIs
  <2> QED BY <2>1, <2>2
<1>3. r = q \/ \E a \in DownMessage : Answers(a) /\ r = q \o <<a>>
  OBVIOUS
<1>4. \A t \in Kinds \ {"ready"} : Has(w, t) <=> Has(u, t)
  BY <1>2 DEF Kinds
<1> HIDE DEF k, u, w, q, r, n, p2p, flag, Moves, Briefed, OnItsWay, Punches, SentInOrder, Has, LifeInv, Kinds, Answers
<1>5. Moves(k, u, q, k, w, r, n, p2p, flag) /\ \A x : Briefed(k, q, n, x) => Briefed(k, r, n, x)
  BY ONLY <1>1, <1>2, <1>3, <1>4, AnsweredMoves
<1> QED BY <1>2, <1>5 DEF k, u, w, q, r, n, p2p, flag

(* Greetings, choices and settings, a refused request to join and a Ready   *)
(* from outside: nothing of a match under way changes.                      *)
LEMMA TalkKept ==
  ASSUME Duo, TypeOK, TypeOK', MembersDistinct, ReadyInv, LifeInv, NEW c \in Clients,
         \/ RecvHello(c) \/ RecvSetChara(c) \/ RecvSetEnv(c) \/ RecvSetStage(c) \/ RecvSetSettings(c)
         \/ RecvJoinReq(c) /\ JoinResult(c) # "ok"
         \/ RecvReady(c) /\ SideOf(srv.members, c) = -1
  PROVE  LifeInv'
<1>0. /\ srv \in Server /\ srv.match \in MatchData /\ srv.members \in Seq(Clients)
      /\ down \in [Clients -> Seq(DownMessage)] /\ ServerMessage(c)
  BY DEF TypeOK, Server, ServerMessage
<1>1. /\ srv'.starts = srv.starts /\ srv'.mode = srv.mode /\ srv'.members = srv.members
      /\ srv'.match.ready = srv.match.ready /\ srv'.punch = srv.punch /\ srv'.loaded = srv.loaded
      /\ srv'.synced = srv.synced /\ srv'.allReady = srv.allReady /\ (srv.dirty => srv'.dirty)
  <2> HIDE DEF SideOf, JoinResult, LifeInv, ReadyInv
  <2> USE <1>0 DEF Handled, Server, MatchData
  <2>1. CASE RecvHello(c)
    BY <2>1 DEF RecvHello
  <2>2. CASE RecvSetChara(c)
    BY <2>2 DEF RecvSetChara
  <2>3. CASE RecvSetEnv(c)
    BY <2>3 DEF RecvSetEnv
  <2>4. CASE RecvSetStage(c)
    BY <2>4 DEF RecvSetStage
  <2>5. CASE RecvSetSettings(c)
    BY <2>5 DEF RecvSetSettings
  <2>6. CASE RecvJoinReq(c) /\ JoinResult(c) # "ok"
    BY <2>6 DEF RecvJoinReq
  <2>7. CASE RecvReady(c) /\ SideOf(srv.members, c) = -1
    BY <2>7 DEF RecvReady
  <2> QED BY <2>1, <2>2, <2>3, <2>4, <2>5, <2>6, <2>7
<1>2. SomeEarly(srv, cl, up) => srv'.match = srv.match
  <2>1. CASE RecvSetChara(c) \/ RecvSetEnv(c) \/ RecvSetStage(c)
    <3>1. Head(up[c]).t \in Picks
      BY <2>1 DEF RecvSetChara, RecvSetEnv, RecvSetStage, Polled, Picks
    <3>2. Mark(LobbyData, c) = -1
      <4> HIDE DEF LifeInv, ReadyInv, Picks, Mark, LobbyData, Has
      <4> QED BY <1>0, <3>1, TakenIs, ReadyMeans
    <3>3. SideOf(srv.members, c) # -1 => ~SomeEarly(srv, cl, up)
      <4> HIDE DEF LifeInv, ReadyInv, MembersDistinct, Mark, LobbyData, SomeEarly, SideOf
      <4> QED BY <3>2, NobodyEarly
    <3>4. SideOf(srv.members, c) = -1 => srv'.match = srv.match
      <4> HIDE DEF SideOf
      <4> QED BY <2>1, <1>0 DEF RecvSetChara, RecvSetEnv, RecvSetStage, Handled, Server
    <3> HIDE DEF SideOf, SomeEarly
    <3> QED BY <3>3, <3>4
  <2>2. CASE ~(RecvSetChara(c) \/ RecvSetEnv(c) \/ RecvSetStage(c))
    <3>1. srv'.match = srv.match
      <4> HIDE DEF SideOf, JoinResult, LifeInv, ReadyInv
      <4> QED BY <2>2, <1>0 DEF RecvHello, RecvSetSettings, RecvJoinReq, RecvReady, Handled, Server
    <3> QED BY <3>1
  <2> QED BY <2>1, <2>2
<1>3. Head(up[c]).t \notin {"loaded", "reset", "punch_ready"}
  BY DEF RecvHello, RecvSetChara, RecvSetEnv, RecvSetStage, RecvSetSettings, RecvJoinReq, RecvReady, Polled
<1>4. ASSUME NEW d \in Clients
      PROVE  \/ down'[d] = down[d]
             \/ \E a \in DownMessage : Answers(a) /\ down'[d] = down[d] \o <<a>>
  <2>1. ASSUME NEW a \in DownMessage, Answers(a), Respond(c, a)
        PROVE  down'[d] = down[d] \/ \E b \in DownMessage : Answers(b) /\ down'[d] = down[d] \o <<b>>
    <3>1. down'[d] = down[d] \/ down'[d] = Append(down[d], a)
      BY <1>0, <2>1 DEF Respond
    <3>2. Append(down[d], a) = down[d] \o <<a>>
      BY <1>0
    <3> QED BY <2>1, <3>1, <3>2
  <2>2. CASE RecvHello(c)
    <3>1. [t |-> "hello_resp"] \in DownMessage /\ Answers([t |-> "hello_resp"])
      BY DEF DownMessage, Answers
    <3>2. Respond(c, [t |-> "hello_resp"])
      BY <2>2 DEF RecvHello
    <3> QED BY <2>1, <3>1, <3>2
  <2>3. CASE RecvJoinReq(c) /\ JoinResult(c) # "ok"
    <3> DEFINE a == [t |-> "joinrej", why |-> JoinResult(c)]
    <3>1. JoinResult(c) \in {"hash_invalid", "lobby_full", "name_taken"}
      BY <2>3 DEF JoinResult
    <3>2. Respond(c, a)
      <4> HIDE DEF JoinResult
      <4> QED BY <2>3 DEF RecvJoinReq
    <3> HIDE DEF JoinResult
    <3>3. a \in DownMessage /\ Answers(a)
      BY <3>1 DEF DownMessage, Answers
    <3> HIDE DEF a, Answers, Respond
    <3> QED BY <2>1, <3>2, <3>3
  <2>4. CASE RecvSetChara(c) \/ RecvSetEnv(c) \/ RecvSetStage(c) \/ RecvSetSettings(c) \/ RecvReady(c)
    <3>1. down' = down
      <4> HIDE DEF SideOf, LifeInv, ReadyInv, MembersDistinct, Duo, TypeOK, JoinResult
      <4> QED BY <2>4 DEF RecvSetChara, RecvSetEnv, RecvSetStage, RecvSetSettings, RecvReady
    <3> QED BY <3>1
  <2> QED BY <2>2, <2>3, <2>4
<1>5. \A d \in Clients : Flag(srv', d) = Flag(srv, d)
  BY <1>1 DEF Flag
<1> HIDE DEF LifeInv, Moves, Briefed, Flag, Brief, SomeEarly, Answers
<1>6. \A d \in Clients :
           /\ Moves(cl[d], up[d], down[d], cl'[d], up'[d], down'[d], srv.starts, srv.mode.p2p, Flag(srv', d))
           /\ \A x : Briefed(cl[d], down[d], srv.starts, x) => Briefed(cl'[d], down'[d], srv.starts, x)
  BY <1>0, <1>3, <1>4, <1>5, TakenMoves
<1>7. SeatsTaken
  BY DEF ReadyInv
<1> QED BY <1>1, <1>2, <1>6, <1>7, AllKept

(* A new member: no match has been started yet.                             *)
LEMMA JoinKept ==
  ASSUME Duo, TypeOK, TypeOK', MembersDistinct, ReadyInv, LifeInv, NEW c \in Clients,
         RecvJoinReq(c), JoinResult(c) = "ok"
  PROVE  LifeInv'
<1>0. /\ srv \in Server /\ srv.match \in MatchData /\ srv.members \in Seq(Clients)
      /\ srv.starts \in Nat /\ ServerMessage(c) /\ srv.punch \in [Side -> BOOLEAN]
  BY DEF TypeOK, Server, ServerMessage
<1>1. /\ srv'.starts = srv.starts /\ srv'.mode = srv.mode /\ srv'.members = Append(srv.members, c)
      /\ srv'.match = srv.match /\ srv'.punch = srv.punch /\ srv'.loaded = srv.loaded
      /\ srv'.synced = srv.synced /\ srv'.allReady = srv.allReady /\ srv'.dirty
      /\ down' = down /\ Head(up[c]).t = "joinreq"
  <2> HIDE DEF JoinResult, LifeInv, ReadyInv
  <2> QED BY <1>0 DEF RecvJoinReq, Handled, Polled, Server
<1>2. c \notin Elems(srv.members)
  <2>1. Asks(Head(up[c]))
    BY <1>1 DEF Asks
  <2> HIDE DEF ReadyInv, Elems, Asks, Answers, Mark, LobbyData, Unmarked, PlayerOK
  <2> QED BY <1>0, <2>1, TakenUp
<1>3. srv.starts = 0
  <2> HIDE DEF Elems, LifeInv, ReadyInv, MembersDistinct
  <2> QED BY <1>0, <1>2, OpenOnceStarted
<1>4. \A i \in Side : srv.punch[i] => i < Len(srv.members)
  BY DEF LifeInv, Pairs
<1>5. /\ Len(srv.members) \in Nat /\ Len(srv'.members) = Len(srv.members) + 1
      /\ \A i \in 1..Len(srv.members) : srv'.members[i] = srv.members[i]
      /\ srv'.members[Len(srv.members) + 1] = c
      /\ \A i \in 1..Len(srv.members) : srv.members[i] # c
  BY <1>0, <1>1, <1>2 DEF Elems
<1>6. ASSUME NEW d \in Clients PROVE Flag(srv', d) = Flag(srv, d)
  <2>1. CASE d # c
    <3>1. SideOf(srv'.members, d) = SideOf(srv.members, d)
      BY <1>5, <2>1 DEF SideOf
    <3> HIDE DEF SideOf
    <3> QED BY <1>1, <3>1 DEF Flag
  <2>2. CASE d = c
    <3>1. SideOf(srv.members, c) = -1
      BY <1>5 DEF SideOf
    <3>2. SideOf(srv'.members, c) \in {-1, 0, 1} /\ (SideOf(srv'.members, c) # -1 =>
             SideOf(srv'.members, c) = Len(srv.members))
      BY <1>5 DEF SideOf
    <3>3. ~Flag(srv, c)
      <4> HIDE DEF SideOf
      <4> QED BY <3>1 DEF Flag
    <3>4. ~Flag(srv', c)
      <4> HIDE DEF SideOf
      <4> QED BY <1>1, <1>4, <1>5, <3>2 DEF Flag, Side
    <3>5. Flag(srv', c) \in BOOLEAN /\ Flag(srv, c) \in BOOLEAN
      BY Zenon DEF Flag
    <3> QED BY <2>2, <3>3, <3>4, <3>5
  <2> QED BY <2>1, <2>2
<1>7. \A d \in Clients :
        Moves(cl[d], up[d], down[d], cl'[d], up'[d], down'[d], srv.starts, srv.mode.p2p, Flag(srv', d))
  <2> HIDE DEF LifeInv, Moves, Briefed, Flag, Answers
  <2> QED BY <1>0, <1>1, <1>6, TakenMoves
<1>8. \A d \in Clients :
        Stays(cl[d], up[d], down[d], cl'[d], up'[d], down'[d], srv.starts, srv.mode.p2p, Flag(srv', d))
  <2> HIDE DEF Stays, Flag
  <2> QED BY <1>7 DEF Moves
<1>9. /\ Ways(srv, cl, up, down) /\ Pairs(srv, cl, up, down)
      /\ Barrier(srv, cl, up, down) /\ Marks(srv, cl, up, down) /\ srv.loaded \subseteq Clients
  BY <1>0 DEF LifeInv, Server
<1>10. /\ \A i \in Side : srv.match.ready[i] # -1 => /\ srv'.members[i + 1] = srv.members[i + 1]
                                                     /\ srv.members[i + 1] \in Clients
       /\ Len(srv.members) >= 2 => Len(srv'.members) >= 2
       /\ Len(srv'.members) >= Len(srv.members) /\ Len(srv'.members) \in Nat
  BY <1>0, <1>5 DEF ReadyInv, SeatsTaken, Side
<1> HIDE DEF Moves, Stays, Flag, Ways, Pairs, Barrier, Marks, Brief, ReadyInv
<1>11. Ways(srv', cl', up', down')
  BY <1>1, <1>8, WaysKept
<1>12. Pairs(srv', cl', up', down')
  BY <1>1, <1>5, <1>6, <1>7, <1>9, <1>10, PairsKept
<1>13. Barrier(srv', cl', up', down')
  BY <1>1, <1>8, <1>9, BarrierKept
<1>14. Marks(srv', cl', up', down')
  <2>1. srv'.match.ready = srv.match.ready /\ (srv.dirty => srv'.dirty)
    BY <1>1
  <2> QED BY <1>1, <1>8, <1>9, <1>10, <2>1, MarksKept
<1> QED BY <1>1, <1>3, <1>11, <1>12, <1>13, <1>14 DEF LifeInv

(* A player's Ready: it is back in the menu, and so is everybody when it is *)
(* the second one.                                                          *)
LEMMA ReadyKept ==
  ASSUME Duo, TypeOK, TypeOK', MembersDistinct, ReadyInv, LifeInv, NEW c \in Clients,
         RecvReady(c), SideOf(srv.members, c) # -1
  PROVE  LifeInv'
<1> DEFINE s == SideOf(srv.members, c)
           h == Head(up[c]).n
<1>0. /\ srv \in Server /\ srv.match \in MatchData /\ srv.members \in Seq(Clients)
      /\ srv.starts \in Nat /\ ServerMessage(c) /\ Polled(c, "ready")
  BY DEF TypeOK, Server, ServerMessage, RecvReady
<1>1. s \in Side /\ s < Len(srv.members) /\ srv.members[s + 1] = c
  <2>1. s \in Side \cup {-1} /\ \A i \in Side : s = i => i < Len(srv.members) /\ srv.members[i + 1] = c
    BY <1>0, SideIs
  <2> HIDE DEF s
  <2>2. s # -1
    BY DEF s
  <2> QED BY <2>1, <2>2
<1>2. h # -1 /\ Head(up[c]).t = "ready"
  <2>1. h \in 1..MaxReadies /\ Head(up[c]).t = "ready"
    BY <1>0, PolledIs
  <2> QED BY <2>1, LobbyAssumption
<1>3. /\ srv'.starts = srv.starts /\ srv'.mode = srv.mode /\ srv'.members = srv.members
      /\ srv'.punch = srv.punch /\ srv'.loaded = srv.loaded /\ srv'.synced = srv.synced
      /\ srv'.dirty /\ down' = down
      /\ srv'.match.ready[s] = h /\ \A i \in Side : i # s => srv'.match.ready[i] = srv.match.ready[i]
      /\ srv'.allReady => srv.allReady \/ IsAllReady(srv'.match)
  <2> DEFINE match == [srv.match EXCEPT !.ready[s] = h]
  <2> HIDE DEF LifeInv, ReadyInv, s, h
  <2>1. /\ srv' = [[srv EXCEPT !.match = match, !.allReady = srv.allReady \/ IsAllReady(match),
                               !.dirty = TRUE] EXCEPT !.batch = srv.batch + 1]
        /\ down' = down
    BY <1>0 DEF RecvReady, Handled, Server, s, h
  <2>2. match.ready[s] = h /\ \A i \in Side : i # s => match.ready[i] = srv.match.ready[i]
    BY <1>0, <1>1 DEF MatchData
  <2> HIDE DEF match
  <2>3. srv'.match = match /\ srv'.allReady = (srv.allReady \/ IsAllReady(match))
    BY <1>0, <2>1 DEF Server
  <2>4. /\ srv'.starts = srv.starts /\ srv'.mode = srv.mode /\ srv'.members = srv.members
        /\ srv'.punch = srv.punch /\ srv'.loaded = srv.loaded /\ srv'.synced = srv.synced
        /\ srv'.dirty
    BY <1>0, <2>1 DEF Server
  <2> QED BY <2>1, <2>2, <2>3, <2>4
<1>4. /\ Has(up[c], "ready") /\ Mark(LobbyData, c) = -1
  <2> HIDE DEF LifeInv, ReadyInv, Mark, LobbyData, Has
  <2>1. Has(up[c], "ready")
    BY <1>0, <1>2, TakenIs DEF Kinds
  <2> QED BY <2>1, ReadyMeans
<1>5. ~SomeEarly(srv, cl, up) /\ ~IsAllReady(srv.match) /\ ~srv.allReady /\ \A d \in Clients : ~Due(down[d])
  <2> HIDE DEF LifeInv, ReadyInv, MembersDistinct, Mark, LobbyData, SomeEarly, SideOf, Due, IsAllReady
  <2> QED BY <1>4, NobodyEarly
<1>6. \A d \in Clients : Flag(srv', d) = Flag(srv, d)
  BY <1>3 DEF Flag
<1>7. \A d \in Clients :
        /\ Moves(cl[d], up[d], down[d], cl'[d], up'[d], down'[d], srv.starts, srv.mode.p2p, Flag(srv', d))
        /\ \A x : Briefed(cl[d], down[d], srv.starts, x) => Briefed(cl'[d], down'[d], srv.starts, x)
  <2> HIDE DEF LifeInv, Moves, Briefed, Flag, Answers
  <2> QED BY <1>0, <1>2, <1>3, <1>6, TakenMoves
<1>8. \A d \in Clients :
        Stays(cl[d], up[d], down[d], cl'[d], up'[d], down'[d], srv.starts, srv.mode.p2p, Flag(srv', d))
  <2> HIDE DEF Stays, Flag
  <2> QED BY <1>7 DEF Moves
<1>9. /\ Ways(srv, cl, up, down) /\ Pairs(srv, cl, up, down)
      /\ Barrier(srv, cl, up, down) /\ Marks(srv, cl, up, down) /\ srv.loaded \subseteq Clients
      /\ Len(srv.members) \in Nat
      /\ srv.starts > 0 => \E x \in Lobby : Brief(srv, cl, up, down, x)
  BY <1>0 DEF LifeInv, Server
<1>10. Rest(cl[c], up[c], down[c])
  <2>1. cl[c].phase = "menu"
    BY <1>4, FactsOf DEF OnItsWay
  <2>2. ~Has(up'[c], "reset")
    <3> HIDE DEF Has, LifeInv
    <3> QED BY <1>0, <1>2, TakenIs DEF Kinds
  <2>3. ~Has(up[c], "reset")
    <3> HIDE DEF Has, LifeInv
    <3> QED BY <1>0, <1>2, <2>2, TakenIs DEF Kinds
  <2> HIDE DEF Has, Due
  <2> QED BY <1>5, <2>1, <2>3 DEF Rest
<1>11. \A i \in Side : srv'.match.ready[i] # -1 =>
         /\ i < Len(srv.members) /\ srv.members[i + 1] \in Clients
         /\ Rest(cl[srv.members[i + 1]], up[srv.members[i + 1]], down[srv.members[i + 1]])
  <2> SUFFICES ASSUME NEW i \in Side, srv'.match.ready[i] # -1
               PROVE  /\ i < Len(srv.members) /\ srv.members[i + 1] \in Clients
                      /\ Rest(cl[srv.members[i + 1]], up[srv.members[i + 1]], down[srv.members[i + 1]])
    OBVIOUS
  <2> HIDE DEF Rest, s, IsAllReady
  <2>1. CASE i = s
    BY <1>1, <1>10, <2>1
  <2>2. CASE i # s
    <3>1. srv.match.ready[i] # -1
      BY <1>3, <2>2
    <3>2. i < Len(srv.members) /\ srv.members[i + 1] \in Clients
      BY <1>0, <3>1 DEF ReadyInv, SeatsTaken, Side
    <3> QED BY <1>5, <1>9, <3>1, <3>2 DEF Marks
  <2> QED BY <2>1, <2>2
<1>12. ~SomeEarly(srv', cl', up')
  <2> HIDE DEF Stays, Early
  <2>1. \A d \in Clients : Early(cl'[d], up'[d], srv.starts) => Early(cl[d], up[d], srv.starts)
    BY <1>8 DEF Stays
  <2> QED BY <1>3, <1>5, <2>1 DEF SomeEarly
<1> HIDE DEF Moves, Stays, Flag, Ways, Pairs, Barrier, Marks, Brief, ReadyInv, SomeEarly, Rest, s, h
<1>13. \A d \in Clients : Rest(cl'[d], up'[d], down'[d]) <=> Rest(cl[d], up[d], down[d])
  BY <1>8 DEF Stays
<1>14. srv'.allReady => IsAllReady(srv'.match) /\ \A d \in Clients : Rest(cl'[d], up'[d], down'[d])
  <2> SUFFICES ASSUME srv'.allReady, NEW d \in Clients
               PROVE  IsAllReady(srv'.match) /\ Rest(cl'[d], up'[d], down'[d])
    OBVIOUS
  <2>1. IsAllReady(srv'.match)
    BY <1>3, <1>5
  <2>2. 0 \in Side /\ 1 \in Side /\ 0 + 1 = 1 /\ 1 + 1 = 2
    BY DEF Side
  <2>3. 1 < Len(srv.members) /\ Rest(cl[srv.members[1]], up[srv.members[1]], down[srv.members[1]])
        /\ Rest(cl[srv.members[2]], up[srv.members[2]], down[srv.members[2]])
    BY <1>11, <2>1, <2>2 DEF IsAllReady
  <2>4. d = srv.members[1] \/ d = srv.members[2]
    <3>1. Len(srv.members) >= 2
      BY <1>9, <2>3
    <3> HIDE DEF MembersDistinct, Duo
    <3> QED BY <3>1, BothSeated
  <2> QED BY <1>13, <2>1, <2>3, <2>4
<1>15. Marks(srv', cl', up', down')
  <2>1. srv'.starts > 0 => Len(srv'.members) >= 2
    BY <1>3, <1>9 DEF Marks
  <2>2. \A i \in Side : srv'.match.ready[i] # -1 =>
          Rest(cl'[srv'.members[i + 1]], up'[srv'.members[i + 1]], down'[srv'.members[i + 1]])
    BY <1>3, <1>11, <1>13
  <2> QED BY <1>3, <1>12, <1>14, <2>1, <2>2 DEF Marks
<1>16. Ways(srv', cl', up', down')
  BY <1>3, <1>8, WaysKept
<1>17. Pairs(srv', cl', up', down')
  BY <1>3, <1>6, <1>7, <1>9, PairsKept
<1>18. Barrier(srv', cl', up', down')
  BY <1>3, <1>8, <1>9, BarrierKept
<1>19. srv'.starts > 0 => \E x \in Lobby : Brief(srv', cl', up', down', x)
  <2> SUFFICES ASSUME srv.starts > 0 PROVE \E x \in Lobby : Brief(srv', cl', up', down', x)
    BY <1>3
  <2>1. PICK x \in Lobby : Brief(srv, cl, up, down, x)
    BY <1>9
  <2> HIDE DEF Briefed
  <2>2. Brief(srv', cl', up', down', x)
    BY <1>3, <1>7, <1>12, <2>1 DEF Brief
  <2> QED BY <2>2
<1> QED BY <1>15, <1>16, <1>17, <1>18, <1>19 DEF LifeInv

(* BATTLE_LOADED: the sender is early no more; when everybody's flag is set *)
(* all of them wait at the barrier.                                         *)
LEMMA LoadedKept ==
  ASSUME Duo, TypeOK, TypeOK', MembersDistinct, ReadyInv, LifeInv, NEW c \in Clients, RecvLoaded(c)
  PROVE  LifeInv'
<1> DEFINE n == srv.starts
           k == cl[c]
           u == up[c]
           w == up'[c]
           q == down[c]
           p2p == srv.mode.p2p
           flag == Flag(srv, c)
<1>0. /\ srv \in Server /\ srv.members \in Seq(Clients) /\ n \in Nat /\ ServerMessage(c)
      /\ Head(u).t = "loaded" /\ srv.loaded \subseteq Clients
  BY DEF TypeOK, Server, ServerMessage, RecvLoaded, Polled
<1>1. /\ srv'.starts = n /\ srv'.mode = srv.mode /\ srv'.members = srv.members
      /\ srv'.match = srv.match /\ srv'.punch = srv.punch
      /\ srv'.loaded = LoadedFlags(c) /\ srv'.synced = EveryoneLoaded(c)
      /\ srv'.allReady = srv.allReady /\ srv'.dirty /\ down' = down
  <2> HIDE DEF LoadedFlags, EveryoneLoaded
  <2> QED BY <1>0 DEF RecvLoaded, Handled, Server
<1>2. /\ cl' = cl /\ (\A d \in Clients \ {c} : up'[d] = up[d]) /\ SentInOrder(w)
      /\ Has(u, "loaded") /\ ~Has(w, "loaded") /\ ~Has(u, "punch_ready") /\ ~Has(w, "punch_ready")
      /\ (Has(w, "ready") => Has(u, "ready")) /\ (Has(w, "reset") <=> Has(u, "reset"))
  <2> HIDE DEF Has, SentInOrder, LifeInv
  <2> QED BY <1>0, TakenIs DEF Kinds
<1>3. /\ k \in Client /\ OnItsWay(k, u, q, n) /\ Punches(k, u, n, p2p, flag)
      /\ k.phase = "waiting" /\ k.arrived = n /\ n > 0
  BY <1>2, FactsOf DEF OnItsWay
<1>4. SomeEarly(srv, cl, up) /\ ~Early(k, w, n)
  <2> HIDE DEF Has
  <2> QED BY <1>2, <1>3 DEF SomeEarly, Early
<1>5. ~srv.synced /\ \A d \in Clients : ~Opened(cl[d], down[d], n)
  <2> HIDE DEF SomeEarly, Opened
  <2> QED BY <1>4 DEF LifeInv, Barrier
<1>6. Moves(k, u, q, k, w, q, n, p2p, flag)
  <2> HIDE DEF k, u, w, q, n, p2p, flag, Has, SentInOrder, LifeInv, Due, Once
  <2>1. OnItsWay(k, w, q, n)
    BY <1>2, <1>3 DEF OnItsWay
  <2>2. Punches(k, w, n, p2p, flag)
    BY <1>2, <1>3 DEF Punches
  <2> HIDE DEF OnItsWay, Punches
  <2>3. ~Early(k, w, n)
    BY <1>4 DEF k
  <2> QED BY <1>2, <1>3, <2>1, <2>2, <2>3 DEF Moves, Stays, Unheard, Opened, Rest, Held
<1>7. \A d \in Clients : Flag(srv', d) = Flag(srv, d)
  BY <1>1 DEF Flag
<1> HIDE DEF Flag, Moves, Briefed
<1>8. ASSUME NEW d \in Clients
      PROVE  /\ Moves(cl[d], up[d], down[d], cl'[d], up'[d], down'[d], srv.starts, srv.mode.p2p, Flag(srv', d))
             /\ \A x : Briefed(cl[d], down[d], srv.starts, x) => Briefed(cl'[d], down'[d], srv.starts, x)
  <2>1. CASE d = c
    BY <1>1, <1>2, <1>6, <1>7, <2>1
  <2>2. CASE d # c
    <3>1. Moves(cl[d], up[d], down[d], cl[d], up[d], down[d], srv.starts, srv.mode.p2p, Flag(srv, d))
      <4> HIDE DEF SentInOrder, OnItsWay, Punches
      <4> QED BY FactsOf, StaysPut
    <3> QED BY <1>1, <1>2, <1>7, <2>2, <3>1
  <2> QED BY <2>1, <2>2
<1>9. \A d \in Clients :
        Stays(cl[d], up[d], down[d], cl'[d], up'[d], down'[d], srv.starts, srv.mode.p2p, Flag(srv', d))
  <2> HIDE DEF Stays
  <2> QED BY <1>8 DEF Moves
<1>10. /\ Ways(srv, cl, up, down) /\ Pairs(srv, cl, up, down)
       /\ Barrier(srv, cl, up, down) /\ Marks(srv, cl, up, down) /\ Len(srv.members) \in Nat
       /\ srv.starts > 0 => \E x \in Lobby : Brief(srv, cl, up, down, x)
  BY <1>0 DEF LifeInv
<1>11. \A i \in Side : srv.match.ready[i] # -1 => srv.members[i + 1] \in Clients
  BY <1>0 DEF ReadyInv, SeatsTaken, Side
<1>12. \A d \in srv'.loaded : d \in Clients /\ ~Early(cl'[d], up'[d], n) /\ Held(cl'[d], up'[d])
  <2> SUFFICES ASSUME NEW d \in srv'.loaded
               PROVE  d \in Clients /\ ~Early(cl'[d], up'[d], n) /\ Held(cl'[d], up'[d])
    OBVIOUS
  <2>1. d = c \/ d \in srv.loaded
    BY <1>1 DEF LoadedFlags
  <2>2. CASE d = c
    BY <1>2, <1>3, <1>4, <2>2 DEF Held
  <2>3. CASE d # c
    <3>1. d \in srv.loaded /\ d \in Clients
      BY <1>0, <2>1, <2>3
    <3> HIDE DEF Early, Held
    <3> QED BY <1>2, <1>10, <2>3, <3>1 DEF Barrier
  <2> QED BY <2>2, <2>3
<1>13. \A d \in Clients : ~Opened(cl'[d], down'[d], n)
  <2> HIDE DEF Opened
  <2> QED BY <1>1, <1>2, <1>5
<1>14. srv'.synced => \A d \in Clients : d \in srv'.loaded
  <2>1. \A d \in Clients : d \in Elems(srv.members)
    <3>1. Len(srv.members) >= 2
      BY <1>3, <1>10 DEF Marks
    <3> HIDE DEF Duo, MembersDistinct
    <3> QED BY <3>1, BothSeated
  <2> QED BY <1>1, <2>1 DEF EveryoneLoaded
<1>15. Barrier(srv', cl', up', down')
  <2>1. srv'.synced => \A d \in Clients : cl'[d].phase = "waiting"
    <3> SUFFICES ASSUME srv'.synced, NEW d \in Clients PROVE cl'[d].phase = "waiting"
      OBVIOUS
    <3>1. Held(cl'[d], up'[d]) /\ ~Opened(cl'[d], down'[d], n)
      <4> HIDE DEF Held, Opened
      <4> QED BY <1>12, <1>13, <1>14
    <3>2. OnItsWay(cl'[d], up'[d], down'[d], n)
      BY <1>9 DEF Stays
    <3> HIDE DEF Has, Due
    <3> QED BY <1>3, <3>1, <3>2 DEF Held, Opened, OnItsWay
  <2>2. srv'.synced => ~SomeEarly(srv', cl', up')
    <3> HIDE DEF Early
    <3> QED BY <1>1, <1>12, <1>14 DEF SomeEarly
  <2> HIDE DEF Early, Opened, Held, SomeEarly
  <2> QED BY <1>1, <1>3, <1>12, <1>13, <2>1, <2>2 DEF Barrier
<1> HIDE DEF Stays, Ways, Pairs, Barrier, Marks, Brief, SomeEarly
<1>16. Ways(srv', cl', up', down')
  BY <1>1, <1>9, WaysKept
<1>17. Pairs(srv', cl', up', down')
  BY <1>1, <1>7, <1>8, <1>10, PairsKept
<1>18. Marks(srv', cl', up', down')
  <2>1. srv'.match.ready = srv.match.ready /\ (srv.dirty => srv'.dirty)
    BY <1>1
  <2> QED BY <1>1, <1>9, <1>10, <1>11, <2>1, MarksKept
<1>19. srv'.starts > 0 => \E x \in Lobby : Brief(srv', cl', up', down', x)
  <2> SUFFICES ASSUME srv.starts > 0 PROVE \E x \in Lobby : Brief(srv', cl', up', down', x)
    BY <1>1
  <2>1. PICK x \in Lobby : Brief(srv, cl, up, down, x)
    BY <1>10
  <2>2. Brief(srv', cl', up', down', x)
    BY <1>1, <1>8, <1>9, <2>1, BriefKept
  <2> QED BY <2>2
<1> QED BY <1>15, <1>16, <1>17, <1>18, <1>19 DEF LifeInv

(* The reset message of a player who is back.                               *)
LEMMA ResetMessageKept ==
  ASSUME Duo, TypeOK, TypeOK', MembersDistinct, ReadyInv, LifeInv, NEW c \in Clients, RecvReset(c)
  PROVE  LifeInv'
<1> DEFINE n == srv.starts
           k == cl[c]
           u == up[c]
           w == up'[c]
           q == down[c]
           p2p == srv.mode.p2p
<1>0. /\ srv \in Server /\ srv.match \in MatchData /\ n \in Nat /\ ServerMessage(c)
      /\ Head(u).t = "reset" /\ srv.members \in Seq(Clients)
  BY DEF TypeOK, Server, ServerMessage, RecvReset, Polled
<1>1. /\ cl' = cl /\ (\A d \in Clients \ {c} : up'[d] = up[d]) /\ SentInOrder(w)
      /\ Has(u, "reset") /\ \A t \in {"loaded", "punch_ready"} : Has(w, t) <=> Has(u, t)
      /\ (Has(w, "ready") => Has(u, "ready")) /\ (Has(w, "reset") => Has(u, "reset"))
  <2> HIDE DEF Has, SentInOrder, LifeInv
  <2> QED BY <1>0, TakenIs DEF Kinds
<1>2. ~SomeEarly(srv, cl, up) /\ ~srv.synced /\ ~srv.allReady /\ n > 0
  <2> HIDE DEF LifeInv, SomeEarly, Has
  <2> QED BY <1>1, SomebodyThrough
<1>3. SideOf(srv.members, c) # -1
  <2>1. Len(srv.members) >= 2
    BY <1>2 DEF LifeInv, Marks
  <2>2. SideOf(srv.members, c) \in Side
    <3> HIDE DEF Duo, MembersDistinct, SideOf
    <3> QED BY <2>1, BothSeated
  <2> HIDE DEF SideOf
  <2> QED BY <2>2 DEF Side
<1>4. /\ srv'.starts = n /\ srv'.mode = srv.mode /\ srv'.members = srv.members
      /\ \A i \in Side : srv'.match.ready[i] = -1 /\ ~srv'.punch[i]
      /\ srv'.loaded = {} /\ srv'.synced = srv.synced /\ srv'.allReady = srv.allReady /\ down' = down
  <2> HIDE DEF SideOf, LifeInv, ReadyInv
  <2>1. srv' = [ResetForRematch(srv) EXCEPT !.batch = ResetForRematch(srv).batch + 1] /\ down' = down
    <3> HIDE DEF ResetForRematch
    <3> QED BY <1>3 DEF RecvReset, Handled
  <2> QED BY <1>0, <2>1 DEF ResetForRematch, ClearReady, Server, MatchData
<1>5. ASSUME NEW d \in Clients
      PROVE  /\ SentInOrder(up[d]) /\ OnItsWay(cl[d], up[d], down[d], n)
             /\ Punches(cl[d], up[d], n, p2p, FALSE)
  <2>1. /\ SentInOrder(up[d]) /\ OnItsWay(cl[d], up[d], down[d], n)
        /\ Punches(cl[d], up[d], n, p2p, Flag(srv, d))
    BY FactsOf
  <2> HIDE DEF SentInOrder, OnItsWay, Flag, Has
  <2> QED BY <2>1 DEF Punches
<1>6. /\ OnItsWay(k, w, q, n) /\ Punches(k, w, n, p2p, FALSE)
      /\ Early(k, w, n) => Early(k, u, n)
  <2>1. OnItsWay(k, u, q, n) /\ Punches(k, u, n, p2p, FALSE)
    BY <1>5
  <2> HIDE DEF k, u, w, q, n, p2p, Has, Once, Due, Client
  <2>2. OnItsWay(k, w, q, n)
    BY <1>1, <2>1 DEF OnItsWay
  <2>3. Punches(k, w, n, p2p, FALSE)
    BY <1>1, <2>1 DEF Punches
  <2> QED BY <1>1, <2>2, <2>3 DEF Early
<1> HIDE DEF LifeInv, SentInOrder, OnItsWay, Punches, Early, Go, Briefed, Has
<1>7. ASSUME NEW d \in Clients
      PROVE  /\ SentInOrder(up'[d]) /\ OnItsWay(cl'[d], up'[d], down'[d], srv.starts)
             /\ Punches(cl'[d], up'[d], srv.starts, srv.mode.p2p, FALSE)
             /\ Early(cl'[d], up'[d], srv.starts) => Early(cl[d], up[d], srv.starts)
             /\ Go(cl'[d], down'[d]) => Go(cl[d], down[d])
             /\ cl'[d].punched = cl[d].punched
             /\ \A x : Briefed(cl[d], down[d], srv.starts, x) => Briefed(cl'[d], down'[d], srv.starts, x)
  <2>1. CASE d = c
    BY <1>1, <1>4, <1>6, <2>1
  <2>2. CASE d # c
    <3>1. cl'[d] = cl[d] /\ up'[d] = up[d] /\ down'[d] = down[d]
      BY <1>1, <1>4, <2>2
    <3> QED BY <1>5, <3>1
  <2> QED BY <2>1, <2>2
<1> HIDE DEF k, u, w, q, p2p, SomeEarly
<1> QED BY <1>2, <1>4, <1>7, ResetKept

(* A client after its PUNCH_READY has been taken up, or when PUNCH_GO is     *)
(* sent to it.                                                              *)
LEMMA HeardStays ==
  ASSUME NEW k \in Client, NEW u, NEW w, NEW q \in Seq(DownMessage), NEW r, NEW n \in Nat, NEW p2p,
         NEW flag, NEW flag2,
         OnItsWay(k, u, q, n), Punches(k, u, n, p2p, flag), SentInOrder(w),
         \A t \in {"loaded", "reset"} : Has(w, t) <=> Has(u, t), Has(w, "ready") => Has(u, "ready"),
         Has(w, "punch_ready") => Has(u, "punch_ready") /\ ~flag2,
         flag2 => p2p /\ k.punched = n /\ n > 0,
         r = q \/ r = q \o <<[t |-> "punch_go"]>>
  PROVE  /\ Stays(k, u, q, k, w, r, n, p2p, flag2)
         /\ \A x : Briefed(k, q, n, x) => Briefed(k, r, n, x)
<1>1. /\ \A t \in {"allready", "synced"} : (Has(r, t) <=> Has(q, t)) /\ (Once(q, t) => Once(r, t))
      /\ (\A i \in DOMAIN q : q[i].t = "allready" => q[i].n = n)
           => \A i \in DOMAIN r : r[i].t = "allready" => r[i].n = n
      /\ \A x : Briefed(k, q, n, x) => Briefed(k, r, n, x)
  <2>1. CASE r = q
    BY <2>1
  <2>2. CASE r # q
    <3> DEFINE a == [t |-> "punch_go"]
    <3>1. a \in DownMessage /\ a.t = "punch_go" /\ r = q \o <<a>>
      BY <2>2 DEF DownMessage
    <3> HIDE DEF a, Briefed, Has, Once
    <3> QED BY <3>1, DownSent, BriefSent
  <2> QED BY <2>1, <2>2
<1> HIDE DEF SentInOrder, Has, Once, Client, Briefed
<1>2. OnItsWay(k, w, r, n)
  BY <1>1 DEF OnItsWay, Due
<1>3. Punches(k, w, n, p2p, flag2)
  BY DEF Punches
<1>4. Stays(k, u, q, k, w, r, n, p2p, flag2)
  <2> HIDE DEF OnItsWay, Punches
  <2> QED BY <1>1, <1>2, <1>3 DEF Stays, Early, Opened, Rest, Held, Due
<1> QED BY <1>1, <1>4

(* PUNCH_READY: the flag of the sender's seat is set, or both players are   *)
(* released.                                                                *)
LEMMA PunchKept ==
  ASSUME Duo, TypeOK, TypeOK', MembersDistinct, ReadyInv, LifeInv, NEW c \in Clients, RecvPunchReady(c)
  PROVE  LifeInv'
<1> DEFINE n == srv.starts
           k == cl[c]
           u == up[c]
           w == up'[c]
           p2p == srv.mode.p2p
           s == SideOf(srv.members, c)
           punch == [srv.punch EXCEPT ![s] = TRUE]
           both == BothPunched(punch)
           go == [t |-> "punch_go"]
<1>0. /\ srv \in Server /\ n \in Nat /\ ServerMessage(c) /\ srv.punch \in [Side -> BOOLEAN]
      /\ Head(u).t = "punch_ready" /\ srv.members \in Seq(Clients)
      /\ down \in [Clients -> Seq(DownMessage)]
  BY DEF TypeOK, Server, ServerMessage, RecvPunchReady, Polled
<1>1. /\ cl' = cl /\ (\A d \in Clients \ {c} : up'[d] = up[d]) /\ SentInOrder(w)
      /\ Has(u, "punch_ready") /\ ~Has(w, "punch_ready")
      /\ \A t \in {"loaded", "reset"} : Has(w, t) <=> Has(u, t)
      /\ (Has(w, "ready") => Has(u, "ready"))
  <2> HIDE DEF Has, SentInOrder, LifeInv
  <2> QED BY <1>0, TakenIs DEF Kinds
<1>2. /\ k \in Client /\ OnItsWay(k, u, down[c], n) /\ Punches(k, u, n, p2p, Flag(srv, c))
      /\ p2p /\ k.punched = n /\ n > 0 /\ ~Flag(srv, c)
  BY <1>1, FactsOf DEF Punches
<1>3. Len(srv.members) >= 2
  BY <1>2 DEF LifeInv, Marks
<1>4. /\ s \in Side /\ s # -1
      /\ \A d \in Clients : d \in Elems(srv.members) /\ SideOf(srv.members, d) \in Side
      /\ \A i \in Side : srv.members[i + 1] \in Clients /\ SideOf(srv.members, srv.members[i + 1]) = i
  <2> HIDE DEF SideOf, Duo, MembersDistinct, LifeInv, ReadyInv
  <2>1. \A d \in Clients : d \in Elems(srv.members) /\ SideOf(srv.members, d) \in Side
    BY <1>3, BothSeated
  <2>2. \A i \in Side : srv.members[i + 1] \in Clients /\ SideOf(srv.members, srv.members[i + 1]) = i
    BY <1>3, BothSeated
  <2> QED BY <2>1, <2>2 DEF Side
<1>5. \A d \in Clients : cl[d].conn = "open"
  <2> HIDE DEF LifeInv, ReadyInv, MembersDistinct, Duo
  <2> QED BY <1>2, OpenOnceStarted
<1>6. /\ srv'.starts = n /\ srv'.mode = srv.mode /\ srv'.members = srv.members
      /\ srv'.match = srv.match /\ srv'.loaded = srv.loaded /\ srv'.synced = srv.synced
      /\ srv'.allReady = srv.allReady /\ srv'.dirty = srv.dirty
      /\ srv'.punch = IF both THEN [x \in Side |-> FALSE] ELSE punch
  <2> HIDE DEF s, LifeInv, ReadyInv, both, punch
  <2>1. srv' = [[srv EXCEPT !.punch = IF both THEN [x \in Side |-> FALSE] ELSE punch]
                EXCEPT !.batch = srv.batch + 1]
    BY <1>0, <1>4 DEF RecvPunchReady, Handled, s, both, punch, Server
  <2> QED BY <1>0, <2>1 DEF Server
<1>7. \A d \in Clients : down'[d] = IF both THEN down[d] \o <<go>> ELSE down[d]
  <2> HIDE DEF s, LifeInv, ReadyInv, both, punch, go
  <2>1. IF both THEN Broadcast(srv.members, <<go>>) ELSE down' = down
    BY <1>4 DEF RecvPunchReady, s, both, punch, go
  <2> QED BY <1>0, <1>4, <1>5, <2>1 DEF Broadcast
<1>8. punch \in [Side -> BOOLEAN] /\ punch[s] = TRUE /\ \A i \in Side : i # s => punch[i] = srv.punch[i]
  <2> HIDE DEF s
  <2> QED BY <1>0, <1>4
<1>9. \A d \in Clients : Flag(srv', d) <=> srv'.punch[SideOf(srv.members, d)]
  <2> HIDE DEF SideOf
  <2> QED BY <1>4, <1>6 DEF Flag, Side
<1>10. \A d \in Clients : Flag(srv, d) <=> srv.punch[SideOf(srv.members, d)]
  <2> HIDE DEF SideOf
  <2> QED BY <1>4 DEF Flag, Side
<1>11. \A d \in Clients : d # c => SideOf(srv.members, d) # s
  <2>1. \A d \in Clients : \A i \in Side : SideOf(srv.members, d) = i => srv.members[i + 1] = d
    <3> HIDE DEF SideOf
    <3> QED BY <1>0, SideIs
  <2> HIDE DEF SideOf
  <2> QED BY <1>4, <2>1
<1>12. /\ both => \A d \in Clients : ~Flag(srv', d)
       /\ ~both => Flag(srv', c) /\ \A d \in Clients \ {c} : ~Flag(srv', d)
       /\ both => \A d \in Clients \ {c} : Flag(srv, d)
       /\ ~both => \A d \in Clients \ {c} : ~Flag(srv, d)
  <2> HIDE DEF SideOf, Flag, punch, both
  <2>1. both => \A d \in Clients : ~Flag(srv', d)
    BY <1>4, <1>6, <1>9
  <2>2. both => \A d \in Clients \ {c} : Flag(srv, d)
    BY <1>4, <1>8, <1>10, <1>11 DEF both, BothPunched
  <2>3. ~both => Flag(srv', c)
    BY <1>4, <1>6, <1>8, <1>9
  <2>4. ASSUME ~both, NEW d \in Clients \ {c} PROVE ~srv.punch[SideOf(srv.members, d)]
    <3>1. PICK i \in Side : ~punch[i]
      BY <2>4 DEF both, BothPunched
    <3>2. i # s
      BY <1>8, <3>1
    <3>3. i = SideOf(srv.members, d)
      <4>1. SideOf(srv.members, d) \in Side /\ SideOf(srv.members, d) # s
        BY <1>4, <1>11
      <4> HIDE DEF s
      <4> QED BY <1>4, <3>2, <4>1 DEF Side
    <3> QED BY <1>8, <3>1, <3>2, <3>3
  <2>5. ~both => \A d \in Clients \ {c} : ~Flag(srv, d)
    BY <1>10, <2>4
  <2>6. ~both => \A d \in Clients \ {c} : ~Flag(srv', d)
    BY <1>4, <1>6, <1>8, <1>9, <1>11, <2>4
  <2> QED BY <2>1, <2>2, <2>3, <2>5, <2>6
<1>13. Early(k, u, n) /\ Pairs(srv, cl, up, down)
  <2> HIDE DEF Has
  <2> QED BY <1>1, <1>2 DEF Punches, Early, LifeInv
<1>14. ASSUME NEW d \in Clients
       PROVE  /\ Stays(cl[d], up[d], down[d], cl'[d], up'[d], down'[d], n, p2p, Flag(srv', d))
              /\ \A x : Briefed(cl[d], down[d], n, x) => Briefed(cl'[d], down'[d], n, x)
  <2>1. /\ cl[d] \in Client /\ down[d] \in Seq(DownMessage) /\ SentInOrder(up[d])
        /\ OnItsWay(cl[d], up[d], down[d], n) /\ Punches(cl[d], up[d], n, p2p, Flag(srv, d))
    BY FactsOf
  <2>2. cl'[d] = cl[d] /\ (down'[d] = down[d] \/ down'[d] = down[d] \o <<[t |-> "punch_go"]>>)
    BY <1>1, <1>7
  <2>3. /\ SentInOrder(up'[d]) /\ \A t \in {"loaded", "reset"} : Has(up'[d], t) <=> Has(up[d], t)
        /\ (Has(up'[d], "ready") => Has(up[d], "ready"))
        /\ (Has(up'[d], "punch_ready") => Has(up[d], "punch_ready") /\ ~Flag(srv', d))
        /\ (Flag(srv', d) => p2p /\ cl[d].punched = n /\ n > 0)
    <3> HIDE DEF SentInOrder, Has, Flag, both
    <3>1. CASE d = c
      BY <1>1, <1>2, <3>1
    <3>2. CASE d # c
      BY <1>1, <1>12, <2>1, <3>2
    <3> QED BY <3>1, <3>2
  <2> HIDE DEF SentInOrder, OnItsWay, Punches, Has, Stays, Briefed, Flag
  <2> DEFINE k1 == cl[d]
             r1 == down'[d]
             f1 == Flag(srv', d)
  <2> HIDE DEF k1, r1, f1, n, p2p
  <2> QED BY ZenonT(60), <1>0, <2>1, <2>2, <2>3, HeardStays DEF n
<1>15. Pairs(srv', cl', up', down')
  <2>1. ~Unheard(cl'[c], up'[c], n) /\ Unheard(k, u, n)
    BY <1>1, <1>2 DEF Unheard
  <2>2. ASSUME NEW d \in Clients, d # c
        PROVE  /\ Unheard(cl'[d], up'[d], n) <=> Unheard(cl[d], up[d], n)
               /\ both => ~Unheard(cl[d], up[d], n) /\ cl[d].punched = n
               /\ ~both => Unheard(cl[d], up[d], n)
    <3>1. Punches(cl[d], up[d], n, p2p, Flag(srv, d))
      BY FactsOf
    <3>2. both => ~Unheard(cl[d], up[d], n) /\ cl[d].punched = n
      <4> HIDE DEF Flag, Has, both
      <4> QED BY <1>12, <2>2, <3>1 DEF Punches, Unheard
    <3>3. ~both => Unheard(cl[d], up[d], n)
      <4>1. Flag(srv, d) <=> ~Unheard(cl[d], up[d], n) /\ Unheard(k, u, n)
        <5> HIDE DEF Flag, Unheard
        <5> QED BY <1>2, <1>13, <2>2 DEF Pairs
      <4> HIDE DEF Flag, Unheard, both
      <4> QED BY <1>12, <2>1, <2>2, <4>1
    <3> QED BY <1>1, <2>2, <3>2, <3>3
  <2>3. \A a, d \in Clients : a # d => a = c \/ d = c
    BY DEF Duo
  <2>4. \A a, d \in Clients : a # d =>
          (Flag(srv', a) <=> ~Unheard(cl'[a], up'[a], n) /\ Unheard(cl'[d], up'[d], n))
    <3> HIDE DEF Flag, Unheard, both
    <3> QED BY <1>12, <2>1, <2>2, <2>3
  <2>5. \A i \in Side : srv'.punch[i] => i < Len(srv'.members)
    BY <1>0, <1>3, <1>6 DEF Side
  <2>6. \A a, d \in Clients : Go(cl'[a], down'[a]) => cl'[d].punched = n
    <3>1. CASE both
      <4>1. \A d \in Clients : cl'[d].punched = n
        <5> HIDE DEF both
        <5> QED BY <1>1, <1>2, <2>2, <3>1
      <4> QED BY <4>1
    <3>2. CASE ~both
      <4> HIDE DEF both, Go
      <4>1. \A a \in Clients : down'[a] = down[a] /\ cl'[a] = cl[a]
        BY <1>1, <1>7, <3>2
      <4> QED BY <1>13, <4>1 DEF Pairs
    <3> QED BY <3>1, <3>2
  <2> HIDE DEF Flag, Unheard, Go
  <2> QED BY <1>6, <2>4, <2>5, <2>6 DEF Pairs
<1>16. /\ Ways(srv, cl, up, down) /\ Barrier(srv, cl, up, down) /\ Marks(srv, cl, up, down)
       /\ srv.loaded \subseteq Clients
       /\ srv.starts > 0 => \E x \in Lobby : Brief(srv, cl, up, down, x)
  BY <1>0 DEF LifeInv, Server
<1>17. \A d \in Clients : Stays(cl[d], up[d], down[d], cl'[d], up'[d], down'[d],
                               srv.starts, srv.mode.p2p, Flag(srv', d))
  <2> HIDE DEF Stays, Flag
  <2> QED BY <1>14
<1>18. \A x : \A d \in Clients : Briefed(cl[d], down[d], srv.starts, x) => Briefed(cl'[d], down'[d], srv.starts, x)
  <2> HIDE DEF Briefed
  <2> QED BY <1>14
<1>19. \A i \in Side : srv.match.ready[i] # -1 => srv.members[i + 1] \in Clients
  BY <1>4
<1> HIDE DEF Flag, Stays, Ways, Pairs, Barrier, Marks, Brief, n, k, u, w, p2p, s, punch, both, go, SomeEarly, Briefed
<1>20. srv'.starts = srv.starts /\ srv'.match.ready = srv.match.ready /\ (srv.dirty => srv'.dirty)
  BY <1>6 DEF n
<1>21. Ways(srv', cl', up', down')
  BY <1>6, <1>17, <1>20, WaysKept
<1>22. Barrier(srv', cl', up', down')
  BY <1>6, <1>16, <1>17, <1>20, BarrierKept
<1>23. Marks(srv', cl', up', down')
  BY <1>6, <1>16, <1>17, <1>19, <1>20, MarksKept
<1>24. srv'.starts > 0 => \E x \in Lobby : Brief(srv', cl', up', down', x)
  <2> SUFFICES ASSUME srv.starts > 0 PROVE \E x \in Lobby : Brief(srv', cl', up', down', x)
    BY <1>20
  <2>1. PICK x \in Lobby : Brief(srv, cl, up, down, x)
    BY <1>16
  <2>2. Brief(srv', cl', up', down', x)
    BY <1>6, <1>17, <1>18, <1>20, <2>1, BriefKept
  <2> QED BY <2>2
<1> QED BY <1>15, <1>21, <1>22, <1>23, <1>24 DEF LifeInv

(* Any message the server takes up.                                         *)
LEMMA MessageKept ==
  ASSUME Duo, TypeOK, TypeOK', MembersDistinct, ReadyInv, LifeInv, NEW c \in Clients, ServerMessage(c)
  PROVE  LifeInv'
<1>1. ~RecvResults(c)
  <2>1. Head(up[c]).t # "results"
    <3> HIDE DEF ServerMessage, LifeInv
    <3> QED BY TakenIs
  <2> QED BY <2>1 DEF RecvResults, Polled
<1> HIDE DEF Duo, MembersDistinct, ReadyInv, LifeInv, SideOf, JoinResult
<1>2. CASE \/ RecvHello(c) \/ RecvSetChara(c) \/ RecvSetEnv(c) \/ RecvSetStage(c) \/ RecvSetSettings(c)
           \/ RecvJoinReq(c) /\ JoinResult(c) # "ok"
           \/ RecvReady(c) /\ SideOf(srv.members, c) = -1
  BY <1>2, TalkKept
<1>3. CASE RecvJoinReq(c) /\ JoinResult(c) = "ok"
  BY <1>3, JoinKept
<1>4. CASE RecvReady(c) /\ SideOf(srv.members, c) # -1
  BY <1>4, ReadyKept
<1>5. CASE RecvLoaded(c)
  BY <1>5, LoadedKept
<1>6. CASE RecvReset(c)
  BY <1>6, ResetMessageKept
<1>7. CASE RecvPunchReady(c)
  BY <1>7, PunchKept
<1> QED BY <1>1, <1>2, <1>3, <1>4, <1>5, <1>6, <1>7 DEF ServerMessage

-----------------------------------------------------------------------------
(* The end of Step                                                          *)

LEMMA TwoSent ==
  ASSUME NEW q \in Seq(DownMessage), NEW a \in DownMessage, NEW b \in DownMessage
  PROVE  q \o (<<a>> \o <<b>>) = (q \o <<a>>) \o <<b>>
OBVIOUS

(* What the end of Step sends.                                              *)
LEMMA FlushIs ==
  ASSUME TypeOK, FlushStep
  PROVE  /\ srv'.mode = srv.mode /\ srv'.members = srv.members /\ srv'.match = srv.match
         /\ srv'.punch = srv.punch /\ srv'.loaded = srv.loaded /\ ~srv'.synced /\ ~srv'.allReady
         /\ srv'.starts = IF srv.allReady THEN srv.starts + 1 ELSE srv.starts
         /\ cl' = cl /\ up' = up
         /\ \A d \in Clients :
              down'[d] = IF d \in Elems(srv.members) /\ cl[d].conn = "open"
                         THEN down[d] \o StepMessages ELSE down[d]
<1>1. srv \in Server /\ down \in [Clients -> Seq(DownMessage)]
  BY DEF TypeOK
<1>2. /\ srv'.mode = srv.mode /\ srv'.members = srv.members /\ srv'.match = srv.match
      /\ srv'.punch = srv.punch /\ srv'.loaded = srv.loaded /\ ~srv'.synced /\ ~srv'.allReady
      /\ srv'.starts = IF srv.allReady THEN srv.starts + 1 ELSE srv.starts
      /\ cl' = cl /\ up' = up
  BY <1>1 DEF FlushStep, Server
<1>3. \A d \in Clients :
        down'[d] = IF d \in Elems(srv.members) /\ cl[d].conn = "open"
                   THEN down[d] \o StepMessages ELSE down[d]
  <2> HIDE DEF StepMessages, Elems
  <2> QED BY <1>1 DEF FlushStep, Broadcast
<1> QED BY <1>2, <1>3

(* A Step without a start and without BATTLE_SYNCED.                        *)
LEMMA UpdateSent ==
  ASSUME NEW k \in Client, NEW u, NEW q \in Seq(DownMessage), NEW r, NEW n \in Nat, NEW p2p, NEW flag,
         OnItsWay(k, u, q, n), Punches(k, u, n, p2p, flag), SentInOrder(u), NEW x \in Lobby,
         r = q \/ r = q \o <<[t |-> "update", data |-> x]>>
  PROVE  /\ Moves(k, u, q, k, u, r, n, p2p, flag)
         /\ \A y : Briefed(k, q, n, y) /\ (k.arrived # n => Agrees(x, y)) => Briefed(k, r, n, y)
<1>1. Moves(k, u, q, k, u, q, n, p2p, flag)
  <2> HIDE DEF SentInOrder, OnItsWay, Punches, Moves
  <2> QED BY StaysPut
<1>2. CASE r = q
  <2> HIDE DEF Moves, Briefed
  <2> QED BY <1>1, <1>2
<1>3. CASE r = q \o <<[t |-> "update", data |-> x]>>
  <2> DEFINE a == [t |-> "update", data |-> x]
  <2>1. a \in DownMessage /\ a.t = "update" /\ a.data = x
    BY DEF DownMessage
  <2>2. r = q \o <<a>>
    BY <1>3
  <2> HIDE DEF a
  <2>3. /\ \A t \in {"allready", "synced"} : (Has(r, t) <=> Has(q, t)) /\ (Once(q, t) => Once(r, t))
        /\ (\A i \in DOMAIN q : q[i].t = "allready" => q[i].n = n)
             => \A i \in DOMAIN r : r[i].t = "allready" => r[i].n = n
    <3> HIDE DEF Has, Once
    <3> QED BY <2>1, <2>2, DownSent
  <2>4. Go(k, r) => Go(k, q)
    BY <2>1, <2>2, GoSent
  <2>5. \A y : Briefed(k, q, n, y) /\ (k.arrived # n => Agrees(x, y)) => Briefed(k, r, n, y)
    <3> HIDE DEF Briefed, Agrees
    <3> QED BY <2>1, <2>2, BriefSent
  <2> HIDE DEF SentInOrder, Briefed, Has, Once, Kinds, Client, Go
  <2>6. OnItsWay(k, u, r, n)
    BY <2>3 DEF OnItsWay, Due
  <2>7. (Due(r) <=> Due(q)) /\ (Has(r, "synced") <=> Has(q, "synced"))
    BY <2>3 DEF Due
  <2> HIDE DEF OnItsWay, Punches, Due
  <2>8. Moves(k, u, q, k, u, r, n, p2p, flag)
    BY <1>1, <2>4, <2>6, <2>7 DEF Moves, Stays, Unheard, Early, Opened, Rest, Held
  <2> QED BY <2>5, <2>8
<1> QED BY <1>2, <1>3

(* BATTLE_SYNCED for a client that waits.                                   *)
LEMMA SyncedSent ==
  ASSUME NEW k \in Client, NEW u, NEW q \in Seq(DownMessage), NEW n \in Nat,
         OnItsWay(k, u, q, n), k.phase = "waiting", ~Opened(k, q, n), ~Early(k, u, n)
  PROVE  LET r == q \o <<[t |-> "synced"]>> IN
         /\ r \in Seq(DownMessage) /\ OnItsWay(k, u, r, n)
         /\ Go(k, r) => Go(k, q)
         /\ Rest(k, u, r) <=> Rest(k, u, q)
         /\ \A y : Briefed(k, q, n, y) => Briefed(k, r, n, y)
<1> DEFINE a == [t |-> "synced"]
           r == q \o <<a>>
<1>1. a \in DownMessage /\ a.t = "synced"
  BY DEF DownMessage
<1> HIDE DEF a
<1>2. /\ r \in Seq(DownMessage) /\ Has(r, "synced") /\ (Has(r, "allready") <=> Has(q, "allready"))
      /\ (Once(q, "allready") => Once(r, "allready"))
      /\ (Once(q, "synced") /\ ~Has(q, "synced") => Once(r, "synced"))
      /\ (\A i \in DOMAIN q : q[i].t = "allready" => q[i].n = n)
           => \A i \in DOMAIN r : r[i].t = "allready" => r[i].n = n
  <2> HIDE DEF Has, Once
  <2> QED BY <1>1, DownSent
<1>3. Go(k, r) => Go(k, q)
  BY <1>1, GoSent
<1>4. \A y : Briefed(k, q, n, y) => Briefed(k, r, n, y)
  <2> HIDE DEF Briefed
  <2> QED BY <1>1, BriefSent
<1> HIDE DEF r, Has, Once, Client, Go, Briefed
<1>5. OnItsWay(k, u, r, n)
  BY <1>2 DEF OnItsWay, Due, Opened, Early
<1> QED BY <1>2, <1>3, <1>4, <1>5 DEF Rest, Due, r, a

(* LOBBY_ALLREADY, right behind the update, for a client at rest.           *)
LEMMA StartSent ==
  ASSUME NEW k \in Client, NEW u, NEW q \in Seq(DownMessage), NEW n \in Nat, NEW p2p, NEW flag,
         OnItsWay(k, u, q, n), Punches(k, u, n, p2p, flag), Rest(k, u, q), ~Has(u, "ready"),
         NEW x \in Lobby
  PROVE  LET r == (q \o <<[t |-> "update", data |-> x]>>) \o <<[t |-> "allready", n |-> n + 1]>> IN
         /\ OnItsWay(k, u, r, n + 1) /\ Punches(k, u, n + 1, p2p, FALSE)
         /\ ~Early(k, u, n) /\ Early(k, u, n + 1) /\ Unheard(k, u, n + 1)
         /\ ~Opened(k, r, n + 1) /\ ~Rest(k, u, r) /\ ~Go(k, r) /\ ~Held(k, u)
         /\ Briefed(k, r, n + 1, x)
<1> DEFINE a == [t |-> "update", data |-> x]
           b == [t |-> "allready", n |-> n + 1]
           p == q \o <<a>>
           r == p \o <<b>>
<1>1. /\ a \in DownMessage /\ a.t = "update" /\ a.data = x
      /\ b \in DownMessage /\ b.t = "allready" /\ b.n = n + 1
  BY DEF DownMessage
<1> HIDE DEF a, b
<1>2. /\ p \in Seq(DownMessage) /\ \A t : Has(p, t) <=> Has(q, t) \/ t = "update"
      /\ (Once(q, "synced") => Once(p, "synced")) /\ (Once(q, "allready") => Once(p, "allready"))
  <2> HIDE DEF Has, Once
  <2> QED BY <1>1, DownSent
<1>3. Len(p) = Len(q) + 1 /\ p[Len(q) + 1] = a /\ Len(q) \in Nat
  BY <1>1, OneMore
<1> HIDE DEF p
<1>4. /\ DOMAIN p = 1..Len(p) /\ DOMAIN r = 1..(Len(p) + 1) /\ r[Len(p) + 1] = b
      /\ \A i \in 1..Len(p) : r[i] = p[i]
  BY <1>1, <1>2
<1>5. /\ \A t : Has(r, t) <=> Has(p, t) \/ t = "allready"
      /\ (Once(p, "synced") => Once(r, "synced"))
      /\ Once(p, "allready") /\ ~Has(p, "allready") => Once(r, "allready")
  <2> HIDE DEF Has, Once
  <2> QED BY <1>1, <1>2, DownSent
<1>6. ~Has(q, "allready") /\ ~Has(p, "allready")
  <2> HIDE DEF Has
  <2> QED BY <1>2 DEF Rest, Due
<1> HIDE DEF r
<1>7. \A i \in DOMAIN r : r[i].t = "allready" <=> i = Len(p) + 1
  BY <1>1, <1>4, <1>6, <1>3 DEF Has
<1>8. /\ Has(r, "allready") /\ (Has(r, "synced") <=> Has(q, "synced")) /\ Once(r, "synced") /\ Once(r, "allready")
      /\ Once(q, "synced") /\ Once(q, "allready")
  <2> HIDE DEF Has, Once
  <2> QED BY <1>2, <1>5, <1>6 DEF OnItsWay
<1>9. /\ k.phase = "menu" /\ k.start = n /\ k.arrived = n /\ ~k.pending /\ ~k.sentLoaded /\ ~k.synced
      /\ k.punched \in Nat /\ k.arrived \in Nat /\ k.start \in Nat /\ n + 1 \in Nat
      /\ ~Has(q, "synced") /\ ~Has(u, "loaded") /\ ~Has(u, "reset")
  <2> HIDE DEF Has, Once
  <2> QED BY DEF OnItsWay, Rest, Client
<1>10. Briefed(k, r, n + 1, x)
  <2>1. \A i \in DOMAIN r : r[i].t = "allready" =>
          i # 1 /\ i - 1 \in DOMAIN r /\ r[i - 1].t = "update" /\ r[i - 1].data = x
    BY <1>1, <1>3, <1>4, <1>7
  <2>2. \A j \in DOMAIN r : ~(\A i \in DOMAIN r : r[i].t = "allready" => i < j)
    BY <1>3, <1>4, <1>7
  <2> HIDE DEF Agrees
  <2> QED BY <1>9, <2>1, <2>2 DEF Briefed
<1>11. ~Go(k, r)
  BY <1>3, <1>4, <1>7, <1>9, <1>1 DEF Go
<1>12. \A i \in DOMAIN r : r[i].t = "allready" => r[i].n = n + 1
  BY <1>1, <1>4, <1>7
<1>13. k.punched <= n /\ ~Has(u, "punch_ready") /\ ~Early(k, u, n)
  <2> HIDE DEF Has
  <2> QED BY <1>9 DEF Punches, Early
<1> HIDE DEF Has, Once, Go, Briefed
<1>14. OnItsWay(k, u, r, n + 1)
  BY <1>8, <1>9, <1>12 DEF OnItsWay, Due
<1>15. Punches(k, u, n + 1, p2p, FALSE)
  BY <1>9, <1>13 DEF Punches
<1>16. /\ Early(k, u, n + 1) /\ Unheard(k, u, n + 1) /\ ~Opened(k, r, n + 1) /\ ~Rest(k, u, r) /\ ~Held(k, u)
  BY <1>8, <1>9, <1>13 DEF Early, Unheard, Opened, Rest, Held, Due
<1> HIDE DEF OnItsWay, Punches, Early, Unheard, Opened, Rest, Held
<1> QED BY <1>10, <1>11, <1>13, <1>14, <1>15, <1>16 DEF r, p, a, b

(* The update of a Step that starts nothing.                                *)
LEMMA UpdateKept ==
  ASSUME Duo, TypeOK, TypeOK', MembersDistinct, ReadyInv, LifeInv, FlushStep, ~srv.allReady, ~srv.synced
  PROVE  LifeInv'
<1>1. /\ srv'.mode = srv.mode /\ srv'.members = srv.members /\ srv'.match = srv.match
      /\ srv'.punch = srv.punch /\ srv'.loaded = srv.loaded /\ ~srv'.synced /\ ~srv'.allReady
      /\ srv'.starts = srv.starts /\ cl' = cl /\ up' = up
      /\ \A d \in Clients :
           down'[d] = IF d \in Elems(srv.members) /\ cl[d].conn = "open"
                      THEN down[d] \o StepMessages ELSE down[d]
  <2> HIDE DEF Elems, StepMessages
  <2> QED BY FlushIs
<1>2. /\ srv.synced \in BOOLEAN /\ srv'.synced \in BOOLEAN /\ srv.allReady \in BOOLEAN
      /\ srv'.allReady \in BOOLEAN /\ LobbyData \in Lobby
  BY DEF TypeOK, Server, LobbyData, Lobby
<1>3. StepMessages = IF srv.dirty THEN <<[t |-> "update", data |-> LobbyData]>> ELSE <<>>
  <2> DEFINE a == [t |-> "update", data |-> LobbyData]
  <2> HIDE DEF a
  <2>1. StepMessages = ((IF srv.dirty THEN <<a>> ELSE <<>>) \o <<>>) \o <<>>
    BY DEF StepMessages, UpdateMessage, ReadyMessage, SyncedMessage, a
  <2>2. <<a>> \o <<>> = <<a>> /\ <<>> \o <<>> = <<>>
    OBVIOUS
  <2> QED BY <2>1, <2>2 DEF a
<1>4. \A d \in Clients : \/ down'[d] = down[d]
                         \/ down'[d] = down[d] \o <<[t |-> "update", data |-> LobbyData]>>
  <2>1. \A d \in Clients : down[d] \o <<>> = down[d]
    BY DEF TypeOK
  <2> HIDE DEF Elems, LobbyData
  <2> QED BY <1>1, <1>3, <2>1
<1>5. \A d \in Clients : Flag(srv', d) = Flag(srv, d)
  BY <1>1 DEF Flag
<1>6. ASSUME NEW d \in Clients
      PROVE  /\ Moves(cl[d], up[d], down[d], cl'[d], up'[d], down'[d], srv.starts, srv.mode.p2p, Flag(srv', d))
             /\ \A y : Briefed(cl[d], down[d], srv.starts, y)
                         /\ (cl[d].arrived # srv.starts => Agrees(LobbyData, y))
                       => Briefed(cl'[d], down'[d], srv.starts, y)
  <2> DEFINE k == cl[d]
             u == up[d]
             q == down[d]
             r == down'[d]
             f == Flag(srv, d)
             p == srv.mode.p2p
             n == srv.starts
  <2>1. /\ k \in Client /\ q \in Seq(DownMessage) /\ n \in Nat /\ SentInOrder(u)
        /\ OnItsWay(k, u, q, n) /\ Punches(k, u, n, p, f)
    BY FactsOf
  <2>2. r = q \/ r = q \o <<[t |-> "update", data |-> LobbyData]>>
    BY <1>4
  <2>3. cl'[d] = k /\ up'[d] = u /\ Flag(srv', d) = f
    BY <1>1, <1>5
  <2> HIDE DEF SentInOrder, OnItsWay, Punches, Moves, Briefed, LobbyData, Agrees, Flag, k, u, q, r, f, p, n
  <2>4. /\ Moves(k, u, q, k, u, r, n, p, f)
        /\ \A y : Briefed(k, q, n, y) /\ (k.arrived # n => Agrees(LobbyData, y)) => Briefed(k, r, n, y)
    BY <1>2, <2>1, <2>2, UpdateSent
  <2> QED BY <2>3, <2>4 DEF k, u, q, r, f, p, n
<1>7. \A x \in Lobby : Len(x.members) >= 2 /\ Brief(srv, cl, up, down, x) => \A d \in Clients :
         Briefed(cl[d], down[d], srv.starts, x) => Briefed(cl'[d], down'[d], srv.starts, x)
  <2> SUFFICES ASSUME NEW x \in Lobby, Brief(srv, cl, up, down, x), NEW d \in Clients,
                      Briefed(cl[d], down[d], srv.starts, x)
               PROVE  Briefed(cl'[d], down'[d], srv.starts, x)
    OBVIOUS
  <2>1. cl[d].arrived # srv.starts => Agrees(LobbyData, x)
    <3> HIDE DEF Has, Briefed
    <3> QED BY DEF Brief, SomeEarly, Early, Agrees, LobbyData
  <2> HIDE DEF Briefed, Agrees, LobbyData, Moves, Brief
  <2> QED BY <1>6, <2>1
<1>8. SeatsTaken
  BY DEF ReadyInv
<1>9. \A d \in Clients : Moves(cl[d], up[d], down[d], cl'[d], up'[d], down'[d],
                               srv.starts, srv.mode.p2p, Flag(srv', d))
  <2> HIDE DEF Moves, Briefed, Flag
  <2> QED BY <1>6
<1> HIDE DEF LifeInv, Moves, Briefed, Flag, Brief, SomeEarly, LobbyData
<1>10. srv'.synced = srv.synced /\ srv'.allReady = srv.allReady /\ srv'.match.ready = srv.match.ready
  BY <1>1, <1>2
<1> QED BY <1>1, <1>7, <1>8, <1>9, <1>10, AllKept

(* The Step that opens the barrier.                                         *)
LEMMA SyncedKept ==
  ASSUME Duo, TypeOK, TypeOK', MembersDistinct, ReadyInv, LifeInv, FlushStep, ~srv.allReady, srv.synced
  PROVE  LifeInv'
<1> DEFINE n == srv.starts
           p2p == srv.mode.p2p
           a == [t |-> "update", data |-> LobbyData]
           b == [t |-> "synced"]
           m(d) == IF srv.dirty THEN down[d] \o <<a>> ELSE down[d]
<1>1. /\ srv'.mode = srv.mode /\ srv'.members = srv.members /\ srv'.match = srv.match
      /\ srv'.punch = srv.punch /\ srv'.loaded = srv.loaded /\ ~srv'.synced /\ ~srv'.allReady
      /\ srv'.starts = srv.starts /\ cl' = cl /\ up' = up
      /\ \A d \in Clients :
           down'[d] = IF d \in Elems(srv.members) /\ cl[d].conn = "open"
                      THEN down[d] \o StepMessages ELSE down[d]
  <2> HIDE DEF Elems, StepMessages
  <2> QED BY FlushIs
<1>2. ~SomeEarly(srv, cl, up) /\ \A d \in Clients : cl[d].phase = "waiting" /\ ~Opened(cl[d], down[d], n)
  <2> HIDE DEF SomeEarly, Opened
  <2> QED BY DEF LifeInv, Barrier
<1>3. \A d \in Clients : ~Early(cl[d], up[d], n)
  BY <1>2 DEF SomeEarly
<1>4. HostClient \in Clients
  BY LobbyAssumption
<1>5. \A d \in Clients : cl[d].phase = "waiting" => n > 0
  <2> HIDE DEF Has, Once
  <2> QED BY DEF LifeInv, Ways, OnItsWay
<1>6. \A d \in Clients : cl[d].conn = "open" /\ d \in Elems(srv.members)
  <2>1. n > 0
    <3> HIDE DEF n
    <3> QED BY <1>2, <1>4, <1>5
  <2> HIDE DEF LifeInv, ReadyInv, MembersDistinct, Duo, Elems
  <2> QED BY <2>1, OpenOnceStarted
<1>7. a \in DownMessage /\ b \in DownMessage /\ LobbyData \in Lobby
  BY DEF TypeOK, Server, LobbyData, Lobby, DownMessage
<1>8. \A d \in Clients : down'[d] = m(d) \o <<b>>
  <2> HIDE DEF a, b, LobbyData
  <2>1. StepMessages = ((IF srv.dirty THEN <<a>> ELSE <<>>) \o <<>>) \o <<b>>
    BY DEF StepMessages, UpdateMessage, ReadyMessage, SyncedMessage, a, b
  <2>2. <<a>> \o <<>> = <<a>> /\ <<>> \o <<>> = <<>> /\ <<>> \o <<b>> = <<b>>
    OBVIOUS
  <2>3. StepMessages = IF srv.dirty THEN <<a>> \o <<b>> ELSE <<b>>
    BY <2>1, <2>2
  <2>4. \A d \in Clients : down[d] \o (<<a>> \o <<b>>) = (down[d] \o <<a>>) \o <<b>>
    BY <1>7, TwoSent DEF TypeOK
  <2> HIDE DEF StepMessages, Elems
  <2> QED BY <1>1, <1>6, <2>3, <2>4
<1>9. ASSUME NEW d \in Clients
      PROVE  /\ SentInOrder(up[d]) /\ OnItsWay(cl[d], up[d], down'[d], n)
             /\ Punches(cl[d], up[d], n, p2p, Flag(srv, d))
             /\ Go(cl[d], down'[d]) => Go(cl[d], down[d])
             /\ Rest(cl[d], up[d], down'[d]) <=> Rest(cl[d], up[d], down[d])
             /\ \A y : Briefed(cl[d], down[d], n, y) => Briefed(cl[d], down'[d], n, y)
  <2> DEFINE k == cl[d]
             u == up[d]
             q == down[d]
             s == m(d)
             f == Flag(srv, d)
  <2>1. /\ k \in Client /\ q \in Seq(DownMessage) /\ n \in Nat /\ SentInOrder(u)
        /\ OnItsWay(k, u, q, n) /\ Punches(k, u, n, p2p, f)
    BY FactsOf
  <2>2. k.arrived = n /\ k.phase = "waiting" /\ ~Opened(k, q, n) /\ ~Early(k, u, n)
    <3> HIDE DEF Has, Opened, n
    <3> QED BY <1>2, <1>3 DEF Early
  <2>3. s = q \/ s = q \o <<[t |-> "update", data |-> LobbyData]>>
    OBVIOUS
  <2>4. s \in Seq(DownMessage)
    <3> HIDE DEF a
    <3> QED BY <1>7, <2>1
  <2> HIDE DEF SentInOrder, OnItsWay, Punches, Moves, Briefed, LobbyData, Agrees, Flag, Opened, Early,
               Go, Rest, k, u, q, s, f, n, p2p, m, a
  <2>5. /\ Moves(k, u, q, k, u, s, n, p2p, f)
        /\ \A y : Briefed(k, q, n, y) /\ (k.arrived # n => Agrees(LobbyData, y)) => Briefed(k, s, n, y)
    BY <1>7, <2>1, <2>3, UpdateSent
  <2>6. /\ OnItsWay(k, u, s, n) /\ ~Opened(k, s, n) /\ (Go(k, s) => Go(k, q))
        /\ (Rest(k, u, s) <=> Rest(k, u, q))
    BY <2>2, <2>5 DEF Moves, Stays
  <2>7. down'[d] = s \o <<[t |-> "synced"]>>
    BY <1>8 DEF s, b
  <2> DEFINE r == s \o <<[t |-> "synced"]>>
  <2>8. /\ OnItsWay(k, u, r, n) /\ (Go(k, r) => Go(k, s)) /\ (Rest(k, u, r) <=> Rest(k, u, s))
        /\ \A y : Briefed(k, s, n, y) => Briefed(k, r, n, y)
    BY <2>1, <2>2, <2>4, <2>6, SyncedSent
  <2> HIDE DEF r
  <2>9. down'[d] = r
    BY <2>7 DEF r
  <2> QED BY <2>1, <2>2, <2>5, <2>6, <2>8, <2>9 DEF k, u, q, f
<1>10. \A d \in Clients : Flag(srv', d) = Flag(srv, d)
  BY <1>1 DEF Flag
<1> HIDE DEF SentInOrder, OnItsWay, Punches, Briefed, Flag, Early, Go, Rest, Opened, Unheard, Has, Held, m, a, b
<1>11. Ways(srv', cl', up', down')
  BY <1>1, <1>9, <1>10 DEF Ways
<1>12. Pairs(srv', cl', up', down')
  <2>1. Pairs(srv, cl, up, down)
    BY DEF LifeInv
  <2>2. srv'.mode.p2p => \A c, d \in Clients : c # d =>
          (Flag(srv', c) <=> ~Unheard(cl'[c], up'[c], srv'.starts) /\ Unheard(cl'[d], up'[d], srv'.starts))
    BY <1>1, <1>10, <2>1 DEF Pairs
  <2>3. \A i \in Side : srv'.punch[i] => i < Len(srv'.members)
    BY <1>1, <2>1 DEF Pairs
  <2>4. \A c, d \in Clients : Go(cl'[c], down'[c]) => cl'[d].punched = srv'.starts
    BY <1>1, <1>9, <2>1 DEF Pairs
  <2> QED BY <2>2, <2>3, <2>4 DEF Pairs
<1>13. ~SomeEarly(srv', cl', up')
  BY <1>1, <1>3 DEF SomeEarly
<1> HIDE DEF SomeEarly
<1>14. Barrier(srv', cl', up', down')
  <2>1. Barrier(srv, cl, up, down)
    BY DEF LifeInv
  <2> QED BY <1>1, <1>13, <2>1 DEF Barrier
<1>15. \A i \in Side : srv.match.ready[i] # -1 => srv.members[i + 1] \in Clients
  BY SMTT(30) DEF ReadyInv, SeatsTaken, TypeOK, Server, Side
<1>16. Marks(srv', cl', up', down')
  <2>1. Marks(srv, cl, up, down)
    BY DEF LifeInv
  <2>2. \A d \in Clients : Rest(cl'[d], up'[d], down'[d]) <=> Rest(cl[d], up[d], down[d])
    BY <1>1, <1>9
  <2> HIDE DEF IsAllReady
  <2> QED BY <1>1, <1>13, <1>15, <2>1, <2>2 DEF Marks
<1>17. srv'.starts > 0 => \E x \in Lobby : Brief(srv', cl', up', down', x)
  <2> SUFFICES ASSUME srv.starts > 0 PROVE \E x \in Lobby : Brief(srv', cl', up', down', x)
    BY <1>1
  <2>1. PICK x \in Lobby : Brief(srv, cl, up, down, x)
    BY DEF LifeInv
  <2>2. Brief(srv', cl', up', down', x)
    BY <1>1, <1>9, <1>13, <2>1 DEF Brief
  <2> QED BY <2>2
<1> HIDE DEF Ways, Pairs, Barrier, Marks, Brief
<1> QED BY <1>11, <1>12, <1>14, <1>16, <1>17 DEF LifeInv

(* The Step that starts a match.                                            *)
LEMMA StartKept ==
  ASSUME Duo, TypeOK, TypeOK', MembersDistinct, ReadyInv, LifeInv, FlushStep, srv.allReady
  PROVE  LifeInv'
<1> DEFINE n == srv.starts
           p2p == srv.mode.p2p
           a == [t |-> "update", data |-> LobbyData]
           b == [t |-> "allready", n |-> n + 1]
<1>0. /\ srv \in Server /\ n \in Nat /\ srv.members \in Seq(Clients) /\ Len(srv.members) \in Nat
      /\ srv.loaded \subseteq Clients /\ srv.punch \in [Side -> BOOLEAN]
  BY DEF TypeOK, Server
<1>1. /\ srv'.mode = srv.mode /\ srv'.members = srv.members /\ srv'.match = srv.match
      /\ srv'.punch = srv.punch /\ srv'.loaded = srv.loaded /\ ~srv'.synced /\ ~srv'.allReady
      /\ srv'.starts = n + 1 /\ cl' = cl /\ up' = up
      /\ \A d \in Clients :
           down'[d] = IF d \in Elems(srv.members) /\ cl[d].conn = "open"
                      THEN down[d] \o StepMessages ELSE down[d]
  <2> HIDE DEF Elems, StepMessages
  <2> QED BY FlushIs
<1>2. srv.dirty /\ IsAllReady(srv.match) /\ \A d \in Clients : Rest(cl[d], up[d], down[d])
  <2> HIDE DEF IsAllReady, Rest
  <2> QED BY DEF LifeInv, Marks
<1>3. Len(srv.members) >= 2
  BY <1>0, <1>2 DEF ReadyInv, SeatsTaken, IsAllReady, Side
<1>4. /\ \A d \in Clients : d \in Elems(srv.members) /\ cl[d].conn = "open"
      /\ \A d \in Clients : SideOf(srv.members, d) \in Side
      /\ \A i \in Side : srv.members[i + 1] \in Clients /\ SideOf(srv.members, srv.members[i + 1]) = i
      /\ srv.members[1] # srv.members[2]
  <2> HIDE DEF LifeInv, ReadyInv, MembersDistinct, Duo, Elems, SideOf
  <2>1. /\ \A d \in Clients : d \in Elems(srv.members) /\ SideOf(srv.members, d) \in Side
        /\ \A i \in Side : srv.members[i + 1] \in Clients /\ SideOf(srv.members, srv.members[i + 1]) = i
        /\ srv.members[1] # srv.members[2]
    BY <1>3, BothSeated
  <2> QED BY <2>1, MembersOpen
<1>5. ~srv.synced
  <2>1. HostClient \in Clients
    BY LobbyAssumption
  <2>2. cl[HostClient].phase = "menu"
    BY <1>2, <2>1 DEF Rest
  <2> HIDE DEF Opened, SomeEarly
  <2> QED BY <2>1, <2>2 DEF LifeInv, Barrier
<1>6. LobbyData \in Lobby /\ a \in DownMessage /\ b \in DownMessage
  BY <1>0 DEF LobbyData, Lobby, DownMessage, Server
<1>7. \A d \in Clients : down'[d] = (down[d] \o <<a>>) \o <<b>>
  <2> HIDE DEF a, b, LobbyData
  <2>1. StepMessages = (<<a>> \o <<b>>) \o <<>>
    BY <1>2, <1>5 DEF StepMessages, UpdateMessage, ReadyMessage, SyncedMessage, a, b
  <2>2. (<<a>> \o <<b>>) \o <<>> = <<a>> \o <<b>>
    OBVIOUS
  <2>3. \A d \in Clients : down[d] \o (<<a>> \o <<b>>) = (down[d] \o <<a>>) \o <<b>>
    BY <1>6, TwoSent DEF TypeOK
  <2>4. StepMessages = <<a>> \o <<b>>
    BY <2>1, <2>2
  <2> HIDE DEF StepMessages, Elems
  <2> QED BY <1>1, <1>4, <2>3, <2>4
<1>8. \A d \in Clients : ~Has(up[d], "ready")
  <2> SUFFICES ASSUME NEW d \in Clients, Has(up[d], "ready") PROVE FALSE
    OBVIOUS
  <2>1. Mark(LobbyData, d) = -1
    <3> HIDE DEF Mark, LobbyData, Has, ReadyInv
    <3> QED BY ReadyMeans
  <2>2. SideOf(srv.members, d) # -1
    <3> HIDE DEF SideOf
    <3> QED BY <1>4 DEF Side
  <2> HIDE DEF Mark, LobbyData, SideOf, LifeInv, ReadyInv, MembersDistinct, Duo, IsAllReady, SomeEarly
  <2> QED BY <1>2, <2>1, <2>2, NobodyEarly
<1>9. ASSUME NEW d \in Clients
      PROVE  /\ SentInOrder(up[d])
             /\ OnItsWay(cl[d], up[d], down'[d], n + 1) /\ Punches(cl[d], up[d], n + 1, p2p, FALSE)
             /\ Punches(cl[d], up[d], n, p2p, Flag(srv, d))
             /\ ~Early(cl[d], up[d], n) /\ Early(cl[d], up[d], n + 1) /\ Unheard(cl[d], up[d], n + 1)
             /\ ~Opened(cl[d], down'[d], n + 1) /\ ~Rest(cl[d], up[d], down'[d])
             /\ ~Go(cl[d], down'[d]) /\ ~Held(cl[d], up[d])
             /\ Briefed(cl[d], down'[d], n + 1, LobbyData)
  <2> DEFINE k == cl[d]
             u == up[d]
             q == down[d]
             f == Flag(srv, d)
  <2>1. /\ k \in Client /\ q \in Seq(DownMessage) /\ SentInOrder(u)
        /\ OnItsWay(k, u, q, n) /\ Punches(k, u, n, p2p, f)
    BY FactsOf
  <2>2. Rest(k, u, q) /\ ~Has(u, "ready")
    BY <1>2, <1>8
  <2> DEFINE x == LobbyData
             r == (q \o <<[t |-> "update", data |-> x]>>) \o <<[t |-> "allready", n |-> n + 1]>>
  <2>3. down'[d] = r /\ x \in Lobby
    BY <1>6, <1>7
  <2> HIDE DEF x, k, u, q, f, n, p2p, SentInOrder, OnItsWay, Punches, Briefed, LobbyData, Flag, Opened, Early,
               Unheard, Go, Rest, Held, Has, Client
  <2>4. /\ OnItsWay(k, u, r, n + 1) /\ Punches(k, u, n + 1, p2p, FALSE)
        /\ ~Early(k, u, n) /\ Early(k, u, n + 1) /\ Unheard(k, u, n + 1)
        /\ ~Opened(k, r, n + 1) /\ ~Rest(k, u, r) /\ ~Go(k, r) /\ ~Held(k, u)
        /\ Briefed(k, r, n + 1, x)
    BY <1>0, <2>1, <2>2, <2>3, StartSent
  <2> HIDE DEF r
  <2> QED BY <2>1, <2>3, <2>4 DEF k, u, f, x
<1> HIDE DEF SentInOrder, OnItsWay, Punches, Briefed, Early, Go, Rest, Opened, Unheard, Has, Held, LobbyData
<1>10. \A i \in Side : ~srv.punch[i]
  <2>1. ASSUME NEW i \in Side, srv.punch[i] PROVE FALSE
    <3> DEFINE c == srv.members[i + 1]
               d == srv.members[2 - i]
    <3>1. c \in Clients /\ d \in Clients /\ c # d /\ Flag(srv, c)
      <4>1. SideOf(srv.members, c) = i /\ c \in Clients
        BY <1>4
      <4>2. d \in Clients /\ c # d
        BY <1>4 DEF Side
      <4> HIDE DEF c, d, SideOf
      <4> QED BY <2>1, <4>1, <4>2 DEF Flag, Side
    <3> HIDE DEF c, d, Flag
    <3>2. p2p
      <4> USE DEF Punches
      <4>1. Punches(cl[c], up[c], n, p2p, Flag(srv, c))
        BY <1>9, <3>1
      <4> HIDE DEF n, p2p
      <4> QED BY <3>1, <4>1
    <3>3. Unheard(cl[d], up[d], n)
      BY <3>1, <3>2 DEF LifeInv, Pairs
    <3>4. ~Unheard(cl[d], up[d], n)
      <4>1. Punches(cl[d], up[d], n, p2p, Flag(srv, d)) /\ ~Early(cl[d], up[d], n)
        BY <1>9, <3>1
      <4> HIDE DEF n
      <4> QED BY <3>2, <4>1, HeardOnceLoaded
    <3> QED BY <3>3, <3>4
  <2> QED BY <2>1
<1>11. \A d \in Clients : Flag(srv', d) = FALSE
  BY <1>1, <1>4, <1>10 DEF Flag
<1> HIDE DEF Flag, a, b
<1>12. Ways(srv', cl', up', down')
  BY <1>1, <1>9, <1>11 DEF Ways
<1>13. Pairs(srv', cl', up', down')
  <2>1. \A d \in Clients : ~Flag(srv', d) /\ Unheard(cl'[d], up'[d], srv'.starts) /\ ~Go(cl'[d], down'[d])
    BY <1>1, <1>9, <1>11
  <2> QED BY <1>1, <1>10, <2>1 DEF Pairs
<1>14. Barrier(srv', cl', up', down')
  <2>1. \A d \in Clients : ~Opened(cl'[d], down'[d], srv'.starts)
    BY <1>1, <1>9
  <2>2. srv.loaded = {}
    <3>1. \A d \in srv.loaded : Held(cl[d], up[d])
      BY DEF LifeInv, Barrier
    <3> QED BY <1>0, <1>9, <3>1
  <2> QED BY <1>1, <2>1, <2>2 DEF Barrier
<1>15. Marks(srv', cl', up', down')
  <2>1. \A d \in Clients : ~Rest(cl'[d], up'[d], down'[d])
    BY <1>1, <1>9
  <2> HIDE DEF IsAllReady, SomeEarly
  <2> QED BY <1>1, <1>2, <1>3, <2>1 DEF Marks
<1>16. Brief(srv', cl', up', down', LobbyData)
  <2>1. \A d \in Clients : Briefed(cl'[d], down'[d], srv'.starts, LobbyData)
    BY <1>1, <1>9
  <2>2. LobbyData.members = srv.members /\ LobbyData.match = srv.match
    BY DEF LobbyData
  <2> HIDE DEF IsAllReady, SomeEarly
  <2> QED BY <1>1, <1>2, <1>3, <2>1, <2>2 DEF Brief, Agrees
<1> HIDE DEF Ways, Pairs, Barrier, Marks, Brief
<1> QED BY <1>6, <1>12, <1>13, <1>14, <1>15, <1>16 DEF LifeInv

LEMMA FlushKept ==
  ASSUME Duo, TypeOK, TypeOK', MembersDistinct, ReadyInv, LifeInv, FlushStep
  PROVE  LifeInv'
<1> HIDE DEF Duo, TypeOK, MembersDistinct, ReadyInv, LifeInv, FlushStep
<1> QED BY UpdateKept, SyncedKept, StartKept

(* The server notices that a client it has refused is gone.                 *)
LEMMA GoneKept ==
  ASSUME Duo, TypeOK, TypeOK', MembersDistinct, ReadyInv, LifeInv, NEW c \in Clients, ServerDisconnect(c)
  PROVE  LifeInv'
<1> DEFINE k == cl[c]
           j == cl'[c]
           u == up[c]
           q == down[c]
           n == srv.starts
           p2p == srv.mode.p2p
           f == Flag(srv, c)
<1>0. /\ srv \in Server /\ srv.members \in Seq(Clients) /\ cl \in [Clients -> Client]
      /\ up \in [Clients -> Seq(UpMessage)] /\ srv.loaded \subseteq Clients
  BY DEF TypeOK, Server
<1>1. /\ k.conn = "left" /\ cl' = [cl EXCEPT ![c].conn = "gone"]
      /\ srv' = EraseMember(c) /\ up' = [up EXCEPT ![c] = <<>>] /\ down' = down
  <2> HIDE DEF EraseMember
  <2> QED BY DEF ServerDisconnect, Duo
<1>2. c \notin Elems(srv.members)
  <2> HIDE DEF ReadyInv, Elems
  <2> QED BY <1>1, MembersOpen
<1>3. n = 0
  <2>1. ~(n > 0)
    <3> HIDE DEF LifeInv, ReadyInv, MembersDistinct, Duo, Elems
    <3> QED BY <1>1, OpenOnceStarted
  <2> QED BY <1>0, <2>1 DEF Server
<1>4. srv.loaded = {}
  <2>1. \A d \in srv.loaded : n > 0
    <3> HIDE DEF Early, Held
    <3> QED BY DEF LifeInv, Barrier
  <2> QED BY <1>3, <2>1
<1>5. /\ srv'.starts = srv.starts /\ srv'.mode = srv.mode /\ srv'.members = srv.members
      /\ srv'.match = srv.match /\ srv'.punch = srv.punch /\ srv'.loaded = srv.loaded
      /\ srv'.synced = srv.synced /\ srv'.allReady = srv.allReady /\ (srv.dirty => srv'.dirty)
  <2>1. Without(srv.members, c) = srv.members
    BY <1>0, <1>2, WithoutIs
  <2> HIDE DEF Without, Elems
  <2> QED BY <1>0, <1>1, <1>4, <2>1 DEF EraseMember, Server
<1>6. \A d \in Clients : Flag(srv', d) = Flag(srv, d)
  BY <1>5 DEF Flag
<1>7. /\ k \in Client /\ q \in Seq(DownMessage) /\ n \in Nat /\ SentInOrder(u)
      /\ OnItsWay(k, u, q, n) /\ Punches(k, u, n, p2p, f)
  BY FactsOf
<1>8. j = [k EXCEPT !.conn = "gone"] /\ j \in Client
  BY <1>0, <1>1 DEF TypeOK
<1>9. \A t \in Kinds \ {"ready"} : ~Has(u, t)
  <2> HIDE DEF Has, k, u, q, n, f, p2p
  <2> QED BY <1>3, <1>7 DEF OnItsWay, Punches, Kinds
<1>10. SentInOrder(<<>>) /\ \A t : ~Has(<<>>, t)
  BY DEF SentInOrder, Has, Once
<1>11. /\ Moves(k, u, q, j, <<>>, q, n, p2p, f)
       /\ \A x : Briefed(k, q, n, x) => Briefed(j, q, n, x)
  <2>1. /\ j.phase = k.phase /\ j.pending = k.pending /\ j.start = k.start /\ j.battle = k.battle
        /\ j.arrived = k.arrived /\ j.punched = k.punched /\ j.sentLoaded = k.sentLoaded
        /\ j.synced = k.synced /\ j.punchGo = k.punchGo /\ j.view = k.view /\ j.setup = k.setup
    <3> HIDE DEF k, j
    <3> QED BY <1>7, <1>8 DEF Client
  <2> HIDE DEF Moves, Briefed, SentInOrder, OnItsWay, Punches, Has, Kinds, Client, k, j, u, q, n, p2p, f
  <2>2. \A t \in Kinds \ {"ready"} : Has(<<>>, t) <=> Has(u, t)
    BY <1>9, <1>10
  <2> QED BY <1>7, <1>8, <1>10, <2>1, <2>2, QuietMoves
<1> HIDE DEF LifeInv, Moves, Briefed, Flag, Brief, SomeEarly
<1>12. ASSUME NEW d \in Clients
       PROVE  /\ Moves(cl[d], up[d], down[d], cl'[d], up'[d], down'[d], srv.starts, srv.mode.p2p, Flag(srv', d))
              /\ \A x : Briefed(cl[d], down[d], srv.starts, x) => Briefed(cl'[d], down'[d], srv.starts, x)
  <2>1. CASE d = c
    <3>1. up'[c] = <<>> /\ down'[c] = q
      BY <1>0, <1>1
    <3> QED BY <1>6, <1>11, <2>1, <3>1
  <2>2. CASE d # c
    <3>1. cl'[d] = cl[d] /\ up'[d] = up[d] /\ down'[d] = down[d]
      BY <1>0, <1>1, <2>2
    <3>2. Moves(cl[d], up[d], down[d], cl[d], up[d], down[d], n, p2p, Flag(srv, d))
      <4> HIDE DEF SentInOrder, OnItsWay, Punches
      <4> QED BY FactsOf, StaysPut
    <3> QED BY <1>6, <3>1, <3>2
  <2> QED BY <2>1, <2>2
<1>13. SeatsTaken
  BY DEF ReadyInv
<1>14. srv.allReady /\ srv.dirty => srv'.dirty
  BY <1>5
<1> HIDE DEF k, j, u, q, n, p2p, f, ReadyInv, SeatsTaken
<1> QED BY <1>5, <1>12, <1>13, <1>14, AllKept

LEMMA LifeInit == Init => LifeInv
<1> SUFFICES ASSUME Init PROVE LifeInv
  OBVIOUS
<1>1. /\ srv.starts = 0 /\ \A i \in Side : srv.match.ready[i] = -1 /\ ~srv.punch[i]
      /\ srv.loaded = {} /\ ~srv.synced /\ ~srv.allReady /\ srv.members \in Seq(Clients)
  BY LobbyAssumption DEF Init, InitServer, NoMatchData
<1>2. \A c \in Clients : /\ up[c] = <<>> /\ down[c] = <<>> /\ cl[c].phase = "menu" /\ ~cl[c].pending
                         /\ ~cl[c].sentLoaded /\ ~cl[c].synced /\ ~cl[c].punchGo /\ cl[c].start = 0
                         /\ cl[c].arrived = 0 /\ cl[c].punched = 0
  BY DEF Init, InitClient
<1>3. \A t : ~Has(<<>>, t) /\ Once(<<>>, t)
  BY DEF Has, Once
<1>4. SentInOrder(<<>>)
  BY <1>3 DEF SentInOrder
<1>5. \A c : Flag(srv, c) = FALSE
  <2>1. \A c : SideOf(srv.members, c) \in Side \cup {-1}
    BY <1>1, SideIs
  <2> HIDE DEF SideOf
  <2> QED BY <1>1, <2>1 DEF Flag
<1> HIDE DEF Init, Flag, SentInOrder
<1>6. Ways(srv, cl, up, down)
  <2> SUFFICES ASSUME NEW c \in Clients
               PROVE  /\ SentInOrder(up[c]) /\ OnItsWay(cl[c], up[c], down[c], srv.starts)
                      /\ Punches(cl[c], up[c], srv.starts, srv.mode.p2p, Flag(srv, c))
    BY DEF Ways
  <2>1. OnItsWay(cl[c], up[c], down[c], srv.starts)
    <3> HIDE DEF Has, Once
    <3> QED BY <1>1, <1>2, <1>3 DEF OnItsWay, Due
  <2>2. Punches(cl[c], up[c], srv.starts, srv.mode.p2p, Flag(srv, c))
    <3> HIDE DEF Has, Once
    <3> QED BY <1>1, <1>2, <1>3, <1>5 DEF Punches
  <2> QED BY <1>2, <1>4, <2>1, <2>2
<1>7. \A c \in Clients : ~Early(cl[c], up[c], srv.starts) /\ ~Go(cl[c], down[c])
                         /\ ~Unheard(cl[c], up[c], srv.starts)
  <2>1. \A c \in Clients : ~Go(cl[c], down[c])
    BY <1>2 DEF Go
  <2> HIDE DEF Has, Go
  <2> QED BY <1>1, <1>2, <1>3, <2>1 DEF Early, Unheard
<1> HIDE DEF Early, Go, Unheard
<1>8. Pairs(srv, cl, up, down)
  BY <1>1, <1>5, <1>7 DEF Pairs
<1>9. ~SomeEarly(srv, cl, up)
  BY <1>7 DEF SomeEarly
<1> HIDE DEF SomeEarly
<1>10. Barrier(srv, cl, up, down)
  BY <1>1, <1>9 DEF Barrier
<1>11. Marks(srv, cl, up, down)
  BY <1>1, <1>9 DEF Marks
<1> HIDE DEF Ways, Pairs, Barrier, Marks
<1> QED BY <1>1, <1>6, <1>8, <1>10, <1>11 DEF LifeInv

(* What a player has pressed too early is not forgotten.                    *)
LEMMA PressedEarly ==
  ASSUME TypeOK, [Next]_vars, Unhurried'
  PROVE  Unhurried
<1>1. cl \in [Clients -> Client] /\ down \in [Clients -> Seq(DownMessage)]
  BY DEF TypeOK
<1>2. \A k \in Client : TryStartPendingMatch(k).early = k.early /\ StartMatchFromLobby(k).early = k.early
  <2>1. \A k \in Client : StartMatchFromLobby(k).early = k.early
    <3> HIDE DEF CanStart
    <3> QED BY DEF StartMatchFromLobby, Client
  <2> HIDE DEF StartMatchFromLobby
  <2> QED BY <2>1 DEF TryStartPendingMatch
<1>3. SUFFICES ASSUME NEW d \in Clients, cl[d].early PROVE cl'[d].early
  BY DEF Unhurried
<1>4. CASE FlushStep \/ UNCHANGED vars
  BY <1>3, <1>4 DEF FlushStep, vars
<1>5. ASSUME NEW c \in Clients, ServerMessage(c) PROVE cl'[d].early
  BY <1>3, <1>5, MessageEffects
<1>6. ASSUME NEW c \in Clients, ServerDisconnect(c) PROVE cl'[d].early
  <2>1. DOMAIN cl = Clients /\ "early" \in DOMAIN cl[c]
    BY <1>1 DEF Client
  <2> HIDE DEF EraseMember, Client
  <2> QED BY <1>3, <1>6, <2>1 DEF ServerDisconnect
<1>7. ASSUME NEW c \in Clients, ClientAction(c) PROVE cl'[d].early
  <2> USE <1>1, <1>3
  <2>1. CASE ClientStep(c)
    <3> DEFINE m == Head(down[c])
               k == cl[c]
               new == CASE m.t = "update"   -> OnDataUpdate(k, c, m.data)
                        [] m.t = "allready" -> StartMatchFromLobby([k EXCEPT !.start = m.n])
                        [] m.t = "synced"   -> [k EXCEPT !.synced = TRUE]
                        [] m.t = "punch_go" -> [k EXCEPT !.punchGo = TRUE]
                        [] m.t = "joinrej"  -> [k EXCEPT !.conn = IF @ = "open" THEN "left" ELSE "gone"]
                        [] OTHER            -> k
    <3>1. cl' = [cl EXCEPT ![c] = TryStartPendingMatch(new)] /\ down[c] # <<>>
      BY <2>1 DEF ClientStep
    <3>2. k \in Client /\ m \in DownMessage
      BY <3>1
    <3> HIDE DEF k, m
    <3>3. new \in Client /\ new.early = k.early
      <4>1. CASE m.t = "update"
        <5> DEFINE x1 == [k EXCEPT !.view = m.data]
                   o == IF AnswersReady(k, c, m.data) THEN -1 ELSE k.outstanding
                   x2 == [x1 EXCEPT !.outstanding = o]
        <5>1. new = x2
          <6> HIDE DEF AnswersReady
          <6> QED BY <4>1, <3>2 DEF OnDataUpdate, Client
        <5>2. o \in {-1} \cup (1..MaxReadies)
          BY <3>2 DEF Client
        <5>3. x1 \in Client /\ x1.early = k.early
          <6>1. x1 \in Client
            BY <3>2, <4>1, TypedMessage, ClientFields
          <6> QED BY <3>2, <6>1 DEF Client
        <5> HIDE DEF x1, o
        <5>4. x2 \in Client /\ x2.early = k.early
          <6>1. x2 \in Client
            BY <5>2, <5>3, ClientFields
          <6> QED BY <5>3 , <6>1 DEF Client
        <5> QED BY <5>1, <5>4
      <4>2. CASE m.t = "allready"
        <5> DEFINE x == [k EXCEPT !.start = m.n]
        <5>1. x \in Client /\ x.early = k.early
          <6>1. x \in Client
            BY <3>2, <4>2, TypedMessage, ClientFields
          <6> QED BY <3>2, <6>1 DEF Client
        <5>2. new = StartMatchFromLobby(x)
          BY <4>2
        <5> HIDE DEF x, StartMatchFromLobby
        <5> QED BY ZenonT(60), <1>2, <5>1, <5>2, StartTypes
      <4>3. CASE m.t \notin {"update", "allready"}
        <5> DEFINE x == IF k.conn = "open" THEN "left" ELSE "gone"
        <5>1. /\ [k EXCEPT !.synced = TRUE] \in Client /\ [k EXCEPT !.punchGo = TRUE] \in Client
              /\ [k EXCEPT !.conn = x] \in Client
          BY <3>2, ClientFields
        <5>2. \/ new = k \/ new = [k EXCEPT !.synced = TRUE] \/ new = [k EXCEPT !.punchGo = TRUE]
              \/ new = [k EXCEPT !.conn = x]
          BY <4>3
        <5>3. "early" \in DOMAIN k
          BY <3>2 DEF Client
        <5> HIDE DEF new, x
        <5> QED BY <3>2, <5>1, <5>2, <5>3
      <4> QED BY <4>1, <4>2, <4>3
    <3>4. TryStartPendingMatch(new).early = k.early
      <4> HIDE DEF TryStartPendingMatch, new
      <4> QED BY <1>2, <3>3
    <3> HIDE DEF new, TryStartPendingMatch
    <3> QED BY <3>1, <3>4 DEF k
  <2>2. CASE TickFrame(c)
    <3> HIDE DEF TryStartPendingMatch
    <3> QED BY <1>2, <2>2 DEF TickFrame
  <2>3. /\ DOMAIN cl = Clients /\ "early" \in DOMAIN cl[c]
        /\ \A k \in Client : "early" \in DOMAIN k
    BY DEF Client
  <2>4. CASE PressReady(c)
    <3> HIDE DEF CanLobbyReady, SideOf, Client
    <3> QED BY <2>4, <2>3 DEF PressReady
  <2>5. CASE Connect(c)
    <3> HIDE DEF ResetForRematch, SideOf, Client
    <3> QED BY <2>5, <2>3 DEF Connect
  <2>6. CASE Leave(c)
    <3> HIDE DEF ResetForRematch, SideOf, Client
    <3> QED BY SMTT(30), <2>6, <2>3 DEF Leave
  <2>7. CASE PushSettings(c)
    <3> HIDE DEF ResetForRematch, SideOf, Client
    <3> QED BY <2>7, <2>3 DEF PushSettings
  <2>8. CASE ReportWin(c)
    <3> HIDE DEF ResetForRematch, SideOf, Client
    <3> QED BY <2>8, <2>3 DEF ReportWin
  <2>9. CASE StartPunch(c)
    <3> HIDE DEF ResetForRematch, SideOf, Client
    <3> QED BY <2>9, <2>3 DEF StartPunch
  <2>10. CASE RegisterTasks(c)
    <3> HIDE DEF ResetForRematch, SideOf, Client
    <3> QED BY <2>10, <2>3 DEF RegisterTasks
  <2>11. CASE AbortMatch(c)
    <3> HIDE DEF ResetForRematch, SideOf, Client
    <3> QED BY <2>11, <2>3 DEF AbortMatch
  <2>12. CASE HasInitialized(c)
    <3> HIDE DEF ResetForRematch, SideOf, Client
    <3> QED BY <2>12, <2>3 DEF HasInitialized
  <2>13. CASE CloseBattle(c)
    <3> HIDE DEF ResetForRematch, SideOf, Client
    <3> QED BY <2>13, <2>3 DEF CloseBattle
  <2>14. CASE DeferredClose(c)
    <3> HIDE DEF ResetForRematch, SideOf, Client
    <3> QED BY <2>14, <2>3 DEF DeferredClose
  <2>15. CASE ExitForeground(c)
    <3> HIDE DEF ResetForRematch, SideOf, Client
    <3> QED BY <2>15, <2>3 DEF ExitForeground
  <2> QED BY <1>7, <2>1, <2>2, <2>4, <2>5, <2>6, <2>7, <2>8, <2>9, <2>10, <2>11, <2>12, <2>13, <2>14, <2>15 DEF ClientAction
<1> HIDE DEF FlushStep, ServerMessage, ServerDisconnect, ClientAction, vars, Unhurried
<1> QED BY <1>4, <1>5, <1>6, <1>7 DEF Next

LEMMA LifeStep ==
  ASSUME Duo, TypeOK, TypeOK', MembersDistinct, ReadyInv, LifeInv, Unhurried', [Next]_vars
  PROVE  LifeInv'
<1> HIDE DEF Duo, TypeOK, MembersDistinct, ReadyInv, FlushStep, ServerMessage, ServerDisconnect,
             ClientAction, Unhurried
<1>1. CASE FlushStep
  <2> HIDE DEF LifeInv
  <2> QED BY <1>1, FlushKept
<1>2. ASSUME NEW c \in Clients, ServerMessage(c) PROVE LifeInv'
  <2> HIDE DEF LifeInv
  <2> QED BY <1>2, MessageKept
<1>3. ASSUME NEW c \in Clients, ServerDisconnect(c) PROVE LifeInv'
  <2> HIDE DEF LifeInv
  <2> QED BY <1>3, GoneKept
<1>4. ASSUME NEW c \in Clients, ClientAction(c) PROVE LifeInv'
  <2> HIDE DEF LifeInv
  <2> QED BY <1>4, ClientKept
<1>5. CASE UNCHANGED vars
  <2> HIDE DEF Ways, Pairs, Barrier, Marks, Brief
  <2> QED BY <1>5 DEF vars, LifeInv
<1> HIDE DEF LifeInv
<1> QED BY <1>1, <1>2, <1>3, <1>4, <1>5 DEF Next

(* As long as nobody presses Ready before its battle has closed.            *)
LEMMA LifeHolds == ASSUME Duo PROVE Spec => [](Unhurried => LifeInv)
<1>1. Init => LifeInv
  BY LifeInit
<1>2. TypeOK /\ TypeOK' /\ MembersDistinct /\ ReadyInv /\ (Unhurried => LifeInv) /\ [Next]_vars
        => (Unhurried => LifeInv)'
  <2> HIDE DEF Duo, TypeOK, MembersDistinct, ReadyInv, LifeInv, Unhurried, Next
  <2> QED BY LifeStep, PressedEarly
<1>3. TypeOK /\ MembersDistinct /\ ReadyInv /\ [Next]_vars => ReadyInv'
  <2> HIDE DEF TypeOK, MembersDistinct, ReadyInv, Next
  <2> QED BY ReadyStep DEF Duo
<1> HIDE DEF Duo
<1> QED BY <1>1, <1>2, <1>3, ReadyInit, NobodySeatedTwice, TypeCorrect, PTL DEF Spec

-----------------------------------------------------------------------------
(* What the life cycle promises                                             *)

(* Whoever is in a battle is in the last one that was started.              *)
LEMMA InTheLast ==
  ASSUME TypeOK, LifeInv, NEW c \in Clients, cl[c].phase # "menu"
  PROVE  /\ cl[c].battle = srv.starts /\ srv.starts > 0 /\ srv.starts \in Nat
         /\ \E x \in Lobby : Brief(srv, cl, up, down, x)
<1>1. OnItsWay(cl[c], up[c], down[c], srv.starts) /\ srv.starts \in Nat
  BY FactsOf
<1>2. cl[c].battle = srv.starts /\ srv.starts > 0
  <2> HIDE DEF Has, Once
  <2> QED BY <1>1 DEF OnItsWay
<1> QED BY <1>1, <1>2 DEF LifeInv

LEMMA LifeSetups == TypeOK /\ LifeInv => SameSetup
<1> SUFFICES ASSUME TypeOK, LifeInv, NEW c \in Clients, NEW d \in Clients, InBattle(c), InBattle(d)
             PROVE  BattleSetup(c) = BattleSetup(d)
  BY DEF SameSetup
<1>1. PICK x \in Lobby : Brief(srv, cl, up, down, x)
  <2> HIDE DEF LifeInv, Brief
  <2> QED BY InTheLast DEF InBattle
<1>2. \A e \in {c, d} : cl[e].setup.custom = x.custom /\ Agrees(cl[e].setup, x)
  <2>1. \A e \in {c, d} : Briefed(cl[e], down[e], srv.starts, x)
    <3> HIDE DEF Briefed
    <3> QED BY <1>1 DEF Brief
  <2> HIDE DEF Agrees
  <2> QED BY <2>1 DEF Briefed, InBattle
<1> QED BY <1>2 DEF BattleSetup, Agrees

LEMMA LifeGenerations == TypeOK /\ LifeInv => GenerationKnown
<1> SUFFICES ASSUME TypeOK, LifeInv, NEW c \in Clients, InBattle(c), NEW s \in Side
             PROVE  cl[c].setup.match.ready[s] # -1
  BY DEF GenerationKnown
<1>1. PICK x \in Lobby : Brief(srv, cl, up, down, x)
  <2> HIDE DEF LifeInv, Brief
  <2> QED BY InTheLast DEF InBattle
<1>2. Agrees(cl[c].setup, x)
  <2>1. Briefed(cl[c], down[c], srv.starts, x)
    <3> HIDE DEF Briefed
    <3> QED BY <1>1 DEF Brief
  <2> HIDE DEF Agrees
  <2> QED BY <2>1 DEF Briefed, InBattle
<1> QED BY <1>1, <1>2 DEF Agrees, Brief, IsAllReady

LEMMA LifeBarrier == TypeOK /\ LifeInv => BarrierHolds
<1> SUFFICES ASSUME TypeOK, LifeInv, NEW c \in Clients, NEW d \in Clients, cl[c].phase = "fight"
             PROVE  cl[d].arrived >= cl[c].battle
  BY DEF BarrierHolds
<1>1. cl[c].battle = srv.starts /\ srv.starts \in Nat
  <2> HIDE DEF LifeInv, Brief
  <2> QED BY InTheLast
<1>2. Opened(cl[c], down[c], srv.starts)
  BY DEF Opened
<1>3. ~Early(cl[d], up[d], srv.starts)
  <2> HIDE DEF Opened, Early
  <2> QED BY <1>2 DEF LifeInv, Barrier, SomeEarly
<1> QED BY <1>1, <1>3 DEF Early

LEMMA LifePunches == TypeOK /\ LifeInv => PunchTogether
<1> SUFFICES ASSUME TypeOK, LifeInv, NEW c \in Clients, NEW d \in Clients,
                    cl[c].phase = "punching", cl[c].punchGo
             PROVE  cl[d].punched >= cl[c].battle
  BY DEF PunchTogether
<1>1. cl[c].battle = srv.starts /\ srv.starts \in Nat
  <2> HIDE DEF LifeInv, Brief
  <2> QED BY InTheLast
<1>2. Go(cl[c], down[c])
  BY DEF Go
<1>3. cl[d].punched = srv.starts
  <2> HIDE DEF Go
  <2> QED BY <1>2 DEF LifeInv, Pairs
<1> QED BY <1>1, <1>3

(* Two players who stay fight the battle they both agreed to: the same      *)
(* seats, characters, stage, seed and settings, whatever update reaches     *)
(* which of them first while they load (_OnVsBattleTasksRegistered).        *)
THEOREM SetupsAgree == ASSUME Duo PROVE Spec => []SameSetup
<1>1. TypeOK /\ (Unhurried => LifeInv) => SameSetup
  BY LifeSetups DEF SameSetup
<1> QED BY <1>1, LifeHolds, TypeCorrect, PTL

(* Two players who stay enter their battle with both Ready numbers, under   *)
(* which it is registered with the relay.                                   *)
THEOREM GenerationsKnown == ASSUME Duo PROVE Spec => []GenerationKnown
<1>1. TypeOK /\ (Unhurried => LifeInv) => GenerationKnown
  BY LifeGenerations DEF GenerationKnown
<1> QED BY <1>1, LifeHolds, TypeCorrect, PTL

(* Of two players who stay and press Ready in the menu, neither is let      *)
(* through the barrier before the other has loaded, match after match       *)
(* (bSendBattleSynced, MF_BATTLE_LOADED, ResetBattleSync).                  *)
THEOREM BarrierIsHeld == ASSUME Duo PROVE Spec => [](Unhurried => BarrierHolds)
<1>1. TypeOK /\ (Unhurried => LifeInv) => (Unhurried => BarrierHolds)
  BY LifeBarrier
<1> QED BY <1>1, LifeHolds, TypeCorrect, PTL

(* Of two players who stay and press Ready in the menu, one is told to      *)
(* punch only once both punch for the same battle (punchReady).             *)
THEOREM PunchedTogether == ASSUME Duo PROVE Spec => [](Unhurried => PunchTogether)
<1>1. TypeOK /\ (Unhurried => LifeInv) => (Unhurried => PunchTogether)
  BY LifePunches
<1> QED BY <1>1, LifeHolds, TypeCorrect, PTL

=============================================================================
