-------------------------- MODULE ConnectStrategy --------------------------
(***************************************************************************)
(* How the launcher reaches the room broker (connect_strategy.cxx,         *)
(* room_broker_client.cxx, sf4e__NetUtil.cxx) and what it makes of the     *)
(* texts a player types (netplay_room_code.cxx).                           *)
(*                                                                         *)
(* Every call may fail on the way there or on the way back, so a call is   *)
(* the SET of results it can return when the broker knows the rooms of     *)
(* live.  A room stands for everything drawn with it: its short code, host *)
(* secret, match id, room token, relay address and ports.                  *)
(***************************************************************************)
EXTENDS Naturals

CONSTANTS Rooms,              \* the codes rooms may draw
          Addr, Junk, Empty,  \* an IP:port, a text that is none, no text
          None                \* the absent value, and the answer of no call

ASSUME RoomsAssumption ==
    /\ Rooms \cap {Addr, Junk, Empty, None} = {}
    /\ None \notin {Addr, Junk, Empty, "relay"}

----------------------------------------------------------------------------
(* Typed texts: a code as the broker spells it (SF4-...), the same code    *)
(* without its prefix, an IP:port, nothing, and anything else.  An         *)
(* endpoint is the room whose relay it is, or Addr.                        *)

Bare(r) == <<"bare", r>>
Texts == Rooms \cup {Bare(r) : r \in Rooms} \cup {Addr, Junk, Empty}

IsShortRoomCode(t) == t \in Rooms

\* Trims, adds a missing prefix and raises the case; None is a refusal.
NormalizeRelayRoomCode(t) ==
    IF \E r \in Rooms : t \in {r, Bare(r)}
    THEN CHOOSE r \in Rooms : t \in {r, Bare(r)}
    ELSE None

ParseRoomCode(t) == IF t = Addr THEN Addr ELSE None

----------------------------------------------------------------------------
(* Transport.  A request over WinHTTP answers what the broker sent, or     *)
(* nothing: a name that does not resolve, a refused or timed out           *)
(* connection, a status other than 2xx, a body cut short.                  *)

HttpRequest(reply) == {None, reply}

\* A base URL is refused when it does not parse or names a host that is not
\* public; then no request leaves the machine.
BrokerRequest(urlOk, reply) == IF urlOk THEN HttpRequest(reply) ELSE {None}

Failed == [ok |-> FALSE, endpoint |-> None]
Resolved(e) == [ok |-> TRUE, endpoint |-> e]

----------------------------------------------------------------------------
(* Joining.                                                                *)

ResolveJoinDirectIp(t) ==
    IF ~IsShortRoomCode(t) /\ ParseRoomCode(t) # None
    THEN Resolved(ParseRoomCode(t))
    ELSE Failed

\* GET /v1/rooms/<code>: the room must normalise, be known and be reachable.
ResolveJoinRelayRoom(t, live, urlOk) ==
    LET code == NormalizeRelayRoomCode(t)
    IN  {Failed} \cup {Resolved(r) : r \in BrokerRequest(urlOk, code)
                                            \cap live \cap {code}}

\* POST /v1/queue/join: no partner yet is an error; a matched pair is sent to
\* one room, which is then resolved like a typed code.
ResolveJoinMatchmaking(live, urlOk) ==
    {Failed} \cup UNION {ResolveJoinRelayRoom(r, live, urlOk) : r \in live}

ResolveJoinAutoNat == Failed

----------------------------------------------------------------------------
(* Hosting.                                                                *)

\* GET /v1/health: a broker that cannot be asked counts as one without
\* FORCE_VPS_RELAY.
FetchBrokerHealth(vps, urlOk) ==
    (BrokerRequest(urlOk, vps) \ {None}) \cup {FALSE}

\* UPnP maps three ports through the router; each mapping may fail.
TryConfigureHostUpnp == {[tcp |-> t, udp |-> u] : t, u \in BOOLEAN}

NoCreds == [token |-> None, match |-> None, port |-> None]

\* POST /v1/rooms: refused, created, or created with the answer lost.  made is
\* the room the broker now has; ggpoPort only comes with a VPS relay.
CreateRelayRoom(live, spent, vps, urlOk) ==
    {[ok |-> FALSE, made |-> None, creds |-> NoCreds]} \cup
    (IF ~urlOk THEN {} ELSE
     UNION {{[ok |-> FALSE, made |-> r, creds |-> NoCreds]} \cup
            {[ok |-> TRUE, made |-> r,
              creds |-> [token |-> r, match |-> r, port |-> p]] :
                 p \in {None} \cup (IF vps THEN {r} ELSE {})} :
            r \in Rooms \ (live \cup spent)})

\* POST .../heartbeat: FALSE for any failure, an unknown room or another
\* room's secret alike.
HeartbeatRelayRoom(t, secret, live, urlOk) ==
    LET code == NormalizeRelayRoomCode(t)
    IN  {FALSE} \cup {TRUE : r \in BrokerRequest(urlOk, code) \cap live
                                       \cap {secret}}

----------------------------------------------------------------------------
(* The connect plan: which transport GGPO uses and which endpoint it dials *)
(* ("relay" or "peer").                                                    *)

TransportFromString == [legacy_session_tunnel |-> 0, udp_relay |-> 1, p2p |-> 2]

\* What buildConnectPlan of the broker sends: host and ggpoPort (the relay's)
\* always, ggpoRemote* with udp_relay only, peer* with p2p only.
BrokerPlan(transport, hasPort) ==
    [transport |-> transport,
     host |-> "relay", ggpoPort |-> hasPort,
     remote |-> IF transport = "udp_relay" THEN "relay" ELSE None,
     peer |-> IF transport = "p2p" THEN "peer" ELSE None]

BrokerPlans(vps) ==
    {BrokerPlan("legacy_session_tunnel", FALSE)} \cup
    (IF vps THEN {BrokerPlan(t, TRUE) : t \in {"udp_relay", "p2p"}} ELSE {})

NoPlan == [ok |-> FALSE]

\* ggpoRemoteHost, else host, else the peer; the port likewise.
ApplyConnectPlanJson(j, code) ==
    [ok |-> TRUE, transport |-> TransportFromString[j.transport],
     dial |-> IF j.remote # None THEN j.remote
              ELSE IF j.host # None THEN j.host ELSE j.peer,
     port |-> IF j.ggpoPort THEN code ELSE None,
     token |-> code, match |-> code]

\* One datagram to the broker, and two seconds for its answer.
SendBrokerNatProbe == BOOLEAN

\* POST .../register-endpoint: the answer may overlay the plan; a call that
\* fails or is refused leaves the plan fetched first.
RegisterEndpoint(first, vps) == {first} \cup BrokerPlans(vps)

\* GET .../connect-plan, and the registration when the probe was answered.
FetchConnectPlan(t, live, vps, urlOk) ==
    LET code == NormalizeRelayRoomCode(t)
        Overlaid(first, probed) ==
            IF probed THEN RegisterEndpoint(first, vps) ELSE {first}
        plans == UNION {Overlaid(first, probed) :
                           first \in BrokerPlans(vps),
                           probed \in SendBrokerNatProbe}
    IN  {NoPlan} \cup {ApplyConnectPlanJson(j, r) :
                          j \in plans,
                          r \in BrokerRequest(urlOk, code) \cap live}
============================================================================
