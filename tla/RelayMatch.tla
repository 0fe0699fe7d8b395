------------------------------ MODULE RelayMatch ------------------------------
(***************************************************************************)
(* Two players and their UDP relay, over a network that loses, duplicates  *)
(* and reorders datagrams.  For every match of the room each player binds  *)
(* its GGPO port, registers with the relay under the match's generation    *)
(* and starts GGPO when the relay answers SF4R (PrepareForBattle,          *)
(* RegisterWithUdpRelay); from then on the relay forwards its datagrams.   *)
(*                                                                         *)
(* Matches are numbered as the lobby starts them; the relay only sees      *)
(* their keys.  Assumed of the network: once a player registers for a      *)
(* match, no datagram it sent or was sent in an earlier one is delivered   *)
(* any more; with StaleDatagrams, what its peer sent still may be, until   *)
(* the peer registers too.                                                 *)
(***************************************************************************)
EXTENDS UdpRelay, Integers

CONSTANTS
    MaxMatch,   \* bound: matches played in the room
    KeyOf,      \* the key of each match: the readyMessageNum pair
    AddrsOf,    \* the addresses a player may have, one of them per match
    StaleDatagrams, \* whether datagrams of an ended match may still arrive
    OldClients  \* addresses of the players of a room of legacy or V2 clients

ASSUME MatchAssumption ==
    /\ MaxMatch \in Nat
    /\ KeyOf \in [1..MaxMatch -> Keys]
    /\ AddrsOf \in [Slot -> SUBSET Addrs]
    /\ OldClients \subseteq Addrs
    /\ StaleDatagrams \in BOOLEAN

VARIABLES
    player,  \* player[p]: the process in player slot p
    net,     \* datagrams on their way to the relay
    mail     \* datagrams on their way to the players

matchVars == <<player, net, mail>>
vars == <<relayVars, matchVars>>

Init ==
    /\ RelayInit
    /\ player = [p \in Slot |-> [match |-> 0, st |-> "lobby", addr |-> NoAddr]]
    /\ net = {} /\ mail = {}

-----------------------------------------------------------------------------
(* The players *)

(* Both players are back in the lobby and ready again, or the other one     *)
(* has already entered the next match.                                      *)
AllReady(p) ==
    \/ player[Peer(p)].match = player[p].match /\ player[Peer(p)].st = "lobby"
    \/ player[Peer(p)].match = player[p].match + 1

(* A room serves clients of one version: the session server turns away a    *)
(* client whose sidecar hash differs.                                       *)
OldRoom == slots # NoSlots
NewRoom == \E p \in Slot : player[p].match > 0

(* Datagrams that may still arrive when p enters its next match.            *)
Survives(d, p) == StaleDatagrams \/ d.match > player[p].match

(* PrepareForBattle for the next match.                                     *)
PrepareForBattle(p) ==
    /\ ~OldRoom
    /\ player[p].st = "lobby" /\ player[p].match < MaxMatch /\ AllReady(p)
    /\ \E a \in AddrsOf[p] :
        player' = [player EXCEPT ![p] = [match |-> @.match + 1, st |-> "registering",
                                         addr |-> a]]
    /\ net' = {d \in net : d.by # p /\ Survives(d, p)}
    /\ mail' = {d \in mail : d.for # p /\ d.by # p /\ Survives(d, p)}
    /\ Quiet

(* SendProbeAndWait: one more registration datagram.                        *)
Probe(p) ==
    /\ player[p].st = "registering"
    /\ net' = net \cup {[t |-> "reg", by |-> p, match |-> player[p].match,
                         from |-> player[p].addr]}
    /\ Quiet /\ UNCHANGED <<player, mail>>

\* Mutant: any answer of the relay is good.
AnyAnswer(t) == t \in {"SF4R", "SF4W"}

(* What ends RegisterWithUdpRelay's loop with success.                      *)
IsSuccess(t) == t = "SF4R"

(* An answer reaches the socket bound to the address it was sent to.  It    *)
(* names no generation.                                                     *)
ReceiveAnswer(p, d) ==
    /\ d.to = player[p].addr /\ d.t \in {"SF4R", "SF4W"}
    /\ player[p].st = "registering"
    /\ player' = IF IsSuccess(d.t) THEN [player EXCEPT ![p].st = "started"] ELSE player
    /\ mail' = mail \ {d}
    /\ Quiet /\ UNCHANGED <<net>>

(* 15 s without SF4R, twice: the match is aborted.                          *)
TimeOut(p) ==
    /\ player[p].st = "registering"
    /\ player' = [player EXCEPT ![p].st = "lobby"]
    /\ Quiet /\ UNCHANGED <<net, mail>>

(* GGPO sends from the port the registration was sent from.                 *)
SendData(p) ==
    /\ player[p].st = "started"
    /\ net' = net \cup {[t |-> "data", by |-> p, match |-> player[p].match,
                         from |-> player[p].addr]}
    /\ Quiet /\ UNCHANGED <<player, mail>>

(* The match is over, or was aborted.                                       *)
EndMatch(p) ==
    /\ player[p].st = "started"
    /\ player' = [player EXCEPT ![p].st = "lobby"]
    /\ Quiet /\ UNCHANGED <<net, mail>>

-----------------------------------------------------------------------------
(* The relay in this environment: a registration may be delivered again.    *)

(* What the relay sends while it handles d, as a player would receive it.   *)
Posted(d, for) ==
    mail' = IF sent'.to = NoAddr THEN mail
            ELSE mail \cup {[t |-> sent'.t, to |-> sent'.to, for |-> for,
                             by |-> d.by, match |-> d.match]}

RelayRegister(d) ==
    /\ d.t = "reg"
    /\ RegisterV3(d.by, KeyOf[d.match], d.from)
    /\ Posted(d, d.by)
    /\ net' \in {net, net \ {d}}
    /\ UNCHANGED player

RelayForward(d) ==
    /\ d.t = "data"
    /\ Forward(d.from)
    /\ Posted(d, Peer(d.by))
    /\ net' = net \ {d}
    /\ UNCHANGED player

(* Traffic in a room of older clients.                                      *)
OldTraffic ==
    /\ ~NewRoom
    /\ \E from \in OldClients :
        \/ \E port \in Ports : RegisterLegacy(from, port)
        \/ Forward(from)
    /\ UNCHANGED matchVars

(* PrepareForBattle probes the relay's health first.                        *)
ProbeHealth(p) ==
    /\ player[p].st = "registering"
    /\ Health(player[p].addr)
    /\ UNCHANGED matchVars

(* The relay is idle for 15 minutes only while nobody plays.                *)
RelayIdle ==
    /\ \A p \in Slot : player[p].st = "lobby"
    /\ IdleExit
    /\ UNCHANGED matchVars

Next ==
    \/ \E p \in Slot :
        \/ PrepareForBattle(p) \/ Probe(p) \/ TimeOut(p) \/ SendData(p) \/ EndMatch(p)
        \/ ProbeHealth(p)
        \/ \E d \in mail : ReceiveAnswer(p, d)
    \/ \E d \in net : RelayRegister(d) \/ RelayForward(d)
    \/ OldTraffic
    \/ RelayIdle

Spec == Init /\ [][Next]_vars

(* A registering player keeps probing, and a datagram sent again and again   *)
(* gets through.                                                             *)
Fairness ==
    \A p \in Slot :
        /\ WF_vars(Probe(p))
        /\ SF_vars(\E d \in net : d.by = p /\ d.match = player[p].match /\ RelayRegister(d))
        /\ SF_vars(\E d \in mail : d.t = "SF4R" /\ ReceiveAnswer(p, d))

FairSpec == Spec /\ Fairness

-----------------------------------------------------------------------------
(* Every variable of the players and the network has its type.              *)
TypeOK ==
    /\ RelayTypeOK
    /\ player \in [Slot -> [match : 0..MaxMatch,
                            st : {"lobby", "registering", "started"},
                            addr : Addrs \cup {NoAddr}]]
    /\ net \subseteq [t : {"reg", "data"}, by : Slot, match : 1..MaxMatch, from : Addrs]
    /\ mail \subseteq [t : {"SF4R", "SF4W", "data"}, to : Addrs, for : Slot, by : Slot,
                       match : 1..MaxMatch]

(* Nobody starts GGPO alone: a player that started a match has a peer that  *)
(* entered the same match (docs/TRANSPORT_REGRESSION.md:17, "neither starts *)
(* alone").                                                                 *)
StartedTogether ==
    \A p \in Slot : player[p].st = "started" =>
        player[Peer(p)].match >= player[p].match

(* While both players are in a started match, the relay forwards between    *)
(* their present addresses.                                                 *)
ForwardsThePlayers ==
    (\A p \in Slot : player[p].st = "started") =>
        \A p \in Slot : active.slots[p] = player[p].addr

(* GGPO never sees a datagram of another match or of anyone but the peer.   *)
OnlyPeerData ==
    \A p \in Slot, d \in mail :
        (d.t = "data" /\ d.to = player[p].addr /\ player[p].st = "started")
            => d.by = Peer(p) /\ d.match = player[p].match

(* Lost and reordered datagrams do not keep two players from starting: if   *)
(* both register for a match and neither gives up, both get SF4R.           *)
BothStart ==
    \A p \in Slot :
        (\A q \in Slot : player[q].st = "registering")
            ~> (player[p].st # "registering" \/ player[Peer(p)].st = "lobby" \/ ~running)
=============================================================================
