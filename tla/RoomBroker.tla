----------------------------- MODULE RoomBroker -----------------------------
(***************************************************************************)
(* The room broker (services/room-broker/server.js) and the relay manager  *)
(* (services/vps-relay/relay-manager.js) it drives, with FORCE_VPS_RELAY.  *)
(*                                                                         *)
(* The broker is one JavaScript thread: a handler runs without             *)
(* interruption up to its next await of the manager, so a handler is a     *)
(* task with a pc, and the code between two awaits is one action.  Calls   *)
(* to the manager travel on connections of their own: they arrive in any   *)
(* order and may be rejected when the manager cannot be reached.           *)
(*                                                                         *)
(* A code of Codes stands for a room's code, its token and its sidecar     *)
(* hash, drawn at random and never drawn twice.  Port i stands for the     *)
(* pair RELAY_PORT_BASE + i, GGPO_UDP_PORT_BASE + i.  A relay process is   *)
(* the manager's map entry for it: exit deletes exactly its own entry, and *)
(* a relay answers probes from the moment it is spawned.  Room listing,    *)
(* rate limits, the match log, the NAT probe and the quick-match queue are *)
(* left out.                                                               *)
(***************************************************************************)
EXTENDS Naturals, FiniteSets

CONSTANTS Codes,      \* the codes rooms may draw (bounds the rooms ever made)
          MaxRooms,   \* MAX_ROOMS
          Tasks,      \* handlers that may await the manager at one time
          Checkers,   \* those of them that may serve heartbeats and the like
          Modes,      \* whether BROKER_GGPO_TRANSPORT may be "auto"
          MaxFaults,  \* bound on rejected calls and relay exits together
          NoCode, NoTask

ASSUME BrokerAssumption ==
    /\ MaxRooms \in Nat \ {0}
    /\ MaxFaults \in Nat
    /\ Modes \subseteq BOOLEAN
    /\ NoCode \notin Codes /\ NoTask \notin Tasks
    /\ Checkers \subseteq Tasks
    /\ IsFiniteSet(Codes)

VARIABLES auto,      \* BROKER_GGPO_TRANSPORT = "auto", fixed at start
          rooms,     \* the broker's room table: code -> room, partial
          drawn,     \* codes already given out
          reserved,  \* reservedPorts
          task,      \* handlers under way
          calls,     \* requests to the manager not yet answered
          sess,      \* the manager's sessions: port -> code
          ggpo,      \* the manager's ggpoSessions: port -> code
          faults     \* rejected calls and relay exits so far

brokerVars == <<auto, rooms, drawn, reserved, task>>
managerVars == <<sess, ggpo>>
vars == <<auto, rooms, drawn, reserved, task, calls, sess, ggpo, faults>>

Ports == 1..MaxRooms
Room == [port : Ports, ggpo : BOOLEAN, occupied : BOOLEAN, idle : BOOLEAN]

CreatePcs == {"session", "ggpo"}
EnsurePcs == {"checkSession", "startSession", "recheckSession", "checkGgpo",
              "startGgpo", "recheckGgpo", "retryGgpo", "lastCheckGgpo"}
Task == [pc : {"idle"} \cup CreatePcs \cup EnsurePcs,
         code : Codes \cup {NoCode}, port : Ports, ggpo : BOOLEAN,
         reply : {"none", "ok", "reused", "fail", "rejected"}]
Idle == [pc |-> "idle", code |-> NoCode, port |-> 1, ggpo |-> FALSE,
         reply |-> "none"]

Op == {"startSession", "startGgpo", "sessionHealth", "ggpoHealth",
       "stopSession", "stopGgpo"}
Call == [op : Op, port : Ports, code : Codes, task : Tasks \cup {NoTask},
         stage : {"sent", "await"}]

Init ==
    /\ auto \in Modes
    /\ rooms = [c \in {} |-> [port |-> 1]]
    /\ drawn = {}
    /\ reserved = {}
    /\ task = [t \in Tasks |-> Idle]
    /\ calls = {}
    /\ sess = [p \in Ports |-> NoCode]
    /\ ggpo = [p \in Ports |-> NoCode]
    /\ faults = 0

-----------------------------------------------------------------------------
(* The broker: helpers.                                                    *)

Request(t, op, k) ==
    [op |-> op, port |-> k.port, code |-> k.code, task |-> t,
     stage |-> "sent"]

\* stopRelaySession: two requests nobody waits for.
StopCalls(c, port, withGgpo) ==
    {[op |-> o, port |-> port, code |-> c, task |-> NoTask, stage |-> "sent"] :
        o \in {"stopSession"} \cup (IF withGgpo THEN {"stopGgpo"} ELSE {})}

\* Mutant: the reservations of creations under way are not consulted.
FreePortsOfRooms ==
    {p \in Ports : \A c \in DOMAIN rooms : rooms[c].port # p}

\* allocatePortPair: neither a room's port nor a reserved one.
FreePorts ==
    {p \in Ports \ reserved : \A c \in DOMAIN rooms : rooms[c].port # p}

\* Mutant: the index of the port is off by one.
LowestFromZero(P) == (CHOOSE p \in P : \A q \in P : p <= q) - 1

\* The first free port of the loop over the range.
Lowest(P) == CHOOSE p \in P : \A q \in P : p <= q

\* Mutant: an occupied room ages like an empty one.
PrunedWhenIdle(r) == r.idle

\* shouldPruneRoom, with occupied rooms not ageing (ROOM_OCCUPIED_IDLE_MS 0).
ShouldPrune(r) == r.idle /\ ~r.occupied

\* pruneRooms, which every request and a timer run first.
Kept == {c \in DOMAIN rooms : ~ShouldPrune(rooms[c])}
Swept == [c \in Kept |-> rooms[c]]
SweepCalls ==
    UNION {StopCalls(c, rooms[c].port, rooms[c].ggpo) : c \in DOMAIN rooms \ Kept}

-----------------------------------------------------------------------------
(* The broker: requests.                                                   *)

Prune ==
    /\ Kept # DOMAIN rooms
    /\ rooms' = Swept
    /\ calls' = calls \cup SweepCalls
    /\ UNCHANGED <<auto, drawn, reserved, task, managerVars, faults>>

\* POST /v1/rooms: createRoomRecord up to its first await of the manager.  A
\* POST or DELETE sweeps, then awaits its body: its sweep is Prune.  A creation
\* that finds no port, or has no valid hash, changes nothing.
CreateRoom(t, c) ==
    /\ task[t].pc = "idle"
    /\ c \notin drawn
    /\ Cardinality(DOMAIN rooms) < MaxRooms
    /\ FreePorts # {}
    /\ LET k == [pc |-> "session", code |-> c, port |-> Lowest(FreePorts),
                 ggpo |-> FALSE, reply |-> "none"]
       IN  /\ task' = [task EXCEPT ![t] = k]
           /\ reserved' = reserved \cup {k.port}
           /\ calls' = calls \cup {Request(t, "startSession", k)}
    /\ drawn' = drawn \cup {c}
    /\ UNCHANGED <<auto, rooms, managerVars, faults>>

NewRoom(k, withGgpo) ==
    [port |-> k.port, ggpo |-> withGgpo, occupied |-> FALSE, idle |-> FALSE]

\* The room is entered in the table; the finally block frees the port.
Commit(t, withGgpo) ==
    LET k == task[t]
    IN  /\ rooms' = [c \in DOMAIN rooms \cup {k.code} |->
                        IF c = k.code THEN NewRoom(k, withGgpo) ELSE rooms[c]]
        /\ reserved' = reserved \ {k.port}
        /\ task' = [task EXCEPT ![t] = Idle]
        /\ UNCHANGED calls

\* Mutant: a creation that fails keeps its port reserved.
GiveUpHoldsPort(t, stops) ==
    /\ task' = [task EXCEPT ![t] = Idle]
    /\ calls' = calls \cup stops
    /\ UNCHANGED <<rooms, reserved>>

\* A creation that fails: the finally block stops what it started and frees
\* the port.
GiveUp(t, stops) ==
    /\ reserved' = reserved \ {task[t].port}
    /\ task' = [task EXCEPT ![t] = Idle]
    /\ calls' = calls \cup stops
    /\ UNCHANGED rooms

\* createRoomRecord after the session relay was asked for.
SessionStarted(t) ==
    LET k == task[t]
    IN  /\ k.pc = "session" /\ k.reply # "none"
        /\ \/ k.reply # "ok" /\ GiveUp(t, {})
           \/ k.reply = "ok" /\ ~auto /\ Commit(t, FALSE)
           \/ /\ k.reply = "ok" /\ auto
              /\ task' = [task EXCEPT ![t].pc = "ggpo", ![t].reply = "none"]
              /\ calls' = calls \cup {Request(t, "startGgpo", k)}
              /\ UNCHANGED <<rooms, reserved>>
        /\ UNCHANGED <<auto, drawn, managerVars, faults>>

\* createRoomRecord after the UDP relay was asked for: a refusal only means a
\* room without one, a rejected call fails the creation.
GgpoStarted(t) ==
    LET k == task[t]
    IN  /\ k.pc = "ggpo" /\ k.reply # "none"
        /\ \/ k.reply = "rejected" /\ GiveUp(t, StopCalls(k.code, k.port, TRUE))
           \/ k.reply # "rejected" /\ Commit(t, k.reply = "ok")
        /\ UNCHANGED <<auto, drawn, managerVars, faults>>

\* GET room: the sweep, then the room has been seen.
LookUp(c) ==
    /\ c \in Kept
    /\ rooms' = [Swept EXCEPT ![c].idle = FALSE]
    /\ calls' = calls \cup SweepCalls
    /\ UNCHANGED <<auto, drawn, reserved, task, managerVars, faults>>

\* POST register-endpoint and POST events: the room has been seen, and it is
\* occupied (isRoomOccupied) from its battle_start, or from the registration
\* that gives it both endpoints.
RoomUpdate(c, occupies) ==
    /\ c \in DOMAIN rooms
    /\ rooms' = [rooms EXCEPT ![c].idle = FALSE,
                             ![c].occupied = @ \/ occupies]
    /\ UNCHANGED <<auto, drawn, reserved, task, calls, managerVars, faults>>

\* DELETE room by its host: endRoom.
HostDelete(c) ==
    /\ c \in DOMAIN rooms
    /\ rooms' = [d \in DOMAIN rooms \ {c} |-> rooms[d]]
    /\ calls' = calls \cup StopCalls(c, rooms[c].port, rooms[c].ggpo)
    /\ UNCHANGED <<auto, drawn, reserved, task, managerVars, faults>>

\* A handler enters ensureRelaySession for room c of table R.
EnsureRelay(t, c, R, stops) ==
    LET k == [pc |-> "checkSession", code |-> c, port |-> R[c].port,
              ggpo |-> R[c].ggpo, reply |-> "none"]
    IN  /\ task[t].pc = "idle"
        /\ task' = [task EXCEPT ![t] = k]
        /\ rooms' = R
        /\ calls' = calls \cup stops \cup {Request(t, "sessionHealth", k)}
        /\ UNCHANGED <<auto, drawn, reserved, managerVars, faults>>

\* POST heartbeat.
Heartbeat(t, c) ==
    /\ c \in DOMAIN rooms
    /\ EnsureRelay(t, c, [rooms EXCEPT ![c].idle = FALSE], {})

\* GET connect-plan marks the room as seen, GET health does not.
ConnectPlan(t, c) ==
    /\ c \in Kept
    /\ EnsureRelay(t, c, [Swept EXCEPT ![c].idle = FALSE], SweepCalls)

RoomHealth(t, c) ==
    /\ c \in Kept
    /\ EnsureRelay(t, c, Swept, SweepCalls)

\* Mutant: a relay that does not answer is reported, not started again.
EnsureOnlyReports(k) ==
    CASE k.reply = "rejected" -> "idle"
      [] k.pc = "checkSession" /\ k.reply = "ok" /\ k.ggpo -> "checkGgpo"
      [] OTHER -> "idle"

\* ensureRelaySession and ensureGgpoRelaySession: the await that follows.
\* Starting counts as done only on 201: the manager's "reused" is a failure.
EnsureNext(k) ==
    LET ok == k.reply = "ok"
        ggpoPart == IF k.ggpo THEN "checkGgpo" ELSE "idle"
    IN  CASE k.reply = "rejected" -> "idle"
          [] k.pc = "checkSession" -> IF ok THEN ggpoPart ELSE "startSession"
          [] k.pc = "startSession" -> IF ok THEN "recheckSession" ELSE "idle"
          [] k.pc = "recheckSession" -> IF ok THEN ggpoPart ELSE "idle"
          [] k.pc = "checkGgpo" -> IF ok THEN "idle" ELSE "startGgpo"
          [] k.pc = "startGgpo" -> IF ok THEN "recheckGgpo" ELSE "idle"
          [] k.pc = "recheckGgpo" -> IF ok THEN "idle" ELSE "retryGgpo"
          [] k.pc = "retryGgpo" -> IF ok THEN "lastCheckGgpo" ELSE "idle"
          [] OTHER -> "idle"

EnsureOp(pc) ==
    CASE pc \in {"checkSession", "recheckSession"} -> "sessionHealth"
      [] pc = "startSession" -> "startSession"
      [] pc \in {"startGgpo", "retryGgpo"} -> "startGgpo"
      [] OTHER -> "ggpoHealth"

EnsureStep(t) ==
    LET k == task[t]
        pc == EnsureNext(k)
    IN  /\ k.pc \in EnsurePcs /\ k.reply # "none"
        /\ \/ /\ pc = "idle"
              /\ task' = [task EXCEPT ![t] = Idle]
              /\ UNCHANGED calls
           \/ /\ pc # "idle"
              /\ task' = [task EXCEPT ![t].pc = pc, ![t].reply = "none"]
              /\ calls' = calls \cup {Request(t, EnsureOp(pc), k)}
        /\ UNCHANGED <<auto, rooms, drawn, reserved, managerVars, faults>>

\* The idle limit of a room passes without a request for it.
GoIdle(c) ==
    /\ c \in DOMAIN rooms /\ ~rooms[c].idle
    /\ rooms' = [rooms EXCEPT ![c].idle = TRUE]
    /\ UNCHANGED <<auto, drawn, reserved, task, calls, managerVars, faults>>

-----------------------------------------------------------------------------
(* The relay manager.                                                      *)

\* The manager answers call c; nobody waits for a stop.
Answered(c, reply) ==
    /\ calls' = calls \ {c}
    /\ task' = IF c.task = NoTask THEN task
               ELSE [task EXCEPT ![c.task].reply = reply]

\* POST sessions: whatever runs on the port is replaced.
StartSession(c) ==
    /\ c.op = "startSession"
    /\ sess' = [sess EXCEPT ![c.port] = c.code]
    /\ Answered(c, "ok")
    /\ UNCHANGED ggpo

SpawnGgpo(c) ==
    /\ ggpo[c.port] = NoCode
    /\ ggpo' = [ggpo EXCEPT ![c.port] = c.code]
    /\ Answered(c, "ok")

\* POST ggpo-sessions: a relay with this token is reused, another one is
\* terminated and its exit awaited, otherwise one is spawned.
StartGgpo(c) ==
    /\ c.op = "startGgpo" /\ c.stage = "sent"
    /\ \/ ggpo[c.port] = c.code /\ Answered(c, "reused") /\ UNCHANGED ggpo
       \/ /\ ggpo[c.port] \notin {c.code, NoCode}
          /\ ggpo' = [ggpo EXCEPT ![c.port] = NoCode]
          /\ calls' = (calls \ {c}) \cup {[c EXCEPT !.stage = "await"]}
          /\ UNCHANGED task
       \/ SpawnGgpo(c)
    /\ UNCHANGED sess

\* The old relay has exited; a port that answers all the same is refused.
GgpoReleased(c) ==
    /\ c.op = "startGgpo" /\ c.stage = "await"
    /\ \/ ggpo[c.port] # NoCode /\ Answered(c, "fail") /\ UNCHANGED ggpo
       \/ SpawnGgpo(c)
    /\ UNCHANGED sess

StopSession(c) ==
    /\ c.op = "stopSession"
    /\ sess' = [sess EXCEPT ![c.port] = NoCode]
    /\ Answered(c, "ok")
    /\ UNCHANGED ggpo

StopGgpo(c) ==
    /\ c.op = "stopGgpo"
    /\ ggpo' = [ggpo EXCEPT ![c.port] = NoCode]
    /\ Answered(c, "ok")
    /\ UNCHANGED sess

Health(c) ==
    /\ \/ /\ c.op = "sessionHealth"
          /\ Answered(c, IF sess[c.port] = NoCode THEN "fail" ELSE "ok")
       \/ /\ c.op = "ggpoHealth"
          /\ Answered(c, IF ggpo[c.port] = NoCode THEN "fail" ELSE "ok")
    /\ UNCHANGED managerVars

ManagerStep(c) ==
    /\ \/ StartSession(c) \/ StartGgpo(c) \/ GgpoReleased(c)
       \/ StopSession(c) \/ StopGgpo(c) \/ Health(c)
    /\ UNCHANGED <<auto, rooms, drawn, reserved, faults>>

\* fetch rejects: the manager cannot be reached.
CallRejected(c) ==
    /\ faults < MaxFaults
    /\ c.stage = "sent"
    /\ Answered(c, "rejected")
    /\ faults' = faults + 1
    /\ UNCHANGED <<auto, rooms, drawn, reserved, managerVars>>

\* The probe loop gives up on a relay just started, which is stopped again.
StartFails(c) ==
    /\ faults < MaxFaults
    /\ \/ /\ c.op = "startSession"
          /\ sess' = [sess EXCEPT ![c.port] = NoCode]
          /\ UNCHANGED ggpo
       \/ /\ c.op = "startGgpo"
          /\ c.stage = "await" => ggpo[c.port] = NoCode
          /\ ggpo' = [ggpo EXCEPT ![c.port] = NoCode]
          /\ UNCHANGED sess
    /\ Answered(c, "fail")
    /\ faults' = faults + 1
    /\ UNCHANGED <<auto, rooms, drawn, reserved>>

\* A relay exits by itself (idle limit, crash, port still taken).
RelayExits(p) ==
    /\ faults < MaxFaults
    /\ \/ sess[p] # NoCode /\ sess' = [sess EXCEPT ![p] = NoCode] /\ UNCHANGED ggpo
       \/ ggpo[p] # NoCode /\ ggpo' = [ggpo EXCEPT ![p] = NoCode] /\ UNCHANGED sess
    /\ faults' = faults + 1
    /\ UNCHANGED <<brokerVars, calls>>

-----------------------------------------------------------------------------
Handler(t) == SessionStarted(t) \/ GgpoStarted(t) \/ EnsureStep(t)

Next ==
    \/ Prune
    \/ \E t \in Tasks : Handler(t)
    \/ \E t \in Tasks, c \in Codes :
           CreateRoom(t, c)
    \/ \E t \in Checkers, c \in Codes :
           Heartbeat(t, c) \/ ConnectPlan(t, c) \/ RoomHealth(t, c)
    \/ \E c \in Codes :
           \/ LookUp(c) \/ HostDelete(c) \/ GoIdle(c)
           \/ \E occupies \in BOOLEAN : RoomUpdate(c, occupies)
    \/ \E c \in calls : ManagerStep(c) \/ CallRejected(c) \/ StartFails(c)
    \/ \E p \in Ports : RelayExits(p)

Spec == Init /\ [][Next]_vars

\* Handlers and the manager go on, and the host's launcher sends a heartbeat
\* every minute.  A heartbeat finds its handler only when Tasks, a bound of the
\* model, leaves one free: hence strong fairness.
Fairness ==
    /\ \A t \in Tasks : WF_vars(Handler(t))
    /\ \A t \in Tasks \cup {NoTask} :
           WF_vars(\E c \in calls : c.task = t /\ ManagerStep(c))
    /\ \A c \in Codes : SF_vars(\E t \in Checkers : Heartbeat(t, c))

FairSpec == Spec /\ Fairness

-----------------------------------------------------------------------------
(* Properties.                                                             *)

(* The broker's tables, its handlers' state, the requests under way and    *)
(* the manager's tables keep their types; a port is always one of the      *)
(* MAX_ROOMS of the range, a room's code always one that was drawn.        *)
TypeOK ==
    /\ auto \in BOOLEAN
    /\ DOMAIN rooms \subseteq drawn
    /\ rooms \in [DOMAIN rooms -> Room]
    /\ drawn \subseteq Codes
    /\ reserved \subseteq Ports
    /\ task \in [Tasks -> Task]
    /\ calls \subseteq Call
    /\ sess \in [Ports -> Codes \cup {NoCode}]
    /\ ggpo \in [Ports -> Codes \cup {NoCode}]
    /\ faults \in 0..MaxFaults

Creating == {t \in Tasks : task[t].pc \in CreatePcs}

(* Ports belong to one room: neither two rooms nor a room and a creation   *)
(* that awaits its relays, nor two such creations, have one port           *)
(* (allocatePortPair, reservedPorts).                                      *)
PortsExclusive ==
    /\ \A c, d \in DOMAIN rooms : rooms[c].port = rooms[d].port => c = d
    /\ \A t \in Creating, c \in DOMAIN rooms : task[t].port # rooms[c].port
    /\ \A t, u \in Creating : task[t].port = task[u].port => t = u

(* A port is reserved exactly while a creation holds it: every way out of  *)
(* createRoomRecord gives it back, so no capacity is lost for good.        *)
ReservationsHeld == reserved = {task[t].port : t \in Creating}

(* A room with a guest or a match ends only when its host deletes it: no   *)
(* sweep of any request takes it (shouldPruneRoom).                        *)
OccupiedStays ==
    [][\A c \in DOMAIN rooms :
          rooms[c].occupied /\ c \notin DOMAIN rooms' => HostDelete(c)]_vars

Served(c) ==
    /\ sess[rooms[c].port] # NoCode
    /\ rooms[c].ggpo => ggpo[rooms[c].port] # NoCode

(* Whatever exits, rejected calls and late stops of an earlier room on the *)
(* port did to its relays, a room whose host sends heartbeats gets them    *)
(* back (ensureRelaySession).                                              *)
RelayRestored ==
    \A c \in Codes :
        c \in DOMAIN rooms ~> (c \notin DOMAIN rooms \/ Served(c))

(* The UDP relay on a room's port carries that room's token: no start on   *)
(* behalf of another room replaces it.                                     *)
RelayServesOwner ==
    \A c \in DOMAIN rooms :
        rooms[c].ggpo => ggpo[rooms[c].port] \in {c, NoCode}

=============================================================================
