-------------------------- MODULE RoomBrokerProofs --------------------------
(***************************************************************************)
(* Proofs about RoomBroker for every number of rooms, handlers and faults. *)
(***************************************************************************)
EXTENDS RoomBroker, WellFoundedInduction, TLAPS

(* A nonempty set of ports has a lowest element: allocatePortPair's loop    *)
(* stops at one of the free ports.                                          *)
LEMMA LowestIn ==
    ASSUME NEW P \in SUBSET Nat, P # {}
    PROVE  Lowest(P) \in P
<1> DEFINE Less == {ss \in Nat \X Nat : ss[1] < ss[2]}
<1>1. IsWellFoundedOn(Less, Nat)
  BY NatLessThanWellFounded, Zenon DEF OpToRel
<1> HIDE DEF Less
<1>2. PICK x \in P : \A y \in P : ~(<<y, x>> \in Less)
  BY <1>1, WFMin
<1>3. ASSUME NEW y \in P
      PROVE  x <= y
  <2>1. y \in Nat /\ x \in Nat
    OBVIOUS
  <2>2. CASE y < x
    <3>1. <<y, x>> \in Nat \X Nat /\ <<y, x>>[1] < <<y, x>>[2]
      BY <2>1, <2>2
    <3>2. <<y, x>> \in Less
      BY <3>1, Zenon DEF Less
    <3> QED BY <3>2, <1>2
  <2>3. CASE ~(y < x)
    BY <2>1, <2>3
  <2> QED BY <2>2, <2>3
<1> QED BY <1>3 DEF Lowest

-----------------------------------------------------------------------------
(* The inductive invariant: ports and reservations, the codes handlers work *)
(* for, and the types of what they depend on.                               *)

Coded == \A t \in Tasks : task[t].pc # "idle" => task[t].code \in drawn

Holdings == PortsExclusive /\ ReservationsHeld /\ Coded

(* A step that takes no port and gives none back keeps the holdings: rooms  *)
(* may only disappear, and no handler starts or ends a creation.            *)
LEMMA HoldingsKept ==
    ASSUME Holdings,
           DOMAIN rooms' \subseteq DOMAIN rooms,
           \A c \in DOMAIN rooms' : rooms'[c].port = rooms[c].port,
           reserved' = reserved,
           \A t \in Tasks : /\ task'[t].pc \in CreatePcs <=> task[t].pc \in CreatePcs
                            /\ task[t].pc \in CreatePcs => task'[t].port = task[t].port
                            /\ task'[t].pc # "idle" => task'[t].code \in drawn'
    PROVE  Holdings'
<1>1. Creating' = Creating
  BY DEF Creating
<1>2. \A t \in Creating : task'[t].port = task[t].port
  BY DEF Creating
<1>3. PortsExclusive'
  BY <1>1, <1>2 DEF Holdings, PortsExclusive
<1>4. ReservationsHeld'
  BY <1>1, <1>2 DEF Holdings, ReservationsHeld
<1> QED BY <1>3, <1>4 DEF Holdings, Coded

(* The manager's answer changes nothing of a handler but its reply.         *)
LEMMA AnswerKeeps ==
    ASSUME TypeOK, NEW c \in calls,
           NEW reply \in {"ok", "reused", "fail", "rejected"},
           Answered(c, reply)
    PROVE  /\ task' \in [Tasks -> Task]
           /\ calls' \subseteq Call
           /\ \A t \in Tasks : /\ task'[t].pc = task[t].pc
                               /\ task'[t].port = task[t].port
                               /\ task'[t].code = task[t].code
<1>1. c \in Call
  BY DEF TypeOK
<1>2. calls' \subseteq Call
  BY DEF Answered, TypeOK
<1>3. CASE c.task = NoTask
  BY <1>2, <1>3 DEF Answered, TypeOK
<1>4. CASE c.task # NoTask
  <2>1. c.task \in Tasks
    BY <1>1, <1>4 DEF Call
  <2>2. task' = [task EXCEPT ![c.task].reply = reply]
    BY <1>4 DEF Answered
  <2>3. [task[c.task] EXCEPT !.reply = reply] \in Task
    BY <2>1 DEF TypeOK, Task
  <2>4. task \in [Tasks -> Task]
    BY DEF TypeOK
  <2>5. task' \in [Tasks -> Task]
    BY <2>2, <2>3, <2>4
  <2>6. \A t \in Tasks : /\ task'[t].pc = task[t].pc
                         /\ task'[t].port = task[t].port
                         /\ task'[t].code = task[t].code
    BY <2>2, <2>4, <2>1 DEF Task
  <2> QED BY <1>2, <2>5, <2>6
<1> QED BY <1>3, <1>4

Inv == TypeOK /\ Holdings

(* The manager's steps, its failures included: only replies, calls and its  *)
(* own tables change.                                                       *)
LEMMA ManagerKeeps ==
    ASSUME Inv, NEW c \in calls,
           ManagerStep(c) \/ CallRejected(c) \/ StartFails(c)
    PROVE  Inv'
<1> USE DEF Inv
<1>1. /\ c \in Call /\ c.port \in Ports /\ c.code \in Codes
      /\ task \in [Tasks -> Task] /\ calls \subseteq Call
      /\ sess \in [Ports -> Codes \cup {NoCode}]
      /\ ggpo \in [Ports -> Codes \cup {NoCode}]
  BY DEF TypeOK, Call
<1>2. /\ auto' = auto /\ rooms' = rooms /\ drawn' = drawn /\ reserved' = reserved
      /\ faults' \in 0..MaxFaults
  BY BrokerAssumption DEF ManagerStep, CallRejected, StartFails, TypeOK
<1>3. /\ sess' \in [Ports -> Codes \cup {NoCode}]
      /\ ggpo' \in [Ports -> Codes \cup {NoCode}]
  BY <1>1 DEF ManagerStep, CallRejected, StartFails, StartSession, StartGgpo,
              SpawnGgpo, GgpoReleased, StopSession, StopGgpo, Health, managerVars
<1>4. \/ \E reply \in {"ok", "reused", "fail", "rejected"} : Answered(c, reply)
      \/ /\ calls' = (calls \ {c}) \cup {[c EXCEPT !.stage = "await"]}
         /\ task' = task
  BY DEF ManagerStep, CallRejected, StartFails, StartSession, StartGgpo,
         SpawnGgpo, GgpoReleased, StopSession, StopGgpo, Health
<1>5. /\ task' \in [Tasks -> Task]
      /\ calls' \subseteq Call
      /\ \A t \in Tasks : /\ task'[t].pc = task[t].pc
                          /\ task'[t].port = task[t].port
                          /\ task'[t].code = task[t].code
  <2>1. CASE \E reply \in {"ok", "reused", "fail", "rejected"} : Answered(c, reply)
    BY <2>1, AnswerKeeps
  <2>2. CASE /\ calls' = (calls \ {c}) \cup {[c EXCEPT !.stage = "await"]}
             /\ task' = task
    <3>1. [c EXCEPT !.stage = "await"] \in Call
      BY <1>1 DEF Call
    <3> QED BY <2>2, <3>1, <1>1
  <2> QED BY <1>4, <2>1, <2>2
<1>6. TypeOK'
  BY <1>2, <1>3, <1>5 DEF TypeOK
<1>7. Holdings'
  BY <1>2, <1>5, HoldingsKept DEF Holdings, Coded
<1> QED BY <1>6, <1>7

(* Stop requests are well-formed calls.                                     *)
LEMMA StopCallsType ==
    ASSUME NEW c \in Codes, NEW port \in Ports, NEW withGgpo \in BOOLEAN
    PROVE  StopCalls(c, port, withGgpo) \subseteq Call
BY DEF StopCalls, Call, Op

(* pruneRooms leaves rooms as they were and only emits stop requests.       *)
LEMMA SweepKeeps ==
    ASSUME TypeOK
    PROVE  /\ Kept \subseteq DOMAIN rooms
           /\ Swept \in [Kept -> Room]
           /\ \A c \in Kept : Swept[c] = rooms[c]
           /\ SweepCalls \subseteq Call
<1>1. \A c \in DOMAIN rooms : c \in Codes /\ rooms[c] \in Room
  BY DEF TypeOK
<1>2. \A c \in DOMAIN rooms : StopCalls(c, rooms[c].port, rooms[c].ggpo) \subseteq Call
  BY <1>1, StopCallsType DEF Room
<1> QED BY <1>1, <1>2 DEF Kept, Swept, SweepCalls

(* Requests and timers that only touch or end rooms.                        *)
LEMMA RoomsKeep ==
    ASSUME Inv,
           \/ Prune
           \/ \E c \in Codes :
                 \/ LookUp(c) \/ HostDelete(c) \/ GoIdle(c)
                 \/ \E occupies \in BOOLEAN : RoomUpdate(c, occupies)
    PROVE  Inv'
<1> USE DEF Inv
<1>1. rooms \in [DOMAIN rooms -> Room] /\ DOMAIN rooms \subseteq Codes
  BY DEF TypeOK
<1>2. /\ auto' = auto /\ drawn' = drawn /\ reserved' = reserved /\ task' = task
      /\ sess' = sess /\ ggpo' = ggpo /\ faults' = faults
  BY DEF Prune, LookUp, HostDelete, GoIdle, RoomUpdate, managerVars
<1>3. /\ DOMAIN rooms' \subseteq DOMAIN rooms
      /\ rooms' \in [DOMAIN rooms' -> Room]
      /\ \A c \in DOMAIN rooms' : rooms'[c].port = rooms[c].port
      /\ calls' \subseteq Call
  <2>1. CASE Prune
    BY <2>1, <1>1, SweepKeeps DEF Prune, TypeOK
  <2>2. ASSUME NEW c \in Codes, LookUp(c)
        PROVE  <1>3!:
    <3>1. [rooms[c] EXCEPT !.idle = FALSE] \in Room
      BY <2>2, <1>1, SweepKeeps DEF LookUp, Room
    <3>2. /\ rooms' \in [Kept -> Room]
          /\ \A d \in Kept : rooms'[d].port = rooms[d].port
      BY <2>2, <3>1, <1>1, SweepKeeps DEF LookUp, Room
    <3> QED BY <2>2, <3>2, SweepKeeps DEF LookUp, TypeOK
  <2>3. ASSUME NEW c \in Codes, HostDelete(c)
        PROVE  <1>3!:
    <3>1. StopCalls(c, rooms[c].port, rooms[c].ggpo) \subseteq Call
      BY <2>3, <1>1, StopCallsType DEF HostDelete, Room
    <3> QED BY <2>3, <3>1, <1>1 DEF HostDelete, TypeOK
  <2>4. ASSUME NEW c \in Codes, GoIdle(c)
        PROVE  <1>3!:
    BY <2>4, <1>1 DEF GoIdle, Room, TypeOK
  <2>5. ASSUME NEW c \in Codes, NEW occupies \in BOOLEAN, RoomUpdate(c, occupies)
        PROVE  <1>3!:
    <3> DEFINE o == rooms[c].occupied \/ occupies
    <3>1. o \in BOOLEAN
      OBVIOUS
    <3>2. rooms' = [rooms EXCEPT ![c] = [rooms[c] EXCEPT !.idle = FALSE,
                                                         !.occupied = o]]
      BY <2>5, <1>1, Zenon DEF RoomUpdate
    <3> HIDE DEF o
    <3>3. [rooms[c] EXCEPT !.idle = FALSE, !.occupied = o] \in Room
      <4>1. rooms[c] \in Room
        BY <2>5, <1>1 DEF RoomUpdate
      <4> QED BY <4>1, <3>1 DEF Room
    <3> QED BY <2>5, <3>2, <3>3, <1>1 DEF RoomUpdate, Room, TypeOK
  <2> QED BY <2>1, <2>2, <2>3, <2>4, <2>5
<1>4. TypeOK'
  BY <1>2, <1>3 DEF TypeOK
<1>5. Holdings'
  BY <1>2, <1>3, HoldingsKept DEF Holdings, Coded
<1> QED BY <1>4, <1>5

(* A request of a handler that works for a room is a well-formed call.      *)
LEMMA RequestType ==
    ASSUME NEW t \in Tasks, NEW op \in Op, NEW k \in Task, k.code \in Codes
    PROVE  Request(t, op, k) \in Call
BY DEF Request, Call, Task

(* Heartbeat, connect-plan and room health enter ensureRelaySession.        *)
LEMMA EnsureHeadKeeps ==
    ASSUME Inv, NEW t \in Tasks, NEW c \in Codes,
           Heartbeat(t, c) \/ ConnectPlan(t, c) \/ RoomHealth(t, c)
    PROVE  Inv'
<1> USE DEF Inv
<1>1. /\ rooms \in [DOMAIN rooms -> Room] /\ DOMAIN rooms \subseteq drawn
      /\ drawn \subseteq Codes /\ task \in [Tasks -> Task] /\ calls \subseteq Call
  BY DEF TypeOK
<1> DEFINE k == [pc |-> "checkSession", code |-> c, port |-> rooms'[c].port,
                 ggpo |-> rooms'[c].ggpo, reply |-> "none"]
           Kin(stops) == /\ task[t].pc = "idle" /\ task' = [task EXCEPT ![t] = k]
                         /\ calls' = calls \cup stops \cup {Request(t, "sessionHealth", k)}
<1>2. /\ c \in DOMAIN rooms' /\ DOMAIN rooms' \subseteq DOMAIN rooms
      /\ rooms' \in [DOMAIN rooms' -> Room]
      /\ \A d \in DOMAIN rooms' : rooms'[d].port = rooms[d].port
      /\ Kin({}) \/ Kin(SweepCalls)
  <2>1. CASE Heartbeat(t, c)
    <3>1. c \in DOMAIN rooms /\ rooms[c] \in Room
      BY <2>1, <1>1 DEF Heartbeat
    <3>2. rooms' = [rooms EXCEPT ![c].idle = FALSE]
      BY <2>1 DEF Heartbeat, EnsureRelay
    <3>3. Kin({})
      BY <2>1, <3>2 DEF Heartbeat, EnsureRelay
    <3> HIDE DEF Kin
    <3> QED BY <3>1, <3>2, <3>3, <1>1 DEF Room
  <2>2. CASE ConnectPlan(t, c)
    <3>1. c \in Kept /\ Swept[c] \in Room
      BY <2>2, <1>1, SweepKeeps DEF ConnectPlan
    <3>2. rooms' = [Swept EXCEPT ![c].idle = FALSE]
      BY <2>2 DEF ConnectPlan, EnsureRelay
    <3>3. Kin(SweepCalls)
      BY <2>2, <3>2 DEF ConnectPlan, EnsureRelay
    <3> HIDE DEF Kin
    <3> QED BY <3>1, <3>2, <3>3, <1>1, SweepKeeps DEF Room
  <2>3. CASE RoomHealth(t, c)
    <3>1. c \in Kept /\ rooms' = Swept
      BY <2>3 DEF RoomHealth, EnsureRelay
    <3>2. Kin(SweepCalls)
      BY <2>3, <3>1 DEF RoomHealth, EnsureRelay
    <3> HIDE DEF Kin
    <3> QED BY <3>1, <3>2, <1>1, SweepKeeps
  <2> QED BY <2>1, <2>2, <2>3
<1>3. k \in Task /\ k.code \in Codes /\ k.code \in drawn /\ k.pc \notin CreatePcs
  BY <1>1, <1>2 DEF Task, Room, EnsurePcs, CreatePcs
<1>4. /\ task[t].pc = "idle" /\ task' = [task EXCEPT ![t] = k]
      /\ calls' \subseteq calls \cup SweepCalls \cup {Request(t, "sessionHealth", k)}
      /\ auto' = auto /\ drawn' = drawn /\ reserved' = reserved
      /\ sess' = sess /\ ggpo' = ggpo /\ faults' = faults
  <2>1. /\ auto' = auto /\ drawn' = drawn /\ reserved' = reserved
        /\ sess' = sess /\ ggpo' = ggpo /\ faults' = faults
    BY DEF Heartbeat, ConnectPlan, RoomHealth, EnsureRelay, managerVars
  <2> QED BY <1>2, <2>1
<1> HIDE DEF k
<1>5. Request(t, "sessionHealth", k) \in Call
  BY <1>3, RequestType DEF Op
<1>6. TypeOK'
  BY <1>1, <1>2, <1>3, <1>4, <1>5, SweepKeeps DEF TypeOK
<1>7. \A u \in Tasks : /\ task'[u].pc \in CreatePcs <=> task[u].pc \in CreatePcs
                       /\ task[u].pc \in CreatePcs => task'[u].port = task[u].port
                       /\ task'[u].pc # "idle" => task'[u].code \in drawn'
  BY <1>1, <1>3, <1>4 DEF CreatePcs, Holdings, Coded
<1>8. Holdings'
  BY <1>2, <1>4, <1>7, HoldingsKept
<1> QED BY <1>6, <1>8

(* A handler inside ensureRelaySession goes on, or ends.                    *)
LEMMA EnsureStepKeeps ==
    ASSUME Inv, NEW t \in Tasks, EnsureStep(t)
    PROVE  Inv'
<1> USE DEF Inv
<1>1. /\ task \in [Tasks -> Task] /\ calls \subseteq Call /\ drawn \subseteq Codes
      /\ task[t] \in Task /\ task[t].pc \in EnsurePcs
  BY DEF TypeOK, EnsureStep
<1>2. task[t].code \in drawn /\ task[t].pc \notin CreatePcs
  BY <1>1 DEF Holdings, Coded, EnsurePcs, CreatePcs
<1> DEFINE pc == EnsureNext(task[t])
           k == [task[t] EXCEPT !.pc = pc, !.reply = "none"]
<1>3. pc \in EnsurePcs \cup {"idle"}
  BY DEF EnsureNext, EnsurePcs
<1>4. EnsureOp(pc) \in Op
  BY DEF EnsureOp, Op
<1>5. /\ \/ task' = [task EXCEPT ![t] = Idle] /\ calls' = calls
         \/ /\ pc # "idle"
            /\ task' = [task EXCEPT ![t] = k]
            /\ calls' = calls \cup {Request(t, EnsureOp(pc), task[t])}
      /\ auto' = auto /\ rooms' = rooms /\ drawn' = drawn /\ reserved' = reserved
      /\ sess' = sess /\ ggpo' = ggpo /\ faults' = faults
  BY <1>1 DEF EnsureStep, managerVars
<1> HIDE DEF pc
<1>6. pc # "idle" => k \in Task /\ k.code = task[t].code /\ k.pc \notin CreatePcs
  BY <1>1, <1>3 DEF Task, EnsurePcs, CreatePcs
<1>7. Idle \in Task /\ Idle.pc = "idle" /\ Idle.pc \notin CreatePcs
  BY BrokerAssumption DEF Idle, Task, Ports, CreatePcs
<1>8. Request(t, EnsureOp(pc), task[t]) \in Call
  BY <1>1, <1>2, <1>4, RequestType
<1> HIDE DEF k
<1>9. TypeOK'
  BY <1>1, <1>5, <1>6, <1>7, <1>8 DEF TypeOK
<1>10. \A u \in Tasks : /\ task'[u].pc \in CreatePcs <=> task[u].pc \in CreatePcs
                        /\ task[u].pc \in CreatePcs => task'[u].port = task[u].port
                        /\ task'[u].pc # "idle" => task'[u].code \in drawn'
  BY <1>1, <1>2, <1>5, <1>6, <1>7 DEF Holdings, Coded
<1>11. Holdings'
  BY <1>5, <1>10, HoldingsKept
<1> QED BY <1>9, <1>11

(* createRoomRecord takes a port that neither a room nor a creation has.    *)
LEMMA CreateKeeps ==
    ASSUME Inv, NEW t \in Tasks, NEW c \in Codes, CreateRoom(t, c)
    PROVE  Inv'
<1> USE DEF Inv
<1> DEFINE p == Lowest(FreePorts)
           k == [pc |-> "session", code |-> c, port |-> p,
                 ggpo |-> FALSE, reply |-> "none"]
<1>1. /\ task \in [Tasks -> Task] /\ calls \subseteq Call /\ drawn \subseteq Codes
      /\ DOMAIN rooms \subseteq drawn /\ reserved \subseteq Ports
  BY DEF TypeOK
<1>2. p \in Ports /\ p \notin reserved /\ \A d \in DOMAIN rooms : rooms[d].port # p
  <2>1. FreePorts \in SUBSET Nat /\ FreePorts # {}
    BY BrokerAssumption DEF CreateRoom, FreePorts, Ports
  <2>2. p \in FreePorts
    BY <2>1, LowestIn
  <2> QED BY <2>2 DEF FreePorts
<1>3. /\ task[t].pc = "idle" /\ task' = [task EXCEPT ![t] = k]
      /\ reserved' = reserved \cup {k.port}
      /\ calls' = calls \cup {Request(t, "startSession", k)}
      /\ drawn' = drawn \cup {c}
      /\ auto' = auto /\ rooms' = rooms /\ sess' = sess /\ ggpo' = ggpo /\ faults' = faults
  BY DEF CreateRoom, managerVars
<1> HIDE DEF p
<1>4. k \in Task /\ k.code = c /\ k.pc = "session" /\ k.port = p
  BY <1>2 DEF Task, CreatePcs
<1> HIDE DEF k
<1>5. Request(t, "startSession", k) \in Call
  BY <1>4, RequestType DEF Op
<1>6. TypeOK'
  BY <1>1, <1>2, <1>3, <1>4, <1>5 DEF TypeOK
<1>7. /\ Creating' = Creating \cup {t}
      /\ t \notin Creating
      /\ task'[t].port = p
      /\ \A u \in Creating : task'[u].port = task[u].port /\ task[u].port # p
  <2>1. t \notin Creating
    BY <1>3 DEF Creating, CreatePcs
  <2>2. \A u \in Creating : task[u].port \in reserved
    BY DEF Holdings, ReservationsHeld
  <2>3. Creating' = Creating \cup {t}
    BY <1>1, <1>3, <1>4 DEF Creating, CreatePcs
  <2>4. task'[t].port = p /\ \A u \in Creating : task'[u].port = task[u].port
    BY <1>1, <1>3, <1>4, <2>1 DEF Creating
  <2> QED BY <2>1, <2>2, <2>3, <2>4, <1>2
<1>8. PortsExclusive'
  BY <1>2, <1>3, <1>7 DEF Holdings, PortsExclusive
<1>9. ReservationsHeld'
  BY <1>3, <1>4, <1>7 DEF Holdings, ReservationsHeld
<1>10. Coded'
  BY <1>1, <1>3, <1>4 DEF Holdings, Coded
<1> QED BY <1>6, <1>8, <1>9, <1>10 DEF Holdings

(* A handler that ends its creation is no creator any more, and the others  *)
(* hold what they held.                                                     *)
LEMMA CreationEnds ==
    ASSUME Inv, NEW t \in Creating, task' = [task EXCEPT ![t] = Idle]
    PROVE  /\ task' \in [Tasks -> Task]
           /\ Creating' = Creating \ {t}
           /\ \A u \in Creating \ {t} : /\ task'[u].port = task[u].port
                                        /\ task[u].port # task[t].port
           /\ \A u \in Tasks : task'[u].pc # "idle" => task'[u].code = task[u].code
                                                        /\ task[u].pc # "idle"
<1>1. Idle \in Task /\ Idle.pc = "idle"
  BY BrokerAssumption DEF Idle, Task, Ports
<1>2. t \in Tasks /\ task \in [Tasks -> Task]
  BY DEF Creating, Inv, TypeOK
<1>3. Creating' = Creating \ {t}
  BY <1>1, <1>2 DEF Creating, CreatePcs
<1>4. \A u \in Creating \ {t} : task[u].port # task[t].port
  BY DEF Inv, Holdings, PortsExclusive
<1> QED BY <1>1, <1>2, <1>3, <1>4 DEF Creating

(* A failed creation gives back its port and nobody else's.                 *)
LEMMA GiveUpKeeps ==
    ASSUME Inv, NEW t \in Creating, NEW stops \in SUBSET Call, GiveUp(t, stops),
           auto' = auto, drawn' = drawn, sess' = sess, ggpo' = ggpo, faults' = faults
    PROVE  Inv'
<1>1. /\ task' = [task EXCEPT ![t] = Idle] /\ reserved' = reserved \ {task[t].port}
      /\ rooms' = rooms /\ calls' = calls \cup stops
  BY DEF GiveUp
<1>2. /\ Creating' = Creating \ {t}
      /\ \A u \in Creating \ {t} : /\ task'[u].port = task[u].port
                                   /\ task[u].port # task[t].port
  BY <1>1, CreationEnds
<1>3. TypeOK'
  BY <1>1, CreationEnds DEF Inv, TypeOK
<1>4. PortsExclusive'
  BY <1>1, <1>2 DEF Inv, Holdings, PortsExclusive
<1>5. ReservationsHeld'
  BY <1>1, <1>2 DEF Inv, Holdings, ReservationsHeld
<1>6. Coded'
  BY <1>1, CreationEnds DEF Inv, Holdings, Coded
<1> QED BY <1>3, <1>4, <1>5, <1>6 DEF Inv, Holdings

(* A finished creation hands its port over to the room it enters.           *)
LEMMA CommitKeeps ==
    ASSUME Inv, NEW t \in Creating, NEW withGgpo \in BOOLEAN, Commit(t, withGgpo),
           auto' = auto, drawn' = drawn, sess' = sess, ggpo' = ggpo, faults' = faults
    PROVE  Inv'
<1> DEFINE k == task[t]
           r == NewRoom(k, withGgpo)
<1>1. /\ task' = [task EXCEPT ![t] = Idle] /\ reserved' = reserved \ {k.port}
      /\ rooms' = [c \in DOMAIN rooms \cup {k.code} |-> IF c = k.code THEN r ELSE rooms[c]]
      /\ calls' = calls
  BY DEF Commit
<1>2. k \in Task /\ k.code \in drawn
  BY DEF Creating, Inv, TypeOK, Holdings, Coded, CreatePcs
<1>3. r \in Room /\ r.port = k.port
  BY <1>2 DEF NewRoom, Room, Task
<1>4. /\ DOMAIN rooms' = DOMAIN rooms \cup {k.code}
      /\ rooms'[k.code].port = k.port
      /\ \A c \in DOMAIN rooms \ {k.code} : rooms'[c] = rooms[c] /\ rooms[c].port # k.port
  BY <1>1, <1>3 DEF Inv, Holdings, PortsExclusive
<1> HIDE DEF r
<1>5. /\ Creating' = Creating \ {t}
      /\ \A u \in Creating \ {t} : task'[u].port = task[u].port /\ task[u].port # k.port
  BY <1>1, CreationEnds
<1>6. TypeOK'
  BY <1>1, <1>2, <1>3, <1>4, CreationEnds DEF Inv, TypeOK
<1> HIDE DEF k
<1>7. PortsExclusive'
  <2>1. ASSUME NEW c \in DOMAIN rooms', NEW d \in DOMAIN rooms',
               rooms'[c].port = rooms'[d].port
        PROVE  c = d
    BY <1>4, <2>1 DEF Inv, Holdings, PortsExclusive
  <2>2. ASSUME NEW u \in Creating', NEW c \in DOMAIN rooms'
        PROVE  task'[u].port # rooms'[c].port
    BY <1>4, <1>5, <2>2 DEF Inv, Holdings, PortsExclusive
  <2>3. ASSUME NEW u \in Creating', NEW v \in Creating', task'[u].port = task'[v].port
        PROVE  u = v
    BY <1>5, <2>3 DEF Inv, Holdings, PortsExclusive
  <2> QED BY <2>1, <2>2, <2>3 DEF PortsExclusive
<1>8. ReservationsHeld'
  BY <1>1, <1>5 DEF Inv, Holdings, ReservationsHeld, k
<1>9. Coded'
  BY <1>1, CreationEnds DEF Inv, Holdings, Coded
<1> QED BY <1>6, <1>7, <1>8, <1>9 DEF Inv, Holdings

(* createRoomRecord goes on after the session relay was asked for.          *)
LEMMA SessionStartedKeeps ==
    ASSUME Inv, NEW t \in Tasks, SessionStarted(t)
    PROVE  Inv'
<1>1. t \in Creating
  BY DEF SessionStarted, Creating, CreatePcs
<1>2. auto' = auto /\ drawn' = drawn /\ sess' = sess /\ ggpo' = ggpo /\ faults' = faults
  BY DEF SessionStarted, managerVars
<1>3. CASE GiveUp(t, {})
  BY <1>1, <1>2, <1>3, GiveUpKeeps
<1>4. CASE Commit(t, FALSE)
  BY <1>1, <1>2, <1>4, CommitKeeps
<1>5. CASE /\ task' = [task EXCEPT ![t].pc = "ggpo", ![t].reply = "none"]
           /\ calls' = calls \cup {Request(t, "startGgpo", task[t])}
           /\ rooms' = rooms /\ reserved' = reserved
  <2> DEFINE k == [task[t] EXCEPT !.pc = "ggpo", !.reply = "none"]
  <2>1. /\ task \in [Tasks -> Task] /\ calls \subseteq Call /\ task[t] \in Task
        /\ drawn \subseteq Codes /\ task[t].pc \in CreatePcs /\ task[t].code \in drawn
    BY <1>1 DEF Inv, TypeOK, Holdings, Coded, Creating, CreatePcs
  <2>2. task' = [task EXCEPT ![t] = k]
    BY <1>5, <2>1
  <2>3. /\ k \in Task /\ k.code = task[t].code /\ k.port = task[t].port
        /\ k.pc \in CreatePcs
    BY <2>1 DEF Task, CreatePcs
  <2>4. Request(t, "startGgpo", task[t]) \in Call
    BY <2>1, RequestType DEF Op
  <2> HIDE DEF k
  <2>5. TypeOK'
    BY <1>2, <1>5, <2>1, <2>2, <2>3, <2>4 DEF Inv, TypeOK
  <2>6. \A u \in Tasks : /\ task'[u].pc \in CreatePcs <=> task[u].pc \in CreatePcs
                         /\ task[u].pc \in CreatePcs => task'[u].port = task[u].port
                         /\ task'[u].pc # "idle" => task'[u].code \in drawn'
    BY <1>2, <2>1, <2>2, <2>3 DEF Inv, Holdings, Coded
  <2>7. Holdings'
    BY <1>5, <2>6, HoldingsKept DEF Inv
  <2> QED BY <2>5, <2>7 DEF Inv
<1> QED BY <1>3, <1>4, <1>5 DEF SessionStarted

(* createRoomRecord ends after the UDP relay was asked for.                 *)
LEMMA GgpoStartedKeeps ==
    ASSUME Inv, NEW t \in Tasks, GgpoStarted(t)
    PROVE  Inv'
<1>1. t \in Creating
  BY DEF GgpoStarted, Creating, CreatePcs
<1>2. auto' = auto /\ drawn' = drawn /\ sess' = sess /\ ggpo' = ggpo /\ faults' = faults
  BY DEF GgpoStarted, managerVars
<1> DEFINE stops == StopCalls(task[t].code, task[t].port, TRUE)
           withGgpo == task[t].reply = "ok"
<1>3. stops \in SUBSET Call
  <2>1. task[t] \in Task /\ task[t].code \in Codes
    BY <1>1 DEF Inv, TypeOK, Holdings, Coded, Creating, CreatePcs
  <2> QED BY <2>1, StopCallsType DEF Task
<1>4. withGgpo \in BOOLEAN
  OBVIOUS
<1>5. GiveUp(t, stops) \/ Commit(t, withGgpo)
  BY DEF GgpoStarted
<1> HIDE DEF stops, withGgpo
<1>6. CASE GiveUp(t, stops)
  BY <1>1, <1>2, <1>3, <1>6, GiveUpKeeps
<1>7. CASE Commit(t, withGgpo)
  BY <1>1, <1>2, <1>4, <1>7, CommitKeeps
<1> QED BY <1>5, <1>6, <1>7

-----------------------------------------------------------------------------
(* Every step keeps the invariant: one case per group of actions.           *)
LEMMA StepKeeps ==
    ASSUME Inv, [Next]_vars
    PROVE  Inv'
<1>1. CASE Prune
  BY <1>1, RoomsKeep
<1>2. ASSUME NEW t \in Tasks, Handler(t)
      PROVE  Inv'
  BY <1>2, SessionStartedKeeps, GgpoStartedKeeps, EnsureStepKeeps DEF Handler
<1>3. ASSUME NEW t \in Tasks, NEW c \in Codes, CreateRoom(t, c)
      PROVE  Inv'
  BY <1>3, CreateKeeps
<1>4. ASSUME NEW t \in Checkers, NEW c \in Codes,
             Heartbeat(t, c) \/ ConnectPlan(t, c) \/ RoomHealth(t, c)
      PROVE  Inv'
  <2>1. t \in Tasks
    BY BrokerAssumption
  <2> QED BY <1>4, <2>1, EnsureHeadKeeps
<1>5. ASSUME NEW c \in Codes,
             \/ LookUp(c) \/ HostDelete(c) \/ GoIdle(c)
             \/ \E occupies \in BOOLEAN : RoomUpdate(c, occupies)
      PROVE  Inv'
  BY <1>5, RoomsKeep
<1>6. ASSUME NEW c \in calls, ManagerStep(c) \/ CallRejected(c) \/ StartFails(c)
      PROVE  Inv'
  BY <1>6, ManagerKeeps
<1>7. ASSUME NEW p \in Ports, RelayExits(p)
      PROVE  Inv'
  <2>1. /\ auto' = auto /\ rooms' = rooms /\ drawn' = drawn /\ reserved' = reserved
        /\ task' = task /\ calls' = calls
    BY <1>7 DEF RelayExits, brokerVars
  <2>2. TypeOK'
    BY <1>7, <2>1, BrokerAssumption DEF RelayExits, Inv, TypeOK
  <2>3. Holdings'
    BY <2>1, HoldingsKept DEF Inv, Holdings, Coded
  <2> QED BY <2>2, <2>3 DEF Inv
<1>8. CASE UNCHANGED vars
  <2>1. TypeOK'
    BY <1>8 DEF vars, Inv, TypeOK
  <2>2. Holdings'
    BY <1>8, HoldingsKept DEF vars, Inv, Holdings, Coded
  <2> QED BY <2>1, <2>2 DEF Inv
<1> QED BY <1>1, <1>2, <1>3, <1>4, <1>5, <1>6, <1>7, <1>8 DEF Next

(* The broker starts with no rooms, handlers or reservations.               *)
LEMMA InitInv == Init => Inv
<1> SUFFICES ASSUME Init PROVE Inv
  OBVIOUS
<1>1. Idle \in Task /\ Idle.pc = "idle"
  BY BrokerAssumption DEF Idle, Task, Ports
<1>2. TypeOK
  BY <1>1, BrokerAssumption DEF Init, TypeOK
<1>3. Creating = {} /\ \A t \in Tasks : task[t].pc = "idle"
  BY <1>1 DEF Init, Creating, CreatePcs
<1>4. Holdings
  BY <1>3 DEF Init, Holdings, PortsExclusive, ReservationsHeld, Coded
<1> QED BY <1>2, <1>4 DEF Inv

(* The broker's and the manager's tables keep their types, for any number   *)
(* of rooms, handlers, rejected calls and relay exits.                      *)
THEOREM BrokerTypeCorrect == Spec => []TypeOK
<1>1. Inv => TypeOK
  BY DEF Inv
<1> QED BY InitInv, StepKeeps, <1>1, PTL DEF Spec

(* No two rooms or creations under way ever have one port pair: neither     *)
(* handlers that await the manager at the same time (allocatePortPair with  *)
(* reservedPorts) nor any failure of the manager can make two share it.     *)
THEOREM PortsAreExclusive == Spec => []PortsExclusive
<1>1. Inv => PortsExclusive
  BY DEF Inv, Holdings
<1> QED BY InitInv, StepKeeps, <1>1, PTL DEF Spec

(* Every way out of createRoomRecord gives its port back, and no handler    *)
(* gives back another one's: reservedPorts is what the creations hold.      *)
THEOREM ReservationsAreHeld == Spec => []ReservationsHeld
<1>1. Inv => ReservationsHeld
  BY DEF Inv, Holdings
<1> QED BY InitInv, StepKeeps, <1>1, PTL DEF Spec

-----------------------------------------------------------------------------
(* No request and no timer but the host's own DELETE ends a room that is    *)
(* occupied: every sweep keeps it (shouldPruneRoom), and no handler that    *)
(* resumes after an await takes it from the table.                          *)
THEOREM OccupiedRoomsStay == Spec => OccupiedStays
<1> DEFINE Lost(c) == rooms[c].occupied /\ c \notin DOMAIN rooms'
<1>1. ASSUME TypeOK, [Next]_vars, NEW c \in DOMAIN rooms, Lost(c)
      PROVE  HostDelete(c)
  <2>1. c \in Kept
    BY <1>1 DEF Kept, ShouldPrune
  <2>2. DOMAIN Swept = Kept
    BY DEF Swept
  <2>3. DOMAIN rooms' # DOMAIN rooms /\ DOMAIN rooms' # Kept
    BY <1>1, <2>1
  <2>4. ~Prune
    BY <2>2, <2>3 DEF Prune
  <2>5. ASSUME NEW t \in Tasks, Handler(t)
        PROVE  FALSE
    <3>1. ~Commit(t, FALSE) /\ ~Commit(t, task[t].reply = "ok")
      BY <1>1, Zenon DEF Commit
    <3> QED BY <2>3, <2>5, <3>1
            DEF Handler, SessionStarted, GgpoStarted, EnsureStep, GiveUp
  <2>6. ASSUME NEW t \in Tasks, NEW d \in Codes, CreateRoom(t, d)
        PROVE  FALSE
    BY <2>3, <2>6 DEF CreateRoom
  <2>7. ASSUME NEW t \in Checkers, NEW d \in Codes,
               Heartbeat(t, d) \/ ConnectPlan(t, d) \/ RoomHealth(t, d)
        PROVE  FALSE
    BY <2>2, <2>3, <2>7 DEF Heartbeat, ConnectPlan, RoomHealth, EnsureRelay
  <2>8. ASSUME NEW d \in Codes, HostDelete(d)
        PROVE  d = c
    BY <1>1, <2>8 DEF HostDelete
  <2>9. ASSUME NEW d \in Codes,
               \/ LookUp(d) \/ GoIdle(d)
               \/ \E occupies \in BOOLEAN : RoomUpdate(d, occupies)
        PROVE  FALSE
    BY <2>2, <2>3, <2>9 DEF LookUp, GoIdle, RoomUpdate
  <2>10. ASSUME NEW d \in calls, ManagerStep(d) \/ CallRejected(d) \/ StartFails(d)
         PROVE  FALSE
    BY <2>3, <2>10 DEF ManagerStep, CallRejected, StartFails
  <2>11. ASSUME NEW p \in Ports, RelayExits(p)
         PROVE  FALSE
    BY <2>3, <2>11 DEF RelayExits, brokerVars
  <2>12. ~UNCHANGED vars
    BY <2>3 DEF vars
  <2> QED BY <1>1, <2>4, <2>5, <2>6, <2>7, <2>8, <2>9, <2>10, <2>11, <2>12 DEF Next
<1>2. TypeOK /\ [Next]_vars => [\A c \in DOMAIN rooms : Lost(c) => HostDelete(c)]_vars
  BY <1>1
<1> QED BY <1>2, BrokerTypeCorrect, PTL DEF Spec, OccupiedStays
=============================================================================
