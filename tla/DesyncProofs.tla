---------------------------- MODULE DesyncProofs ----------------------------
(***************************************************************************)
(* Proofs about Desync, for any capture intervals, any ages above twice    *)
(* the prediction window, matches of any length and any number of them:    *)
(* neither a snapshot nor a hash accuses players that agree, and with no   *)
(* spectator in the room a divergence ends the match.                      *)
(*                                                                         *)
(* Why an aged capture can be trusted: its sender is more than two windows *)
(* past the frame, so it has heard a frame more than one window past it,   *)
(* so the receiver has simulated that one, so the receiver has heard the   *)
(* captured frame itself: neither side captures it again.                  *)
(*                                                                         *)
(* The invariant relates a player m, in state p, to its peer, in state q;  *)
(* in is what m has still to receive, and d the divergence.                *)
(***************************************************************************)
EXTENDS Desync, FiniteSetTheorems, SequenceTheorems, WellFoundedInduction, TLAPS

(* Machine o has gone its own way at frame f of match k.                    *)
Apart(d, o, k, f) == d # None /\ d.who = o /\ d.match = k /\ f >= d.from

(* What o captures there once all inputs are known.                         *)
Truth(d, o, k, f) == <<k, IF Apart(d, o, k, f) THEN o ELSE "right">>

(* What it captures there now.                                              *)
Now(d, m, p, f) ==
    <<p.match, IF Apart(d, m, p.match, f) THEN m
               ELSE IF p.wrong # None /\ f >= p.wrong THEN "wrong" ELSE "right">>

(* The simulation of a player has diverged, in match k.                     *)
Split(d) == d # None /\ d.who \in Players
SplitIn(d, k) == Split(d) /\ d.match = k

(* Frame f is captured, and has not been sent.                              *)
Unsent(p, f) == f \in DOMAIN p.snapshots /\ ~p.snapshots[f].sent

(* It waits for the peer's.                                                 *)
Waits(p, f) == f \in DOMAIN p.snapshots /\ ~p.snapshots[f].confirmed

(* The frames of p that are captured for snapshots.                         *)
Taken(p) == {f \in 1 .. p.frame : f % SnapshotInterval = 0}

(* What p holds of its own.                                                 *)
Held(d, m, p) ==
    /\ p.fighting => p.frame <= p.heard + Prediction
    /\ p.wrong # None => p.wrong > p.heard
    /\ ~p.fighting => DOMAIN p.snapshots = {} /\ DOMAIN p.checkpoints = {} /\ ~p.leaving
    /\ \A f \in DOMAIN p.snapshots :
            f \in Taken(p) /\ p.snapshots[f].value = Now(d, m, p, f)
    /\ \A f \in DOMAIN p.checkpoints :
            /\ f \in 1 .. p.frame /\ f % HashInterval = 0
            /\ p.checkpoints[f].value = Now(d, m, p, f)

(* No capture is sent before it is old enough.                              *)
Aged(p) == p.fighting => \A f \in Taken(p) : Unsent(p, f) \/ p.frame >= f + SnapshotAge

(* One that is older than that has been sent.                               *)
Overdue(p) == p.fighting => \A f \in Taken(p) : p.frame > f + SnapshotAge => ~Unsent(p, f)

(* Frame f, of which the peer's capture has been sent to m.                 *)
Passed(p, q, f) ==
    /\ f \in Nat /\ f + Prediction < p.frame
    /\ q.match >= p.match
    /\ q.match = p.match => f <= q.frame

(* Such a capture, which can be trusted.                                    *)
Kept(d, o, p, q, f, value) == Passed(p, q, f) /\ value = Truth(d, o, p.match, f)

(* Messages that only the peer sends.                                       *)
FromPeer(msg) == msg.type = "hash" \/ (Watchers = {} /\ msg.type = "snapshot")

(* m has heard no more than its peer o has simulated.                       *)
Hears(p, q) ==
    p.fighting => IF q.match = p.match THEN p.heard <= q.frame ELSE p.heard = 0

(* What m has been sent by o.                                               *)
Towards(d, o, p, q, in) ==
    /\ Hears(p, q)
    /\ \A f \in DOMAIN p.hashes : Kept(d, o, p, q, f, p.hashes[f])
    /\ Watchers = {} => \A f \in DOMAIN p.pending : Kept(d, o, p, q, f, p.pending[f])
    /\ \A i \in DOMAIN in : FromPeer(in[i]) => Kept(d, o, p, q, in[i].frame, in[i].value)
    /\ \A i, j \in DOMAIN in : in[i].type = "allready" /\ FromPeer(in[j]) => j < i

(* m has entered match k, the last that was announced, or will when it is   *)
(* handed the announcement.                                                 *)
Turn(k, p, in) ==
    /\ \A i \in DOMAIN in : in[i].type = "allready" =>
            in[i].match = k /\ p.match = k - 1 /\ ~p.fighting
    /\ \A i, j \in DOMAIN in : in[i].type = "allready" /\ in[j].type = "allready" => i = j
    /\ (\A i \in DOMAIN in : in[i].type # "allready") => p.match = k

(* What m no longer waits for was compared.                                 *)
Compared(d, m, o, p, q) ==
    p.fighting => \A f \in Taken(p) : ~Waits(p, f) =>
        /\ Passed(p, q, f)
        /\ Truth(d, m, p.match, f) # Truth(d, o, p.match, f) => p.leaving

(* What o has sent and m still waits for is on its way.                     *)
OnItsWay(p, q, in) ==
    p.fighting /\ q.fighting /\ q.match = p.match => \A f \in Taken(q) :
        \/ Unsent(q, f) \/ ~Waits(p, f)
        \/ \E i \in DOMAIN in : in[i].type = "snapshot" /\ in[i].frame = f

(* What p concludes is right.                                               *)
Verdict(d, p) ==
    /\ Watchers = {} => (p.leaving => SplitIn(d, p.match))
    /\ p.reported => Split(d)

(* All of it, for m and its peer o.                                         *)
Side(d, k, m, o, p, q, in) ==
    /\ Held(d, m, p) /\ Aged(p)
    /\ Towards(d, o, p, q, in)
    /\ Turn(k, p, in)
    /\ Watchers = {} => Compared(d, m, o, p, q)
    /\ Watchers = {} => OnItsWay(p, q, in)
    /\ Verdict(d, p)

DInv ==
    /\ TypeOK
    /\ \A m \in Players :
          /\ Side(diverged, matches, m, Peer(m), machine[m], machine[Peer(m)], inbox[m])
          /\ Overdue(machine[m])

----------------------------------------------------------------------------
(* The players and the types.                                               *)

(* There are two players, each the peer of the other.                       *)
LEMMA TwoPlayers ==
    ASSUME NEW m \in Players
    PROVE  /\ Peer(m) \in Players /\ Peer(m) # m /\ Peer(Peer(m)) = m
           /\ \A o \in Players : o = m \/ o = Peer(m)
           /\ m \in Machines /\ Peer(m) \in Machines
<1>1. PICK a \in Players, b \in Players : a # b /\ Players = {a, b}
  <2>1. IsFiniteSet(Players) /\ Cardinality(Players) = 2
    BY DesyncAssumption
  <2>2. PICK a : a \in Players
    BY <2>1, FS_EmptySet
  <2>3. IsFiniteSet(Players \ {a}) /\ Cardinality(Players \ {a}) = 1
    BY <2>1, <2>2, FS_RemoveElement
  <2>4. PICK b : Players \ {a} = {b}
    BY <2>3, FS_Singleton
  <2> QED BY <2>2, <2>4
<1>2. \A x \in Players : Peer(x) \in Players /\ Peer(x) # x
  <2> SUFFICES ASSUME NEW x \in Players
               PROVE  Peer(x) \in Players /\ Peer(x) # x
    OBVIOUS
  <2>1. \E y \in Players : y # x
    BY <1>1
  <2> QED BY <2>1 DEF Peer
<1>3. Peer(Peer(m)) = m
  BY <1>1, <1>2
<1> QED BY <1>1, <1>2, <1>3 DEF Machines

(* The truth of two players differs where one of them has gone its own way. *)
LEMMA TruthsDiffer ==
    ASSUME NEW d, NEW m \in Players, NEW k, NEW f
    PROVE  /\ Truth(d, m, k, f) # Truth(d, Peer(m), k, f) => SplitIn(d, k)
           /\ SplitIn(d, k) /\ f >= d.from => Truth(d, m, k, f) # Truth(d, Peer(m), k, f)
<1>1. "right" \notin Players
  BY DesyncAssumption
<1>2. Peer(m) \in Players /\ Peer(m) # m /\ \A o \in Players : o = m \/ o = Peer(m)
  BY TwoPlayers
<1>3. Truth(d, m, k, f) # Truth(d, Peer(m), k, f) => SplitIn(d, k)
  BY <1>2 DEF Truth, Apart, SplitIn, Split
<1>4. ASSUME SplitIn(d, k), f >= d.from
      PROVE  Truth(d, m, k, f) # Truth(d, Peer(m), k, f)
  <2>1. CASE d.who = m
    BY <1>1, <1>2, <1>4, <2>1 DEF Truth, Apart, SplitIn, Split
  <2>2. CASE d.who = Peer(m)
    BY <1>1, <1>2, <1>4, <2>2 DEF Truth, Apart, SplitIn, Split
  <2> QED BY <1>2, <1>4, <2>1, <2>2 DEF SplitIn, Split
<1> QED BY <1>3, <1>4

(* The value the model captures.                                            *)
LEMMA ValueIsNow ==
    ASSUME NEW m, NEW p, NEW f
    PROVE  Value(m, p, f) = Now(diverged, m, p, f)
BY DEF Value, Now, Apart

(* What is captured is a capture.                                           *)
LEMMA NowIsCapture ==
    ASSUME NEW d, NEW m \in Machines, NEW p, p.match \in Nat, NEW f
    PROVE  Now(d, m, p, f) \in Capture
BY DEF Now, Capture

(* A map is a function on some frames.                                      *)
LEMMA MapIs ==
    ASSUME NEW map, NEW S
    PROVE  IsMap(map, S) <=> /\ map = [f \in DOMAIN map |-> map[f]]
                             /\ DOMAIN map \subseteq Frame
                             /\ \A f \in DOMAIN map : map[f] \in S
BY DEF IsMap

LEMMA EmptyMap == ASSUME NEW S PROVE IsMap(Empty, S) /\ DOMAIN Empty = {}
BY DEF IsMap, Empty

LEMMA PutIs ==
    ASSUME NEW map, NEW f, NEW value
    PROVE  /\ \A g : g \in DOMAIN Put(map, f, value) <=> g \in DOMAIN map \/ g = f
           /\ Put(map, f, value)[f] = value
           /\ \A g \in DOMAIN map : g # f => Put(map, f, value)[g] = map[g]
BY DEF Put

LEMMA PutMap ==
    ASSUME NEW map, NEW S, IsMap(map, S), NEW f \in Frame, NEW value \in S
    PROVE  IsMap(Put(map, f, value), S)
<1>1. Put(map, f, value) = [g \in DOMAIN Put(map, f, value) |-> Put(map, f, value)[g]]
  BY DEF Put
<1>2. \A g \in DOMAIN map : map[g] \in S /\ g \in Frame
  BY DEF IsMap
<1>3. /\ DOMAIN Put(map, f, value) \subseteq Frame
      /\ \A g \in DOMAIN Put(map, f, value) : Put(map, f, value)[g] \in S
  BY <1>2, PutIs
<1> QED BY <1>1, <1>3 DEF IsMap

LEMMA DropIs ==
    ASSUME NEW map, NEW keys
    PROVE  /\ \A g : g \in DOMAIN Drop(map, keys) <=> g \in DOMAIN map /\ g \notin keys
           /\ \A g \in DOMAIN Drop(map, keys) : Drop(map, keys)[g] = map[g]
BY DEF Drop

LEMMA DropMap ==
    ASSUME NEW map, NEW S, IsMap(map, S), NEW keys
    PROVE  IsMap(Drop(map, keys), S)
<1>1. Drop(map, keys) = [g \in DOMAIN Drop(map, keys) |-> Drop(map, keys)[g]]
  BY DEF Drop
<1>2. \A g \in DOMAIN map : map[g] \in S /\ g \in Frame
  BY DEF IsMap
<1>3. /\ DOMAIN Drop(map, keys) \subseteq Frame
      /\ \A g \in DOMAIN Drop(map, keys) : Drop(map, keys)[g] \in S
  BY <1>2, DropIs
<1> QED BY <1>1, <1>3 DEF IsMap

----------------------------------------------------------------------------
(* The captures.                                                            *)

(* What no capture changes.                                                 *)
SameBut(p, r) ==
    /\ r.match = p.match /\ r.fighting = p.fighting /\ r.frame = p.frame
    /\ r.heard = p.heard /\ r.wrong = p.wrong
    /\ r.pending = p.pending /\ r.hashes = p.hashes
    /\ r.leaving = p.leaving /\ r.reported = p.reported

WithSnapshots(p, map) == [p EXCEPT !.snapshots = map]
WithCheckpoints(p, map) == [p EXCEPT !.checkpoints = map]

Snapshot == [value : Capture, sent : BOOLEAN, confirmed : BOOLEAN]
Checkpoint == [value : Capture, sent : BOOLEAN]

LEMMA WithSnapshotsIs ==
    ASSUME NEW p, IsMachine(p), NEW map, IsMap(map, Snapshot)
    PROVE  /\ IsMachine(WithSnapshots(p, map)) /\ SameBut(p, WithSnapshots(p, map))
           /\ WithSnapshots(p, map).snapshots = map
           /\ WithSnapshots(p, map).checkpoints = p.checkpoints
<1> DEFINE r == WithSnapshots(p, map)
<1>1. /\ r = [match |-> p.match, fighting |-> p.fighting, frame |-> p.frame,
              heard |-> p.heard, wrong |-> p.wrong, snapshots |-> map,
              pending |-> p.pending, checkpoints |-> p.checkpoints,
              hashes |-> p.hashes, leaving |-> p.leaving, reported |-> p.reported]
  <2> DEFINE Shape == p = [match |-> p.match, fighting |-> p.fighting, frame |-> p.frame,
            heard |-> p.heard, wrong |-> p.wrong, snapshots |-> p.snapshots,
            pending |-> p.pending, checkpoints |-> p.checkpoints,
            hashes |-> p.hashes, leaving |-> p.leaving, reported |-> p.reported]
  <2>1. Shape
    BY DEF IsMachine
  <2> QED BY <2>1 DEF WithSnapshots
<1>2. SameBut(p, r) /\ r.snapshots = map /\ r.checkpoints = p.checkpoints
  BY <1>1 DEF SameBut
<1> HIDE DEF r
<1>3. IsMachine(r)
  BY <1>1, <1>2 DEF IsMachine, SameBut, Snapshot
<1> QED BY <1>2, <1>3 DEF r

LEMMA WithCheckpointsIs ==
    ASSUME NEW p, IsMachine(p), NEW map, IsMap(map, Checkpoint)
    PROVE  /\ IsMachine(WithCheckpoints(p, map)) /\ SameBut(p, WithCheckpoints(p, map))
           /\ WithCheckpoints(p, map).checkpoints = map
           /\ WithCheckpoints(p, map).snapshots = p.snapshots
<1> DEFINE r == WithCheckpoints(p, map)
<1>1. /\ r = [match |-> p.match, fighting |-> p.fighting, frame |-> p.frame,
              heard |-> p.heard, wrong |-> p.wrong, snapshots |-> p.snapshots,
              pending |-> p.pending, checkpoints |-> map,
              hashes |-> p.hashes, leaving |-> p.leaving, reported |-> p.reported]
  <2> DEFINE Shape == p = [match |-> p.match, fighting |-> p.fighting, frame |-> p.frame,
            heard |-> p.heard, wrong |-> p.wrong, snapshots |-> p.snapshots,
            pending |-> p.pending, checkpoints |-> p.checkpoints,
            hashes |-> p.hashes, leaving |-> p.leaving, reported |-> p.reported]
  <2>1. Shape
    BY DEF IsMachine
  <2> QED BY <2>1 DEF WithCheckpoints
<1>2. SameBut(p, r) /\ r.checkpoints = map /\ r.snapshots = p.snapshots
  BY <1>1 DEF SameBut
<1> HIDE DEF r
<1>3. IsMachine(r)
  BY <1>1, <1>2 DEF IsMachine, SameBut, Checkpoint
<1> QED BY <1>2, <1>3 DEF r

Fresh(value) == [value |-> value, sent |-> FALSE, confirmed |-> FALSE]

(* What capturing frame f does to the snapshots.                            *)
LEMMA CaptureSnapshotIs ==
    ASSUME NEW p, IsMachine(p), NEW f \in Frame, NEW value \in Capture
    PROVE  /\ IsMachine(CaptureSnapshot(p, f, value))
           /\ SameBut(p, CaptureSnapshot(p, f, value))
           /\ CaptureSnapshot(p, f, value).checkpoints = p.checkpoints
           /\ CaptureSnapshot(p, f, value).snapshots =
                 IF f % SnapshotInterval = 0 THEN Put(p.snapshots, f, Fresh(value))
                 ELSE p.snapshots
<1>1. CASE f % SnapshotInterval # 0
  BY <1>1 DEF CaptureSnapshot, SameBut
<1>2. CASE f % SnapshotInterval = 0
  <2>1. CaptureSnapshot(p, f, value) = WithSnapshots(p, Put(p.snapshots, f, Fresh(value)))
    BY <1>2 DEF CaptureSnapshot, WithSnapshots, Fresh
  <2>2. IsMap(p.snapshots, Snapshot) /\ Fresh(value) \in Snapshot
    BY DEF IsMachine, Snapshot, Fresh
  <2>3. IsMap(Put(p.snapshots, f, Fresh(value)), Snapshot)
    BY <2>2, PutMap
  <2> QED BY <1>2, <2>1, <2>3, WithSnapshotsIs
<1> QED BY <1>1, <1>2

(* And to the hash checkpoints: those of other frames that stay are the     *)
(* same.                                                                    *)
LEMMA CaptureHashIs ==
    ASSUME NEW p, IsMachine(p), NEW f \in Frame, NEW value \in Capture
    PROVE  /\ IsMachine(CaptureHashCheckpoint(p, f, value))
           /\ SameBut(p, CaptureHashCheckpoint(p, f, value))
           /\ CaptureHashCheckpoint(p, f, value).snapshots = p.snapshots
           /\ f % HashInterval = 0
                => /\ f \in DOMAIN CaptureHashCheckpoint(p, f, value).checkpoints
                   /\ CaptureHashCheckpoint(p, f, value).checkpoints[f].value = value
           /\ \A g \in DOMAIN CaptureHashCheckpoint(p, f, value).checkpoints :
                 \/ g = f /\ f % HashInterval = 0
                 \/ /\ g \in DOMAIN p.checkpoints
                    /\ g = f => f % HashInterval # 0
                    /\ CaptureHashCheckpoint(p, f, value).checkpoints[g] = p.checkpoints[g]
<1>1. CASE f % HashInterval # 0
  BY <1>1 DEF CaptureHashCheckpoint, SameBut
<1>2. CASE f % HashInterval = 0
  <2> DEFINE sent == f \in DOMAIN p.checkpoints /\ p.checkpoints[f].sent
             left == Drop(p.checkpoints, SameSlot(f))
             new == [value |-> value, sent |-> sent]
             map == Put(left, f, new)
  <2>1. CaptureHashCheckpoint(p, f, value) = WithCheckpoints(p, map)
    BY <1>2 DEF CaptureHashCheckpoint, WithCheckpoints
  <2>2. IsMap(p.checkpoints, Checkpoint)
    BY DEF IsMachine, Checkpoint
  <2>3. \A g \in DOMAIN p.checkpoints : p.checkpoints[g].sent \in BOOLEAN
    BY <2>2, MapIs DEF Checkpoint
  <2>4. sent \in BOOLEAN
    BY <2>3
  <2>5. new \in Checkpoint /\ new.value = value
    BY <2>4 DEF Checkpoint
  <2> HIDE DEF sent, new
  <2>6. /\ DOMAIN left \subseteq DOMAIN p.checkpoints
        /\ \A g \in DOMAIN left : left[g] = p.checkpoints[g]
    BY DropIs
  <2>6a. IsMap(left, Checkpoint)
    BY <2>2, DropMap
  <2> HIDE DEF left
  <2>7. /\ \A g : g \in DOMAIN map <=> g \in DOMAIN left \/ g = f
        /\ map[f] = new
        /\ \A g \in DOMAIN left : g # f => map[g] = left[g]
    BY PutIs
  <2>7a. IsMap(map, Checkpoint)
    BY <2>5, <2>6a, PutMap
  <2> HIDE DEF map
  <2> QED BY <1>2, <2>1, <2>5, <2>6, <2>7, <2>7a, WithCheckpointsIs
<1> QED BY <1>1, <1>2

(* What p has become when the frames first .. x have been captured.         *)
Retaken(d, m, p, first, x, r) ==
    /\ IsMachine(r) /\ SameBut(p, r)
    /\ \A f \in first .. x : f % SnapshotInterval = 0 =>
          f \in DOMAIN r.snapshots /\ r.snapshots[f] = Fresh(Now(d, m, p, f))
    /\ \A f \in DOMAIN r.snapshots :
          f \in first .. x => f % SnapshotInterval = 0 \/ f \in DOMAIN p.snapshots
    /\ \A f \in Frame : f \notin first .. x =>
          /\ f \in DOMAIN r.snapshots <=> f \in DOMAIN p.snapshots
          /\ f \in DOMAIN p.snapshots => r.snapshots[f] = p.snapshots[f]
    /\ \A f \in DOMAIN r.checkpoints :
          \/ f \in first .. x /\ f % HashInterval = 0
               /\ r.checkpoints[f].value = Now(d, m, p, f)
          \/ f \in DOMAIN p.checkpoints /\ r.checkpoints[f] = p.checkpoints[f]
               /\ (f \in first .. x => f % HashInterval # 0)

(* A nonempty set of naturals has a least element.                          *)
LEMMA LeastIn ==
    ASSUME NEW T \in SUBSET Nat, T # {}
    PROVE  \E x \in T : \A y \in T : x <= y
<1> DEFINE Less == {ss \in Nat \X Nat : ss[1] < ss[2]}
<1>1. IsWellFoundedOn(Less, Nat)
  BY NatLessThanWellFounded, Zenon DEF OpToRel
<1> HIDE DEF Less
<1>2. PICK x \in T : \A y \in T : ~(<<y, x>> \in Less)
  BY <1>1, WFMin
<1>3. ASSUME NEW y \in T
      PROVE  x <= y
  <2>1. y \in Nat /\ x \in Nat
    OBVIOUS
  <2>2. y < x => <<y, x>> \in Nat \X Nat /\ <<y, x>>[1] < <<y, x>>[2]
    BY <2>1
  <2>3. y < x => <<y, x>> \in Less
    BY <2>2 DEF Less
  <2> QED BY <1>2, <2>1, <2>3
<1> QED BY <1>3

(* The machine after each of the frames b + 1 .. x was captured.            *)
Retakes(m, p, b, x, r) ==
    r = [f \in b .. x |-> IF f = b THEN p ELSE Captured(m, r[f - 1], f)]

LEMMA RetakesExist ==
    ASSUME NEW m, NEW p, NEW b \in Nat, NEW l \in Nat, b <= l
    PROVE  \E r : Retakes(m, p, b, l, r)
<1> DEFINE T == {x \in Nat : b <= x /\ ~ \E r : Retakes(m, p, b, x, r)}
<1>0. SUFFICES ASSUME T # {} PROVE FALSE
  OBVIOUS
<1>1. PICK x \in T : \A y \in T : x <= y
  <2>1. T \in SUBSET Nat
    OBVIOUS
  <2> HIDE DEF T
  <2> QED BY <1>0, <2>1, LeastIn
<1>2. CASE x = b
  <2>1. Retakes(m, p, b, b, [f \in b .. b |-> p])
    BY DEF Retakes
  <2> QED BY <1>2, <2>1
<1>3. CASE x # b
  <2>1. x - 1 \in Nat /\ b <= x - 1 /\ x - 1 \notin T
    BY <1>1, <1>3
  <2>2. PICK s : Retakes(m, p, b, x - 1, s)
    BY <2>1
  <2> DEFINE r == [f \in b .. x |-> IF f = x THEN Captured(m, s[f - 1], f) ELSE s[f]]
  <2>3. ASSUME NEW f \in b .. x
        PROVE  r[f] = IF f = b THEN p ELSE Captured(m, r[f - 1], f)
    <3>1. CASE f = x
      <4>1. f - 1 \in b .. x /\ f - 1 # x /\ f # b
        BY <1>3, <2>1, <3>1
      <4>2. r[f - 1] = s[f - 1] /\ r[f] = Captured(m, s[f - 1], f)
        BY <3>1, <4>1
      <4> HIDE DEF r
      <4> QED BY <4>1, <4>2
    <3>2. CASE f # x
      <4>1. f \in b .. x - 1 /\ (f = b \/ f - 1 \in b .. x - 1)
        BY <2>1, <3>2
      <4>2. r[f] = s[f] /\ (f # b => r[f - 1] = s[f - 1])
        BY <2>1, <3>2, <4>1
      <4>3. s[f] = IF f = b THEN p ELSE Captured(m, s[f - 1], f)
        BY <2>2, <4>1 DEF Retakes
      <4> HIDE DEF r
      <4> QED BY <4>2, <4>3
    <3> QED BY <3>1, <3>2
  <2>4. r = [f \in b .. x |-> r[f]]
    OBVIOUS
  <2> HIDE DEF r
  <2>5. r = [f \in b .. x |-> IF f = b THEN p ELSE Captured(m, r[f - 1], f)]
    BY <2>3, <2>4
  <2> QED BY <2>5 DEF Retakes
<1> QED BY <1>2, <1>3

LEMMA SimulatedRetakes ==
    ASSUME NEW m, NEW p, p.frame \in Nat, NEW first \in 1 .. p.frame + 1
    PROVE  \E r : Retakes(m, p, first - 1, p.frame, r) /\ Simulated(m, p, first) = r[p.frame]
<1> DEFINE r == CHOOSE r : Retakes(m, p, first - 1, p.frame, r)
<1>1. first - 1 \in Nat /\ first - 1 <= p.frame
  OBVIOUS
<1>2. Retakes(m, p, first - 1, p.frame, r)
  BY <1>1, RetakesExist
<1>3. Simulated(m, p, first) = r[p.frame]
  BY DEF Simulated, Retakes
<1> QED BY <1>2, <1>3

(* Capturing the next frame.                                                *)
LEMMA CapturedIs ==
    ASSUME NEW m \in Machines, NEW p, IsMachine(p),
           NEW first \in Frame, NEW x \in first .. p.frame,
           NEW s, Retaken(diverged, m, p, first, x - 1, s)
    PROVE  Retaken(diverged, m, p, first, x, Captured(m, s, x))
<1> DEFINE v == Now(diverged, m, p, x)
           t == CaptureSnapshot(s, x, v)
           r == CaptureHashCheckpoint(t, x, v)
<1>1. IsMachine(s) /\ SameBut(p, s) /\ x \in Frame /\ first \in Nat /\ x \in Nat
  BY DesyncAssumption DEF Retaken, IsMachine, Frame
<1>2. v \in Capture
  BY NowIsCapture DEF IsMachine
<1>3. Captured(m, s, x) = r
  <2>1. Value(m, s, x) = v
    BY <1>1, ValueIsNow DEF Now, SameBut
  <2> QED BY <2>1 DEF Captured
<1> HIDE DEF v
<1>4. /\ IsMachine(t) /\ SameBut(s, t) /\ t.checkpoints = s.checkpoints
      /\ t.snapshots = IF x % SnapshotInterval = 0 THEN Put(s.snapshots, x, Fresh(v))
                       ELSE s.snapshots
  BY <1>1, <1>2, CaptureSnapshotIs
<1> HIDE DEF t
<1>5. /\ IsMachine(r) /\ SameBut(t, r) /\ r.snapshots = t.snapshots
      /\ x % HashInterval = 0 => x \in DOMAIN r.checkpoints /\ r.checkpoints[x].value = v
      /\ \A g \in DOMAIN r.checkpoints :
            \/ g = x /\ x % HashInterval = 0
            \/ /\ g \in DOMAIN t.checkpoints
               /\ g = x => x % HashInterval # 0
               /\ r.checkpoints[g] = t.checkpoints[g]
  BY <1>1, <1>2, <1>4, CaptureHashIs
<1> HIDE DEF r
<1>6. IsMachine(r) /\ SameBut(p, r)
  BY <1>1, <1>4, <1>5 DEF SameBut
<1>7. \A f : f \in first .. x <=> f \in first .. x - 1 \/ f = x
  BY <1>1
<1>8. x \notin first .. x - 1
  BY <1>1
<1>9. /\ \A f : f \in DOMAIN r.snapshots <=>
                f \in DOMAIN s.snapshots \/ (f = x /\ x % SnapshotInterval = 0)
      /\ x % SnapshotInterval = 0 => r.snapshots[x] = Fresh(v)
      /\ \A f \in DOMAIN s.snapshots : f # x => r.snapshots[f] = s.snapshots[f]
      /\ x % SnapshotInterval # 0 => r.snapshots = s.snapshots
  <2>1. CASE x % SnapshotInterval = 0
    <3>1. r.snapshots = Put(s.snapshots, x, Fresh(v))
      BY <1>4, <1>5, <2>1
    <3> QED BY <2>1, <3>1, PutIs
  <2>2. CASE x % SnapshotInterval # 0
    BY <1>4, <1>5, <2>2
  <2> QED BY <2>1, <2>2
<1>10. ASSUME NEW f \in first .. x, f % SnapshotInterval = 0
       PROVE  f \in DOMAIN r.snapshots /\ r.snapshots[f] = Fresh(Now(diverged, m, p, f))
  <2>1. CASE f = x
    BY <1>9, <1>10, <2>1 DEF v
  <2>2. CASE f # x
    <3>1. f \in first .. x - 1
      BY <1>7, <2>2
    <3>2. f \in DOMAIN s.snapshots /\ s.snapshots[f] = Fresh(Now(diverged, m, p, f))
      BY <1>10, <3>1 DEF Retaken
    <3> QED BY <1>9, <2>2, <3>2
  <2> QED BY <2>1, <2>2
<1>11. \A f \in DOMAIN r.snapshots :
          f \in first .. x => f % SnapshotInterval = 0 \/ f \in DOMAIN p.snapshots
  <2> SUFFICES ASSUME NEW f \in DOMAIN r.snapshots, f \in first .. x,
                      f % SnapshotInterval # 0
               PROVE  f \in DOMAIN p.snapshots
    OBVIOUS
  <2>1. CASE f = x
    <3>1. f \in DOMAIN s.snapshots
      BY <1>9, <2>1
    <3> QED BY <1>1, <1>8, <2>1, <3>1 DEF Retaken
  <2>2. CASE f # x
    <3>1. f \in DOMAIN s.snapshots /\ f \in first .. x - 1
      BY <1>7, <1>9, <2>2
    <3> QED BY <3>1 DEF Retaken
  <2> QED BY <2>1, <2>2
<1>12. ASSUME NEW f \in Frame, f \notin first .. x
       PROVE  /\ f \in DOMAIN r.snapshots <=> f \in DOMAIN p.snapshots
              /\ f \in DOMAIN p.snapshots => r.snapshots[f] = p.snapshots[f]
  <2>1. f # x /\ f \notin first .. x - 1
    BY <1>7, <1>12
  <2>2. /\ f \in DOMAIN s.snapshots <=> f \in DOMAIN p.snapshots
        /\ f \in DOMAIN p.snapshots => s.snapshots[f] = p.snapshots[f]
    BY <2>1 DEF Retaken
  <2> QED BY <1>9, <2>1, <2>2
<1>13. ASSUME NEW f \in DOMAIN r.checkpoints
       PROVE  \/ f \in first .. x /\ f % HashInterval = 0
                    /\ r.checkpoints[f].value = Now(diverged, m, p, f)
              \/ f \in DOMAIN p.checkpoints /\ r.checkpoints[f] = p.checkpoints[f]
                    /\ (f \in first .. x => f % HashInterval # 0)
  <2>1. CASE f = x /\ x % HashInterval = 0
    BY <1>5, <1>7, <2>1 DEF v
  <2>2. CASE /\ f \in DOMAIN t.checkpoints
             /\ f = x => x % HashInterval # 0
             /\ r.checkpoints[f] = t.checkpoints[f]
    <3>1. f \in DOMAIN s.checkpoints /\ r.checkpoints[f] = s.checkpoints[f]
      BY <1>4, <2>2
    <3>2. \/ f \in first .. x - 1 /\ f % HashInterval = 0
                 /\ s.checkpoints[f].value = Now(diverged, m, p, f)
          \/ f \in DOMAIN p.checkpoints /\ s.checkpoints[f] = p.checkpoints[f]
                 /\ (f \in first .. x - 1 => f % HashInterval # 0)
      BY <3>1 DEF Retaken
    <3> QED BY <1>7, <2>2, <3>1, <3>2
  <2> QED BY <1>5, <2>1, <2>2
<1>14. Retaken(diverged, m, p, first, x, r)
  BY <1>6, <1>10, <1>11, <1>12, <1>13 DEF Retaken
<1> QED BY <1>3, <1>14

(* Capturing all the frames that were simulated again, and the new one.     *)
LEMMA SimulatedIs ==
    ASSUME NEW m \in Machines, NEW p, IsMachine(p), NEW first \in 1 .. p.frame + 1
    PROVE  Retaken(diverged, m, p, first, p.frame, Simulated(m, p, first))
<1>1. p.frame \in Nat /\ first \in Nat /\ 1 <= first /\ first <= p.frame + 1 /\ p.frame <= MaxFrames
  BY DesyncAssumption DEF IsMachine
<1>2. PICK r : Retakes(m, p, first - 1, p.frame, r) /\ Simulated(m, p, first) = r[p.frame]
  BY <1>1, SimulatedRetakes
<1> DEFINE P(x) == Retaken(diverged, m, p, first, x, r[x])
           T == {x \in Nat : first - 1 <= x /\ x <= p.frame /\ ~P(x)}
<1>3. SUFFICES ASSUME T # {} PROVE FALSE
  BY <1>1, <1>2
<1>4. PICK x \in T : \A y \in T : x <= y
  <2>1. T \in SUBSET Nat
    OBVIOUS
  <2> HIDE DEF T
  <2> QED BY <1>3, <2>1, LeastIn
<1>5. x \in Nat /\ first - 1 <= x /\ x <= p.frame /\ ~P(x)
  BY <1>4
<1>6. CASE x = first - 1
  <2>1. r[x] = p
    BY <1>1, <1>2, <1>5, <1>6 DEF Retakes
  <2>2. \A f : f \notin first .. x
    BY <1>1, <1>6
  <2>3. P(x)
    BY <2>1, <2>2 DEF Retaken, SameBut
  <2> QED BY <1>5, <2>3
<1>7. CASE x # first - 1
  <2>1. /\ x - 1 \in Nat /\ first - 1 <= x - 1 /\ x - 1 <= p.frame /\ ~(x <= x - 1)
        /\ x \in first .. p.frame /\ x \in first - 1 .. p.frame /\ first \in Frame
    BY <1>1, <1>5, <1>7, DesyncAssumption DEF Frame
  <2>2. P(x - 1)
    BY <1>4, <2>1
  <2>3. r[x] = Captured(m, r[x - 1], x)
    BY <1>1, <1>2, <1>7, <2>1 DEF Retakes
  <2>4. P(x)
    BY <2>1, <2>2, <2>3, CapturedIs
  <2> QED BY <1>5, <2>4
<1> QED BY <1>6, <1>7

----------------------------------------------------------------------------
(* The frames of a set, one after the other.                                *)

Orders(S, l, r) ==
    r = [f \in 0 .. l |-> IF f = 0 THEN <<>>
                          ELSE IF f \in S THEN Append(r[f - 1], f) ELSE r[f - 1]]

LEMMA OrdersExist ==
    ASSUME NEW S, NEW l \in Nat
    PROVE  \E r : Orders(S, l, r)
<1> DEFINE Longer(before, f) == IF f \in S THEN Append(before, f) ELSE before
           T == {x \in Nat : ~ \E r : Orders(S, x, r)}
<1>0. SUFFICES ASSUME T # {} PROVE FALSE
  OBVIOUS
<1>1. PICK x \in T : \A y \in T : x <= y
  <2>1. T \in SUBSET Nat
    OBVIOUS
  <2> HIDE DEF T
  <2> QED BY <1>0, <2>1, LeastIn
<1>2. CASE x = 0
  <2>1. Orders(S, 0, [f \in 0 .. 0 |-> <<>>])
    BY DEF Orders
  <2> QED BY <1>2, <2>1
<1>3. CASE x # 0
  <2>1. x - 1 \in Nat /\ x - 1 \notin T
    BY <1>1, <1>3
  <2>2. PICK s : Orders(S, x - 1, s)
    BY <2>1
  <2> DEFINE r == [f \in 0 .. x |-> IF f = x THEN Longer(s[f - 1], f) ELSE s[f]]
  <2> HIDE DEF Longer
  <2>3. ASSUME NEW f \in 0 .. x
        PROVE  r[f] = IF f = 0 THEN <<>> ELSE Longer(r[f - 1], f)
    <3>1. CASE f = x
      <4>1. f - 1 \in 0 .. x /\ f - 1 # x /\ f # 0
        BY <1>3, <2>1, <3>1
      <4>2. r[f - 1] = s[f - 1] /\ r[f] = Longer(s[f - 1], f)
        BY <3>1, <4>1
      <4> HIDE DEF r
      <4> QED BY <4>1, <4>2
    <3>2. CASE f # x
      <4>1. f \in 0 .. x - 1 /\ (f = 0 \/ f - 1 \in 0 .. x - 1)
        BY <2>1, <3>2
      <4>2. r[f] = s[f] /\ (f # 0 => r[f - 1] = s[f - 1])
        BY <2>1, <3>2, <4>1
      <4>3. s[f] = IF f = 0 THEN <<>> ELSE Longer(s[f - 1], f)
        BY <2>2, <4>1 DEF Orders, Longer
      <4> HIDE DEF r
      <4> QED BY <4>2, <4>3
    <3> QED BY <3>1, <3>2
  <2>4. r = [f \in 0 .. x |-> r[f]]
    OBVIOUS
  <2> HIDE DEF r
  <2>5. r = [f \in 0 .. x |-> IF f = 0 THEN <<>> ELSE Longer(r[f - 1], f)]
    BY <2>3, <2>4
  <2> QED BY <2>5 DEF Orders, Longer
<1> QED BY <1>2, <1>3

(* InOrder holds each frame of the set, and no other.                       *)
LEMMA InOrderIs ==
    ASSUME NEW S, S \subseteq Frame
    PROVE  /\ InOrder(S) \in Seq(S)
           /\ \A f \in S : \E i \in DOMAIN InOrder(S) : InOrder(S)[i] = f
<1> DEFINE r == CHOOSE r : Orders(S, MaxFrames, r)
<1>1. MaxFrames \in Nat
  BY DesyncAssumption
<1>2. Orders(S, MaxFrames, r)
  BY <1>1, OrdersExist
<1>3. InOrder(S) = r[MaxFrames]
  BY DEF InOrder, Orders
<1> HIDE DEF r
<1> DEFINE P(x) == /\ r[x] \in Seq(S)
                   /\ \A f \in S : f <= x => \E i \in DOMAIN r[x] : r[x][i] = f
           T == {x \in Nat : x <= MaxFrames /\ ~P(x)}
<1>4. ASSUME T # {} PROVE FALSE
  <2>1. PICK x \in T : \A y \in T : x <= y
    <3>1. T \in SUBSET Nat
      OBVIOUS
    <3> HIDE DEF T
    <3> QED BY <1>4, <3>1, LeastIn
  <2>2. x \in Nat /\ x <= MaxFrames /\ ~P(x)
    BY <2>1
  <2>3. CASE x = 0
    <3>1. r[x] = <<>>
      BY <1>1, <1>2, <2>3 DEF Orders
    <3>2. \A f \in S : ~(f <= 0)
      BY DEF Frame
    <3> QED BY <2>2, <2>3, <3>1, <3>2
  <2>4. CASE x # 0
    <3>1. x - 1 \in Nat /\ x - 1 <= MaxFrames /\ ~(x <= x - 1) /\ x \in 0 .. MaxFrames
      BY <1>1, <2>2, <2>4
    <3>2. P(x - 1)
      BY <2>1, <3>1
    <3>3. r[x] = IF x \in S THEN Append(r[x - 1], x) ELSE r[x - 1]
      BY <1>2, <2>4, <3>1 DEF Orders
    <3> DEFINE s == r[x - 1]
    <3>4. s \in Seq(S) /\ \A f \in S : f <= x - 1 => \E i \in DOMAIN s : s[i] = f
      BY <3>2
    <3> HIDE DEF s
    <3>5. CASE x \in S
      <4>1. /\ r[x] \in Seq(S) /\ Len(s) \in Nat
            /\ Len(s) + 1 \in DOMAIN r[x] /\ r[x][Len(s) + 1] = x
            /\ \A i \in DOMAIN s : i \in DOMAIN r[x] /\ r[x][i] = s[i]
        BY <3>3, <3>4, <3>5 DEF s
      <4>2. \A f \in S : f <= x => f = x \/ f <= x - 1
        BY <2>2 DEF Frame
      <4> QED BY <2>2, <3>4, <4>1, <4>2
    <3>6. CASE x \notin S
      <4>1. \A f \in S : f <= x => f <= x - 1
        BY <2>2, <3>6 DEF Frame
      <4> QED BY <2>2, <3>3, <3>4, <3>6, <4>1 DEF s
    <3> QED BY <3>5, <3>6
  <2> QED BY <2>3, <2>4
<1>5. P(MaxFrames)
  BY <1>1, <1>4
<1>6. \A f \in S : f <= MaxFrames
  BY DEF Frame
<1> QED BY <1>3, <1>5, <1>6

----------------------------------------------------------------------------
(* The messages one after the other.                                        *)

Receives(p, messages, l, r) ==
    r = [i \in 0 .. l |-> IF i = 0 THEN p ELSE Handle(r[i - 1], messages[i])]

LEMMA ReceivesExist ==
    ASSUME NEW p, NEW messages, NEW l \in Nat
    PROVE  \E r : Receives(p, messages, l, r)
<1> DEFINE T == {x \in Nat : ~ \E r : Receives(p, messages, x, r)}
<1>0. SUFFICES ASSUME T # {} PROVE FALSE
  OBVIOUS
<1>1. PICK x \in T : \A y \in T : x <= y
  <2>1. T \in SUBSET Nat
    OBVIOUS
  <2> HIDE DEF T
  <2> QED BY <1>0, <2>1, LeastIn
<1>2. CASE x = 0
  <2>1. Receives(p, messages, 0, [i \in 0 .. 0 |-> p])
    BY DEF Receives
  <2> QED BY <1>2, <2>1
<1>3. CASE x # 0
  <2>1. x - 1 \in Nat /\ x - 1 \notin T
    BY <1>1, <1>3
  <2>2. PICK s : Receives(p, messages, x - 1, s)
    BY <2>1
  <2> DEFINE r == [i \in 0 .. x |-> IF i = x THEN Handle(s[i - 1], messages[i]) ELSE s[i]]
  <2>3. ASSUME NEW i \in 0 .. x
        PROVE  r[i] = IF i = 0 THEN p ELSE Handle(r[i - 1], messages[i])
    <3>1. CASE i = x
      <4>1. i - 1 \in 0 .. x /\ i - 1 # x /\ i # 0
        BY <1>3, <2>1, <3>1
      <4>2. r[i - 1] = s[i - 1] /\ r[i] = Handle(s[i - 1], messages[i])
        BY <3>1, <4>1
      <4> HIDE DEF r
      <4> QED BY <4>1, <4>2
    <3>2. CASE i # x
      <4>1. i \in 0 .. x - 1 /\ (i = 0 \/ i - 1 \in 0 .. x - 1)
        BY <2>1, <3>2
      <4>2. r[i] = s[i] /\ (i # 0 => r[i - 1] = s[i - 1])
        BY <2>1, <3>2, <4>1
      <4>3. s[i] = IF i = 0 THEN p ELSE Handle(s[i - 1], messages[i])
        BY <2>2, <4>1 DEF Receives
      <4> HIDE DEF r
      <4> QED BY <4>2, <4>3
    <3> QED BY <3>1, <3>2
  <2>4. r = [i \in 0 .. x |-> r[i]]
    OBVIOUS
  <2> HIDE DEF r
  <2>5. r = [i \in 0 .. x |-> IF i = 0 THEN p ELSE Handle(r[i - 1], messages[i])]
    BY <2>3, <2>4
  <2> QED BY <2>5 DEF Receives
<1> QED BY <1>2, <1>3

LEMMA ReceivedReceives ==
    ASSUME NEW p, NEW messages, NEW n \in Nat
    PROVE  \E r : Receives(p, messages, n, r) /\ Received(p, messages, n) = r[n]
<1> DEFINE r == CHOOSE r : Receives(p, messages, n, r)
<1>1. Receives(p, messages, n, r)
  BY ReceivesExist
<1>2. Received(p, messages, n) = r[n]
  BY DEF Received, Receives
<1> QED BY <1>1, <1>2

----------------------------------------------------------------------------
(* What each handler does.                                                  *)

MachineShape(p) ==
    p = [match |-> p.match, fighting |-> p.fighting, frame |-> p.frame,
         heard |-> p.heard, wrong |-> p.wrong, snapshots |-> p.snapshots,
         pending |-> p.pending, checkpoints |-> p.checkpoints,
         hashes |-> p.hashes, leaving |-> p.leaving, reported |-> p.reported]

NothingKept(p) ==
    /\ DOMAIN p.snapshots = {} /\ DOMAIN p.pending = {}
    /\ DOMAIN p.checkpoints = {} /\ DOMAIN p.hashes = {}

LEMMA StartIs ==
    ASSUME NEW p, IsMachine(p), NEW k, k \in Nat, NEW r, r = StartMatchFromLobby(p, k)
    PROVE  /\ IsMachine(r) /\ NothingKept(r)
           /\ r.match = k /\ r.fighting /\ r.frame = 0 /\ r.heard = 0 /\ r.wrong = None
           /\ ~r.leaving /\ r.reported = p.reported
<1>1. MachineShape(p)
  BY DEF MachineShape, IsMachine
<1>2. r = [match |-> k, fighting |-> TRUE, frame |-> 0, heard |-> 0, wrong |-> None,
           snapshots |-> Empty, pending |-> Empty, checkpoints |-> Empty,
           hashes |-> Empty, leaving |-> FALSE, reported |-> p.reported]
  BY <1>1 DEF StartMatchFromLobby, ClearBattleState, MachineShape
<1>3. /\ r.match = k /\ r.fighting = TRUE /\ r.frame = 0 /\ r.heard = 0 /\ r.wrong = None
      /\ r.leaving = FALSE /\ r.reported = p.reported
      /\ r.snapshots = Empty /\ r.pending = Empty /\ r.checkpoints = Empty /\ r.hashes = Empty
  BY <1>2
<1>4. NothingKept(r)
  BY <1>3, EmptyMap DEF NothingKept
<1>5. 0 \in 0 .. MaxFrames /\ p.reported \in BOOLEAN
  BY DesyncAssumption DEF IsMachine
<1>6. IsMachine(r)
  BY <1>2, <1>3, <1>5, EmptyMap DEF IsMachine
<1> QED BY <1>3, <1>4, <1>6

Closed(p) == [ClearBattleState(p) EXCEPT !.fighting = FALSE, !.leaving = FALSE]

LEMMA CloseIs ==
    ASSUME NEW p, IsMachine(p), NEW r, r = Closed(p)
    PROVE  /\ IsMachine(r) /\ NothingKept(r)
           /\ r.match = p.match /\ ~r.fighting /\ r.frame = p.frame /\ r.heard = p.heard
           /\ r.wrong = p.wrong /\ ~r.leaving /\ r.reported = p.reported
<1>1. MachineShape(p)
  BY DEF MachineShape, IsMachine
<1>2. r = [match |-> p.match, fighting |-> FALSE, frame |-> p.frame, heard |-> p.heard,
           wrong |-> p.wrong, snapshots |-> Empty, pending |-> Empty, checkpoints |-> Empty,
           hashes |-> Empty, leaving |-> FALSE, reported |-> p.reported]
  BY <1>1 DEF Closed, ClearBattleState, MachineShape
<1>3. /\ r.match = p.match /\ r.fighting = FALSE /\ r.frame = p.frame /\ r.heard = p.heard
      /\ r.wrong = p.wrong /\ r.leaving = FALSE /\ r.reported = p.reported
      /\ r.snapshots = Empty /\ r.pending = Empty /\ r.checkpoints = Empty /\ r.hashes = Empty
  BY <1>2
<1>4. NothingKept(r)
  BY <1>3, EmptyMap DEF NothingKept
<1>5. IsMachine(r)
  BY <1>2, <1>3, EmptyMap DEF IsMachine
<1> QED BY <1>3, <1>4, <1>5

(* What neither a snapshot nor a hash that arrives changes.                 *)
SameFight(p, r) ==
    /\ r.match = p.match /\ r.fighting = p.fighting /\ r.frame = p.frame
    /\ r.heard = p.heard /\ r.wrong = p.wrong /\ r.checkpoints = p.checkpoints

LEMMA OnSnapshotIs ==
    ASSUME NEW p, IsMachine(p), NEW f \in Frame, NEW value \in Capture,
           NEW r, r = OnSnapshot(p, f, value)
    PROVE  /\ IsMachine(r) /\ SameFight(p, r)
           /\ r.hashes = p.hashes /\ r.reported = p.reported
           /\ r.leaving <=> p.leaving \/ (f \in DOMAIN p.snapshots
                                            /\ value # p.snapshots[f].value)
           /\ \A g \in DOMAIN r.snapshots : /\ g \in DOMAIN p.snapshots
                                            /\ r.snapshots[g].value = p.snapshots[g].value
           /\ \A g : Unsent(r, g) <=> Unsent(p, g)
           /\ \A g : Waits(r, g) <=> Waits(p, g) /\ g # f
           /\ \A g \in DOMAIN r.pending :
                 \/ g \in DOMAIN p.pending /\ r.pending[g] = p.pending[g]
                 \/ g = f /\ r.pending[g] = value
<1>1. MachineShape(p)
  BY DEF MachineShape, IsMachine
<1>2. IsMap(p.snapshots, Snapshot) /\ IsMap(p.pending, Capture)
  BY DEF IsMachine, Snapshot
<1>3. CASE f \in DOMAIN p.snapshots
  <2> DEFINE left == p.leaving \/ value # p.snapshots[f].value
             new == IF p.snapshots[f].sent THEN Drop(p.snapshots, {f})
                    ELSE [p.snapshots EXCEPT ![f].confirmed = TRUE]
  <2>1. r = [match |-> p.match, fighting |-> p.fighting, frame |-> p.frame,
             heard |-> p.heard, wrong |-> p.wrong, snapshots |-> new,
             pending |-> p.pending, checkpoints |-> p.checkpoints,
             hashes |-> p.hashes, leaving |-> left, reported |-> p.reported]
    BY <1>1, <1>3 DEF OnSnapshot, MachineShape
  <2>2. left \in BOOLEAN /\ (left <=> p.leaving \/ value # p.snapshots[f].value)
    BY DEF IsMachine
  <2> HIDE DEF left, new
  <2>3. /\ r.match = p.match /\ r.fighting = p.fighting /\ r.frame = p.frame
        /\ r.heard = p.heard /\ r.wrong = p.wrong /\ r.snapshots = new
        /\ r.pending = p.pending /\ r.checkpoints = p.checkpoints
        /\ r.hashes = p.hashes /\ r.leaving = left /\ r.reported = p.reported
    BY <2>1
  <2>4. \A g \in DOMAIN p.snapshots : p.snapshots[g] \in Snapshot
    BY <1>2, MapIs
  <2>5. /\ IsMap(new, Snapshot)
        /\ \A g \in DOMAIN new : g \in DOMAIN p.snapshots /\ new[g].value = p.snapshots[g].value
        /\ \A g : g \in DOMAIN p.snapshots /\ g # f => g \in DOMAIN new /\ new[g] = p.snapshots[g]
        /\ ~(f \in DOMAIN new /\ ~new[f].confirmed)
        /\ (f \in DOMAIN new /\ ~new[f].sent) <=> ~p.snapshots[f].sent
    <3>1. CASE p.snapshots[f].sent
      <4>1. new = Drop(p.snapshots, {f})
        BY <3>1 DEF new
      <4>2. IsMap(new, Snapshot)
        BY <1>2, <4>1, DropMap
      <4>3. /\ \A g : g \in DOMAIN new <=> g \in DOMAIN p.snapshots /\ g # f
            /\ \A g \in DOMAIN new : new[g] = p.snapshots[g]
        BY <4>1, DropIs
      <4> QED BY <3>1, <4>2, <4>3
    <3>2. CASE ~p.snapshots[f].sent
      <4>1. new = [p.snapshots EXCEPT ![f].confirmed = TRUE]
        BY <3>2 DEF new
      <4>2. [p.snapshots[f] EXCEPT !.confirmed = TRUE] \in Snapshot
        BY <1>3, <2>4 DEF Snapshot
      <4>3. p.snapshots = [g \in DOMAIN p.snapshots |-> p.snapshots[g]]
        BY <1>2, MapIs
      <4> DEFINE one == [p.snapshots[f] EXCEPT !.confirmed = TRUE]
      <4>4. new = [g \in DOMAIN p.snapshots |-> IF g = f THEN one ELSE p.snapshots[g]]
        BY <4>1, <4>3
      <4>5. one \in Snapshot /\ one.confirmed = TRUE /\ one.sent = p.snapshots[f].sent
            /\ one.value = p.snapshots[f].value
        BY <1>3, <2>4, <4>2 DEF Snapshot
      <4> HIDE DEF one
      <4>6. /\ DOMAIN new = DOMAIN p.snapshots /\ new[f] = one
            /\ \A g \in DOMAIN p.snapshots : g # f => new[g] = p.snapshots[g]
        BY <1>3, <4>4
      <4>7. DOMAIN p.snapshots \subseteq Frame
        BY <1>2, MapIs
      <4>8. \A g \in DOMAIN new : new[g] \in Snapshot
        BY <2>4, <4>5, <4>6
      <4>9. new = [g \in DOMAIN new |-> new[g]]
        BY <4>4
      <4>10. IsMap(new, Snapshot)
        BY <4>6, <4>7, <4>8, <4>9 DEF IsMap
      <4> QED BY <1>3, <3>2, <4>5, <4>6, <4>10
    <3> QED BY <3>1, <3>2
  <2>6. IsMachine(r)
    BY <2>1, <2>2, <2>3, <2>5 DEF IsMachine, Snapshot
  <2>7. \A g : Unsent(r, g) <=> Unsent(p, g)
    BY <1>3, <2>3, <2>5 DEF Unsent
  <2>8. \A g : Waits(r, g) <=> Waits(p, g) /\ g # f
    BY <1>3, <2>3, <2>5 DEF Waits
  <2> QED BY <1>3, <2>2, <2>3, <2>5, <2>6, <2>7, <2>8 DEF SameFight
<1>4. CASE f \notin DOMAIN p.snapshots
  <2> DEFINE new == IF f \in DOMAIN p.pending THEN p.pending ELSE Put(p.pending, f, value)
  <2>1. r = [match |-> p.match, fighting |-> p.fighting, frame |-> p.frame,
             heard |-> p.heard, wrong |-> p.wrong, snapshots |-> p.snapshots,
             pending |-> new, checkpoints |-> p.checkpoints,
             hashes |-> p.hashes, leaving |-> p.leaving, reported |-> p.reported]
    <3>1. CASE f \in DOMAIN p.pending
      BY <1>1, <1>4, <3>1 DEF OnSnapshot, MachineShape
    <3>2. CASE f \notin DOMAIN p.pending
      BY <1>1, <1>4, <3>2 DEF OnSnapshot, MachineShape
    <3> QED BY <3>1, <3>2
  <2>2. /\ IsMap(new, Capture)
        /\ \A g \in DOMAIN new : \/ g \in DOMAIN p.pending /\ new[g] = p.pending[g]
                                 \/ g = f /\ new[g] = value
    BY <1>2, PutIs, PutMap
  <2> HIDE DEF new
  <2>3. /\ r.match = p.match /\ r.fighting = p.fighting /\ r.frame = p.frame
        /\ r.heard = p.heard /\ r.wrong = p.wrong /\ r.snapshots = p.snapshots
        /\ r.pending = new /\ r.checkpoints = p.checkpoints
        /\ r.hashes = p.hashes /\ r.leaving = p.leaving /\ r.reported = p.reported
    BY <2>1
  <2>4. IsMachine(r)
    BY <2>1, <2>2, <2>3 DEF IsMachine
  <2>5. \A g : Unsent(r, g) <=> Unsent(p, g)
    BY <2>3 DEF Unsent
  <2>6. \A g : Waits(r, g) <=> Waits(p, g) /\ g # f
    BY <1>4, <2>3 DEF Waits
  <2> QED BY <1>4, <2>2, <2>3, <2>4, <2>5, <2>6 DEF SameFight
<1> QED BY <1>3, <1>4

LEMMA OnHashIs ==
    ASSUME NEW p, IsMachine(p), NEW f \in Frame, NEW value \in Capture,
           NEW r, r = OnHash(p, f, value)
    PROVE  /\ IsMachine(r) /\ SameFight(p, r)
           /\ r.snapshots = p.snapshots /\ r.pending = p.pending
           /\ r.leaving = p.leaving /\ r.reported = p.reported
           /\ \A g \in DOMAIN r.hashes :
                 \/ g \in DOMAIN p.hashes /\ r.hashes[g] = p.hashes[g]
                 \/ g = f /\ r.hashes[g] = value
<1>1. MachineShape(p)
  BY DEF MachineShape, IsMachine
<1>2. PICK keys : r = [p EXCEPT !.hashes = Put(Drop(@, keys), f, value)]
  BY DEF OnHash
<1> DEFINE left == Drop(p.hashes, keys)
           new == Put(left, f, value)
<1>3. r = [match |-> p.match, fighting |-> p.fighting, frame |-> p.frame,
           heard |-> p.heard, wrong |-> p.wrong, snapshots |-> p.snapshots,
           pending |-> p.pending, checkpoints |-> p.checkpoints,
           hashes |-> new, leaving |-> p.leaving, reported |-> p.reported]
  BY <1>1, <1>2 DEF MachineShape
<1>4. /\ IsMap(left, Capture)
      /\ \A g \in DOMAIN left : g \in DOMAIN p.hashes /\ left[g] = p.hashes[g]
  BY DropIs, DropMap DEF IsMachine
<1> HIDE DEF left
<1>5. /\ IsMap(new, Capture)
      /\ \A g \in DOMAIN new : \/ g \in DOMAIN left /\ new[g] = left[g]
                               \/ g = f /\ new[g] = value
  BY <1>4, PutIs, PutMap
<1> HIDE DEF new
<1>6. /\ r.match = p.match /\ r.fighting = p.fighting /\ r.frame = p.frame
      /\ r.heard = p.heard /\ r.wrong = p.wrong /\ r.snapshots = p.snapshots
      /\ r.pending = p.pending /\ r.checkpoints = p.checkpoints
      /\ r.hashes = new /\ r.leaving = p.leaving /\ r.reported = p.reported
  BY <1>3
<1>7. IsMachine(r)
  BY <1>3, <1>5, <1>6 DEF IsMachine
<1> QED BY <1>4, <1>5, <1>6, <1>7 DEF SameFight

----------------------------------------------------------------------------
(* A message that arrives.                                                  *)

(* A frame more than a window ago is heard, and what was captured there     *)
(* stays.                                                                   *)
LEMMA Settled ==
    ASSUME NEW d, NEW m, NEW p, IsMachine(p), Held(d, m, p), p.fighting,
           NEW f \in Nat, f + Prediction < p.frame
    PROVE  f < p.heard /\ Now(d, m, p, f) = Truth(d, m, p.match, f)
<1>1. Prediction \in Nat /\ p.frame \in Nat /\ p.heard \in Nat
  BY DesyncAssumption DEF IsMachine
<1>2. f < p.heard
  BY <1>1 DEF Held
<1>3. p.wrong # None => p.wrong \in Nat /\ ~(f >= p.wrong)
  BY <1>1, <1>2 DEF Held, IsMachine
<1> QED BY <1>2, <1>3 DEF Now, Truth

(* The peer's side when m goes on to r, and has sent nothing.               *)
LEMMA PeerKept ==
    ASSUME NEW d, NEW k, NEW m, NEW o, NEW q, NEW jn,
           NEW p, IsMachine(p), NEW r, IsMachine(r), IsMachine(q),
           Side(d, k, o, m, q, p, jn),
           r.match = p.match, r.fighting = p.fighting, p.frame <= r.frame,
           \A f \in Taken(r) : Unsent(r, f) \/ (f \in Taken(p) /\ ~Unsent(p, f))
    PROVE  Side(d, k, o, m, q, r, jn)
<1>1. p.frame \in Nat /\ r.frame \in Nat /\ q.heard \in Nat
  BY DesyncAssumption DEF IsMachine
<1>2. \A f : Passed(q, p, f) => Passed(q, r, f)
  BY <1>1 DEF Passed
<1>3. \A f, v : Kept(d, m, q, p, f, v) => Kept(d, m, q, r, f, v)
  BY <1>2 DEF Kept
<1>4. Hears(q, p) => Hears(q, r)
  BY <1>1 DEF Hears
<1>5. Towards(d, m, q, r, jn)
  <2>1. Towards(d, m, q, p, jn)
    BY DEF Side
  <2> QED BY <1>3, <1>4, <2>1 DEF Towards
<1>6. Watchers = {} => Compared(d, o, m, q, r)
  BY <1>2 DEF Side, Compared
<1>7. Watchers = {} => OnItsWay(q, r, jn)
  <2>1. Watchers = {} => OnItsWay(q, p, jn)
    BY DEF Side
  <2> QED BY <2>1 DEF OnItsWay
<1> QED BY <1>5, <1>6, <1>7 DEF Side

(* rest is in without its first message.                                    *)
RestOf(in, rest) ==
    /\ Len(in) \in Nat /\ Len(in) > 0 /\ DOMAIN in = 1 .. Len(in)
    /\ DOMAIN rest = 1 .. Len(in) - 1
    /\ \A i \in 1 .. Len(in) - 1 : rest[i] = in[i + 1]

LEMMA RestIs ==
    ASSUME NEW in, NEW rest, RestOf(in, rest)
    PROVE  /\ 1 \in DOMAIN in
           /\ \A i \in DOMAIN rest : i \in Nat /\ i + 1 \in DOMAIN in /\ rest[i] = in[i + 1]
           /\ \A i \in DOMAIN in : i \in Nat
                /\ (i # 1 => i - 1 \in DOMAIN rest /\ rest[i - 1] = in[i])
BY DEF RestOf

(* The rest of the messages is no surprise either.                          *)
LEMMA RestTowards ==
    ASSUME NEW d, NEW o, NEW p, NEW q, NEW in, NEW rest, RestOf(in, rest),
           Towards(d, o, p, q, in)
    PROVE  /\ \A i \in DOMAIN rest : FromPeer(rest[i])
                  => Kept(d, o, p, q, rest[i].frame, rest[i].value)
           /\ \A i, j \in DOMAIN rest : rest[i].type = "allready" /\ FromPeer(rest[j]) => j < i
<1>1. \A i \in DOMAIN rest : FromPeer(rest[i]) => Kept(d, o, p, q, rest[i].frame, rest[i].value)
  BY RestIs DEF Towards
<1>2. ASSUME NEW i \in DOMAIN rest, NEW j \in DOMAIN rest,
             rest[i].type = "allready", FromPeer(rest[j])
      PROVE  j < i
  <2>1. i \in Nat /\ j \in Nat /\ i + 1 \in DOMAIN in /\ j + 1 \in DOMAIN in
        /\ rest[i] = in[i + 1] /\ rest[j] = in[j + 1]
    BY RestIs
  <2>2. j + 1 < i + 1
    BY <1>2, <2>1 DEF Towards
  <2> QED BY <2>1, <2>2
<1> QED BY <1>1, <1>2

LEMMA RestTurn ==
    ASSUME NEW k, NEW p, NEW in, NEW rest, RestOf(in, rest), Turn(k, p, in),
           in[1].type # "allready",
           NEW r, r.match = p.match, r.fighting = p.fighting
    PROVE  Turn(k, r, rest)
<1>1. \A i \in DOMAIN rest : rest[i].type = "allready" =>
            rest[i].match = k /\ r.match = k - 1 /\ ~r.fighting
  BY RestIs DEF Turn
<1>2. ASSUME NEW i \in DOMAIN rest, NEW j \in DOMAIN rest,
             rest[i].type = "allready", rest[j].type = "allready"
      PROVE  i = j
  <2>1. i \in Nat /\ j \in Nat /\ i + 1 \in DOMAIN in /\ j + 1 \in DOMAIN in
        /\ rest[i] = in[i + 1] /\ rest[j] = in[j + 1]
    BY RestIs
  <2>2. i + 1 = j + 1
    BY <1>2, <2>1 DEF Turn
  <2> QED BY <2>1, <2>2
<1>3. ASSUME \A i \in DOMAIN rest : rest[i].type # "allready"
      PROVE  r.match = k
  <2>1. \A i \in DOMAIN in : in[i].type # "allready"
    BY <1>3, RestIs
  <2> QED BY <2>1 DEF Turn
<1> QED BY <1>1, <1>2, <1>3 DEF Turn

(* Both sides of the connection.                                            *)
Both(d, k, m, p, q, in, jn) ==
    /\ IsMachine(p) /\ IsMachine(q)
    /\ Side(d, k, m, Peer(m), p, q, in)
    /\ Side(d, k, Peer(m), m, q, p, jn)

(* The announcement of a match.                                             *)
LEMMA AllReadyArrives ==
    ASSUME NEW d, NEW k \in Nat, NEW m \in Players, NEW p, NEW q, NEW in, NEW jn,
           Both(d, k, m, p, q, in, jn), NEW rest, RestOf(in, rest),
           in[1].type = "allready", NEW r, r = StartMatchFromLobby(p, in[1].match)
    PROVE  Both(d, k, m, r, q, rest, jn) /\ Overdue(r)
<1> DEFINE o == Peer(m)
<1>1. /\ IsMachine(p) /\ IsMachine(q) /\ p.frame \in Nat /\ q.frame \in Nat
      /\ p.match \in Nat /\ q.match \in Nat /\ q.heard \in Nat
  BY DesyncAssumption DEF Both, IsMachine
<1>2. 1 \in DOMAIN in /\ in[1].match = k /\ p.match = k - 1 /\ ~p.fighting
  BY RestIs DEF Both, Side, Turn
<1>3. /\ IsMachine(r) /\ NothingKept(r)
      /\ r.match = k /\ r.fighting /\ r.frame = 0 /\ r.heard = 0 /\ r.wrong = None
      /\ ~r.leaving /\ r.reported = p.reported
  <2>1. r = StartMatchFromLobby(p, k)
    BY <1>2
  <2>2. IsMachine(p)
    BY <1>1
  <2> QED BY <2>1, <2>2, StartIs
<1>4. Taken(r) = {}
  BY <1>3 DEF Taken
<1>5. Held(d, m, r) /\ Aged(r) /\ Overdue(r)
  BY <1>3, <1>4, DesyncAssumption DEF Held, Aged, Overdue, NothingKept
<1>6. \A j \in DOMAIN rest : ~FromPeer(rest[j])
  <2> SUFFICES ASSUME NEW j \in DOMAIN rest, FromPeer(rest[j]) PROVE FALSE
    OBVIOUS
  <2>1. j \in Nat /\ j + 1 \in DOMAIN in /\ rest[j] = in[j + 1]
    BY RestIs
  <2>2. j + 1 < 1
    BY <1>2, <2>1 DEF Both, Side, Towards
  <2> QED BY <2>1, <2>2
<1>7. Hears(r, q)
  BY <1>1, <1>3 DEF Hears
<1>8. Towards(d, o, r, q, rest)
  BY <1>3, <1>6, <1>7 DEF Towards, NothingKept
<1>9. \A j \in DOMAIN rest : rest[j].type # "allready"
  <2> SUFFICES ASSUME NEW j \in DOMAIN rest, rest[j].type = "allready" PROVE FALSE
    OBVIOUS
  <2>1. j \in Nat /\ j + 1 \in DOMAIN in /\ rest[j] = in[j + 1] /\ j \in DOMAIN rest
    BY RestIs
  <2>2. j + 1 = 1
    BY <1>2, <2>1 DEF Both, Side, Turn
  <2>3. j = 0
    BY <2>1, <2>2
  <2> QED BY <2>3 DEF RestOf
<1>10. Turn(k, r, rest)
  BY <1>3, <1>9 DEF Turn
<1>11. Compared(d, m, o, r, q) /\ OnItsWay(r, q, rest) /\ Verdict(d, r)
  <2>1. Compared(d, m, o, r, q)
    BY <1>4 DEF Compared
  <2>2. OnItsWay(r, q, rest)
    BY <1>3 DEF OnItsWay, Waits, NothingKept
  <2>3. Verdict(d, r)
    BY <1>3 DEF Verdict, Both, Side
  <2> QED BY <2>1, <2>2, <2>3
<1>12. Side(d, k, m, o, r, q, rest)
  BY <1>5, <1>8, <1>10, <1>11 DEF Side
<1>13. q.match = k \/ (q.match = k - 1 /\ ~q.fighting)
  BY DEF Both, Side, Turn
<1>14. \A f : Passed(q, p, f) => Passed(q, r, f)
  BY <1>1, <1>2, <1>3, <1>13 DEF Passed
<1>15. Towards(d, m, q, r, jn)
  <2>1. Towards(d, m, q, p, jn)
    BY DEF Both, Side
  <2>2. Hears(q, r)
    <3>1. Hears(q, p)
      BY <2>1 DEF Towards
    <3> QED BY <1>1, <1>2, <1>3, <1>13, <3>1 DEF Hears
  <2>3. \A f, v : Kept(d, m, q, p, f, v) => Kept(d, m, q, r, f, v)
    BY <1>14 DEF Kept
  <2> QED BY <2>1, <2>2, <2>3 DEF Towards
<1>16. Watchers = {} => Compared(d, o, m, q, r)
  BY <1>14 DEF Both, Side, Compared
<1>17. OnItsWay(q, r, jn)
  BY <1>4 DEF OnItsWay
<1>18. Side(d, k, o, m, q, r, jn)
  BY <1>15, <1>16, <1>17 DEF Both, Side
<1> QED BY <1>1, <1>3, <1>5, <1>12, <1>18 DEF Both

(* The players' own part, when neither frames nor captures change.          *)
LEMMA OwnKept ==
    ASSUME NEW d, NEW m, NEW p, NEW r, SameFight(p, r), Held(d, m, p), Aged(p),
           \A g \in DOMAIN r.snapshots : /\ g \in DOMAIN p.snapshots
                                         /\ r.snapshots[g].value = p.snapshots[g].value,
           \A g : Unsent(r, g) <=> Unsent(p, g),
           r.leaving => p.leaving \/ p.fighting
    PROVE  Held(d, m, r) /\ Aged(r) /\ (Overdue(p) => Overdue(r))
<1>1. Taken(r) = Taken(p)
  BY DEF Taken, SameFight
<1>2. \A f : Now(d, m, r, f) = Now(d, m, p, f)
  BY DEF Now, SameFight
<1>3. Held(d, m, r)
  <2>1. ~r.fighting => DOMAIN r.snapshots = {} /\ DOMAIN r.checkpoints = {} /\ ~r.leaving
    BY DEF Held, SameFight
  <2>2. \A f \in DOMAIN r.snapshots :
            f \in Taken(r) /\ r.snapshots[f].value = Now(d, m, r, f)
    BY <1>1, <1>2 DEF Held
  <2>3. \A f \in DOMAIN r.checkpoints :
            /\ f \in 1 .. r.frame /\ f % HashInterval = 0
            /\ r.checkpoints[f].value = Now(d, m, r, f)
    BY <1>2 DEF Held, SameFight
  <2> QED BY <2>1, <2>2, <2>3 DEF Held, SameFight
<1>4. Aged(r)
  BY <1>1 DEF Aged, SameFight
<1>5. Overdue(p) => Overdue(r)
  BY <1>1 DEF Overdue, SameFight
<1> QED BY <1>3, <1>4, <1>5

(* A snapshot of the peer, or with spectators of any machine.               *)
LEMMA SnapshotArrives ==
    ASSUME NEW d, NEW k \in Nat, NEW m \in Players, NEW p, NEW q, NEW in, NEW jn,
           Both(d, k, m, p, q, in, jn), NEW rest, RestOf(in, rest),
           in[1].type = "snapshot", in[1].frame \in Frame, in[1].value \in Capture,
           NEW r, r = OnSnapshot(p, in[1].frame, in[1].value)
    PROVE  Both(d, k, m, r, q, rest, jn) /\ (Overdue(p) => Overdue(r))
<1> DEFINE o == Peer(m)
           f == in[1].frame
           v == in[1].value
<1>1. /\ IsMachine(p) /\ IsMachine(q) /\ p.frame \in Nat /\ f \in Nat /\ f \in Frame
      /\ v \in Capture
  BY DesyncAssumption DEF Both, IsMachine, Frame
<1>2. 1 \in DOMAIN in /\ (Watchers = {} => FromPeer(in[1]))
  BY RestIs DEF FromPeer
<1>3. Watchers = {} => Kept(d, o, p, q, f, v)
  BY <1>2 DEF Both, Side, Towards
<1>4. /\ IsMachine(r) /\ SameFight(p, r)
      /\ r.hashes = p.hashes /\ r.reported = p.reported
      /\ r.leaving <=> p.leaving \/ (f \in DOMAIN p.snapshots
                                       /\ v # p.snapshots[f].value)
      /\ \A g \in DOMAIN r.snapshots : /\ g \in DOMAIN p.snapshots
                                       /\ r.snapshots[g].value = p.snapshots[g].value
      /\ \A g : Unsent(r, g) <=> Unsent(p, g)
      /\ \A g : Waits(r, g) <=> Waits(p, g) /\ g # f
      /\ \A g \in DOMAIN r.pending :
            \/ g \in DOMAIN p.pending /\ r.pending[g] = p.pending[g]
            \/ g = f /\ r.pending[g] = v
  <2> HIDE DEF f, v
  <2>1. r = OnSnapshot(p, f, v)
    BY DEF f, v
  <2> QED BY <1>1, <2>1, OnSnapshotIs
<1>5. f \in DOMAIN p.snapshots => p.fighting /\ p.snapshots[f].value = Now(d, m, p, f)
  BY DEF Both, Side, Held
<1> HIDE DEF f, v
<1>6. Held(d, m, p) /\ Aged(p)
  BY DEF Both, Side
<1>7. Held(d, m, r) /\ Aged(r) /\ (Overdue(p) => Overdue(r))
  BY <1>4, <1>5, <1>6, OwnKept
<1>8. r.match = p.match /\ r.fighting = p.fighting /\ r.frame = p.frame /\ r.heard = p.heard
  BY <1>4 DEF SameFight
<1>9. Taken(r) = Taken(p) /\ \A g : Passed(r, q, g) <=> Passed(p, q, g)
  BY <1>8 DEF Taken, Passed
<1>10. \A g, w : Kept(d, o, r, q, g, w) <=> Kept(d, o, p, q, g, w)
  BY <1>8, <1>9 DEF Kept
<1>11. Towards(d, o, p, q, in)
  BY DEF Both, Side
<1>12. /\ \A i \in DOMAIN rest : FromPeer(rest[i])
              => Kept(d, o, p, q, rest[i].frame, rest[i].value)
       /\ \A i, j \in DOMAIN rest : rest[i].type = "allready" /\ FromPeer(rest[j]) => j < i
  BY <1>11, RestTowards
<1>13. Towards(d, o, r, q, rest)
  <2>1. Hears(r, q)
    BY <1>8, <1>11 DEF Towards, Hears
  <2>2. \A g \in DOMAIN r.hashes : Kept(d, o, r, q, g, r.hashes[g])
    BY <1>4, <1>10, <1>11 DEF Towards
  <2>3. Watchers = {} => \A g \in DOMAIN r.pending : Kept(d, o, r, q, g, r.pending[g])
    BY <1>3, <1>4, <1>10, <1>11 DEF Towards
  <2> QED BY <1>10, <1>12, <2>1, <2>2, <2>3 DEF Towards
<1>14. Turn(k, r, rest)
  <2>1. Turn(k, p, in) /\ in[1].type # "allready"
    BY DEF Both, Side
  <2> QED BY <1>8, <2>1, RestTurn
(* What p had settled there is the truth, and so is what arrives.           *)
<1>15. ASSUME Watchers = {}, p.fighting
       PROVE  /\ Now(d, m, p, f) = Truth(d, m, p.match, f) /\ Passed(p, q, f)
              /\ v = Truth(d, o, p.match, f)
  <2>1. Kept(d, o, p, q, f, v)
    BY <1>3, <1>15
  <2>2. f + Prediction < p.frame
    BY <2>1 DEF Kept, Passed
  <2>3. Now(d, m, p, f) = Truth(d, m, p.match, f)
    BY <1>1, <1>6, <1>15, <2>2, Settled
  <2> QED BY <2>1, <2>3 DEF Kept
<1>16. Watchers = {} => Compared(d, m, o, r, q)
  <2> SUFFICES ASSUME Watchers = {}, r.fighting, NEW g \in Taken(r), ~Waits(r, g)
               PROVE  /\ Passed(r, q, g)
                      /\ Truth(d, m, r.match, g) # Truth(d, o, r.match, g) => r.leaving
    BY DEF Compared
  <2>1. p.fighting /\ g \in Taken(p)
    BY <1>8, <1>9
  <2>2. Compared(d, m, o, p, q)
    BY DEF Both, Side
  <2>3. CASE ~Waits(p, g)
    <3>1. /\ Passed(p, q, g)
          /\ Truth(d, m, p.match, g) # Truth(d, o, p.match, g) => p.leaving
      BY <2>1, <2>2, <2>3 DEF Compared
    <3> QED BY <1>4, <1>8, <1>9, <3>1
  <2>4. CASE Waits(p, g)
    <3>1. g = f /\ f \in DOMAIN p.snapshots
      BY <1>4, <2>4 DEF Waits
    <3> QED BY <1>4, <1>5, <1>8, <1>9, <1>15, <2>1, <3>1
  <2> QED BY <2>3, <2>4
<1>17. Watchers = {} => OnItsWay(r, q, rest)
  <2> SUFFICES ASSUME Watchers = {}, r.fighting, q.fighting, q.match = r.match,
                      NEW g \in Taken(q), ~Unsent(q, g), Waits(r, g)
               PROVE  \E i \in DOMAIN rest : rest[i].type = "snapshot" /\ rest[i].frame = g
    BY DEF OnItsWay
  <2>1. p.fighting /\ q.match = p.match /\ Waits(p, g) /\ g # f
    BY <1>4, <1>8
  <2>2. OnItsWay(p, q, in)
    BY DEF Both, Side
  <2>3. PICK i \in DOMAIN in : in[i].type = "snapshot" /\ in[i].frame = g
    BY <2>1, <2>2 DEF OnItsWay
  <2>4. i # 1
    BY <2>1, <2>3 DEF f
  <2> QED BY <2>3, <2>4, RestIs
<1>18. Verdict(d, r)
  <2>1. Verdict(d, p)
    BY DEF Both, Side
  <2>2. ASSUME Watchers = {}, f \in DOMAIN p.snapshots, v # p.snapshots[f].value
        PROVE  SplitIn(d, p.match)
    <3>1. Truth(d, m, p.match, f) # Truth(d, o, p.match, f)
      BY <1>5, <1>15, <2>2
    <3> QED BY <3>1, TruthsDiffer
  <2> QED BY <1>4, <1>8, <2>1, <2>2 DEF Verdict
<1>19. Side(d, k, m, o, r, q, rest)
  BY <1>7, <1>13, <1>14, <1>16, <1>17, <1>18 DEF Side
<1>20. Side(d, k, o, m, q, r, jn)
  <2>1. Side(d, k, o, m, q, p, jn)
    BY DEF Both
  <2>2. p.frame <= r.frame
    BY <1>1, <1>8
  <2> QED BY <1>1, <1>4, <1>8, <1>9, <2>1, <2>2, PeerKept
<1> QED BY <1>1, <1>4, <1>7, <1>19, <1>20 DEF Both

(* A hash of the peer.                                                      *)
LEMMA HashArrives ==
    ASSUME NEW d, NEW k \in Nat, NEW m \in Players, NEW p, NEW q, NEW in, NEW jn,
           Both(d, k, m, p, q, in, jn), NEW rest, RestOf(in, rest),
           in[1].type = "hash", in[1].frame \in Frame, in[1].value \in Capture,
           NEW r, r = OnHash(p, in[1].frame, in[1].value)
    PROVE  Both(d, k, m, r, q, rest, jn) /\ (Overdue(p) => Overdue(r))
<1> DEFINE o == Peer(m)
           f == in[1].frame
           v == in[1].value
<1>1. /\ IsMachine(p) /\ IsMachine(q) /\ p.frame \in Nat /\ f \in Frame /\ v \in Capture
  BY DesyncAssumption DEF Both, IsMachine, Frame
<1>2. 1 \in DOMAIN in /\ FromPeer(in[1])
  BY RestIs DEF FromPeer
<1>3. Kept(d, o, p, q, f, v)
  BY <1>2 DEF Both, Side, Towards
<1>4. /\ IsMachine(r) /\ SameFight(p, r)
      /\ r.snapshots = p.snapshots /\ r.pending = p.pending
      /\ r.leaving = p.leaving /\ r.reported = p.reported
      /\ \A g \in DOMAIN r.hashes :
            \/ g \in DOMAIN p.hashes /\ r.hashes[g] = p.hashes[g]
            \/ g = f /\ r.hashes[g] = v
  <2> HIDE DEF f, v
  <2>1. r = OnHash(p, f, v)
    BY DEF f, v
  <2> QED BY ONLY <1>1, <2>1, OnHashIs
<1> HIDE DEF f, v
<1>5. /\ \A g : Unsent(r, g) <=> Unsent(p, g)
      /\ \A g : Waits(r, g) <=> Waits(p, g)
  BY <1>4 DEF Unsent, Waits
<1>6. Held(d, m, p) /\ Aged(p)
  BY DEF Both, Side
<1>7. Held(d, m, r) /\ Aged(r) /\ (Overdue(p) => Overdue(r))
  BY <1>4, <1>5, <1>6, OwnKept
<1>8. r.match = p.match /\ r.fighting = p.fighting /\ r.frame = p.frame /\ r.heard = p.heard
  BY <1>4 DEF SameFight
<1>9. Taken(r) = Taken(p) /\ \A g : Passed(r, q, g) <=> Passed(p, q, g)
  BY <1>8 DEF Taken, Passed
<1>10. \A g, w : Kept(d, o, r, q, g, w) <=> Kept(d, o, p, q, g, w)
  BY <1>8, <1>9 DEF Kept
<1>11. Towards(d, o, p, q, in)
  BY DEF Both, Side
<1>12. /\ \A i \in DOMAIN rest : FromPeer(rest[i])
              => Kept(d, o, p, q, rest[i].frame, rest[i].value)
       /\ \A i, j \in DOMAIN rest : rest[i].type = "allready" /\ FromPeer(rest[j]) => j < i
  BY <1>11, RestTowards
<1>13. Towards(d, o, r, q, rest)
  <2>1. Hears(r, q)
    BY <1>8, <1>11 DEF Towards, Hears
  <2>2. \A g \in DOMAIN r.hashes : Kept(d, o, r, q, g, r.hashes[g])
    BY <1>3, <1>4, <1>10, <1>11 DEF Towards
  <2>3. Watchers = {} => \A g \in DOMAIN r.pending : Kept(d, o, r, q, g, r.pending[g])
    BY <1>4, <1>10, <1>11 DEF Towards
  <2> QED BY <1>10, <1>12, <2>1, <2>2, <2>3 DEF Towards
<1>14. Turn(k, r, rest)
  <2>1. Turn(k, p, in) /\ in[1].type # "allready"
    BY DEF Both, Side
  <2> QED BY <1>8, <2>1, RestTurn
<1>15. Watchers = {} => Compared(d, m, o, r, q)
  <2>1. Watchers = {} => Compared(d, m, o, p, q)
    BY DEF Both, Side
  <2> QED BY <1>4, <1>5, <1>8, <1>9, <2>1 DEF Compared
<1>16. Watchers = {} => OnItsWay(r, q, rest)
  <2> SUFFICES ASSUME Watchers = {}, r.fighting, q.fighting, q.match = r.match,
                      NEW g \in Taken(q), ~Unsent(q, g), Waits(r, g)
               PROVE  \E i \in DOMAIN rest : rest[i].type = "snapshot" /\ rest[i].frame = g
    BY DEF OnItsWay
  <2>1. p.fighting /\ q.match = p.match /\ Waits(p, g)
    BY <1>5, <1>8
  <2>2. OnItsWay(p, q, in)
    BY DEF Both, Side
  <2>3. PICK i \in DOMAIN in : in[i].type = "snapshot" /\ in[i].frame = g
    BY <2>1, <2>2 DEF OnItsWay
  <2>4. i # 1
    BY <2>3
  <2> QED BY <2>3, <2>4, RestIs
<1>17. Verdict(d, r)
  <2>1. Verdict(d, p)
    BY DEF Both, Side
  <2> QED BY <1>4, <1>8, <2>1 DEF Verdict
<1>18. Side(d, k, m, o, r, q, rest)
  BY <1>7, <1>13, <1>14, <1>15, <1>16, <1>17 DEF Side
<1>19. Side(d, k, o, m, q, r, jn)
  <2>1. Side(d, k, o, m, q, p, jn)
    BY DEF Both
  <2>2. p.frame <= r.frame
    BY <1>1, <1>8
  <2> QED BY <1>1, <1>4, <1>5, <1>8, <1>9, <2>1, <2>2, PeerKept
<1> QED BY <1>1, <1>4, <1>7, <1>18, <1>19 DEF Both

LEMMA MessageIs ==
    ASSUME NEW msg \in Message
    PROVE  \/ msg.type = "allready" /\ msg.match \in Nat
           \/ msg.type = "snapshot" /\ msg.frame \in Frame /\ msg.value \in Capture
           \/ msg.type = "hash" /\ msg.frame \in Frame /\ msg.value \in Capture
BY DEF Message

LEMMA HandleIs ==
    ASSUME NEW p, NEW msg
    PROVE  /\ msg.type = "allready" => Handle(p, msg) = StartMatchFromLobby(p, msg.match)
           /\ msg.type = "snapshot" => Handle(p, msg) = OnSnapshot(p, msg.frame, msg.value)
           /\ msg.type = "hash" => Handle(p, msg) = OnHash(p, msg.frame, msg.value)
<1>1. CASE msg.type = "allready"
  BY <1>1 DEF Handle
<1>2. CASE msg.type = "snapshot"
  BY <1>2 DEF Handle
<1>3. CASE msg.type = "hash"
  BY <1>3 DEF Handle
<1> QED BY <1>1, <1>2, <1>3

LEMMA HandleType ==
    ASSUME NEW p, IsMachine(p), NEW msg \in Message
    PROVE  IsMachine(Handle(p, msg))
<1>1. CASE msg.type = "allready" /\ msg.match \in Nat
  BY <1>1, HandleIs, StartIs
<1>2. CASE msg.type = "snapshot" /\ msg.frame \in Frame /\ msg.value \in Capture
  BY <1>2, HandleIs, OnSnapshotIs
<1>3. CASE msg.type = "hash" /\ msg.frame \in Frame /\ msg.value \in Capture
  BY <1>3, HandleIs, OnHashIs
<1> QED BY <1>1, <1>2, <1>3, MessageIs

LEMMA MessageArrives ==
    ASSUME NEW d, NEW k \in Nat, NEW m \in Players, NEW p, NEW q, NEW in, NEW jn,
           Both(d, k, m, p, q, in, jn), Overdue(p), NEW rest, RestOf(in, rest),
           in[1] \in Message
    PROVE  Both(d, k, m, Handle(p, in[1]), q, rest, jn) /\ Overdue(Handle(p, in[1]))
<1>1. CASE in[1].type = "allready"
  BY <1>1, HandleIs, AllReadyArrives
<1>2. CASE in[1].type = "snapshot" /\ in[1].frame \in Frame /\ in[1].value \in Capture
  BY <1>2, HandleIs, SnapshotArrives
<1>3. CASE in[1].type = "hash" /\ in[1].frame \in Frame /\ in[1].value \in Capture
  BY <1>3, HandleIs, HashArrives
<1> QED BY <1>1, <1>2, <1>3, MessageIs

(* What is left of the messages after the first n.                          *)
LEMMA LeftIs ==
    ASSUME NEW in \in Seq(Message), NEW n \in 0 .. Len(in)
    PROVE  LET left == SubSeq(in, n + 1, Len(in))
           IN  /\ left \in Seq(Message) /\ Len(left) = Len(in) - n
               /\ DOMAIN left = 1 .. Len(in) - n
               /\ \A i \in 1 .. Len(in) - n : left[i] = in[i + n]
<1> DEFINE left == SubSeq(in, n + 1, Len(in))
<1>1. Len(in) \in Nat /\ n \in Nat
  OBVIOUS
<1>2. left \in Seq(Message) /\ Len(left) = Len(in) - n
      /\ \A i \in 1 .. Len(in) - n : left[i] = in[i + n]
  BY <1>1, SubSeqProperties
<1>3. DOMAIN left = 1 .. Len(left)
  BY <1>2
<1> QED BY <1>2, <1>3

(* The machine that has handled n messages, and what is left of them.       *)
LEMMA ReceivedType ==
    ASSUME NEW p, IsMachine(p), NEW in \in Seq(Message), NEW n \in 0 .. Len(in)
    PROVE  IsMachine(Received(p, in, n))
<1>1. PICK r : Receives(p, in, n, r) /\ Received(p, in, n) = r[n]
  BY ReceivedReceives
<1> DEFINE T == {x \in Nat : x <= n /\ ~IsMachine(r[x])}
<1>2. SUFFICES ASSUME T # {} PROVE FALSE
  BY <1>1
<1>3. PICK x \in T : \A y \in T : x <= y
  <2>1. T \in SUBSET Nat
    OBVIOUS
  <2> HIDE DEF T
  <2> QED BY <1>2, <2>1, LeastIn
<1>4. x \in Nat /\ x <= n /\ ~IsMachine(r[x])
  BY <1>3
<1>5. CASE x = 0
  BY <1>1, <1>4, <1>5 DEF Receives
<1>6. CASE x # 0
  <2>1. x - 1 \in Nat /\ x - 1 <= n /\ ~(x <= x - 1) /\ x \in 0 .. n /\ x \in 1 .. Len(in)
    BY <1>4, <1>6
  <2>2. IsMachine(r[x - 1])
    BY <1>3, <2>1
  <2>3. r[x] = Handle(r[x - 1], in[x])
    BY <1>1, <1>6, <2>1 DEF Receives
  <2>4. in[x] \in Message
    BY <2>1
  <2> QED BY <1>4, <2>2, <2>3, <2>4, HandleType
<1> QED BY <1>5, <1>6

LEMMA ReceivedBoth ==
    ASSUME NEW d, NEW k \in Nat, NEW m \in Players, NEW p, NEW q, NEW in, NEW jn,
           Both(d, k, m, p, q, in, jn), Overdue(p),
           in \in Seq(Message), NEW n \in 0 .. Len(in)
    PROVE  /\ Both(d, k, m, Received(p, in, n), q, SubSeq(in, n + 1, Len(in)), jn)
           /\ Overdue(Received(p, in, n))
<1>1. PICK r : Receives(p, in, n, r) /\ Received(p, in, n) = r[n]
  BY ReceivedReceives
<1> DEFINE P(x) == /\ Both(d, k, m, r[x], q, SubSeq(in, x + 1, Len(in)), jn)
                   /\ Overdue(r[x])
           T == {x \in Nat : x <= n /\ ~P(x)}
<1>2. SUFFICES ASSUME T # {} PROVE FALSE
  BY <1>1
<1>3. PICK x \in T : \A y \in T : x <= y
  <2>1. T \in SUBSET Nat
    OBVIOUS
  <2> HIDE DEF T
  <2> QED BY <1>2, <2>1, LeastIn
<1>4. x \in Nat /\ x <= n /\ ~P(x)
  BY <1>3
<1>5. CASE x = 0
  <2>1. r[0] = p
    BY <1>1 DEF Receives
  <2>2. SubSeq(in, 0 + 1, Len(in)) = in
    OBVIOUS
  <2>3. P(0)
    BY <2>1, <2>2
  <2> QED BY <1>4, <1>5, <2>3
<1>6. CASE x # 0
  <2>1. x - 1 \in Nat /\ x - 1 <= n /\ ~(x <= x - 1) /\ x \in 0 .. n /\ x \in 1 .. Len(in)
        /\ x - 1 \in 0 .. Len(in) /\ x \in 0 .. Len(in) /\ Len(in) \in Nat
    BY <1>4, <1>6
  <2>2. P(x - 1)
    BY <1>3, <2>1
  <2>3. r[x] = Handle(r[x - 1], in[x])
    BY <1>1, <1>6, <2>1 DEF Receives
  <2>4. in[x] \in Message
    BY <2>1
  <2> DEFINE now == SubSeq(in, x - 1 + 1, Len(in))
             rest == SubSeq(in, x + 1, Len(in))
  <2>5. /\ Len(now) = Len(in) - (x - 1) /\ DOMAIN now = 1 .. Len(in) - (x - 1)
        /\ \A i \in 1 .. Len(in) - (x - 1) : now[i] = in[i + (x - 1)]
    BY <2>1, LeftIs
  <2>6. /\ DOMAIN rest = 1 .. Len(in) - x
        /\ \A i \in 1 .. Len(in) - x : rest[i] = in[i + x]
    BY <2>1, LeftIs
  <2> HIDE DEF now, rest
  <2>7. RestOf(now, rest)
    <3>1. Len(now) \in Nat /\ Len(now) > 0 /\ Len(now) - 1 = Len(in) - x
      BY <2>1, <2>5
    <3>2. \A i \in 1 .. Len(in) - x : i + 1 \in 1 .. Len(in) - (x - 1) /\ i + 1 + (x - 1) = i + x
      BY <2>1
    <3> QED BY <2>5, <2>6, <3>1, <3>2 DEF RestOf
  <2>8. now[1] = in[x]
    <3>1. 1 \in 1 .. Len(in) - (x - 1) /\ 1 + (x - 1) = x
      BY <2>1
    <3> QED BY <2>5, <3>1
  <2>9. Both(d, k, m, r[x - 1], q, now, jn) /\ Overdue(r[x - 1])
    BY <2>2 DEF now
  <2>10. Both(d, k, m, r[x], q, rest, jn) /\ Overdue(r[x])
    BY <2>3, <2>4, <2>7, <2>8, <2>9, MessageArrives
  <2> QED BY <1>4, <2>10 DEF rest
<1> QED BY <1>5, <1>6

----------------------------------------------------------------------------
(* The reconciliation, and what it sends.                                   *)

LEMMA ReconcileSnapshotsIs ==
    ASSUME NEW p, IsMachine(p), NEW r, r = ReconcileSnapshots(p)
    PROVE  /\ IsMachine(r) /\ SameFight(p, r)
           /\ r.pending = p.pending /\ r.hashes = p.hashes /\ r.reported = p.reported
           /\ \A g \in DOMAIN r.snapshots : /\ g \in DOMAIN p.snapshots
                                            /\ r.snapshots[g].value = p.snapshots[g].value
           /\ \A g : Unsent(r, g) <=> Unsent(p, g) /\ ~(p.frame - g >= SnapshotAge)
           /\ \A g : Waits(r, g) <=> Waits(p, g) /\ ~(/\ p.frame - g >= SnapshotAge
                                                      /\ g \in DOMAIN p.pending)
           /\ r.leaving <=> p.leaving
                            \/ \E g \in DOMAIN p.snapshots :
                                 /\ p.frame - g >= SnapshotAge /\ g \in DOMAIN p.pending
                                 /\ Waits(p, g) /\ p.pending[g] # p.snapshots[g].value
<1> DEFINE aged == {f \in DOMAIN p.snapshots : p.frame - f >= SnapshotAge}
           compared == {f \in aged \cap DOMAIN p.pending : ~p.snapshots[f].confirmed}
           done == {f \in aged : p.snapshots[f].confirmed} \cup compared
           sent(f) == p.snapshots[f].sent \/ f \in aged
           left == p.leaving \/ \E f \in compared : p.pending[f] # p.snapshots[f].value
           new == [f \in DOMAIN p.snapshots \ done |->
                      [p.snapshots[f] EXCEPT !.sent = sent(f)]]
<1>1. MachineShape(p)
  BY DEF MachineShape, IsMachine
<1>2. r = [match |-> p.match, fighting |-> p.fighting, frame |-> p.frame,
           heard |-> p.heard, wrong |-> p.wrong, snapshots |-> new,
           pending |-> p.pending, checkpoints |-> p.checkpoints,
           hashes |-> p.hashes, leaving |-> left, reported |-> p.reported]
  <2>1. r = [p EXCEPT !.leaving = left, !.snapshots = new]
    BY DEF ReconcileSnapshots
  <2> HIDE DEF left, new
  <2> QED BY <1>1, <2>1 DEF MachineShape
<1>3. IsMap(p.snapshots, Snapshot) /\ \A f \in DOMAIN p.snapshots : p.snapshots[f] \in Snapshot
  BY MapIs DEF IsMachine, Snapshot
<1>4. /\ \A f : f \in aged <=> f \in DOMAIN p.snapshots /\ p.frame - f >= SnapshotAge
      /\ \A f : f \in compared <=> /\ f \in aged /\ f \in DOMAIN p.pending
                                   /\ ~p.snapshots[f].confirmed
      /\ \A f : f \in done <=> f \in aged /\ (p.snapshots[f].confirmed \/ f \in compared)
  OBVIOUS
<1>5. \A f \in DOMAIN p.snapshots : sent(f) \in BOOLEAN
  BY <1>3 DEF Snapshot
<1> HIDE DEF aged, compared, done
<1>6. /\ \A f : f \in DOMAIN new <=> f \in DOMAIN p.snapshots /\ f \notin done
      /\ \A f \in DOMAIN new : /\ new[f] \in Snapshot
                               /\ new[f].sent = sent(f)
                               /\ new[f].confirmed = p.snapshots[f].confirmed
                               /\ new[f].value = p.snapshots[f].value
      /\ new = [f \in DOMAIN new |-> new[f]]
  BY <1>3, <1>5 DEF Snapshot
<1>7. left \in BOOLEAN
  BY DEF IsMachine
<1>8. left <=> p.leaving
                 \/ \E g \in DOMAIN p.snapshots :
                      /\ p.frame - g >= SnapshotAge /\ g \in DOMAIN p.pending
                      /\ Waits(p, g) /\ p.pending[g] # p.snapshots[g].value
  BY <1>4 DEF Waits
<1> HIDE DEF left, new
<1>9. /\ r.match = p.match /\ r.fighting = p.fighting /\ r.frame = p.frame
      /\ r.heard = p.heard /\ r.wrong = p.wrong /\ r.snapshots = new
      /\ r.pending = p.pending /\ r.checkpoints = p.checkpoints
      /\ r.hashes = p.hashes /\ r.leaving = left /\ r.reported = p.reported
  BY <1>2
<1>10. IsMap(new, Snapshot)
  <2>1. DOMAIN new \subseteq Frame
    BY <1>3, <1>6 DEF IsMap
  <2> QED BY <1>6, <2>1 DEF IsMap
<1>11. IsMachine(r)
  BY <1>2, <1>7, <1>9, <1>10 DEF IsMachine, Snapshot
<1>12. ASSUME NEW g
       PROVE  Unsent(r, g) <=> Unsent(p, g) /\ ~(p.frame - g >= SnapshotAge)
  BY <1>4, <1>6, <1>9 DEF Unsent
<1>13. ASSUME NEW g
       PROVE  Waits(r, g) <=> Waits(p, g) /\ ~(/\ p.frame - g >= SnapshotAge
                                               /\ g \in DOMAIN p.pending)
  BY <1>4, <1>6, <1>9 DEF Waits
<1>14. \A g \in DOMAIN r.snapshots : /\ g \in DOMAIN p.snapshots
                                     /\ r.snapshots[g].value = p.snapshots[g].value
  BY <1>6, <1>9
<1> QED BY <1>8, <1>9, <1>11, <1>12, <1>13, <1>14 DEF SameFight

LEMMA ReconcileHashesIs ==
    ASSUME NEW p, IsMachine(p), NEW isPlayer \in BOOLEAN,
           NEW r, r = ReconcileHashes(p, isPlayer)
    PROVE  /\ IsMachine(r)
           /\ r.match = p.match /\ r.fighting = p.fighting /\ r.frame = p.frame
           /\ r.heard = p.heard /\ r.wrong = p.wrong /\ r.snapshots = p.snapshots
           /\ r.pending = p.pending /\ r.leaving = p.leaving
           /\ \A g \in DOMAIN r.hashes : g \in DOMAIN p.hashes /\ r.hashes[g] = p.hashes[g]
           /\ \A g \in DOMAIN r.checkpoints :
                 /\ g \in DOMAIN p.checkpoints
                 /\ r.checkpoints[g].value = p.checkpoints[g].value
           /\ r.reported <=> p.reported
                             \/ \E g \in DOMAIN p.checkpoints :
                                  /\ p.frame - g >= HashAge /\ g \in DOMAIN p.hashes
                                  /\ p.hashes[g] # p.checkpoints[g].value
<1> DEFINE aged == {f \in DOMAIN p.checkpoints : p.frame - f >= HashAge}
           compared == aged \cap DOMAIN p.hashes
           told == p.reported \/ \E f \in compared : p.hashes[f] # p.checkpoints[f].value
           left == Drop(p.hashes, compared)
           sent(f) == p.checkpoints[f].sent \/ (f \in aged /\ isPlayer)
           new == [f \in DOMAIN p.checkpoints |-> [p.checkpoints[f] EXCEPT !.sent = sent(f)]]
<1>1. MachineShape(p)
  BY DEF MachineShape, IsMachine
<1>2. r = [match |-> p.match, fighting |-> p.fighting, frame |-> p.frame,
           heard |-> p.heard, wrong |-> p.wrong, snapshots |-> p.snapshots,
           pending |-> p.pending, checkpoints |-> new,
           hashes |-> left, leaving |-> p.leaving, reported |-> told]
  <2>1. r = [p EXCEPT !.reported = told, !.hashes = left, !.checkpoints = new]
    BY DEF ReconcileHashes
  <2> HIDE DEF told, left, new
  <2> QED BY <1>1, <2>1 DEF MachineShape
<1>3. /\ IsMap(p.checkpoints, Checkpoint) /\ IsMap(p.hashes, Capture)
      /\ \A f \in DOMAIN p.checkpoints : p.checkpoints[f] \in Checkpoint
  BY MapIs DEF IsMachine, Checkpoint
<1>4. \A f : f \in compared <=> /\ f \in DOMAIN p.checkpoints /\ p.frame - f >= HashAge
                                /\ f \in DOMAIN p.hashes
  OBVIOUS
<1>5. \A f \in DOMAIN p.checkpoints : sent(f) \in BOOLEAN
  BY <1>3 DEF Checkpoint
<1> HIDE DEF aged, compared
<1>6. /\ DOMAIN new = DOMAIN p.checkpoints
      /\ \A f \in DOMAIN new : /\ new[f] \in Checkpoint
                               /\ new[f].value = p.checkpoints[f].value
      /\ new = [f \in DOMAIN new |-> new[f]]
  BY <1>3, <1>5 DEF Checkpoint
<1>7. told \in BOOLEAN
  BY DEF IsMachine
<1>8. told <=> p.reported
                 \/ \E g \in DOMAIN p.checkpoints :
                      /\ p.frame - g >= HashAge /\ g \in DOMAIN p.hashes
                      /\ p.hashes[g] # p.checkpoints[g].value
  BY <1>4
<1>9. /\ IsMap(left, Capture)
      /\ \A g \in DOMAIN left : g \in DOMAIN p.hashes /\ left[g] = p.hashes[g]
  BY <1>3, DropIs, DropMap
<1> HIDE DEF told, left, new
<1>10. /\ r.match = p.match /\ r.fighting = p.fighting /\ r.frame = p.frame
       /\ r.heard = p.heard /\ r.wrong = p.wrong /\ r.snapshots = p.snapshots
       /\ r.pending = p.pending /\ r.checkpoints = new
       /\ r.hashes = left /\ r.leaving = p.leaving /\ r.reported = told
  BY <1>2
<1>11. IsMap(new, Checkpoint)
  <2>1. DOMAIN new \subseteq Frame
    BY <1>3, <1>6 DEF IsMap
  <2> QED BY <1>6, <2>1 DEF IsMap
<1>12. IsMachine(r)
  BY <1>2, <1>7, <1>9, <1>10, <1>11 DEF IsMachine, Checkpoint
<1> QED BY <1>6, <1>8, <1>9, <1>10, <1>12

(* What is sent: the aged captures that have not been, all of them.         *)
SentBy(p, isPlayer, sent) ==
    /\ sent \in Seq(Message)
    /\ \A i \in DOMAIN sent :
          \/ /\ sent[i].type = "snapshot" /\ Unsent(p, sent[i].frame)
             /\ p.frame - sent[i].frame >= SnapshotAge
             /\ sent[i].value = p.snapshots[sent[i].frame].value
          \/ /\ sent[i].type = "hash" /\ isPlayer
             /\ sent[i].frame \in DOMAIN p.checkpoints
             /\ p.frame - sent[i].frame >= HashAge
             /\ sent[i].value = p.checkpoints[sent[i].frame].value
    /\ \A f : Unsent(p, f) /\ p.frame - f >= SnapshotAge =>
          \E i \in DOMAIN sent : sent[i].type = "snapshot" /\ sent[i].frame = f

LEMMA OutgoingIs ==
    ASSUME NEW p, IsMachine(p), NEW isPlayer \in BOOLEAN
    PROVE  SentBy(p, isPlayer, Outgoing(p, isPlayer))
<1> DEFINE snapshots == {f \in DOMAIN p.snapshots : /\ ~p.snapshots[f].sent
                                                    /\ p.frame - f >= SnapshotAge}
           hashes == {f \in DOMAIN p.checkpoints : /\ isPlayer
                                                   /\ ~p.checkpoints[f].sent
                                                   /\ p.frame - f >= HashAge}
           ofSnapshot(f) == [type |-> "snapshot", frame |-> f, value |-> p.snapshots[f].value]
           ofHash(f) == [type |-> "hash", frame |-> f, value |-> p.checkpoints[f].value]
           a == InOrder(snapshots)
           b == InOrder(hashes)
           s == [i \in DOMAIN a |-> ofSnapshot(a[i])]
           t == [i \in DOMAIN b |-> ofHash(b[i])]
<1>1. Outgoing(p, isPlayer) = s \o t
  BY DEF Outgoing
<1>2. /\ \A f \in DOMAIN p.snapshots : f \in Frame /\ p.snapshots[f].value \in Capture
      /\ \A f \in DOMAIN p.checkpoints : f \in Frame /\ p.checkpoints[f].value \in Capture
  BY DEF IsMachine, IsMap
<1>3. /\ snapshots \subseteq Frame /\ hashes \subseteq Frame
      /\ \A f \in snapshots : ofSnapshot(f) \in Message
      /\ \A f \in hashes : ofHash(f) \in Message
  BY <1>2 DEF Message
<1>4. /\ a \in Seq(snapshots) /\ \A f \in snapshots : \E i \in DOMAIN a : a[i] = f
      /\ b \in Seq(hashes)
  BY <1>3, InOrderIs
<1> HIDE DEF a, b
<1>5. \A f : f \in snapshots <=> Unsent(p, f) /\ p.frame - f >= SnapshotAge
  BY DEF Unsent
<1>6. \A f \in hashes : f \in DOMAIN p.checkpoints /\ isPlayer /\ p.frame - f >= HashAge
  OBVIOUS
<1> HIDE DEF snapshots, hashes
<1>7. /\ s \in Seq(Message) /\ DOMAIN s = DOMAIN a
      /\ \A i \in DOMAIN a : a[i] \in snapshots /\ s[i].type = "snapshot" /\ s[i].frame = a[i]
                             /\ s[i].value = p.snapshots[a[i]].value
  <2>1. DOMAIN a = 1 .. Len(a) /\ Len(a) \in Nat /\ \A i \in DOMAIN a : a[i] \in snapshots
    BY <1>4
  <2>2. \A i \in DOMAIN a : ofSnapshot(a[i]) \in Message
    BY <1>3, <2>1
  <2> HIDE DEF ofSnapshot
  <2>3. s \in Seq(Message)
    BY <2>1, <2>2
  <2> QED BY <2>1, <2>3 DEF ofSnapshot
<1>8. /\ t \in Seq(Message) /\ DOMAIN t = DOMAIN b
      /\ \A i \in DOMAIN b : b[i] \in hashes /\ t[i].type = "hash" /\ t[i].frame = b[i]
                             /\ t[i].value = p.checkpoints[b[i]].value
  <2>1. DOMAIN b = 1 .. Len(b) /\ Len(b) \in Nat /\ \A i \in DOMAIN b : b[i] \in hashes
    BY <1>4
  <2>2. \A i \in DOMAIN b : ofHash(b[i]) \in Message
    BY <1>3, <2>1
  <2> HIDE DEF ofHash
  <2>3. t \in Seq(Message)
    BY <2>1, <2>2
  <2> QED BY <2>1, <2>3 DEF ofHash
<1> HIDE DEF s, t
<1> DEFINE sent == s \o t
<1>9. /\ sent \in Seq(Message)
      /\ \A i \in DOMAIN s : i \in DOMAIN sent /\ sent[i] = s[i]
      /\ \A i \in DOMAIN sent : \/ i \in DOMAIN s /\ sent[i] = s[i]
                                \/ i - Len(s) \in DOMAIN t /\ sent[i] = t[i - Len(s)]
  BY <1>7, <1>8
<1> HIDE DEF sent
<1>10. SentBy(p, isPlayer, sent)
  <2>1. ASSUME NEW i \in DOMAIN sent
        PROVE  \/ /\ sent[i].type = "snapshot" /\ Unsent(p, sent[i].frame)
                  /\ p.frame - sent[i].frame >= SnapshotAge
                  /\ sent[i].value = p.snapshots[sent[i].frame].value
               \/ /\ sent[i].type = "hash" /\ isPlayer
                  /\ sent[i].frame \in DOMAIN p.checkpoints
                  /\ p.frame - sent[i].frame >= HashAge
                  /\ sent[i].value = p.checkpoints[sent[i].frame].value
    <3>1. CASE i \in DOMAIN s /\ sent[i] = s[i]
      BY <1>5, <1>7, <3>1
    <3>2. CASE i - Len(s) \in DOMAIN t /\ sent[i] = t[i - Len(s)]
      BY <1>6, <1>8, <3>2
    <3> QED BY <1>9, <3>1, <3>2
  <2>2. ASSUME NEW f, Unsent(p, f) /\ p.frame - f >= SnapshotAge
        PROVE  \E i \in DOMAIN sent : sent[i].type = "snapshot" /\ sent[i].frame = f
    <3>1. PICK i \in DOMAIN a : a[i] = f
      BY <1>4, <1>5, <2>2
    <3> QED BY <1>7, <1>9, <3>1
  <2> QED BY <1>9, <2>1, <2>2 DEF SentBy
<1> QED BY <1>1, <1>10 DEF sent

(* What is two windows old was captured for good on both sides.             *)
LEMMA Trusted ==
    ASSUME NEW d, NEW m, NEW p, IsMachine(p), NEW q, IsMachine(q),
           Held(d, m, p), Hears(p, q), p.fighting,
           NEW f \in Nat, f + 2 * Prediction < p.frame
    PROVE  /\ q.match = p.match /\ Passed(q, p, f) /\ f + Prediction < p.frame
           /\ Now(d, m, p, f) = Truth(d, m, p.match, f)
<1>1. /\ Prediction \in Nat /\ p.frame \in Nat /\ p.heard \in Nat /\ q.frame \in Nat
      /\ p.match \in Nat
  BY DesyncAssumption DEF IsMachine
<1>2. p.frame <= p.heard + Prediction
  BY DEF Held
<1>3. p.heard > f + Prediction /\ f + Prediction < p.frame
  BY <1>1, <1>2
<1>4. q.match = p.match /\ p.heard <= q.frame
  BY <1>1, <1>3 DEF Hears
<1>5. Now(d, m, p, f) = Truth(d, m, p.match, f)
  BY <1>3, Settled
<1>6. f + Prediction < q.frame /\ f <= p.frame /\ p.match >= q.match
  BY <1>1, <1>3, <1>4
<1> QED BY <1>3, <1>4, <1>5, <1>6 DEF Passed

(* The messages of jn, then those of sent.                                  *)
Joined(jn, sent, next) ==
    /\ \A i \in DOMAIN jn : i \in DOMAIN next /\ next[i] = jn[i]
    /\ \A i \in DOMAIN sent : \E j \in DOMAIN next : next[j] = sent[i]
    /\ \A i \in DOMAIN next : i \in Nat /\
          \/ i \in DOMAIN jn /\ next[i] = jn[i]
          \/ /\ \A j \in DOMAIN jn : j < i
             /\ \E j \in DOMAIN sent : next[i] = sent[j]

LEMMA JoinedIs ==
    ASSUME NEW jn \in Seq(Message), NEW sent \in Seq(Message)
    PROVE  Joined(jn, sent, jn \o sent) /\ jn \o sent \in Seq(Message)
<1> DEFINE next == jn \o sent
           l == Len(jn)
<1>1. /\ next \in Seq(Message) /\ l \in Nat /\ Len(sent) \in Nat
      /\ DOMAIN jn = 1 .. l /\ DOMAIN sent = 1 .. Len(sent)
      /\ DOMAIN next = 1 .. l + Len(sent)
      /\ \A i \in 1 .. l + Len(sent) : next[i] = IF i <= l THEN jn[i] ELSE sent[i - l]
  OBVIOUS
<1> HIDE DEF next, l
<1>2. \A i \in DOMAIN jn : i \in DOMAIN next /\ next[i] = jn[i]
  BY <1>1
<1>3. ASSUME NEW i \in DOMAIN sent
      PROVE  \E j \in DOMAIN next : next[j] = sent[i]
  <2>1. i + l \in DOMAIN next /\ ~(i + l <= l) /\ i + l - l = i
    BY <1>1
  <2>2. next[i + l] = sent[i]
    BY <1>1, <2>1
  <2> QED BY <2>1, <2>2
<1>4. ASSUME NEW i \in DOMAIN next
      PROVE  i \in Nat /\
             \/ i \in DOMAIN jn /\ next[i] = jn[i]
             \/ /\ \A j \in DOMAIN jn : j < i
                /\ \E j \in DOMAIN sent : next[i] = sent[j]
  <2>1. CASE i <= l
    BY <1>1, <2>1
  <2>2. CASE ~(i <= l)
    <3>1. i - l \in DOMAIN sent /\ next[i] = sent[i - l] /\ \A j \in DOMAIN jn : j < i
      BY <1>1, <2>2
    <3> QED BY <1>1, <3>1
  <2> QED BY <2>1, <2>2
<1>5. Joined(jn, sent, next)
  BY <1>2, <1>3, <1>4 DEF Joined
<1> QED BY <1>1, <1>5 DEF next

(* Messages that are no announcements leave the turns as they are.          *)
LEMMA JoinedTurn ==
    ASSUME NEW k, NEW q, NEW jn, NEW sent, NEW next, Joined(jn, sent, next),
           Turn(k, q, jn), \A i \in DOMAIN sent : sent[i].type # "allready"
    PROVE  Turn(k, q, next)
<1>1. \A i \in DOMAIN next : next[i].type = "allready"
          => i \in DOMAIN jn /\ next[i] = jn[i] /\ jn[i].type = "allready"
  BY DEF Joined
<1>2. \A i \in DOMAIN jn : i \in DOMAIN next /\ next[i] = jn[i]
  BY DEF Joined
<1>3. \A i \in DOMAIN next : next[i].type = "allready" =>
            next[i].match = k /\ q.match = k - 1 /\ ~q.fighting
  BY <1>1 DEF Turn
<1>4. \A i, j \in DOMAIN next : next[i].type = "allready" /\ next[j].type = "allready" => i = j
  BY <1>1 DEF Turn
<1>5. ASSUME \A i \in DOMAIN next : next[i].type # "allready"
      PROVE  q.match = k
  <2>1. \A i \in DOMAIN jn : jn[i].type # "allready"
    BY <1>2, <1>5
  <2> QED BY <2>1 DEF Turn
<1> QED BY <1>3, <1>4, <1>5 DEF Turn

(* A message is only added to what is on its way.                           *)
LEMMA JoinedOnItsWay ==
    ASSUME NEW p, NEW q, NEW jn, NEW sent, NEW next, Joined(jn, sent, next),
           OnItsWay(q, p, jn)
    PROVE  OnItsWay(q, p, next)
BY DEF OnItsWay, Joined

(* All that is older than its age has been sent.                            *)
UpToDate(p) ==
    p.fighting => \A f \in Taken(p) : p.frame - f >= SnapshotAge => ~Unsent(p, f)

(* A spectator's snapshots reach a player.                                  *)
LEMMA WatcherSends ==
    ASSUME NEW d, NEW k, NEW m, NEW o, NEW p, NEW q, NEW in, Watchers # {},
           Side(d, k, m, o, p, q, in), NEW w, NEW sent, SentBy(w, FALSE, sent),
           NEW next, Joined(in, sent, next)
    PROVE  Side(d, k, m, o, p, q, next)
<1>1. \A i \in DOMAIN sent : sent[i].type = "snapshot"
  BY DEF SentBy
<1>2. \A i \in DOMAIN next : FromPeer(next[i]) => i \in DOMAIN in /\ next[i] = in[i]
  BY <1>1 DEF FromPeer, Joined
<1>3. Turn(k, p, next)
  BY <1>1, JoinedTurn DEF Side
<1>4. Towards(d, o, p, q, in)
  BY DEF Side
<1>5. \A i \in DOMAIN next : next[i].type = "allready" => i \in DOMAIN in /\ next[i] = in[i]
  BY <1>1 DEF Joined
<1>6. \A i, j \in DOMAIN next : next[i].type = "allready" /\ FromPeer(next[j]) => j < i
  BY <1>2, <1>4, <1>5 DEF Towards
<1>7. Towards(d, o, p, q, next)
  BY <1>2, <1>4, <1>6 DEF Towards
<1> QED BY <1>3, <1>7 DEF Side

(* What m does with its own captures, and what that means to its peer.      *)
LEMMA Reconciled ==
    ASSUME NEW d, NEW k \in Nat, NEW m \in Players, NEW p, NEW q, NEW in, NEW jn,
           Both(d, k, m, p, q, in, jn), Overdue(p),
           NEW sent, SentBy(p, TRUE, sent), NEW next, Joined(jn, sent, next),
           next \in Seq(Message),
           NEW r, r = ReconcileHashes(ReconcileSnapshots(p), TRUE)
    PROVE  Both(d, k, m, r, q, in, next) /\ UpToDate(r)
<1> DEFINE o == Peer(m)
           r0 == ReconcileSnapshots(p)
<1>1. /\ IsMachine(p) /\ IsMachine(q) /\ p.frame \in Nat /\ q.frame \in Nat
      /\ SnapshotAge \in Nat /\ HashAge \in Nat /\ Prediction \in Nat
      /\ SnapshotAge > 2 * Prediction /\ HashAge > 2 * Prediction
      /\ p.match \in Nat /\ q.match \in Nat
  BY DesyncAssumption DEF Both, IsMachine
<1>2. /\ IsMachine(r0) /\ SameFight(p, r0)
      /\ r0.pending = p.pending /\ r0.hashes = p.hashes /\ r0.reported = p.reported
      /\ \A g \in DOMAIN r0.snapshots : /\ g \in DOMAIN p.snapshots
                                        /\ r0.snapshots[g].value = p.snapshots[g].value
      /\ \A g : Unsent(r0, g) <=> Unsent(p, g) /\ ~(p.frame - g >= SnapshotAge)
      /\ \A g : Waits(r0, g) <=> Waits(p, g) /\ ~(/\ p.frame - g >= SnapshotAge
                                                  /\ g \in DOMAIN p.pending)
      /\ r0.leaving <=> p.leaving
                        \/ \E g \in DOMAIN p.snapshots :
                             /\ p.frame - g >= SnapshotAge /\ g \in DOMAIN p.pending
                             /\ Waits(p, g) /\ p.pending[g] # p.snapshots[g].value
  BY <1>1, ReconcileSnapshotsIs
<1>3. r = ReconcileHashes(r0, TRUE)
  OBVIOUS
<1> HIDE DEF r0
<1>4. /\ IsMachine(r)
      /\ r.match = r0.match /\ r.fighting = r0.fighting /\ r.frame = r0.frame
      /\ r.heard = r0.heard /\ r.wrong = r0.wrong /\ r.snapshots = r0.snapshots
      /\ r.pending = r0.pending /\ r.leaving = r0.leaving
      /\ \A g \in DOMAIN r.hashes : g \in DOMAIN r0.hashes /\ r.hashes[g] = r0.hashes[g]
      /\ \A g \in DOMAIN r.checkpoints :
            /\ g \in DOMAIN r0.checkpoints
            /\ r.checkpoints[g].value = r0.checkpoints[g].value
      /\ r.reported <=> r0.reported
                        \/ \E g \in DOMAIN r0.checkpoints :
                             /\ r0.frame - g >= HashAge /\ g \in DOMAIN r0.hashes
                             /\ r0.hashes[g] # r0.checkpoints[g].value
  BY <1>2, <1>3, ReconcileHashesIs
<1>5. /\ r.match = p.match /\ r.fighting = p.fighting /\ r.frame = p.frame
      /\ r.heard = p.heard /\ r.wrong = p.wrong /\ r.pending = p.pending
  BY <1>2, <1>4 DEF SameFight
<1>6. /\ \A g \in DOMAIN r.hashes : g \in DOMAIN p.hashes /\ r.hashes[g] = p.hashes[g]
      /\ \A g \in DOMAIN r.checkpoints :
            /\ g \in DOMAIN p.checkpoints
            /\ r.checkpoints[g].value = p.checkpoints[g].value
      /\ \A g \in DOMAIN r.snapshots : /\ g \in DOMAIN p.snapshots
                                       /\ r.snapshots[g].value = p.snapshots[g].value
  <2>1. r0.hashes = p.hashes /\ r0.checkpoints = p.checkpoints
    BY <1>2 DEF SameFight
  <2>2. \A g \in DOMAIN r.hashes : g \in DOMAIN p.hashes /\ r.hashes[g] = p.hashes[g]
    BY ONLY <1>4, <2>1
  <2>3. \A g \in DOMAIN r.checkpoints :
            /\ g \in DOMAIN p.checkpoints
            /\ r.checkpoints[g].value = p.checkpoints[g].value
    BY ONLY <1>4, <2>1
  <2>4. \A g \in DOMAIN r.snapshots : /\ g \in DOMAIN p.snapshots
                                       /\ r.snapshots[g].value = p.snapshots[g].value
    <3>1. r.snapshots = r0.snapshots
      BY ONLY <1>4
    <3>2. \A g \in DOMAIN r0.snapshots : /\ g \in DOMAIN p.snapshots
                                          /\ r0.snapshots[g].value = p.snapshots[g].value
      BY ONLY <1>2
    <3> QED BY ONLY <3>1, <3>2
  <2> QED BY <2>2, <2>3, <2>4
<1>7. /\ \A g : Unsent(r, g) <=> Unsent(p, g) /\ ~(p.frame - g >= SnapshotAge)
      /\ \A g : Waits(r, g) <=> Waits(p, g) /\ ~(/\ p.frame - g >= SnapshotAge
                                                 /\ g \in DOMAIN p.pending)
  BY <1>2, <1>4 DEF Unsent, Waits
<1>8. r.leaving <=> p.leaving
                    \/ \E g \in DOMAIN p.snapshots :
                         /\ p.frame - g >= SnapshotAge /\ g \in DOMAIN p.pending
                         /\ Waits(p, g) /\ p.pending[g] # p.snapshots[g].value
  BY <1>2, <1>4
<1>9. r.reported <=> p.reported
                     \/ \E g \in DOMAIN p.checkpoints :
                          /\ p.frame - g >= HashAge /\ g \in DOMAIN p.hashes
                          /\ p.hashes[g] # p.checkpoints[g].value
  <2>1. r0.reported = p.reported /\ r0.hashes = p.hashes
    BY <1>2
  <2>2. r0.checkpoints = p.checkpoints /\ r0.frame = p.frame
    BY <1>2 DEF SameFight
  <2>3. r.reported <=> r0.reported
                       \/ \E g \in DOMAIN r0.checkpoints :
                            /\ r0.frame - g >= HashAge /\ g \in DOMAIN r0.hashes
                            /\ r0.hashes[g] # r0.checkpoints[g].value
    BY ONLY <1>4
  <2> QED BY ONLY <2>1, <2>2, <2>3
<1>10. /\ Held(d, m, p) /\ Aged(p) /\ Towards(d, o, p, q, in) /\ Turn(k, p, in)
       /\ Verdict(d, p) /\ Hears(p, q)
       /\ Watchers = {} => Compared(d, m, o, p, q) /\ OnItsWay(p, q, in)
  BY DEF Both, Side, Towards
<1>11. /\ Taken(r) = Taken(p)
       /\ \A g : Passed(r, q, g) <=> Passed(p, q, g)
       /\ \A g : Now(d, m, r, g) = Now(d, m, p, g)
       /\ \A g, w : Kept(d, o, r, q, g, w) <=> Kept(d, o, p, q, g, w)
  BY <1>5 DEF Taken, Passed, Now, Kept
<1>12. \A g \in DOMAIN p.snapshots : /\ p.fighting /\ g \in Nat /\ g \in Taken(p)
                                     /\ p.snapshots[g].value = Now(d, m, p, g)
  BY <1>10 DEF Held, Taken
<1>13. \A g \in DOMAIN p.checkpoints : /\ p.fighting /\ g \in Nat
                                       /\ p.checkpoints[g].value = Now(d, m, p, g)
  BY <1>10 DEF Held
<1>14. ASSUME NEW g \in Nat, p.fighting,
              p.frame - g >= SnapshotAge \/ p.frame - g >= HashAge
       PROVE  /\ q.match = p.match /\ Passed(q, p, g) /\ g + Prediction < p.frame
              /\ Now(d, m, p, g) = Truth(d, m, p.match, g)
  <2>1. g + 2 * Prediction < p.frame
    BY <1>1, <1>14
  <2> QED BY <1>1, <1>10, <1>14, <2>1, Trusted
<1>15. Held(d, m, r)
  <2>1. p.fighting \/ (DOMAIN r.snapshots = {} /\ DOMAIN r.checkpoints = {} /\ ~r.leaving)
    BY <1>6, <1>8, <1>10, <1>12, <1>13 DEF Held
  <2>2. \A f \in DOMAIN r.snapshots :
            f \in Taken(r) /\ r.snapshots[f].value = Now(d, m, r, f)
    BY <1>6, <1>11, <1>12
  <2>3. \A f \in DOMAIN r.checkpoints :
            /\ f \in 1 .. r.frame /\ f % HashInterval = 0
            /\ r.checkpoints[f].value = Now(d, m, r, f)
    BY <1>5, <1>6, <1>10, <1>11 DEF Held
  <2>4. /\ r.fighting => r.frame <= r.heard + Prediction
        /\ r.wrong # None => r.wrong > r.heard
    BY <1>5, <1>10 DEF Held
  <2> QED BY <1>5, <2>1, <2>2, <2>3, <2>4 DEF Held
<1>16. Aged(r)
  <2> SUFFICES ASSUME p.fighting, NEW f \in Taken(p), ~Unsent(r, f)
               PROVE  p.frame >= f + SnapshotAge
    BY <1>5, <1>11 DEF Aged
  <2>1. Unsent(p, f) => p.frame - f >= SnapshotAge
    BY <1>7
  <2>2. f \in Nat
    BY DEF Taken
  <2> QED BY <1>1, <1>10, <2>1, <2>2 DEF Aged
<1>17. UpToDate(r)
  <2> SUFFICES ASSUME p.fighting, NEW f \in Taken(p), p.frame - f >= SnapshotAge
               PROVE  ~Unsent(r, f)
    BY <1>5, <1>11 DEF UpToDate
  <2> QED BY <1>7
<1>18. Towards(d, o, r, q, in)
  <2>1. Hears(r, q)
    BY <1>5, <1>10 DEF Hears
  <2> QED BY <1>5, <1>6, <1>10, <1>11, <2>1 DEF Towards
<1>19. Turn(k, r, in)
  BY <1>5, <1>10 DEF Turn
<1>20. ASSUME Watchers = {}
       PROVE  Compared(d, m, o, r, q)
  <2> SUFFICES ASSUME p.fighting, NEW g \in Taken(p), ~Waits(r, g)
               PROVE  /\ Passed(p, q, g)
                      /\ Truth(d, m, p.match, g) # Truth(d, o, p.match, g) => r.leaving
    BY <1>5, <1>11 DEF Compared
  <2>1. CASE ~Waits(p, g)
    BY <1>8, <1>10, <1>20, <2>1 DEF Compared
  <2>2. CASE Waits(p, g)
    <3>1. p.frame - g >= SnapshotAge /\ g \in DOMAIN p.pending /\ g \in DOMAIN p.snapshots
      BY <1>7, <2>2 DEF Waits
    <3>2. Kept(d, o, p, q, g, p.pending[g])
      BY <1>10, <1>20, <3>1 DEF Towards
    <3>3. p.snapshots[g].value = Truth(d, m, p.match, g)
      BY <1>12, <1>14, <3>1
    <3> QED BY <1>8, <2>2, <3>1, <3>2, <3>3 DEF Kept
  <2> QED BY <2>1, <2>2
<1>21. Watchers = {} => OnItsWay(r, q, in)
  BY <1>5, <1>7, <1>10 DEF OnItsWay
<1>22. Verdict(d, r)
  <2>1. ASSUME Watchers = {}, r.leaving, ~p.leaving
        PROVE  SplitIn(d, p.match)
    <3>1. PICK g \in DOMAIN p.snapshots :
             /\ p.frame - g >= SnapshotAge /\ g \in DOMAIN p.pending
             /\ Waits(p, g) /\ p.pending[g] # p.snapshots[g].value
      BY <1>8, <2>1
    <3>2. Kept(d, o, p, q, g, p.pending[g])
      BY <1>10, <2>1, <3>1 DEF Towards
    <3>3. p.snapshots[g].value = Truth(d, m, p.match, g)
      BY <1>12, <1>14, <3>1
    <3> QED BY <3>1, <3>2, <3>3, TruthsDiffer DEF Kept
  <2>2. ASSUME r.reported, ~p.reported
        PROVE  Split(d)
    <3>1. PICK g \in DOMAIN p.checkpoints :
             /\ p.frame - g >= HashAge /\ g \in DOMAIN p.hashes
             /\ p.hashes[g] # p.checkpoints[g].value
      BY <1>9, <2>2
    <3>2. Kept(d, o, p, q, g, p.hashes[g])
      BY <1>10, <3>1 DEF Towards
    <3>3. p.checkpoints[g].value = Truth(d, m, p.match, g)
      BY <1>13, <1>14, <3>1
    <3>4. SplitIn(d, p.match)
      BY <3>1, <3>2, <3>3, TruthsDiffer DEF Kept
    <3> QED BY <3>4 DEF SplitIn
  <2> QED BY <1>5, <1>10, <2>1, <2>2 DEF Verdict
<1>23. Side(d, k, m, o, r, q, in)
  BY <1>15, <1>16, <1>18, <1>19, <1>20, <1>21, <1>22 DEF Side
(* What it sends is the truth, and no announcement is waiting for the peer. *)
<1>24. \A i \in DOMAIN sent :
          \/ /\ sent[i].type = "snapshot" /\ Unsent(p, sent[i].frame)
             /\ p.frame - sent[i].frame >= SnapshotAge
             /\ sent[i].value = p.snapshots[sent[i].frame].value
          \/ /\ sent[i].type = "hash"
             /\ sent[i].frame \in DOMAIN p.checkpoints
             /\ p.frame - sent[i].frame >= HashAge
             /\ sent[i].value = p.checkpoints[sent[i].frame].value
  BY DEF SentBy
<1>25. ASSUME NEW i \in DOMAIN sent
       PROVE  /\ sent[i].type # "allready"
              /\ p.fighting /\ q.match = p.match
              /\ Kept(d, m, q, p, sent[i].frame, sent[i].value)
  <2> DEFINE f == sent[i].frame
  <2>1. /\ sent[i].type # "allready"
        /\ p.fighting /\ f \in Nat /\ sent[i].value = Now(d, m, p, f)
        /\ p.frame - f >= SnapshotAge \/ p.frame - f >= HashAge
    <3>1. CASE /\ sent[i].type = "snapshot" /\ Unsent(p, f)
               /\ p.frame - f >= SnapshotAge
               /\ sent[i].value = p.snapshots[f].value
      <4>1. f \in DOMAIN p.snapshots
        BY <3>1 DEF Unsent
      <4> HIDE DEF f
      <4> QED BY <1>12, <3>1, <4>1
    <3>2. CASE /\ sent[i].type = "hash"
               /\ f \in DOMAIN p.checkpoints
               /\ p.frame - f >= HashAge
               /\ sent[i].value = p.checkpoints[f].value
      <4> HIDE DEF f
      <4> QED BY <1>13, <3>2
    <3> QED BY <1>24, <3>1, <3>2
  <2> HIDE DEF f
  <2>2. /\ q.match = p.match /\ Passed(q, p, f)
        /\ Now(d, m, p, f) = Truth(d, m, p.match, f)
    BY <1>14, <2>1
  <2>3. Kept(d, m, q, p, f, sent[i].value)
    BY <2>1, <2>2 DEF Kept
  <2> QED BY <2>1, <2>2, <2>3 DEF f
<1>26. /\ Towards(d, m, q, p, jn) /\ Turn(k, q, jn) /\ Held(d, o, q) /\ Aged(q)
       /\ Verdict(d, q)
       /\ Watchers = {} => Compared(d, o, m, q, p) /\ OnItsWay(q, p, jn)
  BY DEF Both, Side
<1>27. ASSUME NEW i \in DOMAIN sent, NEW j \in DOMAIN jn
       PROVE  jn[j].type # "allready"
  <2>1. p.fighting /\ q.match = p.match
    BY <1>25
  <2>2. p.match = k
    BY <1>10, <2>1 DEF Turn
  <2>3. jn[j].type = "allready" => q.match = k - 1
    BY <1>26 DEF Turn
  <2> QED BY <2>1, <2>2, <2>3
<1>28. Turn(k, q, next)
  BY <1>25, <1>26, JoinedTurn
<1>29. Towards(d, m, q, p, next)
  <2>1. ASSUME NEW i \in DOMAIN next, FromPeer(next[i])
        PROVE  Kept(d, m, q, p, next[i].frame, next[i].value)
    <3>1. CASE i \in DOMAIN jn /\ next[i] = jn[i]
      BY <1>26, <2>1, <3>1 DEF Towards
    <3>2. CASE \E j \in DOMAIN sent : next[i] = sent[j]
      BY <1>25, <3>2
    <3> QED BY <3>1, <3>2 DEF Joined
  <2>2. ASSUME NEW i \in DOMAIN next, NEW j \in DOMAIN next,
               next[i].type = "allready", FromPeer(next[j])
        PROVE  j < i
    <3>1. i \in DOMAIN jn /\ next[i] = jn[i]
      BY <1>25, <2>2 DEF Joined
    <3>2. \A x \in DOMAIN sent : FALSE
      BY <1>27, <2>2, <3>1
    <3>3. j \in DOMAIN jn /\ next[j] = jn[j]
      BY <3>2 DEF Joined
    <3> QED BY <1>26, <2>2, <3>1, <3>3 DEF Towards
  <2> QED BY <1>26, <2>1, <2>2 DEF Towards
<1>30. Towards(d, m, q, r, next)
  <2>1. /\ \A g : Passed(q, r, g) <=> Passed(q, p, g)
        /\ Hears(q, p) => Hears(q, r)
    BY <1>5 DEF Passed, Hears
  <2>2. \A g, w : Kept(d, m, q, r, g, w) <=> Kept(d, m, q, p, g, w)
    BY <2>1 DEF Kept
  <2> QED BY <1>29, <2>1, <2>2 DEF Towards
<1>31. Watchers = {} => Compared(d, o, m, q, r)
  <2>1. \A g : Passed(q, r, g) <=> Passed(q, p, g)
    BY <1>5 DEF Passed
  <2> QED BY <1>26, <2>1 DEF Compared
<1>32. ASSUME Watchers = {}
       PROVE  OnItsWay(q, r, next)
  <2> SUFFICES ASSUME q.fighting, p.fighting, p.match = q.match,
                      NEW g \in Taken(p), ~Unsent(r, g), Waits(q, g)
               PROVE  \E i \in DOMAIN next : next[i].type = "snapshot" /\ next[i].frame = g
    BY <1>5, <1>11 DEF OnItsWay
  <2>1. CASE Unsent(p, g)
    <3>1. p.frame - g >= SnapshotAge
      BY <1>7, <2>1
    <3>2. PICK i \in DOMAIN sent : sent[i].type = "snapshot" /\ sent[i].frame = g
      BY <2>1, <3>1 DEF SentBy
    <3> QED BY <3>2 DEF Joined
  <2>2. CASE ~Unsent(p, g)
    <3>1. PICK i \in DOMAIN jn : jn[i].type = "snapshot" /\ jn[i].frame = g
      BY <1>26, <1>32, <2>2 DEF OnItsWay
    <3> QED BY <3>1 DEF Joined
  <2> QED BY <2>1, <2>2
<1>33. Side(d, k, o, m, q, r, next)
  BY <1>26, <1>28, <1>30, <1>31, <1>32 DEF Side
<1> QED BY <1>1, <1>4, <1>17, <1>23, <1>33 DEF Both

----------------------------------------------------------------------------
(* The frames that are simulated.                                           *)

(* Where a player has got to, before it captures again from first on.       *)
Moved(p, h, s, first) ==
    /\ IsMachine(s)
    /\ s.match = p.match /\ s.fighting = p.fighting /\ s.heard = h
    /\ s.snapshots = p.snapshots /\ s.checkpoints = p.checkpoints
    /\ s.pending = p.pending /\ s.hashes = p.hashes
    /\ s.leaving = p.leaving /\ s.reported = p.reported
    /\ p.frame <= s.frame /\ s.frame <= p.frame + 1
    /\ p.fighting => s.frame <= h + Prediction
    /\ s.wrong # None => s.wrong > h
    /\ first \in 1 .. p.frame + 1
    /\ \A f \in 1 .. p.frame : f <= p.heard => f < first
    /\ \A f \in 1 .. first - 1 :
          (s.wrong # None /\ f >= s.wrong) <=> (p.wrong # None /\ f >= p.wrong)

(* The three fields a step of the simulation changes.                       *)
WithFrame(p, h, frame, wrong) == [p EXCEPT !.heard = h, !.frame = frame, !.wrong = wrong]

At(p, h, frame, wrong) ==
    [match |-> p.match, fighting |-> p.fighting, frame |-> frame,
     heard |-> h, wrong |-> wrong, snapshots |-> p.snapshots,
     pending |-> p.pending, checkpoints |-> p.checkpoints,
     hashes |-> p.hashes, leaving |-> p.leaving, reported |-> p.reported]

LEMMA AtHeard ==
    ASSUME NEW p, MachineShape(p), NEW h
    PROVE  [p EXCEPT !.heard = h] = At(p, h, p.frame, p.wrong)
BY DEF At, MachineShape

LEMMA AtFrame ==
    ASSUME NEW p, MachineShape(p), NEW frame
    PROVE  [p EXCEPT !.frame = frame] = At(p, p.heard, frame, p.wrong)
BY DEF At, MachineShape

LEMMA AtWrong ==
    ASSUME NEW p, MachineShape(p), NEW wrong
    PROVE  [p EXCEPT !.wrong = wrong] = At(p, p.heard, p.frame, wrong)
BY DEF At, MachineShape

LEMMA AtAt ==
    ASSUME NEW p, NEW h, NEW frame, NEW wrong, NEW r, r = At(p, h, frame, wrong)
    PROVE  /\ MachineShape(r) /\ r.heard = h /\ r.frame = frame /\ r.wrong = wrong
           /\ \A f, g, e : At(r, f, g, e) = At(p, f, g, e)
BY DEF At, MachineShape

LEMMA WithFrameIs ==
    ASSUME NEW p, MachineShape(p), NEW h, NEW frame, NEW wrong
    PROVE  WithFrame(p, h, frame, wrong) = At(p, h, frame, wrong)
<1> DEFINE a == [p EXCEPT !.heard = h]
           b == [a EXCEPT !.frame = frame]
           c == [b EXCEPT !.wrong = wrong]
<1>1. a = At(p, h, p.frame, p.wrong)
  BY AtHeard
<1> HIDE DEF a
<1>2. b = At(p, h, frame, p.wrong)
  <2>1. MachineShape(a) /\ a.heard = h /\ a.wrong = p.wrong
    BY <1>1, AtAt
  <2>2. At(a, h, frame, p.wrong) = At(p, h, frame, p.wrong)
    BY <1>1, AtAt
  <2> QED BY <2>1, <2>2, AtFrame
<1> HIDE DEF b
<1>3. c = At(p, h, frame, wrong)
  <2>1. MachineShape(b) /\ b.heard = h /\ b.frame = frame
    BY <1>2, AtAt
  <2>2. At(b, h, frame, wrong) = At(p, h, frame, wrong)
    BY <1>2, AtAt
  <2> QED BY <2>1, <2>2, AtWrong
<1>4. WithFrame(p, h, frame, wrong) = c
  BY DEF WithFrame, a, b
<1> QED BY <1>3, <1>4

LEMMA HeardMoves ==
    ASSUME NEW m, NEW p, IsMachine(p), NEW h, h \in Nat, p.heard <= h, h <= MaxFrames,
           p.fighting => p.frame <= p.heard + Prediction,
           p.wrong # None => p.wrong > p.heard,
           NEW w \in 1 .. MaxFrames
    PROVE  \E s, first : Moved(p, h, s, first) /\ Heard(m, p, h, w) = Simulated(m, s, first)
<1> DEFINE rolled == p.wrong # None /\ p.wrong <= h
           moves == ~p.leaving /\ p.frame < MaxFrames /\ p.frame - h < Prediction
           frame == IF moves THEN p.frame + 1 ELSE p.frame
           mispredicted == w \in h + 1 .. frame /\ (rolled \/ w > p.frame)
           wrong == IF p.wrong # None /\ ~rolled THEN p.wrong
                    ELSE IF mispredicted THEN w ELSE None
           first == IF rolled THEN p.wrong ELSE p.frame + 1
           s == [p EXCEPT !.heard = h, !.frame = frame, !.wrong = wrong]
<1>1. Heard(m, p, h, w) = Simulated(m, s, first)
  BY DEF Heard
<1>2. /\ p.frame \in Nat /\ p.frame <= MaxFrames /\ p.heard \in Nat /\ MaxFrames \in Nat
      /\ Prediction \in Nat /\ None \notin Nat /\ w \in Nat /\ w >= 1
      /\ p.wrong # None => p.wrong \in 1 .. p.frame
  BY DesyncAssumption DEF IsMachine
<1>3. /\ frame \in Nat /\ frame <= MaxFrames /\ p.frame <= frame /\ frame <= p.frame + 1
      /\ p.fighting => frame <= h + Prediction
  BY <1>2
<1>4. rolled => p.wrong \in Nat /\ p.heard < p.wrong /\ p.wrong <= p.frame /\ p.wrong <= h
  BY <1>2
<1>5. wrong \in 1 .. frame \cup {None}
  BY <1>2, <1>3
<1>6. wrong # None => wrong > h
  BY <1>2, <1>3
<1>7. first \in 1 .. p.frame + 1
  BY <1>2
<1>8. \A f \in 1 .. p.frame : f <= p.heard => f < first
  BY <1>2, <1>4
<1>9. ASSUME NEW f \in 1 .. first - 1
      PROVE  (wrong # None /\ f >= wrong) <=> (p.wrong # None /\ f >= p.wrong)
  <2>1. CASE rolled
    <3>1. f < p.wrong /\ f < h + 1
      BY <1>2, <1>4, <2>1
    <3>2. wrong # None => wrong >= h + 1 /\ wrong \in Nat
      BY <1>2, <2>1
    <3> HIDE DEF wrong
    <3> QED BY <1>2, <1>4, <2>1, <3>1, <3>2
  <2>2. CASE ~rolled /\ p.wrong # None
    BY <2>2
  <2>3. CASE p.wrong = None
    <3>1. f <= p.frame
      BY <1>2, <2>3
    <3>2. wrong # None => wrong > p.frame /\ wrong \in Nat
      BY <1>2, <2>3
    <3> HIDE DEF wrong
    <3> QED BY <1>2, <2>3, <3>1, <3>2
  <2> QED BY <2>1, <2>2, <2>3
<1>10. MachineShape(p)
  BY DEF MachineShape, IsMachine
<1> HIDE DEF frame, wrong, first
<1>11. s = [match |-> p.match, fighting |-> p.fighting, frame |-> frame,
            heard |-> h, wrong |-> wrong, snapshots |-> p.snapshots,
            pending |-> p.pending, checkpoints |-> p.checkpoints,
            hashes |-> p.hashes, leaving |-> p.leaving, reported |-> p.reported]
  <2>1. s = WithFrame(p, h, frame, wrong)
    BY DEF WithFrame
  <2> HIDE DEF s
  <2>2. s = At(p, h, frame, wrong)
    BY <1>10, <2>1, WithFrameIs
  <2> QED BY <2>2 DEF At
<1> HIDE DEF s
<1>12. /\ s.match = p.match /\ s.fighting = p.fighting /\ s.frame = frame
       /\ s.heard = h /\ s.wrong = wrong /\ s.snapshots = p.snapshots
       /\ s.pending = p.pending /\ s.checkpoints = p.checkpoints
       /\ s.hashes = p.hashes /\ s.leaving = p.leaving /\ s.reported = p.reported
  BY <1>11
<1>13. frame \in 0 .. MaxFrames /\ h \in 0 .. MaxFrames
  BY <1>2, <1>3
<1>14. IsMachine(s)
  BY <1>5, <1>11, <1>12, <1>13 DEF IsMachine
<1>15. Moved(p, h, s, first)
  BY <1>3, <1>6, <1>7, <1>8, <1>9, <1>12, <1>14 DEF Moved
<1> QED BY <1>1, <1>15

(* A player hears its peer up to frame h, and simulates.                    *)
LEMMA PlayerSimulates ==
    ASSUME NEW k \in Nat, NEW m \in Players, NEW p, NEW q, NEW in, NEW jn,
           Both(diverged, k, m, p, q, in, jn), UpToDate(p), p.fighting,
           NEW h, h \in Nat, p.heard <= h, h <= MaxFrames,
           IF q.match = p.match THEN h <= q.frame ELSE h = 0,
           NEW w \in 1 .. MaxFrames, NEW r, r = Heard(m, p, h, w)
    PROVE  Both(diverged, k, m, r, q, in, jn) /\ Overdue(r)
<1> DEFINE o == Peer(m)
           d == diverged
<1>1. /\ IsMachine(p) /\ IsMachine(q) /\ p.frame \in Nat /\ q.frame \in Nat
      /\ p.heard \in Nat /\ q.heard \in Nat
      /\ SnapshotAge \in Nat /\ Prediction \in Nat /\ SnapshotAge > 2 * Prediction
  BY DesyncAssumption DEF Both, IsMachine
<1>2. /\ Held(d, m, p) /\ Aged(p) /\ Towards(d, o, p, q, in) /\ Turn(k, p, in)
      /\ Verdict(d, p)
      /\ Watchers = {} => Compared(d, m, o, p, q) /\ OnItsWay(p, q, in)
  BY DEF Both, Side
<1>3. Held(d, o, q) /\ Aged(q) /\ Hears(q, p)
  BY DEF Both, Side, Towards
<1>4. p.frame <= p.heard + Prediction /\ (p.wrong # None => p.wrong > p.heard)
  BY <1>2 DEF Held
<1>5. PICK s, first : Moved(p, h, s, first) /\ r = Simulated(m, s, first)
  BY <1>1, <1>4, HeardMoves
<1>6. /\ s.frame \in Nat /\ first \in Nat /\ first >= 1 /\ first <= p.frame + 1
      /\ p.frame <= s.frame /\ first \in 1 .. s.frame + 1
  BY <1>1, <1>5, DesyncAssumption DEF Moved, IsMachine
<1>7. Retaken(d, m, s, first, s.frame, r)
  <2>1. m \in Machines
    BY DEF Machines
  <2> QED BY <1>5, <1>6, <2>1, SimulatedIs DEF Moved
<1>8. /\ r.match = p.match /\ r.fighting = p.fighting /\ r.frame = s.frame /\ r.heard = h
      /\ r.wrong = s.wrong /\ r.pending = p.pending /\ r.hashes = p.hashes
      /\ r.leaving = p.leaving /\ r.reported = p.reported
  BY <1>5, <1>7 DEF Moved, Retaken, SameBut
<1>9. /\ r.frame \in Nat /\ p.frame <= r.frame /\ r.frame <= p.frame + 1
      /\ r.frame <= h + Prediction
      /\ r.wrong # None => r.wrong > h
  BY <1>5, <1>6, <1>8 DEF Moved
<1>10. \A f \in 1 .. p.frame : f <= p.heard => f < first
  BY <1>5 DEF Moved
<1>11. \A f \in 1 .. first - 1 : Now(d, m, r, f) = Now(d, m, p, f)
  BY <1>5, <1>8 DEF Moved, Now
<1>12. \A f : Now(d, m, s, f) = Now(d, m, r, f)
  BY <1>5, <1>8 DEF Moved, Now
(* A frame is captured now, or is what it was.                              *)
<1>13. ASSUME NEW f \in Frame, f <= r.frame
       PROVE  \/ /\ f \in first .. s.frame /\ f \notin 1 .. first - 1
                 /\ f % SnapshotInterval = 0
                       => f \in DOMAIN r.snapshots /\ r.snapshots[f] = Fresh(Now(d, m, r, f))
              \/ /\ f \notin first .. s.frame /\ f \in 1 .. first - 1 /\ f <= p.frame
                 /\ f \in DOMAIN r.snapshots <=> f \in DOMAIN p.snapshots
                 /\ f \in DOMAIN p.snapshots => r.snapshots[f] = p.snapshots[f]
  <2>1. f \in Nat /\ f >= 1
    BY DesyncAssumption DEF Frame
  <2>2. CASE f >= first
    <3>1. f \in first .. s.frame /\ f \notin 1 .. first - 1
      BY <1>6, <1>8, <1>13, <2>1, <2>2
    <3>2. f % SnapshotInterval = 0
             => f \in DOMAIN r.snapshots /\ r.snapshots[f] = Fresh(Now(d, m, s, f))
      BY <1>7, <3>1 DEF Retaken
    <3>3. Now(d, m, s, f) = Now(d, m, r, f)
      BY <1>12
    <3> QED BY <3>1, <3>2, <3>3
  <2>3. CASE f < first
    <3>1. f \notin first .. s.frame /\ f \in 1 .. first - 1 /\ f <= p.frame
      BY <1>1, <1>6, <2>1, <2>3
    <3>2. /\ f \in DOMAIN r.snapshots <=> f \in DOMAIN s.snapshots
          /\ f \in DOMAIN s.snapshots => r.snapshots[f] = s.snapshots[f]
      BY <1>7, <3>1 DEF Retaken
    <3>3. s.snapshots = p.snapshots
      BY <1>5 DEF Moved
    <3> QED BY <3>1, <3>2, <3>3
  <2> QED BY <1>6, <2>1, <2>2, <2>3
<1>14. /\ \A f : Fresh(f).value = f /\ ~Fresh(f).sent /\ ~Fresh(f).confirmed
       /\ \A f \in Taken(r) : f \in Frame /\ f \in Nat /\ f >= 1 /\ f <= r.frame
                              /\ f % SnapshotInterval = 0
       /\ \A f \in 1 .. p.frame : f % SnapshotInterval = 0 => f \in Taken(p)
       /\ \A f \in Taken(p) : f \in 1 .. p.frame /\ f % SnapshotInterval = 0
  <2>1. r.frame <= MaxFrames /\ MaxFrames \in Nat
    BY <1>7, DesyncAssumption DEF Retaken, IsMachine
  <2> QED BY <1>9, <2>1 DEF Fresh, Taken, Frame
<1>15. ASSUME NEW f \in Taken(r)
       PROVE  \/ /\ f \in DOMAIN r.snapshots /\ r.snapshots[f].value = Now(d, m, r, f)
                 /\ Unsent(r, f) /\ Waits(r, f) /\ f >= first
              \/ /\ f \in Taken(p) /\ f < first
                 /\ Unsent(r, f) <=> Unsent(p, f)
                 /\ Waits(r, f) <=> Waits(p, f)
  <2>1. f \in Frame /\ f \in Nat /\ f >= 1 /\ f <= r.frame /\ f % SnapshotInterval = 0
    BY <1>14
  <2>2. CASE f \in first .. s.frame
    <3>1. f \in DOMAIN r.snapshots /\ r.snapshots[f] = Fresh(Now(d, m, r, f)) /\ f >= first
      BY <1>6, <1>13, <2>1, <2>2
    <3> QED BY <1>14, <3>1 DEF Unsent, Waits
  <2>3. CASE f \notin first .. s.frame
    <3>1. /\ f \in 1 .. first - 1 /\ f <= p.frame
          /\ f \in DOMAIN r.snapshots <=> f \in DOMAIN p.snapshots
          /\ f \in DOMAIN p.snapshots => r.snapshots[f] = p.snapshots[f]
      BY <1>13, <2>1, <2>3
    <3>2. f \in 1 .. p.frame /\ f < first
      BY <1>1, <1>6, <2>1, <3>1
    <3> QED BY <1>14, <2>1, <3>1, <3>2 DEF Unsent, Waits
  <2> QED BY <2>2, <2>3
<1>16. IsMachine(r)
  BY <1>7 DEF Retaken
<1>17. ASSUME NEW f \in DOMAIN r.snapshots
       PROVE  f \in Taken(r) /\ r.snapshots[f].value = Now(d, m, r, f)
  <2>1. f \in Frame /\ f \in Nat /\ f >= 1
    BY <1>16, DesyncAssumption DEF IsMachine, IsMap, Frame
  <2>2. CASE f \in first .. s.frame
    <3>1. f % SnapshotInterval = 0 \/ f \in DOMAIN p.snapshots
      BY <1>5, <1>7, <2>2 DEF Retaken, Moved
    <3>2. f % SnapshotInterval = 0
      BY <1>2, <3>1 DEF Held, Taken
    <3>3. f \in Taken(r) /\ f <= r.frame
      BY <1>6, <1>8, <2>1, <2>2, <3>2 DEF Taken
    <3>4. r.snapshots[f] = Fresh(Now(d, m, r, f))
      BY <1>13, <2>1, <2>2, <3>2, <3>3
    <3> QED BY <1>14, <3>3, <3>4
  <2>3. CASE f \notin first .. s.frame
    <3>1. f \in DOMAIN p.snapshots /\ r.snapshots[f] = p.snapshots[f]
      BY <1>5, <1>7, <2>1, <2>3 DEF Retaken, Moved
    <3>2. f \in Taken(p) /\ p.snapshots[f].value = Now(d, m, p, f)
      BY <1>2, <3>1 DEF Held
    <3>3. f \in Taken(r) /\ f \in 1 .. first - 1
      BY <1>1, <1>6, <1>8, <1>9, <1>14, <2>1, <2>3, <3>2 DEF Taken
    <3> QED BY <1>11, <3>1, <3>2, <3>3
  <2> QED BY <2>2, <2>3
<1>18. ASSUME NEW f \in DOMAIN r.checkpoints
       PROVE  /\ f \in 1 .. r.frame /\ f % HashInterval = 0
              /\ r.checkpoints[f].value = Now(d, m, r, f)
  <2>1. CASE f \in first .. s.frame /\ f % HashInterval = 0
             /\ r.checkpoints[f].value = Now(d, m, s, f)
    BY <1>6, <1>8, <1>12, <2>1
  <2>2. CASE f \in DOMAIN s.checkpoints /\ r.checkpoints[f] = s.checkpoints[f]
             /\ (f \in first .. s.frame => f % HashInterval # 0)
    <3>1. f \in DOMAIN p.checkpoints /\ r.checkpoints[f] = p.checkpoints[f]
      BY <1>5, <2>2 DEF Moved
    <3>2. f \in 1 .. p.frame /\ f % HashInterval = 0 /\ p.checkpoints[f].value = Now(d, m, p, f)
      BY <1>2, <3>1 DEF Held
    <3>3. f \in 1 .. r.frame /\ f \in 1 .. first - 1
      BY <1>1, <1>6, <1>8, <1>9, <2>2, <3>2
    <3> QED BY <1>11, <3>1, <3>2, <3>3
  <2> QED BY <1>7, <2>1, <2>2 DEF Retaken
<1>19. Held(d, m, r)
  BY <1>8, <1>9, <1>17, <1>18 DEF Held
<1>20. Aged(r)
  <2> SUFFICES ASSUME NEW f \in Taken(r), ~Unsent(r, f)
               PROVE  r.frame >= f + SnapshotAge
    BY DEF Aged
  <2>1. f \in Taken(p) /\ ~Unsent(p, f) /\ f \in Nat
    BY <1>14, <1>15
  <2>2. p.frame >= f + SnapshotAge
    BY <1>2, <2>1 DEF Aged
  <2> QED BY <1>1, <1>9, <2>1, <2>2
<1>21. Overdue(r)
  <2> SUFFICES ASSUME NEW f \in Taken(r), r.frame > f + SnapshotAge
               PROVE  ~Unsent(r, f)
    BY DEF Overdue
  <2>1. f \in Nat /\ f >= 1
    BY <1>14
  <2>2. f <= p.heard /\ f <= p.frame /\ p.frame - f >= SnapshotAge
    BY <1>1, <1>4, <1>9, <2>1
  <2>3. f < first
    BY <1>1, <1>10, <2>1, <2>2
  <2>4. f \in Taken(p) /\ (Unsent(r, f) <=> Unsent(p, f))
    BY <1>6, <1>15, <2>1, <2>3
  <2> QED BY <2>2, <2>4 DEF UpToDate
<1>22. \A f : Passed(p, q, f) => Passed(r, q, f)
  BY <1>1, <1>8, <1>9 DEF Passed
<1>23. Towards(d, o, r, q, in)
  <2>1. Hears(r, q)
    BY <1>8 DEF Hears
  <2>2. \A f, v : Kept(d, o, p, q, f, v) => Kept(d, o, r, q, f, v)
    BY <1>8, <1>22 DEF Kept
  <2> QED BY <1>2, <1>8, <2>1, <2>2 DEF Towards
<1>24. Turn(k, r, in)
  BY <1>2, <1>8 DEF Turn
<1>25. Watchers = {} => Compared(d, m, o, r, q)
  <2> SUFFICES ASSUME Watchers = {}, NEW f \in Taken(r), ~Waits(r, f)
               PROVE  /\ Passed(r, q, f)
                      /\ Truth(d, m, r.match, f) # Truth(d, o, r.match, f) => r.leaving
    BY DEF Compared
  <2>1. f \in Taken(p) /\ ~Waits(p, f)
    BY <1>15
  <2> QED BY <1>2, <1>8, <1>22, <2>1 DEF Compared
<1>26. Watchers = {} => OnItsWay(r, q, in)
  <2> SUFFICES ASSUME Watchers = {}, q.fighting, q.match = p.match,
                      NEW f \in Taken(q), ~Unsent(q, f), Waits(r, f)
               PROVE  \E i \in DOMAIN in : in[i].type = "snapshot" /\ in[i].frame = f
    BY <1>8 DEF OnItsWay
  <2>1. f \in Nat /\ f >= 1
    BY DEF Taken
  <2>2. q.frame >= f + SnapshotAge
    BY <1>3 DEF Aged
  <2>3. q.frame <= q.heard + Prediction /\ q.heard <= p.frame
    BY <1>3 DEF Held, Hears
  <2>4. f <= p.heard /\ f <= p.frame
    BY <1>1, <1>4, <2>1, <2>2, <2>3
  <2>5. f < first /\ f \in Taken(r)
    <3>1. f < first
      BY <1>1, <1>10, <2>1, <2>4
    <3>2. f \in Taken(r)
      BY <1>1, <1>9, <2>1, <2>4 DEF Taken
    <3> QED BY <3>1, <3>2
  <2>6. Waits(p, f)
    BY <1>6, <1>15, <2>1, <2>5
  <2> QED BY <1>2, <2>6 DEF OnItsWay
<1>27. Verdict(d, r)
  BY <1>2, <1>8 DEF Verdict
<1>28. Side(d, k, m, o, r, q, in)
  BY <1>19, <1>20, <1>23, <1>24, <1>25, <1>26, <1>27 DEF Side
<1>29. Side(d, k, o, m, q, r, jn)
  <2>1. Side(d, k, o, m, q, p, jn)
    BY DEF Both
  <2>2. \A f \in Taken(r) : Unsent(r, f) \/ (f \in Taken(p) /\ ~Unsent(p, f))
    BY <1>15
  <2> QED BY <1>1, <1>8, <1>9, <1>16, <2>1, <2>2, PeerKept
<1> QED BY <1>1, <1>16, <1>21, <1>28, <1>29 DEF Both

----------------------------------------------------------------------------
(* A tick of the game.                                                      *)

(* Whatever a machine simulates, it stays a machine.                        *)
LEMMA WatcherSimulatesType ==
    ASSUME NEW m \in Machines, NEW p, IsMachine(p), NEW r, r \in WatcherFrames(m, p)
    PROVE  IsMachine(r)
<1> DEFINE q == [p EXCEPT !.frame = @ + 1]
<1>1. CASE r = p
  BY <1>1
<1>2. CASE r # p
  <2>1. p.frame < MaxFrames /\ r = Simulated(m, q, q.frame)
    BY <1>2 DEF WatcherFrames
  <2>2. MachineShape(p)
    BY DEF IsMachine, MachineShape
  <2>3. q = At(p, p.heard, p.frame + 1, p.wrong)
    BY <2>2, AtFrame
  <2> HIDE DEF q
  <2>4. /\ q.match = p.match /\ q.fighting = p.fighting /\ q.frame = p.frame + 1
        /\ q.heard = p.heard /\ q.wrong = p.wrong /\ q.snapshots = p.snapshots
        /\ q.pending = p.pending /\ q.checkpoints = p.checkpoints
        /\ q.hashes = p.hashes /\ q.leaving = p.leaving /\ q.reported = p.reported
    BY <2>3 DEF At
  <2>5. p.frame + 1 \in 0 .. MaxFrames /\ p.wrong \in 1 .. p.frame + 1 \cup {None}
        /\ p.frame + 1 \in 1 .. p.frame + 1 + 1
    BY <2>1, DesyncAssumption DEF IsMachine
  <2>6. IsMachine(q)
    BY <2>3, <2>4, <2>5 DEF IsMachine, At
  <2>7. q.frame \in 1 .. q.frame + 1
    BY <2>4, <2>5
  <2> QED BY <2>1, <2>6, <2>7, SimulatedIs DEF Retaken
<1> QED BY <1>1, <1>2

(* The frames of the peer a player can have heard.                          *)
LEMMA ReachedIs ==
    ASSUME NEW m \in Players, NEW p, IsMachine(machine[Peer(m)])
    PROVE  /\ Reached(m, p) \in Nat /\ Reached(m, p) <= MaxFrames
           /\ machine[Peer(m)].match = p.match => Reached(m, p) = machine[Peer(m)].frame
           /\ machine[Peer(m)].match # p.match => Reached(m, p) = 0
BY DesyncAssumption DEF Reached, IsMachine

(* A player that fights has simulated frame by frame what it has heard.     *)
LEMMA FramesOfPlayer ==
    ASSUME NEW k \in Nat, NEW m \in Players, NEW p, NEW in, NEW jn,
           Both(diverged, k, m, p, machine[Peer(m)], in, jn), UpToDate(p),
           NEW r \in Frames(m, p)
    PROVE  Both(diverged, k, m, r, machine[Peer(m)], in, jn) /\ Overdue(r)
<1>1. CASE ~p.fighting
  <2>1. r = p
    BY <1>1 DEF Frames
  <2> QED BY <1>1, <2>1 DEF Overdue
<1>2. CASE p.fighting
  <2>1. r \in PlayerFrames(m, p)
    BY <1>2 DEF Frames
  <2>2. PICK h \in p.heard .. Reached(m, p), w \in 1 .. MaxFrames : r = Heard(m, p, h, w)
    BY <2>1 DEF PlayerFrames
  <2>3. IsMachine(machine[Peer(m)]) /\ IsMachine(p) /\ p.heard \in Nat
    BY DesyncAssumption DEF Both, IsMachine
  <2>4. /\ Reached(m, p) \in Nat /\ Reached(m, p) <= MaxFrames
        /\ machine[Peer(m)].match = p.match => Reached(m, p) = machine[Peer(m)].frame
        /\ machine[Peer(m)].match # p.match => Reached(m, p) = 0
    BY <2>3, ReachedIs
  <2>5. h \in Nat /\ p.heard <= h /\ h <= Reached(m, p) /\ h <= MaxFrames
    BY <2>3, <2>4, DesyncAssumption
  <2>6. IF machine[Peer(m)].match = p.match THEN h <= machine[Peer(m)].frame ELSE h = 0
    BY <2>4, <2>5
  <2> QED BY <1>2, <2>2, <2>5, <2>6, PlayerSimulates
<1> QED BY <1>1, <1>2

(* The invariant, for one player and its peer.                              *)
Fought(m) == Both(diverged, matches, m, machine[m], machine[Peer(m)], inbox[m], inbox[Peer(m)])

LEMMA DInvIs ==
    ASSUME TypeOK, NEW m \in Players, Fought(m),
           Overdue(machine[m]), Overdue(machine[Peer(m)])
    PROVE  DInv
<1>1. /\ Peer(m) \in Players /\ Peer(Peer(m)) = m
      /\ \A o \in Players : o = m \/ o = Peer(m)
  BY TwoPlayers
<1>2. Side(diverged, matches, m, Peer(m), machine[m], machine[Peer(m)], inbox[m])
  BY DEF Fought, Both
<1>3. Side(diverged, matches, Peer(m), m, machine[Peer(m)], machine[m], inbox[Peer(m)])
  BY DEF Fought, Both
<1> QED BY <1>1, <1>2, <1>3 DEF DInv

LEMMA DInvNext ==
    ASSUME TypeOK', NEW m \in Players, Fought(m)',
           Overdue(machine[m])', Overdue(machine[Peer(m)])'
    PROVE  DInv'
<1>1. /\ Peer(m) \in Players /\ Peer(Peer(m)) = m
      /\ \A o \in Players : o = m \/ o = Peer(m)
  BY TwoPlayers
<1>2. Side(diverged, matches, m, Peer(m), machine[m], machine[Peer(m)], inbox[m])'
  BY DEF Fought, Both
<1>3. Side(diverged, matches, Peer(m), m, machine[Peer(m)], machine[m], inbox[Peer(m)])'
  BY DEF Fought, Both
<1> QED BY <1>1, <1>2, <1>3 DEF DInv

LEMMA DInvFought ==
    ASSUME DInv, NEW m \in Players
    PROVE  Fought(m) /\ Overdue(machine[m]) /\ Overdue(machine[Peer(m)])
<1>1. Peer(m) \in Players /\ Peer(Peer(m)) = m /\ m \in Machines /\ Peer(m) \in Machines
  BY TwoPlayers
<1>2. IsMachine(machine[m]) /\ IsMachine(machine[Peer(m)])
  BY <1>1 DEF DInv, TypeOK
<1>3. /\ Side(diverged, matches, m, Peer(m), machine[m], machine[Peer(m)], inbox[m])
      /\ Side(diverged, matches, Peer(m), m, machine[Peer(m)], machine[m], inbox[Peer(m)])
  BY <1>1 DEF DInv
<1>4. Overdue(machine[m]) /\ Overdue(machine[Peer(m)])
  BY <1>1 DEF DInv
<1> QED BY <1>2, <1>3, <1>4 DEF Fought, Both

(* A tick, field by field.                                                  *)
LEMMA TickMachineIs ==
    ASSUME TypeOK, NEW m \in Machines, NEW r, machine' = [machine EXCEPT ![m] = r]
    PROVE  /\ machine' = [o \in Machines |-> machine'[o]] /\ machine'[m] = r
           /\ \A o \in Machines : o # m => machine'[o] = machine[o]
BY DEF TypeOK

LEMMA TickInboxIs ==
    ASSUME NEW m \in Machines, NEW left, NEW sent,
           inbox' = [o \in Machines |-> IF o = m THEN left ELSE inbox[o] \o sent]
    PROVE  /\ inbox' = [o \in Machines |-> inbox'[o]] /\ inbox'[m] = left
           /\ \A o \in Machines : o # m => inbox'[o] = inbox[o] \o sent
OBVIOUS

(* The types after a step.                                                  *)
LEMMA TypesNext ==
    ASSUME machine' = [o \in Machines |-> machine'[o]],
           \A o \in Machines : IsMachine(machine'[o]),
           inbox' \in [Machines -> Seq(Message)], matches' \in Nat,
           diverged' \in {None} \cup [who : Machines, match : Nat, from : Nat]
    PROVE  TypeOK'
<1>1. \A o \in Machines : IsMachine(machine[o])'
  BY DEF IsMachine, IsMap, Frame, Capture
<1>2. machine' = [o \in Machines |-> machine'[o]]
  OBVIOUS
<1> QED BY <1>1, <1>2 DEF TypeOK, Message, Machines, Frame, Capture

LEMMA TypesKept ==
    ASSUME TypeOK, machine' = [o \in Machines |-> machine'[o]],
           inbox' = [o \in Machines |-> inbox'[o]],
           matches' = matches, diverged' = diverged,
           \A o \in Machines : IsMachine(machine'[o]) /\ inbox'[o] \in Seq(Message)
    PROVE  TypeOK'
<1>1. inbox' \in [Machines -> Seq(Message)]
  OBVIOUS
<1>2. matches' \in Nat /\ diverged' \in {None} \cup [who : Machines, match : Nat, from : Nat]
  BY DEF TypeOK
<1> QED BY <1>1, <1>2, TypesNext

(* The tick of a player.                                                    *)
LEMMA TickPlayer ==
    ASSUME DInv, NEW m \in Players, NEW n \in 0 .. Len(inbox[m]), Tick(m, n)
    PROVE  DInv'
<1> DEFINE o == Peer(m)
           p == Received(machine[m], inbox[m], n)
           s == ReconcileHashes(ReconcileSnapshots(p), TRUE)
           sent == Outgoing(p, TRUE)
           left == SubSeq(inbox[m], n + 1, Len(inbox[m]))
           next == inbox[o] \o sent
<1>1. /\ TypeOK /\ matches \in Nat /\ inbox[m] \in Seq(Message) /\ inbox[o] \in Seq(Message)
      /\ o \in Players /\ o # m /\ m \in Machines /\ o \in Machines
      /\ \A x \in Machines : IsMachine(machine[x]) /\ inbox[x] \in Seq(Message)
  BY TwoPlayers DEF DInv, TypeOK
<1>2. Fought(m) /\ Overdue(machine[m]) /\ Overdue(machine[o])
  BY DInvFought
<1>3. Both(diverged, matches, m, p, machine[o], left, inbox[o]) /\ Overdue(p)
  BY <1>1, <1>2, ReceivedBoth DEF Fought
<1>4. IsMachine(p)
  BY <1>3 DEF Both
<1>5. left \in Seq(Message)
  BY <1>1, LeftIs
<1> HIDE DEF p, left
<1>6. SentBy(p, TRUE, sent) /\ sent \in Seq(Message)
  <2>1. SentBy(p, TRUE, sent)
    BY <1>4, OutgoingIs
  <2> QED BY <2>1 DEF SentBy
<1> HIDE DEF sent
<1>7. Joined(inbox[o], sent, next) /\ next \in Seq(Message)
  BY <1>1, <1>6, JoinedIs
<1> HIDE DEF next
<1>8. Both(diverged, matches, m, s, machine[o], left, next) /\ UpToDate(s)
  BY <1>1, <1>3, <1>6, <1>7, Reconciled
<1> HIDE DEF s
<1>9. /\ machine' = [x \in Machines |-> machine'[x]]
      /\ machine'[m] \in Frames(m, s)
      /\ \A x \in Machines : x # m => machine'[x] = machine[x]
      /\ inbox'[m] = left
      /\ \A x \in Machines : x # m => inbox'[x] = inbox[x] \o sent
      /\ inbox' = [x \in Machines |-> inbox'[x]]
      /\ matches' = matches /\ diverged' = diverged
  <2>1. (m \in Players) = TRUE
    OBVIOUS
  <2>2. PICK r \in Frames(m, s) : machine' = [machine EXCEPT ![m] = r]
    BY <2>1 DEF Tick, p, s
  <2>3. inbox' = [x \in Machines |-> IF x = m THEN left ELSE inbox[x] \o sent]
    BY <2>1 DEF Tick, p, sent, left
  <2>4. matches' = matches /\ diverged' = diverged
    BY DEF Tick
  <2>5. TypeOK /\ m \in Machines
    BY <1>1
  <2>6. machine' = [x \in Machines |-> machine'[x]] /\ machine'[m] = r
    BY ONLY <2>2, <2>5, TickMachineIs
  <2>7. \A x \in Machines : x # m => machine'[x] = machine[x]
    BY ONLY <2>2, <2>5, TickMachineIs
  <2>8. inbox' = [x \in Machines |-> inbox'[x]] /\ inbox'[m] = left
    BY ONLY <2>3, <2>5, TickInboxIs
  <2>9. \A x \in Machines : x # m => inbox'[x] = inbox[x] \o sent
    BY ONLY <2>3, <2>5, TickInboxIs
  <2> QED BY <2>2, <2>4, <2>6, <2>7, <2>8, <2>9
<1>10. Both(diverged, matches, m, machine'[m], machine[o], left, next) /\ Overdue(machine'[m])
  BY <1>1, <1>8, <1>9, FramesOfPlayer
<1>11. \A x \in Machines : IsMachine(machine'[x]) /\ inbox'[x] \in Seq(Message)
  <2>1. IsMachine(machine'[m])
    BY <1>10 DEF Both
  <2>2. \A x \in Machines : x # m => inbox[x] \o sent \in Seq(Message)
    BY <1>1, <1>6
  <2> QED BY <1>1, <1>5, <1>9, <2>1, <2>2
<1>12. TypeOK'
  BY <1>1, <1>9, <1>11, TypesKept
<1>13. machine'[o] = machine[o] /\ inbox'[o] = next
  BY <1>1, <1>9 DEF next
<1>14. Fought(m)'
  <2>1. Both(diverged', matches', m, machine'[m], machine'[o], inbox'[m], inbox'[o])
    BY <1>9, <1>10, <1>13
  <2> QED BY <2>1 DEF Fought
<1>15. Overdue(machine[m])' /\ Overdue(machine[o])'
  BY <1>2, <1>10, <1>13
<1> QED BY <1>12, <1>14, <1>15, DInvNext

(* The tick of a spectator.                                                 *)
LEMMA TickWatcher ==
    ASSUME DInv, NEW m \in Machines, m \notin Players,
           NEW n \in 0 .. Len(inbox[m]), Tick(m, n)
    PROVE  DInv'
<1> DEFINE p == Received(machine[m], inbox[m], n)
           s == ReconcileHashes(ReconcileSnapshots(p), FALSE)
           sent == Outgoing(p, FALSE)
           left == SubSeq(inbox[m], n + 1, Len(inbox[m]))
<1>1. /\ TypeOK /\ inbox[m] \in Seq(Message) /\ IsMachine(machine[m]) /\ Watchers # {}
      /\ \A x \in Machines : IsMachine(machine[x]) /\ inbox[x] \in Seq(Message)
  BY DEF DInv, TypeOK, Machines
<1>2. left \in Seq(Message)
  BY <1>1, LeftIs
<1>3. IsMachine(p)
  BY <1>1, ReceivedType
<1> HIDE DEF p, left
<1>4. SentBy(p, FALSE, sent) /\ sent \in Seq(Message)
  <2>1. SentBy(p, FALSE, sent)
    BY <1>3, OutgoingIs
  <2> QED BY <2>1 DEF SentBy
<1>5. IsMachine(s)
  <2>1. IsMachine(ReconcileSnapshots(p))
    BY <1>3, ReconcileSnapshotsIs
  <2> QED BY <2>1, ReconcileHashesIs
<1> HIDE DEF sent, s
<1>6. PICK r \in Frames(m, s) : machine' = [machine EXCEPT ![m] = r]
  <2>1. (m \in Players) = FALSE
    OBVIOUS
  <2> QED BY <2>1 DEF Tick, p, s
<1>7. inbox' = [x \in Machines |-> IF x = m THEN left ELSE inbox[x] \o sent]
  <2>1. (m \in Players) = FALSE
    OBVIOUS
  <2> QED BY <2>1 DEF Tick, p, sent, left
<1>8. matches' = matches /\ diverged' = diverged
  BY DEF Tick
<1>9. IsMachine(r)
  <2>1. r = s \/ r \in WatcherFrames(m, s)
    BY DEF Frames
  <2> QED BY <1>5, <2>1, WatcherSimulatesType
<1>t. TypeOK
  BY <1>1
<1>10. machine' = [x \in Machines |-> machine'[x]] /\ machine'[m] = r
  BY ONLY <1>t, <1>6, TickMachineIs, m \in Machines
<1>11. \A x \in Machines : x # m => machine'[x] = machine[x]
  BY ONLY <1>t, <1>6, TickMachineIs, m \in Machines
<1>12. inbox' = [x \in Machines |-> inbox'[x]] /\ inbox'[m] = left
  BY ONLY <1>7, TickInboxIs, m \in Machines
<1>13. \A x \in Machines : x # m => inbox'[x] = inbox[x] \o sent
  BY ONLY <1>7, TickInboxIs, m \in Machines
<1>14. \A x \in Machines : IsMachine(machine'[x]) /\ inbox'[x] \in Seq(Message)
  <2>1. \A x \in Machines : inbox[x] \o sent \in Seq(Message)
    BY <1>1, <1>4
  <2> QED BY <1>1, <1>2, <1>9, <1>10, <1>11, <1>12, <1>13, <2>1
<1>15. TypeOK'
  BY <1>1, <1>8, <1>10, <1>12, <1>14, TypesKept
<1>16. ASSUME NEW x \in Players
       PROVE  /\ Side(diverged, matches, x, Peer(x), machine[x], machine[Peer(x)], inbox[x])'
              /\ Overdue(machine[x])'
  <2>1. /\ x \in Machines /\ Peer(x) \in Machines /\ x # m /\ Peer(x) # m
        /\ inbox[x] \in Seq(Message)
    BY <1>1, TwoPlayers
  <2>2. /\ machine'[x] = machine[x] /\ machine'[Peer(x)] = machine[Peer(x)]
        /\ inbox'[x] = inbox[x] \o sent
    BY <1>11, <1>13, <2>1
  <2>3. Joined(inbox[x], sent, inbox[x] \o sent)
    BY <1>4, <2>1, JoinedIs
  <2>4. /\ Side(diverged, matches, x, Peer(x), machine[x], machine[Peer(x)], inbox[x])
        /\ Overdue(machine[x])
    BY DEF DInv
  <2>5. Side(diverged, matches, x, Peer(x), machine[x], machine[Peer(x)], inbox[x] \o sent)
    BY <1>1, <1>4, <2>3, <2>4, WatcherSends
  <2> QED BY <1>8, <2>2, <2>4, <2>5
<1> QED BY <1>15, <1>16 DEF DInv

----------------------------------------------------------------------------
(* The other steps.                                                         *)

(* A player is back in the lobby.                                           *)
LEMMA Leaves ==
    ASSUME NEW d, NEW k \in Nat, NEW m \in Players, NEW p, NEW q, NEW in, NEW jn,
           Both(d, k, m, p, q, in, jn), p.fighting, NEW r, r = Closed(p)
    PROVE  Both(d, k, m, r, q, in, jn) /\ Overdue(r)
<1> DEFINE o == Peer(m)
<1>1. /\ IsMachine(p) /\ IsMachine(q)
      /\ Side(d, k, m, o, p, q, in) /\ Side(d, k, o, m, q, p, jn)
  BY DEF Both
<1>2. /\ IsMachine(r) /\ NothingKept(r)
      /\ r.match = p.match /\ ~r.fighting /\ r.frame = p.frame /\ r.heard = p.heard
      /\ r.wrong = p.wrong /\ ~r.leaving /\ r.reported = p.reported
  BY <1>1, CloseIs
<1>3. \A f : /\ Passed(p, q, f) <=> Passed(r, q, f)
             /\ Passed(q, p, f) <=> Passed(q, r, f)
  BY <1>2 DEF Passed
<1>4. \A f, v : /\ Kept(d, o, p, q, f, v) => Kept(d, o, r, q, f, v)
                /\ Kept(d, m, q, p, f, v) => Kept(d, m, q, r, f, v)
  BY <1>2, <1>3 DEF Kept
<1>5. Held(d, m, r) /\ Aged(r) /\ Overdue(r)
  BY <1>1, <1>2 DEF Side, Held, Aged, Overdue, NothingKept
<1>6. Towards(d, o, r, q, in)
  <2>1. Towards(d, o, p, q, in)
    BY <1>1 DEF Side
  <2> QED BY <1>2, <1>4, <2>1 DEF Towards, Hears, NothingKept
<1>7. Turn(k, r, in)
  BY <1>1, <1>2 DEF Side, Turn
<1>8. Compared(d, m, o, r, q) /\ OnItsWay(r, q, in)
  BY <1>2 DEF Compared, OnItsWay
<1>9. Verdict(d, r)
  BY <1>1, <1>2 DEF Side, Verdict
<1>10. Side(d, k, m, o, r, q, in)
  BY <1>5, <1>6, <1>7, <1>8, <1>9 DEF Side
<1>11. Towards(d, m, q, r, jn)
  <2>1. Towards(d, m, q, p, jn)
    BY <1>1 DEF Side
  <2> QED BY <1>2, <1>4, <2>1 DEF Towards, Hears
<1>12. Watchers = {} => Compared(d, o, m, q, r)
  BY <1>1, <1>3 DEF Side, Compared
<1>13. OnItsWay(q, r, jn)
  BY <1>2 DEF OnItsWay
<1>14. Side(d, k, o, m, q, r, jn)
  BY <1>1, <1>11, <1>12, <1>13 DEF Side
<1> QED BY <1>1, <1>2, <1>5, <1>10, <1>14 DEF Both

LEMMA CloseBattleStep ==
    ASSUME DInv, NEW m \in Machines, CloseBattle(m)
    PROVE  DInv'
<1> DEFINE r == Closed(machine[m])
<1>1. /\ machine[m].fighting /\ machine' = [machine EXCEPT ![m] = r]
      /\ inbox' = inbox /\ matches' = matches /\ diverged' = diverged
  BY DEF CloseBattle, Closed
<1>2. /\ TypeOK /\ machine = [x \in Machines |-> machine[x]] /\ matches \in Nat
      /\ \A x \in Machines : IsMachine(machine[x]) /\ inbox[x] \in Seq(Message)
      /\ inbox \in [Machines -> Seq(Message)]
  BY DEF DInv, TypeOK
<1>3. IsMachine(r)
  BY <1>2, CloseIs
<1> HIDE DEF r
<1>4. /\ machine' = [x \in Machines |-> machine'[x]] /\ machine'[m] = r
      /\ \A x \in Machines : x # m => machine'[x] = machine[x]
  BY <1>1, <1>2
<1>5. inbox' = [x \in Machines |-> inbox'[x]]
  BY <1>1, <1>2
<1>6. TypeOK'
  BY <1>1, <1>2, <1>3, <1>4, <1>5, TypesKept
<1>7. CASE m \notin Players
  <2>1. ASSUME NEW x \in Players
        PROVE  machine'[x] = machine[x] /\ machine'[Peer(x)] = machine[Peer(x)]
    BY <1>4, <1>7, TwoPlayers
  <2> QED BY <1>1, <1>6, <2>1 DEF DInv
<1>8. CASE m \in Players
  <2>1. Fought(m) /\ Overdue(machine[Peer(m)])
    BY <1>8, DInvFought
  <2>2. Peer(m) \in Machines /\ Peer(m) # m
    BY <1>8, TwoPlayers
  <2>3. /\ Both(diverged, matches, m, r, machine[Peer(m)], inbox[m], inbox[Peer(m)])
        /\ Overdue(r)
    BY <1>1, <1>2, <1>8, <2>1, Leaves DEF Fought, r
  <2>4. Fought(m)'
    <3>1. Both(diverged', matches', m, machine'[m], machine'[Peer(m)], inbox'[m], inbox'[Peer(m)])
      BY <1>1, <1>4, <2>2, <2>3
    <3> QED BY <3>1 DEF Fought
  <2>5. Overdue(machine[m])' /\ Overdue(machine[Peer(m)])'
    BY <1>4, <2>1, <2>2, <2>3
  <2> QED BY <1>6, <1>8, <2>4, <2>5, DInvNext
<1> QED BY <1>7, <1>8

(* The next match is announced.                                             *)
LEMMA Announced ==
    ASSUME NEW d, NEW k \in Nat, NEW m, NEW o, NEW p, NEW q, NEW in \in Seq(Message),
           Side(d, k, m, o, p, q, in), ~p.fighting, p.match = k,
           NEW msg \in Message, msg.type = "allready", msg.match = k + 1,
           NEW next, next = Append(in, msg)
    PROVE  Side(d, k + 1, m, o, p, q, next) /\ next \in Seq(Message)
<1>1. /\ next \in Seq(Message) /\ Len(in) \in Nat /\ DOMAIN in = 1 .. Len(in)
      /\ DOMAIN next = 1 .. Len(in) + 1 /\ next[Len(in) + 1] = msg
      /\ \A i \in 1 .. Len(in) : next[i] = in[i]
  OBVIOUS
<1>2. \A i \in DOMAIN in : in[i].type # "allready"
  BY DEF Side, Turn
<1>3. \A i \in DOMAIN next : \/ i \in DOMAIN in /\ next[i] = in[i]
                             \/ i = Len(in) + 1 /\ next[i] = msg
  BY <1>1
<1>4. \A i \in DOMAIN next : next[i].type = "allready" => i = Len(in) + 1 /\ next[i] = msg
  BY <1>2, <1>3
<1>5. ~FromPeer(msg)
  BY DEF FromPeer
<1>6. \A i \in DOMAIN next : FromPeer(next[i]) => i \in DOMAIN in /\ next[i] = in[i]
  BY <1>3, <1>5
<1>7. \A i, j \in DOMAIN next : next[i].type = "allready" /\ FromPeer(next[j]) => j < i
  BY <1>1, <1>4, <1>6
<1>8. Towards(d, o, p, q, next)
  <2>1. Towards(d, o, p, q, in)
    BY DEF Side
  <2> QED BY <1>6, <1>7, <2>1 DEF Towards
<1>9. Turn(k + 1, p, next)
  <2>1. Len(in) + 1 \in DOMAIN next /\ next[Len(in) + 1].type = "allready"
    BY <1>1
  <2>2. k + 1 - 1 = k
    OBVIOUS
  <2> QED BY <1>4, <2>1, <2>2 DEF Turn
<1>10. OnItsWay(p, q, next)
  BY DEF OnItsWay
<1> QED BY <1>1, <1>8, <1>9, <1>10 DEF Side

LEMMA AllReadyStep ==
    ASSUME DInv, AllReady
    PROVE  DInv'
<1> DEFINE msg == [type |-> "allready", match |-> matches + 1]
<1>1. /\ \A x \in Players : ~machine[x].fighting /\ machine[x].match = matches
      /\ matches' = matches + 1 /\ machine' = machine /\ diverged' = diverged
      /\ inbox' = [x \in Machines |-> Append(inbox[x], msg)]
  BY DEF AllReady
<1>2. /\ TypeOK /\ matches \in Nat
      /\ \A x \in Machines : inbox[x] \in Seq(Message)
  BY DEF DInv, TypeOK
<1>3. msg \in Message /\ msg.type = "allready" /\ msg.match = matches + 1
  BY <1>2 DEF Message
<1> HIDE DEF msg
<1>4. \A x \in Machines : inbox'[x] = Append(inbox[x], msg) /\ inbox'[x] \in Seq(Message)
  BY <1>1, <1>2, <1>3
<1>5. TypeOK'
  <2>1. inbox' \in [Machines -> Seq(Message)]
    BY <1>1, <1>4
  <2>2. /\ machine = [x \in Machines |-> machine[x]]
        /\ \A x \in Machines : IsMachine(machine[x])
        /\ diverged \in {None} \cup [who : Machines, match : Nat, from : Nat]
    BY <1>2 DEF TypeOK
  <2> QED BY <1>1, <1>2, <2>1, <2>2, TypesNext
<1>6. ASSUME NEW x \in Players
      PROVE  /\ Side(diverged, matches, x, Peer(x), machine[x], machine[Peer(x)], inbox[x])'
             /\ Overdue(machine[x])'
  <2>1. x \in Machines
    BY TwoPlayers
  <2>2. /\ Side(diverged, matches, x, Peer(x), machine[x], machine[Peer(x)], inbox[x])
        /\ Overdue(machine[x])
    BY DEF DInv
  <2>3. /\ inbox[x] \in Seq(Message) /\ inbox'[x] = Append(inbox[x], msg)
        /\ ~machine[x].fighting /\ machine[x].match = matches
    BY <1>1, <1>2, <1>4, <2>1
  <2>4. Side(diverged, matches + 1, x, Peer(x), machine[x], machine[Peer(x)], inbox'[x])
    BY <1>2, <1>3, <2>2, <2>3, Announced
  <2> QED BY <1>1, <2>2, <2>4
<1> QED BY <1>5, <1>6 DEF DInv

(* A simulation goes its own way.                                           *)
LEMMA DivergeStep ==
    ASSUME DInv, NEW m \in Machines, Diverge(m)
    PROVE  DInv'
<1> DEFINE d == [who |-> m, match |-> machine[m].match, from |-> machine[m].frame + 1]
<1>1. /\ diverged = None /\ diverged' = d
      /\ machine' = machine /\ inbox' = inbox /\ matches' = matches
  BY DEF Diverge
<1>2. TypeOK /\ IsMachine(machine[m]) /\ machine[m].frame \in Nat /\ machine[m].match \in Nat
  <2>1. TypeOK /\ IsMachine(machine[m])
    BY DEF DInv, TypeOK
  <2> QED BY <2>1, DesyncAssumption DEF IsMachine
<1>3. /\ d.who = m /\ d.match = machine[m].match /\ d.from = machine[m].frame + 1
      /\ d \in [who : Machines, match : Nat, from : Nat]
  BY <1>2
<1> HIDE DEF d
<1>4. TypeOK'
  <2>1. /\ machine = [x \in Machines |-> machine[x]]
        /\ \A x \in Machines : IsMachine(machine[x])
        /\ inbox \in [Machines -> Seq(Message)] /\ matches \in Nat
    BY <1>2 DEF TypeOK
  <2> QED BY <1>1, <1>3, <2>1, TypesNext
<1>5. \A x, k, f : ~Apart(None, x, k, f)
  BY DEF Apart
<1>6. \A k : ~Split(None) /\ ~SplitIn(None, k)
  BY DEF Split, SplitIn
<1>7. ASSUME NEW x \in Machines, NEW f \in Nat, f <= machine[x].frame
      PROVE  ~Apart(d, x, machine[x].match, f)
  BY <1>2, <1>3, <1>7 DEF Apart
<1>8. ASSUME NEW x \in Players
      PROVE  /\ Side(diverged, matches, x, Peer(x), machine[x], machine[Peer(x)], inbox[x])'
             /\ Overdue(machine[x])'
  <2> DEFINE o == Peer(x)
             p == machine[x]
             q == machine[o]
  <2>1. x \in Machines /\ o \in Machines
    BY TwoPlayers
  <2>2. Side(None, matches, x, o, p, q, inbox[x]) /\ Overdue(p)
    BY <1>1 DEF DInv
  <2>3. p.frame \in Nat /\ q.frame \in Nat /\ p.match \in Nat /\ q.match \in Nat
    BY <2>1, DesyncAssumption DEF DInv, TypeOK, IsMachine
  <2>4. \A f \in 1 .. p.frame : Now(d, x, p, f) = Now(None, x, p, f)
    BY <1>5, <1>7, <2>1, <2>3 DEF Now
  <2>5. \A f : Passed(p, q, f) => Truth(d, o, p.match, f) = Truth(None, o, p.match, f)
    <3> SUFFICES ASSUME NEW f, Passed(p, q, f)
                 PROVE  ~Apart(d, o, p.match, f)
      BY <1>5 DEF Truth
    <3>1. CASE q.match = p.match
      BY <1>7, <2>1, <3>1 DEF Passed
    <3>2. CASE q.match # p.match
      BY <1>3, <2>1, <2>3, <3>2 DEF Passed, Apart
    <3> QED BY <3>1, <3>2
  <2>6. \A f \in Taken(p) : Truth(d, x, p.match, f) = Truth(None, x, p.match, f)
    <3> SUFFICES ASSUME NEW f \in Taken(p) PROVE ~Apart(d, x, p.match, f)
      BY <1>5 DEF Truth
    <3> QED BY <1>7, <2>1, <2>3 DEF Taken
  <2>7. Held(d, x, p)
    BY <2>2, <2>3, <2>4 DEF Side, Held, Taken
  <2>8. Towards(d, o, p, q, inbox[x])
    <3>1. Towards(None, o, p, q, inbox[x])
      BY <2>2 DEF Side
    <3>2. \A f, v : Kept(None, o, p, q, f, v) => Kept(d, o, p, q, f, v)
      BY <2>5 DEF Kept
    <3> QED BY <3>1, <3>2 DEF Towards
  <2>9. Watchers = {} => Compared(d, x, o, p, q)
    <3>1. Watchers = {} => Compared(None, x, o, p, q)
      BY <2>2 DEF Side
    <3> QED BY <2>5, <2>6, <3>1 DEF Compared
  <2>10. Verdict(d, p)
    BY <1>6, <2>2 DEF Side, Verdict
  <2>11. Side(d, matches, x, o, p, q, inbox[x])
    BY <2>2, <2>7, <2>8, <2>9, <2>10 DEF Side
  <2> QED BY <1>1, <2>2, <2>11
<1> QED BY <1>4, <1>8 DEF DInv

(* Nothing has happened yet.                                                *)
LEMMA DInvInit ==
    ASSUME Init
    PROVE  DInv
<1>1. /\ Idle.match = 0 /\ Idle.fighting = FALSE /\ Idle.frame = 0 /\ Idle.heard = 0
      /\ Idle.wrong = None /\ Idle.snapshots = Empty /\ Idle.pending = Empty
      /\ Idle.checkpoints = Empty /\ Idle.hashes = Empty
      /\ Idle.leaving = FALSE /\ Idle.reported = FALSE
  BY DEF Idle
<1>2. IsMachine(Idle)
  <2>1. 0 \in 0 .. MaxFrames
    BY DesyncAssumption
  <2>2. MachineShape(Idle)
    BY DEF Idle, MachineShape
  <2>3. /\ Idle.match \in Nat /\ Idle.frame \in 0 .. MaxFrames
        /\ Idle.heard \in 0 .. MaxFrames /\ Idle.wrong \in 1 .. Idle.frame \cup {None}
        /\ Idle.fighting \in BOOLEAN /\ Idle.leaving \in BOOLEAN /\ Idle.reported \in BOOLEAN
    <3>1. Idle.match \in Nat /\ Idle.frame \in 0 .. MaxFrames /\ Idle.heard \in 0 .. MaxFrames
      BY <1>1, <2>1
    <3>2. Idle.wrong \in 1 .. Idle.frame \cup {None}
      BY <1>1
    <3>3. Idle.fighting \in BOOLEAN /\ Idle.leaving \in BOOLEAN /\ Idle.reported \in BOOLEAN
      BY <1>1, Zenon
    <3> QED BY <3>1, <3>2, <3>3
  <2>4. \A S : /\ IsMap(Idle.snapshots, S) /\ IsMap(Idle.pending, S)
               /\ IsMap(Idle.checkpoints, S) /\ IsMap(Idle.hashes, S)
    BY <1>1, EmptyMap
  <2> QED BY <2>2, <2>3, <2>4 DEF IsMachine, MachineShape
<1>3. /\ \A x \in Machines : machine[x] = Idle /\ inbox[x] = <<>>
      /\ matches = 0 /\ diverged = None
  BY DEF Init
<1>4. TypeOK
  <2>1. <<>> \in Seq(Message)
    OBVIOUS
  <2>2. machine = [x \in Machines |-> machine[x]] /\ inbox \in [Machines -> Seq(Message)]
    BY <2>1 DEF Init
  <2> QED BY <1>2, <1>3, <2>2 DEF TypeOK
<1>5. DOMAIN Empty = {} /\ Taken(Idle) = {} /\ DOMAIN <<>> = {}
  BY <1>1 DEF Empty, Taken
<1>6. ASSUME NEW x, NEW o
      PROVE  Side(None, 0, x, o, Idle, Idle, <<>>) /\ Overdue(Idle)
  <2>1. Held(None, x, Idle) /\ Aged(Idle) /\ Overdue(Idle)
    BY <1>1, <1>5 DEF Held, Aged, Overdue
  <2>2. Towards(None, o, Idle, Idle, <<>>)
    BY <1>1, <1>5 DEF Towards, Hears
  <2>3. Turn(0, Idle, <<>>)
    BY <1>1, <1>5 DEF Turn
  <2>4. Compared(None, x, o, Idle, Idle) /\ OnItsWay(Idle, Idle, <<>>) /\ Verdict(None, Idle)
    BY <1>1 DEF Compared, OnItsWay, Verdict
  <2> QED BY <2>1, <2>2, <2>3, <2>4 DEF Side
<1>7. \A x \in Players : x \in Machines /\ Peer(x) \in Machines
  BY TwoPlayers
<1> QED BY <1>3, <1>4, <1>6, <1>7 DEF DInv

----------------------------------------------------------------------------
(* The theorems.                                                            *)

LEMMA DInvStep ==
    ASSUME DInv, [Next]_vars
    PROVE  DInv'
<1>1. ASSUME NEW m \in Machines, NEW n \in 0 .. Len(inbox[m]), Tick(m, n)
      PROVE  DInv'
  <2>1. CASE m \in Players
    BY <1>1, <2>1, TickPlayer
  <2>2. CASE m \notin Players
    BY <1>1, <2>2, TickWatcher
  <2> QED BY <2>1, <2>2
<1>2. ASSUME NEW m \in Machines, CloseBattle(m)
      PROVE  DInv'
  BY <1>2, CloseBattleStep
<1>3. CASE AllReady
  BY <1>3, AllReadyStep
<1>4. ASSUME NEW m \in Machines, Diverge(m)
      PROVE  DInv'
  BY <1>4, DivergeStep
<1>5. CASE UNCHANGED vars
  <2>1. machine' = machine /\ inbox' = inbox /\ matches' = matches /\ diverged' = diverged
    BY <1>5 DEF vars
  <2>2. TypeOK'
    <3>1. /\ machine = [x \in Machines |-> machine[x]]
          /\ \A x \in Machines : IsMachine(machine[x])
          /\ inbox \in [Machines -> Seq(Message)] /\ matches \in Nat
          /\ diverged \in {None} \cup [who : Machines, match : Nat, from : Nat]
      BY DEF DInv, TypeOK
    <3> QED BY <2>1, <3>1, TypesNext
  <2> QED BY <2>1, <2>2 DEF DInv
<1> QED BY <1>1, <1>2, <1>3, <1>4, <1>5 DEF Next

LEMMA DInvAlways == Spec => []DInv
<1>1. Init => DInv
  BY DInvInit
<1>2. DInv /\ [Next]_vars => DInv'
  BY DInvStep
<1> QED BY <1>1, <1>2, PTL DEF Spec

(* A machine holds captures of frames of its match, has simulated no more   *)
(* frames than a match has, and is sent the three messages about them:      *)
(* whatever it captures, is sent, compares and erases.                      *)
THEOREM TypeCorrect == Spec => []TypeOK
<1>1. DInv => TypeOK
  BY DEF DInv
<1> QED BY <1>1, DInvAlways, PTL

(* No hash is reported unless a player's simulation diverged, with any      *)
(* spectators: what is compared is never a capture of a prediction that     *)
(* was rolled back, nor of the match before.                                *)
THEOREM HashesAreRight == Spec => []NoFalseReport
<1>1. DInv => NoFalseReport
  BY DEF DInv, Side, Verdict, Split, NoFalseReport, PlayerDiverged
<1> QED BY <1>1, DInvAlways, PTL

(* With no spectator in the room, no player ends a match over snapshots     *)
(* that both players' machines agree on.                                    *)
THEOREM SnapshotsAreRight ==
    ASSUME Watchers = {}
    PROVE  Spec => []NoFalseDesync
<1>1. DInv => NoFalseDesync
  BY DEF DInv, Side, Verdict, Split, SplitIn, NoFalseDesync, DivergedIn, PlayerDiverged
<1> QED BY <1>1, DInvAlways, PTL

(* With no spectator in the room, a player that is past the age of a frame  *)
(* the simulations differ at, and has been handed its peer's snapshot of    *)
(* it, is leaving the match: the two were compared, whichever came first.   *)
THEOREM DivergenceEndsTheMatch ==
    ASSUME Watchers = {}
    PROVE  Spec => []DivergenceCaught
<1>1. ASSUME DInv PROVE DivergenceCaught
  <2> SUFFICES ASSUME NEW m \in Players, NEW f \in 1 .. MaxFrames,
                      f % SnapshotInterval = 0,
                      machine[m].fighting, machine[Peer(m)].fighting,
                      machine[Peer(m)].match = machine[m].match,
                      DivergedIn(machine[m].match), f >= diverged.from,
                      machine[m].frame > f + SnapshotAge,
                      machine[Peer(m)].frame > f + SnapshotAge,
                      ~\E i \in DOMAIN inbox[m] :
                          inbox[m][i].type = "snapshot" /\ inbox[m][i].frame = f
               PROVE  machine[m].leaving
    BY DEF DivergenceCaught
  <2> DEFINE o == Peer(m)
             p == machine[m]
             q == machine[o]
  <2>1. /\ Side(diverged, matches, m, o, p, q, inbox[m])
        /\ Overdue(q) /\ o \in Players /\ IsMachine(p) /\ IsMachine(q)
    BY <1>1, TwoPlayers DEF DInv, TypeOK
  <2>2. f \in Taken(p) /\ f \in Taken(q)
    BY <2>1, DesyncAssumption DEF Taken, IsMachine
  <2>3. ~Unsent(q, f)
    BY <2>1, <2>2 DEF Overdue
  <2>4. ~Waits(p, f)
    BY <2>1, <2>2, <2>3 DEF Side, OnItsWay
  <2>5. Truth(diverged, m, p.match, f) # Truth(diverged, o, p.match, f)
    BY TruthsDiffer DEF DivergedIn, PlayerDiverged, SplitIn, Split
  <2> QED BY <2>1, <2>2, <2>4, <2>5 DEF Side, Compared
<1> QED BY <1>1, DInvAlways, PTL
=============================================================================
