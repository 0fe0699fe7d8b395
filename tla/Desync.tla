------------------------------- MODULE Desync -------------------------------
(***************************************************************************)
(* Desync detection over the session connection: every machine captures    *)
(* its state at some frames (CaptureSnapshot, CaptureHashCheckpoint),      *)
(* sends the captures that are old enough (SessionClient::Step) and        *)
(* compares those it is sent.  The server forwards them to everyone else.  *)
(*                                                                         *)
(* A captured value is <<match, kind>>: "right" when it comes from the     *)
(* inputs both players really gave, "wrong" when it comes from a           *)
(* prediction that will be corrected, and the machine's own name when its  *)
(* simulation has diverged.  GGPO is external: a player runs at most       *)
(* Prediction frames ahead of the inputs it has heard.                     *)
(***************************************************************************)
EXTENDS Integers, Sequences, FiniteSets

CONSTANTS Players,           \* the two machines that fight
          Watchers,          \* the spectators
          Prediction,
          SnapshotInterval, SnapshotAge,  \* 60 and 60 in the code
          HashInterval, HashAge,          \* 30 and 30
          NumCheckpoints,    \* 64
          MaxPendingHashes,  \* 64
          MaxFrames,         \* bound: the frames of a match
          MaxMatches,        \* bound
          None

ASSUME DesyncAssumption ==
    /\ IsFiniteSet(Players) /\ Cardinality(Players) = 2
    /\ Players \cap Watchers = {}
    /\ {"right", "wrong"} \cap (Players \cup Watchers) = {}
    /\ Prediction \in Nat /\ MaxFrames \in Nat
    /\ {SnapshotInterval, HashInterval, NumCheckpoints} \subseteq Nat \ {0}
    /\ {SnapshotAge, HashAge} \subseteq Nat
    /\ SnapshotAge > 2 * Prediction /\ HashAge > 2 * Prediction
    /\ NumCheckpoints * HashInterval > HashAge
    /\ None \notin Nat
    /\ None \notin [who : Players \cup Watchers, match : Nat, from : Nat]

VARIABLES machine,   \* what each machine keeps
          inbox,     \* what the server has forwarded to each, in order
          matches,   \* how many matches the server has announced
          diverged   \* the machine that diverged, in which match, from which frame

vars == <<machine, inbox, matches, diverged>>

Machines == Players \cup Watchers
Peer(m) == CHOOSE p \in Players : p # m

Empty == [f \in {} |-> None]
Put(map, f, value) ==
    [g \in DOMAIN map \cup {f} |-> IF g = f THEN value ELSE map[g]]
Drop(map, keys) == [f \in DOMAIN map \ keys |-> map[f]]

Idle == [match |-> 0, fighting |-> FALSE,
         frame |-> 0,        \* GetNumFramesSimulated
         heard |-> 0,        \* the frames of the peer whose inputs are known
         wrong |-> None,     \* the first frame simulated from a wrong prediction
         snapshots |-> Empty,   \* snapshotMap
         pending |-> Empty,     \* pendingRemoteSnapshots
         checkpoints |-> Empty, \* hashCheckpoints, by frame
         hashes |-> Empty,      \* pendingRemoteHashes
         leaving |-> FALSE,     \* RS_ISLEAVING
         reported |-> FALSE]    \* a hash mismatch was logged

Init ==
    /\ machine = [m \in Machines |-> Idle]
    /\ inbox = [m \in Machines |-> <<>>]
    /\ matches = 0
    /\ diverged = None

----------------------------------------------------------------------------
(* Captures.                                                               *)

\* A capture made again replaces the one before and starts over.
CaptureSnapshot(p, f, value) ==
    IF f % SnapshotInterval # 0 THEN p
    ELSE [p EXCEPT !.snapshots =
            Put(@, f, [value |-> value, sent |-> FALSE, confirmed |-> FALSE])]

\* The slot of a frame is its position in a ring; made again it keeps sent.
SameSlot(f) == {g \in 0 .. MaxFrames :
    (g \div HashInterval) % NumCheckpoints = (f \div HashInterval) % NumCheckpoints}

\* A defect: a frame captured again keeps the hash of its first simulation.
CaptureHashOnce(p, f, value) ==
    IF f % HashInterval # 0 \/ f \in DOMAIN p.checkpoints THEN p
    ELSE [p EXCEPT !.checkpoints =
            Put(Drop(@, SameSlot(f)), f, [value |-> value, sent |-> FALSE])]

CaptureHashCheckpoint(p, f, value) ==
    IF f % HashInterval # 0 THEN p
    ELSE LET sent == f \in DOMAIN p.checkpoints /\ p.checkpoints[f].sent
         IN  [p EXCEPT !.checkpoints =
                Put(Drop(@, SameSlot(f)), f, [value |-> value, sent |-> sent])]

ClearBattleState(p) ==
    [p EXCEPT !.snapshots = Empty, !.pending = Empty,
              !.checkpoints = Empty, !.hashes = Empty]

----------------------------------------------------------------------------
(* SessionClient::Step: the messages, then the reconciliation.             *)

\* A defect: what the last match left behind is still there in the next.
StartMatchUncleared(p, k) ==
    [p EXCEPT !.match = k, !.fighting = TRUE, !.frame = 0, !.heard = 0,
              !.wrong = None, !.leaving = FALSE]

\* MT_LOBBY_ALLREADY.
StartMatchFromLobby(p, k) ==
    [ClearBattleState(p) EXCEPT !.match = k, !.fighting = TRUE, !.frame = 0,
                                !.heard = 0, !.wrong = None, !.leaving = FALSE]

\* A defect: a snapshot not sent yet is confirmed before it is compared.
OnSnapshotUncompared(p, f, value) ==
    IF f \in DOMAIN p.snapshots
    THEN IF p.snapshots[f].sent
         THEN [p EXCEPT !.leaving = @ \/ value # p.snapshots[f].value,
                        !.snapshots = Drop(@, {f})]
         ELSE [p EXCEPT !.snapshots[f].confirmed = TRUE]
    ELSE IF f \in DOMAIN p.pending THEN p ELSE [p EXCEPT !.pending = Put(@, f, value)]

\* MT_BATTLE_SNAPSHOT: compared at once when this machine has the frame, and
\* kept otherwise; the first one kept for a frame stays.
OnSnapshot(p, f, value) ==
    IF f \in DOMAIN p.snapshots
    THEN [p EXCEPT !.leaving = @ \/ value # p.snapshots[f].value,
                   !.snapshots = IF p.snapshots[f].sent THEN Drop(@, {f})
                                 ELSE [@ EXCEPT ![f].confirmed = TRUE]]
    ELSE IF f \in DOMAIN p.pending THEN p ELSE [p EXCEPT !.pending = Put(@, f, value)]

\* MT_BATTLE_HASH: always kept; a full buffer loses its earliest frame.
OnHash(p, f, value) ==
    LET full == Cardinality(DOMAIN p.hashes) >= MaxPendingHashes
        earliest == {g \in DOMAIN p.hashes : \A h \in DOMAIN p.hashes : g <= h}
    IN  [p EXCEPT !.hashes = Put(Drop(@, IF full THEN earliest ELSE {}), f, value)]

Handle(p, msg) ==
    CASE msg.type = "allready" -> StartMatchFromLobby(p, msg.match)
      [] msg.type = "snapshot" -> OnSnapshot(p, msg.frame, msg.value)
      [] msg.type = "hash" -> OnHash(p, msg.frame, msg.value)

\* The frames of S one after the other, as a std::map holds them.
InOrder(S) ==
    LET upTo[f \in 0 .. MaxFrames] ==
            IF f = 0 THEN <<>>
            ELSE IF f \in S THEN Append(upTo[f - 1], f)
            ELSE upTo[f - 1]
    IN  upTo[MaxFrames]

\* Sends the aged snapshots, compares those a remote one waits for, and
\* erases what is both sent and compared.
ReconcileSnapshots(p) ==
    LET aged == {f \in DOMAIN p.snapshots : p.frame - f >= SnapshotAge}
        compared == {f \in aged \cap DOMAIN p.pending : ~p.snapshots[f].confirmed}
        done == {f \in aged : p.snapshots[f].confirmed} \cup compared
        sent(f) == p.snapshots[f].sent \/ f \in aged
    IN  [p EXCEPT !.leaving = @ \/ \E f \in compared :
                                    p.pending[f] # p.snapshots[f].value,
                  !.snapshots = [f \in DOMAIN @ \ done |->
                                    [@[f] EXCEPT !.sent = sent(f)]]]

ReconcileHashes(p, isPlayer) ==
    LET aged == {f \in DOMAIN p.checkpoints : p.frame - f >= HashAge}
        compared == aged \cap DOMAIN p.hashes
        sent(f) == p.checkpoints[f].sent \/ (f \in aged /\ isPlayer)
    IN  [p EXCEPT !.reported = @ \/ \E f \in compared :
                                    p.hashes[f] # p.checkpoints[f].value,
                  !.hashes = Drop(@, compared),
                  !.checkpoints = [f \in DOMAIN @ |->
                                    [@[f] EXCEPT !.sent = sent(f)]]]

\* What the two passes send.
Outgoing(p, isPlayer) ==
    LET snapshots == {f \in DOMAIN p.snapshots : /\ ~p.snapshots[f].sent
                                                 /\ p.frame - f >= SnapshotAge}
        hashes == {f \in DOMAIN p.checkpoints : /\ isPlayer
                                                /\ ~p.checkpoints[f].sent
                                                /\ p.frame - f >= HashAge}
        ofSnapshot(f) == [type |-> "snapshot", frame |-> f, value |-> p.snapshots[f].value]
        ofHash(f) == [type |-> "hash", frame |-> f, value |-> p.checkpoints[f].value]
    IN  [i \in DOMAIN InOrder(snapshots) |-> ofSnapshot(InOrder(snapshots)[i])]
        \o [i \in DOMAIN InOrder(hashes) |-> ofHash(InOrder(hashes)[i])]

----------------------------------------------------------------------------
(* A tick of the game: Step, ggpo_idle, BattleUpdate.                      *)

Value(m, p, f) ==
    <<p.match, IF diverged # None /\ diverged.who = m /\ diverged.match = p.match
                  /\ f >= diverged.from THEN m
               ELSE IF p.wrong # None /\ f >= p.wrong THEN "wrong" ELSE "right">>

Captured(m, p, f) ==
    CaptureHashCheckpoint(CaptureSnapshot(p, f, Value(m, p, f)), f, Value(m, p, f))

\* Captures the frames first .. p.frame as they are now.
Simulated(m, p, first) ==
    LET upTo[f \in first - 1 .. p.frame] ==
            IF f = first - 1 THEN p ELSE Captured(m, upTo[f - 1], f)
    IN  upTo[p.frame]

\* How many of the peer's frames can have been heard.
Reached(m, p) ==
    LET peer == machine[Peer(m)] IN IF peer.match = p.match THEN peer.frame ELSE 0

\* The player hears the peer's inputs up to frame h; the first frame that was
\* predicted wrong takes it back there.  Then it may simulate one more frame.
\* From frame w on what it has simulated is wrong, where h does not reach.
Heard(m, p, h, w) ==
    LET rolled == p.wrong # None /\ p.wrong <= h
        moves == ~p.leaving /\ p.frame < MaxFrames /\ p.frame - h < Prediction
        frame == IF moves THEN p.frame + 1 ELSE p.frame
        mispredicted == w \in h + 1 .. frame /\ (rolled \/ w > p.frame)
        q == [p EXCEPT !.heard = h, !.frame = frame,
                        !.wrong = IF p.wrong # None /\ ~rolled THEN p.wrong
                                  ELSE IF mispredicted THEN w ELSE None]
    IN  Simulated(m, q, IF rolled THEN p.wrong ELSE p.frame + 1)

PlayerFrames(m, p) ==
    {Heard(m, p, h, w) : h \in p.heard .. Reached(m, p), w \in 1 .. MaxFrames}

\* A spectator is sent the inputs both players have given.
WatcherFrames(m, p) ==
    LET given == \A pl \in Players :
            \/ machine[pl].match > p.match
            \/ machine[pl].match = p.match /\ p.frame < machine[pl].heard
        q == [p EXCEPT !.frame = @ + 1]
    IN  IF given /\ p.frame < MaxFrames /\ ~p.leaving
        THEN {p, Simulated(m, q, q.frame)} ELSE {p}

Frames(m, p) == IF ~p.fighting THEN {p}
                ELSE IF m \in Players THEN PlayerFrames(m, p) ELSE WatcherFrames(m, p)

\* The machine after the first n messages.
Received(p, messages, n) ==
    LET upTo[i \in 0 .. n] ==
            IF i = 0 THEN p ELSE Handle(upTo[i - 1], messages[i])
    IN  upTo[n]

\* n messages have arrived.  The server forwards what is sent to all others.
Tick(m, n) ==
    LET isPlayer == m \in Players
        received == Received(machine[m], inbox[m], n)
        stepped == ReconcileHashes(ReconcileSnapshots(received), isPlayer)
        sent == Outgoing(received, isPlayer)
    IN  /\ \E p \in Frames(m, stepped) : machine' = [machine EXCEPT ![m] = p]
        /\ inbox' = [o \in Machines |->
                        IF o = m THEN SubSeq(inbox[m], n + 1, Len(inbox[m]))
                        ELSE inbox[o] \o sent]
        /\ UNCHANGED <<matches, diverged>>

\* The battle is over, or one of the players has left it.
CloseBattle(m) ==
    LET p == machine[m]
    IN  /\ p.fighting
        /\ \/ p.frame = MaxFrames
           \/ p.leaving
           \/ \E pl \in Players : /\ machine[pl].match = p.match
                                  /\ ~machine[pl].fighting
                                  /\ machine[pl].frame < MaxFrames
        /\ machine' = [machine EXCEPT ![m] =
                        [ClearBattleState(p) EXCEPT !.fighting = FALSE,
                                                    !.leaving = FALSE]]
        /\ UNCHANGED <<inbox, matches, diverged>>

\* Both players are back in the lobby and ready.
AllReady ==
    /\ matches < MaxMatches
    /\ \A p \in Players : ~machine[p].fighting /\ machine[p].match = matches
    /\ matches' = matches + 1
    /\ inbox' = [m \in Machines |->
                    Append(inbox[m], [type |-> "allready", match |-> matches + 1])]
    /\ UNCHANGED <<machine, diverged>>

\* A machine's simulation goes its own way from its next frame on.
Diverge(m) ==
    /\ diverged = None
    /\ machine[m].fighting
    /\ diverged' = [who |-> m, match |-> machine[m].match, from |-> machine[m].frame + 1]
    /\ UNCHANGED <<machine, inbox, matches>>

Next ==
    \/ \E m \in Machines : \E n \in 0 .. Len(inbox[m]) : Tick(m, n)
    \/ \E m \in Machines : CloseBattle(m)
    \/ AllReady
    \/ \E m \in Machines : Diverge(m)

Spec == Init /\ [][Next]_vars

----------------------------------------------------------------------------
(* Properties.                                                             *)

Frame == 1 .. MaxFrames
Capture == Nat \X ({"right", "wrong"} \cup Machines)
Message == [type : {"allready"}, match : Nat] \cup
           [type : {"snapshot", "hash"}, frame : Frame, value : Capture]

IsMap(map, S) == DOMAIN map \subseteq Frame /\ map \in [DOMAIN map -> S]

IsMachine(p) ==
    /\ p = [match |-> p.match, fighting |-> p.fighting, frame |-> p.frame,
            heard |-> p.heard, wrong |-> p.wrong, snapshots |-> p.snapshots,
            pending |-> p.pending, checkpoints |-> p.checkpoints,
            hashes |-> p.hashes, leaving |-> p.leaving, reported |-> p.reported]
    /\ p.match \in Nat /\ p.frame \in 0 .. MaxFrames /\ p.heard \in 0 .. MaxFrames
    /\ p.wrong \in 1 .. p.frame \cup {None}
    /\ p.fighting \in BOOLEAN /\ p.leaving \in BOOLEAN /\ p.reported \in BOOLEAN
    /\ IsMap(p.snapshots, [value : Capture, sent : BOOLEAN, confirmed : BOOLEAN])
    /\ IsMap(p.checkpoints, [value : Capture, sent : BOOLEAN])
    /\ IsMap(p.pending, Capture) /\ IsMap(p.hashes, Capture)

\* A machine holds captures of frames of a match, and is sent the three
\* messages that are about them.
TypeOK ==
    /\ machine = [m \in Machines |-> machine[m]]
    /\ \A m \in Machines : IsMachine(machine[m])
    /\ inbox \in [Machines -> Seq(Message)]
    /\ matches \in Nat
    /\ diverged \in {None} \cup [who : Machines, match : Nat, from : Nat]

PlayerDiverged == diverged # None /\ diverged.who \in Players
DivergedIn(k) == PlayerDiverged /\ diverged.match = k

\* The snapshots end a match only when the simulation of one of its players
\* really diverged: neither a capture that a rollback will correct, nor one of
\* the match before, nor that of a spectator ends it.
NoFalseDesync ==
    \A m \in Players : machine[m].leaving => DivergedIn(machine[m].match)

\* The hash checkpoints, which are only reported, never accuse players that
\* agree: none is compared while it may still change.
NoFalseReport ==
    \A m \in Players : machine[m].reported => PlayerDiverged

\* A divergence is caught: a player whose peer's aged snapshot has arrived is
\* leaving when the two differ.
DivergenceCaught ==
    \A m \in Players : \A f \in 1 .. MaxFrames :
        LET p == machine[m]
            peer == machine[Peer(m)]
        IN  /\ f % SnapshotInterval = 0
            /\ p.fighting /\ peer.fighting /\ peer.match = p.match
            /\ DivergedIn(p.match) /\ f >= diverged.from
            /\ p.frame > f + SnapshotAge /\ peer.frame > f + SnapshotAge
            /\ ~\E i \in DOMAIN inbox[m] :
                    inbox[m][i].type = "snapshot" /\ inbox[m][i].frame = f
            => p.leaving
=============================================================================
