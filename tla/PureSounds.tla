----------------------------- MODULE PureSounds -----------------------------
(***************************************************************************)
(* Sounds under rollback (sf4e__Game__Battle.cxx).  The simulation talks   *)
(* to a stub sound manager that has no players; only its metadata moves,   *)
(* so a frame can be simulated any number of times in silence.  SyncState  *)
(* makes the real manager, the one that is heard, follow the stub.         *)
(*                                                                         *)
(* The operators take and return a record with at least the fields         *)
(*   stub, real  adapter -> the request it serves (adapterToCurrentSound)  *)
(*   queue       the stops the stub was asked for (queuedStops)            *)
(*   started     the real players a sync (re)started                       *)
(* bUsePureSounds is TRUE, its only value outside the developer overlay.   *)
(***************************************************************************)
EXTENDS Naturals, Sequences, FiniteSets, SequencesExt

CONSTANTS Cues,           \* a cue with its sheet, type, flags and position
          Interruptible,  \* the cues that may take a busy player
          NumAdapters     \* the adapters of each manager

ASSUME SoundAssumption ==
    /\ Interruptible \subseteq Cues
    /\ NumAdapters \in Nat \ {0}

Adapters == 1 .. NumAdapters
NoAdapter == 0

\* A request whose metadata was reset: nothing is known of it.
Reset == [live |-> FALSE, cue |-> "none", frame |-> 0]

\* Factory builds the two managers and resets their metadata; the destructor
\* purges it, so a battle's adapters inherit no sound of the one before.
Silent == [a \in Adapters |-> Reset]

Live(players) == {a \in Adapters : players[a].live}
IsEqual(lhs, rhs) == lhs.cue = rhs.cue
Instance(request) == <<request.cue, request.frame>>

First(S) == CHOOSE a \in S : \A b \in S : a <= b
Oldest(players) ==
    CHOOSE a \in Live(players) :
        \A b \in Live(players) :
            \/ players[a].frame < players[b].frame
            \/ players[a].frame = players[b].frame /\ a <= b

\* The engine's own PlaySound: a free player, or the oldest one when the cue
\* may interrupt, or none.
EnginePlaySound(players, cue) ==
    LET idle == Adapters \ Live(players)
    IN  IF idle # {} THEN First(idle)
        ELSE IF cue \in Interruptible THEN Oldest(players)
        ELSE NoAdapter

----------------------------------------------------------------------------
(* The simulation's side: requests to the stub manager.                    *)

StopSound(s, a) ==
    LET stopped == [s.stub[a] EXCEPT !.live = FALSE]
    IN  [s EXCEPT !.stub[a] = stopped, !.queue = Append(@, stopped)]

\* When no player serves the request the oldest sound is stopped and the
\* request made again; a request that took a live adapter queues a stop of
\* the sound it interrupted.
PlaySound(s, cue, frame) ==
    LET busy == EnginePlaySound(s.stub, cue) = NoAdapter
        freed == IF busy THEN StopSound(s, Oldest(s.stub)) ELSE s
        a == EnginePlaySound(freed.stub, cue)
        queue == IF freed.stub[a].live
                 THEN Append(freed.queue, freed.stub[a])
                 ELSE freed.queue
    IN  [freed EXCEPT !.stub[a] = [live |-> TRUE, cue |-> cue, frame |-> frame],
                      !.queue = queue]

\* Pushes a stop for every adapter, the idle ones' last requests included.
StopAll(s) ==
    LET stopped == [a \in Adapters |-> [s.stub[a] EXCEPT !.live = FALSE]]
    IN  [s EXCEPT !.stub = stopped, !.queue = @ \o stopped]

----------------------------------------------------------------------------
(* SyncState, once before and once after each frame that is shown.         *)

\* Stops at most one playing sound: the very instance, by its start frame.
ApplyStop(players, stopped) ==
    LET hit == {a \in Live(players) : /\ IsEqual(stopped, players[a])
                                      /\ players[a].frame = stopped.frame}
    IN  IF hit = {} THEN players ELSE [players EXCEPT ![First(hit)].live = FALSE]

\* A defect: a sync stops only what the stub was asked to stop.
StopNoOthers(players, stub) == players

\* Stops what is playing and has no equal in the stub.
StopOthers(players, stub) ==
    [a \in Adapters |->
        IF \E b \in Live(stub) : IsEqual(stub[b], players[a])
        THEN players[a]
        ELSE [players[a] EXCEPT !.live = FALSE]]

\* Each live stub sound claims an equal player nobody claimed yet, or plays
\* on a new one, and its start frame is mirrored.  A player that is started
\* is not claimed.
Reconcile(r, wanted) ==
    LET same == {a \in Live(r.real) \ r.claimed : IsEqual(wanted, r.real[a])}
        busy == EnginePlaySound(r.real, wanted.cue) = NoAdapter
        room == IF busy THEN [r.real EXCEPT ![Oldest(r.real)].live = FALSE]
                ELSE r.real
        a == EnginePlaySound(room, wanted.cue)
    IN  IF same # {}
        THEN [r EXCEPT !.real[First(same)].frame = wanted.frame,
                       !.claimed = @ \cup {First(same)}]
        ELSE [r EXCEPT !.real = [room EXCEPT ![a] = wanted],
                       !.started = @ \cup {a}]

SyncState(s) ==
    LET stopped == StopOthers(FoldLeft(ApplyStop, s.real, s.queue), s.stub)
        wanted == SelectSeq(s.stub, LAMBDA request : request.live)
        synced == FoldLeft(Reconcile,
                           [real |-> stopped, claimed |-> {}, started |-> {}],
                           wanted)
    IN  [s EXCEPT !.real = synced.real, !.queue = <<>>,
                  !.started = synced.started]

=============================================================================
