------------------------------ MODULE Rollback ------------------------------
(***************************************************************************)
(* A battle on one machine: the frames it simulates, GGPO's rollbacks and  *)
(* the training mode's save and load, over the save states and the sounds. *)
(*                                                                         *)
(* GGPO itself is external.  Its synchronization layer keeps a ring of     *)
(* saved frames; it frees the buffer in the ring position it saves to, and *)
(* loads the last frame known good when a prediction was wrong.            *)
(***************************************************************************)
EXTENDS SaveStates

CONSTANTS Inputs,     \* what a frame may do, the two players' inputs together
          MaxFrames,  \* bound: the frames of a fight
          MaxTraining \* bound: the frames of a training battle

ASSUME RollbackAssumption ==
    /\ Garbage \notin Seq(Inputs)
    /\ None \notin [frame : Nat, slot : 1 .. NUM_SAVE_STATES]
    /\ None \notin 1 .. NUM_SAVE_STATES
    /\ MaxFrames \in Nat

VARIABLES battle,     \* the record of SaveStates
          ggpo,       \* GGPO's synchronization layer
          phase       \* "fight", "rollback", "training", "closed", "aborted"

vars == <<battle, ggpo, phase>>

Ring == 0 .. Prediction + 1

NewSession == [ring |-> [p \in Ring |-> None], head |-> 0, frame |-> 0,
               unsure |-> 0,    \* the first frame whose input may change
               target |-> 0]    \* the frame a rollback has to get back to

Init ==
    /\ battle = NewBattle
    /\ ggpo = NewSession
    /\ phase \in {"fight", "training"}

Session == [battle |-> battle, ggpo |-> ggpo, phase |-> phase]

Becomes(s) == /\ battle' = s.battle /\ ggpo' = s.ggpo /\ phase' = s.phase

----------------------------------------------------------------------------
(* GGPO's calls and the callbacks that serve them.                         *)

\* The first unused slot; with none the match is aborted.
ggpo_save_game_state_callback(s) ==
    LET free == FreeSlots(s.battle)
        i == First(free)
    IN  IF free = {} THEN [s EXCEPT !.phase = "aborted"]
        ELSE [s EXCEPT !.battle = SaveInto(s.battle, i),
                       !.ggpo.ring[s.ggpo.head] = [frame |-> s.ggpo.frame, slot |-> i]]

ggpo_free_buffer(s, saved) ==
    IF saved = None THEN s ELSE [s EXCEPT !.battle = Free(s.battle, saved.slot)]

SaveCurrentFrame(s) ==
    LET freed == ggpo_free_buffer(s, s.ggpo.ring[s.ggpo.head])
        saved == ggpo_save_game_state_callback(
                    [freed EXCEPT !.ggpo.ring[s.ggpo.head] = None])
    IN  [saved EXCEPT !.ggpo.head = (@ + 1) % (Prediction + 2)]

ggpo_advance_frame(s) == SaveCurrentFrame([s EXCEPT !.ggpo.frame = @ + 1])

ggpo_add_local_input(s) ==
    IF s.ggpo.frame = 0 /\ s.ggpo.ring[0] = None THEN SaveCurrentFrame(s) ELSE s

ggpo_close_session(s) ==
    LET slotAt(p) == IF s.ggpo.ring[p] = None THEN None ELSE s.ggpo.ring[p].slot
    IN  [s EXCEPT !.battle = FreeEach(@, [n \in 1 .. Prediction + 2 |-> slotAt(n - 1)]),
                  !.ggpo = NewSession]

----------------------------------------------------------------------------
(* Steps of the game's thread.                                             *)

\* A frame is shown: the sounds are synchronized before and after it.
BattleUpdate(input) ==
    /\ phase = "fight"
    /\ ggpo.frame < MaxFrames
    /\ ggpo.frame - ggpo.unsure < Prediction
    /\ LET added == ggpo_add_local_input(Session)
           updated == EngineBattleUpdate(SyncState(added.battle), input)
           advanced == ggpo_advance_frame([added EXCEPT !.battle = updated])
       IN  Becomes([advanced EXCEPT !.battle = SyncState(@)])

\* The remote input a frame was predicted with turns out right.
PredictionHolds ==
    /\ phase = "fight"
    /\ ggpo.unsure < ggpo.frame
    /\ ggpo' = [ggpo EXCEPT !.unsure = @ + 1]
    /\ UNCHANGED <<battle, phase>>

\* It turns out wrong: GGPO loads the frame and will simulate up to the
\* present one again.
ggpo_load_game_state_callback(p) ==
    /\ phase = "fight"
    /\ ggpo.ring[p] # None
    /\ ggpo.ring[p].frame \in ggpo.unsure .. ggpo.frame - 1
    /\ battle' = Load(battle, ggpo.ring[p].slot)
    /\ ggpo' = [ggpo EXCEPT !.head = (p + 1) % (Prediction + 2),
                            !.frame = ggpo.ring[p].frame,
                            !.unsure = ggpo.ring[p].frame + 1,
                            !.target = ggpo.frame]
    /\ phase' = "rollback"

\* One frame again, in silence.
ggpo_advance_frame_callback(input) ==
    /\ phase = "rollback"
    /\ LET updated == EngineBattleUpdate(battle, input)
           advanced == ggpo_advance_frame([Session EXCEPT !.battle = updated])
       IN  Becomes([advanced EXCEPT !.phase =
                        IF @ = "rollback" /\ advanced.ggpo.frame = ggpo.target
                        THEN "fight" ELSE @])

\* Training mode: the requests of the developer overlay are served at the
\* start of a frame, the load first, in slot 1.
SysMain_HandleTrainingModeFeatures(m, load, save) ==
    LET loaded == IF load /\ m.slots[1].used THEN Load(m, 1) ELSE m
        freed == IF loaded.slots[1].used THEN Free(loaded, 1) ELSE loaded
    IN  IF save THEN SaveInto(freed, 1) ELSE loaded

OfflineUpdate(load, save, input) ==
    /\ phase = "training"
    /\ LET served == SysMain_HandleTrainingModeFeatures(SyncState(battle), load, save)
       IN  /\ Len(served.globals) < MaxTraining
           /\ battle' = EngineBattleUpdate(served, input)
    /\ UNCHANGED <<ggpo, phase>>

\* The session is closed, the slots still used are freed, then the engine
\* clears its keys and destroys the sound managers.
CloseBattle ==
    /\ phase \in {"fight", "training"}
    /\ LET freed == FreeEverySlot(ggpo_close_session(Session).battle)
           ended == ClearKey(freed, DOMAIN freed.live)
       IN  battle' = [ended EXCEPT !.stub = Silent, !.real = Silent,
                                   !.queue = <<>>, !.started = {}]
    /\ ggpo' = NewSession
    /\ phase' = "closed"

Next ==
    \/ \E i \in Inputs : BattleUpdate(i)
    \/ PredictionHolds
    \/ \E p \in Ring : ggpo_load_game_state_callback(p)
    \/ \E i \in Inputs : ggpo_advance_frame_callback(i)
    \/ \E load, save \in BOOLEAN, i \in Inputs : OfflineUpdate(load, save, i)
    \/ CloseBattle

Spec == Init /\ [][Next]_vars

----------------------------------------------------------------------------
(* Properties.                                                             *)

\* Slots and live keys hold buffers of their own object, handles belong to
\* tasks, and a ring position names a slot.
TypeOK ==
    /\ battle.tracked \subseteq Objects
    /\ battle.handles \subseteq Tasks
    /\ battle.key \in [Objects -> DOMAIN battle.heap \cup {None}]
    /\ \A k \in Objects : battle.key[k] # None => battle.key[k][1] = k
    /\ DOMAIN battle.slots = 1 .. NUM_SAVE_STATES
    /\ \A p \in Ring : ggpo.ring[p] # None =>
            /\ ggpo.ring[p].slot \in 1 .. NUM_SAVE_STATES
            /\ battle.slots[ggpo.ring[p].slot].used
    /\ ggpo.frame \in 0 .. MaxFrames
    /\ phase \in {"fight", "rollback", "training", "closed", "aborted"}

\* The live keys, as an owner of buffers beside the slots.
Here == 0

\* The buffers of the used slots and of the live keys: each is allocated, is
\* owned by one of them only, and none is lost.  This is what zeroing the
\* keys in Save and in Load, and the round trip of Free, are for.
BuffersOwnedOnce ==
    LET keysOf(o) == IF o = Here THEN battle.key ELSE battle.slots[o].keys
        kept == {o \in ({Here} \cup UsedSlots(battle)) \X Objects :
                    o[2] \in DOMAIN keysOf(o[1]) /\ keysOf(o[1])[o[2]] # None}
    IN  /\ DOMAIN battle.heap = {keysOf(o[1])[o[2]] : o \in kept}
        /\ \A o, q \in kept : keysOf(o[1])[o[2]] = keysOf(q[1])[q[2]] => o = q

\* GGPO's rollbacks never find every slot in use: it frees a position of its
\* ring before it saves to it, and there is a slot for each position.
NeverFull == phase # "aborted"

\* The history the whole live state comes from.
History ==
    IF /\ \A k \in DOMAIN battle.live : battle.live[k] = battle.globals
       /\ DOMAIN battle.live = Exist(battle.globals)
    THEN battle.globals
    ELSE Garbage

\* Saving, loading and freeing implement the timeline: the live state is
\* always that of the inputs simulated, as many as GGPO counts frames, and a
\* load gives back exactly what the frame had.
Now == IF phase \in {"fight", "rollback"} THEN ggpo.frame ELSE Len(battle.globals)

ReplaysExactly == INSTANCE Timeline WITH state <- History, now <- Now
FollowsTimeline == ReplaysExactly!Spec

CuesOf(players) == {players[a].cue : a \in Live(players)}

\* The sounds the simulation has and that are not heard under the same start
\* frame.
Missing ==
    LET heard == {Instance(battle.real[a]) : a \in Live(battle.real)}
    IN  {a \in Live(battle.stub) : Instance(battle.stub[a]) \notin heard}

\* There is a player for each sound that is heard or has to be.  A real manager
\* filled up with sounds of abandoned timelines (NothingOrphaned) takes one in
\* use instead, the oldest.
PlayersEnough ==
    Cardinality(Live(battle.real)) + Cardinality(Missing) <= NumAdapters

\* Whatever was rolled back, one sync makes the cues that are heard those the
\* simulation wants heard.
CuesFollow ==
    phase \in {"fight", "training"} /\ PlayersEnough =>
        LET synced == SyncState(battle)
        IN  CuesOf(synced.real) = CuesOf(battle.stub)

\* A sound that plays and that the simulation, corrected or not, still has
\* under the same start frame plays on: no stop of an abandoned frame and no
\* stop applied twice makes a sync cut it and start it again.
SurvivorsPlayOn ==
    LET synced == SyncState(battle)
        survive == {Instance(battle.stub[a]) : a \in Live(battle.stub) \ Missing}
        playOn(c) == {a \in Live(synced.real) \ synced.started :
                            synced.real[a].cue = c}
    IN  phase \in {"fight", "training"} /\ PlayersEnough
        => \A c \in Cues :
                Cardinality(playOn(c)) >= Cardinality({s \in survive : s[1] = c})

\* A sound that died with an abandoned timeline is not heard any more.
NothingOrphaned ==
    phase \in {"fight", "training"} =>
        LET synced == SyncState(battle)
            players(p, c) == Cardinality({a \in Live(p) : p[a].cue = c})
        IN  \A c \in Cues : players(synced.real, c) <= players(battle.stub, c)
=============================================================================
