----------------------------- MODULE SaveStates -----------------------------
(***************************************************************************)
(* The save states of a battle (SaveState in                               *)
(* sf4e__Game__Battle__System.cxx, the tracked keys of sf4e__Game.cxx).    *)
(*                                                                         *)
(* The engine records an object into a buffer its memento key owns, and    *)
(* frees that buffer when the key is initialized again or cleared.  A save *)
(* state takes the buffers over by copying the keys and zeroing them.      *)
(*                                                                         *)
(* A battle is a record.  What is simulated:                               *)
(*   live     object -> the history of inputs its contents come from      *)
(*   globals  the same for the battle flow and the game manager            *)
(*   handles  the units whose handle points to their task in the core      *)
(* The memory:                                                             *)
(*   key      object -> the buffer of its key, or None for a zeroed key    *)
(*   tracked  the keys initialized and not cleared by the engine           *)
(*   heap     buffer -> its contents, for the buffers not freed            *)
(*   slots    the array saveStates                                         *)
(* and the fields PureSounds needs.                                        *)
(***************************************************************************)
EXTENDS PureSounds

CONSTANTS Tasks,      \* units that come and go, each with a task of its own
          Prediction, \* GGPO_MAX_PREDICTION_FRAMES
          Garbage,    \* what is read through a buffer that was freed
          None

ASSUME SaveStatesAssumption ==
    /\ IsFiniteSet(Tasks) /\ "unit" \notin Tasks
    /\ Prediction \in Nat
    /\ None \notin (Tasks \cup {"unit"}) \X Nat

NUM_SAVE_STATES == Prediction + 2

Unit == "unit"                      \* an object that is there all along
Objects == {Unit} \cup Tasks
TrainingTask == "HUD TRAINING"

\* The objects that exist after a history: an input <<"task", t>> starts the
\* task t or ends it.
Exist(history) ==
    {Unit} \cup {t \in Tasks : /\ history # Garbage
                               /\ Cardinality({n \in DOMAIN history :
                                                 history[n] = <<"task", t>>}) % 2 = 1}

Unused == [used |-> FALSE, keys |-> <<>>, globals |-> None, stub |-> Silent]

NewBattle ==
    [live |-> [k \in {Unit} |-> <<>>], globals |-> <<>>, handles |-> {},
     key |-> [k \in Objects |-> None], tracked |-> {}, heap |-> <<>>,
     slots |-> [i \in 1 .. NUM_SAVE_STATES |-> Unused],
     stub |-> Silent, real |-> Silent, queue |-> <<>>, started |-> {}]

Without(heap, buffers) ==
    [b \in DOMAIN heap \ buffers |-> heap[b]]

\* The function f where it is defined, else g.
Over(f, g) ==
    [k \in DOMAIN f \cup DOMAIN g |-> IF k \in DOMAIN f THEN f[k] ELSE g[k]]

----------------------------------------------------------------------------
(* The engine's mementos.                                                  *)

\* Initializes the key of every object and records the object into it.
RecordAllToInternalMementos(m) ==
    LET objects == DOMAIN m.live
        heap == Without(m.heap, {m.key[k] : k \in objects})
        fresh == [k \in objects |->
                    <<k, CHOOSE n \in 0 .. Cardinality(DOMAIN heap) :
                            <<k, n>> \notin DOMAIN heap>>]
    IN  [m EXCEPT !.heap = Over(heap, [b \in {fresh[k] : k \in objects} |-> m.live[b[1]]]),
                  !.key = Over(fresh, @),
                  !.tracked = @ \cup objects]

\* Restores each object from its key.  The tasks come back with the unit; each
\* handle is nulled and found again by the name of its task, all but one.
RestoreAllFromInternalMementos(m) ==
    LET read(k) == IF m.key[k] \in DOMAIN m.heap THEN m.heap[m.key[k]]
                   ELSE IF m.key[k] = None /\ k \in DOMAIN m.live THEN m.live[k]
                   ELSE Garbage
        there == Exist(read(Unit))
    IN  [m EXCEPT !.live = [k \in there |-> read(k)],
                  !.handles = there \ {Unit, TrainingTask}]

ZeroKeys(m, keys) ==
    [m EXCEPT !.key = [k \in Objects |-> IF k \in keys THEN None ELSE @[k]]]

\* The engine clears the keys of the objects it destroys; the detour forgets
\* them.
ClearKey(m, gone) ==
    ZeroKeys([m EXCEPT !.heap = Without(@, {m.key[k] : k \in gone}),
                       !.tracked = @ \ gone], gone)

----------------------------------------------------------------------------
(* SaveState.                                                              *)

Copied(m) == [used |-> TRUE, keys |-> [k \in m.tracked |-> m.key[k]],
              globals |-> m.globals, stub |-> m.stub]

\* A defect: Save leaves the buffers in the keys it copied.
SaveUnzeroed(m) ==
    LET recorded == RecordAllToInternalMementos(m)
    IN  [battle |-> recorded, state |-> Copied(recorded)]

\* The battle after Save, and the state that was saved.
Save(m) ==
    LET recorded == RecordAllToInternalMementos(m)
    IN  [battle |-> ZeroKeys(recorded, recorded.tracked),
         state |-> Copied(recorded)]

\* A defect: the battle flow and the game manager are not put back.
CopyKeysIntoPlace(m, src) ==
    RestoreAllFromInternalMementos(
        [m EXCEPT !.stub = src.stub, !.key = Over(src.keys, @)])

CopyIntoPlace(m, src) ==
    RestoreAllFromInternalMementos(
        [m EXCEPT !.globals = src.globals, !.stub = src.stub,
                  !.key = Over(src.keys, @)])

\* Frees the buffers of the keys in place, which are the victim's.
ClearKeys(m, victim) ==
    ZeroKeys([m EXCEPT !.heap = Without(@, {m.key[k] : k \in DOMAIN victim.keys})],
             DOMAIN victim.keys)

\* A defect: Free leaves the slot marked as used.
FreeKeepsUsed(m, i) ==
    LET tmp == Save(m)
        victim == m.slots[i]
        cleared == ClearKeys(CopyIntoPlace(tmp.battle, victim), victim)
    IN  CopyIntoPlace([cleared EXCEPT !.slots[i].keys = <<>>], tmp.state)

\* The state of the moment is put aside, the victim installed and cleared,
\* and the state of the moment put back: its buffers stay in the live keys.
Free(m, i) ==
    LET tmp == Save(m)
        victim == m.slots[i]
        cleared == ClearKeys(CopyIntoPlace(tmp.battle, victim), victim)
    IN  CopyIntoPlace([cleared EXCEPT !.slots[i] = Unused], tmp.state)

\* A defect: Load keeps the stops of the timeline it abandons.
LoadKeepsStops(m, i) ==
    LET src == m.slots[i]
        placed == CopyIntoPlace(ZeroKeys(m, m.tracked), src)
    IN  [ZeroKeys(placed, DOMAIN src.keys)
            EXCEPT !.key = Over([k \in m.tracked |-> m.key[k]], @)]

\* The stops queued by the abandoned frames are dropped; the tracked keys are
\* set aside so that the restored state does not end up owned twice.
Load(m, i) ==
    LET src == m.slots[i]
        aside == [m EXCEPT !.queue = <<>>]
        placed == CopyIntoPlace(ZeroKeys(aside, m.tracked), src)
    IN  [ZeroKeys(placed, DOMAIN src.keys)
            EXCEPT !.key = Over([k \in m.tracked |-> m.key[k]], @)]

SaveInto(m, i) ==
    LET saved == Save(m) IN [saved.battle EXCEPT !.slots[i] = saved.state]

UsedSlots(m) == {i \in DOMAIN m.slots : m.slots[i].used}
FreeSlots(m) == DOMAIN m.slots \ UsedSlots(m)

\* A loop that frees one slot after the other; None stands for a pass that
\* finds nothing to free.
FreeEach(m, todo) ==
    LET freed[n \in 0 .. Len(todo)] ==
            IF n = 0 THEN m
            ELSE IF todo[n] = None THEN freed[n - 1]
            ELSE Free(freed[n - 1], todo[n])
    IN  freed[Len(todo)]

\* CloseBattle: whatever slot is still in use is freed.
FreeEverySlot(m) ==
    FreeEach(m, [i \in 1 .. NUM_SAVE_STATES |-> IF i \in UsedSlots(m) THEN i ELSE None])

----------------------------------------------------------------------------
(* Simulating a frame: one input of each kind.                             *)

Sounded(m, input, frame) ==
    CASE input[1] = "play" -> PlaySound(m, input[2], frame)
      [] input[1] = "stop" /\ input[2] \in Live(m.stub) -> StopSound(m, input[2])
      [] input[1] = "hush" -> StopAll(m)
      [] OTHER -> m

EngineBattleUpdate(m, input) ==
    LET history == Append(m.globals, input)
        there == Exist(history)
        gone == DOMAIN m.live \ there
        sounded == Sounded(m, input, Len(m.globals))
        cleared == ClearKey(sounded, gone)
        next(k) == IF k \notin DOMAIN m.live THEN history
                   ELSE IF m.live[k] = Garbage THEN Garbage
                   ELSE Append(m.live[k], input)
    IN  [cleared EXCEPT !.globals = history,
                        !.live = [k \in there |-> next(k)],
                        !.handles = (m.handles \cup (there \ DOMAIN m.live))
                                    \ ({Unit} \cup gone)]

=============================================================================
