--------------------------- MODULE RollbackProofs ---------------------------
(***************************************************************************)
(* Proofs about Rollback, for any prediction window, any tasks, any cues   *)
(* and inputs, and fights of any length: no rollback finds every save      *)
(* state in use, every memento buffer has one owner, and the live state is *)
(* always that of the inputs simulated.                                    *)
(*                                                                         *)
(* The proofs follow the calls: what recording, restoring, Save, Load and  *)
(* Free do to the memory (Memory), then what GGPO's calls do to the ring   *)
(* (InStep), then one lemma per step of the game's thread.                 *)
(***************************************************************************)
EXTENDS Rollback, SequenceTheorems, FiniteSetTheorems, WellFoundedInduction, TLAPS

(* What a set of keys holds, and the buffers in it: a key is zeroed (None)  *)
(* or holds a buffer of its own object.                                     *)
InKeys(keys) == {keys[k] : k \in DOMAIN keys}

Bufs(keys) == InKeys(keys) \ {None}

KeysOK(keys) ==
    /\ DOMAIN keys \subseteq Objects
    /\ \A k \in DOMAIN keys : keys[k] # None => keys[k] \in {k} \X Nat

(* A record with the fields of a battle, and functions on their domains.    *)
IsBattle(m) ==
    m = [live |-> m.live, globals |-> m.globals, handles |-> m.handles,
         key |-> m.key, tracked |-> m.tracked, heap |-> m.heap,
         slots |-> m.slots, stub |-> m.stub, real |-> m.real,
         queue |-> m.queue, started |-> m.started]

(* A live state that comes from the history h alone.                        *)
AllFrom(h) == [k \in Exist(h) |-> h]

IsKeys(keys) == keys = [k \in Objects |-> keys[k]]

IsArray(slots) == slots = [i \in 1 .. NUM_SAVE_STATES |-> slots[i]]

NoKeys == [k \in Objects |-> None]

(* Used slots and live keys share no buffer, every buffer they hold is      *)
(* allocated and every allocated buffer is held.                            *)
OwnedOnce(m) ==
    /\ \A i \in UsedSlots(m) : Bufs(m.slots[i].keys) \cap Bufs(m.key) = {}
    /\ \A i, j \in UsedSlots(m) :
            i # j => Bufs(m.slots[i].keys) \cap Bufs(m.slots[j].keys) = {}
    /\ \A b \in Bufs(m.key) : b \in DOMAIN m.heap
    /\ \A i \in UsedSlots(m) : \A b \in Bufs(m.slots[i].keys) : b \in DOMAIN m.heap
    /\ \A b \in DOMAIN m.heap :
            b \in Bufs(m.key) \/ \E i \in UsedSlots(m) : b \in Bufs(m.slots[i].keys)

(* A used slot is a whole frame: for each object that exists after its      *)
(* history it holds a buffer with the contents of that history.             *)
Recorded(m, state) ==
    /\ state.globals \in Seq(Inputs)
    /\ KeysOK(state.keys)
    /\ \A k \in Exist(state.globals) :
            /\ k \in DOMAIN state.keys
            /\ state.keys[k] # None
            /\ m.heap[state.keys[k]] = state.globals

(* What every operation on a battle preserves between two steps.            *)
Memory(m) ==
    /\ IsBattle(m)
    /\ m.globals \in Seq(Inputs)
    /\ m.live = AllFrom(m.globals)
    /\ m.handles \subseteq Tasks
    /\ m.tracked \subseteq Objects
    /\ IsKeys(m.key) /\ KeysOK(m.key)
    /\ \A k \in Objects : m.key[k] # None => k \in m.tracked
    /\ IsFiniteSet(DOMAIN m.heap)
    /\ IsArray(m.slots)
    /\ \A i \in UsedSlots(m) : Recorded(m, m.slots[i])
    /\ OwnedOnce(m)

(* GGPO's ring: a position holds frames of its own residue, and no two      *)
(* positions name the same slot.                                            *)
Positions(g) == {p \in Ring : g.ring[p] # None}

IsSession(g) ==
    /\ g = [ring |-> g.ring, head |-> g.head, frame |-> g.frame,
            unsure |-> g.unsure, target |-> g.target]
    /\ g.ring = [p \in Ring |-> g.ring[p]]
    /\ \A p \in Positions(g) :
            /\ g.ring[p] \in [frame : Nat, slot : 1 .. NUM_SAVE_STATES]
            /\ g.ring[p].frame % NUM_SAVE_STATES = p
    /\ \A p, q \in Positions(g) : g.ring[p].slot = g.ring[q].slot => p = q
    /\ g.frame \in Nat
    /\ g.unsure \in Nat

(* The slots in use are those the ring names.                               *)
RingHoldsSlots(s) == UsedSlots(s.battle) = {s.ggpo.ring[p].slot : p \in Positions(s.ggpo)}

(* A ring position whose frame is not ahead of the present one holds the    *)
(* beginning of the present history.                                        *)
KeepsFrame(s, p) ==
    s.ggpo.ring[p].frame <= s.ggpo.frame =>
        s.battle.slots[s.ggpo.ring[p].slot].globals
            = SubSeq(s.battle.globals, 1, s.ggpo.ring[p].frame)

(* A fight between two steps: the memory, the ring and the history agree,   *)
(* and the head is the position after the present frame.                    *)
InStep(s) ==
    /\ Memory(s.battle)
    /\ IsSession(s.ggpo)
    /\ RingHoldsSlots(s)
    /\ s.ggpo.frame = Len(s.battle.globals)
    /\ \A p \in Positions(s.ggpo) : KeepsFrame(s,p)
    /\ s.ggpo.ring[0] = None =>
            s.ggpo.head = 0 /\ s.ggpo.frame = 0 /\ Positions(s.ggpo) = {}
    /\ s.ggpo.ring[0] # None => s.ggpo.head = (s.ggpo.frame + 1) % NUM_SAVE_STATES

(* A training battle: only slot 1 is used, and it is behind the present.    *)
InTraining(m) ==
    /\ Memory(m)
    /\ UsedSlots(m) \subseteq {1}
    /\ \A i \in UsedSlots(m) : \E n \in 0 .. Len(m.globals) :
            m.slots[i].globals = SubSeq(m.globals, 1, n)

(* The inductive invariant.                                                 *)
RInv ==
    /\ phase \in {"fight", "rollback", "training", "closed"}
    /\ phase \in {"fight", "rollback"} => InStep(Session)
    /\ phase = "training" => InTraining(battle) /\ ggpo = NewSession
    /\ phase = "closed" => Memory(battle) /\ ggpo = NewSession /\ UsedSlots(battle) = {}
    /\ ggpo.frame <= MaxFrames
    /\ phase = "rollback" =>
            /\ ggpo.ring[0] # None
            /\ ggpo.target \in Nat
            /\ ggpo.frame < ggpo.target /\ ggpo.target <= MaxFrames

-----------------------------------------------------------------------------

(* An allocation finds a buffer that is not in use.                         *)
LEMMA FreshBuffer ==
    ASSUME NEW H, IsFiniteSet(H), NEW k
    PROVE  \E n \in 0 .. Cardinality(H) : <<k, n>> \notin H
<1> SUFFICES ASSUME \A n \in 0 .. Cardinality(H) : <<k, n>> \in H
             PROVE  FALSE
  OBVIOUS
<1>1. Cardinality(H) \in Nat
  BY FS_CardinalityType
<1>2. IsFiniteSet(0 .. Cardinality(H)) /\ Cardinality(0 .. Cardinality(H)) = Cardinality(H) + 1
  BY <1>1, FS_Interval
<1> DEFINE f == [n \in 0 .. Cardinality(H) |-> <<k, n>>]
<1>3. f \in [0 .. Cardinality(H) -> H]
  OBVIOUS
<1>4. \A x, y \in 0 .. Cardinality(H) : f[x] = f[y] => x = y
  OBVIOUS
<1>5. Cardinality(H) < Cardinality(0 .. Cardinality(H))
  BY <1>1, <1>2
<1> HIDE DEF f
<1> QED BY <1>2, <1>3, <1>4, <1>5, FS_PigeonHole

(* The unit exists after any history, and only objects exist.               *)
LEMMA UnitThere ==
    ASSUME NEW h
    PROVE  Unit \in Exist(h) /\ Exist(h) \subseteq Objects
BY DEF Exist, Objects, Unit

(* Nothing but the unit exists before the first frame.                      *)
LEMMA NoneThere == Exist(<<>>) = {Unit}
<1>1. \A t \in Tasks : {n \in DOMAIN <<>> : <<>>[n] = <<"task", t>>} = {}
  OBVIOUS
<1>2. \A t \in Tasks : Cardinality({n \in DOMAIN <<>> : <<>>[n] = <<"task", t>>}) % 2 = 0
  BY <1>1, FS_EmptySet
<1> QED BY <1>2 DEF Exist

(* A buffer is not the zeroed key, and names its object.                    *)
LEMMA NoBufferIsNone ==
    ASSUME NEW k \in Objects, NEW b \in {k} \X Nat
    PROVE  b # None /\ b[1] = k
BY SaveStatesAssumption DEF Objects, Unit


-----------------------------------------------------------------------------

(* The sounds and slots that recording leaves alone.                        *)
SameSounds(m, r) ==
    m.stub = r.stub /\ m.real = r.real /\ m.queue = r.queue /\ m.started = r.started

(* Recording gives every object there a fresh buffer with its contents, and *)
(* frees what its key held.                                                 *)
LEMMA RecordAll ==
    ASSUME NEW m, Memory(m),
           NEW r, r = RecordAllToInternalMementos(m)
    PROVE  /\ Memory(r)
           /\ SameSounds(m, r)
           /\ r.live = m.live /\ r.globals = m.globals /\ r.handles = m.handles
           /\ r.slots = m.slots
           /\ r.tracked = m.tracked \cup Exist(m.globals)
           /\ \A k \in Exist(m.globals) : r.key[k] # None /\ r.heap[r.key[k]] = m.globals
<1> DEFINE objects == DOMAIN m.live
           heap == Without(m.heap, {m.key[k] : k \in objects})
           fresh == [k \in objects |->
                        <<k, CHOOSE n \in 0 .. Cardinality(DOMAIN heap) :
                                <<k, n>> \notin DOMAIN heap>>]
           added == [b \in {fresh[k] : k \in objects} |-> m.live[b[1]]]
<1>1. objects = Exist(m.globals) /\ objects \subseteq Objects
  BY UnitThere DEF Memory, AllFrom
<1>2. /\ DOMAIN heap \subseteq DOMAIN m.heap
      /\ \A b \in DOMAIN heap : heap[b] = m.heap[b]
      /\ \A b : b \in DOMAIN heap <=> b \in DOMAIN m.heap /\ \A k \in objects : b # m.key[k]
  BY DEF Without
<1>3. IsFiniteSet(DOMAIN heap) /\ Cardinality(DOMAIN heap) \in Nat
  BY <1>2, FS_Subset, FS_CardinalityType DEF Memory
<1>4. r = [m EXCEPT !.heap = Over(heap, added), !.key = Over(fresh, m.key),
                    !.tracked = m.tracked \cup objects]
  BY DEF RecordAllToInternalMementos
<1> HIDE DEF heap
<1>5. \A k \in objects : fresh[k] \in {k} \X Nat /\ fresh[k] \notin DOMAIN heap
  BY <1>3, FreshBuffer
<1>6. DOMAIN fresh = objects /\ fresh \in [objects -> {fresh[k] : k \in objects}]
  OBVIOUS
<1> HIDE DEF fresh
<1>7. \A k \in objects : fresh[k] # None /\ fresh[k][1] = k
  BY <1>1, <1>5, NoBufferIsNone
<1>8. DOMAIN added = {fresh[k] : k \in objects} /\ \A k \in objects : added[fresh[k]] = m.globals
  BY <1>1, <1>7 DEF Memory, AllFrom
<1> HIDE DEF added
<1>9. /\ r.heap = Over(heap, added) /\ r.key = Over(fresh, m.key)
      /\ r.tracked = m.tracked \cup objects
      /\ r.live = m.live /\ r.globals = m.globals /\ r.handles = m.handles
      /\ r.slots = m.slots /\ SameSounds(m, r) /\ IsBattle(r)
  BY <1>4 DEF Memory, IsBattle, SameSounds
<1> HIDE DEF objects
<1>10. /\ IsKeys(r.key)
       /\ \A k \in Objects : r.key[k] = IF k \in objects THEN fresh[k] ELSE m.key[k]
  BY <1>1, <1>6, <1>9 DEF Memory, Over, IsKeys
<1>11. /\ DOMAIN r.heap = DOMAIN heap \cup {fresh[k] : k \in objects}
       /\ \A b \in DOMAIN heap : r.heap[b] = m.heap[b]
       /\ \A k \in objects : r.heap[fresh[k]] = m.globals
  BY <1>2, <1>5, <1>8, <1>9 DEF Over
<1>12. UsedSlots(r) = UsedSlots(m)
  BY <1>9 DEF UsedSlots
<1>13. \A i \in UsedSlots(m) : \A b \in Bufs(m.slots[i].keys) : b \in DOMAIN heap
  <2> SUFFICES ASSUME NEW i \in UsedSlots(m), NEW b \in Bufs(m.slots[i].keys)
               PROVE  b \in DOMAIN heap
    OBVIOUS
  <2>1. b \in DOMAIN m.heap /\ b \notin Bufs(m.key) /\ b # None
    BY DEF Memory, OwnedOnce, Bufs, InKeys
  <2>2. \A k \in objects : b # m.key[k]
    BY <2>1, <1>1 DEF Memory, Bufs, InKeys, IsKeys
  <2> QED BY <2>1, <2>2, <1>2
<1>14. \A b \in Bufs(r.key) : \/ b \in Bufs(m.key) /\ b \in DOMAIN heap
                              \/ \E k \in objects : b = fresh[k]
  <2>1. SUFFICES ASSUME NEW k \in Objects, k \notin objects, m.key[k] # None
                 PROVE  m.key[k] \in Bufs(m.key) /\ m.key[k] \in DOMAIN heap
    BY <1>10 DEF Bufs, InKeys, IsKeys
  <2>2. m.key[k] \in Bufs(m.key)
    BY <2>1 DEF Memory, Bufs, InKeys, IsKeys
  <2>3. m.key[k] \in DOMAIN m.heap /\ m.key[k][1] = k
    BY <2>1, <2>2, NoBufferIsNone DEF Memory, KeysOK, OwnedOnce, IsKeys
  <2>4. ASSUME NEW j \in objects, m.key[j] = m.key[k]
        PROVE  FALSE
    BY <1>1, <2>1, <2>3, <2>4, NoBufferIsNone DEF Memory, KeysOK, IsKeys
  <2> QED BY <2>2, <2>3, <2>4, <1>2
<1>15. KeysOK(r.key) /\ \A k \in Objects : r.key[k] # None => k \in r.tracked
  BY <1>1, <1>5, <1>9, <1>10 DEF Memory, KeysOK, IsKeys
<1>16. IsFiniteSet(DOMAIN r.heap)
  <2>1. fresh \in Surjection(objects, {fresh[k] : k \in objects})
    BY <1>6 DEF Surjection
  <2>2. IsFiniteSet(Objects)
    BY SaveStatesAssumption, FS_Singleton, FS_Union DEF Objects
  <2>3. IsFiniteSet(objects)
    BY <1>1, <2>2, FS_Subset
  <2>4. IsFiniteSet({fresh[k] : k \in objects})
    BY <2>1, <2>3, FS_Surjection
  <2>5. IsFiniteSet(DOMAIN heap \cup {fresh[k] : k \in objects})
    BY <1>3, <2>4, FS_Union
  <2> QED BY <1>11, <2>5
<1>17. \A i \in UsedSlots(r) : Recorded(r, r.slots[i])
  <2>1. SUFFICES ASSUME NEW i \in UsedSlots(m), NEW k \in Exist(m.slots[i].globals)
                 PROVE  m.slots[i].keys[k] \in DOMAIN heap
    BY <1>9, <1>11, <1>12, <1>2 DEF Memory, Recorded
  <2>2. m.slots[i].keys[k] \in Bufs(m.slots[i].keys)
    BY DEF Memory, Recorded, Bufs, InKeys
  <2> QED BY <2>2, <1>13
<1>18. OwnedOnce(r)
  <2>1. \A i \in UsedSlots(r) : Bufs(r.slots[i].keys) \cap Bufs(r.key) = {}
    BY <1>5, <1>9, <1>12, <1>13, <1>14 DEF Memory, OwnedOnce
  <2>2. \A i, j \in UsedSlots(r) :
            i # j => Bufs(r.slots[i].keys) \cap Bufs(r.slots[j].keys) = {}
    BY <1>9, <1>12 DEF Memory, OwnedOnce
  <2>3. \A b \in Bufs(r.key) : b \in DOMAIN r.heap
    BY <1>11, <1>14
  <2>4. \A i \in UsedSlots(r) : \A b \in Bufs(r.slots[i].keys) : b \in DOMAIN r.heap
    BY <1>9, <1>11, <1>12, <1>13
  <2>5. ASSUME NEW b \in DOMAIN r.heap
        PROVE  b \in Bufs(r.key) \/ \E i \in UsedSlots(r) : b \in Bufs(r.slots[i].keys)
    <3>1. CASE b \in DOMAIN heap
      <4>1. b \in DOMAIN m.heap /\ \A k \in objects : b # m.key[k]
        BY <3>1, <1>2
      <4>2. CASE b \in Bufs(m.key)
        <5>1. PICK k \in Objects : b = m.key[k] /\ b # None
          BY <4>2 DEF Bufs, InKeys, Memory, IsKeys
        <5>2. r.key[k] = b
          BY <5>1, <4>1, <1>10
        <5> QED BY <5>1, <5>2, <1>10 DEF Bufs, InKeys, IsKeys
      <4>3. CASE \E i \in UsedSlots(m) : b \in Bufs(m.slots[i].keys)
        BY <4>3, <1>9, <1>12
      <4> QED BY <4>1, <4>2, <4>3 DEF Memory, OwnedOnce
    <3>2. CASE \E k \in objects : b = fresh[k]
      BY <3>2, <1>1, <1>7, <1>10 DEF Bufs, InKeys, IsKeys
    <3> QED BY <3>1, <3>2, <1>11
  <2> QED BY <2>1, <2>2, <2>3, <2>4, <2>5 DEF OwnedOnce
<1>19. /\ r.tracked = m.tracked \cup Exist(m.globals)
       /\ \A k \in Exist(m.globals) : r.key[k] # None /\ r.heap[r.key[k]] = m.globals
  BY <1>1, <1>7, <1>9, <1>10, <1>11
<1>20. Memory(r)
  BY <1>1, <1>9, <1>10, <1>15, <1>16, <1>17, <1>18 DEF Memory
<1> QED BY <1>9, <1>19, <1>20

(* Restoring from keys whose buffers hold one history gives that history.   *)
LEMMA RestoreAll ==
    ASSUME NEW m, IsBattle(m), NEW h \in Seq(Inputs),
           \A k \in Exist(h) : m.key[k] # None /\ m.key[k] \in DOMAIN m.heap
                                /\ m.heap[m.key[k]] = h,
           NEW r, r = RestoreAllFromInternalMementos(m)
    PROVE  /\ IsBattle(r) /\ SameSounds(m, r)
           /\ r.live = AllFrom(h)
           /\ r.handles \subseteq Tasks
           /\ r.globals = m.globals /\ r.key = m.key /\ r.tracked = m.tracked
           /\ r.heap = m.heap /\ r.slots = m.slots
<1> DEFINE read(k) == IF m.key[k] \in DOMAIN m.heap THEN m.heap[m.key[k]]
                      ELSE IF m.key[k] = None /\ k \in DOMAIN m.live THEN m.live[k]
                      ELSE Garbage
<1>1. \A k \in Exist(h) : read(k) = h
  OBVIOUS
<1>2. read(Unit) = h
  BY <1>1, UnitThere
<1>3. r = [m EXCEPT !.live = [k \in Exist(read(Unit)) |-> read(k)],
                    !.handles = Exist(read(Unit)) \ {Unit, TrainingTask}]
  BY DEF RestoreAllFromInternalMementos
<1> HIDE DEF read
<1>4. r = [m EXCEPT !.live = AllFrom(h),
                    !.handles = Exist(h) \ {Unit, TrainingTask}]
  BY ZenonT(60), <1>1, <1>2, <1>3 DEF AllFrom
<1>5. Exist(h) \ {Unit, TrainingTask} \subseteq Tasks
  BY UnitThere DEF Objects
<1> QED BY <1>4, <1>5 DEF IsBattle, SameSounds

(* CopyIntoPlace, one update at a time.                                     *)
Placing(m, globals, stub, key) ==
    [m EXCEPT !.globals = globals, !.stub = stub, !.key = key]

LEMMA Placed ==
    ASSUME NEW m, IsBattle(m), NEW globals, NEW stub, NEW key,
           NEW p, p = Placing(m, globals, stub, key)
    PROVE  /\ IsBattle(p) /\ p.globals = globals /\ p.key = key
           /\ p.tracked = m.tracked /\ p.heap = m.heap /\ p.slots = m.slots
           /\ p.real = m.real /\ p.queue = m.queue /\ p.started = m.started
BY DEF IsBattle, Placing

(* Placing a recorded state: its history is read from its own buffers.      *)
LEMMA CopyIntoPlaceReads ==
    ASSUME NEW m, IsBattle(m), IsKeys(m.key),
           NEW src, Recorded(m, src),
           \A k \in Exist(src.globals) : src.keys[k] \in DOMAIN m.heap
    PROVE  LET r == CopyIntoPlace(m, src) IN
           /\ IsBattle(r)
           /\ r.live = AllFrom(src.globals)
           /\ r.handles \subseteq Tasks
           /\ r.globals = src.globals
           /\ IsKeys(r.key)
           /\ \A k \in Objects : r.key[k] = IF k \in DOMAIN src.keys THEN src.keys[k] ELSE m.key[k]
           /\ r.tracked = m.tracked /\ r.heap = m.heap /\ r.slots = m.slots
           /\ r.real = m.real /\ r.queue = m.queue /\ r.started = m.started
<1> DEFINE r == CopyIntoPlace(m, src)
           place == [k \in Objects |-> IF k \in DOMAIN src.keys THEN src.keys[k] ELSE m.key[k]]
           p == Placing(m, src.globals, src.stub, place)
<1>1. Over(src.keys, m.key) = place
  BY DEF Over, IsKeys, Recorded, KeysOK
<1>2. \A k \in Exist(src.globals) : place[k] = src.keys[k]
  BY UnitThere DEF Recorded
<1>3. r = RestoreAllFromInternalMementos(p)
  BY <1>1 DEF CopyIntoPlace, Placing
<1> HIDE DEF place, r
<1>4. /\ IsBattle(p) /\ p.globals = src.globals /\ p.key = place
      /\ p.tracked = m.tracked /\ p.heap = m.heap /\ p.slots = m.slots
      /\ p.real = m.real /\ p.queue = m.queue /\ p.started = m.started
  BY Placed
<1> HIDE DEF p
<1>5. \A k \in Exist(src.globals) : p.key[k] # None /\ p.key[k] \in DOMAIN p.heap
                                       /\ p.heap[p.key[k]] = src.globals
  BY <1>2, <1>4 DEF Recorded
<1>6. src.globals \in Seq(Inputs)
  BY DEF Recorded
<1>7. /\ IsBattle(r) /\ SameSounds(p, r)
      /\ r.live = AllFrom(src.globals)
      /\ r.handles \subseteq Tasks
      /\ r.globals = p.globals /\ r.key = p.key /\ r.tracked = p.tracked
      /\ r.heap = p.heap /\ r.slots = p.slots
  BY <1>3, <1>4, <1>5, <1>6, RestoreAll
<1>8. r.key = place
  BY <1>4, <1>7
<1> QED BY <1>4, <1>7, <1>8 DEF SameSounds, IsKeys, place, r

LEMMA ZeroKeysIs ==
    ASSUME NEW m, IsBattle(m), NEW keys, NEW r, r = ZeroKeys(m, keys)
    PROVE  /\ IsBattle(r) /\ SameSounds(m, r)
           /\ IsKeys(r.key)
           /\ \A k \in Objects : r.key[k] = IF k \in keys THEN None ELSE m.key[k]
           /\ r.live = m.live /\ r.globals = m.globals /\ r.handles = m.handles
           /\ r.tracked = m.tracked /\ r.heap = m.heap /\ r.slots = m.slots
BY DEF ZeroKeys, IsBattle, SameSounds, IsKeys

(* What Save leaves: no buffer in the keys, all of them in the state saved. *)
LEMMA SaveIs ==
    ASSUME NEW m, Memory(m)
    PROVE  LET r == RecordAllToInternalMementos(m)
               b == Save(m).battle
               t == Save(m).state
           IN
           /\ IsBattle(b) /\ SameSounds(m, b)
           /\ b.key = NoKeys
           /\ b.live = m.live /\ b.globals = m.globals /\ b.handles = m.handles
           /\ b.slots = m.slots /\ b.tracked = r.tracked /\ b.heap = r.heap
           /\ t.used = TRUE /\ t.globals = m.globals
           /\ t.keys = [k \in r.tracked |-> r.key[k]]
           /\ Bufs(t.keys) = Bufs(r.key)
           /\ KeysOK(t.keys)
           /\ \A k \in Exist(m.globals) :
                    /\ k \in DOMAIN t.keys /\ t.keys[k] # None
                    /\ t.keys[k] \in DOMAIN r.heap /\ r.heap[t.keys[k]] = m.globals
<1> DEFINE r == RecordAllToInternalMementos(m)
           b == Save(m).battle
           t == Save(m).state
<1>1. /\ Memory(r) /\ SameSounds(m, r)
      /\ r.live = m.live /\ r.globals = m.globals /\ r.handles = m.handles
      /\ r.slots = m.slots
      /\ r.tracked = m.tracked \cup Exist(m.globals)
      /\ \A k \in Exist(m.globals) : r.key[k] # None /\ r.heap[r.key[k]] = m.globals
  BY RecordAll
<1>2. b = ZeroKeys(r, r.tracked) /\ t = Copied(r)
  BY DEF Save
<1> HIDE DEF r, b, t
<1>3. /\ IsBattle(b) /\ SameSounds(r, b)
      /\ IsKeys(b.key)
      /\ \A k \in Objects : b.key[k] = IF k \in r.tracked THEN None ELSE r.key[k]
      /\ b.live = r.live /\ b.globals = r.globals /\ b.handles = r.handles
      /\ b.tracked = r.tracked /\ b.heap = r.heap /\ b.slots = r.slots
  BY <1>1, <1>2, ZeroKeysIs DEF Memory
<1>4. \A k \in Objects : r.key[k] # None => k \in r.tracked
  BY <1>1 DEF Memory
<1>5. b.key = NoKeys
  BY <1>3, <1>4 DEF IsKeys, NoKeys
<1>6. t.used = TRUE /\ t.globals = m.globals /\ t.keys = [k \in r.tracked |-> r.key[k]]
  BY <1>1, <1>2 DEF Copied
<1>7. r.tracked \subseteq Objects /\ IsKeys(r.key) /\ KeysOK(r.key)
  BY <1>1 DEF Memory
<1>8. Bufs(t.keys) = Bufs(r.key)
  <2>1. \A x : x \in Bufs(t.keys) <=> x # None /\ \E k \in r.tracked : x = r.key[k]
    BY <1>6 DEF Bufs, InKeys
  <2>2. \A x : x \in Bufs(r.key) <=> x # None /\ \E k \in Objects : x = r.key[k]
    BY <1>7 DEF Bufs, InKeys, IsKeys
  <2> QED BY <2>1, <2>2, <1>4, <1>7
<1>9. KeysOK(t.keys)
  BY <1>6, <1>7 DEF KeysOK, IsKeys
<1>10. \A k \in Exist(m.globals) :
            /\ k \in DOMAIN t.keys /\ t.keys[k] # None
            /\ t.keys[k] \in DOMAIN r.heap /\ r.heap[t.keys[k]] = m.globals
  <2> SUFFICES ASSUME NEW k \in Exist(m.globals)
               PROVE  /\ k \in DOMAIN t.keys /\ t.keys[k] # None
                      /\ t.keys[k] \in DOMAIN r.heap /\ r.heap[t.keys[k]] = m.globals
    OBVIOUS
  <2>1. k \in Objects /\ k \in r.tracked /\ t.keys[k] = r.key[k] /\ r.key[k] # None
    BY <1>1, <1>6, UnitThere
  <2>2. r.key[k] \in Bufs(r.key)
    BY <2>1, <1>7 DEF Bufs, InKeys, IsKeys
  <2>3. r.key[k] \in DOMAIN r.heap
    BY <1>1, <2>2 DEF Memory, OwnedOnce
  <2> QED BY <1>1, <1>6, <2>1, <2>3
<1> QED BY <1>1, <1>3, <1>5, <1>6, <1>8, <1>9, <1>10 DEF SameSounds, r, b, t

(* One slot of the array replaced.                                          *)
WithSlot(m, i, state) == [m EXCEPT !.slots[i] = state]

LEMMA WithSlotIs ==
    ASSUME NEW m, IsBattle(m), IsArray(m.slots),
           NEW i \in 1 .. NUM_SAVE_STATES, NEW state, NEW r, r = WithSlot(m, i, state)
    PROVE  /\ IsBattle(r) /\ SameSounds(m, r)
           /\ r.live = m.live /\ r.globals = m.globals /\ r.handles = m.handles
           /\ r.tracked = m.tracked /\ r.heap = m.heap /\ r.key = m.key
           /\ IsArray(r.slots)
           /\ r.slots[i] = state
           /\ \A j \in 1 .. NUM_SAVE_STATES : j # i => r.slots[j] = m.slots[j]
<1>1. /\ IsBattle(r) /\ SameSounds(m, r)
      /\ r.live = m.live /\ r.globals = m.globals /\ r.handles = m.handles
      /\ r.tracked = m.tracked /\ r.heap = m.heap /\ r.key = m.key
      /\ r.slots = [m.slots EXCEPT ![i] = state]
  BY DEF IsBattle, WithSlot, SameSounds
<1> QED BY <1>1 DEF IsArray

(* Saving into an unused slot keeps the memory and uses that slot.          *)
LEMMA SaveIntoIs ==
    ASSUME NEW m, Memory(m), NEW i \in 1 .. NUM_SAVE_STATES, i \notin UsedSlots(m),
           NEW r, r = SaveInto(m, i)
    PROVE  /\ Memory(r)
           /\ r.globals = m.globals
           /\ UsedSlots(r) = UsedSlots(m) \cup {i}
           /\ r.slots[i].globals = m.globals
           /\ \A j \in UsedSlots(m) : r.slots[j] = m.slots[j]
<1> DEFINE d == RecordAllToInternalMementos(m)
           b == Save(m).battle
           t == Save(m).state
<1>1. Memory(d) /\ d.slots = m.slots
  BY RecordAll
<1>2. /\ IsBattle(b)
      /\ b.key = NoKeys
      /\ b.live = m.live /\ b.globals = m.globals /\ b.handles = m.handles
      /\ b.slots = m.slots /\ b.tracked = d.tracked /\ b.heap = d.heap
      /\ t.used = TRUE /\ t.globals = m.globals
      /\ Bufs(t.keys) = Bufs(d.key)
      /\ KeysOK(t.keys)
      /\ \A k \in Exist(m.globals) :
            /\ k \in DOMAIN t.keys /\ t.keys[k] # None
            /\ t.keys[k] \in DOMAIN d.heap /\ d.heap[t.keys[k]] = m.globals
  BY SaveIs
<1>3. r = WithSlot(b, i, t)
  BY DEF SaveInto, WithSlot
<1> HIDE DEF d, b, t
<1>4. /\ IsBattle(r)
      /\ r.live = b.live /\ r.globals = b.globals /\ r.handles = b.handles
      /\ r.tracked = b.tracked /\ r.heap = b.heap /\ r.key = b.key
      /\ IsArray(r.slots)
      /\ r.slots[i] = t
      /\ \A j \in 1 .. NUM_SAVE_STATES : j # i => r.slots[j] = b.slots[j]
  BY <1>2, <1>3, WithSlotIs DEF Memory
<1>5. UsedSlots(d) = UsedSlots(m) /\ UsedSlots(r) = UsedSlots(m) \cup {i}
  BY <1>1, <1>2, <1>4 DEF Memory, UsedSlots, IsArray
<1>6. \A j \in UsedSlots(m) : j # i /\ j \in 1 .. NUM_SAVE_STATES /\ r.slots[j] = m.slots[j]
  BY <1>2, <1>4 DEF Memory, UsedSlots, IsArray
<1>7. Bufs(r.key) = {}
  BY <1>2, <1>4 DEF Bufs, InKeys, NoKeys
<1>8. \A j \in UsedSlots(r) : Recorded(r, r.slots[j])
  <2>1. Recorded(r, t)
    BY <1>2, <1>4 DEF Recorded, Memory
  <2>2. \A j \in UsedSlots(m) : Recorded(d, d.slots[j])
    BY <1>1, <1>5 DEF Memory
  <2>3. \A j \in UsedSlots(m) : Recorded(r, r.slots[j])
    BY <2>2, <1>1, <1>2, <1>4, <1>6 DEF Recorded
  <2> QED BY <2>1, <2>3, <1>4, <1>5
<1>9. OwnedOnce(r)
  <2>1. OwnedOnce(d)
    BY <1>1 DEF Memory
  <2>2. \A j \in UsedSlots(m) : r.slots[j] = d.slots[j]
    BY <1>1, <1>6
  <2>3. \A j \in UsedSlots(m) : Bufs(r.slots[j].keys) \cap Bufs(r.slots[i].keys) = {}
    BY <2>1, <2>2, <1>2, <1>4, <1>5 DEF OwnedOnce
  <2>4. \A j, k \in UsedSlots(r) :
            j # k => Bufs(r.slots[j].keys) \cap Bufs(r.slots[k].keys) = {}
    BY <2>1, <2>2, <2>3, <1>5 DEF OwnedOnce
  <2>5. \A j \in UsedSlots(r) : \A x \in Bufs(r.slots[j].keys) : x \in DOMAIN r.heap
    BY <2>1, <2>2, <1>2, <1>4, <1>5 DEF OwnedOnce
  <2>6. ASSUME NEW x \in DOMAIN r.heap
        PROVE  \E j \in UsedSlots(r) : x \in Bufs(r.slots[j].keys)
    <3>1. CASE x \in Bufs(d.key)
      BY <3>1, <1>2, <1>4, <1>5
    <3>2. CASE \E j \in UsedSlots(m) : x \in Bufs(d.slots[j].keys)
      BY <3>2, <2>2, <1>5
    <3> QED BY <3>1, <3>2, <2>1, <1>2, <1>4, <1>5 DEF OwnedOnce
  <2> QED BY <2>4, <2>5, <2>6, <1>7 DEF OwnedOnce
<1>10. /\ IsKeys(r.key) /\ KeysOK(r.key)
       /\ \A k \in Objects : r.key[k] # None => k \in r.tracked
  BY <1>2, <1>4 DEF KeysOK, IsKeys, NoKeys
<1>11. Memory(r)
  BY <1>1, <1>2, <1>4, <1>8, <1>9, <1>10 DEF Memory
<1> QED BY <1>2, <1>4, <1>5, <1>6, <1>11

(* The heap replaced.                                                       *)
WithHeap(m, heap) == [m EXCEPT !.heap = heap]

LEMMA WithHeapIs ==
    ASSUME NEW m, IsBattle(m), NEW heap, NEW r, r = WithHeap(m, heap)
    PROVE  /\ IsBattle(r) /\ SameSounds(m, r)
           /\ r.heap = heap
           /\ r.live = m.live /\ r.globals = m.globals /\ r.handles = m.handles
           /\ r.tracked = m.tracked /\ r.key = m.key /\ r.slots = m.slots
BY DEF WithHeap, IsBattle, SameSounds

(* Free's round trip: the keys in place end up with the buffers recorded,   *)
(* the victim's are the ones freed.                                         *)
LEMMA FreeRoundTrip ==
    ASSUME NEW m, Memory(m), NEW i \in UsedSlots(m)
    PROVE  LET r == RecordAllToInternalMementos(m)
               f == Free(m, i)
           IN
           /\ IsBattle(f)
           /\ f.live = m.live /\ f.globals = m.globals /\ f.handles \subseteq Tasks
           /\ f.key = r.key /\ f.tracked = r.tracked
           /\ IsArray(f.slots)
           /\ f.slots[i] = Unused
           /\ \A j \in 1 .. NUM_SAVE_STATES : j # i => f.slots[j] = m.slots[j]
           /\ f.heap = Without(r.heap, InKeys(m.slots[i].keys))
<1> DEFINE r == RecordAllToInternalMementos(m)
           b == Save(m).battle
           t == Save(m).state
           victim == m.slots[i]
           p == CopyIntoPlace(b, victim)
           theirs == InKeys(victim.keys)
           h == WithHeap(p, Without(r.heap, theirs))
           c == ZeroKeys(h, DOMAIN victim.keys)
           u == WithSlot(c, i, Unused)
           f == CopyIntoPlace(u, t)
<1>0. i \in 1 .. NUM_SAVE_STATES
  BY DEF UsedSlots, Memory, IsArray
<1>1. Memory(r) /\ r.slots = m.slots /\ UsedSlots(r) = UsedSlots(m)
  BY RecordAll DEF UsedSlots
<1>2. /\ IsBattle(b)
      /\ b.key = NoKeys
      /\ b.live = m.live /\ b.globals = m.globals /\ b.handles = m.handles
      /\ b.slots = m.slots /\ b.tracked = r.tracked /\ b.heap = r.heap
  BY SaveIs
<1>3. /\ t.globals = m.globals
      /\ t.keys = [k \in r.tracked |-> r.key[k]]
      /\ Bufs(t.keys) = Bufs(r.key)
      /\ KeysOK(t.keys)
      /\ \A k \in Exist(m.globals) :
            /\ k \in DOMAIN t.keys /\ t.keys[k] # None
            /\ t.keys[k] \in DOMAIN r.heap /\ r.heap[t.keys[k]] = m.globals
  BY SaveIs
<1>4. Recorded(r, victim)
  BY <1>1 DEF Memory
<1>5. (\A k \in Objects : p.key[k] = IF k \in DOMAIN victim.keys THEN victim.keys[k] ELSE b.key[k])
      => {p.key[k] : k \in DOMAIN victim.keys} = theirs
  BY SMTT(30), <1>4 DEF Recorded, KeysOK, InKeys
<1>6. /\ p = CopyIntoPlace(b, victim) /\ h = WithHeap(p, Without(r.heap, theirs))
      /\ c = ZeroKeys(h, DOMAIN victim.keys) /\ u = WithSlot(c, i, Unused)
      /\ f = CopyIntoPlace(u, t)
  OBVIOUS
<1>7. {p.key[k] : k \in DOMAIN victim.keys} = theirs /\ p.heap = r.heap
      => Free(m, i) = f
  BY DEF Free, ClearKeys, WithHeap, WithSlot
<1> HIDE DEF r, b, t, f, u, c, h, p, theirs
<1>8. \A k \in Exist(victim.globals) : victim.keys[k] \in Bufs(victim.keys)
  BY <1>4 DEF Recorded, Bufs, InKeys
<1>9. \A k \in Exist(victim.globals) : victim.keys[k] \in DOMAIN b.heap
  BY <1>1, <1>2, <1>8 DEF Memory, OwnedOnce
<1>10. Recorded(b, victim)
  BY <1>2, <1>4 DEF Recorded
<1>b. IsKeys(b.key)
  BY <1>2 DEF IsKeys, NoKeys
<1>11. /\ IsBattle(p)
       /\ IsKeys(p.key)
       /\ \A k \in Objects : p.key[k] = IF k \in DOMAIN victim.keys THEN victim.keys[k] ELSE b.key[k]
       /\ p.tracked = b.tracked /\ p.heap = b.heap /\ p.slots = b.slots
  BY <1>2, <1>b, <1>6, <1>9, <1>10, CopyIntoPlaceReads
<1>12. Free(m, i) = f
  BY <1>2, <1>5, <1>7, <1>11
<1>13. /\ IsBattle(h) /\ h.heap = Without(r.heap, theirs)
       /\ h.tracked = p.tracked /\ h.key = p.key /\ h.slots = p.slots
  BY <1>6, <1>11, WithHeapIs
<1>14. /\ IsBattle(c) /\ c.heap = h.heap
       /\ IsKeys(c.key)
       /\ \A k \in Objects : c.key[k] = IF k \in DOMAIN victim.keys THEN None ELSE h.key[k]
       /\ c.tracked = h.tracked /\ c.slots = h.slots
  BY <1>6, <1>13, ZeroKeysIs
<1>15. c.key = NoKeys
  BY <1>2, <1>11, <1>13, <1>14 DEF IsKeys, NoKeys
<1>16. c.slots = m.slots /\ IsArray(m.slots)
  BY <1>2, <1>11, <1>13, <1>14 DEF Memory
<1>17. /\ IsBattle(u) /\ u.heap = c.heap /\ u.key = c.key /\ u.tracked = c.tracked
       /\ IsArray(u.slots)
       /\ u.slots[i] = Unused
       /\ \A j \in 1 .. NUM_SAVE_STATES : j # i => u.slots[j] = m.slots[j]
  <2>1. IsBattle(c) /\ IsArray(c.slots) /\ u = WithSlot(c, i, Unused)
    BY <1>6, <1>14, <1>16
  <2>2. /\ IsBattle(u) /\ u.heap = c.heap /\ u.key = c.key /\ u.tracked = c.tracked
        /\ IsArray(u.slots)
        /\ u.slots[i] = Unused
        /\ \A j \in 1 .. NUM_SAVE_STATES : j # i => u.slots[j] = c.slots[j]
    BY ONLY <1>0, <2>1, WithSlotIs
  <2> QED BY ONLY <1>16, <2>2
<1>18. \A x \in Bufs(t.keys) : x \notin theirs /\ x \in DOMAIN r.heap
  <2>1. Bufs(r.key) \cap Bufs(victim.keys) = {} /\ \A x \in Bufs(r.key) : x \in DOMAIN r.heap
    BY <1>1 DEF Memory, OwnedOnce
  <2>2. \A x \in theirs : x # None => x \in Bufs(victim.keys)
    BY DEF theirs, Bufs
  <2>3. None \notin Bufs(t.keys)
    BY DEF Bufs, InKeys
  <2> QED BY <1>3, <2>1, <2>2, <2>3
<1>19. \A x : x \in DOMAIN u.heap <=> x \in DOMAIN r.heap /\ x \notin theirs
  BY <1>13, <1>14, <1>17 DEF Without
<1>20. \A x \in DOMAIN u.heap : u.heap[x] = r.heap[x]
  BY <1>13, <1>14, <1>17 DEF Without
<1>21. \A k \in Exist(m.globals) : t.keys[k] \in Bufs(t.keys)
  BY <1>3 DEF Bufs, InKeys
<1>22. \A k \in Exist(m.globals) :
            t.keys[k] \in DOMAIN u.heap /\ u.heap[t.keys[k]] = m.globals
  BY <1>3, <1>18, <1>19, <1>20, <1>21
<1>23. Recorded(u, t)
  BY <1>3, <1>22 DEF Recorded, Memory
<1>24. IsKeys(u.key)
  BY <1>15, <1>17 DEF IsKeys, NoKeys
<1>25. /\ IsBattle(f)
       /\ f.live = AllFrom(t.globals)
       /\ f.handles \subseteq Tasks /\ f.globals = t.globals
       /\ IsKeys(f.key)
       /\ \A k \in Objects : f.key[k] = IF k \in DOMAIN t.keys THEN t.keys[k] ELSE u.key[k]
       /\ f.tracked = u.tracked /\ f.heap = u.heap /\ f.slots = u.slots
  <2>1. IsBattle(u) /\ \A k \in Exist(t.globals) : t.keys[k] \in DOMAIN u.heap
    BY <1>3, <1>17, <1>22
  <2>2. f = CopyIntoPlace(u, t)
    BY <1>6
  <2> QED BY ONLY <2>1, <2>2, <1>23, <1>24, CopyIntoPlaceReads
<1>26. f.key = r.key
  <2>1. IsKeys(r.key) /\ \A k \in Objects : r.key[k] # None => k \in r.tracked
    BY <1>1 DEF Memory
  <2>2. \A k \in Objects : f.key[k] = r.key[k]
    BY <1>3, <1>15, <1>17, <1>25, <2>1 DEF NoKeys
  <2> QED BY <2>1, <2>2, <1>25 DEF IsKeys
<1>27. /\ f.live = m.live /\ f.globals = m.globals /\ f.handles \subseteq Tasks
  BY <1>3, <1>25 DEF Memory
<1>28. f.tracked = r.tracked /\ f.heap = Without(r.heap, theirs)
  BY <1>2, <1>11, <1>13, <1>14, <1>17, <1>25
<1>29. /\ IsArray(f.slots)
       /\ f.slots[i] = Unused
       /\ \A j \in 1 .. NUM_SAVE_STATES : j # i => f.slots[j] = m.slots[j]
  BY <1>17, <1>25
<1> QED BY <1>12, <1>25, <1>26, <1>27, <1>28, <1>29 DEF r, theirs

(* Freeing a used slot keeps the memory and unuses that slot only.          *)
LEMMA FreeIs ==
    ASSUME NEW m, Memory(m), NEW i \in UsedSlots(m)
    PROVE  /\ Memory(Free(m, i))
           /\ Free(m, i).live = m.live
           /\ Free(m, i).globals = m.globals
           /\ UsedSlots(Free(m, i)) = UsedSlots(m) \ {i}
           /\ \A j \in UsedSlots(m) \ {i} : Free(m, i).slots[j] = m.slots[j]
<1> DEFINE r == RecordAllToInternalMementos(m)
           f == Free(m, i)
           theirs == InKeys(m.slots[i].keys)
<1>1. Memory(r) /\ r.slots = m.slots /\ UsedSlots(r) = UsedSlots(m)
  BY RecordAll DEF UsedSlots
<1>2. /\ IsBattle(f)
      /\ f.live = m.live /\ f.globals = m.globals /\ f.handles \subseteq Tasks
      /\ f.key = r.key /\ f.tracked = r.tracked
      /\ IsArray(f.slots)
      /\ f.slots[i] = Unused
      /\ \A j \in 1 .. NUM_SAVE_STATES : j # i => f.slots[j] = m.slots[j]
      /\ f.heap = Without(r.heap, theirs)
  BY FreeRoundTrip
<1> HIDE DEF r, f
<1>3. UsedSlots(f) = UsedSlots(m) \ {i}
  BY <1>2 DEF UsedSlots, Unused, Memory, IsArray
<1>4. \A j \in UsedSlots(m) \ {i} : f.slots[j] = m.slots[j] /\ j # i /\ f.slots[j] = r.slots[j]
  BY <1>1, <1>2 DEF UsedSlots, Memory, IsArray
<1>5. OwnedOnce(r) /\ IsFiniteSet(DOMAIN r.heap)
  BY <1>1 DEF Memory
<1>6. \A x : x \in Bufs(m.slots[i].keys) <=> x # None /\ x \in theirs
  BY DEF Bufs, InKeys
<1>7. /\ \A x : x \in DOMAIN f.heap <=> x \in DOMAIN r.heap /\ x \notin theirs
      /\ \A x \in DOMAIN f.heap : f.heap[x] = r.heap[x]
  BY <1>2 DEF Without
<1> HIDE DEF theirs
<1>8. \A x \in Bufs(f.key) : x \in DOMAIN f.heap
  <2>1. \A x \in Bufs(f.key) : x # None
    BY DEF Bufs, InKeys
  <2> QED BY <2>1, <1>1, <1>2, <1>5, <1>6, <1>7 DEF OwnedOnce
<1>9. \A j \in UsedSlots(m) \ {i} : \A x \in Bufs(m.slots[j].keys) : x \in DOMAIN f.heap
  <2>1. \A j \in UsedSlots(m) : \A x \in Bufs(m.slots[j].keys) : x # None
    BY DEF Bufs, InKeys
  <2> QED BY <2>1, <1>1, <1>5, <1>6, <1>7 DEF OwnedOnce
<1>10. ASSUME NEW x \in DOMAIN f.heap
       PROVE  x \in Bufs(f.key) \/ \E j \in UsedSlots(f) : x \in Bufs(f.slots[j].keys)
  <2>1. x \in DOMAIN r.heap /\ x \notin Bufs(m.slots[i].keys)
    BY <1>6, <1>7
  <2>2. x \in Bufs(r.key) \/ \E j \in UsedSlots(m) : x \in Bufs(m.slots[j].keys)
    BY <2>1, <1>1, <1>5 DEF OwnedOnce
  <2> QED BY <2>1, <2>2, <1>2, <1>3, <1>4
<1>11. OwnedOnce(f)
  <2>1. /\ \A j \in UsedSlots(f) : Bufs(f.slots[j].keys) \cap Bufs(f.key) = {}
        /\ \A j, k \in UsedSlots(f) :
                j # k => Bufs(f.slots[j].keys) \cap Bufs(f.slots[k].keys) = {}
    BY <1>1, <1>2, <1>3, <1>4, <1>5 DEF OwnedOnce
  <2>2. \A j \in UsedSlots(f) : \A x \in Bufs(f.slots[j].keys) : x \in DOMAIN f.heap
    BY <1>3, <1>4, <1>9
  <2> QED BY <2>1, <2>2, <1>8, <1>10 DEF OwnedOnce
<1>12. \A j \in UsedSlots(f) : Recorded(f, f.slots[j])
  <2> SUFFICES ASSUME NEW j \in UsedSlots(m) \ {i}
               PROVE  Recorded(f, m.slots[j])
    BY <1>3, <1>4
  <2>1. Recorded(r, m.slots[j])
    BY <1>1 DEF Memory
  <2>2. \A k \in Exist(m.slots[j].globals) : m.slots[j].keys[k] \in Bufs(m.slots[j].keys)
    BY <2>1 DEF Recorded, Bufs, InKeys
  <2>3. \A k \in Exist(m.slots[j].globals) :
            f.heap[m.slots[j].keys[k]] = r.heap[m.slots[j].keys[k]]
    BY <2>2, <1>7, <1>9
  <2> QED BY <2>1, <2>3 DEF Recorded
<1>13. IsFiniteSet(DOMAIN f.heap)
  BY <1>5, <1>7, FS_Subset
<1>14. Memory(f)
  <2>1. /\ m.globals \in Seq(Inputs) /\ m.live = AllFrom(m.globals)
    BY DEF Memory
  <2>2. /\ r.tracked \subseteq Objects /\ IsKeys(r.key) /\ KeysOK(r.key)
        /\ \A k \in Objects : r.key[k] # None => k \in r.tracked
    BY <1>1 DEF Memory
  <2> QED BY <2>1, <2>2, <1>2, <1>11, <1>12, <1>13 DEF Memory
<1> QED BY <1>2, <1>3, <1>4, <1>14 DEF f

-----------------------------------------------------------------------------

(* Two battles that differ in their sounds only have the same memory.       *)
SameMemory(m, r) ==
    /\ r.live = m.live /\ r.globals = m.globals /\ r.handles = m.handles
    /\ r.key = m.key /\ r.tracked = m.tracked /\ r.heap = m.heap
    /\ r.slots = m.slots

LEMMA MemoryOnly ==
    ASSUME NEW m, Memory(m), NEW r, IsBattle(r), SameMemory(m, r)
    PROVE  Memory(r) /\ UsedSlots(r) = UsedSlots(m)
<1>1. UsedSlots(r) = UsedSlots(m)
  BY DEF UsedSlots, SameMemory
<1>2. OwnedOnce(r)
  BY <1>1 DEF Memory, OwnedOnce, SameMemory
<1>3. \A i \in UsedSlots(r) : Recorded(r, r.slots[i])
  BY <1>1 DEF Memory, Recorded, SameMemory
<1> QED BY <1>1, <1>2, <1>3 DEF Memory, SameMemory

(* The queue of stops, and the keys, replaced.                              *)
WithQueue(m, queue) == [m EXCEPT !.queue = queue]
WithKey(m, key) == [m EXCEPT !.key = key]

LEMMA WithQueueIs ==
    ASSUME NEW m, IsBattle(m), NEW queue
    PROVE  IsBattle(WithQueue(m, queue)) /\ SameMemory(m, WithQueue(m, queue))
BY DEF IsBattle, WithQueue, SameMemory

LEMMA WithKeyIs ==
    ASSUME NEW m, IsBattle(m), NEW key, NEW r, r = WithKey(m, key)
    PROVE  /\ IsBattle(r) /\ SameSounds(m, r)
           /\ r.live = m.live /\ r.globals = m.globals /\ r.handles = m.handles
           /\ r.key = key /\ r.tracked = m.tracked /\ r.heap = m.heap
           /\ r.slots = m.slots
BY DEF IsBattle, WithKey, SameSounds

(* The sound operations leave everything but the sounds alone.              *)
LEMMA StopSoundIs ==
    ASSUME NEW m, IsBattle(m), NEW a
    PROVE  IsBattle(StopSound(m, a)) /\ SameMemory(m, StopSound(m, a))
<1> DEFINE stopped == [m.stub[a] EXCEPT !.live = FALSE]
           stub == [m.stub EXCEPT ![a] = stopped]
           queue == Append(m.queue, stopped)
<1>1. StopSound(m, a) = [m EXCEPT !.stub = stub, !.queue = queue]
  BY DEF StopSound
<1> HIDE DEF stub, queue
<1> QED BY <1>1 DEF IsBattle, SameMemory

LEMMA PlaySoundIs ==
    ASSUME NEW m, IsBattle(m), NEW cue, NEW frame
    PROVE  IsBattle(PlaySound(m, cue, frame)) /\ SameMemory(m, PlaySound(m, cue, frame))
<1> DEFINE busy == EnginePlaySound(m.stub, cue) = NoAdapter
           freed == IF busy THEN StopSound(m, Oldest(m.stub)) ELSE m
           a == EnginePlaySound(freed.stub, cue)
           queue == IF freed.stub[a].live
                    THEN Append(freed.queue, freed.stub[a])
                    ELSE freed.queue
           stub == [freed.stub EXCEPT ![a] = [live |-> TRUE, cue |-> cue, frame |-> frame]]
<1>1. PlaySound(m, cue, frame) = [freed EXCEPT !.stub = stub, !.queue = queue]
  BY DEF PlaySound
<1>2. IsBattle(freed) /\ SameMemory(m, freed)
  <2> HIDE DEF busy
  <2>1. CASE busy
    BY <2>1, StopSoundIs
  <2>2. CASE ~busy
    BY <2>2 DEF SameMemory
  <2> QED BY <2>1, <2>2
<1> HIDE DEF freed, stub, queue
<1> QED BY <1>1, <1>2 DEF IsBattle, SameMemory

LEMMA StopAllIs ==
    ASSUME NEW m, IsBattle(m)
    PROVE  IsBattle(StopAll(m)) /\ SameMemory(m, StopAll(m))
<1> DEFINE stopped == [a \in Adapters |-> [m.stub[a] EXCEPT !.live = FALSE]]
           queue == m.queue \o stopped
<1>1. StopAll(m) = [m EXCEPT !.stub = stopped, !.queue = queue]
  BY DEF StopAll
<1> HIDE DEF stopped, queue
<1> QED BY <1>1 DEF IsBattle, SameMemory

(* A sound request touches the stub and its queue only.                     *)
LEMMA SoundedIs ==
    ASSUME NEW m, IsBattle(m), NEW input, NEW frame
    PROVE  IsBattle(Sounded(m, input, frame)) /\ SameMemory(m, Sounded(m, input, frame))
<1>1. \/ Sounded(m, input, frame) = PlaySound(m, input[2], frame)
      \/ Sounded(m, input, frame) = StopSound(m, input[2])
      \/ Sounded(m, input, frame) = StopAll(m)
      \/ Sounded(m, input, frame) = m
  BY DEF Sounded
<1>2. SameMemory(m, m)
  BY DEF SameMemory
<1> QED BY <1>1, <1>2, PlaySoundIs, StopSoundIs, StopAllIs

(* A sync touches the real manager only.                                    *)
LEMMA SyncStateIs ==
    ASSUME NEW m, IsBattle(m)
    PROVE  IsBattle(SyncState(m)) /\ SameMemory(m, SyncState(m))
<1>1. PICK real, started :
            SyncState(m) = [m EXCEPT !.real = real, !.queue = <<>>, !.started = started]
  BY DEF SyncState
<1> QED BY <1>1 DEF IsBattle, SameMemory

(* Load puts the live keys back: the slot keeps its buffers, and the live   *)
(* state becomes the one the slot was recorded from.                        *)
LEMMA LoadIs ==
    ASSUME NEW m, Memory(m), NEW i \in UsedSlots(m)
    PROVE  /\ Memory(Load(m, i))
           /\ Load(m, i).globals = m.slots[i].globals
           /\ Load(m, i).slots = m.slots
           /\ UsedSlots(Load(m, i)) = UsedSlots(m)
<1> DEFINE src == m.slots[i]
           aside == WithQueue(m, <<>>)
           z == ZeroKeys(aside, m.tracked)
           p == CopyIntoPlace(z, src)
           y == ZeroKeys(p, DOMAIN src.keys)
           l == WithKey(y, Over([k \in m.tracked |-> m.key[k]], y.key))
<1>1. Load(m, i) = l
  BY DEF Load, WithQueue, WithKey
<1>2. IsBattle(aside) /\ SameMemory(m, aside)
  BY WithQueueIs DEF Memory
<1>3. /\ z = ZeroKeys(aside, m.tracked) /\ p = CopyIntoPlace(z, src)
      /\ y = ZeroKeys(p, DOMAIN src.keys)
      /\ l = WithKey(y, Over([k \in m.tracked |-> m.key[k]], y.key))
  OBVIOUS
<1>4. Recorded(m, src) /\ OwnedOnce(m) /\ IsKeys(m.key)
      /\ \A k \in Objects : m.key[k] # None => k \in m.tracked
  BY DEF Memory
<1> HIDE DEF src, aside, z, p, y, l
<1>5. /\ IsBattle(z) /\ IsKeys(z.key)
      /\ \A k \in Objects : z.key[k] = IF k \in m.tracked THEN None ELSE aside.key[k]
      /\ z.tracked = m.tracked /\ z.heap = m.heap /\ z.slots = m.slots
  BY <1>2, <1>3, ZeroKeysIs DEF SameMemory
<1>6. \A k \in Objects : z.key[k] = None
  BY <1>2, <1>4, <1>5 DEF SameMemory
<1>7. \A k \in Exist(src.globals) : src.keys[k] \in DOMAIN z.heap
  <2>1. \A k \in Exist(src.globals) : src.keys[k] \in Bufs(src.keys)
    BY <1>4 DEF Recorded, Bufs, InKeys
  <2> QED BY <2>1, <1>4, <1>5 DEF OwnedOnce, src
<1>8. Recorded(z, src)
  BY <1>4, <1>5 DEF Recorded
<1>9. /\ IsBattle(p) /\ p.live = AllFrom(src.globals)
      /\ p.handles \subseteq Tasks /\ p.globals = src.globals
      /\ IsKeys(p.key)
      /\ \A k \in Objects : p.key[k] = IF k \in DOMAIN src.keys THEN src.keys[k] ELSE z.key[k]
      /\ p.tracked = z.tracked /\ p.heap = z.heap /\ p.slots = z.slots
  BY <1>3, <1>5, <1>7, <1>8, CopyIntoPlaceReads
<1>10. /\ IsBattle(y) /\ IsKeys(y.key)
       /\ \A k \in Objects : y.key[k] = IF k \in DOMAIN src.keys THEN None ELSE p.key[k]
       /\ y.live = p.live /\ y.globals = p.globals /\ y.handles = p.handles
       /\ y.tracked = p.tracked /\ y.heap = p.heap /\ y.slots = p.slots
  BY <1>3, <1>9, ZeroKeysIs
<1>11. Over([k \in m.tracked |-> m.key[k]], y.key) = m.key
  <2>1. \A k \in Objects : y.key[k] = None
    BY <1>6, <1>9, <1>10
  <2>2. m.tracked \subseteq Objects
    BY DEF Memory
  <2> QED BY <2>1, <2>2, <1>4, <1>10 DEF Over, IsKeys
<1>12. l = WithKey(y, m.key)
  BY <1>3, <1>11
<1>13. /\ IsBattle(l)
       /\ l.live = y.live /\ l.globals = y.globals /\ l.handles = y.handles
       /\ l.key = m.key /\ l.tracked = y.tracked /\ l.heap = y.heap
       /\ l.slots = y.slots
  BY <1>10, <1>12, WithKeyIs
<1>14. /\ l.globals = src.globals /\ l.live = AllFrom(src.globals) /\ l.handles \subseteq Tasks
       /\ l.tracked = m.tracked /\ l.heap = m.heap /\ l.slots = m.slots
  BY <1>5, <1>9, <1>10, <1>13
<1>15. UsedSlots(l) = UsedSlots(m)
  BY <1>14 DEF UsedSlots
<1>16. OwnedOnce(l) /\ \A j \in UsedSlots(l) : Recorded(l, l.slots[j])
  <2>1. \A j \in UsedSlots(m) : Recorded(m, m.slots[j])
    BY DEF Memory
  <2>2. \A j \in UsedSlots(l) : Recorded(l, l.slots[j])
    BY <2>1, <1>14, <1>15 DEF Recorded
  <2>3. OwnedOnce(l)
    BY <1>4, <1>13, <1>14, <1>15 DEF OwnedOnce
  <2> QED BY <2>2, <2>3
<1>17. src.globals \in Seq(Inputs)
  BY <1>4 DEF Recorded
<1>18. Memory(l)
  BY <1>13, <1>14, <1>16, <1>17 DEF Memory
<1> QED BY <1>1, <1>14, <1>15, <1>18 DEF src

(* The heap and the tracked keys replaced.                                  *)
WithTracked(m, heap, tracked) == [m EXCEPT !.heap = heap, !.tracked = tracked]

LEMMA WithTrackedIs ==
    ASSUME NEW m, IsBattle(m), NEW heap, NEW tracked, NEW r, r = WithTracked(m, heap, tracked)
    PROVE  /\ IsBattle(r) /\ r.heap = heap /\ r.tracked = tracked
           /\ r.live = m.live /\ r.globals = m.globals /\ r.handles = m.handles
           /\ r.key = m.key /\ r.slots = m.slots
BY DEF WithTracked, IsBattle

(* Clearing keys frees their buffers and touches no slot's.                 *)
LEMMA ClearKeyIs ==
    ASSUME NEW m, Memory(m), NEW gone, gone \subseteq Objects
    PROVE  /\ Memory(ClearKey(m, gone))
           /\ ClearKey(m, gone).globals = m.globals
           /\ ClearKey(m, gone).live = m.live
           /\ ClearKey(m, gone).slots = m.slots
<1> DEFINE theirs == {m.key[k] : k \in gone}
           h == WithTracked(m, Without(m.heap, theirs), m.tracked \ gone)
           c == ZeroKeys(h, gone)
<1>1. ClearKey(m, gone) = c /\ c = ZeroKeys(h, gone)
      /\ h = WithTracked(m, Without(m.heap, theirs), m.tracked \ gone)
  BY DEF ClearKey, WithTracked
<1>2. \A x : x \in theirs <=> \E k \in gone : x = m.key[k]
  OBVIOUS
<1> HIDE DEF theirs, h, c
<1>3. /\ IsBattle(h) /\ h.heap = Without(m.heap, theirs) /\ h.tracked = m.tracked \ gone
      /\ h.live = m.live /\ h.globals = m.globals /\ h.handles = m.handles
      /\ h.key = m.key /\ h.slots = m.slots
  BY <1>1, WithTrackedIs DEF Memory
<1>4. /\ IsBattle(c) /\ IsKeys(c.key)
      /\ \A k \in Objects : c.key[k] = IF k \in gone THEN None ELSE h.key[k]
      /\ c.live = h.live /\ c.globals = h.globals /\ c.handles = h.handles
      /\ c.tracked = h.tracked /\ c.heap = h.heap /\ c.slots = h.slots
  <2>1. c = ZeroKeys(h, gone) /\ IsBattle(h)
    BY <1>1, <1>3
  <2> QED BY <2>1, ZeroKeysIs
<1>5. /\ \A x : x \in DOMAIN c.heap <=> x \in DOMAIN m.heap /\ x \notin theirs
      /\ \A x \in DOMAIN c.heap : c.heap[x] = m.heap[x]
  BY <1>3, <1>4 DEF Without
<1>6. UsedSlots(c) = UsedSlots(m) /\ c.slots = m.slots
  BY <1>3, <1>4 DEF UsedSlots
<1>7. /\ IsKeys(m.key) /\ KeysOK(m.key) /\ OwnedOnce(m)
      /\ \A k \in Objects : m.key[k] # None => k \in m.tracked
  BY DEF Memory
<1>8. \A x \in theirs : x = None \/ x \in Bufs(m.key)
  BY <1>2, <1>7 DEF Bufs, InKeys, IsKeys
<1>9. ASSUME NEW x
      PROVE  x \in Bufs(c.key) <=> x \in Bufs(m.key) /\ x \notin theirs
  <2>1. x \in Bufs(c.key) <=> \E k \in Objects : k \notin gone /\ x # None /\ x = m.key[k]
    BY <1>3, <1>4 DEF Bufs, InKeys, IsKeys
  <2>2. x \in Bufs(m.key) <=> \E k \in Objects : x # None /\ x = m.key[k]
    BY <1>7 DEF Bufs, InKeys, IsKeys
  <2>3. \A j, k \in Objects : m.key[j] = m.key[k] /\ m.key[k] # None => j = k
    <3> SUFFICES ASSUME NEW j \in Objects, NEW k \in Objects,
                        m.key[j] = m.key[k], m.key[k] # None
                 PROVE  j = k
      OBVIOUS
    <3>1. m.key[j] \in {j} \X Nat /\ m.key[k] \in {k} \X Nat
      BY <1>7 DEF KeysOK, IsKeys
    <3> QED BY <3>1, NoBufferIsNone
  <2> QED BY <2>1, <2>2, <2>3, <1>2
<1>10. \A j \in UsedSlots(m) : \A x \in Bufs(m.slots[j].keys) : x \notin theirs /\ x \in DOMAIN c.heap
  <2>1. \A j \in UsedSlots(m) : \A x \in Bufs(m.slots[j].keys) : x # None
    BY DEF Bufs
  <2> QED BY <2>1, <1>5, <1>7, <1>8 DEF OwnedOnce
<1>11. OwnedOnce(c)
  <2>1. \A j \in UsedSlots(c) : Bufs(c.slots[j].keys) \cap Bufs(c.key) = {}
    BY <1>6, <1>7, <1>9 DEF OwnedOnce
  <2>2. \A x \in Bufs(c.key) : x \in DOMAIN c.heap
    BY <1>5, <1>7, <1>9 DEF OwnedOnce
  <2>3. ASSUME NEW x \in DOMAIN c.heap
        PROVE  x \in Bufs(c.key) \/ \E j \in UsedSlots(c) : x \in Bufs(c.slots[j].keys)
    BY <1>5, <1>6, <1>7, <1>9 DEF OwnedOnce
  <2> QED BY <2>1, <2>2, <2>3, <1>6, <1>7, <1>10 DEF OwnedOnce
<1>12. \A j \in UsedSlots(c) : Recorded(c, c.slots[j])
  <2> SUFFICES ASSUME NEW j \in UsedSlots(m)
               PROVE  Recorded(c, m.slots[j])
    BY <1>6
  <2>1. Recorded(m, m.slots[j])
    BY DEF Memory
  <2>2. \A k \in Exist(m.slots[j].globals) : m.slots[j].keys[k] \in Bufs(m.slots[j].keys)
    BY <2>1 DEF Recorded, Bufs, InKeys
  <2>3. \A k \in Exist(m.slots[j].globals) :
            c.heap[m.slots[j].keys[k]] = m.heap[m.slots[j].keys[k]]
    BY <2>2, <1>5, <1>10
  <2> QED BY <2>1, <2>3 DEF Recorded
<1>13. IsFiniteSet(DOMAIN c.heap)
  BY <1>5, FS_Subset DEF Memory
<1>14. KeysOK(c.key) /\ \A k \in Objects : c.key[k] # None => k \in c.tracked
  BY <1>3, <1>4, <1>7 DEF KeysOK, IsKeys
<1>15. Memory(c)
  BY <1>3, <1>4, <1>11, <1>12, <1>13, <1>14 DEF Memory
<1> QED BY <1>1, <1>3, <1>4, <1>15

(* A frame: every object that is there afterwards comes from the longer     *)
(* history, and no slot is touched.                                         *)
LEMMA EngineBattleUpdateIs ==
    ASSUME NEW m, Memory(m), NEW input \in Inputs
    PROVE  LET r == EngineBattleUpdate(m, input) IN
           /\ Memory(r)
           /\ r.globals = Append(m.globals, input)
           /\ r.slots = m.slots
           /\ UsedSlots(r) = UsedSlots(m)
<1> DEFINE history == Append(m.globals, input)
           there == Exist(history)
           gone == DOMAIN m.live \ there
           sounded == Sounded(m, input, Len(m.globals))
           c == ClearKey(sounded, gone)
           next(k) == IF k \notin DOMAIN m.live THEN history
                      ELSE IF m.live[k] = Garbage THEN Garbage
                      ELSE Append(m.live[k], input)
           handles == (m.handles \cup (there \ DOMAIN m.live)) \ ({Unit} \cup gone)
           r == EngineBattleUpdate(m, input)
<1>1. r = [c EXCEPT !.globals = history, !.live = [k \in there |-> next(k)],
                    !.handles = handles]
  BY DEF EngineBattleUpdate
<1>2. m.live = AllFrom(m.globals) /\ m.globals \in Seq(Inputs) /\ m.globals # Garbage
  BY RollbackAssumption DEF Memory
<1>3. [k \in there |-> next(k)] = AllFrom(history)
  BY <1>2 DEF AllFrom
<1>4. /\ there \subseteq Objects /\ DOMAIN m.live \subseteq Objects
  BY <1>2, UnitThere DEF AllFrom
<1>5. handles \subseteq Tasks
  BY <1>4 DEF Memory, Objects
<1>6. /\ Memory(c) /\ c.slots = m.slots
  <2>1. IsBattle(sounded) /\ SameMemory(m, sounded)
    BY SoundedIs DEF Memory
  <2>2. Memory(sounded) /\ sounded.slots = m.slots
    BY <2>1, MemoryOnly DEF SameMemory
  <2>3. gone \subseteq Objects
    BY <1>4
  <2> HIDE DEF sounded, gone
  <2> QED BY <2>2, <2>3, ClearKeyIs
<1>7. history \in Seq(Inputs)
  BY <1>2
<1> DEFINE live == AllFrom(history)
<1> HIDE DEF c, r, handles, live
<1>8. r = [c EXCEPT !.globals = history, !.live = live, !.handles = handles]
  BY <1>1, <1>3 DEF live
<1> HIDE DEF history, there
<1>9. /\ IsBattle(r)
      /\ r.live = live /\ r.globals = history /\ r.handles = handles
      /\ r.key = c.key /\ r.tracked = c.tracked /\ r.heap = c.heap
      /\ r.slots = c.slots
  BY <1>6, <1>8 DEF Memory, IsBattle
<1>10. UsedSlots(r) = UsedSlots(c) /\ UsedSlots(c) = UsedSlots(m)
  BY <1>6, <1>9 DEF UsedSlots
<1>11. OwnedOnce(r)
  BY <1>6, <1>9, <1>10 DEF Memory, OwnedOnce
<1>12. \A j \in UsedSlots(r) : Recorded(r, r.slots[j])
  <2>1. \A j \in UsedSlots(c) : Recorded(c, c.slots[j])
    BY <1>6 DEF Memory
  <2> QED BY <2>1, <1>9, <1>10 DEF Recorded
<1>13. Memory(r)
  BY <1>5, <1>6, <1>7, <1>9, <1>11, <1>12 DEF Memory, live
<1> QED BY <1>6, <1>9, <1>10, <1>13 DEF r, history

-----------------------------------------------------------------------------
(* The loops that free slots.                                               *)

(* A nonempty set of naturals has a least element.                          *)
LEMMA LeastIn ==
    ASSUME NEW T \in SUBSET Nat, T # {}
    PROVE  \E x \in T : \A y \in T : x <= y
<1> DEFINE Less == {ss \in Nat \X Nat : ss[1] < ss[2]}
<1>1. IsWellFoundedOn(Less, Nat)
  BY NatLessThanWellFounded, Zenon DEF OpToRel
<1> HIDE DEF Less
<1>2. PICK x \in T : \A y \in T : ~(<<y, x>> \in Less)
  BY <1>1, WFMin
<1>3. ASSUME NEW y \in T
      PROVE  x <= y
  <2>1. y \in Nat /\ x \in Nat
    OBVIOUS
  <2>2. y < x => <<y, x>> \in Nat \X Nat /\ <<y, x>>[1] < <<y, x>>[2]
    BY <2>1
  <2>3. ~(y < x)
    BY <2>2, <1>2, Zenon DEF Less
  <2> QED BY <2>1, <2>3
<1> QED BY <1>3

(* One pass of a loop that frees slots, and the loop as a function.         *)
Pass(before, i) == IF i = None THEN before ELSE Free(before, i)

Loop(m, todo, l, f) ==
    f = [n \in 0 .. l |-> IF n = 0 THEN m ELSE Pass(f[n - 1], todo[n])]

(* The loop runs to its end: there is such a function.                      *)
LEMMA LoopExists ==
    ASSUME NEW m, NEW todo, NEW l \in Nat
    PROVE  \E f : Loop(m, todo, l, f)
<1> DEFINE T == {x \in Nat : ~ \E f : Loop(m, todo, x, f)}
<1> SUFFICES ASSUME T # {} PROVE FALSE
  OBVIOUS
<1>1. PICK x \in T : \A y \in T : x <= y
  BY LeastIn
<1>2. CASE x = 0
  <2>1. Loop(m, todo, 0, [n \in 0 .. 0 |-> m])
    BY DEF Loop
  <2> QED BY <1>2, <2>1
<1>3. CASE x # 0
  <2>1. x - 1 \in Nat /\ x - 1 \notin T
    BY <1>1, <1>3
  <2>2. PICK f : Loop(m, todo, x - 1, f)
    BY <2>1
  <2> DEFINE g == [n \in 0 .. x |-> IF n = x THEN Pass(f[n - 1], todo[n]) ELSE f[n]]
  <2>3. \A n \in 0 .. x : g[n] = IF n = 0 THEN m ELSE Pass(g[n - 1], todo[n])
    BY <1>3, <2>2 DEF Loop
  <2>4. g = [n \in 0 .. x |-> g[n]]
    OBVIOUS
  <2> HIDE DEF g
  <2>5. g = [n \in 0 .. x |-> IF n = 0 THEN m ELSE Pass(g[n - 1], todo[n])]
    BY <2>3, <2>4
  <2> QED BY <2>5 DEF Loop
<1> QED BY <1>2, <1>3

LEMMA FreeEachLoops ==
    ASSUME NEW m, NEW todo, Len(todo) \in Nat
    PROVE  \E f : Loop(m, todo, Len(todo), f) /\ FreeEach(m, todo) = f[Len(todo)]
<1> DEFINE f == CHOOSE f : Loop(m, todo, Len(todo), f)
<1>1. Loop(m, todo, Len(todo), f)
  BY LoopExists
<1>2. FreeEach(m, todo) = f[Len(todo)]
  BY DEF FreeEach, Loop, Pass
<1> QED BY <1>1, <1>2

(* Freeing slots one after the other keeps the memory and unuses those      *)
(* slots only.                                                              *)
LEMMA FreeEachIs ==
    ASSUME NEW m, Memory(m), NEW todo, Len(todo) \in Nat,
           \A n \in 1 .. Len(todo) : todo[n] = None \/ todo[n] \in UsedSlots(m),
           \A n, k \in 1 .. Len(todo) : todo[n] = todo[k] /\ todo[n] # None => n = k
    PROVE  /\ Memory(FreeEach(m, todo))
           /\ FreeEach(m, todo).globals = m.globals
           /\ FreeEach(m, todo).live = m.live
           /\ UsedSlots(FreeEach(m, todo)) = UsedSlots(m) \ {todo[n] : n \in 1 .. Len(todo)}
<1>1. PICK f : Loop(m, todo, Len(todo), f) /\ FreeEach(m, todo) = f[Len(todo)]
  BY FreeEachLoops
<1> DEFINE P(l) == /\ Memory(f[l]) /\ f[l].globals = m.globals /\ f[l].live = m.live
                   /\ UsedSlots(f[l]) = UsedSlots(m) \ {todo[n] : n \in 1 .. l}
           T == {l \in 0 .. Len(todo) : ~P(l)}
<1>2. f[0] = m /\ \A n \in 1 .. Len(todo) : f[n] = Pass(f[n - 1], todo[n])
  BY <1>1 DEF Loop
<1>3. ASSUME T # {} PROVE FALSE
  <2>1. PICK x \in T : \A y \in T : x <= y
    <3>1. T \in SUBSET Nat /\ T # {}
      BY <1>3
    <3> HIDE DEF T
    <3> QED BY <3>1, LeastIn
  <2>2. x # 0
    BY <1>2
  <2>3. x - 1 \in 0 .. Len(todo) /\ x \in 1 .. Len(todo) /\ P(x - 1)
    BY <2>1, <2>2
  <2>4. f[x] = Pass(f[x - 1], todo[x])
    BY <1>2, <2>3
  <2>5. {todo[n] : n \in 1 .. x} = {todo[n] : n \in 1 .. x - 1} \cup {todo[x]}
    BY <2>3
  <2>6. None \notin UsedSlots(m)
    BY RollbackAssumption DEF UsedSlots, Memory, IsArray
  <2>7. CASE todo[x] = None
    BY <2>3, <2>4, <2>5, <2>6, <2>7 DEF Pass
  <2>8. CASE todo[x] # None
    <3>1. todo[x] \in UsedSlots(f[x - 1])
      BY <2>3, <2>8
    <3>2. f[x] = Free(f[x - 1], todo[x])
      BY <2>4, <2>8 DEF Pass
    <3>3. P(x)
      BY <2>3, <2>5, <3>1, <3>2, FreeIs
    <3> QED BY <3>3
  <2> QED BY <2>7, <2>8
<1>4. P(Len(todo))
  BY <1>3
<1> QED BY <1>1, <1>4

-----------------------------------------------------------------------------
(* The ring.                                                                *)

(* First picks one of the set.                                              *)
LEMMA FirstIn ==
    ASSUME NEW S \in SUBSET Nat, S # {}
    PROVE  First(S) \in S
BY LeastIn DEF First

(* The ring positions of two frames within one turn of it differ.           *)
LEMMA ModNext ==
    ASSUME NEW n \in Nat
    PROVE  /\ n % NUM_SAVE_STATES \in Ring
           /\ ((n % NUM_SAVE_STATES) + 1) % NUM_SAVE_STATES = (n + 1) % NUM_SAVE_STATES
<1> DEFINE N == NUM_SAVE_STATES
           q == n \div N
           x == n % N
<1>1. N \in Nat \ {0} /\ Ring = 0 .. N - 1 /\ N > 1
  BY SaveStatesAssumption DEF NUM_SAVE_STATES, Ring
<1> HIDE DEF N
<1>2. x \in 0 .. N - 1 /\ n = N * q + x /\ q \in Nat
  BY <1>1
<1> HIDE DEF q, x
<1>3. CASE x + 1 < N
  <2>1. (x + 1) % N = x + 1
    BY <1>1, <1>2, <1>3
  <2>2. (N * q + (x + 1)) % N = x + 1
    BY <1>1, <1>2, <1>3
  <2>3. n + 1 = N * q + (x + 1)
    BY <1>1, <1>2
  <2> QED BY <1>1, <1>2, <2>1, <2>2, <2>3 DEF N, x
<1>4. CASE x + 1 = N
  <2>1. (x + 1) % N = 0
    BY <1>1, <1>2, <1>4
  <2>2. n + 1 = N * (q + 1) + 0
    BY <1>1, <1>2, <1>4
  <2>3. (N * (q + 1) + 0) % N = 0
    BY <1>1, <1>2
  <2> QED BY <1>1, <1>2, <2>1, <2>2, <2>3 DEF N, x
<1> QED BY <1>1, <1>2, <1>3, <1>4

(* Counted out: the positions but one cannot hold every slot.               *)
LEMMA SlotLeft ==
    ASSUME NEW ring, NEW p \in Ring, NEW P, P \subseteq Ring \ {p}
    PROVE  \E i \in 1 .. NUM_SAVE_STATES : i \notin {ring[q].slot : q \in P}
<1> SUFFICES ASSUME \A i \in 1 .. NUM_SAVE_STATES : \E q \in P : ring[q].slot = i
             PROVE  FALSE
  OBVIOUS
<1>1. /\ NUM_SAVE_STATES \in Nat /\ NUM_SAVE_STATES > 1 /\ Ring = 0 .. NUM_SAVE_STATES - 1
  BY SaveStatesAssumption DEF NUM_SAVE_STATES, Ring
<1>2. /\ IsFiniteSet(1 .. NUM_SAVE_STATES) /\ Cardinality(1 .. NUM_SAVE_STATES) = NUM_SAVE_STATES
      /\ IsFiniteSet(Ring) /\ Cardinality(Ring) = NUM_SAVE_STATES
  BY <1>1, FS_Interval
<1>3. IsFiniteSet(Ring \ {p}) /\ Cardinality(Ring \ {p}) = NUM_SAVE_STATES - 1
  BY <1>2, FS_RemoveElement
<1>4. IsFiniteSet(P) /\ Cardinality(P) <= NUM_SAVE_STATES - 1 /\ Cardinality(P) \in Nat
  BY <1>3, FS_Subset, FS_CardinalityType
<1> DEFINE f == [i \in 1 .. NUM_SAVE_STATES |-> CHOOSE q \in P : ring[q].slot = i]
<1>5. f \in [1 .. NUM_SAVE_STATES -> P] /\ \A i \in 1 .. NUM_SAVE_STATES : ring[f[i]].slot = i
  OBVIOUS
<1>6. Cardinality(P) < Cardinality(1 .. NUM_SAVE_STATES)
  BY <1>1, <1>2, <1>4
<1> HIDE DEF f
<1>7. \E x, y \in 1 .. NUM_SAVE_STATES : x # y /\ f[x] = f[y]
  <2> DEFINE S == 1 .. NUM_SAVE_STATES
  <2>1. f \in [S -> P] /\ IsFiniteSet(S) /\ IsFiniteSet(P) /\ Cardinality(P) < Cardinality(S)
    BY <1>2, <1>4, <1>5, <1>6
  <2> HIDE DEF S
  <2>2. \E x, y \in S : x # y /\ f[x] = f[y]
    BY ONLY SMTT(30), <2>1, FS_PigeonHole
  <2> QED BY <2>2 DEF S
<1> QED BY <1>5, <1>7

(* A session has its three fields.                                          *)
Fields(s) == s = [battle |-> s.battle, ggpo |-> s.ggpo, phase |-> s.phase]

\* The state in which a frame is saved: the position it is saved to may hold
\* a frame of a timeline gone back from.
(* A fight whose frame has been counted and not yet saved.                  *)
Arrived(s) ==
    /\ Fields(s)
    /\ Memory(s.battle)
    /\ IsSession(s.ggpo)
    /\ RingHoldsSlots(s)
    /\ s.ggpo.frame = Len(s.battle.globals)
    /\ s.ggpo.head = s.ggpo.frame % NUM_SAVE_STATES
    /\ \A p \in Positions(s.ggpo) : p # s.ggpo.head => KeepsFrame(s, p)
    /\ s.ggpo.ring[0] = None => s.ggpo.head = 0

(* One ring position replaced.                                              *)
WithRing(g, p, entry) == [g EXCEPT !.ring[p] = entry]

(* A session after a save into slot i.                                      *)
Saved(s, m, i) ==
    [battle |-> SaveInto(m, i),
     ggpo |-> [ring |-> [s.ggpo.ring EXCEPT ![s.ggpo.head] = [frame |-> s.ggpo.frame, slot |-> i]],
               head |-> (s.ggpo.head + 1) % (Prediction + 2),
               frame |-> s.ggpo.frame, unsure |-> s.ggpo.unsure, target |-> s.ggpo.target],
     phase |-> s.phase]

(* GGPO's save frees the position it saves to and finds an unused slot.     *)
LEMMA SaveCurrentFrameIs ==
    ASSUME NEW s, Fields(s), IsSession(s.ggpo), s.ggpo.head \in Ring,
           NEW f, f = ggpo_free_buffer(s, s.ggpo.ring[s.ggpo.head]),
           FreeSlots(f.battle) # {}
    PROVE  SaveCurrentFrame(s) = Saved(s, f.battle, First(FreeSlots(f.battle)))
<1> DEFINE g == s.ggpo
           p == g.head
           b == f.battle
           i == First(FreeSlots(b))
           entry == [frame |-> g.frame, slot |-> i]
           cut == [g.ring EXCEPT ![p] = None]
           ring == [g.ring EXCEPT ![p] = entry]
           g1 == [ring |-> cut, head |-> p, frame |-> g.frame, unsure |-> g.unsure, target |-> g.target]
           g2 == [ring |-> ring, head |-> p, frame |-> g.frame, unsure |-> g.unsure, target |-> g.target]
           s1 == [battle |-> b, ggpo |-> g1, phase |-> s.phase]
           s2 == [battle |-> SaveInto(b, i), ggpo |-> g2, phase |-> s.phase]
<1>1. g = [ring |-> g.ring, head |-> p, frame |-> g.frame, unsure |-> g.unsure, target |-> g.target]
      /\ g.ring = [q \in Ring |-> g.ring[q]]
  BY DEF IsSession
<1>2. f = [battle |-> b, ggpo |-> g, phase |-> s.phase]
  <2>1. f = s \/ \E m : f = [s EXCEPT !.battle = m]
    BY DEF ggpo_free_buffer
  <2> HIDE DEF g
  <2> QED BY <2>1 DEF Fields, g
<1> HIDE DEF b, g, p, cut, ring, i
<1>3. [f EXCEPT !.ggpo.ring[p] = None] = s1
  <2>1. [f EXCEPT !.ggpo.ring[p] = None]
            = [f EXCEPT !.ggpo = [f.ggpo EXCEPT !.ring = [f.ggpo.ring EXCEPT ![p] = None]]]
    OBVIOUS
  <2>2. [f.ggpo EXCEPT !.ring = [f.ggpo.ring EXCEPT ![p] = None]] = [g EXCEPT !.ring = cut]
    BY <1>2 DEF cut
  <2>3. [g EXCEPT !.ring = cut] = g1
    BY <1>1
  <2> HIDE DEF g1
  <2>4. [f EXCEPT !.ggpo = g1] = s1
    BY <1>2
  <2> QED BY <2>1, <2>2, <2>3, <2>4
<1>4. s1.battle = b /\ s1.ggpo.head = p /\ s1.ggpo.frame = g.frame /\ s1.ggpo.ring = cut
  OBVIOUS
<1>5. ggpo_save_game_state_callback(s1)
        = [s1 EXCEPT !.battle = SaveInto(b, i), !.ggpo.ring[p] = entry]
  <2> HIDE DEF s1, g1
  <2> QED BY <1>4 DEF ggpo_save_game_state_callback, b, i, g
<1>6. [s1 EXCEPT !.battle = SaveInto(b, i), !.ggpo.ring[p] = entry] = s2
  <2> DEFINE x == SaveInto(b, i)
             s3 == [s1 EXCEPT !.battle = x]
  <2>1. s3 = [battle |-> x, ggpo |-> g1, phase |-> s.phase]
    BY DEF s1
  <2>2. [s1 EXCEPT !.battle = x, !.ggpo.ring[p] = entry] = [s3 EXCEPT !.ggpo.ring[p] = entry]
    OBVIOUS
  <2> HIDE DEF s3, x, entry
  <2>3. [s3 EXCEPT !.ggpo.ring[p] = entry]
            = [s3 EXCEPT !.ggpo = [s3.ggpo EXCEPT !.ring = [s3.ggpo.ring EXCEPT ![p] = entry]]]
    OBVIOUS
  <2>4. [cut EXCEPT ![p] = entry] = ring
    BY <1>1 DEF cut, ring
  <2>5. [g1 EXCEPT !.ring = ring] = g2
    OBVIOUS
  <2>6. [s3.ggpo EXCEPT !.ring = [s3.ggpo.ring EXCEPT ![p] = entry]] = [g1 EXCEPT !.ring = ring]
    BY <2>1, <2>4
  <2> HIDE DEF g1, g2
  <2>7. [s3 EXCEPT !.ggpo = g2] = s2
    BY <2>1 DEF x
  <2> QED BY <2>2, <2>3, <2>5, <2>6, <2>7 DEF x
<1>7. SaveCurrentFrame(s) = [s2 EXCEPT !.ggpo.head = (@ + 1) % (Prediction + 2)]
  <2>1. SaveCurrentFrame(s)
            = [ggpo_save_game_state_callback([f EXCEPT !.ggpo.ring[p] = None])
                    EXCEPT !.ggpo.head = (@ + 1) % (Prediction + 2)]
    BY DEF SaveCurrentFrame, p, g
  <2> HIDE DEF s1, s2, entry
  <2> QED BY <2>1, <1>3, <1>5, <1>6
<1>8. [s2 EXCEPT !.ggpo.head = (@ + 1) % (Prediction + 2)] = Saved(s, b, i)
  <2>1. [s2 EXCEPT !.ggpo.head = (@ + 1) % (Prediction + 2)]
            = [s2 EXCEPT !.ggpo = [s2.ggpo EXCEPT !.head = (p + 1) % (Prediction + 2)]]
    OBVIOUS
  <2>2. [g2 EXCEPT !.head = (p + 1) % (Prediction + 2)]
            = [ring |-> ring, head |-> (p + 1) % (Prediction + 2), frame |-> g.frame,
               unsure |-> g.unsure, target |-> g.target]
    OBVIOUS
  <2> QED BY <2>1, <2>2 DEF Saved, ring, p, g
<1> QED BY <1>7, <1>8 DEF b, i

(* A frame is saved: GGPO frees the position first, so that a slot is free. *)
LEMMA SavesFrame ==
    ASSUME NEW s, Arrived(s)
    PROVE  LET r == SaveCurrentFrame(s) IN
           /\ Fields(r) /\ InStep(r) /\ r.ggpo.ring[0] # None
           /\ r.phase = s.phase /\ r.battle.globals = s.battle.globals
           /\ r.ggpo.frame = s.ggpo.frame /\ r.ggpo.unsure = s.ggpo.unsure
           /\ r.ggpo.target = s.ggpo.target
<1> DEFINE g == s.ggpo
           p == g.head
           f == ggpo_free_buffer(s, g.ring[p])
           b == f.battle
           i == First(FreeSlots(b))
           r == SaveCurrentFrame(s)
           kept == Positions(g) \ {p}
<1>1. /\ Fields(s) /\ Memory(s.battle) /\ IsSession(g) /\ RingHoldsSlots(s)
      /\ g.frame = Len(s.battle.globals) /\ g.frame \in Nat
      /\ p = g.frame % NUM_SAVE_STATES /\ p \in Ring
      /\ \A q \in kept : KeepsFrame(s, q)
      /\ g.ring[0] = None => p = 0
  BY ModNext DEF Arrived, IsSession
<1>2. kept \subseteq Ring \ {p}
  BY DEF Positions
<1>3. /\ Memory(b) /\ b.globals = s.battle.globals
      /\ UsedSlots(b) = {g.ring[q].slot : q \in kept}
      /\ \A j \in UsedSlots(b) : b.slots[j] = s.battle.slots[j]
  <2>1. CASE g.ring[p] = None
    <3>1. f = s /\ kept = Positions(g)
      BY <2>1 DEF ggpo_free_buffer, Positions
    <3> QED BY <1>1, <3>1 DEF RingHoldsSlots
  <2>2. CASE g.ring[p] # None
    <3>1. p \in Positions(g)
      BY <1>1, <2>2 DEF Positions
    <3> DEFINE v == g.ring[p].slot
    <3>2. v \in UsedSlots(s.battle)
      BY <3>1, <1>1 DEF RingHoldsSlots
    <3>3. b = Free(s.battle, v)
      BY <1>1, <2>2 DEF ggpo_free_buffer, Fields
    <3>4. UsedSlots(s.battle) \ {v} = {g.ring[q].slot : q \in kept}
      <4>1. \A q \in Positions(g) : g.ring[q].slot = v => q = p
        BY <3>1, <1>1 DEF IsSession
      <4>2. UsedSlots(s.battle) = {g.ring[q].slot : q \in Positions(g)}
        BY <1>1 DEF RingHoldsSlots
      <4> HIDE DEF v, g, p
      <4> QED BY <4>1, <4>2, <3>1 DEF v
    <3> HIDE DEF b, kept, p, v
    <3>5. /\ Memory(b) /\ b.globals = s.battle.globals
          /\ UsedSlots(b) = UsedSlots(s.battle) \ {v}
          /\ \A j \in UsedSlots(s.battle) \ {v} : b.slots[j] = s.battle.slots[j]
      BY <1>1, <3>2, <3>3, FreeIs
    <3> QED BY <3>4, <3>5
  <2> QED BY <2>1, <2>2
<1>4. i \in 1 .. NUM_SAVE_STATES /\ i \notin UsedSlots(b) /\ FreeSlots(b) # {}
  <2>1. FreeSlots(b) = 1 .. NUM_SAVE_STATES \ UsedSlots(b)
    BY <1>3 DEF Memory, IsArray, FreeSlots
  <2>2. \E j \in 1 .. NUM_SAVE_STATES : j \notin UsedSlots(b)
    <3> HIDE DEF kept, b, p
    <3> QED BY <1>1, <1>2, <1>3, SlotLeft
  <2>3. FreeSlots(b) \in SUBSET Nat /\ FreeSlots(b) # {}
    BY <2>1, <2>2
  <2>4. i \in FreeSlots(b)
    <3> HIDE DEF b
    <3> QED BY <2>3, FirstIn
  <2> QED BY <2>1, <2>3, <2>4
<1>5. r = Saved(s, b, i)
  BY <1>1, <1>4, SaveCurrentFrameIs
<1>6. /\ Memory(SaveInto(b, i)) /\ SaveInto(b, i).globals = b.globals
      /\ UsedSlots(SaveInto(b, i)) = UsedSlots(b) \cup {i}
      /\ SaveInto(b, i).slots[i].globals = b.globals
      /\ \A j \in UsedSlots(b) : SaveInto(b, i).slots[j] = b.slots[j]
  <2> HIDE DEF b, i
  <2> QED BY <1>3, <1>4, SaveIntoIs
<1> DEFINE entry == [frame |-> g.frame, slot |-> i]
<1> HIDE DEF b, i, f, r
<1>7. /\ Fields(r)
      /\ r.battle = SaveInto(b, i) /\ r.phase = s.phase
      /\ r.ggpo = [ring |-> r.ggpo.ring, head |-> r.ggpo.head, frame |-> r.ggpo.frame,
                    unsure |-> r.ggpo.unsure, target |-> r.ggpo.target]
      /\ r.ggpo.ring = [g.ring EXCEPT ![p] = entry]
      /\ r.ggpo.head = (p + 1) % NUM_SAVE_STATES
      /\ r.ggpo.frame = g.frame /\ r.ggpo.unsure = g.unsure /\ r.ggpo.target = g.target
  BY <1>5 DEF Saved, Fields, NUM_SAVE_STATES
<1>8. /\ r.ggpo.ring = [q \in Ring |-> r.ggpo.ring[q]]
      /\ r.ggpo.ring[p] = entry /\ \A q \in Ring \ {p} : r.ggpo.ring[q] = g.ring[q]
  BY <1>1, <1>7 DEF IsSession
<1>9. entry # None /\ entry.frame = g.frame /\ entry.slot = i
      /\ entry \in [frame : Nat, slot : 1 .. NUM_SAVE_STATES]
  BY <1>1, <1>4, RollbackAssumption
<1> HIDE DEF entry
<1>10. Positions(r.ggpo) = kept \cup {p}
  BY <1>1, <1>8, <1>9 DEF Positions
<1>11. \A q \in kept : r.ggpo.ring[q] = g.ring[q] /\ q # p /\ g.ring[q].slot \in UsedSlots(b)
  BY <1>3, <1>8 DEF Positions
<1>12. IsSession(r.ggpo)
  <2>1. \A q \in Positions(r.ggpo) :
            /\ r.ggpo.ring[q] \in [frame : Nat, slot : 1 .. NUM_SAVE_STATES]
            /\ r.ggpo.ring[q].frame % NUM_SAVE_STATES = q
    BY <1>1, <1>8, <1>9, <1>10, <1>11 DEF IsSession
  <2>2. \A q, x \in Positions(r.ggpo) :
            r.ggpo.ring[q].slot = r.ggpo.ring[x].slot => q = x
    BY ZenonT(60), <1>1, <1>4, <1>8, <1>9, <1>10, <1>11 DEF IsSession
  <2>3. r.ggpo.frame \in Nat /\ r.ggpo.unsure \in Nat
    BY <1>1, <1>7 DEF IsSession
  <2> QED BY <2>1, <2>2, <2>3, <1>7, <1>8 DEF IsSession
<1>13. RingHoldsSlots(r)
  BY SMTT(30), <1>3, <1>6, <1>7, <1>8, <1>9, <1>10, <1>11 DEF RingHoldsSlots
<1>14. \A q \in Positions(r.ggpo) : KeepsFrame(r, q)
  <2>1. ASSUME NEW q \in kept
        PROVE  KeepsFrame(r, q)
    <3>1. r.ggpo.ring[q] = g.ring[q] /\ g.ring[q].slot \in UsedSlots(b) /\ KeepsFrame(s, q)
      BY <1>1, <1>11
    <3>2. r.battle.slots[g.ring[q].slot] = s.battle.slots[g.ring[q].slot]
      BY <3>1, <1>3, <1>6, <1>7
    <3>3. r.battle.globals = s.battle.globals /\ r.ggpo.frame = g.frame
      BY ONLY SMTT(30), <1>3, <1>6, <1>7
    <3> QED BY <3>1, <3>2, <3>3 DEF KeepsFrame
  <2>2. KeepsFrame(r, p)
    <3>1. SubSeq(s.battle.globals, 1, g.frame) = s.battle.globals
      BY <1>1, SubSeqFull DEF Memory
    <3> QED BY ZenonT(60), <3>1, <1>1, <1>3, <1>6, <1>7, <1>8, <1>9 DEF KeepsFrame
  <2> QED BY ONLY SMTT(30), <2>1, <2>2, <1>10
<1>15. r.ggpo.ring[0] # None /\ r.ggpo.head = (r.ggpo.frame + 1) % NUM_SAVE_STATES
  <2>1. 0 \in Ring
    BY SaveStatesAssumption DEF Ring
  <2> QED BY <2>1, <1>1, <1>7, <1>8, <1>9, ModNext
<1>16. InStep(r)
  BY <1>1, <1>3, <1>6, <1>7, <1>12, <1>13, <1>14, <1>15 DEF InStep
<1> QED BY <1>3, <1>6, <1>7, <1>15, <1>16 DEF r

(* The battle may change where the ring does not look.                      *)
LEMMA StaysInStep ==
    ASSUME NEW s, InStep(s), NEW r, r.ggpo = s.ggpo,
           IsBattle(r.battle), SameMemory(s.battle, r.battle)
    PROVE  InStep(r)
<1>1. Memory(r.battle) /\ UsedSlots(r.battle) = UsedSlots(s.battle)
  BY MemoryOnly DEF InStep
<1>2. r.battle.globals = s.battle.globals /\ r.battle.slots = s.battle.slots
  BY ONLY SMTT(30), SameMemory(s.battle, r.battle) DEF SameMemory
<1>3. \A p \in Positions(s.ggpo) : KeepsFrame(r, p)
  BY <1>2 DEF InStep, KeepsFrame
<1>4. RingHoldsSlots(r)
  BY <1>1 DEF InStep, RingHoldsSlots
<1> QED BY <1>1, <1>2, <1>3, <1>4 DEF InStep

LEMMA PrefixKept ==
    ASSUME NEW h \in Seq(Inputs), NEW i \in Inputs, NEW n \in 0 .. Len(h)
    PROVE  SubSeq(Append(h, i), 1, n) = SubSeq(h, 1, n)
BY SubSeqProperties, AppendProperties

(* Simulating one frame and advancing keeps a fight in step.                *)
LEMMA AdvancesFrame ==
    ASSUME NEW s, Fields(s), InStep(s), s.ggpo.ring[0] # None,
           NEW b, Memory(b), b.slots = s.battle.slots, NEW input \in Inputs,
           b.globals = Append(s.battle.globals, input)
    PROVE  LET r == ggpo_advance_frame([s EXCEPT !.battle = b]) IN
           /\ Fields(r) /\ InStep(r) /\ r.ggpo.ring[0] # None
           /\ r.phase = s.phase /\ r.battle.globals = b.globals
           /\ r.ggpo.frame = s.ggpo.frame + 1 /\ r.ggpo.unsure = s.ggpo.unsure
           /\ r.ggpo.target = s.ggpo.target
<1> DEFINE g == s.ggpo
           x == [[s EXCEPT !.battle = b] EXCEPT !.ggpo.frame = @ + 1]
<1>1. /\ Memory(s.battle) /\ IsSession(g) /\ RingHoldsSlots(s)
      /\ g.frame = Len(s.battle.globals) /\ g.frame \in Nat
      /\ g.head = (g.frame + 1) % NUM_SAVE_STATES
      /\ s.battle.globals \in Seq(Inputs)
  BY DEF InStep, IsSession, Memory
<1>2. ggpo_advance_frame([s EXCEPT !.battle = b]) = SaveCurrentFrame(x)
  BY DEF ggpo_advance_frame
<1>3. /\ Fields(x) /\ x.battle = b /\ x.phase = s.phase
      /\ x.ggpo = [g EXCEPT !.frame = g.frame + 1]
  <2> DEFINE y == [s EXCEPT !.battle = b]
             g1 == [g EXCEPT !.frame = g.frame + 1]
  <2>1. y = [battle |-> b, ggpo |-> g, phase |-> s.phase]
    BY DEF Fields
  <2>2. x = [y EXCEPT !.ggpo = [y.ggpo EXCEPT !.frame = y.ggpo.frame + 1]]
    OBVIOUS
  <2> HIDE DEF y, x, g
  <2>3. x = [y EXCEPT !.ggpo = g1]
    BY <2>1, <2>2
  <2> HIDE DEF g1
  <2>4. x = [battle |-> b, ggpo |-> g1, phase |-> s.phase]
    BY <2>1, <2>3
  <2> QED BY <2>4 DEF Fields, g1
<1> HIDE DEF x
<1>4. /\ x.ggpo = [ring |-> x.ggpo.ring, head |-> x.ggpo.head, frame |-> x.ggpo.frame,
                    unsure |-> x.ggpo.unsure, target |-> x.ggpo.target]
      /\ x.ggpo.ring = g.ring /\ x.ggpo.head = g.head /\ x.ggpo.frame = g.frame + 1
      /\ x.ggpo.unsure = g.unsure /\ x.ggpo.target = g.target
  BY <1>1, <1>3 DEF IsSession
<1>5. Positions(x.ggpo) = Positions(g)
  BY <1>4 DEF Positions
<1>6. IsSession(x.ggpo)
  <2>1. x.ggpo.frame \in Nat /\ x.ggpo.unsure \in Nat /\ g.ring = [p \in Ring |-> g.ring[p]]
    BY <1>1, <1>4 DEF IsSession
  <2>2. /\ \A p \in Positions(g) :
                /\ g.ring[p] \in [frame : Nat, slot : 1 .. NUM_SAVE_STATES]
                /\ g.ring[p].frame % NUM_SAVE_STATES = p
        /\ \A p, q \in Positions(g) : g.ring[p].slot = g.ring[q].slot => p = q
    BY <1>1 DEF IsSession
  <2> QED BY <2>1, <2>2, <1>4, <1>5 DEF IsSession
<1>7. RingHoldsSlots(x)
  <2>1. UsedSlots(b) = UsedSlots(s.battle)
    BY DEF UsedSlots
  <2> QED BY <2>1, <1>1, <1>3, <1>4, <1>5 DEF RingHoldsSlots
<1>8. x.ggpo.frame = Len(x.battle.globals)
  BY SMTT(30), <1>1, <1>3, <1>4
<1>9. ASSUME NEW p \in Positions(x.ggpo), p # x.ggpo.head
      PROVE  KeepsFrame(x, p)
  <2>1. /\ p \in Positions(g) /\ KeepsFrame(s, p)
        /\ g.ring[p].frame \in Nat /\ g.ring[p].frame % NUM_SAVE_STATES = p
    BY <1>1, <1>5 DEF InStep, IsSession
  <2>2. g.ring[p].frame # g.frame + 1
    BY <1>1, <1>4, <1>9, <2>1
  <2>3. g.ring[p].frame <= x.ggpo.frame => g.ring[p].frame \in 0 .. Len(s.battle.globals)
    BY <1>1, <1>4, <2>1, <2>2
  <2>4. g.ring[p].frame <= x.ggpo.frame =>
            SubSeq(b.globals, 1, g.ring[p].frame) = SubSeq(s.battle.globals, 1, g.ring[p].frame)
    BY <2>3, <1>1, PrefixKept
  <2>5. x.ggpo.ring[p] = g.ring[p] /\ x.battle.slots = s.battle.slots /\ x.battle.globals = b.globals
    BY <1>3, <1>4
  <2>6. g.ring[p].frame <= x.ggpo.frame => g.ring[p].frame <= g.frame
    BY <1>1, <2>3
  <2> QED BY <2>1, <2>4, <2>5, <2>6 DEF KeepsFrame
<1>10. Arrived(x)
  BY <1>1, <1>3, <1>4, <1>6, <1>7, <1>8, <1>9 DEF Arrived
<1>11. /\ Fields(SaveCurrentFrame(x)) /\ InStep(SaveCurrentFrame(x))
       /\ SaveCurrentFrame(x).ggpo.ring[0] # None
       /\ SaveCurrentFrame(x).phase = x.phase
       /\ SaveCurrentFrame(x).battle.globals = x.battle.globals
       /\ SaveCurrentFrame(x).ggpo.frame = x.ggpo.frame
       /\ SaveCurrentFrame(x).ggpo.unsure = x.ggpo.unsure
       /\ SaveCurrentFrame(x).ggpo.target = x.ggpo.target
  BY <1>10, SavesFrame
<1> QED BY <1>2, <1>3, <1>4, <1>11

(* The first local input saves frame 0.                                     *)
LEMMA AddsLocalInput ==
    ASSUME NEW s, Fields(s), InStep(s)
    PROVE  LET r == ggpo_add_local_input(s) IN
           /\ Fields(r) /\ InStep(r) /\ r.ggpo.ring[0] # None
           /\ r.phase = s.phase /\ r.battle.globals = s.battle.globals
           /\ r.ggpo.frame = s.ggpo.frame /\ r.ggpo.unsure = s.ggpo.unsure
           /\ r.ggpo.target = s.ggpo.target
<1>1. CASE s.ggpo.ring[0] = None
  <2>1. s.ggpo.frame = 0 /\ s.ggpo.head = 0 /\ Positions(s.ggpo) = {}
    BY <1>1 DEF InStep
  <2>2. 0 = 0 % NUM_SAVE_STATES
    BY SaveStatesAssumption DEF NUM_SAVE_STATES
  <2>3. Arrived(s)
    BY <2>1, <2>2 DEF Arrived, InStep
  <2>4. ggpo_add_local_input(s) = SaveCurrentFrame(s)
    BY <1>1, <2>1 DEF ggpo_add_local_input
  <2> QED BY <2>3, <2>4, SavesFrame
<1>2. CASE s.ggpo.ring[0] # None
  <2>1. ggpo_add_local_input(s) = s
    BY <1>2 DEF ggpo_add_local_input
  <2> QED BY <1>2, <2>1
<1> QED BY <1>1, <1>2

-----------------------------------------------------------------------------
(* The steps.  Each keeps the invariant and moves the state as the timeline *)
(* does: from a prefix of the history, by one input or by none.             *)

(* What a step does to the history: it goes back some frames and adds at    *)
(* most one.                                                                *)
Moves(before, after) ==
    \E n \in 0 .. Len(before) :
        \/ after = SubSeq(before, 1, n)
        \/ \E i \in Inputs : after = Append(SubSeq(before, 1, n), i)

LEMMA WholePrefix ==
    ASSUME NEW h \in Seq(Inputs)
    PROVE  /\ Len(h) \in 0 .. Len(h)
           /\ SubSeq(h, 1, Len(h)) = h
BY SubSeqFull

(* A new battle, and the first states.                                      *)
LEMMA NewBattleIs == Memory(NewBattle) /\ UsedSlots(NewBattle) = {}
<1> DEFINE b == NewBattle
<1>1. /\ IsBattle(b) /\ b.globals = <<>> /\ b.live = [k \in {Unit} |-> <<>>]
      /\ b.handles = {} /\ b.tracked = {} /\ b.key = [k \in Objects |-> None]
      /\ b.heap = <<>> /\ b.slots = [i \in 1 .. NUM_SAVE_STATES |-> Unused]
  BY DEF NewBattle, IsBattle
<1> HIDE DEF b
<1>2. b.live = AllFrom(b.globals)
  BY <1>1, NoneThere DEF AllFrom
<1>3. IsArray(b.slots) /\ UsedSlots(b) = {}
  BY <1>1 DEF IsArray, UsedSlots, Unused
<1>4. IsKeys(b.key) /\ KeysOK(b.key) /\ Bufs(b.key) = {}
      /\ \A k \in Objects : b.key[k] # None => k \in b.tracked
  BY <1>1 DEF IsKeys, KeysOK, Bufs, InKeys
<1>5. DOMAIN b.heap = {}
  BY <1>1
<1>6. OwnedOnce(b)
  BY <1>3, <1>4, <1>5 DEF OwnedOnce
<1>7. b.globals \in Seq(Inputs)
  BY <1>1
<1>8. Memory(b)
  BY <1>1, <1>2, <1>3, <1>4, <1>5, <1>6, <1>7, FS_EmptySet DEF Memory
<1> QED BY <1>3, <1>8 DEF b

LEMMA SessionIs ==
    Fields(Session) /\ Session.battle = battle /\ Session.ggpo = ggpo /\ Session.phase = phase
BY DEF Session, Fields

LEMMA RInit == Init => RInv
<1> SUFFICES ASSUME Init PROVE RInv
  OBVIOUS
<1>1. battle = NewBattle /\ ggpo = NewSession /\ phase \in {"fight", "training"}
  BY DEF Init
<1>2. Memory(battle) /\ UsedSlots(battle) = {} /\ battle.globals = <<>>
  BY <1>1, NewBattleIs DEF NewBattle
<1>3. /\ IsSession(ggpo) /\ Positions(ggpo) = {}
      /\ ggpo.ring[0] = None /\ ggpo.head = 0 /\ ggpo.frame = 0
  BY <1>1, SaveStatesAssumption DEF NewSession, IsSession, Positions, Ring
<1>4. InStep(Session)
  BY <1>2, <1>3, SessionIs DEF InStep, RingHoldsSlots
<1>5. InTraining(battle)
  BY <1>2 DEF InTraining
<1> QED BY <1>1, <1>3, <1>4, <1>5, RollbackAssumption DEF RInv

(* One lemma per step of the game's thread.                                 *)
LEMMA BattleUpdateStep ==
    ASSUME RInv, NEW input \in Inputs, BattleUpdate(input)
    PROVE  RInv' /\ Moves(battle.globals, battle'.globals)
<1> DEFINE added == ggpo_add_local_input(Session)
           synced == SyncState(added.battle)
           updated == EngineBattleUpdate(synced, input)
           advanced == ggpo_advance_frame([added EXCEPT !.battle = updated])
           r == [advanced EXCEPT !.battle = SyncState(@)]
<1>1. /\ phase = "fight" /\ ggpo.frame < MaxFrames /\ Becomes(r)
  BY DEF BattleUpdate
<1>2. InStep(Session) /\ ggpo.frame \in Nat /\ battle.globals \in Seq(Inputs)
  BY <1>1, SessionIs DEF RInv, InStep, IsSession, Memory
<1>3. /\ Fields(added) /\ InStep(added) /\ added.ggpo.ring[0] # None
      /\ added.phase = phase /\ added.battle.globals = battle.globals
      /\ added.ggpo.frame = ggpo.frame
  BY <1>2, SessionIs, AddsLocalInput
<1> HIDE DEF added
<1>4. Memory(synced) /\ SameMemory(added.battle, synced)
  BY <1>3, SyncStateIs, MemoryOnly DEF InStep, Memory
<1> HIDE DEF synced
<1>5. Memory(updated) /\ updated.slots = added.battle.slots
      /\ updated.globals = Append(added.battle.globals, input)
  BY <1>4, EngineBattleUpdateIs DEF SameMemory
<1> HIDE DEF updated
<1>6. /\ Fields(advanced) /\ InStep(advanced)
      /\ advanced.phase = phase /\ advanced.battle.globals = Append(battle.globals, input)
      /\ advanced.ggpo.frame = ggpo.frame + 1
  BY SMTT(30), <1>3, <1>5, AdvancesFrame
<1> HIDE DEF advanced
<1>7. /\ r.battle = SyncState(advanced.battle) /\ r.ggpo = advanced.ggpo /\ r.phase = advanced.phase
  BY <1>6 DEF Fields
<1>8. IsBattle(r.battle) /\ SameMemory(advanced.battle, r.battle)
  BY <1>6, <1>7, SyncStateIs DEF InStep, Memory
<1>9. InStep(r)
  BY <1>6, <1>7, <1>8, StaysInStep
<1>10. r.battle = battle' /\ r.ggpo = ggpo' /\ r.phase = phase'
  BY <1>1 DEF Becomes
<1> HIDE DEF r
<1>11. InStep(Session)'
  BY <1>9, <1>10 DEF InStep, Session, RingHoldsSlots, KeepsFrame
<1>12. ggpo'.frame <= MaxFrames /\ phase' = "fight"
  BY <1>1, <1>2, <1>6, <1>7, <1>10, RollbackAssumption
<1>13. RInv'
  BY <1>11, <1>12 DEF RInv
<1>14. battle'.globals = Append(SubSeq(battle.globals, 1, Len(battle.globals)), input)
  BY <1>2, <1>6, <1>8, <1>10, WholePrefix DEF SameMemory
<1> QED BY <1>2, <1>13, <1>14, WholePrefix DEF Moves

(* A session that only counts another prediction keeps its step.            *)
LEMMA WaitsInStep ==
    ASSUME NEW s, InStep(s), NEW r, r.battle = s.battle, IsSession(r.ggpo),
           Positions(r.ggpo) = Positions(s.ggpo), r.ggpo.ring = s.ggpo.ring,
           r.ggpo.head = s.ggpo.head, r.ggpo.frame = s.ggpo.frame
    PROVE  InStep(r)
<1>1. RingHoldsSlots(r)
  BY DEF InStep, RingHoldsSlots
<1>2. \A p \in Positions(r.ggpo) : KeepsFrame(r, p)
  BY DEF InStep, KeepsFrame
<1> QED BY <1>1, <1>2 DEF InStep

LEMMA PredictionHoldsStep ==
    ASSUME RInv, PredictionHolds
    PROVE  RInv' /\ Moves(battle.globals, battle'.globals)
<1>1. /\ phase = "fight" /\ phase' = phase /\ battle' = battle
      /\ ggpo' = [ggpo EXCEPT !.unsure = @ + 1]
  BY DEF PredictionHolds
<1>2. InStep(Session) /\ IsSession(ggpo) /\ battle.globals \in Seq(Inputs)
  BY <1>1, SessionIs DEF RInv, InStep, Memory
<1>3. /\ ggpo' = [ring |-> ggpo'.ring, head |-> ggpo'.head, frame |-> ggpo'.frame,
                   unsure |-> ggpo'.unsure, target |-> ggpo'.target]
      /\ ggpo'.ring = ggpo.ring /\ ggpo'.head = ggpo.head /\ ggpo'.frame = ggpo.frame
      /\ ggpo'.unsure = ggpo.unsure + 1 /\ ggpo'.target = ggpo.target
  BY <1>1, <1>2 DEF IsSession
<1>4. Positions(ggpo') = Positions(ggpo)
  BY <1>3 DEF Positions
<1>5. IsSession(ggpo')
  <2>1. ggpo'.frame \in Nat /\ ggpo'.unsure \in Nat /\ ggpo'.ring = [p \in Ring |-> ggpo'.ring[p]]
    BY <1>2, <1>3 DEF IsSession
  <2> QED BY <2>1, <1>2, <1>3, <1>4 DEF IsSession
<1>6. InStep(Session)'
  <2> DEFINE r == [battle |-> battle', ggpo |-> ggpo', phase |-> phase']
  <2>1. r.battle = Session.battle /\ r.ggpo = ggpo' /\ Session.ggpo = ggpo
    BY <1>1 DEF Session
  <2> HIDE DEF r
  <2>2. InStep(r)
    BY <1>2, <1>3, <1>4, <1>5, <2>1, WaitsInStep
  <2> QED BY <2>2 DEF Session, r
<1>7. RInv'
  BY <1>1, <1>3, <1>6 DEF RInv
<1> QED BY <1>1, <1>2, <1>7, WholePrefix DEF Moves

LEMMA LoadStep ==
    ASSUME RInv, NEW p \in Ring, ggpo_load_game_state_callback(p)
    PROVE  RInv' /\ Moves(battle.globals, battle'.globals)
<1> DEFINE f == ggpo.ring[p].frame
           i == ggpo.ring[p].slot
<1>1. /\ phase = "fight" /\ phase' = "rollback"
      /\ ggpo.ring[p] # None
      /\ f \in ggpo.unsure .. ggpo.frame - 1
      /\ battle' = Load(battle, i)
      /\ ggpo' = [ggpo EXCEPT !.head = (p + 1) % (Prediction + 2),
                              !.frame = f, !.unsure = f + 1, !.target = ggpo.frame]
  BY DEF ggpo_load_game_state_callback
<1>2. InStep(Session) /\ IsSession(ggpo) /\ battle.globals \in Seq(Inputs)
      /\ Memory(battle) /\ RingHoldsSlots(Session)
      /\ ggpo.frame = Len(battle.globals) /\ ggpo.frame \in Nat /\ ggpo.unsure \in Nat
  BY <1>1, SessionIs DEF RInv, InStep, Memory, IsSession
<1>3. p \in Positions(ggpo)
  BY <1>1 DEF Positions
<1>4. f \in Nat /\ f < ggpo.frame /\ f \in 0 .. Len(battle.globals) /\ f % NUM_SAVE_STATES = p
  <2>1. ggpo.ring[p] \in [frame : Nat, slot : 1 .. NUM_SAVE_STATES] /\ f % NUM_SAVE_STATES = p
    BY <1>2, <1>3 DEF IsSession
  <2> QED BY <2>1, <1>1, <1>2
<1>5. i \in UsedSlots(battle) /\ battle.slots[i].globals = SubSeq(battle.globals, 1, f)
  BY <1>2, <1>3, <1>4, SessionIs DEF RingHoldsSlots, InStep, KeepsFrame
<1>6. /\ ggpo' = [ring |-> ggpo'.ring, head |-> ggpo'.head, frame |-> ggpo'.frame,
                   unsure |-> ggpo'.unsure, target |-> ggpo'.target]
      /\ ggpo'.ring = ggpo.ring /\ ggpo'.head = (p + 1) % NUM_SAVE_STATES
      /\ ggpo'.frame = f /\ ggpo'.unsure = f + 1 /\ ggpo'.target = ggpo.frame
  <2> HIDE DEF f
  <2> QED BY <1>1, <1>2 DEF IsSession, NUM_SAVE_STATES
<1> HIDE DEF f, i
<1>7. /\ Memory(battle') /\ battle'.globals = SubSeq(battle.globals, 1, f)
      /\ battle'.slots = battle.slots /\ UsedSlots(battle') = UsedSlots(battle)
  BY <1>1, <1>2, <1>5, LoadIs
<1>8. Positions(ggpo') = Positions(ggpo)
  BY <1>6 DEF Positions
<1>9. IsSession(ggpo')
  <2>1. ggpo'.frame \in Nat /\ ggpo'.unsure \in Nat
    BY <1>4, <1>6
  <2> QED BY <2>1, <1>2, <1>6, <1>8 DEF IsSession
<1>10. Len(battle'.globals) = f
  BY <1>2, <1>4, <1>7, SubSeqProperties
<1>11. ASSUME NEW q \in Positions(ggpo)
       PROVE  KeepsFrame(Session, q)'
  <2> DEFINE e == ggpo.ring[q].frame
  <2>1. KeepsFrame(Session, q) /\ e \in Nat
    <3>1. ggpo.ring[q] \in [frame : Nat, slot : 1 .. NUM_SAVE_STATES]
      BY <1>2 DEF IsSession
    <3> QED BY <3>1, <1>2, SessionIs DEF InStep
  <2>2. e <= f => SubSeq(battle.globals, 1, e) = SubSeq(SubSeq(battle.globals, 1, f), 1, e)
    BY <1>2, <1>4, <2>1, SubSeqProperties
  <2>3. e <= f => battle.slots[ggpo.ring[q].slot].globals = SubSeq(battle.globals, 1, e)
    BY <1>2, <1>4, <2>1, SessionIs DEF KeepsFrame
  <2> QED BY <2>2, <2>3, <1>6, <1>7 DEF KeepsFrame, Session
<1>12. (f + 1) % NUM_SAVE_STATES = ggpo'.head
  BY <1>4, <1>6, ModNext
<1>13. ggpo.ring[0] # None
  BY <1>2, <1>3, SessionIs DEF InStep
<1>14. InStep(Session)'
  <2>1. RingHoldsSlots(Session)'
    BY <1>2, <1>6, <1>7, <1>8 DEF RingHoldsSlots, Session
  <2> QED BY <2>1, <1>6, <1>7, <1>8, <1>9, <1>10, <1>11, <1>12, <1>13 DEF InStep, Session
<1>15. RInv'
  <2>1. ggpo.frame <= MaxFrames
    BY DEF RInv
  <2> QED BY <2>1, <1>1, <1>2, <1>4, <1>6, <1>13, <1>14, RollbackAssumption DEF RInv
<1> QED BY <1>4, <1>7, <1>15 DEF Moves

LEMMA AdvanceStep ==
    ASSUME RInv, NEW input \in Inputs, ggpo_advance_frame_callback(input)
    PROVE  RInv' /\ Moves(battle.globals, battle'.globals)
<1> DEFINE updated == EngineBattleUpdate(battle, input)
           advanced == ggpo_advance_frame([Session EXCEPT !.battle = updated])
           ph == IF advanced.phase = "rollback" /\ advanced.ggpo.frame = ggpo.target
                 THEN "fight" ELSE advanced.phase
           r == [advanced EXCEPT !.phase = ph]
<1>1. /\ phase = "rollback" /\ Becomes(r)
  BY DEF ggpo_advance_frame_callback
<1>2. InStep(Session) /\ ggpo.frame \in Nat /\ battle.globals \in Seq(Inputs)
      /\ Memory(battle) /\ RingHoldsSlots(Session)
  BY <1>1, SessionIs DEF RInv, InStep, IsSession, Memory
<1>3. Memory(updated) /\ updated.slots = battle.slots
      /\ updated.globals = Append(battle.globals, input)
  BY <1>2, EngineBattleUpdateIs
<1>4. ggpo.ring[0] # None
  BY <1>1 DEF RInv
<1>5. /\ Fields(advanced) /\ InStep(advanced) /\ advanced.ggpo.ring[0] # None
      /\ advanced.phase = phase /\ advanced.battle.globals = Append(battle.globals, input)
      /\ advanced.ggpo.frame = ggpo.frame + 1 /\ advanced.ggpo.target = ggpo.target
  <2> HIDE DEF updated
  <2> QED BY ZenonT(60), <1>2, <1>3, <1>4, SessionIs, AdvancesFrame
<1> HIDE DEF advanced
<1>6. /\ r.battle = advanced.battle /\ r.ggpo = advanced.ggpo /\ r.phase = ph
  <2> HIDE DEF ph
  <2> QED BY <1>5 DEF Fields
<1>7. r.battle = battle' /\ r.ggpo = ggpo' /\ r.phase = phase'
  BY <1>1 DEF Becomes
<1> HIDE DEF r
<1>8. InStep(Session)'
  BY ZenonT(60), <1>5, <1>6, <1>7 DEF InStep, Session, RingHoldsSlots, KeepsFrame
<1>9. /\ ggpo.frame < ggpo.target /\ ggpo.target \in Nat /\ ggpo.target <= MaxFrames
  BY <1>1 DEF RInv
<1>10. phase' = IF ggpo'.frame = ggpo.target THEN "fight" ELSE "rollback"
  BY <1>1, <1>5, <1>6, <1>7
<1>11. /\ ggpo'.frame = ggpo.frame + 1 /\ ggpo'.target = ggpo.target /\ ggpo'.ring[0] # None
       /\ battle'.globals = Append(battle.globals, input)
  BY <1>5, <1>6, <1>7
<1>12. ggpo'.frame <= MaxFrames /\ (phase' = "rollback" => ggpo'.frame < ggpo'.target)
  BY <1>2, <1>9, <1>10, <1>11, RollbackAssumption
<1>13. RInv'
  BY <1>8, <1>9, <1>10, <1>11, <1>12 DEF RInv
<1>14. battle'.globals = Append(SubSeq(battle.globals, 1, Len(battle.globals)), input)
  BY <1>2, <1>11, WholePrefix
<1> QED BY <1>2, <1>13, <1>14, WholePrefix DEF Moves

(* Training: slot 1 is loaded, freed and saved to in one go.                *)
LEMMA Served ==
    ASSUME NEW m, InTraining(m), NEW load \in BOOLEAN, NEW save \in BOOLEAN
    PROVE  LET r == SysMain_HandleTrainingModeFeatures(m, load, save) IN
           /\ InTraining(r)
           /\ \E n \in 0 .. Len(m.globals) : r.globals = SubSeq(m.globals, 1, n)
<1> DEFINE loaded == IF load /\ m.slots[1].used THEN Load(m, 1) ELSE m
           freed == IF loaded.slots[1].used THEN Free(loaded, 1) ELSE loaded
           r == IF save THEN SaveInto(freed, 1) ELSE loaded
<1>0. 1 \in 1 .. NUM_SAVE_STATES
  BY SaveStatesAssumption DEF NUM_SAVE_STATES
<1>1. \A b : Memory(b) => (1 \in UsedSlots(b) <=> b.slots[1].used)
  BY <1>0 DEF Memory, IsArray, UsedSlots
<1>2. Memory(m) /\ m.globals \in Seq(Inputs) /\ UsedSlots(m) \subseteq {1}
  BY DEF InTraining, Memory
<1>3. PICK n \in 0 .. Len(m.globals) :
            /\ loaded.globals = SubSeq(m.globals, 1, n)
            /\ \A i \in UsedSlots(loaded) : \E k \in 0 .. Len(loaded.globals) :
                    loaded.slots[i].globals = SubSeq(loaded.globals, 1, k)
            /\ Memory(loaded) /\ UsedSlots(loaded) \subseteq {1}
  <2>1. CASE load /\ m.slots[1].used
    <3>1. 1 \in UsedSlots(m) /\ loaded = Load(m, 1)
      BY <1>1, <1>2, <2>1
    <3>2. PICK n \in 0 .. Len(m.globals) : m.slots[1].globals = SubSeq(m.globals, 1, n)
      BY <3>1 DEF InTraining
    <3> HIDE DEF loaded
    <3>3. /\ Memory(loaded) /\ loaded.globals = SubSeq(m.globals, 1, n)
          /\ loaded.slots = m.slots /\ UsedSlots(loaded) = UsedSlots(m)
      BY <1>2, <3>1, <3>2, LoadIs
    <3>4. loaded.globals \in Seq(Inputs)
      BY <3>3 DEF Memory
    <3>5. \A i \in UsedSlots(loaded) : loaded.slots[i].globals = loaded.globals
      BY <1>2, <3>2, <3>3
    <3>6. \A i \in UsedSlots(loaded) : \E k \in 0 .. Len(loaded.globals) :
                    loaded.slots[i].globals = SubSeq(loaded.globals, 1, k)
      BY <3>4, <3>5, WholePrefix
    <3> QED BY <1>2, <3>3, <3>6
  <2>2. CASE ~(load /\ m.slots[1].used)
    <3>1. loaded = m
      BY <2>2
    <3> HIDE DEF loaded
    <3> QED BY <1>2, <3>1, WholePrefix DEF InTraining
  <2> QED BY <2>1, <2>2
<1> HIDE DEF loaded
<1>4. /\ Memory(freed) /\ UsedSlots(freed) = {} /\ freed.globals = loaded.globals
  <2>1. CASE loaded.slots[1].used
    <3>1. 1 \in UsedSlots(loaded) /\ freed = Free(loaded, 1)
      BY <1>1, <1>3, <2>1
    <3> HIDE DEF freed
    <3> QED BY <1>3, <3>1, FreeIs
  <2>2. CASE ~loaded.slots[1].used
    <3>1. 1 \notin UsedSlots(loaded) /\ freed = loaded
      BY <1>1, <1>3, <2>2
    <3> HIDE DEF freed
    <3> QED BY <1>3, <3>1
  <2> QED BY <2>1, <2>2
<1> HIDE DEF freed
<1>5. InTraining(r) /\ r.globals = loaded.globals
  <2>1. CASE save
    <3>1. /\ Memory(r) /\ r.globals = freed.globals /\ UsedSlots(r) = {1}
          /\ r.slots[1].globals = r.globals /\ r.globals \in Seq(Inputs)
      <4>1. r = SaveInto(freed, 1)
        BY <2>1
      <4> HIDE DEF r
      <4>2. /\ Memory(r) /\ r.globals = freed.globals /\ UsedSlots(r) = {} \cup {1}
            /\ r.slots[1].globals = r.globals
        BY <1>0, <1>4, <4>1, SaveIntoIs
      <4> QED BY <4>2 DEF Memory
    <3> HIDE DEF r
    <3>2. \E k \in 0 .. Len(r.globals) : r.slots[1].globals = SubSeq(r.globals, 1, k)
      BY <3>1, WholePrefix
    <3> QED BY <1>4, <3>1, <3>2 DEF InTraining
  <2>2. CASE ~save
    BY <1>3, <2>2 DEF InTraining
  <2> QED BY <2>1, <2>2
<1>6. SysMain_HandleTrainingModeFeatures(m, load, save) = r
  BY DEF SysMain_HandleTrainingModeFeatures, loaded, freed
<1> HIDE DEF r
<1> QED BY <1>3, <1>5, <1>6

LEMMA OfflineUpdateStep ==
    ASSUME RInv, NEW load \in BOOLEAN, NEW save \in BOOLEAN, NEW input \in Inputs,
           OfflineUpdate(load, save, input)
    PROVE  RInv' /\ Moves(battle.globals, battle'.globals)
<1> DEFINE synced == SyncState(battle)
           served == SysMain_HandleTrainingModeFeatures(synced, load, save)
<1>1. /\ phase = "training" /\ battle' = EngineBattleUpdate(served, input)
      /\ ggpo' = ggpo /\ phase' = phase
  BY DEF OfflineUpdate
<1>2. InTraining(battle) /\ ggpo = NewSession
  BY <1>1 DEF RInv
<1>3. Memory(synced) /\ SameMemory(battle, synced) /\ UsedSlots(synced) = UsedSlots(battle)
  BY <1>2, SyncStateIs, MemoryOnly DEF InTraining, Memory
<1> HIDE DEF synced
<1>4. InTraining(synced) /\ synced.globals = battle.globals
  BY <1>2, <1>3 DEF InTraining, SameMemory
<1>5. InTraining(served) /\ \E n \in 0 .. Len(battle.globals) :
                                served.globals = SubSeq(battle.globals, 1, n)
  <2>1. InTraining(served) /\ \E n \in 0 .. Len(synced.globals) :
                                served.globals = SubSeq(synced.globals, 1, n)
    BY <1>4, Served
  <2> HIDE DEF served
  <2> QED BY <2>1, <1>4
<1> HIDE DEF served
<1>6. Memory(served) /\ served.globals \in Seq(Inputs) /\ UsedSlots(served) \subseteq {1}
  BY <1>5 DEF InTraining, Memory
<1>7. /\ Memory(battle') /\ battle'.globals = Append(served.globals, input)
      /\ battle'.slots = served.slots /\ UsedSlots(battle') = UsedSlots(served)
  BY <1>1, <1>6, EngineBattleUpdateIs
<1>8. ASSUME NEW i \in UsedSlots(served)
      PROVE  \E n \in 0 .. Len(battle'.globals) :
                served.slots[i].globals = SubSeq(battle'.globals, 1, n)
  <2>1. PICK n \in 0 .. Len(served.globals) : served.slots[i].globals = SubSeq(served.globals, 1, n)
    BY <1>5 DEF InTraining
  <2>2. SubSeq(battle'.globals, 1, n) = SubSeq(served.globals, 1, n)
    BY <1>6, <1>7, PrefixKept
  <2>3. n \in 0 .. Len(battle'.globals)
    BY <1>6, <1>7
  <2> QED BY <2>1, <2>2, <2>3
<1>9. InTraining(battle')
  BY <1>6, <1>7, <1>8 DEF InTraining
<1>10. RInv'
  BY <1>1, <1>2, <1>9 DEF RInv
<1> QED BY <1>5, <1>7, <1>10 DEF Moves

(* The sound fields replaced.                                               *)
WithSounds(m, simulated, heard, stops, begun) ==
    [m EXCEPT !.stub = simulated, !.real = heard, !.queue = stops, !.started = begun]

LEMMA WithSoundsIs ==
    ASSUME NEW m, IsBattle(m), NEW simulated, NEW heard, NEW stops, NEW begun
    PROVE  /\ IsBattle(WithSounds(m, simulated, heard, stops, begun))
           /\ SameMemory(m, WithSounds(m, simulated, heard, stops, begun))
<1> DEFINE a == [m EXCEPT !.stub = simulated]
           b == [a EXCEPT !.real = heard]
           c == [b EXCEPT !.queue = stops]
           r == [c EXCEPT !.started = begun]
<1>1. WithSounds(m, simulated, heard, stops, begun) = r
  BY DEF WithSounds
<1>2. IsBattle(a) /\ SameMemory(m, a)
  BY DEF IsBattle, SameMemory
<1> HIDE DEF a
<1>3. IsBattle(b) /\ SameMemory(a, b)
  BY <1>2 DEF IsBattle, SameMemory
<1> HIDE DEF b
<1>4. IsBattle(c) /\ SameMemory(b, c)
  BY <1>3 DEF IsBattle, SameMemory
<1> HIDE DEF c
<1>5. IsBattle(r) /\ SameMemory(c, r)
  BY <1>4 DEF IsBattle, SameMemory
<1> QED BY <1>1, <1>2, <1>3, <1>4, <1>5 DEF SameMemory

(* The session's slots are those the ring names: closing it frees them all. *)
LEMMA ClosesSession ==
    ASSUME RInv, phase \in {"fight", "training"}
    PROVE  LET c == ggpo_close_session(Session).battle IN
           /\ Memory(c) /\ c.globals = battle.globals
<1> DEFINE slotAt(p) == IF ggpo.ring[p] = None THEN None ELSE ggpo.ring[p].slot
           todo == [n \in 1 .. Prediction + 2 |-> slotAt(n - 1)]
<1>1. ggpo_close_session(Session).battle = FreeEach(battle, todo)
  BY DEF ggpo_close_session, Session
<1>2. Memory(battle)
  BY SessionIs DEF RInv, InStep, InTraining
<1>3. Len(todo) = Prediction + 2 /\ Len(todo) \in Nat
  BY SaveStatesAssumption
<1>4. \A n \in 1 .. Len(todo) : n - 1 \in Ring /\ todo[n] = slotAt(n - 1) /\ n \in Nat
  BY <1>3, SaveStatesAssumption DEF Ring
<1>5. phase = "training" => \A p \in Ring : ggpo.ring[p] = None
  BY DEF RInv, NewSession
<1>6. phase = "fight" => /\ IsSession(ggpo) /\ RingHoldsSlots(Session)
  BY SessionIs DEF RInv, InStep
<1>7. \A p \in Ring : slotAt(p) # None => p \in Positions(ggpo) /\ slotAt(p) \in UsedSlots(battle)
  BY <1>5, <1>6, SessionIs DEF Positions, RingHoldsSlots
<1>8. \A p, q \in Ring : slotAt(p) = slotAt(q) /\ slotAt(p) # None => p = q
  <2>1. \A p \in Positions(ggpo) : ggpo.ring[p] # None
    BY DEF Positions
  <2>2. CASE phase = "training"
    BY <1>5, <2>2
  <2>3. CASE phase = "fight"
    BY <1>6, <1>7, <2>1, <2>3 DEF IsSession
  <2> QED BY <2>2, <2>3
<1> HIDE DEF todo, slotAt
<1>9. /\ \A n \in 1 .. Len(todo) : todo[n] = None \/ todo[n] \in UsedSlots(battle)
      /\ \A n, k \in 1 .. Len(todo) : todo[n] = todo[k] /\ todo[n] # None => n = k
  <2>1. \A n \in 1 .. Len(todo) : todo[n] = None \/ todo[n] \in UsedSlots(battle)
    BY <1>4, <1>7
  <2>2. \A n, k \in 1 .. Len(todo) : todo[n] = todo[k] /\ todo[n] # None => n - 1 = k - 1
    BY <1>4, <1>8
  <2>3. \A n, k \in 1 .. Len(todo) : n - 1 = k - 1 => n = k
    BY <1>3
  <2> QED BY <2>1, <2>2, <2>3
<1> QED BY <1>1, <1>2, <1>3, <1>9, FreeEachIs

(* CloseBattle leaves no slot in use.                                       *)
LEMMA FreesEverySlot ==
    ASSUME NEW m, Memory(m)
    PROVE  /\ Memory(FreeEverySlot(m)) /\ FreeEverySlot(m).globals = m.globals
           /\ UsedSlots(FreeEverySlot(m)) = {}
<1> DEFINE todo == [i \in 1 .. NUM_SAVE_STATES |-> IF i \in UsedSlots(m) THEN i ELSE None]
<1>1. FreeEverySlot(m) = FreeEach(m, todo)
  BY DEF FreeEverySlot
<1>2. Len(todo) = NUM_SAVE_STATES /\ Len(todo) \in Nat
  BY SaveStatesAssumption DEF NUM_SAVE_STATES
<1>3. \A n \in 1 .. Len(todo) : todo[n] = IF n \in UsedSlots(m) THEN n ELSE None
  BY <1>2
<1>4. UsedSlots(m) \subseteq 1 .. Len(todo)
  BY <1>2 DEF Memory, IsArray, UsedSlots
<1> HIDE DEF todo
<1>5. UsedSlots(m) \ {todo[n] : n \in 1 .. Len(todo)} = {}
  BY <1>3, <1>4
<1>6. /\ \A n \in 1 .. Len(todo) : todo[n] = None \/ todo[n] \in UsedSlots(m)
      /\ \A n, k \in 1 .. Len(todo) : todo[n] = todo[k] /\ todo[n] # None => n = k
  BY <1>3
<1> QED BY <1>1, <1>2, <1>5, <1>6, FreeEachIs

LEMMA CloseBattleStep ==
    ASSUME RInv, CloseBattle
    PROVE  RInv' /\ Moves(battle.globals, battle'.globals)
<1> DEFINE c == ggpo_close_session(Session).battle
           freed == FreeEverySlot(c)
           ended == ClearKey(freed, DOMAIN freed.live)
<1>1. /\ phase \in {"fight", "training"} /\ phase' = "closed" /\ ggpo' = NewSession
      /\ battle' = WithSounds(ended, Silent, Silent, <<>>, {})
  BY DEF CloseBattle, WithSounds
<1>2. Memory(c) /\ c.globals = battle.globals
  BY <1>1, ClosesSession
<1> HIDE DEF c
<1>3. Memory(freed) /\ freed.globals = c.globals /\ UsedSlots(freed) = {}
  BY <1>2, FreesEverySlot
<1> HIDE DEF freed
<1>4. DOMAIN freed.live \subseteq Objects
  BY <1>3, UnitThere DEF Memory, AllFrom
<1>5. Memory(ended) /\ ended.globals = freed.globals /\ ended.slots = freed.slots
  BY <1>3, <1>4, ClearKeyIs
<1> HIDE DEF ended
<1>6. UsedSlots(ended) = {}
  BY <1>3, <1>5 DEF UsedSlots
<1>7. Memory(battle') /\ UsedSlots(battle') = {} /\ battle'.globals = battle.globals
  <2>1. IsBattle(battle') /\ SameMemory(ended, battle')
    BY <1>1, <1>5, WithSoundsIs DEF Memory
  <2>2. Memory(battle') /\ UsedSlots(battle') = UsedSlots(ended)
    BY <2>1, <1>5, MemoryOnly
  <2> QED BY <2>1, <2>2, <1>2, <1>3, <1>5, <1>6 DEF SameMemory
<1>8. RInv'
  BY <1>1, <1>7, RollbackAssumption DEF RInv, NewSession
<1>9. battle.globals \in Seq(Inputs)
  BY <1>2 DEF Memory
<1> QED BY <1>7, <1>8, <1>9, WholePrefix DEF Moves

(* Every step keeps the invariant and moves along the timeline.             *)
LEMMA RStep ==
    ASSUME RInv, Next
    PROVE  RInv' /\ Moves(battle.globals, battle'.globals)
BY BattleUpdateStep, PredictionHoldsStep, LoadStep, AdvanceStep, OfflineUpdateStep,
   CloseBattleStep DEF Next

(* The invariant holds of the specification.                                *)
LEMMA RInvariant == Spec => []RInv
<1>1. RInv /\ [Next]_vars => RInv'
  <2>1. CASE UNCHANGED vars
    BY <2>1 DEF RInv, vars, Session, InStep, RingHoldsSlots, KeepsFrame
  <2> QED BY <2>1, RStep
<1> QED BY <1>1, RInit, PTL DEF Spec

-----------------------------------------------------------------------------
(* The theorems.                                                            *)

(* ggpo_save_game_state_callback never finds every save state in use and    *)
(* aborts the match: GGPO frees the position of its ring before it saves to *)
(* it, each used slot is named by one position, and there are as many slots *)
(* as positions.                                                            *)
THEOREM SlotAlwaysFree == Spec => []NeverFull
<1>1. RInv => NeverFull
  BY DEF RInv, NeverFull
<1> QED BY <1>1, RInvariant, PTL

(* The memory is in order in every phase.                                   *)
LEMMA RMemory == RInv => Memory(battle)
BY SessionIs DEF RInv, InStep, InTraining

(* Every memento buffer the engine has allocated is owned by exactly one    *)
(* live key or used save state, and no owner names a freed one, through any *)
(* order of SaveState::Save, Load, Free, the engine's own recording and     *)
(* clearing, and CloseBattle.                                               *)
THEOREM BuffersHaveOneOwner == Spec => []BuffersOwnedOnce
<1>1. RInv => BuffersOwnedOnce
  <2> SUFFICES ASSUME RInv PROVE BuffersOwnedOnce
    OBVIOUS
  <2> DEFINE keysOf(o) == IF o = Here THEN battle.key ELSE battle.slots[o].keys
             owners == {Here} \cup UsedSlots(battle)
             kept == {o \in owners \X Objects :
                        o[2] \in DOMAIN keysOf(o[1]) /\ keysOf(o[1])[o[2]] # None}
  <2>1. Memory(battle) /\ OwnedOnce(battle)
    BY RMemory DEF Memory
  <2>2. UsedSlots(battle) \subseteq 1 .. NUM_SAVE_STATES /\ Here \notin UsedSlots(battle)
    BY <2>1, SaveStatesAssumption DEF Memory, IsArray, UsedSlots, Here, NUM_SAVE_STATES
  <2>3. /\ keysOf(Here) = battle.key
        /\ \A o \in UsedSlots(battle) : keysOf(o) = battle.slots[o].keys
    BY <2>2
  <2> HIDE DEF keysOf
  <2>4. \A o \in owners : KeysOK(keysOf(o))
    BY <2>1, <2>3 DEF Memory, Recorded
  <2>5. \A o, q \in owners : o # q => Bufs(keysOf(o)) \cap Bufs(keysOf(q)) = {}
    BY <2>1, <2>2, <2>3 DEF OwnedOnce
  <2>6. ASSUME NEW o \in kept
        PROVE  /\ o[1] \in owners /\ o[2] \in Objects /\ o = <<o[1], o[2]>>
               /\ keysOf(o[1])[o[2]] \in Bufs(keysOf(o[1]))
               /\ keysOf(o[1])[o[2]][1] = o[2]
    <3>1. o[1] \in owners /\ o[2] \in Objects /\ o = <<o[1], o[2]>>
          /\ o[2] \in DOMAIN keysOf(o[1]) /\ keysOf(o[1])[o[2]] # None
      OBVIOUS
    <3> QED BY <3>1, <2>4, NoBufferIsNone DEF KeysOK, Bufs, InKeys
  <2>7. ASSUME NEW o \in kept, NEW q \in kept, keysOf(o[1])[o[2]] = keysOf(q[1])[q[2]]
        PROVE  o = q
    BY <2>5, <2>6, <2>7
  <2>8. ASSUME NEW x \in DOMAIN battle.heap
        PROVE  \E o \in kept : x = keysOf(o[1])[o[2]]
    <3>1. PICK o \in owners : x \in Bufs(keysOf(o))
      BY <2>1, <2>3 DEF OwnedOnce
    <3>2. PICK k \in DOMAIN keysOf(o) : x = keysOf(o)[k] /\ x # None
      BY <3>1 DEF Bufs, InKeys
    <3>3. k \in Objects
      BY <2>4 DEF KeysOK
    <3>4. <<o, k>> \in kept /\ <<o, k>>[1] = o /\ <<o, k>>[2] = k
      BY <3>2, <3>3
    <3> QED BY <3>2, <3>4
  <2>9. \A o \in owners : \A x \in Bufs(keysOf(o)) : x \in DOMAIN battle.heap
    BY <2>1, <2>3 DEF OwnedOnce
  <2>10. \A o \in kept : keysOf(o[1])[o[2]] \in DOMAIN battle.heap
    BY <2>6, <2>9
  <2>11. DOMAIN battle.heap = {keysOf(o[1])[o[2]] : o \in kept}
    BY <2>8, <2>10
  <2> QED BY <2>7, <2>11 DEF BuffersOwnedOnce, keysOf
<1> QED BY <1>1, RInvariant, PTL

(* Types of the battle, the save states and GGPO's ring; a position of the  *)
(* ring names a slot that is in use.                                        *)
THEOREM TypeCorrect == Spec => []TypeOK
<1>1. RInv => TypeOK
  <2> SUFFICES ASSUME RInv PROVE TypeOK
    OBVIOUS
  <2>1. Memory(battle)
    BY RMemory
  <2>2. /\ battle.tracked \subseteq Objects /\ battle.handles \subseteq Tasks
        /\ DOMAIN battle.slots = 1 .. NUM_SAVE_STATES
        /\ IsKeys(battle.key) /\ KeysOK(battle.key) /\ OwnedOnce(battle)
    BY <2>1 DEF Memory, IsArray
  <2>3. \A k \in Objects : battle.key[k] # None =>
            battle.key[k][1] = k /\ battle.key[k] \in DOMAIN battle.heap
    BY <2>2, NoBufferIsNone DEF IsKeys, KeysOK, OwnedOnce, Bufs, InKeys
  <2>4. battle.key \in [Objects -> DOMAIN battle.heap \cup {None}]
    BY <2>2, <2>3 DEF IsKeys
  <2>5. \A p \in Ring : ggpo.ring[p] # None =>
            /\ ggpo.ring[p].slot \in 1 .. NUM_SAVE_STATES
            /\ battle.slots[ggpo.ring[p].slot].used
    <3>1. CASE phase \in {"fight", "rollback"}
      <4>1. IsSession(ggpo) /\ RingHoldsSlots(Session)
        BY <3>1, SessionIs DEF RInv, InStep
      <4> QED BY <4>1, SessionIs DEF IsSession, RingHoldsSlots, Positions, UsedSlots
    <3>2. CASE phase \in {"training", "closed"}
      BY <3>2 DEF RInv, NewSession
    <3> QED BY <3>1, <3>2 DEF RInv
  <2>6. ggpo.frame \in Nat
    <3>1. CASE phase \in {"fight", "rollback"}
      BY <3>1, SessionIs DEF RInv, InStep, IsSession
    <3>2. CASE phase \in {"training", "closed"}
      BY <3>2 DEF RInv, NewSession
    <3> QED BY <3>1, <3>2 DEF RInv
  <2>7. ggpo.frame \in 0 .. MaxFrames
    BY <2>6, RollbackAssumption DEF RInv
  <2> QED BY <2>2, <2>3, <2>4, <2>5, <2>7 DEF TypeOK, RInv
<1> QED BY <1>1, RInvariant, PTL

(* In every state the whole live state comes from the history, which is as  *)
(* long as GGPO counts frames.                                              *)
LEMMA HistoryIs ==
    RInv => /\ History = battle.globals /\ Now = Len(battle.globals)
            /\ battle.globals \in Seq(Inputs)
<1> SUFFICES ASSUME RInv
             PROVE  /\ History = battle.globals /\ Now = Len(battle.globals)
                    /\ battle.globals \in Seq(Inputs)
  OBVIOUS
<1>1. Memory(battle)
  BY RMemory
<1>2. battle.live = AllFrom(battle.globals) /\ battle.globals \in Seq(Inputs)
  BY <1>1 DEF Memory
<1>3. History = battle.globals
  BY <1>2 DEF History, AllFrom
<1>4. Now = Len(battle.globals)
  BY SessionIs DEF RInv, InStep, Now
<1> QED BY <1>2, <1>3, <1>4

(* The detailed battle implements the abstract timeline: however save       *)
(* states are saved, loaded and freed by rollbacks and by training mode,    *)
(* each step appends the input of one frame to the history the whole live   *)
(* state comes from or goes back to a frame of it, and GGPO's frame count   *)
(* is its length.                                                           *)
THEOREM RollbackFollowsTimeline == Spec => FollowsTimeline
<1>1. Init => ReplaysExactly!Init
  <2> SUFFICES ASSUME Init PROVE ReplaysExactly!Init
    OBVIOUS
  <2>1. battle.globals = <<>>
    BY DEF Init, NewBattle
  <2>2. History = battle.globals /\ Now = Len(battle.globals)
    BY RInit, HistoryIs
  <2> QED BY <2>1, <2>2 DEF ReplaysExactly!Init
<1>2. RInv' => (History = battle.globals /\ Now = Len(battle.globals))'
  <2>1. RInv => History = battle.globals /\ Now = Len(battle.globals)
    BY HistoryIs
  <2> QED BY <2>1, PTL
<1>3. RInv /\ RInv' /\ [Next]_vars => [ReplaysExactly!Next]_(ReplaysExactly!vars)
  <2> SUFFICES ASSUME RInv, RInv', [Next]_vars
               PROVE  [ReplaysExactly!Next]_(ReplaysExactly!vars)
    OBVIOUS
  <2>1. CASE UNCHANGED vars
    BY <2>1 DEF vars, ReplaysExactly!vars, History, Now
  <2>2. CASE Next
    <3>1. Moves(battle.globals, battle'.globals)
      BY <2>2, RStep
    <3>2. History = battle.globals /\ battle.globals \in Seq(Inputs)
      BY HistoryIs
    <3>3. History' = battle'.globals /\ Now' = Len(battle'.globals)
      BY <1>2
    <3>4. PICK n \in 0 .. Len(battle.globals) :
                \/ battle'.globals = SubSeq(battle.globals, 1, n)
                \/ \E i \in Inputs : battle'.globals = Append(SubSeq(battle.globals, 1, n), i)
      BY <3>1 DEF Moves
    <3>5. SubSeq(battle.globals, 1, n) \in Seq(Inputs) /\ Len(SubSeq(battle.globals, 1, n)) = n
      BY <3>2, SubSeqProperties
    <3>6. CASE battle'.globals = SubSeq(battle.globals, 1, n)
      BY <3>2, <3>3, <3>5, <3>6
         DEF ReplaysExactly!Next, ReplaysExactly!GoBack, ReplaysExactly!Prefix
    <3>7. CASE \E i \in Inputs : battle'.globals = Append(SubSeq(battle.globals, 1, n), i)
      <4>1. PICK i \in Inputs : battle'.globals = Append(SubSeq(battle.globals, 1, n), i)
        BY <3>7
      <4>2. Now' = n + 1
        BY <3>3, <3>5, <4>1
      <4> QED BY <3>2, <3>3, <4>1, <4>2
           DEF ReplaysExactly!Next, ReplaysExactly!Simulate, ReplaysExactly!Prefix
    <3> QED BY <3>4, <3>6, <3>7
  <2> QED BY <2>1, <2>2
<1> QED BY <1>1, <1>3, RInvariant, PTL DEF Spec, FollowsTimeline, ReplaysExactly!Spec
====
