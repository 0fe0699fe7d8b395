------------------------------- MODULE UdpRelay -------------------------------
(***************************************************************************)
(* sf4e-ggpo-udp-relay, the process that forwards GGPO datagrams between   *)
(* the two players of a VPS room.  It is one loop over recvfrom, so every  *)
(* datagram is one action; the network may hand it any datagram at any     *)
(* time.                                                                   *)
(*                                                                         *)
(* A V3 registration names a player slot and a match generation: the two   *)
(* Ready message numbers of the match.  A generation forwards only once    *)
(* both its slots are known; until then it is pending beside the active    *)
(* one.  Older clients (legacy and V2) name neither and share a pair of    *)
(* slots found by address.                                                 *)
(*                                                                         *)
(* A slot is the address it holds, or NoAddr while it is not active: the   *)
(* address of an inactive slot is never read.  Datagrams with a wrong room *)
(* token, a bad slot number or a bad length are dropped and left out.      *)
(***************************************************************************)
CONSTANTS
    Addrs,   \* endpoints seen by recvfrom, records with fields ip and port
    Ports,   \* GGPO ports a V2 registration may declare
    Keys,    \* generation keys, readyMessageNum[0] and [1]
    NoAddr,
    NoKey

ASSUME RelayAssumption == NoAddr \notin Addrs /\ NoKey \notin Keys

VARIABLES
    active,   \* activeGeneration
    pending,  \* pendingGeneration
    slots,    \* the slots of legacy and V2 clients
    running,  \* FALSE once the process has exited
    sent,     \* the datagram the relay sent in the last step, if any
    regd      \* history: the slots that registered each generation

relayVars == <<active, pending, slots, running, sent, regd>>

Slot == {0, 1}
Peer(s) == IF s = 0 THEN 1 ELSE 0
NoSlots == [s \in Slot |-> NoAddr]
NoGeneration == [key |-> NoKey, slots |-> NoSlots]
Nothing == [t |-> "none", to |-> NoAddr, from |-> NoAddr, key |-> NoKey]

RelayInit ==
    /\ active = NoGeneration /\ pending = NoGeneration
    /\ slots = NoSlots
    /\ running = TRUE
    /\ sent = Nothing
    /\ regd = [k \in Keys |-> {}]

-----------------------------------------------------------------------------
(* Slot lookup *)

BothSlotsActive(ss) == \A s \in Slot : ss[s] # NoAddr

(* The first slot of a set, for loops that stop at the first match.         *)
First(S) == IF 0 \in S THEN 0 ELSE 1

(* Exactly one of the two slots.                                            *)
IsUnique(S) == S # {} /\ S # Slot

SlotsByEndpoint(ss, from) == {s \in Slot : ss[s] = from}
SlotsByIp(ss, from) == {s \in Slot : ss[s] # NoAddr /\ ss[s].ip = from.ip}
SlotsByPort(ss, port) == {s \in Slot : ss[s] # NoAddr /\ ss[s].port = port}
FreeSlots(ss) == {s \in Slot : ss[s] = NoAddr}

(* FindSlotForRegistration: at most one slot, by endpoint, then a free one, *)
(* then by an address or a declared port that fits one slot only.           *)
FindSlotForRegistration(ss, from, port) ==
    IF SlotsByEndpoint(ss, from) # {} THEN {First(SlotsByEndpoint(ss, from))}
    ELSE IF FreeSlots(ss) # {} THEN {First(FreeSlots(ss))}
    ELSE IF IsUnique(SlotsByIp(ss, from)) THEN SlotsByIp(ss, from)
    ELSE IF IsUnique(SlotsByPort(ss, port)) THEN SlotsByPort(ss, port)
    ELSE {}

-----------------------------------------------------------------------------
(* One action per kind of datagram.                                         *)

(* The reply to a registration.                                             *)
Answer(ready, from, key) ==
    sent' = [t |-> IF ready THEN "SF4R" ELSE "SF4W",
             to |-> from, from |-> NoAddr, key |-> key]

\* Mutant: every registration starts a new pending generation.
TargetAlwaysNew(k) ==
    IF active.key = k THEN active ELSE [key |-> k, slots |-> NoSlots]

(* The generation a registration for k goes to: the active one, the         *)
(* pending one, or a new pending one that replaces another.                 *)
TargetGeneration(k) ==
    IF active.key = k THEN active
    ELSE IF pending.key = k THEN pending
    ELSE [key |-> k, slots |-> NoSlots]

\* Mutant: the first registration of a generation activates it.
PromotesAtOnce(ss) == \E s \in Slot : ss[s] # NoAddr

(* Whether a generation with these slots takes over from the active one.    *)
Promotes(ss) == BothSlotsActive(ss)

\* Mutant: the slot number is taken from the wrong side.
WithPeerSlot(gen, s, from) == [gen EXCEPT !.slots[Peer(s)] = from]

(* The generation once player slot s is at address from.                    *)
WithSlot(gen, s, from) == [gen EXCEPT !.slots[s] = from]

(* A V3 registration of slot s for generation k.                            *)
RegisterV3(s, k, from) ==
    LET new == WithSlot(TargetGeneration(k), s, from)
        forwards == active.key = k \/ Promotes(new.slots) IN
    /\ running
    /\ active' = IF forwards THEN new ELSE active
    /\ pending' = IF active.key = k THEN pending
                  ELSE IF forwards THEN NoGeneration ELSE new
    /\ Answer(forwards /\ BothSlotsActive(new.slots), from, k)
    /\ regd' = [regd EXCEPT ![k] = @ \cup {s}]
    /\ UNCHANGED <<slots, running>>

(* The slots once s is bound to from.  A slot that moves to another address *)
(* starts a rematch: the peer's slot is invalid until it registers again.   *)
RebindSlot(s, from) ==
    IF slots[s] \notin {NoAddr, from}
    THEN [x \in Slot |-> IF x = s THEN from ELSE NoAddr]
    ELSE [slots EXCEPT ![s] = from]

(* A legacy or V2 registration; without a slot it is not answered.          *)
RegisterLegacy(from, port) ==
    /\ running
    /\ \E s \in FindSlotForRegistration(slots, from, port) :
        /\ slots' = RebindSlot(s, from)
        /\ Answer(BothSlotsActive(slots'), from, NoKey)
    /\ UNCHANGED <<active, pending, running, regd>>

(* Any other datagram is forwarded to the peer of the slot it came from: of *)
(* the active generation by its exact endpoint, else of the legacy slots,   *)
(* where a sender whose port changed is recognised by an unambiguous ip.    *)
V3Active == active.key # NoKey

SourceSlot(ss, from) ==
    IF SlotsByEndpoint(ss, from) # {} THEN {First(SlotsByEndpoint(ss, from))}
    ELSE IF ~V3Active /\ IsUnique(SlotsByIp(ss, from)) THEN SlotsByIp(ss, from)
    ELSE {}

\* Mutant: the datagram goes back to its sender.
SameSlot(s) == s

(* dstSlot *)
DestinationSlot(s) == Peer(s)

Forward(from) ==
    LET ss == IF V3Active THEN active.slots ELSE slots IN
    /\ running
    /\ \E s \in SourceSlot(ss, from) :
        /\ slots' = IF V3Active THEN slots ELSE [slots EXCEPT ![s] = from]
        /\ sent' = IF ss[DestinationSlot(s)] = NoAddr THEN Nothing
                   ELSE [t |-> "data", to |-> ss[DestinationSlot(s)], from |-> from,
                         key |-> active.key]
    /\ UNCHANGED <<active, pending, running, regd>>

(* SF4H *)
Health(from) ==
    /\ running
    /\ sent' = [t |-> "SF4OK", to |-> from, from |-> NoAddr, key |-> NoKey]
    /\ UNCHANGED <<active, pending, slots, running, regd>>

(* select() times out, or nothing came of a datagram.                       *)
Quiet ==
    /\ sent' = Nothing
    /\ UNCHANGED <<active, pending, slots, running, regd>>

(* No datagram for idleExitSec: the process ends.                           *)
IdleExit ==
    /\ running
    /\ running' = FALSE /\ sent' = Nothing
    /\ UNCHANGED <<active, pending, slots, regd>>

RelayNext ==
    \/ \E s \in Slot, k \in Keys, from \in Addrs : RegisterV3(s, k, from)
    \/ \E from \in Addrs, port \in Ports : RegisterLegacy(from, port)
    \/ \E from \in Addrs : Forward(from) \/ Health(from)
    \/ IdleExit \/ Quiet

RelaySpec == RelayInit /\ [][RelayNext]_relayVars

-----------------------------------------------------------------------------
(* Properties, whatever datagrams arrive. *)

Generation == [key : Keys \cup {NoKey}, slots : [Slot -> Addrs \cup {NoAddr}]]

(* Every variable of the relay has the type the code declares for it.       *)
RelayTypeOK ==
    /\ active \in Generation /\ pending \in Generation
    /\ slots \in [Slot -> Addrs \cup {NoAddr}]
    /\ running \in BOOLEAN
    /\ sent \in [t : {"none", "SF4R", "SF4W", "SF4OK", "data"},
                 to : Addrs \cup {NoAddr}, from : Addrs \cup {NoAddr},
                 key : Keys \cup {NoKey}]
    /\ regd \in [Keys -> SUBSET Slot]

(* The forwarding pair is never half of a generation: the active generation *)
(* has both its slots, each registered for this very generation, and the    *)
(* pending one is another generation that still lacks one.                  *)
ActiveComplete ==
    /\ active.key # NoKey =>
         BothSlotsActive(active.slots) /\ regd[active.key] = Slot
    /\ active.key = NoKey => active = NoGeneration
    /\ pending.key # NoKey =>
         /\ pending.key # active.key
         /\ \E s \in Slot : pending.slots[s] = NoAddr
         /\ \A s \in Slot : pending.slots[s] # NoAddr => s \in regd[pending.key]
    /\ pending.key = NoKey => pending = NoGeneration

(* SF4R for a generation is sent only after both its slots registered       *)
(* (docs/NETPLAY_INVARIANTS.md:49).                                         *)
RegisteredMeansBoth ==
    (sent.t = "SF4R" /\ sent.key # NoKey) => regd[sent.key] = Slot

(* The two legacy slots never hold the same endpoint, whatever rebinds      *)
(* happened: a datagram is never forwarded back to its sender.              *)
LegacySlotsDistinct ==
    slots[0] # NoAddr => slots[0] # slots[1]

(* A pending rematch does not disturb the match being forwarded             *)
(* (docs/NETPLAY_INVARIANTS.md:51): the active generation is replaced only  *)
(* in one step and by one both of whose slots registered, and otherwise     *)
(* its slots move only to answer a registration of that generation.         *)
ReplacedWhole ==
    [][\/ active' = active
       \/ active'.key = active.key /\ sent'.t = "SF4R" /\ sent'.key = active.key
       \/ active'.key # active.key /\ regd'[active'.key] = Slot
             /\ pending' = NoGeneration]_relayVars
=============================================================================
