--------------------------- MODULE RelayMatchProofs ---------------------------
(***************************************************************************)
(* What the UDP relay guarantees for every set of addresses, ports and     *)
(* generation keys and whatever datagrams arrive; and, for two players and *)
(* their relay, for any number of matches: the relay of RelayMatch is the  *)
(* one of UdpRelay, so the first part holds there, and from it follows     *)
(* that nobody starts GGPO alone.                                          *)
(***************************************************************************)
EXTENDS RelayMatch, TLAPS

(***************************************************************************)
(* The relay.                                                              *)
(***************************************************************************)

(* Type correctness of every step, action by action.                        *)
LEMMA TypeStep == RelayTypeOK /\ [RelayNext]_relayVars => RelayTypeOK'
<1> SUFFICES ASSUME RelayTypeOK, [RelayNext]_relayVars PROVE RelayTypeOK'
  OBVIOUS
<1> USE RelayAssumption DEF RelayTypeOK, Generation, Slot
<1>1. ASSUME NEW s \in Slot, NEW k \in Keys, NEW from \in Addrs, RegisterV3(s, k, from)
      PROVE  RelayTypeOK'
  <2> DEFINE new == WithSlot(TargetGeneration(k), s, from)
  <2>1. new \in Generation
    BY DEF WithSlot, TargetGeneration, NoSlots
  <2>2. NoGeneration \in Generation
    BY DEF NoGeneration, NoSlots
  <2>3. active' \in Generation /\ pending' \in Generation
    BY <1>1, <2>1, <2>2 DEF RegisterV3
  <2>4. sent' \in [t : {"none", "SF4R", "SF4W", "SF4OK", "data"},
                   to : Addrs \cup {NoAddr}, from : Addrs \cup {NoAddr},
                   key : Keys \cup {NoKey}]
    BY <1>1 DEF RegisterV3, Answer
  <2>5. regd' \in [Keys -> SUBSET Slot]
    BY <1>1 DEF RegisterV3
  <2> QED BY <1>1, <2>3, <2>4, <2>5 DEF RegisterV3
<1>2. ASSUME NEW from \in Addrs, NEW port \in Ports, RegisterLegacy(from, port)
      PROVE  RelayTypeOK'
  <2>1. PICK s \in FindSlotForRegistration(slots, from, port) :
           slots' = RebindSlot(s, from) /\ Answer(BothSlotsActive(slots'), from, NoKey)
    BY <1>2 DEF RegisterLegacy
  <2>2. slots' \in [Slot -> Addrs \cup {NoAddr}]
    BY <2>1 DEF RebindSlot
  <2> QED BY <1>2, <2>1, <2>2 DEF RegisterLegacy, Answer
<1>3. ASSUME NEW from \in Addrs, Forward(from)
      PROVE  RelayTypeOK'
  <2> DEFINE ss == IF V3Active THEN active.slots ELSE slots
  <2>1. ss \in [Slot -> Addrs \cup {NoAddr}]
    OBVIOUS
  <2>2. PICK s \in SourceSlot(ss, from) :
           /\ slots' = IF V3Active THEN slots ELSE [slots EXCEPT ![s] = from]
           /\ sent' = IF ss[DestinationSlot(s)] = NoAddr THEN Nothing
                      ELSE [t |-> "data", to |-> ss[DestinationSlot(s)],
                            from |-> from, key |-> active.key]
    BY <1>3 DEF Forward
  <2>3. DestinationSlot(s) \in Slot
    BY DEF DestinationSlot, Peer
  <2>4. ss[DestinationSlot(s)] \in Addrs \cup {NoAddr}
    BY <2>1, <2>3
  <2>5. slots' \in [Slot -> Addrs \cup {NoAddr}]
    BY <2>2
  <2> HIDE DEF ss
  <2> QED BY <1>3, <2>2, <2>4, <2>5 DEF Forward, Nothing
<1>4. ASSUME NEW from \in Addrs, Health(from)
      PROVE  RelayTypeOK'
  BY <1>4 DEF Health
<1>5. CASE IdleExit
  BY <1>5 DEF IdleExit, Nothing
<1>6. CASE Quiet
  BY <1>6 DEF Quiet, Nothing
<1>7. CASE UNCHANGED relayVars
  BY <1>7 DEF relayVars
<1> QED BY <1>1, <1>2, <1>3, <1>4, <1>5, <1>6, <1>7 DEF RelayNext

(* The relay's variables always have their declared types, whatever         *)
(* datagrams ggpo_udp_relay receives.                                       *)
THEOREM RelayTypeCorrect == RelaySpec => []RelayTypeOK
<1>1. RelayInit => RelayTypeOK
  BY DEF RelayInit, RelayTypeOK, NoGeneration, NoSlots, Nothing, Generation, Slot
<1> QED BY <1>1, TypeStep, PTL DEF RelaySpec

-----------------------------------------------------------------------------
(* The forwarding pair is never half a generation and SF4R is never sent    *)
(* early.  ActiveComplete carries the induction: a generation is promoted   *)
(* when its second slot registers, which needs the pending slots to have    *)
(* registered for that very generation.                                     *)
LEMMA CompleteStep ==
    RelayTypeOK /\ ActiveComplete /\ RegisteredMeansBoth /\ [RelayNext]_relayVars
        => ActiveComplete' /\ RegisteredMeansBoth'
<1> SUFFICES ASSUME RelayTypeOK, ActiveComplete, RegisteredMeansBoth, [RelayNext]_relayVars
             PROVE  ActiveComplete' /\ RegisteredMeansBoth'
  OBVIOUS
<1> USE RelayAssumption
<1>1. ASSUME NEW s \in Slot, NEW k \in Keys, NEW from \in Addrs, RegisterV3(s, k, from)
      PROVE  ActiveComplete' /\ RegisteredMeansBoth'
  <2> DEFINE new == WithSlot(TargetGeneration(k), s, from)
  <2>1. k # NoKey /\ from # NoAddr
    OBVIOUS
  <2>2. /\ regd'[k] = regd[k] \cup {s}
        /\ \A j \in Keys : j # k => regd'[j] = regd[j]
    BY <1>1 DEF RegisterV3, RelayTypeOK
  <2>3. /\ new.key = k /\ new.slots[s] = from
        /\ new.slots[Peer(s)] = TargetGeneration(k).slots[Peer(s)]
        /\ Peer(s) \in Slot /\ Peer(s) # s /\ Slot = {s, Peer(s)}
    BY <2>1 DEF WithSlot, TargetGeneration, NoSlots, Peer, Slot, RelayTypeOK, Generation
  <2>4. sent'.t = (IF (active.key = k \/ Promotes(new.slots)) /\ BothSlotsActive(new.slots)
                   THEN "SF4R" ELSE "SF4W") /\ sent'.key = k
    BY <1>1 DEF RegisterV3, Answer
  <2>5. CASE active.key = k
    <3>1. active' = new /\ pending' = pending
      BY <1>1, <2>5 DEF RegisterV3
    <3>2. TargetGeneration(k) = active
      BY <2>5 DEF TargetGeneration
    <3>3. BothSlotsActive(new.slots) /\ regd'[k] = Slot
      BY <2>1, <2>2, <2>3, <2>5, <3>2 DEF ActiveComplete, BothSlotsActive
    <3>4. pending.key # NoKey => regd'[pending.key] = regd[pending.key]
      BY <2>2, <2>5 DEF ActiveComplete, RelayTypeOK, Generation
    <3> HIDE DEF new
    <3> QED BY <2>1, <2>3, <2>4, <2>5, <3>1, <3>3, <3>4
            DEF ActiveComplete, RegisteredMeansBoth
  <2>6. CASE active.key # k
    <3>1. \A x \in Slot : new.slots[x] # NoAddr => x \in regd'[k]
      BY <2>2, <2>3, <2>6 DEF TargetGeneration, ActiveComplete, NoSlots
    <3>2. CASE BothSlotsActive(new.slots)
      <4>1. active' = new /\ pending' = NoGeneration
        BY <1>1, <2>6, <3>2 DEF RegisterV3, Promotes
      <4>2. regd'[k] = Slot
        BY <2>2, <3>1, <3>2 DEF BothSlotsActive, RelayTypeOK
      <4> HIDE DEF new
      <4> QED BY <2>1, <2>3, <2>4, <3>2, <4>1, <4>2
              DEF ActiveComplete, RegisteredMeansBoth, NoGeneration
    <3>3. CASE ~BothSlotsActive(new.slots)
      <4>1. active' = active /\ pending' = new
        BY <1>1, <2>6, <3>3 DEF RegisterV3, Promotes
      <4>2. active.key # NoKey => regd'[active.key] = regd[active.key]
        BY <2>2, <2>6 DEF RelayTypeOK, Generation
      <4>3. sent'.t = "SF4W"
        BY <2>4, <3>3
      <4> HIDE DEF new
      <4> QED BY <2>1, <2>3, <2>6, <3>1, <3>3, <4>1, <4>2, <4>3
              DEF ActiveComplete, RegisteredMeansBoth, BothSlotsActive
    <3> QED BY <3>2, <3>3
  <2> QED BY <2>5, <2>6
<1>2. CASE UNCHANGED <<active, pending, regd>> /\ (sent'.t = "SF4R" => sent'.key = NoKey)
  BY <1>2 DEF ActiveComplete, RegisteredMeansBoth
<1>3. ASSUME NEW from \in Addrs, NEW port \in Ports, RegisterLegacy(from, port)
      PROVE  ActiveComplete' /\ RegisteredMeansBoth'
  BY <1>2, <1>3 DEF RegisterLegacy, Answer
<1>4. ASSUME NEW from \in Addrs, Forward(from) \/ Health(from)
      PROVE  ActiveComplete' /\ RegisteredMeansBoth'
  BY <1>2, <1>4 DEF Forward, Health, Nothing
<1>5. CASE IdleExit \/ Quiet
  BY <1>2, <1>5 DEF IdleExit, Quiet, Nothing
<1>6. CASE UNCHANGED relayVars
  BY <1>6 DEF relayVars, ActiveComplete, RegisteredMeansBoth
<1> QED BY <1>1, <1>3, <1>4, <1>5, <1>6 DEF RelayNext

(* The active generation always has both its slots, registered for it.      *)
THEOREM RelayComplete == RelaySpec => [](ActiveComplete /\ RegisteredMeansBoth)
<1>1. RelayInit => ActiveComplete /\ RegisteredMeansBoth
  BY DEF RelayInit, ActiveComplete, RegisteredMeansBoth, NoGeneration, NoSlots, Nothing
<1> QED BY <1>1, RelayTypeCorrect, CompleteStep, PTL DEF RelaySpec

(* Late, duplicated or half-finished registrations of a rematch never touch *)
(* the pair the relay forwards between.                                     *)
THEOREM RelayReplacedWhole == RelaySpec => ReplacedWhole
<1> DEFINE Step == \/ active' = active
                   \/ active'.key = active.key /\ sent'.t = "SF4R" /\ sent'.key = active.key
                   \/ active'.key # active.key /\ regd'[active'.key] = Slot
                         /\ pending' = NoGeneration
<1>1. ASSUME RelayTypeOK, ActiveComplete, RegisteredMeansBoth, ActiveComplete', RelayNext
      PROVE  Step
  <2>1. ASSUME NEW s \in Slot, NEW k \in Keys, NEW from \in Addrs, RegisterV3(s, k, from)
        PROVE  Step
    <3> DEFINE new == WithSlot(TargetGeneration(k), s, from)
    <3>1. new.key = k /\ k # NoKey /\ from # NoAddr
      BY RelayAssumption DEF WithSlot, TargetGeneration
    <3>2. CASE active.key = k
      <4>1. BothSlotsActive(new.slots)
        BY <1>1, <3>1, <3>2 DEF WithSlot, TargetGeneration, BothSlotsActive, ActiveComplete,
             RelayTypeOK, Generation
      <4> QED BY <2>1, <3>1, <3>2, <4>1 DEF RegisterV3, Answer
    <3>3. CASE active.key # k /\ Promotes(new.slots)
      <4>1. active' = new /\ pending' = NoGeneration
        BY <2>1, <3>3 DEF RegisterV3
      <4> QED BY <1>1, <3>1, <3>3, <4>1 DEF ActiveComplete
    <3>4. CASE active.key # k /\ ~Promotes(new.slots)
      BY <2>1, <3>4 DEF RegisterV3
    <3> QED BY <3>2, <3>3, <3>4
  <2>2. CASE active' = active
    BY <2>2
  <2> QED BY <1>1, <2>1, <2>2
          DEF RelayNext, RegisterLegacy, Forward, Health, IdleExit, Quiet
<1>2. RelayTypeOK /\ ActiveComplete /\ RegisteredMeansBoth /\ ActiveComplete'
        /\ [RelayNext]_relayVars => [Step]_relayVars
  BY <1>1
<1> QED BY <1>2, RelayTypeCorrect, RelayComplete, PTL DEF RelaySpec, ReplacedWhole

-----------------------------------------------------------------------------
(* The lookup rules keep two legacy clients apart: a slot moves to an       *)
(* address only if no slot holds that address already.                      *)
LEMMA LegacyStep ==
    RelayTypeOK /\ LegacySlotsDistinct /\ [RelayNext]_relayVars => LegacySlotsDistinct'
<1> SUFFICES ASSUME RelayTypeOK, LegacySlotsDistinct, [RelayNext]_relayVars
             PROVE  LegacySlotsDistinct'
  OBVIOUS
<1> USE RelayAssumption DEF RelayTypeOK, Slot
<1>1. ASSUME NEW from \in Addrs, NEW s \in Slot, slots[Peer(s)] # from,
             slots' = [slots EXCEPT ![s] = from]
      PROVE  LegacySlotsDistinct'
  BY <1>1 DEF LegacySlotsDistinct, Peer
<1>2. ASSUME NEW from \in Addrs, NEW port \in Ports, RegisterLegacy(from, port)
      PROVE  LegacySlotsDistinct'
  <2>1. PICK s \in FindSlotForRegistration(slots, from, port) :
           slots' = RebindSlot(s, from)
    BY <1>2 DEF RegisterLegacy
  <2>2. s \in Slot /\ slots[Peer(s)] # from
    <3>1. CASE SlotsByEndpoint(slots, from) # {}
      BY <2>1, <3>1 DEF FindSlotForRegistration, SlotsByEndpoint, First, Peer,
           LegacySlotsDistinct
    <3>2. CASE SlotsByEndpoint(slots, from) = {}
      <4>1. s \in Slot
        BY <2>1, <3>2 DEF FindSlotForRegistration, FreeSlots, SlotsByIp, SlotsByPort, First
      <4> QED BY <3>2, <4>1 DEF SlotsByEndpoint, Peer
    <3> QED BY <3>1, <3>2
  <2>3. CASE slots[s] \in {NoAddr, from}
    BY <1>1, <2>1, <2>2, <2>3 DEF RebindSlot
  <2>4. CASE slots[s] \notin {NoAddr, from}
    BY <2>1, <2>2, <2>4 DEF RebindSlot, LegacySlotsDistinct
  <2> QED BY <2>3, <2>4
<1>3. ASSUME NEW from \in Addrs, Forward(from)
      PROVE  LegacySlotsDistinct'
  <2>1. CASE V3Active
    BY <1>3, <2>1 DEF Forward, LegacySlotsDistinct
  <2>2. CASE ~V3Active
    <3>1. PICK s \in SourceSlot(slots, from) : slots' = [slots EXCEPT ![s] = from]
      BY <1>3, <2>2 DEF Forward
    <3>2. s \in Slot /\ slots[Peer(s)] # from
      BY <3>1 DEF SourceSlot, SlotsByEndpoint, SlotsByIp, IsUnique, First, Peer,
           LegacySlotsDistinct
    <3> QED BY <1>1, <3>1, <3>2
  <2> QED BY <2>1, <2>2
<1>4. CASE UNCHANGED slots
  BY <1>4 DEF LegacySlotsDistinct
<1> QED BY <1>2, <1>3, <1>4
        DEF RelayNext, RegisterV3, Health, IdleExit, Quiet, relayVars

(* Two legacy clients never share an endpoint, whatever they register and   *)
(* whichever ports their datagrams come from.                               *)
THEOREM RelayLegacyDistinct == RelaySpec => []LegacySlotsDistinct
<1>1. RelayInit => LegacySlotsDistinct
  BY DEF RelayInit, LegacySlotsDistinct, NoSlots, Slot
<1> QED BY <1>1, RelayTypeCorrect, LegacyStep, PTL DEF RelaySpec

(***************************************************************************)
(* Two players and the relay.                                              *)
(***************************************************************************)

(* Every match of the room has a key of its own.                            *)
DistinctKeys == \A m, n \in 1..MaxMatch : KeyOf[m] = KeyOf[n] => m = n

(* The two players never have the same address.                             *)
DistinctAddrs == AddrsOf[0] \cap AddrsOf[1] = {}

(* Datagrams in the air are those of their sender's, and answers those of   *)
(* their receiver's, present match.                                         *)
AirInv ==
    /\ \A d \in net : /\ d.match = player[d.by].match
                      /\ d.from = player[d.by].addr
    /\ \A d \in mail : d.t \in {"SF4R", "SF4W"} =>
          d.match = player[d.for].match /\ d.to = player[d.for].addr
    /\ \A p \in Slot : player[p].match > 0 => player[p].addr \in AddrsOf[p]
    /\ \A p \in Slot : player[p].st # "lobby" => player[p].match > 0

(* A registration of the relay is one of a player that has entered a match  *)
(* with that key; an SF4R in the air and a started player have both.        *)
StartInv ==
    /\ \A k \in Keys : \A s \in regd[k] :
          \E m \in 1..MaxMatch : KeyOf[m] = k /\ player[s].match >= m
    /\ \A d \in mail : d.t = "SF4R" => regd[KeyOf[d.match]] = Slot
    /\ \A p \in Slot : player[p].st = "started" => regd[KeyOf[player[p].match]] = Slot

(* What keeps the pair that is forwarded for and the two players together:  *)
(* a player falls behind only while it is in the lobby, a slot of a         *)
(* generation holds the address its player has in that match, and an answer *)
(* that starts a player names the active generation.                        *)
PairInv ==
    /\ \A p \in Slot : player[Peer(p)].match > player[p].match => player[p].st = "lobby"
    /\ \A gen \in {active, pending} : \A s \in Slot : \A m \in 1..MaxMatch :
          (gen.key = KeyOf[m] /\ player[s].match = m /\ gen.slots[s] # NoAddr)
              => gen.slots[s] = player[s].addr
    /\ \A d \in mail : (d.t = "SF4R" /\ player[d.for].st # "lobby")
                          => active.key = KeyOf[d.match]
    /\ \A p \in Slot : player[p].st = "started" => active.key = KeyOf[player[p].match]

(* Where forwarded data comes from and goes to: once a room plays matches   *)
(* its legacy slots are empty, every slot of a generation is an address of  *)
(* its player, and data in the air is the peer's in its present match.      *)
DataInv ==
    /\ NewRoom => slots = NoSlots
    /\ \A gen \in {active, pending} : \A s \in Slot : gen.slots[s] \in AddrsOf[s] \cup {NoAddr}
    /\ \A d \in mail : d.t = "data" => /\ d.for = Peer(d.by)
                                        /\ d.match = player[d.by].match
                                        /\ d.to \in AddrsOf[d.for]

-----------------------------------------------------------------------------
(* Every step of the composition is a step of the relay under arbitrary     *)
(* datagrams.                                                               *)
LEMMA RelayStep == TypeOK /\ AirInv /\ [Next]_vars => [RelayNext]_relayVars
<1> SUFFICES ASSUME TypeOK, AirInv, [Next]_vars PROVE [RelayNext]_relayVars
  OBVIOUS
<1> USE MatchAssumption
<1>1. ASSUME NEW d \in net, RelayRegister(d)
      PROVE  RelayNext
  <2>1. d.by \in Slot /\ KeyOf[d.match] \in Keys /\ d.from \in Addrs
    BY DEF TypeOK
  <2> QED BY <1>1, <2>1 DEF RelayRegister, RelayNext
<1>2. ASSUME NEW d \in net, RelayForward(d)
      PROVE  RelayNext
  <2>1. d.from \in Addrs
    BY DEF TypeOK
  <2> QED BY <1>2, <2>1 DEF RelayForward, RelayNext
<1>3. CASE OldTraffic
  BY <1>3 DEF OldTraffic, RelayNext
<1>4. CASE RelayIdle
  BY <1>4 DEF RelayIdle, RelayNext
<1>5. ASSUME NEW p \in Slot,
             \/ PrepareForBattle(p) \/ Probe(p) \/ TimeOut(p) \/ SendData(p) \/ EndMatch(p)
             \/ \E d \in mail : ReceiveAnswer(p, d)
      PROVE  RelayNext
  BY <1>5 DEF PrepareForBattle, Probe, TimeOut, SendData, EndMatch, ReceiveAnswer, RelayNext
<1>6. ASSUME NEW p \in Slot, ProbeHealth(p)
      PROVE  RelayNext
  <2>1. player[p].addr \in Addrs
    BY <1>6 DEF ProbeHealth, AirInv
  <2> QED BY <1>6, <2>1 DEF ProbeHealth, RelayNext
<1> QED BY <1>1, <1>2, <1>3, <1>4, <1>5, <1>6 DEF Next, vars

(* What a player can receive of a relay step.                               *)
LEMMA PostedMail ==
    ASSUME NEW d, NEW for, Posted(d, for)
    PROVE  \/ mail' = mail
           \/ /\ sent'.to # NoAddr
              /\ mail' = mail \cup {[t |-> sent'.t, to |-> sent'.to, for |-> for,
                                    by |-> d.by, match |-> d.match]}
BY DEF Posted

(* Types and datagrams.                                                     *)
LEMMA AirStep == TypeOK /\ AirInv /\ [Next]_vars => TypeOK' /\ AirInv'
<1> SUFFICES ASSUME TypeOK, AirInv, [Next]_vars PROVE TypeOK' /\ AirInv'
  OBVIOUS
<1> USE MatchAssumption
<1>1. RelayTypeOK'
  BY RelayStep, TypeStep DEF TypeOK
<1>2. ASSUME NEW p \in Slot, PrepareForBattle(p)
      PROVE  TypeOK' /\ AirInv'
  <2>1. PICK a \in AddrsOf[p] :
          player' = [player EXCEPT ![p] = [match |-> @.match + 1, st |-> "registering",
                                           addr |-> a]]
    BY <1>2 DEF PrepareForBattle
  <2>2. player[p].match \in 0..MaxMatch /\ player[p].match < MaxMatch /\ a \in Addrs
    BY <1>2 DEF PrepareForBattle, TypeOK
  <2>3. player'[p] = [match |-> player[p].match + 1, st |-> "registering", addr |-> a]
        /\ \A q \in Slot : q # p => player'[q] = player[q]
    BY <2>1 DEF TypeOK
  <2>4. net' \subseteq net /\ mail' \subseteq mail
    BY <1>2 DEF PrepareForBattle
  <2>5. (\A d \in net' : d.by # p) /\ (\A d \in mail' : d.for # p)
    BY <1>2 DEF PrepareForBattle
  <2>6. player' \in [Slot -> [match : 0..MaxMatch, st : {"lobby", "registering", "started"},
                              addr : Addrs \cup {NoAddr}]]
    BY <2>1, <2>2 DEF TypeOK
  <2>7. TypeOK'
    BY <1>1, <2>4, <2>6 DEF TypeOK
  <2>8. AirInv'
    <3>1. \A d \in net' : d.by \in Slot /\ player'[d.by] = player[d.by]
      BY <2>3, <2>4, <2>5 DEF TypeOK
    <3>2. \A d \in mail' : d.for \in Slot /\ player'[d.for] = player[d.for]
      BY <2>3, <2>4, <2>5 DEF TypeOK
    <3>3. player[p].match + 1 > 0
      BY <2>2
    <3> QED BY <2>2, <2>3, <2>4, <3>1, <3>2, <3>3 DEF AirInv
  <2> QED BY <2>7, <2>8
<1>3. ASSUME NEW p \in Slot, Probe(p) \/ SendData(p)
      PROVE  TypeOK' /\ AirInv'
  <2>1. PICK t \in {"reg", "data"} :
          net' = net \cup {[t |-> t, by |-> p, match |-> player[p].match,
                             from |-> player[p].addr]}
    BY <1>3 DEF Probe, SendData
  <2>2. player' = player /\ mail' = mail /\ player[p].st # "lobby"
    BY <1>3 DEF Probe, SendData
  <2>3. player[p].match \in 1..MaxMatch /\ player[p].addr \in Addrs
    BY <2>2 DEF TypeOK, AirInv
  <2> QED BY <1>1, <2>1, <2>2, <2>3 DEF TypeOK, AirInv
<1>4. ASSUME NEW p \in Slot, \/ TimeOut(p) \/ EndMatch(p)
                             \/ \E d \in mail : ReceiveAnswer(p, d)
      PROVE  TypeOK' /\ AirInv'
  <2>1. net' = net /\ mail' \subseteq mail /\ player[p].st # "lobby"
    BY <1>4 DEF TimeOut, EndMatch, ReceiveAnswer
  <2>2. \/ player' = player
        \/ \E st \in {"lobby", "started"} : player' = [player EXCEPT ![p].st = st]
    BY <1>4 DEF TimeOut, EndMatch, ReceiveAnswer
  <2>3. \A q \in Slot : /\ player'[q].match = player[q].match
                        /\ player'[q].addr = player[q].addr
                        /\ player'[q].st # "lobby" => player[q].st # "lobby"
    <3>1. CASE player' = player
      BY <3>1
    <3>2. ASSUME NEW st \in {"lobby", "started"}, player' = [player EXCEPT ![p].st = st]
          PROVE  \A q \in Slot : /\ player'[q].match = player[q].match
                                 /\ player'[q].addr = player[q].addr
                                 /\ q # p => player'[q].st = player[q].st
      BY <3>2 DEF TypeOK
    <3> QED BY <2>1, <2>2, <3>1, <3>2
  <2>4. TypeOK'
    BY ZenonT(60), <1>1, <2>1, <2>2 DEF TypeOK
  <2>5. (\A d \in net : d.by \in Slot) /\ (\A d \in mail : d.for \in Slot)
    BY DEF TypeOK
  <2> QED BY <2>1, <2>3, <2>4, <2>5 DEF AirInv
<1>5. ASSUME NEW d \in net, RelayRegister(d) \/ RelayForward(d)
      PROVE  TypeOK' /\ AirInv'
  <2>1. player' = player /\ net' \subseteq net
    BY <1>5 DEF RelayRegister, RelayForward
  <2>2. d.by \in Slot /\ d.match \in 1..MaxMatch /\ d.from \in Addrs
        /\ d.match = player[d.by].match /\ d.from = player[d.by].addr
    BY DEF TypeOK, AirInv
  <2>3. CASE RelayRegister(d)
    <3>1. sent'.t \in {"SF4R", "SF4W"} /\ sent'.to = d.from /\ Posted(d, d.by)
      BY <2>3 DEF RelayRegister, RegisterV3, Answer
    <3>2. mail' = mail \cup {[t |-> sent'.t, to |-> d.from, for |-> d.by,
                               by |-> d.by, match |-> d.match]}
      BY <2>2, <3>1, RelayAssumption DEF Posted
    <3> QED BY <1>1, <2>1, <2>2, <3>1, <3>2 DEF TypeOK, AirInv
  <2>4. CASE RelayForward(d)
    <3>1. Posted(d, Peer(d.by)) /\ sent'.t \in {"none", "data"}
          /\ (sent'.t = "none" => sent'.to = NoAddr)
      BY <2>4 DEF RelayForward, Forward, Nothing
    <3>2. Peer(d.by) \in Slot /\ sent'.to \in Addrs \cup {NoAddr}
      BY <1>1, <2>2 DEF Peer, Slot, RelayTypeOK
    <3>3. CASE mail' = mail
      BY <1>1, <2>1, <3>3 DEF TypeOK, AirInv
    <3>4. CASE /\ sent'.to # NoAddr
               /\ mail' = mail \cup {[t |-> sent'.t, to |-> sent'.to, for |-> Peer(d.by),
                                     by |-> d.by, match |-> d.match]}
      <4>1. sent'.t = "data" /\ sent'.to \in Addrs
        BY <3>1, <3>2, <3>4
      <4> QED BY <1>1, <2>1, <2>2, <3>2, <3>4, <4>1 DEF TypeOK, AirInv
    <3> QED BY <3>1, <3>3, <3>4, PostedMail
  <2> QED BY <1>5, <2>3, <2>4
<1>6. CASE UNCHANGED matchVars
  BY <1>1, <1>6 DEF TypeOK, AirInv, matchVars
<1> QED BY <1>2, <1>3, <1>4, <1>5, <1>6
        DEF Next, OldTraffic, RelayIdle, ProbeHealth, vars, matchVars

-----------------------------------------------------------------------------
(* StartInv is preserved: both registrations behind an SF4R are those of    *)
(* players that have entered the match.                                     *)
LEMMA StartStep ==
    ASSUME DistinctAddrs
    PROVE  TypeOK /\ AirInv /\ StartInv /\ TypeOK' /\ RegisteredMeansBoth' /\ [Next]_vars
             => StartInv'
<1> SUFFICES ASSUME TypeOK, AirInv, StartInv, TypeOK', RegisteredMeansBoth', [Next]_vars
             PROVE  StartInv'
  OBVIOUS
<1> USE MatchAssumption
<1>1. ASSUME NEW p \in Slot, PrepareForBattle(p)
      PROVE  StartInv'
  <2>1. regd' = regd /\ mail' \subseteq mail
    BY <1>1 DEF PrepareForBattle, Quiet
  <2>2. \A q \in Slot : /\ player'[q].match >= player[q].match
                        /\ player'[q].st = "started" => player'[q] = player[q]
    BY <1>1 DEF PrepareForBattle, TypeOK
  <2>3. \A q \in Slot : player[q].match \in Nat /\ player'[q].match \in Nat
    BY DEF TypeOK
  <2>4. \A k \in Keys : regd[k] \subseteq Slot
    BY DEF TypeOK, RelayTypeOK
  <2> QED BY <2>1, <2>2, <2>3, <2>4 DEF StartInv
<1>2. ASSUME NEW p \in Slot, NEW d \in mail, ReceiveAnswer(p, d)
      PROVE  StartInv'
  <2>1. regd' = regd /\ mail' \subseteq mail
    BY <1>2 DEF ReceiveAnswer, Quiet
  <2>2. \A q \in Slot : player'[q].match = player[q].match
    BY <1>2 DEF ReceiveAnswer, TypeOK
  <2>3. \A q \in Slot : q # p => player'[q].st = player[q].st
    BY <1>2 DEF ReceiveAnswer, TypeOK
  <2>4. d.for = p /\ d.match = player[p].match
    <3>1. d.to = player[p].addr /\ d.t \in {"SF4R", "SF4W"} /\ player[p].st # "lobby"
      BY <1>2 DEF ReceiveAnswer
    <3>2. player[p].addr \in AddrsOf[p]
      BY <3>1 DEF AirInv
    <3>3. d.for \in Slot /\ d.match \in 1..MaxMatch
      BY DEF TypeOK
    <3>4. d.match = player[d.for].match /\ d.to = player[d.for].addr
      BY <3>1 DEF AirInv
    <3>5. d.to \in AddrsOf[d.for]
      BY <3>3, <3>4 DEF AirInv
    <3> QED BY <3>1, <3>2, <3>3, <3>4, <3>5 DEF DistinctAddrs, Slot
  <2>5. player'[p].st = "started" => d.t = "SF4R"
    BY <1>2 DEF ReceiveAnswer, IsSuccess
  <2>6. \A k \in Keys : regd[k] \subseteq Slot
    BY DEF TypeOK, RelayTypeOK
  <2> QED BY <2>1, <2>2, <2>3, <2>4, <2>5, <2>6 DEF StartInv
<1>3. ASSUME NEW p \in Slot, TimeOut(p) \/ EndMatch(p)
      PROVE  StartInv'
  <2>1. regd' = regd /\ mail' = mail
    BY <1>3 DEF TimeOut, EndMatch, Quiet
  <2>2. \A q \in Slot : /\ player'[q].match = player[q].match
                        /\ player'[q].st = "started" => player[q].st = "started"
    BY <1>3 DEF TimeOut, EndMatch, TypeOK
  <2>3. \A k \in Keys : regd[k] \subseteq Slot
    BY DEF TypeOK, RelayTypeOK
  <2> QED BY <2>1, <2>2, <2>3 DEF StartInv
<1>4. ASSUME NEW d \in net, RelayRegister(d)
      PROVE  StartInv'
  <2> DEFINE k == KeyOf[d.match]
  <2>1. /\ player' = player
        /\ regd' = [regd EXCEPT ![k] = @ \cup {d.by}]
        /\ sent'.key = k /\ Posted(d, d.by)
    BY <1>4 DEF RelayRegister, RegisterV3, Answer
  <2>2. d.by \in Slot /\ d.match \in 1..MaxMatch /\ k \in Keys
        /\ player[d.by].match = d.match
    BY DEF TypeOK, AirInv
  <2>3. /\ \A j \in Keys : j # k => regd'[j] = regd[j]
        /\ regd'[k] = regd[k] \cup {d.by}
    BY <2>1, <2>2 DEF TypeOK, RelayTypeOK
  <2>4. \A j \in Keys : regd[j] = Slot => regd'[j] = Slot
    BY <2>2, <2>3
  <2>5. \A m \in 1..MaxMatch : KeyOf[m] \in Keys
    OBVIOUS
  <2>6. \A j \in Keys : \A s \in regd'[j] :
          \E m \in 1..MaxMatch : KeyOf[m] = j /\ player'[s].match >= m
    BY <2>1, <2>2, <2>3 DEF StartInv
  <2>7. \A e \in mail' : e.t = "SF4R" => regd'[KeyOf[e.match]] = Slot
    <3>1. \A e \in mail : e.match \in 1..MaxMatch
      BY DEF TypeOK
    <3>2. sent'.t = "SF4R" => regd'[k] = Slot
      BY <2>1, <2>2, RelayAssumption DEF RegisteredMeansBoth
    <3> QED BY <2>1, <2>4, <2>5, <3>1, <3>2, PostedMail DEF StartInv
  <2>8. \A p \in Slot : player'[p].st = "started" =>
                          regd'[KeyOf[player'[p].match]] = Slot
    BY <2>1, <2>4, <2>5 DEF StartInv, AirInv, TypeOK
  <2> QED BY <2>6, <2>7, <2>8 DEF StartInv
<1>5. ASSUME NEW d \in net, RelayForward(d)
      PROVE  StartInv'
  <2>1. player' = player /\ regd' = regd /\ sent'.t # "SF4R" /\ Posted(d, Peer(d.by))
    BY <1>5 DEF RelayForward, Forward, Nothing
  <2> QED BY <2>1, PostedMail DEF StartInv
<1>6. CASE regd' = regd /\ player' = player /\ mail' = mail
  BY <1>6 DEF StartInv
<1>7. ASSUME NEW p \in Slot, Probe(p) \/ SendData(p) \/ ProbeHealth(p)
      PROVE  StartInv'
  BY <1>6, <1>7 DEF Probe, SendData, ProbeHealth, Quiet, Health, matchVars
<1>8. CASE OldTraffic \/ RelayIdle
  BY <1>6, <1>8 DEF OldTraffic, RelayIdle, RegisterLegacy, Forward, IdleExit, matchVars
<1>9. CASE UNCHANGED vars
  BY <1>6, <1>9 DEF vars, relayVars, matchVars
<1> QED BY <1>1, <1>2, <1>3, <1>4, <1>5, <1>7, <1>8, <1>9 DEF Next

-----------------------------------------------------------------------------
(* A player out of the lobby whose match both registered is in the same     *)
(* match as its peer.                                                       *)
LEMMA SameMatch ==
    ASSUME DistinctKeys, TypeOK, AirInv, StartInv, PairInv,
           NEW p \in Slot, player[p].st # "lobby", regd[KeyOf[player[p].match]] = Slot
    PROVE  \A q \in Slot : player[q].match = player[p].match
<1>1. player[p].match \in 1..MaxMatch /\ Peer(p) \in Slot /\ Slot = {p, Peer(p)}
  BY DEF TypeOK, AirInv, Peer, Slot
<1>2. KeyOf[player[p].match] \in Keys
  BY <1>1, MatchAssumption
<1>3. PICK m \in 1..MaxMatch : /\ KeyOf[m] = KeyOf[player[p].match]
                               /\ player[Peer(p)].match >= m
  BY <1>1, <1>2 DEF StartInv
<1>4. player[Peer(p)].match >= player[p].match
  BY <1>1, <1>3 DEF DistinctKeys
<1>5. ~(player[Peer(p)].match > player[p].match)
  BY <1>1 DEF PairInv
<1>6. player[Peer(p)].match \in Nat /\ player[p].match \in Nat
  BY <1>1 DEF TypeOK
<1> QED BY <1>1, <1>4, <1>5, <1>6

(* A player that enters its next match is in no generation of that match.   *)
LEMMA EntersFresh ==
    ASSUME DistinctKeys, TypeOK, StartInv, ActiveComplete,
           NEW gen \in {active, pending}, NEW s \in Slot, NEW m \in 1..MaxMatch,
           gen.key = KeyOf[m], gen.slots[s] # NoAddr
    PROVE  player[s].match >= m
<1>1. KeyOf[m] \in Keys /\ KeyOf[m] # NoKey
  BY MatchAssumption, RelayAssumption
<1>2. s \in regd[KeyOf[m]]
  BY <1>1 DEF ActiveComplete
<1>3. PICK n \in 1..MaxMatch : KeyOf[n] = KeyOf[m] /\ player[s].match >= n
  BY <1>1, <1>2 DEF StartInv
<1> QED BY <1>3 DEF DistinctKeys

(* The players and the pair the relay forwards for stay together.           *)
LEMMA PairStep ==
    ASSUME DistinctKeys, DistinctAddrs
    PROVE  TypeOK /\ AirInv /\ StartInv /\ ActiveComplete /\ PairInv /\ TypeOK' /\ [Next]_vars
             => PairInv'
<1> SUFFICES ASSUME TypeOK, AirInv, StartInv, ActiveComplete, PairInv, TypeOK', [Next]_vars
             PROVE  PairInv'
  OBVIOUS
<1> USE MatchAssumption
<1>a. \A q \in Slot : Peer(q) \in Slot /\ Peer(Peer(q)) = q /\ Peer(q) # q
                      /\ \A r \in Slot : r # q => r = Peer(q)
  BY DEF Peer, Slot
<1>b. \A q \in Slot : player[q].match \in Nat /\ player'[q].match \in Nat
  BY DEF TypeOK
<1>1. ASSUME NEW p \in Slot, PrepareForBattle(p)
      PROVE  PairInv'
  <2>1. PICK a \in AddrsOf[p] :
          player' = [player EXCEPT ![p] = [match |-> @.match + 1, st |-> "registering",
                                           addr |-> a]]
    BY <1>1 DEF PrepareForBattle
  <2>2. /\ UNCHANGED <<active, pending, regd>>
        /\ mail' \subseteq mail /\ \A d \in mail' : d.for # p /\ d.for \in Slot
    BY <1>1 DEF PrepareForBattle, Quiet, TypeOK
  <2>3. /\ player'[p].match = player[p].match + 1 /\ player'[p].st = "registering"
        /\ player'[p].addr = a /\ \A q \in Slot : q # p => player'[q] = player[q]
    BY <2>1 DEF TypeOK
  <2>4. \A q \in Slot : player'[Peer(q)].match > player'[q].match => player'[q].st = "lobby"
    <3>1. player[p].st = "lobby" /\ AllReady(p)
      BY <1>1 DEF PrepareForBattle
    <3>2. ~(player'[Peer(p)].match > player'[p].match)
      BY <1>a, <1>b, <2>3, <3>1 DEF AllReady
    <3>3. player'[p].match > player'[Peer(p)].match => player'[Peer(p)].st = "lobby"
      BY <1>a, <1>b, <2>3, <3>1 DEF AllReady
    <3> QED BY <1>a, <3>2, <3>3
  <2>5. \A gen \in {active, pending} : \A s \in Slot : \A m \in 1..MaxMatch :
          (gen.key = KeyOf[m] /\ player'[s].match = m /\ gen.slots[s] # NoAddr)
              => gen.slots[s] = player'[s].addr
    BY <1>b, <2>3, EntersFresh DEF PairInv
  <2> QED BY <2>2, <2>3, <2>4, <2>5 DEF PairInv
<1>2. ASSUME NEW p \in Slot, NEW d \in mail, ReceiveAnswer(p, d)
      PROVE  PairInv'
  <2>1. UNCHANGED <<active, pending, regd>> /\ mail' \subseteq mail
    BY <1>2 DEF ReceiveAnswer, Quiet
  <2>2. \A q \in Slot : /\ player'[q].match = player[q].match
                        /\ player'[q].addr = player[q].addr
                        /\ q # p => player'[q].st = player[q].st
    BY <1>2 DEF ReceiveAnswer, TypeOK
  <2>3. player[p].st # "lobby" /\ player'[p].st # "lobby"
        /\ (player'[p].st = "started" => d.t = "SF4R")
    BY <1>2 DEF ReceiveAnswer, IsSuccess, TypeOK
  <2>4. d.for = p /\ d.match = player[p].match
    <3>1. d.to = player[p].addr /\ d.t \in {"SF4R", "SF4W"}
      BY <1>2 DEF ReceiveAnswer
    <3>2. player[p].addr \in AddrsOf[p] /\ d.for \in Slot /\ d.match \in 1..MaxMatch
      BY <2>3 DEF AirInv, TypeOK
    <3>3. d.match = player[d.for].match /\ d.to = player[d.for].addr
      BY <3>1 DEF AirInv
    <3>4. d.to \in AddrsOf[d.for]
      BY <3>2, <3>3 DEF AirInv
    <3> QED BY <3>1, <3>2, <3>3, <3>4 DEF DistinctAddrs, Slot
  <2>5. \A q \in Slot : player'[Peer(q)].match > player'[q].match => player'[q].st = "lobby"
    BY <1>a, <2>2, <2>3 DEF PairInv
  <2>6. \A e \in mail' : (e.t = "SF4R" /\ player'[e.for].st # "lobby")
                          => active.key = KeyOf[e.match]
    <3>1. \A e \in mail : e.for \in Slot
      BY DEF TypeOK
    <3> QED BY <2>1, <2>2, <2>3, <3>1 DEF PairInv
  <2>7. \A q \in Slot : player'[q].st = "started" => active.key = KeyOf[player'[q].match]
    BY <2>2, <2>3, <2>4 DEF PairInv
  <2> QED BY <2>1, <2>2, <2>5, <2>6, <2>7 DEF PairInv
<1>3. ASSUME NEW p \in Slot, TimeOut(p) \/ EndMatch(p)
      PROVE  PairInv'
  <2>1. UNCHANGED <<active, pending, regd, mail>>
    BY <1>3 DEF TimeOut, EndMatch, Quiet
  <2>2. player' = [player EXCEPT ![p].st = "lobby"]
    BY <1>3 DEF TimeOut, EndMatch
  <2>3. \A q \in Slot : /\ player'[q].match = player[q].match
                        /\ player'[q].addr = player[q].addr
                        /\ q # p => player'[q].st = player[q].st
                        /\ q = p => player'[q].st = "lobby"
    BY <2>2 DEF TypeOK
  <2>4. \A e \in mail : e.for \in Slot
    BY DEF TypeOK
  <2> QED BY <1>a, <2>1, <2>3, <2>4 DEF PairInv
<1>4. ASSUME NEW d \in net, RelayRegister(d)
      PROVE  PairInv'
  <2> DEFINE k == KeyOf[d.match]
             new == WithSlot(TargetGeneration(k), d.by, d.from)
             forwards == active.key = k \/ Promotes(new.slots)
  <2>1. /\ player' = player
        /\ active' = IF forwards THEN new ELSE active
        /\ pending' = IF active.key = k THEN pending
                      ELSE IF forwards THEN NoGeneration ELSE new
        /\ Posted(d, d.by)
    BY <1>4 DEF RelayRegister, RegisterV3
  <2>2. sent'.t = "SF4R" => forwards
    BY <1>4 DEF RelayRegister, RegisterV3, Answer
  <2>3. d.by \in Slot /\ d.match \in 1..MaxMatch /\ k \in Keys /\ d.from \in Addrs
        /\ player[d.by].match = d.match /\ player[d.by].addr = d.from
    BY DEF TypeOK, AirInv
  <2>4. /\ new.key = k /\ new.slots[d.by] = d.from
        /\ new.slots[Peer(d.by)] = TargetGeneration(k).slots[Peer(d.by)]
        /\ TargetGeneration(k).slots[Peer(d.by)] # NoAddr =>
             \E gen \in {active, pending} : gen.key = k /\ gen = TargetGeneration(k)
    BY <1>a, <2>3 DEF WithSlot, TargetGeneration, NoSlots, TypeOK, RelayTypeOK, Generation
  <2> HIDE DEF new, forwards
  <2>5. \A s \in Slot : \A m \in 1..MaxMatch :
          (new.key = KeyOf[m] /\ player[s].match = m /\ new.slots[s] # NoAddr)
              => new.slots[s] = player[s].addr
    BY <1>a, <2>3, <2>4 DEF PairInv
  <2>6. \A gen \in {active', pending'} : \A s \in Slot : \A m \in 1..MaxMatch :
          (gen.key = KeyOf[m] /\ player'[s].match = m /\ gen.slots[s] # NoAddr)
              => gen.slots[s] = player'[s].addr
    <3>1. \A m \in 1..MaxMatch : NoGeneration.key # KeyOf[m]
      BY RelayAssumption DEF NoGeneration
    <3> QED BY <2>1, <2>5, <3>1 DEF PairInv
  <2>7. \A q \in Slot : (player[q].st # "lobby" /\ regd[KeyOf[player[q].match]] = Slot
                          /\ active.key = KeyOf[player[q].match]) => active'.key = active.key
    <3> SUFFICES ASSUME NEW q \in Slot, player[q].st # "lobby",
                        regd[KeyOf[player[q].match]] = Slot,
                        active.key = KeyOf[player[q].match]
                 PROVE  active'.key = active.key
      OBVIOUS
    <3>1. player[d.by].match = player[q].match
      BY <2>3, SameMatch
    <3> QED BY <2>1, <2>3, <2>4, <3>1
  <2>8. \A e \in mail' : (e.t = "SF4R" /\ player'[e.for].st # "lobby")
                          => active'.key = KeyOf[e.match]
    <3>1. ASSUME NEW e \in mail, e.t = "SF4R", player[e.for].st # "lobby"
          PROVE  active'.key = KeyOf[e.match]
      <4>1. e.for \in Slot /\ e.match = player[e.for].match /\ active.key = KeyOf[e.match]
            /\ regd[KeyOf[e.match]] = Slot
        BY <3>1 DEF TypeOK, AirInv, StartInv, PairInv
      <4> QED BY <2>7, <3>1, <4>1
    <3>2. sent'.t = "SF4R" => active'.key = KeyOf[d.match]
      BY <2>1, <2>2, <2>4
    <3> QED BY <2>1, <3>1, <3>2, PostedMail
  <2>9. \A q \in Slot : player'[q].st = "started" => active'.key = KeyOf[player'[q].match]
    BY <2>1, <2>7 DEF PairInv, StartInv
  <2> QED BY <2>1, <2>6, <2>8, <2>9 DEF PairInv
<1>5. ASSUME NEW d \in net, RelayForward(d)
      PROVE  PairInv'
  <2>1. player' = player /\ UNCHANGED <<active, pending, regd>> /\ sent'.t # "SF4R"
        /\ Posted(d, Peer(d.by))
    BY <1>5 DEF RelayForward, Forward, Nothing
  <2> QED BY <2>1, PostedMail DEF PairInv
<1>6. CASE UNCHANGED <<active, pending, regd, player, mail>>
  BY <1>6 DEF PairInv
<1>7. ASSUME NEW p \in Slot, Probe(p) \/ SendData(p) \/ ProbeHealth(p)
      PROVE  PairInv'
  BY <1>6, <1>7 DEF Probe, SendData, ProbeHealth, Quiet, Health, matchVars
<1>8. CASE OldTraffic \/ RelayIdle
  BY <1>6, <1>8 DEF OldTraffic, RelayIdle, RegisterLegacy, Forward, IdleExit, matchVars
<1>9. CASE UNCHANGED vars
  BY <1>6, <1>9 DEF vars, relayVars, matchVars
<1> QED BY <1>1, <1>2, <1>3, <1>4, <1>5, <1>7, <1>8, <1>9 DEF Next

(* Data reaches only the peer of who sent it, in the match it was sent in.  *)
LEMMA DataStep ==
    ASSUME DistinctAddrs
    PROVE  TypeOK /\ AirInv /\ DataInv /\ TypeOK' /\ AirInv' /\ [Next]_vars => DataInv'
<1> SUFFICES ASSUME TypeOK, AirInv, DataInv, TypeOK', AirInv', [Next]_vars PROVE DataInv'
  OBVIOUS
<1> USE MatchAssumption
<1>a. \A q \in Slot : Peer(q) \in Slot
  BY DEF Peer, Slot
<1>b. \A d \in mail : d.by \in Slot /\ d.for \in Slot
  BY DEF TypeOK
<1>1. ASSUME NEW p \in Slot, PrepareForBattle(p)
      PROVE  DataInv'
  <2>1. /\ UNCHANGED <<active, pending, slots>> /\ mail' \subseteq mail /\ slots = NoSlots
        /\ \A d \in mail' : d.by # p
    BY <1>1 DEF PrepareForBattle, Quiet, OldRoom
  <2>2. \A q \in Slot : q # p => player'[q] = player[q]
    BY <1>1 DEF PrepareForBattle, TypeOK
  <2> QED BY <1>b, <2>1, <2>2 DEF DataInv
<1>2. ASSUME NEW p \in Slot, \/ TimeOut(p) \/ EndMatch(p)
                             \/ \E d \in mail : ReceiveAnswer(p, d)
      PROVE  DataInv'
  <2>1. UNCHANGED <<active, pending, slots>> /\ mail' \subseteq mail
    BY <1>2 DEF TimeOut, EndMatch, ReceiveAnswer, Quiet
  <2>2. \/ player' = player
        \/ \E st \in {"lobby", "started"} : player' = [player EXCEPT ![p].st = st]
    BY <1>2 DEF TimeOut, EndMatch, ReceiveAnswer
  <2>3. \A q \in Slot : player'[q].match = player[q].match
    BY <2>2 DEF TypeOK
  <2> QED BY <1>b, <2>1, <2>3 DEF DataInv, NewRoom
<1>3. ASSUME NEW d \in net, RelayRegister(d)
      PROVE  DataInv'
  <2> DEFINE k == KeyOf[d.match]
             new == WithSlot(TargetGeneration(k), d.by, d.from)
  <2>1. /\ player' = player /\ slots' = slots
        /\ active' \in {active, new} /\ pending' \in {pending, NoGeneration, new}
        /\ Posted(d, d.by) /\ sent'.t # "data"
    BY <1>3 DEF RelayRegister, RegisterV3, Answer
  <2>2. d.by \in Slot /\ d.from \in AddrsOf[d.by]
    <3>1. d.by \in Slot /\ d.match \in 1..MaxMatch /\ d.match = player[d.by].match
          /\ d.from = player[d.by].addr
      BY DEF TypeOK, AirInv
    <3> QED BY <3>1 DEF AirInv
  <2>3. \A s \in Slot : new.slots[s] \in AddrsOf[s] \cup {NoAddr}
    <3>1. \A s \in Slot : TargetGeneration(k).slots[s] \in AddrsOf[s] \cup {NoAddr}
      BY DEF TargetGeneration, DataInv, NoSlots
    <3>2. TargetGeneration(k).slots \in [Slot -> Addrs \cup {NoAddr}]
      BY DEF TargetGeneration, NoSlots, TypeOK, RelayTypeOK, Generation
    <3>3. TargetGeneration(k) = [key |-> TargetGeneration(k).key,
                                 slots |-> TargetGeneration(k).slots]
      BY DEF TargetGeneration, TypeOK, RelayTypeOK, Generation
    <3> QED BY <2>2, <3>1, <3>2, <3>3 DEF WithSlot
  <2>4. \A s \in Slot : NoGeneration.slots[s] \in AddrsOf[s] \cup {NoAddr}
    BY DEF NoGeneration, NoSlots
  <2> HIDE DEF new
  <2> QED BY <2>1, <2>3, <2>4, PostedMail DEF DataInv, NewRoom
<1>4. ASSUME NEW d \in net, RelayForward(d)
      PROVE  DataInv'
  <2>1. /\ player' = player /\ UNCHANGED <<active, pending>>
        /\ Forward(d.from) /\ Posted(d, Peer(d.by))
    BY <1>4 DEF RelayForward, Forward
  <2>2. d.by \in Slot /\ d.from \in Addrs /\ d.from \in AddrsOf[d.by] /\ NewRoom
        /\ d.match = player[d.by].match
    <3>1. d.by \in Slot /\ d.match \in 1..MaxMatch /\ d.match = player[d.by].match
          /\ d.from = player[d.by].addr
      BY DEF TypeOK, AirInv
    <3> QED BY <3>1 DEF AirInv, NewRoom
  <2>3. V3Active
    <3> SUFFICES ASSUME ~V3Active PROVE FALSE
      OBVIOUS
    <3>1. PICK s \in SourceSlot(slots, d.from) : TRUE
      BY <2>1 DEF Forward
    <3>2. SlotsByEndpoint(slots, d.from) = {} /\ SlotsByIp(slots, d.from) = {}
      BY <2>2, RelayAssumption DEF DataInv, NoSlots, SlotsByEndpoint, SlotsByIp
    <3> QED BY <3>1, <3>2 DEF SourceSlot, IsUnique
  <2>4. slots' = slots
    BY <2>1, <2>3 DEF Forward
  <2>5. PICK s \in SourceSlot(active.slots, d.from) :
          sent' = IF active.slots[DestinationSlot(s)] = NoAddr THEN Nothing
                  ELSE [t |-> "data", to |-> active.slots[DestinationSlot(s)],
                        from |-> d.from, key |-> active.key]
    BY <2>1, <2>3 DEF Forward
  <2>6. s \in Slot /\ active.slots[s] = d.from
    BY <2>3, <2>5 DEF SourceSlot, SlotsByEndpoint, First, Slot
  <2>7. s = d.by
    BY <2>2, <2>6, RelayAssumption DEF DataInv, DistinctAddrs, Slot
  <2>8. sent'.to # NoAddr => sent'.to \in AddrsOf[Peer(d.by)]
    BY <1>a, <2>2, <2>5, <2>7 DEF DataInv, DestinationSlot, Nothing
  <2> QED BY <2>1, <2>2, <2>4, <2>8, PostedMail DEF DataInv, NewRoom
<1>5. CASE UNCHANGED <<active, pending, slots, player, mail>>
  BY <1>5 DEF DataInv, NewRoom
<1>6. ASSUME NEW p \in Slot, Probe(p) \/ SendData(p) \/ ProbeHealth(p)
      PROVE  DataInv'
  BY <1>5, <1>6 DEF Probe, SendData, ProbeHealth, Quiet, Health, matchVars
<1>7. CASE OldTraffic
  <2>1. ~NewRoom /\ UNCHANGED <<active, pending, player, mail>>
    BY <1>7 DEF OldTraffic, RegisterLegacy, Forward, matchVars
  <2> QED BY <2>1 DEF DataInv, NewRoom
<1>8. CASE RelayIdle \/ UNCHANGED vars
  BY <1>5, <1>8 DEF RelayIdle, IdleExit, vars, relayVars, matchVars
<1> QED BY <1>1, <1>2, <1>3, <1>4, <1>6, <1>7, <1>8 DEF Next

-----------------------------------------------------------------------------
(* Types and datagrams hold along every behaviour of the room.              *)
LEMMA AirCorrect == Spec => [](TypeOK /\ AirInv)
<1>1. Init => TypeOK /\ AirInv
  BY MatchAssumption DEF Init, RelayInit, TypeOK, AirInv, RelayTypeOK, NoGeneration, NoSlots,
     Nothing, Generation, Slot
<1> QED BY <1>1, AirStep, PTL DEF Spec

(* Players, relay and network keep their types in every match of a room.    *)
THEOREM MatchTypeCorrect == Spec => []TypeOK
BY AirCorrect, PTL

(* The relay that RelayMatch puts between the players is UdpRelay's: what   *)
(* is proved of ggpo_udp_relay for arbitrary datagrams holds in every room. *)
THEOREM MatchImplementsRelay == Spec => RelaySpec
<1>1. Init => RelayInit
  BY DEF Init
<1> QED BY <1>1, AirCorrect, RelayStep, PTL DEF Spec, RelaySpec

(* Nobody starts GGPO alone, in any match, provided that no two matches of  *)
(* the room share a key (RegisterWithUdpRelay, SF4R).                       *)
THEOREM NobodyStartsAlone ==
    ASSUME DistinctKeys, DistinctAddrs
    PROVE  Spec => []StartedTogether
<1>1. Init => StartInv
  BY DEF Init, RelayInit, StartInv
<1>2. TypeOK /\ AirInv /\ StartInv => StartedTogether
  <2> SUFFICES ASSUME TypeOK, AirInv, StartInv, NEW p \in Slot, player[p].st = "started"
               PROVE  player[Peer(p)].match >= player[p].match
    BY DEF StartedTogether
  <2>1. player[p].match \in 1..MaxMatch /\ Peer(p) \in Slot
    BY DEF TypeOK, AirInv, Peer, Slot
  <2>2. KeyOf[player[p].match] \in Keys /\ Peer(p) \in regd[KeyOf[player[p].match]]
    BY <2>1, MatchAssumption DEF StartInv
  <2>3. PICK m \in 1..MaxMatch : /\ KeyOf[m] = KeyOf[player[p].match]
                                 /\ player[Peer(p)].match >= m
    BY <2>2 DEF StartInv
  <2> QED BY <2>1, <2>3, DistinctKeys DEF DistinctKeys
<1>3. Spec => []RegisteredMeansBoth
  BY MatchImplementsRelay, RelayComplete, PTL
<1> QED BY <1>1, <1>2, <1>3, AirCorrect, StartStep, PTL DEF Spec

(* Registrations, the active pair and the players of a room, in every match.*)
LEMMA RoomCorrect ==
    ASSUME DistinctKeys, DistinctAddrs
    PROVE  Spec => [](StartInv /\ PairInv /\ DataInv /\ ActiveComplete)
<1>1. Init => StartInv /\ PairInv /\ DataInv
  BY MatchAssumption, RelayAssumption
     DEF Init, RelayInit, StartInv, PairInv, DataInv, NoGeneration, NoSlots, NewRoom, Slot, Peer
<1>2. Spec => [](RegisteredMeansBoth /\ ActiveComplete)
  BY MatchImplementsRelay, RelayComplete, PTL
<1> QED BY <1>1, <1>2, AirCorrect, StartStep, PairStep, DataStep, PTL DEF Spec

(* While both players play, the relay forwards between the addresses they   *)
(* have in this match: whatever was late, lost or duplicated, and whichever *)
(* port a rematch moved a player to (ggpo_udp_relay's activeGeneration).    *)
THEOREM ForwardsForBoth ==
    ASSUME DistinctKeys, DistinctAddrs
    PROVE  Spec => []ForwardsThePlayers
<1>1. TypeOK /\ AirInv /\ PairInv /\ ActiveComplete => ForwardsThePlayers
  <2> SUFFICES ASSUME TypeOK, AirInv, PairInv, ActiveComplete,
                      \A q \in Slot : player[q].st = "started", NEW p \in Slot
               PROVE  active.slots[p] = player[p].addr
    BY DEF ForwardsThePlayers
  <2>1. player[p].match \in 1..MaxMatch
    BY DEF TypeOK, AirInv
  <2>2. active.key = KeyOf[player[p].match] /\ active.key # NoKey
    BY <2>1, MatchAssumption, RelayAssumption DEF PairInv
  <2>3. active.slots[p] # NoAddr
    BY <2>2 DEF ActiveComplete, BothSlotsActive
  <2> QED BY <2>1, <2>2, <2>3 DEF PairInv
<1> QED BY <1>1, AirCorrect, RoomCorrect, PTL

(* GGPO is handed nothing but what its peer sent in this very match: no     *)
(* datagram of an earlier match, of a third party or its own.               *)
THEOREM NoStrayData ==
    ASSUME DistinctKeys, DistinctAddrs
    PROVE  Spec => []OnlyPeerData
<1>1. TypeOK /\ AirInv /\ StartInv /\ PairInv /\ DataInv => OnlyPeerData
  <2> SUFFICES ASSUME TypeOK, AirInv, StartInv, PairInv, DataInv, NEW p \in Slot,
                      NEW d \in mail, d.t = "data", d.to = player[p].addr,
                      player[p].st = "started"
               PROVE  d.by = Peer(p) /\ d.match = player[p].match
    BY DEF OnlyPeerData
  <2>1. player[p].addr \in AddrsOf[p] /\ d.for \in Slot /\ d.by \in Slot
    BY DEF TypeOK, AirInv
  <2>2. d.for = Peer(d.by) /\ d.match = player[d.by].match /\ d.to \in AddrsOf[d.for]
    BY DEF DataInv
  <2>3. d.for = p
    BY <2>1, <2>2 DEF DistinctAddrs, Slot
  <2>4. d.by = Peer(p)
    BY <2>1, <2>2, <2>3 DEF Peer, Slot
  <2>5. player[d.by].match = player[p].match
    BY <2>1, SameMatch DEF StartInv
  <2> QED BY <2>2, <2>4, <2>5
<1> QED BY <1>1, AirCorrect, RoomCorrect, PTL
=============================================================================
