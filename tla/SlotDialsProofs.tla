-------------------------- MODULE SlotDialsProofs --------------------------
(***************************************************************************)
(* The fan-out dials, proved for every number of slots, set of peers and   *)
(* choice of dials.  A connection carries no owner, so both properties     *)
(* rest on who may touch it when: the clock pins a slot's drop to the      *)
(* instant the slot ends, and that is why only the slot before can take a  *)
(* connection from under a slot that dialed it.                            *)
(***************************************************************************)
EXTENDS SlotDials, TLAPS

\* The types of the variables.
TypeInv ==
  /\ now \in Nat
  /\ conn \subseteq Peers
  /\ setup \in [Slots -> BOOLEAN]
  /\ dialed \in [Slots -> SUBSET Peers] /\ left \in [Slots -> SUBSET Peers]
  /\ dialing \in [Slots -> {"idle", "picking", "dialing"}]
  /\ drop \in [Slots -> {"no", "closing", "done"}]
  /\ closing \in [Slots -> SUBSET Peers]
  /\ ended \in [Slots -> BOOLEAN] /\ voted \in [Slots -> BOOLEAN]
  /\ reached \in [Slots -> SUBSET Peers] /\ late \in BOOLEAN

\* Setup, the picking and the drop of a slot happen at the instant they are due.
ClockInv ==
  \A s \in Slots :
    /\ IF setup[s] THEN now >= Start(s) ELSE now <= Start(s)
    /\ dialing[s] = "idle" <=> ~setup[s]
    /\ dialing[s] = "picking" => now = Start(s)
    /\ drop[s] # "no" => now >= End(s)
    /\ drop[s] # "done" => now <= End(s)
    /\ ended[s] => drop[s] = "done"

\* What is recorded, left to dial and left to close are the slot's own picks.
PicksInv ==
  \A s \in Slots :
    /\ dialed[s] = IF dialing[s] = "dialing" THEN Dials[s] ELSE {}
    /\ left[s] \subseteq dialed[s] /\ closing[s] \subseteq dialed[s]
    /\ closing[s] # {} => drop[s] = "closing"

\* Slot s has dialed p and has still to close it.
Owns(s, p) ==
  dialing[s] = "dialing" /\ p \in Dials[s] /\ (drop[s] = "no" \/ p \in closing[s])

\* While the handshakes are prompt, every connection has an owner.
OwnedInv == ~late => \A p \in conn : \E s \in Slots : Owns(s, p)

\* While the handshakes are prompt, a slot that is over has voted if its dials
\* are through, and one that is not keeps the peers it has dialed, except those
\* of the slot before.
ReachInv ==
  ~late => \A s \in Slots :
    /\ dialReady(s) /\ now >= End(s) => voted[s]
    /\ now < End(s) =>
         \A p \in dialed[s] \ left[s] : p \in conn \/ (s > 0 /\ p \in Dials[s - 1])

IInv == TypeInv /\ ClockInv /\ PicksInv /\ OwnedInv /\ ReachInv /\ FanoutLandsApart

----------------------------------------------------------------------------
\* Nothing is set up, dialed or connected at first.
LEMMA InitIInv == Init => IInv
<1> SUFFICES ASSUME Init PROVE IInv
  OBVIOUS
<1> USE DialsAssumption DEF Init, Slots
<1>1. TypeInv
  BY DEF TypeInv
<1>2. ClockInv
  BY DEF ClockInv, Start, End
<1>3. PicksInv /\ OwnedInv
  BY DEF PicksInv, OwnedInv
<1>4. ReachInv /\ FanoutLandsApart
  BY DEF ReachInv, FanoutLandsApart, dialReady
<1> QED BY <1>1, <1>2, <1>3, <1>4 DEF IInv

\* Every step keeps the types.
LEMMA NextType == TypeInv /\ [Next]_vars => TypeInv'
<1> SUFFICES ASSUME TypeInv, [Next]_vars PROVE TypeInv'
  OBVIOUS
<1> USE DialsAssumption DEF TypeInv
<1>1. ASSUME NEW s \in Slots, setupSlot(s) \/ dialDuties(s) \/ dropDials(s)
      PROVE  TypeInv'
  <2>1. CASE setupSlot(s)
    BY <2>1 DEF setupSlot
  <2>2. CASE dialDuties(s)
    BY <2>2 DEF dialDuties
  <2>3. CASE dropDials(s)
    BY <2>3 DEF dropDials
  <2> QED BY <1>1, <2>1, <2>2, <2>3
<1>2. ASSUME NEW s \in Slots, dropped(s) \/ endSlot(s) \/ emit(s)
      PROVE  TypeInv'
  BY <1>2, ZenonT(60) DEF dropped, endSlot, emit
<1>3. ASSUME NEW s \in Slots, NEW p \in Peers, disconnect(s, p)
      PROVE  TypeInv'
  BY <1>3 DEF disconnect
<1>4. ASSUME NEW s \in Slots, NEW p \in Peers, connect(s, p)
      PROVE  TypeInv'
  <2>1. late' \in BOOLEAN
    BY <1>4, Zenon DEF connect
  <2> QED BY <1>4, <2>1 DEF connect
<1>5. CASE Tick
  BY <1>5 DEF Tick
<1>6. CASE UNCHANGED vars
  BY <1>6 DEF vars
<1> QED BY <1>1, <1>2, <1>3, <1>4, <1>5, <1>6 DEF Next, Program, Handshake

\* Every step keeps the instants and the picks.
LEMMA NextClock ==
  TypeInv /\ ClockInv /\ PicksInv /\ [Next]_vars => ClockInv' /\ PicksInv'
<1> SUFFICES ASSUME TypeInv, ClockInv, PicksInv, [Next]_vars PROVE ClockInv' /\ PicksInv'
  OBVIOUS
<1> USE DialsAssumption DEF TypeInv, ClockInv, PicksInv, Start, End, Slots
<1>1. ASSUME NEW s \in Slots, setupSlot(s)
      PROVE  ClockInv' /\ PicksInv'
  BY <1>1 DEF setupSlot
<1>2. ASSUME NEW s \in Slots, dialDuties(s)
      PROVE  ClockInv' /\ PicksInv'
  BY <1>2 DEF dialDuties
<1>3. ASSUME NEW s \in Slots, dropDials(s)
      PROVE  ClockInv' /\ PicksInv'
  BY <1>3 DEF dropDials
<1>4. ASSUME NEW s \in Slots, dropped(s) \/ endSlot(s) \/ emit(s)
      PROVE  ClockInv' /\ PicksInv'
  <2>1. CASE dropped(s)
    BY <2>1 DEF dropped
  <2>2. CASE endSlot(s)
    BY <2>2 DEF endSlot
  <2>3. CASE emit(s)
    BY <2>3 DEF emit
  <2> QED BY <1>4, <2>1, <2>2, <2>3
<1>5. ASSUME NEW s \in Slots, NEW p \in Peers, disconnect(s, p)
      PROVE  ClockInv' /\ PicksInv'
  BY <1>5 DEF disconnect
<1>6. ASSUME NEW s \in Slots, NEW p \in Peers, connect(s, p)
      PROVE  ClockInv' /\ PicksInv'
  BY <1>6 DEF connect
<1>7. CASE Tick
  BY <1>7 DEF Tick, Quiet
<1>8. CASE UNCHANGED vars
  BY <1>8 DEF vars
<1> QED BY <1>1, <1>2, <1>3, <1>4, <1>5, <1>6, <1>7, <1>8 DEF Next, Program, Handshake

\* Every step keeps each connection owned.
LEMMA NextOwned == IInv /\ [Next]_vars => OwnedInv'
<1> SUFFICES ASSUME IInv, [Next]_vars, ~late', NEW q \in conn'
             PROVE  \E s \in Slots : Owns(s, q)'
  BY DEF OwnedInv
<1> USE DialsAssumption DEF IInv, TypeInv, OwnedInv, Owns
<1>1. ASSUME NEW s \in Slots, setupSlot(s) \/ dialDuties(s)
      PROVE  \E t \in Slots : Owns(t, q)'
  BY <1>1 DEF setupSlot, dialDuties, ClockInv
<1>2. ASSUME NEW s \in Slots, dropDials(s)
      PROVE  \E t \in Slots : Owns(t, q)'
  BY <1>2 DEF dropDials, PicksInv
<1>3. ASSUME NEW s \in Slots, dropped(s) \/ endSlot(s) \/ emit(s)
      PROVE  \E t \in Slots : Owns(t, q)'
  BY <1>3 DEF dropped, endSlot, emit
<1>4. ASSUME NEW s \in Slots, NEW p \in Peers, disconnect(s, p)
      PROVE  \E t \in Slots : Owns(t, q)'
  BY <1>4 DEF disconnect
<1>5. ASSUME NEW s \in Slots, NEW p \in Peers, connect(s, p)
      PROVE  \E t \in Slots : Owns(t, q)'
  <2>1. ~late /\ now < End(s)
    <3>1. ~late /\ ~(now >= End(s))
      BY <1>5, Zenon DEF connect
    <3> QED BY <3>1 DEF End, Slots
  <2>2. Owns(s, p)'
    BY <1>5, <2>1 DEF connect, ClockInv, PicksInv, End, Slots
  <2> QED BY <1>5, <2>1, <2>2 DEF connect
<1>6. CASE Tick
  BY <1>6 DEF Tick
<1>7. CASE UNCHANGED vars
  BY <1>7 DEF vars
<1> QED BY <1>1, <1>2, <1>3, <1>4, <1>5, <1>6, <1>7 DEF Next, Program, Handshake

\* Every step keeps the slots' reach.
LEMMA NextReach == IInv /\ [Next]_vars => ReachInv'
<1> SUFFICES ASSUME IInv, [Next]_vars PROVE ReachInv'
  OBVIOUS
<1> USE DialsAssumption DEF IInv, TypeInv, ReachInv, dialReady, Start, End, Slots
<1>1. ASSUME NEW s \in Slots, setupSlot(s)
      PROVE  ReachInv'
  BY <1>1 DEF setupSlot, ClockInv
<1>2. ASSUME NEW s \in Slots, dialDuties(s)
      PROVE  ReachInv'
  BY <1>2 DEF dialDuties, ClockInv
<1>3. ASSUME NEW s \in Slots, dropDials(s) \/ dropped(s) \/ endSlot(s) \/ emit(s)
      PROVE  ReachInv'
  BY <1>3 DEF dropDials, dropped, endSlot, emit
<1>4. ASSUME NEW s \in Slots, NEW p \in Peers, disconnect(s, p)
      PROVE  ReachInv'
  <2>1. now = End(s) /\ p \in Dials[s]
    BY <1>4 DEF disconnect, ClockInv, PicksInv
  <2>2. ASSUME NEW t \in Slots, p \in dialed[t], now < End(t)
        PROVE  t > 0 /\ p \in Dials[t - 1]
    <3>1. now >= Start(t)
      BY <2>2 DEF ClockInv, PicksInv
    <3>2. s = t - 1
      BY <2>1, <2>2, <3>1
    <3> QED BY <2>1, <3>2
  <2> QED BY <1>4, <2>2 DEF disconnect
<1>5. ASSUME NEW s \in Slots, NEW p \in Peers, connect(s, p)
      PROVE  ReachInv'
  BY <1>5 DEF connect
<1>6. CASE Tick
  BY <1>6 DEF Tick, Quiet, EmitReady, Due, ClockInv
<1>7. CASE UNCHANGED vars
  BY <1>7 DEF vars
<1> QED BY <1>1, <1>2, <1>3, <1>4, <1>5, <1>6, <1>7 DEF Next, Program, Handshake

\* Every step keeps what the published votes reached.
LEMMA NextFanout == IInv /\ [Next]_vars => FanoutLandsApart'
<1> SUFFICES ASSUME IInv, [Next]_vars PROVE FanoutLandsApart'
  OBVIOUS
<1> USE DEF IInv, FanoutLandsApart
<1>1. ASSUME NEW s \in Slots, emit(s)
      PROVE  FanoutLandsApart'
  <2>1. ASSUME ~late, NEW p \in Dials[s], p \notin conn
        PROVE  s > 0 /\ p \in Dials[s - 1]
    <3>1. now < End(s)
      BY <1>1, <2>1 DEF emit, EmitReady, ReachInv, TypeInv, End, Slots
    <3>2. p \in dialed[s] \ left[s]
      BY <1>1 DEF emit, EmitReady, dialReady, PicksInv
    <3> QED BY <2>1, <3>1, <3>2 DEF ReachInv
  <2> QED BY <1>1, <2>1 DEF emit, TypeInv
<1>2. ASSUME NEW s \in Slots, NEW p \in Peers, connect(s, p)
      PROVE  FanoutLandsApart'
  BY <1>2 DEF connect
<1>3. CASE UNCHANGED <<voted, reached, late>>
  BY <1>3
<1>4. CASE \/ \E s \in Slots :
                \/ setupSlot(s) \/ dialDuties(s) \/ dropDials(s) \/ dropped(s) \/ endSlot(s)
                \/ \E p \in Peers : disconnect(s, p)
           \/ Tick \/ UNCHANGED vars
  BY <1>3, <1>4, Zenon
     DEF setupSlot, dialDuties, dropDials, dropped, endSlot, disconnect, Tick, vars
<1> QED BY <1>1, <1>2, <1>4, Zenon DEF Next, Program, Handshake

\* The invariant holds throughout.
LEMMA AlwaysIInv == Spec => []IInv
<1>1. IInv /\ [Next]_vars => IInv'
  BY NextType, NextClock, NextOwned, NextReach, NextFanout DEF IInv
<1> QED BY InitIInv, <1>1, PTL DEF Spec, Safety

----------------------------------------------------------------------------
\* As long as Dial returns before its slot ends, dropDials closes every
\* connection that dialDuties opened, in a run of any length.
THEOREM PromptDialsDoNotLeak == Spec => []NoLeakWhenPrompt
<1>1. IInv => NoLeakWhenPrompt
  BY DEF IInv, TypeInv, ClockInv, PicksInv, OwnedInv, Owns, NoLeakWhenPrompt
<1> QED BY AlwaysIInv, <1>1, PTL

\* As long as Dial returns before its slot ends, emit publishes to every peer it
\* dialed, except for peers that the drop of the slot before may close.
THEOREM VotesReachTheirDials == Spec => []FanoutLandsApart
<1>1. IInv => FanoutLandsApart
  BY DEF IInv
<1> QED BY AlwaysIInv, <1>1, PTL
============================================================================
