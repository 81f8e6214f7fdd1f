------------------------ MODULE FinalityRoundsProofs ------------------------
(***************************************************************************)
(* The finality rounds, proved for every set of chains, number of rounds   *)
(* and round size.  Rounds share topics and peers, and a drop works from a *)
(* snapshot of the others' records; what it spares is right because a      *)
(* record lives from the pre-join to the end of the round, and a round is  *)
(* dropped only after it has started.                                      *)
(***************************************************************************)
EXTENDS FinalityRounds, TLAPS

TimerNames == {"vote", "agg", "drop", "seal"}

\* The types of the variables.
TypeInv ==
  /\ chain \in Chains /\ now \in Nat
  /\ finals \subseteq Rounds /\ conn \subseteq Peers /\ subs \subseteq Topics
  /\ prejoin \in [Rounds -> {"no", "spawned", "registered", "dialing", "done"}]
  /\ left \in [Rounds -> SUBSET Peers]
  /\ setup \in [Slots -> {"no", "arming", "done"}]
  /\ reap \in [Slots -> {"no", "dropping", "done"}]
  /\ armed \in [Rounds -> SUBSET TimerNames] /\ fired \in [Rounds -> SUBSET TimerNames]
  /\ drop \in [Rounds -> {"no", "dropping", "done"}]
  /\ toUnsub \in [Rounds -> SUBSET Topics] /\ toClose \in [Rounds -> SUBSET Peers]
  /\ late \in BOOLEAN /\ raced \in BOOLEAN

\* Without a race, a drop has nothing of another live round to release.
SparedInv ==
  ~raced => \A m \in Rounds, n \in finals :
    m # n /\ drop[m] = "dropping" =>
      toUnsub[m] \cap Subscribed[n] = {} /\ toClose[m] \cap Dialed[n] = {}

\* Without a race, a live round keeps what its pre-join has got it.
KeptInv ==
  ~raced => \A n \in finals :
    drop[n] = "no" => /\ prejoin[n] = "dialing" => Dialed[n] \ left[n] \subseteq conn
                      /\ prejoin[n] = "done" => Up(n)

\* A pre-join is spawned once: from round0Warmup, or from the slot before its round.
OnceInv ==
  \A s \in Slots :
    /\ PreJoins(s) /\ RoundOf(s) + 1 \in Rounds
    /\ IF Segregated THEN setup[s] # "done" ELSE setup[s] = "no"
    => prejoin[RoundOf(s) + 1] = "no"

\* How far a round is, by its pre-join.
StageInv ==
  \A n \in Rounds :
    /\ prejoin[n] \in {"no", "spawned"} => n \notin finals /\ armed[n] = {} /\ fired[n] = {}
    /\ prejoin[n] # "dialing" => left[n] = {}
    /\ left[n] \subseteq Dialed[n]
    /\ n = 0 /\ prejoin[n] = "no" => now = 0
    /\ n = 0 /\ prejoin[n] # "done" => armed[n] = {} /\ fired[n] = {}
    /\ "drop" \in armed[n] => chain.hasAggs
    /\ toUnsub[n] \subseteq Subscribed[n] /\ toClose[n] \subseteq Dialed[n]

\* A slot is set up and reaped at its instants; only slot 0 waits, and only for
\* a warm-up that is late.
SlotInv ==
  \A s \in Slots :
    /\ IF setup[s] = "no" THEN now <= Start(s) ELSE now >= Start(s)
    /\ setup[s] = "arming" => Boundary(s) /\ (now = Start(s) \/ (s = 0 /\ late))
    /\ reap[s] # "no" => setup[s] = "done" /\ now >= Start(s + 1)
    /\ reap[s] = "dropping" => PreJoins(s)
    /\ ~late /\ reap[s] # "done" => now <= Start(s + 1)

\* A round that was armed before its topics were joined is armed at its start.
VoteInv ==
  \A n \in Rounds :
    "vote" \in armed[n] /\ prejoin[n] = "registered" => now <= RoundStart(n)

\* A round is dropped after it has started.
DropInv == \A n \in Rounds : drop[n] # "no" => now > RoundStart(n)

\* While no pre-join was late: it is through when its round has started, and a
\* record and a drop timer do not outlive the round.
PromptInv ==
  ~late =>
    /\ \A n \in Rounds :
         /\ now > RoundStart(n) => prejoin[n] \in {"no", "done"}
         /\ n \in finals => now <= RoundStart(n + 1)
         /\ "drop" \in armed[n] => now <= DueAt(n, "drop")
    /\ \A s \in Slots : reap[s] # "no" /\ PreJoins(s) => RoundOf(s) \notin finals

\* Round n has still to release what it lists.
OwnsTopic(n, t) ==
  /\ prejoin[n] # "no" /\ t \in Subscribed[n]
  /\ drop[n] = "no" \/ (drop[n] = "dropping" /\ t \in toUnsub[n])
OwnsPeer(n, p) ==
  /\ prejoin[n] # "no" /\ p \in Dialed[n]
  /\ drop[n] = "no" \/ (drop[n] = "dropping" /\ p \in toClose[n])

\* While no pre-join was late, all foreign network state has an owner.
OwnedInv ==
  ~late => /\ \A t \in subs : \E n \in Rounds : OwnsTopic(n, t)
           /\ \A p \in conn : \E n \in Rounds : OwnsPeer(n, p)

-----------------------------------------------------------------------------
(* The calendar: how slots and rounds lie on the clock.                    *)

\* What the assumption says of the node's chain.
LEMMA ChainFacts ==
  ASSUME chain \in Chains
  PROVE  /\ K \in Nat \ {0} /\ NumRounds \in Nat \ {0}
         /\ SlotDur \in Nat /\ SlotDur > 0 /\ RoundSize \in Nat /\ RoundSize > 0
         /\ Segregated \in BOOLEAN /\ chain.hasAggs \in BOOLEAN
         /\ chain.voteOffset \in Nat /\ chain.aggOffset \in Nat /\ chain.sealOffset \in Nat
         /\ chain.aggOffset < RoundSize * SlotDur
         /\ chain.hasAggs => chain.aggOffset > 0
         /\ Dialed \in [Rounds -> SUBSET Peers] /\ Subscribed \in [Rounds -> SUBSET Topics]
<1>1. chain \in ChainType
  BY FinalityAssumption
<1>2. /\ chain.aggOffset < (IF chain.segregated THEN 1 ELSE K) * chain.slotDur
      /\ chain.hasAggs => chain.aggOffset > 0
  BY FinalityAssumption
<1> QED
  BY <1>1, <1>2, FinalityAssumption
  DEF ChainType, SlotDur, RoundSize, Segregated, Dialed, Subscribed

\* Division with remainder.
LEMMA Division ==
  ASSUME NEW x \in Nat, NEW d \in Nat, d > 0
  PROVE  x = (x \div d) * d + (x % d) /\ x % d \in 0..(d - 1) /\ x \div d \in Nat
OBVIOUS

\* Products with a positive number are ordered as their factors.
LEMMA ProductOrder ==
  ASSUME NEW a \in Nat, NEW b \in Nat, NEW d \in Nat, d > 0
  PROVE  /\ a * d \in Nat /\ (a + 1) * d = a * d + d
         /\ a < b => (a + 1) * d <= b * d
         /\ a * d = b * d => a = b
<1>1. a * d \in Nat /\ b * d \in Nat /\ (a + 1) * d = a * d + d /\ (b + 1) * d = b * d + d
  OBVIOUS
<1>2. a < b => (a + 1) * d <= b * d
  OBVIOUS
<1>3. b < a => (b + 1) * d <= a * d
  OBVIOUS
<1> QED BY <1>1, <1>2, <1>3

\* A multiple of d is reached by the quotient of its predecessor, plus one.
LEMMA NextMultiple ==
  ASSUME NEW s \in Nat, NEW d \in Nat, d > 0, (s + 1) % d = 0
  PROVE  s + 1 = ((s \div d) + 1) * d
<1> DEFINE q == s \div d
           u == (s + 1) \div d
<1>1. q \in Nat /\ \E r \in 0..(d - 1) : s = q * d + r
  BY Division
<1>2. u \in Nat /\ s + 1 = u * d
  <2>1. s + 1 \in Nat
    OBVIOUS
  <2>2. u \in Nat /\ s + 1 = u * d + ((s + 1) % d)
    BY <2>1, Division, Zenon
  <2>3. u * d \in Nat
    BY <2>2, ProductOrder
  <2> QED BY <2>2, <2>3
<1> HIDE DEF q, u
<1>3. q * d \in Nat /\ (q + 1) * d = q * d + d /\ (u + 1) * d = u * d + d
  BY <1>1, <1>2, ProductOrder
<1>4. ~(u < q + 1)
  <2>1. ASSUME u < q + 1 PROVE (u + 1) * d <= (q + 1) * d
    BY <1>1, <1>2, <2>1, ProductOrder
  <2> QED BY <1>1, <1>2, <1>3, <2>1
<1>5. ~(q + 1 < u)
  <2>1. ASSUME q + 1 < u PROVE (q + 2) * d <= u * d
    BY <1>1, <1>2, <2>1, ProductOrder
  <2>2. (q + 2) * d = q * d + d + d
    BY <1>1
  <2> QED BY <1>1, <1>2, <1>3, <2>1, <2>2
<1> QED BY <1>1, <1>2, <1>4, <1>5 DEF q

\* A slot lies in a round; a boundary slot starts with it, and a pre-joining one
\* ends with it.
LEMMA SlotInRound ==
  ASSUME chain \in Chains, NEW s \in Slots
  PROVE  /\ s \in Nat /\ RoundOf(s) \in Rounds /\ RoundOf(s) \in Nat
         /\ Start(s) \in Nat /\ Start(s + 1) \in Nat /\ Start(s) < Start(s + 1)
         /\ Boundary(s) => Start(s) = RoundStart(RoundOf(s)) /\ (RoundOf(s) = 0 => s = 0)
         /\ s = 0 => Start(s) = 0 /\ RoundOf(s) = 0
         /\ PreJoins(s) => /\ s + 1 = (RoundOf(s) + 1) * RoundSize
                           /\ Start(s + 1) = RoundStart(RoundOf(s) + 1)
         /\ Segregated => PreJoins(s) /\ Boundary(s) /\ RoundOf(s) = s
<1> USE ChainFacts
<1>1. s \in Nat /\ s < NumRounds * RoundSize
  BY DEF Slots, NumSlots
<1>2. RoundOf(s) \in Nat /\ s >= RoundOf(s) * RoundSize
  BY <1>1 DEF RoundOf
<1>3. RoundOf(s) < NumRounds
  <2>1. ASSUME RoundOf(s) >= NumRounds PROVE FALSE
    <3>1. RoundOf(s) * RoundSize >= NumRounds * RoundSize
      BY <1>2, <2>1
    <3> QED BY <1>1, <1>2, <3>1
  <2> QED BY <1>2, <2>1
<1>4. Start(s) \in Nat /\ Start(s + 1) = Start(s) + SlotDur
  BY <1>1 DEF Start
<1>5. ASSUME Boundary(s) PROVE s = RoundOf(s) * RoundSize
  BY <1>1, <1>5 DEF Boundary, RoundOf
<1>6. ASSUME PreJoins(s) PROVE s + 1 = (RoundOf(s) + 1) * RoundSize
  BY <1>1, <1>6, NextMultiple, SMTT(30) DEF PreJoins, RoundOf
<1>7. ASSUME Segregated PROVE PreJoins(s) /\ Boundary(s) /\ RoundOf(s) = s
  BY <1>1, <1>7 DEF PreJoins, Boundary, RoundOf, RoundSize
<1>8. s = 0 => Start(s) = 0 /\ RoundOf(s) = 0
  BY <1>1 DEF Start, RoundOf
<1> QED BY <1>1, <1>2, <1>3, <1>4, <1>5, <1>6, <1>7, <1>8, SMTT(30) DEF Start, RoundStart, Rounds

\* A round has a last slot.
LEMMA LastSlot ==
  ASSUME chain \in Chains, NEW n \in Rounds
  PROVE  \E s \in Slots : PreJoins(s) /\ RoundOf(s) = n
<1> USE ChainFacts
<1> DEFINE s == (n + 1) * RoundSize - 1
<1>1. n \in Nat /\ n < NumRounds
  BY DEF Rounds
<1>2. s + 1 = (n + 1) * RoundSize /\ s \in Nat /\ s = n * RoundSize + (RoundSize - 1)
  BY <1>1
<1>3. s < NumSlots
  <2>1. (n + 1) * RoundSize <= NumRounds * RoundSize
    BY <1>1
  <2>2. NumRounds * RoundSize \in Nat
    OBVIOUS
  <2> QED BY <1>2, <2>1, <2>2 DEF NumSlots
<1>4. NumSlots \in Nat
  BY DEF NumSlots
<1>5. (s + 1) % RoundSize = 0
  BY <1>1, <1>2
<1> HIDE DEF s
<1>6. s + 1 = ((s \div RoundSize) + 1) * RoundSize /\ s \div RoundSize \in Nat
  BY <1>2, <1>5, NextMultiple
<1>7. s \div RoundSize = n
  <2> DEFINE q == s \div RoundSize
  <2>1. q \in Nat /\ (q + 1) * RoundSize = (n + 1) * RoundSize
    BY <1>2, <1>6
  <2> HIDE DEF q
  <2>2. q + 1 = n + 1
    BY <1>1, <2>1, ProductOrder
  <2>3. q = n
    BY <1>1, <2>1, <2>2
  <2> QED BY <2>3 DEF q
<1> QED BY <1>2, <1>3, <1>4, <1>5, <1>7 DEF PreJoins, RoundOf, Slots

\* Rounds follow each other, and a round's drop is due inside it.
LEMMA RoundOrder ==
  ASSUME chain \in Chains, NEW n \in Nat
  PROVE  /\ RoundStart(n) \in Nat /\ RoundStart(0) = 0
         /\ RoundStart(n) < RoundStart(n + 1)
         /\ DueAt(n, "drop") \in Nat /\ DueAt(n, "drop") < RoundStart(n + 1)
         /\ chain.hasAggs => DueAt(n, "drop") > RoundStart(n)
         /\ DueAt(n, "vote") = RoundStart(n) + chain.voteOffset
         /\ \A m \in Nat : m < n => RoundStart(m + 1) <= RoundStart(n)
<1> USE ChainFacts
<1> DEFINE d == RoundSize * SlotDur
<1>1. d \in Nat /\ d > 0 /\ chain.aggOffset < d
  OBVIOUS
<1>2. \A m \in Nat : RoundStart(m) = m * d
  BY DEF RoundStart
<1> HIDE DEF d
<1>3. \A m \in Nat : m < n => (m + 1) * d <= n * d
  BY <1>1, ProductOrder
<1>4. (n + 1) * d = n * d + d /\ n * d \in Nat /\ 0 * d = 0
  BY <1>1, ProductOrder
<1>5. DueAt(n, "drop") = n * d + chain.aggOffset /\ DueAt(n, "vote") = n * d + chain.voteOffset
  BY <1>2 DEF DueAt
<1>6. RoundStart(n + 1) = n * d + d /\ RoundStart(n) = n * d /\ RoundStart(0) = 0
  BY <1>2, <1>4
<1>7. \A m \in Nat : m < n => RoundStart(m + 1) <= RoundStart(n)
  BY <1>2, <1>3
<1> QED BY <1>1, <1>4, <1>5, <1>6, <1>7

-----------------------------------------------------------------------------
\* The chain never changes, nor does what is defined by it.
LEMMA ChainStays ==
  ASSUME [Next]_vars
  PROVE  /\ chain' = chain /\ Slots' = Slots /\ Dialed' = Dialed /\ Subscribed' = Subscribed
         /\ Segregated' = Segregated
         /\ \A s : /\ Start(s)' = Start(s) /\ RoundOf(s)' = RoundOf(s)
                   /\ Boundary(s)' = Boundary(s) /\ PreJoins(s)' = PreJoins(s)
         /\ \A n : RoundStart(n)' = RoundStart(n) /\ DueAt(n, "drop")' = DueAt(n, "drop")
<1>1. chain' = chain
  BY DEF Next, Program, Handshake, Tick, vars
<1> QED
  BY <1>1 DEF Slots, NumSlots, RoundSize, SlotDur, Dialed, Subscribed, Segregated, Start, RoundOf,
     Boundary, PreJoins, RoundStart, DueAt

\* Every step, one disjunct an action.
LEMMA Steps ==
  ASSUME [Next]_vars
  PROVE  \/ round0Warmup
         \/ \E n \in Rounds :
              \/ register(n) \/ join(n) \/ subscribe(n) \/ dropTimer(n) \/ release(n)
              \/ \E timer \in {"vote", "agg", "seal"} : fire(n, timer)
              \/ \E p \in Peers : connect(n, p)
         \/ \E s \in Slots :
              setupSlot(s) \/ armFinality(s) \/ reapFinality(s) \/ reapDrop(s) \/ reaped(s)
         \/ Tick \/ UNCHANGED vars
BY Zenon DEF Next, Program, Handshake

\* The types hold at first.
LEMMA InitType == Init => TypeInv
<1> SUFFICES ASSUME Init PROVE TypeInv
  OBVIOUS
<1>1. late \in BOOLEAN /\ raced \in BOOLEAN
  BY Zenon DEF Init
<1> QED BY <1>1 DEF Init, TypeInv

\* Every step keeps the types.
LEMMA NextType == TypeInv /\ [Next]_vars => TypeInv'
<1> SUFFICES ASSUME TypeInv, [Next]_vars PROVE TypeInv'
  OBVIOUS
<1>0. /\ chain' = chain /\ Slots' = Slots
      /\ Dialed \in [Rounds -> SUBSET Peers] /\ Subscribed \in [Rounds -> SUBSET Topics]
      /\ \A s \in Slots : RoundOf(s) \in Rounds
  BY ChainStays, ChainFacts, SlotInRound DEF TypeInv
<1>00. NumRounds \in Nat \ {0} /\ 0 \in Rounds
  BY FinalityAssumption DEF Rounds
<1> USE <1>0 DEF TypeInv, net, timers, dropping, history
<1>1. CASE round0Warmup
  BY <1>1, <1>00 DEF round0Warmup
<1>2. ASSUME NEW n \in Rounds, register(n)
      PROVE  TypeInv'
  <2>1. raced' \in BOOLEAN
    BY <1>2, Zenon DEF register
  <2> QED BY <1>2, <2>1 DEF register
<1>3. ASSUME NEW n \in Rounds, join(n)
      PROVE  TypeInv'
  BY <1>3 DEF join
<1>4. ASSUME NEW n \in Rounds, subscribe(n)
      PROVE  TypeInv'
  BY <1>4 DEF subscribe
<1>5. ASSUME NEW n \in Rounds, Snapshot(n)
      PROVE  /\ drop' \in [Rounds -> {"no", "dropping", "done"}]
             /\ toUnsub' \in [Rounds -> SUBSET Topics] /\ toClose' \in [Rounds -> SUBSET Peers]
  BY <1>5 DEF Snapshot
<1>6. ASSUME NEW n \in Rounds, dropTimer(n)
      PROVE  TypeInv'
  BY <1>5, <1>6 DEF dropTimer
<1>7. ASSUME NEW n \in Rounds, release(n)
      PROVE  TypeInv'
  BY <1>7 DEF release
<1>8. ASSUME NEW n \in Rounds, NEW timer \in {"vote", "agg", "seal"}, fire(n, timer)
      PROVE  TypeInv'
  BY <1>8 DEF fire, TimerNames
<1>9. ASSUME NEW n \in Rounds, NEW p \in Peers, connect(n, p)
      PROVE  TypeInv'
  BY <1>9 DEF connect
<1>10. ASSUME NEW s \in Slots, setupSlot(s)
       PROVE  TypeInv'
  BY <1>10 DEF setupSlot, Spawned
<1>11. ASSUME NEW s \in Slots, armFinality(s)
       PROVE  TypeInv'
  <2>1. Timers(RoundOf(s)) \subseteq TimerNames
    BY DEF Timers, TimerNames
  <2>2. prejoin' \in [Rounds -> {"no", "spawned", "registered", "dialing", "done"}]
    BY <1>11 DEF armFinality, Spawned
  <2>3. armed' \in [Rounds -> SUBSET TimerNames]
    BY <1>11, <2>1 DEF armFinality
  <2> QED BY <1>11, <2>2, <2>3 DEF armFinality
<1>12. ASSUME NEW s \in Slots, reapFinality(s)
       PROVE  TypeInv'
  <2>1. armed' \in [Rounds -> SUBSET TimerNames]
    BY <1>12 DEF reapFinality
  <2> QED BY <1>12, <2>1 DEF reapFinality
<1>13. ASSUME NEW s \in Slots, reapDrop(s)
       PROVE  TypeInv'
  BY <1>5, <1>13 DEF reapDrop
<1>14. ASSUME NEW s \in Slots, reaped(s)
       PROVE  TypeInv'
  BY <1>14 DEF reaped
<1>15. CASE Tick
  <2>1. late' \in BOOLEAN
    BY <1>15, Zenon DEF Tick
  <2> QED BY <1>15, <2>1 DEF Tick
<1>16. CASE UNCHANGED vars
  BY <1>16 DEF vars
<1> QED
  BY <1>1, <1>2, <1>3, <1>4, <1>6, <1>7, <1>8, <1>9, <1>10, <1>11, <1>12, <1>13, <1>14, <1>15,
     <1>16, Steps

-----------------------------------------------------------------------------
(* Sparing.                                                                *)

SInv == TypeInv /\ SparedInv /\ KeptInv

\* Nothing is shared at first.
LEMMA InitSInv == Init => SInv
BY InitType DEF Init, SInv, SparedInv, KeptInv

\* A snapshot leaves out what the other live rounds list.
LEMMA SnapshotSpares ==
  ASSUME TypeInv, SparedInv, NEW n \in Rounds, Snapshot(n), UNCHANGED <<chain, finals, raced>>
  PROVE  SparedInv'
<1>0. Dialed' = Dialed /\ Subscribed' = Subscribed
  BY DEF Dialed, Subscribed
<1>1. \A m \in finals \ {n} : /\ toUnsub'[n] \cap Subscribed[m] = {}
                              /\ toClose'[n] \cap Dialed[m] = {}
  BY DEF Snapshot, Spared, TypeInv
<1>2. \A m \in Rounds \ {n} :
        drop'[m] = drop[m] /\ toUnsub'[m] = toUnsub[m] /\ toClose'[m] = toClose[m]
  BY DEF Snapshot, TypeInv
<1> QED BY <1>0, <1>1, <1>2 DEF SparedInv

\* Every step spares the live rounds.
LEMMA NextSInv == SInv /\ [Next]_vars => SInv'
<1> SUFFICES ASSUME SInv, [Next]_vars PROVE SparedInv' /\ KeptInv'
  BY NextType DEF SInv
<1>0. chain' = chain /\ Dialed' = Dialed /\ Subscribed' = Subscribed
  BY ChainStays
<1> USE <1>0 DEF SInv, net, dropping, history
<1>1. CASE round0Warmup
  BY <1>1 DEF round0Warmup, SparedInv, KeptInv, Up, TypeInv
<1>2. ASSUME NEW n \in Rounds, register(n)
      PROVE  SparedInv' /\ KeptInv'
  <2>1. ~raced' => ~raced /\ \A m \in Rounds \ {n} : drop[m] # "dropping"
    BY <1>2, Zenon DEF register
  <2>2. SparedInv'
    BY <1>2, <2>1 DEF register, SparedInv, TypeInv
  <2>3. KeptInv'
    BY <1>2, <2>1 DEF register, KeptInv, Up, TypeInv
  <2> QED BY <2>2, <2>3
<1>3. ASSUME NEW n \in Rounds, join(n)
      PROVE  SparedInv' /\ KeptInv'
  BY <1>3 DEF join, SparedInv, KeptInv, Up, TypeInv
<1>4. ASSUME NEW n \in Rounds, subscribe(n)
      PROVE  SparedInv' /\ KeptInv'
  BY <1>4 DEF subscribe, SparedInv, KeptInv, Up, TypeInv
<1>5. ASSUME NEW n \in Rounds, Snapshot(n), UNCHANGED <<finals, raced, prejoin, left, conn, subs>>
      PROVE  SparedInv' /\ KeptInv'
  <2>1. SparedInv'
    BY <1>5, SnapshotSpares
  <2>2. \A m \in Rounds : drop'[m] = "no" => drop[m] = "no"
    BY <1>5 DEF Snapshot, TypeInv
  <2>3. KeptInv'
    BY <1>5, <2>2 DEF KeptInv, Up, TypeInv
  <2> QED BY <2>1, <2>3
<1>6. ASSUME NEW n \in Rounds, dropTimer(n)
      PROVE  SparedInv' /\ KeptInv'
  <2>1. CASE Snapshot(n)
    BY <1>5, <1>6, <2>1 DEF dropTimer
  <2>2. CASE UNCHANGED dropping
    BY <1>6, <2>2 DEF dropTimer, SparedInv, KeptInv, Up, TypeInv
  <2> QED BY <1>6, <2>1, <2>2 DEF dropTimer
<1>7. ASSUME NEW n \in Rounds, release(n)
      PROVE  SparedInv' /\ KeptInv'
  <2>1. SparedInv'
    BY <1>7 DEF release, SparedInv, TypeInv
  <2>2. ASSUME ~raced, NEW m \in finals, drop[m] = "no"
        PROVE  /\ Subscribed[m] \cap subs \subseteq subs'
               /\ Dialed[m] \cap conn \subseteq conn'
    <3>1. m # n /\ m \in Rounds
      BY <1>7, <2>2 DEF release, TypeInv
    <3>2. toUnsub[n] \cap Subscribed[m] = {} /\ toClose[n] \cap Dialed[m] = {}
      BY <1>7, <2>2, <3>1 DEF release, SparedInv
    <3> QED BY <1>7, <3>2 DEF release
  <2>3. \A m \in Rounds : drop'[m] = "no" => drop[m] = "no"
    BY <1>7 DEF release, TypeInv
  <2>4. UNCHANGED <<finals, prejoin, left, raced>>
    BY <1>7 DEF release
  <2>5. KeptInv'
    BY <2>2, <2>3, <2>4 DEF KeptInv, Up, TypeInv
  <2> QED BY <2>1, <2>5
<1>8. ASSUME NEW n \in Rounds, NEW timer \in {"vote", "agg", "seal"}, fire(n, timer)
      PROVE  SparedInv' /\ KeptInv'
  BY <1>8 DEF fire, SparedInv, KeptInv, Up
<1>9. ASSUME NEW n \in Rounds, NEW p \in Peers, connect(n, p)
      PROVE  SparedInv' /\ KeptInv'
  BY <1>9 DEF connect, SparedInv, KeptInv, Up, TypeInv
<1>10. ASSUME NEW s \in Slots, setupSlot(s)
       PROVE  SparedInv' /\ KeptInv'
  BY <1>10 DEF setupSlot, Spawned, SparedInv, KeptInv, Up, TypeInv
<1>11. ASSUME NEW s \in Slots, armFinality(s)
       PROVE  SparedInv' /\ KeptInv'
  BY <1>11 DEF armFinality, Spawned, SparedInv, KeptInv, Up, TypeInv
<1>12. ASSUME NEW s \in Slots, reapFinality(s)
       PROVE  SparedInv' /\ KeptInv'
  BY <1>12 DEF reapFinality, SparedInv, KeptInv, Up, TypeInv
<1>13. ASSUME NEW s \in Slots, reapDrop(s)
       PROVE  SparedInv' /\ KeptInv'
  <2>1. RoundOf(s) \in Rounds
    BY SlotInRound DEF TypeInv
  <2> QED BY <1>5, <1>13, <2>1 DEF reapDrop
<1>14. ASSUME NEW s \in Slots, reaped(s)
       PROVE  SparedInv' /\ KeptInv'
  BY <1>14 DEF reaped, SparedInv, KeptInv, Up
<1>15. CASE Tick
  BY <1>15 DEF Tick, SparedInv, KeptInv, Up
<1>16. CASE UNCHANGED vars
  BY <1>16 DEF vars, SparedInv, KeptInv, Up
<1> QED
  BY <1>1, <1>2, <1>3, <1>4, <1>6, <1>7, <1>8, <1>9, <1>10, <1>11, <1>12, <1>13, <1>14, <1>15,
     <1>16, Steps

\* dropFinality takes no topic and no peer from a round that is pre-joined and
\* not dropped, whatever the rounds share, unless a round registers between a
\* drop's snapshot and its end.
THEOREM LiveRoundsSpared == Spec => []SparesLiveRounds
<1>1. SInv => SparesLiveRounds
  BY DEF SInv, KeptInv, SparesLiveRounds, Warmed
<1> QED BY <1>1, InitSInv, NextSInv, PTL DEF Spec, Safety

-----------------------------------------------------------------------------
(* The stages of a round and the instants of a slot.                       *)

CInv == TypeInv /\ OnceInv /\ StageInv /\ SlotInv

\* Nothing has begun at first.
LEMMA InitCInv == Init => CInv
<1> SUFFICES ASSUME Init PROVE CInv
  OBVIOUS
<1>1. TypeInv
  BY InitType
<1>2. \A s \in Slots : Start(s) \in Nat /\ Start(s + 1) \in Nat
  BY <1>1, SlotInRound DEF TypeInv
<1>3. OnceInv /\ SlotInv
  BY <1>2 DEF Init, OnceInv, SlotInv
<1>4. StageInv
  BY <1>1 DEF Init, StageInv
<1> QED BY <1>1, <1>3, <1>4 DEF CInv

\* A slot spawns the pre-join of the next round, which nothing had spawned: what
\* that leaves of the other pre-joins.
LEMMA SpawnedOnce ==
  ASSUME CInv, NEW s \in Slots,
         \/ setupSlot(s) /\ ~Segregated /\ PreJoins(s)
         \/ armFinality(s) /\ Segregated
  PROVE  /\ PreJoins(s) /\ RoundOf(s) + 1 \in Nat /\ RoundOf(s) + 1 # 0
         /\ RoundOf(s) + 1 \in Rounds => prejoin[RoundOf(s) + 1] = "no"
         /\ \A n \in Rounds : prejoin'[n] = IF n = RoundOf(s) + 1 THEN "spawned" ELSE prejoin[n]
         /\ \A r \in Slots : PreJoins(r) /\ RoundOf(r) = RoundOf(s) => r = s
<1>0. chain \in Chains
  BY DEF CInv, TypeInv
<1>1. PreJoins(s) /\ RoundOf(s) \in Nat
  BY <1>0, SlotInRound
<1>2. RoundOf(s) + 1 \in Rounds => prejoin[RoundOf(s) + 1] = "no"
  BY <1>1 DEF CInv, OnceInv, setupSlot, armFinality
<1>3. prejoin' = Spawned(RoundOf(s) + 1)
  BY DEF setupSlot, armFinality
<1>4. \A r \in Slots : PreJoins(r) /\ RoundOf(r) = RoundOf(s) => r = s
  <2>1. ASSUME NEW r \in Slots, PreJoins(r), RoundOf(r) = RoundOf(s)
        PROVE  r = s
    <3>1. r \in Nat /\ s \in Nat /\ r + 1 = s + 1
      BY <1>0, <1>1, <2>1, SlotInRound
    <3> QED BY <3>1
  <2> QED BY <2>1
<1> QED BY <1>1, <1>2, <1>3, <1>4 DEF Spawned

\* Every step keeps each pre-join spawned once.
LEMMA NextOnce ==
  ASSUME CInv, [Next]_vars
  PROVE  OnceInv'
<1>0. /\ Slots' = Slots /\ Segregated' = Segregated
      /\ \A s : RoundOf(s)' = RoundOf(s) /\ PreJoins(s)' = PreJoins(s)
  BY ChainStays
<1>1. \A s \in Slots : RoundOf(s) \in Nat /\ RoundOf(s) + 1 # 0
  BY SlotInRound DEF CInv, TypeInv
<1> USE <1>0 DEF CInv, OnceInv
<1>2. CASE round0Warmup
  BY <1>1, <1>2 DEF round0Warmup, TypeInv
<1>3. ASSUME NEW s \in Slots, setupSlot(s) \/ armFinality(s)
      PROVE  OnceInv'
  <2>1. CASE \/ setupSlot(s) /\ ~Segregated /\ PreJoins(s)
             \/ armFinality(s) /\ Segregated
    <3>1. /\ \A n \in Rounds : prejoin'[n] = IF n = RoundOf(s) + 1 THEN "spawned" ELSE prejoin[n]
          /\ \A r \in Slots : PreJoins(r) /\ RoundOf(r) = RoundOf(s) => r = s
      BY <2>1, SpawnedOnce
    <3>2. \A r \in Slots : PreJoins(r) /\ RoundOf(r) + 1 = RoundOf(s) + 1 => r = s
      BY <1>1, <3>1
    <3>3. IF Segregated THEN setup'[s] = "done" ELSE setup'[s] # "no"
      BY <2>1 DEF setupSlot, armFinality, TypeInv
    <3>4. \A r \in Slots : /\ setup'[r] = "no" => setup[r] = "no"
                           /\ setup'[r] # "done" => setup[r] # "done"
      BY <2>1 DEF setupSlot, armFinality, TypeInv
    <3> QED BY <3>1, <3>2, <3>3, <3>4
  <2>2. CASE ~(\/ setupSlot(s) /\ ~Segregated /\ PreJoins(s)
               \/ armFinality(s) /\ Segregated)
    <3>1. prejoin' = prejoin
      BY <1>3, <2>2 DEF setupSlot, armFinality
    <3>2. \A r \in Slots : /\ setup'[r] = "no" => setup[r] = "no"
                           /\ setup'[r] # "done" => setup[r] # "done"
      BY <1>3 DEF setupSlot, armFinality, TypeInv
    <3> QED BY <3>1, <3>2
  <2> QED BY <2>1, <2>2
<1>4. CASE UNCHANGED setup /\ \A n \in Rounds : prejoin[n] = "no" => prejoin'[n] = "no"
  BY <1>4
<1>5. ASSUME NEW n \in Rounds, register(n) \/ join(n) \/ subscribe(n)
      PROVE  OnceInv'
  <2>1. UNCHANGED setup /\ \A m \in Rounds : prejoin[m] = "no" => prejoin'[m] = "no"
    BY <1>5 DEF register, join, subscribe, TypeInv
  <2> QED BY <1>4, <2>1
<1>6. CASE \/ \E n \in Rounds :
                \/ dropTimer(n) \/ release(n) \/ \E p \in Peers : connect(n, p)
                \/ \E timer \in {"vote", "agg", "seal"} : fire(n, timer)
           \/ \E s \in Slots : reapFinality(s) \/ reapDrop(s) \/ reaped(s)
           \/ Tick \/ UNCHANGED vars
  <2>1. UNCHANGED <<setup, prejoin>>
    BY <1>6, Zenon DEF dropTimer, release, connect, fire, reapFinality, reapDrop, reaped, Tick, vars
  <2> QED BY <1>4, <2>1
<1> QED BY <1>2, <1>3, <1>5, <1>6, Steps

\* Every step keeps the stages of the rounds.
LEMMA NextStage ==
  ASSUME CInv, [Next]_vars
  PROVE  StageInv'
<1>0. chain' = chain /\ Dialed' = Dialed /\ Subscribed' = Subscribed
  BY ChainStays
<1>1. \A s \in Slots : RoundOf(s) \in Rounds /\ RoundOf(s) \in Nat
  BY SlotInRound DEF CInv, TypeInv
<1>2. Dialed \in [Rounds -> SUBSET Peers] /\ Subscribed \in [Rounds -> SUBSET Topics]
  BY ChainFacts DEF CInv, TypeInv
<1> USE <1>0 DEF CInv, StageInv, TypeInv, net, timers, dropping
<1>3. CASE round0Warmup
  BY <1>3 DEF round0Warmup
<1>4. ASSUME NEW n \in Rounds, register(n)
      PROVE  StageInv'
  BY <1>4 DEF register
<1>5. ASSUME NEW n \in Rounds, join(n)
      PROVE  StageInv'
  BY <1>5 DEF join
<1>6. ASSUME NEW n \in Rounds, subscribe(n)
      PROVE  StageInv'
  BY <1>6 DEF subscribe
<1>7. ASSUME NEW n \in Rounds, Snapshot(n)
      PROVE  \A m \in Rounds : toUnsub'[m] \subseteq Subscribed[m] /\ toClose'[m] \subseteq Dialed[m]
  BY <1>7 DEF Snapshot
<1>8. ASSUME NEW n \in Rounds, dropTimer(n)
      PROVE  StageInv'
  <2>1. \A m \in Rounds : toUnsub'[m] \subseteq Subscribed[m] /\ toClose'[m] \subseteq Dialed[m]
    BY <1>7, <1>8 DEF dropTimer
  <2> QED BY <1>8, <2>1 DEF dropTimer
<1>9. ASSUME NEW n \in Rounds, release(n)
      PROVE  StageInv'
  BY <1>9 DEF release
<1>10. ASSUME NEW n \in Rounds, NEW timer \in {"vote", "agg", "seal"}, fire(n, timer)
       PROVE  StageInv'
  BY <1>10 DEF fire
<1>11. ASSUME NEW n \in Rounds, NEW p \in Peers, connect(n, p)
       PROVE  StageInv'
  BY <1>11 DEF connect
<1>12. ASSUME NEW s \in Slots, setupSlot(s)
       PROVE  StageInv'
  <2>1. CASE ~Segregated /\ PreJoins(s)
    BY <1>12, <2>1, SpawnedOnce, ZenonT(60) DEF setupSlot
  <2>2. CASE ~(~Segregated /\ PreJoins(s))
    BY <1>12, <2>2 DEF setupSlot
  <2> QED BY <2>1, <2>2
<1>13. ASSUME NEW s \in Slots, armFinality(s)
       PROVE  StageInv'
  <2>1. "drop" \in Timers(RoundOf(s)) => chain.hasAggs
    BY DEF Timers
  <2>2. \A n \in Rounds :
          \/ armed'[n] = armed[n]
          \/ /\ n = RoundOf(s) /\ n \in finals /\ armed'[n] = Timers(n)
             /\ n = 0 => prejoin[n] = "done"
    BY <1>1, <1>13 DEF armFinality, Warm
  <2>3. UNCHANGED <<now, finals, left, fired, toUnsub, toClose>>
    BY <1>13 DEF armFinality
  <2>4. CASE Segregated
    <3>1. \A n \in Rounds : \/ prejoin'[n] = prejoin[n]
                            \/ prejoin[n] = "no" /\ prejoin'[n] = "spawned" /\ n # 0
      BY <1>13, <2>4, SpawnedOnce
    <3> QED BY <2>1, <2>2, <2>3, <3>1
  <2>5. CASE ~Segregated
    <3>1. prejoin' = prejoin
      BY <1>13, <2>5 DEF armFinality
    <3> QED BY <2>1, <2>2, <2>3, <3>1
  <2> QED BY <2>4, <2>5
<1>14. ASSUME NEW s \in Slots, reapFinality(s)
       PROVE  StageInv'
  <2>1. \A n \in Rounds : armed'[n] \subseteq armed[n]
    BY <1>1, <1>14 DEF reapFinality
  <2> QED BY <1>14, <2>1 DEF reapFinality
<1>15. ASSUME NEW s \in Slots, reapDrop(s)
       PROVE  StageInv'
  BY <1>1, <1>7, <1>15 DEF reapDrop
<1>16. ASSUME NEW s \in Slots, reaped(s)
       PROVE  StageInv'
  BY <1>16 DEF reaped
<1>17. CASE Tick
  BY <1>17 DEF Tick, Quiet
<1>18. CASE UNCHANGED vars
  BY <1>18 DEF vars
<1> QED
  BY <1>3, <1>4, <1>5, <1>6, <1>8, <1>9, <1>10, <1>11, <1>12, <1>13, <1>14, <1>15, <1>16, <1>17,
     <1>18, Steps

\* The clock leaves a slot's arming behind only while round 0 is late.
LEMMA TickArming ==
  ASSUME CInv, Tick, NEW s \in Slots, setup[s] = "arming"
  PROVE  s = 0 /\ late'
<1>0. chain \in Chains /\ now \in Nat /\ 0 \in Rounds
  BY FinalityAssumption DEF CInv, TypeInv, Rounds
<1>1. ~Warm(RoundOf(s)) /\ Boundary(s) /\ prejoin[0] # "no"
  BY DEF Tick, Quiet, CInv, SlotInv
<1>2. RoundOf(s) = 0 /\ prejoin[0] # "done"
  BY <1>1 DEF Warm
<1>3. s = 0
  BY <1>0, <1>1, <1>2, SlotInRound
<1>4. now >= RoundStart(0)
  BY <1>0, RoundOrder
<1>5. late'
  BY <1>0, <1>1, <1>2, <1>4 DEF Tick
<1> QED BY <1>3, <1>5

\* Every step keeps the slots to their instants.
LEMMA NextSlot ==
  ASSUME CInv, [Next]_vars
  PROVE  SlotInv'
<1>0. /\ Slots' = Slots
      /\ \A s : /\ Start(s)' = Start(s) /\ Boundary(s)' = Boundary(s)
                /\ PreJoins(s)' = PreJoins(s)
  BY ChainStays
<1>1. \A s \in Slots : /\ s \in Nat /\ Start(s) \in Nat /\ Start(s + 1) \in Nat
                       /\ Start(s) < Start(s + 1)
  BY SlotInRound DEF CInv, TypeInv
<1> USE <1>0 DEF CInv, SlotInv, TypeInv
<1>2. ASSUME NEW s \in Slots, setupSlot(s)
      PROVE  SlotInv'
  BY <1>1, <1>2 DEF setupSlot, history
<1>3. ASSUME NEW s \in Slots, armFinality(s)
      PROVE  SlotInv'
  BY <1>1, <1>3 DEF armFinality, history
<1>4. ASSUME NEW s \in Slots, reapFinality(s)
      PROVE  SlotInv'
  BY <1>1, <1>4 DEF reapFinality, history
<1>5. ASSUME NEW s \in Slots, reaped(s)
      PROVE  SlotInv'
  BY <1>1, <1>5 DEF reaped, history
<1>6. CASE Tick
  <2>1. now' = now + 1 /\ UNCHANGED <<setup, reap>> /\ (late => late')
    BY <1>6 DEF Tick
  <2>2. ASSUME NEW s \in Slots
        PROVE  /\ IF setup[s] = "no" THEN now + 1 <= Start(s) ELSE now + 1 >= Start(s)
               /\ setup[s] = "arming" => s = 0 /\ late'
               /\ reap[s] # "no" => setup[s] = "done" /\ now + 1 >= Start(s + 1)
               /\ ~late' /\ reap[s] # "done" => now + 1 <= Start(s + 1)
    <3>1. setup[s] = "no" => now < Start(s)
      BY <1>1, <1>6 DEF Tick, Quiet
    <3>2. setup[s] = "arming" => s = 0 /\ late'
      BY <1>6, TickArming
    <3>3. setup[s] = "done" /\ reap[s] # "done" => now < Start(s + 1)
      BY <1>1, <1>6 DEF Tick, Quiet
    <3> QED BY <1>1, <3>1, <3>2, <3>3
  <2> QED BY <1>1, <2>1, <2>2
<1>7. CASE UNCHANGED <<now, setup, reap, late>>
  BY <1>7
<1>8. CASE \/ round0Warmup
           \/ \E n \in Rounds :
                \/ register(n) \/ join(n) \/ subscribe(n) \/ dropTimer(n) \/ release(n)
                \/ \E timer \in {"vote", "agg", "seal"} : fire(n, timer)
                \/ \E p \in Peers : connect(n, p)
           \/ \E s \in Slots : reapDrop(s)
           \/ UNCHANGED vars
  BY <1>7, <1>8, Zenon
     DEF round0Warmup, register, join, subscribe, dropTimer, release, fire, connect, reapDrop,
         vars, history
<1> QED BY <1>2, <1>3, <1>4, <1>5, <1>6, <1>8, Steps

\* The stages and the instants hold throughout.
LEMMA CInvHolds == Safety => []CInv
<1>1. CInv /\ [Next]_vars => CInv'
  BY NextType, NextOnce, NextStage, NextSlot DEF CInv
<1> QED BY <1>1, InitCInv, PTL DEF Safety

-----------------------------------------------------------------------------
(* Voting on joined topics.                                                *)

\* A slot that arms a round other than round 0 does so when the round starts.
LEMMA ArmedAtStart ==
  ASSUME CInv, NEW s \in Slots, armFinality(s), RoundOf(s) # 0 \/ ~late
  PROVE  now = RoundStart(RoundOf(s))
<1>1. chain \in Chains
  BY DEF CInv, TypeInv
<1>2. setup[s] = "arming" /\ Boundary(s) /\ (now = Start(s) \/ (s = 0 /\ late))
  BY DEF armFinality, CInv, SlotInv
<1> QED BY <1>1, <1>2, SlotInRound

\* Every step keeps the votes behind the joins, if they are not due at the very
\* start of the round.
LEMMA NextVote ==
  ASSUME CInv, CInv', VoteInv, JoinedBeforeVote, [Next]_vars, \A c \in Chains : c.voteOffset > 0
  PROVE  VoteInv' /\ JoinedBeforeVote'
<1>0. \A n : RoundStart(n)' = RoundStart(n)
  BY ChainStays
<1>1. \A n \in Rounds : /\ n \in Nat /\ RoundStart(n) \in Nat /\ DueAt(n, "vote") \in Nat
                        /\ DueAt(n, "vote") > RoundStart(n)
  <2>1. chain \in Chains /\ chain.voteOffset \in Nat
    BY ChainFacts DEF CInv, TypeInv
  <2>2. Rounds \subseteq Nat
    BY FinalityAssumption DEF Rounds
  <2> QED BY <2>1, <2>2, RoundOrder, SMTT(30)
<1> USE <1>0 DEF CInv, TypeInv, VoteInv, JoinedBeforeVote, timers
<1>2. CASE round0Warmup
  BY <1>2 DEF round0Warmup, StageInv
<1>3. ASSUME NEW n \in Rounds, register(n)
      PROVE  VoteInv' /\ JoinedBeforeVote'
  BY <1>3 DEF register, StageInv
<1>4. ASSUME NEW n \in Rounds, join(n)
      PROVE  VoteInv' /\ JoinedBeforeVote'
  BY <1>4 DEF join
<1>5. ASSUME NEW n \in Rounds, subscribe(n)
      PROVE  VoteInv' /\ JoinedBeforeVote'
  BY <1>5 DEF subscribe
<1>6. ASSUME NEW n \in Rounds, NEW timer \in {"vote", "agg", "seal"}, fire(n, timer)
      PROVE  VoteInv' /\ JoinedBeforeVote'
  <2>1. armed[n] # {} /\ (timer = "vote" => "vote" \in armed[n] /\ now > RoundStart(n))
    <3>1. timer \in armed[n] /\ now >= DueAt(n, timer)
      BY <1>6 DEF fire
    <3>2. timer = "vote" => now >= DueAt(n, "vote")
      BY <3>1
    <3> QED BY <1>1, <3>1, <3>2
  <2>2. timer = "vote" => prejoin[n] \in (IF n = 0 THEN {"done"} ELSE {"dialing", "done"})
    BY <1>1, <2>1 DEF StageInv
  <2> QED BY <1>6, <2>2 DEF fire
<1>7. ASSUME NEW s \in Slots, setupSlot(s)
      PROVE  VoteInv' /\ JoinedBeforeVote'
  <2>1. CASE ~Segregated /\ PreJoins(s)
    BY <1>7, <2>1, SpawnedOnce DEF setupSlot
  <2>2. CASE ~(~Segregated /\ PreJoins(s))
    BY <1>7, <2>2 DEF setupSlot
  <2> QED BY <2>1, <2>2
<1>8. ASSUME NEW s \in Slots, armFinality(s)
      PROVE  VoteInv' /\ JoinedBeforeVote'
  <2>1. RoundOf(s) \in Rounds
    BY SlotInRound
  <2>2. \A n \in Rounds :
          \/ armed'[n] = armed[n]
          \/ n = RoundOf(s) /\ (n = 0 => prejoin[n] = "done")
    BY <1>8, <2>1 DEF armFinality, Warm
  <2>3. UNCHANGED <<now, fired>>
    BY <1>8 DEF armFinality
  <2>4. \A n \in Rounds : \/ prejoin'[n] = prejoin[n]
                          \/ prejoin[n] = "no" /\ prejoin'[n] = "spawned"
    <3>1. CASE Segregated
      BY <1>8, <3>1, SpawnedOnce
    <3>2. CASE ~Segregated
      BY <1>8, <3>2 DEF armFinality
    <3> QED BY <3>1, <3>2
  <2>5. RoundOf(s) # 0 => now = RoundStart(RoundOf(s))
    BY <1>8, ArmedAtStart
  <2>6. VoteInv'
    BY <1>1, <2>2, <2>3, <2>4, <2>5
  <2>7. JoinedBeforeVote'
    BY <2>3, <2>4
  <2> QED BY <2>6, <2>7
<1>9. ASSUME NEW s \in Slots, reapFinality(s)
      PROVE  VoteInv' /\ JoinedBeforeVote'
  <2>1. \A n \in Rounds : armed'[n] \subseteq armed[n]
    BY <1>9 DEF reapFinality
  <2> QED BY <1>9, <2>1 DEF reapFinality
<1>10. ASSUME NEW n \in Rounds, dropTimer(n)
       PROVE  VoteInv' /\ JoinedBeforeVote'
  BY <1>10 DEF dropTimer
<1>11. CASE Tick
  BY <1>11 DEF Tick, Quiet
<1>12. CASE UNCHANGED <<now, prejoin, armed, fired>>
  BY <1>12
<1>13. CASE \/ \E n \in Rounds : release(n) \/ \E p \in Peers : connect(n, p)
            \/ \E s \in Slots : reapDrop(s) \/ reaped(s)
            \/ UNCHANGED vars
  <2>1. UNCHANGED <<now, prejoin, armed, fired>>
    BY <1>13, Zenon DEF release, connect, reapDrop, reaped, vars
  <2> QED BY <1>12, <2>1
<1> QED
  BY <1>2, <1>3, <1>4, <1>5, <1>6, <1>7, <1>8, <1>9, <1>10, <1>11, <1>13, Steps

\* If no chain's votes are due at the very start of a round, emitFinalityVotes
\* publishes on joined topics only, and round 0's votes follow its warm-up.
THEOREM VotesAfterJoin ==
  (\A c \in Chains : c.voteOffset > 0) => (Spec => []JoinedBeforeVote)
<1> SUFFICES ASSUME \A c \in Chains : c.voteOffset > 0
             PROVE  Spec => []JoinedBeforeVote
  OBVIOUS
<1>1. CInv /\ CInv' /\ VoteInv /\ JoinedBeforeVote /\ [Next]_vars => VoteInv' /\ JoinedBeforeVote'
  BY NextVote
<1>2. Init => VoteInv /\ JoinedBeforeVote
  BY DEF Init, VoteInv, JoinedBeforeVote
<1> QED BY <1>1, <1>2, CInvHolds, PTL DEF Spec, Safety

-----------------------------------------------------------------------------
(* Nothing leaks.                                                          *)

\* The calendar in one place.
LEMMA Calendar ==
  ASSUME CInv
  PROVE  /\ now \in Nat /\ Rounds \subseteq Nat
         /\ \A n \in Nat : /\ RoundStart(n) \in Nat /\ RoundStart(n) < RoundStart(n + 1)
                           /\ DueAt(n, "drop") \in Nat /\ DueAt(n, "drop") < RoundStart(n + 1)
                           /\ chain.hasAggs => DueAt(n, "drop") > RoundStart(n)
         /\ \A m, n \in Nat : m < n => RoundStart(m + 1) <= RoundStart(n)
         /\ \A s \in Slots : /\ RoundOf(s) \in Rounds
                             /\ PreJoins(s) => Start(s + 1) = RoundStart(RoundOf(s) + 1)
<1>1. chain \in Chains /\ now \in Nat
  BY DEF CInv, TypeInv
<1>2. Rounds \subseteq Nat
  BY FinalityAssumption DEF Rounds
<1>3. \A n \in Nat : /\ RoundStart(n) \in Nat /\ RoundStart(n) < RoundStart(n + 1)
                     /\ DueAt(n, "drop") \in Nat /\ DueAt(n, "drop") < RoundStart(n + 1)
                     /\ chain.hasAggs => DueAt(n, "drop") > RoundStart(n)
  BY <1>1, RoundOrder
<1>4. \A m, n \in Nat : m < n => RoundStart(m + 1) <= RoundStart(n)
  BY <1>1, RoundOrder
<1>5. \A s \in Slots : /\ RoundOf(s) \in Rounds
                       /\ PreJoins(s) => Start(s + 1) = RoundStart(RoundOf(s) + 1)
  BY <1>1, SlotInRound
<1> QED BY <1>1, <1>2, <1>3, <1>4, <1>5

\* A drop begins inside its round: after its start, and with prompt pre-joins
\* not after its end.
Dropping(n) ==
  /\ Snapshot(n)
  /\ \/ "drop" \in armed[n] /\ now >= DueAt(n, "drop")
     \/ \E s \in Slots : RoundOf(s) = n /\ reap[s] = "dropping"

\* A drop under way is after its round's start and, unless a pre-join was late, not after the
\* next round's start.
LEMMA DropInside ==
  ASSUME CInv, PromptInv, NEW n \in Rounds, Dropping(n)
  PROVE  now > RoundStart(n) /\ (~late => now <= RoundStart(n + 1))
<1> USE Calendar
<1>1. CASE "drop" \in armed[n] /\ now >= DueAt(n, "drop")
  BY <1>1 DEF CInv, StageInv, PromptInv
<1>2. ASSUME NEW s \in Slots, RoundOf(s) = n, reap[s] = "dropping"
      PROVE  now > RoundStart(n) /\ (~late => now <= RoundStart(n + 1))
  <2>1. PreJoins(s) /\ now >= Start(s + 1) /\ (~late => now <= Start(s + 1))
    BY <1>2 DEF CInv, SlotInv
  <2>2. Start(s + 1) = RoundStart(n + 1)
    BY <1>2, <2>1
  <2> QED BY <2>1, <2>2
<1> QED BY <1>1, <1>2 DEF Dropping

\* Every step drops a round after its start only.
LEMMA NextDrop ==
  ASSUME CInv, DropInv, PromptInv, [Next]_vars
  PROVE  DropInv'
<1>0. \A n : RoundStart(n)' = RoundStart(n)
  BY ChainStays
<1> USE <1>0, Calendar DEF DropInv
<1>1. ASSUME NEW n \in Rounds, Dropping(n), UNCHANGED now
      PROVE  DropInv'
  BY <1>1, DropInside DEF Dropping, Snapshot, CInv, TypeInv
<1>2. ASSUME NEW n \in Rounds, dropTimer(n)
      PROVE  DropInv'
  <2>1. Snapshot(n) => Dropping(n)
    BY <1>2 DEF dropTimer, Dropping
  <2> QED BY <1>1, <1>2, <2>1 DEF dropTimer, dropping
<1>3. ASSUME NEW s \in Slots, reapDrop(s)
      PROVE  DropInv'
  BY <1>1, <1>3 DEF reapDrop, Dropping
<1>4. ASSUME NEW n \in Rounds, release(n)
      PROVE  DropInv'
  BY <1>4 DEF release, CInv, TypeInv
<1>5. CASE Tick
  BY <1>5 DEF Tick, dropping
<1>6. CASE UNCHANGED <<now, drop>>
  BY <1>6
<1>7. CASE \/ round0Warmup
           \/ \E n \in Rounds :
                \/ register(n) \/ join(n) \/ subscribe(n)
                \/ \E timer \in {"vote", "agg", "seal"} : fire(n, timer)
                \/ \E p \in Peers : connect(n, p)
           \/ \E s \in Slots : setupSlot(s) \/ armFinality(s) \/ reapFinality(s) \/ reaped(s)
           \/ UNCHANGED vars
  BY <1>6, <1>7, Zenon
     DEF round0Warmup, register, join, subscribe, fire, connect, setupSlot, armFinality,
         reapFinality, reaped, vars, dropping
<1> QED BY <1>2, <1>3, <1>4, <1>5, <1>7, Steps

\* A slot spawns the pre-join of a round before the round starts.
LEMMA SpawnedAhead ==
  ASSUME CInv, ~late, NEW s \in Slots,
         \/ setupSlot(s) /\ ~Segregated /\ PreJoins(s)
         \/ armFinality(s) /\ Segregated
  PROVE  now < RoundStart(RoundOf(s) + 1)
<1>1. chain \in Chains /\ now \in Nat
  BY DEF CInv, TypeInv
<1>2. /\ Start(s) \in Nat /\ Start(s + 1) \in Nat /\ Start(s) < Start(s + 1)
      /\ PreJoins(s) => Start(s + 1) = RoundStart(RoundOf(s) + 1)
      /\ Segregated => PreJoins(s)
  BY <1>1, SlotInRound
<1>3. now <= Start(s)
  BY <1>1, <1>2 DEF CInv, SlotInv, setupSlot, armFinality
<1>4. PreJoins(s)
  BY <1>2
<1>5. RoundStart(RoundOf(s) + 1) = Start(s + 1)
  BY <1>2, <1>4
<1> QED BY <1>1, <1>2, <1>3, <1>5

\* Every step keeps prompt rounds to their time.
LEMMA NextPrompt ==
  ASSUME CInv, CInv', PromptInv, [Next]_vars
  PROVE  PromptInv'
<1>0. /\ chain' = chain /\ Slots' = Slots
      /\ \A s : RoundOf(s)' = RoundOf(s) /\ PreJoins(s)' = PreJoins(s)
      /\ \A n : RoundStart(n)' = RoundStart(n) /\ DueAt(n, "drop")' = DueAt(n, "drop")
  BY ChainStays
<1> USE <1>0, Calendar DEF PromptInv, CInv, TypeInv, timers, history
<1>1. CASE round0Warmup
  <2>1. now = 0 /\ 0 \in Rounds /\ UNCHANGED <<now, finals, armed, reap, late>>
    BY <1>1, FinalityAssumption DEF round0Warmup, StageInv, Rounds
  <2>2. \A n \in Rounds : prejoin'[n] # prejoin[n] => n = 0
    BY <1>1 DEF round0Warmup
  <2> QED BY <2>1, <2>2
<1>2. ASSUME NEW n \in Rounds, register(n)
      PROVE  PromptInv'
  <2>0. UNCHANGED <<now, armed, reap, late>> /\ prejoin[n] = "spawned"
    BY <1>2 DEF register
  <2> SUFFICES ASSUME ~late PROVE PromptInv'
    BY <2>0
  <2>1. n \in Nat /\ RoundStart(n) \in Nat /\ RoundStart(n) < RoundStart(n + 1)
        /\ now <= RoundStart(n) /\ RoundStart(n + 1) \in Nat
    <3>1. n \in Nat /\ n + 1 \in Nat
      OBVIOUS
    <3>2. RoundStart(n) \in Nat /\ RoundStart(n) < RoundStart(n + 1) /\ RoundStart(n + 1) \in Nat
      BY <3>1
    <3>3. ~(now > RoundStart(n)) /\ now \in Nat
      BY <2>0
    <3> QED BY <3>1, <3>2, <3>3
  <2>2. finals' = finals \cup {n}
    BY <1>2 DEF register
  <2>3. \A m \in Rounds : prejoin'[m] # prejoin[m] => m = n
    BY <1>2 DEF register
  <2>4. \A s \in Slots : reap[s] # "no" /\ PreJoins(s) => RoundOf(s) # n
    BY <2>1 DEF SlotInv
  <2>5. \A m \in Rounds : now > RoundStart(m) => prejoin'[m] \in {"no", "done"}
    BY <2>1, <2>3, SMTT(30)
  <2>6. \A m \in finals' : now <= RoundStart(m + 1)
    BY <2>1, <2>2
  <2>7. \A s \in Slots : reap[s] # "no" /\ PreJoins(s) => RoundOf(s) \notin finals'
    BY <2>2, <2>4
  <2> QED BY <2>0, <2>5, <2>6, <2>7
<1>3. ASSUME NEW n \in Rounds, join(n)
      PROVE  PromptInv'
  BY <1>3 DEF join
<1>4. ASSUME NEW n \in Rounds, subscribe(n)
      PROVE  PromptInv'
  BY <1>4 DEF subscribe
<1>5. ASSUME NEW n \in Rounds, NEW timer \in {"vote", "agg", "seal"}, fire(n, timer)
      PROVE  PromptInv'
  BY <1>5 DEF fire
<1>6. ASSUME NEW n \in Rounds, dropTimer(n)
      PROVE  PromptInv'
  BY <1>6 DEF dropTimer
<1>7. ASSUME NEW s \in Slots, setupSlot(s)
      PROVE  PromptInv'
  <2>1. CASE ~Segregated /\ PreJoins(s)
    <3> SUFFICES ASSUME ~late PROVE PromptInv'
      BY <1>7 DEF setupSlot
    <3>1. now < RoundStart(RoundOf(s) + 1)
      BY <1>7, <2>1, SpawnedAhead
    <3>2. \A n \in Rounds : prejoin'[n] # prejoin[n] => n = RoundOf(s) + 1
      BY <1>7, <2>1, SpawnedOnce
    <3> QED BY <1>7, <3>1, <3>2 DEF setupSlot
  <2>2. CASE ~(~Segregated /\ PreJoins(s))
    BY <1>7, <2>2 DEF setupSlot
  <2> QED BY <2>1, <2>2
<1>8. ASSUME NEW s \in Slots, armFinality(s)
      PROVE  PromptInv'
  <2>1. UNCHANGED <<now, finals, reap, late>>
    BY <1>8 DEF armFinality
  <2> SUFFICES ASSUME ~late PROVE PromptInv'
    BY <2>1
  <2>2. \A n \in Rounds : prejoin'[n] = prejoin[n] \/ now < RoundStart(n)
    <3>1. CASE Segregated
      <4>1. now < RoundStart(RoundOf(s) + 1)
        BY <1>8, <3>1, SpawnedAhead
      <4> QED BY <1>8, <3>1, <4>1, SpawnedOnce
    <3>2. CASE ~Segregated
      BY <1>8, <3>2 DEF armFinality
    <3> QED BY <3>1, <3>2
  <2>3. now = RoundStart(RoundOf(s))
    BY <1>8, ArmedAtStart
  <2>4. \A n \in Rounds : armed'[n] = armed[n] \/ n = RoundOf(s)
    BY <1>8 DEF armFinality
  <2>5. \A n \in Rounds : "drop" \in armed'[n] => chain.hasAggs
    BY DEF StageInv
  <2>6. \A n \in Rounds : "drop" \in armed'[n] => now <= DueAt(n, "drop")
    <3> SUFFICES ASSUME NEW n \in Rounds, "drop" \in armed'[n] PROVE now <= DueAt(n, "drop")
      OBVIOUS
    <3>1. n \in Nat /\ DueAt(n, "drop") \in Nat /\ RoundStart(n) \in Nat /\ chain.hasAggs
      BY <2>5
    <3>2. DueAt(n, "drop") > RoundStart(n)
      BY <3>1
    <3> QED BY <2>3, <2>4, <3>1, <3>2, SMTT(30)
  <2>7. \A n \in Rounds : now > RoundStart(n) => prejoin'[n] \in {"no", "done"}
    <3> SUFFICES ASSUME NEW n \in Rounds, now > RoundStart(n) PROVE prejoin'[n] \in {"no", "done"}
      OBVIOUS
    <3>1. RoundStart(n) \in Nat
      OBVIOUS
    <3>2. prejoin'[n] = prejoin[n]
      BY <2>2, <3>1
    <3>3. prejoin[n] \in {"no", "done"}
      OBVIOUS
    <3> QED BY <3>2, <3>3, Zenon
  <2> QED BY <2>1, <2>6, <2>7
<1>9. ASSUME NEW s \in Slots, reapFinality(s)
      PROVE  PromptInv'
  <2>1. \A n \in Rounds : armed'[n] \subseteq armed[n]
    BY <1>9 DEF reapFinality
  <2>2. finals' \subseteq finals /\ (PreJoins(s) => RoundOf(s) \notin finals')
    BY <1>9 DEF reapFinality
  <2>3. \A r \in Slots : r # s => reap'[r] = reap[r]
    BY <1>9 DEF reapFinality
  <2>4. UNCHANGED <<now, prejoin, late>>
    BY <1>9 DEF reapFinality
  <2> QED BY <2>1, <2>2, <2>3, <2>4
<1>10. ASSUME NEW s \in Slots, reaped(s)
       PROVE  PromptInv'
  <2>1. \A r \in Slots : reap'[r] # "no" => reap[r] # "no"
    BY <1>10 DEF reaped
  <2> QED BY <1>10, <2>1 DEF reaped
<1>11. CASE Tick
  <2> SUFFICES ASSUME ~late' PROVE PromptInv'
    OBVIOUS
  <2>1. /\ now' = now + 1 /\ UNCHANGED <<prejoin, finals, armed, reap>> /\ ~late
        /\ \A n \in Rounds : now >= RoundStart(n) => prejoin[n] \in {"no", "done"}
    BY <1>11 DEF Tick
  <2>2. ASSUME NEW n \in finals PROVE now + 1 <= RoundStart(n + 1)
    <3>1. n \in Rounds /\ n \in Nat
      BY <2>2
    <3>2. PICK s \in Slots : PreJoins(s) /\ RoundOf(s) = n
      BY <3>1, LastSlot
    <3>3. reap[s] = "no"
      BY <2>1, <2>2, <3>2
    <3>4. Start(s + 1) = RoundStart(n + 1)
      BY <3>2
    <3>5. setup[s] # "arming"
      BY <1>11, TickArming
    <3>6. setup[s] = "done" => ~(now >= Start(s + 1))
      BY <1>11, <3>3 DEF Tick, Quiet
    <3>7. setup[s] = "no" => now + 1 <= Start(s) /\ Start(s) < Start(s + 1) /\ Start(s) \in Nat
      <4>1. Start(s) \in Nat /\ Start(s) < Start(s + 1)
        BY SlotInRound
      <4> QED BY <1>11, <4>1 DEF Tick, Quiet
    <3> QED BY <3>1, <3>4, <3>5, <3>6, <3>7
  <2>3. \A n \in Rounds : "drop" \in armed[n] => ~(now >= DueAt(n, "drop"))
    BY <1>11 DEF Tick, Quiet
  <2> QED BY <2>1, <2>2, <2>3
<1>12. CASE UNCHANGED <<now, prejoin, finals, armed, reap, late>>
  BY <1>12
<1>13. CASE \/ \E n \in Rounds : release(n) \/ \E p \in Peers : connect(n, p)
            \/ \E s \in Slots : reapDrop(s)
            \/ UNCHANGED vars
  <2>1. UNCHANGED <<now, prejoin, finals, armed, reap, late>>
    BY <1>13, Zenon DEF release, connect, reapDrop, vars, timers, history
  <2> QED BY <1>12, <2>1
<1> QED
  BY <1>1, <1>2, <1>3, <1>4, <1>5, <1>6, <1>7, <1>8, <1>9, <1>10, <1>11, <1>13, Steps

\* With prompt pre-joins, a pre-join at work belongs to a round nobody drops.
LEMMA JoiningUndropped ==
  ASSUME CInv, DropInv, PromptInv, ~late, NEW n \in Rounds, prejoin[n] = "dialing"
  PROVE  drop[n] = "no"
<1>1. n \in Nat /\ RoundStart(n) \in Nat /\ now \in Nat
  BY Calendar
<1>2. ~(now > RoundStart(n))
  BY DEF PromptInv
<1> QED BY <1>1, <1>2 DEF DropInv

\* With prompt pre-joins, a drop meets only records of later rounds, none of
\* them dropped yet.
LEMMA SnapshotMeetsLater ==
  ASSUME CInv, DropInv, PromptInv, ~late, NEW n \in Rounds, Dropping(n),
         NEW m \in finals, m # n
  PROVE  m \in Rounds /\ drop[m] = "no" /\ prejoin[m] # "no"
<1>1. m \in Rounds /\ n \in Nat /\ m \in Nat /\ now \in Nat
  BY Calendar DEF CInv, TypeInv
<1>2. prejoin[m] # "no"
  BY <1>1 DEF CInv, StageInv
<1>3. now > RoundStart(n) /\ now <= RoundStart(n + 1)
  BY DropInside
<1>4. now <= RoundStart(m + 1)
  BY <1>1 DEF PromptInv
<1>5. /\ RoundStart(n) \in Nat /\ RoundStart(m) \in Nat
      /\ RoundStart(n + 1) \in Nat /\ RoundStart(m + 1) \in Nat
  BY <1>1, Calendar
<1>6. ~(m < n)
  <2>1. ASSUME m < n PROVE RoundStart(m + 1) <= RoundStart(n)
    BY <1>1, <2>1, Calendar
  <2> QED BY <1>1, <1>3, <1>4, <1>5, <2>1
<1>7. RoundStart(n + 1) <= RoundStart(m)
  <2>1. n < m
    BY <1>1, <1>6
  <2> QED BY <1>1, <2>1, Calendar
<1>8. ~(now > RoundStart(m))
  BY <1>1, <1>3, <1>5, <1>7
<1> QED BY <1>1, <1>2, <1>8 DEF DropInv

\* A step that opens nothing, drops nothing and takes back no pre-join leaves
\* everything its owner.
LEMMA OwnersStay ==
  ASSUME OwnedInv, Dialed' = Dialed, Subscribed' = Subscribed,
         subs' \subseteq subs, conn' \subseteq conn,
         UNCHANGED <<drop, toUnsub, toClose>>, late => late',
         \A n \in Rounds : prejoin'[n] = "no" => prejoin[n] = "no"
  PROVE  OwnedInv'
<1>1. \A n \in Rounds : /\ \A t : OwnsTopic(n, t) => OwnsTopic(n, t)'
                        /\ \A p : OwnsPeer(n, p) => OwnsPeer(n, p)'
  BY DEF OwnsTopic, OwnsPeer
<1> QED BY <1>1 DEF OwnedInv

\* A drop hands what it does not release itself to a later round.
LEMMA SnapshotOwned ==
  ASSUME CInv, DropInv, PromptInv, OwnedInv, [Next]_vars, NEW n \in Rounds, Dropping(n),
         UNCHANGED <<prejoin, net, late>>
  PROVE  OwnedInv'
<1> SUFFICES ASSUME ~late PROVE OwnedInv'
  BY DEF OwnedInv
<1>0. /\ Dialed' = Dialed /\ Subscribed' = Subscribed
      /\ Dialed \in [Rounds -> SUBSET Peers] /\ Subscribed \in [Rounds -> SUBSET Topics]
  BY ChainStays, ChainFacts DEF CInv, TypeInv
<1>1. /\ drop[n] = "no" /\ drop' = [drop EXCEPT ![n] = "dropping"]
      /\ toUnsub' = [toUnsub EXCEPT ![n] = Subscribed[n] \ Spared(n, Subscribed)]
      /\ toClose' = [toClose EXCEPT ![n] = Dialed[n] \ Spared(n, Dialed)]
  BY DEF Dropping, Snapshot
<1>2. /\ drop'[n] = "dropping" /\ toUnsub'[n] = Subscribed[n] \ Spared(n, Subscribed)
      /\ toClose'[n] = Dialed[n] \ Spared(n, Dialed)
      /\ \A m \in Rounds : m # n => /\ drop'[m] = drop[m] /\ toUnsub'[m] = toUnsub[m]
                                    /\ toClose'[m] = toClose[m]
  BY <1>1 DEF CInv, TypeInv
<1>3. \A m \in Rounds : m # n => /\ \A t : OwnsTopic(m, t) => OwnsTopic(m, t)'
                                 /\ \A p : OwnsPeer(m, p) => OwnsPeer(m, p)'
  BY <1>0, <1>2 DEF OwnsTopic, OwnsPeer
<1>4. ASSUME NEW t, OwnsTopic(n, t)
      PROVE  \E m \in Rounds : OwnsTopic(m, t)'
  <2>1. prejoin[n] # "no" /\ t \in Subscribed[n]
    BY <1>4 DEF OwnsTopic
  <2>2. CASE t \in Spared(n, Subscribed)
    <3>1. PICK m \in finals \ {n} : t \in Subscribed[m]
      BY <2>2 DEF Spared
    <3>2. m \in Rounds /\ drop[m] = "no" /\ prejoin[m] # "no"
      BY <3>1, SnapshotMeetsLater
    <3>3. OwnsTopic(m, t)
      BY <3>1, <3>2 DEF OwnsTopic
    <3> QED BY <1>3, <3>1, <3>2, <3>3
  <2>3. CASE t \notin Spared(n, Subscribed)
    <3>1. OwnsTopic(n, t)'
      BY <1>0, <1>2, <2>1, <2>3 DEF OwnsTopic
    <3> QED BY <3>1
  <2> QED BY <2>2, <2>3
<1>5. ASSUME NEW p, OwnsPeer(n, p)
      PROVE  \E m \in Rounds : OwnsPeer(m, p)'
  <2>1. prejoin[n] # "no" /\ p \in Dialed[n]
    BY <1>5 DEF OwnsPeer
  <2>2. CASE p \in Spared(n, Dialed)
    <3>1. PICK m \in finals \ {n} : p \in Dialed[m]
      BY <2>2 DEF Spared
    <3>2. m \in Rounds /\ drop[m] = "no" /\ prejoin[m] # "no"
      BY <3>1, SnapshotMeetsLater
    <3>3. OwnsPeer(m, p)
      BY <3>1, <3>2 DEF OwnsPeer
    <3> QED BY <1>3, <3>1, <3>2, <3>3
  <2>3. CASE p \notin Spared(n, Dialed)
    <3>1. OwnsPeer(n, p)'
      BY <1>0, <1>2, <2>1, <2>3 DEF OwnsPeer
    <3> QED BY <3>1
  <2> QED BY <2>2, <2>3
<1>6. subs' = subs /\ conn' = conn
  BY DEF net
<1> QED BY <1>3, <1>4, <1>5, <1>6 DEF OwnedInv

\* A release takes away only what it closes.
LEMMA ReleaseOwned ==
  ASSUME CInv, OwnedInv, [Next]_vars, NEW n \in Rounds, release(n)
  PROVE  OwnedInv'
<1>0. UNCHANGED <<prejoin, late, Dialed, Subscribed>> /\ drop[n] = "dropping"
  BY ChainStays DEF release, history
<1>1. CASE \E t \in toUnsub[n] : /\ toUnsub' = [toUnsub EXCEPT ![n] = @ \ {t}]
                                 /\ subs' = subs \ {t} /\ UNCHANGED <<drop, toClose, conn>>
  <2>1. PICK t : /\ toUnsub' = [toUnsub EXCEPT ![n] = @ \ {t}] /\ subs' = subs \ {t}
                 /\ UNCHANGED <<drop, toClose, conn>>
    BY <1>1
  <2>2. \A m \in Rounds, u \in subs' : OwnsTopic(m, u) => OwnsTopic(m, u)'
    BY <1>0, <2>1 DEF OwnsTopic, CInv, TypeInv
  <2>3. \A m \in Rounds, p \in conn : OwnsPeer(m, p) => OwnsPeer(m, p)'
    BY <1>0, <2>1 DEF OwnsPeer
  <2> QED BY <1>0, <2>1, <2>2, <2>3 DEF OwnedInv
<1>2. CASE \E p \in toClose[n] : /\ toClose' = [toClose EXCEPT ![n] = @ \ {p}]
                                 /\ conn' = conn \ {p} /\ UNCHANGED <<drop, toUnsub, subs>>
  <2>1. PICK p : /\ toClose' = [toClose EXCEPT ![n] = @ \ {p}] /\ conn' = conn \ {p}
                 /\ UNCHANGED <<drop, toUnsub, subs>>
    BY <1>2
  <2>2. \A m \in Rounds, q \in conn' : OwnsPeer(m, q) => OwnsPeer(m, q)'
    BY <1>0, <2>1 DEF OwnsPeer, CInv, TypeInv
  <2>3. \A m \in Rounds, t \in subs : OwnsTopic(m, t) => OwnsTopic(m, t)'
    BY <1>0, <2>1 DEF OwnsTopic
  <2> QED BY <1>0, <2>1, <2>2, <2>3 DEF OwnedInv
<1>3. CASE /\ toUnsub[n] = {} /\ toClose[n] = {} /\ drop' = [drop EXCEPT ![n] = "done"]
           /\ UNCHANGED <<toUnsub, toClose, net>>
  <2>1. \A m \in Rounds : drop'[m] = drop[m] \/ m = n
    BY <1>3 DEF CInv, TypeInv
  <2>2. \A m \in Rounds, t \in subs : OwnsTopic(m, t) => OwnsTopic(m, t)'
    BY <1>0, <1>3, <2>1 DEF OwnsTopic
  <2>3. \A m \in Rounds, p \in conn : OwnsPeer(m, p) => OwnsPeer(m, p)'
    BY <1>0, <1>3, <2>1 DEF OwnsPeer
  <2> QED BY <1>0, <1>3, <2>2, <2>3 DEF OwnedInv, net
<1> QED BY <1>1, <1>2, <1>3 DEF release

\* Every step leaves all foreign network state an owner.
LEMMA NextOwned ==
  ASSUME CInv, DropInv, PromptInv, OwnedInv, [Next]_vars
  PROVE  OwnedInv'
<1>0. Dialed' = Dialed /\ Subscribed' = Subscribed
  BY ChainStays
<1>1. ASSUME NEW n \in Rounds, NEW p \in Peers, connect(n, p)
      PROVE  OwnedInv'
  <2> SUFFICES ASSUME ~late PROVE OwnedInv'
    BY <1>1 DEF OwnedInv, connect, history
  <2>1. prejoin[n] = "dialing" /\ p \in Dialed[n]
    BY <1>1 DEF connect, CInv, StageInv
  <2>2. drop[n] = "no"
    BY <2>1, JoiningUndropped
  <2>3. /\ UNCHANGED <<prejoin, drop, toUnsub, toClose, subs, late>>
        /\ conn' = conn \cup {p}
    BY <1>1 DEF connect, dropping, history
  <2>4. OwnsPeer(n, p)'
    BY <1>0, <2>1, <2>2, <2>3 DEF OwnsPeer
  <2>5. \A m \in Rounds : /\ \A t : OwnsTopic(m, t) => OwnsTopic(m, t)'
                          /\ \A q : OwnsPeer(m, q) => OwnsPeer(m, q)'
    BY <1>0, <2>3 DEF OwnsTopic, OwnsPeer
  <2> QED BY <2>3, <2>4, <2>5 DEF OwnedInv
<1>2. ASSUME NEW n \in Rounds, subscribe(n)
      PROVE  OwnedInv'
  <2>0. UNCHANGED <<drop, toUnsub, toClose, conn, late>> /\ prejoin[n] = "dialing"
    BY <1>2 DEF subscribe, dropping, history
  <2>1. CASE \E t \in Subscribed[n] \ subs : subs' = subs \cup {t} /\ UNCHANGED prejoin
    <3> SUFFICES ASSUME ~late PROVE OwnedInv'
      BY <2>0 DEF OwnedInv
    <3>1. PICK t \in Subscribed[n] : subs' = subs \cup {t} /\ UNCHANGED prejoin
      BY <2>1
    <3>2. drop[n] = "no"
      BY <2>0, JoiningUndropped
    <3>3. OwnsTopic(n, t)'
      BY <1>0, <2>0, <3>1, <3>2 DEF OwnsTopic
    <3>4. \A m \in Rounds : /\ \A u : OwnsTopic(m, u) => OwnsTopic(m, u)'
                            /\ \A p : OwnsPeer(m, p) => OwnsPeer(m, p)'
      BY <1>0, <2>0, <3>1 DEF OwnsTopic, OwnsPeer
    <3> QED BY <2>0, <3>1, <3>3, <3>4 DEF OwnedInv
  <2>2. CASE prejoin' = [prejoin EXCEPT ![n] = "done"] /\ UNCHANGED subs
    BY <1>0, <2>0, <2>2, OwnersStay DEF CInv, TypeInv
  <2> QED BY <1>2, <2>1, <2>2 DEF subscribe
<1>3. ASSUME NEW n \in Rounds, dropTimer(n)
      PROVE  OwnedInv'
  <2>1. UNCHANGED <<prejoin, net, late>>
    BY <1>3 DEF dropTimer, history
  <2>2. CASE Snapshot(n)
    <3>1. Dropping(n)
      BY <1>3, <2>2 DEF dropTimer, Dropping
    <3> QED BY <2>1, <3>1, SnapshotOwned
  <2>3. CASE UNCHANGED dropping
    BY <1>0, <2>1, <2>3, OwnersStay DEF net, dropping
  <2> QED BY <1>3, <2>2, <2>3 DEF dropTimer
<1>4. ASSUME NEW s \in Slots, reapDrop(s)
      PROVE  OwnedInv'
  <2>1. RoundOf(s) \in Rounds
    BY Calendar
  <2>2. Dropping(RoundOf(s)) /\ UNCHANGED <<prejoin, net, late>>
    BY <1>4 DEF reapDrop, Dropping, history
  <2> QED BY <2>1, <2>2, SnapshotOwned
<1>5. ASSUME NEW n \in Rounds, release(n)
      PROVE  OwnedInv'
  BY <1>5, ReleaseOwned
<1>6. CASE /\ UNCHANGED <<net, dropping>> /\ (late => late')
           /\ \A n \in Rounds : prejoin'[n] = "no" => prejoin[n] = "no"
  BY <1>0, <1>6, OwnersStay DEF net, dropping
<1>7. CASE \/ \E n \in Rounds : \E timer \in {"vote", "agg", "seal"} : fire(n, timer)
           \/ \E s \in Slots : reapFinality(s) \/ reaped(s)
           \/ Tick \/ UNCHANGED vars
  <2>1. late => late'
    BY <1>7, Zenon DEF fire, reapFinality, reaped, Tick, vars, history
  <2>2. UNCHANGED <<net, dropping, prejoin>>
    BY <1>7 DEF fire, reapFinality, reaped, Tick, vars, net, dropping
  <2> QED BY <1>6, <2>1, <2>2
<1>8. CASE round0Warmup \/ \E n \in Rounds : register(n) \/ join(n)
  <2>1. UNCHANGED <<net, dropping, late>>
    BY <1>8, Zenon DEF round0Warmup, register, join, history
  <2>2. \A m \in Rounds : prejoin'[m] = "no" => prejoin[m] = "no"
    BY <1>8 DEF round0Warmup, register, join, CInv, TypeInv
  <2> QED BY <1>6, <2>1, <2>2
<1>9. CASE \E s \in Slots : setupSlot(s) \/ armFinality(s)
  <2>1. UNCHANGED <<net, dropping, late>>
    BY <1>9, Zenon DEF setupSlot, armFinality, history
  <2>2. \A m \in Rounds : prejoin'[m] = "no" => prejoin[m] = "no"
    BY <1>9 DEF setupSlot, armFinality, Spawned
  <2> QED BY <1>6, <2>1, <2>2
<1> QED BY <1>1, <1>2, <1>3, <1>4, <1>5, <1>7, <1>8, <1>9, Steps

\* prejoinFinality, dropFinality and reapFinality together: while every pre-join
\* is through when its round starts, every foreign subscription and every extra
\* connection belongs to a round whose drop is not through.
THEOREM RoundsDoNotLeak == Spec => []NothingLeaks
<1>1. Init => DropInv /\ PromptInv /\ OwnedInv
  <2> SUFFICES ASSUME Init PROVE DropInv /\ PromptInv /\ OwnedInv
    OBVIOUS
  <2>1. CInv
    BY InitCInv
  <2>2. \A n \in Rounds : now <= RoundStart(n)
    BY <2>1, Calendar DEF Init
  <2> QED BY <2>1, <2>2, Calendar DEF Init, DropInv, PromptInv, OwnedInv
<1>2. CInv /\ CInv' /\ DropInv /\ PromptInv /\ OwnedInv /\ [Next]_vars
      => DropInv' /\ PromptInv' /\ OwnedInv'
  BY NextDrop, NextPrompt, NextOwned
<1>3. CInv /\ OwnedInv => NothingLeaks
  BY DEF OwnedInv, OwnsTopic, OwnsPeer, NothingLeaks
<1> QED BY <1>1, <1>2, <1>3, CInvHolds, PTL DEF Spec, Safety
=============================================================================
