--------------------------- MODULE BackendsProofs ---------------------------
(***************************************************************************)
(* What frames the slots, proved for every instance.  First the life of a  *)
(* run, for any number of nodes and slots: under Shadow nothing but the    *)
(* clock holds the hosts together, and the frame stands as long as the     *)
(* slowest bring-up is over a settle time before the slots start (InTime). *)
(* Then the way of a configuration to the node runners (RunConfig, here    *)
(* Conf), and the record, for every fleet, program and deadline (Recorder, *)
(* here Rec).                                                              *)
(***************************************************************************)
EXTENDS Backends, Sequences, FiniteSetTheorems, WellFoundedInduction, TLAPS

\* The instant by which a host under Shadow is in its topics.
UpBy == (DialJitter - 1) + MaxDial + (MeshJoinStagger - 1)

\* Under Shadow -startup leaves room for the slowest bring-up and the settle time.
InTime == "shadow" \in Backends => UpBy < Startup /\ UpBy + Settle <= Startup

BringingUp == {"start", "pause", "dialing", "stagger"}
Joined     == {"run", "drain", "closed", "killed"}
Finished   == {"drain", "ended", "closed", "killed"}
Instant    == Nat \cup {-1}

\* The types of the variables, and which states belong to which backend.
TypeInv ==
  /\ backend \in Backends /\ now \in Nat
  /\ pc \in [Nodes -> IF backend = "shadow" THEN BringingUp \cup Joined \cup {"failed"}
                      ELSE {"start", "started", "dialed", "joined", "failed", "run", "ended", "closed"}]
  /\ wake \in [Nodes -> Nat]
  /\ runStart \in [Nodes -> Instant] /\ slot \in [Nodes -> 0 .. NumSlots]
  /\ driver \in IF backend = "shadow" THEN {"none", "stopped"}
                ELSE {"start", "connect", "join", "settle", "run", "drain", "aborted"}
  /\ todo \subseteq Nodes /\ dwake \in Nat
  /\ joinedAt \in [Nodes -> Instant] /\ endedAt \in [Nodes -> Instant]
  /\ closedAt \in [Nodes -> Instant] /\ begunAt \in [Nodes -> [Slots -> Instant]]

\* A slot begins at its instant of the node's clock, and the last one ends so.
RunInv ==
  \A n \in Nodes :
    /\ pc[n] = "run" => runStart[n] >= 0 /\ now <= SlotStart(n)
    /\ pc[n] \in Finished =>
         runStart[n] >= 0 /\ endedAt[n] = runStart[n] + NumSlots * SlotDur /\ endedAt[n] <= now
    /\ runStart[n] = -1 => slot[n] = 0
    /\ \A s \in Slots :
         begunAt[n][s] = IF s < slot[n] THEN runStart[n] + s * SlotDur ELSE -1

\* A host under Shadow is up in time, and takes the common origin.
HostInv ==
  backend = "shadow" =>
    \A n \in Nodes :
      /\ pc[n] = "start" => now = 0
      /\ pc[n] = "pause" => now <= wake[n] /\ wake[n] <= DialJitter - 1
      /\ pc[n] = "dialing" => now <= wake[n] /\ wake[n] <= (DialJitter - 1) + MaxDial
      /\ pc[n] = "stagger" => now <= wake[n] /\ wake[n] <= UpBy
      /\ IF pc[n] \in Joined THEN joinedAt[n] \in 0 .. UpBy /\ runStart[n] = Startup
                             ELSE runStart[n] = -1
      /\ pc[n] = "drain" => wake[n] = endedAt[n] + DrainWindow
      /\ IF pc[n] = "closed" THEN closedAt[n] = endedAt[n] + DrainWindow /\ closedAt[n] <= now
                             ELSE closedAt[n] = -1

\* On simnet the driver takes the nodes through the run together.
DriverInv ==
  backend = "simnet" =>
    /\ driver \in {"start", "connect", "join", "settle", "aborted"} =>
         \A n \in Nodes :
           runStart[n] = -1 /\ pc[n] \notin {"run", "ended", "closed"}
    /\ driver = "join" => \A n \in Nodes \ todo : joinedAt[n] \in 0 .. now
    /\ driver = "settle" =>
         \A n \in Nodes : joinedAt[n] >= 0 /\ joinedAt[n] + Settle <= dwake /\ now <= dwake
    /\ driver \in {"run", "drain"} =>
         \A n, m \in Nodes :
           /\ runStart[n] = runStart[m] /\ runStart[n] >= 0
           /\ joinedAt[n] >= 0 /\ joinedAt[n] + Settle <= runStart[m]
    /\ driver = "run" => \A n \in Nodes : pc[n] \in {"run", "ended"}
    /\ IF driver = "drain"
       THEN \A n \in Nodes : /\ pc[n] \in {"ended", "closed"} /\ endedAt[n] + SlotDur <= dwake
                             /\ closedAt[n] \in {-1, dwake}
       ELSE \A n \in Nodes : closedAt[n] = -1

\* No slot begins in the future.
BegunInv == \A n \in Nodes, s \in Slots : begunAt[n][s] <= now

IInv == TypeInv /\ BegunInv /\ RunInv /\ HostInv /\ DriverInv

-----------------------------------------------------------------------------
(* The operators.                                                          *)

\* The constants are natural numbers.
LEMMA Constants ==
  /\ N \in Nat /\ DialJitter \in Nat /\ MeshJoinStagger \in Nat /\ SlotDur \in Nat
  /\ NumSlots \in Nat /\ DrainWindow \in Nat /\ Minute \in Nat /\ Startup \in Nat
  /\ Settle \in Nat /\ MaxDial \in Nat /\ StopMargin \in Nat /\ StopMinutes \in Nat
  /\ DialJitter > 0 /\ MeshJoinStagger > 0 /\ SlotDur > 0 /\ NumSlots > 0
  /\ DrainWindow > 0 /\ Minute > 0 /\ Backends \subseteq {"shadow", "simnet"}
  /\ UpBy \in Nat /\ NumSlots * SlotDur \in Nat /\ 0 \in Slots
<1>1. /\ N \in Nat /\ DialJitter \in Nat /\ MeshJoinStagger \in Nat /\ SlotDur \in Nat
      /\ NumSlots \in Nat /\ DrainWindow \in Nat /\ Minute \in Nat
      /\ DialJitter # 0 /\ MeshJoinStagger # 0 /\ SlotDur # 0 /\ NumSlots # 0
      /\ DrainWindow # 0 /\ Minute # 0
  BY LifecycleConstants
<1>2. /\ Startup \in Nat /\ Settle \in Nat /\ MaxDial \in Nat /\ StopMargin \in Nat
      /\ StopMinutes \in Nat /\ Backends \subseteq {"shadow", "simnet"}
  BY LifecycleConstants
<1>3. NumSlots * SlotDur \in Nat
  BY <1>1
<1> QED BY <1>1, <1>2, <1>3 DEF UpBy, Slots

\* stop_time lies after the end of the last slot.
LEMMA StopsLate == StopTime \in Nat /\ StopTime > Startup + NumSlots * SlotDur
<1> DEFINE needed == Startup + NumSlots * SlotDur + SlotDur + StopMargin
           up == (needed + Minute - 1) \div Minute
           top == Max({StopMinutes, up})
<1>1. needed \in Nat /\ needed > Startup + NumSlots * SlotDur
  BY Constants
<1> HIDE DEF needed
<1>2. up \in Nat /\ up * Minute \in Nat /\ up * Minute >= needed
  <2> DEFINE x == needed + Minute - 1
  <2>1. x \in Nat
    BY <1>1, Constants
  <2>2. x - needed = Minute - 1
    BY <1>1, Constants
  <2> HIDE DEF x
  <2>3. x = (x \div Minute) * Minute + (x % Minute) /\ x % Minute \in 0 .. (Minute - 1)
        /\ x \div Minute \in Nat
    BY <2>1, Constants
  <2> DEFINE q == x \div Minute
  <2>4. q \in Nat /\ q * Minute \in Nat
    BY <2>3, Constants
  <2>5. up = q
    BY DEF x
  <2> HIDE DEF up
  <2>6. q * Minute >= needed
    BY <1>1, <2>1, <2>2, <2>3, <2>4, Constants
  <2> QED BY <2>4, <2>5, <2>6
<1> HIDE DEF up
<1>3. top \in Nat /\ top >= up
  <2>1. \E x \in {StopMinutes, up} : \A y \in {StopMinutes, up} : x >= y
    BY <1>2, Constants
  <2>2. top \in {StopMinutes, up} /\ \A y \in {StopMinutes, up} : top >= y
    BY <2>1 DEF Max
  <2> QED BY <1>2, <2>2, Constants
<1> HIDE DEF top
<1>4. top * Minute \in Nat /\ top * Minute >= up * Minute
  BY <1>2, <1>3, Constants
<1>5. StopTime = top * Minute
  BY DEF StopTime, needed, up, top
<1> QED BY <1>1, <1>2, <1>4, <1>5, Constants

\* Slot by slot, no slot starts after the end of the last.
LEMMA SlotTimes ==
  ASSUME TypeInv
  PROVE  /\ \A s \in 0 .. NumSlots : /\ s * SlotDur \in Nat /\ (s + 1) * SlotDur = s * SlotDur + SlotDur
                                     /\ s * SlotDur <= NumSlots * SlotDur
         /\ \A n \in Nodes : runStart[n] >= 0 =>
              SlotStart(n) \in Nat /\ SlotStart(n) <= runStart[n] + NumSlots * SlotDur
<1>1. \A s \in 0 .. NumSlots : /\ s * SlotDur \in Nat /\ (s + 1) * SlotDur = s * SlotDur + SlotDur
                               /\ s * SlotDur <= NumSlots * SlotDur
  BY Constants
<1>2. \A n \in Nodes : slot[n] \in 0 .. NumSlots /\ runStart[n] \in Instant
  BY DEF TypeInv
<1> QED BY <1>1, <1>2, Constants DEF SlotStart, Instant

-----------------------------------------------------------------------------
(* The invariant.                                                          *)

\* No host is up and nothing has begun at first.
LEMMA InitIInv == Init => IInv
<1> SUFFICES ASSUME Init PROVE IInv
  OBVIOUS
<1>1. TypeInv
  BY Constants DEF Init, TypeInv, Instant, BringingUp
<1>2. RunInv
  BY Constants DEF Init, RunInv, Finished, Slots
<1>3. HostInv
  BY Constants DEF Init, HostInv, Joined
<1>4. DriverInv
  BY Constants DEF Init, DriverInv
<1>5. BegunInv
  BY DEF Init, BegunInv
<1> QED BY <1>1, <1>2, <1>3, <1>4, <1>5 DEF IInv

\* Every step keeps the types and the states of the backends apart.
LEMMA NextType == TypeInv /\ [Next]_vars => TypeInv'
<1> SUFFICES ASSUME TypeInv, [Next]_vars PROVE TypeInv'
  OBVIOUS
<1> USE Constants DEF TypeInv, runner, dvars, history
<1>1. ASSUME NEW n \in Nodes, hostStart(n) \/ hostConnect(n) \/ hostStagger(n)
      PROVE  TypeInv'
  <2>1. wake' \in [Nodes -> Nat]
    BY <1>1 DEF hostStart, hostConnect, hostStagger
  <2> QED BY <1>1, <2>1 DEF hostStart, hostConnect, hostStagger, BringingUp
<1>2. ASSUME NEW n \in Nodes, hostJoin(n)
      PROVE  TypeInv'
  <2>1. Origin \in Instant /\ now \in Instant
    BY DEF Instant, Origin
  <2>2. joinedAt' \in [Nodes -> Instant] /\ runStart' \in [Nodes -> Instant]
    <3>1. \/ /\ joinedAt' = [joinedAt EXCEPT ![n] = now]
             /\ runStart' = [runStart EXCEPT ![n] = Origin]
          \/ UNCHANGED <<joinedAt, runStart>>
      BY <1>2 DEF hostJoin
    <3>2. joinedAt \in [Nodes -> Instant] /\ runStart \in [Nodes -> Instant]
      OBVIOUS
    <3> QED BY <2>1, <3>1, <3>2, ZenonT(60)
  <2> QED BY <1>2, <2>2 DEF hostJoin, Joined
<1>3. ASSUME NEW n \in Nodes, hostClose(n)
      PROVE  TypeInv'
  BY <1>3 DEF hostClose, Joined, Instant
<1>4. ASSUME NEW n \in Nodes, beginSlot(n)
      PROVE  TypeInv'
  <2>1. slot[n] \in Slots /\ slot[n] + 1 \in 0 .. NumSlots
    BY <1>4 DEF beginSlot, Slots
  <2>2. slot' \in [Nodes -> 0 .. NumSlots]
    BY <1>4, <2>1 DEF beginSlot
  <2>3. begunAt' \in [Nodes -> [Slots -> Instant]]
    BY <1>4, <2>1 DEF beginSlot, Instant
  <2> QED BY <1>4, <2>2, <2>3 DEF beginSlot
<1>5. ASSUME NEW n \in Nodes, runEnds(n)
      PROVE  TypeInv'
  BY <1>5 DEF runEnds, Joined, Instant, DrainUntil
<1>6. CASE driverStart \/ driverSettle \/ driverConnect \/ driverJoin
  <2>1. CASE driverStart
    BY <2>1 DEF driverStart
  <2>2. CASE driverSettle
    BY <2>2 DEF driverSettle
  <2>3. CASE driverConnect
    <3>1. dwake' \in Nat
      BY <2>3 DEF driverConnect
    <3>2. backend = "simnet"
      BY <2>3 DEF driverConnect
    <3>3. pc' \in [Nodes -> {"start", "started", "dialed", "joined", "failed", "run", "ended", "closed"}]
      BY <2>3, <3>2 DEF driverConnect
    <3> QED BY <2>3, <3>1, <3>2, <3>3 DEF driverConnect
  <2>4. CASE driverJoin
    BY <2>4 DEF driverJoin
  <2> QED BY <1>6, <2>1, <2>2, <2>3, <2>4
<1>7. CASE joinTopics \/ driverPrepare
  <2>1. CASE joinTopics
    <3>1. backend = "simnet"
      BY <2>1 DEF joinTopics
    <3>2. pc' \in [Nodes -> {"start", "started", "dialed", "joined", "failed", "run", "ended", "closed"}]
      BY <2>1, <3>1 DEF joinTopics
    <3>3. joinedAt' \in [Nodes -> Instant]
      BY <2>1 DEF joinTopics, Instant
    <3> QED BY <2>1, <3>1, <3>2, <3>3 DEF joinTopics
  <2>2. CASE driverPrepare
    BY <2>2 DEF driverPrepare, MeshSettle
  <2> QED BY <1>7, <2>1, <2>2
<1>8. CASE driverRun
  BY <1>8 DEF driverRun, Instant
<1>9. CASE driverDrain \/ driverClose
  <2>1. CASE driverDrain
    BY <2>1 DEF driverDrain, Instant
  <2>2. CASE driverClose
    BY <2>2 DEF driverClose, Instant
  <2> QED BY <1>9, <2>1, <2>2
<1>10. CASE Stop
  BY <1>10 DEF Stop, Joined
<1>11. CASE Tick
  BY <1>11 DEF Tick
<1>12. CASE UNCHANGED vars
  BY <1>12 DEF vars
<1> QED
  BY <1>1, <1>2, <1>3, <1>4, <1>5, <1>6, <1>7, <1>8, <1>9, <1>10, <1>11, <1>12
  DEF Next, Host, Driver

\* Every step begins slots at the present instant.
LEMMA NextBegun == IInv /\ [Next]_vars => BegunInv'
<1> SUFFICES ASSUME IInv, [Next]_vars PROVE BegunInv'
  OBVIOUS
<1>0. BegunInv /\ now \in Nat /\ begunAt \in [Nodes -> [Slots -> Instant]]
  BY DEF IInv, TypeInv
<1>1. ASSUME NEW n \in Nodes, beginSlot(n)
      PROVE  BegunInv'
  <2>1. now' = now /\ begunAt' = [begunAt EXCEPT ![n][slot[n]] = now]
    BY <1>1 DEF beginSlot
  <2>2. \A m \in Nodes, s \in Slots : begunAt'[m][s] = begunAt[m][s] \/ begunAt'[m][s] = now
    BY <1>0, <2>1
  <2> QED BY <1>0, <2>1, <2>2 DEF BegunInv
<1>2. CASE Tick
  BY <1>0, <1>2 DEF Tick, BegunInv, Instant, history
<1>3. CASE UNCHANGED <<now, begunAt>>
  BY <1>0, <1>3 DEF BegunInv
<1>4. CASE \/ \E n \in Nodes : \/ hostStart(n) \/ hostConnect(n) \/ hostStagger(n) \/ hostJoin(n)
                               \/ hostClose(n) \/ runEnds(n)
           \/ Driver \/ Stop \/ UNCHANGED vars
  <2>1. UNCHANGED <<now, begunAt>>
    BY <1>4 DEF hostStart, hostConnect, hostStagger, hostJoin, hostClose, runEnds, Driver,
       driverStart, driverSettle, driverConnect, driverJoin, joinTopics, driverPrepare, driverRun,
       driverDrain, driverClose, Stop, vars, history
  <2> QED BY <1>3, <2>1
<1> QED BY <1>1, <1>2, <1>4 DEF Next, Host

\* stop_time finds no host before the end of its run.
LEMMA StopKillsDrains ==
  ASSUME InTime, IInv, Stop, NEW n \in Nodes
  PROVE  /\ pc[n] \in Finished \cup {"failed"}
         /\ pc'[n] = (IF pc[n] = "drain" THEN "killed" ELSE pc[n])
<1> USE Constants, StopsLate
<1>1. backend = "shadow" /\ now = StopTime /\ now \in Nat
  BY DEF Stop, IInv, TypeInv
<1>2. pc[n] \notin BringingUp
  <2>0. StopTime > Startup
    OBVIOUS
  <2>1. wake[n] \in Nat /\ now > UpBy /\ now > 0
    BY <1>1, <2>0 DEF InTime, IInv, TypeInv
  <2>2. (DialJitter - 1) + MaxDial <= UpBy /\ DialJitter - 1 <= UpBy
    BY DEF UpBy
  <2> QED BY <1>1, <2>1, <2>2 DEF IInv, HostInv, BringingUp
<1>3. pc[n] # "run"
  <2>1. ASSUME pc[n] = "run" PROVE FALSE
    <3>1. runStart[n] = Startup /\ now <= SlotStart(n)
      BY <1>1, <2>1 DEF IInv, HostInv, RunInv, Joined
    <3>2. SlotStart(n) \in Nat /\ SlotStart(n) <= Startup + NumSlots * SlotDur
      BY <3>1, SlotTimes DEF IInv
    <3> QED BY <1>1, <3>1, <3>2
  <2> QED BY <2>1
<1>4. pc[n] \in {"drain", "closed", "killed", "failed"}
  BY <1>1, <1>2, <1>3 DEF IInv, TypeInv, BringingUp, Joined
<1> QED BY <1>4 DEF Stop, Finished

\* A slot that is due is due now.
LEMMA SlotDueNow ==
  ASSUME IInv, NEW n \in Nodes, pc[n] = "run", now >= SlotStart(n)
  PROVE  now = SlotStart(n) /\ runStart[n] \in Nat
<1>1. /\ runStart[n] >= 0 /\ now <= SlotStart(n) /\ now \in Nat
      /\ runStart[n] \in Nat \cup {-1}
  BY DEF IInv, RunInv, TypeInv, Instant
<1>2. SlotStart(n) \in Nat
  BY <1>1, SlotTimes DEF IInv
<1> QED BY <1>1, <1>2

\* Every step keeps the slots on the clocks of their nodes.
LEMMA NextRun ==
  ASSUME InTime, IInv, TypeInv', [Next]_vars
  PROVE  RunInv'
<1> USE Constants DEF IInv, runner, dvars, history
<1>0. RunInv /\ TypeInv
  OBVIOUS
<1>1. ASSUME UNCHANGED <<runStart, slot, begunAt, endedAt>>, now' \in {now, now + 1},
             \A n \in Nodes :
               /\ pc'[n] = "run" => pc[n] = "run"
               /\ pc'[n] = "run" /\ now' # now => ~(now >= SlotStart(n))
               /\ pc'[n] \in Finished => pc[n] \in Finished
      PROVE  RunInv'
  <2>1. \A n \in Nodes : SlotStart(n)' = SlotStart(n)
    BY <1>1 DEF SlotStart
  <2>2. ASSUME NEW n \in Nodes, pc'[n] = "run"
        PROVE  runStart[n] >= 0 /\ now' <= SlotStart(n)
    <3>1. runStart[n] >= 0 /\ now <= SlotStart(n)
      BY <1>1, <2>2 DEF RunInv
    <3>2. SlotStart(n) \in Nat
      BY <3>1, SlotTimes
    <3> QED BY <1>1, <2>2, <3>1, <3>2 DEF TypeInv
  <2>3. ASSUME NEW n \in Nodes, pc'[n] \in Finished
        PROVE  runStart[n] >= 0 /\ endedAt[n] = runStart[n] + NumSlots * SlotDur /\ endedAt[n] <= now'
    <3>1. /\ runStart[n] >= 0 /\ endedAt[n] = runStart[n] + NumSlots * SlotDur
          /\ endedAt[n] <= now
      BY <1>1, <2>3 DEF RunInv
    <3>2. endedAt[n] \in Instant /\ now \in Nat
      BY DEF TypeInv
    <3> QED BY <1>1, <3>1, <3>2 DEF Instant
  <2> QED BY <1>1, <2>1, <2>2, <2>3 DEF RunInv
<1>2. ASSUME NEW n \in Nodes,
             hostStart(n) \/ hostConnect(n) \/ hostStagger(n) \/ hostClose(n)
      PROVE  RunInv'
  <2>1. UNCHANGED <<runStart, slot, begunAt, endedAt, now>>
    BY <1>2 DEF hostStart, hostConnect, hostStagger, hostClose
  <2>2. \A m \in Nodes : /\ pc'[m] = "run" => pc[m] = "run"
                         /\ pc'[m] \in Finished => pc[m] \in Finished
    BY <1>2 DEF hostStart, hostConnect, hostStagger, hostClose, TypeInv, Finished
  <2> QED BY <1>1, <2>1, <2>2
<1>3. ASSUME NEW n \in Nodes, hostJoin(n)
      PROVE  RunInv'
  <2>0. /\ UNCHANGED <<now, slot, begunAt, endedAt>> /\ backend = "shadow" /\ pc[n] = "stagger"
        /\ now = wake[n]
    BY <1>3 DEF hostJoin
  <2>1. CASE /\ pc' = [pc EXCEPT ![n] = "run"] /\ runStart' = [runStart EXCEPT ![n] = Origin]
    <3>1. runStart[n] = -1 /\ now < Startup
      <4>1. runStart[n] = -1 /\ wake[n] <= UpBy /\ wake[n] \in Nat
        BY <2>0 DEF HostInv, Joined, TypeInv
      <4> QED BY <2>0, <4>1 DEF InTime, TypeInv
    <3>2. slot[n] = 0 /\ \A s \in Slots : begunAt[n][s] = -1 /\ s \in Nat
      BY <3>1 DEF RunInv, Slots
    <3>3. runStart'[n] = Startup /\ pc'[n] = "run" /\ SlotStart(n)' = Startup
      BY <2>0, <2>1, <3>2 DEF Origin, SlotStart, TypeInv
    <3>4. \A m \in Nodes : m # n => /\ pc'[m] = pc[m] /\ runStart'[m] = runStart[m]
                                    /\ SlotStart(m)' = SlotStart(m)
      BY <2>0, <2>1 DEF SlotStart, TypeInv
    <3>5. ASSUME NEW m \in Nodes, m # n
          PROVE  /\ pc'[m] = "run" => runStart'[m] >= 0 /\ now' <= SlotStart(m)'
                 /\ pc'[m] \in Finished =>
                      /\ runStart'[m] >= 0 /\ endedAt'[m] = runStart'[m] + NumSlots * SlotDur
                      /\ endedAt'[m] <= now'
                 /\ runStart'[m] = -1 => slot'[m] = 0
                 /\ \A s \in Slots :
                      begunAt'[m][s] = IF s < slot'[m] THEN runStart'[m] + s * SlotDur ELSE -1
      BY <2>0, <3>4, <3>5 DEF RunInv
    <3>6. /\ runStart'[n] >= 0 /\ now' <= SlotStart(n)' /\ pc'[n] \notin Finished /\ runStart'[n] # -1
          /\ \A s \in Slots :
               begunAt'[n][s] = IF s < slot'[n] THEN runStart'[n] + s * SlotDur ELSE -1
      BY <2>0, <3>1, <3>2, <3>3 DEF Finished, TypeInv
    <3> QED BY <3>5, <3>6 DEF RunInv
  <2>2. CASE pc' = [pc EXCEPT ![n] = "failed"] /\ UNCHANGED runStart
    <3>1. \A m \in Nodes : /\ pc'[m] = "run" => pc[m] = "run"
                           /\ pc'[m] \in Finished => pc[m] \in Finished
      BY <2>2 DEF TypeInv, Finished
    <3> QED BY <1>1, <2>0, <2>2, <3>1
  <2> QED BY <1>3, <2>1, <2>2 DEF hostJoin
<1>4. ASSUME NEW n \in Nodes, beginSlot(n)
      PROVE  RunInv'
  <2>0. /\ pc[n] = "run" /\ slot[n] < NumSlots /\ now >= SlotStart(n)
        /\ slot' = [slot EXCEPT ![n] = @ + 1]
        /\ begunAt' = [begunAt EXCEPT ![n][slot[n]] = now]
        /\ UNCHANGED <<now, pc, runStart, endedAt>>
    BY <1>4 DEF beginSlot
  <2>1. /\ runStart[n] \in Nat /\ slot[n] \in Slots /\ slot[n] \in Nat /\ now = SlotStart(n)
        /\ slot[n] \in 0 .. NumSlots
    <3>1. runStart[n] \in Nat /\ now = SlotStart(n)
      BY <2>0, SlotDueNow
    <3>2. slot[n] \in 0 .. NumSlots
      BY DEF TypeInv
    <3> QED BY <2>0, <3>1, <3>2 DEF Slots
  <2>2. /\ slot'[n] = slot[n] + 1 /\ begunAt'[n][slot[n]] = now
        /\ \A s \in Slots : s # slot[n] => begunAt'[n][s] = begunAt[n][s]
        /\ \A m \in Nodes : m # n => slot'[m] = slot[m] /\ begunAt'[m] = begunAt[m]
    BY <2>0, <2>1 DEF TypeInv
  <2>3. now = runStart[n] + slot[n] * SlotDur
    BY <2>1 DEF SlotStart
  <2>4. SlotStart(n)' = runStart[n] + (slot[n] + 1) * SlotDur
    BY <2>0, <2>2 DEF SlotStart
  <2>5. now <= SlotStart(n)'
    <3>1. (slot[n] + 1) * SlotDur = slot[n] * SlotDur + SlotDur /\ slot[n] * SlotDur \in Nat
      BY <2>1, SlotTimes
    <3> QED BY <2>1, <2>3, <2>4, <3>1
  <2>6. \A s \in Slots :
          begunAt'[n][s] = IF s < slot'[n] THEN runStart'[n] + s * SlotDur ELSE -1
    <3> SUFFICES ASSUME NEW s \in Slots
                 PROVE  begunAt'[n][s] = IF s < slot'[n] THEN runStart'[n] + s * SlotDur ELSE -1
      OBVIOUS
    <3>1. s \in Nat /\ begunAt[n][s] = IF s < slot[n] THEN runStart[n] + s * SlotDur ELSE -1
      BY DEF RunInv, Slots
    <3>2. CASE s = slot[n]
      BY <2>0, <2>1, <2>2, <2>3, <3>2
    <3>3. CASE s # slot[n]
      <4>1. (s < slot'[n]) <=> (s < slot[n])
        BY <2>1, <2>2, <3>1, <3>3
      <4> QED BY <2>0, <2>2, <3>1, <3>3, <4>1
    <3> QED BY <3>2, <3>3
  <2>7. \A m \in Nodes : m # n => SlotStart(m)' = SlotStart(m)
    BY <2>0, <2>2 DEF SlotStart
  <2>8. ASSUME NEW m \in Nodes, m # n
        PROVE  /\ pc'[m] = "run" => runStart'[m] >= 0 /\ now' <= SlotStart(m)'
               /\ pc'[m] \in Finished =>
                    /\ runStart'[m] >= 0 /\ endedAt'[m] = runStart'[m] + NumSlots * SlotDur
                    /\ endedAt'[m] <= now'
               /\ runStart'[m] = -1 => slot'[m] = 0
               /\ \A s \in Slots :
                    begunAt'[m][s] = IF s < slot'[m] THEN runStart'[m] + s * SlotDur ELSE -1
    BY <2>0, <2>2, <2>7, <2>8 DEF RunInv
  <2>9. /\ runStart'[n] >= 0 /\ now' <= SlotStart(n)' /\ pc'[n] \notin Finished /\ runStart'[n] # -1
    BY <2>0, <2>1, <2>5 DEF Finished
  <2> QED BY <2>6, <2>8, <2>9 DEF RunInv
<1>5. ASSUME NEW n \in Nodes, runEnds(n)
      PROVE  RunInv'
  <2>0. /\ pc[n] = "run" /\ slot[n] = NumSlots /\ now >= SlotStart(n)
        /\ endedAt' = [endedAt EXCEPT ![n] = now]
        /\ pc' = [pc EXCEPT ![n] = IF backend = "shadow" THEN "drain" ELSE "ended"]
        /\ UNCHANGED <<now, slot, runStart, begunAt>>
    BY <1>5 DEF runEnds
  <2>1. runStart[n] >= 0 /\ now <= SlotStart(n) /\ SlotStart(n) = runStart[n] + NumSlots * SlotDur
    BY <2>0 DEF RunInv, SlotStart
  <2>2. now = runStart[n] + NumSlots * SlotDur
    <3>1. now = SlotStart(n)
      BY <2>0, SlotDueNow
    <3> QED BY <2>1, <3>1
  <2>3. endedAt'[n] = now /\ pc'[n] # "run"
        /\ \A m \in Nodes : m # n => pc'[m] = pc[m] /\ endedAt'[m] = endedAt[m]
    BY <2>0 DEF TypeInv
  <2>4. \A m \in Nodes : SlotStart(m)' = SlotStart(m)
    BY <2>0 DEF SlotStart
  <2>5. now <= now
    BY DEF TypeInv
  <2> QED BY <2>0, <2>1, <2>2, <2>3, <2>4, <2>5 DEF RunInv
<1>6. CASE driverStart \/ driverSettle \/ driverConnect \/ driverJoin \/ joinTopics \/ driverPrepare
  <2>1. UNCHANGED <<runStart, slot, begunAt, endedAt, now>>
    BY <1>6 DEF driverStart, driverSettle, driverConnect, driverJoin, joinTopics, driverPrepare
  <2>2. \A m \in Nodes : /\ pc'[m] = "run" => pc[m] = "run"
                         /\ pc'[m] \in Finished => pc[m] \in Finished
    BY <1>6 DEF driverStart, driverSettle, driverConnect, driverJoin, joinTopics, driverPrepare,
       TypeInv, Finished
  <2> QED BY <1>1, <2>1, <2>2
<1>7. CASE driverRun
  <2>0. /\ driver = "settle" /\ pc' = [n \in Nodes |-> "run"] /\ runStart' = [n \in Nodes |-> now]
        /\ UNCHANGED <<now, slot, begunAt, endedAt>>
    BY <1>7 DEF driverRun
  <2>1. backend = "simnet"
    BY <2>0 DEF TypeInv
  <2>2. \A n \in Nodes : runStart[n] = -1
    BY <2>0, <2>1 DEF DriverInv
  <2>3. \A n \in Nodes : slot[n] = 0 /\ \A s \in Slots : begunAt[n][s] = -1 /\ s \in Nat
    BY <2>2 DEF RunInv, Slots
  <2>4. \A n \in Nodes : SlotStart(n)' = now
    BY <2>0, <2>3 DEF SlotStart, TypeInv
  <2> QED BY <2>0, <2>3, <2>4 DEF RunInv, TypeInv, Finished
<1>8. CASE driverDrain \/ driverClose
  <2>1. UNCHANGED <<runStart, slot, begunAt, endedAt, now>>
    BY <1>8 DEF driverDrain, driverClose
  <2>2. backend = "simnet"
    BY <1>8 DEF driverDrain, driverClose, TypeInv
  <2>3. driver = "drain" => \A m \in Nodes : pc[m] \in Finished
    BY <2>2 DEF DriverInv, Finished
  <2>4. \A m \in Nodes : /\ pc'[m] = "run" => pc[m] = "run"
                         /\ pc'[m] \in Finished => pc[m] \in Finished
    BY <1>8, <2>3 DEF driverDrain, driverClose, TypeInv
  <2> QED BY <1>1, <2>1, <2>4
<1>9. CASE Stop
  <2>1. UNCHANGED <<runStart, slot, begunAt, endedAt, now>>
    BY <1>9 DEF Stop
  <2>2. \A m \in Nodes : pc'[m] = "killed" => pc[m] \in Finished
    BY <1>9, StopKillsDrains
  <2>3. \A m \in Nodes : pc'[m] = pc[m] \/ pc'[m] = "killed"
    BY <1>9 DEF Stop
  <2> QED BY <1>1, <2>1, <2>2, <2>3
<1>10. CASE Tick
  <2>1. UNCHANGED <<runStart, slot, begunAt, endedAt, pc>> /\ now' = now + 1
    BY <1>10 DEF Tick
  <2>2. \A n \in Nodes : pc[n] = "run" => ~(now >= SlotStart(n))
    BY <1>10 DEF Tick, HostDue
  <2> QED BY <1>1, <2>1, <2>2
<1>11. CASE UNCHANGED vars
  BY <1>1, <1>11 DEF vars
<1> QED
  BY <1>2, <1>3, <1>4, <1>5, <1>6, <1>7, <1>8, <1>9, <1>10, <1>11 DEF Next, Host, Driver

\* Every step under Shadow keeps the hosts in time.
LEMMA NextHost ==
  ASSUME InTime, IInv, TypeInv', [Next]_vars
  PROVE  HostInv'
<1> SUFFICES ASSUME backend = "shadow" PROVE HostInv'
  <2>1. backend' = backend
    BY DEF Next, Host, Driver, hostStart, hostConnect, hostStagger, hostJoin, hostClose, beginSlot,
       runEnds, driverStart, driverSettle, driverConnect, driverJoin, joinTopics, driverPrepare,
       driverRun, driverDrain, driverClose, Stop, Tick, vars
  <2> QED BY <2>1 DEF HostInv
<1> USE Constants DEF IInv
<1>0. driver \in {"none", "stopped"} /\ HostInv /\ TypeInv /\ RunInv /\ now \in Nat
  BY DEF TypeInv
<1>1. ASSUME NEW n \in Nodes, UNCHANGED now,
             \A m \in Nodes : m # n => /\ pc'[m] = pc[m] /\ wake'[m] = wake[m]
                                       /\ joinedAt'[m] = joinedAt[m] /\ runStart'[m] = runStart[m]
                                       /\ endedAt'[m] = endedAt[m] /\ closedAt'[m] = closedAt[m],
             /\ pc'[n] = "start" => now' = 0
             /\ pc'[n] = "pause" => now' <= wake'[n] /\ wake'[n] <= DialJitter - 1
             /\ pc'[n] = "dialing" => now' <= wake'[n] /\ wake'[n] <= (DialJitter - 1) + MaxDial
             /\ pc'[n] = "stagger" => now' <= wake'[n] /\ wake'[n] <= UpBy
             /\ IF pc'[n] \in Joined THEN joinedAt'[n] \in 0 .. UpBy /\ runStart'[n] = Startup
                                     ELSE runStart'[n] = -1
             /\ pc'[n] = "drain" => wake'[n] = endedAt'[n] + DrainWindow
             /\ IF pc'[n] = "closed"
                THEN closedAt'[n] = endedAt'[n] + DrainWindow /\ closedAt'[n] <= now'
                ELSE closedAt'[n] = -1
      PROVE  HostInv'
  BY <1>0, <1>1 DEF HostInv
<1>2. ASSUME NEW n \in Nodes, hostStart(n)
      PROVE  HostInv'
  <2>1. /\ pc[n] = "start" /\ UNCHANGED <<now, joinedAt, runStart, endedAt, closedAt>>
        /\ \A m \in Nodes : m # n => pc'[m] = pc[m] /\ wake'[m] = wake[m]
        /\ pc'[n] = "failed" \/ (pc'[n] = "pause" /\ \E d \in 0 .. DialJitter - 1 : wake'[n] = now + d)
    BY <1>2 DEF hostStart, runner, history, TypeInv
  <2>2. now = 0 /\ runStart[n] = -1 /\ closedAt[n] = -1
    BY <1>0, <2>1 DEF HostInv, Joined
  <2>3. pc'[n] = "pause" => now <= wake'[n] /\ wake'[n] <= DialJitter - 1
    BY <2>1, <2>2
  <2> QED BY <1>1, <2>1, <2>2, <2>3 DEF Joined
<1>3. ASSUME NEW n \in Nodes, hostConnect(n)
      PROVE  HostInv'
  <2>1. /\ pc[n] = "pause" /\ wake[n] = now /\ UNCHANGED <<now, joinedAt, runStart, endedAt, closedAt>>
        /\ \A m \in Nodes : m # n => pc'[m] = pc[m] /\ wake'[m] = wake[m]
        /\ pc'[n] = "dialing" /\ \E d \in 0 .. MaxDial : wake'[n] = now + d
    BY <1>3 DEF hostConnect, runner, history, TypeInv
  <2>2. now <= DialJitter - 1 /\ runStart[n] = -1 /\ closedAt[n] = -1
    BY <1>0, <2>1 DEF HostInv, Joined
  <2>3. now <= wake'[n] /\ wake'[n] <= (DialJitter - 1) + MaxDial
    BY <1>0, <2>1, <2>2
  <2> QED BY <1>1, <2>1, <2>2, <2>3 DEF Joined
<1>4. ASSUME NEW n \in Nodes, hostStagger(n)
      PROVE  HostInv'
  <2>1. /\ pc[n] = "dialing" /\ wake[n] = now /\ UNCHANGED <<now, joinedAt, runStart, endedAt, closedAt>>
        /\ \A m \in Nodes : m # n => pc'[m] = pc[m] /\ wake'[m] = wake[m]
        /\ pc'[n] = "stagger" /\ \E d \in 0 .. MeshJoinStagger - 1 : wake'[n] = now + d
    BY <1>4 DEF hostStagger, runner, history, TypeInv
  <2>2. now <= (DialJitter - 1) + MaxDial /\ runStart[n] = -1 /\ closedAt[n] = -1
    BY <1>0, <2>1 DEF HostInv, Joined
  <2>3. now <= wake'[n] /\ wake'[n] <= UpBy
    BY <1>0, <2>1, <2>2 DEF UpBy
  <2> QED BY <1>1, <2>1, <2>2, <2>3 DEF Joined
<1>5. ASSUME NEW n \in Nodes, hostJoin(n)
      PROVE  HostInv'
  <2>1. /\ pc[n] = "stagger" /\ wake[n] = now /\ UNCHANGED <<now, wake, endedAt, closedAt>>
        /\ \A m \in Nodes : m # n => /\ pc'[m] = pc[m] /\ joinedAt'[m] = joinedAt[m]
                                     /\ runStart'[m] = runStart[m]
        /\ \/ pc'[n] = "failed" /\ runStart'[n] = runStart[n]
           \/ pc'[n] = "run" /\ joinedAt'[n] = now /\ runStart'[n] = Origin
    BY <1>5 DEF hostJoin, TypeInv
  <2>2. now <= UpBy /\ runStart[n] = -1 /\ closedAt[n] = -1
    BY <1>0, <2>1 DEF HostInv, Joined
  <2>3. now \in 0 .. UpBy /\ Origin = Startup
    BY <1>0, <2>2 DEF Origin
  <2> QED BY <1>1, <2>1, <2>2, <2>3 DEF Joined
<1>6. ASSUME NEW n \in Nodes, hostClose(n)
      PROVE  HostInv'
  <2>1. /\ pc[n] = "drain" /\ wake[n] = now /\ UNCHANGED <<now, wake, joinedAt, runStart, endedAt>>
        /\ pc'[n] = "closed" /\ closedAt'[n] = now
        /\ \A m \in Nodes : m # n => pc'[m] = pc[m] /\ closedAt'[m] = closedAt[m]
    BY <1>6 DEF hostClose, runner, TypeInv
  <2>2. now = endedAt[n] + DrainWindow /\ joinedAt[n] \in 0 .. UpBy /\ runStart[n] = Startup
    BY <1>0, <2>1 DEF HostInv, Joined
  <2>3. now <= now
    BY <1>0
  <2> QED BY <1>1, <2>1, <2>2, <2>3 DEF Joined
<1>7. ASSUME NEW n \in Nodes, beginSlot(n)
      PROVE  HostInv'
  <2>1. UNCHANGED <<backend, now, pc, wake, joinedAt, runStart, endedAt, closedAt>>
    BY <1>7 DEF beginSlot
  <2> QED BY <1>0, <2>1 DEF HostInv
<1>8. ASSUME NEW n \in Nodes, runEnds(n)
      PROVE  HostInv'
  <2>1. /\ pc[n] = "run" /\ UNCHANGED <<now, joinedAt, runStart, closedAt>>
        /\ pc'[n] = "drain" /\ endedAt'[n] = now /\ wake'[n] = now + DrainWindow
        /\ \A m \in Nodes : m # n => pc'[m] = pc[m] /\ wake'[m] = wake[m] /\ endedAt'[m] = endedAt[m]
    BY <1>8 DEF runEnds, runner, TypeInv, DrainUntil
  <2>2. joinedAt[n] \in 0 .. UpBy /\ runStart[n] = Startup /\ closedAt[n] = -1
    BY <1>0, <2>1 DEF HostInv, Joined
  <2> QED BY <1>1, <2>1, <2>2 DEF Joined
<1>9. CASE Driver
  BY <1>0, <1>9 DEF Driver, driverStart, driverSettle, driverConnect, driverJoin, joinTopics,
     driverPrepare, driverRun, driverDrain, driverClose
<1>10. CASE Stop
  <2>1. UNCHANGED <<backend, now, wake, joinedAt, runStart, endedAt, closedAt>>
    BY <1>10 DEF Stop, runner, history
  <2>2. \A n \in Nodes : pc'[n] = pc[n] \/ (pc[n] = "drain" /\ pc'[n] = "killed")
    BY <1>10, StopKillsDrains
  <2> QED BY <1>0, <2>1, <2>2 DEF HostInv, Joined
<1>11. CASE Tick
  <2>1. /\ now' = now + 1 /\ UNCHANGED <<backend, pc, wake, joinedAt, runStart, endedAt, closedAt>>
        /\ \A n \in Nodes : /\ pc[n] # "start"
                            /\ pc[n] \in {"pause", "dialing", "stagger"} => wake[n] # now
    BY <1>11 DEF Tick, HostDue, runner, history
  <2>2. \A n \in Nodes : wake[n] \in Nat /\ closedAt[n] \in Nat \cup {-1}
    BY <1>0 DEF TypeInv, Instant
  <2> QED BY <1>0, <2>1, <2>2 DEF HostInv
<1>12. CASE UNCHANGED vars
  BY <1>0, <1>12 DEF HostInv, vars
<1> QED
  BY <1>2, <1>3, <1>4, <1>5, <1>6, <1>7, <1>8, <1>9, <1>10, <1>11, <1>12 DEF Next, Host

\* Every step of simnet keeps the nodes together.
LEMMA NextDriver ==
  ASSUME InTime, IInv, TypeInv', [Next]_vars
  PROVE  DriverInv'
<1> SUFFICES ASSUME backend = "simnet" PROVE DriverInv'
  <2>1. backend' = backend
    BY DEF Next, Host, Driver, hostStart, hostConnect, hostStagger, hostJoin, hostClose, beginSlot,
       runEnds, driverStart, driverSettle, driverConnect, driverJoin, joinTopics, driverPrepare,
       driverRun, driverDrain, driverClose, Stop, Tick, vars
  <2> QED BY <2>1 DEF DriverInv
<1> USE Constants DEF IInv, runner, dvars, history
<1>0. driver \notin {"none", "stopped"} /\ DriverInv /\ TypeInv /\ RunInv /\ now \in Nat /\ dwake \in Nat
  BY DEF TypeInv
<1>1. ASSUME NEW n \in Nodes, beginSlot(n)
      PROVE  DriverInv'
  <2>1. UNCHANGED <<backend, now, pc, driver, todo, dwake, joinedAt, runStart, endedAt, closedAt>>
    BY <1>1 DEF beginSlot
  <2> QED BY <1>0, <2>1 DEF DriverInv
<1>2. ASSUME NEW n \in Nodes, runEnds(n)
      PROVE  DriverInv'
  <2>1. /\ UNCHANGED <<backend, now, driver, todo, dwake, joinedAt, runStart, closedAt>>
        /\ pc[n] = "run" /\ pc'[n] = "ended"
        /\ \A m \in Nodes : m # n => pc'[m] = pc[m]
    BY <1>2 DEF runEnds, TypeInv
  <2>2. driver = "run"
    BY <1>0, <2>1 DEF DriverInv, TypeInv
  <2> QED BY <1>0, <2>1, <2>2 DEF DriverInv
<1>3. CASE driverStart
  BY <1>0, <1>3 DEF driverStart, DriverInv, TypeInv
<1>4. CASE driverSettle \/ driverConnect
  BY <1>0, <1>4 DEF driverSettle, driverConnect, DriverInv, TypeInv
<1>5. CASE driverJoin
  BY <1>0, <1>5 DEF driverJoin, DriverInv
<1>6. CASE joinTopics
  BY <1>0, <1>6 DEF joinTopics, DriverInv, TypeInv
<1>7. CASE driverPrepare
  BY <1>0, <1>7 DEF driverPrepare, DriverInv, TypeInv, MeshSettle, Instant
<1>8. CASE driverRun
  BY <1>0, <1>8 DEF driverRun, DriverInv, TypeInv, Instant
<1>9. CASE driverDrain
  <2>1. \A n \in Nodes : endedAt[n] + SlotDur <= now + SlotDur
    <3>1. \A n \in Nodes : endedAt[n] <= now /\ endedAt[n] \in Instant
      BY <1>0, <1>9 DEF driverDrain, AllEnded, RunInv, Finished, TypeInv
    <3> QED BY <1>0, <3>1 DEF Instant
  <2> QED BY <1>0, <1>9, <2>1 DEF driverDrain, AllEnded, DriverInv
<1>10. CASE driverClose
  BY <1>0, <1>10 DEF driverClose, DriverInv, TypeInv
<1>11. CASE Stop
  BY <1>0, <1>11 DEF Stop
<1>12. CASE Tick
  <2>1. /\ now' = now + 1 /\ UNCHANGED <<backend, pc, driver, todo, dwake, joinedAt, runStart, endedAt, closedAt>>
        /\ driver # "join" /\ (driver = "settle" => now # dwake)
    BY <1>12 DEF Tick, DriverDue
  <2> QED BY <1>0, <2>1 DEF DriverInv
<1>13. CASE UNCHANGED vars
  BY <1>0, <1>13 DEF DriverInv, vars
<1>14. CASE \E n \in Nodes : hostStart(n) \/ hostConnect(n) \/ hostStagger(n) \/ hostJoin(n) \/ hostClose(n)
  BY <1>14 DEF hostStart, hostConnect, hostStagger, hostJoin, hostClose
<1> QED
  BY <1>1, <1>2, <1>3, <1>4, <1>5, <1>6, <1>7, <1>8, <1>9, <1>10, <1>11, <1>12, <1>13, <1>14
  DEF Next, Host, Driver

\* The invariant frames the run.
LEMMA IInvFrames ==
  ASSUME InTime, IInv
  PROVE  RunFramed
<1> USE Constants DEF IInv
<1>0. TypeInv /\ RunInv /\ HostInv /\ DriverInv /\ backend \in {"shadow", "simnet"} /\ now \in Nat
  BY DEF TypeInv
<1>1. \A n \in Nodes : /\ joinedAt[n] \in Nat \cup {-1} /\ endedAt[n] \in Nat \cup {-1}
                       /\ closedAt[n] \in Nat \cup {-1} /\ runStart[n] \in Nat \cup {-1}
                       /\ wake[n] \in Nat /\ slot[n] \in 0 .. NumSlots
  BY <1>0 DEF TypeInv, Instant
<1>2. ASSUME NEW n \in Nodes, NEW s \in Slots, begunAt[n][s] >= 0
      PROVE  runStart[n] \in Nat /\ begunAt[n][s] = runStart[n] + s * SlotDur
  <2>1. s \in Nat /\ begunAt[n][s] = IF s < slot[n] THEN runStart[n] + s * SlotDur ELSE -1
    BY <1>0 DEF RunInv, Slots
  <2>2. s < slot[n]
    BY <1>2, <2>1
  <2>3. runStart[n] # -1
    BY <1>0, <1>1, <2>1, <2>2 DEF RunInv
  <2> QED BY <1>1, <2>1, <2>2, <2>3
<1>3. ASSUME NEW n \in Nodes, NEW m \in Nodes, runStart[n] \in Nat, runStart[m] \in Nat
      PROVE  runStart[n] = runStart[m]
  <2>1. CASE backend = "shadow"
    BY <1>0, <1>3, <2>1 DEF HostInv
  <2>2. CASE backend = "simnet"
    <3>1. driver \in {"run", "drain"}
      BY <1>0, <1>3, <2>2 DEF DriverInv, TypeInv
    <3> QED BY <1>0, <2>2, <3>1 DEF DriverInv
  <2> QED BY <1>0, <2>1, <2>2
<1>4. ASSUME NEW m \in Nodes, backend = "shadow", pc[m] \in BringingUp
      PROVE  now <= UpBy
  <2>1. (DialJitter - 1) + MaxDial <= UpBy /\ DialJitter - 1 <= UpBy
    BY DEF UpBy
  <2> QED BY <1>0, <1>1, <1>4, <2>1 DEF HostInv, BringingUp
<1>5. MeshesSettle
  <2> SUFFICES ASSUME NEW n \in Nodes, NEW m \in Nodes, begunAt[n][0] >= 0, pc[m] # "failed"
               PROVE  joinedAt[m] >= 0 /\ begunAt[n][0] - joinedAt[m] >= Settle
    BY DEF MeshesSettle, Failed
  <2>1. runStart[n] \in Nat /\ begunAt[n][0] = runStart[n]
    <3>1. runStart[n] \in Nat /\ begunAt[n][0] = runStart[n] + 0 * SlotDur
      BY <1>2
    <3> QED BY <3>1
  <2>2. CASE backend = "shadow"
    <3>1. runStart[n] = Startup
      BY <1>0, <2>1, <2>2 DEF HostInv
    <3>2. now >= Startup
      BY <2>1, <3>1 DEF BegunInv
    <3>3. pc[m] \notin BringingUp
      BY <1>0, <1>4, <2>2, <3>2 DEF InTime, TypeInv
    <3>4. pc[m] \in Joined
      BY <1>0, <2>2, <3>3 DEF TypeInv
    <3>5. joinedAt[m] \in 0 .. UpBy
      BY <1>0, <2>2, <3>4 DEF HostInv
    <3> QED BY <1>0, <2>1, <2>2, <3>1, <3>5 DEF InTime, TypeInv
  <2>3. CASE backend = "simnet"
    <3>1. driver \in {"run", "drain"}
      BY <1>0, <2>1, <2>3 DEF DriverInv, TypeInv
    <3>2. joinedAt[m] >= 0 /\ joinedAt[m] + Settle <= runStart[n]
      BY <1>0, <2>3, <3>1 DEF DriverInv
    <3> QED BY <1>1, <2>1, <3>2
  <2> QED BY <1>0, <2>2, <2>3
<1>6. OneSlotClock
  <2> SUFFICES ASSUME NEW n \in Nodes, NEW m \in Nodes, NEW s \in Slots,
                      begunAt[n][s] >= 0, begunAt[m][0] >= 0
               PROVE  begunAt[n][s] = begunAt[m][0] + s * SlotDur
    BY DEF OneSlotClock
  <2>1. runStart[n] \in Nat /\ begunAt[n][s] = runStart[n] + s * SlotDur
    BY <1>2
  <2>2. runStart[m] \in Nat /\ begunAt[m][0] = runStart[m] + 0 * SlotDur
    BY <1>2
  <2>3. begunAt[m][0] = runStart[m]
    BY <2>2
  <2>4. runStart[n] = runStart[m]
    BY <1>3, <2>1, <2>2
  <2> QED BY <2>1, <2>3, <2>4
<1>7. TailCaptured
  <2> SUFFICES ASSUME NEW n \in Nodes, NEW m \in Nodes, closedAt[n] >= 0, pc[m] # "failed"
               PROVE  /\ endedAt[m] >= 0
                      /\ closedAt[n] - endedAt[m] >= IF backend = "shadow" THEN DrainWindow ELSE SlotDur
    BY DEF TailCaptured, Failed
  <2>1. CASE backend = "shadow"
    <3> DEFINE E == Startup + NumSlots * SlotDur
    <3>0. E \in Nat
      OBVIOUS
    <3>1. pc[n] = "closed"
      BY <1>0, <2>1 DEF HostInv
    <3>2. endedAt[n] = E /\ closedAt[n] = E + DrainWindow /\ closedAt[n] <= now
      BY <1>0, <2>1, <3>1 DEF HostInv, RunInv, Joined, Finished
    <3> HIDE DEF E
    <3>3. now > E /\ E >= Startup
      <4>1. now > E
        BY <1>0, <3>0, <3>2
      <4> QED BY <4>1 DEF E
    <3>4. pc[m] \notin BringingUp
      BY <1>0, <1>4, <2>1, <3>0, <3>3 DEF InTime, TypeInv
    <3>5. pc[m] # "run"
      <4>1. ASSUME pc[m] = "run" PROVE FALSE
        <5>1. runStart[m] = Startup /\ now <= SlotStart(m)
          BY <1>0, <2>1, <4>1 DEF HostInv, RunInv, Joined
        <5>2. SlotStart(m) \in Nat /\ SlotStart(m) <= E
          BY <1>0, <5>1, SlotTimes DEF E
        <5> QED BY <1>0, <3>0, <3>3, <5>1, <5>2
      <4> QED BY <4>1
    <3>6. pc[m] \in Finished /\ pc[m] \in Joined
      BY <1>0, <2>1, <3>4, <3>5 DEF TypeInv, BringingUp, Joined, Finished
    <3>7. endedAt[m] = E
      BY <1>0, <2>1, <3>6 DEF HostInv, RunInv, E
    <3> QED BY <2>1, <3>0, <3>2, <3>7
  <2>2. CASE backend = "simnet"
    <3>1. driver = "drain" /\ closedAt[n] = dwake
      BY <1>0, <2>2 DEF DriverInv
    <3>2. pc[m] \in Finished /\ endedAt[m] + SlotDur <= dwake
      BY <1>0, <2>2, <3>1 DEF DriverInv, Finished
    <3>3. endedAt[m] = runStart[m] + NumSlots * SlotDur /\ runStart[m] >= 0
      BY <1>0, <3>2 DEF RunInv
    <3>4. endedAt[m] >= 0
      BY <1>1, <3>3
    <3> QED BY <1>0, <1>1, <2>2, <3>1, <3>2, <3>4 DEF TypeInv
  <2> QED BY <1>0, <2>1, <2>2
<1> QED BY <1>5, <1>6, <1>7 DEF RunFramed

\* BringUp and Run on simnet, main on every host under Shadow: when -startup
\* leaves the slowest bring-up its settle time, slots begin on settled meshes and
\* on one clock, and no receive loop is closed before the whole tail is in.
THEOREM RunsAreFramed == InTime => (Spec => []RunFramed)
<1> SUFFICES ASSUME InTime PROVE Spec => []RunFramed
  OBVIOUS
<1>1. IInv /\ [Next]_vars => IInv'
  <2> SUFFICES ASSUME IInv, [Next]_vars PROVE IInv'
    OBVIOUS
  <2>1. TypeInv'
    BY NextType DEF IInv
  <2> QED BY <2>1, NextBegun, NextRun, NextHost, NextDriver DEF IInv
<1>2. IInv => RunFramed
  BY IInvFrames
<1> QED BY <1>1, <1>2, InitIInv, PTL DEF Spec

-----------------------------------------------------------------------------
(* The configuration.                                                      *)

\* The fates are those of the accepted configuration and of its plan.
FateInv ==
  /\ cfg \in Configs
  /\ stage \in {"accepted", "planned"} => Conf!Accepts(cfg)
  /\ stage = "planned" => \E voters \in SUBSET Hosts : plan = Conf!generate(cfg, voters)
  /\ stage # "planned" => (\A h \in Hosts : shadow[h] = Conf!NotRun) /\ simnet = Conf!NotRun
  /\ DOMAIN shadow = Hosts /\ shadow = [h \in Hosts |-> shadow[h]]
  /\ \A h \in Hosts : shadow[h] = Conf!NotRun \/ shadow[h] = Conf!ShadowFate(h)
  /\ simnet = Conf!NotRun \/ simnet = Conf!SimnetFate

\* Nothing has run at first.
LEMMA InitFate == Conf!Init => FateInv
BY DEF Conf!Init, FateInv

\* A fate depends on the configuration and its plan alone.
LEMMA FateKept ==
  ASSUME UNCHANGED <<cfg, plan>>
  PROVE  Conf!SimnetFate' = Conf!SimnetFate /\ \A h \in Hosts : Conf!ShadowFate(h)' = Conf!ShadowFate(h)
BY DEF Conf!ShadowFate, Conf!SimnetFate, Conf!ShadowRunner, Conf!SimnetRunner, Conf!NewRunner

\* Each process takes its fate, and the plan is drawn before it.
LEMMA NextFate == FateInv /\ [Conf!Next]_(Conf!vars) => FateInv'
<1> SUFFICES ASSUME FateInv, [Conf!Next]_(Conf!vars) PROVE FateInv'
  OBVIOUS
<1> USE DEF FateInv
<1>1. CASE Conf!validate
  BY <1>1 DEF Conf!validate
<1>2. CASE Conf!draw
  BY <1>2 DEF Conf!draw
<1>3. ASSUME NEW g \in Hosts, Conf!main(g)
      PROVE  FateInv'
  <2>1. /\ UNCHANGED <<cfg, stage, plan, simnet>> /\ stage = "planned"
        /\ shadow' = [shadow EXCEPT ![g] = Conf!ShadowFate(g)]
    BY <1>3 DEF Conf!main
  <2>2. /\ shadow'[g] = Conf!ShadowFate(g) /\ DOMAIN shadow' = Hosts
        /\ \A h \in Hosts \ {g} : shadow'[h] = shadow[h]
        /\ shadow' = [h \in Hosts |-> shadow'[h]]
    BY <2>1
  <2>3. Conf!SimnetFate' = Conf!SimnetFate /\ \A h \in Hosts : Conf!ShadowFate(h)' = Conf!ShadowFate(h)
    BY <2>1, FateKept
  <2> QED BY <2>1, <2>2, <2>3
<1>4. CASE Conf!TestRun
  <2>1. simnet' = Conf!SimnetFate /\ UNCHANGED <<cfg, stage, plan, shadow>> /\ stage = "planned"
    BY <1>4 DEF Conf!TestRun
  <2>2. Conf!SimnetFate' = Conf!SimnetFate /\ \A h \in Hosts : Conf!ShadowFate(h)' = Conf!ShadowFate(h)
    BY <2>1, FateKept
  <2> QED BY <2>1, <2>2
<1>5. CASE UNCHANGED Conf!vars
  <2>1. UNCHANGED <<cfg, stage, plan, shadow, simnet>>
    BY <1>5 DEF Conf!vars
  <2>2. Conf!SimnetFate' = Conf!SimnetFate /\ \A h \in Hosts : Conf!ShadowFate(h)' = Conf!ShadowFate(h)
    BY <2>1, FateKept
  <2> QED BY <2>1, <2>2
<1> QED BY <1>1, <1>2, <1>3, <1>4, <1>5 DEF Conf!Next

\* The plan of an accepted configuration draws what is configured.
LEMMA PlanFacts ==
  ASSUME NEW c \in Conf!ConfigType, Conf!Accepts(c),
         NEW voters \in SUBSET Hosts, plan = Conf!generate(c, voters)
  PROVE  /\ c.dcc = "on" => c.attestation = "off" /\ Conf!VotesFirst(c)
         /\ plan.drawn = (c.attestation # "absent")
         /\ plan.finality = (c.dcc = "on")
         /\ plan.segregated = (c.dcc = "on" /\ c.segregated)
         /\ plan.ptc \subseteq Hosts /\ (plan.ptc # {} => c.epbs)
         /\ plan.syncAggs => c.sync /\ c.dcc # "on"
         /\ plan.finalityAggs => c.dcc = "on"
<1>1. c.dcc = "on" => c.attestation = "off" /\ Conf!VotesFirst(c)
  BY DEF Conf!Accepts, Conf!_check_decoupled_consensus
<1>2. CASE c.attestation = "absent"
  BY <1>1, <1>2 DEF Conf!generate, Conf!NoPlan, Conf!ConfigType
<1>3. CASE c.attestation # "absent"
  BY <1>1, <1>3 DEF Conf!generate, Conf!ConfigType
<1> QED BY <1>1, <1>2, <1>3

\* The two runners differ in knobs of phases that do not run.
LEMMA SameRunner ==
  ASSUME NEW c \in Conf!ConfigType, Conf!Accepts(c),
         NEW voters \in SUBSET Hosts, plan = Conf!generate(c, voters)
  PROVE  LET s == Conf!ShadowRunner(Conf!_host_args(c))
             m == Conf!SimnetRunner(Conf!_simnet_params(c))
         IN  /\ s.attest = m.attest /\ s.sync = m.sync /\ s.decoupled = m.decoupled
             /\ s.segregated = m.segregated /\ s.partial = m.partial /\ s.epbs = m.epbs
             /\ s.aggDue = m.aggDue
             /\ s.epbs => s.consensusSize = m.consensusSize /\ s.ptcDue = m.ptcDue
             /\ s.decoupled => s.voteOffset = m.voteOffset /\ s.fcFraction = m.fcFraction
             /\ s.segregated => s.roundFraction = m.roundFraction
             /\ s.aggDue \in Nat /\ (s.epbs => s.ptcDue = c.ptcDue /\ s.consensusSize = c.consensusSize)
             /\ c.attestation # "absent" => s.aggDue = c.aggDue
             /\ s.attest = (c.attestation = "on" /\ c.dcc # "on")
             /\ s.sync = (c.sync /\ c.attestation # "absent" /\ c.dcc # "on")
             /\ s.partial = (c.attestation # "absent" /\ c.partial)
             /\ s.decoupled = (c.dcc = "on") /\ s.epbs = c.epbs
             /\ s.segregated = (c.dcc = "on" /\ c.segregated)
             /\ c.dcc = "on" => /\ s.voteOffset = c.voteOffset /\ s.fcFraction = c.fcFraction
                                /\ c.segregated => s.roundFraction = c.roundFraction
<1>1. PICK f : f = Conf!_host_args(c)
  OBVIOUS
<1>2. PICK p : p = Conf!_simnet_params(c)
  OBVIOUS
<1>3. /\ f.attestations = (c.attestation # "off") /\ f.sync = c.sync /\ f.epbs = c.epbs
      /\ f.aggDue = (IF c.attestation = "absent" THEN 0 ELSE c.aggDue)
      /\ f.partial = (c.attestation # "absent" /\ c.partial)
      /\ f.decoupled = (c.dcc = "on") /\ f.segregated = (c.dcc = "on" /\ c.segregated)
      /\ c.dcc = "on" => f.voteOffset = c.voteOffset /\ f.fcFraction = c.fcFraction
      /\ c.dcc = "on" /\ c.segregated => f.roundFraction = c.roundFraction
      /\ c.epbs => f.consensusSize = c.consensusSize /\ f.ptcDue = c.ptcDue
  BY <1>1 DEF Conf!_host_args, Conf!RoundFractionFlag
<1>4. /\ p.attest = (c.attestation = "on") /\ p.sync = c.sync /\ p.epbs = c.epbs
      /\ p.aggDue = (IF c.attestation = "absent" THEN 0 ELSE c.aggDue)
      /\ p.partial = (c.attestation # "absent" /\ c.partial)
      /\ p.decoupled = (c.dcc = "on") /\ p.segregated = (c.dcc = "on" /\ c.segregated)
      /\ c.dcc = "on" => p.voteOffset = c.voteOffset /\ p.fcFraction = c.fcFraction
      /\ c.dcc = "on" /\ c.segregated => p.roundFraction = c.roundFraction
      /\ c.epbs => p.consensusSize = c.consensusSize /\ p.ptcDue = c.ptcDue
  BY <1>2 DEF Conf!_simnet_params
<1>5. c.attestation \in Conf!Present /\ c.dcc \in Conf!Present /\ c.epbs \in BOOLEAN /\ c.segregated \in BOOLEAN
      /\ c.sync \in BOOLEAN /\ c.partial \in BOOLEAN /\ c.aggDue \in Nat /\ c.ptcDue \in Nat
  BY DEF Conf!ConfigType
<1> DEFINE s == Conf!ShadowRunner(f)
           m == Conf!SimnetRunner(p)
<1>6. plan.drawn = (c.attestation # "absent") /\ (c.dcc = "on" => c.attestation = "off")
  BY PlanFacts
<1>7. /\ s.attest = m.attest /\ s.sync = m.sync /\ s.decoupled = m.decoupled
      /\ s.segregated = m.segregated /\ s.partial = m.partial
  BY <1>3, <1>4, <1>5, <1>6 DEF Conf!ShadowRunner, Conf!SimnetRunner, Conf!Present
<1>8. /\ s.attest = (c.attestation = "on" /\ c.dcc # "on")
      /\ s.sync = (c.sync /\ c.attestation # "absent" /\ c.dcc # "on")
      /\ s.partial = (c.attestation # "absent" /\ c.partial)
  BY <1>3, <1>5, <1>6 DEF Conf!ShadowRunner, Conf!Present
<1>9. s.aggDue = m.aggDue /\ s.aggDue \in Nat /\ (c.attestation # "absent" => s.aggDue = c.aggDue)
  <2>1. s.aggDue = f.aggDue /\ m.aggDue = IF plan.drawn THEN p.aggDue ELSE 0
    BY DEF Conf!ShadowRunner, Conf!SimnetRunner
  <2>2. /\ f.aggDue = p.aggDue /\ f.aggDue \in Nat /\ (~plan.drawn => p.aggDue = 0)
        /\ c.attestation # "absent" => f.aggDue = c.aggDue
    <3>1. CASE c.attestation = "absent"
      BY <1>3, <1>4, <3>1
    <3>2. CASE c.attestation # "absent"
      <4>1. f.aggDue = c.aggDue /\ p.aggDue = c.aggDue /\ plan.drawn
        BY <1>3, <1>4, <1>6, <3>2
      <4> QED BY <1>5, <4>1
    <3> QED BY <3>1, <3>2
  <2> QED BY <2>1, <2>2
<1>10. /\ s.decoupled = (c.dcc = "on") /\ s.segregated = (c.dcc = "on" /\ c.segregated)
       /\ s.epbs = c.epbs /\ m.epbs = c.epbs
       /\ s.epbs => s.consensusSize = m.consensusSize /\ s.ptcDue = m.ptcDue
       /\ s.epbs => s.ptcDue = c.ptcDue /\ s.consensusSize = c.consensusSize
       /\ s.decoupled => s.voteOffset = m.voteOffset /\ s.fcFraction = m.fcFraction
       /\ s.segregated => s.roundFraction = m.roundFraction
       /\ c.dcc = "on" => /\ s.voteOffset = c.voteOffset /\ s.fcFraction = c.fcFraction
                          /\ c.segregated => s.roundFraction = c.roundFraction
  BY <1>3, <1>4, <1>5 DEF Conf!ShadowRunner, Conf!SimnetRunner
<1> HIDE DEF s, m
<1>11. s = Conf!ShadowRunner(Conf!_host_args(c)) /\ m = Conf!SimnetRunner(Conf!_simnet_params(c))
  BY <1>1, <1>2 DEF s, m
<1> QED BY <1>7, <1>8, <1>9, <1>10, <1>11

\* What NewRunner refuses of either runner is what Unset names.
LEMMA SameRefusal ==
  ASSUME cfg \in Conf!ConfigType, Conf!Accepts(cfg),
         NEW voters \in SUBSET Hosts, plan = Conf!generate(cfg, voters), NEW h \in Hosts
  PROVE  LET s == Conf!ShadowRunner(Conf!_host_args(cfg))
             m == Conf!SimnetRunner(Conf!_simnet_params(cfg))
         IN  (Conf!Refuses(s, plan, h) <=> Conf!Unset(h)) /\ (Conf!Refuses(m, plan, h) <=> Conf!Unset(h))
<1> DEFINE s == Conf!ShadowRunner(Conf!_host_args(cfg))
           m == Conf!SimnetRunner(Conf!_simnet_params(cfg))
<1>1. /\ cfg.attestation \in Conf!Present /\ cfg.partial \in BOOLEAN
      /\ cfg.consensusSize \in Nat /\ cfg.ptcDue \in Nat /\ cfg.aggDue \in Nat
      /\ cfg.epbs \in BOOLEAN
      /\ cfg.partial /\ cfg.attestation # "absent" => cfg.attestation = "on" \/ cfg.dcc = "on"
  BY DEF Conf!ConfigType, Conf!Accepts, Conf!_check_partial_transport
<1>2. /\ plan.drawn = (cfg.attestation # "absent")
      /\ plan.ptc \subseteq Hosts /\ (plan.ptc # {} => cfg.epbs)
      /\ plan.syncAggs => cfg.sync /\ cfg.dcc # "on"
      /\ plan.finalityAggs => cfg.dcc = "on"
      /\ cfg.dcc = "on" => cfg.attestation = "off" /\ Conf!VotesFirst(cfg)
  BY PlanFacts
<1>3. plan.aggs \/ plan.syncAggs => cfg.attestation # "absent"
  BY DEF Conf!generate, Conf!NoPlan
<1>4. /\ s.attest = m.attest /\ s.sync = m.sync /\ s.decoupled = m.decoupled
      /\ s.segregated = m.segregated /\ s.partial = m.partial /\ s.epbs = m.epbs
      /\ s.aggDue = m.aggDue
      /\ s.epbs => s.consensusSize = m.consensusSize /\ s.ptcDue = m.ptcDue
      /\ s.decoupled => s.fcFraction = m.fcFraction
      /\ s.segregated => s.roundFraction = m.roundFraction
  BY SameRunner
<1>5. /\ s.decoupled = (cfg.dcc = "on") /\ s.epbs = cfg.epbs
      /\ s.segregated = (cfg.dcc = "on" /\ cfg.segregated)
      /\ s.aggDue \in Nat /\ (s.epbs => s.ptcDue = cfg.ptcDue /\ s.consensusSize = cfg.consensusSize)
      /\ cfg.attestation # "absent" => s.aggDue = cfg.aggDue
      /\ s.attest = (cfg.attestation = "on" /\ cfg.dcc # "on")
      /\ s.sync = (cfg.sync /\ cfg.attestation # "absent" /\ cfg.dcc # "on")
      /\ s.partial = (cfg.attestation # "absent" /\ cfg.partial)
      /\ cfg.dcc = "on" => /\ s.fcFraction = cfg.fcFraction
                           /\ cfg.segregated => s.roundFraction = cfg.roundFraction
  BY SameRunner
<1> HIDE DEF s, m
<1>6. ASSUME NEW rc \in {s, m}
      PROVE  Conf!Refuses(rc, plan, h) <=> Conf!Unset(h)
  <2>0. /\ rc.epbs = cfg.epbs
        /\ cfg.epbs => rc.consensusSize = cfg.consensusSize /\ rc.ptcDue = cfg.ptcDue
    BY <1>4, <1>5
  <2>1. (rc.epbs /\ rc.consensusSize <= 0) <=> (cfg.epbs /\ cfg.consensusSize = 0)
    BY <1>1, <2>0
  <2>2. (h \in plan.ptc /\ (~rc.epbs \/ rc.ptcDue <= 0)) <=> (h \in plan.ptc /\ cfg.ptcDue = 0)
    <3>1. h \in plan.ptc => cfg.epbs
      BY <1>2
    <3> QED BY <1>1, <2>0, <3>1
  <2>3. (rc.aggDue <= 0 /\ ((rc.attest /\ plan.aggs) \/ (rc.sync /\ plan.syncAggs)))
          <=> (cfg.aggDue = 0 /\ ((cfg.attestation = "on" /\ plan.aggs) \/ plan.syncAggs))
    <3>1. ((rc.attest /\ plan.aggs) \/ (rc.sync /\ plan.syncAggs))
            <=> ((cfg.attestation = "on" /\ plan.aggs) \/ plan.syncAggs)
      BY <1>2, <1>3, <1>4, <1>5
    <3>2. (rc.attest /\ plan.aggs) \/ (rc.sync /\ plan.syncAggs) => rc.aggDue = cfg.aggDue
      BY <1>3, <1>4, <1>5
    <3> QED BY <1>1, <3>1, <3>2
  <2>4. ~(/\ rc.decoupled /\ plan.finalityAggs
          /\ (IF rc.segregated THEN rc.roundFraction ELSE rc.fcFraction) \notin 1..99)
    BY <1>2, <1>4, <1>5 DEF Conf!VotesFirst
  <2>5. ~(rc.partial /\ ~rc.attest /\ ~rc.decoupled)
    BY <1>1, <1>2, <1>4, <1>5
  <2> QED BY <2>1, <2>2, <2>3, <2>4, <2>5 DEF Conf!Refuses, Conf!Untimed, Conf!Unset
<1> QED BY <1>6 DEF s, m

\* main's log.Fatals fire for the startup alone, and TestRun's does not fire.
LEMMA SameFate ==
  ASSUME cfg \in Conf!ConfigType, Conf!Accepts(cfg), StaggerMs \in Nat,
         NEW voters \in SUBSET Hosts, plan = Conf!generate(cfg, voters)
  PROVE  LET s == Conf!ShadowRunner(Conf!_host_args(cfg))
             m == Conf!SimnetRunner(Conf!_simnet_params(cfg))
         IN  /\ \A h \in Hosts : Conf!ShadowFate(h) =
                   IF cfg.startup <= StaggerMs THEN Conf!Fatal ELSE Conf!NewRunner(s, {h})
             /\ Conf!SimnetFate = Conf!NewRunner(m, Hosts)
<1> DEFINE s == Conf!ShadowRunner(Conf!_host_args(cfg))
           m == Conf!SimnetRunner(Conf!_simnet_params(cfg))
<1>1. /\ cfg.attestation \in Conf!Present /\ cfg.partial \in BOOLEAN /\ cfg.startup \in Nat
      /\ cfg.partial /\ cfg.attestation # "absent" => cfg.attestation = "on" \/ cfg.dcc = "on"
  BY DEF Conf!ConfigType, Conf!Accepts, Conf!_check_partial_transport
<1>2. /\ Conf!_host_args(cfg).decoupled = (cfg.dcc = "on")
      /\ Conf!_host_args(cfg).segregated = (cfg.dcc = "on" /\ cfg.segregated)
      /\ Conf!_host_args(cfg).partial = (cfg.attestation # "absent" /\ cfg.partial)
      /\ Conf!_host_args(cfg).attestations = (cfg.attestation # "off")
      /\ Conf!_host_args(cfg).startup = cfg.startup
  BY DEF Conf!_host_args
<1>3. s.attest = (Conf!_host_args(cfg).attestations /\ plan.drawn /\ ~Conf!_host_args(cfg).decoupled)
      /\ s.decoupled = Conf!_host_args(cfg).decoupled
  BY DEF Conf!ShadowRunner
<1>4. ASSUME NEW h \in Hosts
      PROVE  Conf!ShadowFate(h) = IF cfg.startup <= StaggerMs THEN Conf!Fatal ELSE Conf!NewRunner(s, {h})
  <2> HIDE DEF s
  <2>1. ~(\/ Conf!_host_args(cfg).segregated /\ ~Conf!_host_args(cfg).decoupled
          \/ Conf!_host_args(cfg).decoupled
             /\ (~plan.drawn \/ Conf!_host_args(cfg).segregated # plan.segregated)
          \/ Conf!_host_args(cfg).partial /\ (~plan.drawn \/ (~s.attest /\ ~s.decoupled)))
    BY <1>1, <1>2, <1>3, PlanFacts DEF Conf!Present
  <2>2. Conf!_host_args(cfg).startup - StaggerMs <= 0 <=> cfg.startup <= StaggerMs
    BY <1>1, <1>2
  <2> QED BY <2>1, <2>2 DEF Conf!ShadowFate, s
<1>5. Conf!SimnetFate = Conf!NewRunner(m, Hosts)
  <2>1. Conf!_simnet_params(cfg).segregated = (cfg.dcc = "on" /\ cfg.segregated)
    BY DEF Conf!_simnet_params
  <2>2. Conf!_simnet_params(cfg).segregated = plan.segregated
    BY <2>1, PlanFacts
  <2> QED BY <2>2 DEF Conf!SimnetFate
<1> QED BY <1>4, <1>5

\* Both runners behave as configured.
LEMMA FateSound ==
  ASSUME Typed, FateInv
  PROVE  Conf!RunsAsConfigured
<1>1. CASE stage # "planned"
  <2>1. /\ \A h \in Hosts : shadow[h] = Conf!NotRun
        /\ simnet = Conf!NotRun /\ Conf!NotRun.result = "no"
    BY <1>1 DEF FateInv, Conf!NotRun
  <2> QED BY <2>1 DEF Conf!RunsAsConfigured, Conf!BackendsAgree, Conf!NothingSilent, Conf!RefusedForCause, Conf!Ran
<1>2. CASE stage = "planned"
  <2> DEFINE s == Conf!ShadowRunner(Conf!_host_args(cfg))
             m == Conf!SimnetRunner(Conf!_simnet_params(cfg))
  <2>0. PICK voters \in SUBSET Hosts : plan = Conf!generate(cfg, voters)
    BY <1>2 DEF FateInv
  <2>1. cfg \in Conf!ConfigType /\ Conf!Accepts(cfg) /\ StaggerMs \in Nat
    BY <1>2 DEF FateInv, Typed
  <2>2. ASSUME NEW h \in Hosts, shadow[h].result # "no"
        PROVE  shadow[h] = IF cfg.startup <= StaggerMs THEN Conf!Fatal ELSE Conf!NewRunner(s, {h})
    BY <2>0, <2>1, <2>2, SameFate DEF FateInv, Conf!NotRun
  <2>3. simnet.result # "no" => simnet = Conf!NewRunner(m, Hosts)
    BY <2>0, <2>1, SameFate DEF FateInv, Conf!NotRun
  <2>4. \A h \in Hosts : (Conf!Refuses(s, plan, h) <=> Conf!Unset(h)) /\ (Conf!Refuses(m, plan, h) <=> Conf!Unset(h))
    BY <2>0, <2>1, SameRefusal
  <2>5. /\ s.attest = m.attest /\ s.sync = m.sync /\ s.decoupled = m.decoupled
        /\ s.segregated = m.segregated /\ s.partial = m.partial /\ s.epbs = m.epbs
        /\ s.aggDue = m.aggDue
        /\ s.epbs => s.consensusSize = m.consensusSize /\ s.ptcDue = m.ptcDue
        /\ s.decoupled => s.voteOffset = m.voteOffset /\ s.fcFraction = m.fcFraction
        /\ s.segregated => s.roundFraction = m.roundFraction
    BY <2>0, <2>1, SameRunner
  <2>6. /\ s.decoupled = (cfg.dcc = "on") /\ s.segregated = (cfg.dcc = "on" /\ cfg.segregated)
        /\ cfg.dcc = "on" => /\ s.voteOffset = cfg.voteOffset /\ s.fcFraction = cfg.fcFraction
                             /\ cfg.segregated => s.roundFraction = cfg.roundFraction
        /\ s.aggDue \in Nat /\ (s.epbs => s.ptcDue = cfg.ptcDue) /\ s.epbs = cfg.epbs
    BY <2>0, <2>1, SameRunner
  <2>7. /\ plan.finality = (cfg.dcc = "on") /\ (plan.ptc # {} => cfg.epbs)
        /\ cfg.dcc = "on" => Conf!VotesFirst(cfg)
        /\ cfg.ptcDue \in Nat
    BY <2>0, <2>1, PlanFacts DEF Conf!ConfigType
  <2> HIDE DEF s, m
  <2>8. Conf!RefusedForCause
    <3>1. ASSUME NEW h \in Hosts, shadow[h].result # "no"
          PROVE  shadow[h].result = IF cfg.startup <= StaggerMs THEN "fatal"
                                    ELSE IF Conf!Unset(h) THEN "panic" ELSE "runs"
      <4>1. CASE cfg.startup <= StaggerMs
        BY <2>2, <3>1, <4>1 DEF Conf!Fatal
      <4>2. CASE ~(cfg.startup <= StaggerMs)
        <5>1. shadow[h] = Conf!NewRunner(s, {h})
          BY <2>2, <3>1, <4>2
        <5> QED BY <2>4, <4>2, <5>1 DEF Conf!NewRunner
      <4> QED BY <4>1, <4>2
    <3>2. ASSUME simnet.result # "no"
          PROVE  simnet.result = IF \E h \in Hosts : Conf!Unset(h) THEN "panic" ELSE "runs"
      BY <2>3, <2>4, <3>2 DEF Conf!NewRunner
    <3> QED BY <3>1, <3>2 DEF Conf!RefusedForCause
  <2>9. Conf!Behaviour(s) = Conf!Behaviour(m)
    BY <2>5, <2>6, <2>7 DEF Conf!Behaviour, Conf!AggMs
  <2>10. /\ \A h \in Hosts : shadow[h].result = "runs" => shadow[h].runner = s /\ ~Conf!Refuses(s, plan, h)
         /\ simnet.result # "no" => simnet.runner = m
         /\ simnet.result = "runs" => \A h \in Hosts : ~Conf!Refuses(m, plan, h)
    <3>1. ASSUME NEW h \in Hosts, shadow[h].result = "runs"
          PROVE  shadow[h].runner = s /\ ~Conf!Refuses(s, plan, h)
      <4>1. shadow[h] = Conf!Fatal \/ shadow[h] = Conf!NewRunner(s, {h})
        BY <2>2, <3>1
      <4>2. shadow[h] = Conf!NewRunner(s, {h})
        BY <3>1, <4>1 DEF Conf!Fatal
      <4> QED BY <3>1, <4>2 DEF Conf!NewRunner
    <3> QED BY <2>3, <3>1 DEF Conf!NewRunner
  <2>11. Conf!BackendsAgree
    <3>1. ASSUME Conf!Ran, cfg.startup > StaggerMs
          PROVE  simnet.result = "runs" <=> \A h \in Hosts : shadow[h].result = "runs"
      <4>1. ~(cfg.startup <= StaggerMs)
        BY <2>1, <3>1 DEF Conf!ConfigType
      <4>2. /\ \A h \in Hosts : shadow[h].result = IF Conf!Unset(h) THEN "panic" ELSE "runs"
            /\ simnet.result = IF \E h \in Hosts : Conf!Unset(h) THEN "panic" ELSE "runs"
        BY <2>8, <3>1, <4>1 DEF Conf!RefusedForCause, Conf!Ran
      <4> QED BY <4>2
    <3>2. ASSUME Conf!Ran, NEW h \in Hosts, shadow[h].result = "runs"
          PROVE  Conf!Behaviour(shadow[h].runner) = Conf!Behaviour(simnet.runner)
      BY <2>9, <2>10, <3>2 DEF Conf!Ran
    <3> QED BY <3>1, <3>2 DEF Conf!BackendsAgree
  <2>12. ASSUME NEW rc \in {s, m}, NEW h \in Hosts, ~Conf!Refuses(rc, plan, h)
         PROVE  Conf!CarriesOut(rc, h)
    <3>1. /\ rc.aggDue \in Nat /\ (rc.epbs => rc.ptcDue \in Nat) /\ (plan.ptc # {} => rc.epbs)
          /\ plan.finality => rc.decoupled
      BY <2>5, <2>6, <2>7
    <3>2. plan.finality => rc.voteOffset < Conf!AggMs(rc.segregated, rc.fcFraction, rc.roundFraction)
      BY <2>5, <2>6, <2>7 DEF Conf!VotesFirst, Conf!AggMs
    <3> QED BY <2>12, <3>1, <3>2 DEF Conf!Refuses, Conf!Untimed, Conf!CarriesOut
  <2>13. Conf!NothingSilent
    BY <2>10, <2>12 DEF Conf!NothingSilent
  <2> QED BY <2>8, <2>11, <2>13 DEF Conf!RunsAsConfigured
<1> QED BY <1>1, <1>2

\* Whatever the configurations, the hosts and the PTC's draw: with a startup above
\* the stagger, what simctl accepts runs on simnet just if main runs it on every
\* host; the runners NewRunner builds behave alike and carry out at a deadline what
\* the plan draws; and a run is refused for the zeros NewRunner checks and for its
\* startup, by main, alone.
THEOREM ConfiguredRuns == Conf!Spec => []RunsAsConfigured
<1>1. FateInv => RunsAsConfigured
  BY ConfigsTyped, FateSound DEF RunsAsConfigured
<1> QED BY <1>1, InitFate, NextFate, PTL DEF Conf!Spec

-----------------------------------------------------------------------------
(* The record.  A publish is recorded before it is sent, with the instant  *)
(* of its burst, and a message is in one place of the slot's program; so   *)
(* what is delivered and what is recorded match message by message.        *)

\* The instance counts like this module.
LEMMA RecCount ==
  ASSUME NEW S
  PROVE  Rec!Cardinality(S) = Cardinality(S)
<1>1. \A T : Rec!IsFiniteSet(T) = IsFiniteSet(T)
  BY DEF Rec!IsFiniteSet, IsFiniteSet
<1> QED BY <1>1 DEF Rec!Cardinality, Cardinality

\* The types of the variables, and where a node may stand.
RecType ==
  /\ program \in Programs /\ time \in Nat /\ IsFiniteSet(arrivals)
  /\ at \in [Fleet -> [burst : Nat \ {0}, next : Nat, stamp : Nat, recorded : BOOLEAN]]
  /\ \A n \in Fleet :
       /\ at[n].stamp <= time /\ (at[n].recorded => at[n].next > 0)
       /\ at[n].next > 0 => <<n, at[n].burst, at[n].next>> \in Rec!Places(program)

\* The messages recorded are those of the places passed, each once and with the
\* instant of its burst.
Passed(x) ==
  \/ x[2] < at[x[1]].burst
  \/ x[2] = at[x[1]].burst /\ (x[3] < at[x[1]].next \/ (x[3] = at[x[1]].next /\ at[x[1]].recorded))
PubInv ==
  /\ \A p \in pub : p.at \in Nat /\ p.at <= time /\ p = [id |-> p.id, at |-> p.at]
  /\ \A p \in pub : \E x \in Rec!Places(program) : p.id = Rec!IdAt(program, x) /\ Passed(x)
  /\ \A p, q \in pub : p.id = q.id => p = q
  /\ \A n \in Fleet : at[n].recorded =>
       \E p \in pub : p.id = Rec!IdAt(program, <<n, at[n].burst, at[n].next>>)
StampInv ==
  \A p, q \in pub : \A x, y \in Rec!Places(program) :
    p.id = Rec!IdAt(program, x) /\ q.id = Rec!IdAt(program, y) /\ x[1] = y[1] /\ x[2] = y[2] =>
      /\ p.at = q.at
      /\ x[2] = at[x[1]].burst => p.at = at[x[1]].stamp

\* Arrivals and deliveries match through the publish of the message.
Matches(a, h, p) == a.id = h.id /\ p.id = h.id /\ a.node = h.node /\ a.delay = h.at - p.at
HeardInv ==
  /\ \A id \in wire : \E p \in pub : p.id = id
  /\ \A h \in heard : h.at \in Nat /\ \E a \in arrivals, p \in pub : Matches(a, h, p)
  /\ \A a \in arrivals : a.delay \in Nat /\ \E h \in heard, p \in pub : Matches(a, h, p)

RecInv == RecType /\ PubInv /\ StampInv /\ HeardInv

-----------------------------------------------------------------------------
\* A node, one of its bursts and a message of the burst.
InPlace(pr, x) ==
  \E n \in Fleet : \E b \in 1..Len(pr[n]) : \E i \in 1..Len(pr[n][b].ids) : x = <<n, b, i>>

\* That is what the places are.
LEMMA PlaceIs == ASSUME NEW pr, NEW x PROVE x \in Rec!Places(pr) <=> InPlace(pr, x)
<1> DEFINE Row(n, b) == {<<n, b, i>> : i \in 1..Len(pr[n][b].ids)}
           Rows(n) == UNION {Row(n, b) : b \in 1..Len(pr[n])}
<1>1. Rec!Places(pr) = UNION {Rows(n) : n \in Fleet}
  BY Zenon DEF Rec!Places
<1>2. x \in Rec!Places(pr) <=> \E n \in Fleet : x \in Rows(n)
  <2> HIDE DEF Rows
  <2> QED BY <1>1
<1>3. ASSUME NEW n PROVE x \in Rows(n) <=> \E b \in 1..Len(pr[n]) : x \in Row(n, b)
  <2> HIDE DEF Row
  <2> QED OBVIOUS
<1>4. ASSUME NEW n, NEW b
      PROVE  x \in Row(n, b) <=> \E i \in 1..Len(pr[n][b].ids) : x = <<n, b, i>>
  OBVIOUS
<1> HIDE DEF Row, Rows
<1> QED BY <1>2, <1>3, <1>4, Zenon DEF InPlace

\* What a place consists of, in a program the driver runs.
LEMMA PlaceParts ==
  ASSUME Rec!Programmed, NEW pr \in Programs, NEW x \in Rec!Places(pr)
  PROVE  /\ x[1] \in Fleet /\ x[2] \in Nat \ {0} /\ x[3] \in Nat \ {0}
         /\ x = <<x[1], x[2], x[3]>>
<1>1. PICK n \in Fleet : \E b \in 1..Len(pr[n]) : \E i \in 1..Len(pr[n][b].ids) : x = <<n, b, i>>
  <2>1. InPlace(pr, x)
    BY PlaceIs
  <2> QED BY <2>1, Zenon DEF InPlace
<1>2. PICK b \in 1..Len(pr[n]) : \E i \in 1..Len(pr[n][b].ids) : x = <<n, b, i>>
  BY <1>1
<1>3. PICK i \in 1..Len(pr[n][b].ids) : x = <<n, b, i>>
  BY <1>2
<1>4. Len(pr[n]) \in Nat /\ Len(pr[n][b].ids) \in Nat
  BY DEF Rec!Programmed
<1> QED BY <1>3, <1>4

\* A message is in one place only.
LEMMA OnePlace ==
  ASSUME Rec!Programmed, program \in Programs, NEW x \in Rec!Places(program), NEW y \in Rec!Places(program),
         Rec!IdAt(program, x) = Rec!IdAt(program, y)
  PROVE  x = y
BY DEF Rec!Programmed

\* A recorded message is in a place passed.
LEMMA RecordedPassed ==
  ASSUME Rec!Programmed, RecInv, NEW p \in pub, NEW x \in Rec!Places(program), p.id = Rec!IdAt(program, x)
  PROVE  Passed(x)
<1>1. PICK y \in Rec!Places(program) : p.id = Rec!IdAt(program, y) /\ Passed(y)
  BY DEF RecInv, PubInv
<1>2. x = y
  BY <1>1, OnePlace DEF RecInv, RecType
<1> QED BY <1>1, <1>2

\* The state of a node, part by part.
LEMMA NodeParts ==
  ASSUME RecInv, NEW n \in Fleet
  PROVE  /\ at[n].burst \in Nat \ {0} /\ at[n].next \in Nat /\ at[n].stamp \in Nat
         /\ at[n].recorded \in BOOLEAN /\ at[n].stamp <= time /\ time \in Nat
         /\ at[n].recorded => at[n].next > 0
         /\ at[n].next > 0 => <<n, at[n].burst, at[n].next>> \in Rec!Places(program)
BY DEF RecInv, RecType

\* Nothing is recorded at first.
LEMMA RecInit == Rec!Programmed /\ Rec!Init => RecInv
<1> SUFFICES ASSUME Rec!Programmed, Rec!Init PROVE RecInv
  OBVIOUS
<1>1. RecType
  <2>1. IsFiniteSet(arrivals)
    BY FS_EmptySet DEF Rec!Init
  <2>2. at \in [Fleet -> [burst : Nat \ {0}, next : Nat, stamp : Nat, recorded : BOOLEAN]]
    BY DEF Rec!Init
  <2>3. ASSUME NEW n \in Fleet
        PROVE  at[n].stamp = 0 /\ at[n].recorded = FALSE /\ at[n].next = 0
    BY DEF Rec!Init
  <2> QED BY <2>1, <2>2, <2>3 DEF RecType, Rec!Init
<1>2. PubInv
  <2>1. ASSUME NEW n \in Fleet PROVE at[n].recorded = FALSE
    BY DEF Rec!Init
  <2> QED BY <2>1 DEF PubInv, Rec!Init
<1>3. StampInv
  BY DEF StampInv, Rec!Init
<1>4. HeardInv
  BY DEF HeardInv, Rec!Init
<1> QED BY <1>1, <1>2, <1>3, <1>4 DEF RecInv

\* What matters of the state when only the nodes' positions move: the record and
\* the deliveries keep theirs.
LEMMA HeardKept ==
  ASSUME RecInv, pub' = pub, arrivals' = arrivals, heard' = heard, wire' = wire
  PROVE  HeardInv'
BY Zenon DEF RecInv, HeardInv, Matches

\* The instant of a burst is taken before any of it is recorded.
LEMMA RecBegin ==
  ASSUME Rec!Programmed, RecInv, NEW n \in Fleet, Rec!begin(n)
  PROVE  RecInv'
<1> DEFINE w == [at[n] EXCEPT !.next = 1, !.stamp = time]
<1>0. /\ program' = program /\ time' = time /\ pub' = pub /\ arrivals' = arrivals
      /\ wire' = wire /\ heard' = heard
  BY DEF Rec!begin
<1>1. at' = [at EXCEPT ![n] = w]
  BY DEF Rec!begin
<1>2. at \in [Fleet -> [burst : Nat \ {0}, next : Nat, stamp : Nat, recorded : BOOLEAN]]
  BY DEF RecInv, RecType
<1>3. at[n].next = 0 /\ ~at[n].recorded /\ time \in Nat
  <2>1. at[n].next = 0
    BY DEF Rec!begin
  <2>2. time \in Nat /\ at[n].recorded \in BOOLEAN /\ (at[n].recorded => at[n].next > 0)
    BY NodeParts
  <2>3. ~(0 > 0)
    OBVIOUS
  <2> QED BY <2>1, <2>2, <2>3
<1>4. w \in [burst : Nat \ {0}, next : Nat, stamp : Nat, recorded : BOOLEAN]
  BY <1>2, <1>3
<1>5. /\ at'[n] = w /\ at'[n].burst = at[n].burst /\ at'[n].next = 1 /\ at'[n].stamp = time
      /\ ~at'[n].recorded
      /\ \A m \in Fleet : m # n => at'[m] = at[m]
  <2>1. at'[n] = w /\ \A m \in Fleet : m # n => at'[m] = at[m]
    BY <1>1, <1>2
  <2>2. w.burst = at[n].burst /\ w.next = 1 /\ w.stamp = time /\ w.recorded = at[n].recorded
    BY <1>2
  <2> QED BY <2>1, <2>2, <1>3
<1> HIDE DEF w
<1>6. <<n, at[n].burst, 1>> \in Rec!Places(program)
  <2>1. at[n].burst <= Len(program[n]) /\ at[n].burst \in Nat \ {0} /\ program \in Programs
    BY NodeParts DEF Rec!begin, RecInv, RecType
  <2>2. Len(program[n]) \in Nat
    BY <2>1 DEF Rec!Programmed
  <2>3. at[n].burst \in 1..Len(program[n])
    BY <2>1, <2>2
  <2>4. Len(program[n][at[n].burst].ids) \in Nat \ {0}
    BY <2>1, <2>3 DEF Rec!Programmed
  <2>5. 1 \in 1..Len(program[n][at[n].burst].ids)
    BY <2>4
  <2>6. InPlace(program, <<n, at[n].burst, 1>>)
    BY <2>3, <2>5 DEF InPlace
  <2> QED BY <2>6, PlaceIs
<1>7. RecType'
  <2>1. at' \in [Fleet -> [burst : Nat \ {0}, next : Nat, stamp : Nat, recorded : BOOLEAN]]
    BY <1>1, <1>2, <1>4
  <2>2. ASSUME NEW m \in Fleet
        PROVE  /\ at'[m].stamp <= time /\ (at'[m].recorded => at'[m].next > 0)
               /\ at'[m].next > 0 => <<m, at'[m].burst, at'[m].next>> \in Rec!Places(program)
    <3>1. CASE m = n
      BY <3>1, <1>3, <1>5, <1>6
    <3>2. CASE m # n
      BY <3>2, <1>5, NodeParts
    <3> QED BY <3>1, <3>2
  <2>3. program' \in Programs /\ time' \in Nat /\ IsFiniteSet(arrivals')
    BY <1>0 DEF RecInv, RecType
  <2>4. Rec!Places(program)' = Rec!Places(program)
    BY <1>0 DEF Rec!Places
  <2> QED BY <1>0, <2>1, <2>2, <2>3, <2>4 DEF RecType
<1>8. ASSUME NEW x \in Rec!Places(program)
      PROVE  /\ Passed(x)' <=> Passed(x)
             /\ x[1] = n /\ x[2] = at[n].burst => ~Passed(x)
  <2>1. x[1] \in Fleet /\ x[2] \in Nat \ {0} /\ x[3] \in Nat \ {0}
    BY PlaceParts DEF RecInv, RecType
  <2>2. CASE x[1] = n
    BY <2>1, <2>2, <1>3, <1>5, NodeParts DEF Passed
  <2>3. CASE x[1] # n
    BY <2>1, <2>3, <1>5 DEF Passed
  <2> QED BY <2>2, <2>3
<1>9. PubInv'
  <2>1. \A p \in pub : p.at \in Nat /\ p.at <= time /\ p = [id |-> p.id, at |-> p.at]
    BY Zenon DEF RecInv, PubInv
  <2>2. \A p \in pub : \E x \in Rec!Places(program) : p.id = Rec!IdAt(program, x) /\ Passed(x)'
    BY <1>8 DEF RecInv, PubInv
  <2>3. \A p, q \in pub : p.id = q.id => p = q
    BY Zenon DEF RecInv, PubInv
  <2>4. ASSUME NEW m \in Fleet, at'[m].recorded
        PROVE  \E p \in pub : p.id = Rec!IdAt(program, <<m, at'[m].burst, at'[m].next>>)
    <3>1. m # n
      BY <1>5, <2>4
    <3>2. at'[m] = at[m]
      BY <3>1, <1>5
    <3> QED BY <3>2, <2>4 DEF RecInv, PubInv
  <2>5. \A x : Rec!IdAt(program, x)' = Rec!IdAt(program, x)
    BY <1>0 DEF Rec!IdAt
  <2>6. Rec!Places(program)' = Rec!Places(program)
    BY <1>0 DEF Rec!Places
  <2> QED BY <1>0, <2>1, <2>2, <2>3, <2>4, <2>5, <2>6 DEF PubInv, Rec!IdAt, Passed
<1>10. StampInv'
  <2> SUFFICES ASSUME NEW p \in pub, NEW q \in pub, NEW x \in Rec!Places(program), NEW y \in Rec!Places(program),
                      p.id = Rec!IdAt(program, x), q.id = Rec!IdAt(program, y), x[1] = y[1], x[2] = y[2]
               PROVE  /\ p.at = q.at
                      /\ x[2] = at'[x[1]].burst => p.at = at'[x[1]].stamp
    <3>1. Rec!Places(program)' = Rec!Places(program) /\ \A x : Rec!IdAt(program, x)' = Rec!IdAt(program, x)
      BY <1>0 DEF Rec!Places, Rec!IdAt
    <3> QED BY <3>1, <1>0 DEF StampInv, Rec!IdAt
  <2>1. /\ p.at = q.at
        /\ x[2] = at[x[1]].burst => p.at = at[x[1]].stamp
    BY DEF RecInv, StampInv
  <2>2. Passed(x)
    BY RecordedPassed
  <2>3. x[1] \in Fleet
    BY PlaceParts DEF RecInv, RecType
  <2>4. CASE x[1] = n
    BY <2>1, <2>2, <2>4, <1>5, <1>8
  <2>5. CASE x[1] # n
    BY <2>1, <2>3, <2>5, <1>5
  <2> QED BY <2>4, <2>5
<1>11. HeardInv'
  BY <1>0, HeardKept
<1> QED BY <1>7, <1>9, <1>10, <1>11 DEF RecInv

\* A message is recorded once, with the instant of its burst.
LEMMA RecOnPublish ==
  ASSUME Rec!Programmed, RecInv, NEW n \in Fleet, Rec!OnPublish(n)
  PROVE  RecInv'
<1> DEFINE w == [at[n] EXCEPT !.recorded = TRUE]
           here == <<n, at[n].burst, at[n].next>>
           new == [id |-> Rec!IdAt(program, here), at |-> at[n].stamp]
<1>0. /\ program' = program /\ time' = time /\ arrivals' = arrivals
      /\ wire' = wire /\ heard' = heard
  BY DEF Rec!OnPublish
<1>1. at' = [at EXCEPT ![n] = w]
  BY DEF Rec!OnPublish
<1>2. at \in [Fleet -> [burst : Nat \ {0}, next : Nat, stamp : Nat, recorded : BOOLEAN]]
  BY DEF RecInv, RecType
<1>3. at[n].next > 0 /\ at[n].recorded = FALSE
  <2>1. at[n].next > 0 /\ ~at[n].recorded
    BY DEF Rec!OnPublish, Rec!Publishing
  <2>2. at[n].recorded \in BOOLEAN
    BY NodeParts
  <2> QED BY <2>1, <2>2
<1>4. w \in [burst : Nat \ {0}, next : Nat, stamp : Nat, recorded : BOOLEAN]
  BY <1>2
<1>5. /\ at'[n].burst = at[n].burst /\ at'[n].next = at[n].next /\ at'[n].stamp = at[n].stamp
      /\ at'[n].recorded = TRUE
      /\ \A m \in Fleet : m # n => at'[m] = at[m]
  <2>1. at'[n] = w /\ \A m \in Fleet : m # n => at'[m] = at[m]
    BY <1>1, <1>2
  <2>2. w.burst = at[n].burst /\ w.next = at[n].next /\ w.stamp = at[n].stamp /\ w.recorded = TRUE
    BY <1>2
  <2> QED BY <2>1, <2>2
<1> HIDE DEF w
<1>6. here \in Rec!Places(program) /\ here[1] = n /\ here[2] = at[n].burst /\ here[3] = at[n].next
  BY <1>3, NodeParts
<1>7. new.id = Rec!IdAt(program, here) /\ new.at = at[n].stamp /\ new = [id |-> new.id, at |-> new.at]
  OBVIOUS
<1>8. \A p \in pub : p.id # new.id
  <2> SUFFICES ASSUME NEW p \in pub, p.id = Rec!IdAt(program, here) PROVE FALSE
    BY <1>7
  <2>1. Passed(here)
    BY <1>6, RecordedPassed
  <2> QED BY <2>1, <1>3, <1>6, NodeParts DEF Passed
<1>9. pub' = pub \cup {new}
  <2>1. Rec!Current(n).ids[at[n].next] = new.id
    BY <1>6, <1>7 DEF Rec!Current, Rec!IdAt
  <2>2. pub' = {p \in pub : p.id # new.id} \cup {new}
    BY <2>1, <1>7 DEF Rec!OnPublish, Rec!Stamp
  <2> QED BY <2>2, <1>8
<1>10. Rec!Places(program)' = Rec!Places(program) /\ \A x : Rec!IdAt(program, x)' = Rec!IdAt(program, x)
  BY <1>0 DEF Rec!Places, Rec!IdAt
<1>11. ASSUME NEW x \in Rec!Places(program)
       PROVE  (Passed(x) => Passed(x)')
  <2>1. x[1] \in Fleet /\ x[2] \in Nat \ {0} /\ x[3] \in Nat \ {0}
    BY PlaceParts DEF RecInv, RecType
  <2>2. CASE x[1] = n
    BY <2>1, <2>2, <1>3, <1>5, NodeParts DEF Passed
  <2>3. CASE x[1] # n
    BY <2>1, <2>3, <1>5 DEF Passed
  <2> QED BY <2>2, <2>3
<1>12. ASSUME NEW x, x = here PROVE Passed(x)'
  BY <1>5, <1>6, <1>12 DEF Passed
<1>13. program \in Programs
  BY DEF RecInv, RecType
<1> HIDE DEF new, here
<1>14. RecType'
  <2>1. at' \in [Fleet -> [burst : Nat \ {0}, next : Nat, stamp : Nat, recorded : BOOLEAN]]
    BY <1>1, <1>2, <1>4
  <2>2. ASSUME NEW m \in Fleet
        PROVE  /\ at'[m].stamp <= time /\ (at'[m].recorded => at'[m].next > 0)
               /\ at'[m].next > 0 => <<m, at'[m].burst, at'[m].next>> \in Rec!Places(program)
    <3>1. CASE m = n
      BY <3>1, <1>3, <1>5, NodeParts
    <3>2. CASE m # n
      BY <3>2, <1>5, NodeParts
    <3> QED BY <3>1, <3>2
  <2>3. program' \in Programs /\ time' \in Nat /\ IsFiniteSet(arrivals')
    BY <1>0 DEF RecInv, RecType
  <2> QED BY <1>0, <1>10, <2>1, <2>2, <2>3 DEF RecType
<1>15. PubInv'
  <2>1. ASSUME NEW p \in pub'
        PROVE  p.at \in Nat /\ p.at <= time /\ p = [id |-> p.id, at |-> p.at]
    <3>1. CASE p \in pub
      BY <3>1 DEF RecInv, PubInv
    <3>2. CASE p = new
      BY <3>2, <1>7, NodeParts
    <3> QED BY <3>1, <3>2, <1>9
  <2>2. ASSUME NEW p \in pub'
        PROVE  \E x \in Rec!Places(program) : p.id = Rec!IdAt(program, x) /\ Passed(x)'
    <3>1. CASE p \in pub
      BY <3>1, <1>11 DEF RecInv, PubInv
    <3>2. CASE p = new
      BY <3>2, <1>6, <1>7, <1>12
    <3> QED BY <3>1, <3>2, <1>9
  <2>3. \A p, q \in pub' : p.id = q.id => p = q
    <3>1. \A p, q \in pub : p.id = q.id => p = q
      BY Zenon DEF RecInv, PubInv
    <3> QED BY <3>1, <1>8, <1>9
  <2>4. ASSUME NEW m \in Fleet, at'[m].recorded
        PROVE  \E p \in pub' : p.id = Rec!IdAt(program, <<m, at'[m].burst, at'[m].next>>)
    <3>1. CASE m = n
      BY <3>1, <1>5, <1>7, <1>9 DEF here
    <3>2. CASE m # n
      <4>1. at'[m] = at[m]
        BY <3>2, <1>5
      <4>2. \E p \in pub : p.id = Rec!IdAt(program, <<m, at[m].burst, at[m].next>>)
        BY <4>1, <2>4 DEF RecInv, PubInv
      <4> QED BY <4>1, <4>2, <1>9
    <3> QED BY <3>1, <3>2
  <2> QED BY <1>0, <1>10, <2>1, <2>2, <2>3, <2>4 DEF PubInv, Rec!IdAt, Passed
<1>16. StampInv'
  <2> SUFFICES ASSUME NEW p \in pub', NEW q \in pub', NEW x \in Rec!Places(program), NEW y \in Rec!Places(program),
                      p.id = Rec!IdAt(program, x), q.id = Rec!IdAt(program, y), x[1] = y[1], x[2] = y[2]
               PROVE  /\ p.at = q.at
                      /\ x[2] = at'[x[1]].burst => p.at = at'[x[1]].stamp
    BY <1>0, <1>10 DEF StampInv, Rec!IdAt
  <2>1. x[1] \in Fleet
    BY PlaceParts, <1>13
  <2>2. at'[x[1]].burst = at[x[1]].burst /\ at'[x[1]].stamp = at[x[1]].stamp
    BY <2>1, <1>5
  <2>3. ASSUME NEW r \in pub, NEW z \in Rec!Places(program), r.id = Rec!IdAt(program, z), z[1] = n, z[2] = at[n].burst
        PROVE  r.at = at[n].stamp
    BY <2>3 DEF RecInv, StampInv
  <2>4. p = new => x = here
    BY <1>6, <1>7, <1>13, OnePlace
  <2>5. q = new => y = here
    BY <1>6, <1>7, <1>13, OnePlace
  <2>6. CASE p \in pub /\ q \in pub
    BY <2>2, <2>6 DEF RecInv, StampInv
  <2>7. CASE p = new
    <3>1. x[1] = n /\ x[2] = at[n].burst /\ p.at = at[n].stamp
      BY <2>4, <2>7, <1>6, <1>7
    <3>2. q.at = at[n].stamp
      <4>1. CASE q = new
        BY <4>1, <1>7
      <4>2. CASE q \in pub
        BY <4>2, <3>1, <2>3
      <4> QED BY <4>1, <4>2, <1>9
    <3> QED BY <3>1, <3>2, <2>2
  <2>8. CASE q = new /\ p \in pub
    <3>1. x[1] = n /\ x[2] = at[n].burst /\ q.at = at[n].stamp
      BY <2>5, <2>8, <1>6, <1>7
    <3>2. p.at = at[n].stamp
      BY <3>1, <2>3, <2>8
    <3> QED BY <3>1, <3>2, <2>2
  <2> QED BY <2>6, <2>7, <2>8, <1>9
<1>17. HeardInv'
  <2>1. pub \subseteq pub'
    BY <1>9
  <2>2. \A id \in wire : \E p \in pub' : p.id = id
    BY <2>1 DEF RecInv, HeardInv
  <2>3. \A h \in heard : h.at \in Nat /\ \E a \in arrivals, p \in pub' : Matches(a, h, p)
    BY <2>1, Zenon DEF RecInv, HeardInv
  <2>4. \A a \in arrivals : a.delay \in Nat /\ \E h \in heard, p \in pub' : Matches(a, h, p)
    BY <2>1, Zenon DEF RecInv, HeardInv
  <2> QED BY <2>2, <2>3, <2>4, <1>0, Zenon DEF HeardInv, Matches
<1> QED BY <1>14, <1>15, <1>16, <1>17 DEF RecInv

\* A message goes to the network once it is recorded.
LEMMA RecPublish ==
  ASSUME Rec!Programmed, RecInv, NEW n \in Fleet, Rec!publish(n)
  PROVE  RecInv'
<1> DEFINE more == at[n].next < Len(Rec!Current(n).ids)
           w == IF more THEN [at[n] EXCEPT !.next = at[n].next + 1, !.recorded = FALSE]
                ELSE [at[n] EXCEPT !.burst = at[n].burst + 1, !.next = 0, !.recorded = FALSE]
           here == <<n, at[n].burst, at[n].next>>
<1>0. /\ program' = program /\ time' = time /\ pub' = pub /\ arrivals' = arrivals
      /\ heard' = heard
  BY DEF Rec!publish
<1>1. at' = [at EXCEPT ![n] = w]
  BY DEF Rec!publish
<1>2. at \in [Fleet -> [burst : Nat \ {0}, next : Nat, stamp : Nat, recorded : BOOLEAN]]
  BY DEF RecInv, RecType
<1>3. at[n].next > 0 /\ at[n].recorded = TRUE
  <2>1. at[n].next > 0 /\ at[n].recorded
    BY DEF Rec!publish, Rec!Publishing, Rec!Sendable
  <2>2. at[n].recorded \in BOOLEAN
    BY NodeParts
  <2> QED BY <2>1, <2>2
<1>4. w \in [burst : Nat \ {0}, next : Nat, stamp : Nat, recorded : BOOLEAN]
  <2>1. /\ at[n] \in [burst : Nat \ {0}, next : Nat, stamp : Nat, recorded : BOOLEAN]
        /\ at[n].next + 1 \in Nat /\ at[n].burst + 1 \in Nat \ {0}
    BY <1>2
  <2>2. CASE more
    BY <2>1, <2>2
  <2>3. CASE ~more
    BY <2>1, <2>3
  <2> QED BY <2>2, <2>3
<1>5. /\ more => at'[n].burst = at[n].burst /\ at'[n].next = at[n].next + 1
      /\ ~more => at'[n].burst = at[n].burst + 1 /\ at'[n].next = 0
      /\ at'[n].stamp = at[n].stamp /\ at'[n].recorded = FALSE
      /\ \A m \in Fleet : m # n => at'[m] = at[m]
  <2>1. at'[n] = w /\ \A m \in Fleet : m # n => at'[m] = at[m]
    BY <1>1, <1>2
  <2>2. /\ more => w.burst = at[n].burst /\ w.next = at[n].next + 1
        /\ ~more => w.burst = at[n].burst + 1 /\ w.next = 0
        /\ w.stamp = at[n].stamp /\ w.recorded = FALSE
    BY <1>2
  <2> QED BY <2>1, <2>2
<1> HIDE DEF w, more
<1>6. here \in Rec!Places(program)
  BY <1>3, NodeParts
<1>7. more => <<n, at[n].burst, at[n].next + 1>> \in Rec!Places(program)
  <2> SUFFICES ASSUME more PROVE <<n, at[n].burst, at[n].next + 1>> \in Rec!Places(program)
    OBVIOUS
  <2> USE DEF more
  <2>1. PICK m \in Fleet : \E b \in 1..Len(program[m]) : \E i \in 1..Len(program[m][b].ids) : here = <<m, b, i>>
    <3>1. InPlace(program, here)
      BY <1>6, PlaceIs
    <3> QED BY <3>1, Zenon DEF InPlace
  <2>2. PICK b \in 1..Len(program[m]) : \E i \in 1..Len(program[m][b].ids) : here = <<m, b, i>>
    BY <2>1
  <2>3. PICK i \in 1..Len(program[m][b].ids) : here = <<m, b, i>>
    BY <2>2
  <2>4. m = n /\ b = at[n].burst /\ i = at[n].next
    BY <2>3
  <2>5. Len(program[n][at[n].burst].ids) \in Nat
    BY <2>2, <2>4 DEF Rec!Programmed, RecInv, RecType
  <2>6. at[n].next + 1 \in 1..Len(program[n][at[n].burst].ids)
    <3>1. at[n].next \in Nat /\ at[n].next < Len(program[n][at[n].burst].ids)
      BY NodeParts DEF Rec!Current
    <3>2. PICK l \in Nat : l = Len(program[n][at[n].burst].ids)
      BY <2>5
    <3>3. PICK k \in Nat : k = at[n].next
      BY <3>1
    <3>4. k < l
      BY <3>1, <3>2, <3>3
    <3>5. k + 1 \in 1..l
      BY <3>4
    <3> QED BY <3>2, <3>3, <3>5
  <2>7. InPlace(program, <<n, at[n].burst, at[n].next + 1>>)
    BY <2>2, <2>4, <2>6 DEF InPlace
  <2> QED BY <2>7, PlaceIs
<1>8. ASSUME NEW x \in Rec!Places(program), Passed(x)
      PROVE  Passed(x)' /\ (x[2] = at'[x[1]].burst => at'[x[1]].burst = at[x[1]].burst)
  <2>1. x[1] \in Fleet /\ x[2] \in Nat \ {0} /\ x[3] \in Nat \ {0}
    BY PlaceParts DEF RecInv, RecType
  <2>2. CASE x[1] = n
    <3>0. at[n].burst \in Nat /\ at[n].next \in Nat
      BY NodeParts
    <3>1. x[2] < at[n].burst \/ (x[2] = at[n].burst /\ x[3] <= at[n].next)
      BY <2>1, <2>2, <1>8, <3>0 DEF Passed
    <3>2. CASE more
      <4>1. at'[n].burst = at[n].burst /\ at'[n].next = at[n].next + 1
        BY <3>2, <1>5
      <4>2. x[2] < at'[n].burst \/ (x[2] = at'[n].burst /\ x[3] < at'[n].next)
        BY <4>1, <3>0, <3>1, <2>1
      <4> QED BY <4>1, <4>2, <2>2 DEF Passed
    <3>3. CASE ~more
      <4>1. at'[n].burst = at[n].burst + 1
        BY <3>3, <1>5
      <4>2. x[2] < at'[n].burst
        BY <4>1, <3>0, <3>1, <2>1
      <4> QED BY <4>1, <4>2, <3>0, <2>1, <2>2 DEF Passed
    <3> QED BY <3>2, <3>3
  <2>3. CASE x[1] # n
    BY <2>1, <2>3, <1>5, <1>8 DEF Passed
  <2> QED BY <2>2, <2>3
<1>9. Rec!Places(program)' = Rec!Places(program) /\ \A x : Rec!IdAt(program, x)' = Rec!IdAt(program, x)
  BY <1>0 DEF Rec!Places, Rec!IdAt
<1>10. RecType'
  <2>1. at' \in [Fleet -> [burst : Nat \ {0}, next : Nat, stamp : Nat, recorded : BOOLEAN]]
    BY <1>1, <1>2, <1>4
  <2>2. ASSUME NEW m \in Fleet
        PROVE  /\ at'[m].stamp <= time /\ (at'[m].recorded => at'[m].next > 0)
               /\ at'[m].next > 0 => <<m, at'[m].burst, at'[m].next>> \in Rec!Places(program)
    <3>1. CASE m = n
      <4>1. CASE more
        BY <3>1, <4>1, <1>3, <1>5, <1>7, NodeParts
      <4>2. CASE ~more
        <5>1. at'[m].next = 0 /\ ~at'[m].recorded /\ at'[m].stamp = at[m].stamp
          BY <3>1, <4>2, <1>5
        <5>2. at[m].stamp <= time
          BY NodeParts
        <5> QED BY <5>1, <5>2
      <4> QED BY <4>1, <4>2
    <3>2. CASE m # n
      BY <3>2, <1>5, NodeParts
    <3> QED BY <3>1, <3>2
  <2>3. program' \in Programs /\ time' \in Nat /\ IsFiniteSet(arrivals')
    BY <1>0 DEF RecInv, RecType
  <2> QED BY <1>0, <1>9, <2>1, <2>2, <2>3 DEF RecType
<1>11. PubInv'
  <2>1. \A p \in pub : p.at \in Nat /\ p.at <= time /\ p = [id |-> p.id, at |-> p.at]
    BY Zenon DEF RecInv, PubInv
  <2>2. \A p \in pub : \E x \in Rec!Places(program) : p.id = Rec!IdAt(program, x) /\ Passed(x)'
    BY <1>8 DEF RecInv, PubInv
  <2>3. \A p, q \in pub : p.id = q.id => p = q
    BY Zenon DEF RecInv, PubInv
  <2>4. ASSUME NEW m \in Fleet, at'[m].recorded
        PROVE  \E p \in pub : p.id = Rec!IdAt(program, <<m, at'[m].burst, at'[m].next>>)
    <3>1. m # n
      BY <1>5, <2>4
    <3>2. at'[m] = at[m]
      BY <3>1, <1>5
    <3> QED BY <3>2, <2>4 DEF RecInv, PubInv
  <2> QED BY <1>0, <1>9, <2>1, <2>2, <2>3, <2>4 DEF PubInv, Rec!IdAt, Passed
<1>12. StampInv'
  <2> SUFFICES ASSUME NEW p \in pub, NEW q \in pub, NEW x \in Rec!Places(program), NEW y \in Rec!Places(program),
                      p.id = Rec!IdAt(program, x), q.id = Rec!IdAt(program, y), x[1] = y[1], x[2] = y[2]
               PROVE  /\ p.at = q.at
                      /\ x[2] = at'[x[1]].burst => p.at = at'[x[1]].stamp
    BY <1>0, <1>9 DEF StampInv, Rec!IdAt
  <2>1. /\ p.at = q.at
        /\ x[2] = at[x[1]].burst => p.at = at[x[1]].stamp
    BY DEF RecInv, StampInv
  <2>2. x[2] = at'[x[1]].burst => at'[x[1]].burst = at[x[1]].burst
    BY RecordedPassed, <1>8
  <2>3. x[1] \in Fleet
    BY PlaceParts DEF RecInv, RecType
  <2>4. at'[x[1]].stamp = at[x[1]].stamp
    BY <2>3, <1>5
  <2> QED BY <2>1, <2>2, <2>4
<1>13. HeardInv'
  <2>1. PICK p \in pub : p.id = Rec!IdAt(program, here)
    BY <1>3 DEF RecInv, PubInv
  <2>2. wire' = wire \cup {Rec!IdAt(program, here)}
    BY DEF Rec!publish, Rec!Current, Rec!IdAt
  <2>3. \A id \in wire' : \E q \in pub : q.id = id
    <3>1. \A id \in wire : \E q \in pub : q.id = id
      BY Zenon DEF RecInv, HeardInv
    <3> QED BY <2>1, <2>2, <3>1
  <2>4. \A h \in heard : h.at \in Nat /\ \E a \in arrivals, q \in pub : Matches(a, h, q)
    BY Zenon DEF RecInv, HeardInv
  <2>5. \A a \in arrivals : a.delay \in Nat /\ \E h \in heard, q \in pub : Matches(a, h, q)
    BY Zenon DEF RecInv, HeardInv
  <2> QED BY <2>3, <2>4, <2>5, <1>0, Zenon DEF HeardInv, Matches
<1> QED BY <1>10, <1>11, <1>12, <1>13 DEF RecInv

\* A delivery of a message is recorded with its delay since the burst: whatever is
\* on the wire has been recorded, so there is no orphan.
LEMMA RecOnReceive ==
  ASSUME Rec!Programmed, RecInv, NEW n \in Fleet, NEW id, Rec!OnReceive(n, id)
  PROVE  RecInv'
<1> DEFINE k == Rec!Copies(n, id) + 1
<1>0. /\ program' = program /\ time' = time /\ at' = at /\ pub' = pub /\ wire' = wire
      /\ heard' = heard \cup {[node |-> n, id |-> id, at |-> time, copy |-> k]}
  BY DEF Rec!OnReceive
<1>1. PICK p \in pub : p.id = id
  BY DEF RecInv, HeardInv, Rec!OnReceive
<1>2. {q \in pub : q.id = id} = {p}
  BY <1>1 DEF RecInv, PubInv
<1> HIDE DEF k
<1>3. arrivals' = arrivals \cup {[node |-> n, id |-> id, delay |-> time - p.at, copy |-> k]}
  <2>1. arrivals' = arrivals \cup
          {[node |-> n, id |-> id, delay |-> time - q.at, copy |-> k] : q \in {q \in pub : q.id = id}}
    BY <1>2 DEF Rec!OnReceive, k
  <2> QED BY <2>1, <1>2
<1>4. p.at \in Nat /\ p.at <= time /\ time \in Nat
  BY DEF RecInv, PubInv, RecType
<1>5. PICK a : a = [node |-> n, id |-> id, delay |-> time - p.at, copy |-> k]
  OBVIOUS
<1>6. PICK h : h = [node |-> n, id |-> id, at |-> time, copy |-> k]
  OBVIOUS
<1>7. Matches(a, h, p) /\ h.at \in Nat /\ a.delay \in Nat
  BY <1>1, <1>4, <1>5, <1>6 DEF Matches
<1>8. arrivals' = arrivals \cup {a} /\ heard' = heard \cup {h}
  BY <1>0, <1>3, <1>5, <1>6
<1>9. RecType'
  <2>1. IsFiniteSet(arrivals)
    BY DEF RecInv, RecType
  <2>2. IsFiniteSet(arrivals')
    BY <1>8, <2>1, FS_AddElement, Zenon
  <2>3. Rec!Places(program)' = Rec!Places(program)
    BY <1>0 DEF Rec!Places
  <2> QED BY <1>0, <2>2, <2>3 DEF RecInv, RecType
<1>10. PubInv'
  BY <1>0 DEF RecInv, PubInv, Rec!Places, Rec!IdAt, Passed
<1>11. StampInv'
  <2>1. pub' = pub /\ program' = program /\ at' = at
    BY <1>0
  <2>2. Rec!Places(program)' = Rec!Places(program) /\ \A x : Rec!IdAt(program, x)' = Rec!IdAt(program, x)
    BY <2>1 DEF Rec!Places, Rec!IdAt
  <2> QED BY <2>1, <2>2 DEF RecInv, StampInv
<1>12. HeardInv'
  <2>1. \A i \in wire : \E q \in pub : q.id = i
    BY Zenon DEF RecInv, HeardInv
  <2>2. \A g \in heard : g.at \in Nat /\ \E b \in arrivals, q \in pub : Matches(b, g, q)
    BY Zenon DEF RecInv, HeardInv
  <2>3. \A b \in arrivals : b.delay \in Nat /\ \E g \in heard, q \in pub : Matches(b, g, q)
    BY Zenon DEF RecInv, HeardInv
  <2>4. ASSUME NEW g \in heard' PROVE g.at \in Nat /\ \E b \in arrivals', q \in pub : Matches(b, g, q)
    BY <1>7, <1>8, <2>2
  <2>5. ASSUME NEW b \in arrivals' PROVE b.delay \in Nat /\ \E g \in heard', q \in pub : Matches(b, g, q)
    BY <1>7, <1>8, <2>3
  <2> QED BY <1>0, <2>1, <2>4, <2>5, Zenon DEF HeardInv, Matches
<1> QED BY <1>9, <1>10, <1>11, <1>12 DEF RecInv

\* The clock moves on.
LEMMA RecTick == ASSUME Rec!Programmed, RecInv, Rec!Tick PROVE RecInv'
<1>1. /\ program' = program /\ time' = time + 1 /\ at' = at /\ pub' = pub /\ arrivals' = arrivals
      /\ wire' = wire /\ heard' = heard /\ time \in Nat
  BY DEF Rec!Tick, RecInv, RecType
<1>2. Rec!Places(program)' = Rec!Places(program) /\ \A x : Rec!IdAt(program, x)' = Rec!IdAt(program, x)
  BY <1>1 DEF Rec!Places, Rec!IdAt
<1>3. RecType'
  <2>1. ASSUME NEW n \in Fleet PROVE at[n].stamp <= time'
    <3>1. at[n].stamp \in Nat /\ at[n].stamp <= time
      BY NodeParts
    <3> QED BY <1>1, <3>1
  <2>2. time' \in Nat
    BY <1>1
  <2> QED BY <1>1, <1>2, <2>1, <2>2 DEF RecInv, RecType
<1>4. PubInv'
  <2>1. ASSUME NEW p \in pub PROVE p.at \in Nat /\ p.at <= time' /\ p = [id |-> p.id, at |-> p.at]
    <3>1. p.at \in Nat /\ p.at <= time /\ p = [id |-> p.id, at |-> p.at]
      BY DEF RecInv, PubInv
    <3> QED BY <1>1, <3>1
  <2> QED BY <1>1, <1>2, <2>1 DEF RecInv, PubInv, Rec!IdAt, Passed
<1>5. StampInv'
  BY <1>1, <1>2 DEF RecInv, StampInv, Rec!IdAt
<1>6. HeardInv'
  BY <1>1, HeardKept
<1> QED BY <1>3, <1>4, <1>5, <1>6 DEF RecInv

\* Nothing that happens while the slot runs disturbs the record.
LEMMA RecNext == ASSUME Rec!Programmed, RecInv, [Rec!Next]_(Rec!vars) PROVE RecInv'
<1>1. CASE Rec!Tick
  BY <1>1, RecTick
<1>2. ASSUME NEW n \in Fleet, Rec!begin(n) PROVE RecInv'
  BY <1>2, RecBegin
<1>3. ASSUME NEW n \in Fleet, Rec!OnPublish(n) PROVE RecInv'
  BY <1>3, RecOnPublish
<1>4. ASSUME NEW n \in Fleet, Rec!publish(n) PROVE RecInv'
  BY <1>4, RecPublish
<1>5. ASSUME NEW n \in Fleet, NEW id \in Rec!IDs, Rec!OnReceive(n, id) PROVE RecInv'
  BY <1>5, RecOnReceive
<1>6. CASE UNCHANGED Rec!vars
  <2>1. /\ program' = program /\ time' = time /\ at' = at /\ pub' = pub /\ arrivals' = arrivals
        /\ wire' = wire /\ heard' = heard
    BY <1>6 DEF Rec!vars
  <2>2. Rec!Places(program)' = Rec!Places(program) /\ \A x : Rec!IdAt(program, x)' = Rec!IdAt(program, x)
    BY <2>1 DEF Rec!Places, Rec!IdAt
  <2>3. RecType' /\ StampInv'
    BY <2>1, <2>2 DEF RecInv, RecType, StampInv, Rec!IdAt
  <2>4. PubInv'
    BY <2>1, <2>2 DEF RecInv, PubInv, Rec!IdAt, Passed
  <2> QED BY <2>1, <2>3, <2>4, HeardKept DEF RecInv
<1> QED BY <1>1, <1>2, <1>3, <1>4, <1>5, <1>6 DEF Rec!Next

\* A recorded column of a slot that has a block went out with the block.
LEMMA ColumnWithBlock ==
  ASSUME Rec!Programmed, RecInv, NEW q \in pub, q.id = Rec!BlockID(Proposer),
         NEW p \in pub, p.id.kind = "column"
  PROVE  p.at = q.at /\ p.id = Rec!ColumnID(p.id.subnet, Proposer)
<1>1. PICK x \in Rec!Places(program) : p.id = Rec!IdAt(program, x)
  BY DEF RecInv, PubInv
<1>2. PICK y \in Rec!Places(program) : q.id = Rec!IdAt(program, y)
  BY DEF RecInv, PubInv
<1>3. q.id.kind = "block"
  BY DEF Rec!BlockID, Rec!MsgID
<1>4. program \in Programs
  BY DEF RecInv, RecType
<1>5. y[1] = x[1] /\ y[2] = x[2] /\ p.id = Rec!ColumnID(p.id.subnet, Proposer)
  BY <1>1, <1>2, <1>3, <1>4 DEF Rec!Programmed
<1> QED BY <1>1, <1>2, <1>5 DEF RecInv, StampInv

\* The rate, from the invariant: with the block out at the slot's start, a column
\* is in time for the record exactly when it was heard by the deadline.
LEMMA RateFromInv == ASSUME Rec!Programmed, RecInv PROVE Rec!RateMatchesGate
<1> SUFFICES ASSUME [id |-> Rec!BlockID(Proposer), at |-> 0] \in pub
             PROVE  Rec!CustodyCompleteRate[1] = Cardinality({n \in Rec!Custodiers : Rec!CustodyBy(n, Due)})
  BY RecCount DEF Rec!RateMatchesGate
<1> DEFINE arrived(n) == {a.id.subnet : a \in {b \in arrivals : b.node = n /\ b.id.kind = "column" /\ Rec!InTime(b)}}
<1>1. PICK q \in pub : q.id = Rec!BlockID(Proposer) /\ q.at = 0
  OBVIOUS
<1>2. Rec!BlockOrigins = {Proposer}
  <2>1. q.id.kind = "block" /\ q.id.origin = Proposer
    BY <1>1 DEF Rec!BlockID, Rec!MsgID
  <2>2. ASSUME NEW p \in pub, p.id.kind = "block" PROVE p.id.origin = Proposer
    <3>1. PICK x \in Rec!Places(program) : p.id = Rec!IdAt(program, x)
      BY DEF RecInv, PubInv
    <3>2. p.id = Rec!BlockID(Proposer)
      BY <3>1, <2>2 DEF Rec!Programmed, RecInv, RecType
    <3> QED BY <3>2 DEF Rec!BlockID, Rec!MsgID
  <2> QED BY <2>1, <2>2 DEF Rec!BlockOrigins
<1>3. ASSUME NEW n, NEW c
      PROVE  c \in arrived(n) <=> Rec!HeardBy(n, Rec!ColumnID(c, Proposer), Due)
  <2>1. ASSUME c \in arrived(n) PROVE Rec!HeardBy(n, Rec!ColumnID(c, Proposer), Due)
    <3>1. PICK a \in arrivals : a.node = n /\ a.id.kind = "column" /\ a.delay <= Due /\ a.id.subnet = c
      BY <2>1 DEF Rec!InTime
    <3>2. PICK h \in heard, p \in pub : Matches(a, h, p)
      BY DEF RecInv, HeardInv
    <3>3. a.id = h.id /\ p.id = h.id /\ a.node = h.node /\ a.delay = h.at - p.at /\ h.at \in Nat
      BY <3>2 DEF Matches, RecInv, HeardInv
    <3>4. p.at = 0 /\ p.id = Rec!ColumnID(c, Proposer)
      BY <1>1, <3>1, <3>3, ColumnWithBlock
    <3>5. h.at <= Due
      BY <3>1, <3>3, <3>4
    <3> QED BY <3>1, <3>3, <3>4, <3>5 DEF Rec!HeardBy
  <2>2. ASSUME Rec!HeardBy(n, Rec!ColumnID(c, Proposer), Due) PROVE c \in arrived(n)
    <3>1. PICK h \in heard : h.node = n /\ h.id = Rec!ColumnID(c, Proposer) /\ h.at <= Due
      BY <2>2 DEF Rec!HeardBy
    <3>2. PICK a \in arrivals, p \in pub : Matches(a, h, p)
      BY DEF RecInv, HeardInv
    <3>3. a.id = h.id /\ p.id = h.id /\ a.node = h.node /\ a.delay = h.at - p.at /\ h.at \in Nat
      BY <3>2 DEF Matches, RecInv, HeardInv
    <3>4. h.id.kind = "column" /\ h.id.subnet = c
      BY <3>1 DEF Rec!ColumnID, Rec!MsgID
    <3>5. p.at = 0
      BY <1>1, <3>3, <3>4, ColumnWithBlock
    <3>6. a.delay <= Due
      BY <3>1, <3>3, <3>5
    <3> QED BY <3>1, <3>3, <3>4, <3>6 DEF Rec!InTime
  <2> QED BY <2>1, <2>2
<1>4. Rec!CustodyCompleteRate[1] =
        Cardinality({n \in {m \in Fleet : Custody[m] # {}} : n \in Rec!BlockOrigins \/ Custody[n] \subseteq arrived(n)})
  BY RecCount DEF Rec!CustodyCompleteRate
<1>5. ASSUME NEW n
      PROVE  (n \in Rec!BlockOrigins \/ Custody[n] \subseteq arrived(n)) <=> Rec!CustodyBy(n, Due)
  <2> HIDE DEF arrived
  <2> QED BY <1>2, <1>3 DEF Rec!CustodyBy
<1>6. {n \in {m \in Fleet : Custody[m] # {}} : n \in Rec!BlockOrigins \/ Custody[n] \subseteq arrived(n)}
        = {n \in Rec!Custodiers : Rec!CustodyBy(n, Due)}
  <2> HIDE DEF arrived
  <2> QED BY <1>5 DEF Rec!Custodiers
<1> QED BY <1>4, <1>6

\* The coverage, from the invariant.
LEMMA CoverageFromInv == ASSUME Rec!Programmed, RecInv PROVE Rec!CoverageTruthful
<1> DEFINE votes == {p.id : p \in {q \in pub : q.id.kind = "finalityVote"}}
           pairs == {va \in votes \X Aggregators : va[2] # va[1].origin}
           told == {va \in {p.id : p \in pub} \X Aggregators :
                      va[1].kind = "finalityVote" /\ va[2] # va[1].origin}
           PublishedAt(id) == (CHOOSE p \in pub : p.id = id).at
           Came(va) == \E a \in arrivals : a.id = va[1] /\ a.node = va[2] /\ Rec!InTime(a)
           Got(va) == Rec!HeardBy(va[2], va[1], PublishedAt(va[1]) + Due)
<1>1. pairs = told
  <2>1. ASSUME NEW v PROVE v \in votes <=> v \in {p.id : p \in pub} /\ v.kind = "finalityVote"
    OBVIOUS
  <2> HIDE DEF votes
  <2> QED BY <2>1
<1>2. ASSUME NEW p \in pub PROVE PublishedAt(p.id) = p.at
  <2>1. (CHOOSE q \in pub : q.id = p.id) \in pub /\ (CHOOSE q \in pub : q.id = p.id).id = p.id
    OBVIOUS
  <2>2. (CHOOSE q \in pub : q.id = p.id) = p
    BY <2>1 DEF RecInv, PubInv
  <2> QED BY <2>2
<1>3. ASSUME NEW va \in told PROVE Came(va) <=> Got(va)
  <2>1. PICK p \in pub : p.id = va[1]
    OBVIOUS
  <2>2. PublishedAt(va[1]) = p.at /\ p.at \in Nat /\ Due \in Int
    BY <1>2, <2>1 DEF RecInv, PubInv, Rec!Programmed
  <2> HIDE DEF told, PublishedAt
  <2>3. ASSUME Came(va) PROVE Got(va)
    <3>1. PICK a \in arrivals : a.id = va[1] /\ a.node = va[2] /\ a.delay <= Due
      BY <2>3 DEF Rec!InTime
    <3>2. PICK h \in heard, q \in pub : Matches(a, h, q)
      BY DEF RecInv, HeardInv
    <3>3. a.id = h.id /\ q.id = h.id /\ a.node = h.node /\ a.delay = h.at - q.at /\ h.at \in Nat
      BY <3>2 DEF Matches, RecInv, HeardInv
    <3>4. q = p
      BY <2>1, <3>1, <3>3 DEF RecInv, PubInv
    <3>5. h.at <= PublishedAt(va[1]) + Due
      BY <2>2, <3>1, <3>3, <3>4
    <3> QED BY <3>1, <3>3, <3>5 DEF Rec!HeardBy
  <2>4. ASSUME Got(va) PROVE Came(va)
    <3>1. PICK h \in heard : h.node = va[2] /\ h.id = va[1] /\ h.at <= PublishedAt(va[1]) + Due
      BY <2>4 DEF Rec!HeardBy
    <3>2. PICK a \in arrivals, q \in pub : Matches(a, h, q)
      BY DEF RecInv, HeardInv
    <3>3. a.id = h.id /\ q.id = h.id /\ a.node = h.node /\ a.delay = h.at - q.at /\ h.at \in Nat
      BY <3>2 DEF Matches, RecInv, HeardInv
    <3>4. q = p
      BY <2>1, <3>1, <3>3 DEF RecInv, PubInv
    <3>5. a.delay <= Due
      BY <2>2, <3>1, <3>3, <3>4
    <3> QED BY <3>1, <3>3, <3>5 DEF Rec!InTime
  <2> QED BY <2>3, <2>4
<1>4. Rec!FinalityCoverageAtDeadline = <<Cardinality({va \in pairs : Came(va)}), Cardinality(pairs)>>
  BY RecCount DEF Rec!FinalityCoverageAtDeadline
<1>5. {va \in pairs : Came(va)} = {va \in told : Got(va)}
  <2> HIDE DEF pairs, told, Came, Got
  <2> QED BY <1>1, <1>3
<1>6. Rec!CoverageTruthful <=>
        Rec!FinalityCoverageAtDeadline = <<Cardinality({va \in told : Got(va)}), Cardinality(told)>>
  BY RecCount DEF Rec!CoverageTruthful
<1> HIDE DEF pairs, told, Came, Got
<1> QED BY <1>1, <1>4, <1>5, <1>6

\* A non-empty set of natural numbers has a least element.
LEMMA LeastDelay ==
  ASSUME NEW T, T \subseteq Nat, T # {}
  PROVE  \E n \in T : \A m \in T : n <= m
<1>1. PICK n \in T : \A m \in T : ~ (<<m, n>> \in OpToRel(<, Nat))
  BY NatLessThanWellFounded, WFMin, Zenon
<1>2. ASSUME NEW m \in T PROVE n <= m
  <2>1. ~ (<<m, n>> \in OpToRel(<, Nat))
    BY <1>1
  <2>2. m \in Nat /\ n \in Nat
    OBVIOUS
  <2>3. ~ (m < n)
    BY <2>1, <2>2 DEF OpToRel
  <2> QED BY <2>2, <2>3
<1> QED BY <1>2

\* Among finitely many arrivals one is the latest: the one with the fewest after it.
LEMMA LatestArrival ==
  ASSUME NEW S, S # {}, IsFiniteSet(S), \A a \in S : a.delay \in Nat
  PROVE  \E m \in S : \A a \in S : a.delay <= m.delay
<1> DEFINE After(m) == {a \in S : a.delay > m.delay}
           T == {Cardinality(After(m)) : m \in S}
<1>1. ASSUME NEW m PROVE IsFiniteSet(After(m)) /\ Cardinality(After(m)) \in Nat
  <2>1. After(m) \subseteq S
    OBVIOUS
  <2>2. IsFiniteSet(After(m))
    BY <2>1, FS_Subset
  <2> QED BY <2>2, FS_CardinalityType
<1>2. PICK k \in T : \A j \in T : k <= j
  <2>1. T \subseteq Nat /\ T # {}
    BY <1>1
  <2> QED BY <2>1, LeastDelay
<1>3. PICK m \in S : k = Cardinality(After(m))
  OBVIOUS
<1>4. ASSUME NEW a \in S PROVE a.delay <= m.delay
  <2> SUFFICES ASSUME ~(a.delay <= m.delay) PROVE FALSE
    OBVIOUS
  <2>1. a.delay > m.delay /\ a.delay \in Nat /\ m.delay \in Nat
    OBVIOUS
  <2>2. After(a) \subseteq After(m) /\ a \in After(m) /\ a \notin After(a)
    BY <2>1
  <2>3. Cardinality(After(a)) \in T
    OBVIOUS
  <2>4. After(a) # After(m)
    BY <2>2
  <2> HIDE DEF After, T
  <2>5. PICK i \in Nat, j \in Nat : i = Cardinality(After(a)) /\ j = Cardinality(After(m))
    BY <1>1
  <2>6. i <= j /\ (i = j => After(a) = After(m))
    BY <1>1, <2>2, <2>5, FS_Subset
  <2>7. j <= i
    BY <1>2, <1>3, <2>3, <2>5
  <2>8. i = j
    BY <2>6, <2>7
  <2> QED BY <2>4, <2>6, <2>8
<1> QED BY <1>4

\* The counts of a set of arrivals.
LEMMA CountTypes ==
  ASSUME RecInv, NEW d
  PROVE  /\ IsFiniteSet({a \in arrivals : a.delay < d}) /\ Rec!Below(d) \in Nat
         /\ IsFiniteSet({a \in arrivals : a.delay <= d}) /\ Rec!UpTo(d) \in Nat
<1>1. IsFiniteSet(arrivals)
  BY DEF RecInv, RecType
<1>2. {a \in arrivals : a.delay < d} \subseteq arrivals /\ {a \in arrivals : a.delay <= d} \subseteq arrivals
  OBVIOUS
<1>3. IsFiniteSet({a \in arrivals : a.delay < d}) /\ IsFiniteSet({a \in arrivals : a.delay <= d})
  BY <1>1, <1>2, FS_Subset
<1> QED BY <1>3, FS_CardinalityType, RecCount DEF Rec!Below, Rec!UpTo

\* Every place of the sorted delays has its delay: the least one that at least so
\* many arrivals do not exceed.
LEMMA PlaceHasDelay ==
  ASSUME RecInv, NEW r \in 1..Cardinality(arrivals)
  PROVE  \E d \in {a.delay : a \in arrivals} : Rec!Below(d) < r /\ r <= Rec!UpTo(d)
<1> DEFINE T == {d \in {a.delay : a \in arrivals} : r <= Rec!UpTo(d)}
<1>1. IsFiniteSet(arrivals) /\ \A a \in arrivals : a.delay \in Nat
  BY DEF RecInv, RecType, HeardInv
<1>2. Cardinality(arrivals) \in Nat
  BY <1>1, FS_CardinalityType
<1>3. arrivals # {}
  BY <1>2, FS_EmptySet
<1>4. PICK m \in arrivals : \A a \in arrivals : a.delay <= m.delay
  BY <1>1, <1>3, LatestArrival
<1>5. Rec!UpTo(m.delay) = Cardinality(arrivals)
  <2>1. {a \in arrivals : a.delay <= m.delay} = arrivals
    BY <1>4
  <2> QED BY <2>1, RecCount DEF Rec!UpTo
<1>6. m.delay \in T
  BY <1>2, <1>5
<1>7. PICK d \in T : \A e \in T : d <= e
  <2>1. T \subseteq Nat /\ T # {}
    BY <1>1, <1>6
  <2> QED BY <2>1, LeastDelay
<1>8. Rec!Below(d) < r
  <2> SUFFICES ASSUME ~(Rec!Below(d) < r) PROVE FALSE
    OBVIOUS
  <2> DEFINE S == {a \in arrivals : a.delay < d}
  <2>1. Rec!Below(d) = Cardinality(S) /\ Cardinality(S) \in Nat /\ IsFiniteSet(S)
    BY CountTypes, RecCount DEF Rec!Below
  <2>2. S # {}
    <3>1. Cardinality(S) # 0
      BY <2>1, <1>2
    <3> QED BY <3>1, FS_EmptySet
  <2>3. PICK l \in S : \A a \in S : a.delay <= l.delay
    BY <2>1, <2>2, <1>1, LatestArrival
  <2>4. {a \in arrivals : a.delay <= l.delay} = S
    <3>1. l \in arrivals /\ l.delay < d /\ l.delay \in Nat /\ d \in Nat
      BY <1>1
    <3>2. ASSUME NEW a \in arrivals, a.delay <= l.delay PROVE a.delay < d
      BY <3>1, <3>2, <1>1
    <3> QED BY <3>2, <2>3
  <2>5. Rec!UpTo(l.delay) = Cardinality(S)
    BY <2>4, RecCount DEF Rec!UpTo
  <2>6. l.delay \in T
    BY <2>1, <2>5, <1>2
  <2>7. l.delay < d /\ l.delay \in Nat /\ d \in Nat
    BY <1>1
  <2> QED BY <1>7, <2>6, <2>7
<1> QED BY <1>7, <1>8

\* The length of the sorted delays, and what is in each place.
LEMMA SortedHolds ==
  ASSUME RecInv, NEW r \in 1..Cardinality(arrivals)
  PROVE  /\ Rec!Below(Rec!Sorted[r]) < r /\ r <= Rec!UpTo(Rec!Sorted[r])
         /\ Rec!Sorted[r] \in {a.delay : a \in arrivals}
<1> DEFINE D == {a.delay : a \in arrivals}
           v == CHOOSE d \in D : Rec!Below(d) < r /\ r <= Rec!UpTo(d)
<1>1. Rec!Sorted[r] = v
  BY RecCount DEF Rec!Sorted
<1>2. \E d \in D : Rec!Below(d) < r /\ r <= Rec!UpTo(d)
  BY PlaceHasDelay
<1>3. v \in D /\ Rec!Below(v) < r /\ r <= Rec!UpTo(v)
  <2> HIDE DEF D
  <2> QED BY <1>2
<1> HIDE DEF v
<1> QED BY <1>1, <1>3

\* As many places as arrivals.
LEMMA SortedLength == ASSUME RecInv PROVE Len(Rec!Sorted) = Cardinality(arrivals)
<1> DEFINE D == {a.delay : a \in arrivals}
           n == Cardinality(arrivals)
<1>1. n \in Nat
  BY FS_CardinalityType DEF RecInv, RecType
<1>2. DOMAIN Rec!Sorted = 1..n /\ Rec!Sorted = [r \in 1..n |-> Rec!Sorted[r]]
  BY RecCount DEF Rec!Sorted
<1>3. \A r \in 1..n : Rec!Sorted[r] \in D
  BY SortedHolds
<1> HIDE DEF D, n
<1>4. Rec!Sorted \in Seq(D)
  <2>1. Rec!Sorted \in [1..n -> D]
    BY <1>2, <1>3
  <2> QED BY <1>1, <2>1
<1>5. Len(Rec!Sorted) \in Nat /\ DOMAIN Rec!Sorted = 1..Len(Rec!Sorted)
  BY <1>4
<1>6. Len(Rec!Sorted) = n
  BY <1>1, <1>2, <1>5
<1> QED BY <1>6 DEF n

\* The nearest rank of a percentile: in range, and p percent of n rounded up.
LEMMA NearestRank ==
  ASSUME NEW n \in Nat \ {0}, NEW p \in {50, 90, 99, 100}
  PROVE  LET r == (p * n + 99) \div 100
         IN  r \in 1..n /\ 100 * r >= p * n /\ 100 * (r - 1) < p * n
<1>1. CASE p = 50
  BY <1>1
<1>2. CASE p = 90
  BY <1>2
<1>3. CASE p = 99
  BY <1>3
<1>4. CASE p = 100
  BY <1>4
<1> QED BY <1>1, <1>2, <1>3, <1>4

\* The percentiles, from the invariant.
LEMMA PercentilesFromInv == ASSUME RecInv PROVE Rec!PercentilesSound
<1> SUFFICES ASSUME arrivals # {}, NEW p \in {50, 90, 99, 100}
             PROVE  /\ 100 * Rec!UpTo(Rec!Summarize[p]) >= p * Cardinality(arrivals)
                    /\ 100 * Rec!Below(Rec!Summarize[p]) < p * Cardinality(arrivals)
  BY RecCount DEF Rec!PercentilesSound
<1>1. PICK n \in Nat \ {0} : n = Cardinality(arrivals)
  <2>1. IsFiniteSet(arrivals)
    BY DEF RecInv, RecType
  <2> QED BY <2>1, FS_CardinalityType, FS_EmptySet
<1>2. PICK r \in 1..n : r = (p * n + 99) \div 100 /\ 100 * r >= p * n /\ 100 * (r - 1) < p * n
  BY NearestRank
<1>3. Rec!Summarize[p] = Rec!Sorted[r]
  <2>1. Rec!Summarize[p] = Rec!percentile(Rec!Sorted, p)
    BY DEF Rec!Summarize
  <2>2. Len(Rec!Sorted) = n
    BY <1>1, SortedLength
  <2>3. Rec!percentile(Rec!Sorted, p) = Rec!Sorted[IF r < 1 THEN 1 ELSE r]
    BY <1>2, <2>2 DEF Rec!percentile
  <2>4. ~(r < 1)
    OBVIOUS
  <2> QED BY <2>1, <2>3, <2>4
<1>4. PICK v : v = Rec!Sorted[r]
  OBVIOUS
<1>5. Rec!Below(v) < r /\ r <= Rec!UpTo(v) /\ Rec!Below(v) \in Nat /\ Rec!UpTo(v) \in Nat
  <2>1. Rec!Below(v) < r /\ r <= Rec!UpTo(v)
    BY <1>1, <1>4, SortedHolds
  <2> QED BY <2>1, CountTypes
<1>6. p * n \in Nat
  OBVIOUS
<1>7. 100 * Rec!UpTo(v) >= p * n /\ 100 * Rec!Below(v) < p * n
  BY <1>2, <1>5, <1>6
<1> QED BY <1>1, <1>3, <1>4, <1>7

\* The record is sound in every state of the run.
LEMMA RecInvAlways == Rec!Programmed => (Rec!Spec => []RecInv)
<1> SUFFICES ASSUME Rec!Programmed PROVE Rec!Spec => []RecInv
  OBVIOUS
<1>1. Rec!Init => RecInv
  BY RecInit
<1>2. RecInv /\ [Rec!Next]_(Rec!vars) => RecInv'
  BY RecNext
<1> QED BY <1>1, <1>2, PTL DEF Rec!Spec

\* CustodyCompleteRate is the share of custodiers whose custody was complete when
\* the vote's gate looks, for every fleet, custody and program: the deliveries and
\* the record match message by message, and a column's delay counts from the
\* instant of the block's burst.
THEOREM RateIsTheGate == Rec!Spec => []RateMatchesGate
<1>1. RecInv => RateMatchesGate
  BY ProgramsRun, RateFromInv DEF RateMatchesGate
<1>2. Rec!Spec => []RecInv
  BY ProgramsRun, RecInvAlways
<1> QED BY <1>1, <1>2, PTL

\* The finality coverage and the percentiles of the report agree with what the
\* network delivered, for every fleet and program, over losses, duplicates and
\* any order of delivery.
THEOREM FiguresAreTruthful == Rec!Spec => []FiguresTruthful
<1>1. RecInv => FiguresTruthful
  BY ProgramsRun, CoverageFromInv, PercentilesFromInv DEF FiguresTruthful, Rec!FiguresTruthful
<1>2. Rec!Spec => []RecInv
  BY ProgramsRun, RecInvAlways
<1> QED BY <1>1, <1>2, PTL
=============================================================================
