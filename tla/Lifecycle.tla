----------------------------- MODULE Lifecycle -----------------------------
(***************************************************************************)
(* A run from the first process to the last Close, on either backend.      *)
(* Under Shadow every host runs main() by itself: start, a short random    *)
(* pause, the base dials, the mesh-join stagger, JoinTopics and Prepare,   *)
(* then NodeRunner.Run from the shared runStart, a drain, Close; Shadow    *)
(* kills whatever runs at stop_time.  On simnet one driver goroutine takes *)
(* all nodes through Driver.BringUp, starts the runners and waits for them. *)
(* Computation takes no time; sleeps and dials do.                         *)
(***************************************************************************)
EXTENDS Integers, FiniteSets, FiniteSetsExt

CONSTANTS
  N,            \* nodes, 0 .. N-1
  Backends,     \* a subset of {"shadow", "simnet"}
  Startup,      \* -startup, from programStart to slot 0 (Shadow)
  DialJitter,   \* main's pause before dialing: 0 .. DialJitter-1
  MeshJoinStagger,
  Settle,       \* BringUp's two sleeps
  MaxDial,      \* bound: the longest ConnectToPeers
  SlotDur, NumSlots,
  DrainWindow,  \* main's drain
  StopMargin,   \* simctl's 30 s on top of the drain slot
  Minute, StopMinutes, \* Shadow's unit of stop_time, and the config's floor
  MaxFail       \* bound: nodes whose Start or JoinTopics fails

ASSUME LifecycleConstants ==
  /\ {N, DialJitter, MeshJoinStagger, SlotDur, NumSlots, DrainWindow, Minute} \subseteq Nat \ {0}
  /\ {Startup, Settle, MaxDial, StopMargin, StopMinutes, MaxFail} \subseteq Nat
  /\ Backends \subseteq {"shadow", "simnet"}
  /\ Startup > MeshJoinStagger \* main refuses to start otherwise

VARIABLES
  backend,
  now,
  pc,        \* node -> where its goroutine (Shadow: its main) is
  wake,      \* node -> the instant its current sleep or dial ends
  runStart,  \* node -> the origin its NodeRunner.Run is given; -1: not yet
  slot,      \* node -> the slot NodeRunner.Run begins next
  driver,    \* simnet: where Driver is; Shadow: "none", then "stopped"
  todo,      \* simnet: the nodes left in the driver's current loop
  dwake,     \* simnet: the driver's sleep or dial
  joinedAt, begunAt, endedAt, closedAt  \* history; -1: not yet

vars == <<backend, now, pc, wake, runStart, slot, driver, todo, dwake, joinedAt, begunAt, endedAt, closedAt>>
history == <<joinedAt, begunAt, endedAt, closedAt>>
dvars == <<driver, todo, dwake>>
runner == <<runStart, slot>>

Nodes == 0 .. N - 1
Slots == 0 .. NumSlots - 1

Init ==
  /\ backend \in Backends
  /\ now = 0
  /\ pc = [n \in Nodes |-> "start"]
  /\ wake = [n \in Nodes |-> 0]
  /\ runStart = [n \in Nodes |-> -1]
  /\ slot = [n \in Nodes |-> 0]
  /\ driver = IF backend = "simnet" THEN "start" ELSE "none"
  /\ todo = Nodes /\ dwake = 0
  /\ joinedAt = [n \in Nodes |-> -1]
  /\ begunAt = [n \in Nodes |-> [s \in Slots |-> -1]]
  /\ endedAt = [n \in Nodes |-> -1]
  /\ closedAt = [n \in Nodes |-> -1]

Failed == {n \in Nodes : pc[n] = "failed"}

(***************************************************************************)
(* Shadow: main()                                                          *)
(***************************************************************************)
\* nd.Start, then the pause before dialing; log.Fatalf if it fails.
hostStart(n) ==
  /\ backend = "shadow" /\ pc[n] = "start"
  /\ \/ /\ pc' = [pc EXCEPT ![n] = "pause"]
        /\ \E d \in 0 .. DialJitter - 1 : wake' = [wake EXCEPT ![n] = now + d]
     \/ /\ Cardinality(Failed) < MaxFail
        /\ pc' = [pc EXCEPT ![n] = "failed"]
        /\ UNCHANGED wake
  /\ UNCHANGED <<backend, now, runner, dvars, history>>

\* ConnectToPeers returns when the last handshake has ended or failed.
hostConnect(n) ==
  /\ backend = "shadow" /\ pc[n] = "pause" /\ wake[n] = now
  /\ pc' = [pc EXCEPT ![n] = "dialing"]
  /\ \E d \in 0 .. MaxDial : wake' = [wake EXCEPT ![n] = now + d]
  /\ UNCHANGED <<backend, now, runner, dvars, history>>

hostStagger(n) ==
  /\ backend = "shadow" /\ pc[n] = "dialing" /\ wake[n] = now
  /\ pc' = [pc EXCEPT ![n] = "stagger"]
  /\ \E d \in 0 .. MeshJoinStagger - 1 : wake' = [wake EXCEPT ![n] = now + d]
  /\ UNCHANGED <<backend, now, runner, dvars, history>>

\* Every process starts at instant 0 and takes its first instant for programStart.
Origin_Local == now + Startup \* mutant: counted from where main has got to
Origin == 0 + Startup

\* JoinTopics (log.Fatalf if it fails), Prepare, the sleep until runStart, Run.
hostJoin(n) ==
  /\ backend = "shadow" /\ pc[n] = "stagger" /\ wake[n] = now
  /\ \/ /\ joinedAt' = [joinedAt EXCEPT ![n] = now]
        /\ pc' = [pc EXCEPT ![n] = "run"]
        /\ runStart' = [runStart EXCEPT ![n] = Origin]
     \/ /\ Cardinality(Failed) < MaxFail
        /\ pc' = [pc EXCEPT ![n] = "failed"]
        /\ UNCHANGED <<joinedAt, runStart>>
  /\ UNCHANGED <<backend, now, wake, slot, dvars, begunAt, endedAt, closedAt>>

hostClose(n) ==
  /\ backend = "shadow" /\ pc[n] = "drain" /\ wake[n] = now
  /\ pc' = [pc EXCEPT ![n] = "closed"]
  /\ closedAt' = [closedAt EXCEPT ![n] = now]
  /\ UNCHANGED <<backend, now, wake, runner, dvars, joinedAt, begunAt, endedAt>>

\* simctl's stop_time: startup, the slots, a drain slot and 30 s of margin, in
\* whole minutes and never below the config's floor.
StopTime_NoMargin == \* mutant: the startup and the slots only
  LET needed == Startup + NumSlots * SlotDur
  IN  Max({StopMinutes, (needed + Minute - 1) \div Minute}) * Minute
StopTime ==
  LET needed == Startup + NumSlots * SlotDur + SlotDur + StopMargin
  IN  Max({StopMinutes, (needed + Minute - 1) \div Minute}) * Minute

\* Shadow ends the simulation: every process that still runs is killed.
Stop ==
  /\ driver = "none" /\ now = StopTime
  /\ driver' = "stopped"
  /\ pc' = [n \in Nodes |-> IF pc[n] \in {"closed", "failed"} THEN pc[n] ELSE "killed"]
  /\ UNCHANGED <<backend, now, wake, runner, todo, dwake, history>>

(***************************************************************************)
(* NodeRunner.Run, on both backends                                        *)
(***************************************************************************)
SlotStart(n) == runStart[n] + slot[n] * SlotDur

\* A host that is late begins the slots it missed one after the other.
beginSlot(n) ==
  /\ pc[n] = "run" /\ slot[n] < NumSlots /\ now >= SlotStart(n)
  /\ slot' = [slot EXCEPT ![n] = @ + 1]
  /\ begunAt' = [begunAt EXCEPT ![n][slot[n]] = now]
  /\ UNCHANGED <<backend, now, pc, wake, runStart, dvars, joinedAt, endedAt, closedAt>>

DrainUntil == now + DrainWindow

\* Run returns at the end of the last slot; main then drains by itself.
runEnds(n) ==
  /\ pc[n] = "run" /\ slot[n] = NumSlots /\ now >= SlotStart(n)
  /\ endedAt' = [endedAt EXCEPT ![n] = now]
  /\ pc' = [pc EXCEPT ![n] = IF backend = "shadow" THEN "drain" ELSE "ended"]
  /\ wake' = [wake EXCEPT ![n] = IF backend = "shadow" THEN DrainUntil ELSE @]
  /\ UNCHANGED <<backend, now, runner, dvars, joinedAt, begunAt, closedAt>>

(***************************************************************************)
(* simnet: Driver.BringUp and Driver.Run                                   *)
(***************************************************************************)
NextNode == CHOOSE n \in todo : \A k \in todo : n <= k

\* for _, nd := range d.nodes { nd.Start }; an error ends the run.
driverStart ==
  /\ driver = "start" /\ todo # {}
  /\ \/ /\ pc' = [pc EXCEPT ![NextNode] = "started"]
        /\ UNCHANGED driver
     \/ /\ Cardinality(Failed) < MaxFail
        /\ pc' = [pc EXCEPT ![NextNode] = "failed"]
        /\ driver' = "aborted"
  /\ todo' = todo \ {NextNode}
  /\ UNCHANGED <<backend, now, wake, runner, dwake, history>>

driverSettle ==
  /\ driver = "start" /\ todo = {}
  /\ driver' = "connect" /\ todo' = Nodes /\ dwake' = now + Settle
  /\ UNCHANGED <<backend, now, pc, wake, runner, history>>

\* One node's dials at a time: ConnectToPeers blocks.
driverConnect ==
  /\ driver = "connect" /\ todo # {} /\ now = dwake
  /\ \E d \in 0 .. MaxDial : dwake' = now + d
  /\ pc' = [pc EXCEPT ![NextNode] = "dialed"]
  /\ todo' = todo \ {NextNode}
  /\ UNCHANGED <<backend, now, wake, runner, driver, history>>

driverJoin ==
  /\ driver = "connect" /\ todo = {} /\ now = dwake
  /\ driver' = "join" /\ todo' = Nodes
  /\ UNCHANGED <<backend, now, pc, wake, runner, dwake, history>>

joinTopics ==
  /\ driver = "join" /\ todo # {}
  /\ \/ /\ joinedAt' = [joinedAt EXCEPT ![NextNode] = now]
        /\ pc' = [pc EXCEPT ![NextNode] = "joined"]
        /\ UNCHANGED driver
     \/ /\ Cardinality(Failed) < MaxFail
        /\ pc' = [pc EXCEPT ![NextNode] = "failed"]
        /\ driver' = "aborted"
        /\ UNCHANGED joinedAt
  /\ todo' = todo \ {NextNode}
  /\ UNCHANGED <<backend, now, wake, runner, dwake, begunAt, endedAt, closedAt>>

MeshSettle == Settle

\* Prepare of every runner takes no time; then the second settle, whose end is
\* the run's origin.
driverPrepare ==
  /\ driver = "join" /\ todo = {}
  /\ driver' = "settle" /\ dwake' = now + MeshSettle
  /\ UNCHANGED <<backend, now, pc, wake, runner, todo, history>>

driverRun ==
  /\ driver = "settle" /\ now = dwake
  /\ driver' = "run"
  /\ pc' = [n \in Nodes |-> "run"]
  /\ runStart' = [n \in Nodes |-> now]
  /\ UNCHANGED <<backend, now, wake, slot, todo, dwake, history>>

AllEnded == \A n \in Nodes : pc[n] = "ended"

\* wg.Wait, a slot of drain, then the Closes one after the other.
driverDrain ==
  /\ driver = "run" /\ AllEnded
  /\ driver' = "drain" /\ dwake' = now + SlotDur /\ todo' = Nodes
  /\ UNCHANGED <<backend, now, pc, wake, runner, history>>

driverClose ==
  /\ driver = "drain" /\ now = dwake /\ todo # {}
  /\ pc' = [pc EXCEPT ![NextNode] = "closed"]
  /\ closedAt' = [closedAt EXCEPT ![NextNode] = now]
  /\ todo' = todo \ {NextNode}
  /\ UNCHANGED <<backend, now, wake, runner, driver, dwake, joinedAt, begunAt, endedAt>>

(***************************************************************************)
(* Time passes when nobody can go on                                       *)
(***************************************************************************)
HostDue(n) ==
  \/ backend = "shadow" /\ pc[n] = "start"
  \/ pc[n] \in {"pause", "dialing", "stagger", "drain"} /\ wake[n] = now
  \/ pc[n] = "run" /\ now >= SlotStart(n)

DriverDue ==
  \/ driver \in {"start", "join"}
  \/ driver \in {"connect", "settle"} /\ now = dwake
  \/ driver = "run" /\ AllEnded
  \/ driver = "drain" /\ todo # {} /\ now = dwake

Over ==
  \/ driver \in {"aborted", "stopped"}
  \/ driver = "drain" /\ todo = {}

Tick ==
  /\ ~Over /\ ~DriverDue /\ \A n \in Nodes : ~HostDue(n)
  /\ driver = "none" => now < StopTime
  /\ now' = now + 1
  /\ UNCHANGED <<backend, pc, wake, runner, dvars, history>>

Host(n) ==
  \/ hostStart(n) \/ hostConnect(n) \/ hostStagger(n) \/ hostJoin(n) \/ hostClose(n)
  \/ beginSlot(n) \/ runEnds(n)

Driver ==
  \/ driverStart \/ driverSettle \/ driverConnect \/ driverJoin \/ joinTopics
  \/ driverPrepare \/ driverRun \/ driverDrain \/ driverClose

Next == (\E n \in Nodes : Host(n)) \/ Driver \/ Stop \/ Tick

Spec == Init /\ [][Next]_vars /\ WF_vars(Next)

(***************************************************************************)
(* Properties                                                              *)
(***************************************************************************)
\* driver.go:159 "The settle sleeps are load-bearing - publishing before the
\* mesh forms flakes": when any node begins slot 0, every node of the run has
\* been in its topics for the settle time, whatever pauses the others drew.
MeshesSettle ==
  \A n, m \in Nodes :
    begunAt[n][0] >= 0 /\ m \notin Failed =>
      joinedAt[m] >= 0 /\ begunAt[n][0] - joinedAt[m] >= Settle

\* driver.go:185 and main.go:58: the nodes share one origin, so two nodes that
\* begin a slot begin it at the same instant, and the slots keep to the slot
\* clock however the bring-up went.
OneSlotClock ==
  \A n, m \in Nodes, s \in Slots :
    begunAt[n][s] >= 0 /\ begunAt[m][0] >= 0 => begunAt[n][s] = begunAt[m][0] + s * SlotDur

\* main.go:48 and driver.go:187: no receive loop is closed before every node of
\* the run has ended its last slot and a whole drain has passed since.
TailCaptured ==
  \A n, m \in Nodes :
    closedAt[n] >= 0 /\ m \notin Failed =>
      /\ endedAt[m] >= 0
      /\ closedAt[n] - endedAt[m] >= IF backend = "shadow" THEN DrainWindow ELSE SlotDur

\* runner.py:248: stop_time leaves room for the run: every node that came up
\* reaches Close by itself, unless a failure ended the whole simnet run.
EveryNodeCloses ==
  \A n \in Nodes : <>(pc[n] \in {"closed", "failed"} \/ driver = "aborted")

\* The frame of the run: slots begin on settled meshes and on one clock, and the
\* last messages are still taken in.
RunFramed == MeshesSettle /\ OneSlotClock /\ TailCaptured
=============================================================================
