--------------------------- MODULE FinalityRounds ---------------------------
(***************************************************************************)
(* The finality chain of one node (driver/runner.go): each round is        *)
(* pre-joined one slot ahead by a goroutine (prejoinFinality), its timers  *)
(* are armed at its first slot (armFinality, or armFinalitySubRound when   *)
(* segregated), its network state is dropped at the aggregation deadline   *)
(* (dropFinality) and its record is reaped at the end of its last slot     *)
(* (reapFinality).  A drop reads what the other live rounds list in one    *)
(* section of r.mu and then unsubscribes and disconnects outside it, next  *)
(* to a pre-join that subscribes and dials the same topics and peers.      *)
(*                                                                         *)
(* The clock advances when no goroutine can go on; a handshake with a peer *)
(* that is not connected takes any time.  Node.Subscribe is one step here. *)
(***************************************************************************)
EXTENDS Integers

CONSTANTS
  Chains,      \* the finality chains a node may be configured with and drawn into
  K,           \* finalityRoundSize of the base chain
  NumRounds,   \* len(view.FinalityVoteDuties)
  Partial,     \* partial transport: the seal timer is armed
  Peers, Topics

Rounds == 0..(NumRounds - 1)

\* What distinguishes the chains: a round per slot (segregated) or per K slots,
\* view.HasFinalityAggregators, the clock (offsets into the round), and by round
\* voteDialed with aggregateDialed, the foreign topics of aggregateSubscribed,
\* and whether it has aggregateSubnets.
ChainType ==
  [segregated : BOOLEAN, hasAggs : BOOLEAN, slotDur : Nat \ {0}, voteOffset : Nat,
   aggOffset : Nat, sealOffset : Nat, dialed : [Rounds -> SUBSET Peers],
   subscribed : [Rounds -> SUBSET Topics], aggregates : [Rounds -> BOOLEAN]]

\* NewRunner refuses aggregators without an aggregation fraction inside (0, 100).
ASSUME FinalityAssumption ==
  /\ K \in Nat \ {0} /\ NumRounds \in Nat \ {0} /\ Partial \in BOOLEAN
  /\ \A c \in Chains :
       LET size == IF c.segregated THEN 1 ELSE K
       IN  /\ c \in ChainType
           /\ c.voteOffset < size * c.slotDur /\ c.aggOffset < size * c.slotDur
           /\ c.hasAggs => c.aggOffset > 0

VARIABLES
  chain,     \* the node's chain; it never changes
  now,
  finals,    \* the rounds r.finals has a record of
  prejoin,   \* prejoinFinality: "no", "spawned", "registered", "dialing", "done"
  left,      \* left[n]: handshakes Dial still waits for
  conn,      \* peers connected beyond the long-lived graph
  subs,      \* foreign topics subscribed
  setup,     \* setupSlot: "no", "arming", "done"
  armed,     \* armed[n]: the timers of round n that wait or whose function has not run
  fired,     \* fired[n]: the timers whose function has run
  drop,      \* dropOnce: "no", "dropping", "done"
  toUnsub, toClose,  \* what a drop has still to release
  reap,      \* endSlot: "no", "dropping" (waits for its dropFinality), "done"
  late,      \* history: some round started before its pre-join was through
  raced      \* history: some round registered between a drop's snapshot and its end

vars == <<chain, now, finals, prejoin, left, conn, subs, setup, armed, fired, drop, toUnsub,
          toClose, reap, late, raced>>
net      == <<conn, subs>>
timers   == <<armed, fired>>
dropping == <<drop, toUnsub, toClose>>
history  == <<late, raced>>

Dialed     == chain.dialed
Subscribed == chain.subscribed
Aggregates == chain.aggregates
Segregated == chain.segregated
SlotDur    == chain.slotDur

RoundSize == IF Segregated THEN 1 ELSE K
NumSlots  == NumRounds * RoundSize
Slots     == 0..(NumSlots - 1)

Start(s)      == s * SlotDur
RoundStart(n) == n * RoundSize * SlotDur

\* Bound on the clock: one tick past the last slot.
MaxTime == NumSlots * SlotDur + 1

Init ==
  /\ chain \in Chains
  /\ now = 0 /\ finals = {} /\ conn = {} /\ subs = {}
  /\ prejoin = [n \in Rounds |-> "no"] /\ left = [n \in Rounds |-> {}]
  /\ setup = [s \in Slots |-> "no"] /\ reap = [s \in Slots |-> "no"]
  /\ armed = [n \in Rounds |-> {}] /\ fired = [n \in Rounds |-> {}]
  /\ drop = [n \in Rounds |-> "no"]
  /\ toUnsub = [n \in Rounds |-> {}] /\ toClose = [n \in Rounds |-> {}]
  /\ late = FALSE /\ raced = FALSE

----------------------------------------------------------------------------
(* The pre-join of a round.                                                *)

\* round0Warmup's Once: Prepare's goroutine or slot 0's setup spawns the pre-join.
round0Warmup ==
  /\ prejoin[0] = "no"
  /\ prejoin' = [prejoin EXCEPT ![0] = "spawned"]
  /\ UNCHANGED <<now, finals, left, net, setup, timers, dropping, reap, history>>

\* Mutant: the bound also drops the run's last round.
Spawned_OffByOne(n) == [m \in Rounds |-> IF m = n /\ n < NumRounds - 1 THEN "spawned" ELSE prejoin[m]]

\* The goroutine spawned for round n; past the last round it does nothing.
Spawned(n) == [m \in Rounds |-> IF m = n THEN "spawned" ELSE prejoin[m]]

\* The record is registered before the network is touched.
register(n) ==
  /\ prejoin[n] = "spawned"
  /\ prejoin' = [prejoin EXCEPT ![n] = "registered"]
  /\ finals' = finals \cup {n}
  /\ raced' = (raced \/ \E m \in Rounds \ {n} : drop[m] = "dropping")
  /\ UNCHANGED <<now, left, net, setup, timers, dropping, reap, late>>

\* The duty topics are joined, and Dial starts.
join(n) ==
  /\ prejoin[n] = "registered"
  /\ prejoin' = [prejoin EXCEPT ![n] = "dialing"]
  /\ left' = [left EXCEPT ![n] = Dialed[n]]
  /\ UNCHANGED <<now, finals, net, setup, timers, dropping, reap, history>>

\* One handshake of Dial ends; an open connection is reused.
connect(n, p) ==
  /\ p \in left[n]
  /\ conn' = conn \cup {p}
  /\ left' = [left EXCEPT ![n] = @ \ {p}]
  /\ UNCHANGED <<now, finals, prejoin, subs, setup, timers, dropping, reap, history>>

\* Dial has returned: subscribe, topic by topic, and return.
subscribe(n) ==
  /\ prejoin[n] = "dialing" /\ left[n] = {}
  /\ \/ \E t \in Subscribed[n] \ subs :
          subs' = subs \cup {t} /\ UNCHANGED prejoin
     \/ /\ Subscribed[n] \subseteq subs
        /\ prejoin' = [prejoin EXCEPT ![n] = "done"] /\ UNCHANGED subs
  /\ UNCHANGED <<now, finals, left, conn, setup, timers, dropping, reap, history>>

----------------------------------------------------------------------------
(* The slots: arming a round and its timers.                               *)

\* The round slot s starts, and the one it pre-joins.
RoundOf(s)  == s \div RoundSize
Boundary(s) == s % RoundSize = 0
PreJoins(s) == (s + 1) % RoundSize = 0

DueAt(n, timer) ==
  RoundStart(n) + CASE timer = "vote" -> chain.voteOffset
                    [] timer \in {"agg", "drop"} -> chain.aggOffset
                    [] timer = "seal" -> chain.sealOffset

\* hasPrejoinState.
hasPrejoinState(n) == Dialed[n] # {} \/ Subscribed[n] # {}

Timers(n) ==
  {"vote"} \cup (IF Aggregates[n] THEN {"agg"} ELSE {})
    \cup (IF chain.hasAggs /\ hasPrejoinState(n) THEN {"drop"} ELSE {})
    \cup (IF Partial /\ chain.hasAggs THEN {"seal"} ELSE {})

\* A slot starts.  The base chain spawns the next round's pre-join first, the
\* segregated one after round 0 is warmed up.
setupSlot(s) ==
  /\ setup[s] = "no" /\ now >= Start(s)
  /\ setup' = [setup EXCEPT ![s] = IF Boundary(s) THEN "arming" ELSE "done"]
  /\ prejoin' = IF ~Segregated /\ PreJoins(s) THEN Spawned(RoundOf(s) + 1) ELSE prejoin
  /\ UNCHANGED <<now, finals, left, net, timers, dropping, reap, history>>

\* Mutant: slot 0 does not wait for round 0's warm-up.
Warm_NoWait(n) == TRUE

\* round0Warmup's wait on round0Ready.
Warm(n) == n = 0 => prejoin[0] = "done"

\* armFinality and armFinalitySubRound: a round without a record is skipped.
armFinality(s) ==
  LET n == RoundOf(s) IN
  /\ setup[s] = "arming" /\ Warm(n)
  /\ setup' = [setup EXCEPT ![s] = "done"]
  /\ prejoin' = IF Segregated THEN Spawned(n + 1) ELSE prejoin
  /\ armed' = IF n \in finals THEN [armed EXCEPT ![n] = Timers(n)] ELSE armed
  /\ UNCHANGED <<now, finals, left, net, fired, dropping, reap, history>>

\* A timer of round n fires: emitFinalityVotes, emitFinalityAggregate or SealPartial.
fire(n, timer) ==
  /\ timer \in armed[n] \ {"drop"} /\ now >= DueAt(n, timer)
  /\ armed' = [armed EXCEPT ![n] = @ \ {timer}]
  /\ fired' = [fired EXCEPT ![n] = @ \cup {timer}]
  /\ UNCHANGED <<now, finals, prejoin, left, net, setup, dropping, reap, history>>

----------------------------------------------------------------------------
(* Releasing a round.                                                      *)

\* Mutant: nothing is spared.
Spared_Nothing(n, listed) == {}

\* Mutant: the round's own record is not left out.
Spared_Own(n, listed) == UNION {listed[m] : m \in finals}

\* What the other live rounds list of peers or topics.
Spared(n, listed) == UNION {listed[m] : m \in finals \ {n}}

\* dropFinality, first half: read the other rounds' records under r.mu.
Snapshot(n) ==
  /\ drop[n] = "no"
  /\ drop' = [drop EXCEPT ![n] = "dropping"]
  /\ toUnsub' = [toUnsub EXCEPT ![n] = Subscribed[n] \ Spared(n, Subscribed)]
  /\ toClose' = [toClose EXCEPT ![n] = Dialed[n] \ Spared(n, Dialed)]

\* The drop timer's function; the Once of an earlier drop makes it a no-op.
dropTimer(n) ==
  /\ "drop" \in armed[n] /\ now >= DueAt(n, "drop")
  /\ armed' = [armed EXCEPT ![n] = @ \ {"drop"}]
  /\ fired' = [fired EXCEPT ![n] = @ \cup {"drop"}]
  /\ \/ Snapshot(n)
     \/ drop[n] # "no" /\ UNCHANGED dropping
  /\ UNCHANGED <<now, finals, prejoin, left, net, setup, reap, history>>

\* dropFinality, second half: unsubscribe, then disconnect.
release(n) ==
  /\ drop[n] = "dropping"
  /\ \/ \E t \in toUnsub[n] :
          /\ toUnsub' = [toUnsub EXCEPT ![n] = @ \ {t}] /\ subs' = subs \ {t}
          /\ UNCHANGED <<drop, toClose, conn>>
     \/ /\ toUnsub[n] = {}
        /\ \E p \in toClose[n] :
             /\ toClose' = [toClose EXCEPT ![n] = @ \ {p}] /\ conn' = conn \ {p}
        /\ UNCHANGED <<drop, toUnsub, subs>>
     \/ /\ toUnsub[n] = {} /\ toClose[n] = {}
        /\ drop' = [drop EXCEPT ![n] = "done"]
        /\ UNCHANGED <<toUnsub, toClose, net>>
  /\ UNCHANGED <<now, finals, prejoin, left, setup, timers, reap, history>>

\* reapFinality at the end of a round's last slot: the record goes, the timers
\* that are not due are stopped.
reapFinality(s) ==
  LET n == RoundOf(s) IN
  /\ setup[s] = "done" /\ reap[s] = "no" /\ now >= Start(s + 1)
  /\ reap' = [reap EXCEPT ![s] = IF PreJoins(s) /\ n \in finals THEN "dropping" ELSE "done"]
  /\ finals' = IF PreJoins(s) THEN finals \ {n} ELSE finals
  /\ armed' = IF PreJoins(s) /\ n \in finals
              THEN [armed EXCEPT ![n] = {timer \in @ : now >= DueAt(n, timer)}]
              ELSE armed
  /\ UNCHANGED <<now, prejoin, left, net, setup, fired, dropping, history>>

\* reapFinality's dropFinality: it drops itself if nobody has ...
reapDrop(s) ==
  /\ reap[s] = "dropping" /\ Snapshot(RoundOf(s))
  /\ UNCHANGED <<now, finals, prejoin, left, net, setup, timers, reap, history>>

\* ... and returns once the drop is through.
reaped(s) ==
  /\ reap[s] = "dropping" /\ drop[RoundOf(s)] = "done"
  /\ reap' = [reap EXCEPT ![s] = "done"]
  /\ UNCHANGED <<now, finals, prejoin, left, net, setup, timers, dropping, history>>

----------------------------------------------------------------------------
\* No goroutine can go on: each waits for a handshake or for the clock.
Quiet ==
  /\ \A n \in Rounds :
       /\ prejoin[n] \notin {"spawned", "registered"}
       /\ prejoin[n] = "dialing" => left[n] # {} /\ left[n] \cap conn = {}
       /\ drop[n] # "dropping"
       /\ \A timer \in armed[n] : now < DueAt(n, timer)
  /\ prejoin[0] # "no"
  /\ \A s \in Slots :
       /\ now >= Start(s) => setup[s] # "no"
       /\ setup[s] = "arming" => ~Warm(RoundOf(s))
       /\ setup[s] = "done" /\ now >= Start(s + 1) => reap[s] = "done"

Tick ==
  /\ UNCHANGED chain
  /\ Quiet /\ now < MaxTime
  /\ now' = now + 1
  /\ late' = (late \/ \E n \in Rounds : now >= RoundStart(n) /\ prejoin[n] \notin {"no", "done"})
  /\ UNCHANGED <<finals, prejoin, left, net, setup, timers, dropping, reap, raced>>

Handshake == UNCHANGED chain /\ \E n \in Rounds, p \in Peers : connect(n, p)

Program ==
  /\ UNCHANGED chain
  /\ \/ round0Warmup
     \/ \E n \in Rounds :
          \/ register(n) \/ join(n) \/ subscribe(n) \/ dropTimer(n) \/ release(n)
          \/ \E timer \in {"vote", "agg", "seal"} : fire(n, timer)
     \/ \E s \in Slots :
          setupSlot(s) \/ armFinality(s) \/ reapFinality(s) \/ reapDrop(s) \/ reaped(s)

Next == Program \/ Handshake \/ Tick

\* Goroutines run, time passes, and every handshake ends.
Fairness == WF_vars(Program) /\ WF_vars(Handshake) /\ WF_vars(Tick)

Safety == Init /\ [][Next]_vars

Spec == Safety /\ Fairness

----------------------------------------------------------------------------
\* Round n has been pre-joined and nothing has started to release it.
Warmed(n) == n \in finals /\ prejoin[n] = "done" /\ drop[n] = "no"

\* Round n's topics and peers are up.
Up(n) == Subscribed[n] \subseteq subs /\ Dialed[n] \subseteq conn

\* dropFinality's sparing: while a pre-joined round waits for its own drop, no
\* drop of another round takes a topic or a peer from it, provided no round
\* registered between a drop's snapshot and its end.
SparesLiveRounds == ~raced => \A n \in Rounds : Warmed(n) => Up(n)

\* What prejoinFinality's comment says of a drop at its own instant: "in either
\* firing order the idempotent Join/Subscribe below then leaves this slot warmed up".
PrejoinLeavesWarm == \A n \in Rounds : Warmed(n) => Up(n)

\* As long as every pre-join was through when its round started, an open foreign
\* subscription or extra connection belongs to a round whose drop is not through.
NothingLeaks ==
  LET holding == {n \in Rounds : prejoin[n] # "no" /\ drop[n] # "done"} IN
  ~late => /\ subs \subseteq UNION {Subscribed[n] : n \in holding}
           /\ conn \subseteq UNION {Dialed[n] : n \in holding}

\* Votes are published on joined topics only, and round 0's timers are armed
\* only when its warm-up is complete, however slow it is.
JoinedBeforeVote ==
  \A n \in Rounds :
    "vote" \in fired[n] => prejoin[n] \in (IF n = 0 THEN {"done"} ELSE {"dialing", "done"})

\* A slow warm-up excuses a round: in the base chain it can cost round 0 only;
\* the segregated chain pre-joins round 1 behind round 0's warm-up.
Excused(n) == late /\ (Segregated \/ n = 0)

\* Every round that is not excused publishes its votes, and its aggregate if it
\* has one, and its network state and its record are dropped.
EveryRoundVotes ==
  \A n \in Rounds :
    <>(\/ Excused(n)
       \/ /\ "vote" \in fired[n] /\ (Aggregates[n] => "agg" \in fired[n])
          /\ n \notin finals /\ drop[n] = "done")

=============================================================================
