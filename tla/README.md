# A verification of eth-slot-sim

eth-slot-sim runs N libp2p nodes through Ethereum-like slots, in one process on
a fake clock (`simnetrun`, `testing/synctest`) or one process per host under
Shadow, and records when every message arrives. The numbers it reports are only
worth something if the nodes do what the protocol says, each slot, under every
interleaving of their goroutines. The modules here model the nodes' concurrent
code, TLC checks small instances of them, and TLAPS proves the properties that
matter most for every instance.

## The system

| component | state | operations | interacts with |
|---|---|---|---|
| slot lifecycle and votes (`driver/runner.go`, `driver/coupling.go`) | `slotState` in `r.slots`, under `r.mu`: block, column and payload arrivals, the two vote claims, timers | `setupSlot`, `onBlockProcessed`, `onColumnProcessed`, `onPayloadProcessed`, `tryEarlyEmit`, `trySyncEmit`, `onBlockDeadline`, the emits, `endSlot` | receive goroutines of the node, timers, fan-out dials |
| fan-out dials (`runner.go`, `node/node.go`) | `ss.dialed`, `dialReady`, `dropDialOnce`; the host's connections | `dialDuties`, `awaitDials`, `dropDials`, `Dial`, `Disconnect` | emit waits for them; consecutive slots share connections |
| finality rounds (`runner.go`) | `r.finals`, four timers and two Onces a round, subscriptions and connections | `round0Warmup`, `prejoinFinality`, `armFinality`, `armFinalitySubRound`, `dropFinality`, `reapFinality` | slots arm and reap them; rounds share topics and peers |
| batch verifier (`node/verifier.go`) | queue, notify token, window timer, stop channel | `submit`, `submitAndWait`, `run`, `batchEnd`, `verifyBatch`, `stop` | validator hooks and the partial manager submit; callbacks deliver |
| column verifier (`node/column_verifier.go`) | a semaphore of width P | `verify` | the column topics' hook |
| node topics (`node/node.go`) | `topics`, `subs`, `validated`, `verifiers`, under `n.mu` | `Join`, `Subscribe`, `Unsubscribe`, `receive`, `Close` | runner, pubsub |
| partial message manager (`node/partial.go`) | groups, buckets, per-peer bitmaps, floor, under `m.mu` | `publishLocal`, `onIncomingRPC`, `publishActions`, `markValidated`, `onEmitGossip`, `seal`, `prune` | the verifier's callbacks, the extension's hooks, the runner's seal and prune |
| driver (`driver/driver.go`) | the runners | `New`, `BringUp`, `Run` | network, runners |
| schedule views (`schedule/`) | immutable | `Node`, ranks and positions | runner, partial resolver |
| peer graph, simulated network (`netsim/`) | immutable after construction | graph constructions, latency lookup | driver |
| recorder (`metrics/tracer.go`) | publishes, arrivals, orphans | `OnPublish`, `OnReceive`, the fractions | every node |
| node command (`cmd/slot-sim-node`) | flags | `main`: checks, bring-up, run, drain | one process per host under Shadow |
| `simctl` | the run's configuration, plan and topology | validation, `generate`, `_host_args`, `_simnet_params`, `stop_time` | both backends read what it writes |
| message registry, builders, wire formats, `analysis` | none at run time | | |

What is hard in it: several goroutines decide one vote; timers fire at the very
instant at which the thing they wait for happens, because the clock is discrete
and stands still while anything runs; a lock is released between reading a state
and acting on it (`dropFinality`, `Subscribe`, a proposer's payload); handshakes
last longer than the slot they were made for; connections and topics are shared
by slots and rounds that overlap; the verifier's loop, its token, its timer and
its stop signal race; the partial transport believes delivered what it has merely
sent, and its callbacks return to groups that may have been dropped; a vote's
position is computed by its publisher and undone by its receivers from the same
draws along different ways; two backends learn one configuration along two ways.
`PROJECT.json` lists these hazards line by line with the properties aimed at them.

What makes each component correct:

* votes: each cast at most once, for the block exactly if it (and its columns)
  was in by the deadline minus the preparation delay, and cast by the deadline;
* dials: up when the vote that awaited them goes out, all closed at the end;
* rounds: what a round set up is there until its own drop and gone after it;
* batch verifier: every item called back, once, in order, at the promised pace;
* column verifier: never more than its width at once, no wait without a reason;
* topics: a message reaches the receiver once, Unsubscribe and Close end what
  Subscribe began, and Close returns without stranding a hook;
* partial transport: only verified votes travel, nobody is sent a vote twice or
  one it is known to have, every vote reaches every member, pruned stays pruned;
* recorder: the figures say what happened, whatever the network did;
* plan: every vote is owed by one node, and everybody computes the same position
  for it; peer graph: every subnet's members are connected and every link dialed
  once; configuration: both backends run the same experiment, or neither does;
* bring-up: meshes settle before slot 0, one slot clock, nobody leaves early.

## Modules

| module | models | run by | proofs |
|---|---|---|---|
| `VerifierService` | abstract: what a verifier promises its callers | through `BatchVerifier` | |
| `BatchVerifier` | the verifier's queue and run loop | `MCVerifiers` | `VerifierProofs` |
| `SlotVote` | one slot of one node | `MCSlotVote` | `SlotVoteProofs` |
| `SlotDials` | the dials of consecutive slots | `MCSlotDials` | `SlotDialsProofs` |
| `FinalityRounds` | the finality rounds of one node | `MCFinalityRounds` | `FinalityRoundsProofs` |
| `NodeTopics` | topics, subscriptions, hooks and Close of one node | `MCNodeTopics` | `NodeTopicsProofs` |
| `ColumnVerifier` | the width-P semaphore | `MCVerifiers` | `VerifierProofs` |
| `Verifiers` | the two verifiers of a node, side by side | `MCVerifiers` | `VerifierProofs` |
| `PartialBucket` | the operations on one bucket of votes | through the two below | |
| `PartialManager` | one node's partial transport against any peers | `MCPartialManager` | `PartialProofs` |
| `VoteFlood` | abstract: how votes spread | through `PartialNetwork` | |
| `PartialNetwork` | several managers and their links | `MCPartialNetwork` | `PartialProofs` |
| `Recorder` | the recorder, fed by a small fleet | `MCBackends` | `BackendsProofs` |
| `ScheduleViews` | the plan, the nodes' views of it, the resolver | `MCPlan` | `PlanProofs` |
| `PeerGraph` | graph builders, topology.json, the base dials | `MCPlan` | `PlanProofs` |
| `Plan` | plan and graph, side by side | `MCPlan` | `PlanProofs` |
| `RunConfig` | from the YAML to `NewRunner` on both backends | `MCBackends` | `BackendsProofs` |
| `Lifecycle` | bring-up, slot pacing, drain and Close on both backends | `MCBackends` | `BackendsProofs` |
| `Backends` | configuration, lifecycle and recorder, side by side | `MCBackends` | `BackendsProofs` |

`Verifiers`, `Plan` and `Backends` extend one module and instantiate others with variables of
their own; they state the properties of the instances and the assumptions on their
parameters. One run and one proof module then serve the group. `PartialProofs` does
the same for the network next to the manager.

Definitions keep the names of the functions they translate. A definition named
`f_Something`, in front of `f`, is `f` with a bug someone could have written;
replacing `f` by it makes TLC find the violation `PROJECT.json` names, so each
property is known to depend on the code it is about.

**A step** is one critical section of a lock, one channel operation, one timer
firing or one call into the network. Where a handler takes a lock twice it is
two actions (`onPayloadProcessed` and `markCustodyHeld`; `Snapshot` and
`release`); everything inside one section is one action.

**The clock.** In `SlotVote`, `SlotDials`, `FinalityRounds`, `ColumnVerifier`, `Recorder`
and `Lifecycle` a tick happens only
when no goroutine can go on (`Quiet`). That is what both backends do: a synctest
bubble advances its clock when every goroutine in it is blocked, and Shadow
advances simulated time between events. Computation takes no time and the steps of one
instant run in any order, which is what makes ties possible. In the verifier ticks
count only the batch window; a batch's sleep lasts any number of them.

### BatchVerifier

`queue`, the one-place `notify` channel, the `stopped` flag, the window timer and the
program counter of `run()`. `submit` appends and signals without blocking;
`recvNotify` and `recvTimer` are the arms of the select; `drain` is the section
that finds the window open, finds nothing queued, or cuts a batch with `batchEnd`;
`verifyBatch` ends the sleep and calls back; `afterBatch` starts the next window or,
when stopped, goes on or exits. `submitted`, `verified`, `atStop` and `sinceCut` are
history.

### SlotVote

The configuration of the node and its duties are a record `role` drawn from
`AllRoles`: attestation, availability vote or none, sync membership, ePBS, proposer
or not, dials or not, custody or not, the fixed-time duties. The block, each
column and the payload are goroutines with a program counter; the two votes
(`"gated"`, `"sync"`) go through claim (`alreadyVoted`), `emission` and `emitted`.
`tryEmit` is the common body of `tryEarlyEmit` and `trySyncEmit`, `claimPrior` that of
`onBlockDeadline`'s halves. Anything the network delivers may be late or lost. The
column gate counts (`Complete` compares sizes, as `len(haveColumn) == len(custody)` does);
what it counts is a set of columns the node subscribes, its custody, so a column that
comes twice is not counted twice and a foreign one does not come. The aggregate's timer is
armed before setup may park in the warm-up, the PTC's and the contribution's after it.

### SlotDials

The clock counts half slots. `Dials[s]`, the peers slot `s` picks, is a constant;
`connect` ends one handshake, at once if the peer is connected. `dropDials` reads
`ss.dialed`, `disconnect` closes peer by peer. The vote goes out at any instant from the
slot's start (a block seen early) and no later than its deadline, once the dials are
through. `late` and `reached` are history.

### FinalityRounds

One `prejoin` counter a round (spawned, registered, dialing, done), the armed and
fired timers, the drop (its snapshot, then `release` step by step), the reap. Base
and segregated chain differ in `RoundSize`, in when the pre-join is spawned and in
the offsets. `late` (a round started before its pre-join was through) and
`raced` (a round registered inside another's drop) are history. `Node.Subscribe`
is one step; that a Dial succeeds is assumed, all peers being up.

### NodeTopics

A step is one section of `n.mu` or one library call outside it, so `Subscribe` is
four: the check (`SubscribeCheck`), the library's Subscribe, the registration in
`n.subs`, the start of the receive goroutine. Messages arrive on joined topics, wait
in their hook for the verifier of their class, and are forwarded to every open
subscription; `Close` cancels, waits for the receivers, copies the verifiers and stops
them. A verifier here does what `VerifierService` promises. Calls overlap in every way, on
one topic too: `n.mu` is all that orders them, and a drop's Unsubscribe (runner.go:1006) and
the next pre-join's Subscribe (runner.go:865) do meet. The library may refuse a Join, at the
hook or after it (`JoinFails`), and a Subscribe (`SubscribeFails`). Two history variables
name what overlaps cost: `overlapped`, the topics on which two Subscribes were between
their sections at once, and `crossed`, the messages let through while an Unsubscribe
had forgotten its subscription and not yet cancelled it. The properties say that these
are the only ways to a leak and to a second receipt.

### ColumnVerifier

`verify` queues a column, `acquire` takes a place of the semaphore in arrival order,
`release` ends the service. A width below one is clamped to one.

### PartialBucket, PartialManager, PartialNetwork

A bucket is a record: who is held, validated, validating, what each peer has,
wants and was sent, the two counters per position. Its operations are functions
from bucket to bucket (`addOwn`, `addReceived`, `addMetadata`, `promote`, `Claims`,
`Asks`, `served`); the code serves peers in the order a Go map iterates, which is an
argument. `PartialManager` puts buckets into groups per topic and key and adds
`onIncomingRPC` with its early returns (stale key, malformed batch), `markValidated`,
`tick` and `publishActions`, `onEmitGossip`, `seal` and `prune`. Of an envelope's batches
those before the first malformed one are stored (`Accepted`, `Stored`), and each that
brought something new is one item of the verifier, in the batches' order (`itemsOf`).
The peers are the environment: each envelope arrives at most once, or never.
`PartialNetwork` closes the system: the same bucket operations at three members,
RPCs on ordered links, a publisher outside the topic that fans out, and `drop`, which
loses an RPC its sender has already accounted for. `VoteFlood` says what comes of it: a
vote is published, alone or in one batch with others (a fan-out publisher may hold several
when it first sends), and a member learns it only from a neighbour that knows it.

### Recorder, ScheduleViews, PeerGraph, RunConfig

`Recorder` runs a program, the publish bursts of a few nodes, against a network that loses, delays,
reorders and duplicates, and compares the figures `CustodyCompleteRate`,
`FinalityCoverageAtDeadline` and `Summarize` compute with what the history variables
know. A fraction is the pair of its terms.

`ScheduleViews` draws a plan as `simctl/schedule.py` does (each draw a choice), slot by
slot. `views` is what `Node` (with `finalityVoteDuties`, `finalityAggregations`) makes of the
finished plan for every node; along the code's other way go the resolver's tables (`cell`,
`HostOf`, `FinalityValAt`, `Identity`). Running sums are a recursive function (`Bounds`), the
place in a sorted list a rank (`Nth`, `pos`), an aggregator sample the members that come
first in the order drawn (`picked`).

`PeerGraph` builds a graph draw by draw with one of the builders, writes topology.json
(`save`), reads it (`load`) and dials (`ConnectToPeers`). `fill`'s and `groupFill`'s bounded
retries are counted.

`RunConfig` takes a configuration through `validate`, `draw` and the two deliveries,
`main` once per host on Shadow and `TestRun` once on simnet, each of which ends in a
runner's configuration, a log.Fatal or NewRunner's panic. A Shadow host is refused for its
own view (the PTC voters it hosts, drawn by choice), the simnet run for any node's; `main`
first refuses a startup that does not exceed the join stagger. The column verifier's cost and the links'
latencies are left out (see Observations).

### Lifecycle

Under Shadow each host goes through `main` by itself with its own pauses; on simnet
the driver takes the nodes through one loop after the other and starts their runners.
`beginSlot` and `runEnds` are `NodeRunner.Run` on both. A node may fail to start or to
join: its Shadow host dies alone, the simnet run is aborted. `Stop` is Shadow's
stop_time, computed as `simctl` does. `DrainWindow` and simctl's `StopMargin` are both
30 s in the code but separate numbers, and so are they here.

## Runs

| run | checks | shows |
|---|---|---|
| `verifiers` | `NoLostWakeup`, `WindowSpacing`, `BatchesMaximal`, `ImplementsService`; `LatencyBound`, `NoFasterThanWidth` | the batched verifier is the in-order service its callers see, stop drains and returns, batches are as large as the cap allows and a window apart; a burst of columns is served at the width's rate, no slower and no faster |
| `slot_vote` | `OneVotePerSlot`, `BlockVoteJustified`, `DataAvailable`, `PriorVoteJustified`, `VotedByDeadline`, `PTCTruthful`, `EndSlotCutsNothing`, `EveryVoteCast` | the vote rule in all 918 initial configurations |
| `slot_vote_tie` | `PriorVoteJustified`, violated | with prep = 0, the default, a block at the deadline's own instant is voted or not depending on who runs first |
| `slot_dials` | `NoLeakWhenPrompt`, `FanoutLandsApart`, `EverySlotVotes` | with handshakes shorter than a slot nothing leaks; votes reach every dialed peer the slot before did not dial |
| `slot_dials_leak` | `NoConnectionLeaks`, violated | a handshake that outlives its slot leaks its connection |
| `finality_rounds` | `SparesLiveRounds`, `NothingLeaks`, `JoinedBeforeVote`, `EveryRoundVotes` | the base chain, k = 2 at 50 %, where drop and pre-join coincide; the segregated chain; and no aggregation, where the reap tears down |
| `finality_rounds_raced` | `PrejoinLeavesWarm`, violated | a pre-join that registers after the snapshot of a drop at its instant loses its topic and peers to it |
| `node_topics` | `NoLeakedSubscription`, `ReceivedOnce`, `HooksReturn`, `CloseReturns` | whatever calls overlap or fail, a subscription leaks only if two Subscribes of its topic overlapped, a message is received twice only then or across an Unsubscribe; Close strands no hook and returns |
| `partial_manager` | `SentOncePerPeer`, `ArrivesOnce`, `ValidatingIsQueued`, `PrunedStaysPruned`, `PeersServed` | one manager under every order of RPCs, ticks and callbacks; stragglers, callbacks and a late own vote around seal and prune, two kinds |
| `partial_network` | `AllFlood`, `AllDelivered` | the network implements `VoteFlood`, and every vote reaches every member, in a full mesh also when one RPC is lost |
| `plan` | `PositionsAgree`, `DutiesSharedOut`; `GraphSound` | duties, positions and resolver agree in every draw; every graph builder, every draw |
| `backends` | `RunsAsConfigured`; `RunFramed`, `EveryRunEnds`; `RateMatchesGate`, `FiguresTruthful` | all combinations of the phases' switches and zeros, any hosts with PTC voters: the backends run alike, or refuse for a named cause; both backends from first process to last Close, one node failing; the recorder's figures are what happened |

Five MC modules put two or three instances side by side: a variable `part` says which
one a behaviour is about, and the others keep their initial state. Two verifiers
(`MCVerifiers`), plan and graph (`MCPlan`), configuration, lifecycle and recorder
(`MCBackends`) are modules of their own; `MCPartialManager` and `MCPartialNetwork` run one
module in two scenarios, those of the manager with the topic's kinds and the node's own
vote in common, which is all its invariants speak of. The instances do not interact, so a
state belongs to one of them.

Properties that are conjunctions name their parts: `DutiesSharedOut` is
`EveryVoteOwedOnce`, `AggregatorsAssigned`, `AggregatorsAreMembers` and
`ProposerHoldsColumns`; `PositionsAgree` is `ResolverAgrees` and `CellsMatchCounts`;
`GraphSound` is `SimpleGraph`, `GroupsConnected`, `EachLinkOnce` and `GroupDegreeReached`;
`RunsAsConfigured` is `BackendsAgree`, `NothingSilent` and `RefusedForCause`; `RunFramed` is
`MeshesSettle`, `OneSlotClock` and `TailCaptured`; `FiguresTruthful` is
`CoverageTruthful` and `PercentilesSound`; `PeersServed` is `MeshServed` and
`AdvertisedIsAsked`.

**Refinements.** `BatchVerifier` implements `VerifierService` (`ImplementsService`, checked
in `verifiers` with its fairness, its safety part proved): a batch is cut in one step and called back item by
item, so every step is one of the service's or a stutter. `PartialNetwork` implements
`VoteFlood` (`AllFlood`, its safety proved for every mesh, cap and loss): a member knows
what its bucket has validated, and learns only from a connected member that knew it, or
from the publisher.

**Bounds.** The verifier's four items carry 1, 1, 3 and 1 attestations against a cap
of 2, so a batch holds one item, two, or one that exceeds the cap, and submits fall
before, in and after windows of two ticks. The slot has
its deadline at 2 of 4 ticks and a preparation of 1: arrivals exist that are early,
exactly in time, late by one and after the slot; two columns are enough for an
incomplete gate. Three slots and two peers, and three rounds with one topic and
two peers in each of three chains, let the middle one overlap both neighbours; beyond that consecutive
ones only repeat. The clock stops one tick (one slot for the dials) after the
last end, when every timer has fired. Deadlock is not checked in these runs
because the modelled runs end: the slot, the slots or the verifier's life is over.
No symmetry is used: the peers, columns and items play different parts.

Two callers, two topics and two messages give `NodeTopics` every overlap of two calls
with a message in each stage; `MaxSubs` lets two subscriptions of the batched topic be open
at once, and the partial topic is joined and not subscribed (`Subscribable`), its
subscription receiving nothing. Six columns on a width of three fill the semaphore
twice over. The partial manager has one peer of each sort and caps of one, so every
cap binds; two datas and a position past the committee give forks and malformed
batches; the second scenario trades the peers for two kinds and two keys, which
is what seal and prune tell apart. Three members in a line with the ends linked by
gossip only need push, advertisement and request together; the lossy scenario is a
full mesh because the code promises nothing of a loss its redundancy cannot cover.
Three slots with k = 2 end in an incomplete finality slot, and counts of hosted
validators include none and nearly all. Five nodes and two subnets leave room for a
subnet that no tree over all nodes connects. The recorder sees three programs: the
legacy block with its columns at the slot's start and a tick later, and the ePBS
pair. The configurations are all combinations of the switches with sizes that
fit or not, of zero and default knobs, and of a startup at and above the stagger, on two
hosts of which either or both have PTC voters. The lifecycle's bring-up lasts at most 1 + 1 + 3 ticks (exclusive draws
from 2 and 4, dials up to 1), and a startup of 7 leaves the settle time of 2.

**Fairness.** Weak fairness of the goroutines (the Go scheduler), of the tick (both
backends advance time when idle) and of handshakes and batch sleeps, which end; in
`NodeTopics` of the hooks, of each receive goroutine, of a call and of a Close once begun, in `PartialManager` of the tick and the
verifier's callbacks. In `PartialNetwork` the links deliver (QUIC retransmits; only
`drop` loses an RPC, at most `MaxLoss` times) and heartbeats go on. Elsewhere nothing
is assumed of the network's deliveries, and none of the safety properties uses fairness.

## Proofs

Every safety property of a passing run is proved for all values of the constants; each
theorem is `Spec => []Property`, or names the configurations it is meant for.

`VerifierProofs` proves, for any items, cap and window, `TypeOK`, `Conservation`,
`NoLostWakeup` (with `StoppedNeverParks`), `DrainedOnExit`, `WindowSpacing` and `BatchesMaximal`.
The inductive invariant adds to them what each program counter knows: `WindowInv` (when
the window is open and how much of it is left) and `LoopInv` (what is held between
two sections). That a cut moves a prefix of the queue into the batches and
leaves the concatenation alone is a lemma (`CutMoves`). On the same invariant rests
`VerifierImplementsService`: the safety part of the refinement, action by action.
`BatchesMaximal` is about sums of attestations, a recursive function. A solution of its
equation exists up to every length and is the same on two queues with the same
beginning, both by the least position that would be an exception (`LeastNatural`, from the
library's `WFMin`); that replaces the induction rule the provers cannot instantiate.

For the column verifier, of any width, service time and number of columns, the module
proves `LatencyBound` and `NoFasterThanWidth`. `Out(c)` is when a started column will be done.
Columns start in the order in which they came (`OrderInv`) and are out in it; of those
started, no more than the width are out within one service time (`WidthInv`, whence the
limit); and a column that waits came just now or the one a width before it is not out
(`PunctualInv`). `RoundsInv` turns that into a bound: counted from
the first column that can have held a column up, each group of `width` columns
costs one service time more.

`SlotVoteProofs` proves for every set of roles and columns and every choice of
instants `TypeOK`, `OneVotePerSlot`, `BlockVoteJustified` and `DataAvailable`, and, if
the preparation delay is positive, `PriorVoteJustified`. `OneVotePerSlot` is not
inductive: a vote is published long after it is claimed, so `ClaimInv` ties the claim
to the emission and the emission to the count. `BlockInv` says a claim for the block is
in time and stays so, from the lemma `SeenStaysSeen`: arrivals are recorded once.
`DataInv` says what an open gate means. For the prior-head vote the deadline's claim
never evaluates the rule, so the argument goes through the clock: `UnclaimedInv`
says that a vote that is ready in time and not yet claimed became ready at this
very instant and its goroutine is about to try it, since the clock stands still
until it has (`PendingUntilTried`). At the deadline that would make the instant of
readiness the deadline itself, which a positive delay excludes; with delay zero
it does not, and `slot_vote_tie` is the counterexample.

On the clock rest three more results of the same module. `PTCVotesTruthful`: `SetupInv`
and `FixedInv` say which fixed-time timers there are when, and `RevealInv` says
that a proposer which was not held up holds its own payload from the instant it is
drawn. `EndSlotStopsNothing` and `VotesCastByDeadline` need that setup is not parked in a
warm-up for a whole slot, and have `MaxWarmup < SlotDur` as hypothesis; `DeadlineInv`
says that every timer fires before the slot's end and that what the deadline's has passed is
claimed. That a full count of columns is all of them (`CompleteIsAll`) rests on the set
being part of the custody, and finite (`ColumnsFinite`).

`SlotDialsProofs` proves `NoLeakWhenPrompt` and `FanoutLandsApart` for any number of slots
and any picks. Neither is inductive: between `connect` and `disconnect` a connection is
somebody's. `Owns` names the slot whose dial or drop is still to account for it,
`OwnedInv` says there is one while handshakes are prompt, `ReachInv` that a slot keeps the
peers it dialed but for those of the slot before, and `ClockInv` that the clock cannot
pass a slot's end before its drop.

`FinalityRoundsProofs` proves, for every number of rounds, chain, set of topics and peers
shared in any way, `SparesLiveRounds` (`SparedInv`: what a drop has left to release is no
live round's; `KeptInv`), `JoinedBeforeVote` if no votes are due at the very start of a
round, and `NothingLeaks`. The last is the long one: a round is spawned once (`OnceInv`),
what its timers may be depends on how far its pre-join is (`StageInv`), slots are set up
and reaped on time (`SlotInv`), so no drop lasts into the round after the next
(`PromptInv`), and all that is up is owned (`OwnedInv`). The proof needs a chain with
aggregates to have them due after the round's start, which is what `NewRunner` refuses
otherwise; it is part of `FinalityAssumption`.

`NodeTopicsProofs` proves `NoLeakedSubscription` and `ReceivedOnce` for any overlap and any
failure of calls. On a topic outside `overlapped` at most one Subscribe is under way
(`ApartInv`), so nothing is recorded while it is (`UnrecordedInv`) and an open subscription is
in `n.subs` or in a call (`OpenInv`). Unless an Unsubscribe is between its steps that makes
at most one subscription open (`OneOpen`), so that a message let through then is in one
place from there on (`PlaceInv`).

`BackendsProofs` proves `RunFramed` on both backends for all sizes, jitters and failures,
if under Shadow `-startup` covers the slowest bring-up and the settle time (`InTime`).
`HostInv` follows a host through `main`, `DriverInv` the simnet driver, `RunInv` ties every
slot's beginning to its runner's start. For any set of configurations it proves
`RunsAsConfigured`: `FateInv` says that what became of a run on a backend is the fate that
backend's checks give an accepted configuration and its plan; that the two fates agree,
and what each refuses, is then shown of the checks themselves: `SameRunner` (both lists end
in the same settings), `SameRefusal` (NewRunner refuses what `Unset` names, for each host),
`SameFate`. For the
recorder it proves `RateMatchesGate` and `FiguresTruthful`, for any fleet and programs:
`PubInv` (who has published what), `StampInv` (the messages of one burst carry one stamp)
and `HeardInv` (arrivals and deliveries pair off through the publish) tie the records to
what happened. A percentile is the delay of some arrival with the right number below
it; that there is one is again an argument by the least delay.

`PartialProofs` proves `SentOncePerPeer`, `ArrivesOnce`, `ValidatingIsQueued` and
`PrunedStaysPruned` for any topics, envelopes, caps and orders of service. `CountInv`: the forward count
of a held position is the number of peers it was sent to, all of whom are known to have
it, and is zero for one that is not held, which makes a second send impossible.
`AwaitedInv`: a position under verification is in exactly one item. `KnownInv`,
`HeldInv` and `StaleInv` carry that through seal and prune, where a group goes and its
stragglers come back. Serving peers in order is a fold over a sequence; what it does is proved
by the least counterexample on the naturals (`LeastNat`, from the library's `WFMin`), not
by an induction rule.

The same module proves `TransportIsFlood`: the safety part of `AllFlood`, for every
mesh, cap, order and loss, if mesh and gossip links join members and fan-out links come from outside (`Wired`,
which both scenarios of the run satisfy). A member verifies and is sent only what it can hear (`HeardInv`);
a neighbour's bucket that has validated a vote keeps it. The first attempt at the proof
failed on the fan-out publisher, whose one RPC may carry several votes where `VoteFlood`
let one be published at a time; the abstract specification now publishes a set.

`PlanProofs` proves `GraphSound` for any number of nodes, subnets, degrees and sequence of
draws. The builders only add links, so what a tree has linked stays linked: `TreeInv` says
that no proper part of the nodes a tree has reached is cut off from the rest, which
needs no paths and no induction. `FillInv` counts the links of the members a fill has served,
`PeersInv` and `DialInv` say that what is written, read back and dialed is the finished
graph. The ring is connected because a set of nodes closed under "next" goes on to the
last one (`GoesOn`).

It also proves `PositionsAgree` and `DutiesSharedOut`, for any sizes and draws. What has to
be invariant is little: the draws stay as `generate` made them (`DrawnInv`) and slot i is
`_slot_plan(i, d)` for some draw d (`SlotsInv`). The rest is about the definitions. `Hosting`:
the generator's bisection, the reader's search and a node's own range agree on where
a validator lives, under both hosting rules. `RanksAre`: in a finite set of numbers
every rank below its size is one element's, by the pigeonhole; so a position resolves
(`PositionResolves`) and is held (`PositionHeld`). `Remainder` gives each finality
slot one group per round, and the boundary slot its round (`DrawIsFor`), also when the
last finality slot is cut short.

**Assumptions.** They are the named `ASSUME`s of the modules: the types of the constants,
deadlines inside the slot, roles among those the driver admits, topics distinct from
the model's marks for none and closed, own votes inside their committees. Those of the
composed modules say what the program's input checks or its own construction give:
`ColumnsConfigured`, numbers, and a width that may be anything because the code clamps it;
`ConfigsTyped`, settings of the types YAML parsing leaves; `ProgramsRun`, publish programs in which a message has
one place, the block and its columns are the proposer's and share a burst, as
`publishBlock` sends them; `GraphParameters`, at least one node and groups of nodes;
`DrawsAssumption`, counts that sum to the validators (`generate` draws them so), a
backbone that is not empty (refused otherwise), one sync subnet per node (round-robin)
and samples of validators. TLC evaluates every one of them, and checked each inductive
invariant before it was proved. Hypotheses of a theorem (a positive delay, a warm-up shorter than a slot, a positive vote offset, a
sufficient startup, `Wired`) are the configurations in which the property is meant; the
runs satisfy each of them.

**Left to TLC**: everything under fairness (the liveness part of `ImplementsService` and of
`AllFlood`, `EveryVoteCast`, `EverySlotVotes`, `EveryRoundVotes`, `HooksReturn`, `CloseReturns`,
`PeersServed`, `AllDelivered`, `EveryRunEnds`), which the prover cannot reason about.

## Findings

Three runs expect a violation: what the code does disagrees with what it says of itself,
and `PROJECT.json` quotes the line. `slot_vote_tie`: at the default preparation delay the
tie at the deadline is not decided by `emitDecision`, as its comment claims, but by
who runs first. `slot_dials_leak`: `endSlot` does not close a connection whose
handshake ends after the slot, so it stays for the rest of the run.
`finality_rounds_raced`: with k = 2 at 50 % a drop and the next pre-join share an instant, and
"in either firing order" the pre-join should leave its round warmed up; but if it registers
between the drop's snapshot and its Unsubscribe, its own Subscribe and Dial find everything
up, do nothing, and the drop then takes it down.

### Observations

Met while modelling, and kept as the stated limits of a property or of a model rather
than as runs:

* `batchEnd` takes at least one item, so an item above the cap is a batch of its own and
  sleeps longer than verifier.go:31 says (`partial.go` submits a whole envelope as one item);
* `onBlockDeadline` reaches its sync half behind the attestation's dials, so slow dials
  make a sync message late (`EveryVoteCast` holds, "by the deadline" does not);
* `dropDials` closes a peer that the next slot has just reused; hence the "apart" of
  `FanoutLandsApart`;
* `dropFinality` releases by a snapshot (`finality_rounds_raced`); `SparesLiveRounds` says
  that this is the only way a round loses anything, hence its `~raced`;
* overlapping `Subscribe`s on one topic open two subscriptions of which `n.subs` keeps
  one, and the other stays open and received from until the end; hence `overlapped` in
  `NoLeakedSubscription`. The pre-joins of two rounds meet only if the dials of the first
  last until the second is spawned;
* a drop's `Unsubscribe` (runner.go:1006) may stand between its lock section and `sub.Cancel`
  when the next pre-join subscribes the topic again (runner.go:865): until the cancel both
  subscriptions are open, and a message let through then is received twice; hence `crossed`
  in `ReceivedOnce`;
* a verifier created by a late partial RPC after `Close` copied the map is never stopped;
* `seal` keeps no watermark, so a group created after it is unsealed;
* `CustodyCompleteRate` counts from the publish, the vote's gate from the slot's start,
  and knows the proposer by a `KindBlock`, which ePBS does not publish; hence the
  premise of `RateMatchesGate`;
* `aggregate_due_ms: 0` is documented as "aggregates off" (config.py:74), but with aggregators
  drawn `NewRunner` panics, on both backends; simctl accepts the zeros of
  `consensus_block_size` and `ptc_due_ms` as well, and the last stops all of simnet but only
  those Shadow hosts that have PTC voters (`RefusedForCause`);
* simctl does not check `startup_seconds` (config.py:224): a startup within the 30 s join
  stagger ends every Shadow host at once, while simnet, which is not given it, runs; hence
  the premise of `BackendsAgree`;
* `_host_args` passes none of the column verifier's knobs to Shadow; a latency of half a
  millisecond is rounded to even by Python and away from zero by Go;
* a ring's topology.json has one direction of each link, and against it simnet falls back
  to the default latency;
* main compares the startup with the join stagger alone, but the pause before dialing and
  the dials come on top; `MeshesSettle` is checked with a startup that covers all three.

## Not modelled

Message contents, sizes and encodings; the libp2p and gossipsub internals (mesh
maintenance, scoring, the expiry of the extension's own per-group state); link
speeds and latencies, which are the parameters of the simulation and not its
logic; losses beyond what the partial transport's redundancy can cover, of which the
code promises nothing; the message registry, a constant table checked at init;
reports, process control and file layout, which are offline. `PROJECT.json` gives the
reason for each component.

## Plan

`FinalityRounds` over `NodeTopics`' Subscribe in its lock sections, so that the drop's
snapshot and a pre-join's four steps interleave in one model.
