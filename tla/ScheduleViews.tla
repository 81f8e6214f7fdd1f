---------------------------- MODULE ScheduleViews ----------------------------
(***************************************************************************)
(* The plan of a run (simctl/schedule.py) and the two ways its readers     *)
(* look at it: every node's own view of its duties (schedule.go, Node),    *)
(* and the partial transport's resolver, by which any node turns a         *)
(* position on the wire back into a validator and its host (position.go,   *)
(* driver/partial.go).  The two are derived separately from the same draws *)
(* and nothing on the wire would tell if they disagreed.                   *)
(*                                                                         *)
(* The generator's random draws are choices.  Nodes, validators, slots,    *)
(* subnets and positions count from 0, as in the code; sequences from 1.   *)
(***************************************************************************)
EXTENDS Integers, FiniteSets, Sequences, FiniteSetsExt, SequencesExt

CONSTANTS
  N,              \* nodes
  V,              \* validators
  NumSlots,
  K,              \* AC slots per finality slot
  S,              \* subnets (attestation committees, finality subnets)
  Sc,             \* seats per committee
  NumColumns,
  Modes,          \* subset of {"committees", "base", "segregated"}
  CountDraws,     \* hosted-validator counts to try; <<>> is the uniform rule
  MembershipDraws,\* [full, cols, subs, sync, fin]: the backbone, the ordinary nodes' columns, and
                  \* the members of each attestation, sync and finality subnet
  TargetAggregators, \* aggregators per subnet, clamped to its members
  SlotDraws       \* a slot's samples: [vals, flat, order, finAggs], see _slot_plan

Nodes == 0..(N - 1)
Vals == 0..(V - 1)
Slots == 0..(NumSlots - 1)
Subnets == 0..(S - 1)
Columns == 0..(NumColumns - 1)

VARIABLES
  mode,
  plan     \* schedule.json: the assignment

vars == <<mode, plan>>

Segregated == mode = "segregated"
Decoupled == mode # "committees"

----------------------------------------------------------------------------
(* The generator.                                                          *)

\* accumulate(counts): the validators hosted by the first i nodes.
Bounds(counts) ==
  LET sum[i \in 0..N] == IF i = 0 THEN 0 ELSE sum[i - 1] + counts[i]
  IN  sum

\* _node_of: v % N, or bisect_right over the counts' running sums.
node_of(counts, v) ==
  IF counts = <<>> THEN v % N
  ELSE Cardinality({i \in 1..N : Bounds(counts)[i] <= v})

\* A sorted list of a set of numbers, from 0.
Nth(set, p) == CHOOSE x \in set : Cardinality({y \in set : y < x}) = p

\* What generate relies on: the counts sum to V, nodes are on one sync subnet at
\* most, the backbone is not empty and a committee sample fills the committees.
ASSUME DrawsAssumption ==
  /\ {N, K} \subseteq Nat \ {0} /\ {V, NumSlots, S, Sc, NumColumns, TargetAggregators} \subseteq Nat
  /\ \A c \in CountDraws : c = <<>> \/ (c \in [1..N -> Nat] /\ Bounds(c)[N] = V)
  /\ \A d \in MembershipDraws :
       /\ d.full \subseteq Nodes /\ d.full # {}
       /\ d.subs \in [Subnets -> SUBSET Nodes] /\ d.sync \in [Subnets -> SUBSET Nodes]
       /\ \A s, t \in Subnets : s # t => d.sync[s] \cap d.sync[t] = {}
  /\ \A d \in SlotDraws :
       /\ "committees" \in Modes => \A i \in 1..(S * Sc) : d.vals[i] \in Vals
       /\ d.order \in [Nodes -> Nat] /\ d.finAggs \in [Subnets -> SUBSET Vals]

generate ==
  /\ mode \in Modes
  /\ \E counts \in CountDraws, d \in MembershipDraws :
     \E subnetOf \in IF Decoupled THEN [Vals -> Subnets] ELSE {<<>>} :
     \E roundOf \in IF Segregated THEN [Vals -> 0..(K - 1)] ELSE {<<>>} :
       plan = [counts |-> counts, subnetOf |-> subnetOf, roundOf |-> roundOf,
               fullCustody |-> d.full,
               columnSubscribers |->
                 [c \in Columns |-> d.full \cup {n \in Nodes \ d.full : c \in d.cols[n]}],
               subnetSubscribers |-> IF Decoupled THEN <<>> ELSE d.subs,
               syncSubscribers |-> IF Decoupled THEN <<>> ELSE d.sync,
               finalitySubscribers |-> IF Decoupled THEN d.fin ELSE <<>>,
               \* validators_per_subnet, validators_per_round_subnet
               perSubnet |-> IF Decoupled
                 THEN [s \in Subnets |-> Cardinality({v \in Vals : subnetOf[v] = s})] ELSE <<>>,
               perRoundSubnet |-> IF Segregated
                 THEN [rs \in (0..(K - 1)) \X Subnets |->
                         Cardinality({v \in Vals : roundOf[v] = rs[1] /\ subnetOf[v] = rs[2]})]
                 ELSE <<>>,
               slots |-> <<>>]

Init == generate

\* Aggregators are drawn on the finality-slot boundary, or in every slot.
DrawsAggregators(slot) == Decoupled /\ (Segregated \/ slot % K = 0)

Unplanned(slot) == slot < NumSlots

\* The committees: a sample of the validators, cut into S committees of Sc.
committeesOf(counts, vals) ==
  [c \in 1..S |->
    [i \in 1..Sc |-> [node |-> node_of(counts, vals[(c - 1) * Sc + i]), val |-> vals[(c - 1) * Sc + i],
                      subnet |-> c - 1, position |-> i - 1]]]

hosts(counts, vs) == {[node |-> node_of(counts, v), val |-> v] : v \in vs}

\* A subnet's aggregators: the first of its members in the order drawn.
picked(members, order) ==
  {n \in members : Cardinality({m \in members : order[m] < order[n]}) < TargetAggregators}

\* vals: the committees' sample; flat: the AC voters or the PTC; order: the nodes
\* in the order aggregators are picked; finAggs: the finality aggregators, from
\* all validators.  Proposers are of the backbone: they originate all columns.
_slot_plan(slot, d) ==
  [proposer |-> Nth(plan.fullCustody, slot % Cardinality(plan.fullCustody)),
   committees |-> IF Decoupled THEN <<>> ELSE committeesOf(plan.counts, d.vals),
   subnet_of |-> IF Decoupled THEN <<>> ELSE [c \in 1..S |-> c - 1],
   aggregators |-> IF Decoupled THEN <<>> ELSE
     [c \in 1..S |-> picked(plan.subnetSubscribers[c - 1], d.order)],
   sync_aggregators |-> IF Decoupled THEN <<>> ELSE
     [s \in Subnets |-> picked(plan.syncSubscribers[s], d.order)],
   ac_voters |-> IF Decoupled THEN hosts(plan.counts, d.flat) ELSE {},
   ptc_voters |-> hosts(plan.counts, d.flat),
   finality_aggregators |->
     IF DrawsAggregators(slot) THEN [s \in Subnets |-> hosts(plan.counts, d.finAggs[s])] ELSE <<>>]

planSlot ==
  /\ Unplanned(Len(plan.slots))
  /\ \E d \in SlotDraws :
       plan' = [plan EXCEPT !.slots = Append(plan.slots, _slot_plan(Len(plan.slots), d))]
  /\ UNCHANGED mode

Next == planSlot

Spec == Init /\ [][Next]_vars

Slot(s) == plan.slots[s + 1]

----------------------------------------------------------------------------
(* The finality position space (position.go).                              *)

\* The row of the rank tables a validator falls in.
RowOf(v) == IF Segregated THEN plan.roundOf[v] ELSE 0

SameCell_SubnetOnly(u, v) == plan.subnetOf[u] = plan.subnetOf[v] \* mutant: forgets the round
SameCell(u, v) == plan.subnetOf[u] = plan.subnetOf[v] /\ RowOf(u) = RowOf(v)

\* r.pos[val]: the length of the cell when val is appended, in ascending order.
pos(v) == Cardinality({u \in 0..(v - 1) : SameCell(u, v)})

\* r.cells[subnet][row]; cells has no subnet past the largest one drawn.
SubnetsDrawn == {s \in Subnets : \E v \in Vals : plan.subnetOf[v] >= s}
cell(s, row) == {u \in Vals : plan.subnetOf[u] = s /\ RowOf(u) = row}

round(group) == IF Segregated THEN group % K ELSE 0

FinalityPosition(v) == IF v \in Vals THEN pos(v) ELSE -1

FinalityValAt(s, group, p) ==
  IF s \notin SubnetsDrawn THEN -1
  ELSE IF p \in 0..(Cardinality(cell(s, round(group))) - 1) THEN Nth(cell(s, round(group)), p) ELSE -1

FinalityCellSize(s, group) == IF s \in SubnetsDrawn THEN Cardinality(cell(s, round(group))) ELSE 0

\* The first node whose running sum exceeds val.
HostOf_Inclusive(v) == \* mutant: val <= start + n
  IF plan.counts = <<>> THEN v % N
  ELSE Min({i \in Nodes : v <= Bounds(plan.counts)[i + 1]})

HostOf(v) ==
  IF v < 0 THEN -1
  ELSE IF plan.counts = <<>> THEN v % N
  ELSE IF v < Bounds(plan.counts)[N] THEN Min({i \in Nodes : v < Bounds(plan.counts)[i + 1]}) ELSE -1

----------------------------------------------------------------------------
(* A node's view (schedule.go).                                            *)

\* Hosted ids: a contiguous range under counts, else v = node, node + N, ...
Hosted(n) ==
  IF plan.counts # <<>>
  THEN LET start == Bounds(plan.counts)[n] IN start..(start + plan.counts[n + 1] - 1)
  ELSE {v \in Vals : v >= n /\ (v - n) % N = 0}

finalityVoteDuties(n, slot) ==
  LET include(v) == Segregated => plan.roundOf[v] = slot % K
  IN  {[subnet |-> plan.subnetOf[v], val |-> v, position |-> FinalityPosition(v)] :
         v \in {u \in Hosted(n) : include(u)}}

\* Base mode finds the round's draw on the boundary slot.
drawSlot(slot) == IF Segregated THEN slot ELSE slot * K

finalityAggregations(n, slot) ==
  LET idx == drawSlot(slot)
  IN  IF idx \notin Slots \/ Slot(idx).finality_aggregators = <<>> THEN {}
      ELSE {s \in Subnets : \E r \in Slot(idx).finality_aggregators[s] : r.node = n}

rounds == IF Segregated THEN NumSlots ELSE (NumSlots + K - 1) \div K

CustodyColumns(n) ==
  IF n \in plan.fullCustody THEN Columns ELSE {c \in Columns : n \in plan.columnSubscribers[c]}

attestDuties(n, s) ==
  {[subnet |-> r.subnet, val |-> r.val, position |-> r.position] :
     r \in {q \in UNION {ToSet(com) : com \in ToSet(Slot(s).committees)} : q.node = n}}

\* The subnets n is a member of, in a table [subnet -> members].
MemberOf(table, n) == {s \in DOMAIN table : n \in table[s]}
FirstOf(subnets) == IF subnets = {} THEN -1 ELSE Min(subnets)

AggregateSubnets(n, s) ==
  {Slot(s).subnet_of[c] : c \in {d \in DOMAIN Slot(s).aggregators : n \in Slot(s).aggregators[d]}}

Node(n) ==
  LET voters(refs) == {r.val : r \in {q \in refs : q.node = n}}
      someone(table) == \E x \in DOMAIN table : table[x] # {}
  IN
  [Proposes |-> [s \in Slots |-> Slot(s).proposer = n],
   CustodyColumns |-> CustodyColumns(n),
   SubscribedSubnets |-> MemberOf(plan.subnetSubscribers, n),
   SyncSubnet |-> FirstOf(MemberOf(plan.syncSubscribers, n)),
   FinalitySubnet |-> FirstOf(MemberOf(plan.finalitySubscribers, n)),
   AttestDuties |-> [s \in Slots |-> attestDuties(n, s)],
   ACVoteDuties |-> [s \in Slots |-> voters(Slot(s).ac_voters)],
   PTCDuties |-> [s \in Slots |-> voters(Slot(s).ptc_voters)],
   AggregateSubnets |-> [s \in Slots |-> AggregateSubnets(n, s)],
   SyncAggregateSubnets |-> [s \in Slots |-> MemberOf(Slot(s).sync_aggregators, n)],
   HasAggregators |-> \E s \in Slots : someone(Slot(s).aggregators),
   HasSyncAggregators |-> \E s \in Slots : someone(Slot(s).sync_aggregators),
   HasFinalityAggregators |-> \E s \in Slots : someone(Slot(s).finality_aggregators),
   FinalityVoteDuties |-> IF Decoupled THEN [r \in 0..(rounds - 1) |-> finalityVoteDuties(n, r)] ELSE <<>>,
   FinalityAggregations |-> IF Decoupled THEN [r \in 0..(rounds - 1) |-> finalityAggregations(n, r)] ELSE <<>>]

----------------------------------------------------------------------------
(* The resolver (driver/partial.go).                                       *)

committee(s, group) ==
  IF group \notin Slots THEN <<>>
  ELSE LET cis == {i \in DOMAIN Slot(group).subnet_of : Slot(group).subnet_of[i] = s}
       IN  IF cis = {} THEN <<>> ELSE Slot(group).committees[Min(cis)]

CommitteeSize(kind, s, group) ==
  IF kind = "attestation" THEN Len(committee(s, group)) ELSE FinalityCellSize(s, group)

Identity(kind, s, group, p) ==
  IF kind = "attestation"
  THEN LET refs == {r \in ToSet(committee(s, group)) : r.position = p}
       IN  IF refs = {} THEN <<-1, -1>> ELSE LET r == CHOOSE x \in refs : TRUE IN <<r.val, r.node>>
  ELSE LET v == FinalityValAt(s, group, p) IN IF v >= 0 THEN <<v, HostOf(v)>> ELSE <<-1, -1>>

----------------------------------------------------------------------------
(* Properties.                                                             *)

\* The views the nodes make of the finished plan.
Viewed == Len(plan.slots) = NumSlots
views == [n \in Nodes |-> Node(n)]
Rounds == 0..(rounds - 1)

\* The votes owed in a group: [node, duty].
Owed(kind, group) ==
  UNION {{[node |-> n, duty |-> d] :
            d \in IF kind = "attestation" THEN views[n].AttestDuties[group]
                  ELSE views[n].FinalityVoteDuties[group]} : n \in Nodes}

\* Every validator votes in every finality slot, once, from the node that hosts
\* it: in base mode in each round; under segregation once in each K consecutive
\* slots, whatever the two draws are.  A vote owed by two nodes, or by none, is
\* in no error message.
EveryVoteOwedOnce ==
  Viewed /\ Decoupled =>
    LET finalitySlots == {f \in 0..NumSlots : IF Segregated THEN (f + 1) * K <= NumSlots ELSE f \in Rounds}
        groups(f) == IF Segregated THEN (f * K)..((f + 1) * K - 1) ELSE {f}
    IN  \A f \in finalitySlots, v \in Vals :
          LET owing == {ng \in Nodes \X groups(f) :
                          \E d \in views[ng[1]].FinalityVoteDuties[ng[2]] : d.val = v}
          IN  Cardinality(owing) = 1 /\ \A ng \in owing : ng[1] = HostOf(v)

\* The wire identity is faithful both ways: the position a node publishes under
\* resolves, at any other node, to that validator and that node, and every
\* position of the group's width is owed by exactly the vote it resolves to.
ResolverAgrees ==
  Viewed =>
    \A kind \in IF Decoupled THEN {"finality"} ELSE {"attestation"} :
    \A group \in IF Decoupled THEN Rounds ELSE Slots :
      /\ \A o \in Owed(kind, group) :
           /\ Identity(kind, o.duty.subnet, group, o.duty.position) = <<o.duty.val, o.node>>
           /\ o.duty.position < CommitteeSize(kind, o.duty.subnet, group)
      /\ \A s \in Subnets : \A p \in 0..(CommitteeSize(kind, s, group) - 1) :
           \E o \in Owed(kind, group) : o.duty.subnet = s /\ o.duty.position = p

\* The width Go derives is the count Python carries in the plan, which sizes the
\* aggregates.
CellsMatchCounts ==
  Viewed /\ Decoupled =>
    \A s \in Subnets, g \in Rounds :
      FinalityCellSize(s, g) = IF Segregated THEN plan.perRoundSubnet[<<g % K, s>>] ELSE plan.perSubnet[s]

\* Every aggregator drawn for a round is in exactly its host's duties, also when
\* the last finality slot is cut short by the run's end.
AggregatorsAssigned ==
  Viewed /\ Decoupled =>
    \A i \in {j \in Slots : Slot(j).finality_aggregators # <<>>}, s \in Subnets, n \in Nodes :
      LET key == IF Segregated THEN i ELSE i \div K
      IN  /\ key \in Rounds
          /\ (s \in views[n].FinalityAggregations[key]
                <=> \E r \in Slot(i).finality_aggregators[s] : n = HostOf(r.val))

\* An aggregator never needs a subscription it does not have: the subnets a node
\* aggregates (committee and sync) are ones it is a member of, every subnet with
\* members has its aggregators, and only the finality chain, which draws from all
\* validators, needs a pre-join.
AggregatorsAreMembers ==
  Viewed =>
    \A s \in Slots :
      /\ \A n \in Nodes : /\ views[n].AggregateSubnets[s] \subseteq views[n].SubscribedSubnets
                           /\ views[n].SyncAggregateSubnets[s] \subseteq {views[n].SyncSubnet}
      /\ \A x \in Subnets : (~Decoupled /\ plan.subnetSubscribers[x] # {} /\ TargetAggregators > 0) =>
           \E n \in Nodes : x \in views[n].AggregateSubnets[s]

\* Each slot has one proposer; it custodies every column, on whose meshes it
\* bursts them; and a node custodies exactly the columns whose mesh it is in.
ProposerHoldsColumns ==
  Viewed =>
    /\ \A s \in Slots : Cardinality({n \in Nodes : views[n].Proposes[s]}) = 1
    /\ \A s \in Slots, n \in Nodes : views[n].Proposes[s] => views[n].CustodyColumns = Columns
    /\ \A n \in Nodes, c \in Columns : c \in views[n].CustodyColumns <=> n \in plan.columnSubscribers[c]

\* The nodes' views share out the plan's duties: every finality vote, every
\* aggregation and every proposal is somebody's, and can be carried out there.
DutiesSharedOut ==
  EveryVoteOwedOnce /\ AggregatorsAssigned /\ AggregatorsAreMembers /\ ProposerHoldsColumns

\* The positions on the wire mean the same to publisher, resolver and plan.
PositionsAgree == ResolverAgrees /\ CellsMatchCounts
==============================================================================
