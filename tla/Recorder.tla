------------------------------ MODULE Recorder ------------------------------
(***************************************************************************)
(* The metrics recorder (metrics/tracer.go) fed by a small fleet: each     *)
(* node publishes its messages in bursts (publishBlock, publishConsensus-  *)
(* Block, publishExecutionPayload, emitFinalityVotes), recording each with *)
(* the burst's instant just before it hands it to the network, and records *)
(* every message of another node it receives (onReceive).  The network may *)
(* lose, delay, reorder and duplicate messages.  Time counts from the      *)
(* slot's start.                                                           *)
(*                                                                         *)
(* The metrics are fractions in the code; here a fraction is the pair of   *)
(* its numerator and denominator.                                          *)
(***************************************************************************)
EXTENDS Integers, FiniteSets, Sequences, SequencesExt

CONSTANTS
  Nodes,
  Programs,      \* what the slot may publish: node -> its bursts [when, ids]
  Proposer,      \* the node that publishes the slot's block and columns
  Custody,       \* Custody[n]: the custody columns of n
  Aggregators,   \* the aggregators of the finality subnet
  Due,           \* the deadline handed to the metrics
  MaxTime,       \* bound: the run ends at this tick
  MaxCopies      \* bound: MaxCopies[k], deliveries of one message of kind k to one node

MsgID(k, subnet, attester, origin) ==
  [kind |-> k, subnet |-> subnet, attester |-> attester, origin |-> origin]

BlockID(p) == MsgID("block", -1, -1, p)
ConsensusBlockID(p) == MsgID("consensus", -1, -1, p)
ExecutionPayloadID(p) == MsgID("payload", -1, -1, p)
ColumnID(c, p) == MsgID("column", c, -1, p)
FinalityVoteID(s, v, n) == MsgID("finalityVote", s, v, n)

Burst(w, ids) == [when |-> w, ids |-> ids]

VARIABLES
  program,   \* the slot's program, never changes
  now,
  at,        \* node -> [burst, next, stamp, recorded]: where its program stands
  pub,       \* r.pub: set of [id, at]
  arrivals,  \* r.arrivals: set of [node, id, delay, copy]
  orphans,   \* r.orphans
  wire,      \* messages handed to the network
  heard      \* history: [node, id, at, copy] of every delivery, recorded or not

vars == <<program, now, at, pub, arrivals, orphans, wire, heard>>

\* The places of a program: <<node, burst, message>>, and the message there.
Places(pr) ==
  UNION {UNION {{<<n, b, i>> : i \in 1..Len(pr[n][b].ids)} : b \in 1..Len(pr[n])} : n \in Nodes}
IdAt(pr, x) == pr[x[1]][x[2]].ids[x[3]]

\* The programs the driver runs: bursts of at least one message, no message in
\* two places, the block and the columns all the proposer's, and the columns in
\* the burst of the block if there is one.
Programmed ==
  /\ Due \in Int
  /\ \A pr \in Programs :
       /\ \A n \in Nodes : Len(pr[n]) \in Nat
       /\ \A n \in Nodes : \A b \in 1..Len(pr[n]) : Len(pr[n][b].ids) \in Nat \ {0}
       /\ \A x, y \in Places(pr) : IdAt(pr, x) = IdAt(pr, y) => x = y
       /\ \A x, y \in Places(pr) :
            IdAt(pr, x).kind = "block" /\ IdAt(pr, y).kind = "column" => x[1] = y[1] /\ x[2] = y[2]
       /\ \A x \in Places(pr) :
            /\ IdAt(pr, x).kind = "block" => IdAt(pr, x) = BlockID(Proposer)
            /\ IdAt(pr, x).kind = "column" => IdAt(pr, x) = ColumnID(IdAt(pr, x).subnet, Proposer)

\* Every message of the slot, and who is on its topic.
IDs == {IdAt(program, x) : x \in Places(program)}
Audience(id) ==
  IF id.kind = "column" THEN {n \in Nodes : id.subnet \in Custody[n]}
  ELSE IF id.kind = "finalityVote" THEN Aggregators ELSE Nodes

Init ==
  /\ program \in Programs /\ now = 0
  /\ at = [n \in Nodes |-> [burst |-> 1, next |-> 0, stamp |-> 0, recorded |-> FALSE]]
  /\ pub = {} /\ arrivals = {} /\ orphans = 0 /\ wire = {} /\ heard = {}

----------------------------------------------------------------------------
(* Publishing.  next = 0 before the burst's instant is taken.              *)

Current(n) == program[n][at[n].burst]

begin(n) ==
  /\ at[n].burst <= Len(program[n]) /\ at[n].next = 0
  /\ now >= Current(n).when
  /\ at' = [at EXCEPT ![n].next = 1, ![n].stamp = now]
  /\ UNCHANGED <<program, now, pub, arrivals, orphans, wire, heard>>

Stamp(n) == at[n].stamp

Publishing(n) == at[n].burst <= Len(program[n]) /\ at[n].next > 0

\* OnPublish comes before Publish, with the instant of the burst: r.pub[id] = ...
OnPublish(n) ==
  /\ Publishing(n) /\ ~at[n].recorded
  /\ LET id == Current(n).ids[at[n].next]
     IN  pub' = {p \in pub : p.id # id} \cup {[id |-> id, at |-> Stamp(n)]}
  /\ at' = [at EXCEPT ![n].recorded = TRUE]
  /\ UNCHANGED <<program, now, arrivals, orphans, wire, heard>>

Sendable(n) == at[n].recorded

publish(n) ==
  /\ Publishing(n) /\ Sendable(n)
  /\ wire' = wire \cup {Current(n).ids[at[n].next]}
  /\ LET a == at[n]
     IN  at' = [at EXCEPT ![n] =
                  IF a.next < Len(Current(n).ids)
                  THEN [a EXCEPT !.next = a.next + 1, !.recorded = FALSE]
                  ELSE [a EXCEPT !.burst = a.burst + 1, !.next = 0, !.recorded = FALSE]]
  /\ UNCHANGED <<program, now, pub, arrivals, orphans, heard>>

----------------------------------------------------------------------------
(* Receiving.                                                              *)

Copies(n, id) == Cardinality({h \in heard : h.node = n /\ h.id = id})

\* onReceive and OnReceive: the loopback is skipped; a message with no recorded
\* publish is an orphan.
OnReceive(n, id) ==
  LET ps == {p \in pub : p.id = id}
      k == Copies(n, id) + 1
  IN  /\ id \in wire /\ n \in Audience(id) /\ n # id.origin
      /\ k <= MaxCopies[id.kind]
      /\ heard' = heard \cup {[node |-> n, id |-> id, at |-> now, copy |-> k]}
      /\ IF ps = {} THEN orphans' = orphans + 1 /\ UNCHANGED arrivals
         ELSE /\ arrivals' = arrivals \cup
                   {[node |-> n, id |-> id, delay |-> now - p.at, copy |-> k] : p \in ps}
              /\ UNCHANGED orphans
      /\ UNCHANGED <<program, now, at, pub, wire>>

\* Simulated time: a burst starts at its instant and takes no time.
Idle(n) == at[n].burst <= Len(program[n]) => at[n].next = 0 /\ now < Current(n).when

Tick ==
  /\ now < MaxTime /\ \A n \in Nodes : Idle(n)
  /\ now' = now + 1
  /\ UNCHANGED <<program, at, pub, arrivals, orphans, wire, heard>>

Next == Tick \/ \E n \in Nodes : begin(n) \/ OnPublish(n) \/ publish(n) \/ \E id \in IDs : OnReceive(n, id)

Spec == Init /\ [][Next]_vars

----------------------------------------------------------------------------
(* The metrics, over what is recorded.                                     *)

\* The proposer as CustodyCompleteRate finds it.
BlockOrigins == {p.id.origin : p \in {q \in pub : q.id.kind = "block"}}

InTime(a) == a.delay <= Due

CustodyCompleteRate_AnyColumn == \* mutant: one custody column in time is enough
  LET custodiers == {n \in Nodes : Custody[n] # {}}
      arrived(n) == {a.id.subnet : a \in {b \in arrivals : b.node = n /\ b.id.kind = "column" /\ InTime(b)}}
  IN  <<Cardinality({n \in custodiers : n \in BlockOrigins \/ Custody[n] \cap arrived(n) # {}}),
        Cardinality(custodiers)>>

CustodyCompleteRate ==
  LET custodiers == {n \in Nodes : Custody[n] # {}}
      arrived(n) == {a.id.subnet : a \in {b \in arrivals : b.node = n /\ b.id.kind = "column" /\ InTime(b)}}
  IN  <<Cardinality({n \in custodiers : n \in BlockOrigins \/ Custody[n] \subseteq arrived(n)}),
        Cardinality(custodiers)>>

FinalityCoverageAtDeadline_Loopback == \* mutant: an aggregator's own vote is expected back
  LET pairs == {p.id : p \in {q \in pub : q.id.kind = "finalityVote"}} \X Aggregators
  IN  <<Cardinality({va \in pairs : \E a \in arrivals : a.id = va[1] /\ a.node = va[2] /\ InTime(a)}),
        Cardinality(pairs)>>

FinalityCoverageAtDeadline ==
  LET votes == {p.id : p \in {q \in pub : q.id.kind = "finalityVote"}}
      pairs == {va \in votes \X Aggregators : va[2] # va[1].origin}
  IN  <<Cardinality({va \in pairs : \E a \in arrivals : a.id = va[1] /\ a.node = va[2] /\ InTime(a)}),
        Cardinality(pairs)>>

percentile(sorted, p) ==
  LET r == (p * Len(sorted) + 99) \div 100 IN sorted[IF r < 1 THEN 1 ELSE r]

\* The delays in ascending order, as slices.Sort leaves them: in place r is the
\* one with fewer than r arrivals below it and at least r up to it.
Below(d) == Cardinality({a \in arrivals : a.delay < d})
UpTo(d) == Cardinality({a \in arrivals : a.delay <= d})
Sorted ==
  [r \in 1..Cardinality(arrivals) |->
     CHOOSE d \in {a.delay : a \in arrivals} : Below(d) < r /\ r <= UpTo(d)]

Summarize == [p \in {50, 90, 99, 100} |-> percentile(Sorted, p)]

----------------------------------------------------------------------------
(* What really happened.                                                   *)

HeardBy(n, id, t) == \E h \in heard : h.node = n /\ h.id = id /\ h.at <= t

\* Node n held its custody by the slot's instant t: it received every column,
\* or it is the proposer, who made them.
CustodyBy(n, t) == n = Proposer \/ \A c \in Custody[n] : HeardBy(n, ColumnID(c, Proposer), t)

Custodiers == {n \in Nodes : Custody[n] # {}}

\* What the comment on CustodyCompleteRate says, of the deadline the vote's gate
\* uses: the rate is the share of custodiers that held all their columns Due
\* after the slot's start, over losses, duplicates and late columns.  It needs a
\* block with its columns that goes out at the slot's start: the rate measures
\* from the publish, and under ePBS it does not recognise the proposer.
RateMatchesGate ==
  [id |-> BlockID(Proposer), at |-> 0] \in pub =>
    CustodyCompleteRate[1] = Cardinality({n \in Custodiers : CustodyBy(n, Due)})

\* The finality coverage is the share of pairs of a vote and another host's
\* aggregator that the network delivered within Due of the vote's burst, over
\* losses and duplicates.
CoverageTruthful ==
  LET PublishedAt(id) == (CHOOSE p \in pub : p.id = id).at
      pairs == {va \in {p.id : p \in pub} \X Aggregators :
                  va[1].kind = "finalityVote" /\ va[2] # va[1].origin}
  IN  FinalityCoverageAtDeadline =
        <<Cardinality({va \in pairs : HeardBy(va[2], va[1], PublishedAt(va[1]) + Due)}), Cardinality(pairs)>>

\* The p-th percentile is a delay that at least p percent of the arrivals do not
\* exceed, and fewer than p percent lie below.
PercentilesSound ==
  arrivals # {} =>
    \A p \in {50, 90, 99, 100} :
      LET v == Summarize[p]
          n == Cardinality(arrivals)
      IN  100 * UpTo(v) >= p * n /\ 100 * Below(v) < p * n

\* Both figures of the report agree with what the network did.
FiguresTruthful == CoverageTruthful /\ PercentilesSound
============================================================================
