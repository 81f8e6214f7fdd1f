-------------------------- MODULE MCPartialManager --------------------------
(***************************************************************************)
(* PartialManager for TLC in two scenarios, one or the other: a group      *)
(* served to two peers, and the garbage collection of several groups.      *)
(***************************************************************************)
EXTENDS PartialManager

P1 == "p1"
P2 == "p2"

\* The scenarios share the kinds of the topics, the own vote, the peers and the
\* caps, which is all the invariants depend on: each is one formula for both.
TopicKinds == <<"attestation", "finality">>
OwnVote == {<<<<1, 1>>, "d", 0>>}

Meta(d, a, r) == [data |-> d, available |-> a, requests |-> r]
Batch(d, pos) == [data |-> d, positions |-> pos, signed |-> TRUE]
Env(p, k, ms, bs) == [from |-> p, key |-> k, metas |-> ms, batches |-> bs]

\* One group of two positions, two peers, caps of one: own vote 0, foreign
\* vote 1 on two datas; position 2 is past the committee.
K11 == <<1, 1>>
OneKey == {K11}
OneSize == [k \in OneKey |-> 2]
OneEnvelopes == {
  Env(P1, K11, {Meta("d", {}, {1})}, <<Batch("d", {0, 1}), Batch("e", {1, 2})>>),
  Env(P2, K11, {}, <<Batch("d", {1}), Batch("e", {1})>>),
  Env(P2, K11, {Meta("d", {1}, {})}, <<>>),
  Env(P2, K11, {Meta("d", {}, {0})}, <<>>)}
TwoPeers == {P1, P2}
OnePeer == {P1}

\* Two topics of two kinds, two group keys; one cell is empty, the second
\* peer takes no partial messages.
GCKeys == {<<1, 1>>, <<2, 1>>, <<2, 2>>}
GCSize == [k \in GCKeys |-> IF k = <<2, 1>> THEN 0 ELSE 2]
GCEnvelopes == {Env(P1, k, {}, <<Batch("d", {1})>>) : k \in GCKeys}
               \cup {Env(P1, <<1, 1>>, {}, <<Batch("d", {0, 1}),
                                              [Batch("d", {1}) EXCEPT !.signed = FALSE]>>)}

GC == INSTANCE PartialManager
        WITH RequestsPartial <- OnePeer, Mesh <- TwoPeers, Keys <- GCKeys,
             KindOf <- TopicKinds, Size <- GCSize, Datas <- {"d"}, Own <- OwnVote,
             Envelopes <- GCEnvelopes, DisableGossip <- TRUE

VARIABLE part

MCInit == (part = "one" /\ Init) \/ (part = "gc" /\ GC!Init)

One == part = "one" /\ Next /\ UNCHANGED part
Collect == part = "gc" /\ GC!Next /\ UNCHANGED part

MCSpec ==
  /\ MCInit /\ [][One \/ Collect]_<<part, vars>>
  /\ WF_vars(part = "one" /\ tick)
  /\ \A k \in Keys : WF_vars(part = "one" /\ publishActions(k))
  /\ \A kd \in Kinds : WF_vars(part = "one" /\ markValidated(kd))

\* Every validated vote reaches each lasting mesh peer (MeshServed: tick,
\* publishActions) and whatever is advertised and missing is asked for
\* (AdvertisedIsAsked: selectIWantTargets), in the scenario that serves peers.
PeersServed == (part = "one") => MeshServed /\ AdvertisedIsAsked
============================================================================
