--------------------------- MODULE PartialNetwork ---------------------------
(***************************************************************************)
(* The members of one topic running the partial transport (node/partial.go)*)
(* on one group and one attestation_data: every member has its bucket,     *)
(* its extension's peerStates and its verifier; their RPCs are on the wire *)
(* between them.  A publisher outside the topic fans its votes out.        *)
(* The bucket's operations are PartialBucket's; Peers is every node.       *)
(*                                                                         *)
(* Links are ordered and reliable, except for MaxLoss RPCs that a full     *)
(* queue drops.  Groups are neither sealed nor pruned here.                *)
(***************************************************************************)
EXTENDS PartialBucket, Sequences

CONSTANTS
  Members,
  MeshLinks,    \* symmetric: the pairs in each other's mesh
  GossipLinks,  \* symmetric: connected pairs outside the mesh
  FanoutLinks,  \* <<publisher outside the topic, member it dialed>>
  Width,        \* CommitteeSize of the group
  Owner,        \* Owner[pos]: the node whose vote is at the position
  ServeOrders,  \* the orders in which a tick may visit the peers
  MaxLoss       \* bound: RPCs dropped

Positions == 0..(Width - 1)
Links == MeshLinks \cup GossipLinks \cup FanoutLinks

ASSUME PartialNetworkAssumption ==
  /\ Members \subseteq Peers
  /\ MeshLinks \cup GossipLinks \subseteq Members \X Members
  /\ FanoutLinks \subseteq (Peers \ Members) \X Members
  /\ Owner \in [Positions -> Peers] /\ MaxLoss \in Nat /\ ServeOrders \subseteq Orders

VARIABLES
  buckets,     \* member -> its bucket
  live,        \* the members whose group exists
  peerStates,  \* member -> peer -> partialPeerState
  verifying,   \* member -> its verifier's items: sets of positions, in order
  wire,        \* <<from, to>> -> RPCs in flight: [available, requests, positions]
  published,   \* positions published
  lost         \* RPCs dropped so far

vars == <<buckets, live, peerStates, verifying, wire, published, lost>>

Init ==
  /\ buckets = [n \in Members |-> newPartialBucket(Positions)]
  /\ live = {}
  /\ peerStates = [n \in Members |-> [p \in Peers |-> "none"]]
  /\ verifying = [n \in Members |-> <<>>]
  /\ wire = [l \in Links |-> <<>>]
  /\ published = {} /\ lost = 0

\* emitPartial / emitFinalityVotesPartial, on a subnet the node is a member of.
publishLocal(pos) ==
  LET n == Owner[pos]
  IN  /\ pos \notin published /\ n \in Members
      /\ buckets' = [buckets EXCEPT ![n] = addOwn(@, pos)]
      /\ live' = live \cup {n}
      /\ published' = published \cup {pos}
      /\ UNCHANGED <<peerStates, verifying, wire, lost>>

\* ... and on a foreign one: one eager batch, to every peer it dialed there,
\* with all its positions, and no state kept.
fanoutPublish(n) ==
  LET batch == {pos \in Positions : Owner[pos] = n}
  IN  /\ n \in Peers \ Members /\ batch # {} /\ batch \cap published = {}
      /\ published' = published \cup batch
      /\ wire' = [l \in Links |-> IF l[1] # n THEN wire[l] ELSE
                    Append(wire[l], [available |-> {}, requests |-> {}, positions |-> batch])]
      /\ UNCHANGED <<buckets, live, peerStates, verifying, lost>>

\* One RPC arrives: metadata, then the batch; what is new goes to the verifier.
onIncomingRPC(l) ==
  LET from == l[1]
      n == l[2]
      rpc == Head(wire[l])
      fresh == Fresh(buckets[n], rpc.positions)
      issues == rpc.available # {} \/ rpc.requests # {}
  IN  /\ wire[l] # <<>>
      /\ wire' = [wire EXCEPT ![l] = Tail(@)]
      /\ buckets' = [buckets EXCEPT ![n] = addReceived(addMetadata(@, from, rpc), from, rpc.positions)]
      /\ live' = live \cup {n}
      /\ peerStates' = IF issues /\ ~IsGossip(peerStates[n][from])
                       THEN [peerStates EXCEPT ![n][from] = "gossip"] ELSE peerStates
      /\ verifying' = IF fresh = {} THEN verifying ELSE [verifying EXCEPT ![n] = Append(@, fresh)]
      /\ UNCHANGED <<published, lost>>

markValidated(n) ==
  /\ verifying[n] # <<>>
  /\ buckets' = [buckets EXCEPT ![n] = promote(@, Head(verifying[n]))]
  /\ verifying' = [verifying EXCEPT ![n] = Tail(@)]
  /\ UNCHANGED <<live, peerStates, wire, published, lost>>

MeshOf(n) == {p \in Peers : <<n, p>> \in MeshLinks}

\* The RPC member n's tick sends p: a gossip peer gets metadata as well.
Sends(n, sts, askOrd, ord, p) ==
  [available |-> Advertises(buckets[n], sts, p),
   requests  |-> IF IsGossip(sts[p]) THEN Asks(buckets[n], sts, askOrd, p) ELSE {},
   positions |-> Claims(buckets[n], sts, ord, p)]

Silent(rpc) == rpc.available = {} /\ rpc.requests = {} /\ rpc.positions = {}

\* One tick of member n over its group.
tick(n) ==
  /\ n \in live
  /\ UNCHANGED <<live, verifying, published, lost>>
  /\ LET sts == AddMesh(peerStates[n], MeshOf(n))
     IN  /\ peerStates' = [peerStates EXCEPT ![n] = Forget(sts)]
         /\ \E ord, askOrd \in ServeOrders :
              LET rpc == [p \in Peers |-> Sends(n, sts, askOrd, ord, p)]
              IN  /\ wire' = [l \in Links |-> IF l[1] = n /\ ~Silent(rpc[l[2]])
                                              THEN Append(wire[l], rpc[l[2]]) ELSE wire[l]]
                  /\ buckets' = [buckets EXCEPT ![n] = served(@, sts, askOrd, ord)]

\* The heartbeat picks a peer outside the mesh.  Bound: no second one while the
\* first is unserved or its RPC is in flight.
onEmitGossip(l) ==
  /\ l \in GossipLinks /\ l[1] \in live /\ wire[l] = <<>>
  /\ peerStates[l[1]][l[2]] # "armed"
  /\ peerStates' = [peerStates EXCEPT ![l[1]][l[2]] = "armed"]
  /\ UNCHANGED <<buckets, live, verifying, wire, published, lost>>

drop(l) ==
  /\ wire[l] # <<>> /\ lost < MaxLoss
  /\ wire' = [wire EXCEPT ![l] = Tail(@)]
  /\ lost' = lost + 1
  /\ UNCHANGED <<buckets, live, peerStates, verifying, published>>

Next ==
  \/ \E pos \in Positions : publishLocal(pos)
  \/ \E n \in Peers \ Members : fanoutPublish(n)
  \/ \E l \in Links : onIncomingRPC(l) \/ drop(l) \/ onEmitGossip(l)
  \/ \E n \in Members : markValidated(n) \/ tick(n)

\* Ticks and heartbeats go on, RPCs arrive, verifiers call back.
Fairness ==
  /\ \A n \in Members : WF_vars(tick(n)) /\ WF_vars(markValidated(n))
  /\ \A l \in Links : WF_vars(onIncomingRPC(l)) /\ WF_vars(onEmitGossip(l))

Spec == Init /\ [][Next]_vars /\ Fairness

----------------------------------------------------------------------------
\* The transport is a flood of verified votes: a member learns a vote only from
\* a neighbour that had verified it itself or published it, and only once,
\* although pushes of several neighbours cross, requests and pushes race and
\* RPCs are lost.  (MCPartialNetwork states that the steps of both its
\* scenarios are steps of it.)
Flood == INSTANCE VoteFlood
           WITH Votes <- Positions, known <- [n \in Members |-> buckets[n].validated]

\* Every vote published reaches every member, by the mesh's pushes or, where the
\* forward cap or a loss cuts them short, by advertisement and request.
AllDelivered ==
  \A pos \in Positions : (pos \in published) ~> \A n \in Members : pos \in buckets[n].validated
============================================================================
