----------------------------- MODULE PeerGraph -----------------------------
(***************************************************************************)
(* The long-lived peer graph of a run, from its construction to the dials: *)
(* the random builders (netsim/graph.go, subnet.go, netsim.go, and their   *)
(* twins in simctl/topology.py), topology.json and its readers, and each   *)
(* node's ConnectToPeers.  Every random draw is a nondeterministic choice. *)
(***************************************************************************)
EXTENDS Integers, Sequences, FiniteSets

CONSTANTS
  N,               \* nodes 0..N-1
  Degree,          \* K, the target degree
  GroupDegree,     \* finalityGroupDegree
  Groups,          \* subscribers of the subnets, columns and sync subnets: sequences of ids
  FinalityGroups,  \* ... and of the finality subnets
  Shapes           \* the builders to run: of "discv5", "subnet", "peerGraph", "random", "ring"

Nodes == 0..(N - 1)

VARIABLES
  shape,
  job, idx, tries,  \* where the builder is: in the job list, in its ids, draws made
  inGroup,          \* groupFill's counter
  adj,              \* adj[i][j]: how often i's peer list holds j
  gaveUp,           \* history: <<job, id>> that ran out of retries
  edges,            \* topology.json: directed edges
  peers,            \* node -> the peers it is given, <<>> until then
  dials             \* connections opened by ConnectToPeers: <<from, to>>

vars == <<shape, job, idx, tries, inGroup, adj, gaveUp, edges, peers, dials>>

\* seq(n)
AllIds == [i \in 1..N |-> i - 1]

Tree(ids) == [op |-> "tree", ids |-> ids]
GroupFill(ids) == [op |-> "group", ids |-> ids]
FinalityJobs == [i \in 1..(2 * Len(FinalityGroups)) |->
                   IF i % 2 = 1 THEN Tree(FinalityGroups[(i + 1) \div 2])
                   ELSE GroupFill(FinalityGroups[i \div 2])]

\* What each builder calls, in order: discv5Graph and generate_subnet_topology,
\* peerGraph, generate_random_topology; the ring is not built from a graph.
Jobs ==
  CASE shape \in {"discv5", "subnet"} ->
         <<Tree(AllIds)>> \o [i \in 1..Len(Groups) |-> Tree(Groups[i])] \o FinalityJobs
           \o <<[op |-> "fill", ids |-> AllIds]>>
    [] shape = "peerGraph" -> <<Tree(AllIds), [op |-> "fill", ids |-> AllIds]>>
    [] shape = "random" -> <<Tree(AllIds), [op |-> "capped", ids |-> AllIds]>>
    [] OTHER -> <<>>

\* A tree starts at its second id.
Begin(op) == IF op = "tree" THEN 2 ELSE 1

Init ==
  /\ shape \in Shapes
  /\ job = 1 /\ idx = 2 /\ tries = 0 /\ inGroup = 0
  /\ adj = [i \in Nodes |-> [j \in Nodes |-> 0]]
  /\ gaveUp = {} /\ edges = {} /\ peers = <<>> /\ dials = {}

----------------------------------------------------------------------------
(* The graph                                                               *)

add(a, i, j) ==
  IF i = j \/ a[i][j] > 0 THEN a ELSE [a EXCEPT ![i][j] = @ + 1, ![j][i] = @ + 1]

Neighbours(a, i) == {j \in Nodes : a[i][j] > 0}
In(ids) == {ids[i] : i \in 1..Len(ids)}

At == Jobs[job]
Id == At.ids[idx]
Building == job <= Len(Jobs) /\ idx <= Len(At.ids)

\* randomTree: each id attaches to a random earlier one.
Earlier_Within(p) == {q \in 1..(p - 1) : q > 1} \* mutant: never the first id
Earlier(p) == 1..(p - 1)

randomTree ==
  /\ Building /\ At.op = "tree"
  /\ IF Earlier(idx) = {} THEN adj' = adj
     ELSE \E q \in Earlier(idx) : adj' = add(adj, Id, At.ids[q])
  /\ idx' = idx + 1
  /\ UNCHANGED <<shape, job, tries, inGroup, gaveUp, edges, peers, dials>>

\* groupFill's loop: how many members the id is linked to, and how many it needs.
InGroup(a, ids, id) == Cardinality(Neighbours(a, id) \cap In(ids))
GroupTarget(ids) == IF GroupDegree < Len(ids) - 1 THEN GroupDegree ELSE Len(ids) - 1

groupFill ==
  /\ Building /\ At.op = "group" /\ inGroup < GroupTarget(At.ids) /\ tries < 4 * GroupDegree
  /\ \E q \in 1..Len(At.ids) :
       LET peer == At.ids[q]
           skip == peer = Id \/ adj[Id][peer] > 0
       IN  /\ adj' = IF skip THEN adj ELSE add(adj, Id, peer)
           /\ inGroup' = IF skip THEN inGroup ELSE inGroup + 1
  /\ tries' = tries + 1
  /\ UNCHANGED <<shape, job, idx, gaveUp, edges, peers, dials>>

\* fill and generate_random_topology's loop: toward Degree, clamped but by peerGraph.
FillTarget == IF shape # "peerGraph" /\ Degree > N - 1 THEN N - 1 ELSE Degree
Wants(op, i) == Cardinality(Neighbours(adj, i)) < (IF op = "fill" THEN FillTarget ELSE Degree)
Retries(op) == IF op = "fill" THEN 4 * FillTarget ELSE 10 * N

fill ==
  /\ Building /\ At.op \in {"fill", "capped"} /\ Wants(At.op, Id) /\ tries < Retries(At.op)
  /\ \E v \in Nodes :
       adj' = IF At.op = "fill" \/ Wants("capped", v) THEN add(adj, Id, v) ELSE adj
  /\ tries' = tries + 1
  /\ UNCHANGED <<shape, job, idx, inGroup, gaveUp, edges, peers, dials>>

\* The loop is through with this id: on to the next one.
Satisfied == IF At.op = "group" THEN inGroup >= GroupTarget(At.ids) ELSE ~Wants(At.op, Id)
Exhausted == tries >= (IF At.op = "group" THEN 4 * GroupDegree ELSE Retries(At.op))

\* What groupFill counts when it comes to position p of a job.
CountAt(j, p) ==
  IF j <= Len(Jobs) /\ Jobs[j].op = "group" /\ p <= Len(Jobs[j].ids)
  THEN InGroup(adj, Jobs[j].ids, Jobs[j].ids[p]) ELSE 0

nextId ==
  /\ Building /\ At.op # "tree" /\ (Satisfied \/ Exhausted)
  /\ gaveUp' = IF Satisfied THEN gaveUp ELSE gaveUp \cup {<<job, Id>>}
  /\ idx' = idx + 1 /\ tries' = 0 /\ inGroup' = CountAt(job, idx + 1)
  /\ UNCHANGED <<shape, job, adj, edges, peers, dials>>

nextJob ==
  /\ job <= Len(Jobs) /\ ~Building
  /\ job' = job + 1
  /\ idx' = IF job < Len(Jobs) THEN Begin(Jobs[job + 1].op) ELSE 1
  /\ inGroup' = CountAt(job + 1, 1)
  /\ UNCHANGED <<shape, tries, adj, gaveUp, edges, peers, dials>>

----------------------------------------------------------------------------
(* topology.json and the dials                                             *)

Built == job > Len(Jobs) /\ peers = <<>>

\* simctl: _edges_from_adjacency writes both directions, the ring only one.
EdgesOf ==
  IF shape = "ring" THEN {<<i, (i + 1) % N>> : i \in Nodes}
  ELSE {e \in Nodes \X Nodes : adj[e[1]][e[2]] > 0}

save ==
  /\ Built /\ shape \in {"subnet", "random", "ring"} /\ edges = {}
  /\ edges' = EdgesOf
  /\ UNCHANGED <<shape, job, idx, tries, inGroup, adj, gaveUp, peers, dials>>

\* Shadow's compute_peer_lists and simnet's adjacencyFromEdges: an edge makes
\* peers of both its ends.
PeersFromEdges(es) == [i \in Nodes |-> {j \in Nodes \ {i} : <<i, j>> \in es \/ <<j, i>> \in es}]

load ==
  /\ Built /\ edges # {}
  /\ peers' = PeersFromEdges(edges)
  /\ UNCHANGED <<shape, job, idx, tries, inGroup, adj, gaveUp, edges, dials>>

\* netsim.New and NewWithSchedule keep the adjacency itself.
keep ==
  /\ Built /\ shape \in {"discv5", "peerGraph"}
  /\ peers' = [i \in Nodes |-> Neighbours(adj, i)]
  /\ UNCHANGED <<shape, job, idx, tries, inGroup, adj, gaveUp, edges, dials>>

\* ConnectToPeers: the lower number dials.
Dialable(n) == {p \in peers[n] : p > n}

ConnectToPeers(n) ==
  /\ peers # <<>>
  /\ dials' = dials \cup {<<n, p>> : p \in Dialable(n)}
  /\ UNCHANGED <<shape, job, idx, tries, inGroup, adj, gaveUp, edges, peers>>

Next ==
  \/ randomTree \/ groupFill \/ fill \/ nextId \/ nextJob
  \/ save \/ load \/ keep
  \/ \E n \in Nodes : ConnectToPeers(n)

Spec == Init /\ [][Next]_vars

----------------------------------------------------------------------------
Connected == peers # <<>> /\ \A n \in Nodes : \A p \in Dialable(n) : <<n, p>> \in dials
Linked(i, j) == <<i, j>> \in dials \/ <<j, i>> \in dials

\* The peer lists stay those of a simple graph: symmetric, no node its own peer,
\* none listed twice, whatever tree, fill and group draw again.
SimpleGraph ==
  \A i, j \in Nodes : adj[i][j] = adj[j][i] /\ adj[i][j] <= 1 /\ adj[i][i] = 0

\* No way to split the ids in two without a link across.
ConnectedWithin(ids) ==
  \A part \in (SUBSET In(ids)) \ {{}, In(ids)} :
    \E i \in part, j \in In(ids) \ part : Linked(i, j)

\* Once everybody has dialed, all nodes hang together, and in a scheduled run so
\* do the subscribers of every subnet over links among themselves: what a
\* message is flooded over exists.
GroupsConnected ==
  Connected =>
    /\ ConnectedWithin(AllIds)
    /\ shape \in {"discv5", "subnet"} =>
         /\ \A g \in 1..Len(Groups) : ConnectedWithin(Groups[g])
         /\ \A g \in 1..Len(FinalityGroups) : ConnectedWithin(FinalityGroups[g])

\* Every link of the peer graph is dialed, and by one of its ends only.
EachLinkOnce ==
  Connected => \A i, j \in Nodes :
    j \in peers[i] => (<<i, j>> \in dials) # (<<j, i>> \in dials)

\* A member of a finality subnet has its share of links inside the subnet,
\* unless its retries ran out.
GroupDegreeReached ==
  (Connected /\ shape \in {"discv5", "subnet"}) =>
    \A g \in 1..Len(FinalityGroups) : \A id \in In(FinalityGroups[g]) :
      \/ <<1 + Len(Groups) + 2 * g, id>> \in gaveUp
      \/ Cardinality({j \in In(FinalityGroups[g]) : Linked(id, j)}) >= GroupTarget(FinalityGroups[g])

\* The graph the run floods over, from its construction to the dials.
GraphSound == SimpleGraph /\ GroupsConnected /\ EachLinkOnce /\ GroupDegreeReached
============================================================================
