-------------------------------- MODULE Plan --------------------------------
(***************************************************************************)
(* What is drawn before a run: the plan of duties (ScheduleViews, extended *)
(* here) and the peer graph (Graph).  They share no state.                 *)
(***************************************************************************)
EXTENDS ScheduleViews

CONSTANTS GraphN, Degree, GroupDegree, Groups, FinalityGroups, Shapes
VARIABLES shape, job, idx, tries, inGroup, adj, gaveUp, edges, peers, dials
graphVars == <<shape, job, idx, tries, inGroup, adj, gaveUp, edges, peers, dials>>

Graph == INSTANCE PeerGraph WITH N <- GraphN

\* The run's parameters: at least one node, and groups of nodes.
GraphTyped ==
  /\ GraphN \in Nat \ {0} /\ GroupDegree \in Nat
  /\ Groups \in Seq(Seq(Graph!Nodes)) /\ FinalityGroups \in Seq(Seq(Graph!Nodes))

ASSUME GraphParameters == GraphTyped

\* The peer graph, however it was drawn, written, read and dialed, is simple,
\* keeps all nodes and every subnet's subscribers connected, gives the finality
\* subnets their degree and is dialed once per link (graph.go, topology.py,
\* ConnectToPeers).
GraphSound == Graph!GraphSound
=============================================================================
