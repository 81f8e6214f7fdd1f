----------------------------- MODULE PlanProofs -----------------------------
(***************************************************************************)
(* What is drawn before a run, for every size of it and every draw.        *)
(*                                                                         *)
(* The peer graph: the builders only ever add links, so what a tree has    *)
(* linked stays linked and what a fill has counted stays counted; after    *)
(* the last job nothing changes the graph, and the peer lists, the edges   *)
(* on disk and the dials are read off it.                                  *)
(*                                                                         *)
(* The plan of duties: what was drawn stays, and every slot is one that    *)
(* _slot_plan makes of it; from these two facts alone the views and the    *)
(* resolver are shown to agree, by what hosting and ranking mean.          *)
(***************************************************************************)
EXTENDS Plan, FunctionTheorems, FiniteSetTheorems, SequenceTheorems, WellFoundedInduction, TLAPS

JobType == [op : {"tree", "group", "fill", "capped"}, ids : Seq(Graph!Nodes)]

\* The types of the variables.
BuildType ==
  /\ job \in Nat \ {0} /\ idx \in Nat \ {0} /\ tries \in Nat /\ inGroup \in Nat
  /\ adj \in [Graph!Nodes -> [Graph!Nodes -> Nat]]

\* The ids a tree has come to, and a set of nodes that hangs together.
Reached(ids, k) == {ids[i] : i \in {p \in 1..Len(ids) : p <= k}}
HangsTogether(a, B) ==
  \A part \in SUBSET B : part # {} /\ part # B => \E i \in part, j \in B \ part : a[i][j] > 0

\* The trees built so far hang together, the one in the making up to where it is.
TreeInv ==
  \A k \in 1..Len(Graph!Jobs) : Graph!Jobs[k].op = "tree" =>
    /\ k < job => HangsTogether(adj, Graph!In(Graph!Jobs[k].ids))
    /\ k = job => idx >= 2 /\ HangsTogether(adj, Reached(Graph!Jobs[k].ids, idx - 1))

\* The members of the groups filled so far have their links, or gave up; the
\* counter of the one being served is right.
Served(k, p) ==
  LET ids == Graph!Jobs[k].ids
  IN  <<k, ids[p]>> \in gaveUp \/ Graph!InGroup(adj, ids, ids[p]) >= Graph!GroupTarget(ids)
FillInv ==
  \A k \in 1..Len(Graph!Jobs) : Graph!Jobs[k].op = "group" =>
    /\ \A p \in 1..Len(Graph!Jobs[k].ids) : k < job \/ (k = job /\ p < idx) => Served(k, p)
    /\ k = job /\ idx <= Len(Graph!Jobs[k].ids) => inGroup = Graph!InGroup(adj, Graph!Jobs[k].ids, Graph!Jobs[k].ids[idx])

\* What is written and handed out is the finished graph.
FinalPeers(i) ==
  IF shape = "ring" THEN {j \in Graph!Nodes \ {i} : j = (i + 1) % GraphN \/ i = (j + 1) % GraphN}
  ELSE Graph!Neighbours(adj, i)
PeersInv ==
  /\ edges # {} => job > Len(Graph!Jobs) /\ shape \in {"subnet", "random", "ring"} /\ edges = Graph!EdgesOf
  /\ peers # <<>> =>
       /\ job > Len(Graph!Jobs) /\ shape \in {"discv5", "subnet", "peerGraph", "random", "ring"}
       /\ peers = [i \in Graph!Nodes |-> FinalPeers(i)]

\* The lower end dials, and only its peers.
DialInv == dials # {} => peers # <<>> /\ \A d \in dials : \E n \in Graph!Nodes : \E p \in Graph!Dialable(n) : d = <<n, p>>

GraphInv == BuildType /\ Graph!SimpleGraph /\ TreeInv /\ FillInv /\ PeersInv /\ DialInv

-----------------------------------------------------------------------------
(* The jobs of the builders.                                               *)

\* The jobs of the finality subnets come in pairs, a tree and a fill.
LEMMA FinalityJobsAre ==
  ASSUME GraphTyped
  PROVE  /\ Graph!FinalityJobs \in Seq(JobType) /\ Len(Graph!FinalityJobs) = 2 * Len(FinalityGroups)
         /\ \A g \in 1..Len(FinalityGroups) :
              /\ Graph!FinalityJobs[2 * g - 1] = Graph!Tree(FinalityGroups[g])
              /\ Graph!FinalityJobs[2 * g] = Graph!GroupFill(FinalityGroups[g])
<1> DEFINE n == Len(FinalityGroups)
           job_(i) == IF i % 2 = 1 THEN Graph!Tree(FinalityGroups[(i + 1) \div 2])
                      ELSE Graph!GroupFill(FinalityGroups[i \div 2])
<1>1. n \in Nat /\ \A g \in 1..n : FinalityGroups[g] \in Seq(Graph!Nodes)
  BY DEF GraphTyped
<1>2. \A ids \in Seq(Graph!Nodes) : Graph!Tree(ids) \in JobType /\ Graph!GroupFill(ids) \in JobType
  BY DEF Graph!Tree, Graph!GroupFill, JobType
<1>3. ASSUME NEW i \in 1..(2 * n) PROVE job_(i) \in JobType
  <2>1. CASE i % 2 = 1
    <3>1. (i + 1) \div 2 \in 1..n
      BY <1>1, <2>1
    <3> QED BY <1>1, <1>2, <2>1, <3>1
  <2>2. CASE i % 2 # 1
    <3>1. i \div 2 \in 1..n
      BY <1>1, <2>2
    <3> QED BY <1>1, <1>2, <2>2, <3>1
  <2> QED BY <2>1, <2>2
<1>4. Graph!FinalityJobs = [i \in 1..(2 * n) |-> job_(i)]
  BY DEF Graph!FinalityJobs
<1>5. ASSUME NEW g \in 1..n
      PROVE  job_(2 * g - 1) = Graph!Tree(FinalityGroups[g]) /\ job_(2 * g) = Graph!GroupFill(FinalityGroups[g])
  <2>1. (2 * g - 1) % 2 = 1 /\ (2 * g - 1 + 1) \div 2 = g /\ (2 * g) % 2 = 0 /\ (2 * g) \div 2 = g
    BY <1>1
  <2> QED BY <2>1
<1>6. 2 * n \in Nat /\ \A g \in 1..n : 2 * g - 1 \in 1..(2 * n) /\ 2 * g \in 1..(2 * n)
  BY <1>1
<1> HIDE DEF job_
<1>7. Graph!FinalityJobs \in Seq(JobType) /\ Len(Graph!FinalityJobs) = 2 * n
  BY <1>3, <1>4, <1>6
<1>8. \A g \in 1..n : Graph!FinalityJobs[2 * g - 1] = job_(2 * g - 1) /\ Graph!FinalityJobs[2 * g] = job_(2 * g)
  BY <1>4, <1>6
<1> QED BY <1>5, <1>7, <1>8

\* Every job has ids of nodes; the first is the tree over all nodes, and a
\* scheduled run's jobs hold a tree per group and both jobs of a finality subnet.
LEMMA JobsAre ==
  ASSUME GraphTyped
  PROVE  /\ Graph!Jobs \in Seq(JobType) /\ Graph!AllIds \in Seq(Graph!Nodes)
         /\ shape \in {"discv5", "subnet", "peerGraph", "random"} => Len(Graph!Jobs) >= 1
         /\ Len(Graph!Jobs) >= 1 => Graph!Jobs[1] = Graph!Tree(Graph!AllIds)
         /\ shape \in {"discv5", "subnet"} =>
              /\ Len(Graph!Jobs) = 2 + Len(Groups) + 2 * Len(FinalityGroups)
              /\ \A g \in 1..Len(Groups) : Graph!Jobs[1 + g] = Graph!Tree(Groups[g])
              /\ \A g \in 1..Len(FinalityGroups) :
                   /\ Graph!Jobs[1 + Len(Groups) + 2 * g - 1] = Graph!Tree(FinalityGroups[g])
                   /\ Graph!Jobs[1 + Len(Groups) + 2 * g] = Graph!GroupFill(FinalityGroups[g])
<1>1. Graph!AllIds \in Seq(Graph!Nodes)
  BY DEF Graph!AllIds, Graph!Nodes, GraphTyped
<1>2. Graph!Tree(Graph!AllIds) \in JobType /\ [op |-> "fill", ids |-> Graph!AllIds] \in JobType
      /\ [op |-> "capped", ids |-> Graph!AllIds] \in JobType
  BY <1>1 DEF Graph!Tree, JobType
<1>3. CASE shape \in {"discv5", "subnet"}
  <2> DEFINE G == [i \in 1..Len(Groups) |-> Graph!Tree(Groups[i])]
             F == Graph!FinalityJobs
             last == [op |-> "fill", ids |-> Graph!AllIds]
             first == Graph!Tree(Graph!AllIds)
  <2>1. /\ Len(Groups) \in Nat /\ Len(FinalityGroups) \in Nat
        /\ G \in Seq(JobType) /\ Len(G) = Len(Groups)
        /\ \A g \in 1..Len(Groups) : G[g] = Graph!Tree(Groups[g])
    BY DEF GraphTyped, Graph!Tree, JobType
  <2>2. F \in Seq(JobType) /\ Len(F) = 2 * Len(FinalityGroups)
        /\ \A g \in 1..Len(FinalityGroups) :
             /\ F[2 * g - 1] = Graph!Tree(FinalityGroups[g]) /\ F[2 * g] = Graph!GroupFill(FinalityGroups[g])
    BY FinalityJobsAre
  <2>3. Graph!Jobs = <<first>> \o G \o F \o <<last>>
    BY <1>3 DEF Graph!Jobs
  <2>4. first \in JobType /\ last \in JobType
    BY <1>2
  <2> HIDE DEF G, F, last, first
  <2> DEFINE A == <<first>> \o G
             B == A \o F
  <2>5. /\ A \in Seq(JobType) /\ Len(A) = 1 + Len(Groups) /\ A[1] = first
        /\ \A g \in 1..Len(Groups) : A[1 + g] = G[g]
    BY <2>1, <2>4
  <2> HIDE DEF A
  <2>6. /\ B \in Seq(JobType) /\ Len(B) = 1 + Len(Groups) + 2 * Len(FinalityGroups)
        /\ \A k \in 1..Len(A) : B[k] = A[k]
        /\ \A k \in 1..Len(F) : B[Len(A) + k] = F[k]
    <3>0. A \in Seq(JobType) /\ F \in Seq(JobType)
      BY <2>2, <2>5
    <3>1. Len(A) \in Nat /\ Len(F) \in Nat /\ B \in Seq(JobType) /\ Len(B) = Len(A) + Len(F)
      BY <3>0
    <3>2. \A k \in 1..Len(A) : B[k] = A[k]
      BY <3>0
    <3>3. \A k \in 1..Len(F) : B[Len(A) + k] = F[k]
      BY <3>0
    <3> QED BY <2>1, <2>2, <2>5, <3>1, <3>2, <3>3
  <2> HIDE DEF B
  <2>7. Graph!Jobs = B \o <<last>>
    BY <2>3 DEF A, B
  <2>8. /\ Graph!Jobs \in Seq(JobType) /\ Len(Graph!Jobs) = Len(B) + 1
        /\ \A k \in 1..Len(B) : Graph!Jobs[k] = B[k]
    BY <2>4, <2>6, <2>7
  <2>9. Len(Graph!Jobs) = 2 + Len(Groups) + 2 * Len(FinalityGroups)
    BY <2>1, <2>6, <2>8
  <2>10. Len(Graph!Jobs) >= 1 /\ Graph!Jobs[1] = first
    <3>1. 1 \in 1..Len(A) /\ 1 \in 1..Len(B)
      BY <2>1, <2>5, <2>6
    <3> QED BY <2>1, <2>5, <2>6, <2>8, <2>9, <3>1
  <2>11. ASSUME NEW g \in 1..Len(Groups) PROVE Graph!Jobs[1 + g] = Graph!Tree(Groups[g])
    <3>1. 1 + g \in 1..Len(A) /\ 1 + g \in 1..Len(B)
      BY <2>1, <2>5, <2>6
    <3> QED BY <2>1, <2>5, <2>6, <2>8, <3>1
  <2>12. ASSUME NEW g \in 1..Len(FinalityGroups)
         PROVE  /\ Graph!Jobs[1 + Len(Groups) + 2 * g - 1] = Graph!Tree(FinalityGroups[g])
                /\ Graph!Jobs[1 + Len(Groups) + 2 * g] = Graph!GroupFill(FinalityGroups[g])
    <3>1. /\ 2 * g - 1 \in 1..Len(F) /\ 2 * g \in 1..Len(F)
          /\ Len(A) + (2 * g - 1) = 1 + Len(Groups) + 2 * g - 1
          /\ Len(A) + 2 * g = 1 + Len(Groups) + 2 * g
          /\ 1 + Len(Groups) + 2 * g - 1 \in 1..Len(B) /\ 1 + Len(Groups) + 2 * g \in 1..Len(B)
      <4>1. /\ Len(Groups) \in Nat /\ Len(FinalityGroups) \in Nat /\ Len(F) = 2 * Len(FinalityGroups)
            /\ Len(A) = 1 + Len(Groups) /\ Len(B) = 1 + Len(Groups) + 2 * Len(FinalityGroups)
        BY <2>1, <2>2, <2>5, <2>6
      <4> QED BY <4>1
    <3>2. B[Len(A) + (2 * g - 1)] = F[2 * g - 1] /\ B[Len(A) + 2 * g] = F[2 * g]
      BY <2>6, <3>1
    <3> QED BY <2>2, <2>8, <3>1, <3>2
  <2> QED BY <1>1, <2>8, <2>9, <2>10, <2>11, <2>12 DEF first
<1>4. CASE shape = "peerGraph"
  <2>1. Graph!Jobs = <<Graph!Tree(Graph!AllIds), [op |-> "fill", ids |-> Graph!AllIds]>>
    BY <1>4 DEF Graph!Jobs
  <2> QED BY <1>1, <1>2, <1>4, <2>1
<1>5. CASE shape = "random"
  <2>1. Graph!Jobs = <<Graph!Tree(Graph!AllIds), [op |-> "capped", ids |-> Graph!AllIds]>>
    BY <1>5 DEF Graph!Jobs
  <2> QED BY <1>1, <1>2, <1>5, <2>1
<1>6. CASE shape \notin {"discv5", "subnet", "peerGraph", "random"}
  <2>1. Graph!Jobs = <<>>
    BY <1>6 DEF Graph!Jobs
  <2> QED BY <1>1, <1>6, <2>1
<1> QED BY <1>3, <1>4, <1>5, <1>6

\* While a job is on, its ids are nodes.
LEMMA AtIs ==
  ASSUME GraphTyped, BuildType, job <= Len(Graph!Jobs)
  PROVE  /\ job \in 1..Len(Graph!Jobs) /\ Len(Graph!Jobs) \in Nat /\ Graph!At \in JobType /\ Len(Graph!At.ids) \in Nat
         /\ \A p \in 1..Len(Graph!At.ids) : Graph!At.ids[p] \in Graph!Nodes
         /\ idx <= Len(Graph!At.ids) => idx \in 1..Len(Graph!At.ids) /\ Graph!Id \in Graph!Nodes
<1>1. Graph!Jobs \in Seq(JobType)
  BY JobsAre
<1>2. job \in 1..Len(Graph!Jobs) /\ Len(Graph!Jobs) \in Nat
  BY <1>1 DEF BuildType
<1>3. Graph!At \in JobType
  BY <1>1, <1>2 DEF Graph!At
<1>4. Graph!At.ids \in Seq(Graph!Nodes)
  BY <1>3 DEF JobType
<1> QED BY <1>2, <1>3, <1>4 DEF Graph!Id, BuildType

-----------------------------------------------------------------------------
(* Links are only added.                                                   *)

\* Peer lists of a simple graph, and lists that hold at least the links of others.
Simple(a) ==
  /\ a \in [Graph!Nodes -> [Graph!Nodes -> Nat]]
  /\ \A m, n \in Graph!Nodes : a[m][n] = a[n][m] /\ a[m][n] <= 1 /\ a[m][m] = 0
Extends(b, a) == \A m, n \in Graph!Nodes : a[m][n] > 0 => b[m][n] > 0

\* add makes the link, takes none away and keeps the lists those of a simple graph.
LEMMA AddLinks ==
  ASSUME NEW a, Simple(a), NEW i \in Graph!Nodes, NEW j \in Graph!Nodes
  PROVE  /\ Simple(Graph!add(a, i, j)) /\ Extends(Graph!add(a, i, j), a)
         /\ i # j => Graph!add(a, i, j)[i][j] > 0 /\ Graph!add(a, i, j)[j][i] > 0
         /\ \A n \in Graph!Nodes : Graph!add(a, i, j)[i][n] > 0 => a[i][n] > 0 \/ n = j
<1> DEFINE b == Graph!add(a, i, j)
<1>0. /\ a \in [Graph!Nodes -> [Graph!Nodes -> Nat]]
      /\ \A m, n \in Graph!Nodes : a[m][n] = a[n][m] /\ a[m][n] <= 1 /\ a[m][m] = 0
  BY DEF Simple
<1>1. CASE i = j \/ a[i][j] > 0
  BY <1>0, <1>1 DEF Graph!add, Simple, Extends
<1>2. CASE ~(i = j \/ a[i][j] > 0)
  <2>1. a[i][j] = 0 /\ a[j][i] = 0 /\ i # j
    BY <1>0, <1>2
  <2> DEFINE c == [a EXCEPT ![i][j] = @ + 1]
  <2>2. b = [c EXCEPT ![j][i] = @ + 1]
    BY <1>2 DEF Graph!add
  <2>3. /\ c \in [Graph!Nodes -> [Graph!Nodes -> Nat]]
        /\ \A m, n \in Graph!Nodes : c[m][n] = IF m = i /\ n = j THEN 1 ELSE a[m][n]
    BY <1>0, <2>1
  <2> HIDE DEF c
  <2>4. /\ b \in [Graph!Nodes -> [Graph!Nodes -> Nat]]
        /\ \A m, n \in Graph!Nodes : b[m][n] = IF m = j /\ n = i THEN c[j][i] + 1 ELSE c[m][n]
    BY <2>2, <2>3
  <2>5. \A m, n \in Graph!Nodes : b[m][n] = IF (m = i /\ n = j) \/ (m = j /\ n = i) THEN 1 ELSE a[m][n]
    BY <2>1, <2>3, <2>4
  <2> HIDE DEF b
  <2>6. /\ \A m, n \in Graph!Nodes : b[m][n] = b[n][m] /\ b[m][n] <= 1 /\ b[m][m] = 0
        /\ \A m, n \in Graph!Nodes : a[m][n] > 0 => b[m][n] > 0
        /\ i # j => b[i][j] > 0 /\ b[j][i] > 0
        /\ \A n \in Graph!Nodes : b[i][n] > 0 => a[i][n] > 0 \/ n = j
    BY <1>0, <2>1, <2>5
  <2>7. Simple(b) /\ Extends(b, a)
    BY <2>4, <2>6 DEF Simple, Extends
  <2> QED BY <2>6, <2>7 DEF b
<1> QED BY <1>1, <1>2

\* A step adds links or leaves the graph alone, and then the jobs are not over.
LEMMA StepLinks ==
  ASSUME GraphTyped, BuildType, Graph!SimpleGraph, [Graph!Next]_(Graph!vars)
  PROVE  /\ adj' \in [Graph!Nodes -> [Graph!Nodes -> Nat]] /\ Graph!SimpleGraph'
         /\ \A i, j \in Graph!Nodes : adj[i][j] > 0 => adj'[i][j] > 0
         /\ adj' = adj \/ Graph!Building
         /\ shape' = shape /\ Graph!Jobs' = Graph!Jobs
<1>0. Simple(adj)
  BY DEF BuildType, Graph!SimpleGraph, Simple
<1>1. shape' = shape
  BY DEF Graph!Next, Graph!randomTree, Graph!groupFill, Graph!fill, Graph!nextId, Graph!nextJob, Graph!save, Graph!load, Graph!keep, Graph!ConnectToPeers, Graph!vars
<1>2. Graph!Jobs' = Graph!Jobs
  BY <1>1 DEF Graph!Jobs
<1>3. adj' = adj \/ (Graph!Building /\ \E i, j \in Graph!Nodes : adj' = Graph!add(adj, i, j))
  <2>1. CASE Graph!randomTree
    <3>1. Graph!Building
      BY <2>1 DEF Graph!randomTree
    <3>2. \A p \in 1..Len(Graph!At.ids) : Graph!At.ids[p] \in Graph!Nodes
      BY <3>1, AtIs DEF Graph!Building
    <3>3. idx \in 1..Len(Graph!At.ids) /\ Graph!Id \in Graph!Nodes /\ Len(Graph!At.ids) \in Nat
      BY <3>1, AtIs DEF Graph!Building
    <3>4. \A q \in Graph!Earlier(idx) : Graph!At.ids[q] \in Graph!Nodes
      BY <3>2, <3>3 DEF Graph!Earlier
    <3> QED BY <2>1, <3>1, <3>3, <3>4 DEF Graph!randomTree
  <2>2. CASE Graph!groupFill
    <3>1. Graph!Building
      BY <2>2 DEF Graph!groupFill
    <3>2. Graph!Id \in Graph!Nodes /\ \A p \in 1..Len(Graph!At.ids) : Graph!At.ids[p] \in Graph!Nodes
      BY <3>1, AtIs DEF Graph!Building
    <3> QED BY <2>2, <3>1, <3>2 DEF Graph!groupFill
  <2>3. CASE Graph!fill
    <3>1. Graph!Building /\ Graph!Id \in Graph!Nodes
      BY <2>3, AtIs DEF Graph!Building, Graph!fill
    <3> QED BY <2>3, <3>1 DEF Graph!fill
  <2>4. CASE ~(Graph!randomTree \/ Graph!groupFill \/ Graph!fill)
    BY <2>4 DEF Graph!Next, Graph!nextId, Graph!nextJob, Graph!save, Graph!load, Graph!keep, Graph!ConnectToPeers, Graph!vars
  <2> QED BY <2>1, <2>2, <2>3, <2>4
<1>4. Simple(adj') /\ Extends(adj', adj)
  <2>1. CASE adj' = adj
    BY <1>0, <2>1 DEF Extends
  <2>2. CASE \E i, j \in Graph!Nodes : adj' = Graph!add(adj, i, j)
    BY <1>0, <2>2, AddLinks
  <2> QED BY <1>3, <2>1, <2>2
<1> QED BY <1>1, <1>2, <1>3, <1>4 DEF Simple, Extends, Graph!SimpleGraph

-----------------------------------------------------------------------------
(* The trees.                                                              *)

\* The ids of a sequence, and the first few of them.
LEMMA Fronts ==
  ASSUME GraphTyped, NEW ids \in Seq(Graph!Nodes)
  PROVE  /\ Len(ids) \in Nat /\ Graph!In(ids) \in SUBSET Graph!Nodes
         /\ \A k \in Nat : Reached(ids, k) \in SUBSET Graph!Nodes
         /\ \A k \in Nat : k >= Len(ids) => Reached(ids, k) = Graph!In(ids)
         /\ \A k \in 1..Len(ids) : Reached(ids, k) = Reached(ids, k - 1) \cup {ids[k]}
         /\ \A x, y \in Reached(ids, 1) : x = y
<1>1. Len(ids) \in Nat /\ \A i \in 1..Len(ids) : ids[i] \in Graph!Nodes
  OBVIOUS
<1>2. Graph!In(ids) \in SUBSET Graph!Nodes /\ \A k \in Nat : Reached(ids, k) \in SUBSET Graph!Nodes
  BY <1>1 DEF Graph!In, Reached
<1>3. ASSUME NEW k \in Nat, k >= Len(ids) PROVE Reached(ids, k) = Graph!In(ids)
  <2>1. {p \in 1..Len(ids) : p <= k} = 1..Len(ids)
    BY <1>1, <1>3
  <2> QED BY <2>1 DEF Graph!In, Reached
<1>4. ASSUME NEW k \in 1..Len(ids) PROVE Reached(ids, k) = Reached(ids, k - 1) \cup {ids[k]}
  <2>1. {p \in 1..Len(ids) : p <= k} = {p \in 1..Len(ids) : p <= k - 1} \cup {k}
    BY <1>1
  <2> QED BY <2>1 DEF Reached
<1>5. \A x, y \in Reached(ids, 1) : x = y
  <2>1. \A p \in {p \in 1..Len(ids) : p <= 1} : p = 1
    BY <1>1
  <2> QED BY <2>1 DEF Reached
<1> QED BY <1>1, <1>2, <1>3, <1>4, <1>5

\* One id hangs together.
LEMMA OneHangs ==
  ASSUME NEW a, NEW B, \A x, y \in B : x = y
  PROVE  HangsTogether(a, B)
<1> SUFFICES ASSUME NEW part \in SUBSET B, part # {}, part # B PROVE FALSE
  BY DEF HangsTogether
<1>1. PICK x \in part : TRUE
  OBVIOUS
<1>2. PICK y \in B : y \notin part
  OBVIOUS
<1> QED BY <1>1, <1>2

\* More links do no harm.
LEMMA HangsOn ==
  ASSUME NEW a, NEW b, NEW B \in SUBSET Graph!Nodes, HangsTogether(a, B), Extends(b, a)
  PROVE  HangsTogether(b, B)
<1> SUFFICES ASSUME NEW part \in SUBSET B, part # {}, part # B
             PROVE  \E i \in part, j \in B \ part : b[i][j] > 0
  BY DEF HangsTogether
<1>1. PICK i \in part, j \in B \ part : a[i][j] > 0
  BY DEF HangsTogether
<1> QED BY <1>1 DEF Extends

\* An id that is linked to one that hangs together with others joins them.
LEMMA Attaches ==
  ASSUME NEW a, NEW B \in SUBSET Graph!Nodes, HangsTogether(a, B), Simple(a),
         NEW x \in B, NEW y \in Graph!Nodes, y # x => a[y][x] > 0
  PROVE  HangsTogether(a, B \cup {y})
<1>1. CASE y \in B
  <2>1. B \cup {y} = B
    BY <1>1
  <2> QED BY <2>1
<1>2. CASE y \notin B
  <2> SUFFICES ASSUME NEW part \in SUBSET (B \cup {y}), part # {}, part # B \cup {y}
               PROVE  \E i \in part, j \in (B \cup {y}) \ part : a[i][j] > 0
    BY DEF HangsTogether
  <2>1. a[y][x] > 0 /\ a[x][y] > 0
    BY <1>2 DEF Simple
  <2>2. CASE part \cap B = {}
    BY <2>1, <2>2
  <2>3. CASE part \cap B = B
    BY <2>1, <2>3
  <2>4. CASE part \cap B # {} /\ part \cap B # B
    <3>1. part \cap B \in SUBSET B
      OBVIOUS
    <3>2. PICK i \in part \cap B, j \in B \ (part \cap B) : a[i][j] > 0
      BY <2>4, <3>1 DEF HangsTogether
    <3> QED BY <3>2
  <2> QED BY <2>2, <2>3, <2>4
<1> QED BY <1>1, <1>2

\* A step keeps what it has built, and builds on.
LEMMA NextTrees ==
  ASSUME GraphTyped, BuildType, Graph!SimpleGraph, TreeInv, [Graph!Next]_(Graph!vars)
  PROVE  TreeInv'
<1>1. Extends(adj', adj) /\ Simple(adj') /\ Graph!Jobs' = Graph!Jobs
  BY StepLinks DEF Extends, Simple, Graph!SimpleGraph
<1>2. job \in Nat \ {0} /\ idx \in Nat \ {0} /\ Graph!Jobs \in Seq(JobType) /\ Len(Graph!Jobs) \in Nat
  BY JobsAre DEF BuildType
<1> SUFFICES ASSUME NEW k \in 1..Len(Graph!Jobs), Graph!Jobs[k].op = "tree"
             PROVE  /\ k < job' => HangsTogether(adj', Graph!In(Graph!Jobs[k].ids))
                    /\ k = job' => idx' >= 2 /\ HangsTogether(adj', Reached(Graph!Jobs[k].ids, idx' - 1))
  <2> SUFFICES ASSUME NEW k \in 1..Len(Graph!Jobs'), Graph!Jobs'[k].op = "tree"
               PROVE  /\ k < job' => HangsTogether(adj, Graph!In(Graph!Jobs[k].ids))'
                      /\ k = job' => idx' >= 2 /\ HangsTogether(adj, Reached(Graph!Jobs[k].ids, idx - 1))'
    BY Zenon DEF TreeInv
  <2>1. /\ HangsTogether(adj, Graph!In(Graph!Jobs[k].ids))' = HangsTogether(adj', Graph!In(Graph!Jobs'[k].ids))
        /\ HangsTogether(adj, Reached(Graph!Jobs[k].ids, idx - 1))' = HangsTogether(adj', Reached(Graph!Jobs'[k].ids, idx' - 1))
    BY DEF HangsTogether, Graph!In, Reached
  <2> QED BY <1>1, <2>1
<1> DEFINE ids == Graph!Jobs[k].ids
<1>3. ids \in Seq(Graph!Nodes) /\ k \in Nat
  <2>1. Graph!Jobs[k] \in JobType
    BY <1>2
  <2> QED BY <1>2, <2>1 DEF JobType
<1>4. /\ k < job => HangsTogether(adj, Graph!In(ids))
      /\ k = job => idx >= 2 /\ HangsTogether(adj, Reached(ids, idx - 1))
  BY DEF TreeInv
<1>5. Graph!In(ids) \in SUBSET Graph!Nodes /\ \A m \in Nat : Reached(ids, m) \in SUBSET Graph!Nodes
  BY <1>3, Fronts
<1>6. \A B \in SUBSET Graph!Nodes : HangsTogether(adj, B) => HangsTogether(adj', B)
  BY <1>1, HangsOn
<1>7. k < job => HangsTogether(adj', Graph!In(ids))
  BY <1>4, <1>5, <1>6
<1>8. k = job => idx >= 2 /\ HangsTogether(adj', Reached(ids, idx - 1))
  BY <1>2, <1>4, <1>5, <1>6
<1>9. CASE Graph!randomTree
  <2>1. job' = job /\ idx' = idx + 1
    BY <1>9 DEF Graph!randomTree
  <2>2. ASSUME k = job PROVE idx + 1 >= 2 /\ HangsTogether(adj', Reached(ids, idx))
    <3>1. Graph!At.ids = ids /\ Graph!Id = ids[idx] /\ idx \in 1..Len(ids) /\ Len(ids) \in Nat
      BY <1>2, <1>3, <1>9, <2>2 DEF Graph!randomTree, Graph!Building, Graph!At, Graph!Id
    <3>2. Graph!Earlier(idx) # {} /\ idx >= 2
      <4>1. idx >= 2 /\ 1 \in 1..(idx - 1)
        BY <1>2, <1>4, <2>2
      <4> QED BY <4>1 DEF Graph!Earlier
    <3>3. PICK q \in Graph!Earlier(idx) : adj' = Graph!add(adj, Graph!Id, ids[q])
      BY <1>9, <3>1, <3>2 DEF Graph!randomTree
    <3>4. q \in 1..(idx - 1) /\ q \in 1..Len(ids)
      BY <1>2, <3>1, <3>3 DEF Graph!Earlier
    <3>5. ids[q] \in Reached(ids, idx - 1) /\ ids[q] \in Graph!Nodes /\ ids[idx] \in Graph!Nodes
      BY <1>3, <3>1, <3>4 DEF Reached
    <3>6. Simple(adj)
      BY DEF Simple, BuildType, Graph!SimpleGraph
    <3>7. ids[idx] # ids[q] => adj'[ids[idx]][ids[q]] > 0
      BY <3>1, <3>3, <3>5, <3>6, AddLinks
    <3>8. idx - 1 \in Nat /\ Reached(ids, idx - 1) \in SUBSET Graph!Nodes
      BY <1>2, <1>5
    <3>9. HangsTogether(adj', Reached(ids, idx - 1) \cup {ids[idx]})
      BY <1>1, <1>8, <2>2, <3>5, <3>7, <3>8, Attaches
    <3>10. Reached(ids, idx) = Reached(ids, idx - 1) \cup {ids[idx]}
      BY <1>3, <3>1, Fronts
    <3> QED BY <1>2, <3>9, <3>10
  <2>3. idx' - 1 = idx
    BY <1>2, <2>1
  <2> HIDE DEF ids
  <2>4. k = job' => idx' >= 2 /\ HangsTogether(adj', Reached(ids, idx' - 1))
    BY <2>1, <2>2, <2>3
  <2> QED BY <1>7, <2>1, <2>4 DEF ids
<1>10. CASE Graph!groupFill \/ Graph!fill \/ Graph!nextId
  <2>1. job' = job /\ Graph!At.op # "tree"
    BY <1>10 DEF Graph!groupFill, Graph!fill, Graph!nextId
  <2>2. k # job
    BY <2>1 DEF Graph!At
  <2> QED BY <1>7, <2>1, <2>2
<1>11. CASE Graph!nextJob
  <2>1. job' = job + 1 /\ job <= Len(Graph!Jobs) /\ ~Graph!Building
    BY <1>11 DEF Graph!nextJob
  <2>2. ASSUME k = job PROVE HangsTogether(adj', Graph!In(ids))
    <3>1. ~(idx <= Len(ids)) /\ Len(ids) \in Nat
      BY <1>3, <2>1, <2>2 DEF Graph!Building, Graph!At
    <3>2. idx - 1 \in Nat /\ idx - 1 >= Len(ids)
      BY <1>2, <3>1
    <3>3. Reached(ids, idx - 1) = Graph!In(ids)
      BY <1>3, <3>2, Fronts
    <3> QED BY <1>8, <2>2, <3>3
  <2>3. ASSUME k = job + 1 PROVE idx' = 2 /\ HangsTogether(adj', Reached(ids, 1))
    <3>1. idx' = 2
      BY <1>2, <1>11, <2>3 DEF Graph!nextJob, Graph!Begin
    <3>2. \A x, y \in Reached(ids, 1) : x = y
      BY <1>3, Fronts
    <3> QED BY <3>1, <3>2, OneHangs
  <2>4. k < job + 1 => k < job \/ k = job
    BY <1>2, <1>3
  <2> HIDE DEF ids
  <2>5. k = job' => idx' >= 2 /\ HangsTogether(adj', Reached(ids, idx' - 1))
    <3>1. 2 - 1 = 1 /\ 2 >= 2
      OBVIOUS
    <3> QED BY <2>1, <2>3, <3>1
  <2> QED BY <1>7, <2>1, <2>2, <2>4, <2>5 DEF ids
<1>12. CASE Graph!save \/ Graph!load \/ Graph!keep \/ (\E n \in Graph!Nodes : Graph!ConnectToPeers(n)) \/ UNCHANGED Graph!vars
  <2>1. job' = job /\ idx' = idx
    BY <1>12 DEF Graph!save, Graph!load, Graph!keep, Graph!ConnectToPeers, Graph!vars
  <2> QED BY <1>7, <1>8, <2>1
<1> QED BY <1>9, <1>10, <1>11, <1>12 DEF Graph!Next

-----------------------------------------------------------------------------
(* The types, and the fills.                                               *)

\* The instance counts like this module.
LEMMA SameCount ==
  ASSUME NEW B
  PROVE  Graph!Cardinality(B) = Cardinality(B)
<1>1. \A T : Graph!IsFiniteSet(T) = IsFiniteSet(T)
  BY DEF Graph!IsFiniteSet, IsFiniteSet
<1> QED BY <1>1 DEF Graph!Cardinality, Cardinality

\* A count of neighbours in a group grows with the links, and is a number.
LEMMA CountGrows ==
  ASSUME GraphTyped, NEW a, NEW b, Extends(b, a), NEW ids, NEW id \in Graph!Nodes
  PROVE  /\ Graph!InGroup(a, ids, id) \in Nat /\ Graph!InGroup(b, ids, id) \in Nat
         /\ Graph!InGroup(a, ids, id) <= Graph!InGroup(b, ids, id)
<1> DEFINE A == Graph!Neighbours(a, id) \cap Graph!In(ids)
           B == Graph!Neighbours(b, id) \cap Graph!In(ids)
<1>1. IsFiniteSet(Graph!Nodes)
  BY FS_Interval DEF Graph!Nodes, GraphTyped
<1>2. A \subseteq B /\ B \subseteq Graph!Nodes
  BY DEF Graph!Neighbours, Extends
<1>3. IsFiniteSet(B)
  BY <1>1, <1>2, FS_Subset
<1>4. IsFiniteSet(A) /\ Cardinality(A) <= Cardinality(B)
  BY <1>2, <1>3, FS_Subset
<1>5. Cardinality(A) \in Nat /\ Cardinality(B) \in Nat
  BY <1>3, <1>4, FS_CardinalityType
<1> QED BY <1>4, <1>5, SameCount DEF Graph!InGroup

\* A new link to a member of the group counts one more.
LEMMA CountsOne ==
  ASSUME GraphTyped, NEW a, Simple(a), NEW ids \in Seq(Graph!Nodes), NEW id \in Graph!Nodes, NEW q \in 1..Len(ids),
         ids[q] # id, ~(a[id][ids[q]] > 0)
  PROVE  Graph!InGroup(Graph!add(a, id, ids[q]), ids, id) = Graph!InGroup(a, ids, id) + 1
<1> DEFINE p == ids[q]
           b == Graph!add(a, id, p)
           A == Graph!Neighbours(a, id) \cap Graph!In(ids)
           B == Graph!Neighbours(b, id) \cap Graph!In(ids)
<1>1. p \in Graph!Nodes /\ p \in Graph!In(ids)
  BY DEF Graph!In
<1>2. Extends(b, a) /\ b[id][p] > 0 /\ \A n \in Graph!Nodes : b[id][n] > 0 => a[id][n] > 0 \/ n = p
  BY <1>1, AddLinks
<1> HIDE DEF p, b
<1>3. B = A \cup {p} /\ p \notin A
  BY <1>1, <1>2 DEF Graph!Neighbours, Extends, p
<1>4. IsFiniteSet(A)
  <2>1. IsFiniteSet(Graph!Nodes)
    BY FS_Interval DEF Graph!Nodes, GraphTyped
  <2> QED BY <2>1, FS_Subset DEF Graph!Neighbours
<1>5. Cardinality(B) = Cardinality(A) + 1
  BY <1>3, <1>4, FS_AddElement
<1> QED BY <1>5, SameCount DEF Graph!InGroup, b, p

\* Every step keeps the types.
LEMMA NextBuildType ==
  ASSUME GraphTyped, BuildType, Graph!SimpleGraph, [Graph!Next]_(Graph!vars)
  PROVE  BuildType'
<1>1. adj' \in [Graph!Nodes -> [Graph!Nodes -> Nat]]
  BY StepLinks
<1>2. Extends(adj, adj) /\ job \in Nat \ {0} /\ idx \in Nat \ {0} /\ tries \in Nat /\ inGroup \in Nat
  BY DEF Extends, BuildType
<1>3. ASSUME NEW j \in Nat \ {0}, NEW p \in Nat \ {0} PROVE Graph!CountAt(j, p) \in Nat
  <2>1. CASE j <= Len(Graph!Jobs) /\ p <= Len(Graph!Jobs[j].ids)
    <3>1. Graph!Jobs \in Seq(JobType) /\ j \in 1..Len(Graph!Jobs)
      BY <2>1, JobsAre
    <3>2. Graph!Jobs[j] \in JobType
      BY <3>1
    <3>3. Graph!Jobs[j].ids \in Seq(Graph!Nodes)
      BY <3>2 DEF JobType
    <3>4. Graph!Jobs[j].ids[p] \in Graph!Nodes
      BY <2>1, <3>3
    <3> QED BY <1>2, <3>4, CountGrows DEF Graph!CountAt
  <2>2. CASE ~(j <= Len(Graph!Jobs) /\ p <= Len(Graph!Jobs[j].ids))
    BY <2>2 DEF Graph!CountAt
  <2> QED BY <2>1, <2>2
<1>4. CASE Graph!randomTree
  BY <1>1, <1>2, <1>4 DEF Graph!randomTree, BuildType
<1>5. CASE Graph!groupFill
  BY <1>1, <1>2, <1>5 DEF Graph!groupFill, BuildType
<1>6. CASE Graph!fill
  BY <1>1, <1>2, <1>6 DEF Graph!fill, BuildType
<1>7. CASE Graph!nextId
  <2>1. Graph!CountAt(job, idx + 1) \in Nat
    BY <1>2, <1>3
  <2> QED BY <1>1, <1>2, <1>7, <2>1 DEF Graph!nextId, BuildType
<1>8. CASE Graph!nextJob
  <2>1. Graph!CountAt(job + 1, 1) \in Nat
    BY <1>2, <1>3
  <2> QED BY <1>1, <1>2, <1>8, <2>1 DEF Graph!nextJob, Graph!Begin, BuildType
<1>9. CASE Graph!save \/ Graph!load \/ Graph!keep \/ (\E n \in Graph!Nodes : Graph!ConnectToPeers(n)) \/ UNCHANGED Graph!vars
  BY <1>1, <1>2, <1>9 DEF Graph!save, Graph!load, Graph!keep, Graph!ConnectToPeers, Graph!vars, BuildType
<1> QED BY <1>4, <1>5, <1>6, <1>7, <1>8, <1>9 DEF Graph!Next

\* What was reached stays reached.
LEMMA ServedOn ==
  ASSUME GraphTyped, BuildType, Graph!SimpleGraph, [Graph!Next]_(Graph!vars),
         NEW k \in 1..Len(Graph!Jobs), NEW p \in 1..Len(Graph!Jobs[k].ids), Served(k, p)
  PROVE  Served(k, p)'
<1>1. Extends(adj', adj) /\ Graph!Jobs' = Graph!Jobs
  BY StepLinks DEF Extends
<1>2. gaveUp \subseteq gaveUp'
  BY DEF Graph!Next, Graph!randomTree, Graph!groupFill, Graph!fill, Graph!nextId, Graph!nextJob, Graph!save, Graph!load, Graph!keep, Graph!ConnectToPeers, Graph!vars
<1> DEFINE ids == Graph!Jobs[k].ids
<1>3. ids \in Seq(Graph!Nodes)
  <2>1. Graph!Jobs[k] \in JobType
    BY JobsAre
  <2> QED BY <2>1 DEF JobType
<1>4. ids[p] \in Graph!Nodes /\ Len(ids) \in Nat
  BY <1>3
<1>5. /\ Graph!InGroup(adj, ids, ids[p]) \in Nat /\ Graph!InGroup(adj', ids, ids[p]) \in Nat
      /\ Graph!InGroup(adj, ids, ids[p]) <= Graph!InGroup(adj', ids, ids[p])
  BY <1>1, <1>4, CountGrows
<1>6. Graph!GroupTarget(ids) \in Int
  BY <1>4 DEF Graph!GroupTarget, GraphTyped
<1>7. <<k, ids[p]>> \in gaveUp \/ Graph!InGroup(adj, ids, ids[p]) >= Graph!GroupTarget(ids)
  BY DEF Served
<1> HIDE DEF ids
<1>8. <<k, ids[p]>> \in gaveUp' \/ Graph!InGroup(adj', ids, ids[p]) >= Graph!GroupTarget(ids)
  BY <1>2, <1>5, <1>6, <1>7
<1> QED BY <1>1, <1>8 DEF Served, ids, Graph!InGroup, Graph!Neighbours, Graph!In, Graph!GroupTarget

\* Every step keeps the counts: the counter follows the links of the member it is
\* about, and a member is left behind served or with its retries spent.
LEMMA NextFill ==
  ASSUME GraphTyped, BuildType, Graph!SimpleGraph, FillInv, [Graph!Next]_(Graph!vars)
  PROVE  FillInv'
<1>1. Extends(adj', adj) /\ Simple(adj) /\ Graph!Jobs' = Graph!Jobs
  BY StepLinks DEF Extends, Simple, Graph!SimpleGraph, BuildType
<1>2. job \in Nat \ {0} /\ idx \in Nat \ {0} /\ inGroup \in Nat /\ Graph!Jobs \in Seq(JobType) /\ Len(Graph!Jobs) \in Nat
  BY JobsAre DEF BuildType
<1> SUFFICES ASSUME NEW k \in 1..Len(Graph!Jobs), Graph!Jobs[k].op = "group"
             PROVE  /\ \A p \in 1..Len(Graph!Jobs[k].ids) : k < job' \/ (k = job' /\ p < idx') => Served(k, p)'
                    /\ k = job' /\ idx' <= Len(Graph!Jobs[k].ids) =>
                         inGroup' = Graph!InGroup(adj', Graph!Jobs[k].ids, Graph!Jobs[k].ids[idx'])
  <2> SUFFICES ASSUME NEW k \in 1..Len(Graph!Jobs'), Graph!Jobs'[k].op = "group"
               PROVE  /\ \A p \in 1..Len(Graph!Jobs'[k].ids) : k < job' \/ (k = job' /\ p < idx') => Served(k, p)'
                      /\ k = job' /\ idx' <= Len(Graph!Jobs'[k].ids) =>
                           inGroup' = Graph!InGroup(adj, Graph!Jobs[k].ids, Graph!Jobs[k].ids[idx])'
    BY Zenon DEF FillInv
  <2>1. Graph!InGroup(adj, Graph!Jobs[k].ids, Graph!Jobs[k].ids[idx])' = Graph!InGroup(adj', Graph!Jobs'[k].ids, Graph!Jobs'[k].ids[idx'])
    BY DEF Graph!InGroup, Graph!Neighbours, Graph!In
  <2> QED BY <1>1, <2>1
<1> DEFINE ids == Graph!Jobs[k].ids
<1>3. ids \in Seq(Graph!Nodes) /\ k \in Nat /\ Len(ids) \in Nat
  <2>1. Graph!Jobs[k] \in JobType
    BY <1>2
  <2> QED BY <1>2, <2>1 DEF JobType
<1>4. ASSUME NEW p \in 1..Len(ids), k < job \/ (k = job /\ p < idx) PROVE Served(k, p)'
  <2>1. Served(k, p)
    BY <1>4 DEF FillInv
  <2> QED BY <2>1, ServedOn
<1>5. k = job /\ idx <= Len(ids) => inGroup = Graph!InGroup(adj, ids, ids[idx])
  BY DEF FillInv
<1>6. CASE Graph!randomTree \/ Graph!fill
  <2>1. job' = job /\ Graph!At.op # "group"
    BY <1>6 DEF Graph!randomTree, Graph!fill
  <2>2. k # job
    BY <2>1 DEF Graph!At
  <2> QED BY <1>4, <2>1, <2>2
<1>7. CASE Graph!groupFill
  <2>1. job' = job /\ idx' = idx
    BY <1>7 DEF Graph!groupFill
  <2>2. ASSUME k = job PROVE inGroup' = Graph!InGroup(adj', ids, ids[idx])
    <3>1. Graph!At.ids = ids /\ Graph!Id = ids[idx] /\ idx \in 1..Len(ids) /\ ids[idx] \in Graph!Nodes
      BY <1>2, <1>3, <1>7, <2>2 DEF Graph!groupFill, Graph!Building, Graph!At, Graph!Id
    <3>2. inGroup = Graph!InGroup(adj, ids, ids[idx])
      BY <1>5, <2>2, <3>1
    <3>3. PICK q \in 1..Len(ids) :
            LET peer == ids[q]
                skip == peer = ids[idx] \/ adj[ids[idx]][peer] > 0
            IN  /\ adj' = IF skip THEN adj ELSE Graph!add(adj, ids[idx], peer)
                /\ inGroup' = IF skip THEN inGroup ELSE inGroup + 1
      BY <1>7, <3>1 DEF Graph!groupFill
    <3>4. CASE ids[q] = ids[idx] \/ adj[ids[idx]][ids[q]] > 0
      BY <3>2, <3>3, <3>4
    <3>5. CASE ~(ids[q] = ids[idx] \/ adj[ids[idx]][ids[q]] > 0)
      <4>1. Graph!InGroup(Graph!add(adj, ids[idx], ids[q]), ids, ids[idx]) = Graph!InGroup(adj, ids, ids[idx]) + 1
        BY <1>1, <1>3, <3>1, <3>5, CountsOne
      <4> QED BY <3>2, <3>3, <3>5, <4>1
    <3> QED BY <3>4, <3>5
  <2> QED BY <1>4, <2>1, <2>2
<1>8. CASE Graph!nextId
  <2>1. job' = job /\ idx' = idx + 1 /\ adj' = adj /\ inGroup' = Graph!CountAt(job, idx + 1)
    BY <1>8 DEF Graph!nextId
  <2>2. ASSUME k = job, NEW p \in 1..Len(ids), p = idx PROVE Served(k, p)'
    <3>1. Graph!At.ids = ids /\ Graph!At.op = "group" /\ Graph!Id = ids[p]
      BY <1>2, <1>3, <1>8, <2>2 DEF Graph!nextId, Graph!Building, Graph!At, Graph!Id
    <3>2. inGroup = Graph!InGroup(adj, ids, ids[p])
      BY <1>3, <1>5, <2>2
    <3>3. CASE Graph!Satisfied
      <4>1. Graph!InGroup(adj, ids, ids[p]) >= Graph!GroupTarget(ids)
        BY <3>1, <3>2, <3>3 DEF Graph!Satisfied
      <4>2. Served(k, p)
        BY <4>1 DEF Served
      <4> QED BY <4>2, ServedOn
    <3>4. CASE ~Graph!Satisfied
      <4>1. <<k, ids[p]>> \in gaveUp'
        BY <1>8, <2>2, <3>1, <3>4 DEF Graph!nextId
      <4> QED BY <1>1, <4>1 DEF Served
    <3> QED BY <3>3, <3>4
  <2>3. \A p \in 1..Len(ids) : k = job /\ p < idx + 1 => Served(k, p)'
    <3> SUFFICES ASSUME NEW p \in 1..Len(ids), k = job, p < idx + 1 PROVE Served(k, p)'
      OBVIOUS
    <3>1. p < idx \/ p = idx
      BY <1>2
    <3> QED BY <1>4, <2>2, <3>1
  <2>4. k = job /\ idx + 1 <= Len(ids) => inGroup' = Graph!InGroup(adj', ids, ids[idx + 1])
    BY <1>2, <2>1 DEF Graph!CountAt
  <2> QED BY <1>4, <2>1, <2>3, <2>4
<1>9. CASE Graph!nextJob
  <2>1. job' = job + 1 /\ job <= Len(Graph!Jobs) /\ ~Graph!Building /\ inGroup' = Graph!CountAt(job + 1, 1) /\ adj' = adj
    BY <1>9 DEF Graph!nextJob
  <2>2. ASSUME k = job, NEW p \in 1..Len(ids) PROVE Served(k, p)'
    <3>1. p < idx
      BY <1>2, <1>3, <2>1, <2>2 DEF Graph!Building, Graph!At
    <3> QED BY <1>4, <2>2, <3>1
  <2>3. ASSUME k = job + 1 PROVE idx' = 1
    BY <1>2, <1>9, <2>3 DEF Graph!nextJob, Graph!Begin
  <2>4. k = job + 1 /\ 1 <= Len(ids) => inGroup' = Graph!InGroup(adj', ids, ids[1])
    BY <1>2, <2>1 DEF Graph!CountAt
  <2>5. k < job + 1 => k < job \/ k = job
    BY <1>2, <1>3
  <2>6. \A p \in 1..Len(ids) : ~(p < 1)
    BY <1>3
  <2> QED BY <1>4, <2>1, <2>2, <2>3, <2>4, <2>5, <2>6
<1>10. CASE Graph!save \/ Graph!load \/ Graph!keep \/ (\E n \in Graph!Nodes : Graph!ConnectToPeers(n)) \/ UNCHANGED Graph!vars
  <2>1. job' = job /\ idx' = idx /\ inGroup' = inGroup /\ adj' = adj
    BY <1>10 DEF Graph!save, Graph!load, Graph!keep, Graph!ConnectToPeers, Graph!vars
  <2> QED BY <1>4, <1>5, <2>1
<1> QED BY <1>6, <1>7, <1>8, <1>9, <1>10 DEF Graph!Next

-----------------------------------------------------------------------------
(* What is written, read, handed out and dialed.                           *)

\* Reading back what was written gives every node its peers.
LEMMA ReadBack ==
  ASSUME GraphTyped, Graph!SimpleGraph, NEW i \in Graph!Nodes
  PROVE  {j \in Graph!Nodes \ {i} : <<i, j>> \in Graph!EdgesOf \/ <<j, i>> \in Graph!EdgesOf} = FinalPeers(i)
<1>1. CASE shape = "ring"
  BY <1>1 DEF Graph!EdgesOf, FinalPeers
<1>2. CASE shape # "ring"
  <2>1. \A m, n \in Graph!Nodes : <<m, n>> \in Graph!EdgesOf <=> adj[m][n] > 0
    BY <1>2 DEF Graph!EdgesOf
  <2>2. FinalPeers(i) = {j \in Graph!Nodes : adj[i][j] > 0}
    BY <1>2 DEF FinalPeers, Graph!Neighbours
  <2>3. ~(adj[i][i] > 0) /\ \A j \in Graph!Nodes : adj[i][j] = adj[j][i]
    BY DEF Graph!SimpleGraph
  <2> QED BY <2>1, <2>2, <2>3
<1> QED BY <1>1, <1>2

\* Nothing is written or handed out before the graph is built, and what is stays.
LEMMA NextPeers ==
  ASSUME GraphTyped, BuildType, Graph!SimpleGraph, PeersInv, [Graph!Next]_(Graph!vars)
  PROVE  PeersInv'
<1>1. /\ shape' = shape /\ Graph!Jobs' = Graph!Jobs /\ (adj' = adj \/ Graph!Building)
      /\ Len(Graph!Jobs) \in Nat /\ job \in Nat
  BY StepLinks, JobsAre DEF BuildType
<1>2. adj' = adj => Graph!EdgesOf' = Graph!EdgesOf /\ \A i \in Graph!Nodes : FinalPeers(i)' = FinalPeers(i)
  BY <1>1 DEF Graph!EdgesOf, FinalPeers, Graph!Neighbours
<1>3. CASE Graph!randomTree \/ Graph!groupFill \/ Graph!fill \/ Graph!nextId \/ Graph!nextJob
  <2>1. job <= Len(Graph!Jobs)
    BY <1>3 DEF Graph!randomTree, Graph!groupFill, Graph!fill, Graph!nextId, Graph!nextJob, Graph!Building
  <2>2. edges = {} /\ peers = <<>>
    BY <1>1, <2>1 DEF PeersInv
  <2>3. edges' = edges /\ peers' = peers
    BY <1>3 DEF Graph!randomTree, Graph!groupFill, Graph!fill, Graph!nextId, Graph!nextJob
  <2> QED BY <2>2, <2>3 DEF PeersInv
<1>4. CASE Graph!save
  <2>1. /\ job > Len(Graph!Jobs) /\ peers = <<>> /\ shape \in {"subnet", "random", "ring"} /\ edges' = Graph!EdgesOf
        /\ UNCHANGED <<job, adj, peers>>
    BY <1>4 DEF Graph!save, Graph!Built
  <2> QED BY <1>1, <1>2, <2>1 DEF PeersInv
<1>5. CASE Graph!load
  <2>1. /\ job > Len(Graph!Jobs) /\ edges # {} /\ peers' = Graph!PeersFromEdges(edges)
        /\ UNCHANGED <<job, adj, edges>>
    BY <1>5 DEF Graph!load, Graph!Built
  <2>2. shape \in {"subnet", "random", "ring"} /\ edges = Graph!EdgesOf
    BY <2>1 DEF PeersInv
  <2>3. peers' = [i \in Graph!Nodes |-> FinalPeers(i)]
    BY <2>1, <2>2, ReadBack DEF Graph!PeersFromEdges
  <2> QED BY <1>1, <1>2, <2>1, <2>2, <2>3 DEF PeersInv
<1>6. CASE Graph!keep
  <2>1. /\ job > Len(Graph!Jobs) /\ shape \in {"discv5", "peerGraph"}
        /\ peers' = [i \in Graph!Nodes |-> Graph!Neighbours(adj, i)] /\ UNCHANGED <<job, adj, edges>>
    BY <1>6 DEF Graph!keep, Graph!Built
  <2>2. peers' = [i \in Graph!Nodes |-> FinalPeers(i)]
    BY <2>1 DEF FinalPeers
  <2> QED BY <1>1, <1>2, <2>1, <2>2 DEF PeersInv
<1>7. CASE (\E n \in Graph!Nodes : Graph!ConnectToPeers(n)) \/ UNCHANGED Graph!vars
  <2>1. UNCHANGED <<job, adj, edges, peers>>
    BY <1>7 DEF Graph!ConnectToPeers, Graph!vars
  <2> QED BY <1>1, <1>2, <2>1 DEF PeersInv
<1> QED BY <1>3, <1>4, <1>5, <1>6, <1>7 DEF Graph!Next

\* Nobody dials before the peers are handed out, nor anybody else.
LEMMA NextDials ==
  ASSUME GraphTyped, PeersInv, DialInv, [Graph!Next]_(Graph!vars)
  PROVE  DialInv'
<1>1. CASE Graph!load \/ Graph!keep
  <2>1. dials' = {}
    BY <1>1 DEF Graph!load, Graph!keep, Graph!Built, DialInv
  <2> QED BY <2>1 DEF DialInv
<1>2. ASSUME NEW n \in Graph!Nodes, Graph!ConnectToPeers(n) PROVE DialInv'
  <2>1. peers # <<>> /\ peers' = peers /\ dials' = dials \cup {<<n, p>> : p \in Graph!Dialable(n)}
    BY <1>2 DEF Graph!ConnectToPeers
  <2>2. \A m \in Graph!Nodes : Graph!Dialable(m)' = Graph!Dialable(m)
    BY <2>1 DEF Graph!Dialable
  <2>3. \A d \in dials' : \E m \in Graph!Nodes : \E p \in Graph!Dialable(m) : d = <<m, p>>
    BY <2>1 DEF DialInv
  <2> QED BY <2>1, <2>2, <2>3 DEF DialInv
<1>3. CASE ~(Graph!load \/ Graph!keep \/ \E n \in Graph!Nodes : Graph!ConnectToPeers(n))
  <2>1. UNCHANGED <<peers, dials>>
    BY <1>3 DEF Graph!Next, Graph!randomTree, Graph!groupFill, Graph!fill, Graph!nextId, Graph!nextJob, Graph!save, Graph!vars
  <2> QED BY <2>1 DEF DialInv, Graph!Dialable
<1> QED BY <1>1, <1>2, <1>3

-----------------------------------------------------------------------------
(* The invariant, and what it says of the graph.                           *)

\* Nothing is built at first, and the first job is the tree over all nodes.
LEMMA InitGraph == GraphTyped /\ Graph!Init => GraphInv
<1> SUFFICES ASSUME GraphTyped, Graph!Init PROVE GraphInv
  OBVIOUS
<1>1. BuildType /\ Graph!SimpleGraph
  BY DEF Graph!Init, BuildType, Graph!SimpleGraph
<1>2. /\ job = 1 /\ idx = 2 /\ Graph!Jobs \in Seq(JobType) /\ Graph!AllIds \in Seq(Graph!Nodes)
      /\ (Len(Graph!Jobs) >= 1 => Graph!Jobs[1] = Graph!Tree(Graph!AllIds)) /\ Len(Graph!Jobs) \in Nat
  BY JobsAre DEF Graph!Init
<1>3. ASSUME NEW k \in 1..Len(Graph!Jobs) PROVE k >= 1 /\ (k = 1 => Graph!Jobs[k].op = "tree" /\ Graph!Jobs[k].ids = Graph!AllIds)
  BY <1>2 DEF Graph!Tree
<1>4. TreeInv
  <2> SUFFICES ASSUME NEW k \in 1..Len(Graph!Jobs), Graph!Jobs[k].op = "tree"
               PROVE  /\ k < 1 => HangsTogether(adj, Graph!In(Graph!Jobs[k].ids))
                      /\ k = 1 => 2 >= 2 /\ HangsTogether(adj, Reached(Graph!Jobs[k].ids, 2 - 1))
    BY <1>2 DEF TreeInv
  <2>1. HangsTogether(adj, Reached(Graph!AllIds, 1))
    <3>1. \A x, y \in Reached(Graph!AllIds, 1) : x = y
      BY <1>2, Fronts
    <3> QED BY <3>1, OneHangs
  <2>2. 2 - 1 = 1 /\ 2 >= 2 /\ ~(k < 1)
    BY <1>2
  <2> QED BY <1>3, <2>1, <2>2
<1>5. FillInv
  <2> SUFFICES ASSUME NEW k \in 1..Len(Graph!Jobs), Graph!Jobs[k].op = "group", k <= 1 PROVE FALSE
    BY <1>2 DEF FillInv
  <2> QED BY <1>2, <1>3
<1>6. PeersInv /\ DialInv
  BY DEF Graph!Init, PeersInv, DialInv
<1> QED BY <1>1, <1>4, <1>5, <1>6 DEF GraphInv

\* The invariant holds throughout.
LEMMA AlwaysGraphInv ==
  ASSUME GraphTyped
  PROVE  Graph!Spec => []GraphInv
<1>1. Graph!Init => GraphInv
  BY InitGraph
<1>2. GraphInv /\ [Graph!Next]_(Graph!vars) => GraphInv'
  <2> SUFFICES ASSUME GraphInv, [Graph!Next]_(Graph!vars) PROVE GraphInv'
    OBVIOUS
  <2>1. BuildType' /\ Graph!SimpleGraph'
    BY NextBuildType, StepLinks DEF GraphInv
  <2>2. TreeInv' /\ FillInv'
    BY NextTrees, NextFill DEF GraphInv
  <2>3. PeersInv' /\ DialInv'
    BY NextPeers, NextDials DEF GraphInv
  <2> QED BY <2>1, <2>2, <2>3 DEF GraphInv
<1> QED BY <1>1, <1>2, PTL DEF Graph!Spec

\* Once everybody has dialed, the links are the peers, each dialed by its lower end.
LEMMA LinksArePeers ==
  ASSUME GraphTyped, GraphInv, Graph!Connected, NEW i \in Graph!Nodes, NEW j \in Graph!Nodes
  PROVE  /\ Graph!Linked(i, j) <=> j \in FinalPeers(i)
         /\ j \in FinalPeers(i) => (<<i, j>> \in dials) # (<<j, i>> \in dials)
         /\ peers[i] = FinalPeers(i)
<1>1. peers # <<>> /\ \A n \in Graph!Nodes : peers[n] = FinalPeers(n)
  BY DEF Graph!Connected, GraphInv, PeersInv
<1>2. Graph!Nodes \subseteq Int
  BY DEF Graph!Nodes
<1>3. \A m, n \in Graph!Nodes : n \in FinalPeers(m) => m # n /\ m \in FinalPeers(n)
  <2> SUFFICES ASSUME NEW m \in Graph!Nodes, NEW n \in Graph!Nodes, n \in FinalPeers(m)
               PROVE  m # n /\ m \in FinalPeers(n)
    OBVIOUS
  <2>1. CASE shape = "ring"
    BY <2>1 DEF FinalPeers
  <2>2. CASE shape # "ring"
    <3>1. adj[m][n] = adj[n][m] /\ adj[m][m] = 0
      BY DEF GraphInv, Graph!SimpleGraph
    <3> QED BY <2>2, <3>1 DEF FinalPeers, Graph!Neighbours
  <2> QED BY <2>1, <2>2
<1>4. \A m, n \in Graph!Nodes : <<m, n>> \in dials <=> n \in FinalPeers(m) /\ m < n
  <2> SUFFICES ASSUME NEW m \in Graph!Nodes, NEW n \in Graph!Nodes
               PROVE  <<m, n>> \in dials <=> n \in FinalPeers(m) /\ m < n
    OBVIOUS
  <2>1. ASSUME <<m, n>> \in dials PROVE n \in FinalPeers(m) /\ m < n
    <3>1. PICK a \in Graph!Nodes : \E p \in Graph!Dialable(a) : <<m, n>> = <<a, p>>
      BY <2>1 DEF GraphInv, DialInv
    <3>2. n \in Graph!Dialable(m)
      BY <3>1
    <3> QED BY <1>1, <1>2, <3>2 DEF Graph!Dialable
  <2>2. ASSUME n \in FinalPeers(m), m < n PROVE <<m, n>> \in dials
    <3>1. n \in Graph!Dialable(m)
      BY <1>1, <1>2, <2>2 DEF Graph!Dialable
    <3> QED BY <3>1 DEF Graph!Connected
  <2> QED BY <2>1, <2>2
<1>5. i < j \/ j < i \/ i = j
  BY <1>2
<1>6. ~(i < j /\ j < i)
  BY <1>2
<1> QED BY <1>1, <1>3, <1>4, <1>5, <1>6 DEF Graph!Linked

\* A nonempty set of naturals has a least element.
LEMMA LeastNat ==
  ASSUME NEW T, T \subseteq Nat, T # {}
  PROVE  \E n \in T : \A m \in T : n <= m
<1>1. PICK n \in T : \A m \in T : ~ (<<m, n>> \in OpToRel(<, Nat))
  BY NatLessThanWellFounded, WFMin, Zenon
<1>2. ASSUME NEW m \in T PROVE n <= m
  <2>1. ~ (<<m, n>> \in OpToRel(<, Nat))
    BY <1>1
  <2>2. m \in Nat /\ n \in Nat
    OBVIOUS
  <2>3. ~ (m < n)
    BY <2>1, <2>2 DEF OpToRel
  <2> QED BY <2>2, <2>3
<1> QED BY <1>1, <1>2

\* A set of nodes that goes on from a node to the next one goes on to the last.
LEMMA GoesOn ==
  ASSUME GraphTyped, NEW part \in SUBSET Graph!Nodes, NEW x \in part,
         \A i \in part : i + 1 \in Graph!Nodes => i + 1 \in part
  PROVE  x..(GraphN - 1) \subseteq part
<1> DEFINE Missed == {y \in x..(GraphN - 1) : y \notin part}
<1> SUFFICES ASSUME Missed # {} PROVE FALSE
  OBVIOUS
<1>1. GraphN \in Nat /\ x \in Nat /\ x <= GraphN - 1
  BY DEF GraphTyped, Graph!Nodes
<1>2. Missed \subseteq Nat
  BY <1>1
<1>3. PICK y \in Missed : \A z \in Missed : y <= z
  BY <1>2, LeastNat, Zenon
<1>4. y # x /\ y - 1 \in x..(GraphN - 1) /\ ~(y <= y - 1) /\ y = (y - 1) + 1 /\ y \in Graph!Nodes
  BY <1>1, <1>3 DEF Graph!Nodes
<1>5. y - 1 \in part
  BY <1>3, <1>4
<1> QED BY <1>3, <1>4, <1>5

\* A ring has a link out of every part of it.
LEMMA RingHangs ==
  ASSUME GraphTyped, NEW part \in SUBSET Graph!Nodes, part # {}, part # Graph!Nodes
  PROVE  \E i \in part, j \in Graph!Nodes \ part : j = (i + 1) % GraphN
<1> SUFFICES ASSUME \A i \in part : \A j \in Graph!Nodes : j = (i + 1) % GraphN => j \in part PROVE FALSE
  OBVIOUS
<1>1. GraphN \in Nat \ {0} /\ Graph!Nodes = 0..(GraphN - 1)
  BY DEF GraphTyped, Graph!Nodes
<1>2. \A i \in part : i + 1 \in Graph!Nodes => i + 1 \in part
  <2> SUFFICES ASSUME NEW i \in part, i + 1 \in Graph!Nodes PROVE i + 1 \in part
    OBVIOUS
  <2>1. (i + 1) % GraphN = i + 1
    BY <1>1
  <2> QED BY <2>1
<1>3. PICK x \in part : TRUE
  OBVIOUS
<1>4. GraphN - 1 \in part
  <2>1. x..(GraphN - 1) \subseteq part
    BY <1>2, GoesOn
  <2> QED BY <1>1, <2>1
<1>5. 0 \in part
  <2>1. GraphN - 1 + 1 = GraphN /\ GraphN % GraphN = 0 /\ 0 \in Graph!Nodes
    BY <1>1
  <2>2. (GraphN - 1 + 1) % GraphN = 0
    BY <2>1
  <2> QED BY <1>4, <2>1, <2>2
<1>6. 0..(GraphN - 1) \subseteq part
  BY <1>2, <1>5, GoesOn
<1> QED BY <1>1, <1>6

\* The ids of all nodes are the nodes.
LEMMA AllIn ==
  ASSUME GraphTyped
  PROVE  Graph!In(Graph!AllIds) = Graph!Nodes
<1>1. GraphN \in Nat /\ Graph!AllIds = [i \in 1..GraphN |-> i - 1] /\ Len(Graph!AllIds) = GraphN
  BY DEF GraphTyped, Graph!AllIds
<1>2. \A n \in Graph!Nodes : n + 1 \in 1..GraphN /\ Graph!AllIds[n + 1] = n
  BY <1>1 DEF Graph!Nodes
<1>3. \A i \in 1..GraphN : Graph!AllIds[i] \in Graph!Nodes
  BY <1>1 DEF Graph!Nodes
<1> QED BY <1>1, <1>2, <1>3 DEF Graph!In

\* What hangs together over the graph does so over the links.
LEMMA HangsLinked ==
  ASSUME GraphTyped, GraphInv, Graph!Connected, shape # "ring",
         NEW ids \in Seq(Graph!Nodes), HangsTogether(adj, Graph!In(ids))
  PROVE  Graph!ConnectedWithin(ids)
<1>1. Graph!In(ids) \in SUBSET Graph!Nodes
  BY Fronts
<1> SUFFICES ASSUME NEW part \in SUBSET Graph!In(ids), part # {}, part # Graph!In(ids)
             PROVE  \E i \in part, j \in Graph!In(ids) \ part : Graph!Linked(i, j)
  BY DEF Graph!ConnectedWithin
<1>2. PICK i \in part, j \in Graph!In(ids) \ part : adj[i][j] > 0
  BY DEF HangsTogether
<1>3. i \in Graph!Nodes /\ j \in Graph!Nodes
  BY <1>1
<1>4. j \in FinalPeers(i)
  BY <1>2, <1>3 DEF FinalPeers, Graph!Neighbours
<1>5. Graph!Linked(i, j)
  BY <1>3, <1>4, LinksArePeers
<1> QED BY <1>2, <1>5

\* Every message has a graph to be flooded over.
LEMMA EverybodyConnected ==
  ASSUME GraphTyped, GraphInv
  PROVE  Graph!GroupsConnected
<1> SUFFICES ASSUME Graph!Connected
             PROVE  /\ Graph!ConnectedWithin(Graph!AllIds)
                    /\ shape \in {"discv5", "subnet"} =>
                         /\ \A g \in 1..Len(Groups) : Graph!ConnectedWithin(Groups[g])
                         /\ \A g \in 1..Len(FinalityGroups) : Graph!ConnectedWithin(FinalityGroups[g])
  BY DEF Graph!GroupsConnected
<1>1. /\ job > Len(Graph!Jobs) /\ shape \in {"discv5", "subnet", "peerGraph", "random", "ring"}
      /\ Graph!Jobs \in Seq(JobType) /\ Len(Graph!Jobs) \in Nat /\ job \in Nat /\ Graph!AllIds \in Seq(Graph!Nodes)
  BY JobsAre DEF Graph!Connected, GraphInv, PeersInv, BuildType
<1>2. ASSUME NEW k \in 1..Len(Graph!Jobs), NEW ids \in Seq(Graph!Nodes), Graph!Jobs[k] = Graph!Tree(ids), shape # "ring"
      PROVE  Graph!ConnectedWithin(ids)
  <2>1. k < job /\ Graph!Jobs[k].op = "tree" /\ Graph!Jobs[k].ids = ids
    BY <1>1, <1>2 DEF Graph!Tree
  <2>2. HangsTogether(adj, Graph!In(ids))
    BY <2>1 DEF GraphInv, TreeInv
  <2> QED BY <1>2, <2>2, HangsLinked
<1>3. CASE shape = "ring"
  <2> SUFFICES ASSUME NEW part \in SUBSET Graph!Nodes, part # {}, part # Graph!Nodes
               PROVE  \E i \in part, j \in Graph!Nodes \ part : Graph!Linked(i, j)
    BY <1>3, AllIn DEF Graph!ConnectedWithin
  <2>1. PICK i \in part, j \in Graph!Nodes \ part : j = (i + 1) % GraphN
    BY RingHangs
  <2>2. j \in FinalPeers(i)
    BY <1>3, <2>1 DEF FinalPeers
  <2>3. Graph!Linked(i, j)
    BY <2>2, LinksArePeers
  <2> QED BY <2>3
<1>4. CASE shape \in {"discv5", "subnet", "peerGraph", "random"}
  <2>1. 1 \in 1..Len(Graph!Jobs) /\ Graph!Jobs[1] = Graph!Tree(Graph!AllIds) /\ shape # "ring"
    BY <1>1, <1>4, JobsAre
  <2>2. Graph!ConnectedWithin(Graph!AllIds)
    BY <1>1, <1>2, <2>1
  <2>3. ASSUME shape \in {"discv5", "subnet"}, NEW g \in 1..Len(Groups) PROVE Graph!ConnectedWithin(Groups[g])
    <3>1. Len(Groups) \in Nat /\ Len(FinalityGroups) \in Nat /\ Groups[g] \in Seq(Graph!Nodes)
      BY DEF GraphTyped
    <3>2. Len(Graph!Jobs) = 2 + Len(Groups) + 2 * Len(FinalityGroups) /\ Graph!Jobs[1 + g] = Graph!Tree(Groups[g])
      BY <2>3, JobsAre
    <3>3. 1 + g \in 1..Len(Graph!Jobs)
      BY <3>1, <3>2
    <3> QED BY <1>2, <2>1, <3>1, <3>2, <3>3
  <2>4. ASSUME shape \in {"discv5", "subnet"}, NEW g \in 1..Len(FinalityGroups)
        PROVE  Graph!ConnectedWithin(FinalityGroups[g])
    <3>1. Len(Groups) \in Nat /\ Len(FinalityGroups) \in Nat /\ FinalityGroups[g] \in Seq(Graph!Nodes)
      BY DEF GraphTyped
    <3>2. /\ Len(Graph!Jobs) = 2 + Len(Groups) + 2 * Len(FinalityGroups)
          /\ Graph!Jobs[1 + Len(Groups) + 2 * g - 1] = Graph!Tree(FinalityGroups[g])
      BY <2>4, JobsAre
    <3>3. 1 + Len(Groups) + 2 * g - 1 \in 1..Len(Graph!Jobs)
      BY <3>1, <3>2
    <3> QED BY <1>2, <2>1, <3>1, <3>2, <3>3
  <2> QED BY <2>2, <2>3, <2>4
<1> QED BY <1>1, <1>3, <1>4

\* The members of a finality subnet have their share of links.
LEMMA SharesReached ==
  ASSUME GraphTyped, GraphInv
  PROVE  Graph!GroupDegreeReached
<1> SUFFICES ASSUME Graph!Connected, shape \in {"discv5", "subnet"},
                    NEW g \in 1..Len(FinalityGroups), NEW id \in Graph!In(FinalityGroups[g])
             PROVE  \/ <<1 + Len(Groups) + 2 * g, id>> \in gaveUp
                    \/ Cardinality({j \in Graph!In(FinalityGroups[g]) : Graph!Linked(id, j)})
                         >= Graph!GroupTarget(FinalityGroups[g])
  BY SameCount DEF Graph!GroupDegreeReached
<1> DEFINE k == 1 + Len(Groups) + 2 * g
           ids == FinalityGroups[g]
<1>1. Len(Groups) \in Nat /\ Len(FinalityGroups) \in Nat /\ ids \in Seq(Graph!Nodes)
  BY DEF GraphTyped
<1>2. Len(Graph!Jobs) = 2 + Len(Groups) + 2 * Len(FinalityGroups) /\ Graph!Jobs[k] = Graph!GroupFill(ids)
  BY JobsAre
<1>3. k \in 1..Len(Graph!Jobs) /\ k < job /\ Graph!Jobs[k].op = "group" /\ Graph!Jobs[k].ids = ids
  <2>1. job > Len(Graph!Jobs) /\ job \in Nat
    BY DEF Graph!Connected, GraphInv, PeersInv, BuildType
  <2>2. k \in 1..Len(Graph!Jobs) /\ Len(Graph!Jobs) \in Nat
    BY <1>1, <1>2
  <2> HIDE DEF k
  <2> QED BY <1>2, <2>1, <2>2 DEF Graph!GroupFill
<1>4. PICK p \in 1..Len(ids) : id = ids[p]
  BY DEF Graph!In
<1> HIDE DEF k, ids
<1>5. <<k, id>> \in gaveUp \/ Graph!InGroup(adj, ids, id) >= Graph!GroupTarget(ids)
  BY <1>3, <1>4 DEF GraphInv, FillInv, Served
<1>6. {j \in Graph!In(ids) : Graph!Linked(id, j)} = Graph!Neighbours(adj, id) \cap Graph!In(ids)
  <2>1. Graph!In(ids) \in SUBSET Graph!Nodes /\ id \in Graph!Nodes
    BY <1>1, <1>4, Fronts
  <2>2. \A j \in Graph!Nodes : Graph!Linked(id, j) <=> j \in FinalPeers(id)
    BY <2>1, LinksArePeers
  <2>3. FinalPeers(id) = Graph!Neighbours(adj, id)
    BY DEF FinalPeers
  <2> QED BY <2>1, <2>2, <2>3 DEF Graph!Neighbours
<1> QED BY <1>5, <1>6, SameCount DEF Graph!InGroup, k, ids

\* For every number of nodes, every list of subnets and every sequence of draws,
\* the peer graph is simple, keeps all nodes and the subscribers of every subnet
\* connected over links of their own, gives the finality subnets their degree,
\* and each of its links is dialed once (graph.go, topology.py, ConnectToPeers).
THEOREM GraphIsSound == Graph!Spec => []GraphSound
<1> USE GraphParameters
<1>1. Graph!Spec => []GraphInv
  BY AlwaysGraphInv
<1>2. ASSUME GraphInv PROVE GraphSound
  <2>1. Graph!EachLinkOnce
    BY <1>2, LinksArePeers DEF Graph!EachLinkOnce
  <2>2. Graph!GroupsConnected /\ Graph!GroupDegreeReached
    BY <1>2, EverybodyConnected, SharesReached
  <2> QED BY <1>2, <2>1, <2>2 DEF GraphSound, Graph!GraphSound, GraphInv
<1> QED BY <1>1, <1>2, PTL
-----------------------------------------------------------------------------
(* Hosting.  The generator counts the running sums at or below a validator, *)
(* the readers look for the first one above it, and a node lists its own.   *)

\* f holds the running sums of the counts c, up to node k.
SumsTo(f, c, k) ==
  /\ f \in [0..k -> Nat] /\ f[0] = 0
  /\ \A n \in 1..k : f[n] = f[n - 1] + c[n]

\* Every list of counts has running sums, up to every node.
LEMMA SumsExist ==
  ASSUME N \in Nat, NEW c \in [1..N -> Nat], NEW k \in 0..N
  PROVE  \E f : SumsTo(f, c, k)
<1> DEFINE Without == {n \in 0..N : ~ \E f : SumsTo(f, c, n)}
<1> SUFFICES ASSUME Without # {} PROVE FALSE
  OBVIOUS
<1>1. Without \subseteq Nat
  OBVIOUS
<1>2. PICK n \in Without : \A m \in Without : n <= m
  BY <1>1, LeastNat, Zenon
<1>3. n \in Nat /\ n <= N
  BY <1>2
<1>4. CASE n = 0
  <2>1. SumsTo([i \in 0..n |-> 0], c, n)
    BY <1>4 DEF SumsTo
  <2> QED BY <1>2, <2>1
<1>5. CASE n # 0
  <2>1. n - 1 \in 0..N /\ ~(n <= n - 1)
    BY <1>3, <1>5
  <2>2. n - 1 \notin Without
    BY <1>2, <2>1
  <2>3. PICK f : SumsTo(f, c, n - 1)
    BY <2>1, <2>2
  <2> DEFINE g == [i \in 0..n |-> IF i = n THEN f[n - 1] + c[n] ELSE f[i]]
  <2>4. f \in [0..(n - 1) -> Nat] /\ f[0] = 0 /\ \A i \in 1..(n - 1) : f[i] = f[i - 1] + c[i]
    BY <2>3 DEF SumsTo
  <2>5. c[n] \in Nat /\ f[n - 1] \in Nat
    BY <1>3, <1>5, <2>4
  <2>6. g \in [0..n -> Nat]
    BY <1>3, <2>4, <2>5
  <2>7. g[0] = 0
    BY <1>3, <1>5, <2>4
  <2>8. ASSUME NEW i \in 1..n PROVE g[i] = g[i - 1] + c[i]
    <3>1. i - 1 \in 0..n /\ i - 1 # n /\ g[i - 1] = f[i - 1]
      BY <1>3
    <3>2. CASE i = n
      BY <3>1, <3>2
    <3>3. CASE i # n
      <4>1. i \in 1..(n - 1) /\ g[i] = f[i]
        BY <1>3, <3>3
      <4> QED BY <2>4, <3>1, <4>1
    <3> QED BY <3>2, <3>3
  <2> HIDE DEF g
  <2>9. SumsTo(g, c, n)
    BY <2>6, <2>7, <2>8 DEF SumsTo
  <2> QED BY <1>2, <2>9
<1> QED BY <1>4, <1>5

\* Bounds is a solution of its equation.
LEMMA BoundsSum ==
  ASSUME N \in Nat, NEW c \in [1..N -> Nat]
  PROVE  SumsTo(Bounds(c), c, N)
<1> DEFINE E(f) == [n \in 0..N |-> IF n = 0 THEN 0 ELSE f[n - 1] + c[n]]
<1>1. PICK f : SumsTo(f, c, N)
  BY SumsExist
<1>2. f = E(f)
  <2>1. f \in [0..N -> Nat] /\ f[0] = 0 /\ \A n \in 1..N : f[n] = f[n - 1] + c[n]
    BY <1>1 DEF SumsTo
  <2>2. \A n \in 0..N : f[n] = E(f)[n]
    <3> TAKE n \in 0..N
    <3>1. n = 0 \/ n \in 1..N
      OBVIOUS
    <3> QED BY <2>1, <3>1
  <2>3. f = [n \in 0..N |-> f[n]]
    BY <2>1
  <2> QED BY <2>2, <2>3
<1>3. Bounds(c) = CHOOSE g : g = E(g)
  BY DEF Bounds
<1> DEFINE h == Bounds(c)
<1>4. h = E(h)
  BY <1>2, <1>3
<1> HIDE DEF h
<1>5. DOMAIN h = 0..N /\ h[0] = 0 /\ \A n \in 1..N : h[n] = h[n - 1] + c[n]
  <2>1. \A n \in 0..N : h[n] = IF n = 0 THEN 0 ELSE h[n - 1] + c[n]
    BY <1>4
  <2>2. 0 \in 0..N /\ \A n \in 1..N : n \in 0..N /\ n # 0
    OBVIOUS
  <2> QED BY <1>4, <2>1, <2>2
<1>6. \A n \in 0..N : h[n] \in Nat
  <2> DEFINE Odd == {n \in 0..N : h[n] \notin Nat}
  <2> SUFFICES ASSUME Odd # {} PROVE FALSE
    OBVIOUS
  <2>1. Odd \subseteq Nat
    OBVIOUS
  <2>2. PICK n \in Odd : \A m \in Odd : n <= m
    BY <2>1, LeastNat, Zenon
  <2>3. n # 0 /\ n \in 1..N
    BY <1>5, <2>2
  <2>4. n - 1 \in 0..N /\ ~(n <= n - 1)
    BY <2>3
  <2>5. h[n - 1] \in Nat
    BY <2>2, <2>4
  <2> QED BY <1>5, <2>2, <2>3, <2>5
<1>7. h = [n \in 0..N |-> h[n]]
  BY <1>4
<1>8. SumsTo(h, c, N)
  BY <1>5, <1>6, <1>7 DEF SumsTo
<1> QED BY <1>8 DEF h

\* Running sums never fall.
LEMMA SumsGrow ==
  ASSUME N \in Nat, NEW c \in [1..N -> Nat], NEW b, SumsTo(b, c, N), NEW i \in 0..N, NEW j \in 0..N, i <= j
  PROVE  b[i] <= b[j]
<1> DEFINE Lower == {n \in 0..N : i <= n /\ ~(b[i] <= b[n])}
<1> SUFFICES ASSUME Lower # {} PROVE FALSE
  OBVIOUS
<1>0. b \in [0..N -> Nat] /\ \A n \in 1..N : b[n] = b[n - 1] + c[n]
  BY DEF SumsTo
<1>1. Lower \subseteq Nat
  OBVIOUS
<1>2. PICK n \in Lower : \A m \in Lower : n <= m
  BY <1>1, LeastNat, Zenon
<1>3. n # i /\ n \in 1..N /\ i <= n - 1 /\ n - 1 \in 0..N /\ ~(n <= n - 1)
  BY <1>0, <1>2
<1>4. b[i] <= b[n - 1]
  BY <1>2, <1>3
<1>5. b[n] = b[n - 1] + c[n] /\ c[n] \in Nat /\ b[i] \in Nat /\ b[n - 1] \in Nat
  BY <1>0, <1>3
<1>6. b[i] <= b[n]
  BY <1>4, <1>5
<1> QED BY <1>2, <1>6

\* The remainder of a division with its remainder in range.
LEMMA Remainder ==
  ASSUME NEW n \in Nat \ {0}, NEW q \in Int, NEW r \in 0..(n - 1)
  PROVE  (n * q + r) % n = r /\ (n * q + r) \div n = q
<1> DEFINE a == n * q + r
<1>1. a \in Int /\ a % n \in 0..(n - 1) /\ a \div n \in Int /\ a = n * (a \div n) + (a % n)
  OBVIOUS
<1> HIDE DEF a
<1> DEFINE d == (a \div n) - q
           e == r - (a % n)
<1>2. d \in Int /\ e \in Int /\ n * d = e /\ e < n /\ -n < e
  BY <1>1 DEF a
<1>3. d = 0
  <2>1. CASE d >= 1
    <3>1. n * d >= n
      BY <2>1, <1>2
    <3> QED BY <3>1, <1>2
  <2>2. CASE d <= -1
    <3>1. n * d <= -n
      BY <2>2, <1>2
    <3> QED BY <3>1, <1>2
  <2> QED BY <2>1, <2>2, <1>2
<1> QED BY <1>1, <1>2, <1>3 DEF a

\* With counts, exactly one node's range holds a validator; the sums at or below
\* it are the ones up to that node, and the first sum above it is that node's.
LEMMA HostedByCounts ==
  ASSUME N \in Nat \ {0}, NEW c \in [1..N -> Nat], Bounds(c)[N] = V, NEW v \in Vals
  PROVE  \E n \in Nodes :
           /\ Bounds(c)[n] <= v /\ v < Bounds(c)[n + 1]
           /\ \A i \in Nodes : Bounds(c)[i] <= v /\ v < Bounds(c)[i + 1] => i = n
           /\ {i \in 1..N : Bounds(c)[i] <= v} = 1..n
           /\ Min({i \in Nodes : v < Bounds(c)[i + 1]}) = n
<1> DEFINE b == Bounds(c)
<1>1. SumsTo(b, c, N)
  BY BoundsSum
<1> HIDE DEF b
<1>2. b \in [0..N -> Nat] /\ b[0] = 0 /\ b[N] = V
  BY <1>1 DEF SumsTo, b
<1>3. \A i, j \in 0..N : i <= j => b[i] <= b[j]
  BY <1>1, SumsGrow
<1>4. v \in Nat /\ v < V
  BY <1>2 DEF Vals
<1> DEFINE Above == {i \in Nodes : v < b[i + 1]}
<1>5. Above \subseteq Nat /\ N - 1 \in Above
  BY <1>2, <1>4 DEF Nodes
<1>6. PICK n \in Above : \A m \in Above : n <= m
  BY <1>5, LeastNat, Zenon
<1>7. n \in Nodes /\ v < b[n + 1] /\ n \in 0..N /\ n \in Nat
  BY <1>6 DEF Nodes
<1>8. b[n] <= v
  <2>1. CASE n = 0
    BY <1>2, <1>4, <2>1
  <2>2. CASE n # 0
    <3>1. n - 1 \in Nodes /\ ~(n <= n - 1) /\ (n - 1) + 1 = n
      BY <1>7, <2>2 DEF Nodes
    <3>2. ~(v < b[n])
      BY <1>6, <3>1
    <3> QED BY <1>2, <1>4, <1>7, <3>2
  <2> QED BY <2>1, <2>2
<1>9. ASSUME NEW i \in Nodes, b[i] <= v, v < b[i + 1] PROVE i = n
  <2>1. n <= i /\ i \in 0..N /\ n + 1 \in 0..N
    BY <1>6, <1>7, <1>9 DEF Nodes
  <2>2. ~(n + 1 <= i)
    <3> SUFFICES ASSUME n + 1 <= i PROVE FALSE
      OBVIOUS
    <3>1. b[n + 1] <= b[i]
      BY <1>3, <2>1
    <3> QED BY <1>2, <1>4, <1>7, <1>9, <2>1, <3>1
  <2> QED BY <1>7, <2>1, <2>2
<1>10. {i \in 1..N : b[i] <= v} = 1..n
  <2>1. ASSUME NEW i \in 1..N PROVE b[i] <= v <=> i <= n
    <3>1. i \in 0..N /\ n + 1 \in 0..N
      BY <1>7 DEF Nodes
    <3>2. CASE i <= n
      <4>1. b[i] <= b[n]
        BY <1>3, <1>7, <3>1, <3>2
      <4> QED BY <1>2, <1>4, <1>7, <1>8, <3>1, <3>2, <4>1
    <3>3. CASE ~(i <= n)
      <4>1. b[n + 1] <= b[i]
        BY <1>3, <1>7, <3>1, <3>3
      <4> QED BY <1>2, <1>4, <1>7, <3>1, <3>3, <4>1
    <3> QED BY <3>2, <3>3
  <2>2. \A i \in 1..n : i \in 1..N
    BY <1>7 DEF Nodes
  <2> QED BY <1>7, <2>1, <2>2
<1>11. Min(Above) = n
  <2>1. \A m \in Above : (\A y \in Above : m <= y) => m = n
    BY <1>5, <1>6
  <2> QED BY <1>6, <2>1 DEF Min
<1> QED BY <1>7, <1>8, <1>9, <1>10, <1>11 DEF b

\* The three ways to say where a validator lives agree.
LEMMA Hosting ==
  ASSUME plan.counts \in CountDraws, NEW v \in Vals
  PROVE  /\ HostOf(v) \in Nodes /\ node_of(plan.counts, v) = HostOf(v)
         /\ \A n \in Nodes : v \in Hosted(n) <=> n = HostOf(v)
<1> DEFINE c == plan.counts
<1>1. N \in Nat \ {0} /\ V \in Nat /\ (c = <<>> \/ (c \in [1..N -> Nat] /\ Bounds(c)[N] = V))
  BY DrawsAssumption
<1>2. v \in Nat /\ v < V /\ ~(v < 0)
  BY <1>1 DEF Vals
<1>3. CASE c = <<>>
  <2>1. HostOf(v) = v % N /\ node_of(plan.counts, v) = v % N
    BY <1>2, <1>3 DEF HostOf, node_of
  <2>2. v % N \in Nodes
    BY <1>1, <1>2 DEF Nodes
  <2>3. ASSUME NEW n \in Nodes PROVE v \in Hosted(n) <=> n = v % N
    <3>1. n \in 0..(N - 1) /\ n \in Nat
      BY <1>1 DEF Nodes
    <3>2. v \in Hosted(n) <=> v >= n /\ (v - n) % N = 0
      BY <1>3 DEF Hosted
    <3>3. ASSUME v >= n, (v - n) % N = 0 PROVE n = v % N
      <4>1. v - n = N * ((v - n) \div N) + 0 /\ (v - n) \div N \in Int
        BY <1>1, <1>2, <3>1, <3>3
      <4>2. v = N * ((v - n) \div N) + n
        BY <1>1, <1>2, <3>1, <4>1
      <4> QED BY <1>1, <3>1, <4>1, <4>2, Remainder
    <3>4. ASSUME n = v % N PROVE v >= n /\ (v - n) % N = 0
      <4>1. v = N * (v \div N) + n /\ v \div N \in Nat
        BY <1>1, <1>2, <3>4
      <4>2. PICK q \in Nat : v = N * q + n
        BY <4>1
      <4>3. v >= n /\ v - n = N * q + 0
        BY <1>1, <1>2, <3>1, <4>2
      <4>4. 0 \in 0..(N - 1) /\ q \in Int
        BY <1>1
      <4>5. (N * q + 0) % N = 0
        BY <1>1, <4>4, Remainder
      <4> QED BY <4>3, <4>5
    <3> QED BY <3>2, <3>3, <3>4
  <2> QED BY <2>1, <2>2, <2>3
<1>4. CASE c # <<>>
  <2>1. c \in [1..N -> Nat] /\ Bounds(c)[N] = V
    BY <1>1, <1>4
  <2>2. PICK n \in Nodes :
           /\ Bounds(c)[n] <= v /\ v < Bounds(c)[n + 1]
           /\ \A i \in Nodes : Bounds(c)[i] <= v /\ v < Bounds(c)[i + 1] => i = n
           /\ {i \in 1..N : Bounds(c)[i] <= v} = 1..n
           /\ Min({i \in Nodes : v < Bounds(c)[i + 1]}) = n
    BY <1>1, <2>1, HostedByCounts
  <2>3. HostOf(v) = n
    BY <1>2, <1>4, <2>1, <2>2 DEF HostOf
  <2>4. Cardinality(1..n) = n
    <3>1. n \in Nat
      BY <1>1, <2>2 DEF Nodes
    <3> QED BY <3>1, FS_Interval
  <2>5. node_of(plan.counts, v) = n
    BY <1>4, <2>2, <2>4 DEF node_of
  <2>6. ASSUME NEW i \in Nodes PROVE v \in Hosted(i) <=> Bounds(c)[i] <= v /\ v < Bounds(c)[i + 1]
    <3>1. SumsTo(Bounds(c), c, N)
      BY <1>1, <2>1, BoundsSum
    <3>2. i \in 0..N /\ i + 1 \in 1..N /\ (i + 1) - 1 = i
      BY <1>1 DEF Nodes
    <3>3. Bounds(c)[i] \in Nat /\ c[i + 1] \in Nat /\ Bounds(c)[i + 1] = Bounds(c)[i] + c[i + 1]
      BY <2>1, <3>1, <3>2 DEF SumsTo
    <3>4. Hosted(i) = Bounds(c)[i]..(Bounds(c)[i] + c[i + 1] - 1)
      BY <1>4 DEF Hosted
    <3> QED BY <1>2, <3>3, <3>4
  <2> QED BY <2>2, <2>3, <2>5, <2>6
<1> QED BY <1>3, <1>4

\* A node hosts validators only.
LEMMA HostedAreVals ==
  ASSUME plan.counts \in CountDraws, NEW n \in Nodes
  PROVE  Hosted(n) \subseteq Vals
<1> DEFINE c == plan.counts
<1>1. N \in Nat \ {0} /\ V \in Nat /\ (c = <<>> \/ (c \in [1..N -> Nat] /\ Bounds(c)[N] = V))
  BY DrawsAssumption
<1>2. CASE c = <<>>
  BY <1>2 DEF Hosted
<1>3. CASE c # <<>>
  <2>1. c \in [1..N -> Nat] /\ Bounds(c)[N] = V
    BY <1>1, <1>3
  <2>2. SumsTo(Bounds(c), c, N)
    BY <1>1, <2>1, BoundsSum
  <2>3. n \in 0..N /\ n + 1 \in 1..N /\ n + 1 \in 0..N /\ n + 1 <= N /\ N \in 0..N /\ (n + 1) - 1 = n
    BY <1>1 DEF Nodes
  <2>4. Bounds(c)[n] \in Nat /\ c[n + 1] \in Nat /\ Bounds(c)[n + 1] = Bounds(c)[n] + c[n + 1]
    BY <2>1, <2>2, <2>3 DEF SumsTo
  <2>5. Bounds(c)[n + 1] <= V
    BY <1>1, <2>1, <2>2, <2>3, SumsGrow
  <2>6. Hosted(n) = Bounds(c)[n]..(Bounds(c)[n] + c[n + 1] - 1)
    BY <1>3 DEF Hosted
  <2> QED BY <1>1, <2>4, <2>5, <2>6 DEF Vals
<1> QED BY <1>2, <1>3

-----------------------------------------------------------------------------
(* Ranks.                                                                  *)

\* In a finite set of naturals the ranks are 0, 1, ... and each is one element's.
LEMMA RanksAre ==
  ASSUME NEW A \in SUBSET Nat, IsFiniteSet(A)
  PROVE  /\ \A x \in A : Cardinality({y \in A : y < x}) \in 0..(Cardinality(A) - 1)
         /\ \A x \in A : Nth(A, Cardinality({y \in A : y < x})) = x
         /\ \A p \in 0..(Cardinality(A) - 1) :
              Nth(A, p) \in A /\ Cardinality({y \in A : y < Nth(A, p)}) = p
<1> DEFINE rank(x) == Cardinality({y \in A : y < x})
           f == [x \in A |-> rank(x)]
           Places == 0..(Cardinality(A) - 1)
<1>0. Cardinality(A) \in Nat
  BY FS_CardinalityType
<1>1. ASSUME NEW x \in A, NEW z \in A, x < z PROVE rank(x) < rank(z)
  <2> DEFINE X == {y \in A : y < x}
             Z == {y \in A : y < z}
  <2>0. \A y \in A : y \in Nat
    OBVIOUS
  <2>1. X \subseteq Z /\ x \in Z /\ x \notin X
    <3>1. ASSUME NEW y \in A, y < x PROVE y < z
      BY <1>1, <2>0, <3>1
    <3>2. x \in Z /\ x \notin X
      BY <1>1, <2>0
    <3> QED BY <3>1, <3>2
  <2>2. IsFiniteSet(Z)
    <3>1. Z \in SUBSET A
      OBVIOUS
    <3> HIDE DEF Z
    <3> QED BY <3>1, FS_Subset
  <2> HIDE DEF X, Z
  <2>3. IsFiniteSet(X) /\ Cardinality(X) <= Cardinality(Z) /\ (Cardinality(Z) = Cardinality(X) => Z = X)
    <3>1. X \in SUBSET Z
      BY <2>1
    <3> QED BY <2>2, <3>1, FS_Subset
  <2>4. Cardinality(X) \in Nat /\ Cardinality(Z) \in Nat
    BY <2>2, <2>3, FS_CardinalityType
  <2>5. Cardinality(X) < Cardinality(Z)
    BY <2>1, <2>3, <2>4
  <2> QED BY <2>5 DEF X, Z
<1>2. ASSUME NEW x \in A PROVE rank(x) \in Places
  <2> DEFINE X == {y \in A : y < x}
  <2>1. X \in SUBSET A /\ x \notin X
    OBVIOUS
  <2> HIDE DEF X
  <2>2. IsFiniteSet(X) /\ Cardinality(X) <= Cardinality(A) /\ (Cardinality(A) = Cardinality(X) => A = X)
    BY <2>1, FS_Subset
  <2>3. Cardinality(X) \in Nat
    BY <2>2, FS_CardinalityType
  <2>4. Cardinality(X) \in 0..(Cardinality(A) - 1)
    BY <1>0, <2>1, <2>2, <2>3
  <2> QED BY <2>4 DEF X
<1> HIDE DEF rank
<1>3. \A x, z \in A : rank(x) = rank(z) => x = z
  <2> TAKE x \in A, z \in A
  <2> HAVE rank(x) = rank(z)
  <2>1. rank(x) \in Int /\ rank(z) \in Int
    BY <1>0, <1>2
  <2>2. ~(x < z) /\ ~(z < x)
    BY <1>1, <2>1
  <2> QED BY <2>2
<1>4. f \in Injection(A, Places)
  <2>1. f \in [A -> Places]
    BY <1>2
  <2>2. \A x, z \in A : f[x] = f[z] => x = z
    BY <1>3
  <2> QED BY <2>1, <2>2, Fun_IsInj, Zenon
<1>5. IsFiniteSet(Places) /\ Cardinality(Places) = Cardinality(A)
  <2> DEFINE m == Cardinality(A)
  <2>1. m \in Nat
    BY <1>0
  <2> HIDE DEF m
  <2>2. IsFiniteSet(0..(m - 1)) /\ Cardinality(0..(m - 1)) = m
    BY <2>1, FS_Interval
  <2> QED BY <2>2 DEF m
<1>6. f \in Surjection(A, Places)
  <2> HIDE DEF f, Places
  <2> QED BY <1>4, <1>5, FS_Injection
<1>7. \A p \in Places : \E x \in A : rank(x) = p
  BY <1>6 DEF Surjection
<1>8. ASSUME NEW x \in A PROVE Nth(A, rank(x)) = x
  <2>1. Nth(A, rank(x)) = CHOOSE z \in A : rank(z) = rank(x)
    BY DEF Nth, rank
  <2> QED BY <1>3, <2>1
<1>9. ASSUME NEW p \in Places PROVE Nth(A, p) \in A /\ rank(Nth(A, p)) = p
  <2>1. PICK x \in A : rank(x) = p
    BY <1>7
  <2> QED BY <1>8, <2>1
<1> QED BY <1>2, <1>8, <1>9 DEF rank

-----------------------------------------------------------------------------
(* The plan.  What generate drew stays, and every slot is one of the slots  *)
(* that _slot_plan makes of it.                                             *)

PlanFields ==
  {"counts", "subnetOf", "roundOf", "fullCustody", "columnSubscribers", "subnetSubscribers",
   "syncSubscribers", "finalitySubscribers", "perSubnet", "perRoundSubnet", "slots"}

\* What was drawn, as generate relies on it and writes it down.
DrawnInv ==
  /\ mode \in Modes /\ plan.counts \in CountDraws
  /\ Decoupled => plan.subnetOf \in [Vals -> Subnets]
  /\ Segregated => plan.roundOf \in [Vals -> 0..(K - 1)]
  /\ plan.fullCustody \subseteq Nodes /\ plan.fullCustody # {}
  /\ \A c \in Columns : plan.fullCustody \subseteq plan.columnSubscribers[c]
  /\ ~Decoupled =>
       /\ plan.subnetSubscribers \in [Subnets -> SUBSET Nodes]
       /\ plan.syncSubscribers \in [Subnets -> SUBSET Nodes]
       /\ \A s, t \in Subnets : s # t => plan.syncSubscribers[s] \cap plan.syncSubscribers[t] = {}
  /\ Decoupled =>
       \A s \in Subnets : plan.perSubnet[s] = Cardinality({v \in Vals : plan.subnetOf[v] = s})
  /\ Segregated =>
       \A r \in 0..(K - 1), s \in Subnets : plan.perRoundSubnet[<<r, s>>] =
         Cardinality({v \in Vals : plan.roundOf[v] = r /\ plan.subnetOf[v] = s})

\* The slots a plan can hold, and the plan holds one for every slot so far.
PlannedSlots == {_slot_plan(ds[1], ds[2]) : ds \in Slots \X SlotDraws}
SlotsInv ==
  /\ plan.slots \in Seq(PlannedSlots) /\ Len(plan.slots) <= NumSlots
  /\ \A i \in 1..Len(plan.slots) : \E d \in SlotDraws : plan.slots[i] = _slot_plan(i - 1, d)

PlanInv == PlanFields \subseteq DOMAIN plan /\ DrawnInv /\ SlotsInv

\* What generate draws meets the invariant.
LEMMA InitPlan == Init => PlanInv
<1> SUFFICES ASSUME Init PROVE PlanInv
  OBVIOUS
<1>1. mode \in Modes
  BY DEF Init, generate
<1> DEFINE Drawn(counts, d, subnetOf, roundOf) ==
       [counts |-> counts, subnetOf |-> subnetOf, roundOf |-> roundOf,
        fullCustody |-> d.full,
        columnSubscribers |->
          [c \in Columns |-> d.full \cup {n \in Nodes \ d.full : c \in d.cols[n]}],
        subnetSubscribers |-> IF Decoupled THEN <<>> ELSE d.subs,
        syncSubscribers |-> IF Decoupled THEN <<>> ELSE d.sync,
        finalitySubscribers |-> IF Decoupled THEN d.fin ELSE <<>>,
        perSubnet |-> IF Decoupled
          THEN [s \in Subnets |-> Cardinality({v \in Vals : subnetOf[v] = s})] ELSE <<>>,
        perRoundSubnet |-> IF Segregated
          THEN [rs \in (0..(K - 1)) \X Subnets |->
                  Cardinality({v \in Vals : roundOf[v] = rs[1] /\ subnetOf[v] = rs[2]})]
          ELSE <<>>,
        slots |-> <<>>]
<1>2. \E counts \in CountDraws, d \in MembershipDraws :
      \E subnetOf \in IF Decoupled THEN [Vals -> Subnets] ELSE {<<>>} :
      \E roundOf \in IF Segregated THEN [Vals -> 0..(K - 1)] ELSE {<<>>} :
        plan = Drawn(counts, d, subnetOf, roundOf)
  BY DEF Init, generate
<1> HIDE DEF Drawn
<1>3. PICK counts \in CountDraws, d \in MembershipDraws,
           subnetOf \in IF Decoupled THEN [Vals -> Subnets] ELSE {<<>>},
           roundOf \in IF Segregated THEN [Vals -> 0..(K - 1)] ELSE {<<>>} :
        plan = Drawn(counts, d, subnetOf, roundOf)
  BY <1>2
<1>4. /\ plan.counts = counts /\ plan.subnetOf = subnetOf /\ plan.roundOf = roundOf
      /\ plan.fullCustody = d.full /\ plan.slots = <<>>
      /\ plan.columnSubscribers =
           [c \in Columns |-> d.full \cup {n \in Nodes \ d.full : c \in d.cols[n]}]
      /\ ~Decoupled => plan.subnetSubscribers = d.subs /\ plan.syncSubscribers = d.sync
      /\ Decoupled => plan.perSubnet = [s \in Subnets |-> Cardinality({v \in Vals : subnetOf[v] = s})]
      /\ Segregated => plan.perRoundSubnet = [rs \in (0..(K - 1)) \X Subnets |->
                         Cardinality({v \in Vals : roundOf[v] = rs[1] /\ subnetOf[v] = rs[2]})]
      /\ DOMAIN plan = PlanFields
  BY <1>3 DEF PlanFields, Drawn
<1>5. /\ d.full \subseteq Nodes /\ d.full # {}
      /\ d.subs \in [Subnets -> SUBSET Nodes] /\ d.sync \in [Subnets -> SUBSET Nodes]
      /\ \A s, t \in Subnets : s # t => d.sync[s] \cap d.sync[t] = {}
  BY DrawsAssumption
<1>6. DrawnInv
  <2>1. (Decoupled => plan.subnetOf \in [Vals -> Subnets]) /\ (Segregated => plan.roundOf \in [Vals -> 0..(K - 1)])
    BY <1>3, <1>4
  <2>2. \A c \in Columns : plan.fullCustody \subseteq plan.columnSubscribers[c]
    BY <1>4
  <2>3. Decoupled => \A s \in Subnets : plan.perSubnet[s] = Cardinality({v \in Vals : plan.subnetOf[v] = s})
    BY <1>4
  <2>4. ASSUME Segregated, NEW r \in 0..(K - 1), NEW s \in Subnets
        PROVE  plan.perRoundSubnet[<<r, s>>] = Cardinality({v \in Vals : plan.roundOf[v] = r /\ plan.subnetOf[v] = s})
    <3>1. <<r, s>> \in (0..(K - 1)) \X Subnets /\ <<r, s>>[1] = r /\ <<r, s>>[2] = s
      OBVIOUS
    <3> QED BY <1>4, <2>4, <3>1
  <2>5. /\ ~Decoupled =>
             /\ plan.subnetSubscribers \in [Subnets -> SUBSET Nodes]
             /\ plan.syncSubscribers \in [Subnets -> SUBSET Nodes]
             /\ \A s, t \in Subnets : s # t => plan.syncSubscribers[s] \cap plan.syncSubscribers[t] = {}
        /\ plan.fullCustody \subseteq Nodes /\ plan.fullCustody # {} /\ plan.counts \in CountDraws
    BY <1>4, <1>5
  <2> QED BY <1>1, <2>1, <2>2, <2>3, <2>4, <2>5 DEF DrawnInv
<1>7. SlotsInv
  BY <1>4, DrawsAssumption DEF SlotsInv
<1> QED BY <1>4, <1>6, <1>7 DEF PlanInv

\* A slot's plan does not depend on the slots planned.
LEMMA SlotPlanStays ==
  ASSUME UNCHANGED mode, plan'.counts = plan.counts, plan'.fullCustody = plan.fullCustody,
         plan'.subnetSubscribers = plan.subnetSubscribers, plan'.syncSubscribers = plan.syncSubscribers,
         NEW s, NEW d
  PROVE  (_slot_plan(s, d))' = _slot_plan(s, d)
BY DEF _slot_plan, DrawsAggregators, Decoupled, Segregated

\* Planning a slot keeps the invariant.
LEMMA NextPlan == PlanInv /\ [Next]_vars => PlanInv'
<1> SUFFICES ASSUME PlanInv, [Next]_vars PROVE PlanInv'
  OBVIOUS
<1>0. NumSlots \in Nat /\ Len(plan.slots) \in Nat
  BY DrawsAssumption DEF PlanInv, SlotsInv
<1>1. CASE UNCHANGED vars
  <2>1. plan' = plan /\ mode' = mode
    BY <1>1 DEF vars
  <2>2. DrawnInv'
    BY <2>1 DEF PlanInv, DrawnInv, Decoupled, Segregated
  <2>3. \A s, d : (_slot_plan(s, d))' = _slot_plan(s, d)
    BY <2>1, SlotPlanStays
  <2>4. PlannedSlots' = PlannedSlots
    BY <2>3 DEF PlannedSlots
  <2>5. SlotsInv'
    BY <2>1, <2>3, <2>4 DEF PlanInv, SlotsInv
  <2> QED BY <2>1, <2>2, <2>5 DEF PlanInv
<1>2. CASE planSlot
  <2>0. UNCHANGED mode /\ Len(plan.slots) < NumSlots
    BY <1>2 DEF planSlot, Unplanned
  <2>1. PICK d \in SlotDraws :
          plan' = [plan EXCEPT !.slots = Append(plan.slots, _slot_plan(Len(plan.slots), d))]
    BY <1>2 DEF planSlot
  <2> DEFINE e == _slot_plan(Len(plan.slots), d)
  <2> HIDE DEF e
  <2>2. DOMAIN plan' = DOMAIN plan /\ plan'.slots = Append(plan.slots, e)
        /\ \A f \in PlanFields \ {"slots"} : plan'[f] = plan[f]
    BY <2>1 DEF PlanInv, PlanFields, e
  <2>3. /\ plan'.counts = plan.counts /\ plan'.subnetOf = plan.subnetOf /\ plan'.roundOf = plan.roundOf
        /\ plan'.fullCustody = plan.fullCustody /\ plan'.columnSubscribers = plan.columnSubscribers
        /\ plan'.subnetSubscribers = plan.subnetSubscribers /\ plan'.syncSubscribers = plan.syncSubscribers
        /\ plan'.perSubnet = plan.perSubnet /\ plan'.perRoundSubnet = plan.perRoundSubnet
    BY <2>2 DEF PlanFields
  <2>4. DrawnInv'
    BY <2>0, <2>3 DEF PlanInv, DrawnInv, Decoupled, Segregated
  <2>5. \A s, x : (_slot_plan(s, x))' = _slot_plan(s, x)
    BY <2>0, <2>3, SlotPlanStays
  <2>6. PlannedSlots' = PlannedSlots
    BY <2>5 DEF PlannedSlots
  <2>7. Len(plan.slots) \in Slots /\ e \in PlannedSlots
    <3>1. Len(plan.slots) \in Slots
      BY <1>0, <2>0 DEF Slots
    <3>2. <<Len(plan.slots), d>> \in Slots \X SlotDraws
      BY <3>1
    <3> QED BY <3>1, <3>2 DEF PlannedSlots, e
  <2>8. plan'.slots \in Seq(PlannedSlots) /\ Len(plan'.slots) = Len(plan.slots) + 1
    BY <2>2, <2>7 DEF PlanInv, SlotsInv
  <2>9. ASSUME NEW i \in 1..(Len(plan.slots) + 1)
        PROVE  \E x \in SlotDraws : plan'.slots[i] = _slot_plan(i - 1, x)
    <3>1. CASE i = Len(plan.slots) + 1
      <4>1. plan'.slots[i] = e /\ i - 1 = Len(plan.slots)
        BY <1>0, <2>2, <3>1 DEF PlanInv, SlotsInv
      <4> QED BY <4>1 DEF e
    <3>2. CASE i # Len(plan.slots) + 1
      <4>1. i \in 1..Len(plan.slots) /\ plan'.slots[i] = plan.slots[i]
        BY <1>0, <2>2, <3>2 DEF PlanInv, SlotsInv
      <4> QED BY <4>1 DEF PlanInv, SlotsInv
    <3> QED BY <3>1, <3>2
  <2>10. SlotsInv'
    <3>1. Len(plan'.slots) <= NumSlots
      BY <1>0, <2>0, <2>8
    <3> QED BY <2>5, <2>6, <2>8, <2>9, <3>1 DEF SlotsInv
  <2> QED BY <2>2, <2>4, <2>10 DEF PlanInv
<1> QED BY <1>1, <1>2 DEF Next

\* The invariant holds of every plan, finished or not.
LEMMA AlwaysPlanInv == Spec => []PlanInv
BY InitPlan, NextPlan, PTL DEF Spec

\* Every slot of a finished plan is a slot _slot_plan makes.
LEMMA SlotIs ==
  ASSUME PlanInv, Viewed, NEW s \in Slots
  PROVE  \E d \in SlotDraws : Slot(s) = _slot_plan(s, d)
<1>1. s + 1 \in 1..Len(plan.slots) /\ (s + 1) - 1 = s
  BY DrawsAssumption DEF Slots, Viewed
<1> QED BY <1>1 DEF PlanInv, SlotsInv, Slot

\* What a node sees, field by field.
LEMMA ViewIs ==
  ASSUME NEW n \in Nodes
  PROVE  /\ views[n].Proposes = [s \in Slots |-> Slot(s).proposer = n]
         /\ views[n].CustodyColumns = CustodyColumns(n)
         /\ views[n].SubscribedSubnets = MemberOf(plan.subnetSubscribers, n)
         /\ views[n].SyncSubnet = FirstOf(MemberOf(plan.syncSubscribers, n))
         /\ views[n].AttestDuties = [s \in Slots |-> attestDuties(n, s)]
         /\ views[n].AggregateSubnets = [s \in Slots |-> AggregateSubnets(n, s)]
         /\ views[n].SyncAggregateSubnets = [s \in Slots |-> MemberOf(Slot(s).sync_aggregators, n)]
         /\ Decoupled => views[n].FinalityVoteDuties = [r \in Rounds |-> finalityVoteDuties(n, r)]
         /\ Decoupled => views[n].FinalityAggregations = [r \in Rounds |-> finalityAggregations(n, r)]
<1>1. views[n] = Node(n)
  BY DEF views
<1> QED BY <1>1 DEF Node, Rounds

-----------------------------------------------------------------------------
(* Positions: the finality cells.                                          *)

\* The cells are finite sets of validators; rounds are numbers.
LEMMA CellType ==
  ASSUME PlanInv, Decoupled, NEW s, NEW row
  PROVE  cell(s, row) \in SUBSET Nat /\ IsFiniteSet(cell(s, row)) /\ Cardinality(cell(s, row)) \in Nat
<1>1. V \in Nat
  BY DrawsAssumption
<1>2. IsFiniteSet(Vals) /\ Vals \subseteq Nat
  BY <1>1, FS_Interval DEF Vals
<1>3. cell(s, row) \in SUBSET Vals
  BY DEF cell
<1> QED BY <1>2, <1>3, FS_Subset, FS_CardinalityType

\* A group's validators hold its positions, each resolving to its own.
LEMMA PositionResolves ==
  ASSUME PlanInv, Decoupled, NEW g, NEW v \in Vals, RowOf(v) = round(g)
  PROVE  /\ plan.subnetOf[v] \in SubnetsDrawn
         /\ FinalityPosition(v) \in 0..(FinalityCellSize(plan.subnetOf[v], g) - 1)
         /\ FinalityValAt(plan.subnetOf[v], g, FinalityPosition(v)) = v
<1> DEFINE s == plan.subnetOf[v]
           A == cell(s, round(g))
<1>0. V \in Nat /\ S \in Nat /\ v \in Nat /\ v < V
  BY DrawsAssumption DEF Vals
<1>1. s \in Subnets /\ s \in SubnetsDrawn
  <2>1. s \in Subnets
    BY DEF PlanInv, DrawnInv
  <2>2. s >= s
    BY <1>0, <2>1 DEF Subnets
  <2> QED BY <2>1, <2>2 DEF SubnetsDrawn
<1>2. v \in A
  BY DEF cell
<1>3. {u \in 0..(v - 1) : SameCell(u, v)} = {y \in A : y < v}
  BY <1>0 DEF SameCell, cell, Vals
<1>4. FinalityPosition(v) = Cardinality({y \in A : y < v})
  BY <1>3 DEF FinalityPosition, pos
<1>5. A \in SUBSET Nat /\ IsFiniteSet(A)
  BY CellType
<1> HIDE DEF A
<1>6. FinalityPosition(v) \in 0..(Cardinality(A) - 1) /\ Nth(A, FinalityPosition(v)) = v
  BY <1>2, <1>4, <1>5, RanksAre
<1> QED BY <1>1, <1>6 DEF FinalityCellSize, FinalityValAt, A

\* Every position of a group's width is some validator's.
LEMMA PositionHeld ==
  ASSUME PlanInv, Decoupled, NEW g, NEW s \in Subnets, NEW p \in 0..(FinalityCellSize(s, g) - 1)
  PROVE  \E v \in Vals : plan.subnetOf[v] = s /\ RowOf(v) = round(g) /\ FinalityPosition(v) = p
<1> DEFINE A == cell(s, round(g))
           v == Nth(A, p)
<1>0. V \in Nat
  BY DrawsAssumption
<1>1. A \in SUBSET Nat /\ IsFiniteSet(A) /\ Cardinality(A) \in Nat
  BY CellType
<1>2. FinalityCellSize(s, g) = Cardinality(A)
  BY DEF FinalityCellSize
<1> HIDE DEF A
<1>3. v \in A /\ Cardinality({y \in A : y < v}) = p
  BY <1>1, <1>2, RanksAre
<1> HIDE DEF v
<1>4. v \in Vals /\ plan.subnetOf[v] = s /\ RowOf(v) = round(g)
  BY <1>3 DEF A, cell
<1>5. v \in Nat /\ v < V
  BY <1>0, <1>4 DEF Vals
<1>6. {u \in 0..(v - 1) : SameCell(u, v)} = {y \in A : y < v}
  BY <1>0, <1>4, <1>5 DEF SameCell, cell, Vals, A
<1>7. FinalityPosition(v) = p
  BY <1>3, <1>4, <1>6 DEF FinalityPosition, pos
<1> QED BY <1>4, <1>7

\* The width of a group is the count in the plan.
LEMMA CellsCounted == PlanInv => CellsMatchCounts
<1> SUFFICES ASSUME PlanInv, Viewed, Decoupled, NEW s \in Subnets, NEW g \in Rounds
             PROVE  FinalityCellSize(s, g) = IF Segregated THEN plan.perRoundSubnet[<<g % K, s>>] ELSE plan.perSubnet[s]
  BY DEF CellsMatchCounts
<1>0. K \in Nat \ {0} /\ S \in Nat /\ V \in Nat /\ g \in Int
  BY DrawsAssumption DEF Rounds
<1>1. FinalityCellSize(s, g) = Cardinality(cell(s, round(g)))
  <2>1. CASE s \in SubnetsDrawn
    BY <2>1 DEF FinalityCellSize
  <2>2. CASE s \notin SubnetsDrawn
    <3>1. ASSUME NEW v \in Vals PROVE plan.subnetOf[v] # s
      <4>1. plan.subnetOf[v] \in Subnets
        BY DEF PlanInv, DrawnInv
      <4>2. ~(plan.subnetOf[v] >= s)
        BY <2>2 DEF SubnetsDrawn
      <4> QED BY <1>0, <4>1, <4>2 DEF Subnets
    <3>2. cell(s, round(g)) = {}
      BY <3>1 DEF cell
    <3> QED BY <2>2, <3>2, FS_EmptySet DEF FinalityCellSize
  <2> QED BY <2>1, <2>2
<1>2. CASE Segregated
  <2>1. g % K \in 0..(K - 1)
    BY <1>0
  <2>2. cell(s, round(g)) = {v \in Vals : plan.roundOf[v] = g % K /\ plan.subnetOf[v] = s}
    BY <1>2 DEF cell, RowOf, round
  <2>3. plan.perRoundSubnet[<<g % K, s>>] = Cardinality({v \in Vals : plan.roundOf[v] = g % K /\ plan.subnetOf[v] = s})
    BY <1>2, <2>1 DEF PlanInv, DrawnInv
  <2> QED BY <1>1, <1>2, <2>2, <2>3
<1>3. CASE ~Segregated
  <2>1. cell(s, round(g)) = {v \in Vals : plan.subnetOf[v] = s}
    BY <1>3 DEF cell, RowOf, round
  <2>2. plan.perSubnet[s] = Cardinality({v \in Vals : plan.subnetOf[v] = s})
    BY <1>3 DEF PlanInv, DrawnInv
  <2> QED BY <1>1, <1>3, <2>1, <2>2
<1> QED BY <1>2, <1>3

\* A finality duty is a hosted validator's of the group's round.
LEMMA FinalityDuty ==
  ASSUME PlanInv, Decoupled, NEW n \in Nodes, NEW g \in Rounds, NEW d
  PROVE  d \in views[n].FinalityVoteDuties[g] <=>
           \E v \in Vals : /\ n = HostOf(v) /\ RowOf(v) = round(g)
                           /\ d = [subnet |-> plan.subnetOf[v], val |-> v, position |-> FinalityPosition(v)]
<1>1. views[n].FinalityVoteDuties[g] = finalityVoteDuties(n, g)
  <2>1. views[n].FinalityVoteDuties = [r \in Rounds |-> finalityVoteDuties(n, r)]
    BY ViewIs, Zenon
  <2> QED BY <2>1
<1>2. plan.counts \in CountDraws
  BY DEF PlanInv, DrawnInv
<1>3. Hosted(n) \subseteq Vals
  BY <1>2, HostedAreVals
<1>4. \A v \in Vals : v \in Hosted(n) <=> n = HostOf(v)
  BY <1>2, Hosting
<1>5. \A v : (Segregated => plan.roundOf[v] = g % K) <=> RowOf(v) = round(g)
  BY DEF RowOf, round
<1> QED BY <1>1, <1>3, <1>4, <1>5 DEF finalityVoteDuties

\* The finality votes and the resolver agree both ways.
LEMMA FinalityResolves ==
  ASSUME PlanInv, Decoupled, NEW g \in Rounds
  PROVE  /\ \A o \in Owed("finality", g) :
              /\ Identity("finality", o.duty.subnet, g, o.duty.position) = <<o.duty.val, o.node>>
              /\ o.duty.position < CommitteeSize("finality", o.duty.subnet, g)
         /\ \A s \in Subnets : \A p \in 0..(CommitteeSize("finality", s, g) - 1) :
              \E o \in Owed("finality", g) : o.duty.subnet = s /\ o.duty.position = p
<1> DEFINE Duty(v) == [subnet |-> plan.subnetOf[v], val |-> v, position |-> FinalityPosition(v)]
<1>0. \A v \in Vals : v \in Nat /\ HostOf(v) \in Nodes
  BY Hosting, DrawsAssumption DEF PlanInv, DrawnInv, Vals
<1>1. Owed("finality", g) = UNION {{[node |-> n, duty |-> d] : d \in views[n].FinalityVoteDuties[g]} : n \in Nodes}
  BY DEF Owed
<1>2. ASSUME NEW o \in Owed("finality", g)
      PROVE  \E v \in Vals : RowOf(v) = round(g) /\ o = [node |-> HostOf(v), duty |-> Duty(v)]
  <2>1. PICK n \in Nodes : \E d \in views[n].FinalityVoteDuties[g] : o = [node |-> n, duty |-> d]
    BY <1>1
  <2>2. PICK d \in views[n].FinalityVoteDuties[g] : o = [node |-> n, duty |-> d]
    BY <2>1
  <2> QED BY <2>2, FinalityDuty
<1>3. ASSUME NEW v \in Vals, RowOf(v) = round(g)
      PROVE  [node |-> HostOf(v), duty |-> Duty(v)] \in Owed("finality", g)
  <2>1. Duty(v) \in views[HostOf(v)].FinalityVoteDuties[g]
    BY <1>0, <1>3, FinalityDuty
  <2> QED BY <1>0, <1>1, <2>1
<1>4. ASSUME NEW o \in Owed("finality", g)
      PROVE  /\ Identity("finality", o.duty.subnet, g, o.duty.position) = <<o.duty.val, o.node>>
             /\ o.duty.position < CommitteeSize("finality", o.duty.subnet, g)
  <2>1. PICK v \in Vals : RowOf(v) = round(g) /\ o = [node |-> HostOf(v), duty |-> Duty(v)]
    BY <1>2
  <2>2. o.node = HostOf(v) /\ o.duty.subnet = plan.subnetOf[v] /\ o.duty.val = v /\ o.duty.position = FinalityPosition(v)
    BY <2>1
  <2>3. /\ FinalityPosition(v) \in 0..(FinalityCellSize(plan.subnetOf[v], g) - 1)
        /\ FinalityValAt(plan.subnetOf[v], g, FinalityPosition(v)) = v
    BY <2>1, PositionResolves
  <2>4. Identity("finality", plan.subnetOf[v], g, FinalityPosition(v)) = <<v, HostOf(v)>>
    BY <1>0, <2>3 DEF Identity
  <2>5. FinalityPosition(v) < FinalityCellSize(plan.subnetOf[v], g)
    <3>1. FinalityCellSize(plan.subnetOf[v], g) \in Nat
      BY <2>1, PositionResolves, CellType DEF FinalityCellSize
    <3> QED BY <2>3, <3>1
  <2> QED BY <2>2, <2>4, <2>5 DEF CommitteeSize
<1>5. ASSUME NEW s \in Subnets, NEW p \in 0..(CommitteeSize("finality", s, g) - 1)
      PROVE  \E o \in Owed("finality", g) : o.duty.subnet = s /\ o.duty.position = p
  <2>1. PICK v \in Vals : plan.subnetOf[v] = s /\ RowOf(v) = round(g) /\ FinalityPosition(v) = p
    BY <1>5, PositionHeld DEF CommitteeSize
  <2>2. [node |-> HostOf(v), duty |-> Duty(v)] \in Owed("finality", g)
    BY <1>3, <2>1
  <2> QED BY <2>1, <2>2
<1> QED BY <1>4, <1>5

-----------------------------------------------------------------------------
(* Positions: the committees.                                              *)

\* The seats of a committee plan: seat i of committee c.
LEMMA SeatsAre ==
  ASSUME PlanInv, Viewed, ~Decoupled, NEW g \in Slots
  PROVE  \E vals :
           /\ \A c \in 1..S, i \in 1..Sc : vals[(c - 1) * Sc + i] \in Vals
           /\ Slot(g).committees = committeesOf(plan.counts, vals)
           /\ Slot(g).subnet_of = [c \in 1..S |-> c - 1]
<1>1. PICK d \in SlotDraws : Slot(g) = _slot_plan(g, d)
  BY SlotIs
<1>2. Slot(g).committees = committeesOf(plan.counts, d.vals) /\ Slot(g).subnet_of = [c \in 1..S |-> c - 1]
  BY <1>1 DEF _slot_plan
<1>3. \A i \in 1..(S * Sc) : d.vals[i] \in Vals
  BY DrawsAssumption DEF PlanInv, DrawnInv, Decoupled
<1>4. ASSUME NEW c \in 1..S, NEW i \in 1..Sc PROVE (c - 1) * Sc + i \in 1..(S * Sc)
  <2>0. S \in Nat /\ Sc \in Nat
    BY DrawsAssumption
  <2>1. (c - 1) * Sc \in Nat /\ (S - 1) * Sc + Sc = S * Sc
    BY <2>0
  <2>2. (c - 1) * Sc <= (S - 1) * Sc
    BY <2>0
  <2> QED BY <2>0, <2>1, <2>2
<1> QED BY <1>2, <1>3, <1>4

\* The committee of a subnet, its seats, and who owes them.
LEMMA CommitteeIs ==
  ASSUME PlanInv, Viewed, ~Decoupled, NEW g \in Slots
  PROVE  \E vals :
           /\ \A c \in 1..S, i \in 1..Sc :
                /\ vals[(c - 1) * Sc + i] \in Vals
                /\ node_of(plan.counts, vals[(c - 1) * Sc + i]) \in Nodes
           /\ \A s \in Subnets : committee(s, g) =
                [i \in 1..Sc |-> [node |-> node_of(plan.counts, vals[s * Sc + i]), val |-> vals[s * Sc + i],
                                  subnet |-> s, position |-> i - 1]]
           /\ \A n \in Nodes : \A x : x \in views[n].AttestDuties[g] <=>
                \E s \in Subnets, i \in 1..Sc :
                  /\ n = node_of(plan.counts, vals[s * Sc + i])
                  /\ x = [subnet |-> s, val |-> vals[s * Sc + i], position |-> i - 1]
<1>0. S \in Nat /\ Sc \in Nat
  BY DrawsAssumption
<1>1. PICK vals :
        /\ \A c \in 1..S, i \in 1..Sc : vals[(c - 1) * Sc + i] \in Vals
        /\ Slot(g).committees = committeesOf(plan.counts, vals)
        /\ Slot(g).subnet_of = [c \in 1..S |-> c - 1]
  BY SeatsAre
<1> DEFINE seat(s, i) == [node |-> node_of(plan.counts, vals[s * Sc + i]), val |-> vals[s * Sc + i],
                          subnet |-> s, position |-> i - 1]
<1>2. \A c \in 1..S, i \in 1..Sc : node_of(plan.counts, vals[(c - 1) * Sc + i]) \in Nodes
  BY <1>1, Hosting DEF PlanInv, DrawnInv
<1>3. Slot(g).committees = [c \in 1..S |-> [i \in 1..Sc |-> seat(c - 1, i)]]
  BY <1>1 DEF committeesOf
<1> HIDE DEF seat
<1>4. ASSUME NEW s \in Subnets PROVE committee(s, g) = [i \in 1..Sc |-> seat(s, i)]
  <2>1. s + 1 \in 1..S /\ (s + 1) - 1 = s
    BY <1>0 DEF Subnets
  <2>2. {i \in DOMAIN Slot(g).subnet_of : Slot(g).subnet_of[i] = s} = {s + 1}
    BY <1>0, <1>1, <2>1
  <2>3. Min({s + 1}) = s + 1
    BY <2>1 DEF Min
  <2>4. committee(s, g) = Slot(g).committees[s + 1]
    BY <2>2, <2>3 DEF committee
  <2> QED BY <1>3, <2>1, <2>4
<1>5. ASSUME NEW n \in Nodes, NEW x
      PROVE  x \in views[n].AttestDuties[g] <=>
               \E s \in Subnets, i \in 1..Sc :
                 /\ n = node_of(plan.counts, vals[s * Sc + i])
                 /\ x = [subnet |-> s, val |-> vals[s * Sc + i], position |-> i - 1]
  <2>1. views[n].AttestDuties[g] = attestDuties(n, g)
    <3>1. views[n].AttestDuties = [s \in Slots |-> attestDuties(n, s)]
      BY ViewIs, Zenon
    <3> QED BY <3>1
  <2> DEFINE Seats == UNION {ToSet(com) : com \in ToSet(Slot(g).committees)}
  <2>2. \A q : q \in Seats <=> \E s \in Subnets, i \in 1..Sc : q = seat(s, i)
    <3>1. ASSUME NEW q \in Seats PROVE \E s \in Subnets, i \in 1..Sc : q = seat(s, i)
      <4>1. PICK com \in ToSet(Slot(g).committees) : q \in ToSet(com)
        OBVIOUS
      <4>2. PICK c \in 1..S : com = [i \in 1..Sc |-> seat(c - 1, i)]
        BY <1>3, <4>1 DEF ToSet
      <4>3. PICK i \in 1..Sc : q = seat(c - 1, i)
        BY <4>1, <4>2 DEF ToSet
      <4>4. c - 1 \in Subnets
        BY <1>0 DEF Subnets
      <4> QED BY <4>3, <4>4
    <3>2. ASSUME NEW s \in Subnets, NEW i \in 1..Sc PROVE seat(s, i) \in Seats
      <4> DEFINE com == [j \in 1..Sc |-> seat(s, j)]
      <4>1. s + 1 \in 1..S /\ (s + 1) - 1 = s
        BY <1>0 DEF Subnets
      <4>2. com \in ToSet(Slot(g).committees)
        BY <1>3, <4>1 DEF ToSet
      <4>3. seat(s, i) \in ToSet(com)
        BY DEF ToSet
      <4> QED BY <4>2, <4>3
    <3> QED BY <3>1, <3>2
  <2>3. attestDuties(n, g) = {[subnet |-> r.subnet, val |-> r.val, position |-> r.position] :
                                r \in {q \in Seats : q.node = n}}
    BY DEF attestDuties
  <2> HIDE DEF Seats
  <2>4. \A s, i : /\ seat(s, i).node = node_of(plan.counts, vals[s * Sc + i]) /\ seat(s, i).val = vals[s * Sc + i]
                  /\ seat(s, i).subnet = s /\ seat(s, i).position = i - 1
    BY DEF seat
  <2>5. ASSUME x \in attestDuties(n, g)
        PROVE  \E s \in Subnets, i \in 1..Sc :
                 /\ n = node_of(plan.counts, vals[s * Sc + i])
                 /\ x = [subnet |-> s, val |-> vals[s * Sc + i], position |-> i - 1]
    <3>1. PICK r \in Seats : r.node = n /\ x = [subnet |-> r.subnet, val |-> r.val, position |-> r.position]
      BY <2>3, <2>5
    <3>2. PICK s \in Subnets, i \in 1..Sc : r = seat(s, i)
      BY <2>2
    <3> QED BY <2>4, <3>1, <3>2
  <2>6. ASSUME NEW s \in Subnets, NEW i \in 1..Sc, n = node_of(plan.counts, vals[s * Sc + i]),
               x = [subnet |-> s, val |-> vals[s * Sc + i], position |-> i - 1]
        PROVE  x \in attestDuties(n, g)
    <3>1. seat(s, i) \in Seats /\ seat(s, i).node = n
      BY <2>2, <2>4, <2>6
    <3>2. x = [subnet |-> seat(s, i).subnet, val |-> seat(s, i).val, position |-> seat(s, i).position]
      BY <2>4, <2>6
    <3> QED BY <2>3, <3>1, <3>2
  <2> QED BY <2>1, <2>5, <2>6
<1> QED BY <1>1, <1>2, <1>4, <1>5 DEF seat

\* The attestations and the resolver agree both ways.
LEMMA AttestationResolves ==
  ASSUME PlanInv, Viewed, ~Decoupled, NEW g \in Slots
  PROVE  /\ \A o \in Owed("attestation", g) :
              /\ Identity("attestation", o.duty.subnet, g, o.duty.position) = <<o.duty.val, o.node>>
              /\ o.duty.position < CommitteeSize("attestation", o.duty.subnet, g)
         /\ \A s \in Subnets : \A p \in 0..(CommitteeSize("attestation", s, g) - 1) :
              \E o \in Owed("attestation", g) : o.duty.subnet = s /\ o.duty.position = p
<1>0. S \in Nat /\ Sc \in Nat
  BY DrawsAssumption
<1>1. PICK vals :
           /\ \A c \in 1..S, i \in 1..Sc :
                /\ vals[(c - 1) * Sc + i] \in Vals
                /\ node_of(plan.counts, vals[(c - 1) * Sc + i]) \in Nodes
           /\ \A s \in Subnets : committee(s, g) =
                [i \in 1..Sc |-> [node |-> node_of(plan.counts, vals[s * Sc + i]), val |-> vals[s * Sc + i],
                                  subnet |-> s, position |-> i - 1]]
           /\ \A n \in Nodes : \A x : x \in views[n].AttestDuties[g] <=>
                \E s \in Subnets, i \in 1..Sc :
                  /\ n = node_of(plan.counts, vals[s * Sc + i])
                  /\ x = [subnet |-> s, val |-> vals[s * Sc + i], position |-> i - 1]
  BY CommitteeIs
<1> DEFINE node(s, i) == node_of(plan.counts, vals[s * Sc + i])
           duty(s, i) == [subnet |-> s, val |-> vals[s * Sc + i], position |-> i - 1]
           seat(s, i) == [node |-> node_of(plan.counts, vals[s * Sc + i]), val |-> vals[s * Sc + i],
                          subnet |-> s, position |-> i - 1]
<1>2. \A s \in Subnets, i \in 1..Sc : node(s, i) \in Nodes
  <2> TAKE s \in Subnets, i \in 1..Sc
  <2>1. s + 1 \in 1..S /\ (s + 1) - 1 = s
    BY <1>0 DEF Subnets
  <2>2. node_of(plan.counts, vals[((s + 1) - 1) * Sc + i]) \in Nodes
    BY <1>1, <2>1
  <2> QED BY <2>1, <2>2
<1>3. Owed("attestation", g) = UNION {{[node |-> n, duty |-> d] : d \in views[n].AttestDuties[g]} : n \in Nodes}
  BY DEF Owed
<1>4. \A n \in Nodes : \A x : x \in views[n].AttestDuties[g] <=> \E s \in Subnets, i \in 1..Sc : n = node(s, i) /\ x = duty(s, i)
  BY <1>1
<1>5. \A s \in Subnets : committee(s, g) = [i \in 1..Sc |-> seat(s, i)]
  BY <1>1
<1>6. \A s, i : /\ seat(s, i).node = node(s, i) /\ seat(s, i).val = vals[s * Sc + i] /\ seat(s, i).position = i - 1
                /\ duty(s, i).subnet = s /\ duty(s, i).val = vals[s * Sc + i] /\ duty(s, i).position = i - 1
  OBVIOUS
<1> HIDE DEF node, duty, seat
<1>7. ASSUME NEW s \in Subnets PROVE CommitteeSize("attestation", s, g) = Sc
  <2>1. committee(s, g) = [i \in 1..Sc |-> seat(s, i)]
    BY <1>5
  <2>2. Len([i \in 1..Sc |-> seat(s, i)]) = Sc
    BY <1>0
  <2> QED BY <2>1, <2>2 DEF CommitteeSize
<1>8. ASSUME NEW s \in Subnets, NEW i \in 1..Sc
      PROVE  Identity("attestation", s, g, i - 1) = <<vals[s * Sc + i], node(s, i)>>
  <2> DEFINE refs == {r \in ToSet(committee(s, g)) : r.position = i - 1}
  <2>1. ToSet(committee(s, g)) = {seat(s, j) : j \in 1..Sc}
    BY <1>5 DEF ToSet
  <2>2. refs = {seat(s, i)}
    <3>1. \A j \in 1..Sc : seat(s, j).position = i - 1 => j = i
      BY <1>0, <1>6
    <3>2. seat(s, i) \in refs
      BY <1>6, <2>1
    <3>3. ASSUME NEW r \in refs PROVE r = seat(s, i)
      BY <2>1, <3>1
    <3> QED BY <3>2, <3>3
  <2>3. refs # {} /\ (CHOOSE x \in refs : TRUE) = seat(s, i)
    BY <2>2
  <2>4. Identity("attestation", s, g, i - 1) = <<seat(s, i).val, seat(s, i).node>>
    <3> HIDE DEF refs
    <3>1. refs = {r \in ToSet(committee(s, g)) : r.position = i - 1}
      BY DEF refs
    <3> QED BY <2>3, <3>1 DEF Identity
  <2> QED BY <1>6, <2>4
<1>9. ASSUME NEW o \in Owed("attestation", g)
      PROVE  /\ Identity("attestation", o.duty.subnet, g, o.duty.position) = <<o.duty.val, o.node>>
             /\ o.duty.position < CommitteeSize("attestation", o.duty.subnet, g)
  <2>1. PICK n \in Nodes : \E d \in views[n].AttestDuties[g] : o = [node |-> n, duty |-> d]
    BY <1>3
  <2>2. PICK s \in Subnets, i \in 1..Sc : n = node(s, i) /\ o = [node |-> n, duty |-> duty(s, i)]
    BY <1>4, <2>1
  <2>3. o.node = node(s, i) /\ o.duty.subnet = s /\ o.duty.val = vals[s * Sc + i] /\ o.duty.position = i - 1
    BY <1>6, <2>2
  <2>4. i - 1 < Sc
    BY <1>0
  <2> QED BY <1>7, <1>8, <2>3, <2>4
<1>10. ASSUME NEW s \in Subnets, NEW p \in 0..(CommitteeSize("attestation", s, g) - 1)
       PROVE  \E o \in Owed("attestation", g) : o.duty.subnet = s /\ o.duty.position = p
  <2>1. p + 1 \in 1..Sc /\ (p + 1) - 1 = p
    BY <1>0, <1>7
  <2>2. duty(s, p + 1) \in views[node(s, p + 1)].AttestDuties[g]
    BY <1>2, <1>4, <2>1
  <2>3. [node |-> node(s, p + 1), duty |-> duty(s, p + 1)] \in Owed("attestation", g)
    BY <1>2, <1>3, <2>1, <2>2
  <2> QED BY <1>6, <2>1, <2>3
<1> QED BY <1>9, <1>10

\* The positions on the wire agree, whatever was drawn.
LEMMA PositionsHold == PlanInv => PositionsAgree
<1> SUFFICES ASSUME PlanInv PROVE ResolverAgrees
  BY CellsCounted DEF PositionsAgree
<1> SUFFICES ASSUME Viewed PROVE ResolverAgrees
  BY DEF ResolverAgrees
<1>1. CASE Decoupled
  BY <1>1, FinalityResolves DEF ResolverAgrees
<1>2. CASE ~Decoupled
  BY <1>2, AttestationResolves DEF ResolverAgrees
<1> QED BY <1>1, <1>2

\* Whatever the generator draws, a position a node publishes under resolves at
\* every other node to that validator and its host, every position of a group's
\* width is owed by the vote it resolves to, and the width derived in Go is the
\* count Python carries (position.go, driver/partial.go, schedule.py).
THEOREM PositionsMeanTheSame == Spec => []PositionsAgree
BY AlwaysPlanInv, PositionsHold, PTL

-----------------------------------------------------------------------------
(* Duties.                                                                 *)

\* A validator owes a finality vote where it is hosted, in its round's groups.
LEMMA OwesWhere ==
  ASSUME PlanInv, Decoupled, NEW n \in Nodes, NEW g \in Rounds, NEW v \in Vals
  PROVE  (\E d \in views[n].FinalityVoteDuties[g] : d.val = v) <=> n = HostOf(v) /\ RowOf(v) = round(g)
<1> DEFINE Duty(u) == [subnet |-> plan.subnetOf[u], val |-> u, position |-> FinalityPosition(u)]
<1>1. \A d : d \in views[n].FinalityVoteDuties[g] <=>
               \E u \in Vals : n = HostOf(u) /\ RowOf(u) = round(g) /\ d = Duty(u)
  BY FinalityDuty
<1>2. \A u : Duty(u).val = u
  OBVIOUS
<1> HIDE DEF Duty
<1> QED BY <1>1, <1>2

\* In a finality slot, one group and one node owe a validator's vote.
LEMMA VotesOwed == PlanInv => EveryVoteOwedOnce
<1> DEFINE finalitySlots == {f \in 0..NumSlots : IF Segregated THEN (f + 1) * K <= NumSlots ELSE f \in Rounds}
           groups(f) == IF Segregated THEN (f * K)..((f + 1) * K - 1) ELSE {f}
           owing(f, v) == {ng \in Nodes \X groups(f) :
                             \E d \in views[ng[1]].FinalityVoteDuties[ng[2]] : d.val = v}
<1> SUFFICES ASSUME PlanInv, Viewed, Decoupled, NEW f \in finalitySlots, NEW v \in Vals
             PROVE  Cardinality(owing(f, v)) = 1 /\ \A ng \in owing(f, v) : ng[1] = HostOf(v)
  BY DEF EveryVoteOwedOnce
<1>0. K \in Nat \ {0} /\ NumSlots \in Nat /\ f \in Nat
  BY DrawsAssumption
<1>1. HostOf(v) \in Nodes
  BY Hosting DEF PlanInv, DrawnInv
<1>2. groups(f) \subseteq Rounds
  <2>1. CASE Segregated
    <3>1. (f + 1) * K <= NumSlots /\ f * K \in Nat /\ (f + 1) * K \in Nat
      BY <1>0, <2>1
    <3>2. rounds = NumSlots
      BY <2>1 DEF rounds
    <3> QED BY <1>0, <2>1, <3>1, <3>2 DEF Rounds
  <2>2. CASE ~Segregated
    BY <2>2
  <2> QED BY <2>1, <2>2
<1>3. PICK g \in groups(f) : \A h \in groups(f) : RowOf(v) = round(h) <=> h = g
  <2>1. CASE Segregated
    <3> DEFINE r == plan.roundOf[v]
    <3>1. r \in 0..(K - 1)
      BY <2>1 DEF PlanInv, DrawnInv
    <3>2. f * K \in Nat /\ (f + 1) * K = f * K + K
      BY <1>0
    <3> HIDE DEF r
    <3>3. f * K + r \in groups(f)
      BY <1>0, <2>1, <3>1, <3>2
    <3>4. ASSUME NEW h \in groups(f) PROVE h % K = r <=> h = f * K + r
      <4>1. PICK e \in 0..(K - 1) : h = f * K + e
        <5>1. h \in (f * K)..(f * K + K - 1)
          BY <1>0, <2>1, <3>2
        <5>2. h - f * K \in 0..(K - 1) /\ h = f * K + (h - f * K)
          BY <1>0, <3>2, <5>1
        <5> QED BY <5>2
      <4>2. f \in Int /\ f * K = K * f
        BY <1>0
      <4>3. (K * f + e) % K = e
        BY <1>0, <4>2, Remainder
      <4>4. h % K = e
        BY <4>1, <4>2, <4>3
      <4> QED BY <1>0, <3>1, <3>2, <4>1, <4>4
    <3>5. \A h : RowOf(v) = round(h) <=> h % K = r
      BY <2>1 DEF RowOf, round, r
    <3> HIDE DEF groups
    <3> QED BY <3>3, <3>4, <3>5
  <2>2. CASE ~Segregated
    BY <2>2 DEF RowOf, round
  <2> QED BY <2>1, <2>2
<1>4. owing(f, v) = {<<HostOf(v), g>>}
  <2>1. ASSUME NEW n \in Nodes, NEW h \in groups(f)
        PROVE  (\E d \in views[n].FinalityVoteDuties[h] : d.val = v) <=> n = HostOf(v) /\ h = g
    BY <1>2, <1>3, OwesWhere
  <2> HIDE DEF groups
  <2>2. ASSUME NEW ng \in owing(f, v) PROVE ng = <<HostOf(v), g>>
    <3>1. PICK n \in Nodes, h \in groups(f) : ng = <<n, h>>
      OBVIOUS
    <3> QED BY <2>1, <3>1
  <2>3. <<HostOf(v), g>> \in owing(f, v)
    BY <1>1, <2>1
  <2> QED BY <2>2, <2>3
<1> HIDE DEF owing
<1>5. Cardinality(owing(f, v)) = 1
  BY <1>4, FS_Singleton
<1>6. \A ng \in owing(f, v) : ng[1] = HostOf(v)
  BY <1>4
<1> QED BY <1>5, <1>6

\* The group an aggregator draw is for: among the rounds, and drawn in that slot.
LEMMA DrawIsFor ==
  ASSUME NEW i \in Slots, DrawsAggregators(i)
  PROVE  LET key == IF Segregated THEN i ELSE i \div K IN key \in Rounds /\ drawSlot(key) = i
<1>0. K \in Nat \ {0} /\ NumSlots \in Nat /\ i \in Nat /\ i < NumSlots
  BY DrawsAssumption DEF Slots
<1>1. CASE Segregated
  BY <1>0, <1>1 DEF Rounds, rounds, drawSlot
<1>2. CASE ~Segregated
  <2> DEFINE k == i \div K
             m == (NumSlots + K - 1) \div K
  <2>1. i % K = 0
    BY <1>2 DEF DrawsAggregators
  <2>2. k \in Nat /\ i = K * k
    BY <1>0, <2>1
  <2>3. m \in Int /\ NumSlots + K - 1 = K * m + ((NumSlots + K - 1) % K) /\ (NumSlots + K - 1) % K \in 0..(K - 1)
    BY <1>0
  <2> HIDE DEF k, m
  <2>4. NumSlots <= K * m /\ K * k < K * m
    BY <1>0, <2>2, <2>3
  <2>5. k < m
    <3> SUFFICES ASSUME m <= k PROVE FALSE
      BY <2>2, <2>3
    <3>1. K * m <= K * k
      BY <1>0, <2>2, <2>3
    <3> QED BY <1>0, <2>2, <2>3, <2>4, <3>1
  <2>6. k \in Rounds
    BY <1>2, <2>2, <2>3, <2>5 DEF Rounds, rounds, m
  <2>7. drawSlot(k) = i
    BY <1>0, <1>2, <2>2 DEF drawSlot
  <2> QED BY <1>2, <2>6, <2>7 DEF k
<1> QED BY <1>1, <1>2

\* An aggregator's draw is its host's duty, in the round it is for.
LEMMA AggregationsOwed == PlanInv => AggregatorsAssigned
<1> SUFFICES ASSUME PlanInv, Viewed, Decoupled,
                    NEW i \in {j \in Slots : Slot(j).finality_aggregators # <<>>}, NEW s \in Subnets, NEW n \in Nodes
             PROVE  LET key == IF Segregated THEN i ELSE i \div K
                    IN  /\ key \in Rounds
                        /\ (s \in views[n].FinalityAggregations[key]
                              <=> \E r \in Slot(i).finality_aggregators[s] : n = HostOf(r.val))
  BY DEF AggregatorsAssigned
<1> DEFINE key == IF Segregated THEN i ELSE i \div K
<1>1. PICK d \in SlotDraws : Slot(i) = _slot_plan(i, d)
  BY SlotIs
<1>2. DrawsAggregators(i) /\ Slot(i).finality_aggregators = [t \in Subnets |-> hosts(plan.counts, d.finAggs[t])]
  BY <1>1 DEF _slot_plan
<1>3. key \in Rounds /\ drawSlot(key) = i
  BY <1>2, DrawIsFor
<1> HIDE DEF key
<1>4. views[n].FinalityAggregations[key] = finalityAggregations(n, key)
  <2>1. views[n].FinalityAggregations = [r \in Rounds |-> finalityAggregations(n, r)]
    BY ViewIs, Zenon
  <2> QED BY <1>3, <2>1
<1>5. finalityAggregations(n, key) = {t \in Subnets : \E r \in Slot(i).finality_aggregators[t] : r.node = n}
  BY <1>3 DEF finalityAggregations
<1>6. ASSUME NEW r \in Slot(i).finality_aggregators[s] PROVE r.node = HostOf(r.val)
  <2>1. d.finAggs[s] \subseteq Vals
    BY DrawsAssumption
  <2>2. r \in hosts(plan.counts, d.finAggs[s])
    BY <1>2
  <2>3. PICK v \in d.finAggs[s] : r = [node |-> node_of(plan.counts, v), val |-> v]
    BY <2>2 DEF hosts
  <2>4. node_of(plan.counts, v) = HostOf(v)
    BY <2>1, Hosting DEF PlanInv, DrawnInv
  <2> QED BY <2>3, <2>4
<1>7. s \in views[n].FinalityAggregations[key] <=> \E r \in Slot(i).finality_aggregators[s] : n = HostOf(r.val)
  BY <1>4, <1>5, <1>6
<1> QED BY <1>3, <1>7 DEF key

\* Who is picked is a member, and somebody is.
LEMMA PickedAre ==
  ASSUME NEW members \in SUBSET Nodes, NEW order \in [Nodes -> Nat]
  PROVE  /\ picked(members, order) \subseteq members
         /\ members # {} /\ TargetAggregators > 0 => picked(members, order) # {}
<1>1. picked(members, order) \subseteq members
  BY DEF picked
<1>2. ASSUME members # {}, TargetAggregators > 0 PROVE picked(members, order) # {}
  <2> DEFINE Orders == {order[m] : m \in members}
  <2>1. Orders \subseteq Nat /\ Orders # {}
    BY <1>2
  <2>2. PICK x \in Orders : \A y \in Orders : x <= y
    BY <2>1, LeastNat, Zenon
  <2>3. PICK n \in members : x = order[n]
    BY <2>2
  <2>4. \A m \in members : order[m] \in Nat /\ order[n] <= order[m] /\ order[n] \in Nat
    BY <2>2, <2>3
  <2>5. {m \in members : order[m] < order[n]} = {}
    BY <2>4
  <2>6. n \in picked(members, order)
    BY <1>2, <2>5, FS_EmptySet DEF picked
  <2> QED BY <2>6
<1> QED BY <1>1, <1>2

\* Aggregators are members, and no subnet with members is without.
LEMMA AggregatorsMember == PlanInv => AggregatorsAreMembers
<1> SUFFICES ASSUME PlanInv, Viewed, NEW s \in Slots
             PROVE  /\ \A n \in Nodes : /\ views[n].AggregateSubnets[s] \subseteq views[n].SubscribedSubnets
                                        /\ views[n].SyncAggregateSubnets[s] \subseteq {views[n].SyncSubnet}
                    /\ \A x \in Subnets : (~Decoupled /\ plan.subnetSubscribers[x] # {} /\ TargetAggregators > 0) =>
                         \E n \in Nodes : x \in views[n].AggregateSubnets[s]
  BY DEF AggregatorsAreMembers
<1>0. S \in Nat
  BY DrawsAssumption
<1>1. PICK d \in SlotDraws : Slot(s) = _slot_plan(s, d)
  BY SlotIs
<1>2. d.order \in [Nodes -> Nat]
  BY DrawsAssumption
<1>3. ASSUME NEW n \in Nodes
      PROVE  /\ views[n].AggregateSubnets[s] = AggregateSubnets(n, s)
             /\ views[n].SyncAggregateSubnets[s] = MemberOf(Slot(s).sync_aggregators, n)
             /\ views[n].SubscribedSubnets = MemberOf(plan.subnetSubscribers, n)
             /\ views[n].SyncSubnet = FirstOf(MemberOf(plan.syncSubscribers, n))
  <2>1. /\ views[n].AggregateSubnets = [t \in Slots |-> AggregateSubnets(n, t)]
        /\ views[n].SyncAggregateSubnets = [t \in Slots |-> MemberOf(Slot(t).sync_aggregators, n)]
        /\ views[n].SubscribedSubnets = MemberOf(plan.subnetSubscribers, n)
        /\ views[n].SyncSubnet = FirstOf(MemberOf(plan.syncSubscribers, n))
    BY ViewIs, Zenon
  <2> QED BY <2>1
<1>4. CASE Decoupled
  <2>1. Slot(s).aggregators = <<>> /\ Slot(s).sync_aggregators = <<>>
    BY <1>1, <1>4 DEF _slot_plan
  <2>2. \A n : AggregateSubnets(n, s) = {} /\ MemberOf(Slot(s).sync_aggregators, n) = {}
    BY <2>1 DEF AggregateSubnets, MemberOf
  <2> QED BY <1>3, <1>4, <2>2
<1>5. CASE ~Decoupled
  <2>1. /\ Slot(s).subnet_of = [c \in 1..S |-> c - 1]
        /\ Slot(s).aggregators = [c \in 1..S |-> picked(plan.subnetSubscribers[c - 1], d.order)]
        /\ Slot(s).sync_aggregators = [t \in Subnets |-> picked(plan.syncSubscribers[t], d.order)]
    BY <1>1, <1>5 DEF _slot_plan
  <2>2. /\ plan.subnetSubscribers \in [Subnets -> SUBSET Nodes]
        /\ plan.syncSubscribers \in [Subnets -> SUBSET Nodes]
        /\ \A t, u \in Subnets : t # u => plan.syncSubscribers[t] \cap plan.syncSubscribers[u] = {}
    BY <1>5 DEF PlanInv, DrawnInv
  <2>3. ASSUME NEW n \in Nodes, NEW x
        PROVE  x \in AggregateSubnets(n, s) <=> x \in Subnets /\ n \in picked(plan.subnetSubscribers[x], d.order)
    <3>1. x \in AggregateSubnets(n, s) <=> \E c \in 1..S : n \in picked(plan.subnetSubscribers[c - 1], d.order) /\ x = c - 1
      BY <2>1 DEF AggregateSubnets
    <3>2. x \in Subnets => x + 1 \in 1..S /\ (x + 1) - 1 = x
      BY <1>0 DEF Subnets
    <3>3. \A c \in 1..S : c - 1 \in Subnets
      BY <1>0 DEF Subnets
    <3> QED BY <3>1, <3>2, <3>3
  <2>4. \A t \in Subnets : picked(plan.subnetSubscribers[t], d.order) \subseteq plan.subnetSubscribers[t]
                        /\ picked(plan.syncSubscribers[t], d.order) \subseteq plan.syncSubscribers[t]
    BY <1>2, <2>2, PickedAre
  <2>5. ASSUME NEW n \in Nodes PROVE views[n].AggregateSubnets[s] \subseteq views[n].SubscribedSubnets
    <3>1. AggregateSubnets(n, s) \subseteq MemberOf(plan.subnetSubscribers, n)
      BY <2>2, <2>3, <2>4 DEF MemberOf
    <3> QED BY <1>3, <3>1
  <2>6. ASSUME NEW n \in Nodes PROVE views[n].SyncAggregateSubnets[s] \subseteq {views[n].SyncSubnet}
    <3> SUFFICES ASSUME NEW t \in MemberOf(Slot(s).sync_aggregators, n)
                 PROVE  t = FirstOf(MemberOf(plan.syncSubscribers, n))
      BY <1>3
    <3>1. t \in Subnets /\ n \in picked(plan.syncSubscribers[t], d.order)
      BY <2>1 DEF MemberOf
    <3>2. MemberOf(plan.syncSubscribers, n) = {t}
      BY <2>2, <2>4, <3>1 DEF MemberOf
    <3>3. Min({t}) = t
      BY <1>0, <3>1 DEF Min, Subnets
    <3> QED BY <3>2, <3>3 DEF FirstOf
  <2>7. ASSUME NEW x \in Subnets, plan.subnetSubscribers[x] # {}, TargetAggregators > 0
        PROVE  \E n \in Nodes : x \in views[n].AggregateSubnets[s]
    <3>1. picked(plan.subnetSubscribers[x], d.order) # {} /\ plan.subnetSubscribers[x] \subseteq Nodes
      BY <1>2, <2>2, <2>7, PickedAre
    <3>2. PICK n \in Nodes : n \in picked(plan.subnetSubscribers[x], d.order)
      BY <2>4, <3>1
    <3> QED BY <1>3, <2>3, <3>2
  <2> QED BY <2>5, <2>6, <2>7
<1> QED BY <1>4, <1>5

\* Each slot has one proposer, of the backbone.
LEMMA ProposersHold == PlanInv => ProposerHoldsColumns
<1> SUFFICES ASSUME PlanInv, Viewed PROVE ProposerHoldsColumns
  BY DEF ProposerHoldsColumns
<1> DEFINE full == plan.fullCustody
<1>0. N \in Nat \ {0} /\ NumSlots \in Nat
  BY DrawsAssumption
<1>1. full \subseteq Nodes /\ full # {} /\ Nodes \subseteq Nat
  BY <1>0 DEF PlanInv, DrawnInv, Nodes
<1>2. full \in SUBSET Nat /\ IsFiniteSet(full) /\ Cardinality(full) \in Nat \ {0}
  <2>1. IsFiniteSet(Nodes)
    BY <1>0, FS_Interval DEF Nodes
  <2>2. IsFiniteSet(full)
    BY <1>1, <2>1, FS_Subset
  <2> QED BY <1>1, <2>2, FS_CardinalityType, FS_EmptySet
<1>3. ASSUME NEW s \in Slots PROVE Slot(s).proposer \in full
  <2>1. PICK d \in SlotDraws : Slot(s) = _slot_plan(s, d)
    BY SlotIs
  <2>2. Slot(s).proposer = Nth(full, s % Cardinality(full))
    BY <2>1 DEF _slot_plan
  <2> DEFINE m == Cardinality(full)
  <2>3. m \in Nat \ {0} /\ s \in Nat
    BY <1>0, <1>2 DEF Slots
  <2> HIDE DEF m
  <2>4. s % m \in 0..(m - 1)
    BY <2>3
  <2> HIDE DEF full
  <2>5. \A p \in 0..(m - 1) : Nth(full, p) \in full
    BY <1>2, RanksAre DEF m
  <2> QED BY <2>2, <2>4, <2>5 DEF m
<1>4. ASSUME NEW n \in Nodes, NEW s \in Slots PROVE views[n].Proposes[s] <=> n = Slot(s).proposer
  <2>1. views[n].Proposes = [t \in Slots |-> Slot(t).proposer = n]
    BY ViewIs, Zenon
  <2> QED BY <2>1, Zenon
<1>5. ASSUME NEW n \in Nodes PROVE views[n].CustodyColumns = CustodyColumns(n)
  BY ViewIs, Zenon
<1>6. ASSUME NEW s \in Slots PROVE Cardinality({n \in Nodes : views[n].Proposes[s]}) = 1
  <2>1. Slot(s).proposer \in Nodes
    BY <1>1, <1>3
  <2>2. {n \in Nodes : views[n].Proposes[s]} = {Slot(s).proposer}
    BY <1>4, <2>1, Zenon
  <2> QED BY <2>2, FS_Singleton, Zenon
<1>7. ASSUME NEW s \in Slots, NEW n \in Nodes, views[n].Proposes[s] PROVE views[n].CustodyColumns = Columns
  <2>0. n = Slot(s).proposer
    BY <1>4, <1>7, Zenon
  <2>1. n \in full
    BY <1>3, <2>0
  <2> QED BY <1>5, <2>1, Zenon DEF CustodyColumns
<1>8. ASSUME NEW n \in Nodes, NEW c \in Columns PROVE c \in views[n].CustodyColumns <=> n \in plan.columnSubscribers[c]
  <2>1. full \subseteq plan.columnSubscribers[c]
    BY DEF PlanInv, DrawnInv
  <2>2. c \in CustodyColumns(n) <=> n \in plan.columnSubscribers[c]
    BY <2>1 DEF CustodyColumns
  <2> QED BY <1>5, <2>2
<1> QED BY <1>6, <1>7, <1>8, Zenon DEF ProposerHoldsColumns

\* Whatever the generator draws, every validator's finality vote is owed once in
\* every finality slot, by its host; every aggregation is its host's duty in the
\* round it was drawn for; aggregators are members; and each slot's one proposer
\* custodies every column (schedule.py, schedule.go).
THEOREM DutiesAreSharedOut == Spec => []DutiesSharedOut
<1>1. PlanInv => DutiesSharedOut
  BY VotesOwed, AggregationsOwed, AggregatorsMember, ProposersHold DEF DutiesSharedOut
<1> QED BY AlwaysPlanInv, <1>1, PTL

=============================================================================
