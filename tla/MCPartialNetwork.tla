-------------------------- MODULE MCPartialNetwork --------------------------
(***************************************************************************)
(* PartialNetwork for TLC in two scenarios, one or the other: members 1, 2 *)
(* and 3 in a line with a publisher 4 outside, and in a full mesh where    *)
(* one RPC is lost.                                                        *)
(***************************************************************************)
EXTENDS PartialNetwork

Both(pairs) == pairs \cup {<<l[2], l[1]>> : l \in pairs}
Triangle == Both({<<1, 2>>, <<2, 3>>, <<1, 3>>})
Line == Both({<<1, 2>>, <<2, 3>>})
Ends == Both({<<1, 3>>})
Dialed == {<<4, 2>>}

\* Both orders of a member's two neighbours; the publisher outside is never served.
UpDown == {[p \in 1..4 |-> p], [p \in 1..4 |-> 5 - p]}

\* Vote 0 of the middle member, vote 1 from outside.
MiddleAndOutside == [pos \in 0..1 |-> IF pos = 0 THEN 2 ELSE 4]

\* Lossy: every member pushes to both others, so the order is of no account.
FirstAndSecond == [pos \in 0..1 |-> pos + 1]
Upward == {[p \in 1..3 |-> p]}

Lossy == INSTANCE PartialNetwork
           WITH Peers <- 1..3, RequestsPartial <- 1..3, MaxPeers <- 2, MeshLinks <- Triangle,
                GossipLinks <- {}, FanoutLinks <- {}, Owner <- FirstAndSecond,
                ServeOrders <- Upward, MaxLoss <- 1

VARIABLE part

MCInit == (part = "line" /\ Init) \/ (part = "lossy" /\ Lossy!Init)

InLine == part = "line" /\ Next /\ UNCHANGED part
WithLoss == part = "lossy" /\ Lossy!Next /\ UNCHANGED part

MCSpec ==
  /\ MCInit /\ [][InLine \/ WithLoss]_<<part, vars>>
  /\ \A n \in Members : /\ WF_vars((part = "line" /\ tick(n)) \/ (part = "lossy" /\ Lossy!tick(n)))
                         /\ WF_vars(markValidated(n))
  /\ \A l \in Links \cup Lossy!Links :
       /\ WF_vars((part = "line" /\ l \in Links /\ onIncomingRPC(l))
                  \/ (part = "lossy" /\ l \in Lossy!Links /\ Lossy!onIncomingRPC(l)))
       /\ WF_vars(part = "line" /\ onEmitGossip(l))

FloodStep ==
  \/ part = "line" /\ [Flood!Next]_(Flood!vars)
  \/ part = "lossy" /\ [Lossy!Flood!Next]_(Lossy!Flood!vars)

\* In both scenarios the managers (node/partial.go) implement VoteFlood: a member
\* learns a vote only from a neighbour that had verified or published it, and
\* only once, although pushes cross, requests race them and an RPC is lost.
AllFlood == Flood!Init /\ [][FloodStep]_vars
============================================================================
