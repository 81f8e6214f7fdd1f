------------------------------- MODULE MCPlan -------------------------------
(***************************************************************************)
(* What is drawn before a run, for TLC, one or the other: the plan of      *)
(* duties of three nodes, four validators and three slots, and the peer    *)
(* graph of five nodes with two subnets and two finality subnets.          *)
(***************************************************************************)
EXTENDS Plan

\* Uniform hosting, and counts with a node that hosts none or nearly all.
MCCounts == {<<>>, <<1, 2, 1>>, <<0, 1, 3>>}
On(a, b) == [s \in 0..1 |-> IF s = 0 THEN a ELSE b]
\* A backbone of one node or of two; the others draw one column.
MCMemberships ==
  {[full |-> {0}, cols |-> [n \in 0..2 |-> {n % 2}],
    subs |-> On({0, 1}, {1, 2}), sync |-> On({2}, {0}), fin |-> On({1}, {0, 2})],
   [full |-> {0, 2}, cols |-> [n \in 0..2 |-> {1}],
    subs |-> On({2}, {0, 1, 2}), sync |-> On({}, {1, 2}), fin |-> On({0, 1, 2}, {})]}
Ranks(a, b, c) == [n \in 0..2 |-> IF n = 0 THEN a ELSE IF n = 1 THEN b ELSE c]
MCSlotDraws ==
  {[vals |-> <<0, 1, 2, 3>>, flat |-> {0, 3}, order |-> Ranks(1, 2, 3), finAggs |-> On({0}, {1})],
   [vals |-> <<3, 0, 2, 1>>, flat |-> {2}, order |-> Ranks(2, 3, 1), finAggs |-> On({0, 3}, {2, 3})],
   [vals |-> <<2, 3, 1, 0>>, flat |-> {0, 1}, order |-> Ranks(3, 1, 2), finAggs |-> On({2, 1}, {0})]}

\* A subnet whose members no tree over all nodes need link, finality subnets.
MCGroups == << <<3, 0>>, <<4, 1, 2>> >>
MCFinalityGroups == << <<1, 2, 3>>, <<0, 4>> >>

VARIABLE part

\* What is not looked at stays as it starts.
MCInit ==
  /\ part \in {"plan", "graph"} /\ Graph!Init
  /\ part = "plan" => Init /\ shape = "ring"
  /\ part = "graph" => mode = "base" /\ plan = [slots |-> <<>>]

Plans == part = "plan" /\ Next /\ UNCHANGED <<part, graphVars>>
Graphs == part = "graph" /\ Graph!Next /\ UNCHANGED <<part, vars>>

MCSpec == MCInit /\ [][Plans \/ Graphs]_<<part, vars, graphVars>>
=============================================================================
