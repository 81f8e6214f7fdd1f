----------------------------- MODULE VoteFlood -----------------------------
(***************************************************************************)
(* What the partial transport promises for one group of votes: a vote      *)
(* enters where it is published, spreads from a member that has verified   *)
(* it (or from its publisher's fan-out) to a connected member, and a       *)
(* member learns it once.  No buckets, caps, requests, RPCs or verifiers.  *)
(* PartialNetwork implements it (AllFlood of MCPartialNetwork).            *)
(***************************************************************************)
CONSTANTS
  Members,  \* the subscribers of the topic
  Votes,
  Owner,    \* Owner[v]: the node that publishes v, a member or not
  Links     \* pairs <<m, n>> of connected nodes

VARIABLES
  published,
  known     \* member -> the votes it has verified

vars == <<published, known>>

Init == published = {} /\ known = [n \in Members |-> {}]

\* A node publishes some of its votes: one, or a whole fan-out batch.
Publish(vs) ==
  /\ vs # {} /\ vs \cap published = {} /\ \A v, w \in vs : Owner[v] = Owner[w]
  /\ published' = published \cup vs
  /\ known' = [n \in Members |-> known[n] \cup {v \in vs : Owner[v] = n}]

\* Whether n can hear v from a neighbour.
Heard(n, v) ==
  \/ v \in published /\ <<Owner[v], n>> \in Links
  \/ \E m \in Members : <<m, n>> \in Links /\ v \in known[m]

Learn(n, vs) ==
  /\ vs # {} /\ vs \cap known[n] = {}
  /\ \A v \in vs : Heard(n, v)
  /\ known' = [known EXCEPT ![n] = @ \cup vs]
  /\ UNCHANGED published

Next == \E vs \in SUBSET Votes : Publish(vs) \/ \E n \in Members : Learn(n, vs)

Safety == Init /\ [][Next]_vars
============================================================================
