---------------------------- MODULE MCNodeTopics ----------------------------
(* Instances of NodeTopics for TLC: a batched topic and a partial one. *)
EXTENDS NodeTopics

MCClassOf == [att |-> "consensus", vote |-> "fcvote"]
MCTopicOf == [m \in Msgs |-> IF m = "m1" THEN "att" ELSE "vote"]
============================================================================
