----------------------------- MODULE MCSlotVote -----------------------------
(* Instances of SlotVote for TLC. *)
EXTENDS SlotVote

MCColumns == {"c1", "c2"}

Role(vote, sync, epbs, own, dials, warmup, custody, duties) ==
  [vote |-> vote, sync |-> sync, epbs |-> epbs, own |-> own, dials |-> dials,
   warmup |-> warmup, custody |-> custody, fixed |-> duties]

\* Every combination of phases and duties.
MCRoles == AllRoles

\* The role a tie at the deadline needs.
MCAttester == {Role("attest", TRUE, FALSE, FALSE, FALSE, FALSE, {}, {})}
============================================================================
