-------------------------- MODULE MCFinalityRounds --------------------------
(* Instances of FinalityRounds for TLC: three rounds on one foreign topic. *)
EXTENDS FinalityRounds

\* Base chain, k = 2 at 50 %: a drop and the next pre-join share an instant.
Base ==
  [segregated |-> FALSE, hasAggs |-> TRUE, slotDur |-> 2, voteOffset |-> 1,
   aggOffset |-> 2, sealOffset |-> 2,
   dialed |-> [n \in 0..2 |-> IF n = 1 THEN {"p"} ELSE {"p", "q"}],
   subscribed |-> [n \in 0..2 |-> {"t"}], aggregates |-> [n \in 0..2 |-> TRUE]]

\* Segregated: a round per slot, of which the seal falls into the next.
SubRounds ==
  [Base EXCEPT !.segregated = TRUE, !.slotDur = 4, !.aggOffset = 3, !.sealOffset = 5]

\* No aggregation: nobody but the reap drops a round.
NoAggs ==
  [SubRounds EXCEPT !.hasAggs = FALSE, !.subscribed = [n \in 0..2 |-> {}],
                    !.aggregates = [n \in 0..2 |-> FALSE]]

MCChains == {Base, SubRounds, NoAggs}
=============================================================================
