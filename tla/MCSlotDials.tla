---------------------------- MODULE MCSlotDials ----------------------------
(* Instances of SlotDials for TLC: three slots, with peers dialed twice. *)
EXTENDS SlotDials

MCDials == [s \in 0..2 |-> IF s = 0 THEN {"p", "q"} ELSE IF s = 1 THEN {"q"} ELSE {"p"}]
============================================================================
