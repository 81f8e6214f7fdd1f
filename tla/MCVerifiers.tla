---------------------------- MODULE MCVerifiers ----------------------------
(***************************************************************************)
(* The two verifiers of a node for TLC, one or the other: the batched one  *)
(* with four items, one of them over the cap, and the column verifier with *)
(* six columns over six ticks and a width that is unset, two or three.     *)
(***************************************************************************)
EXTENDS Verifiers

MCItems == 1..4
MCAtts == <<1, 1, 3, 1>>

MCWidths == {0, 2, 3}

VARIABLE part

\* The verifier that is not looked at stays as it was made.
MCInit ==
  /\ part \in {"batch", "column"} /\ Init
  /\ Col!Init /\ (part = "batch" => width = 1)

Batches == part = "batch" /\ Next /\ UNCHANGED <<part, colVars>>
Columns == part = "column" /\ Col!Next /\ UNCHANGED <<part, vars>>

MCSpec ==
  /\ MCInit /\ [][Batches \/ Columns]_<<part, vars, colVars>>
  /\ WF_vars(part = "batch" /\ run) /\ WF_vars(part = "batch" /\ Tick)
  /\ WF_vars(part = "batch" /\ stopReturn)
============================================================================
