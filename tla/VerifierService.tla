-------------------------- MODULE VerifierService --------------------------
(***************************************************************************)
(* What a batched verifier promises its callers, without queue, windows,   *)
(* batches or wake-ups: items are called back one by one in the order they *)
(* were submitted, everything submitted before stop() is called back       *)
(* before stop() returns, and nothing is called back afterwards.           *)
(* BatchVerifier implements it (BatchVerifier!ImplementsService).          *)
(***************************************************************************)
EXTENDS Naturals, Sequences

CONSTANT Items

VARIABLES
  submitted,  \* the items, in the order of their submission
  called,     \* the items called back, in the order of their callbacks
  service,    \* "none" before stop(), "waiting" while it waits, "returned"
  promised    \* how many items were submitted before stop()

vars == <<submitted, called, service, promised>>

Init == submitted = <<>> /\ called = <<>> /\ service = "none" /\ promised = 0

Submit(i) ==
  /\ submitted' = Append(submitted, i)
  /\ UNCHANGED <<called, service, promised>>

Callback ==
  /\ service # "returned"
  /\ Len(called) < Len(submitted)
  /\ called' = Append(called, submitted[Len(called) + 1])
  /\ UNCHANGED <<submitted, service, promised>>

Stop ==
  /\ service = "none"
  /\ service' = "waiting" /\ promised' = Len(submitted)
  /\ UNCHANGED <<submitted, called>>

Return ==
  /\ service = "waiting" /\ Len(called) >= promised
  /\ service' = "returned"
  /\ UNCHANGED <<submitted, called, promised>>

Next == (\E i \in Items : Submit(i)) \/ Callback \/ Stop \/ Return

Safety == Init /\ [][Next]_vars

\* A callback is owed to every item until stop(), and to the promised ones.
Owed == service = "none" \/ Len(called) < promised

Spec == Safety /\ WF_vars(Callback /\ Owed) /\ WF_vars(Return)
============================================================================
