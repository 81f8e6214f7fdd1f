--------------------------- MODULE BatchVerifier ---------------------------
(***************************************************************************)
(* The batched verifier of a node (node/verifier.go): submitters push      *)
(* items into a locked queue, one run loop cuts a batch off the front once *)
(* per window, sleeps for its verification and calls the items' callbacks, *)
(* and stop() asks the loop to drain the queue and waits for it to exit.   *)
(*                                                                         *)
(* A step is one critical section of v.mu or one channel operation.  Time  *)
(* is counted in ticks only as far as the batch window needs it; the       *)
(* verification sleep may last any number of ticks.                        *)
(***************************************************************************)
EXTENDS Integers, Sequences

CONSTANTS
  Items,          \* the calls of submit, each made at most once
  Atts,           \* Atts[i]: how many attestations item i carries
  MaxBatchItems,  \* maxBatchItems: attestations per batch, 0 = uncapped
  BatchWindow     \* batchWindow, in ticks

\* registerVerifyHook submits one attestation, the partial manager at least
\* one fresh position; batchVerifierFor replaces a window <= 0 by a default.
ASSUME ConstantsAssumption ==
  /\ Atts \in [Items -> Nat \ {0}]
  /\ MaxBatchItems \in Nat
  /\ BatchWindow \in Nat \ {0}

VARIABLES
  queue,         \* v.queue, guarded by v.mu
  notify,        \* v.notify holds its one token
  stopped,       \* v.stopped, guarded by v.mu
  pc,            \* where run() stands
  timer,         \* the window timer: "idle", "armed", or "fired" with timer.C ready
  timerLeft,     \* ticks until an armed timer fires
  timerRunning,  \* run()'s local flag: the window is open
  batch,         \* the items of the batch being verified, not yet called back
  stopCall,      \* the call of stop(): "none", "waiting" on v.done, "returned"
  submitted,     \* history: every item in the order submit() took the lock
  verified,      \* history: every item in the order of its callback
  atStop,        \* history: how many items were submitted before stop()
  sinceCut       \* history: ticks since the last batch was cut, saturating

vars == <<queue, notify, stopped, pc, timer, timerLeft, timerRunning, batch,
          stopCall, submitted, verified, atStop, sinceCut>>

runVars == <<pc, timer, timerLeft, timerRunning, batch, verified, sinceCut>>

Init ==
  /\ queue = <<>> /\ notify = FALSE /\ stopped = FALSE
  /\ pc = "select"
  /\ timer = "idle" /\ timerLeft = 0 /\ timerRunning = FALSE
  /\ batch = <<>>
  /\ stopCall = "none"
  /\ submitted = <<>> /\ verified = <<>> /\ atStop = 0
  /\ sinceCut = BatchWindow

----------------------------------------------------------------------------
(* The items of q up to each position, and where the next batch ends.      *)

\* AttsUpTo(q)[n]: attestations in the first n items of q.
AttsUpTo(q) ==
  LET sum[n \in 0..Len(q)] == IF n = 0 THEN 0 ELSE sum[n - 1] + Atts[q[n]]
  IN  sum

\* Mutant: the cap is compared before the item's attestations are added.
CutPoints_CheckedEarly(q) == {n \in 1..(Len(q) - 1) : AttsUpTo(q)[n] > MaxBatchItems}

\* The positions after which the next item would take the batch over the cap.
CutPoints(q) == {n \in 1..(Len(q) - 1) : AttsUpTo(q)[n + 1] > MaxBatchItems}

batchEnd(q) ==
  IF MaxBatchItems = 0 \/ CutPoints(q) = {}
  THEN Len(q)
  ELSE CHOOSE n \in CutPoints(q) : \A m \in CutPoints(q) : n <= m

----------------------------------------------------------------------------
(* The callers.                                                            *)

\* Mutant: no signal.
submit_Silent(i) ==
  /\ \A n \in 1..Len(submitted) : submitted[n] # i
  /\ queue' = Append(queue, i)
  /\ submitted' = Append(submitted, i)
  /\ UNCHANGED <<notify, stopped, stopCall, atStop, runVars>>

\* submit: append under the lock and signal without blocking.  Nothing looks
\* at stopped here, nor at whether run() has already returned.
submit(i) ==
  /\ \A n \in 1..Len(submitted) : submitted[n] # i
  /\ queue' = Append(queue, i)
  /\ notify' = TRUE
  /\ submitted' = Append(submitted, i)
  /\ UNCHANGED <<stopped, stopCall, atStop, runVars>>

\* stop, up to its wait for v.done.
stop ==
  /\ stopCall = "none"
  /\ stopped' = TRUE
  /\ notify' = TRUE
  /\ stopCall' = "waiting"
  /\ atStop' = Len(submitted)
  /\ UNCHANGED <<queue, submitted, runVars>>

\* stop returns once run() closed v.done.
stopReturn ==
  /\ stopCall = "waiting" /\ pc = "exited"
  /\ stopCall' = "returned"
  /\ UNCHANGED <<queue, notify, stopped, submitted, atStop, runVars>>

----------------------------------------------------------------------------
(* The run loop.                                                           *)

\* The select: a token from notify ...
recvNotify ==
  /\ pc = "select" /\ notify
  /\ notify' = FALSE
  /\ pc' = "locked"
  /\ UNCHANGED <<queue, stopped, timer, timerLeft, timerRunning, batch,
                 stopCall, submitted, verified, atStop, sinceCut>>

\* ... or the window timer, which closes the window.
recvTimer ==
  /\ pc = "select" /\ timer = "fired"
  /\ timer' = "idle" /\ timerRunning' = FALSE
  /\ pc' = "locked"
  /\ UNCHANGED <<queue, notify, stopped, timerLeft, batch, stopCall,
                 submitted, verified, atStop, sinceCut>>

\* The first critical section, after notify is emptied.  With the window open
\* the loop goes back to accumulate; with nothing queued it goes back, or
\* exits when stopped; otherwise it cuts a batch and opens the next window
\* (Reset discards an unread firing, as of Go 1.23).
Accumulating_Never == FALSE \* mutant: a token alone starts the next batch

Accumulating == timerRunning /\ ~stopped

WindowStillOpen ==
  /\ Accumulating
  /\ pc' = "select"
  /\ UNCHANGED <<queue, timer, timerLeft, timerRunning, batch, sinceCut>>

NothingQueued ==
  /\ ~Accumulating
  /\ queue = <<>>
  /\ pc' = IF stopped THEN "exited" ELSE "select"
  /\ UNCHANGED <<queue, timer, timerLeft, timerRunning, batch, sinceCut>>

CutBatch ==
  /\ ~Accumulating
  /\ queue # <<>>
  /\ batch' = SubSeq(queue, 1, batchEnd(queue))
  /\ queue' = SubSeq(queue, batchEnd(queue) + 1, Len(queue))
  /\ timer' = "armed" /\ timerLeft' = BatchWindow /\ timerRunning' = TRUE
  /\ sinceCut' = 0
  /\ pc' = "verify"

drain ==
  /\ pc = "locked"
  /\ notify' = FALSE
  /\ WindowStillOpen \/ NothingQueued \/ CutBatch
  /\ UNCHANGED <<stopped, stopCall, submitted, verified, atStop>>

\* verifyBatch, after its sleep: the callbacks, one after the other.
verifyBatch ==
  /\ pc = "verify" /\ batch # <<>>
  /\ verified' = Append(verified, Head(batch))
  /\ batch' = Tail(batch)
  /\ UNCHANGED <<queue, notify, stopped, pc, timer, timerLeft, timerRunning,
                 stopCall, submitted, atStop, sinceCut>>

\* Mutant: a capped leftover is abandoned.
afterBatch_Abandons ==
  /\ pc = "verify" /\ batch = <<>>
  /\ pc' = IF stopped THEN "exited" ELSE "select"
  /\ UNCHANGED <<queue, notify, stopped, timer, timerLeft, timerRunning, batch,
                 stopCall, submitted, verified, atStop, sinceCut>>

\* The second critical section: when stopped, exit if drained, else signal
\* itself so that the select does not wait for the window.
afterBatch ==
  /\ pc = "verify" /\ batch = <<>>
  /\ pc' = IF stopped /\ queue = <<>> THEN "exited" ELSE "select"
  /\ notify' = (notify \/ (stopped /\ queue # <<>>))
  /\ UNCHANGED <<queue, stopped, timer, timerLeft, timerRunning, batch,
                 stopCall, submitted, verified, atStop, sinceCut>>

\* Time passes; an armed timer fires when its window is over.
Tick ==
  /\ timer = "armed" \/ sinceCut < BatchWindow
  /\ timerLeft' = IF timer = "armed" THEN timerLeft - 1 ELSE timerLeft
  /\ timer' = IF timer = "armed" /\ timerLeft = 1 THEN "fired" ELSE timer
  /\ sinceCut' = IF sinceCut < BatchWindow THEN sinceCut + 1 ELSE sinceCut
  /\ UNCHANGED <<queue, notify, stopped, pc, timerRunning, batch, stopCall,
                 submitted, verified, atStop>>

run == recvNotify \/ recvTimer \/ drain \/ verifyBatch \/ afterBatch

Next ==
  \/ \E i \in Items : submit(i)
  \/ stop \/ stopReturn
  \/ run
  \/ Tick

Safety == Init /\ [][Next]_vars

\* The run goroutine is scheduled, sleeps end, time passes, and a closed
\* channel wakes its receiver.  Nobody has to submit or to stop.
Fairness == WF_vars(run) /\ WF_vars(Tick) /\ WF_vars(stopReturn)

Spec == Safety /\ Fairness

----------------------------------------------------------------------------
TypeOK ==
  /\ queue \in Seq(Items) /\ batch \in Seq(Items)
  /\ submitted \in Seq(Items) /\ verified \in Seq(Items)
  /\ notify \in BOOLEAN /\ stopped \in BOOLEAN /\ timerRunning \in BOOLEAN
  /\ pc \in {"select", "locked", "verify", "exited"}
  /\ timer \in {"idle", "armed", "fired"}
  /\ timerLeft \in 0..BatchWindow /\ sinceCut \in 0..BatchWindow
  /\ stopCall \in {"none", "waiting", "returned"}
  /\ atStop \in Nat

\* Every submitted item is in exactly one place - called back, in the batch
\* under verification, or queued - and the three together are the submissions
\* in order: the verifier neither loses, repeats nor reorders an item, however
\* submits interleave with the cuts of run().
Conservation == submitted = verified \o batch \o queue

\* Lost wake-up freedom: whenever run() is parked in its select with items
\* queued, a token or the window timer is there to wake it (the non-blocking
\* signals of submit, stop and the drained notify add up).
NoLostWakeup ==
  pc = "select" /\ queue # <<>> => notify \/ (timerRunning /\ timer # "idle")

\* A stopped verifier never parks on the window: with stop() called and the
\* loop in its select, a token is waiting ("stopped drains run back-to-back").
StoppedNeverParks == pc = "select" /\ stopped => notify

\* When run() has returned, everything submitted before stop() was called
\* back, capped leftovers included.
DrainedOnExit == pc = "exited" => stopped /\ Len(verified) >= atStop

\* A cut batch holds more than MaxBatchItems attestations only when it is one
\* single item, and it never stops early: the first item left behind would
\* have taken it over the cap.
BatchIsMaximal(b, q) ==
  LET total == AttsUpTo(b)[Len(b)]
  IN  /\ MaxBatchItems = 0 => q = <<>>
      /\ MaxBatchItems > 0 => /\ Len(b) > 1 => total <= MaxBatchItems
                              /\ q # <<>> => total + Atts[Head(q)] > MaxBatchItems

BatchesMaximal == [][batch = <<>> /\ batch' # <<>> => BatchIsMaximal(batch', queue')]_vars

\* Until stop() is called, two batches are cut at least a batch window apart,
\* although notify, an unread firing and a sleep longer than the window may
\* all be pending at once ("throughput is bounded at maxBatchItems per window").
WindowSpacing ==
  [][batch = <<>> /\ batch' # <<>> /\ ~stopped => sinceCut = BatchWindow]_vars

\* The callers see the abstract service: the queue, the cap, the windows and the
\* signals implement in-order callbacks, the drain that stop() waits for, and
\* (with the loop's fairness) every callback owed and the return of stop().
Service == INSTANCE VerifierService
             WITH called <- verified, service <- stopCall, promised <- atStop

ImplementsService == Service!Spec

============================================================================
