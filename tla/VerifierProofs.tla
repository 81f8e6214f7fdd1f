--------------------------- MODULE VerifierProofs ---------------------------
(***************************************************************************)
(* The safety properties of the two verifiers of a node: of BatchVerifier, *)
(* for every set of items, every cap and every window, and of              *)
(* ColumnVerifier, for every width, service time and number of columns.    *)
(***************************************************************************)
EXTENDS Verifiers, SequenceTheorems, FiniteSetTheorems, WellFoundedInduction, TLAPS

\* What the window timer, run()'s local flag and the clock agree on.
WindowInv ==
  /\ timerRunning <=> timer # "idle"
  /\ timer = "armed" => timerLeft >= 1 /\ timerLeft = BatchWindow - sinceCut
  /\ timer # "armed" => sinceCut = BatchWindow
  /\ pc = "verify" => timerRunning

\* What the loop's position and the stop call say of the queues.
LoopInv ==
  /\ pc # "verify" => batch = <<>>
  /\ stopped <=> stopCall # "none"
  /\ atStop <= Len(submitted)
  /\ stopCall = "returned" => pc = "exited"

\* The inductive invariant.
IInv ==
  /\ TypeOK /\ WindowInv /\ LoopInv
  /\ Conservation /\ NoLostWakeup /\ StoppedNeverParks /\ DrainedOnExit

----------------------------------------------------------------------------
\* A nonempty set of naturals has a least element.
LEMMA LeastNatural ==
  ASSUME NEW T, T \subseteq Nat, T # {}
  PROVE  \E n \in T : \A m \in T : n <= m
<1>1. PICK n \in T : \A m \in T : ~ (<<m, n>> \in OpToRel(<, Nat))
  BY NatLessThanWellFounded, WFMin, Zenon
<1>2. ASSUME NEW m \in T PROVE n <= m
  <2>1. ~ (<<m, n>> \in OpToRel(<, Nat))
    BY <1>1
  <2>2. m \in Nat /\ n \in Nat
    OBVIOUS
  <2>3. ~ (m < n)
    BY <2>1, <2>2 DEF OpToRel
  <2> QED BY <2>2, <2>3
<1> QED BY <1>1, <1>2

\* batchEnd takes at least one item off a nonempty queue and never more than
\* there are ("always at least one").
LEMMA BatchEndInRange ==
  ASSUME NEW q \in Seq(Items), q # <<>>
  PROVE  batchEnd(q) \in 1..Len(q)
<1>1. Len(q) \in Nat /\ Len(q) >= 1
  BY EmptySeq, LenProperties
<1>2. CutPoints(q) \subseteq 1..(Len(q) - 1)
  BY DEF CutPoints
<1>3. CASE MaxBatchItems = 0 \/ CutPoints(q) = {}
  BY <1>1, <1>3 DEF batchEnd
<1>4. CASE ~(MaxBatchItems = 0 \/ CutPoints(q) = {})
  <2>1. CutPoints(q) \subseteq Nat /\ CutPoints(q) # {}
    BY <1>1, <1>2, <1>4
  <2>2. \E n \in CutPoints(q) : \A m \in CutPoints(q) : n <= m
    BY <2>1, LeastNatural, Zenon
  <2>3. batchEnd(q) \in CutPoints(q)
    BY <1>4, <2>2 DEF batchEnd
  <2> QED BY <1>1, <1>2, <2>3
<1> QED BY <1>3, <1>4
----------------------------------------------------------------------------
\* Appending to the last part of a concatenation appends to the whole.
LEMMA AppendToLast ==
  \A v, b, q \in Seq(Items), i \in Items : Append(v \o b \o q, i) = v \o b \o Append(q, i)
<1>1. ASSUME NEW v \in Seq(Items), NEW b \in Seq(Items), NEW q \in Seq(Items), NEW i \in Items
      PROVE  Append(v \o b \o q, i) = v \o b \o Append(q, i)
  BY SMTT(30)
<1> QED BY <1>1, Zenon

\* Cutting a prefix off the last part into an empty middle part.
LEMMA CutMoves ==
  ASSUME NEW S, NEW v \in Seq(S), NEW q \in Seq(S), NEW n \in 1..Len(q)
  PROVE  /\ SubSeq(q, 1, n) \in Seq(S) /\ SubSeq(q, n + 1, Len(q)) \in Seq(S)
         /\ v \o <<>> \o q = v \o SubSeq(q, 1, n) \o SubSeq(q, n + 1, Len(q))
<1>0. Len(q) \in Nat /\ n \in Nat /\ 1 <= n /\ n <= Len(q)
  BY LenProperties
<1>1. SubSeq(q, 1, n) \in Seq(S)
  <2>1. \A i \in 1..n : q[i] \in S
    BY <1>0, ElementOfSeq
  <2> QED BY <1>0, <2>1, SubSeqProperties
<1>2. SubSeq(q, n + 1, Len(q)) \in Seq(S)
  <2>1. \A i \in (n + 1)..Len(q) : q[i] \in S
    BY <1>0, ElementOfSeq
  <2> QED BY <1>0, <2>1, SubSeqProperties
<1> DEFINE b == SubSeq(q, 1, n)
           r == SubSeq(q, n + 1, Len(q))
<1>3. b \o r = q
  BY <1>0, ConcatAdjacentSubSeq, SubSeqFull
<1>4. v \o <<>> = v
  BY ConcatEmptySeq
<1>5. b \in Seq(S) /\ r \in Seq(S)
  BY <1>1, <1>2
<1> HIDE DEF b, r
<1>6. (v \o b) \o r = v \o (b \o r)
  BY <1>5
<1> QED BY <1>3, <1>4, <1>5, <1>6 DEF b, r

----------------------------------------------------------------------------
\* The invariant holds initially.
LEMMA InitIInv == Init => IInv
<1> SUFFICES ASSUME Init PROVE IInv
  OBVIOUS
<1> USE ConstantsAssumption
<1>1. TypeOK
  <2>1. BatchWindow \in 0..BatchWindow /\ 0 \in 0..BatchWindow
    OBVIOUS
  <2>2. <<>> \in Seq(Items)
    OBVIOUS
  <2> QED BY <2>1, <2>2 DEF Init, TypeOK
<1>2. WindowInv /\ LoopInv
  BY DEF Init, WindowInv, LoopInv
<1>3. Conservation
  BY EmptySeq, ConcatEmptySeq DEF Init, Conservation
<1>4. NoLostWakeup /\ StoppedNeverParks /\ DrainedOnExit
  BY DEF Init, NoLostWakeup, StoppedNeverParks, DrainedOnExit
<1> QED BY <1>1, <1>2, <1>3, <1>4 DEF IInv

\* Every step of Next, and stuttering, preserves it.
LEMMA NextIInv == IInv /\ [Next]_vars => IInv'
<1> SUFFICES ASSUME IInv, [Next]_vars PROVE IInv'
  OBVIOUS
<1>a. /\ queue \in Seq(Items) /\ batch \in Seq(Items)
      /\ submitted \in Seq(Items) /\ verified \in Seq(Items)
  BY DEF IInv, TypeOK
<1>b. ASSUME NEW i \in Items
      PROVE  Append(verified \o batch \o queue, i) = verified \o batch \o Append(queue, i)
  BY <1>a, AppendToLast, ZenonT(60)
<1>c. batch # <<>> => verified \o batch \o queue
                      = Append(verified, Head(batch)) \o Tail(batch) \o queue
  BY <1>a
<1>d. \A n \in 1..Len(queue) :
        /\ SubSeq(queue, 1, n) \in Seq(Items)
        /\ SubSeq(queue, n + 1, Len(queue)) \in Seq(Items)
        /\ verified \o <<>> \o queue
             = verified \o SubSeq(queue, 1, n) \o SubSeq(queue, n + 1, Len(queue))
  BY <1>a, CutMoves
<1> USE ConstantsAssumption DEF IInv
<1>1. ASSUME NEW i \in Items, submit(i) PROVE IInv'
  <2> USE <1>1 DEF submit, runVars
  <2>1. TypeOK'
    BY AppendProperties DEF TypeOK
  <2>2. Conservation'
    BY <1>b DEF Conservation
  <2>3. WindowInv'
    BY DEF WindowInv
  <2>4. LoopInv'
    BY AppendProperties, LenProperties DEF TypeOK, LoopInv
  <2>5. NoLostWakeup' /\ StoppedNeverParks' /\ DrainedOnExit'
    BY DEF NoLostWakeup, StoppedNeverParks, DrainedOnExit
  <2> QED BY <2>1, <2>2, <2>3, <2>4, <2>5
<1>2. CASE stop
  <2> USE <1>2 DEF stop, runVars
  <2>1. TypeOK'
    BY LenProperties DEF TypeOK
  <2>2. LoopInv'
    BY LenProperties DEF TypeOK, LoopInv
  <2>3. WindowInv' /\ Conservation' /\ NoLostWakeup' /\ StoppedNeverParks'
    BY DEF WindowInv, Conservation, NoLostWakeup, StoppedNeverParks
  <2>4. DrainedOnExit'
    BY DEF DrainedOnExit, LoopInv
  <2> QED BY <2>1, <2>2, <2>3, <2>4
<1>3. CASE stopReturn
  BY <1>3 DEF stopReturn, runVars, TypeOK, WindowInv, LoopInv, Conservation,
              NoLostWakeup, StoppedNeverParks, DrainedOnExit
<1>4. CASE recvNotify
  BY <1>4 DEF recvNotify, TypeOK, WindowInv, LoopInv, Conservation,
              NoLostWakeup, StoppedNeverParks, DrainedOnExit
<1>5. CASE recvTimer
  BY <1>5 DEF recvTimer, TypeOK, WindowInv, LoopInv, Conservation,
              NoLostWakeup, StoppedNeverParks, DrainedOnExit
<1>6. CASE drain /\ WindowStillOpen
  BY <1>6 DEF drain, WindowStillOpen, Accumulating, TypeOK, WindowInv, LoopInv,
              Conservation, NoLostWakeup, StoppedNeverParks, DrainedOnExit
<1>7. CASE drain /\ NothingQueued
  <2> USE <1>7 DEF drain, NothingQueued, Accumulating
  <2>1. TypeOK' /\ WindowInv' /\ LoopInv' /\ Conservation'
    BY DEF TypeOK, WindowInv, LoopInv, Conservation
  <2>2. NoLostWakeup' /\ StoppedNeverParks'
    BY DEF NoLostWakeup, StoppedNeverParks
  <2>3. Len(verified) = Len(submitted)
    BY ConcatEmptySeq DEF TypeOK, LoopInv, Conservation
  <2>4. DrainedOnExit'
    BY <2>3, LenProperties DEF TypeOK, LoopInv, DrainedOnExit
  <2> QED BY <2>1, <2>2, <2>4
<1>8. CASE drain /\ CutBatch
  <2> USE <1>8 DEF drain, CutBatch
  <2>1. batchEnd(queue) \in 1..Len(queue)
    BY <1>a, BatchEndInRange
  <2>2. Conservation'
    <3>1. batch = <<>>
      BY DEF LoopInv
    <3>2. verified' \o batch' \o queue' = verified \o <<>> \o queue
      BY <1>d, <2>1
    <3> QED BY <3>1, <3>2 DEF Conservation
  <2>3. batch' \in Seq(Items) /\ queue' \in Seq(Items)
    BY <1>d, <2>1
  <2>4. TypeOK'
    <3>1. 0 \in 0..BatchWindow /\ BatchWindow \in 0..BatchWindow
      OBVIOUS
    <3> QED BY <2>3, <3>1 DEF TypeOK
  <2>5. WindowInv' /\ LoopInv' /\ NoLostWakeup' /\ StoppedNeverParks' /\ DrainedOnExit'
    BY DEF WindowInv, LoopInv, NoLostWakeup, StoppedNeverParks, DrainedOnExit
  <2> QED BY <2>2, <2>4, <2>5
<1>9. CASE verifyBatch
  <2> USE <1>9 DEF verifyBatch
  <2>1. TypeOK'
    BY HeadTailProperties, AppendProperties DEF TypeOK
  <2>2. Conservation'
    BY <1>c DEF Conservation
  <2>3. WindowInv' /\ LoopInv' /\ NoLostWakeup' /\ StoppedNeverParks' /\ DrainedOnExit'
    BY DEF WindowInv, LoopInv, NoLostWakeup, StoppedNeverParks, DrainedOnExit
  <2> QED BY <2>1, <2>2, <2>3
<1>10. CASE afterBatch
  <2> USE <1>10 DEF afterBatch
  <2>1. TypeOK' /\ WindowInv' /\ LoopInv' /\ Conservation'
    BY DEF TypeOK, WindowInv, LoopInv, Conservation
  <2>2. NoLostWakeup' /\ StoppedNeverParks'
    BY DEF NoLostWakeup, StoppedNeverParks, WindowInv
  <2>3. queue = <<>> => Len(verified) = Len(submitted)
    BY ConcatEmptySeq DEF TypeOK, Conservation
  <2>4. DrainedOnExit'
    BY <2>3, LenProperties DEF TypeOK, LoopInv, DrainedOnExit
  <2> QED BY <2>1, <2>2, <2>4
<1>11. CASE Tick
  BY <1>11 DEF Tick, TypeOK, WindowInv, LoopInv, Conservation,
               NoLostWakeup, StoppedNeverParks, DrainedOnExit
<1>12. CASE UNCHANGED vars
  BY <1>12 DEF vars, TypeOK, WindowInv, LoopInv, Conservation,
               NoLostWakeup, StoppedNeverParks, DrainedOnExit
<1> QED
  BY <1>1, <1>2, <1>3, <1>4, <1>5, <1>6, <1>7, <1>8, <1>9, <1>10, <1>11, <1>12
  DEF Next, run, drain

----------------------------------------------------------------------------
\* Type correctness of the verifier's state.
THEOREM TypeCorrect == Spec => []TypeOK
<1>1. IInv => TypeOK
  BY DEF IInv
<1> QED BY <1>1, InitIInv, NextIInv, PTL DEF Spec, Safety

\* submit, the cuts of run() and the callbacks lose, repeat and reorder nothing.
THEOREM VerifierConservesItems == Spec => []Conservation
<1>1. IInv => Conservation
  BY DEF IInv
<1> QED BY <1>1, InitIInv, NextIInv, PTL DEF Spec, Safety

\* run() is never parked on an empty select while items wait, and after
\* stop() never parked at all.
THEOREM VerifierWakesUp == Spec => [](NoLostWakeup /\ StoppedNeverParks)
<1>1. IInv => NoLostWakeup /\ StoppedNeverParks
  BY DEF IInv
<1> QED BY <1>1, InitIInv, NextIInv, PTL DEF Spec, Safety

\* run() returns only with everything submitted before stop() called back.
THEOREM VerifierDrains == Spec => []DrainedOnExit
<1>1. IInv => DrainedOnExit
  BY DEF IInv
<1> QED BY <1>1, InitIInv, NextIInv, PTL DEF Spec, Safety

\* Until stop(), batches are cut a window apart.
THEOREM VerifierWindowSpacing == Spec => WindowSpacing
<1>1. IInv /\ [Next]_vars =>
        [batch = <<>> /\ batch' # <<>> /\ ~stopped => sinceCut = BatchWindow]_vars
  <2> SUFFICES ASSUME IInv, Next, batch = <<>>, batch' # <<>>, ~stopped
               PROVE  sinceCut = BatchWindow
    BY DEF vars
  <2>1. drain /\ CutBatch
    BY DEF Next, run, submit, stop, stopReturn, runVars, recvNotify, recvTimer,
           drain, WindowStillOpen, NothingQueued, verifyBatch, afterBatch, Tick
  <2> QED BY <2>1 DEF drain, CutBatch, Accumulating, IInv, TypeOK, WindowInv
<1> QED BY <1>1, InitIInv, NextIInv, PTL DEF Spec, Safety, WindowSpacing

----------------------------------------------------------------------------
\* The callback of the batch's first item is the one the service owes next.
LEMMA NextCallback ==
  ASSUME NEW v \in Seq(Items), NEW b \in Seq(Items), NEW q \in Seq(Items), b # <<>>
  PROVE  /\ Len(v) < Len(v \o b \o q)
         /\ (v \o b \o q)[Len(v) + 1] = Head(b)
<1>1. Len(b) \in Nat /\ Len(b) >= 1 /\ Len(v) \in Nat /\ Len(q) \in Nat
  BY EmptySeq, LenProperties
<1>2. v \o b \in Seq(Items) /\ Len(v \o b) = Len(v) + Len(b)
  BY ConcatProperties
<1>3. Len((v \o b) \o q) = Len(v) + Len(b) + Len(q)
  BY <1>2, ConcatProperties
<1>4. (v \o b)[Len(v) + 1] = b[1]
  BY <1>1, ConcatProperties
<1>5. ((v \o b) \o q)[Len(v) + 1] = (v \o b)[Len(v) + 1]
  BY <1>1, <1>2, ConcatProperties
<1>6. Head(b) = b[1]
  BY HeadTailProperties
<1> QED BY <1>1, <1>3, <1>4, <1>5, <1>6

\* Every step of the verifier is a step of the service, or changes nothing the
\* callers see.
LEMMA StepRefines == IInv /\ [Next]_vars => [Service!Next]_(Service!vars)
<1> SUFFICES ASSUME IInv, [Next]_vars PROVE [Service!Next]_(Service!vars)
  OBVIOUS
<1> USE DEF Service!Next, Service!vars
<1>1. ASSUME NEW i \in Items, submit(i) PROVE Service!Submit(i)
  BY <1>1 DEF submit, runVars, Service!Submit
<1>2. CASE stop
  BY <1>2 DEF stop, runVars, Service!Stop
<1>3. CASE stopReturn
  <2>1. Len(verified) >= atStop
    BY <1>3 DEF stopReturn, IInv, DrainedOnExit
  <2> QED BY <1>3, <2>1 DEF stopReturn, runVars, Service!Return
<1>4. CASE verifyBatch
  <2>1. stopCall # "returned"
    BY <1>4 DEF verifyBatch, IInv, LoopInv
  <2>2. batch # <<>> /\ verified' = Append(verified, Head(batch))
    BY <1>4 DEF verifyBatch
  <2>3. Len(verified) < Len(submitted) /\ submitted[Len(verified) + 1] = Head(batch)
    BY <2>2, NextCallback DEF IInv, TypeOK, Conservation
  <2>4. UNCHANGED <<submitted, stopCall, atStop>>
    BY <1>4 DEF verifyBatch
  <2> QED BY <2>1, <2>2, <2>3, <2>4 DEF Service!Callback
<1>5. CASE recvNotify \/ recvTimer \/ drain \/ afterBatch \/ Tick \/ UNCHANGED vars
  BY <1>5 DEF recvNotify, recvTimer, drain, afterBatch, Tick, vars
<1> QED BY <1>1, <1>2, <1>3, <1>4, <1>5 DEF Next, run

\* For every set of items, cap and window, the verifier is a correct in-order
\* callback service: what submit, run() and stop() do implements it.
THEOREM VerifierImplementsService == Spec => Service!Safety
<1>1. Init => Service!Init
  BY DEF Init, Service!Init
<1> QED BY <1>1, InitIInv, NextIInv, StepRefines, PTL DEF Spec, Safety, Service!Safety

----------------------------------------------------------------------------
(* The sums behind the cap.  A recursive function is a choice of a solution *)
(* of its equation: there is one, by the least length that would have none, *)
(* and two queues with the same beginning have the same sums there, by the  *)
(* least position where they would not.                                     *)

\* f holds the sums of the first items of q, up to position k.
SumsTo(f, q, k) ==
  /\ f \in [0..k -> Nat] /\ f[0] = 0
  /\ \A n \in 1..k : f[n] = f[n - 1] + Atts[q[n]]

\* Every queue has sums, up to every position.
LEMMA SumsExist ==
  ASSUME NEW q \in Seq(Items), NEW k \in 0..Len(q)
  PROVE  \E f : SumsTo(f, q, k)
<1>0. Len(q) \in Nat /\ \A n \in 1..Len(q) : Atts[q[n]] \in Nat
  BY ConstantsAssumption
<1> DEFINE Without == {n \in 0..Len(q) : ~ \E f : SumsTo(f, q, n)}
<1> SUFFICES ASSUME Without # {} PROVE FALSE
  OBVIOUS
<1>1. Without \subseteq Nat
  BY <1>0
<1>2. PICK n \in Without : \A m \in Without : n <= m
  BY <1>1, LeastNatural, Zenon
<1>3. n \in Nat /\ n <= Len(q)
  BY <1>0, <1>2
<1>4. CASE n = 0
  <2>1. SumsTo([i \in 0..n |-> 0], q, n)
    BY <1>4 DEF SumsTo
  <2> QED BY <1>2, <2>1
<1>5. CASE n # 0
  <2>1. n - 1 \in 0..Len(q) /\ ~(n <= n - 1)
    BY <1>0, <1>3, <1>5
  <2>2. n - 1 \notin Without
    BY <1>2, <2>1
  <2>3. PICK f : SumsTo(f, q, n - 1)
    BY <2>1, <2>2
  <2> DEFINE g == [i \in 0..n |-> IF i = n THEN f[n - 1] + Atts[q[n]] ELSE f[i]]
  <2>4. f \in [0..(n - 1) -> Nat] /\ f[0] = 0 /\ \A i \in 1..(n - 1) : f[i] = f[i - 1] + Atts[q[i]]
    BY <2>3 DEF SumsTo
  <2>5. Atts[q[n]] \in Nat /\ f[n - 1] \in Nat
    BY <1>0, <1>3, <1>5, <2>4
  <2>6. g \in [0..n -> Nat]
    <3>1. \A i \in 0..n : i = n \/ i \in 0..(n - 1)
      BY <1>3
    <3>2. \A i \in 0..n : (IF i = n THEN f[n - 1] + Atts[q[n]] ELSE f[i]) \in Nat
      BY <2>4, <2>5, <3>1
    <3> QED BY <3>2
  <2>7. g[0] = 0
    BY <1>3, <1>5, <2>4
  <2>8. ASSUME NEW i \in 1..n PROVE g[i] = g[i - 1] + Atts[q[i]]
    <3>1. i - 1 \in 0..n /\ i - 1 # n /\ g[i - 1] = f[i - 1]
      BY <1>3
    <3>2. CASE i = n
      BY <3>1, <3>2
    <3>3. CASE i # n
      <4>1. i \in 1..(n - 1) /\ g[i] = f[i]
        BY <1>3, <3>3
      <4> QED BY <2>4, <3>1, <4>1
    <3> QED BY <3>2, <3>3
  <2> HIDE DEF g
  <2>9. SumsTo(g, q, n)
    BY <2>6, <2>7, <2>8 DEF SumsTo
  <2> QED BY <1>2, <2>9
<1> QED BY <1>4, <1>5

\* AttsUpTo is a solution of its equation.
LEMMA AttsUpToSums ==
  ASSUME NEW q \in Seq(Items)
  PROVE  SumsTo(AttsUpTo(q), q, Len(q))
<1>0. Len(q) \in Nat /\ \A n \in 1..Len(q) : Atts[q[n]] \in Nat
  BY ConstantsAssumption
<1> DEFINE E(f) == [n \in 0..Len(q) |-> IF n = 0 THEN 0 ELSE f[n - 1] + Atts[q[n]]]
<1>1. PICK f : SumsTo(f, q, Len(q))
  BY <1>0, SumsExist
<1>2. f = E(f)
  <2>1. f \in [0..Len(q) -> Nat] /\ f[0] = 0 /\ \A n \in 1..Len(q) : f[n] = f[n - 1] + Atts[q[n]]
    BY <1>1 DEF SumsTo
  <2>2. \A n \in 0..Len(q) : f[n] = E(f)[n]
    <3> TAKE n \in 0..Len(q)
    <3>1. n = 0 \/ n \in 1..Len(q)
      BY <1>0
    <3> QED BY <2>1, <3>1
  <2>3. f = [n \in 0..Len(q) |-> f[n]]
    BY <2>1
  <2> QED BY <2>2, <2>3
<1>3. AttsUpTo(q) = CHOOSE g : g = E(g)
  BY DEF AttsUpTo
<1> DEFINE h == AttsUpTo(q)
<1>4. h = E(h)
  BY <1>2, <1>3
<1> HIDE DEF h
<1>5. DOMAIN h = 0..Len(q) /\ h[0] = 0 /\ \A n \in 1..Len(q) : h[n] = h[n - 1] + Atts[q[n]]
  <2>1. \A n \in 0..Len(q) : h[n] = IF n = 0 THEN 0 ELSE h[n - 1] + Atts[q[n]]
    BY <1>4
  <2>2. 0 \in 0..Len(q) /\ \A n \in 1..Len(q) : n \in 0..Len(q) /\ n # 0
    BY <1>0
  <2> QED BY <1>4, <2>1, <2>2
<1>6. \A n \in 0..Len(q) : h[n] \in Nat
  <2> DEFINE Odd == {n \in 0..Len(q) : h[n] \notin Nat}
  <2> SUFFICES ASSUME Odd # {} PROVE FALSE
    OBVIOUS
  <2>1. Odd \subseteq Nat
    BY <1>0
  <2>2. PICK n \in Odd : \A m \in Odd : n <= m
    BY <2>1, LeastNatural, Zenon
  <2>3. n # 0 /\ n \in 1..Len(q)
    BY <1>0, <1>5, <2>2
  <2>4. n - 1 \in 0..Len(q) /\ ~(n <= n - 1)
    BY <1>0, <2>3
  <2>5. h[n - 1] \in Nat
    BY <2>2, <2>4
  <2> QED BY <1>0, <1>5, <2>2, <2>3, <2>5
<1>7. h = [n \in 0..Len(q) |-> h[n]]
  BY <1>4
<1>8. SumsTo(h, q, Len(q))
  BY <1>5, <1>6, <1>7 DEF SumsTo
<1> QED BY <1>8 DEF h

\* A batch off the front of the queue has the queue's sums.
LEMMA SumsOfFront ==
  ASSUME NEW q \in Seq(Items), NEW b \in Seq(Items), Len(b) <= Len(q),
         \A n \in 1..Len(b) : b[n] = q[n]
  PROVE  \A n \in 0..Len(b) : AttsUpTo(b)[n] = AttsUpTo(q)[n]
<1> DEFINE f == AttsUpTo(b)
           g == AttsUpTo(q)
           Odd == {n \in 0..Len(b) : f[n] # g[n]}
<1>0. Len(q) \in Nat /\ Len(b) \in Nat
  OBVIOUS
<1>1. SumsTo(f, b, Len(b)) /\ SumsTo(g, q, Len(q))
  BY AttsUpToSums
<1> HIDE DEF f, g
<1> SUFFICES ASSUME Odd # {} PROVE FALSE
  BY DEF f, g
<1>2. Odd \subseteq Nat
  BY <1>0
<1>3. PICK n \in Odd : \A m \in Odd : n <= m
  BY <1>2, LeastNatural, Zenon
<1>4. n \in 1..Len(b) /\ n \in 1..Len(q)
  BY <1>0, <1>1, <1>3 DEF SumsTo
<1>5. n - 1 \in 0..Len(b) /\ ~(n <= n - 1)
  BY <1>0, <1>4
<1>6. f[n - 1] = g[n - 1]
  BY <1>3, <1>5
<1>7. f[n] = f[n - 1] + Atts[b[n]] /\ g[n] = g[n - 1] + Atts[q[n]] /\ b[n] = q[n]
  BY <1>1, <1>4 DEF SumsTo
<1> QED BY <1>3, <1>6, <1>7

\* A part of a queue.
LEMMA Slice ==
  ASSUME NEW q \in Seq(Items), NEW m \in Nat \ {0}, NEW n \in Nat, n <= Len(q), m <= n
  PROVE  /\ SubSeq(q, m, n) \in Seq(Items) /\ Len(SubSeq(q, m, n)) = n - m + 1
         /\ \A i \in 1..(n - m + 1) : SubSeq(q, m, n)[i] = q[m + i - 1]
<1>1. SubSeq(q, m, n) \in Seq(Items) /\ Len(SubSeq(q, m, n)) = n - m + 1
  OBVIOUS
<1>2. \A i \in 1..(n - m + 1) : SubSeq(q, m, n)[i] = q[m + i - 1]
  OBVIOUS
<1> QED BY <1>1, <1>2

\* batchEnd is the first cut point, or the end of the queue.
LEMMA BatchEndFirst ==
  ASSUME NEW q \in Seq(Items), q # <<>>
  PROVE  /\ batchEnd(q) = Len(q) \/ (MaxBatchItems > 0 /\ batchEnd(q) \in CutPoints(q))
         /\ MaxBatchItems > 0 => \A m \in CutPoints(q) : batchEnd(q) <= m
<1>1. CASE MaxBatchItems = 0
  BY <1>1 DEF batchEnd
<1>2. CASE MaxBatchItems # 0 /\ CutPoints(q) = {}
  BY <1>2 DEF batchEnd
<1>3. CASE MaxBatchItems # 0 /\ CutPoints(q) # {}
  <2>1. CutPoints(q) \subseteq Nat
    BY DEF CutPoints
  <2>2. \E n \in CutPoints(q) : \A m \in CutPoints(q) : n <= m
    BY <1>3, <2>1, LeastNatural, Zenon
  <2>3. batchEnd(q) \in CutPoints(q) /\ \A m \in CutPoints(q) : batchEnd(q) <= m
    BY <1>3, <2>2, Zenon DEF batchEnd
  <2>4. MaxBatchItems > 0
    BY <1>3, ConstantsAssumption
  <2> QED BY <2>3, <2>4
<1> QED BY <1>1, <1>2, <1>3

\* What a cut takes is a maximal batch.
LEMMA CutIsMaximal ==
  ASSUME NEW q \in Seq(Items), q # <<>>,
         NEW b, b = SubSeq(q, 1, batchEnd(q)),
         NEW r, r = SubSeq(q, batchEnd(q) + 1, Len(q))
  PROVE  BatchIsMaximal(b, r)
<1> DEFINE k == batchEnd(q)
           f == AttsUpTo(q)
<1>1. Len(q) \in Nat /\ k \in 1..Len(q) /\ k \in Nat
  BY BatchEndInRange
<1>2. /\ k = Len(q) \/ (MaxBatchItems > 0 /\ k \in CutPoints(q))
      /\ MaxBatchItems > 0 => \A m \in CutPoints(q) : k <= m
  BY BatchEndFirst
<1>3. SumsTo(f, q, Len(q))
  BY AttsUpToSums
<1>4. \A m : m \in CutPoints(q) <=> m \in 1..(Len(q) - 1) /\ f[m + 1] > MaxBatchItems
  BY DEF CutPoints
<1> HIDE DEF k
<1>5. b \in Seq(Items) /\ Len(b) = k /\ \A n \in 1..k : b[n] = q[n]
  <2>1. b = SubSeq(q, 1, k)
    BY DEF k
  <2>2. 1 \in Nat \ {0} /\ 1 <= k /\ k <= Len(q) /\ k - 1 + 1 = k /\ \A i \in 1..k : 1 + i - 1 = i
    BY <1>1
  <2>3. /\ SubSeq(q, 1, k) \in Seq(Items) /\ Len(SubSeq(q, 1, k)) = k - 1 + 1
        /\ \A i \in 1..(k - 1 + 1) : SubSeq(q, 1, k)[i] = q[1 + i - 1]
    BY <1>1, <2>2, Slice, Zenon
  <2>4. b \in Seq(Items) /\ Len(b) = k - 1 + 1 /\ \A i \in 1..(k - 1 + 1) : b[i] = q[1 + i - 1]
    BY <2>1, <2>3, Zenon
  <2> QED BY <2>2, <2>3, <2>4
<1>6. AttsUpTo(b)[Len(b)] = f[k]
  <2>1. \A n \in 0..Len(b) : AttsUpTo(b)[n] = AttsUpTo(q)[n]
    <3>1. Len(b) <= Len(q) /\ \A n \in 1..Len(b) : b[n] = q[n]
      BY <1>1, <1>5
    <3> QED BY <1>5, <3>1, SumsOfFront
  <2> QED BY <1>1, <1>5, <2>1
<1>7. r = SubSeq(q, k + 1, Len(q))
  BY DEF k
<1>8. CASE k = Len(q)
  <2>1. r = <<>>
    BY <1>1, <1>7, <1>8
  <2>2. ASSUME MaxBatchItems > 0, k > 1 PROVE f[k] <= MaxBatchItems
    <3>1. k - 1 \in 1..(Len(q) - 1) /\ ~(k <= k - 1) /\ (k - 1) + 1 = k
      BY <1>1, <1>8, <2>2
    <3>2. ~(f[k] > MaxBatchItems)
      BY <1>2, <1>4, <2>2, <3>1
    <3>3. f[k] \in Nat
      BY <1>1, <1>3 DEF SumsTo
    <3> QED BY <3>2, <3>3, ConstantsAssumption
  <2> QED BY <1>5, <1>6, <2>1, <2>2 DEF BatchIsMaximal
<1>9. CASE k # Len(q)
  <2>1. MaxBatchItems > 0 /\ k \in 1..(Len(q) - 1) /\ f[k + 1] > MaxBatchItems
    BY <1>2, <1>4, <1>9
  <2>2. r # <<>> /\ Head(r) = q[k + 1]
    <3>1. k + 1 \in Nat \ {0} /\ k + 1 <= Len(q)
      BY <1>1, <2>1
    <3>2. /\ SubSeq(q, k + 1, Len(q)) \in Seq(Items)
          /\ Len(SubSeq(q, k + 1, Len(q))) = Len(q) - (k + 1) + 1
          /\ \A i \in 1..(Len(q) - (k + 1) + 1) : SubSeq(q, k + 1, Len(q))[i] = q[(k + 1) + i - 1]
      <4>1. Len(q) \in Nat /\ Len(q) <= Len(q)
        BY <1>1
      <4> QED BY <3>1, <4>1, Slice, Zenon
    <3>3. /\ r \in Seq(Items) /\ Len(r) = Len(q) - (k + 1) + 1
          /\ \A i \in 1..(Len(q) - (k + 1) + 1) : r[i] = q[(k + 1) + i - 1]
      BY <1>7, <3>2, Zenon
    <3>4. Len(r) >= 1 /\ r[1] = q[k + 1]
      <4>1. 1 \in 1..(Len(q) - (k + 1) + 1) /\ (k + 1) + 1 - 1 = k + 1
        BY <3>1, <1>1
      <4> QED BY <1>1, <3>1, <3>3, <4>1
    <3> QED BY <3>3, <3>4
  <2>3. f[k + 1] = f[k] + Atts[q[k + 1]]
    <3>1. k + 1 \in 1..Len(q) /\ (k + 1) - 1 = k
      BY <1>1, <2>1
    <3> QED BY <1>3, <3>1 DEF SumsTo
  <2>4. ASSUME k > 1 PROVE f[k] <= MaxBatchItems
    <3>1. k - 1 \in 1..(Len(q) - 1) /\ ~(k <= k - 1) /\ (k - 1) + 1 = k
      BY <1>1, <2>1, <2>4
    <3>2. ~(f[k] > MaxBatchItems)
      BY <1>2, <1>4, <2>1, <3>1
    <3>3. f[k] \in Nat
      BY <1>1, <1>3 DEF SumsTo
    <3> QED BY <3>2, <3>3, ConstantsAssumption
  <2>5. MaxBatchItems # 0
    BY <2>1, ConstantsAssumption
  <2> HIDE DEF f
  <2> QED BY <1>5, <1>6, <2>1, <2>2, <2>3, <2>4, <2>5 DEF BatchIsMaximal
<1> QED BY <1>8, <1>9

\* A batch over the cap is one single item, and no batch stops early, whatever
\* the attestations of the items and the cap ("always at least one", batchEnd).
THEOREM VerifierBatchesMaximal == Spec => BatchesMaximal
<1>1. IInv /\ [Next]_vars => [batch = <<>> /\ batch' # <<>> => BatchIsMaximal(batch', queue')]_vars
  <2> SUFFICES ASSUME IInv, [Next]_vars, batch = <<>>, batch' # <<>>
               PROVE  BatchIsMaximal(batch', queue')
    OBVIOUS
  <2>1. drain /\ CutBatch
    BY DEF Next, run, submit, stop, stopReturn, recvNotify, recvTimer, drain, verifyBatch, afterBatch,
           Tick, runVars, vars, WindowStillOpen, NothingQueued
  <2>2. queue \in Seq(Items) /\ queue # <<>>
    BY <2>1 DEF IInv, TypeOK, CutBatch
  <2>3. batch' = SubSeq(queue, 1, batchEnd(queue)) /\ queue' = SubSeq(queue, batchEnd(queue) + 1, Len(queue))
    BY <2>1 DEF CutBatch
  <2> QED BY <2>2, <2>3, CutIsMaximal
<1> QED BY <1>1, InitIInv, NextIInv, PTL DEF Spec, Safety, BatchesMaximal

-----------------------------------------------------------------------------
(* The column verifier.  Whatever the columns still wait for, when a column *)
(* is out is decided when it starts, so the invariant speaks of that        *)
(* instant, Out(c), of the columns that have started: they are out in the   *)
(* order they came, at most a width of them within a service time, and each *)
(* one no later than its round.                                             *)

Done == {c \in Col!Columns : doneAt[c] >= 0}
Started == Col!Holding \cup Done

\* When a column that has started is out.
Out(c) == IF c \in Col!Holding THEN now + left[c] ELSE doneAt[c]

\* The types of the variables.
ColumnType ==
  /\ width \in Nat \ {0} /\ now \in Nat
  /\ waiting \in Seq(Col!Columns)
  /\ Col!Holding \subseteq Col!Columns /\ left \in [Col!Holding -> 0..ServiceTime]
  /\ ahead \in [Col!Columns -> Nat \cup {-1}] /\ cameAt \in [Col!Columns -> Nat]
  /\ doneAt \in [Col!Columns -> Nat \cup {-1}]
  /\ \A c \in Col!Columns : cameAt[c] <= now /\ doneAt[c] <= now

\* Columns start in the order they came.
LastStarted == Cardinality(Col!Came) - Len(waiting)
OrderInv ==
  /\ Cardinality(Col!Came) \in Nat /\ Col!Came = 1..Cardinality(Col!Came)
  /\ LastStarted \in Nat /\ Started = 1..LastStarted /\ Col!Holding \cap Done = {}
  /\ \A i \in 1..Len(waiting) : waiting[i] = LastStarted + i
  /\ \A c, d \in Col!Came : c < d => cameAt[c] <= cameAt[d]

\* They are out in that order too.
OutInv == \A c, d \in Started : c < d => Out(c) <= Out(d)

\* The columns that are out within a service time from t, known when they start.
OutWithin(t) == {c \in Started : Out(c) \in t..(t + ServiceTime - 1)}
WidthInv == Cardinality(Col!Holding) <= width /\ \A t \in Nat : Cardinality(OutWithin(t)) <= width

\* Nobody waits without a reason: a waiting column came now, or the column a width
\* before it is not out yet.
PunctualInv ==
  \A c \in Col!Came \ Started :
    \/ now = cameAt[c]
    \/ c > width /\ (c - width \in Started => now <= Out(c - width))

\* The first column that was in the verifier when c came; those before it were
\* out, or about to be.
First(c) == c - ahead[c]
RoundsInv ==
  \A c \in Col!Came :
    /\ \A i \in 1..(c - 1) : i < First(c) => i \in Started /\ Out(i) <= cameAt[c]
    /\ \A i \in Started : First(c) <= i /\ i <= c =>
         Out(i) <= cameAt[c] + ServiceTime * Col!CeilDiv(i - First(c) + 1, width)

ColumnInv == ColumnType /\ OrderInv /\ OutInv /\ WidthInv /\ PunctualInv /\ RoundsInv

-----------------------------------------------------------------------------
(* Intervals and rounds.                                                   *)

\* The size of an interval.
LEMMA IntervalSize ==
  ASSUME NEW m \in Int, NEW n \in Int, m <= n + 1
  PROVE  IsFiniteSet(m..n) /\ Cardinality(m..n) = n - m + 1
<1>1. CASE m > n
  <2>1. m..n = {}
    BY <1>1
  <2> QED BY <1>1, <2>1, FS_EmptySet
<1>2. CASE m <= n
  BY <1>2, FS_Interval
<1> QED BY <1>1, <1>2

\* The instance counts like this module.
LEMMA SameCount ==
  ASSUME NEW S
  PROVE  Col!Cardinality(S) = Cardinality(S)
<1>1. \A T : Col!IsFiniteSet(T) = IsFiniteSet(T)
  BY DEF Col!IsFiniteSet, IsFiniteSet
<1> QED BY <1>1 DEF Col!Cardinality, Cardinality

\* A width more is a round more.
LEMMA NextRound ==
  ASSUME NEW w \in Nat \ {0}, NEW r \in Nat \ {0}
  PROVE  /\ Col!CeilDiv(r, w) \in Nat \ {0}
         /\ r > w => Col!CeilDiv(r, w) = Col!CeilDiv(r - w, w) + 1
<1> DEFINE x == r - 1
           q == x \div w
           e == x % w
<1>1. x \in Nat /\ q \in Nat /\ e \in 0..(w - 1) /\ x = q * w + e
  OBVIOUS
<1>2. (r + w - 1) \div w = q + 1
  OBVIOUS
<1>3. r > w => (r - w + w - 1) \div w = q
  OBVIOUS
<1> QED BY <1>1, <1>2, <1>3 DEF Col!CeilDiv

-----------------------------------------------------------------------------
(* What a step does to the columns that have started.                      *)

\* Sets of columns are finite.
LEMMA ColumnSets ==
  ASSUME Configured, NEW A \in SUBSET Col!Columns
  PROVE  /\ IsFiniteSet(A) /\ Cardinality(A) \in Nat
         /\ \A B \in SUBSET A : IsFiniteSet(B) /\ Cardinality(B) \in Nat
                                /\ Cardinality(B) <= Cardinality(A)
<1>1. IsFiniteSet(Col!Columns)
  BY IntervalSize DEF Configured, Col!Columns
<1>2. IsFiniteSet(A)
  BY <1>1, FS_Subset
<1> QED BY <1>2, FS_Subset, FS_CardinalityType

\* verify: c is the last to come and waits behind the others.
LEMMA VerifyEffect ==
  ASSUME Configured, ColumnType, OrderInv, NEW c \in Col!Columns, Col!verify(c)
  PROVE  /\ Col!Came' = 1..c /\ Cardinality(Col!Came') = c /\ Cardinality(Col!Came) = c - 1
         /\ LastStarted' = LastStarted /\ Started' = Started /\ Col!Holding' = Col!Holding /\ Done' = Done
         /\ \A i \in Started : Out(i)' = Out(i)
         /\ Len(waiting) \in Nat /\ Len(waiting') = Len(waiting) + 1
         /\ \A i \in 1..Len(waiting) : waiting'[i] = waiting[i]
         /\ waiting'[Len(waiting) + 1] = c
<1>1. c \in Nat \ {0}
  BY DEF Col!Columns, Configured
<1>2. Len(waiting) \in Nat /\ Cardinality(Col!Holding) \in Nat
  BY ColumnSets DEF ColumnType
<1>3. Col!Came' = Col!Came \cup {c}
  BY <1>2, SameCount DEF Col!verify, Col!Came, ColumnType
<1>4. Col!Came = 1..(c - 1)
  BY DEF Col!verify
<1>5. Col!Came' = 1..c
  BY <1>1, <1>3, <1>4
<1>6. Cardinality(Col!Came) = c - 1 /\ Cardinality(Col!Came') = c
  BY <1>1, <1>4, <1>5, IntervalSize
<1>7. waiting' = Append(waiting, c) /\ UNCHANGED <<left, now, doneAt>>
  BY DEF Col!verify
<1>8. /\ Len(waiting') = Len(waiting) + 1 /\ waiting'[Len(waiting) + 1] = c
      /\ \A i \in 1..Len(waiting) : waiting'[i] = waiting[i]
  BY <1>7 DEF ColumnType
<1>9. Col!Holding' = Col!Holding /\ Done' = Done /\ Started' = Started
  BY <1>7 DEF Col!Holding, Done, Started
<1>10. \A i \in Started : Out(i)' = Out(i)
  BY <1>7, <1>9 DEF Out
<1>11. LastStarted' = LastStarted
  BY <1>1, <1>2, <1>6, <1>8 DEF LastStarted
<1> QED BY <1>2, <1>5, <1>6, <1>8, <1>9, <1>10, <1>11

\* acquire: the first that waits starts, and is out a service time later.
LEMMA AcquireEffect ==
  ASSUME Configured, ColumnType, OrderInv, Col!acquire
  PROVE  /\ Col!Came' = Col!Came /\ LastStarted' = LastStarted + 1
         /\ LastStarted + 1 \in Col!Came \ Started
         /\ Started' = Started \cup {LastStarted + 1}
         /\ Col!Holding' = Col!Holding \cup {LastStarted + 1} /\ Done' = Done
         /\ \A i \in Started : Out(i)' = Out(i)
         /\ \A i : i = LastStarted + 1 => Out(i)' = now + ServiceTime
         /\ Len(waiting) \in Nat /\ Len(waiting') = Len(waiting) - 1
         /\ \A i \in 1..Len(waiting') : waiting'[i] = waiting[i + 1]
<1> DEFINE h == LastStarted + 1
<1>1. /\ waiting # <<>> /\ waiting' = Tail(waiting) /\ UNCHANGED <<width, now, ahead, cameAt, doneAt>>
      /\ left' = [c \in Col!Holding \cup {Head(waiting)} |->
                    IF c = Head(waiting) THEN ServiceTime ELSE left[c]]
  BY DEF Col!acquire
<1>2. /\ Len(waiting) \in Nat \ {0} /\ Len(waiting') = Len(waiting) - 1
      /\ \A i \in 1..Len(waiting') : waiting'[i] = waiting[i + 1]
      /\ Head(waiting) = waiting[1]
  BY <1>1 DEF ColumnType
<1>3. Head(waiting) = h /\ LastStarted \in Nat
  BY <1>2 DEF OrderInv
<1>4. Col!Came' = Col!Came
  BY <1>1 DEF Col!Came
<1>5. LastStarted' = LastStarted + 1
  BY <1>2, <1>4 DEF LastStarted, OrderInv
<1>6. h \in Col!Came /\ h \notin Started
  BY <1>2, <1>3 DEF OrderInv, LastStarted
<1>7. Col!Holding' = Col!Holding \cup {h} /\ Done' = Done
  BY <1>1, <1>3 DEF Col!Holding, Done
<1>8. Started' = Started \cup {h}
  BY <1>7 DEF Started
<1>9. \A i \in Started : Out(i)' = Out(i)
  BY <1>1, <1>3, <1>6, <1>7 DEF Out, Started
<1>10. \A i : i = h => Out(i)' = now + ServiceTime
  BY <1>1, <1>3, <1>7 DEF Out
<1> HIDE DEF h
<1> QED BY <1>2, <1>4, <1>5, <1>6, <1>7, <1>8, <1>9, <1>10 DEF h

\* release and Tick change nothing of when a column is out.
LEMMA ReleaseEffect ==
  ASSUME Configured, ColumnType, OrderInv, NEW c \in Col!Columns, Col!release(c)
  PROVE  /\ Col!Came' = Col!Came /\ LastStarted' = LastStarted /\ Started' = Started
         /\ Col!Holding' = Col!Holding \ {c} /\ Done' = Done \cup {c}
         /\ \A i \in Started : Out(i)' = Out(i)
<1>1. /\ c \in Col!Holding /\ left[c] = 0 /\ UNCHANGED <<width, waiting, now, ahead, cameAt>>
      /\ left' = [d \in Col!Holding \ {c} |-> left[d]] /\ doneAt' = [doneAt EXCEPT ![c] = now]
  BY DEF Col!release
<1>2. Col!Came' = Col!Came /\ LastStarted' = LastStarted
  BY <1>1 DEF Col!Came, LastStarted
<1>3. Col!Holding' = Col!Holding \ {c}
  BY <1>1 DEF Col!Holding
<1>4. Done' = Done \cup {c}
  BY <1>1 DEF Done, ColumnType
<1>5. Started' = Started
  BY <1>1, <1>3, <1>4 DEF Started
<1>6. \A i \in Started : Out(i)' = Out(i)
  <2> SUFFICES ASSUME NEW i \in Started PROVE Out(i)' = Out(i)
    OBVIOUS
  <2>1. CASE i = c
    <3>1. Out(i) = now
      BY <1>1, <2>1 DEF Out, ColumnType
    <3>2. Out(i)' = now
      BY <1>1, <1>3, <2>1 DEF Out, ColumnType
    <3> QED BY <3>1, <3>2
  <2>2. CASE i # c
    <3>1. i \in Col!Holding <=> i \in Col!Holding'
      BY <1>3, <2>2
    <3>2. doneAt'[i] = doneAt[i] /\ (i \in Col!Holding => left'[i] = left[i]) /\ now' = now
      BY <1>1, <2>2 DEF ColumnType
    <3> QED BY <3>1, <3>2 DEF Out
  <2> QED BY <2>1, <2>2
<1> QED BY <1>2, <1>3, <1>4, <1>5, <1>6

LEMMA TickEffect ==
  ASSUME Configured, ColumnType, OrderInv, Col!Tick
  PROVE  /\ Col!Came' = Col!Came /\ LastStarted' = LastStarted /\ Started' = Started
         /\ Col!Holding' = Col!Holding /\ Done' = Done
         /\ \A i \in Started : Out(i)' = Out(i)
<1>1. /\ now' = now + 1 /\ left' = [c \in Col!Holding |-> left[c] - 1]
      /\ UNCHANGED <<width, waiting, ahead, cameAt, doneAt>>
  BY DEF Col!Tick
<1>2. Col!Holding' = Col!Holding
  BY <1>1 DEF Col!Holding
<1>3. Col!Came' = Col!Came /\ LastStarted' = LastStarted /\ Done' = Done
  BY <1>1 DEF Col!Came, LastStarted, Done
<1>4. Started' = Started
  BY <1>2, <1>3 DEF Started
<1>5. \A i \in Started : Out(i)' = Out(i)
  <2> SUFFICES ASSUME NEW i \in Started PROVE Out(i)' = Out(i)
    OBVIOUS
  <2>1. CASE i \in Col!Holding
    <3>1. left[i] \in Int /\ now \in Int
      BY <2>1 DEF ColumnType
    <3> QED BY <1>1, <1>2, <2>1, <3>1 DEF Out
  <2>2. CASE i \notin Col!Holding
    BY <1>1, <1>2, <2>2 DEF Out
  <2> QED BY <2>1, <2>2
<1> QED BY <1>2, <1>3, <1>4, <1>5

-----------------------------------------------------------------------------
(* The invariant.                                                          *)

\* Nobody has come at first.
LEMMA InitColumns == Configured /\ Col!Init => ColumnInv
<1> SUFFICES ASSUME Configured, Col!Init PROVE ColumnInv
  OBVIOUS
<1>1. /\ width \in Nat \ {0} /\ waiting = <<>> /\ Col!Holding = {} /\ now = 0
      /\ ahead = [c \in Col!Columns |-> -1] /\ cameAt = [c \in Col!Columns |-> 0]
      /\ doneAt = [c \in Col!Columns |-> -1] /\ left \in [Col!Holding -> 0..ServiceTime]
  BY DEF Col!Init, Col!newColumnVerifier, Col!Holding, Configured
<1>2. ColumnType
  BY <1>1 DEF ColumnType
<1>3. Col!Came = {} /\ Done = {} /\ Started = {}
  BY <1>1 DEF Col!Came, Done, Started
<1>4. Cardinality(Col!Came) = 0 /\ Cardinality(Col!Holding) = 0 /\ Len(waiting) = 0
  BY <1>1, <1>3, FS_EmptySet
<1>5. OrderInv
  BY <1>1, <1>3, <1>4 DEF OrderInv, LastStarted
<1>6. \A t \in Nat : OutWithin(t) = {}
  BY <1>3 DEF OutWithin
<1>7. WidthInv
  <2>1. \A t \in Nat : Cardinality(OutWithin(t)) = 0
    BY <1>6, FS_EmptySet
  <2> QED BY <1>1, <1>4, <2>1 DEF WidthInv
<1> QED BY <1>2, <1>3, <1>5, <1>7 DEF ColumnInv, OutInv, PunctualInv, RoundsInv

\* Every step keeps the types.
LEMMA NextColumnType ==
  ASSUME Configured, ColumnType, [Col!Next]_(Col!vars)
  PROVE  ColumnType'
<1> USE DEF Configured
<1>0. now \in Nat /\ \A c \in Col!Columns : cameAt[c] \in Nat /\ doneAt[c] \in Int
  BY DEF ColumnType
<1>1. ASSUME NEW c \in Col!Columns, Col!verify(c) PROVE ColumnType'
  <2>1. Len(waiting) + Cardinality(Col!Holding) \in Nat
    <3>1. Len(waiting) \in Nat
      BY DEF ColumnType
    <3>2. Cardinality(Col!Holding) \in Nat
      BY ColumnSets DEF ColumnType
    <3> QED BY <3>1, <3>2
  <2>2. waiting' \in Seq(Col!Columns)
    BY <1>1 DEF Col!verify, ColumnType
  <2>3. ahead' \in [Col!Columns -> Nat \cup {-1}] /\ cameAt' \in [Col!Columns -> Nat]
    BY <1>1, <2>1, SameCount DEF Col!verify, ColumnType
  <2>4. \A d \in Col!Columns : cameAt'[d] <= now
    BY <1>1 DEF Col!verify, ColumnType
  <2> QED BY <1>1, <2>2, <2>3, <2>4 DEF Col!verify, ColumnType, Col!Holding
<1>2. CASE Col!acquire
  <2>1. waiting' \in Seq(Col!Columns) /\ Head(waiting) \in Col!Columns
    BY <1>2 DEF Col!acquire, ColumnType
  <2>2. Col!Holding' = Col!Holding \cup {Head(waiting)}
    BY <1>2 DEF Col!acquire, Col!Holding
  <2>3. left' \in [Col!Holding' -> 0..ServiceTime]
    BY <1>2, <2>2 DEF Col!acquire, ColumnType
  <2> QED BY <1>2, <2>1, <2>2, <2>3 DEF Col!acquire, ColumnType
<1>3. ASSUME NEW c \in Col!Columns, Col!release(c) PROVE ColumnType'
  <2>1. Col!Holding' = Col!Holding \ {c}
    BY <1>3 DEF Col!release, Col!Holding
  <2>2. left' \in [Col!Holding' -> 0..ServiceTime]
    BY <1>3, <2>1 DEF Col!release, ColumnType
  <2>3. doneAt' \in [Col!Columns -> Nat \cup {-1}] /\ \A d \in Col!Columns : doneAt'[d] <= now
    BY <1>3 DEF Col!release, ColumnType
  <2> QED BY <1>3, <2>1, <2>2, <2>3 DEF Col!release, ColumnType
<1>4. CASE Col!Tick
  <2>1. Col!Holding' = Col!Holding
    BY <1>4 DEF Col!Tick, Col!Holding
  <2>2. left' \in [Col!Holding' -> 0..ServiceTime]
    BY <1>4, <2>1 DEF Col!Tick, Col!Blocked, ColumnType
  <2>3. \A d \in Col!Columns : cameAt[d] <= now + 1 /\ doneAt[d] <= now + 1
    BY <1>0 DEF ColumnType
  <2> QED BY <1>4, <2>1, <2>2, <2>3 DEF Col!Tick, ColumnType
<1>5. CASE UNCHANGED Col!vars
  BY <1>5 DEF Col!vars, ColumnType, Col!Holding
<1> QED BY <1>1, <1>2, <1>3, <1>4, <1>5 DEF Col!Next

\* A column that has started is out at an instant, at most a service time ahead.
LEMMA OutType ==
  ASSUME Configured, ColumnType, OrderInv, NEW c \in Started
  PROVE  /\ c \in Col!Columns /\ Out(c) \in Nat /\ Out(c) <= now + ServiceTime
         /\ Out(c) > now => c \in Col!Holding
<1>1. CASE c \in Col!Holding
  <2>1. c \in Col!Columns /\ left[c] \in 0..ServiceTime /\ now \in Nat /\ ServiceTime \in Nat
    BY <1>1 DEF ColumnType, Configured
  <2> QED BY <1>1, <2>1 DEF Out
<1>2. CASE c \notin Col!Holding
  BY <1>2 DEF ColumnType, Started, Done, Out, Configured
<1> QED BY <1>1, <1>2

\* Columns go on in order.
LEMMA NextOrder ==
  ASSUME Configured, ColumnType, OrderInv, [Col!Next]_(Col!vars)
  PROVE  OrderInv'
<1>0. Col!Came \subseteq Col!Columns /\ \A d \in Col!Columns : cameAt[d] \in Nat /\ cameAt[d] <= now
  BY DEF Col!Came, ColumnType
<1>1. ASSUME NEW c \in Col!Columns, Col!verify(c) PROVE OrderInv'
  <2>1. c \in Nat \ {0}
    BY DEF Col!Columns, Configured
  <2>2. \A i \in 1..Len(waiting') : waiting'[i] = LastStarted' + i
    <3>1. /\ LastStarted' = LastStarted /\ Cardinality(Col!Came) = c - 1
          /\ Len(waiting) \in Nat /\ Len(waiting') = Len(waiting) + 1
          /\ \A i \in 1..Len(waiting) : waiting'[i] = waiting[i]
          /\ waiting'[Len(waiting) + 1] = c
      BY <1>1, VerifyEffect
    <3>2. LastStarted + Len(waiting) + 1 = c /\ LastStarted \in Nat
      BY <2>1, <3>1 DEF LastStarted, OrderInv
    <3> SUFFICES ASSUME NEW i \in 1..Len(waiting') PROVE waiting'[i] = LastStarted' + i
      OBVIOUS
    <3>3. CASE i \in 1..Len(waiting)
      BY <3>1, <3>3 DEF OrderInv
    <3>4. CASE i = Len(waiting) + 1
      BY <3>1, <3>2, <3>4
    <3>5. i \in 1..Len(waiting) \/ i = Len(waiting) + 1
      BY <3>1
    <3> QED BY <3>3, <3>4, <3>5
  <2>3. \A d, e \in Col!Came' : d < e => cameAt'[d] <= cameAt'[e]
    <3>1. Col!Came' = Col!Came \cup {c} /\ \A d \in Col!Came : d < c
      BY <1>1, <2>1, VerifyEffect DEF OrderInv
    <3>2. \A d \in Col!Came : cameAt'[d] = cameAt[d]
      BY <1>0, <1>1, <3>1, SameCount DEF Col!verify, ColumnType
    <3>3. cameAt'[c] = now
      BY <1>1 DEF Col!verify, ColumnType
    <3> QED BY <1>0, <2>1, <3>1, <3>2, <3>3 DEF OrderInv
  <2> QED BY <1>1, <2>1, <2>2, <2>3, VerifyEffect DEF OrderInv
<1>2. CASE Col!acquire
  <2>1. \A i \in 1..Len(waiting') : waiting'[i] = LastStarted' + i
    <3>1. /\ LastStarted' = LastStarted + 1
          /\ Len(waiting) \in Nat /\ Len(waiting') = Len(waiting) - 1
          /\ \A i \in 1..Len(waiting') : waiting'[i] = waiting[i + 1]
      BY <1>2, AcquireEffect
    <3>2. LastStarted \in Nat /\ \A i \in 1..Len(waiting) : waiting[i] = LastStarted + i
      BY DEF OrderInv
    <3> SUFFICES ASSUME NEW i \in 1..Len(waiting') PROVE waiting'[i] = LastStarted' + i
      OBVIOUS
    <3>3. i \in Nat /\ i + 1 \in 1..Len(waiting) /\ waiting'[i] = waiting[i + 1]
      BY <3>1
    <3> QED BY <3>1, <3>2, <3>3
  <2>2. Started' = 1..LastStarted' /\ LastStarted' \in Nat
    <3>1. LastStarted \in Nat /\ Started = 1..LastStarted
      BY DEF OrderInv
    <3>2. LastStarted' = LastStarted + 1 /\ Started' = Started \cup {LastStarted + 1}
      BY <1>2, AcquireEffect
    <3>3. 1..(LastStarted + 1) = (1..LastStarted) \cup {LastStarted + 1}
      BY <3>1
    <3> QED BY <3>1, <3>2, <3>3
  <2>3. Col!Holding' \cap Done' = {}
    BY <1>2, AcquireEffect DEF OrderInv, Started
  <2>4. cameAt' = cameAt
    BY <1>2 DEF Col!acquire
  <2> QED BY <1>2, <2>1, <2>2, <2>3, <2>4, AcquireEffect DEF OrderInv
<1>3. ASSUME NEW c \in Col!Columns, Col!release(c) PROVE OrderInv'
  <2>1. UNCHANGED <<waiting, cameAt>>
    BY <1>3 DEF Col!release
  <2> QED BY <1>3, <2>1, ReleaseEffect DEF OrderInv
<1>4. CASE Col!Tick
  <2>1. UNCHANGED <<waiting, cameAt>>
    BY <1>4 DEF Col!Tick
  <2> QED BY <1>4, <2>1, TickEffect DEF OrderInv
<1>5. CASE UNCHANGED Col!vars
  BY <1>5 DEF Col!vars, OrderInv, LastStarted, Col!Came, Started, Done, Col!Holding
<1> QED BY <1>1, <1>2, <1>3, <1>4, <1>5 DEF Col!Next

\* A column that starts is out last.
LEMMA NextOut ==
  ASSUME Configured, ColumnType, OrderInv, OutInv, [Col!Next]_(Col!vars)
  PROVE  OutInv'
<1>1. ASSUME NEW c \in Col!Columns, Col!verify(c) PROVE OutInv'
  BY <1>1, VerifyEffect DEF OutInv
<1>2. CASE Col!acquire
  <2> SUFFICES ASSUME NEW c \in Started', NEW d \in Started', c < d PROVE Out(c)' <= Out(d)'
    BY DEF OutInv
  <2>1. LastStarted \in Nat /\ \A i \in Started : i \in Nat /\ i < LastStarted + 1
    BY DEF OrderInv
  <2>2. c \in Started
    BY <1>2, <2>1, AcquireEffect
  <2>3. Out(c)' = Out(c) /\ Out(c) <= now + ServiceTime
    BY <1>2, <2>2, AcquireEffect, OutType
  <2>4. CASE d \in Started
    BY <1>2, <2>2, <2>3, <2>4, AcquireEffect DEF OutInv
  <2>5. CASE d = LastStarted + 1
    BY <1>2, <2>3, <2>5, AcquireEffect
  <2> QED BY <1>2, <2>4, <2>5, AcquireEffect
<1>3. ASSUME NEW c \in Col!Columns, Col!release(c) PROVE OutInv'
  BY <1>3, ReleaseEffect DEF OutInv
<1>4. CASE Col!Tick
  BY <1>4, TickEffect DEF OutInv
<1>5. CASE UNCHANGED Col!vars
  BY <1>5 DEF Col!vars, OutInv, Out, Started, Done, Col!Holding
<1> QED BY <1>1, <1>2, <1>3, <1>4, <1>5 DEF Col!Next

\* A window that a starting column is out in has nobody in it but columns that
\* hold a place.
LEMMA NextWidth ==
  ASSUME Configured, ColumnType, OrderInv, WidthInv, [Col!Next]_(Col!vars)
  PROVE  WidthInv'
<1>0. \A t \in Nat : OutWithin(t) \in SUBSET Col!Columns
  BY OutType DEF OutWithin
<1>1. ASSUME NEW c \in Col!Columns, Col!verify(c) PROVE WidthInv'
  <2>1. \A t \in Nat : OutWithin(t)' = OutWithin(t)
    BY <1>1, VerifyEffect DEF OutWithin
  <2>2. Col!Holding' = Col!Holding /\ width' = width
    BY <1>1, VerifyEffect DEF Col!verify
  <2> QED BY <2>1, <2>2 DEF WidthInv
<1>2. CASE Col!acquire
  <2> DEFINE h == LastStarted + 1
  <2>1. Col!Holding \in SUBSET Col!Columns /\ h \notin Col!Holding /\ Col!Holding' = Col!Holding \cup {h} /\ width' = width
        /\ width \in Nat /\ Cardinality(Col!Holding) < width
    BY <1>2, AcquireEffect, SameCount DEF ColumnType, Started, Col!acquire, Col!HasRoom
  <2>2. Cardinality(Col!Holding') <= width
    <3>1. IsFiniteSet(Col!Holding) /\ Cardinality(Col!Holding) \in Nat
      BY <2>1, ColumnSets
    <3>2. Cardinality(Col!Holding \cup {h}) = Cardinality(Col!Holding) + 1
      BY <2>1, <3>1, FS_AddElement
    <3> QED BY <2>1, <3>1, <3>2
  <2>3. ASSUME NEW t \in Nat PROVE Cardinality(OutWithin(t)') <= width
    <3>1. CASE now + ServiceTime \in t..(t + ServiceTime - 1)
      <4>1. t > now
        BY <3>1 DEF ColumnType, Configured
      <4>2. OutWithin(t)' \subseteq Col!Holding'
        <5> SUFFICES ASSUME NEW c \in OutWithin(t)', c # h PROVE c \in Col!Holding'
          BY <2>1
        <5>1. c \in Started /\ Out(c)' = Out(c) /\ Out(c) \in t..(t + ServiceTime - 1)
          BY <1>2, AcquireEffect DEF OutWithin
        <5>2. Out(c) > now
          BY <4>1, <5>1, OutType DEF ColumnType
        <5> QED BY <2>1, <5>1, <5>2, OutType
      <4>3. Col!Holding' \in SUBSET Col!Columns
        BY <1>2, NextColumnType DEF ColumnType, Col!Next
      <4> QED BY <2>1, <2>2, <4>2, <4>3, ColumnSets
    <3>2. CASE now + ServiceTime \notin t..(t + ServiceTime - 1)
      <4>1. OutWithin(t)' = OutWithin(t)
        BY <1>2, <3>2, AcquireEffect DEF OutWithin, Col!acquire
      <4> QED BY <4>1 DEF WidthInv
    <3> QED BY <3>1, <3>2
  <2> QED BY <2>1, <2>2, <2>3 DEF WidthInv
<1>3. ASSUME NEW c \in Col!Columns, Col!release(c) PROVE WidthInv'
  <2>1. \A t \in Nat : OutWithin(t)' = OutWithin(t)
    BY <1>3, ReleaseEffect DEF OutWithin
  <2>2. Col!Holding \in SUBSET Col!Columns /\ Col!Holding' \in SUBSET Col!Holding /\ width' = width
    BY <1>3, ReleaseEffect DEF Col!release, ColumnType
  <2>3. Cardinality(Col!Holding') <= Cardinality(Col!Holding) /\ Cardinality(Col!Holding') \in Nat
        /\ Cardinality(Col!Holding) \in Nat
    BY <2>2, ColumnSets
  <2> QED BY <2>1, <2>2, <2>3 DEF WidthInv, ColumnType
<1>4. CASE Col!Tick
  <2>1. \A t \in Nat : OutWithin(t)' = OutWithin(t)
    BY <1>4, TickEffect DEF OutWithin
  <2>2. Col!Holding' = Col!Holding /\ width' = width
    BY <1>4, TickEffect DEF Col!Tick
  <2> QED BY <2>1, <2>2 DEF WidthInv
<1>5. CASE UNCHANGED Col!vars
  BY <1>5 DEF Col!vars, WidthInv, OutWithin, Out, Started, Done, Col!Holding
<1> QED BY <1>1, <1>2, <1>3, <1>4, <1>5 DEF Col!Next

\* A waiting column is looked at again when the column a width before it is out:
\* time passes only while every place is held, and the oldest of the holders is
\* at least a width older.
LEMMA NextPunctual ==
  ASSUME Configured, ColumnType, OrderInv, OutInv, PunctualInv, [Col!Next]_(Col!vars)
  PROVE  PunctualInv'
<1>0. width \in Nat \ {0} /\ now \in Nat /\ LastStarted \in Nat /\ Started = 1..LastStarted
      /\ Cardinality(Col!Came) \in Nat /\ Col!Came = 1..Cardinality(Col!Came) /\ Col!Came \subseteq Col!Columns
  BY DEF ColumnType, OrderInv, Col!Came
<1>1. ASSUME NEW c \in Col!Columns, Col!verify(c) PROVE PunctualInv'
  <2>1. /\ Col!Came' = Col!Came \cup {c} /\ Started' = Started /\ width' = width /\ now' = now
        /\ \A i \in Started : Out(i)' = Out(i)
    <3>1. 1..c = (1..(c - 1)) \cup {c}
      BY DEF Col!Columns, Configured
    <3> QED BY <1>1, <3>1, VerifyEffect DEF Col!verify
  <2>2. cameAt'[c] = now /\ \A d \in Col!Came : d # c => cameAt'[d] = cameAt[d]
    BY <1>0, <1>1, SameCount DEF Col!verify, ColumnType
  <2> QED BY <2>1, <2>2 DEF PunctualInv
<1>2. CASE Col!acquire
  <2>1. /\ Col!Came' = Col!Came /\ Started' = Started \cup {LastStarted + 1} /\ width' = width
        /\ now' = now /\ cameAt' = cameAt /\ \A i \in Started : Out(i)' = Out(i)
        /\ \A i : i = LastStarted + 1 => Out(i)' = now + ServiceTime
    BY <1>2, AcquireEffect DEF Col!acquire
  <2>2. now <= now + ServiceTime
    BY <1>0 DEF Configured
  <2> QED BY <2>1, <2>2 DEF PunctualInv
<1>3. ASSUME NEW c \in Col!Columns, Col!release(c) PROVE PunctualInv'
  <2>1. width' = width /\ now' = now /\ cameAt' = cameAt
    BY <1>3 DEF Col!release
  <2> QED BY <1>3, <2>1, ReleaseEffect DEF PunctualInv
<1>4. CASE Col!Tick
  <2> SUFFICES ASSUME NEW c \in Col!Came \ Started
               PROVE  c > width /\ (c - width \in Started => now + 1 <= Out(c - width))
    <3>1. width' = width /\ now' = now + 1
      BY <1>4 DEF Col!Tick
    <3>2. Col!Came' = Col!Came /\ Started' = Started /\ \A i \in Started : Out(i)' = Out(i)
      BY <1>4, TickEffect
    <3> QED BY <3>1, <3>2 DEF PunctualInv
  <2>1. c \in Nat /\ c > LastStarted /\ Len(waiting) \in Nat \ {0}
    BY <1>0 DEF LastStarted, ColumnType
  <2>2. /\ Cardinality(Col!Holding) >= width /\ Cardinality(Col!Holding) \in Nat /\ IsFiniteSet(Col!Holding)
        /\ \A m \in Col!Holding : left[m] \in Nat /\ left[m] > 0
    <3>1. Len(<<>>) = 0
      OBVIOUS
    <3>2. Col!Holding \in SUBSET Col!Columns
      BY DEF ColumnType
    <3>3. Cardinality(Col!Holding) \in Nat /\ IsFiniteSet(Col!Holding)
      BY <3>2, ColumnSets
    <3>4. ~Col!HasRoom /\ \A m \in Col!Holding : left[m] > 0
      BY <1>4, <2>1, <3>1 DEF Col!Tick, Col!Blocked
    <3> QED BY <1>0, <3>3, <3>4, SameCount DEF Col!HasRoom, ColumnType
  <2>3. Col!Holding \subseteq 1..LastStarted
    BY <1>0 DEF Started
  <2>4. LastStarted >= width
    <3>1. IsFiniteSet(1..LastStarted) /\ Cardinality(1..LastStarted) = LastStarted
      <4>1. 1 \in Int /\ LastStarted \in Int /\ 1 <= LastStarted + 1 /\ LastStarted - 1 + 1 = LastStarted
        BY <1>0
      <4> QED BY <4>1, IntervalSize
    <3>2. Cardinality(Col!Holding) <= Cardinality(1..LastStarted)
      BY <2>3, <3>1, FS_Subset
    <3> QED BY <1>0, <2>2, <3>1, <3>2
  <2>5. ASSUME c - width \in Started PROVE now + 1 <= Out(c - width)
    <3>1. \E m \in Col!Holding : m <= c - width
      <4> SUFFICES ASSUME \A m \in Col!Holding : ~(m <= c - width) PROVE FALSE
        OBVIOUS
      <4>1. Col!Holding \subseteq (c - width + 1)..LastStarted
        BY <1>0, <2>1, <2>3
      <4>2. /\ IsFiniteSet((c - width + 1)..LastStarted)
            /\ Cardinality((c - width + 1)..LastStarted) = LastStarted - c + width
        <5>1. /\ c - width + 1 \in Int /\ LastStarted \in Int /\ c - width + 1 <= LastStarted + 1
              /\ LastStarted - (c - width + 1) + 1 = LastStarted - c + width
          BY <1>0, <2>1, <2>5
        <5> QED BY <5>1, IntervalSize
      <4>3. Cardinality(Col!Holding) <= LastStarted - c + width
        <5>1. Cardinality(Col!Holding) <= Cardinality((c - width + 1)..LastStarted)
          BY <4>1, <4>2, FS_Subset, Zenon
        <5> QED BY <4>2, <5>1
      <4> QED BY <1>0, <2>1, <2>2, <4>3
    <3>2. PICK m \in Col!Holding : m <= c - width
      BY <3>1
    <3>3. m \in Started /\ m \in Nat /\ c - width \in Nat /\ Out(m) \in Nat /\ Out(c - width) \in Nat
      BY <1>0, <2>3, <2>5, OutType DEF Started
    <3>4. Out(m) >= now + 1
      BY <1>0, <2>2 DEF Out
    <3>5. Out(m) <= Out(c - width)
      BY <2>5, <3>2, <3>3 DEF OutInv
    <3> QED BY <1>0, <3>3, <3>4, <3>5
  <2> QED BY <1>0, <2>1, <2>4, <2>5
<1>5. CASE UNCHANGED Col!vars
  BY <1>5 DEF Col!vars, PunctualInv, Col!Came, Out, Started, Done, Col!Holding
<1> QED BY <1>1, <1>2, <1>3, <1>4, <1>5 DEF Col!Next

\* A round costs a service time.
LEMMA RoundCost ==
  ASSUME NEW s \in Nat, NEW k \in Nat
  PROVE  s * k \in Nat /\ s * (k + 1) = s * k + s
OBVIOUS

\* The column that starts: it came now, or the column a width before it is out in
\* the round before.
LEMMA NextRounds ==
  ASSUME Configured, ColumnType, OrderInv, OutInv, PunctualInv, RoundsInv, [Col!Next]_(Col!vars)
  PROVE  RoundsInv'
<1>0. /\ width \in Nat \ {0} /\ now \in Nat /\ LastStarted \in Nat /\ Started = 1..LastStarted
      /\ Cardinality(Col!Came) \in Nat /\ Col!Came = 1..Cardinality(Col!Came) /\ Col!Came \subseteq Col!Columns
      /\ LastStarted <= Cardinality(Col!Came)
      /\ \A c \in Col!Came : ahead[c] \in Nat /\ First(c) \in Int /\ cameAt[c] \in Nat /\ cameAt[c] <= now
      /\ ServiceTime \in Nat
  <2>1. \A c \in Col!Came : c \in Nat /\ ahead[c] \in Nat
    BY DEF Col!Came, ColumnType, Col!Columns, Configured
  <2>2. Len(waiting) \in Nat
    BY DEF ColumnType
  <2> QED BY <2>1, <2>2 DEF ColumnType, OrderInv, Col!Came, First, Configured, LastStarted
<1>1. ASSUME NEW c \in Col!Columns, Col!verify(c) PROVE RoundsInv'
  <2>1. /\ Col!Came' = Col!Came \cup {c} /\ c \notin Col!Came /\ Started' = Started /\ width' = width /\ now' = now
        /\ \A i \in Started : Out(i)' = Out(i)
    <3>1. 1..c = (1..(c - 1)) \cup {c} /\ c \notin 1..(c - 1)
      BY DEF Col!Columns, Configured
    <3> QED BY <1>1, <3>1, VerifyEffect DEF Col!verify
  <2>2. /\ cameAt'[c] = now /\ ahead'[c] = Len(waiting) + Cardinality(Col!Holding)
        /\ \A d \in Col!Came : d # c => cameAt'[d] = cameAt[d] /\ ahead'[d] = ahead[d]
    BY <1>0, <1>1, SameCount DEF Col!verify, ColumnType
  <2>3. \A d \in Col!Came : First(d)' = First(d) /\ cameAt'[d] = cameAt[d]
    BY <2>1, <2>2 DEF First
  <2>4. /\ Cardinality(Col!Holding) \in Nat /\ IsFiniteSet(Col!Holding)
        /\ First(c)' = LastStarted + 1 - Cardinality(Col!Holding) /\ c \in Nat \ {0} /\ LastStarted < c
    <3>1. Col!Holding \in SUBSET Col!Columns
      BY DEF ColumnType
    <3>2. Cardinality(Col!Holding) \in Nat /\ IsFiniteSet(Col!Holding)
      BY <3>1, ColumnSets
    <3>3. c \in Nat \ {0}
      BY DEF Col!Columns, Configured
    <3>4. Cardinality(Col!Came) = c - 1 /\ Len(waiting) \in Nat
      BY <1>1, VerifyEffect
    <3> QED BY <1>0, <2>2, <3>2, <3>3, <3>4 DEF First, LastStarted
  <2>5. ASSUME NEW i \in 1..(c - 1), i < First(c)' PROVE i \in Started /\ Out(i) <= now
    <3>1. i \in Started
      BY <1>0, <2>4, <2>5
    <3>2. Out(i) \in Nat
      BY <3>1, OutType
    <3>3. ASSUME Out(i) > now PROVE FALSE
      <4>1. \A j \in i..LastStarted : j \in Col!Holding
        <5> SUFFICES ASSUME NEW j \in i..LastStarted PROVE j \in Col!Holding
          OBVIOUS
        <5>1. j \in Started /\ (i = j \/ i < j)
          BY <1>0
        <5>2. Out(i) <= Out(j) /\ Out(j) \in Nat
          BY <3>1, <3>2, <5>1, OutType DEF OutInv
        <5> QED BY <1>0, <3>2, <3>3, <5>1, <5>2, OutType
      <4>2. Cardinality(i..LastStarted) = LastStarted - i + 1
        BY <1>0, <3>1, IntervalSize
      <4>3. Cardinality(i..LastStarted) <= Cardinality(Col!Holding)
        BY <2>4, <4>1, FS_Subset
      <4> QED BY <1>0, <2>4, <2>5, <4>2, <4>3
    <3> QED BY <1>0, <3>1, <3>2, <3>3
  <2>6. ASSUME NEW i \in Started, First(c)' <= i, i <= c
        PROVE  Out(i) <= now + ServiceTime * Col!CeilDiv(i - First(c)' + 1, width)
    <3> DEFINE k == Col!CeilDiv(i - First(c)' + 1, width)
    <3>1. i - First(c)' + 1 \in Nat \ {0}
      BY <1>0, <2>4, <2>6
    <3>2. k \in Nat \ {0}
      BY <1>0, <3>1, NextRound
    <3> HIDE DEF k
    <3>3. ServiceTime * k >= ServiceTime
      <4>1. k - 1 \in Nat /\ k = (k - 1) + 1
        BY <3>2
      <4>2. ServiceTime * (k - 1) \in Nat /\ ServiceTime * ((k - 1) + 1) = ServiceTime * (k - 1) + ServiceTime
        BY <1>0, <4>1, RoundCost
      <4> QED BY <1>0, <4>1, <4>2
    <3>4. Out(i) <= now + ServiceTime /\ Out(i) \in Nat
      BY OutType
    <3>5. ServiceTime * k \in Nat
      BY <1>0, <3>2, RoundCost
    <3>6. Out(i) <= now + ServiceTime * k
      BY <1>0, <3>3, <3>4, <3>5
    <3> QED BY <3>6 DEF k
  <2> SUFFICES ASSUME NEW d \in Col!Came'
               PROVE  /\ \A i \in 1..(d - 1) : i < First(d)' => i \in Started' /\ Out(i)' <= cameAt'[d]
                      /\ \A i \in Started' : First(d)' <= i /\ i <= d =>
                           Out(i)' <= cameAt'[d] + ServiceTime * Col!CeilDiv(i - First(d)' + 1, width')
    BY DEF RoundsInv
  <2>7. CASE d \in Col!Came
    BY <2>1, <2>3, <2>7 DEF RoundsInv
  <2>8. CASE d = c
    BY <2>1, <2>2, <2>5, <2>6, <2>8
  <2> QED BY <2>1, <2>7, <2>8
<1>2. CASE Col!acquire
  <2> DEFINE h == LastStarted + 1
  <2>1. /\ Col!Came' = Col!Came /\ Started' = Started \cup {h} /\ h \in Col!Came \ Started /\ width' = width
        /\ ahead' = ahead /\ cameAt' = cameAt /\ \A i \in Started : Out(i)' = Out(i)
        /\ \A i : i = h => Out(i)' = now + ServiceTime
    BY <1>2, AcquireEffect DEF Col!acquire
  <2>2. \A c \in Col!Came : First(c)' = First(c)
    BY <2>1 DEF First
  <2>3. ASSUME NEW c \in Col!Came, First(c) <= h, h <= c
        PROVE  now + ServiceTime <= cameAt[c] + ServiceTime * Col!CeilDiv(h - First(c) + 1, width)
    <3> DEFINE r == h - First(c) + 1
               k == Col!CeilDiv(r, width)
    <3>1. r \in Nat \ {0} /\ h \in Nat /\ c \in Nat
      BY <1>0, <2>3
    <3>2. k \in Nat \ {0} /\ (r > width => k = Col!CeilDiv(r - width, width) + 1)
      BY <1>0, <3>1, NextRound
    <3>3. ServiceTime * k \in Nat /\ ServiceTime * (k - 1) \in Nat
          /\ ServiceTime * k = ServiceTime * (k - 1) + ServiceTime
      <4> HIDE DEF k
      <4>1. k - 1 \in Nat /\ k = (k - 1) + 1 /\ k \in Nat
        BY <3>2
      <4>2. ServiceTime * (k - 1) \in Nat /\ ServiceTime * ((k - 1) + 1) = ServiceTime * (k - 1) + ServiceTime
        BY <1>0, <4>1, RoundCost
      <4> QED BY <1>0, <4>1, <4>2, RoundCost
    <3>4. now <= cameAt[c] + ServiceTime * (k - 1)
      <4>1. CASE now = cameAt[c]
        <5> HIDE DEF k
        <5> QED BY <1>0, <3>3, <4>1
      <4>2. CASE now > cameAt[c]
        <5>1. cameAt[h] <= cameAt[c] /\ now # cameAt[h]
          <6>1. h \in Col!Came /\ (h = c \/ h < c)
            BY <2>1, <2>3, <3>1
          <6>2. h < c => cameAt[h] <= cameAt[c]
            BY <2>3, <6>1 DEF OrderInv
          <6>3. cameAt[h] \in Nat /\ cameAt[c] \in Nat
            BY <1>0, <2>3, <6>1
          <6> HIDE DEF h
          <6> QED BY <1>0, <4>2, <6>1, <6>2, <6>3
        <5>2. h > width /\ (h - width \in Started => now <= Out(h - width))
          BY <2>1, <5>1 DEF PunctualInv
        <5>3. h - width \in Started /\ h - width \in 1..(c - 1) /\ h - width < c
          BY <1>0, <2>3, <3>1, <5>2
        <5>4. now <= Out(h - width) /\ Out(h - width) \in Nat
          BY <5>2, <5>3, OutType
        <5>5. First(c) <= h - width
          <6>1. h - width < First(c) => Out(h - width) <= cameAt[c]
            BY <2>3, <5>3 DEF RoundsInv
          <6> QED BY <1>0, <2>3, <4>2, <5>3, <5>4, <6>1
        <5>6. Out(h - width) <= cameAt[c] + ServiceTime * Col!CeilDiv((h - width) - First(c) + 1, width)
          BY <1>0, <2>3, <3>1, <5>3, <5>5 DEF RoundsInv
        <5>7. (h - width) - First(c) + 1 = r - width /\ r > width
          BY <1>0, <2>3, <3>1, <5>5
        <5>8. Col!CeilDiv((h - width) - First(c) + 1, width) = k - 1
          <6>1. r - width \in Nat \ {0}
            BY <1>0, <3>1, <5>7
          <6>2. Col!CeilDiv(r - width, width) \in Nat
            BY <1>0, <6>1, NextRound
          <6> HIDE DEF k, r
          <6> QED BY <3>2, <5>7, <6>2
        <5> HIDE DEF k, r
        <5>9. Out(h - width) <= cameAt[c] + ServiceTime * (k - 1)
          BY <5>6, <5>8
        <5> DEFINE o == Out(h - width)
                   b == cameAt[c] + ServiceTime * (k - 1)
        <5>10. o \in Nat /\ b \in Int /\ now \in Int /\ now <= o /\ o <= b
          BY <1>0, <2>3, <3>3, <5>4, <5>9
        <5> HIDE DEF o, b
        <5>11. now <= b
          BY <5>10
        <5> QED BY <5>11 DEF b
      <4> QED BY <1>0, <2>3, <4>1, <4>2
    <3>5. now + ServiceTime <= cameAt[c] + ServiceTime * k
      <4> HIDE DEF k
      <4> QED BY <1>0, <2>3, <3>3, <3>4
    <3> QED BY <3>5
  <2> SUFFICES ASSUME NEW d \in Col!Came
               PROVE  /\ \A i \in 1..(d - 1) : i < First(d) => i \in Started' /\ Out(i)' <= cameAt[d]
                      /\ \A i \in Started' : First(d) <= i /\ i <= d =>
                           Out(i)' <= cameAt[d] + ServiceTime * Col!CeilDiv(i - First(d) + 1, width)
    BY <2>1, <2>2 DEF RoundsInv
  <2>4. \A i \in 1..(d - 1) : i < First(d) => i \in Started' /\ Out(i)' <= cameAt[d]
    BY <2>1 DEF RoundsInv
  <2>5. ASSUME NEW i \in Started', First(d) <= i, i <= d
        PROVE  Out(i)' <= cameAt[d] + ServiceTime * Col!CeilDiv(i - First(d) + 1, width)
    <3>1. CASE i \in Started
      BY <2>1, <2>5, <3>1 DEF RoundsInv
    <3>2. CASE i = h
      BY <2>1, <2>3, <2>5, <3>2
    <3> QED BY <2>1, <3>1, <3>2
  <2> QED BY <2>4, <2>5
<1>3. ASSUME NEW c \in Col!Columns, Col!release(c) PROVE RoundsInv'
  <2>1. width' = width /\ ahead' = ahead /\ cameAt' = cameAt
    BY <1>3 DEF Col!release
  <2>2. /\ Col!Came' = Col!Came /\ Started' = Started
        /\ \A i \in Started : Out(i)' = Out(i)
    BY <1>3, ReleaseEffect
  <2> QED BY <2>1, <2>2 DEF RoundsInv, First
<1>4. CASE Col!Tick
  <2>1. width' = width /\ ahead' = ahead /\ cameAt' = cameAt
    BY <1>4 DEF Col!Tick
  <2>2. /\ Col!Came' = Col!Came /\ Started' = Started
        /\ \A i \in Started : Out(i)' = Out(i)
    BY <1>4, TickEffect
  <2> QED BY <2>1, <2>2 DEF RoundsInv, First
<1>5. CASE UNCHANGED Col!vars
  BY <1>5 DEF Col!vars, RoundsInv, First, Col!Came, Out, Started, Done, Col!Holding
<1> QED BY <1>1, <1>2, <1>3, <1>4, <1>5 DEF Col!Next

\* The invariant says how long a column takes ...
LEMMA RoundsBoundLatency ==
  ASSUME Configured, ColumnInv
  PROVE  Col!LatencyBound
<1> SUFFICES ASSUME NEW c \in Col!Columns, doneAt[c] >= 0
             PROVE  doneAt[c] - cameAt[c] <= ServiceTime * Col!CeilDiv(ahead[c] + 1, width)
  BY DEF Col!LatencyBound
<1> USE DEF ColumnInv
<1>1. c \in Started /\ Out(c) = doneAt[c]
  BY DEF Started, Done, Out, OrderInv
<1>2. c \in Col!Came /\ c \in Nat
  <2>1. LastStarted \in Nat /\ Cardinality(Col!Came) \in Nat /\ LastStarted <= Cardinality(Col!Came)
    BY DEF OrderInv, LastStarted, ColumnType
  <2> QED BY <1>1, <2>1 DEF OrderInv
<1>3. ahead[c] \in Nat /\ cameAt[c] \in Nat /\ doneAt[c] \in Nat /\ width \in Nat \ {0} /\ ServiceTime \in Nat
  BY <1>2 DEF ColumnType, Col!Came, Configured
<1>4. First(c) <= c /\ c - First(c) + 1 = ahead[c] + 1
  BY <1>2, <1>3 DEF First
<1>5. Out(c) <= cameAt[c] + ServiceTime * Col!CeilDiv(ahead[c] + 1, width)
  BY <1>1, <1>2, <1>4 DEF RoundsInv
<1>6. ServiceTime * Col!CeilDiv(ahead[c] + 1, width) \in Nat
  <2>1. Col!CeilDiv(ahead[c] + 1, width) \in Nat
    BY <1>3, NextRound
  <2> QED BY <1>3, <2>1, RoundCost
<1> QED BY <1>1, <1>3, <1>5, <1>6

\* ... and how many are done within a service time.
LEMMA WidthBoundsRate ==
  ASSUME Configured, ColumnInv
  PROVE  Col!NoFasterThanWidth
<1> SUFFICES ASSUME NEW t \in 0..now
             PROVE  Cardinality({c \in Col!Columns : doneAt[c] \in t..(t + ServiceTime - 1)}) <= width
  BY SameCount DEF Col!NoFasterThanWidth
<1> DEFINE D == {c \in Col!Columns : doneAt[c] \in t..(t + ServiceTime - 1)}
<1> USE DEF ColumnInv
<1>1. t \in Nat /\ width \in Nat
  BY DEF ColumnType
<1>2. OutWithin(t) \in SUBSET Col!Columns
  BY OutType DEF OutWithin
<1>3. D \in SUBSET OutWithin(t)
  <2> SUFFICES ASSUME NEW c \in D PROVE c \in OutWithin(t)
    OBVIOUS
  <2>1. doneAt[c] >= 0
    BY <1>1 DEF Configured
  <2>2. c \in Started /\ Out(c) = doneAt[c]
    BY <2>1 DEF Started, Done, Out, OrderInv
  <2> QED BY <2>2 DEF OutWithin
<1>4. Cardinality(D) <= Cardinality(OutWithin(t)) /\ Cardinality(D) \in Nat /\ Cardinality(OutWithin(t)) \in Nat
  BY <1>2, <1>3, ColumnSets
<1>5. Cardinality(OutWithin(t)) <= width
  BY <1>1 DEF WidthInv
<1> HIDE DEF D
<1>6. Cardinality(D) <= width
  BY <1>1, <1>4, <1>5
<1> QED BY <1>6 DEF D

\* The order in which columns are out, decided when they start, is kept.
LEMMA ColumnsKept ==
  ASSUME Configured
  PROVE  Col!Spec => []ColumnInv
<1>1. Col!Init => ColumnInv
  BY InitColumns
<1>2. ColumnInv /\ [Col!Next]_(Col!vars) => ColumnInv'
  <2> SUFFICES ASSUME ColumnInv, [Col!Next]_(Col!vars) PROVE ColumnInv'
    OBVIOUS
  <2> USE DEF ColumnInv
  <2>1. ColumnType' /\ OrderInv'
    BY NextColumnType, NextOrder
  <2>2. OutInv' /\ WidthInv'
    BY NextOut, NextWidth
  <2>3. PunctualInv' /\ RoundsInv'
    BY NextPunctual, NextRounds
  <2> QED BY <2>1, <2>2, <2>3
<1> QED BY <1>1, <1>2, PTL DEF Col!Spec

\* Whatever the width, the service time and the arrivals: a column that found n
\* others in the verifier is out after at most ceil((n+1)/P) service times.
THEOREM LatencyBounded == Col!Spec => []LatencyBound
<1>1. Col!Spec => []ColumnInv
  BY ColumnsConfigured, ColumnsKept
<1>2. ColumnInv => LatencyBound
  BY ColumnsConfigured, RoundsBoundLatency DEF LatencyBound
<1> QED BY <1>1, <1>2, PTL

\* No P+1 columns are done within less than a service time of each other.
THEOREM WidthIsALimit == Col!Spec => []NoFasterThanWidth
<1>1. Col!Spec => []ColumnInv
  BY ColumnsConfigured, ColumnsKept
<1>2. ColumnInv => NoFasterThanWidth
  BY ColumnsConfigured, WidthBoundsRate DEF NoFasterThanWidth
<1> QED BY <1>1, <1>2, PTL
=============================================================================
