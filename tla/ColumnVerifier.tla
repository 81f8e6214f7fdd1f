--------------------------- MODULE ColumnVerifier ---------------------------
(***************************************************************************)
(* The column verifier of a node (node/column_verifier.go): a semaphore of *)
(* width P that every arriving column takes for the service time.  Time is *)
(* counted in ticks; as under the simulators, it advances only when every  *)
(* goroutine is blocked, so what is possible at an instant happens then.   *)
(* Goroutines blocked on a Go channel are served in the order they came.   *)
(***************************************************************************)
EXTENDS Integers, Sequences, FiniteSets

CONSTANTS
  NumCalls,       \* the calls of verify, numbered in the order they come
  Parallelisms,   \* the widths a node may be configured with, unset (0) included
  ServiceTime,    \* the service time, in ticks
  LastArrival     \* bound: no column arrives after this tick

Columns == 1..NumCalls

VARIABLES
  width,     \* cap(v.sema)
  waiting,   \* columns blocked on the semaphore, in order
  left,      \* column holding a slot -> ticks of its sleep left
  now,
  ahead,     \* history: column -> columns in the verifier when it came, -1 before
  cameAt,    \* history: column -> the tick it came at
  doneAt     \* history: column -> the tick its verify returned, -1 before

vars == <<width, waiting, left, now, ahead, cameAt, doneAt>>

\* newColumnVerifier clamps the width to at least one.
newColumnVerifier(p) == IF p < 1 THEN 1 ELSE p

Init ==
  /\ \E p \in Parallelisms : width = newColumnVerifier(p)
  /\ waiting = <<>> /\ left = <<>> /\ now = 0
  /\ ahead = [c \in Columns |-> -1]
  /\ cameAt = [c \in Columns |-> 0]
  /\ doneAt = [c \in Columns |-> -1]

Holding == DOMAIN left
Came == {c \in Columns : ahead[c] >= 0}

\* verify: the call joins the queue for the semaphore ...
verify(c) ==
  /\ Came = 1..(c - 1) /\ now <= LastArrival
  /\ waiting' = Append(waiting, c)
  /\ ahead' = [ahead EXCEPT ![c] = Len(waiting) + Cardinality(Holding)]
  /\ cameAt' = [cameAt EXCEPT ![c] = now]
  /\ UNCHANGED <<width, left, now, doneAt>>

\* ... takes a slot when one is free, and sleeps ...
HasRoom_OffByOne == Cardinality(Holding) <= width \* mutant: one slot too many
HasRoom_Idle == Holding = {} \* mutant: one batch of columns after the other

HasRoom == Cardinality(Holding) < width

acquire ==
  /\ waiting # <<>> /\ HasRoom
  /\ left' = [c \in Holding \cup {Head(waiting)} |->
                IF c = Head(waiting) THEN ServiceTime ELSE left[c]]
  /\ waiting' = Tail(waiting)
  /\ UNCHANGED <<width, now, ahead, cameAt, doneAt>>

\* ... and releases it.
release(c) ==
  /\ c \in Holding /\ left[c] = 0
  /\ left' = [d \in Holding \ {c} |-> left[d]]
  /\ doneAt' = [doneAt EXCEPT ![c] = now]
  /\ UNCHANGED <<width, waiting, now, ahead, cameAt>>

Blocked == /\ waiting = <<>> \/ ~HasRoom
           /\ \A c \in Holding : left[c] > 0

Tick ==
  /\ Blocked
  /\ Holding # {} \/ now < LastArrival
  /\ now' = now + 1
  /\ left' = [c \in Holding |-> left[c] - 1]
  /\ UNCHANGED <<width, waiting, ahead, cameAt, doneAt>>

Next == acquire \/ Tick \/ \E c \in Columns : verify(c) \/ release(c)

\* Nobody has to send a column; goroutines run and time passes.
Spec == Init /\ [][Next]_vars /\ WF_vars(acquire) /\ WF_vars(Tick)
             /\ \A c \in Columns : WF_vars(release(c))

----------------------------------------------------------------------------
CeilDiv(a, b) == (a + b - 1) \div b

\* The latency the semaphore adds: a column that found n others in the verifier
\* is out after at most ceil((n+1)/P) service times, however arrivals and
\* releases at the same instant interleave; a burst of c columns into an idle
\* verifier therefore clears in ceil(c/P) of them.
LatencyBound ==
  \A c \in Columns : doneAt[c] >= 0 => doneAt[c] - cameAt[c] <= ServiceTime * CeilDiv(ahead[c] + 1, width)

\* P is a real limit: no P+1 columns finish within less than a service time of
\* each other, so a burst clears no faster either.
NoFasterThanWidth ==
  \A t \in 0..now : Cardinality({c \in Columns : doneAt[c] \in t..(t + ServiceTime - 1)}) <= width

============================================================================
