----------------------------- MODULE Verifiers -----------------------------
(***************************************************************************)
(* The two verifiers of a node: the batched one of the floods (extended    *)
(* here) and the semaphore of the columns.  They share no state.           *)
(***************************************************************************)
EXTENDS BatchVerifier

CONSTANTS NumCalls, Parallelisms, ServiceTime, LastArrival
VARIABLES width, waiting, left, now, ahead, cameAt, doneAt
colVars == <<width, waiting, left, now, ahead, cameAt, doneAt>>

Col == INSTANCE ColumnVerifier

\* A node's width is a number, unset or not, and time counts from zero.
Configured ==
  NumCalls \in Nat /\ Parallelisms \subseteq Int /\ ServiceTime \in Nat /\ LastArrival \in Int

ASSUME ColumnsConfigured == Configured

\* The latency the semaphore adds: a column that found n others in the verifier
\* is out after at most ceil((n+1)/P) service times, however arrivals and
\* releases at one instant interleave (column_verifier.go, verify).
LatencyBound == Col!LatencyBound

\* P is a real limit: no P+1 columns finish within less than a service time of
\* each other (newColumnVerifier's width).
NoFasterThanWidth == Col!NoFasterThanWidth
============================================================================
