------------------------------ MODULE Backends ------------------------------
(***************************************************************************)
(* What frames the slots of a run, on either backend: the run from bring-  *)
(* up to Close (Lifecycle, extended here), the way of its configuration to *)
(* the node runners (Conf) and the record of its messages (Rec).  They     *)
(* share no state.                                                         *)
(***************************************************************************)
EXTENDS Lifecycle

CONSTANTS Configs, SlotMs, K, Hosts, StaggerMs
VARIABLES cfg, stage, plan, shadow, simnet
confVars == <<cfg, stage, plan, shadow, simnet>>

Conf == INSTANCE RunConfig

CONSTANTS Fleet, Programs, Proposer, Custody, Aggregators, Due, MaxTime, MaxCopies
VARIABLES program, time, at, pub, arrivals, orphans, wire, heard
recVars == <<program, time, at, pub, arrivals, orphans, wire, heard>>

Rec == INSTANCE Recorder WITH Nodes <- Fleet, now <- time

\* What simctl reads from a YAML, and the units.
Typed ==
  Configs \subseteq Conf!ConfigType /\ SlotMs \in Nat /\ K \in Nat /\ StaggerMs \in Nat

ASSUME ConfigsTyped == Typed

\* The programs are those the driver runs.
ASSUME ProgramsRun == Rec!Programmed

\* What is configured is what runs: with a startup above the join stagger an
\* accepted configuration runs on simnet just if it does on every Shadow host, and
\* by the same phases and deadlines; a host that starts carries out what its plan
\* draws; and it is refused for a zero that NewRunner does not take (RunConfig's
\* Unset) or by main for its startup, for nothing else (config.py, runner.py,
\* main.go, NewRunner).
RunsAsConfigured == Conf!RunsAsConfigured

\* CustodyCompleteRate is the share of custodiers that held all their columns
\* when the vote's gate looks, over losses, duplicates and late columns, in a
\* slot whose block goes out with its columns at the slot's start (tracer.go).
RateMatchesGate == Rec!RateMatchesGate

\* The finality coverage and the percentiles of the report agree with what the
\* network did (FinalityCoverageAtDeadline and Summarize, tracer.go).
FiguresTruthful == Rec!FiguresTruthful
=============================================================================
