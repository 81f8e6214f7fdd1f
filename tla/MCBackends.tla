----------------------------- MODULE MCBackends -----------------------------
(***************************************************************************)
(* What frames a run, for TLC, one at a time: every combination of the     *)
(* phases' switches on its way to the node runners; the life of a run of   *)
(* three nodes and two slots; the record of one slot of three nodes.  In   *)
(* the run the bring-up is over by 1 + 1 + 3 = 5 of Startup's ticks, which *)
(* leaves the settle time of two, and stop_time has little rounding to     *)
(* spare.  In the record node 1 proposes, node 3 votes, 1 and 3 aggregate. *)
(***************************************************************************)
EXTENDS Backends, Sequences

Plain == [ startup |-> 60000, attestation |-> "on", aggDue |-> 8000, targetAggs |-> 16,
           partial |-> FALSE, fits |-> TRUE, supers |-> TRUE, columns |-> FALSE,
           sync |-> FALSE, syncAggs |-> 16, dcc |-> "absent", segregated |-> FALSE,
           fsAggs |-> 16, fcFraction |-> 50, roundFraction |-> 67, voteOffset |-> 1000,
           epbs |-> TRUE, consensusSize |-> 2048, ptcSize |-> 512, ptcDue |-> 9000 ]

\* Attestations, sync and ePBS, without the decoupled chains.
Coupled ==
  {[Plain EXCEPT !.attestation = a, !.aggDue = d, !.targetAggs = t, !.partial = p, !.sync = s,
                 !.columns = col, !.fits = f, !.epbs = e, !.ptcSize = z, !.ptcDue = due,
                 !.consensusSize = cb, !.startup = su] :
     a \in {"absent", "off", "on"}, d \in {0, 8000}, t \in {0, 16}, p \in BOOLEAN, s \in BOOLEAN,
     col \in BOOLEAN, f \in BOOLEAN, e \in BOOLEAN, z \in {0, 512}, due \in {0, 9000},
     cb \in {0, 2048}, su \in {30000, 60000}}

\* Sync messages with and without contributions.
Synced == {[c EXCEPT !.syncAggs = 0] : c \in {d \in Coupled : d.sync}}

\* The decoupled chains: fractions that cut to nothing, come early or come late.
Decoupled ==
  {[Plain EXCEPT !.attestation = a, !.partial = p, !.sync = s, !.columns = col, !.supers = su,
                 !.dcc = dc, !.segregated = seg, !.fcFraction = fr[1], !.roundFraction = fr[2],
                 !.voteOffset = v, !.epbs = e, !.fsAggs = fa] :
     a \in {"absent", "off", "on"}, p \in BOOLEAN, s \in BOOLEAN, col \in BOOLEAN, su \in BOOLEAN,
     dc \in {"off", "on"}, seg \in BOOLEAN, v \in {1000, 10000}, e \in BOOLEAN, fa \in {0, 16},
     fr \in {<<50, 67>>, <<5, 67>>, <<50, 5>>, <<0, 67>>, <<50, 100>>}}

MCConfigs == Coupled \cup Synced \cup Decoupled

\* A message of the slot, and a burst of them.
Msg(k, subnet, attester, origin) ==
  [kind |-> k, subnet |-> subnet, attester |-> attester, origin |-> origin]
Whole(k) == Msg(k, -1, -1, 1)
At(t, ids) == [when |-> t, ids |-> ids]

MCFleet == {1, 2, 3}
MCCustody == <<{1, 2}, {1}, {1, 2}>>
Cols == <<Msg("column", 1, -1, 1), Msg("column", 2, -1, 1)>>
Votes == << <<>>, <<>>, <<At(1, <<Msg("finalityVote", 1, 8, 3)>>)>> >>
MCCopies == [k \in {"block", "consensus", "payload", "column", "finalityVote"} |-> IF k \in {"column", "finalityVote"} THEN 2 ELSE 1]

\* The legacy block with its columns, at the slot's start or a tick later.
LegacyAt(t) == [Votes EXCEPT ![1] = <<At(t, <<Whole("block")>> \o Cols)>>]

\* The ePBS pair: the consensus block, then the payload with the columns.
EPBS == [Votes EXCEPT ![1] = <<At(0, <<Whole("consensus")>>),
                               At(1, <<Whole("payload")>> \o Cols)>>]

MCPrograms == {LegacyAt(0), LegacyAt(1), EPBS}

VARIABLE part

\* What is not looked at stays as it starts.
MCInit ==
  /\ part \in {"config", "lifecycle", "record"} /\ Init /\ Conf!Init /\ Rec!Init
  /\ part # "lifecycle" => backend = "shadow"
  /\ part # "config" => cfg = Plain
  /\ part # "record" => program = EPBS

Configures == part = "config" /\ Conf!Next /\ UNCHANGED <<part, vars, recVars>>
Lives == part = "lifecycle" /\ Next /\ UNCHANGED <<part, confVars, recVars>>
Records == part = "record" /\ Rec!Next /\ UNCHANGED <<part, vars, confVars>>

MCSpec ==
  /\ MCInit /\ [][Configures \/ Lives \/ Records]_<<part, vars, confVars, recVars>>
  /\ WF_vars(part = "lifecycle" /\ Next)

\* A run that starts comes to its end by itself: Shadow's stop_time leaves every
\* node that came up the time to reach Close (runner.py:248).
EveryRunEnds == part = "lifecycle" => EveryNodeCloses
=============================================================================
