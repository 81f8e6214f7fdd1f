----------------------------- MODULE RunConfig -----------------------------
(***************************************************************************)
(* From a run's YAML to its node runners.  simctl validates the            *)
(* configuration (simctl/config.py) and draws the plan (schedule.py); the  *)
(* same run can then go to two backends, which are told the knobs along    *)
(* different ways: Shadow by one command line per host (_host_args, read   *)
(* by cmd/slot-sim-node), simnet by one JSON file (_simnet_params, read by *)
(* simnetrun and driver.New).  Both end in driver.NewRunner, which refuses *)
(* a configuration whose plan it would silently not carry out: for the one *)
(* host under Shadow, for the whole run on simnet.                         *)
(*                                                                         *)
(* Sizes are abstract: "fits" says the configuration's size bounds hold    *)
(* (V >= N, sync.size <= N, ...).  Times are in milliseconds.              *)
(***************************************************************************)
EXTENDS Integers

CONSTANTS
  Configs,   \* the configurations to run: of ConfigType
  SlotMs,    \* slot_duration_seconds
  K,         \* ac_slots_per_finality_slot
  Hosts,     \* the nodes of the run
  StaggerMs  \* meshJoinStagger

\* The fields the phases read.  attestation: the block is absent, present and
\* disabled, or enabled; so is dcc.
Present == {"absent", "off", "on"}
ConfigType ==
  [ startup : Nat, attestation : Present, aggDue : Nat, targetAggs : Nat, partial : BOOLEAN,
    fits : BOOLEAN, supers : BOOLEAN, columns : BOOLEAN, sync : BOOLEAN, syncAggs : Nat,
    dcc : Present, segregated : BOOLEAN, fsAggs : Nat, fcFraction : Nat, roundFraction : Nat,
    voteOffset : Nat, epbs : BOOLEAN, consensusSize : Nat, ptcSize : Nat, ptcDue : Nat ]

VARIABLES
  cfg,
  stage,   \* "config", "rejected", "accepted", "planned"
  plan,    \* what schedule.json draws, NoPlan without one
  shadow,  \* what becomes of each host's process under Shadow: [result, runner]
  simnet   \* ... and of the one process of simnet

vars == <<cfg, stage, plan, shadow, simnet>>

NoPlan == [drawn |-> FALSE, aggs |-> FALSE, syncAggs |-> FALSE, finality |-> FALSE,
           finalityAggs |-> FALSE, segregated |-> FALSE, ptc |-> {}]
NotRun == [result |-> "no", runner |-> <<>>]

Init ==
  /\ cfg \in Configs
  /\ stage = "config" /\ plan = NoPlan
  /\ shadow = [h \in Hosts |-> NotRun] /\ simnet = NotRun

----------------------------------------------------------------------------
(* simctl                                                                  *)

\* The aggregation deadline, as an offset into the round.
AggMs(segregated, fcFraction, roundFraction) ==
  IF segregated THEN (roundFraction * SlotMs) \div 100 ELSE (fcFraction * K * SlotMs) \div 100

_check_data_columns(c) == c.columns => c.attestation # "absent" /\ c.supers /\ c.fits
_check_sync(c) == c.sync => c.attestation # "absent" /\ c.fits

\* The finality votes precede the aggregation deadline, inside the round.
VotesFirst(c) ==
  /\ (IF c.segregated THEN c.roundFraction ELSE c.fcFraction) \in 1..99
  /\ c.voteOffset < AggMs(c.segregated, c.fcFraction, c.roundFraction)

_check_decoupled_consensus(c) ==
  /\ c.dcc = "off" => ~c.segregated
  /\ c.dcc = "on" =>
       /\ c.attestation = "off" /\ ~c.sync /\ c.columns /\ c.supers /\ c.fits
       /\ VotesFirst(c)

_check_partial_transport(c) ==
  c.attestation # "absent" /\ c.partial => c.attestation = "on" \/ c.dcc = "on"

Accepts(c) ==
  /\ _check_data_columns(c) /\ _check_sync(c)
  /\ _check_decoupled_consensus(c) /\ _check_partial_transport(c)

validate ==
  /\ stage = "config"
  /\ stage' = IF Accepts(cfg) THEN "accepted" ELSE "rejected"
  /\ UNCHANGED <<cfg, plan, shadow, simnet>>

\* The plan draws for what is configured, whether or not it will be emitted: the
\* committees' aggregators also with attestations disabled.  voters: the hosts of
\* the validators drawn for some slot's PTC.
generate(c, voters) ==
  IF c.attestation = "absent" THEN NoPlan
  ELSE [drawn |-> TRUE,
        aggs |-> c.dcc # "on" /\ c.targetAggs > 0,
        syncAggs |-> c.dcc # "on" /\ c.sync /\ c.syncAggs > 0,
        finality |-> c.dcc = "on",
        finalityAggs |-> c.dcc = "on" /\ c.fsAggs > 0,
        segregated |-> c.dcc = "on" /\ c.segregated,
        ptc |-> IF c.epbs /\ c.ptcSize > 0 THEN voters ELSE {}]

draw ==
  /\ stage = "accepted"
  /\ stage' = "planned"
  /\ \E voters \in SUBSET Hosts \ {{}} : plan' = generate(cfg, voters)
  /\ UNCHANGED <<cfg, shadow, simnet>>

----------------------------------------------------------------------------
(* The runner                                                              *)

\* NewRunner's panics: what the plan draws must have its time.  The PTC's voters
\* are looked up in the host's own view; the aggregators are the whole plan's.
Untimed(rc, p, h) ==
  \/ h \in p.ptc /\ (~rc.epbs \/ rc.ptcDue <= 0)
  \/ rc.aggDue <= 0 /\ ((rc.attest /\ p.aggs) \/ (rc.sync /\ p.syncAggs))
  \/ /\ rc.decoupled /\ p.finalityAggs
     /\ (IF rc.segregated THEN rc.roundFraction ELSE rc.fcFraction) \notin 1..99

Refuses(rc, p, h) ==
  \/ rc.epbs /\ rc.consensusSize <= 0
  \/ Untimed(rc, p, h)
  \/ rc.partial /\ ~rc.attest /\ ~rc.decoupled

\* NewRunner for the hosts of one process, which a panic ends.
NewRunner(rc, hosts) ==
  [result |-> IF \E h \in hosts : Refuses(rc, plan, h) THEN "panic" ELSE "runs", runner |-> rc]
Fatal == [result |-> "fatal", runner |-> <<>>]

----------------------------------------------------------------------------
(* Shadow                                                                  *)

\* -fc-round-agg-fraction, and its default.
RoundFractionFlag_Base(c) == IF c.dcc = "on" THEN c.fcFraction ELSE 67 \* mutant: the base fraction

RoundFractionFlag(c) == IF c.dcc = "on" /\ c.segregated THEN c.roundFraction ELSE 67

\* _host_args and the defaults of the flags it leaves out.
_host_args(c) ==
  [ startup |-> c.startup, attestations |-> c.attestation # "off",
    aggDue |-> IF c.attestation = "absent" THEN 0 ELSE c.aggDue,
    sync |-> c.sync, partial |-> c.attestation # "absent" /\ c.partial,
    decoupled |-> c.dcc = "on",
    voteOffset |-> IF c.dcc = "on" THEN c.voteOffset ELSE 1000,
    fcFraction |-> IF c.dcc = "on" THEN c.fcFraction ELSE 50,
    segregated |-> c.dcc = "on" /\ c.segregated,
    roundFraction |-> RoundFractionFlag(c),
    epbs |-> c.epbs, consensusSize |-> IF c.epbs THEN c.consensusSize ELSE 2048,
    ptcDue |-> IF c.epbs THEN c.ptcDue ELSE 9000 ]

\* What main passes to NewRunner.
ShadowRunner(f) ==
  [ attest |-> f.attestations /\ plan.drawn /\ ~f.decoupled,
    sync |-> f.sync /\ plan.drawn /\ ~f.decoupled,
    decoupled |-> f.decoupled, segregated |-> f.segregated, partial |-> f.partial,
    aggDue |-> f.aggDue, voteOffset |-> f.voteOffset,
    fcFraction |-> f.fcFraction, roundFraction |-> f.roundFraction,
    epbs |-> f.epbs, consensusSize |-> f.consensusSize, ptcDue |-> f.ptcDue ]

\* main on host h: its log.Fatals, the settle window's first, then the runner.
ShadowFate(h) ==
  LET f == _host_args(cfg)
      rc == ShadowRunner(f)
  IN  IF \/ f.startup - StaggerMs <= 0
         \/ f.segregated /\ ~f.decoupled
         \/ f.decoupled /\ (~plan.drawn \/ f.segregated # plan.segregated)
         \/ f.partial /\ (~plan.drawn \/ (~rc.attest /\ ~rc.decoupled))
      THEN Fatal ELSE NewRunner(rc, {h})

main(h) ==
  /\ stage = "planned" /\ shadow[h] = NotRun
  /\ shadow' = [shadow EXCEPT ![h] = ShadowFate(h)]
  /\ UNCHANGED <<cfg, stage, plan, simnet>>

----------------------------------------------------------------------------
(* simnet                                                                  *)

\* _simnet_params; what it leaves out is zero when the harness reads it.
_simnet_params(c) ==
  [ attest |-> c.attestation = "on",
    aggDue |-> IF c.attestation = "absent" THEN 0 ELSE c.aggDue,
    sync |-> c.sync, partial |-> c.attestation # "absent" /\ c.partial,
    decoupled |-> c.dcc = "on",
    voteOffset |-> IF c.dcc = "on" THEN c.voteOffset ELSE 0,
    fcFraction |-> IF c.dcc = "on" THEN c.fcFraction ELSE 0,
    segregated |-> c.dcc = "on" /\ c.segregated,
    roundFraction |-> IF c.dcc = "on" /\ c.segregated THEN c.roundFraction ELSE 0,
    epbs |-> c.epbs, consensusSize |-> IF c.epbs THEN c.consensusSize ELSE 0,
    ptcDue |-> IF c.epbs THEN c.ptcDue ELSE 0 ]

\* TestRun's driver.Config and what driver.New makes of it: without a schedule
\* only the block's knobs are set.
SimnetRunner(p) ==
  LET dec == plan.drawn /\ p.decoupled
  IN  [ attest |-> plan.drawn /\ p.attest /\ ~dec, sync |-> plan.drawn /\ p.sync /\ ~dec,
        decoupled |-> dec, segregated |-> dec /\ p.segregated,
        partial |-> plan.drawn /\ p.partial,
        aggDue |-> IF plan.drawn THEN p.aggDue ELSE 0, voteOffset |-> p.voteOffset,
        fcFraction |-> p.fcFraction, roundFraction |-> p.roundFraction,
        epbs |-> p.epbs, consensusSize |-> p.consensusSize, ptcDue |-> p.ptcDue ]

SimnetFate ==
  LET p == _simnet_params(cfg)
  IN  IF plan.drawn /\ p.decoupled /\ p.segregated # plan.segregated
      THEN Fatal ELSE NewRunner(SimnetRunner(p), Hosts)

TestRun ==
  /\ stage = "planned" /\ simnet = NotRun
  /\ simnet' = SimnetFate
  /\ UNCHANGED <<cfg, stage, plan, shadow>>

Next == validate \/ draw \/ (\E h \in Hosts : main(h)) \/ TestRun
Spec == Init /\ [][Next]_vars

----------------------------------------------------------------------------
\* What a runner does with its configuration: a deadline nobody waits for and the
\* fraction of the other finality mode are of no account.
Behaviour(rc) ==
  [ attest |-> rc.attest, sync |-> rc.sync, decoupled |-> rc.decoupled,
    segregated |-> rc.segregated, partial |-> rc.partial, epbs |-> rc.epbs,
    aggDue |-> IF rc.attest \/ rc.sync THEN rc.aggDue ELSE 0,
    consensusSize |-> IF rc.epbs THEN rc.consensusSize ELSE 0,
    ptcDue |-> IF plan.ptc # {} THEN rc.ptcDue ELSE 0,
    finality |-> IF ~rc.decoupled THEN <<>>
                 ELSE <<rc.voteOffset, AggMs(rc.segregated, rc.fcFraction, rc.roundFraction)>> ]

Ran == simnet.result # "no" /\ \A h \in Hosts : shadow[h].result # "no"

\* If its startup leaves a settle window (main's first check, which simctl does
\* not make), a configuration runs on simnet just if it does on every Shadow host,
\* and the runners run the same phases with the same deadlines, although the knobs
\* reach them by two lists of flags and fields with different defaults.  (The
\* column verifier's cost is not among the knobs: simctl gives it to simnet only.)
BackendsAgree ==
  Ran /\ cfg.startup > StaggerMs =>
    /\ simnet.result = "runs" <=> \A h \in Hosts : shadow[h].result = "runs"
    /\ \A h \in Hosts :
         shadow[h].result = "runs" => Behaviour(shadow[h].runner) = Behaviour(simnet.runner)

\* What a host h that runs by rc does not silently leave out: aggregators, PTC
\* voters and finality voters have a deadline, and the finality votes come before
\* the aggregates that cover them and before the teardown of the pre-join.
CarriesOut(rc, h) ==
  /\ ((rc.attest /\ plan.aggs) \/ (rc.sync /\ plan.syncAggs)) => rc.aggDue > 0
  /\ h \in plan.ptc => rc.epbs /\ rc.ptcDue > 0
  /\ plan.finality => /\ rc.decoupled
                      /\ rc.voteOffset < AggMs(rc.segregated, rc.fcFraction, rc.roundFraction)

\* Every host that starts carries out what its plan draws.  simctl checks one half
\* of this, NewRunner the other.
NothingSilent ==
  \A h \in Hosts :
    /\ shadow[h].result = "runs" => CarriesOut(shadow[h].runner, h)
    /\ simnet.result = "runs" => CarriesOut(simnet.runner, h)

\* What simctl accepts and host h's NewRunner refuses: a zero for the size of the
\* consensus block, for the deadline of the PTC voters the host has, or for the
\* deadline of aggregators that are drawn.
Unset(h) ==
  \/ cfg.epbs /\ cfg.consensusSize = 0
  \/ h \in plan.ptc /\ cfg.ptcDue = 0
  \/ cfg.aggDue = 0 /\ ((cfg.attestation = "on" /\ plan.aggs) \/ plan.syncAggs)

\* These zeros, and under Shadow a startup within the join stagger, are all that an
\* accepted run is refused for: the other log.Fatals and panics never fire.  A zero
\* stops simnet as a whole, under Shadow the hosts it is about.
RefusedForCause ==
  /\ \A h \in Hosts : shadow[h].result # "no" =>
       shadow[h].result = IF cfg.startup <= StaggerMs THEN "fatal"
                          ELSE IF Unset(h) THEN "panic" ELSE "runs"
  /\ simnet.result # "no" =>
       simnet.result = IF \E h \in Hosts : Unset(h) THEN "panic" ELSE "runs"

\* What is configured is what runs, on either backend, or is refused for a cause.
RunsAsConfigured == BackendsAgree /\ NothingSilent /\ RefusedForCause
============================================================================
