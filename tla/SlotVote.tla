------------------------------ MODULE SlotVote ------------------------------
(***************************************************************************)
(* One node's slot (driver/runner.go, driver/coupling.go): setupSlot       *)
(* registers the slot state and arms the timers; the block, the custody    *)
(* columns and the ePBS payload arrive on goroutines of their own; the     *)
(* early path and the deadline timer race for the slot's one vote, and for *)
(* its un-gated twin, the sync message; the PTC vote, the aggregate and    *)
(* the contribution fire at fixed instants; endSlot prunes.                *)
(*                                                                         *)
(* A step is one critical section of r.mu, one timer firing or one         *)
(* publish.  Both backends advance their clock only when the program is    *)
(* idle (synctest's bubble, Shadow's event loop): computation takes no     *)
(* time, but the steps of one instant run in any order.                    *)
(***************************************************************************)
EXTENDS Integers, FiniteSets

CONSTANTS
  Roles,     \* the configurations and duties of the node, a subset of AllRoles
  Columns,   \* the custody columns of a node that has any
  BlockDue,  \* blockDue: the vote deadline, an offset into the slot
  AggDue,    \* aggDue: the aggregate and contribution deadline
  PTCDue,    \* epbs.PTCDue: the payload-attestation deadline
  SlotDur,   \* slotDur
  Prep,      \* prep: the delay between readiness and the vote
  MaxTime,   \* bound on the clock, past the slot's end
  MaxWarmup  \* bound on the instant at which a parked slot-0 setup resumes

\* attest and decoupled exclude each other and decoupled runs have no sync
\* phase (driver.New); only attestation duties need fan-out dials, and only
\* the decoupled slot 0 waits for its finality warm-up.
AllRoles ==
  {ro \in [vote    : {"attest", "ac", "none"},    \* r.attest, r.decoupled, neither
           sync    : BOOLEAN,                     \* r.sync and the node is a member
           epbs    : BOOLEAN,                     \* r.epbs # nil
           own     : BOOLEAN,                     \* r.proposes(slot)
           dials   : BOOLEAN,                     \* needsDial
           warmup  : BOOLEAN,                     \* setup joins round 0's warm-up
           custody : {{}, Columns},               \* view.CustodyColumns
           fixed   : SUBSET {"agg", "syncAgg", "ptc"}] :  \* the armed fixed-time duties
     /\ ro.vote = "ac" => ~ro.sync
     /\ ro.dials => ro.vote = "attest"
     /\ ro.warmup => ro.vote = "ac"
     /\ "agg" \in ro.fixed => ro.vote = "attest"
     /\ "syncAgg" \in ro.fixed => ro.sync
     /\ "ptc" \in ro.fixed => ro.epbs}

ASSUME RolesAssumption == Roles \subseteq AllRoles
ASSUME ColumnsFinite == IsFiniteSet(Columns)
ASSUME TimesAssumption ==
  /\ BlockDue \in Nat /\ AggDue \in Nat /\ PTCDue \in Nat /\ SlotDur \in Nat
  /\ Prep \in Nat /\ MaxTime \in Nat /\ MaxWarmup \in Nat
  /\ BlockDue < SlotDur /\ AggDue < SlotDur /\ PTCDue < SlotDur
  /\ SlotDur <= MaxTime

\* The two votes of a slot: the column-gated attestation or AC vote, and the
\* sync-committee message.
Votes == {"gated", "sync"}
Fixed == {"agg", "syncAgg", "ptc"}
Times == 0..MaxTime

VARIABLES
  now,                \* the clock, an offset into the slot
  role,               \* this node's configuration and duties, never changes
  blockAt, payloadAt, \* a proposer's drawn publish instants, never change
  setup,              \* setupSlot: "start", "parked" in round0Warmup, "done"
  dialReady,          \* ss.dialReady is closed
  registered,         \* r.slots[slot]: "no", "yes", "pruned"
  blockSeen, blockSeenAt,
  payloadSeen,
  haveColumn, columnsComplete, columnsCompleteAt,
  alreadyVoted,       \* alreadyVoted and syncAlreadyVoted, the claims
  votedForSlotBlock,  \* votedForSlotBlock and syncVotedForSlotBlock
  emission,           \* a claimed vote: "none", "armed" for emitAt, "ready", "done"
  emitAt,
  block,              \* the goroutine that receives or publishes the block
  column,             \* the receive goroutine of each custody column
  payload,            \* the goroutine that receives or publishes the payload
  timer,              \* ss.timer and the goroutine onBlockDeadline runs on
  fixed,              \* aggTimer, syncAggTimer, ptcTimer
  slotEnd,            \* the endSlot timer
  emitted,            \* history: the votes published, with instant and choice
  ptcVote             \* history: the PTC burst

seenVars  == <<blockSeen, blockSeenAt, payloadSeen, haveColumn, columnsComplete,
               columnsCompleteAt>>
claimVars == <<alreadyVoted, votedForSlotBlock, emission, emitAt>>
drawn     == <<role, blockAt, payloadAt>>

vars == <<now, drawn, setup, dialReady, registered, seenVars, claimVars, block,
          column, payload, timer, fixed, slotEnd, emitted, ptcVote>>

\* Which votes the node casts at all.
Active(k) == IF k = "gated" THEN role.vote # "none" ELSE role.sync

\* blockPublishAt and payloadPublishAt: the payload's draw starts from the
\* block's.  Both are inside the slot; other nodes draw nothing.
publishDraws ==
  /\ blockAt \in 0..(SlotDur - 1) /\ payloadAt \in 0..(SlotDur - 1)
  /\ blockAt <= payloadAt
  /\ ~role.own => blockAt = 0
  /\ ~(role.own /\ role.epbs) => payloadAt = blockAt

Init ==
  /\ now = 0
  /\ role \in Roles
  /\ publishDraws
  /\ setup = "start" /\ dialReady = FALSE /\ registered = "no"
  /\ blockSeen = FALSE /\ blockSeenAt = 0 /\ payloadSeen = FALSE
  /\ haveColumn = {}
  /\ columnsComplete = (role.custody = {} \/ role.epbs)
  /\ columnsCompleteAt = 0
  /\ alreadyVoted = [k \in Votes |-> FALSE]
  /\ votedForSlotBlock = [k \in Votes |-> FALSE]
  /\ emission = [k \in Votes |-> "none"] /\ emitAt = [k \in Votes |-> 0]
  /\ block = "pending" /\ column = [c \in Columns |-> "pending"] /\ payload = "pending"
  /\ timer = "off" /\ fixed = [t \in Fixed |-> "off"] /\ slotEnd = "off"
  /\ emitted = [k \in Votes |-> [n |-> 0, at |-> 0, block |-> FALSE]]
  /\ ptcVote = [n |-> 0, present |-> FALSE]

----------------------------------------------------------------------------
(* setupSlot.                                                              *)

\* Duties, the fan-out dials and the aggregate's timer; a decoupled slot 0 then
\* parks until its warm-up's dials are up.
setupSlot ==
  /\ setup = "start"
  /\ fixed' = [fixed EXCEPT !["agg"] = IF "agg" \in role.fixed THEN "armed" ELSE "off"]
  /\ setup' = "parked"
  /\ UNCHANGED <<now, drawn, dialReady, registered, seenVars, claimVars, block,
                 column, payload, timer, slotEnd, emitted, ptcVote>>

\* The other fixed-time timers, the registration, the deadline timer, the publish
\* goroutines (block and payload: see ownDue) and the slot-end timer.  (A PTC timer
\* that fires ahead of the registration finds no block, as it does right after it.)
register ==
  /\ setup = "parked"
  /\ registered' = "yes" /\ setup' = "done"
  /\ fixed' = [t \in Fixed |-> IF t # "agg" /\ t \in role.fixed THEN "armed" ELSE fixed[t]]
  /\ timer' = "armed" /\ slotEnd' = "armed"
  /\ UNCHANGED <<now, drawn, dialReady, seenVars, claimVars, block, column,
                 payload, emitted, ptcVote>>

\* dialDuties' handshakes are done (modelled in SlotDials).
dialsUp ==
  /\ role.dials /\ setup # "start" /\ ~dialReady
  /\ dialReady' = TRUE
  /\ UNCHANGED <<now, drawn, setup, registered, seenVars, claimVars, block,
                 column, payload, timer, fixed, slotEnd, emitted, ptcVote>>

----------------------------------------------------------------------------
(* The claims.                                                             *)

laterOf(a, b) == IF b > a THEN b ELSE a

\* Mutant: the boundary excludes the deadline itself.
emitDecision_Strict(seen, processed) ==
  IF seen /\ processed + Prep < BlockDue
  THEN [at |-> processed + Prep, block |-> TRUE]
  ELSE [at |-> BlockDue, block |-> FALSE]

\* Mutant: prep is left out of the comparison.
emitDecision_NoPrep(seen, processed) ==
  IF seen /\ processed <= BlockDue
  THEN [at |-> processed + Prep, block |-> TRUE]
  ELSE [at |-> BlockDue, block |-> FALSE]

emitDecision(seen, processed) ==
  IF seen /\ processed + Prep <= BlockDue
  THEN [at |-> processed + Prep, block |-> TRUE]
  ELSE [at |-> BlockDue, block |-> FALSE]

\* What each vote waits for, and since when it was there.
Ready(k) == blockSeen /\ (k = "gated" => columnsComplete)
Processed(k) ==
  IF k = "gated" THEN laterOf(blockSeenAt, columnsCompleteAt) ELSE blockSeenAt

\* Mutant: the claim is made before the decision is looked at.
tryEmit_ClaimsFirst(k) ==
  LET d == emitDecision(Ready(k), Processed(k))
  IN  IF Active(k) /\ ~alreadyVoted[k]
      THEN /\ alreadyVoted' = [alreadyVoted EXCEPT ![k] = TRUE]
           /\ votedForSlotBlock' = [votedForSlotBlock EXCEPT ![k] = d.block]
           /\ emission' = [emission EXCEPT ![k] = IF d.block THEN "armed" ELSE @]
           /\ emitAt' = [emitAt EXCEPT ![k] = d.at]
      ELSE UNCHANGED claimVars

\* tryEarlyEmit and its twin trySyncEmit: claim the vote for the block if it
\* is ready in time, and emit it at emitAt (at once if that has passed).
tryEmit(k) ==
  LET d == emitDecision(Ready(k), Processed(k))
  IN  IF Active(k) /\ ~alreadyVoted[k] /\ d.block
      THEN /\ alreadyVoted' = [alreadyVoted EXCEPT ![k] = TRUE]
           /\ votedForSlotBlock' = [votedForSlotBlock EXCEPT ![k] = TRUE]
           /\ emission' = [emission EXCEPT ![k] = "armed"]
           /\ emitAt' = [emitAt EXCEPT ![k] = d.at]
      ELSE UNCHANGED claimVars

\* Mutant: the deadline votes even when the early path has.
VoteParent_Always(k) == Active(k)

\* The deadline finds the vote unclaimed ...
VoteParent(k) == Active(k) /\ ~alreadyVoted[k]

\* ... and claims it for the prior head.
claimPrior(k) ==
  IF VoteParent(k)
  THEN /\ alreadyVoted' = [alreadyVoted EXCEPT ![k] = TRUE]
       /\ votedForSlotBlock' = [votedForSlotBlock EXCEPT ![k] = FALSE]
       /\ emission' = [emission EXCEPT ![k] = "ready"]
       /\ UNCHANGED emitAt
  ELSE UNCHANGED claimVars

----------------------------------------------------------------------------
(* The block.  A proposer never receives its own.                          *)

\* A proposer's publish goroutine wakes up.
ownDue(at) == role.own /\ setup = "done" /\ now >= at

\* onBlockProcessed's first critical section: record block-seen once.
onBlockProcessed ==
  IF registered = "yes"
  THEN /\ blockSeen' = TRUE
       /\ blockSeenAt' = IF blockSeen THEN blockSeenAt ELSE now
       /\ block' = "early"
       /\ UNCHANGED <<payloadSeen, haveColumn, columnsComplete, columnsCompleteAt>>
  ELSE /\ block' = "done"
       /\ UNCHANGED seenVars

onReceiveBlock ==
  /\ ~role.own /\ block = "pending"
  /\ onBlockProcessed
  /\ UNCHANGED <<now, drawn, setup, dialReady, registered, claimVars, column,
                 payload, timer, fixed, slotEnd, emitted, ptcVote>>

\* The proposer holds every column it just published.
markColumnsComplete ==
  IF registered = "yes" /\ ~columnsComplete
  THEN /\ columnsComplete' = TRUE /\ columnsCompleteAt' = now
       /\ UNCHANGED <<blockSeen, blockSeenAt, payloadSeen, haveColumn>>
  ELSE UNCHANGED seenVars

publishBlock ==
  /\ ~role.epbs /\ block = "pending" /\ ownDue(blockAt)
  /\ markColumnsComplete
  /\ block' = "record"
  /\ UNCHANGED <<now, drawn, setup, dialReady, registered, claimVars, column,
                 payload, timer, fixed, slotEnd, emitted, ptcVote>>

\* ePBS: no columns ride the block.
publishConsensusBlock ==
  /\ role.epbs /\ block = "pending" /\ ownDue(blockAt)
  /\ block' = "record"
  /\ UNCHANGED <<now, drawn, setup, dialReady, registered, seenVars, claimVars,
                 column, payload, timer, fixed, slotEnd, emitted, ptcVote>>

\* Either goes on to its own onBlockProcessed.
onOwnBlockProcessed ==
  /\ block = "record"
  /\ onBlockProcessed
  /\ UNCHANGED <<now, drawn, setup, dialReady, registered, claimVars, column,
                 payload, timer, fixed, slotEnd, emitted, ptcVote>>

\* The block goroutine goes on to tryEarlyEmit and then trySyncEmit.
tryEarlyEmit ==
  /\ block = "early"
  /\ tryEmit("gated")
  /\ block' = "sync"
  /\ UNCHANGED <<now, drawn, setup, dialReady, registered, seenVars, column,
                 payload, timer, fixed, slotEnd, emitted, ptcVote>>

trySyncEmit ==
  /\ block = "sync"
  /\ tryEmit("sync")
  /\ block' = "done"
  /\ UNCHANGED <<now, drawn, setup, dialReady, registered, seenVars, column,
                 payload, timer, fixed, slotEnd, emitted, ptcVote>>

----------------------------------------------------------------------------
(* The custody columns and the payload.                                    *)

\* Mutant: the gate opens one column early.
Complete_OffByOne(have) == Cardinality(have) + 1 >= Cardinality(role.custody)

\* len(haveColumn) = len(custody): a count, of whatever columns came.
Complete(have) == Cardinality(have) = Cardinality(role.custody)

\* onColumnProcessed's critical section.  Only custody columns are subscribed; one
\* that comes again changes nothing once it is in the set.
onColumnProcessed(c) ==
  /\ ~role.own /\ c \in role.custody /\ column[c] = "pending"
  /\ IF registered # "yes" \/ c \in haveColumn
     THEN /\ column' = [column EXCEPT ![c] = "done"]
          /\ UNCHANGED seenVars
     ELSE LET complete == ~columnsComplete /\ Complete(haveColumn \cup {c})
          IN  /\ haveColumn' = haveColumn \cup {c}
              /\ columnsComplete' = (columnsComplete \/ complete)
              /\ columnsCompleteAt' = IF complete THEN now ELSE columnsCompleteAt
              /\ column' = [column EXCEPT ![c] = IF complete THEN "early" ELSE "done"]
              /\ UNCHANGED <<blockSeen, blockSeenAt, payloadSeen>>
  /\ UNCHANGED <<now, drawn, setup, dialReady, registered, claimVars, block,
                 payload, timer, fixed, slotEnd, emitted, ptcVote>>

\* The completing column's own tryEarlyEmit.
tryEarlyEmitColumn(c) ==
  /\ column[c] = "early"
  /\ tryEmit("gated")
  /\ column' = [column EXCEPT ![c] = "done"]
  /\ UNCHANGED <<now, drawn, setup, dialReady, registered, seenVars, block,
                 payload, timer, fixed, slotEnd, emitted, ptcVote>>

\* onPayloadProcessed: from the network, or the first half of a proposer's
\* publishExecutionPayload.
onPayloadProcessed ==
  /\ role.epbs /\ payload = "pending"
  /\ role.own => ownDue(payloadAt)
  /\ payloadSeen' = (payloadSeen \/ registered = "yes")
  /\ payload' = IF role.own THEN "custody" ELSE "done"
  /\ UNCHANGED <<blockSeen, blockSeenAt, haveColumn, columnsComplete, columnsCompleteAt>>
  /\ UNCHANGED <<now, drawn, setup, dialReady, registered, claimVars, block,
                 column, timer, fixed, slotEnd, emitted, ptcVote>>

\* The second half, a critical section of its own.
markCustodyHeld ==
  /\ payload = "custody" /\ payload' = "done"
  /\ haveColumn' = IF registered = "yes" THEN haveColumn \cup role.custody ELSE haveColumn
  /\ UNCHANGED <<blockSeen, blockSeenAt, payloadSeen, columnsComplete, columnsCompleteAt>>
  /\ UNCHANGED <<now, drawn, setup, dialReady, registered, claimVars, block,
                 column, timer, fixed, slotEnd, emitted, ptcVote>>

----------------------------------------------------------------------------
(* The timers.                                                             *)

\* onBlockDeadline's first half.  Its emit runs on this goroutine, so the sync
\* half waits for it, and with it for the fan-out dials.
onBlockDeadline ==
  /\ timer = "armed" /\ now >= BlockDue
  /\ claimPrior("gated")
  /\ timer' = IF VoteParent("gated") THEN "emitting" ELSE "sync"
  /\ UNCHANGED <<now, drawn, setup, dialReady, registered, seenVars, block,
                 column, payload, fixed, slotEnd, emitted, ptcVote>>

SyncHalfReady == timer = "sync" \/ (timer = "emitting" /\ emission["gated"] = "done")

onBlockDeadlineSync ==
  /\ SyncHalfReady
  /\ claimPrior("sync")
  /\ timer' = "done"
  /\ UNCHANGED <<now, drawn, setup, dialReady, registered, seenVars, block,
                 column, payload, fixed, slotEnd, emitted, ptcVote>>

\* A claimed vote whose instant has come; an attestation awaits the dials.
EmitReady(k) ==
  /\ emission[k] = "ready" \/ (emission[k] = "armed" /\ now >= emitAt[k])
  /\ k = "gated" /\ role.dials => dialReady

\* Publish the vote with the recorded choice.
publishVote(k) ==
  /\ EmitReady(k)
  /\ emission' = [emission EXCEPT ![k] = "done"]
  /\ emitted' = [emitted EXCEPT ![k] =
                   [n |-> @.n + 1, at |-> now, block |-> votedForSlotBlock[k]]]
  /\ UNCHANGED <<now, drawn, setup, dialReady, registered, seenVars, alreadyVoted,
                 votedForSlotBlock, emitAt, block, column, payload, timer, fixed,
                 slotEnd, ptcVote>>

\* emit, emitPartial or emitACVote, and emitSyncMessage.
emitGated == publishVote("gated")
emitSyncMessage == publishVote("sync")

FixedDue_AtSlotEnd(t) == SlotDur \* mutant: a phase due at the slot's end

FixedDue(t) == IF t = "ptc" THEN PTCDue ELSE AggDue

\* A fixed-time burst: publish whatever the duty lists, once.
burst(t) ==
  /\ fixed[t] = "armed" /\ now >= FixedDue(t)
  /\ fixed' = [fixed EXCEPT ![t] = "done"]
  /\ UNCHANGED <<now, drawn, setup, dialReady, registered, seenVars, claimVars,
                 block, column, payload, timer, slotEnd, emitted, ptcVote>>

emitAggregate == burst("agg")
emitSyncContribution == burst("syncAgg")

\* Mutant: a block that was not seen is voted on, too.
emitPTCVote_Blind ==
  /\ fixed["ptc"] = "armed" /\ now >= PTCDue
  /\ fixed' = [fixed EXCEPT !["ptc"] = "done"]
  /\ ptcVote' = [n |-> ptcVote.n + 1, present |-> payloadSeen /\ Complete(haveColumn)]
  /\ UNCHANGED <<now, drawn, setup, dialReady, registered, seenVars, claimVars,
                 block, column, payload, timer, slotEnd, emitted>>

\* emitPTCVote: no block, no votes; else payload_present iff the payload and
\* all custody columns are in.
emitPTCVote ==
  /\ fixed["ptc"] = "armed" /\ now >= PTCDue
  /\ fixed' = [fixed EXCEPT !["ptc"] = "done"]
  /\ ptcVote' = IF blockSeen
                 THEN [n |-> ptcVote.n + 1, present |-> payloadSeen /\ Complete(haveColumn)]
                 ELSE ptcVote
  /\ UNCHANGED <<now, drawn, setup, dialReady, registered, seenVars, claimVars,
                 block, column, payload, timer, slotEnd, emitted>>

\* endSlot: stop what has not fired, prune.  (The dials it drops are
\* modelled in SlotDials.)
endSlot ==
  /\ slotEnd = "armed" /\ now >= SlotDur
  /\ timer' = IF timer = "armed" THEN "stopped" ELSE timer
  /\ fixed' = [t \in Fixed |-> IF fixed[t] = "armed" THEN "stopped" ELSE fixed[t]]
  /\ registered' = "pruned" /\ slotEnd' = "done"
  /\ UNCHANGED <<now, drawn, setup, dialReady, seenVars, claimVars, block,
                 column, payload, emitted, ptcVote>>

----------------------------------------------------------------------------
(* The clock.                                                              *)

\* No goroutine can go on at this instant.
Quiet ==
  /\ setup # "start" /\ (setup = "parked" => role.warmup /\ now < MaxWarmup)
  /\ block \in {"pending", "done"} /\ ~(block = "pending" /\ ownDue(blockAt))
  /\ \A c \in Columns : column[c] # "early"
  /\ payload # "custody"
  /\ ~(payload = "pending" /\ role.epbs /\ ownDue(payloadAt))
  /\ ~(timer = "armed" /\ now >= BlockDue) /\ ~SyncHalfReady
  /\ \A k \in Votes : ~EmitReady(k)
  /\ \A t \in Fixed : ~(fixed[t] = "armed" /\ now >= FixedDue(t))
  /\ ~(slotEnd = "armed" /\ now >= SlotDur)

Tick ==
  /\ Quiet /\ now < MaxTime
  /\ now' = now + 1
  /\ UNCHANGED <<drawn, setup, dialReady, registered, seenVars, claimVars, block,
                 column, payload, timer, fixed, slotEnd, emitted, ptcVote>>

\* What the program does by itself ...
Program ==
  \/ setupSlot \/ register
  \/ publishBlock \/ publishConsensusBlock \/ onOwnBlockProcessed \/ tryEarlyEmit \/ trySyncEmit
  \/ \E c \in Columns : tryEarlyEmitColumn(c)
  \/ (role.own /\ onPayloadProcessed) \/ markCustodyHeld
  \/ onBlockDeadline \/ onBlockDeadlineSync
  \/ emitGated \/ emitSyncMessage
  \/ emitAggregate \/ emitSyncContribution \/ emitPTCVote
  \/ endSlot

\* ... and what the network may do at any time, or never.
Network ==
  \/ onReceiveBlock
  \/ \E c \in Columns : onColumnProcessed(c)
  \/ ~role.own /\ onPayloadProcessed

Next == Program \/ Network \/ dialsUp \/ Tick

Safety == Init /\ [][Next]_vars

\* Goroutines run, time passes, and dials end (a handshake succeeds or times
\* out); the network may lose anything.
Fairness == WF_vars(Program) /\ WF_vars(Tick) /\ WF_vars(dialsUp)

Spec == Safety /\ Fairness

----------------------------------------------------------------------------
TypeOK ==
  /\ now \in Times
  /\ role \in Roles /\ blockAt \in Nat /\ payloadAt \in Nat
  /\ setup \in {"start", "parked", "done"}
  /\ dialReady \in BOOLEAN /\ registered \in {"no", "yes", "pruned"}
  /\ blockSeen \in BOOLEAN /\ blockSeenAt \in Times
  /\ payloadSeen \in BOOLEAN
  /\ haveColumn \subseteq role.custody
  /\ columnsComplete \in BOOLEAN /\ columnsCompleteAt \in Times
  /\ alreadyVoted \in [Votes -> BOOLEAN] /\ votedForSlotBlock \in [Votes -> BOOLEAN]
  /\ emission \in [Votes -> {"none", "armed", "ready", "done"}]
  /\ emitAt \in [Votes -> 0..BlockDue]
  /\ block \in {"pending", "record", "early", "sync", "done"}
  /\ column \in [Columns -> {"pending", "early", "done"}]
  /\ payload \in {"pending", "custody", "done"}
  /\ timer \in {"off", "armed", "emitting", "sync", "done", "stopped"}
  /\ fixed \in [Fixed -> {"off", "armed", "done", "stopped"}]
  /\ slotEnd \in {"off", "armed", "done"}
  /\ emitted \in [Votes -> [n : Nat, at : Times, block : BOOLEAN]]
  /\ ptcVote \in [n : Nat, present : BOOLEAN]

\* However the block goroutine, the completing column's goroutine and the
\* deadline timer interleave, a slot casts each of its votes at most once.
OneVotePerSlot == \A k \in Votes : emitted[k].n <= 1

Cast(k) == emitted[k].n > 0

\* A published vote for the slot's block is earned: the block, and for the
\* gated vote every custody column, was in at least prep before the deadline,
\* and the vote did not go out before prep had passed.
BlockVoteJustified ==
  \A k \in Votes :
    Cast(k) /\ emitted[k].block =>
      /\ Ready(k) /\ Processed(k) + Prep <= BlockDue
      /\ emitted[k].at >= Processed(k) + Prep

\* The gated vote for a block without its columns never happens: a node that
\* is not the proposer and not under ePBS has voted block only with every
\* custody column received.
DataAvailable ==
  Cast("gated") /\ emitted["gated"].block /\ ~role.own /\ ~role.epbs
    => haveColumn = role.custody

\* The rule of emitDecision for the other choice, as its comment states it:
\* a vote for the prior head was cast only because the block (with its
\* columns) was not in by the deadline minus prep, "regardless of which fires
\* first", receipt or deadline timer.
PriorVoteJustified ==
  \A k \in Votes :
    Cast(k) /\ ~emitted[k].block =>
      /\ emitted[k].at >= BlockDue
      /\ ~(Ready(k) /\ Processed(k) + Prep <= BlockDue)

\* Before the clock moves past the deadline, every vote the node owes has been
\* cast, provided its setup and the fan-out dials are through.
VotedByDeadline ==
  Quiet /\ now >= BlockDue /\ setup = "done" /\ (role.dials => dialReady)
    => \A k \in Votes : Active(k) => Cast(k)

\* A PTC member never attests to a payload it does not hold in full, nor to a
\* slot whose block it has not seen; and a proposer that revealed its payload
\* before the PTC deadline votes present ("so its PTC members vote present"),
\* although it records the payload and its columns in two critical sections.
\* (A setup parked in the warm-up may reveal later than drawn.)
PTCTruthful ==
  ptcVote.n > 0 => /\ ptcVote.n = 1 /\ blockSeen
                   /\ ptcVote.present => payloadSeen /\ haveColumn = role.custody
                   /\ role.own /\ ~role.warmup /\ payloadAt < PTCDue => ptcVote.present

\* endSlot's stops are defensive: by the slot's end every phase has fired.
EndSlotCutsNothing ==
  registered = "pruned" => timer # "stopped" /\ \A t \in Fixed : fixed[t] # "stopped"

\* Every vote the node owes is eventually cast, whatever the network loses.
EveryVoteCast == \A k \in Votes : Active(k) ~> Cast(k)

============================================================================
