----------------------------- MODULE SlotDials -----------------------------
(***************************************************************************)
(* The per-slot fan-out dials of one attesting node (driver/runner.go):    *)
(* dialDuties connects to two subscribers of each duty subnet, emit awaits *)
(* the handshakes before it publishes, and at the slot's end the dial      *)
(* timer or endSlot, whichever comes first, disconnects the slot's dials.  *)
(* The end of one slot and the setup of the next fall on the same instant, *)
(* and the connections are shared: Dial reuses an open one and Disconnect  *)
(* closes it for everybody.                                                *)
(*                                                                         *)
(* The clock counts half slots: slot s starts at 2s, its vote is due at    *)
(* 2s+1 and it ends at 2s+2.  It advances when no goroutine can go on; a   *)
(* handshake with a peer that is not connected takes any time.             *)
(***************************************************************************)
EXTENDS Integers

CONSTANTS
  NumSlots,  \* the run's slots are 0..NumSlots-1
  Peers,     \* nodes outside the long-lived graph (stablePeers are never dialed)
  Dials      \* Dials[s]: the peers slot s's duties pick

Slots == 0..(NumSlots - 1)

ASSUME DialsAssumption == NumSlots \in Nat \ {0} /\ Dials \in [Slots -> SUBSET Peers]

Start(s) == 2 * s
Due(s)   == 2 * s + 1
End(s)   == 2 * s + 2

\* Bound on the clock: one slot past the last.
MaxTime == End(NumSlots)

VARIABLES
  now,
  conn,     \* peers connected beyond the long-lived graph
  setup,    \* setup[s]: setupSlot ran and spawned dialDuties
  dialed,   \* ss.dialed, guarded by r.mu
  left,     \* left[s]: handshakes Dial still waits for
  dialing,  \* dialDuties: "idle", "picking", "dialing"
  drop,     \* dropDialOnce: "no", "closing", "done"
  closing,  \* the peers Disconnect has still to close
  ended,    \* endSlot finished
  voted,    \* emit published
  reached,  \* history: the dialed peers still connected when emit published
  late      \* history: some handshake ended when its slot was over

vars == <<now, conn, setup, dialed, left, dialing, drop, closing, ended, voted,
          reached, late>>

Init ==
  /\ now = 0 /\ conn = {}
  /\ setup = [s \in Slots |-> FALSE]
  /\ dialed = [s \in Slots |-> {}] /\ left = [s \in Slots |-> {}]
  /\ dialing = [s \in Slots |-> "idle"]
  /\ drop = [s \in Slots |-> "no"] /\ closing = [s \in Slots |-> {}]
  /\ ended = [s \in Slots |-> FALSE] /\ voted = [s \in Slots |-> FALSE]
  /\ reached = [s \in Slots |-> {}] /\ late = FALSE

\* setupSlot as far as the dials go: spawn dialDuties, arm the timers.
setupSlot(s) ==
  /\ ~setup[s] /\ now >= Start(s)
  /\ setup' = [setup EXCEPT ![s] = TRUE]
  /\ dialing' = [dialing EXCEPT ![s] = "picking"]
  /\ UNCHANGED <<now, conn, dialed, left, drop, closing, ended, voted, reached, late>>

\* dialDuties: record the picked peers under the lock, then dial them.
dialDuties(s) ==
  /\ dialing[s] = "picking"
  /\ dialed' = [dialed EXCEPT ![s] = Dials[s]]
  /\ left' = [left EXCEPT ![s] = Dials[s]]
  /\ dialing' = [dialing EXCEPT ![s] = "dialing"]
  /\ UNCHANGED <<now, conn, setup, drop, closing, ended, voted, reached, late>>

\* One handshake of Dial ends; an open connection is reused.
connect(s, p) ==
  /\ p \in left[s]
  /\ conn' = conn \cup {p}
  /\ left' = [left EXCEPT ![s] = @ \ {p}]
  /\ late' = (late \/ now >= End(s))
  /\ UNCHANGED <<now, setup, dialed, dialing, drop, closing, ended, voted, reached>>

\* Mutant: a dial that outlives its slot never closes dialReady.
dialReady_Lost(s) == dialing[s] = "dialing" /\ left[s] = {} /\ drop[s] = "no"

\* dialDuties has returned and closed ss.dialReady.
dialReady(s) == dialing[s] = "dialing" /\ left[s] = {}

\* Mutant: the dials recorded are not dropped.
dropDials_Nothing(s) ==
  /\ setup[s] /\ drop[s] = "no" /\ now >= End(s)
  /\ drop' = [drop EXCEPT ![s] = "closing"]
  /\ UNCHANGED <<now, conn, setup, dialed, left, dialing, closing, ended, voted, reached, late>>

\* dropDials, on the dial timer or from endSlot: read ss.dialed under the lock ...
dropDials(s) ==
  /\ setup[s] /\ drop[s] = "no" /\ now >= End(s)
  /\ drop' = [drop EXCEPT ![s] = "closing"]
  /\ closing' = [closing EXCEPT ![s] = dialed[s]]
  /\ UNCHANGED <<now, conn, setup, dialed, left, dialing, ended, voted, reached, late>>

\* ... then Disconnect, peer by peer.
disconnect(s, p) ==
  /\ drop[s] = "closing" /\ p \in closing[s]
  /\ conn' = conn \ {p}
  /\ closing' = [closing EXCEPT ![s] = @ \ {p}]
  /\ UNCHANGED <<now, setup, dialed, left, dialing, drop, ended, voted, reached, late>>

\* The Once is released when Disconnect returns.
dropped(s) ==
  /\ drop[s] = "closing" /\ closing[s] = {}
  /\ drop' = [drop EXCEPT ![s] = "done"]
  /\ UNCHANGED <<now, conn, setup, dialed, left, dialing, closing, ended, voted, reached, late>>

\* endSlot returns from its dropDials and prunes the slot.
endSlot(s) ==
  /\ setup[s] /\ ~ended[s] /\ now >= End(s) /\ drop[s] = "done"
  /\ ended' = [ended EXCEPT ![s] = TRUE]
  /\ UNCHANGED <<now, conn, setup, dialed, left, dialing, drop, closing, voted, reached, late>>

\* Mutant: emit does not await the dials.
EmitReady_NoAwait(s) == setup[s] /\ ~voted[s]

\* The vote may go out, with the block at any time and at the deadline at the
\* latest, and awaitDials has returned.
EmitReady(s) == setup[s] /\ ~voted[s] /\ dialReady(s)

emit(s) ==
  /\ EmitReady(s)
  /\ voted' = [voted EXCEPT ![s] = TRUE]
  /\ reached' = [reached EXCEPT ![s] = conn \cap Dials[s]]
  /\ UNCHANGED <<now, conn, setup, dialed, left, dialing, drop, closing, ended, late>>

Quiet ==
  \A s \in Slots :
    /\ now >= Start(s) => setup[s]
    /\ dialing[s] # "picking"
    /\ left[s] \cap conn = {}
    /\ setup[s] /\ now >= End(s) => ended[s]
    /\ ~(EmitReady(s) /\ now >= Due(s))

Tick ==
  /\ Quiet /\ now < MaxTime
  /\ now' = now + 1
  /\ UNCHANGED <<conn, setup, dialed, left, dialing, drop, closing, ended, voted, reached, late>>

Handshake == \E s \in Slots, p \in Peers : connect(s, p)

Program ==
  \E s \in Slots :
    \/ setupSlot(s) \/ dialDuties(s) \/ dropDials(s) \/ dropped(s) \/ endSlot(s) \/ emit(s)
    \/ \E p \in Peers : disconnect(s, p)

Next == Program \/ Handshake \/ Tick

\* Goroutines run, time passes, and every handshake ends.
Fairness == WF_vars(Program) /\ WF_vars(Handshake) /\ WF_vars(Tick)

Safety == Init /\ [][Next]_vars

Spec == Safety /\ Fairness

----------------------------------------------------------------------------
\* As long as every handshake ended before its slot did, an open connection
\* belongs to a slot whose drop is not through, so endSlot leaks none, whichever
\* of the dial timer and endSlot dropped.
NoLeakWhenPrompt ==
  ~late => conn \subseteq UNION {Dials[s] : s \in {t \in Slots : setup[t] /\ drop[t] # "done"}}

\* With prompt handshakes, a vote published after awaitDials finds every peer
\* it dialed connected, unless the slot before dialed the peer as well.
FanoutLandsApart ==
  \A s \in Slots :
    voted[s] /\ ~late => \A p \in Dials[s] \ reached[s] : s > 0 /\ p \in Dials[s - 1]

\* A slot's vote goes out and its cleanup runs, however slow its dials are.
EverySlotVotes == \A s \in Slots : <>(voted[s] /\ ended[s])

\* What endSlot's comment says: it disconnects the dials "so connections and
\* state don't leak across a multi-slot run".
NoConnectionLeaks ==
  (\A s \in Slots : ended[s] /\ dialReady(s)) => conn = {}
============================================================================
