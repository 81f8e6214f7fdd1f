--------------------------- MODULE PartialBucket ---------------------------
(***************************************************************************)
(* The bucket of the partial-message transport (node/partial.go): what a   *)
(* node holds of the votes on one attestation_data, and what it knows of   *)
(* each peer.  Votes are identified by their committee position.           *)
(*                                                                         *)
(* The code serves the peers one after the other, in the order a Go map    *)
(* iterates; here that order is an argument, and what the whole loop does  *)
(* to the bucket is said at once.                                          *)
(***************************************************************************)
EXTENDS Integers, FiniteSets

CONSTANTS
  Peers,           \* the node's peers on the topic
  MaxPeers,        \* MaxPeersPerAttestation: peers one position is sent to
  MaxIWant,        \* MaxIWantPerPosition: requests made for one position
  RequestsPartial  \* the peers peerRequestsPartial accepts

\* newPartialManager replaces a cap <= 0 by a positive default.
ASSUME PartialBucketAssumption ==
  /\ IsFiniteSet(Peers)
  /\ MaxPeers \in Nat \ {0} /\ MaxIWant \in Nat \ {0}
  /\ RequestsPartial \subseteq Peers

\* A peer's partialPeerState is "mesh", "gossip" or "armed", a gossip peer with
\* sendAvailableList set; "none" is its absence from the extension's peerStates.
IsGossip(state) == state \in {"gossip", "armed"}

\* An order in which a loop over a map of the peers visits them.
Orders == {o \in [Peers -> 1..Cardinality(Peers)] :
             \A p, q \in Peers : o[p] = o[q] => p = q}
Before(ord, p) == {q \in Peers : ord[q] < ord[p]}

newPartialBucket(positions) ==
  [ attestations |-> {},                      \* positions held
    validating   |-> {},                      \* held, in the verifier
    validated    |-> {},                      \* held, may flow
    sendCount    |-> [i \in positions |-> 0],
    requestCount |-> [i \in positions |-> 0],
    available    |-> [p \in Peers |-> {}],    \* positions p is known to hold
    pendingWant  |-> [p \in Peers |-> {}] ]   \* positions p just asked for

\* A vote of the node's own is validated at once; a position already held is
\* left alone.
addOwn(b, pos) ==
  IF pos \in b.attestations THEN b
  ELSE [b EXCEPT !.attestations = @ \cup {pos}, !.validated = @ \cup {pos}]

\* The positions of a received batch the bucket does not hold yet.
Fresh(b, positions) == positions \ b.attestations

\* addReceived, and the sender holds what it sent.
addReceived(b, from, positions) ==
  [b EXCEPT !.attestations = @ \cup positions,
            !.validating = @ \cup Fresh(b, positions),
            !.available[from] = @ \cup positions]

\* The metadata of a peer, cut to the width of the committee.
addMetadata(b, from, md) ==
  [b EXCEPT !.available[from] = @ \cup (md.available \cap DOMAIN b.sendCount),
            !.pendingWant[from] = @ \cup (md.requests \cap DOMAIN b.sendCount)]

\* Mutant: promotes whatever the callback names.
Promotable_Any(b, positions) == positions

\* The positions of a verified item that the bucket still awaits.
Promotable(b, positions) == positions \cap b.validating

promote(b, positions) ==
  [b EXCEPT !.validating = @ \ Promotable(b, positions),
            !.validated = @ \cup Promotable(b, positions)]

----------------------------------------------------------------------------
(* One tick over the bucket.  sts maps each peer to its partialPeerState.  *)

\* selectIWantTargets: a missing position is asked of the gossip peers that
\* have it, in the order ord, while its request count is under the cap.
Askable(b, sts, p) ==
  IF IsGossip(sts[p]) THEN b.available[p] \ b.attestations ELSE {}

Asks(b, sts, ord, p) ==
  {pos \in Askable(b, sts, p) :
     Cardinality({q \in Before(ord, p) : pos \in Askable(b, sts, q)})
       < MaxIWant - b.requestCount[pos]}

\* claimToSend: a mesh peer gets every validated position it lacks, a gossip
\* peer those among them it asked for.
Lacks_AnyHeld(b, sts, p) == \* mutant: what is still under verification flows
  IF sts[p] = "none" \/ p \notin RequestsPartial THEN {}
  ELSE {pos \in b.attestations \ b.available[p] :
          IsGossip(sts[p]) => pos \in b.pendingWant[p]}

Lacks_MeshOnly(b, sts, p) == \* mutant: wants are cleared before they are served
  IF sts[p] # "mesh" \/ p \notin RequestsPartial THEN {} ELSE b.validated \ b.available[p]

Lacks(b, sts, p) ==
  IF sts[p] = "none" \/ p \notin RequestsPartial THEN {}
  ELSE {pos \in b.validated \ b.available[p] :
          IsGossip(sts[p]) => pos \in b.pendingWant[p]}

\* ... as long as the position was sent to fewer than MaxPeers peers.
Claims_OffByOne(b, sts, ord, p) == \* mutant: <= for <
  {pos \in Lacks(b, sts, p) :
     Cardinality({q \in Before(ord, p) : pos \in Lacks(b, sts, q)})
       <= MaxPeers - b.sendCount[pos]}

Claims(b, sts, ord, p) ==
  {pos \in Lacks(b, sts, p) :
     Cardinality({q \in Before(ord, p) : pos \in Lacks(b, sts, q)})
       < MaxPeers - b.sendCount[pos]}

\* The Available list of bucketMetadata, and the Requests.
Advertises(b, sts, p) == IF sts[p] = "armed" THEN b.validated ELSE {}

\* The bucket after the tick: requests selected first, then every peer of
\* peerStates served and its pendingWant cleared, satisfied or not.
served(b, sts, askOrd, ord) ==
  [b EXCEPT
     !.requestCount = [pos \in DOMAIN @ |->
        @[pos] + Cardinality({p \in Peers : pos \in Asks(b, sts, askOrd, p)})],
     !.sendCount = [pos \in DOMAIN @ |->
        @[pos] + Cardinality({p \in Peers : pos \in Claims(b, sts, ord, p)})],
     !.available = [p \in Peers |-> @[p] \cup Claims(b, sts, ord, p)],
     !.pendingWant = [p \in Peers |-> IF sts[p] = "none" THEN @[p] ELSE {}]]

\* A served gossip peer is forgotten until a heartbeat or a want re-adds it.
Forget_Nobody(sts) == sts \* mutant: a gossip peer stays one

Forget(sts) == [p \in Peers |-> IF IsGossip(sts[p]) THEN "none" ELSE sts[p]]

\* PublishPartial adds the mesh peers that peerStates does not hold yet.
AddMesh(sts, mesh) ==
  [p \in Peers |-> IF sts[p] = "none" /\ p \in mesh THEN "mesh" ELSE sts[p]]
============================================================================
