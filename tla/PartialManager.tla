--------------------------- MODULE PartialManager ---------------------------
(***************************************************************************)
(* The partial-message manager of one node (node/partial.go): the groups   *)
(* it holds per topic and group key, the RPCs its peers send it, the tick  *)
(* that serves them, the verifier callback, the heartbeat, and the two     *)
(* calls of the runner that close a group's window (seal) and drop it      *)
(* (prune).  Everything that holds m.mu throughout is one step.            *)
(*                                                                         *)
(* A vote is a pair of data and position at a key <<topic, group>>.  The   *)
(* peers are the environment: they deliver each envelope of a small set at *)
(* most once, and only votes that exist.                                   *)
(***************************************************************************)
EXTENDS PartialBucket, Sequences, Functions

CONSTANTS
  Keys,       \* pairs <<topic, group>>; topics are numbered in name order
  KindOf,     \* KindOf[topic]: the partial kind of the topic
  Size,       \* Size[key]: CommitteeSize, 0 for an empty cell
  Datas,      \* the attestation_datas votes may be on
  Own,        \* the node's own votes: triples <<key, data, position>>
  Mesh,       \* the mesh peers that stay so
  Envelopes,  \* what the peers may send: [from, key, metas, batches]
  DisableGossip

Kinds == {KindOf[k[1]] : k \in Keys}
GroupKeys == {k[2] : k \in Keys}
Positions(key) == 0..(Size[key] - 1)
Votes == {<<k, d, i>> : k \in Keys, d \in Datas, i \in UNION {Positions(k) : k \in Keys}}

ASSUME PartialManagerAssumption ==
  /\ \A k \in Keys : k[1] \in DOMAIN KindOf /\ Size[k] \in Nat /\ k[2] \in Nat
  /\ Own \subseteq Votes /\ \A v \in Own : v[3] \in Positions(v[1])
  /\ Mesh \subseteq Peers
  /\ \A env \in Envelopes :
       /\ env.from \in Peers /\ env.key \in Keys
       /\ \A md \in env.metas : md.data \in Datas
       /\ env.batches \in Seq([data : Datas, positions : SUBSET Nat, signed : BOOLEAN])
  /\ DisableGossip \in BOOLEAN

VARIABLES
  groups,      \* m.groups: key -> [sealed, buckets: data -> bucket]
  floor,       \* m.floor: kind -> the pruned watermark, -1 before any prune
  peerStates,  \* the extension's peerStates of each key
  verifying,   \* kind -> the items in its verifier, in order
  ticking,     \* the keys this tick has still to publish
  consumed,    \* history: the envelopes already delivered
  published,   \* history: the own votes published
  arrived,     \* history: vote -> how often OnReceive was called for it
  sent,        \* history: <<vote, peer>> sent
  sealedTo     \* history: kind -> the highest group key sealed, or -1

vars == <<groups, floor, peerStates, verifying, ticking, consumed, published,
          arrived, sent, sealedTo>>

Init ==
  /\ groups = <<>>
  /\ floor = [kd \in Kinds |-> -1]
  /\ peerStates = [k \in Keys |-> [p \in Peers |-> "none"]]
  /\ verifying = [kd \in Kinds |-> <<>>]
  /\ ticking = {}
  /\ consumed = {} /\ published = {} /\ sent = {}
  /\ arrived = [v \in Votes |-> 0]
  /\ sealedTo = [kd \in Kinds |-> -1]

Live == DOMAIN groups
KindAt(key) == KindOf[key[1]]

\* getOrCreateGroup and bucket, for a key whose committee is not empty.
Put(f, x, v) == [y \in DOMAIN f \cup {x} |-> IF y = x THEN v ELSE f[y]]
getOrCreateGroup(key) ==
  IF key \in Live THEN groups[key] ELSE [sealed |-> FALSE, buckets |-> <<>>]
bucket(bs, key, data) ==
  IF data \in DOMAIN bs THEN bs[data] ELSE newPartialBucket(Positions(key))

----------------------------------------------------------------------------
(* The node's own votes.                                                   *)

\* publishLocal, called once per own vote.  It does not look at the floor.
publishLocal(v) ==
  LET key == v[1]
      g == getOrCreateGroup(key)
  IN  /\ v \in Own \ published
      /\ groups' = Put(groups, key,
           [g EXCEPT !.buckets = Put(@, v[2], addOwn(bucket(@, key, v[2]), v[3]))])
      /\ published' = published \cup {v}
      /\ UNCHANGED <<floor, peerStates, verifying, ticking, consumed, arrived,
                     sent, sealedTo>>

----------------------------------------------------------------------------
(* The receive path.                                                       *)

\* The buckets after the metadata of an envelope.
withMetas(bs, key, from, metas) ==
  [d \in DOMAIN bs \cup {md.data : md \in metas} |->
     LET mine == {md \in metas : md.data = d}
     IN  addMetadata(bucket(bs, key, d), from,
           [available |-> UNION {md.available : md \in mine},
            requests  |-> UNION {md.requests : md \in mine}])]

\* A batch is checked whole: as many signatures as indices, and every index
\* below the committee size.
WellFormed(key, batch) == batch.signed /\ batch.positions \subseteq Positions(key)

\* The batches are taken one after the other, up to the first malformed one.
Accepted(key, batches) ==
  {n \in 1..Len(batches) : \A j \in 1..n : WellFormed(key, batches[j])}

\* The positions the batches numbered ns bring for data.
Stored(batches, ns, data) ==
  UNION {batches[n].positions : n \in {j \in ns : batches[j].data = data}}

\* The numbers of a finite set in increasing order.
InOrder(ns) ==
  CHOOSE e \in [1..Cardinality(ns) -> ns] :
    \A i, j \in 1..Cardinality(ns) : i < j => e[i] < e[j]

\* What batch n brings that neither the bucket nor an earlier batch did.
FreshOf(bs, key, batches, n) ==
  LET data == batches[n].data
  IN  Fresh(bucket(bs, key, data), batches[n].positions) \ Stored(batches, 1..(n - 1), data)

\* The items submitted to the verifier: one for each accepted batch with
\* something new.
itemsOf(bs, key, batches) ==
  LET news == {n \in Accepted(key, batches) : FreshOf(bs, key, batches, n) # {}}
  IN  [i \in 1..Cardinality(news) |->
         LET n == InOrder(news)[i]
         IN  [key |-> key, data |-> batches[n].data, fresh |-> FreshOf(bs, key, batches, n)]]

\* Mutant: a batch is stored before it is checked.
withBatches_StoreFirst(bs, key, from, batches) ==
  LET ns == {n \in 1..Len(batches) : \A j \in 1..(n - 1) : WellFormed(key, batches[j])}
  IN  [d \in DOMAIN bs \cup {batches[n].data : n \in ns} |->
         addReceived(bucket(bs, key, d), from, Stored(batches, ns, d) \cap Positions(key))]

\* The buckets after the batches.  What was stored before a malformed one stays.
withBatches(bs, key, from, batches) ==
  LET ns == Accepted(key, batches)
  IN  [d \in DOMAIN bs \cup {batches[n].data : n \in ns} |->
         addReceived(bucket(bs, key, d), from, Stored(batches, ns, d))]

\* A vote of this node is on the wire only after it was published.
Exists(env) ==
  \A n \in 1..Len(env.batches), v \in Own :
    /\ v[1] = env.key /\ v[2] = env.batches[n].data /\ v[3] \in env.batches[n].positions
    => v \in published

\* A straggler of a pruned group is dropped.
Stale_Never(key) == FALSE \* mutant: no floor

Stale(key) == key[2] <= floor[KindAt(key)]

\* A peer that issues metadata is a gossip peer.
IssuesMetadata(env) == \E md \in env.metas : md.available # {} \/ md.requests # {}

\* onIncomingRPC: metadata first, then the batches.  An empty cell is an error
\* that changes nothing; an envelope with neither creates nothing.
onIncomingRPC(env) ==
  LET key == env.key
      from == env.from
      g == getOrCreateGroup(key)
      bs == withMetas(g.buckets, key, from, env.metas)
  IN  /\ env \notin consumed /\ Exists(env)
      /\ consumed' = consumed \cup {env}
      /\ IF Stale(key) \/ Size[key] = 0 \/ (env.metas = {} /\ env.batches = <<>>)
         THEN UNCHANGED <<groups, peerStates, verifying>>
         ELSE /\ groups' = Put(groups, key, [g EXCEPT !.buckets = withBatches(bs, key, from, env.batches)])
              /\ verifying' = [verifying EXCEPT ![KindAt(key)] = @ \o itemsOf(bs, key, env.batches)]
              /\ peerStates' = IF IssuesMetadata(env) /\ ~IsGossip(peerStates[key][from])
                               THEN [peerStates EXCEPT ![key][from] = "gossip"]
                               ELSE peerStates
      /\ UNCHANGED <<floor, ticking, published, arrived, sent, sealedTo>>

\* markValidated, the callback of the oldest item of a verifier: promotes what
\* is still awaited and reports one arrival each.
markValidated(kd) ==
  LET item == Head(verifying[kd])
      key == item.key
      known == key \in Live /\ item.data \in DOMAIN groups[key].buckets
      b == groups[key].buckets[item.data]
  IN  /\ verifying[kd] # <<>>
      /\ verifying' = [verifying EXCEPT ![kd] = Tail(@)]
      /\ IF known
         THEN /\ groups' = [groups EXCEPT ![key].buckets[item.data] = promote(@, item.fresh)]
              /\ arrived' = [v \in Votes |->
                   IF v[1] = key /\ v[2] = item.data /\ v[3] \in Promotable(b, item.fresh)
                   THEN arrived[v] + 1 ELSE arrived[v]]
         ELSE UNCHANGED <<groups, arrived>>
      /\ UNCHANGED <<floor, peerStates, ticking, consumed, published, sent, sealedTo>>

----------------------------------------------------------------------------
(* The tick loop and the heartbeat.                                        *)

KeyBefore(j, k) == j[1] < k[1] \/ (j[1] = k[1] /\ j[2] < k[2])

\* tick takes the live groups ...
tick ==
  /\ ticking = {} /\ Live # {}
  /\ ticking' = Live
  /\ UNCHANGED <<groups, floor, peerStates, verifying, consumed, published, arrived, sent,
                 sealedTo>>

VotesAt(key, bs) == {v \in Votes : v[1] = key /\ v[2] \in DOMAIN bs}

Silent(key) == key \notin Live \/ groups[key].sealed \/ groups[key].buckets = <<>>

\* ... and publishes them in order: the extension adds the mesh, whatever it is
\* by now, and publishActions serves every peer it holds.
publishActions(key) ==
  \E others \in SUBSET (Peers \ Mesh), ord \in Orders :
    LET sts == AddMesh(peerStates[key], Mesh \cup others)
        bs == groups[key].buckets
    IN  /\ key \in ticking /\ \A j \in ticking \ {key} : KeyBefore(key, j)
        /\ ticking' = ticking \ {key}
        /\ IF Silent(key)
           THEN /\ peerStates' = [peerStates EXCEPT ![key] = sts]
                /\ UNCHANGED <<groups, sent>>
           ELSE /\ peerStates' = [peerStates EXCEPT ![key] = Forget(sts)]
                /\ \E askOrd \in [DOMAIN bs -> Orders] :
                     groups' = [groups EXCEPT ![key].buckets =
                                  [d \in DOMAIN bs |-> served(bs[d], sts, askOrd[d], ord)]]
                /\ sent' = sent \cup {t \in VotesAt(key, bs) \X Peers :
                                        t[1][3] \in Claims(bs[t[1][2]], sts, ord, t[2])}
        /\ UNCHANGED <<floor, verifying, consumed, published, arrived, sealedTo>>

\* onEmitGossip for some peers outside the mesh, of a group the extension has.
onEmitGossip(key, ps) ==
  /\ ~DisableGossip
  /\ peerStates' = [peerStates EXCEPT ![key] =
                      [p \in Peers |-> IF p \in ps THEN "armed" ELSE @[p]]]
  /\ UNCHANGED <<groups, floor, verifying, ticking, consumed, published, arrived, sent,
                 sealedTo>>

----------------------------------------------------------------------------
(* The runner's calls.  Per kind their group keys only grow.               *)

Covered(kd, upTo) == {k \in Live : KindAt(k) = kd /\ k[2] <= upTo}

seal(kd, upTo) ==
  /\ upTo > sealedTo[kd]
  /\ groups' = [k \in Live |-> IF k \in Covered(kd, upTo)
                               THEN [groups[k] EXCEPT !.sealed = TRUE] ELSE groups[k]]
  /\ sealedTo' = [sealedTo EXCEPT ![kd] = upTo]
  /\ UNCHANGED <<floor, peerStates, verifying, ticking, consumed, published, arrived, sent>>

prune(kd, upTo) ==
  /\ upTo > floor[kd]
  /\ floor' = [floor EXCEPT ![kd] = upTo]
  /\ groups' = Restrict(groups, Live \ Covered(kd, upTo))
  /\ UNCHANGED <<peerStates, verifying, ticking, consumed, published, arrived, sent,
                 sealedTo>>

Next ==
  \/ \E v \in Own : publishLocal(v)
  \/ \E env \in Envelopes : onIncomingRPC(env)
  \/ \E kd \in Kinds : markValidated(kd)
  \/ tick
  \/ \E k \in Keys : publishActions(k)
  \/ \E k \in Live, p \in Peers \ Mesh : onEmitGossip(k, {p})
  \/ \E kd \in Kinds, g \in GroupKeys : seal(kd, g) \/ prune(kd, g)

Safety == Init /\ [][Next]_vars

\* The ticker fires for ever, a tick is carried through, and the verifiers call
\* back (ImplementsService of BatchVerifier).  Nobody has to send, seal or prune.
Fairness ==
  /\ WF_vars(tick)
  /\ \A k \in Keys : WF_vars(publishActions(k))
  /\ \A kd \in Kinds : WF_vars(markValidated(kd))

Spec == Safety /\ Fairness

----------------------------------------------------------------------------
BucketAt(k, d) == groups[k].buckets[d]

\* The buckets of the live groups.
Held == {kd \in Keys \X Datas : kd[1] \in Live /\ kd[2] \in DOMAIN groups[kd[1]].buckets}

\* claimToSend's forward count of a position is the number of different peers
\* it went to: no peer is ever sent a vote twice, and no position goes to more than
\* MaxPeers peers, over wants, mesh changes, malformed input and prunes.
SentOncePerPeer ==
  \A k \in Live : \A d \in DOMAIN groups[k].buckets : \A pos \in BucketAt(k, d).attestations :
    LET n == Cardinality({p \in Peers : <<<<k, d, pos>>, p>> \in sent})
    IN  BucketAt(k, d).sendCount[pos] = n /\ n <= MaxPeers

\* markValidated reports a vote to OnReceive at most once, and to its own
\* publisher never, through redeliveries, prunes in mid-verification and groups
\* made again.
ArrivesOnce == \A v \in DOMAIN arrived : arrived[v] <= (IF v \in Own THEN 0 ELSE 1)

\* Nothing waits for a verification that is not coming: a position that
\* onIncomingRPC put under verification is in exactly one item of its kind's
\* verifier, whatever part of its envelope was malformed.
ValidatingIsQueued ==
  \A k \in Live : \A d \in DOMAIN groups[k].buckets : \A pos \in BucketAt(k, d).validating :
    LET q == verifying[KindAt(k)]
    IN  Cardinality({n \in 1..Len(q) :
                       q[n].key = k /\ q[n].data = d /\ pos \in q[n].fresh}) = 1

\* A pruned group stays pruned: the only votes at a key under the floor are the
\* node's own, so neither a straggler nor a late verifier callback brings one
\* back.
PrunedStaysPruned ==
  \A k \in Live : \A d \in DOMAIN groups[k].buckets : k[2] <= floor[KindAt(k)] =>
    \A pos \in BucketAt(k, d).attestations \cup BucketAt(k, d).validated : <<k, d, pos>> \in Own

\* Every validated vote reaches each lasting mesh peer: it is sent there, or
\* the peer is known to hold it, or the forward cap is used up, or the group's
\* window closed meanwhile - although metadata from a mesh peer demotes it to a
\* gossip peer for a tick.
MeshServed ==
  \A k \in Keys, d \in Datas, p \in Mesh \cap RequestsPartial : \A pos \in Positions(k) :
    (<<k, d>> \in Held /\ pos \in BucketAt(k, d).validated)
      ~> \/ <<k, d>> \notin Held
         \/ groups[k].sealed
         \/ pos \in BucketAt(k, d).available[p]
         \/ BucketAt(k, d).sendCount[pos] = MaxPeers

\* A missing position a gossip peer advertised is asked for, while the group is
\* served and unless it arrives first.
AdvertisedIsAsked ==
  \A k \in Keys, d \in Datas, p \in Peers : \A pos \in Positions(k) :
    (<<k, d>> \in Held /\ pos \in BucketAt(k, d).available[p])
      ~> \/ <<k, d>> \notin Held
         \/ groups[k].sealed
         \/ pos \in BucketAt(k, d).attestations
         \/ BucketAt(k, d).requestCount[pos] > 0
============================================================================
