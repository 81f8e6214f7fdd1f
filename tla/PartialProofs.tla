---------------------------- MODULE PartialProofs ----------------------------
(***************************************************************************)
(* What one node's partial transport keeps to under every order of RPCs,   *)
(* ticks, verifier callbacks, seals and prunes, for every set of keys,     *)
(* peers, envelopes and caps.  A bucket that does not exist is treated as  *)
(* an empty one (At), so that an action is what it does to one bucket.     *)
(* Then the members of a topic together (PartialNetwork, here Net).        *)
(***************************************************************************)
EXTENDS PartialManager, FiniteSetTheorems, TLAPS

Bucket(ps) ==
  [ attestations : SUBSET ps, validating : SUBSET ps, validated : SUBSET ps,
    sendCount : [ps -> Nat], requestCount : [ps -> Nat],
    available : [Peers -> SUBSET ps], pendingWant : [Peers -> SUBSET ps] ]

Buckets(ps) == UNION {[D -> Bucket(ps)] : D \in SUBSET Datas}

Item == [key : Keys, data : Datas, fresh : SUBSET Nat]

GroupsType ==
  /\ Live \subseteq Keys
  /\ groups = [k \in Live |-> groups[k]]
  /\ \A k \in Live : groups[k] \in [sealed : BOOLEAN, buckets : Buckets(Positions(k))]

\* The types of the variables.
TypeInv ==
  /\ GroupsType
  /\ floor \in [Kinds -> Int]
  /\ verifying \in [Kinds -> Seq(Item)]
  /\ arrived \in [Votes -> Nat]
  /\ published \subseteq Own

\* The bucket of a data at a key, empty if there is none.
At(k, d) == bucket(getOrCreateGroup(k).buckets, k, d)

\* A bucket holds what it verifies and what it has verified, apart; of the
\* node's own votes it holds only published ones, and it never verifies them.
HeldInv ==
  \A k \in Keys, d \in Datas :
    /\ At(k, d).attestations = At(k, d).validating \cup At(k, d).validated
    /\ At(k, d).validating \cap At(k, d).validated = {}
    /\ \A pos \in At(k, d).attestations :
         <<k, d, pos>> \in Own => <<k, d, pos>> \in published /\ pos \in At(k, d).validated

\* Under the floor there are only own votes.
StaleInv ==
  \A k \in Keys, d \in Datas :
    Stale(k) => \A pos \in At(k, d).attestations : <<k, d, pos>> \in Own

\* What was published, reported or sent at a key over the floor is still held.
KnownInv ==
  \A k \in Keys, d \in Datas : \A pos \in Positions(k) :
    LET v == <<k, d, pos>> IN
    ~Stale(k) => /\ v \in published => pos \in At(k, d).attestations
                 /\ arrived[v] > 0 => pos \in At(k, d).validated
                 /\ \A p \in Peers : <<v, p>> \in sent => pos \in At(k, d).attestations

\* An own vote is sent only after it was published.
OwnSentInv == \A v \in Own, p \in Peers : <<v, p>> \in sent => v \in published

\* The peers a vote was sent to.
Recipients(v) == {p \in Peers : <<v, p>> \in sent}

\* The forward count counts them, and they are known to have the vote; what is
\* not held was not counted.
CountInv ==
  \A k \in Keys, d \in Datas : \A pos \in Positions(k) :
    IF pos \in At(k, d).attestations
    THEN /\ At(k, d).sendCount[pos] = Cardinality(Recipients(<<k, d, pos>>))
         /\ At(k, d).sendCount[pos] <= MaxPeers
         /\ \A p \in Recipients(<<k, d, pos>>) : pos \in At(k, d).available[p]
    ELSE At(k, d).sendCount[pos] = 0

\* The items of a verifier that await a position.
Awaits(q, k, d, pos) ==
  {n \in 1..Len(q) : q[n].key = k /\ q[n].data = d /\ pos \in q[n].fresh}

\* An item is in the verifier of its kind, and its votes are held unless its
\* group was pruned.
ItemsInv ==
  \A kd \in Kinds : \A n \in 1..Len(verifying[kd]) :
    LET item == verifying[kd][n] IN
    /\ KindAt(item.key) = kd
    /\ ~Stale(item.key) => item.fresh \subseteq At(item.key, item.data).attestations

\* A position under verification is in exactly one item.
AwaitedInv ==
  \A k \in Keys, d \in Datas : \A pos \in At(k, d).validating :
    \E n \in 1..Len(verifying[KindAt(k)]) : Awaits(verifying[KindAt(k)], k, d, pos) = {n}

QueueInv == ItemsInv /\ AwaitedInv

IInv ==
  /\ TypeInv /\ HeldInv /\ StaleInv /\ KnownInv /\ OwnSentInv /\ CountInv /\ QueueInv
  /\ ArrivesOnce

-----------------------------------------------------------------------------
(* Numbers and counting.                                                   *)

Less == {ss \in Nat \X Nat : ss[1] < ss[2]}

\* A set of naturals has a least element.
LEMMA LeastNat ==
  ASSUME NEW T, T \subseteq Nat, T # {}
  PROVE  \E x \in T : \A y \in T : x <= y
<1>1. OpToRel(<, Nat) = Less
  BY Zenon DEF OpToRel, Less
<1>2. IsWellFoundedOn(Less, Nat)
  BY <1>1, NatLessThanWellFounded, Zenon
<1>3. PICK x \in T : \A y \in T : <<y, x>> \notin Less
  BY <1>2, WFMin, Zenon
<1>4. \A y \in T : ~(y < x)
  BY <1>3 DEF Less
<1> QED BY <1>4

\* A number of peers is a natural number.
LEMMA CountPeers ==
  ASSUME NEW S, S \subseteq Peers
  PROVE  IsFiniteSet(S) /\ Cardinality(S) \in Nat
BY PartialBucketAssumption, FS_Subset, FS_CardinalityType

\* The first m of a set of peers, in an order, are at most m.
LEMMA FirstFew ==
  ASSUME NEW L, L \subseteq Peers, NEW ord \in Orders, NEW m \in Nat
  PROVE  Cardinality({p \in L : Cardinality({q \in Before(ord, p) : q \in L}) < m}) <= m
<1> DEFINE Ahead(p) == {q \in Before(ord, p) : q \in L}
           C == {p \in L : Cardinality(Ahead(p)) < m}
<1>1. IsFiniteSet(C) /\ Cardinality(C) \in Nat
  <2>1. C \subseteq Peers
    OBVIOUS
  <2> HIDE DEF C
  <2> QED BY <2>1, CountPeers
<1>2. CASE C = {}
  <2>1. Cardinality(C) = 0
    BY <1>2, FS_EmptySet
  <2> QED BY <2>1
<1>3. CASE C # {}
  <2> DEFINE N == Cardinality(Peers)
             T == {N - ord[p] : p \in C}
  <2>1. N \in Nat /\ \A p \in C : p \in Peers /\ ord[p] \in 1..N
    BY CountPeers DEF Orders
  <2>2. T \subseteq Nat /\ T # {}
    <3> HIDE DEF C, N
    <3> QED BY <2>1, <1>3
  <2>3. PICK x \in T : \A y \in T : x <= y
    <3> HIDE DEF T
    <3> QED BY <2>2, LeastNat
  <2>4. PICK p \in C : x = N - ord[p]
    BY <2>3
  <2>5. \A q \in C : ord[q] <= ord[p]
    <3> SUFFICES ASSUME NEW q \in C PROVE ord[q] <= ord[p]
      OBVIOUS
    <3> HIDE DEF C, N
    <3>1. N - ord[p] <= N - ord[q]
      BY <2>3, <2>4
    <3> QED BY <2>1, <2>4, <3>1
  <2>6. C \ {p} \subseteq Ahead(p)
    <3> SUFFICES ASSUME NEW q \in C, q # p PROVE q \in Ahead(p)
      OBVIOUS
    <3>1. q \in Peers /\ p \in Peers /\ ord[q] # ord[p]
      BY DEF Orders
    <3>2. ord[q] < ord[p]
      <4>1. ord[q] <= ord[p] /\ ord[q] \in Int /\ ord[p] \in Int
        <5> HIDE DEF C, N
        <5> QED BY <2>1, <2>5
      <4> QED BY <3>1, <4>1
    <3> QED BY <3>1, <3>2 DEF Before
  <2>7. Cardinality(Ahead(p)) < m
    OBVIOUS
  <2> HIDE DEF C
  <2>8. Ahead(p) \subseteq Peers
    BY DEF Before
  <2> HIDE DEF Ahead
  <2>9. Cardinality(C \ {p}) <= Cardinality(Ahead(p)) /\ Cardinality(Ahead(p)) \in Nat
    BY <2>6, <2>8, CountPeers, FS_Subset
  <2>10. Cardinality(C \ {p}) = Cardinality(C) - 1
    BY <1>1, <2>4, FS_RemoveElement
  <2> QED BY <1>1, <2>7, <2>9, <2>10 DEF C, Ahead
<1> QED BY <1>2, <1>3

\* A set of batch numbers is finite.
LEMMA FiniteNumbers ==
  ASSUME NEW m \in Nat, NEW F \in SUBSET (1..m)
  PROVE  IsFiniteSet(F) /\ Cardinality(F) \in Nat
<1>1. IsFiniteSet(1..m)
  BY FS_Interval
<1>2. IsFiniteSet(F)
  BY <1>1, FS_Subset
<1> QED BY <1>2, FS_CardinalityType

\* A set of batch numbers has an increasing enumeration.
Enumerates(e, F) ==
  /\ e \in [1..Cardinality(F) -> F]
  /\ \A i, j \in 1..Cardinality(F) : i < j => e[i] < e[j]

\* Such an enumeration exists, by the least bound that lacks one.
LEMMA EnumerationExists ==
  ASSUME NEW m \in Nat, NEW F \in SUBSET (1..m)
  PROVE  \E e : Enumerates(e, F)
<1> DEFINE Bad == {n \in Nat : \E G \in SUBSET (1..n) : \A e : ~Enumerates(e, G)}
<1>1. SUFFICES Bad = {}
  OBVIOUS
<1>2. SUFFICES ASSUME Bad # {} PROVE FALSE
  OBVIOUS
<1>3. PICK n \in Bad : \A y \in Bad : n <= y
  <2>1. Bad \subseteq Nat
    OBVIOUS
  <2> HIDE DEF Bad
  <2> QED BY <1>2, <2>1, LeastNat
<1>4. PICK G \in SUBSET (1..n) : \A e : ~Enumerates(e, G)
  BY <1>3
<1>5. n \in Nat
  BY <1>3
<1>6. IsFiniteSet(G) /\ Cardinality(G) \in Nat
  BY <1>5, FiniteNumbers
<1>7. CASE n = 0
  <2>1. G = {}
    BY <1>7
  <2>2. Cardinality(G) = 0
    BY <2>1, FS_EmptySet
  <2>3. Enumerates([i \in 1..0 |-> 0], G)
    BY <2>2 DEF Enumerates
  <2> QED BY <2>3, <1>4
<1>8. CASE n # 0
  <2>1. \A H \in SUBSET (1..(n - 1)) : \E e : Enumerates(e, H)
    <3>1. n - 1 \in Nat /\ n - 1 \notin Bad
      BY <1>3, <1>5, <1>8, SMTT(30)
    <3> QED BY <3>1
  <2>2. n \in G
    <3>1. n \notin G => G \in SUBSET (1..(n - 1))
      BY <1>5
    <3> QED BY <3>1, <2>1, <1>4
  <2> DEFINE H == G \ {n}
             c == Cardinality(G)
  <2>3. H \in SUBSET (1..(n - 1))
    BY <1>5
  <2>4. PICK e : Enumerates(e, H)
    BY <2>1, <2>3
  <2>5. Cardinality(H) = c - 1 /\ c >= 1
    <3>1. Cardinality(H) = c - 1
      BY <1>6, <2>2, FS_RemoveElement
    <3>2. c # 0
      BY <1>6, <2>2, FS_EmptySet
    <3> QED BY <3>1, <3>2, <1>6
  <2> DEFINE f == [i \in 1..c |-> IF i = c THEN n ELSE e[i]]
  <2> HIDE DEF H, c
  <2>6. /\ e \in [1..(c - 1) -> H]
        /\ \A i, j \in 1..(c - 1) : i < j => e[i] < e[j]
    BY <2>4, <2>5 DEF Enumerates
  <2>7. c \in Nat /\ c >= 1
    BY <1>6, <2>5 DEF c
  <2>8. \A i \in 1..c : i # c => i \in 1..(c - 1)
    BY <2>7
  <2>9. f \in [1..c -> G]
    BY <2>2, <2>6, <2>8 DEF H
  <2>10. ASSUME NEW i \in 1..c, NEW j \in 1..c, i < j PROVE f[i] < f[j]
    <3>1. i \in 1..(c - 1) /\ e[i] \in H
      BY <2>6, <2>7, <2>10
    <3>2. e[i] < n /\ e[i] \in Int
      <4>1. e[i] \in 1..(n - 1)
        BY <3>1, <2>3
      <4> QED BY <4>1, <1>5
    <3>3. CASE j = c
      BY <3>1, <3>2, <3>3, <2>10, <2>7
    <3>4. CASE j # c
      <4>1. j \in 1..(c - 1)
        BY <3>4, <2>8
      <4>2. e[i] < e[j]
        BY <3>1, <4>1, <2>6, <2>10
      <4>3. i # c
        BY <3>1, <2>7
      <4> QED BY <3>4, <4>2, <4>3
    <3> QED BY <3>3, <3>4
  <2>11. Enumerates(f, G)
    <3> HIDE DEF f
    <3> QED BY <2>9, <2>10 DEF Enumerates, c
  <2> QED BY <2>11, <1>4
<1> QED BY <1>7, <1>8

\* InOrder lists each number of the set once.
LEMMA InOrderLists ==
  ASSUME NEW m \in Nat, NEW F \in SUBSET (1..m)
  PROVE  /\ Cardinality(F) \in Nat
         /\ InOrder(F) \in [1..Cardinality(F) -> F]
         /\ \A x \in F : \E i \in 1..Cardinality(F) : InOrder(F)[i] = x
         /\ \A i, j \in 1..Cardinality(F) : InOrder(F)[i] = InOrder(F)[j] => i = j
<1> DEFINE c == Cardinality(F)
<1>1. IsFiniteSet(F) /\ c \in Nat
  BY FiniteNumbers
<1>2. \E e \in [1..c -> F] : \A i, j \in 1..c : i < j => e[i] < e[j]
  BY EnumerationExists DEF Enumerates
<1> DEFINE e == InOrder(F)
<1>3. e \in [1..c -> F] /\ \A i, j \in 1..c : i < j => e[i] < e[j]
  BY <1>2 DEF InOrder
<1> HIDE DEF e
<1>4. \A i \in 1..c : e[i] \in Nat
  <2>1. F \subseteq Nat
    OBVIOUS
  <2> QED BY <1>3, <2>1
<1>5. \A i, j \in 1..c : e[i] = e[j] => i = j
  <2> SUFFICES ASSUME NEW i \in 1..c, NEW j \in 1..c, e[i] = e[j] PROVE i = j
    OBVIOUS
  <2>1. i \in Nat /\ j \in Nat
    BY <1>1
  <2>2. ~(i < j) /\ ~(j < i)
    BY <1>3, <1>4
  <2> QED BY <2>1, <2>2
<1>6. e \in Injection(1..c, F)
  BY <1>3, <1>5 DEF Injection, IsInjective
<1>7. e \in Surjection(1..c, F)
  <2>1. Cardinality(1..c) = c
    BY <1>1, FS_Interval
  <2> HIDE DEF c
  <2>2. Cardinality(1..c) = Cardinality(F)
    BY <2>1 DEF c
  <2> QED BY <1>1, <1>6, <2>2, FS_Injection
<1> QED BY <1>1, <1>3, <1>5, <1>7 DEF e, Surjection

-----------------------------------------------------------------------------
(* The bucket's operations.                                                *)

\* A new bucket holds nothing and has counted nothing.
LEMMA NewBucket ==
  ASSUME NEW ps
  PROVE  /\ newPartialBucket(ps) \in Bucket(ps)
         /\ newPartialBucket(ps).attestations = {}
         /\ newPartialBucket(ps).validating = {}
         /\ newPartialBucket(ps).validated = {}
         /\ \A pos \in ps : newPartialBucket(ps).sendCount[pos] = 0
BY DEF newPartialBucket, Bucket

\* An own vote that was not held is held and validated.
LEMMA AddOwn ==
  ASSUME NEW ps, NEW b \in Bucket(ps), NEW pos \in ps, pos \notin b.attestations
  PROVE  /\ addOwn(b, pos) \in Bucket(ps)
         /\ addOwn(b, pos).attestations = b.attestations \cup {pos}
         /\ addOwn(b, pos).validating = b.validating
         /\ addOwn(b, pos).validated = b.validated \cup {pos}
         /\ addOwn(b, pos).sendCount = b.sendCount
         /\ addOwn(b, pos).available = b.available
BY DEF addOwn, Bucket

\* Metadata says what the peer has and wants, as far as the committee goes.
LEMMA AddMetadata ==
  ASSUME NEW ps, NEW b \in Bucket(ps), NEW from \in Peers, NEW md
  PROVE  /\ addMetadata(b, from, md) \in Bucket(ps)
         /\ addMetadata(b, from, md).attestations = b.attestations
         /\ addMetadata(b, from, md).validating = b.validating
         /\ addMetadata(b, from, md).validated = b.validated
         /\ addMetadata(b, from, md).sendCount = b.sendCount
         /\ \A p \in Peers : b.available[p] \subseteq addMetadata(b, from, md).available[p]
<1>1. /\ b.available \in [Peers -> SUBSET ps] /\ b.pendingWant \in [Peers -> SUBSET ps]
      /\ DOMAIN b.sendCount = ps
  BY DEF Bucket
<1> DEFINE has == [b.available EXCEPT ![from] = @ \cup (md.available \cap DOMAIN b.sendCount)]
           wants == [b.pendingWant EXCEPT ![from] = @ \cup (md.requests \cap DOMAIN b.sendCount)]
<1>2. addMetadata(b, from, md) = [b EXCEPT !.available = has, !.pendingWant = wants]
  BY DEF addMetadata, Bucket
<1>3. has \in [Peers -> SUBSET ps] /\ wants \in [Peers -> SUBSET ps]
  BY <1>1
<1>4. \A p \in Peers : b.available[p] \subseteq has[p]
  BY <1>1
<1> HIDE DEF has, wants
<1> QED BY <1>2, <1>3, <1>4 DEF Bucket

\* A batch puts under verification what the bucket did not hold.
LEMMA AddReceived ==
  ASSUME NEW ps, NEW b \in Bucket(ps), NEW from \in Peers, NEW new \in SUBSET ps
  PROVE  /\ addReceived(b, from, new) \in Bucket(ps)
         /\ addReceived(b, from, new).attestations = b.attestations \cup new
         /\ addReceived(b, from, new).validating = b.validating \cup (new \ b.attestations)
         /\ addReceived(b, from, new).validated = b.validated
         /\ addReceived(b, from, new).sendCount = b.sendCount
         /\ \A p \in Peers : b.available[p] \subseteq addReceived(b, from, new).available[p]
BY DEF addReceived, Fresh, Bucket

\* The callback promotes what is still awaited.
LEMMA Promote ==
  ASSUME NEW ps, NEW b \in Bucket(ps), NEW fresh
  PROVE  /\ promote(b, fresh) \in Bucket(ps)
         /\ promote(b, fresh).attestations = b.attestations
         /\ promote(b, fresh).validating = b.validating \ (fresh \cap b.validating)
         /\ promote(b, fresh).validated = b.validated \cup (fresh \cap b.validating)
         /\ promote(b, fresh).sendCount = b.sendCount
         /\ promote(b, fresh).available = b.available
BY DEF promote, Promotable, Bucket

\* The peers a position is sent to in a tick.
Claimers(b, sts, ord, pos) == {p \in Peers : pos \in Claims(b, sts, ord, p)}

\* claimToSend takes a validated position for peers that lack it, and no more
\* of them than the forward cap leaves.
LEMMA ClaimsBounded ==
  ASSUME NEW ps, NEW b \in Bucket(ps), NEW sts, NEW ord \in Orders, NEW pos \in ps,
         b.sendCount[pos] <= MaxPeers
  PROVE  /\ IsFiniteSet(Claimers(b, sts, ord, pos))
         /\ b.sendCount[pos] + Cardinality(Claimers(b, sts, ord, pos)) <= MaxPeers
<1> DEFINE L == {p \in Peers : pos \in Lacks(b, sts, p)}
           m == MaxPeers - b.sendCount[pos]
<1>1. b.sendCount[pos] \in Nat /\ MaxPeers \in Nat /\ m \in Nat
  BY PartialBucketAssumption DEF Bucket
<1>2. Claimers(b, sts, ord, pos)
        = {p \in L : Cardinality({q \in Before(ord, p) : q \in L}) < m}
  <2>1. \A p : {q \in Before(ord, p) : q \in L}
                 = {q \in Before(ord, p) : pos \in Lacks(b, sts, q)}
    BY DEF Before
  <2> QED BY <2>1, Zenon DEF Claimers, Claims
<1> HIDE DEF m
<1>3. Cardinality({p \in L : Cardinality({q \in Before(ord, p) : q \in L}) < m}) <= m
  <2>1. L \subseteq Peers
    OBVIOUS
  <2> HIDE DEF L
  <2> QED BY <1>1, <2>1, FirstFew
<1>4. Claimers(b, sts, ord, pos) \subseteq Peers
  BY DEF Claimers
<1>5. /\ IsFiniteSet(Claimers(b, sts, ord, pos))
      /\ Cardinality(Claimers(b, sts, ord, pos)) \in Nat
  BY <1>4, CountPeers
<1>6. Cardinality(Claimers(b, sts, ord, pos)) <= m
  BY <1>2, <1>3
<1> QED BY <1>1, <1>5, <1>6 DEF m

\* A peer claims validated positions it is not known to have.
LEMMA ClaimsLacking ==
  ASSUME NEW ps, NEW b \in Bucket(ps), NEW sts, NEW ord, NEW p \in Peers
  PROVE  Claims(b, sts, ord, p) \subseteq b.validated \ b.available[p]
BY DEF Claims, Lacks

\* A tick leaves what the bucket holds alone and counts whom it sends to.
LEMMA Served ==
  ASSUME NEW ps, NEW b \in Bucket(ps), NEW sts, NEW askOrd, NEW ord
  PROVE  /\ served(b, sts, askOrd, ord) \in Bucket(ps)
         /\ served(b, sts, askOrd, ord).attestations = b.attestations
         /\ served(b, sts, askOrd, ord).validating = b.validating
         /\ served(b, sts, askOrd, ord).validated = b.validated
         /\ \A pos \in ps : served(b, sts, askOrd, ord).sendCount[pos]
                              = b.sendCount[pos] + Cardinality(Claimers(b, sts, ord, pos))
         /\ \A p \in Peers : served(b, sts, askOrd, ord).available[p]
                               = b.available[p] \cup Claims(b, sts, ord, p)
<1> DEFINE asked == [pos \in ps |->
             b.requestCount[pos] + Cardinality({p \in Peers : pos \in Asks(b, sts, askOrd, p)})]
           claimed == [pos \in ps |->
             b.sendCount[pos] + Cardinality({p \in Peers : pos \in Claims(b, sts, ord, p)})]
           has == [p \in Peers |-> b.available[p] \cup Claims(b, sts, ord, p)]
           wants == [p \in Peers |-> IF sts[p] = "none" THEN b.pendingWant[p] ELSE {}]
<1>1. /\ b.requestCount \in [ps -> Nat] /\ b.sendCount \in [ps -> Nat]
      /\ b.available \in [Peers -> SUBSET ps] /\ b.pendingWant \in [Peers -> SUBSET ps]
      /\ b.validated \subseteq ps
  BY DEF Bucket
<1>2. asked \in [ps -> Nat]
  <2>1. ASSUME NEW pos \in ps
        PROVE  Cardinality({p \in Peers : pos \in Asks(b, sts, askOrd, p)}) \in Nat
    <3> DEFINE S == {p \in Peers : pos \in Asks(b, sts, askOrd, p)}
    <3>1. S \subseteq Peers
      OBVIOUS
    <3> HIDE DEF S
    <3>2. Cardinality(S) \in Nat
      BY <3>1, CountPeers
    <3> QED BY <3>2 DEF S
  <2> QED BY <1>1, <2>1
<1>3. claimed \in [ps -> Nat]
  <2>1. ASSUME NEW pos \in ps
        PROVE  Cardinality({p \in Peers : pos \in Claims(b, sts, ord, p)}) \in Nat
    <3> DEFINE S == {p \in Peers : pos \in Claims(b, sts, ord, p)}
    <3>1. S \subseteq Peers
      OBVIOUS
    <3> HIDE DEF S
    <3>2. Cardinality(S) \in Nat
      BY <3>1, CountPeers
    <3> QED BY <3>2 DEF S
  <2> QED BY <1>1, <2>1
<1>4. has \in [Peers -> SUBSET ps]
  BY <1>1, ClaimsLacking
<1>5. wants \in [Peers -> SUBSET ps]
  BY <1>1
<1>6. served(b, sts, askOrd, ord) =
        [b EXCEPT !.requestCount = asked, !.sendCount = claimed, !.available = has,
                  !.pendingWant = wants]
  BY <1>1, Zenon DEF served
<1>7. \A pos \in ps : claimed[pos] = b.sendCount[pos] + Cardinality(Claimers(b, sts, ord, pos))
  BY Zenon DEF Claimers
<1>8. \A p \in Peers : has[p] = b.available[p] \cup Claims(b, sts, ord, p)
  OBVIOUS
<1> HIDE DEF asked, claimed, has, wants
<1> QED BY <1>2, <1>3, <1>4, <1>5, <1>6, <1>7, <1>8 DEF Bucket

-----------------------------------------------------------------------------
(* What the actions do to the buckets.                                     *)

\* The buckets of a group that may not exist.
LEMMA GroupBuckets ==
  ASSUME GroupsType, NEW k \in Keys
  PROVE  /\ getOrCreateGroup(k) \in [sealed : BOOLEAN, buckets : Buckets(Positions(k))]
         /\ getOrCreateGroup(k).buckets \in Buckets(Positions(k))
<1>1. CASE k \in Live
  BY <1>1 DEF GroupsType, getOrCreateGroup
<1>2. CASE k \notin Live
  <2>1. <<>> \in [{} -> Bucket(Positions(k))]
    OBVIOUS
  <2>2. <<>> \in Buckets(Positions(k))
    BY <2>1 DEF Buckets
  <2> QED BY <1>2, <2>2 DEF getOrCreateGroup
<1> QED BY <1>1, <1>2

\* A bucket looked up or created has its type.
LEMMA BucketType ==
  ASSUME NEW k, NEW bs \in Buckets(Positions(k)), NEW d
  PROVE  bucket(bs, k, d) \in Bucket(Positions(k))
BY NewBucket DEF bucket, Buckets

\* So has the bucket at a key.
LEMMA AtType ==
  ASSUME GroupsType, NEW k \in Keys, NEW d \in Datas
  PROVE  At(k, d) \in Bucket(Positions(k))
BY GroupBuckets, BucketType DEF At

\* A bucket that exists is the one At names.
LEMMA AtHeld ==
  ASSUME NEW k \in Live, NEW d \in DOMAIN groups[k].buckets
  PROVE  At(k, d) = BucketAt(k, d)
BY DEF At, bucket, getOrCreateGroup, BucketAt

\* Replacing the buckets of one group.
LEMMA PutBuckets ==
  ASSUME GroupsType, NEW key \in Keys, NEW bs \in Buckets(Positions(key)),
         groups' = Put(groups, key, [getOrCreateGroup(key) EXCEPT !.buckets = bs])
  PROVE  /\ GroupsType'
         /\ \A d \in Datas : At(key, d)' = bucket(bs, key, d)
         /\ \A k \in Keys \ {key}, d \in Datas : At(k, d)' = At(k, d)
<1> DEFINE g == [getOrCreateGroup(key) EXCEPT !.buckets = bs]
<1>1. g \in [sealed : BOOLEAN, buckets : Buckets(Positions(key))] /\ g.buckets = bs
  BY GroupBuckets
<1> HIDE DEF g
<1>2. groups' = [y \in Live \cup {key} |-> IF y = key THEN g ELSE groups[y]]
  BY DEF Put, Live, g
<1>3. Live' = Live \cup {key} /\ groups'[key] = g
  BY <1>2 DEF Live
<1>4. \A k \in Live : k # key => groups'[k] = groups[k]
  BY <1>2
<1>5. GroupsType'
  BY <1>1, <1>2, <1>3, <1>4 DEF GroupsType
<1>6. getOrCreateGroup(key)' = g
  BY <1>3 DEF getOrCreateGroup
<1>7. \A k \in Keys \ {key} : getOrCreateGroup(k)' = getOrCreateGroup(k)
  BY <1>3, <1>4 DEF getOrCreateGroup
<1> QED BY <1>1, <1>5, <1>6, <1>7 DEF At, bucket

\* Replacing one bucket of a group.
LEMMA PutOne ==
  ASSUME NEW ps, NEW bs \in Buckets(ps), NEW d \in Datas, NEW b \in Bucket(ps)
  PROVE  Put(bs, d, b) \in Buckets(ps)
<1>1. PICK D \in SUBSET Datas : bs \in [D -> Bucket(ps)]
  BY DEF Buckets
<1>2. Put(bs, d, b) \in [D \cup {d} -> Bucket(ps)]
  BY <1>1 DEF Put
<1>3. D \cup {d} \in SUBSET Datas
  OBVIOUS
<1> QED BY <1>2, <1>3 DEF Buckets

\* An own vote is a vote at its key.
LEMMA OwnVote ==
  ASSUME NEW v \in Own
  PROVE  /\ v = <<v[1], v[2], v[3]>> /\ v[1] \in Keys /\ v[2] \in Datas
         /\ v[3] \in Positions(v[1])
BY PartialManagerAssumption DEF Votes

\* publishLocal adds the vote to its bucket.
LEMMA PublishEffect ==
  ASSUME GroupsType, NEW v \in Own, publishLocal(v)
  PROVE  /\ GroupsType'
         /\ At(v[1], v[2])' = addOwn(At(v[1], v[2]), v[3])
         /\ \A k \in Keys, d \in Datas : k # v[1] \/ d # v[2] => At(k, d)' = At(k, d)
<1> DEFINE key == v[1]
           d0 == v[2]
           bs == getOrCreateGroup(key).buckets
           b == addOwn(bucket(bs, key, d0), v[3])
<1>1. key \in Keys /\ d0 \in Datas /\ v[3] \in Positions(key)
  BY OwnVote
<1>2. bs \in Buckets(Positions(key)) /\ bucket(bs, key, d0) \in Bucket(Positions(key))
  BY <1>1, GroupBuckets, BucketType
<1>3. b \in Bucket(Positions(key))
  BY <1>1, <1>2, AddOwn DEF addOwn
<1>4. Put(bs, d0, b) \in Buckets(Positions(key))
  <2> HIDE DEF b, bs
  <2> QED BY <1>1, <1>2, <1>3, PutOne
<1>5. groups' = Put(groups, key, [getOrCreateGroup(key) EXCEPT !.buckets = Put(bs, d0, b)])
  BY DEF publishLocal
<1> DEFINE new == Put(bs, d0, b)
<1>6. /\ \A d \in Datas : d # d0 => bucket(new, key, d) = bucket(bs, key, d)
      /\ bucket(new, key, d0) = b
  <2> HIDE DEF b, bs
  <2> QED BY DEF bucket, Put
<1> HIDE DEF new, b, bs, key, d0
<1>7. /\ GroupsType'
      /\ \A d \in Datas : At(key, d)' = bucket(new, key, d)
      /\ \A k \in Keys \ {key}, d \in Datas : At(k, d)' = At(k, d)
  BY <1>1, <1>4, <1>5, PutBuckets DEF new
<1> QED BY <1>1, <1>6, <1>7 DEF At, bs, b, key, d0

\* Metadata leaves what is held alone.
LEMMA MetasEffect ==
  ASSUME NEW k \in Keys, NEW bs \in Buckets(Positions(k)), NEW from \in Peers, NEW metas,
         \A md \in metas : md.data \in Datas
  PROVE  /\ withMetas(bs, k, from, metas) \in Buckets(Positions(k))
         /\ \A d \in Datas :
              LET a == bucket(bs, k, d)
                  b == bucket(withMetas(bs, k, from, metas), k, d)
              IN  /\ b.attestations = a.attestations /\ b.validating = a.validating
                  /\ b.validated = a.validated /\ b.sendCount = a.sendCount
                  /\ \A p \in Peers : a.available[p] \subseteq b.available[p]
<1> DEFINE D == DOMAIN bs \cup {md.data : md \in metas}
           W == withMetas(bs, k, from, metas)
           mdOf(d) == [available |-> UNION {md.available : md \in {e \in metas : e.data = d}},
                       requests  |-> UNION {md.requests : md \in {e \in metas : e.data = d}}]
<1>1. W = [d \in D |-> addMetadata(bucket(bs, k, d), from, mdOf(d))]
  BY Zenon DEF withMetas
<1>2. D \in SUBSET Datas
  BY DEF Buckets
<1> HIDE DEF D, W, mdOf
<1>3. \A d \in D : addMetadata(bucket(bs, k, d), from, mdOf(d)) \in Bucket(Positions(k))
  BY BucketType, AddMetadata
<1>4. W \in Buckets(Positions(k))
  BY <1>1, <1>2, <1>3 DEF Buckets
<1>5. ASSUME NEW d \in Datas
      PROVE  LET a == bucket(bs, k, d)
                 b == bucket(W, k, d)
             IN  /\ b.attestations = a.attestations /\ b.validating = a.validating
                 /\ b.validated = a.validated /\ b.sendCount = a.sendCount
                 /\ \A p \in Peers : a.available[p] \subseteq b.available[p]
  <2>1. CASE d \in D
    <3>1. bucket(W, k, d) = addMetadata(bucket(bs, k, d), from, mdOf(d))
      BY <1>1, <2>1 DEF bucket
    <3> QED BY <3>1, BucketType, AddMetadata
  <2>2. CASE d \notin D
    <3>1. bucket(W, k, d) = bucket(bs, k, d)
      BY <1>1, <2>2 DEF bucket, D
    <3> QED BY <3>1
  <2> QED BY <2>1, <2>2
<1> QED BY <1>4, <1>5 DEF W

\* The accepted batches fit the committee.
LEMMA StoredFits ==
  ASSUME NEW k, NEW batches, NEW d
  PROVE  Stored(batches, Accepted(k, batches), d) \subseteq Positions(k)
<1> SUFFICES ASSUME NEW n \in Accepted(k, batches)
             PROVE  batches[n].positions \subseteq Positions(k)
  BY DEF Stored
<1>1. n \in 1..n /\ \A j \in 1..n : WellFormed(k, batches[j])
  BY DEF Accepted
<1> QED BY <1>1 DEF WellFormed

\* The batches put under verification what the buckets did not hold.
LEMMA BatchesEffect ==
  ASSUME NEW k \in Keys, NEW bs \in Buckets(Positions(k)), NEW from \in Peers, NEW batches,
         \A n \in 1..Len(batches) : batches[n].data \in Datas
  PROVE  /\ withBatches(bs, k, from, batches) \in Buckets(Positions(k))
         /\ \A d \in Datas :
              LET a == bucket(bs, k, d)
                  b == bucket(withBatches(bs, k, from, batches), k, d)
                  new == Stored(batches, Accepted(k, batches), d)
              IN  /\ b.attestations = a.attestations \cup new
                  /\ b.validating = a.validating \cup (new \ a.attestations)
                  /\ b.validated = a.validated /\ b.sendCount = a.sendCount
                  /\ \A p \in Peers : a.available[p] \subseteq b.available[p]
<1> DEFINE ns == Accepted(k, batches)
           D == DOMAIN bs \cup {batches[n].data : n \in ns}
           W == withBatches(bs, k, from, batches)
           S(d) == Stored(batches, ns, d)
<1>1. W = [d \in D |-> addReceived(bucket(bs, k, d), from, S(d))]
  BY Zenon DEF withBatches
<1>2. D \in SUBSET Datas
  BY DEF Buckets, Accepted
<1>3. \A d : S(d) \in SUBSET Positions(k)
  BY StoredFits
<1>4. \A d : d \notin D => S(d) = {}
  BY DEF Stored
<1> HIDE DEF D, W, S, ns
<1>5. \A d \in D : addReceived(bucket(bs, k, d), from, S(d)) \in Bucket(Positions(k))
  BY <1>3, BucketType, AddReceived
<1>6. W \in Buckets(Positions(k))
  BY <1>1, <1>2, <1>5 DEF Buckets
<1>7. ASSUME NEW d \in Datas
      PROVE  LET a == bucket(bs, k, d)
                 b == bucket(W, k, d)
             IN  /\ b.attestations = a.attestations \cup S(d)
                 /\ b.validating = a.validating \cup (S(d) \ a.attestations)
                 /\ b.validated = a.validated /\ b.sendCount = a.sendCount
                 /\ \A p \in Peers : a.available[p] \subseteq b.available[p]
  <2>1. CASE d \in D
    <3>1. bucket(W, k, d) = addReceived(bucket(bs, k, d), from, S(d))
      BY <1>1, <2>1 DEF bucket
    <3> QED BY <3>1, <1>3, BucketType, AddReceived
  <2>2. CASE d \notin D
    <3>1. bucket(W, k, d) = bucket(bs, k, d)
      BY <1>1, <2>2 DEF bucket, D
    <3> QED BY <3>1, <2>2, <1>4
  <2> QED BY <2>1, <2>2
<1> QED BY <1>6, <1>7 DEF W, S, ns

WireBatch == [data : Datas, positions : SUBSET Nat, signed : BOOLEAN]

\* What the batches of an envelope put under verification at each data.
Received(env, d) == Stored(env.batches, Accepted(env.key, env.batches), d)

\* onIncomingRPC drops the envelope, or stores it and submits what is new.
LEMMA RPCEffect ==
  ASSUME GroupsType, NEW env \in Envelopes, onIncomingRPC(env)
  PROVE  /\ GroupsType'
         /\ \/ UNCHANGED <<groups, verifying>>
            \/ /\ ~Stale(env.key)
               /\ \A d \in Datas :
                    LET a == At(env.key, d)
                        b == At(env.key, d)'
                    IN  /\ b.attestations = a.attestations \cup Received(env, d)
                        /\ b.validating = a.validating \cup (Received(env, d) \ a.attestations)
                        /\ b.validated = a.validated /\ b.sendCount = a.sendCount
                        /\ \A p \in Peers : a.available[p] \subseteq b.available[p]
               /\ \A k \in Keys \ {env.key}, d \in Datas : At(k, d)' = At(k, d)
               /\ \E bs \in Buckets(Positions(env.key)) :
                    /\ \A d \in Datas : bucket(bs, env.key, d).attestations
                                          = At(env.key, d).attestations
                    /\ verifying' = [verifying EXCEPT ![KindAt(env.key)] =
                                       @ \o itemsOf(bs, env.key, env.batches)]
<1> DEFINE key == env.key
           from == env.from
           gs == getOrCreateGroup(key).buckets
           bs == withMetas(gs, key, from, env.metas)
           new == withBatches(bs, key, from, env.batches)
<1>1. /\ from \in Peers /\ key \in Keys /\ \A md \in env.metas : md.data \in Datas
      /\ \A n \in 1..Len(env.batches) : env.batches[n].data \in Datas
  <2>1. env.batches \in Seq(WireBatch)
    BY PartialManagerAssumption DEF WireBatch
  <2>2. \A n \in 1..Len(env.batches) : env.batches[n] \in WireBatch
    BY <2>1
  <2> QED BY <2>2, PartialManagerAssumption DEF WireBatch
<1>2. gs \in Buckets(Positions(key))
  BY <1>1, GroupBuckets
<1> HIDE DEF gs
<1>3. /\ bs \in Buckets(Positions(key))
      /\ \A d \in Datas :
           LET a == bucket(gs, key, d)
               b == bucket(bs, key, d)
           IN  /\ b.attestations = a.attestations /\ b.validating = a.validating
               /\ b.validated = a.validated /\ b.sendCount = a.sendCount
               /\ \A p \in Peers : a.available[p] \subseteq b.available[p]
  BY <1>1, <1>2, MetasEffect
<1> HIDE DEF bs
<1>4. /\ new \in Buckets(Positions(key))
      /\ \A d \in Datas :
           LET a == bucket(bs, key, d)
               b == bucket(new, key, d)
               add == Stored(env.batches, Accepted(key, env.batches), d)
           IN  /\ b.attestations = a.attestations \cup add
               /\ b.validating = a.validating \cup (add \ a.attestations)
               /\ b.validated = a.validated /\ b.sendCount = a.sendCount
               /\ \A p \in Peers : a.available[p] \subseteq b.available[p]
  BY <1>1, <1>3, BatchesEffect
<1> HIDE DEF new
<1>5. CASE Stale(key) \/ Size[key] = 0 \/ (env.metas = {} /\ env.batches = <<>>)
  <2>1. UNCHANGED <<groups, verifying>>
    BY <1>5 DEF onIncomingRPC
  <2> QED BY <2>1 DEF GroupsType, Live
<1>6. CASE ~(Stale(key) \/ Size[key] = 0 \/ (env.metas = {} /\ env.batches = <<>>))
  <2>1. /\ groups' = Put(groups, key, [getOrCreateGroup(key) EXCEPT !.buckets = new])
        /\ verifying' = [verifying EXCEPT ![KindAt(key)] = @ \o itemsOf(bs, key, env.batches)]
    BY <1>6 DEF onIncomingRPC, new, bs, gs
  <2>2. /\ GroupsType'
        /\ \A d \in Datas : At(key, d)' = bucket(new, key, d)
        /\ \A k \in Keys \ {key}, d \in Datas : At(k, d)' = At(k, d)
    BY <1>1, <1>4, <2>1, PutBuckets
  <2>3. \A d \in Datas : At(key, d) = bucket(gs, key, d)
    BY DEF At, gs
  <2>4. \A d \in Datas :
          LET a == At(key, d)
              b == At(key, d)'
          IN  /\ b.attestations = a.attestations \cup Received(env, d)
              /\ b.validating = a.validating \cup (Received(env, d) \ a.attestations)
              /\ b.validated = a.validated /\ b.sendCount = a.sendCount
              /\ \A p \in Peers : a.available[p] \subseteq b.available[p]
    BY <1>3, <1>4, <2>2, <2>3 DEF Received
  <2>5. \A d \in Datas : bucket(bs, key, d).attestations = At(key, d).attestations
    BY <1>3, <2>3
  <2>6. \E cs \in Buckets(Positions(key)) :
          /\ \A d \in Datas : bucket(cs, key, d).attestations = At(key, d).attestations
          /\ verifying' = [verifying EXCEPT ![KindAt(key)] = @ \o itemsOf(cs, key, env.batches)]
    <3>1. PICK cs : cs = bs
      OBVIOUS
    <3> QED BY <3>1, <1>3, <2>1, <2>5
  <2> QED BY <1>6, <2>2, <2>4, <2>6
<1> QED BY <1>5, <1>6

\* The items submitted: each new position is in exactly one of them.
LEMMA ItemsSubmitted ==
  ASSUME NEW k \in Keys, NEW bs, NEW batches \in Seq(WireBatch)
  PROVE  LET q == itemsOf(bs, k, batches)
             new(d) == Stored(batches, Accepted(k, batches), d) \ bucket(bs, k, d).attestations
         IN  /\ q \in Seq(Item)
             /\ \A n \in 1..Len(q) : q[n].key = k /\ q[n].fresh \subseteq new(q[n].data)
             /\ \A d \in Datas : \A pos \in new(d) :
                  \E n \in 1..Len(q) : Awaits(q, k, d, pos) = {n}
<1> DEFINE ns == Accepted(k, batches)
           fresh(n) == FreshOf(bs, k, batches, n)
           news == {n \in ns : fresh(n) # {}}
           c == Cardinality(news)
           e == InOrder(news)
           item(n) == [key |-> k, data |-> batches[n].data, fresh |-> fresh(n)]
           q == itemsOf(bs, k, batches)
<1>1. q = [i \in 1..c |-> item(e[i])]
  BY Zenon DEF itemsOf
<1>2. Len(batches) \in Nat /\ ns \subseteq 1..Len(batches)
  BY DEF Accepted
<1>3. \A n \in 1..Len(batches) : batches[n].data \in Datas /\ batches[n].positions \subseteq Nat
  <2>1. \A n \in 1..Len(batches) : batches[n] \in WireBatch
    OBVIOUS
  <2> QED BY <2>1 DEF WireBatch
<1>4. news \in SUBSET (1..Len(batches))
  BY <1>2
<1>5. \A n \in ns : fresh(n) \subseteq Stored(batches, ns, batches[n].data)
                                    \ bucket(bs, k, batches[n].data).attestations
  BY DEF FreshOf, Fresh, Stored
<1>6. \A n \in ns : fresh(n) \subseteq Nat
  BY <1>2, <1>3 DEF FreshOf, Fresh
<1>7. \A n \in ns : item(n) \in Item
  BY <1>2, <1>3, <1>6 DEF Item
<1> HIDE DEF news
<1>8. /\ c \in Nat /\ e \in [1..c -> news]
      /\ \A x \in news : \E i \in 1..c : e[i] = x
      /\ \A i, j \in 1..c : e[i] = e[j] => i = j
  BY <1>2, <1>4, InOrderLists
<1> HIDE DEF c, e, q, ns
<1>9. \A n \in news : n \in ns
  BY DEF news
<1>10. q \in Seq(Item) /\ Len(q) = c
  <2>1. q \in [1..c -> Item]
    BY <1>1, <1>7, <1>8, <1>9
  <2> QED BY <1>8, <2>1
<1>11. \A i \in 1..c : q[i].key = k /\ q[i].data = batches[e[i]].data /\ q[i].fresh = fresh(e[i])
  BY <1>1
<1>12. ASSUME NEW d \in Datas,
              NEW pos \in Stored(batches, ns, d) \ bucket(bs, k, d).attestations
       PROVE  \E n \in 1..Len(q) : Awaits(q, k, d, pos) = {n}
  <2> DEFINE T == {n \in ns : batches[n].data = d /\ pos \in batches[n].positions}
  <2>1. T \subseteq Nat /\ T # {}
    <3>1. \A n \in ns : n \in Nat
      BY <1>2
    <3>2. PICK n \in ns : batches[n].data = d /\ pos \in batches[n].positions
      BY DEF Stored
    <3> QED BY <3>1, <3>2
  <2>2. PICK n \in T : \A j \in T : n <= j
    <3> HIDE DEF T
    <3> QED BY <2>1, LeastNat
  <2>3. \A j \in 1..(n - 1) : j \in ns
    BY <2>2 DEF ns, Accepted
  <2>4. n \in ns /\ n \in Nat
    BY <1>2
  <2>5. pos \in fresh(n)
    <3>1. \A j \in 1..(n - 1) : ~(batches[j].data = d /\ pos \in batches[j].positions)
      BY <2>2, <2>3, <2>4
    <3>2. pos \notin Stored(batches, 1..(n - 1), d)
      BY <3>1 DEF Stored
    <3> QED BY <3>2 DEF FreshOf, Fresh
  <2>6. \A j \in ns : batches[j].data = d /\ pos \in fresh(j) => j = n
    <3> SUFFICES ASSUME NEW j \in ns, batches[j].data = d, pos \in fresh(j) PROVE j = n
      OBVIOUS
    <3>1. j \in T /\ j \in Nat
      BY <1>2 DEF FreshOf, Fresh
    <3>2. pos \notin Stored(batches, 1..(j - 1), d)
      BY DEF FreshOf
    <3>3. n \notin 1..(j - 1)
      BY <3>2 DEF Stored
    <3>4. n >= 1
      BY <2>4, <1>2
    <3> QED BY <2>2, <2>4, <3>1, <3>3, <3>4
  <2>7. PICK i \in 1..c : e[i] = n
    BY <1>8, <2>4, <2>5 DEF news
  <2>8. Awaits(q, k, d, pos) = {i}
    <3>1. i \in Awaits(q, k, d, pos)
      BY <1>10, <1>11, <2>5, <2>7 DEF Awaits
    <3>2. ASSUME NEW j \in Awaits(q, k, d, pos) PROVE j = i
      <4>1. j \in 1..c /\ batches[e[j]].data = d /\ pos \in fresh(e[j])
        BY <1>10, <1>11 DEF Awaits
      <4>2. e[j] \in ns
        BY <4>1, <1>8, <1>9
      <4> HIDE DEF fresh
      <4>3. e[j] = n
        BY <4>1, <4>2, <2>6
      <4> QED BY <4>1, <4>3, <1>8, <2>7
    <3> QED BY <3>1, <3>2
  <2> QED BY <1>10, <2>8
<1>13. \A n \in 1..Len(q) : /\ q[n].key = k
                            /\ q[n].fresh \subseteq Stored(batches, ns, q[n].data)
                                                      \ bucket(bs, k, q[n].data).attestations
  <2> SUFFICES ASSUME NEW n \in 1..c
               PROVE  /\ q[n].key = k
                      /\ q[n].fresh \subseteq Stored(batches, ns, q[n].data)
                                                \ bucket(bs, k, q[n].data).attestations
    BY <1>10
  <2>1. e[n] \in ns
    BY <1>8, <1>9
  <2> QED BY <2>1, <1>5, <1>11
<1> QED BY <1>10, <1>12, <1>13 DEF q, ns

\* What the callback of an item promotes.
Promoted(item, k, d) ==
  IF k = item.key /\ d = item.data THEN item.fresh \cap At(k, d).validating ELSE {}

\* markValidated promotes what the bucket of its item still awaits, and reports
\* it; a bucket that is gone awaits nothing.
LEMMA ValidatedEffect ==
  ASSUME GroupsType, arrived \in [Votes -> Nat], NEW kd \in Kinds, markValidated(kd),
         NEW item \in Item, item = Head(verifying[kd])
  PROVE  /\ GroupsType'
         /\ \A k \in Keys, d \in Datas :
              LET a == At(k, d)
                  b == At(k, d)'
              IN  /\ b.attestations = a.attestations
                  /\ b.validating = a.validating \ Promoted(item, k, d)
                  /\ b.validated = a.validated \cup Promoted(item, k, d)
                  /\ b.sendCount = a.sendCount /\ b.available = a.available
         /\ arrived' \in [Votes -> Nat]
         /\ \A v \in Votes : arrived'[v] = IF v[3] \in Promoted(item, v[1], v[2])
                                           THEN arrived[v] + 1 ELSE arrived[v]
<1> DEFINE key == item.key
           d0 == item.data
           known == key \in Live /\ d0 \in DOMAIN groups[key].buckets
           bs == groups[key].buckets
           done(k, d) == Promoted(item, k, d)
<1>1. key \in Keys /\ d0 \in Datas
  BY DEF Item
<1>2. \A v \in Votes : v[1] \in Keys /\ v[2] \in Datas
  BY DEF Votes
<1>3. CASE known
  <2> DEFINE b == promote(bs[d0], item.fresh)
             new == [bs EXCEPT ![d0] = b]
  <2>1. bs \in Buckets(Positions(key)) /\ d0 \in DOMAIN bs /\ getOrCreateGroup(key) = groups[key]
    BY <1>3 DEF GroupsType, getOrCreateGroup
  <2>2. bs[d0] = At(key, d0) /\ bs[d0] \in Bucket(Positions(key))
    BY <1>1, <1>3, AtHeld, AtType DEF BucketAt
  <2>3. b \in Bucket(Positions(key))
    BY <2>2, Promote
  <2>4. groups' = [groups EXCEPT ![key].buckets[d0] = promote(@, item.fresh)]
    BY <1>3 DEF markValidated
  <2>5. groups' = [groups EXCEPT ![key] = [groups[key] EXCEPT !.buckets = new]]
    BY <2>4, Zenon
  <2>6. arrived' = [v \in Votes |->
          IF v[1] = key /\ v[2] = d0 /\ v[3] \in Promotable(bs[d0], item.fresh)
          THEN arrived[v] + 1 ELSE arrived[v]]
    BY <1>3 DEF markValidated
  <2> HIDE DEF b, bs, d0, key
  <2>7. new \in Buckets(Positions(key))
    BY <2>1, <2>3 DEF Buckets
  <2>8. /\ \A d \in Datas : d # d0 => bucket(new, key, d) = bucket(bs, key, d)
        /\ bucket(new, key, d0) = b
    BY <2>1 DEF bucket
  <2>9. \A d \in Datas : At(key, d) = bucket(bs, key, d)
    BY <2>1 DEF At, bs
  <2> HIDE DEF new
  <2>10. groups' = Put(groups, key, [getOrCreateGroup(key) EXCEPT !.buckets = new])
    <3>1. Live \cup {key} = Live /\ groups = [k \in Live |-> groups[k]]
      BY <1>3 DEF GroupsType, key
    <3>2. \A g : [groups EXCEPT ![key] = g] = Put(groups, key, g)
      BY <3>1 DEF Put, Live
    <3> QED BY <2>1, <2>5, <3>2
  <2>11. /\ GroupsType'
         /\ \A d \in Datas : At(key, d)' = bucket(new, key, d)
         /\ \A k \in Keys \ {key}, d \in Datas : At(k, d)' = At(k, d)
    BY <1>1, <2>7, <2>10, PutBuckets DEF key
  <2>12. \A k \in Keys, d \in Datas : k # key \/ d # d0 => At(k, d)' = At(k, d)
    BY <2>8, <2>9, <2>11
  <2>13. At(key, d0)' = b
    BY <1>1, <2>8, <2>11 DEF d0
  <2>14. /\ b.attestations = At(key, d0).attestations
         /\ b.validating = At(key, d0).validating \ (item.fresh \cap At(key, d0).validating)
         /\ b.validated = At(key, d0).validated \cup (item.fresh \cap At(key, d0).validating)
         /\ b.sendCount = At(key, d0).sendCount /\ b.available = At(key, d0).available
    BY <2>2, Promote DEF b
  <2>15. \A v \in Votes : arrived'[v] = IF v[3] \in done(v[1], v[2])
                                        THEN arrived[v] + 1 ELSE arrived[v]
    BY <2>2, <2>6 DEF Promotable, Promoted, key, d0
  <2>16. arrived' \in [Votes -> Nat]
    BY <2>6
  <2>17. \A k \in Keys, d \in Datas :
           LET a == At(k, d)
               c == At(k, d)'
           IN  /\ c.attestations = a.attestations
               /\ c.validating = a.validating \ done(k, d)
               /\ c.validated = a.validated \cup done(k, d)
               /\ c.sendCount = a.sendCount /\ c.available = a.available
    BY <2>12, <2>13, <2>14 DEF Promoted, key, d0
  <2> QED BY <2>11, <2>15, <2>16, <2>17 DEF key, d0
<1>4. CASE ~known
  <2>1. UNCHANGED <<groups, arrived>>
    BY <1>4 DEF markValidated
  <2>2. At(key, d0).validating = {}
    <3>1. d0 \notin DOMAIN getOrCreateGroup(key).buckets
      BY <1>4 DEF getOrCreateGroup
    <3>2. At(key, d0) = newPartialBucket(Positions(key))
      BY <3>1 DEF At, bucket
    <3> QED BY <3>2, NewBucket
  <2>3. \A k \in Keys, d \in Datas : done(k, d) = {}
    BY <2>2 DEF Promoted
  <2> HIDE DEF done
  <2>4. \A k \in Keys, d \in Datas : At(k, d)' = At(k, d)
    BY <2>1 DEF At, getOrCreateGroup, Live
  <2>5. GroupsType'
    BY <2>1 DEF GroupsType, Live
  <2>6. \A v \in Votes : arrived'[v] = IF v[3] \in done(v[1], v[2])
                                       THEN arrived[v] + 1 ELSE arrived[v]
    BY <1>2, <2>1, <2>3
  <2>7. arrived' \in [Votes -> Nat]
    BY <2>1
  <2> QED BY <2>3, <2>4, <2>5, <2>6, <2>7 DEF done
<1> QED BY <1>3, <1>4

\* The peers in the states sts are served at a key in the order ord.
Serves(key, sts, ord) ==
  /\ \A d \in Datas :
       LET a == At(key, d)
           b == At(key, d)'
       IN  /\ b.attestations = a.attestations /\ b.validating = a.validating
           /\ b.validated = a.validated
           /\ \A pos \in Positions(key) :
                b.sendCount[pos] = a.sendCount[pos] + Cardinality(Claimers(a, sts, ord, pos))
           /\ \A p \in Peers : b.available[p] = a.available[p] \cup Claims(a, sts, ord, p)
  /\ \A k \in Keys, d \in Datas, p \in Peers : \A pos \in Positions(k) :
       <<<<k, d, pos>>, p>> \in sent'
         <=> \/ <<<<k, d, pos>>, p>> \in sent
             \/ k = key /\ pos \in Claims(At(k, d), sts, ord, p)

\* publishActions serves the peers in some order, or does nothing.
LEMMA TickEffect ==
  ASSUME GroupsType, NEW key \in Keys, publishActions(key)
  PROVE  /\ GroupsType'
         /\ \A k \in Keys, d \in Datas : k # key => At(k, d)' = At(k, d)
         /\ UNCHANGED <<groups, sent>> \/ \E sts : \E ord \in Orders : Serves(key, sts, ord)
<1> DEFINE bs == groups[key].buckets
<1>1. CASE Silent(key)
  <2>1. UNCHANGED <<groups, sent>>
    BY <1>1 DEF publishActions
  <2>2. \A k \in Keys, d \in Datas : At(k, d)' = At(k, d)
    BY <2>1 DEF At, getOrCreateGroup, Live
  <2>3. GroupsType'
    BY <2>1 DEF GroupsType, Live
  <2> QED BY <2>1, <2>2, <2>3
<1>2. CASE ~Silent(key)
  <2>1. key \in Live /\ bs \in Buckets(Positions(key)) /\ getOrCreateGroup(key) = groups[key]
    BY <1>2 DEF Silent, GroupsType, getOrCreateGroup
  <2>2. PICK others \in SUBSET (Peers \ Mesh), ord \in Orders :
          LET sts == AddMesh(peerStates[key], Mesh \cup others) IN
          /\ \E askOrd \in [DOMAIN bs -> Orders] :
               groups' = [groups EXCEPT ![key].buckets =
                            [d \in DOMAIN bs |-> served(bs[d], sts, askOrd[d], ord)]]
          /\ sent' = sent \cup {t \in VotesAt(key, bs) \X Peers :
                                  t[1][3] \in Claims(bs[t[1][2]], sts, ord, t[2])}
    BY <1>2, Zenon DEF publishActions
  <2>3. PICK sts : sts = AddMesh(peerStates[key], Mesh \cup others)
    OBVIOUS
  <2>4. PICK askOrd \in [DOMAIN bs -> Orders] :
          groups' = [groups EXCEPT ![key].buckets =
                       [d \in DOMAIN bs |-> served(bs[d], sts, askOrd[d], ord)]]
    BY <2>2, <2>3
  <2>5. sent' = sent \cup {t \in VotesAt(key, bs) \X Peers :
                             t[1][3] \in Claims(bs[t[1][2]], sts, ord, t[2])}
    BY <2>2, <2>3
  <2>6. PICK new : new = [d \in DOMAIN bs |-> served(bs[d], sts, askOrd[d], ord)]
    OBVIOUS
  <2>7. groups' = Put(groups, key, [getOrCreateGroup(key) EXCEPT !.buckets = new])
    <3>1. Live \cup {key} = Live /\ groups = [k \in Live |-> groups[k]]
      BY <2>1 DEF GroupsType
    <3>2. groups' = [groups EXCEPT ![key] = [groups[key] EXCEPT !.buckets = new]]
      BY <2>4, <2>6, Zenon
    <3>3. \A g : [groups EXCEPT ![key] = g] = Put(groups, key, g)
      BY <3>1 DEF Put, Live
    <3> QED BY <2>1, <3>2, <3>3
  <2>8. \A d \in DOMAIN bs : bs[d] = At(key, d) /\ d \in Datas
    BY <2>1 DEF At, bucket, Buckets
  <2>9. \A d \in Datas \ DOMAIN bs : At(key, d) = newPartialBucket(Positions(key))
    BY <2>1 DEF At, bucket
  <2>10. \A d \in Datas : At(key, d) \in Bucket(Positions(key))
    BY AtType
  <2> HIDE DEF bs
  <2>11. \A d \in DOMAIN bs : new[d] \in Bucket(Positions(key))
    BY <2>6, <2>8, <2>10, Served
  <2>12. new \in Buckets(Positions(key))
    BY <2>6, <2>8, <2>11 DEF Buckets
  <2>13. /\ GroupsType'
         /\ \A d \in Datas : At(key, d)' = bucket(new, key, d)
         /\ \A k \in Keys \ {key}, d \in Datas : At(k, d)' = At(k, d)
    BY <2>7, <2>12, PutBuckets
  <2>14. \A d \in Datas \ DOMAIN bs, p \in Peers : Claims(At(key, d), sts, ord, p) = {}
    BY <2>9, <2>10, NewBucket, ClaimsLacking
  <2>15. ASSUME NEW d \in Datas
         PROVE  LET a == At(key, d)
                    b == At(key, d)'
                IN  /\ b.attestations = a.attestations /\ b.validating = a.validating
                    /\ b.validated = a.validated
                    /\ \A pos \in Positions(key) :
                         b.sendCount[pos] = a.sendCount[pos]
                                            + Cardinality(Claimers(a, sts, ord, pos))
                    /\ \A p \in Peers : b.available[p]
                                          = a.available[p] \cup Claims(a, sts, ord, p)
    <3>1. CASE d \in DOMAIN bs
      <4>1. At(key, d)' = served(At(key, d), sts, askOrd[d], ord)
        BY <3>1, <2>6, <2>8, <2>13 DEF bucket
      <4> QED BY <4>1, <2>10, Served
    <3>2. CASE d \notin DOMAIN bs
      <4>1. At(key, d)' = At(key, d)
        BY <3>2, <2>6, <2>9, <2>13 DEF bucket
      <4>2. \A pos : Claimers(At(key, d), sts, ord, pos) = {}
        BY <3>2, <2>14 DEF Claimers
      <4>3. \A pos : Cardinality(Claimers(At(key, d), sts, ord, pos)) = 0
        BY <4>2, FS_EmptySet
      <4>4. \A pos \in Positions(key) : At(key, d).sendCount[pos] \in Nat
        BY <2>10 DEF Bucket
      <4>5. \A p \in Peers : Claims(At(key, d), sts, ord, p) = {}
        BY <3>2, <2>14
      <4> QED BY <4>1, <4>3, <4>4, <4>5
    <3> QED BY <3>1, <3>2
  <2>16. ASSUME NEW k \in Keys, NEW d \in Datas, NEW p \in Peers, NEW pos \in Positions(k)
         PROVE  <<<<k, d, pos>>, p>> \in sent'
                  <=> \/ <<<<k, d, pos>>, p>> \in sent
                      \/ k = key /\ pos \in Claims(At(k, d), sts, ord, p)
    <3>1. <<k, d, pos>> \in Votes
      BY DEF Votes
    <3>2. <<k, d, pos>> \in VotesAt(key, bs) <=> k = key /\ d \in DOMAIN bs
      BY <3>1 DEF VotesAt
    <3>3. <<<<k, d, pos>>, p>> \in sent'
            <=> \/ <<<<k, d, pos>>, p>> \in sent
                \/ k = key /\ d \in DOMAIN bs /\ pos \in Claims(bs[d], sts, ord, p)
      BY <2>5, <3>2
    <3> QED BY <3>3, <2>8, <2>14
  <2>17. Serves(key, sts, ord)
    BY <2>15, <2>16 DEF Serves
  <2> QED BY <2>13, <2>17
<1> QED BY <1>1, <1>2

\* seal changes no bucket.
LEMMA SealEffect ==
  ASSUME GroupsType, NEW kd, NEW upTo, seal(kd, upTo)
  PROVE  /\ GroupsType'
         /\ \A k \in Keys, d \in Datas : At(k, d)' = At(k, d)
<1>1. groups' = [k \in Live |-> IF k \in Covered(kd, upTo)
                                THEN [groups[k] EXCEPT !.sealed = TRUE] ELSE groups[k]]
  BY DEF seal
<1>2. Live' = Live
  BY <1>1 DEF Live
<1>3. \A k \in Live : /\ groups'[k] \in [sealed : BOOLEAN, buckets : Buckets(Positions(k))]
                      /\ groups'[k].buckets = groups[k].buckets
  BY <1>1 DEF GroupsType
<1>4. GroupsType'
  BY <1>1, <1>2, <1>3 DEF GroupsType
<1> QED BY <1>2, <1>3, <1>4 DEF At, getOrCreateGroup

\* prune empties the buckets at and under the new floor, which only rises.
LEMMA PruneEffect ==
  ASSUME GroupsType, floor \in [Kinds -> Int], NEW kd \in Kinds, NEW upTo \in GroupKeys,
         prune(kd, upTo)
  PROVE  /\ GroupsType' /\ floor' \in [Kinds -> Int]
         /\ \A k \in Keys : Stale(k) => Stale(k)'
         /\ \A k \in Keys, d \in Datas :
              \/ At(k, d)' = At(k, d) /\ (Stale(k)' => Stale(k))
              \/ At(k, d)' = newPartialBucket(Positions(k)) /\ Stale(k)'
<1>1. upTo \in Nat /\ upTo > floor[kd] /\ floor' = [floor EXCEPT ![kd] = upTo]
  BY PartialManagerAssumption DEF prune, GroupKeys
<1>2. \A k \in Keys : k[2] \in Nat /\ KindAt(k) \in Kinds /\ floor[KindAt(k)] \in Int
  BY PartialManagerAssumption DEF KindAt, Kinds
<1>3. \A k \in Keys : floor'[KindAt(k)] = IF KindAt(k) = kd THEN upTo ELSE floor[KindAt(k)]
  BY <1>1, <1>2
<1>4. \A k \in Keys : Stale(k)' <=> k[2] <= (IF KindAt(k) = kd THEN upTo ELSE floor[KindAt(k)])
  BY <1>3 DEF Stale, KindAt
<1>5. \A k \in Keys : Stale(k) <=> k[2] <= floor[KindAt(k)]
  BY DEF Stale
<1>6. \A k \in Keys : Stale(k) => Stale(k)'
  BY <1>1, <1>2, <1>4, <1>5
<1>7. groups' = [k \in Live \ Covered(kd, upTo) |-> groups[k]]
  BY DEF prune, Restrict
<1>8. Live' = Live \ Covered(kd, upTo)
  BY <1>7 DEF Live
<1>9. \A k \in Live' : groups'[k] = groups[k]
  BY <1>7, <1>8
<1>10. GroupsType'
  BY <1>7, <1>8, <1>9 DEF GroupsType
<1>11. ASSUME NEW k \in Keys, NEW d \in Datas
       PROVE  \/ At(k, d)' = At(k, d) /\ (Stale(k)' => Stale(k))
              \/ At(k, d)' = newPartialBucket(Positions(k)) /\ Stale(k)'
  <2>1. CASE KindAt(k) = kd /\ k[2] <= upTo
    <3>1. k \notin Live'
      BY <1>8, <2>1 DEF Covered
    <3>2. At(k, d)' = newPartialBucket(Positions(k))
      BY <3>1 DEF At, bucket, getOrCreateGroup
    <3> QED BY <3>2, <2>1, <1>4
  <2>2. CASE ~(KindAt(k) = kd /\ k[2] <= upTo)
    <3>1. k \in Live' <=> k \in Live
      BY <1>8, <2>2 DEF Covered
    <3>2. At(k, d)' = At(k, d)
      BY <3>1, <1>9 DEF At, bucket, getOrCreateGroup
    <3>3. Stale(k)' => Stale(k)
      BY <2>2, <1>1, <1>2, <1>4, <1>5
    <3> QED BY <3>2, <3>3
  <2> QED BY <2>1, <2>2
<1>12. floor' \in [Kinds -> Int]
  BY <1>1
<1> QED BY <1>6, <1>10, <1>11, <1>12

-----------------------------------------------------------------------------
(* The invariant, action by action.                                        *)

\* Nothing is held, sent or queued at first.
LEMMA InitIInv == Init => IInv
<1> SUFFICES ASSUME Init PROVE IInv
  OBVIOUS
<1>1. Live = {}
  BY DEF Init, Live
<1>2. \A k \in Keys, d \in Datas : At(k, d) = newPartialBucket(Positions(k))
  BY <1>1 DEF At, bucket, getOrCreateGroup
<1>3. \A k \in Keys, d \in Datas :
        /\ At(k, d).attestations = {} /\ At(k, d).validating = {} /\ At(k, d).validated = {}
        /\ \A pos \in Positions(k) : At(k, d).sendCount[pos] = 0
  BY <1>2, NewBucket
<1>4. \A v \in Votes : arrived[v] = 0
  BY DEF Init
<1>5. \A k \in Keys, d \in Datas : \A pos \in Positions(k) : <<k, d, pos>> \in Votes
  BY DEF Votes
<1>6. TypeInv
  <2>1. GroupsType
    BY <1>1 DEF Init, GroupsType
  <2> QED BY <2>1 DEF Init, TypeInv
<1>7. HeldInv /\ StaleInv
  BY <1>3 DEF HeldInv, StaleInv
<1>8. KnownInv /\ OwnSentInv
  BY <1>4, <1>5 DEF Init, KnownInv, OwnSentInv
<1>9. CountInv
  BY <1>3 DEF CountInv
<1>10. QueueInv
  <2>1. \A kd \in Kinds : verifying[kd] = <<>>
    BY DEF Init
  <2> QED BY <1>3, <2>1 DEF QueueInv, ItemsInv, AwaitedInv
<1>11. ArrivesOnce
  BY <1>4 DEF Init, ArrivesOnce
<1> QED BY <1>6, <1>7, <1>8, <1>9, <1>10, <1>11 DEF IInv

\* Nothing is submitted or verified, and nothing held is lost but by a prune.
LEMMA QueueKept ==
  ASSUME TypeInv, QueueInv, verifying' = verifying,
         \A k \in Keys : Stale(k) => Stale(k)',
         \A k \in Keys, d \in Datas : At(k, d)'.validating \subseteq At(k, d).validating,
         \A k \in Keys, d \in Datas :
           ~Stale(k)' => At(k, d).attestations \subseteq At(k, d)'.attestations
  PROVE  QueueInv'
<1>1. ASSUME NEW kd \in Kinds, NEW n \in 1..Len(verifying[kd])
      PROVE  LET item == verifying[kd][n] IN
             /\ KindAt(item.key) = kd
             /\ ~Stale(item.key)' => item.fresh \subseteq At(item.key, item.data)'.attestations
  <2>1. PICK item \in Item : item = verifying[kd][n]
    BY DEF TypeInv
  <2>2. item.key \in Keys /\ item.data \in Datas
    BY DEF Item
  <2>3. /\ KindAt(item.key) = kd
        /\ ~Stale(item.key) => item.fresh \subseteq At(item.key, item.data).attestations
    BY <2>1 DEF QueueInv, ItemsInv
  <2>4. ~Stale(item.key)' => item.fresh \subseteq At(item.key, item.data)'.attestations
    BY <2>2, <2>3
  <2> QED BY <2>1, <2>3, <2>4
<1>2. ASSUME NEW k \in Keys, NEW d \in Datas, NEW pos \in At(k, d)'.validating
      PROVE  \E n \in 1..Len(verifying[KindAt(k)]) : Awaits(verifying[KindAt(k)], k, d, pos) = {n}
  <2>1. pos \in At(k, d).validating
    OBVIOUS
  <2> QED BY <2>1, Zenon DEF QueueInv, AwaitedInv
<1> QED BY <1>1, <1>2 DEF QueueInv, ItemsInv, AwaitedInv, KindAt, Awaits

\* Steps that leave the buckets, the floor, the verifiers and the history alone.
LEMMA SameBuckets ==
  ASSUME IInv, GroupsType', \A k \in Keys, d \in Datas : At(k, d)' = At(k, d),
         UNCHANGED <<floor, verifying, published, arrived, sent>>
  PROVE  IInv'
<1>1. \A k : Stale(k)' <=> Stale(k)
  BY DEF Stale, KindAt
<1>2. TypeInv'
  BY DEF IInv, TypeInv
<1>3. HeldInv' /\ StaleInv'
  BY <1>1 DEF IInv, HeldInv, StaleInv
<1>4. KnownInv' /\ OwnSentInv' /\ ArrivesOnce'
  BY <1>1 DEF IInv, KnownInv, OwnSentInv, ArrivesOnce
<1>5. CountInv'
  BY DEF IInv, CountInv, Recipients
<1>6. QueueInv'
  BY <1>1, QueueKept DEF IInv
<1> QED BY <1>2, <1>3, <1>4, <1>5, <1>6 DEF IInv

\* publishLocal: the vote was not held, nor sent to anybody.
LEMMA PublishKeeps ==
  ASSUME IInv, NEW v \in Own, publishLocal(v)
  PROVE  IInv'
<1> DEFINE k0 == v[1]
           d0 == v[2]
           p0 == v[3]
<1>1. v = <<k0, d0, p0>> /\ k0 \in Keys /\ d0 \in Datas /\ p0 \in Positions(k0)
  BY OwnVote
<1>2. v \notin published /\ published' = published \cup {v}
      /\ UNCHANGED <<floor, verifying, arrived, sent>>
  BY DEF publishLocal
<1>3. p0 \notin At(k0, d0).attestations
  BY <1>1, <1>2 DEF IInv, HeldInv
<1>4. /\ GroupsType'
      /\ At(k0, d0)' = addOwn(At(k0, d0), p0)
      /\ \A k \in Keys, d \in Datas : k # k0 \/ d # d0 => At(k, d)' = At(k, d)
  BY PublishEffect DEF IInv, TypeInv
<1>5. At(k0, d0) \in Bucket(Positions(k0))
  BY <1>1, AtType DEF IInv, TypeInv
<1> HIDE DEF k0, d0, p0
<1>6. /\ At(k0, d0)'.attestations = At(k0, d0).attestations \cup {p0}
      /\ At(k0, d0)'.validating = At(k0, d0).validating
      /\ At(k0, d0)'.validated = At(k0, d0).validated \cup {p0}
      /\ At(k0, d0)'.sendCount = At(k0, d0).sendCount
      /\ At(k0, d0)'.available = At(k0, d0).available
  BY <1>1, <1>3, <1>4, <1>5, AddOwn
<1>7. \A k : Stale(k)' <=> Stale(k)
  BY <1>2 DEF Stale, KindAt
<1>8. TypeInv'
  BY <1>2, <1>4 DEF IInv, TypeInv
<1>9. HeldInv'
  BY <1>1, <1>2, <1>3, <1>4, <1>6 DEF IInv, HeldInv
<1>10. StaleInv'
  BY <1>1, <1>4, <1>6, <1>7 DEF IInv, StaleInv
<1>11. KnownInv'
  BY <1>1, <1>2, <1>4, <1>6, <1>7 DEF IInv, KnownInv
<1>12. OwnSentInv' /\ ArrivesOnce'
  BY <1>2 DEF IInv, OwnSentInv, ArrivesOnce
<1>13. CountInv'
  <2>1. Recipients(<<k0, d0, p0>>) = {} /\ Cardinality({}) = 0
    BY <1>1, <1>2, FS_EmptySet DEF IInv, OwnSentInv, Recipients
  <2>2. \A w : Recipients(w)' = Recipients(w)
    BY <1>2 DEF Recipients
  <2>3. At(k0, d0).sendCount[p0] = 0
    BY <1>1, <1>3 DEF IInv, CountInv
  <2>4. 0 <= MaxPeers
    BY PartialBucketAssumption
  <2> SUFFICES ASSUME NEW k \in Keys, NEW d \in Datas, NEW pos \in Positions(k)
               PROVE  IF pos \in At(k, d)'.attestations
                      THEN /\ At(k, d)'.sendCount[pos] = Cardinality(Recipients(<<k, d, pos>>))
                           /\ At(k, d)'.sendCount[pos] <= MaxPeers
                           /\ \A p \in Recipients(<<k, d, pos>>) : pos \in At(k, d)'.available[p]
                      ELSE At(k, d)'.sendCount[pos] = 0
    BY <2>2 DEF CountInv
  <2>5. CASE k = k0 /\ d = d0 /\ pos = p0
    BY <1>6, <2>1, <2>3, <2>4, <2>5
  <2>6. CASE ~(k = k0 /\ d = d0 /\ pos = p0)
    <3>1. /\ pos \in At(k, d)'.attestations <=> pos \in At(k, d).attestations
          /\ At(k, d)'.sendCount = At(k, d).sendCount /\ At(k, d)'.available = At(k, d).available
      BY <1>4, <1>6, <2>6
    <3> QED BY <3>1 DEF IInv, CountInv
  <2> QED BY <2>5, <2>6
<1>14. QueueInv'
  <2>1. \A k \in Keys, d \in Datas : /\ At(k, d)'.validating = At(k, d).validating
                                     /\ At(k, d).attestations \subseteq At(k, d)'.attestations
    BY <1>4, <1>6
  <2> QED BY <1>2, <1>7, <2>1, QueueKept DEF IInv
<1> QED BY <1>8, <1>9, <1>10, <1>11, <1>12, <1>13, <1>14 DEF IInv

\* What is under verification is in one item (AwaitedInv at one position).
LEMMA Awaited ==
  ASSUME IInv, NEW k \in Keys, NEW d \in Datas, NEW pos \in At(k, d).validating
  PROVE  \E n \in 1..Len(verifying[KindAt(k)]) : Awaits(verifying[KindAt(k)], k, d, pos) = {n}
BY Zenon DEF IInv, QueueInv, AwaitedInv

\* The items that await a position after a submit.
LEMMA AwaitsConcat ==
  ASSUME NEW q \in Seq(Item), NEW r \in Seq(Item), NEW k, NEW d, NEW pos
  PROVE  Awaits(q \o r, k, d, pos)
           = Awaits(q, k, d, pos) \cup {Len(q) + n : n \in Awaits(r, k, d, pos)}
<1>1. /\ Len(q) \in Nat /\ Len(r) \in Nat /\ Len(q \o r) = Len(q) + Len(r)
      /\ \A n \in 1..(Len(q) + Len(r)) : (q \o r)[n] = IF n <= Len(q) THEN q[n] ELSE r[n - Len(q)]
  OBVIOUS
<1>2. ASSUME NEW n \in Awaits(q \o r, k, d, pos)
      PROVE  n \in Awaits(q, k, d, pos) \cup {Len(q) + m : m \in Awaits(r, k, d, pos)}
  <2>1. n \in 1..(Len(q) + Len(r))
    BY <1>1 DEF Awaits
  <2>2. CASE n <= Len(q)
    BY <1>1, <2>1, <2>2 DEF Awaits
  <2>3. CASE ~(n <= Len(q))
    <3>1. n - Len(q) \in 1..Len(r) /\ n = Len(q) + (n - Len(q))
      BY <1>1, <2>1, <2>3
    <3>2. n - Len(q) \in Awaits(r, k, d, pos)
      BY <1>1, <2>1, <2>3, <3>1 DEF Awaits
    <3> QED BY <3>1, <3>2
  <2> QED BY <2>2, <2>3
<1>3. ASSUME NEW n \in Awaits(q, k, d, pos) PROVE n \in Awaits(q \o r, k, d, pos)
  <2>1. n \in 1..Len(q) /\ n \in 1..(Len(q) + Len(r)) /\ n <= Len(q)
    BY <1>1 DEF Awaits
  <2> QED BY <1>1, <2>1 DEF Awaits
<1>4. ASSUME NEW m \in Awaits(r, k, d, pos) PROVE Len(q) + m \in Awaits(q \o r, k, d, pos)
  <2>1. /\ m \in 1..Len(r) /\ Len(q) + m \in 1..(Len(q) + Len(r))
        /\ ~(Len(q) + m <= Len(q)) /\ (Len(q) + m) - Len(q) = m
    BY <1>1 DEF Awaits
  <2> QED BY <1>1, <2>1 DEF Awaits
<1> QED BY <1>2, <1>3, <1>4

\* onIncomingRPC: what it adds was not held before, so it was neither sent nor
\* submitted, and it is not the node's own.
LEMMA ReceiveKeeps ==
  ASSUME IInv, NEW env \in Envelopes, onIncomingRPC(env)
  PROVE  IInv'
<1>0. PICK key : key = env.key
  OBVIOUS
<1>1. UNCHANGED <<floor, published, arrived, sent>>
  BY DEF onIncomingRPC
<1>2. \A k : Stale(k)' <=> Stale(k)
  BY <1>1 DEF Stale, KindAt
<1>3. GroupsType'
  BY RPCEffect DEF IInv, TypeInv
<1>4. CASE UNCHANGED <<groups, verifying>>
  <2>1. \A k \in Keys, d \in Datas : At(k, d)' = At(k, d)
    BY <1>4 DEF At, getOrCreateGroup, Live
  <2> QED BY <1>1, <1>3, <1>4, <2>1, SameBuckets
<1>5. CASE ~UNCHANGED <<groups, verifying>>
  <2>1. /\ ~Stale(key)
        /\ \A d \in Datas :
             LET a == At(key, d)
                 b == At(key, d)'
             IN  /\ b.attestations = a.attestations \cup Received(env, d)
                 /\ b.validating = a.validating \cup (Received(env, d) \ a.attestations)
                 /\ b.validated = a.validated /\ b.sendCount = a.sendCount
                 /\ \A p \in Peers : a.available[p] \subseteq b.available[p]
        /\ \A k \in Keys \ {key}, d \in Datas : At(k, d)' = At(k, d)
    BY <1>0, <1>5, RPCEffect DEF IInv, TypeInv
  <2>2. PICK bs \in Buckets(Positions(key)) :
          /\ \A d \in Datas : bucket(bs, key, d).attestations = At(key, d).attestations
          /\ verifying' = [verifying EXCEPT ![KindAt(key)] = @ \o itemsOf(bs, key, env.batches)]
    BY <1>0, <1>5, RPCEffect DEF IInv, TypeInv
  <2>3. key \in Keys /\ KindAt(key) \in Kinds /\ env.batches \in Seq(WireBatch)
    BY <1>0, PartialManagerAssumption DEF KindAt, Kinds, WireBatch
  <2>4. \A d \in Datas : Received(env, d) \subseteq Positions(key)
    BY <1>0, StoredFits DEF Received
  <2>5. ASSUME NEW d \in Datas, NEW pos \in Received(env, d), <<key, d, pos>> \in Own
        PROVE  pos \in At(key, d).attestations
    <3>1. PICK n \in 1..Len(env.batches) :
            env.batches[n].data = d /\ pos \in env.batches[n].positions
      BY DEF Received, Stored, Accepted
    <3>2. <<key, d, pos>> \in published
      BY <1>0, <2>5, <3>1 DEF onIncomingRPC, Exists
    <3> QED BY <2>1, <2>3, <2>4, <3>2 DEF IInv, KnownInv
  <2>6. HeldInv'
    <3> SUFFICES ASSUME NEW d \in Datas
                 PROVE  /\ At(key, d)'.attestations = At(key, d)'.validating \cup At(key, d)'.validated
                        /\ At(key, d)'.validating \cap At(key, d)'.validated = {}
                        /\ \A pos \in At(key, d)'.attestations : <<key, d, pos>> \in Own =>
                             <<key, d, pos>> \in published /\ pos \in At(key, d)'.validated
      BY <1>1, <2>1 DEF IInv, HeldInv
    <3>1. /\ At(key, d).attestations = At(key, d).validating \cup At(key, d).validated
          /\ At(key, d).validating \cap At(key, d).validated = {}
          /\ \A pos \in At(key, d).attestations : <<key, d, pos>> \in Own =>
               <<key, d, pos>> \in published /\ pos \in At(key, d).validated
      BY <2>3 DEF IInv, HeldInv
    <3> QED BY <2>1, <2>5, <3>1
  <2>7. StaleInv'
    BY <1>2, <2>1 DEF IInv, StaleInv
  <2>8. KnownInv'
    BY <1>1, <1>2, <2>1 DEF IInv, KnownInv
  <2>9. OwnSentInv' /\ ArrivesOnce'
    BY <1>1 DEF IInv, OwnSentInv, ArrivesOnce
  <2>10. CountInv'
    <3>1. \A w : Recipients(w)' = Recipients(w)
      BY <1>1 DEF Recipients
    <3> SUFFICES ASSUME NEW k \in Keys, NEW d \in Datas, NEW pos \in Positions(k)
                 PROVE  IF pos \in At(k, d)'.attestations
                        THEN /\ At(k, d)'.sendCount[pos] = Cardinality(Recipients(<<k, d, pos>>))
                             /\ At(k, d)'.sendCount[pos] <= MaxPeers
                             /\ \A p \in Recipients(<<k, d, pos>>) : pos \in At(k, d)'.available[p]
                        ELSE At(k, d)'.sendCount[pos] = 0
      BY <3>1 DEF CountInv
    <3>2. IF pos \in At(k, d).attestations
          THEN /\ At(k, d).sendCount[pos] = Cardinality(Recipients(<<k, d, pos>>))
               /\ At(k, d).sendCount[pos] <= MaxPeers
               /\ \A p \in Recipients(<<k, d, pos>>) : pos \in At(k, d).available[p]
          ELSE At(k, d).sendCount[pos] = 0
      BY DEF IInv, CountInv
    <3>3. CASE k # key
      BY <2>1, <3>2, <3>3
    <3>4. CASE k = key /\ (pos \in At(k, d).attestations \/ pos \notin At(k, d)'.attestations)
      <4>1. \A p \in Recipients(<<k, d, pos>>) : p \in Peers
        BY DEF Recipients
      <4> QED BY <2>1, <3>2, <3>4, <4>1
    <3>5. CASE k = key /\ pos \notin At(k, d).attestations /\ pos \in At(k, d)'.attestations
      <4>1. Recipients(<<k, d, pos>>) = {} /\ Cardinality({}) = 0
        BY <2>1, <3>5, FS_EmptySet DEF IInv, KnownInv, Recipients
      <4>2. 0 <= MaxPeers
        BY PartialBucketAssumption
      <4> QED BY <2>1, <3>2, <3>5, <4>1, <4>2
    <3> QED BY <3>3, <3>4, <3>5
  <2> DEFINE q == verifying[KindAt(key)]
             r == itemsOf(bs, key, env.batches)
  <2>11. /\ r \in Seq(Item)
         /\ \A n \in 1..Len(r) :
              /\ r[n].key = key
              /\ r[n].fresh \subseteq Received(env, r[n].data) \ At(key, r[n].data).attestations
         /\ \A d \in Datas : \A pos \in Received(env, d) \ At(key, d).attestations :
              \E n \in 1..Len(r) : Awaits(r, key, d, pos) = {n}
    <3>1. /\ r \in Seq(Item)
          /\ \A n \in 1..Len(r) :
               /\ r[n].key = key
               /\ r[n].fresh \subseteq Stored(env.batches, Accepted(key, env.batches), r[n].data)
                                         \ bucket(bs, key, r[n].data).attestations
          /\ \A d \in Datas :
               \A pos \in Stored(env.batches, Accepted(key, env.batches), d)
                            \ bucket(bs, key, d).attestations :
                 \E n \in 1..Len(r) : Awaits(r, key, d, pos) = {n}
      BY <2>3, ItemsSubmitted
    <3>2. \A n \in 1..Len(r) : r[n].data \in Datas
      <4>1. \A n \in 1..Len(r) : r[n] \in Item
        BY <3>1
      <4> QED BY <4>1 DEF Item
    <3> HIDE DEF r
    <3> QED BY <1>0, <2>2, <3>1, <3>2 DEF Received
  <2>12. q \in Seq(Item) /\ verifying \in [Kinds -> Seq(Item)]
    BY <2>3 DEF IInv, TypeInv
  <2> HIDE DEF q, r
  <2>13. verifying' = [verifying EXCEPT ![KindAt(key)] = q \o r]
    BY <2>2 DEF q, r
  <2>14. TypeInv'
    <3>1. verifying' \in [Kinds -> Seq(Item)]
      BY <2>3, <2>11, <2>12, <2>13
    <3> QED BY <1>1, <1>3, <3>1 DEF IInv, TypeInv
  <2>15. QueueInv'
    <3>1. ASSUME NEW kd \in Kinds, NEW n \in 1..Len(verifying'[kd]),
                 NEW item, item = verifying'[kd][n]
          PROVE  /\ KindAt(item.key) = kd
                 /\ ~Stale(item.key)' => item.fresh \subseteq At(item.key, item.data)'.attestations
      <4>0. item \in Item
        BY <2>14, <3>1 DEF TypeInv
      <4>1. item.key \in Keys /\ item.data \in Datas
        BY <4>0 DEF Item
      <4>2. CASE n \in 1..Len(verifying[kd]) /\ item = verifying[kd][n]
        <5>1. /\ KindAt(item.key) = kd
              /\ ~Stale(item.key) => item.fresh \subseteq At(item.key, item.data).attestations
          BY <4>2 DEF IInv, QueueInv, ItemsInv
        <5>2. At(item.key, item.data).attestations \subseteq At(item.key, item.data)'.attestations
          BY <4>1, <2>1
        <5> QED BY <5>1, <5>2, <1>2
      <4>3. CASE kd = KindAt(key) /\ \E m \in 1..Len(r) : item = r[m]
        BY <4>1, <4>3, <2>1, <2>11
      <4>4. \/ n \in 1..Len(verifying[kd]) /\ item = verifying[kd][n]
            \/ kd = KindAt(key) /\ \E m \in 1..Len(r) : item = r[m]
        <5>1. CASE kd # KindAt(key)
          BY <5>1, <2>12, <2>13, <3>1
        <5>2. CASE kd = KindAt(key)
          <6>1. verifying'[kd] = q \o r /\ verifying[kd] = q
            BY <5>2, <2>3, <2>12, <2>13 DEF q
          <6>2. n \in 1..(Len(q) + Len(r)) /\ Len(q) \in Nat /\ Len(r) \in Nat
            BY <6>1, <2>11, <2>12
          <6>3. item = IF n <= Len(q) THEN q[n] ELSE r[n - Len(q)]
            BY <6>1, <6>2, <3>1, <2>11, <2>12
          <6>4. CASE n <= Len(q)
            BY <6>1, <6>2, <6>3, <6>4
          <6>5. CASE ~(n <= Len(q))
            <7>1. n - Len(q) \in 1..Len(r)
              BY <6>2, <6>5
            <7> QED BY <5>2, <6>3, <6>5, <7>1
          <6> QED BY <6>4, <6>5
        <5> QED BY <5>1, <5>2
      <4> QED BY <4>2, <4>3, <4>4
    <3>2. ASSUME NEW k \in Keys, NEW d \in Datas, NEW pos \in At(k, d)'.validating
          PROVE  \E n \in 1..Len(verifying'[KindAt(k)]) :
                   Awaits(verifying'[KindAt(k)], k, d, pos) = {n}
      <4>0. KindAt(k) \in Kinds
        BY DEF KindAt, Kinds
      <4>1. CASE KindAt(k) # KindAt(key)
        <5>1. verifying'[KindAt(k)] = verifying[KindAt(k)] /\ pos \in At(k, d).validating
          BY <4>0, <4>1, <2>1, <2>12, <2>13
        <5>2. \E n \in 1..Len(verifying[KindAt(k)]) : Awaits(verifying[KindAt(k)], k, d, pos) = {n}
          BY <5>1, Awaited
        <5> QED BY <5>1, <5>2
      <4>2. CASE KindAt(k) = KindAt(key)
        <5>1. verifying'[KindAt(k)] = q \o r /\ verifying[KindAt(k)] = q
          BY <4>2, <2>3, <2>12, <2>13 DEF q
        <5>2. Awaits(q \o r, k, d, pos)
                = Awaits(q, k, d, pos) \cup {Len(q) + n : n \in Awaits(r, k, d, pos)}
          BY <2>11, <2>12, AwaitsConcat
        <5>3. Len(q) \in Nat /\ Len(r) \in Nat /\ Len(q \o r) = Len(q) + Len(r)
          BY <2>11, <2>12
        <5>4. CASE pos \in At(k, d).validating
          <6>0. \E n \in 1..Len(verifying[KindAt(k)]) :
                  Awaits(verifying[KindAt(k)], k, d, pos) = {n}
            BY <5>4, Awaited
          <6>1. PICK n \in 1..Len(q) : Awaits(q, k, d, pos) = {n}
            BY <5>1, <6>0
          <6>2. pos \in At(k, d).attestations
            BY <5>4 DEF IInv, HeldInv
          <6>3. Awaits(r, k, d, pos) = {}
            BY <2>11, <6>2 DEF Awaits
          <6>4. Awaits(q \o r, k, d, pos) = {n} /\ n \in 1..Len(q \o r)
            BY <5>2, <5>3, <6>1, <6>3
          <6> QED BY <5>1, <6>4
        <5>5. CASE pos \notin At(k, d).validating
          <6>1. k = key /\ pos \in Received(env, d) \ At(k, d).attestations
            BY <2>1, <5>5, <3>2
          <6>2. PICK n \in 1..Len(r) : Awaits(r, k, d, pos) = {n}
            BY <2>11, <6>1
          <6>3. Awaits(q, k, d, pos) = {}
            <7> SUFFICES ASSUME NEW m \in Awaits(q, k, d, pos) PROVE FALSE
              OBVIOUS
            <7>1. m \in 1..Len(q) /\ q[m].key = k /\ q[m].data = d /\ pos \in q[m].fresh
              BY DEF Awaits
            <7>2. q[m].fresh \subseteq At(k, d).attestations
              BY <2>1, <2>3, <6>1, <7>1 DEF IInv, QueueInv, ItemsInv, q
            <7> QED BY <6>1, <7>1, <7>2
          <6>4. Awaits(q \o r, k, d, pos) = {Len(q) + n} /\ Len(q) + n \in 1..Len(q \o r)
            BY <5>2, <5>3, <6>2, <6>3
          <6> QED BY <5>1, <6>4
        <5> QED BY <5>4, <5>5
      <4> QED BY <4>1, <4>2
    <3> QED BY <3>1, <3>2 DEF QueueInv, ItemsInv, AwaitedInv, KindAt, Awaits
  <2> QED BY <2>6, <2>7, <2>8, <2>9, <2>10, <2>14, <2>15 DEF IInv
<1> QED BY <1>4, <1>5

\* A position awaits the one item n.
AwaitsOnly(q, k, d, pos, n) == n \in 1..Len(q) /\ Awaits(q, k, d, pos) = {n}

\* A position that does not await the oldest item awaits the same one after it.
LEMMA AwaitsTail ==
  ASSUME NEW q \in Seq(Item), q # <<>>, NEW k, NEW d, NEW pos,
         NEW n, AwaitsOnly(q, k, d, pos, n), n # 1
  PROVE  AwaitsOnly(Tail(q), k, d, pos, n - 1)
<1> USE DEF AwaitsOnly
<1>1. /\ Len(q) \in Nat /\ Len(Tail(q)) = Len(q) - 1
      /\ \A m \in 1..(Len(q) - 1) : Tail(q)[m] = q[m + 1]
  OBVIOUS
<1>2. n - 1 \in 1..(Len(q) - 1) /\ (n - 1) + 1 = n
  BY <1>1
<1>3. n - 1 \in Awaits(Tail(q), k, d, pos)
  BY <1>1, <1>2 DEF Awaits
<1>4. ASSUME NEW m \in Awaits(Tail(q), k, d, pos) PROVE m = n - 1
  <2>1. m \in 1..(Len(q) - 1) /\ m + 1 \in 1..Len(q) /\ Tail(q)[m] = q[m + 1]
    BY <1>1 DEF Awaits
  <2>2. m + 1 \in Awaits(q, k, d, pos)
    BY <2>1 DEF Awaits
  <2> QED BY <2>1, <2>2
<1> QED BY <1>1, <1>2, <1>3, <1>4

\* markValidated: the oldest item leaves the verifier and takes with it exactly
\* the positions that awaited it, none of which was reported before.
LEMMA ValidatedKeeps ==
  ASSUME IInv, NEW kd \in Kinds, markValidated(kd)
  PROVE  IInv'
<1> DEFINE q == verifying[kd]
<1>1. q \in Seq(Item) /\ q # <<>> /\ verifying \in [Kinds -> Seq(Item)]
  BY DEF markValidated, IInv, TypeInv
<1>2. PICK item \in Item : item = Head(verifying[kd])
  BY <1>1
<1>3. item.key \in Keys /\ item.data \in Datas
  BY DEF Item
<1>4. /\ verifying' = [verifying EXCEPT ![kd] = Tail(q)]
      /\ UNCHANGED <<floor, published, sent>>
  BY DEF markValidated
<1>5. \A k : Stale(k)' <=> Stale(k)
  BY <1>4 DEF Stale, KindAt
<1>6. /\ GroupsType'
      /\ \A k \in Keys, d \in Datas :
           LET a == At(k, d)
               b == At(k, d)'
           IN  /\ b.attestations = a.attestations
               /\ b.validating = a.validating \ Promoted(item, k, d)
               /\ b.validated = a.validated \cup Promoted(item, k, d)
               /\ b.sendCount = a.sendCount /\ b.available = a.available
      /\ arrived' \in [Votes -> Nat]
      /\ \A v \in Votes : arrived'[v] = IF v[3] \in Promoted(item, v[1], v[2])
                                        THEN arrived[v] + 1 ELSE arrived[v]
  BY <1>2, ValidatedEffect DEF IInv, TypeInv
<1>7. \A k \in Keys, d \in Datas : Promoted(item, k, d) \subseteq At(k, d).validating
  BY DEF Promoted
<1>8. TypeInv'
  <2>1. verifying' \in [Kinds -> Seq(Item)]
    BY <1>1, <1>4
  <2> QED BY <1>4, <1>6, <2>1 DEF IInv, TypeInv
<1>9. HeldInv'
  <2> SUFFICES ASSUME NEW k \in Keys, NEW d \in Datas
               PROVE  /\ At(k, d)'.attestations = At(k, d)'.validating \cup At(k, d)'.validated
                      /\ At(k, d)'.validating \cap At(k, d)'.validated = {}
                      /\ \A pos \in At(k, d)'.attestations : <<k, d, pos>> \in Own =>
                           <<k, d, pos>> \in published /\ pos \in At(k, d)'.validated
    BY <1>4 DEF HeldInv
  <2>1. /\ At(k, d).attestations = At(k, d).validating \cup At(k, d).validated
        /\ At(k, d).validating \cap At(k, d).validated = {}
        /\ \A pos \in At(k, d).attestations : <<k, d, pos>> \in Own =>
             <<k, d, pos>> \in published /\ pos \in At(k, d).validated
    BY DEF IInv, HeldInv
  <2> QED BY <1>6, <1>7, <2>1
<1>10. StaleInv'
  BY <1>5, <1>6 DEF IInv, StaleInv
<1>11. KnownInv'
  <2> SUFFICES ASSUME NEW k \in Keys, NEW d \in Datas, NEW pos \in Positions(k), ~Stale(k)
               PROVE  /\ <<k, d, pos>> \in published => pos \in At(k, d)'.attestations
                      /\ arrived'[<<k, d, pos>>] > 0 => pos \in At(k, d)'.validated
                      /\ \A p \in Peers : <<<<k, d, pos>>, p>> \in sent => pos \in At(k, d)'.attestations
    BY <1>4, <1>5 DEF KnownInv
  <2>1. <<k, d, pos>> \in Votes
    BY DEF Votes
  <2>2. arrived'[<<k, d, pos>>] = IF pos \in Promoted(item, k, d)
                                  THEN arrived[<<k, d, pos>>] + 1 ELSE arrived[<<k, d, pos>>]
    BY <1>6, <2>1
  <2> QED BY <1>6, <2>2 DEF IInv, KnownInv
<1>12. OwnSentInv'
  BY <1>4 DEF IInv, OwnSentInv
<1>13. ArrivesOnce'
  <2> SUFFICES ASSUME NEW v \in Votes PROVE arrived'[v] <= (IF v \in Own THEN 0 ELSE 1)
    BY <1>6 DEF ArrivesOnce
  <2>1. PICK k \in Keys, d \in Datas, pos \in UNION {Positions(j) : j \in Keys} :
               v = <<k, d, pos>>
    BY DEF Votes
  <2>2. arrived[v] \in Nat /\ arrived[v] <= (IF v \in Own THEN 0 ELSE 1)
    BY DEF IInv, TypeInv, ArrivesOnce
  <2>3. CASE pos \notin Promoted(item, k, d)
    BY <1>6, <2>1, <2>2, <2>3
  <2>4. CASE pos \in Promoted(item, k, d)
    <3>1. pos \in At(k, d).validating /\ pos \in At(k, d).attestations
          /\ pos \notin At(k, d).validated
      BY <1>7, <2>4 DEF IInv, HeldInv
    <3>2. v \notin Own /\ ~Stale(k)
      BY <2>1, <3>1 DEF IInv, HeldInv, StaleInv
    <3>3. pos \in Positions(k)
      BY <3>1, AtType DEF IInv, TypeInv, Bucket
    <3>4. ~(arrived[v] > 0)
      BY <2>1, <3>1, <3>2, <3>3 DEF IInv, KnownInv
    <3>5. arrived'[v] = arrived[v] + 1
      BY <1>6, <2>1, <2>4
    <3> QED BY <2>2, <3>2, <3>4, <3>5
  <2> QED BY <2>3, <2>4
<1>14. CountInv'
  <2>1. \A w : Recipients(w)' = Recipients(w)
    BY <1>4 DEF Recipients
  <2> SUFFICES ASSUME NEW k \in Keys, NEW d \in Datas, NEW pos \in Positions(k)
               PROVE  IF pos \in At(k, d)'.attestations
                      THEN /\ At(k, d)'.sendCount[pos] = Cardinality(Recipients(<<k, d, pos>>))
                           /\ At(k, d)'.sendCount[pos] <= MaxPeers
                           /\ \A p \in Recipients(<<k, d, pos>>) : pos \in At(k, d)'.available[p]
                      ELSE At(k, d)'.sendCount[pos] = 0
    BY <2>1 DEF CountInv
  <2>2. IF pos \in At(k, d).attestations
        THEN /\ At(k, d).sendCount[pos] = Cardinality(Recipients(<<k, d, pos>>))
             /\ At(k, d).sendCount[pos] <= MaxPeers
             /\ \A p \in Recipients(<<k, d, pos>>) : pos \in At(k, d).available[p]
        ELSE At(k, d).sendCount[pos] = 0
    BY DEF IInv, CountInv
  <2> QED BY <1>6, <2>2
<1>15. ItemsInv'
  <2> SUFFICES ASSUME NEW kx \in Kinds, NEW n \in 1..Len(verifying'[kx]),
                      NEW it, it = verifying'[kx][n]
               PROVE  /\ KindAt(it.key) = kx
                      /\ ~Stale(it.key)' => it.fresh \subseteq At(it.key, it.data)'.attestations
    BY DEF ItemsInv, KindAt
  <2>1. it \in Item
    BY <1>8 DEF TypeInv
  <2>2. it.key \in Keys /\ it.data \in Datas
    BY <2>1 DEF Item
  <2>3. \E m \in 1..Len(verifying[kx]) : it = verifying[kx][m]
    <3>1. CASE kx # kd
      BY <3>1, <1>1, <1>4
    <3>2. CASE kx = kd
      <4>1. verifying'[kx] = Tail(q) /\ n \in 1..(Len(q) - 1) /\ Len(q) \in Nat
        BY <3>2, <1>1, <1>4
      <4>2. it = q[n + 1] /\ n + 1 \in 1..Len(q)
        BY <4>1, <1>1
      <4> QED BY <3>2, <4>2
    <3> QED BY <3>1, <3>2
  <2>4. /\ KindAt(it.key) = kx
        /\ ~Stale(it.key) => it.fresh \subseteq At(it.key, it.data).attestations
    BY <2>3 DEF IInv, QueueInv, ItemsInv
  <2> QED BY <1>5, <1>6, <2>2, <2>4
<1>16. AwaitedInv'
  <2> SUFFICES ASSUME NEW k \in Keys, NEW d \in Datas, NEW pos \in At(k, d)'.validating
               PROVE  \E n \in 1..Len(verifying'[KindAt(k)]) :
                        Awaits(verifying'[KindAt(k)], k, d, pos) = {n}
    BY DEF AwaitedInv, KindAt, Awaits
  <2>1. pos \in At(k, d).validating /\ pos \notin Promoted(item, k, d) /\ KindAt(k) \in Kinds
    BY <1>6 DEF KindAt, Kinds
  <2>2. PICK n \in 1..Len(verifying[KindAt(k)]) : Awaits(verifying[KindAt(k)], k, d, pos) = {n}
    BY <2>1, Awaited
  <2>3. CASE KindAt(k) # kd
    <3>1. verifying'[KindAt(k)] = verifying[KindAt(k)]
      BY <2>1, <2>3, <1>1, <1>4
    <3> QED BY <2>2, <3>1
  <2>4. CASE KindAt(k) = kd
    <3>1. verifying'[KindAt(k)] = Tail(q) /\ n \in 1..Len(q) /\ Awaits(q, k, d, pos) = {n}
      BY <2>2, <2>4, <1>1, <1>4
    <3>2. n # 1
      <4> SUFFICES ASSUME n = 1 PROVE FALSE
        OBVIOUS
      <4>1. q[1].key = k /\ q[1].data = d /\ pos \in q[1].fresh
        BY <3>1 DEF Awaits
      <4>2. item = q[1]
        BY <1>1, <1>2
      <4> QED BY <2>1, <4>1, <4>2 DEF Promoted
    <3>3. AwaitsOnly(Tail(q), k, d, pos, n - 1)
      <4>1. q \in Seq(Item) /\ q # <<>>
        BY <1>1
      <4>2. AwaitsOnly(q, k, d, pos, n)
        BY <3>1 DEF AwaitsOnly
      <4> HIDE DEF q
      <4> QED BY <4>1, <4>2, <3>2, AwaitsTail, Zenon
    <3> QED BY <3>1, <3>3 DEF AwaitsOnly
  <2> QED BY <2>3, <2>4
<1> QED BY <1>8, <1>9, <1>10, <1>11, <1>12, <1>13, <1>14, <1>15, <1>16 DEF IInv, QueueInv

\* publishActions: the peers served are new ones, counted, and no more than the
\* cap leaves.
LEMMA TickKeeps ==
  ASSUME IInv, NEW key \in Keys, publishActions(key)
  PROVE  IInv'
<1>1. UNCHANGED <<floor, verifying, published, arrived>>
  BY DEF publishActions
<1>2. \A k : Stale(k)' <=> Stale(k)
  BY <1>1 DEF Stale, KindAt
<1>3. GroupsType' /\ \A k \in Keys, d \in Datas : k # key => At(k, d)' = At(k, d)
  BY TickEffect DEF IInv, TypeInv
<1>4. CASE UNCHANGED <<groups, sent>>
  <2>1. \A k \in Keys, d \in Datas : At(k, d)' = At(k, d)
    BY <1>4 DEF At, getOrCreateGroup, Live
  <2> QED BY <1>1, <1>3, <1>4, <2>1, SameBuckets
<1>5. CASE ~UNCHANGED <<groups, sent>>
  <2>0. PICK sts : \E ord \in Orders : Serves(key, sts, ord)
    BY <1>5, TickEffect DEF IInv, TypeInv
  <2>1. PICK ord \in Orders :
          /\ \A d \in Datas :
               LET a == At(key, d)
                   b == At(key, d)'
               IN  /\ b.attestations = a.attestations /\ b.validating = a.validating
                   /\ b.validated = a.validated
                   /\ \A pos \in Positions(key) :
                        b.sendCount[pos] = a.sendCount[pos]
                                           + Cardinality(Claimers(a, sts, ord, pos))
                   /\ \A p \in Peers : b.available[p] = a.available[p] \cup Claims(a, sts, ord, p)
          /\ \A k \in Keys, d \in Datas, p \in Peers : \A pos \in Positions(k) :
               <<<<k, d, pos>>, p>> \in sent'
                 <=> \/ <<<<k, d, pos>>, p>> \in sent
                     \/ k = key /\ pos \in Claims(At(k, d), sts, ord, p)
    BY <2>0, Zenon DEF Serves
  <2>2. \A k \in Keys, d \in Datas :
          /\ At(k, d)'.attestations = At(k, d).attestations
          /\ At(k, d)'.validating = At(k, d).validating
          /\ At(k, d)'.validated = At(k, d).validated
    BY <1>3, <2>1
  <2>3. \A d \in Datas : At(key, d) \in Bucket(Positions(key))
    BY AtType DEF IInv, TypeInv
  <2>4. \A d \in Datas, p \in Peers :
          /\ Claims(At(key, d), sts, ord, p) \subseteq At(key, d).attestations
          /\ Claims(At(key, d), sts, ord, p) \cap At(key, d).available[p] = {}
    <3>1. \A d \in Datas, p \in Peers :
            Claims(At(key, d), sts, ord, p) \subseteq At(key, d).validated \ At(key, d).available[p]
      BY <2>3, ClaimsLacking
    <3>2. \A d \in Datas : At(key, d).validated \subseteq At(key, d).attestations
      BY DEF IInv, HeldInv
    <3> QED BY <3>1, <3>2
  <2>5. TypeInv' /\ ArrivesOnce'
    BY <1>1, <1>3 DEF IInv, TypeInv, ArrivesOnce
  <2>6. HeldInv' /\ StaleInv'
    BY <1>1, <1>2, <2>2 DEF IInv, HeldInv, StaleInv
  <2>7. KnownInv'
    BY <1>1, <1>2, <2>1, <2>2, <2>4 DEF IInv, KnownInv
  <2>8. OwnSentInv'
    <3> SUFFICES ASSUME NEW v \in Own, NEW p \in Peers, <<v, p>> \in sent'
                 PROVE  v \in published
      BY <1>1 DEF OwnSentInv
    <3>1. PICK k \in Keys, d \in Datas, pos \in Positions(v[1]) :
                 v = <<k, d, pos>> /\ pos \in Positions(k)
      BY OwnVote
    <3>2. CASE <<v, p>> \in sent
      BY <3>2 DEF IInv, OwnSentInv
    <3>3. CASE k = key /\ pos \in Claims(At(k, d), sts, ord, p)
      BY <3>1, <3>3, <2>4 DEF IInv, HeldInv
    <3> QED BY <2>1, <3>1, <3>2, <3>3
  <2>9. CountInv'
    <3> SUFFICES ASSUME NEW k \in Keys, NEW d \in Datas, NEW pos \in Positions(k)
                 PROVE  IF pos \in At(k, d)'.attestations
                        THEN /\ At(k, d)'.sendCount[pos] = Cardinality(Recipients(<<k, d, pos>>)')
                             /\ At(k, d)'.sendCount[pos] <= MaxPeers
                             /\ \A p \in Recipients(<<k, d, pos>>)' : pos \in At(k, d)'.available[p]
                        ELSE At(k, d)'.sendCount[pos] = 0
      BY DEF CountInv
    <3> DEFINE R == Recipients(<<k, d, pos>>)
    <3>1. IF pos \in At(k, d).attestations
          THEN /\ At(k, d).sendCount[pos] = Cardinality(R)
               /\ At(k, d).sendCount[pos] <= MaxPeers
               /\ \A p \in R : pos \in At(k, d).available[p]
          ELSE At(k, d).sendCount[pos] = 0
      BY DEF IInv, CountInv
    <3>2. CASE k # key
      <4>1. R' = R
        BY <3>2, <2>1 DEF Recipients
      <4> QED BY <3>1, <3>2, <4>1, <1>3
    <3>3. CASE k = key /\ pos \notin At(k, d).attestations
      <4>1. Claimers(At(k, d), sts, ord, pos) = {}
        BY <3>3, <2>4 DEF Claimers
      <4>2. At(k, d)'.sendCount[pos] = 0 + Cardinality({})
        BY <3>1, <3>3, <4>1, <2>1
      <4> QED BY <3>3, <4>2, <2>2, FS_EmptySet
    <3>4. CASE k = key /\ pos \in At(k, d).attestations
      <4> DEFINE C == Claimers(At(k, d), sts, ord, pos)
      <4>1. R' = R \cup C
        BY <3>4, <2>1 DEF Recipients, Claimers
      <4>2. R \cap C = {}
        BY <3>1, <3>4, <2>4 DEF Claimers
      <4>3. R \subseteq Peers /\ C \subseteq Peers
        BY DEF Recipients, Claimers
      <4>4. At(k, d)'.sendCount[pos] = At(k, d).sendCount[pos] + Cardinality(C)
        BY <3>4, <2>1
      <4>5. At(k, d).sendCount[pos] + Cardinality(C) <= MaxPeers
        BY <3>1, <3>4, <2>3, ClaimsBounded
      <4>6. \A p \in R \cup C : pos \in At(k, d)'.available[p]
        BY <3>1, <3>4, <2>1, <4>3 DEF Claimers
      <4> HIDE DEF R, C
      <4>7. Cardinality(R \cup C) = Cardinality(R) + Cardinality(C)
        <5>1. /\ IsFiniteSet(R) /\ IsFiniteSet(C)
              /\ Cardinality(R) \in Nat /\ Cardinality(C) \in Nat
          BY <4>3, CountPeers
        <5>2. Cardinality(R \cup C) = Cardinality(R) + Cardinality(C) - Cardinality(R \cap C)
          BY <5>1, FS_Union
        <5>3. Cardinality(R \cap C) = 0
          BY <4>2, FS_EmptySet
        <5> QED BY <5>1, <5>2, <5>3
      <4> QED BY <3>1, <3>4, <2>2, <4>1, <4>4, <4>5, <4>6, <4>7 DEF R
    <3> QED BY <3>2, <3>3, <3>4
  <2>10. QueueInv'
    BY <1>1, <1>2, <2>2, QueueKept DEF IInv
  <2> QED BY <2>5, <2>6, <2>7, <2>8, <2>9, <2>10 DEF IInv
<1> QED BY <1>4, <1>5

\* prune: what it drops falls under the floor.
LEMMA PruneKeeps ==
  ASSUME IInv, NEW kd \in Kinds, NEW upTo \in GroupKeys, prune(kd, upTo)
  PROVE  IInv'
<1>1. UNCHANGED <<verifying, published, arrived, sent>>
  BY DEF prune
<1>2. /\ GroupsType' /\ floor' \in [Kinds -> Int]
      /\ \A k \in Keys : Stale(k) => Stale(k)'
      /\ \A k \in Keys, d \in Datas :
           \/ At(k, d)' = At(k, d) /\ (Stale(k)' => Stale(k))
           \/ At(k, d)' = newPartialBucket(Positions(k)) /\ Stale(k)'
  BY PruneEffect DEF IInv, TypeInv
<1>3. \A k \in Keys, d \in Datas :
        \/ At(k, d)' = At(k, d) /\ (Stale(k)' => Stale(k))
        \/ /\ At(k, d)'.attestations = {} /\ At(k, d)'.validating = {} /\ At(k, d)'.validated = {}
           /\ \A pos \in Positions(k) : At(k, d)'.sendCount[pos] = 0
           /\ Stale(k)'
  BY <1>2, NewBucket
<1>4. TypeInv'
  BY <1>1, <1>2 DEF IInv, TypeInv
<1>5. HeldInv'
  BY <1>1, <1>3 DEF IInv, HeldInv
<1>6. StaleInv'
  BY <1>3 DEF IInv, StaleInv
<1>7. KnownInv'
  BY <1>1, <1>2, <1>3 DEF IInv, KnownInv
<1>8. OwnSentInv' /\ ArrivesOnce'
  BY <1>1 DEF IInv, OwnSentInv, ArrivesOnce
<1>9. CountInv'
  <2>1. \A w : Recipients(w)' = Recipients(w)
    BY <1>1 DEF Recipients
  <2> SUFFICES ASSUME NEW k \in Keys, NEW d \in Datas, NEW pos \in Positions(k)
               PROVE  IF pos \in At(k, d)'.attestations
                      THEN /\ At(k, d)'.sendCount[pos] = Cardinality(Recipients(<<k, d, pos>>))
                           /\ At(k, d)'.sendCount[pos] <= MaxPeers
                           /\ \A p \in Recipients(<<k, d, pos>>) : pos \in At(k, d)'.available[p]
                      ELSE At(k, d)'.sendCount[pos] = 0
    BY <2>1 DEF CountInv
  <2>2. CASE At(k, d)' = At(k, d)
    BY <2>2 DEF IInv, CountInv
  <2>3. CASE At(k, d)' # At(k, d)
    BY <1>3, <2>3
  <2> QED BY <2>2, <2>3
<1>10. QueueInv'
  <2>1. \A k \in Keys, d \in Datas : At(k, d)'.validating \subseteq At(k, d).validating
    BY <1>3
  <2>2. \A k \in Keys, d \in Datas :
          ~Stale(k)' => At(k, d).attestations \subseteq At(k, d)'.attestations
    BY <1>3
  <2> QED BY <1>1, <1>2, <2>1, <2>2, QueueKept DEF IInv
<1> QED BY <1>4, <1>5, <1>6, <1>7, <1>8, <1>9, <1>10 DEF IInv

\* Every step keeps the invariant.
LEMMA NextIInv == IInv /\ [Next]_vars => IInv'
<1> SUFFICES ASSUME IInv, [Next]_vars PROVE IInv'
  OBVIOUS
<1>1. ASSUME NEW v \in Own, publishLocal(v) PROVE IInv'
  BY <1>1, PublishKeeps
<1>2. ASSUME NEW env \in Envelopes, onIncomingRPC(env) PROVE IInv'
  BY <1>2, ReceiveKeeps
<1>3. ASSUME NEW kd \in Kinds, markValidated(kd) PROVE IInv'
  BY <1>3, ValidatedKeeps
<1>4. ASSUME UNCHANGED <<groups, floor, verifying, published, arrived, sent>> PROVE IInv'
  <2>1. \A k \in Keys, d \in Datas : At(k, d)' = At(k, d)
    BY <1>4 DEF At, getOrCreateGroup, Live
  <2>2. GroupsType'
    BY <1>4 DEF IInv, TypeInv, GroupsType, Live
  <2> QED BY <1>4, <2>1, <2>2, SameBuckets
<1>5. CASE tick
  BY <1>4, <1>5 DEF tick
<1>6. ASSUME NEW k \in Keys, publishActions(k) PROVE IInv'
  BY <1>6, TickKeeps
<1>7. ASSUME NEW k \in Live, NEW p \in Peers \ Mesh, onEmitGossip(k, {p}) PROVE IInv'
  BY <1>4, <1>7 DEF onEmitGossip
<1>8. ASSUME NEW kd \in Kinds, NEW g \in GroupKeys, seal(kd, g) PROVE IInv'
  <2>1. GroupsType' /\ \A k \in Keys, d \in Datas : At(k, d)' = At(k, d)
    BY <1>8, SealEffect DEF IInv, TypeInv
  <2>2. UNCHANGED <<floor, verifying, published, arrived, sent>>
    BY <1>8 DEF seal
  <2> QED BY <2>1, <2>2, SameBuckets
<1>9. ASSUME NEW kd \in Kinds, NEW g \in GroupKeys, prune(kd, g) PROVE IInv'
  BY <1>9, PruneKeeps
<1>10. CASE UNCHANGED vars
  BY <1>4, <1>10 DEF vars
<1> QED BY <1>1, <1>2, <1>3, <1>5, <1>6, <1>7, <1>8, <1>9, <1>10 DEF Next

-----------------------------------------------------------------------------
(* The theorems.                                                           *)

\* The invariant holds throughout.
LEMMA Inductive == Safety => []IInv
BY InitIInv, NextIInv, PTL DEF Safety

\* claimToSend (partial.go:258) never sends a vote to a peer twice and never to
\* more than MaxPeersPerAttestation peers, for every mesh, cap and traffic: the
\* forward count of a position is the number of peers it went to.
THEOREM VotesSentOnce == Safety => []SentOncePerPeer
<1>1. IInv => SentOncePerPeer
  <2> SUFFICES ASSUME IInv, NEW k \in Live, NEW d \in DOMAIN groups[k].buckets,
                      NEW pos \in BucketAt(k, d).attestations
               PROVE  LET n == Cardinality({p \in Peers : <<<<k, d, pos>>, p>> \in sent})
                      IN  BucketAt(k, d).sendCount[pos] = n /\ n <= MaxPeers
    BY DEF SentOncePerPeer
  <2>1. k \in Keys /\ d \in Datas /\ At(k, d) = BucketAt(k, d)
    BY AtHeld DEF IInv, TypeInv, GroupsType, Buckets
  <2>2. pos \in Positions(k)
    BY <2>1, AtType DEF IInv, TypeInv, Bucket
  <2> QED BY <2>1, <2>2 DEF IInv, CountInv, Recipients
<1> QED BY <1>1, Inductive, PTL

\* markValidated (partial.go:528) reports a vote to OnReceive at most once, and an
\* own vote never, through redeliveries, prunes in mid-verification and groups
\* made again.
THEOREM VotesArriveOnce == Safety => []ArrivesOnce
BY Inductive, PTL DEF IInv

\* Every position onIncomingRPC (partial.go:507) marks as under verification is in
\* exactly one item of its kind's verifier, however batches overlap, repeat
\* or are malformed, until its callback or its prune.
THEOREM VerificationsAreQueued == Safety => []ValidatingIsQueued
<1>1. IInv => ValidatingIsQueued
  <2> SUFFICES ASSUME IInv, NEW k \in Live, NEW d \in DOMAIN groups[k].buckets,
                      NEW pos \in BucketAt(k, d).validating
               PROVE  Cardinality(Awaits(verifying[KindAt(k)], k, d, pos)) = 1
    BY DEF ValidatingIsQueued, Awaits
  <2>1. k \in Keys /\ d \in Datas /\ At(k, d) = BucketAt(k, d)
    BY AtHeld DEF IInv, TypeInv, GroupsType, Buckets
  <2>2. pos \in At(k, d).validating
    BY <2>1
  <2>3. \E n \in 1..Len(verifying[KindAt(k)]) : Awaits(verifying[KindAt(k)], k, d, pos) = {n}
    BY <2>1, <2>2, Awaited
  <2>4. PICK n : Awaits(verifying[KindAt(k)], k, d, pos) = {n}
    BY <2>3
  <2> QED BY <2>4, FS_Singleton
<1> QED BY <1>1, Inductive, PTL

\* prune (partial.go:683) is final: at a key under the floor neither a straggler
\* nor a late verifier callback brings back a vote that is not the node's own.
THEOREM PruneIsFinal == Safety => []PrunedStaysPruned
<1>1. IInv => PrunedStaysPruned
  <2> SUFFICES ASSUME IInv, NEW k \in Live, NEW d \in DOMAIN groups[k].buckets,
                      k[2] <= floor[KindAt(k)],
                      NEW pos \in BucketAt(k, d).attestations \cup BucketAt(k, d).validated
               PROVE  <<k, d, pos>> \in Own
    BY DEF PrunedStaysPruned
  <2>1. k \in Keys /\ d \in Datas /\ At(k, d) = BucketAt(k, d)
    BY AtHeld DEF IInv, TypeInv, GroupsType, Buckets
  <2>2. pos \in At(k, d).attestations
    BY <2>1 DEF IInv, HeldInv
  <2> QED BY <2>1, <2>2 DEF IInv, StaleInv, Stale
<1> QED BY <1>1, Inductive, PTL

-----------------------------------------------------------------------------
(* The members of a topic (PartialNetwork, here Net): the transport         *)
(* implements VoteFlood for every set of members, mesh, gossip and fan-out  *)
(* links, width and caps, because whatever is on the wire or under          *)
(* verification could be heard from a neighbour that had verified or        *)
(* published it, and stays so.                                              *)

CONSTANTS Members, MeshLinks, GossipLinks, FanoutLinks, Width, Owner, ServeOrders, MaxLoss
VARIABLES buckets, live, statesAt, verifyingAt, wire, out, lost

Net == INSTANCE PartialNetwork
         WITH peerStates <- statesAt, verifying <- verifyingAt, published <- out
Flood == INSTANCE VoteFlood
           WITH Votes <- Net!Positions, Links <- Net!Links, published <- out,
                known <- [n \in Members |-> buckets[n].validated]

\* What PartialNetwork assumes: links between members, a fan-out's from outside.
Wired ==
  /\ Members \subseteq Peers
  /\ MeshLinks \cup GossipLinks \subseteq Members \X Members
  /\ FanoutLinks \subseteq (Peers \ Members) \X Members
  /\ Owner \in [Net!Positions -> Peers] /\ MaxLoss \in Nat /\ ServeOrders \subseteq Net!Orders

\* The instance counts like this module.
LEMMA NetCount ==
  ASSUME NEW S
  PROVE  Net!Cardinality(S) = Cardinality(S)
<1>1. \A T : Net!IsFiniteSet(T) = IsFiniteSet(T)
  BY DEF Net!IsFiniteSet, IsFiniteSet
<1> QED BY <1>1 DEF Net!Cardinality, Cardinality


NetBucket ==
  [ attestations : SUBSET Net!Positions, validating : SUBSET Net!Positions, validated : SUBSET Net!Positions,
    sendCount : [Net!Positions -> Nat], requestCount : [Net!Positions -> Nat],
    available : [Peers -> SUBSET Net!Positions], pendingWant : [Peers -> SUBSET Net!Positions] ]

Rpc ==
  [available : SUBSET Net!Positions, requests : SUBSET Net!Positions, positions : SUBSET Net!Positions]

\* The types of the variables.
NetType ==
  /\ buckets \in [Members -> NetBucket] /\ live \subseteq Members
  /\ statesAt \in [Members -> [Peers -> {"none", "mesh", "gossip", "armed"}]]
  /\ verifyingAt \in [Members -> Seq(SUBSET Net!Positions)]
  /\ wire \in [Net!Links -> Seq(Rpc)]
  /\ out \subseteq Net!Positions /\ lost \in Nat

\* A bucket holds what it verifies and what it has verified, apart, and all of
\* it was published.
NetHeld ==
  \A n \in Members :
    /\ buckets[n].attestations = buckets[n].validating \cup buckets[n].validated
    /\ buckets[n].validating \cap buckets[n].validated = {}
    /\ buckets[n].attestations \subseteq out

\* What a member verifies, and what is on the wire to it, it can hear.
HeardInv ==
  /\ \A n \in Members : \A pos \in buckets[n].validating : Flood!Heard(n, pos)
  /\ \A l \in Net!Links : \A i \in 1..Len(wire[l]) : \A pos \in wire[l][i].positions :
       Flood!Heard(l[2], pos)

NetInv == NetType /\ NetHeld /\ HeardInv

-----------------------------------------------------------------------------
(* The bucket's operations.                                                *)

\* A new bucket holds nothing.
LEMMA NetNewBucket ==
  /\ Net!newPartialBucket(Net!Positions) \in NetBucket
  /\ Net!newPartialBucket(Net!Positions).attestations = {}
  /\ Net!newPartialBucket(Net!Positions).validating = {}
  /\ Net!newPartialBucket(Net!Positions).validated = {}
BY DEF Net!newPartialBucket, NetBucket

\* An own vote that was not held is held and validated.
LEMMA NetAddOwn ==
  ASSUME NEW b \in NetBucket, NEW pos \in Net!Positions, pos \notin b.attestations
  PROVE  /\ Net!addOwn(b, pos) \in NetBucket
         /\ Net!addOwn(b, pos).attestations = b.attestations \cup {pos}
         /\ Net!addOwn(b, pos).validating = b.validating
         /\ Net!addOwn(b, pos).validated = b.validated \cup {pos}
BY DEF Net!addOwn, NetBucket

\* Metadata only says what the peer has and wants.
LEMMA NetAddMetadata ==
  ASSUME NEW b \in NetBucket, NEW from \in Peers, NEW md \in Rpc
  PROVE  /\ Net!addMetadata(b, from, md) \in NetBucket
         /\ Net!addMetadata(b, from, md).attestations = b.attestations
         /\ Net!addMetadata(b, from, md).validating = b.validating
         /\ Net!addMetadata(b, from, md).validated = b.validated
BY DEF Net!addMetadata, NetBucket, Rpc

\* A batch puts under verification what the bucket did not hold.
LEMMA NetAddReceived ==
  ASSUME NEW b \in NetBucket, NEW from \in Peers, NEW ps \in SUBSET Net!Positions
  PROVE  /\ Net!addReceived(b, from, ps) \in NetBucket
         /\ Net!addReceived(b, from, ps).attestations = b.attestations \cup ps
         /\ Net!addReceived(b, from, ps).validating = b.validating \cup (ps \ b.attestations)
         /\ Net!addReceived(b, from, ps).validated = b.validated
BY DEF Net!addReceived, Net!Fresh, NetBucket

\* The callback promotes what is still awaited.
LEMMA NetPromote ==
  ASSUME NEW b \in NetBucket, NEW ps
  PROVE  /\ Net!promote(b, ps) \in NetBucket
         /\ Net!promote(b, ps).attestations = b.attestations
         /\ Net!promote(b, ps).validating = b.validating \ (ps \cap b.validating)
         /\ Net!promote(b, ps).validated = b.validated \cup (ps \cap b.validating)
BY DEF Net!promote, Net!Promotable, NetBucket

\* claimToSend takes validated positions, selectIWantTargets advertised ones.
LEMMA NetClaims ==
  ASSUME NEW b \in NetBucket, NEW sts, NEW ord, NEW p \in Peers
  PROVE  /\ Net!Claims(b, sts, ord, p) \subseteq b.validated
         /\ Net!Asks(b, sts, ord, p) \subseteq Net!Positions
         /\ Net!Advertises(b, sts, p) \subseteq b.validated
BY DEF Net!Claims, Net!Lacks, Net!Asks, Net!Askable, Net!Advertises, NetBucket

\* A tick leaves what the bucket holds alone.
LEMMA NetServed ==
  ASSUME NEW b \in NetBucket, NEW sts, NEW askOrd, NEW ord
  PROVE  /\ Net!served(b, sts, askOrd, ord) \in NetBucket
         /\ Net!served(b, sts, askOrd, ord).attestations = b.attestations
         /\ Net!served(b, sts, askOrd, ord).validating = b.validating
         /\ Net!served(b, sts, askOrd, ord).validated = b.validated
<1> DEFINE asked == [pos \in Net!Positions |->
             b.requestCount[pos] + Cardinality({p \in Peers : pos \in Net!Asks(b, sts, askOrd, p)})]
           claimed == [pos \in Net!Positions |->
             b.sendCount[pos] + Cardinality({p \in Peers : pos \in Net!Claims(b, sts, ord, p)})]
           has == [p \in Peers |-> b.available[p] \cup Net!Claims(b, sts, ord, p)]
           wants == [p \in Peers |-> IF sts[p] = "none" THEN b.pendingWant[p] ELSE {}]
<1>1. /\ b.requestCount \in [Net!Positions -> Nat] /\ b.sendCount \in [Net!Positions -> Nat]
      /\ b.available \in [Peers -> SUBSET Net!Positions] /\ b.pendingWant \in [Peers -> SUBSET Net!Positions]
      /\ b.validated \subseteq Net!Positions
  BY DEF NetBucket
<1>2. asked \in [Net!Positions -> Nat]
  <2>1. ASSUME NEW pos \in Net!Positions
        PROVE  Cardinality({p \in Peers : pos \in Net!Asks(b, sts, askOrd, p)}) \in Nat
    <3> DEFINE S == {p \in Peers : pos \in Net!Asks(b, sts, askOrd, p)}
    <3>1. S \subseteq Peers
      OBVIOUS
    <3> HIDE DEF S
    <3>2. Cardinality(S) \in Nat
      BY <3>1, CountPeers
    <3> QED BY <3>2 DEF S
  <2> QED BY <1>1, <2>1
<1>3. claimed \in [Net!Positions -> Nat]
  <2>1. ASSUME NEW pos \in Net!Positions
        PROVE  Cardinality({p \in Peers : pos \in Net!Claims(b, sts, ord, p)}) \in Nat
    <3> DEFINE S == {p \in Peers : pos \in Net!Claims(b, sts, ord, p)}
    <3>1. S \subseteq Peers
      OBVIOUS
    <3> HIDE DEF S
    <3>2. Cardinality(S) \in Nat
      BY <3>1, CountPeers
    <3> QED BY <3>2 DEF S
  <2> QED BY <1>1, <2>1
<1>4. has \in [Peers -> SUBSET Net!Positions]
  BY <1>1, NetClaims
<1>5. wants \in [Peers -> SUBSET Net!Positions]
  BY <1>1
<1>6. Net!served(b, sts, askOrd, ord) =
        [b EXCEPT !.requestCount = asked, !.sendCount = claimed, !.available = has,
                  !.pendingWant = wants]
  BY <1>1, NetCount, Zenon DEF Net!served
<1> HIDE DEF asked, claimed, has, wants
<1> QED BY <1>2, <1>3, <1>4, <1>5, <1>6 DEF NetBucket

-----------------------------------------------------------------------------
(* The invariant.                                                          *)

\* A link ends at a member, and starts at one unless it is a fan-out's.
LEMMA LinkEnds ==
  ASSUME Wired, NEW l \in Net!Links
  PROVE  l[1] \in Peers /\ l[2] \in Members /\ l = <<l[1], l[2]>> /\ Members \subseteq Peers
BY DEF Wired, Net!Links

\* A tick's RPCs, link by link.
LEMMA TickSends ==
  ASSUME Wired, NEW n \in Members, Net!tick(n)
  PROVE  LET sts == Net!AddMesh(statesAt[n], Net!MeshOf(n)) IN
         \E ord \in ServeOrders, askOrd \in ServeOrders :
           /\ wire' = [l \in Net!Links |-> IF l[1] = n /\ ~Net!Silent(Net!Sends(n, sts, askOrd, ord, l[2]))
                                       THEN Append(wire[l], Net!Sends(n, sts, askOrd, ord, l[2]))
                                       ELSE wire[l]]
           /\ buckets' = [buckets EXCEPT ![n] = Net!served(@, sts, askOrd, ord)]
<1> DEFINE sts == Net!AddMesh(statesAt[n], Net!MeshOf(n))
           rpc(askOrd, ord) == [p \in Peers |-> Net!Sends(n, sts, askOrd, ord, p)]
<1>1. PICK ord \in ServeOrders, askOrd \in ServeOrders :
        /\ wire' = [l \in Net!Links |-> IF l[1] = n /\ ~Net!Silent(rpc(askOrd, ord)[l[2]])
                                    THEN Append(wire[l], rpc(askOrd, ord)[l[2]]) ELSE wire[l]]
        /\ buckets' = [buckets EXCEPT ![n] = Net!served(@, sts, askOrd, ord)]
  BY Zenon DEF Net!tick
<1>2. \A l \in Net!Links : rpc(askOrd, ord)[l[2]] = Net!Sends(n, sts, askOrd, ord, l[2])
  BY LinkEnds
<1> HIDE DEF sts, rpc
<1>3. wire' = [l \in Net!Links |-> IF l[1] = n /\ ~Net!Silent(Net!Sends(n, sts, askOrd, ord, l[2]))
                               THEN Append(wire[l], Net!Sends(n, sts, askOrd, ord, l[2]))
                               ELSE wire[l]]
  BY <1>1, <1>2
<1> QED BY <1>1, <1>3 DEF sts

\* Nothing is held or on the wire at first.
LEMMA NetInit == Net!Init => NetInv
<1> SUFFICES ASSUME Net!Init PROVE NetInv
  OBVIOUS
<1>1. NetType
  BY NetNewBucket DEF Net!Init, NetType
<1>2. \A n \in Members : /\ buckets[n].attestations = {} /\ buckets[n].validating = {}
                         /\ buckets[n].validated = {}
  BY NetNewBucket DEF Net!Init
<1>3. \A l \in Net!Links : wire[l] = <<>>
  BY DEF Net!Init
<1> QED BY <1>1, <1>2, <1>3 DEF NetInv, NetHeld, HeardInv

\* What step changes which variable, with types.
LEMMA NetNextType == Wired /\ NetType /\ NetHeld /\ [Net!Next]_(Net!vars) => NetType'
<1> SUFFICES ASSUME Wired, NetType, NetHeld, [Net!Next]_(Net!vars) PROVE NetType'
  OBVIOUS
<1> USE DEF NetType
<1>1. ASSUME NEW pos \in Net!Positions, Net!publishLocal(pos)
      PROVE  NetType'
  <2>1. Owner[pos] \in Members /\ pos \notin buckets[Owner[pos]].attestations
    BY <1>1 DEF Net!publishLocal, NetHeld
  <2>2. Net!addOwn(buckets[Owner[pos]], pos) \in NetBucket
    BY <2>1, NetAddOwn
  <2> QED BY <1>1, <2>1, <2>2 DEF Net!publishLocal
<1>2. ASSUME NEW n \in Peers \ Members, Net!fanoutPublish(n)
      PROVE  NetType'
  <2>1. [available |-> {}, requests |-> {}, positions |-> {pos \in Net!Positions : Owner[pos] = n}] \in Rpc
    BY DEF Rpc
  <2> DEFINE rpc == [available |-> {}, requests |-> {},
                     positions |-> {pos \in Net!Positions : Owner[pos] = n}]
  <2>2. /\ wire' = [l \in Net!Links |-> IF l[1] # n THEN wire[l] ELSE Append(wire[l], rpc)]
        /\ out' = out \cup {pos \in Net!Positions : Owner[pos] = n}
        /\ UNCHANGED <<buckets, live, statesAt, verifyingAt, lost>>
    BY <1>2 DEF Net!fanoutPublish
  <2>3. rpc \in Rpc
    BY <2>1
  <2> HIDE DEF rpc
  <2>4. \A l \in Net!Links : wire[l] \in Seq(Rpc) /\ Append(wire[l], rpc) \in Seq(Rpc)
    BY <2>3
  <2>5. wire' \in [Net!Links -> Seq(Rpc)]
    BY <2>2, <2>4
  <2> QED BY <2>2, <2>5
<1>3. ASSUME NEW l \in Net!Links, Net!onIncomingRPC(l)
      PROVE  NetType'
  <2>1. l[1] \in Peers /\ l[2] \in Members
    BY LinkEnds
  <2>2. wire[l] \in Seq(Rpc) /\ wire[l] # <<>>
    BY <1>3 DEF Net!onIncomingRPC
  <2>3. Head(wire[l]) \in Rpc /\ Tail(wire[l]) \in Seq(Rpc)
    BY <2>2
  <2> DEFINE rpc == Head(wire[l])
             b == Net!addMetadata(buckets[l[2]], l[1], rpc)
  <2>4. b \in NetBucket
    BY <2>1, <2>3, NetAddMetadata
  <2>5. rpc.positions \in SUBSET Net!Positions
    BY <2>3 DEF Rpc
  <2>6. Net!addReceived(b, l[1], rpc.positions) \in NetBucket
    <3> HIDE DEF b, rpc
    <3> QED BY <2>1, <2>4, <2>5, NetAddReceived
  <2>7. Net!Fresh(buckets[l[2]], rpc.positions) \in SUBSET Net!Positions
    BY <2>5 DEF Net!Fresh
  <2>8. /\ wire' = [wire EXCEPT ![l] = Tail(@)]
        /\ buckets' = [buckets EXCEPT ![l[2]] = Net!addReceived(b, l[1], rpc.positions)]
        /\ live' = live \cup {l[2]}
        /\ \/ statesAt' = [statesAt EXCEPT ![l[2]][l[1]] = "gossip"]
           \/ statesAt' = statesAt
        /\ \/ verifyingAt' = verifyingAt
           \/ verifyingAt' = [verifyingAt EXCEPT ![l[2]] = Append(@, Net!Fresh(buckets[l[2]], rpc.positions))]
        /\ UNCHANGED <<out, lost>>
    BY <1>3, <2>1 DEF Net!onIncomingRPC
  <2> HIDE DEF b, rpc
  <2>9. buckets' \in [Members -> NetBucket] /\ wire' \in [Net!Links -> Seq(Rpc)]
    BY <2>1, <2>3, <2>6, <2>8
  <2>10. statesAt' \in [Members -> [Peers -> {"none", "mesh", "gossip", "armed"}]]
    <3> DEFINE n == l[2]
               from == l[1]
    <3>1. n \in Members /\ from \in Peers
      BY <2>1
    <3>2. statesAt' = [statesAt EXCEPT ![n][from] = "gossip"] \/ statesAt' = statesAt
      BY <2>8
    <3> HIDE DEF n, from
    <3>3. ASSUME statesAt' = [statesAt EXCEPT ![n][from] = "gossip"]
          PROVE  statesAt' \in [Members -> [Peers -> {"none", "mesh", "gossip", "armed"}]]
      <4>1. statesAt[n] \in [Peers -> {"none", "mesh", "gossip", "armed"}]
        BY <3>1
      <4>2. [statesAt[n] EXCEPT ![from] = "gossip"] \in [Peers -> {"none", "mesh", "gossip", "armed"}]
        BY <4>1
      <4> QED BY <3>1, <3>3, <4>2
    <3> QED BY <3>2, <3>3
  <2>11. verifyingAt' \in [Members -> Seq(SUBSET Net!Positions)]
    <3>1. verifyingAt[l[2]] \in Seq(SUBSET Net!Positions)
      BY <2>1
    <3>2. Append(verifyingAt[l[2]], Net!Fresh(buckets[l[2]], rpc.positions)) \in Seq(SUBSET Net!Positions)
      BY <2>7, <3>1
    <3> QED BY <2>1, <2>8, <3>2
  <2> QED BY <2>1, <2>8, <2>9, <2>10, <2>11
<1>4. ASSUME NEW l \in Net!Links, Net!drop(l)
      PROVE  NetType'
  BY <1>4 DEF Net!drop
<1>5. ASSUME NEW l \in Net!Links, Net!onEmitGossip(l)
      PROVE  NetType'
  BY <1>5, LinkEnds DEF Wired, Net!onEmitGossip
<1>6. ASSUME NEW n \in Members, Net!markValidated(n)
      PROVE  NetType'
  <2>1. Net!promote(buckets[n], Head(verifyingAt[n])) \in NetBucket
    BY NetPromote
  <2> QED BY <1>6, <2>1 DEF Net!markValidated
<1>7. ASSUME NEW n \in Members, Net!tick(n)
      PROVE  NetType'
  <2> DEFINE sts == Net!AddMesh(statesAt[n], Net!MeshOf(n))
  <2>1. PICK ord \in ServeOrders, askOrd \in ServeOrders :
          /\ wire' = [l \in Net!Links |-> IF l[1] = n /\ ~Net!Silent(Net!Sends(n, sts, askOrd, ord, l[2]))
                                      THEN Append(wire[l], Net!Sends(n, sts, askOrd, ord, l[2]))
                                      ELSE wire[l]]
          /\ buckets' = [buckets EXCEPT ![n] = Net!served(@, sts, askOrd, ord)]
    BY <1>7, TickSends
  <2>2. statesAt' = [statesAt EXCEPT ![n] = Net!Forget(sts)]
        /\ UNCHANGED <<live, verifyingAt, out, lost>>
    BY <1>7 DEF Net!tick
  <2>3. Net!Forget(sts) \in [Peers -> {"none", "mesh", "gossip", "armed"}]
    BY DEF Net!Forget, Net!AddMesh, Net!IsGossip
  <2> HIDE DEF sts
  <2>4. Net!served(buckets[n], sts, askOrd, ord) \in NetBucket
    BY NetServed
  <2>5. \A l \in Net!Links : Net!Sends(n, sts, askOrd, ord, l[2]) \in Rpc
    <3> SUFFICES ASSUME NEW l \in Net!Links PROVE Net!Sends(n, sts, askOrd, ord, l[2]) \in Rpc
      OBVIOUS
    <3>1. l[2] \in Peers
      BY LinkEnds
    <3>2. buckets[n] \in NetBucket /\ buckets[n].validated \subseteq Net!Positions
      BY DEF NetBucket
    <3>3. /\ Net!Claims(buckets[n], sts, ord, l[2]) \subseteq Net!Positions
          /\ Net!Asks(buckets[n], sts, askOrd, l[2]) \subseteq Net!Positions
          /\ Net!Advertises(buckets[n], sts, l[2]) \subseteq Net!Positions
      BY <3>1, <3>2, NetClaims
    <3> QED BY <3>3 DEF Net!Sends, Rpc
  <2>6. wire' \in [Net!Links -> Seq(Rpc)]
    BY <2>1, <2>5
  <2>7. buckets' \in [Members -> NetBucket]
    BY <2>1, <2>4
  <2> QED BY <2>2, <2>3, <2>6, <2>7
<1>8. CASE UNCHANGED Net!vars
  BY <1>8 DEF Net!vars
<1> QED BY <1>1, <1>2, <1>3, <1>4, <1>5, <1>6, <1>7, <1>8 DEF Net!Next

Grows == out \subseteq out' /\ \A m \in Members : buckets[m].validated \subseteq buckets'[m].validated

\* What could be heard can be heard ever after.
LEMMA HeardStays ==
  ASSUME Grows, NEW n, NEW v, Flood!Heard(n, v)
  PROVE  Flood!Heard(n, v)'
BY DEF Grows, Flood!Heard

\* The wire keeps to what can be heard, when RPCs are taken off it or ones that
\* can be heard are put on it.
LEMMA WireHeard ==
  ASSUME NetType, NetType', HeardInv, Grows, NEW l \in Net!Links,
         \/ wire'[l] = wire[l]
         \/ wire[l] # <<>> /\ wire'[l] = Tail(wire[l])
         \/ \E rpc \in Rpc : /\ wire'[l] = Append(wire[l], rpc)
                             /\ \A pos \in rpc.positions : Flood!Heard(l[2], pos)',
         NEW i \in 1..Len(wire'[l]), NEW pos \in wire'[l][i].positions
  PROVE  Flood!Heard(l[2], pos)'
<1>1. wire[l] \in Seq(Rpc)
  BY DEF NetType
<1>2. ASSUME NEW j \in 1..Len(wire[l]), wire'[l][i] = wire[l][j]
      PROVE  Flood!Heard(l[2], pos)'
  <2>1. Flood!Heard(l[2], pos)
    BY <1>2 DEF HeardInv
  <2> QED BY <2>1, HeardStays
<1>3. CASE wire'[l] = wire[l]
  BY <1>2, <1>3
<1>4. CASE wire[l] # <<>> /\ wire'[l] = Tail(wire[l])
  <2>1. i + 1 \in 1..Len(wire[l]) /\ wire'[l][i] = wire[l][i + 1]
    BY <1>1, <1>4
  <2> QED BY <1>2, <2>1
<1>5. ASSUME NEW rpc \in Rpc, wire'[l] = Append(wire[l], rpc),
             \A q \in rpc.positions : Flood!Heard(l[2], q)'
      PROVE  Flood!Heard(l[2], pos)'
  <2>1. CASE i \in 1..Len(wire[l])
    <3>1. wire'[l][i] = wire[l][i]
      BY <1>1, <1>5, <2>1
    <3> QED BY <1>2, <2>1, <3>1
  <2>2. CASE i = Len(wire[l]) + 1
    <3>1. wire'[l][i] = rpc
      BY <1>1, <1>5, <2>2
    <3> QED BY <1>5, <3>1
  <2>3. i \in 1..Len(wire[l]) \/ i = Len(wire[l]) + 1
    BY <1>1, <1>5
  <2> QED BY <2>1, <2>2, <2>3
<1> QED BY <1>3, <1>4, <1>5

\* A step at one member n changes what n holds, from what it could hear or what
\* it publishes, and puts on the wire what can be heard.
LEMMA StepKeeps ==
  ASSUME NetType, NetType', NetHeld, HeardInv, Grows,
         \A m \in Members :
           /\ buckets'[m].attestations = buckets'[m].validating \cup buckets'[m].validated
           /\ buckets'[m].validating \cap buckets'[m].validated = {}
           /\ buckets'[m].attestations \subseteq out'
           /\ \A pos \in buckets'[m].validating \ buckets[m].validating : Flood!Heard(m, pos)',
         \A l \in Net!Links :
           \/ wire'[l] = wire[l]
           \/ wire[l] # <<>> /\ wire'[l] = Tail(wire[l])
           \/ \E rpc \in Rpc : /\ wire'[l] = Append(wire[l], rpc)
                               /\ \A pos \in rpc.positions : Flood!Heard(l[2], pos)'
  PROVE  NetHeld' /\ HeardInv'
<1>1. NetHeld'
  BY DEF NetHeld
<1>2. ASSUME NEW n \in Members, NEW pos \in buckets'[n].validating
      PROVE  Flood!Heard(n, pos)'
  <2>1. CASE pos \in buckets[n].validating
    BY <1>2, <2>1, HeardStays DEF HeardInv
  <2>2. CASE pos \notin buckets[n].validating
    BY <1>2, <2>2
  <2> QED BY <2>1, <2>2
<1>3. ASSUME NEW l \in Net!Links, NEW i \in 1..Len(wire'[l]), NEW pos \in wire'[l][i].positions
      PROVE  Flood!Heard(l[2], pos)'
  BY <1>3, WireHeard
<1>4. HeardInv'
  BY <1>2, <1>3 DEF HeardInv
<1> QED BY <1>1, <1>4

-----------------------------------------------------------------------------
(* Every step keeps the invariant and is a step of the flood.              *)

Floods == NetHeld' /\ HeardInv' /\ [Flood!Next]_(Flood!vars)

\* publishLocal: a member's own vote enters the flood.
LEMMA LocalFloods ==
  ASSUME Wired, NetInv, NetType', NEW pos \in Net!Positions, Net!publishLocal(pos)
  PROVE  Floods
<1> DEFINE n == Owner[pos]
<1>1. /\ n \in Members /\ pos \notin out /\ out' = out \cup {pos}
      /\ buckets' = [buckets EXCEPT ![n] = Net!addOwn(@, pos)] /\ wire' = wire
  BY DEF Net!publishLocal
<1>2. buckets \in [Members -> NetBucket] /\ NetHeld /\ HeardInv
  BY DEF NetInv, NetType
<1>3. pos \notin buckets[n].attestations
  BY <1>1, <1>2 DEF NetHeld
<1> HIDE DEF n
<1>4. /\ buckets'[n].attestations = buckets[n].attestations \cup {pos}
      /\ buckets'[n].validating = buckets[n].validating
      /\ buckets'[n].validated = buckets[n].validated \cup {pos}
  BY <1>1, <1>2, <1>3, NetAddOwn
<1>5. \A m \in Members : m # n => buckets'[m] = buckets[m]
  BY <1>1, <1>2
<1>6. NetHeld' /\ HeardInv'
  <2>1. Grows
    BY <1>1, <1>4, <1>5 DEF Grows
  <2>2. \A m \in Members :
          /\ buckets'[m].attestations = buckets'[m].validating \cup buckets'[m].validated
          /\ buckets'[m].validating \cap buckets'[m].validated = {}
          /\ buckets'[m].attestations \subseteq out'
          /\ buckets'[m].validating = buckets[m].validating
    BY <1>1, <1>2, <1>3, <1>4, <1>5 DEF NetHeld
  <2> QED BY <1>1, <1>2, <2>1, <2>2, StepKeeps DEF NetInv
<1>7. Flood!Publish({pos})
  <2>1. \A m \in Members :
          buckets'[m].validated = buckets[m].validated \cup {v \in {pos} : Owner[v] = m}
    BY <1>1, <1>4, <1>5 DEF n
  <2> QED BY <1>1, <2>1 DEF Flood!Publish
<1>8. Flood!Next
  BY <1>7 DEF Flood!Next
<1> QED BY <1>6, <1>8 DEF Floods

\* fanoutPublish: a batch from outside enters the flood, and is heard over the
\* links it was dialed on.
LEMMA FanoutFloods ==
  ASSUME Wired, NetInv, NetType', NEW n \in Peers \ Members, Net!fanoutPublish(n)
  PROVE  Floods
<1> DEFINE batch == {pos \in Net!Positions : Owner[pos] = n}
           rpc == [available |-> {}, requests |-> {}, positions |-> batch]
<1>1. /\ batch # {} /\ batch \cap out = {} /\ out' = out \cup batch
      /\ wire' = [l \in Net!Links |-> IF l[1] # n THEN wire[l] ELSE Append(wire[l], rpc)]
      /\ buckets' = buckets
  BY DEF Net!fanoutPublish
<1>2. \A pos \in batch : Owner[pos] = n /\ pos \in Net!Positions
  OBVIOUS
<1>3. rpc \in Rpc /\ rpc.positions = batch
  BY DEF Rpc
<1> HIDE DEF batch, rpc
<1>4. NetHeld' /\ HeardInv'
  <2>1. Grows
    BY <1>1 DEF Grows
  <2>2. \A m \in Members :
          /\ buckets'[m].attestations = buckets'[m].validating \cup buckets'[m].validated
          /\ buckets'[m].validating \cap buckets'[m].validated = {}
          /\ buckets'[m].attestations \subseteq out'
          /\ buckets'[m].validating = buckets[m].validating
    BY <1>1 DEF NetInv, NetHeld
  <2>3. ASSUME NEW l \in Net!Links, l[1] = n, NEW pos \in batch
        PROVE  Flood!Heard(l[2], pos)'
    <3>1. <<Owner[pos], l[2]>> \in Net!Links
      BY <1>2, <2>3, LinkEnds
    <3>2. pos \in out'
      BY <1>1, <2>3
    <3> QED BY <3>1, <3>2 DEF Flood!Heard
  <2>4. \A l \in Net!Links :
          \/ wire'[l] = wire[l]
          \/ \E r \in Rpc : /\ wire'[l] = Append(wire[l], r)
                            /\ \A pos \in r.positions : Flood!Heard(l[2], pos)'
    BY <1>1, <1>3, <2>3
  <2> QED BY <2>1, <2>2, <2>4, StepKeeps DEF NetInv
<1>5. Flood!Publish(batch)
  <2>1. \A m \in Members : buckets'[m].validated = buckets[m].validated \cup {v \in batch : Owner[v] = m}
    BY <1>1, <1>2
  <2> QED BY <1>1, <1>2, <2>1 DEF Flood!Publish
<1>6. Flood!Next
  BY <1>2, <1>5 DEF Flood!Next
<1> QED BY <1>4, <1>6 DEF Floods

\* onIncomingRPC: what goes to the verifier could be heard; nobody learns yet.
LEMMA ReceiveFloods ==
  ASSUME Wired, NetInv, NetType', NEW l \in Net!Links, Net!onIncomingRPC(l)
  PROVE  Floods
<1> DEFINE n == l[2]
           rpc == Head(wire[l])
           b == Net!addMetadata(buckets[n], l[1], rpc)
<1>1. n \in Members /\ l[1] \in Peers
  BY LinkEnds
<1>2. buckets \in [Members -> NetBucket] /\ wire \in [Net!Links -> Seq(Rpc)] /\ NetHeld /\ HeardInv
  BY DEF NetInv, NetType
<1>3. /\ wire[l] # <<>> /\ wire' = [wire EXCEPT ![l] = Tail(@)] /\ out' = out
      /\ buckets' = [buckets EXCEPT ![n] = Net!addReceived(b, l[1], rpc.positions)]
  BY DEF Net!onIncomingRPC
<1>4. rpc \in Rpc /\ rpc = wire[l][1] /\ 1 \in 1..Len(wire[l])
  BY <1>2, <1>3
<1>5. rpc.positions \in SUBSET Net!Positions
  BY <1>4 DEF Rpc
<1>6. \A pos \in rpc.positions : Flood!Heard(n, pos)
  BY <1>2, <1>4 DEF HeardInv
<1>7. /\ b \in NetBucket /\ b.attestations = buckets[n].attestations
      /\ b.validating = buckets[n].validating /\ b.validated = buckets[n].validated
  BY <1>1, <1>2, <1>4, NetAddMetadata
<1> HIDE DEF n, rpc, b
<1>8. /\ buckets'[n].attestations = buckets[n].attestations \cup rpc.positions
      /\ buckets'[n].validating = buckets[n].validating \cup (rpc.positions \ buckets[n].attestations)
      /\ buckets'[n].validated = buckets[n].validated
  BY <1>1, <1>2, <1>3, <1>5, <1>7, NetAddReceived
<1>9. \A m \in Members : m # n => buckets'[m] = buckets[m]
  BY <1>1, <1>2, <1>3
<1>10. rpc.positions \subseteq out
  BY <1>2, <1>6 DEF Flood!Heard, NetHeld
<1>11. NetHeld' /\ HeardInv'
  <2>1. Grows
    BY <1>3, <1>8, <1>9 DEF Grows
  <2>2. \A m \in Members :
          /\ buckets'[m].attestations = buckets'[m].validating \cup buckets'[m].validated
          /\ buckets'[m].validating \cap buckets'[m].validated = {}
          /\ buckets'[m].attestations \subseteq out'
    BY <1>2, <1>3, <1>8, <1>9, <1>10 DEF NetHeld
  <2>3. ASSUME NEW m \in Members, NEW pos \in buckets'[m].validating \ buckets[m].validating
        PROVE  Flood!Heard(m, pos)'
    <3>1. m = n /\ pos \in rpc.positions
      BY <1>8, <1>9, <2>3
    <3> QED BY <1>6, <2>1, <3>1, HeardStays
  <2>4. \A k \in Net!Links : wire'[k] = wire[k] \/ (wire[k] # <<>> /\ wire'[k] = Tail(wire[k]))
    BY <1>2, <1>3
  <2> QED BY <2>1, <2>2, <2>3, <2>4, StepKeeps DEF NetInv
<1>12. UNCHANGED Flood!vars
  <2>1. \A m \in Members : buckets'[m].validated = buckets[m].validated
    BY <1>8, <1>9
  <2> QED BY <1>3, <2>1 DEF Flood!vars
<1> QED BY <1>11, <1>12 DEF Floods

\* markValidated: the member learns what its bucket still awaited.
LEMMA ValidatedFloods ==
  ASSUME Wired, NetInv, NetType', NEW n \in Members, Net!markValidated(n)
  PROVE  Floods
<1> DEFINE vs == Head(verifyingAt[n]) \cap buckets[n].validating
<1>1. /\ buckets' = [buckets EXCEPT ![n] = Net!promote(@, Head(verifyingAt[n]))]
      /\ out' = out /\ wire' = wire
  BY DEF Net!markValidated
<1>2. buckets \in [Members -> NetBucket] /\ NetHeld /\ HeardInv
  BY DEF NetInv, NetType
<1>3. /\ buckets'[n].attestations = buckets[n].attestations
      /\ buckets'[n].validating = buckets[n].validating \ vs
      /\ buckets'[n].validated = buckets[n].validated \cup vs
  BY <1>1, <1>2, NetPromote
<1>4. \A m \in Members : m # n => buckets'[m] = buckets[m]
  BY <1>1, <1>2
<1>5. vs \subseteq buckets[n].validating /\ vs \subseteq Net!Positions
  BY <1>2 DEF NetBucket
<1> HIDE DEF vs
<1>6. NetHeld' /\ HeardInv'
  <2>1. Grows
    BY <1>1, <1>3, <1>4 DEF Grows
  <2>2. \A m \in Members :
          /\ buckets'[m].attestations = buckets'[m].validating \cup buckets'[m].validated
          /\ buckets'[m].validating \cap buckets'[m].validated = {}
          /\ buckets'[m].attestations \subseteq out'
          /\ buckets'[m].validating \subseteq buckets[m].validating
    BY <1>1, <1>2, <1>3, <1>4, <1>5 DEF NetHeld
  <2> QED BY <1>1, <2>1, <2>2, StepKeeps DEF NetInv
<1>7. CASE vs = {}
  <2>1. \A m \in Members : buckets'[m].validated = buckets[m].validated
    BY <1>3, <1>4, <1>7
  <2>2. UNCHANGED Flood!vars
    BY <1>1, <2>1 DEF Flood!vars
  <2> QED BY <1>6, <2>2 DEF Floods
<1>8. CASE vs # {}
  <2>1. /\ \A v \in vs : Flood!Heard(n, v)
        /\ vs \cap buckets[n].validated = {}
    BY <1>2, <1>5 DEF HeardInv, NetHeld
  <2>2. [m \in Members |-> buckets[m].validated]' =
          [[m \in Members |-> buckets[m].validated] EXCEPT ![n] = @ \cup vs]
    BY <1>3, <1>4
  <2>3. PICK ws \in SUBSET Net!Positions : ws = vs
    BY <1>5
  <2>4. Flood!Learn(n, ws)
    BY <1>1, <1>8, <2>1, <2>2, <2>3 DEF Flood!Learn
  <2>5. Flood!Next
    BY <2>4 DEF Flood!Next
  <2> QED BY <1>6, <2>5 DEF Floods
<1> QED BY <1>7, <1>8

\* tick: only validated positions go on the wire; nobody learns.
LEMMA TickFloods ==
  ASSUME Wired, NetInv, NetType', NEW n \in Members, Net!tick(n)
  PROVE  Floods
<1> DEFINE sts == Net!AddMesh(statesAt[n], Net!MeshOf(n))
<1>1. PICK ord \in ServeOrders, askOrd \in ServeOrders :
        /\ wire' = [l \in Net!Links |-> IF l[1] = n /\ ~Net!Silent(Net!Sends(n, sts, askOrd, ord, l[2]))
                                    THEN Append(wire[l], Net!Sends(n, sts, askOrd, ord, l[2]))
                                    ELSE wire[l]]
        /\ buckets' = [buckets EXCEPT ![n] = Net!served(@, sts, askOrd, ord)]
  BY TickSends
<1>2. out' = out
  BY DEF Net!tick
<1> HIDE DEF sts
<1>3. buckets \in [Members -> NetBucket] /\ NetHeld /\ wire' \in [Net!Links -> Seq(Rpc)]
  BY DEF NetInv, NetType
<1>4. \A m \in Members : /\ buckets'[m].attestations = buckets[m].attestations
                         /\ buckets'[m].validating = buckets[m].validating
                         /\ buckets'[m].validated = buckets[m].validated
  <2>1. /\ buckets'[n].attestations = buckets[n].attestations
        /\ buckets'[n].validating = buckets[n].validating
        /\ buckets'[n].validated = buckets[n].validated
    BY <1>1, <1>3, NetServed
  <2>2. \A m \in Members : m # n => buckets'[m] = buckets[m]
    BY <1>1, <1>3
  <2> QED BY <2>1, <2>2
<1>5. ASSUME NEW l \in Net!Links, wire'[l] # wire[l]
      PROVE  \E rpc \in Rpc : /\ wire'[l] = Append(wire[l], rpc)
                              /\ \A pos \in rpc.positions : Flood!Heard(l[2], pos)'
  <2> DEFINE rpc == Net!Sends(n, sts, askOrd, ord, l[2])
  <2>1. l[1] = n /\ wire'[l] = Append(wire[l], rpc)
    BY <1>1, <1>5
  <2>2. l[2] \in Peers /\ l[2] \in Members /\ <<n, l[2]>> \in Net!Links
    BY <2>1, LinkEnds
  <2>3. rpc.positions = Net!Claims(buckets[n], sts, ord, l[2])
    BY DEF Net!Sends
  <2>4. rpc.positions \subseteq buckets[n].validated
    BY <1>3, <2>2, <2>3, NetClaims
  <2>5. rpc \in Rpc
    <3>1. /\ buckets[n].validated \subseteq Net!Positions
          /\ Net!Asks(buckets[n], sts, askOrd, l[2]) \subseteq Net!Positions
          /\ Net!Advertises(buckets[n], sts, l[2]) \subseteq buckets[n].validated
      BY <1>3, <2>2, NetClaims DEF NetBucket
    <3> QED BY <2>3, <2>4, <3>1 DEF Net!Sends, Rpc
  <2> HIDE DEF rpc
  <2>6. \A pos \in rpc.positions : Flood!Heard(l[2], pos)'
    BY <1>4, <2>2, <2>4 DEF Flood!Heard
  <2> QED BY <2>1, <2>5, <2>6
<1>6. NetHeld' /\ HeardInv'
  <2>1. Grows
    BY <1>2, <1>4 DEF Grows
  <2>2. \A m \in Members :
          /\ buckets'[m].attestations = buckets'[m].validating \cup buckets'[m].validated
          /\ buckets'[m].validating \cap buckets'[m].validated = {}
          /\ buckets'[m].attestations \subseteq out'
    BY <1>2, <1>3, <1>4 DEF NetHeld
  <2> QED BY <1>4, <1>5, <2>1, <2>2, StepKeeps DEF NetInv
<1>7. UNCHANGED Flood!vars
  BY <1>2, <1>4 DEF Flood!vars
<1> QED BY <1>6, <1>7 DEF Floods

\* A lost RPC, a heartbeat and a stutter change nothing the flood speaks of.
LEMMA OthersFlood ==
  ASSUME Wired, NetInv, NetType',
         \/ \E l \in Net!Links : Net!drop(l) \/ Net!onEmitGossip(l)
         \/ UNCHANGED Net!vars
  PROVE  Floods
<1>1. UNCHANGED <<buckets, out>>
  BY DEF Net!drop, Net!onEmitGossip, Net!vars
<1>2. \A k \in Net!Links : wire'[k] = wire[k] \/ (wire[k] # <<>> /\ wire'[k] = Tail(wire[k]))
  BY DEF Net!drop, Net!onEmitGossip, Net!vars, NetInv, NetType
<1>3. NetHeld' /\ HeardInv'
  <2>1. Grows
    BY <1>1 DEF Grows
  <2>2. NetHeld'
    BY <1>1 DEF NetInv, NetHeld
  <2>3. \A m \in Members :
          /\ buckets'[m].attestations = buckets'[m].validating \cup buckets'[m].validated
          /\ buckets'[m].validating \cap buckets'[m].validated = {}
          /\ buckets'[m].attestations \subseteq out'
    BY <2>2 DEF NetHeld
  <2> QED BY <1>1, <1>2, <2>1, <2>3, StepKeeps DEF NetInv
<1>4. UNCHANGED Flood!vars
  BY <1>1 DEF Flood!vars
<1> QED BY <1>3, <1>4 DEF Floods

\* The managers of node/partial.go, for every set of members, links, caps and
\* order of serving, and whatever is lost: a member learns a vote only from a
\* neighbour that had verified or published it, and only once.
THEOREM TransportIsFlood == Wired => (Net!Spec => Flood!Safety)
<1> SUFFICES ASSUME Wired PROVE Net!Spec => Flood!Safety
  OBVIOUS
<1>1. Net!Init => Flood!Init
  BY NetNewBucket DEF Net!Init, Flood!Init
<1>2. NetInv /\ [Net!Next]_(Net!vars) => NetInv' /\ [Flood!Next]_(Flood!vars)
  <2> SUFFICES ASSUME NetInv, [Net!Next]_(Net!vars) PROVE NetInv' /\ [Flood!Next]_(Flood!vars)
    OBVIOUS
  <2>1. NetType'
    BY NetNextType DEF NetInv
  <2>2. Floods
    BY <2>1, LocalFloods, FanoutFloods, ReceiveFloods, ValidatedFloods, TickFloods, OthersFlood
    DEF Net!Next
  <2> QED BY <2>1, <2>2 DEF NetInv, Floods
<1> QED BY <1>1, <1>2, NetInit, PTL DEF Net!Spec, Flood!Safety
==============================================================================
