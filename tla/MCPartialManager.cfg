CONSTANTS
  Peers <- TwoPeers
  RequestsPartial <- TwoPeers
  Mesh <- OnePeer
  MaxPeers = 1
  MaxIWant = 1
  Keys <- OneKey
  KindOf <- TopicKinds
  Size <- OneSize
  Datas = {"d", "e"}
  Own <- OwnVote
  Envelopes <- OneEnvelopes
  DisableGossip = FALSE
SPECIFICATION MCSpec
CHECK_DEADLOCK FALSE
INVARIANTS SentOncePerPeer ArrivesOnce ValidatingIsQueued PrunedStaysPruned
PROPERTIES PeersServed
