CONSTANTS
  Peers = {1, 2, 3, 4}
  RequestsPartial = {1, 2, 3, 4}
  MaxPeers = 1
  MaxIWant = 1
  Members = {1, 2, 3}
  MeshLinks <- Line
  GossipLinks <- Ends
  FanoutLinks <- Dialed
  Width = 2
  Owner <- MiddleAndOutside
  ServeOrders <- UpDown
  MaxLoss = 0
SPECIFICATION MCSpec
CHECK_DEADLOCK FALSE
PROPERTIES AllFlood AllDelivered
