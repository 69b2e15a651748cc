CONSTANTS
  h1 = h1
  h2 = h2
  far = far
  Hosts = {h1, h2, far}
  NextHop <- Topology
  Nowhere = Nowhere
  Self = Self
  MaxPackets = 3
  MaxRequests = 1
SPECIFICATION FairSpec
INVARIANTS
  PacketsKept
  FlowOrder
PROPERTIES
  QueuedLeaves
CHECK_DEADLOCK FALSE
