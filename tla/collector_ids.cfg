SPECIFICATION CollectorSpec
CONSTANTS
  c1 = c1
  p1 = p1
  p2 = p2
  Cluster <- OnlyC1
  Pod <- TwoPods
  ClusterOf <- AllInC1
  SaltOf <- OneSalt
  HmacSalt = "salt"
  NodesPerFrame = 2
  MaxNodes = 3
  MaxEpoch = 2
  MaxSeq = 3
  MaxFaults = 0
INVARIANT IdsUnique
