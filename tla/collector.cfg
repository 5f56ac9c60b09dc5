SPECIFICATION CollectorSpec
CONSTANTS
  c1 = c1
  p1 = p1
  p2 = p2
  Cluster <- OnlyC1
  Pod <- TwoPods
  ClusterOf <- AllInC1
  SaltOf <- OneSalt
  HmacSalt = "salt"
  NodesPerFrame = 2
  MaxNodes = 3
  MaxEpoch = 3
  MaxSeq = 2
  MaxFaults = 2
INVARIANTS
  CollectorTypeOK
  SlicesDisjoint
  CycleComplete
  MsgIdsIncrease
