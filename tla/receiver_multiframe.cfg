SPECIFICATION Spec
CONSTANTS
  a = a
  b = b
  c = c
  w1 = w1
  w2 = w2
  stray = stray
  Cluster <- ABC
  Worker <- OneWorker
  Noise <- Stray
  Traffics <- OneLargeCluster
  SaltOf <- Salts
  HmacSalt = "salt"
  NodesPerFrame = 2
  MaxNodes = 5
  MaxEpoch = 2
  MaxSeq = 1
  MaxRepeats = 0
  MaxMishaps = 0
INVARIANT CompleteVerifies
