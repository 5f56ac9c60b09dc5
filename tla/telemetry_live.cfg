SPECIFICATION FairSpec
CONSTANTS
  a = a
  b = b
  pa = pa
  pa2 = pa2
  pb = pb
  w1 = w1
  w2 = w2
  Cluster <- OnlyA
  Pod <- TwoPodsOfA
  ClusterOf <- Home
  Worker <- OneWorker
  Noise <- NoNoise
  SaltOf <- SameSalt
  HmacSalt = "salt"
  NodesPerFrame = 2
  MaxNodes = 1
  MaxEpoch = 2
  MaxSeq = 2
  MaxFaults = 1
  MaxRepeats = 0
  MaxMishaps = 1
  MaxLosses = 0
PROPERTY
  TakenIsRecorded
