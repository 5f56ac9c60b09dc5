SPECIFICATION FairSpec
CONSTANTS
  a = a
  b = b
  pa = pa
  pa2 = pa2
  pb = pb
  w1 = w1
  w2 = w2
  Cluster <- AB
  Pod <- OnePodEach
  ClusterOf <- Home
  Worker <- OneWorker
  Noise <- NoNoise
  SaltOf <- SameSalt
  HmacSalt = "salt"
  NodesPerFrame = 2
  MaxNodes = 1
  MaxEpoch = 1
  MaxSeq = 1
  MaxFaults = 1
  MaxRepeats = 1
  MaxMishaps = 1
  MaxLosses = 1
PROPERTIES
  RefinesAudit
  SentIsRecorded
