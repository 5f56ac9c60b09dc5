SPECIFICATION Spec
CONSTANTS
  a = a
  b = b
  c = c
  w1 = w1
  w2 = w2
  stray = stray
  Cluster <- ABC
  Worker <- TwoWorkers
  Noise <- Stray
  Traffics <- AllTraffics
  SaltOf <- Salts
  HmacSalt = "salt"
  NodesPerFrame = 2
  MaxNodes = 5
  MaxEpoch = 2
  MaxSeq = 1
  MaxRepeats = 1
  MaxMishaps = 1
INVARIANTS
  ReceiverTypeOK
  NothingCompleteWaits
  VerifiedIsWholeSnapshot
  FrameLoggedOnce
  LoggedIdsListed
  IdRepeatsBounded
PROPERTY AcceptedUntilLogged
