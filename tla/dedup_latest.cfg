SPECIFICATION DedupSpec
CONSTANTS
  a = a
  b = b
  Cluster <- All
  SaltOf <- SameSalt
  HmacSalt = "salt"
  NodesPerFrame = 2
  MaxNodes = 7
  MaxEpoch = 3
  MaxSeq = 1
  Day <- TwoDays
  Logs <- Growing
  BackupRetention = 2
  Retention = 9
  FirstDay = 2
  MaxRuns = 1
  MaxEvents = 0
INVARIANT LatestStateKept
