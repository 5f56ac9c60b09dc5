SPECIFICATION TestedSpec
CONSTANTS
  a = a
  b = b
  Cluster <- All
  SaltOf <- SameSalt
  HmacSalt = "salt"
  NodesPerFrame = 2
  MaxNodes = 7
  MaxEpoch = 3
  MaxSeq = 1
  Day <- EveryDay
  Logs <- Directories
  BackupRetention = 2
  Retention = 1
  FirstDay = 2
  MaxRuns = 3
  MaxEvents = 2
INVARIANTS
  DedupTypeOK
  HeaderOwnsNodes
  RolesAndMacTogether
  KeepsLatestSnapshot
  LastGoodSurvives
  TestScenario
