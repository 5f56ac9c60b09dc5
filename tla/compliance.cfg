SPECIFICATION ReportingSpec
CONSTANTS
  Cluster <- OneToThree
  Id <- OneToThree
  Cases <- CasesUsed
  Pool <- Groups
  Key <- AnyGroup
  MaxRuns = 1
  MaxKills = 1
  MaxImports = 1
INVARIANTS
  ComplianceTypeOK
  TotalsMatchInput
  OwnVersion
  TermsShareADay
  OldestFirst
  GreenIffCovered
  GapIsColoured
  CutMisleadsOnlyLast
PROPERTY ColoursAsAllocated
