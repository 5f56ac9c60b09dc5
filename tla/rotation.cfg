SPECIFICATION RotationSpec
CONSTANTS
  p1 = p1
  p2 = p2
  Pod <- TwoPods
  Limits <- UpToThree
  MaxGen = 5
  MaxExits = 2
  MaxEdits = 2
INVARIANTS
  RotationTypeOK
  ArchivesOrdered
  KeepsUpToLimit
