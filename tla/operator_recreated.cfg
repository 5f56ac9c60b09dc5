SPECIFICATION OperatorSpec
CONSTANTS
  Owners = {"Config"}
  MaxEdits = 3
  MaxMishaps = 0
PROPERTY DesiredStateReached
