SPECIFICATION OperatorSpec
CONSTANTS
  Owners = {"CSV", "Config"}
  MaxEdits = 3
  MaxMishaps = 1
INVARIANTS
  OperatorTypeOK
  DeploymentHasSalt
PROPERTIES
  SaltKept
  Converges
