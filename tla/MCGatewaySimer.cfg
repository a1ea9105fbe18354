SPECIFICATION Spec
CONSTANTS
  NULL = NULL
  Fmus <- MCGenerated
  Environments <- MCEnvironments
  Text <- MCText
  Real <- MCReal
  MaxFrames = 2
  MaxInstances = 1
INVARIANT SimerCommandHonoured
