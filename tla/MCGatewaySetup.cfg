SPECIFICATION Spec
CONSTANTS
  NULL = NULL
  Fmus <- MCFmus
  Environments <- MCEnvironments
  Text <- MCText
  Real <- MCReal
  MaxFrames = 2
  MaxInstances = 2
INVARIANTS ScriptEnvironment SimerCommandHonoured ModelsStarted ValuesDelivered
