SPECIFICATION Spec
CONSTANTS
  NULL = NULL
  Channel = {"ch1", "ch2", "ch3", "net"}
  Signal = {"x", "y", "z", "can", "pdu"}
  Documents <- Folders
  Filters <- NameFilters
  StackChannel <- FourChannels
  Value = {0, 1}
  Frame = {f, g}
  MaxFrames = 2
  UserEnv <- EnvOfUser
  StackEnv <- EnvOfStack
  Instance <- ThreeInstances
  Upper <- UpperNames
INVARIANTS DirectSlots VariableExact NetworkExact EnvironmentScoped
