SPECIFICATION Spec
CONSTANTS
  VarTypes = {"Real", "Integer", "Boolean", "String", "absent"}
  Causalities = {"input", "output", "inout", "parameter", "local", "absent", "other"}
  MaxSignals = 3
INVARIANTS SortCorrect TablePartitions MeasuredExact
