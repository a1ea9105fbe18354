SPECIFICATION ModelSpec
CONSTANTS
  w = w x = x y = y p = p u = u
  Groups <- FiveGroups
  Value = {0, 1}
  MaxTime = 2
INVARIANTS InputsApplied BusAtModelTime ClocksAgree MeasuredAtTime
