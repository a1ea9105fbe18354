SPECIFICATION Spec
CONSTANTS
  Models = {m1, m2}
  AttachMayFail = FALSE
  CreateMayFail = FALSE
INVARIANT StepStatusHonest
