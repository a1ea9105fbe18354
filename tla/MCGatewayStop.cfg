SPECIFICATION FairSpec
CONSTANTS
  Models = {m1, m2}
  AttachMayFail = FALSE
  CreateMayFail = TRUE
INVARIANTS TransportLast NoneLeftRunning
PROPERTY SessionShutsDown
