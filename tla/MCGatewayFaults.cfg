SPECIFICATION Spec
CONSTANTS
  Models = {m1, m2}
  AttachMayFail = TRUE
  CreateMayFail = TRUE
SYMMETRY ModelSymmetry
INVARIANTS TypeOK GatewayProtocol ScriptOrder
