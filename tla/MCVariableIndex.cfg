SPECIFICATION Spec
CONSTANTS
  NULL = NULL
  Documents <- MCDocuments
  Supported = {"can", "pdu"}
  Traced = {"pdu"}
  Value = {0, 1}
INVARIANTS SlotsCounted ExchangeExact CodecsAgree CodecsReleased
