SPECIFICATION Spec
CONSTANTS
  t1 = t1 t2 = t2 r1 = r1 r2 = r2 can = can pdu = pdu u = u v = v w = w
  NULL = NULL
  NoNumber = NoNumber
  OutOfRange = OutOfRange
  RxBox = {r1, r2}
  TxBox = {t1, t2}
  Item = {}
  TxList <- TwoTx
  RxList <- TwoRx
  Mime <- NetMime
  Codecs = {can, pdu}
  FrameTypes = {can}
  Frame = {a, b}
  Input = {u, v}
  Value = {0, 1, 2, 3}
  Start <- StartValue
  Headers <- CsvHeaders
  Lines <- CsvLines
  MaxLines = 3
  MaxSteps = 3
  MaxEmit = 2
CONSTRAINT OneAtATime
INVARIANTS LoopbackExact SamplesOnTime
