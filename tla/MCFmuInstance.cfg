SPECIFICATION Spec
CONSTANTS
  r1 = r1 r2 = r2 t1 = t1 t2 = t2 s1 = s1 s2 = s2 s3 = s3
  NULL = NULL
  RxVRef = {r1, r2}
  TxVRef = {t1, t2}
  StrVRef = {w}
  Signal = {s1, s2, s3}
  RxSig <- BusRxSig
  TxSig <- OwnTxSig
  NCodec = {s1, s2}
  Encoded = {r1, t1}
  Frame = {a, b}
  Input = {i1}
  Output = {o1}
  Value = {0, 1}
  Text = {x}
  Ptr = {p1, p2}
  MaxFrames = 2
CONSTRAINT OneAtATime
INVARIANTS TypeOK StepDelivery OutputsFresh StringsOwned ScalarsCoherent
PROPERTIES GetReturnsOutputs MailboxSpec
