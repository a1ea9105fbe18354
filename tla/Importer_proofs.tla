--------------------------- MODULE Importer_proofs ---------------------------
(***************************************************************************)
(* Proofs about Importer: the loopback for every set of variables, MIME    *)
(* types and frames, the stimulus for every CSV file, both for any number  *)
(* of steps.                                                               *)
(***************************************************************************)
EXTENDS Importer, FlattenLemmas, FiniteSetTheorems

(***************************************************************************)
(* The bus.                                                                *)
(***************************************************************************)

(* All MIME types have a codec.  Without this the first variable that uses *)
(* the network can leave it without one.                                   *)
Supported == \A x \in TxBox \cup RxBox : Mime[x] # NULL => Mime[x] \in Codecs

StreamType == Streams(BusFrame)

BusOk(b) ==
  /\ b \in [found : BOOLEAN, nc : BOOLEAN, stream : StreamType]
  /\ b.nc = b.found
  /\ ~b.found => b.stream = EmptyStream

LEMMA EmptyBus == BusOk(NoSignal) /\ NoSignal.stream.data = << >>
<1>1. EmptyStream \in StreamType /\ EmptyStream.data = << >>
  BY EmptySeq DEF EmptyStream, StreamType, Streams
<1> QED  BY <1>1 DEF BusOk, NoSignal

(* Once found, the signal has a codec, and its stream is that of before.   *)
LEMMA GetSignal ==
  ASSUME NEW b, BusOk(b), NEW mime \in Codecs
  PROVE  LET n == get_network_signal(b, mime)
         IN BusOk(n) /\ n.found /\ n.nc /\ n.stream = b.stream
<1>1. CASE b.found
  BY <1>1 DEF get_network_signal, BusOk
<1>2. CASE ~b.found
  <2>1. get_network_signal(b, mime) = [found |-> TRUE, nc |-> TRUE, stream |-> EmptyStream]
    BY <1>2 DEF get_network_signal
  <2>2. EmptyStream \in StreamType
    BY EmptySeq DEF EmptyStream, StreamType, Streams
  <2> QED  BY <1>2, <2>1, <2>2 DEF BusOk
<1> QED  BY <1>1, <1>2

LEMMA AppendBus ==
  ASSUME NEW b, BusOk(b), b.found, NEW d \in Seq(BusFrame)
  PROVE  BusOk(AppendToBus(b, d)) /\ AppendToBus(b, d).stream.data = b.stream.data \o d
<1> DEFINE st == b.stream
           L == Len(st.data)
           w == StreamWrite(StreamSeek(st, 0, "SEEK_END"), d)
<1>1. st \in StreamType /\ st.data \in Seq(BusFrame) /\ L \in Nat
  BY LenProperties DEF BusOk, StreamType, Streams
<1> HIDE DEF st
<1>2. StreamSeek(st, 0, "SEEK_END") = [data |-> st.data, pos |-> L]
  BY DEF StreamSeek, At
<1>3. w = [data |-> SubSeq(st.data, 1, L) \o d, pos |-> L + Len(d)]
  <2> DEFINE z == [data |-> st.data, pos |-> L]
  <2>1. z.data = st.data /\ z.pos = L  OBVIOUS
  <2>2. w = StreamWrite(z, d)  BY <1>2
  <2> HIDE DEF z, L
  <2>3. ClampPos(z, z.pos) = L  BY <1>1, <2>1 DEF ClampPos, L
  <2> QED  BY <2>1, <2>2, <2>3 DEF StreamWrite
<1> DEFINE D == st.data \o d
           P == L + Len(d)
<1>4. w = [data |-> D, pos |-> P]
  BY <1>1, <1>3, SubSeqFull
<1>5. D \in Seq(BusFrame) /\ P \in Nat
  BY <1>1, ConcatProperties, LenProperties
<1> HIDE DEF D, P
<1>6. w \in StreamType /\ w.data = D
  BY <1>4, <1>5 DEF StreamType, Streams
<1> HIDE DEF w
<1>7. AppendToBus(b, d) = [b EXCEPT !.stream = w]
  BY DEF AppendToBus, BusOk, st, w
<1> QED  BY <1>6, <1>7 DEF BusOk, st, D

LEMMA InjectBus ==
  ASSUME NEW b, BusOk(b), NEW mime \in Codecs, NEW f \in BusFrame
  PROVE  LET c == network_inject_frame(b, mime, f)
         IN BusOk(c) /\ c.stream.data = b.stream.data \o <<f>>
<1> DEFINE n == get_network_signal(b, mime)
<1>1. BusOk(n) /\ n.found /\ n.stream = b.stream
  BY GetSignal
<1>2. <<f>> \in Seq(BusFrame)
  OBVIOUS
<1> HIDE DEF n
<1>3. BusOk(AppendToBus(n, <<f>>)) /\ AppendToBus(n, <<f>>).stream.data = n.stream.data \o <<f>>
  BY <1>1, <1>2, AppendBus
<1> QED  BY <1>1, <1>3 DEF network_inject_frame, n

LEMMA PushBus ==
  ASSUME NEW b, BusOk(b), NEW mime \in Codecs, NEW d \in Seq(BusFrame)
  PROVE  LET c == network_push(b, mime, d)
         IN /\ BusOk(c)
            /\ c.stream.data = IF signal_bus_enabled THEN b.stream.data \o d ELSE b.stream.data
<1> DEFINE n == get_network_signal(b, mime)
<1>1. BusOk(n) /\ n.found /\ n.stream = b.stream
  BY GetSignal
<1>2. b.stream.data \in Seq(BusFrame)
  BY DEF BusOk, StreamType, Streams
<1>3. CASE d = << >>
  <2>1. b.stream.data \o d = b.stream.data  BY <1>2, <1>3, ConcatEmptySeq
  <2> QED  BY <1>3, <2>1 DEF network_push
<1> HIDE DEF n
<1>4. CASE d # << >> /\ signal_bus_enabled
  <2>1. BusOk(AppendToBus(n, d)) /\ AppendToBus(n, d).stream.data = n.stream.data \o d
    BY <1>1, AppendBus
  <2> QED  BY <1>1, <1>4, <2>1 DEF network_push, n
<1>5. CASE d # << >> /\ ~signal_bus_enabled
  BY <1>1, <1>5 DEF network_push, n
<1> QED  BY <1>3, <1>4, <1>5

(* A pull reads the whole bus and leaves it as it is.                      *)
LEMMA PullBus ==
  ASSUME NEW b, BusOk(b), NEW mime \in Codecs
  PROVE  /\ BusOk(Rewound(b, mime)) /\ Rewound(b, mime).stream.data = b.stream.data
         /\ network_pull(b, mime) = b.stream.data
<1> DEFINE n == get_network_signal(b, mime)
           D == b.stream.data
           z == [data |-> D, pos |-> 0]
<1>1. BusOk(n) /\ n.nc /\ n.stream = b.stream
  BY GetSignal
<1>2. D \in Seq(BusFrame) /\ Len(D) \in Nat
  BY LenProperties DEF BusOk, StreamType, Streams
<1>3. StreamSeek(b.stream, 0, "SEEK_SET") = z
  BY <1>2 DEF StreamSeek, At, ClampPos
<1>4. z \in StreamType /\ z.data = D /\ z.pos = 0
  BY <1>2 DEF StreamType, Streams
<1> HIDE DEF n, z, D
<1>5. Rewound(b, mime) = [n EXCEPT !.stream = z]
  BY <1>1, <1>3 DEF Rewound, n
<1>6. BusOk([n EXCEPT !.stream = z]) /\ [n EXCEPT !.stream = z].stream = z /\ [n EXCEPT !.stream = z].nc
  BY <1>1, <1>4 DEF BusOk
<1>7. StreamReadData(z) = D
  <2>1. CASE Len(D) = 0
    <3>1. D = << >>  BY <1>2, <2>1, EmptySeq
    <3> QED  BY <1>4, <2>1, <3>1 DEF StreamReadData
  <2>2. CASE Len(D) # 0
    <3>1. StreamReadData(z) = SubSeq(D, 0 + 1, Len(D))
      BY <1>2, <1>4, <2>2 DEF StreamReadData
    <3>2. 0 + 1 = 1  OBVIOUS
    <3> QED  BY <1>2, <3>1, <3>2, SubSeqFull
  <2> QED  BY <2>1, <2>2
<1>8. network_pull(b, mime) = StreamReadData(z)
  BY <1>5, <1>6 DEF network_pull
<1> QED  BY <1>4, <1>5, <1>6, <1>7, <1>8 DEF D

LEMMA TruncateBus ==
  ASSUME NEW b, BusOk(b)
  PROVE  BusOk(network_truncate(b)) /\ network_truncate(b).stream.data = << >>
<1>1. EmptyStream \in StreamType /\ EmptyStream.data = << >>
  BY EmptySeq DEF EmptyStream, StreamType, Streams
<1>2. CASE b.found
  <2>1. network_truncate(b) = [b EXCEPT !.stream = EmptyStream]
    BY <1>2 DEF network_truncate, StreamSeek, BusOk
  <2> QED  BY <1>1, <2>1 DEF BusOk
<1>3. CASE ~b.found
  BY <1>1, <1>3 DEF network_truncate, BusOk
<1> QED  BY <1>2, <1>3
-----------------------------------------------------------------------------
(***************************************************************************)
(* The variables, the texts and what the inputs shall get.                 *)
(***************************************************************************)
LEMMA TxFacts ==
  /\ Len(TxList) \in Nat /\ \A n \in 1 .. Len(TxList) : TxList[n] \in TxBox
  /\ \A m, n \in 1 .. Len(TxList) : TxList[m] = TxList[n] => m = n
  /\ \A t \in TxBox : \E n \in 1 .. Len(TxList) : TxList[n] = t
<1>1. TxList \in Seq(TxBox) /\ IsInjective(TxList) /\ {TxList[n] : n \in DOMAIN TxList} = TxBox
  BY ImporterAssumption
<1>2. Len(TxList) \in Nat /\ DOMAIN TxList = 1 .. Len(TxList)
  BY <1>1, LenProperties
<1> QED  BY <1>1, <1>2, ElementOfSeq DEF IsInjective

LEMMA RxFacts ==
  /\ Len(RxList) \in Nat /\ \A n \in 1 .. Len(RxList) : RxList[n] \in RxBox
  /\ \A m, n \in 1 .. Len(RxList) : RxList[m] = RxList[n] => m = n
  /\ \A r \in RxBox : \E n \in 1 .. Len(RxList) : RxList[n] = r
<1>1. RxList \in Seq(RxBox) /\ IsInjective(RxList) /\ {RxList[n] : n \in DOMAIN RxList} = RxBox
  BY ImporterAssumption
<1>2. Len(RxList) \in Nat /\ DOMAIN RxList = 1 .. Len(RxList)
  BY <1>1, LenProperties
<1> QED  BY <1>1, <1>2, ElementOfSeq DEF IsInjective

(* The text of some frames, NULL for none.                                 *)
Text(d) == IF d = << >> THEN NULL ELSE dse_ascii85_encode(d)

LEMMA TextFacts ==
  ASSUME NEW d \in Seq(BusFrame)
  PROVE  /\ Text(d) = NULL <=> d = << >>
         /\ d # << >> => dse_ascii85_decode(Text(d)) = d
<1>1. [form |-> "ascii85", data |-> d] \in [form : {"ascii85"}, data : Seq(BusFrame)]
  OBVIOUS
<1>2. dse_ascii85_encode(d) # NULL
  BY <1>1, ImporterAssumption DEF dse_ascii85_encode
<1> QED  BY <1>2 DEF Text, dse_ascii85_encode, dse_ascii85_decode

(* One more output.                                                        *)
LEMMA LoopbackNext ==
  ASSUME NEW sent \in [TxBox -> Seq(BusFrame)], NEW n \in 1 .. Len(TxList)
  PROVE  /\ LoopbackUpTo(n - 1, sent) \in Seq(BusFrame)
         /\ LoopbackUpTo(n, sent) \in Seq(BusFrame)
         /\ LoopbackUpTo(n, sent) = LoopbackUpTo(n - 1, sent)
              \o (IF Mime[TxList[n]] = NULL THEN << >> ELSE sent[TxList[n]])
<1> DEFINE x(m) == IF Mime[TxList[m]] = NULL THEN << >> ELSE sent[TxList[m]]
           p == [m \in 1 .. n - 1 |-> x(m)]
           q == [m \in 1 .. n |-> x(m)]
           s == x(n)
<1>1. \A m \in 1 .. Len(TxList) : x(m) \in Seq(BusFrame)
  BY TxFacts, EmptySeq
<1>2. n \in Nat /\ n - 1 \in Nat /\ \A m \in 1 .. n : m \in 1 .. Len(TxList)
  BY TxFacts
<1>3. q[n] = s /\ s \in Seq(BusFrame) /\ \A m \in 1 .. n - 1 : p[m] = q[m]
  BY <1>1, <1>2
<1>4. /\ \A m \in 1 .. n : x(m) \in Seq(BusFrame)
      /\ \A m \in 1 .. n - 1 : x(m) \in Seq(BusFrame)
  BY <1>1, <1>2
<1> HIDE DEF x
<1>5. p \in [1 .. n - 1 -> Seq(BusFrame)] /\ q \in [1 .. n -> Seq(BusFrame)]
  BY <1>4
<1> HIDE DEF p, q, s
<1>6. p \in Seq(Seq(BusFrame)) /\ Len(p) = n - 1 /\ q \in Seq(Seq(BusFrame)) /\ Len(q) = n
  BY <1>2, <1>5
<1>7. q = Append(p, s)
  <2> DEFINE a == Append(p, s)
  <2>1. /\ a \in Seq(Seq(BusFrame)) /\ Len(a) = Len(p) + 1 /\ a[Len(p) + 1] = s
        /\ \A m \in 1 .. Len(p) : a[m] = p[m]
    BY <1>3, <1>6, AppendProperties
  <2> HIDE DEF a
  <2>2. Len(a) = n /\ \A m \in 1 .. n : a[m] = q[m]
    <3>1. Len(p) + 1 = n  BY <1>2, <1>6
    <3>2. ASSUME NEW m \in 1 .. n  PROVE a[m] = q[m]
      <4>1. CASE m = n  BY <1>3, <2>1, <3>1, <4>1
      <4>2. CASE m # n
        <5>1. m \in 1 .. n - 1  BY <1>2, <4>2
        <5> QED  BY <1>3, <1>6, <2>1, <5>1
      <4> QED  BY <4>1, <4>2
    <3> QED  BY <2>1, <3>1, <3>2
  <2>3. Len(a) = Len(q) /\ \A m \in 1 .. Len(a) : a[m] = q[m]
    BY <1>6, <2>2
  <2>4. a = q
    BY <1>6, <2>1, <2>3, SeqEqual
  <2> QED  BY <2>4 DEF a
<1>8. FlattenSeq(q) = FlattenSeq(p) \o s
  BY <1>3, <1>6, <1>7, FlattenAppend
<1>9. FlattenSeq(p) \in Seq(BusFrame) /\ FlattenSeq(q) \in Seq(BusFrame)
  BY <1>6, FlattenType
<1> QED  BY <1>8, <1>9 DEF LoopbackUpTo, p, q, s, x

LEMMA LoopbackStart ==
  ASSUME NEW sent  PROVE LoopbackUpTo(0, sent) = << >>
<1>1. [m \in 1 .. 0 |-> IF Mime[TxList[m]] = NULL THEN << >> ELSE sent[TxList[m]]] = << >>
  OBVIOUS
<1> QED  BY <1>1, FlattenEmpty DEF LoopbackUpTo

(* What every input with a MIME type shall get.                            *)
Expected ==
  (IF signal_bus_enabled THEN LoopbackUpTo(Len(TxList), emitted) ELSE << >>)
    \o InjectedFrames(step + 1)

LEMMA LoopbackType ==
  ASSUME emitted \in [TxBox -> Seq(BusFrame)], step \in Nat
  PROVE  /\ LoopbackUpTo(Len(TxList), emitted) \in Seq(BusFrame)
         /\ Injected(step + 1) \in BusFrame
         /\ Expected \in Seq(BusFrame)
<1>1. LoopbackUpTo(Len(TxList), emitted) \in Seq(BusFrame)
  <2>1. CASE Len(TxList) = 0
    <3>1. LoopbackUpTo(0, emitted) = << >>  BY LoopbackStart
    <3> QED  BY <2>1, <3>1, EmptySeq
  <2>2. CASE Len(TxList) # 0
    <3>1. Len(TxList) \in 1 .. Len(TxList)  BY <2>2, TxFacts
    <3> QED  BY <3>1, LoopbackNext
  <2> QED  BY <2>1, <2>2
<1>2. Injected(step + 1) \in BusFrame
  BY DEF Injected, BusFrame
<1>3. InjectedFrames(step + 1) \in Seq(BusFrame)
  <2>1. <<Injected(step + 1)>> \in Seq(BusFrame) /\ << >> \in Seq(BusFrame)
    BY <1>2
  <2> QED  BY <2>1 DEF InjectedFrames
<1>4. Expected \in Seq(BusFrame)
  <2>1. << >> \in Seq(BusFrame)  OBVIOUS
  <2> QED  BY <1>1, <1>3, <2>1, ConcatProperties DEF Expected
<1> QED  BY <1>1, <1>2, <1>4

LEMMA FlattenOne ==
  ASSUME NEW X, NEW s \in Seq(X)
  PROVE  FlattenSeq(Append(<< >>, s)) = s
<1>1. << >> \in Seq(Seq(X))
  BY EmptySeq
<1>2. FlattenSeq(Append(<< >>, s)) = FlattenSeq(<< >>) \o s
  BY <1>1, FlattenAppend
<1> QED  BY <1>2, FlattenEmpty, ConcatEmptySeq
-----------------------------------------------------------------------------
(***************************************************************************)
(* The inductive invariant of the loopback.                                *)
(***************************************************************************)
LoopType ==
  /\ step \in Nat /\ signal_bus_enabled \in BOOLEAN
  /\ emitted \in [TxBox -> Seq(BusFrame)]
  /\ outbox \in [TxBox -> Seq(Seq(BusFrame))]
  /\ inbox \in [RxBox -> Seq(Seq(BusFrame))]
  /\ DOMAIN val_tx = TxBox /\ DOMAIN val_rx = RxBox
  /\ BusOk(bus)

(* What the FMU's outbox holds is what it sent in the step.                *)
OutInv ==
  pc \in {"step", "get"} =>
    \A t \in TxBox : /\ FlattenSeq(outbox[t]) = emitted[t]
                     /\ outbox[t] = << >> <=> emitted[t] = << >>

(* The texts of the outputs wait to be pushed, from output i on.           *)
TxInv ==
  /\ pc \in {"main", "inst", "setup", "samples"} =>
       \A t \in TxBox : val_tx[t] = Text(emitted[t])
  /\ pc = "push" =>
       \A n \in 1 .. Len(TxList) : n >= i => val_tx[TxList[n]] = Text(emitted[TxList[n]])

(* The bus holds what the outputs before i sent.                           *)
PushInv ==
  pc = "push" =>
    /\ i \in 1 .. Len(TxList) + 1
    /\ bus.stream.data = IF signal_bus_enabled THEN LoopbackUpTo(i - 1, emitted) ELSE << >>

RxText(r) == IF Mime[r] = NULL THEN NULL ELSE Text(Expected)

(* The inputs before i have the text of the bus.                           *)
PullInv ==
  pc = "pull" =>
    /\ i \in 1 .. Len(RxList) + 1
    /\ bus.stream.data = Expected
    /\ \A n \in 1 .. Len(RxList) :
         val_rx[RxList[n]] = IF n < i THEN RxText(RxList[n]) ELSE NULL

(* The FMU has the frames of the inputs before i.                          *)
SetInv ==
  pc = "set" =>
    /\ i \in 1 .. Len(RxList) + 1
    /\ \A n \in 1 .. Len(RxList) :
         IF n < i
         THEN /\ val_rx[RxList[n]] = NULL
              /\ FlattenSeq(inbox[RxList[n]]) = IF Mime[RxList[n]] = NULL THEN << >> ELSE Expected
         ELSE val_rx[RxList[n]] = RxText(RxList[n]) /\ inbox[RxList[n]] = << >>

(* Between two steps no text and no frame is left over.                    *)
EmptyInv ==
  /\ pc \in {"main", "inst", "setup", "samples", "push", "step", "get"} =>
       \A r \in RxBox : val_rx[r] = NULL
  /\ pc \in {"main", "inst", "setup", "samples", "push", "pull", "get"} =>
       \A r \in RxBox : inbox[r] = << >>

LoopInv == LoopType /\ OutInv /\ TxInv /\ PushInv /\ PullInv /\ SetInv /\ EmptyInv

LEMMA EmptyBoxes ==
  /\ EmptyOut \in [TxBox -> Seq(Seq(BusFrame))] /\ \A t \in TxBox : EmptyOut[t] = << >>
  /\ EmptyIn \in [RxBox -> Seq(Seq(BusFrame))] /\ \A r \in RxBox : EmptyIn[r] = << >>
  /\ [t \in TxBox |-> << >>] \in [TxBox -> Seq(BusFrame)]
<1>1. << >> \in Seq(Seq(BusFrame)) /\ << >> \in Seq(BusFrame)
  BY EmptySeq
<1> QED  BY <1>1 DEF EmptyOut, EmptyIn

LEMMA LoopInit == Init => LoopInv
<1> SUFFICES ASSUME Init  PROVE LoopInv
  OBVIOUS
<1> USE DEF Init, MInit
<1>1. LoopType
  BY EmptyBus, EmptyBoxes DEF LoopType
<1>2. TxInv
  <2>1. \A t \in TxBox : emitted[t] = << >> /\ val_tx[t] = NULL
    OBVIOUS
  <2> QED  BY <2>1 DEF TxInv, Text
<1>3. EmptyInv
  BY EmptyBoxes DEF EmptyInv
<1> QED  BY <1>1, <1>2, <1>3 DEF LoopInv, OutInv, PushInv, PullInv, SetInv

LEMMA ExpectedPrime ==
  ASSUME UNCHANGED <<signal_bus_enabled, emitted, step>>
  PROVE  Expected' = Expected /\ \A r \in RxBox : RxText(r)' = RxText(r)
BY DEF Expected, RxText

(* Steps that touch nothing of the loopback.                               *)
LEMMA LoopStutter ==
  ASSUME LoopInv,
         UNCHANGED <<i, signal_bus_enabled, bus, val_tx, val_rx, step, emitted, inbox, outbox>>,
         \/ pc' = pc
         \/ pc \in {"main", "inst", "setup"} /\ pc' \in {"inst", "setup", "samples"}
         \/ pc' \in {"release", "exit"}
  PROVE  LoopInv'
<1> USE DEF LoopInv
<1>1. Expected' = Expected
  BY ExpectedPrime
<1>2. LoopType'  BY DEF LoopType
<1>3. OutInv'  BY DEF OutInv
<1>4. TxInv'  BY DEF TxInv
<1>5. PushInv'  BY DEF PushInv
<1>6. PullInv'  BY <1>1 DEF PullInv, RxText
<1>7. SetInv'  BY <1>1 DEF SetInv, RxText
<1>8. EmptyInv'  BY DEF EmptyInv
<1> QED  BY <1>2, <1>3, <1>4, <1>5, <1>6, <1>7, <1>8

LEMMA LoopNextStep == ASSUME LoopInv, NextStep  PROVE LoopInv'
<1>0. /\ pc = "samples" /\ i' = 1
      /\ UNCHANGED <<signal_bus_enabled, val_tx, val_rx, step, emitted, inbox, outbox>>
  BY DEF NextStep, mvars
<1>1. CASE step < MaxSteps
  <2>1. pc' = "push" /\ bus' = network_truncate(bus)
    BY <1>1 DEF NextStep
  <2>2. BusOk(bus') /\ bus'.stream.data = << >>
    BY <2>1, TruncateBus DEF LoopInv, LoopType
  <2>3. LoopType'
    BY <1>0, <2>2 DEF LoopInv, LoopType
  <2>4. TxInv'
    BY <1>0, <2>1, TxFacts DEF LoopInv, TxInv
  <2>5. PushInv'
    <3>1. LoopbackUpTo(i' - 1, emitted') = << >>
      BY <1>0, LoopbackStart
    <3>2. i' \in 1 .. Len(TxList) + 1
      BY <1>0, TxFacts
    <3> QED  BY <2>2, <3>1, <3>2 DEF PushInv
  <2>6. EmptyInv'
    BY <1>0, <2>1 DEF LoopInv, EmptyInv
  <2> QED  BY <2>1, <2>3, <2>4, <2>5, <2>6 DEF LoopInv, OutInv, PullInv, SetInv
<1>2. CASE ~(step < MaxSteps)
  <2>1. pc' = "free" /\ bus' = NoSignal
    BY <1>2 DEF NextStep
  <2>2. LoopType'
    BY <1>0, <2>1, EmptyBus DEF LoopInv, LoopType
  <2> QED  BY <2>1, <2>2 DEF LoopInv, OutInv, TxInv, PushInv, PullInv, SetInv, EmptyInv
<1> QED  BY <1>1, <1>2

LEMMA LoopPush == ASSUME Supported, LoopInv, Push  PROVE LoopInv'
<1> DEFINE t == TxList[i]
           d == emitted[t]
<1>0. /\ pc = "push" /\ pc' = "push" /\ i <= Len(TxList) /\ i' = i + 1
      /\ UNCHANGED <<signal_bus_enabled, val_rx, step, emitted, inbox, outbox>>
  BY DEF Push, mvars
<1>1. /\ i \in 1 .. Len(TxList)
      /\ bus.stream.data = IF signal_bus_enabled THEN LoopbackUpTo(i - 1, emitted) ELSE << >>
  BY <1>0, TxFacts DEF LoopInv, PushInv
<1>2. t \in TxBox /\ d \in Seq(BusFrame) /\ emitted \in [TxBox -> Seq(BusFrame)] /\ BusOk(bus)
  BY <1>1, TxFacts DEF LoopInv, LoopType
<1>3. val_tx[t] = Text(d)
  BY <1>0, <1>1, TxFacts DEF LoopInv, TxInv
<1>4. /\ LoopbackUpTo(i - 1, emitted) \in Seq(BusFrame)
      /\ LoopbackUpTo(i, emitted) = LoopbackUpTo(i - 1, emitted)
                                      \o (IF Mime[t] = NULL THEN << >> ELSE d)
  BY <1>1, <1>2, LoopbackNext
<1>5. i' \in 1 .. Len(TxList) + 1 /\ i' - 1 = i
  BY <1>0, <1>1, TxFacts
<1>6. CASE Mime[t] = NULL \/ val_tx[t] = NULL
  <2>1. bus' = bus /\ val_tx' = val_tx
    BY <1>6 DEF Push
  <2>2. LoopbackUpTo(i, emitted) = LoopbackUpTo(i - 1, emitted)
    <3>1. Mime[t] = NULL \/ d = << >>
      BY <1>2, <1>3, <1>6, TextFacts
    <3> HIDE DEF d
    <3>2. LoopbackUpTo(i, emitted) = LoopbackUpTo(i - 1, emitted) \o << >>
      BY <1>4, <3>1
    <3> QED  BY <1>4, <3>2, ConcatEmptySeq
  <2>3. LoopType'
    BY <1>0, <2>1 DEF LoopInv, LoopType
  <2>4. TxInv'
    <3> SUFFICES ASSUME NEW n \in 1 .. Len(TxList), n >= i + 1
                 PROVE  val_tx[TxList[n]] = Text(emitted[TxList[n]])
      BY <1>0, <2>1 DEF TxInv
    <3>1. n >= i  BY <1>1, TxFacts
    <3> QED  BY <1>0, <3>1 DEF LoopInv, TxInv
  <2>5. PushInv'
    BY <1>0, <1>1, <1>5, <2>1, <2>2 DEF PushInv
  <2>6. EmptyInv'
    BY <1>0 DEF LoopInv, EmptyInv
  <2> QED  BY <1>0, <2>3, <2>4, <2>5, <2>6 DEF LoopInv, OutInv, PullInv, SetInv
<1>7. CASE ~(Mime[t] = NULL \/ val_tx[t] = NULL)
  <2>1. /\ bus' = network_push(bus, Mime[t], dse_ascii85_decode(val_tx[t]))
        /\ val_tx' = [val_tx EXCEPT ![t] = NULL]
    BY <1>7 DEF Push
  <2>2. Mime[t] \in Codecs
    BY <1>2, <1>7 DEF Supported
  <2>3. dse_ascii85_decode(val_tx[t]) = d
    BY <1>2, <1>3, <1>7, TextFacts
  <2>4. /\ BusOk(bus')
        /\ bus'.stream.data = IF signal_bus_enabled THEN bus.stream.data \o d ELSE bus.stream.data
    <3> HIDE DEF d, t
    <3> QED  BY <1>2, <2>1, <2>2, <2>3, PushBus
  <2>5. LoopType'
    BY <1>0, <2>1, <2>4 DEF LoopInv, LoopType
  <2>6. TxInv'
    <3> SUFFICES ASSUME NEW n \in 1 .. Len(TxList), n >= i + 1
                 PROVE  val_tx'[TxList[n]] = Text(emitted[TxList[n]])
      BY <1>0 DEF TxInv
    <3>1. n >= i /\ n # i  BY <1>1, TxFacts
    <3>2. TxList[n] # t /\ TxList[n] \in TxBox  BY <1>1, <3>1, TxFacts
    <3>3. val_tx'[TxList[n]] = val_tx[TxList[n]]
      BY <2>1, <3>2 DEF LoopInv, LoopType
    <3> QED  BY <1>0, <3>1, <3>3 DEF LoopInv, TxInv
  <2>7. PushInv'
    BY <1>0, <1>1, <1>4, <1>5, <1>7, <2>4 DEF PushInv
  <2>8. EmptyInv'
    BY <1>0 DEF LoopInv, EmptyInv
  <2> QED  BY <1>0, <2>5, <2>6, <2>7, <2>8 DEF LoopInv, OutInv, PullInv, SetInv
<1> QED  BY <1>6, <1>7

LEMMA LoopInject == ASSUME Supported, LoopInv, Inject  PROVE LoopInv'
<1>0. /\ pc = "push" /\ pc' = "pull" /\ i > Len(TxList) /\ i' = 1
      /\ UNCHANGED <<signal_bus_enabled, val_tx, val_rx, step, emitted, inbox, outbox>>
  BY DEF Inject, mvars
<1> DEFINE B == IF signal_bus_enabled THEN LoopbackUpTo(Len(TxList), emitted) ELSE << >>
<1>1. bus.stream.data = B
  <2>1. i \in 1 .. Len(TxList) + 1 /\ i - 1 = Len(TxList)
    BY <1>0, TxFacts DEF LoopInv, PushInv
  <2> QED  BY <1>0, <2>1 DEF LoopInv, PushInv
<1>2. /\ B \in Seq(BusFrame) /\ Injected(step + 1) \in BusFrame /\ BusOk(bus)
  BY LoopbackType, EmptySeq DEF LoopInv, LoopType
<1> HIDE DEF B
<1>3. BusOk(bus') /\ bus'.stream.data = Expected
  <2>1. CASE Len(TxList) > 0 /\ Mime[TxList[1]] \in FrameTypes
    <3>1. bus' = network_inject_frame(bus, Mime[TxList[1]], Injected(step + 1))
      BY <2>1 DEF Inject
    <3>2. Mime[TxList[1]] \in Codecs
      <4>1. 1 \in 1 .. Len(TxList)  BY <2>1, TxFacts
      <4>2. TxList[1] \in TxBox  BY <4>1, TxFacts
      <4>3. Mime[TxList[1]] # NULL  BY <2>1, ImporterAssumption
      <4> QED  BY <4>2, <4>3 DEF Supported
    <3>3. BusOk(bus') /\ bus'.stream.data = bus.stream.data \o <<Injected(step + 1)>>
      BY <1>2, <3>1, <3>2, InjectBus
    <3> QED  BY <1>1, <2>1, <3>3 DEF Expected, InjectedFrames, B
  <2>2. CASE ~(Len(TxList) > 0 /\ Mime[TxList[1]] \in FrameTypes)
    <3>1. bus' = bus  BY <2>2 DEF Inject
    <3>2. Expected = B \o << >>  BY <2>2 DEF Expected, InjectedFrames, B
    <3>3. Expected = B  BY <1>2, <3>2, ConcatEmptySeq
    <3> QED  BY <1>1, <1>2, <3>1, <3>3
  <2> QED  BY <2>1, <2>2
<1>4. LoopType'
  BY <1>0, <1>3 DEF LoopInv, LoopType
<1>5. PullInv'
  <2>1. Expected' = Expected  BY <1>0, ExpectedPrime
  <2>2. \A n \in 1 .. Len(RxList) : val_rx'[RxList[n]] = NULL /\ ~(n < i')
    BY <1>0, RxFacts DEF LoopInv, EmptyInv
  <2>3. i' \in 1 .. Len(RxList) + 1  BY <1>0, RxFacts
  <2> QED  BY <1>3, <2>1, <2>2, <2>3 DEF PullInv
<1>6. EmptyInv'
  BY <1>0 DEF LoopInv, EmptyInv
<1> QED  BY <1>0, <1>4, <1>5, <1>6 DEF LoopInv, OutInv, TxInv, PushInv, SetInv

LEMMA LoopPull == ASSUME Supported, LoopInv, Pull  PROVE LoopInv'
<1> DEFINE r == RxList[i]
<1>0. /\ pc = "pull" /\ pc' = "pull" /\ i <= Len(RxList) /\ i' = i + 1
      /\ UNCHANGED <<signal_bus_enabled, val_tx, step, emitted, inbox, outbox>>
  BY DEF Pull, mvars
<1>1. /\ i \in 1 .. Len(RxList) /\ bus.stream.data = Expected
      /\ \A n \in 1 .. Len(RxList) :
           val_rx[RxList[n]] = IF n < i THEN RxText(RxList[n]) ELSE NULL
  BY <1>0, RxFacts DEF LoopInv, PullInv
<1>2. r \in RxBox /\ BusOk(bus) /\ DOMAIN val_rx = RxBox
  BY <1>1, RxFacts DEF LoopInv, LoopType
<1>3. /\ BusOk(bus') /\ bus'.stream.data = Expected
      /\ DOMAIN val_rx' = RxBox
      /\ val_rx'[r] = RxText(r) /\ \A s \in RxBox : s # r => val_rx'[s] = val_rx[s]
  <2>1. CASE Mime[r] = NULL
    <3>1. bus' = bus /\ val_rx' = val_rx  BY <2>1 DEF Pull
    <3>2. val_rx[r] = NULL  BY <1>1
    <3> QED  BY <1>1, <1>2, <2>1, <3>1, <3>2 DEF RxText
  <2>2. CASE Mime[r] # NULL
    <3>1. /\ bus' = Rewound(bus, Mime[r])
          /\ val_rx' = [val_rx EXCEPT ![r] = Text(network_pull(bus, Mime[r]))]
      BY <2>2 DEF Pull, Text
    <3>2. Mime[r] \in Codecs
      BY <1>2, <2>2 DEF Supported
    <3> HIDE DEF r
    <3>3. /\ BusOk(bus') /\ bus'.stream.data = bus.stream.data
          /\ network_pull(bus, Mime[r]) = bus.stream.data
      BY <1>2, <3>1, <3>2, PullBus
    <3>4. val_rx' = [val_rx EXCEPT ![r] = RxText(r)]
      BY <1>1, <2>2, <3>1, <3>3 DEF RxText
    <3> QED  BY <1>1, <1>2, <3>3, <3>4
  <2> QED  BY <2>1, <2>2
<1>4. LoopType'
  BY <1>0, <1>3 DEF LoopInv, LoopType
<1>5. PullInv'
  <2>1. Expected' = Expected /\ \A s \in RxBox : RxText(s)' = RxText(s)
    BY <1>0, ExpectedPrime
  <2>2. i' \in 1 .. Len(RxList) + 1
    BY <1>0, <1>1, RxFacts
  <2>3. ASSUME NEW n \in 1 .. Len(RxList)
        PROVE  val_rx'[RxList[n]] = IF n < i' THEN RxText(RxList[n])' ELSE NULL
    <3>1. RxList[n] \in RxBox /\ (RxList[n] = r <=> n = i)
      BY <1>1, RxFacts
    <3>2. n < i' <=> n < i \/ n = i
      BY <1>0, <1>1, RxFacts
    <3> HIDE DEF r
    <3>3. CASE n = i  BY <1>3, <2>1, <3>1, <3>2, <3>3
    <3>4. CASE n # i  BY <1>1, <1>3, <2>1, <3>1, <3>2, <3>4
    <3> QED  BY <3>3, <3>4
  <2> QED  BY <1>3, <2>1, <2>2, <2>3 DEF PullInv
<1>6. EmptyInv'
  BY <1>0 DEF LoopInv, EmptyInv
<1> QED  BY <1>0, <1>4, <1>5, <1>6 DEF LoopInv, OutInv, TxInv, PushInv, SetInv

LEMMA LoopPullDone == ASSUME LoopInv, PullDone  PROVE LoopInv'
<1>0. /\ pc = "pull" /\ pc' = "set" /\ i > Len(RxList) /\ i' = 1
      /\ UNCHANGED <<signal_bus_enabled, bus, val_tx, val_rx, step, emitted, inbox, outbox>>
  BY DEF PullDone, busVars, mvars
<1>1. LoopType'
  BY <1>0 DEF LoopInv, LoopType
<1>2. SetInv'
  <2>1. \A s \in RxBox : RxText(s)' = RxText(s)
    BY <1>0, ExpectedPrime
  <2>2. i' \in 1 .. Len(RxList) + 1
    BY <1>0, RxFacts
  <2>3. ASSUME NEW n \in 1 .. Len(RxList)
        PROVE  /\ ~(n < i') /\ val_rx'[RxList[n]] = RxText(RxList[n])'
               /\ inbox'[RxList[n]] = << >>
    <3>1. ~(n < i') /\ n < i /\ RxList[n] \in RxBox
      BY <1>0, RxFacts DEF LoopInv, PullInv
    <3>2. val_rx[RxList[n]] = RxText(RxList[n])
      BY <1>0, <3>1 DEF LoopInv, PullInv
    <3>3. inbox[RxList[n]] = << >>
      BY <1>0, <3>1 DEF LoopInv, EmptyInv
    <3> QED  BY <1>0, <2>1, <3>1, <3>2, <3>3
  <2> QED  BY <2>2, <2>3 DEF SetInv
<1> QED  BY <1>0, <1>1, <1>2 DEF LoopInv, OutInv, TxInv, PushInv, PullInv, EmptyInv

LEMMA LoopSetElement == ASSUME LoopInv, SetElement  PROVE LoopInv'
<1> DEFINE r == RxList[i]
<1>0. /\ pc = "set" /\ pc' = "set" /\ i <= Len(RxList) /\ i' = i + 1
      /\ UNCHANGED <<signal_bus_enabled, bus, val_tx, step, emitted>>
      /\ val_rx' = [val_rx EXCEPT ![r] = NULL]
      /\ outbox' = EmptyOut
      /\ IF val_rx[r] = NULL THEN inbox' = inbox
         ELSE inbox' = [inbox EXCEPT ![r] = Append(@, dse_ascii85_decode(val_rx[r]))]
  BY DEF SetElement, Put, Discard
<1>1. /\ i \in 1 .. Len(RxList)
      /\ \A n \in 1 .. Len(RxList) :
           IF n < i
           THEN /\ val_rx[RxList[n]] = NULL
                /\ FlattenSeq(inbox[RxList[n]]) = IF Mime[RxList[n]] = NULL THEN << >> ELSE Expected
           ELSE val_rx[RxList[n]] = RxText(RxList[n]) /\ inbox[RxList[n]] = << >>
  BY <1>0, RxFacts DEF LoopInv, SetInv
<1>2. /\ r \in RxBox /\ val_rx[r] = RxText(r) /\ inbox[r] = << >>
      /\ DOMAIN val_rx = RxBox /\ inbox \in [RxBox -> Seq(Seq(BusFrame))]
  BY <1>1, RxFacts DEF LoopInv, LoopType
<1>3. Expected \in Seq(BusFrame)
  BY LoopbackType DEF LoopInv, LoopType
<1> DEFINE one == Append(<< >>, Expected)
<1>4. one \in Seq(Seq(BusFrame)) /\ FlattenSeq(one) = Expected
  BY <1>3, FlattenOne, EmptySeq, AppendProperties
<1> HIDE DEF r, one
<1>5. /\ inbox' \in [RxBox -> Seq(Seq(BusFrame))]
      /\ FlattenSeq(inbox'[r]) = IF Mime[r] = NULL THEN << >> ELSE Expected
      /\ \A s \in RxBox : s # r => inbox'[s] = inbox[s]
  <2>1. CASE val_rx[r] = NULL
    <3>1. Mime[r] = NULL \/ Expected = << >>
      BY <1>2, <1>3, <2>1, TextFacts DEF RxText
    <3>2. inbox' = inbox  BY <1>0, <2>1
    <3> QED  BY <1>2, <3>1, <3>2, FlattenEmpty
  <2>2. CASE val_rx[r] # NULL
    <3>1. Mime[r] # NULL /\ val_rx[r] = Text(Expected)
      BY <1>2, <2>2 DEF RxText
    <3>2. Expected # << >>
      BY <1>3, <2>2, <3>1, TextFacts
    <3>3. dse_ascii85_decode(val_rx[r]) = Expected
      BY <1>3, <3>1, <3>2, TextFacts
    <3>4. inbox' = [inbox EXCEPT ![r] = one]
      BY <1>0, <1>2, <2>2, <3>3 DEF one
    <3> QED  BY <1>2, <1>4, <3>1, <3>4
  <2> QED  BY <2>1, <2>2
<1>6. LoopType'
  BY <1>0, <1>2, <1>5, EmptyBoxes DEF LoopInv, LoopType
<1>7. SetInv'
  <2>1. Expected' = Expected /\ \A s \in RxBox : RxText(s)' = RxText(s)
    BY <1>0, ExpectedPrime
  <2>2. i' \in 1 .. Len(RxList) + 1
    BY <1>0, <1>1, RxFacts
  <2>3. ASSUME NEW n \in 1 .. Len(RxList)
        PROVE  IF n < i'
               THEN /\ val_rx'[RxList[n]] = NULL
                    /\ FlattenSeq(inbox'[RxList[n]])
                         = IF Mime[RxList[n]] = NULL THEN << >> ELSE Expected
               ELSE val_rx'[RxList[n]] = RxText(RxList[n]) /\ inbox'[RxList[n]] = << >>
    <3>1. RxList[n] \in RxBox /\ (RxList[n] = r <=> n = i)
      BY <1>1, RxFacts DEF r
    <3>2. n < i' <=> n < i \/ n = i
      BY <1>0, <1>1, RxFacts
    <3>3. CASE n = i  BY <1>0, <1>2, <1>5, <3>1, <3>2, <3>3
    <3>4. CASE n # i  BY <1>0, <1>1, <1>2, <1>5, <3>1, <3>2, <3>4
    <3> QED  BY <3>3, <3>4
  <2>4. \A n \in 1 .. Len(RxList) : RxText(RxList[n])' = RxText(RxList[n])
    BY <2>1, RxFacts
  <2> QED  BY <2>1, <2>2, <2>3, <2>4 DEF SetInv
<1> QED  BY <1>0, <1>6, <1>7 DEF LoopInv, OutInv, TxInv, PushInv, PullInv, EmptyInv

LEMMA LoopStepFmu == ASSUME LoopInv, StepFmu  PROVE LoopInv'
<1>0. /\ pc = "set" /\ pc' = "step" /\ i > Len(RxList)
      /\ UNCHANGED <<signal_bus_enabled, bus, val_tx, val_rx, step, inbox>>
      /\ outbox' = EmptyOut /\ emitted' = [t \in TxBox |-> << >>]
  BY DEF StepFmu, Begin, busVars
<1>1. LoopType'
  BY <1>0, EmptyBoxes DEF LoopInv, LoopType
<1>2. OutInv'
  BY <1>0, EmptyBoxes, FlattenEmpty DEF OutInv
<1>3. EmptyInv'
  <2>1. ASSUME NEW r \in RxBox  PROVE val_rx[r] = NULL
    <3>1. PICK n \in 1 .. Len(RxList) : RxList[n] = r  BY RxFacts
    <3>2. n < i  BY <1>0, RxFacts DEF LoopInv, SetInv
    <3> QED  BY <1>0, <3>1, <3>2 DEF LoopInv, SetInv
  <2> QED  BY <1>0, <2>1 DEF EmptyInv
<1> QED  BY <1>0, <1>1, <1>2, <1>3 DEF LoopInv, TxInv, PushInv, PullInv, SetInv

LEMMA LoopFmuEmits ==
  ASSUME LoopInv, NEW t \in TxBox, NEW f \in Frame, FmuEmits(t, f)
  PROVE  LoopInv'
<1>0. /\ pc = "step" /\ pc' = "step"
      /\ UNCHANGED <<signal_bus_enabled, bus, val_tx, val_rx, step, inbox>>
      /\ outbox' = [outbox EXCEPT ![t] = Append(@, <<f>>)]
      /\ emitted' = [emitted EXCEPT ![t] = Append(@, f)]
  BY DEF FmuEmits, Emit, busVars
<1>1. /\ emitted \in [TxBox -> Seq(BusFrame)] /\ outbox \in [TxBox -> Seq(Seq(BusFrame))]
      /\ FlattenSeq(outbox[t]) = emitted[t] /\ f \in BusFrame
  BY <1>0 DEF LoopInv, LoopType, OutInv, BusFrame
<1> DEFINE o == outbox[t]
           e == emitted[t]
           ff == <<f>>
           o1 == Append(o, ff)
           e1 == Append(e, f)
<1>2. o \in Seq(Seq(BusFrame)) /\ e \in Seq(BusFrame) /\ ff \in Seq(BusFrame)
  BY <1>1
<1>3. FlattenSeq(o1) = e1
  <2>1. FlattenSeq(o1) = FlattenSeq(o) \o ff
    <3> HIDE DEF o, ff
    <3> QED  BY <1>2, FlattenAppend
  <2>2. e1 = e \o ff
    BY <1>1, <1>2, AppendIsConcat
  <2> QED  BY <1>1, <2>1, <2>2
<1>4. o1 \in Seq(Seq(BusFrame)) /\ e1 \in Seq(BusFrame) /\ o1 # << >> /\ e1 # << >>
  <2> HIDE DEF o, e, ff
  <2>1. o1 \in Seq(Seq(BusFrame)) /\ o1 # << >>
    BY <1>2, AppendProperties
  <2>2. f \in BusFrame
    BY <1>1
  <2>3. e1 \in Seq(BusFrame) /\ e1 # << >>
    BY <1>2, <2>2, AppendProperties
  <2> QED  BY <2>1, <2>3
<1>5. outbox' = [outbox EXCEPT ![t] = o1] /\ emitted' = [emitted EXCEPT ![t] = e1]
  BY <1>0
<1> HIDE DEF o1, e1
<1>6. LoopType'
  BY <1>0, <1>1, <1>4, <1>5 DEF LoopInv, LoopType
<1>7. OutInv'
  BY <1>0, <1>1, <1>3, <1>4, <1>5 DEF LoopInv, OutInv
<1>8. EmptyInv'
  BY <1>0 DEF LoopInv, EmptyInv
<1> QED  BY <1>0, <1>6, <1>7, <1>8 DEF LoopInv, TxInv, PushInv, PullInv, SetInv

LEMMA LoopStepReturns == ASSUME LoopInv, StepReturns  PROVE LoopInv'
<1>0. /\ pc = "step" /\ pc' = "get"
      /\ UNCHANGED <<signal_bus_enabled, bus, val_tx, val_rx, step, emitted, outbox>>
      /\ inbox' = EmptyIn
  BY DEF StepReturns, End, busVars
<1>1. LoopType'
  BY <1>0, EmptyBoxes DEF LoopInv, LoopType
<1>2. OutInv'
  BY <1>0 DEF LoopInv, OutInv
<1>3. EmptyInv'
  BY <1>0, EmptyBoxes DEF LoopInv, EmptyInv
<1> QED  BY <1>0, <1>1, <1>2, <1>3 DEF LoopInv, TxInv, PushInv, PullInv, SetInv

LEMMA LoopReadFmu == ASSUME LoopInv, ReadFmu  PROVE LoopInv'
<1>0. /\ pc = "get" /\ pc' = "samples" /\ step' = step + 1
      /\ UNCHANGED <<signal_bus_enabled, bus, val_rx, emitted, inbox, outbox>>
      /\ val_tx' = [t \in TxBox |-> IF outbox[t] = << >> THEN NULL
                                     ELSE dse_ascii85_encode(FlattenSeq(outbox[t]))]
  BY DEF ReadFmu, mvars
<1>1. LoopType'
  BY <1>0 DEF LoopInv, LoopType
<1>2. TxInv'
  <2>1. ASSUME NEW t \in TxBox  PROVE val_tx'[t] = Text(emitted[t])
    BY <1>0 DEF LoopInv, OutInv, Text
  <2> QED  BY <1>0, <2>1 DEF TxInv
<1>3. EmptyInv'
  BY <1>0 DEF LoopInv, EmptyInv
<1> QED  BY <1>0, <1>1, <1>2, <1>3 DEF LoopInv, OutInv, PushInv, PullInv, SetInv

LEMMA LoopEnd ==
  ASSUME LoopInv, NEW ok \in BOOLEAN, FreeFmu(ok) \/ Release
  PROVE  LoopInv'
<1>0. /\ pc' \in {"release", "exit"}
      /\ UNCHANGED <<signal_bus_enabled, bus, step, emitted>>
      /\ inbox' = inbox \/ inbox' = EmptyIn
      /\ outbox' = outbox \/ outbox' = EmptyOut
      /\ val_tx' = val_tx \/ val_tx' = [t \in TxBox |-> NULL]
      /\ val_rx' = val_rx \/ val_rx' = [r \in RxBox |-> NULL]
  BY DEF FreeFmu, Release, Restart, busVars, mvars
<1>1. LoopType'
  BY <1>0, EmptyBoxes DEF LoopInv, LoopType
<1> QED  BY <1>0, <1>1 DEF LoopInv, OutInv, TxInv, PushInv, PullInv, SetInv, EmptyInv

LEMMA LoopStep == ASSUME Supported  PROVE LoopInv /\ [Next]_vars => LoopInv'
<1> SUFFICES ASSUME LoopInv, [Next]_vars  PROVE LoopInv'
  OBVIOUS
<1>1. CASE csv_index
  BY <1>1, LoopStutter DEF csv_index, busVars, mvars
<1>2. CASE SetupFails \/ InstantiateFmu \/ SetupFmu
  BY <1>2, LoopStutter DEF SetupFails, InstantiateFmu, SetupFmu, busVars, mvars
<1>3. CASE ApplySample
  BY <1>3, LoopStutter DEF ApplySample, busVars, mvars
<1>4. CASE NextStep \/ Push \/ Inject \/ Pull \/ PullDone
  BY <1>4, LoopNextStep, LoopPush, LoopInject, LoopPull, LoopPullDone
<1>5. CASE SetElement \/ StepFmu \/ StepReturns \/ ReadFmu
  BY <1>5, LoopSetElement, LoopStepFmu, LoopStepReturns, LoopReadFmu
<1>6. ASSUME NEW t \in TxBox, NEW f \in Frame, FmuEmits(t, f)  PROVE LoopInv'
  BY <1>6, LoopFmuEmits
<1>7. ASSUME NEW ok \in BOOLEAN, FreeFmu(ok)  PROVE LoopInv'
  BY <1>7, LoopEnd
<1>8. CASE Release
  BY <1>8, LoopEnd
<1>9. CASE UNCHANGED vars
  BY <1>9, LoopStutter DEF vars, busVars, mvars
<1> QED
  BY <1>1, <1>2, <1>3, <1>4, <1>5, <1>6, <1>7, <1>8, <1>9
  DEF Next, run_fmu2_cosim, run_fmu3_cosim, RunCosim, Exited

LEMMA LoopInvariant == ASSUME Supported  PROVE Spec => []LoopInv
BY LoopInit, LoopStep, PTL DEF Spec

(* Where every MIME type has a codec, the loopback of signal_bus.c and the *)
(* loops of importer.c deliver what the outputs sent in a step to every    *)
(* input in the next: once, in order, and with nothing of older steps.     *)
THEOREM LoopbackSafe == ASSUME Supported  PROVE Spec => []LoopbackExact
<1>1. LoopInv => LoopbackExact
  <2> SUFFICES ASSUME LoopInv, pc = "set", i > Len(RxList), NEW r \in RxBox
               PROVE  FlattenSeq(inbox[r]) = IF Mime[r] = NULL THEN << >> ELSE Expected
    BY DEF LoopbackExact, Expected
  <2>1. PICK n \in 1 .. Len(RxList) : RxList[n] = r
    BY RxFacts
  <2>2. n < i
    BY RxFacts DEF LoopInv, SetInv
  <2> QED  BY <2>1, <2>2 DEF LoopInv, SetInv
<1> QED  BY <1>1, LoopInvariant, PTL
-----------------------------------------------------------------------------
(***************************************************************************)
(* The stimulus.                                                           *)
(***************************************************************************)
CsvFile == [header : Headers, lines : UNION {[1 .. n -> Lines] : n \in 0 .. MaxLines}]

(* Column k of line n is a value for input v.                              *)
IsCell(v, n, k) ==
  /\ k \in DOMAIN csv.header /\ csv.header[k] = v
  /\ k \in DOMAIN csv.lines[n].cells /\ ~errno(csv.lines[n].cells[k])

Cells(v, A) ==
  {c \in A \X (1 .. Cardinality(Input)) :
     /\ c[2] \in DOMAIN csv.header /\ csv.header[c[2]] = v
     /\ c[2] \in DOMAIN csv.lines[c[1]].cells
     /\ ~errno(csv.lines[c[1]].cells[c[2]])}

IsLast(c, C) == c \in C /\ \A d \in C : d[1] < c[1] \/ (d[1] = c[1] /\ d[2] <= c[2])

(* x is the newest sample of v in the lines A, the start value when they   *)
(* have none.                                                              *)
Newest(x, v, A) ==
  \/ Cells(v, A) = {} /\ x = Start[v]
  \/ \E c : IsLast(c, Cells(v, A)) /\ x = strtod(csv.lines[c[1]].cells[c[2]])

(* The lines that have been applied: those before the current one.         *)
Applied == {n \in DOMAIN csv.lines : Valid(n) /\ (line # 0 => n < line)}

NCols == IF Len(csv.header) < Cardinality(Input) THEN Len(csv.header) ELSE Cardinality(Input)

Running == {"inst", "setup", "samples", "push", "pull", "set", "step", "get"}

IndexInv == Len(index) = NCols /\ \A c \in 1 .. NCols : index[c] = csv.header[c]

LineInv ==
  /\ line = 0 \/ (line \in DOMAIN csv.lines /\ Valid(line))
  /\ timestamp = TimeOf(line)

ValueInv ==
  /\ DOMAIN val_rx_real = Input
  /\ \A v \in Input : Newest(val_rx_real[v], v, Applied)

(* No line was applied early, and in a step none is left to apply.         *)
TimeInv ==
  /\ \A n \in Applied : strtod(csv.lines[n].ts) <= step
  /\ pc \in {"push", "pull", "set", "step"} => line = 0 \/ strtod(csv.lines[line].ts) > step

StimInv ==
  csv # NULL =>
    /\ csv \in CsvFile /\ step \in Nat
    /\ pc = "main" => val_rx_real = Start
    /\ pc \in Running => IndexInv /\ LineInv /\ ValueInv /\ TimeInv
    /\ pc = "step" => fmu_real = val_rx_real

LEMMA FiniteInput == Cardinality(Input) \in Nat
BY CsvAssumption, FS_CardinalityType

(* What a CSV file is made of.                                             *)
LEMMA CsvFacts ==
  ASSUME csv \in CsvFile
  PROVE  /\ \E N \in Nat : DOMAIN csv.lines = 1 .. N
         /\ \A n \in DOMAIN csv.lines :
              /\ n \in Nat /\ n # 0
              /\ \E K \in Nat : DOMAIN csv.lines[n].cells = 1 .. K
              /\ Valid(n) => strtod(csv.lines[n].ts) \in Nat
         /\ Len(csv.header) \in Nat /\ DOMAIN csv.header = 1 .. Len(csv.header)
         /\ NCols \in Nat
         /\ \A c \in 1 .. NCols : c \in DOMAIN csv.header /\ c \in 1 .. Cardinality(Input)
         /\ \A c \in 1 .. Cardinality(Input) : c \in DOMAIN csv.header => c \in 1 .. NCols
<1>1. csv.header \in Headers /\ csv.lines \in UNION {[1 .. n -> Lines] : n \in 0 .. MaxLines}
  BY DEF CsvFile
<1>2. PICK N \in 0 .. MaxLines : csv.lines \in [1 .. N -> Lines]
  BY <1>1
<1>3. N \in Nat /\ DOMAIN csv.lines = 1 .. N
  BY <1>2, CsvAssumption
<1>4. ASSUME NEW n \in DOMAIN csv.lines
      PROVE  /\ n \in Nat /\ n # 0
             /\ \E K \in Nat : DOMAIN csv.lines[n].cells = 1 .. K
             /\ Valid(n) => strtod(csv.lines[n].ts) \in Nat
  <2>1. csv.lines[n] \in Lines
    BY <1>2, <1>3
  <2>2. csv.lines[n] \in [ts : CsvText(Int), cells : Seq(CsvText(Value))]
    BY <2>1, CsvAssumption
  <2> DEFINE l == csv.lines[n]
  <2>3. l.ts \in CsvText(Int) /\ l.cells \in Seq(CsvText(Value))
    BY <2>2
  <2>4. Len(l.cells) \in Nat /\ DOMAIN l.cells = 1 .. Len(l.cells)
    BY <2>3, LenProperties
  <2>5. Valid(n) => strtod(l.ts) \in Nat
    BY <2>3 DEF Valid, CsvText, strtod, errno
  <2> QED  BY <1>3, <2>4, <2>5
<1>5. Len(csv.header) \in Nat /\ DOMAIN csv.header = 1 .. Len(csv.header)
  BY <1>1, CsvAssumption, LenProperties
<1> QED  BY <1>3, <1>4, <1>5, FiniteInput DEF NCols

(* csv_read_line finds the next valid line.                                *)
LEMMA ReadLine ==
  ASSUME csv \in CsvFile, NEW n \in Nat
  PROVE  \/ /\ csv_read_line(n) = 0
            /\ \A m \in DOMAIN csv.lines : Valid(m) => m <= n
         \/ /\ csv_read_line(n) \in DOMAIN csv.lines /\ Valid(csv_read_line(n))
            /\ csv_read_line(n) > n
            /\ \A m \in DOMAIN csv.lines : Valid(m) => m <= n \/ csv_read_line(n) <= m
<1> DEFINE rest == {m \in DOMAIN csv.lines : m > n /\ Valid(m)}
<1>0. \A m \in DOMAIN csv.lines : m \in Nat
  BY CsvFacts
<1>1. CASE rest = {}
  <2>1. csv_read_line(n) = 0
    BY <1>1 DEF csv_read_line
  <2> QED  BY <1>0, <1>1, <2>1
<1>2. CASE rest # {}
  <2> DEFINE f == CHOOSE m \in rest : \A k \in rest : m <= k
  <2>1. csv_read_line(n) = f
    BY <1>2 DEF csv_read_line
  <2>2. rest \subseteq Nat
    BY <1>0
  <2>3. f \in rest /\ \A k \in rest : f <= k
    <3>1. \E m \in rest : \A k \in rest : m <= k
      <4> HIDE DEF rest
      <4> QED  BY <1>2, <2>2, NatMin
    <3> QED  BY <3>1
  <2> HIDE DEF f
  <2>4. f \in DOMAIN csv.lines /\ Valid(f) /\ f > n
    BY <2>3
  <2>5. ASSUME NEW m \in DOMAIN csv.lines, Valid(m)  PROVE m <= n \/ f <= m
    <3>1. CASE m > n  BY <2>3, <2>5, <3>1
    <3>2. CASE ~(m > n)  BY <1>0, <3>2
    <3> QED  BY <3>1, <3>2
  <2> QED  BY <2>1, <2>4, <2>5
<1> QED  BY <1>1, <1>2

LEMMA CellsMember ==
  ASSUME NEW v, NEW A, NEW c
  PROVE  c \in Cells(v, A) <=>
           \E n \in A, k \in 1 .. Cardinality(Input) : c = <<n, k>> /\ IsCell(v, n, k)
BY DEF Cells, IsCell

(* The loop over the columns: the newest sample of one more line.          *)
LEMMA ApplyNewest ==
  ASSUME csv \in CsvFile, IndexInv, NEW v \in Input,
         NEW A, NEW m \in DOMAIN csv.lines, A \subseteq Nat, \A n \in A : n < m,
         NEW val, Newest(val[v], v, A)
  PROVE  Newest(ApplyLine(val, m)[v], v, A \cup {m})
<1> DEFINE cells == csv.lines[m].cells
           Cols == {c \in DOMAIN cells : c <= Len(index) /\ index[c] = v /\ ~errno(cells[c])}
           C == Cells(v, A)
           D == Cells(v, A \cup {m})
<1>1. m \in Nat /\ \E K \in Nat : DOMAIN cells = 1 .. K
  BY CsvFacts
<1>2. PICK K \in Nat : DOMAIN cells = 1 .. K
  BY <1>1
<1>3. \A k : k \in Cols <=> k \in 1 .. Cardinality(Input) /\ IsCell(v, m, k)
  <2>1. ASSUME NEW k \in Cols  PROVE k \in 1 .. Cardinality(Input) /\ IsCell(v, m, k)
    <3>1. k \in 1 .. K /\ k <= NCols /\ index[k] = v /\ ~errno(cells[k])
      BY <1>2 DEF IndexInv
    <3>2. k \in 1 .. NCols
      BY <3>1, CsvFacts
    <3>3. csv.header[k] = v /\ k \in DOMAIN csv.header /\ k \in 1 .. Cardinality(Input)
      BY <3>1, <3>2, CsvFacts DEF IndexInv
    <3> QED  BY <1>2, <3>1, <3>3 DEF IsCell
  <2>2. ASSUME NEW k \in 1 .. Cardinality(Input), IsCell(v, m, k)  PROVE k \in Cols
    <3>1. k \in 1 .. NCols /\ k \in DOMAIN cells /\ csv.header[k] = v /\ ~errno(cells[k])
      BY <2>2, CsvFacts DEF IsCell
    <3>2. index[k] = v /\ k <= Len(index)
      BY <3>1, CsvFacts DEF IndexInv
    <3> QED  BY <3>1, <3>2
  <2> QED  BY <2>1, <2>2
<1>4. ApplyLine(val, m)[v] = IF Cols = {} THEN val[v]
                             ELSE strtod(cells[CHOOSE c \in Cols : \A k \in Cols : k <= c])
  BY DEF ApplyLine
<1>5. Cols \subseteq 0 .. K
  BY <1>2
<1> HIDE DEF Cols, C, D, cells
<1>6. \A c : c \in D <=> c \in C \/ \E k \in Cols : c = <<m, k>>
  <2> TAKE c
  <2>1. c \in C <=> \E n \in A, k \in 1 .. Cardinality(Input) : c = <<n, k>> /\ IsCell(v, n, k)
    BY CellsMember DEF C
  <2>2. c \in D <=>
          \E n \in A \cup {m}, k \in 1 .. Cardinality(Input) : c = <<n, k>> /\ IsCell(v, n, k)
    BY CellsMember DEF D
  <2> QED  BY <1>3, <2>1, <2>2
<1>7. CASE Cols = {}
  <2>1. D = C
    BY <1>6, <1>7
  <2>2. ApplyLine(val, m)[v] = val[v]
    BY <1>4, <1>7
  <2> QED  BY <2>1, <2>2 DEF Newest, C, D
<1>8. CASE Cols # {}
  <2> DEFINE k == CHOOSE c \in Cols : \A q \in Cols : q <= c
             e == <<m, k>>
  <2>1. k \in Cols /\ \A q \in Cols : q <= k
    <3>1. \E c \in Cols : \A q \in Cols : q <= c
      BY <1>5, <1>8, NatMax
    <3> QED  BY <3>1
  <2>2. ApplyLine(val, m)[v] = strtod(cells[k])
    BY <1>4, <1>8
  <2> HIDE DEF k
  <2>3. e[1] = m /\ e[2] = k /\ e \in D
    BY <1>6, <2>1
  <2>4. ASSUME NEW d \in D  PROVE d[1] < m \/ (d[1] = m /\ d[2] <= k)
    <3>1. CASE d \in C
      <4>0. d \in Cells(v, A)
        BY <3>1 DEF C
      <4>1. PICK n \in A, q \in 1 .. Cardinality(Input) : d = <<n, q>> /\ IsCell(v, n, q)
        BY <4>0, CellsMember
      <4> QED  BY <4>1
    <3>2. CASE \E q \in Cols : d = <<m, q>>
      <4>1. PICK q \in Cols : d = <<m, q>>
        BY <3>2
      <4> QED  BY <2>1, <4>1
    <3> QED  BY <1>6, <3>1, <3>2
  <2> HIDE DEF e
  <2>5. IsLast(e, D)
    BY <2>3, <2>4 DEF IsLast
  <2>6. ApplyLine(val, m)[v] = strtod(csv.lines[e[1]].cells[e[2]])
    BY <2>2, <2>3 DEF cells
  <2> QED  BY <2>5, <2>6 DEF Newest, D
<1> QED  BY <1>7, <1>8

(* The newest cell is unique.                                              *)
LEMMA LastUnique ==
  ASSUME NEW v, NEW A, A \subseteq Nat, NEW c, IsLast(c, Cells(v, A))
  PROVE  LastCell(Cells(v, A)) = c
<1> DEFINE C == Cells(v, A)
<1>1. ASSUME NEW d \in C  PROVE d = <<d[1], d[2]>> /\ d[1] \in Nat /\ d[2] \in Nat
  <2>0. d \in Cells(v, A)
    OBVIOUS
  <2> HIDE DEF C
  <2>1. PICK n \in A, k \in 1 .. Cardinality(Input) : d = <<n, k>> /\ IsCell(v, n, k)
    BY <2>0, CellsMember
  <2> QED  BY <2>1, FiniteInput
<1> HIDE DEF C
<1>2. c \in C /\ \A d \in C : d[1] < c[1] \/ (d[1] = c[1] /\ d[2] <= c[2])
  BY DEF IsLast, C
<1>3. ASSUME NEW d \in C, \A e \in C : e[1] < d[1] \/ (e[1] = d[1] /\ e[2] <= d[2])
      PROVE  d = c
  <2>1. c[1] = d[1] /\ c[2] = d[2]
    BY <1>1, <1>2, <1>3
  <2> QED  BY <1>1, <1>2, <2>1
<1>4. LastCell(C) = c
  BY <1>2, <1>3 DEF LastCell
<1> QED  BY <1>4 DEF C

-----------------------------------------------------------------------------
(***************************************************************************)
(* The inductive invariant of the stimulus is preserved.                   *)
(***************************************************************************)
LEMMA StimInit == Init => StimInv
BY DEF Init, StimInv, CsvFile, Running

(* The steps that leave the stimulus alone.  Time may advance.             *)
LEMMA StimStutter ==
  ASSUME StimInv, UNCHANGED <<csv, line, timestamp, index, val_rx_real>>,
         step' = step \/ (step' = step + 1 /\ pc' = "samples"),
         pc' \in Running => pc \in Running, pc' = "main" => pc = "main",
         pc' = "step" => fmu_real' = val_rx_real,
         pc' \in {"push", "pull", "set", "step"} =>
           \/ pc \in {"push", "pull", "set", "step"}
           \/ csv # NULL => ~Due(step)
  PROVE  StimInv'
<1> SUFFICES ASSUME csv # NULL
             PROVE  /\ csv' \in CsvFile /\ step' \in Nat
                    /\ pc' = "main" => val_rx_real' = Start
                    /\ pc' \in Running => IndexInv' /\ LineInv' /\ ValueInv' /\ TimeInv'
                    /\ pc' = "step" => fmu_real' = val_rx_real'
  BY DEF StimInv
<1>1. csv' \in CsvFile /\ csv \in CsvFile /\ step \in Nat /\ step' \in Nat
  BY DEF StimInv
<1>2. pc' = "main" => val_rx_real' = Start
  BY DEF StimInv, Running
<1>3. ASSUME pc' \in Running  PROVE IndexInv' /\ LineInv' /\ ValueInv' /\ TimeInv'
  <2>1. IndexInv /\ LineInv /\ ValueInv /\ TimeInv
    BY <1>3 DEF StimInv, Running
  <2>2. IndexInv'
    BY <2>1 DEF IndexInv, NCols
  <2>3. LineInv'
    BY <2>1 DEF LineInv, TimeOf, Valid
  <2>4. Applied' = Applied
    BY DEF Applied, Valid
  <2>5. ValueInv'
    BY <2>1, <2>4 DEF ValueInv, Newest, Cells
  <2>6. \A n \in Applied : strtod(csv.lines[n].ts) \in Nat /\ strtod(csv.lines[n].ts) <= step
    BY <1>1, <2>1, CsvFacts DEF Applied, TimeInv
  <2>7. \A n \in Applied : strtod(csv.lines[n].ts) <= step'
    BY <1>1, <2>6
  <2>8. pc' \in {"push", "pull", "set", "step"} => line = 0 \/ strtod(csv.lines[line].ts) > step'
    <3> SUFFICES ASSUME pc' \in {"push", "pull", "set", "step"}, line # 0
                 PROVE  strtod(csv.lines[line].ts) > step
      OBVIOUS
    <3>1. CASE pc \in {"push", "pull", "set", "step"}
      BY <2>1, <3>1 DEF TimeInv
    <3>2. CASE ~Due(step)
      <4>1. timestamp = strtod(csv.lines[line].ts) /\ strtod(csv.lines[line].ts) \in Nat
        BY <1>1, <2>1, CsvFacts DEF LineInv, TimeOf
      <4> QED  BY <1>1, <3>2, <4>1 DEF Due
    <3> QED  BY <3>1, <3>2
  <2>9. TimeInv'
    BY <2>4, <2>7, <2>8 DEF TimeInv
  <2> QED  BY <2>2, <2>3, <2>5, <2>9
<1> QED  BY <1>1, <1>2, <1>3

LEMMA StimCsvIndex == ASSUME StimInv, csv_index  PROVE StimInv'
<1>0. pc = "main" /\ UNCHANGED <<csv, val_rx_real, fmu_real, step>>
  BY DEF csv_index
<1>1. CASE csv = NULL
  BY <1>0, <1>1 DEF StimInv
<1>2. CASE csv # NULL /\ pc' = "exit"
  BY <1>0, <1>2 DEF StimInv, Running
<1>3. CASE csv # NULL /\ pc' # "exit"
  <2>1. /\ pc' = "inst" /\ index' = SubSeq(csv.header, 1, NCols)
        /\ line' = csv_read_line(0) /\ timestamp' = TimeOf(line')
    BY <1>3 DEF csv_index, NCols
  <2>2. csv \in CsvFile /\ step \in Nat /\ val_rx_real = Start
    BY <1>0, <1>3 DEF StimInv
  <2>3. IndexInv'
    <3>1. csv.header \in Seq({csv.header[c] : c \in DOMAIN csv.header})
      BY <2>2, CsvAssumption DEF CsvFile
    <3>2. 1 \in 1 .. Len(csv.header) + 1 /\ NCols \in 0 .. Len(csv.header) /\ NCols \in Nat
      BY <2>2, CsvFacts, FiniteInput DEF NCols
    <3>3. Len(index') = NCols /\ \A c \in 1 .. NCols : index'[c] = csv.header[c]
      BY <2>1, <3>1, <3>2
    <3>4. NCols' = NCols
      BY <1>0 DEF NCols
    <3> QED  BY <1>0, <3>3, <3>4 DEF IndexInv
  <2>4. LineInv'
    <3>1. line' = 0 \/ (line' \in DOMAIN csv.lines /\ Valid(line'))
      BY <2>1, <2>2, ReadLine
    <3> QED  BY <1>0, <2>1, <3>1 DEF LineInv, TimeOf, Valid
  <2>5. Applied' = {}
    <3> SUFFICES ASSUME NEW n \in Applied'  PROVE FALSE
      OBVIOUS
    <3>1. n \in DOMAIN csv.lines /\ Valid(n) /\ (line' # 0 => n < line')
      BY <1>0 DEF Applied, Valid
    <3>2. n \in Nat /\ n # 0
      BY <2>2, <3>1, CsvFacts
    <3>3. line' # 0 /\ line' <= n /\ line' \in Nat
      BY <2>1, <2>2, <3>1, <3>2, ReadLine, CsvFacts
    <3> QED  BY <3>1, <3>2, <3>3
  <2>6. ValueInv'
    <3>1. \A v \in Input : Cells(v, {}) = {}
      BY DEF Cells
    <3>2. \A v \in Input : Cells(v, Applied)' = {}
      BY <1>0, <2>5, <3>1 DEF Cells
    <3> QED  BY <1>0, <2>2, <3>2, CsvAssumption DEF ValueInv, Newest
  <2>7. TimeInv'
    BY <2>1, <2>5 DEF TimeInv
  <2> QED  BY <1>0, <2>1, <2>2, <2>3, <2>4, <2>6, <2>7 DEF StimInv
<1> QED  BY <1>1, <1>2, <1>3

LEMMA StimApplySample == ASSUME StimInv, ApplySample  PROVE StimInv'
<1>0. /\ pc = "samples" /\ pc' = "samples" /\ csv # NULL /\ Due(step)
      /\ val_rx_real' = ApplyLine(val_rx_real, line)
      /\ line' = csv_read_line(line) /\ timestamp' = TimeOf(line')
      /\ UNCHANGED <<csv, index, step>>
  BY DEF ApplySample
<1>1. csv \in CsvFile /\ step \in Nat /\ IndexInv /\ LineInv /\ ValueInv /\ TimeInv
  BY <1>0 DEF StimInv, Running
<1>2. line # 0
  BY <1>0, <1>1 DEF Due, LineInv, TimeOf
<1>3. /\ line \in DOMAIN csv.lines /\ Valid(line) /\ line \in Nat
      /\ strtod(csv.lines[line].ts) \in Nat /\ strtod(csv.lines[line].ts) <= step
  BY <1>0, <1>1, <1>2, CsvFacts DEF LineInv, TimeOf, Due
<1>4. Applied \subseteq Nat /\ \A n \in Applied : n < line
  BY <1>1, <1>2, CsvFacts DEF Applied
<1>5. /\ line' = 0 => \A m \in DOMAIN csv.lines : Valid(m) => m <= line
      /\ line' # 0 => /\ line' \in DOMAIN csv.lines /\ Valid(line') /\ line' > line
                      /\ \A m \in DOMAIN csv.lines : Valid(m) => m <= line \/ line' <= m
  BY <1>0, <1>1, <1>3, ReadLine
<1>6. Applied' = Applied \cup {line}
  <2>1. \A n \in DOMAIN csv.lines : n \in Nat
    BY <1>1, CsvFacts
  <2>2. \A n : n \in Applied' <=> n \in DOMAIN csv.lines /\ Valid(n) /\ (line' # 0 => n < line')
    BY <1>0 DEF Applied, Valid
  <2>3. \A n : n \in Applied <=> n \in DOMAIN csv.lines /\ Valid(n) /\ n < line
    BY <1>2 DEF Applied
  <2>4. ASSUME NEW n \in Applied'  PROVE n \in Applied \cup {line}
    <3>1. n \in DOMAIN csv.lines /\ Valid(n) /\ n \in Nat
      BY <2>1, <2>2
    <3>2. n <= line
      <4>1. CASE line' = 0  BY <1>5, <3>1, <4>1
      <4>2. CASE line' # 0
        <5>1. n < line' /\ line' \in Nat  BY <1>5, <2>1, <2>2, <4>2
        <5> QED  BY <1>5, <3>1, <4>2, <5>1
      <4> QED  BY <4>1, <4>2
    <3> QED  BY <1>3, <2>3, <3>1, <3>2
  <2>5. ASSUME NEW n \in Applied \cup {line}  PROVE n \in Applied'
    <3>1. n \in DOMAIN csv.lines /\ Valid(n) /\ n \in Nat /\ n <= line
      BY <1>3, <1>4, <2>1, <2>3
    <3>2. line' # 0 => n < line'
      BY <1>3, <1>5, <2>1, <3>1
    <3> QED  BY <2>2, <3>1, <3>2
  <2> QED  BY <2>4, <2>5
<1>7. ValueInv'
  <2>1. DOMAIN val_rx_real' = Input
    BY <1>0 DEF ApplyLine
  <2>2. ASSUME NEW v \in Input  PROVE Newest(val_rx_real'[v], v, Applied \cup {line})
    <3>1. Newest(val_rx_real[v], v, Applied)
      BY <1>1 DEF ValueInv
    <3> QED  BY <1>0, <1>1, <1>3, <1>4, <3>1, ApplyNewest
  <2>3. ASSUME NEW v \in Input  PROVE Newest(val_rx_real[v], v, Applied)'
    BY <1>0, <1>6, <2>2 DEF Newest, Cells
  <2> QED  BY <2>1, <2>3 DEF ValueInv
<1>8. IndexInv' /\ LineInv'
  <2>1. IndexInv'  BY <1>0, <1>1 DEF IndexInv, NCols
  <2>2. LineInv'  BY <1>0, <1>5 DEF LineInv, TimeOf, Valid
  <2> QED  BY <2>1, <2>2
<1>9. TimeInv'
  BY <1>0, <1>1, <1>3, <1>6 DEF TimeInv
<1> QED  BY <1>0, <1>1, <1>7, <1>8, <1>9 DEF StimInv

LEMMA StimStep == StimInv /\ [Next]_vars => StimInv'
<1> SUFFICES ASSUME StimInv, [Next]_vars  PROVE StimInv'
  OBVIOUS
<1> USE DEF csvVars, Running
<1>1. CASE csv_index  BY <1>1, StimCsvIndex
<1>2. CASE ApplySample  BY <1>2, StimApplySample
<1>3. CASE NextStep  BY <1>3, StimStutter DEF NextStep
<1>4. CASE StepFmu  BY <1>4, StimStutter DEF StepFmu
<1>5. CASE ReadFmu  BY <1>5, StimStutter DEF ReadFmu
<1>6. CASE SetupFails \/ InstantiateFmu \/ SetupFmu
  BY <1>6, StimStutter DEF SetupFails, InstantiateFmu, SetupFmu
<1>7. CASE Push \/ Inject \/ Pull \/ PullDone \/ SetElement
  BY <1>7, StimStutter DEF Push, Inject, Pull, PullDone, SetElement
<1>8. CASE StepReturns \/ Release \/ \E ok \in BOOLEAN : FreeFmu(ok)
  BY <1>8, StimStutter DEF StepReturns, Release, FreeFmu
<1>9. ASSUME NEW t \in TxBox, NEW f \in Frame, FmuEmits(t, f)  PROVE StimInv'
  <2>1. /\ pc = "step" /\ pc' = "step"
        /\ UNCHANGED <<csv, line, timestamp, index, val_rx_real, step, fmu_real>>
    BY <1>9 DEF FmuEmits
  <2>2. csv # NULL => fmu_real' = val_rx_real
    BY <2>1 DEF StimInv
  <2>3. CASE csv = NULL  BY <2>1, <2>3 DEF StimInv
  <2>4. CASE csv # NULL  BY <2>1, <2>2, <2>4, StimStutter
  <2> QED  BY <2>3, <2>4
<1>10. CASE UNCHANGED vars
  <2>1. UNCHANGED <<pc, csv, line, timestamp, index, val_rx_real, step, fmu_real>>
    BY <1>10 DEF vars
  <2>2. CASE csv = NULL  BY <2>1, <2>2 DEF StimInv
  <2>3. CASE csv # NULL
    <3>1. pc' = "step" => fmu_real' = val_rx_real
      BY <2>1, <2>3 DEF StimInv
    <3>2. CASE pc \in {"push", "pull", "set", "step"}  BY <2>1, <3>1, <3>2, StimStutter
    <3>3. CASE pc \notin {"push", "pull", "set", "step"}  BY <2>1, <3>1, <3>3, StimStutter
    <3> QED  BY <3>2, <3>3
  <2> QED  BY <2>2, <2>3
<1> QED
  BY <1>1, <1>2, <1>3, <1>4, <1>5, <1>6, <1>7, <1>8, <1>9, <1>10
  DEF Next, run_fmu2_cosim, run_fmu3_cosim, RunCosim, Exited

(* csv.c applies every sample in the step it is due, whatever the file:    *)
(* the FMU's inputs are the newest cells of the lines whose time has come, *)
(* as strtod reads them, and the start values before the first sample.     *)
THEOREM SamplesSafe == Spec => []SamplesOnTime
<1>1. StimInv => SamplesOnTime
  <2> SUFFICES ASSUME StimInv, pc = "step", csv # NULL, NEW v \in Input
               PROVE  LET C == CellsFor(v, step)
                      IN fmu_real[v] = IF C = {} THEN Start[v]
                                       ELSE strtod(csv.lines[LastCell(C)[1]].cells[LastCell(C)[2]])
    BY DEF SamplesOnTime
  <2>1. /\ csv \in CsvFile /\ step \in Nat /\ LineInv /\ ValueInv /\ TimeInv
        /\ fmu_real = val_rx_real
    BY DEF StimInv, Running
  <2>2. Applied = Past(step)
    <3>1. \A n \in DOMAIN csv.lines : n \in Nat /\ (Valid(n) => strtod(csv.lines[n].ts) \in Nat)
      BY <2>1, CsvFacts
    <3>2. ASSUME NEW n \in Applied  PROVE n \in Past(step)
      <4>1. n \in DOMAIN csv.lines /\ Valid(n) /\ (line # 0 => n < line)
        BY DEF Applied
      <4>2. ASSUME NEW m \in 1 .. n, Valid(m)  PROVE strtod(csv.lines[m].ts) <= step
        <5>1. m \in DOMAIN csv.lines
          BY <2>1, <3>1, <4>1, CsvFacts
        <5>2. line # 0 => m < line
          BY <2>1, <3>1, <4>1 DEF LineInv
        <5> QED  BY <2>1, <4>2, <5>1, <5>2 DEF Applied, TimeInv
      <4> QED  BY <4>1, <4>2 DEF Past
    <3>3. ASSUME NEW n \in Past(step)  PROVE n \in Applied
      <4>1. /\ n \in DOMAIN csv.lines /\ Valid(n) /\ n \in Nat
            /\ \A m \in 1 .. n : Valid(m) => strtod(csv.lines[m].ts) <= step
        BY <3>1 DEF Past
      <4>2. ASSUME line # 0  PROVE n < line
        <5>1. /\ line \in DOMAIN csv.lines /\ Valid(line) /\ line \in Nat
              /\ strtod(csv.lines[line].ts) \in Nat /\ strtod(csv.lines[line].ts) > step
          BY <2>1, <3>1, <4>2 DEF LineInv, TimeInv
        <5>2. line \notin 1 .. n
          BY <2>1, <4>1, <5>1
        <5> QED  BY <4>1, <4>2, <5>1, <5>2
      <4> QED  BY <4>1, <4>2 DEF Applied
    <3> QED  BY <3>2, <3>3
  <2>3. CellsFor(v, step) = Cells(v, Applied)
    BY <2>2 DEF CellsFor, Cells
  <2>4. Newest(fmu_real[v], v, Applied)
    BY <2>1 DEF ValueInv
  <2>5. CASE Cells(v, Applied) = {}
    <3>1. fmu_real[v] = Start[v]
      BY <2>4, <2>5 DEF Newest, IsLast
    <3> QED  BY <2>3, <2>5, <3>1
  <2>6. CASE Cells(v, Applied) # {}
    <3>1. PICK c : IsLast(c, Cells(v, Applied)) /\ fmu_real[v] = strtod(csv.lines[c[1]].cells[c[2]])
      BY <2>4, <2>6 DEF Newest
    <3>2. Applied \subseteq Nat
      BY <2>1, CsvFacts DEF Applied
    <3>3. LastCell(Cells(v, Applied)) = c
      BY <3>1, <3>2, LastUnique
    <3> QED  BY <2>3, <2>6, <3>1, <3>3
  <2> QED  BY <2>5, <2>6
<1> QED  BY <1>1, StimInit, StimStep, PTL DEF Spec
=============================================================================
