-------------------------- MODULE FmuInstance_proofs --------------------------
(***************************************************************************)
(* Proofs about FmuInstance, for every set of variables, signals, frames   *)
(* and values and every bound MaxFrames.                                   *)
(***************************************************************************)
EXTENDS FmuInstance, SequenceTheorems, TLAPS

(***************************************************************************)
(* The inductive invariant of the binary signals.                          *)
(***************************************************************************)

(* An input holds what the importer sent in this cycle, once the cycle's   *)
(* reset happened, and nothing was sent before it; what was read is the    *)
(* part before the position, which leaves 0 only while the step runs.      *)
RxInv ==
  \A s \in Rx :
    /\ sent[s] = IF signals_reset THEN stream[s].data ELSE << >>
    /\ phase # "step" => got[s] = << >>
    /\ s \in NCodec =>
         /\ signals_reset => stream[s].pos <= Len(stream[s].data)
         /\ signals_reset /\ phase # "step" => stream[s].pos = 0
         /\ phase = "step" => got[s] = SubSeq(stream[s].data, 1, stream[s].pos)

(* An output holds what the last step wrote until the cycle's reset; its   *)
(* stream stands at the end, so a write appends.                           *)
TxInv ==
  \A s \in Tx :
    /\ stream[s].data = IF signals_reset /\ phase # "step" THEN << >> ELSE written[s]
    /\ s \in NCodec => stream[s].pos = Len(stream[s].data)

(* A step runs only after a reset; without an instance nothing is stored.  *)
PhaseInv ==
  /\ phase = "step" => signals_reset
  /\ phase = "none" => ~signals_reset /\ written = NoFrames

CycleInv == TypeOK /\ RxInv /\ TxInv /\ PhaseInv
-----------------------------------------------------------------------------
(***************************************************************************)
(* Lemmas about streams.                                                   *)
(***************************************************************************)

(* Every stream operation that the instance uses keeps a stream a stream.  *)
LEMMA StreamTypes ==
  ASSUME NEW F, NEW st \in Streams(F), NEW d \in Seq(F)
  PROVE  /\ EmptyStream \in Streams(F)
         /\ SignalAppend(st, d) \in Streams(F)
         /\ SignalClear(st) \in Streams(F)
         /\ StreamSeek(st, 0, "SEEK_RESET") = EmptyStream
         /\ StreamRead(st, "POS_UPDATE") \in Streams(F)
         /\ StreamReadData(st) \in Seq(F)
         /\ StreamWrite(st, d) \in Streams(F)
<1> DEFINE n == Len(st.data)
<1>1. st.data \in Seq(F) /\ st.pos \in Nat /\ n \in Nat
  BY LenProperties DEF Streams
<1>2. EmptyStream \in Streams(F)
  BY EmptySeq DEF EmptyStream, Streams
<1>3. SignalAppend(st, d) \in Streams(F)
  BY <1>1, ConcatProperties DEF SignalAppend, Streams
<1>4. SignalClear(st) \in Streams(F)
  BY EmptySeq DEF SignalClear, Streams
<1>5. StreamRead(st, "POS_UPDATE") \in Streams(F)
  BY <1>1 DEF StreamRead, Streams, At
<1>6. StreamReadData(st) \in Seq(F)
  <2>1. CASE st.pos >= n
    BY <2>1, EmptySeq DEF StreamReadData
  <2>2. CASE st.pos < n
    <3>1. \A i \in st.pos + 1 .. n : st.data[i] \in F
      BY <1>1, ElementOfSeq
    <3>2. SubSeq(st.data, st.pos + 1, n) \in Seq(F)
      BY <1>1, <3>1, SubSeqProperties
    <3> QED  BY <1>1, <2>2, <3>2 DEF StreamReadData
  <2> QED  BY <1>1, <2>1, <2>2
<1>7. StreamWrite(st, d) \in Streams(F)
  <2> DEFINE p == ClampPos(st, st.pos)
  <2>1. p \in Nat /\ p <= n
    BY <1>1 DEF ClampPos
  <2>2. \A i \in 1 .. p : st.data[i] \in F
    BY <1>1, <2>1, ElementOfSeq
  <2>3. SubSeq(st.data, 1, p) \in Seq(F)
    BY <2>1, <2>2, SubSeqProperties
  <2>4. SubSeq(st.data, 1, p) \o d \in Seq(F) /\ p + Len(d) \in Nat
    BY <2>1, <2>3, ConcatProperties, LenProperties
  <2> QED  BY <2>4 DEF StreamWrite, Streams
<1>8. StreamSeek(st, 0, "SEEK_RESET") = EmptyStream
  BY DEF StreamSeek
<1> QED  BY <1>2, <1>3, <1>4, <1>5, <1>6, <1>7, <1>8

(* stream_write at the end of the signal appends and stays at the end.     *)
LEMMA WriteAtEnd ==
  ASSUME NEW F, NEW st \in Streams(F), NEW d \in Seq(F), st.pos = Len(st.data)
  PROVE  /\ StreamWrite(st, d).data = st.data \o d
         /\ StreamWrite(st, d).pos = Len(StreamWrite(st, d).data)
<1>1. st.data \in Seq(F) /\ Len(st.data) \in Nat
  BY LenProperties DEF Streams
<1>2. ClampPos(st, st.pos) = Len(st.data)
  BY <1>1 DEF ClampPos
<1>3. SubSeq(st.data, 1, Len(st.data)) = st.data
  BY <1>1, SubSeqFull
<1>4. Len(st.data \o d) = Len(st.data) + Len(d)
  BY <1>1, ConcatProperties
<1> QED  BY <1>2, <1>3, <1>4 DEF StreamWrite

(* stream_read hands out the part behind the position, once.               *)
LEMMA ReadContinues ==
  ASSUME NEW F, NEW st \in Streams(F), st.pos <= Len(st.data)
  PROVE  /\ StreamRead(st, "POS_UPDATE").data = st.data
         /\ StreamRead(st, "POS_UPDATE").pos <= Len(st.data)
         /\ SubSeq(st.data, 1, st.pos) \o StreamReadData(st)
              = SubSeq(st.data, 1, StreamRead(st, "POS_UPDATE").pos)
<1>1. st.data \in Seq(F) /\ st.pos \in Nat /\ Len(st.data) \in Nat
  BY LenProperties DEF Streams
<1>2. CASE st.pos = Len(st.data)
  <2>1. StreamRead(st, "POS_UPDATE") = st /\ StreamReadData(st) = << >>
    BY <1>1, <1>2 DEF StreamRead, StreamReadData
  <2>2. /\ SubSeq(st.data, 1, Len(st.data)) = st.data
        /\ st.data \o << >> = st.data
    BY <1>1, SubSeqFull, ConcatEmptySeq
  <2> QED  BY <1>1, <1>2, <2>1, <2>2
<1>3. CASE st.pos < Len(st.data)
  <2>1. /\ ~(st.pos >= Len(st.data))
        /\ 1 \in 1 .. Len(st.data) + 1
        /\ st.pos \in 1 - 1 .. Len(st.data)
        /\ Len(st.data) \in st.pos .. Len(st.data)
    BY <1>1, <1>3
  <2>2. /\ StreamRead(st, "POS_UPDATE").data = st.data
        /\ StreamRead(st, "POS_UPDATE").pos = Len(st.data)
    BY <2>1 DEF StreamRead, At
  <2>3. StreamReadData(st) = SubSeq(st.data, st.pos + 1, Len(st.data))
    BY <2>1 DEF StreamReadData
  <2>4. SubSeq(st.data, 1, st.pos) \o SubSeq(st.data, st.pos + 1, Len(st.data))
          = SubSeq(st.data, 1, Len(st.data))
    BY <1>1, <2>1, ConcatAdjacentSubSeq
  <2>5. SubSeq(st.data, 1, st.pos) \o StreamReadData(st)
          = SubSeq(st.data, 1, StreamRead(st, "POS_UPDATE").pos)
    BY <2>2, <2>3, <2>4, Zenon
  <2>6. StreamRead(st, "POS_UPDATE").pos <= Len(st.data)
    BY <1>1, <2>2
  <2> QED  BY <2>2, <2>5, <2>6, Zenon
<1>4. st.pos = Len(st.data) \/ st.pos < Len(st.data)
  BY <1>1
<1> QED  BY <1>2, <1>3, <1>4, Zenon
-----------------------------------------------------------------------------
(***************************************************************************)
(* Lemmas about the instance.                                              *)
(***************************************************************************)

(* Inputs and outputs are signals, and no signal is both.                  *)
LEMMA SignalsDisjoint == Rx \subseteq Signal /\ Tx \subseteq Signal /\ Rx \cap Tx = {}
BY IndexAssumption DEF Rx, Tx

(* Frames that reach a signal are frames: encoding and decoding cancel.    *)
LEMMA Decoded ==
  ASSUME NEW v, NEW f
  PROVE  DecodedData(v, ImporterText(v, f)) = <<f>>
BY DEF DecodedData, ImporterText, dse_ascii85_encode, dse_ascii85_decode

(* fmu_default_signals_reset outside a step: inputs keep exactly what was  *)
(* sent in this cycle, outputs are empty, streams are rewound.             *)
LEMMA ResetFacts ==
  ASSUME CycleInv, phase # "step"
  PROVE  /\ ResetStreams \in [Signal -> Streams(Frame)]
         /\ \A s \in Rx : /\ ResetStreams[s].data = sent[s]
                          /\ s \in NCodec => ResetStreams[s].pos = 0
         /\ \A s \in Tx : /\ ResetStreams[s].data = << >>
                          /\ s \in NCodec => ResetStreams[s].pos = 0
<1>1. stream \in [Signal -> Streams(Frame)]
  BY DEF CycleInv, TypeOK
<1>2. CASE signals_reset
  <2>1. ResetStreams = stream
    BY <1>2 DEF ResetStreams
  <2>2. \A s \in Tx : stream[s].data = << >> /\ (s \in NCodec => stream[s].pos = 0)
    BY <1>2, EmptySeq DEF CycleInv, TxInv
  <2>3. \A s \in Rx : stream[s].data = sent[s] /\ (s \in NCodec => stream[s].pos = 0)
    BY <1>2 DEF CycleInv, RxInv
  <2> QED  BY <1>1, <2>1, <2>2, <2>3
<1>3. CASE ~signals_reset
  <2>1. ResetStreams = [s \in Signal |-> ResetSignal(s)]
    BY <1>3 DEF ResetStreams
  <2>2. ASSUME NEW s \in Signal
        PROVE  /\ ResetSignal(s) \in Streams(Frame)
               /\ ResetSignal(s).data = << >>
               /\ s \in NCodec => ResetSignal(s).pos = 0
    <3>1. stream[s] \in Streams(Frame)
      BY <1>1
    <3>2. /\ EmptyStream \in Streams(Frame)
          /\ SignalClear(stream[s]) \in Streams(Frame)
          /\ StreamSeek(stream[s], 0, "SEEK_RESET") = EmptyStream
      BY <3>1, EmptySeq, StreamTypes
    <3> QED  BY <3>2 DEF ResetSignal, SignalClear, EmptyStream
  <2>3. \A s \in Rx : sent[s] = << >>
    BY <1>3 DEF CycleInv, RxInv
  <2> QED  BY <2>1, <2>2, <2>3, SignalsDisjoint
<1> QED  BY <1>2, <1>3

(* What GetString returns is a string.                                     *)
LEMMA ReturnedTextType ==
  ASSUME TypeOK, NEW v \in TxVRef, stream[TxSig[v]].data # << >>
  PROVE  ReturnedText(v) \in Strings
<1>1. stream[TxSig[v]].data \in Seq(Frame)
  BY IndexAssumption DEF TypeOK, Streams
<1>2. Head(stream[TxSig[v]].data) \in Frame
  BY <1>1, HeadTailProperties
<1>3. <<Head(stream[TxSig[v]].data)>> \in Seq(Frame)
  BY <1>2
<1> QED  BY <1>1, <1>3 DEF ReturnedText, Strings, dse_ascii85_encode
-----------------------------------------------------------------------------
(***************************************************************************)
(* CycleInv is inductive.                                                  *)
(***************************************************************************)

(* The two APIs share their steps: Next by step, not by API function.      *)
Steps ==
  \/ \E ver \in {2, 3}, R \in SUBSET Scalar : Instantiate(ver, R)
  \/ ExitInitializationMode
  \/ \E rc \in {0, 1} : ReturnInit(rc)
  \/ \E v \in Input, x \in Value : SetReal(v, x)
  \/ SetNull
  \/ \E v \in RxVRef, f \in Frame : SetBinary(v, f)
  \/ \E v \in StrVRef, x \in Text : SetString(v, x)
  \/ \E V \in SUBSET TxVRef : GetString(V)
  \/ DoStep
  \/ \E s \in Signal : FmuRead(s)
  \/ \E s \in Signal, f \in Frame : FmuWrite(s, f)
  \/ \E v \in Scalar, x \in Value : FmuSetVar(v, x)
  \/ \E rc \in {0, 1} : ReturnStep(rc)
  \/ FreeInstance

LEMMA NextSteps == Next => Steps
  BY DEF Next, Steps, fmi2Instantiate, fmi3InstantiateCoSimulation, fmi2SetReal,
     fmi3SetFloat64, fmi2SetString, fmi3SetBinary, fmi3SetString, fmi2GetString,
     fmi3GetBinary, fmi2DoStep, fmi3DoStep, fmi2FreeInstance, fmi3FreeInstance

(* The initial state, and the state Instantiate and FreeInstance set up.   *)
LEMMA CycleInit == Init => CycleInv
<1> SUFFICES ASSUME Init PROVE CycleInv
  OBVIOUS
<1> USE DEF Init
<1>1. EmptyStream \in Streams(Frame) /\ << >> \in Seq(Frame) /\ Len(<< >>) = 0
  BY EmptySeq DEF EmptyStream, Streams
<1>2. TypeOK
  BY <1>1, ValueAssumption DEF TypeOK, NoFrames, NoStrings, NoneHeld, Scalar
<1>3. RxInv
  BY <1>1, SignalsDisjoint DEF RxInv, NoFrames
<1>4. TxInv
  BY <1>1, SignalsDisjoint DEF TxInv, NoFrames, EmptyStream
<1>5. PhaseInv
  BY DEF PhaseInv
<1> QED  BY <1>2, <1>3, <1>4, <1>5 DEF CycleInv

(* Each action preserves CycleInv.                                         *)
LEMMA CycleNext == CycleInv /\ [Next]_vars => CycleInv'
<1> SUFFICES ASSUME CycleInv, [Next]_vars PROVE CycleInv'
  OBVIOUS
<1> USE DEF CycleInv
<1>e. EmptyStream \in Streams(Frame) /\ << >> \in Seq(Frame) /\ Len(<< >>) = 0
  BY EmptySeq DEF EmptyStream, Streams
<1>s. Rx \subseteq Signal /\ Tx \subseteq Signal /\ Rx \cap Tx = {}
  BY SignalsDisjoint
<1>n. NoFrames \in [Signal -> Seq(Frame)] /\ \A s \in Signal : NoFrames[s] = << >>
  BY <1>e DEF NoFrames
<1>h. /\ NoneHeld \in [TxVRef -> Ptr \cup {NULL}]
      /\ NoStrings \in [Ptr -> Strings \cup {NULL}]
  BY DEF NoneHeld, NoStrings
<1>1. ASSUME NEW ver \in {2, 3}, NEW R \in SUBSET Scalar, Instantiate(ver, R)
      PROVE  CycleInv'
  <2> USE <1>1 DEF Instantiate
  <2>1. TypeOK'
    BY <1>e, <1>n, ValueAssumption DEF TypeOK, fmu_register_var
  <2>2. RxInv'
    BY <1>e, <1>s, <1>n DEF RxInv
  <2>3. TxInv'
    BY <1>e, <1>s, <1>n DEF TxInv, EmptyStream
  <2>4. PhaseInv'
    BY DEF PhaseInv
  <2> QED  BY <2>1, <2>2, <2>3, <2>4
<1>2. CASE ExitInitializationMode
  BY <1>2 DEF ExitInitializationMode, TypeOK, RxInv, TxInv, PhaseInv, sigVars, strVars, scaVars
<1>3. ASSUME NEW rc \in {0, 1}, ReturnInit(rc) PROVE CycleInv'
  BY <1>3 DEF ReturnInit, TypeOK, RxInv, TxInv, PhaseInv, sigVars, strVars, scaVars
<1>4. ASSUME NEW v \in Input, NEW x \in Value, SetReal(v, x) PROVE CycleInv'
  BY <1>4 DEF SetReal, TypeOK, RxInv, TxInv, PhaseInv, sigVars, strVars, Scalar
<1>5. CASE SetNull
  <2> USE <1>5 DEF SetNull, Idle
  <2>1. /\ stream' \in [Signal -> Streams(Frame)]
        /\ \A s \in Rx : stream'[s].data = sent[s] /\ (s \in NCodec => stream'[s].pos = 0)
        /\ \A s \in Tx : stream'[s].data = << >> /\ (s \in NCodec => stream'[s].pos = 0)
    BY ResetFacts
  <2>2. TypeOK'
    BY <2>1 DEF TypeOK, strVars, scaVars
  <2>3. RxInv'
    BY <2>1, <1>s DEF RxInv, TypeOK
  <2>4. TxInv'
    BY <2>1, <1>e DEF TxInv
  <2>5. PhaseInv'
    BY DEF PhaseInv
  <2> QED  BY <2>2, <2>3, <2>4, <2>5
<1>6. ASSUME NEW v \in RxVRef, NEW f \in Frame, SetBinary(v, f) PROVE CycleInv'
  <2> USE <1>6 DEF SetBinary, Idle
  <2> DEFINE r == RxSig[v]
  <2>1. /\ ResetStreams \in [Signal -> Streams(Frame)]
        /\ \A s \in Rx : ResetStreams[s].data = sent[s] /\ (s \in NCodec => ResetStreams[s].pos = 0)
        /\ \A s \in Tx : ResetStreams[s].data = << >> /\ (s \in NCodec => ResetStreams[s].pos = 0)
    BY ResetFacts
  <2>2. r \in Rx /\ r \in Signal /\ r \notin Tx
    BY <1>s DEF Rx
  <2>3. stream' = [ResetStreams EXCEPT ![r] = SignalAppend(ResetStreams[r], <<f>>)]
    BY Decoded
  <2>4. <<f>> \in Seq(Frame) /\ sent[r] \in Seq(Frame)
    BY <2>2 DEF TypeOK
  <2>5. /\ SignalAppend(ResetStreams[r], <<f>>) \in Streams(Frame)
        /\ sent[r] \o <<f>> \in Seq(Frame)
    BY <2>1, <2>2, <2>4, StreamTypes, ConcatProperties
  <2>6. /\ stream' \in [Signal -> Streams(Frame)]
        /\ stream'[r].data = sent[r] \o <<f>> /\ stream'[r].pos = ResetStreams[r].pos
        /\ \A s \in Signal : s # r => stream'[s] = ResetStreams[s]
    <3> HIDE <1>6 DEF SetBinary, Idle
    <3>1. /\ stream' \in [Signal -> Streams(Frame)]
          /\ stream'[r] = SignalAppend(ResetStreams[r], <<f>>)
          /\ \A s \in Signal : s # r => stream'[s] = ResetStreams[s]
      BY <2>1, <2>2, <2>3, <2>5
    <3>2. ResetStreams[r].data = sent[r]
      BY <2>1, <2>2
    <3> QED  BY <3>1, <3>2 DEF SignalAppend
  <2>7. /\ sent' \in [Signal -> Seq(Frame)]
        /\ sent'[r] = sent[r] \o <<f>>
        /\ \A s \in Signal : s # r => sent'[s] = sent[s]
    BY <2>2, <2>5 DEF TypeOK
  <2>8. TypeOK'
    BY <2>6, <2>7 DEF TypeOK, strVars, scaVars
  <2>9. RxInv'
    <3> SUFFICES ASSUME NEW s \in Rx
                 PROVE  /\ sent'[s] = stream'[s].data
                        /\ got'[s] = << >>
                        /\ s \in NCodec => stream'[s].pos = 0 /\ 0 <= Len(stream'[s].data)
      BY DEF RxInv
    <3>1. got'[s] = << >>
      BY DEF RxInv
    <3>2. stream'[s].data = sent'[s]
      BY <1>s, <2>1, <2>6, <2>7
    <3>3. s \in NCodec => stream'[s].pos = 0
      BY <1>s, <2>1, <2>2, <2>6
    <3>4. stream'[s].data \in Seq(Frame)
      BY <1>s, <2>6 DEF Streams
    <3>5. Len(stream'[s].data) \in Nat
      BY <3>4, LenProperties
    <3> QED  BY <3>1, <3>2, <3>3, <3>5
  <2>10. TxInv'
    BY <1>s, <1>e, <2>1, <2>2, <2>6 DEF TxInv
  <2>11. PhaseInv'
    BY DEF PhaseInv
  <2> QED  BY <2>8, <2>9, <2>10, <2>11
<1>7. ASSUME NEW v \in StrVRef, NEW x \in Text, SetString(v, x) PROVE CycleInv'
  <2> USE <1>7 DEF SetString, Idle
  <2>0. string_input' \in [StrVRef -> Text \cup {NULL}]
    BY DEF TypeOK
  <2>1. CASE version = 2
    <3>1. /\ stream' \in [Signal -> Streams(Frame)]
          /\ \A s \in Rx : stream'[s].data = sent[s] /\ (s \in NCodec => stream'[s].pos = 0)
          /\ \A s \in Tx : stream'[s].data = << >> /\ (s \in NCodec => stream'[s].pos = 0)
      BY <2>1, ResetFacts
    <3>2. signals_reset' = TRUE
      BY <2>1
    <3>3. TypeOK'
      BY <2>0, <3>1, <3>2 DEF TypeOK, strVars, scaVars
    <3>4. RxInv'
      BY <3>1, <3>2, <1>s DEF RxInv, TypeOK
    <3>5. TxInv'
      BY <3>1, <3>2, <1>e DEF TxInv
    <3>6. PhaseInv'
      BY DEF PhaseInv
    <3> QED  BY <3>3, <3>4, <3>5, <3>6
  <2>2. CASE version = 3
    BY <2>0, <2>2 DEF TypeOK, RxInv, TxInv, PhaseInv, strVars, scaVars
  <2> QED  BY <2>1, <2>2
<1>8. ASSUME NEW V \in SUBSET TxVRef, GetString(V) PROVE CycleInv'
  <2> DEFINE full == {v \in V : stream[TxSig[v]].data # << >>}
  <2>1. PICK q \in [full -> Ptr] :
          /\ heap' = [c \in Ptr |->
                        IF \E v \in full : q[v] = c
                        THEN ReturnedText(CHOOSE v \in full : q[v] = c)
                        ELSE IF c \in free_list THEN NULL ELSE heap[c]]
          /\ free_list' = {q[v] : v \in full}
          /\ held' = [v \in TxVRef |-> IF v \in full THEN q[v] ELSE NULL]
    BY <1>8 DEF GetString
  <2>2. \A v \in full : ReturnedText(v) \in Strings
    BY ReturnedTextType
  <2>3. heap' \in [Ptr -> Strings \cup {NULL}]
    BY <2>1, <2>2 DEF TypeOK
  <2>4. held' \in [TxVRef -> Ptr \cup {NULL}] /\ free_list' \in SUBSET Ptr
    BY <2>1
  <2>5. UNCHANGED <<phase, version, status, string_input, sigVars, scaVars>>
    BY <1>8 DEF GetString
  <2> QED  BY <2>3, <2>4, <2>5 DEF TypeOK, RxInv, TxInv, PhaseInv, sigVars, scaVars
<1>9. CASE DoStep
  <2> USE <1>9 DEF DoStep
  <2>1. /\ stream' \in [Signal -> Streams(Frame)]
        /\ \A s \in Rx : stream'[s].data = sent[s] /\ (s \in NCodec => stream'[s].pos = 0)
        /\ \A s \in Tx : stream'[s].data = << >> /\ (s \in NCodec => stream'[s].pos = 0)
    BY ResetFacts
  <2>2. TypeOK'
    BY <2>1, <1>n DEF TypeOK, strVars, MarshalToTable
  <2>3. RxInv'
    <3> SUFFICES ASSUME NEW s \in Rx
                 PROVE  /\ sent[s] = stream'[s].data
                        /\ s \in NCodec =>
                             /\ stream'[s].pos <= Len(stream'[s].data)
                             /\ got[s] = SubSeq(stream'[s].data, 1, stream'[s].pos)
      BY DEF RxInv
    <3>1. sent[s] \in Seq(Frame) /\ Len(sent[s]) \in Nat
      BY <1>s, LenProperties DEF TypeOK
    <3>2. got[s] = << >> /\ SubSeq(sent[s], 1, 0) = << >>
      BY SubSeqEmpty DEF RxInv
    <3> QED  BY <2>1, <3>1, <3>2
  <2>4. TxInv'
    BY <2>1, <1>e, <1>n, <1>s DEF TxInv
  <2>5. PhaseInv'
    BY DEF PhaseInv
  <2> QED  BY <2>2, <2>3, <2>4, <2>5
<1>10. ASSUME NEW r \in Signal, FmuRead(r) PROVE CycleInv'
  <2> USE <1>10 DEF FmuRead
  <2>0. r \in Rx /\ r \in NCodec /\ r \notin Tx /\ signals_reset
    BY <1>s DEF PhaseInv
  <2>1. stream[r] \in Streams(Frame) /\ stream[r].pos <= Len(stream[r].data)
    BY <2>0 DEF TypeOK, RxInv
  <2>2. /\ StreamRead(stream[r], "POS_UPDATE") \in Streams(Frame)
        /\ StreamReadData(stream[r]) \in Seq(Frame)
    BY <1>e, <2>1, StreamTypes
  <2>3. /\ stream' \in [Signal -> Streams(Frame)]
        /\ stream'[r] = StreamRead(stream[r], "POS_UPDATE")
        /\ \A s \in Signal : s # r => stream'[s] = stream[s]
    BY <2>2 DEF TypeOK
  <2>4. got[r] \o StreamReadData(stream[r]) \in Seq(Frame)
    BY <2>2, ConcatProperties DEF TypeOK
  <2>5. /\ got' \in [Signal -> Seq(Frame)]
        /\ got'[r] = got[r] \o StreamReadData(stream[r])
        /\ \A s \in Signal : s # r => got'[s] = got[s]
    BY <2>4 DEF TypeOK
  <2>6. /\ stream'[r].data = stream[r].data
        /\ stream'[r].pos <= Len(stream[r].data)
        /\ SubSeq(stream[r].data, 1, stream[r].pos) \o StreamReadData(stream[r])
             = SubSeq(stream[r].data, 1, stream'[r].pos)
    BY <2>1, <2>3, ReadContinues
  <2>7. got[r] = SubSeq(stream[r].data, 1, stream[r].pos) /\ sent[r] = stream[r].data
    BY <2>0 DEF RxInv
  <2>8. TypeOK'
    BY <2>3, <2>5 DEF TypeOK, strVars, scaVars
  <2>9. RxInv'
    <3> SUFFICES ASSUME NEW s \in Rx
                 PROVE  /\ sent[s] = stream'[s].data
                        /\ s \in NCodec =>
                             /\ stream'[s].pos <= Len(stream'[s].data)
                             /\ got'[s] = SubSeq(stream'[s].data, 1, stream'[s].pos)
      BY <2>0 DEF RxInv
    <3>1. CASE s = r
      BY <2>5, <2>6, <2>7, <3>1, Zenon
    <3>2. CASE s # r
      BY <1>s, <2>0, <2>3, <2>5, <3>2 DEF RxInv
    <3> QED  BY <3>1, <3>2
  <2>10. TxInv'
    BY <1>s, <2>0, <2>3 DEF TxInv
  <2>11. PhaseInv'
    BY DEF PhaseInv
  <2> QED  BY <2>8, <2>9, <2>10, <2>11
<1>11. ASSUME NEW r \in Signal, NEW f \in Frame, FmuWrite(r, f) PROVE CycleInv'
  <2> USE <1>11 DEF FmuWrite
  <2> DEFINE nx == IF r \in NCodec THEN StreamWrite(stream[r], <<f>>)
                                   ELSE SignalAppend(stream[r], <<f>>)
  <2>0. r \in Tx /\ r \notin Rx /\ signals_reset
    BY <1>s DEF PhaseInv
  <2>1. stream[r] \in Streams(Frame) /\ <<f>> \in Seq(Frame)
    BY DEF TypeOK
  <2>2. nx \in Streams(Frame) /\ written[r] \o <<f>> \in Seq(Frame)
    BY <2>1, StreamTypes, ConcatProperties DEF TypeOK
  <2>3. /\ stream' \in [Signal -> Streams(Frame)]
        /\ stream'[r] = nx
        /\ \A s \in Signal : s # r => stream'[s] = stream[s]
    BY <2>2 DEF TypeOK
  <2>4. /\ written' \in [Signal -> Seq(Frame)]
        /\ written'[r] = written[r] \o <<f>>
        /\ \A s \in Signal : s # r => written'[s] = written[s]
    BY <2>2 DEF TypeOK
  <2>5. /\ stream[r].data = written[r]
        /\ r \in NCodec => stream[r].pos = Len(stream[r].data)
    BY <2>0 DEF TxInv
  <2>6. nx.data = stream[r].data \o <<f>> /\ (r \in NCodec => nx.pos = Len(nx.data))
    BY <2>1, <2>5, WriteAtEnd DEF SignalAppend
  <2>7. TypeOK'
    BY <2>3, <2>4 DEF TypeOK, strVars, scaVars
  <2>8. RxInv'
    BY <1>s, <2>0, <2>3 DEF RxInv
  <2>9. TxInv'
    <3> SUFFICES ASSUME NEW s \in Tx
                 PROVE  /\ stream'[s].data = written'[s]
                        /\ s \in NCodec => stream'[s].pos = Len(stream'[s].data)
      BY DEF TxInv
    <3>1. CASE s = r
      BY <2>3, <2>4, <2>5, <2>6, <3>1, Zenon
    <3>2. CASE s # r
      BY <1>s, <2>0, <2>3, <2>4, <3>2 DEF TxInv
    <3> QED  BY <3>1, <3>2
  <2>10. PhaseInv'
    BY DEF PhaseInv
  <2> QED  BY <2>7, <2>8, <2>9, <2>10
<1>12. ASSUME NEW v \in Scalar, NEW x \in Value, FmuSetVar(v, x) PROVE CycleInv'
  BY <1>12 DEF FmuSetVar, TypeOK, RxInv, TxInv, PhaseInv, sigVars, strVars
<1>13. ASSUME NEW rc \in {0, 1}, ReturnStep(rc) PROVE CycleInv'
  <2> USE <1>13 DEF ReturnStep
  <2>1. TypeOK'
    BY <1>n DEF TypeOK, strVars, MarshalToSignals
  <2>2. RxInv'
    BY <1>n, <1>s DEF RxInv
  <2>3. TxInv'
    BY DEF TxInv
  <2>4. PhaseInv'
    BY DEF PhaseInv
  <2> QED  BY <2>1, <2>2, <2>3, <2>4
<1>14. CASE FreeInstance
  <2> USE <1>14 DEF FreeInstance
  <2>1. TypeOK'
    BY <1>e, <1>n, <1>h, ValueAssumption DEF TypeOK
  <2>2. RxInv'
    BY <1>e, <1>n, <1>s DEF RxInv
  <2>3. TxInv'
    BY <1>e, <1>n, <1>s DEF TxInv, EmptyStream
  <2>4. PhaseInv'
    BY DEF PhaseInv
  <2> QED  BY <2>1, <2>2, <2>3, <2>4
<1>15. CASE UNCHANGED vars
  BY <1>15 DEF vars, TypeOK, RxInv, TxInv, PhaseInv, sigVars, strVars, scaVars
<1> QED
  BY <1>1, <1>2, <1>3, <1>4, <1>5, <1>6, <1>7, <1>8, <1>9, <1>10, <1>11, <1>12,
     <1>13, <1>14, <1>15, NextSteps DEF Steps

(* The binary signals keep their cycle discipline in every behaviour.      *)
THEOREM CycleSafe == Spec => []CycleInv
BY CycleInit, CycleNext, PTL DEF Spec

(* Type correctness of the FMU instance.                                   *)
THEOREM TypeCorrect == Spec => []TypeOK
<1>1. CycleInv => TypeOK
  BY DEF CycleInv
<1> QED  BY <1>1, CycleSafe, PTL

(* fmu_step finds exactly the frames of its own cycle, in order, and reads *)
(* each of them once.                                                      *)
THEOREM DeliverySafe == Spec => []StepDelivery
<1>1. CycleInv => StepDelivery
  BY DEF CycleInv, RxInv, PhaseInv, StepDelivery
<1> QED  BY <1>1, CycleSafe, PTL

(* GetString finds all the output of the last step and none of an older.   *)
THEOREM OutputsSafe == Spec => []OutputsFresh
<1>1. CycleInv => OutputsFresh
  BY DEF CycleInv, TxInv, OutputsFresh, Idle
<1> QED  BY <1>1, CycleSafe, PTL
(* A pointer of p is that of one reference, so that the text behind it is  *)
(* the text of this reference and not of another one of the call.          *)
LEMMA TextsHeld ==
  ASSUME CycleInv, NEW V \in SUBSET TxVRef, GetString(V), ~signals_reset,
         NEW v \in V \cap Encoded, written[TxSig[v]] # << >>
  PROVE  /\ held'[v] # NULL
         /\ heap'[held'[v]] = dse_ascii85_encode(written[TxSig[v]])
<1> DEFINE full == {w \in V : stream[TxSig[w]].data # << >>}
<1>1. TxSig[v] \in Tx
  BY DEF Tx
<1>2. stream[TxSig[v]].data = written[TxSig[v]]
  BY <1>1 DEF CycleInv, TxInv
<1>3. v \in full
  BY <1>2
<1>4. PICK p \in [full -> Ptr] :
        /\ \A u, w \in full : u # w => p[u] # p[w]
        /\ heap' = [q \in Ptr |->
                      IF \E w \in full : p[w] = q
                      THEN ReturnedText(CHOOSE w \in full : p[w] = q)
                      ELSE IF q \in free_list THEN NULL ELSE heap[q]]
        /\ held' = [w \in TxVRef |-> IF w \in full THEN p[w] ELSE NULL]
  BY DEF GetString
<1>5. p[v] \in Ptr /\ p[v] # NULL /\ held'[v] = p[v]
  BY <1>3, <1>4, ValueAssumption
<1>6. (CHOOSE w \in full : p[w] = p[v]) = v
  BY <1>3, <1>4
<1>7. heap'[p[v]] = ReturnedText(v)
  BY <1>3, <1>4, <1>5, <1>6
<1>8. ReturnedText(v) = dse_ascii85_encode(written[TxSig[v]])
  BY <1>2 DEF ReturnedText
<1> QED  BY <1>5, <1>7, <1>8

(* What GetString returns for an encoded output, before the next binary    *)
(* set, is the text of exactly the frames the last step wrote.             *)
THEOREM GetSafe == Spec => GetReturnsOutputs
<1>1. CycleInv /\ [Next]_vars =>
        [\A V \in SUBSET TxVRef : GetString(V) /\ ~signals_reset =>
           \A v \in V \cap Encoded :
             written[TxSig[v]] # << >> =>
               /\ held'[v] # NULL
               /\ heap'[held'[v]] = dse_ascii85_encode(written[TxSig[v]])]_vars
  BY TextsHeld
<1> QED  BY <1>1, CycleSafe, PTL DEF Spec, GetReturnsOutputs
-----------------------------------------------------------------------------
(***************************************************************************)
(* The strings GetString returns.                                          *)
(***************************************************************************)

(* Only GetString and FreeInstance touch the strings, and both free the    *)
(* whole list first.                                                       *)
LEMMA StringsNext == TypeOK /\ StringsOwned /\ [Next]_vars => StringsOwned'
<1> SUFFICES ASSUME TypeOK, StringsOwned, [Next]_vars PROVE StringsOwned'
  OBVIOUS
<1>1. ASSUME NEW V \in SUBSET TxVRef, GetString(V) PROVE StringsOwned'
  <2> DEFINE full == {v \in V : stream[TxSig[v]].data # << >>}
  <2>1. PICK q \in [full -> Ptr] :
          /\ \A v, w \in full : v # w => q[v] # q[w]
          /\ heap' = [c \in Ptr |->
                        IF \E v \in full : q[v] = c
                        THEN ReturnedText(CHOOSE v \in full : q[v] = c)
                        ELSE IF c \in free_list THEN NULL ELSE heap[c]]
          /\ free_list' = {q[v] : v \in full}
          /\ held' = [v \in TxVRef |-> IF v \in full THEN q[v] ELSE NULL]
    BY <1>1 DEF GetString
  <2>2. free_list' = {held'[v] : v \in TxVRef} \ {NULL}
    BY <2>1, ValueAssumption
  <2>3. \A v, w \in TxVRef : v # w /\ held'[v] # NULL => held'[v] # held'[w]
    BY <2>1
  <2>4. ASSUME NEW c \in Ptr PROVE heap'[c] # NULL <=> c \in free_list'
    <3>1. CASE \E v \in full : q[v] = c
      <4> DEFINE w == CHOOSE v \in full : q[v] = c
      <4>1. w \in full /\ q[w] = c
        BY <3>1
      <4>2. ReturnedText(w) \in Strings
        BY <4>1, ReturnedTextType
      <4>3. heap'[c] = ReturnedText(w)
        BY <2>1, <3>1
      <4> QED  BY <2>1, <3>1, <4>2, <4>3, ValueAssumption
    <3>2. CASE ~ \E v \in full : q[v] = c
      BY <2>1, <3>2 DEF StringsOwned
    <3> QED  BY <3>1, <3>2
  <2>5. phase' # "none"
    BY <1>1 DEF GetString, Idle
  <2> QED  BY <2>2, <2>3, <2>4, <2>5 DEF StringsOwned
<1>2. CASE FreeInstance
  <2>1. /\ free_list' = {} /\ held' = [v \in TxVRef |-> NULL]
        /\ heap' = [q \in Ptr |-> IF q \in free_list THEN NULL ELSE heap[q]]
    BY <1>2 DEF FreeInstance, NoneHeld
  <2>2. \A q \in Ptr : heap'[q] = NULL
    BY <2>1 DEF StringsOwned
  <2> QED  BY <2>1, <2>2 DEF StringsOwned
<1>3. ASSUME NEW ver \in {2, 3}, NEW R \in SUBSET Scalar, Instantiate(ver, R)
      PROVE  StringsOwned'
  BY <1>3 DEF Instantiate, StringsOwned
<1>4. ASSUME phase # "none" => phase' # "none", phase = "none" => phase' = "none", UNCHANGED strVars
      PROVE  StringsOwned'
  BY <1>4 DEF StringsOwned, strVars
<1> QED
  BY <1>1, <1>2, <1>3, <1>4, NextSteps
  DEF Steps, vars, Idle, ExitInitializationMode, ReturnInit, SetReal, SetNull, SetBinary,
      SetString, DoStep, FmuRead, FmuWrite, FmuSetVar, ReturnStep

(* No string is freed while the importer may use it, none is leaked.       *)
THEOREM StringsSafe == Spec => []StringsOwned
<1>1. Init => StringsOwned
  BY ValueAssumption DEF Init, StringsOwned, NoneHeld, NoStrings
<1> QED  BY <1>1, StringsNext, TypeCorrect, PTL DEF Spec
-----------------------------------------------------------------------------
(***************************************************************************)
(* Scalars.                                                                *)
(***************************************************************************)

(* The signals agree with the last values whenever the step is not the one *)
(* that owns them, also while fmu_init runs.                               *)
ScalarInv ==
  /\ phase \in {"created", "init", "ready"} => scalar = last
  /\ phase = "step" => \A v \in Scalar : last[v] = IF v \in reg THEN var[v] ELSE scalar[v]

(* Each action preserves ScalarInv.                                        *)
LEMMA ScalarNext == TypeOK /\ ScalarInv /\ [Next]_vars => ScalarInv'
<1> SUFFICES ASSUME TypeOK, ScalarInv, [Next]_vars PROVE ScalarInv'
  OBVIOUS
<1>1. ASSUME NEW ver \in {2, 3}, NEW R \in SUBSET Scalar, Instantiate(ver, R) PROVE ScalarInv'
  BY <1>1 DEF Instantiate, ScalarInv
<1>2. CASE ExitInitializationMode
  BY <1>2 DEF ExitInitializationMode, ScalarInv, scaVars
<1>3. ASSUME NEW rc \in {0, 1}, ReturnInit(rc) PROVE ScalarInv'
  BY <1>3 DEF ReturnInit, ScalarInv, scaVars
<1>4. ASSUME NEW v \in Input, NEW x \in Value, SetReal(v, x) PROVE ScalarInv'
  BY <1>4 DEF SetReal, ScalarInv, Idle
<1>5. CASE DoStep
  BY <1>5 DEF DoStep, ScalarInv, MarshalToTable, TypeOK
<1>6. ASSUME NEW v \in Scalar, NEW x \in Value, FmuSetVar(v, x) PROVE ScalarInv'
  BY <1>6 DEF FmuSetVar, ScalarInv, TypeOK
<1>7. ASSUME NEW rc \in {0, 1}, ReturnStep(rc) PROVE ScalarInv'
  <2>1. scalar' = last
    BY <1>7 DEF ReturnStep, ScalarInv, MarshalToSignals, TypeOK
  <2> QED  BY <1>7, <2>1 DEF ReturnStep, ScalarInv
<1>8. CASE FreeInstance
  BY <1>8 DEF FreeInstance, ScalarInv
<1>9. ASSUME UNCHANGED <<phase, scaVars>> PROVE ScalarInv'
  BY <1>9 DEF ScalarInv, scaVars
<1> QED
  BY <1>1, <1>2, <1>3, <1>4, <1>5, <1>6, <1>7, <1>8, <1>9, NextSteps
  DEF Steps, vars, SetNull, SetBinary, SetString, GetString, FmuRead, FmuWrite

(* The importer, the signals and the variable table agree on scalars.      *)
THEOREM ScalarsSafe == Spec => []ScalarsCoherent
<1>1. Init => ScalarInv
  BY DEF Init, ScalarInv
<1>2. TypeOK /\ ScalarInv => ScalarsCoherent
  BY DEF ScalarInv, ScalarsCoherent, Idle, GetReal, TypeOK
<1> QED  BY <1>1, <1>2, ScalarNext, TypeCorrect, PTL DEF Spec
-----------------------------------------------------------------------------
(***************************************************************************)
(* FmuInstance implements StepMailbox.                                     *)
(***************************************************************************)
InBar == [s \in Rx |-> IF signals_reset THEN stream[s].data ELSE << >>]
OutBar == [s \in Tx |-> IF signals_reset /\ phase # "step" THEN << >> ELSE stream[s].data]

(* The mapped inbox is what was sent, the mapped outbox what was written.  *)
LEMMA BarFacts ==
  ASSUME CycleInv
  PROVE  /\ InBar = [s \in Rx |-> sent[s]]
         /\ OutBar = [s \in Tx |-> IF signals_reset /\ phase # "step" THEN << >> ELSE written[s]]
BY DEF CycleInv, RxInv, TxInv, InBar, OutBar

(* Every step of the instance is a step of the mailbox or leaves it alone. *)
LEMMA MailboxNext ==
  CycleInv /\ CycleInv' /\ [Next]_vars => [Mailbox!MNext]_<<InBar, OutBar, phase = "step">>
<1> SUFFICES ASSUME CycleInv, CycleInv', [Next]_vars
             PROVE  Mailbox!MNext \/ UNCHANGED <<InBar, OutBar, phase = "step">>
  OBVIOUS
<1> DEFINE Empty == [s \in Tx |-> << >>]
<1>a. /\ InBar = [s \in Rx |-> sent[s]] /\ InBar' = [s \in Rx |-> sent'[s]]
      /\ OutBar = [s \in Tx |-> IF signals_reset /\ phase # "step" THEN << >> ELSE written[s]]
      /\ OutBar' = [s \in Tx |-> IF signals_reset' /\ phase' # "step" THEN << >> ELSE written'[s]]
  <2>1. /\ InBar' = [s \in Rx |-> sent'[s]]
        /\ OutBar' = [s \in Tx |-> IF signals_reset' /\ phase' # "step" THEN << >> ELSE written'[s]]
    BY DEF CycleInv, RxInv, TxInv, InBar, OutBar
  <2> QED  BY <2>1, BarFacts
<1>s. Rx \subseteq Signal /\ Tx \subseteq Signal /\ TypeOK /\ PhaseInv
  BY SignalsDisjoint DEF CycleInv
<1>n. \A s \in Signal : NoFrames[s] = << >>
  BY DEF NoFrames
<1> USE DEF Mailbox!MNext, Mailbox!EmptyIn, Mailbox!EmptyOut
<1> HIDE DEF InBar, OutBar
<1>1. ASSUME NEW ver \in {2, 3}, NEW R \in SUBSET Scalar, Instantiate(ver, R)
      PROVE  Mailbox!Restart
  <2>1. InBar' = [s \in Rx |-> << >>] /\ OutBar' = Empty
    BY <1>1, <1>a, <1>s, <1>n DEF Instantiate
  <2> QED  BY <1>1, <2>1 DEF Instantiate, Mailbox!Restart, InBar, OutBar
<1>2. CASE FreeInstance
  <2>1. InBar' = [s \in Rx |-> << >>] /\ OutBar' = Empty
    BY <1>2, <1>a, <1>s, <1>n DEF FreeInstance
  <2> QED  BY <1>2, <2>1 DEF FreeInstance, Idle, Mailbox!Restart, InBar, OutBar
<1>3. ASSUME Idle, UNCHANGED <<phase, sent>>, signals_reset' = TRUE
      PROVE  Mailbox!Discard
  <2>1. InBar' = InBar /\ OutBar' = Empty
    BY <1>3, <1>a DEF Idle
  <2> QED  BY <1>3, <2>1 DEF Idle, Mailbox!Discard, InBar, OutBar
<1>4. ASSUME NEW v \in RxVRef, NEW f \in Frame, SetBinary(v, f)
      PROVE  RxSig[v] \in Rx /\ Mailbox!Put(RxSig[v], f)
  <2> DEFINE r == RxSig[v]
  <2>0. r \in Rx /\ r \in Signal
    BY <1>s DEF Rx
  <2>1. phase # "step" /\ phase' = phase /\ signals_reset' = TRUE
        /\ sent' = [sent EXCEPT ![r] = sent[r] \o <<f>>]
    BY <1>4 DEF SetBinary, Idle
  <2>2. Append(sent[r], f) = sent[r] \o <<f>>
    BY <1>s, <2>0, AppendIsConcat DEF TypeOK
  <2>3. InBar' = [InBar EXCEPT ![r] = Append(InBar[r], f)]
    BY <1>a, <1>s, <2>0, <2>1, <2>2 DEF TypeOK
  <2>4. OutBar' = Empty
    BY <1>a, <2>1
  <2> QED  BY <2>0, <2>1, <2>3, <2>4 DEF Mailbox!Put, InBar, OutBar
<1>5. CASE DoStep
  <2>1. InBar' = InBar /\ OutBar' = Empty
    BY <1>5, <1>a, <1>s, <1>n DEF DoStep
  <2> QED  BY <1>5, <2>1 DEF DoStep, Mailbox!Begin, InBar, OutBar
<1>6. ASSUME NEW r \in Signal, NEW f \in Frame, FmuWrite(r, f)
      PROVE  r \in Tx /\ Mailbox!Emit(r, f)
  <2>1. /\ r \in Tx /\ phase = "step" /\ UNCHANGED <<phase, signals_reset, sent>>
        /\ written' = [written EXCEPT ![r] = written[r] \o <<f>>]
    BY <1>6 DEF FmuWrite
  <2>2. Append(written[r], f) = written[r] \o <<f>>
    BY <1>s, AppendIsConcat DEF TypeOK
  <2>3. OutBar' = [OutBar EXCEPT ![r] = Append(OutBar[r], f)]
    BY <1>a, <1>s, <2>1, <2>2 DEF TypeOK
  <2>4. InBar' = InBar
    BY <1>a, <2>1
  <2> QED  BY <2>1, <2>3, <2>4 DEF Mailbox!Emit, InBar, OutBar
<1>7. ASSUME NEW rc \in {0, 1}, ReturnStep(rc) PROVE Mailbox!End
  <2>1. InBar' = [s \in Rx |-> << >>] /\ OutBar' = OutBar
    BY <1>7, <1>a, <1>s, <1>n DEF ReturnStep
  <2> QED  BY <1>7, <2>1 DEF ReturnStep, Mailbox!End, InBar, OutBar
<1>8. ASSUME (phase' = "step") <=> (phase = "step"), UNCHANGED <<signals_reset, sent, written>>
      PROVE  UNCHANGED <<InBar, OutBar, phase = "step">>
  BY <1>8, <1>a
<1>9. ASSUME NEW v \in StrVRef, NEW x \in Text, SetString(v, x)
      PROVE  Mailbox!Discard \/ UNCHANGED <<InBar, OutBar, phase = "step">>
  <2>1. \/ Idle /\ UNCHANGED <<phase, sent>> /\ signals_reset' = TRUE
        \/ UNCHANGED <<phase, signals_reset, sent, written>>
    BY <1>9 DEF SetString
  <2> QED  BY <1>3, <1>8, <2>1
<1>10. CASE SetNull
  BY <1>3, <1>10 DEF SetNull
<1>11. ASSUME \/ ExitInitializationMode
              \/ \E rc \in {0, 1} : ReturnInit(rc)
              \/ \E v \in Input, x \in Value : SetReal(v, x)
              \/ \E V \in SUBSET TxVRef : GetString(V)
              \/ \E s \in Signal : FmuRead(s)
              \/ \E v \in Scalar, x \in Value : FmuSetVar(v, x)
              \/ UNCHANGED vars
       PROVE  UNCHANGED <<InBar, OutBar, phase = "step">>
  BY <1>8, <1>11
  DEF ExitInitializationMode, ReturnInit, SetReal, GetString, FmuRead, FmuSetVar, vars, sigVars
<1> QED
  BY <1>1, <1>2, <1>4, <1>5, <1>6, <1>7, <1>9, <1>10, <1>11, NextSteps DEF Steps

(* The binary variables of an instance are a mailbox: what the importer    *)
(* sets is for the next step alone, what a step writes is offered until    *)
(* the next cycle starts.                                                  *)
THEOREM MailboxRefined == Spec => MailboxSpec
<1>1. Init => Mailbox!MInit
  BY SignalsDisjoint DEF Init, Mailbox!MInit, Mailbox!EmptyIn, Mailbox!EmptyOut, EmptyStream
<1>2. CycleInv /\ CycleInv' /\ [Next]_vars => [Mailbox!MNext]_(Mailbox!mvars)
  BY MailboxNext DEF Mailbox!mvars, InBar, OutBar
<1> QED  BY <1>1, <1>2, CycleSafe, PTL DEF Spec, MailboxSpec, Mailbox!MSpec
=============================================================================
