---------------------------- MODULE FmuInstance ----------------------------
(***************************************************************************)
(* One FMU instance behind the FMI 2 / FMI 3 API of dse/fmu (fmi2fmu.c,    *)
(* fmi3fmu.c) with the default signal handlers of dse/fmu/signal.c.        *)
(*                                                                         *)
(* The importer calls the API; the FMU's own code runs inside the          *)
(* callbacks fmu_init (phase "init") and fmu_step (phase "step"), where it *)
(* reads and writes binary signals through their NCodec streams, and the   *)
(* variable table.  An instance is used by one thread at a time, so an API *)
(* call is one action, except where it calls back into the FMU's code:     *)
(* then the part before and the part after the callback are two actions    *)
(* joined by the phase.                                                    *)
(*                                                                         *)
(* The arrays (vr[], value[]) of SetReal and SetString hold one element    *)
(* per action: a call with n elements is n such calls, because the reset   *)
(* that precedes the loop does nothing the second time.                    *)
(***************************************************************************)
EXTENDS NCodecStream, FiniteSets

CONSTANTS
  RxVRef, TxVRef,   \* value references of binary inputs and outputs
  StrVRef,          \* value references that index no binary input
  Signal,           \* the binary signals
  RxSig, TxSig,     \* the index: value reference -> signal
  NCodec,           \* the signals with an open NCODEC object
  Encoded,          \* the value references with ascii85 encode/decode
  Frame,            \* content of binary signals
  Input, Output,    \* value references of scalar inputs and outputs
  Value,            \* scalar values, 0 among them
  Text,             \* values of plain string variables
  Ptr,              \* heap cells for the strings GetString returns
  NULL,
  MaxFrames         \* bound: frames in one binary signal

Scalar == Input \cup Output

(* A string variable's value: its form and the frames it stands for.       *)
Strings == [form : {"ascii85", "plain"}, data : Seq(Frame)]

ASSUME IndexAssumption ==
  /\ RxSig \in [RxVRef -> Signal]
  /\ TxSig \in [TxVRef -> Signal]
  /\ \A r \in RxVRef, t \in TxVRef : RxSig[r] # TxSig[t]
  /\ NCodec \subseteq Signal
  /\ Encoded \subseteq RxVRef \cup TxVRef

ASSUME ValueAssumption ==
  /\ 0 \in Value
  /\ Input \cap Output = {}
  /\ NULL \notin Text
  /\ NULL \notin Ptr /\ NULL \notin Strings
  /\ MaxFrames \in Nat

VARIABLES
  phase,          \* "none", "created", "init", "ready", "step"
  version,        \* instance.version: FMI 2 or FMI 3
  status,         \* status returned by the last initialisation or step
  signals_reset,  \* variables.signals_reset
  stream,         \* the binary signals with their streams
  string_input,   \* variables.string.input
  scalar,         \* the scalar signals, sv->scalar
  reg,            \* the variables in var_table.marshal_list
  var,            \* the FMU's variable table
  free_list,      \* variables.binary.free_list
  heap,           \* the strings on the heap, NULL where free
  held,           \* the pointers the last GetString put in value[]
  sent,           \* history: frames set since the last step ended
  got,            \* history: frames the FMU read since the last step ended
  written,        \* history: frames the FMU wrote in the last step
  last            \* history: the value last given to a scalar variable

sigVars == <<signals_reset, stream, sent, got, written>>
strVars == <<free_list, heap, held>>
scaVars == <<scalar, reg, var, last>>
vars == <<phase, version, status, string_input, sigVars, strVars, scaVars>>

Rx == {RxSig[v] : v \in RxVRef}
Tx == {TxSig[v] : v \in TxVRef}

Idle == phase \in {"created", "ready"}

(***************************************************************************)
(* Conversions.  A string variable carries either the ascii85 text of the  *)
(* frames or the frames themselves.                                        *)
(***************************************************************************)
(* What an importer hands over for one frame on value reference v.         *)
ImporterText(v, f) ==
  IF v \in Encoded THEN dse_ascii85_encode(<<f>>)
                   ELSE [form |-> "plain", data |-> <<f>>]

(* Fault: the text is appended without decoding it.                        *)
DecodedDataSkipped(v, t) == <<t>>

(* The frames SetString / SetBinary append for text t on v.                *)
DecodedData(v, t) == IF v \in Encoded THEN dse_ascii85_decode(t) ELSE t.data

(* The string GetString / GetBinary return for v: encoded, or a copy.  The *)
(* FMI 2 copy is a strdup() and ends at the first terminator: of several   *)
(* C strings in the signal it is the first one.                            *)
ReturnedText(v) ==
  LET d == stream[TxSig[v]].data
  IN CASE v \in Encoded                -> dse_ascii85_encode(d)
       [] v \notin Encoded /\ version = 2 -> [form |-> "plain", data |-> <<Head(d)>>]
       [] OTHER                        -> [form |-> "plain", data |-> d]
-----------------------------------------------------------------------------
(***************************************************************************)
(* Signal handlers (dse/fmu/signal.c).                                     *)
(***************************************************************************)

(* The reset of one binary signal.                                         *)
ResetSignal(s) ==
  IF s \in NCodec THEN StreamSeek(stream[s], 0, "SEEK_RESET")
                  ELSE SignalClear(stream[s])

(* Fault: the reset ignores its flag.                                      *)
ResetStreamsAlways == [s \in Signal |-> ResetSignal(s)]

(* fmu_default_signals_reset: every binary signal, RX and TX, but only if  *)
(* this was not done since the last step.                                  *)
ResetStreams ==
  IF signals_reset THEN stream ELSE [s \in Signal |-> ResetSignal(s)]

(* fmu_register_var: the value handed back for a registered variable.      *)
fmu_register_var(v) == 0

(* DoStep, before fmu_step: *mi->variable = *mi->signal.                   *)
MarshalToTable == [v \in Scalar |-> IF v \in reg THEN scalar[v] ELSE var[v]]

(* DoStep, after fmu_step: *mi->signal = *mi->variable.                    *)
MarshalToSignals == [v \in Scalar |-> IF v \in reg THEN var[v] ELSE scalar[v]]
-----------------------------------------------------------------------------
NoFrames == [s \in Signal |-> << >>]
NoStrings == [p \in Ptr |-> NULL]
NoneHeld == [v \in TxVRef |-> NULL]

Init ==
  /\ phase = "none" /\ version = 2 /\ status = "OK"
  /\ signals_reset = FALSE
  /\ stream = [s \in Signal |-> EmptyStream]
  /\ string_input = [v \in StrVRef |-> NULL]
  /\ scalar = [v \in Scalar |-> 0]
  /\ reg = {} /\ var = [v \in Scalar |-> 0]
  /\ free_list = {} /\ heap = NoStrings /\ held = NoneHeld
  /\ sent = NoFrames /\ got = NoFrames /\ written = NoFrames
  /\ last = [v \in Scalar |-> 0]

(* fmi2Instantiate / fmi3InstantiateCoSimulation: calloc'ed instance, the  *)
(* indexes and signals set up, then fmu_create, in which the FMU registers *)
(* the variables R of its table (R = {} when it has no table).             *)
Instantiate(ver, R) ==
  /\ phase = "none"
  /\ phase' = "created" /\ version' = ver
  /\ signals_reset' = FALSE
  /\ stream' = [s \in Signal |-> EmptyStream]
  /\ string_input' = [v \in StrVRef |-> NULL]
  /\ scalar' = [v \in Scalar |-> 0]
  /\ reg' = R
  /\ var' = [v \in Scalar |-> IF v \in R THEN fmu_register_var(v) ELSE 0]
  /\ free_list' = {}
  /\ sent' = NoFrames /\ got' = NoFrames /\ written' = NoFrames
  /\ last' = [v \in Scalar |-> 0]
  /\ UNCHANGED <<status, heap, held>>

(* fmi2ExitInitializationMode up to the call of fmu_init.                  *)
ExitInitializationMode ==
  /\ phase = "created"
  /\ phase' = "init"
  /\ UNCHANGED <<version, status, string_input, sigVars, strVars, scaVars>>

(* The return of fmu_init.  The instance stays usable after fmi2Error: the *)
(* importer of this repository steps it all the same.                      *)
ReturnInit(rc) ==
  /\ phase = "init"
  /\ phase' = "ready"
  /\ status' = IF rc = 0 THEN "OK" ELSE "Error"
  /\ UNCHANGED <<version, string_input, sigVars, strVars, scaVars>>

(* fmi2SetReal / fmi3SetFloat64, hashmap index: inputs only.               *)
SetReal(v, x) ==
  /\ Idle
  /\ v \in Input
  /\ scalar' = [scalar EXCEPT ![v] = x]
  /\ last' = [last EXCEPT ![v] = x]
  /\ UNCHANGED <<phase, version, status, string_input, sigVars, strVars, reg, var>>

(* fmi2GetReal / fmi3GetFloat64, hashmap index: outputs, then inputs.      *)
GetReal(v) == scalar[v]

(* fmi2SetString, fmi3SetBinary with a NULL value: the reset alone.        *)
SetNull ==
  /\ Idle
  /\ stream' = ResetStreams
  /\ signals_reset' = TRUE
  /\ UNCHANGED <<phase, version, status, string_input, strVars, scaVars, sent, got, written>>

(* fmi2SetString, fmi3SetBinary on a binary input: reset, then append.     *)
SetBinary(v, f) ==
  LET s == RxSig[v]
      d == DecodedData(v, ImporterText(v, f))
  IN /\ Idle
     /\ Len(ResetStreams[s].data) < MaxFrames
     /\ stream' = [ResetStreams EXCEPT ![s] = SignalAppend(@, d)]
     /\ signals_reset' = TRUE
     /\ sent' = [sent EXCEPT ![s] = @ \o <<f>>]
     /\ UNCHANGED <<phase, version, status, string_input, strVars, scaVars, got, written>>

(* fmi2SetString on a reference without binary input: reset, and the text  *)
(* is stored.  fmi3SetString stores it without a reset.                    *)
SetString(v, x) ==
  /\ Idle
  /\ string_input' = [string_input EXCEPT ![v] = x]
  /\ \/ version = 2 /\ stream' = ResetStreams /\ signals_reset' = TRUE
     \/ version = 3 /\ UNCHANGED <<stream, signals_reset>>
  /\ UNCHANGED <<phase, version, status, strVars, scaVars, sent, got, written>>

(* Fault: the strings of the previous call are not freed first.            *)
GetStringKeepsList(V) ==
  LET full == {v \in V : stream[TxSig[v]].data # << >>}
  IN /\ Idle
     /\ \E p \in [full -> Ptr \ free_list] :
          /\ \A v, w \in full : v # w => p[v] # p[w]
          /\ heap' = [q \in Ptr |->
                        IF \E v \in full : p[v] = q
                        THEN ReturnedText(CHOOSE v \in full : p[v] = q)
                        ELSE heap[q]]
          /\ free_list' = free_list \cup {p[v] : v \in full}
          /\ held' = [v \in TxVRef |-> IF v \in full THEN p[v] ELSE NULL]
     /\ UNCHANGED <<phase, version, status, string_input, sigVars, scaVars>>

(* fmi2GetString / fmi3GetBinary for the references V: the strings of the  *)
(* previous call are freed, each non-empty signal gets a new string, which *)
(* goes on the free list; the others return NULL.                          *)
GetString(V) ==
  LET full == {v \in V : stream[TxSig[v]].data # << >>}
  IN /\ Idle
     /\ \E p \in [full -> Ptr] :
          /\ \A v, w \in full : v # w => p[v] # p[w]
          /\ heap' = [q \in Ptr |->
                        IF \E v \in full : p[v] = q
                        THEN ReturnedText(CHOOSE v \in full : p[v] = q)
                        ELSE IF q \in free_list THEN NULL ELSE heap[q]]
          /\ free_list' = {p[v] : v \in full}
          /\ held' = [v \in TxVRef |-> IF v \in full THEN p[v] ELSE NULL]
     /\ UNCHANGED <<phase, version, status, string_input, sigVars, scaVars>>

(* Fault: the step relies on the importer's calls for the reset.           *)
DoStepNoReset ==
  /\ phase = "ready"
  /\ phase' = "step"
  /\ signals_reset' = TRUE
  /\ var' = MarshalToTable
  /\ written' = NoFrames
  /\ UNCHANGED <<version, status, string_input, strVars, stream, scalar, reg, last, sent, got>>

(* fmi2DoStep / fmi3DoStep up to the call of fmu_step.                     *)
DoStep ==
  /\ phase = "ready"
  /\ phase' = "step"
  /\ stream' = ResetStreams
  /\ signals_reset' = TRUE
  /\ var' = MarshalToTable
  /\ written' = NoFrames
  /\ UNCHANGED <<version, status, string_input, strVars, scalar, reg, last, sent, got>>

(* fmu_step: the FMU reads a binary input through its codec (external).    *)
FmuRead(s) ==
  /\ phase = "step"
  /\ s \in Rx \cap NCodec
  /\ got' = [got EXCEPT ![s] = @ \o StreamReadData(stream[s])]
  /\ stream' = [stream EXCEPT ![s] = StreamRead(@, "POS_UPDATE")]
  /\ UNCHANGED <<phase, version, status, string_input, strVars, scaVars, signals_reset, sent, written>>

(* fmu_step: the FMU writes a frame to a binary output, through the codec  *)
(* (ncodec_write and ncodec_flush) or straight to the signal (external).   *)
FmuWrite(s, f) ==
  /\ phase = "step"
  /\ s \in Tx
  /\ Len(stream[s].data) < MaxFrames
  /\ stream' = [stream EXCEPT ![s] = IF s \in NCodec THEN StreamWrite(@, <<f>>)
                                                     ELSE SignalAppend(@, <<f>>)]
  /\ written' = [written EXCEPT ![s] = @ \o <<f>>]
  /\ UNCHANGED <<phase, version, status, string_input, strVars, scaVars, signals_reset, sent, got>>

(* fmu_init, fmu_step: the FMU assigns a variable of its table (external). *)
(* What fmu_init assigns is overwritten by the first MarshalToTable.       *)
FmuSetVar(v, x) ==
  /\ phase \in {"init", "step"}
  /\ v \in reg
  /\ var' = [var EXCEPT ![v] = x]
  /\ last' = IF phase = "step" THEN [last EXCEPT ![v] = x] ELSE last
  /\ UNCHANGED <<phase, version, status, string_input, sigVars, strVars, scalar, reg>>

(* Fault: the reset flag is not cleared after the step.                    *)
ReturnStepKeepsFlag(rc) ==
  /\ phase = "step"
  /\ phase' = "ready"
  /\ scalar' = MarshalToSignals
  /\ status' = IF rc = 0 THEN "OK" ELSE "Error"
  /\ sent' = NoFrames /\ got' = NoFrames
  /\ UNCHANGED <<version, string_input, strVars, signals_reset, stream, reg, var, last, written>>

(* Fault: a failed step returns before the table is marshalled.            *)
ReturnStepEarly(rc) ==
  /\ phase = "step"
  /\ phase' = "ready"
  /\ scalar' = IF rc = 0 THEN MarshalToSignals ELSE scalar
  /\ signals_reset' = FALSE
  /\ status' = IF rc = 0 THEN "OK" ELSE "Error"
  /\ sent' = NoFrames /\ got' = NoFrames
  /\ UNCHANGED <<version, string_input, strVars, stream, reg, var, last, written>>

(* fmi2DoStep / fmi3DoStep after fmu_step returned rc: marshal and clear   *)
(* the reset flag whatever rc is.                                          *)
ReturnStep(rc) ==
  /\ phase = "step"
  /\ phase' = "ready"
  /\ scalar' = MarshalToSignals
  /\ signals_reset' = FALSE
  /\ status' = IF rc = 0 THEN "OK" ELSE "Error"
  /\ sent' = NoFrames /\ got' = NoFrames
  /\ UNCHANGED <<version, string_input, strVars, stream, reg, var, last, written>>

(* fmi2FreeInstance / fmi3FreeInstance: signals, table and indexes go, and *)
(* with the free list the strings the importer still holds.                *)
FreeInstance ==
  /\ Idle
  /\ phase' = "none"
  /\ signals_reset' = FALSE
  /\ stream' = [s \in Signal |-> EmptyStream]
  /\ string_input' = [v \in StrVRef |-> NULL]
  /\ scalar' = [v \in Scalar |-> 0]
  /\ reg' = {} /\ var' = [v \in Scalar |-> 0]
  /\ heap' = [q \in Ptr |-> IF q \in free_list THEN NULL ELSE heap[q]]
  /\ free_list' = {} /\ held' = NoneHeld
  /\ sent' = NoFrames /\ got' = NoFrames /\ written' = NoFrames
  /\ last' = [v \in Scalar |-> 0]
  /\ UNCHANGED <<version, status>>

-----------------------------------------------------------------------------
(***************************************************************************)
(* The functions of the two APIs, in terms of the steps above.  A string   *)
(* argument is a binary input (v), a plain string (w) or is passed over.   *)
(***************************************************************************)
fmi2Instantiate(R) == Instantiate(2, R)

fmi3InstantiateCoSimulation(R) == Instantiate(3, R)

fmi2SetReal(v, x) == version = 2 /\ SetReal(v, x)

fmi3SetFloat64(v, x) == version = 3 /\ SetReal(v, x)

fmi2SetString ==
  /\ version = 2
  /\ \/ SetNull
     \/ \E v \in RxVRef, f \in Frame : SetBinary(v, f)
     \/ \E w \in StrVRef, x \in Text : SetString(w, x)

fmi3SetBinary ==
  /\ version = 3
  /\ \/ SetNull
     \/ \E v \in RxVRef, f \in Frame : SetBinary(v, f)

fmi3SetString(w, x) == version = 3 /\ SetString(w, x)

fmi2GetString(V) == version = 2 /\ GetString(V)

fmi3GetBinary(V) == version = 3 /\ GetString(V)

fmi2DoStep == version = 2 /\ DoStep

fmi3DoStep == version = 3 /\ DoStep

fmi2FreeInstance == version = 2 /\ FreeInstance

fmi3FreeInstance == version = 3 /\ FreeInstance

Next ==
  \/ \E R \in SUBSET Scalar : fmi2Instantiate(R) \/ fmi3InstantiateCoSimulation(R)
  \/ ExitInitializationMode
  \/ \E rc \in {0, 1} : ReturnInit(rc)
  \/ \E v \in Input, x \in Value : fmi2SetReal(v, x) \/ fmi3SetFloat64(v, x)
  \/ fmi2SetString
  \/ fmi3SetBinary
  \/ \E w \in StrVRef, x \in Text : fmi3SetString(w, x)
  \/ \E V \in SUBSET TxVRef : fmi2GetString(V) \/ fmi3GetBinary(V)
  \/ fmi2DoStep \/ fmi3DoStep
  \/ \E s \in Signal : FmuRead(s)
  \/ \E s \in Signal, f \in Frame : FmuWrite(s, f)
  \/ \E v \in Scalar, x \in Value : FmuSetVar(v, x)
  \/ \E rc \in {0, 1} : ReturnStep(rc)
  \/ fmi2FreeInstance \/ fmi3FreeInstance

Spec == Init /\ [][Next]_vars
-----------------------------------------------------------------------------
(***************************************************************************)
(* Properties.                                                             *)
(***************************************************************************)

(* Every variable keeps the shape its C declaration gives it.              *)
TypeOK ==
  /\ phase \in {"none", "created", "init", "ready", "step"}
  /\ version \in {2, 3}
  /\ status \in {"OK", "Error"}
  /\ signals_reset \in BOOLEAN
  /\ stream \in [Signal -> Streams(Frame)]
  /\ string_input \in [StrVRef -> Text \cup {NULL}]
  /\ scalar \in [Scalar -> Value]
  /\ reg \in SUBSET Scalar
  /\ var \in [Scalar -> Value]
  /\ free_list \in SUBSET Ptr
  /\ heap \in [Ptr -> Strings \cup {NULL}]
  /\ held \in [TxVRef -> Ptr \cup {NULL}]
  /\ sent \in [Signal -> Seq(Frame)]
  /\ got \in [Signal -> Seq(Frame)]
  /\ written \in [Signal -> Seq(Frame)]
  /\ last \in [Scalar -> Value]

(* While fmu_step runs, each binary input holds exactly the frames the     *)
(* importer set since the previous DoStep, decoded and in order, and what  *)
(* the FMU reads through the codec is that sequence from its start, each   *)
(* frame once: the one-shot reset flag neither drops a frame of an earlier *)
(* SetString nor lets one of an older step through.                        *)
StepDelivery ==
  phase = "step" =>
    \A s \in Rx : /\ stream[s].data = sent[s]
                  /\ s \in NCodec => got[s] = SubSeq(sent[s], 1, stream[s].pos)

(* Between steps a binary output holds all that the FMU wrote in the last  *)
(* step, whatever the importer reads or sets as scalars, until the first   *)
(* binary set of the next cycle; from then on it holds nothing.  So        *)
(* GetString never returns output of an older step.                        *)
OutputsFresh ==
  Idle => \A s \in Tx :
            stream[s].data = IF signals_reset THEN << >> ELSE written[s]

(* The strings of the last GetString stay allocated until the next         *)
(* GetString or FreeInstance, two of them never share memory, and nothing  *)
(* else is left on the heap: no dangling pointer, no leak.                 *)
StringsOwned ==
  /\ free_list = {held[v] : v \in TxVRef} \ {NULL}
  /\ \A q \in Ptr : heap[q] # NULL <=> q \in free_list
  /\ \A v, w \in TxVRef : v # w /\ held[v] # NULL => held[v] # held[w]
  /\ phase = "none" => free_list = {}

(* A scalar variable has one value on both sides of the API: what the      *)
(* importer last set or the last step assigned is what fmu_step finds in   *)
(* the variable table and what GetReal returns after the step, for failed  *)
(* steps too.                                                              *)
ScalarsCoherent ==
  /\ Idle => \A v \in Scalar : GetReal(v) = last[v]
  /\ phase = "step" => \A v \in reg : var[v] = last[v]

(* Called before the next binary set, GetString returns for an encoded     *)
(* output the text of exactly the frames the last step wrote to it.        *)
GetReturnsOutputs ==
  [][\A V \in SUBSET TxVRef : GetString(V) /\ ~signals_reset =>
       \A v \in V \cap Encoded :
         written[TxSig[v]] # << >> =>
           /\ held'[v] # NULL
           /\ heap'[held'[v]] = dse_ascii85_encode(written[TxSig[v]])]_vars

(***************************************************************************)
(* The binary variables implement the abstract mailbox: the inbox is what  *)
(* the RX signals hold once they were reset in this cycle, the outbox what *)
(* the TX signals hold while they were not, or while the step runs.        *)
(***************************************************************************)
Mailbox == INSTANCE StepMailbox WITH
  RxBox  <- Rx,
  TxBox  <- Tx,
  Item   <- Frame,
  inbox  <- [s \in Rx |-> IF signals_reset THEN stream[s].data ELSE << >>],
  outbox <- [s \in Tx |-> IF signals_reset /\ phase # "step"
                          THEN << >> ELSE stream[s].data],
  busy   <- phase = "step"

(* Each API call is a step of the mailbox or invisible to it: a frame set  *)
(* by the importer reaches the next step and only that one, a frame the    *)
(* FMU writes is offered until the next cycle starts and never after.      *)
MailboxSpec == Mailbox!MSpec
=============================================================================
