------------------------------ MODULE Importer ------------------------------
(***************************************************************************)
(* The FMU importer of dse/importer: the co-simulation loop (importer.c),  *)
(* its network loopback (signal_bus.c) and its CSV stimulus (csv.c), with  *)
(* an FMU that behaves as StepMailbox says, which FmuInstance is shown to  *)
(* implement.  The item of an inbox is what one text carried, a sequence   *)
(* of frames; all binary variables of the FMU are ascii85 encoded, as the  *)
(* importer's unconditional conversions require.                           *)
(*                                                                         *)
(* The two loops (FMI 2, FMI 3) differ in the functions they call only.    *)
(* Time counts steps.  Loops over variables are steps of their own, i the  *)
(* loop index.                                                             *)
(***************************************************************************)
EXTENDS StepMailbox, NCodecStream, Integers, SequencesExt

CONSTANTS
  TxList, RxList,    \* the binary outputs and inputs, in the order of desc
  Mime,              \* variable -> MIME type, NULL when not annotated
  Codecs,            \* MIME types that ncodec_create supports
  FrameTypes,        \* MIME types with type=frame
  Frame,             \* frames the FMU sends
  Input,             \* the scalar inputs
  Value,             \* scalar values, 0 among them
  Start,             \* input -> its start attribute, 0 without one
  Headers, Lines,    \* what the CSV file may consist of
  MaxLines,          \* bound: lines of the CSV file
  MaxSteps,          \* --steps
  MaxEmit,           \* bound: frames the FMU sends per step and output
  NoNumber,          \* a text that strtod cannot read
  OutOfRange,        \* a number that is out of the range of double
  NULL

(* The frames on the bus: those of the FMU and the one injected per step.  *)
BusFrame == Frame \cup ({"importer"} \X Nat)

(* The variables are slots of arrays, so that none is listed twice.  NULL  *)
(* is no MIME type and no text.                                            *)
ASSUME ImporterAssumption ==
  /\ TxList \in Seq(TxBox) /\ IsInjective(TxList) /\ {TxList[n] : n \in DOMAIN TxList} = TxBox
  /\ RxList \in Seq(RxBox) /\ IsInjective(RxList) /\ {RxList[n] : n \in DOMAIN RxList} = RxBox
  /\ NULL \notin Codecs \cup FrameTypes
  /\ NULL \notin [form : {"ascii85"}, data : Seq(BusFrame)]
  /\ MaxSteps \in Nat /\ MaxEmit \in Nat

(* A CSV line as fgets and strtok_r deliver it: the text of the time and   *)
(* those of the cells.                                                     *)
CsvText(S) == S \cup {NoNumber, OutOfRange}

ASSUME CsvAssumption ==
  /\ IsFiniteSet(Input) /\ 0 \in Value /\ MaxLines \in Nat
  /\ Start \in [Input -> Value]
  /\ NoNumber # OutOfRange
  /\ \A h \in Headers : h \in Seq({h[c] : c \in DOMAIN h})
  /\ Lines \subseteq [ts : CsvText(Int), cells : Seq(CsvText(Value))]

VARIABLES
  pc,                  \* place in main and run_fmu?_cosim
  i,                   \* loop index
  version,             \* FMI 2 or 3
  signal_bus_enabled,  \* -B
  bus,                 \* the network signal "one_network"
  val_tx, val_rx,      \* desc->binary: texts, NULL or what they encode
  step,                \* the loop counter; model_time is step * step_size
  csv,                 \* [header, lines], or NULL
  line, timestamp, index,  \* CsvDesc: current line, its time, column -> input
  val_rx_real,         \* desc->real.val_rx_real
  fmu_real,            \* the FMU's scalar inputs
  fmu,                 \* the instance exists
  emitted              \* history: frames of the last step, by output

busVars == <<bus, val_tx, val_rx>>
csvVars == <<csv, line, timestamp, index, val_rx_real>>
vars == <<pc, i, version, signal_bus_enabled, busVars, step, csvVars, fmu_real,
          fmu, emitted, mvars>>
-----------------------------------------------------------------------------
(***************************************************************************)
(* signal_bus.c.  The NCodec object and its buffer stream are external;    *)
(* the stream is used through the interface NCodecStream models.           *)
(***************************************************************************)
NoSignal == [found |-> FALSE, nc |-> FALSE, stream |-> EmptyStream]

(* _get_network_signal: the first use decides on the codec.                *)
get_network_signal(b, mime) ==
  IF b.found THEN b
  ELSE [found |-> TRUE, nc |-> mime \in Codecs, stream |-> EmptyStream]

AppendToBus(b, d) ==
  IF b.nc THEN [b EXCEPT !.stream = StreamWrite(StreamSeek(@, 0, "SEEK_END"), d)] ELSE b

network_inject_frame(b, mime, f) == AppendToBus(get_network_signal(b, mime), <<f>>)

(* Without the signal bus the frames are only printed.                     *)
network_push(b, mime, d) ==
  IF d = << >> THEN b
  ELSE IF signal_bus_enabled THEN AppendToBus(get_network_signal(b, mime), d)
                             ELSE get_network_signal(b, mime)

(* network_pull: the stream is rewound; the content is what a read returns.*)
Rewound(b, mime) ==
  LET n == get_network_signal(b, mime)
  IN IF n.nc THEN [n EXCEPT !.stream = StreamSeek(@, 0, "SEEK_SET")] ELSE n

network_pull(b, mime) ==
  LET n == Rewound(b, mime) IN IF n.nc THEN StreamReadData(n.stream) ELSE << >>

(* Fault: nothing is truncated.                                            *)
network_truncate_none(b) == b

network_truncate(b) ==
  IF b.found /\ b.nc THEN [b EXCEPT !.stream = StreamSeek(@, 0, "SEEK_RESET")] ELSE b
-----------------------------------------------------------------------------
(***************************************************************************)
(* csv.c.                                                                  *)
(***************************************************************************)
(* strtod (external), as csv.c and importer.c use it, with no end pointer: *)
(* what is no number, an empty line too, reads as 0, and errno reports a   *)
(* number out of range only.                                               *)
strtod(text) == IF text = NoNumber THEN 0 ELSE text

errno(text) == text = OutOfRange

(* A line whose time csv_read_line accepts.                                *)
Valid(n) == ~errno(csv.lines[n].ts) /\ strtod(csv.lines[n].ts) >= 0

(* csv_read_line: the next line after n with a valid time, or 0 at EOF.    *)
csv_read_line(n) ==
  LET rest == {m \in DOMAIN csv.lines : m > n /\ Valid(m)}
  IN IF rest = {} THEN 0 ELSE CHOOSE m \in rest : \A k \in rest : m <= k

(* The time of line n, -1 after EOF.                                       *)
TimeOf(n) == IF n = 0 THEN 0 - 1 ELSE strtod(csv.lines[n].ts)

(* The inner loop of _apply_samples: the cells of line n, column by        *)
(* column; a later column overrides an earlier one of the same input, and  *)
(* a cell out of range is passed over.                                     *)
ApplyLine(val, n) ==
  LET cells == csv.lines[n].cells
      Cols(v) == {c \in DOMAIN cells : c <= Len(index) /\ index[c] = v /\ ~errno(cells[c])}
  IN [v \in Input |-> IF Cols(v) = {} THEN val[v]
                      ELSE strtod(cells[CHOOSE c \in Cols(v) : \A k \in Cols(v) : k <= c])]

(* Fault: a sample waits for the step after its time.                      *)
DueBefore(t) == timestamp >= 0 /\ timestamp < t

(* The condition of the outer loop of _apply_samples.                      *)
Due(t) == timestamp >= 0 /\ timestamp <= t
-----------------------------------------------------------------------------
(* The model description is parsed: an input has its start value, which    *)
(* the FMU is given before the first step.                                 *)
Init ==
  /\ MInit
  /\ pc = "main" /\ i = 1 /\ version \in {2, 3} /\ signal_bus_enabled \in BOOLEAN
  /\ bus = NoSignal
  /\ val_tx = [t \in TxBox |-> NULL] /\ val_rx = [r \in RxBox |-> NULL]
  /\ step = 0
  /\ csv \in {NULL} \cup [header : Headers, lines : UNION {[1 .. n -> Lines] : n \in 0 .. MaxLines}]
  /\ line = 0 /\ timestamp = 0 - 1 /\ index = << >>
  /\ val_rx_real = Start /\ fmu_real = [v \in Input |-> 0]
  /\ fmu = FALSE
  /\ emitted = [t \in TxBox |-> << >>]

(* main, csv_open and csv_index: a column for no input ends the program.   *)
csv_index ==
  /\ pc = "main"
  /\ \/ /\ csv = NULL
        /\ pc' = "inst" /\ UNCHANGED <<line, timestamp, index>>
     \/ /\ csv # NULL
        /\ LET n == IF Len(csv.header) < Cardinality(Input) THEN Len(csv.header)
                                                             ELSE Cardinality(Input)
           IN IF \A c \in 1 .. n : csv.header[c] \in Input
              THEN /\ pc' = "inst"
                   /\ index' = SubSeq(csv.header, 1, n)
                   /\ line' = csv_read_line(0)
                   /\ timestamp' = TimeOf(line')
              ELSE pc' = "exit" /\ UNCHANGED <<line, timestamp, index>>
  /\ UNCHANGED <<i, version, signal_bus_enabled, busVars, step, csv, val_rx_real,
                 fmu_real, fmu, emitted, mvars>>

(* A function the library lacks, or no instance: EINVAL, and an instance   *)
(* that exists is not freed.                                               *)
SetupFails ==
  /\ pc \in {"inst", "setup"}
  /\ pc' = "release"
  /\ UNCHANGED <<i, version, signal_bus_enabled, busVars, step, csvVars, fmu_real,
                 fmu, emitted, mvars>>

(* Instantiate.                                                            *)
InstantiateFmu ==
  /\ pc = "inst"
  /\ pc' = "setup" /\ fmu' = TRUE
  /\ UNCHANGED <<i, version, signal_bus_enabled, busVars, step, csvVars, fmu_real, emitted, mvars>>

(* ExitInitializationMode, whose status is ignored, up to the loop.        *)
SetupFmu ==
  /\ pc = "setup"
  /\ pc' = "samples"
  /\ UNCHANGED <<i, version, signal_bus_enabled, busVars, step, csvVars, fmu_real,
                 fmu, emitted, mvars>>

(* _apply_samples: one turn of its loop.                                   *)
ApplySample ==
  /\ pc = "samples" /\ csv # NULL /\ Due(step)
  /\ val_rx_real' = ApplyLine(val_rx_real, line)
  /\ line' = csv_read_line(line)
  /\ timestamp' = TimeOf(line')
  /\ UNCHANGED <<pc, i, version, signal_bus_enabled, busVars, step, csv, index,
                 fmu_real, fmu, emitted, mvars>>

(* No sample is due: the next step starts, or the loop is over.            *)
NextStep ==
  /\ pc = "samples" /\ (csv = NULL \/ ~Due(step))
  /\ IF step < MaxSteps
     THEN pc' = "push" /\ bus' = network_truncate(bus)
     ELSE pc' = "free" /\ bus' = NoSignal
  /\ i' = 1
  /\ UNCHANGED <<version, signal_bus_enabled, val_tx, val_rx, step, csvVars,
                 fmu_real, fmu, emitted, mvars>>

(* Loopback, TX -> bus: the text is decoded, freed and pushed.             *)
Push ==
  /\ pc = "push" /\ i <= Len(TxList)
  /\ LET t == TxList[i]
     IN IF Mime[t] = NULL \/ val_tx[t] = NULL THEN UNCHANGED <<bus, val_tx>>
        ELSE /\ bus' = network_push(bus, Mime[t], dse_ascii85_decode(val_tx[t]))
             /\ val_tx' = [val_tx EXCEPT ![t] = NULL]
  /\ i' = i + 1
  /\ UNCHANGED <<pc, version, signal_bus_enabled, val_rx, step, csvVars, fmu_real,
                 fmu, emitted, mvars>>

(* The frame injected in a step carries the number of the step.            *)
Injected(n) == <<"importer", n>>

(* A frame is injected when the first output has frames.                   *)
Inject ==
  /\ pc = "push" /\ i > Len(TxList)
  /\ bus' = IF Len(TxList) > 0 /\ Mime[TxList[1]] \in FrameTypes
            THEN network_inject_frame(bus, Mime[TxList[1]], Injected(step + 1))
            ELSE bus
  /\ pc' = "pull" /\ i' = 1
  /\ UNCHANGED <<version, signal_bus_enabled, val_tx, val_rx, step, csvVars, fmu_real,
                 fmu, emitted, mvars>>

(* Loopback, bus -> RX: every input gets the text of the whole bus, NULL   *)
(* for an empty one.                                                       *)
Pull ==
  /\ pc = "pull" /\ i <= Len(RxList)
  /\ LET r == RxList[i]
     IN IF Mime[r] = NULL THEN UNCHANGED <<bus, val_rx>>
        ELSE LET d == network_pull(bus, Mime[r])
             IN /\ bus' = Rewound(bus, Mime[r])
                /\ val_rx' = [val_rx EXCEPT ![r] = IF d = << >> THEN NULL
                                                   ELSE dse_ascii85_encode(d)]
  /\ i' = i + 1
  /\ UNCHANGED <<pc, version, signal_bus_enabled, val_tx, step, csvVars, fmu_real,
                 fmu, emitted, mvars>>

PullDone ==
  /\ pc = "pull" /\ i > Len(RxList)
  /\ pc' = "set" /\ i' = 1
  /\ UNCHANGED <<version, signal_bus_enabled, busVars, step, csvVars, fmu_real,
                 fmu, emitted, mvars>>

(* SetString / SetBinary: one element, whose text is then released.  The   *)
(* FMU decodes it; a NULL only starts the new cycle.                       *)
SetElement ==
  /\ pc = "set" /\ i <= Len(RxList)
  /\ LET r == RxList[i]
     IN /\ IF val_rx[r] = NULL THEN Discard ELSE Put(r, dse_ascii85_decode(val_rx[r]))
        /\ val_rx' = [val_rx EXCEPT ![r] = NULL]
  /\ i' = i + 1
  /\ UNCHANGED <<pc, version, signal_bus_enabled, bus, val_tx, step, csvVars, fmu_real,
                 fmu, emitted>>

(* SetReal / SetFloat64 and the call of DoStep.                            *)
StepFmu ==
  /\ pc = "set" /\ i > Len(RxList)
  /\ fmu_real' = val_rx_real
  /\ Begin
  /\ pc' = "step"
  /\ emitted' = [t \in TxBox |-> << >>]
  /\ UNCHANGED <<i, version, signal_bus_enabled, busVars, step, csvVars, fmu>>

(* The FMU sends a frame (external).                                       *)
FmuEmits(t, f) ==
  /\ pc = "step" /\ Len(emitted[t]) < MaxEmit
  /\ Emit(t, <<f>>)
  /\ emitted' = [emitted EXCEPT ![t] = Append(@, f)]
  /\ UNCHANGED <<pc, i, version, signal_bus_enabled, busVars, step, csvVars, fmu_real, fmu>>

(* DoStep returns; an error is logged only.                                *)
StepReturns ==
  /\ pc = "step"
  /\ End
  /\ pc' = "get"
  /\ UNCHANGED <<i, version, signal_bus_enabled, busVars, step, csvVars, fmu_real, fmu, emitted>>

(* GetReal, GetString and the strdup of each text; time advances.          *)
ReadFmu ==
  /\ pc = "get"
  /\ val_tx' = [t \in TxBox |-> IF outbox[t] = << >> THEN NULL
                                ELSE dse_ascii85_encode(FlattenSeq(outbox[t]))]
  /\ step' = step + 1
  /\ pc' = "samples"
  /\ UNCHANGED <<i, version, signal_bus_enabled, bus, val_rx, csvVars, fmu_real,
                 fmu, emitted, mvars>>

(* FreeInstance; when the library lacks it the instance stays.             *)
FreeFmu(ok) ==
  /\ pc = "free"
  /\ IF ok THEN fmu' = FALSE /\ Restart ELSE UNCHANGED <<fmu, mvars>>
  /\ pc' = "release"
  /\ UNCHANGED <<i, version, signal_bus_enabled, busVars, step, csvVars, fmu_real, emitted>>

(* main: the texts are freed, the library closed.                          *)
Release ==
  /\ pc = "release"
  /\ val_tx' = [t \in TxBox |-> NULL] /\ val_rx' = [r \in RxBox |-> NULL]
  /\ pc' = "exit"
  /\ UNCHANGED <<i, version, signal_bus_enabled, bus, step, csvVars, fmu_real,
                 fmu, emitted, mvars>>

Exited == pc = "exit" /\ UNCHANGED vars

RunCosim ==
  \/ SetupFails
  \/ InstantiateFmu
  \/ SetupFmu
  \/ ApplySample
  \/ NextStep
  \/ Push
  \/ Inject
  \/ Pull
  \/ PullDone
  \/ SetElement
  \/ StepFmu
  \/ StepReturns
  \/ ReadFmu
  \/ \E ok \in BOOLEAN : FreeFmu(ok)

run_fmu2_cosim == version = 2 /\ RunCosim

run_fmu3_cosim == version = 3 /\ RunCosim

Next ==
  \/ csv_index
  \/ run_fmu2_cosim
  \/ run_fmu3_cosim
  \/ \E t \in TxBox, f \in Frame : FmuEmits(t, f)
  \/ Release
  \/ Exited

Spec == Init /\ [][Next]_vars
-----------------------------------------------------------------------------
(***************************************************************************)
(* Properties.                                                             *)
(***************************************************************************)

(* What the first n outputs sent in the last step, in the order of the     *)
(* variables.                                                              *)
LoopbackUpTo(n, sent) ==
  FlattenSeq([m \in 1 .. n |-> IF Mime[TxList[m]] = NULL THEN << >> ELSE sent[TxList[m]]])

(* The frame of a step, when the first output has frames.                  *)
InjectedFrames(n) ==
  IF Len(TxList) > 0 /\ Mime[TxList[1]] \in FrameTypes THEN <<Injected(n)>> ELSE << >>

(* A frame that any output sent in a step reaches every input with a MIME  *)
(* type in the next step: once, in order, and followed by the frame        *)
(* injected for that step; without the signal bus the inputs get the       *)
(* injected frame alone.  Nothing of older steps is left on the bus, and   *)
(* no text is decoded or encoded once too often.                           *)
LoopbackExact ==
  pc = "set" /\ i > Len(RxList) =>
    \A r \in RxBox :
      FlattenSeq(inbox[r]) =
        IF Mime[r] = NULL THEN << >>
        ELSE (IF signal_bus_enabled THEN LoopbackUpTo(Len(TxList), emitted) ELSE << >>)
               \o InjectedFrames(step + 1)

(* The lines up to the first that lies after time t.                       *)
Past(t) ==
  {n \in DOMAIN csv.lines :
     Valid(n) /\ \A m \in 1 .. n : Valid(m) => strtod(csv.lines[m].ts) <= t}

(* The cells of the past lines for input v, as <<line, column>>.           *)
CellsFor(v, t) ==
  {c \in Past(t) \X (1 .. Cardinality(Input)) :
     /\ c[2] \in DOMAIN csv.header /\ csv.header[c[2]] = v
     /\ c[2] \in DOMAIN csv.lines[c[1]].cells
     /\ ~errno(csv.lines[c[1]].cells[c[2]])}

LastCell(C) == CHOOSE c \in C : \A d \in C : d[1] < c[1] \/ (d[1] = c[1] /\ d[2] <= c[2])

(* In every step the FMU's inputs have the newest samples of the CSV file  *)
(* whose time has come, not one step early or late, whatever lines with a  *)
(* negative time or one out of range, short lines or cells out of range    *)
(* lie between them; before its first sample an input has its start value. *)
(* A time or a cell that is no number counts as 0, like one that says 0.   *)
SamplesOnTime ==
  pc = "step" /\ csv # NULL =>
    \A v \in Input :
      LET C == CellsFor(v, step)
      IN fmu_real[v] = IF C = {} THEN Start[v]
                       ELSE strtod(csv.lines[LastCell(C)[1]].cells[LastCell(C)[2]])
=============================================================================
