--------------------------- MODULE VariableIndex ---------------------------
(***************************************************************************)
(* One modelDescription.xml read twice: by the importer (importer/xml.c),  *)
(* which lists the variables it will exchange, and by the default FMU      *)
(* (fmu/signal.c, fmi2variable.c), which gives every variable a slot in a  *)
(* signal vector and opens the NCODEC objects (ncodec.c).  They do not     *)
(* share code, and agree only through the value references.                *)
(*                                                                         *)
(* A variable of a document has a name, a value reference vr, a causality, *)
(* its element children in order (types), an encoding, a MIME type and a   *)
(* start value; NULL for an attribute that is not there.  In FMI 3 the     *)
(* variable is the typed element itself: types has one entry.              *)
(***************************************************************************)
EXTENDS Integers, FiniteSets, Sequences

CONSTANTS
  NULL,
  Documents,     \* [version, variables] of the documents there may be
  Supported,     \* MIME types ncodec_create() knows
  Traced,        \* MIME types whose trace the environment turns on
  Value          \* scalar values, 0 among them

ScalarType == {"Real", "Integer", "Boolean", "Float64"}
BinaryType == {"String", "Binary"}

Kind == {"scalar", "binary"}
TypesOf(kind) == IF kind = "scalar" THEN ScalarType ELSE BinaryType

Is(v, kind) == \E i \in DOMAIN v.types : v.types[i] \in TypesOf(kind)

(* The elements of a document and the children of an element are lists.    *)
IsList(s) == Len(s) \in Nat /\ DOMAIN s = 1 .. Len(s)

(* Variables of one kind and causality have distinct value references, an  *)
(* input or output has one, and every name is used once.  A variable has   *)
(* one typed child.                                                        *)
ASSUME DocumentAssumption ==
  \A D \in Documents :
    /\ IsList(D.variables)
    /\ \A i \in DOMAIN D.variables : IsList(D.variables[i].types)
    /\ \A i, j \in DOMAIN D.variables : i # j =>
         LET v == D.variables[i]  w == D.variables[j]
         IN  /\ v.name # w.name
             /\ \A k \in Kind : Is(v, k) /\ Is(w, k) /\ v.causality = w.causality => v.vr # w.vr
    /\ \A i \in DOMAIN D.variables :
         LET v == D.variables[i]
         IN  /\ v.causality \in {"input", "output"} \/ v.encoding # NULL => v.vr # NULL
             /\ Cardinality({j \in DOMAIN v.types : v.types[j] \in ScalarType \cup BinaryType}) = 1

(* Without a Start an FMI 3 Binary is not readable for the importer:       *)
(* strdup(NULL).                                                           *)
ASSUME StartAssumption ==
  \A D \in Documents : D.version = 3 => \A i \in DOMAIN D.variables :
    D.variables[i].types[1] = "Binary" => D.variables[i].start # NULL

ASSUME ValueAssumption == 0 \in Value

VARIABLES
  version, variables,  \* the document
  pc,            \* "parse" by the importer, "count", "scalar", "binary" by
                 \*   the FMU, "ready", "removed", "refused"
  at,            \* the variable being read
  real_rx, real_tx,      \* the importer's lists: vr -> value
  binary_rx, binary_tx,  \* the importer's lists: vr -> MIME type
  count,         \* sv->count of each vector
  signal,        \* sv->signal of each vector: the names of its slots so far
  input, output, \* fmu->variables.scalar: vr -> slot
  rx, tx,        \* fmu->variables.binary: vr -> slot
  encoded,       \* keys of encode_func and decode_func
  ncodec,        \* sv->ncodec: the MIME types of open objects, by slot
  trace,         \* the open objects with trace data
  streams,       \* the streams that are allocated
  scalar,        \* sv->scalar
  last           \* history: the value last given to each scalar variable

docVars == <<version, variables>>
listVars == <<real_rx, real_tx, binary_rx, binary_tx>>
idxVars == <<count, signal, input, output, rx, tx, encoded>>
ncVars == <<ncodec, trace, streams>>
vars == <<docVars, pc, at, listVars, idxVars, ncVars, scalar, last>>

Set(f, x, y) == [z \in DOMAIN f \cup {x} |-> IF z = x THEN y ELSE f[z]]

SetIf(cond, f, x, y) == IF cond THEN Set(f, x, y) ELSE f

Var == variables[at]

Init ==
  /\ \E D \in Documents : version = D.version /\ variables = D.variables
  /\ pc = "parse" /\ at = 1
  /\ real_rx = << >> /\ real_tx = << >> /\ binary_rx = << >> /\ binary_tx = << >>
  /\ count = [k \in Kind |-> 0] /\ signal = [k \in Kind |-> << >>]
  /\ input = << >> /\ output = << >> /\ rx = << >> /\ tx = << >> /\ encoded = {}
  /\ ncodec = << >> /\ trace = {} /\ streams = {}
  /\ scalar = << >> /\ last = << >>

-----------------------------------------------------------------------------
(* The importer.                                                           *)

(* The types it exchanges: Real and String, Float64 and Binary.            *)
ImporterType(kind) ==
  IF kind = "scalar" THEN IF version = 2 THEN "Real" ELSE "Float64"
  ELSE IF version = 2 THEN "String" ELSE "Binary"

Listed(kind) == \E i \in DOMAIN Var.types : Var.types[i] = ImporterType(kind)

(* _parse_fmi2_scalar, _parse_fmi3_scalar.                                 *)
ParseScalar ==
  LET start == IF Var.start = NULL THEN 0 ELSE Var.start
  IN  /\ real_rx' = SetIf(Listed("scalar") /\ Var.causality = "input", real_rx, Var.vr, start)
      /\ real_tx' = SetIf(Listed("scalar") /\ Var.causality = "output", real_tx, Var.vr, start)

(* _parse_fmi2_string, _parse_fmi3_binary.                                 *)
ParseBinary ==
  /\ binary_rx' = SetIf(Listed("binary") /\ Var.causality = "input", binary_rx, Var.vr, Var.mime)
  /\ binary_tx' = SetIf(Listed("binary") /\ Var.causality = "output", binary_tx, Var.vr, Var.mime)

(* _parse_fmi2_model_desc, _parse_fmi3_model_desc, one variable.           *)
ParseVariable ==
  /\ pc = "parse" /\ version \in {2, 3} /\ at \in DOMAIN variables
  /\ IF Var.vr = NULL \/ Var.causality = NULL
       THEN UNCHANGED listVars ELSE ParseScalar /\ ParseBinary
  /\ at' = at + 1
  /\ UNCHANGED <<docVars, pc, idxVars, ncVars, scalar, last>>

(* parse_model_desc returns.  A version it does not know gives nothing.    *)
ParseDone ==
  /\ pc = "parse"
  /\ \/ version \notin {2, 3} /\ pc' = "refused"
     \/ version \in {2, 3} /\ at = Len(variables) + 1 /\ pc' = "count"
  /\ at' = 1
  /\ UNCHANGED <<docVars, listVars, idxVars, ncVars, scalar, last>>

-----------------------------------------------------------------------------
(* The FMU.                                                                *)

(* The element children of the variables, as <<variable, child>>.          *)
Children == UNION {{i} \X (DOMAIN variables[i].types) : i \in DOMAIN variables}

(* Fault: Boolean variables are not counted.                               *)
CountWithoutBoolean(kind) ==
  Cardinality({x \in Children : variables[x[1]].types[x[2]] \in TypesOf(kind) \ {"Boolean"}})

(* fmu_variable_count; the default FMI 3 FMU has no variables.             *)
fmu_variable_count(kind) ==
  IF version = 3 THEN 0
  ELSE Cardinality({x \in Children : variables[x[1]].types[x[2]] \in TypesOf(kind)})

(* __allocate_sv for both kinds.                                           *)
AllocateVectors ==
  /\ pc = "count"
  /\ count' = [k \in Kind |-> fmu_variable_count(k)]
  /\ scalar' = [s \in 1..count'["scalar"] |-> 0]
  /\ last' = [n \in {variables[i].name : i \in {j \in DOMAIN variables : Is(variables[j], "scalar")}} |-> 0]
  /\ ncodec' = [s \in 1..count'["binary"] |-> NULL]
  /\ pc' = "scalar" /\ at' = 1
  /\ UNCHANGED <<docVars, listVars, signal, input, output, rx, tx, encoded, trace, streams>>

(* The slot of the next variable, sv_idx.                                  *)
Slot(kind) == Len(signal[kind]) + 1

(* A variable is indexed when its typed child comes first: the scan of the *)
(* children stops at the first element of another kind.                    *)
Indexed(kind) ==
  version = 2 /\ Var.types # << >> /\ Var.types[1] \in TypesOf(kind)

(* Fault: every variable is an input.                                      *)
IndexAsInput ==
  /\ input' = Set(input, Var.vr, Slot("scalar"))
  /\ UNCHANGED output

__index_scalar_variable ==
  /\ output' = SetIf(Var.causality = "output", output, Var.vr, Slot("scalar"))
  /\ input' = SetIf(Var.causality = "input", input, Var.vr, Slot("scalar"))

(* ncodec_open: the object for a MIME type, which is supported.            *)
ncodec_open(mime) == IF mime \in Supported THEN mime ELSE NULL

(* trace_configure of an open object; the filter is the environment's.     *)
trace_configure(slot, mime) ==
  trace' = trace \cup (IF ncodec_open(mime) # NULL /\ mime \in Traced THEN {slot} ELSE {})

(* Fault: the stream is kept when there is no object for it.               *)
KeepStream(slot, mime) ==
  /\ ncodec' = [ncodec EXCEPT ![slot] = ncodec_open(mime)]
  /\ streams' = streams \cup {slot}
  /\ trace_configure(slot, mime)

(* fmu_ncodec_open: a stream, and the object for it; the stream is         *)
(* released when there is none.                                            *)
fmu_ncodec_open(slot, mime) ==
  /\ ncodec' = [ncodec EXCEPT ![slot] = ncodec_open(mime)]
  /\ streams' = streams \cup (IF ncodec_open(mime) # NULL THEN {slot} ELSE {})
  /\ trace_configure(slot, mime)

__index_binary_variable ==
  /\ tx' = SetIf(Var.causality = "output", tx, Var.vr, Slot("binary"))
  /\ rx' = SetIf(Var.causality = "input", rx, Var.vr, Slot("binary"))
  /\ encoded' = encoded \cup (IF Var.encoding = "ascii85" THEN {Var.vr} ELSE {})
  /\ fmu_ncodec_open(Slot("binary"), Var.mime)

(* fmu_variable_index, one variable.  A slot beyond the vector would fail  *)
(* the assertion; a vector without slots is not there.                     *)
IndexVariable(kind) ==
  /\ pc = kind /\ at \in DOMAIN variables /\ count[kind] > 0
  /\ IF Indexed(kind)
       THEN /\ signal' = [signal EXCEPT ![kind] = Append(@, Var.name)]
            /\ IF kind = "scalar"
                 THEN __index_scalar_variable /\ UNCHANGED <<rx, tx, encoded, ncVars>>
                 ELSE __index_binary_variable /\ UNCHANGED <<input, output>>
       ELSE UNCHANGED <<signal, input, output, rx, tx, encoded, ncVars>>
  /\ at' = at + 1
  /\ UNCHANGED <<docVars, pc, listVars, count, scalar, last>>

IndexDone(kind) ==
  /\ pc = kind /\ (at = Len(variables) + 1 \/ count[kind] = 0)
  /\ pc' = IF kind = "scalar" THEN "binary" ELSE "ready"
  /\ at' = 1
  /\ UNCHANGED <<docVars, listVars, idxVars, ncVars, scalar, last>>

-----------------------------------------------------------------------------
(* The exchange.                                                           *)

Named(vr, causality, type) ==
  {variables[i].name : i \in {j \in DOMAIN variables :
     /\ variables[j].vr = vr /\ variables[j].causality = causality
     /\ \E k \in DOMAIN variables[j].types : variables[j].types[k] = type}}

Write(map, vr, val) ==
  scalar' = IF vr \in DOMAIN map THEN [scalar EXCEPT ![map[vr]] = val] ELSE scalar

(* set_real(): the importer sets a variable of its list.                   *)
SetReal(vr, val) ==
  /\ pc = "ready" /\ version = 2
  /\ Write(input, vr, val)
  /\ last' = [n \in DOMAIN last |-> IF n \in Named(vr, "input", "Real") THEN val ELSE last[n]]
  /\ UNCHANGED <<docVars, pc, at, listVars, idxVars, ncVars>>

(* The FMU computes an output, which it found with fmu_register_var().     *)
fmu_register_var(vr, val) ==
  /\ pc = "ready" /\ version = 2
  /\ Write(output, vr, val)
  /\ last' = [n \in DOMAIN last |-> IF n \in Named(vr, "output", "Real") THEN val ELSE last[n]]
  /\ UNCHANGED <<docVars, pc, at, listVars, idxVars, ncVars>>

(* get_real(): the importer reads a variable of its list.                  *)
GetReal(vr) ==
  IF vr \in DOMAIN output THEN scalar[output[vr]]
  ELSE IF vr \in DOMAIN input THEN scalar[input[vr]] ELSE NULL

(* Fault: the direction is ignored.                                        *)
LookupOutput(vr, in) == IF vr \in DOMAIN tx THEN ncodec[tx[vr]] ELSE NULL

(* fmu_lookup_ncodec: the object of a network variable, NULL without.      *)
fmu_lookup_ncodec(vr, in) ==
  LET map == IF in THEN rx ELSE tx
  IN  IF vr \in DOMAIN map THEN ncodec[map[vr]] ELSE NULL

(* fmu_ncodec_close of the objects in slots S: trace_destroy, and          *)
(* ncodec_close, which closes the stream.                                  *)
fmu_ncodec_close(S) == trace' = trace \ S /\ streams' = streams \ S

fmu_default_signals_remove ==
  /\ pc = "ready"
  /\ fmu_ncodec_close({s \in DOMAIN ncodec : ncodec[s] # NULL})
  /\ ncodec' = << >> /\ scalar' = << >>
  /\ pc' = "removed"
  /\ UNCHANGED <<docVars, at, listVars, idxVars, last>>

Done == pc \in {"removed", "refused"} /\ UNCHANGED vars

Next ==
  \/ ParseVariable \/ ParseDone \/ AllocateVectors
  \/ \E k \in Kind : IndexVariable(k) \/ IndexDone(k)
  \/ \E vr \in DOMAIN real_rx, val \in Value : SetReal(vr, val)
  \/ \E vr \in DOMAIN real_tx, val \in Value : fmu_register_var(vr, val)
  \/ fmu_default_signals_remove \/ Done

Spec == Init /\ [][Next]_vars

-----------------------------------------------------------------------------
(* Properties.                                                             *)

(* The slots given out never exceed those counted, which is the assertion  *)
(* at fmi2variable.c:193, and no two value references lead to one slot.    *)
SlotsCounted ==
  /\ \A k \in Kind : Len(signal[k]) <= count[k]
  /\ \A m \in {input, output, rx, tx} : \A a, b \in DOMAIN m : m[a] = m[b] => a = b
  /\ \A a \in DOMAIN input, b \in DOMAIN output : input[a] # output[b]
  /\ \A a \in DOMAIN rx, b \in DOMAIN tx : rx[a] # tx[b]

(* What the importer sets for an input is in the slot of that variable,    *)
(* and what it reads for an output is what the FMU computed for that       *)
(* variable, for every variable of the importer's lists whose element      *)
(* starts with its type (importer/xml.c:161, fmi2variable.c:108).          *)
ExchangeExact ==
  pc = "ready" /\ version = 2 =>
    \A i \in DOMAIN variables :
      LET v == variables[i]
      IN  v.types[1] = "Real" =>
            /\ v.vr \in DOMAIN real_rx /\ v.causality = "input" =>
                 scalar[input[v.vr]] = last[v.name] /\ signal["scalar"][input[v.vr]] = v.name
            /\ v.vr \in DOMAIN real_tx /\ v.causality = "output" => GetReal(v.vr) = last[v.name]

(* For a network variable of the importer's lists that the FMU indexed,    *)
(* both use the codec of its MIME type, whatever other networks there are, *)
(* and the FMU has none only for a type that is not supported              *)
(* (importer/xml.c:190, fmi2variable.c:159, signal.c:152).                 *)
CodecsAgree ==
  pc = "ready" /\ version = 2 =>
    \A i \in DOMAIN variables :
      LET v == variables[i]
          agree(list, in) ==
            v.vr \in DOMAIN list /\ v.causality = (IF in THEN "input" ELSE "output") =>
              fmu_lookup_ncodec(v.vr, in) = IF list[v.vr] \in Supported THEN list[v.vr] ELSE NULL
      IN  v.types[1] = "String" => agree(binary_rx, TRUE) /\ agree(binary_tx, FALSE)

(* Streams and trace data belong to open objects, and none is left when    *)
(* the signals are removed (ncodec.c:571, :595, signal.c:298).             *)
CodecsReleased ==
  /\ streams = {s \in DOMAIN ncodec : ncodec[s] # NULL}
  /\ trace \subseteq streams
=============================================================================
