----------------------------- MODULE ModelcFmu -----------------------------
(***************************************************************************)
(* The FMI ModelC FMU, from the SignalGroups of a simulation to the SimBus *)
(* signal an importer's call reaches:                                      *)
(*                                                                         *)
(*  - the annotation command of the FMI toolset (modelcfmu.go) gives every *)
(*    input and output a value reference, its offset in the direct index   *)
(*    or the next number of a counter;                                     *)
(*  - fmu_create sets the environment of the simulation, fmu_init builds   *)
(*    the index of the FMU (runtime.c): the SimBus map, or hash maps from  *)
(*    value reference to SimBus signal;                                    *)
(*  - the FMI calls read and write SimBus signals through that index.      *)
(*                                                                         *)
(* The simulation folder is chosen in the initial state: the SignalGroup   *)
(* documents, the --signalgroups filter, and whether a direct index is     *)
(* built.  The rule set of the command is not empty and has set the        *)
(* causalities.  ModelC itself (the SimBus, its vectors, the models) is    *)
(* outside this repository and modelled from how runtime.c uses it.        *)
(***************************************************************************)
EXTENDS DirectIndex

CONSTANTS
  NULL,
  Documents,      \* lists of SignalGroup documents a folder may hold
  Filters,        \* values of --signalgroups, {} when not given
  StackChannel,   \* the channels of the stack's models, in document order
  Value,          \* scalar values, 0 among them
  Frame,          \* content of network signals
  MaxFrames,      \* bound: frames in one network signal
  UserEnv,        \* the environment of the importer
  StackEnv,       \* stack: spec/runtime/env, name -> value
  Instance,       \* the model instances: name and runtime/env, name -> value
  Upper           \* toupper() of the names of instances and variables

(* The selectors of a channel, those of its Model when it has none.        *)
Selectors(k) ==
  IF StackChannel[k].selectors = NULL
    THEN StackChannel[k].model
    ELSE StackChannel[k].selectors

(* A SignalGroup document: its name and labels, whether it is an index and *)
(* whether its vector is binary, and its signals.  A signal has the name   *)
(* and causality, the value reference it is annotated with beforehand      *)
(* (networks), and the lists and the encoding of a network.                *)
IsDocument(d) ==
  /\ d.index \in BOOLEAN /\ d.binary \in BOOLEAN
  /\ d.signals \in Seq([signal : Signal, causality : {"input", "output", "local", NULL},
                         vref : Nat \cup {NULL}, rx : SUBSET Nat, tx : SUBSET Nat,
                         text : SUBSET Nat, encoding : {"ascii85", "none"}])
  /\ ~d.binary => \A i \in DOMAIN d.signals : d.signals[i].vref = NULL

ASSUME DocumentAssumption ==
  \A D \in Documents :
    /\ Len(D) \in Nat /\ D = [d \in 1..Len(D) |-> D[d]]
    /\ \A d \in 1..Len(D) : IsDocument(D[d])

ASSUME ChannelAssumption ==
  /\ Len(StackChannel) \in Nat /\ StackChannel = [k \in 1..Len(StackChannel) |-> StackChannel[k]]
  /\ \A k \in 1..Len(StackChannel) : StackChannel[k].name \in Channel
  /\ NULL \notin Channel /\ NULL \notin Nat

(* The channels that select a document have one SimBus name.               *)
ASSUME OneChannelAssumption ==
  \A D \in Documents : \A d \in 1..Len(D) : \A j, k \in 1..Len(StackChannel) :
    /\ Selectors(j) # NULL /\ Selectors(j) \subseteq D[d].labels
    /\ Selectors(k) # NULL /\ Selectors(k) \subseteq D[d].labels
    => StackChannel[j].name = StackChannel[k].name

(* A value reference is listed, as an input or as an output, by one        *)
(* network, and the documents that describe a network agree on its         *)
(* encoding.                                                               *)
ASSUME NetworkAssumption ==
  \A D \in Documents : \A d, e \in 1..Len(D) :
  \A i \in DOMAIN D[d].signals, j \in DOMAIN D[e].signals : \A k, l \in 1..Len(StackChannel) :
    LET a == D[d].signals[i]
        b == D[e].signals[j]
    IN  /\ D[d].binary /\ D[e].binary
        /\ Selectors(k) # NULL /\ Selectors(k) \subseteq D[d].labels
        /\ Selectors(l) # NULL /\ Selectors(l) \subseteq D[e].labels
        => /\ a.rx \cap b.rx # {} \/ a.tx \cap b.tx # {} =>
                a.signal = b.signal /\ StackChannel[k].name = StackChannel[l].name
           /\ k = l /\ a.signal = b.signal => a.encoding = b.encoding

(* Instances and their variables differ in upper case too, and one is the  *)
(* simbus at most.                                                         *)
ASSUME InstanceAssumption ==
  /\ Len(Instance) \in Nat /\ Instance = [k \in 1..Len(Instance) |-> Instance[k]]
  /\ \A j, k \in 1..Len(Instance) :
       \/ j = k
       \/ Instance[j].name = "simbus" /\ Instance[k].name # "simbus"
       \/ Instance[j].name # "simbus" /\ Instance[k].name = "simbus"
       \/ Upper[Instance[j].name] # Upper[Instance[k].name]
  /\ \A k \in 1..Len(Instance) : Instance[k].name # "simbus" =>
       /\ Upper[Instance[k].name] # ""
       /\ \A m, n \in DOMAIN Instance[k].env : Upper[m] = Upper[n] => m = n

ASSUME ScalarAssumption == 0 \in Value /\ NULL \notin Value /\ MaxFrames \in Nat

VARIABLES
  docs,           \* the SignalGroup documents
  filter,         \* --signalgroups
  direct,         \* --index: a direct index is built
  pc,             \* "index", "offsets", "annotate", "failed", then the FMU's
                  \*   phases "generated", "created", "ready", "freed"
  at,             \* the document and signal the command works on
  vrefs,          \* fmi_variable_vref of every signal, NULL without
  vref,           \* the counter c.vref
  env,            \* environment of the process
  direct_map,     \* fmu->direct_index.map is set
  scalar_input, scalar_output,  \* fmu->variables.scalar: vref -> signal
  binary_rx, binary_tx,         \* fmu->variables.binary: vref -> signal
  encoded,        \* keys of encode_func and decode_func
  signals_reset,  \* fmu->variables.signals_reset
  bus,            \* SimBus scalars, NULL for a damaged one
  damaged,        \* a write hit something else than SimBus scalars
  net,            \* SimBus binary signals: the frames they hold
  expect,         \* history: the values last given to each scalar
  sent            \* history: frames set on each network since the last step

cmdVars == <<docs, filter, direct, vrefs, vref>>
idxVars == <<direct_map, scalar_input, scalar_output, binary_rx, binary_tx, encoded>>
busVars == <<bus, damaged, net, expect, sent, signals_reset>>
vars == <<diVars, cmdVars, pc, at, env, idxVars, busVars>>

-----------------------------------------------------------------------------
(* The simulation folder.                                                  *)

(* Each selector must match to a label.                                    *)
Selects(k, d) == Selectors(k) # NULL /\ Selectors(k) \subseteq docs[d].labels

(* The channel of the first model channel that selects the document.       *)
lookupSimBusChannelName(d) ==
  LET K == {k \in DOMAIN StackChannel : Selects(k, d)}
  IN  IF K = {} THEN NULL
      ELSE StackChannel[CHOOSE k \in K : \A j \in K : k <= j].name

(* The documents the command works on: named by the filter, and not an     *)
(* index themselves.                                                       *)
Chosen(d) ==
  /\ filter # {} => docs[d].name \in filter
  /\ ~docs[d].index

Sig(d, i) == docs[d].signals[i]

(* Only scalar nodes have a value.                                         *)
Scalars(e) == [n \in {x \in DOMAIN e : e[x] # NULL} |-> e[n]]

(* An environment variable is named by a prefix, "" for none, and a name.  *)
Plain(e) == [x \in {<<"", n>> : n \in DOMAIN e} |-> e[x[2]]]

-----------------------------------------------------------------------------
(* The annotation command.                                                 *)

Init ==
  /\ NewDirectIndex
  /\ docs \in Documents
  /\ filter \in Filters
  /\ direct \in BOOLEAN
  /\ pc = IF direct THEN "index" ELSE "annotate"
  /\ at = <<1, 0>>
  /\ vrefs = [d \in DOMAIN docs |-> [i \in DOMAIN docs[d].signals |-> Sig(d, i).vref]]
  /\ vref = 0
  /\ env = Plain(UserEnv)
  /\ direct_map = FALSE
  /\ scalar_input = << >> /\ scalar_output = << >>
  /\ binary_rx = << >> /\ binary_tx = << >> /\ encoded = {}
  /\ signals_reset = FALSE
  /\ bus = << >> /\ damaged = FALSE /\ expect = << >>
  /\ net = << >> /\ sent = << >>

(* The next signal of the document, or the next document.                  *)
Advance ==
  IF at[2] = Len(docs[at[1]].signals)
    THEN <<at[1] + 1, 0>> ELSE <<at[1], at[2] + 1>>

(* runGenerateDirectIndex: the groups of the chosen documents that belong  *)
(* to a SimBus channel, and their signals.                                 *)
IndexDocument ==
  /\ pc = "index" /\ at[1] \in DOMAIN docs /\ at[2] = 0
  /\ IF Chosen(at[1]) /\ lookupSimBusChannelName(at[1]) # NULL
       THEN GetSignalGroup(lookupSimBusChannelName(at[1])) /\ at' = Advance
       ELSE UNCHANGED diVars /\ at' = <<at[1] + 1, 0>>
  /\ UNCHANGED <<cmdVars, pc, env, idxVars, busVars>>

IndexSignal ==
  /\ pc = "index" /\ at[1] \in DOMAIN docs
  /\ at[2] \in DOMAIN docs[at[1]].signals
  /\ AddSignal(lookupSimBusChannelName(at[1]), Sig(at[1], at[2]).signal)
  /\ at' = Advance
  /\ UNCHANGED <<cmdVars, pc, env, idxVars, busVars>>

CalculateOffsets ==
  /\ pc \in {"index", "offsets"} /\ at[1] = Len(docs) + 1
  /\ CalculateMapOffsets
  /\ pc' = "offsets"
  /\ UNCHANGED <<cmdVars, at, env, idxVars, busVars>>

(* The offsets are calculated and written, the annotation starts.          *)
WriteIndex ==
  /\ pc \in {"index", "offsets"} /\ at[1] = Len(docs) + 1
  /\ group = Len(groups)
  /\ pc' = "annotate" /\ at' = <<1, 0>>
  /\ UNCHANGED <<diVars, cmdVars, env, idxVars, busVars>>

(* Fault: the counter starts again for every document.                     *)
CountPerGroup(d, i) ==
  /\ vrefs' = [vrefs EXCEPT ![d][i] = i]
  /\ vref' = i

(* annotateSignalgroup: the value reference of an input or output.         *)
NumberSignal(d, i) ==
  /\ vrefs' = [vrefs EXCEPT ![d][i] = vref + 1]
  /\ vref' = vref + 1

(* Fault: the offset is looked up by the name of the signal alone.         *)
AnyOffset(d, i) ==
  LET O == UNION {getSignalOffset(c, Sig(d, i).signal) : c \in Channel}
  IN  /\ vrefs' = [vrefs EXCEPT ![d][i] = IF O = {} THEN @ ELSE CHOOSE o \in O : TRUE]
      /\ vref' = vref

OffsetSignal(d, i) ==
  LET O == getSignalOffset(lookupSimBusChannelName(d), Sig(d, i).signal)
  IN  /\ vrefs' = [vrefs EXCEPT ![d][i] = IF O = {} THEN @ ELSE CHOOSE o \in O : TRUE]
      /\ vref' = vref

(* applyRule supports scalar vectors only.                                 *)
RuleApplies(d) == ~docs[d].binary

AnnotateDocument ==
  /\ pc = "annotate" /\ at[1] \in DOMAIN docs /\ at[2] = 0
  /\ Chosen(at[1]) => RuleApplies(at[1])
  /\ at' = IF Chosen(at[1]) THEN Advance ELSE <<at[1] + 1, 0>>
  /\ UNCHANGED <<diVars, cmdVars, pc, env, idxVars, busVars>>

AnnotateSignal ==
  /\ pc = "annotate" /\ at[1] \in DOMAIN docs
  /\ at[2] \in DOMAIN docs[at[1]].signals
  /\ IF Sig(at[1], at[2]).causality \in {"input", "output"}
       THEN IF direct THEN OffsetSignal(at[1], at[2]) ELSE NumberSignal(at[1], at[2])
       ELSE UNCHANGED <<vrefs, vref>>
  /\ at' = Advance
  /\ UNCHANGED <<diVars, docs, filter, direct, pc, env, idxVars, busVars>>

(* A chosen document with a binary vector: the command returns the error   *)
(* before the documents are saved, and no FMU is generated.                *)
AnnotateFails ==
  /\ pc = "annotate" /\ at[1] \in DOMAIN docs /\ at[2] = 0
  /\ Chosen(at[1]) /\ ~RuleApplies(at[1])
  /\ pc' = "failed"
  /\ UNCHANGED <<diVars, cmdVars, at, env, idxVars, busVars>>

(* The documents are saved and the FMU is generated from them.             *)
SaveIndex ==
  /\ pc = "annotate" /\ at[1] = Len(docs) + 1
  /\ pc' = "generated"
  /\ UNCHANGED <<diVars, cmdVars, at, env, idxVars, busVars>>

-----------------------------------------------------------------------------
(* fmu_create: the environment and the ModelC runtime.                     *)

Override(f, g) == [x \in DOMAIN f \cup DOMAIN g |-> IF x \in DOMAIN f THEN f[x] ELSE g[x]]

(* Fault: the variables of an instance are set without prefix.             *)
PlainEnv(m) == Plain(Scalars(m.env))

(* The variables of an instance, prefixed with its name but for the simbus.*)
PrefixedEnv(m) ==
  LET e == Scalars(m.env)
  IN  IF m.name = "simbus" THEN Plain(e)
      ELSE [x \in {<<Upper[m.name], Upper[n]>> : n \in DOMAIN e} |->
              e[CHOOSE n \in DOMAIN e : x[2] = Upper[n]]]

(* hashmap_set() of the later variable replaces the earlier one.           *)
SetEnvars(f, g) == Override(f, g)

(* The hash map after the stack and the first k instances.                 *)
Envars ==
  LET f[k \in 0..Len(Instance)] ==
        IF k = 0 THEN Plain(Scalars(StackEnv)) ELSE SetEnvars(PrefixedEnv(Instance[k]), f[k - 1])
  IN  f

(* The signals of the vectors runtime.c loops over: channel k of the       *)
(* stack, and signal i of a document d that it selects.                    *)
Entries(binary) ==
  UNION {{<<x[1], x[2], i>> : i \in DOMAIN docs[x[2]].signals} :
           x \in {y \in (DOMAIN StackChannel) \X (DOMAIN docs) :
                    Selects(y[1], y[2]) /\ docs[y[2]].binary = binary}}

(* simbus_vector_lookup(): the SimBus signal of such a signal.             *)
SimBusSignal(e) == <<StackChannel[e[1]].name, Sig(e[2], e[3]).signal>>

BusSignals(binary) == {SimBusSignal(e) : e \in Entries(binary)}

fmu_create ==
  /\ pc = "generated"
  /\ env' = Override(Envars[Len(Instance)], env)
  /\ bus' = [x \in BusSignals(FALSE) |-> 0]
  /\ net' = [x \in BusSignals(TRUE) |-> << >>]
  /\ expect' = bus' /\ sent' = net'
  /\ pc' = "created"
  /\ UNCHANGED <<diVars, cmdVars, at, idxVars, damaged, signals_reset>>

-----------------------------------------------------------------------------
(* fmu_init: the index.                                                    *)

Highest(T) == CHOOSE n \in T : \A m \in T : m <= n

(* The entry that the loops over channels, documents and signals visit     *)
(* last.                                                                   *)
LastEntry(S) ==
  LET k == Highest({e[1] : e \in S})
      d == Highest({e[2] : e \in {f \in S : f[1] = k}})
      i == Highest({e[3] : e \in {f \in S : f[1] = k /\ f[2] = d}})
  IN  <<k, d, i>>

(* The hash map that results from setting the pairs <<entry, value         *)
(* reference>> of P in loop order: the last entry set stays.               *)
HashMap(P) ==
  [v \in {p[2] : p \in P} |->
     SimBusSignal(LastEntry({p[1] : p \in {q \in P : q[2] = v}}))]

Annotated(binary) == {e \in Entries(binary) : vrefs[e[2]][e[3]] # NULL}

fmimodelc_index_scalar_signals(causality) ==
  HashMap({<<e, vrefs[e[2]][e[3]]>> : e \in
             {x \in Annotated(FALSE) : Sig(x[2], x[3]).causality = causality}})

(* The signal of the last document that the channel selects and that lists *)
(* it, where the lists of value references are read.                       *)
SignalMatch(e) ==
  LET S == {f \in Entries(TRUE) : f[1] = e[1]
              /\ Sig(f[2], f[3]).signal = Sig(e[2], e[3]).signal}
      m == LastEntry(S)
  IN  Sig(m[2], m[3])

fmimodelc_index_binary_signals(list) ==
  HashMap(UNION {{<<e, v>> : v \in SignalMatch(e)[list]} : e \in Annotated(TRUE)})

fmimodelc_index_text_encoding ==
  UNION {SignalMatch(e).text : e \in
           {x \in Annotated(TRUE) : Sig(x[2], x[3]).encoding = "ascii85"}}

(* The SimBus has one map for all channels when an index was generated.    *)
fmu_init ==
  /\ pc = "created"
  /\ direct_map' = (direct /\ MapSize > 0 /\ Entries(FALSE) # {})
  /\ IF direct_map'
       THEN UNCHANGED <<scalar_input, scalar_output>>
       ELSE /\ scalar_input' = fmimodelc_index_scalar_signals("input")
            /\ scalar_output' = fmimodelc_index_scalar_signals("output")
  /\ binary_rx' = fmimodelc_index_binary_signals("rx")
  /\ binary_tx' = fmimodelc_index_binary_signals("tx")
  /\ encoded' = fmimodelc_index_text_encoding
  /\ pc' = "ready"
  /\ UNCHANGED <<diVars, cmdVars, at, env, busVars>>

-----------------------------------------------------------------------------
(* The importer's calls.                                                   *)

(* The scalar variables of the FMU: the annotated signals.                 *)
Variables ==
  {x \in UNION {{d} \X DOMAIN docs[d].signals : d \in DOMAIN docs} :
     vrefs[x[1]][x[2]] # NULL /\ ~docs[x[1]].binary}

VRef(x) == vrefs[x[1]][x[2]]

(* The signal a variable stands for.                                       *)
SignalOf(x) == <<lookupSimBusChannelName(x[1]), Sig(x[1], x[2]).signal>>

(* Where a SimBus scalar lies in the map.                                  *)
Slot(y) == getSignalOffset(y[1], y[2])

(* Eight bytes are written at vr, for vr not above the size of the map.    *)
WriteMap(vr, val) ==
  IF vr > MapSize THEN UNCHANGED <<bus, damaged>>
  ELSE /\ bus' = [y \in DOMAIN bus |->
                    IF vr \in Slot(y) THEN val
                    ELSE IF \E o \in Slot(y) : ~Clear(vr, o, o + 8) THEN NULL
                    ELSE bus[y]]
       /\ damaged' = (\/ damaged \/ vr + 8 > MapSize
                      \/ \E g \in DOMAIN groups : ~Clear(vr, FieldsOf(g), BlockEnd(g)))

WriteHash(vr, val) ==
  /\ bus' = IF vr \in DOMAIN scalar_input
              THEN [bus EXCEPT ![scalar_input[vr]] = val] ELSE bus
  /\ damaged' = damaged

(* fmi2SetReal and fmi3SetFloat64 of an input.  Before fmu_init there is   *)
(* no index and the value is dropped.                                      *)
SetReal(x, val) ==
  /\ pc \in {"created", "ready"}
  /\ Sig(x[1], x[2]).causality = "input"
  /\ IF direct_map THEN WriteMap(VRef(x), val) ELSE WriteHash(VRef(x), val)
  /\ expect' = IF pc = "ready" /\ SignalOf(x) \in DOMAIN expect
                 THEN [expect EXCEPT ![SignalOf(x)] = val] ELSE expect
  /\ UNCHANGED <<diVars, cmdVars, pc, at, env, idxVars, net, sent, signals_reset>>

(* fmi2GetReal and fmi3GetFloat64: the value found for a value reference.  *)
GetReal(vr) ==
  IF direct_map THEN {bus[y] : y \in {z \in DOMAIN bus : vr \in Slot(z)}}
  ELSE IF vr \in DOMAIN scalar_output THEN {bus[scalar_output[vr]]}
  ELSE {bus[scalar_input[v]] : v \in {vr} \cap DOMAIN scalar_input}

Empty == [n \in DOMAIN net |-> << >>]

(* Fault: every call resets the signals.                                   *)
ResetAlways == Empty

(* fmu_signals_reset: the network signals after it.                        *)
fmu_signals_reset == IF signals_reset THEN net ELSE Empty

(* The network signals for which v is declared as an input.                *)
Networks(v) == {SimBusSignal(e) : e \in {x \in Annotated(TRUE) : v \in SignalMatch(x).rx}}

(* The importer encodes its text when the variable says so.                *)
TextOf(v, f) == [frame |-> f, ascii85 |-> \E e \in Annotated(TRUE) :
                   v \in SignalMatch(e).text /\ SignalMatch(e).encoding = "ascii85"]

(* What is appended to the signal: a frame is lost to garbage when only    *)
(* one side encodes.                                                       *)
Decode(v, text) == IF (v \in encoded) = text.ascii85 THEN text.frame ELSE NULL

(* fmi2SetString of a network variable.  Without an index entry the text   *)
(* becomes a string variable, which nothing reads.                         *)
SetString(v, f) ==
  /\ pc \in {"created", "ready"}
  /\ \A n \in DOMAIN net : Len(net[n]) < MaxFrames
  /\ net' = IF v \in DOMAIN binary_rx
              THEN [fmu_signals_reset EXCEPT ![binary_rx[v]] =
                      Append(@, Decode(v, TextOf(v, f)))]
              ELSE fmu_signals_reset
  /\ signals_reset' = TRUE
  /\ sent' = [n \in DOMAIN sent |->
                IF pc = "ready" /\ n \in Networks(v) THEN Append(sent[n], f) ELSE sent[n]]
  /\ UNCHANGED <<diVars, cmdVars, pc, at, env, idxVars, bus, damaged, expect>>

(* fmi2DoStep: fmu_step runs the simulation, which gives any value to a    *)
(* scalar and any content to the networks, also in a step that fails.      *)
DoStep(y, val, n, f) ==
  /\ pc = "ready"
  /\ bus' = [bus EXCEPT ![y] = val]
  /\ expect' = [expect EXCEPT ![y] = val]
  /\ net' = [fmu_signals_reset EXCEPT ![n] = f]
  /\ sent' = Empty
  /\ signals_reset' = FALSE
  /\ UNCHANGED <<diVars, cmdVars, pc, at, env, idxVars, damaged>>

fmu_destroy ==
  /\ pc \in {"created", "ready"}
  /\ pc' = "freed"
  /\ UNCHANGED <<diVars, cmdVars, at, env, idxVars, busVars>>

(* The instance is gone, or there never was an FMU.                        *)
Done == pc \in {"freed", "failed"} /\ UNCHANGED vars

NetVRefs == UNION {UNION {Sig(d, i).rx : i \in DOMAIN docs[d].signals} : d \in DOMAIN docs}

Next ==
  \/ IndexDocument \/ IndexSignal \/ CalculateOffsets \/ WriteIndex
  \/ AnnotateDocument \/ AnnotateSignal \/ AnnotateFails \/ SaveIndex
  \/ fmu_create \/ fmu_init \/ fmu_destroy \/ Done
  \/ \E x \in Variables, val \in Value : SetReal(x, val)
  \/ \E v \in NetVRefs, f \in Frame : SetString(v, f)
  \/ \E y \in DOMAIN bus, val \in Value, n \in DOMAIN net, f \in {<< >>} \cup {<<g>> : g \in Frame} :
       DoStep(y, val, n, f)

Spec == Init /\ [][Next]_vars

-----------------------------------------------------------------------------
(* Properties.                                                             *)

(* A value the importer sets for a variable reaches the SimBus signal the  *)
(* variable was generated from and nothing else, and reading any variable  *)
(* gives the value of its signal, through the map and through the hash     *)
(* maps (fmi2fmu.c:277, :409, runtime.c:123).                              *)
VariableExact ==
  pc = "ready" =>
    /\ ~damaged
    /\ bus = expect
    /\ \A x \in Variables : SignalOf(x) \in DOMAIN expect =>
         GetReal(VRef(x)) = {expect[SignalOf(x)]}

(* What is in a network signal when the step begins is what the importer   *)
(* set on any of its input variables since the last step, in order, and    *)
(* each output variable reads its own network (runtime.c:199).  Stated     *)
(* from the first text set after a step: a step without one begins with    *)
(* its own reset, which is not observed here.                              *)
NetworkExact ==
  pc = "ready" =>
    /\ signals_reset => net = sent
    /\ \A e \in Annotated(TRUE) : \A v \in SignalMatch(e).tx :
         v \in DOMAIN binary_tx /\ binary_tx[v] = SimBusSignal(e)

(* The plain variables of the environment are those of the simbus, then of *)
(* the stack, then of the user; the variables of another instance are      *)
(* visible under its own prefix only (runtime.c:330).                      *)
EnvironmentScoped ==
  pc \in {"created", "ready", "freed"} =>
    LET simbus == {k \in DOMAIN Instance : Instance[k].name = "simbus"}
        Sets(k, n) == n \in DOMAIN Scalars(Instance[k].env)
    IN  /\ \A n \in DOMAIN UserEnv \cup DOMAIN Scalars(StackEnv) :
             (\A k \in simbus : ~Sets(k, n)) =>
               env[<<"", n>>] = IF n \in DOMAIN Scalars(StackEnv) THEN StackEnv[n] ELSE UserEnv[n]
        /\ \A k \in DOMAIN Instance : \A n \in DOMAIN Scalars(Instance[k].env) :
             env[IF k \in simbus THEN <<"", n>> ELSE <<Upper[Instance[k].name], Upper[n]>>] =
               Instance[k].env[n]
=============================================================================
