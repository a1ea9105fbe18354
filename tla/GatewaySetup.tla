---------------------------- MODULE GatewaySetup ----------------------------
(***************************************************************************)
(* How an FMI gateway FMU is set up: parse_fmi.c reads the model           *)
(* description, parser.c the stack, session.c gives the scripts their      *)
(* environment, session_win32.c picks the SIMER command, index.c binds the *)
(* value references to the signals of the gateway.  Then the importer's    *)
(* calls go through that index.                                            *)
(*                                                                         *)
(* One process of an importer creates MaxInstances instances of one FMU,   *)
(* one after the other; the environment of the process outlives them.      *)
(* Which processes run, and when, is the subject of GatewaySession; here   *)
(* is which command lines and environments they are given.                 *)
(*                                                                         *)
(* A real value is an integer number of halves.  A text of an environment  *)
(* is <<"text", s>>, or <<"int", n>> when a number was printed.            *)
(***************************************************************************)
EXTENDS Integers, FiniteSets, SequencesExt

CONSTANTS
  NULL,
  Fmus,           \* what FMUs may hold: model description, stack, scripts, signals
  Environments,   \* the environments the importer may be started with
  Text,           \* strings the importer sets, "" among them
  Real,           \* reals the importer sets, 0 among them
  MaxFrames,      \* bound: frames in one network signal
  MaxInstances    \* bound: instances in one process

VARIABLES
  platform,       \* "unix" or "win32"
  xml,            \* modelDescription.xml, NULL when it cannot be read
  stack,          \* the Stack document "gateway", NULL when there is none
  files,          \* the script files beside the FMU: startup, shutdown
  chan,           \* the signals of the gateway's channels, in index order
  user,           \* the environment the importer was started with
  env,            \* the environment of the process
  instance,       \* how many instances there were
  pc,             \* "none", "created", "ready", "failed", "freed"
  settings,       \* fmi_gw->settings
  session,        \* fmi_gw->settings.session
  string_input,   \* fmu->variables.string.input: vref -> text
  scalar_input,   \* fmu->variables.scalar.input: vref -> value or signal
  scalar_output,  \* fmu->variables.scalar.output: vref -> signal
  binary_rx, binary_tx,  \* fmu->variables.binary: vref -> signal
  encoded,        \* keys of encode_func and decode_func
  signals_reset,  \* fmu->variables.signals_reset
  bus, net,       \* the scalar and the binary signals of the gateway
  started,        \* the processes fmu_init started, and history: given then
  runs,           \* history: the scripts run, their environment, and given
  given,          \* history: the importer's value of each parameter
  expect, sent    \* history: what the importer or a step gave each signal

confVars == <<platform, xml, stack, files, chan, user>>
mapVars == <<string_input, scalar_input, scalar_output, binary_rx, binary_tx, encoded>>
busVars == <<bus, net, signals_reset, expect, sent>>
vars == <<confVars, env, instance, pc, settings, session, mapVars, busVars, started, runs, given>>

Or(x, default) == IF x = NULL THEN default ELSE x

Lookup(f, x) == IF x \in DOMAIN f THEN f[x] ELSE NULL

(* (int) of a real.                                                        *)
Trunc(h) == IF h >= 0 THEN h \div 2 ELSE -((-h) \div 2)

Highest(S) == CHOOSE i \in S : \A j \in S : j <= i

Map(s, f(_)) == [i \in 1..Len(s) |-> f(s[i])]

(* The elements of s at the places I, in order.                            *)
Select(s, I) == FlattenSeq([i \in 1..Len(s) |-> IF i \in I THEN <<s[i]>> ELSE << >>])

(* getenv().  On Windows the C library keeps the environment the process   *)
(* was started with, and SetEnvironmentVariable() does not change it.      *)
getenv(n) == Lookup(IF platform = "win32" THEN user ELSE env, n)

-----------------------------------------------------------------------------
(* What the documents may be.                                              *)

IsList(s) == Len(s) \in Nat /\ s = [i \in 1..Len(s) |-> s[i]]

(* A value of a string variable, which NULL is not.                        *)
IsText(s) == s # NULL /\ <<"text", s>> # NULL

(* Parameters have their own name and, within a type, value reference, and *)
(* a start value of their type.                                            *)
ASSUME ParamAssumption ==
  \A f \in Fmus : f.xml # NULL =>
    LET P == f.xml.params
    IN  /\ IsList(P) /\ IsList(f.xml.cmds)
        /\ \A i, j \in DOMAIN P : i # j =>
             /\ P[i].name # P[j].name
             /\ P[i].type = P[j].type /\ P[i].vref # NULL => P[i].vref # P[j].vref
        /\ \A i \in DOMAIN P :
             /\ P[i].type = "String" => P[i].start = NULL \/ IsText(P[i].start)
             /\ P[i].type = "Real" => P[i].start = NULL \/ P[i].start \in Int

(* A value reference is that of one scalar input, or of one network's      *)
(* input, and not of a parameter as well.                                  *)
ASSUME SignalAssumption ==
  \A f \in Fmus :
    LET S == f.signals
        Input(i) == ~S[i].binary /\ S[i].vref # NULL /\ S[i].causality = "input"
        Network(i) == S[i].binary /\ S[i].vref # NULL
    IN  /\ IsList(S)
        /\ \A i \in DOMAIN S : S[i].signal # NULL
        /\ \A i, j \in DOMAIN S : Input(i) /\ Input(j) /\ S[i].vref = S[j].vref
                                  => S[i].signal = S[j].signal
        /\ \A i, j \in DOMAIN S : Network(i) /\ Network(j) /\ S[i].rx \cap S[j].rx # {}
                                  => S[i].signal = S[j].signal
        /\ f.xml # NULL => \A i \in DOMAIN S, k \in DOMAIN f.xml.params :
             LET p == f.xml.params[k]
             IN  /\ Input(i) /\ p.type = "Real" => p.vref # S[i].vref
                 /\ Network(i) /\ p.type = "String" => p.vref \notin S[i].rx

(* The places of the models in the stacks the stack K lists.               *)
Places(K) ==
  IF K.model_stack = NULL THEN {}
  ELSE UNION {UNION {{<<a, d, m>> : m \in DOMAIN K.files[K.model_stack[a]][d].models} :
                       d \in {e \in DOMAIN K.files[K.model_stack[a]] :
                                K.files[K.model_stack[a]][e].models # NULL}} :
                a \in {b \in DOMAIN K.model_stack : K.files[K.model_stack[b]] # NULL}}

DocAt(K, x) == K.files[K.model_stack[x[1]]][x[2]]
ModelAt(K, x) == DocAt(K, x).models[x[3]]

(* The models of a simulation have different names, none that of the       *)
(* simbus or of the transport.                                             *)
ASSUME StackAssumption ==
  \A f \in Fmus : f.stack # NULL =>
    LET K == f.stack
    IN  /\ K.model_stack # NULL =>
             /\ IsList(K.model_stack)
             /\ \A a \in DOMAIN K.model_stack : LET D == K.files[K.model_stack[a]]
                IN  D # NULL => IsList(D) /\ \A d \in DOMAIN D :
                      D[d].models # NULL => IsList(D[d].models)
        /\ \A x \in Places(K) : IsList(ModelAt(K, x).files)
        /\ \A x, y \in Places(K) :
             ModelAt(K, x).name # NULL /\ ModelAt(K, x).name = ModelAt(K, y).name => x = y
        /\ \A x \in Places(K) : ModelAt(K, x).name # "transport"
        /\ K.simbus # NULL => \A x \in Places(K) :
             ModelAt(K, x).name # NULL => ModelAt(K, x).name # K.simbus.name

ASSUME EnvironmentAssumption ==
  /\ \A u \in Environments : \A n \in DOMAIN u : u[n] # NULL
  /\ IsText("") /\ (\A t \in Text : IsText(t))
  /\ Real \subseteq Int /\ NULL \notin Int /\ NULL \notin {"int"} \X Int
  /\ MaxFrames \in Nat /\ MaxInstances \in Nat

(* What two of the properties below need of FMUs F.  The value references  *)
(* fmigateway_run_simer relies on: 0 is the command, 1 the selector        *)
(* (session_win32.c:824, :826); createRuntime numbers them differently.    *)
IsSimer(p, name, type, vref) ==
  p.name = name /\ p.type = type /\ p.use = "simer" /\ p.vref = vref

SimerReferences(F) ==
  \A f \in F : f.xml # NULL /\ f.xml.runtime = "simer" =>
    /\ \E i \in DOMAIN f.xml.params : IsSimer(f.xml.params[i], "Simer_Command", "String", 0)
    /\ \E i \in DOMAIN f.xml.params : IsSimer(f.xml.params[i], "Simer_Command_Selector", "Real", 1)

(* No Stack document that is run as one process has only unnamed models    *)
(* (parser.c:205).                                                         *)
NamedStacks(F) ==
  \A f \in F : f.stack # NULL => \A x \in Places(f.stack) :
    DocAt(f.stack, x).kind = "Stack" /\ DocAt(f.stack, x).stacked =>
      \E m \in DOMAIN DocAt(f.stack, x).models : DocAt(f.stack, x).models[m].name # NULL

-----------------------------------------------------------------------------
(* The model description.                                                  *)

(* Enumeration with a generator that gives nothing for a variable without  *)
(* a value reference ends there.                                           *)
Enumerated(s) ==
  LET bad == {i \in DOMAIN s : s[i].vref = NULL}
  IN  {i \in DOMAIN s : \A b \in bad : i < b}

Params(use, type) ==
  IF xml = NULL THEN << >>
  ELSE Select(xml.params, {i \in DOMAIN xml.params : xml.params[i].use = use /\ xml.params[i].type = type})

(* The script parameters: strings, then reals.                             *)
ScriptParams ==
  LET Of(type) == LET s == Params("script", type) IN Select(s, Enumerated(s))
  IN  Of("String") \o Of("Real")

(* A runtime parameter without a value reference is skipped.  LEGACY has   *)
(* no runtime parameters.                                                  *)
RuntimeParams(type) ==
  IF xml # NULL /\ xml.runtime = "simer"
    THEN LET s == Params("simer", type) IN Select(s, {i \in DOMAIN s : s[i].vref # NULL})
    ELSE << >>

(* The variables registered for one type, the runtime's at zero, those of  *)
(* scripts at their start value.                                           *)
Registered(type, zero) ==
  LET P == ScriptParams
      s == Map(RuntimeParams(type), LAMBDA p : <<p.vref, zero>>)
             \o Map(Select(P, {i \in DOMAIN P : P[i].type = type}),
                    LAMBDA p : <<p.vref, Or(p.start, zero)>>)
  IN  [v \in {s[i][1] : i \in DOMAIN s} |-> s[Highest({i \in DOMAIN s : s[i][1] = v})][2]]

LogError == 5

(* _parse_simulation_settings and the commands of _parse_runtime.  Without *)
(* a document the settings stay zero.                                      *)
XmlSettings ==
  IF xml = NULL
    THEN [type |-> "LEGACY", log_level |-> 0, step_size |-> 0, log_location |-> NULL,
          startup_cmd |-> NULL, shutdown_cmd |-> NULL, cmds |-> << >>]
    ELSE [type |-> IF xml.runtime = "simer" THEN "SIMER" ELSE "LEGACY",
          log_level |-> Or(xml.loglevel, LogError),
          step_size |-> Or(xml.stepSize, 0),
          log_location |-> Or(xml.loglocation, "resources"),
          startup_cmd |-> NULL, shutdown_cmd |-> NULL,
          cmds |-> IF xml.runtime = "simer" THEN xml.cmds ELSE << >>]

-----------------------------------------------------------------------------
(* The stack.                                                              *)

DefaultTimeout == 60
DefaultLogLevel == 6

(* _get_exe: the model's own, else of the environment, else of the         *)
(* gateway's stack.                                                        *)
_get_exe(own, type) ==
  Or(own, Or(getenv(type), IF stack.env = NULL THEN NULL ELSE Lookup(stack.env, type)))

(* _generate_model_envar leaves a gap for an entry that is not a scalar,   *)
(* and _build_env stops at a gap.                                          *)
ModelEnv(e) ==
  LET gap == {i \in DOMAIN e : e[i].value = NULL}
  IN  {e[i] : i \in {j \in DOMAIN e : \A g \in gap : j < g}}

(* _gwfmu_model_generator.                                                 *)
WindowsModel(m, timeout, type) ==
  [names |-> <<m.name>>, yaml |-> m.files, env |-> ModelEnv(m.env),
   timeout |-> Or(m.timeout, Or(timeout, DefaultTimeout)),
   exe |-> _get_exe(m.exe, type)]

Named(s) == Select(s, {i \in DOMAIN s : s[i].name # NULL})

_build_models(doc) ==
  Map(Named(doc.models), LAMBDA m : WindowsModel(m, doc.timeout, "MODELC_EXE_PATH"))

_build_stacked_model(name, doc) ==
  LET M == Named(doc.models)
  IN  <<[names |-> Map(M, LAMBDA m : m.name),
         yaml |-> <<name>> \o FlattenSeq(Map(M, LAMBDA m : m.files)),
         env |-> {}, timeout |-> Or(doc.timeout, DefaultTimeout),
         exe |-> _get_exe(doc.exe, "MODELC_EXE_PATH")]>>

_parse_models(name, doc) ==
  IF doc.models = NULL \/ doc.models = << >> THEN << >>
  ELSE IF doc.stacked THEN _build_stacked_model(name, doc) ELSE _build_models(doc)

(* Fault: a document of another kind ends the stack.                       *)
StopAtOtherKind(name) ==
  LET D == stack.files[name]
      first == {i \in DOMAIN D : \A j \in 1..i : D[j].kind = "Stack"}
  IN  IF D = NULL THEN << >>
      ELSE FlattenSeq(Map([i \in first |-> D[i]], LAMBDA d : _parse_models(name, d)))

_parse_stack(name) ==
  LET D == stack.files[name]
  IN  IF D = NULL THEN << >>
      ELSE FlattenSeq(Map(Select(D, {i \in DOMAIN D : D[i].kind = "Stack"}),
                          LAMBDA d : _parse_models(name, d)))

_parse_model_stacks ==
  IF stack.model_stack = NULL THEN << >>
  ELSE FlattenSeq(Map(stack.model_stack, LAMBDA n : _parse_stack(n)))

_parse_simbus ==
  IF stack.simbus = NULL THEN NULL ELSE WindowsModel(stack.simbus, NULL, "SIMBUS_EXE_PATH")

_parse_redis ==
  LET exe == Or(getenv("REDIS_EXE_PATH"), Lookup(stack.env, "REDIS_EXE_PATH"))
  IN  IF stack.env = NULL \/ exe = NULL THEN NULL ELSE [names |-> <<"transport">>, exe |-> exe, port |-> stack.port]

(* _get_stack_annotations: Redis is started unless told otherwise, but not *)
(* without annotations.                                                    *)
Transport ==
  IF stack.annotations = NULL \/ stack.annotations.start_redis = FALSE THEN NULL
  ELSE _parse_redis

(* _parse_gateway, on the settings s of the model description.             *)
_parse_gateway(s) ==
  LET g == stack.gateway
      Cmd(n) == Or(getenv(n), Lookup(g.env, n))
  IN  IF g = NULL THEN s
      ELSE [s EXCEPT !.step_size = Or(g.step_size, @),
                     !.log_level = Or(g.log_level, DefaultLogLevel),
                     !.log_location = Or(g.log_location, @),
                     !.startup_cmd = Cmd("GATEWAY_INIT_CMD"),
                     !.shutdown_cmd = Cmd("GATEWAY_SHUTDOWN_CMD")]

-----------------------------------------------------------------------------
(* createRuntime of the FMI toolset: the parameters and the command of a   *)
(* SIMER gateway it generates, numbered from zero in that order.           *)
createRuntime(cmd) ==
  [runtime |-> "simer", loglevel |-> NULL, stepSize |-> NULL, loglocation |-> NULL,
   cmds |-> <<cmd>>,
   params |-> <<[name |-> "Simer_Command_Selector", type |-> "Real", use |-> "simer",
                 vref |-> 0, start |-> NULL],
                [name |-> "Simer_Command", type |-> "String", use |-> "simer",
                 vref |-> 1, start |-> NULL]>>]

Init ==
  /\ platform \in {"unix", "win32"}
  /\ \E f \in Fmus : xml = f.xml /\ stack = f.stack /\ files = f.files /\ chan = f.signals
  /\ user \in Environments /\ env = user
  /\ instance = 0 /\ pc = "none"
  /\ settings = NULL /\ session = NULL
  /\ string_input = << >> /\ scalar_input = << >> /\ scalar_output = << >>
  /\ binary_rx = << >> /\ binary_tx = << >> /\ encoded = {}
  /\ signals_reset = FALSE
  /\ bus = << >> /\ net = << >> /\ expect = << >> /\ sent = << >>
  /\ started = << >> /\ runs = << >>
  /\ given = << >>

AllParams == RuntimeParams("String") \o RuntimeParams("Real") \o ScriptParams

(* fmu_create: the model description, then the stack for LEGACY.           *)
fmu_create ==
  /\ pc \in {"none", "freed"} /\ instance < MaxInstances
  /\ instance' = instance + 1
  /\ pc' = "created"
  /\ IF XmlSettings.type = "SIMER" \/ stack = NULL
       THEN settings' = XmlSettings /\ session' = NULL
       ELSE /\ settings' = _parse_gateway(XmlSettings)
            /\ session' = [transport |-> Transport, simbus |-> _parse_simbus,
                           w_models |-> _parse_model_stacks]
  /\ string_input' = Registered("String", "")
  /\ scalar_input' = LET r == Registered("Real", 0)
                     IN  [v \in DOMAIN r |-> [signal |-> NULL, value |-> r[v]]]
  /\ given' = [n \in {AllParams[i].name : i \in DOMAIN AllParams} |->
                 LET p == AllParams[CHOOSE i \in DOMAIN AllParams : AllParams[i].name = n]
                     zero == IF p.type = "String" THEN "" ELSE 0
                 IN  IF p.use = "script" THEN Or(p.start, zero) ELSE zero]
  /\ UNCHANGED <<confVars, env, scalar_output, binary_rx, binary_tx, encoded, busVars,
                 started, runs>>

-----------------------------------------------------------------------------
(* Scripts.                                                                *)

ScalarValue(v) ==
  IF scalar_input[v].signal = NULL THEN scalar_input[v].value ELSE bus[scalar_input[v].signal]

(* _get_fmu_env_value, NULL when the variable is not there.                *)
_get_fmu_env_value(p) ==
  IF p.type = "String"
    THEN IF p.vref \in DOMAIN string_input THEN <<"text", string_input[p.vref]>> ELSE NULL
    ELSE IF p.vref \in DOMAIN scalar_input THEN <<"int", Trunc(ScalarValue(p.vref))>> ELSE NULL

(* Fault: a variable of the environment is replaced.                       *)
ReplaceEnvar ==
  LET S == ToSet(ScriptParams)
  IN  [n \in DOMAIN env \cup {p.name : p \in S} |->
         IF \E p \in S : p.name = n
           THEN _get_fmu_env_value(CHOOSE p \in S : p.name = n)
           ELSE env[n]]

(* _set_envar: the environment after it.  The default is for a parameter   *)
(* without value.                                                          *)
_set_envar ==
  LET Unset == {p \in ToSet(ScriptParams) : getenv(p.name) = NULL}
  IN  [n \in DOMAIN env \cup {p.name : p \in Unset} |->
         IF \E p \in Unset : p.name = n
           THEN LET p == CHOOSE q \in Unset : q.name = n
                IN  Or(_get_fmu_env_value(p), <<"text", p.start>>)
           ELSE env[n]]

Command(script, cmd) == IF script \in files THEN <<"file", script>> ELSE cmd

(* _run_cmd: nothing without a command; rc is its exit code.               *)
_run_cmd(cmd, rc) ==
  IF cmd = NULL THEN rc = 0 /\ UNCHANGED <<env, runs>>
  ELSE /\ rc \in {0, 1}
       /\ env' = _set_envar
       /\ runs' = Append(runs, [cmd |-> cmd, env |-> _set_envar, given |-> given])

-----------------------------------------------------------------------------
(* fmu_init.                                                               *)

(* Fault: the selector counts from one.                                    *)
SelectFromOne ==
  LET sel == IF 1 \in DOMAIN scalar_input THEN Trunc(ScalarValue(1)) ELSE 0
      own == Lookup(string_input, 0)
  IN  IF own # NULL /\ own # "" THEN own
      ELSE IF sel \in 1..Len(settings.cmds) THEN settings.cmds[sel] ELSE own

(* fmigateway_run_simer: the command line, NULL for a null pointer.        *)
SimerCommand ==
  LET own == Lookup(string_input, 0)
      sel == IF 1 \in DOMAIN scalar_input /\ ScalarValue(1) >= 0
               THEN Trunc(ScalarValue(1)) ELSE 0
  IN  IF own # NULL /\ own # "" THEN own
      ELSE IF sel < Len(settings.cmds) THEN settings.cmds[sel + 1] ELSE own

(* fmigateway_start_models: w_models ends at the first one without a name. *)
StartModels ==
  IF session = NULL THEN << >>
  ELSE LET W == session.w_models
           noname == {i \in DOMAIN W : W[i].names = << >>}
           Proc(p) == IF p = NULL THEN << >> ELSE <<p>>
       IN  Proc(session.transport) \o Proc(session.simbus)
             \o SubSeq(W, 1, Cardinality({i \in DOMAIN W : \A b \in noname : i < b}))

Scalar == {i \in DOMAIN chan : ~chan[i].binary /\ chan[i].vref # NULL}
Binary == {i \in DOMAIN chan : chan[i].binary /\ chan[i].vref # NULL}

fmigateway_index_scalar_signals(causality) ==
  LET I == {i \in Scalar : chan[i].causality = causality}
  IN  [v \in {chan[i].vref : i \in I} |-> chan[Highest({i \in I : chan[i].vref = v})].signal]

fmigateway_index_binary_signals(list) ==
  [v \in UNION {chan[i][list] : i \in Binary} |->
     chan[Highest({i \in Binary : v \in chan[i][list]})].signal]

fmigateway_index_text_encoding ==
  UNION {chan[i].text : i \in {j \in Binary : chan[j].encoding = "ascii85"}}

(* hashmap_set() of a signal replaces a parameter of that value reference. *)
BindSignals(signals) ==
  [v \in DOMAIN signals \cup DOMAIN scalar_input |->
     IF v \in DOMAIN signals THEN [signal |-> signals[v], value |-> 0] ELSE scalar_input[v]]

InitFailed ==
  /\ pc' = "failed"
  /\ UNCHANGED <<started, mapVars, busVars>>

InitOK ==
  /\ pc' = "ready"
  /\ started' = IF platform = "unix" THEN << >>
                ELSE IF settings.type = "SIMER"
                  THEN <<[cmd |-> SimerCommand, given |-> given]>>
                  ELSE StartModels
  /\ bus' = [s \in {chan[i].signal : i \in {j \in DOMAIN chan : ~chan[j].binary}} |-> 0]
  /\ net' = [s \in {chan[i].signal : i \in {j \in DOMAIN chan : chan[j].binary}} |-> << >>]
  /\ expect' = bus' /\ sent' = net'
  /\ scalar_input' = BindSignals(fmigateway_index_scalar_signals("input"))
  /\ scalar_output' = fmigateway_index_scalar_signals("output")
  /\ binary_rx' = fmigateway_index_binary_signals("rx")
  /\ binary_tx' = fmigateway_index_binary_signals("tx")
  /\ encoded' = fmigateway_index_text_encoding
  /\ UNCHANGED <<string_input, signals_reset>>

(* session_start, model_gw_setup (gw is its result) and the index.         *)
fmu_init(rc, gw) ==
  /\ pc = "created"
  /\ _run_cmd(Command("startup", settings.startup_cmd), rc)
  /\ IF rc = 0 /\ gw = 0 THEN InitOK ELSE InitFailed
  /\ UNCHANGED <<confVars, instance, settings, session, given>>

-----------------------------------------------------------------------------
(* The importer's calls.                                                   *)

Given(v, type, val) ==
  [n \in DOMAIN given |->
     IF \E i \in DOMAIN AllParams : AllParams[i].name = n /\ AllParams[i].vref = v
                                      /\ AllParams[i].type = type
       THEN val ELSE given[n]]

(* fmi2SetReal, fmi3SetFloat64: a variable not in the index is ignored, as *)
(* the signals are before fmu_init.                                        *)
SetReal(v, val) ==
  /\ pc \in {"created", "ready"}
  /\ IF v \notin DOMAIN scalar_input THEN UNCHANGED <<scalar_input, bus>>
     ELSE IF scalar_input[v].signal = NULL
       THEN scalar_input' = [scalar_input EXCEPT ![v].value = val] /\ UNCHANGED bus
       ELSE bus' = [bus EXCEPT ![scalar_input[v].signal] = val] /\ UNCHANGED scalar_input
  /\ given' = Given(v, "Real", val)
  /\ expect' = [s \in DOMAIN expect |->
                  IF \E i \in Scalar : chan[i].signal = s /\ chan[i].vref = v
                                         /\ chan[i].causality = "input"
                    THEN val ELSE expect[s]]
  /\ UNCHANGED <<confVars, env, instance, pc, settings, session, string_input, scalar_output,
                 binary_rx, binary_tx, encoded, net, signals_reset, sent, started, runs>>

(* Fault: the flag is ignored.                                             *)
ResetAlways == [s \in DOMAIN net |-> << >>]

(* fmu_signals_reset: the binary signals after it.                         *)
fmu_signals_reset == IF signals_reset THEN net ELSE [s \in DOMAIN net |-> << >>]

(* The frame that is appended: garbage when only one side uses ascii85.    *)
Decode(v, text) ==
  IF (v \in encoded) = (\E i \in Binary : v \in chan[i].text /\ chan[i].encoding = "ascii85")
    THEN text ELSE NULL

(* fmi2SetString: to a network, or to a string variable.                   *)
SetString(v, text) ==
  /\ pc \in {"created", "ready"}
  /\ \A s \in DOMAIN net : Len(net[s]) < MaxFrames
  /\ IF v \in DOMAIN binary_rx
       THEN /\ net' = [fmu_signals_reset EXCEPT ![binary_rx[v]] = Append(@, Decode(v, text))]
            /\ UNCHANGED string_input
       ELSE /\ net' = fmu_signals_reset
            /\ string_input' = [w \in DOMAIN string_input \cup {v} |->
                                  IF w = v THEN text ELSE string_input[w]]
  /\ signals_reset' = TRUE
  /\ given' = Given(v, "String", text)
  /\ sent' = [s \in DOMAIN sent |->
                IF \E i \in Binary : chan[i].signal = s /\ v \in chan[i].rx
                  THEN Append(sent[s], text) ELSE sent[s]]
  /\ UNCHANGED <<confVars, env, instance, pc, settings, session, scalar_input, scalar_output,
                 binary_rx, binary_tx, encoded, bus, expect, started, runs>>

(* fmi2DoStep: model_gw_sync gives any value to a signal and any frame to  *)
(* the networks.                                                           *)
DoStep(s, val, n, frames) ==
  /\ pc = "ready"
  /\ bus' = [bus EXCEPT ![s] = val] /\ expect' = [expect EXCEPT ![s] = val]
  /\ net' = [fmu_signals_reset EXCEPT ![n] = frames]
  /\ sent' = [m \in DOMAIN sent |-> << >>]
  /\ signals_reset' = FALSE
  /\ UNCHANGED <<confVars, env, instance, pc, settings, session, mapVars, started, runs, given>>

(* fmu_destroy: the shutdown command runs only after a successful fmu_init *)
(* and, for LEGACY, with a session.                                        *)
fmu_destroy(rc) ==
  /\ pc \in {"created", "ready", "failed"}
  /\ pc' = "freed"
  /\ IF pc = "ready" /\ (settings.type = "SIMER" \/ session # NULL)
       THEN _run_cmd(Command("shutdown", settings.shutdown_cmd), rc)
       ELSE rc = 0 /\ UNCHANGED <<env, runs>>
  /\ settings' = NULL /\ session' = NULL
  /\ string_input' = << >> /\ scalar_input' = << >> /\ scalar_output' = << >>
  /\ binary_rx' = << >> /\ binary_tx' = << >> /\ encoded' = {}
  /\ bus' = << >> /\ net' = << >> /\ expect' = << >> /\ sent' = << >>
  /\ signals_reset' = FALSE /\ started' = << >> /\ given' = << >>
  /\ UNCHANGED <<confVars, instance>>

Done == pc = "freed" /\ instance = MaxInstances /\ UNCHANGED vars

VRefs(type) ==
  {AllParams[i].vref : i \in {j \in DOMAIN AllParams : AllParams[j].type = type}}
    \cup (IF type = "Real" THEN {chan[i].vref : i \in Scalar}
          ELSE UNION {chan[i].rx : i \in Binary})

Next ==
  \/ fmu_create \/ Done
  \/ \E rc, gw \in {0, 1} : fmu_init(rc, gw)
  \/ \E rc \in {0, 1} : fmu_destroy(rc)
  \/ \E v \in VRefs("Real"), val \in Real : SetReal(v, val)
  \/ \E v \in VRefs("String"), text \in Text : SetString(v, text)
  \/ \E s \in DOMAIN bus, n \in DOMAIN net, val \in Real, t \in Text :
       DoStep(s, val, n, <<t>>)

Spec == Init /\ [][Next]_vars

-----------------------------------------------------------------------------
(* Properties.                                                             *)

(* A script finds each of its parameters in its environment: the value the *)
(* user's environment has, otherwise the one the importer gave or the      *)
(* start value.  On Windows that is the value at the time of the script; on*)
(* Unix the one at the first script of the process, whichever instance ran *)
(* it (session.c:33).                                                      *)
ScriptEnvironment ==
  \A r \in DOMAIN runs : \A p \in ToSet(ScriptParams) :
    LET q == IF platform = "win32" THEN r ELSE 1
        v == runs[q].given[p.name]
    IN  Lookup(runs[r].env, p.name) =
          IF p.name \in DOMAIN user THEN user[p.name]
          ELSE IF p.type = "String" THEN <<"text", v>> ELSE <<"int", Trunc(v)>>

(* SIMER is started with the command the importer set in Simer_Command, or *)
(* without one with the command Simer_Command_Selector selects, when there *)
(* is such a command (session_win32.c:819).                                *)
SimerCommandHonoured ==
  pc = "ready" /\ settings.type = "SIMER" /\ platform = "win32" =>
    LET own == started[1].given["Simer_Command"]
        sel == Trunc(started[1].given["Simer_Command_Selector"])
    IN  IF own # "" THEN started[1].cmd = own
        ELSE sel \in 0..Len(xml.cmds) - 1 => started[1].cmd = xml.cmds[sel + 1]

(* Every named model of every Stack document that the gateway's stack      *)
(* lists and that can be loaded is in exactly one of the processes         *)
(* fmu_init starts, with its files and with the timeout of the model, else *)
(* of its document, else the default (parser.c:119, :181, :258).           *)
ModelsStarted ==
  pc = "ready" /\ session # NULL /\ platform = "win32" /\ stack.model_stack # NULL =>
    \A name \in ToSet(stack.model_stack) : stack.files[name] # NULL =>
      \A d \in ToSet(stack.files[name]) : d.kind = "Stack" /\ d.models # NULL =>
        \A m \in ToSet(d.models) : m.name # NULL =>
          LET P == {i \in DOMAIN started : m.name \in ToSet(started[i].names)}
              limit == IF d.stacked THEN d.timeout ELSE Or(m.timeout, d.timeout)
          IN  /\ Cardinality(P) = 1
              /\ \A i \in P : /\ ToSet(m.files) \subseteq ToSet(started[i].yaml)
                              /\ started[i].timeout = Or(limit, DefaultTimeout)

(* What the importer sets for a parameter stays in it, and what it sets    *)
(* for an input reaches the signal of that value reference, and no other;  *)
(* a network holds what was set on its inputs since the last step, in      *)
(* order (index.c:102, :153, signal.c:29).                                 *)
ValuesDelivered ==
  /\ pc = "ready" => bus = expect /\ (signals_reset => net = sent)
  /\ pc \in {"created", "ready"} => \A p \in ToSet(AllParams) :
       given[p.name] = IF p.type = "String" THEN string_input[p.vref] ELSE ScalarValue(p.vref)
=============================================================================
