# TLA+ models of dse.fmi

dse.fmi puts models of the DSE simulation stack behind FMI, and FMUs behind the
DSE simulation stack. This directory holds TLA+ models of its C code, the TLC
configurations that check them on small instances, and proofs checked by TLAPS.
`PROJECT.json` is the machine-readable index: the map from definitions to source
lines, the runs, the mutants, the hazards and the theorems.

Check a run with `tlc -config <cfg> <module>`, a proof module with
`tlapm <module>.tla`.

## The system

```
   importer (dse/importer, or a tool)          ModelC simulation (SimBus)
        |  FMI 2 / FMI 3 calls                         |  model_create / model_step
        v                                              v
   FMU API  dse/fmu/fmi2fmu.c, fmi3fmu.c         FMI MCL  dse/fmimcl
     |  signal handlers, variable table            |  parser, marshal table
     |  NCodec streams (ncodec.c)                  |  adapter/fmi2mcl.c
     v  callbacks fmu_create/init/step/destroy     v  FMI 2 calls
   +--------------+------------------+           an FMU (any)
   | a user's FMU | FMI Gateway      |
   |              | dse/fmigateway   |
   |              | FMI ModelC       |
   |              | dse/fmimodelc    |
   +--------------+------------------+
                     | ModelC gateway / runtime; processes, scripts
```

### Inventory

| Component | State it keeps | Operations | What makes it correct |
|---|---|---|---|
| FMU API, `dse/fmu/fmi2fmu.c`, `fmi3fmu.c` | the instance: index of variables, one-shot flag `signals_reset`, free list of returned strings | Instantiate, ExitInitializationMode, Set/GetReal, Set/GetString, Set/GetBinary, DoStep, FreeInstance | a frame set by the importer is read in the next step, once; outputs are those of the last step; returned strings are neither dangling nor leaked |
| Signal handlers and variable table, `dse/fmu/signal.c` | binary signals (buffer, length), table of registered variables | setup, reset, remove, register, marshal | a scalar has one value on both sides of the API |
| NCodec stream, `dse/fmu/ncodec.c` | position in a signal's buffer | read, write, seek, eof | reads and writes neither skip nor overwrite frames |
| Default variable index, `dse/fmu/signal.c`, `fmi2variable.c`, `fmi3variable.c`, `ncodec.c` (open, close) | – (fills the index) | variable_index, count | each variable has its own slot, annotations choose the codec |
| FMI Gateway: FMU and session, `fmigateway.c`, `session*.c` | life cycle state, process handles, ModelC gateway | fmu_create, init, step, destroy; session start and end; scripts | the ModelC gateway is used only while connected; everything that was started is stopped, in an order no one blocks in |
| FMI Gateway: parser, index, signals | YAML documents, index of gateway signals | parse, index, reset | a variable maps to the signal its annotation names |
| FMI MCL: parser and marshal table, `parser.c`, `engine.c` | list of signals, marshal groups | parse, sort, generate | the groups partition the source vector |
| FMI MCL: model and adapter, `model.c`, `fmi2mcl.c` | signal vector, source and target vectors, model time, measurement | create, step, destroy; load, init, marshal_in, step, marshal_out | inputs arrive before doStep, outputs on the bus are of one instant, clocks agree |
| FMI ModelC FMU, `dse/fmimodelc` | runtime model, index into the SimBus vectors, environment | create, init, step, destroy, index, reset | a variable maps to its SimBus signal, binary signals are consumed once |
| Importer, `importer.c`, `signal_bus.c`, `csv.c`, `xml.c` | texts per variable, network buffer, CSV position | loop: truncate, push, inject, pull, set, step, get; samples | frames are looped back once, samples are applied on time |
| FMI toolset (Go), `extra/tools/fmi` | – (reads and writes files once) | generate FMUs, MCL models, the direct index | value references that are unique and, with a direct index, address the scalar they stand for |

### What is hard here

* The FMU API has no notion of a cycle: that binary signals belong to one step is
  kept up by one flag, set and cleared in different calls and tested in three.
* A returned string is owned by the FMU until the *next* call of the same
  function.
* The gateway's shutdown works on up to four kinds of processes that exit on
  their own time, with waits that time out, signals that may not get through, and
  handles that may never have been valid; and `session_end` has five ways through.
* Marshalling makes one FMI call per group, any of which can fail, and there are
  two intermediate vectors between the FMU and the bus.
* The importer's loopback shares one buffer over all variables and steps.
* With a direct index a value reference *is* a byte offset into the memory of the
  SimBus: the Go toolset computes it, ModelC lays the memory out, `fmi2fmu.c`
  dereferences it, and no two of them share code.
* The importer and the FMU read the same model description with separate code, and
  agree on a variable only through its value reference.
* The FMI ModelC FMU and the gateway build their index in `fmu_init`: what was set
  before is kept for parameters, and dropped for signals.
* Script parameters go through the process environment, which outlives the
  instance on Unix and, for the C library, never changes on Windows.
* The lists the gateway reads from its stacks end at the first NULL name, and a
  nameless entry can be in the middle of a document.

There are no threads in this code. The interleavings are those of the importer's
calls with the FMU's callbacks, and of the gateway with the processes it started.

## Modules

| Module | Models | State ↔ code | Actions ↔ code |
|---|---|---|---|
| `NCodecStream` | `ncodec.c` stream functions, on a binary signal | a record `[data, pos]`: buffer content and stream position | operators `StreamRead`, `StreamWrite`, `StreamSeek`, `SignalClear` |
| `StepMailbox` | the abstract contract of binary variables | `inbox`, `outbox`, `busy` | `Put`, `Discard`, `Begin`, `Emit`, `End`, `Restart` |
| `FmuInstance` | `fmi2fmu.c`, `fmi3fmu.c`, `signal.c` | `signals_reset`, `stream` (signals), `var`/`reg` (variable table), `free_list`/`heap`, `string_input` | one action per API function; DoStep and ExitInitializationMode are split at the callback into the FMU |
| `GatewaySession` | `fmigateway.c`, `session.c`, `session_win32.c`, `session_unix.c` | `state` (enum), `proc`/`handle` per process, `gw` (ModelC gateway), `ran` (scripts) | one action per API callback, and one per process in each loop of the shutdown, because processes exit between the turns |
| `MclTable` | `parser.c`, `engine.c`, the measured range of `model.c` | `list`, `signals`, the locals of `fmimcl_generate_marshal_table`, `mg_table` | one action per parsed signal, the sort, one per turn of the table loop |
| `MclModel` | `model.c`, `fmi2mcl.c` | `sv`, `source`, `target`, the FMU's `fmu` and its time, `mdf`; groups with direction and type | one action per group of a marshalling loop, which makes one FMI call or passes the group over |
| `Importer` | `importer.c`, `signal_bus.c`, `csv.c` | `val_tx`/`val_rx` (texts), `bus`, CSV position, `val_rx_real` | one action per turn of each loop; `strtod` and `errno` say how a text of the CSV file is read; it EXTENDS `StepMailbox` as the FMU it drives |
| `DirectIndex` | `directindex.go` | `groups`, loop position and `groupOffset` of `calculateMapOffsets` | `GetSignalGroup`, `AddSignal`, one action per turn of `calculateMapOffsets` |
| `ModelcFmu` | `modelcfmu.go` (annotation), `dse/fmimodelc`, the access by index of `fmi2fmu.c` and `fmi3fmu.c`; it EXTENDS `DirectIndex` | documents and their annotations, the index of the FMU, SimBus scalars and networks, the environment | one action per document and per signal of the two passes of the toolset, and one for the failure at a binary document; `fmu_create`, `fmu_init`, SetReal, SetString, DoStep, `fmu_destroy` |
| `GatewaySetup` | `parse_fmi.c`, `parser.c`, environment and SIMER command of `session*.c`, `index.c`, `signal.c`, `createRuntime` of the toolset | `settings`, `session`, the maps of the FMU, the process environment, the signals of the gateway | `fmu_create`, `fmu_init` (scripts and process starts included), SetReal, SetString, DoStep, `fmu_destroy`, over several instances |
| `VariableIndex` | `importer/xml.c`, `fmu/signal.c`, `fmi2variable.c`, `fmi3variable.c`, `ncodec.c` (open, close) | the importer's lists, `count`/`signal` per vector, the FMU's maps, open codecs, streams and trace data | one action per variable of each pass over the document; SetReal, the FMU's registered outputs, remove |
| `MCFmuInstance`, `MCGatewaySession`, `MCMclModel`, `MCImporter`, `MCModelcFmu`, `MCGatewaySetup`, `MCVariableIndex` | instances for TLC | | |
| `FmuInstance_proofs`, `GatewaySession_proofs`, `GatewaySetup_proofs`, `Importer_proofs`, `VariableIndex_proofs`, `ModelcFmu_proofs` | theorems about the module of that name; those about `DirectIndex` are in `ModelcFmu_proofs` | | |
| `FmiMcl_proofs` | theorems about `MclTable`, about `MclModel`, and that the first gives the second what it assumes | | |
| `FlattenLemmas` | induction over a set of numbers, least and greatest elements, and facts on `FlattenSeq`, for the other proofs | | |

`StepMailbox` is the joint between the two sides: `FmuInstance` is shown to
implement it (run and proof), `Importer` uses it in place of the FMU. The items
differ: `FmuInstance` takes texts of one frame, an item of `Importer` is all the
frames of one text, which SetString appends to the signal in one piece.

`FmuInstance` takes the index as a constant. `VariableIndex`, `ModelcFmu` and
`GatewaySetup` are the three ways this code builds one, each from the documents
it reads to the values that arrive. `GatewaySetup` and `GatewaySession` divide the
gateway: the first says which command lines and environments the processes are
given, the second when processes run and how they end.

Conventions. A definition named `...NoGuard`, `...Late`, `...None` and so on under a
comment that starts with "Fault:" is a mutated form of the definition that follows it; it is used by no
specification, only to show that a property notices that fault. History variables are
marked so where they are declared.

Abstractions. A binary signal is a sequence of frames; ascii85 text is a record
that says what it encodes, so that a text decoded twice, or never, is told apart
from its content. Time counts steps. Text that only goes to a log is left out. The
FMU's own code, the ModelC gateway, the processes and the other models on the
SimBus are external and behave in any way the code allows for.

## Runs

Passing runs:

| Run | Instance | Shows |
|---|---|---|
| `fmu_instance` | two inputs on one bus signal, one of them encoded; two outputs on signals of their own, one with a codec and encoded; scalars, strings, two heap cells | `StepDelivery`, `OutputsFresh`, `GetReturnsOutputs`, `StringsOwned`, `ScalarsCoherent`, and that the instance implements `StepMailbox` (`MailboxSpec`) |
| `variable_index` | all model descriptions of up to three variables over eleven kinds of FMI 2 variables, and of the FMI 3 kinds | `SlotsCounted`, `ExchangeExact`, `CodecsAgree`, `CodecsReleased` |
| `modelc_fmu` | simulation folders with shared, filtered and unassociated SignalGroups, with networks the filter passes over and with networks at which the annotation fails, with counted references and with a direct index; three model instances with environments | `DirectSlots`, `VariableExact`, `NetworkExact`, `EnvironmentScoped` |
| `gateway_setup` | LEGACY and SIMER gateways, stacks with stacked, foreign, nameless and unreadable parts, both platforms, two instances in one process | `ScriptEnvironment`, `SimerCommandHonoured`, `ModelsStarted`, `ValuesDelivered` |
| `gateway_faults` | two models, SimBus, transport or SIMER, both platforms, all sets of scripts; every CreateProcess, AttachConsole and `model_gw_setup` may fail, and the importer may step all the same | `GatewayProtocol`, `ScriptOrder` |
| `gateway_stop` | the same without failing AttachConsole, with fairness | `TransportLast`, `NoneLeftRunning`, `SessionShutsDown` |
| `mcl_table` | all SignalGroups of up to three signals over five types and seven causalities | `SortCorrect`, `TablePartitions`, `MeasuredExact` |
| `mcl_model` | four groups of different direction and a fifth without a type, two values, two steps; every FMI call may fail | `InputsApplied`, `BusAtModelTime`, `ClocksAgree`, `MeasuredAtTime` |
| `importer` | two outputs and two inputs of different MIME type, three steps, up to two frames per step and output; all CSV files of up to three lines over four headers and fourteen kinds of lines, with times and cells that are negative, out of range or no number; start values other than 0 | `LoopbackExact`, `SamplesOnTime` |

Runs that end in a violation, each of one property that a comment or document of
the repository states:

| Run | Property | What TLC shows |
|---|---|---|
| `gateway_processes` | `EndShutsDownModels` | `model_gw_setup` fails after the processes were started; the guard of `session_end` takes this for an `fmu_init` that was never called and leaves them running |
| `gateway_step_status` | `StepStatusHonest` | `fmu_step` returns 0, "The FMU step was performed correctly" (fmigateway.c:170), after a failed `model_gw_sync`, and for a step on a gateway that was never connected: `fmu_init` failed and the importer steps all the same, as the one of this repository does (importer.c:194 and :382 drop the status of ExitInitializationMode) |
| `gateway_simer` | `SimerCommandHonoured` | the toolset numbers the generated variables in the order Simer_Command_Selector (0), Simer_Command (1); `fmigateway_run_simer` looks up string "0" and scalar "1" (session_win32.c:824, :826), as in the hand-written model description of test_fmi2_xml_parsing.c:115. With the latter the same property holds (run `gateway_setup`) |

### Bounds

* `MaxFrames` (frames per signal) = 2: the smallest number with which order,
  duplication and loss of a single frame can be told apart; a read of one frame
  followed by a write, and a reset between two sets, both happen. The proofs drop
  the bound: they hold for every value of it, as the proofs named below do of
  theirs.
* Models = 2: the loops have a first and a last turn, and "any" differs from
  "all". The proofs are for any number.
* `MaxSignals` = 3: groups 2+1, 1+2, 1+1+1, and a key that comes back after
  another (before the sort). The proofs are for any number of signals.
* `MaxTime` = 2 in `MclModel`: a step after a step, each with a failure at each
  call; the first step differs by the initial marshalling. The proofs are for any number
  of steps and any groups.
* `MaxSteps` = 3, `MaxEmit` = 2, `MaxLines` = 3 in `Importer`: a frame sent in the
  first step has two later ones in which it must not appear again; three lines
  hold a line between two others. The proofs are for any number of steps, frames,
  lines and variables.
* Documents of up to three variables in `VariableIndex`: a variable between two
  others, two networks of one MIME type beside one of another, an input and an
  output of one value reference. The proofs are for documents of any length.
* `MaxInstances` = 2 in `GatewaySetup`: a second instance finds the environment of
  the first. One instance is enough for the violation of `gateway_simer`. The
  proofs are for any number of instances, and for any documents.
* `MCModelcFmu` has two channels of scalars with two or three signals, one of networks
  and one that selects nothing, so that a group has groups before and behind it in
  the map. The proofs are for any folder.

Two runs have a state constraint, `OneAtATime`, which keeps the product of
independent parts out of the state space and no part of either. In
`fmu_instance` the scalars rest while there is more than one frame, and the two
outputs together hold at most `MaxFrames` frames. In `importer`, with a CSV file the
FMU is silent, of FMI 2, and the signal bus is off.

Symmetry is used for the models of the gateway, in the safety runs only.

### Fairness

Only `gateway_stop` assumes fairness, for `SessionShutsDown`:

* the importer frees what it initialised (`SessionEnd`), which FMI requires of it;
* a started `session_end` goes on (`EndSteps`): it is sequential code, its waits
  for processes are bounded (ten seconds, then it goes on or terminates the
  process), commands and `model_gw_sync` are assumed to return. A shutdown or
  teardown command that hangs does block the importer, as the wait for it has no
  limit (session_win32.c:804); that is listed as a hazard;
* a process that received CTRL_BREAK exits some time. A process that did not is
  not assumed to exit.

## Proofs

### `FmuInstance_proofs`

For any finite or infinite sets of variables, signals, frames and heap cells, any
index (several variables on one signal included), any choice of codecs and
encodings. Assumed (`IndexAssumption`, `ValueAssumption`): the index maps to
signals, no signal is input and output, 0 is a value, NULL is none.

`StepDelivery` and `OutputsFresh` are not inductive: that the data of an input is
what was sent says nothing of the next cycle unless the flag is known. The
inductive invariant `CycleInv` ties the flag to the contents:

* `RxInv`: an input holds what was sent in this cycle if the flag is set, and
  nothing was sent if it is clear; the position of its stream is 0 until the step
  and then counts what the FMU read;
* `TxInv`: an output holds what the last step wrote unless the flag is set
  outside a step, and its stream is at the end;
* `PhaseInv`: a step runs only with the flag set.

`WriteAtEnd`, `ReadContinues`, `StreamTypes` are the lemmas on streams that carry
the argument: a write at the end appends, a read goes on where the last one ended.

Theorems: `TypeCorrect`, `DeliverySafe`, `OutputsSafe`; `StringsSafe`
(`StringsOwned` is inductive with the types); `ScalarsSafe` (by `ScalarInv`, which adds
what holds while the callback runs); `GetSafe`, the action property
`GetReturnsOutputs` (by `TxInv`, and because no two references of one call share a
pointer); and `MailboxRefined`, the refinement: under
`CycleInv` the mapped inbox is `sent` and the mapped outbox is `written`, so that
each action is a mailbox step or a stutter.

### `GatewaySession_proofs`

For any finite set of models whose names are not those of the other processes
(`GatewayAssumption`).

* `ProtocolSafe`, by `GwInv`: for every place in the code, whether the ModelC
  gateway is off, connected or exited, or was synchronised without a connection. It
  needs `state`: the guard of `session_end` reads the enum, so the invariant must say
  that the enum and the gateway agree. `fmu_step` has no guard, so steps after a failed
  `fmu_init` are part of the specification: they synchronise an unconnected gateway,
  which `GatewayProtocol` allows in that case only and the run
  `gateway_step_status` is about.
* `TypeCorrect`, by `IdleInv`: no loop is active before `fmu_create`.
* `ReleaseSafe`, `TransportSafe`, under the assumption `AttachMayFail = FALSE`
  (signals get through), by `OwnInv` and `StopInv`. `OwnInv`: a running
  process has an open handle and belongs to the runtime whose shutdown is
  executed. Without it the shutdown could pass over a process it has no handle of.
  `StopInv`: how far the stopping has come at each place. The assumption is needed:
  `_gracefully_terminate_process` only logs a failed AttachConsole.
* `ScriptsSafe`, by `RanInv`: the scripts that ran are in strictly rising order, and
  none is later in the order than the place in the code allows. The order by itself
  is not inductive: it does not say that the script about to run has not run
  before. That the shutdown command runs after `model_gw_exit` takes `GwInv`.

### `FmiMcl_proofs`

About `MclModel`, for any number of groups of any directions and types, none included,
and of variables that no two groups share (`MclAssumption`), any values and any number of
steps, with any FMI call failing. The loops pass over groups without a type; what
`InputsSafe`, `BusSafe` and `MeasuredSafe` say is about the other ones, and that a
group without a type does not disturb them.
`InputsSafe`, `BusSafe`, `ClocksSafe` and `MeasuredSafe` follow from one invariant,
`MclInv`. What the four properties say at one moment depends on how far two loops,
one FMI call per group each, have come: `OutInv` says which groups have reached the
FMU while marshal_out runs, `InInv` which are in the target vector while marshal_in
runs, `ClockInv` how the two clocks stand at every place in the code, and `BusInv`
that both vectors on the model's side hold the outputs of the model time.

About `MclTable`, for any set of annotations out of the types and causalities the
parser knows (`TableAssumption`) and any number of signals:

* `SortSafe`: the sort is a permutation, signals of equal key are next to each other and
  keep their order. It is a pass over the list for each of the 90 combinations of
  kind, type and direction. `SortKeyRank` shows that the nested loops visit the keys by
  their rank, `WithKeyCorrect` that one pass keeps the order of the files, and
  `SortedListCorrect` that the concatenation loses and doubles nothing.
* `TableSafe`: `LoopInv` says that the signals passed are those of the emitted groups
  and of the one being accumulated, whose key comes after theirs; `PartitionAppend`
  that emitting it keeps the groups a partition. A run that is contiguous only
  because the list is sorted needs `SortInv`.
* `MeasuredRange`: where all signals have a type, the primitive ones come first.
* `TableFits` joins the two. `MclModel` takes the groups as a constant; every
  table that `MclTable` generates, read as such groups, satisfies `IsMarshalTable`, the
  part of `MclAssumption` that is about them. So that assumption is one the code
  establishes, and the theorems about `MclModel` are about every table of the engine.

### `FlattenLemmas`

The induction theorems of the library take an operator as a parameter and cannot
be used. `NatSetInduction` is induction over a *set* of numbers, by its smallest
counterexample (`NatMin`, from the well-foundedness of < on the naturals). With it
`FlattenSeqRec` derives the equation of the recursive function in `FlattenSeq`, and
`FlattenLocates` which element of which sequence an element of the result is.
`NatMax` is for the loops that keep the last entry of a hash map.

### `Importer_proofs`

For any number of variables, steps, frames and lines (`ImporterAssumption`: the lists
name each network variable once; `CsvAssumption`: headers and lines are sequences,
the FMU has finitely many inputs and each has a start value; the time and the cells of a
line are numbers, a number out of range or no number).

* `LoopbackSafe`, by `LoopInv`: for every loop of a step, what the elements before
  the loop index have done already and the others have still to do, from the
  FMU's outbox over the texts and the bus to the inbox of the next step. `EmptyInv`
  is what makes it inductive: between two steps nothing is left over. The theorem
  has a hypothesis, `Supported`: every MIME type has a codec. Without it the first
  variable that touches the network can leave it without a codec
  (signal_bus.c:44), which is listed as a hazard; the instance TLC checks satisfies it.
* `SamplesSafe`, by `StimInv`: the lines before the current one have been applied, each
  input has the cell of the newest of them that has one, or its start value, no line was
  applied early, and in a step none is left to apply. What counts as a line or a cell is
  what `strtod` and `errno` make of the text.

### `VariableIndex_proofs`

For any set of model descriptions that satisfies `DocumentAssumption` and
`StartAssumption`, of any length. All of `SlotsSafe`, `ExchangeSafe`, `CodecsSafe`
and `ReleasedSafe` follow from `VarInv`:

* `IndexInv`: the slots given out are those of the variables read so far, and each
  map leads from a value reference to the slot with its variable's name;
* `CountInv`: there is a counted child for every slot. The count and the index are
  two scans with different conditions; that the second never exceeds the first
  is a fact about the cardinality of sets of children, `CountTyped`;
* `CodecInv`: the object in a slot is the one for the variable's MIME type, no slot
  that was not given out has one, and streams and traces belong to open codecs;
* `ListInv`, `ValueInv`: what the importer lists, and that a slot holds what was last
  given to its variable.

### `ModelcFmu_proofs`

For any set of simulation folders, channels and model instances that satisfy the
assumptions below.

* `DirectSlotsHold`: for any sets of channels and signals, collected in any order
  and number, and without assumptions, the eight bytes of every scalar lie inside
  the map, overlap no other scalar's, and touch none of the binary, size and length
  arrays. `DirectSlots` speaks of the finished index only. `IndexInv`
  says what the loop has established so far (`OffsetsOrdered`): the groups before the
  loop position have the length of their list of signals, each ends where or before
  the next begins, and the last ends at or before `groupOffset`. The rest is
  arithmetic on two items of one block and on items of two ordered blocks.
* `SlotsApart`: the same for `ModelcFmu`; every step of it is one of
  `DirectIndex` or leaves the index alone (`IndexRefined`).
* `VariablesSafe`: `NumberInv` says that a value reference is the signal's own offset
  with a direct index, and without one a number that no other signal was given.
  In the first case `SlotHit` and `SlotAlone` lead from the reference to one scalar
  of the SimBus, for which `GroupInv` is needed: a channel has one group, and a group
  lists a signal once. In the second `HashMapHit` shows that the entry which the loop over
  the SignalGroups leaves in the hash map is that of the reference's signal. `BusInv` then
  says that SimBus and expectation are equal after every call.
* `NetworksSafe`, about the time from the first text set after a step to the next step, by
  `NetInv`, which ties the flag `signals_reset` to the contents as
  `CycleInv` does in `FmuInstance`; and by `OneNetwork`: a reference leads to one
  network, whichever document it was read from.
* `EnvironmentSafe`: by induction over the instances (`EnvarsFacts`), what is set
  after the first k of them; `NamesApart` keeps the names of two instances apart.

### `GatewaySetup_proofs`

For any FMUs and environments that satisfy the assumptions below, any values and any
number of instances, on both platforms.

* `ValuesSafe`: `RegisteredFacts` says that the maps hold each parameter of the
  model description under its own value reference, with its start value, although the
  parameters come from three lists with different rules for what is skipped. The
  property says nothing of what a value reference leads to, so `ValInv` adds it:
  `ParamInv` that a parameter is never bound to a signal, `IndexInv` that before
  `fmu_init` no reference is bound and after it exactly those of the index are,
  `BusInv` that a network which was not reset yet was given nothing.
* `EnvironmentsSafe`, by `EnvInv`: the environment keeps what the user set; on Unix
  nothing else is in it before the first script, and after it every parameter has
  the value of that time for good, because `getenv` finds it. On Windows `getenv` does
  not see what was set, so each script has the values of its own time. The value of a
  parameter comes from `ParamInv`.
* `SimerSafe`, with the hypothesis `SimerReferences`: the command has value reference 0
  and the selector 1, as in the model descriptions of the unit tests. The code has the
  two numbers built in, and the toolset numbers the two the other way round, which is the
  finding of `gateway_simer`: the theorem says that nothing else stands in the way.
* `ModelsSafe`, with the hypothesis `NamedStacks`: a document that is run as one process
  has a named model. A document without one ends the list of processes
  (parser.c:205). `Lists` is what each of the three nested loops establishes about the
  processes it collects: every one has a name, every name is that of a model at a place of
  the stack, no two share one, and every model wanted is held. `ListsFlatten` carries
  it from the turns of a loop to the loop, and is used for documents, files and
  stack.

TLC evaluates the two hypotheses on the FMUs of `gateway_setup`, which satisfy them.

### Only model-checked

* `SessionShutsDown`: liveness under fairness is out of the reach of the proof system.

### Assumptions

What the models assume of their inputs is stated as ASSUME and evaluated by TLC.
Beside those named above:

* in `ModelcFmu`, that documents are well formed (`DocumentAssumption`,
  `ChannelAssumption`, `ScalarAssumption`), that channels which select the same
  document have one SimBus name (`OneChannelAssumption`), that a value reference is
  listed as input or as output by one network and the documents of a network agree on
  its encoding (`NetworkAssumption`), and that the instances, and the variables of
  each, have names that differ in upper case too, with one simbus at most
  (`InstanceAssumption`): the code
  puts both in upper case (runtime.c), and two that coincide share a variable;
* in `GatewaySetup`, that parameters have distinct names and, within a type, value
  references, and start values of their type (`ParamAssumption`); that a value
  reference is that of one scalar input or of the inputs of one network, and not of a
  parameter of that type as well (`SignalAssumption`): `fmigateway_index_scalar_signals`
  would replace the parameter; that the models of a simulation have distinct
  names, none of them `transport` or the name of the simbus (`StackAssumption`); and that
  NULL is no text and no number (`EnvironmentAssumption`);
* in `VariableIndex`, that variables of one kind and causality have distinct value
  references, and every variable one typed child (`DocumentAssumption`), that an FMI 3
  Binary has a Start (`StartAssumption`), and that 0 is a value (`ValueAssumption`).
  FMI 2 asks for value references that are unique per base type only; Real, Integer
  and Boolean share one map in the FMU, so that documents which use the freedom are
  outside the model.

## Observations without a run

Disagreements between comments and code met while modelling, which no listed run
checks:

* `session.c:122` says that teardown "must still be called"; a shutdown command that fails
  (line 155) and a gateway without a session (line 140) return before it.
* `fmigateway.c:207`: `fmu_destroy` "Releases memory and system resources"; the handles of
  the transport, and of a process still active after its wait, are not closed.
* `fmimcl/model.c:76`: primitives "should be first in the list"; signals without a
  type annotation sort before them and then nothing is measured. `MeasuredExact`
  is about groups in which every signal has a type.
* `fmimcl/parser.c:22` gives the order of the sort as kind, direction (TX, RXTX, RX), type; the
  loops below it order by kind, type, direction (RX before TX). `SortCorrect` says what
  the marshal table needs of the sort (a stable permutation with equal keys together) and
  not the order of the keys: it holds for the order of the comment too.
* `fmimcl/engine.c:181`: `fmimcl_load_encoder_funcs` is called nowhere.
* `fmimcl/model.c:96`: initial values are "available (to the simulation) in the
  first step"; a failed initial marshalling is only logged.
* `fmu/signal.c:97`: a registered variable's default is "The configured FMU Variable start value,
  or 0."; it is always 0.
* `session_win32.c:174`: AllocConsole must not be called; `fmigateway_stop_simer`
  calls it (line 935).
* `session_win32.c:559`: "Check if any model is still alive"; the loop leads to the
  extra step only if all are.

Behaviour that no comment contradicts, and which a user of the code should know:

* What is set before ExitInitializationMode is dropped for the signals of
  the FMI ModelC FMU and of the gateway: their index does not exist yet. In a user's
  FMU a value that `fmu_init` gives a registered input is overwritten at the first
  DoStep (fmi2fmu.c:554).
* A signal of an MCL without a type annotation, or with one the parser does not know,
  gets a marshal group of type NONE, which `fmi2mcl_marshal_in` and
  `fmi2mcl_marshal_out` pass over (fmi2mcl.c:275, :377): it is on the SimBus and is never
  exchanged with the FMU, without a message. The properties of `MclModel` are about
  the variables of a known type.
* The importer takes a CSV time or cell that is no number for 0 and applies it: errno,
  the only thing it tests (csv.c:81, importer.c:115), reports numbers out of range
  alone. A header line repeated in the middle of a file is a sample for time 0.
* The annotation command fails at a SignalGroup with binary signals
  (modelcfmu.go:544) unless `--signalgroups` leaves it out, although
  `runGenerateDirectIndex` has put its signals in the index by then.
* `fmimodelc/runtime.c:148` tests `vname[0]` in every turn of its loop.
* `fmigateway/parser.c`: an entry of an environment that is not a scalar leaves a gap
  (line 93), a stacked document without names ends the list of models (line 205),
  the list of files of a stacked document is overwritten per model (line 266).
* `fmigateway/index.c:121` and `:224` compare an annotation that may be missing.
* `fmigateway/session.c:25` prints a Real parameter with "%d": the fraction is lost.
* The importer ascii85-codes every network (importer.c:235), the FMU only those with
  an encoding annotation.
* `importer/xml.c:283` copies the Start of an FMI 3 Binary without looking whether
  there is one.
* An FMI 2 variable whose first child is not its type is counted by the FMU and not
  indexed; a local String leaves its slot behind; start values of scalars are not
  used by the FMU.
* In the toolset, the String branch of `patchSignal` does not advance the value
  reference, start values are annotated under two names (`fmi_variable_start`,
  `fmi_variable_start_value`), and a second run of the annotation command keeps the
  references of the first.

## Not modelled

* Sizes of allocations, `valueSizes` of fmi3GetBinary, C strings and their terminators
  beyond what `ReturnedText` says.
* Functions of the FMI APIs that only return a status (derivatives, states,
  unsupported types).
* Quoting of command lines, log files and consoles of the gateway; the waiting for
  startup commands.
* Several instances used from several threads.
* Floating point: time counts steps, and a Real parameter counts halves.
* libxml2 and the YAML library: documents are records of what the code asks of them.
  Tokenising of CSV lines; the text that `ncodec.c` traces.
* ModelC (SimBus, gateway and runtime API) is external; its layout of the
  memory map is modelled from how this repository uses it.
* Of the Go toolset: reading and writing of files, the rule sets that choose
  causalities, the packaging of FMUs, and the generation of MCL models.
* Tests and examples.

## Plan

The components are modelled as far as "Not modelled" says, and every safety property
that a run checks is stated by a theorem. What could follow is the rest of the FMI API
(`fmi3GetBinary` with its sizes) and the console of the Windows session.

Runs are kept few: a new component takes a run of its own only when its instance
cannot be part of an existing one.
