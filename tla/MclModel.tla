------------------------------ MODULE MclModel ------------------------------
(***************************************************************************)
(* An FMU run as a ModelC model by the FMI MCL: dse/fmimcl/model.c with    *)
(* the FMI 2 adapter dse/fmimcl/adapter/fmi2mcl.c.                         *)
(*                                                                         *)
(* A value travels signal vector (sv) <-> source vector (source) <->       *)
(* marshal group (target) <-> FMU variable (fmu).  The adapter makes one   *)
(* FMI call per group and stops at the first that fails, so the loops over *)
(* the groups are steps of their own: pc is the place in model_create or   *)
(* model_step, g the group.                                                *)
(***************************************************************************)
EXTENDS Naturals, Sequences

CONSTANTS
  Groups,      \* the marshal table: a sequence of [dir, type, vars]
  Value,       \* values of variables, 0 among them
  MaxTime      \* bound: model time, in steps

Var == UNION {Groups[i].vars : i \in DOMAIN Groups}

(* The directions marshal_in and marshal_out handle.                       *)
InDirs == {"TXRX", "RXONLY", "LOCAL"}
OutDirs == {"TXRX", "TXONLY", "PARAMETER"}

(* Group n is marshalled in one of the directions D: the switch on its     *)
(* type knows all types but NONE, that of a signal whose annotation is     *)
(* missing or unknown.                                                     *)
Handled(n, D) == Groups[n].dir \in D /\ Groups[n].type # "NONE"

(* The variables that are marshalled in the directions D, and all that     *)
(* have one of these directions.                                           *)
VarsOf(D) == UNION {Groups[i].vars : i \in {j \in DOMAIN Groups : Handled(j, D)}}

Directed(D) == UNION {Groups[i].vars : i \in {j \in DOMAIN Groups : Groups[j].dir \in D}}

(* Those the FMU alone produces, of a known type.                          *)
Outputs == VarsOf({"RXONLY", "LOCAL"})

(* A list of groups with a direction and a type each, none of which share  *)
(* a variable.                                                             *)
IsMarshalTable(T) ==
  /\ Len(T) \in Nat /\ DOMAIN T = 1 .. Len(T)
  /\ \A i \in DOMAIN T :
       /\ T[i].dir \in {"NONE", "LOCAL", "RXONLY", "TXRX", "TXONLY", "PARAMETER"}
       /\ T[i].type \in {"NONE", "INT32", "DOUBLE", "BOOL", "STRING"}
  /\ \A i, j \in DOMAIN T : i # j => T[i].vars \cap T[j].vars = {}

ASSUME MclAssumption == IsMarshalTable(Groups) /\ 0 \in Value /\ MaxTime \in Nat

VARIABLES
  pc,          \* "none", "load", "init", "in0", "idle", "out", "step", "in",
               \* "failed", "fatal", "gone"
  g,           \* the next group of the loop of marshal_in / marshal_out
  sv, source, target, fmu,   \* [Var -> Value]
  model_time,  \* the model's time on the SimBus
  fmu_time,    \* the FMU's own time
  mdf,         \* the last measurement record: time and source values
  outputs,     \* history: the FMU's Outputs at each of its times
  initial      \* history: the initial values were marshalled in

modelVars == <<pc, g, sv, source, target, fmu, model_time, fmu_time, mdf, outputs, initial>>

Zero == [v \in Var |-> 0]

(* No measurement record was written yet.                                  *)
NoRecord == [time |-> MaxTime + 1, values |-> Zero]

(* The values of old, with those of the variables V taken from new.        *)
Merge(old, new, V) == [v \in Var |-> IF v \in V THEN new[v] ELSE old[v]]

(* The history with the Outputs among the values x at time t.              *)
Recorded(t, x) == [outputs EXCEPT ![t] = Merge(Zero, x, Outputs)]

ModelInit ==
  /\ pc = "none" /\ g = 1
  /\ sv = Zero /\ source = Zero /\ target = Zero /\ fmu = Zero
  /\ model_time = 0 /\ fmu_time = 0
  /\ mdf = NoRecord
  /\ outputs = [t \in 0 .. MaxTime |-> Zero] /\ initial = FALSE
-----------------------------------------------------------------------------
(***************************************************************************)
(* model_create.                                                           *)
(***************************************************************************)

(* mcl_create and mcl_load (fmi2mcl_load): a library that cannot be opened *)
(* ends the process.                                                       *)
Load(ok) ==
  /\ pc = "none"
  /\ pc' = IF ok THEN "init" ELSE "fatal"
  /\ UNCHANGED <<g, sv, source, target, fmu, model_time, fmu_time, mdf, outputs, initial>>

(* mcl_init (fmi2mcl_init): instantiate, enter and exit initialisation,    *)
(* after which the FMU has its start values.                               *)
fmi2mcl_init(ok, start) ==
  /\ pc = "init"
  /\ IF ok THEN pc' = "in0" /\ g' = 1 /\ fmu' = start /\ outputs' = Recorded(0, start)
           ELSE pc' = "fatal" /\ UNCHANGED <<g, fmu, outputs>>
  /\ UNCHANGED <<sv, source, target, model_time, fmu_time, mdf, initial>>

(* Fault: each group is moved to the signal vector as soon as it was read. *)
GetGroupThrough(rc) ==
  /\ pc \in {"in0", "in"} /\ g <= Len(Groups)
  /\ ~Handled(g, InDirs) => rc = 0
  /\ IF rc = 0
     THEN /\ g' = g + 1 /\ UNCHANGED pc
          /\ target' = IF Handled(g, InDirs) THEN Merge(target, fmu, Groups[g].vars) ELSE target
          /\ sv' = Merge(sv, target', Groups[g].vars)
     ELSE /\ pc' = IF pc = "in0" THEN "idle" ELSE "failed"
          /\ UNCHANGED <<g, target, sv>>
  /\ UNCHANGED <<source, fmu, model_time, fmu_time, mdf, outputs, initial>>

(* fmi2mcl_marshal_in: the getter of one group.  Groups of the other       *)
(* directions and groups without a type are passed over.  A status above   *)
(* OK ends the call at once.  model_create only reports that; model_step   *)
(* returns it.                                                             *)
GetGroup(rc) ==
  /\ pc \in {"in0", "in"} /\ g <= Len(Groups)
  /\ ~Handled(g, InDirs) => rc = 0
  /\ IF rc = 0
     THEN /\ g' = g + 1 /\ UNCHANGED pc
          /\ target' = IF Handled(g, InDirs) THEN Merge(target, fmu, Groups[g].vars) ELSE target
     ELSE /\ pc' = IF pc = "in0" THEN "idle" ELSE "failed"
          /\ UNCHANGED <<g, target>>
  /\ UNCHANGED <<sv, source, fmu, model_time, fmu_time, mdf, outputs, initial>>

(* Fault: the model time does not follow the step.                         *)
MarshalInDoneNoTime ==
  /\ pc \in {"in0", "in"} /\ g > Len(Groups)
  /\ source' = Merge(source, target, VarsOf(InDirs))
  /\ sv' = source'
  /\ pc' = "idle"
  /\ initial' = (initial \/ pc = "in0")
  /\ UNCHANGED <<g, target, fmu, model_time, fmu_time, mdf, outputs>>

(* fmi2mcl_marshal_in after the loop: marshal_group_in, and the signal map *)
(* (both external); in model_step the model time follows.  A group without *)
(* a type has no target (engine.c sizes it by the type) and stays out.     *)
MarshalInDone ==
  /\ pc \in {"in0", "in"} /\ g > Len(Groups)
  /\ source' = Merge(source, target, VarsOf(InDirs))
  /\ sv' = source'
  /\ model_time' = IF pc = "in" THEN model_time + 1 ELSE model_time
  /\ pc' = "idle"
  /\ initial' = (initial \/ pc = "in0")
  /\ UNCHANGED <<g, target, fmu, fmu_time, mdf, outputs>>
-----------------------------------------------------------------------------
(***************************************************************************)
(* model_step.                                                             *)
(***************************************************************************)

(* The other models change what they send (external).                      *)
BusChanges(x) ==
  /\ pc = "idle"
  /\ sv' = Merge(sv, x, Directed(OutDirs))
  /\ UNCHANGED <<pc, g, source, target, fmu, model_time, fmu_time, mdf, outputs, initial>>

(* Fault: the record carries the time of the end of the step.              *)
StepBeginStopTime ==
  /\ pc = "idle" /\ model_time < MaxTime
  /\ pc' = "out" /\ g' = 1
  /\ mdf' = [time |-> model_time + 1, values |-> source]
  /\ source' = sv
  /\ target' = Merge(target, source', VarsOf(OutDirs))
  /\ UNCHANGED <<sv, fmu, model_time, fmu_time, outputs, initial>>

(* model_step up to the loop of marshal_out: the measurement record, the   *)
(* signal map and marshal_group_out (both external).                       *)
StepBegin ==
  /\ pc = "idle" /\ model_time < MaxTime
  /\ pc' = "out" /\ g' = 1
  /\ mdf' = [time |-> model_time, values |-> source]
  /\ source' = sv
  /\ target' = Merge(target, source', VarsOf(OutDirs))
  /\ UNCHANGED <<sv, fmu, model_time, fmu_time, outputs, initial>>

(* Fault: parameters are not set.                                          *)
SetGroupNoParam(rc) ==
  /\ pc = "out" /\ g <= Len(Groups)
  /\ ~Handled(g, OutDirs) => rc = 0
  /\ IF rc = 0
     THEN /\ g' = g + 1 /\ UNCHANGED pc
          /\ fmu' = IF Handled(g, {"TXRX", "TXONLY"})
                    THEN Merge(fmu, target, Groups[g].vars) ELSE fmu
     ELSE pc' = "failed" /\ UNCHANGED <<g, fmu>>
  /\ UNCHANGED <<sv, source, target, model_time, fmu_time, mdf, outputs, initial>>

(* fmi2mcl_marshal_out: the setter of one group, with the same groups      *)
(* passed over.                                                            *)
SetGroup(rc) ==
  /\ pc = "out" /\ g <= Len(Groups)
  /\ ~Handled(g, OutDirs) => rc = 0
  /\ IF rc = 0
     THEN /\ g' = g + 1 /\ UNCHANGED pc
          /\ fmu' = IF Handled(g, OutDirs) THEN Merge(fmu, target, Groups[g].vars) ELSE fmu
     ELSE pc' = "failed" /\ UNCHANGED <<g, fmu>>
  /\ UNCHANGED <<sv, source, target, model_time, fmu_time, mdf, outputs, initial>>

(* marshal_out returned 0.                                                 *)
MarshalOutDone ==
  /\ pc = "out" /\ g > Len(Groups)
  /\ pc' = "step"
  /\ UNCHANGED <<g, sv, source, target, fmu, model_time, fmu_time, mdf, outputs, initial>>

(* mcl_step (fmi2mcl_step): doStep computes new values x for what is not   *)
(* an input.  Any status above fmi2OK, fmi2Warning too, is EBADMSG.        *)
fmi2mcl_step(rc, x) ==
  /\ pc = "step"
  /\ rc # "Error" =>
       /\ fmu' = Merge(fmu, x, Directed(InDirs))
       /\ fmu_time' = fmu_time + 1
       /\ outputs' = Recorded(fmu_time', fmu')
  /\ rc = "Error" => UNCHANGED <<fmu, fmu_time, outputs>>
  /\ pc' = IF rc = "OK" THEN "in" ELSE "failed"
  /\ g' = 1
  /\ UNCHANGED <<sv, source, target, model_time, mdf, initial>>

(* model_destroy; after a failed model_step ModelC ends the simulation.    *)
model_destroy ==
  /\ pc \in {"idle", "failed"}
  /\ pc' = "gone"
  /\ UNCHANGED <<g, sv, source, target, fmu, model_time, fmu_time, mdf, outputs, initial>>

ModelDone == pc \in {"gone", "fatal"} /\ UNCHANGED modelVars

ModelNext ==
  \/ \E ok \in BOOLEAN : Load(ok)
  \/ \E ok \in BOOLEAN, start \in [Var -> Value] : fmi2mcl_init(ok, start)
  \/ \E rc \in {0, 1} : GetGroup(rc)
  \/ MarshalInDone
  \/ \E x \in [Var -> Value] : BusChanges(x)
  \/ StepBegin
  \/ \E rc \in {0, 1} : SetGroup(rc)
  \/ MarshalOutDone
  \/ \E rc \in {"OK", "Warning", "Error"}, x \in [Var -> Value] : fmi2mcl_step(rc, x)
  \/ model_destroy
  \/ ModelDone

ModelSpec == ModelInit /\ [][ModelNext]_modelVars
-----------------------------------------------------------------------------
(***************************************************************************)
(* Properties.                                                             *)
(***************************************************************************)

(* When doStep is called every input, inout and parameter of the FMU that  *)
(* has a known type has the value that is on the bus, through both         *)
(* intermediate vectors and whatever untyped groups lie between; the       *)
(* adapter never sets a variable of an untyped group.                      *)
InputsApplied ==
  pc = "step" => \A v \in VarsOf(OutDirs) : fmu[v] = sv[v]

(* The outputs of a known type on the bus are the FMU's outputs at the     *)
(* model time, all of the same instant: a step that fails half way, in any *)
(* FMI call, leaves the bus as it was.  Before the first step this needs   *)
(* the initial marshalling to have worked.  The adapter never reads a      *)
(* variable of an untyped group.                                           *)
BusAtModelTime ==
  (initial \/ model_time > 0) =>
    \A v \in Outputs : sv[v] = outputs[model_time][v]

(* The FMU's clock and the model time agree between steps; after a failed  *)
(* step the FMU is at most that one step ahead.                            *)
ClocksAgree ==
  /\ pc \in {"in0", "idle", "out", "step"} => fmu_time = model_time
  /\ fmu_time \in {model_time, model_time + 1}

(* The outputs (of a known type) in a measurement record are the FMU's     *)
(* outputs at the record's time.                                           *)
MeasuredAtTime ==
  mdf # NoRecord /\ (initial \/ mdf.time > 0) =>
    \A v \in Outputs : mdf.values[v] = outputs[mdf.time][v]
=============================================================================
