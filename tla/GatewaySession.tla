--------------------------- MODULE GatewaySession ---------------------------
(***************************************************************************)
(* The session of an FMI gateway FMU: dse/fmigateway/fmigateway.c,         *)
(* session.c and the two platform layers session_unix.c, session_win32.c.  *)
(*                                                                         *)
(* The gateway FMU connects an importer to a SimBus.  It may run a startup *)
(* command, start the processes of the simulation (a transport, the        *)
(* SimBus, models; or SIMER), connect (model_gw_setup), exchange signals   *)
(* in each step (model_gw_sync), and at the end disconnect, stop the       *)
(* processes, run a shutdown command and a teardown script.                *)
(*                                                                         *)
(* The processes run on their own: they may exit at any moment, and react  *)
(* to CTRL_BREAK when they like.  So fmu_init and session_end are split    *)
(* where the gateway waits for or looks at a process; pc says where it is. *)
(* A wait with a timeout may always time out.                              *)
(***************************************************************************)
EXTENDS Naturals, FiniteSets, Sequences

CONSTANTS
  Models,              \* the ModelC models a session can have
  AttachMayFail,       \* AttachConsole, GenerateConsoleCtrlEvent can fail
  CreateMayFail        \* CreateProcess can fail

ASSUME GatewayAssumption ==
  /\ IsFiniteSet(Models)
  /\ {"simbus", "transport", "simer"} \cap Models = {}
  /\ AttachMayFail \in BOOLEAN /\ CreateMayFail \in BOOLEAN

Process == Models \cup {"simbus", "transport", "simer"}

VARIABLES
  state,      \* FmiGatewayState
  pc,         \* where fmu_init / fmu_destroy is; "created" and "api" between
              \* API calls, before and after fmu_init
  platform,   \* "unix" or "win32"
  runtime,    \* runtime.type: "LEGACY" or "SIMER"
  session,    \* settings.session # NULL
  scripts,    \* the scripts that exist: startup, shutdown, teardown
  want,       \* the processes the session describes
  proc,       \* the processes themselves, as the operating system sees them
  handle,     \* the gateway's handle on each process
  gw,         \* the ModelC gateway object
  todo,       \* the models the current loop has still to visit
  alive,      \* history: a model was alive when the loop looked at it
  extra,      \* the extra_step flag and whether the step was made
  ran,        \* the scripts that were run, in order
  status,     \* what the last API call returned
  syncrc      \* what the last model_gw_sync returned

vars == <<state, pc, platform, runtime, session, scripts, want, proc, handle, gw,
          todo, alive, extra, ran, status, syncrc>>

config == <<platform, runtime, session, scripts, want>>

StateNo == [CREATED |-> 0, INITIALIZED |-> 1, RUNNING |-> 2, STOPPED |-> 3, TERMINATED |-> 4]

Before(s) == StateNo[state] < StateNo[s]

(***************************************************************************)
(* The ModelC gateway (external), as fmigateway.c uses it: sync and exit   *)
(* are defined on a connected gateway.  A sync before model_gw_setup       *)
(* succeeded leaves the gateway "unconnected"; anything else is a misuse.  *)
(***************************************************************************)
model_gw_setup(rc) == IF rc = 0 THEN "connected" ELSE gw

model_gw_sync ==
  CASE gw = "connected" -> gw
    [] gw \in {"off", "unconnected"} -> "unconnected"
    [] OTHER -> "misused"

model_gw_exit == IF gw = "connected" THEN "exited" ELSE "misused"
-----------------------------------------------------------------------------
(***************************************************************************)
(* Processes.  proc: "off", "running", "signalled" (CTRL_BREAK sent),      *)
(* "exited".  handle: "none" (w_process = NULL), "open", "zero" (allocated *)
(* but CreateProcess failed), "leaked" (freed without CloseHandle).        *)
(***************************************************************************)

(* CreateProcess for the processes P, of which it fails for F.             *)
Start(P, F) ==
  /\ proc' = [p \in Process |-> IF p \in P \ F THEN "running" ELSE proc[p]]
  /\ handle' = [p \in Process |-> IF p \in P \ F THEN "open"
                                  ELSE IF p \in F THEN "zero" ELSE handle[p]]

(* GetExitCodeProcess(...) = STILL_ACTIVE.                                 *)
StillActive(p) == handle[p] = "open" /\ proc[p] \in {"running", "signalled"}

(* _gracefully_terminate_process: nothing to do without a process, with a  *)
(* failed GetExitCodeProcess or one that exited; otherwise CTRL_BREAK, if  *)
(* the console can be attached.  The Sleep(1000) that follows is the time  *)
(* in which ProcessExit can happen.                                        *)
GracefullyTerminate(p) ==
  \/ /\ StillActive(p)
     /\ proc' = [proc EXCEPT ![p] = "signalled"]
  \/ /\ StillActive(p) => AttachMayFail
     /\ UNCHANGED proc

(* _check_alive.                                                           *)
CheckAlive(p) == StillActive(p)

(* _check_shutdown: wait up to ten seconds; close the handle of a process  *)
(* that exited, keep the one of a process still active.  ok is the result. *)
CheckShutdown(p, ok) ==
  \/ /\ handle[p] = "none" /\ ok
     /\ UNCHANGED handle
  \/ /\ handle[p] = "open" /\ proc[p] = "exited" /\ ok
     /\ handle' = [handle EXCEPT ![p] = "none"]
  \/ /\ \/ handle[p] = "zero"
        \/ StillActive(p)
     /\ ~ok
     /\ UNCHANGED handle

(* A process exits: because it was told to, or by itself (external).       *)
ProcessExit(p) ==
  /\ proc[p] \in {"running", "signalled"}
  /\ proc' = [proc EXCEPT ![p] = "exited"]
  /\ UNCHANGED <<state, pc, config, handle, gw, todo, alive, extra, ran, status, syncrc>>
-----------------------------------------------------------------------------
(* fmigateway_run_cmd for script s, if it exists, with exit code rc.       *)
RunCmd(s, rc) ==
  IF s \in scripts THEN rc \in {0, 1} /\ ran' = Append(ran, s)
                   ELSE rc = 0 /\ UNCHANGED ran

(* fmigateway_teardown: its result is only logged.  No-op on Unix.         *)
Teardown ==
  ran' = IF platform = "win32" /\ "teardown" \in scripts THEN Append(ran, "teardown") ELSE ran

Init ==
  /\ state = "CREATED" /\ pc = "none"
  /\ platform \in {"unix", "win32"}
  /\ runtime = "LEGACY" /\ session = FALSE
  /\ scripts = {} /\ want = {}
  /\ proc = [p \in Process |-> "off"] /\ handle = [p \in Process |-> "none"]
  /\ gw = "off" /\ todo = {} /\ alive = {} /\ extra = "unset"
  /\ ran = << >> /\ status = "OK" /\ syncrc = "OK"

(* fmu_create: parse modelDescription.xml and, for the legacy runtime, the *)
(* stack.  Session parameters exist for the legacy runtime only.           *)
fmu_create(rt, ses, S, W) ==
  /\ pc = "none"
  /\ ses => rt = "LEGACY"
  /\ W \subseteq IF rt = "SIMER" THEN {"simer"}
                 ELSE IF ses THEN Models \cup {"simbus", "transport"} ELSE {}
  /\ pc' = "created" /\ state' = "CREATED"
  /\ runtime' = rt /\ session' = ses /\ scripts' = S /\ want' = W
  /\ UNCHANGED <<platform, proc, handle, gw, todo, alive, extra, ran, status, syncrc>>

(* fmu_init: fmigateway_session_start up to the startup command.           *)
SessionStart(rc) ==
  /\ pc = "created"
  /\ RunCmd("startup", rc)
  /\ IF rc = 0 THEN pc' = "start" /\ UNCHANGED status
               ELSE pc' = "api" /\ status' = "Error"
  /\ UNCHANGED <<state, config, proc, handle, gw, todo, alive, extra, syncrc>>

(* fmigateway_start_models: the SimBus, the transport and the models.  One *)
(* that cannot be started leaves a zeroed handle; that is only logged.     *)
fmigateway_start_models(F) == Start(want, F)

(* fmigateway_run_simer: a SIMER that cannot be started leaves no handle.  *)
fmigateway_run_simer(F) == Start(want \ F, {})

(* The switch of fmigateway_session_start.  No-ops on Unix.                *)
StartProcesses(F) ==
  /\ pc = "start"
  /\ F \subseteq IF CreateMayFail /\ platform = "win32" THEN want ELSE {}
  /\ pc' = "setup"
  /\ IF platform = "win32"
     THEN IF runtime = "SIMER" THEN fmigateway_run_simer(F) ELSE fmigateway_start_models(F)
     ELSE UNCHANGED <<proc, handle>>
  /\ UNCHANGED <<state, config, gw, todo, alive, extra, ran, status, syncrc>>

(* fmu_init: model_gw_setup and, when it succeeds, the indexes.            *)
GatewaySetup(rc) ==
  /\ pc = "setup"
  /\ pc' = "api"
  /\ gw' = model_gw_setup(rc)
  /\ IF rc = 0 THEN state' = "INITIALIZED" /\ UNCHANGED status
               ELSE status' = "Error" /\ UNCHANGED state
  /\ UNCHANGED <<config, proc, handle, todo, alive, extra, ran, syncrc>>

(* fmu_step: INITIALIZED becomes RUNNING; the result of model_gw_sync is   *)
(* never returned.  Nothing checks that fmu_init succeeded, and an         *)
(* importer may step an instance whose fmu_init failed: importer.c does.   *)
fmu_step(rc) ==
  /\ pc = "api"
  /\ state' = IF state = "INITIALIZED" THEN "RUNNING" ELSE state
  /\ gw' = model_gw_sync
  /\ syncrc' = rc
  /\ status' = "OK"
  /\ UNCHANGED <<pc, config, proc, handle, todo, alive, extra, ran>>
-----------------------------------------------------------------------------
(***************************************************************************)
(* fmu_destroy: fmigateway_session_end, then the release of the instance.  *)
(***************************************************************************)

(* Fault: the guard of session_end is missing.                             *)
SessionEndNoGuard ==
  /\ pc \in {"created", "api"}
  /\ gw' = model_gw_exit
  /\ pc' = "shutdown"
  /\ UNCHANGED <<state, config, proc, handle, todo, alive, extra, ran, status, syncrc>>

(* The guard of session_end and the choice of the runtime's shutdown.      *)
SessionEnd ==
  /\ pc \in {"created", "api"}
  /\ \/ /\ Before("INITIALIZED")
        /\ Teardown
        /\ pc' = "destroy" /\ UNCHANGED <<gw, todo>>
     \/ /\ ~Before("INITIALIZED") /\ runtime = "SIMER"
        /\ gw' = model_gw_exit
        /\ pc' = IF platform = "win32" THEN "stop_simer" ELSE "shutdown"
        /\ UNCHANGED <<ran, todo>>
     \/ /\ ~Before("INITIALIZED") /\ runtime = "LEGACY" /\ ~session
        /\ gw' = model_gw_exit
        /\ pc' = "destroy" /\ UNCHANGED <<ran, todo>>
     \/ /\ ~Before("INITIALIZED") /\ runtime = "LEGACY" /\ session /\ platform = "unix"
        /\ gw' = model_gw_exit
        /\ pc' = "shutdown" /\ UNCHANGED <<ran, todo>>
     \/ /\ ~Before("INITIALIZED") /\ runtime = "LEGACY" /\ session /\ platform = "win32"
        /\ IF want \cap Models = {}
           THEN pc' = "gw_exit" /\ UNCHANGED <<gw, todo>>
           ELSE /\ pc' = "signal"
                /\ todo' = want \cap Models
                /\ gw' = IF Before("RUNNING") THEN model_gw_sync ELSE gw
        /\ UNCHANGED ran
  /\ UNCHANGED <<state, config, proc, handle, alive, extra, status, syncrc>>

(* Fault: models that did not step yet are not signalled.                  *)
SignalModelRunning(m) ==
  /\ pc = "signal" /\ m \in todo
  /\ IF Before("RUNNING") THEN UNCHANGED proc ELSE GracefullyTerminate(m)
  /\ todo' = todo \ {m}
  /\ UNCHANGED <<state, pc, config, handle, gw, alive, extra, ran, status, syncrc>>

(* _shutdown_models: CTRL_BREAK to each model in turn.                     *)
SignalModel(m) ==
  /\ pc = "signal" /\ m \in todo
  /\ GracefullyTerminate(m)
  /\ todo' = todo \ {m}
  /\ UNCHANGED <<state, pc, config, handle, gw, alive, extra, ran, status, syncrc>>

(* _shutdown_models: then look at each model; one that is not alive takes  *)
(* the extra step away.                                                    *)
ModelsSignalled ==
  /\ pc = "signal" /\ todo = {}
  /\ pc' = "check" /\ todo' = want \cap Models
  /\ extra' = "pending" /\ alive' = {}
  /\ UNCHANGED <<state, config, proc, handle, gw, ran, status, syncrc>>

CheckModel(m) ==
  /\ pc = "check" /\ m \in todo
  /\ todo' = todo \ {m}
  /\ alive' = IF CheckAlive(m) THEN alive \cup {m} ELSE alive
  /\ extra' = IF CheckAlive(m) THEN extra ELSE "dropped"
  /\ UNCHANGED <<state, pc, config, proc, handle, gw, ran, status, syncrc>>

(* _sync_extra_step, if every model was alive.                             *)
ExtraStep ==
  /\ pc = "check" /\ todo = {}
  /\ pc' = "gw_exit"
  /\ IF extra = "pending" THEN gw' = model_gw_sync /\ extra' = "made"
                          ELSE UNCHANGED <<gw, extra>>
  /\ UNCHANGED <<state, config, proc, handle, todo, alive, ran, status, syncrc>>

(* Fault: the loop that follows visits every process.                      *)
GatewayExitAll ==
  /\ pc = "gw_exit"
  /\ gw' = IF Before("INITIALIZED") THEN gw ELSE model_gw_exit
  /\ pc' = "confirm" /\ todo' = want
  /\ UNCHANGED <<state, config, proc, handle, alive, extra, ran, status, syncrc>>

(* fmigateway_shutdown_models: model_gw_exit, guarded by the state.        *)
GatewayExit ==
  /\ pc = "gw_exit"
  /\ gw' = IF Before("INITIALIZED") THEN gw ELSE model_gw_exit
  /\ pc' = "confirm" /\ todo' = want \cap Models
  /\ UNCHANGED <<state, config, proc, handle, alive, extra, ran, status, syncrc>>

(* Fault: a model still active is waited for again.                        *)
ConfirmModelAgain(m) ==
  /\ pc = "confirm" /\ m \in todo
  /\ \E ok \in BOOLEAN :
       /\ CheckShutdown(m, ok)
       /\ todo' = IF ok THEN todo \ {m} ELSE todo
  /\ UNCHANGED <<state, pc, config, proc, gw, alive, extra, ran, status, syncrc>>

(* fmigateway_shutdown_models: wait for each model; a model that is still  *)
(* active is reported and left alone.                                      *)
ConfirmModel(m) ==
  /\ pc = "confirm" /\ m \in todo
  /\ \E ok \in BOOLEAN : CheckShutdown(m, ok)
  /\ todo' = todo \ {m}
  /\ UNCHANGED <<state, pc, config, proc, gw, alive, extra, ran, status, syncrc>>

(* Fault: the SimBus is given up after the wait, like the models.          *)
ConfirmSimbusOnly ==
  /\ pc = "confirm" /\ todo = {}
  /\ IF "simbus" \in want THEN \E ok \in BOOLEAN : CheckShutdown("simbus", ok)
                          ELSE UNCHANGED handle
  /\ pc' = "transport"
  /\ UNCHANGED <<state, config, proc, gw, todo, alive, extra, ran, status, syncrc>>

(* fmigateway_shutdown_models: the SimBus should have exited by itself ... *)
ConfirmSimbus ==
  /\ pc = "confirm" /\ todo = {}
  /\ IF "simbus" \in want
     THEN \E ok \in BOOLEAN :
            /\ CheckShutdown("simbus", ok)
            /\ pc' = IF ok THEN "transport" ELSE "kill_simbus"
     ELSE pc' = "transport" /\ UNCHANGED handle
  /\ UNCHANGED <<state, config, proc, gw, todo, alive, extra, ran, status, syncrc>>

(* ... otherwise it is terminated.                                         *)
KillSimbus ==
  /\ pc = "kill_simbus"
  /\ GracefullyTerminate("simbus")
  /\ pc' = "transport"
  /\ UNCHANGED <<state, config, handle, gw, todo, alive, extra, ran, status, syncrc>>

(* fmigateway_shutdown_models: the transport goes last.                    *)
StopTransport ==
  /\ pc = "transport"
  /\ IF "transport" \in want THEN GracefullyTerminate("transport") ELSE UNCHANGED proc
  /\ pc' = "shutdown"
  /\ UNCHANGED <<state, config, handle, gw, todo, alive, extra, ran, status, syncrc>>

(* fmigateway_stop_simer up to the wait: CTRL_BREAK, which may not get     *)
(* through, or TerminateProcess if the console cannot be attached.         *)
SignalSimer ==
  /\ pc = "stop_simer"
  /\ \/ /\ handle["simer"] = "none"
        /\ pc' = "shutdown" /\ UNCHANGED <<proc, handle>>
     \/ /\ handle["simer"] = "open" /\ proc["simer"] = "exited"
        /\ handle' = [handle EXCEPT !["simer"] = "none"]
        /\ pc' = "shutdown" /\ UNCHANGED proc
     \/ /\ StillActive("simer")
        /\ \/ proc' = [proc EXCEPT !["simer"] = "signalled"]
           \/ AttachMayFail /\ proc' = [proc EXCEPT !["simer"] = "exited"]
           \/ AttachMayFail /\ UNCHANGED proc
        /\ pc' = "wait_simer" /\ UNCHANGED handle
  /\ UNCHANGED <<state, config, gw, todo, alive, extra, ran, status, syncrc>>

(* fmigateway_stop_simer: exit within ten seconds or TerminateProcess; the *)
(* handle is closed in both cases.                                         *)
WaitSimer ==
  /\ pc = "wait_simer"
  /\ proc' = [proc EXCEPT !["simer"] = "exited"]
  /\ handle' = [handle EXCEPT !["simer"] = "none"]
  /\ pc' = "shutdown"
  /\ UNCHANGED <<state, config, gw, todo, alive, extra, ran, status, syncrc>>

(* Fault: the teardown runs before the shutdown command.                   *)
ShutdownCmdLate(rc) ==
  /\ pc = "shutdown"
  /\ rc = 0
  /\ ran' = ran \o (IF "teardown" \in scripts THEN <<"teardown">> ELSE << >>)
                \o (IF "shutdown" \in scripts THEN <<"shutdown">> ELSE << >>)
  /\ pc' = "destroy"
  /\ UNCHANGED <<state, config, proc, handle, gw, todo, alive, extra, status, syncrc>>

(* session_end: the shutdown command; a failure ends session_end.          *)
ShutdownCmd(rc) ==
  /\ pc = "shutdown"
  /\ RunCmd("shutdown", rc)
  /\ pc' = IF rc = 0 THEN "teardown" ELSE "destroy"
  /\ UNCHANGED <<state, config, proc, handle, gw, todo, alive, extra, status, syncrc>>

TeardownCmd ==
  /\ pc = "teardown"
  /\ Teardown
  /\ pc' = "destroy"
  /\ UNCHANGED <<state, config, proc, handle, gw, todo, alive, extra, status, syncrc>>

(* fmu_destroy: TERMINATED; the session is freed, open handles with it.    *)
fmu_destroy ==
  /\ pc = "destroy"
  /\ pc' = "done" /\ state' = "TERMINATED"
  /\ handle' = [p \in Process |-> IF handle[p] = "open" THEN "leaked" ELSE "none"]
  /\ UNCHANGED <<config, proc, gw, todo, alive, extra, ran, status, syncrc>>

(* The importer holds no instance any more.                                *)
Done == pc = "done" /\ UNCHANGED vars

InitSteps ==
  \/ \E rc \in {0, 1} : SessionStart(rc)
  \/ \E F \in SUBSET Process : StartProcesses(F)
  \/ \E rc \in {0, 1} : GatewaySetup(rc)

(* session_end after the importer's call, and the release.                 *)
EndSteps ==
  \/ \E m \in Models : SignalModel(m)
  \/ ModelsSignalled
  \/ \E m \in Models : CheckModel(m)
  \/ ExtraStep
  \/ GatewayExit
  \/ \E m \in Models : ConfirmModel(m)
  \/ ConfirmSimbus
  \/ KillSimbus
  \/ StopTransport
  \/ SignalSimer
  \/ WaitSimer
  \/ \E rc \in {0, 1} : ShutdownCmd(rc)
  \/ TeardownCmd
  \/ fmu_destroy

Next ==
  \/ \E rt \in {"LEGACY", "SIMER"}, ses \in BOOLEAN,
       S \in SUBSET {"startup", "shutdown", "teardown"}, W \in SUBSET Process :
       fmu_create(rt, ses, S, W)
  \/ InitSteps
  \/ \E rc \in {"OK", "BEHIND", "ERROR"} : fmu_step(rc)
  \/ SessionEnd
  \/ EndSteps
  \/ \E p \in Process : ProcessExit(p)
  \/ Done

Spec == Init /\ [][Next]_vars

(* The importer frees what it created; a started session_end runs on (its  *)
(* waits are bounded, commands and model_gw_sync return); a process that   *)
(* got CTRL_BREAK exits some time.                                         *)
Fairness ==
  /\ WF_vars(SessionEnd)
  /\ WF_vars(EndSteps)
  /\ \A p \in Process : WF_vars(proc[p] = "signalled" /\ ProcessExit(p))

FairSpec == Spec /\ Fairness
-----------------------------------------------------------------------------
(***************************************************************************)
(* Properties.                                                             *)
(***************************************************************************)

(* The variables have the shape their C declarations give them; the loops  *)
(* over w_models visit nothing but the models of the session.              *)
TypeOK ==
  /\ state \in DOMAIN StateNo
  /\ pc \in {"none", "created", "api", "start", "setup", "signal", "check", "gw_exit",
            "confirm", "kill_simbus", "transport", "stop_simer", "wait_simer",
            "shutdown", "teardown", "destroy", "done"}
  /\ platform \in {"unix", "win32"}
  /\ runtime \in {"LEGACY", "SIMER"}
  /\ session \in BOOLEAN
  /\ scripts \in SUBSET {"startup", "shutdown", "teardown"}
  /\ want \in SUBSET Process
  /\ proc \in [Process -> {"off", "running", "signalled", "exited"}]
  /\ handle \in [Process -> {"none", "open", "zero", "leaked"}]
  /\ gw \in {"off", "connected", "unconnected", "exited", "misused"}
  /\ todo \in SUBSET (want \cap Models)
  /\ alive \in SUBSET (want \cap Models)
  /\ extra \in {"unset", "pending", "dropped", "made"}
  /\ ran \in Seq({"startup", "shutdown", "teardown"})
  /\ status \in {"OK", "Error"}
  /\ syncrc \in {"OK", "BEHIND", "ERROR"}

(* On every path through fmu_init and session_end, with any steps between, *)
(* model_gw_exit is only called on a gateway that model_gw_setup           *)
(* connected, at most once, and nothing is synchronised after it; a        *)
(* connected gateway is exited before fmu_destroy frees it.  A gateway     *)
(* that was never connected is synchronised in the steps of an importer    *)
(* that goes on after fmu_init failed, and by nothing else: session_end    *)
(* makes none of its own steps on it (see StepStatusHonest).               *)
GatewayProtocol ==
  /\ gw # "misused"
  /\ gw = "unconnected" => state \in {"CREATED", "TERMINATED"}
  /\ pc = "done" => gw # "connected"

(* The transport is told to stop last: the gateway has left the SimBus by  *)
(* then and no SimBus or model is running without being told to stop, so   *)
(* none of them loses its transport in the middle of a step.               *)
(* (Where AttachMayFail is FALSE.)                                         *)
TransportLast ==
  proc["transport"] = "signalled" =>
    /\ gw = "exited"
    /\ \A p \in Models \cup {"simbus"} : proc[p] # "running"

(* fmu_destroy of a session that was initialised leaves no process behind  *)
(* that was not told to stop, however the processes' own exits interleave  *)
(* with the shutdown.  (Where AttachMayFail is FALSE.)                     *)
NoneLeftRunning ==
  pc = "done" /\ gw = "exited" => \A p \in Process : proc[p] # "running"

(* The scripts run at most once and in the order startup, shutdown,        *)
(* teardown; the shutdown command runs only when the gateway has left.     *)
ScriptOrder ==
  LET no == [startup |-> 1, shutdown |-> 2, teardown |-> 3]
  IN /\ \A i, j \in DOMAIN ran : i < j => no[ran[i]] < no[ran[j]]
     /\ \A i \in DOMAIN ran : ran[i] = "shutdown" => gw = "exited"

(* An initialised session that the importer frees is shut down: every wait *)
(* of session_end ends, the instance is released, and all its processes    *)
(* exit.  (Where AttachMayFail is FALSE.)                                  *)
SessionShutsDown ==
  pc = "api" /\ ~Before("INITIALIZED")
    ~> pc = "done" /\ \A p \in Process : proc[p] \in {"off", "exited"}

(***************************************************************************)
(* What comments and docs say, and the code does not do.                   *)
(***************************************************************************)

(* session_end "shuts down the additional models" (session.c): no process  *)
(* is left running, without being told to stop, when the instance is gone. *)
EndShutsDownModels ==
  pc = "done" => \A p \in Process : proc[p] # "running"

(* fmu_step "executes one step of the gateway model and signals are        *)
(* exchanged", and its return of 0 means "The FMU step was performed       *)
(* correctly" (fmigateway.c): not that the synchronisation failed, nor     *)
(* that it was made on a gateway model_gw_setup never connected.           *)
StepStatusHonest ==
  pc = "api" /\ status = "OK" => syncrc # "ERROR" /\ gw # "unconnected"
=============================================================================
