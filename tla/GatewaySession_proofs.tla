------------------------ MODULE GatewaySession_proofs ------------------------
(***************************************************************************)
(* Proofs about GatewaySession, for any set of models and whether or not   *)
(* consoles and processes can fail.                                        *)
(***************************************************************************)
EXTENDS GatewaySession, TLAPS

(* The places of fmu_init and session_end before model_gw_exit was called  *)
(* with a connected gateway, and those after.                              *)
Unset == {"none", "created", "start", "setup"}
Leaving == {"signal", "check", "gw_exit"}
Left == {"confirm", "kill_simbus", "transport", "stop_simer", "wait_simer",
         "shutdown", "teardown"}

Started == {"INITIALIZED", "RUNNING"}

(***************************************************************************)
(* The inductive invariant behind GatewayProtocol: the place in the code   *)
(* and the state variable determine the gateway.  GatewayProtocol alone is *)
(* not inductive: it does not say that the state variable the guards read  *)
(* agrees with the gateway, nor that the places before model_gw_exit are   *)
(* reached with a connected gateway only.                                  *)
(***************************************************************************)
GwInv ==
  /\ pc \in Unset \cup {"api"} \cup Leaving \cup Left \cup {"destroy", "done"}
  /\ pc \in Unset => gw = "off" /\ state = "CREATED"
  /\ pc = "api" => \/ gw \in {"off", "unconnected"} /\ state = "CREATED"
                   \/ gw = "connected" /\ state \in Started
  /\ pc \in Leaving => gw = "connected" /\ state \in Started
  /\ pc \in Left => gw = "exited"
  /\ pc \in {"destroy", "done"} =>
       gw = "exited" \/ (gw \in {"off", "unconnected"} /\ state \in {"CREATED", "TERMINATED"})

(* The comparisons of the state enum that the code makes.                  *)
LEMMA BeforeFacts ==
  /\ state = "CREATED" => Before("INITIALIZED") /\ Before("RUNNING")
  /\ state = "INITIALIZED" => ~Before("INITIALIZED") /\ Before("RUNNING")
  /\ state = "RUNNING" => ~Before("INITIALIZED") /\ ~Before("RUNNING")
  BY DEF Before, StateNo

LEMMA GwInit == Init => GwInv
  BY DEF Init, GwInv, Unset, Leaving, Left

LEMMA GwStep == GwInv /\ [Next]_vars => GwInv'
<1> USE DEF Unset, Leaving, Left, Started
<1> SUFFICES ASSUME GwInv, [Next]_vars PROVE GwInv'
  OBVIOUS
<1>1. CASE UNCHANGED vars
  BY <1>1 DEF GwInv, vars
<1>2. ASSUME NEW rt \in {"LEGACY", "SIMER"}, NEW ses \in BOOLEAN,
             NEW S \in SUBSET {"startup", "shutdown", "teardown"}, NEW W \in SUBSET Process,
             fmu_create(rt, ses, S, W)
      PROVE  GwInv'
  BY <1>2 DEF GwInv, fmu_create
<1>3. ASSUME NEW rc \in {0, 1}, SessionStart(rc) PROVE GwInv'
  BY <1>3 DEF GwInv, SessionStart
<1>4. ASSUME NEW F \in SUBSET Process, StartProcesses(F) PROVE GwInv'
  BY <1>4 DEF GwInv, StartProcesses
<1>5. ASSUME NEW rc \in {0, 1}, GatewaySetup(rc) PROVE GwInv'
  BY <1>5 DEF GwInv, GatewaySetup, model_gw_setup
<1>6. ASSUME NEW rc \in {"OK", "BEHIND", "ERROR"}, fmu_step(rc) PROVE GwInv'
  BY <1>6, BeforeFacts DEF GwInv, fmu_step, model_gw_sync
<1>7. CASE SessionEnd
  BY <1>7, BeforeFacts DEF GwInv, SessionEnd, model_gw_sync, model_gw_exit
<1>8. ASSUME NEW m \in Models, SignalModel(m) PROVE GwInv'
  BY <1>8 DEF GwInv, SignalModel
<1>9. CASE ModelsSignalled
  BY <1>9 DEF GwInv, ModelsSignalled
<1>10. ASSUME NEW m \in Models, CheckModel(m) PROVE GwInv'
  BY <1>10 DEF GwInv, CheckModel
<1>11. CASE ExtraStep
  BY <1>11 DEF GwInv, ExtraStep, model_gw_sync
<1>12. CASE GatewayExit
  BY <1>12, BeforeFacts DEF GwInv, GatewayExit, model_gw_exit
<1>13. ASSUME NEW m \in Models, ConfirmModel(m) PROVE GwInv'
  BY <1>13 DEF GwInv, ConfirmModel
<1>14. CASE ConfirmSimbus
  BY <1>14 DEF GwInv, ConfirmSimbus
<1>15. CASE KillSimbus \/ StopTransport
  BY <1>15 DEF GwInv, KillSimbus, StopTransport
<1>16. CASE SignalSimer \/ WaitSimer
  BY <1>16 DEF GwInv, SignalSimer, WaitSimer
<1>17. ASSUME NEW rc \in {0, 1}, ShutdownCmd(rc) PROVE GwInv'
  BY <1>17 DEF GwInv, ShutdownCmd
<1>18. CASE TeardownCmd \/ fmu_destroy
  BY <1>18 DEF GwInv, TeardownCmd, fmu_destroy
<1>19. ASSUME NEW p \in Process, ProcessExit(p) PROVE GwInv'
  BY <1>19 DEF GwInv, ProcessExit
<1>20. CASE Done
  BY <1>20 DEF GwInv, Done, vars
<1> QED
  BY <1>1, <1>2, <1>3, <1>4, <1>5, <1>6, <1>7, <1>8, <1>9, <1>10, <1>11, <1>12, <1>13,
     <1>14, <1>15, <1>16, <1>17, <1>18, <1>19, <1>20 DEF Next, InitSteps, EndSteps

(* GatewayProtocol holds of every session, steps after a failed fmu_init   *)
(* included: the guard of session_end and the state the code keeps are     *)
(* enough to call model_gw_exit on a connected gateway only, to            *)
(* synchronise no gateway after that, and never to free a connected one.   *)
THEOREM ProtocolSafe == Spec => []GatewayProtocol
<1>1. GwInv => GatewayProtocol
  BY DEF GwInv, GatewayProtocol, Unset, Leaving, Left
<1> QED
  BY <1>1, GwInit, GwStep, PTL DEF Spec
-----------------------------------------------------------------------------
(***************************************************************************)
(* Type correctness.                                                       *)
(***************************************************************************)

(* todo and alive are filled by session_end only, so fmu_create may choose *)
(* any processes without leaving a stale loop behind.                      *)
IdleInv == pc \in Unset => todo = {} /\ alive = {}

LEMMA TypeInit == Init => TypeOK /\ IdleInv
<1>1. "CREATED" \in DOMAIN StateNo
  BY DEF StateNo
<1> SUFFICES ASSUME Init PROVE TypeOK /\ IdleInv
  OBVIOUS
<1>2. /\ proc \in [Process -> {"off", "running", "signalled", "exited"}]
      /\ handle \in [Process -> {"none", "open", "zero", "leaked"}]
  BY DEF Init
<1>3. session \in BOOLEAN
  BY Zenon DEF Init
<1>4. ran \in Seq({"startup", "shutdown", "teardown"})
  BY DEF Init
<1>5. /\ scripts \in SUBSET {"startup", "shutdown", "teardown"}
      /\ want \in SUBSET Process
      /\ todo \in SUBSET (want \cap Models)
      /\ alive \in SUBSET (want \cap Models)
  BY DEF Init
<1> QED
  BY <1>1, <1>2, <1>3, <1>4, <1>5 DEF Init, TypeOK, IdleInv

LEMMA TypeStep == TypeOK /\ IdleInv /\ [Next]_vars => (TypeOK /\ IdleInv)'
<1> USE DEF Unset
<1> SUFFICES ASSUME TypeOK, IdleInv, [Next]_vars PROVE (TypeOK /\ IdleInv)'
  OBVIOUS
<1> DEFINE Scripts == {"startup", "shutdown", "teardown"}
<1>0. /\ \A s \in Scripts : Append(ran, s) \in Seq(Scripts)
      /\ {"CREATED", "INITIALIZED", "RUNNING", "TERMINATED"} \subseteq DOMAIN StateNo
  BY DEF TypeOK, StateNo
<1>1. CASE UNCHANGED vars
  BY <1>1 DEF TypeOK, IdleInv, vars, config
<1>2. ASSUME NEW rt \in {"LEGACY", "SIMER"}, NEW ses \in BOOLEAN,
             NEW S \in SUBSET {"startup", "shutdown", "teardown"}, NEW W \in SUBSET Process,
             fmu_create(rt, ses, S, W)
      PROVE (TypeOK /\ IdleInv)'
  BY <1>2, <1>0 DEF TypeOK, IdleInv, config, fmu_create
<1>3. ASSUME NEW rc \in {0, 1}, SessionStart(rc) PROVE (TypeOK /\ IdleInv)'
  BY <1>3, <1>0 DEF TypeOK, IdleInv, config, SessionStart, RunCmd
<1>4. ASSUME NEW F \in SUBSET Process, StartProcesses(F) PROVE (TypeOK /\ IdleInv)'
  BY <1>4, <1>0 DEF TypeOK, IdleInv, config, StartProcesses,
     fmigateway_start_models, fmigateway_run_simer, Start
<1>5. ASSUME NEW rc \in {0, 1}, GatewaySetup(rc) PROVE (TypeOK /\ IdleInv)'
  BY <1>5, <1>0 DEF TypeOK, IdleInv, config, GatewaySetup, model_gw_setup
<1>6. ASSUME NEW rc \in {"OK", "BEHIND", "ERROR"}, fmu_step(rc) PROVE (TypeOK /\ IdleInv)'
  BY <1>6, <1>0 DEF TypeOK, IdleInv, config, fmu_step, model_gw_sync
<1>7. CASE SessionEnd
  BY <1>7, <1>0 DEF TypeOK, IdleInv, config, SessionEnd, Teardown, model_gw_sync, model_gw_exit
<1>8. ASSUME NEW m \in Models, SignalModel(m) PROVE (TypeOK /\ IdleInv)'
  BY <1>8, <1>0 DEF TypeOK, IdleInv, config, SignalModel, GracefullyTerminate, StillActive
<1>9. CASE ModelsSignalled
  BY <1>9, <1>0 DEF TypeOK, IdleInv, config, ModelsSignalled
<1>10. ASSUME NEW m \in Models, CheckModel(m) PROVE (TypeOK /\ IdleInv)'
  BY <1>10, <1>0 DEF TypeOK, IdleInv, config, CheckModel, CheckAlive, StillActive
<1>11. CASE ExtraStep
  BY <1>11, <1>0 DEF TypeOK, IdleInv, config, ExtraStep, model_gw_sync
<1>12. CASE GatewayExit
  BY <1>12, <1>0 DEF TypeOK, IdleInv, config, GatewayExit, model_gw_exit
<1>13. ASSUME NEW m \in Models, ConfirmModel(m) PROVE (TypeOK /\ IdleInv)'
  BY <1>13, <1>0 DEF TypeOK, IdleInv, config, ConfirmModel, CheckShutdown, StillActive
<1>14. CASE ConfirmSimbus
  BY <1>14, <1>0 DEF TypeOK, IdleInv, config, ConfirmSimbus, CheckShutdown, StillActive
<1>15. CASE KillSimbus
  BY <1>15, <1>0 DEF TypeOK, IdleInv, config, KillSimbus, GracefullyTerminate, StillActive
<1>16. CASE StopTransport
  BY <1>16, <1>0 DEF TypeOK, IdleInv, config, StopTransport, GracefullyTerminate, StillActive
<1>17. CASE SignalSimer
  BY <1>17, <1>0 DEF TypeOK, IdleInv, config, SignalSimer, StillActive
<1>18. CASE WaitSimer
  BY <1>18, <1>0 DEF TypeOK, IdleInv, config, WaitSimer
<1>19. ASSUME NEW rc \in {0, 1}, ShutdownCmd(rc) PROVE (TypeOK /\ IdleInv)'
  BY <1>19, <1>0 DEF TypeOK, IdleInv, config, ShutdownCmd, RunCmd
<1>20. CASE TeardownCmd
  BY <1>20, <1>0 DEF TypeOK, IdleInv, config, TeardownCmd, Teardown
<1>21. CASE fmu_destroy
  BY <1>21, <1>0 DEF TypeOK, IdleInv, config, fmu_destroy
<1>22. ASSUME NEW p \in Process, ProcessExit(p) PROVE (TypeOK /\ IdleInv)'
  BY <1>22, <1>0 DEF TypeOK, IdleInv, config, ProcessExit
<1>23. CASE Done
  BY <1>1, <1>23 DEF Done
<1> QED
  BY <1>1, <1>2, <1>3, <1>4, <1>5, <1>6, <1>7, <1>8, <1>9, <1>10, <1>11, <1>12,
     <1>13, <1>14, <1>15, <1>16, <1>17, <1>18, <1>19, <1>20, <1>21, <1>22, <1>23
  DEF Next, InitSteps, EndSteps

(* Every variable keeps its type, whatever the importer, the processes and *)
(* the operating system do.                                                *)
THEOREM TypeCorrect == Spec => []TypeOK
  BY TypeInit, TypeStep, PTL DEF Spec
-----------------------------------------------------------------------------
(***************************************************************************)
(* The processes of the session.                                           *)
(***************************************************************************)
Active(p) == proc[p] \in {"running", "signalled"}

(* Who owns what: until the instance is released, a process that runs has  *)
(* an open handle, is one the session describes and belongs to the runtime *)
(* whose shutdown is executed.                                             *)
OwnInv ==
  /\ pc # "done" => \A p \in Process : Active(p) => handle[p] = "open"
  /\ \A p \in Process : handle[p] = "open" => proc[p] # "off"
  /\ pc \in {"none", "created", "start"}
       => \A p \in Process : proc[p] = "off" /\ handle[p] = "none"
  /\ \A p \in Process : proc[p] # "off" => platform = "win32" /\ p \in want
  /\ runtime = "SIMER" => want \subseteq {"simer"} /\ ~session
  /\ runtime = "LEGACY" => "simer" \notin want
  /\ session \/ runtime = "SIMER" \/ want = {}
  /\ pc \in Leaving \cup {"confirm", "kill_simbus", "transport"} => runtime = "LEGACY"
  /\ pc \in {"stop_simer", "wait_simer"} => runtime = "SIMER"
  /\ pc # "done" => handle["simer"] # "zero"
  /\ pc = "wait_simer" => proc["simer"] # "off"

(* Which processes were told to stop, or had exited, at which place.       *)
StopInv ==
  /\ pc = "signal" => \A m \in Models : m \notin todo => proc[m] # "running"
  /\ pc \in {"check", "gw_exit", "confirm", "kill_simbus", "transport"}
       => \A m \in Models : proc[m] # "running"
  /\ pc = "transport" => proc["simbus"] # "running"
  /\ pc \in {"shutdown", "teardown"} \/ (pc \in {"destroy", "done"} /\ gw = "exited")
       => \A p \in Process : proc[p] # "running"
  /\ proc["transport"] = "signalled"
       => pc \in {"shutdown", "teardown", "destroy", "done"} /\ gw = "exited"

LEMMA Names ==
  /\ {"simbus", "transport", "simer"} \cup Models = Process
  /\ \A m \in Models : m # "simbus" /\ m # "transport" /\ m # "simer"
  BY GatewayAssumption DEF Process

LEMMA OwnInit == Init => OwnInv
  BY Names DEF Init, OwnInv, Active, Leaving

LEMMA OwnStep == TypeOK /\ OwnInv /\ [Next]_vars => OwnInv'
<1> USE DEF Leaving
<1> SUFFICES ASSUME TypeOK, OwnInv, [Next]_vars PROVE OwnInv'
  OBVIOUS
<1>1. CASE UNCHANGED vars
  BY <1>1 DEF TypeOK, OwnInv, Active, vars, config
<1>2. ASSUME NEW rt \in {"LEGACY", "SIMER"}, NEW ses \in BOOLEAN,
             NEW S \in SUBSET {"startup", "shutdown", "teardown"}, NEW W \in SUBSET Process,
             fmu_create(rt, ses, S, W)
      PROVE OwnInv'
  BY <1>2, Names DEF TypeOK, OwnInv, Active, config, fmu_create
<1>3. ASSUME NEW rc \in {0, 1}, SessionStart(rc) PROVE OwnInv'
  BY <1>3, Names DEF TypeOK, OwnInv, Active, config, SessionStart
<1>4. ASSUME NEW F \in SUBSET Process, StartProcesses(F) PROVE OwnInv'
  BY <1>4, Names DEF TypeOK, OwnInv, Active, config, StartProcesses,
     fmigateway_start_models, fmigateway_run_simer, Start
<1>5. ASSUME NEW rc \in {0, 1}, GatewaySetup(rc) PROVE OwnInv'
  BY <1>5, Names DEF TypeOK, OwnInv, Active, config, GatewaySetup
<1>6. ASSUME NEW rc \in {"OK", "BEHIND", "ERROR"}, fmu_step(rc) PROVE OwnInv'
  BY <1>6, Names DEF TypeOK, OwnInv, Active, config, fmu_step
<1>7. CASE SessionEnd
  BY <1>7, Names DEF TypeOK, OwnInv, Active, config, SessionEnd
<1>8. ASSUME NEW m \in Models, SignalModel(m) PROVE OwnInv'
  BY <1>8, Names DEF TypeOK, OwnInv, Active, config, SignalModel, GracefullyTerminate,
     StillActive
<1>9. CASE ModelsSignalled
  BY <1>9, Names DEF TypeOK, OwnInv, Active, config, ModelsSignalled
<1>10. ASSUME NEW m \in Models, CheckModel(m) PROVE OwnInv'
  BY <1>10, Names DEF TypeOK, OwnInv, Active, config, CheckModel
<1>11. CASE ExtraStep
  BY <1>11, Names DEF TypeOK, OwnInv, Active, config, ExtraStep
<1>12. CASE GatewayExit
  BY <1>12, Names DEF TypeOK, OwnInv, Active, config, GatewayExit
<1>13. ASSUME NEW m \in Models, ConfirmModel(m) PROVE OwnInv'
  BY <1>13, Names DEF TypeOK, OwnInv, Active, config, ConfirmModel, CheckShutdown,
     StillActive
<1>14. CASE ConfirmSimbus
  BY <1>14, Names DEF TypeOK, OwnInv, Active, config, ConfirmSimbus, CheckShutdown,
     StillActive
<1>15. CASE KillSimbus
  BY <1>15, Names DEF TypeOK, OwnInv, Active, config, KillSimbus, GracefullyTerminate,
     StillActive
<1>16. CASE StopTransport
  BY <1>16, Names DEF TypeOK, OwnInv, Active, config, StopTransport,
     GracefullyTerminate, StillActive
<1>17. CASE SignalSimer
  BY <1>17, Names DEF TypeOK, OwnInv, Active, config, SignalSimer, StillActive
<1>18. CASE WaitSimer
  BY <1>18, Names DEF TypeOK, OwnInv, Active, config, WaitSimer
<1>19. ASSUME NEW rc \in {0, 1}, ShutdownCmd(rc) PROVE OwnInv'
  BY <1>19, Names DEF TypeOK, OwnInv, Active, config, ShutdownCmd
<1>20. CASE TeardownCmd
  BY <1>20, Names DEF TypeOK, OwnInv, Active, config, TeardownCmd
<1>21. CASE fmu_destroy
  BY <1>21, Names DEF TypeOK, OwnInv, Active, config, fmu_destroy
<1>22. ASSUME NEW p \in Process, ProcessExit(p) PROVE OwnInv'
  BY <1>22, Names DEF TypeOK, OwnInv, Active, config, ProcessExit
<1>23. CASE Done
  BY <1>1, <1>23 DEF Done
<1> QED
  BY <1>1, <1>2, <1>3, <1>4, <1>5, <1>6, <1>7, <1>8, <1>9, <1>10, <1>11, <1>12,
     <1>13, <1>14, <1>15, <1>16, <1>17, <1>18, <1>19, <1>20, <1>21, <1>22, <1>23
  DEF Next, InitSteps, EndSteps

LEMMA StopInit == Init => StopInv
  BY Names DEF Init, StopInv

LEMMA StopStep ==
  ASSUME AttachMayFail = FALSE
  PROVE  TypeOK /\ GwInv /\ OwnInv /\ StopInv /\ [Next]_vars => StopInv'
<1> USE DEF Unset, Leaving, Left
<1> SUFFICES ASSUME TypeOK, GwInv, OwnInv, StopInv, [Next]_vars PROVE StopInv'
  OBVIOUS
<1>1. CASE UNCHANGED vars
  BY <1>1 DEF TypeOK, GwInv, OwnInv, StopInv, Active, vars, config
<1>2. ASSUME NEW rt \in {"LEGACY", "SIMER"}, NEW ses \in BOOLEAN,
             NEW S \in SUBSET {"startup", "shutdown", "teardown"}, NEW W \in SUBSET Process,
             fmu_create(rt, ses, S, W)
      PROVE StopInv'
  BY <1>2, Names DEF TypeOK, GwInv, OwnInv, StopInv, Active, config, fmu_create
<1>3. ASSUME NEW rc \in {0, 1}, SessionStart(rc) PROVE StopInv'
  BY <1>3, Names DEF TypeOK, GwInv, OwnInv, StopInv, Active, config, SessionStart
<1>4. ASSUME NEW F \in SUBSET Process, StartProcesses(F) PROVE StopInv'
  BY <1>4, Names DEF TypeOK, GwInv, OwnInv, StopInv, Active, config, StartProcesses,
     fmigateway_start_models, fmigateway_run_simer, Start
<1>5. ASSUME NEW rc \in {0, 1}, GatewaySetup(rc) PROVE StopInv'
  BY <1>5, Names DEF TypeOK, GwInv, OwnInv, StopInv, Active, config, GatewaySetup,
     model_gw_setup
<1>6. ASSUME NEW rc \in {"OK", "BEHIND", "ERROR"}, fmu_step(rc) PROVE StopInv'
  BY <1>6, Names, BeforeFacts DEF TypeOK, GwInv, OwnInv, StopInv, Active, config,
     fmu_step, model_gw_sync
<1>7. CASE SessionEnd
  BY <1>7, Names, BeforeFacts DEF TypeOK, GwInv, OwnInv, StopInv, Active, config,
     SessionEnd, model_gw_sync, model_gw_exit
<1>8. ASSUME NEW m \in Models, SignalModel(m) PROVE StopInv'
  BY <1>8, Names DEF TypeOK, GwInv, OwnInv, StopInv, Active, config, SignalModel,
     GracefullyTerminate, StillActive
<1>9. CASE ModelsSignalled
  BY <1>9, Names DEF TypeOK, GwInv, OwnInv, StopInv, Active, config, ModelsSignalled
<1>10. ASSUME NEW m \in Models, CheckModel(m) PROVE StopInv'
  BY <1>10, Names DEF TypeOK, GwInv, OwnInv, StopInv, Active, config, CheckModel
<1>11. CASE ExtraStep
  BY <1>11, Names DEF TypeOK, GwInv, OwnInv, StopInv, Active, config, ExtraStep,
     model_gw_sync
<1>12. CASE GatewayExit
  BY <1>12, Names, BeforeFacts DEF TypeOK, GwInv, OwnInv, StopInv, Active, config,
     GatewayExit, model_gw_exit
<1>13. ASSUME NEW m \in Models, ConfirmModel(m) PROVE StopInv'
  BY <1>13, Names DEF TypeOK, GwInv, OwnInv, StopInv, Active, config, ConfirmModel,
     CheckShutdown, StillActive
<1>14. CASE ConfirmSimbus
  BY <1>14, Names DEF TypeOK, GwInv, OwnInv, StopInv, Active, config, ConfirmSimbus,
     CheckShutdown, StillActive
<1>15. CASE KillSimbus
  BY <1>15, Names DEF TypeOK, GwInv, OwnInv, StopInv, Active, config, KillSimbus,
     GracefullyTerminate, StillActive
<1>16. CASE StopTransport
  BY <1>16, Names DEF TypeOK, GwInv, OwnInv, StopInv, Active, config, StopTransport,
     GracefullyTerminate, StillActive
<1>17. CASE SignalSimer
  BY <1>17, Names DEF TypeOK, GwInv, OwnInv, StopInv, Active, config, SignalSimer,
     StillActive
<1>18. CASE WaitSimer
  BY <1>18, Names DEF TypeOK, GwInv, OwnInv, StopInv, Active, config, WaitSimer
<1>19. ASSUME NEW rc \in {0, 1}, ShutdownCmd(rc) PROVE StopInv'
  BY <1>19, Names DEF TypeOK, GwInv, OwnInv, StopInv, Active, config, ShutdownCmd
<1>20. CASE TeardownCmd
  BY <1>20, Names DEF TypeOK, GwInv, OwnInv, StopInv, Active, config, TeardownCmd
<1>21. CASE fmu_destroy
  BY <1>21, Names DEF TypeOK, GwInv, OwnInv, StopInv, Active, config, fmu_destroy
<1>22. ASSUME NEW p \in Process, ProcessExit(p) PROVE StopInv'
  BY <1>22, Names DEF TypeOK, GwInv, OwnInv, StopInv, Active, config, ProcessExit
<1>23. CASE Done
  BY <1>1, <1>23 DEF Done
<1> QED
  BY <1>1, <1>2, <1>3, <1>4, <1>5, <1>6, <1>7, <1>8, <1>9, <1>10, <1>11, <1>12,
     <1>13, <1>14, <1>15, <1>16, <1>17, <1>18, <1>19, <1>20, <1>21, <1>22, <1>23
  DEF Next, InitSteps, EndSteps

(* Where consoles can be attached, an initialised session that is released *)
(* leaves no process running that was not told to stop, for any number of  *)
(* models and any interleaving of their exits with session_end.            *)
THEOREM ReleaseSafe ==
  ASSUME AttachMayFail = FALSE
  PROVE  Spec => []NoneLeftRunning
<1>1. StopInv => NoneLeftRunning
  BY DEF StopInv, NoneLeftRunning
<1> QED
  BY <1>1, TypeInit, TypeStep, GwInit, GwStep, OwnInit, OwnStep, StopInit, StopStep, PTL
  DEF Spec

(* Under the same assumption the transport is told to stop last.           *)
THEOREM TransportSafe ==
  ASSUME AttachMayFail = FALSE
  PROVE  Spec => []TransportLast
<1>1. StopInv => TransportLast
  BY Names DEF StopInv, TransportLast
<1> QED
  BY <1>1, TypeInit, TypeStep, GwInit, GwStep, OwnInit, OwnStep, StopInit, StopStep, PTL
  DEF Spec
-----------------------------------------------------------------------------
(***************************************************************************)
(* The scripts.                                                            *)
(***************************************************************************)

(* The place of a script in the order, and how far in that order the       *)
(* scripts may have got at a place of the code.                            *)
Rank == [startup |-> 1, shutdown |-> 2, teardown |-> 3]

Reached ==
  IF pc \in {"none", "created"} THEN 0
  ELSE IF pc = "teardown" THEN 2
  ELSE IF pc \in {"destroy", "done"} THEN 3
  ELSE 1

(* The inductive invariant behind ScriptOrder.  The order alone is not     *)
(* inductive: it does not say that a script still to come is not among     *)
(* those that ran.                                                         *)
RanInv ==
  /\ \A i, j \in DOMAIN ran : i < j => Rank[ran[i]] < Rank[ran[j]]
  /\ \A i \in DOMAIN ran : Rank[ran[i]] <= Reached
  /\ \A i \in DOMAIN ran : ran[i] = "shutdown" => gw = "exited"

(* A step that runs no script and does not go back.                        *)
Forward ==
  /\ UNCHANGED ran
  /\ pc # pc' => pc \notin {"teardown", "destroy", "done"} /\ pc' \notin {"none", "created"}
  /\ gw = "exited" => gw' = "exited"

LEMMA RanForward ==
  ASSUME TypeOK, TypeOK', RanInv, Forward
  PROVE  RanInv'
<1>1. Reached \in Nat /\ Reached' \in Nat /\ Reached <= Reached'
  BY DEF Forward, Reached
<1>2. \A i \in DOMAIN ran : Rank[ran[i]] \in Nat
  BY DEF TypeOK, Rank
<1>3. ran' = ran
  BY DEF Forward
<1>4. ASSUME NEW i \in DOMAIN ran PROVE Rank[ran[i]] <= Reached'
  <2>1. Rank[ran[i]] <= Reached
    BY DEF RanInv
  <2>2. Rank[ran[i]] \in Nat
    BY <1>2
  <2> QED
    BY <1>1, <2>1, <2>2
<1> QED
  BY <1>3, <1>4 DEF RanInv, Forward

(* A script that is further in the order than all that ran.                *)
LEMMA RanAppend ==
  ASSUME TypeOK, RanInv, NEW s \in {"startup", "shutdown", "teardown"},
         Reached < Rank[s], ran' = Append(ran, s), Reached' \in Nat, Rank[s] <= Reached',
         gw = "exited" => gw' = "exited", s = "shutdown" => gw' = "exited"
  PROVE  RanInv'
<1>1. /\ Len(ran) \in Nat /\ DOMAIN ran = 1 .. Len(ran)
      /\ DOMAIN ran' = 1 .. Len(ran) + 1
      /\ \A i \in 1 .. Len(ran) : ran'[i] = ran[i]
      /\ ran'[Len(ran) + 1] = s
  BY DEF TypeOK
<1>2. Reached \in Nat /\ Rank[s] \in Nat
  BY DEF Reached, Rank
<1>3. \A i \in DOMAIN ran : Rank[ran[i]] \in Nat
  BY DEF TypeOK, Rank
<1>4. \A i \in DOMAIN ran : Rank[ran[i]] < Rank[s] /\ Rank[ran[i]] <= Reached'
  <2> SUFFICES ASSUME NEW i \in DOMAIN ran
               PROVE  Rank[ran[i]] < Rank[s] /\ Rank[ran[i]] <= Reached'
    OBVIOUS
  <2>1. Rank[ran[i]] <= Reached
    BY DEF RanInv
  <2>2. Rank[ran[i]] \in Nat
    BY <1>3
  <2> QED
    BY <1>2, <2>1, <2>2
<1>5. ASSUME NEW i \in DOMAIN ran', NEW j \in DOMAIN ran', i < j
      PROVE  Rank[ran'[i]] < Rank[ran'[j]]
  <2>1. i \in DOMAIN ran /\ ran'[i] = ran[i]
    BY <1>1, <1>5
  <2>2. CASE j = Len(ran) + 1
    BY <1>1, <1>4, <2>1, <2>2
  <2>3. CASE j # Len(ran) + 1
    <3>1. j \in DOMAIN ran /\ ran'[j] = ran[j]
      BY <1>1, <2>3
    <3> QED
      BY <1>5, <2>1, <3>1 DEF RanInv
  <2> QED
    BY <2>2, <2>3
<1>6. ASSUME NEW i \in DOMAIN ran' PROVE Rank[ran'[i]] <= Reached'
  BY <1>1, <1>4
<1>7. ASSUME NEW i \in DOMAIN ran', ran'[i] = "shutdown" PROVE gw' = "exited"
  BY <1>1, <1>7 DEF RanInv
<1> QED
  BY <1>5, <1>6, <1>7 DEF RanInv

LEMMA RanInit == Init => RanInv
<1> SUFFICES ASSUME Init PROVE RanInv
  OBVIOUS
<1>1. DOMAIN ran = {}
  BY DEF Init
<1> QED
  BY <1>1 DEF RanInv

LEMMA RanStep == TypeOK /\ TypeOK' /\ GwInv /\ RanInv /\ [Next]_vars => RanInv'
<1> USE DEF Unset, Leaving, Left
<1> SUFFICES ASSUME TypeOK, TypeOK', GwInv, RanInv, [Next]_vars PROVE RanInv'
  OBVIOUS
<1>1. CASE UNCHANGED vars
  <2>1. Forward
    BY <1>1 DEF Forward, vars
  <2> QED
    BY <2>1, RanForward
<1>2. ASSUME NEW rt \in {"LEGACY", "SIMER"}, NEW ses \in BOOLEAN,
             NEW S \in SUBSET {"startup", "shutdown", "teardown"}, NEW W \in SUBSET Process,
             fmu_create(rt, ses, S, W)
      PROVE RanInv'
  BY <1>2 DEF fmu_create, RanInv, Reached
<1>3. ASSUME NEW rc \in {0, 1}, SessionStart(rc) PROVE RanInv'
  <2>1. CASE "startup" \in scripts
    <3>1. Reached = 0 /\ Reached' = 1 /\ ran' = Append(ran, "startup") /\ gw' = gw
      BY <1>3, <2>1 DEF SessionStart, RunCmd, Reached
    <3> QED
      BY <3>1, RanAppend DEF Rank
  <2>2. CASE "startup" \notin scripts
    <3>1. Forward
      BY <1>3, <2>2 DEF SessionStart, RunCmd, Forward
    <3> QED
      BY <3>1, RanForward
  <2> QED
    BY <2>1, <2>2
<1>4. CASE SessionEnd
  <2>1. CASE ran' = ran
    <3>1. Forward
      BY <1>4, <2>1 DEF SessionEnd, Forward, GwInv
    <3> QED
      BY <3>1, RanForward
  <2>2. CASE ran' # ran
    <3>1. /\ Reached \in {0, 1} /\ Reached' = 3
          /\ ran' = Append(ran, "teardown") /\ gw' = gw
      BY <1>4, <2>2 DEF SessionEnd, Teardown, Reached
    <3> QED
      BY <3>1, RanAppend DEF Rank
  <2> QED
    BY <2>1, <2>2
<1>5. ASSUME NEW rc \in {0, 1}, ShutdownCmd(rc) PROVE RanInv'
  <2>1. CASE "shutdown" \in scripts
    <3>1. /\ Reached = 1 /\ Reached' \in {2, 3}
          /\ ran' = Append(ran, "shutdown") /\ gw' = gw /\ gw = "exited"
      BY <1>5, <2>1 DEF ShutdownCmd, RunCmd, Reached, GwInv
    <3> QED
      BY <3>1, RanAppend DEF Rank
  <2>2. CASE "shutdown" \notin scripts
    <3>1. Forward
      BY <1>5, <2>2 DEF ShutdownCmd, RunCmd, Forward
    <3> QED
      BY <3>1, RanForward
  <2> QED
    BY <2>1, <2>2
<1>6. CASE TeardownCmd
  <2>1. CASE platform = "win32" /\ "teardown" \in scripts
    <3>1. /\ Reached = 2 /\ Reached' = 3
          /\ ran' = Append(ran, "teardown") /\ gw' = gw
      BY <1>6, <2>1 DEF TeardownCmd, Teardown, Reached
    <3> QED
      BY <3>1, RanAppend DEF Rank
  <2>2. CASE ~(platform = "win32" /\ "teardown" \in scripts)
    <3>1. ran' = ran /\ gw' = gw /\ Reached = 2 /\ Reached' = 3
      BY <1>6, <2>2 DEF TeardownCmd, Teardown, Reached
    <3>2. \A i \in DOMAIN ran : Rank[ran[i]] \in Nat
      BY DEF TypeOK, Rank
    <3> QED
      BY <3>1, <3>2 DEF RanInv
  <2> QED
    BY <2>1, <2>2
<1>7. CASE fmu_destroy
  BY <1>7 DEF fmu_destroy, RanInv, Reached
<1>8. ASSUME NEW rc \in {0, 1}, GatewaySetup(rc) PROVE RanInv'
  <2>1. Forward
    BY <1>8 DEF GatewaySetup, model_gw_setup, GwInv, Forward
  <2> QED
    BY <2>1, RanForward
<1>9. ASSUME NEW rc \in {"OK", "BEHIND", "ERROR"}, fmu_step(rc) PROVE RanInv'
  <2>1. Forward
    BY <1>9, BeforeFacts DEF fmu_step, model_gw_sync, GwInv, Forward
  <2> QED
    BY <2>1, RanForward
<1>10. CASE \/ \E F \in SUBSET Process : StartProcesses(F)
            \/ \E m \in Models : SignalModel(m) \/ CheckModel(m) \/ ConfirmModel(m)
            \/ ModelsSignalled \/ ConfirmSimbus \/ KillSimbus \/ StopTransport
            \/ SignalSimer \/ WaitSimer \/ \E p \in Process : ProcessExit(p)
  <2>1. Forward
    BY <1>10 DEF StartProcesses, SignalModel, CheckModel, ConfirmModel, ModelsSignalled,
       ConfirmSimbus, KillSimbus, StopTransport, SignalSimer, WaitSimer, ProcessExit, Forward
  <2> QED
    BY <2>1, RanForward
<1>11. CASE ExtraStep \/ GatewayExit
  <2>1. Forward
    BY <1>11 DEF ExtraStep, GatewayExit, GwInv, Forward
  <2> QED
    BY <2>1, RanForward
<1>12. CASE Done
  BY <1>1, <1>12 DEF Done
<1> QED
  BY <1>1, <1>2, <1>3, <1>4, <1>5, <1>6, <1>7, <1>8, <1>9, <1>10, <1>11, <1>12
  DEF Next, InitSteps, EndSteps

(* The startup, shutdown and teardown scripts run at most once and in this *)
(* order, the shutdown command only after model_gw_exit, on every path     *)
(* through session_start and session_end, failed ones included.            *)
THEOREM ScriptsSafe == Spec => []ScriptOrder
<1>1. RanInv => ScriptOrder
  BY DEF RanInv, ScriptOrder, Rank
<1> QED
  BY <1>1, TypeInit, TypeStep, GwInit, GwStep, RanInit, RanStep, PTL DEF Spec
=============================================================================
