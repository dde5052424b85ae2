----------------------------- MODULE MCPlatform -----------------------------
(* The components around the production API that share no state with each    *)
(* other: the calibration ledger, the desktop monitor's service supervisor   *)
(* and its display, the capture supervisor and the trigger gateway.  Every   *)
(* behaviour is one of the component named by "subject", so that one run     *)
(* explores each of them.                                                    *)
EXTENDS CalibrationOperations, ServiceSupervisor, CaptureSupervisor, TriggerGateway, TLC

CONSTANT Subjects

VARIABLE subject

platformVars == <<subject, calVars, supervisorVars, capVars, triggerVars>>

Ask(id, kind, parent, apply) == [id |-> id, kind |-> kind, parent |-> parent, apply |-> apply]

\* Two applies, a rollback with and without a parent, and an id used twice.
CalibrationRequests ==
  {Ask("a", "apply-all", None, None), Ask("b", "apply-all", None, None),
   Ask("r", "rollback", "a", "a"), Ask("r", "rollback", None, "a"),
   Ask("a", "rollback", "b", "b")}

\* The camera worker runs while material is acquired.
CameraWhileOnline == [s \in Service |-> {"online"}]

Deployment(acquisition, provider, control, packaged) ==
  [mode |-> acquisition, provider |-> provider, control |-> control, packaged |-> packaged,
   enabled |-> TRUE, autostart |-> TRUE]

Deployments ==
  {Deployment("online", "headless-cpp", TRUE, FALSE), Deployment("online", "headless-cpp", TRUE, TRUE),
   Deployment("simulation", "external-api", TRUE, FALSE), Deployment("online", "simulated", TRUE, FALSE),
   Deployment("offline", "bkv", TRUE, FALSE), Deployment("online", "bkv", TRUE, FALSE),
   Deployment("online", "headless-cpp", FALSE, FALSE), Deployment("online", "simulated", FALSE, FALSE),
   Deployment("online", "external-api", FALSE, TRUE)}

Sent(transport, event, nonce) == [transport |-> transport, event |-> event, nonce |-> nonce]

TriggerMessages ==
  {Sent("tcp", "steel-in", "n1"), Sent("http", "steel-out", "n2"), Sent("http", "manual-in", "n3")}

\* No definition tells two threads apart.
ThreadSymmetry == Permutations(CalThread) \cup Permutations(TcpConnection)

PlatformInit ==
  /\ subject \in Subjects
  /\ CalInit /\ SupervisorInit /\ CapInit /\ TriggerInit
  /\ subject # "capture" => capCfg = (CHOOSE c \in CapConfig : TRUE) /\ external = "down"
  /\ subject # "trigger" => gwMode = "api"
  /\ subject # "services" => mode = CHOOSE m \in AcquisitionMode : TRUE
  /\ subject # "services" => startup = [s \in Service |-> "normal"]
  /\ subject # "monitor" => origin = CHOOSE o \in Origin : TRUE

PlatformNext ==
  /\ UNCHANGED subject
  /\ \/ /\ subject = "calibration" /\ CalNext
        /\ UNCHANGED <<supervisorVars, capVars, triggerVars>>
     \/ /\ subject = "services" /\ ServicesNext
        /\ UNCHANGED <<calVars, capVars, triggerVars>>
     \/ /\ subject = "monitor" /\ MonitorNext
        /\ UNCHANGED <<calVars, capVars, triggerVars>>
     \/ /\ subject = "capture" /\ CapNext
        /\ UNCHANGED <<calVars, supervisorVars, triggerVars>>
     \/ /\ subject = "trigger" /\ TriggerNext
        /\ UNCHANGED <<calVars, supervisorVars, capVars>>

PlatformSpec == PlatformInit /\ [][PlatformNext]_platformVars

=============================================================================
