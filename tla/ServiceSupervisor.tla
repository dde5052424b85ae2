-------------------------- MODULE ServiceSupervisor --------------------------
(***************************************************************************)
(* The desktop monitor's management of the registered service processes    *)
(* (app/server-monitor/src/service_supervisor.rs) and the thread that runs *)
(* it (background_monitor.rs).                                             *)
(*                                                                         *)
(* The supervisor sits behind one mutex, so a reconcile of a service and   *)
(* an operator's command are single steps; between them processes start,   *)
(* become ready, turn sick and die on their own, and the monitor itself    *)
(* may be quit and started again while the services keep running.  The     *)
(* mode to establish and the hold come from ModeCommit and are inputs      *)
(* here.  Whether the restart backoff has elapsed is an input as well.     *)
(* The commands of the window run one at a time on the main thread.        *)
(***************************************************************************)
EXTENDS Naturals, FiniteSets

CONSTANTS
  Service,           \* registered services with a process
  EnabledIn,         \* per service: the modes that enable it
  AcquisitionMode,   \* modes that can be applied
  MaxStartFailures,  \* MAX_CONSECUTIVE_START_FAILURES
  Origin,            \* origins the monitor can be pointed at
  MaxQuits           \* bound: restarts of the monitor

StartupMode == {"normal", "manual", "disabled"}

ASSUME SupervisorAssumption ==
  /\ EnabledIn \in [Service -> SUBSET AcquisitionMode]
  /\ MaxStartFailures \in Nat \ {0} /\ MaxQuits \in Nat

VARIABLES
  proc,       \* per service: the process that owns its port
  runtime,    \* per service: ServiceRuntime
  startup,    \* per service: startup mode in memory
  persisted,  \* per service: service-startup-modes.json
  mode,       \* acquisition_mode
  holding,    \* mode_transition_hold
  autoStarts, \* history: automatic launches that reached the spawn, since the
              \* last reset
  stopped,    \* history: an operator has stopped the service
  quits,
  origin,     \* BackgroundMonitorState.origin
  refresh,    \* refresh_requested
  shown,      \* origin of the published snapshot
  polling,    \* origin the worker is polling
  held,       \* origin of the snapshot the worker has cloned
  configuring, \* step of configure_background_monitor
  worker      \* step of the monitor worker's loop

services == <<proc, runtime, startup, persisted, mode, holding, autoStarts, stopped, quits>>
monitorLoop == <<origin, refresh, shown, polling, held, configuring, worker>>
supervisorVars == <<proc, runtime, startup, persisted, mode, holding, autoStarts, stopped,
                    quits, origin, refresh, shown, polling, held, configuring, worker>>

\* child: no handle, a handle to a live process, a handle to an ended one.
NoRuntime == [child |-> "none", known |-> FALSE, desired |-> FALSE, failures |-> 0,
              faulted |-> FALSE, observed |-> FALSE]

SupervisorInit ==
  /\ proc = [s \in Service |-> "none"]
  /\ runtime = [s \in Service |-> NoRuntime]
  /\ startup \in [Service -> StartupMode]
  /\ persisted = startup
  /\ mode \in AcquisitionMode
  /\ holding = FALSE
  /\ autoStarts = [s \in Service |-> 0]
  /\ stopped = [s \in Service |-> FALSE]
  /\ quits = 0
  /\ origin \in Origin /\ shown = origin /\ polling = origin /\ held = origin
  /\ refresh = TRUE
  /\ configuring = "idle"
  /\ worker = "clear"

Enabled(s) == mode \in EnabledIn[s]
ProbeOk(s) == proc[s] = "ready"
\* listener_pid: a process that listens on the service's port.
Listening(s) == proc[s] \in {"ready", "sick"}
Observed(s) == runtime[s].child # "none" \/ runtime[s].known \/ runtime[s].observed
                 \/ ProbeOk(s)

\* Exits are counted and never become a fault.
FailedNeverFaults(r) ==
  [r EXCEPT !.failures = IF @ < MaxStartFailures THEN @ + 1 ELSE @]

\* record_start_failure.
Failed(r) ==
  [r EXCEPT !.failures = IF @ < MaxStartFailures THEN @ + 1 ELSE @,
            !.faulted = r.failures + 1 >= MaxStartFailures]

Cleared(r) == [r EXCEPT !.failures = 0, !.faulted = FALSE]

-----------------------------------------------------------------------------
(* start_service and stop_service.                                           *)

\* A launch is spawned, its spawn fails, or it ends before the spawn: without
\* an executable, a log directory or a log file start_service returns and
\* counts no failure.
LaunchOutcome == {"spawned", "failed", "unprepared"}

\* A launch over a process p that is still starting ends in the loss of one of
\* the two: the port belongs to the winner.
Launch(s, r, p, outcome) ==
  \/ /\ outcome = "spawned"
     /\ \E child \in IF p = "none" THEN {"own"} ELSE {"own", "ended"} :
          runtime' = [runtime EXCEPT ![s] = [r EXCEPT !.child = child, !.known = TRUE,
                                                      !.desired = TRUE]]
     /\ proc' = [proc EXCEPT ![s] = IF p = "none" THEN "starting" ELSE p]
  \/ /\ outcome # "spawned"
     /\ runtime' = [runtime EXCEPT ![s] = IF outcome = "failed" THEN Failed(r) ELSE r]
     /\ proc' = [proc EXCEPT ![s] = p]

\* start_service for a service whose record is r and whose process is p.
StartService(s, r, p, outcome) ==
  IF holding \/ ~Enabled(s) \/ startup'[s] = "disabled"
  THEN runtime' = [runtime EXCEPT ![s] = r] /\ proc' = [proc EXCEPT ![s] = p]
  ELSE IF p = "ready"
  THEN /\ runtime' = [runtime EXCEPT ![s] = [r EXCEPT !.known = TRUE, !.desired = TRUE,
                                                      !.observed = TRUE]]
       /\ proc' = [proc EXCEPT ![s] = p]
  ELSE Launch(s, r, p, outcome)

Forgotten(r) == [r EXCEPT !.child = "none", !.known = FALSE, !.desired = FALSE,
                          !.observed = FALSE]

\* The process tree of the known or listening pid is terminated; when that
\* fails, as it does for a pid that is gone, a process lives on although its
\* handle is dropped.
HasPid(s) == runtime[s].known \/ Listening(s)

Killed(s, killed) == IF killed /\ HasPid(s) THEN "none" ELSE proc[s]

StopService(s, killed) ==
  /\ proc' = [proc EXCEPT ![s] = Killed(s, killed)]
  /\ runtime' = [runtime EXCEPT ![s] = Forgotten(@)]

-----------------------------------------------------------------------------
(* reconcile_service.                                                        *)

AfterExit(s) ==
  IF runtime[s].child = "ended"
  THEN Failed([runtime[s] EXCEPT !.child = "none", !.known = FALSE])
  ELSE [runtime[s] EXCEPT !.known = @ \/ runtime[s].child = "own"]

\* The mode does not enable the service: it is stopped where observed.
ReconcileDisabled(s) ==
  /\ ~Enabled(s)
  /\ \E killed \in BOOLEAN :
       IF Observed(s) THEN StopService(s, killed)
       ELSE /\ runtime' = [runtime EXCEPT ![s].desired = FALSE, ![s].observed = FALSE]
            /\ UNCHANGED proc
  /\ UNCHANGED <<startup, persisted, mode, holding, autoStarts, stopped, quits, monitorLoop>>

ReconcileHealthy(s) ==
  /\ Enabled(s) /\ ProbeOk(s)
  /\ runtime' = [runtime EXCEPT ![s] =
       [Cleared(AfterExit(s)) EXCEPT !.observed = TRUE, !.known = TRUE,
                                     !.desired = @ \/ startup[s] = "normal"]]
  /\ autoStarts' = [autoStarts EXCEPT ![s] = 0]
  /\ UNCHANGED <<proc, startup, persisted, mode, holding, stopped, quits, monitorLoop>>

\* The process is there and does not answer its health check.
ReconcileUnready(s) ==
  /\ Enabled(s) /\ ~ProbeOk(s)
  /\ AfterExit(s).child # "none" \/ Listening(s)
  /\ runtime' = [runtime EXCEPT ![s] = [AfterExit(s) EXCEPT !.known = TRUE]]
  /\ UNCHANGED <<proc, startup, persisted, mode, holding, autoStarts, stopped, quits,
                 monitorLoop>>

\* Nothing is left of the process: count the exit, and start it again in
\* startup mode normal unless held, faulted or backing off.
ReconcileGone(s) ==
  LET r == AfterExit(s)
      gone == [r EXCEPT !.observed = FALSE, !.known = FALSE,
                        !.desired = @ /\ startup[s] # "manual"]
      counted == IF r.observed THEN Failed(gone) ELSE gone
  IN /\ Enabled(s) /\ ~ProbeOk(s) /\ r.child = "none" /\ ~Listening(s)
     /\ UNCHANGED <<startup, persisted, mode, holding, stopped, quits, monitorLoop>>
     /\ \E elapsed \in BOOLEAN, outcome \in LaunchOutcome :
          IF ~holding /\ ~r.faulted /\ startup[s] = "normal" /\ elapsed
          THEN /\ StartService(s, counted, proc[s], outcome)
               /\ autoStarts' = [autoStarts EXCEPT ![s] =
                                   IF outcome = "unprepared" THEN @ ELSE @ + 1]
          ELSE /\ runtime' = [runtime EXCEPT ![s] = counted]
               /\ UNCHANGED <<proc, autoStarts>>

-----------------------------------------------------------------------------
(* Commands: action, set_startup_mode, apply_acquisition_mode.               *)

\* "start" clears the startup fault first.
CommandStart(s) ==
  /\ UNCHANGED <<startup, persisted, mode, holding, quits, monitorLoop>>
  /\ \E outcome \in LaunchOutcome : StartService(s, Cleared(runtime[s]), proc[s], outcome)
  /\ autoStarts' = [autoStarts EXCEPT ![s] = 0]
  /\ stopped' = [stopped EXCEPT ![s] = FALSE]

\* "stop" turns startup mode normal into manual and saves it before it
\* terminates the process; when the save fails nothing is terminated.
CommandStop(s) ==
  /\ \/ /\ startup' = [startup EXCEPT ![s] = IF @ = "normal" THEN "manual" ELSE @]
        /\ persisted' = IF startup[s] = "normal" THEN startup' ELSE persisted
        /\ \E killed \in BOOLEAN : StopService(s, killed)
        /\ stopped' = [stopped EXCEPT ![s] = TRUE]
     \/ /\ startup[s] = "normal" /\ startup' = [startup EXCEPT ![s] = "manual"]
        /\ UNCHANGED <<persisted, proc, runtime, stopped>>
  /\ UNCHANGED <<mode, holding, autoStarts, quits, monitorLoop>>

\* "restart" clears the fault, stops, waits 250 ms and starts again, unless
\* disabled.  A process that cannot be terminated ends the command; one whose
\* pid is not known is not stopped, and the service is launched over it.
CommandRestart(s) ==
  /\ startup[s] # "disabled"
  /\ UNCHANGED <<startup, persisted, mode, holding, quits, monitorLoop>>
  /\ LET r == Cleared(Forgotten(runtime[s])) IN
     \/ /\ HasPid(s)
        /\ runtime' = [runtime EXCEPT ![s] = r] /\ UNCHANGED proc
     \/ \E outcome \in LaunchOutcome : StartService(s, r, Killed(s, TRUE), outcome)
  /\ autoStarts' = [autoStarts EXCEPT ![s] = 0]
  /\ stopped' = [stopped EXCEPT ![s] = FALSE]

\* The new startup mode is kept in memory even when it cannot be saved; then
\* nothing else happens.
CommandStartupMode(s, m) ==
  LET r == [IF m = "normal" THEN Cleared(runtime[s]) ELSE runtime[s] EXCEPT
              !.desired = m = "normal" \/ (m = "manual" /\ runtime[s].observed)]
  IN /\ startup' = [startup EXCEPT ![s] = m]
     /\ autoStarts' = [autoStarts EXCEPT ![s] = IF m = "normal" THEN 0 ELSE @]
     /\ stopped' = [stopped EXCEPT ![s] = @ /\ m # "normal"]
     /\ \/ persisted' = persisted /\ runtime' = [runtime EXCEPT ![s] = r] /\ UNCHANGED proc
        \/ /\ persisted' = startup'
           /\ \E killed \in BOOLEAN, outcome \in LaunchOutcome :
                CASE m = "disabled" -> /\ proc' = [proc EXCEPT ![s] = Killed(s, killed)]
                                       /\ runtime' = [runtime EXCEPT ![s] = Forgotten(r)]
                  [] m = "normal" /\ Enabled(s) /\ ~Listening(s) ->
                       StartService(s, r, proc[s], outcome)
                  [] OTHER -> runtime' = [runtime EXCEPT ![s] = r] /\ UNCHANGED proc
     /\ UNCHANGED <<mode, holding, quits, monitorLoop>>

\* apply_acquisition_mode stops every observed service; one failure keeps the
\* old mode and leaves the others stopped.
ApplyMode(m) ==
  /\ m # mode
  /\ \E stubborn \in SUBSET {s \in Service : Observed(s) /\ HasPid(s)} :
       /\ proc' = [s \in Service |->
                     IF Observed(s) THEN Killed(s, s \notin stubborn) ELSE proc[s]]
       /\ LET r == [s \in Service |->
                      IF Observed(s) THEN Forgotten(runtime[s]) ELSE runtime[s]]
          IN IF stubborn = {}
             THEN /\ mode' = m
                  /\ runtime' = [s \in Service |-> Cleared(r[s])]
             ELSE runtime' = r /\ UNCHANGED mode
  /\ autoStarts' = [s \in Service |-> IF mode' = m \/ Observed(s) THEN 0 ELSE autoStarts[s]]
  /\ UNCHANGED <<startup, persisted, holding, stopped, quits, monitorLoop>>

HoldChanges ==
  /\ holding' = ~holding
  /\ UNCHANGED <<proc, runtime, startup, persisted, mode, autoStarts, stopped, quits, monitorLoop>>

\* The display of a new monitor process: an origin from its environment, and
\* a first poll at once.
DisplayStarts ==
  /\ origin' \in Origin /\ shown' = origin'
  /\ refresh' = TRUE
  /\ configuring' = "idle" /\ worker' = "clear"
  /\ UNCHANGED <<polling, held>>

\* The saved startup modes are not read.
MonitorRestartsDefault ==
  /\ quits < MaxQuits
  /\ quits' = quits + 1
  /\ startup' = [s \in Service |-> "normal"]
  /\ runtime' = [s \in Service |-> [NoRuntime EXCEPT !.desired = Enabled(s)]]
  /\ autoStarts' = [s \in Service |-> 0]
  /\ DisplayStarts
  /\ UNCHANGED <<proc, persisted, mode, holding, stopped>>

\* The monitor ends and loads again: try_load takes the saved startup modes.
MonitorRestarts ==
  /\ quits < MaxQuits
  /\ quits' = quits + 1
  /\ startup' = persisted
  /\ runtime' = [s \in Service |->
       [NoRuntime EXCEPT !.desired = persisted[s] = "normal" /\ Enabled(s)]]
  /\ autoStarts' = [s \in Service |-> 0]
  /\ DisplayStarts
  /\ UNCHANGED <<proc, persisted, mode, holding, stopped>>

\* A process becomes ready, loses its readiness or ends.
ProcessChanges(s) ==
  /\ proc[s] # "none"
  /\ \/ proc' = [proc EXCEPT ![s] = IF @ = "ready" THEN "sick" ELSE "ready"]
        /\ UNCHANGED runtime
     \/ /\ proc' = [proc EXCEPT ![s] = "none"]
        /\ runtime' = [runtime EXCEPT ![s].child = IF @ = "own" THEN "ended" ELSE @]
  /\ UNCHANGED <<startup, persisted, mode, holding, autoStarts, stopped, quits, monitorLoop>>

-----------------------------------------------------------------------------
(* background_monitor.rs: start_worker and the commands of the window.       *)

WorkerClear ==
  /\ worker = "clear"
  /\ refresh' = FALSE
  /\ worker' = "origin"
  /\ UNCHANGED <<services, origin, shown, polling, held, configuring>>

WorkerOrigin ==
  /\ worker = "origin"
  /\ polling' = origin
  /\ worker' = "clone"
  /\ UNCHANGED <<services, origin, refresh, shown, held, configuring>>

\* After the reconcile the snapshot is cloned, completed with the services and
\* published: a reset that comes in between is overwritten.
WorkerClone ==
  /\ worker = "clone"
  /\ held' = shown
  /\ worker' = "republish"
  /\ UNCHANGED <<services, origin, refresh, shown, polling, configuring>>

WorkerRepublish ==
  /\ worker = "republish"
  /\ shown' = held
  /\ worker' = "poll"
  /\ UNCHANGED <<services, origin, refresh, polling, held, configuring>>

\* poll_snapshot has answered; publish_snapshot replaces what is shown.
WorkerPublish ==
  /\ worker = "poll"
  /\ shown' = polling
  /\ worker' = "sleep"
  /\ UNCHANGED <<services, origin, refresh, polling, held, configuring>>

\* The sleep ends with a request to refresh, which it takes, or with its
\* interval.
WorkerWake ==
  /\ worker = "sleep"
  /\ worker' = "clear"
  /\ refresh' \in {FALSE, refresh}
  /\ UNCHANGED <<services, origin, shown, polling, held, configuring>>

\* configure_background_monitor takes three locks in a row: the origin, the
\* request to refresh, and the snapshot, which is reset.
ConfigureOrigin(o) ==
  /\ configuring = "idle"
  /\ origin' = o
  /\ configuring' = "request"
  /\ UNCHANGED <<services, refresh, shown, polling, held, worker>>

ConfigureRequest ==
  /\ configuring = "request"
  /\ refresh' = TRUE
  /\ configuring' = "reset"
  /\ UNCHANGED <<services, origin, shown, polling, held, worker>>

ConfigureReset ==
  /\ configuring = "reset"
  /\ shown' = origin
  /\ configuring' = "idle"
  /\ UNCHANGED <<services, origin, refresh, polling, held, worker>>

\* refresh_background_monitor, and the last step of a command on a service.
RequestRefresh ==
  /\ refresh' = TRUE
  /\ UNCHANGED <<services, origin, shown, polling, held, configuring, worker>>

ServicesNext ==
  \/ \E s \in Service :
       \/ ReconcileDisabled(s) \/ ReconcileHealthy(s) \/ ReconcileUnready(s)
       \/ ReconcileGone(s) \/ CommandStart(s) \/ CommandStop(s) \/ CommandRestart(s)
       \/ ProcessChanges(s) \/ \E m \in StartupMode : CommandStartupMode(s, m)
  \/ \E m \in AcquisitionMode : ApplyMode(m)
  \/ HoldChanges \/ MonitorRestarts

MonitorNext ==
  \/ WorkerClear \/ WorkerOrigin \/ WorkerClone \/ WorkerRepublish
  \/ WorkerPublish \/ WorkerWake
  \/ \E o \in Origin : ConfigureOrigin(o)
  \/ ConfigureRequest \/ ConfigureReset \/ RequestRefresh

SupervisorNext == ServicesNext \/ MonitorNext

SupervisorSpec == SupervisorInit /\ [][SupervisorNext]_supervisorVars

-----------------------------------------------------------------------------
(* Properties.                                                               *)

\* The supervisor's records have their forms; a live handle belongs to a
\* process.
SupervisorTypeOK ==
  /\ proc \in [Service -> {"none", "starting", "ready", "sick"}]
  /\ startup \in [Service -> StartupMode] /\ persisted \in [Service -> StartupMode]
  /\ \A s \in Service : /\ runtime[s].failures \in 0 .. MaxStartFailures
                        /\ runtime[s].child = "own" => proc[s] # "none"
  /\ mode \in AcquisitionMode

\* A service that keeps dying is launched automatically at most
\* MAX_CONSECUTIVE_START_FAILURES times before it was ready once, an operator
\* intervened or a change of mode stopped it (record_start_failure and
\* startup_faulted), however its exits are noticed: by the handle, by the
\* probe or by a failed spawn.  A start that ends before the spawn launches
\* nothing and is not counted: start_service repeats those without a bound.
RestartsAreBounded == \A s \in Service : autoStarts[s] <= MaxStartFailures

\* A service is launched behind the operator's back: stopped by a command
\* and not started, restarted or set to normal since.
LaunchedWhileStopped(s) ==
  stopped[s] /\ stopped'[s] /\ runtime[s].child = "none" /\ runtime'[s].child # "none"

\* A stop whose startup mode reached the disk sticks: the supervisor does not
\* launch the service again, also when the monitor is quit and started again
\* (stop_service saves manual before it terminates the process).
SavedStopSticks ==
  [][\A s \in Service : persisted[s] # "normal" => ~LaunchedWhileStopped(s)]_supervisorVars

\* "An explicit stop changes a normal service to manual so it stays stopped"
\* (the monitor's README).  A stop that fails to save leaves manual in memory
\* only; the repeated stop then saves nothing and succeeds.
StopSticks ==
  [][\A s \in Service : ~LaunchedWhileStopped(s)]_supervisorVars

\* A change of the monitored origin is never lost: when the worker sleeps
\* and still shows another origin, a refresh is pending or the window's command
\* is about to ask for one.  The worker clears the request before it reads the
\* origin, and the command sets the origin before it makes the request; also a
\* republished snapshot of the old origin does not outlast the poll.
NoLostRefresh ==
  worker = "sleep" /\ shown # origin => refresh \/ configuring = "request"

\* The supervisor relaunches a failing service a bounded number of times, and its
\* display does not get stuck on an origin that was replaced.
SupervisorSafety ==
  /\ SupervisorTypeOK
  /\ RestartsAreBounded
  /\ NoLostRefresh
=============================================================================
