-------------------------- MODULE CaptureSupervisor --------------------------
(***************************************************************************)
(* CaptureServiceManager of the inspection service (main.rs): the thread   *)
(* that supervises the capture provider and the requests that start, stop  *)
(* and restart it.  supervisor_tick runs in both, and takes the process    *)
(* lock and the lifecycle lock one after the other, so each critical       *)
(* section is a step of its own and two ticks interleave.  A managed child *)
(* is a number; dropping its handle kills it (controlled_process.rs).      *)
(*                                                                         *)
(* Clock comparisons (restart backoff elapsed, readiness timeout, stable   *)
(* run) and the answers of the provider are inputs.                        *)
(***************************************************************************)
EXTENDS Naturals, FiniteSets

CONSTANTS
  CapCaller,       \* threads that serve an administrator's request
  CapLoop,         \* the capture-service-supervisor thread
  CapConfig,       \* the deployments that are explored
  RestartBudget,   \* capture_restart_budget
  ForeignOwner,    \* whether another process may take the capture port
  MaxSpawns        \* bound: children ever spawned

CapThread == CapCaller \cup {CapLoop}
NoChild == 0
Nobody == 0               \* the capture port is closed
Foreign == MaxSpawns + 1  \* another process listens on it

ASSUME CaptureAssumption ==
  /\ CapLoop \notin CapCaller
  /\ CapConfig \subseteq [mode : {"online", "simulation", "offline"}, control : BOOLEAN,
                          provider : {"headless-cpp", "external-api", "simulated", "bkv"},
                          enabled : BOOLEAN, autostart : BOOLEAN, packaged : BOOLEAN]
  /\ RestartBudget \in Nat \ {0} /\ MaxSpawns \in Nat /\ ForeignOwner \in BOOLEAN

VARIABLES
  capCfg,     \* acquisition mode, provider and policy of this process
  life,       \* CaptureLifecycleState
  child,      \* the handle in self.process
  alive,      \* children that run
  endpoint,   \* who listens on the capture port: a child, another process, nobody
  external,   \* an external provider's health
  th,         \* per thread: request, step, the child it has just spawned
  serving,    \* the first tick is over and requests are served
  shut,       \* supervisor_shutdown
  spawns,     \* children spawned so far
  autos,      \* history: launches since the failures were last forgiven
  stopOk,     \* history: a stop was confirmed and no start came since
  simulated,  \* simulated provider: capture mode, line rate and last event's answer
  simAnswer

capState == <<capCfg, life, child, alive, endpoint, external, serving, shut, spawns, autos, stopOk>>
capVars == <<capCfg, life, child, alive, endpoint, external, th, serving, shut, spawns, autos,
             stopOk, simulated, simAnswer>>

Managed == capCfg.provider = "headless-cpp"
Embedded == capCfg.provider \in {"simulated", "bkv"}
Fenced == capCfg.mode = "offline" \/ ~capCfg.control

\* CaptureLifecycleState::with_policy, as CaptureServiceManager::new calls it.
WithPolicy(c) ==
  LET enabled == c.enabled /\ c.control
      embedded == c.provider \in {"simulated", "bkv"}
      auto == enabled /\ c.autostart
  IN [phase |-> IF ~enabled THEN "disabled" ELSE IF embedded THEN "ready"
                ELSE IF auto THEN "starting" ELSE "stopped",
      desired |-> (enabled /\ embedded) \/ auto, pid |-> FALSE, failures |-> 0,
      unhealthy |-> 0, waiting |-> FALSE]

CapInit ==
  /\ capCfg \in CapConfig
  /\ life = WithPolicy(capCfg)
  /\ child = NoChild /\ alive = {} /\ endpoint = Nobody
  /\ external \in IF Managed /\ ~capCfg.packaged THEN {"down"} ELSE {"down", "history", "ready"}
  /\ th = [t \in CapThread |-> [op |-> "idle", pc |-> IF t = CapLoop THEN "tick" ELSE "idle",
                                new |-> NoChild]]
  /\ serving = FALSE /\ shut = FALSE
  /\ spawns = 0 /\ autos = 0 /\ stopOk = FALSE
  /\ simulated = [mode |-> "continuous", rate |-> "default"]
  /\ simAnswer = [phase |-> "idle", running |-> FALSE]

Listens == endpoint # Nobody
CapAt(t, pc) == th[t].pc = pc
CapGo(t, pc) == th' = [th EXCEPT ![t].pc = pc]

\* Where a thread goes on after its tick.
TickDone(t) ==
  IF t = CapLoop THEN CapGo(t, IF shut THEN "ended" ELSE "tick") ELSE CapGo(t, "after")

Terminated(c) == alive' = alive \ {c} /\ endpoint' = IF endpoint = c THEN Nobody ELSE endpoint

\* schedule_restart.  The count is only ever compared with the budget, so the
\* model lets it stand once it has reached it.
Scheduled(l) ==
  LET failed == [l EXCEPT !.pid = FALSE, !.unhealthy = 0,
                          !.failures = IF @ < RestartBudget THEN @ + 1 ELSE @]
  IN CASE ~l.desired -> [failed EXCEPT !.phase = "stopped", !.waiting = FALSE]
       [] l.desired /\ failed.failures >= RestartBudget ->
            [failed EXCEPT !.phase = "degraded", !.waiting = FALSE]
       [] OTHER -> [failed EXCEPT !.phase = "degraded", !.waiting = TRUE]

-----------------------------------------------------------------------------
(* supervisor_tick.                                                          *)

\* The Windows supervisor owns the child, the provider is embedded, or it is
\* reached over HTTP: the tick only reports.
Reported(l) ==
  IF capCfg.packaged
  THEN [l EXCEPT !.desired = TRUE, !.pid = FALSE,
                 !.phase = IF Listens \/ external \in {"ready", "history"} THEN "ready"
                           ELSE "degraded"]
  ELSE IF Embedded THEN [l EXCEPT !.phase = IF l.desired THEN "ready" ELSE "stopped"]
  ELSE [l EXCEPT !.phase =
          CASE ~l.desired \/ external = "history" -> "stopped"
            [] l.desired /\ external = "ready" -> "ready"
            [] l.desired /\ external = "connecting" -> "starting"
            [] OTHER -> "degraded"]

\* Offline mode and management-only: the child is dropped and nothing is
\* wanted any more.
TickFenced(t) ==
  /\ CapAt(t, "tick") /\ ~shut /\ Fenced
  /\ Terminated(child) /\ child' = NoChild
  /\ life' = [life EXCEPT !.phase = IF capCfg.mode = "offline" THEN "offline" ELSE "disabled",
                          !.desired = FALSE, !.pid = FALSE, !.waiting = FALSE]
  /\ TickDone(t)
  /\ serving' = TRUE
  /\ UNCHANGED <<capCfg, external, shut, spawns, autos, stopOk, simulated, simAnswer>>

TickReports(t) ==
  /\ CapAt(t, "tick") /\ ~shut /\ ~Fenced
  /\ capCfg.packaged \/ ~Managed
  /\ life' = Reported(life)
  /\ TickDone(t)
  /\ serving' = TRUE
  /\ UNCHANGED <<capCfg, child, alive, endpoint, external, shut, spawns, autos, stopOk,
                 simulated, simAnswer>>

TickShut(t) ==
  /\ CapAt(t, "tick") /\ shut
  /\ TickDone(t)
  /\ UNCHANGED <<capState, simulated, simAnswer>>

\* try_wait under the process lock; an error of the wait kills the child.
TickReap(t) ==
  /\ CapAt(t, "tick") /\ ~shut /\ ~Fenced /\ Managed /\ ~capCfg.packaged
  /\ \/ child = NoChild /\ CapGo(t, "absent") /\ UNCHANGED <<child, alive, endpoint>>
     \/ /\ child # NoChild /\ child \in alive
        /\ CapGo(t, "probe") /\ UNCHANGED <<child, alive, endpoint>>
     \/ /\ child # NoChild
        /\ child' = NoChild /\ Terminated(child) /\ CapGo(t, "schedule")
  /\ UNCHANGED <<capCfg, life, external, serving, shut, spawns, autos, stopOk, simulated, simAnswer>>

\* The port answers: two reports of restartRequired in a row condemn the
\* child.  It does not: the readiness timeout condemns it.
TickProbe(t) ==
  /\ CapAt(t, "probe")
  /\ IF Listens
     THEN \E restartRequired \in BOOLEAN :
            /\ life' = [life EXCEPT !.unhealthy = IF restartRequired
                          THEN IF @ < 2 THEN @ + 1 ELSE @ ELSE 0]
            /\ CapGo(t, IF life'.unhealthy >= 2 THEN "kill" ELSE "ready")
     ELSE \/ CapGo(t, "kill") /\ UNCHANGED life
          \/ life' = [life EXCEPT !.phase = "starting", !.pid = TRUE] /\ TickDone(t)
  /\ serving' = (serving \/ th'[t].pc = "tick")
  /\ UNCHANGED <<capCfg, child, alive, endpoint, external, shut, spawns, autos, stopOk,
                 simulated, simAnswer>>

TickKill(t) ==
  /\ CapAt(t, "kill")
  /\ child' = NoChild /\ Terminated(child)
  /\ CapGo(t, "schedule")
  /\ UNCHANGED <<capCfg, life, external, serving, shut, spawns, autos, stopOk, simulated, simAnswer>>

TickSchedule(t) ==
  /\ CapAt(t, "schedule")
  /\ life' = Scheduled(life)
  /\ TickDone(t)
  /\ serving' = TRUE
  /\ UNCHANGED <<capCfg, child, alive, endpoint, external, shut, spawns, autos, stopOk,
                 simulated, simAnswer>>

\* The child was seen to listen; a stable run forgives the failures.
TickReady(t) ==
  /\ CapAt(t, "ready")
  /\ \E stable \in BOOLEAN :
       /\ life' = [life EXCEPT !.phase = "ready", !.pid = TRUE, !.waiting = FALSE,
                               !.failures = IF stable THEN 0 ELSE @]
       /\ autos' = IF stable THEN 0 ELSE autos
  /\ TickDone(t)
  /\ serving' = TRUE
  /\ UNCHANGED <<capCfg, child, alive, endpoint, external, shut, spawns, stopOk, simulated, simAnswer>>

\* No child: another process may own the port; otherwise should_spawn.
TickAbsent(t) ==
  /\ CapAt(t, "absent")
  /\ \E elapsed \in BOOLEAN :
       IF Listens
       THEN /\ life' = [life EXCEPT !.phase = "ready", !.pid = FALSE, !.failures = 0,
                                    !.waiting = FALSE]
            /\ autos' = 0 /\ TickDone(t)
       ELSE /\ IF life.desired /\ life.failures < RestartBudget /\ (life.waiting => elapsed)
               THEN CapGo(t, "spawn") ELSE TickDone(t)
            /\ UNCHANGED <<life, autos>>
  /\ serving' = (serving \/ th'[t].pc \in {"tick", "ended"})
  /\ UNCHANGED <<capCfg, child, alive, endpoint, external, shut, spawns, stopOk, simulated, simAnswer>>

\* ManagedChild::spawn, outside the locks.
TickSpawn(t) ==
  /\ CapAt(t, "spawn")
  /\ autos' = autos + 1
  /\ \/ CapGo(t, "schedule") /\ UNCHANGED <<alive, spawns>>
     \/ /\ spawns < MaxSpawns
        /\ spawns' = spawns + 1
        /\ alive' = alive \cup {spawns + 1}
        /\ th' = [th EXCEPT ![t].pc = "install", ![t].new = spawns + 1]
  /\ UNCHANGED <<capCfg, life, child, endpoint, external, serving, shut, stopOk, simulated, simAnswer>>

\* The old handle is overwritten without being dropped.
TickInstallLeaks(t) ==
  /\ CapAt(t, "install")
  /\ child' = th[t].new
  /\ th' = [th EXCEPT ![t].pc = "spawned", ![t].new = NoChild]
  /\ UNCHANGED <<capCfg, life, alive, endpoint, external, serving, shut, spawns, autos, stopOk,
                 simulated, simAnswer>>

\* process.replace(child) drops, and so kills, a child already there.
TickInstall(t) ==
  /\ CapAt(t, "install")
  /\ Terminated(child)
  /\ child' = th[t].new
  /\ th' = [th EXCEPT ![t].pc = "spawned", ![t].new = NoChild]
  /\ UNCHANGED <<capCfg, life, external, serving, shut, spawns, autos, stopOk, simulated, simAnswer>>

TickSpawned(t) ==
  /\ CapAt(t, "spawned")
  /\ life' = [life EXCEPT !.phase = "starting", !.pid = TRUE, !.waiting = FALSE]
  /\ TickDone(t)
  /\ serving' = TRUE
  /\ UNCHANGED <<capCfg, child, alive, endpoint, external, shut, spawns, autos, stopOk,
                 simulated, simAnswer>>

-----------------------------------------------------------------------------
(* start, stop, restart, shutdown and stop_for_mode_transition.              *)

CapAnswer(t) == th' = [th EXCEPT ![t] = [op |-> "idle", pc |-> "idle", new |-> NoChild]]

\* The lifecycle a start asks for, and its next step.
BeginStart(t, op) ==
  /\ life' = [life EXCEPT !.desired = TRUE, !.phase = "starting", !.failures = 0,
                          !.waiting = FALSE]
  /\ autos' = 0 /\ stopOk' = FALSE
  /\ th' = [th EXCEPT ![t].op = op,
                      ![t].pc = IF capCfg.provider = "external-api" THEN "post" ELSE "tick"]

\* start: refused behind a fence, always granted for the BKV provider.
StartRequest(t) ==
  /\ CapAt(t, "idle") /\ t # CapLoop /\ serving /\ ~shut
  /\ IF Fenced
     THEN /\ life' = IF capCfg.mode = "offline"
                     THEN [life EXCEPT !.phase = "offline", !.desired = FALSE] ELSE life
          /\ UNCHANGED <<th, autos, stopOk>>
     ELSE IF capCfg.provider = "bkv" THEN UNCHANGED <<life, th, autos, stopOk>>
     ELSE BeginStart(t, "start")
  /\ UNCHANGED <<capCfg, child, alive, endpoint, external, serving, shut, spawns, simulated, simAnswer>>

\* The stop request of a restart, of a shutdown, of a change of mode or of
\* the administrator.
StopRequest(t, op) ==
  /\ CapAt(t, "idle") /\ t # CapLoop /\ serving /\ ~shut
  /\ ~Fenced /\ capCfg.provider # "bkv"
  /\ capCfg.packaged => capCfg.provider = "external-api"
  /\ op = "transition" => Embedded \/ Listens \/ external # "down"
  /\ life' = [life EXCEPT !.desired = FALSE, !.phase = "stopping", !.waiting = FALSE]
  /\ th' = [th EXCEPT ![t].op = op,
                      ![t].pc = IF capCfg.provider = "external-api" THEN "post"
                                ELSE IF Embedded THEN "tick" ELSE "take"]
  /\ UNCHANGED <<capCfg, child, alive, endpoint, external, serving, shut, spawns, autos, stopOk,
                 simulated, simAnswer>>

\* POST /api/service/start or stop: the provider accepts it, and may still be
\* connecting or flushing when the answer comes; or it refuses; or no answer
\* comes in time, whether or not the request was received.
PostExternal(t) ==
  /\ CapAt(t, "post")
  /\ \E heard \in (IF external = "down" THEN {"nothing"} ELSE {"accepted", "refused", "nothing"}) :
       /\ \/ heard # "accepted" /\ UNCHANGED external
          \/ /\ heard # "refused" /\ external # "down"
             /\ external' = IF th[t].op = "start" THEN "connecting" ELSE "flushing"
       /\ IF th[t].op = "transition" /\ heard = "refused" THEN CapAnswer(t)
          ELSE CapGo(t, "tick")
  /\ UNCHANGED <<capCfg, life, child, alive, endpoint, serving, shut, spawns, autos, stopOk,
                 simulated, simAnswer>>

\* A restart goes on with start, a shutdown ends the supervision.
StopReturns(t) ==
  /\ IF th[t].op = "restart" THEN CapGo(t, "begin") ELSE CapAnswer(t)
  /\ shut' = (shut \/ th[t].op = "shutdown")

\* What the caller does with its tick: start waits until the lifecycle is
\* ready, the budget is exhausted or its timeout has passed.
AfterTick(t) ==
  /\ CapAt(t, "after")
  /\ IF th[t].op = "start" /\ Managed
     THEN /\ UNCHANGED shut
          /\ \/ CapAnswer(t)
             \/ /\ life.phase \notin {"ready", "collecting"} /\ life.failures < RestartBudget
                /\ CapGo(t, "tick")
     ELSE IF th[t].op = "transition" /\ capCfg.provider = "external-api"
     THEN CapGo(t, "drain") /\ UNCHANGED shut
     ELSE StopReturns(t)
  /\ stopOk' = (stopOk \/ (th[t].op \in {"stop", "transition"} /\ Embedded))
  /\ UNCHANGED <<capCfg, life, child, alive, endpoint, external, serving, spawns, autos,
                 simulated, simAnswer>>

\* capture_transition_health_drained is polled until the deadline.
DrainExternal(t) ==
  /\ CapAt(t, "drain")
  /\ CapAnswer(t)
  /\ stopOk' = (stopOk \/ external \in {"history", "down"})
  /\ UNCHANGED <<capCfg, life, child, alive, endpoint, external, serving, shut, spawns, autos,
                 simulated, simAnswer>>

StopTake(t) ==
  /\ CapAt(t, "take")
  /\ child' = NoChild /\ Terminated(child)
  /\ CapGo(t, "settle")
  /\ UNCHANGED <<capCfg, life, external, serving, shut, spawns, autos, stopOk, simulated, simAnswer>>

\* The port is read again after at most three seconds.
StopSettle(t) ==
  /\ CapAt(t, "settle")
  /\ life' = [life EXCEPT !.phase = IF Listens THEN "degraded" ELSE "stopped", !.pid = FALSE]
  /\ stopOk' = (stopOk \/ ~Listens)
  /\ StopReturns(t)
  /\ UNCHANGED <<capCfg, child, alive, endpoint, external, serving, spawns, autos,
                 simulated, simAnswer>>

RestartBegins(t) ==
  /\ CapAt(t, "begin")
  /\ BeginStart(t, "start")
  /\ UNCHANGED <<capCfg, child, alive, endpoint, external, serving, shut, spawns,
                 simulated, simAnswer>>

\* capture_proxy_http_response marks the lifecycle while a capture runs.
SetCollecting ==
  /\ serving
  /\ \/ life.phase = "ready" /\ life' = [life EXCEPT !.phase = "collecting"]
     \/ life.phase = "collecting" /\ life' = [life EXCEPT !.phase = "ready"]
  /\ UNCHANGED <<capCfg, child, alive, endpoint, external, th, serving, shut, spawns, autos,
                 stopOk, simulated, simAnswer>>

-----------------------------------------------------------------------------
(* The processes behind the port.                                            *)

ChildBinds == Managed /\ endpoint = Nobody /\ \E c \in alive : endpoint' = c
ChildExits == \E c \in alive : Terminated(c)
OtherProcess ==
  /\ ForeignOwner /\ Managed /\ UNCHANGED alive
  /\ \/ endpoint = Nobody /\ endpoint' = Foreign
     \/ endpoint = Foreign /\ endpoint' = Nobody
ExternalChanges ==
  /\ capCfg.provider = "external-api" \/ capCfg.packaged
  /\ external' = CASE external = "connecting" -> "ready" [] external = "flushing" -> "history"
                   [] external = "down" -> "history" [] OTHER -> "down"

WorldChanges ==
  /\ \/ ChildBinds /\ UNCHANGED <<alive, external>>
     \/ ChildExits /\ UNCHANGED external
     \/ OtherProcess /\ UNCHANGED external
     \/ ExternalChanges /\ UNCHANGED <<alive, endpoint>>
  /\ UNCHANGED <<capCfg, life, child, th, serving, shut, spawns, autos, stopOk, simulated, simAnswer>>

-----------------------------------------------------------------------------
(* simulated_proxy: the provider built into the service.                     *)

CaptureModes == {"continuous", "on-demand", "disabled"}

SimulatedCaptureMode(requested) ==
  /\ requested \in CaptureModes
  /\ simulated' = [simulated EXCEPT !.mode = requested]
  /\ UNCHANGED simAnswer

\* The line rate changes only with applyToDevice.
SimulatedSettings(apply) ==
  /\ simulated' = IF apply THEN [simulated EXCEPT !.rate = "requested"] ELSE simulated
  /\ UNCHANGED simAnswer

\* The material is announced, enters (value 1) or leaves (value 0).  An event
\* may carry a capture mode of its own; saving and automatic capture default
\* to the presence of the material and to true.
SimulatedEvent(info, value, requested, saveFlag, autoFlag) ==
  LET m == IF requested = "" THEN simulated.mode ELSE requested
      save == IF saveFlag = "absent" THEN value # 0 /\ ~info ELSE saveFlag = "true"
      auto == m = "continuous" /\ autoFlag # "false"
  IN /\ simulated' = [simulated EXCEPT !.mode = m]
     /\ simAnswer' = [phase |-> CASE info -> "info-ready"
                                  [] ~info /\ value = 0 -> "steel-out"
                                  [] ~info /\ value # 0 /\ save /\ auto -> "steel-in-saving"
                                  [] OTHER -> "steel-in-waiting-images",
                      running |-> auto /\ value # 0 /\ ~info]

SimulatedProxy ==
  /\ capCfg.provider = "simulated" /\ serving
  /\ \/ \E r \in CaptureModes : SimulatedCaptureMode(r)
     \/ \E a \in BOOLEAN : SimulatedSettings(a)
     \/ \E info \in BOOLEAN, value \in {0, 1}, r \in CaptureModes \cup {""},
           s, a \in {"absent", "true", "false"} : SimulatedEvent(info, value, r, s, a)
  /\ UNCHANGED <<capState, th>>

CapStep(t) ==
  \/ TickFenced(t) \/ TickReports(t) \/ TickShut(t) \/ TickReap(t) \/ TickProbe(t)
  \/ TickKill(t) \/ TickSchedule(t) \/ TickReady(t) \/ TickAbsent(t) \/ TickSpawn(t)
  \/ TickInstall(t) \/ TickSpawned(t) \/ PostExternal(t) \/ AfterTick(t)
  \/ DrainExternal(t) \/ StopTake(t) \/ StopSettle(t) \/ RestartBegins(t)

CapRequest(t) ==
  \/ StartRequest(t)
  \/ \E op \in {"stop", "restart", "shutdown", "transition"} : StopRequest(t, op)

CapNext ==
  \/ \E t \in CapThread : CapStep(t) \/ CapRequest(t)
  \/ SetCollecting \/ WorldChanges \/ SimulatedProxy

CapSpec == CapInit /\ [][CapNext]_capVars

-----------------------------------------------------------------------------
(* Properties.                                                               *)

\* The lifecycle has one of the documented phases, and the port and the handle
\* belong to processes that were started.
CapTypeOK ==
  /\ life.phase \in {"disabled", "offline", "starting", "ready", "collecting", "degraded",
                     "stopping", "stopped"}
  /\ life.failures \in 0 .. RestartBudget /\ life.unhealthy \in 0 .. 2
  /\ endpoint \in {Nobody, Foreign} \cup alive
  /\ child \in 0 .. spawns /\ alive \subseteq 1 .. spawns

\* A capture process never outlives its handle: every live child is the one
\* in self.process or is about to be installed there, also when the
\* supervisor and a start request spawn at the same time (ManagedChild::drop,
\* process.replace).
NoOrphanCapture ==
  alive \subseteq {child} \cup {th[t].new : t \in CapThread}

\* Offline mode and management-only keep capture out whatever is asked for:
\* once requests are served nothing is wanted and no child lives.
FencedNeverRuns == Fenced /\ serving => ~life.desired /\ alive = {}

\* A capture process that keeps failing is launched a bounded number of times
\* between two events that forgive its failures (an operator's start, a
\* stable run, another owner of the port): all threads that tick may launch it
\* once per counted failure, and again while some of them have reaped a child
\* and not counted its failure yet (README: "stops automatic recovery after
\* the configured restart budget is exhausted").
LaunchesAreBounded ==
  LET n == Cardinality(CapThread)
  IN autos <= RestartBudget * n + (n * (n - 1)) \div 2

\* The simulated provider never announces that it saves what it does not
\* capture.
SavingMeansCapturing == simAnswer.phase = "steel-in-saving" => simAnswer.running

\* Whatever requests and ticks overlap, no capture process escapes its handle,
\* its fence or its restart budget.
CaptureSafety ==
  /\ CapTypeOK
  /\ NoOrphanCapture
  /\ FencedNeverRuns
  /\ LaunchesAreBounded
  /\ SavingMeansCapturing

\* After a confirmed stop nothing runs and nothing is reported as running
\* when no tick is in flight.
StoppedCaptureStays ==
  (/\ stopOk /\ endpoint # Foreign
   /\ \A t \in CapThread : th[t].pc \in {"idle", "tick"} /\ th[t].op = "idle")
  => alive = {} /\ life.phase \notin {"ready", "collecting"}
=============================================================================
