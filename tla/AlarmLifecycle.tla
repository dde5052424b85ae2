---------------------------- MODULE AlarmLifecycle ----------------------------
(***************************************************************************)
(* Persistent alarms: defect ingest creates them, operators acknowledge    *)
(* and resolve them, and two monitor threads open, refresh and close the   *)
(* alarms they manage (app/service/src/main.rs, app/service/src/db/mod.rs).*)
(*                                                                         *)
(* A step is one statement.  A monitor and an operator each read a row and *)
(* then write it with an UPDATE conditional on the status; nothing else    *)
(* orders them.  Alarms are numbered in the order of their creation.  A    *)
(* condition is what the next health snapshot would report of a check, or  *)
(* of the one camera.  The text and details of an alarm are its "info".    *)
(***************************************************************************)
EXTENDS Naturals, Sequences, FiniteSets

CONSTANTS
  HealthTypes,     \* the health alarm types a round walks, out of HealthSpecs
  Running,         \* the sets of monitors a service may be set up to run
  Operator,        \* operators with admin.records
  DefectKey,       \* fingerprints of severe and review defects
  MaxChanges,      \* bound: changes of a condition
  MaxActions,      \* bound: operator actions
  MaxAlarmFaults   \* bound: rounds ended by a database error, and restarts

Monitor == {"health", "camera"}

\* SYSTEM_HEALTH_ALARM_TYPES with the check and the level each stands for.
HealthSpecs ==
  {<<"supervisor-restart-budget-exhausted", "runtimeSupervisor", "exhausted">>,
   <<"supervisor-status-invalid", "runtimeSupervisor", "invalid">>,
   <<"storage-capacity-warning", "storage", "warning">>,
   <<"storage-critical", "storage", "failed">>,
   <<"capture-unavailable", "capture", "failed">>,
   <<"task-worker-unavailable", "taskWorker", "failed">>,
   <<"calibration-reconciliation-required", "calibrationReconciliation", "failed">>,
   <<"trigger-unavailable", "trigger", "failed">>,
   <<"algorithm-not-qualified", "algorithm", "failed">>,
   <<"production-policy-invalid", "productionPolicy", "failed">>}

Check == {s[2] : s \in HealthSpecs}
CameraTypes == <<"camera-offline", "camera-image-blocked", "camera-image-quality">>

\* The types a round walks, in order.
AlarmTypes(m) == IF m = "health" THEN HealthTypes ELSE CameraTypes

Managed == {s[1] : s \in HealthSpecs} \cup {CameraTypes[i] : i \in 1 .. Len(CameraTypes)}

Open == {"active", "acknowledged"}
Nobody == "nobody"

\* The health monitor walks some of its types, a defect's fingerprint is no
\* alarm type of a monitor, and an operator has a name.
ASSUME AlarmAssumption ==
  /\ HealthTypes \in Seq({s[1] : s \in HealthSpecs}) /\ HealthTypes # <<>>
  /\ DefectKey \cap Managed = {}
  /\ Nobody \notin Operator

VARIABLES
  running,    \* the monitors of this installation: "health" in the production
              \* profile, "camera" with an external capture provider
  alarms,     \* production_alarm rows in order of creation; "first" and "late"
              \* are history: who acknowledged first, and whether a monitor
              \* that had read the row was about to write it then
  health,     \* level each health check reports
  camera,     \* alarm type the image quality check reports
  episode,    \* reasons, materialId, activeSince and recoveredAt of the camera
  mon,        \* per monitor: its loop
  signature,  \* last_reconciled_signature of the camera monitor
  online,     \* the acquisition mode of this life is online
  op,         \* per operator: the action in hand
  changes,    \* changes of conditions so far
  actions,    \* operator actions so far
  alarmFaults

alVars == <<running, alarms, health, camera, episode, mon, signature, online, op, changes,
            actions, alarmFaults>>

Asleep == [at |-> "sleep", i |-> 1, want |-> {}, info |-> 0, found |-> 0, ackBy |-> Nobody]
NoSignature == 99
OpIdle == [at |-> "idle", alarm |-> 0]

AlInit ==
  /\ running \in Running
  /\ alarms = <<>>
  /\ health = [c \in Check |-> "ok"] /\ camera = "ok" /\ episode = 0
  /\ mon = [m \in Monitor |-> Asleep]
  /\ signature = NoSignature
  /\ online = TRUE
  /\ op = [o \in Operator |-> OpIdle]
  /\ changes = 0 /\ actions = 0 /\ alarmFaults = 0

\* ensure_production_alarm_on inserts a row with status active.
NewAlarm(kind, info) ==
  [kind |-> kind, status |-> "active", info |-> info, ackBy |-> Nobody, resBy |-> Nobody,
   first |-> Nobody, late |-> FALSE]

-----------------------------------------------------------------------------
(* Defect ingest and operators.                                            *)

\* production_defect_alarm_input, append_production_defect_with_alarm: the
\* defect and its alarm in one transaction; a known fingerprint finds the
\* alarm it made before, whatever became of it.
DefectAlarm(d) ==
  /\ alarms' = IF \E a \in 1 .. Len(alarms) : alarms[a].kind = d THEN alarms
               ELSE Append(alarms, NewAlarm(d, 0))
  /\ UNCHANGED <<running, health, camera, episode, mon, signature, online, op, changes, actions,
                 alarmFaults>>

\* What an action needs the status to be.
Expected(action) == IF action = "acknowledge" THEN "active" ELSE "acknowledged"

\* write_production_alarm_action_response, down to the read of the row:
\* another status answers Unchanged or Conflict and writes nothing.
AlarmAction(o, a, action) ==
  /\ op[o].at = "idle" /\ actions < MaxActions
  /\ actions' = actions + 1
  /\ op' = IF alarms[a].status = Expected(action)
           THEN [op EXCEPT ![o] = [at |-> action, alarm |-> a]]
           ELSE op
  /\ UNCHANGED <<running, alarms, health, camera, episode, mon, signature, online, changes,
                 alarmFaults>>

\* The end of an action.
Answer(o) ==
  /\ op' = [op EXCEPT ![o] = OpIdle]
  /\ UNCHANGED <<running, health, camera, episode, mon, signature, online, changes, actions,
                 alarmFaults>>

\* A monitor has read the row and not written yet.
HeldByMonitor(a) == \E m \in Monitor : mon[m].at = "write" /\ mon[m].found = a

\* acknowledge_production_alarm: the UPDATE is conditional on active.
AcknowledgeWrite(o) ==
  LET a == op[o].alarm
  IN /\ op[o].at = "acknowledge"
     /\ alarms' = IF alarms[a].status # "active" THEN alarms
                  ELSE [alarms EXCEPT ![a].status = "acknowledged", ![a].ackBy = o,
                                      ![a].first = o, ![a].late = HeldByMonitor(a)]
     /\ Answer(o)

\* resolve_production_alarm: the UPDATE is conditional on acknowledged.
ResolveWrite(o) ==
  LET a == op[o].alarm
  IN /\ op[o].at = "resolve"
     /\ alarms' = IF alarms[a].status # "acknowledged" THEN alarms
                  ELSE [alarms EXCEPT ![a].status = "resolved", ![a].resBy = o]
     /\ Answer(o)

-----------------------------------------------------------------------------
(* The monitors.                                                           *)

\* system_health_alarm_specs_with_supervisor: the types the checks call for.
WantedHealth == {s[1] : s \in {x \in HealthSpecs : health[x[2]] = x[3]}}

\* reconcile_capture_camera_alarms: the one type the camera reports.
WantedCamera == IF camera = "ok" THEN {} ELSE {camera}

\* A round begins, for a snapshot taken now.
BeginRound(m, want, info) ==
  /\ m \in running /\ mon[m].at = "sleep"
  /\ mon' = [mon EXCEPT ![m] = [at |-> "read", i |-> 1, want |-> want, found |-> 0,
                                info |-> info, ackBy |-> Nobody]]
  /\ UNCHANGED <<running, alarms, health, camera, episode, signature, online, op, changes,
                 actions, alarmFaults>>

\* start_system_health_alarm_monitor: every round reconciles.
StartHealthRound == BeginRound("health", WantedHealth, 0)

\* capture_camera_alarm_signature of the snapshot.
Signature == episode

\* start_capture_camera_alarm_monitor: a round whose signature has been
\* reconciled is skipped.
StartCameraRound ==
  /\ online /\ Signature # signature
  /\ BeginRound("camera", WantedCamera, Signature)

\* resolve_capture_camera_alarms_for_inactive_mode: outside online mode the
\* open camera alarms are closed, once, when the service starts.
StartInactiveRound ==
  /\ ~online
  /\ BeginRound("camera", {}, Signature)

OpenAlarmUnacknowledged(kind) ==
  LET rows == {a \in 1 .. Len(alarms) : alarms[a].kind = kind /\ alarms[a].status = "active"}
  IN IF rows = {} THEN 0 ELSE CHOOSE a \in rows : \A b \in rows : b <= a

\* The latest open alarm of a kind; 0 when there is none.
OpenAlarm(kind) ==
  LET rows == {a \in 1 .. Len(alarms) : alarms[a].kind = kind /\ alarms[a].status \in Open}
  IN IF rows = {} THEN 0 ELSE CHOOSE a \in rows : \A b \in rows : b <= a

\* The read of reconcile_managed_alarm.
ReconcileRead(m) ==
  LET found == OpenAlarm(AlarmTypes(m)[mon[m].i])
  IN /\ mon[m].at = "read"
     /\ mon' = [mon EXCEPT ![m].at = "write", ![m].found = found,
                           ![m].ackBy = IF found = 0 THEN Nobody ELSE alarms[found].ackBy]
     /\ UNCHANGED <<running, alarms, health, camera, episode, signature, online, op,
                    changes, actions, alarmFaults>>

\* The loop over the types; the signature is kept once all are done.
NextType(m) ==
  /\ IF mon[m].i < Len(AlarmTypes(m))
     THEN mon' = [mon EXCEPT ![m].at = "read", ![m].i = @ + 1]
     ELSE mon' = [mon EXCEPT ![m] = IF m = "camera" /\ ~online
                                    THEN [Asleep EXCEPT !.at = "stopped"] ELSE Asleep]
  /\ signature' = IF m = "camera" /\ mon[m].i = Len(AlarmTypes(m)) THEN mon[m].info
                  ELSE signature

\* The close of reconcile_managed_alarm: the acknowledgement fields come
\* from the row that was read.
ClosedByMonitor(row, seenAckBy) ==
  IF row.status \notin Open THEN row
  ELSE [row EXCEPT !.status = "resolved", !.resBy = "monitor",
                   !.ackBy = IF seenAckBy = Nobody THEN "monitor" ELSE seenAckBy,
                   !.first = IF row.first = Nobody THEN "monitor" ELSE row.first]

\* The refresh of reconcile_managed_alarm.
Refreshed(row, info) == IF row.status \in Open THEN [row EXCEPT !.info = info] ELSE row

\* The write of reconcile_managed_alarm: nothing, an insert, a refresh or a
\* close, the last two conditional on an open status.
ReconcileWrite(m) ==
  LET kind == AlarmTypes(m)[mon[m].i]
      a == mon[m].found
      wanted == kind \in mon[m].want
  IN /\ mon[m].at = "write"
     /\ alarms' =
          CASE a = 0 /\ wanted -> Append(alarms, NewAlarm(kind, mon[m].info))
            [] a # 0 /\ wanted -> [alarms EXCEPT ![a] = Refreshed(alarms[a], mon[m].info)]
            [] a # 0 /\ ~wanted ->
                 [alarms EXCEPT ![a] = ClosedByMonitor(alarms[a], mon[m].ackBy)]
            [] OTHER -> alarms
     /\ NextType(m)
     /\ UNCHANGED <<running, health, camera, episode, online, op, changes, actions, alarmFaults>>

ReconcileErrorKeepsSignature(m) ==
  /\ mon[m].at \in {"read", "write"} /\ alarmFaults < MaxAlarmFaults
  /\ alarmFaults' = alarmFaults + 1
  /\ mon' = [mon EXCEPT ![m] = Asleep]
  /\ signature' = IF m = "camera" THEN mon[m].info ELSE signature
  /\ UNCHANGED <<running, alarms, health, camera, episode, online, op, changes, actions>>

\* A statement fails: the round ends, the signature is not kept.
ReconcileError(m) ==
  /\ mon[m].at \in {"read", "write"} /\ alarmFaults < MaxAlarmFaults
  /\ alarmFaults' = alarmFaults + 1
  /\ mon' = [mon EXCEPT ![m] = IF m = "camera" /\ ~online
                               THEN [Asleep EXCEPT !.at = "stopped"] ELSE Asleep]
  /\ UNCHANGED <<running, alarms, health, camera, episode, signature, online, op, changes, actions>>

-----------------------------------------------------------------------------

\* The conditions change (external).
CheckChanges ==
  /\ "health" \in running
  /\ changes < MaxChanges /\ changes' = changes + 1
  /\ \E s \in {x \in HealthSpecs : \E i \in 1 .. Len(HealthTypes) : HealthTypes[i] = x[1]} :
       \E level \in {"ok", s[3]} \ {health[s[2]]} : health' = [health EXCEPT ![s[2]] = level]
  /\ UNCHANGED <<running, alarms, camera, episode, mon, signature, online, op, actions, alarmFaults>>

CameraChanges ==
  /\ "camera" \in running
  /\ changes < MaxChanges /\ changes' = changes + 1
  /\ camera' \in {"ok"} \cup {CameraTypes[i] : i \in 1 .. Len(CameraTypes)}
  /\ episode' = changes + 1
  /\ UNCHANGED <<running, alarms, health, mon, signature, online, op, actions, alarmFaults>>

\* The service ends anywhere and is started again, in any acquisition mode.
Restart ==
  /\ alarmFaults < MaxAlarmFaults /\ alarmFaults' = alarmFaults + 1
  /\ online' \in BOOLEAN
  /\ mon' = [m \in Monitor |-> Asleep]
  /\ signature' = NoSignature
  /\ op' = [o \in Operator |-> OpIdle]
  /\ UNCHANGED <<running, alarms, health, camera, episode, changes, actions>>

HealthStep == StartHealthRound \/ ReconcileRead("health") \/ ReconcileWrite("health")

CameraStep ==
  StartCameraRound \/ StartInactiveRound \/ ReconcileRead("camera") \/ ReconcileWrite("camera")

AlNext ==
  \/ \E d \in DefectKey : DefectAlarm(d)
  \/ \E o \in Operator :
       \/ AcknowledgeWrite(o) \/ ResolveWrite(o)
       \/ \E a \in 1 .. Len(alarms), action \in {"acknowledge", "resolve"} :
            AlarmAction(o, a, action)
  \/ HealthStep \/ CameraStep
  \/ \E m \in Monitor : ReconcileError(m)
  \/ CheckChanges \/ CameraChanges \/ Restart

AlSpec == AlInit /\ [][AlNext]_alVars

AlFairness == WF_alVars(HealthStep) /\ WF_alVars(CameraStep)

-----------------------------------------------------------------------------
(* Properties.                                                             *)

\* Statuses, kinds and the places of the loops are those of the code; a
\* monitor holds the number of an existing row.
AlTypeOK ==
  /\ \A a \in 1 .. Len(alarms) :
       /\ alarms[a].kind \in Managed \cup DefectKey
       /\ alarms[a].status \in {"active", "acknowledged", "resolved"}
  /\ \A m \in Monitor :
       /\ mon[m].at \in {"sleep", "read", "write", "stopped"}
       /\ mon[m].i \in 1 .. Len(AlarmTypes(m))
       /\ mon[m].found \in 0 .. Len(alarms)
       /\ mon[m].at = "stopped" => m = "camera" /\ ~online

\* A continuing condition has one open alarm, not one per round: the open
\* alarms of a managed type, or of a defect, never number two
\* (reconcile_managed_alarm, ensure_production_alarm_on).
OneOpenEpisode ==
  \A a, b \in 1 .. Len(alarms) :
    alarms[a].kind = alarms[b].kind /\ alarms[a].status \in Open /\ alarms[b].status \in Open
      => a = b

\* A resolved alarm names who acknowledged and who resolved it, an
\* acknowledged one who acknowledged it; and the name is that of whoever
\* acknowledged it first.  The close of reconcile_managed_alarm writes the
\* acknowledgement it has read back over the row, so the one case in which
\* another name may stand is an acknowledgement that came between a
\* monitor's read of the row and its write.
ClosedIsAccounted ==
  \A a \in 1 .. Len(alarms) :
    /\ alarms[a].status # "active" => alarms[a].ackBy # Nobody
    /\ alarms[a].status = "resolved" <=> alarms[a].resBy # Nobody
    /\ ~alarms[a].late => alarms[a].ackBy = alarms[a].first

\* One open alarm for a condition, and the names of those who acknowledged
\* and closed it.
AlarmSafety ==
  /\ AlTypeOK
  /\ OneOpenEpisode
  /\ ClosedIsAccounted

\* The monitors catch up.  When a health condition stays away its alarm is
\* closed for good, and when it stays its alarm is open, though operators
\* close it in between.  The camera monitor skips rounds whose signature it
\* has seen, and still, once the conditions have settled, an open camera
\* alarm is about the condition and the episode the camera is in.
AlarmsFollowConditions ==
  /\ "health" \in running =>
       \A t \in {HealthTypes[i] : i \in 1 .. Len(HealthTypes)} :
         /\ <>[](t \notin WantedHealth) => <>[](OpenAlarm(t) = 0)
         /\ <>[](t \in WantedHealth) => <>[](OpenAlarm(t) # 0)
  /\ <>[]online =>
       <>[](\A a \in 1 .. Len(alarms) :
              alarms[a].kind \in {CameraTypes[i] : i \in 1 .. Len(CameraTypes)}
              /\ alarms[a].status \in Open
                => alarms[a].kind = camera /\ alarms[a].info = episode)

=============================================================================
