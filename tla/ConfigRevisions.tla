--------------------------- MODULE ConfigRevisions ---------------------------
(***************************************************************************)
(* Stored configuration and its revisions (app/service/src/main.rs,        *)
(* app/service/src/db/mod.rs): the writers of the capture, connection,     *)
(* inspection, alarm, integration and security values, and the restore of  *)
(* a revision.  The writers share no lock, except that a save of the       *)
(* capture configuration holds the lock of its copy in memory throughout;  *)
(* a restore takes that lock for its own write of the copy only.           *)
(*                                                                         *)
(* A value is a record of numbers; a field is Absent, Wrong (not of its    *)
(* type) or a number.  Depths are in hundredths of a millimetre.           *)
(***************************************************************************)
EXTENDS Integers, Sequences

CONSTANTS
  CfAdmin,      \* administrators whose requests run concurrently
  CfKeys,       \* configuration keys of the instance
  CfInputs,     \* per key: the bodies a request may carry
  CfLegacy,     \* revisions written before this version of the service
  MaxCfWrites,  \* bound: requests
  MaxCfFaults   \* bound: failed statements and restarts

Absent == -1
Wrong == -2
Rejected == [rejected |-> TRUE]
NoValue == [none |-> TRUE]

CfLegacyKeys == {CfLegacy[n].key : n \in 1 .. Len(CfLegacy)}
CfLegacyValues == {CfLegacy[n].value : n \in 1 .. Len(CfLegacy)}

\* Old revisions are rows of a key and a value, and no administrator has the
\* name that stands for a free lock.
ASSUME ConfigAssumption ==
  /\ CfLegacy \in Seq([key : CfLegacyKeys, value : CfLegacyValues])
  /\ "free" \notin CfAdmin

VARIABLES
  cfStored,     \* app_config row per key; NoValue when absent
  cfMemory,     \* ServiceState.config_json
  cfLock,       \* holder of its lock, or "free"
  cfRevisions,  \* config_revision rows, oldest first
  cfReq,        \* what each administrator's request is doing
  cfWrites, cfFaults

cfBounds == <<cfWrites, cfFaults>>
cfVars == <<cfStored, cfMemory, cfLock, cfRevisions, cfReq, cfWrites, cfFaults>>

-----------------------------------------------------------------------------
(* Validation.                                                             *)

\* validate_i64_field and its kin: there, a number and in range.
Required(value, low, high) == value \in low .. high

\* validate_optional_i64_field: absent or in range.
Optional(value, low, high) == value = Absent \/ value \in low .. high

\* optional_i64_field_or_default and its kin.
OrDefault(value, default) == IF value = Absent THEN default ELSE value

\* validate_connection_config_value: port, and mode as 0 (online) or 1 (demo).
ConnectionValue(v) ==
  IF Required(v.port, 1, 65535) /\ Required(v.mode, 0, 1) THEN v ELSE Rejected

\* validate_capture_camera: exposure and line count.
CameraValid(c) == Required(c.exposureUs, 1, 1000000) /\ Required(c.depthLines, 1, 100000)

CaptureCameraMax == 16

\* validate_capture_config_value: one to CAPTURE_CAMERA_MAX_COUNT valid cameras
\* (the cameras of an instance are alike) and an optional port.
CaptureValue(v) ==
  IF /\ Optional(v.capturePort, 1, 65535)
     /\ v.cameras \in 1 .. CaptureCameraMax /\ CameraValid(v)
  THEN v ELSE Rejected

\* normalize_inspection_settings_value: the order of the depths is checked
\* after the defaults are in.
SettingsValue(v) ==
  LET full == [severeDepth |-> OrDefault(v.severeDepth, 12), reviewDepth |-> OrDefault(v.reviewDepth, 8)]
  IN IF /\ Optional(v.severeDepth, 1, 100) /\ Optional(v.reviewDepth, 1, 100)
        /\ full.severeDepth > full.reviewDepth
     THEN full ELSE Rejected

\* normalize_alarm_rules_value.
AlarmRulesValue(v) ==
  IF Optional(v.severeThreshold, 1, 100) /\ Optional(v.retainMinutes, 1, 1440)
  THEN [severeThreshold |-> OrDefault(v.severeThreshold, 1), retainMinutes |-> OrDefault(v.retainMinutes, 60)]
  ELSE Rejected

\* normalize_external_integration_endpoint: protocol 0 .. 3, port, timeout.
EndpointValue(v, defaultPort) ==
  IF Optional(v.protocol, 0, 3) /\ Optional(v.port, 1, 65535) /\ Optional(v.timeoutMs, 100, 60000)
  THEN [protocol |-> OrDefault(v.protocol, 1), port |-> OrDefault(v.port, defaultPort),
        timeoutMs |-> OrDefault(v.timeoutMs, 1000)]
  ELSE Rejected

\* normalize_external_integrations_value (the PLC endpoint).
IntegrationsValue(v) == EndpointValue(v, 1502)

\* validate_security_policy_value and security_policy_value: the retention is
\* required, the limits of logins and sessions have defaults.
SecurityValue(v) ==
  IF Required(v.retentionDays, 1, 3650) /\ Optional(v.maxFailures, 1, 20) /\ Optional(v.ttlHours, 1, 168)
  THEN [retentionDays |-> v.retentionDays, maxFailures |-> OrDefault(v.maxFailures, 5),
        ttlHours |-> OrDefault(v.ttlHours, 8)]
  ELSE Rejected

\* validate_config_value; any other key is refused.
ConfigValue(key, v) ==
  CASE key = "capture" -> CaptureValue(v)
    [] key = "connection" -> ConnectionValue(v)
    [] key = "inspection_settings" -> SettingsValue(v)
    [] key = "alarm_rules" -> AlarmRulesValue(v)
    [] key = "external_integrations" -> IntegrationsValue(v)
    [] key = "security_policy" -> SecurityValue(v)
    [] OTHER -> Rejected

\* A request: what it is doing, and the value it stores under which key;
\* found is what its read of the row told it.
CfRequest(at, key, value, action, found) ==
  [at |-> at, key |-> key, value |-> value, action |-> action, found |-> found]

CfIdle == CfRequest("idle", "none", NoValue, "none", FALSE)

CfInit ==
  /\ cfStored = [k \in CfKeys |-> NoValue]
  /\ cfMemory = NoValue /\ cfLock = "free"
  /\ cfRevisions = CfLegacy
  /\ cfReq = [a \in CfAdmin |-> CfIdle]
  /\ cfWrites = 0 /\ cfFaults = 0

-----------------------------------------------------------------------------
(* Requests.                                                               *)

CfBegin(a) == cfReq[a].at = "idle" /\ cfWrites < MaxCfWrites /\ cfWrites' = cfWrites + 1
CfGo(a, at) == cfReq' = [cfReq EXCEPT ![a].at = at]
CfEnd(a) == cfReq' = [cfReq EXCEPT ![a] = CfIdle]

\* The value a save stores: the body itself for the two validated keys, the
\* normalized value for the others; a body that is refused changes nothing.
SaveConfig(a, key, body) ==
  LET value == ConfigValue(key, body)
  IN /\ CfBegin(a)
     /\ cfReq' = IF value = Rejected THEN cfReq
                 ELSE [cfReq EXCEPT ![a] = CfRequest(IF key = "capture" THEN "lock" ELSE "find",
                                                     key, value, "save", FALSE)]
     /\ UNCHANGED <<cfStored, cfMemory, cfLock, cfRevisions, cfFaults>>

\* The six writers.
WriteConfig(a) == \E b \in CfInputs["capture"] : SaveConfig(a, "capture", b)
WriteConnection(a) == \E b \in CfInputs["connection"] : SaveConfig(a, "connection", b)
WriteSettings(a) == \E b \in CfInputs["inspection_settings"] : SaveConfig(a, "inspection_settings", b)
WriteAlarmRules(a) == \E b \in CfInputs["alarm_rules"] : SaveConfig(a, "alarm_rules", b)
WriteIntegrations(a) == \E b \in CfInputs["external_integrations"] : SaveConfig(a, "external_integrations", b)
WriteSecurityPolicy(a) == \E b \in CfInputs["security_policy"] : SaveConfig(a, "security_policy", b)

\* A save of the capture configuration writes the copy first.
CfMemoryFirst(a) ==
  /\ cfReq[a].at = "lock" /\ cfLock = "free"
  /\ cfLock' = a /\ cfMemory' = cfReq[a].value
  /\ CfGo(a, "find")
  /\ UNCHANGED <<cfStored, cfRevisions, cfBounds>>

RestorableUnchecked(r) == r.key \in CfKeys

\* A revision is validated again before it is restored.
Restorable(r) == r.key \in CfKeys /\ ConfigValue(r.key, r.value) # Rejected

\* restore_config_revision_response up to the write of the row.
RestoreRevision(a, n) ==
  /\ CfBegin(a)
  /\ n \in 1 .. Len(cfRevisions)
  /\ LET r == cfRevisions[n]
     IN cfReq' = IF Restorable(r)
                 THEN [cfReq EXCEPT ![a] = CfRequest("find", r.key, r.value, "restore", FALSE)]
                 ELSE cfReq
  /\ UNCHANGED <<cfStored, cfMemory, cfLock, cfRevisions, cfFaults>>

\* set_config reads the row,
CfFind(a) ==
  /\ cfReq[a].at = "find"
  /\ cfReq' = [cfReq EXCEPT ![a].at = "put", ![a].found = cfStored[cfReq[a].key] # NoValue]
  /\ UNCHANGED <<cfStored, cfMemory, cfLock, cfRevisions, cfBounds>>

Released(a) == cfLock' = IF cfLock = a THEN "free" ELSE cfLock

\* and updates it, or inserts it unless another request has by now.
CfPut(a) ==
  LET r == cfReq[a]
      inserted == r.found \/ cfStored[r.key] = NoValue
  IN /\ r.at = "put"
     /\ cfStored' = IF inserted THEN [cfStored EXCEPT ![r.key] = r.value] ELSE cfStored
     /\ IF inserted
        THEN CfGo(a, IF r.action = "restore" /\ r.key = "capture" THEN "memory" ELSE "revision")
             /\ UNCHANGED cfLock
        ELSE CfEnd(a) /\ Released(a)
     /\ UNCHANGED <<cfMemory, cfRevisions, cfBounds>>

\* A restore writes the copy of the capture configuration last.
CfMemoryLast(a) ==
  /\ cfReq[a].at = "memory" /\ cfLock = "free"
  /\ cfMemory' = cfReq[a].value
  /\ CfGo(a, "revision")
  /\ UNCHANGED <<cfStored, cfLock, cfRevisions, cfBounds>>

\* append_config_revision: a restore is a revision of its own.
Revised(r) == Append(cfRevisions, [key |-> r.key, value |-> r.value])

CfRevision(a) ==
  LET r == cfReq[a]
  IN /\ r.at = "revision"
     /\ cfRevisions' = Revised(r)
     /\ CfEnd(a) /\ Released(a)
     /\ UNCHANGED <<cfStored, cfMemory, cfBounds>>

\* A statement fails and ends the request.  What was written stays: the copy
\* without the row, or the row without its revision.
CfFail(a) ==
  LET r == cfReq[a]
  IN /\ r.at \in {"find", "put", "revision"} /\ cfFaults < MaxCfFaults
     /\ cfFaults' = cfFaults + 1
     /\ CfEnd(a) /\ Released(a)
     /\ UNCHANGED <<cfStored, cfMemory, cfRevisions, cfWrites>>

\* The service restarts: the copy is read from the row.
CfRestart ==
  /\ cfFaults < MaxCfFaults /\ cfFaults' = cfFaults + 1
  /\ cfReq' = [a \in CfAdmin |-> CfIdle] /\ cfLock' = "free"
  /\ cfMemory' = IF "capture" \in CfKeys THEN cfStored["capture"] ELSE NoValue
  /\ UNCHANGED <<cfStored, cfRevisions, cfWrites>>

CfWriter(a) ==
  \/ "capture" \in CfKeys /\ WriteConfig(a)
  \/ "connection" \in CfKeys /\ WriteConnection(a)
  \/ "inspection_settings" \in CfKeys /\ WriteSettings(a)
  \/ "alarm_rules" \in CfKeys /\ WriteAlarmRules(a)
  \/ "external_integrations" \in CfKeys /\ WriteIntegrations(a)
  \/ "security_policy" \in CfKeys /\ WriteSecurityPolicy(a)

CfNext ==
  \/ \E a \in CfAdmin :
       \/ CfWriter(a) \/ CfMemoryFirst(a) \/ CfFind(a) \/ CfPut(a)
       \/ CfMemoryLast(a) \/ CfRevision(a) \/ CfFail(a)
       \/ \E n \in 1 .. Len(CfLegacy) + MaxCfWrites : RestoreRevision(a, n)
  \/ CfRestart

CfSpec == CfInit /\ [][CfNext]_cfVars

-----------------------------------------------------------------------------
(* Properties.                                                             *)

\* What a key's load returns: the stored value normalized again
\* (load_inspection_settings_value and its kin).
Loaded(key) == ConfigValue(key, cfStored[key])

\* Every stored value can be loaded: whatever was saved, restored from an old
\* revision, overwritten half-way or left by a failed request, a reader of the
\* key gets a value and not an error (load_inspection_settings_value, ...).
LoadsSucceed ==
  \A k \in CfKeys : cfStored[k] # NoValue => Loaded(k) # Rejected

\* The value in force can be restored: once no request is under way and no
\* statement failed, a stored value is among the revisions of its key.
StoredHasRevision ==
  cfFaults = 0 /\ (\A a \in CfAdmin : cfReq[a].at = "idle")
    => \A k \in CfKeys : cfStored[k] # NoValue
         => \E n \in 1 .. Len(cfRevisions) : cfRevisions[n] = [key |-> k, value |-> cfStored[k]]

\* The lock of the copy is held by a save of the capture configuration from
\* its write of the copy to its answer, and by nobody else.
CfTypeOK ==
  /\ cfLock # "free" => cfReq[cfLock].at \in {"find", "put", "revision"}
                        /\ cfReq[cfLock].key = "capture" /\ cfReq[cfLock].action = "save"
  /\ \A a \in CfAdmin : cfReq[a].at \in {"find", "put", "revision"} /\ cfReq[a].key = "capture"
                          /\ cfReq[a].action = "save" => cfLock = a

\* What is stored can be loaded and restored, and the copy of the capture
\* configuration is written under its lock.
ConfigSafety ==
  /\ CfTypeOK
  /\ LoadsSucceed
  /\ StoredHasRevision

=============================================================================
