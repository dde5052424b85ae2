---------------------------- MODULE ServiceHealth ----------------------------
(***************************************************************************)
(* The readiness answer of the service (app/service/src/main.rs).  A       *)
(* snapshot asks eight components one after the other, each with a bounded *)
(* probe, while the components go on changing; what each of them is asked  *)
(* depends on the acquisition mode and the capture provider.  The          *)
(* qualification of the algorithm compares the files in use with the ones  *)
(* an acceptance report names.                                             *)
(***************************************************************************)
EXTENDS Integers, Sequences, FiniteSets

CONSTANTS
  HlProfiles,     \* runtime profiles the service may run with
  HlMinimum,      \* the hard watermark of free storage
  MaxHlChanges, MaxHlSnapshots

VARIABLES
  hlProfile,   \* the profile in force
  hl,          \* the condition of the components
  hlApproved,  \* file versions some acceptance report has approved
  hlSnapshot,  \* the snapshot under way: answers so far
  hlChanges, hlSnapshots

hlVars == <<hlProfile, hl, hlApproved, hlSnapshot, hlChanges, hlSnapshots>>

HlAbsent == -1

\* GET /api/storage/status as the provider answers it: free space per root,
\* HlAbsent where the field is missing.
StorageUp == [api |-> "ok", code |-> 0, exists |-> TRUE, writable |-> TRUE, queue |-> TRUE,
              root |-> 2 * HlMinimum, camera |-> 2 * HlMinimum]

StorageStates ==
  {[StorageUp EXCEPT !.root = r] : r \in {HlAbsent, HlMinimum - 1, HlMinimum, 2 * HlMinimum}}
  \cup {[StorageUp EXCEPT !.camera = c] : c \in {HlAbsent, HlMinimum - 1}}
  \cup {[StorageUp EXCEPT !.root = HlAbsent, !.camera = HlAbsent]}
  \cup {[StorageUp EXCEPT !.api = a] : a \in {"timeout", "http-error"}}
  \cup {[StorageUp EXCEPT !.code = 1], [StorageUp EXCEPT !.exists = FALSE],
        [StorageUp EXCEPT !.writable = FALSE], [StorageUp EXCEPT !.queue = FALSE]}

\* The conditions a component can be in.
HlValues(c) ==
  CASE c = "database" -> BOOLEAN
    [] c = "worker" -> {"idle", "busy", "stale", "stopped"}
    [] c = "capture" -> {"up", "unreachable", "http-error", "contract", "recovery", "restart", "not-ready",
                         "sdk-down", "no-source"}
    [] c = "running" -> BOOLEAN
    [] c = "calibrationOperations" -> {"clear", "open", "unknown"}
    [] c = "storage" -> StorageStates
    [] c = "trigger" -> {"up", "unreachable", "http-error", "contract", "error"}
    [] c = "source" -> BOOLEAN
    [] c = "bkv" -> {"b1", "b2", "unavailable"}
    [] c = "catalog" -> BOOLEAN
    [] c = "imageService" -> BOOLEAN
    [] c = "imageWorker" -> BOOLEAN
    [] c = "defectWorker" -> BOOLEAN
    [] c = "paths" -> BOOLEAN
    [] c = "config" -> 1..3
    [] c = "core" -> 1..2
    [] c = "calibration" -> 1..2

\* Version 3 of the algorithm's configuration is one that is not valid.
ConfigValid(v) == v # 3

HlUp == [database |-> TRUE, worker |-> "idle", capture |-> "up", running |-> TRUE, calibrationOperations |-> "clear",
         storage |-> StorageUp, trigger |-> "up", source |-> TRUE, bkv |-> "b1", catalog |-> TRUE,
         imageService |-> TRUE, imageWorker |-> TRUE, defectWorker |-> TRUE, paths |-> TRUE,
         config |-> 1, core |-> 1, calibration |-> 1,
         report |-> [status |-> "pass", config |-> 1, core |-> 1, calibration |-> 1, evaluated |-> 1, approved |-> 1]]

HlChecks == <<"database", "taskWorker", "shared", "capture", "calibrationReconciliation", "storage",
              "trigger", "algorithm", "productionPolicy">>

NoSnapshot == [at |-> 0, shared |-> "none", checks |-> <<>>, down |-> {}, ever |-> {}]

\* What is wrong in a condition, said without the code's checks: the parts
\* that cannot do their work.
Down(e) ==
  {c \in {"database", "running", "source", "catalog", "imageService", "imageWorker", "defectWorker"} : ~e[c]}
  \cup (IF e.worker \in {"stale", "stopped"} THEN {"worker"} ELSE {})
  \cup (CASE e.capture \in {"unreachable", "http-error"} -> {"captureApi"}
          [] e.capture = "not-ready" -> {"captureReady"}
          [] e.capture \in {"contract", "recovery", "restart", "sdk-down"} -> {"captureSdk"}
          [] e.capture = "no-source" -> {"replaySource"}
          [] OTHER -> {})
  \cup (IF e.calibrationOperations # "clear" THEN {"calibrationOperations"} ELSE {})
  \cup (IF \/ e.storage.api # "ok" \/ e.storage.code # 0
           \/ ~e.storage.exists \/ ~e.storage.writable \/ ~e.storage.queue
           \/ e.storage.root \in 0..(HlMinimum - 1) \/ e.storage.camera \in 0..(HlMinimum - 1)
           \/ e.storage.root = HlAbsent /\ e.storage.camera = HlAbsent
         THEN {"storage"} ELSE {})
  \cup (IF e.trigger # "up" THEN {"trigger"} ELSE {})
  \cup (IF e.bkv = "unavailable" THEN {"bkv"} ELSE {})
  \cup (IF \/ ~ConfigValid(e.config) \/ ~e.paths \/ e.report.status # "pass" \/ e.report.approved < e.report.evaluated
           \/ <<e.report.config, e.report.core, e.report.calibration>> # <<e.config, e.core, e.calibration>>
         THEN {"algorithm"} ELSE {})

\* And what the work of a profile needs.
Needs(p) ==
  {"database"}
  \cup (IF p.mode # "offline" THEN {"worker", "calibrationOperations"} ELSE {})
  \cup (IF p.mode = "simulation" THEN {"source"} ELSE {})
  \cup (IF p.mode # "offline" /\ p.provider = "camera" THEN {"captureApi", "captureReady", "storage"} ELSE {})
  \cup (IF p.mode = "online" /\ p.provider = "camera" THEN {"captureSdk"} ELSE {})
  \cup (IF p.mode = "simulation" /\ p.provider = "camera" THEN {"replaySource"} ELSE {})
  \cup (IF \/ p.mode = "simulation" /\ p.provider # "camera"
           \/ p.mode = "online" /\ p.provider = "simulated" THEN {"running"} ELSE {})
  \cup (IF p.mode = "online" /\ p.triggerRequired THEN {"trigger"} ELSE {})
  \cup (IF p.provider = "bkv" THEN {IF p.unified THEN "catalog" ELSE "bkv"} ELSE {})
  \cup (IF p.mode # "offline" /\ p.proxyOnly THEN {"imageService", "imageWorker", "defectWorker"} ELSE {})
  \cup (IF p.mode # "offline" /\ p.provider = "camera" /\ p.algorithm /\ ~p.proxyOnly THEN {"algorithm"} ELSE {})

HlInit ==
  /\ hlProfile \in HlProfiles /\ hl = HlUp
  /\ hlApproved = {<<1, 1, 1>>}
  /\ hlSnapshot = NoSnapshot
  /\ hlChanges = 0 /\ hlSnapshots = 0

-----------------------------------------------------------------------------
(* Component answers: whether the component lets the service be ready, and *)
(* the reason it reports.                                                  *)

HlAnswer(ok, reason) == [ok |-> ok, reason |-> reason, batch |-> "none"]
HlGood == HlAnswer(TRUE, "none")
HlOf(ok, reason) == HlAnswer(ok, IF ok THEN "none" ELSE reason)

\* database_health_component.
DatabaseHealth(e) == HlOf(e.database, "database_ping_failed")

\* task_worker_health_component: a busy worker cannot refresh its heartbeat.
WorkerHealth(e) ==
  CASE e.worker = "stopped" -> HlAnswer(FALSE, "task_worker_not_running")
    [] e.worker = "stale" -> HlAnswer(FALSE, "task_worker_heartbeat_stale")
    [] OTHER -> HlGood

\* capture_health_component: the simulation provider, embedded in the service
\* or asked for its readiness and its source,
SimulationHealth(p, e) ==
  LET embedded == p.provider \in {"simulated", "bkv"}
      reachable == embedded \/ e.capture \notin {"unreachable", "http-error"}
      ready == IF embedded THEN e.running ELSE e.capture # "not-ready"
  IN IF ~e.source \/ (~embedded /\ e.capture = "no-source")
     THEN HlAnswer(FALSE, "simulation_source_unavailable")
     ELSE IF ~reachable THEN HlAnswer(FALSE, "simulation_provider_unreachable")
     ELSE HlOf(ready, "simulation_provider_not_ready")

\* the BKV replay, from the runtime the snapshot loaded,
BkvHealth(shared) ==
  IF shared = "unavailable" THEN HlAnswer(FALSE, "bkv_unavailable")
  ELSE [HlGood EXCEPT !.batch = shared]

\* and the camera SDK.
SdkHealth(e) ==
  CASE e.capture = "unreachable" -> HlAnswer(FALSE, "capture_provider_unreachable")
    [] e.capture = "http-error" -> HlAnswer(FALSE, "capture_health_http_error")
    [] e.capture = "contract" -> HlAnswer(FALSE, "capture_health_contract_invalid")
    [] e.capture = "recovery" -> HlAnswer(FALSE, "capture_calibration_recovery_required")
    [] e.capture = "restart" -> HlAnswer(FALSE, "capture_sdk_restart_required")
    [] e.capture = "not-ready" -> HlAnswer(FALSE, "capture_provider_not_ready")
    [] e.capture = "sdk-down" -> HlAnswer(FALSE, "capture_sdk_not_ready")
    [] OTHER -> HlGood

\* unified_result_store_enabled for a BKV online source.
UnifiedBkv(p) == p.unified /\ p.dataSource = "bkv-online-mysql"

CaptureHealth(p, e, shared) ==
  IF p.mode = "offline" THEN HlGood
  ELSE IF p.mode = "simulation" THEN SimulationHealth(p, e)
  ELSE IF UnifiedBkv(p) THEN HlGood
  ELSE IF p.provider = "bkv" THEN BkvHealth(shared)
  ELSE IF p.provider = "simulated" THEN HlOf(e.running, "capture_stopped")
  ELSE SdkHealth(e)

\* calibration_reconciliation_health_component.
CalibrationHealth(e) ==
  CASE e.calibrationOperations = "clear" -> HlGood
    [] e.calibrationOperations = "open" -> HlAnswer(FALSE, "calibration_reconciliation_required")
    [] OTHER -> HlAnswer(FALSE, "calibration_reconciliation_lookup_failed")

\* The smallest free space reported; HlAbsent when none is.
MinimumFree(s) ==
  LET reported == {s.root, s.camera} \ {HlAbsent}
  IN IF reported = {} THEN HlAbsent ELSE CHOOSE m \in reported : \A n \in reported : m <= n

\* Whether a provider's storage is healthy.
RootsHealthy(s) ==
  s.api = "ok" /\ s.code = 0 /\ s.exists /\ s.writable /\ MinimumFree(s) >= HlMinimum /\ s.queue

\* The reason reported beside it, which knows one case more.
StorageReason(s) ==
  CASE s.api = "timeout" -> "storage_timeout"
    [] s.api = "http-error" -> "storage_status_http_error"
    [] HlAbsent \in {s.root, s.camera} -> "storage_status_contract_invalid"
    [] s.code # 0 -> "storage_status_provider_error"
    [] ~s.exists -> "storage_root_missing"
    [] ~s.writable -> "storage_root_not_writable"
    [] MinimumFree(s) < HlMinimum -> "storage_capacity_below_watermark"
    [] ~s.queue -> "storage_queue_not_accepting"
    [] OTHER -> "none"

\* storage_health_component_with_timeout_and_bkv_runtime.
StorageHealth(p, e, shared) ==
  IF p.mode = "offline" /\ p.provider # "bkv" THEN HlGood
  ELSE IF UnifiedBkv(p) THEN HlOf(e.catalog, "unified_result_catalog_unavailable")
  ELSE IF p.provider = "bkv" THEN BkvHealth(shared)
  ELSE IF p.provider = "simulated" THEN HlGood
  ELSE HlAnswer(RootsHealthy(e.storage), StorageReason(e.storage))

\* trigger_health_component_with_timeout: an optional gateway is reported and
\* does not gate readiness.
TriggerHealth(p, e) ==
  LET reason == CASE e.trigger = "unreachable" -> "trigger_gateway_unreachable"
                  [] e.trigger = "http-error" -> "trigger_gateway_http_error"
                  [] e.trigger = "contract" -> "trigger_gateway_contract_invalid"
                  [] e.trigger = "error" -> "trigger_gateway_reported_error"
                  [] OTHER -> "none"
  IN HlAnswer(reason = "none" \/ ~p.triggerRequired, reason)

-----------------------------------------------------------------------------
(* The algorithm.                                                          *)

\* algorithm_acceptance_report_valid.
ReportValid(r, config) ==
  r.status = "pass" /\ r.config = config /\ r.approved >= r.evaluated

\* algorithm_implementation_binding_valid, algorithm_calibration_binding_valid.
ImplementationBound(r, e) == r.core = e.core

CalibrationBoundAny(r, e) == TRUE

CalibrationBound(r, e) == r.calibration = e.calibration

\* algorithm_health_component with the external processing services,
ExternalHealth(p, e) ==
  CASE ~e.imageService -> HlAnswer(FALSE, "image_service_unavailable")
    [] ~e.imageWorker -> HlAnswer(FALSE, "image_worker_unavailable")
    [] p.provider # "bkv" /\ ~e.defectWorker -> HlAnswer(FALSE, "defect_worker_unavailable")
    [] p.provider = "bkv" /\ ~e.catalog -> HlAnswer(FALSE, "unified_result_catalog_unavailable")
    [] OTHER -> HlGood

Qualified(e) ==
  CASE ~ConfigValid(e.config) -> HlAnswer(FALSE, "algorithm_config_invalid")
    [] ~e.paths -> HlAnswer(FALSE, "algorithm_runtime_paths_invalid")
    [] ~ReportValid(e.report, e.config) -> HlAnswer(FALSE, "algorithm_acceptance_missing_or_invalid")
    [] ~ImplementationBound(e.report, e) -> HlAnswer(FALSE, "algorithm_implementation_not_approved")
    [] ~CalibrationBound(e.report, e) -> HlAnswer(FALSE, "algorithm_calibration_not_approved")
    [] OTHER -> HlGood

\* and within the service.
AlgorithmHealth(p, e) ==
  IF p.proxyOnly THEN ExternalHealth(p, e)
  ELSE IF p.provider = "simulated" THEN HlOf(p.policy = "demo", "production_simulated_algorithm_forbidden")
  ELSE IF p.provider = "bkv" \/ ~p.algorithm THEN HlGood
  ELSE Qualified(e)

\* production_policy_health_component.
PolicyHealth(p) ==
  IF p.mode # "online" THEN HlGood
  ELSE IF p.provider = "simulated" THEN HlOf(p.policy = "demo", "production_simulated_provider_forbidden")
  ELSE IF p.provider = "bkv" \/ ~p.algorithm THEN HlGood
  ELSE HlOf(p.policy = "production", "production_algorithm_policy_invalid")

-----------------------------------------------------------------------------
(* The snapshot.                                                           *)

\* The BKV runtime is loaded once for capture and storage.
SharedRuntime(p, e) == IF p.provider = "bkv" /\ ~p.unified THEN e.bkv ELSE "none"

\* A component without a shared runtime loads its own.
Runtime(shared, e) == IF shared = "none" THEN e.bkv ELSE shared

\* One component's answer; what the mode does not need is not asked.
ComponentHealth(check, p, e, shared) ==
  CASE check = "database" -> DatabaseHealth(e)
    [] check = "taskWorker" -> IF p.mode = "offline" THEN HlGood ELSE WorkerHealth(e)
    [] check = "shared" -> HlGood
    [] check = "capture" -> CaptureHealth(p, e, Runtime(shared, e))
    [] check = "calibrationReconciliation" -> IF p.mode = "offline" THEN HlGood ELSE CalibrationHealth(e)
    [] check = "storage" -> StorageHealth(p, e, Runtime(shared, e))
    [] check = "trigger" -> IF p.mode = "online" THEN TriggerHealth(p, e) ELSE HlGood
    [] check = "algorithm" -> IF p.mode = "offline" THEN HlGood ELSE AlgorithmHealth(p, e)
    [] check = "productionPolicy" -> PolicyHealth(p)

SnapshotBegin ==
  /\ hlSnapshot.at = 0 /\ hlSnapshots < MaxHlSnapshots
  /\ hlSnapshots' = hlSnapshots + 1
  /\ hlSnapshot' = [NoSnapshot EXCEPT !.at = 1, !.down = Down(hl) \cap Needs(hlProfile),
                               !.ever = Down(hl) \cap Needs(hlProfile)]
  /\ UNCHANGED <<hlProfile, hl, hlApproved, hlChanges>>

\* service_health_snapshot, one component per step.
SnapshotStep ==
  LET s == hlSnapshot
      check == HlChecks[s.at]
      shared == IF check = "shared" THEN SharedRuntime(hlProfile, hl) ELSE s.shared
  IN /\ s.at \in 1..Len(HlChecks)
     /\ hlSnapshot' = [at |-> s.at + 1, shared |-> shared,
                       checks |-> Append(s.checks, ComponentHealth(check, hlProfile, hl, shared)),
                       down |-> s.down, ever |-> s.ever]
     /\ UNCHANGED <<hlProfile, hl, hlApproved, hlChanges, hlSnapshots>>

SnapshotDone == hlSnapshot.at > Len(HlChecks)
SnapshotReady == SnapshotDone /\ \A i \in DOMAIN hlSnapshot.checks : hlSnapshot.checks[i].ok

\* service_health_response.
SnapshotAnswer ==
  /\ SnapshotDone
  /\ hlSnapshot' = NoSnapshot
  /\ UNCHANGED <<hlProfile, hl, hlApproved, hlChanges, hlSnapshots>>

\* The history of the snapshot: needed parts down throughout, and at some time.
Witness(e) ==
  hlSnapshot' = IF hlSnapshot.at = 0 THEN hlSnapshot
                ELSE [hlSnapshot EXCEPT !.down = @ \cap Down(e), !.ever = @ \cup (Down(e) \cap Needs(hlProfile))]

\* A component changes; a file is replaced.
HlChange(c) ==
  /\ hlChanges < MaxHlChanges /\ hlChanges' = hlChanges + 1
  /\ \E v \in HlValues(c) \ {hl[c]} : hl' = [hl EXCEPT ![c] = v]
  /\ Witness(hl')
  /\ UNCHANGED <<hlProfile, hlApproved, hlSnapshots>>

\* An acceptance report for the files in use is put in place; one that failed,
\* or was approved before it was evaluated, approves nothing.
Accept(status, evaluated, approved) ==
  /\ hlChanges < MaxHlChanges /\ hlChanges' = hlChanges + 1
  /\ hl' = [hl EXCEPT !.report = [status |-> status, config |-> hl.config, core |-> hl.core,
                                  calibration |-> hl.calibration, evaluated |-> evaluated, approved |-> approved]]
  /\ hlApproved' = IF status = "pass" /\ evaluated <= approved
                   THEN hlApproved \cup {<<hl.config, hl.core, hl.calibration>>} ELSE hlApproved
  /\ Witness(hl')
  /\ UNCHANGED <<hlProfile, hlSnapshots>>

HlNext ==
  \/ SnapshotBegin \/ SnapshotStep \/ SnapshotAnswer
  \/ \E c \in DOMAIN HlUp \ {"report"} : HlChange(c)
  \/ Accept("fail", 1, 1)
  \/ \E dates \in {<<1, 1>>, <<1, 2>>, <<2, 1>>} : Accept("pass", dates[1], dates[2])

-----------------------------------------------------------------------------
(* Properties.                                                             *)

\* A ready answer overlooks nothing: no part the profile's work needs was down
\* during the whole of the snapshot (service_health_snapshot; the eight checks
\* of docs/integrated-capture-management-acceptance.md, ICM-21).
ReadyOverlooksNothing == SnapshotReady => hlSnapshot.down = {}

\* Nothing the profile does not need closes readiness: an answer that is not
\* ready is due to a needed part that was down at some time of the snapshot, or
\* to the production policy.
UnneededDoesNotBlock ==
  SnapshotDone /\ ~SnapshotReady => hlSnapshot.ever # {} \/ ~PolicyHealth(hlProfile).ok

\* The algorithm qualifies only with files that were approved together: after
\* any replacement of the configuration, the implementation or the calibration
\* it does not, until a passing report names them (algorithm_health_component).
QualifiedWasApproved ==
  Qualified(hl).ok => <<hl.config, hl.core, hl.calibration>> \in hlApproved

\* Profile and conditions are of the kinds above.
HlTypeOK ==
  /\ hlProfile \in HlProfiles
  /\ \A c \in DOMAIN HlUp \ {"report"} : hl[c] \in HlValues(c)
  /\ \A i \in DOMAIN hlSnapshot.checks : ~hlSnapshot.checks[i].ok => hlSnapshot.checks[i].reason # "none"

\* Readiness is neither claimed over a failed part nor withheld for one that is
\* not needed, and the algorithm qualifies only with what was approved.
HealthSafety ==
  /\ HlTypeOK
  /\ ReadyOverlooksNothing
  /\ UnneededDoesNotBlock
  /\ QualifiedWasApproved

\* Missing capacity fields are a contract failure: storage that leaves out the
\* free space of a root is not reported healthy
\* (docs/capture-api-contract.md, warning watermark).
MissingCapacityFails ==
  \A i \in DOMAIN hlSnapshot.checks :
    hlSnapshot.checks[i].reason = "storage_status_contract_invalid" => ~hlSnapshot.checks[i].ok

=============================================================================
