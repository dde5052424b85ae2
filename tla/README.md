# Verification of the steel plate inspection runtime

TLA+ models of the stateful parts of the inspection runtime, the TLC runs that
check them on small instances and TLAPS proofs about them for every instance.
Paths below are relative to the repository.

## 1. The system

The runtime is a set of processes on one machine:

| part | where | modules |
| --- | --- | --- |
| production task queue | `service/src/production_tasks.rs`, `db/mod.rs` | `ProductionTasks`, `ProviderGrants` |
| runtime admission, drain, command lane | `service/src/main.rs` | `RuntimeAdmission` |
| runtime mode commit journal | `service/src/main.rs`, `server-monitor/src/service_supervisor.rs` | `ModeCommit` |
| calibration operation ledger | `service/src/calibration_operations.rs`, `db/mod.rs` | `CalibrationOperations` |
| service supervisor, monitor display | `server-monitor/src/service_supervisor.rs`, `background_monitor.rs` | `ServiceSupervisor` |
| capture supervisor | `service/src/main.rs`, `controlled_process.rs` | `CaptureSupervisor` |
| trigger gateway | `trigger/src/main.rs` | `TriggerGateway` |
| production sessions and captures | `service/src/main.rs`, `db/mod.rs` | `ProductionSessions` |
| record cleanup and retention | `service/src/artifact_cleanup.rs`, `main.rs`, `db/mod.rs` | `RecordCleanup` |
| defects and their review | `service/src/main.rs`, `db/mod.rs` | `DefectReview` |
| alarms | `service/src/main.rs`, `db/mod.rs` | `AlarmLifecycle` |
| report archive | `service/src/main.rs` | `ReportArchive` |
| configuration and revisions | `service/src/main.rs`, `db/mod.rs` | `ConfigRevisions` |
| site packages, runtime profiles | `service/src/site_config.rs`, `runtime_profile.rs`, `machine_site_config.rs`, `main.rs` | `SitePackages`, `RuntimeProfiles` |
| accounts, roles, login sessions | `service/src/main.rs` | `AdminAccounts` |
| health and qualification | `service/src/main.rs` | `ServiceHealth`, `CalendarDays` |
| depth geometry configuration | `service/src/main.rs` | `DepthGeometry` |
| database schema and seed data | `service/src/db/mod.rs` | `DatabaseSchema` |
| processing log, analysis passes | `service/src/main.rs`, `scripts/sick_flow_analysis_service.py` | `ProcessingLog` |
| BKV import and replay | `service/src/production_tasks.rs`, `db/mod.rs`, `main.rs` | `BkvBatches`, `BkvReplay` |
| BKV recording | `service/src/bkv.rs` | `BkvCursor` |
| BKV online source | `service/src/bkv_online.rs` | `BkvOnline` |
| algorithm service, result store | `algorithm-service/src/main.rs`, `result-contract/src/lib.rs` | `ResultStore` |
| image service | `image-service/src` | `ImageRenditions` |

(`service/` and the others are under `app/`, `scripts/` is not.) Section 6 lists what is not modelled.

How they interact: the trigger gateway and the client submit durable tasks to
the service; the service's single worker executes them under
`production_command_lock` against the capture provider and the algorithm
processes; direct device commands (calibration, camera settings) take the same
lock; a drain or a mode transition closes admission and waits for the worker
and for requests in flight; the supervisor acts on the mode commit that the
service published.

What makes it hard: the worker and the HTTP threads share the database without
transactions, so every read-then-write of one is interleaved with the other;
provider calls are side effects that must not be repeated after a crash, and a
crash may come between any two statements; failed statements are often
swallowed; admission is checked before work that other threads change.

## 2. The modules

| module | what it is |
| --- | --- |
| `ProductionTasks` | the durable task queue: table, worker, handlers, restart |
| `ProviderGrants` | what the queue promises the providers (abstract specification) |
| `ProductionTasksProofs`, `ProductionTasksPromises` | theorems about `ProductionTasks` |
| `MCProductionTasks` | requests for the TLC instances |
| `RuntimeAdmission` | admission of requests, command lane, drain, wait and rollback of a mode change |
| `MCRuntimeAdmission` | routes for the TLC instance |
| `ModeCommit`, `MCModeCommit` | a change of mode as a protocol of files between two processes; profiles and sites for TLC |
| `CalibrationOperations`, `ServiceSupervisor`, `CaptureSupervisor`, `TriggerGateway` | the components around the production API, together in `MCPlatform` |
| `ProductionSessions`, `RecordCleanup`, `ProcessingLog`, `BkvBatches`, `BkvReplay`, `BkvCursor`, `BkvOnline`, `ResultStore`, `ImageRenditions` | what records, keeps and shows inspections, together in `MCEvidence` |
| `AlarmLifecycle`, `DefectReview`, `ReportArchive`, `ConfigRevisions`, `RuntimeProfiles`, `SitePackages`, `AdminAccounts`, `ServiceHealth`, `CalendarDays`, `DepthGeometry`, `DatabaseSchema` | what runs and configures the inspection, together in `MCManagement` |
| `MCLiveness` | the components with liveness properties, under fairness |
| `AdmissionProofs`, `ModeCommitProofs`, `PlatformProofs`, `EvidenceProofs`, `AlarmAndConfigProofs`, `AccountProofs` | theorems about the other components, grouped by theme (section 4) |

`MCPlatform`, `MCEvidence`, `MCManagement` and `MCLiveness` hold components that
share no state with each other at this level. The variable `subject` names the
component a behaviour is about; it is chosen initially and never changes, the
other components stay in one initial state. One run therefore explores each of
them completely and none of their products.

Where a component does depend on another, the other is an input: the mode and
the hold of `ServiceSupervisor` are what `ModeCommit` publishes; the drain flag
of `ProductionTasks` is the negation of `accepting` in `RuntimeAdmission`; the
handlers of `ProductionSessions` run one at a time because `RuntimeAdmission`
shows the command lane exclusive; `SitePackages` has the marker of `ModeCommit`
as far as an activation and a start look at it.

### ProductionTasks

A step is one SQL statement of one thread. `pc["worker"]` is where
`worker_loop` and `claim_next_production_task` are; `pc["admin"]` is where the
handler that holds `production_task_admin_lock` is (there is at most one). Rows
are numbered in `created_at, id` order; a row's fixed columns are `row[t]`, the
others `status`, `phase`, `cancel`, `attempts`. A session stands for its
material.

| action | code |
| --- | --- |
| `WorkerSelect`, `WorkerReadDependency`, `WorkerBlock`, `WorkerClaim` | `claim_next_production_task` and `production_task_dependency_state`: the select, the read of the dependency and the conditional update are separate steps |
| `WorkerObserve`, `WorkerEnterLane`, `WorkerDispatch`, `ProviderReturns`, `WorkerFinalize`, `WorkerFinish` | `worker_loop`: checkpoints 10, 25 and 90, three reads of `cancel_requested`, the provider call, the audit entry, the unconditional final update |
| `PropagateSelect`, `PropagateMark` | `propagate_production_task_dependency_failure`, run by the worker, by recovery and by a cancel handler |
| `EnqueueAdmit`, `EnqueueInsert` | `enqueue_response`: all checks, then the insert |
| `CancelRead`, `CancelWrite` | `cancel_response` and `request_cancel_production_task`: the write acts on the status that was read |
| `RetryRead`, `RetryWrite`, `RequeueSelect`, `RequeueUpdate` | `retry_response`, `retry_production_task`, `requeue_blocked_production_task_descendants` |
| `Crash`, `RecoverTask`, `RecoverDone` | a restart and `recover_incomplete_production_tasks`, before requests are served |
| `WorkerClaimError`, `WorkerFinishError`, `PropagateError`, the second disjunct of `ReadCancel` | statements that fail and whose error the code swallows |
| `SetDraining` | `runtime_is_draining` changes |

Abstracted: payloads and results; progress numbers (a function of the phase);
the kinds' dispatch phases are one phase; an unavailable capability is a
provider failure; the 500 ms wait (the worker may look for work at any time);
the offline mode, in which the worker does not claim at all. The history
variables `calls`, `result`, `wasDone`, `retries`, `audited` record what the
properties speak about and guard nothing except the bound on retries.

### RuntimeAdmission

Every HTTP request is a thread that runs `handle_client` once; `pc[r]` is where
it is and `route[r]` what it asks for. `accepting`, `completion`, `inFlight` are
`RuntimeAdmissionState`, `lane` is the holder of `production_command_lock`.
`queued` and `running` are numbers of rows; which rows is the business of
`ProductionTasks`, whose `draining` is the negation of `accepting` here.

| action | code |
| --- | --- |
| `Enter`, `Reject`, `Leave` | `enter_runtime_admission` and the drop of its guard |
| `TakeLane`, `ReleaseLane`, `Refuse` | `handle_client`: the lane for production mutations (and for snapshots of the BKV provider), early answers |
| `SubmitCheck`, `SubmitInsert`, `Retry`, `Cancel` | the task handlers, as far as they change the number of open rows |
| `WorkerTop` ... `WorkerFinish` | `worker_loop` with its announcement of the current task |
| `DrainClose`, `DrainAnswer` | `runtime_drain_response`: publish, then wait at the lane |
| `TransitionClose`, `TransitionConflict`, `TransitionFence`, `TransitionRollback`, `TransitionCommit`, `TransitionUndo` | `save_admin_runtime_profile_response` for a change of mode |
| `TransitionCount` ... `TransitionSleep`, `TransitionQueryFails`, `Deadline` | `wait_for_runtime_transition_processing_drain`: six separate readings, `try_lock`, deadline |

Abstracted: the files and rows a change of mode writes are one step that
succeeds (`TransitionCommit`, which includes the answers that leave the rest to
recovery and keep admission closed) or is undone (`TransitionUndo`); requests
are finitely many; the drain flag and the size of the queue are read in one step
by `SubmitCheck`; authentication and poisoned locks are left out. `drainAsked`
and `committed` are history.

### ModeCommit

`disk` is the project file, the runtime profiles, the marker, the staging
directory and the supervisor's applied mode; `saves[t]` a request of an
administrator between two writes; `monitor` the tick of the supervisor between
two reads. `SaveStage` to `SaveReady` are `save_admin_runtime_profile_response`
for a change of mode, `PlainProfile` to `PlainCommit` the same handler without
one, `ActivateSelect` and `ActivateCommit` the activation of a site, `TickHold`
to `TickPromote` `reconcile` with `configured_acquisition_mode`, `Boot` the
start-up check. Any write may fail and either process may die between any two
steps. A profile is its own hash; of the clocks only "the marker is due" is
left, so a ready marker may be released at any moment. The supervisor writes
its applied mode in place; a file torn by that write is not modelled.

### CalibrationOperations, ServiceSupervisor, CaptureSupervisor, TriggerGateway

* `CalibrationOperations`: one step per statement of
  `mutation_response_with_dispatch`; the answer of the provider is any
  combination of what `provider_terminal_status` looks at, and names an apply,
  another one or none. `calls`, `ambiguous` and `evidence` are history.
* `ServiceSupervisor`: a reconcile of one service and a command are steps,
  because both run under one mutex. A launch may fail before the process exists,
  at the spawn or after it (`LaunchOutcome`). That the backoff has elapsed is an
  input. `Worker...` and `Configure...` are the refresh thread of
  `background_monitor.rs` and the commands that change what it shows.
* `CaptureSupervisor`: `supervisor_tick` runs in the supervisor thread and in
  requests, and takes two locks in turn; every critical section is a step. A
  request on a provider that the service did not start is forwarded to it
  (`PostExternal`). The provider, other processes on its port and elapsed times
  are inputs.
* `TriggerGateway`: a message has a transport, an event, a nonce and the time its
  sender stamped it, which may be ahead of the gateway's clock. Networks deliver
  late and twice; an answer may be lost. A thread reads the clock before it waits
  for the mutex, so checks may overtake each other; `outOfOrder` remembers the
  messages for which that, or a stamp ahead of the clock, happened. A delivery
  carries a signature or the operator's token.

### ProductionSessions, RecordCleanup, ProcessingLog

* `ProductionSessions`: one request at a time (command lane), write by write:
  `PsEvent`, `FlowOf`, `WriteSession`, `WriteInspection`, `CallProvider`,
  `FinalSession`, `FinalInspection`, `FinalFlow` are
  `write_production_event_response`; `CaptureCommit`, `CaptureOnce`,
  `SummaryFile`, `AlgorithmStart` and `AlgorithmEnd` the other routes. `PsAbort`
  is a failed statement or the end of the process at any of these points.
* `RecordCleanup`: `RcPlan` freezes the manifest, `RcInsert` stores it, `RcEntry`
  checks one file, `RcRemove` deletes it and `RcProgress` records it,
  `RcDirectories` and `RcComplete` end the cleanup, `RcRetry` takes an open one up
  again. Files may arrive late, change, be rebuilt by the cache or lose their
  folder meanwhile, also between the hash check and the removal (`rcRaced`), and
  come back after they were deleted (`rcBack`).
* `ProcessingLog`: a record of the log is read file by file while the passes of
  the analysis service (`FastPass`, `DefectPass` and their steps) rewrite the
  files under the plate's lock; a pass may fail, be interrupted or die.

### BkvBatches, BkvReplay, BkvCursor, BkvOnline

* `BkvBatches` has what a loaded batch is: the tests a manifest, its
  publication, its tables and its artifacts must pass, and the two conversions
  into rows, the full one of an import and the compact one of the serving
  index. A row is the function of its columns; the two conversions look ids,
  times and optional columns up in different ways, and a column may be blank or
  missing. A digest is the value it is the digest of.
* `BkvReplay`: an import loads three times and checks that it saw the same; a
  reader selects under the lock, verifies without it and fences afterwards; an
  advance verifies and swaps. Nothing in the built program reaches
  `advance_bkv_replay` through capture-once (`main.rs` answers by
  `capture_next` first); it is modelled from its definition and its tests.
* `BkvCursor`: the manager of `bkv.rs`; every file write is a step, and the
  process may end between any two.
* `BkvOnline`: the refreshed snapshot and its catalogue file, the image cache, and
  the world of one record, built under one of two locks and persisted as three
  files, each by remove and rename; a request may find the parts of two builds.

### ResultStore, ImageRenditions

* `ResultStore`: `PublishDigest`, `PublishCopy`, `PublishOut`, `PublishIn` and
  `PublishCommit` are the hash, the copy, the two renames and the transaction of
  `publish`; a failed commit renames back, which may fail as well. Scan, single
  import and BKV refresh are its callers.
* `ImageRenditions`: resolution, lookup, gate, second look, decode, encode and
  store of a rendition, and the cache of decoded sources behind a gate of its
  own; gates are weak references, so one lasts only as long as somebody holds it.
  A rendition file that cannot be read is rendered again.

### AlarmLifecycle, DefectReview, ReportArchive

* `AlarmLifecycle`: a monitor reads the open alarm of a type and writes it
  later, an operator likewise, with updates conditional on the status alone;
  conditions come and go. The camera monitor skips a round whose signature it has
  seen.
* `DefectReview`: imports, reviews and ingests hold the command lane (`drLane`),
  the deletion of a record or a type does not.
* `ReportArchive`: a report is named after the digest of its snapshot; looking,
  creating and writing the file are three steps.

### ConfigRevisions, RuntimeProfiles, SitePackages, DepthGeometry

* `ConfigRevisions`: the six writers and the restore, with the normalization of
  each value field by field (`ConfigValue`); the order of memory, row and
  revision is the code's, which differs between save and restore.
* `RuntimeProfiles`: validation, mode and capabilities of a profile as
  operators; `SitePackages` creates, clones, imports, renames, deletes and
  activates packages, one file operation per step, and restarts the service,
  which compares the selected package with the mode commit marker.
* `DepthGeometry`: a save names the hash it was made from, writes a file, then
  the revision row, and tries to put the file back when the row fails.

### AdminAccounts, ServiceHealth, CalendarDays, DatabaseSchema

* `AdminAccounts`: a handler checks, writes the row and then drops the sessions
  that became stale; `aaOverlap` records that two changes ran at once, which
  the code does not guard against. Passwords are right or wrong, hashes of the
  present or of the legacy form; a login with a legacy hash rewrites it
  (`LoginUpgrade`).
* `ServiceHealth`: eight probes one after the other while the components
  change; each probe is an operator over what its code looks at.
* `CalendarDays`: `EpochDays`, the day number of a date, against a walk through
  the calendar.
* `DatabaseSchema`: creation, migration and seeding as a list of statements,
  any of which may be the last of its start. The plates of
  `STEEL_SEED_DEMO_DATA` are left out.

## 3. Runs

Bounds: two or three rows, plates, versions or requests are enough for a parent
and its child, a plate and its successor, an old and a new value; two actors are
enough for every race between two of them, and one failed statement, death or
crash (two for `ModeCommit`) enough to put it between any two steps. Larger
values repeat the same races. The clocks of `TriggerGateway` and
`AdminAccounts` run past the end of the window, the session and the lock they
measure. `MaxReplayEntries = 2` holds every nonce of the instance, so TLC does not
reach the branch of a full table; the proof covers it. The image cache of the
safety run has three profiles, two requests and two faults, so that renditions
evict each other and a decoded source is shared; the liveness run has two
profiles and one fault. `MaxCalDays = 1100` from four starting days (1970, 1999,
2099 and 25 February 2100) crosses leap days, a leap century and a common one.
Symmetric sets are threads, connections and workers that no property names, and
for `ModeCommit` sites and profiles; liveness runs have no symmetry.
`CHECK_DEADLOCK FALSE` (all but `admission`): once its bounds are used up the
system rests.

Most runs check one invariant per component that is the conjunction of what the
component promises (`TriggerSafety` of four promises, say); its conjuncts are
definitions with comments of their own. The deviations that the code does have
are conditions in them, over history variables that say when the code does not
keep the promise; section 5 lists these.

| run | instance | checks |
| --- | --- | --- |
| `tasks_faults` | 2 rows, 1 retry, 1 crash, 1 failed statement, drain | types, claimability, prerequisites, no silent replay, real outcomes, phases |
| `tasks_requests` | 3 rows, capacity 2, 7 requests, drain | chain shape, idempotent enqueue, prerequisites, real outcomes, phases, capacity on insert |
| `tasks_promises` | 2 rows, 1 retry, 1 crash | every queued task ends; refinement of `ProviderGrants` |
| `admission` | 2 requests of any route, 0 or 1 task queued, capacity 3, fair | types, exact `in_flight`, exclusive lane, quiet publication, closed after publication, every request is answered |
| `mode_commit` | 2 sites, 3 profiles, 2 saves, 2 deaths, 1 failed write | the service and the processes the supervisor started never run in different modes; an interrupted change can be completed; a mode in force is recorded |
| `platform_components` | 2 threads, 3 operation ids; 1 service; 1 caller; 2 connections, 1 replay | at most one dispatch, fences and reconciliation; bounded restarts, stops that stick, no lost refresh; no orphaned or fenced capture, bounded launches; exact count, drain and single forwarding of triggers |
| `evidence_components` | 2 sessions and plates; 3 files, 2 administrators; 2 batches, 2 readers; 3 tiles; 2 images; 1 record, 2 publishers; 1 artifact, 2 workers | records before capture, idempotent commits and immutable provenance; deletion of frozen files only and before their rows; a plate logged as completed is; replay, snapshots and served files agree with what was imported, both conversions with each other; cursors, caches and catalogues |
| `management_components` | 1 operator, 2 administrators, 2 sites, 2 accounts, 6 configurations, databases of every release found at start | one open alarm per episode and who closed it; decisions kept; reports immutable; stored values load; running package and selection; accounts, roles and sessions; readiness and qualification; geometry saves; schema and seed |
| `liveness_components` | 1 operator; 3 files; 2 workers | alarms follow their conditions, retried cleanups finish, rendition requests are answered |
| `tasks_cancel_race` | 1 row | violated: a cancel overwrites a finished result |
| `second_session` | 2 plates | violated: the announcement of the next plate lets a second session become active |
| `record_lost` | 1 record | violated: a catalogued record is missing between two renames, and for good after a death there |

The worker polls for ever, so a deadlock of the others shows as a violation of
`Answered`, not as a deadlock of the model. Two requests are a change of mode
and a drain, a second change or one piece of work; what holds for any number of
them is proved (section 4).

Fairness of `RuntimeAdmission` (`FairSpec`): weak fairness of every request, of
the worker and of the deadline. Provider calls return (they have timeouts) and
the clock advances. `production_command_lock` is not a fair mutex; weak fairness
is enough because finitely many requests contend for it. With completions that
arrive for ever a drain could be passed over for ever, and nothing is claimed
about that.

Fairness of `ProductionTasks` (`FairSpec`): weak fairness of the worker's steps and of the handler
that holds the lock. The worker thread never waits for another thread except
for `production_command_lock`, whose holders are bounded by provider timeouts,
and wakes at least every 500 ms; a handler does not wait once it has the lock.
Nothing is assumed of clients, crashes or failing statements. `tasks_promises` has
no failing statements: after a failed final update the row stays `running`
until the next restart.

Fairness of `MCLiveness`: weak fairness of both alarm monitors (threads that loop
with a sleep), of a cleanup request once it has begun and of every image worker
(threads that wait only for gates whose holders step); strong fairness of a
retry, that is, an administrator who keeps asking. Nothing is assumed of
conditions, operators, files or faults. The fairness of a component that is not
the subject asks for nothing, because in its idle state no fair step of it is
enabled. `AlarmsFollowConditions` needs the conditions to settle, and for cameras
acquisition to stay online; `RetriesFinish` is about cleanups that can be finished
(`Completable`).

## 4. Proofs

Every theorem holds for every value of the constants that the named assumptions
allow: any number of threads, rows, services, files, requests, crashes and failed
statements. The assumptions (`ASSUME` in the module that declares the constants)
say that bounds are numbers, that finite sets are finite where the code counts
them, and that placeholders ("no row", "nobody") are not values; TLC evaluates
them on every run. Each safety theorem rests on an inductive invariant, stated in
front of its proof, that TLC checked on the instance of the run first. The proof
has one lemma or step per action, and one below it per conjunct that the action
can disturb.

| module | about | theorems (property of a run) |
| --- | --- | --- |
| `ProductionTasksProofs` | the task queue | `TypeCorrect`, `BlankCorrect`, `QueuedIsAlwaysClaimable`, `NeverReplaysSilently`, `PrerequisiteAlwaysDone`, `QueueAlwaysSafe` (`QueueSafety`) |
| `ProductionTasksPromises` | what it promises to providers and clients | `OutcomesAlwaysReal` (`OutcomeSafety`), `ChainsAlwaysWellFormed` (`ChainsWellFormed`), `EnqueueAlwaysIdempotent` (`IdempotentEnqueue`), `InsertsKeepCapacity` (`InsertWithinCapacity`), `QueueKeepsGrants` (`KeepsGrants`) |
| `AdmissionProofs` | admission, trigger gateway | `AdmissionTypes`, `LaneAlwaysExclusive`, `InFlightAlwaysExact`, `CommitAlwaysQuiet`, `CommittedAlwaysClosed`, `AdmissionAlwaysSafe` (`AdmissionSafety`); `TriggerAlwaysSafe` (`TriggerSafety`) |
| `ModeCommitProofs` | the mode journal | `ModeInvariant`, `NeverSplitBrain` (`NoSplitBrain`), `ModeChangeAlwaysSafe` (`ModeChangeSafety`) |
| `PlatformProofs` | service supervisor, calibration ledger, depth geometry | `SupervisorAlwaysSafe` (`SupervisorSafety`), `SavedStopAlwaysSticks` (`SavedStopSticks`); `CalibrationAlwaysSafe` (`CalibrationSafety`); `SavesTakeEffect` (`GeometrySteps`) |
| `EvidenceProofs` | result store, defects, reports, processing log | `StoreAlwaysSafe` (`StoreSafety`); `DecisionsSurviveRebuilds` (`ReviewSteps`); `ReportsStayAsIssued` (`ReportSteps`); `LogAlwaysTrue` (`LoggedAsCompleted`) |
| `AlarmAndConfigProofs` | configuration, alarms | `ConfigAlwaysSafe` (`ConfigSafety`); `AlarmsAlwaysSafe` (`AlarmSafety`) |
| `AccountProofs` | accounts, the calendar | `AccountsAlwaysSafe` (`AccountSafety`); `DaysAlwaysCounted` (`CountsDays`) |

### The arguments

* **Task queue.** `RowsOnly` (threads hold rows that exist) makes the updates
  typed. `QueuedIsClaimable` is not inductive: a cancel that read "running" sets
  the flag later, when the row might be queued again; `CancelInv` adds that such
  a cancel's row is neither queued nor blocked until it writes, because only the
  handler that holds the lock requeues. `BudgetInv`: a pending row has a claim
  left in its budget and a claimed task its call. `PreparedInv`: between the
  dependency check and the call the predecessor may be retried or cancelled, but
  that it was done once is never undone.
* **Promises of the queue.** `OutcomeInv`: the row the worker executes reports no
  end, and what the worker is about to report is what the provider did.
  `EnqueueInv`: what the checks of an enqueue found still holds when it inserts
  (`Fits`), because the other handlers are excluded and the worker only moves rows
  along; each session has a latest row. `CapacityInv`: likewise for the room in
  the queue. `QueueKeepsGrants` maps each step to a step of `ProviderGrants` or to
  a stutter.
* **Admission.** `RunningInv` (a worker with a task is one of the running rows)
  keeps a count from falling below zero; `LaneInv`: a thread is between taking and
  releasing the lane exactly when it is its holder; `RouteInv`: the places of a
  mode change belong to counted requests; `ChangeInv`: one change of mode at a
  time, behind a closed admission, so that the rollback of one does not reopen
  another's. The step that matters is `TransitionSeal`: completions are closed in
  the critical section that reads `in_flight`, the count is exact, so a count of
  one is the request itself.
* **Triggers.** A message past its authentication is *spent*: its nonce is in the
  table with a time not before the message's own, or the latest purge was by a
  time at which the message is out of the window (`Spent`). It is in the hands of
  one thread and was not forwarded before. Messages in `outOfOrder` are left out:
  for them the time of the check was before that of the last purge, or before
  their own stamp.
* **Mode journal.** `ModeInv` ties the marker to everything else: while it
  announces a change nothing but that change is at work (`Quiet`); which modes the
  two processes may have is a function of the marker (`Lawful`); what the
  supervisor's tick has read is still good for what it is about to do (`TickInv`);
  every mode on disk has a recorded revision that no failing change takes back
  (`RecordInv`).
* **Service supervisor.** A service is faulted exactly when its failures are at
  the budget, and automatic starts of processes are at most the counted failures
  and one launch not yet answered for; a stop that was saved keeps the mode from
  being normal; what is displayed is stale only while a refresh is requested or
  the window's command is about to request it (`RefreshPending`).
* **Calibration.** The thread past `try_lock` is alone; until the outcome is
  stored the row is its own and dispatching; what a recovery expects to undo is
  what its parent's row says, and it goes on to the parent only with its own
  evidence stored: a success whose answer named what was expected, or neither
  named anything.
* **Depth geometry.** A save under the lock has written the file that is read, one
  revision after its base, and putting it back restores the base if the file it
  replaced could be read; while no failure lost a file, no recorded revision is
  above the current one.
* **Result store.** Whoever replaces a record has its blobs in place, and those of
  the record it may restore; unless publications of one id met or a rollback
  failed (`rsTorn`), one worker replaces it and the catalogue still has what that
  worker put aside.
* **Defects, reports, log.** A row belongs to the inspection of its id and is
  inactive only when reviewed; an ingest that could read knows what to skip. Who
  writes a report's file has created it. The state file says "ready" between
  passes only and together with the manifest (`ReadyIsWhole`), and what the log has
  read of a finished stage stays so until a pass begins (`ReadHolds`).
* **Configuration and alarms.** What a request holds can be loaded; a stored value
  has a revision or a request about to write it, unless a statement failed. What
  a monitor has read of a type still says which row may be open, because nobody
  else opens alarms of its types, and the acknowledgement it has read is the
  row's, unless one came after the read (`late`).
* **Accounts.** Unless changes overlapped, at most one connection is busy and it
  knows, at its write, what its checks found (`Knows`); every live session agrees
  with its account and role or is about to be dropped; an administrator remains.
* **Calendar.** The formula of `rfc3339_epoch_nanos` is shown to add one at every
  step of the calendar, for all years, by cases over months and leap rules.

Proofs are grouped by theme; each group shares no more than the modules it
extends, because every definition in scope is translated for every obligation.
For the same reason leaves name the prover (`Zenon`, `SMT`) that needs less.

### Only model-checked

* Liveness under fairness: `QueuedResolves`, `Answered`, `AlarmsFollowConditions`,
  `RetriesFinish`, `RequestsAnswered`.
* `OnlineSafety`, `RenditionSafety`, `ReplaySafety`, `ReplaySteps` and
  `MappingsAgree` compute sums, folds, filters or conversions over sequences of any
  length, which needs induction over data; `ProvenanceImmutable`, `SessionSafety`
  and `SiteSafety` likewise look up the newest of a list of rows or packages.
* `CaptureSafety`: its bound on launches counts the threads that are past a check,
  a sum over a set. `CleanupSteps`, `CursorSafety`, `HealthSafety` and `SchemaSafety`
  have no proof here.

## 5. What the code does not keep

Three runs end in a violation; the findings in `PROJECT.json` quote the lines
that state the intent. The following definitions state what a document, comment
or test says, are violated as well, and have no run of their own; each can be
seen by giving it as the only `INVARIANT` (or `PROPERTY`, marked *) of the
configuration named.

| definition | configuration | what says so, and what happens |
| --- | --- | --- |
| `BlockedHasFailedPrerequisite` | `ProductionTasks_faults` | `docs/capture-api-contract.md:677` "Retrying the failed parent requeues its blocked descendants": a failure walk blocks one after the requeue has passed |
| `LateCancelIsAudited` | `ProductionTasks_faults` | `docs/capture-api-contract.md:792`: a cancel between the last read and the final update is not audited |
| `QueueBounded` | `ProductionTasks_faults`, `Capacity = 1` | `docs/qt-to-tauri-migration.md:84` "The queue is bounded": a retry goes beyond the capacity |
| `DrainHolds`, `CommitSeesNoTask` | `RuntimeAdmission_admission` | `docs/atomic-upgrade-and-database-migration-design.md:179` and `:33`: a rolled-back change of mode undoes a drain; a steel-out task is open while a mode is published |
| `CommittedMatchesSelected` | `ModeCommit_crash` | `main.rs:34360` "commit marker must match the selected profile": an activation meets another save |
| `ClosureExists` | `Platform_components` | `docs/capture-api-contract.md` "The only safe closure is a rollback ...": two operations may be unresolved at once, and then neither can be closed |
| `StopSticks`* | `Platform_components` | `app/server-monitor/README.md:57` "an explicit stop changes a normal service to manual so it stays stopped": not when saving the mode failed once |
| `StoppedCaptureStays` | `Platform_components` | the test at `main.rs:31573`: a tick past its checks starts capture after a confirmed stop |
| `ActivatedSiteLoads` | `Management_components` | `README.md` "Run the availability check before activation": the check accepts profiles the start refuses |
| `MissingCapacityFails` | `Management_components` | `docs/capture-api-contract.md:1340` "Missing capacity fields are a contract failure": the reason says so, the check stays ok |
| `BlobsAreContentAddressed` | `Evidence_components`, `MaxRsVersion = 3` | the comment at `result-contract/src/lib.rs:167`: a source that changes between hash and copy |

What the checked properties leave out because the code does not keep it:

* Calibration: a rollback that read the fence before its parent closed it expects
  no apply, and an answer that names none then reconciles the parent.
* Service supervisor: a launch that fails before the process exists is not
  counted against the budget of a service (no executable, no log file), and is
  tried again without end.
* Capture: a start that was past its checks may follow a confirmed stop.
* Trigger gateway: a signed message may be accepted again when its check waited
  for the mutex while a later one purged the nonces, or when it was stamped ahead
  of the gateway's clock and leaves the table before it leaves the window.
* Sessions: `docs/capture-api-contract.md:807` excludes active sessions from
  cleanup; they are looked at when the manifest is planned, and not again.
* Cleanup: a file written between the hash check and the removal is deleted with
  its new content; a summary or cache file written after its deletion survives the
  rows; a file whose folder is gone fails at every retry.
* Processing log: the files of a plate are read one after the other, so a pass that
  begins meanwhile may be missed.
* Result store: the rollback of a failed publication may fail too, and then
  directory and catalogue differ until the next publication.
* BKV online: a reader across a rebuild may get the new manifest with an old or
  missing surface; a failed replacement leaves no catalogue file; a frame
  rewritten in place does not change the revision.
* Alarms: a monitor that closes an alarm writes the row it has read, and takes an
  acknowledgement over that came in meanwhile, although
  `docs/capture-api-contract.md:833` says "the first actor/note is retained".
* Site packages: the files of a package appear one by one, so a half-made one may
  be listed, activated and run; a clone that fails half-way stays; a death during
  an activation leaves a selection without its marker, which the next start
  refuses; the rollback of an activation may fail.
* Accounts: requests that overlap may leave a session with an old role; a login
  that upgrades a legacy hash keeps the flag to change the password in its session
  although the row has lost it.
* Depth geometry: putting the file back may fail, and the number of a revision may
  then be used twice.
* Schema: when fewer than eight cameras exist the defaults write over the rows that
  are there; a death before the ledger is marked leaves a migration row that every
  later start trips over.

## 6. Not modelled

* The capture core and the camera worker: they live in SDK callbacks whose
  contract is not in the repository. The service sees them through provider
  calls, whose outcomes the models leave open.
* Pipeline workers and the host supervisor: a child process and its restarts,
  as in `ServiceSupervisor` and `CaptureSupervisor`.
* Record store, inspection world, surfaces, codecs, algorithm core: conversion
  and numerics without state of their own.
* Client and tray (view state), scripts (operator tools), the runtime contract
  (types).
* Of modelled parts: listing and export handlers, the audit log, the rows of
  cameras and defect types, log files and resource figures, permission tables,
  wire formats, and poisoned locks.
