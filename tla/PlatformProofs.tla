--------------------------- MODULE PlatformProofs ---------------------------
(***************************************************************************)
(* Proofs about the parts of the platform that keep devices and services   *)
(* in order: the supervisor of the services, the ledger of calibration     *)
(* operations and the depth geometry.                                      *)
(***************************************************************************)
EXTENDS CalibrationOperations, DepthGeometry, ServiceSupervisor, TLAPS

-----------------------------------------------------------------------------
(***************************************************************************)
(* ServiceSupervisor, for any services, any budget of start failures and   *)
(* any number of requests, ticks and failures of processes.                *)
(***************************************************************************)

ProcState == {"none", "starting", "ready", "sick"}

RuntimeRecord ==
  [child : {"none", "own", "ended"}, known : BOOLEAN, desired : BOOLEAN,
   failures : 0 .. MaxStartFailures, faulted : BOOLEAN, observed : BOOLEAN]

SupervisorTypes ==
  /\ proc \in [Service -> ProcState]
  /\ runtime \in [Service -> RuntimeRecord]
  /\ startup \in [Service -> StartupMode]
  /\ persisted \in [Service -> StartupMode]
  /\ mode \in AcquisitionMode
  /\ holding \in BOOLEAN
  /\ autoStarts \in [Service -> Nat]
  /\ stopped \in [Service -> BOOLEAN]

\* A launch that is not yet answered for by a counted failure.
Outstanding(r) == IF r.child = "none" THEN 0 ELSE 1

\* What holds of the record r of a service whose process is p.
RecordFits(r, p) ==
  /\ r.child = "own" => p # "none"
  /\ r.faulted <=> r.failures = MaxStartFailures

ServiceOK(s) ==
  /\ RecordFits(runtime[s], proc[s])
  /\ autoStarts[s] <= MaxStartFailures
  /\ Enabled(s) /\ startup[s] = "normal" =>
       autoStarts[s] <= runtime[s].failures + Outstanding(runtime[s])
  /\ stopped[s] /\ persisted[s] # "normal" => startup[s] # "normal"

\* A refresh is requested, or the window's command is about to request one.
RefreshPending == refresh \/ configuring = "request"

DisplayOK ==
  /\ worker \in {"clone", "republish", "poll"} /\ polling # origin => RefreshPending
  /\ worker = "sleep" /\ shown # origin => RefreshPending

SupervisorInv ==
  /\ SupervisorTypes
  /\ \A s \in Service : ServiceOK(s)
  /\ DisplayOK

\* A record after record_start_failure.
LEMMA FailedRecord ==
  ASSUME NEW r \in RuntimeRecord,
         r.faulted <=> r.failures = MaxStartFailures
  PROVE  /\ Failed(r) \in RuntimeRecord
         /\ Failed(r).child = r.child
         /\ Failed(r).known = r.known /\ Failed(r).desired = r.desired
         /\ Failed(r).observed = r.observed
         /\ Failed(r).faulted <=> Failed(r).failures = MaxStartFailures
         /\ r.failures < MaxStartFailures => Failed(r).failures = r.failures + 1
         /\ r.failures = MaxStartFailures => Failed(r).failures = MaxStartFailures
         /\ r.failures <= Failed(r).failures
<1> DEFINE n == IF r.failures < MaxStartFailures THEN r.failures + 1 ELSE r.failures
           b == (r.failures + 1 >= MaxStartFailures)
<1>1. n \in 0 .. MaxStartFailures /\ b \in BOOLEAN
  BY SupervisorAssumption DEF RuntimeRecord
<1>2. b <=> n = MaxStartFailures
  BY SupervisorAssumption DEF RuntimeRecord
<1>3. Failed(r) = [r EXCEPT !.failures = n, !.faulted = b]
  BY Zenon DEF Failed
<1>4. /\ r.failures < MaxStartFailures => n = r.failures + 1
      /\ r.failures = MaxStartFailures => n = MaxStartFailures
      /\ r.failures <= n
  BY SupervisorAssumption DEF RuntimeRecord
<1> HIDE DEF n, b
<1>5. Failed(r).failures = n /\ Failed(r).faulted = b
  BY Zenon, <1>3 DEF RuntimeRecord
<1>6. Failed(r) \in RuntimeRecord
  BY Zenon, <1>1, <1>3 DEF RuntimeRecord
<1>7. /\ Failed(r).child = r.child
      /\ Failed(r).known = r.known /\ Failed(r).desired = r.desired
      /\ Failed(r).observed = r.observed
  BY Zenon, <1>3 DEF RuntimeRecord
<1>8. QED
  BY Zenon, <1>2, <1>4, <1>5, <1>6, <1>7

\* A step that concerns one service, as far as the others are concerned; a
\* save writes the startup modes of all of them.
OtherServicesKept(s) ==
  /\ mode' = mode
  /\ \A u \in Service \ {s} :
       /\ proc'[u] = proc[u] /\ runtime'[u] = runtime[u] /\ startup'[u] = startup[u]
       /\ autoStarts'[u] = autoStarts[u] /\ stopped'[u] = stopped[u]
       /\ persisted'[u] \in {persisted[u], startup[u]}

\* Such a step keeps every service in order if it leaves that one in order.
LEMMA OneServiceSteps ==
  ASSUME NEW s \in Service, \A u \in Service : ServiceOK(u), OtherServicesKept(s), ServiceOK(s)'
  PROVE  \A u \in Service : ServiceOK(u)'
<1> TAKE u \in Service
<1>1. CASE u = s
  BY Zenon, <1>1
<1>2. CASE u # s
  <2>1. /\ mode' = mode
        /\ proc'[u] = proc[u] /\ runtime'[u] = runtime[u] /\ startup'[u] = startup[u]
        /\ autoStarts'[u] = autoStarts[u] /\ stopped'[u] = stopped[u]
        /\ persisted'[u] \in {persisted[u], startup[u]}
    BY Zenon, <1>2 DEF OtherServicesKept
  <2>2. ServiceOK(u)
    BY Zenon
  <2>3. CASE persisted'[u] = persisted[u]
    BY Zenon, <2>1, <2>2, <2>3 DEF ServiceOK, Enabled, RecordFits, Outstanding
  <2>4. CASE persisted'[u] = startup[u]
    BY Zenon, <2>1, <2>2, <2>4 DEF ServiceOK, Enabled, RecordFits, Outstanding
  <2>5. QED
    BY Zenon, <2>1, <2>3, <2>4
<1>3. QED
  BY Zenon, <1>1, <1>2

\* The record of a service as its reconcile begins: an ended child is counted.
LEMMA AfterExitRecord ==
  ASSUME SupervisorTypes, NEW s \in Service, ServiceOK(s)
  PROVE  /\ AfterExit(s) \in RuntimeRecord
         /\ AfterExit(s).faulted <=> AfterExit(s).failures = MaxStartFailures
         /\ AfterExit(s).child = "own" <=> runtime[s].child = "own"
         /\ AfterExit(s).child \in {"none", "own"}
         /\ Enabled(s) /\ startup[s] = "normal" =>
              autoStarts[s] <= AfterExit(s).failures + Outstanding(AfterExit(s))
<1>t. runtime[s] \in RuntimeRecord /\ autoStarts[s] \in Nat
  BY Zenon DEF SupervisorTypes
<1>1. CASE runtime[s].child = "ended"
  <2> DEFINE r == [runtime[s] EXCEPT !.child = "none", !.known = FALSE]
  <2>1. r \in RuntimeRecord /\ r.failures = runtime[s].failures /\ r.faulted = runtime[s].faulted
        /\ r.child = "none"
    BY Zenon, <1>t DEF RuntimeRecord
  <2>2. r.faulted <=> r.failures = MaxStartFailures
    BY Zenon, <2>1 DEF ServiceOK, RecordFits
  <2>3. AfterExit(s) = Failed(r)
    BY Zenon, <1>1 DEF AfterExit
  <2> HIDE DEF r
  <2>4. /\ Failed(r) \in RuntimeRecord /\ Failed(r).child = "none"
        /\ Failed(r).faulted <=> Failed(r).failures = MaxStartFailures
        /\ r.failures < MaxStartFailures => Failed(r).failures = r.failures + 1
        /\ r.failures = MaxStartFailures => Failed(r).failures = MaxStartFailures
    BY Zenon, <2>1, <2>2, FailedRecord
  <2>5. Enabled(s) /\ startup[s] = "normal" => autoStarts[s] <= Failed(r).failures
    <3> HAVE Enabled(s) /\ startup[s] = "normal"
    <3>1. autoStarts[s] <= r.failures + 1 /\ autoStarts[s] <= MaxStartFailures
      BY Zenon, <1>1, <2>1 DEF ServiceOK, Outstanding
    <3>2. r.failures \in 0 .. MaxStartFailures
      BY Zenon, <2>1 DEF RuntimeRecord
    <3>3. QED
      BY <1>t, <2>4, <3>1, <3>2, SupervisorAssumption
  <2>6. QED
    BY <1>1, <1>t, <2>3, <2>4, <2>5, SupervisorAssumption DEF Outstanding, RuntimeRecord
<1>2. CASE runtime[s].child # "ended"
  <2>1. AfterExit(s) = [runtime[s] EXCEPT !.known = @ \/ runtime[s].child = "own"]
    BY Zenon, <1>2 DEF AfterExit
  <2>2. /\ AfterExit(s) \in RuntimeRecord
        /\ AfterExit(s).child = runtime[s].child
        /\ AfterExit(s).failures = runtime[s].failures
        /\ AfterExit(s).faulted = runtime[s].faulted
    BY Zenon, <1>t, <2>1 DEF RuntimeRecord
  <2>3. runtime[s].child \in {"none", "own"}
    BY Zenon, <1>t, <1>2 DEF RuntimeRecord
  <2>4. QED
    BY Zenon, <2>2, <2>3 DEF ServiceOK, RecordFits, Outstanding
<1>3. QED
  BY Zenon, <1>1, <1>2

\* start_service leaves a record that fits the process, and touches no other
\* service.
StartResult(s, r) ==
  /\ proc' \in [Service -> ProcState] /\ runtime' \in [Service -> RuntimeRecord]
  /\ \A u \in Service \ {s} : proc'[u] = proc[u] /\ runtime'[u] = runtime[u]
  /\ RecordFits(runtime'[s], proc'[s])

\* A launch leaves a handle, is counted as a failure, or ends before the spawn.
LEMMA LaunchResult ==
  ASSUME SupervisorTypes, NEW s \in Service, NEW r \in RuntimeRecord, NEW p \in ProcState,
         NEW outcome \in LaunchOutcome, RecordFits(r, p), Launch(s, r, p, outcome)
  PROVE  /\ StartResult(s, r)
         /\ \/ runtime'[s].child # "none" /\ runtime'[s].failures = r.failures
            \/ runtime'[s] = Failed(r)
            \/ outcome = "unprepared"
<1>t. proc \in [Service -> ProcState] /\ runtime \in [Service -> RuntimeRecord]
  BY Zenon DEF SupervisorTypes
<1>1. CASE outcome = "spawned"
  <2>1. PICK child \in IF p = "none" THEN {"own"} ELSE {"own", "ended"} :
          runtime' = [runtime EXCEPT ![s] = [r EXCEPT !.child = child, !.known = TRUE,
                                                      !.desired = TRUE]]
    BY Zenon, <1>1 DEF Launch
  <2>2. proc' = [proc EXCEPT ![s] = IF p = "none" THEN "starting" ELSE p]
    BY Zenon, <1>1 DEF Launch
  <2> DEFINE q == [r EXCEPT !.child = child, !.known = TRUE, !.desired = TRUE]
  <2>3. /\ q \in RuntimeRecord /\ q.child = child /\ q.child # "none"
        /\ q.failures = r.failures /\ q.faulted = r.faulted
    BY Zenon DEF RuntimeRecord
  <2>4. runtime' = [runtime EXCEPT ![s] = q]
    BY Zenon, <2>1
  <2> HIDE DEF q
  <2>5. /\ runtime' \in [Service -> RuntimeRecord] /\ runtime'[s] = q
        /\ \A u \in Service \ {s} : runtime'[u] = runtime[u]
    BY Zenon, <1>t, <2>3, <2>4
  <2>6. /\ proc' \in [Service -> ProcState] /\ proc'[s] # "none"
        /\ \A u \in Service \ {s} : proc'[u] = proc[u]
    BY Zenon, <1>t, <2>2 DEF ProcState
  <2>7. RecordFits(runtime'[s], proc'[s])
    BY Zenon, <2>3, <2>5, <2>6 DEF RecordFits
  <2>8. QED
    BY Zenon, <2>3, <2>5, <2>6, <2>7 DEF StartResult
<1>2. CASE outcome # "spawned"
  <2> DEFINE q == IF outcome = "failed" THEN Failed(r) ELSE r
  <2>1. runtime' = [runtime EXCEPT ![s] = q] /\ proc' = [proc EXCEPT ![s] = p]
    BY Zenon, <1>2 DEF Launch
  <2>2. /\ q \in RuntimeRecord /\ q.child = r.child
        /\ q.faulted <=> q.failures = MaxStartFailures
    BY Zenon, FailedRecord DEF RecordFits
  <2>3. q = Failed(r) \/ outcome = "unprepared"
    BY Zenon, <1>2 DEF LaunchOutcome
  <2> HIDE DEF q
  <2>4. /\ runtime' \in [Service -> RuntimeRecord] /\ runtime'[s] = q
        /\ \A u \in Service \ {s} : runtime'[u] = runtime[u]
    BY Zenon, <1>t, <2>1, <2>2
  <2>5. /\ proc' \in [Service -> ProcState] /\ proc'[s] = p
        /\ \A u \in Service \ {s} : proc'[u] = proc[u]
    BY Zenon, <1>t, <2>1
  <2>6. RecordFits(runtime'[s], proc'[s])
    BY Zenon, <2>2, <2>4, <2>5 DEF RecordFits
  <2>7. QED
    BY Zenon, <2>3, <2>4, <2>5, <2>6 DEF StartResult
<1>3. QED
  BY Zenon, <1>1, <1>2

\* start_service in all its cases.
LEMMA StartServiceResult ==
  ASSUME SupervisorTypes, NEW s \in Service, NEW r \in RuntimeRecord, NEW p \in ProcState,
         NEW outcome \in LaunchOutcome, RecordFits(r, p), StartService(s, r, p, outcome)
  PROVE  StartResult(s, r)
<1>t. proc \in [Service -> ProcState] /\ runtime \in [Service -> RuntimeRecord]
  BY Zenon DEF SupervisorTypes
<1>1. CASE runtime' = [runtime EXCEPT ![s] = r] /\ proc' = [proc EXCEPT ![s] = p]
  BY Zenon, <1>1, <1>t DEF StartResult
<1>2. CASE /\ runtime' = [runtime EXCEPT ![s] = [r EXCEPT !.known = TRUE, !.desired = TRUE,
                                                        !.observed = TRUE]]
           /\ proc' = [proc EXCEPT ![s] = p]
  <2> DEFINE q == [r EXCEPT !.known = TRUE, !.desired = TRUE, !.observed = TRUE]
  <2>1. /\ q \in RuntimeRecord /\ q.child = r.child
        /\ q.failures = r.failures /\ q.faulted = r.faulted
    BY Zenon DEF RuntimeRecord
  <2>2. runtime' = [runtime EXCEPT ![s] = q]
    BY Zenon, <1>2
  <2> HIDE DEF q
  <2>3. QED
    BY Zenon, <1>2, <1>t, <2>1, <2>2 DEF StartResult, RecordFits
<1>3. CASE Launch(s, r, p, outcome)
  BY Zenon, <1>3, LaunchResult
<1>4. QED
  BY Zenon, <1>1, <1>2, <1>3 DEF StartService

\* The services' part of the invariant.
ServicesInv == SupervisorTypes /\ \A s \in Service : ServiceOK(s)

\* The record of a service that was stopped.
LEMMA ForgottenRecord ==
  ASSUME NEW r \in RuntimeRecord
  PROVE  /\ Forgotten(r) \in RuntimeRecord /\ Forgotten(r).child = "none"
         /\ Forgotten(r).failures = r.failures /\ Forgotten(r).faulted = r.faulted
  BY Zenon DEF Forgotten, RuntimeRecord

\* The record of a service whose failures are forgiven.
LEMMA ClearedRecord ==
  ASSUME NEW r \in RuntimeRecord
  PROVE  /\ Cleared(r) \in RuntimeRecord /\ Cleared(r).child = r.child
         /\ Cleared(r).failures = 0 /\ Cleared(r).faulted = FALSE
         /\ Cleared(r).faulted <=> Cleared(r).failures = MaxStartFailures
<1>1. 0 \in 0 .. MaxStartFailures /\ 0 # MaxStartFailures
  BY SupervisorAssumption
<1>2. /\ Cleared(r) \in RuntimeRecord /\ Cleared(r).child = r.child
      /\ Cleared(r).failures = 0
  BY Zenon, <1>1 DEF Cleared, RuntimeRecord
<1>3. Cleared(r).faulted = FALSE
  BY Zenon DEF Cleared, RuntimeRecord
<1>4. QED
  BY Zenon, <1>1, <1>2, <1>3

\* What becomes of the process when its service is stopped.
LEMMA KilledProcess ==
  ASSUME SupervisorTypes, NEW s \in Service, NEW killed \in BOOLEAN
  PROVE  Killed(s, killed) \in ProcState
  BY Zenon DEF Killed, SupervisorTypes, ProcState

\* reconcile_service stops a service the mode does not enable: its launches
\* are no longer counted against its failures.
LEMMA ReconcileDisabledKeeps ==
  ASSUME ServicesInv, NEW s \in Service, ReconcileDisabled(s)
  PROVE  ServicesInv'
<1>t. /\ SupervisorTypes /\ ServiceOK(s) /\ runtime[s] \in RuntimeRecord
      /\ proc \in [Service -> ProcState] /\ runtime \in [Service -> RuntimeRecord]
  BY Zenon DEF ServicesInv, SupervisorTypes
<1>u. UNCHANGED <<startup, persisted, mode, holding, autoStarts, stopped>> /\ ~Enabled(s)
  BY Zenon DEF ReconcileDisabled
<1>1. /\ proc' \in [Service -> ProcState] /\ runtime' \in [Service -> RuntimeRecord]
      /\ RecordFits(runtime'[s], proc'[s])
      /\ \A u \in Service \ {s} : proc'[u] = proc[u] /\ runtime'[u] = runtime[u]
  <2>1. PICK killed \in BOOLEAN :
          IF Observed(s) THEN StopService(s, killed)
          ELSE /\ runtime' = [runtime EXCEPT ![s].desired = FALSE, ![s].observed = FALSE]
               /\ UNCHANGED proc
    BY Zenon DEF ReconcileDisabled
  <2>2. CASE Observed(s)
    BY <1>t, <2>1, <2>2, ForgottenRecord, KilledProcess DEF StopService, ServiceOK, RecordFits
  <2>3. CASE ~Observed(s)
    <3> DEFINE q == [runtime[s] EXCEPT !.desired = FALSE, !.observed = FALSE]
    <3>1. /\ q \in RuntimeRecord /\ q.child = runtime[s].child
          /\ q.failures = runtime[s].failures /\ q.faulted = runtime[s].faulted
      BY Zenon, <1>t DEF RuntimeRecord
    <3>2. runtime' = [runtime EXCEPT ![s] = q] /\ proc' = proc
      BY Zenon, <1>t, <2>1, <2>3
    <3> HIDE DEF q
    <3>3. QED
      BY Zenon, <1>t, <3>1, <3>2 DEF ServiceOK, RecordFits
  <2>4. QED
    BY Zenon, <2>2, <2>3
<1>2. SupervisorTypes' /\ OtherServicesKept(s)
  BY Zenon, <1>1, <1>t, <1>u DEF SupervisorTypes, OtherServicesKept
<1>3. ServiceOK(s)'
  BY Zenon, <1>1, <1>t, <1>u DEF ServiceOK, Enabled
<1>4. QED
  BY Zenon, <1>2, <1>3, OneServiceSteps DEF ServicesInv

\* A probe that answers forgives the failures and the launches.
LEMMA ReconcileHealthyKeeps ==
  ASSUME ServicesInv, NEW s \in Service, ReconcileHealthy(s)
  PROVE  ServicesInv'
<1>t. /\ SupervisorTypes /\ ServiceOK(s) /\ AfterExit(s) \in RuntimeRecord
      /\ proc \in [Service -> ProcState] /\ runtime \in [Service -> RuntimeRecord]
      /\ autoStarts \in [Service -> Nat] /\ startup[s] \in StartupMode
  BY Zenon, AfterExitRecord DEF ServicesInv, SupervisorTypes
<1>u. UNCHANGED <<proc, startup, persisted, mode, holding, stopped>> /\ proc[s] = "ready"
  BY Zenon DEF ReconcileHealthy, ProbeOk
<1> DEFINE c == Cleared(AfterExit(s))
           q == [c EXCEPT !.observed = TRUE, !.known = TRUE, !.desired = @ \/ startup[s] = "normal"]
<1>1. runtime' = [runtime EXCEPT ![s] = q] /\ autoStarts' = [autoStarts EXCEPT ![s] = 0]
  BY Zenon DEF ReconcileHealthy
<1>2. c \in RuntimeRecord /\ c.failures = 0 /\ (c.faulted <=> c.failures = MaxStartFailures)
  BY Zenon, <1>t, ClearedRecord
<1> HIDE DEF c
<1>3. q \in RuntimeRecord /\ q.failures = 0 /\ q.faulted = c.faulted
  BY Zenon, <1>2 DEF RuntimeRecord
<1> HIDE DEF q
<1>4. /\ runtime' \in [Service -> RuntimeRecord] /\ runtime'[s] = q
      /\ autoStarts' \in [Service -> Nat] /\ autoStarts'[s] = 0
      /\ \A u \in Service \ {s} : runtime'[u] = runtime[u] /\ autoStarts'[u] = autoStarts[u]
  BY Zenon, <1>1, <1>3, <1>t
<1>5. SupervisorTypes' /\ OtherServicesKept(s)
  BY Zenon, <1>4, <1>t, <1>u DEF SupervisorTypes, OtherServicesKept
<1>6. RecordFits(q, "ready")
  BY Zenon, <1>2, <1>3 DEF RecordFits
<1>7. ServiceOK(s)'
  BY <1>3, <1>4, <1>6, <1>t, <1>u, SupervisorAssumption DEF ServiceOK, Enabled, Outstanding
<1>8. QED
  BY Zenon, <1>5, <1>7, OneServiceSteps DEF ServicesInv

\* A process that does not answer stays as it is; an ended handle is counted.
LEMMA ReconcileUnreadyKeeps ==
  ASSUME ServicesInv, NEW s \in Service, ReconcileUnready(s)
  PROVE  ServicesInv'
<1>t. /\ SupervisorTypes /\ ServiceOK(s)
      /\ proc \in [Service -> ProcState] /\ runtime \in [Service -> RuntimeRecord]
      /\ autoStarts \in [Service -> Nat]
  BY Zenon DEF ServicesInv, SupervisorTypes
<1>u. UNCHANGED <<proc, startup, persisted, mode, holding, autoStarts, stopped>>
  BY Zenon DEF ReconcileUnready
<1>e. /\ AfterExit(s) \in RuntimeRecord
      /\ AfterExit(s).faulted <=> AfterExit(s).failures = MaxStartFailures
      /\ AfterExit(s).child = "own" <=> runtime[s].child = "own"
      /\ Enabled(s) /\ startup[s] = "normal" =>
           autoStarts[s] <= AfterExit(s).failures + Outstanding(AfterExit(s))
  BY Zenon, <1>t, AfterExitRecord
<1> DEFINE c == AfterExit(s)
           q == [c EXCEPT !.known = TRUE]
<1>1. runtime' = [runtime EXCEPT ![s] = q]
  BY Zenon DEF ReconcileUnready
<1> HIDE DEF c
<1>2. q \in RuntimeRecord /\ q.failures = c.failures /\ q.faulted = c.faulted /\ q.child = c.child
  BY Zenon, <1>e DEF RuntimeRecord, c
<1> HIDE DEF q
<1>3. /\ runtime' \in [Service -> RuntimeRecord] /\ runtime'[s] = q
      /\ \A u \in Service \ {s} : runtime'[u] = runtime[u]
  BY Zenon, <1>1, <1>2, <1>t
<1>4. SupervisorTypes' /\ OtherServicesKept(s)
  BY Zenon, <1>3, <1>t, <1>u DEF SupervisorTypes, OtherServicesKept
<1>5. RecordFits(q, proc[s]) /\ Outstanding(q) = Outstanding(c)
  BY Zenon, <1>2, <1>e, <1>t DEF RecordFits, Outstanding, ServiceOK, c
<1>6. ServiceOK(s)'
  BY Zenon, <1>2, <1>3, <1>5, <1>e, <1>t, <1>u DEF ServiceOK, Enabled, c
<1>7. QED
  BY Zenon, <1>4, <1>6, OneServiceSteps DEF ServicesInv

\* Restarts are counted: one automatic launch more for one failure more, or
\* for a handle that will be counted when it ends.
LEMMA ReconcileGoneKeeps ==
  ASSUME ServicesInv, NEW s \in Service, ReconcileGone(s)
  PROVE  ServicesInv'
<1>t. /\ SupervisorTypes /\ ServiceOK(s)
      /\ proc \in [Service -> ProcState] /\ runtime \in [Service -> RuntimeRecord]
      /\ autoStarts \in [Service -> Nat] /\ autoStarts[s] \in Nat
  BY Zenon DEF ServicesInv, SupervisorTypes
<1>u. /\ UNCHANGED <<startup, persisted, mode, holding, stopped>>
      /\ Enabled(s) /\ ~ProbeOk(s) /\ AfterExit(s).child = "none"
  BY Zenon DEF ReconcileGone
<1> DEFINE r == AfterExit(s)
           gone == [r EXCEPT !.observed = FALSE, !.known = FALSE,
                             !.desired = @ /\ startup[s] # "manual"]
           counted == IF r.observed THEN Failed(gone) ELSE gone
<1>p. PICK elapsed \in BOOLEAN, outcome \in LaunchOutcome :
          IF ~holding /\ ~r.faulted /\ startup[s] = "normal" /\ elapsed
          THEN /\ StartService(s, counted, proc[s], outcome)
               /\ autoStarts' = [autoStarts EXCEPT ![s] =
                                   IF outcome = "unprepared" THEN @ ELSE @ + 1]
          ELSE /\ runtime' = [runtime EXCEPT ![s] = counted]
               /\ UNCHANGED <<proc, autoStarts>>
  BY Zenon DEF ReconcileGone
<1>e. /\ r \in RuntimeRecord /\ r.child = "none"
      /\ r.faulted <=> r.failures = MaxStartFailures
      /\ startup[s] = "normal" => autoStarts[s] <= r.failures
      /\ r.failures \in 0 .. MaxStartFailures
  <2>1. /\ r \in RuntimeRecord /\ r.child = "none"
        /\ r.faulted <=> r.failures = MaxStartFailures
    BY Zenon, <1>t, <1>u, AfterExitRecord
  <2>2. startup[s] = "normal" => autoStarts[s] <= r.failures + Outstanding(r)
    BY Zenon, <1>t, <1>u, AfterExitRecord
  <2>3. r.failures \in 0 .. MaxStartFailures
    BY Zenon, <2>1 DEF RuntimeRecord
  <2> HIDE DEF r
  <2>4. QED
    BY <2>1, <2>2, <2>3, SupervisorAssumption DEF Outstanding
<1> HIDE DEF r
<1>1. /\ gone \in RuntimeRecord /\ gone.failures = r.failures /\ gone.faulted = r.faulted
      /\ gone.child = "none"
  BY Zenon, <1>e DEF RuntimeRecord
<1> HIDE DEF gone
<1>2. /\ counted \in RuntimeRecord /\ counted.child = "none"
      /\ counted.faulted <=> counted.failures = MaxStartFailures
      /\ r.failures <= counted.failures
  <2>1. gone.faulted <=> gone.failures = MaxStartFailures
    BY Zenon, <1>1, <1>e
  <2>2. /\ Failed(gone) \in RuntimeRecord /\ Failed(gone).child = "none"
        /\ Failed(gone).faulted <=> Failed(gone).failures = MaxStartFailures
        /\ gone.failures <= Failed(gone).failures
    BY Zenon, <1>1, <2>1, FailedRecord
  <2>3. CASE r.observed
    BY Zenon, <1>1, <2>2, <2>3
  <2>4. CASE ~r.observed
    BY <1>1, <1>e, <2>1, <2>4
  <2>5. QED
    BY Zenon, <2>3, <2>4
<1>3. RecordFits(counted, proc[s]) /\ counted.failures \in 0 .. MaxStartFailures
  BY Zenon, <1>2 DEF RecordFits, RuntimeRecord
<1> HIDE DEF counted
<1>l. ~holding /\ ~r.faulted /\ startup[s] = "normal" /\ elapsed =>
        Launch(s, counted, proc[s], outcome)
  BY Zenon, <1>p, <1>u DEF StartService, ProbeOk
<1>4. CASE /\ ~holding /\ ~r.faulted /\ startup[s] = "normal" /\ elapsed
           /\ outcome # "unprepared"
  <2>1. /\ Launch(s, counted, proc[s], outcome)
        /\ autoStarts' = [autoStarts EXCEPT ![s] = autoStarts[s] + 1]
    BY Zenon, <1>p, <1>l, <1>4, <1>t
  <2>2. /\ StartResult(s, counted)
        /\ \/ runtime'[s].child # "none" /\ runtime'[s].failures = counted.failures
           \/ runtime'[s] = Failed(counted)
    BY Zenon, <2>1, <1>2, <1>3, <1>4, <1>t, LaunchResult
  <2>3. /\ autoStarts' \in [Service -> Nat] /\ autoStarts'[s] = autoStarts[s] + 1
        /\ \A u \in Service \ {s} : autoStarts'[u] = autoStarts[u]
    BY <2>1, <1>t
  <2>4. autoStarts'[s] <= r.failures + 1 /\ autoStarts'[s] <= MaxStartFailures
    BY <2>3, <1>4, <1>e, <1>t, SupervisorAssumption
  <2>5. autoStarts'[s] <= runtime'[s].failures + Outstanding(runtime'[s])
    <3>1. CASE runtime'[s].child # "none" /\ runtime'[s].failures = counted.failures
      BY <3>1, <2>3, <2>4, <1>2, <1>3, <1>e, <1>t, SupervisorAssumption DEF Outstanding
    <3>2. CASE runtime'[s] = Failed(counted)
      <4>1. /\ counted.failures < MaxStartFailures =>
                 Failed(counted).failures = counted.failures + 1
            /\ counted.failures = MaxStartFailures => Failed(counted).failures = MaxStartFailures
            /\ Failed(counted) \in RuntimeRecord
        BY Zenon, <1>2, FailedRecord
      <4>2. Failed(counted).failures \in 0 .. MaxStartFailures
        BY Zenon, <4>1 DEF RuntimeRecord
      <4>3. autoStarts'[s] <= Failed(counted).failures
        BY <4>1, <4>2, <2>3, <2>4, <1>2, <1>3, <1>e, <1>t, SupervisorAssumption
      <4>4. QED
        BY <3>2, <4>2, <4>3, <2>3, <1>t, SupervisorAssumption DEF Outstanding
    <3>3. QED
      BY Zenon, <2>2, <3>1, <3>2
  <2>6. SupervisorTypes' /\ OtherServicesKept(s)
    BY Zenon, <2>2, <2>3, <1>t, <1>u DEF SupervisorTypes, OtherServicesKept, StartResult
  <2>7. ServiceOK(s)'
    BY Zenon, <2>2, <2>4, <2>5, <1>t, <1>u DEF ServiceOK, Enabled, StartResult
  <2>8. QED
    BY Zenon, <2>6, <2>7, OneServiceSteps DEF ServicesInv
<1>5. CASE ~(/\ ~holding /\ ~r.faulted /\ startup[s] = "normal" /\ elapsed
             /\ outcome # "unprepared")
  <2>1. runtime' = [runtime EXCEPT ![s] = counted] /\ UNCHANGED <<proc, autoStarts>>
    <3>1. CASE ~(~holding /\ ~r.faulted /\ startup[s] = "normal" /\ elapsed)
      BY Zenon, <1>p, <3>1
    <3>2. CASE ~holding /\ ~r.faulted /\ startup[s] = "normal" /\ elapsed
      <4>1. /\ Launch(s, counted, proc[s], outcome) /\ outcome = "unprepared"
            /\ autoStarts' = [autoStarts EXCEPT ![s] = autoStarts[s]]
        BY Zenon, <1>5, <1>l, <1>p, <1>t, <3>2
      <4>2. runtime' = [runtime EXCEPT ![s] = counted] /\ proc' = [proc EXCEPT ![s] = proc[s]]
        BY Zenon, <4>1 DEF Launch
      <4>3. QED
        BY <4>1, <4>2, <1>t
    <3>3. QED
      BY Zenon, <3>1, <3>2
  <2>2. /\ runtime' \in [Service -> RuntimeRecord] /\ runtime'[s] = counted
        /\ \A u \in Service \ {s} : runtime'[u] = runtime[u]
    BY Zenon, <2>1, <1>2, <1>t
  <2>3. SupervisorTypes' /\ OtherServicesKept(s)
    BY Zenon, <2>1, <2>2, <1>t, <1>u DEF SupervisorTypes, OtherServicesKept
  <2>4. startup[s] = "normal" => autoStarts[s] <= counted.failures + Outstanding(counted)
    BY <1>2, <1>3, <1>e, <1>t, SupervisorAssumption DEF Outstanding
  <2>5. ServiceOK(s)'
    BY Zenon, <2>1, <2>2, <2>4, <1>3, <1>t, <1>u DEF ServiceOK, Enabled
  <2>6. QED
    BY Zenon, <2>3, <2>5, OneServiceSteps DEF ServicesInv
<1>6. QED
  BY Zenon, <1>4, <1>5

\* A service whose launches were forgiven is in order.
LEMMA ForgivenService ==
  ASSUME NEW s \in Service, SupervisorTypes', RecordFits(runtime'[s], proc'[s]),
         autoStarts'[s] = 0,
         stopped'[s] /\ persisted'[s] # "normal" => startup'[s] # "normal"
  PROVE  ServiceOK(s)'
<1>1. runtime'[s].failures \in 0 .. MaxStartFailures
  BY Zenon DEF SupervisorTypes, RuntimeRecord
<1>2. QED
  BY <1>1, SupervisorAssumption DEF ServiceOK, Outstanding

\* The start command.
LEMMA CommandStartKeeps ==
  ASSUME ServicesInv, NEW s \in Service, CommandStart(s)
  PROVE  ServicesInv'
<1>t. /\ SupervisorTypes /\ ServiceOK(s) /\ runtime[s] \in RuntimeRecord
      /\ autoStarts \in [Service -> Nat] /\ stopped \in [Service -> BOOLEAN]
  BY Zenon DEF ServicesInv, SupervisorTypes
<1>u. UNCHANGED <<startup, persisted, mode, holding>>
  BY Zenon DEF CommandStart
<1>1. PICK outcome \in LaunchOutcome : StartService(s, Cleared(runtime[s]), proc[s], outcome)
  BY Zenon DEF CommandStart
<1>2. /\ Cleared(runtime[s]) \in RuntimeRecord /\ RecordFits(Cleared(runtime[s]), proc[s])
      /\ proc[s] \in ProcState
  BY Zenon, <1>t, ClearedRecord DEF RecordFits, ServiceOK, SupervisorTypes
<1>3. StartResult(s, Cleared(runtime[s]))
  BY Zenon, <1>1, <1>2, <1>t, StartServiceResult
<1>4. /\ autoStarts' \in [Service -> Nat] /\ autoStarts'[s] = 0
      /\ stopped' \in [Service -> BOOLEAN] /\ stopped'[s] = FALSE
      /\ \A u \in Service \ {s} : autoStarts'[u] = autoStarts[u] /\ stopped'[u] = stopped[u]
  BY Zenon, <1>t DEF CommandStart
<1>5. SupervisorTypes' /\ OtherServicesKept(s)
  BY Zenon, <1>3, <1>4, <1>t, <1>u DEF SupervisorTypes, OtherServicesKept, StartResult
<1>6. ServiceOK(s)'
  BY Zenon, <1>3, <1>4, <1>5, ForgivenService DEF StartResult
<1>7. QED
  BY Zenon, <1>5, <1>6, OneServiceSteps DEF ServicesInv

\* The stop command: what it saves is what it keeps in memory.
LEMMA CommandStopKeeps ==
  ASSUME ServicesInv, NEW s \in Service, CommandStop(s)
  PROVE  ServicesInv'
<1>t. /\ SupervisorTypes /\ ServiceOK(s) /\ runtime[s] \in RuntimeRecord
      /\ proc \in [Service -> ProcState] /\ runtime \in [Service -> RuntimeRecord]
      /\ startup \in [Service -> StartupMode] /\ persisted \in [Service -> StartupMode]
      /\ stopped \in [Service -> BOOLEAN]
  BY Zenon DEF ServicesInv, SupervisorTypes
<1>u. UNCHANGED <<mode, holding, autoStarts>>
  BY Zenon DEF CommandStop
<1>m. "manual" \in StartupMode
  BY Zenon DEF StartupMode
<1>1. CASE /\ startup' = [startup EXCEPT ![s] = IF @ = "normal" THEN "manual" ELSE @]
           /\ persisted' = IF startup[s] = "normal" THEN startup' ELSE persisted
           /\ \E killed \in BOOLEAN : StopService(s, killed)
           /\ stopped' = [stopped EXCEPT ![s] = TRUE]
  <2>1. /\ startup' \in [Service -> StartupMode] /\ startup'[s] # "normal"
        /\ \A u \in Service \ {s} : startup'[u] = startup[u]
    BY Zenon, <1>1, <1>t, <1>m
  <2>2. persisted' \in [Service -> StartupMode]
        /\ \A u \in Service \ {s} : persisted'[u] \in {persisted[u], startup[u]}
    BY Zenon, <1>1, <2>1, <1>t
  <2>3. /\ stopped' \in [Service -> BOOLEAN]
        /\ \A u \in Service \ {s} : stopped'[u] = stopped[u]
    BY Zenon, <1>1, <1>t
  <2>4. /\ proc' \in [Service -> ProcState] /\ runtime' \in [Service -> RuntimeRecord]
        /\ RecordFits(runtime'[s], proc'[s])
        /\ \A u \in Service \ {s} : proc'[u] = proc[u] /\ runtime'[u] = runtime[u]
    <3>1. PICK killed \in BOOLEAN : StopService(s, killed)
      BY Zenon, <1>1
    <3>2. QED
      BY Zenon, <1>t, <3>1, ForgottenRecord, KilledProcess DEF StopService, ServiceOK, RecordFits
  <2>5. SupervisorTypes' /\ OtherServicesKept(s)
    BY Zenon, <2>1, <2>2, <2>3, <2>4, <1>t, <1>u DEF SupervisorTypes, OtherServicesKept
  <2>6. ServiceOK(s)'
    BY Zenon, <2>1, <2>4, <1>t, <1>u DEF ServiceOK
  <2>7. QED
    BY Zenon, <2>5, <2>6, OneServiceSteps DEF ServicesInv
<1>2. CASE /\ startup[s] = "normal" /\ startup' = [startup EXCEPT ![s] = "manual"]
           /\ UNCHANGED <<persisted, proc, runtime, stopped>>
  <2>1. /\ startup' \in [Service -> StartupMode] /\ startup'[s] = "manual"
        /\ \A u \in Service \ {s} : startup'[u] = startup[u]
    BY Zenon, <1>2, <1>t, <1>m
  <2>2. SupervisorTypes' /\ OtherServicesKept(s)
    BY Zenon, <1>2, <2>1, <1>t, <1>u DEF SupervisorTypes, OtherServicesKept
  <2>3. ServiceOK(s)'
    BY Zenon, <2>1, <1>2, <1>t, <1>u DEF ServiceOK
  <2>4. QED
    BY Zenon, <2>2, <2>3, OneServiceSteps DEF ServicesInv
<1>3. QED
  BY Zenon, <1>1, <1>2 DEF CommandStop

\* The restart command.
LEMMA CommandRestartKeeps ==
  ASSUME ServicesInv, NEW s \in Service, CommandRestart(s)
  PROVE  ServicesInv'
<1>t. /\ SupervisorTypes /\ ServiceOK(s) /\ runtime[s] \in RuntimeRecord
      /\ proc \in [Service -> ProcState] /\ runtime \in [Service -> RuntimeRecord]
      /\ autoStarts \in [Service -> Nat] /\ stopped \in [Service -> BOOLEAN]
  BY Zenon DEF ServicesInv, SupervisorTypes
<1>u. UNCHANGED <<startup, persisted, mode, holding>>
  BY Zenon DEF CommandRestart
<1>4. /\ autoStarts' \in [Service -> Nat] /\ autoStarts'[s] = 0
      /\ stopped' \in [Service -> BOOLEAN] /\ stopped'[s] = FALSE
      /\ \A u \in Service \ {s} : autoStarts'[u] = autoStarts[u] /\ stopped'[u] = stopped[u]
  BY Zenon, <1>t DEF CommandRestart
<1> DEFINE r == Cleared(Forgotten(runtime[s]))
<1>5. \/ runtime' = [runtime EXCEPT ![s] = r] /\ proc' = proc
      \/ \E outcome \in LaunchOutcome : StartService(s, r, Killed(s, TRUE), outcome)
  BY Zenon DEF CommandRestart
<1>6. /\ r \in RuntimeRecord /\ r.child = "none"
      /\ r.faulted <=> r.failures = MaxStartFailures
  BY Zenon, <1>t, ForgottenRecord, ClearedRecord
<1>7. Killed(s, TRUE) \in ProcState
  BY Zenon, <1>t, KilledProcess
<1> HIDE DEF r
<1>8. RecordFits(r, Killed(s, TRUE)) /\ RecordFits(r, proc[s])
  BY Zenon, <1>6 DEF RecordFits
<1>9. StartResult(s, r)
  <2>1. CASE runtime' = [runtime EXCEPT ![s] = r] /\ proc' = proc
    BY Zenon, <2>1, <1>6, <1>8, <1>t DEF StartResult
  <2>2. CASE \E outcome \in LaunchOutcome : StartService(s, r, Killed(s, TRUE), outcome)
    BY Zenon, <2>2, <1>6, <1>7, <1>8, <1>t, StartServiceResult
  <2>3. QED
    BY Zenon, <1>5, <2>1, <2>2
<1>10. SupervisorTypes' /\ OtherServicesKept(s)
  BY Zenon, <1>9, <1>4, <1>t, <1>u DEF SupervisorTypes, OtherServicesKept, StartResult
<1>11. ServiceOK(s)'
  BY Zenon, <1>9, <1>4, <1>10, ForgivenService DEF StartResult
<1>12. QED
  BY Zenon, <1>10, <1>11, OneServiceSteps DEF ServicesInv

\* A new startup mode, saved or not.
LEMMA CommandStartupModeKeeps ==
  ASSUME ServicesInv, NEW s \in Service, NEW m \in StartupMode, CommandStartupMode(s, m)
  PROVE  ServicesInv'
<1>t. /\ SupervisorTypes /\ ServiceOK(s) /\ runtime[s] \in RuntimeRecord
      /\ proc \in [Service -> ProcState] /\ runtime \in [Service -> RuntimeRecord]
      /\ startup \in [Service -> StartupMode] /\ persisted \in [Service -> StartupMode]
      /\ autoStarts \in [Service -> Nat] /\ stopped \in [Service -> BOOLEAN]
      /\ autoStarts[s] \in Nat /\ autoStarts[s] <= MaxStartFailures
      /\ runtime[s].observed \in BOOLEAN
  BY Zenon DEF ServicesInv, SupervisorTypes, ServiceOK, RuntimeRecord
<1> DEFINE c == IF m = "normal" THEN Cleared(runtime[s]) ELSE runtime[s]
           w == (m = "normal" \/ (m = "manual" /\ runtime[s].observed))
           r == [c EXCEPT !.desired = w]
<1>1. /\ startup' = [startup EXCEPT ![s] = m]
      /\ autoStarts' = [autoStarts EXCEPT ![s] = IF m = "normal" THEN 0 ELSE @]
      /\ stopped' = [stopped EXCEPT ![s] = @ /\ m # "normal"]
      /\ persisted' = persisted \/ persisted' = startup'
      /\ UNCHANGED <<mode, holding>>
  BY Zenon DEF CommandStartupMode
<1>2. \/ runtime' = [runtime EXCEPT ![s] = r] /\ proc' = proc
      \/ \E done \in BOOLEAN : /\ proc' = [proc EXCEPT ![s] = Killed(s, done)]
                               /\ runtime' = [runtime EXCEPT ![s] = Forgotten(r)]
      \/ \E outcome \in LaunchOutcome : StartService(s, r, proc[s], outcome)
  BY Zenon DEF CommandStartupMode
<1>3. c \in RuntimeRecord /\ RecordFits(c, proc[s])
  BY Zenon, <1>t, ClearedRecord DEF ServiceOK, RecordFits
<1>4. w \in BOOLEAN
  BY Zenon
<1> HIDE DEF c, w
<1>5. /\ r \in RuntimeRecord /\ r.child = c.child /\ r.failures = c.failures
      /\ r.faulted = c.faulted
  BY Zenon, <1>3, <1>4 DEF RuntimeRecord
<1> HIDE DEF r
<1>6. RecordFits(r, proc[s])
  BY Zenon, <1>3, <1>5 DEF RecordFits
<1>7. StartResult(s, r)
  <2>1. CASE runtime' = [runtime EXCEPT ![s] = r] /\ proc' = proc
    BY Zenon, <2>1, <1>5, <1>6, <1>t DEF StartResult
  <2>2. CASE \E done \in BOOLEAN : /\ proc' = [proc EXCEPT ![s] = Killed(s, done)]
                                   /\ runtime' = [runtime EXCEPT ![s] = Forgotten(r)]
    <3>1. PICK done \in BOOLEAN : /\ proc' = [proc EXCEPT ![s] = Killed(s, done)]
                                  /\ runtime' = [runtime EXCEPT ![s] = Forgotten(r)]
      BY Zenon, <2>2
    <3>2. /\ Forgotten(r) \in RuntimeRecord /\ Forgotten(r).child = "none"
          /\ Forgotten(r).failures = r.failures /\ Forgotten(r).faulted = r.faulted
          /\ Killed(s, done) \in ProcState
      BY Zenon, <1>5, <1>t, ForgottenRecord, KilledProcess
    <3>3. QED
      BY Zenon, <3>1, <3>2, <1>6, <1>t DEF StartResult, RecordFits
  <2>3. CASE \E outcome \in LaunchOutcome : StartService(s, r, proc[s], outcome)
    <3>1. proc[s] \in ProcState
      BY Zenon, <1>t
    <3>2. QED
      BY Zenon, <2>3, <3>1, <1>5, <1>6, <1>t, StartServiceResult
  <2>4. QED
    BY Zenon, <1>2, <2>1, <2>2, <2>3
<1>8. /\ startup' \in [Service -> StartupMode] /\ startup'[s] = m
      /\ persisted' \in [Service -> StartupMode]
      /\ \A u \in Service \ {s} : /\ startup'[u] = startup[u]
                                  /\ persisted'[u] \in {persisted[u], startup[u]}
  BY Zenon, <1>1, <1>t
<1>9. /\ autoStarts' \in [Service -> Nat]
      /\ m = "normal" => autoStarts'[s] = 0
      /\ m # "normal" => autoStarts'[s] = autoStarts[s]
      /\ \A u \in Service \ {s} : autoStarts'[u] = autoStarts[u]
  BY Zenon, <1>1, <1>t
<1>10. /\ stopped' \in [Service -> BOOLEAN] /\ (m = "normal" => ~stopped'[s])
       /\ \A u \in Service \ {s} : stopped'[u] = stopped[u]
  BY Zenon, <1>1, <1>t
<1>11. SupervisorTypes' /\ OtherServicesKept(s)
  BY Zenon, <1>1, <1>7, <1>8, <1>9, <1>10, <1>t DEF SupervisorTypes, OtherServicesKept, StartResult
<1>12. ServiceOK(s)'
  <2>1. CASE m = "normal"
    BY Zenon, <2>1, <1>7, <1>9, <1>10, <1>11, ForgivenService DEF StartResult
  <2>2. CASE m # "normal"
    BY Zenon, <2>2, <1>7, <1>8, <1>9, <1>t DEF ServiceOK, StartResult
  <2>3. QED
    BY Zenon, <2>1, <2>2
<1>13. QED
  BY Zenon, <1>11, <1>12, OneServiceSteps DEF ServicesInv

\* A new acquisition mode stops what runs and forgives every failure; one
\* stubborn process keeps the mode, and the records of the others.
LEMMA ApplyModeKeeps ==
  ASSUME ServicesInv, NEW m \in AcquisitionMode, ApplyMode(m)
  PROVE  ServicesInv'
<1>t. /\ SupervisorTypes
      /\ proc \in [Service -> ProcState] /\ runtime \in [Service -> RuntimeRecord]
      /\ autoStarts \in [Service -> Nat]
  BY Zenon DEF ServicesInv, SupervisorTypes
<1>u. UNCHANGED <<startup, persisted, holding, stopped>>
  BY Zenon DEF ApplyMode
<1> DEFINE r == [s \in Service |-> IF Observed(s) THEN Forgotten(runtime[s]) ELSE runtime[s]]
<1>1. PICK stubborn \in SUBSET {s \in Service : Observed(s) /\ HasPid(s)} :
        /\ proc' = [s \in Service |->
                      IF Observed(s) THEN Killed(s, s \notin stubborn) ELSE proc[s]]
        /\ IF stubborn = {}
           THEN mode' = m /\ runtime' = [s \in Service |-> Cleared(r[s])]
           ELSE runtime' = r /\ mode' = mode
  BY Zenon DEF ApplyMode
<1>2. \A s \in Service : /\ r[s] \in RuntimeRecord
                         /\ RecordFits(r[s], proc'[s]) /\ proc'[s] \in ProcState
                         /\ ~Observed(s) => r[s] = runtime[s]
  <2> TAKE s \in Service
  <2>t. runtime[s] \in RuntimeRecord /\ proc[s] \in ProcState /\ RecordFits(runtime[s], proc[s])
    BY Zenon, <1>t DEF ServicesInv, ServiceOK
  <2>1. CASE Observed(s)
    <3>1. Killed(s, s \notin stubborn) \in ProcState
      BY Zenon, <1>t, KilledProcess
    <3>2. /\ Forgotten(runtime[s]) \in RuntimeRecord /\ Forgotten(runtime[s]).child = "none"
          /\ Forgotten(runtime[s]).failures = runtime[s].failures
          /\ Forgotten(runtime[s]).faulted = runtime[s].faulted
      BY Zenon, <2>t, ForgottenRecord
    <3>3. QED
      BY Zenon, <1>1, <2>1, <2>t, <3>1, <3>2 DEF RecordFits
  <2>2. CASE ~Observed(s)
    BY Zenon, <1>1, <2>2, <2>t
  <2>3. QED
    BY Zenon, <2>1, <2>2
<1>3. proc' \in [Service -> ProcState]
  BY Zenon, <1>1, <1>2
<1>4. autoStarts' = [s \in Service |-> IF mode' = m \/ Observed(s) THEN 0 ELSE autoStarts[s]]
  BY Zenon DEF ApplyMode
<1>5. autoStarts' \in [Service -> Nat]
  BY Zenon, <1>4, <1>t
<1>6. CASE stubborn = {}
  <2>1. mode' = m /\ runtime' = [s \in Service |-> Cleared(r[s])]
    BY Zenon, <1>1, <1>6
  <2>2. \A s \in Service : /\ runtime'[s] \in RuntimeRecord /\ autoStarts'[s] = 0
                           /\ RecordFits(runtime'[s], proc'[s])
    <3> TAKE s \in Service
    <3>1. autoStarts'[s] = 0 /\ runtime'[s] = Cleared(r[s])
      BY Zenon, <1>4, <2>1
    <3>2. r[s] \in RuntimeRecord /\ RecordFits(r[s], proc'[s])
      BY Zenon, <1>2
    <3> DEFINE x == r[s]
    <3> HIDE DEF x
    <3>3. Cleared(x) \in RuntimeRecord /\ RecordFits(Cleared(x), proc'[s])
      BY Zenon, <3>2, ClearedRecord DEF x, RecordFits
    <3>4. QED
      BY Zenon, <3>1, <3>3 DEF x
  <2>3. SupervisorTypes'
    BY Zenon, <1>3, <1>5, <1>t, <1>u, <2>1, <2>2 DEF SupervisorTypes
  <2>4. \A s \in Service : ServiceOK(s)'
    <3> TAKE s \in Service
    <3>1. stopped'[s] /\ persisted'[s] # "normal" => startup'[s] # "normal"
      BY Zenon, <1>u DEF ServicesInv, ServiceOK
    <3>2. QED
      BY Zenon, <2>2, <2>3, <3>1, ForgivenService
  <2>5. QED
    BY Zenon, <2>3, <2>4 DEF ServicesInv
<1>7. CASE stubborn # {}
  <2>1. mode' = mode /\ runtime' = r
    BY Zenon, <1>1, <1>7
  <2>2. SupervisorTypes'
    BY Zenon, <1>2, <1>3, <1>5, <1>t, <1>u, <2>1 DEF SupervisorTypes
  <2>3. \A s \in Service : ServiceOK(s)'
    <3> TAKE s \in Service
    <3>1. stopped'[s] /\ persisted'[s] # "normal" => startup'[s] # "normal"
      BY Zenon, <1>u DEF ServicesInv, ServiceOK
    <3>2. RecordFits(runtime'[s], proc'[s])
      BY Zenon, <1>2, <2>1
    <3>3. CASE Observed(s) \/ mode' = m
      <4>1. autoStarts'[s] = 0
        BY Zenon, <1>4, <3>3
      <4>2. QED
        BY Zenon, <2>2, <3>1, <3>2, <4>1, ForgivenService
    <3>4. CASE ~Observed(s) /\ mode' # m
      <4>1. autoStarts'[s] = autoStarts[s] /\ runtime'[s] = runtime[s]
        BY Zenon, <1>2, <1>4, <2>1, <3>4
      <4>2. QED
        BY Zenon, <1>u, <2>1, <3>1, <3>2, <4>1 DEF ServicesInv, ServiceOK, Enabled
    <3>5. QED
      BY Zenon, <3>3, <3>4
  <2>4. QED
    BY Zenon, <2>2, <2>3 DEF ServicesInv
<1>8. QED
  BY Zenon, <1>6, <1>7

\* The record a monitor begins with.
LEMMA FreshRecord ==
  ASSUME NEW b \in BOOLEAN
  PROVE  /\ [NoRuntime EXCEPT !.desired = b] \in RuntimeRecord
         /\ [NoRuntime EXCEPT !.desired = b].child = "none"
         /\ [NoRuntime EXCEPT !.desired = b].failures = 0
         /\ [NoRuntime EXCEPT !.desired = b].faulted = FALSE
         /\ NoRuntime \in RuntimeRecord /\ NoRuntime.child = "none"
         /\ NoRuntime.failures = 0 /\ NoRuntime.faulted = FALSE
<1>1. 0 \in 0 .. MaxStartFailures
  BY SupervisorAssumption
<1>2. QED
  BY Zenon, <1>1 DEF NoRuntime, RuntimeRecord

\* The monitor begins again with what is saved.
LEMMA MonitorRestartsKeeps ==
  ASSUME ServicesInv, MonitorRestarts
  PROVE  ServicesInv'
<1>t. SupervisorTypes /\ persisted \in [Service -> StartupMode]
  BY Zenon DEF ServicesInv, SupervisorTypes
<1>u. /\ UNCHANGED <<proc, persisted, mode, holding, stopped>> /\ startup' = persisted
      /\ autoStarts' = [s \in Service |-> 0]
  BY Zenon DEF MonitorRestarts
<1> DEFINE b(s) == (persisted[s] = "normal" /\ Enabled(s))
<1>1. runtime' = [s \in Service |-> [NoRuntime EXCEPT !.desired = b(s)]]
  BY Zenon DEF MonitorRestarts
<1>2. \A s \in Service : b(s) \in BOOLEAN
  BY Zenon
<1> HIDE DEF b
<1>3. \A s \in Service : /\ runtime'[s] \in RuntimeRecord /\ runtime'[s].child = "none"
                         /\ runtime'[s].failures = 0 /\ runtime'[s].faulted = FALSE
  BY Zenon, <1>1, <1>2, FreshRecord
<1>4. SupervisorTypes'
  BY Zenon, <1>1, <1>3, <1>t, <1>u DEF SupervisorTypes
<1>5. \A s \in Service : ServiceOK(s)'
  <2> TAKE s \in Service
  <2>1. RecordFits(runtime'[s], proc'[s])
    BY Zenon, <1>3, SupervisorAssumption DEF RecordFits
  <2>2. QED
    BY Zenon, <1>4, <1>u, <2>1, ForgivenService
<1>6. QED
  BY Zenon, <1>4, <1>5 DEF ServicesInv

\* A process that ends leaves an ended handle.
LEMMA ProcessChangesKeeps ==
  ASSUME ServicesInv, NEW s \in Service, ProcessChanges(s)
  PROVE  ServicesInv'
<1>t. /\ SupervisorTypes /\ ServiceOK(s) /\ runtime[s] \in RuntimeRecord
      /\ proc \in [Service -> ProcState] /\ runtime \in [Service -> RuntimeRecord]
  BY Zenon DEF ServicesInv, SupervisorTypes
<1>u. UNCHANGED <<startup, persisted, mode, holding, autoStarts, stopped>>
  BY Zenon DEF ProcessChanges
<1>m. "none" \in ProcState /\ "ready" \in ProcState /\ "sick" \in ProcState
  BY Zenon DEF ProcState
<1> DEFINE e == IF runtime[s].child = "own" THEN "ended" ELSE runtime[s].child
           q == [runtime[s] EXCEPT !.child = e]
<1>1. \/ /\ proc' = [proc EXCEPT ![s] = IF @ = "ready" THEN "sick" ELSE "ready"]
         /\ runtime' = runtime
      \/ proc' = [proc EXCEPT ![s] = "none"] /\ runtime' = [runtime EXCEPT ![s] = q]
  BY Zenon, <1>t DEF ProcessChanges
<1>2. e \in {"none", "ended"} /\ (e = "none" <=> runtime[s].child = "none")
  BY Zenon, <1>t DEF RuntimeRecord
<1> HIDE DEF e
<1>3. /\ q \in RuntimeRecord /\ q.child = e
      /\ q.failures = runtime[s].failures /\ q.faulted = runtime[s].faulted
  BY Zenon, <1>2, <1>t DEF RuntimeRecord
<1> HIDE DEF q
<1>4. /\ proc' \in [Service -> ProcState] /\ runtime' \in [Service -> RuntimeRecord]
      /\ RecordFits(runtime'[s], proc'[s])
      /\ runtime'[s].failures = runtime[s].failures
      /\ Outstanding(runtime'[s]) = Outstanding(runtime[s])
      /\ \A u \in Service \ {s} : proc'[u] = proc[u] /\ runtime'[u] = runtime[u]
  <2>1. CASE /\ proc' = [proc EXCEPT ![s] = IF @ = "ready" THEN "sick" ELSE "ready"]
             /\ runtime' = runtime
    BY Zenon, <2>1, <1>t, <1>m DEF ServiceOK, RecordFits
  <2>2. CASE proc' = [proc EXCEPT ![s] = "none"] /\ runtime' = [runtime EXCEPT ![s] = q]
    <3>1. /\ proc' \in [Service -> ProcState] /\ runtime' \in [Service -> RuntimeRecord]
          /\ runtime'[s] = q
          /\ \A u \in Service \ {s} : proc'[u] = proc[u] /\ runtime'[u] = runtime[u]
      BY Zenon, <2>2, <1>3, <1>t, <1>m
    <3>2. RecordFits(q, proc'[s]) /\ Outstanding(q) = Outstanding(runtime[s])
      BY Zenon, <1>2, <1>3, <1>t DEF ServiceOK, RecordFits, Outstanding
    <3>3. QED
      BY Zenon, <1>3, <3>1, <3>2
  <2>3. QED
    BY Zenon, <1>1, <2>1, <2>2
<1>5. SupervisorTypes' /\ OtherServicesKept(s)
  BY Zenon, <1>4, <1>t, <1>u DEF SupervisorTypes, OtherServicesKept
<1>6. ServiceOK(s)'
  BY Zenon, <1>4, <1>t, <1>u DEF ServiceOK, Enabled
<1>7. QED
  BY Zenon, <1>5, <1>6, OneServiceSteps DEF ServicesInv

\* Steps that leave the services alone.
LEMMA ServicesKept ==
  ASSUME ServicesInv, holding' \in BOOLEAN,
         UNCHANGED <<proc, runtime, startup, persisted, mode, autoStarts, stopped>>
  PROVE  ServicesInv'
<1>1. SupervisorTypes'
  BY Zenon DEF ServicesInv, SupervisorTypes
<1>2. \A s \in Service : ServiceOK(s)'
  BY Zenon DEF ServicesInv, ServiceOK, Enabled
<1>3. QED
  BY Zenon, <1>1, <1>2 DEF ServicesInv

\* Every step of the services keeps their part of the invariant.
LEMMA ServicesStep ==
  ASSUME ServicesInv, ServicesNext
  PROVE  ServicesInv'
<1>1. CASE \E s \in Service :
             \/ ReconcileDisabled(s) \/ ReconcileHealthy(s) \/ ReconcileUnready(s)
             \/ ReconcileGone(s) \/ CommandStart(s) \/ CommandStop(s) \/ CommandRestart(s)
             \/ ProcessChanges(s) \/ \E m \in StartupMode : CommandStartupMode(s, m)
  BY Zenon, <1>1, ReconcileDisabledKeeps, ReconcileHealthyKeeps, ReconcileUnreadyKeeps,
     ReconcileGoneKeeps, CommandStartKeeps, CommandStopKeeps, CommandRestartKeeps,
     ProcessChangesKeeps, CommandStartupModeKeeps, Zenon
<1>2. CASE \E m \in AcquisitionMode : ApplyMode(m)
  BY Zenon, <1>2, ApplyModeKeeps
<1>3. CASE HoldChanges
  <2>1. holding' \in BOOLEAN
    BY Zenon, <1>3 DEF HoldChanges
  <2>2. QED
    BY Zenon, <1>3, <2>1, ServicesKept DEF HoldChanges
<1>4. CASE MonitorRestarts
  BY Zenon, <1>4, MonitorRestartsKeeps
<1>5. QED
  BY Zenon, <1>1, <1>2, <1>3, <1>4 DEF ServicesNext

\* A step of the display leaves the services alone.
LEMMA DisplayKeepsServices ==
  ASSUME MonitorNext
  PROVE  UNCHANGED services
  BY Zenon DEF MonitorNext, WorkerClear, WorkerOrigin, WorkerClone, WorkerRepublish, WorkerPublish,
     WorkerWake, ConfigureOrigin, ConfigureRequest, ConfigureReset, RequestRefresh

\* The display's part: a step of the services leaves the worker as it is or
\* ends it; a step of the monitor loop reads the origin after it has cleared
\* the request.
LEMMA DisplayStep ==
  ASSUME DisplayOK, SupervisorNext
  PROVE  DisplayOK'
<1>1. CASE ServicesNext
  <2>1. UNCHANGED monitorLoop \/ MonitorRestarts
    <3>1. ASSUME NEW s \in Service,
                 ReconcileDisabled(s) \/ ReconcileHealthy(s) \/ ReconcileUnready(s)
                   \/ ReconcileGone(s) \/ ProcessChanges(s)
          PROVE  UNCHANGED monitorLoop
      BY <3>1, Zenon DEF ReconcileDisabled, ReconcileHealthy, ReconcileUnready, ReconcileGone,
         ProcessChanges
    <3>2. ASSUME NEW s \in Service, CommandStart(s) \/ CommandStop(s) \/ CommandRestart(s)
          PROVE  UNCHANGED monitorLoop
      BY <3>2, Zenon DEF CommandStart, CommandStop, CommandRestart
    <3>3. ASSUME NEW s \in Service, NEW m \in StartupMode, CommandStartupMode(s, m)
          PROVE  UNCHANGED monitorLoop
      BY <3>3, Zenon DEF CommandStartupMode
    <3>4. ASSUME NEW m \in AcquisitionMode, ApplyMode(m) PROVE UNCHANGED monitorLoop
      BY <3>4, Zenon DEF ApplyMode
    <3>5. HoldChanges => UNCHANGED monitorLoop
      BY Zenon DEF HoldChanges
    <3>6. QED
      BY <1>1, <3>1, <3>2, <3>3, <3>4, <3>5, Zenon DEF ServicesNext
  <2>2. QED
    BY Zenon, <2>1 DEF monitorLoop, MonitorRestarts, DisplayStarts, DisplayOK, RefreshPending
<1>2. CASE MonitorNext
  <2>1. CASE WorkerClear \/ WorkerOrigin \/ WorkerClone \/ WorkerRepublish
    BY Zenon, <2>1 DEF WorkerClear, WorkerOrigin, WorkerClone, WorkerRepublish, DisplayOK,
       RefreshPending
  <2>2. CASE WorkerPublish \/ WorkerWake
    BY Zenon, <2>2 DEF WorkerPublish, WorkerWake, DisplayOK, RefreshPending
  <2>3. CASE \/ \E o \in Origin : ConfigureOrigin(o)
             \/ ConfigureRequest \/ ConfigureReset \/ RequestRefresh
    BY Zenon, <2>3 DEF ConfigureOrigin, ConfigureRequest, ConfigureReset, RequestRefresh,
       DisplayOK, RefreshPending
  <2>4. QED
    BY Zenon, <1>2, <2>1, <2>2, <2>3 DEF MonitorNext
<1>3. QED
  BY Zenon, <1>1, <1>2 DEF SupervisorNext

\* The inductive invariant holds in every reachable state.
THEOREM SupervisorInvariant == SupervisorSpec => []SupervisorInv
<1>1. SupervisorInit => SupervisorInv
  <2> SUFFICES ASSUME SupervisorInit PROVE SupervisorInv
    BY Zenon
  <2>1. \A s \in Service : /\ runtime[s] = NoRuntime /\ proc[s] = "none" /\ autoStarts[s] = 0
                           /\ stopped[s] = FALSE
    BY Zenon DEF SupervisorInit
  <2>2. /\ NoRuntime \in RuntimeRecord /\ NoRuntime.child = "none"
        /\ NoRuntime.failures = 0 /\ NoRuntime.faulted = FALSE
    BY Zenon, FreshRecord
  <2>3. SupervisorTypes
    BY Zenon, <2>2 DEF SupervisorInit, SupervisorTypes, ProcState
  <2>4. \A s \in Service : ServiceOK(s)
    BY <2>1, <2>2, SupervisorAssumption DEF ServiceOK, RecordFits, Outstanding
  <2>5. DisplayOK
    BY Zenon DEF SupervisorInit, DisplayOK
  <2>6. QED
    BY Zenon, <2>3, <2>4, <2>5 DEF SupervisorInv
<1>2. SupervisorInv /\ [SupervisorNext]_supervisorVars => SupervisorInv'
  <2> SUFFICES ASSUME SupervisorInv, [SupervisorNext]_supervisorVars PROVE SupervisorInv'
    BY Zenon
  <2>t. ServicesInv /\ DisplayOK
    BY Zenon DEF SupervisorInv, ServicesInv
  <2>s. holding \in BOOLEAN
    BY Zenon DEF SupervisorInv, SupervisorTypes
  <2>1. ServicesInv'
    <3>1. CASE ServicesNext
      BY Zenon, <2>t, <3>1, ServicesStep
    <3>2. CASE MonitorNext \/ UNCHANGED supervisorVars
      <4>1. UNCHANGED <<proc, runtime, startup, persisted, mode, autoStarts, stopped, holding>>
        BY Zenon, <3>2, DisplayKeepsServices DEF services, supervisorVars
      <4>2. QED
        BY Zenon, <2>s, <2>t, <4>1, ServicesKept
    <3>3. QED
      BY Zenon, <3>1, <3>2 DEF SupervisorNext
  <2>2. DisplayOK'
    <3>1. CASE SupervisorNext
      BY Zenon, <2>t, <3>1, DisplayStep
    <3>2. CASE UNCHANGED supervisorVars
      BY Zenon, <2>t, <3>2 DEF supervisorVars, DisplayOK, RefreshPending
    <3>3. QED
      BY Zenon, <3>1, <3>2
  <2>3. QED
    BY Zenon, <2>1, <2>2 DEF SupervisorInv, ServicesInv
<1>3. QED
  BY <1>1, <1>2, PTL DEF SupervisorSpec

\* The supervisor launches a failing service a bounded number of times and its
\* display follows the configured origin, for every set of services, modes
\* and origins and every budget of failures.
THEOREM SupervisorAlwaysSafe == SupervisorSpec => []SupervisorSafety
<1>1. SupervisorInv => SupervisorSafety
  <2> SUFFICES ASSUME SupervisorInv PROVE SupervisorSafety
    BY Zenon
  <2>1. SupervisorTypeOK
    BY Zenon DEF SupervisorInv, SupervisorTypes, SupervisorTypeOK, ServiceOK, RecordFits, ProcState,
       RuntimeRecord
  <2>2. RestartsAreBounded /\ NoLostRefresh
    BY Zenon DEF SupervisorInv, ServiceOK, DisplayOK, RefreshPending, RestartsAreBounded,
       NoLostRefresh
  <2>3. QED
    BY Zenon, <2>1, <2>2 DEF SupervisorSafety
<1>2. QED
  BY <1>1, SupervisorInvariant, PTL

\* Service s has no handle after the step, or counts as started by a command.
NotLaunched(s) == runtime'[s].child = "none" \/ ~stopped'[s]

\* A service without a handle whose stop is in force gets none by a step that
\* concerns a single service.
LEMMA NoHandleFromService ==
  ASSUME SupervisorInv, NEW u \in Service, startup[u] # "normal", runtime[u].child = "none",
         NEW s \in Service,
         \/ ReconcileDisabled(s) \/ ReconcileHealthy(s) \/ ReconcileUnready(s)
         \/ ReconcileGone(s) \/ CommandStart(s) \/ CommandStop(s) \/ CommandRestart(s)
         \/ ProcessChanges(s) \/ \E m \in StartupMode : CommandStartupMode(s, m)
  PROVE  NotLaunched(u)
<1>t. /\ SupervisorTypes /\ \A v \in Service : ServiceOK(v)
      /\ runtime \in [Service -> RuntimeRecord] /\ stopped \in [Service -> BOOLEAN]
      /\ runtime[s] \in RuntimeRecord
  BY Zenon DEF SupervisorInv, SupervisorTypes
<1>1. CASE u # s
  <2>1. \E r : runtime' = runtime \/ runtime' = [runtime EXCEPT ![s] = r]
    <3>1. CASE ReconcileDisabled(s)
      BY Zenon, <3>1 DEF ReconcileDisabled, StopService
    <3>2. CASE ReconcileHealthy(s) \/ ReconcileUnready(s)
      BY Zenon, <3>2 DEF ReconcileHealthy, ReconcileUnready
    <3>3. CASE ReconcileGone(s)
      BY Zenon, <3>3 DEF ReconcileGone, StartService, Launch
    <3>4. CASE CommandStart(s)
      BY Zenon, <3>4 DEF CommandStart, StartService, Launch
    <3>5. CASE CommandStop(s) \/ CommandRestart(s)
      BY Zenon, <3>5 DEF CommandStop, CommandRestart, StopService, StartService, Launch
    <3>6. CASE ProcessChanges(s)
      BY Zenon, <3>6 DEF ProcessChanges
    <3>7. CASE \E m \in StartupMode : CommandStartupMode(s, m)
      <4>1. \A r, p, outcome : StartService(s, r, p, outcome) =>
              \E q : runtime' = [runtime EXCEPT ![s] = q]
        BY Zenon DEF StartService, Launch
      <4>2. QED
        BY Zenon, <3>7, <4>1 DEF CommandStartupMode
    <3>8. QED
      BY Zenon, <3>1, <3>2, <3>3, <3>4, <3>5, <3>6, <3>7
  <2>2. QED
    BY Zenon, <1>1, <1>t, <2>1 DEF NotLaunched
<1>2. CASE u = s
  <2>f. Forgotten(runtime[s]) \in RuntimeRecord /\ Forgotten(runtime[s]).child = "none"
    BY Zenon, <1>t, ForgottenRecord
  <2>e. AfterExit(s) \in RuntimeRecord /\ AfterExit(s).child = "none"
    BY Zenon, <1>2, <1>t, AfterExitRecord
  <2>1. CASE ReconcileDisabled(s)
    BY <1>2, <1>t, <2>1, <2>f DEF ReconcileDisabled, StopService, NotLaunched, RuntimeRecord
  <2>2. CASE ReconcileHealthy(s)
    <3>1. Cleared(AfterExit(s)) \in RuntimeRecord /\ Cleared(AfterExit(s)).child = "none"
      BY Zenon, <2>e, ClearedRecord
    <3> DEFINE c == Cleared(AfterExit(s))
               q == [c EXCEPT !.observed = TRUE, !.known = TRUE,
                              !.desired = @ \/ startup[s] = "normal"]
    <3>2. runtime' = [runtime EXCEPT ![s] = q]
      BY Zenon, <2>2 DEF ReconcileHealthy
    <3> HIDE DEF c
    <3>3. q.child = "none"
      BY Zenon, <3>1 DEF RuntimeRecord, c
    <3>4. QED
      BY Zenon, <1>2, <1>t, <3>2, <3>3 DEF NotLaunched
  <2>3. CASE ReconcileUnready(s)
    <3> DEFINE c == AfterExit(s)
               q == [c EXCEPT !.known = TRUE]
    <3>1. runtime' = [runtime EXCEPT ![s] = q]
      BY Zenon, <2>3 DEF ReconcileUnready
    <3> HIDE DEF c
    <3>2. q.child = "none"
      BY Zenon, <2>e DEF RuntimeRecord, c
    <3>3. QED
      BY Zenon, <1>2, <1>t, <3>1, <3>2 DEF NotLaunched
  <2>4. CASE ReconcileGone(s)
    <3> DEFINE c == AfterExit(s)
               gone == [c EXCEPT !.observed = FALSE, !.known = FALSE,
                                 !.desired = @ /\ startup[s] # "manual"]
               counted == IF c.observed THEN Failed(gone) ELSE gone
    <3>1. runtime' = [runtime EXCEPT ![s] = counted]
      BY Zenon, <1>2, <2>4 DEF ReconcileGone
    <3> HIDE DEF c
    <3>2. gone.child = "none" /\ Failed(gone).child = "none"
      BY Zenon, <2>e DEF RuntimeRecord, c, Failed
    <3>3. counted.child = "none"
      BY Zenon, <3>2
    <3> HIDE DEF counted
    <3>4. QED
      BY Zenon, <1>2, <1>t, <3>1, <3>3 DEF NotLaunched
  <2>5. CASE CommandStart(s) \/ CommandRestart(s)
    BY Zenon, <1>2, <1>t, <2>5 DEF CommandStart, CommandRestart, NotLaunched
  <2>6. CASE CommandStop(s)
    BY Zenon, <1>2, <1>t, <2>6, <2>f DEF CommandStop, StopService, NotLaunched
  <2>7. CASE ProcessChanges(s)
    BY <1>2, <1>t, <2>7 DEF ProcessChanges, NotLaunched, RuntimeRecord
  <2>8. CASE \E m \in StartupMode : CommandStartupMode(s, m)
    <3>1. PICK m \in StartupMode : CommandStartupMode(s, m)
      BY Zenon, <2>8
    <3>2. CASE m = "normal"
      BY Zenon, <1>2, <1>t, <3>1, <3>2 DEF CommandStartupMode, NotLaunched
    <3>3. CASE m # "normal"
      <4> DEFINE q == [runtime[s] EXCEPT !.desired = m = "manual" /\ runtime[s].observed]
      <4>1. q \in RuntimeRecord /\ q.child = "none"
        BY Zenon, <1>2, <1>t DEF RuntimeRecord
      <4>2. \/ runtime' = [runtime EXCEPT ![s] = q]
            \/ runtime' = [runtime EXCEPT ![s] = Forgotten(q)]
        BY Zenon, <3>1, <3>3 DEF CommandStartupMode
      <4> HIDE DEF q
      <4>3. Forgotten(q).child = "none"
        BY Zenon, <4>1, ForgottenRecord
      <4>4. QED
        BY Zenon, <1>2, <1>t, <4>1, <4>2, <4>3 DEF NotLaunched
    <3>4. QED
      BY Zenon, <3>2, <3>3
  <2>9. QED
    BY Zenon, <2>1, <2>2, <2>3, <2>4, <2>5, <2>6, <2>7, <2>8
<1>3. QED
  BY Zenon, <1>1, <1>2

\* A stop whose startup mode was saved is not undone by the supervisor, for
\* every set of services and modes, over restarts of the monitor.
THEOREM SavedStopAlwaysSticks == SupervisorSpec => SavedStopSticks
<1>1. SupervisorInv /\ [SupervisorNext]_supervisorVars =>
        [\A s \in Service : persisted[s] # "normal" => ~LaunchedWhileStopped(s)]_supervisorVars
  <2> SUFFICES ASSUME SupervisorInv, SupervisorNext, NEW u \in Service,
                      persisted[u] # "normal", LaunchedWhileStopped(u)
               PROVE  FALSE
    BY Zenon
  <2>1. /\ startup[u] # "normal" /\ runtime[u].child = "none" /\ ~NotLaunched(u)
        /\ runtime \in [Service -> RuntimeRecord] /\ runtime[u] \in RuntimeRecord
        /\ runtime'[u].child # runtime[u].child
    BY Zenon DEF SupervisorInv, SupervisorTypes, ServiceOK, LaunchedWhileStopped, NotLaunched
  <2>2. CASE \E s \in Service :
               \/ ReconcileDisabled(s) \/ ReconcileHealthy(s) \/ ReconcileUnready(s)
               \/ ReconcileGone(s) \/ CommandStart(s) \/ CommandStop(s) \/ CommandRestart(s)
               \/ ProcessChanges(s) \/ \E m \in StartupMode : CommandStartupMode(s, m)
    BY Zenon, <2>1, <2>2, NoHandleFromService
  <2>3. CASE \E m \in AcquisitionMode : ApplyMode(m)
    <3> DEFINE x == IF Observed(u) THEN Forgotten(runtime[u]) ELSE runtime[u]
    <3>1. runtime'[u] = x \/ runtime'[u] = Cleared(x)
      <4> DEFINE r == [s \in Service |->
                         IF Observed(s) THEN Forgotten(runtime[s]) ELSE runtime[s]]
      <4>1. runtime' = r \/ runtime' = [s \in Service |-> Cleared(r[s])]
        BY Zenon, <2>3 DEF ApplyMode
      <4>2. r[u] = x
        BY Zenon
      <4> HIDE DEF r, x
      <4>3. QED
        BY Zenon, <4>1, <4>2
    <3>2. x \in RuntimeRecord /\ x.child = "none"
      BY Zenon, <2>1, ForgottenRecord
    <3> HIDE DEF x
    <3>3. Cleared(x).child = "none"
      BY Zenon, <3>2, ClearedRecord
    <3>4. QED
      BY Zenon, <2>1, <3>1, <3>2, <3>3
  <2>4. CASE MonitorRestarts
    <3> DEFINE b == (persisted[u] = "normal" /\ Enabled(u))
    <3>1. runtime'[u] = [NoRuntime EXCEPT !.desired = b] /\ b \in BOOLEAN
      BY Zenon, <2>4 DEF MonitorRestarts
    <3> HIDE DEF b
    <3>2. QED
      BY Zenon, <2>1, <3>1, FreshRecord
  <2>5. CASE HoldChanges \/ MonitorNext
    <3>1. runtime' = runtime
      BY Zenon, <2>5, DisplayKeepsServices DEF HoldChanges, services
    <3>2. QED
      BY Zenon, <2>1, <3>1
  <2>6. QED
    BY Zenon, <2>2, <2>3, <2>4, <2>5 DEF SupervisorNext, ServicesNext
<1>2. QED
  BY <1>1, SupervisorInvariant, PTL DEF SupervisorSpec, SavedStopSticks

-----------------------------------------------------------------------------
(***************************************************************************)
(* CalibrationOperations, for any number of HTTP threads, operation ids,   *)
(* requests, restarts and failed statements.                               *)
(***************************************************************************)

-----------------------------------------------------------------------------
(* The inductive invariant *)

\* A thread past try_lock holds the lock, so there is one such thread.
LockHeld ==
  \A t \in CalThread :
    calPc[t] \in {"insert", "dispatch", "called", "reconcile"} => calLock = t

\* A thread that serves a request has one, and rows keep a request of the client.
RequestsKnown ==
  /\ \A t \in CalThread : calPc[t] # "idle" => calReq[t] \in CalRequests
  /\ \A id \in OperationId : Inserted(id) => ledger[id].req \in CalRequests

\* An id that is not inserted was never dispatched, and the thread that is
\* about to dispatch one has not done so yet.
NotYetCalled ==
  /\ \A id \in OperationId : ~Inserted(id) => calls[id] = 0
  /\ \A t \in CalThread : calPc[t] = "dispatch" => calls[calReq[t].id] = 0

\* Until the outcome is stored the row is the thread's own, still dispatching.
RowIsOpen ==
  \A t \in CalThread :
    calPc[t] \in {"dispatch", "called"} =>
      /\ ledger[calReq[t].id].req = calReq[t]
      /\ ledger[calReq[t].id].status = "dispatching"
      /\ calReq[t].id \notin ambiguous

\* What a recovery expects to undo is what its parent row says.
Expectation(t) ==
  calExpected[t] # None =>
    /\ calPc[t] # "idle"
    /\ calReq[t].parent \in OperationId
    /\ Inserted(calReq[t].parent)
    /\ calExpected[t] = ExpectedApply(calReq[t].parent)

ExpectationStands == \A t \in CalThread : Expectation(t)

\* A recovery that goes on to its parent has its own evidence stored.
RecoveryConfirmed ==
  \A t \in CalThread :
    calPc[t] = "reconcile" =>
      /\ calReq[t].parent # None
      /\ ledger[calReq[t].id].req = calReq[t]
      /\ ledger[calReq[t].id].status = "succeeded"
      /\ <<calReq[t].id, calExpected[t], calExpected[t]>> \in evidence

CalInv ==
  /\ CalTypeOK
  /\ LockHeld /\ RequestsKnown
  /\ DispatchAtMostOnce /\ NotYetCalled
  /\ RowIsOpen /\ AmbiguousStaysFenced
  /\ ExpectationStands /\ RecoveryConfirmed /\ ReconciledByEvidence

-----------------------------------------------------------------------------
(* What the provider's answer means *)

\* An answer that leaves open what the devices hold is always stored as one
\* that needs reconciliation, whatever else the answer says.
LEMMA AmbiguousNeedsReconciliation ==
  ASSUME NEW kind \in {"apply-all", "rollback"}, NEW r, Ambiguous(kind, r)
  PROVE  ProviderTerminalStatus(kind, r) = "needs-reconciliation"
  BY Zenon DEF Ambiguous, Undecided, ProviderTerminalStatus

\* Every answer, and every missing one, ends the operation in one of three ways.
LEMMA TerminalStatusType ==
  ASSUME NEW kind, NEW r
  PROVE  ProviderTerminalStatus(kind, r) \in {"succeeded", "failed", "needs-reconciliation"}
  BY Zenon DEF ProviderTerminalStatus

\* The two facts above for the outcomes a call may have.
LEMMA OutcomesMeaning ==
  ASSUME NEW kind \in {"apply-all", "rollback"}, NEW o \in Outcomes(kind)
  PROVE  /\ o[1] \in {"succeeded", "failed", "needs-reconciliation"}
         /\ o[2] => o[1] = "needs-reconciliation"
<1>1. PICK r \in Response \cup {None} :
        o = <<ProviderTerminalStatus(kind, r), Ambiguous(kind, r)>>
  BY Zenon DEF Outcomes
<1>2. o[1] = ProviderTerminalStatus(kind, r) /\ (o[2] <=> Ambiguous(kind, r))
  BY Zenon, <1>1
<1> QED
  BY Zenon, <1>2, AmbiguousNeedsReconciliation, TerminalStatusType

-----------------------------------------------------------------------------
(* Frames *)

\* A request has a kind, an id, and ids or None for parent and apply.
LEMMA RequestType ==
  ASSUME NEW q \in CalRequests
  PROVE  /\ q.id \in OperationId /\ q.kind \in {"apply-all", "rollback"}
         /\ q.parent \in OperationId \cup {None} /\ q.apply \in OperationId \cup {None}
  BY Zenon, CalRequestsAssumption DEF CalibrationRequest

\* A thread's step changes its own program counter and request, nobody else's.
LEMMA OthersKept ==
  ASSUME CalTypeOK, NEW t \in CalThread, CalLookup(t) \/ CalThreadStep(t),
         NEW u \in CalThread, u # t
  PROVE  calPc'[u] = calPc[u] /\ calReq'[u] = calReq[u] /\ calExpected'[u] = calExpected[u]
<1>t. /\ DOMAIN calPc = CalThread /\ DOMAIN calReq = CalThread
      /\ DOMAIN calExpected = CalThread
  BY Zenon DEF CalTypeOK
<1>1. CASE CalLookup(t)
  BY Zenon, <1>1, <1>t DEF CalLookup
<1>2. CASE CalFence(t)
  BY Zenon, <1>2, <1>t DEF CalFence, Answered
<1>3. CASE CalTryLock(t)
  BY Zenon, <1>3, <1>t DEF CalTryLock, Answered
<1>4. CASE CalInsert(t)
  BY Zenon, <1>4, <1>t DEF CalInsert, Answered
<1>5. CASE CalDispatch(t)
  BY Zenon, <1>5, <1>t DEF CalDispatch
<1>6. CASE CalFinish(t)
  BY Zenon, <1>6, <1>t DEF CalFinish, Answered
<1>7. CASE CalFinishFails(t)
  BY Zenon, <1>7, <1>t DEF CalFinishFails, Answered
<1>8. CASE CalReconcile(t)
  BY Zenon, <1>8, <1>t DEF CalReconcile, Answered
<1> QED
  BY Zenon, <1>1, <1>2, <1>3, <1>4, <1>5, <1>6, <1>7, <1>8 DEF CalThreadStep

-----------------------------------------------------------------------------
(* Types *)

\* The empty ledger and idle threads of a first start satisfy the invariant.
LEMMA CalInitInv == CalInit => CalInv
<1> SUFFICES ASSUME CalInit PROVE CalInv
  BY Zenon
<1>1. CalTypeOK
  BY Zenon DEF CalInit, CalTypeOK, Absent
<1>2. \A id \in OperationId : ~Inserted(id) /\ ledger[id].status # "reconciled"
  BY Zenon DEF CalInit, Inserted, Absent
<1> QED
  BY <1>1, <1>2 DEF CalInit, CalInv, LockHeld, RequestsKnown, DispatchAtMostOnce, NotYetCalled,
     RowIsOpen, AmbiguousStaysFenced, ExpectationStands, Expectation,
     RecoveryConfirmed, ReconciledByEvidence

\* What an apply or a rollback of a row is about is an id, or nothing.
LEMMA ExpectedType ==
  ASSUME CalTypeOK, RequestsKnown, NEW id \in OperationId, Inserted(id)
  PROVE  ExpectedApply(id) \in OperationId \cup {None}
  BY Zenon, RequestType DEF RequestsKnown, ExpectedApply

\* A thread whose request is answered is idle again and has no request.
LEMMA AnsweredType ==
  ASSUME CalTypeOK, NEW t \in CalThread, Answered(t)
  PROVE  /\ calPc' \in [CalThread -> {"idle", "fence", "lock", "insert", "dispatch", "called",
                                      "reconcile"}]
         /\ calReq' \in [CalThread -> CalRequests \cup {None}]
         /\ calExpected' \in [CalThread -> OperationId \cup {None}]
         /\ calPc'[t] = "idle"
  BY Zenon DEF Answered, CalTypeOK

\* Every step of a thread and every restart keeps the types.
LEMMA CalTypeStep == CalTypeOK /\ RequestsKnown /\ [CalNext]_calVars => CalTypeOK'
<1> SUFFICES ASSUME CalTypeOK, RequestsKnown, [CalNext]_calVars PROVE CalTypeOK'
  BY Zenon
<1>1. ASSUME NEW t \in CalThread, CalLookup(t) PROVE CalTypeOK'
  BY <1>1 DEF CalLookup, CalTypeOK
<1>2. ASSUME NEW t \in CalThread, CalFence(t) PROVE CalTypeOK'
  <2>1. calReq[t] \in CalRequests
    BY Zenon, <1>2 DEF CalFence, RequestsKnown
  <2>2. CASE FencePasses(calReq[t])
    <3>1. PICK e : e = IF Unresolved = {} THEN None ELSE ExpectedApply(calReq[t].parent)
      BY Zenon
    <3>2. e \in OperationId \cup {None}
      BY Zenon, <2>1, <2>2, <3>1, RequestType, ExpectedType
         DEF FencePasses, RecoversParent, Inserted, Absent
    <3> QED
      BY Zenon, <1>2, <2>2, <3>1, <3>2 DEF CalFence, CalTypeOK
  <2>3. CASE ~FencePasses(calReq[t])
    BY Zenon, <1>2, <2>3, AnsweredType DEF CalFence, CalTypeOK
  <2> QED
    BY Zenon, <2>2, <2>3
<1>3. ASSUME NEW t \in CalThread, CalTryLock(t) PROVE CalTypeOK'
  <2>1. CASE calLock = None
    BY Zenon, <1>3, <2>1 DEF CalTryLock, CalTypeOK
  <2>2. CASE calLock # None
    BY Zenon, <1>3, <2>2, AnsweredType DEF CalTryLock, CalTypeOK
  <2> QED
    BY Zenon, <2>1, <2>2
<1>4. ASSUME NEW t \in CalThread, CalInsert(t) PROVE CalTypeOK'
  <2>1. calReq[t] \in CalRequests /\ calReq[t].id \in OperationId
    BY Zenon, <1>4, RequestType DEF CalInsert, RequestsKnown
  <2>2. CASE InsertRow(calReq[t]) /\ calPc' = [calPc EXCEPT ![t] = "dispatch"]
             /\ UNCHANGED <<calLock, calReq, calExpected, calDbErrors>>
    BY Zenon, <1>4, <2>1, <2>2 DEF CalInsert, InsertRow, CalTypeOK
  <2>3. CASE Answered(t) /\ calLock' = None /\ UNCHANGED ledger
             /\ calDbErrors' \in {calDbErrors, calDbErrors + 1}
    BY <1>4, <2>3, AnsweredType DEF CalInsert, CalTypeOK
  <2> QED
    BY Zenon, <1>4, <2>2, <2>3 DEF CalInsert
<1>5. ASSUME NEW t \in CalThread, CalDispatch(t) PROVE CalTypeOK'
  <2>1. calReq[t].id \in OperationId
    BY Zenon, <1>5, RequestType DEF CalDispatch, RequestsKnown
  <2>2. calls' \in [OperationId -> Nat]
    BY <1>5, <2>1 DEF CalDispatch, CalTypeOK
  <2>3. calPc' \in [CalThread -> {"idle", "fence", "lock", "insert", "dispatch", "called",
                                  "reconcile"}]
    BY Zenon, <1>5 DEF CalDispatch, CalTypeOK
  <2> QED
    BY Zenon, <1>5, <2>2, <2>3 DEF CalDispatch, CalTypeOK
<1>6. ASSUME NEW t \in CalThread, CalFinish(t) PROVE CalTypeOK'
  <2>1. calReq[t] \in CalRequests /\ calReq[t].id \in OperationId
        /\ calReq[t].kind \in {"apply-all", "rollback"}
    BY Zenon, <1>6, RequestType DEF CalFinish, RequestsKnown
  <2>2. PICK o \in Outcomes(calReq[t].kind) :
          /\ FinishRow(calReq[t].id, o[1])
          /\ ambiguous' \in {ambiguous, ambiguous \cup {calReq[t].id}}
          /\ \E echo \in OperationId \cup {None} :
               evidence' \in {evidence, evidence \cup {<<calReq[t].id, echo, calExpected[t]>>}}
    BY Zenon, <1>6, <2>1 DEF CalFinish
  <2>3. o[1] \in {"succeeded", "failed", "needs-reconciliation"}
    BY Zenon, <2>1, OutcomesMeaning
  <2>4. ledger' \in [OperationId -> [req : CalRequests \cup {None},
                   status : {Absent, "dispatching", "succeeded", "failed",
                             "needs-reconciliation", "reconciled"}]]
    BY <2>1, <2>2, <2>3 DEF FinishRow, CalTypeOK
  <2>5. /\ ambiguous' \subseteq OperationId
        /\ evidence' \subseteq OperationId \X (OperationId \cup {None}) \X (OperationId \cup {None})
    BY <2>1, <2>2 DEF CalTypeOK
  <2>6. UNCHANGED <<calls, calRestarts, calDbErrors>>
    BY Zenon, <1>6 DEF CalFinish
  <2>7. CASE calPc' = [calPc EXCEPT ![t] = "reconcile"]
             /\ UNCHANGED <<calReq, calExpected, calLock>>
    BY Zenon, <2>4, <2>5, <2>6, <2>7 DEF CalTypeOK
  <2>8. CASE Answered(t) /\ calLock' = None
    BY Zenon, <2>4, <2>5, <2>6, <2>8, AnsweredType DEF CalTypeOK
  <2> QED
    BY Zenon, <1>6, <2>7, <2>8 DEF CalFinish
<1>7. ASSUME NEW t \in CalThread, CalFinishFails(t) PROVE CalTypeOK'
  <2>1. calReq[t].id \in OperationId
    BY Zenon, <1>7, RequestType DEF CalFinishFails, RequestsKnown
  <2> QED
    BY <1>7, <2>1, AnsweredType DEF CalFinishFails, CalTypeOK
<1>8. ASSUME NEW t \in CalThread, CalReconcile(t) PROVE CalTypeOK'
  <2>1. ledger' \in [OperationId -> [req : CalRequests \cup {None},
                   status : {Absent, "dispatching", "succeeded", "failed",
                             "needs-reconciliation", "reconciled"}]]
    BY <1>8 DEF CalReconcile, ReconcileParent, CalTypeOK
  <2> QED
    BY <1>8, <2>1, AnsweredType DEF CalReconcile, CalTypeOK
<1>9. CASE CalRestart
  <2>1. {calReq[t].id : t \in {u \in CalThread : calPc[u] = "called"}} \subseteq OperationId
    BY Zenon, RequestType DEF RequestsKnown
  <2>2. ledger' \in [OperationId -> [req : CalRequests \cup {None},
                   status : {Absent, "dispatching", "succeeded", "failed",
                             "needs-reconciliation", "reconciled"}]]
    BY <1>9 DEF CalRestart, RecoverDispatching, CalTypeOK
  <2> QED
    BY <1>9, <2>1, <2>2 DEF CalRestart, CalTypeOK
<1>10. CASE UNCHANGED calVars
  BY Zenon, <1>10 DEF calVars, CalTypeOK
<1> QED
  BY Zenon, <1>1, <1>2, <1>3, <1>4, <1>5, <1>6, <1>7, <1>8, <1>9, <1>10 DEF CalNext, CalThreadStep

-----------------------------------------------------------------------------
(* Rows, locks and requests *)

\* A row keeps its request for ever, and a success is final: the updates of
\* finish, reconcile and recovery are all conditional on the status.
LEMMA RowsKept ==
  ASSUME CalTypeOK, [CalNext]_calVars, NEW id \in OperationId, Inserted(id)
  PROVE  /\ Inserted(id)' /\ ledger'[id].req = ledger[id].req
         /\ ledger[id].status \in {"succeeded", "failed", "reconciled"} =>
              ledger'[id].status = ledger[id].status
<1>t. ledger[id].status \in {Absent, "dispatching", "succeeded", "failed",
                             "needs-reconciliation", "reconciled"}
      /\ DOMAIN ledger = OperationId
  BY Zenon DEF CalTypeOK
<1>1. CASE UNCHANGED ledger
  BY Zenon, <1>1 DEF Inserted
<1>2. ASSUME NEW t \in CalThread, CalInsert(t), ledger' # ledger PROVE ledger'[id] = ledger[id]
  BY Zenon, <1>2, <1>t DEF CalInsert, InsertRow
<1>3. ASSUME NEW t \in CalThread, CalFinish(t)
      PROVE  /\ ledger'[id].req = ledger[id].req
             /\ \/ ledger'[id].status = ledger[id].status
                \/ /\ ledger[id].status = "dispatching"
                   /\ ledger'[id].status \in {"succeeded", "failed", "needs-reconciliation"}
  <2>1. PICK o \in Outcomes(calReq[t].kind) : FinishRow(calReq[t].id, o[1])
    BY Zenon, <1>3 DEF CalFinish
  <2>2. o[1] \in {"succeeded", "failed", "needs-reconciliation"}
    BY TerminalStatusType DEF Outcomes
  <2>3. PICK k : k = calReq[t].id
    BY Zenon
  <2>4. CASE id # k
    <3>1. ledger'[id] = ledger[id]
      BY Zenon, <1>t, <2>1, <2>3, <2>4 DEF FinishRow
    <3>2. QED
      BY Zenon, <3>1
  <2>5. CASE id = k
    <3>1. ledger'[id] = [ledger[id] EXCEPT !.status = IF ledger[id].status = "dispatching" THEN o[1]
                                                      ELSE ledger[id].status]
      BY Zenon, <1>t, <2>1, <2>3, <2>5 DEF FinishRow
    <3>2. ledger[id] = [req |-> ledger[id].req, status |-> ledger[id].status]
      BY Zenon DEF CalTypeOK
    <3>3. /\ ledger'[id].req = ledger[id].req
          /\ ledger'[id].status = IF ledger[id].status = "dispatching" THEN o[1]
                                  ELSE ledger[id].status
      BY Zenon, <3>1, <3>2
    <3>4. QED
      BY Zenon, <2>2, <3>3
  <2>6. QED
    BY Zenon, <2>4, <2>5
<1>4. ASSUME NEW t \in CalThread, CalReconcile(t)
      PROVE  /\ ledger'[id].req = ledger[id].req
             /\ \/ ledger'[id].status = ledger[id].status
                \/ /\ ledger[id].status = "needs-reconciliation"
                   /\ ledger'[id].status = "reconciled"
  BY <1>4, <1>t DEF CalReconcile, ReconcileParent, CalTypeOK
<1>5. ASSUME CalRestart
      PROVE  /\ ledger'[id].req = ledger[id].req
             /\ \/ ledger'[id].status = ledger[id].status
                \/ /\ ledger[id].status = "dispatching"
                   /\ ledger'[id].status = "needs-reconciliation"
  BY Zenon, <1>5, <1>t DEF CalRestart, RecoverDispatching, CalTypeOK
<1>6. \/ UNCHANGED ledger
      \/ \E t \in CalThread : CalInsert(t) \/ CalFinish(t) \/ CalReconcile(t)
      \/ CalRestart
  BY Zenon DEF CalNext, CalThreadStep, CalLookup, CalFence, CalTryLock, CalDispatch, CalFinishFails,
     calVars
<1> QED
  BY <1>1, <1>2, <1>3, <1>4, <1>5, <1>6 DEF Inserted, Absent

\* try_lock lets one thread past it, and only that thread frees the lock.
LEMMA LockStep == CalTypeOK /\ LockHeld /\ [CalNext]_calVars => LockHeld'
<1> SUFFICES ASSUME CalTypeOK, LockHeld, [CalNext]_calVars PROVE LockHeld'
  BY Zenon
<1>t. /\ DOMAIN calPc = CalThread
      /\ None \notin CalThread
  BY Zenon, CalNoneAssumption DEF CalTypeOK
<1>1. ASSUME NEW t \in CalThread, CalLookup(t) PROVE LockHeld'
  BY Zenon, <1>1, <1>t DEF CalLookup, LockHeld
<1>2. ASSUME NEW t \in CalThread, CalFence(t) PROVE LockHeld'
  BY Zenon, <1>2, <1>t DEF CalFence, Answered, LockHeld
<1>3. ASSUME NEW t \in CalThread, CalTryLock(t) PROVE LockHeld'
  BY Zenon, <1>3, <1>t DEF CalTryLock, Answered, LockHeld
<1>4. ASSUME NEW t \in CalThread, CalInsert(t) PROVE LockHeld'
  BY Zenon, <1>4, <1>t DEF CalInsert, Answered, LockHeld
<1>5. ASSUME NEW t \in CalThread, CalDispatch(t) PROVE LockHeld'
  BY Zenon, <1>5, <1>t DEF CalDispatch, LockHeld
<1>6. ASSUME NEW t \in CalThread, CalFinish(t) PROVE LockHeld'
  <2>1. \/ calPc' = [calPc EXCEPT ![t] = "reconcile"] /\ calLock' = calLock
        \/ calPc' = [calPc EXCEPT ![t] = "idle"] /\ calLock' = None
    BY Zenon, <1>6 DEF CalFinish, Answered
  <2>2. calPc[t] = "called"
    BY Zenon, <1>6 DEF CalFinish
  <2> QED
    BY Zenon, <2>1, <2>2, <1>t DEF LockHeld
<1>7. ASSUME NEW t \in CalThread, CalFinishFails(t) PROVE LockHeld'
  BY Zenon, <1>7, <1>t DEF CalFinishFails, Answered, LockHeld
<1>8. ASSUME NEW t \in CalThread, CalReconcile(t) PROVE LockHeld'
  BY Zenon, <1>8, <1>t DEF CalReconcile, Answered, LockHeld
<1>9. CASE CalRestart
  BY Zenon, <1>9 DEF CalRestart, LockHeld
<1>10. CASE UNCHANGED calVars
  BY Zenon, <1>10 DEF calVars, LockHeld
<1> QED
  BY Zenon, <1>1, <1>2, <1>3, <1>4, <1>5, <1>6, <1>7, <1>8, <1>9, <1>10 DEF CalNext, CalThreadStep

\* Threads serve requests of clients, and the ledger holds no others.
LEMMA KnownStep == CalTypeOK /\ RequestsKnown /\ [CalNext]_calVars => RequestsKnown'
<1> SUFFICES ASSUME CalTypeOK, RequestsKnown, [CalNext]_calVars PROVE RequestsKnown'
  BY Zenon
<1>t. DOMAIN calPc = CalThread /\ DOMAIN calReq = CalThread /\ DOMAIN ledger = OperationId
  BY Zenon DEF CalTypeOK
<1>1. \A u \in CalThread : calPc'[u] # "idle" => calReq'[u] \in CalRequests
  <2>1. ASSUME NEW t \in CalThread, CalLookup(t) PROVE <1>1!:
    BY Zenon, <2>1, <1>t DEF CalLookup, RequestsKnown
  <2>2. ASSUME NEW t \in CalThread, CalThreadStep(t), NEW u \in CalThread, calPc'[u] # "idle"
        PROVE  calReq'[u] = calReq[u] /\ calPc[u] # "idle"
    <3>1. CASE u # t
      BY Zenon, <2>2, <3>1, OthersKept
    <3>2. CASE u = t
      <4>1. \/ calPc' = [calPc EXCEPT ![t] = "idle"]
            \/ calReq' = calReq /\ calPc[t] # "idle"
        BY Zenon, <2>2 DEF CalThreadStep, CalFence, CalTryLock, CalInsert, CalDispatch, CalFinish,
           CalFinishFails, CalReconcile, Answered
      <4> QED
        BY Zenon, <2>2, <3>2, <4>1, <1>t
    <3> QED
      BY Zenon, <3>1, <3>2
  <2>3. CASE CalRestart
    BY Zenon, <2>3 DEF CalRestart
  <2>4. CASE UNCHANGED calVars
    BY Zenon, <2>4 DEF calVars, RequestsKnown
  <2> QED
    BY Zenon, <2>1, <2>2, <2>3, <2>4 DEF CalNext, RequestsKnown
<1>2. \A id \in OperationId : ~Inserted(id) /\ Inserted(id)' => ledger'[id].req \in CalRequests
  <2>1. ASSUME NEW t \in CalThread, CalInsert(t) PROVE <1>2!:
    <3>1. \/ UNCHANGED ledger
          \/ ledger' = [ledger EXCEPT ![calReq[t].id] = [req |-> calReq[t], status |-> "dispatching"]]
      BY Zenon, <2>1 DEF CalInsert, InsertRow
    <3>2. calReq[t] \in CalRequests
      BY Zenon, <2>1 DEF CalInsert, RequestsKnown
    <3> QED
      BY <3>1, <3>2, <1>t DEF Inserted
  <2>2. ASSUME NEW t \in CalThread, CalFinish(t), NEW id \in OperationId, ~Inserted(id)
        PROVE  ledger'[id].status = ledger[id].status
    BY <2>2, <1>t DEF CalFinish, FinishRow, Inserted, Absent, CalTypeOK
  <2>3. ASSUME NEW t \in CalThread, CalReconcile(t), NEW id \in OperationId, ~Inserted(id)
        PROVE  ledger'[id].status = ledger[id].status
    BY Zenon, <2>3, <1>t DEF CalReconcile, ReconcileParent, Inserted, Absent, CalTypeOK
  <2>4. ASSUME CalRestart, NEW id \in OperationId, ~Inserted(id)
        PROVE  ledger'[id].status = ledger[id].status
    BY Zenon, <2>4, <1>t DEF CalRestart, RecoverDispatching, Inserted, Absent, CalTypeOK
  <2>5. \/ UNCHANGED ledger
        \/ \E t \in CalThread : CalInsert(t) \/ CalFinish(t) \/ CalReconcile(t)
        \/ CalRestart
    BY Zenon DEF CalNext, CalThreadStep, CalLookup, CalFence, CalTryLock, CalDispatch, CalFinishFails,
       calVars
  <2> QED
    BY Zenon, <2>1, <2>2, <2>3, <2>4, <2>5 DEF Inserted
<1>3. \A id \in OperationId : Inserted(id) => ledger'[id].req = ledger[id].req
  BY Zenon, RowsKept
<1> QED
  BY Zenon, <1>1, <1>2, <1>3 DEF RequestsKnown

-----------------------------------------------------------------------------
(* The four promises *)

\* At most one thread is past try_lock.
LEMMA OneHolder ==
  ASSUME LockHeld, NEW t \in CalThread, NEW u \in CalThread,
         calPc[t] \in {"insert", "dispatch", "called", "reconcile"},
         calPc[u] \in {"insert", "dispatch", "called", "reconcile"}
  PROVE  t = u
  BY Zenon DEF LockHeld

\* The insert under the lock makes the first dispatch of an id the only one.
LEMMA CalledStep ==
  CalInv /\ [CalNext]_calVars => DispatchAtMostOnce' /\ NotYetCalled'
<1> SUFFICES ASSUME CalInv, [CalNext]_calVars PROVE DispatchAtMostOnce' /\ NotYetCalled'
  BY Zenon
<1>i. /\ CalTypeOK /\ LockHeld /\ RequestsKnown
      /\ DispatchAtMostOnce /\ NotYetCalled /\ RowIsOpen
  BY Zenon DEF CalInv
<1>t. DOMAIN calPc = CalThread /\ DOMAIN calReq = CalThread /\ calls \in [OperationId -> Nat]
  BY Zenon, <1>i DEF CalTypeOK
<1>k. \A id \in OperationId : Inserted(id) => Inserted(id)'
  BY Zenon, <1>i, RowsKept
<1>q. \A t \in CalThread : calPc[t] # "idle" => calReq[t].id \in OperationId
  BY Zenon, <1>i, RequestType DEF RequestsKnown
<1>1. ASSUME NEW t \in CalThread, CalDispatch(t) PROVE DispatchAtMostOnce' /\ NotYetCalled'
  <2>1. /\ calPc[t] = "dispatch" /\ calls' = [calls EXCEPT ![calReq[t].id] = @ + 1]
        /\ calPc' = [calPc EXCEPT ![t] = "called"] /\ UNCHANGED <<ledger, calReq>>
    BY Zenon, <1>1 DEF CalDispatch
  <2>2. calls[calReq[t].id] = 0 /\ Inserted(calReq[t].id) /\ calReq[t].id \in OperationId
    <3>1. calls[calReq[t].id] = 0 /\ calReq[t].id \in OperationId
      BY Zenon, <1>i, <1>q, <2>1 DEF NotYetCalled
    <3>2. ledger[calReq[t].id].status = "dispatching"
      BY Zenon, <1>i, <2>1 DEF RowIsOpen
    <3> QED
      BY Zenon, <3>1, <3>2 DEF Inserted, Absent
  <2>3. DispatchAtMostOnce'
    BY <1>i, <1>t, <2>1, <2>2 DEF DispatchAtMostOnce
  <2>4. \A id \in OperationId : ~Inserted(id)' => calls'[id] = 0
    BY Zenon, <1>i, <1>t, <1>k, <2>1, <2>2 DEF NotYetCalled
  <2>5. \A u \in CalThread : calPc'[u] # "dispatch"
    BY Zenon, <1>i, <1>t, <2>1, OneHolder
  <2> QED
    BY Zenon, <2>3, <2>4, <2>5 DEF NotYetCalled
<1>2. ASSUME NEW t \in CalThread, CalInsert(t) PROVE DispatchAtMostOnce' /\ NotYetCalled'
  <2>1. calls' = calls /\ calPc[t] = "insert"
    BY Zenon, <1>2 DEF CalInsert
  <2>2. \A u \in CalThread : u # t => calPc'[u] # "dispatch"
    BY Zenon, <1>2, <1>i, <2>1, OneHolder, OthersKept DEF CalThreadStep
  <2>3. calPc'[t] = "dispatch" => ~Inserted(calReq[t].id) /\ calReq' = calReq
    BY Zenon, <1>2, <1>t DEF CalInsert, Answered
  <2>4. calPc'[t] = "dispatch" => calls'[calReq'[t].id] = 0
    BY Zenon, <1>i, <1>q, <2>1, <2>3 DEF NotYetCalled
  <2> QED
    BY Zenon, <1>i, <1>k, <2>1, <2>2, <2>4 DEF NotYetCalled, DispatchAtMostOnce
<1>3. ASSUME calls' = calls,
             \A u \in CalThread : calPc'[u] = "dispatch" => calPc[u] = "dispatch" /\ calReq'[u] = calReq[u]
      PROVE  DispatchAtMostOnce' /\ NotYetCalled'
  BY Zenon, <1>i, <1>k, <1>3 DEF NotYetCalled, DispatchAtMostOnce
<1>4. ASSUME NEW t \in CalThread, CalLookup(t) \/ CalThreadStep(t), ~CalDispatch(t), ~CalInsert(t)
      PROVE  DispatchAtMostOnce' /\ NotYetCalled'
  <2>1. calls' = calls
    BY Zenon, <1>4 DEF CalLookup, CalThreadStep, CalFence, CalTryLock, CalFinish, CalFinishFails,
       CalReconcile
  <2>2. \E l \in {"fence", "lock", "insert", "reconcile", "idle"} : calPc' = [calPc EXCEPT ![t] = l]
    BY Zenon, <1>4 DEF CalLookup, CalThreadStep, CalFence, CalTryLock, CalFinish, CalFinishFails,
       CalReconcile, Answered
  <2>3. \A u \in CalThread : calPc'[u] = "dispatch" => calPc[u] = "dispatch" /\ calReq'[u] = calReq[u]
    BY Zenon, <1>4, <1>i, <1>t, <2>2, OthersKept
  <2> QED
    BY Zenon, <2>1, <2>3, <1>3
<1>5. CASE CalRestart
  BY Zenon, <1>3, <1>5 DEF CalRestart
<1>6. CASE UNCHANGED calVars
  BY Zenon, <1>3, <1>6 DEF calVars
<1> QED
  BY Zenon, <1>1, <1>2, <1>4, <1>5, <1>6 DEF CalNext, CalThreadStep

\* While a call is out its row is open, and what is not known stays fenced.
LEMMA OpenStep ==
  CalInv /\ [CalNext]_calVars => RowIsOpen' /\ AmbiguousStaysFenced'
<1> SUFFICES ASSUME CalInv, [CalNext]_calVars PROVE RowIsOpen' /\ AmbiguousStaysFenced'
  BY Zenon
<1>i. /\ CalTypeOK /\ LockHeld /\ RequestsKnown /\ RowIsOpen /\ AmbiguousStaysFenced
  BY Zenon DEF CalInv
<1>t. /\ DOMAIN calPc = CalThread /\ DOMAIN calReq = CalThread /\ DOMAIN ledger = OperationId
      /\ ambiguous \subseteq OperationId
  BY Zenon, <1>i DEF CalTypeOK
<1>q. \A t \in CalThread :
        calPc[t] # "idle" => /\ calReq[t].id \in OperationId
                             /\ calReq[t].kind \in {"apply-all", "rollback"}
  BY Zenon, <1>i, RequestType DEF RequestsKnown
<1>a. \A id \in ambiguous : Inserted(id)
  BY Zenon, <1>i DEF AmbiguousStaysFenced, Inserted, Absent
<1>o. \A t \in CalThread :
        calPc[t] \in {"dispatch", "called"} =>
          ledger[calReq[t].id].status = "dispatching" /\ calReq[t].id \notin ambiguous
  BY Zenon, <1>i DEF RowIsOpen
<1>1. ASSUME NEW t \in CalThread, CalInsert(t) PROVE RowIsOpen' /\ AmbiguousStaysFenced'
  <2>1. calPc[t] = "insert" /\ ambiguous' = ambiguous /\ calReq[t].id \in OperationId
    BY Zenon, <1>1, <1>q DEF CalInsert
  <2>2. \A u \in CalThread : u # t => calPc'[u] \notin {"dispatch", "called"}
    BY Zenon, <1>1, <1>i, <2>1, OneHolder, OthersKept DEF CalThreadStep
  <2>3. CASE /\ ~Inserted(calReq[t].id) /\ calReq' = calReq
             /\ ledger' = [ledger EXCEPT ![calReq[t].id] = [req |-> calReq[t], status |-> "dispatching"]]
    <3>1. calReq[t].id \notin ambiguous
      BY Zenon, <1>a, <2>3
    <3>2. ledger'[calReq[t].id] = [req |-> calReq[t], status |-> "dispatching"]
      BY Zenon, <1>t, <2>1, <2>3
    <3>3. \A id \in ambiguous : ledger'[id] = ledger[id]
      BY Zenon, <1>t, <2>3, <3>1
    <3>4. RowIsOpen'
      BY <2>1, <2>2, <2>3, <3>1, <3>2 DEF RowIsOpen
    <3>5. AmbiguousStaysFenced'
      BY Zenon, <1>i, <2>1, <3>3 DEF AmbiguousStaysFenced
    <3> QED
      BY Zenon, <3>4, <3>5
  <2>4. CASE UNCHANGED ledger /\ calPc' = [calPc EXCEPT ![t] = "idle"]
    BY Zenon, <1>i, <1>t, <2>1, <2>2, <2>4 DEF RowIsOpen, AmbiguousStaysFenced
  <2> QED
    BY Zenon, <1>1, <2>3, <2>4 DEF CalInsert, InsertRow, Answered
<1>2. ASSUME NEW t \in CalThread, CalFinish(t) PROVE RowIsOpen' /\ AmbiguousStaysFenced'
  <2>1. calPc[t] = "called" /\ calPc'[t] \in {"reconcile", "idle"}
    BY Zenon, <1>2, <1>t DEF CalFinish, Answered
  <2>2. \A u \in CalThread : calPc'[u] \notin {"dispatch", "called"}
    BY Zenon, <1>2, <1>i, <2>1, OneHolder, OthersKept DEF CalThreadStep
  <2>3. PICK o \in Outcomes(calReq[t].kind) :
          /\ FinishRow(calReq[t].id, o[1])
          /\ ambiguous' = IF o[2] THEN ambiguous \cup {calReq[t].id} ELSE ambiguous
    BY Zenon, <1>2 DEF CalFinish
  <2>4. o[2] => o[1] = "needs-reconciliation"
    BY Zenon, <1>q, <2>1, OutcomesMeaning
  <2>5. /\ ledger'[calReq[t].id].status = o[1]
        /\ \A id \in ambiguous : ledger'[id] = ledger[id]
    BY <1>t, <1>q, <1>o, <2>1, <2>3 DEF FinishRow
  <2>6. AmbiguousStaysFenced'
    BY Zenon, <1>i, <2>3, <2>4, <2>5 DEF AmbiguousStaysFenced
  <2> QED
    BY Zenon, <2>2, <2>6 DEF RowIsOpen
<1>3. ASSUME NEW t \in CalThread, CalFinishFails(t) PROVE RowIsOpen' /\ AmbiguousStaysFenced'
  <2>1. /\ calPc[t] = "called" /\ calPc'[t] = "idle"
        /\ UNCHANGED ledger /\ ambiguous' = ambiguous \cup {calReq[t].id}
    BY Zenon, <1>3, <1>t DEF CalFinishFails, Answered
  <2>2. \A u \in CalThread : calPc'[u] \notin {"dispatch", "called"}
    BY Zenon, <1>3, <1>i, <2>1, OneHolder, OthersKept DEF CalThreadStep
  <2> QED
    BY <1>i, <1>o, <2>1, <2>2 DEF RowIsOpen, AmbiguousStaysFenced
<1>4. ASSUME NEW t \in CalThread, CalReconcile(t) PROVE RowIsOpen' /\ AmbiguousStaysFenced'
  <2>1. calPc[t] = "reconcile" /\ calPc'[t] = "idle" /\ ambiguous' = ambiguous
    BY Zenon, <1>4, <1>t DEF CalReconcile, Answered
  <2>2. \A u \in CalThread : calPc'[u] \notin {"dispatch", "called"}
    BY Zenon, <1>4, <1>i, <2>1, OneHolder, OthersKept DEF CalThreadStep
  <2>3. \A id \in OperationId :
          \/ ledger'[id].status = ledger[id].status
          \/ ledger'[id].status = "reconciled"
    BY <1>4, <1>i DEF CalReconcile, ReconcileParent, CalTypeOK
  <2> QED
    BY Zenon, <1>i, <1>t, <2>1, <2>2, <2>3 DEF RowIsOpen, AmbiguousStaysFenced
<1>5. ASSUME NEW t \in CalThread, CalLookup(t) \/ CalFence(t) \/ CalTryLock(t) \/ CalDispatch(t)
      PROVE  RowIsOpen' /\ AmbiguousStaysFenced'
  <2>1. UNCHANGED <<ledger, ambiguous>>
    BY Zenon, <1>5 DEF CalLookup, CalFence, CalTryLock, CalDispatch
  <2>2. \/ calPc'[t] \in {"idle", "fence", "lock", "insert"}
        \/ calPc[t] = "dispatch" /\ calReq' = calReq
    BY Zenon, <1>5, <1>t DEF CalLookup, CalFence, CalTryLock, CalDispatch, Answered
  <2>3. \A u \in CalThread : calPc'[u] \in {"dispatch", "called"} =>
          calPc[u] \in {"dispatch", "called"} /\ calReq'[u] = calReq[u]
    BY Zenon, <1>5, <1>i, <2>2, OthersKept DEF CalThreadStep
  <2> QED
    BY <1>i, <2>1, <2>3 DEF RowIsOpen, AmbiguousStaysFenced
<1>6. CASE CalRestart
  <2>1. /\ \A u \in CalThread : calPc'[u] = "idle"
        /\ ambiguous' = ambiguous \cup {calReq[t].id : t \in {u \in CalThread : calPc[u] = "called"}}
    BY Zenon, <1>6 DEF CalRestart
  <2>2. \A id \in OperationId : ledger'[id].status =
          IF ledger[id].status = "dispatching" THEN "needs-reconciliation" ELSE ledger[id].status
    BY Zenon, <1>6, <1>i DEF CalRestart, RecoverDispatching, CalTypeOK
  <2>3. \A id \in ambiguous' :
          /\ id \in OperationId
          /\ ledger[id].status \in {"dispatching", "needs-reconciliation", "reconciled"}
    BY <1>i, <1>t, <1>q, <1>o, <2>1 DEF AmbiguousStaysFenced
  <2> QED
    BY Zenon, <2>1, <2>2, <2>3 DEF RowIsOpen, AmbiguousStaysFenced
<1>7. CASE UNCHANGED calVars
  BY Zenon, <1>i, <1>7 DEF calVars, RowIsOpen, AmbiguousStaysFenced
<1> QED
  BY Zenon, <1>1, <1>2, <1>3, <1>4, <1>5, <1>6, <1>7 DEF CalNext, CalThreadStep

\* What a recovery expects stays what its parent row says, because rows keep
\* their requests while the fence is not repeated under the lock.
LEMMA ExpectStep == CalInv /\ [CalNext]_calVars => ExpectationStands'
<1> SUFFICES ASSUME CalInv, [CalNext]_calVars PROVE ExpectationStands'
  BY Zenon
<1>i. CalTypeOK /\ RequestsKnown /\ ExpectationStands
  BY Zenon DEF CalInv
<1>t. /\ DOMAIN calPc = CalThread /\ DOMAIN calReq = CalThread
      /\ DOMAIN calExpected = CalThread
  BY Zenon, <1>i DEF CalTypeOK
<1>k. ASSUME NEW id \in OperationId, Inserted(id)
      PROVE  Inserted(id)' /\ ExpectedApply(id)' = ExpectedApply(id)
  BY Zenon, <1>i, <1>k, RowsKept DEF ExpectedApply
<1>1. ASSUME NEW u \in CalThread, calExpected'[u] = calExpected[u], calReq'[u] = calReq[u],
             calPc'[u] = "idle" => calPc[u] = "idle"
      PROVE  Expectation(u)'
  <2>1. SUFFICES ASSUME calExpected[u] # None PROVE Expectation(u)'
    BY Zenon, <1>1 DEF Expectation
  <2>2. PICK p \in OperationId : p = calReq[u].parent
    BY Zenon, <1>i, <2>1 DEF ExpectationStands, Expectation
  <2>3. calPc[u] # "idle" /\ Inserted(p) /\ calExpected[u] = ExpectedApply(p)
    BY Zenon, <1>i, <2>1, <2>2 DEF ExpectationStands, Expectation
  <2>4. Inserted(p)' /\ ExpectedApply(p)' = ExpectedApply(p)
    BY Zenon, <1>k, <2>3
  <2> QED
    BY Zenon, <1>1, <2>2, <2>3, <2>4 DEF Expectation, Inserted, ExpectedApply
<1>2. ASSUME NEW t \in CalThread, CalFence(t), calExpected'[t] # None
      PROVE  Expectation(t)'
  <2>1. /\ calPc' = [calPc EXCEPT ![t] = "lock"] /\ calReq' = calReq
        /\ FencePasses(calReq[t]) /\ Unresolved # {}
        /\ calExpected'[t] = ExpectedApply(calReq[t].parent)
    BY Zenon, <1>2, <1>t DEF CalFence, Answered
  <2>2. calReq[t] \in CalRequests
    BY Zenon, <1>2, <1>i DEF CalFence, RequestsKnown
  <2>3. PICK p \in OperationId : p = calReq[t].parent /\ Inserted(p)
    BY Zenon, <2>1, <2>2, RequestType DEF FencePasses, RecoversParent, Inserted, Absent
  <2>4. Inserted(p)' /\ ExpectedApply(p)' = ExpectedApply(p)
    BY Zenon, <1>k, <2>3
  <2> QED
    BY Zenon, <1>t, <2>1, <2>3, <2>4 DEF Expectation, Inserted, ExpectedApply
<1>3. ASSUME NEW t \in CalThread, CalLookup(t) \/ CalThreadStep(t) PROVE ExpectationStands'
  <2>1. \/ calExpected'[t] = None
        \/ CalFence(t)
        \/ calExpected'[t] = calExpected[t] /\ calReq'[t] = calReq[t] /\ calPc'[t] # "idle"
    <3>1. CASE CalLookup(t)
      BY Zenon, <1>i, <3>1 DEF CalLookup, ExpectationStands, Expectation
    <3>2. CASE CalThreadStep(t)
      BY Zenon, <1>t, <3>2 DEF CalThreadStep, CalTryLock, CalInsert, CalDispatch, CalFinish,
         CalFinishFails, CalReconcile, Answered
    <3> QED
      BY Zenon, <1>3, <3>1, <3>2
  <2>2. \A u \in CalThread : u # t => /\ calExpected'[u] = calExpected[u] /\ calReq'[u] = calReq[u]
                                     /\ calPc'[u] = calPc[u]
    BY Zenon, <1>3, <1>i, OthersKept
  <2> QED
    BY Zenon, <2>1, <2>2, <1>1, <1>2 DEF ExpectationStands, Expectation
<1>4. CASE CalRestart
  BY Zenon, <1>4 DEF CalRestart, ExpectationStands, Expectation
<1>5. CASE UNCHANGED calVars
  BY Zenon, <1>i, <1>5 DEF calVars, ExpectationStands, Expectation, Inserted, ExpectedApply
<1> QED
  BY Zenon, <1>3, <1>4, <1>5 DEF CalNext

\* The evidence of a recovery stays, and its parent is closed by nothing else.
LEMMA EvidenceStep ==
  CalInv /\ [CalNext]_calVars => RecoveryConfirmed' /\ ReconciledByEvidence'
<1> SUFFICES ASSUME CalInv, [CalNext]_calVars PROVE RecoveryConfirmed' /\ ReconciledByEvidence'
  BY Zenon
<1>i. /\ CalTypeOK /\ LockHeld /\ RequestsKnown /\ RowIsOpen
      /\ ExpectationStands /\ RecoveryConfirmed /\ ReconciledByEvidence
  BY Zenon DEF CalInv
<1>t. /\ DOMAIN calPc = CalThread /\ DOMAIN calReq = CalThread /\ DOMAIN ledger = OperationId
  BY Zenon, <1>i DEF CalTypeOK
<1>n. None \notin OperationId
  BY Zenon, CalNoneAssumption
<1>q. \A t \in CalThread :
        calPc[t] # "idle" => /\ calReq[t].id \in OperationId
                             /\ calReq[t].parent \in OperationId \cup {None}
  BY Zenon, <1>i, RequestType DEF RequestsKnown
<1>k. ASSUME NEW id \in OperationId, Inserted(id)
      PROVE  /\ Inserted(id)' /\ ExpectedApply(id)' = ExpectedApply(id)
             /\ ledger'[id].req = ledger[id].req
             /\ ledger[id].status = "succeeded" => ledger'[id].status = "succeeded"
  BY Zenon, <1>i, <1>k, RowsKept DEF ExpectedApply
<1>e. evidence \subseteq evidence'
  <2>1. ASSUME NEW t \in CalThread, CalFinish(t) PROVE evidence \subseteq evidence'
    BY Zenon, <2>1 DEF CalFinish
  <2>2. ASSUME NEW t \in CalThread, CalLookup(t) \/ CalThreadStep(t), ~CalFinish(t)
        PROVE  evidence' = evidence
    BY Zenon, <2>2 DEF CalThreadStep, CalLookup, CalFence, CalTryLock, CalInsert, CalDispatch,
       CalFinishFails, CalReconcile
  <2>3. CalRestart \/ UNCHANGED calVars => evidence' = evidence
    BY Zenon DEF CalRestart, calVars
  <2>4. QED
    BY Zenon, <2>1, <2>2, <2>3 DEF CalNext, CalThreadStep
<1>1. ASSUME NEW id \in OperationId, ledger[id].status = "reconciled"
      PROVE  \E r \in OperationId :
               /\ Inserted(r)' /\ ledger'[r].status = "succeeded" /\ ledger'[r].req.parent = id
               /\ \E apply \in {ExpectedApply(id)', None} : <<r, apply, apply>> \in evidence'
  <2>1. PICK r \in OperationId :
          /\ Inserted(r) /\ ledger[r].status = "succeeded" /\ ledger[r].req.parent = id
          /\ \E apply \in {ExpectedApply(id), None} : <<r, apply, apply>> \in evidence
    BY Zenon, <1>1, <1>i DEF ReconciledByEvidence
  <2>2. Inserted(id)
    BY Zenon, <1>1 DEF Inserted, Absent
  <2> QED
    BY Zenon, <2>1, <2>2, <1>k, <1>e
<1>2. ASSUME NEW t \in CalThread, CalReconcile(t), NEW id \in OperationId,
             ledger'[id].status = "reconciled", ledger[id].status # "reconciled"
      PROVE  \E r \in OperationId :
               /\ Inserted(r)' /\ ledger'[r].status = "succeeded" /\ ledger'[r].req.parent = id
               /\ \E apply \in {ExpectedApply(id)', None} : <<r, apply, apply>> \in evidence'
  <2>1. calPc[t] = "reconcile" /\ id = calReq[t].parent
    BY Zenon, <1>2, <1>i DEF CalReconcile, ReconcileParent, CalTypeOK
  <2>2. PICK r \in OperationId : r = calReq[t].id
    BY Zenon, <1>q, <2>1
  <2>3. /\ ledger[r].status = "succeeded" /\ ledger[r].req = calReq[t]
        /\ <<r, calExpected[t], calExpected[t]>> \in evidence
    BY Zenon, <1>i, <2>1, <2>2 DEF RecoveryConfirmed
  <2>4. Inserted(id) /\ calExpected[t] \in {ExpectedApply(id), None}
    <3>1. ledger[id].status = "needs-reconciliation"
      BY Zenon, <1>2, <1>i DEF CalReconcile, ReconcileParent, CalTypeOK
    <3> QED
      BY Zenon, <3>1, <1>i, <2>1 DEF ExpectationStands, Expectation, Inserted, Absent
  <2>5. Inserted(r)
    BY Zenon, <2>3 DEF Inserted, Absent
  <2> QED
    BY Zenon, <2>1, <2>3, <2>4, <2>5, <1>k, <1>e
<1>3. ASSUME NEW id \in OperationId, ledger'[id].status = "reconciled",
             ledger[id].status # "reconciled"
      PROVE  \E t \in CalThread : CalReconcile(t)
  <2>1. ASSUME NEW t \in CalThread, CalInsert(t) PROVE FALSE
    BY <2>1, <1>3, <1>t DEF CalInsert, InsertRow
  <2>2. ASSUME NEW t \in CalThread, CalFinish(t) PROVE FALSE
    <3>1. PICK o \in Outcomes(calReq[t].kind) : FinishRow(calReq[t].id, o[1])
      BY Zenon, <2>2 DEF CalFinish
    <3>2. o[1] # "reconciled"
      BY TerminalStatusType DEF Outcomes
    <3> QED
      BY Zenon, <3>1, <3>2, <1>3, <1>i DEF FinishRow, CalTypeOK
  <2>3. CASE CalRestart
    BY Zenon, <2>3, <1>3, <1>i DEF CalRestart, RecoverDispatching, CalTypeOK
  <2>4. \/ UNCHANGED ledger
        \/ \E t \in CalThread : CalInsert(t) \/ CalFinish(t) \/ CalReconcile(t)
        \/ CalRestart
    BY Zenon DEF CalNext, CalThreadStep, CalLookup, CalFence, CalTryLock, CalDispatch, CalFinishFails,
       calVars
  <2> QED
    BY Zenon, <2>1, <2>2, <2>3, <2>4, <1>3
<1>4. ReconciledByEvidence'
  BY Zenon, <1>1, <1>2, <1>3 DEF ReconciledByEvidence
<1>5. ASSUME NEW u \in CalThread, calPc'[u] = "reconcile", calPc[u] = "reconcile",
             calReq'[u] = calReq[u], calExpected'[u] = calExpected[u]
      PROVE  /\ calReq'[u].parent # None
             /\ ledger'[calReq'[u].id].req = calReq'[u]
             /\ ledger'[calReq'[u].id].status = "succeeded"
             /\ <<calReq'[u].id, calExpected'[u], calExpected'[u]>> \in evidence'
  <2>1. /\ calReq[u].parent # None
        /\ ledger[calReq[u].id].req = calReq[u] /\ ledger[calReq[u].id].status = "succeeded"
        /\ <<calReq[u].id, calExpected[u], calExpected[u]>> \in evidence /\ calReq[u].id \in OperationId
    BY Zenon, <1>5, <1>i, <1>q DEF RecoveryConfirmed
  <2>2. Inserted(calReq[u].id)
    BY Zenon, <2>1 DEF Inserted, Absent
  <2> QED
    BY Zenon, <1>5, <2>1, <2>2, <1>k, <1>e
<1>6. ASSUME NEW t \in CalThread, CalFinish(t), calPc'[t] = "reconcile"
      PROVE  /\ calReq'[t].parent # None
             /\ ledger'[calReq'[t].id].req = calReq'[t]
             /\ ledger'[calReq'[t].id].status = "succeeded"
             /\ <<calReq'[t].id, calExpected'[t], calExpected'[t]>> \in evidence'
  <2>1. PICK o \in Outcomes(calReq[t].kind), echo \in OperationId \cup {None} :
          /\ FinishRow(calReq[t].id, o[1]) /\ o[1] = "succeeded"
          /\ evidence' = evidence \cup {<<calReq[t].id, echo, calExpected[t]>>}
          /\ calReq[t].parent # None /\ echo = calExpected[t]
          /\ UNCHANGED <<calReq, calExpected>>
    BY Zenon, <1>6, <1>t DEF CalFinish, Answered, EchoMatches
  <2>2. /\ calReq[t].id \in OperationId
        /\ ledger[calReq[t].id].status = "dispatching" /\ ledger[calReq[t].id].req = calReq[t]
    BY Zenon, <1>6, <1>i, <1>q DEF CalFinish, RowIsOpen
  <2>3. ledger'[calReq[t].id].status = "succeeded" /\ ledger'[calReq[t].id].req = calReq[t]
    BY Zenon, <1>t, <1>i, <2>1, <2>2 DEF FinishRow, CalTypeOK
  <2> QED
    BY Zenon, <1>n, <2>1, <2>3
<1>7. ASSUME NEW t \in CalThread, CalLookup(t) \/ CalThreadStep(t) PROVE RecoveryConfirmed'
  <2>1. calPc'[t] = "reconcile" => CalFinish(t)
    BY Zenon, <1>7, <1>t DEF CalLookup, CalThreadStep, CalFence, CalTryLock, CalInsert, CalDispatch,
       CalFinishFails, CalReconcile, Answered
  <2>2. \A u \in CalThread : u # t => /\ calExpected'[u] = calExpected[u] /\ calReq'[u] = calReq[u]
                                     /\ calPc'[u] = calPc[u]
    BY Zenon, <1>7, <1>i, OthersKept
  <2> QED
    BY Zenon, <2>1, <2>2, <1>5, <1>6 DEF RecoveryConfirmed
<1>8. CASE CalRestart
  BY Zenon, <1>8, <1>4 DEF CalRestart, RecoveryConfirmed
<1>9. CASE UNCHANGED calVars
  BY Zenon, <1>i, <1>4, <1>9 DEF calVars, RecoveryConfirmed
<1> QED
  BY Zenon, <1>4, <1>7, <1>8, <1>9 DEF CalNext

-----------------------------------------------------------------------------
(* Invariance *)

\* The ledger keeps its promises about the devices for any number of threads,
\* ids and requests, and whatever restart or failed statement comes between:
\* an operation is dispatched at most once, one whose effect is unknown stays
\* fenced, and a row is reconciled only on evidence about its own apply.
THEOREM CalibrationAlwaysSafe == CalSpec => []CalibrationSafety
<1>1. CalInv /\ [CalNext]_calVars => CalInv'
  BY Zenon, CalTypeStep, LockStep, KnownStep, CalledStep, OpenStep, ExpectStep, EvidenceStep DEF CalInv
<1>2. CalInv => CalibrationSafety
  BY Zenon DEF CalInv, CalibrationSafety
<1> QED
  BY CalInitInv, <1>1, <1>2, PTL DEF CalSpec

-----------------------------------------------------------------------------
(***************************************************************************)
(* DepthGeometry, for any requests of the calibration page and the         *)
(* administration, failures and crashes.                                   *)
(***************************************************************************)

DgPlaces == {"explicit", "state", "profile"}

\* The parts of a configuration that was normalised.
DgComplete == {p \in [DgParts -> {"ok", "absent"}] :
                 \A x \in DgDefaulted \cup {"sections"} : p[x] = "ok"}
DgStored == [there : {TRUE}, revision : Nat, parts : DgComplete]

DgFiles(f) == f \in [DgPlaces -> {DgNone} \cup DgStored]
DgWhole(f) == f["profile"] \in DgStored

\* Every number recorded is at most n.
RecordedUpTo(rows, n) == \A i \in 1 .. Len(rows) : rows[i].revision <= n

\* The save under the lock has written the file that is read, one revision
\* after the configuration it was made from, and can put that one back if it
\* could read the file it replaced.
SaveOK ==
  /\ dgSave.target = WriteTarget(dgPaths) /\ dgSave.config \in DgStored
  /\ dgSave.base \in DgStored /\ dgSave.config.revision = dgSave.base.revision + 1
  /\ dgFile[dgSave.target] = dgSave.config
  /\ DgFiles(PutBack(dgFile, dgSave))
  /\ ~dgSave.unread => Current(PutBack(dgFile, dgSave)) = dgSave.base
  /\ ~dgSave.unread /\ ~dgLost => DgWhole(PutBack(dgFile, dgSave))
  /\ ~dgLost => RecordedUpTo(dgRevisions, dgSave.base.revision)

GeometryInv ==
  /\ dgPaths \in [{"explicit", "state"} -> BOOLEAN] /\ DgFiles(dgFile)
  /\ dgRevisions \in Seq(DgStored) /\ RevisionsRise
  /\ ~dgLost => DgWhole(dgFile) /\ RecordedUpTo(dgRevisions, Current(dgFile).revision)
  /\ dgSave.at \in {"free", "append"}
  /\ dgSave.at = "append" => SaveOK

\* A recorded configuration has a number.
LEMMA RowsNumbered ==
  ASSUME dgRevisions \in Seq(DgStored)
  PROVE  \A i \in 1 .. Len(dgRevisions) : dgRevisions[i].revision \in Nat
<1>1. \A i \in 1 .. Len(dgRevisions) : dgRevisions[i] \in DgStored
  OBVIOUS
<1>2. \A r \in DgStored : r.revision \in Nat
  BY Zenon DEF DgStored
<1>3. QED
  BY Zenon, <1>1, <1>2

\* What is read, when there is something to read, is a stored configuration.
LEMMA CurrentStored ==
  ASSUME NEW f, DgFiles(f), Current(f).there, dgPaths \in [{"explicit", "state"} -> BOOLEAN]
  PROVE  Current(f) \in DgStored
<1>1. ~DgNone.there
  BY Zenon DEF DgNone
<1>2. \A s \in DgPlaces : f[s].there => f[s] \in DgStored
  BY Zenon, <1>1 DEF DgFiles
<1>3. f["explicit"].there => f["explicit"] \in DgStored
  BY Zenon, <1>2 DEF DgPlaces
<1>4. f["state"].there => f["state"] \in DgStored
  BY Zenon, <1>2 DEF DgPlaces
<1>5. f["profile"].there => f["profile"] \in DgStored
  BY Zenon, <1>2 DEF DgPlaces
<1>6. QED
  BY Zenon, <1>3, <1>4, <1>5 DEF Current, SnapshotSource

\* What is written to the target of a save is what is read next.
LEMMA TargetIsRead ==
  ASSUME NEW f, DgFiles(f), dgPaths \in [{"explicit", "state"} -> BOOLEAN], NEW c \in DgStored
  PROVE  /\ WriteTarget(dgPaths) \in DgPlaces
         /\ DgFiles([f EXCEPT ![WriteTarget(dgPaths)] = c])
         /\ DgWhole(f) => DgWhole([f EXCEPT ![WriteTarget(dgPaths)] = c])
         /\ Current([f EXCEPT ![WriteTarget(dgPaths)] = c]) = c
<1> DEFINE t == WriteTarget(dgPaths)
           g == [f EXCEPT ![t] = c]
<1>1. t \in DgPlaces
  BY Zenon DEF WriteTarget, DgPlaces
<1>2. \/ t = "explicit" /\ dgPaths["explicit"]
      \/ t = "state" /\ ~dgPaths["explicit"] /\ dgPaths["state"]
      \/ t = "profile" /\ ~dgPaths["explicit"] /\ ~dgPaths["state"]
  BY Zenon DEF WriteTarget
<1> HIDE DEF t
<1>3. g \in [DgPlaces -> {DgNone} \cup DgStored] /\ g[t] = c
  BY Zenon, <1>1 DEF DgFiles
<1>4. DgWhole(f) => DgWhole(g)
  BY Zenon, <1>1 DEF DgFiles, DgWhole, DgPlaces
<1>5. c.there
  BY Zenon DEF DgStored
<1> HIDE DEF g
<1>6. Current(g) = c
  <2>1. CASE t = "explicit" /\ dgPaths["explicit"]
    BY Zenon, <1>3, <1>5, <2>1 DEF Current, SnapshotSource
  <2>2. CASE t = "state" /\ ~dgPaths["explicit"] /\ dgPaths["state"]
    BY Zenon, <1>3, <1>5, <2>2 DEF Current, SnapshotSource
  <2>3. CASE t = "profile" /\ ~dgPaths["explicit"] /\ ~dgPaths["state"]
    BY Zenon, <1>3, <1>5, <2>3 DEF Current, SnapshotSource
  <2>4. QED
    BY Zenon, <1>2, <2>1, <2>2, <2>3
<1>7. QED
  BY Zenon, <1>1, <1>3, <1>4, <1>6 DEF DgFiles, g, t

\* normalize_depth_geometry_config completes what it accepts.
LEMMA NormalizedComplete ==
  ASSUME NEW parts \in DgCandidates, Normalized(parts).ok
  PROVE  Normalized(parts).parts \in DgComplete
<1> DEFINE n == [p \in DgParts |-> IF p \in DgDefaulted /\ parts[p] = "absent" THEN "ok" ELSE parts[p]]
<1>1. Normalized(parts).parts = n
  BY Zenon DEF Normalized
<1>2. parts \in [DgParts -> {"ok", "wrong", "absent"}]
  BY Zenon, GeometryAssumption
<1>3. (\A p \in DgParts : parts[p] # "wrong") /\ parts["sections"] # "absent"
  BY Zenon DEF Normalized
<1>4. n \in [DgParts -> {"ok", "absent"}]
  BY Zenon, <1>2, <1>3
<1>5. \A x \in DgDefaulted : n[x] = "ok"
  BY Zenon, <1>2, <1>3 DEF DgDefaulted, DgParts
<1>6. n["sections"] = "ok"
  BY Zenon, <1>2, <1>3 DEF DgDefaulted, DgParts
<1>7. QED
  BY Zenon, <1>1, <1>4, <1>5, <1>6 DEF DgComplete

\* A save up to the file.
LEMMA DgWriteKeeps ==
  ASSUME GeometryInv, NEW c, NEW parts \in DgCandidates, DgWrite(c, parts)
  PROVE  GeometryInv'
<1> DEFINE current == Current(dgFile)
           target == WriteTarget(dgPaths)
           n == Normalized(parts)
           new == DgConfig(NextRevision(current), n.parts)
<1>t. /\ dgPaths \in [{"explicit", "state"} -> BOOLEAN] /\ DgFiles(dgFile)
      /\ dgRevisions \in Seq(DgStored) /\ RevisionsRise
      /\ ~dgLost => DgWhole(dgFile) /\ RecordedUpTo(dgRevisions, current.revision)
  BY Zenon DEF GeometryInv
<1>u. /\ UNCHANGED <<dgPaths, dgRevisions, dgLost>> /\ n.ok /\ current.there
      /\ dgFile' = [dgFile EXCEPT ![target] = new]
  BY Zenon DEF DgWrite
<1>v. PICK previous \in {dgFile[target], DgNone} :
        dgSave' = [at |-> "append", client |-> c, base |-> current, target |-> target,
                   previous |-> previous, unread |-> previous # dgFile[target], config |-> new]
  BY Zenon DEF DgWrite
<1>1. current \in DgStored /\ current.revision \in Nat
  BY Zenon, <1>t, <1>u, CurrentStored DEF DgStored
<1>2. n.parts \in DgComplete
  BY Zenon, <1>u, NormalizedComplete
<1> HIDE DEF n
<1>3. new \in DgStored /\ new.revision = current.revision + 1
  BY <1>1, <1>2 DEF DgConfig, NextRevision, DgStored
<1>4. /\ dgSave'.at = "append" /\ dgSave'.base = current /\ dgSave'.target = target
      /\ dgSave'.config = new /\ dgSave'.previous = previous
      /\ dgSave'.unread = (previous # dgFile[target])
  BY Zenon, <1>v
<1> HIDE DEF new
<1>5. /\ target \in DgPlaces /\ DgFiles(dgFile') /\ Current(dgFile') = new
      /\ DgWhole(dgFile) => DgWhole(dgFile')
  BY Zenon, <1>3, <1>t, <1>u, TargetIsRead
<1>6. dgFile' \in [DgPlaces -> {DgNone} \cup DgStored] /\ dgFile'[target] = new
  BY Zenon, <1>5, <1>t, <1>u DEF DgFiles
<1>7. [dgFile' EXCEPT ![target] = dgFile[target]] = dgFile
  BY Zenon, <1>5, <1>t, <1>u DEF DgFiles
<1>8. ~dgSave'.unread => PutBack(dgFile', dgSave') = dgFile
  BY Zenon, <1>4, <1>7 DEF PutBack
<1>9. /\ Current(dgFile)' = Current(dgFile')
      /\ ~dgSave'.unread => Current(PutBack(dgFile, dgSave))' = Current(dgFile)
  BY Zenon, <1>8, <1>u DEF Current
<1>10. (~dgLost' => RecordedUpTo(dgRevisions', current.revision)) /\ RevisionsRise'
  BY Zenon, <1>t, <1>u DEF RecordedUpTo, RevisionsRise
<1>11. ~dgLost' => RecordedUpTo(dgRevisions', new.revision)
  <2>1. \A i \in 1 .. Len(dgRevisions) : dgRevisions[i].revision \in Nat
    BY Zenon, <1>t, RowsNumbered
  <2>2. QED
    BY <1>1, <1>3, <1>t, <1>u, <2>1 DEF RecordedUpTo
<1>12. /\ WriteTarget(dgPaths)' = target /\ DgFiles(PutBack(dgFile, dgSave))'
       /\ ~dgSave'.unread /\ ~dgLost' => DgWhole(PutBack(dgFile, dgSave))'
  <2>1. previous \in {DgNone} \cup DgStored
    BY Zenon, <1>5, <1>t DEF DgFiles
  <2>2. DgFiles(PutBack(dgFile', dgSave'))
    BY Zenon, <1>4, <1>5, <2>1 DEF DgFiles, PutBack
  <2>3. ~dgSave'.unread /\ ~dgLost' => DgWhole(PutBack(dgFile', dgSave'))
    BY Zenon, <1>8, <1>t, <1>u
  <2>4. QED
    BY Zenon, <1>u, <2>2, <2>3 DEF DgFiles, DgWhole
<1> HIDE DEF current, target
<1>13. SaveOK'
  <2>1. ~dgSave'.unread => Current(PutBack(dgFile, dgSave))' = current
    BY Zenon, <1>9 DEF current
  <2>2. QED
    BY Zenon, <1>1, <1>10, <1>12, <1>3, <1>4, <1>6, <2>1 DEF SaveOK
<1>14. ~dgLost' => RecordedUpTo(dgRevisions, Current(dgFile).revision)'
  BY Zenon, <1>11, <1>5, <1>9 DEF RecordedUpTo
<1>15. DgFiles(dgFile)' /\ (~dgLost' => DgWhole(dgFile)')
  BY Zenon, <1>5, <1>t, <1>u DEF DgFiles, DgWhole
<1>16. QED
  BY Zenon, <1>10, <1>13, <1>14, <1>15, <1>4, <1>t, <1>u DEF GeometryInv

\* The revision row: its number is above all others.
LEMMA DgAppendKeeps ==
  ASSUME GeometryInv, DgAppend
  PROVE  /\ GeometryInv' /\ Len(dgRevisions') = Len(dgRevisions) + 1
         /\ Current(dgFile)' = dgRevisions'[Len(dgRevisions')]
<1> DEFINE c == dgSave.config
           b == dgSave.base.revision
<1>t. /\ dgPaths \in [{"explicit", "state"} -> BOOLEAN] /\ DgFiles(dgFile)
      /\ dgRevisions \in Seq(DgStored) /\ RevisionsRise /\ SaveOK
  BY Zenon DEF GeometryInv, DgAppend
<1>w. ~dgLost => DgWhole(dgFile)
  BY Zenon DEF GeometryInv
<1>u. /\ UNCHANGED <<dgPaths, dgFile, dgLost>> /\ dgRevisions' = Append(dgRevisions, c)
      /\ dgSave' = DgNoSave
  BY Zenon DEF DgAppend
<1>1. /\ c \in DgStored /\ b \in Nat /\ c.revision = b + 1 /\ (~dgLost => RecordedUpTo(dgRevisions, b))
      /\ dgSave.target = WriteTarget(dgPaths) /\ dgFile[dgSave.target] = c
  BY Zenon, <1>t DEF SaveOK, DgStored
<1> HIDE DEF c, b
<1>2. /\ dgRevisions' \in Seq(DgStored) /\ Len(dgRevisions') = Len(dgRevisions) + 1
      /\ dgRevisions'[Len(dgRevisions) + 1] = c
      /\ \A i \in 1 .. Len(dgRevisions) : dgRevisions'[i] = dgRevisions[i]
      /\ \A i \in 1 .. Len(dgRevisions') : i \in 1 .. Len(dgRevisions) \/ i = Len(dgRevisions) + 1
  BY <1>1, <1>t, <1>u
<1>3. ~dgLost => \A i \in 1 .. Len(dgRevisions) :
        dgRevisions[i].revision \in Nat /\ dgRevisions[i].revision < c.revision
  BY <1>1, <1>t, RowsNumbered DEF RecordedUpTo
<1>4. RevisionsRise'
  <2>1. DOMAIN dgRevisions = 1 .. Len(dgRevisions) /\ DOMAIN dgRevisions' = 1 .. Len(dgRevisions')
    BY <1>2, <1>t
  <2>2. ASSUME ~dgLost, NEW i \in DOMAIN dgRevisions', NEW j \in DOMAIN dgRevisions', i < j
        PROVE  dgRevisions'[i].revision < dgRevisions'[j].revision
    <3>1. Len(dgRevisions) \in Nat
      BY <1>t
    <3>2. i \in 1 .. Len(dgRevisions)
      BY <1>2, <2>1, <2>2, <3>1
    <3>3. CASE j \in 1 .. Len(dgRevisions)
      BY Zenon, <1>2, <1>t, <2>1, <2>2, <3>2, <3>3 DEF RevisionsRise
    <3>4. CASE j = Len(dgRevisions) + 1
      BY Zenon, <1>2, <1>3, <2>2, <3>2, <3>4
    <3>5. QED
      BY Zenon, <1>2, <2>1, <3>3, <3>4
  <2>3. QED
    BY Zenon, <1>u, <2>2 DEF RevisionsRise
<1>5. Current(dgFile) = c
  <2>1. [dgFile EXCEPT ![WriteTarget(dgPaths)] = c] = dgFile
    BY Zenon, <1>1, <1>t DEF DgFiles
  <2>2. QED
    BY <1>1, <1>t, <2>1, TargetIsRead
<1>6. Current(dgFile)' = Current(dgFile)
  BY Zenon, <1>u DEF Current
<1>7. ~dgLost => RecordedUpTo(dgRevisions', c.revision)
  BY <1>1, <1>2, <1>3 DEF RecordedUpTo
<1>8. ~dgLost' => RecordedUpTo(dgRevisions, Current(dgFile).revision)'
  BY Zenon, <1>5, <1>6, <1>7, <1>u DEF RecordedUpTo
<1>9. dgSave'.at = "free" /\ DgFiles(dgFile)' /\ (~dgLost' => DgWhole(dgFile)')
  BY Zenon, <1>t, <1>u, <1>w DEF DgNoSave, DgFiles, DgWhole
<1>10. GeometryInv'
  BY Zenon, <1>2, <1>4, <1>8, <1>9, <1>t, <1>u DEF GeometryInv
<1>11. QED
  BY Zenon, <1>10, <1>2, <1>5, <1>6

\* A save that fails and is undone: what was read before it is read again.
LEMMA DgUndoneKeeps ==
  ASSUME GeometryInv, DgAppendFails(TRUE)
  PROVE  GeometryInv' /\ (~dgSave.unread => Current(dgFile)' = dgSave.base)
<1>t. /\ dgPaths \in [{"explicit", "state"} -> BOOLEAN]
      /\ dgRevisions \in Seq(DgStored) /\ RevisionsRise /\ SaveOK
  BY Zenon DEF GeometryInv, DgAppendFails
<1>u. /\ UNCHANGED <<dgPaths, dgRevisions>> /\ dgFile' = PutBack(dgFile, dgSave)
      /\ dgSave' = DgNoSave /\ (~dgLost' => ~dgLost /\ ~dgSave.unread)
  BY Zenon DEF DgAppendFails
<1>1. /\ DgFiles(dgFile') /\ (~dgSave.unread => Current(dgFile') = dgSave.base)
      /\ ~dgLost' => DgWhole(dgFile') /\ RecordedUpTo(dgRevisions, dgSave.base.revision)
  BY Zenon, <1>t, <1>u DEF SaveOK
<1>2. ~dgSave.unread => Current(dgFile)' = dgSave.base
  BY Zenon, <1>1, <1>u DEF Current
<1>3. ~dgLost' => RecordedUpTo(dgRevisions, Current(dgFile).revision)'
  BY Zenon, <1>1, <1>2, <1>u DEF RecordedUpTo
<1>4. /\ dgSave'.at = "free" /\ DgFiles(dgFile)' /\ RevisionsRise'
      /\ ~dgLost' => DgWhole(dgFile)'
  BY Zenon, <1>1, <1>t, <1>u DEF DgNoSave, DgFiles, DgWhole, RevisionsRise
<1>5. QED
  BY Zenon, <1>2, <1>3, <1>4, <1>t, <1>u DEF GeometryInv

\* The other steps touch neither the files nor the rows.
LEMMA DgRestKeeps ==
  ASSUME GeometryInv, UNCHANGED <<dgPaths, dgFile, dgRevisions, dgLost>>,
         dgSave' = dgSave \/ dgSave' = DgNoSave
  PROVE  GeometryInv'
<1>1. /\ dgPaths' \in [{"explicit", "state"} -> BOOLEAN] /\ DgFiles(dgFile)'
      /\ dgRevisions' \in Seq(DgStored) /\ RevisionsRise'
  BY Zenon DEF GeometryInv, DgFiles, RevisionsRise
<1>2. Current(dgFile)' = Current(dgFile)
  BY Zenon DEF Current
<1>3. ~dgLost' => DgWhole(dgFile)' /\ RecordedUpTo(dgRevisions, Current(dgFile).revision)'
  BY Zenon, <1>2 DEF GeometryInv, RecordedUpTo, DgWhole
<1>4. CASE dgSave' = DgNoSave
  <2>1. dgSave'.at = "free"
    BY Zenon, <1>4 DEF DgNoSave
  <2>2. QED
    BY Zenon, <1>1, <1>3, <2>1 DEF GeometryInv
<1>5. CASE dgSave' = dgSave
  <2>1. SaveOK => SaveOK'
    BY Zenon, <1>5 DEF SaveOK, DgFiles, DgWhole, Current, RecordedUpTo, PutBack
  <2>2. QED
    BY Zenon, <1>1, <1>3, <1>5, <2>1 DEF GeometryInv
<1>6. QED
  BY Zenon, <1>4, <1>5

\* A save that fails, undone or not.
LEMMA DgAppendFailsKeeps ==
  ASSUME GeometryInv, NEW undone \in BOOLEAN, DgAppendFails(undone)
  PROVE  GeometryInv'
<1>1. CASE undone
  <2>1. DgAppendFails(TRUE)
    BY Zenon, <1>1 DEF DgAppendFails
  <2>2. QED
    BY Zenon, <2>1, DgUndoneKeeps
<1>2. CASE ~undone
  <2>1. UNCHANGED <<dgPaths, dgFile, dgRevisions>> /\ dgSave' = DgNoSave
    BY Zenon, <1>2 DEF DgAppendFails
  <2>2. dgLost' = (dgLost \/ (undone /\ dgSave.unread))
    BY Zenon DEF DgAppendFails
  <2>3. (~dgLost' => ~dgLost) /\ dgSave'.at = "free"
    BY Zenon, <2>1, <2>2 DEF DgNoSave
  <2>4. Current(dgFile)' = Current(dgFile)
    BY Zenon, <2>1 DEF Current
  <2>5. QED
    BY Zenon, <2>1, <2>3, <2>4 DEF GeometryInv, DgFiles, DgWhole, RevisionsRise, RecordedUpTo
<1>3. QED
  BY Zenon, <1>1, <1>2

\* Saves keep the files, the rows and the numbers in step.
THEOREM GeometryInvariant == DgSpec => []GeometryInv
<1>1. DgInit => GeometryInv
  <2> SUFFICES ASSUME DgInit PROVE GeometryInv
    BY Zenon
  <2> DEFINE ok == [p \in DgParts |-> "ok"]
  <2>1. ok \in DgComplete
    BY Zenon DEF DgComplete, DgDefaulted, DgParts
  <2> HIDE DEF ok
  <2>2. DgConfig(0, ok) \in DgStored
    BY Zenon, <2>1 DEF DgConfig, DgStored
  <2>3. PICK there \in [{"explicit", "state"} -> BOOLEAN] :
          dgFile = [s \in DgPlaces |->
                      IF s = "profile" \/ there[s] THEN DgConfig(0, ok) ELSE DgNone]
    BY Zenon DEF DgInit, DgPlaces, ok
  <2>4. DgFiles(dgFile) /\ DgWhole(dgFile)
    BY Zenon, <2>2, <2>3 DEF DgFiles, DgWhole, DgPlaces
  <2>5. dgRevisions = <<>> /\ dgSave.at = "free" /\ dgPaths \in [{"explicit", "state"} -> BOOLEAN]
    BY Zenon DEF DgInit, DgNoSave
  <2>6. QED
    BY <2>4, <2>5 DEF GeometryInv, RevisionsRise, RecordedUpTo
<1>2. GeometryInv /\ [DgNext]_dgVars => GeometryInv'
  <2> SUFFICES ASSUME GeometryInv, [DgNext]_dgVars PROVE GeometryInv'
    BY Zenon
  <2>1. ASSUME NEW c \in DgClient, DgRead(c) PROVE GeometryInv'
    BY Zenon, <2>1, DgRestKeeps DEF DgRead
  <2>2. CASE DgCrash \/ UNCHANGED dgVars
    BY Zenon, <2>2, DgRestKeeps DEF DgCrash, dgVars
  <2>3. QED
    BY Zenon, <2>1, <2>2, DgWriteKeeps, DgAppendKeeps, DgAppendFailsKeeps DEF DgNext
<1>3. QED
  BY <1>1, <1>2, PTL DEF DgSpec

\* The configuration read after an answered save is the one saved, whichever
\* file the paths select; a failed save leaves what was read before if its file
\* was read and put back, and its own configuration if it could not be put
\* back; the recorded numbers rise, in spite of failures and stops between the
\* file and the row, unless a failed save has removed a file it could not read;
\* and every file is complete (write_depth_geometry_config_response).
THEOREM SavesTakeEffect == DgSpec => GeometrySteps
<1>1. GeometryInv => DgTypeOK /\ RevisionsRise
  <2> SUFFICES ASSUME GeometryInv PROVE DgTypeOK
    BY Zenon DEF GeometryInv
  <2>1. ~DgNone.there /\ DOMAIN dgFile = DgPlaces
    BY Zenon DEF DgNone, GeometryInv, DgFiles
  <2>2. \A s \in DgPlaces : dgFile[s].there => dgFile[s].parts \in DgComplete
    BY Zenon, <2>1 DEF GeometryInv, DgFiles, DgStored
  <2>3. \A parts \in DgComplete : \A p \in DgParts :
          parts[p] \in (IF p \in DgDefaulted \cup {"sections"} THEN {"ok"} ELSE {"ok", "absent"})
    BY Zenon DEF DgComplete
  <2>4. dgSave.at = "append" => dgFile[dgSave.target] = dgSave.config
    BY Zenon DEF GeometryInv, SaveOK
  <2>5. QED
    BY Zenon, <2>1, <2>2, <2>3, <2>4 DEF DgTypeOK
<1>2. ASSUME GeometryInv, DgNext PROVE SavedIsInForce /\ FailedSaveIsAccounted
  <2>1. FailedSaveIsAccounted
    <3>1. ASSUME DgAppendFails(TRUE), ~dgSave.unread PROVE Current(dgFile') = dgSave.base
      BY Zenon, <1>2, <3>1, DgUndoneKeeps DEF Current, DgAppendFails
    <3>2. ASSUME DgAppendFails(FALSE) PROVE Current(dgFile') = dgSave.config
      <4>1. /\ dgSave.target = WriteTarget(dgPaths) /\ dgSave.config \in DgStored
            /\ dgFile[dgSave.target] = dgSave.config /\ DgFiles(dgFile)
            /\ dgPaths \in [{"explicit", "state"} -> BOOLEAN]
        BY Zenon, <1>2, <3>2 DEF GeometryInv, SaveOK, DgAppendFails
      <4>2. [dgFile EXCEPT ![WriteTarget(dgPaths)] = dgSave.config] = dgFile
        BY Zenon, <4>1 DEF DgFiles
      <4>3. Current(dgFile) = dgSave.config
        BY <4>1, <4>2, TargetIsRead
      <4>4. dgFile' = dgFile
        BY Zenon, <3>2 DEF DgAppendFails
      <4>5. QED
        BY Zenon, <4>3, <4>4
    <3>3. QED
      BY Zenon, <3>1, <3>2 DEF FailedSaveIsAccounted
  <2>2. DgAppend \/ dgRevisions' = dgRevisions
    BY Zenon, <1>2 DEF DgNext, DgRead, DgWrite, DgAppendFails, DgCrash
  <2>3. CASE DgAppend
    <3>1. Current(dgFile)' = Current(dgFile')
      BY Zenon, <2>3 DEF Current, DgAppend
    <3>2. QED
      BY Zenon, <1>2, <2>1, <2>3, <3>1, DgAppendKeeps DEF SavedIsInForce
  <2>4. CASE dgRevisions' = dgRevisions
    <3>1. ~(Len(dgRevisions') > Len(dgRevisions))
      BY <1>2, <2>4 DEF GeometryInv
    <3>2. QED
      BY Zenon, <2>1, <3>1 DEF SavedIsInForce
  <2>5. QED
    BY Zenon, <2>1, <2>2, <2>3, <2>4
<1>3. GeometryInv /\ GeometryInv' /\ [DgNext]_dgVars =>
        [DgTypeOK' /\ RevisionsRise' /\ SavedIsInForce /\ FailedSaveIsAccounted]_dgVars
  <2>1. GeometryInv' => DgTypeOK' /\ RevisionsRise'
    BY <1>1, PTL
  <2>2. QED
    BY Zenon, <1>2, <2>1
<1>4. QED
  BY <1>3, GeometryInvariant, PTL DEF DgSpec, GeometrySteps

=============================================================================
