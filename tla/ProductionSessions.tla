-------------------------- MODULE ProductionSessions --------------------------
(***************************************************************************)
(* What the production routes write: the material session, the steel flow, *)
(* the inspection record and the image ledger of a plate                   *)
(* (app/service/src/main.rs, app/service/src/db/mod.rs).                   *)
(*                                                                         *)
(* Every handler here runs under production_command_lock, so one request   *)
(* is in hand at a time; a handler is nevertheless a sequence of separate  *)
(* statements around a call of the capture provider.  A statement that     *)
(* fails ends the handler where it stands, and so does the end of the      *)
(* process: PsAbort is both.  The provider may also do what it was told    *)
(* and have its answer lost.                                               *)
(*                                                                         *)
(* Payload fields that no condition reads, counts and paths are left out;  *)
(* a summary path is only present or absent.                               *)
(***************************************************************************)
EXTENDS Naturals, Sequences, FiniteSets, SequencesExt

CONSTANTS
  Session,            \* ids of sessions
  Material,           \* business material numbers
  NoSession,          \* an empty sessionId; no open session
  NoMaterial,         \* an empty materialId
  UnknownMaterial,    \* "unknown-material"
  Frame,              \* (camera, sequence) pairs of the frames of a plate
  RuntimeSourceMode,  \* runtime_source_mode()
  PsRequests,         \* the requests that arrive
  MaxPsRequests,      \* bound: requests in a behaviour
  MaxPsFaults         \* bound: statements that fail, and crashes

Event == {"steel-info", "steel-in", "steel-out", "trigger-event"}
VARIABLES
  psSession,   \* material_session rows: material, status
  psOrder,     \* ids of the session rows, oldest updated_at first
  psFlow,      \* steel_flow rows; no = 0 where there is none
  psInsp,      \* production_inspection rows INSP-<session>
  psFiles,     \* per session: frames with rows in capture_file
  psCapturing, \* external: the session the provider saves frames for
  psLane,      \* the request that holds production_command_lock
  psAcked,     \* history: frames whose commit was answered with code 0
  psSent,      \* requests so far
  psFaults     \* faults so far

psRows == <<psSession, psOrder, psFlow, psInsp, psFiles>>
psVars == <<psSession, psOrder, psFlow, psInsp, psFiles, psCapturing, psLane,
            psAcked, psSent, psFaults>>

NoRow == [material |-> NoMaterial, status |-> "absent"]
NoFlow == [no |-> 0, material |-> NoMaterial, status |-> "absent", coded |-> FALSE,
           images |-> <<>>]
NoInspection == [status |-> "absent", summary |-> FALSE, mode |-> "legacy_unknown",
                 dataset |-> "", replayed |-> FALSE, eligible |-> TRUE]
Idle == [at |-> "idle", kind |-> "none", session |-> NoSession, material |-> NoMaterial,
         asked |-> NoMaterial, source |-> "silent", ok |-> FALSE, frames |-> {}]

PsInit ==
  /\ psSession = [s \in Session |-> NoRow]
  /\ psOrder = <<>>
  /\ psFlow = [s \in Session |-> NoFlow]
  /\ psInsp = [s \in Session |-> NoInspection]
  /\ psFiles = [s \in Session |-> {}]
  /\ psCapturing = NoSession
  /\ psLane = Idle
  /\ psAcked = [s \in Session |-> {}]
  /\ psSent = 0
  /\ psFaults = 0

\* latest_open_material_session and latest_material_session
LatestOf(wanted(_)) ==
  LET rows == SelectSeq(psOrder, wanted)
  IN IF rows = <<>> THEN NoSession ELSE rows[Len(rows)]

IsOpen(s) == psSession[s].status # "finished"

IsAny(s) == TRUE

LatestOpen == LatestOf(IsOpen)

\* The id {material}-{millis} of a request that names none: not used before.
Generated == {s \in Session : /\ psSession[s] = NoRow
                              /\ psFlow[s] = NoFlow
                              /\ psInsp[s] = NoInspection}

\* material_id_from_payload over the material of the session it defaults to
MaterialFor(q, s) ==
  IF q.material # NoMaterial THEN q.material
  ELSE IF s # NoSession THEN psSession[s].material ELSE UnknownMaterial

-----------------------------------------------------------------------------
(* Provenance of a record.                                                 *)

\* production_source_evidence
SourceEvidence(source) ==
  LET replayed == source \in {"dataset-1", "dataset-2"} \/ RuntimeSourceMode = "simulation"
      declared == IF source = "online" THEN "online" ELSE RuntimeSourceMode
      mode == IF replayed \/ declared = "simulation" THEN "simulation"
              ELSE IF declared = "online" THEN "online" ELSE "legacy_unknown"
  IN [mode |-> mode,
      explicit |-> replayed \/ source = "online",
      dataset |-> IF source \in {"dataset-1", "dataset-2"} THEN source ELSE "",
      replayed |-> replayed,
      eligible |-> mode # "simulation" /\ ~replayed]

Protected(row) == row.replayed \/ ~row.eligible

\* upsert_production_inspection refuses the payload
ProvenanceConflict(row, e) ==
  /\ row.status # "absent"
  /\ Protected(row)
  /\ \/ e.explicit /\ e.mode # "legacy_unknown" /\ row.mode # e.mode
     \/ row.dataset # "" /\ e.dataset # "" /\ row.dataset # e.dataset

\* The mode that the row keeps or takes from the payload.
MergedMode(row, e) ==
  IF Protected(row) /\ row.mode # "legacy_unknown" THEN row.mode
  ELSE IF e.mode = "legacy_unknown" \/ (~e.explicit /\ row.mode = "legacy_unknown")
       THEN row.mode ELSE e.mode

MergedInspectionFromPayload(row, status, summary, e) ==
  [status |-> status, summary |-> summary, mode |-> e.mode, dataset |-> e.dataset,
   replayed |-> e.replayed, eligible |-> e.eligible]

\* upsert_production_inspection, with the columns the properties read
MergedInspection(row, status, summary, e) ==
  IF row.status = "absent"
  THEN [status |-> status, summary |-> summary, mode |-> e.mode, dataset |-> e.dataset,
        replayed |-> e.replayed, eligible |-> e.eligible]
  ELSE [status |-> status, summary |-> summary,
        mode |-> MergedMode(row, e),
        dataset |-> IF e.dataset = "" \/ (Protected(row) /\ row.dataset # "")
                    THEN row.dataset ELSE e.dataset,
        replayed |-> row.replayed \/ e.replayed,
        eligible |-> row.eligible /\ e.eligible]

UpsertInspection(s, status, summary) ==
  LET e == SourceEvidence(psLane.source)
  IN /\ ~ProvenanceConflict(psInsp[s], e)
     /\ psInsp' = [psInsp EXCEPT ![s] = MergedInspection(psInsp[s], status, summary, e)]

\* upsert_material_session: the row and its updated_at
UpsertSession(s, material, status) ==
  /\ psSession' = [psSession EXCEPT ![s] = [material |-> material, status |-> status]]
  /\ psOrder' = Append(SelectSeq(psOrder, LAMBDA t : t # s), s)

PsGo(at) == psLane' = [psLane EXCEPT !.at = at]
PsEnd == psLane' = Idle

-----------------------------------------------------------------------------
(* Steel events: write_production_event_response.                          *)

\* A request takes the lane with what its payload resolves to.
Take(q, s, material, at) ==
  /\ psLane' = [at |-> at, kind |-> q.kind, session |-> s, material |-> material,
                asked |-> q.material, source |-> q.source, ok |-> FALSE, frames |-> q.frames]
  /\ psSent' = psSent + 1

\* The conflicts of resolve_production_event_target.
TargetConflict(q, open) ==
  \/ q.kind = "steel-out" /\ open = NoSession
  \/ /\ q.kind \in {"steel-in", "steel-out"} /\ open # NoSession
     /\ \/ q.material # NoMaterial /\ q.material # psSession[open].material
        \/ q.session # NoSession /\ q.session # open

\* The session of resolve_production_event_target.
TargetSession(q, open, generated) ==
  IF q.session # NoSession THEN q.session
  ELSE IF open # NoSession /\ (q.kind = "steel-out" \/ psSession[open].material = MaterialFor(q, open))
       THEN open ELSE generated

\* The exit is refused unless the session is active or an exit was tried.
ExitReady(open) ==
  open # NoSession => psSession[open].status \in {"active", "finishing", "exit-failed"}

\* new_session_storage_admission_response: only a new session needs storage.
StorageAdmits(q, s, open, storageOk) ==
  \/ q.kind \notin {"steel-info", "steel-in"}
  \/ s = open /\ psSession[open].material = MaterialFor(q, open)
  \/ storageOk

PsEvent(q) ==
  LET open == LatestOpen
  IN /\ psLane.at = "idle" /\ psSent < MaxPsRequests
     /\ q.kind \in Event
     /\ q.kind = "steel-out" => ExitReady(open)
     /\ ~TargetConflict(q, open)
     /\ \E generated \in Generated \cup {NoSession}, storageOk \in BOOLEAN :
          LET s == TargetSession(q, open, generated)
          IN /\ s # NoSession
             /\ s # generated => generated = NoSession
             /\ StorageAdmits(q, s, open, storageOk)
             /\ Take(q, s, MaterialFor(q, open), IF q.kind = "steel-in" THEN "flow" ELSE "session")
     /\ UNCHANGED <<psRows, psCapturing, psAcked, psFaults>>

\* start_steel_flow: the flow of the session is reused, or the next number
\* is inserted; a directory left in the storage root can push it up by one.
StartFlow ==
  LET s == psLane.session
      row == psFlow[s]
      last == CHOOSE n \in {psFlow[t].no : t \in Session} : \A t \in Session : psFlow[t].no <= n
  IN /\ psLane.at = "flow"
     /\ IF row.no # 0
        THEN /\ psFlow' = [psFlow EXCEPT ![s].status = "starting",
                                         ![s].material = IF psLane.asked # NoMaterial
                                                         THEN psLane.asked ELSE row.material]
             /\ PsGo("session")
        ELSE /\ \E left \in IF psLane.asked = NoMaterial THEN {0, 1} ELSE {0} :
                  psFlow' = [psFlow EXCEPT ![s] = [NoFlow EXCEPT !.no = last + 1 + left,
                                                                 !.material = psLane.asked,
                                                                 !.status = "starting"]]
             /\ PsGo("flow-code")
     /\ UNCHANGED <<psSession, psOrder, psInsp, psFiles, psCapturing, psAcked, psSent, psFaults>>

\* The second statement of start_steel_flow.
CodeFlow ==
  LET s == psLane.session
  IN /\ psLane.at = "flow-code"
     /\ psFlow' = [psFlow EXCEPT ![s].coded = TRUE,
                                 ![s].material = IF @ = NoMaterial THEN psFlow[s].no ELSE @]
     /\ PsGo("session")
     /\ UNCHANGED <<psSession, psOrder, psInsp, psFiles, psCapturing, psAcked, psSent, psFaults>>

\* The status written before the provider is told.
PendingStatus(kind) ==
  CASE kind = "steel-out" -> "finishing"
    [] kind = "steel-info" -> "info-pending"
    [] kind = "steel-in" -> "starting"
    [] OTHER -> "active"

\* The flow that steel-in started or steel-out found.
FlowOf(lane) ==
  IF lane.kind \in {"steel-in", "steel-out"} THEN psFlow[lane.session] ELSE NoFlow

WriteSession ==
  LET flow == FlowOf(psLane)
      material == IF psLane.asked = NoMaterial /\ flow.no # 0 THEN flow.material
                  ELSE psLane.material
  IN /\ psLane.at = "session"
     /\ UpsertSession(psLane.session, material, PendingStatus(psLane.kind))
     /\ psLane' = [psLane EXCEPT !.at = "inspection", !.material = material]
     /\ UNCHANGED <<psFlow, psInsp, psFiles, psCapturing, psAcked, psSent, psFaults>>

WriteInspection ==
  LET s == psLane.session
  IN /\ psLane.at = "inspection"
     /\ UpsertInspection(s, PendingStatus(psLane.kind), psInsp[s].summary)
     /\ PsGo("provider")
     /\ UNCHANGED <<psSession, psOrder, psFlow, psFiles, psCapturing, psAcked, psSent, psFaults>>

\* What the provider does with a steel event it accepts (external).
ProviderSaves(kind, s) ==
  CASE kind = "steel-in" -> s [] kind = "steel-out" -> NoSession [] OTHER -> psCapturing

\* POST /api/steel/event: taken and answered, refused or unreachable, or
\* taken with the answer lost.
CallProvider ==
  /\ psLane.at = "provider"
  /\ \E result \in {"ok", "refused", "lost"} :
       /\ psLane' = [psLane EXCEPT !.at = "final-session", !.ok = (result = "ok")]
       /\ psCapturing' = IF result = "refused" THEN psCapturing
                         ELSE ProviderSaves(psLane.kind, psLane.session)
  /\ UNCHANGED <<psRows, psAcked, psSent, psFaults>>

FinalStatusOptimistic(kind, ok) ==
  CASE kind = "steel-in" -> IF ok THEN "active" ELSE "start-failed"
    [] kind = "steel-out" -> "finished"
    [] kind = "steel-info" -> IF ok THEN "info-ready" ELSE "info-failed"
    [] OTHER -> IF ok THEN "active" ELSE "event-failed"

\* final_session_status
FinalStatus(kind, ok) ==
  CASE kind = "steel-in" -> IF ok THEN "active" ELSE "start-failed"
    [] kind = "steel-out" -> IF ok THEN "finished" ELSE "exit-failed"
    [] kind = "steel-info" -> IF ok THEN "info-ready" ELSE "info-failed"
    [] OTHER -> IF ok THEN "active" ELSE "event-failed"

FinalSession ==
  /\ psLane.at = "final-session"
  /\ UpsertSession(psLane.session, psLane.material, FinalStatus(psLane.kind, psLane.ok))
  /\ PsGo("final-inspection")
  /\ UNCHANGED <<psFlow, psInsp, psFiles, psCapturing, psAcked, psSent, psFaults>>

FinalInspection ==
  LET s == psLane.session
      status == FinalStatus(psLane.kind, psLane.ok)
  IN /\ psLane.at = "final-inspection"
     /\ UpsertInspection(s, IF status = "active" THEN "running" ELSE status, psInsp[s].summary)
     /\ IF FlowOf(psLane).no # 0 THEN PsGo("final-flow") ELSE PsEnd
     /\ UNCHANGED <<psSession, psOrder, psFlow, psFiles, psCapturing, psAcked, psSent, psFaults>>

\* update_steel_flow_status, then the audit row, the summary file of a
\* finished session and the answer.
FinalFlow ==
  /\ psLane.at = "final-flow"
  /\ psFlow' = [psFlow EXCEPT ![psLane.session].status = FinalStatus(psLane.kind, psLane.ok)]
  /\ PsEnd
  /\ UNCHANGED <<psSession, psOrder, psInsp, psFiles, psCapturing, psAcked, psSent, psFaults>>

-----------------------------------------------------------------------------
(* Frames: capture-commit, capture-summary and capture-once.               *)

\* append_steel_flow_images: one transaction; a frame already numbered keeps
\* its number.
AppendedImages(images, batch) == images \o SetToSeq(batch \ ToSet(images))

CaptureCommit(q) ==
  /\ psLane.at = "idle" /\ psSent < MaxPsRequests
  /\ q.kind = "capture-commit"
  /\ q.session # NoSession /\ psFlow[q.session].no # 0
  /\ Take(q, q.session, NoMaterial, "commit-files")
  /\ psFlow' = [psFlow EXCEPT ![q.session].images = AppendedImages(@, q.frames)]
  /\ UNCHANGED <<psSession, psOrder, psInsp, psFiles, psCapturing, psAcked, psFaults>>

\* append_capture_files, a second transaction, and the answer.
CommitFiles ==
  LET s == psLane.session
  IN /\ psLane.at = "commit-files"
     /\ psFiles' = [psFiles EXCEPT ![s] = @ \cup psLane.frames]
     /\ psAcked' = [psAcked EXCEPT ![s] = @ \cup psLane.frames]
     /\ PsEnd
     /\ UNCHANGED <<psSession, psOrder, psFlow, psInsp, psCapturing, psSent, psFaults>>

\* active_session_for_payload
ActiveSessionFor(q, generated) ==
  IF q.session # NoSession THEN q.session
  ELSE IF LatestOpen # NoSession /\ psSession[LatestOpen].material = MaterialFor(q, LatestOpen)
       THEN LatestOpen ELSE generated

\* validate_capture_open_session
CaptureAdmitted(q) ==
  LET s == IF q.session = NoSession THEN LatestOpen ELSE q.session
  IN /\ s # NoSession
     /\ psSession[s].status = "active"
     /\ q.material # NoMaterial => q.material = psSession[s].material

\* write_capture_summary_response, and write_production_capture_once_response
\* up to its call of the provider
CaptureRequest(q) ==
  /\ psLane.at = "idle" /\ psSent < MaxPsRequests
  /\ q.kind \in {"capture-summary", "capture-once"}
  /\ q.kind = "capture-once" => CaptureAdmitted(q)
  /\ \E generated \in Generated \cup {NoSession} :
       LET s == ActiveSessionFor(q, generated)
       IN /\ s # NoSession
          /\ s # generated => generated = NoSession
          /\ Take(q, s, MaterialFor(q, LatestOpen),
                  IF q.kind = "capture-once" THEN "continuous" ELSE "summary")
  /\ UNCHANGED <<psRows, psCapturing, psAcked, psFaults>>

\* POST /api/capture/continuous-test: code 503 ends the request.
CaptureOnce ==
  /\ psLane.at = "continuous"
  /\ PsGo("summary") \/ PsEnd
  /\ UNCHANGED <<psRows, psCapturing, psAcked, psSent, psFaults>>

\* The inspection takes status, summary path and finish time from the
\* payload alone; capture-once has put its own summary path there.
WriteSummary ==
  LET s == psLane.session
  IN /\ psLane.at = "summary"
     /\ \E status \in {"captured", "capture-warning"} :
          UpsertInspection(s, status, psLane.kind = "capture-once")
     /\ PsGo("summary-files")
     /\ UNCHANGED <<psSession, psOrder, psFlow, psFiles, psCapturing, psAcked, psSent, psFaults>>

\* capture_file_rows_from_result: one frame after the other.
SummaryFile ==
  LET s == psLane.session
  IN /\ psLane.at = "summary-files"
     /\ IF psLane.frames = {}
        THEN PsEnd /\ UNCHANGED psFiles
        ELSE \E f \in psLane.frames :
               /\ psFiles' = [psFiles EXCEPT ![s] = @ \cup {f}]
               /\ psLane' = [psLane EXCEPT !.frames = @ \ {f}]
     /\ UNCHANGED <<psSession, psOrder, psFlow, psInsp, psCapturing, psAcked, psSent, psFaults>>

-----------------------------------------------------------------------------
(* write_production_algorithm_run_response.                                *)

\* production_algorithm_session_for_payload
AlgorithmSession(q, generated) ==
  LET material == MaterialFor(q, LatestOf(IsAny))
      ofMaterial(s) == psSession[s].material = material
      latest == LatestOf(ofMaterial)
  IN IF q.session # NoSession THEN q.session
     ELSE IF latest # NoSession THEN latest ELSE generated

AlgorithmRun(q) ==
  /\ psLane.at = "idle" /\ psSent < MaxPsRequests
  /\ q.kind = "algorithm-run"
  /\ \E generated \in Generated \cup {NoSession} :
       LET s == AlgorithmSession(q, generated)
       IN /\ s # NoSession
          /\ s # generated => generated = NoSession
          /\ Take(q, s, MaterialFor(q, LatestOf(IsAny)), "algorithm-start")
  /\ UNCHANGED <<psRows, psCapturing, psAcked, psFaults>>

\* upsert_algorithm_inspection_state with algorithm-running, then the run.
AlgorithmStart ==
  LET s == psLane.session
  IN /\ psLane.at = "algorithm-start"
     /\ UpsertInspection(s, "algorithm-running", psInsp[s].summary)
     /\ PsGo("algorithm-end")
     /\ UNCHANGED <<psSession, psOrder, psFlow, psFiles, psCapturing, psAcked, psSent, psFaults>>

\* The run ends: the record gets the outcome, and on success the manifest.
AlgorithmEnd ==
  LET s == psLane.session
  IN /\ psLane.at = "algorithm-end"
     /\ \E status \in {"algorithm-complete", "algorithm-failed", "algorithm-cancelled"} :
          UpsertInspection(s, status, psInsp[s].summary \/ status = "algorithm-complete")
     /\ PsEnd
     /\ UNCHANGED <<psSession, psOrder, psFlow, psFiles, psCapturing, psAcked, psSent, psFaults>>

-----------------------------------------------------------------------------

\* An upsert that meets foreign provenance returns an error.
PsRefusedUpsert ==
  /\ psLane.at \in {"inspection", "final-inspection", "summary", "algorithm-start",
                    "algorithm-end"}
  /\ ProvenanceConflict(psInsp[psLane.session], SourceEvidence(psLane.source))
  /\ PsEnd
  /\ UNCHANGED <<psRows, psCapturing, psAcked, psSent, psFaults>>

\* A statement fails, or the process ends and is started again.
PsAbort ==
  /\ psLane.at # "idle" /\ psFaults < MaxPsFaults
  /\ psFaults' = psFaults + 1
  /\ PsEnd
  /\ UNCHANGED <<psRows, psCapturing, psAcked, psSent>>

PsNext ==
  \/ \E q \in PsRequests :
       PsEvent(q) \/ CaptureCommit(q) \/ CaptureRequest(q) \/ AlgorithmRun(q)
  \/ StartFlow \/ CodeFlow \/ WriteSession \/ WriteInspection
  \/ CallProvider \/ FinalSession \/ FinalInspection \/ FinalFlow
  \/ CommitFiles \/ CaptureOnce \/ WriteSummary \/ SummaryFile
  \/ AlgorithmStart \/ AlgorithmEnd \/ PsRefusedUpsert \/ PsAbort

-----------------------------------------------------------------------------
(* Properties.                                                             *)

SessionStatus == {"absent", "info-pending", "info-ready", "info-failed", "starting", "active",
                  "start-failed", "finishing", "finished", "exit-failed", "event-failed"}

\* The rows have the statuses the handlers write, a session row is listed
\* once in the order of updates, and a numbered image belongs to a flow.
PsTypeOK ==
  /\ \A s \in Session :
       /\ psSession[s].status \in SessionStatus
       /\ psFlow[s].status \in SessionStatus
       /\ psFiles[s] \subseteq Frame
       /\ psFlow[s].images # <<>> => psFlow[s].no # 0
       /\ (psSession[s] # NoRow) <=> s \in ToSet(psOrder)
  /\ IsInjective(psOrder)
  /\ psCapturing \in Session \cup {NoSession}

\* Steel-in is on record before the provider saves anything: while it saves
\* frames for a session, the session, its inspection and its numbered flow are
\* in the database, whatever failed on the way
\* (write_production_event_response writes them before POST
\* /api/steel/event).
RecordBeforeCapture ==
  psCapturing # NoSession =>
    /\ psSession[psCapturing].status # "absent"
    /\ psInsp[psCapturing].status # "absent"
    /\ psFlow[psCapturing].no # 0

\* A session is finished only when the provider has confirmed the exit: no
\* frames are saved for a finished session, also after refused exits, lost
\* answers and handlers that ended half way (final_session_status).
FinishedNotCapturing ==
  psCapturing # NoSession => psSession[psCapturing].status # "finished"

\* Images of a flow are numbered 1, 2, ... without repeating a frame, and a
\* frame whose commit was answered has its number and its file rows, however
\* often a commit is retried and wherever one failed
\* (append_steel_flow_images, append_capture_files).
CommitsAreIdempotent ==
  \A s \in Session :
    /\ IsInjective(psFlow[s].images)
    /\ psAcked[s] \subseteq ToSet(psFlow[s].images) \cap psFiles[s]

\* The database covers what the provider does: a session is on record before
\* its frames are saved and until the provider has stopped, and a repeated
\* commit adds nothing.
SessionSafety ==
  /\ PsTypeOK
  /\ RecordBeforeCapture
  /\ FinishedNotCapturing
  /\ CommitsAreIdempotent

\* No later write gives a replayed record back to production or rewrites
\* where it came from (upsert_production_inspection).
ProvenanceImmutable ==
  [][\A s \in Session : Protected(psInsp[s]) =>
       /\ psInsp[s].replayed => psInsp'[s].replayed
       /\ psInsp'[s].eligible => psInsp[s].eligible
       /\ psInsp[s].mode # "legacy_unknown" => psInsp'[s].mode = psInsp[s].mode
       /\ psInsp[s].dataset # "" => psInsp'[s].dataset = psInsp[s].dataset]_psVars

\* Steel-in refuses a second session while one is active, so that at most
\* one session is active (resolve_production_event_target compares with the
\* session updated last; a steel-info of the next plate takes that place).
OneActiveSession ==
  \A s, t \in Session :
    psSession[s].status = "active" /\ psSession[t].status = "active" => s = t

=============================================================================
