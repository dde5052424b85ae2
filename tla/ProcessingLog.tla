---------------------------- MODULE ProcessingLog ----------------------------
(***************************************************************************)
(* The processing log of captured plates (app/service/src/main.rs), the      *)
(* passes of the analysis service over a plate                               *)
(* (scripts/sick_flow_analysis_service.py) and the control of its backfill.  *)
(* The log derives one status from files that capture and the passes write   *)
(* while it reads them.                                                      *)
(***************************************************************************)
EXTENDS Naturals

CONSTANTS
  PlLimits,     \* page sizes asked for
  MaxPlReruns   \* bound on control requests and passes

ASSUME LogLimitsAssumption == PlLimits \subseteq Nat

VARIABLES
  plControl,  \* control.json of the backfill
  plFiles,    \* the files of a plate
  plPass,     \* the pass that holds the plate's lock
  plLog,      \* the record being read
  plReruns

plVars == <<plControl, plFiles, plPass, plLog, plReruns>>

NoLog == [at |-> "idle"]
NoPass == [at |-> "none"]

\* algorithm-state.json: the state of the analysis and its defectState.
AlgorithmFile(state, defects) == [state |-> state, defects |-> defects]

PlInit ==
  /\ plControl = "none" /\ plPass = NoPass /\ plLog = NoLog /\ plReruns = 0
  /\ plFiles = [flow |-> "capturing", image |-> "none", defect |-> "none",
                algorithm |-> AlgorithmFile("none", "none")]

\* write_depth_geometry_backfill_control_response.
BackfillControl(paused) ==
  /\ plControl # paused /\ plReruns < MaxPlReruns
  /\ plControl' = paused /\ plReruns' = plReruns + 1
  /\ UNCHANGED <<plFiles, plPass, plLog>>

\* Capture closes the flow; a closed flow is not opened again.
FlowCloses ==
  /\ plFiles.flow = "capturing" /\ plFiles' = [plFiles EXCEPT !.flow = "closed"]
  /\ UNCHANGED <<plControl, plPass, plLog, plReruns>>

\* exclusive_material_job gives the plate to one pass at a time; a pass that
\* finds the lock taken gives up.  (A log being read notes a pass that begins.)
PassBegins(pass, algorithm) ==
  /\ plPass = NoPass /\ plReruns < MaxPlReruns /\ plReruns' = plReruns + 1
  /\ plPass' = pass /\ plFiles' = [plFiles EXCEPT !.algorithm = algorithm]
  /\ plLog' = IF plLog = NoLog THEN plLog ELSE [plLog EXCEPT !.rerun = TRUE]
  /\ UNCHANGED plControl

\* _analyze_under_lock.  The service asks for a final pass when the flow is
\* closed and leaves the defects to a pass of their own; a run for one plate
\* takes both from its command line.
FastPass(final, include) ==
  PassBegins([at |-> "image", final |-> final, include |-> include, previous |-> "none"],
             AlgorithmFile("processing", "none"))

\* schedule_depth_geometry_history and history_execution_gate.
BackfillMayRun == plControl # "pause"

\* _analyze_defects_only_under_lock, for the queue, for the backfill or for one
\* plate: what the state file said of the defects stays in it.
DefectPass(by) ==
  /\ by = "history" => BackfillMayRun
  /\ by # "once" =>
       /\ plFiles.flow = "closed"
       /\ plFiles.algorithm.state \in {"queued-for-defect", "processing-defects", "ready", "failed"}
  /\ PassBegins([at |-> "detect", final |-> TRUE, include |-> TRUE,
                 previous |-> plFiles.algorithm.defects],
                AlgorithmFile("processing-defects", plFiles.algorithm.defects))

PassGoesOn(at, files) ==
  /\ plPass' = [plPass EXCEPT !.at = at] /\ plFiles' = files
  /\ UNCHANGED <<plControl, plLog, plReruns>>

\* publish_image_result.
ImagePublish ==
  /\ plPass.at = "image"
  /\ PassGoesOn(IF plPass.final /\ plPass.include THEN "detect" ELSE "image-done",
                [plFiles EXCEPT !.image = IF plPass.final THEN "complete" ELSE "partial"])

\* build_and_write_flow_defect_detection: the manifest is written before its
\* import into the database and again after it.
DefectManifest(d) ==
  /\ plPass.at = "detect" /\ PassGoesOn("import", [plFiles EXCEPT !.defect = d])
DefectImport(d) ==
  /\ plPass.at = "import"
  /\ \/ d = plFiles.defect
     \/ d = "database-write-failed" /\ plFiles.defect # "blocked"
     \/ d = "degraded" /\ plFiles.defect = "complete"
  /\ PassGoesOn("defects-done", [plFiles EXCEPT !.defect = d])

PassEnds(algorithm) ==
  /\ plPass' = NoPass /\ plFiles' = [plFiles EXCEPT !.algorithm = algorithm]
  /\ UNCHANGED <<plControl, plLog, plReruns>>

\* The state file at the end of a pass; publish_defect_report needs an image
\* result.
PassDone ==
  \/ /\ plPass.at = "image-done"
     /\ PassEnds(AlgorithmFile(IF plPass.final THEN "queued-for-defect" ELSE "derived-ready",
                               IF plPass.include THEN "waiting-for-flow-close" ELSE "queued-for-defect"))
  \/ /\ plPass.at = "defects-done" /\ plFiles.image # "none"
     /\ PassEnds(AlgorithmFile("ready", plFiles.defect))

\* An exception is recorded; ExecutionGateInterrupted and
\* DepthGeometryConfigChanged queue a defect pass again.
PassFails ==
  /\ plPass # NoPass /\ PassEnds(AlgorithmFile("failed", plPass.previous))
PassInterrupted ==
  /\ plPass.at \in {"detect", "import"}
  /\ PassEnds(AlgorithmFile("queued-for-defect", plPass.previous))

\* The process dies; its lock is stale and the next pass takes it over.
PassDies ==
  /\ plPass # NoPass /\ plPass' = NoPass
  /\ UNCHANGED <<plControl, plFiles, plLog, plReruns>>

\* The stages' statuses of processing_log_record,
CaptureStatus(f) == IF f.flow = "closed" THEN "completed" ELSE "processing"
ImageStatus(f) ==
  IF f.image = "complete" THEN "completed" ELSE IF f.image = "partial" THEN "processing" ELSE "waiting"

DefectState(f) ==
  IF f.algorithm.defects # "none" THEN f.algorithm.defects
  ELSE IF f.defect # "none" THEN f.defect ELSE "waiting"

AlgorithmStatusByDefects(f) ==
  IF f.algorithm.state = "failed" THEN "failed"
  ELSE IF DefectState(f) = "degraded" THEN "degraded"
  ELSE IF DefectState(f) = "complete" THEN "completed"
  ELSE IF f.algorithm.state \in {"processing", "processing-defects"} \/ DefectState(f) = "queued-for-defect"
       THEN "processing" ELSE "waiting"

AlgorithmStatus(f) ==
  IF f.algorithm.state = "failed" \/ DefectState(f) = "failed" THEN "failed"
  ELSE IF DefectState(f) = "degraded" THEN "degraded"
  ELSE IF f.algorithm.state = "ready" /\ DefectState(f) = "complete" THEN "completed"
  ELSE IF f.algorithm.state \in {"processing", "processing-defects"} \/ DefectState(f) = "queued-for-defect"
       THEN "processing" ELSE "waiting"

\* and the plate's.
DataStatus(f) ==
  LET stages == {CaptureStatus(f), ImageStatus(f), AlgorithmStatus(f)}
  IN IF AlgorithmStatus(f) \in {"failed", "degraded"} THEN AlgorithmStatus(f)
     ELSE IF stages = {"completed"} THEN "completed"
     ELSE IF "processing" \in stages THEN "processing" ELSE "waiting"

PageSize(limit) == IF limit < 1 THEN 1 ELSE IF limit > 100 THEN 100 ELSE limit

\* processing_log_response and processing_log_records: the page is bounded.
LogBegin(limit) ==
  /\ plLog.at = "idle"
  /\ plLog' = [at |-> "flow", size |-> PageSize(limit), read |-> plFiles, rerun |-> FALSE]
  /\ UNCHANGED <<plControl, plFiles, plPass, plReruns>>

LogNext(at) == CASE at = "flow" -> "image" [] at = "image" -> "algorithm"
                 [] at = "algorithm" -> "defect" [] at = "defect" -> "answered"

\* processing_log_record reads the files one after the other.
LogRead ==
  /\ plLog.at \in {"flow", "image", "algorithm", "defect"}
  /\ plLog' = [plLog EXCEPT !.read[plLog.at] = plFiles[plLog.at], !.at = LogNext(@)]
  /\ UNCHANGED <<plControl, plFiles, plPass, plReruns>>

LogAnswer ==
  /\ plLog.at = "answered" /\ plLog' = NoLog
  /\ UNCHANGED <<plControl, plFiles, plPass, plReruns>>

PlNext ==
  \/ \E paused \in {"pause", "resume"} : BackfillControl(paused)
  \/ FlowCloses
  \/ \E final, include \in BOOLEAN : FastPass(final, include)
  \/ \E by \in {"queue", "history", "once"} : DefectPass(by)
  \/ ImagePublish
  \/ \E d \in {"complete", "degraded", "blocked"} : DefectManifest(d)
  \/ \E d \in {"complete", "degraded", "blocked", "database-write-failed"} : DefectImport(d)
  \/ PassDone \/ PassFails \/ PassInterrupted \/ PassDies
  \/ \E limit \in PlLimits : LogBegin(limit)
  \/ LogRead \/ LogAnswer

PlSpec == PlInit /\ [][PlNext]_plVars

-----------------------------------------------------------------------------
(* Properties.                                                             *)

\* A plate logged as completed is: its flow is closed, its image result is
\* final, and the last pass over it ended with complete defects, which its
\* manifest says as well, unless a pass began while its files were read
\* (processing_log_record).  A pass under way, failed, interrupted or dead does
\* not look completed though the state file may still hold an earlier defectState.
LoggedAsCompleted ==
  plLog.at = "answered" /\ DataStatus(plLog.read) = "completed" /\ ~plLog.rerun =>
    /\ plFiles = [flow |-> "closed", image |-> "complete", defect |-> "complete",
                  algorithm |-> AlgorithmFile("ready", "complete")]
    /\ plPass = NoPass

=============================================================================
