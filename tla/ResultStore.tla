----------------------------- MODULE ResultStore -----------------------------
(***************************************************************************)
(* The unified result store (app/result-contract/src/lib.rs) and the       *)
(* service that fills it (app/algorithm-service/src/main.rs).  A result is *)
(* published in steps: blobs under the name of their hash, the record      *)
(* directory by two renames, the catalogue in one transaction.  Publishers *)
(* are the scan of the input roots and the reconstruction of one record on *)
(* request, which exclude each other by a gate, and the refresh from the   *)
(* legacy database, which does not take it.                                *)
(*                                                                         *)
(* The input of a record is a version: 0 absent, 1 metadata without frames,*)
(* from 2 on with frames whose content is that of the version.             *)
(***************************************************************************)
EXTENDS Naturals, FiniteSets

CONSTANTS RsId,              \* inspections
          RsWorker,          \* threads
          RsNone,
          MaxRsVersion,      \* versions of an input, and of a legacy row
          MaxRsJobs,         \* jobs begun
          MaxRsFaults        \* failures and crashes

\* A frame or a raw image under the name of its hash, and what is published.
BlobName == {"frame", "raw"} \X Nat
RsResult == [source : {"import", "online"}, facts : Nat, defects : Nat,
             status : {"ready", "partial"}, files : BlobName \cup {RsNone}]

ASSUME RsAssumption ==
  /\ RsNone \notin RsResult \cup [result : RsResult, generation : Nat]
  /\ RsNone \notin RsWorker

VARIABLES rsInput,      \* id -> version in the input root
          rsLegacy,     \* id -> version of the legacy row: 0 none, 1 incomplete, else complete
          rsDir,        \* id -> result in records/<id>, or RsNone
          rsCatalog,    \* id -> [result, generation], or RsNone
          rsBlobs,      \* name -> content of the blobs
          rsGate,       \* scan_in_progress: its holder
          rsActive,     \* history_reconstruction
          rsProcessed,  \* processed_inputs: id -> version
          rsWork,       \* worker -> its job
          rsTorn,       \* ids with two publications at once, one cut short, or one whose
                        \* rollback failed (history)
          rsJobs, rsFaults

rsVars == <<rsInput, rsLegacy, rsDir, rsCatalog, rsBlobs, rsGate, rsActive, rsProcessed, rsWork,
            rsTorn, rsJobs, rsFaults>>
rsStore == <<rsDir, rsCatalog, rsBlobs>>

\* A job of the kind that has nothing to publish yet, or no more.
RsJob(phase, kind, id) ==
  [phase |-> phase, kind |-> kind, id |-> id, result |-> RsNone, from |-> "none", previous |-> RsNone]

RsIdle == RsJob("idle", "none", RsNone)

RsInit ==
  /\ rsInput \in [RsId -> {0, 1, 2}] /\ rsLegacy \in [RsId -> {0, 1}]
  /\ rsDir = [i \in RsId |-> RsNone] /\ rsCatalog = [i \in RsId |-> RsNone] /\ rsBlobs = {}
  /\ rsGate = RsNone /\ rsActive = {} /\ rsProcessed = [i \in RsId |-> 0]
  /\ rsWork = [w \in RsWorker |-> RsIdle]
  /\ rsTorn = {} /\ rsJobs = 0 /\ rsFaults = 0

-----------------------------------------------------------------------------
(* What is published. *)

HasFrames(v) == v >= 2

\* process_record: the result of an input.  Its frames carry their hash.
ImportResult(v) ==
  [source |-> "import", facts |-> v, defects |-> v, status |-> "ready",
   files |-> IF HasFrames(v) THEN <<"frame", v>> ELSE RsNone]

\* publish_record: the result of a legacy row, with these frames; defects
\* that cannot be read count as none.
OnlineResult(v, defects, files) ==
  [source |-> "online", facts |-> v, defects |-> defects,
   status |-> IF v > 1 THEN "ready" ELSE "partial", files |-> files]

BlobNames == {b[1] : b \in rsBlobs}

\* reusable_published_result
Reusable(id) ==
  rsDir[id] # RsNone /\ rsDir[id].status = "ready"
    /\ rsDir[id].files # RsNone /\ rsDir[id].files \in BlobNames

\* published_artifacts_present: images and depth of every camera, which only
\* an import has.
ArtifactsPresent(id) ==
  rsDir[id] # RsNone /\ rsDir[id].source = "import" /\ rsDir[id].files # RsNone

\* existing_generation_if_unchanged
Unchanged(id, result) == rsDir[id] = result /\ rsCatalog[id] # RsNone

-----------------------------------------------------------------------------
(* The jobs.  A worker that imports holds the gate. *)

Job(w) == rsWork[w]
Phase(w) == rsWork[w].phase

\* A job of the kind goes on to publish the result, or is through at once.
Begin(w, kind, id, result, from) ==
  rsWork' = [rsWork EXCEPT ![w] =
    [phase |-> IF Unchanged(id, result) THEN "done" ELSE "digest", kind |-> kind, id |-> id,
     result |-> result, from |-> from, previous |-> RsNone]]

ScanGate == rsGate = RsNone

\* process_record, from reading record.json to the call of publish.
ProcessRecord(w, kind, id) ==
  LET v == rsInput[id] IN
  IF v = 0
  THEN /\ rsWork' = [rsWork EXCEPT ![w] = RsJob("failed", kind, id)]
       /\ UNCHANGED rsProcessed
  ELSE IF rsProcessed[id] = v \/ (~HasFrames(v) /\ rsDir[id] # RsNone)
  THEN /\ rsWork' = [rsWork EXCEPT ![w] = RsJob("skipped", kind, id)]
       /\ rsProcessed' = [rsProcessed EXCEPT ![id] = v]
  ELSE Begin(w, kind, id, ImportResult(v), "input") /\ UNCHANGED rsProcessed

\* scan_sources, of one candidate: a scan that finds the gate taken is over.
Scan(w, id) ==
  /\ Phase(w) = "idle" /\ rsJobs < MaxRsJobs /\ ScanGate /\ rsInput[id] # 0
  /\ rsGate' = w /\ rsJobs' = rsJobs + 1
  /\ ProcessRecord(w, "scan", id)
  /\ UNCHANGED <<rsInput, rsLegacy, rsActive, rsTorn, rsFaults, rsStore>>

\* reconstruct_history_record
Reconstruct(w, id) ==
  /\ Phase(w) = "idle" /\ rsJobs < MaxRsJobs /\ rsJobs' = rsJobs + 1
  /\ ~ArtifactsPresent(id) /\ id \notin rsActive
  /\ rsActive' = rsActive \cup {id}
  /\ rsWork' = [rsWork EXCEPT ![w] = RsJob("materialize", "reconstruct", id)]
  /\ UNCHANGED <<rsInput, rsLegacy, rsGate, rsProcessed, rsTorn, rsFaults, rsStore>>

\* run_history_materializer: a script replaces the record in the work root.
Materialize(w) ==
  LET id == Job(w).id IN
  /\ Phase(w) = "materialize"
  /\ \E v \in {rsInput[id], rsInput[id] + 1} :
       /\ HasFrames(v) /\ v <= MaxRsVersion
       /\ rsInput' = [rsInput EXCEPT ![id] = v]
  /\ rsWork' = [rsWork EXCEPT ![w].phase = "wait"]
  /\ UNCHANGED <<rsLegacy, rsGate, rsActive, rsProcessed, rsTorn, rsJobs, rsFaults, rsStore>>

\* process_single_record waits for the gate.
ProcessSingle(w) ==
  /\ Phase(w) = "wait" /\ ScanGate
  /\ rsGate' = w
  /\ ProcessRecord(w, "reconstruct", Job(w).id)
  /\ UNCHANGED <<rsInput, rsLegacy, rsActive, rsTorn, rsJobs, rsFaults, rsStore>>

\* refresh and publish_record: one thread, without the gate.
Refresh(w, id, defectsRead) ==
  LET v == rsLegacy[id]
      reuse == v > 1 /\ Reusable(id)
      files == IF reuse THEN rsDir[id].files ELSE <<"raw", v>>
  IN  /\ Phase(w) = "idle" /\ rsJobs < MaxRsJobs /\ v > 0
      /\ \A u \in RsWorker : Phase(u) # "idle" => Job(u).kind # "refresh"
      /\ rsJobs' = rsJobs + 1
      /\ Begin(w, "refresh", id, OnlineResult(v, IF defectsRead THEN v ELSE 0, files),
               IF reuse THEN "blobs" ELSE "copy")
      /\ UNCHANGED <<rsInput, rsLegacy, rsGate, rsActive, rsProcessed, rsTorn, rsFaults, rsStore>>

-----------------------------------------------------------------------------
(* publish. *)

\* The content a worker finds where the frames of its result come from.
SourceContent(w) ==
  IF Job(w).from = "input"
  THEN IF HasFrames(rsInput[Job(w).id]) THEN <<"frame", rsInput[Job(w).id]>> ELSE RsNone
  ELSE IF Job(w).from = "copy" THEN Job(w).result.files
  ELSE (CHOOSE b \in rsBlobs : b[1] = Job(w).result.files)[2]

StepTo(w, phase) == rsWork' = [rsWork EXCEPT ![w].phase = phase]

AfterDigest(name) == IF name \in BlobNames THEN "out" ELSE "copy"

PublishDigest(w) ==
  LET files == Job(w).result.files IN
  /\ Phase(w) = "digest"
  /\ StepTo(w, IF files = RsNone THEN "out"
               ELSE IF SourceContent(w) # files THEN "failed" ELSE AfterDigest(files))
  /\ UNCHANGED <<rsInput, rsLegacy, rsGate, rsActive, rsProcessed, rsTorn, rsJobs, rsFaults, rsStore>>

\* They are copied, and renamed to the name unless another worker was first.
PublishCopy(w) ==
  LET files == Job(w).result.files IN
  /\ Phase(w) = "copy"
  /\ IF SourceContent(w) = RsNone
     THEN StepTo(w, "failed") /\ UNCHANGED rsBlobs
     ELSE /\ rsBlobs' = IF files \in BlobNames THEN rsBlobs ELSE rsBlobs \cup {<<files, SourceContent(w)>>}
          /\ StepTo(w, "out")
  /\ UNCHANGED <<rsInput, rsLegacy, rsGate, rsActive, rsProcessed, rsTorn, rsJobs, rsFaults, rsDir, rsCatalog>>

Replacing(w) == Phase(w) \in {"in", "commit"}

\* The record directory goes aside ...
PublishOut(w) ==
  LET id == Job(w).id IN
  /\ Phase(w) = "out"
  /\ rsWork' = [rsWork EXCEPT ![w].phase = "in", ![w].previous = rsDir[id]]
  /\ rsDir' = [rsDir EXCEPT ![id] = RsNone]
  /\ rsTorn' = rsTorn \cup {i \in {id} : \E u \in RsWorker : Replacing(u) /\ Job(u).id = i}
  /\ UNCHANGED <<rsInput, rsLegacy, rsGate, rsActive, rsProcessed, rsJobs, rsFaults, rsCatalog, rsBlobs>>

\* ... and the new one takes its place, unless there is one.
PublishIn(w) ==
  LET id == Job(w).id IN
  /\ Phase(w) = "in"
  /\ IF rsDir[id] = RsNone
     THEN rsDir' = [rsDir EXCEPT ![id] = Job(w).result] /\ StepTo(w, "commit")
     ELSE UNCHANGED rsDir /\ StepTo(w, "failed")
  /\ UNCHANGED <<rsInput, rsLegacy, rsGate, rsActive, rsProcessed, rsTorn, rsJobs, rsFaults, rsCatalog, rsBlobs>>

\* The generation of a publication: MAX(generation) + 1.
Generations == {rsCatalog[i].generation : i \in {j \in RsId : rsCatalog[j] # RsNone}}

NextGeneration == 1 + (IF Generations = {} THEN 0 ELSE CHOOSE g \in Generations : \A h \in Generations : h <= g)

PublishCommit(w) ==
  LET id == Job(w).id IN
  /\ Phase(w) = "commit"
  /\ rsCatalog' = [rsCatalog EXCEPT ![id] = [result |-> Job(w).result, generation |-> NextGeneration]]
  /\ StepTo(w, "done")
  /\ UNCHANGED <<rsInput, rsLegacy, rsGate, rsActive, rsProcessed, rsTorn, rsJobs, rsFaults, rsDir, rsBlobs>>

RestoredNothing(id, previous) == RsNone

\* restore_previous_record, when its calls succeed.
Restored(id, previous) == previous

\* The rename or the transaction fails and the previous record is put back.
\* That may fail as well: the record is gone when the rename back does not work,
\* and the new one stays when it cannot be removed.  publish drops the first
\* result after a failed rename and reports both after a failed transaction.
PublishFails(w, rollback) ==
  LET id == Job(w).id IN
  /\ Replacing(w) /\ rsFaults < MaxRsFaults /\ rsFaults' = rsFaults + 1
  /\ Phase(w) = "in" => rsDir[id] = RsNone
  /\ rollback = "kept" => Phase(w) = "commit"
  /\ rsDir' = [rsDir EXCEPT ![id] = IF rollback = "restored" THEN Restored(id, Job(w).previous)
                                    ELSE IF rollback = "lost" THEN RsNone ELSE @]
  /\ rsTorn' = IF rollback = "restored" THEN rsTorn ELSE rsTorn \cup {id}
  /\ StepTo(w, "failed")
  /\ UNCHANGED <<rsInput, rsLegacy, rsGate, rsActive, rsProcessed, rsJobs, rsCatalog, rsBlobs>>

-----------------------------------------------------------------------------
(* The end of a job. *)

Importing(w) == Job(w).kind \in {"scan", "reconstruct"}

Remembered(w) == Importing(w) /\ Phase(w) = "done"

FinishPublish(w) ==
  LET id == Job(w).id IN
  /\ Phase(w) \in {"done", "skipped", "failed"}
  /\ rsProcessed' = IF Remembered(w)
                    THEN [rsProcessed EXCEPT ![id] = Job(w).result.facts] ELSE rsProcessed
  /\ rsGate' = IF rsGate = w THEN RsNone ELSE rsGate
  /\ rsWork' = [rsWork EXCEPT ![w] =
       IF Job(w).kind = "reconstruct"
       THEN RsJob(IF Phase(w) = "failed" THEN "leave" ELSE "poll", "reconstruct", id)
       ELSE RsIdle]
  /\ UNCHANGED <<rsInput, rsLegacy, rsActive, rsTorn, rsJobs, rsFaults, rsStore>>

\* The reconstruction waits for its record: it publishes again while the
\* record is not there, gives up at a deadline, or removes its work copy.
Poll(w) ==
  LET id == Job(w).id IN
  /\ Phase(w) = "poll"
  /\ \/ ArtifactsPresent(id) /\ rsInput' = [rsInput EXCEPT ![id] = 0] /\ StepTo(w, "leave")
     \/ ~ArtifactsPresent(id) /\ StepTo(w, "wait") /\ UNCHANGED rsInput
     \/ ~ArtifactsPresent(id) /\ StepTo(w, "leave") /\ UNCHANGED rsInput
  /\ UNCHANGED <<rsLegacy, rsGate, rsActive, rsProcessed, rsTorn, rsJobs, rsFaults, rsStore>>

Leave(w) ==
  /\ Phase(w) = "leave"
  /\ rsActive' = rsActive \ {Job(w).id}
  /\ rsWork' = [rsWork EXCEPT ![w] = RsIdle]
  /\ UNCHANGED <<rsInput, rsLegacy, rsGate, rsProcessed, rsTorn, rsJobs, rsFaults, rsStore>>

\* External: the legacy database and the writers of the input roots.
LegacyChanges(id) ==
  /\ rsLegacy[id] \in 1..(MaxRsVersion - 1)
  /\ rsLegacy' = [rsLegacy EXCEPT ![id] = @ + 1]
  /\ UNCHANGED <<rsInput, rsGate, rsActive, rsProcessed, rsWork, rsTorn, rsJobs, rsFaults, rsStore>>

InputChanges(id) ==
  /\ rsInput[id] < MaxRsVersion
  /\ rsInput' = [rsInput EXCEPT ![id] = @ + 1]
  /\ UNCHANGED <<rsLegacy, rsGate, rsActive, rsProcessed, rsWork, rsTorn, rsJobs, rsFaults, rsStore>>

\* The process dies.  Opening the store again repairs nothing.
RsCrash ==
  /\ rsFaults < MaxRsFaults /\ rsFaults' = rsFaults + 1
  /\ \E w \in RsWorker : Phase(w) # "idle"
  /\ rsTorn' = rsTorn \cup {i \in RsId : \E w \in RsWorker : Replacing(w) /\ Job(w).id = i}
  /\ rsGate' = RsNone /\ rsActive' = {} /\ rsProcessed' = [i \in RsId |-> 0]
  /\ rsWork' = [w \in RsWorker |-> RsIdle]
  /\ UNCHANGED <<rsInput, rsLegacy, rsJobs, rsStore>>

RsNext ==
  \/ \E w \in RsWorker, id \in RsId : Scan(w, id) \/ Reconstruct(w, id)
  \/ \E w \in RsWorker, id \in RsId, read \in BOOLEAN : Refresh(w, id, read)
  \/ \E w \in RsWorker : Materialize(w) \/ ProcessSingle(w)
  \/ \E w \in RsWorker : PublishDigest(w) \/ PublishCopy(w) \/ PublishOut(w) \/ PublishIn(w)
                           \/ PublishCommit(w)
  \/ \E w \in RsWorker, rollback \in {"restored", "lost", "kept"} : PublishFails(w, rollback)
  \/ \E w \in RsWorker : FinishPublish(w) \/ Poll(w) \/ Leave(w)
  \/ \E id \in RsId : LegacyChanges(id) \/ InputChanges(id)
  \/ RsCrash

RsSpec == RsInit /\ [][RsNext]_rsVars

-----------------------------------------------------------------------------
(* Properties. *)

\* What the catalogue or a record directory refers to is in the store, at
\* every instant, whoever publishes and wherever it stops: the blobs come
\* first and are never removed (publish copies before it renames).
PublishedHasBlobs ==
  \A id \in RsId :
    /\ (rsDir[id] # RsNone /\ rsDir[id].files # RsNone) => rsDir[id].files \in BlobNames
    /\ (rsCatalog[id] # RsNone /\ rsCatalog[id].result.files # RsNone)
         => rsCatalog[id].result.files \in BlobNames

\* The record directory and the catalogue hold the same result whenever no
\* publication is under way, after failed renames and transactions too, as long
\* as the previous record could be put back (restore_previous_record).  Two
\* publications of a record that met, one that was cut short, and a rollback
\* that failed may leave them different.
RecordAgreesWithCatalog ==
  \A id \in RsId :
    (id \notin rsTorn /\ ~\E w \in RsWorker : Replacing(w) /\ Job(w).id = id)
      => IF rsDir[id] = RsNone THEN rsCatalog[id] = RsNone
         ELSE rsCatalog[id] # RsNone /\ rsCatalog[id].result = rsDir[id]

\* Inputs are imported one at a time, by scan or on request: the holder of
\* the gate is the only worker between process_record and its end.
ImportsDoNotOverlap ==
  \A w \in RsWorker :
    (Phase(w) \in {"digest", "copy", "out", "in", "commit", "done", "skipped", "failed"} /\ Importing(w)) => rsGate = w

\* An input with frames that the scan will pass over has a result in the
\* catalogue, unless two publications of it met, one was cut short or could not
\* be rolled back: it is remembered only after the transaction.
RememberedIsCatalogued ==
  \A id \in RsId : (HasFrames(rsProcessed[id]) /\ id \notin rsTorn) => rsCatalog[id] # RsNone

\* The three places a result lives in, blobs, record directory and catalogue,
\* agree whenever nobody is at work on it and every publication was completed
\* or rolled back, and so does the scanner's memory.
StoreSafety ==
  /\ PublishedHasBlobs
  /\ RecordAgreesWithCatalog
  /\ ImportsDoNotOverlap
  /\ RememberedIsCatalogued

\* A record that was published does not disappear while its successor is
\* published, nor afterwards.
RecordStaysPublished == \A id \in RsId : rsCatalog[id] # RsNone => rsDir[id] # RsNone

\* A blob holds the content it is named after.
BlobsAreContentAddressed == \A b \in rsBlobs : b[1] = b[2]

=============================================================================
