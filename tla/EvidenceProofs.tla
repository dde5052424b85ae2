--------------------------- MODULE EvidenceProofs ---------------------------
(***************************************************************************)
(* Proofs about what the platform keeps of a plate: the published results, *)
(* the reviewed defects, the archived reports and the processing log.      *)
(***************************************************************************)
EXTENDS ProcessingLog, ReportArchive, DefectReview, ResultStore, TLAPS

-----------------------------------------------------------------------------
(***************************************************************************)
(* ResultStore, for any number of inspections, workers, versions, jobs,    *)
(* failures and crashes.                                                   *)
(***************************************************************************)

-----------------------------------------------------------------------------
(* The inductive invariant *)

RsPhase == {"idle", "materialize", "wait", "digest", "copy", "out", "in", "commit", "done",
            "skipped", "failed", "poll", "leave"}
JobRecord == [phase : RsPhase, kind : {"none", "scan", "reconstruct", "refresh"},
           id : RsId \cup {RsNone}, result : RsResult \cup {RsNone},
           from : {"none", "input", "blobs", "copy"}, previous : RsResult \cup {RsNone}]
RsRow == [result : RsResult, generation : Nat]

RsTypes ==
  /\ rsInput \in [RsId -> Nat] /\ rsLegacy \in [RsId -> Nat]
  /\ rsDir \in [RsId -> RsResult \cup {RsNone}]
  /\ rsCatalog \in [RsId -> RsRow \cup {RsNone}]
  /\ rsProcessed \in [RsId -> Nat]
  /\ rsWork \in [RsWorker -> JobRecord]

Publishing(j) == j.phase \in {"digest", "copy", "out", "in", "commit", "done"}

\* A job is about an inspection, and has a result while it publishes.
JobsNamed ==
  \A w \in RsWorker :
    /\ Job(w).phase # "idle" => Job(w).id \in RsId
    /\ Publishing(Job(w)) => Job(w).result \in RsResult

\* Some generation is the latest: NextGeneration is above all others.
LatestExists ==
  Generations = {} \/ \E g \in Generations : \A h \in Generations : h <= g

\* What a record refers to is in the store.
Stocked(record) == record # RsNone /\ record.files # RsNone => record.files \in BlobNames

\* Whoever is about to replace a record has its blobs in place, and those of
\* the record it may have to restore.
JobsStocked ==
  \A w \in RsWorker :
    /\ Phase(w) \in {"out", "in", "commit"} => Stocked(Job(w).result)
    /\ Replacing(w) => Stocked(Job(w).previous)

\* The catalogue holds this record, or there is none in either place.
Agrees(id, record) ==
  IF record = RsNone THEN rsCatalog[id] = RsNone
  ELSE rsCatalog[id] # RsNone /\ rsCatalog[id].result = record

\* Unless publications met, one worker at a time replaces a record ...
OneReplaces ==
  \A w, u \in RsWorker :
    Replacing(w) /\ Replacing(u) /\ Job(w).id = Job(u).id /\ Job(w).id \notin rsTorn => w = u

\* ... and the catalogue still has what that worker put aside.
AsideAgrees ==
  \A w \in RsWorker :
    Replacing(w) /\ Job(w).id \notin rsTorn =>
      /\ Agrees(Job(w).id, Job(w).previous)
      /\ rsDir[Job(w).id] = IF Phase(w) = "in" THEN RsNone ELSE Job(w).result

\* A publication that is through is in the catalogue.
DoneIsCatalogued ==
  \A w \in RsWorker : Phase(w) = "done" => rsCatalog[Job(w).id] # RsNone

\* An input the scan passes over is, two publications or not.
ProcessedIsCatalogued ==
  \A id \in RsId : HasFrames(rsProcessed[id]) => rsCatalog[id] # RsNone

RsInv ==
  /\ RsTypes /\ JobsNamed /\ LatestExists
  /\ JobsStocked /\ OneReplaces /\ AsideAgrees /\ DoneIsCatalogued /\ ProcessedIsCatalogued
  /\ PublishedHasBlobs /\ RecordAgreesWithCatalog /\ ImportsDoNotOverlap

-----------------------------------------------------------------------------
(* Facts *)

\* The jobs the operations write are jobs.
LEMMA JobType ==
  ASSUME NEW phase \in RsPhase, NEW kind \in {"none", "scan", "reconstruct", "refresh"},
         NEW id \in RsId \cup {RsNone}
  PROVE  /\ RsJob(phase, kind, id) \in JobRecord
         /\ RsJob(phase, kind, id).phase = phase
         /\ RsJob(phase, kind, id).kind = kind
         /\ RsJob(phase, kind, id).id = id
  BY Zenon DEF RsJob, JobRecord

\* A worker without a job, as after a start or an end.
LEMMA IdleJob == RsIdle \in JobRecord /\ RsIdle.phase = "idle" /\ RsIdle.kind = "none"
  BY JobType DEF RsIdle, RsPhase

\* What process_record and publish_record publish is a result.
LEMMA ImportIsResult ==
  ASSUME NEW v \in Nat
  PROVE  ImportResult(v) \in RsResult /\ ImportResult(v).facts = v
  BY Zenon DEF ImportResult, RsResult, BlobName

\* The same of a legacy row, with the frames it is published with.
LEMMA OnlineIsResult ==
  ASSUME NEW v \in Nat, NEW d \in Nat, NEW f \in BlobName \cup {RsNone}
  PROVE  OnlineResult(v, d, f) \in RsResult
  BY Zenon DEF OnlineResult, RsResult

\* A worker that takes a new phase keeps the rest of its job.
LEMMA PhaseStep ==
  ASSUME RsTypes, NEW w \in RsWorker, NEW phase \in RsPhase, StepTo(w, phase)
  PROVE  /\ rsWork' \in [RsWorker -> JobRecord]
         /\ \A u \in RsWorker : u # w => rsWork'[u] = rsWork[u]
         /\ rsWork'[w].phase = phase
         /\ rsWork'[w].kind = rsWork[w].kind /\ rsWork'[w].id = rsWork[w].id
         /\ rsWork'[w].result = rsWork[w].result /\ rsWork'[w].previous = rsWork[w].previous
<1>1. rsWork \in [RsWorker -> JobRecord] /\ rsWork' = [rsWork EXCEPT ![w].phase = phase]
  BY Zenon DEF RsTypes, StepTo
<1>2. PICK j : j = [rsWork[w] EXCEPT !.phase = phase]
  BY Zenon
<1>3. /\ j \in JobRecord /\ j.phase = phase /\ j.kind = rsWork[w].kind /\ j.id = rsWork[w].id
      /\ j.result = rsWork[w].result /\ j.previous = rsWork[w].previous
  BY <1>1, <1>2 DEF JobRecord
<1>4. rsWork' = [rsWork EXCEPT ![w] = j]
  BY Zenon, <1>1, <1>2
<1> QED
  BY Zenon, <1>1, <1>3, <1>4

\* An empty store with idle workers satisfies the invariant.
LEMMA RsInitInv == RsInit => RsInv
<1> SUFFICES ASSUME RsInit PROVE RsInv
  BY Zenon
<1>1. \A w \in RsWorker : rsWork[w] = RsIdle
  BY Zenon DEF RsInit
<1>2. RsTypes
  BY IdleJob DEF RsInit, RsTypes
<1>3. LatestExists
  BY Zenon DEF RsInit, LatestExists, Generations
<1>4. /\ JobsNamed /\ JobsStocked /\ OneReplaces /\ AsideAgrees /\ DoneIsCatalogued
      /\ ImportsDoNotOverlap
  BY Zenon, <1>1, IdleJob DEF JobsNamed, Job, Phase, Publishing, JobsStocked, Replacing, OneReplaces,
     AsideAgrees, DoneIsCatalogued, ImportsDoNotOverlap
<1>5. ProcessedIsCatalogued /\ PublishedHasBlobs /\ RecordAgreesWithCatalog
  BY DEF RsInit, ProcessedIsCatalogued, HasFrames, PublishedHasBlobs, RecordAgreesWithCatalog
<1> QED
  BY Zenon, <1>2, <1>3, <1>4, <1>5 DEF RsInv

-----------------------------------------------------------------------------
(* The steps *)

\* A worker that is not replacing a record, and does not begin to, leaves the
\* store alone: what it must respect is the gate, the blobs of its own result
\* and, when it is through or remembers an input, the catalogue.
LEMMA WorkKeeps ==
  ASSUME RsInv, NEW w \in RsWorker, ~Replacing(w), NEW j \in JobRecord, rsWork'[w] = j,
         rsWork' \in [RsWorker -> JobRecord],
         \A u \in RsWorker : u # w => rsWork'[u] = rsWork[u],
         j.phase \notin {"in", "commit"},
         j.phase # "idle" => j.id \in RsId,
         Publishing(j) => j.result \in RsResult,
         j.phase = "out" => Stocked(j.result)',
         j.phase = "done" => rsCatalog[j.id] # RsNone,
         j.phase \in {"digest", "copy", "out", "done", "skipped", "failed"}
           /\ j.kind \in {"scan", "reconstruct"} => rsGate' = w,
         rsGate' = rsGate \/ rsGate = RsNone \/ (rsGate = w /\ rsGate' = RsNone),
         rsInput' \in [RsId -> Nat], rsLegacy' \in [RsId -> Nat], rsProcessed' \in [RsId -> Nat],
         \A id \in RsId : HasFrames(rsProcessed'[id]) =>
                            HasFrames(rsProcessed[id]) \/ rsCatalog[id] # RsNone,
         rsBlobs \subseteq rsBlobs', UNCHANGED <<rsDir, rsCatalog, rsTorn>>
  PROVE  RsInv'
<1>d. UNCHANGED <<rsDir, rsCatalog, rsTorn>> /\ BlobNames \subseteq BlobNames'
  BY Zenon DEF BlobNames
<1>r. \A u \in RsWorker : Replacing(u)' <=> Replacing(u)
  BY Zenon DEF Replacing, Phase
<1>k. \A u \in RsWorker : Replacing(u) => u # w /\ rsWork'[u] = rsWork[u]
  BY Zenon
<1>1. RsTypes'
  BY Zenon, <1>d DEF RsInv, RsTypes
<1>2. JobsNamed'
  BY Zenon DEF RsInv, JobsNamed, Job
<1>3. LatestExists'
  <2>1. Generations' = Generations
    BY <1>d DEF Generations
  <2> QED
    BY Zenon, <2>1 DEF RsInv, LatestExists
<1>4. JobsStocked'
  <2> SUFFICES ASSUME NEW u \in RsWorker
               PROVE  /\ rsWork'[u].phase \in {"out", "in", "commit"} => Stocked(rsWork[u].result)'
                      /\ rsWork'[u].phase \in {"in", "commit"} => Stocked(rsWork[u].previous)'
    BY Zenon DEF JobsStocked, Phase, Replacing, Job
  <2>1. CASE u = w
    BY Zenon, <2>1 DEF Stocked
  <2>2. CASE u # w
    <3>1. /\ rsWork[u].phase \in {"out", "in", "commit"} => Stocked(rsWork[u].result)
          /\ rsWork[u].phase \in {"in", "commit"} => Stocked(rsWork[u].previous)
      BY Zenon DEF RsInv, JobsStocked, Phase, Replacing, Job
    <3> QED
      BY Zenon, <1>d, <2>2, <3>1 DEF Stocked
  <2> QED
    BY Zenon, <2>1, <2>2
<1>5. OneReplaces'
  BY <1>d, <1>k, <1>r DEF RsInv, OneReplaces, Job
<1>6. AsideAgrees'
  <2> SUFFICES ASSUME NEW u \in RsWorker, Replacing(u)', rsWork'[u].id \notin rsTorn
               PROVE  /\ Agrees(rsWork[u].id, rsWork[u].previous)'
                      /\ rsDir'[rsWork'[u].id] = IF rsWork'[u].phase = "in" THEN RsNone
                                                 ELSE rsWork'[u].result
    BY Zenon, <1>d DEF AsideAgrees, Phase, Job
  <2>1. Replacing(u) /\ rsWork'[u] = rsWork[u]
    BY Zenon, <1>k, <1>r
  <2>2. /\ Agrees(rsWork[u].id, rsWork[u].previous)
        /\ rsDir[rsWork[u].id] = IF rsWork[u].phase = "in" THEN RsNone ELSE rsWork[u].result
    BY Zenon, <2>1 DEF RsInv, AsideAgrees, Phase, Job
  <2> QED
    BY Zenon, <1>d, <2>1, <2>2 DEF Agrees
<1>7. DoneIsCatalogued' /\ ProcessedIsCatalogued'
  BY Zenon, <1>d DEF RsInv, DoneIsCatalogued, ProcessedIsCatalogued, Phase, Job
<1>8. PublishedHasBlobs'
  BY Zenon, <1>d DEF RsInv, PublishedHasBlobs
<1>9. RecordAgreesWithCatalog'
  BY <1>d, <1>k, <1>r DEF RsInv, RecordAgreesWithCatalog, Job
<1>10. ImportsDoNotOverlap'
  <2>1. \A u \in RsWorker : u # RsNone
    BY Zenon, RsAssumption
  <2> QED
    BY <2>1 DEF RsInv, ImportsDoNotOverlap, Phase, Importing, Job, Replacing
<1> QED
  BY Zenon, <1>1, <1>2, <1>3, <1>4, <1>5, <1>6, <1>7, <1>8, <1>9, <1>10 DEF RsInv

\* A job that goes on to publish has a result; when the store already holds
\* that result it is through, and the result is in the catalogue.
LEMMA BeginJob ==
  ASSUME RsTypes, NEW w \in RsWorker, NEW kind \in {"scan", "reconstruct", "refresh"},
         NEW id \in RsId, NEW result \in RsResult, NEW from \in {"input", "blobs", "copy"},
         Begin(w, kind, id, result, from)
  PROVE  /\ rsWork' \in [RsWorker -> JobRecord]
         /\ \A u \in RsWorker : u # w => rsWork'[u] = rsWork[u]
         /\ rsWork'[w].phase \in {"done", "digest"}
         /\ rsWork'[w].phase = "done" => rsCatalog[id] # RsNone
         /\ rsWork'[w].kind = kind /\ rsWork'[w].id = id /\ rsWork'[w].result = result
<1>1. PICK j : j = [phase |-> IF Unchanged(id, result) THEN "done" ELSE "digest", kind |-> kind,
                    id |-> id, result |-> result, from |-> from, previous |-> RsNone]
  BY Zenon
<1>2. /\ j \in JobRecord /\ j.phase \in {"done", "digest"} /\ j.kind = kind /\ j.id = id
      /\ j.result = result /\ (j.phase = "done" => Unchanged(id, result))
  BY Zenon, <1>1 DEF JobRecord, RsPhase
<1>3. rsWork' = [rsWork EXCEPT ![w] = j] /\ rsWork \in [RsWorker -> JobRecord]
  BY Zenon, <1>1 DEF Begin, RsTypes
<1> QED
  BY Zenon, <1>2, <1>3 DEF Unchanged

\* process_record, under the gate, from a worker that publishes nothing yet.
LEMMA ProcessKeeps ==
  ASSUME RsInv, NEW w \in RsWorker, Phase(w) \in {"idle", "wait"}, NEW id \in RsId,
         NEW kind \in {"scan", "reconstruct"}, ProcessRecord(w, kind, id),
         rsGate = RsNone, rsGate' = w,
         UNCHANGED <<rsInput, rsLegacy, rsTorn, rsDir, rsCatalog, rsBlobs>>
  PROVE  RsInv'
<1>t. /\ RsTypes /\ rsInput[id] \in Nat /\ rsProcessed \in [RsId -> Nat] /\ ~Replacing(w)
      /\ rsWork \in [RsWorker -> JobRecord] /\ rsInput' \in [RsId -> Nat] /\ rsLegacy' \in [RsId -> Nat]
  BY Zenon DEF RsInv, RsTypes, Replacing
<1>k. kind \in {"none", "scan", "reconstruct", "refresh"} /\ id \in RsId \cup {RsNone}
  BY Zenon
<1>1. CASE rsWork' = [rsWork EXCEPT ![w] = RsJob("failed", kind, id)] /\ UNCHANGED rsProcessed
  <2>p. "failed" \in RsPhase
    BY Zenon DEF RsPhase
  <2>q. /\ RsJob("failed", kind, id) \in JobRecord
        /\ RsJob("failed", kind, id).phase = "failed"
        /\ RsJob("failed", kind, id).kind = kind /\ RsJob("failed", kind, id).id = id
    BY <1>k, <2>p, JobType
  <2>1. PICK j \in JobRecord : j = RsJob("failed", kind, id)
    BY Zenon, <2>q
  <2>2. j.phase = "failed" /\ j.kind = kind /\ j.id = id
    BY Zenon, <2>q, <2>1
  <2> QED
    BY Zenon, <1>1, <1>t, <2>1, <2>2, WorkKeeps DEF Publishing
<1>2. CASE /\ rsWork' = [rsWork EXCEPT ![w] = RsJob("skipped", kind, id)]
           /\ rsProcessed[id] = rsInput[id] \/ ~HasFrames(rsInput[id])
           /\ rsProcessed' = [rsProcessed EXCEPT ![id] = rsInput[id]]
  <2>p. "skipped" \in RsPhase
    BY Zenon DEF RsPhase
  <2>q. /\ RsJob("skipped", kind, id) \in JobRecord
        /\ RsJob("skipped", kind, id).phase = "skipped"
        /\ RsJob("skipped", kind, id).kind = kind /\ RsJob("skipped", kind, id).id = id
    BY <1>k, <2>p, JobType
  <2>1. PICK j \in JobRecord : j = RsJob("skipped", kind, id)
    BY Zenon, <2>q
  <2>2. j.phase = "skipped" /\ j.kind = kind /\ j.id = id
    BY Zenon, <2>q, <2>1
  <2>3. /\ rsProcessed' \in [RsId -> Nat]
        /\ \A i \in RsId : HasFrames(rsProcessed'[i]) => HasFrames(rsProcessed[i])
    BY Zenon, <1>2, <1>t
  <2> QED
    BY Zenon, <1>2, <1>t, <2>1, <2>2, <2>3, WorkKeeps DEF Publishing
<1>3. CASE Begin(w, kind, id, ImportResult(rsInput[id]), "input") /\ UNCHANGED rsProcessed
  <2>1. PICK r \in RsResult : r = ImportResult(rsInput[id])
    BY Zenon, <1>t, ImportIsResult
  <2>2. /\ rsWork' \in [RsWorker -> JobRecord]
        /\ \A u \in RsWorker : u # w => rsWork'[u] = rsWork[u]
        /\ rsWork'[w].phase \in {"done", "digest"}
        /\ rsWork'[w].phase = "done" => rsCatalog[id] # RsNone
        /\ rsWork'[w].kind = kind /\ rsWork'[w].id = id /\ rsWork'[w].result = r
    <3>1. Begin(w, kind, id, r, "input") /\ kind \in {"scan", "reconstruct", "refresh"}
      BY Zenon, <1>3, <2>1
    <3>2. "input" \in {"input", "blobs", "copy"}
      BY Zenon
    <3> QED
      BY <1>t, <3>1, <3>2, BeginJob
  <2>3. PICK j \in JobRecord : j = rsWork'[w]
    BY Zenon, <2>2
  <2> QED
    BY Zenon, <1>3, <1>t, <2>2, <2>3, WorkKeeps DEF Publishing
<1> QED
  BY Zenon, <1>1, <1>2, <1>3 DEF ProcessRecord

\* scan_sources takes the gate and processes a candidate.
LEMMA ScanKeeps ==
  ASSUME RsInv, NEW w \in RsWorker, NEW id \in RsId, Scan(w, id)
  PROVE  RsInv'
  BY Zenon, ProcessKeeps DEF Scan, ScanGate, rsStore

\* process_single_record does so for the record of its job.
LEMMA ProcessSingleKeeps ==
  ASSUME RsInv, NEW w \in RsWorker, ProcessSingle(w)
  PROVE  RsInv'
<1>1. Phase(w) = "wait" /\ Job(w).id \in RsId
  BY Zenon DEF ProcessSingle, RsInv, JobsNamed, Phase, Job
<1> QED
  BY Zenon, <1>1, ProcessKeeps DEF ProcessSingle, ScanGate, rsStore

\* A request for a reconstruction begins with its script.
LEMMA ReconstructKeeps ==
  ASSUME RsInv, NEW w \in RsWorker, NEW id \in RsId, Reconstruct(w, id)
  PROVE  RsInv'
<1>a. /\ rsWork' = [rsWork EXCEPT ![w] = RsJob("materialize", "reconstruct", id)] /\ ~Replacing(w)
      /\ UNCHANGED <<rsInput, rsLegacy, rsGate, rsProcessed, rsTorn, rsDir, rsCatalog, rsBlobs>>
  BY Zenon DEF Reconstruct, Replacing, rsStore
<1>1. PICK j \in JobRecord : j = RsJob("materialize", "reconstruct", id)
  BY JobType DEF RsPhase
<1>2. j.phase = "materialize" /\ j.id = id
  BY <1>1, JobType DEF RsPhase
<1>t. /\ rsWork \in [RsWorker -> JobRecord] /\ rsInput' \in [RsId -> Nat]
      /\ rsLegacy' \in [RsId -> Nat] /\ rsProcessed' \in [RsId -> Nat]
  BY Zenon, <1>a DEF RsInv, RsTypes
<1> QED
  BY Zenon, <1>a, <1>t, <1>1, <1>2, WorkKeeps DEF Publishing

\* A worker goes from one phase to another that publishes nothing.
LEMMA QuietStepKeeps ==
  ASSUME RsInv, NEW w \in RsWorker, ~Replacing(w), Phase(w) # "idle",
         NEW phase \in {"wait", "leave", "failed", "out", "copy"}, StepTo(w, phase),
         NEW r, r = Job(w).result, phase = "out" => Stocked(r)',
         phase \in {"out", "copy", "failed"} => Phase(w) \in {"digest", "copy"},
         rsInput' \in [RsId -> Nat],
         rsBlobs \subseteq rsBlobs',
         UNCHANGED <<rsLegacy, rsGate, rsProcessed, rsTorn, rsDir, rsCatalog>>
  PROVE  RsInv'
<1>t. RsTypes /\ rsLegacy' \in [RsId -> Nat] /\ rsProcessed' \in [RsId -> Nat]
  BY Zenon DEF RsInv, RsTypes
<1>1. /\ rsWork' \in [RsWorker -> JobRecord]
      /\ \A u \in RsWorker : u # w => rsWork'[u] = rsWork[u]
      /\ rsWork'[w].phase = phase
      /\ rsWork'[w].kind = rsWork[w].kind /\ rsWork'[w].id = rsWork[w].id
      /\ rsWork'[w].result = rsWork[w].result
  BY Zenon, <1>t, PhaseStep DEF RsPhase
<1>2. PICK j \in JobRecord : j = rsWork'[w]
  BY Zenon, <1>1
<1>3. j.id \in RsId /\ (Publishing(j) => j.result \in RsResult)
  BY Zenon, <1>1, <1>2 DEF RsInv, JobsNamed, Job, Phase, Publishing
<1>4. phase \in {"out", "copy", "failed"} /\ j.kind \in {"scan", "reconstruct"} => rsGate' = w
  BY Zenon, <1>1, <1>2 DEF RsInv, ImportsDoNotOverlap, Importing, Job, Phase
<1>5. phase = "out" => Stocked(j.result)'
  BY Zenon, <1>1, <1>2 DEF Job
<1> QED
  BY Zenon, <1>t, <1>1, <1>2, <1>3, <1>4, <1>5, WorkKeeps

\* run_history_materializer
LEMMA MaterializeKeeps ==
  ASSUME RsInv, NEW w \in RsWorker, Materialize(w)
  PROVE  RsInv'
<1>a. /\ Phase(w) = "materialize" /\ StepTo(w, "wait")
      /\ UNCHANGED <<rsLegacy, rsGate, rsProcessed, rsTorn, rsDir, rsCatalog, rsBlobs>>
  BY Zenon DEF Materialize, StepTo, rsStore
<1>1. Job(w).id \in RsId
  BY Zenon, <1>a DEF RsInv, JobsNamed, Phase, Job
<1>2. rsInput' \in [RsId -> Nat]
  BY <1>1 DEF Materialize, RsInv, RsTypes
<1> QED
  BY Zenon, <1>a, <1>2, QuietStepKeeps DEF Replacing

\* The reconstruction waits for its record.
LEMMA PollKeeps ==
  ASSUME RsInv, NEW w \in RsWorker, Poll(w)
  PROVE  RsInv'
<1>a. /\ Phase(w) = "poll"
      /\ StepTo(w, "wait") \/ StepTo(w, "leave")
      /\ UNCHANGED <<rsLegacy, rsGate, rsProcessed, rsTorn, rsDir, rsCatalog, rsBlobs>>
  BY Zenon DEF Poll, rsStore
<1>1. Job(w).id \in RsId
  BY Zenon, <1>a DEF RsInv, JobsNamed, Phase, Job
<1>2. rsInput' \in [RsId -> Nat]
  BY <1>1 DEF Poll, RsInv, RsTypes
<1> QED
  BY Zenon, <1>a, <1>2, QuietStepKeeps DEF Replacing

\* refresh and publish_record: the frames of the record it finds, or raw ones.
LEMMA RefreshKeeps ==
  ASSUME RsInv, NEW w \in RsWorker, NEW id \in RsId, NEW read \in BOOLEAN, Refresh(w, id, read)
  PROVE  RsInv'
<1> DEFINE v == rsLegacy[id]
           reuse == v > 1 /\ Reusable(id)
           files == IF reuse THEN rsDir[id].files ELSE <<"raw", v>>
           defects == IF read THEN v ELSE 0
<1>t. /\ RsTypes /\ v \in Nat /\ rsDir[id] \in RsResult \cup {RsNone}
      /\ rsInput \in [RsId -> Nat] /\ rsLegacy \in [RsId -> Nat] /\ rsProcessed \in [RsId -> Nat]
  BY Zenon DEF RsInv, RsTypes
<1>1. PICK f \in BlobName \cup {RsNone} : f = files
  <2>1. reuse => rsDir[id].files \in BlobName \cup {RsNone}
    BY Zenon, <1>t DEF Reusable, RsResult
  <2>2. <<"raw", v>> \in BlobName
    BY Zenon, <1>t DEF BlobName
  <2> QED
    BY Zenon, <2>1, <2>2
<1>2. PICK r \in RsResult : r = OnlineResult(v, defects, files)
  BY Zenon, <1>t, <1>1, OnlineIsResult
<1>3. PICK from \in {"input", "blobs", "copy"} : from = IF reuse THEN "blobs" ELSE "copy"
  BY Zenon
<1>a. /\ Phase(w) = "idle" /\ ~Replacing(w) /\ Begin(w, "refresh", id, r, from)
      /\ UNCHANGED <<rsInput, rsLegacy, rsGate, rsProcessed, rsTorn, rsDir, rsCatalog, rsBlobs>>
  BY Zenon, <1>2, <1>3 DEF Refresh, Replacing, rsStore
<1>4. /\ rsWork' \in [RsWorker -> JobRecord]
      /\ \A u \in RsWorker : u # w => rsWork'[u] = rsWork[u]
      /\ rsWork'[w].phase \in {"done", "digest"}
      /\ rsWork'[w].phase = "done" => rsCatalog[id] # RsNone
      /\ rsWork'[w].kind = "refresh" /\ rsWork'[w].id = id /\ rsWork'[w].result = r
  <2>1. "refresh" \in {"scan", "reconstruct", "refresh"}
    BY Zenon
  <2> QED
    BY <1>a, <1>t, <2>1, BeginJob
<1>5. PICK j \in JobRecord : j = rsWork'[w]
  BY Zenon, <1>4
<1> HIDE DEF v, reuse, files, defects
<1> QED
  BY Zenon, <1>a, <1>t, <1>4, <1>5, WorkKeeps DEF Publishing

\* publish compares the digests of its sources.
LEMMA DigestKeeps ==
  ASSUME RsInv, NEW w \in RsWorker, PublishDigest(w)
  PROVE  RsInv'
<1>a. /\ Phase(w) = "digest" /\ ~Replacing(w)
      /\ UNCHANGED <<rsInput, rsLegacy, rsGate, rsProcessed, rsTorn, rsDir, rsCatalog, rsBlobs>>
  BY Zenon DEF PublishDigest, Replacing, rsStore
<1>1. PICK r : r = Job(w).result
  BY Zenon
<1>2. PICK phase \in {"out", "failed", "copy"} :
        StepTo(w, phase) /\ (phase = "out" => r.files = RsNone \/ r.files \in BlobNames)
  BY Zenon, <1>1 DEF PublishDigest, AfterDigest
<1>3. phase = "out" => Stocked(r)'
  BY Zenon, <1>a, <1>2 DEF Stocked, BlobNames
<1>4. rsInput' \in [RsId -> Nat]
  BY Zenon, <1>a DEF RsInv, RsTypes
<1> QED
  BY Zenon, <1>a, <1>1, <1>2, <1>3, <1>4, QuietStepKeeps

\* publish copies its sources under the name of their hash.
LEMMA CopyKeeps ==
  ASSUME RsInv, NEW w \in RsWorker, PublishCopy(w)
  PROVE  RsInv'
<1>a. /\ Phase(w) = "copy" /\ ~Replacing(w)
      /\ UNCHANGED <<rsInput, rsLegacy, rsGate, rsProcessed, rsTorn, rsDir, rsCatalog>>
  BY Zenon DEF PublishCopy, Replacing
<1>4. rsInput' \in [RsId -> Nat]
  BY Zenon, <1>a DEF RsInv, RsTypes
<1>1. PICK r : r = Job(w).result
  BY Zenon
<1>2. CASE StepTo(w, "failed") /\ UNCHANGED rsBlobs
  BY Zenon, <1>a, <1>1, <1>2, <1>4, QuietStepKeeps
<1>3. CASE /\ StepTo(w, "out")
           /\ rsBlobs' = IF r.files \in BlobNames THEN rsBlobs
                         ELSE rsBlobs \cup {<<r.files, SourceContent(w)>>}
  <2>1. rsBlobs \subseteq rsBlobs' /\ r.files \in BlobNames'
    <3>1. CASE r.files \in BlobNames
      BY Zenon, <1>3, <3>1 DEF BlobNames
    <3>2. CASE r.files \notin BlobNames
      <4>1. PICK b : b = <<r.files, SourceContent(w)>>
        BY Zenon
      <4>2. rsBlobs' = rsBlobs \cup {b} /\ b[1] = r.files
        BY Zenon, <1>3, <3>2, <4>1
      <4> QED
        BY Zenon, <4>2 DEF BlobNames
    <3> QED
      BY Zenon, <3>1, <3>2
  <2>2. Stocked(r)'
    BY Zenon, <2>1 DEF Stocked
  <2> QED
    BY Zenon, <1>a, <1>1, <1>3, <1>4, <2>1, <2>2, QuietStepKeeps
<1> QED
  BY Zenon, <1>1, <1>2, <1>3 DEF PublishCopy

\* The end of a job: what is remembered was catalogued, and the gate is given
\* back by the one that holds it.
LEMMA FinishKeeps ==
  ASSUME RsInv, NEW w \in RsWorker, FinishPublish(w)
  PROVE  RsInv'
<1>a. /\ Phase(w) \in {"done", "skipped", "failed"} /\ ~Replacing(w)
      /\ rsGate' = IF rsGate = w THEN RsNone ELSE rsGate
      /\ UNCHANGED <<rsInput, rsLegacy, rsTorn, rsDir, rsCatalog, rsBlobs>>
  BY Zenon DEF FinishPublish, Replacing, rsStore
<1>t. /\ Job(w).id \in RsId /\ rsWork \in [RsWorker -> JobRecord]
      /\ rsInput' \in [RsId -> Nat] /\ rsLegacy' \in [RsId -> Nat] /\ rsProcessed \in [RsId -> Nat]
  BY Zenon, <1>a DEF RsInv, RsTypes, JobsNamed, Phase, Job
<1>1. PICK j \in JobRecord :
        /\ rsWork' = [rsWork EXCEPT ![w] = j]
        /\ j.phase \in {"idle", "leave", "poll"} /\ (j.phase # "idle" => j.id = Job(w).id)
  <2>1. CASE Job(w).kind = "reconstruct"
    <3>1. PICK phase \in {"leave", "poll"} :
            rsWork' = [rsWork EXCEPT ![w] = RsJob(phase, "reconstruct", Job(w).id)]
      BY Zenon, <2>1 DEF FinishPublish
    <3>p. /\ phase \in RsPhase /\ "reconstruct" \in {"none", "scan", "reconstruct", "refresh"}
          /\ Job(w).id \in RsId \cup {RsNone}
      BY Zenon, <1>t DEF RsPhase
    <3>2. PICK j \in JobRecord : j = RsJob(phase, "reconstruct", Job(w).id)
      BY Zenon, <3>p, JobType
    <3>3. j.phase = phase /\ j.id = Job(w).id
      BY <3>p, <3>2, JobType
    <3> QED
      BY Zenon, <3>1, <3>2, <3>3
  <2>2. CASE Job(w).kind # "reconstruct"
    BY Zenon, <2>2, IdleJob DEF FinishPublish
  <2> QED
    BY Zenon, <2>1, <2>2
<1>2. /\ rsProcessed' \in [RsId -> Nat]
      /\ \A id \in RsId : HasFrames(rsProcessed'[id]) =>
                            HasFrames(rsProcessed[id]) \/ rsCatalog[id] # RsNone
  <2>1. CASE Remembered(w)
    <3>1. rsCatalog[Job(w).id] # RsNone /\ Job(w).result \in RsResult
      BY Zenon, <2>1 DEF RsInv, DoneIsCatalogued, Remembered, JobsNamed, Publishing, Phase, Job
    <3>2. rsProcessed' = [rsProcessed EXCEPT ![Job(w).id] = Job(w).result.facts]
      BY Zenon, <2>1 DEF FinishPublish
    <3> QED
      BY Zenon, <1>t, <3>1, <3>2 DEF RsResult
  <2>2. CASE ~Remembered(w)
    BY Zenon, <1>t, <2>2 DEF FinishPublish
  <2> QED
    BY Zenon, <2>1, <2>2
<1> QED
  BY Zenon, <1>a, <1>t, <1>1, <1>2, WorkKeeps DEF Publishing

\* The reconstruction is no longer active.
LEMMA LeaveKeeps ==
  ASSUME RsInv, NEW w \in RsWorker, Leave(w)
  PROVE  RsInv'
<1>a. /\ Phase(w) = "leave" /\ ~Replacing(w) /\ rsWork' = [rsWork EXCEPT ![w] = RsIdle]
      /\ UNCHANGED <<rsInput, rsLegacy, rsGate, rsProcessed, rsTorn, rsDir, rsCatalog, rsBlobs>>
  BY Zenon DEF Leave, Replacing, rsStore
<1>t. /\ rsWork \in [RsWorker -> JobRecord] /\ rsInput' \in [RsId -> Nat]
      /\ rsLegacy' \in [RsId -> Nat] /\ rsProcessed' \in [RsId -> Nat]
  BY Zenon, <1>a DEF RsInv, RsTypes
<1> QED
  BY Zenon, <1>a, <1>t, IdleJob, WorkKeeps DEF Publishing

\* The record directory goes aside.  When another worker is replacing the
\* same record the two have met; otherwise what goes aside is what the
\* catalogue holds.
LEMMA OutKeeps ==
  ASSUME RsInv, NEW w \in RsWorker, PublishOut(w)
  PROVE  RsInv'
<1>1. PICK id : id = Job(w).id
  BY Zenon
<1>a. /\ Phase(w) = "out" /\ ~Replacing(w)
      /\ rsWork' = [rsWork EXCEPT ![w].phase = "in", ![w].previous = rsDir[id]]
      /\ rsDir' = [rsDir EXCEPT ![id] = RsNone]
      /\ rsTorn' = rsTorn \cup {i \in {id} : \E u \in RsWorker : Replacing(u) /\ Job(u).id = i}
      /\ UNCHANGED <<rsInput, rsLegacy, rsGate, rsProcessed, rsCatalog, rsBlobs>>
  BY Zenon, <1>1 DEF PublishOut, Replacing
<1>t. /\ RsTypes /\ id \in RsId /\ Job(w).result \in RsResult /\ rsWork[w] \in JobRecord
      /\ rsWork \in [RsWorker -> JobRecord] /\ rsDir \in [RsId -> RsResult \cup {RsNone}]
  BY Zenon, <1>a, <1>1 DEF RsInv, RsTypes, JobsNamed, Publishing, Phase, Job
<1>2. /\ rsWork' \in [RsWorker -> JobRecord]
      /\ \A u \in RsWorker : u # w => rsWork'[u] = rsWork[u]
      /\ rsWork'[w].phase = "in" /\ rsWork'[w].previous = rsDir[id]
      /\ rsWork'[w].kind = rsWork[w].kind /\ rsWork'[w].id = id
      /\ rsWork'[w].result = rsWork[w].result
  <2>1. PICK j : j = [rsWork[w] EXCEPT !.phase = "in", !.previous = rsDir[id]]
    BY Zenon
  <2>2. /\ j \in JobRecord /\ j.phase = "in" /\ j.previous = rsDir[id] /\ j.kind = rsWork[w].kind
        /\ j.id = id /\ j.result = rsWork[w].result
    BY Zenon, <1>1, <1>t, <2>1 DEF JobRecord, RsPhase, Job
  <2>3. rsWork' = [rsWork EXCEPT ![w] = j]
    BY Zenon, <1>a, <1>t, <2>1
  <2> QED
    BY Zenon, <1>t, <2>2, <2>3
<1>n. /\ rsTorn \subseteq rsTorn' /\ (rsTorn' \subseteq rsTorn \cup {id})
      /\ id \notin rsTorn' => \A u \in RsWorker : Replacing(u) => Job(u).id # id
  BY Zenon, <1>a
<1>r. \A u \in RsWorker : Replacing(u)' <=> Replacing(u) \/ u = w
  BY Zenon, <1>2 DEF Replacing, Phase
<1>o. /\ rsDir'[id] = RsNone /\ rsDir' \in [RsId -> RsResult \cup {RsNone}]
      /\ \A i \in RsId : i # id => rsDir'[i] = rsDir[i]
  BY Zenon, <1>a, <1>t
<1>3. RsTypes'
  BY Zenon, <1>a, <1>2, <1>o, <1>t DEF RsTypes
<1>4. JobsNamed'
  BY <1>1, <1>2, <1>t DEF RsInv, JobsNamed, Job, Publishing
<1>5. LatestExists'
  <2>1. Generations' = Generations
    BY Zenon, <1>a DEF Generations
  <2> QED
    BY Zenon, <2>1 DEF RsInv, LatestExists
<1>6. JobsStocked'
  <2> SUFFICES ASSUME NEW u \in RsWorker
               PROVE  /\ rsWork'[u].phase \in {"out", "in", "commit"} => Stocked(rsWork[u].result)'
                      /\ rsWork'[u].phase \in {"in", "commit"} => Stocked(rsWork[u].previous)'
    BY Zenon DEF JobsStocked, Phase, Replacing, Job
  <2>1. CASE u = w
    <3>1. Stocked(rsWork[w].result)
      BY Zenon, <1>a DEF RsInv, JobsStocked, Phase, Job
    <3>2. Stocked(rsDir[id])
      BY Zenon, <1>t DEF RsInv, PublishedHasBlobs, Stocked
    <3> QED
      BY Zenon, <1>a, <1>2, <2>1, <3>1, <3>2 DEF Stocked, BlobNames
  <2>2. CASE u # w
    <3>1. /\ rsWork[u].phase \in {"out", "in", "commit"} => Stocked(rsWork[u].result)
          /\ rsWork[u].phase \in {"in", "commit"} => Stocked(rsWork[u].previous)
      BY Zenon DEF RsInv, JobsStocked, Phase, Replacing, Job
    <3> QED
      BY Zenon, <1>a, <1>2, <2>2, <3>1 DEF Stocked, BlobNames
  <2> QED
    BY Zenon, <2>1, <2>2
<1>7. OneReplaces'
  BY <1>2, <1>n, <1>r DEF RsInv, OneReplaces, Job
<1>8. AsideAgrees'
  <2> SUFFICES ASSUME NEW u \in RsWorker, Replacing(u)', rsWork'[u].id \notin rsTorn'
               PROVE  /\ Agrees(rsWork[u].id, rsWork[u].previous)'
                      /\ rsDir'[rsWork'[u].id] = IF rsWork'[u].phase = "in" THEN RsNone
                                                 ELSE rsWork'[u].result
    BY Zenon DEF AsideAgrees, Phase, Job
  <2>1. CASE u = w
    <3>1. Agrees(id, rsDir[id])
      BY Zenon, <1>2, <1>n, <1>t, <2>1 DEF RsInv, RecordAgreesWithCatalog, Agrees
    <3> QED
      BY Zenon, <1>a, <1>2, <1>o, <2>1, <3>1 DEF Agrees
  <2>2. CASE u # w
    <3>1. Replacing(u) /\ rsWork'[u] = rsWork[u] /\ rsWork[u].id \notin rsTorn
      BY Zenon, <1>2, <1>n, <1>r, <2>2
    <3>2. rsWork[u].id # id /\ rsWork[u].id \in RsId
      BY Zenon, <1>2, <1>n, <2>2, <3>1 DEF Job, RsInv, JobsNamed, Replacing, Phase
    <3>3. /\ Agrees(rsWork[u].id, rsWork[u].previous)
          /\ rsDir[rsWork[u].id] = IF rsWork[u].phase = "in" THEN RsNone ELSE rsWork[u].result
      BY Zenon, <3>1 DEF RsInv, AsideAgrees, Phase, Job
    <3> QED
      BY Zenon, <1>a, <1>o, <3>1, <3>2, <3>3 DEF Agrees
  <2> QED
    BY Zenon, <2>1, <2>2
<1>9. DoneIsCatalogued' /\ ProcessedIsCatalogued'
  BY Zenon, <1>a, <1>2 DEF RsInv, DoneIsCatalogued, ProcessedIsCatalogued, Phase, Job
<1>10. PublishedHasBlobs'
  BY Zenon, <1>a, <1>o, <1>t DEF RsInv, PublishedHasBlobs, BlobNames
<1>11. RecordAgreesWithCatalog'
  <2> SUFFICES ASSUME NEW i \in RsId, i \notin rsTorn',
                      ~\E u \in RsWorker : Replacing(u)' /\ rsWork'[u].id = i
               PROVE  IF rsDir'[i] = RsNone THEN rsCatalog'[i] = RsNone
                      ELSE rsCatalog'[i] # RsNone /\ rsCatalog'[i].result = rsDir'[i]
    BY Zenon DEF RecordAgreesWithCatalog, Job
  <2>1. i # id /\ i \notin rsTorn /\ ~\E u \in RsWorker : Replacing(u) /\ Job(u).id = i
    BY <1>a, <1>2, <1>n, <1>r DEF Job
  <2> QED
    BY Zenon, <1>a, <1>o, <2>1 DEF RsInv, RecordAgreesWithCatalog
<1>12. ImportsDoNotOverlap'
  BY <1>a, <1>1, <1>2 DEF RsInv, ImportsDoNotOverlap, Phase, Importing, Job
<1> QED
  BY Zenon, <1>3, <1>4, <1>5, <1>6, <1>7, <1>8, <1>9, <1>10, <1>11, <1>12 DEF RsInv

\* The steps of a worker that is replacing a record: it touches that record
\* alone, and nobody else is replacing it unless two publications have met.
LEMMA ReplaceKeeps ==
  ASSUME RsInv, NEW w \in RsWorker, Replacing(w), NEW id, id = Job(w).id,
         NEW phase \in {"commit", "done", "failed"}, StepTo(w, phase),
         rsDir' \in [RsId -> RsResult \cup {RsNone}], rsCatalog' \in [RsId -> RsRow \cup {RsNone}],
         \A i \in RsId : i # id => rsDir'[i] = rsDir[i] /\ rsCatalog'[i] = rsCatalog[i],
         rsCatalog[id] # RsNone \/ phase = "done" => rsCatalog'[id] # RsNone,
         Stocked(rsDir[id])',
         rsCatalog'[id] # rsCatalog[id] => rsCatalog'[id].result = Job(w).result,
         id \notin rsTorn' /\ phase = "commit" =>
           rsDir'[id] = Job(w).result /\ rsCatalog'[id] = rsCatalog[id],
         id \notin rsTorn' /\ phase # "commit" => Agrees(id, rsDir[id])',
         LatestExists', rsTorn \subseteq rsTorn',
         UNCHANGED <<rsInput, rsLegacy, rsGate, rsProcessed, rsBlobs>>
  PROVE  RsInv'
<1>a. UNCHANGED <<rsInput, rsLegacy, rsGate, rsProcessed, rsBlobs>> /\ rsTorn \subseteq rsTorn'
  BY Zenon
<1>t. /\ RsTypes /\ id \in RsId /\ Job(w).result \in RsResult
  BY Zenon DEF RsInv, RsTypes, JobsNamed, Publishing, Replacing, Phase, Job
<1>2. /\ rsWork' \in [RsWorker -> JobRecord]
      /\ \A u \in RsWorker : u # w => rsWork'[u] = rsWork[u]
      /\ rsWork'[w].phase = phase
      /\ rsWork'[w].kind = rsWork[w].kind /\ rsWork'[w].id = rsWork[w].id
      /\ rsWork'[w].result = rsWork[w].result /\ rsWork'[w].previous = rsWork[w].previous
  BY Zenon, <1>t, PhaseStep DEF RsPhase
<1>r. \A u \in RsWorker : Replacing(u)' => Replacing(u)
  BY Zenon, <1>2 DEF Replacing, Phase
<1>i. \A u \in RsWorker : rsWork'[u].id = rsWork[u].id
  BY Zenon, <1>2
<1>o. ASSUME NEW u \in RsWorker, u # w, Replacing(u), rsWork[u].id \notin rsTorn
      PROVE  rsWork[u].id \in RsId /\ rsWork[u].id # id
  BY Zenon, <1>o DEF RsInv, OneReplaces, JobsNamed, Job, Replacing, Phase
<1>3. RsTypes'
  BY Zenon, <1>a, <1>2, <1>t DEF RsTypes
<1>4. JobsNamed'
  BY Zenon, <1>2, <1>t DEF RsInv, JobsNamed, Job, Publishing
<1>6. JobsStocked'
  <2> SUFFICES ASSUME NEW u \in RsWorker
               PROVE  /\ rsWork'[u].phase \in {"out", "in", "commit"} => Stocked(rsWork[u].result)'
                      /\ rsWork'[u].phase \in {"in", "commit"} => Stocked(rsWork[u].previous)'
    BY Zenon DEF JobsStocked, Phase, Replacing, Job
  <2>1. /\ rsWork[u].phase \in {"out", "in", "commit"} => Stocked(rsWork[u].result)
        /\ rsWork[u].phase \in {"in", "commit"} => Stocked(rsWork[u].previous)
    BY Zenon DEF RsInv, JobsStocked, Phase, Replacing, Job
  <2>2. CASE u = w
    BY Zenon, <1>a, <1>2, <2>1, <2>2 DEF Stocked, BlobNames, Replacing, Phase
  <2>3. CASE u # w
    BY Zenon, <1>a, <1>2, <2>1, <2>3 DEF Stocked, BlobNames
  <2> QED
    BY Zenon, <2>2, <2>3
<1>7. OneReplaces'
  BY Zenon, <1>a, <1>i, <1>r DEF RsInv, OneReplaces, Job
<1>8. AsideAgrees'
  <2> SUFFICES ASSUME NEW u \in RsWorker, Replacing(u)', rsWork'[u].id \notin rsTorn'
               PROVE  /\ Agrees(rsWork[u].id, rsWork[u].previous)'
                      /\ rsDir'[rsWork'[u].id] = IF rsWork'[u].phase = "in" THEN RsNone
                                                 ELSE rsWork'[u].result
    BY Zenon DEF AsideAgrees, Phase, Job
  <2>1. Replacing(u) /\ rsWork[u].id \notin rsTorn
    BY Zenon, <1>a, <1>i, <1>r
  <2>2. /\ Agrees(rsWork[u].id, rsWork[u].previous)
        /\ rsDir[rsWork[u].id] = IF rsWork[u].phase = "in" THEN RsNone ELSE rsWork[u].result
    BY Zenon, <2>1 DEF RsInv, AsideAgrees, Phase, Job
  <2>3. CASE u = w
    <3>1. phase = "commit" /\ rsWork[u].id = id
      BY Zenon, <1>2, <2>3 DEF Replacing, Phase, Job
    <3>2. /\ rsDir'[id] = rsWork[u].result /\ rsCatalog'[id] = rsCatalog[id]
          /\ rsWork'[u].phase = "commit" /\ rsWork'[u].id = id
          /\ rsWork'[u].result = rsWork[u].result /\ rsWork'[u].previous = rsWork[u].previous
      BY Zenon, <1>2, <2>1, <2>3, <3>1 DEF Job
    <3>3. Agrees(rsWork[u].id, rsWork[u].previous)'
      BY Zenon, <2>2, <3>1, <3>2 DEF Agrees
    <3> QED
      BY Zenon, <3>2, <3>3
  <2>4. CASE u # w
    <3>1. rsWork'[u] = rsWork[u] /\ rsWork[u].id \in RsId /\ rsWork[u].id # id
      BY Zenon, <1>2, <1>o, <2>1, <2>4
    <3>2. PICK i, q : i = rsWork[u].id /\ q = rsWork[u].previous
      BY Zenon
    <3>3. rsCatalog'[i] = rsCatalog[i] /\ rsDir'[i] = rsDir[i]
      BY Zenon, <3>1, <3>2
    <3>4. Agrees(i, q)'
      BY Zenon, <2>2, <3>2, <3>3 DEF Agrees
    <3> QED
      BY Zenon, <2>2, <3>1, <3>2, <3>3, <3>4
  <2> QED
    BY Zenon, <2>3, <2>4
<1>c. \A i \in RsId : rsCatalog[i] # RsNone => rsCatalog'[i] # RsNone
  BY Zenon
<1>9. DoneIsCatalogued'
  <2> SUFFICES ASSUME NEW u \in RsWorker, rsWork'[u].phase = "done"
               PROVE  rsCatalog'[rsWork'[u].id] # RsNone
    BY Zenon DEF DoneIsCatalogued, Phase, Job
  <2>1. CASE u = w
    BY Zenon, <1>2, <2>1 DEF Job
  <2>2. CASE u # w
    BY Zenon, <1>2, <1>c, <2>2 DEF RsInv, DoneIsCatalogued, JobsNamed, Phase, Job
  <2> QED
    BY Zenon, <2>1, <2>2
<1>10. ProcessedIsCatalogued'
  BY Zenon, <1>a, <1>c DEF RsInv, ProcessedIsCatalogued
<1>11. PublishedHasBlobs'
  <2>1. Stocked(Job(w).result)
    BY Zenon DEF RsInv, JobsStocked, Replacing
  <2>2. Job(w).result # RsNone
    BY Zenon, <1>t, RsAssumption
  <2>3. /\ rsCatalog'[id] # RsNone /\ rsCatalog'[id].result.files # RsNone
             => rsCatalog'[id].result.files \in BlobNames
        /\ rsDir'[id] # RsNone /\ rsDir'[id].files # RsNone => rsDir'[id].files \in BlobNames'
    BY Zenon, <1>t, <2>1, <2>2 DEF RsInv, PublishedHasBlobs, Stocked
  <2>4. BlobNames' = BlobNames
    BY Zenon, <1>a DEF BlobNames
  <2> QED
    BY Zenon, <2>3, <2>4 DEF RsInv, PublishedHasBlobs
<1>12. RecordAgreesWithCatalog'
  <2> SUFFICES ASSUME NEW i \in RsId, i \notin rsTorn',
                      ~\E u \in RsWorker : Replacing(u)' /\ rsWork'[u].id = i
               PROVE  IF rsDir'[i] = RsNone THEN rsCatalog'[i] = RsNone
                      ELSE rsCatalog'[i] # RsNone /\ rsCatalog'[i].result = rsDir'[i]
    BY Zenon DEF RecordAgreesWithCatalog, Job
  <2>1. CASE i = id
    <3>1. phase # "commit"
      BY Zenon, <1>2, <2>1 DEF Replacing, Phase, Job
    <3> QED
      BY Zenon, <1>a, <2>1, <3>1 DEF Agrees
  <2>2. CASE i # id
    <3>1. i \notin rsTorn /\ ~\E u \in RsWorker : Replacing(u) /\ Job(u).id = i
      BY Zenon, <1>a, <1>2, <2>2 DEF Job, Replacing, Phase
    <3> QED
      BY <2>2, <3>1 DEF RsInv, RecordAgreesWithCatalog
  <2> QED
    BY Zenon, <2>1, <2>2
<1>13. ImportsDoNotOverlap'
  BY Zenon, <1>a, <1>2 DEF RsInv, ImportsDoNotOverlap, Phase, Importing, Job, Replacing
<1> QED
  BY Zenon, <1>3, <1>4, <1>6, <1>7, <1>8, <1>9, <1>10, <1>11, <1>12, <1>13 DEF RsInv

\* The new record takes its place, unless there is one.
LEMMA InKeeps ==
  ASSUME RsInv, NEW w \in RsWorker, PublishIn(w)
  PROVE  RsInv'
<1>1. PICK id : id = Job(w).id
  BY Zenon
<1>a. /\ Phase(w) = "in" /\ Replacing(w)
      /\ UNCHANGED <<rsInput, rsLegacy, rsGate, rsProcessed, rsTorn, rsCatalog, rsBlobs>>
  BY Zenon DEF PublishIn, Replacing
<1>t. /\ id \in RsId /\ Job(w).result \in RsResult
      /\ rsDir \in [RsId -> RsResult \cup {RsNone}] /\ rsCatalog' \in [RsId -> RsRow \cup {RsNone}]
  BY Zenon, <1>a, <1>1 DEF RsInv, RsTypes, JobsNamed, Publishing, Phase, Job
<1>l. LatestExists'
  <2>1. Generations' = Generations
    BY Zenon, <1>a DEF Generations
  <2> QED
    BY Zenon, <2>1 DEF RsInv, LatestExists
<1>2. CASE rsDir' = [rsDir EXCEPT ![id] = Job(w).result] /\ StepTo(w, "commit")
  <2>1. Stocked(Job(w).result)
    BY Zenon, <1>a DEF RsInv, JobsStocked
  <2>2. Stocked(rsDir[id])'
    <3>1. rsDir'[id] = Job(w).result
      BY Zenon, <1>2, <1>t
    <3> QED
      BY Zenon, <1>a, <2>1, <3>1 DEF Stocked, BlobNames
  <2> QED
    BY Zenon, <1>a, <1>1, <1>l, <1>t, <1>2, <2>2, ReplaceKeeps
<1>3. CASE rsDir[id] # RsNone /\ UNCHANGED rsDir /\ StepTo(w, "failed")
  <2>1. Stocked(rsDir[id])'
    BY Zenon, <1>a, <1>t, <1>3 DEF RsInv, PublishedHasBlobs, Stocked, BlobNames
  <2>2. id \in rsTorn
    BY Zenon, <1>a, <1>1, <1>3 DEF RsInv, AsideAgrees
  <2> QED
    BY Zenon, <1>a, <1>1, <1>l, <1>t, <1>3, <2>1, <2>2, ReplaceKeeps
<1> QED
  BY Zenon, <1>1, <1>2, <1>3 DEF PublishIn

\* A publication takes a generation above all others, so a latest one exists.
LEMMA NextIsLatest ==
  ASSUME RsTypes, LatestExists
  PROVE  NextGeneration \in Nat /\ \A g \in Generations : g <= NextGeneration
<1>1. Generations \subseteq Nat
  BY Zenon DEF RsTypes, Generations, RsRow
<1>2. CASE Generations = {}
  BY <1>2 DEF NextGeneration
<1>3. CASE Generations # {}
  <2>1. PICK g \in Generations : g = CHOOSE x \in Generations : \A h \in Generations : h <= x
    BY Zenon, <1>3 DEF LatestExists
  <2>2. \A h \in Generations : h <= g
    BY Zenon, <1>3, <2>1 DEF LatestExists
  <2>3. NextGeneration = 1 + g
    BY Zenon, <1>3, <2>1 DEF NextGeneration
  <2>4. g \in Nat
    BY Zenon, <1>1
  <2>5. ASSUME NEW h \in Generations PROVE h <= 1 + g
    <3>1. h \in Nat /\ h <= g
      BY Zenon, <1>1, <2>2
    <3> QED
      BY <2>4, <3>1
  <2> QED
    BY <2>3, <2>4, <2>5
<1> QED
  BY Zenon, <1>2, <1>3

\* The catalogue takes the result in.
LEMMA CommitKeeps ==
  ASSUME RsInv, NEW w \in RsWorker, PublishCommit(w)
  PROVE  RsInv'
<1>1. PICK id : id = Job(w).id
  BY Zenon
<1>a. /\ Phase(w) = "commit" /\ Replacing(w) /\ StepTo(w, "done")
      /\ rsCatalog' = [rsCatalog EXCEPT ![id] = [result |-> Job(w).result, generation |-> NextGeneration]]
      /\ UNCHANGED <<rsInput, rsLegacy, rsGate, rsProcessed, rsTorn, rsDir, rsBlobs>>
  BY Zenon, <1>1 DEF PublishCommit, Replacing
<1>t. /\ id \in RsId /\ Job(w).result \in RsResult /\ RsTypes
      /\ rsDir' \in [RsId -> RsResult \cup {RsNone}] /\ rsCatalog \in [RsId -> RsRow \cup {RsNone}]
  BY Zenon, <1>a, <1>1 DEF RsInv, RsTypes, JobsNamed, Publishing, Phase, Job
<1>g. NextGeneration \in Nat /\ \A g \in Generations : g <= NextGeneration
  BY Zenon, NextIsLatest DEF RsInv
<1>2. PICK row : row = [result |-> Job(w).result, generation |-> NextGeneration]
  BY Zenon
<1>3. /\ row \in RsRow /\ row.result = Job(w).result /\ row.generation = NextGeneration
      /\ row # RsNone /\ Job(w).result # RsNone
  BY <1>2, <1>g, <1>t, RsAssumption DEF RsRow
<1>4. /\ rsCatalog' \in [RsId -> RsRow \cup {RsNone}] /\ rsCatalog'[id] = row
      /\ \A i \in RsId : i # id => rsCatalog'[i] = rsCatalog[i]
  BY Zenon, <1>a, <1>t, <1>2, <1>3
<1>5. LatestExists'
  <2>1. Generations' \subseteq Generations \cup {NextGeneration} /\ NextGeneration \in Generations'
    BY <1>3, <1>4, <1>t DEF Generations
  <2> QED
    BY <1>g, <2>1 DEF LatestExists
<1>6. Stocked(rsDir[id])'
  BY Zenon, <1>a, <1>t DEF RsInv, PublishedHasBlobs, Stocked, BlobNames
<1>7. id \notin rsTorn => Agrees(id, rsDir[id])'
  <2>1. id \notin rsTorn => rsDir[id] = Job(w).result
    BY Zenon, <1>a, <1>1 DEF RsInv, AsideAgrees
  <2> QED
    BY Zenon, <1>a, <1>3, <1>4, <2>1 DEF Agrees
<1> QED
  BY Zenon, <1>a, <1>t, <1>1, <1>3, <1>4, <1>5, <1>6, <1>7, ReplaceKeeps

\* A failed rename or transaction puts the previous record back, or leaves a
\* record that is known to be torn.
LEMMA FailsKeeps ==
  ASSUME RsInv, NEW w \in RsWorker, NEW rollback \in {"restored", "lost", "kept"}, PublishFails(w, rollback)
  PROVE  RsInv'
<1>1. PICK id : id = Job(w).id
  BY Zenon
<1>a. /\ Replacing(w) /\ StepTo(w, "failed") /\ rsTorn \subseteq rsTorn'
      /\ rollback = "restored" \/ id \in rsTorn'
      /\ UNCHANGED <<rsInput, rsLegacy, rsGate, rsProcessed, rsCatalog, rsBlobs>>
  BY Zenon, <1>1 DEF PublishFails
<1>b. PICK left : /\ left = IF rollback = "restored" THEN Job(w).previous
                            ELSE IF rollback = "lost" THEN RsNone ELSE rsDir[id]
                  /\ rsDir' = [rsDir EXCEPT ![id] = left]
  BY Zenon, <1>1 DEF PublishFails, Restored
<1>t. /\ id \in RsId /\ Job(w).previous \in RsResult \cup {RsNone}
      /\ rsDir \in [RsId -> RsResult \cup {RsNone}] /\ rsCatalog' \in [RsId -> RsRow \cup {RsNone}]
  BY Zenon, <1>a, <1>1 DEF RsInv, RsTypes, JobsNamed, Replacing, Phase, Job, JobRecord
<1>2. /\ left \in RsResult \cup {RsNone} /\ rsDir'[id] = left
      /\ \A i \in RsId : i # id => rsDir'[i] = rsDir[i]
  BY Zenon, <1>b, <1>t
<1>3. LatestExists'
  <2>1. Generations' = Generations
    BY Zenon, <1>a DEF Generations
  <2> QED
    BY Zenon, <2>1 DEF RsInv, LatestExists
<1>4. Stocked(rsDir[id])'
  <2>1. Stocked(Job(w).previous)
    BY Zenon, <1>a DEF RsInv, JobsStocked
  <2>2. Stocked(rsDir[id])
    BY Zenon, <1>t DEF RsInv, PublishedHasBlobs, Stocked
  <2>3. Stocked(left)
    BY Zenon, <1>b, <2>1, <2>2 DEF Stocked
  <2> QED
    BY Zenon, <1>a, <1>2, <2>3 DEF Stocked, BlobNames
<1>5. id \notin rsTorn' => Agrees(id, rsDir[id])'
  <2>1. id \notin rsTorn => Agrees(id, Job(w).previous)
    BY Zenon, <1>a, <1>1 DEF RsInv, AsideAgrees
  <2>2. id \notin rsTorn' => left = Job(w).previous /\ id \notin rsTorn
    BY Zenon, <1>a, <1>b
  <2> QED
    BY Zenon, <1>a, <1>2, <2>1, <2>2 DEF Agrees
<1>6. rsDir' \in [RsId -> RsResult \cup {RsNone}]
  BY Zenon, <1>b, <1>t, <1>2
<1> QED
  BY Zenon, <1>a, <1>t, <1>1, <1>2, <1>3, <1>4, <1>5, <1>6, ReplaceKeeps

\* The legacy database and the writers of the input roots touch no result.
LEMMA InputsKeep ==
  ASSUME RsInv, rsInput' \in [RsId -> Nat], rsLegacy' \in [RsId -> Nat],
         UNCHANGED <<rsGate, rsProcessed, rsWork, rsTorn, rsDir, rsCatalog, rsBlobs>>
  PROVE  RsInv'
<1>1. RsTypes' /\ JobsNamed'
  BY Zenon DEF RsInv, RsTypes, JobsNamed, Job
<1>2. LatestExists'
  <2>1. Generations' = Generations
    BY Zenon DEF Generations
  <2> QED
    BY Zenon, <2>1 DEF RsInv, LatestExists
<1>3. JobsStocked' /\ OneReplaces' /\ AsideAgrees'
  BY Zenon DEF RsInv, JobsStocked, OneReplaces, AsideAgrees, Stocked, BlobNames, Replacing, Phase, Job, Agrees
<1>4. DoneIsCatalogued' /\ ProcessedIsCatalogued' /\ PublishedHasBlobs'
  BY Zenon DEF RsInv, DoneIsCatalogued, ProcessedIsCatalogued, PublishedHasBlobs, BlobNames, Phase, Job
<1>5. RecordAgreesWithCatalog' /\ ImportsDoNotOverlap'
  BY Zenon DEF RsInv, RecordAgreesWithCatalog, ImportsDoNotOverlap, Importing, Replacing, Phase, Job
<1> QED
  BY Zenon, <1>1, <1>2, <1>3, <1>4, <1>5 DEF RsInv

\* The process dies: a record that was being replaced counts as torn, the
\* others are as the catalogue has them.
LEMMA CrashKeeps ==
  ASSUME RsInv, RsCrash
  PROVE  RsInv'
<1>a. /\ rsTorn' = rsTorn \cup {i \in RsId : \E w \in RsWorker : Replacing(w) /\ Job(w).id = i}
      /\ rsProcessed' = [i \in RsId |-> 0]
      /\ rsWork' = [w \in RsWorker |-> RsIdle]
      /\ UNCHANGED <<rsInput, rsLegacy, rsDir, rsCatalog, rsBlobs>>
  BY Zenon DEF RsCrash, rsStore
<1>1. \A w \in RsWorker : rsWork'[w] = RsIdle
  BY Zenon, <1>a
<1>2. RsTypes'
  BY Zenon, <1>a, IdleJob DEF RsInv, RsTypes
<1>3. LatestExists'
  <2>1. Generations' = Generations
    BY Zenon, <1>a DEF Generations
  <2> QED
    BY Zenon, <2>1 DEF RsInv, LatestExists
<1>4. /\ JobsNamed' /\ JobsStocked' /\ OneReplaces' /\ AsideAgrees' /\ DoneIsCatalogued'
      /\ ImportsDoNotOverlap'
  BY Zenon, <1>1, IdleJob DEF JobsNamed, Job, Phase, Publishing, JobsStocked, Replacing, OneReplaces,
     AsideAgrees, DoneIsCatalogued, ImportsDoNotOverlap
<1>5. ProcessedIsCatalogued' /\ PublishedHasBlobs'
  <2>1. ProcessedIsCatalogued'
    BY <1>a DEF ProcessedIsCatalogued, HasFrames
  <2>2. PublishedHasBlobs'
    BY Zenon, <1>a DEF RsInv, PublishedHasBlobs, BlobNames
  <2> QED
    BY Zenon, <2>1, <2>2
<1>6. RecordAgreesWithCatalog'
  BY Zenon, <1>a DEF RsInv, RecordAgreesWithCatalog
<1> QED
  BY Zenon, <1>2, <1>3, <1>4, <1>5, <1>6 DEF RsInv

-----------------------------------------------------------------------------
(* The theorem *)

\* Every step of the store keeps the invariant.
LEMMA RsStep == RsInv /\ [RsNext]_rsVars => RsInv'
<1> SUFFICES ASSUME RsInv, [RsNext]_rsVars PROVE RsInv'
  BY Zenon
<1>t. rsInput \in [RsId -> Nat] /\ rsLegacy \in [RsId -> Nat]
  BY Zenon DEF RsInv, RsTypes
<1>1. ASSUME NEW id \in RsId, LegacyChanges(id) \/ InputChanges(id) PROVE RsInv'
  <2>1. /\ rsInput' \in [RsId -> Nat] /\ rsLegacy' \in [RsId -> Nat]
        /\ UNCHANGED <<rsGate, rsProcessed, rsWork, rsTorn, rsDir, rsCatalog, rsBlobs>>
    BY <1>1, <1>t DEF LegacyChanges, InputChanges, rsStore
  <2> QED
    BY Zenon, <2>1, InputsKeep
<1>2. CASE UNCHANGED rsVars
  BY Zenon, <1>t, <1>2, InputsKeep DEF rsVars
<1> QED
  BY Zenon, <1>1, <1>2, ScanKeeps, ReconstructKeeps, RefreshKeeps, MaterializeKeeps, ProcessSingleKeeps,
     DigestKeeps, CopyKeeps, OutKeeps, InKeeps, CommitKeeps, FailsKeeps, FinishKeeps, PollKeeps,
     LeaveKeeps, CrashKeeps DEF RsNext

\* In every reachable state, whoever publishes, meets whom and is cut short
\* where: what the catalogue or a record refers to is in the store; record and
\* catalogue agree on every inspection that nobody is replacing and whose
\* publications have neither met nor been cut short nor failed without the
\* previous record being put back; imports exclude each other; and an input the
\* scan passes over is in the catalogue.
THEOREM StoreAlwaysSafe == RsSpec => []StoreSafety
<1>1. RsInv => StoreSafety
  BY Zenon DEF RsInv, StoreSafety, RememberedIsCatalogued, ProcessedIsCatalogued
<1> QED
  BY <1>1, RsInitInv, RsStep, PTL DEF RsSpec

-----------------------------------------------------------------------------
(***************************************************************************)
(* DefectReview, for any flows, defects, sources, types and detections,    *)
(* and any number of requests and failures.                                *)
(***************************************************************************)

DefectRow == [there : {TRUE}, insp : Insp, source : DrSource, active : BOOLEAN,
              type : DefectType, review : Status, stamp : Nat]

\* A row belongs to the inspection of its id, while its record exists, and is
\* superseded only when it was reviewed.
RowOK(d, row) ==
  row \in DefectRow =>
    /\ row.insp = d[1] /\ row.insp \in drInsp
    /\ ~row.active => row.review # "pending"

\* The request under the lock: a review finds its row active or gone, and an
\* ingest that could read has found what it will skip.
LaneOK ==
  /\ drLane.at \in {"free", "review", "ingest"}
  /\ drLane.at = "review" =>
       /\ drLane.d \in DefectId /\ drLane.status \in Status /\ drLane.type \in DefectType
       /\ drRows[drLane.d] \in DefectRow => drRows[drLane.d].active
  /\ drLane.at = "ingest" =>
       /\ drLane \in [at : {"ingest"}, i : Insp, todo : SUBSET Detection,
                      existing : SUBSET Detection]
       /\ drLane.i \notin drBlind =>
            \A x \in drLane.todo : x \notin drLane.existing => drFound[<<drLane.i, x>>] = 0

FoundOnce == \A i \in Insp, x \in Detection : i \notin drBlind => drFound[<<i, x>>] <= 1

ReviewInv ==
  /\ drInsp \subseteq Insp
  /\ drRows \in [DefectId -> {NoRow} \cup DefectRow]
  /\ \A d \in DefectId : RowOK(d, drRows[d])
  /\ drFound \in [Insp \X Detection -> Nat]
  /\ FoundOnce
  /\ LaneOK

\* A row that is there is a defect's.
LEMMA RowThere ==
  ASSUME NEW row \in {NoRow} \cup DefectRow
  PROVE  (row.there <=> row \in DefectRow) /\ (row \in DefectRow => row.there = TRUE)
<1>1. ~NoRow.there
  BY Zenon DEF NoRow
<1>2. \A r \in DefectRow : r.there = TRUE
  BY Zenon DEF DefectRow
<1>3. QED
  BY Zenon, <1>1, <1>2

\* upsert_imported_production_defect: a reviewed row keeps its decision, its
\* classification and its stamp.
LEMMA UpsertedRow ==
  ASSUME NEW row \in {NoRow} \cup DefectRow, NEW i \in Insp, NEW source \in DrSource,
         NEW type \in DefectType, NEW p, p = Upserted(row, i, source, type)
  PROVE  /\ p \in DefectRow /\ p.insp = i /\ p.active
         /\ row \in DefectRow /\ row.review # "pending" =>
              p.review = row.review /\ p.type = row.type /\ p.stamp = row.stamp
<1> DEFINE t == IF row.there /\ row.review # "pending" THEN row.type ELSE type
           r == IF row.there THEN row.review ELSE "pending"
           s == IF row.there THEN row.stamp ELSE 0
           u == [there |-> TRUE, insp |-> i, source |-> source, active |-> TRUE,
                 type |-> t, review |-> r, stamp |-> s]
<1>1. row.there => row \in DefectRow
  BY Zenon, RowThere
<1>2. row \in DefectRow => /\ row.there = TRUE /\ row.type \in DefectType
                           /\ row.review \in Status /\ row.stamp \in Nat
  BY Zenon DEF DefectRow
<1>3. t \in DefectType /\ r \in Status /\ s \in Nat
  <2>1. "pending" \in Status /\ 0 \in Nat
    BY Zenon DEF Status
  <2>2. QED
    BY Zenon, <1>1, <1>2, <2>1
<1>4. row \in DefectRow /\ row.review # "pending" => r = row.review /\ t = row.type /\ s = row.stamp
  BY Zenon, <1>2
<1>5. p = u
  BY Zenon DEF Upserted
<1> HIDE DEF t, r, s
<1>6. /\ u \in DefectRow /\ u.insp = i /\ u.active = TRUE
      /\ u.review = r /\ u.type = t /\ u.stamp = s
  BY Zenon, <1>3 DEF DefectRow
<1> HIDE DEF u
<1>7. QED
  BY Zenon, <1>4, <1>5, <1>6

\* What a batch does to the rows it does not retain.
LEMMA ReplacedRow ==
  ASSUME NEW row \in {NoRow} \cup DefectRow, NEW i, NEW source,
         NEW p, p = Replaced(row, i, source)
  PROVE  /\ p \in {NoRow} \cup DefectRow
         /\ p \in DefectRow => /\ row \in DefectRow /\ p.insp = row.insp
                               /\ p.review = row.review
                               /\ ~p.active => ~row.active \/ row.review # "pending"
         /\ row \in DefectRow /\ row.review # "pending" =>
              /\ p \in DefectRow /\ p.review = row.review /\ p.type = row.type
              /\ p.stamp = row.stamp
<1> DEFINE e == [row EXCEPT !.active = FALSE]
<1>1. NoRow \notin DefectRow
  <2>1. ~NoRow.there /\ \A r \in DefectRow : r.there = TRUE
    BY Zenon DEF NoRow, DefectRow
  <2>2. QED
    BY Zenon, <2>1
<1>2. \/ p = NoRow /\ row.review = "pending"
      \/ p = e /\ row.there /\ row.review # "pending"
      \/ p = row
  BY Zenon DEF Replaced
<1>3. row \in DefectRow => /\ e \in DefectRow /\ e.insp = row.insp /\ e.review = row.review
                           /\ e.type = row.type /\ e.stamp = row.stamp
  BY Zenon DEF DefectRow
<1> HIDE DEF e
<1>4. CASE p = NoRow /\ row.review = "pending"
  BY Zenon, <1>1, <1>4
<1>5. CASE p = e /\ row.there /\ row.review # "pending"
  <2>1. row \in DefectRow
    BY Zenon, <1>5, RowThere
  <2>2. QED
    BY Zenon, <1>3, <1>5, <2>1
<1>6. CASE p = row
  BY Zenon, <1>6
<1>7. QED
  BY Zenon, <1>2, <1>4, <1>5, <1>6

\* A step that leaves the rows as they are leaves the decisions.
LEMMA RowsLeft ==
  ASSUME drRows' = drRows
  PROVE  DecisionKept
  BY Zenon DEF DecisionKept

\* An import.  It runs with the lock free, so no request is under it.
LEMMA ImportBatchKeeps ==
  ASSUME ReviewInv, NEW ref, NEW source \in DrSource, NEW type \in DefectType,
         NEW numbers \in SUBSET DefectNo, NEW replace \in BOOLEAN,
         ImportBatch(ref, source, type, numbers, replace)
  PROVE  ReviewInv' /\ DecisionKept
<1> DEFINE i == SteelFlowFor(ref)
           ids == {<<i, n>> : n \in numbers}
           New(d) == IF d \in ids THEN Upserted(drRows[d], i, source, type)
                     ELSE IF replace THEN Replaced(drRows[d], i, source) ELSE drRows[d]
<1>t. /\ drInsp \subseteq Insp /\ drRows \in [DefectId -> {NoRow} \cup DefectRow]
      /\ \A d \in DefectId : RowOK(d, drRows[d])
      /\ drFound \in [Insp \X Detection -> Nat] /\ FoundOnce /\ drLane.at = "free"
  BY Zenon DEF ReviewInv, ImportBatch, DrBegin
<1>u. /\ UNCHANGED <<drInsp, drFound, drLane, drBlind>> /\ i \in drInsp
      /\ drRows' = Imported(i, source, type, ids, replace)
  BY Zenon DEF ImportBatch
<1>i. i \in Insp
  BY Zenon, <1>t, <1>u
<1>1. i \in Insp /\ ids \subseteq DefectId /\ \A d \in ids : d[1] = i
  BY <1>t, <1>u DEF DefectId
<1>2. drRows' = drRows \/ drRows' = [d \in DefectId |-> New(d)]
  BY Zenon, <1>u DEF Imported
<1>3. ASSUME NEW d \in DefectId, NEW n, n = New(d)
      PROVE  /\ n \in {NoRow} \cup DefectRow /\ RowOK(d, n)
             /\ drRows[d] \in DefectRow /\ drRows[d].review # "pending" =>
                  /\ n \in DefectRow /\ n.review = drRows[d].review
                  /\ n.type = drRows[d].type /\ n.stamp = drRows[d].stamp
  <2>r. drRows[d] \in {NoRow} \cup DefectRow /\ RowOK(d, drRows[d])
    BY Zenon, <1>t
  <2>1. CASE d \in ids
    <3>1. n = Upserted(drRows[d], i, source, type)
      BY Zenon, <1>3, <2>1
    <3>2. /\ n \in DefectRow /\ n.insp = i /\ n.active
          /\ drRows[d] \in DefectRow /\ drRows[d].review # "pending" =>
               n.review = drRows[d].review /\ n.type = drRows[d].type /\ n.stamp = drRows[d].stamp
      BY <1>i, <2>r, <3>1, UpsertedRow
    <3>3. RowOK(d, n)
      BY Zenon, <1>1, <1>u, <2>1, <3>2 DEF RowOK
    <3>4. QED
      BY Zenon, <3>2, <3>3
  <2>2. CASE d \notin ids /\ replace
    <3>1. n = Replaced(drRows[d], i, source)
      BY Zenon, <1>3, <2>2
    <3>2. /\ n \in {NoRow} \cup DefectRow
          /\ n \in DefectRow => /\ drRows[d] \in DefectRow /\ n.insp = drRows[d].insp
                                /\ n.review = drRows[d].review
                                /\ ~n.active => ~drRows[d].active \/ drRows[d].review # "pending"
          /\ drRows[d] \in DefectRow /\ drRows[d].review # "pending" =>
               /\ n \in DefectRow /\ n.review = drRows[d].review /\ n.type = drRows[d].type
               /\ n.stamp = drRows[d].stamp
      BY <2>r, <3>1, ReplacedRow
    <3>3. RowOK(d, n)
      BY Zenon, <2>r, <3>2 DEF RowOK
    <3>4. QED
      BY Zenon, <3>2, <3>3
  <2>3. CASE d \notin ids /\ ~replace
    <3>1. n = drRows[d]
      BY Zenon, <1>3, <2>3
    <3>2. QED
      BY Zenon, <2>r, <3>1
  <2>4. QED
    BY Zenon, <2>1, <2>2, <2>3
<1> HIDE DEF New, ids
<1>4. CASE drRows' = drRows
  <2>1. LaneOK' /\ FoundOnce'
    BY Zenon, <1>4, <1>t, <1>u DEF LaneOK, FoundOnce
  <2>2. \A d \in DefectId : RowOK(d, drRows[d])'
    BY Zenon, <1>4, <1>t, <1>u DEF RowOK
  <2>3. QED
    BY Zenon, <1>4, <1>t, <1>u, <2>1, <2>2, RowsLeft DEF ReviewInv
<1>5. CASE drRows' = [d \in DefectId |-> New(d)]
  <2>1. \A d \in DefectId : drRows'[d] = New(d)
    BY Zenon, <1>5
  <2>2. drRows' \in [DefectId -> {NoRow} \cup DefectRow]
    BY Zenon, <1>3, <1>5
  <2>3. \A d \in DefectId : RowOK(d, drRows[d])'
    BY Zenon, <1>3, <1>u, <2>1 DEF RowOK
  <2>4. LaneOK' /\ FoundOnce'
    BY Zenon, <1>t, <1>u DEF LaneOK, FoundOnce
  <2>5. DecisionKept
    <3>1. ASSUME NEW d \in DefectId, drRows[d].there, drRows[d].review # "pending"
          PROVE  /\ drRows'[d].there /\ drRows'[d].review = drRows[d].review
                 /\ drRows'[d].type = drRows[d].type
      <4>1. drRows[d] \in DefectRow
        BY Zenon, <1>t, <3>1, RowThere
      <4>2. /\ drRows'[d] \in DefectRow /\ drRows'[d].review = drRows[d].review
            /\ drRows'[d].type = drRows[d].type
        BY Zenon, <1>3, <2>1, <3>1, <4>1
      <4>3. QED
        BY Zenon, <2>2, <4>2, RowThere
    <3>2. QED
      BY Zenon, <3>1 DEF DecisionKept
  <2>6. QED
    BY Zenon, <1>t, <1>u, <2>2, <2>3, <2>4, <2>5 DEF ReviewInv
<1>6. QED
  BY Zenon, <1>2, <1>4, <1>5

\* A step that touches neither rows nor detections nor inspections.
LEMMA LaneMoves ==
  ASSUME ReviewInv, UNCHANGED <<drInsp, drRows, drFound>>, drBlind \subseteq drBlind', LaneOK'
  PROVE  ReviewInv' /\ DecisionKept
<1>1. \A d \in DefectId : RowOK(d, drRows[d])'
  BY Zenon DEF ReviewInv, RowOK
<1>2. FoundOnce'
  BY Zenon DEF ReviewInv, FoundOnce
<1>3. QED
  BY Zenon, <1>1, <1>2, RowsLeft DEF ReviewInv

\* A lane that is let go.
LEMMA LaneFree ==
  ASSUME drLane' = Unlocked
  PROVE  LaneOK'
  BY Zenon DEF LaneOK, Unlocked

\* A review reads its row.
LEMMA ReviewReadKeeps ==
  ASSUME ReviewInv, NEW d \in DefectId, NEW status \in Status, NEW type \in DefectType,
         ReviewRead(d, status, type)
  PROVE  ReviewInv' /\ DecisionKept
<1>1. /\ UNCHANGED <<drInsp, drRows, drFound, drBlind>> /\ drRows[d].active
      /\ drLane' = [at |-> "review", d |-> d, status |-> status, type |-> type]
  BY Zenon DEF ReviewRead, Reviewable
<1>2. drLane'.at = "review" /\ drLane'.d = d /\ drLane'.status = status /\ drLane'.type = type
  BY Zenon, <1>1
<1>3. LaneOK'
  BY Zenon, <1>1, <1>2 DEF LaneOK
<1>4. QED
  BY Zenon, <1>1, <1>3, LaneMoves

\* The review is written: the row, if it is still there, is active.
LEMMA ReviewWriteKeeps ==
  ASSUME ReviewInv, ReviewWrite
  PROVE  ReviewInv' /\ DecisionKept
<1> DEFINE d == drLane.d
           s == drRows[d].stamp + 1
           r == [drRows[d] EXCEPT !.review = drLane.status, !.type = drLane.type, !.stamp = s]
<1>t. /\ drInsp \subseteq Insp /\ drRows \in [DefectId -> {NoRow} \cup DefectRow]
      /\ \A x \in DefectId : RowOK(x, drRows[x])
      /\ drFound \in [Insp \X Detection -> Nat] /\ FoundOnce
      /\ d \in DefectId /\ drLane.status \in Status /\ drLane.type \in DefectType
      /\ drRows[d] \in DefectRow => drRows[d].active
  BY Zenon DEF ReviewInv, ReviewWrite, LaneOK
<1>u. /\ UNCHANGED <<drInsp, drFound, drBlind>> /\ drLane' = Unlocked
  BY Zenon DEF ReviewWrite
<1>l. LaneOK'
  BY Zenon, <1>u, LaneFree
<1>1. CASE ~drRows[d].there
  <2>1. drRows' = drRows
    BY Zenon, <1>1 DEF ReviewWrite
  <2>2. QED
    BY Zenon, <1>l, <1>u, <2>1, LaneMoves
<1>2. CASE drRows[d].there
  <2>1. drRows[d] \in DefectRow
    BY Zenon, <1>2, <1>t, RowThere
  <2>2. drRows' = [drRows EXCEPT ![d] = r]
    BY Zenon, <1>2 DEF ReviewWrite
  <2>3. drRows[d].stamp \in Nat /\ s \in Nat /\ s # drRows[d].stamp
    <3>1. drRows[d].stamp \in Nat
      BY Zenon, <2>1 DEF DefectRow
    <3>2. QED
      BY <3>1
  <2> HIDE DEF s
  <2>4. r \in DefectRow /\ r.stamp = s /\ r.insp = drRows[d].insp /\ r.active = drRows[d].active
    BY Zenon, <1>t, <2>1, <2>3 DEF DefectRow
  <2> HIDE DEF r
  <2>5. RowOK(d, r)
    BY Zenon, <1>t, <2>1, <2>4 DEF RowOK
  <2>6. drRows'[d] = r /\ \A x \in DefectId \ {d} : drRows'[x] = drRows[x]
    BY Zenon, <1>t, <2>2
  <2>7. drRows' \in [DefectId -> {NoRow} \cup DefectRow]
    BY Zenon, <1>t, <2>2, <2>4
  <2> HIDE DEF d
  <2>8. \A x \in DefectId : RowOK(x, drRows[x])'
    BY <1>t, <1>u, <2>5, <2>6, Zenon DEF RowOK
  <2>9. DecisionKept
    <3>1. r.there
      BY Zenon, <2>4, RowThere
    <3>2. QED
      BY Zenon, <2>3, <2>4, <2>6, <3>1 DEF DecisionKept
  <2>10. FoundOnce'
    BY Zenon, <1>t, <1>u DEF FoundOnce
  <2>11. QED
    BY Zenon, <1>l, <1>t, <1>u, <2>10, <2>7, <2>8, <2>9 DEF ReviewInv
<1>3. QED
  BY Zenon, <1>1, <1>2

\* An ingest reads what the inspection already has, or nothing, blindly.
LEMMA IngestReadKeeps ==
  ASSUME ReviewInv, NEW i \in Insp, IngestRead(i)
  PROVE  ReviewInv' /\ DecisionKept
<1>1. PICK readable \in BOOLEAN :
        /\ drLane' = [at |-> "ingest", i |-> i, todo |-> Detection,
                      existing |-> IF readable THEN {x \in Detection : drFound[<<i, x>>] > 0}
                                   ELSE {}]
        /\ drBlind' = IF readable THEN drBlind ELSE drBlind \cup {i}
  BY Zenon DEF IngestRead
<1>2. UNCHANGED <<drInsp, drRows, drFound>> /\ drFound \in [Insp \X Detection -> Nat]
  BY Zenon DEF IngestRead, ReviewInv
<1>3. /\ drLane'.at = "ingest" /\ drLane'.i = i /\ drLane'.todo = Detection
      /\ readable => drLane'.existing = {x \in Detection : drFound[<<i, x>>] > 0}
      /\ drLane' \in [at : {"ingest"}, i : Insp, todo : SUBSET Detection,
                      existing : SUBSET Detection]
      /\ ~readable => i \in drBlind'
      /\ drBlind \subseteq drBlind'
  BY Zenon, <1>1
<1>4. \A x \in Detection : drFound[<<i, x>>] \in Nat
  BY Zenon, <1>2
<1>5. i \notin drBlind' => \A x \in Detection : x \notin drLane'.existing => drFound[<<i, x>>] = 0
  BY <1>3, <1>4
<1>6. LaneOK'
  BY Zenon, <1>2, <1>3, <1>5 DEF LaneOK
<1>7. QED
  BY Zenon, <1>2, <1>3, <1>6, LaneMoves

\* One detection is added, and the inspection had none.
LEMMA IngestOneKeeps ==
  ASSUME ReviewInv, IngestOne
  PROVE  ReviewInv' /\ DecisionKept
<1> DEFINE x == CHOOSE y \in drLane.todo : TRUE
           k == <<drLane.i, x>>
           q == [drLane EXCEPT !.todo = @ \ {x}]
<1>t. /\ drInsp \subseteq Insp /\ drRows \in [DefectId -> {NoRow} \cup DefectRow]
      /\ \A d \in DefectId : RowOK(d, drRows[d])
      /\ drFound \in [Insp \X Detection -> Nat] /\ FoundOnce
      /\ drLane \in [at : {"ingest"}, i : Insp, todo : SUBSET Detection,
                     existing : SUBSET Detection]
      /\ drLane.at = "ingest" /\ drLane.i \in Insp /\ drLane.todo \subseteq Detection
      /\ drLane.i \notin drBlind =>
            \A y \in drLane.todo : y \notin drLane.existing => drFound[<<drLane.i, y>>] = 0
  BY Zenon DEF ReviewInv, IngestOne, LaneOK
<1>u. UNCHANGED <<drInsp, drRows, drBlind>> /\ drLane' = q
  BY Zenon DEF IngestOne
<1>1. x \in drLane.todo /\ x \in Detection
  BY Zenon, <1>t DEF IngestOne
<1>2. /\ q.at = drLane.at /\ q.i = drLane.i /\ q.existing = drLane.existing
      /\ q.todo = drLane.todo \ {x}
      /\ q \in [at : {"ingest"}, i : Insp, todo : SUBSET Detection, existing : SUBSET Detection]
  BY Zenon, <1>t
<1>3. \/ drFound' = drFound
      \/ x \notin drLane.existing /\ drFound' = [drFound EXCEPT ![k] = @ + 1]
  BY Zenon DEF IngestOne, Skips
<1> HIDE DEF x, q
<1>4. \A d \in DefectId : RowOK(d, drRows[d])'
  BY Zenon, <1>t, <1>u DEF RowOK
<1>5. CASE drFound' = drFound
  <2>1. LaneOK'
    BY Zenon, <1>2, <1>5, <1>t, <1>u DEF LaneOK
  <2>2. QED
    BY Zenon, <1>5, <1>u, <2>1, LaneMoves
<1>6. CASE x \notin drLane.existing /\ drFound' = [drFound EXCEPT ![k] = @ + 1]
  <2>1. k \in Insp \X Detection /\ drFound[k] \in Nat
    BY Zenon, <1>1, <1>t
  <2>2. drFound' \in [Insp \X Detection -> Nat]
    BY <1>6, <1>t, <2>1
  <2>3. drFound'[k] = drFound[k] + 1
    BY Zenon, <1>6, <1>t, <2>1
  <2>4. \A i \in Insp, y \in Detection :
          <<i, y>> # k => drFound'[<<i, y>>] = drFound[<<i, y>>]
    BY Zenon, <1>6, <1>t, <2>1
  <2>5. drLane.i \notin drBlind => drFound[k] = 0
    BY Zenon, <1>1, <1>6, <1>t
  <2>6. FoundOnce'
    <3>1. ASSUME NEW i \in Insp, NEW y \in Detection, i \notin drBlind
          PROVE  drFound'[<<i, y>>] <= 1
      <4>1. CASE <<i, y>> = k
        <5>1. i = drLane.i
          BY Zenon, <4>1
        <5>2. QED
          BY <2>1, <2>3, <2>5, <3>1, <4>1, <5>1
      <4>2. CASE <<i, y>> # k
        BY Zenon, <1>t, <2>4, <3>1, <4>2 DEF FoundOnce
      <4>3. QED
        BY Zenon, <4>1, <4>2
    <3>2. QED
      BY Zenon, <1>u, <3>1 DEF FoundOnce
  <2>7. LaneOK'
    <3>1. \A y \in drLane.todo \ {x} : drFound'[<<drLane.i, y>>] = drFound[<<drLane.i, y>>]
      BY Zenon, <1>t, <2>4
    <3>2. QED
      BY Zenon, <1>2, <1>t, <1>u, <3>1 DEF LaneOK
  <2>8. QED
    BY Zenon, <1>4, <1>t, <1>u, <2>2, <2>6, <2>7, RowsLeft DEF ReviewInv
<1>7. QED
  BY Zenon, <1>3, <1>5, <1>6

\* A record is deleted with its rows and detections, whoever holds the lock.
LEMMA RecordDeletedKeeps ==
  ASSUME ReviewInv, NEW i \in Insp, RecordDeleted(i)
  PROVE  ReviewInv' /\ DecisionKept
<1>t. /\ drInsp \subseteq Insp /\ drRows \in [DefectId -> {NoRow} \cup DefectRow]
      /\ \A d \in DefectId : RowOK(d, drRows[d])
      /\ drFound \in [Insp \X Detection -> Nat] /\ FoundOnce /\ LaneOK
  BY Zenon DEF ReviewInv
<1>u. /\ UNCHANGED <<drLane, drBlind>> /\ drInsp' = drInsp \ {i}
  BY Zenon DEF RecordDeleted
<1>1. \A d \in DefectId :
        \/ drRows'[d] = NoRow /\ drRows[d].insp = i
        \/ drRows'[d] = drRows[d] /\ ~(drRows[d].there /\ drRows[d].insp = i)
  BY Zenon DEF RecordDeleted
<1>2. drRows' \in [DefectId -> {NoRow} \cup DefectRow]
  BY Zenon, <1>t DEF RecordDeleted
<1>3. NoRow \notin DefectRow
  <2>1. ~NoRow.there /\ \A r \in DefectRow : r.there = TRUE
    BY Zenon DEF NoRow, DefectRow
  <2>2. QED
    BY Zenon, <2>1
<1>4. \A d \in DefectId : RowOK(d, drRows[d])'
  <2>1. ASSUME NEW d \in DefectId PROVE RowOK(d, drRows[d])'
    <3>1. CASE drRows'[d] = NoRow
      BY Zenon, <1>3, <3>1 DEF RowOK
    <3>2. CASE drRows'[d] = drRows[d] /\ ~(drRows[d].there /\ drRows[d].insp = i)
      <4>1. drRows[d] \in DefectRow => drRows[d].insp # i
        BY Zenon, <1>t, <3>2, RowThere
      <4>2. RowOK(d, drRows[d])
        BY Zenon, <1>t
      <4>3. QED
        BY Zenon, <1>u, <3>2, <4>1, <4>2 DEF RowOK
    <3>3. QED
      BY Zenon, <1>1, <3>1, <3>2
  <2>2. QED
    BY Zenon, <2>1
<1>5. /\ drFound' \in [Insp \X Detection -> Nat]
      /\ \A j \in Insp, y \in Detection :
           drFound'[<<j, y>>] = 0 \/ drFound'[<<j, y>>] = drFound[<<j, y>>]
  BY Zenon, <1>t DEF RecordDeleted
<1>6. FoundOnce'
  BY <1>5, <1>t, <1>u DEF FoundOnce
<1>7. LaneOK'
  <2>1. CASE drLane.at = "free"
    BY Zenon, <1>u, <2>1 DEF LaneOK
  <2>2. CASE drLane.at = "review"
    <3>1. drLane.d \in DefectId /\ drLane.status \in Status /\ drLane.type \in DefectType
          /\ (drRows[drLane.d] \in DefectRow => drRows[drLane.d].active)
      BY Zenon, <1>t, <2>2 DEF LaneOK
    <3>2. drRows'[drLane.d] \in DefectRow => drRows'[drLane.d].active
      BY Zenon, <1>1, <1>3, <3>1
    <3>3. QED
      BY Zenon, <1>u, <2>2, <3>1, <3>2 DEF LaneOK
  <2>3. CASE drLane.at = "ingest"
    BY Zenon, <1>5, <1>t, <1>u, <2>3 DEF LaneOK
  <2>4. QED
    BY Zenon, <1>t, <2>1, <2>2, <2>3 DEF LaneOK
<1>8. DecisionKept
  BY Zenon, <1>1, <1>u DEF DecisionKept
<1>9. QED
  BY Zenon, <1>2, <1>4, <1>5, <1>6, <1>7, <1>8, <1>t, <1>u DEF ReviewInv

\* The other steps: a refused import, the end of an ingest, a deleted type, a
\* request that ends early, and steps of other components.
LEMMA ReviewRestKeeps ==
  ASSUME ReviewInv,
         \/ \E ref : ImportRefused(ref)
         \/ IngestEnd \/ DrAbort
         \/ \E t : TypeDeleted(t)
         \/ UNCHANGED drVars
  PROVE  ReviewInv' /\ DecisionKept
<1>1. /\ UNCHANGED <<drInsp, drRows, drFound, drBlind>>
      /\ drLane' = drLane \/ drLane' = Unlocked
  BY Zenon DEF ImportRefused, IngestEnd, DrAbort, TypeDeleted, drVars
<1>2. CASE drLane' = drLane
  BY Zenon, <1>1, <1>2, LaneMoves DEF ReviewInv, LaneOK
<1>3. CASE drLane' = Unlocked
  BY Zenon, <1>1, <1>3, LaneFree, LaneMoves
<1>4. QED
  BY Zenon, <1>1, <1>2, <1>3

LEMMA ReviewStep ==
  ASSUME ReviewInv, [DrNext]_drVars
  PROVE  ReviewInv' /\ DecisionKept
<1>1. ASSUME NEW ref \in DrRefs, NEW source \in DrSource, NEW type \in DefectType,
             NEW numbers \in SUBSET DefectNo, NEW replace \in BOOLEAN,
             ImportBatch(ref, source, type, numbers, replace)
      PROVE  ReviewInv' /\ DecisionKept
  BY Zenon, <1>1, ImportBatchKeeps
<1>2. ASSUME NEW d \in DefectId, NEW status \in Status, NEW type \in DefectType,
             ReviewRead(d, status, type)
      PROVE  ReviewInv' /\ DecisionKept
  BY Zenon, <1>2, ReviewReadKeeps
<1>3. CASE ReviewWrite
  BY Zenon, <1>3, ReviewWriteKeeps
<1>4. CASE IngestOne
  BY Zenon, <1>4, IngestOneKeeps
<1>5. ASSUME NEW i \in Insp, IngestRead(i)
      PROVE  ReviewInv' /\ DecisionKept
  BY Zenon, <1>5, IngestReadKeeps
<1>6. ASSUME NEW i \in Insp, RecordDeleted(i)
      PROVE  ReviewInv' /\ DecisionKept
  BY Zenon, <1>6, RecordDeletedKeeps
<1>7. CASE \/ \E ref : ImportRefused(ref)
           \/ IngestEnd \/ DrAbort
           \/ \E t : TypeDeleted(t)
           \/ UNCHANGED drVars
  BY Zenon, <1>7, ReviewRestKeeps
<1>8. QED
  BY Zenon, <1>1, <1>2, <1>3, <1>4, <1>5, <1>6, <1>7 DEF DrNext

LEMMA ReviewInit ==
  ASSUME DrInit
  PROVE  ReviewInv
<1>1. NoRow \notin DefectRow
  <2>1. ~NoRow.there /\ \A r \in DefectRow : r.there = TRUE
    BY Zenon DEF NoRow, DefectRow
  <2>2. QED
    BY Zenon, <2>1
<1>2. \A d \in DefectId : drRows[d] = NoRow
  BY Zenon DEF DrInit
<1>3. \A d \in DefectId : RowOK(d, drRows[d])
  BY Zenon, <1>1, <1>2 DEF RowOK
<1>4. LaneOK /\ FoundOnce
  BY DEF DrInit, LaneOK, FoundOnce, Unlocked
<1>5. QED
  BY Zenon, <1>3, <1>4 DEF DrInit, ReviewInv

\* The rows' invariant is inductive: a row belongs to the inspection of its id
\* while the record exists, a superseded row was reviewed, a review under the
\* lock finds its row active or gone, and an ingest that could read has found
\* what it will skip.
THEOREM ReviewInvariant == DrSpec => []ReviewInv
<1>1. DrInit => ReviewInv
  BY Zenon, ReviewInit
<1>2. ReviewInv /\ [DrNext]_drVars => ReviewInv'
  BY Zenon, ReviewStep
<1>3. QED
  BY <1>1, <1>2, PTL DEF DrSpec

\* The promises on the rows follow.
LEMMA RowsAreWhole ==
  ASSUME ReviewInv
  PROVE  DrTypeOK /\ SupersededWasReviewed /\ DetectionsOnce
<1>1. ASSUME NEW d \in DefectId, drRows[d].there
      PROVE  /\ drRows[d].insp = d[1] /\ drRows[d].insp \in drInsp
             /\ drRows[d].source \in DrSource /\ drRows[d].type \in DefectType
             /\ drRows[d].review \in Status /\ drRows[d].active \in BOOLEAN
             /\ ~drRows[d].active => drRows[d].review # "pending"
  <2>1. drRows[d] \in DefectRow /\ RowOK(d, drRows[d])
    BY Zenon, <1>1, RowThere DEF ReviewInv
  <2>2. /\ drRows[d].source \in DrSource /\ drRows[d].type \in DefectType
        /\ drRows[d].review \in Status /\ drRows[d].active \in BOOLEAN
    BY Zenon, <2>1 DEF DefectRow
  <2>3. QED
    BY Zenon, <2>1, <2>2 DEF RowOK
<1>2. DrTypeOK
  BY Zenon, <1>1 DEF DrTypeOK, ReviewInv, LaneOK
<1>3. SupersededWasReviewed
  BY Zenon, <1>1 DEF SupersededWasReviewed
<1>4. DetectionsOnce
  BY Zenon DEF DetectionsOnce, ReviewInv, FoundOnce
<1>5. QED
  BY Zenon, <1>2, <1>3, <1>4

\* A rebuild keeps the operators' decisions, supersedes nothing that was not
\* reviewed and adds no detection twice, for any flows, defects, types and
\* detections and any number of requests and faults
\* (import_production_defects, review_production_defect,
\* ingest_algorithm_detected_defects, complete_record_cleanup).
THEOREM DecisionsSurviveRebuilds == DrSpec => ReviewSteps
<1>1. ReviewInv /\ [DrNext]_drVars =>
        [DecisionKept /\ DrTypeOK' /\ SupersededWasReviewed' /\ DetectionsOnce']_drVars
  <2>1. ASSUME ReviewInv, [DrNext]_drVars
        PROVE  DecisionKept /\ DrTypeOK' /\ SupersededWasReviewed' /\ DetectionsOnce'
    <3>1. ReviewInv' /\ DecisionKept
      BY Zenon, <2>1, ReviewStep
    <3>2. ReviewInv => DrTypeOK /\ SupersededWasReviewed /\ DetectionsOnce
      BY Zenon, RowsAreWhole
    <3>3. (DrTypeOK /\ SupersededWasReviewed /\ DetectionsOnce)'
      BY <3>1, <3>2, RowsAreWhole, PTL
    <3>4. QED
      BY Zenon, <3>1, <3>3
  <2>2. QED
    BY Zenon, <2>1
<1>2. QED
  BY <1>1, ReviewInvariant, PTL DEF DrSpec, ReviewSteps

-----------------------------------------------------------------------------
(***************************************************************************)
(* ReportArchive, for any number of requests, versions of the data and     *)
(* failures.                                                               *)
(***************************************************************************)

\* A file is absent, torn or issued by somebody from the version of its name.
ArchiveFile(v) == {NoFile, Torn} \cup {ArchiveOf(i, v) : i \in Issuer}

\* f is a function of the elements of S.
Table(f, S) == f = [x \in S |-> f[x]]

\* A request under way knows its version, and writes a file it has created.
RequestOK(q, files) ==
  /\ q.at \in {"look", "create", "write"} => q.v \in Version
  /\ q.at = "write" => files[q.v] = Torn

\* Who writes a file has created it, and nobody else writes it.
ArchiveInv ==
  /\ arReads \in Nat /\ Table(arFile, Version)
  /\ \A v \in Version : arFile[v] \in ArchiveFile(v)
  /\ Table(arReq, Issuer) /\ arVersion \in {0} \cup Version
  /\ \A i \in Issuer : RequestOK(arReq[i], arFile)
  /\ \A i, j \in Issuer : arReq[i].at = "write" /\ arReq[j].at = "write" /\ arReq[i].v = arReq[j].v
                            => i = j

\* The invariant of the archive after a step, conjunct by conjunct.
LEMMA ArchiveInvNext ==
  ASSUME arReads' \in Nat /\ arVersion' \in {0} \cup Version,
         Table(arFile', Version) /\ Table(arReq', Issuer),
         \A x \in Version : arFile'[x] \in ArchiveFile(x),
         \A j \in Issuer : RequestOK(arReq'[j], arFile'),
         \A j, k \in Issuer : arReq'[j].at = "write" /\ arReq'[k].at = "write"
                              /\ arReq'[j].v = arReq'[k].v => j = k
  PROVE  ArchiveInv'
  BY Zenon DEF ArchiveInv

\* What the states of a file tell of it.
LEMMA ArchiveStates ==
  ASSUME NEW v, NEW f \in ArchiveFile(v)
  PROVE  /\ f.state = "whole" <=> \E i \in Issuer : f = ArchiveOf(i, v)
         /\ f.state = "whole" => ValidArchive(f, v) /\ f # NoFile /\ f # Torn
         /\ NoFile # Torn
<1>1. NoFile.state = "none" /\ Torn.state = "torn"
  BY Zenon DEF NoFile, Torn
<1>2. \A i \in Issuer : ArchiveOf(i, v).state = "whole" /\ ArchiveOf(i, v).document = v
  BY Zenon DEF ArchiveOf
<1>3. NoFile # Torn
  BY Zenon, <1>1
<1>4. f = NoFile \/ f = Torn \/ \E i \in Issuer : f = ArchiveOf(i, v)
  BY Zenon DEF ArchiveFile
<1>5. QED
  BY Zenon, <1>1, <1>2, <1>3, <1>4 DEF ValidArchive

\* A request goes on and writes no file, or the file of its own.
LEMMA RequestMoves ==
  ASSUME ArchiveInv, NEW i \in Issuer, NEW q, arReq' = [arReq EXCEPT ![i] = q],
         UNCHANGED <<arVersion, arFile>>, arReads' \in Nat, q.at # "write",
         q.at \in {"look", "create"} => q.v \in Version
  PROVE  ArchiveInv'
<1>1. arReq'[i] = q /\ \A j \in Issuer \ {i} : arReq'[j] = arReq[j]
  BY Zenon DEF ArchiveInv, Table
<1>2. Table(arReq', Issuer)
  BY Zenon DEF ArchiveInv, Table
<1>3. \A j \in Issuer : RequestOK(arReq'[j], arFile')
  <2>1. RequestOK(q, arFile)
    BY Zenon DEF RequestOK
  <2>2. \A j \in Issuer : RequestOK(arReq[j], arFile)
    BY Zenon DEF ArchiveInv
  <2>3. QED
    BY Zenon, <1>1, <2>1, <2>2
<1>4. \A j, k \in Issuer : arReq'[j].at = "write" /\ arReq'[k].at = "write"
                           /\ arReq'[j].v = arReq'[k].v => j = k
  <2>1. \A j \in Issuer : arReq'[j].at = "write" => arReq'[j] = arReq[j]
    BY Zenon, <1>1
  <2>2. \A j, k \in Issuer : arReq[j].at = "write" /\ arReq[k].at = "write"
                             /\ arReq[j].v = arReq[k].v => j = k
    BY Zenon DEF ArchiveInv
  <2>3. ASSUME NEW j \in Issuer, NEW k \in Issuer, arReq'[j].at = "write",
               arReq'[k].at = "write", arReq'[j].v = arReq'[k].v
        PROVE  j = k
    <3>1. arReq'[j] = arReq[j] /\ arReq'[k] = arReq[k]
      BY Zenon, <2>1, <2>3
    <3>2. QED
      BY Zenon, <2>2, <2>3, <3>1
  <2>4. QED
    BY Zenon, <2>3
<1>5. /\ arVersion' \in {0} \cup Version /\ Table(arFile', Version)
      /\ \A x \in Version : arFile'[x] \in ArchiveFile(x)
  BY Zenon DEF ArchiveInv
<1>6. QED
  BY Zenon, <1>2, <1>3, <1>4, <1>5, ArchiveInvNext

\* The file of a version is created or written by the issuer whose it is, and
\* no other file is touched.
LEMMA ArchiveStep ==
  ASSUME ArchiveInv, ArNext
  PROVE  ArchiveInv' /\ (\A v \in Version : arFile[v].state = "whole" => arFile'[v] = arFile[v])
<1>r. arReads \in Nat
  BY Zenon DEF ArchiveInv
<1>s. ASSUME NEW v \in Version, arFile[v] = NoFile \/ arFile[v] = Torn PROVE arFile[v].state # "whole"
  BY <1>s DEF NoFile, Torn
<1>1. ASSUME NEW i \in Issuer, IssueSnapshot(i) PROVE ArchiveInv' /\ arFile' = arFile
  <2> DEFINE q == [at |-> "look", v |-> arVersion]
  <2>1. q.at = "look" /\ q.v = arVersion /\ arVersion \in Version
    BY Zenon, <1>1 DEF IssueSnapshot, ArchiveInv
  <2>2. /\ arReq' = [arReq EXCEPT ![i] = q] /\ UNCHANGED <<arVersion, arFile, arReads>>
    BY Zenon, <1>1 DEF IssueSnapshot
  <2> HIDE DEF q
  <2>3. QED
    BY Zenon, <1>r, <2>1, <2>2, RequestMoves
<1>2. ASSUME NEW i \in Issuer, IssueLook(i) PROVE ArchiveInv' /\ arFile' = arFile
  <2> DEFINE v == arReq[i].v
             q == IF arFile[v] = NoFile THEN [at |-> "create", v |-> v]
                  ELSE IF ValidArchive(arFile[v], v) THEN [at |-> "issued", v |-> v, created |-> FALSE]
                  ELSE [at |-> "error"]
  <2>1. v \in Version
    BY Zenon, <1>2 DEF IssueLook, ArchiveInv, RequestOK
  <2> HIDE DEF v
  <2>2. q.at # "write" /\ (q.at \in {"look", "create"} => q.v \in Version)
    BY Zenon, <2>1
  <2>3. /\ arReq' = [arReq EXCEPT ![i] = q] /\ UNCHANGED <<arVersion, arFile, arReads>>
    BY Zenon, <1>2 DEF IssueLook, v
  <2> HIDE DEF q
  <2>4. QED
    BY Zenon, <1>r, <2>2, <2>3, RequestMoves
<1>3. ASSUME NEW i \in Issuer, IssueCreate(i), MayCreate(arReq[i].v)
      PROVE  ArchiveInv' /\ (\A v \in Version : arFile[v].state = "whole" => arFile'[v] = arFile[v])
  <2> DEFINE v == arReq[i].v
             q == [at |-> "write", v |-> v]
  <2>1. /\ v \in Version /\ arFile[v] = NoFile /\ UNCHANGED <<arVersion, arReads>>
        /\ arFile' = [arFile EXCEPT ![v] = Torn] /\ arReq' = [arReq EXCEPT ![i] = q]
    BY Zenon, <1>3 DEF IssueCreate, ArchiveInv, RequestOK, MayCreate
  <2>2. q.at = "write" /\ q.v = v /\ Torn # NoFile /\ Torn \in ArchiveFile(v)
    BY Zenon, <2>1, ArchiveStates DEF ArchiveFile
  <2> HIDE DEF v, q
  <2>3. /\ Table(arFile', Version) /\ arFile'[v] = Torn
        /\ \A x \in Version \ {v} : arFile'[x] = arFile[x]
    BY Zenon, <2>1 DEF ArchiveInv, Table
  <2>4. /\ Table(arReq', Issuer) /\ arReq'[i] = q
        /\ \A j \in Issuer \ {i} : arReq'[j] = arReq[j]
    BY Zenon, <2>1 DEF ArchiveInv, Table
  <2>5. \A j \in Issuer : arReq[j].at = "write" => arReq[j].v # v
    BY Zenon, <2>1, <2>2 DEF ArchiveInv, RequestOK
  <2>6. \A x \in Version : arFile'[x] \in ArchiveFile(x)
    BY Zenon, <2>2, <2>3 DEF ArchiveInv
  <2>7. ArchiveInv'
    <3>1. \A j \in Issuer : RequestOK(arReq'[j], arFile')
      <4>1. RequestOK(q, arFile')
        BY Zenon, <2>1, <2>2, <2>3 DEF RequestOK
      <4>2. ASSUME NEW j \in Issuer \ {i} PROVE RequestOK(arReq[j], arFile')
        <5>1. RequestOK(arReq[j], arFile)
          BY Zenon DEF ArchiveInv
        <5>2. QED
          BY Zenon, <2>3, <2>5, <5>1 DEF RequestOK
      <4>3. QED
        BY Zenon, <2>4, <4>1, <4>2
    <3>2. \A j, k \in Issuer : arReq'[j].at = "write" /\ arReq'[k].at = "write"
                               /\ arReq'[j].v = arReq'[k].v => j = k
      <4>1. ASSUME NEW j \in Issuer, NEW k \in Issuer, arReq'[j].at = "write",
                   arReq'[k].at = "write", arReq'[j].v = arReq'[k].v, j # k
            PROVE  FALSE
        <5>1. j # i /\ k # i => arReq'[j] = arReq[j] /\ arReq'[k] = arReq[k]
          BY Zenon, <2>4
        <5>2. j = i => k # i /\ arReq'[k] = arReq[k]
          BY Zenon, <2>4, <4>1
        <5>3. k = i => j # i /\ arReq'[j] = arReq[j]
          BY Zenon, <2>4, <4>1
        <5>4. QED
          BY Zenon, <2>2, <2>4, <2>5, <4>1, <5>1, <5>2, <5>3 DEF ArchiveInv
      <4>2. QED
        BY Zenon, <4>1
    <3>3. /\ arReads' \in Nat /\ arVersion' \in {0} \cup Version
      BY Zenon, <2>1 DEF ArchiveInv
    <3>4. Table(arFile', Version) /\ Table(arReq', Issuer)
      BY Zenon, <2>3, <2>4
    <3>5. QED
      BY Zenon, <2>6, <3>1, <3>2, <3>3, <3>4, ArchiveInvNext
  <2>8. QED
    BY Zenon, <1>s, <2>1, <2>3, <2>7
<1>4. ASSUME NEW i \in Issuer, IssueCreate(i), ~MayCreate(arReq[i].v) PROVE ArchiveInv' /\ arFile' = arFile
  <2> DEFINE q == [at |-> "error"]
  <2>1. /\ arReq' = [arReq EXCEPT ![i] = q] /\ UNCHANGED <<arVersion, arFile, arReads>>
    BY Zenon, <1>4 DEF IssueCreate
  <2>2. q.at = "error"
    BY Zenon
  <2> HIDE DEF q
  <2>3. QED
    BY Zenon, <1>r, <2>1, <2>2, RequestMoves
<1>5. ASSUME NEW i \in Issuer, IssueWrite(i)
      PROVE  ArchiveInv' /\ (\A v \in Version : arFile[v].state = "whole" => arFile'[v] = arFile[v])
  <2> DEFINE v == arReq[i].v
             q == [at |-> "issued", v |-> v, created |-> TRUE]
  <2>1. /\ v \in Version /\ arFile[v] = Torn /\ UNCHANGED <<arVersion, arReads>>
        /\ arFile' = [arFile EXCEPT ![v] = ArchiveOf(i, v)] /\ arReq' = [arReq EXCEPT ![i] = q]
        /\ arReq[i].at = "write"
    BY Zenon, <1>5 DEF IssueWrite, ArchiveInv, RequestOK
  <2>2. q.at = "issued" /\ ArchiveOf(i, v) \in ArchiveFile(v)
    BY Zenon DEF ArchiveFile
  <2>5. \A j \in Issuer \ {i} : arReq[j].at = "write" => arReq[j].v # v
    BY Zenon, <2>1 DEF ArchiveInv
  <2> HIDE DEF v, q
  <2>3. /\ Table(arFile', Version) /\ arFile'[v] = ArchiveOf(i, v)
        /\ \A x \in Version \ {v} : arFile'[x] = arFile[x]
    BY Zenon, <2>1 DEF ArchiveInv, Table
  <2>4. /\ Table(arReq', Issuer) /\ arReq'[i] = q
        /\ \A j \in Issuer \ {i} : arReq'[j] = arReq[j]
    BY Zenon, <2>1 DEF ArchiveInv, Table
  <2>6. \A x \in Version : arFile'[x] \in ArchiveFile(x)
    BY Zenon, <2>2, <2>3 DEF ArchiveInv
  <2>7. ArchiveInv'
    <3>1. \A j \in Issuer : RequestOK(arReq'[j], arFile')
      <4>1. RequestOK(q, arFile')
        BY Zenon, <2>1, <2>2, <2>3 DEF RequestOK
      <4>2. ASSUME NEW j \in Issuer \ {i} PROVE RequestOK(arReq[j], arFile')
        <5>1. RequestOK(arReq[j], arFile)
          BY Zenon DEF ArchiveInv
        <5>2. QED
          BY Zenon, <2>3, <2>5, <5>1 DEF RequestOK
      <4>3. QED
        BY Zenon, <2>4, <4>1, <4>2
    <3>2. \A j, k \in Issuer : arReq'[j].at = "write" /\ arReq'[k].at = "write"
                               /\ arReq'[j].v = arReq'[k].v => j = k
      <4>1. ASSUME NEW j \in Issuer, NEW k \in Issuer, arReq'[j].at = "write",
                   arReq'[k].at = "write", arReq'[j].v = arReq'[k].v, j # k
            PROVE  FALSE
        <5>1. j # i /\ k # i => arReq'[j] = arReq[j] /\ arReq'[k] = arReq[k]
          BY Zenon, <2>4
        <5>2. j = i => k # i /\ arReq'[k] = arReq[k]
          BY Zenon, <2>4, <4>1
        <5>3. k = i => j # i /\ arReq'[j] = arReq[j]
          BY Zenon, <2>4, <4>1
        <5>4. QED
          BY Zenon, <2>2, <2>4, <2>5, <4>1, <5>1, <5>2, <5>3 DEF ArchiveInv
      <4>2. QED
        BY Zenon, <4>1
    <3>3. /\ arReads' \in Nat /\ arVersion' \in {0} \cup Version
      BY Zenon, <2>1 DEF ArchiveInv
    <3>4. Table(arFile', Version) /\ Table(arReq', Issuer)
      BY Zenon, <2>3, <2>4
    <3>5. QED
      BY Zenon, <2>6, <3>1, <3>2, <3>3, <3>4, ArchiveInvNext
  <2>8. QED
    BY Zenon, <1>s, <2>1, <2>3, <2>7
<1>6. ASSUME NEW i \in Issuer, IssueAnswer(i) PROVE ArchiveInv' /\ arFile' = arFile
  <2>1. /\ arReq' = [arReq EXCEPT ![i] = Idle] /\ UNCHANGED <<arVersion, arFile, arReads>>
    BY Zenon, <1>6 DEF IssueAnswer
  <2>2. Idle.at = "idle"
    BY Zenon DEF Idle
  <2>3. QED
    BY Zenon, <1>r, <2>1, <2>2, RequestMoves
<1>7. ASSUME NEW i \in Issuer, IssueFails(i) PROVE ArchiveInv' /\ arFile' = arFile
  <2> DEFINE q == [at |-> "error"]
  <2>1. /\ arReq' = [arReq EXCEPT ![i] = q] /\ UNCHANGED <<arVersion, arFile, arReads>>
    BY Zenon, <1>7 DEF IssueFails
  <2>2. q.at = "error"
    BY Zenon
  <2> HIDE DEF q
  <2>3. QED
    BY Zenon, <1>r, <2>1, <2>2, RequestMoves
<1>8. ASSUME ArCrash PROVE ArchiveInv' /\ arFile' = arFile
  BY Zenon, <1>8 DEF ArCrash, Idle, ArchiveInv, RequestOK, Table
<1>9. ASSUME RecordChanges PROVE ArchiveInv' /\ arFile' = arFile
  <2>1. arVersion' \in {0} \cup Version /\ UNCHANGED <<arFile, arReq, arReads>>
    BY Zenon, <1>9 DEF RecordChanges
  <2>2. QED
    BY Zenon, <2>1 DEF ArchiveInv
<1>10. ASSUME NEW v \in Version, ReadReports \/ ReadReport(v) PROVE ArchiveInv' /\ arFile' = arFile
  <2>1. arReads' = arReads + 1 /\ UNCHANGED <<arVersion, arFile, arReq>>
    BY Zenon, <1>10 DEF ReadReports, ReadReport
  <2>2. arReads' \in Nat
    BY <1>r, <2>1
  <2>3. QED
    BY Zenon, <1>r, <2>1, <2>2 DEF ArchiveInv
<1>11. ASSUME ReadReports PROVE ArchiveInv' /\ arFile' = arFile
  <2>1. arReads' = arReads + 1 /\ UNCHANGED <<arVersion, arFile, arReq>>
    BY Zenon, <1>11 DEF ReadReports
  <2>2. arReads' \in Nat
    BY <1>r, <2>1
  <2>3. QED
    BY Zenon, <1>r, <2>1, <2>2 DEF ArchiveInv
<1>12. QED
  BY Zenon, <1>1, <1>2, <1>3, <1>4, <1>5, <1>6, <1>7, <1>8, <1>9, <1>10, <1>11 DEF ArNext

\* A list that is answered holds every file there is.
LEMMA ListStep ==
  ASSUME ArchiveInv, ArNext
  PROVE  ListIsComplete
<1>r. arReads \in Nat
  BY Zenon DEF ArchiveInv
<1>1. CASE arReads' = arReads
  BY Zenon, <1>1 DEF ListIsComplete
<1>2. CASE ReadReports
  <2>1. arServed' = Listed
    BY Zenon, <1>2 DEF ReadReports
  <2>2. arServed'.kind = "list" => arServed'.reports = Files
    BY Zenon, <2>1 DEF Listed
  <2>3. QED
    BY Zenon, <2>2 DEF ListIsComplete, Files
<1>3. ASSUME NEW v \in Version, ReadReport(v) PROVE ListIsComplete
  <2>1. \/ arServed' = [kind |-> "not found"]
        \/ arServed' = [kind |-> "report", v |-> v, file |-> arFile[v]]
        \/ arServed' = [kind |-> "conflict"]
    BY Zenon, <1>3 DEF ReadReport
  <2>2. arServed'.kind # "list"
    <3>1. CASE arServed' = [kind |-> "not found"]
      BY Zenon, <3>1
    <3>2. CASE arServed' = [kind |-> "report", v |-> v, file |-> arFile[v]]
      BY Zenon, <3>2
    <3>3. CASE arServed' = [kind |-> "conflict"]
      BY Zenon, <3>3
    <3>4. QED
      BY Zenon, <2>1, <3>1, <3>2, <3>3
  <2>3. QED
    BY Zenon, <2>2 DEF ListIsComplete
<1>4. ReadReports \/ (\E v \in Version : ReadReport(v)) \/ arReads' = arReads
  BY Zenon DEF ArNext, IssueSnapshot, IssueLook, IssueCreate, IssueWrite, IssueAnswer, IssueFails,
     ArCrash, RecordChanges
<1>5. QED
  BY Zenon, <1>1, <1>2, <1>3, <1>4

\* Files keep their invariant through every order of requests, failures and
\* stops of the service.
THEOREM ArchiveInvariant == ArSpec => []ArchiveInv
<1>1. ArInit => ArchiveInv
  <2> SUFFICES ASSUME ArInit PROVE ArchiveInv
    BY Zenon
  <2>1. \A i \in Issuer : arReq[i].at = "idle"
    BY Zenon DEF ArInit, Idle
  <2>2. \A v \in Version : arFile[v] \in ArchiveFile(v)
    BY Zenon DEF ArInit, ArchiveFile
  <2>3. arVersion \in {0} \cup Version
    BY ArchiveAssumption DEF ArInit, Version
  <2>4. QED
    BY Zenon, <2>1, <2>2, <2>3, ArchiveAssumption DEF ArInit, ArchiveInv, RequestOK, Table
<1>2. ArchiveInv /\ [ArNext]_arVars => ArchiveInv'
  <2>1. ArchiveInv /\ ArNext => ArchiveInv'
    BY Zenon, ArchiveStep
  <2>2. ArchiveInv /\ UNCHANGED arVars => ArchiveInv'
    BY Zenon DEF arVars, ArchiveInv
  <2>3. QED
    BY Zenon, <2>1, <2>2
<1>3. QED
  BY <1>1, <1>2, PTL DEF ArSpec

\* An issued report is whole, keeps its content and its issuer for ever, and is
\* in every list that is answered (issue_inspection_report_at,
\* read_inspection_reports_at).
THEOREM ReportsStayAsIssued == ArSpec => ReportSteps
<1>1. ArchiveInv => ArTypeOK
  BY Zenon, ArchiveStates DEF ArchiveInv, ArTypeOK
<1>2. ArchiveInv /\ ArchiveInv' /\ [ArNext]_arVars =>
        [ArTypeOK' /\ IssuedIsImmutable /\ ListIsComplete]_arVars
  <2>1. ASSUME ArchiveInv, ArNext PROVE IssuedIsImmutable /\ ListIsComplete
    BY Zenon, <2>1, ArchiveStep, ListStep DEF IssuedIsImmutable
  <2>2. ArchiveInv' => ArTypeOK'
    BY <1>1, PTL
  <2>3. QED
    BY Zenon, <2>1, <2>2
<1>3. QED
  BY <1>2, ArchiveInvariant, PTL DEF ArSpec, ReportSteps

-----------------------------------------------------------------------------
(***************************************************************************)
(* ProcessingLog, for any sizes of the log and any number of passes.       *)
(***************************************************************************)

\* What the files say.
PlText == {"none", "capturing", "closed", "partial", "complete", "processing", "derived-ready",
           "queued-for-defect", "processing-defects", "ready", "failed", "waiting-for-flow-close",
           "degraded", "blocked", "database-write-failed"}

PlateRecord == [flow : PlText, image : PlText, defect : PlText,
                algorithm : [state : PlText, defects : PlText]]

PassRecord == [at : {"image", "image-done", "detect", "import", "defects-done"},
               final : BOOLEAN, include : BOOLEAN, previous : PlText]

LogRecord == [at : {"flow", "image", "algorithm", "defect", "answered"}, size : Nat,
              read : PlateRecord, rerun : BOOLEAN]

PlateTypes ==
  /\ plFiles \in PlateRecord
  /\ plPass \in {NoPass} \cup PassRecord
  /\ plLog \in {NoLog} \cup LogRecord

\* The state file says "ready" between passes only, and with what the manifest
\* says.
ReadyIsWhole ==
  /\ plFiles.algorithm.state = "ready" =>
       /\ plPass = NoPass /\ plFiles.algorithm.defects = plFiles.defect
       /\ plFiles.defect # "none"
  /\ plPass.at \in {"import", "defects-done"} => plFiles.defect # "none"

\* The image result has been replaced by one that is not final: the pass that
\* did it does not leave the state "ready".
ImageHolds ==
  \/ plFiles.image = "complete"
  \/ plFiles.algorithm.state # "ready" /\ plPass.at \in {"none", "image-done"}

\* What has been read of a finished stage is still so, or no pass that is over
\* without another one can make the plate look finished.
ReadHolds ==
  plLog \in LogRecord =>
    /\ plLog.at # "flow" /\ plLog.read.flow = "closed" => plFiles.flow = "closed"
    /\ ~plLog.rerun /\ plLog.at \in {"algorithm", "defect", "answered"}
         /\ plLog.read.image = "complete" => ImageHolds
    /\ ~plLog.rerun /\ plLog.at \in {"defect", "answered"}
         /\ plLog.read.algorithm.state = "ready" => plFiles.algorithm = plLog.read.algorithm

PlateInv == PlateTypes /\ ReadyIsWhole /\ ReadHolds

\* The words of the files are among them.
LEMMA PlWords ==
  /\ "none" \in PlText /\ "capturing" \in PlText /\ "closed" \in PlText /\ "partial" \in PlText
  /\ "complete" \in PlText /\ "processing" \in PlText /\ "derived-ready" \in PlText
  /\ "queued-for-defect" \in PlText /\ "processing-defects" \in PlText /\ "ready" \in PlText
  /\ "failed" \in PlText /\ "waiting-for-flow-close" \in PlText
  /\ {"complete", "degraded", "blocked", "database-write-failed"} \subseteq PlText
  BY SMT DEF PlText

\* An idle log is no record.
LEMMA NoLogIdle ==
  /\ NoLog.at = "idle" /\ NoLog \notin LogRecord
  /\ \A l \in LogRecord : l.at # "idle"
<1>1. NoLog.at = "idle"
  BY Zenon DEF NoLog
<1>2. \A l \in LogRecord : l.at # "idle"
  BY Zenon DEF LogRecord
<1>3. QED
  BY Zenon, <1>1, <1>2

\* The state without a pass is no pass.
LEMMA NoPassNone ==
  /\ NoPass.at = "none" /\ NoPass \notin PassRecord
  /\ \A q \in PassRecord : q.at # "none" /\ q # NoPass
<1>1. NoPass.at = "none"
  BY Zenon DEF NoPass
<1>2. \A q \in PassRecord : q.at # "none"
  BY Zenon DEF PassRecord
<1>3. QED
  BY Zenon, <1>1, <1>2

\* A step of capture or of a pass under way keeps what the log has read, if a
\* closed flow stays closed, a "ready" state file stays as it is and an image
\* result is replaced as ImageHolds says.
LEMMA FilesKeep ==
  ASSUME PlateInv, plLog' = plLog,
         plFiles' \in PlateRecord, plPass' \in {NoPass} \cup PassRecord, ReadyIsWhole',
         plFiles.flow = "closed" => plFiles'.flow = "closed",
         plFiles.algorithm.state = "ready" => plFiles'.algorithm = plFiles.algorithm,
         ImageHolds => ImageHolds'
  PROVE  PlateInv'
<1>1. PlateTypes'
  BY Zenon DEF PlateInv, PlateTypes
<1>2. ReadHolds'
  BY Zenon DEF PlateInv, ReadHolds
<1>3. QED
  BY Zenon, <1>1, <1>2 DEF PlateInv

\* Capture closes the flow.
LEMMA FlowClosesKeeps ==
  ASSUME PlateInv, FlowCloses
  PROVE  PlateInv'
<1>t. plFiles \in PlateRecord /\ plPass \in {NoPass} \cup PassRecord /\ ReadyIsWhole
  BY Zenon DEF PlateInv, PlateTypes
<1>1. /\ plFiles' = [plFiles EXCEPT !.flow = "closed"]
      /\ plPass' = plPass /\ plLog' = plLog
  BY Zenon DEF FlowCloses
<1>2. /\ plFiles' \in PlateRecord /\ plFiles'.flow = "closed" /\ plFiles'.image = plFiles.image
      /\ plFiles'.defect = plFiles.defect /\ plFiles'.algorithm = plFiles.algorithm
  BY <1>t, <1>1, PlWords DEF PlateRecord
<1>3. ReadyIsWhole' /\ (ImageHolds => ImageHolds')
  BY Zenon, <1>t, <1>1, <1>2 DEF ReadyIsWhole, ImageHolds
<1>4. QED
  BY Zenon, <1>t, <1>1, <1>2, <1>3, FilesKeep

\* A pass publishes its image result.
LEMMA ImagePublishKeeps ==
  ASSUME PlateInv, ImagePublish
  PROVE  PlateInv'
<1>t. plFiles \in PlateRecord /\ plPass \in {NoPass} \cup PassRecord /\ ReadyIsWhole
  BY Zenon DEF PlateInv, PlateTypes
<1>a. plPass.at = "image"
  BY Zenon DEF ImagePublish
<1>p. plPass \in PassRecord /\ plFiles.algorithm.state # "ready"
  BY Zenon, <1>a, <1>t, NoPassNone DEF ReadyIsWhole
<1>b. PICK at, image :
        /\ at = IF plPass.final /\ plPass.include THEN "detect" ELSE "image-done"
        /\ image = IF plPass.final THEN "complete" ELSE "partial"
        /\ plFiles' = [plFiles EXCEPT !.image = image]
        /\ plPass' = [plPass EXCEPT !.at = at] /\ plLog' = plLog
  BY Zenon DEF ImagePublish, PassGoesOn
<1>c. /\ at \in {"detect", "image-done"} /\ image \in PlText
      /\ image = "complete" \/ at = "image-done"
  BY Zenon, <1>b, PlWords
<1>1. plPass' \in PassRecord /\ plPass'.at = at
  BY <1>b, <1>c, <1>p DEF PassRecord
<1>2. /\ plFiles' \in PlateRecord /\ plFiles'.image = image /\ plFiles'.flow = plFiles.flow
      /\ plFiles'.defect = plFiles.defect /\ plFiles'.algorithm = plFiles.algorithm
  BY <1>b, <1>c, <1>t DEF PlateRecord
<1>3. ReadyIsWhole'
  <2>1. at # "import" /\ at # "defects-done"
    BY Zenon, <1>c
  <2>2. QED
    BY Zenon, <1>p, <1>1, <1>2, <2>1 DEF ReadyIsWhole
<1>4. ImageHolds'
  BY Zenon, <1>c, <1>p, <1>1, <1>2 DEF ImageHolds
<1>5. QED
  BY Zenon, <1>b, <1>p, <1>1, <1>2, <1>3, <1>4, FilesKeep

\* A pass writes the manifest of the defects.
LEMMA DefectWriteKeeps ==
  ASSUME PlateInv, NEW d \in {"complete", "degraded", "blocked", "database-write-failed"},
         DefectManifest(d) \/ DefectImport(d)
  PROVE  PlateInv'
<1>t. plFiles \in PlateRecord /\ plPass \in {NoPass} \cup PassRecord /\ ReadyIsWhole
  BY Zenon DEF PlateInv, PlateTypes
<1>a. plPass.at \in {"detect", "import"}
  BY Zenon DEF DefectManifest, DefectImport
<1>p. plPass \in PassRecord /\ plFiles.algorithm.state # "ready"
  BY Zenon, <1>a, <1>t, NoPassNone DEF ReadyIsWhole
<1>b. PICK at \in {"import", "defects-done"} :
        /\ plFiles' = [plFiles EXCEPT !.defect = d]
        /\ plPass' = [plPass EXCEPT !.at = at] /\ plLog' = plLog
  BY Zenon DEF DefectManifest, DefectImport, PassGoesOn
<1>d. d \in PlText /\ d # "none"
  BY Zenon, PlWords
<1>1. plPass' \in PassRecord /\ plPass'.at = at
  BY <1>b, <1>p DEF PassRecord
<1>2. /\ plFiles' \in PlateRecord /\ plFiles'.image = plFiles.image /\ plFiles'.flow = plFiles.flow
      /\ plFiles'.defect = d /\ plFiles'.algorithm = plFiles.algorithm
  BY <1>b, <1>d, <1>t DEF PlateRecord
<1>3. ReadyIsWhole'
  BY Zenon, <1>d, <1>p, <1>2 DEF ReadyIsWhole
<1>4. ImageHolds => ImageHolds'
  BY Zenon, <1>a, <1>2 DEF ImageHolds
<1>5. QED
  BY Zenon, <1>b, <1>p, <1>1, <1>2, <1>3, <1>4, FilesKeep

\* A pass ends, well or not; only one that has written the manifest leaves the
\* plate "ready".
LEMMA PassEndsKeeps ==
  ASSUME PlateInv, PassDone \/ PassFails \/ PassInterrupted
  PROVE  PlateInv'
<1>t. plFiles \in PlateRecord /\ plPass \in {NoPass} \cup PassRecord /\ ReadyIsWhole
  BY Zenon DEF PlateInv, PlateTypes
<1>a. plPass.at # "none"
  BY Zenon, <1>t, NoPassNone DEF PassDone, PassFails, PassInterrupted
<1>p. plPass \in PassRecord /\ plFiles.algorithm.state # "ready"
  BY Zenon, <1>a, <1>t, NoPassNone DEF ReadyIsWhole
<1>b. PICK state, defects :
        /\ state \in {"queued-for-defect", "derived-ready", "failed"} \/
             (state = "ready" /\ plPass.at = "defects-done" /\ defects = plFiles.defect)
        /\ state \in PlText /\ defects \in PlText
        /\ plFiles' = [plFiles EXCEPT !.algorithm = AlgorithmFile(state, defects)]
        /\ plPass' = NoPass /\ plLog' = plLog
  <2>1. plPass.previous \in PlText /\ plFiles.defect \in PlText
    BY Zenon, <1>p, <1>t DEF PassRecord, PlateRecord
  <2>2. CASE PassFails
    BY Zenon, <2>1, <2>2, PlWords DEF PassFails, PassEnds
  <2>3. CASE PassInterrupted
    BY Zenon, <2>1, <2>3, PlWords DEF PassInterrupted, PassEnds
  <2>4. CASE PassDone
    <3>1. CASE plPass.at = "defects-done"
      BY Zenon, <2>1, <2>4, <3>1, PlWords DEF PassDone, PassEnds
    <3>2. CASE plPass.at # "defects-done"
      <4>1. PICK state, defects :
              /\ state = IF plPass.final THEN "queued-for-defect" ELSE "derived-ready"
              /\ defects = IF plPass.include THEN "waiting-for-flow-close" ELSE "queued-for-defect"
              /\ PassEnds(AlgorithmFile(state, defects))
        BY Zenon, <2>4, <3>2 DEF PassDone
      <4>2. state \in {"queued-for-defect", "derived-ready", "failed"} /\ defects \in PlText
        BY Zenon, <4>1, PlWords
      <4>3. QED
        BY Zenon, <4>1, <4>2, PlWords DEF PassEnds
    <3>3. QED
      BY Zenon, <3>1, <3>2
  <2>5. QED
    BY Zenon, <2>2, <2>3, <2>4
<1>1. /\ AlgorithmFile(state, defects) \in [state : PlText, defects : PlText]
      /\ AlgorithmFile(state, defects).state = state
      /\ AlgorithmFile(state, defects).defects = defects
  BY Zenon, <1>b DEF AlgorithmFile
<1>2. /\ plFiles' \in PlateRecord /\ plFiles'.image = plFiles.image /\ plFiles'.flow = plFiles.flow
      /\ plFiles'.defect = plFiles.defect /\ plFiles'.algorithm = AlgorithmFile(state, defects)
  BY <1>b, <1>1, <1>t DEF PlateRecord
<1>3. plPass'.at = "none"
  BY Zenon, <1>b, NoPassNone
<1>4. ReadyIsWhole'
  <2>1. state = "ready" => plPass.at = "defects-done" /\ defects = plFiles.defect
    BY Zenon, <1>b
  <2>2. QED
    BY Zenon, <1>t, <1>b, <1>1, <1>2, <1>3, <2>1 DEF ReadyIsWhole
<1>5. ImageHolds => ImageHolds'
  <2>1. plPass.at \in {"none", "image-done"} => state # "ready"
    BY Zenon, <1>b
  <2>2. QED
    BY Zenon, <1>1, <1>2, <1>3, <2>1 DEF ImageHolds
<1>6. QED
  BY Zenon, <1>b, <1>p, <1>2, <1>4, <1>5, FilesKeep

\* A process dies in a pass.
LEMMA PassDiesKeeps ==
  ASSUME PlateInv, PassDies
  PROVE  PlateInv'
<1>t. plFiles \in PlateRecord /\ plPass \in {NoPass} \cup PassRecord /\ ReadyIsWhole
  BY Zenon DEF PlateInv, PlateTypes
<1>1. plFiles' = plFiles /\ plPass' = NoPass /\ plLog' = plLog /\ plPass # NoPass
  BY Zenon DEF PassDies
<1>2. plFiles.algorithm.state # "ready" /\ plPass'.at = "none"
  BY Zenon, <1>1, <1>t, NoPassNone DEF ReadyIsWhole
<1>3. ReadyIsWhole' /\ (ImageHolds => ImageHolds')
  BY Zenon, <1>1, <1>2 DEF ReadyIsWhole, ImageHolds
<1>4. QED
  BY Zenon, <1>t, <1>1, <1>3, FilesKeep

\* A pass begins: a log being read learns of it.
LEMMA PassBeginsKeeps ==
  ASSUME PlateInv, NEW pass \in PassRecord, pass.at \in {"image", "detect"},
         NEW state \in PlText, state # "ready", NEW defects \in PlText,
         PassBegins(pass, AlgorithmFile(state, defects))
  PROVE  PlateInv'
<1>t. plFiles \in PlateRecord /\ plLog \in {NoLog} \cup LogRecord /\ ReadHolds
  BY Zenon DEF PlateInv, PlateTypes
<1>1. /\ AlgorithmFile(state, defects) \in [state : PlText, defects : PlText]
      /\ AlgorithmFile(state, defects).state = state
  BY Zenon DEF AlgorithmFile
<1>2. /\ plFiles' = [plFiles EXCEPT !.algorithm = AlgorithmFile(state, defects)]
      /\ plPass' = pass
      /\ plLog' = IF plLog = NoLog THEN plLog ELSE [plLog EXCEPT !.rerun = TRUE]
  BY Zenon DEF PassBegins
<1>3. /\ plFiles' \in PlateRecord /\ plFiles'.flow = plFiles.flow
      /\ plFiles'.algorithm = AlgorithmFile(state, defects)
  BY <1>t, <1>1, <1>2 DEF PlateRecord
<1>4. ReadyIsWhole'
  <2>1. pass.at # "import" /\ pass.at # "defects-done"
    BY Zenon
  <2>2. QED
    BY Zenon, <1>1, <1>2, <1>3, <2>1 DEF ReadyIsWhole
<1>5. /\ plLog' \in {NoLog} \cup LogRecord
      /\ plLog' \in LogRecord =>
           plLog \in LogRecord /\ plLog'.rerun /\ plLog'.at = plLog.at /\ plLog'.read = plLog.read
  <2>1. CASE plLog = NoLog
    BY Zenon, <1>2, <2>1, NoLogIdle
  <2>2. CASE plLog \in LogRecord
    <3>1. PICK q : q = [plLog EXCEPT !.rerun = TRUE]
      BY Zenon
    <3>2. q \in LogRecord /\ q.rerun /\ q.at = plLog.at /\ q.read = plLog.read
      BY Zenon, <2>2, <3>1 DEF LogRecord
    <3>3. plLog' = q
      BY Zenon, <1>2, <2>2, <3>1, NoLogIdle
    <3>4. QED
      BY Zenon, <2>2, <3>2, <3>3
  <2>3. QED
    BY Zenon, <1>t, <2>1, <2>2
<1>6. ReadHolds'
  BY Zenon, <1>3, <1>5, <1>t DEF ReadHolds
<1>7. QED
  BY Zenon, <1>2, <1>3, <1>4, <1>5, <1>6 DEF PlateInv, PlateTypes

\* Both kinds of pass begin like that.
LEMMA FastPassKeeps ==
  ASSUME PlateInv, NEW final \in BOOLEAN, NEW include \in BOOLEAN, FastPass(final, include)
  PROVE  PlateInv'
<1>1. PICK q : q = [at |-> "image", final |-> final, include |-> include, previous |-> "none"]
  BY Zenon
<1>2. q \in PassRecord /\ q.at \in {"image", "detect"}
  BY Zenon, <1>1, PlWords DEF PassRecord
<1>3. PassBegins(q, AlgorithmFile("processing", "none"))
  BY Zenon, <1>1 DEF FastPass
<1>4. QED
  BY Zenon, <1>2, <1>3, PassBeginsKeeps, PlWords

\* The defects the state file told of stay in it.
LEMMA DefectPassKeeps ==
  ASSUME PlateInv, NEW by, DefectPass(by)
  PROVE  PlateInv'
<1>1. PICK defects, q :
        /\ defects = plFiles.algorithm.defects
        /\ q = [at |-> "detect", final |-> TRUE, include |-> TRUE, previous |-> defects]
  BY Zenon
<1>2. defects \in PlText
  BY Zenon, <1>1 DEF PlateInv, PlateTypes, PlateRecord
<1>3. q \in PassRecord /\ q.at \in {"image", "detect"}
  BY Zenon, <1>1, <1>2 DEF PassRecord
<1>4. PassBegins(q, AlgorithmFile("processing-defects", defects))
  BY Zenon, <1>1 DEF DefectPass
<1>5. QED
  BY Zenon, <1>2, <1>3, <1>4, PassBeginsKeeps, PlWords

\* A log begins with nothing read.
LEMMA LogBeginKeeps ==
  ASSUME PlateInv, NEW limit \in Nat, LogBegin(limit)
  PROVE  PlateInv'
<1>1. PageSize(limit) \in Nat
  BY DEF PageSize
<1>2. /\ plFiles' = plFiles /\ plPass' = plPass
      /\ plLog' = [at |-> "flow", size |-> PageSize(limit), read |-> plFiles, rerun |-> FALSE]
  BY Zenon DEF LogBegin
<1>3. plLog'.at = "flow" /\ plLog' \in LogRecord
  BY Zenon, <1>1, <1>2 DEF PlateInv, PlateTypes, LogRecord
<1>4. QED
  BY Zenon, <1>2, <1>3 DEF PlateInv, PlateTypes, ReadyIsWhole, ReadHolds

\* One file is read.
LEMMA LogReadKeeps ==
  ASSUME PlateInv, LogRead
  PROVE  PlateInv'
<1> DEFINE a == plLog.at
           r == [plLog.read EXCEPT ![a] = plFiles[a]]
           n == LogNext(a)
           q == [plLog EXCEPT !.read = r, !.at = n]
<1>t. /\ plFiles \in PlateRecord /\ plLog \in {NoLog} \cup LogRecord
      /\ ReadyIsWhole /\ ReadHolds
  BY Zenon DEF PlateInv, PlateTypes
<1>u. plFiles' = plFiles /\ plPass' = plPass /\ a \in {"flow", "image", "algorithm", "defect"}
  BY Zenon DEF LogRead
<1>1. plLog \in LogRecord
  BY Zenon, <1>t, <1>u, NoLogIdle
<1>2. plLog' = q
  BY Zenon, <1>1 DEF LogRead, LogRecord
<1>3. plLog.read \in PlateRecord
  BY Zenon, <1>1 DEF LogRecord
<1>4. /\ r \in PlateRecord /\ r[a] = plFiles[a]
      /\ \A f \in {"flow", "image", "algorithm", "defect"} \ {a} : r[f] = plLog.read[f]
  <2>1. CASE a = "flow"
    BY Zenon, <1>3, <1>t, <2>1 DEF PlateRecord
  <2>2. CASE a = "image"
    BY Zenon, <1>3, <1>t, <2>2 DEF PlateRecord
  <2>3. CASE a = "algorithm"
    BY Zenon, <1>3, <1>t, <2>3 DEF PlateRecord
  <2>4. CASE a = "defect"
    BY Zenon, <1>3, <1>t, <2>4 DEF PlateRecord
  <2>5. QED
    BY Zenon, <1>u, <2>1, <2>2, <2>3, <2>4
<1>5. /\ a = "flow" => n = "image"
      /\ a = "image" => n = "algorithm"
      /\ a = "algorithm" => n = "defect"
      /\ a = "defect" => n = "answered"
  BY Zenon DEF LogNext
<1> HIDE DEF r, n
<1>6. q \in LogRecord /\ q.at = n /\ q.read = r /\ q.rerun = plLog.rerun
  BY Zenon, <1>1, <1>4, <1>5, <1>u DEF LogRecord
<1> HIDE DEF q
<1>i. ImageHolds' <=> ImageHolds
  BY Zenon, <1>u DEF ImageHolds
<1>w. ReadyIsWhole'
  BY Zenon, <1>t, <1>u DEF ReadyIsWhole
<1>7. ReadHolds'
  <2>1. CASE a = "flow"
    BY Zenon, <1>1, <1>2, <1>4, <1>5, <1>6, <1>t, <1>u, <2>1 DEF ReadHolds
  <2>2. CASE a = "image"
    <3>1. plFiles.image = "complete" => ImageHolds
      BY Zenon DEF ImageHolds
    <3>2. QED
      BY Zenon, <1>1, <1>2, <1>4, <1>5, <1>6, <1>i, <1>t, <1>u, <2>2, <3>1 DEF ReadHolds
  <2>3. CASE a = "algorithm"
    BY Zenon, <1>1, <1>2, <1>4, <1>5, <1>6, <1>i, <1>t, <1>u, <2>3 DEF ReadHolds
  <2>4. CASE a = "defect"
    BY Zenon, <1>1, <1>2, <1>4, <1>5, <1>6, <1>i, <1>t, <1>u, <2>4 DEF ReadHolds
  <2>5. QED
    BY Zenon, <1>u, <2>1, <2>2, <2>3, <2>4
<1>8. QED
  BY Zenon, <1>2, <1>6, <1>7, <1>w, <1>u DEF PlateInv, PlateTypes

\* The control, the answer and steps of other components.
LEMMA LogRestKeeps ==
  ASSUME PlateInv,
         (\E paused : BackfillControl(paused)) \/ LogAnswer \/ UNCHANGED plVars
  PROVE  PlateInv'
<1>1. plFiles' = plFiles /\ plPass' = plPass /\ (plLog' = plLog \/ plLog' = NoLog)
  BY Zenon DEF BackfillControl, LogAnswer, plVars
<1>2. ReadHolds'
  BY Zenon, <1>1, NoLogIdle DEF PlateInv, ReadHolds, ImageHolds
<1>3. QED
  BY Zenon, <1>1, <1>2 DEF PlateInv, PlateTypes, ReadyIsWhole

\* The invariant of the plate and of what a log has read of it is kept by every
\* step.
THEOREM PlateInvariant == PlSpec => []PlateInv
<1>1. PlInit => PlateInv
  BY NoLogIdle, NoPassNone, PlWords
     DEF PlInit, PlateInv, PlateTypes, PlateRecord, ReadyIsWhole, ReadHolds, AlgorithmFile
<1>2. PlateInv /\ [PlNext]_plVars => PlateInv'
  BY Zenon, FlowClosesKeeps, FastPassKeeps, DefectPassKeeps, ImagePublishKeeps, DefectWriteKeeps,
     PassEndsKeeps, PassDiesKeeps, LogBeginKeeps, LogReadKeeps, LogRestKeeps,
     LogLimitsAssumption DEF PlNext
<1>3. QED
  BY <1>1, <1>2, PTL DEF PlSpec

\* A plate counts as completed when each of its stages does.
LEMMA CompletedPlate ==
  ASSUME NEW f, DataStatus(f) = "completed"
  PROVE  /\ f.flow = "closed" /\ f.image = "complete" /\ f.algorithm.state = "ready"
         /\ f.algorithm.defects # "none" => f.algorithm.defects = "complete"
<1>1. {CaptureStatus(f), ImageStatus(f), AlgorithmStatus(f)} = {"completed"}
  BY Zenon DEF DataStatus
<1>2. /\ CaptureStatus(f) = "completed" /\ ImageStatus(f) = "completed"
      /\ AlgorithmStatus(f) = "completed"
  BY SMT, <1>1
<1>3. f.algorithm.state = "ready" /\ DefectState(f) = "complete"
  BY Zenon, <1>2 DEF AlgorithmStatus
<1>4. QED
  BY Zenon, <1>2, <1>3 DEF CaptureStatus, ImageStatus, DefectState

\* A plate logged as completed is, unless a pass over it began while its files
\* were read, whatever page is asked for and however many passes there are,
\* fail, are interrupted or die (processing_log_record).
THEOREM LogAlwaysTrue == PlSpec => []LoggedAsCompleted
<1>1. PlateInv => LoggedAsCompleted
  <2>1. ASSUME PlateInv, plLog.at = "answered", DataStatus(plLog.read) = "completed",
               ~plLog.rerun
        PROVE  /\ plFiles = [flow |-> "closed", image |-> "complete", defect |-> "complete",
                             algorithm |-> AlgorithmFile("ready", "complete")]
               /\ plPass = NoPass
    <3>1. plLog \in LogRecord
      BY Zenon, <2>1, NoLogIdle DEF PlateInv, PlateTypes
    <3>2. /\ plLog.read.flow = "closed" /\ plLog.read.image = "complete"
          /\ plLog.read.algorithm.state = "ready"
          /\ plLog.read.algorithm.defects # "none" => plLog.read.algorithm.defects = "complete"
      BY Zenon, <2>1, CompletedPlate
    <3>3. /\ plFiles.flow = "closed" /\ plFiles.algorithm = plLog.read.algorithm /\ ImageHolds
      BY Zenon, <2>1, <3>1, <3>2 DEF PlateInv, ReadHolds
    <3>4. /\ plPass = NoPass /\ plFiles.image = "complete" /\ plFiles.defect = "complete"
          /\ plFiles.algorithm.state = "ready" /\ plFiles.algorithm.defects = "complete"
      BY Zenon, <2>1, <3>2, <3>3 DEF PlateInv, ReadyIsWhole, ImageHolds
    <3>5. QED
      BY <2>1, <3>3, <3>4 DEF PlateInv, PlateTypes, PlateRecord, AlgorithmFile
  <2>2. QED
    BY Zenon, <2>1 DEF LoggedAsCompleted
<1>2. QED
  BY <1>1, PlateInvariant, PTL

=============================================================================
