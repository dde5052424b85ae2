------------------------------ MODULE BkvReplay ------------------------------
(***************************************************************************)
(* Import, replay, snapshot and file service of BKV batches                *)
(* (app/service/src/production_tasks.rs, db/mod.rs and main.rs).           *)
(* Commands (an import, a reset, an operator's review of a defect) run     *)
(* under production_command_lock; readers (a snapshot, a status request, a *)
(* file request) and advance_bkv_replay, which has a compare-and-swap of   *)
(* its own, verify files first and look at the database again afterwards.  *)
(* Meanwhile a converter may publish another version into a batch's        *)
(* directory, or a file may be damaged.                                    *)
(***************************************************************************)
EXTENDS BkvBatches

CONSTANTS BkBatch,        \* batch ids
          BkDocs,         \* what a batch directory may hold, for each batch
          BkReader,       \* concurrent requests outside the lock
          BkNone,         \* "no row", "nothing"
          MaxBkCommands,  \* imports, resets and reviews
          MaxBkReads,     \* requests of the readers
          MaxBkChanges    \* changes of the directories, deleted records

VARIABLES bkDisk,       \* batch -> the document its directory holds
          bkActive,     \* app_config bkv.active-batch
          bkBatches,    \* app_config bkv.batch.<id>
          bkReplays,    \* app_config bkv.replay.<id>
          bkRows,       \* batch -> SeqNo -> the imported rows
          bkImport,     \* the import that holds the lock
          bkProc,       \* reader -> its request
          bkCommands, bkReads, bkChanges

bkVars == <<bkDisk, bkActive, bkBatches, bkReplays, bkRows, bkImport, bkProc,
            bkCommands, bkReads, bkChanges>>

Items == 1..BkvItems
BkIdle == [phase |-> "idle"]

BkInit ==
  /\ bkDisk \in [BkBatch -> UNION {BkDocs[b] : b \in BkBatch}]
  /\ \A b \in BkBatch : bkDisk[b] \in BkDocs[b]
  /\ bkActive = BkNone
  /\ bkBatches = [b \in BkBatch |-> BkNone]
  /\ bkReplays = [b \in BkBatch |-> BkNone]
  /\ bkRows = [b \in BkBatch |-> [i \in Items |-> BkNone]]
  /\ bkImport = BkIdle
  /\ bkProc = [p \in BkReader |-> BkIdle]
  /\ bkCommands = 0 /\ bkReads = 0 /\ bkChanges = 0

\* production_command_lock is free.
BkUnlocked == bkImport = BkIdle

BkCommand == BkUnlocked /\ bkCommands < MaxBkCommands /\ bkCommands' = bkCommands + 1

----------------------------------------------------------------------------
(* POST /api/bkv/import. *)

\* bkv_import_response, the first load.
ImportFirst(b, reviewed) ==
  /\ BkCommand
  /\ LoadBatch(bkDisk[b], b, reviewed) /\ Convertible(bkDisk[b])
  /\ bkImport' = [phase |-> "again", batch |-> b, reviewed |-> reviewed]
  /\ UNCHANGED <<bkDisk, bkActive, bkBatches, bkReplays, bkRows, bkProc, bkReads, bkChanges>>

\* The second load; its result is the one the third must agree with.
ImportAgain ==
  /\ bkImport.phase = "again"
  /\ LET d == bkDisk[bkImport.batch] IN
       bkImport' = IF LoadBatch(d, bkImport.batch, bkImport.reviewed) /\ Convertible(d)
                   THEN [phase |-> "final", batch |-> bkImport.batch,
                         reviewed |-> bkImport.reviewed, doc |-> d]
                   ELSE BkIdle
  /\ UNCHANGED <<bkDisk, bkActive, bkBatches, bkReplays, bkRows, bkProc,
                 bkCommands, bkReads, bkChanges>>

\* bkv_final_db_batch.
FinalAgrees(d, verified) ==
  d.declared = verified.declared /\ d.status = verified.status
    /\ SemanticDigest(d) = SemanticDigest(verified)

ImportFinal ==
  /\ bkImport.phase = "final"
  /\ LET d == bkDisk[bkImport.batch] IN
       bkImport' = IF /\ LoadBatch(d, bkImport.batch, bkImport.reviewed)
                      /\ FinalAgrees(d, bkImport.doc) /\ Convertible(d)
                   THEN [phase |-> "write", batch |-> bkImport.batch, doc |-> d]
                   ELSE BkIdle
  /\ UNCHANGED <<bkDisk, bkActive, bkBatches, bkReplays, bkRows, bkProc,
                 bkCommands, bkReads, bkChanges>>

\* The summary of bkv_validated_to_db.
Summary(d) ==
  [digest |-> SemanticDigest(d), manifest |-> d.manifest, publication |-> d.publication]

FreshReplay(b, content) ==
  [batch |-> b, content |-> content, index |-> 0, status |-> "ready", version |-> 0,
   item |-> BkNone, inspection |-> BkNone]

Imported(d, i) ==
  [parent |-> InspectionRow(d, i), captures |-> FullArtifacts(d, i), defects |-> FullDefects(d, i)]

SameBatch(row, d) == row.content = d.declared /\ row.summary = Summary(d)

\* import_bkv_batch of a batch that is there: it must be the same one; it is
\* made active and keeps its replay.
Reactivate ==
  LET b == bkImport.batch
      d == bkImport.doc
  IN  /\ bkImport.phase = "write" /\ bkBatches[b] # BkNone
      /\ IF SameBatch(bkBatches[b], d)
         THEN /\ bkActive' = [batch |-> b, content |-> d.declared]
              /\ bkReplays' = IF bkReplays[b] = BkNone
                              THEN [bkReplays EXCEPT ![b] = FreshReplay(b, d.declared)]
                              ELSE bkReplays
         ELSE UNCHANGED <<bkActive, bkReplays>>
      /\ bkImport' = BkIdle
      /\ UNCHANGED <<bkDisk, bkBatches, bkRows, bkProc, bkCommands, bkReads, bkChanges>>

\* The rows of a new batch have ids of their own, and its content was never
\* imported under another batch id (the audit row is named by the content).
Insertable(d) ==
  /\ \A i, j \in Items : i # j =>
       /\ FullMaterial(d, i).id # FullMaterial(d, j).id
       /\ FullMaterial(d, i).material # FullMaterial(d, j).material
       /\ \A x \in FullDefects(d, i), y \in FullDefects(d, j) : x.id # y.id
  /\ \A b \in BkBatch : bkBatches[b] # BkNone => bkBatches[b].content # d.declared

\* The transaction of import_bkv_batch.
InsertBatch ==
  LET b == bkImport.batch
      d == bkImport.doc
  IN  /\ bkImport.phase = "write" /\ bkBatches[b] = BkNone
      /\ IF Insertable(d)
         THEN /\ bkRows' = [bkRows EXCEPT ![b] = [i \in Items |-> Imported(d, i)]]
              /\ bkBatches' = [bkBatches EXCEPT ![b] =
                   [content |-> d.declared, status |-> d.status, summary |-> Summary(d)]]
              /\ bkReplays' = [bkReplays EXCEPT ![b] = FreshReplay(b, d.declared)]
              /\ bkActive' = [batch |-> b, content |-> d.declared]
         ELSE UNCHANGED <<bkRows, bkBatches, bkReplays, bkActive>>
      /\ bkImport' = BkIdle
      /\ UNCHANGED <<bkDisk, bkProc, bkCommands, bkReads, bkChanges>>

----------------------------------------------------------------------------
(* The other writers. *)

ResetTo(replay) ==
  [FreshReplay(replay.batch, bkActive.content) EXCEPT !.version = replay.version + 1]

ResetReplay ==
  /\ BkCommand /\ bkActive # BkNone /\ bkReplays[bkActive.batch] # BkNone
  /\ bkReplays' = [bkReplays EXCEPT ![bkActive.batch] = ResetTo(@)]
  /\ UNCHANGED <<bkDisk, bkActive, bkBatches, bkRows, bkImport, bkProc, bkReads, bkChanges>>

\* review_production_defect on a defect of an imported inspection.
ReviewDefect(b, i) ==
  /\ BkCommand /\ bkRows[b][i] # BkNone
  /\ \E x \in bkRows[b][i].defects :
       bkRows' = [bkRows EXCEPT ![b][i].defects = (@ \ {x}) \union {[x EXCEPT !.type = "reviewed"]}]
  /\ UNCHANGED <<bkDisk, bkActive, bkBatches, bkReplays, bkImport, bkProc, bkReads, bkChanges>>

\* The deletion of a record by an administrator, outside the lock.
DeleteImported(b, i) ==
  /\ bkChanges < MaxBkChanges /\ bkRows[b][i] # BkNone
  /\ bkRows' = [bkRows EXCEPT ![b][i] = BkNone]
  /\ bkChanges' = bkChanges + 1
  /\ UNCHANGED <<bkDisk, bkActive, bkBatches, bkReplays, bkImport, bkProc, bkCommands, bkReads>>

\* The converter, or damage.
Publish(b) ==
  /\ bkChanges < MaxBkChanges
  /\ \E d \in BkDocs[b] \ {bkDisk[b]} : bkDisk' = [bkDisk EXCEPT ![b] = d]
  /\ bkChanges' = bkChanges + 1
  /\ UNCHANGED <<bkActive, bkBatches, bkReplays, bkRows, bkImport, bkProc, bkCommands, bkReads>>

----------------------------------------------------------------------------
(* load_bkv_replay_runtime_with_deadline, the start of every reader. *)

\* A request whose step is refused, or whose deadline has passed, is answered.
Proceed(p, ok, next) == bkProc' = [bkProc EXCEPT ![p] = IF ok THEN next ELSE BkIdle]

BkDatabase == <<bkDisk, bkActive, bkBatches, bkReplays, bkRows, bkImport, bkCommands, bkChanges>>

\* The configuration rows of the active batch.
RuntimeRead(p, op) ==
  /\ bkProc[p] = BkIdle /\ bkReads < MaxBkReads /\ bkReads' = bkReads + 1
  /\ bkActive # BkNone
  /\ LET row == bkBatches[bkActive.batch] IN
       Proceed(p, row # BkNone /\ row.content = bkActive.content /\ row.status \in {"ready", "partial"},
               [phase |-> "verify", op |-> op, active |-> bkActive, row |-> row])
  /\ UNCHANGED BkDatabase

\* Index and artifacts, under the verification lock of this identity.
RuntimeVerify(p) ==
  LET r == bkProc[p]
      d == bkDisk[r.active.batch]
  IN  /\ r.phase = "verify"
      /\ Proceed(p, /\ ServingIndex(d, r.active.batch, r.active.content, r.row.summary)
                    /\ ArtifactsVerified(d) /\ AllChannels(d.artifacts),
                 [phase |-> "replay", op |-> r.op, active |-> r.active, row |-> r.row,
                  map |-> [i \in Items |-> CompactMap(d, i)], artifacts |-> d.artifacts])
      /\ UNCHANGED <<BkDatabase, bkReads>>

\* The status that an index stands for (bkv_validate_replay_state and
\* strict_bkv_replay_identity have it twice).
ReplayStatus(index) ==
  IF index = 0 THEN "ready" ELSE IF index = BkvItems THEN "completed" ELSE "replaying"

\* bkv_validate_replay_state without its lookup; strict_bkv_replay_identity.
ReplayIdentity(replay, active) ==
  /\ replay.batch = active.batch /\ replay.content = active.content
  /\ replay.index \in 0..BkvItems /\ replay.version >= replay.index
  /\ replay.status = ReplayStatus(replay.index)
  /\ IF replay.index = 0 THEN replay.item = BkNone /\ replay.inspection = BkNone
                         ELSE replay.item = replay.index /\ replay.inspection # BkNone

\* find_production_inspection and bkv_imported_inspection_evidence.
SelectedRow(replay) ==
  IF replay.index = 0 \/ bkRows[replay.batch][replay.index] = BkNone THEN BkNone
  ELSE bkRows[replay.batch][replay.index].parent

\* bkv_validate_replay_state, bkv_inspection_matches_expected.
ReplayValid(replay, active, map) ==
  /\ replay # BkNone /\ ReplayIdentity(replay, active)
  /\ replay.index > 0 => SelectedRow(replay) # BkNone /\ SelectedRow(replay) = map[replay.index]

RuntimeReplay(p) ==
  LET r == bkProc[p]
      replay == bkReplays[r.active.batch]
  IN  /\ r.phase = "replay"
      /\ Proceed(p, ReplayValid(replay, r.active, r.map) /\ (r.op = "advance" => replay.index < BkvItems),
                 [phase |-> IF r.op = "advance" THEN "check" ELSE "select", op |-> r.op,
                  active |-> r.active, row |-> r.row, map |-> r.map, replay |-> replay])
      /\ UNCHANGED <<BkDatabase, bkReads>>

----------------------------------------------------------------------------
(* advance_bkv_replay. *)

\* The item's files are verified again and the batch is loaded in full ...
AdvanceFiles(d, r, i) ==
  /\ ServingIndex(d, r.active.batch, r.active.content, bkBatches[r.active.batch].summary)
  /\ ArtifactsVerified(d) /\ AllChannels({a \in d.artifacts : a.item = i})
  /\ LoadBatch(d, r.active.batch, bkBatches[r.active.batch].status = "partial")
  /\ d.declared = r.active.content /\ Convertible(d)

\* ... and the imported rows must be what it says.
AdvanceRows(d, b, i) ==
  bkRows[b][i] # BkNone /\ bkRows[b][i] = Imported(d, i)

AdvanceCheck(p) ==
  LET r == bkProc[p]
      b == r.active.batch
      i == r.replay.index + 1
      d == bkDisk[b]
  IN  /\ r.phase = "check"
      /\ Proceed(p, AdvanceFiles(d, r, i) /\ AdvanceRows(d, b, i),
                 [phase |-> "commit", op |-> r.op, active |-> r.active, replay |-> r.replay,
                  inspection |-> InspectionRow(d, i).id])
      /\ UNCHANGED <<BkDatabase, bkReads>>

SwapAllowed(current, read) == current = read

AdvanceCommit(p) ==
  LET r == bkProc[p]
      b == r.active.batch
      i == r.replay.index + 1
  IN  /\ r.phase = "commit"
      /\ bkReplays' = IF SwapAllowed(bkReplays[b], r.replay)
                      THEN [bkReplays EXCEPT ![b] =
                              [batch |-> b, content |-> r.active.content, index |-> i,
                               status |-> IF i = BkvItems THEN "completed" ELSE "replaying",
                               version |-> r.replay.version + 1, item |-> i,
                               inspection |-> r.inspection]]
                      ELSE bkReplays
      /\ bkProc' = [bkProc EXCEPT ![p] = BkIdle]
      /\ UNCHANGED <<bkDisk, bkActive, bkBatches, bkRows, bkImport, bkCommands, bkReads, bkChanges>>

----------------------------------------------------------------------------
(* build_production_snapshot_json and bkv_status_value. *)

\* selected_bkv_inspection_exact.
SelectedExact(map) ==
  /\ bkActive # BkNone /\ bkReplays[bkActive.batch] # BkNone
  /\ ReplayValid(bkReplays[bkActive.batch], bkActive, map)

\* load_bkv_depth_decode_evidence: the batch row and the manifest it hashes.
DepthEvidence(r) ==
  /\ bkBatches[r.active.batch] # BkNone
  /\ bkBatches[r.active.batch].content = r.active.content
  /\ bkDisk[r.active.batch].manifest = bkBatches[r.active.batch].summary.manifest

\* selected_bkv_snapshot_selection after the runtime is verified; a status
\* request ends here.
Select(p) ==
  LET r == bkProc[p] IN
  /\ r.phase = "select"
  /\ Proceed(p, /\ r.op = "snapshot" /\ bkActive = r.active /\ DepthEvidence(r)
                /\ SelectedExact(r.map)
                /\ bkReplays[bkActive.batch].inspection = r.replay.inspection,
             [phase |-> "fence", active |-> bkActive, row |-> bkBatches[r.active.batch],
              replay |-> r.replay, selected |-> SelectedRow(bkReplays[r.active.batch])])
  /\ UNCHANGED <<BkDatabase, bkReads>>

\* validate_bkv_snapshot_selection_fence.
FenceActiveOnly(r) == bkActive = r.active

FenceHolds(r) ==
  /\ bkActive = r.active /\ bkReplays[r.active.batch] = r.replay
  /\ bkBatches[r.active.batch] = r.row
  /\ r.selected = SelectedRow(r.replay)

\* The fence is taken under the lock; the rows of the answer are read after
\* it is released.
Fence(p) ==
  /\ bkProc[p].phase = "fence" /\ BkUnlocked
  /\ Proceed(p, FenceHolds(bkProc[p]),
             [phase |-> "fenced", active |-> bkProc[p].active, replay |-> bkProc[p].replay,
              selected |-> bkProc[p].selected])
  /\ UNCHANGED <<BkDatabase, bkReads>>

Assemble(p) ==
  /\ bkProc[p].phase = "fenced"
  /\ bkProc' = [bkProc EXCEPT ![p] = BkIdle]
  /\ UNCHANGED <<BkDatabase, bkReads>>

----------------------------------------------------------------------------
(* GET /api/production/file of a bkv:// token. *)

\* resolve_bkv_artifact_at_root with load_active_bkv_serving_index.
FileResolve(p, b) ==
  /\ bkProc[p] = BkIdle /\ bkReads < MaxBkReads /\ bkReads' = bkReads + 1
  /\ bkBatches[b] # BkNone
  /\ bkActive = [batch |-> b, content |-> bkBatches[b].content]
  /\ ServingIndex(bkDisk[b], b, bkBatches[b].content, bkBatches[b].summary)
  /\ \E a \in bkDisk[b].artifacts :
       bkProc' = [bkProc EXCEPT ![p] = [phase |-> "token", batch |-> b, artifact |-> a]]
  /\ UNCHANGED BkDatabase

\* bkv_token_is_still_active, under the lock.
TokenActive(b) ==
  bkBatches[b] # BkNone /\ bkActive = [batch |-> b, content |-> bkBatches[b].content]

FileCheck(p) ==
  LET r == bkProc[p] IN
  /\ r.phase = "token" /\ BkUnlocked
  /\ Proceed(p, TokenActive(r.batch), [phase |-> "read", batch |-> r.batch, artifact |-> r.artifact])
  /\ UNCHANGED <<BkDatabase, bkReads>>

\* read_bkv_verified_file: size and hash of the bytes that were read.
BytesAsStored(d, a) == a.path \in DOMAIN d.stored

BytesVerified(d, a) == a.path \in DOMAIN d.stored /\ FileIntact(d, a)

FileRead(p) ==
  LET r == bkProc[p]
      d == bkDisk[r.batch]
  IN  /\ r.phase = "read"
      /\ Proceed(p, BytesVerified(d, r.artifact),
                 [phase |-> "served", batch |-> r.batch, path |-> r.artifact.path,
                  bytes |-> d.stored[r.artifact.path]])
      /\ UNCHANGED <<BkDatabase, bkReads>>

FileServed(p) ==
  /\ bkProc[p].phase = "served"
  /\ bkProc' = [bkProc EXCEPT ![p] = BkIdle]
  /\ UNCHANGED <<BkDatabase, bkReads>>

\* The deadline of a verification, a database error.
BkGivesUp(p) ==
  /\ bkProc[p].phase \in {"verify", "replay", "check", "commit", "select", "fence"}
  /\ bkProc' = [bkProc EXCEPT ![p] = BkIdle]
  /\ UNCHANGED <<BkDatabase, bkReads>>

BkNext ==
  \/ \E b \in BkBatch, reviewed \in BOOLEAN : ImportFirst(b, reviewed)
  \/ ImportAgain \/ ImportFinal \/ Reactivate \/ InsertBatch \/ ResetReplay
  \/ \E b \in BkBatch, i \in Items : ReviewDefect(b, i) \/ DeleteImported(b, i)
  \/ \E b \in BkBatch : Publish(b)
  \/ \E p \in BkReader :
       \/ \E op \in {"advance", "snapshot", "status"} : RuntimeRead(p, op)
       \/ RuntimeVerify(p) \/ RuntimeReplay(p) \/ AdvanceCheck(p) \/ AdvanceCommit(p)
       \/ Select(p) \/ Fence(p) \/ Assemble(p)
       \/ \E b \in BkBatch : FileResolve(p, b)
       \/ FileCheck(p) \/ FileRead(p) \/ FileServed(p) \/ BkGivesUp(p)

----------------------------------------------------------------------------
(* Properties. *)

\* The stored replays are states the service accepts: the batch and content of
\* their own key, a status that fits the index, a version that is not behind
\* it, and the item before the next one selected.  bkv_validate_replay_state
\* refuses every other state, and then no route can repair it but a reset.
ReplayWellFormed ==
  \A b \in BkBatch : bkReplays[b] # BkNone =>
    /\ bkBatches[b] # BkNone
    /\ bkReplays[b].batch = b /\ bkReplays[b].content = bkBatches[b].content
    /\ bkReplays[b].index \in 0..BkvItems /\ bkReplays[b].version >= bkReplays[b].index
    /\ bkReplays[b].index = 0 <=> bkReplays[b].status = "ready"
    /\ bkReplays[b].index = BkvItems <=> bkReplays[b].status = "completed"
    /\ IF bkReplays[b].index = 0 THEN bkReplays[b].item = BkNone
                                 ELSE bkReplays[b].item = bkReplays[b].index

\* The active batch can be replayed: its batch row and its replay are there
\* and carry the content that is active (one transaction writes all three).
ActiveIsComplete ==
  bkActive # BkNone =>
    /\ bkBatches[bkActive.batch] # BkNone /\ bkReplays[bkActive.batch] # BkNone
    /\ bkBatches[bkActive.batch].content = bkActive.content
    /\ bkBatches[bkActive.batch].status \in {"ready", "partial"}

\* A replay goes item by item: it advances by one, or starts again, and every
\* change has the next version, whatever commands overlapped it
\* (advance_bkv_replay, reset_bkv_replay, a batch that is imported again).
ReplayMovesInOrder ==
  \A b \in BkBatch :
    (bkReplays[b] # BkNone /\ bkReplays'[b] # bkReplays[b]) =>
      /\ bkReplays'[b].version = bkReplays[b].version + 1
      /\ bkReplays'[b].index \in {0, bkReplays[b].index + 1}

\* A snapshot that passed the fence speaks of one instant: at that step its
\* batch is the active one, the item it shows is the one the replay selects,
\* and the inspection is the row as it is (build_production_snapshot_json).
SnapshotIsCurrent ==
  \A p \in BkReader :
    (bkProc[p].phase = "fence" /\ bkProc'[p].phase = "fenced") =>
      /\ bkActive.batch = bkProc'[p].active.batch
      /\ bkReplays[bkActive.batch].index = bkProc'[p].replay.index
      /\ bkProc'[p].replay.index > 0 =>
           /\ bkRows[bkActive.batch][bkProc'[p].replay.index] # BkNone
           /\ bkRows[bkActive.batch][bkProc'[p].replay.index].parent = bkProc'[p].selected

\* The replay moves one item at a time, and what readers are told of it was
\* true at the instant of their fence.
ReplaySteps == [][ReplayMovesInOrder /\ SnapshotIsCurrent]_bkVars

\* The bytes of a file answer are the ones that were imported under that name,
\* even when the directory changed after the request was admitted
\* (production_file_response_with_bkv_root).
ServedIsImported ==
  \A p \in BkReader : bkProc[p].phase = "served" =>
    \E a \in bkBatches[bkProc[p].batch].content.members :
      a = <<bkProc[p].path, bkProc[p].bytes>>

\* What is stored can be replayed, and what is served was imported.
ReplaySafety ==
  /\ ReplayWellFormed
  /\ ActiveIsComplete
  /\ ServedIsImported

\* What a reader recomputes is what the import wrote.  The import maps the rows
\* of a batch to inspections in full (bkv_validated_to_db); a later request maps
\* them again from compact rows of the files it finds then
\* (load_bkv_deterministic_inspection_map) and refuses an inspection that
\* differs.  So for every request whose files passed the index, whatever was
\* published into the directory in between, the two agree on each inspection
\* that is still there.
MappingsAgree ==
  \A p \in BkReader : "map" \in DOMAIN bkProc[p] =>
    \A i \in Items :
      LET row == bkRows[bkProc[p].active.batch][i]
      IN row # BkNone => bkProc[p].map[i] = row.parent

=============================================================================
