------------------------------ MODULE BkvCursor ------------------------------
(***************************************************************************)
(* The offline replay of a BKV runtime manifest (app/service/src/bkv.rs):  *)
(* the manager that is loaded once per start, the durable cursor, the      *)
(* capture summaries it writes, and the cache of composed tiles.  A        *)
(* request to the replay is served under the cursor's mutex; the process   *)
(* may end between any two of its file writes.                             *)
(***************************************************************************)
EXTENDS Naturals, Sequences, FiniteSets

CONSTANTS BcManifests,   \* manifests that may lie at the configured path
          BcTile,        \* tiles a client may ask for
          BcWorker,      \* concurrent tile requests
          BcNone,
          BcCapacity,    \* TILE_CACHE_CAPACITY
          MaxBcRequests, \* next, reset and tile requests
          MaxBcFaults    \* crashes, failed writes, replaced manifests

ASSUME BcAssumption == BcCapacity \in Nat \ {0}

VARIABLES bcManifest,    \* the manifest file
          bcCursorFile,  \* the cursor file, or BcNone
          bcSummaries,   \* SeqNos whose capture summary is on disk
          bcManager,     \* the loaded manager, or BcNone
          bcCursor,      \* its cursor
          bcReplay,      \* the request under the cursor's mutex
          bcGiven,       \* the SeqNos answered since the cursor was last 0
          bcTiles,       \* the order of the tile cache
          bcWork,        \* worker -> the tile it composes
          bcRequests, bcFaults

bcVars == <<bcManifest, bcCursorFile, bcSummaries, bcManager, bcCursor, bcReplay, bcGiven,
            bcTiles, bcWork, bcRequests, bcFaults>>

BcInit ==
  /\ bcManifest \in BcManifests
  /\ bcCursorFile = BcNone /\ bcSummaries = {} /\ bcManager = BcNone /\ bcCursor = 0
  /\ bcReplay = "free" /\ bcGiven = <<>>
  /\ bcTiles = <<>> /\ bcWork = [w \in BcWorker |-> BcNone]
  /\ bcRequests = 0 /\ bcFaults = 0

BcRequest == bcManager # BcNone /\ bcRequests < MaxBcRequests /\ bcRequests' = bcRequests + 1

----------------------------------------------------------------------------

\* validate_cameras and collect_artifacts: six offline cameras with frames,
\* every file once, contained, with its size and hash.
MaterialValid(m) == m.cameras = 6 /\ m.frames /\ m.files

ManifestValid(manifest) ==
  /\ manifest.schema /\ manifest.materials # <<>>
  /\ \A k \in DOMAIN manifest.materials :
       /\ manifest.materials[k].seq > 0 /\ MaterialValid(manifest.materials[k])
       /\ k > 1 => manifest.materials[k].seq > manifest.materials[k - 1].seq
       /\ manifest.previews => manifest.materials[k].preview

\* load_cursor: no file is the start; a cursor of another batch, or past the
\* end, refuses the load.
CursorLoads(manifest, cursor) ==
  \/ cursor = BcNone
  \/ cursor # BcNone /\ cursor.batch = manifest.batch /\ cursor.next <= Len(manifest.materials)

\* BkvManager::load at the start of the service.
BcLoad ==
  /\ bcManager = BcNone
  /\ ManifestValid(bcManifest) /\ CursorLoads(bcManifest, bcCursorFile)
  /\ bcManager' = bcManifest
  /\ bcCursor' = IF bcCursorFile = BcNone THEN 0 ELSE bcCursorFile.next
  /\ UNCHANGED <<bcManifest, bcCursorFile, bcSummaries, bcReplay, bcGiven, bcTiles, bcWork,
                 bcRequests, bcFaults>>

\* persist_cursor through persist_json and atomic_replace.
CursorOf(next) == [batch |-> bcManager.batch, next |-> next]

\* capture_next takes the mutex; past the last material it answers at once.
NextStart ==
  /\ BcRequest /\ bcReplay = "free"
  /\ bcReplay' = IF bcCursor < Len(bcManager.materials) THEN "summary" ELSE "free"
  /\ UNCHANGED <<bcManifest, bcCursorFile, bcSummaries, bcManager, bcCursor, bcGiven, bcTiles,
                 bcWork, bcFaults>>

\* It writes the capture summary ...
NextSummary ==
  /\ bcReplay = "summary"
  /\ bcSummaries' = bcSummaries \union {bcManager.materials[bcCursor + 1].seq}
  /\ bcReplay' = "cursor"
  /\ UNCHANGED <<bcManifest, bcCursorFile, bcManager, bcCursor, bcGiven, bcTiles, bcWork,
                 bcRequests, bcFaults>>

\* ... then the cursor file ...
NextPersist ==
  /\ bcReplay = "cursor"
  /\ bcCursorFile' = CursorOf(bcCursor + 1)
  /\ bcReplay' = "answer"
  /\ UNCHANGED <<bcManifest, bcSummaries, bcManager, bcCursor, bcGiven, bcTiles, bcWork,
                 bcRequests, bcFaults>>

\* ... and last moves the cursor in memory and answers.
NextAnswer ==
  /\ bcReplay = "answer"
  /\ bcCursor' = bcCursor + 1
  /\ bcGiven' = Append(bcGiven, bcManager.materials[bcCursor + 1].seq)
  /\ bcReplay' = "free"
  /\ UNCHANGED <<bcManifest, bcCursorFile, bcSummaries, bcManager, bcTiles, bcWork,
                 bcRequests, bcFaults>>

\* A write that fails ends the request.
FailedSummaryGoesOn(phase) == IF phase = "summary" THEN "cursor" ELSE "free"

FailedWrite(phase) == "free"

NextFails ==
  /\ bcReplay \in {"summary", "cursor", "reset"} /\ bcFaults < MaxBcFaults
  /\ bcReplay' = FailedWrite(bcReplay)
  /\ bcFaults' = bcFaults + 1
  /\ UNCHANGED <<bcManifest, bcCursorFile, bcSummaries, bcManager, bcCursor, bcGiven, bcTiles,
                 bcWork, bcRequests>>

\* reset: the file first, then the memory.
ResetStart ==
  /\ BcRequest /\ bcReplay = "free" /\ bcReplay' = "reset"
  /\ UNCHANGED <<bcManifest, bcCursorFile, bcSummaries, bcManager, bcCursor, bcGiven, bcTiles,
                 bcWork, bcFaults>>

ResetPersist ==
  /\ bcReplay = "reset" /\ bcCursorFile' = CursorOf(0) /\ bcReplay' = "restart"
  /\ UNCHANGED <<bcManifest, bcSummaries, bcManager, bcCursor, bcGiven, bcTiles, bcWork,
                 bcRequests, bcFaults>>

ResetMemory(cursor) == 0

ResetAnswer ==
  /\ bcReplay = "restart"
  /\ bcCursor' = ResetMemory(bcCursor) /\ bcGiven' = <<>> /\ bcReplay' = "free"
  /\ UNCHANGED <<bcManifest, bcCursorFile, bcSummaries, bcManager, bcTiles, bcWork,
                 bcRequests, bcFaults>>

----------------------------------------------------------------------------
(* The tile cache. *)

Cached(order, tile) ==
  IF \E k \in DOMAIN order : order[k] = tile THEN order
  ELSE Append(IF Len(order) < BcCapacity THEN order ELSE Tail(order), tile)

\* inspection_tile looks into the cache, composes the tile outside the lock ...
TileMiss(w, tile) ==
  /\ BcRequest /\ bcWork[w] = BcNone
  /\ \A k \in DOMAIN bcTiles : bcTiles[k] # tile
  /\ bcWork' = [bcWork EXCEPT ![w] = tile]
  /\ UNCHANGED <<bcManifest, bcCursorFile, bcSummaries, bcManager, bcCursor, bcReplay, bcGiven,
                 bcTiles, bcFaults>>

\* ... and inserts it.
TileInsert(w) ==
  /\ bcWork[w] # BcNone
  /\ bcTiles' = Cached(bcTiles, bcWork[w])
  /\ bcWork' = [bcWork EXCEPT ![w] = BcNone]
  /\ UNCHANGED <<bcManifest, bcCursorFile, bcSummaries, bcManager, bcCursor, bcReplay, bcGiven,
                 bcRequests, bcFaults>>

----------------------------------------------------------------------------
(* Faults. *)

\* The process ends; a manifest may be put in place before it starts again.
BcCrash ==
  /\ bcManager # BcNone /\ bcFaults < MaxBcFaults /\ bcFaults' = bcFaults + 1
  /\ bcManifest' \in BcManifests
  /\ bcManager' = BcNone /\ bcCursor' = 0 /\ bcReplay' = "free"
  /\ bcGiven' = IF bcCursorFile # BcNone /\ bcCursorFile.next = 0 THEN <<>> ELSE bcGiven
  /\ bcTiles' = <<>> /\ bcWork' = [w \in BcWorker |-> BcNone]
  /\ UNCHANGED <<bcCursorFile, bcSummaries, bcRequests>>

BcNext ==
  \/ BcLoad \/ NextStart \/ NextSummary \/ NextPersist \/ NextAnswer \/ NextFails
  \/ ResetStart \/ ResetPersist \/ ResetAnswer \/ BcCrash
  \/ \E w \in BcWorker : (\E tile \in BcTile : TileMiss(w, tile)) \/ TileInsert(w)

----------------------------------------------------------------------------
(* Properties. *)

\* The cursor in memory and on disk agree whenever no request holds the mutex,
\* whatever write failed before (capture_next and reset move the memory last),
\* and neither is past the end.
CursorsAgree ==
  (bcManager # BcNone /\ bcReplay = "free") =>
    /\ bcCursor <= Len(bcManager.materials)
    /\ bcCursorFile = BcNone => bcCursor = 0
    /\ bcCursorFile # BcNone =>
         bcCursorFile.batch = bcManager.batch /\ bcCursorFile.next = bcCursor

\* A material that the durable cursor has passed has its capture summary on
\* disk, through crashes and failed writes: "capture_next_writes_six_camera_
\* offline_summary_before_advancing".
PassedHasSummary ==
  (bcManager # BcNone /\ bcCursorFile # BcNone) =>
    \A k \in 1..bcCursorFile.next : bcManager.materials[k].seq \in bcSummaries

\* Between resets the answers are in the order of the manifest, none of them
\* twice: a crash before the cursor is durable gives the material again, but
\* then it was never answered.
AnswersInOrder ==
  \A j, k \in DOMAIN bcGiven : j < k => bcGiven[j] < bcGiven[k]

\* The tile cache never grows past its capacity and lists a tile once, also
\* when two requests compose the same tile at the same time.
TilesBounded ==
  /\ Len(bcTiles) <= BcCapacity
  /\ \A j, k \in DOMAIN bcTiles : bcTiles[j] = bcTiles[k] => j = k

\* The recording is played once, in order, with every summary written, through
\* crashes and failed writes, and its tile cache stays within its capacity.
CursorSafety ==
  /\ CursorsAgree
  /\ PassedHasSummary
  /\ AnswersInOrder
  /\ TilesBounded

=============================================================================
