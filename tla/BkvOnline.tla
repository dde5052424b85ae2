------------------------------ MODULE BkvOnline ------------------------------
(***************************************************************************)
(* The online BKV source (app/service/src/bkv_online.rs): the refreshed    *)
(* snapshot of the production database, the image cache, and the           *)
(* inspection world of a record, which is cached in memory, persisted as   *)
(* three files and built under one of two locks (2D, or 2D with depth).    *)
(* One record is followed; records meet only in the locks.  An image file  *)
(* is its version: size and time of modification change with it.           *)
(***************************************************************************)
EXTENDS Naturals, Sequences, FiniteSets, FiniteSetsExt

CONSTANTS BoImage,        \* image files
          BoSize,         \* version -> bytes of an image
          BoMaxEntries,   \* BKV_IMAGE_CACHE_MAX_ENTRIES
          BoMaxBytes,     \* BKV_IMAGE_CACHE_MAX_BYTES
          BoWorker,       \* concurrent requests
          BoNone,
          MaxBoRequests, MaxBoChanges, MaxBoFaults

VARIABLES boFiles,      \* image -> the version on the share
          boCache,      \* the image cache, least recently used first
          boBytes,      \* its byte count
          boShare,      \* the frames of the record on the share (a revision)
          boWorld,      \* the cached world of the record, or BoNone
          boDisk,       \* the persisted files: name -> revision, or BoNone
          boLocks,      \* the build locks, each held by a worker or BoNone
          boWork,       \* worker -> its request
          boRefresh,    \* the refresh state: phase, what was loaded, the snapshot in
                        \* memory, the catalog file (0: none), a last error
          boRequests, boChanges, boFaults

boVars == <<boFiles, boCache, boBytes, boShare, boWorld, boDisk, boLocks, boWork, boRefresh,
            boRequests, boChanges, boFaults>>

BoIdle == [phase |-> "idle"]
BoFiles == {"manifest", "surface", "binary"}

BoInit ==
  /\ boFiles = [f \in BoImage |-> 1]
  /\ boCache = <<>> /\ boBytes = 0
  /\ boShare = 1 /\ boWorld = BoNone
  /\ boDisk = [f \in BoFiles |-> BoNone]
  /\ boLocks = [depth \in BOOLEAN |-> BoNone]
  /\ boWork = [w \in BoWorker |-> BoIdle]
  /\ boRefresh = [phase |-> "idle", loaded |-> 0, snapshot |-> 0, catalog |-> 0, error |-> FALSE]
  /\ boRequests = 0 /\ boChanges = 0 /\ boFaults = 0

\* The service serves only after its first refresh (BkvSource.initialize).
BoRequest(w) ==
  /\ boWork[w] = BoIdle /\ boRefresh.snapshot # 0
  /\ boRequests < MaxBoRequests /\ boRequests' = boRequests + 1

BoImages == <<boFiles, boCache, boBytes>>
BoWorlds == <<boShare, boWorld, boDisk, boLocks>>

----------------------------------------------------------------------------
(* GET of an image. *)

BoBytesOf(cache) == MapThenSumSet(LAMBDA k : BoSize[cache[k].content], DOMAIN cache)

Without(cache, f) == SelectSeq(cache, LAMBDA e : e.image # f)

EntryOf(cache, f) == {cache[k] : k \in {j \in DOMAIN cache : cache[j].image = f}}

\* saturating_sub: the byte count goes down with each entry that is removed.
Less(bytes, n) == IF bytes > n THEN bytes - n ELSE 0

\* The cache and its count without the entry of an image.
Removed(c, f) ==
  [entries |-> Without(c.entries, f),
   bytes |-> Less(c.bytes, MapThenSumSet(LAMBDA e : BoSize[e.content], EntryOf(c.entries, f)))]

\* image: the metadata of the file, before the cache is asked.
ImageAsk(w, f) ==
  /\ BoRequest(w)
  /\ boWork' = [boWork EXCEPT ![w] = [phase |-> "lookup", image |-> f, meta |-> boFiles[f]]]
  /\ UNCHANGED <<BoImages, BoWorlds, boRefresh, boChanges, boFaults>>

Fresh(entry, meta) == entry.meta = meta

ImageLookup(w) ==
  LET r == boWork[w]
      own == EntryOf(boCache, r.image)
      hit == {e \in own : Fresh(e, r.meta)}
      rest == Removed([entries |-> boCache, bytes |-> boBytes], r.image)
  IN  /\ r.phase = "lookup"
      /\ boCache' = IF own = {} THEN boCache
                    ELSE IF hit = {} THEN rest.entries
                    ELSE rest.entries \o <<CHOOSE e \in hit : TRUE>>
      /\ boBytes' = IF own # {} /\ hit = {} THEN rest.bytes ELSE boBytes
      /\ boWork' = [boWork EXCEPT ![w] =
           IF hit = {} THEN [phase |-> "read", image |-> r.image, meta |-> r.meta]
           ELSE [phase |-> "shown", meta |-> r.meta, content |-> (CHOOSE e \in hit : TRUE).content]]
      /\ UNCHANGED <<boFiles, BoWorlds, boRefresh, boRequests, boChanges, boFaults>>

\* The file is read (and a depth image converted) outside the lock.
ImageRead(w) ==
  LET r == boWork[w] IN
  /\ r.phase = "read"
  /\ boWork' = [boWork EXCEPT ![w] = [phase |-> "insert", image |-> r.image, meta |-> r.meta,
                                      content |-> boFiles[r.image]]]
  /\ UNCHANGED <<BoImages, BoWorlds, boRefresh, boRequests, boChanges, boFaults>>

\* A file that cannot be read, or not converted, ends the request.
ImageFails(w) ==
  /\ boWork[w].phase = "read" /\ boFaults < MaxBoFaults /\ boFaults' = boFaults + 1
  /\ boWork' = [boWork EXCEPT ![w] = BoIdle]
  /\ UNCHANGED <<BoImages, BoWorlds, boRefresh, boRequests, boChanges>>

\* What eviction leaves: the oldest entries go, one by one, until by the count
\* the new one fits.
Evicted(c, room) ==
  LET count == Len(c.entries)
      dropped(n) == [entries |-> SubSeq(c.entries, n + 1, count),
                     bytes |-> Less(c.bytes, BoBytesOf(SubSeq(c.entries, 1, n)))]
      fits(n) == n = count \/ (count - n < BoMaxEntries /\ dropped(n).bytes + room <= BoMaxBytes)
  IN  dropped(Min({n \in 0..count : fits(n)}))

Inserted(c, f, meta, content) ==
  LET left == Evicted(Removed(c, f), BoSize[content])
  IN  IF BoSize[content] > BoMaxBytes THEN c
      ELSE [entries |-> Append(left.entries, [image |-> f, meta |-> meta, content |-> content]),
            bytes |-> left.bytes + BoSize[content]]

ImageInsert(w) ==
  LET r == boWork[w]
      next == Inserted([entries |-> boCache, bytes |-> boBytes], r.image, r.meta, r.content)
  IN
  /\ r.phase = "insert"
  /\ boCache' = next.entries /\ boBytes' = next.bytes
  /\ boWork' = [boWork EXCEPT ![w] = [phase |-> "shown", meta |-> r.meta, content |-> r.content]]
  /\ UNCHANGED <<boFiles, BoWorlds, boRefresh, boRequests, boChanges, boFaults>>

BoAnswered(w) ==
  /\ boWork[w].phase \in {"shown", "answered"}
  /\ boWork' = [boWork EXCEPT ![w] = BoIdle]
  /\ UNCHANGED <<BoImages, BoWorlds, boRefresh, boRequests, boChanges, boFaults>>

----------------------------------------------------------------------------
(* load_inspection_world_with_depth. *)

\* A cached world serves for two minutes, and a request for depth only if
\* depth was loaded.
CacheServes(depth) == boWorld # BoNone /\ boWorld.recent /\ (boWorld.depth \/ ~depth)

WorldAnswer(w, world) == boWork' = [boWork EXCEPT ![w] = [phase |-> "answered", world |-> world]]

\* The first look into the cache.
WorldAsk(w, depth, force) ==
  /\ BoRequest(w)
  /\ IF ~force /\ CacheServes(depth) THEN WorldAnswer(w, boWorld)
     ELSE boWork' = [boWork EXCEPT ![w] = [phase |-> IF force THEN "wait" ELSE "persisted",
                                           depth |-> depth, force |-> force]]
  /\ UNCHANGED <<BoImages, BoWorlds, boRefresh, boChanges, boFaults>>

Persisting == \E w \in BoWorker : boWork[w].phase = "persist"

\* load_persisted_inspection_world: the manifest first ...  (crossed: a build
\* was writing the files meanwhile.)
WorldManifest(w) ==
  LET r == boWork[w] IN
  /\ r.phase = "persisted"
  /\ boWork' = [boWork EXCEPT ![w] =
       [phase |-> IF boDisk["manifest"] = BoNone THEN "wait" ELSE "surfaces", depth |-> r.depth,
        force |-> r.force, revision |-> boDisk["manifest"], crossed |-> Persisting]]
  /\ UNCHANGED <<BoImages, BoWorlds, boRefresh, boRequests, boChanges, boFaults>>

\* ... then the surface files, the binary one first and only with depth; what
\* was found becomes the cached world.
WorldSurfaces(w) ==
  LET r == boWork[w]
      found == IF r.depth /\ boDisk["binary"] # BoNone THEN boDisk["binary"] ELSE boDisk["surface"]
      world == [revision |-> r.revision, recent |-> TRUE, depth |-> r.depth /\ found # BoNone,
                surface |-> found, crossed |-> r.crossed]
  IN  /\ r.phase = "surfaces"
      /\ boWorld' = world /\ WorldAnswer(w, world)
      /\ UNCHANGED <<BoImages, boShare, boDisk, boLocks, boRefresh, boRequests, boChanges, boFaults>>

\* The build lock of its kind, and the second look into the cache.
WorldLock(w) ==
  LET r == boWork[w] IN
  /\ r.phase = "wait" /\ boLocks[r.depth] = BoNone
  /\ IF ~r.force /\ CacheServes(r.depth)
     THEN WorldAnswer(w, boWorld) /\ UNCHANGED boLocks
     ELSE /\ boLocks' = [boLocks EXCEPT ![r.depth] = w]
          /\ boWork' = [boWork EXCEPT ![w] = [phase |-> "discover", depth |-> r.depth]]
  /\ UNCHANGED <<BoImages, boShare, boWorld, boDisk, boRefresh, boRequests, boChanges, boFaults>>

\* The directories are listed; a cached world of the same revision is renewed.
WorldDiscover(w) ==
  LET r == boWork[w]
      revision == <<boShare, r.depth>>
      same == boWorld # BoNone /\ boWorld.revision = revision /\ (r.depth => boWorld.depth)
  IN  /\ r.phase = "discover"
      /\ IF same
         THEN /\ boWorld' = [boWorld EXCEPT !.recent = TRUE]
              /\ WorldAnswer(w, boWorld') /\ boLocks' = [boLocks EXCEPT ![r.depth] = BoNone]
         ELSE /\ boWork' = [boWork EXCEPT ![w] =
                   [phase |-> "build", depth |-> r.depth, revision |-> revision]]
              /\ UNCHANGED <<boWorld, boLocks>>
      /\ UNCHANGED <<BoImages, boShare, boDisk, boRefresh, boRequests, boChanges, boFaults>>

\* The files that a build writes, in order: manifest, surface, binary; only a
\* build with depth persists anything, and without a surface only the manifest.
WritesAlways(depth, surface) ==
  IF surface THEN <<"manifest", "surface", "binary">> ELSE <<"manifest">>

Writes(depth, surface) ==
  IF ~depth THEN <<>>
  ELSE IF surface THEN <<"manifest", "surface", "binary">> ELSE <<"manifest">>

\* Alignment and, with depth, the surface; build_d3img_surface may fail, and
\* then the world is built without it.
WorldBuild(w, surface) ==
  LET r == boWork[w] IN
  /\ r.phase = "build" /\ (surface => r.depth)
  /\ IF r.depth /\ ~surface THEN boFaults < MaxBoFaults /\ boFaults' = boFaults + 1
                            ELSE UNCHANGED boFaults
  /\ boWork' = [v \in BoWorker |->
       IF v = w THEN [phase |-> "persist", depth |-> r.depth, revision |-> r.revision,
                      surface |-> surface, left |-> Writes(r.depth, surface)]
       ELSE IF boWork[v].phase = "surfaces" THEN [boWork[v] EXCEPT !.crossed = TRUE]
       ELSE boWork[v]]
  /\ UNCHANGED <<BoImages, BoWorlds, boRefresh, boRequests, boChanges>>

\* write_bytes_atomic: the old file is removed, then the new one renamed.
PersistRemove(w) ==
  LET r == boWork[w] IN
  /\ r.phase = "persist" /\ r.left # <<>> /\ boDisk[r.left[1]] # BoNone
  /\ boDisk' = [boDisk EXCEPT ![r.left[1]] = BoNone]
  /\ UNCHANGED <<BoImages, boShare, boWorld, boLocks, boWork, boRefresh, boRequests, boChanges, boFaults>>

PersistRename(w) ==
  LET r == boWork[w] IN
  /\ r.phase = "persist" /\ r.left # <<>> /\ boDisk[r.left[1]] = BoNone
  /\ boDisk' = [boDisk EXCEPT ![r.left[1]] = r.revision]
  /\ boWork' = [boWork EXCEPT ![w].left = Tail(@)]
  /\ UNCHANGED <<BoImages, boShare, boWorld, boLocks, boRefresh, boRequests, boChanges, boFaults>>

\* The processed world enters the cache and the lock is released.
WorldInsert(w) ==
  LET r == boWork[w]
      world == [revision |-> r.revision, recent |-> TRUE, depth |-> r.depth,
                surface |-> IF r.surface THEN r.revision ELSE BoNone, crossed |-> FALSE]
  IN  /\ r.phase = "persist" /\ r.left = <<>>
      /\ boWorld' = world /\ WorldAnswer(w, world)
      /\ boLocks' = [boLocks EXCEPT ![r.depth] = BoNone]
      /\ UNCHANGED <<BoImages, boShare, boDisk, boRefresh, boRequests, boChanges, boFaults>>

\* A directory or a file that cannot be read or written ends the request.
WorldFails(w) ==
  LET r == boWork[w] IN
  /\ r.phase \in {"discover", "build", "persist"} /\ boFaults < MaxBoFaults
  /\ boFaults' = boFaults + 1
  /\ boLocks' = [boLocks EXCEPT ![r.depth] = BoNone]
  /\ boWork' = [boWork EXCEPT ![w] = BoIdle]
  /\ UNCHANGED <<BoImages, boShare, boWorld, boDisk, boRefresh, boRequests, boChanges>>

----------------------------------------------------------------------------
(* refresh_snapshot, in a loop of its own. *)

\* snapshot_value; what it loads is named by the request number.
RefreshLoad ==
  /\ boRefresh.phase = "idle" /\ boRequests < MaxBoRequests /\ boRequests' = boRequests + 1
  /\ boRefresh' = [boRefresh EXCEPT !.phase = "loaded", !.loaded = boRequests + 1]
  /\ UNCHANGED <<BoImages, BoWorlds, boWork, boChanges, boFaults>>

\* persist_source_catalog comes before the snapshot in memory is replaced; like
\* every file here the catalog is removed and then renamed into place.
RefreshRemove ==
  /\ boRefresh.phase = "loaded" /\ boRefresh.catalog # 0
  /\ boRefresh' = [boRefresh EXCEPT !.phase = "removed", !.catalog = 0]
  /\ UNCHANGED <<BoImages, BoWorlds, boWork, boRequests, boChanges, boFaults>>

RefreshCatalog ==
  /\ boRefresh.phase \in {"loaded", "removed"} /\ boRefresh.catalog = 0
  /\ boRefresh' = [boRefresh EXCEPT !.phase = "saved", !.catalog = boRefresh.loaded]
  /\ UNCHANGED <<BoImages, BoWorlds, boWork, boRequests, boChanges, boFaults>>

RefreshPublish ==
  /\ boRefresh.phase = "saved"
  /\ boRefresh' = [boRefresh EXCEPT !.phase = "idle", !.snapshot = boRefresh.loaded, !.error = FALSE]
  /\ UNCHANGED <<BoImages, BoWorlds, boWork, boRequests, boChanges, boFaults>>

\* The query, the write, the removal or the rename fails: the snapshot stays
\* and the error is kept.  At the start the service ends instead, which leaves
\* the same files.
RefreshFails ==
  /\ boRefresh.phase \in {"loaded", "removed"} /\ boFaults < MaxBoFaults /\ boFaults' = boFaults + 1
  /\ boRefresh' = [boRefresh EXCEPT !.phase = "idle", !.error = TRUE]
  /\ UNCHANGED <<BoImages, BoWorlds, boWork, boRequests, boChanges>>

----------------------------------------------------------------------------
(* The environment. *)

\* A file is written again in place.  The revision of a record is made of the
\* frame numbers alone and does not see it.
BoChange(f) ==
  /\ boChanges < MaxBoChanges /\ boFiles[f] + 1 \in DOMAIN BoSize
  /\ boFiles' = [boFiles EXCEPT ![f] = @ + 1] /\ boChanges' = boChanges + 1
  /\ UNCHANGED <<boCache, boBytes, boShare, boWorld, boDisk, boLocks, boWork, boRefresh, boRequests, boFaults>>

\* The acquisition adds frames to the record.
BoFrames ==
  /\ boChanges < MaxBoChanges /\ boChanges' = boChanges + 1 /\ boShare' = boShare + 1
  /\ UNCHANGED <<BoImages, boWorld, boDisk, boLocks, boWork, boRefresh, boRequests, boFaults>>

\* Two minutes pass.
BoAges ==
  /\ boChanges < MaxBoChanges /\ boWorld # BoNone /\ boWorld.recent
  /\ boWorld' = [boWorld EXCEPT !.recent = FALSE] /\ boChanges' = boChanges + 1
  /\ UNCHANGED <<BoImages, boShare, boDisk, boLocks, boWork, boRefresh, boRequests, boFaults>>

\* The service ends and starts again; the files stay.
BoCrash ==
  /\ boFaults < MaxBoFaults /\ boFaults' = boFaults + 1
  /\ boCache' = <<>> /\ boBytes' = 0 /\ boWorld' = BoNone
  /\ boLocks' = [depth \in BOOLEAN |-> BoNone]
  /\ boWork' = [w \in BoWorker |-> BoIdle]
  /\ boRefresh' = [boRefresh EXCEPT !.phase = "idle", !.snapshot = 0, !.error = FALSE]
  /\ UNCHANGED <<boFiles, boShare, boDisk, boRequests, boChanges>>

BoNext ==
  \/ \E w \in BoWorker :
       \/ \E f \in BoImage : ImageAsk(w, f)
       \/ ImageLookup(w) \/ ImageRead(w) \/ ImageFails(w) \/ ImageInsert(w) \/ BoAnswered(w)
       \/ \E depth, force \in BOOLEAN : WorldAsk(w, depth, force)
       \/ WorldManifest(w) \/ WorldSurfaces(w) \/ WorldLock(w) \/ WorldDiscover(w)
       \/ \E surface \in BOOLEAN : WorldBuild(w, surface)
       \/ PersistRemove(w) \/ PersistRename(w) \/ WorldInsert(w) \/ WorldFails(w)
  \/ RefreshLoad \/ RefreshRemove \/ RefreshCatalog \/ RefreshPublish \/ RefreshFails
  \/ \E f \in BoImage : BoChange(f)
  \/ BoFrames \/ BoAges \/ BoCrash

----------------------------------------------------------------------------
(* Properties. *)

\* The byte count of the image cache, which goes up and down with each insert,
\* removal and eviction, is the sum of what the cache holds; there is one entry
\* for an image, within both limits, under concurrent reads of one image.
CacheAccounted ==
  /\ boBytes = BoBytesOf(boCache) /\ boBytes <= BoMaxBytes
  /\ Len(boCache) <= BoMaxEntries
  /\ \A j, k \in DOMAIN boCache : boCache[j].image = boCache[k].image => j = k

\* An image answer is never older than the file was when the request arrived,
\* though a file may change between its metadata, the cache and the read.
ImageNotOlder ==
  \A w \in BoWorker : boWork[w].phase = "shown" => boWork[w].content >= boWork[w].meta

\* While nothing has failed and no build runs, the persisted files of a record
\* are of one build: there is a manifest exactly when both surface files are
\* there, with its revision (two builds, one under each lock, may overlap).
PersistedIsWhole ==
  (boFaults = 0 /\ \A w \in BoWorker : boWork[w].phase # "persist") =>
    boDisk["surface"] = boDisk["manifest"] /\ boDisk["binary"] = boDisk["manifest"]

\* Outside a rebuild a served world is of one build: the surface of the world in
\* memory, if it has one, is of the world's own revision, also when it was put
\* together from files, by a request that ran across others.
WorldOfOneBuild ==
  (boFaults = 0 /\ boWorld # BoNone) =>
    boWorld.crossed \/ boWorld.surface \in {BoNone, boWorld.revision}

\* The source catalog on disk is never older than the snapshot served from
\* memory.  It is the same one between refreshes, and it is missing only while
\* it is replaced or after a refresh whose failure last_error still tells.
CatalogNotBehind ==
  /\ boRefresh.catalog = 0 \/ boRefresh.snapshot <= boRefresh.catalog
  /\ (boRefresh.phase \in {"idle", "loaded"} /\ boRefresh.snapshot # 0 /\ ~boRefresh.error) =>
       boRefresh.catalog = boRefresh.snapshot

\* The caches and files of the online source do not run behind or apart,
\* whoever reads, builds or refreshes at the same time.
OnlineSafety ==
  /\ CacheAccounted
  /\ ImageNotOlder
  /\ PersistedIsWhole
  /\ WorldOfOneBuild
  /\ CatalogNotBehind

=============================================================================
