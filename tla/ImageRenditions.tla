--------------------------- MODULE ImageRenditions ---------------------------
(***************************************************************************)
(* The image service (app/image-service/src): a request resolves an        *)
(* artifact to the identity of its blob (catalog.rs), and is answered from *)
(* the rendition cache in memory or on disk (cache.rs), or by one worker   *)
(* that decodes the blob (image_codec.rs) and encodes the rendition while  *)
(* the others who want the same wait at a gate.  Gates are kept weakly:    *)
(* one lasts as long as somebody holds it.                                 *)
(***************************************************************************)
EXTENDS Naturals, Sequences, FiniteSets, SequencesExt

CONSTANTS ImArtifact, ImWorker,
          ImProfiles,          \* profiles of previews, and "tile"
          ImSize,              \* profile -> size of its rendition
          ImMaxBytes,          \* STEEL_IMAGE_RAM_CACHE_BYTES
          ImMaxDecoded,        \* the decoded images that fit in memory
          ImMaxSources,        \* STEEL_IMAGE_CATALOG_CACHE_ENTRIES
          MaxImIdentity,       \* publications of an artifact
          MaxImRequests, MaxImFaults

VARIABLES imCatalog,    \* artifact -> identity of its blob
          imSources,    \* artifacts resolved, oldest first: [artifact, identity]
          imMemory,     \* renditions in memory, oldest first: [key, of, size]
          imDisk,       \* renditions on disk: [key, of]
          imDecoded,    \* identities decoded, oldest first
          imWork,       \* worker -> request
          imRequests, imFaults

imVars == <<imCatalog, imSources, imMemory, imDisk, imDecoded, imWork, imRequests, imFaults>>

ImIdle == [phase |-> "idle"]

ImInit ==
  /\ imCatalog = [a \in ImArtifact |-> 1] /\ imSources = <<>>
  /\ imMemory = <<>> /\ imDisk = {} /\ imDecoded = <<>>
  /\ imWork = [w \in ImWorker |-> ImIdle] /\ imRequests = 0 /\ imFaults = 0

-----------------------------------------------------------------------------
(* The caches. *)

ImBytes(cache) == FoldSeq(LAMBDA e, n : n + e.size, 0, cache)

\* ByteLruCache::insert: an entry that fits replaces its predecessor, and the
\* oldest go until the bytes fit.
LruAppendedOver(cache, e) ==
  LET full == Append(cache, e)
      keep == {n \in 1..Len(full) : ImBytes(SubSeq(full, n, Len(full))) <= ImMaxBytes}
  IN  SubSeq(full, CHOOSE n \in keep : \A k \in keep : n <= k, Len(full))

LruInserted(cache, e) ==
  IF e.size > ImMaxBytes THEN cache ELSE LruAppendedOver(SelectSeq(cache, LAMBDA x : x.key # e.key), e)

\* ByteLruCache::get moves the entry to the back.
LruTouched(cache, e) == Append(SelectSeq(cache, LAMBDA x : x # e), e)

\* The decoded images, which are all of one size.
DecodedInserted(identity) ==
  LET full == Append(SelectSeq(imDecoded, LAMBDA x : x # identity), identity)
  IN  IF ImMaxDecoded = 0 THEN imDecoded
      ELSE SubSeq(full, (IF Len(full) > ImMaxDecoded THEN Len(full) - ImMaxDecoded ELSE 0) + 1, Len(full))

\* ArtifactCatalog::resolve: room is made before the entry is inserted.
SourceInserted(a, identity) ==
  LET drop == IF Len(imSources) >= ImMaxSources THEN Len(imSources) - ImMaxSources + 1 ELSE 0
      rest == SubSeq(imSources, drop + 1, Len(imSources))
  IN  IF ImMaxSources = 0 THEN imSources
      ELSE Append(SelectSeq(rest, LAMBDA x : x.artifact # a), [artifact |-> a, identity |-> identity])

RenditionKey(identity, a, profile) == <<identity, a, profile>>

KeyOf(r) == RenditionKey(r.identity, r.artifact, r.profile)

InMemory(key) == {n \in 1..Len(imMemory) : imMemory[n].key = key}
OnDisk(key) == {e \in imDisk : e.key = key}

-----------------------------------------------------------------------------
(* Gates. *)

Waits(kind) == IF kind = "rendition" THEN {"lock"} ELSE {"decode-lock"}
Inside(kind) ==
  IF kind = "rendition"
  THEN {"recheck", "decode", "decode-gate", "decode-lock", "decode-recheck", "decoding", "encode", "store"}
  ELSE {"decode-recheck", "decoding"}

Wanted(kind, r) == IF kind = "rendition" THEN KeyOf(r) ELSE r.identity
GateIn(kind, r) == IF kind = "rendition" THEN r.gate ELSE r.decodeGate

\* The workers who hold a gate: those who wait at it and the one inside.
Holders(kind) == {w \in ImWorker : imWork[w].phase \in Waits(kind) \cup Inside(kind)}

FreshGate(kind) == CHOOSE g \in 1..(Cardinality(ImWorker)) : \A w \in Holders(kind) : GateIn(kind, imWork[w]) # g

\* build_lock: the gate that somebody still holds, or a new one.
BuildLockNew(kind, r) == FreshGate(kind)

BuildLock(kind, r) ==
  LET same == {w \in Holders(kind) : Wanted(kind, imWork[w]) = Wanted(kind, r)}
  IN  IF same = {} THEN FreshGate(kind) ELSE GateIn(kind, imWork[CHOOSE w \in same : TRUE])

\* A gate opens when nobody is inside it; the two caches have their own.
GateFreeOfBoth(kind, gate) ==
  ~\E u \in ImWorker, k \in {"rendition", "decoded"} :
     imWork[u].phase \in Inside(k) /\ GateIn(k, imWork[u]) = gate

GateFree(kind, gate) ==
  ~\E u \in ImWorker : imWork[u].phase \in Inside(kind) /\ GateIn(kind, imWork[u]) = gate

-----------------------------------------------------------------------------
(* Requests. *)

ImStep(w, phase) == imWork' = [imWork EXCEPT ![w].phase = phase]
ImAnswer(w, of) == imWork' = [imWork EXCEPT ![w].phase = "answer", ![w].of = of]

\* serve of rendition.rs and tile.rs
ImRequest(w, a, profile, live) ==
  /\ imWork[w] = ImIdle /\ imRequests < MaxImRequests /\ imRequests' = imRequests + 1
  /\ profile = "tile" => ~live
  /\ imWork' = [imWork EXCEPT ![w] = [phase |-> "resolve", artifact |-> a, profile |-> profile,
                                      live |-> live, identity |-> 0, gate |-> 0, decodeGate |-> 0,
                                      unread |-> FALSE, of |-> 0]]
  /\ UNCHANGED <<imCatalog, imSources, imMemory, imDisk, imDecoded, imFaults>>

\* Where a resolved request goes: a live one does not look into the cache.
Resolved(r) == IF r.live THEN "gate" ELSE "lookup"

\* resolve: the artifact was resolved before, or the catalogue is asked ...
ImResolve(w) ==
  LET r == imWork[w]
      known == {n \in 1..Len(imSources) : imSources[n].artifact = r.artifact}
  IN  /\ r.phase = "resolve"
      /\ IF known # {}
         THEN LET e == imSources[CHOOSE n \in known : TRUE] IN
              /\ imSources' = LruTouched(imSources, e)
              /\ imWork' = [imWork EXCEPT ![w].phase = Resolved(r), ![w].identity = e.identity]
         ELSE /\ imWork' = [imWork EXCEPT ![w].phase = "resolved", ![w].identity = imCatalog[r.artifact]]
              /\ UNCHANGED imSources
      /\ UNCHANGED <<imCatalog, imMemory, imDisk, imDecoded, imRequests, imFaults>>

\* ... and its answer remembered.
ImRemember(w) ==
  LET r == imWork[w] IN
  /\ r.phase = "resolved"
  /\ imSources' = SourceInserted(r.artifact, r.identity)
  /\ ImStep(w, Resolved(r))
  /\ UNCHANGED <<imCatalog, imMemory, imDisk, imDecoded, imRequests, imFaults>>

Looks(phase) == phase \in {"lookup", "recheck"}

\* RenditionCache::get: memory, then the disk.  A file that cannot be read, or
\* is empty, counts as a miss.
CacheGet(w, phase, miss) ==
  LET r == imWork[w]
      key == KeyOf(r)
      memory == IF Looks(phase) THEN InMemory(key) ELSE {}
      disk == IF Looks(phase) THEN OnDisk(key) ELSE {}
  IN  /\ r.phase = phase
      /\ \/ /\ memory # {}
            /\ LET e == imMemory[CHOOSE n \in memory : TRUE] IN
               imMemory' = LruTouched(imMemory, e) /\ ImAnswer(w, e.of)
            /\ UNCHANGED imFaults
         \/ /\ memory = {} /\ disk # {}
            /\ LET e == CHOOSE e \in disk : TRUE IN
               /\ imMemory' = LruInserted(imMemory, [key |-> key, of |-> e.of, size |-> ImSize[r.profile]])
               /\ ImAnswer(w, e.of)
            /\ UNCHANGED imFaults
         \/ /\ memory = {} /\ (disk # {} => imFaults < MaxImFaults)
            /\ imWork' = [imWork EXCEPT ![w].phase = miss, ![w].unread = disk # {}]
            /\ imFaults' = IF disk # {} THEN imFaults + 1 ELSE imFaults
            /\ UNCHANGED imMemory
      /\ UNCHANGED <<imCatalog, imSources, imDisk, imDecoded, imRequests>>

ImLookup(w) == CacheGet(w, "lookup", IF imWork[w].profile = "tile" THEN "tile" ELSE "gate")

ImRecheck(w) == CacheGet(w, "recheck", "decode")

\* A tile is rendered at once, for memory alone.
ImTile(w) ==
  LET r == imWork[w] IN
  /\ r.phase = "tile"
  /\ imMemory' = LruInserted(imMemory, [key |-> KeyOf(r), of |-> r.identity, size |-> ImSize[r.profile]])
  /\ ImAnswer(w, r.identity)
  /\ UNCHANGED <<imCatalog, imSources, imDisk, imDecoded, imRequests, imFaults>>

ImGate(w) ==
  /\ imWork[w].phase = "gate"
  /\ imWork' = [imWork EXCEPT ![w].phase = "lock", ![w].gate = BuildLock("rendition", imWork[w])]
  /\ UNCHANGED <<imCatalog, imSources, imMemory, imDisk, imDecoded, imRequests, imFaults>>

ImLock(w) ==
  /\ imWork[w].phase = "lock" /\ GateFree("rendition", imWork[w].gate)
  /\ ImStep(w, IF imWork[w].live THEN "decode" ELSE "recheck")
  /\ UNCHANGED <<imCatalog, imSources, imMemory, imDisk, imDecoded, imRequests, imFaults>>

\* DecodedImageCache::load: looked up, a gate of its own, looked up again.
DecodedGet(w, phase, miss) ==
  LET r == imWork[w] IN
  /\ r.phase = phase
  /\ IF Contains(imDecoded, r.identity)
     THEN imDecoded' = LruTouched(imDecoded, r.identity) /\ ImStep(w, "encode")
     ELSE UNCHANGED imDecoded /\ ImStep(w, miss)
  /\ UNCHANGED <<imCatalog, imSources, imMemory, imDisk, imRequests, imFaults>>

ImDecodedLookup(w) == DecodedGet(w, "decode", "decode-gate")
ImDecodedRecheck(w) == DecodedGet(w, "decode-recheck", "decoding")

ImDecodeGate(w) ==
  /\ imWork[w].phase = "decode-gate"
  /\ imWork' = [imWork EXCEPT ![w].phase = "decode-lock", ![w].decodeGate = BuildLock("decoded", imWork[w])]
  /\ UNCHANGED <<imCatalog, imSources, imMemory, imDisk, imDecoded, imRequests, imFaults>>

ImDecodeLock(w) ==
  /\ imWork[w].phase = "decode-lock" /\ GateFree("decoded", imWork[w].decodeGate)
  /\ ImStep(w, "decode-recheck")
  /\ UNCHANGED <<imCatalog, imSources, imMemory, imDisk, imDecoded, imRequests, imFaults>>

ImDecode(w) ==
  /\ imWork[w].phase = "decoding"
  /\ imDecoded' = DecodedInserted(imWork[w].identity)
  /\ ImStep(w, "encode")
  /\ UNCHANGED <<imCatalog, imSources, imMemory, imDisk, imRequests, imFaults>>

ImEncode(w) ==
  /\ imWork[w].phase = "encode"
  /\ IF imWork[w].live THEN ImAnswer(w, imWork[w].identity) ELSE ImStep(w, "store")
  /\ UNCHANGED <<imCatalog, imSources, imMemory, imDisk, imDecoded, imRequests, imFaults>>

\* RenditionCache::store; when the disk refuses, memory alone.
ImStore(w, stored) ==
  LET r == imWork[w]
      e == [key |-> KeyOf(r), of |-> r.identity]
  IN  /\ r.phase = "store"
      /\ ~stored => imFaults < MaxImFaults
      /\ imFaults' = IF stored THEN imFaults ELSE imFaults + 1
      /\ imDisk' = IF stored /\ OnDisk(e.key) = {} THEN imDisk \cup {e} ELSE imDisk
      /\ imMemory' = LruInserted(imMemory, [key |-> e.key, of |-> e.of, size |-> ImSize[r.profile]])
      /\ ImAnswer(w, r.identity)
      /\ UNCHANGED <<imCatalog, imSources, imDecoded, imRequests>>

\* Decoding or encoding fails: the request is answered and its gates left.
ImCodecFails(w) ==
  LET r == imWork[w] IN
  /\ r.phase \in {"decoding", "encode", "tile"} /\ imFaults < MaxImFaults /\ imFaults' = imFaults + 1
  /\ imWork' = [imWork EXCEPT ![w].phase = "answer", ![w].of = r.identity]
  /\ UNCHANGED <<imCatalog, imSources, imMemory, imDisk, imDecoded, imRequests>>

ImDone(w) ==
  /\ imWork[w].phase = "answer"
  /\ imWork' = [imWork EXCEPT ![w] = ImIdle]
  /\ UNCHANGED <<imCatalog, imSources, imMemory, imDisk, imDecoded, imRequests, imFaults>>

\* External: a result is published again with another blob.
ImRepublish(a) ==
  /\ imCatalog[a] < MaxImIdentity
  /\ imCatalog' = [imCatalog EXCEPT ![a] = @ + 1]
  /\ UNCHANGED <<imSources, imMemory, imDisk, imDecoded, imWork, imRequests, imFaults>>

\* The service restarts with what is on disk.
ImRestart ==
  /\ imFaults < MaxImFaults /\ imFaults' = imFaults + 1
  /\ imSources' = <<>> /\ imMemory' = <<>> /\ imDecoded' = <<>>
  /\ imWork' = [w \in ImWorker |-> ImIdle]
  /\ UNCHANGED <<imCatalog, imDisk, imRequests>>

ImWorkerStep(w) ==
  \/ ImResolve(w) \/ ImRemember(w) \/ ImLookup(w) \/ ImTile(w)
  \/ ImGate(w) \/ ImLock(w) \/ ImRecheck(w)
  \/ ImDecodedLookup(w) \/ ImDecodeGate(w) \/ ImDecodeLock(w) \/ ImDecodedRecheck(w) \/ ImDecode(w)
  \/ ImEncode(w) \/ (\E stored \in BOOLEAN : ImStore(w, stored)) \/ ImDone(w)

ImNext ==
  \/ \E w \in ImWorker, a \in ImArtifact, profile \in ImProfiles, live \in BOOLEAN : ImRequest(w, a, profile, live)
  \/ \E w \in ImWorker : ImWorkerStep(w) \/ ImCodecFails(w)
  \/ \E a \in ImArtifact : ImRepublish(a)
  \/ ImRestart

\* Threads are scheduled, and a mutex that is free is given to a waiter.
ImFairness == \A w \in ImWorker : WF_imVars(ImWorkerStep(w))

-----------------------------------------------------------------------------
(* Properties. *)

\* The bytes in memory are within the limit and each rendition is there once
\* (so the running count of ByteLruCache is the sum of its entries), and no
\* more sources and decoded images are kept than allowed.
RenditionsBounded ==
  /\ ImBytes(imMemory) <= ImMaxBytes
  /\ \A m, n \in 1..Len(imMemory) : imMemory[m].key = imMemory[n].key => m = n
  /\ Len(imSources) <= ImMaxSources /\ Len(imDecoded) <= ImMaxDecoded

\* No two workers build the same rendition or decode the same image at once,
\* though the gate they meet at is forgotten whenever nobody holds it.
BuildsAreExclusive ==
  \A kind \in {"rendition", "decoded"} : \A u, w \in ImWorker :
    (u # w /\ imWork[u].phase \in Inside(kind) /\ imWork[w].phase \in Inside(kind))
      => Wanted(kind, imWork[u]) # Wanted(kind, imWork[w])

\* A worker who waited for another's rendition does not render it again: a
\* rendition on disk is not rendered, except for a live view or when its file
\* could not be read.
StoredNotRebuilt ==
  \A w \in ImWorker :
    (/\ imWork[w].phase \in Inside("rendition") \ {"recheck"}
     /\ ~imWork[w].live /\ ~imWork[w].unread) => OnDisk(KeyOf(imWork[w])) = {}

\* What is answered is the image of the blob the request was resolved to,
\* whichever cache it came from and whatever was published meanwhile.
ServedMatchesSource == \A w \in ImWorker : imWork[w].phase = "answer" => imWork[w].of = imWork[w].identity

\* Renditions are built once, from the right source, within the memory allowed.
RenditionSafety ==
  /\ RenditionsBounded
  /\ BuildsAreExclusive
  /\ StoredNotRebuilt
  /\ ServedMatchesSource

\* Every request is answered: nobody waits for ever at the two gates, nested
\* as they are, when the holder fails.
RequestsAnswered == \A w \in ImWorker : (imWork[w].phase # "idle") ~> (imWork[w].phase = "idle")

=============================================================================
