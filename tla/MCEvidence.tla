----------------------------- MODULE MCEvidence -----------------------------
(* The components that record, keep and show what was inspected, none of     *)
(* which shares state with another here: production sessions, the cleanup of *)
(* records, the processing log, the three BKV sources, the result store and  *)
(* the image service.  Every behaviour is one of the component named by      *)
(* "subject", so that one run explores each of them.                         *)
EXTENDS ProductionSessions, RecordCleanup, ProcessingLog, BkvReplay,
        BkvCursor, BkvOnline, ResultStore, ImageRenditions, TLC

CONSTANTS Subjects, s1, s2, m1, m2, f1, f2, batchA, batchB

VARIABLE subject

evidenceVars == <<subject, psVars, rcVars, plVars, bkVars, bcVars, boVars, rsVars, imVars>>

\* Requests of production: their kind, what they name, and their frames.
Ask(kind, material, session, source, frames) ==
  [kind |-> kind, material |-> material, session |-> session, source |-> source, frames |-> frames]

SessionRequests ==
  {Ask("steel-info", m2, NoSession, "silent", {}), Ask("steel-in", m1, s1, "silent", {}),
   Ask("steel-in", NoMaterial, NoSession, "online", {}), Ask("steel-in", m2, NoSession, "dataset-1", {}),
   Ask("steel-out", NoMaterial, NoSession, "silent", {}),
   Ask("trigger-event", NoMaterial, NoSession, "dataset-2", {}),
   Ask("capture-commit", NoMaterial, s1, "silent", {f1}),
   Ask("capture-commit", NoMaterial, s1, "silent", {f1, f2}),
   Ask("capture-once", NoMaterial, NoSession, "silent", {f1}),
   Ask("capture-summary", m1, NoSession, "online", {f2}),
   Ask("algorithm-run", NoMaterial, NoSession, "silent", {})}

\* Announcements and entries of plates alone.
EntryRequests == {r \in SessionRequests : r.kind \in {"steel-info", "steel-in"}}

\* Rows of the normalized tables: with and without an id column, with a blank
\* one, with a check row that has no time, or none.
Row(i, columns, hash) == [item |-> i, columns |-> columns @@ ("originalRowHash" :> hash)]

PlateRows(v) ==
  CASE v = 1 -> <<Row(1, ("id" :> 11) @@ ("time" :> 101), 51), Row(2, ("allexcelid" :> 12), 52)>>
    [] v = 2 -> <<Row(2, ("id" :> 0) @@ ("recordid" :> 22) @@ ("createdat" :> 102), 53),
                  Row(1, ("recordid" :> 21) @@ ("time" :> 0), 54)>>
    [] OTHER -> <<Row(1, ("time" :> 103), 55), Row(2, ("id" :> 32), 56), Row(1, ("id" :> 31), 57)>>

CheckRows(v) ==
  CASE v = 1 -> <<Row(2, ("checkrecordid" :> 42) @@ ("checktime" :> 0), 61)>>
    [] v = 2 -> <<Row(1, ("id" :> 0) @@ ("checkrecordid" :> 41), 62), Row(2, ("datetime" :> 105), 63)>>
    [] OTHER -> <<Row(1, ("id" :> 43), 64), Row(1, ("id" :> 44) @@ ("time" :> 106), 65)>>

DefectRows(v) ==
  CASE v = 1 -> <<Row(1, ("id" :> 0) @@ ("type" :> "scratch"), 71)>>
    [] v = 2 -> <<Row(2, ("defectid" :> 72) @@ ("type" :> "scratch"), 73),
                  Row(2, "type" :> "scratch", 74)>>
    [] OTHER -> <<>>

\* Documents of a BKV batch: two plates of one camera, version v of the bytes.
BatchPaths == {<<i, c>> : i \in 1..2, c \in BkvCameras}
BatchArtifacts(v) ==
  {[path |-> p, item |-> p[1], camera |-> p[2], kind |-> "depth", hash |-> v] : p \in BatchPaths}
Batch(b, v) ==
  LET artifacts == BatchArtifacts(v)
      content == [archives |-> v, scope |-> TRUE, members |-> {<<a.path, a.hash>> : a \in artifacts}]
  IN  [batch |-> b, located |-> TRUE, schema |-> TRUE, scope |-> TRUE, manifest |-> v,
       status |-> "ready", complete |-> TRUE, depth |-> TRUE, eligible |-> TRUE, review |-> FALSE,
       pointer |-> "agrees", archives |-> v, declared |-> content,
       publication |-> [state |-> "committed", batch |-> b, content |-> content],
       tables |-> BkvTables, intact |-> BkvTables,
       material |-> PlateRows(v), check |-> CheckRows(v), defect |-> DefectRows(v), sized |-> TRUE,
       artifacts |-> artifacts, stored |-> [p \in BatchPaths |-> v]]

PartialBatch(d) ==
  [d EXCEPT !.status = "partial", !.complete = FALSE, !.eligible = FALSE, !.review = TRUE]
DamagedBatch(d) == [d EXCEPT !.stored[<<2, 1>>] = 99]

BatchDocuments ==
  (batchA :> {Batch(batchA, 1), DamagedBatch(Batch(batchA, 1)), Batch(batchA, 2)})
    @@ (batchB :> {PartialBatch(Batch(batchB, 3)), Batch(batchB, 1)})

FirstDisk == (batchA :> Batch(batchA, 1)) @@ (batchB :> PartialBatch(Batch(batchB, 3)))

\* Manifests of recorded plates: two, one of them, others, and out of order.
Recorded(n) == [seq |-> n, cameras |-> 6, frames |-> TRUE, files |-> TRUE, preview |-> TRUE]
Recording(b, plates) == [batch |-> b, schema |-> TRUE, previews |-> TRUE, materials |-> plates]
Recordings ==
  {Recording(1, <<Recorded(1), Recorded(2)>>), Recording(1, <<Recorded(1)>>),
   Recording(2, <<Recorded(2), Recorded(3)>>), Recording(3, <<Recorded(2), Recorded(1)>>)}

\* The second image of the share takes the whole cache, as does a large preview.
ShareSizes == <<1, 2>>
RenditionSizes == [p \in {"xl", "small", "tile"} |-> IF p = "xl" THEN 2 ELSE 1]

EvidenceSymmetry == Permutations(ImWorker)

\* A component that is not the subject starts in one state and stays there.
EvidenceInit ==
  /\ subject \in Subjects
  /\ PsInit
  /\ RcInit
  /\ subject # "cleanup" => \A f \in CacheFile : rcDisk[f] = "absent"
  /\ PlInit
  /\ BkInit
  /\ bkDisk = FirstDisk
  /\ BcInit
  /\ subject # "cursor" => bcManifest = CHOOSE m \in BcManifests : TRUE
  /\ BoInit
  /\ RsInit
  /\ subject # "results" => rsInput = [i \in RsId |-> 0] /\ rsLegacy = [i \in RsId |-> 0]
  /\ ImInit

EvidenceNext ==
  /\ UNCHANGED subject
  /\ \/ /\ subject = "sessions" /\ PsNext
        /\ UNCHANGED <<rcVars, plVars, bkVars, bcVars, boVars, rsVars, imVars>>
     \/ /\ subject = "cleanup" /\ RcNext
        /\ UNCHANGED <<psVars, plVars, bkVars, bcVars, boVars, rsVars, imVars>>
     \/ /\ subject = "log" /\ PlNext
        /\ UNCHANGED <<psVars, rcVars, bkVars, bcVars, boVars, rsVars, imVars>>
     \/ /\ subject = "replay" /\ BkNext
        /\ UNCHANGED <<psVars, rcVars, plVars, bcVars, boVars, rsVars, imVars>>
     \/ /\ subject = "cursor" /\ BcNext
        /\ UNCHANGED <<psVars, rcVars, plVars, bkVars, boVars, rsVars, imVars>>
     \/ /\ subject = "online" /\ BoNext
        /\ UNCHANGED <<psVars, rcVars, plVars, bkVars, bcVars, rsVars, imVars>>
     \/ /\ subject = "results" /\ RsNext
        /\ UNCHANGED <<psVars, rcVars, plVars, bkVars, bcVars, boVars, imVars>>
     \/ /\ subject = "images" /\ ImNext
        /\ UNCHANGED <<psVars, rcVars, plVars, bkVars, bcVars, boVars, rsVars>>

EvidenceSpec == EvidenceInit /\ [][EvidenceNext]_evidenceVars

=============================================================================
