----------------------------- MODULE BkvBatches -----------------------------
(***************************************************************************)
(* A published BKV batch on disk and the two ways the service reads it     *)
(* (app/service/src/production_tasks.rs): the full load that an import and *)
(* a replay step make, and the compact serving index behind status,        *)
(* snapshot and file requests.  A batch is a record; what a test only      *)
(* accepts or refuses (a schema word, a path, a size limit) is a boolean,  *)
(* and a digest is the value it is the digest of:                          *)
(*   batch, located, schema, scope    the manifest's identity              *)
(*   manifest                         the manifest's bytes                 *)
(*   status, complete, depth, eligible, review   its verdict on itself     *)
(*   pointer, archives, declared      normalization pointer and content id *)
(*   publication                      the publication marker               *)
(*   tables, intact                   normalized files named / as hashed   *)
(*   material, check, defect          their rows, in file order: the SeqNo *)
(*                                    and the columns (a blank one is 0)   *)
(*   sized                            plates and defects have their numbers*)
(*   artifacts, stored                files named / the bytes now stored   *)
(***************************************************************************)
EXTENDS Naturals, Sequences, FiniteSets

CONSTANTS BkvItems,      \* how many SeqNos a batch has (11 in the code)
          BkvCameras     \* the channels of the machine (1..6 in the code)

ASSUME BkvAssumption == BkvItems \in Nat \ {0} /\ IsFiniteSet(BkvCameras)

BkvTables == {"allexcel", "checkrecord", "defect", "defectclass", "diameter"}

\* bkv_batch_content_id over bkv_manifest_content_document.
ContentId(d) == [archives |-> d.archives, scope |-> d.scope,
                 members |-> {<<a.path, a.hash>> : a \in d.artifacts}]

\* The start of load_bkv_batch: the manifest lies at <root>/<batch>/manifest.json
\* without links, parses, and speaks of the exact SeqNos.
ManifestReadable(d, b) == d.located /\ d.schema /\ d.batch = b /\ d.scope

\* The verdict of the manifest must follow from its own evidence ...
StatusAgrees(d) ==
  LET ready == d.complete /\ d.depth
  IN  \/ d.status = "ready" /\ ready /\ d.eligible /\ ~d.review
      \/ d.status = "partial" /\ ~ready /\ ~d.eligible /\ d.review
      \/ d.status = "failed" /\ ~d.eligible

\* ... and a partial batch needs the operator's review.
Admissible(d, reviewed) == d.status = "ready" \/ (d.status = "partial" /\ reviewed)

\* normalizationEvidence: the pointer, if there is one, is the file it hashes;
\* then the content id.
ContentBound(d) == d.pointer # "broken" /\ d.declared = ContentId(d)

\* publication.json is committed for this batch and content.
Published(d) ==
  d.publication.state = "committed" /\ d.publication.batch = d.batch
    /\ d.publication.content = d.declared

\* Every normalized table is there once, as hashed, with as many rows as
\* declared, and as the signed pointer says.
TablesIntact(d) == d.pointer # "differs" /\ d.tables = BkvTables /\ d.intact = BkvTables

\* bkv_open_readonly_nofollow, bkv_hash_file_with_deadline: the bytes of a
\* file are the ones its evidence names.
FileIntact(d, a) == d.stored[a.path] = a.hash

\* The artifact loop of load_bkv_batch.
ArtifactsIntact(d) ==
  /\ \A a, c \in d.artifacts : a.path = c.path => a = c
  /\ \A a \in d.artifacts : FileIntact(d, a) /\ a.item \in 1..BkvItems /\ a.camera \in BkvCameras

\* load_bkv_batch.
LoadBatch(d, b, reviewed) ==
  /\ ManifestReadable(d, b) /\ StatusAgrees(d) /\ Admissible(d, reviewed)
  /\ ContentBound(d) /\ Published(d) /\ TablesIntact(d) /\ ArtifactsIntact(d)

\* The semantic digest: what an import must find unchanged.
SemanticDigest(d) ==
  <<d.batch, d.declared, d.tables, d.material, d.check, d.defect, d.artifacts>>

\* bkv_row_value and bkv_row_text: the text of the first of these columns that
\* the row has, blank or not; 0 when it is blank or there is none.
RowText(row, names) ==
  LET present == SelectSeq(names, LAMBDA n : n \in DOMAIN row.columns)
  IN  IF present = <<>> THEN 0 ELSE row.columns[present[1]]

TimeColumns == <<"time", "checktime", "datetime", "detecttime", "createdat">>
KeyColumns == <<"id", "allexcelid", "checkrecordid", "defectid", "classId", "originalRowHash">>

\* The first row of an item, as a sequence of at most one row.
FirstRow(rows, i) ==
  LET own == SelectSeq(rows, LAMBDA r : r.item = i) IN IF own = <<>> THEN own ELSE <<own[1]>>

\* bkv_deterministic_id.
DeterministicId(b, kind, legacy) == <<b, kind, legacy>>

\* bkv_parent_inspection_legacy_id and bkv_parent_occurred_at, given the text
\* of the check row as a sequence of at most one: a check row without an id
\* falls back to the plate's, one without a time does not.
InspectionLegacy(check, legacy) == IF check = <<>> \/ check = <<0>> THEN legacy ELSE check[1]

OccurredAt(check, plate, i) ==
  LET time == IF check # <<>> THEN check[1] ELSE plate IN IF time = 0 THEN i ELSE time

\* The row references of an item in one table; a row without a key is named
\* by its line.
RowRefs(rows, i) ==
  {[line |-> n, hash |-> rows[n].columns["originalRowHash"],
    key |-> LET text == RowText(rows[n], KeyColumns) IN IF text = 0 THEN <<"line", n>> ELSE <<"text", text>>] :
     n \in {k \in DOMAIN rows : rows[k].item = i}}

\* The text of an optional row.
TextOf(rows, names) == [n \in DOMAIN rows |-> RowText(rows[n], names)]

\* The materials of bkv_validated_to_db: one inspection for each SeqNo.
FullMaterial(d, i) ==
  LET plate == FirstRow(d.material, i)[1]
      check == FirstRow(d.check, i)
      text == RowText(plate, <<"id", "allexcelid", "recordid", "originalRowHash">>)
      legacy == IF text = 0 THEN i ELSE text
      checked == TextOf(check, <<"id", "checkrecordid", "originalRowHash">>)
  IN  [id |-> DeterministicId(d.batch, "inspection", InspectionLegacy(checked, legacy)),
       material |-> DeterministicId(d.batch, "material", legacy),
       session |-> DeterministicId(d.batch, "session", legacy),
       time |-> OccurredAt(TextOf(check, TimeColumns), RowText(plate, TimeColumns), i),
       payload |-> [batch |-> d.batch, content |-> d.declared, item |-> i, legacy |-> legacy,
                    rows |-> <<RowRefs(d.material, i), RowRefs(d.check, i), RowRefs(d.defect, i)>>,
                    artifacts |-> {a \in d.artifacts : a.item = i}]]

\* Its capture files and its defects; the numbers of a defect must be there.
FullArtifacts(d, i) ==
  {[id |-> DeterministicId(d.batch, "capture", <<a.hash, a.path>>),
    inspection |-> FullMaterial(d, i).id, camera |-> a.camera, kind |-> a.kind,
    path |-> a.path] : a \in {x \in d.artifacts : x.item = i}}

FullDefects(d, i) ==
  {[id |-> DeterministicId(d.batch, "defect",
             LET text == RowText(d.defect[n], <<"id", "defectid", "originalRowHash">>)
             IN IF text = 0 THEN <<"place", i, n>> ELSE <<"text", text>>),
    inspection |-> FullMaterial(d, i).id, type |-> d.defect[n].columns["type"]] :
     n \in {k \in DOMAIN d.defect : d.defect[k].item = i}}

HasPlates(d) == \A i \in 1..BkvItems : FirstRow(d.material, i) # <<>>

\* The production_inspection row that import_bkv_batch inserts.
InspectionRow(d, i) ==
  LET m == FullMaterial(d, i)
  IN  [id |-> m.id, material |-> m.material, session |-> m.session, status |-> "completed",
       time |-> m.time, payload |-> m.payload,
       captures |-> Cardinality(FullArtifacts(d, i)), defects |-> Cardinality(FullDefects(d, i))]

\* bkv_validated_to_db succeeds.
Convertible(d) == HasPlates(d) /\ d.sized

CompactIdColumnsShared(table) == <<"id", "checkrecordid", "originalRowHash">>

\* The columns that name a row of a table in the compact reading.
CompactIdColumns(table) ==
  IF table = "allexcel" THEN <<"id", "allexcelid", "recordid", "originalRowHash">>
  ELSE <<"id", "checkrecordid", "originalRowHash">>

\* bkv_read_deterministic_mapping_file: a row is reduced as it is read, with the
\* number of its line; a plate without a name gets its SeqNo there and then.
CompactRow(table, row, line) ==
  LET name == RowText(row, CompactIdColumns(table))
      key == RowText(row, KeyColumns)
  IN  [item |-> row.item, line |-> line, hash |-> row.columns["originalRowHash"],
       key |-> IF key = 0 THEN <<"line", line>> ELSE <<"text", key>>,
       legacy |-> IF name = 0 /\ table = "allexcel" THEN row.item ELSE name,
       time |-> RowText(row, TimeColumns)]

CompactRows(table, rows) == [n \in DOMAIN rows |-> CompactRow(table, rows[n], n)]

CompactRefs(rows, i) ==
  {[line |-> r.line, hash |-> r.hash, key |-> r.key] : r \in {rows[n] : n \in {k \in DOMAIN rows : rows[k].item = i}}}

\* load_bkv_deterministic_inspection_map: the inspection of a SeqNo, from the
\* compact rows.
CompactMap(d, i) ==
  LET plates == CompactRows("allexcel", d.material)
      checks == CompactRows("checkrecord", d.check)
      defects == CompactRows("defect", d.defect)
      plate == FirstRow(plates, i)[1]
      check == FirstRow(checks, i)
      inspection == InspectionLegacy([n \in DOMAIN check |-> check[n].legacy], plate.legacy)
      own == {a \in d.artifacts : a.item = i}
  IN  [id |-> DeterministicId(d.batch, "inspection", inspection),
       material |-> DeterministicId(d.batch, "material", plate.legacy),
       session |-> DeterministicId(d.batch, "session", plate.legacy), status |-> "completed",
       time |-> OccurredAt([n \in DOMAIN check |-> check[n].time], plate.time, i),
       payload |-> [batch |-> d.batch, content |-> d.declared, item |-> i, legacy |-> plate.legacy,
                    rows |-> <<CompactRefs(plates, i), CompactRefs(checks, i), CompactRefs(defects, i)>>,
                    artifacts |-> own],
       captures |-> Cardinality(own),
       defects |-> Cardinality({n \in DOMAIN defects : defects[n].item = i})]

\* load_bkv_serving_index_with_deadline: the manifest and the publication are
\* byte for byte the imported ones; the artifacts are only named here.
ServingIndex(d, b, content, summary) ==
  /\ d.located /\ d.schema /\ d.batch = b /\ d.declared = content
  /\ d.manifest = summary.manifest /\ d.publication = summary.publication /\ Published(d)
  /\ \A a \in d.artifacts : a.item \in 1..BkvItems /\ a.camera \in BkvCameras
  /\ d.tables = BkvTables /\ d.intact = BkvTables /\ HasPlates(d)

\* verify_bkv_runtime_artifacts, and the channels that must be there.
ArtifactsVerified(d) == \A a \in d.artifacts : FileIntact(d, a)

AllChannels(artifacts) == {a.camera : a \in artifacts} = BkvCameras

=============================================================================
