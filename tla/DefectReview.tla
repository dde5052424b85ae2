----------------------------- MODULE DefectReview -----------------------------
(***************************************************************************)
(* Defect rows of the inspections: batches imported by the detection       *)
(* pipeline, detections ingested when the algorithm completes, and the     *)
(* operators' reviews (app/service/src/main.rs, app/service/src/db/mod.rs).*)
(*                                                                         *)
(* Imports, reviews and the ingest run one at a time under the production  *)
(* command lock (drLane); deleting a record or a defect type does not take *)
(* the lock and falls between their statements.  Inspection n belongs to   *)
(* steel flow n.  The pipeline names its defects after the flow, so a      *)
(* defect id belongs to one flow: <<flow, number>>.                        *)
(***************************************************************************)
EXTENDS Naturals, Sequences, FiniteSets, FiniteSetsExt

CONSTANTS
  FlowMaterial,   \* material of each steel flow, by flow number
  DefectNo,       \* numbers the pipeline gives to the defects of a flow
  DefectType,     \* configured and other classes
  DrSource,       \* algorithm sources
  Detection,      \* detections of the algorithm's manifest of a run
  MaxDrRequests,  \* bound: requests
  MaxDrFaults     \* bound: failed statements and crashes

Insp == 1 .. Len(FlowMaterial)
DefectId == Insp \X DefectNo
Status == {"pending", "confirmed", "false-positive"}

VARIABLES
  drInsp,        \* inspections whose record exists
  drRows,        \* imported production_defect rows by id; NoRow when absent
  drFound,       \* rows the ingest inserted, per inspection and detection
  drConfigured,  \* configured defect types
  drLane,        \* the request under the production command lock
  drBlind,       \* inspections whose existing rows once could not be read
  drRequests, drFaults

drVars == <<drInsp, drRows, drFound, drConfigured, drLane, drBlind, drRequests, drFaults>>

NoRow == [there |-> FALSE]
Unlocked == [at |-> "free"]

DrInit ==
  /\ drInsp = Insp
  /\ drRows = [d \in DefectId |-> NoRow]
  /\ drFound = [x \in Insp \X Detection |-> 0]
  /\ drConfigured \in {DefectType}
  /\ drLane = Unlocked
  /\ drBlind = {} /\ drRequests = 0 /\ drFaults = 0

DrBegin ==
  /\ drLane.at = "free" /\ drRequests < MaxDrRequests
  /\ drRequests' = drRequests + 1

-----------------------------------------------------------------------------
(* Import of a batch.                                                      *)

\* resolve_algorithm_steel_flow: a number names a flow, anything else the
\* latest flow of the material; 0 when there is none.
SteelFlowFor(ref) ==
  LET ofMaterial == {f \in Insp : FlowMaterial[f] = ref}
  IN IF \E f \in Insp : f = ref THEN ref
     ELSE IF ofMaterial = {} THEN 0 ELSE Max(ofMaterial)

UpsertedReclassified(row, i, source, type) ==
  [there |-> TRUE, insp |-> i, source |-> source, active |-> TRUE, type |-> type,
   review |-> IF row.there THEN row.review ELSE "pending",
   stamp |-> IF row.there THEN row.stamp ELSE 0]

\* upsert_imported_production_defect: a reviewed row keeps its classification.
Upserted(row, i, source, type) ==
  [there |-> TRUE, insp |-> i, source |-> source, active |-> TRUE,
   type |-> IF row.there /\ row.review # "pending" THEN row.type ELSE type,
   review |-> IF row.there THEN row.review ELSE "pending",
   stamp |-> IF row.there THEN row.stamp ELSE 0]

\* The rows of the source that the batch does not retain: pending ones are
\* deleted, reviewed ones superseded.
Replaced(row, i, source) ==
  IF row.there /\ row.insp = i /\ row.source = source
  THEN IF row.review = "pending" THEN NoRow ELSE [row EXCEPT !.active = FALSE]
  ELSE row

\* import_production_defects: one transaction; an id that another source owns
\* rolls it back.
Imported(i, source, type, ids, replace) ==
  IF \E d \in ids : drRows[d].there /\ drRows[d].source # source THEN drRows
  ELSE [d \in DefectId |->
          IF d \in ids THEN Upserted(drRows[d], i, source, type)
          ELSE IF replace THEN Replaced(drRows[d], i, source) ELSE drRows[d]]

\* write_production_defect_batch_response.
ImportBatch(ref, source, type, numbers, replace) ==
  LET i == SteelFlowFor(ref)
  IN /\ DrBegin
     /\ i \in drInsp
     /\ drRows' = Imported(i, source, type, {<<i, n>> : n \in numbers}, replace)
     /\ UNCHANGED <<drInsp, drFound, drConfigured, drLane, drBlind, drFaults>>

\* A reference to no flow, or to a flow without an inspection, is refused.
ImportRefused(ref) ==
  /\ DrBegin /\ SteelFlowFor(ref) \notin drInsp
  /\ UNCHANGED <<drInsp, drRows, drFound, drConfigured, drLane, drBlind, drFaults>>

-----------------------------------------------------------------------------
(* Review.                                                                 *)

\* review_production_defect refuses a row that is absent or superseded.
Reviewable(d) == drRows[d].there /\ drRows[d].active

\* write_production_defect_review_response up to the read of the row and the
\* look-up of the type it may name.
ReviewRead(d, status, type) ==
  /\ DrBegin
  /\ Reviewable(d) /\ type \in drConfigured
  /\ drLane' = [at |-> "review", d |-> d, status |-> status, type |-> type]
  /\ UNCHANGED <<drInsp, drRows, drFound, drConfigured, drBlind, drFaults>>

\* The update writes the review columns and the type, if the row is there.
ReviewWrite ==
  LET d == drLane.d
  IN /\ drLane.at = "review"
     /\ drRows' = IF drRows[d].there
                  THEN [drRows EXCEPT ![d].review = drLane.status, ![d].type = drLane.type,
                                      ![d].stamp = @ + 1]
                  ELSE drRows
     /\ drLane' = Unlocked
     /\ UNCHANGED <<drInsp, drFound, drConfigured, drBlind, drRequests, drFaults>>

-----------------------------------------------------------------------------
(* Detections of a completed algorithm run.                                *)

\* ingest_algorithm_detected_defects: a failed read counts as no rows.
IngestRead(i) ==
  /\ DrBegin /\ i \in drInsp
  /\ \E readable \in IF drFaults < MaxDrFaults THEN BOOLEAN ELSE {TRUE} :
       /\ drLane' = [at |-> "ingest", i |-> i, todo |-> Detection,
                     existing |-> IF readable THEN {x \in Detection : drFound[<<i, x>>] > 0}
                                  ELSE {}]
       /\ drBlind' = IF readable THEN drBlind ELSE drBlind \cup {i}
       /\ drFaults' = IF readable THEN drFaults ELSE drFaults + 1
  /\ UNCHANGED <<drInsp, drRows, drFound, drConfigured>>

\* A detection the inspection already has is skipped.
Skips(x) == x \in drLane.existing

\* One detection: skipped, inserted with its alarm, or left with its error.
IngestOne ==
  /\ drLane.at = "ingest" /\ drLane.todo # {}
  /\ LET x == CHOOSE y \in drLane.todo : TRUE
         k == <<drLane.i, x>>
     IN /\ drLane' = [drLane EXCEPT !.todo = @ \ {x}]
        /\ \E ok \in IF drFaults < MaxDrFaults THEN BOOLEAN ELSE {TRUE} :
             /\ drFound' = IF Skips(x) \/ ~ok THEN drFound
                           ELSE [drFound EXCEPT ![k] = @ + 1]
             /\ drFaults' = IF ok THEN drFaults ELSE drFaults + 1
  /\ UNCHANGED <<drInsp, drRows, drConfigured, drBlind, drRequests>>

IngestEnd ==
  /\ drLane.at = "ingest" /\ drLane.todo = {}
  /\ drLane' = Unlocked
  /\ UNCHANGED <<drInsp, drRows, drFound, drConfigured, drBlind, drRequests, drFaults>>

-----------------------------------------------------------------------------
(* Outside the lock, and failures.                                         *)

\* complete_record_cleanup deletes the inspection and its rows.
RecordDeleted(i) ==
  /\ i \in drInsp
  /\ drInsp' = drInsp \ {i}
  /\ drRows' = [d \in DefectId |-> IF drRows[d].there /\ drRows[d].insp = i THEN NoRow
                                   ELSE drRows[d]]
  /\ drFound' = [x \in Insp \X Detection |-> IF x[1] = i THEN 0 ELSE drFound[x]]
  /\ UNCHANGED <<drConfigured, drLane, drBlind, drRequests, drFaults>>

\* An administrator deletes a defect type.
TypeDeleted(t) ==
  /\ t \in drConfigured /\ drConfigured' = drConfigured \ {t}
  /\ UNCHANGED <<drInsp, drRows, drFound, drLane, drBlind, drRequests, drFaults>>

\* The request under the lock ends: a statement failed, or the service.
DrAbort ==
  /\ drLane.at # "free" /\ drFaults < MaxDrFaults /\ drFaults' = drFaults + 1
  /\ drLane' = Unlocked
  /\ UNCHANGED <<drInsp, drRows, drFound, drConfigured, drBlind, drRequests>>

DrRefs == Insp \cup {FlowMaterial[f] : f \in Insp}

DrNext ==
  \/ \E ref \in DrRefs :
       \/ \E source \in DrSource, type \in DefectType, numbers \in SUBSET DefectNo,
             replace \in BOOLEAN : ImportBatch(ref, source, type, numbers, replace)
       \/ ImportRefused(ref)
  \/ \E d \in DefectId, status \in Status, type \in DefectType : ReviewRead(d, status, type)
  \/ ReviewWrite \/ IngestOne \/ IngestEnd \/ DrAbort
  \/ \E i \in Insp : IngestRead(i) \/ RecordDeleted(i)
  \/ \E t \in DefectType : TypeDeleted(t)

DrSpec == DrInit /\ [][DrNext]_drVars

-----------------------------------------------------------------------------
(* Properties.                                                             *)

\* A row is whole and belongs to the inspection its id names; rows exist only
\* while their record does.
DrTypeOK ==
  /\ \A d \in DefectId :
       drRows[d].there =>
         /\ drRows[d].insp = d[1] /\ drRows[d].insp \in drInsp
         /\ drRows[d].source \in DrSource /\ drRows[d].type \in DefectType
         /\ drRows[d].review \in Status /\ drRows[d].active \in BOOLEAN
  /\ drLane.at \in {"free", "review", "ingest"}

\* An operator's decision survives every rebuild: while the record exists, a
\* reviewed row is not deleted, and its decision and classification change
\* only by another review (import_production_defects).
DecisionKept ==
  \A d \in DefectId :
    drRows[d].there /\ drRows[d].review # "pending" /\ drRows[d].insp \in drInsp'
      => /\ drRows'[d].there
         /\ drRows'[d].stamp = drRows[d].stamp
              => /\ drRows'[d].review = drRows[d].review
                 /\ drRows'[d].type = drRows[d].type

\* What is superseded is a decision: an inactive row was reviewed, and a
\* review that resets a row to pending, whenever it was read, finds it active.
SupersededWasReviewed ==
  \A d \in DefectId : drRows[d].there /\ ~drRows[d].active => drRows[d].review # "pending"

\* A repeated completion adds no detection twice, though an earlier one broke
\* off half-way, unless the existing rows could not be read
\* (ingest_algorithm_detected_defects).
DetectionsOnce ==
  \A i \in Insp \ drBlind, x \in Detection : drFound[<<i, x>>] <= 1

\* A rebuild keeps the operators' decisions, supersedes nothing else and adds
\* no detection twice.
ReviewSteps ==
  [][DecisionKept /\ DrTypeOK' /\ SupersededWasReviewed' /\ DetectionsOnce']_drVars

=============================================================================
