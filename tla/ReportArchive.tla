---------------------------- MODULE ReportArchive ----------------------------
(***************************************************************************)
(* Issued inspection reports of one inspection (app/service/src/main.rs).  *)
(* A report is a file named after the digest of the snapshot it holds, so  *)
(* a file is identified with the version of the record it was issued from. *)
(* Requests run concurrently; the file system is touched one call at a     *)
(* time, and the service may stop between creating and writing a file.     *)
(***************************************************************************)
EXTENDS Naturals, Sequences

CONSTANTS
  Issuer,      \* concurrent requests that issue a report
  MaxVersion,  \* bound: versions of the record
  MaxIssues,   \* bound: issue requests
  MaxReads,    \* bound: list and detail requests
  MaxArFaults  \* bound: failed writes and stops of the service

ASSUME ArchiveAssumption == MaxVersion \in Nat \ {0}

NoFile == [state |-> "none"]
Torn == [state |-> "torn"]
Version == 1 .. MaxVersion

VARIABLES
  arVersion,  \* current version of the inspection record; 0 when deleted
  arFile,     \* archive file per version: none, torn or whole
  arReq,      \* what each issuer is doing
  arServed,   \* the last answer of the list or the detail request
  arIssues, arReads, arFaults

arVars == <<arVersion, arFile, arReq, arServed, arIssues, arReads, arFaults>>

Idle == [at |-> "idle"]

ArInit ==
  /\ arVersion = 1
  /\ arFile = [v \in Version |-> NoFile]
  /\ arReq = [i \in Issuer |-> Idle]
  /\ arServed = [kind |-> "none"]
  /\ arIssues = 0 /\ arReads = 0 /\ arFaults = 0

\* validate_inspection_report_archive: a torn file does not parse, and the
\* digest of the document has to be the one in the name.
ValidArchive(file, v) == file.state = "whole" /\ file.document = v

\* issue_inspection_report_at up to the snapshot.
IssueSnapshot(i) ==
  /\ arReq[i].at = "idle" /\ arIssues < MaxIssues /\ arVersion # 0
  /\ arReq' = [arReq EXCEPT ![i] = [at |-> "look", v |-> arVersion]]
  /\ arIssues' = arIssues + 1
  /\ UNCHANGED <<arVersion, arFile, arServed, arReads, arFaults>>

\* An archive that is there is answered when it is valid, else an error.
IssueLook(i) ==
  LET v == arReq[i].v
  IN /\ arReq[i].at = "look"
     /\ arReq' = [arReq EXCEPT ![i] =
          IF arFile[v] = NoFile THEN [at |-> "create", v |-> v]
          ELSE IF ValidArchive(arFile[v], v) THEN [at |-> "issued", v |-> v, created |-> FALSE]
          ELSE [at |-> "error"]]
     /\ UNCHANGED <<arVersion, arFile, arServed, arIssues, arReads, arFaults>>

\* create_new: the file must not exist.
MayCreate(v) == arFile[v] = NoFile

IssueCreate(i) ==
  LET v == arReq[i].v
  IN /\ arReq[i].at = "create"
     /\ arFile' = IF MayCreate(v) THEN [arFile EXCEPT ![v] = Torn] ELSE arFile
     /\ arReq' = [arReq EXCEPT ![i] = IF MayCreate(v) THEN [at |-> "write", v |-> v]
                                      ELSE [at |-> "error"]]
     /\ UNCHANGED <<arVersion, arServed, arIssues, arReads, arFaults>>

\* The archive holds the snapshot the name was computed from.
ArchiveOf(i, v) == [state |-> "whole", document |-> v, by |-> i]

\* write_all and sync_all.
IssueWrite(i) ==
  LET v == arReq[i].v
  IN /\ arReq[i].at = "write"
     /\ arFile' = [arFile EXCEPT ![v] = ArchiveOf(i, v)]
     /\ arReq' = [arReq EXCEPT ![i] = [at |-> "issued", v |-> v, created |-> TRUE]]
     /\ UNCHANGED <<arVersion, arServed, arIssues, arReads, arFaults>>

IssueAnswer(i) ==
  /\ arReq[i].at \in {"issued", "error"}
  /\ arReq' = [arReq EXCEPT ![i] = Idle]
  /\ UNCHANGED <<arVersion, arFile, arServed, arIssues, arReads, arFaults>>

\* The write fails: the file stays as it was left.
IssueFails(i) ==
  /\ arReq[i].at = "write" /\ arFaults < MaxArFaults
  /\ arFaults' = arFaults + 1
  /\ arReq' = [arReq EXCEPT ![i] = [at |-> "error"]]
  /\ UNCHANGED <<arVersion, arFile, arServed, arIssues, arReads>>

\* The service stops, and its requests with it.
ArCrash ==
  /\ arFaults < MaxArFaults /\ arFaults' = arFaults + 1
  /\ arReq' = [i \in Issuer |-> Idle]
  /\ UNCHANGED <<arVersion, arFile, arServed, arIssues, arReads>>

\* The record changes, or is deleted.
RecordChanges ==
  /\ arVersion # 0
  /\ arVersion' \in {0} \cup {v \in Version : v = arVersion + 1}
  /\ UNCHANGED <<arFile, arReq, arServed, arIssues, arReads, arFaults>>

Files == {v \in Version : arFile[v] # NoFile}

ListedUnchecked == [kind |-> "list", reports |-> {v \in Files : arFile[v] # Torn}]

\* read_inspection_reports_at: one invalid archive refuses the whole list.
Listed ==
  IF \A v \in Files : ValidArchive(arFile[v], v)
  THEN [kind |-> "list", reports |-> Files]
  ELSE [kind |-> "conflict"]

ReadReports ==
  /\ arReads < MaxReads /\ arReads' = arReads + 1
  /\ arServed' = Listed
  /\ UNCHANGED <<arVersion, arFile, arReq, arIssues, arFaults>>

\* read_inspection_report_detail_at.
ReadReport(v) ==
  /\ arReads < MaxReads /\ arReads' = arReads + 1
  /\ arServed' = IF arFile[v] = NoFile THEN [kind |-> "not found"]
                 ELSE IF ValidArchive(arFile[v], v) THEN [kind |-> "report", v |-> v, file |-> arFile[v]]
                 ELSE [kind |-> "conflict"]
  /\ UNCHANGED <<arVersion, arFile, arReq, arIssues, arFaults>>

ArNext ==
  \/ \E i \in Issuer : \/ IssueSnapshot(i) \/ IssueLook(i) \/ IssueCreate(i)
                       \/ IssueWrite(i) \/ IssueAnswer(i) \/ IssueFails(i)
  \/ ArCrash \/ RecordChanges \/ ReadReports
  \/ \E v \in Version : ReadReport(v)

ArSpec == ArInit /\ [][ArNext]_arVars

\* A file is torn or holds the snapshot its name was computed from, though the
\* record changed while it was issued.
ArTypeOK ==
  \A v \in Version : arFile[v].state = "whole" => ValidArchive(arFile[v], v)

\* An issued archive is immutable: whoever asks, whenever, and whatever becomes
\* of the record, the file keeps its content, its issuer included.
IssuedIsImmutable ==
  \A v \in Version : arFile[v].state = "whole" => arFile'[v] = arFile[v]

\* A list is complete: a report answered to its issuer is in every list that
\* is answered at all, though other archives were torn.
ListIsComplete ==
  arServed'.kind = "list" /\ arReads' # arReads =>
    \A v \in Version : arFile[v] # NoFile => v \in arServed'.reports

\* An issued report is whole, stays as it is and is found by every list.
ReportSteps == [][ArTypeOK' /\ IssuedIsImmutable /\ ListIsComplete]_arVars

=============================================================================
