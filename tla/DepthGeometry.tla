---------------------------- MODULE DepthGeometry ----------------------------
(***************************************************************************)
(* The depth geometry configuration (app/service/src/main.rs).  It lives   *)
(* in the first of three files that exists; a save names the hash it was   *)
(* made from, writes one file and then a revision row, and tries to put    *)
(* the file back when the row fails: the writes of that attempt may fail   *)
(* too, and a file that could not be read counts as one that was absent.   *)
(***************************************************************************)
EXTENDS Naturals, Sequences

CONSTANTS
  DgClient,       \* administrators
  DgCandidates,   \* configurations they send: what each part of it is
  MaxDgSaves, MaxDgFaults

VARIABLES
  dgPaths,      \* which of the explicit and the state path are configured
  dgFile,       \* the three files
  dgRevisions,  \* config_revision rows of the configuration
  dgHash,       \* the configuration each client has last read
  dgSave,       \* the save that holds DEPTH_GEOMETRY_CONFIG_LOCK
  dgLost,       \* history: a failed save has removed a file it could not read
  dgSaves, dgFaults

dgVars == <<dgPaths, dgFile, dgRevisions, dgHash, dgSave, dgLost, dgSaves, dgFaults>>

DgParts == {"schema", "enabled", "policy", "limits", "sections", "scale", "crop", "backfill"}
DgDefaulted == {"schema", "enabled", "policy"}
ASSUME GeometryAssumption == DgCandidates \subseteq [DgParts -> {"ok", "wrong", "absent"}]

DgNone == [there |-> FALSE]
DgConfig(revision, parts) == [there |-> TRUE, revision |-> revision, parts |-> parts]
DgNoSave == [at |-> "free"]

DgInit ==
  /\ dgPaths \in [{"explicit", "state"} -> BOOLEAN]
  /\ \E there \in [{"explicit", "state"} -> BOOLEAN] :
       dgFile = [s \in {"explicit", "state", "profile"} |->
                  IF s = "profile" \/ there[s] THEN DgConfig(0, [p \in DgParts |-> "ok"]) ELSE DgNone]
  /\ dgRevisions = <<>> /\ dgHash = [c \in DgClient |-> DgNone]
  /\ dgSave = DgNoSave /\ dgLost = FALSE
  /\ dgSaves = 0 /\ dgFaults = 0

-----------------------------------------------------------------------------
(* Configuration.                                                          *)

\* depth_geometry_read_snapshot: the first configured path whose file exists,
\* else the algorithm profile.
SnapshotSource(paths, file) ==
  IF paths["explicit"] /\ file["explicit"].there THEN "explicit"
  ELSE IF paths["state"] /\ file["state"].there THEN "state"
  ELSE "profile"

Current(file) == file[SnapshotSource(dgPaths, file)]

\* depth_geometry_write_target: the first configured path, file or not.
WriteTarget(paths) ==
  IF paths["explicit"] THEN "explicit" ELSE IF paths["state"] THEN "state" ELSE "profile"

\* normalize_depth_geometry_config: a part is as it must be, wrong or absent;
\* some have a default, the sections are required, the others optional.
Normalized(parts) ==
  [ok |-> /\ \A p \in DgParts : parts[p] # "wrong"
          /\ parts["sections"] # "absent",
   parts |-> [p \in DgParts |-> IF p \in DgDefaulted /\ parts[p] = "absent" THEN "ok" ELSE parts[p]]]

\* depth_geometry_revision, and one more.
NextRevision(current) == current.revision + 1

\* depth_geometry_config_response; without any file there is only an error.
DgRead(c) ==
  /\ Current(dgFile).there /\ dgHash[c] # Current(dgFile)
  /\ dgHash' = [dgHash EXCEPT ![c] = Current(dgFile)]
  /\ UNCHANGED <<dgPaths, dgFile, dgRevisions, dgSave, dgLost, dgSaves, dgFaults>>

\* write_depth_geometry_config_response under the lock, up to the file: a hash
\* that is not the current one is a conflict.  The bytes to put back are read
\* again, and a failure of that read makes them absent.
DgWrite(c, parts) ==
  LET current == Current(dgFile)
      target == WriteTarget(dgPaths)
      n == Normalized(parts)
  IN /\ dgSave.at = "free" /\ dgSaves < MaxDgSaves
     /\ dgHash[c].there /\ dgHash[c] = current /\ n.ok
     /\ dgFile' = [dgFile EXCEPT ![target] = DgConfig(NextRevision(current), n.parts)]
     /\ \E previous \in {dgFile[target], DgNone} :
          dgSave' = [at |-> "append", client |-> c, base |-> current, target |-> target,
                     previous |-> previous, unread |-> previous # dgFile[target],
                     config |-> DgConfig(NextRevision(current), n.parts)]
     /\ dgSaves' = dgSaves + 1
     /\ UNCHANGED <<dgPaths, dgRevisions, dgHash, dgLost, dgFaults>>

\* The revision row; the answer carries the new hash.
DgAppend ==
  /\ dgSave.at = "append"
  /\ dgRevisions' = Append(dgRevisions, dgSave.config)
  /\ dgHash' = [dgHash EXCEPT ![dgSave.client] = dgSave.config]
  /\ dgSave' = DgNoSave
  /\ UNCHANGED <<dgPaths, dgFile, dgLost, dgSaves, dgFaults>>

PutBackExisting(file, save) ==
  IF save.previous.there THEN [file EXCEPT ![save.target] = save.previous] ELSE file

\* The file as it was before the save.
PutBack(file, save) == [file EXCEPT ![save.target] = save.previous]

\* The row fails.  The result of putting the file back is dropped: either it
\* worked, or the file stays as saved.
DgAppendFails(undone) ==
  /\ dgSave.at = "append" /\ dgFaults < MaxDgFaults
  /\ dgFile' = IF undone THEN PutBack(dgFile, dgSave) ELSE dgFile
  /\ dgLost' = (dgLost \/ (undone /\ dgSave.unread))
  /\ dgSave' = DgNoSave /\ dgFaults' = dgFaults + 1
  /\ UNCHANGED <<dgPaths, dgRevisions, dgHash, dgSaves>>

\* The service stops between the file and the row.
DgCrash ==
  /\ dgSave.at = "append" /\ dgFaults < MaxDgFaults
  /\ dgSave' = DgNoSave /\ dgFaults' = dgFaults + 1
  /\ UNCHANGED <<dgPaths, dgFile, dgRevisions, dgHash, dgLost, dgSaves>>

DgNext ==
  \/ \E c \in DgClient : DgRead(c) \/ \E parts \in DgCandidates : DgWrite(c, parts)
  \/ DgAppend \/ DgCrash
  \/ \E undone \in BOOLEAN : DgAppendFails(undone)

DgSpec == DgInit /\ [][DgNext]_dgVars

-----------------------------------------------------------------------------
(* Properties.                                                             *)

\* A save that was answered is in force: what is read right after it, through
\* whichever file the paths select, is the configuration saved
\* (depth_geometry_write_target agrees with depth_geometry_read_snapshot).
SavedIsInForce ==
  Len(dgRevisions') > Len(dgRevisions) => Current(dgFile') = dgRevisions'[Len(dgRevisions')]

\* Revision numbers rise: no two saves are recorded with the same number, in
\* spite of failed saves, put back or not, and of stops between file and row
\* (write_depth_geometry_config_response).  The exception is the code's own: a
\* failed save that could not read the file it replaced removes it, and the
\* numbers then go on from an older file.
RevisionsRise ==
  ~dgLost => \A i, j \in DOMAIN dgRevisions : i < j => dgRevisions[i].revision < dgRevisions[j].revision

\* What a save that failed leaves is known: the configuration as it was, also
\* for a path that had no file before, when the file it replaced was read and
\* put back; and the configuration of the failed save, in force though without
\* a row, when it could not be put back.
FailedSaveIsAccounted ==
  /\ DgAppendFails(TRUE) /\ ~dgSave.unread => Current(dgFile') = dgSave.base
  /\ DgAppendFails(FALSE) => Current(dgFile') = dgSave.config

\* Every configuration in a file is complete: no part is wrong, and the parts
\* with a default and the required sections are there.
DgTypeOK ==
  /\ \A s \in DOMAIN dgFile : dgFile[s].there =>
       \A p \in DgParts : dgFile[s].parts[p] \in
         (IF p \in DgDefaulted \cup {"sections"} THEN {"ok"} ELSE {"ok", "absent"})
  /\ dgSave.at = "append" => dgFile[dgSave.target] = dgSave.config

\* An answered save is in force under a number of its own, a failed one is
\* undone as far as its file could be read and written, and every file stays
\* complete.
GeometrySteps ==
  [][DgTypeOK' /\ RevisionsRise' /\ SavedIsInForce /\ FailedSaveIsAccounted]_dgVars

=============================================================================
