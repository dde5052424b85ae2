---------------------------- MODULE RecordCleanup ----------------------------
(***************************************************************************)
(* Deletion of an inspection record and its files: the persistent          *)
(* record_cleanup ledger (app/service/src/artifact_cleanup.rs, the record  *)
(* handlers of main.rs and their statements in db/mod.rs).                 *)
(*                                                                         *)
(* A cleanup freezes a manifest of the record's files, deletes them one by *)
(* one, writing its progress after each, removes the cache directories and *)
(* only then deletes the rows.  None of it runs under the production       *)
(* command lock: several administrators, late capture commits, writers of  *)
(* its files and the viewer's cache interleave with it.  One record        *)
(* is modelled; a batch of retention is a sequence of such deletions.  The *)
(* content of a file is "original" or "changed"; its hash is its content.  *)
(* The files of the cache lie in one folder, all others in another.        *)
(***************************************************************************)
EXTENDS Naturals, Sequences, FiniteSets, SequencesExt

CONSTANTS
  RcFile,         \* files that belong to the record, the late ones included
  LateFile,       \* files of captures committed after the session finished
  CacheFile,      \* files of the inspection-world cache of the record
  Outside,        \* files outside the allowed roots, or in a forbidden folder
  Admin,          \* administrators' requests that may run at the same time
  MaxDeletes,     \* bound: requests that delete the record or apply retention
  MaxRcEvents     \* bound: those requests, failed statements and removals,
                  \* crashes, and changes by the rest of the system, together

VARIABLES
  rcRecord,    \* the production_inspection row exists
  rcIndex,     \* files with a capture_file row
  rcDisk,      \* content of each file
  rcFolders,   \* the folders that exist
  rcCleanups,  \* record_cleanup rows in order of creation
  rcWork,      \* per administrator: the request in hand
  rcRaced,     \* history: files written between a hash check and the removal
  rcBack,      \* history: files written again when they were gone
  rcDeletes, rcFaults, rcChanges

rcFiles == <<rcDisk, rcFolders, rcRaced, rcBack>>
rcVars == <<rcRecord, rcIndex, rcFiles, rcCleanups, rcWork, rcDeletes, rcFaults, rcChanges>>

RcIdle == [at |-> "idle", c |-> 0, m |-> <<>>, dirs |-> FALSE, i |-> 1, failed |-> FALSE]

RcInit ==
  /\ rcRecord = TRUE
  /\ rcIndex = RcFile \ (LateFile \cup CacheFile)
  /\ \E uncached \in SUBSET CacheFile :
       /\ rcDisk = [f \in RcFile |-> IF f \in LateFile \cup uncached THEN "absent" ELSE "original"]
       /\ rcFolders = IF uncached = CacheFile THEN {"data"} ELSE {"data", "cache"}
  /\ rcRaced = {} /\ rcBack = {}
  /\ rcCleanups = <<>>
  /\ rcWork = [a \in Admin |-> RcIdle]
  /\ rcDeletes = 0 /\ rcFaults = 0 /\ rcChanges = 0

rcWorld == <<rcRecord, rcIndex>>
rcBounds == <<rcDeletes, rcFaults, rcChanges>>

\* The bound on events leaves room for one more.
RoomForEvent == rcDeletes + rcFaults + rcChanges < MaxRcEvents

Folder(f) == IF f \in CacheFile THEN "cache" ELSE "data"

Gone(a) == rcWork' = [rcWork EXCEPT ![a] = RcIdle]

-----------------------------------------------------------------------------
(* Planning.                                                               *)

OpenCleanups == {c \in 1 .. Len(rcCleanups) : rcCleanups[c].status \in {"planned", "deleting", "failed"}}
LatestOpenCleanup == CHOOSE c \in OpenCleanups : \A d \in OpenCleanups : d <= c

\* Execution starts from the manifest as it was read from the row.
Executing(c) ==
  [at |-> "entry", c |-> c, m |-> rcCleanups[c].m, dirs |-> rcCleanups[c].dirs, i |-> 1,
   failed |-> FALSE]

\* delete_admin_record_response and apply_record_retention_response, through
\* execute_record_artifact_cleanup: an open cleanup of the record is carried on.
RcDelete(a) ==
  /\ rcWork[a].at = "idle" /\ rcDeletes < MaxDeletes /\ RoomForEvent
  /\ rcDeletes' = rcDeletes + 1
  /\ rcWork' = [rcWork EXCEPT ![a] = IF OpenCleanups # {} THEN Executing(LatestOpenCleanup)
                                     ELSE [RcIdle EXCEPT !.at = "plan"]]
  /\ UNCHANGED <<rcWorld, rcFiles, rcCleanups, rcFaults, rcChanges>>

\* inspection_records_before: a retention run only takes finished records.
RcRetention(a) == rcRecord /\ RcDelete(a)

\* canonical_file_within_roots: a file that is not there is looked for by its
\* folder, and one whose folder is gone as well cannot be verified.
WithinRoots(f) == f \notin Outside /\ (rcDisk[f] = "absent" => Folder(f) \in rcFolders)

\* add_candidate: the entry of one file, with the hash that is frozen.
CleanupEntry(f) ==
  LET status == IF ~WithinRoots(f) THEN "rejected"
                ELSE IF rcDisk[f] = "absent" THEN "missing" ELSE "planned"
  IN [file |-> f, status |-> status, hash |-> IF status = "planned" THEN rcDisk[f] ELSE "none"]

\* append_cache_tree: the files found under the cache directory.
CachedFiles == {f \in CacheFile : rcDisk[f] # "absent"}

\* build_manifest and append_cache_tree: the files in some order.
BuildManifest ==
  LET named == SetToSeq(rcIndex \cup CachedFiles)
  IN [i \in 1 .. Len(named) |-> CleanupEntry(named[i])]

\* The detail, the unresolved tasks and the manifest: a record whose session
\* is not finished, or has unresolved tasks, is refused; nothing looks at the
\* session or its tasks again.
RcPlan(a) ==
  /\ rcWork[a].at = "plan"
  /\ \/ /\ rcRecord
        /\ rcWork' = [rcWork EXCEPT ![a].at = "load", ![a].m = BuildManifest,
                                    ![a].dirs = "cache" \in rcFolders]
     \/ Gone(a)
  /\ UNCHANGED <<rcWorld, rcFiles, rcCleanups, rcBounds>>

\* create_or_load_record_cleanup: the read, and the insert if none was open.
RcLoad(a) ==
  /\ rcWork[a].at = "load"
  /\ rcWork' = [rcWork EXCEPT ![a] = IF OpenCleanups # {} THEN Executing(LatestOpenCleanup)
                                     ELSE [@ EXCEPT !.at = "insert"]]
  /\ UNCHANGED <<rcWorld, rcFiles, rcCleanups, rcBounds>>

RcInsert(a) ==
  /\ rcWork[a].at = "insert"
  /\ rcCleanups' = Append(rcCleanups, [status |-> "planned", m |-> rcWork[a].m,
                                       dirs |-> rcWork[a].dirs])
  /\ rcWork' = [rcWork EXCEPT ![a].at = "entry", ![a].c = Len(rcCleanups) + 1]
  /\ UNCHANGED <<rcWorld, rcFiles, rcBounds>>

RcRetryPlanned(a, c) ==
  /\ rcWork[a].at = "idle" /\ c \in 1 .. Len(rcCleanups)
  /\ rcCleanups[c].status = "planned"
  /\ rcWork' = [rcWork EXCEPT ![a] = Executing(c)]
  /\ UNCHANGED <<rcWorld, rcFiles, rcCleanups, rcBounds>>

\* retry_record_cleanup_response: a completed cleanup is answered as it is.
RcRetry(a, c) ==
  /\ rcWork[a].at = "idle" /\ c \in 1 .. Len(rcCleanups)
  /\ rcCleanups[c].status # "completed"
  /\ rcWork' = [rcWork EXCEPT ![a] = Executing(c)]
  /\ UNCHANGED <<rcWorld, rcFiles, rcCleanups, rcBounds>>

-----------------------------------------------------------------------------
(* Execution.                                                              *)

\* execute_entry, up to the removal: the status of an entry that needs none,
\* "remove" for a file that is there with the content that was frozen.
ExecuteEntry(e) ==
  CASE e.status \in {"deleted", "missing"} -> e.status
    [] e.status = "rejected" \/ ~WithinRoots(e.file) -> "failed"
    [] rcDisk[e.file] = "absent" -> "missing"
    [] rcDisk[e.file] # e.hash -> "failed"
    [] OTHER -> "remove"

\* The entry has had its turn.
Executed(w, status) ==
  [w EXCEPT !.at = "progress", !.m[w.i].status = status, !.failed = status = "failed"]

\* One turn of the loop of execute_persisted_cleanup: the checks.
RcEntry(a) ==
  LET w == rcWork[a]
      status == ExecuteEntry(w.m[w.i])
  IN /\ w.at = "entry" /\ w.i <= Len(w.m)
     /\ rcWork' = [rcWork EXCEPT ![a] = IF status = "remove" THEN [w EXCEPT !.at = "remove"]
                                        ELSE Executed(w, status)]
     /\ UNCHANGED <<rcWorld, rcFiles, rcCleanups, rcBounds>>

\* The removal at the end of execute_entry: it takes the path and not the
\* content that was checked, and fails when the file is gone.
RcRemove(a) ==
  LET w == rcWork[a]
      f == w.m[w.i].file
  IN /\ w.at = "remove"
     /\ \/ /\ rcDisk[f] # "absent"
           /\ rcDisk' = [rcDisk EXCEPT ![f] = "absent"]
           /\ rcWork' = [rcWork EXCEPT ![a] = Executed(w, "deleted")]
           /\ UNCHANGED rcFaults
        \/ /\ rcDisk[f] = "absent" \/ RoomForEvent
           /\ rcFaults' = IF rcDisk[f] = "absent" THEN rcFaults ELSE rcFaults + 1
           /\ rcWork' = [rcWork EXCEPT ![a] = Executed(w, "failed")]
           /\ UNCHANGED rcDisk
     /\ UNCHANGED <<rcWorld, rcFolders, rcRaced, rcBack, rcCleanups, rcDeletes, rcChanges>>

AfterProgressRegardless(w) == [w EXCEPT !.at = "entry", !.i = @ + 1]

\* A failed entry ends the request, the next one follows otherwise.
AfterProgress(w) == IF w.failed THEN RcIdle ELSE [w EXCEPT !.at = "entry", !.i = @ + 1]

\* update_record_cleanup_progress: whatever the row holds by now.
RcProgress(a) ==
  LET w == rcWork[a]
  IN /\ w.at = "progress"
     /\ rcCleanups' = [rcCleanups EXCEPT ![w.c].status = IF w.failed THEN "failed" ELSE "deleting",
                                         ![w.c].m = w.m]
     /\ rcWork' = [rcWork EXCEPT ![a] = AfterProgress(w)]
     /\ UNCHANGED <<rcWorld, rcFiles, rcBounds>>

\* The cache directories are removed: those that exist, and they must be empty.
RcDirectories(a) ==
  LET w == rcWork[a]
  IN /\ w.at = "entry" /\ w.i > Len(w.m)
     /\ IF w.dirs /\ CachedFiles # {} THEN Gone(a) /\ UNCHANGED rcFolders
        ELSE /\ rcWork' = [rcWork EXCEPT ![a].at = "complete"]
             /\ rcFolders' = IF w.dirs THEN rcFolders \ {"cache"} ELSE rcFolders
     /\ UNCHANGED <<rcWorld, rcDisk, rcRaced, rcBack, rcCleanups, rcBounds>>

\* complete_record_cleanup: one transaction, nothing when the record is gone.
RcComplete(a) ==
  LET w == rcWork[a]
  IN /\ w.at = "complete"
     /\ IF rcRecord
        THEN /\ rcRecord' = FALSE /\ rcIndex' = {}
             /\ rcCleanups' = [rcCleanups EXCEPT ![w.c].status = "completed", ![w.c].m = w.m]
        ELSE UNCHANGED <<rcRecord, rcIndex, rcCleanups>>
     /\ Gone(a)
     /\ UNCHANGED <<rcFiles, rcBounds>>

\* A statement fails.
RcAbort(a) ==
  /\ rcWork[a].at \in {"plan", "load", "insert", "progress", "complete"}
  /\ RoomForEvent /\ rcFaults' = rcFaults + 1
  /\ Gone(a)
  /\ UNCHANGED <<rcWorld, rcFiles, rcCleanups, rcDeletes, rcChanges>>

\* The service ends.
RcCrash ==
  /\ RoomForEvent /\ rcFaults' = rcFaults + 1
  /\ rcWork' = [a \in Admin |-> RcIdle]
  /\ UNCHANGED <<rcWorld, rcFiles, rcCleanups, rcDeletes, rcChanges>>

-----------------------------------------------------------------------------
(* The rest of the system.                                                 *)

Elsewhere ==
  /\ RoomForEvent /\ rcChanges' = rcChanges + 1
  /\ UNCHANGED <<rcCleanups, rcWork, rcDeletes, rcFaults>>

\* A file is written, its folder is created if need be.
Written(f, content) ==
  /\ rcDisk' = [rcDisk EXCEPT ![f] = content]
  /\ rcFolders' = rcFolders \cup {Folder(f)}
  /\ rcRaced' = IF \E a \in Admin : rcWork[a].at = "remove" /\ rcWork[a].m[rcWork[a].i].file = f
                THEN rcRaced \cup {f} ELSE rcRaced
  /\ rcBack' = IF rcDisk[f] = "absent" THEN rcBack \cup {f} ELSE rcBack

\* write_capture_commit_response asks nothing of the session's status.
LateCommit(f) ==
  /\ f \in LateFile \ rcIndex /\ rcDisk[f] = "absent"
  /\ rcIndex' = rcIndex \cup {f} /\ Written(f, "original")
  /\ Elsewhere /\ UNCHANGED rcRecord

\* A file is written again (a summary, a reconstruction), also after its
\* deletion.
FileChanges(f) ==
  /\ f \notin CacheFile /\ rcDisk[f] # "changed" /\ (f \in LateFile => f \in rcIndex)
  /\ Written(f, "changed")
  /\ Elsewhere /\ UNCHANGED rcWorld

\* A viewer that has opened the record builds its cache.
CacheBuilt(f) ==
  /\ f \in CacheFile /\ rcDisk[f] = "absent"
  /\ Written(f, "original")
  /\ Elsewhere /\ UNCHANGED rcWorld

\* The folder of the session is taken away by hand, with its files.
FolderRemoved ==
  /\ "data" \in rcFolders /\ rcFolders' = rcFolders \ {"data"}
  /\ rcDisk' = [f \in RcFile |-> IF Folder(f) = "data" THEN "absent" ELSE rcDisk[f]]
  /\ Elsewhere /\ UNCHANGED <<rcWorld, rcRaced, rcBack>>

RcStep(a) ==
  \/ RcPlan(a) \/ RcLoad(a) \/ RcInsert(a) \/ RcEntry(a) \/ RcRemove(a) \/ RcProgress(a)
  \/ RcDirectories(a) \/ RcComplete(a)

RcNext ==
  \/ \E a \in Admin :
       RcDelete(a) \/ RcRetention(a) \/ RcStep(a) \/ RcAbort(a)
       \/ \E c \in 1 .. Len(rcCleanups) : RcRetry(a, c)
  \/ RcCrash
  \/ \E f \in RcFile : LateCommit(f) \/ FileChanges(f) \/ CacheBuilt(f)
  \/ FolderRemoved

\* A request that was begun is carried on, and every open cleanup is retried
\* again and again.
RcFairness ==
  /\ \A a \in Admin : WF_rcVars(RcStep(a))
  /\ \A c \in 1 .. MaxDeletes : SF_rcVars(\E a \in Admin : RcRetry(a, c))

-----------------------------------------------------------------------------
(* Properties.                                                             *)

\* Only what a manifest froze is deleted: a file that a request removes was
\* within the allowed roots and had the content recorded for it, whatever
\* happened to it after the plan.  execute_entry checks the content and then
\* removes the path, so a file that is written between the two is the one
\* that may go with another content.
OnlyFrozenDeleted ==
  \A f \in RcFile :
    rcDisk[f] # "absent" /\ rcDisk'[f] = "absent" /\ rcChanges' = rcChanges
      => /\ f \notin Outside
         /\ \E c \in 1 .. Len(rcCleanups) : \E i \in 1 .. Len(rcCleanups[c].m) :
              /\ rcCleanups[c].m[i].file = f
              /\ rcCleanups[c].m[i].hash = rcDisk[f] \/ f \in rcRaced

\* Files before indexes: the rows of the record are deleted in the step that
\* completes a cleanup, when every file of its manifest has been off the disk;
\* no failure, crash or concurrent request leaves files behind without rows.
\* Only a file that was written again after it was gone may be there: the
\* summary, or the cache the viewer builds.
FilesBeforeIndexes ==
  rcRecord /\ ~rcRecord'
    => \E c \in 1 .. Len(rcCleanups) :
         /\ rcCleanups[c].status # "completed" /\ rcCleanups'[c].status = "completed"
         /\ \A i \in 1 .. Len(rcCleanups'[c].m) :
              LET f == rcCleanups'[c].m[i].file IN rcDisk[f] = "absent" \/ f \in rcBack

\* A cleanup deletes what its manifest froze and nothing else, the files before
\* the rows that find them.
CleanupSteps == [][OnlyFrozenDeleted /\ FilesBeforeIndexes]_rcVars

\* A cleanup that can be finished: its record exists; every file it has still
\* to delete has the content that was frozen, or is gone from a folder that is
\* still there; and its directories hold nothing but such files.  A file whose
\* folder is gone fails at every retry, and so does a cleanup whose cache was
\* built again after its entries were done.
Completable(c) ==
  LET pending == {e \in {rcCleanups[c].m[i] : i \in 1 .. Len(rcCleanups[c].m)} :
                    e.status \notin {"deleted", "missing"}}
  IN /\ rcRecord /\ c \in OpenCleanups
     /\ \A e \in pending : WithinRoots(e.file) /\ rcDisk[e.file] \in {e.hash, "absent"}
     /\ rcCleanups[c].dirs => \A f \in CachedFiles : \E e \in pending : e.file = f

\* Retries finish: no cleanup stays open for ever while it could be finished.
\* An entry that failed, also one that was rejected when its manifest was
\* built, is tried again by the next retry (execute_persisted_cleanup carries
\* the same manifest on).
RetriesFinish == \A c \in 1 .. MaxDeletes : ~<>[](c \in 1 .. Len(rcCleanups) /\ Completable(c))

=============================================================================
