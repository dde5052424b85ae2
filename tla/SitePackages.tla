---------------------------- MODULE SitePackages -----------------------------
(***************************************************************************)
(* Site packages and the selection of the one the service runs             *)
(* (app/service/src/site_config.rs, machine_site_config.rs and the site    *)
(* handlers of main.rs).  Administrators create, clone, import, rename,    *)
(* delete and activate packages while the service runs; a restart selects  *)
(* the site of the environment, of the machine or of project.json, loads   *)
(* its package and compares it with the runtime mode commit marker.  A     *)
(* step is one file operation of a request: no handler holds a lock.       *)
(***************************************************************************)
EXTENDS RuntimeProfiles, Sequences, TLC

CONSTANTS
  SpSite,        \* site ids
  SpFirst,       \* the site that runs at first
  SpAdmin,       \* administrators whose requests run concurrently
  SpDocs,        \* profiles of imported packages
  SpMarkers,     \* whether a commit marker is there at first: a set of BOOLEAN
  SpNone,        \* no site
  MaxSpRequests, \* bound: requests
  MaxSpRestarts  \* bound: restarts

VARIABLES
  spPkg,      \* the directory of each site
  spProject,  \* project.json: selected site and pendingRestart
  spMachine,  \* the machine default, or SpNone
  spEnv,      \* STEEL_SITE_CONFIG_ID, or SpNone
  spMarker,   \* the runtime mode commit marker, committed
  spRun,      \* what the service runs, or down
  spReq, spRequests, spRestarts

spBounds == <<spRequests, spRestarts>>
spFiles == <<spPkg, spProject, spMachine, spEnv, spMarker>>
spVars == <<spFiles, spRun, spReq, spBounds>>

\* The files of a package in the order create writes them; connection.json,
\* algorithm.json and mapping.json count as one.
PackageFiles == <<"site", "runtime", "capture", "rest">>
FileNames == {"site", "runtime", "capture", "rest"}

\* A directory with its files, each as the document it was written from.  A
\* site.json that still names another site is "foreign".
Package(files) == [there |-> TRUE, files |-> files]
Whole(d) == Package([f \in FileNames |-> d])
Missing == [there |-> FALSE, files |-> <<>>]

Holds(p, names) == names \subseteq DOMAIN p.files
Without(p, f) == [g \in DOMAIN p.files \ {f} |-> p.files[g]]

\* write_json_atomic, which makes the directory again if need be.
Written(p, f, d) == Package((f :> d) @@ IF f = "site" THEN Without(p, "foreign") ELSE p.files)

\* SiteConfigStore::get.
Readable(p) == Holds(p, {"site"})

\* What the files say together.
Content(p) ==
  [p.files["runtime"] EXCEPT
     !.site = p.files["site"].site, !.deprecated = p.files["site"].deprecated,
     !.file = IF @ = NoCapture \/ ~Holds(p, {"capture"}) THEN NoCapture ELSE p.files["capture"].file]

\* resolve_site_by_id and load_internal read site.json and runtime.json, and of
\* the others those that runtime.json names.
LoadsFrom(p) ==
  /\ Holds(p, {"site", "runtime"})
  /\ p.files["runtime"].file # NoCapture => Holds(p, {"capture"})
  /\ p.files["runtime"].algorithm = "on" => Holds(p, {"rest"})
  /\ Loadable(Content(p))

NoMarker == [there |-> FALSE]

\* The bytes of runtime.json.
RuntimeBytes(d) ==
  [d EXCEPT !.site = "any", !.deprecated = FALSE, !.file = IF @ = NoCapture THEN "none" ELSE "named"]

\* publish_site_selection_runtime_commit: the mode of the profile that was
\* loaded and the digest of runtime.json.
MarkerOf(d, bytes) == [there |-> TRUE, mode |-> ResolvedMode(d), profile |-> RuntimeBytes(bytes)]

SpIdle == [at |-> "idle"]

SpInit ==
  /\ \E d \in SpDocs : Loadable(d) /\ d.id = SpFirst
       /\ spPkg = [s \in SpSite |-> IF s = SpFirst THEN Whole(d) ELSE Missing]
       /\ spRun = [up |-> TRUE, site |-> SpFirst, source |-> "repository", doc |-> d,
                   repository |-> SpFirst]
       /\ \E m \in SpMarkers : spMarker = IF m THEN MarkerOf(d, d) ELSE NoMarker
  /\ spProject = [site |-> SpFirst, pending |-> FALSE]
  /\ spMachine = SpNone /\ spEnv = SpNone
  /\ spReq = [a \in SpAdmin |-> SpIdle]
  /\ spRequests = 0 /\ spRestarts = 0

-----------------------------------------------------------------------------
(* Requests.                                                               *)

SpBegin(a) ==
  /\ spRun.up /\ spReq[a].at = "idle" /\ spRequests < MaxSpRequests
  /\ spRequests' = spRequests + 1
  /\ UNCHANGED <<spRun, spRestarts>>

SpStep(a, at) == spReq[a].at = at /\ UNCHANGED <<spRun, spBounds>>
SpWait(a, r) == spReq' = [spReq EXCEPT ![a] = r]
SpDone(a) == SpWait(a, SpIdle)

RunMode == ResolvedMode(spRun.doc)

\* create makes the directory,
CreateDirectory(a, s, d) ==
  /\ SpBegin(a) /\ ~spPkg[s].there
  /\ spPkg' = [spPkg EXCEPT ![s] = Package(<<>>)]
  /\ SpWait(a, [at |-> "create", site |-> s, doc |-> d, next |-> 1])
  /\ UNCHANGED <<spProject, spMachine, spEnv, spMarker>>

\* then site.json, which makes it readable, and then the other files.
CreateFiles(a) ==
  LET r == spReq[a]
  IN /\ SpStep(a, "create")
     /\ spPkg' = [spPkg EXCEPT ![r.site] = Written(@, PackageFiles[r.next], r.doc)]
     /\ IF r.next < Len(PackageFiles) THEN SpWait(a, [r EXCEPT !.next = @ + 1]) ELSE SpDone(a)
     /\ UNCHANGED <<spProject, spMachine, spEnv, spMarker>>

\* One of the writes failed: the directory is removed again.
CreateFails(a) ==
  /\ SpStep(a, "create")
  /\ spPkg' = [spPkg EXCEPT ![spReq[a].site] = Missing]
  /\ SpDone(a)
  /\ UNCHANGED <<spProject, spMachine, spEnv, spMarker>>

\* clone_site: the directory is made,
CloneSite(a, from, to) ==
  /\ SpBegin(a) /\ Readable(spPkg[from]) /\ ~spPkg[to].there
  /\ spPkg' = [spPkg EXCEPT ![to] = Package(<<>>)]
  /\ SpWait(a, [at |-> "copy", from |-> from, site |-> to])
  /\ UNCHANGED <<spProject, spMachine, spEnv, spMarker>>

\* copy_directory copies the files; when it fails half-way, or the service ends,
\* those that were copied stay.
CloneCopy(a, names) ==
  LET r == spReq[a]
      from == spPkg[r.from].files
      name(f) == IF f = "site" THEN "foreign" ELSE f
  IN /\ SpStep(a, "copy") /\ names \subseteq DOMAIN from
     /\ spPkg' = [spPkg EXCEPT ![r.site] =
          Package([f \in {name(g) : g \in names} |-> from[IF f = "foreign" THEN "site" ELSE f]] @@ @.files)]
     /\ IF names = DOMAIN from THEN SpWait(a, [r EXCEPT !.at = "copied"]) ELSE SpDone(a)
     /\ UNCHANGED <<spProject, spMachine, spEnv, spMarker>>

\* and site.json gets the new id, the profile keeps the id of its source; if
\* that fails the directory is removed again.
CloneRename(a, ok) ==
  LET r == spReq[a]
      p == spPkg[r.site]
      own == {p.files[f] : f \in DOMAIN p.files \cap {"site", "foreign"}}
  IN /\ SpStep(a, "copied") /\ (ok => own # {})
     /\ spPkg' = [spPkg EXCEPT ![r.site] =
          IF ok THEN Written(@, "site", CHOOSE d \in own : TRUE) ELSE Missing]
     /\ SpDone(a)
     /\ UNCHANGED <<spProject, spMachine, spEnv, spMarker>>

\* import_archive: checked in a directory of its own and renamed into place.
ImportSite(a, s, d) ==
  /\ SpBegin(a) /\ ~spPkg[s].there /\ Unblocked(d)
  /\ spPkg' = [spPkg EXCEPT ![s] = Whole(d)]
  /\ UNCHANGED <<spReq, spProject, spMachine, spEnv, spMarker>>

\* update_metadata reads site.json,
UpdateRead(a, s) ==
  /\ SpBegin(a) /\ Readable(spPkg[s])
  /\ SpWait(a, [at |-> "update", site |-> s, doc |-> spPkg[s].files["site"]])
  /\ UNCHANGED spFiles

\* and write_json_atomic writes it, in a directory made again if need be.
UpdateWrite(a) ==
  /\ SpStep(a, "update")
  /\ spPkg' = [spPkg EXCEPT ![spReq[a].site] = Written(@, "site", spReq[a].doc)]
  /\ SpDone(a)
  /\ UNCHANGED <<spProject, spMachine, spEnv, spMarker>>

\* What a delete refuses: the running site and the pending one.
InUse(s) == s = spRun.site \/ (spProject.pending /\ s = spProject.site)

\* delete_admin_site_config_response compares, and then removes.
DeleteCheck(a, s) ==
  /\ SpBegin(a) /\ ~InUse(s)
  /\ SpWait(a, [at |-> "delete", site |-> s])
  /\ UNCHANGED spFiles

DeleteRemove(a) ==
  /\ SpStep(a, "delete")
  /\ LET s == spReq[a].site
     IN spPkg' = IF Readable(spPkg[s]) THEN [spPkg EXCEPT ![s] = Missing] ELSE spPkg
  /\ SpDone(a)
  /\ UNCHANGED <<spProject, spMachine, spEnv, spMarker>>

\* site_runtime_acquisition_mode: the mode of a package whose profile reads.
SameMode(s) ==
  Holds(spPkg[s], {"site", "runtime"}) /\ ResolvedMode(spPkg[s].files["runtime"]) = RunMode

\* runtime_commit_preflight_for_site_selection.
MarkerSettled == spMarker.there => spMarker.mode = RunMode

\* SiteConfigStore::check finds nothing that blocks.
SiteAvailable(s) == Holds(spPkg[s], FileNames) /\ Unblocked(Content(spPkg[s]))

\* activate_admin_site_config_response compares the modes and keeps the bytes
\* of project.json,
ActivateCheck(a, s) ==
  /\ SpBegin(a) /\ SameMode(s) /\ MarkerSettled
  /\ SpWait(a, [at |-> "activate", site |-> s, marker |-> spMarker.there, previous |-> spProject])
  /\ UNCHANGED spFiles

SelectionApplied(s) == [site |-> s, pending |-> FALSE]

\* What project.json says of a selection that waits for a restart.
SelectionOf(s) == [site |-> s, pending |-> TRUE]

\* SiteConfigStore::activate checks the package and writes project.json,
ActivateWrite(a) ==
  LET r == spReq[a]
  IN /\ SpStep(a, "activate")
     /\ IF SiteAvailable(r.site)
        THEN /\ spProject' = SelectionOf(r.site)
             /\ IF r.marker THEN SpWait(a, [r EXCEPT !.at = "publish"]) ELSE SpDone(a)
        ELSE SpDone(a) /\ UNCHANGED spProject
     /\ UNCHANGED <<spPkg, spMachine, spEnv, spMarker>>

\* The selected site loads, and in the mode that runs.
Publishable(s) == LoadsFrom(spPkg[s]) /\ ResolvedMode(spPkg[s].files["runtime"]) = RunMode

\* and, where there is a marker, loads what project.json selects by then;
ActivateLoad(a) ==
  LET s == spProject.site
  IN /\ SpStep(a, "publish")
     /\ SpWait(a, IF Publishable(s)
                   THEN [at |-> "marker", site |-> s, doc |-> Content(spPkg[s]), previous |-> spReq[a].previous]
                   ELSE [at |-> "rollback", previous |-> spReq[a].previous])
     /\ UNCHANGED spFiles

\* it reads runtime.json once more and writes the marker,
ActivatePublish(a) ==
  LET r == spReq[a]
  IN /\ SpStep(a, "marker") /\ Holds(spPkg[r.site], {"runtime"})
     /\ spMarker' = MarkerOf(r.doc, spPkg[r.site].files["runtime"])
     /\ SpDone(a)
     /\ UNCHANGED <<spPkg, spProject, spMachine, spEnv>>

ActivateFails(a) ==
  /\ SpStep(a, "marker")
  /\ SpWait(a, [at |-> "rollback", previous |-> spReq[a].previous])
  /\ UNCHANGED spFiles

\* or writes the old bytes of project.json back, which may fail too.
ActivateRollback(a, ok) ==
  /\ SpStep(a, "rollback")
  /\ spProject' = IF ok THEN spReq[a].previous ELSE spProject
  /\ SpDone(a)
  /\ UNCHANGED <<spPkg, spMachine, spEnv, spMarker>>

\* machine_site_selection_guard.
MachineGuard(s) == SameMode(s) /\ MarkerSettled /\ (spMarker.there => s = spRun.site)

\* set_machine_default_site_response and clear_machine_default_site_response;
\* the repository default is the one read at the start.
SetMachineDefault(a, s) ==
  /\ SpBegin(a) /\ spEnv = SpNone /\ MachineGuard(s) /\ SiteAvailable(s)
  /\ spMachine' = s
  /\ UNCHANGED <<spReq, spPkg, spProject, spEnv, spMarker>>

ClearMachineDefault(a) ==
  /\ SpBegin(a) /\ spEnv = SpNone /\ spMachine # SpNone /\ MachineGuard(spRun.repository)
  /\ spMachine' = SpNone
  /\ UNCHANGED <<spReq, spPkg, spProject, spEnv, spMarker>>

-----------------------------------------------------------------------------
(* Start.                                                                  *)

\* select_site.
Selected(e) ==
  IF e # SpNone THEN [site |-> e, source |-> "environment"]
  ELSE IF spMachine # SpNone THEN [site |-> spMachine, source |-> "registry"]
  ELSE [site |-> spProject.site, source |-> "repository"]

\* validate_runtime_mode_commit_for_startup, for a committed marker.
MarkerAccepts(d) == spMarker.there => spMarker = MarkerOf(d, d)

\* mark_project_applied, for a selection by the repository only.
Applied(sel) ==
  IF sel.source = "repository" THEN [spProject EXCEPT !.pending = FALSE] ELSE spProject

\* The service restarts: selection, load (which marks the project applied) and
\* the comparison with the marker; a refusal leaves it down.
SpRestart(e) ==
  LET sel == Selected(e)
      p == spPkg[sel.site]
      loads == LoadsFrom(p)
  IN /\ spRestarts < MaxSpRestarts /\ spRestarts' = spRestarts + 1
     /\ spEnv' = e
     /\ spProject' = IF loads THEN Applied(sel) ELSE spProject
     /\ spRun' = IF loads /\ MarkerAccepts(Content(p))
                 THEN [up |-> TRUE, site |-> sel.site, source |-> sel.source, doc |-> Content(p),
                       repository |-> spProject.site]
                 ELSE [spRun EXCEPT !.up = FALSE]
     /\ spReq' = [a \in SpAdmin |-> SpIdle]
     /\ UNCHANGED <<spPkg, spMachine, spMarker, spRequests>>

SpAct(a) ==
  \/ \E s \in SpSite :
       \/ CreateDirectory(a, s, BkvTemplate(s)) \/ CreateDirectory(a, s, DirectTemplate(s))
       \/ \E d \in SpDocs : ImportSite(a, s, d)
       \/ UpdateRead(a, s) \/ DeleteCheck(a, s) \/ ActivateCheck(a, s)
       \/ SetMachineDefault(a, s)
       \/ \E t \in SpSite : CloneSite(a, s, t)
  \/ ClearMachineDefault(a) \/ CreateFiles(a) \/ CreateFails(a) \/ UpdateWrite(a) \/ DeleteRemove(a)
  \/ \E names \in SUBSET FileNames : CloneCopy(a, names)
  \/ \E ok \in BOOLEAN : CloneRename(a, ok) \/ ActivateRollback(a, ok)
  \/ ActivateWrite(a) \/ ActivateLoad(a) \/ ActivatePublish(a) \/ ActivateFails(a)

SpNext ==
  \/ \E a \in SpAdmin : SpAct(a)
  \/ \E e \in SpSite \cup {SpNone} : SpRestart(e)

-----------------------------------------------------------------------------
(* Properties.                                                             *)

\* The package the service runs can be loaded again, as what runs, at any
\* moment: whatever administrators delete, create, clone or rename meanwhile,
\* however far they get, and although it need not have been whole to start with
\* (a create or a clone that ended half-way leaves a package that may load).
RunningPackageStays ==
  spRun.up => LoadsFrom(spPkg[spRun.site]) /\ Content(spPkg[spRun.site]) = spRun.doc

\* The selection the administrators see is exact: a service that was started
\* from project.json and shows no pending restart runs the site project.json
\* names, through concurrent activations and their rollbacks
\* (SiteConfigStore::activate, mark_project_applied).
PendingIsExact ==
  spRun.up /\ spRun.source = "repository" /\ ~spProject.pending => spProject.site = spRun.site

\* A running service may use cameras only in online mode, with the producer
\* file verified and as many enabled cameras as the profile counts, whichever
\* way its package came into being (load_internal, effective_for_mode).
CamerasOnlyOnline ==
  spRun.up /\ Allows(spRun.doc, "direct") =>
    /\ ResolvedMode(spRun.doc) = "online" /\ spRun.doc.provider \notin {"bkv", "simulated"}
    /\ spRun.doc.file # NoCapture /\ spRun.doc.file.hardware = "ok"
    /\ spRun.doc.file.enabled = spRun.doc.count

\* Once a commit marker is there, no selection, deletion and re-creation, nor
\* any restart gives the service another mode: only the formal transition does
\* (publish_site_selection_runtime_commit, validate_runtime_mode_commit_for_startup).
CommittedModeKept == spRun.up /\ spMarker.there => ResolvedMode(spRun.doc) = spMarker.mode

\* A package the availability check let through for activation can be loaded
\* (README: the check "validates package structure, referenced files,
\* mode/capability consistency, camera mapping").
ActivatedSiteLoads ==
  spRun.up /\ spProject.pending /\ (\A a \in SpAdmin : spReq[a].at = "idle")
    => LoadsFrom(spPkg[spProject.site])

SpTypeOK ==
  /\ \A s \in SpSite : DOMAIN spPkg[s].files \subseteq FileNames \cup {"foreign"}
                        /\ (spPkg[s].files # <<>> => spPkg[s].there)
  /\ spProject.site \in SpSite /\ spMachine \in SpSite \cup {SpNone}

\* The service runs a package that stays, of the committed mode, with cameras only
\* where that mode has them, and administrators see what they selected.
SiteSafety ==
  /\ SpTypeOK
  /\ RunningPackageStays
  /\ PendingIsExact
  /\ CamerasOnlyOnline
  /\ CommittedModeKept

=============================================================================
