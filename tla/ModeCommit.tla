------------------------------ MODULE ModeCommit ------------------------------
(***************************************************************************)
(* The change of acquisition mode as a protocol of two processes that      *)
(* share files and no lock: the inspection service, whose handler saves a  *)
(* runtime profile (app/service/src/main.rs), and the desktop monitor's    *)
(* service supervisor, which reads the same files on every tick            *)
(* (app/server-monitor/src/service_supervisor.rs).                         *)
(*                                                                         *)
(* On disk: the project file that selects a site, one runtime profile per  *)
(* site, the mode commit marker, the staging directory and the             *)
(* supervisor's applied mode.  The files that both processes read are      *)
(* replaced atomically (written to a temporary file and renamed), so a     *)
(* step is one file write, one database transaction, one change of         *)
(* admission or one file read that a later step relies on.  Either process *)
(* may die between two steps.  The applied mode, which only the supervisor *)
(* reads and only when it starts, is written in place (fs::write): the     *)
(* model takes that write as one step too, so a file torn by a write that  *)
(* fails half-way, which reads as no mode, is left out.                    *)
(*                                                                         *)
(* A profile is an opaque byte string; its SHA-256 is the string itself    *)
(* and ModeOf gives its acquisition mode.  Clock times are kept as one     *)
(* flag of the marker, "due": the age of a fence has reached 120 s, the    *)
(* release time of a ready marker has passed.                              *)
(***************************************************************************)
EXTENDS Naturals, FiniteSets

CONSTANTS
  Site,            \* site packages, each with its runtime profile
  Bytes,           \* contents of a runtime profile
  ModeOf,          \* acquisition mode of a profile
  SaveThread,      \* threads of the service that run an admin request
  Unset,            \* no marker, no profile
  MaxSaves,        \* bound: requests that save or select
  MaxModeCrashes,  \* bound: deaths of either process
  MaxIoErrors      \* bound: failed writes

Mode == {ModeOf[b] : b \in Bytes}

\* A staged profile, a marker, and the configuration of the running service.
StagedFile == [id : Nat, bytes : Bytes]
MarkerFile == [state : {"fence", "publish", "ready", "committed"}, mode : Mode, sha : Bytes,
               previous : Mode \cup {Unset}, file : StagedFile \cup {Unset}, due : BOOLEAN]
ActiveConfig == [site : Site, bytes : Bytes]

ASSUME ModeCommitAssumption ==
  /\ ModeOf \in [Bytes -> {"online", "offline", "simulation"}]
  /\ Unset \notin Bytes \cup Site \cup Mode
  /\ Unset \notin StagedFile \cup MarkerFile \cup ActiveConfig
  /\ MaxSaves \in Nat /\ MaxModeCrashes \in Nat /\ MaxIoErrors \in Nat

VARIABLES
  project,    \* config/project.json: the selected site
  profiles,   \* the runtime profile of each site
  marker,     \* config/runtime-mode-commit.json
  staging,    \* config/runtime-mode-staging: transition id and bytes
  revisions,  \* config_revision and audit rows of saved profiles
  service,    \* the inspection service: "off", "booting" or "up"
  active,     \* runtime_config of the running service: site and bytes
  admitting,  \* runtime_admission.accepting
  saves,      \* per thread: step, transition id, bytes, previous bytes, site
  saved,      \* number of requests so far (transition ids)
  childMode,  \* STEEL_ACQUISITION_MODE of the child
  owned,      \* the supervisor holds the child's handle
  supPc,      \* step of the supervisor's tick
  supMode,    \* ServiceSupervisor.acquisition_mode
  applied,    \* applied-acquisition-mode.json
  hold,       \* mode_transition_hold
  seen,       \* site, profile and marker read by this tick
  supTarget,  \* the mode apply_acquisition_mode is to establish
  modeCrashes, ioErrors

disk == <<project, profiles, marker, staging>>
api == <<service, active, admitting, saves, saved, childMode>>
monitor == <<supPc, supMode, applied, hold, seen, supTarget, owned>>
modeVars == <<project, profiles, marker, staging, revisions, service, active,
              admitting, saves, saved, childMode, owned, supPc, supMode,
              applied, hold, seen, supTarget, modeCrashes, ioErrors>>

Request(pc, id, bytes, previous, site) ==
  [pc |-> pc, id |-> id, bytes |-> bytes, previous |-> previous, site |-> site]

Idle == Request("idle", 0, Unset, Unset, Unset)

Marker(state, mode, sha, previous, file) ==
  [state |-> state, mode |-> mode, sha |-> sha, previous |-> previous,
   file |-> file, due |-> FALSE]

\* The service and the supervisor have never run; the marker of an earlier
\* version may be missing.
ModeInit ==
  /\ project \in Site
  /\ profiles \in [Site -> Bytes]
  /\ \A s \in Site : ModeOf[profiles[s]] = ModeOf[profiles[project]]
  /\ marker \in {Unset, Marker("committed", ModeOf[profiles[project]],
                              profiles[project], Unset, Unset)}
  /\ staging = {}
  /\ revisions = {[id |-> 0, bytes |-> profiles[s]] : s \in Site}
  /\ service = "off"
  /\ active = Unset
  /\ admitting = FALSE
  /\ saves = [t \in SaveThread |-> Idle]
  /\ saved = 0
  /\ childMode = "unknown"
  /\ owned = FALSE
  /\ supPc = "hold"
  /\ supMode = "unknown"
  /\ applied = "unknown"
  /\ hold = FALSE
  /\ seen = [site |-> Unset, profile |-> Unset, marker |-> Unset]
  /\ supTarget = "unknown"
  /\ modeCrashes = 0
  /\ ioErrors = 0

ActiveMode == ModeOf[active.bytes]
Staged(t) == [id |-> saves[t].id, bytes |-> saves[t].bytes]
At(t, pc) == service = "up" /\ saves[t].pc = pc
Go(t, pc) == saves' = [saves EXCEPT ![t].pc = pc]
Answer(t) == saves' = [saves EXCEPT ![t] = Idle]
IoError == ioErrors < MaxIoErrors /\ ioErrors' = ioErrors + 1
IoOk == UNCHANGED ioErrors

-----------------------------------------------------------------------------
(* save_admin_runtime_profile_response with another acquisition mode.        *)

\* The candidate is valid and its bytes are staged for recovery; a failure
\* to stage changes nothing.
SaveStage(t, b) ==
  /\ service = "up" /\ admitting /\ saves[t] = Idle /\ saved < MaxSaves
  /\ ModeOf[b] # ActiveMode
  /\ saved' = saved + 1
  /\ saves' = [saves EXCEPT ![t] = Request("close", saved + 1, b, Unset, Unset)]
  /\ staging' = staging \cup {[id |-> saved + 1, bytes |-> b]}
  /\ UNCHANGED <<project, profiles, marker, revisions, service, active, admitting,
                 childMode, monitor, modeCrashes, ioErrors>>

\* set_runtime_transition_admission(false), or 409 when another transition
\* has closed admission; the staged file is dropped with the answer.
SaveClose(t) ==
  /\ At(t, "close")
  /\ \/ admitting /\ admitting' = FALSE /\ Go(t, "fence") /\ UNCHANGED staging
     \/ ~admitting /\ Answer(t) /\ staging' = staging \ {Staged(t)}
                   /\ UNCHANGED admitting
  /\ UNCHANGED <<project, profiles, marker, revisions, service, active, saved,
                 childMode, monitor, modeCrashes, ioErrors>>

\* The fence names the mode and the bytes in use.
SaveFence(t) ==
  /\ At(t, "fence")
  /\ \/ /\ IoOk
        /\ marker' = Marker("fence", ActiveMode, profiles[active.site],
                            ActiveMode, Staged(t))
        /\ Go(t, "drain") /\ UNCHANGED <<admitting, staging>>
     \/ /\ IoError
        /\ admitting' = TRUE /\ staging' = staging \ {Staged(t)}
        /\ Answer(t) /\ UNCHANGED marker
  /\ UNCHANGED <<project, profiles, revisions, service, active, saved, childMode,
                 monitor, modeCrashes>>

\* restore_active_runtime_mode_commit hashes the profile now on disk.
RestoreActive ==
  \/ IoOk /\ marker' = Marker("committed", ActiveMode, profiles[active.site], Unset, Unset)
  \/ IoError /\ UNCHANGED marker

\* Capture is stopped and wait_for_runtime_transition_processing_drain has
\* found no other request in flight.
SaveDrained(t) ==
  /\ At(t, "drain")
  /\ \A u \in SaveThread \ {t} : saves[u].pc = "idle"
  /\ Go(t, "metadata")
  /\ UNCHANGED <<disk, revisions, service, active, admitting, saved, childMode,
                 monitor, modeCrashes, ioErrors>>

\* Capture does not stop, the drain times out, the profile cannot be read or
\* the revision cannot be recorded: the marker is restored and admission
\* reopened.
SaveRollback(t) ==
  /\ At(t, "drain") \/ At(t, "metadata")
  /\ RestoreActive
  /\ admitting' = TRUE
  /\ staging' = staging \ {Staged(t)}
  /\ Answer(t)
  /\ UNCHANGED <<project, profiles, revisions, service, active, saved, childMode,
                 monitor, modeCrashes>>

\* append_runtime_profile_revision_and_audit, one transaction, and its undo.
AppendRevision(t) == revisions' = revisions \cup {Staged(t)}
RemoveRevision(t) == revisions' = revisions \ {Staged(t)}

\* The revision is recorded before anything is published.
SaveMetadata(t) ==
  /\ At(t, "metadata")
  /\ AppendRevision(t)
  /\ Go(t, "publish")
  /\ UNCHANGED <<disk, service, active, admitting, saved, childMode, monitor,
                 modeCrashes, ioErrors>>

\* The publish journal names the staged bytes.  When it cannot be written the
\* revision is taken back and the transition abandoned; when that fails too
\* the staged file stays and admission stays closed.
SavePublish(t) ==
  /\ At(t, "publish")
  /\ \/ /\ IoOk
        /\ marker' = Marker("publish", ModeOf[saves[t].bytes], saves[t].bytes,
                            ActiveMode, Staged(t))
        /\ Go(t, "profile") /\ UNCHANGED <<admitting, staging, revisions>>
     \/ /\ ioErrors < MaxIoErrors
        /\ \/ /\ ioErrors' = ioErrors + 1
              /\ RemoveRevision(t)
              /\ marker' = Marker("committed", ActiveMode, profiles[active.site], Unset, Unset)
              /\ admitting' = TRUE /\ staging' = staging \ {Staged(t)}
           \/ /\ ioErrors + 1 < MaxIoErrors /\ ioErrors' = ioErrors + 2
              /\ \/ /\ RemoveRevision(t) /\ admitting' = TRUE
                    /\ staging' = staging \ {Staged(t)}
                 \/ UNCHANGED <<revisions, admitting, staging>>
              /\ UNCHANGED marker
        /\ Answer(t)
  /\ UNCHANGED <<project, profiles, service, active, saved, childMode, monitor,
                 modeCrashes>>

\* A failed write drops the staged file like every other failure.
SaveProfileDropsStaged(t) ==
  /\ At(t, "profile")
  /\ \/ /\ IoOk /\ profiles' = [profiles EXCEPT ![active.site] = saves[t].bytes]
        /\ Go(t, "ready") /\ UNCHANGED staging
     \/ /\ IoError /\ Answer(t) /\ UNCHANGED profiles
        /\ staging' = staging \ {Staged(t)}
  /\ UNCHANGED <<project, marker, revisions, service, active, admitting,
                 saved, childMode, monitor, modeCrashes>>

\* The new bytes; when they cannot be written the staged file stays for the
\* supervisor.
SaveProfile(t) ==
  /\ At(t, "profile")
  /\ \/ IoOk /\ profiles' = [profiles EXCEPT ![active.site] = saves[t].bytes]
             /\ Go(t, "ready")
     \/ IoError /\ Answer(t) /\ UNCHANGED profiles
  /\ UNCHANGED <<project, marker, staging, revisions, service, active, admitting,
                 saved, childMode, monitor, modeCrashes>>

\* The ready marker, released after 5 s; the handler answers 202 and leaves
\* admission closed until the supervisor restarts the service.
SaveReady(t) ==
  /\ At(t, "ready")
  /\ \/ /\ IoOk
        /\ marker' = Marker("ready", ModeOf[saves[t].bytes], profiles[active.site],
                            ActiveMode, Staged(t))
        /\ staging' = staging \ {Staged(t)}
     \/ IoError /\ UNCHANGED <<marker, staging>>
  /\ Answer(t)
  /\ UNCHANGED <<project, profiles, revisions, service, active, admitting, saved,
                 childMode, monitor, modeCrashes>>

-----------------------------------------------------------------------------
(* The same handler without a change of mode, and the selection of a site.   *)

PlainProfile(t, b) ==
  /\ service = "up" /\ admitting /\ saves[t] = Idle /\ saved < MaxSaves
  /\ ModeOf[b] = ActiveMode /\ b # profiles[active.site]
  /\ saved' = saved + 1
  /\ saves' = [saves EXCEPT ![t] = Request("plain-metadata", saved + 1, b,
                                           profiles[active.site], Unset)]
  /\ profiles' = [profiles EXCEPT ![active.site] = b]
  /\ UNCHANGED <<project, marker, staging, revisions, service, active, admitting,
                 childMode, monitor, modeCrashes, ioErrors>>

\* When the revision cannot be recorded the previous bytes are written back.
PlainMetadata(t) ==
  /\ At(t, "plain-metadata")
  /\ \/ /\ AppendRevision(t) /\ Go(t, "plain-commit")
        /\ UNCHANGED <<profiles, ioErrors>>
     \/ /\ Answer(t) /\ UNCHANGED revisions
        /\ \/ IoOk /\ profiles' = [profiles EXCEPT ![active.site] = saves[t].previous]
           \/ IoError /\ UNCHANGED profiles
  /\ UNCHANGED <<project, marker, staging, service, active, admitting, saved,
                 childMode, monitor, modeCrashes>>

PlainCommit(t) ==
  /\ At(t, "plain-commit")
  /\ RestoreActive
  /\ Answer(t)
  /\ UNCHANGED <<project, profiles, staging, revisions, service, active, admitting,
                 saved, childMode, monitor, modeCrashes>>

\* activate_admin_site_config_response: only a site of the same mode, only
\* while the marker is missing or committed in that mode.
ActivateSelect(t, s) ==
  /\ service = "up" /\ admitting /\ saves[t] = Idle /\ saved < MaxSaves
  /\ s # project /\ ModeOf[profiles[s]] = ActiveMode
  /\ marker # Unset => marker.state = "committed" /\ marker.mode = ActiveMode
  /\ saved' = saved + 1
  /\ project' = s
  /\ saves' = IF marker = Unset THEN saves
              ELSE [saves EXCEPT ![t] = Request("select", 0, Unset, Unset, project)]
  /\ UNCHANGED <<profiles, marker, staging, revisions, service, active, admitting,
                 childMode, monitor, modeCrashes, ioErrors>>

\* publish_site_selection_runtime_commit hashes the selected site's profile;
\* a failure puts the previous project file back.
ActivateCommit(t) ==
  /\ At(t, "select")
  /\ \/ /\ IoOk
        /\ marker' = Marker("committed", ModeOf[profiles[project]], profiles[project],
                            Unset, Unset)
        /\ UNCHANGED project
     \/ IoError /\ project' = saves[t].site /\ UNCHANGED marker
  /\ Answer(t)
  /\ UNCHANGED <<profiles, staging, revisions, service, active, admitting, saved,
                 childMode, monitor, modeCrashes>>

-----------------------------------------------------------------------------
(* The service process.                                                      *)

\* The mode of the environment is not compared with the profile.
StartupAcceptsAnyChild ==
  marker # Unset =>
    /\ marker.mode = ModeOf[profiles[project]] /\ marker.sha = profiles[project]
    /\ marker.state = "ready" => marker.due
    /\ marker.state # "publish"

\* validate_runtime_mode_commit_for_startup.
StartupAccepts ==
  marker # Unset =>
    /\ marker.mode = ModeOf[profiles[project]] /\ marker.sha = profiles[project]
    /\ marker.state = "ready" => marker.due
    /\ marker.state # "publish"
    /\ childMode = ModeOf[profiles[project]]

Boot ==
  /\ service = "booting"
  /\ \/ /\ StartupAccepts
        /\ service' = "up"
        /\ active' = [site |-> project, bytes |-> profiles[project]]
        /\ admitting' = TRUE
     \/ ~StartupAccepts /\ service' = "off" /\ UNCHANGED <<active, admitting>>
  /\ UNCHANGED <<disk, revisions, saves, saved, childMode, monitor, modeCrashes, ioErrors>>

\* Every thread of the service ends where it is; the files stay.
Stopped ==
  /\ service' = "off"
  /\ active' = Unset
  /\ admitting' = FALSE
  /\ saves' = [t \in SaveThread |-> Idle]

ServiceDies ==
  /\ service # "off" /\ modeCrashes < MaxModeCrashes
  /\ modeCrashes' = modeCrashes + 1
  /\ Stopped
  /\ UNCHANGED <<disk, revisions, saved, childMode, monitor, ioErrors>>

\* Time passes.  A transition that is still at work writes the marker again
\* before its own marker is due: the waits behind a fence add up to 45 s of
\* its 120 s, and only two file writes separate the publish journal from the
\* ready marker, which is released 5 s later.
MarkerDue ==
  /\ marker # Unset /\ marker.state \in {"fence", "ready"} /\ ~marker.due
  /\ \A t \in SaveThread : saves[t].pc # "idle" => Staged(t) # marker.file
  /\ marker' = [marker EXCEPT !.due = TRUE]
  /\ UNCHANGED <<project, profiles, staging, revisions, api, monitor, modeCrashes, ioErrors>>

-----------------------------------------------------------------------------
(* ServiceSupervisor::reconcile, one tick.                                   *)

\* runtime_mode_transition_hold.
Holds(mk) ==
  /\ mk # Unset
  /\ \/ mk.state \in {"fence", "publish"}
     \/ mk.state = "ready" /\ ~mk.due

TickHold ==
  /\ supPc = "hold"
  /\ hold' = Holds(marker)
  /\ supPc' = "profile"
  /\ UNCHANGED <<disk, revisions, api, supMode, applied, seen, supTarget, owned,
                 modeCrashes, ioErrors>>

TickProfile ==
  /\ supPc = "profile"
  /\ seen' = [site |-> project, profile |-> profiles[project], marker |-> Unset]
  /\ supPc' = "marker"
  /\ UNCHANGED <<disk, revisions, api, supMode, applied, hold, supTarget, owned,
                 modeCrashes, ioErrors>>

Configured(mode) ==
  /\ supTarget' = mode
  /\ supPc' = IF mode = supMode THEN "services" ELSE "stop"
  /\ UNCHANGED hold
Refused == supPc' = "services" /\ hold' = TRUE /\ UNCHANGED supTarget

SeenMatches(mk) == mk.sha = seen.profile /\ mk.mode = ModeOf[seen.profile]

\* configured_acquisition_mode up to its first write.
TickMarker ==
  /\ supPc = "marker"
  /\ seen' = [seen EXCEPT !.marker = marker]
  /\ \/ marker = Unset /\ Configured(ModeOf[seen.profile])
     \/ /\ marker # Unset /\ marker.state = "fence"
        /\ IF SeenMatches(marker) /\ marker.due
           THEN supPc' = "recover" /\ UNCHANGED <<hold, supTarget>>
           ELSE Configured(marker.mode)
     \/ /\ marker # Unset /\ marker.state \in {"committed", "ready"}
        /\ IF ~SeenMatches(marker) THEN Refused
           ELSE Configured(IF marker.state = "ready" /\ ~marker.due
                           THEN marker.previous ELSE marker.mode)
     \/ /\ marker # Unset /\ marker.state = "publish"
        /\ IF marker.file \in staging
           THEN supPc' = "republish" /\ UNCHANGED <<hold, supTarget>>
           ELSE Refused
  /\ UNCHANGED <<disk, revisions, api, supMode, applied, owned, modeCrashes, ioErrors>>

\* A stale fence over unchanged bytes is turned into a commit of the old mode.
TickRecover ==
  /\ supPc = "recover"
  /\ \/ /\ IoOk
        /\ marker' = [seen.marker EXCEPT !.state = "committed"]
        /\ Configured(seen.marker.mode)
     \/ IoError /\ Refused /\ UNCHANGED marker
  /\ UNCHANGED <<project, profiles, staging, revisions, api, supMode, applied, seen,
                 owned, modeCrashes>>

\* A published transition is completed: profile, then ready marker, then the
\* staged file is removed.
TickRepublish ==
  /\ supPc = "republish"
  /\ \/ /\ IoOk /\ supPc' = "ready" /\ UNCHANGED <<hold, supTarget>>
        /\ profiles' = IF seen.profile = seen.marker.sha THEN profiles
                       ELSE [profiles EXCEPT ![seen.site] = seen.marker.sha]
     \/ IoError /\ Refused /\ UNCHANGED profiles
  /\ UNCHANGED <<project, marker, staging, revisions, api, supMode, applied, seen,
                 owned, modeCrashes>>

TickReadyMarker ==
  /\ supPc = "ready"
  /\ \/ /\ IoOk
        /\ marker' = [seen.marker EXCEPT !.state = "ready", !.due = FALSE]
        /\ staging' = staging \ {seen.marker.file}
        /\ Configured(seen.marker.previous)
     \/ IoError /\ Refused /\ UNCHANGED <<marker, staging>>
  /\ UNCHANGED <<project, profiles, revisions, api, supMode, applied, seen, owned,
                 modeCrashes>>

\* apply_acquisition_mode: stop the services it observes; a child of an
\* earlier supervisor that does not answer its probe yet is not observed.
TickStop ==
  /\ supPc = "stop"
  /\ \/ /\ IoOk /\ supPc' = "persist"
        /\ IF service = "up" \/ (service = "booting" /\ owned) THEN Stopped
           ELSE UNCHANGED <<service, active, admitting, saves>>
     \/ /\ service # "off" /\ IoError /\ supPc' = "services"
        /\ UNCHANGED <<service, active, admitting, saves>>
  /\ UNCHANGED <<disk, revisions, saved, childMode, supMode, applied, hold, seen,
                 supTarget, owned, modeCrashes>>

TickPersist ==
  /\ supPc = "persist"
  /\ \/ IoOk /\ applied' = supTarget /\ supPc' = "promote"
     \/ IoError /\ supPc' = "services" /\ UNCHANGED applied
  /\ UNCHANGED <<disk, revisions, api, supMode, hold, seen, supTarget, owned, modeCrashes>>

\* promote_released_runtime_mode; its error is only reported.
TickPromote ==
  /\ supPc = "promote"
  /\ \/ IoOk /\ marker' = IF /\ marker # Unset /\ marker.state = "ready" /\ marker.due
                             /\ marker.mode = supTarget
                          THEN [marker EXCEPT !.state = "committed"] ELSE marker
     \/ IoError /\ UNCHANGED marker
  /\ supMode' = supTarget
  /\ supPc' = "services"
  /\ UNCHANGED <<project, profiles, staging, revisions, api, applied, hold, seen,
                 supTarget, owned, modeCrashes>>

\* reconcile_service for the inspection service, which every mode enables.
TickServices ==
  /\ supPc = "services"
  /\ supPc' = "hold"
  /\ IF service = "off" /\ ~hold
     THEN service' = "booting" /\ childMode' = supMode /\ owned' = TRUE
     ELSE UNCHANGED <<service, childMode, owned>>
  /\ UNCHANGED <<disk, revisions, active, admitting, saves, saved, supMode, applied,
                 hold, seen, supTarget, modeCrashes, ioErrors>>

\* The monitor dies and is started again: try_load takes the applied mode.
SupervisorDies ==
  /\ modeCrashes < MaxModeCrashes
  /\ modeCrashes' = modeCrashes + 1
  /\ supPc' = "hold"
  /\ supMode' = applied
  /\ owned' = FALSE
  /\ UNCHANGED <<disk, revisions, api, applied, hold, seen, supTarget, ioErrors>>

Tick == \/ TickHold \/ TickProfile \/ TickMarker \/ TickRecover \/ TickRepublish
        \/ TickReadyMarker \/ TickStop \/ TickPersist \/ TickPromote \/ TickServices

SaveStep(t) ==
  \/ SaveClose(t) \/ SaveFence(t) \/ SaveDrained(t) \/ SaveRollback(t)
  \/ SaveMetadata(t) \/ SavePublish(t) \/ SaveProfile(t) \/ SaveReady(t)
  \/ PlainMetadata(t) \/ PlainCommit(t) \/ ActivateCommit(t)

ModeNext ==
  \/ \E t \in SaveThread : \/ SaveStep(t)
                           \/ \E b \in Bytes : SaveStage(t, b) \/ PlainProfile(t, b)
                           \/ \E s \in Site : ActivateSelect(t, s)
  \/ Boot \/ ServiceDies \/ MarkerDue \/ Tick \/ SupervisorDies

ModeSpec == ModeInit /\ [][ModeNext]_modeVars

-----------------------------------------------------------------------------
(* Properties.                                                               *)

\* Every file and every process state has one of the forms the code writes.
ModeTypeOK ==
  /\ project \in Site /\ profiles \in [Site -> Bytes]
  /\ marker # Unset =>
       /\ marker.state \in {"fence", "publish", "ready", "committed"}
       /\ marker.mode \in Mode /\ marker.sha \in Bytes
  /\ service \in {"off", "booting", "up"}
  /\ active # Unset <=> service = "up"
  /\ \A t \in SaveThread : saves[t].pc # "idle" => service = "up"
  /\ {supMode, applied, childMode} \subseteq Mode \cup {"unknown"}

\* A running inspection service has the acquisition mode the supervisor has
\* persisted as applied: the mode never forks between the two processes,
\* whatever dies between two writes (the "split-brain" that
\* validate_runtime_mode_commit_for_startup and start_service refuse).
NoSplitBrain ==
  service = "up" /\ applied # "unknown" => ModeOf[active.bytes] = applied

\* A publish journal can always be carried out: its staged bytes are on disk
\* until a ready marker has replaced it (StagedRuntimeProfile::drop,
\* retain_for_recovery and the supervisor's removal).
PublishRecoverable ==
  marker # Unset /\ marker.state = "publish" =>
    marker.file \in staging /\ marker.file.bytes = marker.sha

\* A profile on disk has the acquisition mode of a revision recorded in the
\* database: the mode of a site never changes without its revision and audit
\* row, whichever process writes the bytes and wherever either one stops.
ModeIsRecorded ==
  \A s \in Site : \E r \in revisions : ModeOf[r.bytes] = ModeOf[profiles[s]]

\* A change of mode that stops anywhere can be completed, and has left a
\* revision for every mode it brought to disk.
ModeChangeSafety ==
  /\ ModeTypeOK
  /\ PublishRecoverable
  /\ ModeIsRecorded

\* Outside a request a committed marker describes the profile that the next
\* start of the service selects.
CommittedMatchesSelected ==
  (/\ marker # Unset /\ marker.state = "committed"
   /\ \A t \in SaveThread : saves[t].pc = "idle"
   /\ modeCrashes = 0 /\ ioErrors = 0)
  => marker.sha = profiles[project]
=============================================================================
