-------------------------- MODULE ModeCommitProofs --------------------------
(***************************************************************************)
(* Proofs about ModeCommit for any number of sites, profiles, threads,     *)
(* saves, crashes and failed writes: the inductive invariant, what most    *)
(* steps of a request need of it, the steps of an admin request of the     *)
(* inspection service, those of the service process and of the supervisor, *)
(* and the theorems.                                                       *)
(***************************************************************************)
EXTENDS ModeCommit, TLAPS

-----------------------------------------------------------------------------
(* Inductive invariants *)

\* Steps of a transition: before its publish journal is written, and while it
\* holds admission closed.
Before == {"close", "fence", "drain", "metadata", "publish"}
Alone == {"metadata", "publish", "profile", "ready"}
Moving == {"fence", "drain"} \cup Alone
Plain == {"plain-metadata", "plain-commit"}
SavePc == {"idle", "close", "select"} \cup Moving \cup Plain

SaveRecord == [pc : SavePc, id : Nat, bytes : Bytes \cup {Unset},
               previous : Bytes \cup {Unset}, site : Site \cup {Unset}]

ModeTypes ==
  /\ project \in Site /\ profiles \in [Site -> Bytes]
  /\ marker \in MarkerFile \cup {Unset}
  /\ staging \subseteq StagedFile /\ revisions \subseteq StagedFile
  /\ service \in {"off", "booting", "up"}
  /\ active \in ActiveConfig \cup {Unset}
  /\ active # Unset <=> service = "up"
  /\ admitting \in BOOLEAN
  /\ saves \in [SaveThread -> SaveRecord] /\ saved \in Nat
  /\ supPc \in {"hold", "profile", "marker", "recover", "republish", "ready", "stop",
                "persist", "promote", "services"}
  /\ {supMode, applied, childMode, supTarget} \subseteq Mode \cup {"unknown"}
  /\ seen \in [site : Site \cup {Unset}, profile : Bytes \cup {Unset},
               marker : MarkerFile \cup {Unset}]

Idling(t) == saves[t].pc = "idle"

\* The handlers: a transition that has closed admission is the only one, and
\* alone once the drain has ended.
Exclusive(t) ==
  /\ saves[t].pc # "idle" => service = "up"
  /\ saves[t].pc \in Moving =>
       ~admitting /\ \A u \in SaveThread \ {t} : saves[u].pc \notin Moving
  /\ saves[t].pc \in Alone => \A u \in SaveThread \ {t} : Idling(u)

\* Every request knows what it needs to finish.
Equipped(t) ==
  /\ saves[t].pc \in Before \cup Moving => ModeOf[saves[t].bytes] # ActiveMode
  /\ saves[t].pc \in Before => Staged(t) \in staging
  /\ saves[t].pc = "plain-metadata" =>
       saves[t].previous \in Bytes /\ ModeOf[saves[t].previous] = ActiveMode
  /\ saves[t].pc = "select" =>
       saves[t].site \in Site /\ ModeOf[profiles[saves[t].site]] = ActiveMode

ThreadInv ==
  /\ admitting => service = "up"
  /\ \A t \in SaveThread : Exclusive(t) /\ Equipped(t)

\* Transition ids are handed out once.
Numbered(t) == saves[t].pc \in Before \cup Moving \cup Plain
IdInv ==
  /\ \A t \in SaveThread : Numbered(t) => saves[t].id \in 1 .. saved /\ saves[t].bytes \in Bytes
  /\ \A t, u \in SaveThread : t # u /\ Numbered(t) /\ Numbered(u) => saves[t].id # saves[u].id
  /\ \A r \in revisions : r.id <= saved

\* While requests are served, the profiles on disk have the mode in use.
Steady ==
  service = "up" /\ (admitting \/ \E t \in SaveThread : saves[t].pc \in Before \cup Plain \cup {"select"})
    => ModeOf[profiles[active.site]] = ActiveMode /\ ModeOf[profiles[project]] = ActiveMode

\* The marker announces a mode that the service does not have yet.
Switching ==
  /\ marker # Unset
  /\ \/ marker.state = "publish"
     \/ marker.state = "ready" /\ ~(service = "up" /\ ActiveMode = marker.mode)

\* Until the restart nothing but the announced transition is at work.
Quiet ==
  /\ ~admitting
  /\ \A t \in SaveThread :
       ~Idling(t) => saves[t].pc \in {"profile", "ready"} /\ Staged(t) = marker.file
  /\ marker.due => \A t \in SaveThread : Idling(t)

MarkerInv ==
  /\ marker # Unset /\ marker.state \in {"publish", "ready"} =>
       /\ marker.previous \in Mode /\ marker.previous # marker.mode
       /\ marker.file \in StagedFile /\ ModeOf[marker.file.bytes] = marker.mode
  /\ PublishRecoverable
  /\ marker = Unset => \A t \in SaveThread : saves[t].pc \notin {"drain"} \cup Alone
  /\ marker # Unset /\ marker.state = "publish" => ~marker.due
  /\ Switching => Quiet
  /\ marker # Unset /\ marker.state = "ready" /\ service = "up" /\ ActiveMode = marker.mode =>
       \A t \in SaveThread : saves[t].pc \notin {"drain"} \cup Alone

\* The modes the two processes may have while the marker is what it is.
Lawful(m) ==
  IF marker = Unset THEN \A s \in Site : ModeOf[profiles[s]] = m
  ELSE IF marker.state \in {"fence", "committed"} THEN m = marker.mode
  ELSE m = marker.previous \/ (marker.state = "ready" /\ marker.due /\ m = marker.mode)

\* What the marker, the two processes' modes and the supervisor's tick have to
\* do with each other.
LawInv ==
  /\ marker = Unset => \A s, u \in Site : ModeOf[profiles[s]] = ModeOf[profiles[u]]
  /\ applied # "unknown" => Lawful(applied)
  /\ service = "up" => Lawful(ActiveMode)
  /\ NoSplitBrain
  /\ service = "booting" /\ marker # Unset /\ childMode = marker.mode => applied = childMode

\* The tick in progress: the mode it works with, what it has read, the mode it
\* has decided on, and the marker it is about to replace.
TickModes ==
  IF supPc = "promote" THEN applied = supTarget /\ supTarget # "unknown" ELSE supMode = applied

TickSeen ==
  supPc = "marker" =>
    /\ seen.profile \in Bytes /\ seen.site \in Site
    /\ marker = Unset => \A s \in Site : ModeOf[profiles[s]] = ModeOf[seen.profile]

TickDecided ==
  supPc \in {"stop", "persist"} =>
    /\ supTarget # "unknown" /\ Lawful(supTarget)
    /\ (/\ marker # Unset /\ marker.state \in {"publish", "ready"}
        /\ supTarget = marker.previous) =>
         /\ service = "booting" => childMode # marker.mode
         /\ service = "up" => ActiveMode = marker.previous
    /\ supPc = "persist" /\ service = "up" => ActiveMode = supTarget

TickRecovering ==
  supPc = "recover" =>
    /\ marker # Unset /\ seen.marker \in MarkerFile
    /\ applied \in {"unknown", seen.marker.mode}
    /\ service = "up" => ActiveMode = seen.marker.mode
    /\ service = "booting" => marker.mode = seen.marker.mode

TickRepublishing ==
  supPc \in {"republish", "ready"} =>
    /\ seen.site \in Site /\ seen.marker \in MarkerFile
    /\ marker # Unset /\ marker.state \in {"publish", "ready"}
    /\ seen.marker.mode = marker.mode /\ seen.marker.previous = marker.previous
    /\ seen.marker.file = marker.file
    /\ applied \in {"unknown", marker.previous}
    /\ service = "up" => ActiveMode = marker.previous
    /\ service = "booting" => childMode # marker.mode

TickInv == TickModes /\ TickSeen /\ TickDecided /\ TickRecovering /\ TickRepublishing

\* A recorded revision of the mode of b that no failing transition takes back.
Witnessed(b) ==
  \E r \in revisions :
    /\ ModeOf[r.bytes] = ModeOf[b]
    /\ \A t \in SaveThread : saves[t].pc = "publish" => r # Staged(t)

RecordInv ==
  /\ \A s \in Site : Witnessed(profiles[s])
  /\ \A t \in SaveThread :
       /\ saves[t].pc \in {"profile", "ready"} => Witnessed(saves[t].bytes)
       /\ saves[t].pc \in Before => (Staged(t) \in revisions <=> saves[t].pc = "publish")
  /\ marker # Unset /\ marker.state = "publish" => Witnessed(marker.sha)
  /\ supPc \in {"republish", "ready"} => Witnessed(seen.marker.sha)

ModeInv ==
  /\ ModeTypes /\ ThreadInv /\ IdInv /\ Steady
  /\ MarkerInv /\ LawInv /\ TickInv /\ RecordInv

-----------------------------------------------------------------------------
(* Facts about single states *)

\* The mode of a profile is known.
LEMMA KnownModes ==
  /\ \A b \in Bytes : ModeOf[b] \in Mode
  /\ "unknown" \notin Mode /\ Unset \notin Mode
  BY Zenon, ModeCommitAssumption DEF Mode

\* A commit of mode m names no previous mode and no staged file.
IsCommit(mk, m) ==
  mk \in MarkerFile /\ mk # Unset /\ mk.state = "committed" /\ mk.mode = m /\ mk.due = FALSE

\* Every other marker that a request writes names both.
IsAnnounced(mk, st, m, p, f) ==
  /\ mk \in MarkerFile /\ mk # Unset /\ mk.state = st /\ mk.mode = m
  /\ mk.previous = p /\ mk.file = f /\ mk.due = FALSE

\* A marker that is written is one.
LEMMA CommitMade ==
  ASSUME NEW m \in Mode, NEW b \in Bytes
  PROVE  IsCommit(Marker("committed", m, b, Unset, Unset), m)
<1>1. Marker("committed", m, b, Unset, Unset) \in MarkerFile
  BY Zenon DEF Marker, MarkerFile
<1> QED
  BY Zenon, <1>1, ModeCommitAssumption DEF Marker, IsCommit

\* A fence, a publish journal and a ready marker are markers.
LEMMA AnnouncementMade ==
  ASSUME NEW st \in {"fence", "publish", "ready"}, NEW m \in Mode, NEW b \in Bytes,
         NEW p \in Mode, NEW f \in StagedFile
  PROVE  IsAnnounced(Marker(st, m, b, p, f), st, m, p, f) /\ Marker(st, m, b, p, f).sha = b
<1>1. Marker(st, m, b, p, f) \in MarkerFile
  BY Zenon DEF Marker, MarkerFile
<1> QED
  BY Zenon, <1>1, ModeCommitAssumption DEF Marker, IsAnnounced

\* The fields of a marker.
LEMMA MarkerFields ==
  ASSUME NEW m \in MarkerFile
  PROVE  /\ m # Unset
         /\ m.state \in {"fence", "publish", "ready", "committed"}
         /\ m.mode \in Mode /\ m.sha \in Bytes /\ m.previous \in Mode \cup {Unset}
         /\ m.file \in StagedFile \cup {Unset} /\ m.due \in BOOLEAN
  BY Zenon, ModeCommitAssumption DEF MarkerFile

\* The running service has a configuration with a mode.
LEMMA ActiveFields ==
  ASSUME ModeTypes, service = "up"
  PROVE  active \in ActiveConfig /\ active.site \in Site /\ active.bytes \in Bytes /\ ActiveMode \in Mode
<1>1. active \in ActiveConfig
  BY Zenon DEF ModeTypes
<1> QED
  BY Zenon, <1>1, KnownModes DEF ActiveConfig, ActiveMode

\* The fields of a request.
LEMMA SaveFields ==
  ASSUME ModeTypes, NEW t \in SaveThread
  PROVE  /\ saves[t] \in SaveRecord
         /\ saves[t].pc \in SavePc /\ saves[t].id \in Nat
         /\ saves[t].bytes \in Bytes \cup {Unset} /\ saves[t].previous \in Bytes \cup {Unset}
         /\ saves[t].site \in Site \cup {Unset}
<1>1. saves[t] \in SaveRecord
  BY Zenon DEF ModeTypes
<1> QED
  BY Zenon, <1>1 DEF SaveRecord

\* What a numbered request stages is a profile.
LEMMA StagedType ==
  ASSUME ModeTypes, IdInv, NEW t \in SaveThread, Numbered(t)
  PROVE  Staged(t) \in StagedFile /\ saves[t].bytes \in Bytes /\ ModeOf[saves[t].bytes] \in Mode
<1>1. saves[t].bytes \in Bytes /\ saves[t].id \in Nat
  BY Zenon, SaveFields DEF IdInv
<1> QED
  BY Zenon, <1>1, KnownModes DEF Staged, StagedFile

\* A request that starts is one.
LEMMA RequestMade ==
  ASSUME NEW p \in SavePc, NEW n \in Nat, NEW b \in Bytes \cup {Unset},
         NEW c \in Bytes \cup {Unset}, NEW s \in Site \cup {Unset}
  PROVE  /\ Request(p, n, b, c, s) \in SaveRecord
         /\ Request(p, n, b, c, s).pc = p /\ Request(p, n, b, c, s).id = n
         /\ Request(p, n, b, c, s).bytes = b /\ Request(p, n, b, c, s).previous = c
         /\ Request(p, n, b, c, s).site = s
  BY Zenon DEF Request, SaveRecord

\* An answered request.
LEMMA IdleType == Idle \in SaveRecord /\ Idle.pc = "idle"
  BY RequestMade DEF Idle, SavePc

\* Every action keeps the forms of files and processes.
LEMMA ModeInitTypes == ModeInit => ModeTypes /\ (marker # Unset => marker.state = "committed")
<1> SUFFICES ASSUME ModeInit PROVE ModeTypes /\ (marker # Unset => marker.state = "committed")
  BY Zenon
<1> DEFINE b == profiles[project]
<1>b. b \in Bytes /\ ModeOf[b] \in Mode
  BY Zenon, KnownModes DEF ModeInit
<1>m. IsCommit(Marker("committed", ModeOf[b], b, Unset, Unset), ModeOf[b])
  BY Zenon, <1>b, CommitMade
<1>1. marker \in MarkerFile \cup {Unset} /\ (marker # Unset => marker.state = "committed")
  BY Zenon, <1>m DEF ModeInit, IsCommit
<1>2. revisions \subseteq StagedFile
  BY DEF ModeInit, StagedFile
<1>3. saves \in [SaveThread -> SaveRecord]
  BY Zenon, IdleType DEF ModeInit
<1> QED
  BY Zenon, <1>1, <1>2, <1>3 DEF ModeInit, ModeTypes

\* The first state has all of the invariants.
LEMMA ModeInitInv == ModeInit => ModeInv
<1> SUFFICES ASSUME ModeInit PROVE ModeInv
  BY Zenon
<1>t. ModeTypes
  BY Zenon, ModeInitTypes
<1>i. \A t \in SaveThread : saves[t].pc = "idle"
  BY Zenon, IdleType DEF ModeInit
<1>s. service = "off" /\ applied = "unknown" /\ supPc = "hold" /\ supMode = "unknown" /\ ~admitting
  BY Zenon DEF ModeInit
<1>m. marker # Unset => marker.state = "committed"
  BY Zenon, ModeInitTypes
<1>1. ThreadInv
  BY Zenon, <1>i, <1>s DEF ThreadInv, Exclusive, Equipped, Before, Moving, Alone
<1>2. IdInv
  BY <1>i DEF IdInv, Numbered, Before, Moving, Alone, Plain, ModeInit
<1>3. Steady
  BY Zenon, <1>s DEF Steady
<1>4. MarkerInv
  BY Zenon, <1>i, <1>m, <1>s DEF MarkerInv, PublishRecoverable, Switching, Alone
<1>5. LawInv
  BY Zenon, <1>s DEF LawInv, ModeInit, NoSplitBrain
<1>6. TickInv
  BY Zenon, <1>s DEF TickInv, TickModes, TickSeen, TickDecided, TickRecovering, TickRepublishing
<1>7. RecordInv
  <2>1. ASSUME NEW s \in Site PROVE Witnessed(profiles[s])
    BY Zenon, <1>i DEF Witnessed, ModeInit
  <2> QED
    BY Zenon, <1>i, <1>m, <1>s, <2>1 DEF RecordInv, Before
<1> QED
  BY Zenon, <1>t, <1>1, <1>2, <1>3, <1>4, <1>5, <1>6, <1>7 DEF ModeInv

-----------------------------------------------------------------------------
(* Requests that are at work *)

\* The service serves requests, or one is at work.
Live == service = "up" /\ (admitting \/ \E t \in SaveThread : ~Idling(t))

\* One beyond the announced transition.
Busy ==
  /\ service = "up"
  /\ admitting \/ \E t \in SaveThread : saves[t].pc \notin {"idle", "profile", "ready"}

\* No transition is announced while another request is at work.
LEMMA BusyFacts ==
  ASSUME ModeInv, Busy
  PROVE  Live /\ ~Switching /\ supPc \notin {"republish", "ready"}
<1>1. Live
  BY Zenon DEF Live, Busy, Idling
<1>2. ~Switching
  BY Zenon DEF ModeInv, MarkerInv, Quiet, Busy, Idling
<1>3. supPc \notin {"republish", "ready"}
  <2> SUFFICES ASSUME supPc \in {"republish", "ready"} PROVE Switching
    BY Zenon, <1>2
  <2>1. /\ marker # Unset /\ marker.state \in {"publish", "ready"}
        /\ ActiveMode = marker.previous
    BY Zenon DEF ModeInv, TickInv, TickRepublishing, Busy
  <2>2. marker.previous # marker.mode
    BY Zenon, <2>1 DEF ModeInv, MarkerInv
  <2> QED
    BY Zenon, <2>1, <2>2 DEF Switching
<1> QED
  BY Zenon, <1>1, <1>2, <1>3

\* While a request is at work, the supervisor has not decided on another mode.
LEMMA LiveModes ==
  ASSUME ModeInv, Live
  PROVE  /\ ActiveMode \in Mode /\ Lawful(ActiveMode)
         /\ applied \in {"unknown", ActiveMode}
         /\ supPc \in {"stop", "persist"} => supTarget = ActiveMode
<1>u. service = "up"
  BY Zenon DEF Live
<1>1. ActiveMode \in Mode
  BY Zenon, <1>u, ActiveFields DEF ModeInv
<1>2. Lawful(ActiveMode)
  BY Zenon, <1>u DEF ModeInv, LawInv
<1>3. applied \in {"unknown", ActiveMode}
  BY Zenon, <1>u DEF ModeInv, LawInv, NoSplitBrain, ActiveMode
<1>4. ASSUME supPc \in {"stop", "persist"} PROVE supTarget = ActiveMode
  <2>1. Lawful(supTarget)
    BY Zenon, <1>4 DEF ModeInv, TickInv, TickDecided
  <2>2. CASE marker = Unset
    <3>1. project \in Site
      BY Zenon DEF ModeInv, ModeTypes
    <3> QED
      BY Zenon, <1>2, <2>1, <2>2, <3>1 DEF Lawful
  <2>3. CASE marker # Unset /\ marker.state \notin {"publish", "ready"}
    <3>1. marker.state \in {"fence", "committed"}
      BY Zenon, <2>3, MarkerFields DEF ModeInv, ModeTypes
    <3> QED
      BY Zenon, <1>2, <2>1, <2>3, <3>1 DEF Lawful
  <2>4. CASE marker # Unset /\ marker.state = "publish"
    BY Zenon, <1>2, <2>1, <2>4 DEF Lawful
  <2>5. CASE marker # Unset /\ marker.state = "ready"
    <3>1. marker.previous # marker.mode
      BY Zenon, <2>5 DEF ModeInv, MarkerInv
    <3>2. supTarget = marker.previous => ActiveMode = marker.previous
      BY Zenon, <1>4, <1>u, <2>5 DEF ModeInv, TickInv, TickDecided
    <3>3. ActiveMode # marker.mode => ~marker.due
      BY Zenon, <2>5 DEF ModeInv, MarkerInv, Switching, Quiet, Live
    <3> QED
      BY Zenon, <1>2, <2>1, <2>5, <3>1, <3>2, <3>3 DEF Lawful
  <2> QED
    BY Zenon, <2>2, <2>3, <2>4, <2>5
<1> QED
  BY Zenon, <1>1, <1>2, <1>3, <1>4

processes == <<service, active, childMode, applied, supPc, supMode, supTarget, seen>>

\* A request that writes a fence or a commit of the mode in use leaves the
\* modes as they have to be.
LEMMA CommitLaw ==
  ASSUME ModeInv, Busy, UNCHANGED processes,
         marker' # Unset, marker'.state \in {"fence", "committed"}, marker'.mode = ActiveMode
  PROVE  LawInv' /\ TickInv'
<1>1. \A m : Lawful(m)' <=> m = ActiveMode
  BY Zenon DEF Lawful
<1>2. ActiveMode' = ActiveMode /\ service' = "up"
  BY Zenon DEF ActiveMode, processes, Busy
<1>3. /\ applied \in {"unknown", ActiveMode}
      /\ supPc \in {"stop", "persist"} => supTarget = ActiveMode
      /\ supPc \notin {"republish", "ready"}
  BY Zenon, BusyFacts, LiveModes
<1>4. LawInv'
  BY Zenon, <1>1, <1>2, <1>3 DEF LawInv, NoSplitBrain, ActiveMode, processes
<1>5. TickModes' /\ TickSeen'
  BY Zenon DEF ModeInv, TickInv, TickModes, TickSeen, processes
<1>6. TickDecided'
  BY Zenon, <1>1, <1>2, <1>3 DEF ModeInv, TickInv, TickDecided, processes
<1>7. TickRecovering' /\ TickRepublishing'
  BY Zenon, <1>2, <1>3 DEF ModeInv, TickInv, TickRecovering, TickRepublishing, processes
<1> QED
  BY Zenon, <1>4, <1>5, <1>6, <1>7 DEF TickInv

\* So does one that announces another mode.
LEMMA AnnounceLaw ==
  ASSUME ModeInv, Live, UNCHANGED processes,
         NEW st \in {"publish", "ready"}, NEW m \in Mode, NEW f,
         IsAnnounced(marker', st, m, ActiveMode, f), m # ActiveMode,
         supPc \in {"republish", "ready"} => m = marker.mode /\ f = marker.file
  PROVE  LawInv' /\ TickInv'
<1>1. \A x : Lawful(x)' <=> x = ActiveMode
  BY Zenon DEF Lawful, IsAnnounced
<1>2. ActiveMode' = ActiveMode /\ service' = "up" /\ service = "up"
  BY Zenon DEF ActiveMode, processes, Live
<1>3. /\ applied \in {"unknown", ActiveMode}
      /\ supPc \in {"stop", "persist"} => supTarget = ActiveMode
  BY Zenon, LiveModes
<1>4. LawInv'
  BY Zenon, <1>1, <1>2, <1>3 DEF LawInv, NoSplitBrain, ActiveMode, processes, IsAnnounced
<1>m. marker' # Unset
  BY Zenon DEF IsAnnounced
<1>5. TickModes' /\ TickSeen'
  BY Zenon, <1>m DEF ModeInv, TickInv, TickModes, TickSeen, processes
<1>6. TickDecided'
  BY Zenon, <1>1, <1>2, <1>3 DEF ModeInv, TickInv, TickDecided, processes, IsAnnounced
<1>7. TickRecovering'
  BY Zenon, <1>2, <1>m DEF ModeInv, TickInv, TickRecovering, processes
<1>8. ASSUME supPc \in {"republish", "ready"} PROVE TickRepublishing'
  <2>1. /\ marker # Unset /\ marker.state \in {"publish", "ready"}
        /\ ActiveMode = marker.previous /\ seen.site \in Site /\ seen.marker \in MarkerFile
        /\ seen.marker.mode = marker.mode /\ seen.marker.previous = marker.previous
        /\ seen.marker.file = marker.file
    BY Zenon, <1>2, <1>8 DEF ModeInv, TickInv, TickRepublishing
  <2>2. UNCHANGED <<seen, applied, supPc>>
    BY Zenon DEF processes
  <2> QED
    BY Zenon, <1>2, <1>3, <1>8, <2>1, <2>2 DEF TickRepublishing, IsAnnounced
<1>9. supPc \notin {"republish", "ready"} => TickRepublishing'
  BY Zenon DEF TickRepublishing, processes
<1> QED
  BY Zenon, <1>4, <1>5, <1>6, <1>7, <1>8, <1>9 DEF TickInv

\* And so does a request that leaves the marker, or the modes on disk before
\* there is one.
LEMMA SameLaw ==
  ASSUME ModeInv, UNCHANGED processes, UNCHANGED marker,
         marker = Unset => \A s \in Site : ModeOf[profiles'[s]] = ModeOf[profiles[s]]
  PROVE  LawInv' /\ TickInv'
<1>1. \A m : Lawful(m)' <=> Lawful(m)
  BY Zenon DEF Lawful
<1>2. ActiveMode' = ActiveMode
  BY Zenon DEF ActiveMode, processes
<1>3. LawInv'
  BY <1>1, <1>2 DEF ModeInv, LawInv, NoSplitBrain, ActiveMode, processes
<1>4. TickModes' /\ TickSeen'
  BY Zenon DEF ModeInv, TickInv, TickModes, TickSeen, processes
<1>5. TickDecided'
  BY Zenon, <1>1, <1>2 DEF ModeInv, TickInv, TickDecided, processes
<1>6. TickRecovering' /\ TickRepublishing'
  BY Zenon, <1>2 DEF ModeInv, TickInv, TickRecovering, TickRepublishing, processes
<1> QED
  BY Zenon, <1>3, <1>4, <1>5, <1>6 DEF TickInv

-----------------------------------------------------------------------------
(* Steps of a request *)

\* Request t goes on to step p, or ends; the others stay where they are.
Others(t) == \A u \in SaveThread \ {t} : saves'[u] = saves[u] /\ Staged(u)' = Staged(u)

Moved(t, p) ==
  /\ saves' \in [SaveThread -> SaveRecord] /\ Others(t)
  /\ saves'[t].pc = p /\ Staged(t)' = Staged(t)
  /\ saves'[t].id = saves[t].id /\ saves'[t].bytes = saves[t].bytes

Ended(t) == saves' \in [SaveThread -> SaveRecord] /\ Others(t) /\ saves'[t].pc = "idle"

\* The two ways a step of a handler ends.
LEMMA GoMoves ==
  ASSUME ModeTypes, NEW t \in SaveThread, NEW p \in SavePc, Go(t, p)
  PROVE  Moved(t, p)
<1>1. saves \in [SaveThread -> SaveRecord]
  BY Zenon DEF ModeTypes
<1>2. /\ saves'[t].pc = p /\ saves'[t].id = saves[t].id /\ saves'[t].bytes = saves[t].bytes
      /\ \A u \in SaveThread \ {t} : saves'[u] = saves[u]
  BY Zenon, <1>1 DEF Go, SaveRecord
<1>3. saves' \in [SaveThread -> SaveRecord]
  BY <1>1 DEF Go, SaveRecord
<1> QED
  BY Zenon, <1>2, <1>3 DEF Moved, Others, Staged

\* An answer ends the request.
LEMMA AnswerEnds ==
  ASSUME ModeTypes, NEW t \in SaveThread, Answer(t)
  PROVE  Ended(t)
<1>1. saves \in [SaveThread -> SaveRecord]
  BY Zenon DEF ModeTypes
<1>2. saves'[t].pc = "idle" /\ \A u \in SaveThread \ {t} : saves'[u] = saves[u]
  BY Zenon, <1>1, IdleType DEF Answer
<1>3. saves' \in [SaveThread -> SaveRecord]
  BY Zenon, <1>1, IdleType DEF Answer
<1> QED
  BY Zenon, <1>2, <1>3 DEF Ended, Others, Staged

\* Files staged by two requests differ.
LEMMA StagedDiffer ==
  ASSUME IdInv, NEW t \in SaveThread, NEW u \in SaveThread, t # u, Numbered(t), Numbered(u)
  PROVE  Staged(t) # Staged(u)
  BY Zenon DEF IdInv, Staged

\* A request that waits does not lose what it needs.
LEMMA StaysEquipped ==
  ASSUME NEW u \in SaveThread, Equipped(u), saves'[u] = saves[u], Staged(u)' = Staged(u),
         UNCHANGED active,
         saves[u].pc \in Before => (Staged(u) \in staging => Staged(u) \in staging'),
         saves[u].pc = "select" =>
           ModeOf[profiles'[saves[u].site]] = ModeOf[profiles[saves[u].site]]
  PROVE  Equipped(u)'
<1>1. ActiveMode' = ActiveMode
  BY Zenon DEF ActiveMode
<1> QED
  BY Zenon, <1>1 DEF Equipped

\* A revision that stays recorded stays a witness, unless a transition is about
\* to take it back.
LEMMA StaysWitnessed ==
  ASSUME NEW b, Witnessed(b), revisions \subseteq revisions',
         \A u \in SaveThread : saves'[u].pc = "publish" =>
           \/ saves[u].pc = "publish" /\ Staged(u)' = Staged(u)
           \/ Staged(u)' \notin revisions
  PROVE  Witnessed(b)'
<1>1. PICK r \in revisions :
        /\ ModeOf[r.bytes] = ModeOf[b]
        /\ \A t \in SaveThread : saves[t].pc = "publish" => r # Staged(t)
  BY Zenon DEF Witnessed
<1>2. r \in revisions'
  BY Zenon, <1>1
<1>3. ASSUME NEW t \in SaveThread, saves'[t].pc = "publish" PROVE r # Staged(t)'
  BY Zenon, <1>1, <1>3
<1> QED
  BY Zenon, <1>1, <1>2, <1>3 DEF Witnessed

-----------------------------------------------------------------------------
(* What most steps of a request have in common *)

\* The modes of the profiles on disk and of the selected one stay.
SameModes ==
  /\ \A s \in Site : ModeOf[profiles'[s]] = ModeOf[profiles[s]]
  /\ project' \in Site /\ ModeOf[profiles[project']] = ModeOf[profiles[project]]

\* Records stay witnessed when nothing is recorded and nothing new published.
LEMMA RecordKept ==
  ASSUME ModeTypes, RecordInv, SameModes, revisions \subseteq revisions', UNCHANGED <<supPc, seen>>,
         profiles' \in [Site -> Bytes],
         \A u \in SaveThread :
           /\ saves'[u].pc = "publish" => saves[u].pc = "publish" /\ Staged(u)' = Staged(u)
           /\ saves'[u].pc \in {"profile", "ready"} =>
                saves[u].pc \in {"profile", "ready"} /\ saves'[u].bytes = saves[u].bytes
           /\ saves'[u].pc \in Before =>
                (Staged(u)' \in revisions' <=> saves'[u].pc = "publish"),
         marker' = marker \/ marker' = Unset \/ marker'.state # "publish"
  PROVE  RecordInv'
<1>1. ASSUME NEW b, Witnessed(b) PROVE Witnessed(b)'
  BY Zenon, <1>1, StaysWitnessed
<1>2. ASSUME NEW s \in Site PROVE Witnessed(profiles[s])'
  <2>1. PICK b : b = profiles[s]
    BY Zenon
  <2>2. Witnessed(b)'
    BY Zenon, <1>1, <2>1 DEF RecordInv
  <2> QED
    BY Zenon, <2>1, <2>2 DEF Witnessed, SameModes
<1>3. ASSUME NEW u \in SaveThread, saves'[u].pc \in {"profile", "ready"}
      PROVE  Witnessed(saves[u].bytes)'
  <2>1. PICK b : b = saves[u].bytes
    BY Zenon
  <2>2. Witnessed(b)'
    BY Zenon, <1>1, <1>3, <2>1 DEF RecordInv
  <2> QED
    BY Zenon, <1>3, <2>1, <2>2
<1>4. ASSUME marker' # Unset, marker'.state = "publish" PROVE Witnessed(marker.sha)'
  <2>1. PICK b : b = marker.sha
    BY Zenon
  <2>2. marker' = marker
    BY Zenon, <1>4
  <2>3. Witnessed(b)'
    BY Zenon, <1>1, <1>4, <2>1, <2>2 DEF RecordInv
  <2> QED
    BY Zenon, <2>1, <2>2, <2>3
<1>5. ASSUME supPc' \in {"republish", "ready"} PROVE Witnessed(seen.marker.sha)'
  <2>1. PICK b : b = seen.marker.sha
    BY Zenon
  <2>2. Witnessed(b)'
    BY Zenon, <1>1, <1>5, <2>1 DEF RecordInv
  <2> QED
    BY Zenon, <2>1, <2>2
<1> QED
  BY Zenon, <1>2, <1>3, <1>4, <1>5 DEF RecordInv

\* Numbers stay unique when no request starts.
LEMMA IdsKept ==
  ASSUME IdInv, UNCHANGED saved,
         \A r \in revisions' : r \in revisions \/ \E u \in SaveThread : Numbered(u) /\ r.id = saves[u].id,
         \A u \in SaveThread : Numbered(u)' =>
           Numbered(u) /\ saves'[u].id = saves[u].id /\ saves'[u].bytes = saves[u].bytes
  PROVE  IdInv'
<1>1. \A r \in revisions' : r.id <= saved
  BY DEF IdInv
<1>2. \A u \in SaveThread : Numbered(u)' => saves'[u].id \in 1 .. saved /\ saves'[u].bytes \in Bytes
  BY Zenon DEF IdInv
<1>3. \A t, u \in SaveThread : t # u /\ Numbered(t)' /\ Numbered(u)' => saves'[t].id # saves'[u].id
  BY DEF IdInv
<1> QED
  BY Zenon, <1>1, <1>2, <1>3 DEF IdInv

\* The requests that stay when one ends, and the modes on disk with them.
LEMMA EndKeeps ==
  ASSUME ModeInv, NEW t \in SaveThread, Ended(t), UNCHANGED <<service, active, saved>>,
         SameModes, profiles' \in [Site -> Bytes], saves[t].pc # "idle",
         admitting' => admitting \/ saves[t].pc \in Moving \cap Before,
         staging \ {Staged(t)} \subseteq staging',
         saves[t].pc \notin Before \cup Moving => staging \subseteq staging',
         revisions' \subseteq revisions
  PROVE  ThreadInv' /\ IdInv' /\ Steady'
<1>t. ModeTypes /\ IdInv /\ ThreadInv /\ Steady
  BY Zenon DEF ModeInv
<1>a. service = "up" /\ ActiveMode' = ActiveMode
  BY Zenon, <1>t DEF ThreadInv, Exclusive, ActiveMode
<1>1. ASSUME NEW u \in SaveThread PROVE Exclusive(u)'
  <2>1. CASE u = t
    BY Zenon, <2>1 DEF Exclusive, Ended, Moving, Alone
  <2>2. CASE u # t
    <3>1. saves'[u] = saves[u] /\ \A v \in SaveThread : saves'[v].pc \in {saves[v].pc, "idle"}
      BY Zenon, <2>2 DEF Ended, Others
    <3>2. Exclusive(u) /\ Exclusive(t)
      BY Zenon, <1>t DEF ThreadInv
    <3> QED
      BY Zenon, <1>a, <2>2, <3>1, <3>2 DEF Exclusive, Idling, Moving, Alone
  <2> QED
    BY Zenon, <2>1, <2>2
<1>2. ASSUME NEW u \in SaveThread PROVE Equipped(u)'
  <2>1. CASE u = t
    BY Zenon, <2>1 DEF Equipped, Ended, Moving, Alone, Before
  <2>2. CASE u # t
    <3>1. saves[u].pc \in Before /\ saves[t].pc \in Before \cup Moving => Staged(u) # Staged(t)
      BY Zenon, <1>t, <2>2, StagedDiffer DEF Numbered
    <3>2. saves[u].pc \in Before => (Staged(u) \in staging => Staged(u) \in staging')
      BY Zenon, <3>1
    <3>3. saves[u].pc = "select" =>
            ModeOf[profiles'[saves[u].site]] = ModeOf[profiles[saves[u].site]]
      BY Zenon, <1>t DEF ThreadInv, Equipped, SameModes
    <3> QED
      BY Zenon, <1>t, <2>2, <3>2, <3>3, StaysEquipped DEF Ended, Others, ThreadInv
  <2> QED
    BY Zenon, <2>1, <2>2
<1>3. IdInv'
  <2>1. \A u \in SaveThread : Numbered(u)' => u # t
    BY Zenon DEF Numbered, Ended, Before, Moving, Alone, Plain
  <2> QED
    BY Zenon, <1>t, <2>1, IdsKept DEF Ended, Others, Numbered
<1>4. Steady'
  <2> SUFFICES ASSUME admitting' \/ \E u \in SaveThread : saves'[u].pc \in Before \cup Plain \cup {"select"}
               PROVE  /\ ModeOf[profiles'[active.site]] = ActiveMode
                      /\ ModeOf[profiles'[project']] = ActiveMode
    BY Zenon, <1>a DEF Steady
  <2>1. admitting \/ \E u \in SaveThread : saves[u].pc \in Before \cup Plain \cup {"select"}
    BY Zenon DEF Ended, Others, Before, Plain
  <2>2. ModeOf[profiles[active.site]] = ActiveMode /\ ModeOf[profiles[project]] = ActiveMode
    BY Zenon, <1>t, <1>a, <2>1 DEF Steady
  <2>3. active.site \in Site
    BY Zenon, <1>a, <1>t, ActiveFields
  <2> QED
    BY Zenon, <2>2, <2>3 DEF SameModes
<1>5. admitting' => service' = "up"
  BY Zenon, <1>a
<1> QED
  BY Zenon, <1>1, <1>2, <1>3, <1>4, <1>5 DEF ThreadInv

\* The same when a request goes on to its next step.
LEMMA MoveKeeps ==
  ASSUME ModeInv, NEW t \in SaveThread, NEW p \in SavePc, Moved(t, p),
         UNCHANGED <<service, active, saved, project, staging>>,
         profiles' \in [Site -> Bytes],
         saves[t].pc # "idle", p \notin {"idle", "plain-metadata", "select"},
         admitting' => admitting,
         p \in Before => saves[t].pc \in Before,
         p \in Before \cup Moving => saves[t].pc \in Before \cup Moving,
         p \in Plain => saves[t].pc \in Plain,
         p \in Moving => ~admitting' /\ \A u \in SaveThread \ {t} : saves[u].pc \notin Moving,
         p \in Alone => \A u \in SaveThread \ {t} : Idling(u),
         UNCHANGED profiles \/ p = "ready",
         \A r \in revisions' : r \in revisions \/ r = Staged(t)
  PROVE  ThreadInv' /\ IdInv' /\ Steady'
<1>t. ModeTypes /\ IdInv /\ ThreadInv /\ Steady
  BY Zenon DEF ModeInv
<1>a. service = "up" /\ ActiveMode' = ActiveMode
  BY Zenon, <1>t DEF ThreadInv, Exclusive, ActiveMode
<1>n. Numbered(t)
  BY Zenon DEF Numbered, SavePc, Before, Plain
<1>1. ASSUME NEW u \in SaveThread PROVE Exclusive(u)'
  <2>1. CASE u = t
    BY Zenon, <1>a, <2>1 DEF Exclusive, Moved, Others, Idling
  <2>2. CASE u # t
    <3>1. /\ saves'[u] = saves[u] /\ saves'[t].pc = p
          /\ \A v \in SaveThread \ {t} : saves'[v] = saves[v]
      BY Zenon, <2>2 DEF Moved, Others
    <3>2. Exclusive(u) /\ ~Idling(t)
      BY Zenon, <1>t DEF ThreadInv, Idling
    <3>3. saves[u].pc \notin Alone
      BY Zenon, <2>2, <3>2 DEF Exclusive
    <3>4. saves[u].pc \in Moving => p \notin Moving /\ ~admitting'
      BY Zenon, <2>2, <3>2 DEF Exclusive
    <3> QED
      BY Zenon, <1>a, <2>2, <3>1, <3>2, <3>3, <3>4 DEF Exclusive
  <2> QED
    BY Zenon, <2>1, <2>2
<1>2. ASSUME NEW u \in SaveThread PROVE Equipped(u)'
  <2>1. CASE u = t
    <3>1. Equipped(t)
      BY Zenon, <1>t DEF ThreadInv
    <3> QED
      BY Zenon, <1>a, <2>1, <3>1 DEF Equipped, Moved
  <2>2. CASE u # t /\ p # "ready"
    BY Zenon, <1>t, <2>2, StaysEquipped DEF Moved, Others, ThreadInv
  <2>3. CASE u # t /\ p = "ready"
    <3>1. saves'[u].pc = "idle"
      BY Zenon, <2>3 DEF Moved, Others, Idling, Alone
    <3> QED
      BY Zenon, <3>1 DEF Equipped, Before, Moving, Alone
  <2> QED
    BY Zenon, <2>1, <2>2, <2>3
<1>3. IdInv'
  <2>1. \A r \in revisions' : r \in revisions \/ \E u \in SaveThread : Numbered(u) /\ r.id = saves[u].id
    <3>1. Staged(t).id = saves[t].id
      BY Zenon DEF Staged
    <3> QED
      BY Zenon, <1>n, <3>1
  <2>2. \A u \in SaveThread : Numbered(u)' =>
           Numbered(u) /\ saves'[u].id = saves[u].id /\ saves'[u].bytes = saves[u].bytes
    BY Zenon, <1>n DEF Moved, Others, Numbered
  <2> QED
    BY Zenon, <1>t, <2>1, <2>2, IdsKept
<1>4. Steady'
  <2> SUFFICES ASSUME admitting' \/ \E u \in SaveThread : saves'[u].pc \in Before \cup Plain \cup {"select"}
               PROVE  /\ ModeOf[profiles'[active.site]] = ActiveMode
                      /\ ModeOf[profiles'[project']] = ActiveMode
    BY Zenon, <1>a DEF Steady
  <2>1. admitting \/ \E u \in SaveThread : saves[u].pc \in Before \cup Plain \cup {"select"}
    BY Zenon DEF Moved, Others, Before, Plain
  <2>2. UNCHANGED profiles
    BY Zenon DEF Moved, Others, Idling, Before, Plain, Moving, Alone
  <2> QED
    BY Zenon, <1>t, <1>a, <2>1, <2>2 DEF Steady
<1>5. admitting' => service' = "up"
  BY Zenon, <1>a
<1> QED
  BY Zenon, <1>1, <1>2, <1>3, <1>4, <1>5 DEF ThreadInv

\* A fence or a commit announces nothing.
LEMMA SettledMarker ==
  ASSUME marker' # Unset, marker'.state \in {"fence", "committed"}
  PROVE  MarkerInv'
  BY Zenon DEF MarkerInv, PublishRecoverable, Switching

\* A request that is not the announced transition leaves a marker it does not
\* write as it has to be.
LEMMA BusyMarker ==
  ASSUME ModeInv, Busy, UNCHANGED <<marker, service, active>>,
         \A u \in SaveThread : saves'[u].pc \in {"drain"} \cup Alone =>
                                 saves[u].pc \in {"drain"} \cup Alone
  PROVE  MarkerInv'
<1>1. MarkerInv /\ ~Switching
  BY Zenon, BusyFacts DEF ModeInv
<1>2. ActiveMode' = ActiveMode
  BY Zenon DEF ActiveMode
<1>3. ~Switching' /\ ~(marker # Unset /\ marker.state = "publish")
  BY Zenon, <1>1, <1>2 DEF Switching
<1> QED
  BY Zenon, <1>1, <1>2, <1>3 DEF MarkerInv, PublishRecoverable

-----------------------------------------------------------------------------
(* The handler of a mode change *)

\* A request starts while admission is open.
LEMMA StartKeeps ==
  ASSUME ModeInv, NEW t \in SaveThread, service = "up", admitting, saves[t].pc = "idle",
         UNCHANGED processes, UNCHANGED <<admitting, marker, revisions>>, saved' = saved + 1,
         saves' \in [SaveThread -> SaveRecord], Others(t), Equipped(t)',
         saves'[t].pc \in {"close", "plain-metadata", "select"},
         saves'[t].pc # "select" => saves'[t].id = saved + 1 /\ saves'[t].bytes \in Bytes,
         staging \subseteq staging', staging' \subseteq StagedFile,
         SameModes, profiles' \in [Site -> Bytes]
  PROVE  ModeInv'
<1>t. ModeTypes /\ IdInv /\ ThreadInv /\ Steady /\ RecordInv /\ saved \in Nat
  BY Zenon DEF ModeInv, ModeTypes
<1>p. UNCHANGED <<service, active, childMode, applied, supPc, supMode, supTarget, seen>>
  BY Zenon DEF processes
<1>b. Busy
  BY Zenon DEF Busy
<1>a. ActiveMode' = ActiveMode
  BY Zenon, <1>p DEF ActiveMode
<1>1. ModeTypes'
  BY <1>t, <1>p DEF ModeTypes, SameModes
<1>2. ThreadInv'
  <2>1. \A u \in SaveThread : saves[u].pc \notin Moving
    BY Zenon, <1>t DEF ThreadInv, Exclusive
  <2>2. \A u \in SaveThread : saves'[u].pc \notin Moving /\ saves'[u].pc \notin Alone
    BY Zenon, <2>1 DEF Others, Moving, Alone
  <2>3. ASSUME NEW u \in SaveThread, u # t PROVE Equipped(u)'
    <3>1. saves[u].pc = "select" =>
            ModeOf[profiles'[saves[u].site]] = ModeOf[profiles[saves[u].site]]
      BY Zenon, <1>t DEF ThreadInv, Equipped, SameModes
    <3> QED
      BY Zenon, <1>t, <1>p, <2>3, <3>1, StaysEquipped DEF ThreadInv, Others
  <2> QED
    BY Zenon, <1>p, <2>2, <2>3 DEF ThreadInv, Exclusive
<1>3. IdInv'
  <2>1. ASSUME NEW u \in SaveThread, u # t, Numbered(u)'
        PROVE  Numbered(u) /\ saves'[u] = saves[u] /\ saves'[u].id \in 1 .. saved /\ saves'[u].bytes \in Bytes
    BY Zenon, <1>t, <2>1 DEF IdInv, Numbered, Others
  <2>2. Numbered(t)' => saves'[t].id = saved + 1 /\ saves'[t].bytes \in Bytes
    BY Zenon DEF Numbered, Before, Moving, Alone, Plain
  <2>3. \A u \in SaveThread : Numbered(u)' => saves'[u].id \in 1 .. saved' /\ saves'[u].bytes \in Bytes
    BY <1>t, <2>1, <2>2
  <2>4. \A u, v \in SaveThread : u # v /\ Numbered(u)' /\ Numbered(v)' => saves'[u].id # saves'[v].id
    BY <1>t, <2>1, <2>2 DEF IdInv
  <2>5. \A r \in revisions' : r.id <= saved'
    BY <1>t DEF IdInv, ModeTypes, StagedFile
  <2> QED
    BY Zenon, <2>3, <2>4, <2>5 DEF IdInv
<1>4. Steady'
  <2>1. ModeOf[profiles[active.site]] = ActiveMode /\ ModeOf[profiles[project]] = ActiveMode
    BY Zenon, <1>t DEF Steady
  <2>2. active.site \in Site
    BY Zenon, <1>t, ActiveFields
  <2> QED
    BY Zenon, <1>p, <1>a, <2>1, <2>2 DEF Steady, SameModes
<1>5. MarkerInv'
  BY Zenon, <1>p, <1>b, BusyMarker DEF Others, Alone
<1>6. LawInv' /\ TickInv'
  BY Zenon, SameLaw DEF SameModes
<1>7. RecordInv'
  <2>1. saves'[t].pc # "select" => Staged(t)' \notin revisions
    <3>1. Staged(t)'.id = saves'[t].id
      BY Zenon DEF Staged
    <3> QED
      BY <1>t, <3>1 DEF IdInv
  <2>2. ASSUME NEW u \in SaveThread
        PROVE  /\ saves'[u].pc = "publish" => saves[u].pc = "publish" /\ Staged(u)' = Staged(u)
               /\ saves'[u].pc \in {"profile", "ready"} =>
                    saves[u].pc \in {"profile", "ready"} /\ saves'[u].bytes = saves[u].bytes
               /\ saves'[u].pc \in Before => (Staged(u)' \in revisions' <=> saves'[u].pc = "publish")
    BY Zenon, <1>t, <2>1 DEF RecordInv, Before, Others
  <2> QED
    BY Zenon, <1>t, <1>p, <2>2, RecordKept
<1> QED
  BY Zenon, <1>1, <1>2, <1>3, <1>4, <1>5, <1>6, <1>7 DEF ModeInv

\* Staging a candidate under a new id.
LEMMA SaveStageKeeps ==
  ASSUME ModeInv, NEW t \in SaveThread, NEW b \in Bytes, SaveStage(t, b)
  PROVE  ModeInv'
<1>t. ModeTypes /\ saved \in Nat
  BY Zenon DEF ModeInv, ModeTypes
<1>u. /\ service = "up" /\ admitting /\ saves[t].pc = "idle" /\ ModeOf[b] # ActiveMode
      /\ UNCHANGED <<project, profiles, marker, revisions, service, active, admitting, childMode,
                     supPc, supMode, applied, seen, supTarget>>
      /\ saved' = saved + 1
  BY Zenon, <1>t, IdleType DEF SaveStage, monitor
<1>r. /\ Request("close", saved + 1, b, Unset, Unset) \in SaveRecord
      /\ Request("close", saved + 1, b, Unset, Unset).pc = "close"
      /\ Request("close", saved + 1, b, Unset, Unset).id = saved + 1
      /\ Request("close", saved + 1, b, Unset, Unset).bytes = b
  <2>1. /\ "close" \in SavePc /\ saved + 1 \in Nat
        /\ b \in Bytes \cup {Unset} /\ Unset \in Bytes \cup {Unset} /\ Unset \in Site \cup {Unset}
    BY <1>t DEF SavePc
  <2> QED
    BY <2>1, RequestMade
<1>s. /\ saves'[t].pc = "close" /\ saves'[t].id = saved + 1 /\ saves'[t].bytes = b
      /\ saves' \in [SaveThread -> SaveRecord] /\ Others(t)
  BY Zenon, <1>t, <1>r DEF SaveStage, ModeTypes, Others, Staged
<1>f. Staged(t)' \in StagedFile /\ staging' = staging \cup {Staged(t)'}
  BY <1>t, <1>s DEF SaveStage, Staged, StagedFile
<1>e. Equipped(t)'
  BY Zenon, <1>s, <1>u, <1>f DEF Equipped, Before, ActiveMode
<1>m. SameModes /\ profiles' \in [Site -> Bytes] /\ staging \subseteq StagedFile
  BY Zenon, <1>t, <1>u DEF SameModes, ModeTypes
<1>p. UNCHANGED processes
  BY Zenon, <1>u DEF processes
<1> QED
  BY Zenon, <1>u, <1>s, <1>f, <1>e, <1>m, <1>p, StartKeeps

\* Closing admission, or the refusal of a second transition.
LEMMA SaveCloseKeeps ==
  ASSUME ModeInv, NEW t \in SaveThread, SaveClose(t)
  PROVE  ModeInv'
<1>t. ModeTypes /\ IdInv /\ ThreadInv /\ Steady /\ RecordInv
  BY Zenon DEF ModeInv
<1>u. /\ service = "up" /\ saves[t].pc = "close"
      /\ UNCHANGED <<project, profiles, marker, revisions, service, active, childMode, saved,
                     supPc, supMode, applied, seen, supTarget>>
  BY Zenon DEF SaveClose, At, monitor
<1>b. Busy
  BY Zenon, <1>u DEF Busy
<1>c. \/ Moved(t, "fence") /\ admitting /\ admitting' = FALSE /\ UNCHANGED staging
      \/ Ended(t) /\ ~admitting /\ UNCHANGED admitting /\ staging' = staging \ {Staged(t)}
  BY Zenon, <1>t, GoMoves, AnswerEnds DEF SaveClose, SavePc, Moving
<1>m. SameModes /\ profiles' \in [Site -> Bytes]
  BY Zenon, <1>t, <1>u DEF SameModes, ModeTypes
<1>1. ModeTypes'
  BY <1>t, <1>u, <1>c DEF ModeTypes, Moved, Ended
<1>2. ThreadInv' /\ IdInv' /\ Steady'
  <2>1. CASE Moved(t, "fence") /\ admitting /\ admitting' = FALSE /\ UNCHANGED staging
    <3>1. \A u \in SaveThread : saves[u].pc \notin Moving
      BY Zenon, <1>t, <2>1 DEF ThreadInv, Exclusive
    <3> QED
      BY Zenon, <1>u, <1>m, <2>1, <3>1, MoveKeeps DEF SavePc, Before, Moving, Alone, Plain
  <2>2. CASE Ended(t) /\ ~admitting /\ UNCHANGED admitting /\ staging' = staging \ {Staged(t)}
    BY Zenon, <1>u, <1>m, <2>2, EndKeeps DEF Before
  <2> QED
    BY Zenon, <1>c, <2>1, <2>2
<1>3. MarkerInv'
  BY Zenon, <1>u, <1>b, <1>c, BusyMarker DEF Moved, Ended, Others, Alone
<1>4. LawInv' /\ TickInv'
  BY Zenon, <1>u, SameLaw DEF processes
<1>5. RecordInv'
  <2>1. \A u \in SaveThread :
           /\ saves'[u].pc = "publish" => saves[u].pc = "publish" /\ Staged(u)' = Staged(u)
           /\ saves'[u].pc \in {"profile", "ready"} =>
                saves[u].pc \in {"profile", "ready"} /\ saves'[u].bytes = saves[u].bytes
           /\ saves'[u].pc \in Before => (Staged(u)' \in revisions' <=> saves'[u].pc = "publish")
    BY Zenon, <1>t, <1>u, <1>c DEF Moved, Ended, Others, RecordInv, Before
  <2> QED
    BY Zenon, <1>t, <1>u, <1>m, <2>1, RecordKept
<1> QED
  BY Zenon, <1>1, <1>2, <1>3, <1>4, <1>5 DEF ModeInv

\* What the steps of a request have in common: the files and processes they
\* leave alone, and the witnesses that stay.
LEMMA EndedRecord ==
  ASSUME ModeInv, NEW t \in SaveThread, Ended(t), SameModes, profiles' \in [Site -> Bytes],
         UNCHANGED <<revisions, supPc, seen>>,
         marker' = marker \/ marker' = Unset \/ marker'.state # "publish"
  PROVE  RecordInv'
<1>1. \A u \in SaveThread :
         /\ saves'[u].pc = "publish" => saves[u].pc = "publish" /\ Staged(u)' = Staged(u)
         /\ saves'[u].pc \in {"profile", "ready"} =>
              saves[u].pc \in {"profile", "ready"} /\ saves'[u].bytes = saves[u].bytes
         /\ saves'[u].pc \in Before => (Staged(u)' \in revisions' <=> saves'[u].pc = "publish")
  BY Zenon DEF ModeInv, Ended, Others, RecordInv, Before
<1> QED
  BY Zenon, <1>1, RecordKept DEF ModeInv

\* The fence, or the end of a transition that cannot write it.
LEMMA SaveFenceKeeps ==
  ASSUME ModeInv, NEW t \in SaveThread, SaveFence(t)
  PROVE  ModeInv'
<1>t. ModeTypes /\ IdInv /\ ThreadInv /\ Steady /\ RecordInv
  BY Zenon DEF ModeInv
<1>u. /\ service = "up" /\ saves[t].pc = "fence"
      /\ UNCHANGED <<project, profiles, revisions, service, active, childMode, saved,
                     supPc, supMode, applied, seen, supTarget>>
  BY Zenon DEF SaveFence, At, monitor
<1>b. Busy /\ Numbered(t)
  BY Zenon, <1>u DEF Busy, Numbered, Before
<1>m. SameModes /\ profiles' \in [Site -> Bytes]
  BY Zenon, <1>t, <1>u DEF SameModes, ModeTypes
<1>p. UNCHANGED processes
  BY Zenon, <1>u DEF processes
<1>1. CASE /\ marker' = Marker("fence", ActiveMode, profiles[active.site], ActiveMode, Staged(t))
           /\ Go(t, "drain") /\ UNCHANGED <<admitting, staging>>
  <2>1. Moved(t, "drain")
    BY Zenon, <1>1, <1>t, GoMoves DEF SavePc, Moving
  <2>2. IsAnnounced(marker', "fence", ActiveMode, ActiveMode, Staged(t))
    <3>1. ActiveMode \in Mode /\ profiles[active.site] \in Bytes
      BY Zenon, <1>t, <1>u, ActiveFields DEF ModeTypes
    <3>2. Staged(t) \in StagedFile
      BY <1>t, <1>b, StagedType
    <3> QED
      BY Zenon, <1>1, <3>1, <3>2, AnnouncementMade
  <2>3. ModeTypes'
    BY Zenon, <1>1, <1>t, <1>u, <2>1, <2>2 DEF ModeTypes, Moved, IsAnnounced
  <2>4. ThreadInv' /\ IdInv' /\ Steady'
    <3>1. ~admitting /\ \A u \in SaveThread \ {t} : saves[u].pc \notin Moving
      BY Zenon, <1>t, <1>u DEF ThreadInv, Exclusive, Moving
    <3> QED
      BY Zenon, <1>1, <1>u, <1>m, <2>1, <3>1, MoveKeeps DEF SavePc, Before, Moving, Alone, Plain
  <2>5. MarkerInv'
    BY Zenon, <2>2, SettledMarker DEF IsAnnounced
  <2>6. LawInv' /\ TickInv'
    BY Zenon, <1>b, <1>p, <2>2, CommitLaw DEF IsAnnounced
  <2>7. RecordInv'
    <3>1. \A u \in SaveThread :
           /\ saves'[u].pc = "publish" => saves[u].pc = "publish" /\ Staged(u)' = Staged(u)
           /\ saves'[u].pc \in {"profile", "ready"} =>
                saves[u].pc \in {"profile", "ready"} /\ saves'[u].bytes = saves[u].bytes
           /\ saves'[u].pc \in Before => (Staged(u)' \in revisions' <=> saves'[u].pc = "publish")
      BY Zenon, <1>t, <1>u, <2>1 DEF Moved, Others, RecordInv, Before
    <3>2. marker'.state # "publish"
      BY Zenon, <2>2 DEF IsAnnounced
    <3> QED
      BY <1>t, <1>u, <1>m, <3>1, <3>2, RecordKept
  <2> QED
    BY Zenon, <2>3, <2>4, <2>5, <2>6, <2>7 DEF ModeInv
<1>2. CASE /\ admitting' = TRUE /\ staging' = staging \ {Staged(t)}
           /\ Answer(t) /\ UNCHANGED marker
  <2>1. Ended(t)
    BY Zenon, <1>2, <1>t, AnswerEnds
  <2>2. ModeTypes'
    BY Zenon, <1>2, <1>t, <1>u, <2>1 DEF ModeTypes, Ended
  <2>3. ThreadInv' /\ IdInv' /\ Steady'
    BY Zenon, <1>2, <1>u, <1>m, <2>1, EndKeeps DEF Before, Moving
  <2>4. MarkerInv'
    BY <1>2, <1>u, <1>b, <2>1, BusyMarker DEF Ended, Others, Alone
  <2>5. LawInv' /\ TickInv'
    BY <1>2, <1>u, <1>p, SameLaw
  <2>6. RecordInv'
    BY Zenon, <1>2, <1>u, <1>m, <2>1, EndedRecord
  <2> QED
    BY Zenon, <2>2, <2>3, <2>4, <2>5, <2>6 DEF ModeInv
<1> QED
  BY Zenon, <1>1, <1>2 DEF SaveFence

\* The end of the drain.
LEMMA SaveDrainedKeeps ==
  ASSUME ModeInv, NEW t \in SaveThread, SaveDrained(t)
  PROVE  ModeInv'
<1>t. ModeTypes /\ IdInv /\ ThreadInv /\ Steady /\ RecordInv
  BY Zenon DEF ModeInv
<1>u. /\ service = "up" /\ saves[t].pc = "drain"
      /\ UNCHANGED <<project, profiles, marker, staging, revisions, service, active, admitting,
                     childMode, saved, supPc, supMode, applied, seen, supTarget>>
      /\ \A u \in SaveThread \ {t} : saves[u].pc = "idle"
  BY Zenon DEF SaveDrained, At, monitor, disk
<1>b. Busy
  BY Zenon, <1>u DEF Busy
<1>m. SameModes /\ profiles' \in [Site -> Bytes]
  BY Zenon, <1>t, <1>u DEF SameModes, ModeTypes
<1>1. Moved(t, "metadata")
  BY Zenon, <1>t, GoMoves DEF SaveDrained, SavePc, Moving, Alone
<1>2. ModeTypes'
  BY <1>t, <1>u, <1>1 DEF ModeTypes, Moved
<1>3. ThreadInv' /\ IdInv' /\ Steady'
  <2>1. ~admitting /\ \A u \in SaveThread \ {t} : saves[u].pc \notin Moving /\ Idling(u)
    BY Zenon, <1>t, <1>u DEF ThreadInv, Exclusive, Moving, Idling
  <2> QED
    BY Zenon, <1>u, <1>m, <1>1, <2>1, MoveKeeps DEF SavePc, Before, Moving, Alone, Plain
<1>4. MarkerInv'
  BY Zenon, <1>u, <1>b, <1>1, BusyMarker DEF Moved, Others, Alone
<1>5. LawInv' /\ TickInv'
  BY Zenon, <1>u, SameLaw DEF processes
<1>6. RecordInv'
  <2>1. \A u \in SaveThread :
           /\ saves'[u].pc = "publish" => saves[u].pc = "publish" /\ Staged(u)' = Staged(u)
           /\ saves'[u].pc \in {"profile", "ready"} =>
                saves[u].pc \in {"profile", "ready"} /\ saves'[u].bytes = saves[u].bytes
           /\ saves'[u].pc \in Before => (Staged(u)' \in revisions' <=> saves'[u].pc = "publish")
    BY <1>t, <1>u, <1>1 DEF Moved, Others, RecordInv, Before
  <2> QED
    BY Zenon, <1>t, <1>u, <1>m, <2>1, RecordKept
<1> QED
  BY Zenon, <1>2, <1>3, <1>4, <1>5, <1>6 DEF ModeInv

\* A request that ends with a commit of the mode in use, or without writing a
\* marker.
LEMMA EndsBusy ==
  ASSUME ModeInv, NEW t \in SaveThread, Ended(t), service = "up",
         saves[t].pc \notin {"idle", "profile", "ready"},
         UNCHANGED processes, UNCHANGED <<saved, revisions>>,
         SameModes, profiles' \in [Site -> Bytes], admitting' \in BOOLEAN,
         admitting' => admitting \/ saves[t].pc \in Moving \cap Before,
         staging' = staging \/ (saves[t].pc \in Before /\ staging' = staging \ {Staged(t)}),
         marker' = marker \/ IsCommit(marker', ActiveMode)
  PROVE  ModeInv'
<1>t. ModeTypes
  BY Zenon DEF ModeInv
<1>b. Busy
  BY Zenon DEF Busy
<1>p. UNCHANGED <<service, active, childMode, applied, supPc, supMode, supTarget, seen>>
  BY Zenon DEF processes
<1>1. ModeTypes'
  BY <1>t, <1>p DEF ModeTypes, Ended, IsCommit, SameModes
<1>2. ThreadInv' /\ IdInv' /\ Steady'
  BY Zenon, <1>p, EndKeeps
<1>3. MarkerInv' /\ LawInv' /\ TickInv'
  <2>1. CASE marker' = marker
    <3>1. MarkerInv'
      BY Zenon, <1>b, <1>p, <2>1, BusyMarker DEF Ended, Others, Alone
    <3>2. LawInv' /\ TickInv'
      BY Zenon, <2>1, SameLaw DEF SameModes
    <3> QED
      BY Zenon, <3>1, <3>2
  <2>2. CASE IsCommit(marker', ActiveMode)
    BY Zenon, <1>b, <2>2, SettledMarker, CommitLaw DEF IsCommit
  <2> QED
    BY Zenon, <2>1, <2>2
<1>4. RecordInv'
  BY Zenon, <1>p, EndedRecord DEF IsCommit
<1> QED
  BY Zenon, <1>1, <1>2, <1>3, <1>4 DEF ModeInv

\* restore_active_runtime_mode_commit writes a commit of the mode in use.
LEMMA RestoreCommits ==
  ASSUME ModeTypes, service = "up", RestoreActive
  PROVE  marker' = marker \/ IsCommit(marker', ActiveMode)
<1>1. ActiveMode \in Mode /\ profiles[active.site] \in Bytes
  BY Zenon, ActiveFields DEF ModeTypes
<1>2. IsCommit(Marker("committed", ActiveMode, profiles[active.site], Unset, Unset), ActiveMode)
  BY Zenon, <1>1, CommitMade
<1> QED
  BY Zenon, <1>2 DEF RestoreActive

\* The end of a transition before its revision is recorded.
LEMMA SaveRollbackKeeps ==
  ASSUME ModeInv, NEW t \in SaveThread, SaveRollback(t)
  PROVE  ModeInv'
<1>t. ModeTypes
  BY Zenon DEF ModeInv
<1>u. /\ service = "up" /\ saves[t].pc \in {"drain", "metadata"}
      /\ admitting' = TRUE /\ staging' = staging \ {Staged(t)}
      /\ UNCHANGED <<project, profiles, revisions, service, active, childMode, saved,
                     supPc, supMode, applied, seen, supTarget>>
  BY Zenon DEF SaveRollback, At, monitor
<1>m. SameModes /\ profiles' \in [Site -> Bytes]
  BY Zenon, <1>t, <1>u DEF SameModes, ModeTypes
<1>e. Ended(t)
  BY Zenon, <1>t, AnswerEnds DEF SaveRollback
<1>c. marker' = marker \/ IsCommit(marker', ActiveMode)
  BY Zenon, <1>t, <1>u, RestoreCommits DEF SaveRollback
<1>p. UNCHANGED processes
  BY Zenon, <1>u DEF processes
<1>s. saves[t].pc \notin {"idle", "profile", "ready"} /\ saves[t].pc \in Moving \cap Before
  BY Zenon, <1>u DEF Moving, Alone, Before
<1> QED
  BY Zenon, <1>u, <1>m, <1>e, <1>c, <1>p, <1>s, EndsBusy

\* The record of the revision.
LEMMA SaveMetadataKeeps ==
  ASSUME ModeInv, NEW t \in SaveThread, SaveMetadata(t)
  PROVE  ModeInv'
<1>t. ModeTypes /\ IdInv /\ ThreadInv /\ Steady /\ RecordInv
  BY Zenon DEF ModeInv
<1>u. /\ service = "up" /\ saves[t].pc = "metadata" /\ revisions' = revisions \cup {Staged(t)}
      /\ UNCHANGED <<project, profiles, marker, staging, service, active, admitting,
                     childMode, saved, supPc, supMode, applied, seen, supTarget>>
  BY Zenon DEF SaveMetadata, At, monitor, disk, AppendRevision
<1>b. Busy /\ Numbered(t)
  BY Zenon, <1>u DEF Busy, Numbered, Before
<1>m. profiles' \in [Site -> Bytes]
  BY Zenon, <1>t, <1>u DEF ModeTypes
<1>1. Moved(t, "publish")
  BY Zenon, <1>t, GoMoves DEF SaveMetadata, SavePc, Moving, Alone
<1>o. ~admitting /\ \A u \in SaveThread \ {t} : saves[u].pc \notin Moving /\ Idling(u)
  BY Zenon, <1>t, <1>u DEF ThreadInv, Exclusive, Moving, Alone, Idling
<1>2. ModeTypes'
  BY <1>t, <1>u, <1>b, <1>1, StagedType DEF ModeTypes, Moved
<1>3. ThreadInv' /\ IdInv' /\ Steady'
  BY Zenon, <1>u, <1>m, <1>1, <1>o, MoveKeeps DEF SavePc, Before, Moving, Alone, Plain
<1>4. MarkerInv'
  BY Zenon, <1>u, <1>b, <1>1, BusyMarker DEF Moved, Others, Alone
<1>5. LawInv' /\ TickInv'
  BY Zenon, <1>u, SameLaw DEF processes
<1>6. RecordInv'
  <2>1. Staged(t) \notin revisions
    BY Zenon, <1>t, <1>u DEF RecordInv, Before
  <2>2. ASSUME NEW b, Witnessed(b) PROVE Witnessed(b)'
    BY Zenon, <1>u, <1>1, <2>1, <2>2, StaysWitnessed DEF Moved, Others
  <2>3. ASSUME NEW u \in SaveThread PROVE saves'[u].pc \in {"idle", "publish"}
    <3>1. CASE u = t
      BY Zenon, <1>1, <3>1 DEF Moved
    <3>2. CASE u # t
      BY <1>1, <1>o, <3>2 DEF Moved, Others, Idling
    <3> QED
      BY Zenon, <3>1, <3>2
  <2>4. ~(marker # Unset /\ marker.state = "publish") /\ supPc \notin {"republish", "ready"}
    BY Zenon, <1>b, BusyFacts DEF Switching
  <2>5. ASSUME NEW s \in Site PROVE Witnessed(profiles[s])'
    <3>1. PICK b : b = profiles[s]
      BY Zenon
    <3> QED
      BY Zenon, <1>t, <1>u, <2>2, <3>1 DEF RecordInv
  <2>6. \A u \in SaveThread : saves'[u].pc = "publish" => Staged(u)' \in revisions'
    BY Zenon, <1>u, <1>1, <1>o DEF Moved, Others, Idling
  <2> QED
    BY Zenon, <1>u, <2>3, <2>4, <2>5, <2>6 DEF RecordInv, Before
<1> QED
  BY Zenon, <1>2, <1>3, <1>4, <1>5, <1>6 DEF ModeInv

\* The publish journal, or the end of a transition that cannot write it.
LEMMA SavePublishKeeps ==
  ASSUME ModeInv, NEW t \in SaveThread, SavePublish(t)
  PROVE  ModeInv'
<1>t. ModeTypes /\ IdInv /\ ThreadInv /\ Steady /\ RecordInv
  BY Zenon DEF ModeInv
<1>u. /\ service = "up" /\ saves[t].pc = "publish"
      /\ UNCHANGED <<project, profiles, service, active, childMode, saved,
                     supPc, supMode, applied, seen, supTarget>>
  BY Zenon DEF SavePublish, At, monitor
<1>b. Busy /\ Numbered(t)
  BY Zenon, <1>u DEF Busy, Numbered, Before
<1>m. SameModes /\ profiles' \in [Site -> Bytes]
  BY Zenon, <1>t, <1>u DEF SameModes, ModeTypes
<1>p. UNCHANGED processes
  BY Zenon, <1>u DEF processes
<1>o. ~admitting /\ \A u \in SaveThread \ {t} : saves[u].pc \notin Moving /\ Idling(u)
  BY Zenon, <1>t, <1>u DEF ThreadInv, Exclusive, Moving, Alone, Idling
<1>a. ActiveMode \in Mode /\ profiles[active.site] \in Bytes
  BY Zenon, <1>t, <1>u, ActiveFields DEF ModeTypes
<1>f. /\ Staged(t) \in StagedFile /\ saves[t].bytes \in Bytes /\ ModeOf[saves[t].bytes] \in Mode
      /\ Staged(t).bytes = saves[t].bytes
  BY Zenon, <1>t, <1>b, StagedType DEF Staged
<1>e. Staged(t) \in staging /\ Staged(t) \in revisions /\ ModeOf[saves[t].bytes] # ActiveMode
  BY Zenon, <1>t, <1>u DEF ThreadInv, Equipped, RecordInv, Before
<1>w. ASSUME NEW b, Witnessed(b), saves'[t].pc # "publish", Others(t),
             revisions \ {Staged(t)} \subseteq revisions'
      PROVE  Witnessed(b)'
  <2>1. PICK r \in revisions :
          /\ ModeOf[r.bytes] = ModeOf[b]
          /\ \A u \in SaveThread : saves[u].pc = "publish" => r # Staged(u)
    BY <1>w DEF Witnessed
  <2>2. r \in revisions'
    BY Zenon, <1>u, <1>w, <2>1
  <2>3. \A u \in SaveThread : saves'[u].pc # "publish"
    BY Zenon, <1>o, <1>w DEF Others, Idling
  <2> QED
    BY Zenon, <2>1, <2>2, <2>3 DEF Witnessed
<1>1. CASE /\ marker' = Marker("publish", ModeOf[saves[t].bytes], saves[t].bytes,
                               ActiveMode, Staged(t))
           /\ Go(t, "profile") /\ UNCHANGED <<admitting, staging, revisions>>
  <2>1. Moved(t, "profile")
    BY Zenon, <1>1, <1>t, GoMoves DEF SavePc, Moving, Alone
  <2>2. /\ IsAnnounced(marker', "publish", ModeOf[saves[t].bytes], ActiveMode, Staged(t))
        /\ marker'.sha = saves[t].bytes
    <3>1. PICK m \in Mode, b \in Bytes, q \in Mode, f \in StagedFile :
            m = ModeOf[saves[t].bytes] /\ b = saves[t].bytes /\ q = ActiveMode /\ f = Staged(t)
      BY Zenon, <1>a, <1>f
    <3>2. "publish" \in {"fence", "publish", "ready"} /\ marker' = Marker("publish", m, b, q, f)
      BY Zenon, <1>1, <3>1
    <3>3. IsAnnounced(marker', "publish", m, q, f) /\ marker'.sha = b
      BY <3>2, AnnouncementMade
    <3> QED
      BY Zenon, <3>1, <3>3
  <2>3. ModeTypes'
    BY Zenon, <1>1, <1>t, <1>u, <2>1, <2>2 DEF ModeTypes, Moved, IsAnnounced
  <2>4. ThreadInv' /\ IdInv' /\ Steady'
    BY Zenon, <1>1, <1>u, <1>m, <1>o, <2>1, MoveKeeps DEF SavePc, Before, Moving, Alone, Plain
  <2>5. MarkerInv'
    <3>1. PublishRecoverable'
      BY Zenon, <1>1, <1>e, <1>f, <2>2 DEF PublishRecoverable, IsAnnounced
    <3>2. Quiet'
      <4>1. ~admitting' /\ marker'.due = FALSE
        BY Zenon, <1>1, <1>o, <2>2 DEF IsAnnounced
      <4>2. saves'[t].pc = "profile" /\ Staged(t)' = marker'.file
        BY Zenon, <2>1, <2>2 DEF Moved, IsAnnounced
      <4>3. \A u \in SaveThread \ {t} : Idling(u)'
        BY Zenon, <1>o, <2>1 DEF Moved, Others, Idling
      <4> QED
        BY Zenon, <4>1, <4>2, <4>3 DEF Quiet
    <3> QED
      BY Zenon, <1>a, <1>e, <1>f, <2>2, <3>1, <3>2 DEF MarkerInv, IsAnnounced
  <2>6. LawInv' /\ TickInv'
    <3>1. Live /\ supPc \notin {"republish", "ready"}
      BY Zenon, <1>b, BusyFacts
    <3> QED
      BY Zenon, <1>f, <1>e, <1>p, <2>2, <3>1, AnnounceLaw
  <2>7. RecordInv'
    <3>1. ASSUME NEW b, Witnessed(b) PROVE Witnessed(b)'
      BY Zenon, <1>1, <1>w, <2>1, <3>1 DEF Moved
    <3>2. ASSUME NEW s \in Site PROVE Witnessed(profiles[s])'
      <4>1. PICK b : b = profiles[s]
        BY Zenon
      <4> QED
        BY Zenon, <1>t, <1>u, <3>1, <4>1 DEF RecordInv
    <3>3. \A u \in SaveThread : saves'[u].pc # "publish" /\ (u # t => saves'[u].pc = "idle")
      BY Zenon, <1>o, <2>1 DEF Moved, Others, Idling
    <3>4. PICK b : b = saves[t].bytes
      BY Zenon
    <3>5. Witnessed(b)'
      BY Zenon, <1>1, <1>e, <1>f, <3>3, <3>4 DEF Witnessed
    <3>6. Witnessed(saves[t].bytes)' /\ Witnessed(marker.sha)'
      BY Zenon, <2>1, <2>2, <3>4, <3>5 DEF Moved
    <3>7. supPc' \notin {"republish", "ready"}
      BY Zenon, <1>b, <1>u, BusyFacts
    <3> QED
      BY Zenon, <2>1, <3>2, <3>3, <3>6, <3>7 DEF RecordInv, Before, Moved
  <2> QED
    BY Zenon, <2>3, <2>4, <2>5, <2>6, <2>7 DEF ModeInv
<1>2. CASE /\ Answer(t) /\ RemoveRevision(t)
           /\ admitting' = TRUE /\ staging' = staging \ {Staged(t)}
           /\ \/ marker' = Marker("committed", ActiveMode, profiles[active.site], Unset, Unset)
              \/ UNCHANGED marker
  <2>1. Ended(t) /\ revisions' = revisions \ {Staged(t)}
    BY Zenon, <1>2, <1>t, AnswerEnds DEF RemoveRevision
  <2>2. marker' = marker \/ IsCommit(marker', ActiveMode)
    BY Zenon, <1>2, <1>a, CommitMade
  <2>3. ModeTypes'
    BY <1>2, <1>t, <1>u, <2>1, <2>2 DEF ModeTypes, Ended, IsCommit
  <2>4. ThreadInv' /\ IdInv' /\ Steady'
    BY Zenon, <1>2, <1>u, <1>m, <2>1, EndKeeps DEF Before, Moving, Alone
  <2>5. MarkerInv' /\ LawInv' /\ TickInv'
    <3>1. CASE marker' = marker
      <4>1. MarkerInv'
        BY Zenon, <1>b, <1>u, <2>1, <3>1, BusyMarker DEF Ended, Others, Alone
      <4>2. LawInv' /\ TickInv'
        BY Zenon, <1>p, <1>u, <3>1, SameLaw
      <4> QED
        BY Zenon, <4>1, <4>2
    <3>2. CASE IsCommit(marker', ActiveMode)
      BY Zenon, <1>b, <1>p, <3>2, SettledMarker, CommitLaw DEF IsCommit
    <3> QED
      BY Zenon, <2>2, <3>1, <3>2
  <2>6. RecordInv'
    <3>1. ASSUME NEW b, Witnessed(b) PROVE Witnessed(b)'
      BY Zenon, <1>w, <2>1, <3>1 DEF Ended
    <3>2. ASSUME NEW s \in Site PROVE Witnessed(profiles[s])'
      <4>1. PICK b : b = profiles[s]
        BY Zenon
      <4> QED
        BY Zenon, <1>t, <1>u, <3>1, <4>1 DEF RecordInv
    <3>3. \A u \in SaveThread : saves'[u].pc = "idle"
      BY Zenon, <1>o, <2>1 DEF Ended, Others, Idling
    <3>4. ~(marker' # Unset /\ marker'.state = "publish") /\ supPc' \notin {"republish", "ready"}
      BY Zenon, <1>b, <1>u, <2>2, BusyFacts DEF Switching, IsCommit
    <3> QED
      BY Zenon, <3>2, <3>3, <3>4 DEF RecordInv, Before
  <2> QED
    BY Zenon, <2>3, <2>4, <2>5, <2>6 DEF ModeInv
<1>3. CASE Answer(t) /\ UNCHANGED <<revisions, admitting, staging, marker>>
  <2>1. Ended(t)
    BY Zenon, <1>3, <1>t, AnswerEnds
  <2>2. admitting' \in BOOLEAN /\ ~admitting'
    BY Zenon, <1>3, <1>o, <1>t DEF ModeTypes
  <2> QED
    BY Zenon, <1>3, <1>u, <1>m, <1>p, <2>1, <2>2, EndsBusy
<1> QED
  BY Zenon, <1>1, <1>2, <1>3 DEF SavePublish

\* The announced transition ends without writing the marker.
LEMMA EndsAnnounced ==
  ASSUME ModeInv, NEW t \in SaveThread, Ended(t), service = "up", saves[t].pc \in {"profile", "ready"},
         UNCHANGED processes, UNCHANGED <<saved, revisions, project, profiles, marker, staging, admitting>>
  PROVE  ModeInv'
<1>t. ModeTypes /\ MarkerInv
  BY Zenon DEF ModeInv
<1>p. UNCHANGED <<service, active, childMode, applied, supPc, supMode, supTarget, seen>>
  BY Zenon DEF processes
<1>m. SameModes /\ profiles' \in [Site -> Bytes]
  BY Zenon, <1>t DEF SameModes, ModeTypes
<1>1. ModeTypes'
  BY <1>t, <1>p DEF ModeTypes, Ended
<1>2. ThreadInv' /\ IdInv' /\ Steady'
  BY Zenon, <1>m, <1>p, EndKeeps
<1>3. MarkerInv'
  <2>1. \A u \in SaveThread : saves'[u].pc # "idle" => saves'[u].pc = saves[u].pc /\ Staged(u)' = Staged(u)
    BY Zenon DEF Ended, Others
  <2>2. Switching' <=> Switching
    BY Zenon, <1>p DEF Switching, ActiveMode
  <2>3. Quiet => Quiet'
    BY Zenon, <2>1 DEF Quiet, Idling
  <2>4. \A u \in SaveThread : saves'[u].pc \in {"drain"} \cup Alone => saves[u].pc \in {"drain"} \cup Alone
    BY Zenon, <2>1 DEF Alone
  <2> QED
    BY Zenon, <1>t, <1>p, <2>2, <2>3, <2>4 DEF MarkerInv, PublishRecoverable, ActiveMode
<1>4. LawInv' /\ TickInv'
  BY Zenon, SameLaw
<1>5. RecordInv'
  BY Zenon, <1>m, <1>p, EndedRecord
<1> QED
  BY Zenon, <1>1, <1>2, <1>3, <1>4, <1>5 DEF ModeInv

\* The new bytes.
LEMMA SaveProfileKeeps ==
  ASSUME ModeInv, NEW t \in SaveThread, SaveProfile(t)
  PROVE  ModeInv'
<1>t. ModeTypes /\ IdInv /\ ThreadInv /\ Steady /\ RecordInv /\ MarkerInv
  BY Zenon DEF ModeInv
<1>u. /\ service = "up" /\ saves[t].pc = "profile"
      /\ UNCHANGED <<project, marker, staging, revisions, service, active, admitting, childMode,
                     saved, supPc, supMode, applied, seen, supTarget>>
  BY Zenon DEF SaveProfile, At, monitor
<1>p. UNCHANGED processes
  BY <1>u DEF processes
<1>o. ~admitting /\ \A u \in SaveThread \ {t} : saves[u].pc \notin Moving /\ Idling(u)
  BY Zenon, <1>t, <1>u DEF ThreadInv, Exclusive, Moving, Alone, Idling
<1>f. saves[t].bytes \in Bytes
  BY Zenon, <1>t, <1>u, StagedType DEF Numbered, Moving, Alone
<1>1. CASE /\ profiles' = [profiles EXCEPT ![active.site] = saves[t].bytes]
           /\ Go(t, "ready")
  <2>1. Moved(t, "ready")
    BY Zenon, <1>1, <1>t, GoMoves DEF SavePc, Moving, Alone
  <2>2. /\ profiles' \in [Site -> Bytes]
        /\ \A s \in Site : profiles'[s] \in {profiles[s], saves[t].bytes}
    BY Zenon, <1>1, <1>f, <1>t DEF ModeTypes
  <2>3. ModeTypes'
    BY <1>t, <1>u, <2>1, <2>2 DEF ModeTypes, Moved
  <2>4. ThreadInv' /\ IdInv' /\ Steady'
    BY Zenon, <1>u, <1>o, <2>1, <2>2, MoveKeeps DEF SavePc, Before, Moving, Alone, Plain
  <2>5. MarkerInv'
    <3>1. \A u \in SaveThread : /\ saves'[u].pc = saves[u].pc \/ (u = t /\ saves'[u].pc = "ready")
                                /\ Staged(u)' = Staged(u)
      BY Zenon, <2>1 DEF Moved, Others
    <3>2. Switching' <=> Switching
      BY Zenon, <1>u DEF Switching, ActiveMode
    <3>3. Quiet => Quiet'
      BY Zenon, <1>u, <3>1 DEF Quiet, Idling
    <3>4. saves[t].pc \in {"drain"} \cup Alone
      BY Zenon, <1>u DEF Alone
    <3> QED
      BY Zenon, <1>t, <1>u, <3>2, <3>3, <3>4 DEF MarkerInv, PublishRecoverable, ActiveMode
  <2>6. LawInv' /\ TickInv'
    <3>1. marker # Unset
      BY Zenon, <1>t, <1>u DEF MarkerInv, Alone
    <3> QED
      BY Zenon, <1>u, <1>p, <3>1, SameLaw
  <2>7. RecordInv'
    <3>1. \A u \in SaveThread : /\ saves'[u].pc # "publish"
                                /\ u # t => saves'[u].pc = "idle"
      BY Zenon, <1>o, <2>1 DEF Moved, Others, Idling
    <3>2. ASSUME NEW b, Witnessed(b) PROVE Witnessed(b)'
      BY Zenon, <1>u, <3>1, <3>2, StaysWitnessed
    <3>3. ASSUME NEW s \in Site PROVE Witnessed(profiles[s])'
      <4>1. PICK b \in Bytes : b = profiles'[s]
        BY Zenon, <2>2
      <4>2. Witnessed(b)
        BY Zenon, <1>t, <1>u, <2>2, <4>1 DEF RecordInv
      <4> QED
        BY Zenon, <3>2, <4>1, <4>2
    <3>4. Witnessed(saves[t].bytes)'
      <4>1. PICK b \in Bytes : b = saves'[t].bytes
        BY Zenon, <1>f, <2>1 DEF Moved
      <4>2. Witnessed(b)
        BY Zenon, <1>t, <1>u, <2>1, <4>1 DEF RecordInv, Moved
      <4> QED
        BY Zenon, <3>2, <4>1, <4>2
    <3>5. marker' # Unset /\ marker'.state = "publish" => Witnessed(marker.sha)'
      <4>1. PICK b : b = marker.sha
        BY Zenon
      <4> QED
        BY Zenon, <1>t, <1>u, <3>2, <4>1 DEF RecordInv
    <3>6. supPc' \in {"republish", "ready"} => Witnessed(seen.marker.sha)'
      <4>1. PICK b : b = seen.marker.sha
        BY Zenon
      <4> QED
        BY Zenon, <1>t, <1>u, <3>2, <4>1 DEF RecordInv
    <3> QED
      BY Zenon, <2>1, <3>1, <3>3, <3>4, <3>5, <3>6 DEF RecordInv, Before, Moved
  <2> QED
    BY Zenon, <2>3, <2>4, <2>5, <2>6, <2>7 DEF ModeInv
<1>2. CASE Answer(t) /\ UNCHANGED profiles
  <2>1. Ended(t)
    BY Zenon, <1>2, <1>t, AnswerEnds
  <2> QED
    BY Zenon, <1>2, <1>u, <1>p, <2>1, EndsAnnounced
<1> QED
  BY Zenon, <1>1, <1>2 DEF SaveProfile

\* The ready marker.
LEMMA SaveReadyKeeps ==
  ASSUME ModeInv, NEW t \in SaveThread, SaveReady(t)
  PROVE  ModeInv'
<1>t. ModeTypes /\ IdInv /\ ThreadInv /\ Steady /\ RecordInv /\ MarkerInv /\ TickInv
  BY Zenon DEF ModeInv
<1>u. /\ service = "up" /\ saves[t].pc = "ready"
      /\ UNCHANGED <<project, profiles, revisions, service, active, admitting, childMode,
                     saved, supPc, supMode, applied, seen, supTarget>>
  BY Zenon DEF SaveReady, At, monitor
<1>p. UNCHANGED processes
  BY Zenon, <1>u DEF processes
<1>m. SameModes /\ profiles' \in [Site -> Bytes]
  BY Zenon, <1>t, <1>u DEF SameModes, ModeTypes
<1>o. ~admitting /\ \A u \in SaveThread \ {t} : saves[u].pc \notin Moving /\ Idling(u)
  BY Zenon, <1>t, <1>u DEF ThreadInv, Exclusive, Moving, Alone, Idling
<1>a. ActiveMode \in Mode /\ profiles[active.site] \in Bytes
  BY Zenon, <1>t, <1>u, ActiveFields DEF ModeTypes
<1>f. /\ Staged(t) \in StagedFile /\ ModeOf[saves[t].bytes] \in Mode
      /\ Staged(t).bytes = saves[t].bytes /\ ModeOf[saves[t].bytes] # ActiveMode
  BY <1>t, <1>u, StagedType DEF Staged, Numbered, Moving, Alone, ThreadInv, Equipped
<1>e. Ended(t)
  BY Zenon, <1>t, AnswerEnds DEF SaveReady
<1>1. CASE /\ marker' = Marker("ready", ModeOf[saves[t].bytes], profiles[active.site],
                               ActiveMode, Staged(t))
           /\ staging' = staging \ {Staged(t)}
  <2>1. IsAnnounced(marker', "ready", ModeOf[saves[t].bytes], ActiveMode, Staged(t))
    BY Zenon, <1>1, <1>a, <1>f, AnnouncementMade
  <2>2. ModeTypes'
    BY <1>1, <1>t, <1>u, <1>e, <2>1 DEF ModeTypes, Ended, IsAnnounced
  <2>3. ThreadInv' /\ IdInv' /\ Steady'
    BY <1>1, <1>u, <1>m, <1>e, EndKeeps DEF Before, Moving, Alone
  <2>4. MarkerInv'
    <3>1. \A u \in SaveThread : saves'[u].pc = "idle"
      BY <1>e, <1>o DEF Ended, Others, Idling
    <3>2. Quiet'
      BY Zenon, <1>o, <1>u, <3>1 DEF Quiet, Idling
    <3> QED
      BY Zenon, <1>a, <1>f, <2>1, <3>1, <3>2 DEF MarkerInv, PublishRecoverable, IsAnnounced, Alone
  <2>5. LawInv' /\ TickInv'
    <3>1. Live
      BY Zenon, <1>u DEF Live, Idling
    <3>2. ASSUME supPc \in {"republish", "ready"}
          PROVE  ModeOf[saves[t].bytes] = marker.mode /\ Staged(t) = marker.file
      <4>1. /\ marker # Unset /\ marker.state \in {"publish", "ready"}
            /\ ActiveMode = marker.previous
        BY Zenon, <1>t, <1>u, <3>2 DEF TickInv, TickRepublishing
      <4>2. marker.previous # marker.mode /\ ModeOf[marker.file.bytes] = marker.mode
        BY Zenon, <1>t, <4>1 DEF MarkerInv
      <4>3. Quiet
        BY Zenon, <1>t, <4>1, <4>2 DEF MarkerInv, Switching
      <4>4. Staged(t) = marker.file
        BY Zenon, <1>u, <4>3 DEF Quiet, Idling
      <4> QED
        BY Zenon, <1>f, <4>2, <4>4
    <3> QED
      BY Zenon, <1>f, <1>p, <2>1, <3>1, <3>2, AnnounceLaw
  <2>6. RecordInv'
    BY <1>u, <1>m, <1>e, <2>1, EndedRecord DEF IsAnnounced
  <2> QED
    BY Zenon, <2>2, <2>3, <2>4, <2>5, <2>6 DEF ModeInv
<1>2. CASE UNCHANGED <<marker, staging>>
  BY <1>2, <1>u, <1>p, <1>e, EndsAnnounced
<1> QED
  BY Zenon, <1>1, <1>2 DEF SaveReady

-----------------------------------------------------------------------------
(* Requests without a change of mode *)

\* The new bytes of the running site have the mode of the old ones.
LEMMA PlainProfileKeeps ==
  ASSUME ModeInv, NEW t \in SaveThread, NEW b \in Bytes, PlainProfile(t, b)
  PROVE  ModeInv'
<1>t. ModeTypes /\ Steady /\ saved \in Nat
  BY Zenon DEF ModeInv, ModeTypes
<1>u. /\ service = "up" /\ admitting /\ saves[t].pc = "idle" /\ ModeOf[b] = ActiveMode
      /\ UNCHANGED <<project, staging, marker, revisions, service, active, admitting, childMode,
                     supPc, supMode, applied, seen, supTarget>>
      /\ saved' = saved + 1 /\ profiles' = [profiles EXCEPT ![active.site] = b]
  BY Zenon, <1>t, IdleType DEF PlainProfile, monitor
<1>c. PICK c : c = profiles[active.site]
  BY Zenon
<1>a. active.site \in Site /\ c \in Bytes /\ ModeOf[c] = ActiveMode
  BY Zenon, <1>c, <1>t, <1>u, ActiveFields DEF ModeTypes, Steady
<1>n. PICK n \in Nat : n = saved + 1
  BY <1>t
<1>r. PICK q \in SaveRecord :
        /\ q = Request("plain-metadata", n, b, c, Unset)
        /\ q.pc = "plain-metadata" /\ q.id = n /\ q.bytes = b /\ q.previous = c
  <2>1. "plain-metadata" \in SavePc
    BY Zenon DEF SavePc, Plain
  <2>2. b \in Bytes \cup {Unset} /\ c \in Bytes \cup {Unset} /\ Unset \in Site \cup {Unset}
    BY Zenon, <1>a
  <2> QED
    BY <2>1, <2>2, RequestMade
<1>q. saves' = [saves EXCEPT ![t] = q] /\ saves \in [SaveThread -> SaveRecord]
  BY Zenon, <1>c, <1>n, <1>r, <1>t DEF PlainProfile, ModeTypes
<1>s. /\ saves'[t].pc = "plain-metadata" /\ saves'[t].id = saved + 1 /\ saves'[t].bytes = b
      /\ saves'[t].previous = c /\ saves' \in [SaveThread -> SaveRecord] /\ Others(t)
  BY Zenon, <1>n, <1>q, <1>r DEF Others, Staged
<1>e. Equipped(t)'
  BY Zenon, <1>a, <1>s, <1>u DEF Equipped, Before, Moving, Alone, ActiveMode
<1>m. SameModes /\ profiles' \in [Site -> Bytes] /\ staging' \subseteq StagedFile
  <2>1. profiles \in [Site -> Bytes] /\ project \in Site /\ staging \subseteq StagedFile
    BY Zenon, <1>t DEF ModeTypes
  <2>2. \A s \in Site : /\ s = active.site => profiles'[s] = b
                       /\ s # active.site => profiles'[s] = profiles[s]
    BY Zenon, <1>u, <1>a, <2>1
  <2>3. \A s \in Site : ModeOf[profiles'[s]] = ModeOf[profiles[s]]
    BY <1>u, <1>c, <1>a, <2>2
  <2>4. profiles' \in [Site -> Bytes]
    BY Zenon, <1>u, <1>a, <2>1
  <2> QED
    BY Zenon, <1>u, <2>1, <2>3, <2>4 DEF SameModes
<1>p. UNCHANGED processes
  BY Zenon, <1>u DEF processes
<1> QED
  BY Zenon, <1>u, <1>s, <1>e, <1>m, <1>p, StartKeeps

\* Its revision, or the previous bytes.
LEMMA PlainMetadataKeeps ==
  ASSUME ModeInv, NEW t \in SaveThread, PlainMetadata(t)
  PROVE  ModeInv'
<1>t. ModeTypes /\ IdInv /\ ThreadInv /\ Steady /\ RecordInv /\ admitting \in BOOLEAN
  BY Zenon DEF ModeInv, ModeTypes
<1>u. /\ service = "up" /\ saves[t].pc = "plain-metadata"
      /\ UNCHANGED <<project, marker, staging, service, active, admitting, childMode,
                     saved, supPc, supMode, applied, seen, supTarget>>
  BY Zenon DEF PlainMetadata, At, monitor
<1>b. Busy /\ Numbered(t)
  BY Zenon, <1>u DEF Busy, Numbered, Plain
<1>p. UNCHANGED processes
  BY Zenon, <1>u DEF processes
<1>1. CASE AppendRevision(t) /\ Go(t, "plain-commit") /\ UNCHANGED profiles
  <2>1. Moved(t, "plain-commit") /\ revisions' = revisions \cup {Staged(t)}
    BY Zenon, <1>1, <1>t, GoMoves DEF SavePc, Plain, AppendRevision
  <2>m. SameModes /\ profiles' \in [Site -> Bytes]
    BY Zenon, <1>1, <1>t, <1>u DEF SameModes, ModeTypes
  <2>2. ModeTypes'
    <3>1. revisions' \subseteq StagedFile
      BY Zenon, <1>t, <1>b, <2>1, StagedType DEF ModeTypes
    <3> QED
      BY <1>1, <1>t, <1>u, <2>1, <3>1 DEF ModeTypes, Moved
  <2>3. ThreadInv' /\ IdInv' /\ Steady'
    BY Zenon, <1>1, <1>u, <2>m, <2>1, MoveKeeps DEF SavePc, Before, Moving, Alone, Plain
  <2>4. MarkerInv'
    BY <1>u, <1>b, <2>1, BusyMarker DEF Moved, Others, Alone
  <2>5. LawInv' /\ TickInv'
    BY Zenon, <1>1, <1>u, <1>p, SameLaw
  <2>6. RecordInv'
    <3>1. ASSUME NEW u \in SaveThread
          PROVE  /\ saves'[u].pc = "publish" => saves[u].pc = "publish" /\ Staged(u)' = Staged(u)
                 /\ saves'[u].pc \in {"profile", "ready"} =>
                      saves[u].pc \in {"profile", "ready"} /\ saves'[u].bytes = saves[u].bytes
                 /\ saves'[u].pc \in Before => (Staged(u)' \in revisions' <=> saves'[u].pc = "publish")
      <4>1. CASE u = t
        BY Zenon, <2>1, <4>1 DEF Moved, Before
      <4>2. CASE u # t
        <5>1. saves'[u] = saves[u] /\ Staged(u)' = Staged(u)
          BY <2>1, <4>2 DEF Moved, Others
        <5>2. saves[u].pc \in Before => Staged(u) # Staged(t)
          BY <1>b, <1>t, <4>2, StagedDiffer DEF Numbered
        <5> QED
          BY Zenon, <1>t, <2>1, <5>1, <5>2 DEF RecordInv
      <4> QED
        BY Zenon, <4>1, <4>2
    <3> QED
      BY Zenon, <1>t, <1>u, <2>1, <2>m, <3>1, RecordKept
  <2> QED
    BY Zenon, <2>2, <2>3, <2>4, <2>5, <2>6 DEF ModeInv
<1>2. CASE /\ Answer(t) /\ UNCHANGED revisions
           /\ \/ profiles' = [profiles EXCEPT ![active.site] = saves[t].previous]
              \/ UNCHANGED profiles
  <2>1. Ended(t)
    BY <1>2, <1>t, AnswerEnds
  <2>2. /\ active.site \in Site /\ ModeOf[profiles[active.site]] = ActiveMode
        /\ saves[t].previous \in Bytes /\ ModeOf[saves[t].previous] = ActiveMode
    BY Zenon, <1>t, <1>u, ActiveFields DEF Steady, Plain, ThreadInv, Equipped
  <2>m. SameModes /\ profiles' \in [Site -> Bytes]
    BY Zenon, <1>2, <1>t, <1>u, <2>2 DEF SameModes, ModeTypes
  <2> QED
    BY Zenon, <1>2, <1>t, <1>u, <1>p, <2>1, <2>m, EndsBusy
<1> QED
  BY Zenon, <1>1, <1>2 DEF PlainMetadata

\* The commit of the mode in use.
LEMMA PlainCommitKeeps ==
  ASSUME ModeInv, NEW t \in SaveThread, PlainCommit(t)
  PROVE  ModeInv'
<1>t. ModeTypes /\ admitting \in BOOLEAN
  BY Zenon DEF ModeInv, ModeTypes
<1>u. /\ service = "up" /\ saves[t].pc = "plain-commit"
      /\ UNCHANGED <<project, profiles, staging, revisions, service, active, admitting, childMode,
                     saved, supPc, supMode, applied, seen, supTarget>>
  BY Zenon DEF PlainCommit, At, monitor
<1>m. SameModes /\ profiles' \in [Site -> Bytes]
  BY Zenon, <1>t, <1>u DEF SameModes, ModeTypes
<1>e. Ended(t)
  BY Zenon, <1>t, AnswerEnds DEF PlainCommit
<1>c. marker' = marker \/ IsCommit(marker', ActiveMode)
  BY Zenon, <1>t, <1>u, RestoreCommits DEF PlainCommit
<1>p. UNCHANGED processes
  BY Zenon, <1>u DEF processes
<1> QED
  BY Zenon, <1>t, <1>u, <1>m, <1>e, <1>c, <1>p, EndsBusy

\* The selection of a site of the mode in use.
LEMMA ActivateSelectKeeps ==
  ASSUME ModeInv, NEW t \in SaveThread, NEW s \in Site, ActivateSelect(t, s)
  PROVE  ModeInv'
<1>t. ModeTypes /\ IdInv /\ ThreadInv /\ Steady /\ RecordInv /\ MarkerInv /\ saved \in Nat /\ project \in Site
  BY Zenon DEF ModeInv, ModeTypes
<1>u. /\ service = "up" /\ admitting /\ saves[t].pc = "idle" /\ ModeOf[profiles[s]] = ActiveMode
      /\ UNCHANGED <<profiles, staging, marker, revisions, service, active, admitting, childMode,
                     supPc, supMode, applied, seen, supTarget>>
      /\ saved' = saved + 1 /\ project' = s
  BY Zenon, <1>t, IdleType DEF ActivateSelect, monitor
<1>a. ModeOf[profiles[project]] = ActiveMode
  BY Zenon, <1>t, <1>u DEF Steady
<1>m. SameModes /\ profiles' \in [Site -> Bytes] /\ staging' \subseteq StagedFile
  BY Zenon, <1>t, <1>u, <1>a DEF SameModes, ModeTypes
<1>p. UNCHANGED processes
  BY <1>u DEF processes
<1>1. CASE saves' = [saves EXCEPT ![t] = Request("select", 0, Unset, Unset, project)]
  <2>r. PICK q \in SaveRecord :
          q = Request("select", 0, Unset, Unset, project) /\ q.pc = "select" /\ q.site = project
    <3>1. "select" \in SavePc
      BY Zenon DEF SavePc
    <3>2. /\ 0 \in Nat /\ Unset \in Bytes \cup {Unset} /\ project \in Site \cup {Unset}
      BY Zenon, <1>t
    <3>3. PICK z \in Site \cup {Unset} : z = project
      BY Zenon, <3>2
    <3> QED
      BY <3>1, <3>2, <3>3, RequestMade
  <2>s. /\ saves'[t].pc = "select" /\ saves'[t].site = project
        /\ saves' \in [SaveThread -> SaveRecord] /\ Others(t)
    BY Zenon, <1>1, <1>t, <2>r DEF ModeTypes, Others, Staged
  <2>e. Equipped(t)'
    BY <1>t, <1>a, <2>s, <1>u DEF Equipped, Before, Moving, Alone, ActiveMode
  <2> QED
    BY Zenon, <1>u, <1>m, <1>p, <2>s, <2>e, StartKeeps
<1>2. CASE saves' = saves
  <2>s. \A u \in SaveThread : Staged(u)' = Staged(u) /\ saves'[u] = saves[u]
    BY Zenon, <1>2 DEF Staged
  <2>n. saved' \in Nat
    BY <1>t, <1>u
  <2>1. ModeTypes'
    BY Zenon, <1>2, <1>t, <1>u, <2>n DEF ModeTypes
  <2>2. ThreadInv'
    <3>a. ActiveMode' = ActiveMode
      BY Zenon, <1>u DEF ActiveMode
    <3>1. ASSUME NEW u \in SaveThread PROVE Equipped(u)'
      <4>1. Equipped(u)
        BY Zenon, <1>t DEF ThreadInv
      <4> QED
        BY Zenon, <1>u, <2>s, <3>a, <4>1 DEF Equipped
    <3>2. ASSUME NEW u \in SaveThread PROVE Exclusive(u)'
      <4>1. Exclusive(u)
        BY Zenon, <1>t DEF ThreadInv
      <4> QED
        BY Zenon, <1>u, <2>s, <4>1 DEF Exclusive, Idling
    <3> QED
      BY Zenon, <1>u, <3>1, <3>2 DEF ThreadInv
  <2>3. IdInv'
    <3>1. ASSUME NEW r \in revisions PROVE r.id <= saved + 1
      <4>1. r.id \in Nat /\ r.id <= saved
        BY Zenon, <1>t DEF IdInv, ModeTypes, StagedFile
      <4> QED
        BY <1>t, <4>1
    <3>2. ASSUME NEW u \in SaveThread, Numbered(u)
          PROVE  saves[u].id \in 1 .. saved + 1 /\ saves[u].bytes \in Bytes
      <4>1. saves[u].id \in 1 .. saved /\ saves[u].bytes \in Bytes
        BY Zenon, <1>t, <3>2 DEF IdInv
      <4> QED
        BY <1>t, <4>1
    <3> QED
      BY Zenon, <1>2, <1>t, <1>u, <3>1, <3>2 DEF IdInv, Numbered
  <2>4. Steady'
    BY Zenon, <1>t, <1>u DEF Steady, ActiveMode
  <2>5. MarkerInv'
    BY Zenon, <1>2, <1>u, BusyMarker DEF Busy
  <2>6. LawInv' /\ TickInv'
    BY Zenon, <1>u, <1>p, SameLaw
  <2>7. RecordInv'
    <3>1. \A u \in SaveThread :
           /\ saves'[u].pc = "publish" => saves[u].pc = "publish" /\ Staged(u)' = Staged(u)
           /\ saves'[u].pc \in {"profile", "ready"} =>
                saves[u].pc \in {"profile", "ready"} /\ saves'[u].bytes = saves[u].bytes
           /\ saves'[u].pc \in Before => (Staged(u)' \in revisions' <=> saves'[u].pc = "publish")
      BY <1>t, <1>u, <2>s DEF RecordInv
    <3> QED
      BY Zenon, <1>t, <1>u, <1>m, <3>1, RecordKept
  <2> QED
    BY Zenon, <2>1, <2>2, <2>3, <2>4, <2>5, <2>6, <2>7 DEF ModeInv
<1> QED
  BY Zenon, <1>1, <1>2 DEF ActivateSelect

\* The commit for the selected site, or the previous selection.
LEMMA ActivateCommitKeeps ==
  ASSUME ModeInv, NEW t \in SaveThread, ActivateCommit(t)
  PROVE  ModeInv'
<1>t. ModeTypes /\ ThreadInv /\ Steady /\ admitting \in BOOLEAN /\ project \in Site
  BY Zenon DEF ModeInv, ModeTypes
<1>u. /\ service = "up" /\ saves[t].pc = "select"
      /\ UNCHANGED <<profiles, staging, revisions, service, active, admitting, childMode,
                     saved, supPc, supMode, applied, seen, supTarget>>
  BY Zenon DEF ActivateCommit, At, monitor
<1>a. /\ ModeOf[profiles[project]] = ActiveMode /\ saves[t].site \in Site
      /\ ModeOf[profiles[saves[t].site]] = ActiveMode
  BY Zenon, <1>t, <1>u DEF ThreadInv, Equipped, Steady
<1>e. Ended(t)
  BY Zenon, <1>t, AnswerEnds DEF ActivateCommit
<1>c. /\ marker' = marker \/ IsCommit(marker', ActiveMode)
      /\ project' \in {project, saves[t].site}
  <2>1. IsCommit(Marker("committed", ModeOf[profiles[project]], profiles[project], Unset, Unset),
                 ModeOf[profiles[project]])
    BY Zenon, <1>t, KnownModes, CommitMade DEF ModeTypes
  <2> QED
    BY Zenon, <1>a, <2>1 DEF ActivateCommit
<1>m. SameModes /\ profiles' \in [Site -> Bytes]
  BY Zenon, <1>t, <1>u, <1>a, <1>c DEF SameModes, ModeTypes
<1>p. UNCHANGED processes
  BY Zenon, <1>u DEF processes
<1> QED
  BY Zenon, <1>t, <1>u, <1>m, <1>e, <1>c, <1>p, EndsBusy

-----------------------------------------------------------------------------
(* The service process *)

\* No request is at work unless the service is up.
LEMMA DownIsIdle ==
  ASSUME ModeInv, service # "up"
  PROVE  ~admitting /\ active = Unset /\ \A t \in SaveThread : saves[t].pc = "idle"
  BY Zenon DEF ModeInv, ThreadInv, Exclusive, ModeTypes

\* Nothing that concerns requests can be wrong while none is at work.
LEMMA IdleRequests ==
  ASSUME ModeInv, \A t \in SaveThread : saves'[t].pc = "idle", ~admitting',
         UNCHANGED <<saved, revisions>>
  PROVE  ThreadInv' /\ IdInv' /\ Steady'
<1>1. \A t \in SaveThread : saves'[t].pc \notin Before \cup Moving \cup Plain \cup {"select"}
  BY Zenon DEF Before, Moving, Alone, Plain
<1>2. ThreadInv'
  <2>1. \A t \in SaveThread : Exclusive(t)' /\ Equipped(t)'
    BY Zenon, <1>1 DEF Exclusive, Equipped, Moving
  <2> QED
    BY Zenon, <2>1 DEF ThreadInv
<1>3. IdInv'
  BY Zenon, <1>1 DEF ModeInv, IdInv, Numbered
<1>4. Steady'
  BY Zenon, <1>1 DEF Steady
<1> QED
  BY Zenon, <1>2, <1>3, <1>4

\* Revisions stay witnesses when all requests end.
LEMMA IdleRecord ==
  ASSUME ModeInv, \A t \in SaveThread : saves'[t].pc = "idle", UNCHANGED <<revisions, profiles>>,
         marker' # Unset /\ marker'.state = "publish" => marker' = marker,
         supPc' \in {"republish", "ready"} => UNCHANGED <<supPc, seen>>
  PROVE  RecordInv'
<1>1. ASSUME NEW b, Witnessed(b) PROVE Witnessed(b)'
  BY Zenon, <1>1, StaysWitnessed
<1>2. ASSUME NEW s \in Site PROVE Witnessed(profiles[s])'
  <2>1. PICK b : b = profiles[s]
    BY Zenon
  <2> QED
    BY Zenon, <1>1, <2>1 DEF ModeInv, RecordInv
<1>3. marker' # Unset /\ marker'.state = "publish" => Witnessed(marker.sha)'
  <2>1. PICK b : b = marker.sha
    BY Zenon
  <2> QED
    BY Zenon, <1>1, <2>1 DEF ModeInv, RecordInv
<1>4. supPc' \in {"republish", "ready"} => Witnessed(seen.marker.sha)'
  <2>1. PICK b : b = seen.marker.sha
    BY Zenon
  <2> QED
    BY Zenon, <1>1, <2>1 DEF ModeInv, RecordInv
<1> QED
  BY Zenon, <1>2, <1>3, <1>4 DEF RecordInv, Before

\* The service starts with the mode the supervisor has applied, or not at all.
LEMMA BootKeeps ==
  ASSUME ModeInv, Boot
  PROVE  ModeInv'
<1>t. ModeTypes /\ ThreadInv /\ MarkerInv /\ LawInv /\ TickInv /\ project \in Site /\ profiles \in [Site -> Bytes]
  BY Zenon DEF ModeInv, ModeTypes
<1>i. /\ ~admitting /\ active = Unset
      /\ \A t \in SaveThread : saves[t].pc = "idle" /\ saves'[t].pc = "idle"
  BY Zenon, DownIsIdle DEF Boot
<1>u. /\ service = "booting"
      /\ UNCHANGED <<project, profiles, marker, staging, revisions, saves, saved, childMode,
                     supPc, supMode, applied, seen, supTarget>>
  BY Zenon DEF Boot, disk, monitor
<1>l. \A m : Lawful(m)' <=> Lawful(m)
  BY Zenon, <1>u DEF Lawful
<1>r. RecordInv'
  BY Zenon, <1>i, <1>u, IdleRecord
<1>1. CASE /\ StartupAccepts /\ service' = "up" /\ admitting' = TRUE
           /\ active' = [site |-> project, bytes |-> profiles[project]]
  <2> DEFINE m == ModeOf[profiles[project]]
  <2>a. active' \in ActiveConfig /\ active' # Unset /\ active'.site = project /\ active'.bytes = profiles[project]
    <3>1. active' \in ActiveConfig /\ active'.site = project /\ active'.bytes = profiles[project]
      BY Zenon, <1>1, <1>t DEF ActiveConfig
    <3> QED
      BY Zenon, <3>1, ModeCommitAssumption
  <2>m. ActiveMode' = m
    BY Zenon, <2>a DEF ActiveMode
  <2>s. marker # Unset => /\ marker.mode = m /\ (marker.state = "ready" => marker.due)
                          /\ marker.state # "publish" /\ childMode = m
    BY Zenon, <1>1 DEF StartupAccepts
  <2>p. marker # Unset /\ marker.state = "ready" => marker.previous # marker.mode
    BY Zenon, <1>t DEF MarkerInv
  <2>w. Lawful(m)
    <3>1. CASE marker = Unset
      BY Zenon, <1>t, <3>1 DEF LawInv, Lawful
    <3>2. CASE marker # Unset
      <4>1. marker.state \in {"fence", "ready", "committed"}
        BY Zenon, <1>t, <2>s, <3>2, MarkerFields DEF ModeTypes
      <4> QED
        BY Zenon, <2>s, <3>2, <4>1 DEF Lawful
    <3> QED
      BY Zenon, <3>1, <3>2
  <2>o. \A x : Lawful(x) /\ (marker # Unset /\ marker.state = "ready" => x # marker.previous) => x = m
    <3> SUFFICES ASSUME NEW x, Lawful(x), marker # Unset /\ marker.state = "ready" => x # marker.previous
                 PROVE  x = m
      BY Zenon
    <3>1. CASE marker = Unset
      BY <1>t, <3>1 DEF Lawful
    <3>2. CASE marker # Unset
      <4>1. marker.state \in {"fence", "ready", "committed"}
        BY Zenon, <1>t, <2>s, <3>2, MarkerFields DEF ModeTypes
      <4> QED
        BY Zenon, <2>s, <3>2, <4>1 DEF Lawful
    <3> QED
      BY Zenon, <3>1, <3>2
  <2>n. applied # "unknown" => applied = m
    <3>1. marker # Unset => applied = m
      BY Zenon, <1>t, <1>u, <2>s DEF LawInv
    <3>2. marker = Unset /\ applied # "unknown" => applied = m
      BY Zenon, <1>t, <2>o DEF LawInv
    <3> QED
      BY Zenon, <3>1, <3>2
  <2>1. ModeTypes'
    BY <1>1, <1>t, <1>u, <2>a DEF ModeTypes
  <2>2. ThreadInv'
    <3>1. \A t \in SaveThread : Exclusive(t)' /\ Equipped(t)'
      BY Zenon, <1>i DEF Exclusive, Equipped, Before, Moving, Alone
    <3> QED
      BY Zenon, <1>1, <3>1 DEF ThreadInv
  <2>3. IdInv'
    BY <1>i, <1>u DEF ModeInv, IdInv, Numbered, Before, Moving, Alone, Plain
  <2>4. Steady'
    BY <1>u, <2>a, <2>m DEF Steady
  <2>5. MarkerInv'
    <3>1. ~Switching'
      BY <1>1, <1>u, <2>m, <2>s DEF Switching
    <3> QED
      BY Zenon, <1>i, <1>t, <1>u, <2>s, <3>1 DEF MarkerInv, PublishRecoverable, Alone
  <2>6. LawInv'
    BY <1>1, <1>l, <1>t, <1>u, <2>m, <2>w, <2>n DEF LawInv, NoSplitBrain, ActiveMode
  <2>7. TickModes' /\ TickSeen'
    BY Zenon, <1>t, <1>u DEF TickInv, TickModes, TickSeen
  <2>8. TickDecided'
    <3> SUFFICES ASSUME supPc \in {"stop", "persist"} PROVE TickDecided'
      BY Zenon, <1>u DEF TickDecided
    <3>1. /\ supTarget # "unknown" /\ Lawful(supTarget)
          /\ ~(marker # Unset /\ marker.state \in {"publish", "ready"} /\ supTarget = marker.previous)
      BY Zenon, <1>t, <1>u, <2>s DEF TickInv, TickDecided
    <3>2. supTarget = m
      BY <2>o, <3>1
    <3> QED
      BY <1>1, <1>l, <1>u, <2>m, <3>1, <3>2 DEF TickDecided
  <2>9. TickRecovering'
    BY Zenon, <1>1, <1>t, <1>u, <2>m, <2>s DEF TickInv, TickRecovering
  <2>10. TickRepublishing'
    BY Zenon, <1>t, <1>u, <2>s DEF TickInv, TickRepublishing
  <2> QED
    BY <1>r, <2>1, <2>2, <2>3, <2>4, <2>5, <2>6, <2>7, <2>8, <2>9, <2>10 DEF ModeInv, TickInv
<1>2. CASE service' = "off" /\ UNCHANGED <<active, admitting>>
  <2>1. ModeTypes'
    BY Zenon, <1>2, <1>t, <1>u, <1>i DEF ModeTypes
  <2>2. ThreadInv' /\ IdInv' /\ Steady'
    BY Zenon, <1>2, <1>i, <1>u, IdleRequests
  <2>3. MarkerInv'
    BY <1>2, <1>i, <1>t, <1>u DEF MarkerInv, PublishRecoverable, Switching, Quiet, Idling, Alone
  <2>4. LawInv'
    BY Zenon, <1>2, <1>l, <1>t, <1>u DEF LawInv, NoSplitBrain
  <2>5. TickModes' /\ TickSeen' /\ TickDecided'
    BY Zenon, <1>2, <1>l, <1>t, <1>u DEF TickInv, TickModes, TickSeen, TickDecided
  <2>6. TickRecovering' /\ TickRepublishing'
    BY <1>2, <1>t, <1>u DEF TickInv, TickRecovering, TickRepublishing
  <2> QED
    BY <1>r, <2>1, <2>2, <2>3, <2>4, <2>5, <2>6 DEF ModeInv, TickInv
<1> QED
  BY Zenon, <1>1, <1>2 DEF Boot

\* The service stops, by itself or by the supervisor's hand.
LEMMA StoppedKeeps ==
  ASSUME ModeInv, Stopped, UNCHANGED <<project, profiles, marker, staging, revisions, saved,
                                       childMode, supMode, applied, seen, supTarget>>,
         supPc' = supPc \/ (supPc = "stop" /\ supPc' = "persist")
  PROVE  ModeInv'
<1>t. ModeTypes /\ MarkerInv /\ LawInv /\ TickInv
  BY Zenon DEF ModeInv
<1>i. saves' \in [SaveThread -> SaveRecord] /\ \A t \in SaveThread : saves'[t].pc = "idle"
  BY Zenon, IdleType DEF Stopped
<1>s. service' = "off" /\ active' = Unset /\ ~admitting' /\ admitting' \in BOOLEAN
  BY Zenon DEF Stopped
<1>l. \A m : Lawful(m)' <=> Lawful(m)
  BY Zenon DEF Lawful
<1>1. ModeTypes'
  BY Zenon, <1>t, <1>i, <1>s DEF ModeTypes
<1>2. ThreadInv' /\ IdInv' /\ Steady'
  BY Zenon, <1>i, <1>s, IdleRequests
<1>3. MarkerInv'
  BY Zenon, <1>i, <1>s, <1>t DEF MarkerInv, PublishRecoverable, Switching, Quiet, Idling, Alone
<1>4. LawInv'
  BY Zenon, <1>l, <1>s, <1>t DEF LawInv, NoSplitBrain
<1>5. TickModes' /\ TickSeen'
  BY Zenon, <1>t DEF TickInv, TickModes, TickSeen
<1>6. TickDecided'
  BY Zenon, <1>l, <1>s, <1>t DEF TickInv, TickDecided
<1>7. TickRecovering' /\ TickRepublishing'
  BY Zenon, <1>s, <1>t DEF TickInv, TickRecovering, TickRepublishing
<1>8. RecordInv'
  BY Zenon, <1>i, IdleRecord
<1> QED
  BY Zenon, <1>1, <1>2, <1>3, <1>4, <1>5, <1>6, <1>7, <1>8 DEF ModeInv, TickInv

\* A crash of the service.
LEMMA ServiceDiesKeeps ==
  ASSUME ModeInv, ServiceDies
  PROVE  ModeInv'
  BY Zenon, StoppedKeeps DEF ServiceDies, disk, monitor

-----------------------------------------------------------------------------
(* Steps that leave the service alone *)

MonitorTypes ==
  /\ supPc \in {"hold", "profile", "marker", "recover", "republish", "ready", "stop",
                "persist", "promote", "services"}
  /\ {supMode, applied, supTarget} \subseteq Mode \cup {"unknown"}
  /\ seen \in [site : Site \cup {Unset}, profile : Bytes \cup {Unset},
               marker : MarkerFile \cup {Unset}]

\* No mode on disk changes, and a publish journal appears in no other way than
\* by the request that announces it.
LEMMA QuietlyKeeps ==
  ASSUME ModeInv, UNCHANGED <<project, profiles, revisions, api>>,
         staging' = staging \/ (/\ staging' \subseteq staging
                                /\ \A t \in SaveThread : saves[t].pc \notin Before),
         marker' \in MarkerFile \cup {Unset}, MonitorTypes', MarkerInv', LawInv', TickInv',
         marker' # Unset /\ marker'.state = "publish" => marker' = marker,
         supPc' \in {"republish", "ready"} =>
           \/ supPc \in {"republish", "ready"} /\ seen' = seen
           \/ marker # Unset /\ marker.state = "publish" /\ seen'.marker = marker
  PROVE  ModeInv'
<1>t. ModeTypes /\ ThreadInv /\ IdInv /\ Steady /\ RecordInv
  BY Zenon DEF ModeInv
<1>u. UNCHANGED <<service, active, admitting, saves, saved, childMode>>
  BY Zenon DEF api
<1>s. \A t \in SaveThread : Staged(t)' = Staged(t) /\ saves'[t] = saves[t]
  BY Zenon, <1>u DEF Staged
<1>1. ModeTypes'
  BY Zenon, <1>t, <1>u DEF ModeTypes, MonitorTypes
<1>2. ThreadInv'
  <2>1. \A t \in SaveThread : Exclusive(t)'
    BY <1>t, <1>u DEF ThreadInv, Exclusive, Idling
  <2>2. \A t \in SaveThread : Equipped(t)'
    BY Zenon, <1>t, <1>u, <1>s DEF ThreadInv, Equipped, ActiveMode
  <2> QED
    BY Zenon, <1>t, <1>u, <2>1, <2>2 DEF ThreadInv
<1>3. IdInv'
  BY Zenon, <1>t, <1>u DEF IdInv, Numbered
<1>4. Steady'
  BY <1>t, <1>u DEF Steady, ActiveMode
<1>5. RecordInv'
  <2>1. ASSUME NEW b, Witnessed(b) PROVE Witnessed(b)'
    BY Zenon, <1>s, <2>1, StaysWitnessed
  <2>2. ASSUME NEW s \in Site PROVE Witnessed(profiles[s])'
    <3>1. PICK b : b = profiles[s]
      BY Zenon
    <3>2. Witnessed(b)'
      BY Zenon, <1>t, <2>1, <3>1 DEF RecordInv
    <3> QED
      BY Zenon, <3>1, <3>2
  <2>3. ASSUME NEW t \in SaveThread
        PROVE  /\ saves'[t].pc \in {"profile", "ready"} => Witnessed(saves[t].bytes)'
               /\ saves'[t].pc \in Before => (Staged(t)' \in revisions' <=> saves'[t].pc = "publish")
    <3>1. PICK b : b = saves[t].bytes
      BY Zenon
    <3>2. saves[t].pc \in {"profile", "ready"} => Witnessed(b)'
      BY Zenon, <1>t, <2>1, <3>1 DEF RecordInv
    <3>3. saves[t].pc \in Before => (Staged(t) \in revisions <=> saves[t].pc = "publish")
      BY Zenon, <1>t DEF RecordInv
    <3> QED
      BY Zenon, <1>s, <3>1, <3>2, <3>3
  <2>4. marker' # Unset /\ marker'.state = "publish" => Witnessed(marker.sha)'
    <3>1. PICK b : b = marker.sha
      BY Zenon
    <3>2. marker # Unset /\ marker.state = "publish" => Witnessed(b)'
      BY Zenon, <1>t, <2>1, <3>1 DEF RecordInv
    <3> QED
      BY Zenon, <3>1, <3>2
  <2>5. supPc' \in {"republish", "ready"} => Witnessed(seen.marker.sha)'
    <3>1. supPc' \in {"republish", "ready"} =>
            \E r \in revisions :
              /\ ModeOf[r.bytes] = ModeOf[seen'.marker.sha]
              /\ \A t \in SaveThread : saves[t].pc = "publish" => r # Staged(t)
      BY Zenon, <1>t DEF RecordInv, Witnessed
    <3> QED
      BY Zenon, <1>s, <3>1 DEF Witnessed
  <2> QED
    BY Zenon, <2>2, <2>3, <2>4, <2>5, <1>s DEF RecordInv
<1> QED
  BY Zenon, <1>1, <1>2, <1>3, <1>4, <1>5 DEF ModeInv

\* What the supervisor does between two writes leaves the marker and the modes
\* as they have to be.
LEMMA ReadingKeeps ==
  ASSUME ModeInv, UNCHANGED <<marker, profiles, staging, api, applied>>
  PROVE  MarkerInv' /\ LawInv' /\ \A m : Lawful(m)' <=> Lawful(m)
<1>u. UNCHANGED <<service, active, admitting, saves, saved, childMode>>
  BY Zenon DEF api
<1>s. \A t \in SaveThread : Staged(t)' = Staged(t)
  BY Zenon, <1>u DEF Staged
<1>a. ActiveMode' = ActiveMode
  BY Zenon, <1>u DEF ActiveMode
<1>l. \A m : Lawful(m)' <=> Lawful(m)
  BY Zenon DEF Lawful
<1>1. LawInv'
  BY Zenon, <1>u, <1>a, <1>l DEF ModeInv, LawInv, NoSplitBrain
<1>2. Switching' <=> Switching
  BY <1>u, <1>a DEF Switching
<1>3. Quiet' <=> Quiet
  BY Zenon, <1>u, <1>s DEF Quiet, Idling
<1>4. MarkerInv'
  BY Zenon, <1>u, <1>a, <1>2, <1>3 DEF ModeInv, MarkerInv, PublishRecoverable
<1> QED
  BY Zenon, <1>l, <1>1, <1>4

\* Between ticks the supervisor has the applied mode.
LEMMA RestingTick ==
  ASSUME supPc' \in {"hold", "profile", "services"}, supMode' = applied'
  PROVE  TickInv'
  BY Zenon DEF TickInv, TickModes, TickSeen, TickDecided, TickRecovering, TickRepublishing

\* A step of the supervisor that writes nothing and leaves it at rest.
LEMMA RestingKeeps ==
  ASSUME ModeInv, UNCHANGED <<project, profiles, marker, staging, revisions, api, applied, seen>>,
         supPc' \in {"hold", "profile", "services"}, supMode' = applied',
         supTarget' \in Mode \cup {"unknown"}
  PROVE  ModeInv'
<1>1. MonitorTypes'
  BY Zenon DEF ModeInv, ModeTypes, MonitorTypes
<1>2. MarkerInv' /\ LawInv' /\ TickInv'
  BY Zenon, ReadingKeeps, RestingTick
<1>3. marker' \in MarkerFile \cup {Unset}
  BY Zenon DEF ModeInv, ModeTypes
<1> QED
  BY Zenon, <1>1, <1>2, <1>3, QuietlyKeeps

\* A marker that is rewritten is one.
LEMMA MarkerRewritten ==
  ASSUME NEW m \in MarkerFile, NEW st \in {"fence", "publish", "ready", "committed"}
  PROVE  /\ [m EXCEPT !.due = TRUE] \in MarkerFile
         /\ [m EXCEPT !.due = TRUE].state = m.state /\ [m EXCEPT !.due = TRUE].mode = m.mode
         /\ [m EXCEPT !.due = TRUE].previous = m.previous
         /\ [m EXCEPT !.due = TRUE].file = m.file /\ [m EXCEPT !.due = TRUE].due
         /\ [m EXCEPT !.state = st] \in MarkerFile
         /\ [m EXCEPT !.state = st].state = st /\ [m EXCEPT !.state = st].mode = m.mode
  BY Zenon DEF MarkerFile

\* So is one that is rewritten as ready.
LEMMA ReadyRewritten ==
  ASSUME NEW m \in MarkerFile, NEW r, r = [m EXCEPT !.state = "ready", !.due = FALSE]
  PROVE  /\ r \in MarkerFile /\ r.state = "ready" /\ r.due = FALSE
         /\ r.mode = m.mode /\ r.previous = m.previous /\ r.file = m.file
  BY Zenon DEF MarkerFile

\* A marker becomes due when its own transition no longer works on it.
LEMMA MarkerDueKeeps ==
  ASSUME ModeInv, MarkerDue
  PROVE  ModeInv'
<1>t. ModeTypes /\ MarkerInv /\ LawInv /\ TickInv
  BY Zenon DEF ModeInv
<1>u. /\ UNCHANGED <<project, profiles, staging, revisions, api>>
      /\ UNCHANGED <<service, active, admitting, saves, saved, childMode>>
      /\ UNCHANGED <<supPc, supMode, applied, seen, supTarget>>
  BY Zenon DEF MarkerDue, api, monitor
<1>m. /\ marker # Unset /\ marker \in MarkerFile /\ marker.state \in {"fence", "ready"} /\ ~marker.due
      /\ marker' \in MarkerFile /\ marker' # Unset /\ marker'.state = marker.state /\ marker'.mode = marker.mode
      /\ marker'.previous = marker.previous /\ marker'.file = marker.file /\ marker'.due
  <2>1. marker # Unset /\ marker \in MarkerFile /\ marker.state \in {"fence", "ready"} /\ ~marker.due
    BY Zenon, <1>t DEF MarkerDue, ModeTypes
  <2>2. marker' = [marker EXCEPT !.due = TRUE]
    BY Zenon DEF MarkerDue
  <2>3. /\ marker' \in MarkerFile /\ marker'.state = marker.state /\ marker'.mode = marker.mode
        /\ marker'.previous = marker.previous /\ marker'.file = marker.file /\ marker'.due
    BY Zenon, <2>1, <2>2, MarkerRewritten
  <2> QED
    BY Zenon, <2>1, <2>3, MarkerFields
<1>a. ActiveMode' = ActiveMode
  BY Zenon, <1>u DEF ActiveMode
<1>l. \A m : Lawful(m) => Lawful(m)'
  BY Zenon, <1>m DEF Lawful
<1>1. MarkerInv'
  <2>1. Switching' => Switching
    BY Zenon, <1>a, <1>m, <1>u DEF Switching
  <2>2. Switching => Quiet'
    <3> SUFFICES ASSUME Switching PROVE Quiet'
      BY Zenon
    <3>1. \A t \in SaveThread : saves[t].pc = "idle"
      BY Zenon, <1>t DEF MarkerInv, Quiet, MarkerDue, Idling
    <3> QED
      BY Zenon, <1>t, <1>u, <3>1 DEF MarkerInv, Quiet, Idling
  <2>3. PublishRecoverable'
    BY Zenon, <1>m DEF PublishRecoverable
  <2> QED
    BY Zenon, <1>a, <1>m, <1>t, <1>u, <2>1, <2>2, <2>3 DEF MarkerInv
<1>2. LawInv'
  BY Zenon, <1>a, <1>l, <1>m, <1>t, <1>u DEF LawInv, NoSplitBrain
<1>3. TickModes' /\ TickSeen'
  BY <1>m, <1>t, <1>u DEF TickInv, TickModes, TickSeen
<1>4. TickDecided'
  BY <1>a, <1>l, <1>m, <1>t, <1>u DEF TickInv, TickDecided
<1>5. TickRecovering'
  BY Zenon, <1>a, <1>m, <1>t, <1>u DEF TickInv, TickRecovering
<1>6. TickRepublishing'
  BY <1>a, <1>m, <1>t, <1>u DEF TickInv, TickRepublishing
<1>7. MonitorTypes'
  BY Zenon, <1>t, <1>u DEF ModeTypes, MonitorTypes
<1> QED
  BY Zenon, <1>m, <1>u, <1>1, <1>2, <1>3, <1>4, <1>5, <1>6, <1>7, QuietlyKeeps DEF TickInv

-----------------------------------------------------------------------------
(* The supervisor's tick *)

\* The hold is read.
LEMMA TickHoldKeeps ==
  ASSUME ModeInv, TickHold
  PROVE  ModeInv'
<1>1. supMode = applied /\ supTarget \in Mode \cup {"unknown"}
  BY Zenon DEF ModeInv, ModeTypes, TickInv, TickModes, TickHold
<1> QED
  BY Zenon, <1>1, RestingKeeps DEF TickHold, disk

\* The selected profile is read.
LEMMA TickProfileKeeps ==
  ASSUME ModeInv, TickProfile
  PROVE  ModeInv'
<1>t. ModeTypes /\ LawInv /\ TickInv /\ project \in Site /\ profiles[project] \in Bytes
  BY Zenon DEF ModeInv, ModeTypes
<1>u. /\ supPc = "profile" /\ supPc' = "marker"
      /\ UNCHANGED <<project, profiles, marker, staging, revisions, api, supMode, applied, supTarget>>
      /\ seen' = [site |-> project, profile |-> profiles[project], marker |-> Unset]
  BY Zenon DEF TickProfile, disk
<1>s. seen'.site = project /\ seen'.profile = profiles[project]
  BY Zenon, <1>u
<1>1. MarkerInv' /\ LawInv'
  BY Zenon, <1>u, ReadingKeeps
<1>2. TickModes' /\ TickDecided' /\ TickRecovering' /\ TickRepublishing'
  BY Zenon, <1>t, <1>u DEF TickInv, TickModes, TickDecided, TickRecovering, TickRepublishing
<1>3. TickSeen'
  BY Zenon, <1>s, <1>t, <1>u DEF LawInv, TickSeen
<1>4. MonitorTypes' /\ marker' \in MarkerFile \cup {Unset}
  BY Zenon, <1>t, <1>u DEF ModeTypes, MonitorTypes
<1> QED
  BY Zenon, <1>u, <1>1, <1>2, <1>3, <1>4, QuietlyKeeps DEF TickInv

\* Before a released mode is due nobody has it.
LEMMA NotYet ==
  ASSUME ModeInv, marker # Unset, marker.state = "publish" \/ (marker.state = "ready" /\ ~marker.due)
  PROVE  /\ marker.previous \in Mode /\ Lawful(marker.previous)
         /\ applied \in {"unknown", marker.previous}
         /\ service = "up" => ActiveMode = marker.previous
         /\ service = "booting" => childMode # marker.mode
<1>t. ModeTypes /\ MarkerInv /\ LawInv
  BY Zenon DEF ModeInv
<1>1. \A m : Lawful(m) <=> m = marker.previous
  BY Zenon DEF Lawful
<1>2. marker.previous \in Mode /\ marker.previous # marker.mode
  BY Zenon, <1>t DEF MarkerInv
<1>3. marker.mode # "unknown"
  BY <1>t, MarkerFields, KnownModes DEF ModeTypes
<1> QED
  BY Zenon, <1>t, <1>1, <1>2, <1>3 DEF LawInv

\* The tick has decided on a mode that both processes may have.
LEMMA DecidedTick ==
  ASSUME supPc' \in {"services", "stop"}, supMode' = applied',
         supTarget' # "unknown", Lawful(supTarget)',
         (marker' # Unset /\ marker'.state \in {"publish", "ready"} /\ supTarget' = marker'.previous) =>
           /\ service' = "booting" => childMode' # marker'.mode
           /\ service' = "up" => ActiveMode' = marker'.previous
  PROVE  TickInv'
  BY DEF TickInv, TickModes, TickSeen, TickDecided, TickRecovering, TickRepublishing

\* The marker is read and a mode chosen, or a repair of the marker begun.
LEMMA TickMarkerKeeps ==
  ASSUME ModeInv, TickMarker
  PROVE  ModeInv'
<1>t. ModeTypes /\ MarkerInv /\ LawInv /\ TickInv /\ supPc = "marker"
  BY Zenon DEF ModeInv, TickMarker
<1>u. /\ UNCHANGED <<project, profiles, marker, staging, revisions, api, supMode, applied>>
      /\ UNCHANGED <<service, active, admitting, saves, saved, childMode>>
      /\ seen' = [seen EXCEPT !.marker = marker]
  BY Zenon DEF TickMarker, disk, api
<1>s. /\ seen'.site = seen.site /\ seen'.profile = seen.profile /\ seen'.marker = marker
      /\ seen' \in [site : Site \cup {Unset}, profile : Bytes \cup {Unset},
                    marker : MarkerFile \cup {Unset}]
  BY Zenon, <1>t, <1>u DEF ModeTypes
<1>p. /\ seen.profile \in Bytes /\ seen.site \in Site /\ ModeOf[seen.profile] \in Mode
      /\ marker = Unset => \A s \in Site : ModeOf[profiles[s]] = ModeOf[seen.profile]
      /\ supMode = applied
  BY <1>t, KnownModes DEF TickInv, TickSeen, TickModes
<1>a. ActiveMode' = ActiveMode
  BY Zenon, <1>u DEF ActiveMode
<1>r. MarkerInv' /\ LawInv' /\ (\A m : Lawful(m)' <=> Lawful(m)) /\ marker' \in MarkerFile \cup {Unset}
  BY Zenon, <1>t, <1>u, ReadingKeeps DEF ModeTypes
<1>f. marker # Unset =>
        /\ marker \in MarkerFile /\ marker.mode \in Mode
        /\ marker.state \in {"fence", "publish", "ready", "committed"} /\ marker.due \in BOOLEAN
  BY <1>t, MarkerFields DEF ModeTypes
<1>k. "unknown" \notin Mode
  BY KnownModes
<1>q. ASSUME /\ supPc' \in {"services", "stop", "recover", "republish"}
             /\ supTarget' \in Mode \cup {"unknown"} /\ TickInv'
             /\ supPc' = "republish" => marker # Unset /\ marker.state = "publish"
      PROVE  ModeInv'
  <2>1. MonitorTypes'
    BY <1>q, <1>s, <1>t, <1>u DEF ModeTypes, MonitorTypes
  <2> QED
    BY Zenon, <1>q, <1>r, <1>s, <1>u, <2>1, QuietlyKeeps
<1>d. ASSUME NEW m \in Mode, Configured(m), Lawful(m),
             (marker # Unset /\ marker.state \in {"publish", "ready"} /\ m = marker.previous) =>
               marker.state = "ready" /\ ~marker.due
      PROVE  ModeInv'
  <2>1. supPc' \in {"services", "stop"} /\ supTarget' = m
    BY Zenon, <1>d DEF Configured
  <2>2. Lawful(supTarget)'
    BY <1>d, <1>r, <2>1 DEF Lawful
  <2>3. (marker' # Unset /\ marker'.state \in {"publish", "ready"} /\ supTarget' = marker'.previous) =>
          /\ service' = "booting" => childMode' # marker'.mode
          /\ service' = "up" => ActiveMode' = marker'.previous
    BY <1>a, <1>d, <1>u, <2>1, NotYet
  <2>4. TickInv'
    BY Zenon, <1>k, <1>p, <1>u, <2>1, <2>2, <2>3, DecidedTick
  <2> QED
    BY Zenon, <1>q, <2>1, <2>4
<1>x. ASSUME Refused PROVE ModeInv'
  <2>1. supPc' = "services" /\ supTarget' = supTarget /\ TickInv'
    BY <1>p, <1>u, <1>x, RestingTick DEF Refused
  <2> QED
    BY <1>q, <1>t, <2>1 DEF ModeTypes
<1>1. CASE marker = Unset /\ Configured(ModeOf[seen.profile])
  <2>1. PICK m \in Mode : m = ModeOf[seen.profile]
    BY <1>p
  <2> QED
    BY Zenon, <1>1, <1>d, <1>p, <2>1 DEF Lawful
<1>2. CASE marker # Unset /\ marker.state = "fence" /\ supPc' = "recover" /\ UNCHANGED supTarget
  <2>1. applied \in {"unknown", marker.mode} /\ (service = "up" => ActiveMode = marker.mode)
    BY Zenon, <1>2, <1>t DEF LawInv, Lawful
  <2>2. TickRecovering'
    BY <1>2, <1>a, <1>f, <1>s, <1>u, <2>1 DEF TickRecovering
  <2>3. TickInv'
    BY Zenon, <1>2, <1>p, <1>u, <2>2 DEF TickInv, TickModes, TickSeen, TickDecided, TickRepublishing
  <2> QED
    BY <1>2, <1>q, <1>t, <2>3 DEF ModeTypes
<1>3. CASE marker # Unset /\ marker.state \in {"fence", "committed"} /\ Configured(marker.mode)
  <2>1. PICK m \in Mode : m = marker.mode
    BY <1>3, <1>f
  <2> QED
    BY Zenon, <1>3, <1>d, <2>1 DEF Lawful
<1>4. CASE marker # Unset /\ marker.state = "ready" /\ ~marker.due /\ Configured(marker.previous)
  <2>1. PICK m \in Mode : m = marker.previous
    BY Zenon, <1>4, NotYet
  <2> QED
    BY Zenon, <1>4, <1>d, <2>1, NotYet
<1>5. CASE marker # Unset /\ marker.state = "ready" /\ marker.due /\ Configured(marker.mode)
  <2>1. PICK m \in Mode : m = marker.mode
    BY Zenon, <1>5, <1>f
  <2>2. m # marker.previous
    BY Zenon, <1>5, <1>t, <2>1 DEF MarkerInv
  <2> QED
    BY <1>5, <1>d, <2>1, <2>2 DEF Lawful
<1>6. CASE marker # Unset /\ marker.state = "publish" /\ supPc' = "republish" /\ UNCHANGED supTarget
  <2>1. TickRepublishing'
    BY <1>6, <1>a, <1>f, <1>p, <1>s, <1>u, NotYet DEF TickRepublishing
  <2>2. TickInv'
    BY Zenon, <1>6, <1>p, <1>u, <2>1 DEF TickInv, TickModes, TickSeen, TickDecided, TickRecovering
  <2> QED
    BY <1>6, <1>q, <1>t, <2>2 DEF ModeTypes
<1> QED
  BY <1>x, <1>1, <1>2, <1>3, <1>4, <1>5, <1>6, <1>f DEF TickMarker

\* A failed repair of the marker.
LEMMA RefusedKeeps ==
  ASSUME ModeInv, Refused, supPc # "promote",
         UNCHANGED <<project, profiles, marker, staging, revisions, api, applied, seen, supMode>>
  PROVE  ModeInv'
<1>1. supMode = applied /\ supTarget \in Mode \cup {"unknown"}
  BY Zenon DEF ModeInv, ModeTypes, TickInv, TickModes
<1> QED
  BY Zenon, <1>1, RestingKeeps DEF Refused

\* The stale fence becomes a commit of the mode both processes have.
LEMMA TickRecoverKeeps ==
  ASSUME ModeInv, TickRecover
  PROVE  ModeInv'
<1>t. ModeTypes /\ LawInv /\ TickInv /\ supPc = "recover"
  BY Zenon DEF ModeInv, TickRecover
<1>u. /\ UNCHANGED <<project, profiles, staging, revisions, api, supMode, applied, seen>>
      /\ UNCHANGED <<service, active, admitting, saves, saved, childMode>>
  BY Zenon DEF TickRecover, api
<1>1. CASE Refused /\ UNCHANGED marker
  BY Zenon, <1>1, <1>t, <1>u, RefusedKeeps
<1>2. CASE marker' = [seen.marker EXCEPT !.state = "committed"] /\ Configured(seen.marker.mode)
  <2>s. /\ marker # Unset /\ seen.marker \in MarkerFile /\ supMode = applied
        /\ applied \in {"unknown", seen.marker.mode}
        /\ service = "up" => ActiveMode = seen.marker.mode
        /\ service = "booting" => marker.mode = seen.marker.mode
    BY Zenon, <1>t DEF TickInv, TickRecovering, TickModes
  <2>k. seen.marker.mode \in Mode /\ seen.marker.mode # "unknown"
    BY Zenon, <2>s, MarkerFields, KnownModes
  <2>m. marker' \in MarkerFile /\ marker' # Unset /\ marker'.state = "committed" /\ marker'.mode = seen.marker.mode
    <3>1. marker' \in MarkerFile /\ marker'.state = "committed" /\ marker'.mode = seen.marker.mode
      BY Zenon, <1>2, <2>s, MarkerRewritten
    <3> QED
      BY Zenon, <3>1, MarkerFields
  <2>c. supPc' \in {"services", "stop"} /\ supTarget' = seen.marker.mode
    BY Zenon, <1>2 DEF Configured
  <2>l. \A m : Lawful(m)' <=> m = seen.marker.mode
    BY Zenon, <2>m DEF Lawful
  <2>a. ActiveMode' = ActiveMode
    BY Zenon, <1>u DEF ActiveMode
  <2>1. MarkerInv'
    BY Zenon, <2>m, SettledMarker
  <2>2. LawInv'
    BY <1>t, <1>u, <2>s, <2>m, <2>l, <2>a DEF LawInv, NoSplitBrain
  <2>3. TickInv'
    <3>1. Lawful(supTarget)'
      BY Zenon, <2>c, <2>m DEF Lawful
    <3> QED
      BY <1>u, <2>s, <2>k, <2>m, <2>c, <3>1, DecidedTick
  <2>4. MonitorTypes'
    BY <1>t, <1>u, <2>c, <2>k DEF ModeTypes, MonitorTypes
  <2> QED
    BY <1>u, <2>m, <2>c, <2>1, <2>2, <2>3, <2>4, QuietlyKeeps
<1> QED
  BY Zenon, <1>1, <1>2 DEF TickRecover

\* While the supervisor completes a published transition nothing else is at work.
LEMMA RepublishQuiet ==
  ASSUME ModeInv, supPc \in {"republish", "ready"}
  PROVE  /\ seen.site \in Site /\ seen.marker \in MarkerFile /\ supMode = applied
         /\ marker # Unset /\ marker \in MarkerFile /\ marker.state \in {"publish", "ready"}
         /\ seen.marker.mode = marker.mode /\ seen.marker.previous = marker.previous
         /\ seen.marker.file = marker.file
         /\ applied \in {"unknown", marker.previous}
         /\ service = "up" => ActiveMode = marker.previous
         /\ service = "booting" => childMode # marker.mode
         /\ marker.previous \in Mode /\ marker.previous # marker.mode
         /\ Quiet /\ \A t \in SaveThread : saves[t].pc \notin Before \cup Plain \cup {"select"}
<1>1. TickRepublishing /\ supMode = applied /\ MarkerInv
  BY Zenon DEF ModeInv, TickInv, TickModes
<1>2. /\ marker # Unset /\ marker.state \in {"publish", "ready"}
      /\ service = "up" => ActiveMode = marker.previous
  BY Zenon, <1>1 DEF TickRepublishing
<1>3. marker.previous \in Mode /\ marker.previous # marker.mode
  BY Zenon, <1>1, <1>2 DEF MarkerInv
<1>4. Quiet
  BY Zenon, <1>1, <1>2, <1>3 DEF MarkerInv, Switching
<1>5. \A t \in SaveThread : saves[t].pc \notin Before \cup Plain \cup {"select"}
  BY Zenon, <1>4 DEF Quiet, Idling, Before, Plain
<1> QED
  BY <1>1, <1>2, <1>3, <1>4, <1>5 DEF TickRepublishing, ModeInv, ModeTypes

\* The published bytes are written to the selected site's profile.
LEMMA TickRepublishKeeps ==
  ASSUME ModeInv, TickRepublish
  PROVE  ModeInv'
<1>t. ModeTypes /\ ThreadInv /\ IdInv /\ MarkerInv /\ LawInv /\ TickInv /\ RecordInv /\ supPc = "republish"
  BY Zenon DEF ModeInv, TickRepublish
<1>u. /\ UNCHANGED <<project, marker, staging, revisions, api, supMode, applied, seen>>
      /\ UNCHANGED <<service, active, admitting, saves, saved, childMode>>
  BY DEF TickRepublish, api
<1>1. CASE Refused /\ UNCHANGED profiles
  BY <1>1, <1>t, <1>u, RefusedKeeps
<1>2. CASE /\ supPc' = "ready" /\ UNCHANGED supTarget
           /\ profiles' = IF seen.profile = seen.marker.sha THEN profiles
                          ELSE [profiles EXCEPT ![seen.site] = seen.marker.sha]
  <2>q. /\ seen.site \in Site /\ seen.marker \in MarkerFile /\ marker # Unset
        /\ Quiet /\ \A t \in SaveThread : saves[t].pc \notin Before \cup Plain \cup {"select"}
    BY <1>t, RepublishQuiet
  <2>k. seen.marker.sha \in Bytes
    BY Zenon, <2>q, MarkerFields
  <2>p. profiles' \in [Site -> Bytes] /\ \A s \in Site : profiles'[s] \in {profiles[s], seen.marker.sha}
    BY Zenon, <1>2, <1>t, <2>q, <2>k DEF ModeTypes
  <2>s. \A t \in SaveThread : Staged(t)' = Staged(t) /\ saves'[t] = saves[t]
    BY <1>u DEF Staged
  <2>a. ActiveMode' = ActiveMode
    BY Zenon, <1>u DEF ActiveMode
  <2>l. \A m : Lawful(m)' <=> Lawful(m)
    BY Zenon, <1>u, <2>q DEF Lawful
  <2>1. ModeTypes'
    BY Zenon, <1>2, <1>t, <1>u, <2>p DEF ModeTypes
  <2>2. ThreadInv'
    <3>1. \A t \in SaveThread : Exclusive(t)'
      BY <1>t, <1>u DEF ThreadInv, Exclusive, Idling
    <3>2. \A t \in SaveThread : Equipped(t)'
      BY Zenon, <1>t, <1>u, <2>a, <2>q, <2>s DEF ThreadInv, Equipped, Plain
    <3> QED
      BY <1>t, <1>u, <3>1, <3>2 DEF ThreadInv
  <2>3. IdInv'
    BY <1>t, <1>u DEF IdInv, Numbered
  <2>4. Steady'
    BY Zenon, <1>u, <2>q DEF Steady, Quiet
  <2>5. MarkerInv'
    <3>1. (Switching' <=> Switching) /\ (Quiet' <=> Quiet)
      BY <1>u, <2>a, <2>s DEF Switching, Quiet, Idling
    <3> QED
      BY Zenon, <1>t, <1>u, <2>a, <3>1 DEF MarkerInv, PublishRecoverable
  <2>6. LawInv'
    BY <1>t, <1>u, <2>a, <2>l, <2>q DEF LawInv, NoSplitBrain
  <2>7. TickModes' /\ TickSeen' /\ TickDecided' /\ TickRecovering'
    BY Zenon, <1>2, <1>t, <1>u DEF TickInv, TickModes, TickSeen, TickDecided, TickRecovering
  <2>8. TickRepublishing'
    BY <1>2, <1>t, <1>u, <2>a DEF TickInv, TickRepublishing
  <2>9. RecordInv'
    <3>1. ASSUME NEW b, Witnessed(b) PROVE Witnessed(b)'
      BY Zenon, <1>u, <2>s, <3>1, StaysWitnessed
    <3>2. Witnessed(seen.marker.sha)'
      <4>1. PICK b : b = seen.marker.sha
        BY Zenon
      <4>2. Witnessed(b)'
        BY Zenon, <1>t, <1>u, <3>1, <4>1 DEF RecordInv
      <4> QED
        BY <1>u, <4>1, <4>2
    <3>3. ASSUME NEW s \in Site PROVE Witnessed(profiles[s])'
      <4>1. PICK b : b = profiles'[s]
        BY Zenon
      <4>2. Witnessed(b)
        BY Zenon, <1>t, <2>p, <4>1 DEF RecordInv
      <4> QED
        BY Zenon, <3>1, <4>1, <4>2
    <3>4. ASSUME NEW t \in SaveThread
          PROVE  /\ saves'[t].pc \in {"profile", "ready"} => Witnessed(saves[t].bytes)'
                 /\ saves'[t].pc \in Before => (Staged(t)' \in revisions' <=> saves'[t].pc = "publish")
      <4>1. PICK b : b = saves[t].bytes
        BY Zenon
      <4>2. saves[t].pc \in {"profile", "ready"} => Witnessed(b)'
        BY Zenon, <1>t, <3>1, <4>1 DEF RecordInv
      <4>3. saves[t].pc \in Before => (Staged(t) \in revisions <=> saves[t].pc = "publish")
        BY Zenon, <1>t DEF RecordInv
      <4> QED
        BY Zenon, <1>u, <2>s, <4>1, <4>2, <4>3
    <3>5. marker' # Unset /\ marker'.state = "publish" => Witnessed(marker.sha)'
      <4>1. PICK b : b = marker.sha
        BY Zenon
      <4>2. marker # Unset /\ marker.state = "publish" => Witnessed(b)'
        BY Zenon, <1>t, <3>1, <4>1 DEF RecordInv
      <4> QED
        BY Zenon, <1>u, <4>1, <4>2
    <3> QED
      BY <3>2, <3>3, <3>4, <3>5 DEF RecordInv
  <2> QED
    BY <2>1, <2>2, <2>3, <2>4, <2>5, <2>6, <2>7, <2>8, <2>9 DEF ModeInv, TickInv
<1> QED
  BY Zenon, <1>1, <1>2 DEF TickRepublish

\* The ready marker replaces the journal and the staged file goes.
LEMMA TickReadyMarkerKeeps ==
  ASSUME ModeInv, TickReadyMarker
  PROVE  ModeInv'
<1>t. ModeTypes /\ MarkerInv /\ LawInv /\ TickInv /\ supPc = "ready"
  BY Zenon DEF ModeInv, TickReadyMarker
<1>u. /\ UNCHANGED <<project, profiles, revisions, api, supMode, applied, seen>>
      /\ UNCHANGED <<service, active, admitting, saves, saved, childMode>>
  BY DEF TickReadyMarker, api
<1>1. CASE Refused /\ UNCHANGED <<marker, staging>>
  BY <1>1, <1>t, <1>u, RefusedKeeps
<1>2. CASE /\ marker' = [seen.marker EXCEPT !.state = "ready", !.due = FALSE]
           /\ staging' = staging \ {seen.marker.file} /\ Configured(seen.marker.previous)
  <2>q. /\ seen.marker \in MarkerFile /\ supMode = applied
        /\ marker # Unset /\ marker.state \in {"publish", "ready"}
        /\ seen.marker.mode = marker.mode /\ seen.marker.previous = marker.previous
        /\ seen.marker.file = marker.file
        /\ applied \in {"unknown", marker.previous}
        /\ service = "up" => ActiveMode = marker.previous
        /\ service = "booting" => childMode # marker.mode
        /\ marker.previous \in Mode /\ marker.previous # marker.mode
        /\ Quiet /\ \A t \in SaveThread : saves[t].pc \notin Before \cup Plain \cup {"select"}
    BY Zenon, <1>t, RepublishQuiet
  <2>m. /\ marker' \in MarkerFile /\ marker' # Unset /\ marker'.state = "ready" /\ marker'.due = FALSE
        /\ marker'.mode = marker.mode /\ marker'.previous = marker.previous /\ marker'.file = marker.file
    <3>1. /\ marker' \in MarkerFile /\ marker'.state = "ready" /\ marker'.due = FALSE
          /\ marker'.mode = seen.marker.mode /\ marker'.previous = seen.marker.previous
          /\ marker'.file = seen.marker.file
      BY Zenon, <1>2, <2>q, ReadyRewritten
    <3> QED
      BY Zenon, <2>q, <3>1, MarkerFields
  <2>c. supPc' \in {"services", "stop"} /\ supTarget' = marker.previous
    BY Zenon, <1>2, <2>q DEF Configured
  <2>l. \A m : Lawful(m)' <=> m = marker.previous
    BY Zenon, <2>m DEF Lawful
  <2>a. ActiveMode' = ActiveMode
    BY <1>u DEF ActiveMode
  <2>k. marker.previous # "unknown"
    BY <2>q, KnownModes
  <2>1. MarkerInv'
    <3>1. Quiet'
      <4>1. \A t \in SaveThread : Staged(t)' = Staged(t)
        BY Zenon, <1>u DEF Staged
      <4> QED
        BY <1>u, <2>q, <2>m, <4>1 DEF Quiet, Idling
    <3>2. marker.file \in StagedFile /\ ModeOf[marker.file.bytes] = marker.mode
      BY Zenon, <1>t, <2>q DEF MarkerInv
    <3>3. PublishRecoverable'
      BY <2>m DEF PublishRecoverable
    <3>4. ~(service' = "up" /\ ActiveMode' = marker'.mode)
      BY <1>u, <2>a, <2>m, <2>q
    <3> QED
      BY Zenon, <2>m, <2>q, <3>1, <3>2, <3>3, <3>4 DEF MarkerInv
  <2>2. LawInv'
    BY Zenon, <1>t, <1>u, <2>q, <2>m, <2>l, <2>a DEF LawInv, NoSplitBrain
  <2>3. TickInv'
    <3>1. Lawful(supTarget)'
      BY Zenon, <2>c, <2>m DEF Lawful
    <3> QED
      BY <1>u, <2>a, <2>q, <2>k, <2>m, <2>c, <3>1, DecidedTick
  <2>4. MonitorTypes'
    BY <1>t, <1>u, <2>c, <2>q DEF ModeTypes, MonitorTypes
  <2>5. staging' \subseteq staging
    BY Zenon, <1>2
  <2> QED
    BY Zenon, <1>u, <2>c, <2>q, <2>m, <2>1, <2>2, <2>3, <2>4, <2>5, QuietlyKeeps
<1> QED
  BY Zenon, <1>1, <1>2 DEF TickReadyMarker

\* The services it observes are stopped before another mode is applied.
LEMMA TickStopKeeps ==
  ASSUME ModeInv, TickStop
  PROVE  ModeInv'
<1>t. ModeTypes /\ TickInv /\ supPc = "stop" /\ supMode = applied
  BY Zenon DEF ModeInv, TickStop, TickInv, TickModes
<1>u. UNCHANGED <<project, profiles, marker, staging, revisions, saved, childMode, supMode, applied,
                  seen, supTarget>>
  BY Zenon DEF TickStop, disk
<1>1. CASE Stopped /\ supPc' = "persist"
  BY Zenon, <1>1, <1>t, <1>u, StoppedKeeps
<1>2. CASE /\ UNCHANGED <<service, active, admitting, saves>>
           /\ supPc' = "services" \/ (supPc' = "persist" /\ service # "up")
  <2>a. UNCHANGED api
    BY Zenon, <1>2, <1>u DEF api
  <2>1. MarkerInv' /\ LawInv' /\ \A m : Lawful(m)' <=> Lawful(m)
    BY Zenon, <1>u, <2>a, ReadingKeeps
  <2>2. TickInv'
    <3>1. CASE supPc' = "services"
      BY Zenon, <1>t, <1>u, <3>1, RestingTick
    <3>2. CASE supPc' = "persist" /\ service # "up"
      <4>1. Lawful(supTarget)'
        BY <1>t, <1>u, <2>a DEF TickInv, TickDecided, Lawful
      <4>2. TickDecided'
        BY <1>2, <1>t, <1>u, <3>2, <4>1 DEF TickInv, TickDecided
      <4> QED
        BY Zenon, <1>t, <1>u, <3>2, <4>2 DEF TickInv, TickModes, TickSeen, TickRecovering, TickRepublishing
    <3> QED
      BY <1>2, <3>1, <3>2
  <2>3. MonitorTypes' /\ marker' \in MarkerFile \cup {Unset}
    BY Zenon, <1>2, <1>t, <1>u DEF ModeTypes, MonitorTypes
  <2> QED
    BY <1>2, <1>u, <2>a, <2>1, <2>2, <2>3, QuietlyKeeps
<1>3. service \in {"off", "booting", "up"}
  BY Zenon, <1>t DEF ModeTypes
<1> QED
  BY Zenon, <1>1, <1>2, <1>3 DEF TickStop

\* The new mode is applied while the service is off, starting in it or refused.
LEMMA TickPersistKeeps ==
  ASSUME ModeInv, TickPersist
  PROVE  ModeInv'
<1>t. ModeTypes /\ MarkerInv /\ LawInv /\ TickInv /\ supPc = "persist" /\ supMode = applied
  BY Zenon DEF ModeInv, TickPersist, TickInv, TickModes
<1>u. /\ UNCHANGED <<project, profiles, marker, staging, revisions, api, supMode, seen, supTarget>>
      /\ UNCHANGED <<service, active, admitting, saves, saved, childMode>>
  BY Zenon DEF TickPersist, disk, api
<1>k. supTarget \in Mode \cup {"unknown"} /\ marker' \in MarkerFile \cup {Unset}
  BY Zenon, <1>t, <1>u DEF ModeTypes
<1>1. CASE supPc' = "services" /\ UNCHANGED applied
  BY Zenon, <1>1, <1>k, <1>t, <1>u, RestingKeeps
<1>2. CASE applied' = supTarget /\ supPc' = "promote"
  <2>d. /\ supTarget # "unknown" /\ Lawful(supTarget)
        /\ (/\ marker # Unset /\ marker.state \in {"publish", "ready"}
            /\ supTarget = marker.previous) => (service = "booting" => childMode # marker.mode)
        /\ service = "up" => ActiveMode = supTarget
    BY Zenon, <1>t DEF TickInv, TickDecided
  <2>l. \A m : Lawful(m)' <=> Lawful(m)
    BY Zenon, <1>u DEF Lawful
  <2>a. ActiveMode' = ActiveMode
    BY <1>u DEF ActiveMode
  <2>b. service = "booting" /\ marker # Unset /\ childMode = marker.mode => supTarget = marker.mode
    <3>1. marker # Unset => marker.state \in {"fence", "publish", "ready", "committed"}
      BY Zenon, <1>t, MarkerFields DEF ModeTypes
    <3> QED
      BY Zenon, <2>d, <3>1 DEF Lawful
  <2>1. LawInv'
    <3>1. Lawful(applied)'
      BY <1>2, <1>u, <2>d DEF Lawful
    <3>2. service' = "up" => Lawful(ActiveMode)'
      BY Zenon, <1>t, <1>u, <2>a DEF LawInv, Lawful
    <3>3. NoSplitBrain'
      BY <1>2, <1>u, <2>d, <2>a DEF NoSplitBrain, ActiveMode
    <3> QED
      BY <1>2, <1>t, <1>u, <2>b, <3>1, <3>2, <3>3 DEF LawInv
  <2>2. TickInv'
    BY <1>2, <1>u, <2>d DEF TickInv, TickModes, TickSeen, TickDecided, TickRecovering, TickRepublishing
  <2>3. MarkerInv'
    <3>1. \A t \in SaveThread : Staged(t)' = Staged(t)
      BY <1>u DEF Staged
    <3>2. (Switching' <=> Switching) /\ (Quiet' <=> Quiet)
      BY <1>u, <2>a, <3>1 DEF Switching, Quiet, Idling
    <3> QED
      BY Zenon, <1>t, <1>u, <2>a, <3>2 DEF MarkerInv, PublishRecoverable
  <2>4. MonitorTypes'
    BY Zenon, <1>2, <1>t, <1>u DEF ModeTypes, MonitorTypes
  <2> QED
    BY <1>2, <1>k, <1>u, <2>1, <2>2, <2>3, <2>4, QuietlyKeeps
<1> QED
  BY Zenon, <1>1, <1>2 DEF TickPersist

\* A released marker becomes a commit once its mode is applied.
LEMMA TickPromoteKeeps ==
  ASSUME ModeInv, TickPromote
  PROVE  ModeInv'
<1>t. ModeTypes /\ LawInv /\ TickInv /\ supPc = "promote" /\ applied = supTarget /\ supTarget # "unknown"
  BY Zenon DEF ModeInv, TickPromote, TickInv, TickModes
<1>u. /\ UNCHANGED <<project, profiles, staging, revisions, api, applied, seen, supTarget>>
      /\ UNCHANGED <<service, active, admitting, saves, saved, childMode>>
      /\ supMode' = supTarget /\ supPc' = "services"
  BY Zenon DEF TickPromote, api
<1>k. supTarget \in Mode \cup {"unknown"}
  BY <1>t DEF ModeTypes
<1>1. CASE UNCHANGED marker
  BY <1>1, <1>k, <1>t, <1>u, RestingKeeps
<1>2. CASE /\ marker # Unset /\ marker.state = "ready" /\ marker.due /\ marker.mode = supTarget
           /\ marker' = [marker EXCEPT !.state = "committed"]
  <2>m. marker' \in MarkerFile /\ marker' # Unset /\ marker'.state = "committed" /\ marker'.mode = marker.mode
    <3>1. marker \in MarkerFile
      BY Zenon, <1>2, <1>t DEF ModeTypes
    <3>2. marker' \in MarkerFile /\ marker'.state = "committed" /\ marker'.mode = marker.mode
      BY Zenon, <1>2, <3>1, MarkerRewritten
    <3> QED
      BY <3>2, MarkerFields
  <2>l. \A m : Lawful(m)' <=> m = applied
    BY <1>2, <1>t, <2>m DEF Lawful
  <2>a. ActiveMode' = ActiveMode /\ (service = "up" => ActiveMode = applied)
    BY Zenon, <1>t, <1>u DEF ActiveMode, LawInv, NoSplitBrain
  <2>1. MarkerInv'
    BY Zenon, <2>m, SettledMarker
  <2>2. LawInv'
    BY <1>2, <1>t, <1>u, <2>m, <2>l, <2>a DEF LawInv, NoSplitBrain
  <2>3. TickInv' /\ MonitorTypes'
    <3>1. TickInv'
      BY Zenon, <1>t, <1>u, RestingTick
    <3> QED
      BY Zenon, <1>t, <1>u, <3>1 DEF ModeTypes, MonitorTypes
  <2> QED
    BY Zenon, <1>u, <2>m, <2>1, <2>2, <2>3, QuietlyKeeps
<1> QED
  BY Zenon, <1>1, <1>2 DEF TickPromote

\* The service is started with the applied mode.
LEMMA TickServicesKeeps ==
  ASSUME ModeInv, TickServices
  PROVE  ModeInv'
<1>t. ModeTypes /\ MarkerInv /\ LawInv /\ TickInv /\ supPc = "services" /\ supMode = applied
  BY Zenon DEF ModeInv, TickServices, TickInv, TickModes
<1>u. /\ UNCHANGED <<project, profiles, marker, staging, revisions, supMode, applied, seen, supTarget>>
      /\ UNCHANGED <<active, admitting, saves, saved>> /\ supPc' = "hold"
  BY Zenon DEF TickServices, disk
<1>1. CASE UNCHANGED <<service, childMode>>
  <2>1. UNCHANGED api /\ supTarget \in Mode \cup {"unknown"}
    BY <1>1, <1>t, <1>u DEF api, ModeTypes
  <2> QED
    BY <1>t, <1>u, <2>1, RestingKeeps
<1>2. CASE service = "off" /\ service' = "booting" /\ childMode' = supMode
  <2>i. ~admitting /\ active = Unset /\ \A t \in SaveThread : saves[t].pc = "idle"
    BY <1>2, DownIsIdle
  <2>l. \A m : Lawful(m)' <=> Lawful(m)
    BY Zenon, <1>u DEF Lawful
  <2>1. ModeTypes'
    BY <1>2, <1>t, <1>u, <2>i DEF ModeTypes
  <2>2. ThreadInv' /\ IdInv' /\ Steady'
    BY <1>u, <2>i, IdleRequests
  <2>3. MarkerInv'
    BY Zenon, <1>2, <1>t, <1>u, <2>i DEF MarkerInv, PublishRecoverable, Switching, Quiet, Idling, Alone
  <2>4. LawInv'
    BY <1>2, <1>t, <1>u, <2>l DEF LawInv, NoSplitBrain
  <2>5. TickInv'
    BY <1>t, <1>u, RestingTick
  <2>6. RecordInv'
    BY Zenon, <1>u, <2>i, IdleRecord
  <2> QED
    BY Zenon, <2>1, <2>2, <2>3, <2>4, <2>5, <2>6 DEF ModeInv
<1> QED
  BY Zenon, <1>1, <1>2 DEF TickServices

\* A supervisor that starts again takes the applied mode.
LEMMA SupervisorDiesKeeps ==
  ASSUME ModeInv, SupervisorDies
  PROVE  ModeInv'
<1>1. supTarget \in Mode \cup {"unknown"}
  BY Zenon DEF ModeInv, ModeTypes
<1> QED
  BY <1>1, RestingKeeps DEF SupervisorDies, disk

-----------------------------------------------------------------------------
(* Theorems *)

\* Every step of either process keeps the inductive invariant.
LEMMA ModeStep ==
  ASSUME ModeInv, [ModeNext]_modeVars
  PROVE  ModeInv'
<1>1. CASE UNCHANGED modeVars
  <2>1. UNCHANGED <<project, profiles, marker, staging, revisions, api, applied, seen>>
    BY Zenon, <1>1 DEF modeVars, api
  <2>2. UNCHANGED <<supPc, supMode, supTarget>>
    BY Zenon, <1>1 DEF modeVars
  <2>3. UNCHANGED processes
    BY <1>1 DEF modeVars, processes
  <2>4. MarkerInv' /\ LawInv'
    BY Zenon, <2>1, ReadingKeeps
  <2>5. TickInv'
    BY Zenon, <2>1, <2>3, SameLaw
  <2>6. MonitorTypes' /\ marker' \in MarkerFile \cup {Unset}
    BY <2>1, <2>2 DEF ModeInv, ModeTypes, MonitorTypes
  <2> QED
    BY <2>1, <2>2, <2>4, <2>5, <2>6, QuietlyKeeps
<1>2. ASSUME NEW t \in SaveThread, SaveStep(t) PROVE ModeInv'
  BY <1>2, SaveCloseKeeps, SaveFenceKeeps, SaveDrainedKeeps, SaveRollbackKeeps, SaveMetadataKeeps,
     SavePublishKeeps, SaveProfileKeeps, SaveReadyKeeps, PlainMetadataKeeps, PlainCommitKeeps,
     ActivateCommitKeeps DEF SaveStep
<1>3. ASSUME NEW t \in SaveThread, NEW b \in Bytes, SaveStage(t, b) \/ PlainProfile(t, b) PROVE ModeInv'
  BY Zenon, <1>3, SaveStageKeeps, PlainProfileKeeps
<1>4. ASSUME NEW t \in SaveThread, NEW s \in Site, ActivateSelect(t, s) PROVE ModeInv'
  BY <1>4, ActivateSelectKeeps
<1>5. ASSUME Tick PROVE ModeInv'
  BY <1>5, TickHoldKeeps, TickProfileKeeps, TickMarkerKeeps, TickRecoverKeeps, TickRepublishKeeps,
     TickReadyMarkerKeeps, TickStopKeeps, TickPersistKeeps, TickPromoteKeeps, TickServicesKeeps
     DEF Tick
<1>6. ASSUME Boot \/ ServiceDies \/ MarkerDue \/ SupervisorDies PROVE ModeInv'
  BY Zenon, <1>6, BootKeeps, ServiceDiesKeeps, MarkerDueKeeps, SupervisorDiesKeeps
<1> QED
  BY Zenon, <1>1, <1>2, <1>3, <1>4, <1>5, <1>6 DEF ModeNext

\* The inductive invariant holds of the two processes and their files.
THEOREM ModeInvariant == ModeSpec => []ModeInv
  BY ModeInitInv, ModeStep, PTL DEF ModeSpec

\* A running inspection service has the mode that the supervisor has persisted
\* as applied, wherever the save handler, the supervisor's tick or either
\* process stops (validate_runtime_mode_commit_for_startup, reconcile).
THEOREM NeverSplitBrain == ModeSpec => []NoSplitBrain
<1>1. ModeInv => NoSplitBrain
  BY Zenon DEF ModeInv, LawInv
<1> QED
  BY <1>1, ModeInvariant, PTL

\* A publish journal can be carried out from its staged file, and every mode
\* that a profile on disk has is that of a recorded revision
\* (save_admin_runtime_profile_response, configured_acquisition_mode).
THEOREM ModeChangeAlwaysSafe == ModeSpec => []ModeChangeSafety
<1>1. ModeInv => ModeTypeOK
  <2> SUFFICES ASSUME ModeInv PROVE ModeTypeOK
    BY Zenon
  <2>1. \A t \in SaveThread : saves[t].pc # "idle" => service = "up"
    BY DEF ModeInv, ThreadInv, Exclusive
  <2>2. marker # Unset =>
          /\ marker.state \in {"fence", "publish", "ready", "committed"}
          /\ marker.mode \in Mode /\ marker.sha \in Bytes
    BY MarkerFields DEF ModeInv, ModeTypes
  <2> QED
    BY Zenon, <2>1, <2>2 DEF ModeInv, ModeTypes, ModeTypeOK
<1>2. ModeInv => PublishRecoverable
  BY Zenon DEF ModeInv, MarkerInv
<1>3. ModeInv => ModeIsRecorded
  BY Zenon DEF ModeInv, RecordInv, Witnessed, ModeIsRecorded
<1> QED
  BY <1>1, <1>2, <1>3, ModeInvariant, PTL DEF ModeChangeSafety

=============================================================================
