---------------------------- MODULE MCManagement ----------------------------
(* The components through which the line is watched and administered, none   *)
(* of which shares state with another here: alarms, the review of defects,   *)
(* issued reports, configuration and its revisions, site packages, accounts, *)
(* the health report, dates, the geometry of depth and the database schema.  *)
(* Every behaviour is one of the component named by "subject", so that one   *)
(* run explores each of them.                                                *)
EXTENDS AlarmLifecycle, DefectReview, ReportArchive, ConfigRevisions,
        SitePackages, AdminAccounts, ServiceHealth, CalendarDays,
        DepthGeometry, DatabaseSchema

CONSTANTS Subjects, material, siteA, siteB, siteC

VARIABLE subject

managementVars == <<subject, alVars, drVars, arVars, cfVars, spVars, aaVars, hlVars, calVars, dgVars, scVars>>

OneMonitor == {{"health"}, {"camera"}}
StorageTypes == <<"storage-capacity-warning", "storage-critical">>

\* Two flows of one material.
SameMaterial == <<material, material>>

Cameras(n, exposure) == [capturePort |-> Absent, cameras |-> n, exposureUs |-> exposure, depthLines |-> 1]

\* Values on both sides of each limit.
ConfigBodies ==
  [k \in CfKeys |->
    CASE k = "capture" -> {Cameras(1, 1), Cameras(16, 1000000), Cameras(17, 1), Cameras(1, 0)}
      [] k = "connection" -> {[port |-> p, mode |-> 0] : p \in {1, 65535, 65536}}
      [] k = "inspection_settings" ->
           {[severeDepth |-> s, reviewDepth |-> r] : s \in {Absent, 8, 13}, r \in {Absent, 8, 12}}
      [] k = "alarm_rules" -> {[severeThreshold |-> s, retainMinutes |-> r] : s \in {Absent, 100}, r \in {1440, 1441}}
      [] k = "external_integrations" ->
           {[protocol |-> Absent, port |-> p, timeoutMs |-> t] : p \in {Absent, 0}, t \in {100, Wrong}}
      [] k = "security_policy" ->
           {[retentionDays |-> d, maxFailures |-> Absent, ttlHours |-> t] : d \in {Absent, 3650}, t \in {Absent, 168, 169}}]

\* Revisions that an earlier release wrote.
OldRevisions ==
  <<[key |-> "inspection_settings", value |-> [severeDepth |-> 8, reviewDepth |-> Absent]],
    [key |-> "inspection_settings", value |-> [severeDepth |-> Absent, reviewDepth |-> 8]],
    [key |-> "camera_layout", value |-> [cameras |-> 1]]>>

VerifiedSite(id) == [DirectTemplate(id) EXCEPT !.file.hardware = "ok"]
SimulatedSite(id) ==
  [VerifiedSite(id) EXCEPT !.mode = "simulation", !.provider = "external-api", !.count = 6, !.cameras = 6,
     !.simulation = "ok",
     !.file = [expected |-> 6, listed |-> 6, enabled |-> 6, hardware |-> "bad", overlap |-> FALSE]]

SiteDocuments ==
  {VerifiedSite(siteA), BkvTemplate(siteA), VerifiedSite(siteB), SimulatedSite(siteB),
   [VerifiedSite(siteB) EXCEPT !.mode = "offline"], [BkvTemplate(siteC) EXCEPT !.mode = "absent"],
   [VerifiedSite(siteC) EXCEPT !.mode = "absent", !.provider = "simulated"]}

OperatorPermissions == {{"admin.users"}, {}}

\* The actors of a component are alike.
ManagementSymmetry == Permutations(AaWorker)

FirstUsers == [u \in AaUser |-> IF u \in AaFirst THEN User("administrator", "active", FALSE, FALSE) ELSE NoUser]

Deployment(mode, provider, unified, source, proxy, algorithm, policy, trigger) ==
  [mode |-> mode, provider |-> provider, unified |-> unified, dataSource |-> source, proxyOnly |-> proxy,
   algorithm |-> algorithm, policy |-> policy, triggerRequired |-> trigger]

Deployments ==
  {Deployment("online", "camera", FALSE, "sick", FALSE, TRUE, "production", TRUE),
   Deployment("online", "camera", FALSE, "sick", FALSE, TRUE, "invalid", TRUE),
   Deployment("online", "camera", TRUE, "sick", TRUE, TRUE, "production", FALSE),
   Deployment("offline", "bkv", TRUE, "bkv-online-mysql", TRUE, FALSE, "production", FALSE),
   Deployment("simulation", "camera", FALSE, "recorded", FALSE, FALSE, "production", TRUE),
   Deployment("offline", "bkv", FALSE, "bkv", FALSE, FALSE, "production", FALSE),
   Deployment("offline", "camera", FALSE, "none", FALSE, TRUE, "production", TRUE),
   Deployment("online", "simulated", FALSE, "none", FALSE, TRUE, "demo", FALSE)}

\* Days that begin stretches of a thousand days, with 2000 and 2100.
CivilDay(year, month, day, days) ==
  [y |-> year, m |-> month, d |-> day, count |-> days, walked |-> 0]
NewYear(year, days) == CivilDay(year, 1, 1, days)
StretchStarts ==
  {NewYear(1970, 0), NewYear(1999, 10592), NewYear(2099, 47117), CivilDay(2100, 2, 25, 47537)}

WholeGeometry == [p \in DgParts |-> "ok"]
Geometries ==
  {WholeGeometry, [WholeGeometry EXCEPT !["policy"] = "absent", !["crop"] = "absent"],
   [WholeGeometry EXCEPT !["sections"] = "absent"], [WholeGeometry EXCEPT !["backfill"] = "wrong"]}

\* A new database, and the ones that releases 1 to 7 may have left.
OwnAccounts == {[id |-> "admin", role |-> "administrator", password |-> "own"]}
BareAccounts == {[id |-> "admin", role |-> "administrator", password |-> ""]}
FullRows == {ScRow(id, "own") : id \in ScConfigs \cup ScCameras} \cup {ScRow(id, "default") : id \in ScTypes}
EarlyRows == {ScRow("connection", "own"), ScRow("capture", "outdated"), ScRow("camera1", "own")}
OtherRows == {ScRow("capture", "own"), ScRow("camera1", "own"), ScRow("camera9", "own")}
FoundDatabases ==
  {ScEmpty, ScReleased(6, TRUE, OwnAccounts, OtherRows)}
    \cup {ScReleased(v, TRUE, OwnAccounts, IF v < 4 THEN EarlyRows ELSE FullRows) : v \in 1..7}
    \cup {ScReleased(v, FALSE, BareAccounts, EarlyRows) : v \in {1, 3}}
    \cup {ScReleased(6, TRUE, BareAccounts, FullRows)}

\* A component that is not the subject starts in one state and stays there.
ManagementInit ==
  /\ subject \in Subjects
  /\ AlInit
  /\ subject # "alarms" => running = {"health"}
  /\ DrInit
  /\ ArInit
  /\ CfInit
  /\ SpInit
  /\ subject # "sites" => spRun.doc = VerifiedSite(siteA) /\ spMarker = NoMarker
  /\ AaInit
  /\ subject # "accounts" => aaUsers = FirstUsers /\ aaRoles.operator.permissions = {"admin.users"}
  /\ HlInit
  /\ subject # "health" => hlProfile = CHOOSE p \in HlProfiles : TRUE
  /\ CalInit
  /\ subject # "dates" => calDay = NewYear(1970, 0)
  /\ DgInit
  /\ subject # "geometry" => dgPaths = [p \in {"explicit", "state"} |-> FALSE] /\ dgFile["explicit"] = DgNone /\ dgFile["state"] = DgNone
  /\ ScInit
  /\ subject # "schema" => scDb["primary"] = ScEmpty

ManagementNext ==
  /\ UNCHANGED subject
  /\ \/ /\ subject = "alarms" /\ AlNext
        /\ UNCHANGED <<drVars, arVars, cfVars, spVars, aaVars, hlVars, calVars, dgVars, scVars>>
     \/ /\ subject = "review" /\ DrNext
        /\ UNCHANGED <<alVars, arVars, cfVars, spVars, aaVars, hlVars, calVars, dgVars, scVars>>
     \/ /\ subject = "reports" /\ ArNext
        /\ UNCHANGED <<alVars, drVars, cfVars, spVars, aaVars, hlVars, calVars, dgVars, scVars>>
     \/ /\ subject = "config" /\ CfNext
        /\ UNCHANGED <<alVars, drVars, arVars, spVars, aaVars, hlVars, calVars, dgVars, scVars>>
     \/ /\ subject = "sites" /\ SpNext
        /\ UNCHANGED <<alVars, drVars, arVars, cfVars, aaVars, hlVars, calVars, dgVars, scVars>>
     \/ /\ subject = "accounts" /\ AaNext
        /\ UNCHANGED <<alVars, drVars, arVars, cfVars, spVars, hlVars, calVars, dgVars, scVars>>
     \/ /\ subject = "health" /\ HlNext
        /\ UNCHANGED <<alVars, drVars, arVars, cfVars, spVars, aaVars, calVars, dgVars, scVars>>
     \/ /\ subject = "dates" /\ CalNext
        /\ UNCHANGED <<alVars, drVars, arVars, cfVars, spVars, aaVars, hlVars, dgVars, scVars>>
     \/ /\ subject = "geometry" /\ DgNext
        /\ UNCHANGED <<alVars, drVars, arVars, cfVars, spVars, aaVars, hlVars, calVars, scVars>>
     \/ /\ subject = "schema" /\ ScNext
        /\ UNCHANGED <<alVars, drVars, arVars, cfVars, spVars, aaVars, hlVars, calVars, dgVars>>

ManagementSpec == ManagementInit /\ [][ManagementNext]_managementVars

=============================================================================
