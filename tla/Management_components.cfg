SPECIFICATION ManagementSpec
CONSTANTS
  Subjects = {"alarms", "review", "reports", "config", "sites", "accounts", "health", "dates", "geometry", "schema"}
  HealthTypes <- StorageTypes
  Running <- OneMonitor
  Operator = {operator}
  DefectKey = {}
  MaxChanges = 2
  MaxActions = 2
  MaxAlarmFaults = 1
  material = material
  FlowMaterial <- SameMaterial
  DefectNo = {1}
  DefectType = {type1, type2}
  DrSource = {source1, source2}
  Detection = {detection1, detection2}
  MaxDrRequests = 3
  MaxDrFaults = 1
  Issuer = {actor1, actor2}
  MaxVersion = 2
  MaxIssues = 3
  MaxReads = 1
  MaxArFaults = 1
  CfAdmin = {actor1, actor2}
  CfKeys = {"capture", "connection", "inspection_settings", "alarm_rules", "external_integrations", "security_policy"}
  CfInputs <- ConfigBodies
  CfLegacy <- OldRevisions
  MaxCfWrites = 2
  MaxCfFaults = 1
  siteA = siteA
  siteB = siteB
  siteC = siteC
  SpSite = {siteA, siteB}
  SpFirst = siteA
  SpAdmin = {actor1, actor2}
  SpDocs <- SiteDocuments
  SpMarkers = {TRUE, FALSE}
  SpNone = SpNone
  MaxSpRequests = 3
  MaxSpRestarts = 1
  AaUser = {user1, user2}
  AaFirst = {user1}
  AaWorker = {actor1, actor2}
  AaPermissions <- OperatorPermissions
  AaWindow = 0
  AaLockout = 1
  AaTtl = 1
  AaMaxFailures = 2
  MaxAaRequests = 3
  MaxAaTime = 1
  HlProfiles <- Deployments
  HlMinimum = 1
  MaxHlChanges = 2
  MaxHlSnapshots = 1
  CalStarts <- StretchStarts
  MaxCalDays = 1100
  DgClient = {actor1, actor2}
  DgCandidates <- Geometries
  MaxDgSaves = 3
  MaxDgFaults = 1
  ScConfigs = {"connection", "capture"}
  ScCameras = {"camera1", "camera2"}
  ScTypes = {"scratch"}
  ScInitial <- FoundDatabases
  MaxScStarts = 2
SYMMETRY ManagementSymmetry
INVARIANTS
  AlarmSafety
  ConfigSafety
  SiteSafety
  AccountSafety
  HealthSafety
  CountsDays
  SchemaSafety
PROPERTIES
  ReviewSteps
  ReportSteps
  GeometrySteps
CHECK_DEADLOCK FALSE
