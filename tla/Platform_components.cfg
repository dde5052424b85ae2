SPECIFICATION PlatformSpec
CONSTANTS
  Subjects = {"calibration", "services", "monitor", "capture", "trigger"}
  None = None
  CalThread = {thread1, thread2}
  OperationId = {"a", "b", "r"}
  CalRequests <- CalibrationRequests
  MaxCalRestarts = 1
  MaxCalDbErrors = 1
  Service = {camera}
  EnabledIn <- CameraWhileOnline
  AcquisitionMode = {"online", "offline"}
  MaxStartFailures = 3
  Origin = {origin1, origin2}
  MaxQuits = 1
  CapCaller = {caller1}
  CapLoop = CapLoop
  CapConfig <- Deployments
  RestartBudget = 2
  ForeignOwner = TRUE
  MaxSpawns = 2
  HttpLoop = HttpLoop
  UdpLoop = UdpLoop
  TcpConnection = {thread1, thread2}
  TriggerMessage <- TriggerMessages
  AuthRequired = TRUE
  ModeMutation = TRUE
  AuthWindow = 1
  MaxReplayEntries = 1
  SenderAhead = 1
  MaxSent = 2
  MaxClock = 2
INVARIANTS
  CalibrationSafety
  SupervisorSafety
  CaptureSafety
  TriggerSafety
PROPERTIES
  SavedStopSticks
SYMMETRY ThreadSymmetry
CHECK_DEADLOCK FALSE
