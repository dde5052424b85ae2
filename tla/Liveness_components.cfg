SPECIFICATION LivenessSpec
CONSTANTS
  Subjects = {"alarms", "cleanup", "images"}
  HealthTypes <- StorageTypes
  Running <- OneMonitor
  Operator = {operator}
  DefectKey = {}
  MaxChanges = 2
  MaxActions = 2
  MaxAlarmFaults = 1
  RcFile = {file, late, cache}
  LateFile = {late}
  CacheFile = {cache}
  Outside = {late}
  Admin = {admin}
  MaxDeletes = 1
  MaxRcEvents = 4
  ImArtifact = {artifact}
  ImWorker = {worker1, worker2}
  ImProfiles = {"xl", "small"}
  ImSize <- RenditionSizes
  ImMaxBytes = 2
  ImMaxDecoded = 1
  ImMaxSources = 1
  MaxImIdentity = 2
  MaxImRequests = 2
  MaxImFaults = 1
PROPERTIES AlarmsFollowConditions RetriesFinish RequestsAnswered
CHECK_DEADLOCK FALSE
