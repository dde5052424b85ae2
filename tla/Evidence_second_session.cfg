SPECIFICATION EvidenceSpec
CONSTANTS
  Subjects = {"sessions"}
  s1 = s1
  s2 = s2
  m1 = m1
  m2 = m2
  f1 = f1
  f2 = f2
  Session = {s1, s2}
  Material = {m1, m2}
  NoSession = NoSession
  NoMaterial = NoMaterial
  UnknownMaterial = UnknownMaterial
  Frame = {f1, f2}
  RuntimeSourceMode = "online"
  PsRequests <- EntryRequests
  MaxPsRequests = 3
  MaxPsFaults = 1
  RcFile = {file, late, cache}
  LateFile = {late}
  CacheFile = {cache}
  Outside = {}
  Admin = {actor1, actor2}
  MaxDeletes = 2
  MaxRcEvents = 1
  PlLimits = {0, 1000}
  MaxPlReruns = 2
  batchA = batchA
  batchB = batchB
  BkvItems = 2
  BkvCameras = {1}
  BkBatch = {batchA, batchB}
  BkDocs <- BatchDocuments
  BkReader = {actor1, actor2}
  BkNone = BkNone
  MaxBkCommands = 2
  MaxBkReads = 2
  MaxBkChanges = 1
  BcManifests <- Recordings
  BcTile = {tile1, tile2, tile3}
  BcWorker = {actor1, actor2}
  BcNone = BcNone
  BcCapacity = 2
  MaxBcRequests = 4
  MaxBcFaults = 2
  BoImage = {image1, image2}
  BoSize <- ShareSizes
  BoMaxEntries = 2
  BoMaxBytes = 2
  BoWorker = {actor1, actor2}
  BoNone = BoNone
  MaxBoRequests = 3
  MaxBoChanges = 1
  MaxBoFaults = 1
  RsId = {record}
  RsWorker = {actor1, actor2}
  RsNone = RsNone
  MaxRsVersion = 2
  MaxRsJobs = 3
  MaxRsFaults = 1
  ImArtifact = {artifact}
  ImWorker = {actor1, actor2}
  ImProfiles = {"xl", "tile"}
  ImSize <- RenditionSizes
  ImMaxBytes = 2
  ImMaxDecoded = 1
  ImMaxSources = 1
  MaxImIdentity = 2
  MaxImRequests = 3
  MaxImFaults = 1
INVARIANT OneActiveSession
CHECK_DEADLOCK FALSE
