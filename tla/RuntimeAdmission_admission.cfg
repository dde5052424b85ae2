SPECIFICATION FairSpec
CONSTANTS
  Request = {r1, r2}
  Worker = worker
  NoOne = none
  Capacity = 3
  Routes <- AllRoutes
INVARIANTS
  AdmissionSafety
PROPERTIES
  Answered
