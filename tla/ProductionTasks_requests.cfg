SPECIFICATION Spec
CONSTANTS
  MaxTasks = 3
  Capacity = 2
  Name = {"k1", "s1", "s2"}
  Requests <- MixedRequests
  MaxRetries = 0
  MaxCrashes = 0
  MaxDbErrors = 0
  DrainStates = {TRUE, FALSE}
INVARIANTS
  ChainsWellFormed
  IdempotentEnqueue
PROPERTIES
  InsertWithinCapacity
CHECK_DEADLOCK FALSE
