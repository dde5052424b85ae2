SPECIFICATION FairSpec
CONSTANTS
  MaxTasks = 2
  Capacity = 2
  Name = {"k1", "s1", "s2"}
  Requests <- CleanupChain
  MaxRetries = 1
  MaxCrashes = 1
  MaxDbErrors = 0
  DrainStates = {FALSE}
PROPERTIES
  QueuedResolves
  KeepsGrants
CHECK_DEADLOCK FALSE
