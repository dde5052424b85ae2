SPECIFICATION Spec
CONSTANTS
  MaxTasks = 2
  Capacity = 2
  Name = {"k1", "s1", "s2"}
  Requests <- AlgorithmChain
  MaxRetries = 1
  MaxCrashes = 1
  MaxDbErrors = 1
  DrainStates = {TRUE, FALSE}
INVARIANTS
  QueueSafety
  OutcomeSafety
CHECK_DEADLOCK FALSE
