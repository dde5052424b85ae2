SPECIFICATION Spec
CONSTANTS
  MaxTasks = 1
  Capacity = 1
  Name = {"k1", "s1", "s2"}
  Requests <- CaptureChain
  MaxRetries = 0
  MaxCrashes = 0
  MaxDbErrors = 0
  DrainStates = {FALSE}
INVARIANTS
  CancelledWasNotExecuted
CHECK_DEADLOCK FALSE
