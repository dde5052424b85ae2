SPECIFICATION ModeSpec
CONSTANTS
  Site = {site1, site2}
  on1 = on1
  on2 = on2
  off1 = off1
  Bytes = {on1, on2, off1}
  ModeOf <- Modes
  SaveThread = {save1, save2}
  Unset = Unset
  MaxSaves = 2
  MaxModeCrashes = 2
  MaxIoErrors = 1
SYMMETRY ModeSymmetry
INVARIANTS
  NoSplitBrain
  ModeChangeSafety
CHECK_DEADLOCK FALSE
