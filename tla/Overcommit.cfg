SPECIFICATION OcSpec
CONSTANTS
  Steps = {s1, s2}
  Cleaners = {}
  Tools = {}
  Modes = {1, 2}
  MaxFiles = 2
  MaxCrash = 0
  None = None
PROPERTY ResetLast
CHECK_DEADLOCK FALSE
