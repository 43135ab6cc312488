CONSTANTS
  Tasks = {t1, t2}
  HostLimit = 1
  FileDefault = 2
  DefaultLimit = 1
  MaxHostEdits = 0
SPECIFICATION Spec
INVARIANTS AtMostLimit
CHECK_DEADLOCK FALSE
