CONSTANTS
  MetaTiles = {m1, m2}
  SubTiles = {s1, s2}
  NbTasks = 2
  MaxErrors = 1
  Troubles = {"get", "none", "tile", "log", "delete"}
SPECIFICATION Spec
SYMMETRY Symmetry
CHECK_DEADLOCK FALSE
INVARIANTS
  TypeOK
  SuccessIsComplete
  NothingForgotten
  QuietAfterAck
  FailureIsCounted
PROPERTIES
  ImplementsWork
