CONSTANTS
  Jobs = {1}
  MetaTiles = {t1}
  Configs <- MCConfigs
  ConfigOf <- MCConfigOf
  KindOf <- MCRefused
  TilesOf <- MCTilesOf
  Workers = {w1}
  Clis = {}
  Admins = {a1}
  Requests = {"retry"}
  Troubles = {}
  NbTasks = 1
  MaxRuns = 1
  MaxCrashes = 0
  MaxRequests = 1
  None = None
SPECIFICATION Spec
SYMMETRY Symmetry
INVARIANTS
  NoTileLost
