CONSTANTS
  Jobs = {1}
  MetaTiles = {t1}
  Configs <- MCConfigs
  ConfigOf <- MCConfigOf
  KindOf <- MCKindOf
  TilesOf <- MCTilesOf
  Workers = {w1, w2}
  Clis = {c1}
  Admins = {}
  Requests = {}
  Troubles = {}
  NbTasks = 1
  MaxRuns = 2
  MaxCrashes = 1
  MaxRequests = 0
  None = None
SPECIFICATION FairSpec
PROPERTIES
  PendingJobRestarts
