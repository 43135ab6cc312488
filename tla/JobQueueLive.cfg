CONSTANTS
  Jobs = {1, 2}
  MetaTiles = {t1}
  Configs <- MCConfigs
  ConfigOf <- MCConfigOf
  KindOf <- MCMixed
  TilesOf <- MCTilesOf
  Workers = {w1, w2}
  Clis = {}
  Admins = {a1}
  Requests = {"retry"}
  Troubles = {"fail_tile", "ack_twice", "fail_generation"}
  NbTasks = 1
  MaxRuns = 2
  MaxCrashes = 1
  MaxRequests = 1
  None = None
SPECIFICATION FairSpec
PROPERTIES
  EveryJobSettles
