CONSTANTS
  Jobs = {1}
  MetaTiles = {t1}
  Configs <- MCConfigs
  ConfigOf <- MCConfigOf
  KindOf <- MCKindOf
  TilesOf <- MCTilesOf
  Workers = {w1, w2}
  Clis = {}
  Admins = {a1}
  Requests = {"retry"}
  Troubles = {"fail_tile", "ack_twice"}
  NbTasks = 1
  MaxRuns = 1
  MaxCrashes = 0
  MaxRequests = 2
  None = None
SPECIFICATION Spec
SYMMETRY Symmetry
PROPERTIES
  RetryKeepsGenerated
