CONSTANTS
  Jobs = {1}
  MetaTiles = {t1, t2}
  Configs <- MCConfigs
  ConfigOf <- MCConfigOf
  KindOf <- MCKindOf
  TilesOf <- MCTilesOf
  Workers = {w1, w2}
  Clis = {c1}
  Admins = {a1}
  Requests = {"cancel", "retry"}
  Troubles = {"fail_tile", "fail_stored", "ack_twice", "slow_tile", "abandon"}
  NbTasks = 1
  MaxRuns = 2
  MaxCrashes = 1
  MaxRequests = 1
  None = None
SPECIFICATION Spec
SYMMETRY Symmetry
INVARIANTS
  TypeOK
  NoTileLost
  NoDuplicateEntry
  OneGenerator
