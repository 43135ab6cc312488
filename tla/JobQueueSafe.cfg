CONSTANTS
  Jobs = {1, 2}
  MetaTiles = {t1, t2}
  Configs <- MCConfigs
  ConfigOf <- MCConfigOf
  KindOf <- MCKindOf
  TilesOf <- MCTilesOf
  Workers = {w1, w2}
  Clis = {c1}
  Admins = {a1}
  Requests = {"retry"}
  Troubles = {"fail_tile", "fail_stored"}
  NbTasks = 2
  MaxRuns = 2
  MaxCrashes = 1
  MaxRequests = 1
  None = None
SPECIFICATION SafeSpec
SYMMETRY Symmetry
INVARIANTS
  OneHolder
  SettledIsEmpty
  DoneMeansGenerated
PROPERTIES
  ImplementsBoard
