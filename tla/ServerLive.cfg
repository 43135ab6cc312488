CONSTANTS
  s1 = s1 s2 = s2 r1 = r1 r2 = r2 r3 = r3 tile1 = tile1 tile2 = tile2
  t1 = t1 t2 = t2 t3 = t3 grid = grid h1 = h1 h2 = h2 None = None Absent = Absent
  Servers = {s1, s2}
  Requests = {r1, r2, r3}
  Tiles = {tile1, tile2}
  FirstTile = tile1
  ServerOf <- Placed
  TileOf <- Asked
  TroubleSets <- TwoTroubles
  Retries = 1
  MaxCrashes = 1
  MaxExpiries = 0
  MaxOutages = 0
  CacheTasks = {t1, t2}
  Grids = {grid}
  TTL = 1
  MaxContents = 2
  MaxHosts = 2
  MaxRemovals = 0
  StoreTasks = {t1, t2, t3}
  FirstTask = t1
  MaxEdits = 3
  MaxStores = 4
  LegendRequests = {r1, r2}
  LegendHosts = {h1, h2}
  LegendLayers = {"file", "listed", "off"}
  Listed = {"listed"}
  Hidden = {"off"}
  Day = 1
  MaxTime = 2
  MaxLegends = 1
  UrlTasks = {t1, t2, t3}
  HostLimit = 2
  FileDefault = 2
  DefaultLimit = 1
  MaxHostEdits = 0
  TileLayers <- McLayers
  Served <- McLayers
  Style <- McStyle
  Mime <- McMime
  Extension <- McExtension
  Dims <- McDims
  LayerGrids <- McGrids
  Queryable <- McQueryable
  MetaSize <- McMetaSize
  Resolution <- McResolutions
  MinResolutionSeed <- McSeed
  Geometry <- McGeometry
  Width <- McWidth
  MatrixIdentifier = "zoom"
  ResolutionIdentifier <- McResolution
  OtherFiles <- McOther
  AllowedExtensions <- McAllowed
  Number <- McNumber
  Dotted <- McDotted
  TokenOf <- McToken
  Urls <- McUrls
  Kvps <- McKvps
  Parts = {"map", "actions", "urls"}
SPECIFICATION ServerFairSpec
PROPERTIES MapCacheEnds EventuallyCurrent EveryGetEnds
CHECK_DEADLOCK FALSE
