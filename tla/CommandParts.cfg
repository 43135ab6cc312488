CONSTANTS
  w1 = w1 w2 = w2 r1 = r1 r2 = r2
  Layers <- McLayers
  GridsOf <- McGrids
  LastZoom <- McLastZoom
  SeedZoom <- McSeedZoom
  SubTiles = 2
  FileTiles <- McFileTiles
  CommandLines <- McCommands
  Outcomes <- McOutcomes
  Resolutions = 3
  WmsLayers = 2
  Images = {"a"}
  Storages = {"filesystem", "s3", "azure"}
  MaxRuns = 2
  Kinds = {"filesystem", "azure"}
  Writers = {w1, w2}
  Readers = {r1, r2}
  Deletes = TRUE
  Fails = TRUE
  MaxCrashes = 1
  MaxFiles = 3
  Grid <- SixByFive
  MetaSize = 2
  MetaBuffer = 1
  SeedLayers <- McSeedLayers
  Configs <- ConfigFiles
  Precision = 8
  LastFactor = 25
SPECIFICATION Spec
INVARIANTS
  ExitStatusIsRight NothingElse GeometryIsQueued LimitsAgree ScalesAreExact
  LegendsAreCoherent TilesAreWhole
CHECK_DEADLOCK FALSE
