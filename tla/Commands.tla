------------------------------- MODULE Commands -------------------------------
(***************************************************************************)
(* What the commands do by themselves: generate-tiles, with its layers,    *)
(* its zooms and its exit status, and as a master, with the meta tiles it  *)
(* puts in the queue; generate-controller, with its legends; and the files *)
(* in which the tiles are kept.  The processes run at the same time, and   *)
(* these parts of them share no variable.                                  *)
(***************************************************************************)
EXTENDS Integers, Sequences

CONSTANTS
  Layers, GridsOf, LastZoom, SeedZoom, SubTiles, FileTiles, CommandLines, Outcomes,
  Resolutions, WmsLayers, Images, Storages, MaxRuns,
  Kinds, Writers, Readers, Deletes, Fails, MaxCrashes, MaxFiles,
  Grid, MetaSize, MetaBuffer, SeedLayers,
  Configs, Precision, LastFactor

VARIABLES
  command, role, zoom, pc, todo, stream, left, count, runError, tileError, error, exit, told,
  made, real,
  legendCache, legendPc, rank, previous, metadata, files, yaml, seen, runs,
  kind, name, data, lastFile, filePc, handle, overlaps, got, crashes,
  layer, zooms, pyramidZoom, rows, row, ranges, intervals, out, queue,
  config, scales, schemaErrors, mapnikGrid, ignore, index, number, loop, factors, primeFact,
  checkError, checkPc

commandVars ==
  <<command, role, zoom, pc, todo, stream, left, count, runError, tileError, error, exit, told,
    made, real>>
legendVars == <<legendCache, legendPc, rank, previous, metadata, files, yaml, seen, runs>>
fileVars == <<kind, name, data, lastFile, filePc, handle, overlaps, got, crashes>>
pyramidVars == <<layer, zooms, pyramidZoom, rows, row, ranges, intervals, out, queue>>
checkVars ==
  <<config, scales, schemaErrors, mapnikGrid, ignore, index, number, loop, factors, primeFact,
    checkError, checkPc>>
commandsVars == <<commandVars, legendVars, fileVars, pyramidVars, checkVars>>

Generation == INSTANCE GenerateCommand WITH Commands <- CommandLines

Controller == INSTANCE LegendImages WITH
  N <- Resolutions, pc <- legendPc, cache <- legendCache

OneTile == INSTANCE TileFiles WITH last <- lastFile, pc <- filePc

Pyramid == INSTANCE SparsePyramid WITH zoom <- pyramidZoom

Check == INSTANCE ConfigCheck WITH error <- checkError, pc <- checkPc

ASSUME GenerationAssumption == Generation!CommandAssumption
ASSUME ControllerAssumption == Controller!ImagesAssumption
ASSUME TileAssumption == OneTile!FilesAssumption
ASSUME PyramidsAssumption == Pyramid!PyramidAssumption
ASSUME ChecksAssumption == Check!ConfigAssumption

-----------------------------------------------------------------------------
CommandsInit ==
  Generation!Init /\ Controller!Init /\ OneTile!Init /\ Pyramid!Init /\ Check!Init

GenerationStep ==
  Generation!Next /\ UNCHANGED <<legendVars, fileVars, pyramidVars, checkVars>>
ControllerStep ==
  Controller!Next /\ UNCHANGED <<commandVars, fileVars, pyramidVars, checkVars>>
TileStep == OneTile!Next /\ UNCHANGED <<commandVars, legendVars, pyramidVars, checkVars>>
PyramidStep == Pyramid!Next /\ UNCHANGED <<commandVars, legendVars, fileVars, checkVars>>
CheckStep == Check!Next /\ UNCHANGED <<commandVars, legendVars, fileVars, pyramidVars>>

CommandsNext == GenerationStep \/ ControllerStep \/ TileStep \/ PyramidStep \/ CheckStep

CommandsSpec == CommandsInit /\ [][CommandsNext]_commandsVars

-----------------------------------------------------------------------------
\* A command for one layer and one grid that exits with 0 made all it was asked for, and
\* a failure in the last layer of a command makes its exit status 1.
ExitStatusIsRight ==
  Generation!TypeOK /\ Generation!ExitZeroIsDone /\ Generation!ErrorsExitOne

\* No option makes a command generate anything else, what is told of a layer is of that
\* layer, and --test=n takes n meta tiles of each layer, or exits with 1.
NothingElse ==
  Generation!NothingElse /\ Generation!NumbersAreOfTheLayer /\ Generation!TestTakesAll

\* Whatever runs were interrupted, an image that legend.yaml names is there, if only the
\* first one may be empty, and its ranges follow each other; after a run that ends it
\* describes the files as they are.
LegendsAreCoherent ==
  /\ Controller!TypeOK /\ Controller!ListedIsWritten
  /\ Controller!DoneIsCoherent /\ Controller!RangesMeet

\* A tile without its data is only seen while it is written, or after its writer died;
\* when nobody writes and nobody died, the store has the whole tile or nothing.
TilesAreWhole == OneTile!TypeOK /\ OneTile!WholeOrMissing /\ OneTile!QuietIsWhole

\* A master puts every meta tile of the grid that has a part of the geometry, or of its
\* buffer, in the queue, once, of the last source for the zoom, and none that a local
\* generation would not go through; the filter after it drops nothing more.
GeometryIsQueued ==
  /\ Pyramid!TypeOK /\ Pyramid!EachOnce /\ Pyramid!FilterDropsNothing /\ Pyramid!MasterIsLocal
  /\ Pyramid!GeometryIsQueued /\ Pyramid!LastSourceWins

\* The limits of the capabilities have all the tiles of a layer and of its buffer, and all
\* that they have without a buffer is generated.
LimitsAgree == Pyramid!AdvertisedHasAll /\ Pyramid!AdvertisedIsQueued

\* The factors found and what is left make the denominator; a computed scale makes the
\* resolutions of its grid integers, and no smaller one does; an accepted configuration has
\* a scale for every grid, good for all its resolutions.
ScalesAreExact == Check!LoopInvariant /\ Check!ScaleIsLeast /\ Check!AcceptedIsExact
===============================================================================
