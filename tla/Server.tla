------------------------------- MODULE Server -------------------------------
(***************************************************************************)
(* What the tasks of a server share: the dated caches of files, the tile   *)
(* stores, the legends of the capabilities, the semaphores of the hosts it *)
(* asks for tiles, and the tiles that its routes serve.  These parts share *)
(* no variable.                                                            *)
(*                                                                         *)
(* The stores are looked at twice, for some of what they guarantee needs a *)
(* condition: with several tasks, and edits only while no store is in use, *)
(* and with one task, and any edit.                                        *)
(***************************************************************************)
EXTENDS Integers, Sequences, FiniteSets

CONSTANTS
  CacheTasks, Grids, TTL, MaxContents, MaxHosts, MaxRemovals,
  StoreTasks,
  FirstTask,   \* who uses the stores alone
  MaxEdits,    \* bound: contents of the configuration that the stores are made from
  MaxStores,
  LegendRequests, LegendHosts, LegendLayers, Listed, Hidden, Day, MaxTime, MaxLegends,
  UrlTasks, HostLimit, FileDefault, DefaultLimit, MaxHostEdits,
  TileLayers, Served, Style, Mime, Extension, Dims, LayerGrids, Queryable, MetaSize, Resolution,
  MinResolutionSeed, Geometry, Width, MatrixIdentifier, ResolutionIdentifier, OtherFiles,
  AllowedExtensions, Number, Dotted, TokenOf, Urls, Kvps,
  Absent       \* no entry, no store

VARIABLES
  alone,       \* one task uses the stores
  version, valid, present, removals, superseded, hostsVersion, listed, configs, derived,
  hostsCache, action, alive, kind, datedPc, floor, cached, got, seen, elapsed, dated, config,
  flavour, storeVersion, layers, entry, made, open, storeAlive, storePc, storeFloor, want,
  old, new,
  clock, file, until, legendCache, legends, legendPc, job, task, result, shown,
  hostsFile, hostsDate, hostsLimit, hostsLimitDate, semaphores, current, urlPc, found, faulty,
  sem, urlResult,
  geomsRedirect, storage, loaded, store, failing, last

datedVars ==
  <<version, valid, present, removals, superseded, hostsVersion, listed, configs, derived,
    hostsCache, action, alive, kind, datedPc, floor, cached, got, seen, elapsed, dated, config>>
storeVars ==
  <<flavour, storeVersion, layers, entry, made, open, storeAlive, storePc, storeFloor, want,
    old, new>>
legendVars ==
  <<clock, file, until, legendCache, legends, legendPc, job, task, result, shown>>
urlVars ==
  <<hostsFile, hostsDate, hostsLimit, hostsLimitDate, semaphores, current, urlPc, found, faulty,
    sem, urlResult>>
routeVars == <<geomsRedirect, storage, loaded, store, failing, last>>
sharedVars == <<alone, datedVars, storeVars, legendVars, urlVars, routeVars>>

Caches == INSTANCE DatedCaches WITH
  Tasks <- CacheTasks, Kinds <- {"serve", "main", "action"}, Derived <- Grids,
  Troubles <- {"invalid"}, MaxVersion <- MaxContents, None <- Absent, pc <- datedPc

SharedStores == INSTANCE StoreCache WITH
  Tasks <- StoreTasks, Flavours <- {"multi", "server"}, Troubles <- {"no_layer"},
  MaxVersion <- MaxEdits, None <- Absent, version <- storeVersion,
  alive <- storeAlive, pc <- storePc, floor <- storeFloor

OneTask == INSTANCE StoreCache WITH
  Tasks <- {FirstTask}, Flavours <- {"multi", "server"},
  Troubles <- {"edit_in_use", "no_layer"}, MaxVersion <- MaxEdits,
  None <- Absent, version <- storeVersion, alive <- storeAlive, pc <- storePc,
  floor <- storeFloor

Legends == INSTANCE LegendCache WITH
  Requests <- LegendRequests, Hosts <- LegendHosts, Layers <- LegendLayers,
  MaxVersion <- MaxLegends, cache <- legendCache, pc <- legendPc

Remotes == INSTANCE UrlStore WITH
  Tasks <- UrlTasks, pc <- urlPc, result <- urlResult

Routes == INSTANCE WmtsServer WITH Layers <- TileLayers, Grids <- LayerGrids

ASSUME CachesAssumption == Caches!DatedAssumption
ASSUME StoresAssumption == SharedStores!StoreAssumption /\ OneTask!StoreAssumption
ASSUME LegendsAssumption == Legends!LegendAssumption
ASSUME UrlsAssumption == Remotes!UrlAssumption
ASSUME RoutesAssumption == Routes!ServerAssumption

-----------------------------------------------------------------------------
SharedInit ==
  /\ alone \in BOOLEAN
  /\ Caches!Init
  /\ IF alone THEN OneTask!Init ELSE SharedStores!Init
  /\ Legends!Init
  /\ Remotes!Init
  /\ Routes!Init

CachesStep == Caches!Next /\ UNCHANGED <<alone, storeVars, legendVars, urlVars, routeVars>>
StoresStep ==
  /\ \/ ~alone /\ SharedStores!Next
     \/ alone /\ OneTask!Next
  /\ UNCHANGED <<alone, datedVars, legendVars, urlVars, routeVars>>
LegendsStep == Legends!Next /\ UNCHANGED <<alone, datedVars, storeVars, urlVars, routeVars>>
UrlsStep == Remotes!Next /\ UNCHANGED <<alone, datedVars, storeVars, legendVars, routeVars>>
RoutesStep == Routes!Next /\ UNCHANGED <<alone, datedVars, storeVars, legendVars, urlVars>>

SharedNext == CachesStep \/ StoresStep \/ LegendsStep \/ UrlsStep \/ RoutesStep

SharedSpec == SharedInit /\ [][SharedNext]_sharedVars

-----------------------------------------------------------------------------
\* A request works with no content of its configuration that was replaced before it
\* began, nor with grids, filters and geometries made from another one, and the hosts
\* that are not read again are those of the file.
ConfigIsCurrent ==
  /\ Caches!TypeOK /\ Caches!ConfigIsCurrent
  /\ Caches!DerivedMatches /\ Caches!HostsAreCurrent

\* An action of MultiAction is at most one TTL older than the file.
ActionLagIsBounded == Caches!ActionLagIsBounded

\* A task works with a store that is not older than the configuration it began with, and
\* that is open unless the configuration is edited meanwhile; nothing is kept under the
\* date of another content, and a task alone leaves no store of an earlier one open.
StoresAreCurrent ==
  /\ ~alone =>
       /\ SharedStores!TypeOK /\ SharedStores!StoreIsCurrent /\ SharedStores!CacheIsCurrent
       /\ SharedStores!UsedIsOpen
  /\ alone =>
       /\ OneTask!TypeOK /\ OneTask!StoreIsCurrent /\ OneTask!CacheIsCurrent
       /\ OneTask!StaleIsClosed

\* A legend was in its file less than a day before the request that returns it, one that
\* was written a day before is found, and it is of the host of the request.
LegendsAreCurrent ==
  /\ Legends!TypeOK /\ Legends!ResultIsRecent /\ Legends!MissIsRecent
  /\ Legends!ResultIsOfTheHost

\* Once the capabilities show a legend for a layer they always do.
LegendIsKept == [][Legends!LegendStays]_sharedVars

\* No permit of the semaphores of a host is lost or given twice, whatever the requests that
\* hold them become, and nobody waits for one that is free.
PermitsAreKept == Remotes!TypeOK /\ Remotes!PermitsAreKept

\* What the generation wrote is got with the URL that the capabilities advertise, and the
\* two interfaces give the same answer for the same tile.
GeneratedIsServed == Routes!GeneratedIsServed /\ Routes!InterfacesAgree

\* Faulty values of dimensions are answered with 400, a host without a configuration with
\* 404, a tile of a zoom of the grid by an error of the server only when the store or the
\* map cache that it needs fails, the files of the cache that are no tiles are served, and
\* with geoms_redirect "no content" is for tiles whose meta tile, or the next, is generated.
AnswersAreRight ==
  /\ Routes!TypeOK /\ Routes!BadDimensionsAre400 /\ Routes!NoConfigurationIs404
  /\ Routes!NoServerError /\ Routes!LegendsAreServed /\ Routes!EmptyOnlyInGeometry
=============================================================================
