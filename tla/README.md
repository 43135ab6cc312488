# TileCloud-chain in TLA+

TileCloud-chain generates map tiles. A *job* asks for the *meta tiles* of a layer; they wait in a
queue; workers take them, split each into tiles, and store the tiles in a cache that a server
publishes. This directory specifies the parts whose correctness depends on the order in which things
happen: TLC checks the specifications on small instances, and TLAPS proves the main properties for
instances of any size.

Paths below are relative to `tilecloud_chain/`.

## The system

| Part | Source | State | Operations |
|---|---|---|---|
| PostgreSQL queue | `store/postgresql.py` | tables `job` and `queue`; a buffer of inserts | `create_job`, `start_job`, `retry`, `cancel`, `_maintenance`, `_start_job`, `list`, `put_one`, `delete_one`, `get_status` |
| Command line | `generate.py` | its options, its job id, the counts of the layer | layers, zooms, `--test`, `--time`, exit status; `_ensure_postgresql_job_id`, generation of the queue, `_activate_postgresql_job` |
| Tile pipeline | `__init__.py` (`TileGeneration`, `Run`, `HashDropper`), `generate.py` (`_generate_tiles`), `filter/error.py` | `elapsed_togenerate` and `error` of a meta tile, error counts, running tasks | `consume`, `Run.__call__`, `meta_get`, `delete_from_store`, hash dropping |
| Configuration caches | `__init__.py` (`get_config`, `get_hosts`, `get_grid`, `MultiAction`) | configurations, hosts, grids and actions, each with the date of its file | reload on a new modification time |
| Tile server | `server.py` | stores of the layers, legends | routes, `serve`, `get_store`, feature info, static files, capabilities |
| Internal map cache | `internal_mapcache.py` | Redis locks and cached tiles, the generator of the process | `fetch`, `compute_tile`, lock, expiry, retry |
| Stores | `multitilestore.py`, `store/filesystem.py`, `store/azure_storage_blob.py`, `store/url.py`, `store/mapnik_.py`, `timedtilestore.py` | open stores, files, semaphores of the hosts | get, put, delete, list |
| Zooms, grids, geometries | `__init__.py` | a lazy generator of meta tiles | `_resolve_grid_zooms`, sparse pyramid, matrix limits, resolution scale |
| Admin views, controller | `views/admin.py`, `controller.py` | none; legend files | requests create, cancel, retry; generated documents |
| Copy, expire, cost | `copy_.py`, `expiretiles.py`, `cost.py` | none | sequential tools |
| Database logger | `database_logger.py` | a table of statistics | one row per tile |
| Settings, schema, security | `settings.py`, `configuration.py`, `security.py` | none | declarations, authentication, `validate_config` |

How they interact. Administrators and command lines create jobs. Each worker process runs
`_maintenance` every time its pipeline asks `list()` for a meta tile: it restarts what has been
pending for longer than `max_pending_minutes`, claims new jobs and creates their queue, and settles
finished jobs. The pipeline calls `delete_one` when a meta tile is finished. The only shared state is
the database, at READ COMMITTED; nothing coordinates the processes but row locks, the statuses and
the timeouts. Inside a worker, `nb_tasks` asyncio tasks share one iterator, and the sub-tiles of a
meta tile run concurrently and share its counter and its error.

The workers write the tiles to a store that the servers read; nothing else goes from one to the other.
A tile the store is not meant to have comes from the internal map cache, whose requests share Redis
and, inside a process, the same pipeline as the workers. Every process keeps what it made from the
configuration files, with the modification time it was made from, and looks at that time when it
needs the thing again. The controller writes the legends next to the tiles, and the server keeps what
it read of them.

What is hard, and what must be true:

* **Queue.** Transactions of several workers, an administrator and a command line interleave; a
  process dies between two of them; a timeout gives an entry to another worker while the first still
  works on it; acknowledgements come late, twice or never. A meta tile must not be lost, queued twice
  or regenerated for nothing; a job must be settled when, and only when, its meta tiles are; a queue
  must be created by one process at a time; every job must end.
* **Pipeline.** The sub-tiles of a meta tile end in any order, fail in any function, also in
  `delete_one` itself and in the logger that comes after it; `gather` raises while sub-tiles still
  run; too many errors end a task. An entry must be deleted only when all its tiles are stored, must
  not be forgotten, and a failure must reach the exit status.
* **Map cache.** Requests wait for a lock that expires; its owner dies, retries or finds the tile
  under the lock; the first requests of a process build its pipeline together. A meta tile must not be
  generated twice at once, a successful request must leave all of it in the cache, every request must
  end.
* **Caches of files.** A file changes while it is read, between its read and its date, or while
  another task reads it. What is used must not be older than the file was when the task began (or a
  TTL before), must be made from the configuration it is used with, and must be replaced in the end.
  A store must not be closed under who uses it, nor left open once it is replaced.
* **Server.** Routes that overlap, dimensions without a fixed number of segments, limits that the
  generation computes in another way. What was generated must be served at the advertised URL.
* **Command.** Options that override one another, counters reset at each layer. Exit status 0 must
  mean that what was asked for was done.
* **Algorithms.** Boundaries of extents, empty intervals, buffers, factors.

`PROJECT.json` lists the hazards one by one with the properties that cover them.

## Modules

| Module | Role |
|---|---|
| `JobQueue` | the two tables and every process that writes them |
| `JobBoard` | abstract specification: what the queue promises about jobs and meta tiles |
| `JobQueueRefinement` | `JobQueue` read as a `JobBoard` (`ImplementsBoard`) |
| `MetatilePipeline` | one worker's pipeline, from the meta tile taken to its acknowledgement |
| `MetaTileWork` | abstract specification: what `JobQueue` assumes of one worker |
| `MapCache` | the internal map cache: several servers, Redis, one meta tile |
| `DatedCaches` | what a process keeps of the configuration and hosts files |
| `StoreCache` | the stores that `MultiTileStore` and the server keep |
| `LegendCache` | the legends of the capabilities |
| `UrlStore` | requests to other servers through the semaphore of a host |
| `WmtsServer` | routes, checks and answers of the server, and the generation that fills its cache |
| `GenerateCommand` | one `generate-tiles`: options, layers, zooms, counts, exit status |
| `SparsePyramid` | the meta tiles a master queues, and the limits of the capabilities |
| `ConfigCheck` | `validate_config` and the scale of the resolutions |
| `LegendImages` | the legends that the controller writes |
| `TileFiles` | a tile in a file or a blob, written, deleted and read by several processes |
| `Server` | what the tasks of a server share, composed: dated caches, stores, legends, semaphores, routes |
| `Commands` | what the commands do by themselves, composed: generation, pyramid, check of the configuration, legends, tile files |
| `MCJobQueue` with `MCJobQueueSafe`, `MCMetatilePipeline`, `MCServer` with `MCWmtsServer`, `MCCommands` | instances for TLC |
| `JobQueueProofs`, `MetatilePipelineProofs`, `DatedCachesProofs`, `StoreCacheProofs`, `LegendCacheProofs`, `ServerProofs`, `RouteProofs`, `CommandProofs` | theorems |

The queue and the pipeline meet at `MetaTileWork`. In `JobQueue` the work on an entry is five actions (`Save`,
`DeleteOne`, `DeleteOneError`, `DeleteOneAgain`, `Abandon`); `MetaTileWork` states that part alone,
for one worker; and `MetatilePipeline`, which has the tasks, the counter, the concurrent sub-tiles
and their failures, implements it (`ImplementsWork`). `JobQueue` therefore needs no sub-tiles, and
what a pipeline may do to the queue is not guessed: a first version of `JobQueue` knew neither a
failure after the tiles were stored nor a failure acknowledged twice, and the refinement needed both.

The other modules are about parts of a process that share no variable with each other. `Server`
composes those that the tasks of a server share: any of them may move at any step, as in an event
loop. `Commands` does so for the generation, the pyramid of a master, the check of the configuration,
the controller and the tile files. For TLC that is too
much, and it would show no more: what one part does is what it does when the others stand still.
`MCServer` extends `Server` with the map cache, and `MCCommands` extends `Commands`;
a variable `active` says which part moves while
the others stay in one initial state, and one run then checks them all. The theorems of
`ServerProofs`, `RouteProofs` and `CommandProofs` are about `Server` and `Commands`, where the parts
interleave. Where two parts of the program do meet, the module has both: `WmtsServer` has the generation and the server, because what must agree is what one writes and the other serves;
`SparsePyramid` has the pyramid of a master, the tiles of a local generation and the advertised limits;
`TileFiles` has writers and readers; `LegendCache` has the controller that writes what it reads.

### JobQueue

*State.* `status`, `startedAt`, `tilesStarted`, `total` are columns of `job`; `queue` is the status
of the entries, `"absent"` before the insert and after the delete; `late` marks the pending entries
older than `max_pending_minutes`. An entry is identified by its job, the generation run that inserted
it and its meta tile, because ids are never reused. A process has a program counter `pc`, a current
job `cur`, its `run`, the meta tiles `toPut` it has still to insert and the configurations `cfgs` of
the loop it is in. `locked`, `todo`, `verdict` belong to the transaction that settles the jobs.
`busy`, `saved`, `again` are the entries whose meta tile is being generated, is stored, or has failed
and is about to be acknowledged again. `stored` and `runs` are history.

*Actions.* One action is one transaction, or one statement where other transactions can make its
reads stale before the transaction ends. A worker goes through `_maintenance`: `RestartJobs`,
`ReadConfigs`, `ClaimJob` for each configuration, `_start_job` (`StartWithoutQueue`, or `ClearQueue`,
`PutRows`, `EndGeneration`), then the settlement in one transaction of several statements
(`LockStarted`, `CountCreated`, `CountPending`, `CountError`, `CommitFinish`) and `ResetRows`; then
`list` (`SelectConfigs`, `Take`, `NothingToTake`). `TimedTileStoreWrapper` opens a new `list()` for
each meta tile, so every one of them begins with `_maintenance`. A worker starts another round while
it has a free task (`NbTasks`). `retry` and `cancel` check the status in one statement (`AdminCheck`)
and write in a later one (`RetryApply`, `CancelApply`). A row lock held by a settlement
(`FOR UPDATE`) blocks the actions that update the job (`IsLocked`).

*Environment.* `Troubles` says what may go wrong: `slow_tile` and `slow_generation` (work that
outlives `max_pending_minutes`), `fail_tile`, `fail_stored` (the tiles are stored but something
after that failed), `ack_twice`, `fail_generation`, `abandon`. `Crash` kills a process and rolls its
open transaction back.

*Abstractions.* Time is `recent` or `old`; a timeout of an entry nobody works on may happen any time.
The order of `queue.id` inside a job is left open, as is the way the configurations are balanced.
A batch of inserts is any non-empty set of the missing meta tiles. The subprocess of a job without a
queue is one step that succeeds or fails. Ids of jobs are their order of creation.

### MetatilePipeline

*State.* `stage` is how far the Run of the meta tiles is with a meta tile, `sub` how far the Run of
the tiles is with a sub-tile; `elapsed` is `elapsed_togenerate`; `metaError` is `metatile.error`;
`entry` and `acks` are the queue entry and the calls of `delete_one`; `inner` and `outer` are the
consecutive errors of the two Runs (`MaximumConsecutiveErrors`, absent in daemon mode); `innerError`
and `geneError` tell whether the two error counts are zero; `tasks` counts the tasks still running.
`cached` is the set of sub-tiles whose content in the cache is final. `options` is daemon mode and
the presence of a database logger, chosen once.

*Actions.* What a task does between two awaits. For a meta tile: `TakeNext`, then `Split`, `FindEmpty`
and `DropMeta` (the hash dropper), `FailGet` or `ReturnNone`; `Gathered` when `asyncio.gather`
returns or raises; `Succeed`, `Fail` or `GiveUp` for what `Run.__call__` does next. For a sub-tile:
`Cache` or `FailTile`, `DeleteFromStore`, `Log`, and the error path `TileError` or `RaiseTooMany`.
`Troubles` says which calls may fail: `get` (the store, or anything before the split), `none` (a
function returned None), `tile`, `log`, `delete` (`delete_one` of the queue).

*Abstractions.* The functions of the pipeline are grouped by what their failure leads to. The
decrement of the counter and the `delete_one` it triggers are one step; no other sub-tile reaches 0
in between, since the count has passed it. `alive` becomes FALSE when an exception leaves `consume`,
which is the end of the process.

### MapCache

*State.* Redis is `cache` (and `replica`, what a Sentinel replica has of it) and `lock`, the owner of
the lock of the meta tile. Each server has its `generator`, the request `building` it under the asyncio
lock of `_get_generator`, whether the splitter is in its functions, and how often the getter was
`added`. Each request has its `pc`, the attempts left (`tries`), `metaError`, what its last run made of
the tiles (`sub`), the tiles it has still to look at (`left`) and its `answer`.

*Actions.* `GetGenerator`, `BuildPipeline`, `RunInit` are `_get_generator`; `ReadFromCache`, `Acquire`,
`ReadAgain`, `RunMetaTile`, `StoreTile`, `EndCompute`, `Release` are `fetch` and `compute_tile`, in the
order of their awaits. What `Run.__call__` puts in `metadata["tiles"]` first is the meta tile itself, so
that `compute_tile` stores the whole image under the key of the first tile (`StoreMetaTile`) before the
tile replaces it. `RedisFails` is an exception of Redis in a read, a write, the lock or its release. `LockExpires`, `TileExpires`, `Replicate`, `Crash` and `SourceStopsOrReturns`
are Redis and the environment. `troubles` says what goes wrong in a behaviour: a generation that
outlives the lock, a tile that fails or is empty, Redis, the configuration.

*Abstractions.* One meta tile, since the lock is per meta tile and two of them share nothing else.
`compute_tile` looks at the tiles in any order, after the meta tile. Layers without meta tiles are not
followed. Two answers of `fetch` cannot be reached and are left out: the 502 for an error of a meta tile
that was made without one, and the 500 for a tile that is not among those of its meta tile. The lock expires only under a generation that is too
long or a dead request: `max_generation_time` is configured to be longer than a generation, and
`"slow"` is the case where it is not.

### DatedCaches

*State.* A version of the file stands for its content and its date. `configs`, `derived`, `hostsCache`
and `action` are the caches; each task keeps between two awaits what it `cached`, `got` and has `seen`.
`floor` is history: the version a task may at least expect, that of the file when it called
`get_config`, or the oldest that was current a TTL ago for an action.

*Actions.* `Exists`, `StatCached`, `ReadConfig`, `StatConfig`, `StoreConfig` are `get_config` and
`_get_config`; `StatHosts`, `ReadHosts`, `KeepHosts` are `get_hosts`; `Derive` is `get_grid`,
`get_filter` and `get_geoms`; `StartAction`, `ActionExists`, `ActionStat`, `ActionStore` are
`MultiAction`. `Edit`, `EditHosts`, `RemoveOrRestore` and `Tick` are the files and the clock. A content
that does not pass the validation gives an empty configuration, or ends the process where
`ignore_error` is not set.

### StoreCache

One key of the cache, several tasks, both flavours: `MultiTileStore._get_store` closes the old store
and then builds the new one; `Server.get_store` builds, closes and then changes the cache. Each await
separates two actions, and the construction of a store (`BuildStore`, `BuildThenClose`) is apart from the
keeping of it (`KeepStore`, `CloseAndKeep`). `made` is the content each store was made from and `open` the stores that are
not closed.

### LegendCache

`_fill_legend` starts one coroutine (`task`) for each layer that `layer_legends` (`legends`) does not
have; each looks in the cache of the configuration file of its host, reads the storage, and keeps what
it found, or that it found nothing, for a `Day`. `LegendOpened` and `LegendWritten` are the controller,
which empties a file before it writes it.

### UrlStore

`get_one` of `URLTileStore`: a task that finds no semaphore for the host calls `_get_hosts_limit` twice,
for the limit of the host and, whatever that is, for the default one, makes a semaphore, waits in it,
sends its request and turns the response into a tile, an error, nothing or an exception. The tile may be
out of the bounding pyramid (nothing in the repository gives one), or have no URL (`BeginGet`).
`hostsFile` and `hostsDate` are the hosts limit file, which may be edited, absent, against its schema or
no YAML; `hostsLimit` and `hostsLimitDate` what the store keeps of it, before it is validated
(`ReadLimits`, `CloseFile`). `asyncio.Semaphore` is external: first come, first served.

*Abstractions.* One host. The file is looked at, opened and read in one step, and has a new date at
each edit. A limit of 0, or below, is assumed away: it lets nothing through, or is refused.

### WmtsServer

*State.* `geomsRedirect` and the type of the `storage` are chosen once; the tiles in the cache (`store`),
whether the configuration is `loaded`, what fails now (`failing`: there is no store, the store raises or
gives a tile without data or with an error, the map cache, the WMS), and the `last` request with its answer. *Actions.* `Generation` writes the tiles of a meta
tile, those found empty left out; `AskRest` and `AskKvp` answer a request. The answer is a function of
the state, because the server reads it once, and is written as the code is: `AnswerRest` tries the
routes in their order, `RestTile`, `RestInfo` and `RestStatic` check what FastAPI and the handlers
check, `Serve` and `ServeLayer` are `serve`, `GetTile` and `StoreAnswer` are `_get_tile`, with the 500 that `serve`
makes of an exception. `AnswerKvp` reads the names in lower case, as FastAPI does, for what it requires and
for the numbers it validates, and goes on with all of the parameters. `FailuresOf` says which failures a
type of cache can have: a store of files gives no tile without its data, and only Azure's gives one with
an error and data.

*Abstractions.* A KVP request does not name a parameter both in lower and in upper case. A URL is the sequence of its segments, a segment a token with its value as a number and
its parts around the last dot. The grid has one row. A geometry is a set of columns.

### GenerateCommand

`Parse`, `BeginLayer`, `DoMetaTile`, `EndLayer`, `Finish` are `async_main` and `Generate`. The options
that carry over from one layer to the next (`role`, `zoom`), and the counts that do or do not
(`runError`, `tileError`, `error`, `count`) are variables; `ResolveZooms` is `_resolve_grid_zooms`.
A meta tile may be found empty (`DropMeta`) or fail (`FailMeta`), and after too many consecutive errors the
tasks end one by one and leave the rest of the layer, or the command ends (`GiveUp`). The limit of
consecutive errors is at least one; the tasks that end because of a sub-tile are in `MetatilePipeline`
only. A `--zoom` that names a zoom twice is in `SparsePyramid` only: here the zooms are a set.
A meta tile comes to one of `Outcomes`: how many of its tiles are stored, dropped, failed or failed in
the put. A layer that is named, by the options or by `default_layers`, and is not there exits with 1
(`NameSet` has both kinds of names). For one tile, `get_grid_name` takes the grid of `--grid` unchecked
(`TheGrid`); a grid that a layer lists twice has the zooms of its last place (`LastOnes`), since
`grid_tilecoords` is a dictionary.

### SparsePyramid

`NextZoom`, `NextRow`, `MergeRange` and `Yield` are the lazy generator of
`SparseMetaTileBoundingPyramid`. Its zooms are the *places* of the list of the command, of which two may
be of one zoom (`--zoom=1,1`): a resolution belongs to a place, and the meta tiles of a zoom that is named
twice are put twice. `Extent` is the box that the command asks for (`--bbox`, or around `--near`), or that of
the layer, or of the grid, and clips the geometries. `IndexRange` and `RowRanges` are its helpers, and `Merged` is a turn of
the loop of `_merge_index_intervals`, which goes through the ranges in order (`Before`). `FilterTilecoord` is
`IntersectGeometryFilter`; `LocalTiles` what a local generation goes through; `TileMatrixLimits` what
the capabilities tell. Geometries are unions of rectangles with integer coordinates, and the buffer of
the geometry library (one segment for each corner) is written out (`BandPiece`). `MasterIsLocal`
excepts a geometry that begins on the right or on the lower border of the grid, or after it
(`IsAfterGrid`): where it touches the border, the master puts the last column or row of meta tiles, and a
local generation goes through the one after it, outside the grid. `PyramidAssumption` says that the grid
has an area, that sizes and resolutions are positive, and that the sides of a rectangle are in order; no
code checks the first. Boxes are what `transform_bbox` makes of them: the reprojection is the geometry
library's, `get_geoms` and the limits apply the same one to the box of a layer, and all that is computed
from it is in the units of the grid.

### ConfigCheck

`CheckSchema`, `CheckScale`, `NextResolution`, `Divide`, `EndFactors`, `SetScale` and `EndCheck` are
`validate_config` and the loop of `_primefactors`, one division at a time. A given `resolution_scale` is
checked with floats: `Float` and `Times` round to `Precision` bits. `_primefactors` divides with floats
too, and rounds (`round(x / loop)`): `Divide` has the exact quotient, which that is for resolutions with
at most 22 digits after the point, whose denominators are products of twos and fives with less than 53
bits of fives. `Multiplied` is a recursive function, so that `Product` can be reasoned about.
`ConfigAssumption` says that the resolutions are reduced fractions, which `Fraction` gives, and that
their denominators are at most `LastFactor`.

### LegendImages

`Get`, `SendImage` and `SendYaml` are one turn of the loop of `_generate_legend_images`. `_send` depends on the
storage (`First`, `Ended`): Azure replaces a blob in one step; a file is emptied and then written
(`EndImage`, `EndYaml`); for S3 the object is put, and then a local file is written as well, which nobody
reads. `Crash` ends a run anywhere, and the next one starts on what it left.

### TileFiles

`OpenForWrite` and `WriteAndClose`, `Exists` and `Unlink`, `OpenForRead` and `Read` are the system calls
of `FilesystemTileStore`; `Upload` and `DeleteBlob` the requests of the Azure store. `name` is the file
under the name of the tile, so that a reader keeps the one it opened after it is deleted.

## Runs

| Run | Question | Result |
|---|---|---|
| `JobQueueSafe` | two jobs of one configuration, failing tiles, a retry, and either two workers and a command line without a crash or a timeout, or one worker with two tasks that may crash and be late: one holder per entry, nothing left in a settled job, done means generated, the board is implemented | holds |
| `JobQueueSlow` | entries taken again while somebody works on them, late, double and missing acknowledgements, crash, cancel, retry: no meta tile lost or queued twice, one creator of a queue | holds |
| `JobQueueLive` | each job is settled in the end, in spite of a crash, failures and a retry | holds |
| `MetatilePipeline` | what is deleted is complete, nothing is forgotten, no write after the acknowledgement, failures reach the exit status, the worker keeps to what the queue assumes | holds |
| `ServerParts` | the safety of what serves the tiles: map cache, dated caches, stores, legends, requests to other servers, routes (836 235 states) | holds |
| `ServerLive` | every request to the map cache ends, the actions get the last configuration, who waits for a host gets through (83 653 states) | holds |
| `CommandParts` | what the commands do: exit status, what is generated and told, the queued geometry, the limits, the scales, the legends, the tile files (172 649 states) | holds |
| `JobQueueSettleRace` | `SettledIsEmpty` with two workers, a crash and a timeout | violated |
| `JobQueueCliDies` | `PendingJobRestarts` when the command line dies | violated |
| `JobQueueRetryRefused` | `NoTileLost` when a refused job is retried | violated |
| `JobQueueAckTwice` | `RetryKeepsGenerated` when a failure is acknowledged twice | violated |
| `UrlStoreLimit` | `AtMostLimit` when two tasks ask a host for the first time together | violated |

What the parts of `ServerParts` show:

* `process`, `map`: two requests of one server (two troubles, an outage of the source, a crash), and of
  two servers (a replica that lags, an expiry, a crash), with a Redis that may fail: the meta tile is
  generated by one request at a time (`OneGeneration`), with success once, and once more for each
  expiry (`MadeOnce`); a successful request leaves every tile in Redis, none of them the image of the whole
  meta tile (`SuccessFillsCache`); the pipeline of a process is built once (`SplitterNotTwice`).
* `requests`, `actions`: what two tasks use is not older than the file was when they asked
  (`ConfigIsCurrent`), or a TTL before (`ActionLagIsBounded`).
* `stores`, `store`: three tasks with edits while no store is in use, and one with any edits: what is
  used is current and open, what is replaced is closed (`StoresAreCurrent`).
* `legends`, `hosts`: what the capabilities show was in its file less than a day before, is of the host
  asked for (`LegendsAreCurrent`), and stays (`LegendIsKept`).
* `urls`: three tasks and the edits of the hosts file: no permit of a semaphore is lost or given twice,
  also when several are made or a request ends with an exception (`PermitsAreKept`).
* `routes`, `redirects`: each URL and parameter set of `MCWmtsServer` in each state of the cache and with
  each failure, without and with `geoms_redirect`: what was generated is got at its URL while store and
  map cache work (`GeneratedIsServed`), and a tile of a zoom of the grid is answered by an error of the
  server only if the one of them that it needs fails (`AnswersAreRight`).

What some properties do not ask for, because it is false of the code:

* `OneGeneration` and `MadeOnce` have no generation that outlives the Redis lock (`Calm`), `MadeOnce` no replica
  either, and counts the successful ones; the runs have both, for the other properties.
* `SplitterNotTwice` has no initialization that fails half-way; `ConfigIsCurrent` no edit between a read and its
  `stat`; the stores in use are open as long as nothing is edited meanwhile; a tile that is read during
  a write may be empty (`TilesAreWhole`).
* `GeneratedIsServed` is for matrices named by their zoom, and allows a generated tile to be redirected; a tile
  may be "no content" because the next meta tile is in the geometry (*Seen* below).
* `ExitStatusIsRight` is for the last layer, and for one layer and one grid where it says that all was made:
  the errors of the layers before are forgotten, and the zooms of a second grid may be fewer than asked.
* `ScalesAreExact` has no resolution for which the floats accept a wrong scale.
* `LegendsAreCoherent` lets the first image be empty in a file after an interrupted run.

*Bounds.* `MaxRuns` (creations of the queue of a job), `MaxCrashes` and `MaxRequests` bound what
would be unlimited. Two workers show the races between two transactions on the same rows; races
that need three workers are outside these bounds and inside those of the proofs. Two meta
tiles distinguish the last one from the others; two jobs of one configuration compete for it. One
crash already interrupts every step, and two runs of a queue show what the first one left.
`JobQueueSafe` has two cases, chosen at the start (`only`), because with two workers and a timeout the
settlement race of `JobQueueSettleRace` violates its invariants: `Together` has two workers and a command
line, no crash and no timeout; `ByItself` has one worker with two concurrent tasks, crashes and timeouts.
No bound is a guard of what a timeout does (`JobTimesOut`): the creations of a queue are bounded where a
process begins one. `MaxRuns` is `MaxCrashes` + 1, so that it keeps no worker from a job.
In `MetatilePipeline` two sub-tiles are enough for a first and a last one, two meta tiles for two
tasks that share the error counts, `MaxErrors = 1` for a count that passes its limit. Runs with three
meta tiles (3.7 million states) and with three sub-tiles (1.9 million) find nothing more.

In `MCServer`, two requests meet at a lock, the third one is only ever on another server than the
first; `Retries = 1` has a first, a last and no attempt; one crash, one expiry and one outage each meet
every step. While the store, the map cache or the WMS fails, only a few
of the requests are asked (`FewWhileFailing`). Two versions of a file are one change, which a task may meet anywhere; `StoreCache` gets
three contents and four stores, so that stores of several dates are left behind. A `TTL` or a `Day` of one tick
has a before and an after. Three tasks make a semaphore with a holder and a queue of two.
In `MCCommands`, the sides of the rectangles are on, before and after the borders of a tile, of a meta
tile and of the grid, every pair of them is a geometry, and a grid of six by five is divided by the
meta tiles in one direction and at one of two zooms; denominators up to 25, of decimals, have repeated and
distinct factors; floats of 8 bits round like those of 53, on smaller numbers; three resolutions have a first, a middle and a last one.

*Symmetry* of workers, meta tiles and sub-tiles is used in the runs of the queue and of the pipeline
without liveness. The runs of the pipeline, of the server and of the commands disable the deadlock check,
because a batch, a command and the requests of a bounded model end; the queue's runs keep it, since
workers poll.

*Fairness* (`JobQueue!Fairness`). A worker loops over `list()` for ever, restarted when it dies, so
its maintenance, selection and inserts are weakly fair together; a meta tile it generates ends, well
or badly, since the HTTP client gives up a request that gets no answer (by its default timeout: the
code sets none of its own); a stored one is acknowledged; a request that began ends; a command line
that runs ends; and time passes. Nothing makes an administrator or a new job
arrive, and nothing makes a process crash. `Abandon` is not fair.

`MCServer!ServerFairness`. An event loop runs every task that can go on, so each request, task and
coroutine is weakly fair by itself; Redis removes the lock of a dead request when its timeout is over;
time passes for the TTL of the actions. No fairness is assumed between the requests that wait for the
Redis lock: each ends because the others do, since they come to an end after finitely many attempts.
Nothing is fair about edits, expiries, crashes and outages.

## What does not hold

* **Settlement race** (`postgresql.py:713`). The settlement counts created, then pending, then failed
  entries in separate statements, and locks the job but not its entries. Another worker's reset of
  too long pending entries, between the first and the second count, moves an entry behind the counts:
  the job is settled while the entry is created, and nobody takes it. Reading the counts in one
  statement would close it.
* **Dead command line** (`postgresql.py:658`). `create_job(initial_status="pending")` leaves
  `started_at` NULL, and NULL is older than nothing: the job of a command line that died stays
  pending.
* **Retry of a job that has no queue** (`postgresql.py:499`). `retry` marks any job in error as
  started; one that was refused, or whose queue creation failed, then becomes done without a tile.
* **Second acknowledgement** (`__init__.py:373`). A failed sub-tile acknowledges the entry at count 0
  and leaves `metatile.error`, so that the Run of the meta tile acknowledges it again. If the job was
  retried and the entry taken again meanwhile, the second one marks it in error while it is being
  generated, and the next retry regenerates it, against `USAGE.rst:461-462`.
* **Host limit** (`store/url.py:97`). A task looks for the semaphore of a host, awaits the hosts file twice,
  and makes a semaphore without looking again. Tasks that ask for the first tiles of a host together make
  one each, and the requests add up to several times the "Limit of concurrent request on the host"
  of `HOST_LIMIT.md:11`, until those of the earlier semaphores are over.

Seen and not reported as disagreements, because we know of no statement in the repository that they break:

* *Queue.* Two created jobs of one configuration can be served at once, as the configurations are read
  before the claim; a cancel that lands after the settlement only changes the label; a queue creation
  that outlives `max_pending_minutes` can leave duplicates, hence the assumption of
  `GenerationIsExclusive`; a late acknowledgement after a timeout, and a failure after the storage, also
  break `RetryKeepsGenerated`.
* *Pipeline and command.* The number of tiles in error that is displayed counts a failure once per later
  meta tile; the errors of a layer are forgotten when the next one begins, so that the exit status is
  of the last layer; a layer that is twice among the default ones is done twice, and its first pass
  forgotten; tiles are counted as stored before they are put; `--test` counts meta tiles, as the tests expect, where the
  help says tiles (`__init__.py:182`); a zoom that `--zoom` names twice is queued twice;
  `options.zoom` as resolved for a grid is what the next grid begins with; without a layer and a
  configuration the command does nothing and exits with 0.
* *Map cache.* An attempt of `compute_tile` that fails before the split leaves `error` in the meta tile,
  and the attempts after it stop at their first function; a pipeline whose initialization failed after
  the splitter was added fails an assertion for ever after; a replica that lags makes a request generate
  what is stored. The image of the whole meta tile is under the key of its first tile until that tile is
  stored, and remains there, to be served for that tile until it expires, if the tile has an error at the
  last attempt, Redis fails or the server dies.
* *Caches.* A file written between its read and its `stat` is kept under the new date with the old
  content (`ConfigIsCurrent` excludes it). Tasks that replace a store together lose one of them, never
  closed, and a store in use may be closed by another task's replacement (`UsedIsOpen` is checked with
  edits only while no store is in use). A semaphore keeps the limit it was made with when the hosts file
  is edited, and a hosts file that breaks its schema, read just before a newer one, drops the limits of the
  newer one.
* *Stores.* The Azure store does not await `exists` and `delete_blob`: nothing is deleted. A reader may
  see an empty file while a tile is written in place, or after its writer died.
* *Server.* With `geoms_redirect` a tile is taken for the corner of its meta tile (`server.py:704`), which
  is right for the first one only: another tile is redirected though it was generated, or is "no content"
  because of the next meta tile (`EmptyOnlyInGeometry` says so); a matrix named by its resolution is
  not found by its name; a layer without dimensions accepts extra path segments; KVP without `STYLE` is
  an error of the server; the static URL of a tile is taken by the tile route; static files from an S3
  cache fail (`server.py:384`); `layer_legends` is shared by the hosts and never refreshed.
* *Algorithms.* The check of a given `resolution_scale` is done with floats, and exact only for resolutions
  of few enough digits (those of `MCCommands` are). The ranges of the legends are computed from the
  first resolution that has each image, not from the last one before it (`controller.py:374`).

## Proofs

All theorems hold for any number of jobs, configurations, meta tiles, workers, command lines,
administrators, tasks, runs, crashes and requests. The assumptions on the constants are
`JobQueueAssumption` (types, finitely many meta tiles, workers and command lines disjoint),
`PipelineAssumption` (finitely many sub-tiles, at least one; at least one task; a maximum of at least
one error), `MapCacheAssumption` (types), and those of the parts of a server: `DatedAssumption` (types, a
TTL of at least one), `StoreAssumption` (types, "no store" is not a store), `LegendAssumption` (a host,
`Listed` and `Hidden` disjoint sets of layers, a day of at least one tick), `UrlAssumption` (limits of
at least one) and `ServerAssumption` (below, *The routes*); those of the commands are `CommandAssumption` (types, a meta tile of at least one tile,
outcomes that account for all its tiles), `ConfigAssumption` (types, reduced fractions), `ImagesAssumption` (types, the mark of a missing file is not a
legend), `FilesAssumption` (types, nobody both writes and reads) and `PyramidAssumption` (types, a grid with an
area, the sides of rectangles in order). `Server` and `Commands` assume those
of their parts of their constants, and TLC evaluates them in the runs of `MCServer` and `MCCommands`.

### The queue

**`TypeCorrect`: `Spec => []TypeOK`.** Inductive as it stands; the last conjunct, a process that works
on a job has one, is what the later proofs need.

**`GenerationIsExclusive`: `Spec => []OneGenerator`**, if `"slow_generation"` is not among the
troubles. `OneGenerator` is not inductive: a job may be claimed only while its status is created, and
one must know that nobody who creates its queue can see it become created. `GeneratorInv` adds

* `GeneratingIsPending`: the job of a process that creates a queue is pending, and its start is recent
  (a worker) or NULL (a command line), so `RestartJobs` leaves it alone;
* `LockedIsStarted`: what a settlement has locked stays started until it commits, and its verdicts are
  about locked jobs, so `CommitFinish` does not touch a pending job;
* `RequestedIsOpen`: the job of a request under way is past its generation, so that a retry or cancel
  that writes late does not either;
* `FreshIsNull`: a job that does not exist yet was never started.

**`HoldingIsExclusive`: `Spec => []OneHolder`**, if neither slow work nor a double acknowledgement is
among the troubles. `HolderInv` adds `HeldIsOpen` (the job of a held entry is past the creation of its
queue, so `ClearQueue` does not delete it, and the entry is not late, so `ResetRows` does not reset
it), `QueueIsClean` (a queue being created has only entries of that run) and `AgainIsEmpty`.

**`EntriesAreUnique`: `Spec => []NoDuplicateEntry`**, without `"slow_generation"`. An entry is only ever
inserted by the process that creates the queue, and `OneRun` says that while it does, the entries of the
job are of this run and not among those it still has to insert; `QueueIsClean` gives the first one an
empty queue.

**`TilesAreKept`: `Spec => []NoTileLost`.** `KeptInv` says where each meta tile of a job is in *every*
state of the job: in the cache, in the queue, or still to be inserted by the run that fills it
(`TilesKept`). A worker removes an entry only when its tiles were stored (`SavedIsStored`), and `ClearQueue`
only to fill the queue again; `RunsBegan` types the run it fills. Three conditions are needed:

* no creation of a queue fails, or outlives `max_pending_minutes`;
* a job that is not of kind queue owes no meta tiles, since a refused one that is retried is started
  without a queue (`JobQueueRetryRefused`);
* cancel and retry are not both requested, or only one request is made, since a retry that writes its
  status after a cancel took entries away would start what is left (`NoLateRetry`).

**`SettledJobsAreEmpty`: `Spec => []SettledIsEmpty`.** The settlement counts the entries of a job in three
statements (to do, pending, in error) and believes that they are of one moment. With the job locked its
entries only move forward, from to do to pending to error or out, in the order in which the counts are
taken, so that what one count did not see a later one does (`CountsHold`). The exception is
`ResetRows`, which moves an entry back: it needs a late or crashed holder and a second worker. The theorem
therefore assumes one worker (`OneWorker`) or that nobody is late or dies (`Calm`); without that it is
false, as the run `JobQueueSettleRace` shows. `SettleInv` adds that the entries of a settled job have no
holder who could bring them back (`NoOrphan`, `NoStrayEntry`, `SettledHolds`).

**`DoneJobsAreGenerated`: `Spec => []DoneMeansGenerated`** combines both: what is not in the queue of a done
job is in the cache.

**`QueueImplementsBoard`: `Spec => ImplementsBoard`**, the refinement of `JobBoard`, with the conditions of
`SettledJobsAreEmpty`, no `"cancel"` and one administrator (`OneAdmin`): two retries of one job write what
each read before. The mapping (`Shown`) is per job, so the proof has one lemma per kind of board step (submit, publish,
run, retry, acknowledge, commit, maintain) that says which steps of the queue show it and that the other
jobs stay as they are shown. `BoardInv` adds that the status that a retry read is still that of the job
(`RetriedIsError`) and that a job about to become an error has an entry in error (`ErrorCounted`).

### The pipeline

**`OnlyCompleteIsDeleted`: `Spec => []SuccessIsComplete`** for the pipeline, under any troubles. The
count says how many sub-tiles are not finished, but with failures it is wrong: the logger's failure
counts a sub-tile twice, and a failed `delete_one` takes it below 0. The inductive invariant
`CompleteInv` says in which direction: unless the meta tile has an error, the count is at least the
number of sub-tiles that are not cached or not counted (`CountFits`), and what is about to be counted
is cached (`CountedIsCached`). Every step that counts without caching sets the error, which is never
reset. When the count is 1 and a cached sub-tile counts itself, nothing else remains.

**`NoFailureIsSilent`: `Spec => []FailureIsCounted`** for the pipeline. A meta tile whose Run gives up
does not count its error (`TooManyError` leaves first), so that one must know that the consecutive
errors it met were counted (`ErrorsAreCounted`), and that a meta tile without error has no sub-tile left
that could fail (`Ordered`).

**`ATaskForgetsOne`: `Spec => []NothingForgotten`.** An entry is forgotten when its meta tile leaves while
it is still pending. `AllCounted` says that this needs an error: while no sub-tile failed, the count *is*
the number of sub-tiles not counted yet, so that the last of them acknowledged the entry. A meta tile
with an error is acknowledged by `Fail`, and only `GiveUp`, which ends the task, does not.

**`NothingIsStoredAfterAck`: `Spec => []QuietAfterAck`.** In daemon mode there is no
`TooManyError`, and without a database logger nothing fails after a sub-tile was counted, except the
`delete_one` that the count 0 started. So the count is at least the number of sub-tiles still to be
counted as long as one of them is still to be stored (`CountsDown`), and the acknowledgement at 0 finds
none. A logger that fails counts its sub-tile a second time, and the count is 0 too early.

**`PipelineTypeCorrect` and `PipelineImplementsWork`: `Spec => ImplementsWork`**, the refinement of
`MetaTileWork`, under any troubles. The mapping (`acksBar`) counts the acknowledgements; the invariant
behind it (`AckBound`) is that the sub-tiles acknowledge once, when the count comes to 0, and the Run of
the meta tile once, at its end. `TasksAreEnough` is that a task has one meta tile at most, so that the
number of tasks is never negative.

### The server

**Map cache** (in `ServerProofs`), for any number of servers, requests, tiles, attempts, crashes and
expiries, under `MapCacheAssumption` (types only). *`SpecLockIsKept`* is inductive with the types: without
`"slow"` the lock of a live request does not expire, and `Acquire` needs it free. *`SpecOneGeneration`*:
two requests that generate would both own it. *`SpecSuccessFillsCache`* needs `StoredSoFar`: what was looked
at in the loop is in Redis or made the answer an error, an answer from the cache is not a generated one,
and what is stored stays as long as nothing expired. *`SpecSplitterNotTwice`* needs `BuildsAlone`: who
builds is the one in the asyncio lock, and finds the functions as `Generate` made them; unless an
initialization failed half-way, a process without a generator has no splitter. *`SpecMadeOnce`* needs
`MadeWhenMissing`: who makes the meta tile owns the lock and found a tile missing under it, and nothing
is missing that was made, unless something expired since.

**Dated caches** (`DatedCachesProofs`). The properties compare what a task uses with what the file was
when the task began, so that the invariant `CurrentInv` dates everything on the way: what is kept
(`KeptIsDated`), and what a task has read and not yet kept (`ReadIsDated`: at least as new as the version
when it began; `RecentTask`: not replaced longer ago than the task is under way). A configuration is read
before its date, and a file written in between is kept under the wrong one: the theorems about
configurations and actions assume that this does not happen (`Undisturbed`: `"write_while_read"` is
not among the troubles). The hosts are dated before they are read, and `HostsStayCurrent` needs no such
condition. `ActionLagStaysBounded` counts the contents that were replaced a TTL ago (`ExpectedBound`).

**Stores** (`StoreCacheProofs`). A store is never older than the date it is kept with, whatever is edited
and however many tasks replace it together (`DatedInv`, `StoreStaysCurrent`). Two guarantees need a
condition, with an invariant each: nobody's store is closed if nothing is edited while one is in use
(`OpenInv`: what was made from the current content is open, what a task closes is of another); and no
store of an earlier content stays open if a task is alone (`AloneInv`: besides the store of the cache,
only the one just built is open).

**Legends** (`LegendCacheProofs`). An entry has the date its request began, which is before the file was
read. So what it has was in the file at its date (`EntryIsDated`), an entry less than a day old was
replaced less than a day ago (`ResultIsDated`), and a miss is right for as long. `LegendsStay` is about
a step: `Show` keeps the legend a layer has where its own result is none.

**`ServerProofs`** takes these to `Server`. Each part of it is an instance of its module, and of its proof
module (the lemmas named `Same` say that both instances are one); a step of the server is a step of
one part, which leaves the variables of the others. The stores are proved about twice, as they are
checked, for any number of tasks without an edit in use and for one task with any edit. The semaphores
of the hosts are proved about in place (`PermitsStayKept`). `UrlInv` says of every semaphore that its
holders are at most its limit, that nobody waits in line while it has a permit, and nobody twice
(`Kept`), and that holders and line are the tasks that use it (`UsersAreTasks`, `TaskHolds`); asyncio's
`acquire` and `release` keep that (`QueuedKeeps`, `PassOnKeeps`), and making another semaphore does
(`MakeKeeps`).

### The routes

`RouteProofs` is about any layers, grids, dimensions, zooms, geometries and requests. The invariant
`RouteInv` says that the tiles of the cache are at seeded zooms and that the last answer is what the routes
still give; it is inductive since nothing else of the routes changes while a request is being answered.
The work is in the lemmas about the operators, which a request goes through in one step.

**`AnswersStayRight`: `SharedSpec => []AnswersAreRight`.** The tile route hands the segments of the URL to
`serve` under the right names, with the dimensions added and nothing replaced (`TileIsServed`);
`_add_dimensions_to_params` lets only choices of the dimensions through (`BadDimensionsAreRefused`);
`serve` then answers with an error of the client or what `_get_tile` does (`ServeTile`), which at a zoom of
the grid is an error only if the store or the map cache fails, whichever the tile is got from
(`TileErrorIsAFailure`), and with `geoms_redirect` says that a tile is empty only when the zoom is seeded
and its meta tile or the next one meets the geometry (`EmptyIsInGeometry`). `SeededIsServed` compares two
computations of the zooms: the server goes through the resolutions and keeps the last one that is not
below `min_resolution_seed`, the generation takes all of these.

**`InterfacesAlwaysAgree`: `SharedSpec => []Routes!InterfacesAgree`.** The segments of a tile URL lie on both
sides of the dimensions, however many these are, and are read from both ends (`PartsAreJoined`,
`ThreeParts`, `TileUrlIs`), so that the parameters made of it are those of the KVP request (`TileUrlParams`,
`KvpHasDimensions`).

**`GeneratedStaysServed`: `SharedSpec => []GeneratedIsServed`** if matrices are identified by their zooms.
While store and map cache work, what the generation wrote is found under the key that the server makes of its URL (`StoredIsGot`). With
`matrix_identifier: resolution` it is not: `serve` reads the name of a matrix as a number of a zoom (the
"TODO" of `server.py:613` and `702`).

`ServerAssumption` is what the routes rely on. Zooms are places in the list of resolutions, which
decrease (no code sorts them), and are at most 999999 (`ZoomsAssumption`). `int()` reads what `str()` wrote, and the name of a
column with its extension is split at its last dot (`TokensAssumption`). By the patterns of `schema.json` no
name is empty (`NamesAssumption`). No code checks the rest: the extension of a layer is that of its MIME
type, no dimension has the name of another one or of a parameter of the request (`LayersAssumption`; the
pattern of `schema.json:360` excludes the parameters of a WMS only), and the files of the cache that are no
tiles are less than six levels deep and none at its root has the name of the capabilities
(`FilesAssumption`): the URL of such a file would be taken by another route.

### The commands

**Tile files.** *`TilesStayWhole`: `CommandsSpec => []TilesAreWhole`*, for any writers, readers, deletions,
failures and crashes. `FileInv` says that a file without its data has a writer that has it open, or that
somebody died (`EmptyIsWritten`), and that a reader who was not disturbed since it began finds no such
file (`FindsWhole`): that covers the file that a reader opened and another process deleted since.

**Legends.** *`LegendsStayCoherent`: `CommandsSpec => []LegendsAreCoherent`*, for any number of
resolutions and runs. A run compares an image with the one before only, and the files are those of
earlier runs until it writes its own. `ImageInv` says of the items of a run that their resolutions
increase and that each range ends where the next one begins (`Chained`); that the files of all but the
last one are written, and that the last item up to a resolution has what the server gave for it
(`RunFits`, `Covered`). `YamlFits` is what is left of an interrupted run: its images are there, and whole but for the first one
in a file, since a run has replaced legend.yaml by the time it empties a second image.

**Generation.** *`ExitStatusStaysRight` and `NothingElseIsMade`*, for any layers, grids, options and
failures. `GenInv` says which layers are still to do, with no numbers yet (`TodoFits`, `NumbersFit`); what
`options.zoom` has become, which is what the option was or less (`MadeFits`); that the errors of the layer
at work are in one of the counts (`ErrorsFit`), also when an error too many is not counted itself; how many meta tiles `--test` has still to take
(`TestFits`); and that what a command for one layer and one grid was asked for is made, is to be made, or
has failed (`DoneFits`). The condition `NoLayerTwice` is that no layer is twice among `default_layers`,
which the schema allows: the numbers of its two passes would not be told together, and what failed in
the first one is forgotten. The zooms of the grids follow each other by a recursive function;
`ZoomsFollow` shows that it has the values its equation says, by an induction stated for a set instead of
an operator (`NatSetInduction`).

**The pyramid.** *`GeometryStaysQueued`: `CommandsSpec => []GeometryIsQueued`*, for any grid, sizes, buffers,
layers, boxes of a command and rectangles within `PyramidAssumption`, each once for each place of the list
of zooms. The proof has two halves. The first is about the
generator: `ColumnsOf` are the columns of the ranges of a row, `Awaited` the meta tiles whose zoom, row or
range is still to come, and `PyramidInv` says that a meta tile of these columns is put if and only if it is
not awaited, once, and that the intervals of the row at work are apart and in order (`AreApart`, `Begin`).
This needs what merging ranges in order keeps (`MergedIs`): no column is lost and none is there twice,
which is why a range that begins where an interval ends has to be merged with it. The second half is about
the geometry: a meta tile that has an area in common with the buffered rectangles is in a range of its
row (`SharedIsRanged`), and what is in a range touches them, so that the filter keeps it
(`RangedIsFiltered`) and a local generation goes through it (`RangedIsLocal`). Below both are lemmas about
divisions, `FloorIs`, `CeilIs` and `IndexRangeIs`: which tiles lie between two distances, and that
clamping takes nothing away from a range that has a part in the grid.

**The limits.** *`LimitsStayRight`: `CommandsSpec => []LimitsAgree`*, from the same invariant. A tile that
shares an area with the layer in the grid is between the limits (`SharedIsAdvertised`); a tile between
them meets the layer, so that its meta tile does (`AdvertisedMeets`, `MetaTileMeets`) and is put
(`MeetingIsShared`).

**The scales.** *`ScalesStayLeast` and `ScalesStayExact`*, for any grids and resolutions. `CheckInv` says of the
denominator at work that the factors found are primes and make it with what is left, which nothing
smaller than the factor tried divides (`FactorsFit`); of the denominators before, that each divides the
product of the greatest powers found, and that each of these powers is in one of them (`PrimesFit`). The
factor tried is a prime when it divides (`FoundIsPrime`), because a smaller divisor of it would divide what
is left. The product of powers of different primes divides every number that all the powers divide
(`ProductIsLeast`, from `CoprimeDivides`, the lemma of Euclid), so that the scale is the least common
multiple of the denominators; and as the fractions are reduced, it is the least number that makes the
resolutions integers (`ExactIs`). The products are recursive functions, again with `NatSetInduction`. That a
given scale is right is proved on the condition `FloatsDecide`, that the floats accept none that is
wrong. It holds of the grids of `MCCommands` (TLC evaluates it there, as `FloatsAreExact`) and not of all:
a resolution of 0.3333333333333333 times 3 is 1.0 as a float, and no integer.

### What is only model-checked

* Liveness, out of this prover's reach.
* `RetryKeepsGenerated`, which the code breaks (`JobQueueAckTwice`): no theorem gives conditions under which it
  holds.

Every safety invariant and every step property that a passing run checks is stated by a theorem.

The theorems about the queue leave out the behaviours in which their property is false (a creation of a
queue that is too slow or fails half-way, a retry that writes late); the runs that expect a violation
show some of them. Those about the caches leave out a write between a read and its date, an edit under
a store in use, and tasks that replace a store together, for the same reason: what happens then is under
*Seen* above.

## Not modelled

* Of the queue: `get_status` and its estimates (read-only), the error path of `list()` (a local variable
  used before it is bound), the buffer of inserts (a list of one process; a failure of its flush puts
  the rows back, which only matters if the process goes on). No property is asked about a queue creation
  that is restarted while it still runs, nor about two jobs of one configuration that are claimed together.
* Of the pipeline: the debug mode, the roles `local` and `hash` inside a meta tile, layers without meta
  tiles, post-processing commands, the local process filter, the error file, the columns of the
  database logger.
* Of the stores: input and output proper, the Mapnik store, the timed store.
* Of the server: the admin pages, the text of the capabilities other than legends and limits, the
  authentication.
* Reprojection, and polygons other than unions of rectangles (the geometry libraries').
* Of the command: `--debug`, `--get-hash`, `--get-bbox` beyond its checks, SQS and Redis queues (external).
* The generated documents of the controller other than the legends, the settings and the schema
  (declarations), and the copy, expire and cost tools, which run one sequential list of tiles without
  state of their own.

## What is left

In the order of importance:

1. The buffer of inserts together with a failing `flush` (`postgresql.py:359-384`).
2. The process filter and the estimate of the remaining time, as functions.
