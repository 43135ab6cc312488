---------------------------- MODULE GenerateCommand ----------------------------
(***************************************************************************)
(* One generate-tiles command (tilecloud_chain/generate.py, async_main and *)
(* Generate; tilecloud_chain/__init__.py, init_tilecoords and consume):    *)
(* what it accepts, the layers it takes one after the other with one       *)
(* TileGeneration, the zooms it resolves for each of their grids, the      *)
(* numbers it tells for each layer, and its exit status.                   *)
(*                                                                         *)
(* There is one meta tile per grid and zoom, and its tiles are counted,    *)
(* not named: MetatilePipeline is about what happens inside.  A zoom is    *)
(* named once by --zoom: SparsePyramid has the list and what it does.      *)
(***************************************************************************)
EXTENDS Integers, Sequences, FiniteSets

CONSTANTS
  Layers,     \* the default layers, in their order
  GridsOf,    \* the grids of each layer of the configuration, in their order
  LastZoom,   \* of each grid
  SeedZoom,   \* of each layer: the zoom of min_resolution_seed, or NoSeed
  SubTiles,   \* number of tiles of a meta tile
  FileTiles,  \* the meta tiles of the file of --tiles
  Commands,   \* the command lines
  Outcomes    \* what the tiles of a meta tile may come to

NoSeed == -1
NoZoom == {-1}
None == "none"
All == "all layers"

LayerSet == DOMAIN GridsOf

\* The layers that are named, by the configuration or by a command, be they there or not.
NameSet ==
  LayerSet \cup {Layers[i] : i \in DOMAIN Layers} \cup ({c.layer : c \in Commands} \ {None})

GridSet == DOMAIN LastZoom
Grids(l) == {GridsOf[l][i] : i \in DOMAIN GridsOf[l]}

\* The layers and the grids of the configuration, command lines, and outcomes of all the
\* tiles of a meta tile.
CommandAssumption ==
  /\ SubTiles \in Nat \ {0}
  /\ Layers \in Seq(NameSet) /\ None \notin NameSet /\ All \notin NameSet
  /\ \A l \in LayerSet : GridsOf[l] \in Seq(GridSet) /\ SeedZoom[l] \in Nat \cup {NoSeed}
  /\ None \notin GridSet /\ \A g \in GridSet : LastZoom[g] \in Nat
  /\ \A c \in Commands :
       /\ c.role \in {"local", "master"} /\ c.test \in Nat /\ c.time \in Nat
       /\ c.grid \in GridSet \cup {None}
       /\ c.zoom \in (SUBSET Nat) \cup {NoZoom}
       /\ {c.config, c.tiles, c.tile, c.bbox, c.jobId, c.jobTitle} \subseteq BOOLEAN
  /\ Outcomes \subseteq [stored : Nat, dropped : Nat, bad : Nat, badPut : Nat]
  /\ \A o \in Outcomes : o.stored + o.dropped + o.bad + o.badPut = SubTiles

VARIABLES
  command,    \* the options
  role,       \* options.role
  zoom,       \* options.zoom
  pc,         \* "parse", "next", "work" or "end"
  todo,       \* the layers still to do
  stream,     \* the meta tiles of the layer still to do
  left,       \* how many of them with --test or --time, or -1
  count,      \* the counters of the layer
  runError,   \* errors of the Run of the meta tiles, a new one for each layer
  tileError,  \* errors of the Run of the tiles, one for the command
  error,      \* gene.error
  exit,       \* the exit status, or -1
  told,       \* the numbers told for each layer
  made,       \* meta tiles all of whose tiles are stored or empty (history)
  real        \* what happened to the tiles of each layer (history)

options == <<command, role, zoom>>
errors == <<runError, tileError, error>>
vars == <<options, pc, todo, stream, left, count, errors, exit, told, made, real>>

Zero == [meta |-> 0, tiles |-> 0, dropped |-> 0, stored |-> 0, errors |-> 0]
Counts == [meta : Nat, tiles : Nat, dropped : Nat, stored : Nat, errors : Nat]
MetaTiles ==
  FileTiles \cup
    UNION {UNION {{<<l, g, z>> : z \in 0 .. LastZoom[g]} : g \in GridSet} : l \in LayerSet}

TypeOK ==
  /\ command \in Commands /\ role \in {"local", "master", "slave"}
  /\ pc \in {"parse", "next", "work", "end"}
  /\ left \in Nat \cup {-1}
  /\ count \in Counts
  /\ runError \in Nat /\ tileError \in Nat /\ error \in Nat
  /\ exit \in {-1, 0, 1} /\ (exit = -1 <=> pc # "end")
  /\ made \cup stream \subseteq MetaTiles
  /\ real \in [NameSet \cup {All} -> Counts] /\ told \in [NameSet \cup {All} -> Counts]

Init ==
  /\ command \in Commands /\ role = command.role /\ zoom = command.zoom
  /\ pc = "parse" /\ todo = <<>> /\ stream = {} /\ left = -1
  /\ count = Zero /\ runError = 0 /\ tileError = 0 /\ error = 0
  /\ exit = -1
  /\ told = [l \in NameSet \cup {All} |-> Zero]
  /\ made = {}
  /\ real = [l \in NameSet \cup {All} |-> Zero]

Exit(code) == pc' = "end" /\ exit' = code

-----------------------------------------------------------------------------
(* The command line.                                                       *)

\* The options that exclude each other.
Refused(c) ==
  \/ c.jobId /\ c.jobTitle
  \/ c.tiles /\ c.tile
  \/ c.tile /\ c.layer = None
  \/ c.bbox /\ c.layer = None /\ ~c.tiles

\* The layers one after the other: none, without a layer and a configuration file.
LayersOf(c) ==
  IF c.tiles THEN <<All>>
  ELSE IF c.layer # None THEN <<c.layer>>
  ELSE IF c.config THEN Layers
  ELSE <<>>

\* With --tiles the role becomes slave, once the options are checked.
Parse ==
  /\ pc = "parse"
  /\ IF Refused(command) THEN Exit(1) /\ UNCHANGED <<role, todo>>
     ELSE /\ role' = IF command.tiles THEN "slave" ELSE role
          /\ todo' = LayersOf(command)
          /\ pc' = "next"
          /\ UNCHANGED exit
  /\ UNCHANGED <<command, zoom, stream, left, count, errors, told, made, real>>

\* No layer is left: the exit status is of gene.error.
Finish ==
  /\ pc = "next" /\ todo = <<>>
  /\ Exit(IF error # 0 THEN 1 ELSE 0)
  /\ UNCHANGED <<options, todo, stream, left, count, errors, told, made, real>>

-----------------------------------------------------------------------------
(* The zooms of a grid.                                                    *)

\* --time takes one zoom when none is given: that of min_resolution_seed, or the last.
TimeZoom(l, g, z) ==
  IF command.time = 0 \/ z # NoZoom THEN z
  ELSE IF SeedZoom[l] # NoSeed THEN {SeedZoom[l]} ELSE {LastZoom[g]}

\* The zooms beyond the grid are left out.
InGrid(g, z) == IF z = NoZoom THEN z ELSE {n \in z : n <= LastZoom[g]}

\* A plausible error: the zoom of min_resolution_seed is left out.
AboveSeed(l, z) == IF SeedZoom[l] = NoSeed THEN z ELSE {n \in z : n < SeedZoom[l]}

\* A plausible error: the zooms finer than min_resolution_seed are not left out.
BeyondSeed(l, z) == z

\* So are those finer than min_resolution_seed.
ToSeed(l, z) == IF SeedZoom[l] = NoSeed THEN z ELSE {n \in z : n <= SeedZoom[l]}

\* Without a zoom, they are all those of the grid.
ResolveZooms(l, g, z) ==
  LET some == InGrid(g, TimeZoom(l, g, z))
  IN ToSeed(l, IF some = NoZoom THEN 0 .. LastZoom[g] ELSE some)

\* The grids of a layer, or the one of --grid; none when the layer has not that one.
GridsFor(l) ==
  IF command.grid = None THEN GridsOf[l]
  ELSE IF command.grid \in Grids(l) THEN <<command.grid>> ELSE <<>>

\* options.zoom once the first i grids of the layer are resolved: what it is for a
\* grid is what the next one begins with.
ZoomsAfter(l) ==
  LET after[i \in 0 .. Len(GridsFor(l))] ==
        IF i = 0 THEN zoom ELSE ResolveZooms(l, GridsFor(l)[i], after[i - 1])
  IN after

-----------------------------------------------------------------------------
(* A layer.                                                                *)

\* How many meta tiles --test or --time takes.
Taken ==
  IF command.time > 0 THEN 3 * command.time ELSE IF command.test > 0 THEN command.test ELSE -1

\* The counters of a layer begin.
Fresh == Zero

BeginWork(tiles) ==
  /\ stream' = tiles
  /\ left' = Taken
  /\ pc' = "work"
  /\ UNCHANGED exit

\* For one tile the grid is that of --grid, be it of the layer or not, or the only one of
\* the layer.
OneGrid(l) == command.grid # None \/ Len(GridsOf[l]) = 1
TheGrid(l) == IF command.grid # None THEN command.grid ELSE GridsOf[l][1]

\* The places of a list of grids: a grid that is there twice has what its last place gave.
LastOnes(grids) ==
  {i \in DOMAIN grids : \A j \in DOMAIN grids : grids[j] = grids[i] => j <= i}

BeginLayer ==
  /\ pc = "next" /\ todo # <<>>
  /\ count' = Fresh
  /\ error' = 0 /\ runError' = 0
  /\ LET l == Head(todo) IN
     \/ l = All /\ BeginWork(FileTiles) /\ UNCHANGED zoom
     \/ l \notin LayerSet \cup {All} /\ Exit(1) /\ UNCHANGED <<zoom, stream, left>>
     \/ /\ l \in LayerSet /\ (command.bbox \/ command.tile)
        /\ IF ~OneGrid(l) THEN Exit(1) /\ UNCHANGED <<stream, left>>
           ELSE IF command.bbox THEN Exit(0) /\ UNCHANGED <<stream, left>>
           ELSE BeginWork({<<l, TheGrid(l), 0>>})
        /\ UNCHANGED zoom
     \/ /\ l \in LayerSet /\ ~command.bbox /\ ~command.tile
        /\ LET grids == GridsFor(l)
               zooms == ZoomsAfter(l)
           IN IF command.grid # None /\ grids = <<>>
              THEN Exit(1) /\ UNCHANGED <<zoom, stream, left>>
              ELSE /\ zoom' = zooms[Len(grids)]
                   /\ BeginWork(UNION {{<<l, grids[i], z>> : z \in zooms[i]} :
                                         i \in LastOnes(grids)})
  /\ UNCHANGED <<command, role, todo, tileError, told, made, real>>

Layer == Head(todo)

More(c, o) ==
  [c EXCEPT !.tiles = @ + SubTiles, !.dropped = @ + o.dropped,
            !.stored = @ + o.stored + o.badPut]

\* A meta tile goes through: a tile is counted as stored before it is put.  The Run
\* of the tiles adds all its errors to gene.error, those of other meta tiles too.
Generate(m, o) ==
  /\ role # "master"
  /\ count' = [More(count, o) EXCEPT !.meta = @ + 1]
  /\ tileError' = tileError + o.bad + o.badPut
  /\ error' = error + tileError'
  /\ made' = IF o.bad + o.badPut = 0 THEN made \cup {m} ELSE made
  /\ real' = [real EXCEPT ![Layer] =
                [meta |-> @.meta + 1, tiles |-> @.tiles + SubTiles, dropped |-> @.dropped + o.dropped,
                 stored |-> @.stored + o.stored, errors |-> @.errors + o.bad + o.badPut]]
  /\ UNCHANGED runError

\* A master puts the meta tile in the queue.
Queue(m) ==
  /\ role = "master"
  /\ count' = [count EXCEPT !.tiles = @ + 1]
  /\ made' = made \cup {m}
  /\ real' = [real EXCEPT ![Layer].meta = @ + 1, ![Layer].tiles = @ + 1]
  /\ UNCHANGED errors

\* The hash of the meta tile says that it is empty: its tiles are not made.
DropMeta(m) ==
  /\ role # "master"
  /\ count' = [count EXCEPT !.meta = @ + 1]
  /\ made' = made \cup {m}
  /\ real' = [real EXCEPT ![Layer].meta = @ + 1]
  /\ UNCHANGED errors

\* The meta tile cannot be had, or queued.
MetaFails ==
  /\ count' = IF role = "master" THEN count ELSE [count EXCEPT !.meta = @ + 1]
  /\ real' = [real EXCEPT ![Layer].meta = @ + 1, ![Layer].errors = @ + 1]
  /\ UNCHANGED <<tileError, error, made>>

FailMeta == MetaFails /\ runError' = runError + 1

DoMetaTile ==
  /\ pc = "work" /\ left # 0
  /\ \E m \in stream :
       /\ stream' = stream \ {m}
       /\ (\E o \in Outcomes : Generate(m, o)) \/ Queue(m) \/ DropMeta(m) \/ FailMeta
  /\ left' = IF left = -1 THEN -1 ELSE left - 1
  /\ UNCHANGED <<options, pc, todo, exit, told>>

\* One error too many is raised before it is counted: it ends the task, and the last task
\* that ends leaves the rest of the layer.  With --test or --time it ends the command.
\* Errors were counted before it: the limit of consecutive errors is at least one.
GiveUp ==
  /\ pc = "work" /\ left # 0 /\ runError > 0 /\ stream # {}
  /\ \/ left = -1 /\ stream' \in {stream \ {m} : m \in stream} \cup {{}} /\ UNCHANGED <<pc, exit>>
     \/ left # -1 /\ Exit(1) /\ UNCHANGED stream
  /\ MetaFails
  /\ UNCHANGED <<options, todo, left, runError, told>>

\* With --test or --time, there are not enough meta tiles.
TooFew ==
  /\ pc = "work" /\ left > 0 /\ stream = {}
  /\ Exit(1)
  /\ UNCHANGED <<options, todo, stream, left, count, errors, told, made, real>>

WithRun(e) == e + runError

\* The errors told are those of gene.error, which takes those of the Run.
EndLayer ==
  /\ pc = "work" /\ (left = 0 \/ (left = -1 /\ stream = {}))
  /\ error' = WithRun(error)
  /\ told' = IF command.time > 0 THEN told
             ELSE [told EXCEPT ![Layer] = [count EXCEPT !.errors = error']]
  /\ todo' = Tail(todo)
  /\ pc' = "next"
  /\ UNCHANGED <<options, stream, left, count, runError, tileError, exit, made, real>>

Next == Parse \/ Finish \/ BeginLayer \/ DoMetaTile \/ GiveUp \/ TooFew \/ EndLayer

Spec == Init /\ [][Next]_vars

-----------------------------------------------------------------------------
Ordinary == ~command.bbox /\ ~command.tile /\ ~command.tiles /\ command.test = 0 /\ command.time = 0

\* The zooms of a grid that the command and the layer ask for.
Wanted(l, g) ==
  {z \in 0 .. LastZoom[g] :
     /\ command.zoom # NoZoom => z \in command.zoom
     /\ SeedZoom[l] # NoSeed => z <= SeedZoom[l]}

\* A command for one layer and one grid that exits with 0 made every meta tile it was
\* asked for.
ExitZeroIsDone ==
  (exit = 0 /\ Ordinary /\ command.layer # None /\ Len(GridsFor(command.layer)) = 1) =>
    LET l == command.layer
        g == GridsFor(l)[1]
    IN {<<l, g, z>> : z \in Wanted(l, g)} \subseteq made

\* No option makes it generate anything else.
NothingElse ==
  \A m \in made :
    \/ m \in FileTiles /\ command.tiles
    \/ command.tile
    \/ m[3] \in Wanted(m[1], m[2])

\* A failure in the last layer of the command makes the exit status 1: those of the
\* layers before it are forgotten when it begins.
ErrorsExitOne ==
  (exit = 0 /\ LayersOf(command) # <<>>)
    => real[LayersOf(command)[Len(LayersOf(command))]].errors = 0

Told == {l \in NameSet \cup {All} : told[l].tiles > 0}

\* What is told of a layer is of that layer: its meta tiles, its tiles, those that
\* were dropped, and no fewer stored than were.
NumbersAreOfTheLayer ==
  \A l \in Told :
    /\ told[l].tiles = real[l].tiles /\ told[l].dropped = real[l].dropped
    /\ told[l].stored >= real[l].stored
    /\ role # "master" => told[l].meta = real[l].meta

\* --test=n takes n meta tiles of each layer, or exits with 1.
TestTakesAll ==
  \A l \in NameSet :
    (exit = 0 /\ command.test > 0 /\ command.time = 0 /\ real[l].meta > 0)
      => real[l].meta = command.test
===============================================================================
