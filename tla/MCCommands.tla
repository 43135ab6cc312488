------------------------------ MODULE MCCommands ------------------------------
(***************************************************************************)
(* What the commands do by themselves, for TLC.  The parts share no        *)
(* variable: active says which one moves.                                  *)
(*                                                                         *)
(* The command: two layers, the second one with two grids, two tiles in a  *)
(* meta tile, and a command line for each way to say what to generate.     *)
(* The pyramid: a grid of six by five that meta tiles divide at one of two *)
(* zooms and in one direction, the first zoom twice in the list of zooms,  *)
(* boxes that the command asks for, and every pair of rectangles (and every*)
(* bbox of a layer) whose sides end on, before and after the borders of a  *)
(* tile, of a meta tile and of the grid.                                   *)
(*                                                                         *)
(* The check: one grid of two resolutions, of denominators up to 18, two   *)
(* grids, and floats of 8 bits.  The legends: three resolutions, two       *)
(* layers of the WMS server, one image, each cache and two runs that may   *)
(* be interrupted.  The files: two writers and two readers.                *)
(***************************************************************************)
EXTENDS Commands, TLC

CONSTANTS w1, w2, r1, r2  \* processes that write and read a tile

VARIABLE active

vars == <<active, commandsVars>>

-----------------------------------------------------------------------------
(* The command lines.                                                      *)

Plain ==
  [role |-> "local", config |-> TRUE, layer |-> "none", grid |-> "none", zoom |-> {-1},
   test |-> 0, time |-> 0, tiles |-> FALSE, tile |-> FALSE, bbox |-> FALSE, jobId |-> FALSE,
   jobTitle |-> FALSE]

McCommands ==
  {[Plain EXCEPT !.role = r, !.layer = l, !.zoom = z] :
     r \in {"local", "master"}, l \in {"none", "a"}, z \in {{-1}, {0}, {1, 3}}}
  \cup {[Plain EXCEPT !.layer = l, !.grid = g] : l \in {"none", "a", "b"}, g \in {"g", "h"}}
  \cup {[Plain EXCEPT !.layer = l, !.test = n, !.time = t] :
          l \in {"none", "a"}, n \in 0 .. 2, t \in 0 .. 1}
  \cup {[Plain EXCEPT !.tiles = f, !.tile = t, !.bbox = b, !.layer = l, !.grid = g] :
          f, t, b \in BOOLEAN, l \in {"none", "a"}, g \in {"none", "h"}}
  \cup {[Plain EXCEPT !.jobId = TRUE, !.jobTitle = TRUE], [Plain EXCEPT !.config = FALSE],
        [Plain EXCEPT !.layer = "not there"]}

Tiles(s, d, b, p) == [stored |-> s, dropped |-> d, bad |-> b, badPut |-> p]

McLayers == <<"a", "b">>
McGrids == [a |-> <<"g">>, b |-> <<"g", "h">>]
McLastZoom == [g |-> 2, h |-> 3]
McSeedZoom == [a |-> 1, b |-> 0]
McFileTiles == {<<"a", "g", 0>>}
McOutcomes == {Tiles(2, 0, 0, 0), Tiles(1, 1, 0, 0), Tiles(1, 0, 1, 0), Tiles(0, 0, 1, 1)}

-----------------------------------------------------------------------------
(* The rectangles.                                                         *)

SixByFive == [bbox |-> <<0, 5, 6, 0>>, resolutions |-> <<2, 1, 2>>, size |-> 1]
Columns == {<<-1, 0>>, <<0, 2>>, <<2, 3>>, <<3, 3>>, <<1, 6>>, <<6, 7>>}
Lines == {<<-1, 0>>, <<0, 2>>, <<2, 3>>, <<3, 3>>, <<1, 5>>, <<5, 6>>}
Rects == {<<a[1], b[1], a[2], b[2]>> : a \in Columns, b \in Lines}
Source(r) == [rects |-> r, from |-> 0, to |-> 9]
Pairs == {<<Source({a, b})>> : a, b \in Rects}
OneEach ==
  {<<Source({a}), [Source({b}) EXCEPT !.from = f, !.to = t]>> :
     a, b \in {<<0, 0, 2, 1>>, <<2, 2, 3, 5>>, <<1, -1, 5, 0>>}, f \in 0 .. 2, t \in 1 .. 3}
BoxSides == {<<-2, -1>>, <<-1, 0>>, <<0, 2>>, <<1, 2>>, <<2, 3>>, <<1, 5>>, <<5, 6>>, <<6, 7>>}

SeedLayer(b, m, s) == [bbox |-> b, asked |-> <<>>, pxBuffer |-> m, sources |-> s]
AskedFor(l, b) == [l EXCEPT !.asked = b]
Boxes == {<<x[1], y[2], x[2], y[1]>> : x, y \in BoxSides}

McSeedLayers ==
  {SeedLayer(b, m, s) : b \in {<<>>, <<-2, 7, 8, -2>>}, m \in 0 .. 1, s \in Pairs \cup OneEach}
  \cup {SeedLayer(b, m, <<>>) :
          b \in {<<>>} \cup Boxes, m \in 0 .. 2}
  \cup {AskedFor(SeedLayer(<<2, 4, 5, 0>>, m, s), b) :
          b \in {<<-1, 5, 3, 2>>, <<2, 3, 7, -2>>, <<5, 6, 7, 1>>}, m \in 0 .. 1, s \in OneEach}

-----------------------------------------------------------------------------
(* The configurations.                                                     *)

Decimals == {<<1, 1>>, <<5, 2>>, <<3, 4>>, <<1, 5>>, <<7, 10>>, <<3, 10>>, <<9, 20>>, <<3, 8>>,
             <<1, 16>>, <<3, 25>>}
OneGrid(r, s) == [resolutions |-> r, scale |-> s]
ConfigFiles ==
  {<<OneGrid(<<a, b>>, 0)>> : a, b \in Decimals}
  \cup {<<OneGrid(<<a>>, s)>> : a \in Decimals, s \in {1, 2, 4, 5, 10, 20, 25}}
  \cup {<<OneGrid(<<a>>, s), OneGrid(<<b, c>>, 0)>> :
          a \in {<<5, 2>>, <<1, 5>>}, s \in {0, 2}, b, c \in {<<3, 4>>, <<9, 20>>, <<7, 10>>}}

ASSUME FloatsAreExact == Check!FloatsDecide

-----------------------------------------------------------------------------
\* The parts that do not move are in one of their initial states.
Init ==
  /\ active \in {"command", "pyramid", "check", "legends", "files"}
  /\ active = "command" \/ (active # "command" /\ command = Plain)
  /\ Generation!Init
  /\ active = "pyramid" \/ (active # "pyramid" /\ layer = SeedLayer(<<>>, 0, <<>>))
  /\ Pyramid!Init
  /\ active = "check"
     \/ (active # "check" /\ config = <<OneGrid(<<<<1, 1>>>>, 1)>>
         /\ schemaErrors = FALSE /\ mapnikGrid = FALSE /\ ignore = FALSE)
  /\ Check!Init
  /\ active = "legends" \/ (active # "legends" /\ legendCache = "azure")
  /\ Controller!Init
  /\ active = "files" \/ (active # "files" /\ kind = "azure")
  /\ OneTile!Init

Next ==
  /\ UNCHANGED active
  /\ \/ active = "command" /\ GenerationStep
     \/ active = "legends" /\ ControllerStep
     \/ active = "files" /\ TileStep
     \/ active = "pyramid" /\ PyramidStep
     \/ active = "check" /\ CheckStep

Spec == Init /\ [][Next]_vars
===============================================================================
