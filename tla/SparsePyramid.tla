----------------------------- MODULE SparsePyramid -----------------------------
(***************************************************************************)
(* The meta tiles a master puts in the queue (tilecloud_chain/__init__.py, *)
(* get_geoms, SparseMetaTileBoundingPyramid and IntersectGeometryFilter):  *)
(* a lazy generator that goes through the zooms, the rows of meta tiles of *)
(* a zoom and the intervals of a row, and a filter that looks again        *)
(* whether the meta tile meets the geometry.  Beside it, what a local      *)
(* generation goes through instead (_get_default_grid_tilecoords), and the *)
(* limits of the tile matrices that the capabilities tell.                 *)
(*                                                                         *)
(* A zoom is a place in the list of the zooms of the command: --zoom=1,1   *)
(* has two places, and the meta tiles of the zoom are put once for each.   *)
(*                                                                         *)
(* Coordinates are integers of the grid: what a library (transform_bbox)   *)
(* makes of a box that is in another projection is what the box is here.   *)
(* A geometry is a set of rectangles; when two of them meet, the library   *)
(* makes one polygon of them, and the intervals of a row are the same,     *)
(* once merged.                                                            *)
(***************************************************************************)
EXTENDS Integers, Sequences, FiniteSetsExt

CONSTANTS
  Grid,        \* [bbox, resolutions, size], the resolutions of the zooms of the list, in
               \* its order, and the size of a tile
  MetaSize,
  MetaBuffer,  \* meta_buffer of the layer
  SeedLayers   \* the layers: [bbox, asked, pxBuffer, sources], the bbox with its corners in
               \* any order, the box of --bbox or the one around --near, or NoBox, and the
               \* geometry sources [rects, from, to]

NoBox == <<>>

VARIABLES
  layer,      \* the layer
  zooms,      \* the places of the list that are left
  zoom,       \* the zoom the generator is in, or 0
  rows,       \* the rows left of that zoom
  row,        \* the row the generator is in
  ranges,     \* the ranges of columns of the row that are not merged yet
  intervals,  \* the intervals of columns left of the row
  out,        \* the meta tiles the generator gave
  queue       \* those the filter let through, in order

vars == <<layer, zooms, zoom, rows, row, ranges, intervals, out, queue>>

Zooms == DOMAIN Grid.resolutions

-----------------------------------------------------------------------------
(* Boxes and the geometry of each zoom.                                    *)

Corners == Int \X Int \X Int \X Int
IsBox(b) == b \in Corners /\ b[1] <= b[3] /\ b[2] <= b[4]

\* The corners in order: <<min x, min y, max x, max y>>.
NormalizeBox(b) ==
  <<Min({b[1], b[3]}), Min({b[2], b[4]}), Max({b[1], b[3]}), Max({b[2], b[4]})>>

GridBox == NormalizeBox(Grid.bbox)

\* What two boxes have in common: a box, a line or a point, or nothing.
Meet(a, b) ==
  LET c == <<Max({a[1], b[1]}), Max({a[2], b[2]}), Min({a[3], b[3]}), Min({a[4], b[4]})>>
  IN IF c[1] <= c[3] /\ c[2] <= c[4] THEN {c} ELSE {}

HasArea(b) == b[1] < b[3] /\ b[2] < b[4]

\* A grid has an area (the code does not check it), and the sides of a rectangle are in order.
PyramidAssumption ==
  /\ Grid.bbox \in Corners /\ HasArea(GridBox)
  /\ Grid.size \in Nat \ {0} /\ Grid.resolutions \in Seq(Nat \ {0})
  /\ MetaSize \in Nat \ {0} /\ MetaBuffer \in Nat
  /\ \A l \in SeedLayers :
       /\ {l.bbox, l.asked} \subseteq Corners \cup {NoBox} /\ l.pxBuffer \in Nat
       /\ l.sources \in Seq([rects : SUBSET Corners, from : Int, to : Int])
       /\ \A k \in DOMAIN l.sources : \A r \in l.sources[k].rects : IsBox(r)

\* The box the command asks for, or the layer's, or the grid's.
Extent(l) ==
  NormalizeBox(IF l.asked # NoBox THEN l.asked ELSE IF l.bbox # NoBox THEN l.bbox ELSE Grid.bbox)

InExtent(l, s) == UNION {Meet(r, Extent(l)) : r \in s.rects}

\* The sources that are for the resolution of a zoom.
SourcesFor(l, z) ==
  {k \in DOMAIN l.sources :
     l.sources[k].from <= Grid.resolutions[z] /\ Grid.resolutions[z] <= l.sources[k].to}

\* The geometry of a zoom: of the last source that is for its resolution, or the extent.
GetGeoms(l, z) ==
  IF SourcesFor(l, z) = {} THEN {Extent(l)} ELSE InExtent(l, l.sources[Max(SourcesFor(l, z))])

Floor(a, b) == a \div b
Ceil(a, b) == -((-a) \div b)

TileSpan(z) == Grid.size * Grid.resolutions[z]
MetaSpan(z) == MetaSize * TileSpan(z)
Buffer(l, z) == l.pxBuffer * Grid.resolutions[z]

\* The number of columns, and of rows, of a matrix of the zoom.
Width(span) == Ceil(GridBox[3] - GridBox[1], span)
Height(span) == Ceil(GridBox[4] - GridBox[2], span)

-----------------------------------------------------------------------------
(* The sparse pyramid.                                                     *)

Clamp(n, last) == Max({0, Min({last, n})})

\* The indices of the tiles between two distances from the origin.
IndexRange(low, high, span, last) ==
  LET first == Clamp(Floor(low, span), last)
      end == Clamp(Ceil(high, span) - 1, last)
  IN IF first > end THEN <<>> ELSE <<first, end>>

\* A buffer of one segment for each corner cuts it: b2 - b1 is the band of a row, d
\* how far it is from the rectangle.  The band is cut at the borders of the grid too.
BandPiece(r, m, b1, b2) ==
  LET d == Max({0, b1 - r[4], r[2] - b2})
      low == Max({GridBox[1], r[1] - (m - d)})
      high == Min({GridBox[3], r[3] + (m - d)})
  IN IF d <= m /\ low <= high THEN {<<low, high>>} ELSE {}

BandTop(z, n) == GridBox[4] - n * MetaSpan(z)

RowPieces(l, z, n) ==
  UNION {BandPiece(r, Buffer(l, z), BandTop(z, n + 1), BandTop(z, n)) : r \in GetGeoms(l, z)}

RowRanges(l, z, n) ==
  {IndexRange(p[1] - GridBox[1], p[2] - GridBox[1], MetaSpan(z), Width(MetaSpan(z)) - 1)
     : p \in RowPieces(l, z, n)} \ {<<>>}

\* A plausible error: a range that begins where the last interval ends is another one.
MergedApart(merged, r) ==
  IF merged # <<>> /\ r[1] < merged[Len(merged)][2]
  THEN [merged EXCEPT ![Len(merged)] = <<@[1], Max({@[2], r[2]})>>]
  ELSE Append(merged, r)

\* A range that overlaps or follows the last interval makes it longer.
Merged(merged, r) ==
  IF merged # <<>> /\ r[1] <= merged[Len(merged)][2] + 1
  THEN [merged EXCEPT ![Len(merged)] = <<@[1], Max({@[2], r[2]})>>]
  ELSE Append(merged, r)

\* The order in which the ranges are merged.
Before(a, b) == a[1] < b[1] \/ (a[1] = b[1] /\ a[2] <= b[2])

\* The rows of a zoom whose geometry is not empty.
RowRange(l, z) ==
  LET m == Buffer(l, z)
      low == Min({r[2] : r \in GetGeoms(l, z)}) - m
      high == Max({r[4] : r \in GetGeoms(l, z)}) + m
  IN IF GetGeoms(l, z) = {} THEN <<>>
     ELSE IndexRange(GridBox[4] - high, GridBox[4] - low, MetaSpan(z), Height(MetaSpan(z)) - 1)

Indices(range) == IF range = <<>> THEN {} ELSE range[1] .. range[2]

MetaTile(z, i, j) == [z |-> z, x |-> i * MetaSize, y |-> j * MetaSize]

-----------------------------------------------------------------------------
(* The filter.                                                             *)

\* The bounds of n by n tiles, with a border.
TileBox(z, i, j, n, border) ==
  <<GridBox[1] + i * TileSpan(z) - border, GridBox[4] - (j + n) * TileSpan(z) - border,
    GridBox[1] + (i + n) * TileSpan(z) + border, GridBox[4] - j * TileSpan(z) + border>>

\* They touch, or have more in common.
Intersects(a, b) == a[1] <= b[3] /\ b[1] <= a[3] /\ a[2] <= b[4] /\ b[2] <= a[4]

FilterTilecoord(l, t) ==
  \E r \in GetGeoms(l, t.z) :
    Intersects(TileBox(t.z, t.x, t.y, MetaSize, (l.pxBuffer + MetaBuffer) * Grid.resolutions[t.z]), r)

-----------------------------------------------------------------------------
(* The local generation, and the limits of the capabilities.               *)

\* The tile a point is in (the library cuts the decimals).
TileAt(z, px, py) == <<(px - GridBox[1]) \div TileSpan(z), (GridBox[4] - py) \div TileSpan(z)>>

\* All the meta tiles between the corners of the bounds of the geometry.
LocalTiles(l, z) ==
  LET geoms == GetGeoms(l, z)
      m == Buffer(l, z)
      a == TileAt(z, Max({Min({r[1] : r \in geoms}) - m, GridBox[1]}),
                     Min({Max({r[4] : r \in geoms}) + m, GridBox[4]}))
      b == TileAt(z, Min({Max({r[3] : r \in geoms}) + m, GridBox[3]}),
                     Max({Min({r[2] : r \in geoms}) - m, GridBox[2]}))
  IN IF geoms = {} THEN {}
     ELSE {MetaTile(z, i, j) :
             i \in Min({a[1], b[1]}) \div MetaSize .. Max({a[1], b[1]}) \div MetaSize,
             j \in Min({a[2], b[2]}) \div MetaSize .. Max({a[2], b[2]}) \div MetaSize}

Limits(c, m, span) ==
  <<Clamp(Floor(c[1] - m - GridBox[1], span), Width(span) - 1),
    Clamp(Ceil(c[3] + m - GridBox[1], span) - 1, Width(span) - 1),
    Clamp(Floor(GridBox[4] - (c[4] + m), span), Height(span) - 1),
    Clamp(Ceil(GridBox[4] - (c[2] - m), span) - 1, Height(span) - 1)>>

\* The part of the layer that is in the grid.
InGrid(l) == IF l.bbox = NoBox THEN {} ELSE {c \in Meet(NormalizeBox(l.bbox), GridBox) : HasArea(c)}

\* A plausible error: the buffer is added once more.
WideLimits(l, z) == {Limits(c, Buffer(l, z) + 1, TileSpan(z)) : c \in InGrid(l)}

\* The first and last columns and rows of the tiles of the layer, when it has a bbox
\* that meets the grid (with force_tile_matrix_set_limits, or without a buffer).
TileMatrixLimits(l, z) == {Limits(c, Buffer(l, z), TileSpan(z)) : c \in InGrid(l)}

-----------------------------------------------------------------------------
(* The generator.                                                          *)

Init ==
  /\ layer \in SeedLayers
  /\ zooms = Zooms /\ zoom = 0
  /\ rows = {} /\ row = -1 /\ ranges = {} /\ intervals = <<>>
  /\ out = <<>> /\ queue = <<>>

\* The next zoom, when the rows of this one are done.
NextZoom ==
  /\ rows = {} /\ ranges = {} /\ intervals = <<>>
  /\ \E z \in zooms :
       /\ \A y \in zooms : z <= y
       /\ zoom' = z
       /\ zooms' = zooms \ {z}
       /\ rows' = Indices(RowRange(layer, z))
  /\ UNCHANGED <<layer, row, ranges, intervals, out, queue>>

\* The next row: nothing of it may be of the geometry.
NextRow ==
  /\ ranges = {} /\ intervals = <<>>
  /\ \E n \in rows :
       /\ \A k \in rows : n <= k
       /\ row' = n
       /\ rows' = rows \ {n}
       /\ ranges' = RowRanges(layer, zoom, n)
  /\ UNCHANGED <<layer, zooms, zoom, intervals, out, queue>>

\* The next range, in order, is merged.
MergeRange ==
  /\ \E r \in ranges :
       /\ \A o \in ranges : Before(r, o)
       /\ ranges' = ranges \ {r}
       /\ intervals' = Merged(intervals, r)
  /\ UNCHANGED <<layer, zooms, zoom, rows, row, out, queue>>

\* The next meta tile of the first interval, and what the filter says of it.
Yield ==
  /\ ranges = {} /\ intervals # <<>>
  /\ LET i == intervals[1]
         t == MetaTile(zoom, i[1], row)
     IN /\ out' = Append(out, t)
        /\ queue' = IF FilterTilecoord(layer, t) THEN Append(queue, t) ELSE queue
        /\ intervals' = IF i[1] = i[2] THEN Tail(intervals)
                        ELSE [intervals EXCEPT ![1] = <<i[1] + 1, i[2]>>]
  /\ UNCHANGED <<layer, zooms, zoom, rows, row, ranges>>

Next == NextZoom \/ NextRow \/ MergeRange \/ Yield

Spec == Init /\ [][Next]_vars

Ended == zooms = {} /\ rows = {} /\ ranges = {} /\ intervals = <<>>

-----------------------------------------------------------------------------
OutSet == {out[i] : i \in DOMAIN out}
QueueSet == {queue[i] : i \in DOMAIN queue}

TypeOK ==
  /\ zoom \in {0} \cup Zooms /\ zooms \subseteq Zooms
  /\ \A i \in DOMAIN intervals : intervals[i][1] <= intervals[i][2]
  /\ \A t \in OutSet : /\ t.z \in Zooms
                       /\ t.x \div MetaSize \in 0 .. Width(MetaSpan(t.z)) - 1
                       /\ t.y \div MetaSize \in 0 .. Height(MetaSpan(t.z)) - 1

\* A meta tile is put once for each time the list has its zoom: twice in the queue, it
\* would be generated twice.
EachOnce == \A i, j \in DOMAIN out : i # j => out[i] # out[j]

\* The part of n by n tiles that is in the grid.
InsideOf(z, i, j, n) == CHOOSE b \in Meet(TileBox(z, i, j, n, 0), GridBox) : TRUE

\* A rectangle with its buffer, and a box, have an area in common.
ShareArea(r, m, b) ==
  LET d == Max({0, b[2] - r[4], r[2] - b[4]})
  IN /\ b[2] < r[4] + m /\ r[2] - m < b[4]
     /\ b[1] < r[3] + (m - d) /\ r[1] - (m - d) < b[3]

Holds(rects, l, z, i, j, n) == \E r \in rects : ShareArea(r, Buffer(l, z), InsideOf(z, i, j, n))

\* Every meta tile of the grid that has a part of the rectangles is put.
AllQueued(rects, z) ==
  \A i \in 0 .. Width(MetaSpan(z)) - 1, j \in 0 .. Height(MetaSpan(z)) - 1 :
    Holds(rects, layer, z, i * MetaSize, j * MetaSize, MetaSize) => MetaTile(z, i, j) \in QueueSet

\* USAGE.rst:84: px_buffer is "a buffer in px around the object area".  Every meta tile
\* of the grid that has a part of it is put.
GeometryIsQueued == Ended => \A z \in Zooms : AllQueued(GetGeoms(layer, z), z)

\* USAGE.rst:185-186: the resolutions of a source are included, and the last source wins.
LastSourceWins ==
  Ended =>
    \A z \in Zooms, k \in DOMAIN layer.sources :
      LET valid(s) == Grid.resolutions[z] \in s.from .. s.to
      IN (valid(layer.sources[k]) /\ \A n \in DOMAIN layer.sources : n > k => ~valid(layer.sources[n]))
           => AllQueued(InExtent(layer, layer.sources[k]), z)

\* USAGE.rst:221-223: the seed step of a master limits the meta tiles to the geometry,
\* the filter after it can be disabled.
FilterDropsNothing == queue = out

\* The geometry, with its buffer, begins on the right or the lower border of the grid, or
\* after it.
IsAfterGrid(z) ==
  \/ Min({r[1] : r \in GetGeoms(layer, z)}) - Buffer(layer, z) >= GridBox[3]
  \/ Max({r[4] : r \in GetGeoms(layer, z)}) + Buffer(layer, z) <= GridBox[2]

\* A master puts nothing that a local generation would not go through, but for a geometry
\* that is after the grid.
MasterIsLocal == \A t \in OutSet : t \in LocalTiles(layer, t.z) \/ IsAfterGrid(t.z)

\* USAGE.rst:80-81: what the capabilities tell of a layer has all its tiles, those of
\* its buffer too, if the command asks for no box.
AdvertisedHasAll ==
  (Ended /\ layer.asked = NoBox) => \A z \in Zooms : \A c \in TileMatrixLimits(layer, z) :
    \A i \in 0 .. Width(TileSpan(z)) - 1, j \in 0 .. Height(TileSpan(z)) - 1 :
      Holds(GetGeoms(layer, z), layer, z, i, j, 1) => i \in c[1] .. c[2] /\ j \in c[3] .. c[4]

\* Without a buffer and a geometry of its own, all that they tell is generated.
AdvertisedIsQueued ==
  (Ended /\ layer.asked = NoBox /\ layer.pxBuffer = 0 /\ layer.sources = <<>>) =>
    \A z \in Zooms : \A c \in TileMatrixLimits(layer, z) :
      \A i \in c[1] .. c[2], j \in c[3] .. c[4] :
        MetaTile(z, i \div MetaSize, j \div MetaSize) \in QueueSet
===============================================================================
