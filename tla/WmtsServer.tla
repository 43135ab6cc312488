------------------------------ MODULE WmtsServer ------------------------------
(***************************************************************************)
(* The WMTS server of tilecloud_chain/server.py: which route takes a URL,  *)
(* the checks a request meets, and where the answer comes from, for the    *)
(* REST and the KVP interfaces, together with the generation that fills    *)
(* the cache the server reads.                                             *)
(*                                                                         *)
(* A REST URL is the sequence of its segments after the route prefix, a    *)
(* KVP request a function from the names of its parameters, in upper case, *)
(* to their values, with the names that the client writes in lower case.   *)
(* A segment is a token: Number gives the tokens int() accepts their value *)
(* and Dotted splits the ones with a dot at their last dot.                *)
(* A grid has one row, and the geometry of a layer is the set of columns   *)
(* it covers at each zoom.                                                 *)
(***************************************************************************)
EXTENDS Integers, Sequences, FiniteSets

CONSTANTS
  Layers,          \* the layers of the configuration
  Served,          \* server.layers
  Style, Mime, Extension,   \* of each layer
  Dims,            \* of each layer: a sequence of [name, values, default]
  Grids,           \* of each layer: its grids
  Queryable,       \* the layers with query_layers
  MetaSize,        \* of each layer
  Resolution,      \* of each zoom
  MinResolutionSeed,   \* of each layer, 0 when it has none
  Geometry,        \* of each layer and zoom: the columns the geometry covers
  Width,           \* of each zoom: the columns of the grid
  MatrixIdentifier,    \* "zoom" or "resolution"
  ResolutionIdentifier,\* of each zoom: the identifier made of its resolution
  OtherFiles,      \* paths of the files of the cache that are no tiles
  AllowedExtensions,   \* server.static_allow_extension
  Number, Dotted, TokenOf,
  Urls, Kvps       \* the requests clients send

Zooms == DOMAIN Width

\* The zoom of a layer that has no min_resolution_seed.
NoLimit == 999999

MimeOf == [png |-> "image/png", jpeg |-> "image/jpeg", jpg |-> "image/jpeg",
           webp |-> "image/webp", json |-> "application/json"]
TileExtensions == DOMAIN MimeOf

\* The parameters that serve reads, without those of the dimensions.
Required == {"FORMAT", "LAYER", "TILEMATRIXSET", "TILEMATRIX", "TILEROW", "TILECOL"}
Parameters == Required \cup {"SERVICE", "VERSION", "REQUEST", "STYLE", "I", "J", "INFO_FORMAT"}

\* The zooms are the positions in the list of the resolutions, which decrease, and are
\* less than the zoom that stands for no limit.
ZoomsAssumption ==
  /\ Zooms \subseteq 0 .. NoLimit
  /\ \A z \in Zooms : Width[z] \in Nat /\ Resolution[z] \in Nat
  /\ \A y, z \in Zooms : y <= z => Resolution[z] <= Resolution[y]

\* The tokens: int() reads what str() writes, and the file of a column has the extension
\* of the layer.
TokensAssumption ==
  /\ Number \in [DOMAIN Number -> Int] /\ Dotted \in [DOMAIN Dotted -> STRING \X STRING]
  /\ "" \notin DOMAIN Number \cup DOMAIN Dotted /\ "0" \in DOMAIN Number
  /\ \A z \in Zooms : \A n \in {z} \cup 0 .. Width[z] - 1 :
       TokenOf[n] \in DOMAIN Number /\ Number[TokenOf[n]] = n
  /\ \A l \in Layers, z \in Zooms : \A x \in 0 .. Width[z] - 1 :
       \E s \in DOMAIN Dotted : Dotted[s] = <<TokenOf[x], Extension[l]>>

\* The patterns of schema.json: no name and no value is empty.
NamesAssumption ==
  /\ \A z \in Zooms : ResolutionIdentifier[z] # ""
  /\ \A l \in Layers :
       /\ l # "" /\ Style[l] # "" /\ "" \notin Grids[l]
       /\ Dims[l] \in Seq([name : STRING, values : SUBSET STRING, default : STRING])
       /\ \A i \in DOMAIN Dims[l] : "" \notin Dims[l][i].values

\* What the server relies on and no code checks: the extension of a layer is that of its
\* MIME type, and no dimension has the name of another one, nor that of a parameter.
LayersAssumption ==
  \A l \in Layers :
    /\ Extension[l] \in TileExtensions /\ Mime[l] = MimeOf[Extension[l]]
    /\ \A i, j \in DOMAIN Dims[l] : Dims[l][i].name = Dims[l][j].name => i = j
    /\ \A i \in DOMAIN Dims[l] : Dims[l][i].name \notin Parameters

\* The files of the cache that are no tiles, the legends and what is put beside them,
\* are not as deep as the tiles, and none at the root of the cache is called as the
\* capabilities.
FilesAssumption ==
  \A f \in OtherFiles :
    /\ f \in Seq(STRING) /\ 1 <= Len(f) /\ Len(f) <= 5 /\ f # <<"WMTSCapabilities.xml">>
    /\ \A i \in DOMAIN f : f[i] \notin {"", ".", ".."}
    /\ f[Len(f)] \in DOMAIN Dotted

ServerAssumption ==
  /\ Served \subseteq Layers /\ Urls \subseteq Seq(STRING)
  /\ \A l \in Layers : MetaSize[l] \in Nat \ {0} /\ MinResolutionSeed[l] \in Nat
  /\ ZoomsAssumption /\ TokensAssumption
  /\ NamesAssumption /\ LayersAssumption /\ FilesAssumption

VARIABLES
  geomsRedirect,   \* server.geoms_redirect
  storage,  \* the type of the cache: "filesystem", "azure" or "s3"
  loaded,   \* the configuration of the host could be read (else it is empty)
  store,    \* the tiles of the cache, as <<layer, dimensions, grid, zoom, column>>
  failing,  \* what the server relies on and fails now
  last      \* the request being answered and its answer

configured == <<geomsRedirect, storage>>
vars == <<configured, loaded, store, failing, last>>

\* get_store gives no store; getting the store, or the tile from it, raises; the store
\* gives a tile with an error, without data or, only on Azure, with it.  The map cache
\* gives an answer of its own or raises, and the WMS one that is not 200.
StoreFailures == {"no_store", "store_raises", "store_empty", "store_error"}
MapCacheFailures == {"mapcache_500", "mapcache_502"}
Failures == StoreFailures \cup MapCacheFailures \cup {"wms"}
FailuresOf(type) ==
  Failures \ CASE type = "filesystem" -> {"store_empty", "store_error"}
                [] type = "azure" -> {} [] type = "s3" -> {"store_error"}

Answers == {"stored", "204", "mapcache", "forwarded", "502", "capabilities",
            "file", "400", "403", "404", "422", "500"}

TypeOK ==
  /\ geomsRedirect \in BOOLEAN /\ storage \in {"filesystem", "azure", "s3"}
  /\ loaded \in BOOLEAN /\ failing \in Failures \cup {"none"}
  /\ \A t \in store : t[1] \in Layers /\ t[4] \in Zooms /\ t[5] \in 0 .. Width[t[4]] - 1
  /\ last.answer \in Answers \cup {"none"}
  /\ last.kind \in {"none", "rest", "kvp"}

-----------------------------------------------------------------------------
\* The tile itself.

\* Server.get_max_zoom_seed: the last zoom seeded.
MaxZoomSeed(l) ==
  LET seeded == {z \in Zooms : Resolution[z] >= MinResolutionSeed[l]}
  IN IF MinResolutionSeed[l] = 0 THEN NoLimit
     ELSE IF seeded = {} THEN -1 ELSE CHOOSE z \in seeded : \A y \in seeded : y <= z

\* The zooms the generation is restricted to.
SeededZooms(l) == {z \in Zooms : Resolution[z] >= MinResolutionSeed[l]}

\* Server.forward: an answer of the WMS that is not 200 is a bad gateway.
Forward == IF failing = "wms" THEN "502" ELSE "forwarded"

DimensionNames(l) == {Dims[l][i].name : i \in DOMAIN Dims[l]}

Param(p, name, default) == IF name \in DOMAIN p THEN p[name] ELSE default

\* The columns of the box of n tiles from column x: IntersectGeometryFilter
\* asks whether it meets the geometry.
Meets(l, z, x, n) == \E c \in x .. x + n - 1 : c \in Geometry[l][z]

\* The column the server takes for that of the meta tile: x / n * n, rounded.
ServedMetaColumn(x, n) == (x * n) \div n

\* The column of the meta tile the generation makes the tile with.
MetaColumn(x, n) == (x \div n) * n

Identifier(z) == IF MatrixIdentifier = "zoom" THEN TokenOf[z] ELSE ResolutionIdentifier[z]

TileKey(l, p, z, x) ==
  <<l, [i \in DOMAIN Dims[l] |-> Param(p, Dims[l][i].name, Dims[l][i].default)],
    p["TILEMATRIXSET"], z, x>>

\* Server._map_cache: the answers of internal_mapcache.fetch.
MapCacheAnswer ==
  CASE failing = "mapcache_500" -> "500"
    [] failing = "mapcache_502" -> "502"
    [] OTHER -> "mapcache"

\* What _get_tile makes of the store and of what it gives; the layout of the store looks
\* the resolution up.
StoreAnswer(z, key) ==
  IF failing = "no_store" THEN "400"
  ELSE IF failing = "store_raises" \/ (MatrixIdentifier = "resolution" /\ z \notin Zooms)
       THEN "500"
  ELSE IF failing = "store_empty" \/ key \notin store THEN "204"
  ELSE IF failing = "store_error" THEN "500" ELSE "stored"

\* The filter of the geometries sends the tile to the map cache.
Redirected(l, z, x) ==
  geomsRedirect /\ ~Meets(l, z, ServedMetaColumn(x, MetaSize[l]), MetaSize[l])

\* Server._get_tile.
GetTile(p) ==
  LET l == p["LAYER"]
      z == Number[p["TILEMATRIX"]]
      x == Number[p["TILECOL"]]
  IN IF z > MaxZoomSeed(l) THEN MapCacheAnswer
     ELSE IF geomsRedirect /\ z \notin Zooms THEN "500"
     ELSE IF Redirected(l, z, x) THEN MapCacheAnswer
     ELSE StoreAnswer(z, TileKey(l, p, z, x))

\* The feature info, asked to the WMS of the layer.
FeatureInfo(p) ==
  IF ~({"I", "J", "INFO_FORMAT"} \subseteq DOMAIN p) \/ p["LAYER"] \notin Queryable
  THEN "400"
  ELSE IF Number[p["TILEMATRIX"]] \notin Zooms THEN "500"
  ELSE Forward

-----------------------------------------------------------------------------
\* Server.serve, which both interfaces end in.

\* What serve does once the layer is known: the style is read unchecked.
ServeLayer(p) ==
  LET l == p["LAYER"]
  IN IF "STYLE" \notin DOMAIN p THEN "500"
     ELSE IF p["STYLE"] # Style[l] \/ p["TILEMATRIXSET"] \notin Grids[l] THEN "400"
     ELSE IF \E n \in {"TILEMATRIX", "TILECOL", "TILEROW"} : p[n] \notin DOMAIN Number THEN "500"
     ELSE IF p["REQUEST"] = "GetFeatureInfo" THEN FeatureInfo(p)
     ELSE IF p["REQUEST"] # "GetTile" \/ p["FORMAT"] # Mime[l] THEN "400"
     ELSE GetTile(p)

Serve(p) ==
  IF ~loaded THEN "404"
  ELSE IF \/ Param(p, "SERVICE", "WMTS") # "WMTS"
          \/ Param(p, "VERSION", "1.0.0") # "1.0.0" THEN "400"
  ELSE IF Param(p, "REQUEST", "GetCapabilities") = "GetCapabilities" THEN "capabilities"
  ELSE IF ~(Required \subseteq DOMAIN p) THEN "400"
  ELSE IF p["LAYER"] \notin Served THEN "400"
  ELSE ServeLayer(p)

\* The KVP route: FastAPI reads the names in lower case only, asks for three of them and
\* validates the numbers; the route goes on with all of the parameters.
Mandatory == {"SERVICE", "VERSION", "REQUEST"}
Numeric == {"TILEROW", "TILECOL", "I", "J"}
AnswerKvp(r) ==
  IF ~loaded THEN "404"
  ELSE IF \/ ~(Mandatory \subseteq r.lower)
          \/ \E n \in Numeric \cap r.lower : r.params[n] \notin DOMAIN Number THEN "422"
  ELSE IF \E n \in Mandatory : r.params[n] = "" THEN "400"
  ELSE Serve(r.params)

-----------------------------------------------------------------------------
\* The REST routes.

HasExtension(s) == s \in DOMAIN Dotted

\* A plausible error: the values are not compared with the allowed ones.
DimensionsUnchecked(l, values) == Len(values) # Len(Dims[l])

\* _add_dimensions_to_params: too few or too many values, empty values, and
\* values that are not allowed are refused.
WrongDimensions(l, values) ==
  \/ Len(values) # Len(Dims[l])
  \/ \E i \in DOMAIN values : values[i] = "" \/ values[i] \notin Dims[l][i].values

\* A plausible error: the values are checked and not passed on.
DimensionsLost(l, p, values) == p

WithDimensions(l, p, values) ==
  [n \in DOMAIN p \cup DimensionNames(l) |->
     IF \E i \in DOMAIN values : Dims[l][i].name = n
     THEN values[CHOOSE i \in DOMAIN values : Dims[l][i].name = n] ELSE p[n]]

\* _serve_wmts_tile and _serve_wmts_feature_info.
ServeRest(p, values) ==
  LET l == p["LAYER"]
  IN IF Dims[l] = <<>> THEN Serve(p)
     ELSE IF values = <<>> \/ WrongDimensions(l, values) THEN "400"
     ELSE Serve(WithDimensions(l, p, values))

\* The path parameters of u whose last segments, after the dimensions, are
\* the names of tail.
PathParams(u, tail) ==
  [n \in {"VERSION", "LAYER", "STYLE"} \cup {tail[i] : i \in DOMAIN tail} |->
     CASE n = "VERSION" -> u[1] [] n = "LAYER" -> u[2] [] n = "STYLE" -> u[3]
       [] OTHER -> u[Len(u) - Len(tail) + (CHOOSE i \in DOMAIN tail : tail[i] = n)]]

Adding(p, extra) == [n \in DOMAIN p \cup DOMAIN extra |-> IF n \in DOMAIN extra THEN extra[n] ELSE p[n]]

PathDimensions(u, n) == SubSeq(u, 4, Len(u) - n)

\* get_host_config and _get_layer_obj, on which the routes of a layer depend:
\* they come before the validation of the other path parameters.
LayerThen(l, answer) ==
  IF ~loaded THEN "404" ELSE IF l \notin Served THEN "400" ELSE answer

TileTail == <<"TILEMATRIXSET", "TILEMATRIX", "TILEROW", "TILECOL">>
RestTile(u) ==
  LET file == Dotted[u[Len(u)]]
      p == Adding(PathParams(u, TileTail),
                  [SERVICE |-> "WMTS", REQUEST |-> "GetTile", TILECOL |-> file[1],
                   FORMAT |-> IF file[2] \in TileExtensions THEN MimeOf[file[2]] ELSE "none"])
  IN LayerThen(u[2],
       IF \/ file[2] \notin TileExtensions
          \/ {p["TILEROW"], p["TILECOL"]} \cap DOMAIN Number # {p["TILEROW"], p["TILECOL"]}
       THEN "422" ELSE ServeRest(p, PathDimensions(u, 4)))

InfoTail == <<"TILEMATRIXSET", "TILEMATRIX", "TILEROW", "TILECOL", "I", "J">>
RestInfo(u) ==
  LET p == PathParams(u, InfoTail)
      pixel == IF HasExtension(p["J"]) THEN Dotted[p["J"]][1] ELSE p["J"]
  IN LayerThen(u[2],
       IF \E v \in {p["TILEROW"], p["TILECOL"], p["I"], pixel} : v \notin DOMAIN Number
       THEN "422"
       ELSE ServeRest(Adding(p, [SERVICE |-> "WMTS", REQUEST |-> "GetFeatureInfo",
                                 INFO_FORMAT |-> "gml", FORMAT |-> Mime[u[2]]]),
                      PathDimensions(u, 6)))

\* The file of a tile in the cache.
TilePath(t) ==
  <<"1.0.0", t[1], Style[t[1]]>> \o t[2]
    \o <<t[3], TokenOf[t[4]], "0", CHOOSE s \in DOMAIN Dotted : Dotted[s] = <<TokenOf[t[5]], Extension[t[1]]>> >>
Files == OtherFiles \cup {TilePath(t) : t \in store}

\* Server.get: the S3 client refuses the configuration of the cache, which it
\* gets for the name of the bucket, at the first read and at the second.
GetFile(path) ==
  IF storage = "s3" THEN "500" ELSE IF path \in Files THEN "file" ELSE "404"

\* get_static.
RestStatic(path) ==
  IF ~loaded THEN "404"
  ELSE IF \E i \in DOMAIN path : path[i] \in {"", ".", ".."} THEN "400"
  ELSE IF ~HasExtension(path[Len(path)]) THEN "403"
  ELSE IF Dotted[path[Len(path)]][2] \notin AllowedExtensions THEN "403"
  ELSE GetFile(path)

\* The segments a route needs are not empty; the dimensions may be.
Filled(u, n) == \A i \in (1 .. 3) \cup (Len(u) - n + 1 .. Len(u)) : u[i] # ""
IsXml(s) == HasExtension(s) /\ Dotted[s][2] = "xml"

\* The routes are tried in the order of their declaration.
AnswerRest(u) ==
  LET n == Len(u) IN
  IF n = 2 /\ u[1] # "" /\ u[2] = "WMTSCapabilities.xml"
  THEN Serve([SERVICE |-> "WMTS", VERSION |-> u[1], REQUEST |-> "GetCapabilities"])
  ELSE IF n >= 9 /\ IsXml(u[n]) /\ Filled(u, 6) THEN RestInfo(u)
  ELSE IF n >= 7 /\ HasExtension(u[n]) /\ Filled(u, 4) THEN RestTile(u)
  ELSE IF n >= 9 /\ Filled(u, 6) THEN RestInfo(u)
  ELSE IF n >= 2 /\ u[1] = "static" THEN RestStatic(Tail(u))
  ELSE "404"

-----------------------------------------------------------------------------
NoRequest == [kind |-> "none", request |-> <<>>, answer |-> "none"]

Init ==
  /\ geomsRedirect \in BOOLEAN /\ storage \in {"filesystem", "azure", "s3"}
  /\ loaded = TRUE
  /\ store = {}
  /\ failing = "none"
  /\ last = NoRequest

\* A meta tile is generated: those the geometry meets, at the seeded zooms.
\* The tiles found empty are dropped.
Generate(l, dims, g, z, m) ==
  /\ z \in SeededZooms(l)
  /\ Meets(l, z, m * MetaSize[l], MetaSize[l])
  /\ \E kept \in SUBSET {x \in 0 .. Width[z] - 1 : MetaColumn(x, MetaSize[l]) = m * MetaSize[l]} :
       store' = store \cup {<<l, dims, g, z, x>> : x \in kept}
  /\ last = NoRequest /\ UNCHANGED <<configured, loaded, failing, last>>

DimensionChoices(l) ==
  {d \in [DOMAIN Dims[l] -> UNION {Dims[l][i].values : i \in DOMAIN Dims[l]}] :
     \A i \in DOMAIN Dims[l] : d[i] \in Dims[l][i].values}

Generation ==
  \E l \in Layers, z \in Zooms :
    \E dims \in DimensionChoices(l), g \in Grids[l], m \in 0 .. Width[z] - 1 :
      Generate(l, dims, g, z, m)

\* The configuration file becomes unreadable, or readable again.
ConfigFileEdited ==
  /\ loaded' = ~loaded
  /\ last = NoRequest /\ UNCHANGED <<configured, store, failing, last>>

\* Something fails, or all works again.
FailingChanges ==
  /\ failing' \in {"none"} \cup FailuresOf(storage)
  /\ last = NoRequest /\ UNCHANGED <<configured, loaded, store, last>>

AskRest(u) ==
  /\ last = NoRequest
  /\ last' = [kind |-> "rest", request |-> u, answer |-> AnswerRest(u)]
  /\ UNCHANGED <<configured, loaded, store, failing>>

AskKvp(p) ==
  /\ last = NoRequest
  /\ last' = [kind |-> "kvp", request |-> p, answer |-> AnswerKvp(p)]
  /\ UNCHANGED <<configured, loaded, store, failing>>

\* The client has its answer.
Answered ==
  /\ last # NoRequest
  /\ last' = NoRequest
  /\ UNCHANGED <<configured, loaded, store, failing>>

Next ==
  \/ Generation
  \/ ConfigFileEdited
  \/ FailingChanges
  \/ \E u \in Urls : AskRest(u)
  \/ \E p \in Kvps : AskKvp(p)
  \/ Answered

Spec == Init /\ [][Next]_vars

-----------------------------------------------------------------------------
\* Properties.

\* The URL and the parameters a client makes for a tile from the capabilities,
\* and the segments of a tile URL by their names.
TileUrl(t) ==
  <<"1.0.0", t[1], Style[t[1]]>> \o t[2]
    \o <<t[3], Identifier(t[4]), "0",
         CHOOSE s \in DOMAIN Dotted : Dotted[s] = <<TokenOf[t[5]], Extension[t[1]]>> >>
TileKvp(t) ==
  Adding([SERVICE |-> "WMTS", VERSION |-> "1.0.0", REQUEST |-> "GetTile",
          LAYER |-> t[1], STYLE |-> Style[t[1]], FORMAT |-> Mime[t[1]],
          TILEMATRIXSET |-> t[3], TILEMATRIX |-> Identifier(t[4]),
          TILEROW |-> "0", TILECOL |-> TokenOf[t[5]]],
         [n \in DimensionNames(t[1]) |->
            t[2][CHOOSE i \in DOMAIN Dims[t[1]] : Dims[t[1]][i].name = n]])
KvpRequest(t) == [params |-> TileKvp(t), lower |-> DOMAIN TileKvp(t)]
AllTiles ==
  UNION {{<<l, d, g, z, x>> : d \in DimensionChoices(l), g \in Grids[l], x \in 0 .. Width[z] - 1} :
           l \in Layers, z \in Zooms}
IsTileUrl(u) ==
  /\ Len(u) >= 7 /\ HasExtension(u[Len(u)]) /\ ~(Len(u) >= 9 /\ IsXml(u[Len(u)]))
  /\ Filled(u, 4) /\ Dotted[u[Len(u)]][2] \in TileExtensions
  /\ {u[Len(u) - 1], Dotted[u[Len(u)]][1]} \subseteq DOMAIN Number
  /\ u[2] \in Served
LastTile == last.kind = "rest" /\ IsTileUrl(last.request)
LastPart(fromEnd) == last.request[Len(last.request) - fromEnd]

\* What the generation wrote to the cache can be got with the URL that the
\* capabilities advertise for it: the identifiers, the dimensions, the zooms
\* served by the internal map cache and the redirection by the geometries of
\* the server agree with what the generation does, while store and map cache work.
GeneratedIsServed ==
  (loaded /\ failing \in {"none", "wms"} /\ last = NoRequest) => \A t \in store : t[1] \in Served =>
    AnswerRest(TileUrl(t)) = "stored" \/ (geomsRedirect /\ AnswerRest(TileUrl(t)) = "mapcache")

\* The two interfaces of the server give the same answer for the same tile:
\* the path of a REST URL is turned into what a KVP request says.
InterfacesAgree ==
  (loaded /\ last.kind = "rest") => \A t \in AllTiles :
    last.request = TileUrl(t) => last.answer = AnswerKvp(KvpRequest(t))

\* CHANGELOG.md:18: a REST URL with missing, empty, unexpected or not allowed
\* dimension values is answered with 400, for a layer that has dimensions.
BadDimensionsAre400 ==
  (LastTile /\ loaded /\ Dims[last.request[2]] # <<>>
     /\ PathDimensions(last.request, 4) \notin DimensionChoices(last.request[2]))
    => last.answer = "400"

\* A REST URL of a tile at a zoom of the grid is answered by an error of the server only
\* when the part of it that the tile needs fails: the map cache beyond the seeded zooms, the
\* store at the others, or the map cache again, but only with geoms_redirect.
FailuresFor(l, z) ==
  IF z > MaxZoomSeed(l) THEN MapCacheFailures
  ELSE IF geomsRedirect THEN MapCacheFailures \cup StoreFailures ELSE StoreFailures
NoServerError ==
  LastTile /\ loaded /\ LastPart(2) \in DOMAIN Number /\ last.answer \in {"500", "502"} =>
    LET z == Number[LastPart(2)]
    IN  z \in Zooms => failing \in FailuresFor(last.request[2], z)

\* USAGE.rst:619, geoms_redirect: a tile is answered "no content" only at a zoom that is
\* seeded and where the generation makes its meta tile, or the next one: the server takes
\* the tile for the corner of a box of the size of a meta tile.
EmptyOnlyInGeometry ==
  (LastTile /\ last.answer = "204" /\ geomsRedirect) =>
    LET l == last.request[2]
        n == MetaSize[l]
        z == Number[LastPart(2)]
        x == Number[Dotted[LastPart(0)][1]]
        m == MetaColumn(x, n)
    IN /\ z \in SeededZooms(l)
       /\ Meets(l, z, m, n) \/ (x # m /\ Meets(l, z, m + n, n))

\* server.py:1229: the static view gives the files of the cache whose extension
\* is allowed, here the ones that are no tiles: no other route takes their URL.
LegendsAreServed ==
  (loaded /\ storage # "s3" /\ last.kind = "rest") => \A f \in OtherFiles :
    (last.request = <<"static">> \o f /\ Dotted[f[Len(f)]][2] \in AllowedExtensions)
      => last.answer = "file"

\* A host whose configuration is empty, because its file is missing or broken,
\* is answered with 404 whatever the URL or the parameters.
NoConfigurationIs404 == (last # NoRequest /\ ~loaded) => last.answer = "404"
===============================================================================
