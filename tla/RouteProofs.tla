----------------------------- MODULE RouteProofs -----------------------------
(***************************************************************************)
(* Proofs about the routes of Server: what they answer, for any            *)
(* configuration of layers, grids, dimensions, zooms and geometries, any   *)
(* requests and any interleaving with the generation, the edits of the     *)
(* configuration and the other parts of the server.                        *)
(*                                                                         *)
(* The inductive invariant is small: the tiles of the cache are at seeded  *)
(* zooms, and the last answer is what the routes give now.  The rest is    *)
(* about the operators, which a request goes through in one step: the path *)
(* parameters of a URL, the parameters of a tile with its dimensions, the  *)
(* checks of serve and the zooms and boxes of _get_tile.                   *)
(*                                                                         *)
(* Several lemmas conclude with a predicate defined beside them: to take   *)
(* its conjuncts is then a step of its own.                                *)
(***************************************************************************)
EXTENDS Server, FiniteSetTheorems, SequenceTheorems, WellFoundedInduction, TLAPS

\* A tile that the generation may have written.
Generated(t) ==
  \E l \in TileLayers, z \in DOMAIN Width :
    \E d \in Routes!DimensionChoices(l), g \in LayerGrids[l], x \in 0 .. Width[z] - 1 :
      z \in Routes!SeededZooms(l) /\ t = <<l, d, g, z, x>>

\* The last answer is what the routes still give: while a request is being answered nothing
\* else of the routes changes.
AnswersTheRequest ==
  \/ last = Routes!NoRequest
  \/ \E u \in Urls : last = [kind |-> "rest", request |-> u, answer |-> Routes!AnswerRest(u)]
  \/ \E p \in Kvps : last = [kind |-> "kvp", request |-> p, answer |-> Routes!AnswerKvp(p)]

\* The inductive invariant.
RouteInv ==
  /\ geomsRedirect \in BOOLEAN /\ storage \in {"filesystem", "azure", "s3"}
  /\ loaded \in BOOLEAN /\ failing \in Routes!Failures \cup {"none"}
  /\ \A t \in store : Generated(t)
  /\ AnswersTheRequest

\* An answer depends on no more than the variables it reads.
LEMMA AnswersAreKept ==
  ASSUME UNCHANGED <<geomsRedirect, storage, loaded, store, failing>>
  PROVE  /\ \A u : Routes!AnswerRest(u)' = Routes!AnswerRest(u)
         /\ \A p : Routes!AnswerKvp(p)' = Routes!AnswerKvp(p)
<1>1. ASSUME NEW p PROVE Routes!GetTile(p)' = Routes!GetTile(p)
  BY DEF Routes!GetTile, Routes!MapCacheAnswer, Routes!Redirected, Routes!StoreAnswer
<1>2. ASSUME NEW p PROVE Routes!FeatureInfo(p)' = Routes!FeatureInfo(p)
  BY DEF Routes!FeatureInfo, Routes!Forward
<1>3. ASSUME NEW p PROVE Routes!Serve(p)' = Routes!Serve(p)
  BY <1>1, <1>2 DEF Routes!Serve, Routes!ServeLayer
<1>4. ASSUME NEW p PROVE Routes!AnswerKvp(p)' = Routes!AnswerKvp(p)
  BY <1>3 DEF Routes!AnswerKvp
<1>5. ASSUME NEW p, NEW d PROVE Routes!ServeRest(p, d)' = Routes!ServeRest(p, d)
  BY <1>3 DEF Routes!ServeRest
<1>6. ASSUME NEW u PROVE Routes!RestTile(u)' = Routes!RestTile(u)
  BY <1>5 DEF Routes!RestTile, Routes!LayerThen
<1>7. ASSUME NEW u PROVE Routes!RestInfo(u)' = Routes!RestInfo(u)
  BY <1>5 DEF Routes!RestInfo, Routes!LayerThen
<1>8. ASSUME NEW u PROVE Routes!RestStatic(u)' = Routes!RestStatic(u)
  BY DEF Routes!RestStatic, Routes!GetFile, Routes!Files
<1>9. ASSUME NEW u PROVE Routes!AnswerRest(u)' = Routes!AnswerRest(u)
  BY <1>3, <1>6, <1>7, <1>8 DEF Routes!AnswerRest
<1> QED
  BY <1>4, <1>9

\* A server begins with an empty cache and no request.
LEMMA InitRoutes == Routes!Init => RouteInv
BY DEF Routes!Init, RouteInv, AnswersTheRequest

\* Each action of the routes keeps the invariant.
LEMMA NextRoutes == RouteInv /\ [Routes!Next]_routeVars => RouteInv'
<1> SUFFICES ASSUME RouteInv, [Routes!Next]_routeVars PROVE RouteInv'
  OBVIOUS
<1>1. ASSUME UNCHANGED <<geomsRedirect, storage, failing, store, loaded>>, AnswersTheRequest'
      PROVE  RouteInv'
  BY <1>1 DEF RouteInv, Generated, Routes!DimensionChoices, Routes!SeededZooms
<1>2. ASSUME last' = Routes!NoRequest PROVE AnswersTheRequest'
  BY <1>2 DEF AnswersTheRequest, Routes!NoRequest
<1>3. ASSUME Routes!Generation PROVE RouteInv'
  <2>1. PICK l \in TileLayers, z \in DOMAIN Width :
          \E d \in Routes!DimensionChoices(l), g \in LayerGrids[l], m \in 0 .. Width[z] - 1 :
            Routes!Generate(l, d, g, z, m)
    BY <1>3 DEF Routes!Generation, Routes!Zooms
  <2>2. PICK d \in Routes!DimensionChoices(l), g \in LayerGrids[l], m \in 0 .. Width[z] - 1 :
          Routes!Generate(l, d, g, z, m)
    BY <2>1
  <2>3. /\ z \in Routes!SeededZooms(l)
        /\ last' = Routes!NoRequest /\ UNCHANGED <<geomsRedirect, storage, loaded, failing>>
    BY <2>2 DEF Routes!Generate, Routes!configured
  <2>4. PICK kept \in SUBSET (0 .. Width[z] - 1) :
          store' = store \cup {<<l, d, g, z, x>> : x \in kept}
    BY <2>2 DEF Routes!Generate
  <2>5. \A t \in store' : Generated(t)
    BY <2>3, <2>4 DEF Generated, RouteInv
  <2>6. \A t : Generated(t)' = Generated(t)
    BY DEF Generated
  <2> QED
    BY <1>2, <2>3, <2>5, <2>6 DEF RouteInv
<1>4. ASSUME Routes!ConfigFileEdited \/ Routes!FailingChanges PROVE RouteInv'
  <2>1. /\ loaded' \in BOOLEAN /\ failing' \in Routes!Failures \cup {"none"}
        /\ last' = Routes!NoRequest
        /\ UNCHANGED <<geomsRedirect, storage, store>>
    BY <1>4 DEF Routes!ConfigFileEdited, Routes!FailingChanges, Routes!FailuresOf,
         Routes!configured, RouteInv
  <2> QED
    BY <1>2, <2>1 DEF RouteInv, Generated, Routes!DimensionChoices, Routes!SeededZooms
<1>5. ASSUME NEW u \in Urls, Routes!AskRest(u) PROVE RouteInv'
  <2>1. UNCHANGED <<geomsRedirect, storage, loaded, store, failing>>
    BY <1>5 DEF Routes!AskRest, Routes!configured
  <2>2. last' = [kind |-> "rest", request |-> u, answer |-> Routes!AnswerRest(u)']
    BY <1>5, <2>1, AnswersAreKept DEF Routes!AskRest
  <2>3. AnswersTheRequest'
    BY <2>2 DEF AnswersTheRequest
  <2> QED
    BY <1>1, <2>1, <2>3
<1>6. ASSUME NEW p \in Kvps, Routes!AskKvp(p) PROVE RouteInv'
  <2>1. UNCHANGED <<geomsRedirect, storage, loaded, store, failing>>
    BY <1>6 DEF Routes!AskKvp, Routes!configured
  <2>2. last' = [kind |-> "kvp", request |-> p, answer |-> Routes!AnswerKvp(p)']
    BY <1>6, <2>1, AnswersAreKept DEF Routes!AskKvp
  <2>3. AnswersTheRequest'
    BY <2>2 DEF AnswersTheRequest
  <2> QED
    BY <1>1, <2>1, <2>3
<1>7. ASSUME Routes!Answered PROVE RouteInv'
  BY <1>7, <1>1, <1>2 DEF Routes!Answered, Routes!configured
<1>8. CASE UNCHANGED routeVars
  <2>1. UNCHANGED <<geomsRedirect, storage, loaded, store, failing>> /\ last' = last
    BY <1>8 DEF routeVars
  <2>2. AnswersTheRequest'
    BY <2>1, AnswersAreKept DEF RouteInv, AnswersTheRequest, Routes!NoRequest
  <2> QED
    BY <1>1, <2>1, <2>2
<1> QED
  BY <1>3, <1>4, <1>5, <1>6, <1>7, <1>8 DEF Routes!Next

\* And so does each step of the server.
LEMMA RoutesInv == SharedSpec => []RouteInv
<1>1. SharedInit => RouteInv
  BY InitRoutes DEF SharedInit
<1>2. RouteInv /\ [SharedNext]_sharedVars => RouteInv'
  <2>1. [SharedNext]_sharedVars => [Routes!Next]_routeVars
    BY DEF SharedNext, CachesStep, StoresStep, LegendsStep, UrlsStep, RoutesStep, sharedVars
  <2> QED
    BY <2>1, NextRoutes
<1> QED
  BY <1>1, <1>2, PTL DEF SharedSpec

\* No other answer is given.
LEMMA AnswersAreTyped ==
  /\ \A u : Routes!AnswerRest(u) \in Routes!Answers
  /\ \A p : Routes!AnswerKvp(p) \in Routes!Answers
<1>1. ASSUME NEW p PROVE Routes!Serve(p) \in Routes!Answers
  <2>1. Routes!GetTile(p) \in Routes!Answers
    BY DEF Routes!GetTile, Routes!MapCacheAnswer, Routes!StoreAnswer, Routes!Answers
  <2> QED
    BY <2>1 DEF Routes!Serve, Routes!ServeLayer, Routes!FeatureInfo, Routes!Forward,
         Routes!Answers
<1>2. ASSUME NEW p, NEW d PROVE Routes!ServeRest(p, d) \in Routes!Answers
  BY <1>1 DEF Routes!ServeRest, Routes!Answers
<1>3. ASSUME NEW u PROVE Routes!RestTile(u) \in Routes!Answers
  BY <1>2 DEF Routes!RestTile, Routes!LayerThen, Routes!Answers
<1>4. ASSUME NEW u PROVE Routes!RestInfo(u) \in Routes!Answers
  BY <1>2 DEF Routes!RestInfo, Routes!LayerThen, Routes!Answers
<1>5. ASSUME NEW u PROVE Routes!RestStatic(u) \in Routes!Answers
  BY DEF Routes!RestStatic, Routes!GetFile, Routes!Answers
<1> QED
  BY <1>1, <1>3, <1>4, <1>5 DEF Routes!AnswerRest, Routes!AnswerKvp, Routes!Answers

\* Each route asks for the configuration of the host first.
LEMMA NoConfigurationIsNotFound ==
  ASSUME ~loaded
  PROVE  /\ \A u : Routes!AnswerRest(u) = "404"
         /\ \A p : Routes!AnswerKvp(p) = "404"
<1>1. ASSUME NEW p PROVE Routes!Serve(p) = "404"
  BY DEF Routes!Serve
<1>2. ASSUME NEW u PROVE Routes!RestTile(u) = "404" /\ Routes!RestInfo(u) = "404"
  BY DEF Routes!RestTile, Routes!RestInfo, Routes!LayerThen
<1> QED
  BY <1>1, <1>2 DEF Routes!AnswerRest, Routes!AnswerKvp, Routes!RestStatic

-----------------------------------------------------------------------------
\* The parameters that the tile route makes of a URL.
TileParams(u) ==
  Routes!Adding(Routes!PathParams(u, Routes!TileTail),
    [SERVICE |-> "WMTS", REQUEST |-> "GetTile", TILECOL |-> Dotted[u[Len(u)]][1],
     FORMAT |-> Routes!MimeOf[Dotted[u[Len(u)]][2]]])

\* The names of the segments after the dimensions.
LEMMA TileTailIs ==
  /\ Len(Routes!TileTail) = 4 /\ DOMAIN Routes!TileTail = 1 .. 4
  /\ Routes!TileTail[1] = "TILEMATRIXSET" /\ Routes!TileTail[2] = "TILEMATRIX"
  /\ Routes!TileTail[3] = "TILEROW" /\ Routes!TileTail[4] = "TILECOL"
BY DEF Routes!TileTail

\* The path parameters of a tile URL: those before the dimensions and those after them.
LEMMA PathParamsAre ==
  ASSUME NEW S, NEW u \in Seq(S), Len(u) >= 7
  PROVE  LET p == Routes!PathParams(u, Routes!TileTail) IN
         /\ DOMAIN p = {"VERSION", "LAYER", "STYLE", "TILEMATRIXSET", "TILEMATRIX", "TILEROW",
                        "TILECOL"}
         /\ p["VERSION"] = u[1] /\ p["LAYER"] = u[2] /\ p["STYLE"] = u[3]
         /\ p["TILEMATRIXSET"] = u[Len(u) - 3] /\ p["TILEMATRIX"] = u[Len(u) - 2]
         /\ p["TILEROW"] = u[Len(u) - 1] /\ p["TILECOL"] = u[Len(u)]
<1> DEFINE T == Routes!TileTail
           p == Routes!PathParams(u, T)
           Names == {"VERSION", "LAYER", "STYLE"} \cup {T[i] : i \in DOMAIN T}
<1>1. {T[i] : i \in DOMAIN T} = {"TILEMATRIXSET", "TILEMATRIX", "TILEROW", "TILECOL"}
  BY TileTailIs
<1>2. /\ (CHOOSE i \in DOMAIN T : T[i] = "TILEMATRIXSET") = 1
      /\ (CHOOSE i \in DOMAIN T : T[i] = "TILEMATRIX") = 2
      /\ (CHOOSE i \in DOMAIN T : T[i] = "TILEROW") = 3
      /\ (CHOOSE i \in DOMAIN T : T[i] = "TILECOL") = 4
  BY TileTailIs
<1>3. /\ DOMAIN p = Names
      /\ p["VERSION"] = u[1] /\ p["LAYER"] = u[2] /\ p["STYLE"] = u[3]
  BY <1>1 DEF Routes!PathParams
<1>4. ASSUME NEW n \in {"TILEMATRIXSET", "TILEMATRIX", "TILEROW", "TILECOL"}
      PROVE  p[n] = u[Len(u) - 4 + (CHOOSE i \in DOMAIN T : T[i] = n)]
  BY <1>1, TileTailIs DEF Routes!PathParams
<1>5. /\ p["TILEMATRIXSET"] = u[Len(u) - 4 + 1] /\ p["TILEMATRIX"] = u[Len(u) - 4 + 2]
      /\ p["TILEROW"] = u[Len(u) - 4 + 3] /\ p["TILECOL"] = u[Len(u) - 4 + 4]
  BY <1>2, <1>4
<1>6. /\ Len(u) - 4 + 1 = Len(u) - 3 /\ Len(u) - 4 + 2 = Len(u) - 2
      /\ Len(u) - 4 + 3 = Len(u) - 1 /\ Len(u) - 4 + 4 = Len(u)
  OBVIOUS
<1> QED
  BY <1>1, <1>3, <1>5, <1>6

\* The parameters of a tile request without those of the dimensions.
TileNames == Routes!Required \cup {"SERVICE", "VERSION", "REQUEST", "STYLE"}

\* What the tile route adds to the path parameters.
LEMMA TileParamsAre ==
  ASSUME NEW S, NEW u \in Seq(S), Len(u) >= 7
  PROVE  LET p == TileParams(u)
             name == Dotted[u[Len(u)]]
         IN
         /\ DOMAIN p = TileNames
         /\ p["SERVICE"] = "WMTS" /\ p["REQUEST"] = "GetTile"
         /\ p["VERSION"] = u[1] /\ p["LAYER"] = u[2] /\ p["STYLE"] = u[3]
         /\ p["TILEMATRIXSET"] = u[Len(u) - 3] /\ p["TILEMATRIX"] = u[Len(u) - 2]
         /\ p["TILEROW"] = u[Len(u) - 1] /\ p["TILECOL"] = name[1]
         /\ p["FORMAT"] = Routes!MimeOf[name[2]]
<1> DEFINE q == Routes!PathParams(u, Routes!TileTail)
           name == Dotted[u[Len(u)]]
           extra == [SERVICE |-> "WMTS", REQUEST |-> "GetTile", TILECOL |-> name[1],
                     FORMAT |-> Routes!MimeOf[name[2]]]
           p == Routes!Adding(q, extra)
<1>1. p = TileParams(u)
  BY DEF TileParams
<1>2. DOMAIN extra = {"SERVICE", "REQUEST", "TILECOL", "FORMAT"}
  OBVIOUS
<1>3. /\ DOMAIN p = DOMAIN q \cup DOMAIN extra
      /\ \A n \in DOMAIN p : p[n] = IF n \in DOMAIN extra THEN extra[n] ELSE q[n]
  BY DEF Routes!Adding
<1>4. DOMAIN p = TileNames
  <2>1. DOMAIN q = {"VERSION", "LAYER", "STYLE", "TILEMATRIXSET", "TILEMATRIX", "TILEROW",
                    "TILECOL"}
    BY PathParamsAre
  <2> HIDE DEF q, extra, p
  <2> QED
    BY <1>2, <1>3, <2>1 DEF TileNames, Routes!Required
<1>5. /\ p["SERVICE"] = "WMTS" /\ p["REQUEST"] = "GetTile" /\ p["TILECOL"] = name[1]
      /\ p["FORMAT"] = Routes!MimeOf[name[2]]
  BY <1>2, <1>3
<1>6. \A n \in {"VERSION", "LAYER", "STYLE", "TILEMATRIXSET", "TILEMATRIX", "TILEROW"} :
        p[n] = q[n]
  <2>1. DOMAIN q = {"VERSION", "LAYER", "STYLE", "TILEMATRIXSET", "TILEMATRIX", "TILEROW",
                    "TILECOL"}
    BY PathParamsAre
  <2> HIDE DEF q, extra, p
  <2> QED
    BY <1>2, <1>3, <2>1
<1> QED
  BY <1>1, <1>4, <1>5, <1>6, PathParamsAre

\* The tile route takes the URL of a tile.
LEMMA TileRoute ==
  ASSUME NEW S, NEW u \in Seq(S), Len(u) >= 7, Routes!HasExtension(u[Len(u)]),
         Routes!Filled(u, 4), ~(Len(u) >= 9 /\ Routes!IsXml(u[Len(u)]))
  PROVE  Routes!AnswerRest(u) = Routes!RestTile(u)
<1>1. Len(u) # 2
  OBVIOUS
<1> QED
  BY <1>1, Zenon DEF Routes!AnswerRest

\* The URL of a tile of a served layer passes the validation of the path parameters.
LEMMA TileUrlRoute ==
  ASSUME NEW S, NEW u \in Seq(S), Routes!IsTileUrl(u), loaded
  PROVE  Routes!AnswerRest(u) = Routes!ServeRest(TileParams(u), Routes!PathDimensions(u, 4))
<1>1. Routes!AnswerRest(u) = Routes!RestTile(u)
  BY TileRoute DEF Routes!IsTileUrl
<1>2. Routes!LayerThen(u[2], "x") = "x"
  BY DEF Routes!IsTileUrl, Routes!LayerThen
<1>3. TileParams(u)["TILEROW"] \in DOMAIN Number /\ TileParams(u)["TILECOL"] \in DOMAIN Number
  BY TileParamsAre DEF Routes!IsTileUrl
<1>4. Dotted[u[Len(u)]][2] \in Routes!TileExtensions /\ u[2] \in Served
  BY DEF Routes!IsTileUrl
<1>5. Routes!RestTile(u) = Routes!ServeRest(TileParams(u), Routes!PathDimensions(u, 4))
  BY <1>3, <1>4 DEF Routes!RestTile, TileParams, Routes!LayerThen
<1> QED
  BY <1>1, <1>5

-----------------------------------------------------------------------------
\* The dimensions of a layer and the parameters that serve reads have different names.
LEMMA DimensionsAreNoParameters ==
  ASSUME NEW l \in TileLayers
  PROVE  /\ Dims[l] \in Seq([name : STRING, values : SUBSET STRING, default : STRING])
         /\ Routes!DimensionNames(l) \cap Routes!Parameters = {}
<1>1. Dims[l] \in Seq([name : STRING, values : SUBSET STRING, default : STRING])
  BY RoutesAssumption DEF Routes!ServerAssumption, Routes!NamesAssumption
<1>2. \A i \in DOMAIN Dims[l] : Dims[l][i].name \notin Routes!Parameters
  BY RoutesAssumption DEF Routes!ServerAssumption, Routes!LayersAssumption
<1> QED
  BY <1>1, <1>2 DEF Routes!DimensionNames

\* The values of the dimensions replace no other parameter.
LEMMA WithDimensionsKeeps ==
  ASSUME NEW l \in TileLayers, NEW p, NEW S, NEW d \in Seq(S), Len(d) = Len(Dims[l])
  PROVE  /\ DOMAIN Routes!WithDimensions(l, p, d) = DOMAIN p \cup Routes!DimensionNames(l)
         /\ \A n \in DOMAIN p \cap Routes!Parameters :
              Routes!WithDimensions(l, p, d)[n] = p[n]
<1>1. DOMAIN d = DOMAIN Dims[l]
  BY DimensionsAreNoParameters
<1>2. ASSUME NEW n \in Routes!Parameters PROVE ~ \E i \in DOMAIN d : Dims[l][i].name = n
  BY <1>1, DimensionsAreNoParameters DEF Routes!DimensionNames
<1> QED
  BY <1>2 DEF Routes!WithDimensions

\* What serve answers to a tile request: an error or what _get_tile answers.
LEMMA ServeTile ==
  ASSUME NEW p, loaded, TileNames \subseteq DOMAIN p,
         p["SERVICE"] = "WMTS", p["REQUEST"] = "GetTile"
  PROVE  /\ Routes!Serve(p) \in {"400", "500", Routes!GetTile(p)}
         /\ Routes!Serve(p) = "500" =>
              \/ Routes!GetTile(p) = "500"
              \/ \E n \in {"TILEMATRIX", "TILECOL", "TILEROW"} : p[n] \notin DOMAIN Number
         /\ (/\ p["VERSION"] = "1.0.0" /\ p["LAYER"] \in Served
             /\ p["STYLE"] = Style[p["LAYER"]] /\ p["TILEMATRIXSET"] \in LayerGrids[p["LAYER"]]
             /\ {p["TILEMATRIX"], p["TILECOL"], p["TILEROW"]} \subseteq DOMAIN Number
             /\ p["FORMAT"] = Mime[p["LAYER"]])
              => Routes!Serve(p) = Routes!GetTile(p)
<1>1. {"SERVICE", "VERSION", "REQUEST", "STYLE"} \subseteq DOMAIN p
      /\ Routes!Required \subseteq DOMAIN p
  BY DEF TileNames
<1> QED
  BY <1>1 DEF Routes!Serve, Routes!Param, Routes!ServeLayer

\* A tile URL is refused for its dimensions, or serve gets its parameters.
LEMMA TileIsServed ==
  ASSUME NEW S, NEW u \in Seq(S), Routes!IsTileUrl(u), loaded
  PROVE  \/ Routes!AnswerRest(u) = "400"
         \/ \E p : /\ TileNames \subseteq DOMAIN p
                   /\ \A n \in TileNames : p[n] = TileParams(u)[n]
                   /\ Routes!AnswerRest(u) = Routes!Serve(p)
<1> DEFINE q == TileParams(u)
           d == Routes!PathDimensions(u, 4)
           l == u[2]
<1>1. l \in TileLayers /\ Len(u) >= 7
  BY RoutesAssumption DEF Routes!IsTileUrl, Routes!ServerAssumption
<1>2. q["LAYER"] = l /\ DOMAIN q = TileNames /\ TileNames \subseteq Routes!Parameters
  BY <1>1, TileParamsAre DEF TileNames, Routes!Parameters
<1>3. Routes!AnswerRest(u) = Routes!ServeRest(q, d)
  BY TileUrlRoute
<1>4. CASE Dims[l] = <<>>
  BY <1>2, <1>3, <1>4 DEF Routes!ServeRest
<1>5. CASE Dims[l] # <<>> /\ ~Routes!WrongDimensions(l, d) /\ d # <<>>
  <2>1. Routes!AnswerRest(u) = Routes!Serve(Routes!WithDimensions(l, q, d))
    BY <1>2, <1>3, <1>5 DEF Routes!ServeRest
  <2>2. d \in Seq(S)
    BY <1>1 DEF Routes!PathDimensions
  <2>3. Len(d) = Len(Dims[l])
    BY <1>5 DEF Routes!WrongDimensions
  <2>4. \A n \in TileNames : n \in DOMAIN q \cap Routes!Parameters
    BY <1>2
  <2> HIDE DEF q, d, l
  <2>5. /\ DOMAIN Routes!WithDimensions(l, q, d) = DOMAIN q \cup Routes!DimensionNames(l)
        /\ \A n \in DOMAIN q \cap Routes!Parameters :
             Routes!WithDimensions(l, q, d)[n] = q[n]
    BY <1>1, <2>2, <2>3, WithDimensionsKeeps, Zenon
  <2>6. /\ TileNames \subseteq DOMAIN Routes!WithDimensions(l, q, d)
        /\ \A n \in TileNames : Routes!WithDimensions(l, q, d)[n] = q[n]
    BY <1>2, <2>4, <2>5
  <2> QED
    BY <2>1, <2>6 DEF q
<1>6. CASE Dims[l] # <<>> /\ (Routes!WrongDimensions(l, d) \/ d = <<>>)
  BY <1>2, <1>3, <1>6 DEF Routes!ServeRest
<1> QED
  BY <1>4, <1>5, <1>6

-----------------------------------------------------------------------------
\* A set of zooms that is not empty has a last one.
LEMMA GreatestZoom ==
  ASSUME NEW N \in Nat, NEW S \in SUBSET (0 .. N), S # {}
  PROVE  \E z \in S : \A y \in S : y <= z
<1> DEFINE T == {N - z : z \in S}
<1>1. T \subseteq Nat /\ T # {}
  <2>1. PICK z \in S : TRUE
    OBVIOUS
  <2>2. N - z \in T
    OBVIOUS
  <2>3. ASSUME NEW t \in T PROVE t \in Nat
    OBVIOUS
  <2> QED BY <2>2, <2>3
<1>2. PICK m \in T : \A k \in T : ~(<<k, m>> \in OpToRel(<, Nat))
  <2>1. IsWellFoundedOn(OpToRel(<, Nat), Nat)
    BY NatLessThanWellFounded
  <2> QED BY <1>1, <2>1, WFMin, Zenon
<1>3. PICK z \in S : m = N - z
  OBVIOUS
<1>4. ASSUME NEW y \in S PROVE y <= z
  <2>1. N - y \in T /\ N - y \in Nat /\ m \in Nat
    BY <1>1
  <2>2. ~(N - y < m)
    BY <1>2, <2>1 DEF OpToRel
  <2> QED BY <1>3, <2>2
<1> QED BY <1>4

\* The zooms that the server takes from the cache are those that are generated.
LEMMA SeededIsServed ==
  ASSUME NEW l \in TileLayers, NEW z \in DOMAIN Width
  PROVE  /\ z \in Nat /\ Routes!MaxZoomSeed(l) \in Int
         /\ z <= Routes!MaxZoomSeed(l) <=> z \in Routes!SeededZooms(l)
<1> DEFINE S == Routes!SeededZooms(l)
<1>1. /\ DOMAIN Width \subseteq 0 .. Routes!NoLimit /\ \A y \in DOMAIN Width : Resolution[y] \in Nat
      /\ \A y, x \in DOMAIN Width : y <= x => Resolution[x] <= Resolution[y]
      /\ MinResolutionSeed[l] \in Nat
  BY RoutesAssumption DEF Routes!ServerAssumption, Routes!ZoomsAssumption, Routes!Zooms
<1>2. S = {y \in DOMAIN Width : Resolution[y] >= MinResolutionSeed[l]}
  BY DEF Routes!SeededZooms, Routes!Zooms
<1>3. Routes!MaxZoomSeed(l) =
        IF MinResolutionSeed[l] = 0 THEN Routes!NoLimit
        ELSE IF S = {} THEN -1 ELSE CHOOSE y \in S : \A x \in S : x <= y
  BY <1>2 DEF Routes!MaxZoomSeed, Routes!Zooms
<1>4. Routes!NoLimit \in Nat
  BY SMT DEF Routes!NoLimit
<1> HIDE DEF S
<1>5. CASE MinResolutionSeed[l] = 0
  BY <1>1, <1>2, <1>3, <1>5, <1>4 DEF S
<1>6. CASE MinResolutionSeed[l] # 0 /\ S = {}
  BY <1>1, <1>3, <1>6 DEF S
<1>7. CASE MinResolutionSeed[l] # 0 /\ S # {}
  <2>1. \E y \in S : \A x \in S : x <= y
    BY <1>1, <1>2, <1>7, <1>4, GreatestZoom
  <2>2. Routes!MaxZoomSeed(l) \in S /\ \A x \in S : x <= Routes!MaxZoomSeed(l)
    BY <1>3, <1>7, <2>1
  <2>3. ASSUME z <= Routes!MaxZoomSeed(l) PROVE z \in S
    BY <1>1, <1>2, <2>2, <2>3
  <2> QED
    BY <1>1, <1>2, <2>2, <2>3 DEF S
<1> QED
  BY <1>5, <1>6, <1>7

\* x / n * n is x: the server takes the tile for the corner of its meta tile.
LEMMA SameColumn ==
  ASSUME NEW x \in Int, NEW n \in Nat \ {0}
  PROVE  Routes!ServedMetaColumn(x, n) = x
BY DEF Routes!ServedMetaColumn

-----------------------------------------------------------------------------
\* Values of the dimensions that no choice of theirs allows are answered with 400.
LEMMA BadDimensionsAreRefused ==
  ASSUME NEW S, NEW u \in Seq(S), Routes!IsTileUrl(u), loaded, Dims[u[2]] # <<>>,
         Routes!PathDimensions(u, 4) \notin Routes!DimensionChoices(u[2])
  PROVE  Routes!AnswerRest(u) = "400"
<1> DEFINE l == u[2]
           d == Routes!PathDimensions(u, 4)
<1>1. l \in TileLayers /\ Len(u) >= 7
  BY RoutesAssumption DEF Routes!IsTileUrl, Routes!ServerAssumption
<1>2. d \in Seq(S) /\ Len(Dims[l]) \in Nat /\ DOMAIN Dims[l] = 1 .. Len(Dims[l])
  BY <1>1, DimensionsAreNoParameters DEF Routes!PathDimensions
<1>3. TileParams(u)["LAYER"] = l
  BY <1>1, TileParamsAre
<1> HIDE DEF d, l
<1>4. Routes!WrongDimensions(l, d)
  <2> SUFFICES ASSUME Len(d) = Len(Dims[l]), \A i \in DOMAIN d : d[i] \in Dims[l][i].values
               PROVE  d \in Routes!DimensionChoices(l)
    BY DEF Routes!WrongDimensions, d, l
  <2>1. DOMAIN d = DOMAIN Dims[l] /\ d = [i \in DOMAIN d |-> d[i]]
    BY <1>2
  <2>2. \A i \in DOMAIN Dims[l] : d[i] \in Dims[l][i].values
    BY <2>1
  <2> DEFINE U == UNION {Dims[l][i].values : i \in DOMAIN Dims[l]}
  <2>3. \A i \in DOMAIN Dims[l] : d[i] \in U
    BY <2>2
  <2> HIDE DEF U
  <2>4. d \in [DOMAIN Dims[l] -> U]
    BY <2>1, <2>3, Zenon
  <2> QED
    BY <2>2, <2>4 DEF Routes!DimensionChoices, U
<1> QED
  BY <1>3, <1>4, TileUrlRoute DEF Routes!ServeRest, d, l

\* An error of the server for the tile of a zoom of the grid is a failure of the store or
\* of the map cache, whichever of them the tile needs.
LEMMA TileErrorIsAFailure ==
  ASSUME NEW S, NEW u \in Seq(S), Routes!IsTileUrl(u), loaded,
         u[Len(u) - 2] \in DOMAIN Number, Number[u[Len(u) - 2]] \in DOMAIN Width,
         Routes!AnswerRest(u) \in {"500", "502"}
  PROVE  failing \in Routes!FailuresFor(u[2], Number[u[Len(u) - 2]])
<1>1. PICK p : /\ TileNames \subseteq DOMAIN p
               /\ \A n \in TileNames : p[n] = TileParams(u)[n]
               /\ Routes!AnswerRest(u) = Routes!Serve(p)
  BY TileIsServed
<1>2. /\ p["SERVICE"] = "WMTS" /\ p["REQUEST"] = "GetTile" /\ p["LAYER"] = u[2]
      /\ p["TILEMATRIX"] = u[Len(u) - 2]
      /\ p["TILEROW"] \in DOMAIN Number /\ p["TILECOL"] \in DOMAIN Number
  BY <1>1, TileParamsAre DEF Routes!IsTileUrl, TileNames, Routes!Required
<1>3. Routes!GetTile(p) \in {"500", "502"}
  BY <1>1, <1>2, ServeTile
<1> DEFINE l == u[2]
           z == Number[p["TILEMATRIX"]]
           x == Number[p["TILECOL"]]
<1>4. z \in Routes!Zooms
  BY <1>2 DEF Routes!Zooms
<1>5. ASSUME Routes!MapCacheAnswer \in {"500", "502"} PROVE failing \in Routes!MapCacheFailures
  BY <1>5 DEF Routes!MapCacheAnswer, Routes!MapCacheFailures
<1>6. ASSUME Routes!StoreAnswer(z, Routes!TileKey(l, p, z, x)) \in {"500", "502"}
      PROVE  failing \in Routes!StoreFailures
  BY <1>4, <1>6 DEF Routes!StoreAnswer, Routes!StoreFailures
<1>7. \/ (z > Routes!MaxZoomSeed(l) \/ geomsRedirect)
           /\ Routes!GetTile(p) = Routes!MapCacheAnswer
      \/ /\ ~(z > Routes!MaxZoomSeed(l))
         /\ Routes!GetTile(p) = Routes!StoreAnswer(z, Routes!TileKey(l, p, z, x))
  BY <1>2, <1>4 DEF Routes!GetTile, Routes!Redirected
<1> QED
  BY <1>2, <1>3, <1>5, <1>6, <1>7 DEF Routes!FailuresFor

\* A box of n columns from x on lies in the meta tile of x and the next one.
LEMMA BoxIsInTwo ==
  ASSUME NEW l, NEW z, NEW x \in Int, NEW n \in Nat \ {0}, Routes!Meets(l, z, x, n)
  PROVE  LET m == Routes!MetaColumn(x, n)
         IN  Routes!Meets(l, z, m, n) \/ (x # m /\ Routes!Meets(l, z, m + n, n))
<1> DEFINE m == Routes!MetaColumn(x, n)
<1>1. m \in Int /\ m <= x /\ x < m + n
  <2>1. x \div n \in Int /\ x = n * (x \div n) + (x % n) /\ x % n \in 0 .. n - 1
    OBVIOUS
  <2>2. n * (x \div n) = m
    BY <2>1 DEF Routes!MetaColumn
  <2> HIDE DEF m
  <2>3. m \in Int
    BY <2>1, <2>2
  <2> QED
    BY <2>1, <2>2, <2>3
<1> HIDE DEF m
<1>2. PICK c \in x .. x + n - 1 : c \in Geometry[l][z]
  BY DEF Routes!Meets
<1>3. CASE c \in m .. m + n - 1
  BY <1>2, <1>3 DEF Routes!Meets, m
<1>4. CASE c \notin m .. m + n - 1
  <2>1. c \in m + n .. m + n + n - 1 /\ x # m
    BY <1>1, <1>2, <1>4
  <2> QED
    BY <1>2, <2>1 DEF Routes!Meets, m
<1> QED
  BY <1>3, <1>4

\* With geoms_redirect an empty tile is at a seeded zoom, and the generation makes its meta
\* tile, or the next one if the tile is not the first of its own.
LEMMA EmptyIsInGeometry ==
  ASSUME NEW S, NEW u \in Seq(S), Routes!IsTileUrl(u), geomsRedirect,
         Routes!AnswerRest(u) = "204"
  PROVE  LET l == u[2]
             n == MetaSize[l]
             z == Number[u[Len(u) - 2]]
             x == Number[Dotted[u[Len(u)]][1]]
             m == Routes!MetaColumn(x, n)
         IN  /\ z \in Routes!SeededZooms(l)
             /\ Routes!Meets(l, z, m, n) \/ (x # m /\ Routes!Meets(l, z, m + n, n))
<1> DEFINE l == u[2]
           z == Number[u[Len(u) - 2]]
           x == Number[Dotted[u[Len(u)]][1]]
<1>1. loaded /\ Len(u) >= 7 /\ l \in TileLayers /\ MetaSize[l] \in Nat \ {0}
  <2>1. loaded
    BY NoConfigurationIsNotFound
  <2> QED
    BY <2>1, RoutesAssumption DEF Routes!IsTileUrl, Routes!ServerAssumption
<1>2. PICK p : /\ TileNames \subseteq DOMAIN p
               /\ \A n \in TileNames : p[n] = TileParams(u)[n]
               /\ Routes!Serve(p) = "204"
  BY <1>1, TileIsServed
<1>3. /\ p["SERVICE"] = "WMTS" /\ p["REQUEST"] = "GetTile"
      /\ p["LAYER"] = l /\ Number[p["TILEMATRIX"]] = z /\ Number[p["TILECOL"]] = x
  BY <1>1, <1>2, TileParamsAre DEF TileNames, Routes!Required
<1>4. Routes!GetTile(p) = "204"
  BY <1>1, <1>2, <1>3, ServeTile
<1>5. x \in Int
  BY RoutesAssumption DEF Routes!IsTileUrl, Routes!ServerAssumption, Routes!TokensAssumption
<1>6. Routes!ServedMetaColumn(x, MetaSize[l]) = x
  BY <1>1, <1>5, SameColumn
<1>7. z \in DOMAIN Width /\ ~(z > Routes!MaxZoomSeed(l)) /\ Routes!Meets(l, z, x, MetaSize[l])
  BY <1>3, <1>4, <1>6 DEF Routes!GetTile, Routes!MapCacheAnswer, Routes!Redirected, Routes!Zooms
<1> HIDE DEF x, z, l
<1>8. z \in Routes!SeededZooms(l)
  BY <1>1, <1>7, SeededIsServed
<1> QED
  BY <1>1, <1>5, <1>7, <1>8, BoxIsInTwo DEF x, z, l

-----------------------------------------------------------------------------
\* The path of one segment.
LEMMA OneSegment ==
  ASSUME NEW f \in Seq(STRING), Len(f) = 1, NEW x, f[1] = x
  PROVE  f = <<x>>
<1> DEFINE S == STRING \cup {x}
           g == <<x>>
<1>1. g \in Seq(S) /\ Len(g) = 1 /\ g[1] = x
  OBVIOUS
<1>2. f \in Seq(S)
  OBVIOUS
<1> HIDE DEF g, S
<1>3. f = g
  BY <1>1, <1>2, SeqEqual
<1> QED
  BY <1>3 DEF g

\* What follows "static" in a URL is the path of the file.
LEMMA StaticPath ==
  ASSUME NEW f \in Seq(STRING)
  PROVE  LET u == <<"static">> \o f
         IN  /\ Len(u) \in Nat /\ Len(u) = Len(f) + 1 /\ u[1] = "static" /\ Tail(u) = f
             /\ \A i \in 1 .. Len(f) : u[i + 1] = f[i]
<1> DEFINE S == STRING \cup {"static"}
           s == <<"static">>
           u == s \o f
<1>1. s \in Seq(S) /\ Len(s) = 1 /\ s[1] = "static"
  OBVIOUS
<1>2. f \in Seq(S) /\ Len(f) \in Nat
  OBVIOUS
<1> HIDE DEF s, S
<1>3. /\ u \in Seq(S) /\ Len(u) = Len(s) + Len(f)
      /\ \A i \in 1 .. Len(s) + Len(f) : u[i] = IF i <= Len(s) THEN s[i] ELSE f[i - Len(s)]
  BY <1>1, <1>2, ConcatProperties, Zenon
<1> HIDE DEF u
<1>4. Len(u) \in Nat /\ Len(u) = Len(f) + 1
  BY <1>1, <1>2, <1>3
<1>5. u[1] = "static"
  BY <1>1, <1>2, <1>3
<1>6. ASSUME NEW i \in 1 .. Len(f) PROVE u[i + 1] = f[i]
  <2>1. i + 1 \in 1 .. Len(s) + Len(f) /\ ~(i + 1 <= Len(s)) /\ i + 1 - Len(s) = i
    BY <1>1, <1>2
  <2> QED
    BY <1>3, <2>1
<1>7. u # <<>>
  BY <1>2, <1>4
<1>8. /\ Tail(u) \in Seq(S) /\ Len(Tail(u)) = Len(u) - 1
      /\ \A i \in 1 .. Len(Tail(u)) : Tail(u)[i] = u[i + 1]
  BY <1>3, <1>7, HeadTailProperties, Zenon
<1>9. Len(Tail(u)) = Len(f)
  BY <1>2, <1>4, <1>8
<1>10. Tail(u) = f
  BY <1>2, <1>6, <1>8, <1>9, SeqEqual
<1> QED
  BY <1>4, <1>5, <1>6, <1>10 DEF u, s

\* A file of the cache that is no tile is given, if its extension is allowed.
LEMMA FileIsGiven ==
  ASSUME NEW f \in OtherFiles, loaded, storage # "s3",
         Dotted[f[Len(f)]][2] \in AllowedExtensions
  PROVE  Routes!AnswerRest(<<"static">> \o f) = "file"
<1> DEFINE u == <<"static">> \o f
<1>1. f \in Seq(STRING) /\ 1 <= Len(f) /\ Len(f) <= 5
  BY RoutesAssumption DEF Routes!ServerAssumption, Routes!FilesAssumption
<1>2. f # <<"WMTSCapabilities.xml">>
  BY RoutesAssumption DEF Routes!ServerAssumption, Routes!FilesAssumption
<1>3. /\ \A i \in DOMAIN f : f[i] \notin {"", ".", ".."}
      /\ f[Len(f)] \in DOMAIN Dotted
  BY RoutesAssumption DEF Routes!ServerAssumption, Routes!FilesAssumption
<1>4. Len(f) \in Nat
  BY <1>1
<1>5. /\ Len(u) = Len(f) + 1 /\ Len(u) \in Nat /\ u[1] = "static" /\ Tail(u) = f
      /\ \A i \in 1 .. Len(f) : u[i + 1] = f[i]
  BY <1>1, StaticPath
<1> HIDE DEF u
<1>6. ~(Len(u) = 2 /\ u[2] = "WMTSCapabilities.xml")
  <2> SUFFICES ASSUME Len(u) = 2, u[2] = "WMTSCapabilities.xml" PROVE FALSE
    OBVIOUS
  <2>1. Len(f) = 1
    <3>1. Len(u) = Len(f) + 1 /\ Len(u) = 2
      BY <1>5
    <3>2. \A n \in Nat : n + 1 = 2 => n = 1
      OBVIOUS
    <3> QED
      BY <1>4, <3>1, <3>2, Zenon
  <2>2. u[1 + 1] = f[1]
    BY <1>5, <2>1
  <2>3. f[1] = "WMTSCapabilities.xml"
    BY <2>2
  <2> QED
    BY <1>1, <1>2, <2>1, <2>3, OneSegment
<1>7. ~(Len(u) >= 9) /\ ~(Len(u) >= 7) /\ Len(u) >= 2
  BY <1>1, <1>4, <1>5
<1>8. Routes!AnswerRest(u) = Routes!RestStatic(f)
  BY <1>5, <1>6, <1>7, Zenon DEF Routes!AnswerRest
<1>9. f \in Routes!Files
  BY DEF Routes!Files
<1>10. Routes!RestStatic(f) = "file"
  BY <1>3, <1>9 DEF Routes!RestStatic, Routes!HasExtension, Routes!GetFile
<1> QED
  BY <1>8, <1>10 DEF u

-----------------------------------------------------------------------------
\* What an invariant state says of the request being answered.
LEMMA AnswerIs ==
  ASSUME RouteInv
  PROVE  /\ last.kind = "rest" => /\ last.request \in Seq(STRING)
                                  /\ last.answer = Routes!AnswerRest(last.request)
         /\ last # Routes!NoRequest => \/ last.answer = Routes!AnswerRest(last.request)
                                       \/ last.answer = Routes!AnswerKvp(last.request)
<1>1. Urls \subseteq Seq(STRING)
  BY RoutesAssumption DEF Routes!ServerAssumption
<1> QED
  BY <1>1 DEF RouteInv, AnswersTheRequest, Routes!NoRequest

\* The invariant gives the types.
LEMMA RoutesTyped == RouteInv => Routes!TypeOK
<1> SUFFICES ASSUME RouteInv PROVE Routes!TypeOK
  OBVIOUS
<1>1. ASSUME NEW t \in store
      PROVE  t[1] \in TileLayers /\ t[4] \in DOMAIN Width /\ t[5] \in 0 .. Width[t[4]] - 1
  BY DEF RouteInv, Generated
<1>2. last.answer \in Routes!Answers \cup {"none"} /\ last.kind \in {"none", "rest", "kvp"}
  BY AnswersAreTyped DEF RouteInv, AnswersTheRequest, Routes!NoRequest
<1> QED
  BY <1>1, <1>2 DEF RouteInv, Routes!TypeOK, Routes!Zooms

\* Faulty values of dimensions are answered with 400, a host without a configuration with
\* 404, a tile of a zoom of the grid by an error of the server only when the store or the
\* map cache that it needs fails, the files of the cache that are no tiles are given, and
\* with geoms_redirect "no content" is for seeded zooms and for tiles whose meta tile, or
\* the next one, is generated.
THEOREM AnswersStayRight == SharedSpec => []AnswersAreRight
<1>1. ASSUME RouteInv PROVE AnswersAreRight
  <2>1. Routes!BadDimensionsAre400
    BY <1>1, AnswerIs, BadDimensionsAreRefused DEF Routes!BadDimensionsAre400, Routes!LastTile
  <2>2. Routes!NoConfigurationIs404
    BY <1>1, AnswerIs, NoConfigurationIsNotFound DEF Routes!NoConfigurationIs404
  <2>3. Routes!NoServerError
    BY <1>1, AnswerIs, TileErrorIsAFailure
       DEF Routes!NoServerError, Routes!LastTile, Routes!LastPart, Routes!Zooms
  <2>4. Routes!LegendsAreServed
    BY <1>1, AnswerIs, FileIsGiven DEF Routes!LegendsAreServed
  <2>5. Routes!EmptyOnlyInGeometry
    BY <1>1, AnswerIs, EmptyIsInGeometry
       DEF Routes!EmptyOnlyInGeometry, Routes!LastTile, Routes!LastPart
  <2> QED
    BY <1>1, <2>1, <2>2, <2>3, <2>4, <2>5, RoutesTyped DEF AnswersAreRight
<1> QED
  BY <1>1, RoutesInv, PTL

-----------------------------------------------------------------------------
\* What comes before the dimensions of a tile, they and what comes after them.
Parts(S, a, d, b, m) ==
  /\ a \in Seq(S) /\ d \in Seq(S) /\ b \in Seq(S)
  /\ Len(a) = 3 /\ Len(b) = 4 /\ m = Len(d) /\ m \in Nat

\* The sequence u is made of these three parts.
Joined(S, u, a, d, b, m) ==
  /\ u \in Seq(S) /\ Len(u) = 3 + m + 4
  /\ \A i \in 1 .. 3 : u[i] = a[i]
  /\ \A i \in 1 .. m : u[i + 3] = d[i]
  /\ \A i \in 1 .. 4 : u[m + 3 + i] = b[i]

\* The concatenation is made of its parts.
LEMMA PartsAreJoined ==
  ASSUME NEW S, NEW a, NEW d, NEW b, NEW m, Parts(S, a, d, b, m)
  PROVE  Joined(S, a \o d \o b, a, d, b, m)
<1> DEFINE v == a \o d
           u == v \o b
<1>0. /\ a \in Seq(S) /\ d \in Seq(S) /\ b \in Seq(S)
      /\ Len(a) = 3 /\ Len(b) = 4 /\ m = Len(d) /\ m \in Nat
  BY DEF Parts
<1>1. /\ v \in Seq(S) /\ Len(v) = 3 + m
      /\ \A i \in 1 .. 3 + m : v[i] = IF i <= 3 THEN a[i] ELSE d[i - 3]
  <2>1. /\ v \in Seq(S) /\ Len(v) = Len(a) + m
        /\ \A i \in 1 .. Len(a) + m : v[i] = IF i <= Len(a) THEN a[i] ELSE d[i - Len(a)]
    BY <1>0, ConcatProperties, Zenon
  <2> QED
    BY <1>0, <2>1, Zenon
<1> HIDE DEF v
<1>2. /\ u \in Seq(S) /\ Len(u) = 3 + m + 4
      /\ \A i \in 1 .. 3 + m + 4 : u[i] = IF i <= 3 + m THEN v[i] ELSE b[i - (3 + m)]
  <2>1. /\ u \in Seq(S) /\ Len(u) = Len(v) + Len(b)
        /\ \A i \in 1 .. Len(v) + Len(b) : u[i] = IF i <= Len(v) THEN v[i] ELSE b[i - Len(v)]
    BY <1>0, <1>1, ConcatProperties, Zenon
  <2> QED
    BY <1>0, <1>1, <2>1, Zenon
<1> HIDE DEF u
<1>3. ASSUME NEW i \in 1 .. 3 PROVE u[i] = a[i]
  <2>1. i \in 1 .. 3 + m + 4 /\ i <= 3 + m /\ i \in 1 .. 3 + m /\ i <= 3
    BY <1>0
  <2> QED
    BY <1>1, <1>2, <2>1
<1>4. ASSUME NEW i \in 1 .. m PROVE u[i + 3] = d[i]
  <2>1. PICK k \in Int : k = i + 3
    BY <1>0
  <2>2. k \in 1 .. 3 + m + 4 /\ k <= 3 + m /\ k \in 1 .. 3 + m /\ ~(k <= 3) /\ k - 3 = i
    BY <1>0, <2>1
  <2>3. u[k] = d[i]
    BY <1>1, <1>2, <2>2, Zenon
  <2> QED
    BY <2>1, <2>3, Zenon
<1>5. ASSUME NEW i \in 1 .. 4 PROVE u[m + 3 + i] = b[i]
  <2>1. PICK k \in Int : k = m + 3 + i
    BY <1>0
  <2>2. k \in 1 .. 3 + m + 4 /\ ~(k <= 3 + m) /\ k - (3 + m) = i
    BY <1>0, <2>1
  <2>3. u[k] = b[i]
    BY <1>2, <2>2, Zenon
  <2> QED
    BY <2>1, <2>3, Zenon
<1>6. Joined(S, u, a, d, b, m)
  BY <1>2, <1>3, <1>4, <1>5, Zenon DEF Joined
<1> QED
  BY <1>6, Zenon DEF u, v

\* What is read from both ends of u and between them are its parts.
LEMMA ThreeParts ==
  ASSUME NEW S, NEW u \in Seq(S), NEW d \in Seq(S), NEW a, NEW b,
         NEW m \in Nat, m = Len(d), Len(u) = 3 + m + 4,
         \A i \in 1 .. 3 : u[i] = a[i],
         \A i \in 1 .. m : u[i + 3] = d[i],
         \A i \in 1 .. 4 : u[m + 3 + i] = b[i]
  PROVE  /\ u[1] = a[1] /\ u[2] = a[2] /\ u[3] = a[3]
         /\ u[Len(u) - 3] = b[1] /\ u[Len(u) - 2] = b[2] /\ u[Len(u) - 1] = b[3]
         /\ u[Len(u)] = b[4]
         /\ SubSeq(u, 4, Len(u) - 4) = d
<1>1. u[1] = a[1] /\ u[2] = a[2] /\ u[3] = a[3]
  OBVIOUS
<1>2. /\ u[m + 3 + 1] = b[1] /\ u[m + 3 + 2] = b[2] /\ u[m + 3 + 3] = b[3]
      /\ u[m + 3 + 4] = b[4]
  <2>1. 1 \in 1 .. 4 /\ 2 \in 1 .. 4 /\ 3 \in 1 .. 4 /\ 4 \in 1 .. 4
    OBVIOUS
  <2> QED
    BY <2>1, Zenon
<1>3. /\ Len(u) - 3 = m + 3 + 1 /\ Len(u) - 2 = m + 3 + 2 /\ Len(u) - 1 = m + 3 + 3
      /\ Len(u) = m + 3 + 4 /\ Len(u) - 4 = m + 3
  OBVIOUS
<1>4. SubSeq(u, 4, m + 3) = d
  <2> DEFINE w == SubSeq(u, 4, m + 3)
  <2>1. \A i \in 4 .. m + 3 : u[i] \in S
    OBVIOUS
  <2>2. /\ w \in Seq(S) /\ Len(w) = IF 4 <= m + 3 THEN m + 3 - 4 + 1 ELSE 0
        /\ \A i \in 1 .. m + 3 - 4 + 1 : w[i] = u[4 + i - 1]
    <3>1. 4 \in Int /\ m + 3 \in Int
      OBVIOUS
    <3> QED
      BY <2>1, <3>1, SubSeqProperties
  <2> HIDE DEF w
  <2>3. Len(w) = m
    BY <2>2
  <2>4. ASSUME NEW i \in 1 .. m PROVE w[i] = d[i]
    <3>1. i \in 1 .. m + 3 - 4 + 1 /\ 4 + i - 1 = i + 3
      OBVIOUS
    <3>2. w[i] = u[i + 3]
      BY <2>2, <3>1
    <3> QED
      BY <3>2
  <2>5. w = d
    BY <2>2, <2>3, <2>4, SeqEqual
  <2> QED
    BY <2>5 DEF w
<1> QED
  BY <1>1, <1>2, <1>3, <1>4, Zenon

-----------------------------------------------------------------------------
\* The name of the file of a column.
TileFile(l, x) == CHOOSE s \in DOMAIN Dotted : Dotted[s] = <<TokenOf[x], Extension[l]>>

\* The choice of a tile, by its parts.
ChosenTile(l, d, g, z, x) ==
  /\ l \in TileLayers /\ d \in Routes!DimensionChoices(l) /\ g \in LayerGrids[l]
  /\ z \in DOMAIN Width /\ x \in 0 .. Width[z] - 1

\* What the names of a tile are.
TokensAre(l, g, z, x) ==
  /\ TileFile(l, x) \in DOMAIN Dotted
  /\ Dotted[TileFile(l, x)][1] = TokenOf[x]
  /\ Dotted[TileFile(l, x)][2] = Extension[l]
  /\ Extension[l] \in Routes!TileExtensions /\ Routes!MimeOf[Extension[l]] = Mime[l]
  /\ Extension[l] # "xml"
  /\ TokenOf[x] \in DOMAIN Number /\ Number[TokenOf[x]] = x
  /\ TokenOf[z] \in DOMAIN Number /\ Number[TokenOf[z]] = z
  /\ "0" \in DOMAIN Number /\ TileFile(l, x) # ""
  /\ Routes!Identifier(z) # "" /\ l # "" /\ Style[l] # "" /\ g # ""

\* The tokens of a tile are not empty and are read as they were written.
LEMMA TileFileIs ==
  ASSUME NEW l, NEW d, NEW g, NEW z, NEW x, ChosenTile(l, d, g, z, x)
  PROVE  TokensAre(l, g, z, x)
<1> USE RoutesAssumption DEF Routes!ServerAssumption, ChosenTile
<1>1. \E s \in DOMAIN Dotted : Dotted[s] = <<TokenOf[x], Extension[l]>>
  BY DEF Routes!TokensAssumption, Routes!Zooms
<1>2. /\ TileFile(l, x) \in DOMAIN Dotted
      /\ Dotted[TileFile(l, x)][1] = TokenOf[x]
      /\ Dotted[TileFile(l, x)][2] = Extension[l]
  BY <1>1 DEF TileFile
<1>3. /\ TokenOf[x] \in DOMAIN Number /\ Number[TokenOf[x]] = x
      /\ TokenOf[z] \in DOMAIN Number /\ Number[TokenOf[z]] = z
      /\ "0" \in DOMAIN Number /\ "" \notin DOMAIN Number \cup DOMAIN Dotted
  BY DEF Routes!TokensAssumption, Routes!Zooms
<1>4. /\ Extension[l] \in Routes!TileExtensions /\ Routes!MimeOf[Extension[l]] = Mime[l]
      /\ l # "" /\ Style[l] # "" /\ g # "" /\ ResolutionIdentifier[z] # ""
  BY DEF Routes!NamesAssumption, Routes!LayersAssumption, Routes!Zooms
<1>5. "xml" \notin Routes!TileExtensions
  BY DEF Routes!TileExtensions, Routes!MimeOf
<1>6. Routes!Identifier(z) # "" /\ TileFile(l, x) # ""
  BY <1>2, <1>3, <1>4 DEF Routes!Identifier
<1> QED
  BY <1>2, <1>3, <1>4, <1>5, <1>6, Zenon DEF TokensAre

\* A choice of the dimensions is a sequence of allowed values.
LEMMA ChoicesAreSequences ==
  ASSUME NEW l \in TileLayers, NEW d \in Routes!DimensionChoices(l)
  PROVE  /\ d \in Seq(UNION {Dims[l][i].values : i \in DOMAIN Dims[l]})
         /\ Len(d) = Len(Dims[l]) /\ DOMAIN d = DOMAIN Dims[l]
         /\ DOMAIN Dims[l] = 1 .. Len(Dims[l]) /\ Len(Dims[l]) \in Nat
         /\ \A i \in DOMAIN Dims[l] : d[i] \in Dims[l][i].values
         /\ d = [i \in DOMAIN Dims[l] |-> d[i]]
<1> DEFINE U == UNION {Dims[l][i].values : i \in DOMAIN Dims[l]}
<1>1. DOMAIN Dims[l] = 1 .. Len(Dims[l]) /\ Len(Dims[l]) \in Nat
  BY DimensionsAreNoParameters
<1>2. d \in [DOMAIN Dims[l] -> U] /\ \A i \in DOMAIN Dims[l] : d[i] \in Dims[l][i].values
  BY DEF Routes!DimensionChoices
<1> HIDE DEF U
<1>3. d \in [1 .. Len(Dims[l]) -> U]
  BY <1>1, <1>2
<1>4. d \in Seq(U) /\ Len(d) = Len(Dims[l])
  BY <1>1, <1>3
<1> QED
  BY <1>1, <1>2, <1>4 DEF U

\* The segments of the URL of a tile.
LEMMA TileUrlIs ==
  ASSUME NEW l, NEW d, NEW g, NEW z, NEW x, ChosenTile(l, d, g, z, x)
  PROVE  LET u == Routes!TileUrl(<<l, d, g, z, x>>)
         IN  /\ \E S : u \in Seq(S)
             /\ Len(u) = Len(d) + 7 /\ Len(u) \in Nat /\ Len(u) >= 7
             /\ u[1] = "1.0.0" /\ u[2] = l /\ u[3] = Style[l]
             /\ u[Len(u) - 3] = g /\ u[Len(u) - 2] = Routes!Identifier(z)
             /\ u[Len(u) - 1] = "0" /\ u[Len(u)] = TileFile(l, x)
             /\ Routes!PathDimensions(u, 4) = d
<1> DEFINE U == UNION {Dims[l][i].values : i \in DOMAIN Dims[l]}
           a == <<"1.0.0", l, Style[l]>>
           b == <<g, Routes!Identifier(z), "0", TileFile(l, x)>>
           S == U \cup {"1.0.0", l, Style[l], g, Routes!Identifier(z), "0", TileFile(l, x)}
           u == a \o d \o b
<1>1. u = Routes!TileUrl(<<l, d, g, z, x>>)
  BY DEF Routes!TileUrl, TileFile
<1>2. d \in Seq(U)
  BY ChoicesAreSequences DEF ChosenTile
<1>3. d \in Seq(S) /\ Len(d) \in Nat
  <2> HIDE DEF U
  <2>1. U \subseteq S
    OBVIOUS
  <2> HIDE DEF S
  <2> QED
    BY <1>2, <2>1
<1>4. a \in Seq(S) /\ Len(a) = 3 /\ a[1] = "1.0.0" /\ a[2] = l /\ a[3] = Style[l]
  OBVIOUS
<1>5. /\ b \in Seq(S) /\ Len(b) = 4
      /\ b[1] = g /\ b[2] = Routes!Identifier(z) /\ b[3] = "0" /\ b[4] = TileFile(l, x)
  OBVIOUS
<1> HIDE DEF U, a, b, S
<1>6. PICK m \in Nat : m = Len(d)
  BY <1>3
<1>7. Parts(S, a, d, b, m)
  BY <1>3, <1>4, <1>5, <1>6, Zenon DEF Parts
<1>8. Joined(S, u, a, d, b, m)
  BY <1>7, PartsAreJoined
<1> HIDE DEF u
<1>9. /\ u \in Seq(S) /\ Len(u) = 3 + m + 4
      /\ \A i \in 1 .. 3 : u[i] = a[i]
      /\ \A i \in 1 .. m : u[i + 3] = d[i]
      /\ \A i \in 1 .. 4 : u[m + 3 + i] = b[i]
  BY <1>8, Zenon DEF Joined
<1>10. Len(u) = m + 7 /\ Len(u) \in Nat
  BY <1>9
<1>11. /\ u \in Seq(S) /\ Len(u) = Len(d) + 7 /\ Len(u) \in Nat
      /\ u[1] = a[1] /\ u[2] = a[2] /\ u[3] = a[3]
      /\ u[Len(u) - 3] = b[1] /\ u[Len(u) - 2] = b[2] /\ u[Len(u) - 1] = b[3]
      /\ u[Len(u)] = b[4]
      /\ SubSeq(u, 4, Len(u) - 4) = d
  BY <1>3, <1>6, <1>9, <1>10, ThreeParts
<1>12. Len(u) >= 7
  BY <1>3, <1>11
<1> QED
  BY <1>1, <1>4, <1>5, <1>11, <1>12, Zenon DEF Routes!PathDimensions, u

-----------------------------------------------------------------------------
\* What the parameters of a tile have besides its dimensions.
TileBase(l, g, z, x) ==
  [SERVICE |-> "WMTS", VERSION |-> "1.0.0", REQUEST |-> "GetTile",
   LAYER |-> l, STYLE |-> Style[l], FORMAT |-> Mime[l],
   TILEMATRIXSET |-> g, TILEMATRIX |-> Routes!Identifier(z),
   TILEROW |-> "0", TILECOL |-> TokenOf[x]]

\* The names and the values of these parameters.
LEMMA TileBaseIs ==
  ASSUME NEW l, NEW g, NEW z, NEW x
  PROVE  LET b == TileBase(l, g, z, x) IN
         /\ DOMAIN b = TileNames
         /\ b["SERVICE"] = "WMTS" /\ b["VERSION"] = "1.0.0" /\ b["REQUEST"] = "GetTile"
         /\ b["LAYER"] = l /\ b["STYLE"] = Style[l] /\ b["FORMAT"] = Mime[l]
         /\ b["TILEMATRIXSET"] = g /\ b["TILEMATRIX"] = Routes!Identifier(z)
         /\ b["TILEROW"] = "0" /\ b["TILECOL"] = TokenOf[x]
BY DEF TileBase, TileNames, Routes!Required

\* The tile route makes of the URL of a tile what a client writes in a KVP request.
LEMMA TileUrlParams ==
  ASSUME NEW l, NEW d, NEW g, NEW z, NEW x, ChosenTile(l, d, g, z, x)
  PROVE  TileParams(Routes!TileUrl(<<l, d, g, z, x>>)) = TileBase(l, g, z, x)
<1> DEFINE u == Routes!TileUrl(<<l, d, g, z, x>>)
           p == TileParams(u)
           b == TileBase(l, g, z, x)
<1>1. /\ Len(u) >= 7 /\ u[1] = "1.0.0" /\ u[2] = l /\ u[3] = Style[l]
      /\ u[Len(u) - 3] = g /\ u[Len(u) - 2] = Routes!Identifier(z)
      /\ u[Len(u) - 1] = "0" /\ u[Len(u)] = TileFile(l, x)
  BY TileUrlIs
<1>2. PICK S : u \in Seq(S)
  BY TileUrlIs
<1>3. p = [n \in DOMAIN p |-> p[n]]
  BY DEF TileParams, Routes!Adding
<1>4. b = [n \in DOMAIN b |-> b[n]]
  BY DEF TileBase
<1> HIDE DEF u
<1>5. /\ DOMAIN p = TileNames
      /\ p["SERVICE"] = "WMTS" /\ p["REQUEST"] = "GetTile"
      /\ p["VERSION"] = u[1] /\ p["LAYER"] = u[2] /\ p["STYLE"] = u[3]
      /\ p["TILEMATRIXSET"] = u[Len(u) - 3] /\ p["TILEMATRIX"] = u[Len(u) - 2]
      /\ p["TILEROW"] = u[Len(u) - 1] /\ p["TILECOL"] = Dotted[u[Len(u)]][1]
      /\ p["FORMAT"] = Routes!MimeOf[Dotted[u[Len(u)]][2]]
  BY <1>1, <1>2, TileParamsAre
<1>6. p["TILECOL"] = TokenOf[x] /\ p["FORMAT"] = Mime[l]
  <2>1. /\ Dotted[TileFile(l, x)][1] = TokenOf[x] /\ Dotted[TileFile(l, x)][2] = Extension[l]
        /\ Routes!MimeOf[Extension[l]] = Mime[l]
    <3>1. TokensAre(l, g, z, x)
      BY TileFileIs
    <3> QED
      BY <3>1, Zenon DEF TokensAre
  <2> HIDE DEF p
  <2> QED
    BY <1>1, <1>5, <2>1
<1> HIDE DEF p, b
<1>7. \A n \in TileNames : p[n] = b[n]
  BY <1>1, <1>5, <1>6, TileBaseIs DEF TileNames, Routes!Required, b
<1>8. DOMAIN b = TileNames
  BY TileBaseIs DEF b
<1>9. p = b
  BY <1>5, <1>7, <1>8, <1>3, <1>4
<1> QED
  BY <1>9 DEF p, b, u

-----------------------------------------------------------------------------
\* The values of the dimensions complete them to the parameters of the KVP request.
LEMMA KvpHasDimensions ==
  ASSUME NEW l, NEW d, NEW g, NEW z, NEW x, ChosenTile(l, d, g, z, x)
  PROVE  /\ Routes!WithDimensions(l, TileBase(l, g, z, x), d) = Routes!TileKvp(<<l, d, g, z, x>>)
         /\ Dims[l] = <<>> => TileBase(l, g, z, x) = Routes!TileKvp(<<l, d, g, z, x>>)
<1> DEFINE b == TileBase(l, g, z, x)
           N == Routes!DimensionNames(l)
           I(n) == CHOOSE i \in DOMAIN Dims[l] : Dims[l][i].name = n
           k == [n \in DOMAIN b \cup N |-> IF n \in N THEN d[I(n)] ELSE b[n]]
<1>1. DOMAIN d = DOMAIN Dims[l]
  BY ChoicesAreSequences, Zenon DEF ChosenTile
<1>2. Routes!TileKvp(<<l, d, g, z, x>>) = Routes!Adding(b, [n \in N |-> d[I(n)]])
  BY DEF Routes!TileKvp, TileBase
<1>3. Routes!Adding(b, [n \in N |-> d[I(n)]]) = k
  <2> HIDE DEF b, N, I
  <2> QED
    BY DEF Routes!Adding
<1>4. Routes!WithDimensions(l, b, d) = k
  <2>1. \A n : (\E i \in DOMAIN Dims[l] : Dims[l][i].name = n) <=> n \in N
    BY DEF Routes!DimensionNames
  <2>2. Routes!WithDimensions(l, b, d) =
          [n \in DOMAIN b \cup N |->
            IF \E i \in DOMAIN Dims[l] : Dims[l][i].name = n THEN d[I(n)] ELSE b[n]]
    BY <1>1, Zenon DEF Routes!WithDimensions
  <2> HIDE DEF b, N, I
  <2> QED
    BY <2>1, <2>2
<1>5. ASSUME Dims[l] = <<>> PROVE b = k
  <2>1. N = {}
    BY <1>5 DEF Routes!DimensionNames
  <2>2. b = [n \in DOMAIN b |-> b[n]]
    BY DEF TileBase
  <2> HIDE DEF b, N, I
  <2> QED
    BY <2>1, <2>2
<1> HIDE DEF k, b
<1> QED
  BY <1>2, <1>3, <1>4, <1>5 DEF b

\* No other route takes the URL of a tile, and no name is missing in it.
LEMMA TileUrlIsOfATile ==
  ASSUME NEW l, NEW d, NEW g, NEW z, NEW x, ChosenTile(l, d, g, z, x)
  PROVE  LET u == Routes!TileUrl(<<l, d, g, z, x>>) IN
         /\ Len(u) >= 7 /\ Routes!HasExtension(u[Len(u)]) /\ Routes!Filled(u, 4)
         /\ ~(Len(u) >= 9 /\ Routes!IsXml(u[Len(u)]))
         /\ l \in Served => Routes!IsTileUrl(u)
<1> DEFINE u == Routes!TileUrl(<<l, d, g, z, x>>)
<1>1. /\ Len(u) >= 7 /\ Len(u) \in Nat /\ u[1] = "1.0.0" /\ u[2] = l /\ u[3] = Style[l]
      /\ u[Len(u) - 3] = g /\ u[Len(u) - 2] = Routes!Identifier(z)
      /\ u[Len(u) - 1] = "0" /\ u[Len(u)] = TileFile(l, x)
  BY TileUrlIs
<1>2. TokensAre(l, g, z, x)
  BY TileFileIs
<1>3. /\ TileFile(l, x) \in DOMAIN Dotted
      /\ Dotted[TileFile(l, x)][1] = TokenOf[x]
      /\ Dotted[TileFile(l, x)][2] = Extension[l]
      /\ Extension[l] \in Routes!TileExtensions /\ Extension[l] # "xml"
      /\ TokenOf[x] \in DOMAIN Number /\ "0" \in DOMAIN Number /\ TileFile(l, x) # ""
      /\ Routes!Identifier(z) # "" /\ l # "" /\ Style[l] # "" /\ g # ""
  BY <1>2, Zenon DEF TokensAre
<1> HIDE DEF u
<1>4. Routes!HasExtension(u[Len(u)]) /\ ~Routes!IsXml(u[Len(u)])
  BY <1>1, <1>3 DEF Routes!HasExtension, Routes!IsXml
<1>5. Routes!Filled(u, 4)
  <2>1. ASSUME NEW i \in (1 .. 3) \cup (Len(u) - 4 + 1 .. Len(u)) PROVE u[i] # ""
    <3>1. \/ i = 1 \/ i = 2 \/ i = 3
          \/ i = Len(u) - 3 \/ i = Len(u) - 2 \/ i = Len(u) - 1 \/ i = Len(u)
      BY <1>1
    <3> QED
      BY <1>1, <1>3, <3>1
  <2> QED
    BY <2>1, Zenon DEF Routes!Filled
<1>6. ASSUME l \in Served PROVE Routes!IsTileUrl(u)
  BY <1>1, <1>3, <1>4, <1>5, <1>6 DEF Routes!IsTileUrl
<1> QED
  BY <1>1, <1>4, <1>5, <1>6 DEF u

\* What the KVP request of a tile says.
KvpHas(l, d, g, z, x) ==
  LET k == Routes!TileKvp(<<l, d, g, z, x>>)
  IN  /\ DOMAIN k = TileNames \cup Routes!DimensionNames(l)
      /\ \A n \in TileNames : k[n] = TileBase(l, g, z, x)[n]
      /\ \A i \in DOMAIN Dims[l] : k[Dims[l][i].name] = d[i]

\* No dimension replaces another one.
LEMMA KvpIs ==
  ASSUME NEW l, NEW d, NEW g, NEW z, NEW x, ChosenTile(l, d, g, z, x)
  PROVE  KvpHas(l, d, g, z, x)
<1> DEFINE b == TileBase(l, g, z, x)
           N == Routes!DimensionNames(l)
           I(n) == CHOOSE i \in DOMAIN Dims[l] : Dims[l][i].name = n
           k == Routes!TileKvp(<<l, d, g, z, x>>)
<1>1. k = Routes!Adding(b, [n \in N |-> d[I(n)]])
  BY DEF Routes!TileKvp, TileBase
<1>2. DOMAIN b = TileNames /\ TileNames \cap N = {} /\ l \in TileLayers
  <2>1. TileNames \subseteq Routes!Parameters
    BY DEF TileNames, Routes!Parameters
  <2> QED
    BY <2>1, TileBaseIs, DimensionsAreNoParameters DEF ChosenTile
<1>3. ASSUME NEW i \in DOMAIN Dims[l] PROVE Dims[l][i].name \in N /\ I(Dims[l][i].name) = i
  <2>1. \A j \in DOMAIN Dims[l] : Dims[l][j].name = Dims[l][i].name => j = i
    BY <1>2, RoutesAssumption DEF Routes!ServerAssumption, Routes!LayersAssumption
  <2> QED
    BY <2>1 DEF Routes!DimensionNames
<1> HIDE DEF b, N, I, k
<1>4. /\ DOMAIN k = DOMAIN b \cup N
      /\ \A n \in N : k[n] = d[I(n)]
      /\ \A n \in DOMAIN b \ N : k[n] = b[n]
  BY <1>1 DEF Routes!Adding
<1>5. \A i \in DOMAIN Dims[l] : k[Dims[l][i].name] = d[i]
  BY <1>3, <1>4
<1>6. \A n \in TileNames : k[n] = b[n]
  BY <1>2, <1>4
<1> QED
  BY <1>2, <1>4, <1>5, <1>6, Zenon DEF KvpHas, k, b, N

\* The KVP request of a tile passes the checks of serve, if its layer is served.
LEMMA KvpIsServed ==
  ASSUME NEW l, NEW d, NEW g, NEW z, NEW x, ChosenTile(l, d, g, z, x), loaded
  PROVE  LET k == Routes!TileKvp(<<l, d, g, z, x>>) IN
         /\ Routes!AnswerKvp(Routes!KvpRequest(<<l, d, g, z, x>>)) = Routes!Serve(k)
         /\ l \notin Served => Routes!Serve(k) = "400"
         /\ (l \in Served /\ MatrixIdentifier = "zoom") => Routes!Serve(k) = Routes!GetTile(k)
<1> DEFINE k == Routes!TileKvp(<<l, d, g, z, x>>)
           b == TileBase(l, g, z, x)
           r == Routes!KvpRequest(<<l, d, g, z, x>>)
<1>r. r.params = k /\ r.lower = DOMAIN k
  BY DEF Routes!KvpRequest
<1>1. /\ TileNames \subseteq DOMAIN k /\ \A n \in TileNames : k[n] = b[n]
      /\ {"I", "J"} \cap DOMAIN k = {}
  <2>1. /\ DOMAIN k = TileNames \cup Routes!DimensionNames(l)
        /\ \A n \in TileNames : k[n] = b[n]
    <3>1. KvpHas(l, d, g, z, x)
      BY KvpIs
    <3> QED
      BY <3>1, Zenon DEF KvpHas
  <2>2. {"I", "J"} \cap (TileNames \cup Routes!DimensionNames(l)) = {}
    <3>1. {"I", "J"} \cap TileNames = {} /\ {"I", "J"} \subseteq Routes!Parameters
      BY DEF TileNames, Routes!Required, Routes!Parameters
    <3>2. Routes!DimensionNames(l) \cap Routes!Parameters = {}
      BY DimensionsAreNoParameters DEF ChosenTile
    <3> QED
      BY <3>1, <3>2
  <2> HIDE DEF k
  <2> QED
    BY <2>1, <2>2
<1>2. /\ b["SERVICE"] = "WMTS" /\ b["VERSION"] = "1.0.0" /\ b["REQUEST"] = "GetTile"
      /\ b["LAYER"] = l /\ b["STYLE"] = Style[l] /\ b["FORMAT"] = Mime[l]
      /\ b["TILEMATRIXSET"] = g /\ b["TILEMATRIX"] = Routes!Identifier(z)
      /\ b["TILEROW"] = "0" /\ b["TILECOL"] = TokenOf[x]
  BY TileBaseIs
<1>3. g \in LayerGrids[l]
  BY DEF ChosenTile
<1>4. /\ MatrixIdentifier = "zoom" => Routes!Identifier(z) \in DOMAIN Number
      /\ "0" \in DOMAIN Number /\ TokenOf[x] \in DOMAIN Number
  <2>1. TokensAre(l, g, z, x)
    BY TileFileIs
  <2>2. TokenOf[z] \in DOMAIN Number /\ "0" \in DOMAIN Number /\ TokenOf[x] \in DOMAIN Number
    BY <2>1, Zenon DEF TokensAre
  <2> QED
    BY <2>2 DEF Routes!Identifier
<1> HIDE DEF k, b, r
<1>5. /\ Routes!Required \subseteq DOMAIN k
      /\ {"SERVICE", "VERSION", "REQUEST", "STYLE"} \subseteq DOMAIN k
      /\ k["SERVICE"] = "WMTS" /\ k["VERSION"] = "1.0.0" /\ k["REQUEST"] = "GetTile"
      /\ k["LAYER"] = l /\ k["STYLE"] = Style[l] /\ k["FORMAT"] = Mime[l]
      /\ k["TILEMATRIXSET"] = g /\ k["TILEMATRIX"] = Routes!Identifier(z)
      /\ k["TILEROW"] = "0" /\ k["TILECOL"] = TokenOf[x]
  BY <1>1, <1>2 DEF TileNames, Routes!Required
<1>6. Routes!AnswerKvp(r) = Routes!Serve(k)
  BY <1>r, <1>1, <1>4, <1>5 DEF Routes!AnswerKvp, Routes!Mandatory, Routes!Numeric
<1>7. ASSUME l \notin Served PROVE Routes!Serve(k) = "400"
  BY <1>5, <1>7 DEF Routes!Serve, Routes!Param
<1>8. ASSUME l \in Served, MatrixIdentifier = "zoom" PROVE Routes!Serve(k) = Routes!GetTile(k)
  BY <1>1, <1>3, <1>4, <1>5, <1>8, ServeTile
<1> QED
  BY <1>6, <1>7, <1>8 DEF k, r

\* The two requests for a tile are answered alike, served or not.
LEMMA UrlIsAnsweredAsKvp ==
  ASSUME NEW l, NEW d, NEW g, NEW z, NEW x, ChosenTile(l, d, g, z, x), loaded
  PROVE  Routes!AnswerRest(Routes!TileUrl(<<l, d, g, z, x>>))
           = Routes!AnswerKvp(Routes!KvpRequest(<<l, d, g, z, x>>))
<1> DEFINE u == Routes!TileUrl(<<l, d, g, z, x>>)
           k == Routes!TileKvp(<<l, d, g, z, x>>)
           b == TileBase(l, g, z, x)
<1>1. /\ Len(u) >= 7 /\ u[2] = l /\ Routes!PathDimensions(u, 4) = d
  BY TileUrlIs
<1>2. PICK S : u \in Seq(S)
  BY TileUrlIs
<1>3. /\ Routes!HasExtension(u[Len(u)]) /\ Routes!Filled(u, 4)
      /\ ~(Len(u) >= 9 /\ Routes!IsXml(u[Len(u)]))
      /\ l \in Served => Routes!IsTileUrl(u)
  BY TileUrlIsOfATile
<1>4. TileParams(u) = b /\ b["LAYER"] = l
  BY TileUrlParams, TileBaseIs
<1>5. /\ Routes!AnswerKvp(Routes!KvpRequest(<<l, d, g, z, x>>)) = Routes!Serve(k)
      /\ l \notin Served => Routes!Serve(k) = "400"
  BY KvpIsServed
<1>6. /\ Routes!WithDimensions(l, b, d) = k
      /\ Dims[l] = <<>> => b = k
  BY KvpHasDimensions
<1>7. d # <<>> \/ Dims[l] = <<>>
  <2>1. DOMAIN d = 1 .. Len(Dims[l]) /\ DOMAIN Dims[l] = 1 .. Len(Dims[l]) /\ l \in TileLayers
        /\ Len(d) = Len(Dims[l])
    BY ChoicesAreSequences, Zenon DEF ChosenTile
  <2>2. Dims[l] \in Seq([name : STRING, values : SUBSET STRING, default : STRING])
    BY <2>1, DimensionsAreNoParameters
  <2>3. ASSUME d = <<>> PROVE Dims[l] = <<>>
    BY <2>1, <2>2, <2>3
  <2> QED
    BY <2>3
<1>8. ~Routes!WrongDimensions(l, d)
  <2>1. /\ l \in TileLayers /\ Len(d) = Len(Dims[l]) /\ DOMAIN d = DOMAIN Dims[l]
        /\ \A i \in DOMAIN Dims[l] : d[i] \in Dims[l][i].values
    BY ChoicesAreSequences, Zenon DEF ChosenTile
  <2>2. \A i \in DOMAIN Dims[l] : "" \notin Dims[l][i].values
    BY <2>1, RoutesAssumption DEF Routes!ServerAssumption, Routes!NamesAssumption
  <2> QED
    BY <2>1, <2>2 DEF Routes!WrongDimensions
<1> HIDE DEF u, k, b
<1>9. CASE l \in Served
  <2>1. Routes!AnswerRest(u) = Routes!ServeRest(b, d)
    BY <1>1, <1>2, <1>3, <1>4, <1>9, TileUrlRoute
  <2>2. Routes!ServeRest(b, d) = Routes!Serve(k)
    BY <1>4, <1>6, <1>7, <1>8 DEF Routes!ServeRest
  <2> QED
    BY <1>5, <2>1, <2>2 DEF u, k
<1>10. CASE l \notin Served
  <2>1. Routes!AnswerRest(u) = Routes!RestTile(u)
    BY <1>1, <1>2, <1>3, TileRoute
  <2>2. Routes!RestTile(u) = "400"
    BY <1>1, <1>10 DEF Routes!RestTile, Routes!LayerThen
  <2> QED
    BY <1>5, <1>10, <2>1, <2>2 DEF u, k
<1> QED
  BY <1>9, <1>10

-----------------------------------------------------------------------------
\* _get_tile gives a tile of the cache, or sends its request to the map cache.
LEMMA StoredIsGot ==
  ASSUME NEW l, NEW d, NEW g, NEW z, NEW x, ChosenTile(l, d, g, z, x),
         MatrixIdentifier = "zoom", z \in Routes!SeededZooms(l), <<l, d, g, z, x>> \in store,
         failing \in {"none", "wms"}
  PROVE  LET gives == Routes!GetTile(Routes!TileKvp(<<l, d, g, z, x>>))
         IN  gives = "stored" \/ (geomsRedirect /\ gives = "mapcache")
<1> DEFINE k == Routes!TileKvp(<<l, d, g, z, x>>)
           b == TileBase(l, g, z, x)
           p == [i \in DOMAIN Dims[l] |-> Routes!Param(k, Dims[l][i].name, Dims[l][i].default)]
<1>1. /\ DOMAIN k = TileNames \cup Routes!DimensionNames(l)
      /\ \A n \in TileNames : k[n] = b[n]
      /\ \A i \in DOMAIN Dims[l] : k[Dims[l][i].name] = d[i]
  <2>1. KvpHas(l, d, g, z, x)
    BY KvpIs
  <2> QED
    BY <2>1, Zenon DEF KvpHas
<1>2. /\ b["LAYER"] = l /\ b["TILEMATRIXSET"] = g /\ b["TILEMATRIX"] = Routes!Identifier(z)
      /\ b["TILECOL"] = TokenOf[x]
  BY TileBaseIs
<1>3. Number[Routes!Identifier(z)] = z /\ Number[TokenOf[x]] = x
  <2>1. TokensAre(l, g, z, x)
    BY TileFileIs
  <2>2. Number[TokenOf[z]] = z /\ Number[TokenOf[x]] = x
    BY <2>1, Zenon DEF TokensAre
  <2> QED
    BY <2>2 DEF Routes!Identifier
<1>4. d = [i \in DOMAIN Dims[l] |-> d[i]] /\ l \in TileLayers /\ z \in DOMAIN Width
  BY ChoicesAreSequences, Zenon DEF ChosenTile
<1> HIDE DEF k, b
<1>5. p = d
  <2>1. \A i \in DOMAIN Dims[l] : Dims[l][i].name \in DOMAIN k
    BY <1>1 DEF Routes!DimensionNames
  <2>2. \A i \in DOMAIN Dims[l] : Routes!Param(k, Dims[l][i].name, Dims[l][i].default) = d[i]
    BY <1>1, <2>1 DEF Routes!Param
  <2> QED
    BY <1>4, <2>2
<1> HIDE DEF p
<1>6. /\ k["LAYER"] = l /\ k["TILEMATRIXSET"] = g /\ Number[k["TILEMATRIX"]] = z
      /\ Number[k["TILECOL"]] = x
  BY <1>1, <1>2, <1>3 DEF TileNames, Routes!Required
<1>7. Routes!TileKey(l, k, z, x) = <<l, d, g, z, x>>
  BY <1>5, <1>6, Zenon DEF Routes!TileKey, p
<1>8. ~(z > Routes!MaxZoomSeed(l)) /\ z \in Routes!Zooms
  BY <1>4, SeededIsServed DEF Routes!Zooms
<1>9. /\ Routes!MapCacheAnswer = "mapcache"
      /\ Routes!StoreAnswer(z, <<l, d, g, z, x>>) = "stored"
  BY <1>8 DEF Routes!MapCacheAnswer, Routes!StoreAnswer
<1>10. Routes!GetTile(k) = "stored" \/ (geomsRedirect /\ Routes!GetTile(k) = "mapcache")
  BY <1>6, <1>7, <1>8, <1>9 DEF Routes!GetTile, Routes!Redirected
<1> QED
  BY <1>10 DEF k

\* Whatever the tile, its URL of the capabilities and the KVP request of the same tile are
\* answered alike.
THEOREM InterfacesAlwaysAgree == SharedSpec => []Routes!InterfacesAgree
<1>1. ASSUME RouteInv PROVE Routes!InterfacesAgree
  <2>1. ASSUME loaded, last.kind = "rest", NEW t \in Routes!AllTiles,
               last.request = Routes!TileUrl(t)
        PROVE  last.answer = Routes!AnswerKvp(Routes!KvpRequest(t))
    <3>1. last.answer = Routes!AnswerRest(last.request)
      BY <1>1, <2>1, AnswerIs
    <3>2. PICK l, z, d, g, x : t = <<l, d, g, z, x>> /\ ChosenTile(l, d, g, z, x)
      BY DEF Routes!AllTiles, ChosenTile, Routes!Zooms
    <3>3. Routes!AnswerRest(Routes!TileUrl(<<l, d, g, z, x>>))
            = Routes!AnswerKvp(Routes!KvpRequest(<<l, d, g, z, x>>))
      BY <2>1, <3>2, UrlIsAnsweredAsKvp
    <3> QED
      BY <2>1, <3>1, <3>2, <3>3
  <2> QED
    BY <2>1 DEF Routes!InterfacesAgree
<1> QED
  BY <1>1, RoutesInv, PTL

\* What the generation wrote is got with the URL that the capabilities advertise, as long
\* as the layer is served and the matrices are identified by their zooms (server.py looks a
\* resolution up nowhere) and the store and the map cache work, and the two interfaces agree.
THEOREM GeneratedStaysServed ==
  ASSUME MatrixIdentifier = "zoom"
  PROVE  SharedSpec => []GeneratedIsServed
<1>1. ASSUME RouteInv PROVE Routes!GeneratedIsServed
  <2>1. ASSUME loaded, failing \in {"none", "wms"}, NEW t \in store, t[1] \in Served
        PROVE  \/ Routes!AnswerRest(Routes!TileUrl(t)) = "stored"
               \/ geomsRedirect /\ Routes!AnswerRest(Routes!TileUrl(t)) = "mapcache"
    <3>1. PICK l, z, d, g, x : /\ t = <<l, d, g, z, x>> /\ ChosenTile(l, d, g, z, x)
                               /\ z \in Routes!SeededZooms(l)
      BY <1>1 DEF RouteInv, Generated, ChosenTile
    <3>2. Routes!AnswerRest(Routes!TileUrl(t)) = Routes!GetTile(Routes!TileKvp(t))
      <4>1. Routes!AnswerRest(Routes!TileUrl(<<l, d, g, z, x>>))
              = Routes!AnswerKvp(Routes!KvpRequest(<<l, d, g, z, x>>))
        BY <2>1, <3>1, UrlIsAnsweredAsKvp
      <4>2. l \in Served
        BY <2>1, <3>1
      <4>3. Routes!AnswerKvp(Routes!KvpRequest(<<l, d, g, z, x>>))
              = Routes!GetTile(Routes!TileKvp(<<l, d, g, z, x>>))
        BY <2>1, <3>1, <4>2, KvpIsServed
      <4> QED
        BY <3>1, <4>1, <4>3
    <3>3. LET gives == Routes!GetTile(Routes!TileKvp(<<l, d, g, z, x>>))
          IN  gives = "stored" \/ (geomsRedirect /\ gives = "mapcache")
      BY <2>1, <3>1, StoredIsGot
    <3> QED
      BY <3>1, <3>2, <3>3
  <2> QED
    BY <2>1 DEF Routes!GeneratedIsServed
<1>2. ASSUME RouteInv, Routes!InterfacesAgree PROVE GeneratedIsServed
  BY <1>1, <1>2 DEF GeneratedIsServed
<1> QED
  BY <1>2, InterfacesAlwaysAgree, RoutesInv, PTL
==============================================================================
