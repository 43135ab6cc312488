----------------------------- MODULE MCWmtsServer -----------------------------
(***************************************************************************)
(* A small server for TLC: a layer without dimensions, generated by meta   *)
(* tiles of two columns, and a layer with one dimension, generated tile by *)
(* tile and served by the map cache from zoom 1; two zooms of 2 and 4      *)
(* columns; and URLs and parameters that take every route and miss every   *)
(* check.                                                                  *)
(***************************************************************************)
EXTENDS Integers, Sequences, TLC

McLayers == {"plain", "timed"}
McStyle == [l \in McLayers |-> "default"]
McMime == [l \in McLayers |-> "image/png"]
McExtension == [l \in McLayers |-> "png"]
McDims == [plain |-> <<>>,
           timed |-> <<[name |-> "TIME", values |-> {"2024", "2025"}, default |-> "2025"]>>]
McGrids == [l \in McLayers |-> {"g"}]
McQueryable == {"plain"}
McMetaSize == [plain |-> 2, timed |-> 1]
McSeed == [plain |-> 500, timed |-> 800]
McResolutions == 0 :> 1000 @@ 1 :> 500
McGeometry == [plain |-> (0 :> {1} @@ 1 :> {2}), timed |-> (0 :> {0} @@ 1 :> {0, 1})]
McWidth == 0 :> 2 @@ 1 :> 4
McResolution == 0 :> "1000" @@ 1 :> "500"
McOther == {<<"robots.html">>, <<"1.0.0", "plain", "default", "legend0.png">>,
            <<"1.0.0", "plain", "default", "legend.yaml">>}
McAllowed == {"png", "xml", "html"}
McNumber == "0" :> 0 @@ "1" :> 1 @@ "2" :> 2 @@ "3" :> 3 @@ "1000" :> 1000 @@ "500" :> 500
            @@ "2024" :> 2024 @@ "2025" :> 2025
McDotted ==
  "0.png" :> <<"0", "png">> @@ "1.png" :> <<"1", "png">> @@ "2.png" :> <<"2", "png">>
  @@ "3.png" :> <<"3", "png">> @@ "1.txt" :> <<"1", "txt">> @@ "zz.png" :> <<"zz", "png">>
  @@ "1.xml" :> <<"1", "xml">> @@ "robots.html" :> <<"robots", "html">>
  @@ "WMTSCapabilities.xml" :> <<"WMTSCapabilities", "xml">>
  @@ "legend0.png" :> <<"legend0", "png">> @@ "legend.yaml" :> <<"legend", "yaml">>
  @@ "1.0.0" :> <<"1.0", "0">>
McToken == 0 :> "0" @@ 1 :> "1" @@ 2 :> "2" @@ 3 :> "3"

Starts == {<<"1.0.0", "plain", "default">>, <<"1.0.0", "timed", "default">>,
           <<"1.0.0", "timed", "odd">>, <<"1.1.0", "plain", "default">>,
           <<"1.0.0", "none", "default">>}
Dimensions == {<<>>, <<"">>, <<"2024">>, <<"1900">>, <<"2024", "2025">>}
GoodPositions == {<<"g", z, "0", f>> : z \in {"0", "1"}, f \in {"0.png", "1.png"}}
OddPositions == {<<"g", z, "0", "1.png">> : z \in {"2", "zz"}}
                \cup {<<"g", "0", "0", "1.txt">>, <<"h", "0", "0", "1.png">>,
                      <<"g", "0", "zz", "1.png">>, <<"g", "1", "0", "3.png">>}
McTileUrls == {s \o d \o p : s \in Starts, d \in {<<>>, <<"2024">>}, p \in GoodPositions}
\* The tiles of the grids, and the files of the cache that are no tiles.
McAdvertised ==
  {<<"1.0.0", "plain", "default", "g", z, "0", f>> :
     z \in {"0", "1"}, f \in {"0.png", "1.png", "2.png", "3.png"}}
  \cup {<<"1.0.0", "timed", "default", d, "g", z, "0", f>> :
          d \in {"2024", "2025"}, z \in {"0", "1"}, f \in {"0.png", "1.png", "2.png", "3.png"}}
  \cup {<<"static">> \o f : f \in McOther}
McUrls ==
  McTileUrls \cup McAdvertised
  \cup {s \o d \o <<"g", "0", "0", "1.png">> : s \in Starts, d \in Dimensions}
  \cup {s \o d \o p : s \in {<<"1.0.0", "plain", "default">>, <<"1.0.0", "timed", "default">>},
                       d \in {<<>>, <<"2024">>}, p \in OddPositions}
  \cup {s \o d \o <<"g", z, "0", "1", "1", j>> :
          s \in Starts, d \in {<<>>, <<"2024">>}, z \in {"0", "2"}, j \in {"1", "1.xml", "zz"}}
  \cup {<<"1.0.0", "WMTSCapabilities.xml">>, <<"static", "WMTSCapabilities.xml">>,
        <<"static", "..", "robots.html">>, <<"static", "legend.yaml">>,
        <<"static", "robots.html">>, <<"static", "1.0.0", "plain", "default", "legend0.png">>,
        <<"static", "1.0.0", "plain", "default", "g", "0", "0", "1.png">>, <<"nothing">>}

GetTileKvp(l, x) ==
  [SERVICE |-> "WMTS", VERSION |-> "1.0.0", REQUEST |-> "GetTile", LAYER |-> l,
   STYLE |-> "default", FORMAT |-> "image/png", TILEMATRIXSET |-> "g", TILEMATRIX |-> "0",
   TILEROW |-> "0", TILECOL |-> x]
Info == [I |-> "1", J |-> "1", INFO_FORMAT |-> "gml"] @@ [GetTileKvp("plain", "1") EXCEPT !.REQUEST = "GetFeatureInfo"]
Without(p, n) == [m \in DOMAIN p \ {n} |-> p[m]]
ParamsOfKvps ==
  {GetTileKvp("plain", "1"), Info, Without(Info, "I"), [Info EXCEPT !.LAYER = "timed"]}
  \cup {[TIME |-> d] @@ [GetTileKvp("timed", "0") EXCEPT !.TILEMATRIX = z] :
          d \in {"2024", "2025"}, z \in {"0", "1"}}
  \cup {Without(GetTileKvp("plain", "1"), n) : n \in DOMAIN Info \ {"I", "J", "INFO_FORMAT"}}
  \cup {[GetTileKvp("plain", "1") EXCEPT ![n] = "odd"] :
          n \in {"SERVICE", "VERSION", "REQUEST", "LAYER", "STYLE", "TILEMATRIXSET", "FORMAT",
                 "TILEMATRIX", "TILEROW"}}
  \cup {[GetTileKvp("plain", "1") EXCEPT !.SERVICE = ""]}
\* With all names in lower case, and with some in upper case.
McKvps ==
  {[params |-> p, lower |-> DOMAIN p] : p \in ParamsOfKvps}
  \cup {[params |-> GetTileKvp("plain", "1"), lower |-> {"VERSION", "REQUEST"}],
        [params |-> GetTileKvp("plain", "1"), lower |-> {"SERVICE", "VERSION", "REQUEST"}],
        [params |-> GetTileKvp("plain", "odd"), lower |-> {"SERVICE", "VERSION", "REQUEST"}]}

\* What is asked while something fails.
McWhileFailing ==
  {<<"1.0.0", "plain", "default", "g", z, "0", f>> : z \in {"0", "1"}, f \in {"0.png", "1.png"}}
  \cup {<<"1.0.0", "timed", "default", "2024", "g", z, "0", f>> :
          z \in {"0", "1"}, f \in {"0.png", "1.png"}}
  \cup {<<"1.0.0", "plain", "default", "g", "0", "0", "1", "1", "1">>}
===============================================================================
