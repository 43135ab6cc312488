------------------------------- MODULE MCServer -------------------------------
(***************************************************************************)
(* What serves the tiles, for TLC: the map cache, what Server composes and *)
(* the routes of the WMTS server.  They share no variable, so that all     *)
(* there is to see of one of them is in the behaviours where only this one *)
(* moves; the variable active says which, and the others stay in one of    *)
(* their initial states.                                                   *)
(*                                                                         *)
(* The map cache: two requests of one server, and of two, for the tiles of *)
(* a meta tile.  The dated caches: two requests, and two actions.  The     *)
(* stores: three tasks with edits while no store is in use, and one task   *)
(* with any edit.  The legends: two requests to one host with a layer of   *)
(* each kind, and to two hosts.  The requests to other servers: three      *)
(* tasks.  The routes are asked what MCWmtsServer lists, without and with  *)
(* the redirection by the geometries.                                      *)
(***************************************************************************)
EXTENDS MapCache, Server, MCWmtsServer

CONSTANTS
  Parts,    \* the parts to look at
  s1, s2, r1, r2, r3, tile1, tile2, t1, t2, t3, grid,
  h1, h2

VARIABLE active

mapVars == vars

\* Two requests reach one server, and the third one the other.
Placed == r1 :> s1 @@ r2 :> s1 @@ r3 :> s2
Asked == r1 :> tile1 @@ r2 :> tile2 @@ r3 :> tile2
TwoTroubles == {{"tile", "no_data"}, {"slow", "redis", "config"}}

-----------------------------------------------------------------------------
\* The parts that do not move are in one of their initial states.
ServerInit ==
  /\ active \in Parts
  /\ Init
  /\ active \notin {"process", "map"} => ~replicated /\ troubles = {"tile", "no_data"}
  /\ SharedInit
  /\ alone = (active = "store")
  /\ active \notin {"store", "stores"} => flavour = "multi"
  /\ active # "urls" => hostsFile = "absent"
  /\ geomsRedirect = (active = "redirects")
  /\ storage = CASE active = "redirects" -> "s3" [] active = "routes" -> "azure"
                 [] OTHER -> "filesystem"

\* Requests r1 and r2 come, to one server; the source of the meta tiles may stop.
OneServer ==
  active = "process" /\ Next /\ pc'[r3] = "new" /\ expiries' = 0

\* Requests r1 and r3 come, to two servers; a tile may expire.
TwoServers ==
  active = "map" /\ Next /\ pc'[r2] = "new" /\ outages' = 0

\* The tasks serve requests; the configuration file stays.
TwoRequests ==
  active = "requests" /\ CachesStep /\ removals' = 0
    /\ \A t \in CacheTasks : kind'[t] # "action"

\* The tasks run actions; the hosts stay.
OnlyActions == \A t \in CacheTasks : kind'[t] \in {"action", Absent}
TwoActions == active = "actions" /\ CachesStep /\ OnlyActions /\ hostsVersion' = 1

\* Requests to the first host, with layers of each kind, while time passes.
OneHost ==
  /\ active = "legends" /\ LegendsStep
  /\ file'[h2] = file[h2] /\ \A r \in LegendRequests : job'[r].host = h1

\* Requests to two hosts, at one moment.
TwoHosts == active = "hosts" /\ LegendsStep /\ clock' = 0

\* While something fails, the configuration is read and few URLs are asked.
FewWhileFailing ==
  failing' # "none" =>
    /\ loaded'
    /\ last'.kind = "none" \/ (last'.kind = "rest" /\ last'.request \in McWhileFailing)

\* With the redirection, the tiles are asked by their URLs.
WithRedirection ==
  /\ active = "redirects" /\ RoutesStep /\ FewWhileFailing
  /\ \/ last'.kind = "none"
     \/ last'.kind = "rest" /\ last'.request \in McTileUrls \cup McAdvertised

ServerNext ==
  /\ UNCHANGED active
  /\ \/ (OneServer \/ TwoServers) /\ UNCHANGED sharedVars
     \/ (\/ TwoRequests \/ TwoActions
         \/ active \in {"stores", "store"} /\ StoresStep
         \/ OneHost \/ TwoHosts
         \/ active = "urls" /\ UrlsStep
         \/ active = "routes" /\ RoutesStep /\ FewWhileFailing
         \/ WithRedirection)
          /\ UNCHANGED mapVars

serverVars == <<active, mapVars, sharedVars>>

\* Requests, tasks and coroutines go on, time passes, and the lock of a dead request
\* expires.
ServerFairness ==
  /\ WF_mapVars(active = "map" /\ LockExpires)
  /\ \A r \in {r1, r3} : WF_mapVars(active = "map" /\ Serve(r))
  /\ WF_datedVars(active = "actions" /\ Caches!Tick)
  /\ \A t \in CacheTasks : WF_datedVars(active = "actions" /\ Caches!Step(t) /\ OnlyActions)
  /\ \A t \in UrlTasks : WF_urlVars(active = "urls" /\ Remotes!GetOne(t))

ServerSpec == ServerInit /\ [][ServerNext]_serverVars

ServerFairSpec == ServerSpec /\ ServerFairness

-----------------------------------------------------------------------------
(* The safety properties of the map cache are those of MapCache, and those *)
(* of what the tasks share are those of Server.                            *)

\* Once nobody changes the file any more, the actions have its last content.
EventuallyCurrent == active = "actions" => Caches!EventuallyCurrent

\* Every request to the map cache ends, whoever fails or dies.
MapCacheEnds == active = "map" => \A r \in {r1, r3} : RequestEnds(r)

\* Who waits for the semaphore of a host gets it, whatever becomes of the others.
EveryGetEnds == active = "urls" => Remotes!EveryGetEnds
=============================================================================
