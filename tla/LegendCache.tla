------------------------------ MODULE LegendCache ------------------------------
(***************************************************************************)
(* The legends in the WMTS capabilities (tilecloud_chain/server.py,        *)
(* _fill_legend and _get_layer_legend): what a request for the             *)
(* capabilities of a host reads from the cache of that host, what it keeps *)
(* for a day in _LEGEND_CONFIG_CACHE by configuration file and layer, and  *)
(* what it keeps in layer_legends by layer alone.                          *)
(*                                                                         *)
(* Several requests are answered at once: each runs one coroutine per      *)
(* layer, which gives way while it reads the storage.  The lock of the     *)
(* cache is never held over such a wait, so that what it protects is one   *)
(* step here.  What a legend file has is a version, or nothing: it does    *)
(* not exist yet, or generate-controller has opened it and not yet         *)
(* written, for it writes in place.                                        *)
(***************************************************************************)
EXTENDS Integers, FiniteSets

CONSTANTS
  Requests,     \* the requests for the capabilities
  Hosts,        \* each has a configuration file and a cache of its own
  Layers,       \* the layers, in the configuration of every host
  Listed,       \* the layers with the items of their legend in the configuration
  Hidden,       \* the layers with a disabled legend
  Day,          \* _ONE_DAY_IN_SECONDS
  MaxTime,      \* bound on the clock
  MaxVersion    \* bound on the changes of a legend file

LegendAssumption ==
  /\ Hosts # {} /\ Listed \subseteq Layers /\ Hidden \subseteq Layers \ Listed
  /\ Day \in Nat \ {0} /\ MaxTime \in Nat /\ MaxVersion \in Nat

VARIABLES
  clock,
  file,        \* the legend file of each host and layer
  until,       \* until[h][l][v]: when version v, or nothing, was replaced (history)
  cache,       \* _LEGEND_CONFIG_CACHE
  legends,     \* layer_legends
  pc,          \* "idle", "loading" or "shown", of each request
  job,         \* the host of each request and the time it began
  task,        \* of each request and layer: where its coroutine is
  result,      \* and what it returned
  shown        \* the legends in the answer

vars == <<clock, file, until, cache, legends, pc, job, task, result, shown>>

NoLegend == [host |-> "none", version |-> 0]
Legend(h, v) == [host |-> h, version |-> v]
Nothing == 0
NoFile == [exists |-> FALSE, has |-> Nothing, last |-> 0]
NoEntry == [legend |-> NoLegend, at |-> -1]
Never == MaxTime + 1
Files == Layers \ (Listed \cup Hidden)

TypeOK ==
  /\ clock \in 0 .. MaxTime
  /\ file \in [Hosts -> [Layers ->
               [exists : BOOLEAN, has : 0 .. MaxVersion, last : 0 .. MaxVersion]]]
  /\ \A h \in Hosts, l \in Layers : cache[h][l] = NoEntry \/
       (cache[h][l].legend \in {Legend(g, v) : g \in Hosts, v \in 0 .. MaxVersion}
          /\ cache[h][l].at \in 0 .. clock)
  /\ legends \in [Layers -> {NoLegend} \cup {Legend(h, v) : h \in Hosts, v \in 0 .. MaxVersion}]
  /\ pc \in [Requests -> {"idle", "loading", "shown"}]
  /\ task \in [Requests -> [Layers -> {"none", "look", "read", "done", "failed"}]]

Init ==
  /\ clock = 0
  /\ file = [h \in Hosts |-> [l \in Layers |-> NoFile]]
  /\ until = [h \in Hosts |-> [l \in Layers |-> [v \in 0 .. MaxVersion |-> Never]]]
  /\ cache = [h \in Hosts |-> [l \in Layers |-> NoEntry]]
  /\ legends = [l \in Layers |-> NoLegend]
  /\ pc = [r \in Requests |-> "idle"]
  /\ job = [r \in Requests |-> [host |-> CHOOSE h \in Hosts : TRUE, now |-> 0]]
  /\ task = [r \in Requests |-> [l \in Layers |-> "none"]]
  /\ result = [r \in Requests |-> [l \in Layers |-> NoLegend]]
  /\ shown = [r \in Requests |-> [l \in Layers |-> NoLegend]]

\* An entry less than a day old.
Fresh(at, now) == at >= 0 /\ now - at < Day

\* A plausible error: the cache is of the layer, for every configuration file.
LayerOnly(h) == CHOOSE g \in Hosts : TRUE

\* The part of the cache for the configuration file of a host.
Slot(h) == h

\* A new entry.
Kept(legend, now) == [legend |-> legend, at |-> now]

\* The entries older than a day are dropped, and a coroutine is prepared for
\* every layer that is not in layer_legends.
Begin(r, h) ==
  /\ pc[r] = "idle"
  /\ pc' = [pc EXCEPT ![r] = "loading"]
  /\ job' = [job EXCEPT ![r] = [host |-> h, now |-> clock]]
  /\ cache' = [g \in Hosts |-> [l \in Layers |->
                 IF cache[g][l].at < clock - Day THEN NoEntry ELSE cache[g][l]]]
  /\ task' = [task EXCEPT ![r] = [l \in Layers |->
                 IF l \in Hidden \/ legends[l] # NoLegend THEN "none" ELSE "look"]]
  /\ result' = [result EXCEPT ![r] = [l \in Layers |-> NoLegend]]
  /\ shown' = [shown EXCEPT ![r] = [l \in Layers |-> NoLegend]]
  /\ UNCHANGED <<clock, file, until, legends>>

Return(r, l, value) ==
  /\ task' = [task EXCEPT ![r][l] = "done"]
  /\ result' = [result EXCEPT ![r][l] = value]

\* The legend items of an entry: those of an empty file are none.
Items(legend) == IF legend.version = Nothing THEN NoLegend ELSE legend

\* A coroutine begins: the items of the configuration, or a fresh entry, are
\* the result.
LookUp(r, l) ==
  /\ task[r][l] = "look"
  /\ LET h == job[r].host IN
     IF l \in Listed THEN Return(r, l, Legend(h, 0))
     ELSE IF Fresh(cache[Slot(h)][l].at, job[r].now) THEN Return(r, l, Items(cache[Slot(h)][l].legend))
     ELSE task' = [task EXCEPT ![r][l] = "read"] /\ UNCHANGED result
  /\ UNCHANGED <<clock, file, until, cache, legends, pc, job, shown>>

\* The file has been read: what it has, be it nothing, is kept with the time
\* its request began.  A file that does not exist is looked for every time.
ReadFile(r, l) ==
  /\ task[r][l] = "read"
  /\ LET h == job[r].host
         legend == Legend(h, file[h][l].has)
     IN IF ~file[h][l].exists THEN Return(r, l, NoLegend) /\ UNCHANGED cache
        ELSE /\ Return(r, l, Items(legend))
             /\ cache' = [cache EXCEPT ![Slot(h)][l] = Kept(legend, job[r].now)]
  /\ UNCHANGED <<clock, file, until, legends, pc, job, shown>>

\* The file could not be read: the exception is the result of the coroutine.
ReadFails(r, l) ==
  /\ task[r][l] = "read"
  /\ task' = [task EXCEPT ![r][l] = "failed"]
  /\ UNCHANGED <<clock, file, until, cache, legends, pc, job, result, shown>>

\* A plausible error: a layer without a result loses its legend.
TakeAll(r) == [l \in Layers |-> IF task[r][l] = "done" THEN result[r][l] ELSE legends[l]]

\* What layer_legends becomes with the results of r.
Take(r) == [l \in Layers |-> IF result[r][l] # NoLegend THEN result[r][l] ELSE legends[l]]

\* Every coroutine of r ended: the results are kept and the answer is made
\* from layer_legends.
Show(r) ==
  /\ pc[r] = "loading"
  /\ \A l \in Layers : task[r][l] \in {"none", "done", "failed"}
  /\ legends' = Take(r)
  /\ shown' = [shown EXCEPT ![r] = Take(r)]
  /\ pc' = [pc EXCEPT ![r] = "shown"]
  /\ UNCHANGED <<clock, file, until, cache, job, task, result>>

\* The client has its answer; the request may be made again.
Leave(r) ==
  /\ pc[r] = "shown"
  /\ pc' = [pc EXCEPT ![r] = "idle"]
  /\ UNCHANGED <<clock, file, until, cache, legends, job, task, result, shown>>

\* generate-controller opens the legend file of a layer, which empties it.
LegendOpened(h, l) ==
  /\ l \in Files /\ file[h][l].last < MaxVersion
  /\ file[h][l].exists => file[h][l].has # Nothing
  /\ file' = [file EXCEPT ![h][l].exists = TRUE, ![h][l].has = Nothing]
  /\ until' = [until EXCEPT ![h][l][file[h][l].has] = clock, ![h][l][Nothing] = Never]
  /\ UNCHANGED <<clock, cache, legends, pc, job, task, result, shown>>

\* It writes what it has.
LegendWritten(h, l) ==
  /\ file[h][l].exists /\ file[h][l].has = Nothing
  /\ LET v == file[h][l].last + 1 IN
     /\ file' = [file EXCEPT ![h][l].has = v, ![h][l].last = v]
     /\ until' = [until EXCEPT ![h][l][Nothing] = clock]
  /\ UNCHANGED <<clock, cache, legends, pc, job, task, result, shown>>

Tick ==
  /\ clock < MaxTime
  /\ clock' = clock + 1
  /\ UNCHANGED <<file, until, cache, legends, pc, job, task, result, shown>>

Step(r) ==
  \/ \E l \in Layers : LookUp(r, l) \/ ReadFile(r, l) \/ ReadFails(r, l)
  \/ Show(r)

Next ==
  \/ \E r \in Requests : (\E h \in Hosts : Begin(r, h)) \/ Step(r) \/ Leave(r)
  \/ \E h \in Hosts, l \in Layers : LegendOpened(h, l) \/ LegendWritten(h, l)
  \/ Tick

Spec == Init /\ [][Next]_vars

\* The event loop runs every coroutine that can go on, and a read ends.
FairSpec == Spec /\ \A r \in Requests : WF_vars(Step(r))

-----------------------------------------------------------------------------
\* A version, or nothing, was in the file of its layer less than a day before t.
Recent(host, l, v, t) == until[host][l][v] > t - Day

\* The day of _LEGEND_CONFIG_CACHE: what a coroutine returns was in the file
\* less than a day before the request began, however the requests interleave
\* with each other and with generate-controller.
ResultIsRecent ==
  \A r \in Requests, l \in Files :
    result[r][l] # NoLegend => Recent(result[r][l].host, l, result[r][l].version, job[r].now)

\* It is the same when it returns no legend: a legend that was written a day
\* before the request is found by it, unless the read fails.
MissIsRecent ==
  \A r \in Requests, l \in Files :
    (task[r][l] = "done" /\ result[r][l] = NoLegend)
      => Recent(job[r].host, l, Nothing, job[r].now)

\* A result is of the host of its request.
ResultIsOfTheHost ==
  \A r \in Requests, l \in Layers :
    result[r][l] # NoLegend => result[r][l].host = job[r].host

\* Once the capabilities show a legend for a layer they always do: a read that
\* fails and a concurrent request that found no file do not take it away.
LegendStays == \A l \in Layers : legends[l] # NoLegend => legends'[l] # NoLegend
LegendIsKept == [][LegendStays]_vars

\* Every request is answered.
RequestEnds == \A r \in Requests : pc[r] = "loading" ~> pc[r] = "shown"
===============================================================================
