----------------------------- MODULE ServerProofs -----------------------------
(***************************************************************************)
(* Proofs about Server: what is proved of each part holds of the server,   *)
(* for any number of tasks, requests, hosts and layers, and however the    *)
(* parts interleave.                                                       *)
(*                                                                         *)
(* The theorems of DatedCachesProofs, StoreCacheProofs and                 *)
(* LegendCacheProofs are taken for the parts of the server; the semaphores *)
(* of the hosts are proved about here.                                     *)
(*                                                                         *)
(* And about MapCache, the internal map cache of the same processes, for   *)
(* any number of servers, requests, tiles, retries and crashes.            *)
(* The lock: the labels between its acquisition and its release imply that *)
(* it is owned, for only a request that outlives max_generation_time, or a *)
(* dead one, loses it.                                                     *)
(* The answer: what a request stored of a meta tile stays in Redis until   *)
(* it expires, so that one without error leaves the loop with all of it.   *)
(* The meta tile: who makes it looked at Redis under the lock, where no    *)
(* tile is missing since it was made last unless one expired.              *)
(***************************************************************************)
EXTENDS MapCache, Server, FiniteSetTheorems, SequenceTheorems, TLAPS

CachesP == INSTANCE DatedCachesProofs WITH
  Tasks <- CacheTasks, Kinds <- {"serve", "main", "action"}, Derived <- Grids,
  Troubles <- {"invalid"}, MaxVersion <- MaxContents, None <- Absent, pc <- datedPc

SharedP == INSTANCE StoreCacheProofs WITH
  Tasks <- StoreTasks, Flavours <- {"multi", "server"}, Troubles <- {"no_layer"},
  MaxVersion <- MaxEdits, None <- Absent, version <- storeVersion,
  alive <- storeAlive, pc <- storePc, floor <- storeFloor

AloneP == INSTANCE StoreCacheProofs WITH
  Tasks <- {FirstTask}, Flavours <- {"multi", "server"},
  Troubles <- {"edit_in_use", "no_layer"}, MaxVersion <- MaxEdits,
  None <- Absent, version <- storeVersion, alive <- storeAlive, pc <- storePc,
  floor <- storeFloor

LegendsP == INSTANCE LegendCacheProofs WITH
  Requests <- LegendRequests, Hosts <- LegendHosts, Layers <- LegendLayers,
  MaxVersion <- MaxLegends, cache <- legendCache, pc <- legendPc

-----------------------------------------------------------------------------
(* The dated caches.                                                       *)

\* The caches are the ones that the proofs are about.
LEMMA CachesSame ==
  /\ Caches!DatedAssumption <=> CachesP!DatedAssumption
  /\ Caches!Init <=> CachesP!Init
  /\ Caches!TypeOK <=> CachesP!TypeOK
  /\ Caches!ConfigIsCurrent <=> CachesP!ConfigIsCurrent
  /\ Caches!DerivedMatches <=> CachesP!DerivedMatches
  /\ Caches!HostsAreCurrent <=> CachesP!HostsAreCurrent
  /\ Caches!ActionLagIsBounded <=> CachesP!ActionLagIsBounded
  /\ Caches!Next <=> CachesP!Next
  /\ (UNCHANGED Caches!vars) <=> UNCHANGED CachesP!vars
<1>1. Caches!DatedAssumption <=> CachesP!DatedAssumption
  BY Zenon DEF Caches!DatedAssumption, Caches!AllTroubles, CachesP!DatedAssumption,
     CachesP!AllTroubles
<1>2. Caches!Init <=> CachesP!Init
  BY Zenon DEF Caches!Init, Caches!Versions, Caches!Empty, CachesP!Init, CachesP!Versions,
     CachesP!Empty
<1>3. Caches!TypeOK <=> CachesP!TypeOK
  BY Zenon DEF Caches!TypeOK, Caches!Versions, Caches!Entry, Caches!PC, Caches!HostsEntry,
     CachesP!TypeOK, CachesP!Versions, CachesP!Entry, CachesP!PC, CachesP!HostsEntry
<1>4. /\ Caches!ConfigIsCurrent <=> CachesP!ConfigIsCurrent
      /\ Caches!DerivedMatches <=> CachesP!DerivedMatches
      /\ Caches!HostsAreCurrent <=> CachesP!HostsAreCurrent
      /\ Caches!ActionLagIsBounded <=> CachesP!ActionLagIsBounded
  BY Zenon DEF Caches!ConfigIsCurrent, Caches!Empty, Caches!DerivedMatches,
     Caches!HostsAreCurrent, Caches!ActionLagIsBounded, CachesP!ConfigIsCurrent, CachesP!Empty,
     CachesP!DerivedMatches, CachesP!HostsAreCurrent, CachesP!ActionLagIsBounded
<1>5. (UNCHANGED Caches!vars) <=> UNCHANGED CachesP!vars
  BY Zenon DEF Caches!vars, Caches!file, Caches!hosts, Caches!local, CachesP!vars, CachesP!file,
     CachesP!hosts, CachesP!local
<1>6. Caches!Expected = CachesP!Expected
  <2>1. \A S : Caches!Cardinality(S) = CachesP!Cardinality(S)
    BY DEF Caches!Cardinality, CachesP!Cardinality
  <2> QED BY <2>1 DEF Caches!Expected, Caches!Versions, CachesP!Expected, CachesP!Versions
<1>7. ASSUME NEW t \in CacheTasks PROVE Caches!Step(t) <=> CachesP!Step(t)
  <2>1. Caches!GetConfig(t) <=> CachesP!GetConfig(t)
    <3>1. Caches!Exists(t) <=> CachesP!Exists(t)
      BY Zenon DEF Caches!Exists, Caches!file, Caches!hosts, Caches!At, Caches!Goto,
         Caches!NoConfig, Caches!Empty, Caches!Return, Caches!Caller, Caches!IgnoreError,
         CachesP!Exists, CachesP!file, CachesP!hosts, CachesP!At, CachesP!Goto, CachesP!NoConfig,
         CachesP!Empty, CachesP!Return, CachesP!Caller, CachesP!IgnoreError
    <3>2. Caches!StatCached(t) <=> CachesP!StatCached(t)
      BY Zenon DEF Caches!StatCached, Caches!file, Caches!hosts, Caches!local, Caches!At,
         Caches!Goto, Caches!Return, Caches!Caller, Caches!Finish, Caches!Empty, Caches!IsCurrent,
         CachesP!StatCached, CachesP!file, CachesP!hosts, CachesP!local, CachesP!At, CachesP!Goto,
         CachesP!Return, CachesP!Caller, CachesP!Finish, CachesP!Empty, CachesP!IsCurrent
    <3>3. Caches!ReadConfig(t) <=> CachesP!ReadConfig(t)
      BY Zenon DEF Caches!ReadConfig, Caches!file, Caches!hosts, Caches!At, Caches!Goto,
         Caches!Finish, Caches!Empty, CachesP!ReadConfig, CachesP!file, CachesP!hosts, CachesP!At,
         CachesP!Goto, CachesP!Finish, CachesP!Empty
    <3>4. Caches!StatConfig(t) <=> CachesP!StatConfig(t)
      BY Zenon DEF Caches!StatConfig, Caches!file, Caches!hosts, Caches!At, Caches!Goto,
         Caches!Finish, Caches!Empty, CachesP!StatConfig, CachesP!file, CachesP!hosts, CachesP!At,
         CachesP!Goto, CachesP!Finish, CachesP!Empty
    <3>5. Caches!StoreConfig(t) <=> CachesP!StoreConfig(t)
      BY Zenon DEF Caches!StoreConfig, Caches!file, Caches!hosts, Caches!Empty, Caches!At,
         Caches!Return, Caches!Goto, Caches!Caller, Caches!IgnoreError, Caches!NoConfig,
         CachesP!StoreConfig, CachesP!file, CachesP!hosts, CachesP!Empty, CachesP!At,
         CachesP!Return, CachesP!Goto, CachesP!Caller, CachesP!IgnoreError, CachesP!NoConfig
    <3> QED BY <3>1, <3>2, <3>3, <3>4, <3>5 DEF Caches!GetConfig, CachesP!GetConfig
  <2>2. Caches!Request(t) <=> CachesP!Request(t)
    <3>1. Caches!StartRequest(t) <=> CachesP!StartRequest(t)
      BY Zenon DEF Caches!StartRequest, Caches!file, Caches!hosts, Caches!At, Caches!Goto,
         CachesP!StartRequest, CachesP!file, CachesP!hosts, CachesP!At, CachesP!Goto
    <3>2. Caches!StartMain(t) <=> CachesP!StartMain(t)
      BY Zenon DEF Caches!StartMain, Caches!file, Caches!hosts, Caches!At, Caches!Goto,
         CachesP!StartMain, CachesP!file, CachesP!hosts, CachesP!At, CachesP!Goto
    <3>3. Caches!StatHosts(t) <=> CachesP!StatHosts(t)
      BY Zenon DEF Caches!StatHosts, Caches!file, Caches!hosts, Caches!At, Caches!Goto,
         Caches!UseHosts, Caches!Finish, Caches!Empty, CachesP!StatHosts, CachesP!file,
         CachesP!hosts, CachesP!At, CachesP!Goto, CachesP!UseHosts, CachesP!Finish, CachesP!Empty
    <3>4. Caches!ReadHosts(t) <=> CachesP!ReadHosts(t)
      BY Zenon DEF Caches!ReadHosts, Caches!file, Caches!hosts, Caches!At, Caches!Goto,
         CachesP!ReadHosts, CachesP!file, CachesP!hosts, CachesP!At, CachesP!Goto
    <3>5. Caches!KeepHosts(t) <=> CachesP!KeepHosts(t)
      BY Zenon DEF Caches!KeepHosts, Caches!file, Caches!At, Caches!UseHosts, Caches!Goto,
         Caches!Finish, Caches!Empty, Caches!HostsDate, CachesP!KeepHosts, CachesP!file,
         CachesP!At, CachesP!UseHosts, CachesP!Goto, CachesP!Finish, CachesP!Empty,
         CachesP!HostsDate
    <3>6. ASSUME NEW d \in Grids PROVE Caches!Derive(t, d) <=> CachesP!Derive(t, d)
      BY Zenon DEF Caches!Derive, Caches!file, Caches!hosts, Caches!Empty, Caches!At, Caches!Goto,
         Caches!UpToDate, CachesP!Derive, CachesP!file, CachesP!hosts, CachesP!Empty, CachesP!At,
         CachesP!Goto, CachesP!UpToDate
    <3>7. Caches!EndRequest(t) <=> CachesP!EndRequest(t)
      BY Zenon DEF Caches!EndRequest, Caches!file, Caches!hosts, Caches!Empty, Caches!At,
         Caches!Finish, Caches!Goto, CachesP!EndRequest, CachesP!file, CachesP!hosts,
         CachesP!Empty, CachesP!At, CachesP!Finish, CachesP!Goto
    <3> QED BY <3>1, <3>2, <3>3, <3>4, <3>5, <3>6, <3>7 DEF Caches!Request, CachesP!Request
  <2>3. Caches!Act(t) <=> CachesP!Act(t)
    <3>1. Caches!StartAction(t) <=> CachesP!StartAction(t)
      BY <1>6, Zenon DEF Caches!StartAction, Caches!file, Caches!hosts, Caches!At, Caches!Goto,
         Caches!MustCheck, CachesP!StartAction, CachesP!file, CachesP!hosts, CachesP!At,
         CachesP!Goto, CachesP!MustCheck
    <3>2. Caches!ActionExists(t) <=> CachesP!ActionExists(t)
      BY Zenon DEF Caches!ActionExists, Caches!file, Caches!hosts, Caches!local, Caches!At,
         Caches!Goto, Caches!Finish, Caches!Empty, CachesP!ActionExists, CachesP!file,
         CachesP!hosts, CachesP!local, CachesP!At, CachesP!Goto, CachesP!Finish, CachesP!Empty
    <3>3. Caches!ActionStat(t) <=> CachesP!ActionStat(t)
      BY Zenon DEF Caches!ActionStat, Caches!file, Caches!hosts, Caches!At, Caches!Goto,
         Caches!Finish, Caches!Empty, Caches!SameAction, Caches!SameDate, CachesP!ActionStat,
         CachesP!file, CachesP!hosts, CachesP!At, CachesP!Goto, CachesP!Finish, CachesP!Empty,
         CachesP!SameAction, CachesP!SameDate
    <3>4. Caches!ActionStore(t) <=> CachesP!ActionStore(t)
      BY Zenon DEF Caches!ActionStore, Caches!file, Caches!hosts, Caches!local, Caches!Empty,
         Caches!At, Caches!Goto, Caches!Finish, Caches!ActionDate, CachesP!ActionStore,
         CachesP!file, CachesP!hosts, CachesP!local, CachesP!Empty, CachesP!At, CachesP!Goto,
         CachesP!Finish, CachesP!ActionDate
    <3>5. Caches!EndAction(t) <=> CachesP!EndAction(t)
      BY Zenon DEF Caches!EndAction, Caches!file, Caches!hosts, Caches!At, Caches!Finish,
         Caches!Empty, Caches!Goto, CachesP!EndAction, CachesP!file, CachesP!hosts, CachesP!At,
         CachesP!Finish, CachesP!Empty, CachesP!Goto
    <3> QED BY <3>1, <3>2, <3>3, <3>4, <3>5 DEF Caches!Act, CachesP!Act
  <2>4. Caches!EndFailed(t) <=> CachesP!EndFailed(t)
    BY Zenon DEF Caches!EndFailed, Caches!file, Caches!hosts, Caches!local, Caches!At,
       Caches!Goto, CachesP!EndFailed, CachesP!file, CachesP!hosts, CachesP!local, CachesP!At,
       CachesP!Goto
  <2> QED BY <2>1, <2>2, <2>3, <2>4 DEF Caches!Step, CachesP!Step
<1>8. Caches!Edit <=> CachesP!Edit
  BY Zenon DEF Caches!Edit, Caches!hosts, Caches!local, CachesP!Edit, CachesP!hosts, CachesP!local
<1>9. Caches!EditHosts <=> CachesP!EditHosts
  BY Zenon DEF Caches!EditHosts, Caches!file, Caches!local, CachesP!EditHosts, CachesP!file,
     CachesP!local
<1>10. Caches!RemoveOrRestore <=> CachesP!RemoveOrRestore
  BY Zenon DEF Caches!RemoveOrRestore, Caches!hosts, Caches!local, CachesP!RemoveOrRestore,
     CachesP!hosts, CachesP!local
<1>11. Caches!Tick <=> CachesP!Tick
  BY Zenon DEF Caches!Tick, Caches!hosts, Caches!Versions, Caches!Older, CachesP!Tick,
     CachesP!hosts, CachesP!Versions, CachesP!Older
<1>12. Caches!Next <=> CachesP!Next
  BY <1>7, <1>8, <1>9, <1>10, <1>11 DEF Caches!Next, CachesP!Next
<1> QED
  BY <1>1, <1>2, <1>3, <1>4, <1>5, <1>12

\* What is proved of the caches is kept by every step of the server.
LEMMA CachesKept ==
  ASSUME CachesP!CurrentInv, [SharedNext]_sharedVars
  PROVE  CachesP!CurrentInv'
<1>1. Caches!Next \/ UNCHANGED Caches!vars
  <2>1. UNCHANGED datedVars => UNCHANGED Caches!vars
    BY DEF datedVars, Caches!vars, Caches!file, Caches!hosts, Caches!local
  <2> QED
    BY <2>1 DEF SharedNext, CachesStep, StoresStep, LegendsStep, UrlsStep, RoutesStep, sharedVars
<1>2. [CachesP!Next]_(CachesP!vars)
  BY <1>1, CachesSame
<1>3. CachesP!DatedAssumption
  BY CachesSame, CachesAssumption
<1>4. CachesP!Undisturbed
  BY DEF CachesP!Undisturbed
<1> QED
  BY <1>2, <1>3, <1>4, CachesP!NextCurrent

\* It holds from the start on.
LEMMA CachesInv == SharedSpec => []CachesP!CurrentInv
<1>1. SharedInit => CachesP!CurrentInv
  BY CachesSame, CachesAssumption, CachesP!InitDated DEF SharedInit
<1>2. CachesP!CurrentInv /\ [SharedNext]_sharedVars => CachesP!CurrentInv'
  BY CachesKept
<1> QED
  BY <1>1, <1>2, PTL DEF SharedSpec

\* A request works with no content of its configuration that was replaced before it
\* began, nor with a grid, filter or geometry made from another one, and the hosts that
\* are not read again are those of the file.
THEOREM ConfigStaysCurrent == SharedSpec => []ConfigIsCurrent
<1>1. CachesP!CurrentInv => ConfigIsCurrent
  BY CachesSame, CachesAssumption, CachesP!InvCurrent DEF ConfigIsCurrent
<1> QED
  BY <1>1, CachesInv, PTL

\* An action of MultiAction is at most one TTL older than the file.
THEOREM ActionLagStaysBounded == SharedSpec => []ActionLagIsBounded
<1>1. CachesP!CurrentInv => ActionLagIsBounded
  BY CachesSame, CachesAssumption, CachesP!InvCurrent DEF ActionLagIsBounded
<1> QED
  BY <1>1, CachesInv, PTL

-----------------------------------------------------------------------------
(* The stores.                                                             *)

\* The stores of several tasks are the ones that the proofs are about.
LEMMA SharedSame ==
  /\ SharedStores!StoreAssumption <=> SharedP!StoreAssumption
  /\ SharedStores!Init <=> SharedP!Init
  /\ SharedStores!TypeOK <=> SharedP!TypeOK
  /\ SharedStores!StoreIsCurrent <=> SharedP!StoreIsCurrent
  /\ SharedStores!CacheIsCurrent <=> SharedP!CacheIsCurrent
  /\ SharedStores!UsedIsOpen <=> SharedP!UsedIsOpen
  /\ SharedStores!Next <=> SharedP!Next
  /\ (UNCHANGED SharedStores!vars) <=> UNCHANGED SharedP!vars
<1>1. SharedStores!StoreAssumption <=> SharedP!StoreAssumption
  BY Zenon DEF SharedStores!StoreAssumption, SharedStores!Stores, SharedStores!Entry,
     SharedStores!Versions, SharedP!StoreAssumption, SharedP!Stores, SharedP!Entry,
     SharedP!Versions
<1>2. SharedStores!Init <=> SharedP!Init
  BY Zenon DEF SharedStores!Init, SharedP!Init
<1>3. SharedStores!TypeOK <=> SharedP!TypeOK
  BY Zenon DEF SharedStores!TypeOK, SharedStores!Stores, SharedStores!Versions,
     SharedStores!Entry, SharedStores!PC, SharedP!TypeOK, SharedP!Stores, SharedP!Versions,
     SharedP!Entry, SharedP!PC
<1>4. /\ SharedStores!StoreIsCurrent <=> SharedP!StoreIsCurrent
      /\ SharedStores!CacheIsCurrent <=> SharedP!CacheIsCurrent
      /\ SharedStores!UsedIsOpen <=> SharedP!UsedIsOpen
  BY Zenon DEF SharedStores!StoreIsCurrent, SharedStores!CacheIsCurrent, SharedStores!UsedIsOpen,
     SharedP!StoreIsCurrent, SharedP!CacheIsCurrent, SharedP!UsedIsOpen
<1>5. (UNCHANGED SharedStores!vars) <=> UNCHANGED SharedP!vars
  BY Zenon DEF SharedStores!vars, SharedStores!shared, SharedStores!file, SharedP!vars,
     SharedP!shared, SharedP!file
<1>6. ASSUME NEW t \in StoreTasks PROVE SharedStores!Step(t) <=> SharedP!Step(t)
  <2>1. SharedStores!Begin(t) <=> SharedP!Begin(t)
    BY Zenon DEF SharedStores!Begin, SharedStores!shared, SharedStores!file, SharedStores!At,
       SharedStores!Goto, SharedP!Begin, SharedP!shared, SharedP!file, SharedP!At, SharedP!Goto
  <2>2. SharedStores!Lookup(t) <=> SharedP!Lookup(t)
    BY Zenon DEF SharedStores!Lookup, SharedStores!shared, SharedStores!file, SharedStores!At,
       SharedStores!Goto, SharedStores!UseStore, SharedStores!IsFresh, SharedP!Lookup,
       SharedP!shared, SharedP!file, SharedP!At, SharedP!Goto, SharedP!UseStore, SharedP!IsFresh
  <2>3. SharedStores!CloseThenBuild(t) <=> SharedP!CloseThenBuild(t)
    BY Zenon DEF SharedStores!CloseThenBuild, SharedStores!file, SharedStores!At,
       SharedStores!Goto, SharedStores!UseStore, SharedStores!ToClose, SharedStores!AfterClose,
       SharedP!CloseThenBuild, SharedP!file, SharedP!At, SharedP!Goto, SharedP!UseStore,
       SharedP!ToClose, SharedP!AfterClose
  <2>4. SharedStores!BuildStore(t) <=> SharedP!BuildStore(t)
    BY Zenon DEF SharedStores!BuildStore, SharedStores!BuildFor, SharedStores!shared,
       SharedStores!file, SharedStores!At, SharedStores!Goto, SharedStores!Finish,
       SharedStores!NewStore, SharedStores!Store, SharedP!BuildStore, SharedP!BuildFor,
       SharedP!shared, SharedP!file, SharedP!At, SharedP!Goto, SharedP!Finish,
       SharedP!NewStore, SharedP!Store
  <2>5. SharedStores!BuildThenClose(t) <=> SharedP!BuildThenClose(t)
    BY Zenon DEF SharedStores!BuildThenClose, SharedStores!BuildFor, SharedStores!shared,
       SharedStores!file, SharedStores!At, SharedStores!Goto, SharedStores!Finish,
       SharedStores!NewStore, SharedStores!Store, SharedP!BuildThenClose, SharedP!BuildFor,
       SharedP!shared, SharedP!file, SharedP!At, SharedP!Goto, SharedP!Finish,
       SharedP!NewStore, SharedP!Store
  <2>6. SharedStores!CloseAndKeep(t) <=> SharedP!CloseAndKeep(t)
    BY Zenon DEF SharedStores!CloseAndKeep, SharedStores!file, SharedStores!At,
       SharedStores!UseStore, SharedStores!Goto, SharedStores!Keep, SharedStores!Finish,
       SharedStores!ToClose, SharedStores!EntryDate, SharedP!CloseAndKeep, SharedP!file,
       SharedP!At, SharedP!UseStore, SharedP!Goto, SharedP!Keep, SharedP!Finish, SharedP!ToClose,
       SharedP!EntryDate
  <2>7. SharedStores!EndUse(t) <=> SharedP!EndUse(t)
    BY Zenon DEF SharedStores!EndUse, SharedStores!shared, SharedStores!file, SharedStores!At,
       SharedStores!Finish, SharedStores!Goto, SharedP!EndUse, SharedP!shared, SharedP!file,
       SharedP!At, SharedP!Finish, SharedP!Goto
  <2>8. SharedStores!KeepStore(t) <=> SharedP!KeepStore(t)
    BY Zenon DEF SharedStores!KeepStore, SharedStores!file, SharedStores!At, SharedStores!Goto,
       SharedStores!UseStore, SharedStores!Keep, SharedStores!EntryDate, SharedP!KeepStore,
       SharedP!file, SharedP!At, SharedP!Goto, SharedP!UseStore, SharedP!Keep,
       SharedP!EntryDate
  <2> QED BY <2>1, <2>2, <2>3, <2>4, <2>5, <2>6, <2>7, <2>8 DEF SharedStores!Step, SharedP!Step
<1>7. SharedStores!CloseAll <=> SharedP!CloseAll
  BY Zenon DEF SharedStores!CloseAll, SharedStores!file, SharedP!CloseAll, SharedP!file
<1>8. SharedStores!Edit <=> SharedP!Edit
  BY Zenon DEF SharedStores!Edit, SharedStores!shared, SharedP!Edit, SharedP!shared
<1>9. SharedStores!Next <=> SharedP!Next
  BY <1>6, <1>7, <1>8 DEF SharedStores!Next, SharedP!Next
<1> QED
  BY <1>1, <1>2, <1>3, <1>4, <1>5, <1>9

\* So are those of one task.
LEMMA AloneSame ==
  /\ OneTask!StoreAssumption <=> AloneP!StoreAssumption
  /\ OneTask!Init <=> AloneP!Init
  /\ OneTask!TypeOK <=> AloneP!TypeOK
  /\ OneTask!StoreIsCurrent <=> AloneP!StoreIsCurrent
  /\ OneTask!CacheIsCurrent <=> AloneP!CacheIsCurrent
  /\ OneTask!StaleIsClosed <=> AloneP!StaleIsClosed
  /\ OneTask!Next <=> AloneP!Next
  /\ (UNCHANGED OneTask!vars) <=> UNCHANGED AloneP!vars
<1>1. OneTask!StoreAssumption <=> AloneP!StoreAssumption
  BY Zenon DEF OneTask!StoreAssumption, OneTask!Stores, OneTask!Entry, OneTask!Versions,
     AloneP!StoreAssumption, AloneP!Stores, AloneP!Entry, AloneP!Versions
<1>2. OneTask!Init <=> AloneP!Init
  BY Zenon DEF OneTask!Init, AloneP!Init
<1>3. OneTask!TypeOK <=> AloneP!TypeOK
  BY Zenon DEF OneTask!TypeOK, OneTask!Stores, OneTask!Versions, OneTask!Entry, OneTask!PC,
     AloneP!TypeOK, AloneP!Stores, AloneP!Versions, AloneP!Entry, AloneP!PC
<1>4. /\ OneTask!StoreIsCurrent <=> AloneP!StoreIsCurrent
      /\ OneTask!CacheIsCurrent <=> AloneP!CacheIsCurrent
      /\ OneTask!StaleIsClosed <=> AloneP!StaleIsClosed
  BY Zenon DEF OneTask!StoreIsCurrent, OneTask!CacheIsCurrent, OneTask!StaleIsClosed,
     AloneP!StoreIsCurrent, AloneP!CacheIsCurrent, AloneP!StaleIsClosed
<1>5. (UNCHANGED OneTask!vars) <=> UNCHANGED AloneP!vars
  BY Zenon DEF OneTask!vars, OneTask!shared, OneTask!file, AloneP!vars, AloneP!shared, AloneP!file
<1>6. ASSUME NEW t \in {FirstTask} PROVE OneTask!Step(t) <=> AloneP!Step(t)
  <2>1. OneTask!Begin(t) <=> AloneP!Begin(t)
    BY Zenon DEF OneTask!Begin, OneTask!shared, OneTask!file, OneTask!At, OneTask!Goto,
       AloneP!Begin, AloneP!shared, AloneP!file, AloneP!At, AloneP!Goto
  <2>2. OneTask!Lookup(t) <=> AloneP!Lookup(t)
    BY Zenon DEF OneTask!Lookup, OneTask!shared, OneTask!file, OneTask!At, OneTask!Goto,
       OneTask!UseStore, OneTask!IsFresh, AloneP!Lookup, AloneP!shared, AloneP!file, AloneP!At,
       AloneP!Goto, AloneP!UseStore, AloneP!IsFresh
  <2>3. OneTask!CloseThenBuild(t) <=> AloneP!CloseThenBuild(t)
    BY Zenon DEF OneTask!CloseThenBuild, OneTask!file, OneTask!At, OneTask!Goto, OneTask!UseStore,
       OneTask!ToClose, OneTask!AfterClose, AloneP!CloseThenBuild, AloneP!file, AloneP!At,
       AloneP!Goto, AloneP!UseStore, AloneP!ToClose, AloneP!AfterClose
  <2>4. OneTask!BuildStore(t) <=> AloneP!BuildStore(t)
    BY Zenon DEF OneTask!BuildStore, OneTask!BuildFor, OneTask!shared, OneTask!file,
       OneTask!At, OneTask!Goto, OneTask!Finish, OneTask!NewStore, OneTask!Store,
       AloneP!BuildStore, AloneP!BuildFor, AloneP!shared, AloneP!file, AloneP!At, AloneP!Goto,
       AloneP!Finish, AloneP!NewStore, AloneP!Store
  <2>5. OneTask!BuildThenClose(t) <=> AloneP!BuildThenClose(t)
    BY Zenon DEF OneTask!BuildThenClose, OneTask!BuildFor, OneTask!shared, OneTask!file,
       OneTask!At, OneTask!Goto, OneTask!Finish, OneTask!NewStore, OneTask!Store,
       AloneP!BuildThenClose, AloneP!BuildFor, AloneP!shared, AloneP!file, AloneP!At,
       AloneP!Goto, AloneP!Finish, AloneP!NewStore, AloneP!Store
  <2>6. OneTask!CloseAndKeep(t) <=> AloneP!CloseAndKeep(t)
    BY Zenon DEF OneTask!CloseAndKeep, OneTask!file, OneTask!At, OneTask!UseStore, OneTask!Goto,
       OneTask!Keep, OneTask!Finish, OneTask!ToClose, OneTask!EntryDate, AloneP!CloseAndKeep,
       AloneP!file, AloneP!At, AloneP!UseStore, AloneP!Goto, AloneP!Keep, AloneP!Finish,
       AloneP!ToClose, AloneP!EntryDate
  <2>7. OneTask!EndUse(t) <=> AloneP!EndUse(t)
    BY Zenon DEF OneTask!EndUse, OneTask!shared, OneTask!file, OneTask!At, OneTask!Finish,
       OneTask!Goto, AloneP!EndUse, AloneP!shared, AloneP!file, AloneP!At, AloneP!Finish,
       AloneP!Goto
  <2>8. OneTask!KeepStore(t) <=> AloneP!KeepStore(t)
    BY Zenon DEF OneTask!KeepStore, OneTask!file, OneTask!At, OneTask!Goto, OneTask!UseStore,
       OneTask!Keep, OneTask!EntryDate, AloneP!KeepStore, AloneP!file, AloneP!At, AloneP!Goto,
       AloneP!UseStore, AloneP!Keep, AloneP!EntryDate
  <2> QED BY <2>1, <2>2, <2>3, <2>4, <2>5, <2>6, <2>7, <2>8 DEF OneTask!Step, AloneP!Step
<1>7. OneTask!CloseAll <=> AloneP!CloseAll
  BY Zenon DEF OneTask!CloseAll, OneTask!file, AloneP!CloseAll, AloneP!file
<1>8. OneTask!Edit <=> AloneP!Edit
  BY Zenon DEF OneTask!Edit, OneTask!shared, AloneP!Edit, AloneP!shared
<1>9. OneTask!Next <=> AloneP!Next
  BY <1>6, <1>7, <1>8 DEF OneTask!Next, AloneP!Next
<1> QED
  BY <1>1, <1>2, <1>3, <1>4, <1>5, <1>9

\* The invariant of the case that is looked at.
StoresInv == (~alone => SharedP!OpenInv) /\ (alone => AloneP!AloneInv)

\* What is proved of the stores is kept by every step of the server.
LEMMA StoresKept ==
  ASSUME StoresInv, [SharedNext]_sharedVars
  PROVE  StoresInv'
<1>1. UNCHANGED alone
  BY DEF SharedNext, CachesStep, StoresStep, LegendsStep, UrlsStep, RoutesStep, sharedVars
<1>2. UNCHANGED storeVars => (UNCHANGED SharedStores!vars) /\ UNCHANGED OneTask!vars
  BY DEF storeVars, SharedStores!vars, SharedStores!shared, SharedStores!file,
     OneTask!vars, OneTask!shared, OneTask!file
<1>3. CASE ~alone
  <2>1. SharedStores!Next \/ UNCHANGED SharedStores!vars
    BY <1>2, <1>3
    DEF SharedNext, CachesStep, StoresStep, LegendsStep, UrlsStep, RoutesStep, sharedVars
  <2>2. [SharedP!Next]_(SharedP!vars)
    BY <2>1, SharedSame
  <2>3. SharedP!StoreAssumption
    BY SharedSame, StoresAssumption
  <2>4. SharedP!Undisturbed
    BY DEF SharedP!Undisturbed
  <2>5. SharedP!OpenInv
    BY <1>3 DEF StoresInv
  <2>6. SharedP!OpenInv'
    BY <2>2, <2>3, <2>4, <2>5, SharedP!NextOpen
  <2> QED BY <1>1, <1>3, <2>6 DEF StoresInv
<1>4. CASE alone
  <2>1. OneTask!Next \/ UNCHANGED OneTask!vars
    BY <1>2, <1>4
    DEF SharedNext, CachesStep, StoresStep, LegendsStep, UrlsStep, RoutesStep, sharedVars
  <2>2. [AloneP!Next]_(AloneP!vars)
    BY <2>1, AloneSame
  <2>3. AloneP!StoreAssumption
    BY AloneSame, StoresAssumption
  <2>4. AloneP!Alone
    BY DEF AloneP!Alone
  <2>5. AloneP!AloneInv
    BY <1>4 DEF StoresInv
  <2>6. AloneP!AloneInv'
    BY <2>2, <2>3, <2>4, <2>5, AloneP!NextAlone
  <2> QED BY <1>1, <1>4, <2>6 DEF StoresInv
<1> QED
  BY <1>3, <1>4

\* A task works with a store that is not older than its configuration, and that is open
\* unless the configuration is edited meanwhile; a task alone leaves no old store open.
THEOREM StoresStayCurrent == SharedSpec => []StoresAreCurrent
<1>1. SharedInit => StoresInv
  <2>1. SharedInit /\ ~alone => SharedP!OpenInv
    BY SharedSame, StoresAssumption, SharedP!InitOpen DEF SharedInit
  <2>2. SharedInit /\ alone => AloneP!AloneInv
    BY AloneSame, StoresAssumption, AloneP!InitAlone DEF SharedInit
  <2> QED BY <2>1, <2>2 DEF StoresInv
<1>2. StoresInv /\ [SharedNext]_sharedVars => StoresInv'
  BY StoresKept
<1>3. StoresInv => StoresAreCurrent
  <2>1. SharedP!OpenInv => /\ SharedP!TypeOK /\ SharedP!StoreIsCurrent
                           /\ SharedP!CacheIsCurrent /\ SharedP!UsedIsOpen
    BY SharedSame, StoresAssumption, SharedP!InvOpen
  <2>2. AloneP!AloneInv => /\ AloneP!TypeOK /\ AloneP!StoreIsCurrent
                           /\ AloneP!CacheIsCurrent /\ AloneP!StaleIsClosed
    BY AloneSame, StoresAssumption, AloneP!InvAlone
  <2> QED BY <2>1, <2>2, SharedSame, AloneSame DEF StoresInv, StoresAreCurrent
<1> QED
  BY <1>1, <1>2, <1>3, PTL DEF SharedSpec

-----------------------------------------------------------------------------
(* The legends.                                                            *)

\* The legends are the ones that the proofs are about.
LEMMA LegendsSame ==
  /\ Legends!LegendAssumption <=> LegendsP!LegendAssumption
  /\ Legends!Init <=> LegendsP!Init
  /\ Legends!TypeOK <=> LegendsP!TypeOK
  /\ Legends!ResultIsRecent <=> LegendsP!ResultIsRecent
  /\ Legends!MissIsRecent <=> LegendsP!MissIsRecent
  /\ Legends!ResultIsOfTheHost <=> LegendsP!ResultIsOfTheHost
  /\ Legends!LegendStays <=> LegendsP!LegendStays
  /\ Legends!Next <=> LegendsP!Next
  /\ (UNCHANGED Legends!vars) <=> UNCHANGED LegendsP!vars
<1>1. Legends!LegendAssumption <=> LegendsP!LegendAssumption
  BY Zenon DEF Legends!LegendAssumption, LegendsP!LegendAssumption
<1>2. Legends!Init <=> LegendsP!Init
  BY Zenon DEF Legends!Init, Legends!NoLegend, Legends!NoFile, Legends!Nothing, Legends!NoEntry,
     Legends!Never, LegendsP!Init, LegendsP!NoLegend, LegendsP!NoFile, LegendsP!Nothing,
     LegendsP!NoEntry, LegendsP!Never
<1>3. Legends!TypeOK <=> LegendsP!TypeOK
  BY DEF Legends!TypeOK, Legends!NoLegend, Legends!Legend, Legends!NoEntry, LegendsP!TypeOK,
     LegendsP!NoLegend, LegendsP!Legend, LegendsP!NoEntry
<1>4. /\ Legends!ResultIsRecent <=> LegendsP!ResultIsRecent
      /\ Legends!MissIsRecent <=> LegendsP!MissIsRecent
      /\ Legends!ResultIsOfTheHost <=> LegendsP!ResultIsOfTheHost
      /\ Legends!LegendStays <=> LegendsP!LegendStays
  BY Zenon DEF Legends!ResultIsRecent, Legends!NoLegend, Legends!Files, Legends!Recent,
     Legends!MissIsRecent, Legends!Nothing, Legends!ResultIsOfTheHost, Legends!LegendStays,
     LegendsP!ResultIsRecent, LegendsP!NoLegend, LegendsP!Files, LegendsP!Recent,
     LegendsP!MissIsRecent, LegendsP!Nothing, LegendsP!ResultIsOfTheHost, LegendsP!LegendStays
<1>5. (UNCHANGED Legends!vars) <=> UNCHANGED LegendsP!vars
  BY Zenon DEF Legends!vars, LegendsP!vars
<1>6. ASSUME NEW r \in LegendRequests, NEW l \in LegendLayers
      PROVE  /\ Legends!LookUp(r, l) <=> LegendsP!LookUp(r, l)
             /\ Legends!ReadFile(r, l) <=> LegendsP!ReadFile(r, l)
             /\ Legends!ReadFails(r, l) <=> LegendsP!ReadFails(r, l)
  BY Zenon DEF Legends!LookUp, Legends!Legend, Legends!Fresh, Legends!Slot, Legends!Return,
     Legends!Items, Legends!NoLegend, Legends!Nothing, Legends!ReadFile, Legends!Kept,
     Legends!ReadFails, LegendsP!LookUp, LegendsP!Legend, LegendsP!Fresh, LegendsP!Slot,
     LegendsP!Return, LegendsP!Items, LegendsP!NoLegend, LegendsP!Nothing, LegendsP!ReadFile,
     LegendsP!Kept, LegendsP!ReadFails
<1>7. ASSUME NEW r \in LegendRequests
      PROVE  /\ Legends!Show(r) <=> LegendsP!Show(r)
             /\ Legends!Leave(r) <=> LegendsP!Leave(r)
             /\ \A h \in LegendHosts : Legends!Begin(r, h) <=> LegendsP!Begin(r, h)
  BY Zenon DEF Legends!Show, Legends!Take, Legends!NoLegend, Legends!Leave, Legends!Begin,
     Legends!NoEntry, LegendsP!Show, LegendsP!Take, LegendsP!NoLegend, LegendsP!Leave,
     LegendsP!Begin, LegendsP!NoEntry
<1>8. ASSUME NEW h \in LegendHosts, NEW l \in LegendLayers
      PROVE  /\ Legends!LegendOpened(h, l) <=> LegendsP!LegendOpened(h, l)
             /\ Legends!LegendWritten(h, l) <=> LegendsP!LegendWritten(h, l)
  BY Zenon DEF Legends!LegendOpened, Legends!Nothing, Legends!Never, Legends!Files,
     Legends!LegendWritten, LegendsP!LegendOpened, LegendsP!Nothing, LegendsP!Never,
     LegendsP!Files, LegendsP!LegendWritten
<1>9. Legends!Tick <=> LegendsP!Tick
  BY Zenon DEF Legends!Tick, LegendsP!Tick
<1>10. Legends!Next <=> LegendsP!Next
  BY <1>6, <1>7, <1>8, <1>9, Zenon DEF Legends!Next, LegendsP!Next, Legends!Step, LegendsP!Step
<1> QED
  BY <1>1, <1>2, <1>3, <1>4, <1>5, <1>10

\* The legends take their own steps, or none.
LEMMA LegendsMove ==
  ASSUME [SharedNext]_sharedVars
  PROVE  [LegendsP!Next]_(LegendsP!vars)
<1>1. UNCHANGED legendVars => UNCHANGED Legends!vars
  BY DEF legendVars, Legends!vars
<1>2. Legends!Next \/ UNCHANGED Legends!vars
  BY <1>1 DEF SharedNext, CachesStep, StoresStep, LegendsStep, UrlsStep, RoutesStep, sharedVars
<1> QED
  BY <1>2, LegendsSame

\* A legend was in its file less than a day before the request that returns it, one that
\* was written a day before is found, and it is of the host of the request.
THEOREM LegendsStayCurrent == SharedSpec => []LegendsAreCurrent
<1>a. LegendsP!LegendAssumption
  BY LegendsSame, LegendsAssumption
<1>1. SharedInit => LegendsP!LegendInv
  BY <1>a, LegendsSame, LegendsP!InitInv DEF SharedInit
<1>2. LegendsP!LegendInv /\ [SharedNext]_sharedVars => LegendsP!LegendInv'
  BY <1>a, LegendsMove, LegendsP!NextInv
<1>3. LegendsP!LegendInv => LegendsAreCurrent
  BY <1>a, LegendsSame, LegendsP!InvTyped, LegendsP!InvResults DEF LegendsAreCurrent
<1> QED
  BY <1>1, <1>2, <1>3, PTL DEF SharedSpec

\* Once the capabilities show a legend for a layer they always do.
THEOREM LegendsAreKept == SharedSpec => LegendIsKept
<1>1. [SharedNext]_sharedVars => Legends!LegendStays
  BY LegendsMove, LegendsSame, LegendsP!StepKeepsLegends
<1> QED
  BY <1>1, PTL DEF SharedSpec, LegendIsKept

-----------------------------------------------------------------------------
(* The semaphores of the hosts.                                            *)

\* Who holds a permit of a semaphore or waits for one.
Users(s) == s.holders \cup {s.waiting[k] : k \in 1 .. Len(s.waiting)}

\* No more holders than permits, all of them taken while somebody waits, and each task
\* once in the line, or among the holders.
Kept(s) ==
  /\ IsFiniteSet(s.holders) /\ Cardinality(s.holders) <= s.limit
  /\ s.waiting # <<>> => Cardinality(s.holders) = s.limit
  /\ \A k \in 1 .. Len(s.waiting) :
       /\ s.waiting[k] \notin s.holders
       /\ \A l \in 1 .. Len(s.waiting) : s.waiting[k] = s.waiting[l] => k = l

\* Those at a semaphore are the tasks that wait or fetch with it.
UsersAreTasks(i) ==
  \A t \in Users(semaphores[i]) : sem[t] = i /\ urlPc[t] \in {"wait", "fetch"}

\* A task that waits or fetches has a semaphore, and one that fetches holds it.
TaskHolds(t) ==
  /\ urlPc[t] \in {"wait", "fetch"} => sem[t] \in 1 .. Len(semaphores)
  /\ urlPc[t] = "fetch" => t \in semaphores[sem[t]].holders

SemaphoresInv ==
  /\ semaphores \in Seq(Remotes!Semaphore)
  /\ \A i \in 1 .. Len(semaphores) : Kept(semaphores[i]) /\ UsersAreTasks(i)
  /\ \A t \in UrlTasks : TaskHolds(t)

UrlInv == Remotes!TypeOK /\ SemaphoresInv

\* The instance of UrlStore has its own name for the number of elements of a set.
LEMMA UrlCardinality == \A S : Remotes!Cardinality(S) = Cardinality(S)
BY DEF Remotes!Cardinality, Cardinality

\* A semaphore takes one more: it has a permit left, or the line is longer.
LEMMA QueuedKeeps ==
  ASSUME NEW s \in Remotes!Semaphore, NEW t \in UrlTasks, Kept(s), t \notin Users(s)
  PROVE  /\ Remotes!Queued(s, t) \in Remotes!Semaphore /\ Kept(Remotes!Queued(s, t))
         /\ Users(Remotes!Queued(s, t)) \subseteq Users(s) \cup {t}
         /\ s.holders \subseteq Remotes!Queued(s, t).holders
<1>1. /\ s.waiting \in Seq(UrlTasks) /\ Len(s.waiting) \in Nat /\ s.limit \in Nat
      /\ s.holders \in SUBSET UrlTasks /\ IsFiniteSet(s.holders)
      /\ Cardinality(s.holders) \in Nat /\ Cardinality(s.holders) <= s.limit
  BY FS_CardinalityType DEF Remotes!Semaphore, Kept
<1>2. CASE Remotes!Free(s)
  <2>1. s.waiting = <<>> /\ Cardinality(s.holders) < s.limit
    BY <1>2, UrlCardinality DEF Remotes!Free
  <2>2. Remotes!Queued(s, t) = [s EXCEPT !.holders = s.holders \cup {t}]
    BY <1>2 DEF Remotes!Queued
  <2>3. /\ IsFiniteSet(s.holders \cup {t})
        /\ Cardinality(s.holders \cup {t}) \in {Cardinality(s.holders), Cardinality(s.holders) + 1}
    BY <1>1, FS_AddElement
  <2> DEFINE q == Remotes!Queued(s, t)
  <2>4. /\ q \in Remotes!Semaphore /\ q.holders = s.holders \cup {t} /\ q.waiting = <<>>
        /\ q.limit = s.limit
    BY <1>1, <2>1, <2>2 DEF Remotes!Semaphore
  <2>5. Len(s.waiting) = 0 /\ Len(q.waiting) = 0
    BY <2>1, <2>4
  <2> HIDE DEF q
  <2>6. Kept(q)
    BY <1>1, <2>1, <2>3, <2>4, <2>5 DEF Kept
  <2>7. Users(q) \subseteq Users(s) \cup {t}
    BY <2>4, <2>5 DEF Users
  <2> QED BY <2>4, <2>6, <2>7 DEF q
<1>3. CASE ~Remotes!Free(s)
  <2>1. Cardinality(s.holders) = s.limit
    BY <1>1, <1>3, UrlCardinality DEF Remotes!Free, Kept
  <2>2. Remotes!Queued(s, t) = [s EXCEPT !.waiting = Append(s.waiting, t)]
    BY <1>3 DEF Remotes!Queued
  <2> DEFINE w == Append(s.waiting, t)
  <2>3. /\ w \in Seq(UrlTasks) /\ Len(w) = Len(s.waiting) + 1
        /\ \A k \in 1 .. Len(s.waiting) : w[k] = s.waiting[k]
        /\ w[Len(s.waiting) + 1] = t
    BY <1>1, AppendProperties
  <2> DEFINE q == Remotes!Queued(s, t)
  <2>4. /\ q \in Remotes!Semaphore /\ q.holders = s.holders /\ q.waiting = w
        /\ q.limit = s.limit
    BY <1>1, <2>2, <2>3 DEF Remotes!Semaphore
  <2> HIDE DEF q, w
  <2>5. \A k \in 1 .. Len(w) : k \in 1 .. Len(s.waiting) \/ k = Len(s.waiting) + 1
    BY <1>1, <2>3
  <2>6. t \notin s.holders /\ \A k \in 1 .. Len(s.waiting) : s.waiting[k] # t
    BY DEF Users
  <2>7. \A k \in 1 .. Len(w) : w[k] \notin s.holders
    BY <2>3, <2>5, <2>6 DEF Kept
  <2>8. \A k, l \in 1 .. Len(w) : w[k] = w[l] => k = l
    BY <2>3, <2>5, <2>6 DEF Kept
  <2>9. Kept(q)
    BY <1>1, <2>1, <2>4, <2>7, <2>8 DEF Kept
  <2>10. Users(q) \subseteq Users(s) \cup {t}
    BY <2>3, <2>4, <2>5 DEF Users
  <2> QED BY <2>4, <2>9, <2>10 DEF q
<1> QED BY <1>2, <1>3

\* A semaphore that is left passes the permit to the first who waits.
LEMMA PassOnKeeps ==
  ASSUME NEW s \in Remotes!Semaphore, NEW t \in s.holders, Kept(s)
  PROVE  /\ Remotes!PassOn(s, t) \in Remotes!Semaphore /\ Kept(Remotes!PassOn(s, t))
         /\ Users(Remotes!PassOn(s, t)) \subseteq Users(s) \ {t}
         /\ s.holders \ {t} \subseteq Remotes!PassOn(s, t).holders
<1> DEFINE rest == s.holders \ {t}
           q == Remotes!PassOn(s, t)
<1>1. /\ s.waiting \in Seq(UrlTasks) /\ Len(s.waiting) \in Nat /\ s.limit \in Nat
      /\ s.holders \in SUBSET UrlTasks /\ IsFiniteSet(s.holders)
      /\ Cardinality(s.holders) \in Nat /\ Cardinality(s.holders) <= s.limit
  BY FS_CardinalityType DEF Remotes!Semaphore, Kept
<1>2. IsFiniteSet(rest) /\ Cardinality(rest) = Cardinality(s.holders) - 1
  BY <1>1, FS_RemoveElement
<1>3. CASE s.waiting = <<>>
  <2>1. q = [s EXCEPT !.holders = rest]
    BY <1>3 DEF Remotes!PassOn
  <2>2. /\ q \in Remotes!Semaphore /\ q.holders = rest /\ q.waiting = <<>> /\ q.limit = s.limit
    BY <1>1, <1>3, <2>1 DEF Remotes!Semaphore
  <2>3. Len(s.waiting) = 0 /\ Len(q.waiting) = 0
    BY <1>3, <2>2
  <2> HIDE DEF q
  <2>4. Kept(q)
    BY <1>1, <1>2, <2>2, <2>3 DEF Kept
  <2>5. Users(q) \subseteq Users(s) \ {t}
    BY <2>2, <2>3 DEF Users
  <2> QED BY <2>2, <2>4, <2>5 DEF q
<1>4. CASE s.waiting # <<>>
  <2> DEFINE u == Head(s.waiting)
             w == Tail(s.waiting)
  <2>1. /\ u \in UrlTasks /\ w \in Seq(UrlTasks) /\ Len(w) = Len(s.waiting) - 1
        /\ u = s.waiting[1] /\ \A k \in 1 .. Len(w) : w[k] = s.waiting[k + 1]
    BY <1>1, <1>4, HeadTailProperties
  <2>2. Len(s.waiting) > 0
    BY <1>1, <1>4, EmptySeq
  <2>3. q = [s EXCEPT !.holders = rest \cup {u}, !.waiting = w]
    BY <1>4 DEF Remotes!PassOn
  <2> HIDE DEF u, w
  <2>4. u \notin s.holders /\ u # t /\ u \in Users(s)
    BY <1>1, <2>1, <2>2 DEF Kept, Users
  <2>5. /\ IsFiniteSet(rest \cup {u}) /\ Cardinality(rest \cup {u}) = Cardinality(rest) + 1
    BY <1>2, <2>4, FS_AddElement
  <2>6. /\ q \in Remotes!Semaphore /\ q.holders = rest \cup {u} /\ q.waiting = w
        /\ q.limit = s.limit
    <3>1. rest \cup {u} \in SUBSET UrlTasks
      BY <1>1, <2>1
    <3> HIDE DEF q, rest
    <3> QED BY <2>1, <2>3, <3>1 DEF Remotes!Semaphore
  <2> HIDE DEF q, rest
  <2>7. Cardinality(q.holders) = s.limit
    <3>1. Cardinality(s.holders) = s.limit
      BY <1>4 DEF Kept
    <3>2. Cardinality(q.holders) = Cardinality(rest) + 1
      BY <2>5, <2>6
    <3> QED BY <1>1, <1>2, <3>1, <3>2
  <2>8. \A k \in 1 .. Len(w) : k + 1 \in 1 .. Len(s.waiting) /\ k + 1 # 1
    BY <1>1, <2>1, <2>2
  <2>9. \A k \in 1 .. Len(w) : w[k] # u /\ w[k] \notin s.holders /\ w[k] \in Users(s)
    <3> TAKE k \in 1 .. Len(w)
    <3>1. k + 1 \in 1 .. Len(s.waiting) /\ 1 \in 1 .. Len(s.waiting) /\ k + 1 # 1
      BY <1>1, <2>2, <2>8
    <3>2. s.waiting[k + 1] # s.waiting[1] /\ s.waiting[k + 1] \notin s.holders
      BY <3>1 DEF Kept
    <3>3. s.waiting[k + 1] \in Users(s)
      BY <3>1 DEF Users
    <3> QED BY <2>1, <3>2, <3>3
  <2>10. \A k, l \in 1 .. Len(w) : w[k] = w[l] => k = l
    <3> TAKE k, l \in 1 .. Len(w)
    <3>1. w[k] = w[l] => k + 1 = l + 1
      BY <2>1, <2>8 DEF Kept
    <3> QED BY <3>1
  <2>11. Kept(q)
    BY <1>1, <2>5, <2>6, <2>7, <2>9, <2>10 DEF Kept, rest
  <2>12. Users(q) \subseteq Users(s) \ {t}
    BY <2>4, <2>6, <2>9 DEF Users, rest
  <2> QED BY <2>6, <2>11, <2>12 DEF q, rest
<1> QED BY <1>3, <1>4

\* One semaphore changes, and only for the task t.
LEMMA OneSemaphore ==
  ASSUME SemaphoresInv, NEW t \in UrlTasks, NEW i \in 1 .. Len(semaphores),
         NEW s \in Remotes!Semaphore, Kept(s),
         Users(s) \subseteq Users(semaphores[i]) \cup {t},
         semaphores[i].holders \ {t} \subseteq s.holders,
         t \in Users(s) => sem'[t] = i /\ urlPc'[t] \in {"wait", "fetch"},
         \A j \in 1 .. Len(semaphores) : j # i => t \notin Users(semaphores[j]),
         semaphores' = [semaphores EXCEPT ![i] = s],
         \A u \in UrlTasks \ {t} : urlPc'[u] = urlPc[u] /\ sem'[u] = sem[u],
         TaskHolds(t)'
  PROVE  SemaphoresInv' /\ Len(semaphores') = Len(semaphores)
<1>1. semaphores \in Seq(Remotes!Semaphore)
  BY DEF SemaphoresInv
<1>2. /\ semaphores' \in Seq(Remotes!Semaphore) /\ Len(semaphores') = Len(semaphores)
      /\ \A j \in 1 .. Len(semaphores) : semaphores'[j] = IF j = i THEN s ELSE semaphores[j]
  BY <1>1, ExceptSeq
<1>3. \A j \in 1 .. Len(semaphores) : semaphores[j] \in Remotes!Semaphore
  BY <1>1, ElementOfSeq
<1>4. \A j \in 1 .. Len(semaphores) : Users(semaphores[j]) \subseteq UrlTasks
  <2> TAKE j \in 1 .. Len(semaphores)
  <2>1. semaphores[j].waiting \in Seq(UrlTasks) /\ semaphores[j].holders \subseteq UrlTasks
    BY <1>3 DEF Remotes!Semaphore
  <2>2. \A k \in 1 .. Len(semaphores[j].waiting) : semaphores[j].waiting[k] \in UrlTasks
    BY <2>1, ElementOfSeq
  <2> QED BY <2>1, <2>2 DEF Users
<1>5. ASSUME NEW j \in 1 .. Len(semaphores') PROVE Kept(semaphores'[j]) /\ UsersAreTasks(j)'
  <2>1. CASE j = i
    <3>1. semaphores'[j] = s
      BY <1>2, <2>1
    <3>2. \A u \in Users(s) :
            u # t => u \in UrlTasks \ {t} /\ sem[u] = i /\ urlPc[u] \in {"wait", "fetch"}
      BY <1>4 DEF SemaphoresInv, UsersAreTasks
    <3> QED BY <2>1, <3>1, <3>2 DEF UsersAreTasks
  <2>2. CASE j # i
    <3>1. semaphores'[j] = semaphores[j] /\ j \in 1 .. Len(semaphores)
      BY <1>2, <2>2
    <3>2. \A u \in Users(semaphores[j]) :
            u \in UrlTasks \ {t} /\ sem[u] = j /\ urlPc[u] \in {"wait", "fetch"}
      BY <1>4, <2>2, <3>1 DEF SemaphoresInv, UsersAreTasks
    <3> QED BY <3>1, <3>2 DEF UsersAreTasks, SemaphoresInv
  <2> QED BY <2>1, <2>2
<1>6. ASSUME NEW u \in UrlTasks \ {t} PROVE TaskHolds(u)'
  <2>1. TaskHolds(u) /\ urlPc'[u] = urlPc[u] /\ sem'[u] = sem[u]
    BY DEF SemaphoresInv
  <2>2. urlPc[u] = "fetch" => u \in semaphores'[sem[u]].holders
    BY <1>2, <2>1 DEF TaskHolds
  <2> QED BY <1>2, <2>1, <2>2 DEF TaskHolds
<1> QED BY <1>2, <1>5, <1>6 DEF SemaphoresInv

\* A task that is at no semaphore, and does not come to one.
LEMMA Elsewhere ==
  ASSUME SemaphoresInv, NEW t \in UrlTasks, UNCHANGED semaphores,
         urlPc[t] \notin {"wait", "fetch"}, urlPc'[t] \notin {"wait", "fetch"},
         \A u \in UrlTasks \ {t} : urlPc'[u] = urlPc[u] /\ sem'[u] = sem[u]
  PROVE  SemaphoresInv'
<1>1. \A i \in 1 .. Len(semaphores) : Users(semaphores[i]) \subseteq UrlTasks
  <2> TAKE i \in 1 .. Len(semaphores)
  <2>1. semaphores[i] \in Remotes!Semaphore
    BY ElementOfSeq DEF SemaphoresInv
  <2>2. semaphores[i].waiting \in Seq(UrlTasks) /\ semaphores[i].holders \subseteq UrlTasks
    BY <2>1 DEF Remotes!Semaphore
  <2>3. \A k \in 1 .. Len(semaphores[i].waiting) : semaphores[i].waiting[k] \in UrlTasks
    BY <2>2, ElementOfSeq
  <2> QED BY <2>2, <2>3 DEF Users
<1>2. \A i \in 1 .. Len(semaphores) : Kept(semaphores[i]) /\ UsersAreTasks(i)'
  BY <1>1 DEF SemaphoresInv, UsersAreTasks
<1>3. \A u \in UrlTasks : TaskHolds(u)'
  BY DEF SemaphoresInv, TaskHolds
<1> QED BY <1>2, <1>3 DEF SemaphoresInv

\* A semaphore more, with one permit of it taken.
LEMMA MakeKeeps ==
  ASSUME UrlInv, NEW t \in UrlTasks, NEW n \in Nat \ {0}, urlPc[t] \notin {"wait", "fetch"},
         Remotes!MakeSemaphore(t, n)
  PROVE  /\ SemaphoresInv' /\ Len(semaphores') = Len(semaphores) + 1
         /\ current' \in 0 .. Len(semaphores')
         /\ sem' \in [UrlTasks -> 0 .. Len(semaphores')]
<1> DEFINE s == [limit |-> n, holders |-> {t}, waiting |-> <<>>]
           m == Len(semaphores) + 1
<1>1. /\ semaphores' = Append(semaphores, s) /\ current' = Len(semaphores')
      /\ sem' = [sem EXCEPT ![t] = current'] /\ urlPc' = [urlPc EXCEPT ![t] = "wait"]
  BY DEF Remotes!MakeSemaphore
<1>2. /\ s \in Remotes!Semaphore /\ s.limit = n /\ s.holders = {t} /\ s.waiting = <<>>
      /\ Len(s.waiting) = 0
  BY DEF Remotes!Semaphore
<1> HIDE DEF s
<1>3. Kept(s) /\ Users(s) = {t}
  <2>1. IsFiniteSet({t}) /\ Cardinality({t}) = 1
    BY FS_Singleton
  <2> QED BY <1>2, <2>1 DEF Kept, Users
<1>4. /\ semaphores \in Seq(Remotes!Semaphore) /\ Len(semaphores) \in Nat
      /\ urlPc \in [UrlTasks -> Remotes!PC] /\ sem \in [UrlTasks -> 0 .. Len(semaphores)]
  BY DEF UrlInv, Remotes!TypeOK
<1>5. m \in Nat \ {0} /\ Len(semaphores) = m - 1
  BY <1>4
<1> HIDE DEF m
<1>6. /\ semaphores' \in Seq(Remotes!Semaphore) /\ Len(semaphores') = m /\ semaphores'[m] = s
      /\ \A j \in 1 .. Len(semaphores) : semaphores'[j] = semaphores[j]
  BY <1>1, <1>2, <1>4, <1>5, AppendProperties
<1>7. /\ current' = m /\ sem' \in [UrlTasks -> 0 .. m] /\ sem'[t] = m /\ urlPc'[t] = "wait"
      /\ \A u \in UrlTasks \ {t} : urlPc'[u] = urlPc[u] /\ sem'[u] = sem[u]
  BY <1>1, <1>4, <1>5, <1>6
<1>8. ASSUME NEW j \in 1 .. Len(semaphores') PROVE Kept(semaphores'[j]) /\ UsersAreTasks(j)'
  <2>1. CASE j = m
    BY <1>3, <1>6, <1>7, <2>1 DEF UsersAreTasks
  <2>2. CASE j # m
    <3>1. j \in 1 .. Len(semaphores) /\ semaphores'[j] = semaphores[j]
      BY <1>5, <1>6, <2>2
    <3>2. semaphores[j] \in Remotes!Semaphore
      BY <1>4, <3>1, ElementOfSeq
    <3>3. semaphores[j].waiting \in Seq(UrlTasks) /\ semaphores[j].holders \subseteq UrlTasks
      BY <3>2 DEF Remotes!Semaphore
    <3>4. \A k \in 1 .. Len(semaphores[j].waiting) : semaphores[j].waiting[k] \in UrlTasks
      BY <3>3, ElementOfSeq
    <3>5. \A u \in Users(semaphores[j]) : u \in UrlTasks /\ u # t
      BY <3>1, <3>3, <3>4 DEF UrlInv, SemaphoresInv, UsersAreTasks, Users
    <3> QED BY <1>7, <3>1, <3>5 DEF UrlInv, SemaphoresInv, UsersAreTasks
  <2> QED BY <2>1, <2>2
<1>9. ASSUME NEW u \in UrlTasks PROVE TaskHolds(u)'
  <2>1. CASE u = t
    BY <1>5, <1>6, <1>7, <2>1 DEF TaskHolds
  <2>2. CASE u # t
    <3>1. TaskHolds(u) /\ urlPc'[u] = urlPc[u] /\ sem'[u] = sem[u]
      BY <1>7, <2>2 DEF UrlInv, SemaphoresInv
    <3> QED BY <1>5, <1>6, <3>1 DEF TaskHolds
  <2> QED BY <2>1, <2>2
<1> QED BY <1>5, <1>6, <1>7, <1>8, <1>9 DEF SemaphoresInv

\* A call of _get_hosts_limit returns.
LEMMA ReturnsKeep ==
  ASSUME Remotes!UrlAssumption, UrlInv, NEW t \in UrlTasks, NEW call, NEW c,
         urlPc[t] \notin {"wait", "fetch"}, Remotes!Returns(t, call, c)
  PROVE  /\ SemaphoresInv' /\ current' \in 0 .. Len(semaphores')
         /\ sem' \in [UrlTasks -> 0 .. Len(semaphores')] /\ urlPc' \in [UrlTasks -> Remotes!PC]
         /\ found' \in [UrlTasks -> {0, HostLimit}]
         /\ urlResult' \in [UrlTasks -> Remotes!Results]
<1>1. /\ semaphores \in Seq(Remotes!Semaphore) /\ Len(semaphores) \in Nat
      /\ urlPc \in [UrlTasks -> Remotes!PC] /\ sem \in [UrlTasks -> 0 .. Len(semaphores)]
      /\ current \in 0 .. Len(semaphores) /\ found \in [UrlTasks -> {0, HostLimit}]
      /\ urlResult \in [UrlTasks -> Remotes!Results]
  BY DEF UrlInv, Remotes!TypeOK
<1>2. CASE /\ Remotes!End(t, "raised") /\ found' = [found EXCEPT ![t] = 0]
           /\ UNCHANGED <<semaphores, current>>
  <2>1. /\ urlPc' = [urlPc EXCEPT ![t] = "done"] /\ sem' = [sem EXCEPT ![t] = 0]
        /\ urlResult' = [urlResult EXCEPT ![t] = "raised"]
    BY <1>2 DEF Remotes!End
  <2>2. SemaphoresInv'
    BY <1>1, <1>2, <2>1, Elsewhere DEF UrlInv
  <2> QED BY <1>1, <1>2, <2>1, <2>2 DEF Remotes!PC, Remotes!Results
<1>3. CASE /\ urlPc' = [urlPc EXCEPT ![t] = "default"]
           /\ found' = [found EXCEPT ![t] = Remotes!HostOf(c)]
           /\ UNCHANGED <<semaphores, current, sem, urlResult>>
  <2>1. SemaphoresInv'
    BY <1>1, <1>3, Elsewhere DEF UrlInv
  <2> QED BY <1>1, <1>3, <2>1 DEF Remotes!PC, Remotes!HostOf
<1>4. CASE /\ Remotes!MakeSemaphore(t, IF found[t] # 0 THEN found[t] ELSE Remotes!DefaultOf(c))
           /\ UNCHANGED urlResult
  <2> DEFINE n == IF found[t] # 0 THEN found[t] ELSE Remotes!DefaultOf(c)
  <2>1. n \in Nat \ {0}
    BY <1>1 DEF Remotes!UrlAssumption, Remotes!DefaultOf
  <2>2. Remotes!MakeSemaphore(t, n)
    BY <1>4
  <2> HIDE DEF n
  <2>3. /\ SemaphoresInv' /\ current' \in 0 .. Len(semaphores')
        /\ sem' \in [UrlTasks -> 0 .. Len(semaphores')]
    BY <2>1, <2>2, MakeKeeps
  <2>4. /\ urlPc' = [urlPc EXCEPT ![t] = "wait"] /\ found' = [found EXCEPT ![t] = 0]
    BY <2>2 DEF Remotes!MakeSemaphore
  <2> QED BY <1>1, <1>4, <2>3, <2>4 DEF Remotes!PC
<1> QED BY <1>2, <1>3, <1>4 DEF Remotes!Returns

\* No semaphore yet, and nobody at it.
LEMMA InitUrl == ASSUME Remotes!UrlAssumption PROVE Remotes!Init => UrlInv
<1> SUFFICES ASSUME Remotes!Init PROVE UrlInv
  OBVIOUS
<1>1. semaphores \in Seq(Remotes!Semaphore) /\ Len(semaphores) = 0
  BY DEF Remotes!Init
<1>2. Remotes!TypeOK
  BY <1>1 DEF Remotes!Init, Remotes!TypeOK, Remotes!UrlAssumption, Remotes!PC, Remotes!Results
<1>3. SemaphoresInv
  BY <1>1 DEF SemaphoresInv, TaskHolds, Remotes!Init
<1> QED BY <1>2, <1>3 DEF UrlInv

\* Each step of a request to a host keeps what is said of the semaphores.
LEMMA NextUrl ==
  ASSUME Remotes!UrlAssumption, UrlInv, [Remotes!Next]_(Remotes!vars)
  PROVE  UrlInv'
<1>a. /\ Remotes!TypeOK /\ SemaphoresInv /\ semaphores \in Seq(Remotes!Semaphore)
      /\ urlPc \in [UrlTasks -> Remotes!PC] /\ sem \in [UrlTasks -> 0 .. Len(semaphores)]
      /\ urlResult \in [UrlTasks -> Remotes!Results] /\ current \in 0 .. Len(semaphores)
      /\ hostsFile \in Remotes!Contents /\ Len(semaphores) \in Nat
      /\ MaxHostEdits \in Nat /\ hostsDate \in 1 .. MaxHostEdits + 1
      /\ hostsLimitDate \in 0 .. MaxHostEdits + 1
      /\ hostsLimit \in {"nothing", "host", "default", "invalid"}
      /\ found \in [UrlTasks -> {0, HostLimit}] /\ faulty \in [UrlTasks -> BOOLEAN]
  BY DEF UrlInv, Remotes!TypeOK, Remotes!UrlAssumption
<1>b. \A i \in 1 .. Len(semaphores) : semaphores[i] \in Remotes!Semaphore
  BY <1>a, ElementOfSeq
<1>1. ASSUME NEW t \in UrlTasks, Remotes!BeginGet(t) PROVE UrlInv'
  <2>0. /\ urlPc[t] = "idle"
        /\ UNCHANGED <<hostsFile, hostsDate, hostsLimit, hostsLimitDate, current, found, faulty>>
    BY <1>1 DEF Remotes!BeginGet, Remotes!file, Remotes!limits, Remotes!look
  <2>1. CASE current # 0 /\ Remotes!Acquire(t, current, semaphores[current]) /\ UNCHANGED urlResult
    <3>1. current \in 1 .. Len(semaphores)
      BY <1>a, <2>1
    <3> DEFINE s == Remotes!Queued(semaphores[current], t)
    <3>2. \A j \in 1 .. Len(semaphores) : t \notin Users(semaphores[j]) /\ Kept(semaphores[j])
      BY <1>a, <2>0 DEF SemaphoresInv, UsersAreTasks
    <3>3. /\ s \in Remotes!Semaphore /\ Kept(s)
          /\ Users(s) \subseteq Users(semaphores[current]) \cup {t}
          /\ semaphores[current].holders \subseteq s.holders
      BY <1>b, <3>1, <3>2, QueuedKeeps
    <3>4. /\ semaphores' = [semaphores EXCEPT ![current] = s]
          /\ sem' = [sem EXCEPT ![t] = current] /\ urlPc' = [urlPc EXCEPT ![t] = "wait"]
      BY <2>1 DEF Remotes!Acquire
    <3> HIDE DEF s
    <3>5. Len(semaphores') = Len(semaphores)
      BY <1>a, <3>3, <3>4
    <3>6. TaskHolds(t)'
      BY <1>a, <3>1, <3>4, <3>5 DEF TaskHolds
    <3>7. SemaphoresInv'
      BY <1>a, <3>1, <3>2, <3>3, <3>4, <3>6, OneSemaphore
    <3>8. Remotes!TypeOK'
      BY <1>a, <2>0, <2>1, <3>1, <3>4, <3>5, <3>7 DEF Remotes!TypeOK, Remotes!PC, SemaphoresInv
    <3> QED BY <3>7, <3>8 DEF UrlInv
  <2>2. CASE /\ urlPc' = [urlPc EXCEPT ![t] = "host"] /\ UNCHANGED <<semaphores, sem, urlResult>>
    <3>1. SemaphoresInv'
      BY <1>a, <2>0, <2>2, Elsewhere
    <3>2. Remotes!TypeOK'
      BY <1>a, <2>0, <2>2 DEF Remotes!TypeOK, Remotes!PC
    <3> QED BY <3>1, <3>2 DEF UrlInv
  <2>3. ASSUME NEW r \in {"missing", "tile", "raised"}, Remotes!End(t, r), UNCHANGED semaphores
        PROVE  UrlInv'
    <3>1. /\ urlPc' = [urlPc EXCEPT ![t] = "done"] /\ sem' = [sem EXCEPT ![t] = 0]
          /\ urlResult' = [urlResult EXCEPT ![t] = r]
      BY <2>3 DEF Remotes!End
    <3>2. SemaphoresInv'
      BY <1>a, <2>0, <2>3, <3>1, Elsewhere
    <3>3. Remotes!TypeOK'
      BY <1>a, <2>0, <2>3, <3>1 DEF Remotes!TypeOK, Remotes!PC, Remotes!Results
    <3> QED BY <3>2, <3>3 DEF UrlInv
  <2> QED BY <1>1, <2>1, <2>2, <2>3 DEF Remotes!BeginGet
<1>2. ASSUME NEW t \in UrlTasks, NEW call \in Remotes!Calls, Remotes!ReturnKept(t, call)
      PROVE  UrlInv'
  <2>1. /\ urlPc[t] \notin {"wait", "fetch"} /\ Remotes!Returns(t, call, hostsLimit)
        /\ UNCHANGED <<hostsFile, hostsDate, hostsLimit, hostsLimitDate, faulty>>
    BY <1>2 DEF Remotes!ReturnKept, Remotes!Calls, Remotes!file, Remotes!limits
  <2>2. /\ SemaphoresInv' /\ current' \in 0 .. Len(semaphores')
        /\ sem' \in [UrlTasks -> 0 .. Len(semaphores')] /\ urlPc' \in [UrlTasks -> Remotes!PC]
        /\ found' \in [UrlTasks -> {0, HostLimit}]
        /\ urlResult' \in [UrlTasks -> Remotes!Results]
    BY <2>1, ReturnsKeep
  <2> QED BY <1>a, <2>1, <2>2 DEF UrlInv, Remotes!TypeOK, SemaphoresInv
<1>3. ASSUME NEW t \in UrlTasks, NEW call \in Remotes!Calls, Remotes!ReadLimits(t, call)
      PROVE  UrlInv'
  <2>1. /\ urlPc[t] \notin {"wait", "fetch"}
        /\ UNCHANGED <<hostsFile, hostsDate, semaphores, current>>
    BY <1>3 DEF Remotes!ReadLimits, Remotes!Calls, Remotes!file
  <2>2. CASE /\ Remotes!End(t, "raised") /\ found' = [found EXCEPT ![t] = 0]
             /\ UNCHANGED <<hostsLimit, hostsLimitDate, faulty>>
    <3>1. /\ urlPc' = [urlPc EXCEPT ![t] = "done"] /\ sem' = [sem EXCEPT ![t] = 0]
          /\ urlResult' = [urlResult EXCEPT ![t] = "raised"]
      BY <2>2 DEF Remotes!End
    <3>2. SemaphoresInv'
      BY <1>a, <2>1, <3>1, Elsewhere
    <3>3. Remotes!TypeOK'
      BY <1>a, <2>1, <2>2, <3>1 DEF Remotes!TypeOK, Remotes!PC, Remotes!Results
    <3> QED BY <3>2, <3>3 DEF UrlInv
  <2>3. CASE /\ hostsFile \notin {"absent", "malformed"}
             /\ hostsLimit' = hostsFile /\ hostsLimitDate' = hostsDate
             /\ faulty' = [faulty EXCEPT ![t] = (hostsFile = "invalid")]
             /\ urlPc' = [urlPc EXCEPT ![t] = Remotes!Closing[call]]
             /\ UNCHANGED <<found, sem, urlResult>>
    <3>1. Remotes!Closing[call] \in {"host_close", "default_close"}
      BY DEF Remotes!Closing, Remotes!Calls
    <3>2. SemaphoresInv'
      BY <1>a, <2>1, <2>3, <3>1, Elsewhere
    <3>3. faulty' \in [UrlTasks -> BOOLEAN] /\ urlPc' \in [UrlTasks -> Remotes!PC]
      BY <1>a, <2>3, <3>1 DEF Remotes!PC
    <3>4. /\ hostsLimit' \in {"nothing", "host", "default", "invalid"}
          /\ hostsLimitDate' \in 0 .. MaxHostEdits + 1
      BY <1>a, <2>3 DEF Remotes!Contents
    <3>5. Remotes!TypeOK'
      BY <1>a, <2>1, <2>3, <3>3, <3>4 DEF Remotes!TypeOK
    <3> QED BY <3>2, <3>5 DEF UrlInv
  <2> QED BY <1>3, <2>2, <2>3 DEF Remotes!ReadLimits, Remotes!limits
<1>4. ASSUME NEW t \in UrlTasks, NEW call \in Remotes!Calls, Remotes!CloseFile(t, call)
      PROVE  UrlInv'
  <2>1. /\ urlPc[t] \notin {"wait", "fetch"} /\ Remotes!Returns(t, call, hostsLimit')
        /\ hostsLimit' \in {"nothing", "host", "default", "invalid"}
        /\ faulty' \in [UrlTasks -> BOOLEAN]
        /\ UNCHANGED <<hostsFile, hostsDate, hostsLimitDate>>
    BY <1>4, <1>a DEF Remotes!CloseFile, Remotes!Closing, Remotes!Calls, Remotes!file
  <2>2. /\ SemaphoresInv' /\ current' \in 0 .. Len(semaphores')
        /\ sem' \in [UrlTasks -> 0 .. Len(semaphores')] /\ urlPc' \in [UrlTasks -> Remotes!PC]
        /\ found' \in [UrlTasks -> {0, HostLimit}]
        /\ urlResult' \in [UrlTasks -> Remotes!Results]
    BY <2>1, ReturnsKeep
  <2> QED BY <1>a, <2>1, <2>2 DEF UrlInv, Remotes!TypeOK, SemaphoresInv
<1>5. ASSUME NEW t \in UrlTasks, Remotes!Enter(t) PROVE UrlInv'
  <2>1. /\ urlPc[t] = "wait" /\ t \in semaphores[sem[t]].holders
        /\ urlPc' = [urlPc EXCEPT ![t] = "fetch"]
        /\ UNCHANGED <<hostsFile, hostsDate, hostsLimit, hostsLimitDate, semaphores, current,
                       found, faulty, sem, urlResult>>
    BY <1>5 DEF Remotes!Enter, Remotes!file, Remotes!limits, Remotes!look
  <2>2. \A i \in 1 .. Len(semaphores) : UsersAreTasks(i)'
    BY <1>a, <2>1 DEF SemaphoresInv, UsersAreTasks
  <2>3. \A u \in UrlTasks : TaskHolds(u)'
    BY <1>a, <2>1 DEF SemaphoresInv, TaskHolds
  <2>4. Remotes!TypeOK'
    BY <1>a, <2>1 DEF Remotes!TypeOK, Remotes!PC
  <2> QED BY <1>a, <2>1, <2>2, <2>3, <2>4 DEF UrlInv, SemaphoresInv
<1>6. ASSUME NEW t \in UrlTasks, NEW r \in Remotes!Responses, Remotes!EndFetch(t, r) PROVE UrlInv'
  <2> DEFINE i == sem[t]
             s == Remotes!PassOn(semaphores[i], t)
  <2>1. i \in 1 .. Len(semaphores) /\ t \in semaphores[i].holders
    BY <1>a, <1>6 DEF Remotes!EndFetch, SemaphoresInv, TaskHolds
  <2>2. /\ s \in Remotes!Semaphore /\ Kept(s) /\ Users(s) \subseteq Users(semaphores[i]) \ {t}
        /\ semaphores[i].holders \ {t} \subseteq s.holders
    BY <1>a, <1>b, <2>1, PassOnKeeps DEF SemaphoresInv
  <2>3. /\ semaphores' = [semaphores EXCEPT ![i] = s]
        /\ urlResult' = [urlResult EXCEPT ![t] = Remotes!Outcome(r)]
        /\ sem' = [sem EXCEPT ![t] = 0] /\ urlPc' = [urlPc EXCEPT ![t] = "done"]
        /\ UNCHANGED <<hostsFile, hostsDate, hostsLimit, hostsLimitDate, current, found, faulty>>
    BY <1>6 DEF Remotes!EndFetch, Remotes!Released, Remotes!End, Remotes!file, Remotes!limits,
      Remotes!look
  <2>4. \A j \in 1 .. Len(semaphores) : j # i => t \notin Users(semaphores[j])
    BY <1>a DEF SemaphoresInv, UsersAreTasks
  <2> HIDE DEF s, i
  <2>5. Len(semaphores') = Len(semaphores)
    BY <1>a, <2>2, <2>3
  <2>6. TaskHolds(t)'
    BY <1>a, <2>3 DEF TaskHolds
  <2>7. SemaphoresInv'
    <3>1. \A u \in UrlTasks \ {t} : urlPc'[u] = urlPc[u] /\ sem'[u] = sem[u]
      BY <1>a, <2>3
    <3> QED BY <1>a, <2>1, <2>2, <2>3, <2>4, <2>6, <3>1, OneSemaphore
  <2>8. Remotes!Outcome(r) \in Remotes!Results
    BY <1>6 DEF Remotes!Outcome, Remotes!Results, Remotes!Responses
  <2>9. Remotes!TypeOK'
    BY <1>a, <2>3, <2>5, <2>7, <2>8 DEF Remotes!TypeOK, Remotes!PC, SemaphoresInv
  <2> QED BY <2>7, <2>9 DEF UrlInv
<1>7. ASSUME NEW t \in UrlTasks, Remotes!NextTile(t) PROVE UrlInv'
  <2>1. /\ urlPc[t] = "done" /\ urlPc' = [urlPc EXCEPT ![t] = "idle"]
        /\ urlResult' = [urlResult EXCEPT ![t] = "none"]
        /\ UNCHANGED <<hostsFile, hostsDate, hostsLimit, hostsLimitDate, semaphores, current,
                       found, faulty, sem>>
    BY <1>7 DEF Remotes!NextTile, Remotes!file, Remotes!limits, Remotes!look
  <2>2. SemaphoresInv'
    BY <1>a, <2>1, Elsewhere
  <2>3. Remotes!TypeOK'
    BY <1>a, <2>1 DEF Remotes!TypeOK, Remotes!PC, Remotes!Results
  <2> QED BY <2>2, <2>3 DEF UrlInv
<1>8. ASSUME Remotes!EditHostsFile PROVE UrlInv'
  <2>1. /\ hostsFile' \in Remotes!Contents /\ hostsDate' \in 1 .. MaxHostEdits + 1
        /\ UNCHANGED <<hostsLimit, hostsLimitDate, semaphores, current, urlPc, found, faulty, sem,
                       urlResult>>
    BY <1>a, <1>8 DEF Remotes!EditHostsFile, Remotes!limits, Remotes!look
  <2> QED BY <1>a, <2>1
    DEF UrlInv, Remotes!TypeOK, SemaphoresInv, UsersAreTasks, TaskHolds
<1>9. CASE UNCHANGED Remotes!vars
  <2>1. UNCHANGED <<hostsFile, hostsDate, hostsLimit, hostsLimitDate, semaphores, current, urlPc,
                    found, faulty, sem, urlResult>>
    BY <1>9 DEF Remotes!vars, Remotes!file, Remotes!limits, Remotes!look
  <2> QED BY <1>a, <2>1
    DEF UrlInv, Remotes!TypeOK, SemaphoresInv, UsersAreTasks, TaskHolds
<1> QED
  BY <1>1, <1>2, <1>3, <1>4, <1>5, <1>6, <1>7, <1>8, <1>9
  DEF Remotes!Next, Remotes!GetOne, Remotes!GetHostsLimit

\* What the semaphores must guarantee is in the invariant: who waits in line does not fetch,
\* for who fetches is a holder.
LEMMA UrlKept == ASSUME UrlInv PROVE Remotes!PermitsAreKept
<1>1. semaphores \in Seq(Remotes!Semaphore) /\ DOMAIN semaphores = 1 .. Len(semaphores)
  BY DEF UrlInv, SemaphoresInv
<1> SUFFICES ASSUME NEW i \in 1 .. Len(semaphores)
             PROVE  LET s == semaphores[i] IN
                    /\ Cardinality(s.holders) <= s.limit
                    /\ \A t \in s.holders : sem[t] = i /\ urlPc[t] \in {"wait", "fetch"}
                    /\ s.waiting # <<>> => Cardinality(s.holders) = s.limit
                    /\ \A k \in DOMAIN s.waiting :
                         sem[s.waiting[k]] = i /\ urlPc[s.waiting[k]] = "wait"
  BY <1>1, UrlCardinality DEF Remotes!PermitsAreKept
<1> DEFINE s == semaphores[i]
<1>2. s \in Remotes!Semaphore /\ Kept(s)
  BY <1>1, ElementOfSeq DEF UrlInv, SemaphoresInv
<1>3. s.waiting \in Seq(UrlTasks) /\ DOMAIN s.waiting = 1 .. Len(s.waiting)
  BY <1>2 DEF Remotes!Semaphore
<1>4. \A u \in Users(s) : sem[u] = i /\ urlPc[u] \in {"wait", "fetch"}
  BY DEF UrlInv, SemaphoresInv, UsersAreTasks
<1>5. ASSUME NEW k \in 1 .. Len(s.waiting)
      PROVE  sem[s.waiting[k]] = i /\ urlPc[s.waiting[k]] = "wait"
  <2> DEFINE u == s.waiting[k]
  <2>1. u \in UrlTasks /\ u \in Users(s) /\ u \notin s.holders
    BY <1>2, <1>3, ElementOfSeq DEF Users, Kept
  <2>2. urlPc[u] = "fetch" => u \in s.holders
    BY <1>4, <2>1 DEF UrlInv, SemaphoresInv, TaskHolds
  <2> QED BY <1>4, <2>1, <2>2
<1> QED BY <1>2, <1>3, <1>4, <1>5 DEF Kept, Users

\* However many semaphores the tasks make of a host, and whatever their requests end with,
\* no permit is lost or given twice, and none is free while a task waits for it.
THEOREM PermitsStayKept == SharedSpec => []PermitsAreKept
<1>1. SharedInit => UrlInv
  BY InitUrl, UrlsAssumption DEF SharedInit
<1>2. UrlInv /\ [SharedNext]_sharedVars => UrlInv'
  <2>1. UNCHANGED urlVars => UNCHANGED Remotes!vars
    BY DEF urlVars, Remotes!vars, Remotes!file, Remotes!limits, Remotes!look
  <2>2. [SharedNext]_sharedVars => [Remotes!Next]_(Remotes!vars)
    BY <2>1 DEF SharedNext, CachesStep, StoresStep, LegendsStep, UrlsStep, RoutesStep, sharedVars
  <2> QED BY <2>2, NextUrl, UrlsAssumption
<1>3. UrlInv => PermitsAreKept
  BY UrlKept DEF UrlInv, PermitsAreKept
<1> QED
  BY <1>1, <1>2, <1>3, PTL DEF SharedSpec

-----------------------------------------------------------------------------
(* The map cache: what is kept.                                            *)

\* What a request looked at in the loop of compute_tile is in Redis, or was an error.
Before == {"new", "build", "run_init", "read", "wait", "reread"}
StoredSoFar ==
  \A r \in Requests :
    /\ pc[r] \in Before => sub[r] = NoTiles
    /\ pc[r] \notin {"release", "done", "dead"} => answer[r] # "tile"
    /\ pc[r] = "store" => \A t \in Tiles \ left[r] :
         /\ answer[r] = "error" \/ sub[r][t] = "ok"
         /\ sub[r][t] = "ok" /\ expiries = 0 =>
              cache[t] # "nothing" /\ (Calm => cache[t] = "tile")
    /\ pc[r] = "meta" => left[r] = Tiles

\* A process builds its pipeline once: whoever is inside the lock of _get_generator is
\* its builder, and found the functions as Generate made them.
BuildsAlone == "config" \notin troubles =>
  /\ \A r \in Requests :
       LET s == ServerOf[r] IN
       /\ pc[r] \in {"build", "run_init"} => building[s] = r
       /\ pc[r] = "build" => ~splitter[s]
  /\ \A s \in Servers :
       /\ building[s] # None => ServerOf[building[s]] = s
       /\ splitter[s] =>
            generator[s] \/ (building[s] # None /\ pc[building[s]] = "run_init")

-----------------------------------------------------------------------------
LEMMA InitTyped == Init => TypeOK
BY MapCacheAssumption DEF Init, TypeOK, NoTiles, Empty, PC, Answers, Results, Contents

\* Every step keeps the types, action by action.
LEMMA NextTyped == TypeOK /\ [Next]_vars => TypeOK'
<1> SUFFICES ASSUME TypeOK, [Next]_vars PROVE TypeOK'
  OBVIOUS
<1> USE MapCacheAssumption
<1>1. ASSUME NEW r \in Requests, GetGenerator(r) PROVE TypeOK'
  <2>1. CASE generator[ServerOf[r]]
    BY <1>1, <2>1 DEF TypeOK, GetGenerator, Goto, PC, redis, attempt, environment, bounds
  <2>2. CASE ~generator[ServerOf[r]]
    <3>1. ServerOf[r] \in Servers /\ "build" \in PC
      BY DEF PC
    <3>2. building \in [Servers -> Requests \cup {None}] /\ pc \in [Requests -> PC]
      BY DEF TypeOK
    <3>3. /\ pc' = [pc EXCEPT ![r] = "build"]
          /\ building' = [building EXCEPT ![ServerOf[r]] = r]
      BY <1>1, <2>2 DEF GetGenerator, Goto
    <3>4. building' \in [Servers -> Requests \cup {None}] /\ pc' \in [Requests -> PC]
      BY <3>1, <3>2, <3>3
    <3> QED
      BY <1>1, <3>4 DEF TypeOK, GetGenerator, redis, attempt, environment, bounds
  <2> QED
    BY <2>1, <2>2
<1>2. ASSUME NEW r \in Requests, BuildPipeline(r) PROVE TypeOK'
  <2>1. pc' \in [Requests -> PC]
    <3>1. Goto(r, "done") \/ Goto(r, "run_init")
      BY <1>2 DEF BuildPipeline, FailBuild
    <3> QED
      BY <3>1 DEF TypeOK, Goto, PC
  <2>2. building' \in [Servers -> Requests \cup {None}] /\ answer' \in [Requests -> Answers]
    BY <1>2 DEF TypeOK, BuildPipeline, FailBuild, Answer, Answers
  <2>3. added' \in [Servers -> Nat] /\ splitter' \in [Servers -> BOOLEAN]
    <3>1. ServerOf[r] \in Servers
      OBVIOUS
    <3>2. added' = added \/ added' = [added EXCEPT ![ServerOf[r]] = @ + 1]
      BY <1>2 DEF BuildPipeline
    <3>3. splitter' = splitter \/ splitter' = [splitter EXCEPT ![ServerOf[r]] = TRUE]
      BY <1>2 DEF BuildPipeline
    <3>4. added \in [Servers -> Nat] /\ splitter \in [Servers -> BOOLEAN]
      BY DEF TypeOK
    <3>5. added' \in [Servers -> Nat]
      BY <3>1, <3>2, <3>4
    <3> QED
      BY <3>1, <3>3, <3>4, <3>5
  <2>4. UNCHANGED <<redis, generator, attempt, generations, environment>>
    BY <1>2 DEF BuildPipeline
  <2> QED
    BY <2>1, <2>2, <2>3, <2>4 DEF TypeOK, redis, attempt, environment, bounds
<1>3. ASSUME NEW r \in Requests, RunInit(r) PROVE TypeOK'
  BY <1>3 DEF TypeOK, RunInit, FailBuild, Goto, Answer, PC, Answers, redis, attempt,
              environment, bounds
<1>4. ASSUME NEW r \in Requests, ReadFromCache(r) PROVE TypeOK'
  <2>1. Readable(TileOf[r]) # "nothing" => Readable(TileOf[r]) \in Answers
    BY DEF TypeOK, Readable, Contents, Answers
  <2>2. pc' \in [Requests -> PC]
    BY <1>4 DEF TypeOK, ReadFromCache, RedisFails, Goto, PC
  <2>3. answer' \in [Requests -> Answers]
    BY <1>4, <2>1 DEF TypeOK, ReadFromCache, RedisFails, Answer, Answers
  <2> QED
    BY <1>4, <2>2, <2>3 DEF TypeOK, ReadFromCache, redis, init, attempt, environment, bounds
<1>5. ASSUME NEW r \in Requests, Acquire(r) PROVE TypeOK'
  BY <1>5 DEF TypeOK, Acquire, RedisFails, Goto, Answer, PC, Answers, init, attempt,
              environment, bounds
<1>6. ASSUME NEW r \in Requests, ReadAgain(r) PROVE TypeOK'
  <2>1. Readable(TileOf[r]) # "nothing" => Readable(TileOf[r]) \in Answers
    BY DEF TypeOK, Readable, Contents, Answers
  <2>2. pc' \in [Requests -> PC]
    BY <1>6 DEF TypeOK, ReadAgain, RedisFails, Goto, PC
  <2>3. answer' \in [Requests -> Answers]
    BY <1>6, <2>1 DEF TypeOK, ReadAgain, FoundUnderLock, RedisFails, Answer, Answers
  <2> QED
    BY <1>6, <2>2, <2>3 DEF TypeOK, ReadAgain, redis, init, attempt, environment, bounds
<1>7. ASSUME NEW r \in Requests, RunMetaTile(r) PROVE TypeOK'
  <2>1. ASSUME Retry(r), UNCHANGED <<answer, sub>>, 
               metaError' = [metaError EXCEPT ![r] = TRUE] PROVE TypeOK'
    BY <1>7, <2>1 DEF TypeOK, RunMetaTile, Retry, Goto, PC, redis, init, environment, bounds
  <2>2. ASSUME Goto(r, "release"), Answer(r, "error"), UNCHANGED <<tries, left, sub>>,
               metaError' = [metaError EXCEPT ![r] = TRUE] PROVE TypeOK'
    BY <1>7, <2>2 DEF TypeOK, RunMetaTile, Goto, Answer, PC, Answers, redis, init,
                      environment, bounds
  <2>3. ASSUME NEW answered \in [Tiles -> Results], sub' = [sub EXCEPT ![r] = answered],
               left' = [left EXCEPT ![r] = Tiles],
               metaError' = [metaError EXCEPT ![r] = FALSE],
               Goto(r, "meta"), UNCHANGED <<tries, answer>> PROVE TypeOK'
    BY <1>7, <2>3 DEF TypeOK, RunMetaTile, Goto, PC, redis, init, environment, bounds
  <2> QED
    BY <1>7, <2>1, <2>2, <2>3 DEF RunMetaTile, Results
<1>8. ASSUME NEW r \in Requests, NEW t \in Tiles, StoreTile(r, t) PROVE TypeOK'
  <2>1. pc' \in [Requests -> PC] /\ answer' \in [Requests -> Answers]
    BY <1>8 DEF TypeOK, StoreTile, RedisFails, Retry, Goto, Answer, PC, Answers
  <2>2. tries' \in [Requests -> 0 .. Retries] /\ left' \in [Requests -> SUBSET Tiles]
    <3>1. tries' = tries \/ (tries[r] > 0 /\ tries' = [tries EXCEPT ![r] = @ - 1])
      BY <1>8 DEF StoreTile, Retry
    <3>2. \E rest \in SUBSET Tiles : left' = [left EXCEPT ![r] = rest]
      <4>1. left = [left EXCEPT ![r] = left[r]] /\ left[r] \in SUBSET Tiles
        BY DEF TypeOK
      <4> QED
        BY <1>8, <4>1 DEF StoreTile, Retry
    <3>3. tries \in [Requests -> 0 .. Retries] /\ left \in [Requests -> SUBSET Tiles]
      BY DEF TypeOK
    <3>4. tries[r] > 0 => tries[r] - 1 \in 0 .. Retries
      BY <3>3
    <3>5. tries' \in [Requests -> 0 .. Retries]
      BY <3>1, <3>3, <3>4
    <3> QED
      BY <3>2, <3>3, <3>5
  <2>3. /\ cache' \in [Tiles -> Contents]
        /\ UNCHANGED <<replica, lock, init, metaError, sub, generations, environment>>
    BY <1>8 DEF TypeOK, StoreTile, Put, Contents
  <2> QED
    BY <2>1, <2>2, <2>3 DEF TypeOK, init, environment, bounds
<1>9. ASSUME NEW r \in Requests, EndCompute(r) PROVE TypeOK'
  <2>1. pc' \in [Requests -> PC] /\ answer' \in [Requests -> Answers]
    BY <1>9 DEF TypeOK, EndCompute, Goto, Answer, PC, Answers
  <2>2. generations' \in Nat
    BY <1>9 DEF TypeOK, EndCompute
  <2> QED
    BY <1>9, <2>1, <2>2 DEF TypeOK, EndCompute, redis, init, attempt, environment, bounds
<1>10. ASSUME NEW r \in Requests, Release(r) PROVE TypeOK'
  BY <1>10 DEF TypeOK, Release, EndAttempts, NoTiles, Results, Goto, Answer, PC, Answers,
               init, environment, bounds
<1>11. ASSUME LockExpires PROVE TypeOK'
  BY <1>11 DEF TypeOK, LockExpires, init, attempt, environment, bounds
<1>12. ASSUME Replicate PROVE TypeOK'
  BY <1>12 DEF TypeOK, Replicate, init, attempt, environment, bounds
<1>13. ASSUME SourceStopsOrReturns PROVE TypeOK'
  BY <1>13 DEF TypeOK, SourceStopsOrReturns, redis, init, attempt
<1>14. ASSUME NEW t \in Tiles, TileExpires(t) PROVE TypeOK'
  BY <1>14 DEF TypeOK, TileExpires, Put, Contents, init, attempt
<1>15. ASSUME NEW s \in Servers, Crash(s) PROVE TypeOK'
  BY <1>15 DEF TypeOK, Crash, EndAttempts, NoTiles, Results, RequestsOf, PC, redis
<1>16. ASSUME NEW r \in Requests, StoreMetaTile(r) PROVE TypeOK'
  <2>1. cache' \in [Tiles -> Contents]
    BY <1>16 DEF TypeOK, StoreMetaTile, Put, Contents
  <2>2. pc' \in [Requests -> PC] /\ answer' \in [Requests -> Answers]
    BY <1>16 DEF TypeOK, StoreMetaTile, RedisFails, Goto, Answer, PC, Answers
  <2> QED
    BY <1>16, <2>1, <2>2 DEF TypeOK, StoreMetaTile, init, attempt, environment, bounds
<1>17. CASE UNCHANGED vars
  BY <1>17 DEF TypeOK, vars, redis, init, attempt, environment, bounds
<1> QED
  BY <1>1, <1>2, <1>3, <1>4, <1>5, <1>6, <1>7, <1>8, <1>9, <1>10, <1>11, <1>12, <1>13,
     <1>14, <1>15, <1>16, <1>17 DEF Next, Serve

\* Requests, servers and Redis keep the types of their state.
THEOREM SpecTypeOK == Spec => []TypeOK
<1>1. Init => TypeOK
  BY InitTyped
<1>2. TypeOK /\ [Next]_vars => TypeOK'
  BY NextTyped
<1> QED
  BY <1>1, <1>2, PTL DEF Spec

\* What may go wrong, and whether there is a replica, is settled in the beginning.
LEMMA TroublesStay == [Next]_vars => troubles' = troubles /\ replicated' = replicated
BY DEF Next, Serve, GetGenerator, BuildPipeline, RunInit, ReadFromCache, Acquire, ReadAgain,
       RunMetaTile, StoreMetaTile, StoreTile, EndCompute, Release, LockExpires, Replicate,
       SourceStopsOrReturns, TileExpires, Crash, environment, vars

-----------------------------------------------------------------------------
\* While no generation outlives max_generation_time, the lock is the request's from its
\* acquisition on: a step of another one cannot take it.
LEMMA NextLockIsKept ==
  TypeOK /\ LockIsKept /\ [Next]_vars => LockIsKept'
<1> SUFFICES ASSUME Calm, TypeOK, LockIsKept, [Next]_vars, NEW q \in Requests,
                    pc'[q] \in Holding
             PROVE  lock' = q
  BY TroublesStay DEF LockIsKept, Calm
<1> USE DEF Holding, Goto, Answer, TypeOK, LockIsKept
<1>1. ASSUME NEW r \in Requests, Acquire(r) PROVE lock' = q
  BY MapCacheAssumption, <1>1 DEF Acquire, RedisFails
<1>2. ASSUME NEW r \in Requests, Release(r) PROVE lock' = q
  BY <1>2 DEF Release
<1>3. ASSUME NEW r \in Requests, GetGenerator(r) \/ BuildPipeline(r) \/ RunInit(r)
                                 \/ ReadFromCache(r) PROVE lock' = q
  BY <1>3 DEF GetGenerator, BuildPipeline, RunInit, ReadFromCache, RedisFails, FailBuild, redis
<1>4. ASSUME NEW r \in Requests, ReadAgain(r) \/ RunMetaTile(r) \/ EndCompute(r)
      PROVE  lock' = q
  BY <1>4 DEF ReadAgain, RedisFails, RunMetaTile, EndCompute, Retry, redis
<1>5. ASSUME NEW r \in Requests, StoreMetaTile(r) \/ \E t \in Tiles : StoreTile(r, t)
      PROVE  lock' = q
  BY <1>5 DEF StoreMetaTile, StoreTile, RedisFails, Retry
<1>6. ASSUME LockExpires PROVE lock' = q
  BY <1>6 DEF LockExpires, HeldTooLong, Calm
<1>7. ASSUME NEW s \in Servers, Crash(s) PROVE lock' = q
  BY <1>7 DEF Crash, redis
<1>8. ASSUME Replicate \/ SourceStopsOrReturns \/ \E t \in Tiles : TileExpires(t)
      PROVE  lock' = q
  BY <1>8 DEF Replicate, SourceStopsOrReturns, TileExpires, redis
<1>9. CASE UNCHANGED vars
  BY <1>9 DEF vars, redis
<1> QED
  BY <1>1, <1>2, <1>3, <1>4, <1>5, <1>6, <1>7, <1>8, <1>9 DEF Next, Serve

\* No request loses the Redis lock before it releases it, whatever else fails.
THEOREM SpecLockIsKept == Spec => []LockIsKept
<1>1. Init => LockIsKept
  BY DEF Init, LockIsKept, Holding
<1>2. TypeOK /\ LockIsKept /\ [Next]_vars => LockIsKept'
  BY NextLockIsKept
<1> QED
  BY <1>1, <1>2, SpecTypeOK, PTL DEF Spec

\* Two requests, of any servers, never generate the meta tile at once.
THEOREM SpecOneGeneration == Spec => []OneGeneration
<1>1. LockIsKept => OneGeneration
  BY DEF LockIsKept, OneGeneration, Holding, Generating
<1> QED
  BY <1>1, SpecLockIsKept, PTL

-----------------------------------------------------------------------------
\* What the loop of compute_tile stored stays until it expires; a step of another
\* request only adds to Redis, and the image of a meta tile comes under the lock.
LEMMA NextStoredSoFar ==
  TypeOK /\ LockIsKept /\ StoredSoFar /\ [Next]_vars => StoredSoFar'
<1> SUFFICES ASSUME TypeOK, LockIsKept, StoredSoFar, [Next]_vars PROVE StoredSoFar'
  OBVIOUS
<1>a. Calm' <=> Calm
  BY TroublesStay DEF Calm
<1> USE DEF StoredSoFar, Before, Goto, Answer, TypeOK
<1>1. ASSUME NEW r \in Requests, GetGenerator(r) PROVE StoredSoFar'
  BY <1>a, <1>1 DEF GetGenerator, redis, attempt, environment, bounds
<1>2. ASSUME NEW r \in Requests, BuildPipeline(r) \/ RunInit(r) PROVE StoredSoFar'
  BY <1>a, <1>2 DEF BuildPipeline, RunInit, FailBuild, redis, attempt, environment, bounds
<1>3. ASSUME NEW r \in Requests, ReadFromCache(r) \/ ReadAgain(r) PROVE StoredSoFar'
  <2>1. /\ \A q \in Requests \ {r} : pc'[q] = pc[q] /\ answer'[q] = answer[q]
        /\ UNCHANGED <<cache, sub, left, expiries>>
    BY <1>3 DEF ReadFromCache, ReadAgain, RedisFails, redis, attempt, environment, bounds
  <2>2. /\ pc[r] \in {"read", "reread"} /\ pc'[r] \in {"wait", "generate", "release", "done"}
        /\ pc'[r] \in {"wait", "generate"} => answer'[r] = answer[r]
    BY <1>3 DEF ReadFromCache, ReadAgain, RedisFails
  <2> QED
    BY <1>a, <2>1, <2>2
<1>4. ASSUME NEW r \in Requests, Acquire(r) PROVE StoredSoFar'
  BY <1>a, <1>4 DEF Acquire, RedisFails, attempt, environment, bounds
<1>5. ASSUME NEW r \in Requests, RunMetaTile(r) PROVE StoredSoFar'
  <2>1. \A q \in Requests \ {r} : sub'[q] = sub[q] /\ left'[q] = left[q] /\ pc'[q] = pc[q]
                                  /\ answer'[q] = answer[q]
    BY <1>5 DEF RunMetaTile, Retry
  <2>2. UNCHANGED <<cache, expiries>>
    BY <1>5 DEF RunMetaTile, redis, environment, bounds
  <2>3. pc'[r] \in {"generate", "release"} \/ (pc'[r] = "meta" /\ left'[r] = Tiles)
    BY <1>5 DEF RunMetaTile, Retry
  <2>4. pc'[r] # "release" => answer'[r] = answer[r]
    BY <1>5 DEF RunMetaTile, Retry
  <2>5. pc[r] = "generate"
    BY <1>5 DEF RunMetaTile
  <2> QED
    BY <1>a, <2>1, <2>2, <2>3, <2>4, <2>5
<1>6. ASSUME NEW r \in Requests, NEW t \in Tiles, StoreTile(r, t) PROVE StoredSoFar'
  <2>1. \A q \in Requests \ {r} : left'[q] = left[q] /\ pc'[q] = pc[q] /\ answer'[q] = answer[q]
    BY <1>6 DEF StoreTile, RedisFails, Retry
  <2>2. /\ \A u \in Tiles : cache'[u] = cache[u] \/ cache'[u] = "tile"
        /\ UNCHANGED <<sub, expiries>>
    BY <1>6 DEF StoreTile, Put, environment, bounds
  <2>3. \/ pc'[r] \in {"generate", "release"}
        \/ pc'[r] = "store" /\ left'[r] = left[r] \ {t} /\ answer'[r] = answer[r]
           /\ sub[r][t] = "ok" /\ cache'[t] = "tile"
        \/ pc'[r] = "store" /\ left'[r] = left[r] \ {t} /\ answer'[r] = "error"
           /\ sub[r][t] # "ok"
    BY <1>6 DEF StoreTile, Put, RedisFails, Retry
  <2>4. pc'[r] \in {"generate", "store"} => answer'[r] = answer[r] \/ answer'[r] = "error"
    BY <1>6 DEF StoreTile, RedisFails, Retry
  <2>5. pc[r] = "store"
    BY <1>6 DEF StoreTile
  <2> QED
    BY <1>a, <2>1, <2>2, <2>3, <2>4, <2>5
<1>7. ASSUME NEW r \in Requests, StoreMetaTile(r) PROVE StoredSoFar'
  <2>1. /\ \A q \in Requests \ {r} : pc'[q] = pc[q] /\ answer'[q] = answer[q]
        /\ UNCHANGED <<left, sub, expiries>>
    BY <1>7 DEF StoreMetaTile, RedisFails, attempt, environment, bounds
  <2>2. \A u \in Tiles : cache'[u] = cache[u] \/ cache'[u] = "meta"
    BY <1>7 DEF StoreMetaTile, Put
  <2>3. /\ pc[r] = "meta" /\ left[r] = Tiles
        /\ pc'[r] = "release" \/ (pc'[r] = "store" /\ answer'[r] = answer[r])
    BY <1>7 DEF StoreMetaTile, RedisFails
  <2>4. Calm => \A q \in Requests \ {r} : pc[q] # "store"
    BY <2>3 DEF LockIsKept, Holding
  <2> QED
    BY <1>a, <2>1, <2>2, <2>3, <2>4
<1>8. ASSUME NEW r \in Requests, EndCompute(r) PROVE StoredSoFar'
  BY <1>a, <1>8 DEF EndCompute, redis, attempt, environment, bounds
<1>9. ASSUME NEW r \in Requests, Release(r) PROVE StoredSoFar'
  BY <1>a, <1>9 DEF Release, EndAttempts, environment, bounds
<1>10. ASSUME NEW s \in Servers, Crash(s) PROVE StoredSoFar'
  BY <1>a, <1>10 DEF Crash, EndAttempts, RequestsOf, redis
<1>11. ASSUME NEW t \in Tiles, TileExpires(t) PROVE StoredSoFar'
  BY MapCacheAssumption, <1>a, <1>11 DEF TileExpires, attempt
<1>12. ASSUME LockExpires \/ Replicate \/ SourceStopsOrReturns PROVE StoredSoFar'
  BY <1>a, <1>12 DEF LockExpires, Replicate, SourceStopsOrReturns, redis, attempt,
                     environment, bounds
<1>13. CASE UNCHANGED vars
  BY <1>a, <1>13 DEF vars, redis, attempt, environment, bounds
<1> QED
  BY <1>1, <1>2, <1>3, <1>4, <1>5, <1>6, <1>7, <1>8, <1>9, <1>10, <1>11, <1>12, <1>13
  DEF Next, Serve

\* A request that leaves the loop without an error looked at every tile.
Filled == \A t \in Tiles : cache[t] # "nothing" /\ (Calm => cache[t] = "tile")
LEMMA NextSuccessFillsCache ==
  TypeOK /\ LockIsKept /\ StoredSoFar /\ SuccessFillsCache /\ [Next]_vars => SuccessFillsCache'
<1> SUFFICES ASSUME TypeOK, LockIsKept, StoredSoFar, SuccessFillsCache, [Next]_vars,
                    NEW q \in Requests, pc'[q] = "release", answer'[q] = "tile",
                    sub'[q][TileOf[q]] = "ok", expiries' = 0
             PROVE  Filled'
  BY DEF SuccessFillsCache, Filled
<1>a. Calm' <=> Calm
  BY TroublesStay DEF Calm
<1> USE DEF Goto, Answer, TypeOK
<1>1. ASSUME pc[q] = "release", answer[q] = "tile", sub'[q] = sub[q], expiries = 0,
             \A t \in Tiles : cache'[t] = cache[t] \/ cache'[t] = "tile"
      PROVE  Filled'
  BY <1>a, <1>1 DEF SuccessFillsCache, Filled
<1>2. ASSUME NEW r \in Requests, EndCompute(r) PROVE Filled'
  <2>1. CASE q = r
    <3>1. answer[r] # "error" /\ pc[r] = "store" /\ left[r] \cap Tiles = {}
      BY <1>2, <2>1 DEF EndCompute, Wanted
    <3>2. expiries = 0 /\ cache' = cache
      BY <1>2 DEF EndCompute, redis, environment, bounds
    <3> QED
      BY <1>a, <3>1, <3>2 DEF StoredSoFar, Filled
  <2>2. CASE q # r
    BY <1>1, <1>2, <2>2 DEF EndCompute, redis, attempt, environment, bounds
  <2> QED
    BY <2>1, <2>2
<1>3. ASSUME NEW r \in Requests, ReadAgain(r) PROVE Filled'
  <2>1. q # r
    BY MapCacheAssumption, <1>3 DEF ReadAgain, StoredSoFar, Before, NoTiles, attempt
  <2> QED
    BY <1>1, <1>3, <2>1 DEF ReadAgain, RedisFails, redis, attempt, environment, bounds
<1>4. ASSUME NEW r \in Requests, RunMetaTile(r) PROVE Filled'
  <2>1. q # r
    BY <1>4 DEF RunMetaTile, Retry
  <2> QED
    BY <1>1, <1>4, <2>1 DEF RunMetaTile, Retry, redis, environment, bounds
<1>5. ASSUME NEW r \in Requests, NEW t \in Tiles, StoreTile(r, t) PROVE Filled'
  <2>1. q # r
    BY <1>5 DEF StoreTile, RedisFails, Retry, StoredSoFar
  <2>2. /\ \A u \in Tiles : cache'[u] = cache[u] \/ cache'[u] = "tile"
        /\ UNCHANGED <<sub, expiries>>
    BY <1>5 DEF StoreTile, Put, environment, bounds
  <2>3. pc[q] = pc'[q] /\ answer[q] = answer'[q]
    BY <1>5, <2>1 DEF StoreTile, RedisFails, Retry
  <2> QED
    BY <1>1, <2>2, <2>3
<1>6. ASSUME NEW r \in Requests, StoreMetaTile(r) PROVE Filled'
  <2>1. q # r
    BY <1>6 DEF StoreMetaTile, RedisFails, StoredSoFar
  <2>2. pc[q] = "release" /\ answer[q] = "tile" /\ UNCHANGED <<sub, expiries>>
    BY <1>6, <2>1 DEF StoreMetaTile, RedisFails, attempt, environment, bounds
  <2>3. Calm => pc[r] # "meta"
    BY <2>1, <2>2 DEF LockIsKept, Holding
  <2>4. ~Calm /\ \A u \in Tiles : cache'[u] = cache[u] \/ cache'[u] = "meta"
    BY <1>6, <2>3 DEF StoreMetaTile, Put
  <2> QED
    BY <1>a, <2>2, <2>4 DEF SuccessFillsCache, Filled
<1>7. ASSUME NEW r \in Requests, GetGenerator(r) \/ BuildPipeline(r) \/ RunInit(r)
                                 \/ ReadFromCache(r) \/ Acquire(r)
      PROVE  Filled'
  BY <1>1, <1>7 DEF GetGenerator, BuildPipeline, RunInit, ReadFromCache, Acquire, RedisFails,
                    FailBuild, redis, attempt, environment, bounds
<1>8. ASSUME NEW r \in Requests, Release(r) PROVE Filled'
  BY <1>1, <1>8 DEF Release, EndAttempts, environment, bounds
<1>9. ASSUME NEW s \in Servers, Crash(s) PROVE Filled'
  <2>1. q \notin RequestsOf(s)
    BY <1>9 DEF Crash
  <2> QED
    BY <1>1, <1>9, <2>1 DEF Crash, EndAttempts, redis
<1>10. ASSUME NEW t \in Tiles, TileExpires(t) PROVE Filled'
  BY MapCacheAssumption, <1>10 DEF TileExpires
<1>11. ASSUME LockExpires \/ Replicate \/ SourceStopsOrReturns PROVE Filled'
  BY <1>1, <1>11 DEF LockExpires, Replicate, SourceStopsOrReturns, redis, attempt,
                     environment, bounds
<1>12. CASE UNCHANGED vars
  BY <1>1, <1>12 DEF vars, redis, attempt, environment, bounds
<1> QED
  BY <1>2, <1>3, <1>4, <1>5, <1>6, <1>7, <1>8, <1>9, <1>10, <1>11, <1>12 DEF Next, Serve

\* A success leaves the whole meta tile in Redis, whatever fails and whoever waits.
THEOREM SpecSuccessFillsCache == Spec => []SuccessFillsCache
<1>1. Init => StoredSoFar /\ SuccessFillsCache
  BY DEF Init, StoredSoFar, SuccessFillsCache, Before
<1>2. TypeOK /\ LockIsKept /\ StoredSoFar /\ [Next]_vars => StoredSoFar'
  BY NextStoredSoFar
<1>3. TypeOK /\ LockIsKept /\ StoredSoFar /\ SuccessFillsCache /\ [Next]_vars
        => SuccessFillsCache'
  BY NextSuccessFillsCache
<1> QED
  BY <1>1, <1>2, <1>3, SpecTypeOK, SpecLockIsKept, PTL DEF Spec

-----------------------------------------------------------------------------
\* A meta tile that is made was missing from Redis, where nothing is lacking unless a tile
\* expired since it was made last.
MadeWhenMissing ==
  (Calm /\ ~replicated) =>
    /\ generations <= expiries + 1
    /\ \A t \in Tiles : cache[t] = "nothing" => generations <= expiries
    /\ \A r \in Requests :
         /\ pc[r] \in Generating => generations <= expiries
         /\ pc[r] = "store" /\ generations = expiries =>
              \A t \in Tiles \ left[r] : sub[r][t] = "ok" => cache[t] # "nothing"

\* The steps keep it: who makes the meta tile owns the lock, and looked at Redis under it.
LEMMA NextMadeWhenMissing ==
  TypeOK /\ LockIsKept /\ StoredSoFar /\ MadeWhenMissing /\ [Next]_vars => MadeWhenMissing'
<1> SUFFICES ASSUME TypeOK, LockIsKept, StoredSoFar, MadeWhenMissing, [Next]_vars,
                    Calm, ~replicated
             PROVE  MadeWhenMissing'
  BY TroublesStay DEF Calm, MadeWhenMissing
<1>a. /\ generations \in Nat /\ expiries \in Nat
      /\ pc \in [Requests -> PC] /\ cache \in [Tiles -> Contents]
      /\ sub \in [Requests -> [Tiles -> Results]] /\ left \in [Requests -> SUBSET Tiles]
  BY MapCacheAssumption DEF TypeOK
<1> USE DEF MadeWhenMissing, Generating, Goto
<1>1. ASSUME NEW r \in Requests, \/ GetGenerator(r) \/ BuildPipeline(r) \/ RunInit(r)
                                 \/ ReadFromCache(r) \/ Acquire(r)
      PROVE  MadeWhenMissing'
  BY <1>a, <1>1 DEF GetGenerator, BuildPipeline, RunInit, ReadFromCache, Acquire, RedisFails,
                    FailBuild, redis, attempt, environment, bounds
<1>2. ASSUME NEW r \in Requests, ReadAgain(r) PROVE MadeWhenMissing'
  <2>1. UNCHANGED <<cache, sub, left, generations, expiries>>
    BY <1>2 DEF ReadAgain, redis, attempt, environment, bounds
  <2>2. pc' = [pc EXCEPT ![r] = "release"]
        \/ (pc' = [pc EXCEPT ![r] = "generate"] /\ cache[TileOf[r]] = "nothing")
    BY <1>2 DEF ReadAgain, RedisFails, FoundUnderLock, Readable
  <2>3. pc' = [pc EXCEPT ![r] = "generate"] => generations <= expiries
    BY <1>2, <1>a, <2>2, MapCacheAssumption
  <2> QED
    BY <1>a, <2>1, <2>2, <2>3
<1>3. ASSUME NEW r \in Requests, RunMetaTile(r) PROVE MadeWhenMissing'
  <2>1. /\ pc[r] = "generate" /\ pc'[r] \in {"generate", "meta", "release"}
        /\ \A q \in Requests \ {r} : sub'[q] = sub[q] /\ left'[q] = left[q] /\ pc'[q] = pc[q]
    BY <1>3, <1>a DEF RunMetaTile, Retry
  <2>2. UNCHANGED <<cache, generations, expiries>>
    BY <1>3 DEF RunMetaTile, redis, environment, bounds
  <2> QED
    BY <1>a, <2>1, <2>2
<1>4. ASSUME NEW r \in Requests, StoreMetaTile(r) PROVE MadeWhenMissing'
  <2>1. /\ pc[r] = "meta" /\ left[r] = Tiles /\ pc'[r] \in {"store", "release"}
        /\ \A q \in Requests \ {r} : pc'[q] = pc[q]
        /\ UNCHANGED <<sub, left, generations, expiries>>
    BY <1>4, <1>a DEF StoreMetaTile, RedisFails, StoredSoFar, attempt, environment, bounds
  <2>2. \A t \in Tiles : cache'[t] = cache[t] \/ cache'[t] = "meta"
    BY <1>4, <1>a DEF StoreMetaTile, Put
  <2> QED
    BY <1>a, <2>1, <2>2
<1>5. ASSUME NEW r \in Requests, NEW t \in Tiles, StoreTile(r, t) PROVE MadeWhenMissing'
  <2>1. /\ pc[r] = "store" /\ pc'[r] \in {"generate", "store", "release"}
        /\ \A q \in Requests \ {r} : pc'[q] = pc[q] /\ left'[q] = left[q]
        /\ UNCHANGED <<sub, generations, expiries>>
    BY <1>5, <1>a DEF StoreTile, RedisFails, Retry, environment, bounds
  <2>2. \A u \in Tiles : cache'[u] = cache[u] \/ cache'[u] = "tile"
    BY <1>5, <1>a DEF StoreTile, Put
  <2>3. pc'[r] = "store" =>
          left'[r] = left[r] \ {t} /\ (sub[r][t] = "ok" => cache'[t] = "tile")
    BY <1>5, <1>a DEF StoreTile, Put, RedisFails, Retry
  <2> QED
    BY <1>a, <2>1, <2>2, <2>3
<1>6. ASSUME NEW r \in Requests, EndCompute(r) PROVE MadeWhenMissing'
  <2>1. /\ pc[r] = "store" /\ pc' = [pc EXCEPT ![r] = "release"] /\ left[r] \cap Tiles = {}
        /\ UNCHANGED <<cache, sub, left, expiries>>
    BY <1>6 DEF EndCompute, Wanted, redis, attempt, environment, bounds
  <2>2. generations <= expiries
    BY <2>1
  <2>3. CASE UNCHANGED generations
    BY <1>a, <2>1, <2>3
  <2>4. CASE answer[r] # "error" /\ generations' = generations + 1
    <3>1. \A t \in Tiles : sub[r][t] = "ok"
      BY <1>a, <2>1, <2>4 DEF StoredSoFar
    <3>2. \A q \in Requests : pc'[q] \notin Generating
      BY <1>a, <2>1 DEF LockIsKept, Holding
    <3>3. \A t \in Tiles : cache[t] = "nothing" => generations < expiries
      BY <1>a, <2>1, <2>2, <3>1
    <3> QED
      BY <1>a, <2>1, <2>2, <2>4, <3>2, <3>3
  <2> QED
    BY <1>6, <2>3, <2>4 DEF EndCompute
<1>7. ASSUME NEW r \in Requests, Release(r) PROVE MadeWhenMissing'
  BY <1>a, <1>7 DEF Release, EndAttempts, environment, bounds
<1>8. ASSUME NEW s \in Servers, Crash(s) PROVE MadeWhenMissing'
  BY <1>a, <1>8 DEF Crash, EndAttempts, RequestsOf, redis
<1>9. ASSUME NEW t \in Tiles, TileExpires(t) PROVE MadeWhenMissing'
  <2>1. UNCHANGED <<pc, sub, left, generations>> /\ expiries' = expiries + 1
    BY <1>9 DEF TileExpires, attempt
  <2> QED
    BY <1>a, <2>1
<1>10. ASSUME LockExpires \/ Replicate \/ SourceStopsOrReturns PROVE MadeWhenMissing'
  BY <1>a, <1>10 DEF LockExpires, Replicate, SourceStopsOrReturns, redis, attempt, environment,
                     bounds
<1>11. CASE UNCHANGED vars
  BY <1>a, <1>11 DEF vars, redis, attempt, environment, bounds
<1> QED
  BY <1>1, <1>2, <1>3, <1>4, <1>5, <1>6, <1>7, <1>8, <1>9, <1>10, <1>11 DEF Next, Serve

\* However many requests of however many servers want its tiles, the meta tile is made once,
\* and once more for each tile that expires.
THEOREM SpecMadeOnce == Spec => []MadeOnce
<1>1. Init => StoredSoFar /\ MadeWhenMissing
  BY MapCacheAssumption DEF Init, StoredSoFar, MadeWhenMissing, Before, Generating
<1>2. TypeOK /\ LockIsKept /\ StoredSoFar /\ [Next]_vars => StoredSoFar'
  BY NextStoredSoFar
<1>3. TypeOK /\ LockIsKept /\ StoredSoFar /\ MadeWhenMissing /\ [Next]_vars => MadeWhenMissing'
  BY NextMadeWhenMissing
<1>4. MadeWhenMissing => MadeOnce
  BY DEF MadeWhenMissing, MadeOnce
<1> QED
  BY <1>1, <1>2, <1>3, <1>4, SpecTypeOK, SpecLockIsKept, PTL DEF Spec

-----------------------------------------------------------------------------
\* When no initialization fails, the builder is alone in its process, and leaves with
\* the generator published.
LEMMA NextBuildsAlone ==
  TypeOK /\ BuildsAlone /\ [Next]_vars => BuildsAlone'
<1> SUFFICES ASSUME TypeOK, BuildsAlone, [Next]_vars, "config" \notin troubles
             PROVE  BuildsAlone'
  BY TroublesStay DEF BuildsAlone
<1> USE MapCacheAssumption DEF BuildsAlone, Goto, TypeOK
<1>1. ASSUME NEW r \in Requests, GetGenerator(r) PROVE BuildsAlone'
  <2>1. UNCHANGED <<splitter, generator>> /\ pc[r] = "new" /\ building[ServerOf[r]] = None
    BY <1>1 DEF GetGenerator, InitLockFree
  <2>2. CASE pc' = [pc EXCEPT ![r] = "read"] /\ UNCHANGED building
    BY <2>1, <2>2
  <2>3. CASE /\ ~generator[ServerOf[r]] /\ pc' = [pc EXCEPT ![r] = "build"]
             /\ building' = [building EXCEPT ![ServerOf[r]] = r]
    BY <2>1, <2>3
  <2> QED
    BY <1>1, <2>2, <2>3 DEF GetGenerator
<1>2. ASSUME NEW r \in Requests, BuildPipeline(r) PROVE BuildsAlone'
  <2>1. /\ pc[r] = "build" /\ UNCHANGED <<generator, building>>
        /\ pc' = [pc EXCEPT ![r] = "run_init"]
        /\ splitter' = [splitter EXCEPT ![ServerOf[r]] = TRUE]
    BY <1>2 DEF BuildPipeline
  <2>2. ServerOf[r] \in Servers /\ building[ServerOf[r]] = r /\ r # None
    BY <2>1
  <2>3. \A s \in Servers \ {ServerOf[r]} : building[s] # r
    BY <2>2
  <2> QED
    BY <2>1, <2>2, <2>3
<1>3. ASSUME NEW r \in Requests, RunInit(r) PROVE BuildsAlone'
  BY <1>3 DEF RunInit
<1>4. ASSUME NEW r \in Requests, ReadFromCache(r) \/ Acquire(r) \/ ReadAgain(r)
                                 \/ EndCompute(r) \/ Release(r)
      PROVE  BuildsAlone'
  BY <1>4 DEF ReadFromCache, Acquire, ReadAgain, EndCompute, Release, RedisFails, init
<1>5. ASSUME NEW r \in Requests, RunMetaTile(r) \/ StoreMetaTile(r)
                                 \/ \E t \in Tiles : StoreTile(r, t)
      PROVE  BuildsAlone'
  BY <1>5 DEF RunMetaTile, StoreMetaTile, StoreTile, RedisFails, Retry, init
<1>6. ASSUME NEW s \in Servers, Crash(s) PROVE BuildsAlone'
  BY <1>6 DEF Crash, RequestsOf
<1>7. ASSUME LockExpires \/ Replicate \/ SourceStopsOrReturns \/ \E t \in Tiles : TileExpires(t)
      PROVE  BuildsAlone'
  BY <1>7 DEF LockExpires, Replicate, SourceStopsOrReturns, TileExpires, init
<1>8. CASE UNCHANGED vars
  BY <1>8 DEF vars, init
<1> QED
  BY <1>1, <1>2, <1>3, <1>4, <1>5, <1>6, <1>7, <1>8 DEF Next, Serve

\* However many requests arrive first, add_metatile_splitter is called once.
THEOREM SpecSplitterNotTwice == Spec => []SplitterNotTwice
<1>1. Init => BuildsAlone
  BY MapCacheAssumption DEF Init, BuildsAlone
<1>2. TypeOK /\ BuildsAlone /\ [Next]_vars => BuildsAlone'
  BY NextBuildsAlone
<1>3. BuildsAlone => SplitterNotTwice
  BY DEF BuildsAlone, SplitterNotTwice
<1> QED
  BY <1>1, <1>2, <1>3, SpecTypeOK, PTL DEF Spec

==============================================================================
