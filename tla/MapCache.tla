------------------------------ MODULE MapCache ------------------------------
(***************************************************************************)
(* internal_mapcache: a tile that is not in the published cache is read    *)
(* from Redis, or generated by one request while the others wait for the   *)
(* Redis lock of its meta tile.  The requests of several server processes  *)
(* share Redis; those of one process share its generator, which the first  *)
(* of them builds.  The module follows one meta tile of a layer that has   *)
(* meta tiles.  Its image has the key of its first tile in Redis, where it *)
(* is stored before the tiles.                                             *)
(***************************************************************************)
EXTENDS Naturals, FiniteSets

CONSTANTS
  Servers,     \* server processes
  Requests,    \* requests for a tile of the meta tile
  ServerOf,    \* [Requests -> Servers]
  Tiles,       \* the tiles of the meta tile
  FirstTile,   \* the one at the corner of the meta tile
  TileOf,      \* [Requests -> Tiles]
  Retries,     \* compute_tile(try_=5)
  TroubleSets, \* what may go wrong together: subsets of AllTroubles
  MaxExpiries, \* bound: expirations of a cached tile
  MaxCrashes,  \* bound: crashes of servers
  MaxOutages,  \* bound: times the source of the meta tiles stops or comes back
  None

\* A generation that outlives the lock, a tile that fails, or has no data, Redis, and
\* the configuration that an initialization reads.
AllTroubles == {"slow", "tile", "no_data", "redis", "config"}

ASSUME MapCacheAssumption ==
  /\ ServerOf \in [Requests -> Servers] /\ TileOf \in [Requests -> Tiles]
  /\ FirstTile \in Tiles
  /\ Retries \in Nat
  /\ MaxExpiries \in Nat /\ MaxCrashes \in Nat /\ MaxOutages \in Nat
  /\ TroubleSets \subseteq SUBSET AllTroubles
  /\ None \notin Requests

VARIABLES
  replicated, \* Sentinel: reads are served by a replica
  troubles,
  cache,      \* [Tiles -> what Redis has under the key of the tile, on the master]
  replica,    \* the same on the replica
  lock,       \* the request that owns the Redis lock of the meta tile
  generator,  \* [Servers -> BOOLEAN]: _GENERATOR is set
  building,   \* [Servers -> the request inside the asyncio lock of _get_generator]
  added,      \* [Servers -> Nat]: times the getter was added to functions_metatiles
  splitter,   \* [Servers -> BOOLEAN]: gene.functions is functions_tiles
  pc,
  tries,      \* attempts compute_tile has left
  metaError,  \* meta_tile.error is set
  sub,        \* what the last run made of the tiles: tile.metadata["tiles"]
  left,       \* tiles compute_tile has still to look at
  answer,     \* the response of the request
  generations, \* history: times compute_tile made the meta tile without an error
  sourceUp,   \* the WMS server, or Mapnik, makes meta tiles
  expiries, crashes, outages

redis == <<cache, replica, lock>>
init == <<generator, building, added, splitter>>
attempt == <<tries, metaError, sub, left>>
bounds == <<expiries, crashes, outages>>
environment == <<replicated, troubles, sourceUp, bounds>>
vars == <<redis, init, pc, attempt, answer, generations, environment>>

\* The tile or the image of its meta tile, an error of the server, or an exception.
Answers == {"none", "tile", "meta", "error", "exception"}
Contents == {"nothing", "tile", "meta"}
Results == {"none", "ok", "error", "no_data"}
PC == {"new", "build", "run_init", "read", "wait", "reread", "generate", "meta",
       "store", "release", "done", "dead"}
\* The labels inside `async with generator.lock(meta_tile)'.
Holding == {"reread", "generate", "meta", "store", "release"}
Generating == {"generate", "meta", "store"}

TypeOK ==
  /\ replicated \in BOOLEAN /\ troubles \in TroubleSets
  /\ cache \in [Tiles -> Contents] /\ replica \in [Tiles -> Contents]
  /\ lock \in Requests \cup {None}
  /\ generator \in [Servers -> BOOLEAN]
  /\ building \in [Servers -> Requests \cup {None}]
  /\ added \in [Servers -> Nat]
  /\ splitter \in [Servers -> BOOLEAN]
  /\ pc \in [Requests -> PC]
  /\ tries \in [Requests -> 0 .. Retries]
  /\ metaError \in [Requests -> BOOLEAN]
  /\ sub \in [Requests -> [Tiles -> Results]]
  /\ left \in [Requests -> SUBSET Tiles]
  /\ answer \in [Requests -> Answers] /\ generations \in Nat
  /\ sourceUp \in BOOLEAN
  /\ expiries \in 0 .. MaxExpiries /\ crashes \in 0 .. MaxCrashes
  /\ outages \in 0 .. MaxOutages

NoTiles == [t \in Tiles |-> "none"]
Empty == [t \in Tiles |-> "nothing"]

Init ==
  /\ replicated \in BOOLEAN /\ troubles \in TroubleSets
  /\ cache = Empty /\ replica = Empty /\ lock = None
  /\ generator = [s \in Servers |-> FALSE]
  /\ building = [s \in Servers |-> None]
  /\ added = [s \in Servers |-> 0]
  /\ splitter = [s \in Servers |-> FALSE]
  /\ pc = [r \in Requests |-> "new"]
  /\ tries = [r \in Requests |-> Retries]
  /\ metaError = [r \in Requests |-> FALSE]
  /\ sub = [r \in Requests |-> NoTiles]
  /\ left = [r \in Requests |-> {}]
  /\ answer = [r \in Requests |-> "none"] /\ generations = 0
  /\ sourceUp = TRUE
  /\ expiries = 0 /\ crashes = 0 /\ outages = 0

Goto(r, l) == pc' = [pc EXCEPT ![r] = l]
Answer(r, a) == answer' = [answer EXCEPT ![r] = a]

-----------------------------------------------------------------------------
(* _get_generator: the pipeline is built under the asyncio lock of the     *)
(* process.  What an attempt that fails has added to it stays there.       *)

\* Mutant: without that lock.
NoInitLock(s) == TRUE
InitLockFree(s) == building[s] = None

GetGenerator(r) ==
  LET s == ServerOf[r] IN
  /\ pc[r] = "new" /\ InitLockFree(s)
  /\ IF generator[s] THEN Goto(r, "read") /\ UNCHANGED building
                     ELSE Goto(r, "build") /\ building' = [building EXCEPT ![s] = r]
  /\ UNCHANGED <<redis, generator, added, splitter, attempt, answer, generations, environment>>

FailBuild(r) ==
  /\ Goto(r, "done") /\ Answer(r, "exception")
  /\ building' = [building EXCEPT ![ServerOf[r]] = None]

\* Generate.init, then _generate_tiles up to add_metatile_splitter, which asserts
\* that it is not called twice.  The configuration is read again on the way.
BuildPipeline(r) ==
  LET s == ServerOf[r] IN
  /\ pc[r] = "build"
  /\ \/ "config" \in troubles /\ FailBuild(r) /\ UNCHANGED <<added, splitter>>
     \/ /\ splitter[s] /\ FailBuild(r) /\ UNCHANGED <<added, splitter>>
     \/ /\ ~splitter[s]
        /\ added' = [added EXCEPT ![s] = @ + 1]
        /\ \/ "config" \in troubles /\ FailBuild(r) /\ UNCHANGED splitter
           \/ /\ splitter' = [splitter EXCEPT ![s] = TRUE]
              /\ Goto(r, "run_init") /\ UNCHANGED <<building, answer>>
  /\ UNCHANGED <<redis, generator, attempt, generations, environment>>

\* Run.init of the meta tiles, the last await before the generator is published.
RunInit(r) ==
  LET s == ServerOf[r] IN
  /\ pc[r] = "run_init"
  /\ \/ "config" \in troubles /\ FailBuild(r) /\ UNCHANGED generator
     \/ /\ generator' = [generator EXCEPT ![s] = TRUE]
        /\ building' = [building EXCEPT ![s] = None]
        /\ Goto(r, "read") /\ UNCHANGED answer
  /\ UNCHANGED <<redis, added, splitter, attempt, generations, environment>>

-----------------------------------------------------------------------------
(* fetch.                                                                  *)

\* What get_one sees: reads go to the replica, if there is one.
Readable(t) == IF replicated THEN replica[t] ELSE cache[t]

\* A call of Redis raises an exception; under the lock it is left by it.
RedisFails(r, l) == "redis" \in troubles /\ Goto(r, l) /\ Answer(r, "exception")

ReadFromCache(r) ==
  /\ pc[r] = "read"
  /\ \/ RedisFails(r, "done")
     \/ Readable(TileOf[r]) # "nothing" /\ Goto(r, "done") /\ Answer(r, Readable(TileOf[r]))
     \/ Readable(TileOf[r]) = "nothing" /\ Goto(r, "wait") /\ UNCHANGED answer
  /\ UNCHANGED <<redis, init, attempt, generations, environment>>

\* The blocking acquisition of the Redis lock.
Acquire(r) ==
  /\ pc[r] = "wait"
  /\ \/ RedisFails(r, "done") /\ UNCHANGED lock
     \/ lock = None /\ lock' = r /\ Goto(r, "reread") /\ UNCHANGED answer
  /\ UNCHANGED <<cache, replica, init, attempt, generations, environment>>

\* Under the lock the cache is read again.  Mutant: it is not.
NeverFound(r) == FALSE
FoundUnderLock(r) == Readable(TileOf[r]) # "nothing"

ReadAgain(r) ==
  /\ pc[r] = "reread"
  /\ \/ RedisFails(r, "release")
     \/ FoundUnderLock(r) /\ Goto(r, "release") /\ Answer(r, Readable(TileOf[r]))
     \/ ~FoundUnderLock(r) /\ Goto(r, "generate") /\ UNCHANGED answer
  /\ UNCHANGED <<redis, init, attempt, generations, environment>>

\* compute_tile starts again, with one attempt less.
Retry(r) ==
  /\ tries[r] > 0
  /\ tries' = [tries EXCEPT ![r] = @ - 1]
  /\ Goto(r, "generate") /\ left' = [left EXCEPT ![r] = {}]

\* The Run stops after its first function when the tile already has an error, and
\* nothing clears the error of an earlier attempt.
ErrorBefore(r) == metaError[r]

\* run(tile): the meta tile fails, or its tiles are split and processed.
RunMetaTile(r) ==
  /\ pc[r] = "generate"
  /\ \/ /\ ErrorBefore(r) \/ ~sourceUp
        /\ metaError' = [metaError EXCEPT ![r] = TRUE]
        /\ \/ Retry(r) /\ UNCHANGED answer
           \/ /\ tries[r] = 0
              /\ Goto(r, "release") /\ Answer(r, "error") /\ UNCHANGED <<tries, left>>
        /\ UNCHANGED sub
     \/ /\ ~ErrorBefore(r) /\ sourceUp
        /\ \E result \in [Tiles -> {"ok"}
                                   \cup (IF "tile" \in troubles THEN {"error"} ELSE {})
                                   \cup (IF "no_data" \in troubles THEN {"no_data"}
                                                                   ELSE {})] :
             sub' = [sub EXCEPT ![r] = result]
        /\ left' = [left EXCEPT ![r] = Tiles]
        /\ metaError' = [metaError EXCEPT ![r] = FALSE]
        /\ Goto(r, "meta") /\ UNCHANGED <<tries, answer>>
  /\ UNCHANGED <<redis, init, generations, environment>>

Put(t, c) == cache' = [cache EXCEPT ![t] = c]

\* The loop over metadata["tiles"]: the meta tile itself is the first in it, for Run puts
\* there what it is called with, and is stored whole.
StoreMetaTile(r) ==
  /\ pc[r] = "meta"
  /\ \/ RedisFails(r, "release") /\ UNCHANGED cache
     \/ Put(FirstTile, "meta") /\ Goto(r, "store") /\ UNCHANGED answer
  /\ UNCHANGED <<replica, lock, init, attempt, generations, environment>>

\* Then its tiles: a good one is stored, another makes compute_tile start again, or fail
\* once no attempt is left.  An exception leaves the loop.
StoreTile(r, t) ==
  /\ pc[r] = "store" /\ t \in left[r]
  /\ \/ /\ sub[r][t] = "ok" /\ Put(t, "tile")
        /\ left' = [left EXCEPT ![r] = @ \ {t}]
        /\ UNCHANGED <<pc, tries, answer>>
     \/ /\ sub[r][t] = "ok" /\ RedisFails(r, "release")
        /\ UNCHANGED <<cache, tries, left>>
     \/ /\ sub[r][t] # "ok"
        /\ \/ Retry(r) /\ UNCHANGED answer
           \/ /\ tries[r] = 0 /\ Answer(r, "error")
              /\ left' = [left EXCEPT ![r] = @ \ {t}] /\ UNCHANGED <<pc, tries>>
        /\ UNCHANGED cache
  /\ UNCHANGED <<replica, lock, init, metaError, sub, generations, environment>>

\* Tiles compute_tile must have looked at before it returns.  Mutant: its own only.
OwnTile(r) == {TileOf[r]}
Wanted(r) == Tiles

\* fetch takes the tile of the request from those of the meta tile.
EndCompute(r) ==
  /\ pc[r] = "store" /\ left[r] \cap Wanted(r) = {}
  /\ Goto(r, "release")
  /\ IF answer[r] = "error" \/ metaError[r]
     THEN Answer(r, "error") /\ UNCHANGED generations
     ELSE Answer(r, "tile") /\ generations' = generations + 1
  /\ UNCHANGED <<redis, init, attempt, environment>>

\* The meta tile of a request goes with it.
EndAttempts(S) ==
  /\ tries' = [r \in Requests |-> IF r \in S THEN Retries ELSE tries[r]]
  /\ metaError' = [r \in Requests |-> r \notin S /\ metaError[r]]
  /\ sub' = [r \in Requests |-> IF r \in S THEN NoTiles ELSE sub[r]]
  /\ left' = [r \in Requests |-> IF r \in S THEN {} ELSE left[r]]

\* Leaving the lock fails when the lock is no longer owned, whatever the answer is; a
\* lock that Redis fails to release stays.
Release(r) ==
  /\ pc[r] = "release"
  /\ \/ lock = r /\ lock' = None /\ UNCHANGED answer
     \/ /\ lock # r \/ "redis" \in troubles
        /\ Answer(r, "exception") /\ UNCHANGED lock
  /\ Goto(r, "done")
  /\ EndAttempts({r})
  /\ UNCHANGED <<cache, replica, init, generations, environment>>

-----------------------------------------------------------------------------
(* Redis and the environment.                                              *)

\* max_generation_time is over.  It is meant to be longer than any generation.
\* Mutants: the lock has no timeout; it is shorter than a generation.
NoTimeout(r) == FALSE
ShortTimeout(r) == TRUE
HeldTooLong(r) == "slow" \in troubles \/ pc[r] \in {"done", "dead"}

LockExpires ==
  /\ lock # None /\ HeldTooLong(lock)
  /\ lock' = None
  /\ UNCHANGED <<cache, replica, init, pc, attempt, answer, generations, environment>>

TileExpires(t) ==
  /\ cache[t] # "nothing" /\ expiries < MaxExpiries
  /\ Put(t, "nothing") /\ expiries' = expiries + 1
  /\ UNCHANGED <<replica, lock, init, pc, attempt, answer, generations, replicated, troubles,
                 sourceUp, crashes, outages>>

Replicate ==
  /\ replicated /\ replica # cache
  /\ replica' = cache
  /\ UNCHANGED <<cache, lock, init, pc, attempt, answer, generations, environment>>

SourceStopsOrReturns ==
  /\ outages < MaxOutages
  /\ outages' = outages + 1 /\ sourceUp' = ~sourceUp
  /\ UNCHANGED <<redis, init, pc, attempt, answer, generations, replicated, troubles, expiries,
                 crashes>>

RequestsOf(s) == {r \in Requests : ServerOf[r] = s}

\* A server dies with its requests and is started again.
Crash(s) ==
  /\ crashes < MaxCrashes
  /\ crashes' = crashes + 1
  /\ pc' = [r \in Requests |-> IF r \in RequestsOf(s) /\ pc[r] \notin {"new", "done"}
                               THEN "dead" ELSE pc[r]]
  /\ generator' = [generator EXCEPT ![s] = FALSE]
  /\ building' = [building EXCEPT ![s] = None]
  /\ added' = [added EXCEPT ![s] = 0]
  /\ splitter' = [splitter EXCEPT ![s] = FALSE]
  /\ EndAttempts(RequestsOf(s))
  /\ UNCHANGED <<redis, answer, generations, replicated, troubles, sourceUp, expiries, outages>>

-----------------------------------------------------------------------------
Serve(r) ==
  \/ GetGenerator(r) \/ BuildPipeline(r) \/ RunInit(r)
  \/ ReadFromCache(r) \/ Acquire(r) \/ ReadAgain(r) \/ RunMetaTile(r)
  \/ StoreMetaTile(r) \/ \E t \in Tiles : StoreTile(r, t)
  \/ EndCompute(r) \/ Release(r)

Next ==
  \/ \E r \in Requests : Serve(r)
  \/ LockExpires \/ Replicate \/ SourceStopsOrReturns
  \/ \E t \in Tiles : TileExpires(t)
  \/ \E s \in Servers : Crash(s)

Spec == Init /\ [][Next]_vars

\* A request is served as long as its server lives, and the lock of a dead one expires.
\* Nothing is fair between the requests that wait for a lock.
Fairness == WF_vars(LockExpires) /\ \A r \in Requests : WF_vars(Serve(r))

FairSpec == Spec /\ Fairness

-----------------------------------------------------------------------------
(* What the map cache must guarantee.                                      *)

\* No generation outlives max_generation_time.
Calm == "slow" \notin troubles

\* The meta tile is never generated by two requests at once: that is what the Redis
\* lock is for, as long as no generation outlives max_generation_time.
OneGeneration ==
  Calm =>
    \A r, q \in Requests : pc[r] \in Generating /\ pc[q] \in Generating => r = q

\* A request answers by an exception only if Redis failed: none loses the lock it is
\* about to release, as long as no generation outlives max_generation_time.
LockIsKept ==
  Calm => \A r \in Requests : pc[r] \in Holding => lock = r

\* The meta tile is made once, and once more for each tile that expires: a request that
\* waited for the lock, of whichever server, makes nothing that the one before it made, as
\* long as none outlives max_generation_time and reads see what was written.
MadeOnce == (Calm /\ ~replicated) => generations <= expiries + 1

\* A request that made the meta tile releases the lock with every tile of it in Redis, also
\* those it was not asked for, unless they already expired.  None is the image of the meta
\* tile, as long as no other request makes it at the same time.
SuccessFillsCache ==
  \A r \in Requests :
    /\ pc[r] = "release" /\ answer[r] = "tile" /\ sub[r][TileOf[r]] = "ok"
    /\ expiries = 0
    => \A t \in Tiles : cache[t] # "nothing" /\ (Calm => cache[t] = "tile")

\* Every request is answered, in spite of errors, retries and of the death of the
\* server that owned the lock.
RequestEnds(r) == <>(pc[r] \in {"done", "dead"})

\* add_metatile_splitter, which asserts that it is not called twice on the functions of
\* a process, is not, however many requests come first, when no initialization fails
\* half-way.
SplitterNotTwice ==
  "config" \notin troubles =>
    \A r \in Requests : pc[r] = "build" => ~splitter[ServerOf[r]]
=============================================================================
