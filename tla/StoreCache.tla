----------------------------- MODULE StoreCache -----------------------------
(***************************************************************************)
(* The tile stores that a process keeps per configuration file, layer and  *)
(* grid: MultiTileStore (generation) and Server.get_store (tile server).   *)
(* Both replace a store when the configuration has another modification    *)
(* time, and close the old one; neither holds a lock while it waits for a  *)
(* close or for the new store.                                             *)
(*                                                                         *)
(* One key, several asynchronous tasks; a step is what a task does between *)
(* two awaits.  What the two flavours do in another order is spelled out.  *)
(***************************************************************************)
EXTENDS Naturals, Sequences

CONSTANTS
  Tasks,
  Flavours,   \* a subset of {"multi", "server"}
  Troubles,   \* a subset of {"edit_in_use", "no_layer"}
  MaxVersion, \* bound: contents of the configuration file
  MaxStores,  \* bound: stores built
  None

Stores == 1 .. MaxStores
Versions == 1 .. MaxVersion
Entry == [mtime : Versions, store : Stores]

\* edit_in_use: the configuration is edited while a task works with a store.
\* no_layer: a content without the layer, for which there is no store.
StoreAssumption ==
  /\ Flavours \subseteq {"multi", "server"} /\ Flavours # {}
  /\ Troubles \subseteq {"edit_in_use", "no_layer"}
  /\ MaxVersion \in Nat \ {0} /\ MaxStores \in Nat \ {0}
  /\ None \notin Entry /\ None \notin Stores

VARIABLES
  flavour,
  version,  \* content and modification time of the configuration file
  layers,   \* contents that have the layer
  entry,    \* the store in the cache and its date, or None
  made,     \* sequence of the stores built: the content each was made from
  open,     \* stores that are not closed
  alive,
  pc, floor,
  want,     \* the modification time the task knows
  old,      \* the entry it found
  new       \* the store it built, or returns

shared == <<entry, made, open>>
file == <<version, layers>>
vars == <<flavour, file, shared, alive, pc, floor, want, old, new>>

PC == {"idle", "lookup", "close", "build", "keep", "use"}

TypeOK ==
  /\ flavour \in Flavours
  /\ version \in Versions /\ layers \subseteq Versions
  /\ entry \in Entry \cup {None}
  /\ made \in Seq(Versions) /\ Len(made) <= MaxStores
  /\ open \subseteq DOMAIN made
  /\ alive \in BOOLEAN
  /\ pc \in [Tasks -> PC]
  /\ floor \in [Tasks -> 0 .. MaxVersion] /\ want \in [Tasks -> 0 .. MaxVersion]
  /\ old \in [Tasks -> Entry \cup {None}] /\ new \in [Tasks -> Stores \cup {None}]

Init ==
  /\ flavour \in Flavours
  /\ version = 1 /\ layers = {1}
  /\ entry = None /\ made = <<>> /\ open = {} /\ alive = TRUE
  /\ pc = [t \in Tasks |-> "idle"]
  /\ floor = [t \in Tasks |-> 0] /\ want = [t \in Tasks |-> 0]
  /\ old = [t \in Tasks |-> None] /\ new = [t \in Tasks |-> None]

At(t, l) == alive /\ pc[t] = l
Goto(t, l) == pc' = [pc EXCEPT ![t] = l]
UseStore(t, s) == Goto(t, "use") /\ new' = [new EXCEPT ![t] = s]
Keep(d, s) == entry' = [mtime |-> d, store |-> s]
\* No store: an assertion that fails, a KeyError or the answer 400.
Finish(t) ==
  /\ Goto(t, "idle")
  /\ floor' = [floor EXCEPT ![t] = 0] /\ want' = [want EXCEPT ![t] = 0]
  /\ old' = [old EXCEPT ![t] = None] /\ new' = [new EXCEPT ![t] = None]

IsFresh(t) == entry # None /\ entry.mtime = want[t]
ToClose(t) == {old[t].store}

\* A plausible error: a closed store is still returned.
StillDated(t) == old[t]

AfterClose(t) == None
EntryDate(t) == want[t]

-----------------------------------------------------------------------------
(* MultiTileStore._get_store stats the file; a request of the server has   *)
(* the configuration it began with, and looks for the store later.         *)

Begin(t) ==
  /\ At(t, "idle")
  /\ floor' = [floor EXCEPT ![t] = version] /\ want' = [want EXCEPT ![t] = version]
  /\ Goto(t, "lookup")
  /\ UNCHANGED <<flavour, file, shared, alive, old, new>>

Lookup(t) ==
  /\ At(t, "lookup")
  /\ old' = [old EXCEPT ![t] = entry]
  /\ IF IsFresh(t) THEN UseStore(t, entry.store)
     ELSE /\ Goto(t, IF flavour = "multi" /\ entry # None THEN "close" ELSE "build")
          /\ UNCHANGED new
  /\ UNCHANGED <<flavour, file, shared, alive, floor, want>>

-----------------------------------------------------------------------------
(* MultiTileStore: close the old store, then get_store, which loads the    *)
(* configuration again.  Without a store the old entry stays in the cache. *)

CloseThenBuild(t) ==
  /\ At(t, "close") /\ flavour = "multi"
  /\ open' = open \ ToClose(t)
  /\ old' = [old EXCEPT ![t] = AfterClose(t)]
  /\ IF AfterClose(t) = None THEN Goto(t, "build") /\ UNCHANGED new
                             ELSE UseStore(t, AfterClose(t).store)
  /\ UNCHANGED <<flavour, file, entry, made, alive, floor, want>>

NewStore == Len(made) + 1
Store(v) ==
  /\ Len(made) < MaxStores
  /\ made' = Append(made, v) /\ open' = open \cup {NewStore}

\* The store of a content is built: what the task does next.
BuildFor(t, v, l) ==
  /\ v \in layers
  /\ Store(v) /\ new' = [new EXCEPT ![t] = NewStore] /\ Goto(t, l)
  /\ UNCHANGED <<entry, floor, want, old>>

BuildStore(t) ==
  /\ At(t, "build") /\ flavour = "multi"
  /\ \/ BuildFor(t, version, "keep")
     \/ version \notin layers /\ Finish(t) /\ UNCHANGED shared
  /\ UNCHANGED <<flavour, file, alive>>

\* The store is returned by whoever built it, and kept under the date known then.
KeepStore(t) ==
  /\ At(t, "keep")
  /\ Keep(EntryDate(t), new[t]) /\ UseStore(t, new[t])
  /\ UNCHANGED <<flavour, file, made, open, alive, floor, want, old>>

-----------------------------------------------------------------------------
(* Server.get_store: build from the configuration of the request, then     *)
(* close the old store, then change the cache.                             *)

BuildThenClose(t) ==
  /\ At(t, "build") /\ flavour = "server"
  /\ \/ BuildFor(t, want[t], IF old[t] = None THEN "keep" ELSE "close")
     \/ /\ want[t] \notin layers /\ old[t] = None
        /\ Finish(t) /\ UNCHANGED shared
     \/ /\ want[t] \notin layers /\ old[t] # None
        /\ Goto(t, "close") /\ UNCHANGED <<shared, floor, want, old, new>>
  /\ UNCHANGED <<flavour, file, alive>>

\* `del self.store_cache[cache_key]' is a KeyError if another request was faster.
CloseAndKeep(t) ==
  /\ At(t, "close") /\ flavour = "server"
  /\ open' = open \ ToClose(t)
  /\ \/ /\ new[t] # None
        /\ Keep(EntryDate(t), new[t]) /\ UseStore(t, new[t]) /\ UNCHANGED <<floor, want, old>>
     \/ new[t] = None /\ entry' = None /\ Finish(t)
  /\ UNCHANGED <<flavour, file, made, alive>>

-----------------------------------------------------------------------------
\* get_one, put_one or delete_one of the store, over when the task is idle again.
EndUse(t) ==
  /\ At(t, "use") /\ Finish(t)
  /\ UNCHANGED <<flavour, file, shared, alive>>

\* close() of both, when the process ends and nothing is under way.
CloseAll ==
  /\ alive /\ \A t \in Tasks : pc[t] = "idle"
  /\ alive' = FALSE
  /\ open' = open \ (IF entry = None THEN {} ELSE {entry.store}) /\ entry' = None
  /\ UNCHANGED <<flavour, file, made, pc, floor, want, old, new>>

Edit ==
  /\ alive /\ version < MaxVersion
  /\ "edit_in_use" \in Troubles \/ \A t \in Tasks : pc[t] = "idle"
  /\ version' = version + 1
  /\ \/ layers' = layers \cup {version + 1}
     \/ "no_layer" \in Troubles /\ UNCHANGED layers
  /\ UNCHANGED <<flavour, shared, alive, pc, floor, want, old, new>>

Step(t) ==
  \/ Begin(t) \/ Lookup(t) \/ CloseThenBuild(t) \/ BuildStore(t)
  \/ BuildThenClose(t) \/ CloseAndKeep(t) \/ KeepStore(t) \/ EndUse(t)

Next == (\E t \in Tasks : Step(t)) \/ CloseAll \/ Edit

Spec == Init /\ [][Next]_vars

-----------------------------------------------------------------------------
(* What the caches must guarantee.                                         *)

\* A task works with a store that is not older than the configuration it began with.
StoreIsCurrent ==
  \A t \in Tasks : pc[t] = "use" => made[new[t]] >= floor[t]

\* A store that a task works with is open (holds if the configuration is not edited while
\* a store is in use).
UsedIsOpen == \A t \in Tasks : pc[t] = "use" => new[t] \in open

\* Nothing is served under a date it was not made for: what the cache returns for the
\* current modification time has the current content.
CacheIsCurrent ==
  entry # None /\ entry.mtime = version => made[entry.store] = version

\* When the cache has the store of the current configuration and nothing is under way,
\* no store of an earlier configuration is open (holds for one task).
StaleIsClosed ==
  /\ alive /\ \A t \in Tasks : pc[t] = "idle"
  /\ entry # None /\ entry.mtime = version
  => \A s \in open : made[s] = version
=============================================================================
