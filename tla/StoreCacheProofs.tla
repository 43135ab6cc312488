--------------------------- MODULE StoreCacheProofs ---------------------------
(***************************************************************************)
(* Proofs about StoreCache, for any number of tasks, contents and stores.  *)
(*                                                                         *)
(* Whatever is edited meanwhile, a store is not older than its date.  That *)
(* nobody's store is closed takes that nothing is edited while one is in   *)
(* use; that no old store stays open takes a task that is alone.           *)
(***************************************************************************)
EXTENDS StoreCache, SequenceTheorems, TLAPS

\* A store that was built.
Built(s) == s \in 1 .. Len(made)

\* No store is of a content to come, nor older than the date it is kept with.
EntryIsDated == entry # None => Built(entry.store) /\ entry.mtime <= made[entry.store]
KeptIsDated ==
  /\ \A s \in 1 .. Len(made) : made[s] <= version
  /\ EntryIsDated

\* What a task holds is of the content it began with, or of a later one.
TaskIsDated(t) ==
  /\ want[t] = floor[t] /\ floor[t] <= version
  /\ pc[t] # "idle" => want[t] \in Versions
  /\ pc[t] \in {"idle", "lookup"} => new[t] = None /\ old[t] = None
  /\ new[t] # None => Built(new[t]) /\ made[new[t]] >= want[t]
  /\ pc[t] \in {"keep", "use"} => new[t] # None
  /\ pc[t] = "close" => old[t] # None
  /\ old[t] # None => Built(old[t].store)

DatedInv == TypeOK /\ KeptIsDated /\ \A t \in Tasks : TaskIsDated(t)

-----------------------------------------------------------------------------
\* When nothing is edited while a task works: everything is exactly of its date, and what
\* has the current content is open.
Undisturbed == "edit_in_use" \notin Troubles

TaskIsOpen(t) ==
  /\ pc[t] # "idle" => want[t] = version
  /\ new[t] # None => made[new[t]] = version /\ new[t] \in open
  /\ pc[t] \in {"close", "build"} /\ old[t] # None => made[old[t].store] # version

OpenInv ==
  /\ DatedInv
  /\ entry # None => entry.mtime = made[entry.store]
  /\ entry # None /\ entry.mtime = version => entry.store \in open
  /\ \A t \in Tasks : TaskIsOpen(t)

-----------------------------------------------------------------------------
\* A task alone: only the store of the cache is open, and the one it has just built.
Alone == \A t, u \in Tasks : t = u

OfTheCache == IF entry = None THEN {} ELSE {entry.store}

TaskIsAlone(t) ==
  /\ pc[t] = "close" => old[t] = entry
  /\ pc[t] = "build" /\ flavour = "multi" => open = {}
  /\ pc[t] = "build" /\ flavour = "server" => old[t] = entry /\ new[t] = None
  /\ pc[t] = "close" /\ flavour = "multi" => new[t] = None
  /\ pc[t] = "keep" => open \subseteq {new[t]}

AloneInv ==
  /\ DatedInv
  /\ \A t \in Tasks : TaskIsAlone(t)
  /\ (\A t \in Tasks : pc[t] \notin {"close", "keep"}) => open \subseteq OfTheCache
  /\ \A t \in Tasks : pc[t] = "close" => open \subseteq OfTheCache \cup {new[t]}

-----------------------------------------------------------------------------
\* A store that is built is the last one, of the content it was built from.
LEMMA StoreFacts ==
  ASSUME StoreAssumption, TypeOK, NEW v \in Versions, Store(v)
  PROVE  /\ NewStore \in Stores /\ NewStore = Len(made) + 1 /\ Len(made) \in Nat
         /\ made' \in Seq(Versions) /\ Len(made') = NewStore /\ made'[NewStore] = v
         /\ \A s \in 1 .. Len(made) : made'[s] = made[s]
         /\ open' = open \cup {NewStore} /\ NewStore \notin open
         /\ open' \subseteq DOMAIN made' /\ DOMAIN made' = 1 .. Len(made')
<1>1. made \in Seq(Versions) /\ Len(made) \in Nat /\ DOMAIN made = 1 .. Len(made)
  BY DEF TypeOK
<1>2. made' = Append(made, v) /\ open' = open \cup {NewStore} /\ Len(made) < MaxStores
  BY DEF Store
<1>3. /\ made' \in Seq(Versions) /\ Len(made') = Len(made) + 1 /\ made'[Len(made) + 1] = v
      /\ \A s \in 1 .. Len(made) : made'[s] = made[s]
      /\ DOMAIN made' = 1 .. Len(made')
  BY <1>1, <1>2, AppendProperties
<1> QED
  BY <1>1, <1>2, <1>3 DEF NewStore, Stores, TypeOK, StoreAssumption

LEMMA InitTyped == ASSUME StoreAssumption PROVE Init => DatedInv
<1>1. <<>> \in Seq(Versions) /\ Len(<<>>) = 0
  OBVIOUS
<1> QED
  BY <1>1 DEF StoreAssumption, Init, DatedInv, TypeOK, KeptIsDated, EntryIsDated, TaskIsDated,
    Versions,
     Stores, Entry, PC

\* What a step leaves of the other tasks.
Stays(u) ==
  /\ pc'[u] = pc[u] /\ floor'[u] = floor[u] /\ want'[u] = want[u]
  /\ old'[u] = old[u] /\ new'[u] = new[u]

LEMMA OthersStay ==
  ASSUME TypeOK, NEW t \in Tasks, NEW u \in Tasks, u # t, Step(t)
  PROVE  Stays(u)
BY DEF TypeOK, Stays, Step, Begin, Lookup, CloseThenBuild, BuildStore, BuildThenClose,
   CloseAndKeep, KeepStore, EndUse, BuildFor, Goto, UseStore, Finish

\* A step of a task leaves the file, and builds at most one store.
LEMMA StepBuilds ==
  ASSUME StoreAssumption, DatedInv, NEW t \in Tasks, Step(t)
  PROVE  /\ UNCHANGED <<version, layers, flavour, alive>> /\ alive
         /\ \/ UNCHANGED made
            \/ /\ flavour = "multi" /\ Store(version)
            \/ /\ flavour = "server" /\ Store(want[t]) /\ want[t] \in Versions
<1>1. UNCHANGED <<version, layers, flavour, alive>> /\ alive
  BY DEF Step, Begin, Lookup, CloseThenBuild, BuildStore, BuildThenClose, CloseAndKeep, KeepStore,
     EndUse, file, At
<1>2. \/ UNCHANGED made
      \/ /\ flavour = "multi" /\ Store(version)
      \/ /\ flavour = "server" /\ Store(want[t]) /\ pc[t] = "build"
  BY DEF Step, Begin, Lookup, CloseThenBuild, BuildStore, BuildThenClose, CloseAndKeep, KeepStore,
     EndUse, BuildFor, shared, At
<1> QED
  BY <1>1, <1>2 DEF DatedInv, TaskIsDated

\* The stores that were built stay what they are.
LEMMA MadeGrows ==
  ASSUME StoreAssumption, DatedInv, NEW t \in Tasks, Step(t)
  PROVE  /\ made' \in Seq(Versions) /\ Len(made') <= MaxStores
         /\ \A s : Built(s) => Built(s)' /\ made'[s] = made[s]
         /\ \A s : Built(s)' => made'[s] <= version
         /\ DOMAIN made' = 1 .. Len(made') /\ DOMAIN made = 1 .. Len(made)
         /\ Len(made) \in Nat
<1>a. /\ made \in Seq(Versions) /\ Len(made) \in Nat /\ DOMAIN made = 1 .. Len(made)
      /\ Len(made) <= MaxStores /\ version \in Versions /\ Versions \subseteq Nat
      /\ MaxStores \in Nat
      /\ \A s : Built(s) => made[s] <= version
  BY DEF DatedInv, TypeOK, KeptIsDated, Versions, Built, StoreAssumption
<1>1. CASE UNCHANGED made
  BY <1>1, <1>a DEF Built
<1>2. ASSUME NEW v \in Versions, v <= version, Store(v)
      PROVE  /\ made' \in Seq(Versions) /\ Len(made') <= MaxStores
             /\ \A s : Built(s) => Built(s)' /\ made'[s] = made[s]
             /\ \A s : Built(s)' => made'[s] <= version
             /\ DOMAIN made' = 1 .. Len(made')
  BY <1>2, <1>a, StoreFacts DEF Built, DatedInv, Stores
<1>3. want[t] <= version /\ version <= version
  BY <1>a DEF DatedInv, TaskIsDated
<1> QED
  BY <1>1, <1>2, <1>3, <1>a, StepBuilds

LocalTyped ==
  /\ pc \in [Tasks -> PC]
  /\ floor \in [Tasks -> 0 .. MaxVersion] /\ want \in [Tasks -> 0 .. MaxVersion]
  /\ old \in [Tasks -> Entry \cup {None}] /\ new \in [Tasks -> Stores \cup {None}]

\* What a step has to keep true of its own task, and of the cache.
OwnDated(t) ==
  /\ LocalTyped /\ TaskIsDated(t) /\ EntryIsDated
  /\ entry \in Entry \cup {None} /\ open \subseteq DOMAIN made

LEMMA StepDated ==
  ASSUME StoreAssumption, DatedInv, NEW t \in Tasks, Step(t)
  PROVE  DatedInv'
<1> USE DEF At, Goto
<1>a. /\ entry \in Entry \cup {None} /\ open \subseteq DOMAIN made /\ version \in Versions
      /\ pc \in [Tasks -> PC]
      /\ floor \in [Tasks -> 0 .. MaxVersion] /\ want \in [Tasks -> 0 .. MaxVersion]
      /\ old \in [Tasks -> Entry \cup {None}] /\ new \in [Tasks -> Stores \cup {None}]
      /\ Versions \subseteq 0 .. MaxVersion /\ 0 \in 0 .. MaxVersion
      /\ None \notin Entry /\ None \notin Stores
  BY DEF DatedInv, TypeOK, StoreAssumption, Versions
<1>k. EntryIsDated
  BY DEF DatedInv, KeptIsDated
<1>i. TaskIsDated(t)
  BY DEF DatedInv
<1>m. /\ made' \in Seq(Versions) /\ Len(made') <= MaxStores
      /\ \A s : Built(s) => Built(s)' /\ made'[s] = made[s]
      /\ \A s : Built(s)' => made'[s] <= version
      /\ DOMAIN made' = 1 .. Len(made') /\ DOMAIN made = 1 .. Len(made) /\ Len(made) \in Nat
  BY MadeGrows
<1>e. \A e \in Entry : e.store \in Stores /\ e.mtime \in Versions
  BY DEF Entry
<1>f. \A d \in Versions, s \in Stores : [mtime |-> d, store |-> s] \in Entry
  BY DEF Entry
<1>l. LocalTyped
  BY <1>a DEF LocalTyped
<1>u. UNCHANGED entry => EntryIsDated' /\ entry' \in Entry \cup {None}
  BY <1>a, <1>k, <1>m DEF EntryIsDated
<1>o. open' \subseteq open => open' \subseteq DOMAIN made'
  BY <1>a, <1>m DEF Built
<1>z. Finish(t) => LocalTyped' /\ TaskIsDated(t)'
  <2>1. 0 <= version' /\ \A x \in Stores \cup {None} : x # None => x \in Stores
    BY StepBuilds DEF DatedInv, TypeOK, Versions
  <2> QED BY <1>a, <2>1 DEF Finish, LocalTyped, TaskIsDated, PC
<1>1. ASSUME Begin(t) PROVE OwnDated(t)'
  <2>1. LocalTyped' /\ UNCHANGED <<entry, made, open, version>>
    BY <1>1, <1>a DEF LocalTyped, Begin, PC, shared, file
  <2>2. TaskIsDated(t)'
    BY <1>1, <1>a, <1>i DEF Begin, TaskIsDated, Versions, DatedInv, TypeOK, StoreAssumption,
      Built, shared, file
  <2> QED BY <1>u, <1>o, <2>1, <2>2 DEF OwnDated
<1>2. ASSUME Lookup(t) PROVE OwnDated(t)'
  <2>1. UNCHANGED <<entry, made, open, version, floor, want>> /\ pc[t] = "lookup"
    BY <1>2 DEF Lookup, shared, file
  <2>2. LocalTyped'
    BY <1>2, <1>a, <1>e DEF LocalTyped, Lookup, UseStore, IsFresh, PC
  <2>3. TaskIsDated(t)'
    <3>1. CASE IsFresh(t)
      <4>1. entry # None /\ entry.store \in Stores /\ Built(entry.store)
            /\ made[entry.store] >= want[t]
        BY <1>a, <1>e, <1>k, <3>1 DEF EntryIsDated, IsFresh
      <4>2. pc'[t] = "use" /\ old'[t] = entry /\ new'[t] = entry.store
        BY <1>2, <1>a, <3>1, <4>1 DEF Lookup, UseStore
      <4> QED BY <1>a, <1>i, <2>1, <4>1, <4>2 DEF TaskIsDated, Built
    <3>2. CASE ~IsFresh(t)
      <4>1. /\ pc'[t] \in {"close", "build"} /\ (pc'[t] = "close" => entry # None)
            /\ old'[t] = entry /\ new'[t] = new[t]
        BY <1>2, <1>a, <3>2 DEF Lookup
      <4> QED BY <1>k, <1>i, <2>1, <4>1 DEF EntryIsDated, TaskIsDated, Built
    <3> QED BY <3>1, <3>2
  <2> QED BY <1>u, <1>o, <2>1, <2>2, <2>3 DEF OwnDated
<1>3. ASSUME CloseThenBuild(t) PROVE OwnDated(t)'
  <2>1. UNCHANGED <<entry, made, version, floor, want, new>> /\ open' \subseteq open
        /\ Goto(t, "build") /\ old' = [old EXCEPT ![t] = None] /\ pc[t] = "close"
    BY <1>3 DEF CloseThenBuild, AfterClose, file
  <2>2. LocalTyped' /\ TaskIsDated(t)'
    BY <1>a, <1>i, <2>1 DEF LocalTyped, PC, TaskIsDated, Built
  <2> QED BY <1>u, <1>o, <2>1, <2>2 DEF OwnDated
<1>b. ASSUME NEW v \in Versions, NEW l \in {"keep", "close"}, BuildFor(t, v, l),
             want[t] <= v, pc[t] = "build", l = "close" => old[t] # None, UNCHANGED version
      PROVE  OwnDated(t)'
  <2>0. /\ Store(v) /\ new' = [new EXCEPT ![t] = NewStore] /\ pc' = [pc EXCEPT ![t] = l]
        /\ UNCHANGED <<entry, floor, want, old>>
    BY <1>b DEF BuildFor
  <2>1. /\ NewStore \in Stores /\ made'[NewStore] = v /\ NewStore \in 1 .. Len(made')
        /\ open' = open \cup {NewStore} /\ NewStore # None
    BY <1>a, <2>0, StoreFacts DEF DatedInv
  <2>2. LocalTyped'
    BY <1>a, <2>0, <2>1 DEF LocalTyped, PC
  <2>3. open' \subseteq DOMAIN made'
    BY <1>a, <1>m, <2>1 DEF Built
  <2>4. TaskIsDated(t)'
    BY <1>a, <1>b, <1>i, <1>m, <2>0, <2>1 DEF TaskIsDated, Built
  <2> QED BY <1>u, <2>0, <2>2, <2>3, <2>4 DEF OwnDated
<1>w. pc[t] = "build" => want[t] \in Versions /\ want[t] <= version /\ want[t] <= want[t]
  <2>1. pc[t] = "build" => want[t] \in Versions /\ want[t] <= version
    BY <1>i DEF TaskIsDated
  <2> QED BY <2>1 DEF Versions
<1>4. ASSUME BuildStore(t) PROVE OwnDated(t)'
  <2>1. CASE Finish(t) /\ UNCHANGED shared
    BY <1>u, <1>o, <1>z, <2>1 DEF OwnDated, shared
  <2>2. CASE BuildFor(t, version, "keep")
    BY <1>4, <1>a, <1>b, <1>w, <2>2 DEF BuildStore, file
  <2> QED BY <1>4, <2>1, <2>2 DEF BuildStore
<1>5. ASSUME BuildThenClose(t) PROVE OwnDated(t)'
  <2>0. pc[t] = "build" /\ UNCHANGED version
    BY <1>5 DEF BuildThenClose, file
  <2>1. CASE Finish(t) /\ UNCHANGED shared
    BY <1>u, <1>o, <1>z, <2>1 DEF OwnDated, shared
  <2>2. CASE BuildFor(t, want[t], IF old[t] = None THEN "keep" ELSE "close")
    BY <1>b, <1>w, <2>0, <2>2
  <2>3. CASE old[t] # None /\ Goto(t, "close") /\ UNCHANGED <<shared, floor, want, old, new>>
    <3>1. LocalTyped' /\ TaskIsDated(t)'
      BY <1>a, <1>i, <2>0, <2>3 DEF LocalTyped, TaskIsDated, PC, Built, shared
    <3> QED BY <1>u, <1>o, <2>3, <3>1 DEF OwnDated, shared
  <2> QED BY <1>5, <2>1, <2>2, <2>3 DEF BuildThenClose
<1>6. ASSUME CloseAndKeep(t) \/ KeepStore(t) PROVE OwnDated(t)'
  <2>0. /\ pc[t] \in {"close", "keep"} /\ UNCHANGED <<version, made>> /\ open' \subseteq open
        /\ pc[t] = "keep" => new[t] # None
    BY <1>6, <1>i DEF CloseAndKeep, KeepStore, TaskIsDated, file
  <2>1. CASE entry' = None /\ Finish(t)
    BY <1>o, <1>z, <2>0, <2>1 DEF OwnDated, EntryIsDated
  <2>2. CASE /\ new[t] # None /\ Keep(want[t], new[t]) /\ UseStore(t, new[t])
             /\ UNCHANGED <<floor, want, old>>
    <3>1. new[t] \in Stores /\ Built(new[t]) /\ made[new[t]] >= want[t] /\ want[t] \in Versions
      BY <1>a, <1>i, <2>0, <2>2 DEF TaskIsDated
    <3>a. LocalTyped'
      BY <1>a, <2>2, <3>1 DEF LocalTyped, UseStore, PC
    <3>b. entry' = [mtime |-> want[t], store |-> new[t]]
      BY <2>2 DEF Keep
    <3>3. LocalTyped' /\ entry' \in Entry \cup {None}
      BY <1>f, <3>a, <3>b, <3>1
    <3>4. made[new[t]] \in Nat /\ want[t] \in Nat
      <4>1. made[new[t]] \in Versions
        BY <3>1 DEF Built, DatedInv, TypeOK
      <4> QED BY <3>1, <4>1 DEF Versions
    <3>5. EntryIsDated'
      BY <2>0, <3>b, <3>1, <3>4 DEF EntryIsDated, Built
    <3>6. TaskIsDated(t)'
      BY <1>a, <1>i, <1>m, <2>0, <2>2, <3>1 DEF UseStore, TaskIsDated, Built
    <3> QED BY <1>o, <2>0, <3>3, <3>5, <3>6 DEF OwnDated
  <2> QED BY <1>6, <2>0, <2>1, <2>2 DEF CloseAndKeep, KeepStore, EntryDate
<1>7. ASSUME EndUse(t) PROVE OwnDated(t)'
  BY <1>7, <1>u, <1>o, <1>z DEF OwnDated, EndUse, shared
<1>8. OwnDated(t)'
  BY <1>1, <1>2, <1>3, <1>4, <1>5, <1>6, <1>7 DEF Step
<1>9. UNCHANGED <<version, layers, flavour, alive>>
  BY StepBuilds
<1>10. TypeOK'
  BY <1>8, <1>9, <1>m DEF OwnDated, LocalTyped, DatedInv, TypeOK
<1>11. KeptIsDated'
  BY <1>8, <1>9, <1>m DEF OwnDated, KeptIsDated, Built
<1>12. ASSUME NEW u \in Tasks PROVE TaskIsDated(u)'
  <2>1. CASE u # t
    <3>1. Stays(u) /\ TaskIsDated(u)
      BY <2>1, OthersStay DEF DatedInv
    <3> QED BY <1>9, <1>m, <3>1 DEF Stays, TaskIsDated
  <2> QED BY <1>8, <2>1 DEF OwnDated
<1> QED
  BY <1>10, <1>11, <1>12 DEF DatedInv

LEMMA NextDated ==
  ASSUME StoreAssumption, DatedInv, [Next]_vars
  PROVE  DatedInv'
<1> USE DEF DatedInv
<1>1. CASE CloseAll
  BY <1>1 DEF CloseAll, file, TypeOK, KeptIsDated, EntryIsDated, TaskIsDated, Built
<1>2. CASE Edit
  <2>1. version + 1 \in Versions /\ version \in Nat
    BY <1>2 DEF Edit, TypeOK, Versions, StoreAssumption
  <2>2. /\ version' = version + 1 /\ layers' \subseteq Versions
        /\ UNCHANGED <<flavour, entry, made, open, alive, pc, floor, want, old, new>>
    BY <1>2, <2>1 DEF Edit, TypeOK, shared
  <2>3. TypeOK'
    BY <2>1, <2>2 DEF TypeOK
  <2>4. \A s \in 1 .. Len(made) : made[s] \in Nat /\ made[s] <= version
    <3>1. \A s \in 1 .. Len(made) : made[s] \in Versions
      BY DEF TypeOK
    <3> QED BY <3>1 DEF KeptIsDated, Versions
  <2>5. KeptIsDated'
    BY <2>1, <2>2, <2>4 DEF KeptIsDated, EntryIsDated, Built
  <2>6. ASSUME NEW t \in Tasks PROVE TaskIsDated(t)'
    <3>1. TaskIsDated(t) /\ floor[t] \in Nat
      BY DEF TypeOK
    <3> QED BY <2>1, <2>2, <3>1 DEF TaskIsDated, Built
  <2> QED BY <2>3, <2>5, <2>6
<1>3. CASE UNCHANGED vars
  BY <1>3 DEF vars, file, shared, TypeOK, KeptIsDated, EntryIsDated, TaskIsDated, Built
<1> QED
  BY <1>1, <1>2, <1>3, StepDated DEF Next

\* The stores have their types, for any number of tasks and contents.
THEOREM StoreCacheTyped == ASSUME StoreAssumption PROVE Spec => []TypeOK
<1>1. Init => DatedInv
  BY InitTyped
<1>2. DatedInv /\ [Next]_vars => DatedInv'
  BY NextDated
<1>3. DatedInv => TypeOK
  BY DEF DatedInv
<1> QED
  BY <1>1, <1>2, <1>3, PTL DEF Spec

\* A task works with a store that is not older than the configuration it began with,
\* whatever is edited meanwhile.
THEOREM StoreStaysCurrent == ASSUME StoreAssumption PROVE Spec => []StoreIsCurrent
<1>1. Init => DatedInv
  BY InitTyped
<1>2. DatedInv /\ [Next]_vars => DatedInv'
  BY NextDated
<1>3. DatedInv => StoreIsCurrent
  BY DEF DatedInv, TaskIsDated, StoreIsCurrent
<1> QED
  BY <1>1, <1>2, <1>3, PTL DEF Spec

LEMMA DatedIsCurrent == ASSUME StoreAssumption, DatedInv PROVE CacheIsCurrent
<1>1. ASSUME entry # None, entry.mtime = version PROVE made[entry.store] = version
  <2>1. Built(entry.store) /\ version <= made[entry.store] /\ made[entry.store] <= version
    BY <1>1 DEF DatedInv, KeptIsDated, EntryIsDated, Built
  <2>2. made[entry.store] \in Versions /\ version \in Versions
    BY <2>1 DEF DatedInv, TypeOK, Built
  <2> QED BY <2>1, <2>2 DEF Versions
<1> QED
  BY <1>1 DEF CacheIsCurrent

\* What the cache returns for the current modification time has the current content.
THEOREM CacheStaysCurrent == ASSUME StoreAssumption PROVE Spec => []CacheIsCurrent
<1>1. Init => DatedInv
  BY InitTyped
<1>2. DatedInv /\ [Next]_vars => DatedInv'
  BY NextDated
<1>3. DatedInv => CacheIsCurrent
  BY DatedIsCurrent
<1> QED
  BY <1>1, <1>2, <1>3, PTL DEF Spec

-----------------------------------------------------------------------------
(* No store in use is closed.                                              *)

LEMMA StepOpen ==
  ASSUME StoreAssumption, OpenInv, NEW t \in Tasks, Step(t)
  PROVE  OpenInv'
<1> USE DEF At, Goto
<1>a. /\ entry \in Entry \cup {None} /\ open \subseteq DOMAIN made /\ version \in Versions
      /\ pc \in [Tasks -> PC] /\ want \in [Tasks -> 0 .. MaxVersion]
      /\ old \in [Tasks -> Entry \cup {None}] /\ new \in [Tasks -> Stores \cup {None}]
      /\ None \notin Entry /\ None \notin Stores /\ DatedInv
  BY DEF OpenInv, DatedInv, TypeOK, StoreAssumption
<1>b. DatedInv' /\ UNCHANGED version
  BY <1>a, StepDated, StepBuilds
<1>m. \A s : Built(s) => Built(s)' /\ made'[s] = made[s]
  BY <1>a, MadeGrows
<1>k. /\ EntryIsDated
      /\ entry # None => entry.mtime = made[entry.store] /\ Built(entry.store)
      /\ entry # None /\ entry.mtime = version => entry.store \in open
  BY DEF OpenInv, DatedInv, KeptIsDated, EntryIsDated
<1>i. \A u \in Tasks : TaskIsOpen(u) /\ TaskIsDated(u)
  BY DEF OpenInv, DatedInv
<1>n. \A v : v = version /\ Store(v) =>
        /\ NewStore \in Stores /\ NewStore # None /\ made'[NewStore] = version
        /\ open' = open \cup {NewStore}
  BY <1>a, StoreFacts DEF DatedInv
\* A store is closed only if it has another content than the file.
<1>c. \A s \in open : made[s] = version => s \in open'
  <2>1. ASSUME CloseThenBuild(t) \/ CloseAndKeep(t)
        PROVE \A s \in open : made[s] = version => s \in open'
    <3>1. open' = open \ {old[t].store} /\ made[old[t].store] # version
      BY <2>1, <1>i DEF CloseThenBuild, CloseAndKeep, ToClose, TaskIsOpen, TaskIsDated
    <3> QED BY <3>1
  <2>2. ASSUME ~CloseThenBuild(t), ~CloseAndKeep(t) PROVE open \subseteq open'
    BY <2>2 DEF Step, Begin, Lookup, BuildStore, BuildThenClose, KeepStore, EndUse, BuildFor,
       Store, shared
  <2> QED BY <2>1, <2>2
<1> DEFINE Kept == /\ entry # None => entry.mtime = made[entry.store]
                   /\ entry # None /\ entry.mtime = version => entry.store \in open
<1>s. UNCHANGED entry => Kept'
  BY <1>b, <1>c, <1>k, <1>m
<1>z. Finish(t) => TaskIsOpen(t)'
  BY <1>a DEF Finish, TaskIsOpen
<1>1. ASSUME Begin(t) PROVE Kept' /\ TaskIsOpen(t)'
  BY <1>1, <1>s, <1>a, <1>b, <1>i DEF Begin, TaskIsOpen, TaskIsDated, shared
<1>2. ASSUME Lookup(t) PROVE Kept' /\ TaskIsOpen(t)'
  <2>1. UNCHANGED <<entry, made, open, want>> /\ pc[t] = "lookup" /\ want[t] = version
    BY <1>2, <1>i DEF Lookup, shared, TaskIsOpen
  <2>2. CASE IsFresh(t)
    <3>1. entry # None /\ made[entry.store] = version /\ entry.store \in open
      BY <1>k, <2>1, <2>2 DEF IsFresh
    <3>2. pc'[t] = "use" /\ new'[t] = entry.store
      BY <1>2, <1>a, <2>2 DEF Lookup, UseStore
    <3> QED BY <1>b, <1>s, <2>1, <3>1, <3>2 DEF TaskIsOpen
  <2>3. CASE ~IsFresh(t)
    <3>1. old'[t] = entry /\ new'[t] = None
      BY <1>2, <1>a, <1>i, <2>1, <2>3 DEF Lookup, TaskIsDated
    <3>2. entry # None => made[entry.store] # version
      BY <1>k, <2>1, <2>3 DEF IsFresh
    <3> QED BY <1>b, <1>s, <2>1, <3>1, <3>2 DEF TaskIsOpen
  <2> QED BY <2>2, <2>3
<1>3. ASSUME CloseThenBuild(t) PROVE Kept' /\ TaskIsOpen(t)'
  <2>1. UNCHANGED <<entry, made, want, new>> /\ Goto(t, "build") /\ pc[t] = "close"
        /\ old' = [old EXCEPT ![t] = None]
    BY <1>3 DEF CloseThenBuild, AfterClose
  <2>2. new[t] # None => new[t] \in open'
    BY <1>c, <1>i DEF TaskIsOpen
  <2> QED BY <1>a, <1>b, <1>i, <1>s, <2>1, <2>2 DEF TaskIsOpen
<1>4. ASSUME BuildStore(t) \/ BuildThenClose(t) PROVE Kept' /\ TaskIsOpen(t)'
  <2>0. pc[t] = "build" /\ want[t] = version
    BY <1>4, <1>i DEF BuildStore, BuildThenClose, TaskIsOpen
  <2>1. CASE Finish(t) /\ UNCHANGED shared
    BY <1>s, <1>z, <2>1 DEF shared
  <2>2. ASSUME NEW l \in {"keep", "close"}, BuildFor(t, version, l)
        PROVE  Kept' /\ TaskIsOpen(t)'
    <3>0. Store(version) /\ UNCHANGED <<entry, want, old>>
      BY <2>2 DEF BuildFor
    <3>1. pc'[t] = l /\ new'[t] = NewStore
      BY <1>a, <2>2 DEF BuildFor
    <3>2. old[t] # None => made'[old[t].store] # version
      BY <1>i, <1>m, <2>0 DEF TaskIsOpen, TaskIsDated
    <3> QED BY <1>b, <1>n, <1>s, <2>0, <3>0, <3>1, <3>2 DEF TaskIsOpen
  <2>4. CASE Goto(t, "close") /\ UNCHANGED <<shared, want, old, new>>
    BY <1>a, <1>b, <1>i, <1>s, <2>0, <2>4 DEF TaskIsOpen, shared
  <2> QED BY <1>4, <2>0, <2>1, <2>2, <2>4 DEF BuildStore, BuildThenClose
<1>5. ASSUME CloseAndKeep(t) \/ KeepStore(t) PROVE Kept' /\ TaskIsOpen(t)'
  <2>0. /\ pc[t] \in {"close", "keep"} /\ UNCHANGED made /\ want[t] = version
        /\ pc[t] = "keep" => new[t] # None
    BY <1>a, <1>5, <1>i DEF CloseAndKeep, KeepStore, TaskIsOpen, TaskIsDated, DatedInv
  <2>1. CASE entry' = None /\ Finish(t)
    BY <1>z, <2>1
  <2>2. CASE new[t] # None /\ Keep(version, new[t]) /\ UseStore(t, new[t])
             /\ UNCHANGED <<want, old>>
    <3>1. made[new[t]] = version /\ new[t] \in open'
      BY <1>c, <1>i, <2>2 DEF TaskIsOpen
    <3>2. Kept'
      BY <1>b, <2>0, <2>2, <3>1 DEF Keep
    <3>3. pc'[t] = "use" /\ new'[t] = new[t]
      BY <1>a, <2>2 DEF UseStore
    <3> QED BY <1>b, <2>0, <2>2, <3>1, <3>2, <3>3 DEF TaskIsOpen
  <2> QED BY <1>5, <2>0, <2>1, <2>2 DEF CloseAndKeep, KeepStore, EntryDate
<1>6. ASSUME EndUse(t) PROVE Kept' /\ TaskIsOpen(t)'
  BY <1>6, <1>s, <1>z DEF EndUse, shared
<1>7. Kept' /\ TaskIsOpen(t)'
  BY <1>1, <1>2, <1>3, <1>4, <1>5, <1>6 DEF Step
<1>8. ASSUME NEW u \in Tasks, u # t PROVE TaskIsOpen(u)'
  <2>1. Stays(u) /\ TaskIsOpen(u) /\ TaskIsDated(u)
    BY <1>a, <1>i, <1>8, OthersStay DEF DatedInv
  <2>2. new[u] # None => made'[new[u]] = version /\ new[u] \in open'
    BY <1>c, <1>m, <2>1 DEF TaskIsOpen, TaskIsDated
  <2>3. old[u] # None => made'[old[u].store] = made[old[u].store]
    BY <1>m, <2>1 DEF TaskIsDated
  <2> QED BY <1>b, <2>1, <2>2, <2>3 DEF TaskIsOpen, Stays
<1> QED
  BY <1>b, <1>7, <1>8 DEF OpenInv

LEMMA NextOpen ==
  ASSUME StoreAssumption, Undisturbed, OpenInv, [Next]_vars
  PROVE  OpenInv'
<1>a. DatedInv /\ DatedInv'
  BY NextDated DEF OpenInv
<1>1. CASE CloseAll
  <2>1. entry' = None /\ UNCHANGED <<version, made, pc, want, old, new>>
        /\ \A t \in Tasks : pc[t] = "idle"
    BY <1>1 DEF CloseAll, file
  <2>2. ASSUME NEW t \in Tasks PROVE TaskIsOpen(t)'
    BY <1>a, <2>1 DEF TaskIsOpen, TaskIsDated, DatedInv
  <2> QED BY <1>a, <2>1, <2>2 DEF OpenInv
<1>2. CASE Edit
  <2>1. /\ version' = version + 1 /\ \A t \in Tasks : pc[t] = "idle"
        /\ UNCHANGED <<entry, made, open, pc, want, old, new>>
    BY <1>2 DEF Edit, Undisturbed, shared
  <2>2. entry # None => entry.mtime <= version /\ entry.mtime \in Nat /\ version \in Nat
    <3>1. ASSUME entry # None PROVE made[entry.store] <= version
      BY <1>a, <3>1 DEF DatedInv, KeptIsDated, EntryIsDated, Built
    <3> QED BY <1>a, <3>1 DEF OpenInv, DatedInv, TypeOK, Entry, Versions
  <2>3. ASSUME NEW t \in Tasks PROVE TaskIsOpen(t)'
    BY <1>a, <2>1 DEF TaskIsOpen, TaskIsDated, DatedInv
  <2> QED BY <1>a, <2>1, <2>2, <2>3 DEF OpenInv
<1>3. CASE UNCHANGED vars
  BY <1>a, <1>3 DEF vars, file, shared, OpenInv, TaskIsOpen
<1> QED
  BY <1>1, <1>2, <1>3, StepOpen DEF Next

LEMMA InitOpen == ASSUME StoreAssumption, Init PROVE OpenInv
BY InitTyped DEF Init, OpenInv, TaskIsOpen

LEMMA InvOpen ==
  ASSUME StoreAssumption, OpenInv
  PROVE  TypeOK /\ StoreIsCurrent /\ CacheIsCurrent /\ UsedIsOpen
<1>1. TypeOK /\ StoreIsCurrent /\ UsedIsOpen
  BY DEF OpenInv, DatedInv, TaskIsOpen, TaskIsDated, StoreIsCurrent, UsedIsOpen
<1> QED
  BY <1>1, DatedIsCurrent DEF OpenInv

\* A store that a task works with is open, when nothing is edited while one is in use.
THEOREM UsedStaysOpen ==
  ASSUME StoreAssumption, Undisturbed PROVE Spec => []UsedIsOpen
<1>1. Init => OpenInv
  BY InitOpen
<1>2. OpenInv /\ [Next]_vars => OpenInv'
  BY NextOpen
<1>3. OpenInv => UsedIsOpen
  BY InvOpen
<1> QED
  BY <1>1, <1>2, <1>3, PTL DEF Spec

-----------------------------------------------------------------------------
(* A task alone leaves no old store open.                                  *)

LEMMA StepAlone ==
  ASSUME StoreAssumption, Alone, AloneInv, NEW t \in Tasks, Step(t)
  PROVE  AloneInv'
<1> USE DEF At, Goto
<1>a. /\ pc \in [Tasks -> PC] /\ old \in [Tasks -> Entry \cup {None}]
      /\ new \in [Tasks -> Stores \cup {None}] /\ entry \in Entry \cup {None}
      /\ None \notin Entry /\ None \notin Stores /\ DatedInv /\ Tasks = {t}
      /\ want \in [Tasks -> 0 .. MaxVersion]
  BY DEF Alone, AloneInv, DatedInv, TypeOK, StoreAssumption
<1>b. DatedInv' /\ UNCHANGED flavour /\ flavour \in {"multi", "server"}
  BY <1>a, StepDated, StepBuilds DEF DatedInv, TypeOK, StoreAssumption
<1>i. TaskIsAlone(t) /\ TaskIsDated(t)
  BY <1>a DEF AloneInv, DatedInv
<1>o. open \subseteq CASE pc[t] = "close" -> OfTheCache \cup {new[t]}
                      [] pc[t] = "keep" -> {new[t]}
                      [] OTHER -> OfTheCache
  BY <1>a DEF AloneInv, TaskIsAlone
<1>n. \A v \in Versions : Store(v) => NewStore \in Stores /\ open' = open \cup {NewStore}
  BY <1>a, StoreFacts DEF DatedInv
<1>v. version \in Versions /\ (pc[t] # "idle" => want[t] \in Versions)
  BY <1>a, <1>i DEF DatedInv, TypeOK, TaskIsDated
<1>e. \A d \in Versions, s \in Stores : [mtime |-> d, store |-> s] \in Entry
  BY DEF Entry
<1> DEFINE Own == /\ TaskIsAlone(t)
                  /\ pc[t] \notin {"close", "keep"} => open \subseteq OfTheCache
                  /\ pc[t] = "close" => open \subseteq OfTheCache \cup {new[t]}
<1>1. ASSUME Begin(t) \/ EndUse(t) PROVE Own'
  <2>1. UNCHANGED <<entry, open>> /\ pc[t] \in {"idle", "use"} /\ pc'[t] \in {"lookup", "idle"}
    BY <1>1, <1>a DEF Begin, EndUse, Finish, shared
  <2> QED BY <1>o, <2>1 DEF TaskIsAlone, OfTheCache
<1>2. ASSUME Lookup(t) PROVE Own'
  <2>1. /\ pc[t] = "lookup" /\ UNCHANGED <<entry, open>> /\ old'[t] = entry
        /\ pc'[t] \in {"use", "close", "build"}
        /\ pc'[t] # "use" => new'[t] = None
        /\ pc'[t] = "build" /\ flavour = "multi" => entry = None
    BY <1>2, <1>a, <1>i DEF Lookup, UseStore, shared, TaskIsDated
  <2> QED BY <1>b, <1>o, <2>1 DEF TaskIsAlone, OfTheCache
<1>3. ASSUME CloseThenBuild(t) PROVE Own'
  <2>1. /\ pc[t] = "close" /\ pc'[t] = "build" /\ flavour = "multi"
        /\ open' = open \ {old[t].store} /\ UNCHANGED <<entry, new>>
    BY <1>3, <1>a DEF CloseThenBuild, AfterClose, ToClose
  <2>2. open \subseteq {old[t].store, None} /\ None \notin open
    <3>1. old[t] = entry /\ entry # None /\ new[t] = None
      BY <1>i, <2>1 DEF TaskIsAlone, TaskIsDated
    <3>2. open \subseteq Stores
      BY <1>a DEF DatedInv, TypeOK, Stores, StoreAssumption
    <3> QED BY <1>a, <1>o, <2>1, <3>1, <3>2 DEF OfTheCache
  <2>3. open' = {}
    BY <2>1, <2>2
  <2> QED BY <1>b, <2>1, <2>3 DEF TaskIsAlone, OfTheCache
<1>4. ASSUME BuildStore(t) PROVE Own'
  <2>0. pc[t] = "build" /\ flavour = "multi" /\ open = {}
    BY <1>4, <1>i DEF BuildStore, TaskIsAlone
  <2>1. CASE Finish(t) /\ UNCHANGED shared
    BY <1>a, <2>0, <2>1 DEF Finish, shared, TaskIsAlone
  <2>2. CASE BuildFor(t, version, "keep")
    <3>1. open' = {NewStore} /\ new'[t] = NewStore /\ pc'[t] = "keep"
      BY <1>a, <1>n, <1>v, <2>0, <2>2 DEF BuildFor
    <3> QED BY <3>1 DEF TaskIsAlone
  <2> QED BY <1>4, <2>1, <2>2 DEF BuildStore
<1>5. ASSUME BuildThenClose(t) PROVE Own'
  <2>0. /\ pc[t] = "build" /\ flavour = "server" /\ old[t] = entry /\ new[t] = None
        /\ open \subseteq OfTheCache
    BY <1>5, <1>i, <1>o DEF BuildThenClose, TaskIsAlone
  <2>1. CASE Finish(t) /\ UNCHANGED shared
    BY <1>a, <2>0, <2>1 DEF Finish, shared, TaskIsAlone, OfTheCache
  <2>2. CASE old[t] = None /\ BuildFor(t, want[t], "keep")
    <3>1. open' = {NewStore} /\ new'[t] = NewStore /\ pc'[t] = "keep"
      BY <1>a, <1>n, <1>v, <2>0, <2>2 DEF BuildFor, OfTheCache
    <3> QED BY <3>1 DEF TaskIsAlone
  <2>3. CASE BuildFor(t, want[t], "close")
    <3>1. /\ open' = open \cup {NewStore} /\ new'[t] = NewStore /\ pc'[t] = "close"
          /\ UNCHANGED <<entry, old>>
      BY <1>a, <1>n, <1>v, <2>0, <2>3 DEF BuildFor
    <3> QED BY <1>b, <2>0, <3>1 DEF TaskIsAlone, OfTheCache
  <2>4. CASE Goto(t, "close") /\ UNCHANGED <<shared, old, new>>
    <3>1. pc'[t] = "close" /\ UNCHANGED <<entry, open, old, new>>
      BY <1>a, <2>4 DEF shared
    <3> QED BY <1>b, <2>0, <3>1 DEF TaskIsAlone, OfTheCache
  <2> QED BY <1>5, <2>1, <2>2, <2>3, <2>4 DEF BuildThenClose
<1>6. ASSUME CloseAndKeep(t) PROVE Own'
  <2>0. /\ pc[t] = "close" /\ old[t] = entry /\ entry # None
        /\ open' = open \ {old[t].store} /\ open \subseteq {old[t].store, new[t]}
    BY <1>6, <1>i, <1>o DEF CloseAndKeep, ToClose, TaskIsAlone, TaskIsDated, OfTheCache
  <2>1. CASE new[t] = None /\ entry' = None /\ Finish(t)
    <3>1. None \notin open
      BY <1>a DEF DatedInv, TypeOK, Stores, StoreAssumption
    <3>2. open' = {} /\ pc'[t] = "idle"
      BY <1>a, <2>0, <2>1, <3>1 DEF Finish
    <3> QED BY <3>2 DEF TaskIsAlone, OfTheCache
  <2>2. CASE new[t] # None /\ Keep(want[t], new[t]) /\ UseStore(t, new[t])
    <3>1. new[t] \in Stores
      BY <1>a, <2>2
    <3>2. entry' # None /\ entry'.store = new[t] /\ pc'[t] = "use" /\ open' \subseteq {new[t]}
      BY <1>a, <1>e, <1>v, <2>0, <2>2, <3>1 DEF Keep, UseStore
    <3> QED BY <3>2 DEF TaskIsAlone, OfTheCache
  <2> QED BY <1>6, <2>1, <2>2 DEF CloseAndKeep, EntryDate
<1>7. ASSUME KeepStore(t) PROVE Own'
  <2>0. pc[t] = "keep" /\ new[t] \in Stores /\ open \subseteq {new[t]}
    BY <1>7, <1>a, <1>i DEF KeepStore, TaskIsAlone, TaskIsDated
  <2>1. /\ entry' # None /\ entry'.store = new[t] /\ pc'[t] = "use" /\ UNCHANGED open
    BY <1>7, <1>a, <1>e, <1>v, <2>0 DEF KeepStore, Keep, UseStore, EntryDate
  <2> QED BY <2>0, <2>1 DEF TaskIsAlone, OfTheCache
<1>8. Own'
  BY <1>1, <1>2, <1>3, <1>4, <1>5, <1>6, <1>7 DEF Step
<1> QED
  BY <1>a, <1>b, <1>8 DEF AloneInv, TaskIsAlone

LEMMA NextAlone ==
  ASSUME StoreAssumption, Alone, AloneInv, [Next]_vars
  PROVE  AloneInv'
<1>a. DatedInv /\ DatedInv'
  BY NextDated DEF AloneInv
<1>1. CASE CloseAll
  <2>1. /\ entry' = None /\ open' = open \ OfTheCache /\ UNCHANGED pc
        /\ \A t \in Tasks : pc[t] = "idle"
    BY <1>1 DEF CloseAll, OfTheCache
  <2>2. open' = {}
    BY <2>1 DEF AloneInv
  <2> QED BY <1>a, <2>1, <2>2 DEF AloneInv, TaskIsAlone
<1>2. CASE Edit \/ UNCHANGED vars
  <2>1. UNCHANGED <<flavour, entry, open, pc, old, new>>
    BY <1>2 DEF Edit, vars, shared
  <2> QED BY <1>a, <2>1 DEF AloneInv, TaskIsAlone, OfTheCache
<1> QED
  BY <1>1, <1>2, StepAlone DEF Next

LEMMA InitAlone == ASSUME StoreAssumption, Init PROVE AloneInv
BY InitTyped DEF Init, AloneInv, TaskIsAlone

LEMMA InvAlone ==
  ASSUME StoreAssumption, AloneInv
  PROVE  TypeOK /\ StoreIsCurrent /\ CacheIsCurrent /\ StaleIsClosed
<1>1. TypeOK /\ StoreIsCurrent
  BY DEF AloneInv, DatedInv, TaskIsDated, StoreIsCurrent
<1>2. CacheIsCurrent
  BY DatedIsCurrent DEF AloneInv
<1>3. StaleIsClosed
  BY <1>2 DEF AloneInv, StaleIsClosed, CacheIsCurrent, OfTheCache
<1> QED
  BY <1>1, <1>2, <1>3

\* A task alone leaves no store of an earlier configuration open.
THEOREM StaleAreClosed ==
  ASSUME StoreAssumption, Alone PROVE Spec => []StaleIsClosed
<1>1. Init => AloneInv
  BY InitAlone
<1>2. AloneInv /\ [Next]_vars => AloneInv'
  BY NextAlone
<1>3. AloneInv => StaleIsClosed
  BY InvAlone
<1> QED
  BY <1>1, <1>2, <1>3, PTL DEF Spec
=============================================================================
