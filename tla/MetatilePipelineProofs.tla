----------------------- MODULE MetatilePipelineProofs -----------------------
(***************************************************************************)
(* Proof of SuccessIsComplete, for any number of meta tiles, sub-tiles and *)
(* tasks, and whatever fails.                                              *)
(*                                                                         *)
(* The count elapsed_togenerate must not run ahead of the work: as long as *)
(* the meta tile has no error, it is at least the number of sub-tiles that *)
(* are still to be cached or still to be counted.  When it is 1 and a      *)
(* cached sub-tile counts itself, no other one remains.                    *)
(***************************************************************************)
EXTENDS MetatilePipeline, FiniteSetTheorems, TLAPS

\* The part of TypeOK the proof needs.
Typed ==
  /\ stage \in [MetaTiles -> Stages]
  /\ sub \in [MetaTiles -> [SubTiles -> SubStages]]
  /\ elapsed \in [MetaTiles -> Int]
  /\ metaError \in [MetaTiles -> BOOLEAN]
  /\ cached \in [MetaTiles -> SUBSET SubTiles]
  /\ entry \in [MetaTiles -> {"pending", "deleted", "error"}]

\* Sub-tiles that are not cached, or not counted.
Remaining(m) ==
  (SubTiles \ cached[m]) \cup {t \in SubTiles : sub[m][t] \in {"run", "stored", "empty"}}

\* The count of a split meta tile without error is not ahead of the work.
Unsplit(m) == \A t \in SubTiles : sub[m][t] = "none"
CountFits(m) ==
  metaError[m] \/ Unsplit(m) \/ Cardinality(Remaining(m)) <= elapsed[m]

\* A sub-tile about to be counted is cached; a dropped meta tile is cached as a whole.
CountedIsCached ==
  \A m \in MetaTiles :
    /\ stage[m] = "drop" => cached[m] = SubTiles
    /\ \A t \in SubTiles : sub[m][t] \in {"stored", "empty"} => t \in cached[m]

CompleteInv ==
  /\ Typed
  /\ CountedIsCached
  /\ \A m \in MetaTiles : CountFits(m)
  /\ SuccessIsComplete

\* The cardinality of a part of what remains is a number, and not larger.
LEMMA Smaller ==
  ASSUME NEW S \in SUBSET SubTiles, NEW T \in SUBSET S
  PROVE  /\ IsFiniteSet(S) /\ Cardinality(S) \in Nat /\ Cardinality(T) \in Nat
         /\ Cardinality(T) <= Cardinality(S)
<1>1. IsFiniteSet(S)
  BY PipelineAssumption, FS_Subset
<1>2. IsFiniteSet(T) /\ Cardinality(T) <= Cardinality(S)
  BY <1>1, FS_Subset
<1> QED
  BY <1>1, <1>2, FS_CardinalityType

\* What a step that moves one sub-tile does to the others.
LEMMA GoSubEffect ==
  ASSUME Typed, NEW m \in MetaTiles, NEW t \in SubTiles, NEW l \in SubStages,
         GoSub(m, t, l)
  PROVE  /\ sub' \in [MetaTiles -> [SubTiles -> SubStages]]
         /\ sub'[m][t] = l
         /\ \A u \in SubTiles : u # t => sub'[m][u] = sub[m][u]
         /\ \A n \in MetaTiles : n # m => sub'[n] = sub[n]
BY DEF Typed, GoSub

\* A step that neither counts a sub-tile of n nor adds to what remains keeps the count.
LEMMA CountKept ==
  ASSUME Typed, NEW n \in MetaTiles, CountFits(n),
         metaError[n] => metaError'[n],
         elapsed'[n] = elapsed[n],
         Unsplit(n) => Unsplit(n)',
         Remaining(n)' \subseteq Remaining(n)
  PROVE  CountFits(n)'
<1>1. Remaining(n) \in SUBSET SubTiles
  BY DEF Remaining, Typed
<1>2. /\ Cardinality(Remaining(n)) \in Nat /\ Cardinality(Remaining(n)') \in Nat
      /\ Cardinality(Remaining(n)') <= Cardinality(Remaining(n))
  BY <1>1, Smaller
<1>3. elapsed[n] \in Int
  BY DEF Typed
<1> QED
  BY <1>2, <1>3 DEF CountFits

\* A step that leaves the sub-tiles, the count and the error of n alone keeps it too.
LEMMA CountUntouched ==
  ASSUME Typed, NEW n \in MetaTiles, CountFits(n),
         sub'[n] = sub[n], elapsed'[n] = elapsed[n], cached'[n] = cached[n],
         metaError[n] => metaError'[n]
  PROVE  CountFits(n)'
<1>1. Remaining(n)' = Remaining(n) /\ (Unsplit(n) => Unsplit(n)')
  BY DEF Remaining, Unsplit
<1> QED
  BY <1>1, CountKept

\* Every step keeps the types.
LEMMA NextTyped == Typed /\ [Next]_vars => Typed'
<1> SUFFICES ASSUME Typed, [Next]_vars PROVE Typed'
  OBVIOUS
<1> USE DEF Typed, GoStage, Stages, SubStages, pipeline, counts, ending
<1>1. ASSUME NEW m \in MetaTiles, TakeNext(m) \/ FindEmpty(m) \/ FailGet(m) PROVE Typed'
  BY ZenonT(60), <1>1 DEF TakeNext, FindEmpty, FailGet
<1>2. ASSUME NEW m \in MetaTiles, ReturnNone(m) \/ Succeed(m) \/ GiveUp(m) PROVE Typed'
  BY <1>2 DEF ReturnNone, Succeed, GiveUp
<1>3. ASSUME NEW m \in MetaTiles, Split(m) PROVE Typed'
  <2>1. Cardinality(SubTiles) \in Int
    BY PipelineAssumption, FS_CardinalityType
  <2> QED
    BY <1>3, <2>1 DEF Split
<1>4. ASSUME NEW m \in MetaTiles, DropMeta(m) PROVE Typed'
  BY <1>4 DEF DropMeta, Acknowledge
<1>5. ASSUME NEW m \in MetaTiles, Gathered(m) PROVE Typed'
  BY <1>5 DEF Gathered
<1>6. ASSUME NEW m \in MetaTiles, Fail(m) PROVE Typed'
  BY <1>6 DEF Fail, Acknowledge
<1>7. ASSUME NEW m \in MetaTiles, NEW t \in SubTiles, Cache(m, t) PROVE Typed'
  <2>1. sub' \in [MetaTiles -> [SubTiles -> SubStages]]
    BY <1>7, GoSubEffect DEF Cache
  <2> QED
    BY <1>7, <2>1 DEF Cache
<1>8. ASSUME NEW m \in MetaTiles, NEW t \in SubTiles, FailTile(m, t) \/ RaiseTooMany(m, t)
      PROVE Typed'
  <2>1. sub' \in [MetaTiles -> [SubTiles -> SubStages]]
    BY <1>8, GoSubEffect DEF FailTile, RaiseTooMany
  <2> QED
    BY <1>8, <2>1 DEF FailTile, RaiseTooMany
<1>9. ASSUME NEW m \in MetaTiles, NEW t \in SubTiles, DeleteFromStore(m, t) PROVE Typed'
  <2>1. \E l \in SubStages : GoSub(m, t, l)
    BY <1>9 DEF DeleteFromStore
  <2>2. elapsed' \in [MetaTiles -> Int]
    BY <1>9 DEF DeleteFromStore
  <2>3. entry' \in [MetaTiles -> {"pending", "deleted", "error"}]
    BY <1>9 DEF DeleteFromStore, Acknowledge
  <2>4. UNCHANGED <<stage, metaError, cached>>
    BY <1>9 DEF DeleteFromStore
  <2>5. sub' \in [MetaTiles -> [SubTiles -> SubStages]]
    BY <2>1, GoSubEffect
  <2> QED
    BY <2>2, <2>3, <2>4, <2>5
<1>10. ASSUME NEW m \in MetaTiles, NEW t \in SubTiles, Log(m, t) PROVE Typed'
  <2>1. \E l \in SubStages : GoSub(m, t, l)
    BY <1>10 DEF Log
  <2>2. sub' \in [MetaTiles -> [SubTiles -> SubStages]]
    BY <2>1, GoSubEffect
  <2>3. UNCHANGED <<stage, elapsed, metaError, cached, entry>>
    BY <1>10 DEF Log
  <2> QED
    BY <2>2, <2>3
<1>11. ASSUME NEW m \in MetaTiles, NEW t \in SubTiles, TileError(m, t) PROVE Typed'
  <2>1. \E l \in SubStages : GoSub(m, t, l)
    BY <1>11 DEF TileError
  <2>2. elapsed' \in [MetaTiles -> Int] /\ metaError' \in [MetaTiles -> BOOLEAN]
    BY <1>11 DEF TileError, CopyError
  <2>3. entry' \in [MetaTiles -> {"pending", "deleted", "error"}]
    BY <1>11 DEF TileError, Acknowledge
  <2>4. UNCHANGED <<stage, cached>>
    BY <1>11 DEF TileError
  <2>5. sub' \in [MetaTiles -> [SubTiles -> SubStages]]
    BY <2>1, GoSubEffect
  <2> QED
    BY <2>2, <2>3, <2>4, <2>5
<1>12. CASE UNCHANGED vars
  BY <1>12 DEF vars
<1> QED
  BY <1>1, <1>2, <1>3, <1>4, <1>5, <1>6, <1>7, <1>8, <1>9, <1>10, <1>11, <1>12
  DEF Next, MetaStep, SubStep

\* CompleteInv holds at the start: nothing is split, cached or deleted.
LEMMA InitComplete == Init => CompleteInv
<1> SUFFICES ASSUME Init PROVE CompleteInv
  OBVIOUS
<1>1. Typed
  BY DEF Init, Typed, Stages, SubStages
<1>2. CountedIsCached /\ SuccessIsComplete
  BY DEF Init, CountedIsCached, SuccessIsComplete
<1>3. \A m \in MetaTiles : CountFits(m)
  BY DEF Init, CountFits, Unsplit
<1> QED
  BY <1>1, <1>2, <1>3 DEF CompleteInv

\* Only what was stored, or found empty and removed, is about to be counted.
LEMMA NextCounted ==
  ASSUME Typed, CountedIsCached, [Next]_vars
  PROVE  CountedIsCached'
<1> SUFFICES ASSUME NEW n \in MetaTiles
             PROVE  /\ stage'[n] = "drop" => cached'[n] = SubTiles
                    /\ \A u \in SubTiles : sub'[n][u] \in {"stored", "empty"} => u \in cached'[n]
  BY DEF CountedIsCached
<1>0. /\ stage[n] = "drop" => cached[n] = SubTiles
      /\ \A u \in SubTiles : sub[n][u] \in {"stored", "empty"} => u \in cached[n]
  BY DEF CountedIsCached
<1> USE DEF Typed, GoStage
<1>1. ASSUME NEW m \in MetaTiles,
             TakeNext(m) \/ FailGet(m) \/ ReturnNone(m) \/ DropMeta(m) \/ Gathered(m)
               \/ Succeed(m) \/ Fail(m) \/ GiveUp(m)
      PROVE  /\ stage'[n] = "drop" => cached'[n] = SubTiles
             /\ \A u \in SubTiles : sub'[n][u] \in {"stored", "empty"} => u \in cached'[n]
  <2>1. UNCHANGED <<sub, cached>>
    BY <1>1 DEF TakeNext, FailGet, ReturnNone, DropMeta, Gathered, Succeed, Fail, GiveUp
  <2>2. stage'[n] = "drop" => stage[n] = "drop"
    BY <1>1 DEF TakeNext, FailGet, ReturnNone, DropMeta, Gathered, Succeed, Fail, GiveUp
  <2> QED
    BY <1>0, <2>1, <2>2
<1>2. ASSUME NEW m \in MetaTiles, Split(m)
      PROVE  /\ stage'[n] = "drop" => cached'[n] = SubTiles
             /\ \A u \in SubTiles : sub'[n][u] \in {"stored", "empty"} => u \in cached'[n]
  BY <1>0, <1>2 DEF Split
<1>3. ASSUME NEW m \in MetaTiles, FindEmpty(m)
      PROVE  /\ stage'[n] = "drop" => cached'[n] = SubTiles
             /\ \A u \in SubTiles : sub'[n][u] \in {"stored", "empty"} => u \in cached'[n]
  BY <1>0, <1>3 DEF FindEmpty
<1>4. ASSUME NEW m \in MetaTiles, NEW t \in SubTiles, Cache(m, t)
      PROVE  /\ stage'[n] = "drop" => cached'[n] = SubTiles
             /\ \A u \in SubTiles : sub'[n][u] \in {"stored", "empty"} => u \in cached'[n]
  <2>1. /\ stage' = stage
        /\ cached' = [cached EXCEPT ![m] = @ \cup {t}]
        /\ \E l \in SubStages : GoSub(m, t, l)
    BY <1>4 DEF Cache, SubStages
  <2>2. /\ \A u \in SubTiles : u # t => sub'[m][u] = sub[m][u]
        /\ \A k \in MetaTiles : k # m => sub'[k] = sub[k]
    BY <2>1, GoSubEffect
  <2> QED
    BY <1>0, <2>1, <2>2
<1>5. ASSUME NEW m \in MetaTiles, NEW t \in SubTiles,
             FailTile(m, t) \/ DeleteFromStore(m, t) \/ Log(m, t) \/ RaiseTooMany(m, t)
               \/ TileError(m, t)
      PROVE  /\ stage'[n] = "drop" => cached'[n] = SubTiles
             /\ \A u \in SubTiles : sub'[n][u] \in {"stored", "empty"} => u \in cached'[n]
  <2>1. /\ stage' = stage /\ cached' = cached
        /\ \E l \in {"error", "log", "done", "raised"} : GoSub(m, t, l)
    BY <1>5 DEF FailTile, DeleteFromStore, Log, RaiseTooMany, TileError
  <2>2. /\ sub'[m][t] \notin {"stored", "empty"}
        /\ \A u \in SubTiles : u # t => sub'[m][u] = sub[m][u]
        /\ \A k \in MetaTiles : k # m => sub'[k] = sub[k]
    BY <2>1, GoSubEffect DEF SubStages
  <2> QED
    BY <1>0, <2>1, <2>2
<1>6. CASE UNCHANGED vars
  BY <1>0, <1>6 DEF vars, pipeline
<1> QED
  BY <1>1, <1>2, <1>3, <1>4, <1>5, <1>6 DEF Next, MetaStep, SubStep

\* A cached sub-tile that is counted is the only thing that stops remaining.
LEMMA CountingRemoves ==
  ASSUME Typed, CountedIsCached,
         NEW m \in MetaTiles, NEW t \in SubTiles, DeleteFromStore(m, t)
  PROVE  /\ t \in Remaining(m) /\ Remaining(m)' = Remaining(m) \ {t}
         /\ \A n \in MetaTiles : n # m => sub'[n] = sub[n]
<1>1. /\ sub[m][t] \in {"stored", "empty"} /\ cached' = cached
      /\ \E l \in {"error", "log", "done"} : GoSub(m, t, l)
  BY DEF DeleteFromStore
<1>2. /\ sub'[m][t] \notin {"run", "stored", "empty"}
      /\ \A u \in SubTiles : u # t => sub'[m][u] = sub[m][u]
      /\ \A n \in MetaTiles : n # m => sub'[n] = sub[n]
  BY <1>1, GoSubEffect DEF SubStages
<1>3. t \in cached[m]
  BY <1>1 DEF CountedIsCached
<1>4. t \in Remaining(m)
  BY <1>1 DEF Remaining
<1>5. Remaining(m)' = Remaining(m) \ {t}
  BY <1>1, <1>2, <1>3 DEF Remaining
<1> QED
  BY <1>2, <1>4, <1>5

\* Every step keeps the count of every meta tile.
LEMMA NextCount ==
  ASSUME Typed, CountedIsCached, \A m \in MetaTiles : CountFits(m), [Next]_vars
  PROVE  \A m \in MetaTiles : CountFits(m)'
<1> SUFFICES ASSUME NEW n \in MetaTiles PROVE CountFits(n)'
  OBVIOUS
<1>0. CountFits(n)
  OBVIOUS
<1>1. ASSUME NEW m \in MetaTiles,
             TakeNext(m) \/ FailGet(m) \/ ReturnNone(m) \/ DropMeta(m) \/ Gathered(m)
               \/ Succeed(m) \/ Fail(m) \/ GiveUp(m)
      PROVE  CountFits(n)'
  <2>1. UNCHANGED <<sub, elapsed, cached>>
    BY <1>1 DEF TakeNext, FailGet, ReturnNone, DropMeta, Gathered, Succeed, Fail, GiveUp
  <2>2. metaError[n] => metaError'[n]
    BY <1>1 DEF TakeNext, FailGet, ReturnNone, DropMeta, Gathered, Succeed, Fail, GiveUp,
                Typed
  <2> QED
    BY <1>0, <2>1, <2>2, CountUntouched
<1>2. ASSUME NEW m \in MetaTiles, Split(m) PROVE CountFits(n)'
  <2>1. CASE n = m
    <3>1. Remaining(n)' \in SUBSET SubTiles
      BY DEF Remaining
    <3>2. Cardinality(Remaining(n)') <= Cardinality(SubTiles)
      BY <3>1, Smaller
    <3>3. elapsed'[n] = Cardinality(SubTiles)
      BY <1>2, <2>1 DEF Split, Typed
    <3> QED
      BY <3>2, <3>3 DEF CountFits, Remaining
  <2>2. CASE n # m
    <3>1. /\ sub'[n] = sub[n] /\ elapsed'[n] = elapsed[n] /\ cached'[n] = cached[n]
          /\ metaError'[n] = metaError[n]
      BY <1>2, <2>2 DEF Split, Typed
    <3> QED
      BY <1>0, <3>1, CountUntouched
  <2> QED
    BY <2>1, <2>2
<1>3. ASSUME NEW m \in MetaTiles, FindEmpty(m) PROVE CountFits(n)'
  <2>1. /\ sub' = sub /\ elapsed' = elapsed /\ metaError' = metaError
        /\ cached'[n] \in {cached[n], SubTiles}
    BY <1>3 DEF FindEmpty, Typed
  <2>2. Remaining(n)' \subseteq Remaining(n) /\ (Unsplit(n) => Unsplit(n)')
    BY <2>1 DEF Remaining, Unsplit
  <2> QED
    BY <1>0, <2>1, <2>2, CountKept
<1>4. ASSUME NEW m \in MetaTiles, NEW t \in SubTiles,
             Cache(m, t) \/ FailTile(m, t) \/ Log(m, t) \/ RaiseTooMany(m, t)
      PROVE  CountFits(n)'
  <2>1. /\ elapsed' = elapsed /\ metaError' = metaError
        /\ cached[n] \subseteq cached'[n]
        /\ sub[m][t] \in {"run", "log", "error"}
        /\ \E l \in SubStages : GoSub(m, t, l) /\ (l \in {"stored", "empty"} => sub[m][t] = "run")
                                /\ l # "run"
    BY <1>4 DEF Cache, FailTile, Log, RaiseTooMany, Typed, SubStages
  <2>2. /\ sub'[m][t] \in {"stored", "empty"} => sub[m][t] = "run"
        /\ sub'[m][t] # "run"
        /\ \A u \in SubTiles : u # t => sub'[m][u] = sub[m][u]
        /\ \A k \in MetaTiles : k # m => sub'[k] = sub[k]
    BY <2>1, GoSubEffect
  <2>3. Remaining(n)' \subseteq Remaining(n) /\ (Unsplit(n) => Unsplit(n)')
    BY <2>1, <2>2 DEF Remaining, Unsplit
  <2> QED
    BY <1>0, <2>1, <2>3, CountKept
<1>5. ASSUME NEW m \in MetaTiles, NEW t \in SubTiles, DeleteFromStore(m, t)
      PROVE  CountFits(n)'
  <2>1. /\ metaError' = metaError /\ cached' = cached
        /\ elapsed' = [elapsed EXCEPT ![m] = @ - 1]
        /\ sub[m][t] \in {"stored", "empty"}
    BY <1>5 DEF DeleteFromStore
  <2>2. CASE n = m
    <3>1. t \in Remaining(n) /\ Remaining(n)' = Remaining(n) \ {t}
      BY <1>5, <2>2, CountingRemoves
    <3>2. /\ IsFiniteSet(Remaining(n)) /\ Cardinality(Remaining(n)) \in Nat
      BY Smaller DEF Remaining
    <3>3. Cardinality(Remaining(n)') = Cardinality(Remaining(n)) - 1
      BY <3>1, <3>2, FS_RemoveElement
    <3>4. elapsed'[n] = elapsed[n] - 1 /\ elapsed[n] \in Int
      BY <2>1, <2>2 DEF Typed
    <3>5. metaError[n] \/ Cardinality(Remaining(n)) <= elapsed[n]
      BY <1>0, <2>1, <2>2 DEF CountFits, Unsplit
    <3>6. metaError'[n] = metaError[n]
      BY <2>1
    <3>7. CASE metaError[n]
      BY <3>6, <3>7 DEF CountFits
    <3>8. CASE ~metaError[n]
      <4>1. Cardinality(Remaining(n)') <= elapsed'[n]
        BY <3>2, <3>3, <3>4, <3>5, <3>8
      <4> QED
        BY <4>1 DEF CountFits
    <3> QED
      BY <3>7, <3>8
  <2>3. CASE n # m
    <3>1. sub'[n] = sub[n]
      BY <1>5, <2>3, CountingRemoves
    <3>2. elapsed'[n] = elapsed[n] /\ cached'[n] = cached[n] /\ metaError'[n] = metaError[n]
      BY <2>1, <2>3 DEF Typed
    <3> QED
      BY <1>0, <3>1, <3>2, CountUntouched
  <2> QED
    BY <2>2, <2>3
<1>6. ASSUME NEW m \in MetaTiles, NEW t \in SubTiles, TileError(m, t) PROVE CountFits(n)'
  <2>1. /\ metaError' = [metaError EXCEPT ![m] = TRUE] /\ cached' = cached
        /\ elapsed' = [elapsed EXCEPT ![m] = @ - 1]
        /\ \E l \in SubStages : GoSub(m, t, l)
    BY <1>6 DEF TileError, CopyError, SubStages
  <2>2. CASE n = m
    BY <2>1, <2>2 DEF CountFits, Typed
  <2>3. CASE n # m
    <3>1. sub'[n] = sub[n]
      BY <2>1, <2>3, GoSubEffect
    <3>2. elapsed'[n] = elapsed[n] /\ cached'[n] = cached[n] /\ metaError'[n] = metaError[n]
      BY <2>1, <2>3 DEF Typed
    <3> QED
      BY <1>0, <3>1, <3>2, CountUntouched
  <2> QED
    BY <2>2, <2>3
<1>7. CASE UNCHANGED vars
  <2>1. UNCHANGED <<sub, elapsed, cached, metaError>>
    BY <1>7 DEF vars, pipeline
  <2> QED
    BY <1>0, <2>1, CountUntouched
<1> QED
  BY <1>1, <1>2, <1>3, <1>4, <1>5, <1>6, <1>7 DEF Next, MetaStep, SubStep

\* A step deletes an entry only when nothing remains of its meta tile.
LEMMA NextSuccess == CompleteInv /\ [Next]_vars => SuccessIsComplete'
<1> SUFFICES ASSUME CompleteInv, [Next]_vars, NEW n \in MetaTiles, entry'[n] = "deleted"
             PROVE  cached'[n] = SubTiles
  BY DEF SuccessIsComplete
<1> USE DEF CompleteInv, Typed
<1>0. entry[n] = "deleted" => cached[n] = SubTiles
  BY DEF SuccessIsComplete
<1>1. ASSUME NEW m \in MetaTiles,
             TakeNext(m) \/ Split(m) \/ FailGet(m) \/ ReturnNone(m) \/ Gathered(m)
               \/ Succeed(m) \/ Fail(m) \/ GiveUp(m)
      PROVE  cached'[n] = SubTiles
  <2>1. cached' = cached /\ entry[n] = "deleted"
    BY <1>1 DEF TakeNext, Split, FailGet, ReturnNone, Gathered, Succeed, Fail, GiveUp,
                Acknowledge
  <2> QED
    BY <1>0, <2>1
<1>2. ASSUME NEW m \in MetaTiles, FindEmpty(m) PROVE cached'[n] = SubTiles
  BY <1>0, <1>2 DEF FindEmpty
<1>3. ASSUME NEW m \in MetaTiles, DropMeta(m) PROVE cached'[n] = SubTiles
  <2>1. cached' = cached /\ stage[m] = "drop" /\ (n # m => entry'[n] = entry[n])
    BY <1>3 DEF DropMeta, Acknowledge
  <2>2. cached[m] = SubTiles
    BY <2>1 DEF CountedIsCached
  <2> QED
    BY <1>0, <2>1, <2>2
<1>4. ASSUME NEW m \in MetaTiles, NEW t \in SubTiles, Cache(m, t) PROVE cached'[n] = SubTiles
  BY <1>0, <1>4 DEF Cache
<1>5. ASSUME NEW m \in MetaTiles, NEW t \in SubTiles,
             FailTile(m, t) \/ Log(m, t) \/ RaiseTooMany(m, t) \/ TileError(m, t)
      PROVE  cached'[n] = SubTiles
  <2>1. cached' = cached
    BY <1>5 DEF FailTile, Log, RaiseTooMany, TileError
  <2>2. entry[n] = "deleted"
    BY <1>5 DEF FailTile, Log, RaiseTooMany, TileError, Acknowledge
  <2> QED
    BY <1>0, <2>1, <2>2
<1>6. ASSUME NEW m \in MetaTiles, NEW t \in SubTiles, DeleteFromStore(m, t)
      PROVE  cached'[n] = SubTiles
  <2>1. cached' = cached /\ sub[m][t] \in {"stored", "empty"}
    BY <1>6 DEF DeleteFromStore
  <2>2. CASE entry[n] = "deleted"
    BY <1>0, <2>1, <2>2
  <2>3. CASE entry[n] # "deleted"
    <3>1. n = m /\ elapsed[n] = 1 /\ ~metaError[n]
      BY <1>6, <2>3 DEF DeleteFromStore, Acknowledge, IsLast, HasError
    <3>2. Cardinality(Remaining(n)) <= 1
      BY <2>1, <3>1 DEF CountFits, Unsplit
    <3>3. t \in Remaining(n) /\ t \in cached[n]
      BY <2>1, <3>1 DEF Remaining, CountedIsCached
    <3>4. Remaining(n) \in SUBSET SubTiles
      BY DEF Remaining
    <3>5. Cardinality(Remaining(n) \ {t}) = Cardinality(Remaining(n)) - 1
      BY <3>3, <3>4, Smaller, FS_RemoveElement
    <3>6. Cardinality(Remaining(n) \ {t}) = 0
      <4>1. /\ Cardinality(Remaining(n)) \in Nat
            /\ Cardinality(Remaining(n) \ {t}) \in Nat
        BY <3>4, Smaller
      <4> QED
        BY <3>2, <3>5, <4>1
    <3>7. Remaining(n) \ {t} = {}
      BY <3>4, <3>6, Smaller, FS_RemoveElement, FS_EmptySet
    <3>8. SubTiles \subseteq cached[n]
      BY <3>3, <3>7 DEF Remaining
    <3> QED
      BY <2>1, <3>8
  <2> QED
    BY <2>2, <2>3
<1>7. CASE UNCHANGED vars
  BY <1>0, <1>7 DEF vars, pipeline
<1> QED
  BY <1>1, <1>2, <1>3, <1>4, <1>5, <1>6, <1>7 DEF Next, MetaStep, SubStep

\* CompleteInv is an invariant of the pipeline, whatever fails.
THEOREM CountIsRight == Spec => []CompleteInv
<1>1. CompleteInv /\ [Next]_vars => CompleteInv'
  BY NextTyped, NextCounted, NextCount, NextSuccess DEF CompleteInv
<1> QED
  BY InitComplete, <1>1, PTL DEF Spec

\* Run.__call__ and delete_from_store: an entry is deleted only when each of its tiles is
\* in the cache, or empty and removed from it, whatever fails, in whatever order the
\* sub-tiles end.
THEOREM OnlyCompleteIsDeleted == Spec => []SuccessIsComplete
<1>1. CompleteInv => SuccessIsComplete
  BY DEF CompleteInv
<1> QED
  BY CountIsRight, <1>1, PTL

-----------------------------------------------------------------------------
(***************************************************************************)
(* Proofs about the error paths of MetatilePipeline: which failures reach  *)
(* the exit status, which entries are forgotten, and when nothing more is  *)
(* written.                                                                *)
(*                                                                         *)
(* The three properties rest on how the sub-tiles of a meta tile and its   *)
(* own Run are related (Ordered), and two of them on what the count        *)
(* elapsed_togenerate says (AllCounted, CountsDown), in two ways: a meta   *)
(* tile without error is acknowledged by the time all its sub-tiles are    *)
(* done; without a database logger and a limit of errors, the count ends   *)
(* with the last sub-tile.                                                 *)
(***************************************************************************)

\* The types of what Typed leaves out.
CountsTyped ==
  /\ options \in [daemon : BOOLEAN, logging : BOOLEAN]
  /\ inner \in 0 .. MaxErrors + 1 /\ outer \in 0 .. MaxErrors + 1
  /\ innerError \in BOOLEAN /\ geneError \in BOOLEAN
  /\ tasks \in Int /\ alive \in BOOLEAN

\* Nothing happens to a meta tile before it is split, and its sub-tiles are done after
\* it, unless it has an error.
Ordered ==
  \A m \in MetaTiles :
    /\ stage[m] \in {"waiting", "get", "drop"} => Unsplit(m) /\ ~metaError[m]
    /\ stage[m] \in {"check", "gone"} /\ ~metaError[m]
         => \A t \in SubTiles : sub[m][t] \in {"none", "done"}

\* The consecutive errors are errors that were counted, as long as the process goes on.
ErrorsAreCounted == alive /\ outer > 0 => geneError

FailureInv == Typed /\ CountsTyped /\ Ordered /\ ErrorsAreCounted /\ FailureIsCounted

\* A sub-tile that takes a step is neither before its meta tile is split nor after it
\* succeeded, and the step does not concern another one.
LEMMA SubStepEffect ==
  ASSUME Typed, NEW m \in MetaTiles, NEW t \in SubTiles, SubStep(m, t)
  PROVE  /\ sub[m][t] \in {"run", "stored", "empty", "log", "error"}
         /\ \E l \in SubStages : GoSub(m, t, l) /\ l \notin {"none", "run"}
         /\ UNCHANGED <<options, stage, outer, geneError, tasks, alive>>
         /\ \A n \in MetaTiles : metaError[n] => metaError'[n]
         /\ \A n \in MetaTiles : n # m => metaError'[n] = metaError[n]
         /\ \A n \in MetaTiles : entry[n] # "pending" => entry'[n] # "pending"
         /\ \A n \in MetaTiles : n # m => entry'[n] = entry[n] /\ elapsed'[n] = elapsed[n]
<1> USE DEF Typed, SubStages, ending
<1>1. CASE Cache(m, t)
  BY <1>1 DEF Cache, counts
<1>2. CASE FailTile(m, t)
  BY <1>2 DEF FailTile, counts
<1>3. CASE DeleteFromStore(m, t)
  BY <1>3 DEF DeleteFromStore, Acknowledge
<1>4. CASE Log(m, t)
  BY <1>4 DEF Log
<1>5. CASE RaiseTooMany(m, t)
  BY <1>5 DEF RaiseTooMany
<1>6. CASE TileError(m, t)
  BY <1>6 DEF TileError, CopyError, Acknowledge
<1> QED
  BY <1>1, <1>2, <1>3, <1>4, <1>5, <1>6 DEF SubStep

\* Every step keeps these types as well.
LEMMA NextCountsTyped == CountsTyped /\ [Next]_vars => CountsTyped'
<1> SUFFICES ASSUME CountsTyped, [Next]_vars PROVE CountsTyped'
  OBVIOUS
<1>0. OneMore(inner) \in 0 .. MaxErrors + 1 /\ OneMore(outer) \in 0 .. MaxErrors + 1
  <2> DEFINE Last == MaxErrors + 1
  <2>1. Last \in Nat /\ Last = MaxErrors + 1 /\ inner \in 0 .. Last /\ outer \in 0 .. Last
    BY PipelineAssumption DEF CountsTyped
  <2> QED
    BY <2>1, PipelineAssumption DEF OneMore
<1> USE DEF CountsTyped, counts, ending
<1>1. ASSUME NEW m \in MetaTiles, MetaStep(m) PROVE CountsTyped'
  <2>1. CASE TakeNext(m) \/ Split(m) \/ FindEmpty(m) \/ DropMeta(m) \/ FailGet(m) \/ ReturnNone(m)
    BY <2>1 DEF TakeNext, Split, FindEmpty, DropMeta, FailGet, ReturnNone
  <2>2. CASE Gathered(m) \/ Succeed(m)
    <3>1. outer' \in 0 .. MaxErrors + 1
      BY <2>2, PipelineAssumption DEF Gathered, Succeed
    <3>2. UNCHANGED <<options, inner, innerError, tasks, alive>>
      BY <2>2 DEF Gathered, Succeed
    <3>3. geneError' \in BOOLEAN
      BY <2>2, Zenon DEF Gathered, Succeed
    <3> QED
      BY <3>1, <3>2, <3>3
  <2>3. CASE Fail(m)
    <3>1. outer' \in 0 .. MaxErrors + 1
      BY <1>0, <2>3 DEF Fail
    <3>2. UNCHANGED <<options, inner, innerError, tasks>>
      BY <2>3 DEF Fail
    <3>3. geneError' \in BOOLEAN /\ alive' \in BOOLEAN
      BY <2>3 DEF Fail, CountFailure
    <3> QED
      BY <3>1, <3>2, <3>3
  <2>4. CASE GiveUp(m)
    <3>1. outer' \in 0 .. MaxErrors + 1
      BY <1>0, <2>4 DEF GiveUp
    <3>2. UNCHANGED <<options, inner, innerError, geneError, alive>>
      BY <2>4 DEF GiveUp
    <3>3. tasks' \in Int
      BY <2>4 DEF GiveUp
    <3> QED
      BY <3>1, <3>2, <3>3
  <2> QED
    BY <1>1, <2>1, <2>2, <2>3, <2>4 DEF MetaStep
<1>2. ASSUME NEW m \in MetaTiles, NEW t \in SubTiles, SubStep(m, t) PROVE CountsTyped'
  <2>1. CASE Cache(m, t) \/ FailTile(m, t) \/ DeleteFromStore(m, t) \/ Log(m, t)
    BY <2>1, PipelineAssumption DEF Cache, FailTile, DeleteFromStore, Log
  <2>2. CASE RaiseTooMany(m, t) \/ TileError(m, t)
    <3>1. inner' \in 0 .. MaxErrors + 1
      BY <1>0, <2>2 DEF RaiseTooMany, TileError
    <3>2. UNCHANGED <<options, outer, geneError, tasks, alive>>
      BY <2>2 DEF RaiseTooMany, TileError
    <3>3. innerError' \in BOOLEAN
      BY <2>2 DEF RaiseTooMany, TileError
    <3> QED
      BY <3>1, <3>2, <3>3
  <2> QED
    BY <1>2, <2>1, <2>2 DEF SubStep
<1>3. CASE UNCHANGED vars
  BY <1>3 DEF vars
<1> QED
  BY <1>1, <1>2, <1>3 DEF Next

\* Every step keeps the order of a meta tile and its sub-tiles.
LEMMA NextOrdered == Typed /\ Ordered /\ [Next]_vars => Ordered'
<1> SUFFICES ASSUME Typed, Ordered, [Next]_vars, NEW n \in MetaTiles
             PROVE  /\ stage'[n] \in {"waiting", "get", "drop"} => Unsplit(n)' /\ ~metaError'[n]
                    /\ stage'[n] \in {"check", "gone"} /\ ~metaError'[n]
                         => \A t \in SubTiles : sub'[n][t] \in {"none", "done"}
  BY DEF Ordered
<1>0. /\ stage[n] \in {"waiting", "get", "drop"} => Unsplit(n) /\ ~metaError[n]
      /\ stage[n] \in {"check", "gone"} /\ ~metaError[n]
           => \A t \in SubTiles : sub[n][t] \in {"none", "done"}
  BY DEF Ordered
<1>1. ASSUME NEW m \in MetaTiles, MetaStep(m), n # m
      PROVE  stage'[n] = stage[n] /\ sub'[n] = sub[n] /\ metaError'[n] = metaError[n]
  BY <1>1 DEF MetaStep, TakeNext, Split, FindEmpty, DropMeta, FailGet, ReturnNone, Gathered,
              Succeed, Fail, GiveUp, GoStage, Typed
<1>2. ASSUME MetaStep(n)
      PROVE  /\ stage'[n] \in {"waiting", "get", "drop"} => Unsplit(n)' /\ ~metaError'[n]
             /\ stage'[n] \in {"check", "gone"} /\ ~metaError'[n]
                  => \A t \in SubTiles : sub'[n][t] \in {"none", "done"}
  <2> USE <1>0 DEF GoStage, Typed
  <2>1. CASE TakeNext(n) \/ FindEmpty(n)
    BY <2>1 DEF TakeNext, FindEmpty, Unsplit
  <2>2. CASE Split(n)
    BY <2>2 DEF Split
  <2>3. CASE DropMeta(n) \/ FailGet(n) \/ ReturnNone(n)
    BY <2>3 DEF DropMeta, FailGet, ReturnNone, Unsplit
  <2>4. CASE Gathered(n)
    BY <2>4 DEF Gathered
  <2>5. CASE Succeed(n) \/ Fail(n) \/ GiveUp(n)
    BY <2>5 DEF Succeed, Fail, GiveUp
  <2> QED
    BY <1>2, <2>1, <2>2, <2>3, <2>4, <2>5 DEF MetaStep
<1>3. ASSUME NEW m \in MetaTiles, NEW t \in SubTiles, SubStep(m, t)
      PROVE  /\ stage'[n] \in {"waiting", "get", "drop"} => Unsplit(n)' /\ ~metaError'[n]
             /\ stage'[n] \in {"check", "gone"} /\ ~metaError'[n]
                  => \A u \in SubTiles : sub'[n][u] \in {"none", "done"}
  <2>1. /\ sub[m][t] \in {"run", "stored", "empty", "log", "error"}
        /\ stage' = stage
        /\ metaError[n] => metaError'[n]
        /\ n # m => metaError'[n] = metaError[n] /\ sub'[n] = sub[n]
    BY <1>3, SubStepEffect, GoSubEffect
  <2>2. CASE n # m
    BY <1>0, <2>1, <2>2 DEF Unsplit
  <2>3. CASE n = m
    <3>1. stage[n] = "split" \/ metaError[n]
      BY <1>0, <2>1, <2>3 DEF Typed, Stages, Unsplit
    <3>2. stage[n] \notin {"waiting", "get", "drop"}
      BY <1>0, <2>1, <2>3 DEF Unsplit
    <3> QED
      BY <2>1, <3>1, <3>2
  <2> QED
    BY <2>2, <2>3
<1>4. CASE UNCHANGED vars
  BY <1>0, <1>4 DEF vars, pipeline, Unsplit
<1> QED
  BY <1>0, <1>1, <1>2, <1>3, <1>4 DEF Next, Unsplit

\* A failure is only lost when an error came before it, which was counted.
LEMMA NextFailure ==
  FailureInv /\ [Next]_vars => ErrorsAreCounted' /\ FailureIsCounted'
<1> SUFFICES ASSUME FailureInv, [Next]_vars PROVE ErrorsAreCounted' /\ FailureIsCounted'
  OBVIOUS
<1> USE DEF FailureInv, Typed, CountsTyped, ErrorsAreCounted, FailureIsCounted, GoStage
<1>1. ASSUME NEW m \in MetaTiles, alive, MetaStep(m)
      PROVE  ErrorsAreCounted' /\ FailureIsCounted'
  <2>1. CASE TakeNext(m) \/ Split(m) \/ FindEmpty(m) \/ FailGet(m) \/ DropMeta(m)
               \/ ReturnNone(m)
    <3>1. UNCHANGED <<outer, geneError, alive>>
      BY <2>1 DEF TakeNext, Split, FindEmpty, FailGet, DropMeta, ReturnNone, counts, ending
    <3>2. ~metaError[m]
      BY <2>1 DEF Ordered, TakeNext, Split, FindEmpty, FailGet, DropMeta, ReturnNone
    <3>3. \A n \in MetaTiles :
            stage'[n] = "gone" => metaError'[n] = metaError[n] /\ (stage[n] = "gone" \/ n = m)
      BY <2>1 DEF TakeNext, Split, FindEmpty, FailGet, DropMeta, ReturnNone
    <3> QED
      BY <3>1, <3>2, <3>3
  <2>2. CASE Gathered(m)
    <3>1. UNCHANGED <<outer, alive>> /\ (geneError => geneError')
      BY <2>2 DEF Gathered, ending
    <3>2. \A n \in MetaTiles :
            stage'[n] = "gone" => metaError'[n] = metaError[n] /\ stage[n] = "gone"
      BY <2>2 DEF Gathered
    <3> QED
      BY <3>1, <3>2
  <2>3. CASE Succeed(m)
    <3>1. outer' = 0 /\ UNCHANGED <<geneError, metaError>> /\ ~metaError[m]
      BY <2>3 DEF Succeed
    <3>2. \A n \in MetaTiles : stage'[n] = "gone" => stage[n] = "gone" \/ n = m
      BY <2>3 DEF Succeed
    <3> QED
      BY <3>1, <3>2
  <2>4. CASE Fail(m)
    <3>1. geneError' \/ (~alive' /\ UNCHANGED <<stage, metaError, geneError>>)
      BY <2>4 DEF Fail, CountFailure
    <3> QED
      BY <3>1
  <2>5. CASE GiveUp(m)
    <3>1. outer > 0
      BY <2>5, PipelineAssumption DEF GiveUp, TooMany, OneMore
    <3>2. geneError
      BY <1>1, <3>1
    <3>3. geneError'
      BY <2>5, <3>2 DEF GiveUp
    <3> QED
      BY <3>3
  <2> QED
    BY <1>1, <2>1, <2>2, <2>3, <2>4, <2>5 DEF MetaStep
<1>2. ASSUME NEW m \in MetaTiles, NEW t \in SubTiles, SubStep(m, t)
      PROVE  ErrorsAreCounted' /\ FailureIsCounted'
  <2>1. /\ sub[m][t] \in {"run", "stored", "empty", "log", "error"}
        /\ UNCHANGED <<stage, outer, geneError, alive>>
        /\ \A n \in MetaTiles : n # m => metaError'[n] = metaError[n]
    BY <1>2, SubStepEffect
  <2>2. stage[m] = "gone" => metaError[m]
    BY <2>1 DEF Ordered
  <2> QED
    BY <2>1, <2>2
<1>3. CASE UNCHANGED vars
  BY <1>3 DEF vars, pipeline, counts, ending
<1> QED
  BY <1>1, <1>2, <1>3 DEF Next

\* FailureInv holds at the start: there is no error.
LEMMA InitFailure == Init => FailureInv
<1> SUFFICES ASSUME Init PROVE FailureInv
  OBVIOUS
<1>1. Typed
  BY InitComplete DEF CompleteInv
<1>2. CountsTyped
  <2>1. 0 \in 0 .. MaxErrors + 1 /\ NbTasks \in Int
    BY PipelineAssumption
  <2>2. /\ options \in [daemon : BOOLEAN, logging : BOOLEAN]
        /\ inner = 0 /\ outer = 0 /\ tasks = NbTasks
        /\ innerError \in BOOLEAN /\ geneError \in BOOLEAN /\ alive \in BOOLEAN
    BY DEF Init
  <2> QED
    BY <2>1, <2>2 DEF CountsTyped
<1>3. Ordered /\ ErrorsAreCounted /\ FailureIsCounted
  BY DEF Init, Ordered, Unsplit, ErrorsAreCounted, FailureIsCounted
<1> QED
  BY <1>1, <1>2, <1>3 DEF FailureInv

\* The errors of the two Runs are in order at every step.
THEOREM ErrorsAreInOrder == Spec => []FailureInv
<1>1. FailureInv /\ [Next]_vars => FailureInv'
  BY NextTyped, NextCountsTyped, NextOrdered, NextFailure DEF FailureInv
<1> QED
  BY InitFailure, <1>1, PTL DEF Spec

\* Run.__call__, meta_get and MaximumConsecutiveErrors: a meta tile that failed makes the
\* exit status 1, in whichever Run it failed, and also when TooManyError keeps the error
\* function from being called for it.
THEOREM NoFailureIsSilent == Spec => []FailureIsCounted
<1>1. FailureInv => FailureIsCounted
  BY DEF FailureInv
<1> QED
  BY ErrorsAreInOrder, <1>1, PTL

-----------------------------------------------------------------------------
(* The entries that are forgotten.                                         *)

\* The sub-tiles that are still to be counted.
Uncounted(m) == {t \in SubTiles : sub[m][t] \in {"run", "stored", "empty"}}

Failing(m) == \E t \in SubTiles : sub[m][t] \in {"error", "raised"}

\* While no sub-tile failed, the count is the number of those still to be counted, and the
\* last one acknowledged the entry.
CountIsExact(m) ==
  \/ Failing(m)
  \/ elapsed[m] = Cardinality(Uncounted(m)) /\ (elapsed[m] = 0 => entry[m] # "pending")

AllCounted ==
  \A m \in MetaTiles :
    /\ stage[m] = "split" /\ ~metaError[m] => CountIsExact(m)
    /\ stage[m] \in {"check", "gone"} /\ ~metaError[m] => Unsplit(m) \/ entry[m] # "pending"

ForgottenIsBounded ==
  IsFiniteSet(Forgotten) /\ Cardinality(Forgotten) <= NbTasks - tasks

ForgetInv == FailureInv /\ AllCounted /\ ForgottenIsBounded /\ NothingForgotten

\* A step that counts no sub-tile of n, and in which none of them starts, keeps the count.
LEMMA ExactKept ==
  ASSUME NEW n \in MetaTiles, CountIsExact(n),
         Failing(n) => Failing(n)',
         Uncounted(n)' = Uncounted(n), elapsed'[n] = elapsed[n],
         entry[n] # "pending" => entry'[n] # "pending"
  PROVE  CountIsExact(n)'
BY DEF CountIsExact

\* A sub-tile that is counted and acknowledges what it must keeps the count exact.
LEMMA CountingIsExact ==
  ASSUME Typed, NEW m \in MetaTiles, NEW t \in SubTiles, DeleteFromStore(m, t),
         CountIsExact(m)
  PROVE  CountIsExact(m)'
<1>1. PICK l \in {"error", "log", "done"} : GoSub(m, t, l)
  BY DEF DeleteFromStore
<1>2. /\ sub'[m][t] = l
      /\ \A u \in SubTiles : u # t => sub'[m][u] = sub[m][u]
  BY <1>1, GoSubEffect DEF SubStages
<1>3. sub[m][t] \in {"stored", "empty"}
  BY DEF DeleteFromStore
<1>4. CASE Failing(m) \/ l = "error"
  <2>1. Failing(m)'
    BY <1>2, <1>3, <1>4 DEF Failing
  <2> QED
    BY <2>1 DEF CountIsExact
<1>5. CASE ~Failing(m) /\ l # "error"
  <2>1. elapsed[m] = Cardinality(Uncounted(m))
    BY <1>5 DEF CountIsExact
  <2>2. t \in Uncounted(m) /\ Uncounted(m)' = Uncounted(m) \ {t}
    BY <1>2, <1>3, <1>5 DEF Uncounted
  <2>3. IsFiniteSet(Uncounted(m)) /\ Cardinality(Uncounted(m)) \in Nat
    BY Smaller DEF Uncounted
  <2>4. Cardinality(Uncounted(m)') = Cardinality(Uncounted(m)) - 1
    BY <2>2, <2>3, FS_RemoveElement
  <2>5. elapsed' = [elapsed EXCEPT ![m] = @ - 1]
    BY DEF DeleteFromStore
  <2>6. elapsed'[m] = elapsed[m] - 1
    BY <2>5 DEF Typed
  <2>7. elapsed'[m] = Cardinality(Uncounted(m)')
    BY <2>1, <2>4, <2>6
  <2>8. IF IsLast(m) THEN Acknowledge(m, HasError(m)) ELSE UNCHANGED <<entry, acks>>
    <3>1. ~GoSub(m, t, "error")
      BY <1>2, <1>5, GoSubEffect DEF SubStages
    <3> QED
      BY <3>1 DEF DeleteFromStore
  <2>9. ASSUME elapsed'[m] = 0 PROVE entry'[m] # "pending"
    <3>1. elapsed[m] = 1
      BY <2>1, <2>3, <2>6, <2>9
    <3> QED
      BY <2>8, <3>1 DEF IsLast, Acknowledge, Typed
  <2> QED
    BY <2>7, <2>9 DEF CountIsExact
<1> QED
  BY <1>4, <1>5

\* A meta tile that is split is counted in full, since it has a sub-tile.
LEMMA SplitIsExact ==
  ASSUME Typed, NEW m \in MetaTiles, Split(m)
  PROVE  CountIsExact(m)'
<1>1. sub'[m] = [t \in SubTiles |-> "run"] /\ elapsed'[m] = Cardinality(SubTiles)
  BY DEF Split, Typed
<1>2. Uncounted(m)' = SubTiles
  BY <1>1 DEF Uncounted
<1>3. Cardinality(SubTiles) # 0
  BY PipelineAssumption, FS_EmptySet
<1> QED
  BY <1>1, <1>2, <1>3 DEF CountIsExact

\* A meta tile without error that is gathered was acknowledged.
LEMMA GatheredIsAcknowledged ==
  ASSUME Typed, AllCounted, NEW m \in MetaTiles, Gathered(m), ~metaError'[m]
  PROVE  entry'[m] # "pending"
<1>1. /\ \A t \in SubTiles : sub[m][t] = "done"
      /\ stage[m] = "split" /\ ~metaError[m] /\ entry' = entry
  BY DEF Gathered, Typed
<1>2. CountIsExact(m)
  BY <1>1 DEF AllCounted
<1>3. ~Failing(m) /\ Uncounted(m) = {}
  BY <1>1 DEF Failing, Uncounted
<1>4. Cardinality(Uncounted(m)) = 0
  BY <1>3, FS_EmptySet
<1> QED
  BY <1>1, <1>2, <1>3, <1>4 DEF CountIsExact

\* Every step keeps the counts of the meta tiles without error.
LEMMA NextAllCounted == Typed /\ Ordered /\ AllCounted /\ [Next]_vars => AllCounted'
<1> SUFFICES ASSUME Typed, Ordered, AllCounted, [Next]_vars, NEW n \in MetaTiles
             PROVE  /\ stage'[n] = "split" /\ ~metaError'[n] => CountIsExact(n)'
                    /\ stage'[n] \in {"check", "gone"} /\ ~metaError'[n]
                         => Unsplit(n)' \/ entry'[n] # "pending"
  BY DEF AllCounted
<1> DEFINE Kept == /\ stage'[n] = "split" /\ ~metaError'[n] => CountIsExact(n)'
                   /\ stage'[n] \in {"check", "gone"} /\ ~metaError'[n]
                        => Unsplit(n)' \/ entry'[n] # "pending"
<1>0. /\ stage[n] = "split" /\ ~metaError[n] => CountIsExact(n)
      /\ stage[n] \in {"check", "gone"} /\ ~metaError[n] => Unsplit(n) \/ entry[n] # "pending"
  BY DEF AllCounted
<1>1. ASSUME UNCHANGED <<stage[n], sub[n], metaError[n], elapsed[n]>>,
             entry[n] # "pending" => entry'[n] # "pending"
      PROVE  Kept
  <2>1. /\ Failing(n)' = Failing(n) /\ Uncounted(n)' = Uncounted(n)
        /\ Unsplit(n)' = Unsplit(n)
    BY <1>1 DEF Failing, Uncounted, Unsplit
  <2>2. ASSUME stage[n] = "split", ~metaError[n] PROVE CountIsExact(n)'
    BY <1>0, <1>1, <2>1, <2>2, ExactKept
  <2> QED
    BY <1>0, <1>1, <2>1, <2>2
<1>2. ASSUME NEW m \in MetaTiles, MetaStep(m), n # m PROVE Kept
  <2>1. UNCHANGED <<stage[n], sub[n], metaError[n], elapsed[n], entry[n]>>
    BY <1>2 DEF MetaStep, TakeNext, Split, FindEmpty, DropMeta, FailGet, ReturnNone, Gathered,
                Succeed, Fail, GiveUp, GoStage, Acknowledge, Typed
  <2> QED
    BY <1>1, <2>1
<1>3. ASSUME MetaStep(n) PROVE Kept
  <2> USE DEF GoStage, Typed
  <2>1. CASE TakeNext(n) \/ FindEmpty(n) \/ FailGet(n)
    BY <2>1 DEF TakeNext, FindEmpty, FailGet
  <2>2. CASE Split(n)
    <3>1. stage'[n] = "split"
      BY <2>2 DEF Split
    <3> QED
      BY <2>2, <3>1, SplitIsExact
  <2>3. CASE DropMeta(n) \/ ReturnNone(n)
    <3>1. Unsplit(n) /\ sub' = sub /\ stage'[n] \in {"check", "gone"}
      BY <2>3 DEF Ordered, DropMeta, ReturnNone
    <3> QED
      BY <3>1 DEF Unsplit
  <2>4. CASE Gathered(n)
    <3>1. stage'[n] = "check"
      BY <2>4 DEF Gathered
    <3> QED
      BY <2>4, <3>1, GatheredIsAcknowledged
  <2>5. CASE Succeed(n) \/ Fail(n) \/ GiveUp(n)
    <3>1. /\ stage[n] = "check" /\ stage'[n] \in {"check", "gone"}
          /\ sub' = sub /\ metaError' = metaError
          /\ entry[n] # "pending" => entry'[n] # "pending"
      BY <2>5 DEF Succeed, Fail, GiveUp, Acknowledge
    <3> QED
      BY <1>0, <3>1 DEF Unsplit
  <2> QED
    BY <1>3, <2>1, <2>2, <2>3, <2>4, <2>5 DEF MetaStep
<1>4. ASSUME NEW m \in MetaTiles, NEW t \in SubTiles, SubStep(m, t) PROVE Kept
  <2>1. /\ sub[m][t] \in {"run", "stored", "empty", "log", "error"}
        /\ stage' = stage
        /\ metaError[n] => metaError'[n]
        /\ entry[n] # "pending" => entry'[n] # "pending"
        /\ n # m => UNCHANGED <<sub[n], metaError[n], elapsed[n]>>
    BY <1>4, SubStepEffect, GoSubEffect
  <2>2. CASE n # m
    BY <1>1, <2>1, <2>2
  <2>3. CASE n = m
    <3>1. stage[n] = "split" \/ metaError[n]
      BY <2>1, <2>3 DEF Ordered, Typed, Stages, Unsplit
    <3>2. stage[n] # "split" => metaError'[n]
      BY <2>1, <3>1
    <3>3. ASSUME stage[n] = "split", ~metaError'[n] PROVE CountIsExact(n)'
      <4>1. CountIsExact(n)
        BY <1>0, <2>1, <3>3
      <4>2. CASE DeleteFromStore(n, t)
        BY <4>1, <4>2, CountingIsExact
      <4>3. CASE Cache(n, t)
        <5>1. elapsed' = elapsed /\ entry' = entry /\ sub[n][t] = "run"
          BY <4>3 DEF Cache
        <5>2. PICK l \in {"stored", "empty"} : GoSub(n, t, l)
          BY <4>3 DEF Cache
        <5>3. sub'[n][t] = l /\ \A u \in SubTiles : u # t => sub'[n][u] = sub[n][u]
          BY <5>2, GoSubEffect DEF SubStages
        <5>4. Uncounted(n)' = Uncounted(n) /\ (Failing(n) => Failing(n)')
          BY <5>1, <5>2, <5>3 DEF Uncounted, Failing
        <5> QED
          BY <4>1, <5>1, <5>4, ExactKept
      <4>4. CASE FailTile(n, t) \/ RaiseTooMany(n, t)
        <5>1. PICK l \in {"error", "raised"} : GoSub(n, t, l)
          BY <4>4 DEF FailTile, RaiseTooMany
        <5>2. Failing(n)'
          BY <5>1, GoSubEffect DEF SubStages, Failing
        <5> QED
          BY <5>2 DEF CountIsExact
      <4>5. CASE Log(n, t)
        <5>1. elapsed' = elapsed /\ entry' = entry /\ sub[n][t] = "log"
          BY <4>5 DEF Log
        <5>2. PICK l \in {"done", "error"} : GoSub(n, t, l)
          BY <4>5 DEF Log
        <5>3. sub'[n][t] = l /\ \A u \in SubTiles : u # t => sub'[n][u] = sub[n][u]
          BY <5>2, GoSubEffect DEF SubStages
        <5>4. Uncounted(n)' = Uncounted(n) /\ (Failing(n) => Failing(n)')
          BY <5>1, <5>2, <5>3 DEF Uncounted, Failing
        <5> QED
          BY <4>1, <5>1, <5>4, ExactKept
      <4>6. CASE TileError(n, t)
        <5>1. metaError'[n]
          BY <4>6 DEF TileError, CopyError, Typed
        <5> QED
          BY <3>3, <5>1
      <4> QED
        BY <1>4, <2>3, <4>2, <4>3, <4>4, <4>5, <4>6 DEF SubStep
    <3> QED
      BY <2>1, <3>2, <3>3
  <2> QED
    BY <2>2, <2>3
<1>5. CASE UNCHANGED vars
  <2>1. UNCHANGED <<stage, sub, metaError, elapsed, entry>>
    BY <1>5 DEF vars, pipeline
  <2> QED
    BY <1>1, <2>1
<1> QED
  BY <1>2, <1>3, <1>4, <1>5 DEF Next

\* Only a task that ends forgets an entry.
LEMMA NextForgotten ==
  ASSUME Typed, Ordered, AllCounted, NEW m \in MetaTiles, MetaStep(m), ~GiveUp(m)
  PROVE  Forgotten' \subseteq Forgotten /\ tasks' = tasks
<1> USE DEF Forgotten, GoStage, Typed, ending
<1>1. CASE TakeNext(m) \/ Split(m) \/ FindEmpty(m) \/ FailGet(m)
  BY <1>1 DEF TakeNext, Split, FindEmpty, FailGet
<1>2. CASE DropMeta(m) \/ ReturnNone(m)
  <2>1. /\ Unsplit(m) /\ ~metaError[m] /\ UNCHANGED <<sub, tasks>>
        /\ \A n \in MetaTiles : n # m =>
             /\ stage'[n] = stage[n] /\ entry'[n] = entry[n] /\ metaError'[n] = metaError[n]
        /\ stage'[m] = "gone" => metaError'[m] = metaError[m]
    BY <1>2 DEF DropMeta, ReturnNone, Ordered, Acknowledge
  <2>2. m \notin Forgotten'
    BY <2>1 DEF Unsplit
  <2> QED
    BY <2>1, <2>2
<1>3. CASE Gathered(m)
  BY <1>3 DEF Gathered
<1>4. CASE Succeed(m)
  <2>1. /\ stage[m] = "check" /\ ~metaError[m]
        /\ UNCHANGED <<sub, entry, metaError, tasks>>
        /\ \A n \in MetaTiles : n # m => stage'[n] = stage[n]
    BY <1>4 DEF Succeed
  <2>2. Unsplit(m) \/ entry[m] # "pending"
    BY <2>1 DEF AllCounted
  <2>3. m \notin Forgotten'
    BY <2>1, <2>2 DEF Unsplit
  <2> QED
    BY <2>1, <2>3
<1>5. CASE Fail(m)
  <2>1. /\ UNCHANGED <<sub, metaError, tasks>>
        /\ \A n \in MetaTiles : n # m => stage'[n] = stage[n] /\ entry'[n] = entry[n]
        /\ stage'[m] = "gone" => entry'[m] # "pending"
    BY <1>5 DEF Fail, Acknowledge
  <2> QED
    BY <2>1
<1> QED
  BY <1>1, <1>2, <1>3, <1>4, <1>5 DEF MetaStep

\* A set has one element more at most, with an element.
LEMMA OneMoreElement ==
  ASSUME NEW S, IsFiniteSet(S), NEW x
  PROVE  /\ IsFiniteSet(S \cup {x}) /\ Cardinality(S \cup {x}) \in Nat
         /\ Cardinality(S \cup {x}) <= Cardinality(S) + 1
<1>1. Cardinality(S) \in Nat
  BY FS_CardinalityType
<1>2. CASE x \in S
  <2>1. S \cup {x} = S
    BY <1>2
  <2>2. Cardinality(S) <= Cardinality(S) + 1
    BY <1>1
  <2> QED
    BY <1>1, <2>1, <2>2
<1>3. CASE x \notin S
  <2>1. IsFiniteSet(S \cup {x}) /\ Cardinality(S \cup {x}) = Cardinality(S) + 1
    BY <1>3, FS_AddElement
  <2> QED
    BY <1>1, <2>1
<1> QED
  BY <1>2, <1>3

\* One entry is forgotten for a task that ends.
LEMMA GiveUpForgets ==
  ASSUME Typed, CountsTyped, ForgottenIsBounded, NEW m \in MetaTiles, GiveUp(m)
  PROVE  ForgottenIsBounded' /\ ~options.daemon
<1>1. /\ Forgotten' \subseteq Forgotten \cup {m}
      /\ tasks' = tasks - 1
  BY DEF GiveUp, Forgotten, GoStage, Typed
<1>2. IsFiniteSet(Forgotten) /\ Cardinality(Forgotten) \in Nat
  BY FS_CardinalityType DEF ForgottenIsBounded
<1>3. /\ IsFiniteSet(Forgotten \cup {m})
      /\ Cardinality(Forgotten \cup {m}) \in Nat
      /\ Cardinality(Forgotten \cup {m}) <= Cardinality(Forgotten) + 1
  BY <1>2, OneMoreElement
<1>4. /\ IsFiniteSet(Forgotten') /\ Cardinality(Forgotten') \in Nat
      /\ Cardinality(Forgotten') <= Cardinality(Forgotten \cup {m})
  BY <1>1, <1>3, FS_Subset, FS_CardinalityType
<1>5. Cardinality(Forgotten) <= NbTasks - tasks /\ NbTasks \in Int /\ tasks \in Int
  BY PipelineAssumption DEF ForgottenIsBounded, CountsTyped
<1>6. Cardinality(Forgotten') <= NbTasks - tasks'
  BY <1>1, <1>2, <1>3, <1>4, <1>5
<1>7. ~options.daemon
  BY PipelineAssumption DEF GiveUp, TooMany, OneMore
<1> QED
  BY <1>4, <1>6, <1>7 DEF ForgottenIsBounded

\* Every step keeps the bound on the entries that are forgotten.
LEMMA NextBounded == ForgetInv /\ [Next]_vars => ForgottenIsBounded' /\ NothingForgotten'
<1> SUFFICES ASSUME ForgetInv, [Next]_vars PROVE ForgottenIsBounded' /\ NothingForgotten'
  OBVIOUS
<1>0. /\ Typed /\ CountsTyped /\ Ordered /\ AllCounted /\ ForgottenIsBounded
      /\ options.daemon => tasks = NbTasks
  BY DEF ForgetInv, FailureInv, NothingForgotten
<1>1. options' = options
  <2>1. ASSUME NEW m \in MetaTiles, MetaStep(m) PROVE options' = options
    BY <2>1 DEF MetaStep, TakeNext, Split, FindEmpty, DropMeta, FailGet, ReturnNone, Gathered,
                Succeed, Fail, GiveUp
  <2>2. ASSUME NEW m \in MetaTiles, NEW t \in SubTiles, SubStep(m, t) PROVE options' = options
    BY <1>0, <2>2, SubStepEffect
  <2> QED
    BY <2>1, <2>2 DEF Next, vars
<1>2. ASSUME Forgotten' \subseteq Forgotten, tasks' = tasks
      PROVE  ForgottenIsBounded' /\ NothingForgotten'
  <2>1. /\ IsFiniteSet(Forgotten) /\ Cardinality(Forgotten) <= NbTasks - tasks
        /\ Cardinality(Forgotten) \in Nat
    BY <1>0, FS_CardinalityType DEF ForgottenIsBounded
  <2>2. /\ IsFiniteSet(Forgotten') /\ Cardinality(Forgotten') <= Cardinality(Forgotten)
        /\ Cardinality(Forgotten') \in Nat
    BY <1>2, <2>1, FS_Subset, FS_CardinalityType
  <2>3. NbTasks \in Int /\ tasks \in Int
    BY <1>0, PipelineAssumption DEF CountsTyped
  <2>4. Cardinality(Forgotten') <= NbTasks - tasks'
    BY <1>2, <2>1, <2>2, <2>3
  <2> QED
    BY <1>0, <1>1, <1>2, <2>2, <2>4 DEF ForgottenIsBounded, NothingForgotten
<1>3. ASSUME NEW m \in MetaTiles, MetaStep(m) PROVE ForgottenIsBounded' /\ NothingForgotten'
  <2>1. CASE GiveUp(m)
    <3>1. ForgottenIsBounded' /\ ~options.daemon
      BY <1>0, <2>1, GiveUpForgets
    <3> QED
      BY <1>1, <3>1 DEF ForgottenIsBounded, NothingForgotten
  <2>2. CASE ~GiveUp(m)
    BY <1>0, <1>2, <1>3, <2>2, NextForgotten
  <2> QED
    BY <2>1, <2>2
<1>4. ASSUME NEW m \in MetaTiles, NEW t \in SubTiles, SubStep(m, t)
      PROVE  ForgottenIsBounded' /\ NothingForgotten'
  <2>1. /\ sub[m][t] \in {"run", "stored", "empty", "log", "error"}
        /\ UNCHANGED <<stage, tasks>>
        /\ \A n \in MetaTiles : entry[n] # "pending" => entry'[n] # "pending"
        /\ \A n \in MetaTiles : n # m => UNCHANGED <<sub[n], metaError[n]>>
    BY <1>0, <1>4, SubStepEffect, GoSubEffect
  <2>2. Forgotten' \subseteq Forgotten
    BY <2>1 DEF Forgotten
  <2> QED
    BY <1>2, <2>1, <2>2
<1>5. CASE UNCHANGED vars
  <2>1. Forgotten' = Forgotten /\ tasks' = tasks
    BY <1>5 DEF vars, pipeline, ending, Forgotten
  <2> QED
    BY <1>2, <2>1
<1> QED
  BY <1>3, <1>4, <1>5 DEF Next

\* ForgetInv holds at the start: nothing is gone.
LEMMA InitForget == Init => ForgetInv
<1> SUFFICES ASSUME Init PROVE ForgetInv
  OBVIOUS
<1>1. AllCounted
  BY DEF Init, AllCounted
<1>2. Forgotten = {}
  BY DEF Init, Forgotten
<1>3. ForgottenIsBounded /\ NothingForgotten
  <2>1. tasks = NbTasks /\ NbTasks \in Nat
    BY PipelineAssumption DEF Init
  <2>2. IsFiniteSet(Forgotten) /\ Cardinality(Forgotten) = 0
    BY <1>2, FS_EmptySet
  <2> QED
    BY <2>1, <2>2 DEF ForgottenIsBounded, NothingForgotten
<1> QED
  BY InitFailure, <1>1, <1>3 DEF ForgetInv

\* MaximumConsecutiveErrors, Run.__call__ and consume: however many meta tiles and tasks
\* there are and whatever fails, a task forgets an entry only as it ends, and one at most;
\* in daemon mode none is forgotten.
THEOREM ATaskForgetsOne == Spec => []NothingForgotten
<1>1. ForgetInv /\ [Next]_vars => ForgetInv'
  BY NextTyped, NextCountsTyped, NextOrdered, NextFailure, NextAllCounted, NextBounded
  DEF ForgetInv, FailureInv
<1>2. ForgetInv => NothingForgotten
  BY DEF ForgetInv
<1> QED
  BY InitForget, <1>1, <1>2, PTL DEF Spec

-----------------------------------------------------------------------------
(* When nothing more is written.                                           *)

\* The sub-tiles whose end is still to be counted, as stored or as failed.
Busy(m) == {t \in SubTiles : sub[m][t] \in {"run", "stored", "empty", "error"}}

NothingToStore(m) == \A t \in SubTiles : sub[m][t] \notin {"run", "stored", "empty"}

\* In daemon mode and without a database logger, each sub-tile is counted once, so that
\* the count ends with the last one.
CountsDown(m) ==
  /\ \A t \in SubTiles : sub[m][t] # "log"
  /\ stage[m] \in {"waiting", "get", "drop"} => entry[m] = "pending"
  /\ Unsplit(m) \/ Cardinality(Busy(m)) <= elapsed[m] \/ NothingToStore(m)
  /\ \/ stage[m] \in {"check", "gone"} \/ entry[m] # "pending"
     \/ \E t \in SubTiles : sub[m][t] = "raised"
     => NothingToStore(m)

QuietInv ==
  /\ Typed /\ CountsTyped /\ Ordered
  /\ options.daemon /\ ~options.logging => \A m \in MetaTiles : CountsDown(m)

\* The configuration does not change.
LEMMA OptionsStay == Typed /\ [Next]_vars => options' = options
<1>1. ASSUME NEW m \in MetaTiles, MetaStep(m) PROVE options' = options
  BY <1>1 DEF MetaStep, TakeNext, Split, FindEmpty, DropMeta, FailGet, ReturnNone, Gathered,
              Succeed, Fail, GiveUp
<1>2. ASSUME Typed, NEW m \in MetaTiles, NEW t \in SubTiles, SubStep(m, t)
      PROVE  options' = options
  BY <1>2, SubStepEffect
<1> QED
  BY <1>1, <1>2 DEF Next, vars

\* A sub-tile whose end is counted is not busy any more; when it was the last one, there
\* is nothing left to store.
LEMMA CountOne ==
  ASSUME Typed, NEW m \in MetaTiles, NEW t \in Busy(m), NEW l \in SubStages \ {"none"},
         GoSub(m, t, l), elapsed' = [elapsed EXCEPT ![m] = @ - 1],
         l \in {"done", "raised"} \/ (l = "error" /\ elapsed[m] = 1),
         Unsplit(m) \/ Cardinality(Busy(m)) <= elapsed[m] \/ NothingToStore(m)
  PROVE  /\ Unsplit(m)' \/ Cardinality(Busy(m)') <= elapsed'[m] \/ NothingToStore(m)'
         /\ elapsed[m] = 1 => NothingToStore(m)'
<1>1. /\ sub'[m][t] = l
      /\ \A u \in SubTiles : u # t => sub'[m][u] = sub[m][u]
  BY GoSubEffect DEF Busy
<1>2. elapsed[m] \in Int /\ elapsed'[m] = elapsed[m] - 1
  BY DEF Typed
<1>3. /\ IsFiniteSet(Busy(m)) /\ Cardinality(Busy(m)) \in Nat
      /\ IsFiniteSet(Busy(m) \ {t}) /\ Cardinality(Busy(m) \ {t}) = Cardinality(Busy(m)) - 1
      /\ Cardinality(Busy(m) \ {t}) \in Nat
  <2>1. Busy(m) \in SUBSET SubTiles
    BY DEF Busy
  <2>2. IsFiniteSet(Busy(m)) /\ Cardinality(Busy(m)) \in Nat
    BY <2>1, Smaller
  <2>3. /\ IsFiniteSet(Busy(m) \ {t})
        /\ Cardinality(Busy(m) \ {t}) = Cardinality(Busy(m)) - 1
    BY <2>2, FS_RemoveElement
  <2> QED
    BY <2>2, <2>3, FS_CardinalityType
<1>4. CASE NothingToStore(m)
  BY <1>1, <1>4 DEF NothingToStore
<1>5. CASE ~NothingToStore(m)
  <2>1. Cardinality(Busy(m)) <= elapsed[m]
    BY <1>5 DEF NothingToStore, Unsplit
  <2>2. ASSUME elapsed[m] = 1 PROVE NothingToStore(m)'
    <3>1. Cardinality(Busy(m) \ {t}) = 0
      BY <1>3, <2>1, <2>2
    <3>2. Busy(m) \ {t} = {}
      BY <1>3, <3>1, FS_EmptySet
    <3> QED
      BY <1>1, <3>2 DEF Busy, NothingToStore
  <2>3. CASE l = "error"
    BY <2>2, <2>3
  <2>4. CASE l # "error"
    <3>1. Busy(m)' = Busy(m) \ {t}
      BY <1>1, <2>4 DEF Busy
    <3>2. Cardinality(Busy(m)') <= elapsed'[m]
      BY <1>2, <1>3, <2>1, <3>1
    <3> QED
      BY <2>2, <3>2
  <2> QED
    BY <2>3, <2>4
<1> QED
  BY <1>4, <1>5

\* A step that concerns neither the sub-tiles of n nor its count keeps CountsDown.
LEMMA CountsDownKept ==
  ASSUME NEW n \in MetaTiles, CountsDown(n),
         sub'[n] = sub[n], elapsed'[n] = elapsed[n], entry'[n] = entry[n],
         stage'[n] \in {"waiting", "get", "drop"} => stage[n] \in {"waiting", "get", "drop"},
         stage'[n] \in {"check", "gone"} => stage[n] \in {"check", "gone"} \/ NothingToStore(n)
  PROVE  CountsDown(n)'
<1>1. /\ Busy(n)' = Busy(n) /\ Unsplit(n)' = Unsplit(n)
      /\ NothingToStore(n)' = NothingToStore(n)
  BY DEF Busy, Unsplit, NothingToStore
<1> QED
  BY <1>1 DEF CountsDown

\* Every step of the Run of the meta tiles keeps CountsDown.
LEMMA MetaCountsDown ==
  ASSUME Typed, Ordered, NEW n \in MetaTiles, CountsDown(n), NEW m \in MetaTiles, MetaStep(m)
  PROVE  CountsDown(n)'
<1> USE DEF GoStage, Typed
<1>1. CASE n # m
  <2>1. UNCHANGED <<stage[n], sub[n], elapsed[n], entry[n]>>
    BY <1>1 DEF MetaStep, TakeNext, Split, FindEmpty, DropMeta, FailGet, ReturnNone, Gathered,
                Succeed, Fail, GiveUp, Acknowledge
  <2> QED
    BY <2>1, CountsDownKept
<1>2. CASE n = m
  <2>1. CASE TakeNext(n) \/ FindEmpty(n) \/ FailGet(n) \/ ReturnNone(n)
    <3>1. /\ UNCHANGED <<sub, elapsed, entry>>
          /\ stage[n] \in {"waiting", "get", "drop"}
      BY <2>1 DEF TakeNext, FindEmpty, FailGet, ReturnNone
    <3>2. NothingToStore(n)
      BY <3>1 DEF Ordered, Unsplit, NothingToStore
    <3> QED
      BY <3>1, <3>2, CountsDownKept
  <2>2. CASE Split(n)
    <3>1. /\ sub'[n] = [t \in SubTiles |-> "run"] /\ elapsed'[n] = Cardinality(SubTiles)
          /\ stage'[n] = "split" /\ stage[n] = "get" /\ entry' = entry
      BY <2>2 DEF Split
    <3>2. entry'[n] = "pending"
      BY <3>1 DEF CountsDown
    <3>3. Busy(n)' = SubTiles
      BY <3>1 DEF Busy
    <3>4. Cardinality(SubTiles) \in Nat
      BY PipelineAssumption, FS_CardinalityType
    <3>5. Cardinality(Busy(n)') <= elapsed'[n]
      BY <3>1, <3>3, <3>4
    <3> QED
      BY <3>1, <3>2, <3>5 DEF CountsDown
  <2>3. CASE DropMeta(n)
    <3>1. Unsplit(n) /\ sub' = sub /\ stage'[n] \in {"check", "gone"}
      BY <2>3 DEF DropMeta, Ordered
    <3>2. Unsplit(n)' /\ NothingToStore(n)'
      BY <3>1 DEF Unsplit, NothingToStore
    <3> QED
      BY <3>1, <3>2 DEF CountsDown
  <2>4. CASE Gathered(n)
    <3>1. UNCHANGED <<sub, elapsed, entry>> /\ stage'[n] = "check"
      BY <2>4 DEF Gathered
    <3>2. NothingToStore(n)
      <4>1. \/ \A t \in SubTiles : sub[n][t] = "done"
            \/ \E t \in SubTiles : sub[n][t] = "raised"
        BY <2>4 DEF Gathered
      <4> QED
        BY <4>1 DEF CountsDown, NothingToStore
    <3> QED
      BY <3>1, <3>2, CountsDownKept
  <2>5. CASE Succeed(n) \/ Fail(n) \/ GiveUp(n)
    <3>1. /\ UNCHANGED <<sub, elapsed>>
          /\ stage[n] = "check" /\ stage'[n] \in {"check", "gone"}
      BY <2>5 DEF Succeed, Fail, GiveUp
    <3>2. NothingToStore(n)' /\ \A t \in SubTiles : sub'[n][t] # "log"
      BY <3>1 DEF CountsDown, NothingToStore
    <3> QED
      BY <3>1, <3>2 DEF CountsDown
  <2> QED
    BY <1>2, <2>1, <2>2, <2>3, <2>4, <2>5 DEF MetaStep
<1> QED
  BY <1>1, <1>2

\* So does every step of a sub-tile, in daemon mode and without a database logger.
LEMMA SubCountsDown ==
  ASSUME Typed, CountsTyped, Ordered, options.daemon, ~options.logging,
         NEW n \in MetaTiles, CountsDown(n),
         NEW m \in MetaTiles, NEW t \in SubTiles, SubStep(m, t)
  PROVE  CountsDown(n)'
<1>0. /\ stage' = stage
      /\ sub[m][t] \in {"run", "stored", "empty", "log", "error"}
      /\ n # m => UNCHANGED <<sub[n], entry[n], elapsed[n]>>
  BY SubStepEffect, GoSubEffect
<1>1. CASE n # m
  BY <1>0, <1>1, CountsDownKept
<1>2. CASE n = m
  <2>0. /\ stage[n] \notin {"waiting", "get", "drop"}
        /\ sub[n][t] \in {"run", "stored", "empty", "error"}
        /\ Unsplit(n) \/ Cardinality(Busy(n)) <= elapsed[n] \/ NothingToStore(n)
    BY <1>0, <1>2 DEF Ordered, Unsplit, CountsDown
  <2>1. CASE Cache(n, t) \/ FailTile(n, t)
    <3>1. /\ UNCHANGED <<elapsed, entry>> /\ sub[n][t] = "run"
          /\ \E l \in {"stored", "empty", "error"} : GoSub(n, t, l)
      BY <2>1 DEF Cache, FailTile
    <3>2. /\ sub'[n][t] \in {"stored", "empty", "error"}
          /\ \A u \in SubTiles : u # t => sub'[n][u] = sub[n][u]
      BY <3>1, GoSubEffect DEF SubStages
    <3>3. Busy(n)' = Busy(n) /\ ~NothingToStore(n) /\ ~Unsplit(n)
      BY <3>1, <3>2 DEF Busy, NothingToStore, Unsplit
    <3>4. Cardinality(Busy(n)') <= elapsed'[n]
      BY <2>0, <3>1, <3>3
    <3>5. /\ stage'[n] \notin {"check", "gone"} /\ entry'[n] = "pending"
          /\ \A u \in SubTiles : sub'[n][u] \notin {"raised", "log"}
      BY <1>0, <3>1, <3>2, <3>3 DEF CountsDown
    <3> QED
      BY <1>0, <2>0, <3>4, <3>5 DEF CountsDown
  <2>2. CASE DeleteFromStore(n, t) \/ TileError(n, t)
    <3>1. elapsed' = [elapsed EXCEPT ![n] = @ - 1]
      BY <2>2 DEF DeleteFromStore, TileError
    <3>2. PICK l \in SubStages \ {"none"} :
            /\ GoSub(n, t, l)
            /\ l \in {"done", "raised"} \/ (l = "error" /\ elapsed[n] = 1)
            /\ l = "raised" => elapsed[n] = 1
      <4>1. CASE DeleteFromStore(n, t)
        <5>1. (IF sub[n][t] = "stored" /\ options.logging THEN "log" ELSE "done") = "done"
          OBVIOUS
        <5>2. GoSub(n, t, "done") \/ (GoSub(n, t, "error") /\ elapsed[n] = 1)
          BY <4>1, <5>1 DEF DeleteFromStore, IsLast
        <5> QED
          BY <5>2 DEF SubStages
      <4>2. CASE TileError(n, t)
        <5>1. GoSub(n, t, "done") \/ (GoSub(n, t, "raised") /\ elapsed[n] = 1)
          BY <4>2 DEF TileError, IsLast
        <5> QED
          BY <5>1 DEF SubStages
      <4> QED
        BY <2>2, <4>1, <4>2
    <3>3. entry'[n] = entry[n] \/ elapsed[n] = 1
      BY <2>2 DEF DeleteFromStore, TileError, IsLast
    <3>4. t \in Busy(n)
      BY <2>0 DEF Busy
    <3>5. /\ Unsplit(n)' \/ Cardinality(Busy(n)') <= elapsed'[n] \/ NothingToStore(n)'
          /\ elapsed[n] = 1 => NothingToStore(n)'
      BY <2>0, <3>1, <3>2, <3>4, CountOne
    <3>6. /\ sub'[n][t] = l
          /\ \A u \in SubTiles : u # t => sub'[n][u] = sub[n][u]
      BY <3>2, GoSubEffect
    <3>7. NothingToStore(n) => NothingToStore(n)'
      BY <3>2, <3>6 DEF NothingToStore
    <3>8. \/ stage'[n] \in {"check", "gone"} \/ entry'[n] # "pending"
          \/ \E u \in SubTiles : sub'[n][u] = "raised"
          => NothingToStore(n)'
      BY <1>0, <3>2, <3>3, <3>5, <3>6, <3>7 DEF CountsDown
    <3>9. \A u \in SubTiles : sub'[n][u] # "log"
      BY <3>2, <3>6 DEF CountsDown
    <3> QED
      BY <1>0, <2>0, <3>5, <3>8, <3>9 DEF CountsDown
  <2>3. ~Log(n, t)
    BY <2>0 DEF Log
  <2>4. ~RaiseTooMany(n, t)
    BY PipelineAssumption DEF RaiseTooMany, TooMany, OneMore
  <2> QED
    BY <1>2, <2>1, <2>2, <2>3, <2>4 DEF SubStep
<1> QED
  BY <1>1, <1>2

\* Run.__call__, delete_from_store and Logger: in daemon mode and without a database
\* logger, nothing is stored for a meta tile once its entry was acknowledged, whatever
\* fails.
THEOREM NothingIsStoredAfterAck == Spec => []QuietAfterAck
<1>1. Init => QuietInv
  <2> SUFFICES ASSUME Init PROVE QuietInv
    OBVIOUS
  <2>1. Typed /\ CountsTyped /\ Ordered
    BY InitFailure DEF FailureInv
  <2>2. \A m \in MetaTiles : CountsDown(m)
    BY DEF Init, CountsDown, Unsplit
  <2> QED
    BY <2>1, <2>2 DEF QuietInv
<1>2. QuietInv /\ [Next]_vars => QuietInv'
  <2> SUFFICES ASSUME QuietInv, [Next]_vars PROVE QuietInv'
    OBVIOUS
  <2>1. /\ Typed /\ CountsTyped /\ Ordered
        /\ options.daemon /\ ~options.logging => \A m \in MetaTiles : CountsDown(m)
    BY DEF QuietInv
  <2>2. Typed' /\ CountsTyped' /\ Ordered' /\ options' = options
    BY <2>1, NextTyped, NextCountsTyped, NextOrdered, OptionsStay
  <2>3. ASSUME options.daemon, ~options.logging, NEW n \in MetaTiles PROVE CountsDown(n)'
    <3>1. CountsDown(n)
      BY <2>1, <2>3
    <3>2. CASE UNCHANGED vars
      <4>1. UNCHANGED <<stage, sub, elapsed, entry>>
        BY <3>2 DEF vars, pipeline
      <4> QED
        BY <3>1, <4>1, CountsDownKept
    <3> QED
      BY <2>1, <2>3, <3>1, <3>2, MetaCountsDown, SubCountsDown DEF Next
  <2> QED
    BY <2>2, <2>3 DEF QuietInv
<1>3. QuietInv => QuietAfterAck
  BY DEF QuietInv, QuietAfterAck, CountsDown, NothingToStore
<1> QED
  BY <1>1, <1>2, <1>3, PTL DEF Spec

-----------------------------------------------------------------------------
(***************************************************************************)
(* Proof that MetatilePipeline is of the right type (an entry is           *)
(* acknowledged twice at most, and the number of tasks is never negative)  *)
(* and that it implements MetaTileWork: every step is a step of the work   *)
(* on one meta tile, or none.                                              *)
(***************************************************************************)

\* The sub-tiles acknowledge the entry once, when the count comes to 0, and the Run of the
\* meta tiles does once, at its end.
AckBound(m) ==
  /\ acks[m] \in Nat
  /\ Unsplit(m) \/ elapsed[m] >= 1 => acks[m] <= (IF stage[m] = "gone" THEN 1 ELSE 0)
  /\ acks[m] <= (IF stage[m] = "gone" THEN 2 ELSE 1)
  /\ entry[m] = "pending" <=> acks[m] = 0

\* Nothing is in the cache of a meta tile that was not looked at.
FreshIsEmpty == \A m \in MetaTiles : stage[m] \in {"waiting", "get"} => cached[m] = {}

\* Each task has one meta tile at most.
TasksAreEnough == IsFiniteSet(Active) /\ Cardinality(Active) <= tasks /\ tasks <= NbTasks

WorkInv ==
  /\ acks \in [MetaTiles -> Nat]
  /\ Typed /\ CountsTyped /\ Ordered /\ FreshIsEmpty /\ TasksAreEnough
  /\ \A m \in MetaTiles : AckBound(m)

\* An acknowledgement keeps the bound of the meta tile, when it is the first of its kind.
LEMMA AcknowledgeOnce ==
  ASSUME Typed, acks \in [MetaTiles -> Nat], NEW m \in MetaTiles, NEW failed \in BOOLEAN,
         Acknowledge(m, failed)
  PROVE  /\ acks' \in [MetaTiles -> Nat]
         /\ acks'[m] = acks[m] + 1 /\ entry'[m] # "pending"
         /\ \A n \in MetaTiles : n # m => acks'[n] = acks[n] /\ entry'[n] = entry[n]
<1>1. /\ acks' \in [MetaTiles -> Nat] /\ acks'[m] = acks[m] + 1
      /\ \A n \in MetaTiles : n # m => acks'[n] = acks[n]
  BY DEF Acknowledge
<1>2. /\ entry'[m] # "pending"
      /\ \A n \in MetaTiles : n # m => entry'[n] = entry[n]
  BY DEF Acknowledge, Typed
<1> QED
  BY <1>1, <1>2

\* Every step keeps the numbers of acknowledgements.
LEMMA NextAcks ==
  ASSUME Typed, Ordered, acks \in [MetaTiles -> Nat], \A m \in MetaTiles : AckBound(m),
         [Next]_vars
  PROVE  acks' \in [MetaTiles -> Nat] /\ \A m \in MetaTiles : AckBound(m)'
<1> DEFINE Kept(n) ==
      /\ UNCHANGED <<acks[n], entry[n], sub[n], elapsed[n]>>
      /\ (stage[n] = "gone" => stage'[n] = "gone")
<1>0. ASSUME NEW n \in MetaTiles, Kept(n) PROVE AckBound(n)'
  <2>1. Unsplit(n)' = Unsplit(n) /\ AckBound(n)
    BY <1>0 DEF Unsplit
  <2> QED
    BY <1>0, <2>1 DEF AckBound
<1>1. ASSUME NEW m \in MetaTiles, MetaStep(m)
      PROVE  acks' \in [MetaTiles -> Nat] /\ \A n \in MetaTiles : AckBound(n)'
  <2>1. CASE TakeNext(m) \/ FindEmpty(m) \/ FailGet(m) \/ ReturnNone(m) \/ Gathered(m)
               \/ Succeed(m) \/ GiveUp(m)
    <3>1. acks' = acks /\ \A n \in MetaTiles : Kept(n)
      BY <2>1 DEF TakeNext, FindEmpty, FailGet, ReturnNone, Gathered, Succeed, GiveUp, GoStage,
                  Typed
    <3> QED
      BY <1>0, <3>1
  <2>2. CASE Split(m)
    <3>1. /\ acks' = acks /\ entry' = entry /\ stage[m] = "get" /\ stage'[m] = "split"
          /\ \A n \in MetaTiles : n # m => Kept(n)
      BY <2>2 DEF Split, GoStage, Typed
    <3>2. Unsplit(m)
      BY <3>1 DEF Ordered
    <3>3. AckBound(m)'
      BY <3>1, <3>2 DEF AckBound
    <3> QED
      BY <1>0, <3>1, <3>3
  <2>3. CASE UNCHANGED <<stage, acks, entry, sub, elapsed>>
    BY <1>0, <2>3
  <2>4. ASSUME NEW failed \in BOOLEAN, Acknowledge(m, failed), GoStage(m, "gone"),
               UNCHANGED <<sub, elapsed>>, stage[m] # "gone"
        PROVE  acks' \in [MetaTiles -> Nat] /\ \A n \in MetaTiles : AckBound(n)'
    <3>1. /\ acks' \in [MetaTiles -> Nat]
          /\ acks'[m] = acks[m] + 1 /\ entry'[m] # "pending"
          /\ \A n \in MetaTiles : n # m => acks'[n] = acks[n] /\ entry'[n] = entry[n]
      BY <2>4, AcknowledgeOnce
    <3>2. \A n \in MetaTiles : n # m => Kept(n)
      BY <2>4, <3>1 DEF GoStage, Typed
    <3>3. stage'[m] = "gone" /\ Unsplit(m)' = Unsplit(m) /\ AckBound(m)
      BY <2>4 DEF GoStage, Typed, Unsplit
    <3>4. AckBound(m)'
      BY <2>4, <3>1, <3>3 DEF AckBound
    <3> QED
      BY <1>0, <3>1, <3>2, <3>4
  <2>5. CASE DropMeta(m)
    <3>1. CASE Acknowledge(m, FALSE) /\ GoStage(m, "gone")
      <4>1. UNCHANGED <<sub, elapsed>> /\ stage[m] # "gone"
        BY <2>5 DEF DropMeta
      <4> QED
        BY <2>4, <3>1, <4>1
    <3>2. CASE GoStage(m, "check") /\ UNCHANGED <<entry, acks>>
      <4>1. acks' = acks /\ \A n \in MetaTiles : Kept(n)
        BY <2>5, <3>2 DEF DropMeta, GoStage, Typed
      <4> QED
        BY <1>0, <4>1
    <3> QED
      BY <2>5, <3>1, <3>2 DEF DropMeta
  <2>6. CASE Fail(m)
    <3>1. CASE Acknowledge(m, TRUE) /\ GoStage(m, "gone")
      <4>1. UNCHANGED <<sub, elapsed>> /\ stage[m] # "gone"
        BY <2>6 DEF Fail
      <4> QED
        BY <2>4, <3>1, <4>1
    <3>2. CASE UNCHANGED <<stage, entry, acks>>
      <4>1. UNCHANGED <<sub, elapsed>>
        BY <2>6 DEF Fail
      <4> QED
        BY <2>3, <3>2, <4>1
    <3> QED
      BY <2>6, <3>1, <3>2 DEF Fail
  <2> QED
    BY <1>1, <2>1, <2>2, <2>5, <2>6 DEF MetaStep
<1>2. ASSUME NEW m \in MetaTiles, NEW t \in SubTiles, SubStep(m, t)
      PROVE  acks' \in [MetaTiles -> Nat] /\ \A n \in MetaTiles : AckBound(n)'
  <2>1. /\ stage' = stage /\ ~Unsplit(m) /\ ~Unsplit(m)'
        /\ \A n \in MetaTiles : n # m => UNCHANGED <<sub[n], entry[n], elapsed[n]>>
    BY <1>2, SubStepEffect, GoSubEffect DEF Unsplit
  <2>2. CASE UNCHANGED <<entry, acks>> /\ elapsed'[m] <= elapsed[m]
    <3>1. \A n \in MetaTiles : n # m => Kept(n)
      BY <2>1, <2>2
    <3>2. AckBound(m)'
      <4>1. elapsed[m] \in Int /\ elapsed'[m] \in Int /\ AckBound(m)
        BY <1>2, NextTyped DEF Typed
      <4> QED
        BY <2>1, <2>2, <4>1 DEF AckBound
    <3> QED
      BY <1>0, <2>2, <3>1, <3>2
  <2>3. ASSUME NEW failed \in BOOLEAN, Acknowledge(m, failed), elapsed[m] = 1, elapsed'[m] = 0
        PROVE  acks' \in [MetaTiles -> Nat] /\ \A n \in MetaTiles : AckBound(n)'
    <3>1. /\ acks' \in [MetaTiles -> Nat]
          /\ acks'[m] = acks[m] + 1 /\ entry'[m] # "pending"
          /\ \A n \in MetaTiles : n # m => acks'[n] = acks[n] /\ entry'[n] = entry[n]
      BY <2>3, AcknowledgeOnce
    <3>2. \A n \in MetaTiles : n # m => Kept(n)
      BY <2>1, <3>1
    <3>3. AckBound(m)'
      BY <2>1, <2>3, <3>1 DEF AckBound
    <3> QED
      BY <1>0, <3>1, <3>2, <3>3
  <2>4. CASE Cache(m, t) \/ FailTile(m, t) \/ Log(m, t) \/ RaiseTooMany(m, t)
    <3>1. UNCHANGED <<entry, acks, elapsed>>
      BY <2>4 DEF Cache, FailTile, Log, RaiseTooMany
    <3>2. elapsed'[m] <= elapsed[m]
      BY <3>1 DEF Typed
    <3> QED
      BY <2>2, <3>1, <3>2
  <2>5. CASE DeleteFromStore(m, t) \/ TileError(m, t)
    <3>1. elapsed'[m] = elapsed[m] - 1 /\ elapsed[m] \in Int
      BY <2>5 DEF DeleteFromStore, TileError, Typed
    <3>2. \/ UNCHANGED <<entry, acks>>
          \/ elapsed[m] = 1 /\ \E failed \in BOOLEAN : Acknowledge(m, failed)
      BY <2>5 DEF DeleteFromStore, TileError, IsLast, HasError, Typed
    <3> QED
      BY <2>2, <2>3, <3>1, <3>2
  <2> QED
    BY <1>2, <2>4, <2>5 DEF SubStep
<1>3. CASE UNCHANGED vars
  <2>1. acks' = acks /\ \A n \in MetaTiles : Kept(n)
    BY <1>3 DEF vars, pipeline
  <2> QED
    BY <1>0, <2>1
<1> QED
  BY <1>1, <1>2, <1>3 DEF Next

\* Every step keeps the cache of the meta tiles that were not looked at empty.
LEMMA NextFresh == Typed /\ Ordered /\ FreshIsEmpty /\ [Next]_vars => FreshIsEmpty'
<1> SUFFICES ASSUME Typed, Ordered, FreshIsEmpty, [Next]_vars, NEW n \in MetaTiles,
                    stage'[n] \in {"waiting", "get"}
             PROVE  cached'[n] = {}
  BY DEF FreshIsEmpty
<1> USE DEF Typed, GoStage, FreshIsEmpty
<1>1. ASSUME NEW m \in MetaTiles, MetaStep(m) PROVE cached'[n] = {}
  <2>1. CASE FindEmpty(m)
    BY <2>1 DEF FindEmpty
  <2>2. CASE TakeNext(m) \/ Split(m) \/ DropMeta(m) \/ FailGet(m) \/ ReturnNone(m)
               \/ Gathered(m) \/ Succeed(m) \/ Fail(m) \/ GiveUp(m)
    <3>1. cached' = cached /\ stage[n] \in {"waiting", "get"}
      BY <2>2 DEF TakeNext, Split, DropMeta, FailGet, ReturnNone, Gathered, Succeed, Fail, GiveUp
    <3> QED
      BY <3>1
  <2> QED
    BY <1>1, <2>1, <2>2 DEF MetaStep
<1>2. ASSUME NEW m \in MetaTiles, NEW t \in SubTiles, SubStep(m, t) PROVE cached'[n] = {}
  <2>1. stage' = stage /\ sub[m][t] # "none"
    BY <1>2, SubStepEffect
  <2>2. n # m
    BY <2>1 DEF Ordered, Unsplit
  <2>3. cached'[n] = cached[n]
    BY <1>2, <2>2 DEF SubStep, Cache, FailTile, DeleteFromStore, Log, RaiseTooMany, TileError
  <2> QED
    BY <2>1, <2>3
<1>3. CASE UNCHANGED vars
  BY <1>3 DEF vars, pipeline
<1> QED
  BY <1>1, <1>2, <1>3 DEF Next

\* Every step keeps at least as many tasks as there are meta tiles under way.
LEMMA NextTasks == Typed /\ CountsTyped /\ TasksAreEnough /\ [Next]_vars => TasksAreEnough'
<1> SUFFICES ASSUME Typed, CountsTyped, TasksAreEnough, [Next]_vars PROVE TasksAreEnough'
  OBVIOUS
<1>0. /\ IsFiniteSet(Active) /\ Cardinality(Active) \in Nat /\ Cardinality(Active) <= tasks
      /\ tasks <= NbTasks /\ tasks \in Int /\ NbTasks \in Int
  BY PipelineAssumption, FS_CardinalityType DEF TasksAreEnough, CountsTyped
<1>1. ASSUME Active' \subseteq Active, tasks' = tasks PROVE TasksAreEnough'
  <2>1. /\ IsFiniteSet(Active') /\ Cardinality(Active') <= Cardinality(Active)
        /\ Cardinality(Active') \in Nat
    BY <1>0, <1>1, FS_Subset, FS_CardinalityType
  <2> QED
    BY <1>0, <1>1, <2>1 DEF TasksAreEnough
<1>2. ASSUME NEW m \in MetaTiles, TakeNext(m) PROVE TasksAreEnough'
  <2>1. /\ Active' = Active \cup {m} /\ tasks' = tasks /\ Cardinality(Active) < tasks
    BY <1>2 DEF TakeNext, Active, GoStage, Typed, ending
  <2>2. /\ IsFiniteSet(Active \cup {m}) /\ Cardinality(Active \cup {m}) \in Nat
        /\ Cardinality(Active \cup {m}) <= Cardinality(Active) + 1
    BY <1>0, OneMoreElement
  <2>3. Cardinality(Active') <= tasks'
    BY <1>0, <2>1, <2>2
  <2> QED
    BY <1>0, <2>1, <2>2, <2>3 DEF TasksAreEnough
<1>3. ASSUME NEW m \in MetaTiles, GiveUp(m) PROVE TasksAreEnough'
  <2>1. m \in Active /\ Active' = Active \ {m} /\ tasks' = tasks - 1
    BY <1>3 DEF GiveUp, Active, GoStage, Typed
  <2>2. /\ IsFiniteSet(Active \ {m})
        /\ Cardinality(Active \ {m}) = Cardinality(Active) - 1
    BY <1>0, <2>1, FS_RemoveElement
  <2>3. Cardinality(Active') <= tasks' /\ tasks' <= NbTasks
    BY <1>0, <2>1, <2>2
  <2> QED
    BY <2>1, <2>2, <2>3 DEF TasksAreEnough
<1>4. ASSUME NEW m \in MetaTiles, MetaStep(m), ~TakeNext(m), ~GiveUp(m) PROVE TasksAreEnough'
  <2>1. tasks' = tasks
    BY <1>4 DEF MetaStep, Split, FindEmpty, DropMeta, FailGet, ReturnNone, Gathered, Succeed,
                Fail, ending
  <2>2. Active' \subseteq Active
    BY <1>4 DEF MetaStep, Split, FindEmpty, DropMeta, FailGet, ReturnNone, Gathered, Succeed,
                Fail, Active, GoStage, Typed
  <2> QED
    BY <1>1, <2>1, <2>2
<1>5. ASSUME NEW m \in MetaTiles, NEW t \in SubTiles, SubStep(m, t) PROVE TasksAreEnough'
  <2>1. stage' = stage /\ tasks' = tasks
    BY <1>5, SubStepEffect
  <2> QED
    BY <1>1, <2>1 DEF Active
<1>6. CASE UNCHANGED vars
  BY <1>1, <1>6 DEF vars, pipeline, ending, Active
<1> QED
  BY <1>2, <1>3, <1>4, <1>5, <1>6 DEF Next

\* WorkInv holds at the start: nothing was taken or acknowledged.
LEMMA InitWork == Init => WorkInv
<1> SUFFICES ASSUME Init PROVE WorkInv
  OBVIOUS
<1>1. Typed /\ CountsTyped /\ Ordered
  BY InitFailure DEF FailureInv
<1>2. acks \in [MetaTiles -> Nat] /\ \A m \in MetaTiles : AckBound(m)
  BY DEF Init, AckBound
<1>3. FreshIsEmpty
  BY DEF Init, FreshIsEmpty
<1>4. TasksAreEnough
  <2>1. Active = {} /\ tasks = NbTasks /\ NbTasks \in Nat
    BY PipelineAssumption DEF Init, Active
  <2> QED
    BY <2>1, FS_EmptySet DEF TasksAreEnough
<1> QED
  BY <1>1, <1>2, <1>3, <1>4 DEF WorkInv

\* Every step keeps WorkInv.
LEMMA NextWork == WorkInv /\ [Next]_vars => WorkInv'
<1> SUFFICES ASSUME WorkInv, [Next]_vars PROVE WorkInv'
  OBVIOUS
<1>1. Typed' /\ CountsTyped' /\ Ordered'
  BY NextTyped, NextCountsTyped, NextOrdered DEF WorkInv
<1>2. FreshIsEmpty' /\ TasksAreEnough'
  BY NextFresh, NextTasks DEF WorkInv
<1>3. acks' \in [MetaTiles -> Nat] /\ \A m \in MetaTiles : AckBound(m)'
  BY NextAcks DEF WorkInv
<1> QED
  BY <1>1, <1>2, <1>3 DEF WorkInv

\* Every variable has its type: an entry is acknowledged twice at most, the errors are
\* counted up to their limit, and the tasks that end are tasks that were started.
THEOREM PipelineTypeCorrect == Spec => []TypeOK
<1>1. WorkInv => TypeOK
  <2> SUFFICES ASSUME WorkInv PROVE TypeOK
    OBVIOUS
  <2>1. acks \in [MetaTiles -> 0 .. 2]
    <3>1. \A m \in MetaTiles : acks[m] \in 0 .. 2
      BY DEF WorkInv, AckBound
    <3> QED
      BY <3>1 DEF WorkInv
  <2>2. tasks \in 0 .. NbTasks
    <3>1. Cardinality(Active) \in Nat
      BY FS_CardinalityType DEF WorkInv, TasksAreEnough
    <3> QED
      BY <3>1, PipelineAssumption DEF WorkInv, TasksAreEnough, CountsTyped
  <2> QED
    BY <2>1, <2>2 DEF WorkInv, Typed, CountsTyped, TypeOK
<1> QED
  BY InitWork, NextWork, <1>1, PTL DEF Spec

-----------------------------------------------------------------------------
(* The refinement.                                                         *)

\* What may happen to the work on a meta tile: nothing, or an action of MetaTileWork.
WorkMoves(m) ==
  \/ UNCHANGED <<atBar[m], entry[m], acksBar[m]>>
  \/ atBar[m] = "queued" /\ atBar'[m] = "busy" /\ UNCHANGED <<entry[m], acksBar[m]>>
  \/ atBar[m] = "busy" /\ atBar'[m] = "saved" /\ UNCHANGED <<entry[m], acksBar[m]>>
  \/ /\ atBar[m] = "saved" /\ acksBar[m] = 0
     /\ atBar'[m] = "gone" /\ entry'[m] = "deleted" /\ acksBar'[m] = 1
  \/ /\ atBar[m] \in {"busy", "saved"} /\ acksBar[m] = 0
     /\ atBar'[m] \in {"again", "gone"} /\ entry'[m] = "error" /\ acksBar'[m] = 1
  \/ /\ atBar[m] = "again" /\ acksBar[m] = 1
     /\ atBar'[m] = "gone" /\ acksBar'[m] = 2 /\ UNCHANGED entry[m]
  \/ /\ atBar[m] \in {"busy", "saved", "again"}
     /\ atBar'[m] = "gone" /\ UNCHANGED <<entry[m], acksBar[m]>>

\* A function that differs from another one at one place only.
LEMMA OneChanged ==
  ASSUME NEW S, NEW f, NEW g, f = [x \in S |-> f[x]], g = [x \in S |-> g[x]], NEW m \in S,
         \A n \in S : n # m => g[n] = f[n]
  PROVE  g = [f EXCEPT ![m] = g[m]]
OBVIOUS

\* A step that only moves the work on one meta tile is a step of MetaTileWork, or none.
LEMMA MoveIsStep ==
  ASSUME NEW m \in MetaTiles, WorkMoves(m),
         entry \in [MetaTiles -> {"pending", "deleted", "error"}],
         entry' \in [MetaTiles -> {"pending", "deleted", "error"}],
         \A n \in MetaTiles : n # m => UNCHANGED <<atBar[n], entry[n], acksBar[n]>>
  PROVE  [Work!WorkNext]_(Work!work)
<1>1. /\ atBar' = [atBar EXCEPT ![m] = atBar'[m]]
      /\ acksBar' = [acksBar EXCEPT ![m] = acksBar'[m]]
  <2>1. /\ atBar = [n \in MetaTiles |-> atBar[n]] /\ atBar' = [n \in MetaTiles |-> atBar'[n]]
        /\ acksBar = [n \in MetaTiles |-> acksBar[n]]
        /\ acksBar' = [n \in MetaTiles |-> acksBar'[n]]
    BY Zenon DEF atBar, acksBar
  <2> QED
    BY <2>1, OneChanged
<1>2. entry' = [entry EXCEPT ![m] = entry'[m]]
  OBVIOUS
<1>3. \A l : atBar'[m] = l => Work!Become(m, l)
  BY <1>1 DEF Work!Become
<1>4. ASSUME UNCHANGED <<entry[m], acksBar[m]>> PROVE UNCHANGED <<entry, acksBar>>
  BY <1>1, <1>2, <1>4 DEF acksBar
<1>5. CASE UNCHANGED <<atBar[m], entry[m], acksBar[m]>>
  <2>1. UNCHANGED <<atBar, entry, acksBar>>
    BY <1>1, <1>4, <1>5 DEF atBar
  <2> QED
    BY <2>1 DEF Work!work
<1>6. CASE atBar[m] = "queued" /\ atBar'[m] = "busy" /\ UNCHANGED <<entry[m], acksBar[m]>>
  <2>1. Work!WorkTake(m)
    BY <1>3, <1>4, <1>6 DEF Work!WorkTake
  <2> QED
    BY <2>1 DEF Work!WorkNext
<1>7. CASE atBar[m] = "busy" /\ atBar'[m] = "saved" /\ UNCHANGED <<entry[m], acksBar[m]>>
  <2>1. Work!WorkSave(m)
    BY <1>3, <1>4, <1>7 DEF Work!WorkSave
  <2> QED
    BY <2>1 DEF Work!WorkNext
<1>8. CASE /\ atBar[m] = "saved" /\ acksBar[m] = 0
           /\ atBar'[m] = "gone" /\ entry'[m] = "deleted" /\ acksBar'[m] = 1
  <2>1. Work!WorkDelete(m)
    BY <1>1, <1>2, <1>3, <1>8 DEF Work!WorkDelete
  <2> QED
    BY <2>1 DEF Work!WorkNext
<1>9. CASE /\ atBar[m] \in {"busy", "saved"} /\ acksBar[m] = 0
           /\ atBar'[m] \in {"again", "gone"} /\ entry'[m] = "error" /\ acksBar'[m] = 1
  <2>1. Work!WorkFail(m)
    BY <1>1, <1>2, <1>3, <1>9 DEF Work!WorkFail
  <2> QED
    BY <2>1 DEF Work!WorkNext
<1>10. CASE /\ atBar[m] = "again" /\ acksBar[m] = 1
            /\ atBar'[m] = "gone" /\ acksBar'[m] = 2 /\ UNCHANGED entry[m]
  <2>1. UNCHANGED entry
    BY <1>2, <1>10
  <2>2. Work!WorkFailAgain(m)
    BY <1>1, <1>3, <1>10, <2>1 DEF Work!WorkFailAgain
  <2> QED
    BY <2>2 DEF Work!WorkNext
<1>11. CASE /\ atBar[m] \in {"busy", "saved", "again"}
            /\ atBar'[m] = "gone" /\ UNCHANGED <<entry[m], acksBar[m]>>
  <2>1. Work!WorkAbandon(m)
    BY <1>3, <1>4, <1>11 DEF Work!WorkAbandon
  <2> QED
    BY <2>1 DEF Work!WorkNext
<1> QED
  BY <1>5, <1>6, <1>7, <1>8, <1>9, <1>10, <1>11 DEF WorkMoves

\* What the mapping gives for a meta tile.
LEMMA Mapped ==
  ASSUME NEW m \in MetaTiles
  PROVE  /\ acksBar[m] = IF entry[m] = "deleted" THEN 1 ELSE acks[m]
         /\ atBar[m] = IF stage[m] = "waiting" THEN "queued"
                       ELSE IF Left(m) THEN "gone"
                       ELSE IF entry[m] = "error" THEN "again"
                       ELSE IF cached[m] = SubTiles THEN "saved"
                       ELSE "busy"
BY DEF atBar, acksBar

\* So does it for the next state.
LEMMA MappedNext ==
  ASSUME NEW m \in MetaTiles
  PROVE  /\ acksBar'[m] = IF entry'[m] = "deleted" THEN 1 ELSE acks'[m]
         /\ atBar'[m] = IF stage'[m] = "waiting" THEN "queued"
                        ELSE IF Left(m)' THEN "gone"
                        ELSE IF entry'[m] = "error" THEN "again"
                        ELSE IF cached'[m] = SubTiles THEN "saved"
                        ELSE "busy"
BY DEF atBar, acksBar

\* A meta tile that a step does not concern is mapped to the same work.
LEMMA OthersStay ==
  ASSUME NEW n \in MetaTiles,
         UNCHANGED <<stage[n], sub[n], elapsed[n], cached[n], entry[n], acks[n]>>
  PROVE  UNCHANGED <<atBar[n], entry[n], acksBar[n]>>
<1>1. Left(n)' = Left(n)
  BY DEF Left, CanAcknowledge, Unfinished
<1> QED
  BY <1>1, Mapped, MappedNext

\* A step that neither acknowledges the entry of m nor caches a sub-tile leaves the work
\* as it is, or gives it up.
LEMMA QuietMoves ==
  ASSUME NEW m \in MetaTiles, stage[m] # "waiting", stage'[m] # "waiting",
         UNCHANGED <<entry[m], acks[m], cached[m]>>,
         ~CanAcknowledge(m) => ~CanAcknowledge(m)'
  PROVE  WorkMoves(m)
<1>1. Left(m) => Left(m)'
  BY DEF Left
<1>2. CASE Left(m)' /\ ~Left(m)
  <2>1. atBar[m] \in {"busy", "saved", "again"} /\ atBar'[m] = "gone" /\ UNCHANGED acksBar[m]
    BY <1>2, Mapped, MappedNext
  <2> QED
    BY <2>1 DEF WorkMoves
<1>3. CASE Left(m)' = Left(m)
  <2>1. UNCHANGED <<atBar[m], acksBar[m]>>
    BY <1>3, Mapped, MappedNext
  <2> QED
    BY <2>1 DEF WorkMoves
<1> QED
  BY <1>1, <1>2, <1>3 DEF Left

\* An acknowledgement that can find the entry is a WorkDelete, a WorkFail or a
\* WorkFailAgain.
LEMMA AckMoves ==
  ASSUME WorkInv, SuccessIsComplete', NEW m \in MetaTiles, NEW failed \in BOOLEAN,
         Acknowledge(m, failed), CanAcknowledge(m), acks[m] <= 1,
         stage[m] # "waiting", stage'[m] # "waiting", cached'[m] = cached[m]
  PROVE  WorkMoves(m)
<1>1. /\ acks[m] \in Nat /\ acks'[m] = acks[m] + 1
      /\ entry[m] = "pending" <=> acks[m] = 0
      /\ entry[m] \in {"pending", "deleted", "error"}
  BY AcknowledgeOnce DEF WorkInv, AckBound, Typed
<1>2. entry'[m] = IF entry[m] # "pending" THEN entry[m] ELSE IF failed THEN "error" ELSE "deleted"
  BY DEF Acknowledge, WorkInv, Typed
<1>3. ~Left(m) \/ entry[m] = "deleted"
  BY <1>1 DEF Left
<1>4. CASE entry[m] = "deleted"
  <2>1. UNCHANGED <<atBar[m], entry[m], acksBar[m]>>
    BY <1>2, <1>4, Mapped, MappedNext DEF Left
  <2> QED
    BY <2>1 DEF WorkMoves
<1>5. CASE entry[m] = "error"
  <2>1. acks[m] = 1 /\ acks'[m] = 2 /\ entry'[m] = "error"
    BY <1>1, <1>2, <1>5
  <2>2. ~Left(m) /\ Left(m)'
    BY <1>3, <1>5, <2>1 DEF Left
  <2>3. /\ atBar[m] = "again" /\ acksBar[m] = 1
        /\ atBar'[m] = "gone" /\ acksBar'[m] = 2
    BY <1>5, <2>1, <2>2, Mapped, MappedNext
  <2> QED
    BY <1>5, <2>1, <2>3 DEF WorkMoves
<1>6. CASE entry[m] = "pending"
  <2>1. /\ acks[m] = 0 /\ acks'[m] = 1 /\ ~Left(m)
    BY <1>1, <1>3, <1>6
  <2>2. atBar[m] \in {"busy", "saved"} /\ acksBar[m] = 0
    BY <1>6, <2>1, Mapped
  <2>3. CASE failed
    <3>1. entry'[m] = "error"
      BY <1>2, <1>6, <2>3
    <3>2. atBar'[m] \in {"again", "gone"} /\ acksBar'[m] = 1
      BY <2>1, <3>1, MappedNext
    <3> QED
      BY <2>2, <3>1, <3>2 DEF WorkMoves
  <2>4. CASE ~failed
    <3>1. entry'[m] = "deleted"
      BY <1>2, <1>6, <2>4
    <3>2. cached[m] = SubTiles
      BY <3>1 DEF SuccessIsComplete
    <3>3. atBar[m] = "saved"
      BY <1>6, <2>1, <3>2, Mapped
    <3>4. Left(m)'
      BY <3>1 DEF Left
    <3>5. atBar'[m] = "gone" /\ acksBar'[m] = 1
      BY <3>1, <3>4, MappedNext
    <3> QED
      BY <2>2, <3>1, <3>3, <3>5 DEF WorkMoves
  <2> QED
    BY <2>3, <2>4
<1> QED
  BY <1>1, <1>4, <1>5, <1>6

\* A meta tile that is not split yet has its entry, and was not acknowledged.
LEMMA BeforeSplit ==
  ASSUME WorkInv, NEW m \in MetaTiles, stage[m] \in {"waiting", "get", "drop"}
  PROVE  acks[m] = 0 /\ entry[m] = "pending" /\ (stage[m] # "waiting" => ~Left(m))
<1>1. Unsplit(m) /\ stage[m] # "gone" /\ acks[m] \in Nat
  BY DEF WorkInv, Ordered, AckBound
<1>2. acks[m] = 0 /\ entry[m] = "pending"
  BY <1>1 DEF WorkInv, AckBound
<1> QED
  BY <1>1, <1>2 DEF Left, CanAcknowledge

\* A step of the Run of the meta tiles moves the work on its meta tile.
LEMMA MetaStepMoves ==
  ASSUME WorkInv, SuccessIsComplete', NEW m \in MetaTiles, MetaStep(m)
  PROVE  WorkMoves(m)
<1> USE DEF GoStage
<1>0. stage \in [MetaTiles -> Stages] /\ acks \in [MetaTiles -> Nat] /\ SubTiles # {}
  BY PipelineAssumption DEF WorkInv, Typed
<1>1. CASE TakeNext(m)
  <2>1. stage[m] = "waiting" /\ stage'[m] = "get" /\ UNCHANGED <<entry, acks, cached>>
    BY <1>0, <1>1 DEF TakeNext
  <2>2. acks[m] = 0 /\ entry[m] = "pending" /\ cached[m] = {}
    BY <2>1, BeforeSplit DEF WorkInv, FreshIsEmpty
  <2>3. ~Left(m)'
    BY <2>1, <2>2 DEF Left, CanAcknowledge
  <2>4. atBar[m] = "queued" /\ atBar'[m] = "busy" /\ UNCHANGED acksBar[m]
    BY <1>0, <2>1, <2>2, <2>3, Mapped, MappedNext
  <2> QED
    BY <2>1, <2>4 DEF WorkMoves
<1>2. CASE FindEmpty(m)
  <2>1. /\ stage[m] = "get" /\ stage'[m] = "drop" /\ cached'[m] = SubTiles
        /\ UNCHANGED <<entry, acks>>
    BY <1>0, <1>2 DEF FindEmpty, WorkInv, Typed
  <2>2. acks[m] = 0 /\ entry[m] = "pending" /\ cached[m] = {} /\ ~Left(m)
    BY <2>1, BeforeSplit DEF WorkInv, FreshIsEmpty
  <2>3. ~Left(m)'
    BY <2>1, <2>2 DEF Left, CanAcknowledge
  <2>4. atBar[m] = "busy" /\ atBar'[m] = "saved" /\ UNCHANGED acksBar[m]
    BY <1>0, <2>1, <2>2, <2>3, Mapped, MappedNext
  <2> QED
    BY <2>1, <2>4 DEF WorkMoves
<1>3. CASE Split(m) \/ FailGet(m) \/ Gathered(m) \/ ReturnNone(m) \/ Succeed(m) \/ GiveUp(m)
  <2>1. /\ stage[m] \notin {"waiting", "gone"} /\ stage'[m] # "waiting"
        /\ UNCHANGED <<entry, acks, cached>>
    BY <1>0, <1>3 DEF Split, FailGet, Gathered, ReturnNone, Succeed, GiveUp
  <2>2. CanAcknowledge(m)
    BY <2>1 DEF CanAcknowledge
  <2> QED
    BY <2>1, <2>2, QuietMoves
<1>4. CASE DropMeta(m) \/ Fail(m)
  <2>1. /\ stage[m] \notin {"waiting", "gone"} /\ cached' = cached
        /\ \/ UNCHANGED <<entry, acks>> /\ stage'[m] # "waiting"
           \/ \E failed \in BOOLEAN : Acknowledge(m, failed) /\ stage'[m] = "gone"
    BY <1>0, <1>4 DEF DropMeta, Fail
  <2>2. CanAcknowledge(m) /\ acks[m] <= 1
    BY <2>1 DEF CanAcknowledge, WorkInv, AckBound
  <2> QED
    BY <2>1, <2>2, QuietMoves, AckMoves
<1> QED
  BY <1>1, <1>2, <1>3, <1>4 DEF MetaStep

\* So does a step of a sub-tile.
LEMMA SubStepMoves ==
  ASSUME WorkInv, SuccessIsComplete', NEW m \in MetaTiles, NEW t \in SubTiles, SubStep(m, t)
  PROVE  WorkMoves(m)
<1>0. /\ Typed /\ sub[m][t] \in {"run", "stored", "empty", "log", "error"} /\ stage' = stage
      /\ t \in Unfinished(m)
  BY SubStepEffect DEF WorkInv, Unfinished
<1>1. stage[m] # "waiting"
  BY <1>0 DEF WorkInv, Ordered, Unsplit
<1>2. PICK l \in SubStages \ {"none"} : GoSub(m, t, l)
  BY <1>0, SubStepEffect
<1>3. /\ sub'[m][t] = l
      /\ \A u \in SubTiles : u # t => sub'[m][u] = sub[m][u]
  BY <1>0, <1>2, GoSubEffect
<1>4. Unfinished(m)' \subseteq Unfinished(m)
  BY <1>0, <1>3 DEF Unfinished
<1>5. CASE Cache(m, t)
  <2>1. /\ UNCHANGED <<entry, acks, elapsed>> /\ cached[m] \subseteq cached'[m]
        /\ cached'[m] \subseteq SubTiles
        /\ \E k \in {"stored", "empty"} : GoSub(m, t, k)
    BY <1>0, <1>5 DEF Cache, Typed
  <2>2. sub'[m][t] \in {"stored", "empty"}
    BY <1>0, <2>1, GoSubEffect DEF SubStages
  <2>3. Unfinished(m)' = Unfinished(m)
    BY <1>0, <1>3, <2>2 DEF Unfinished
  <2>4. Left(m)' = Left(m)
    BY <1>0, <2>1, <2>3 DEF Left, CanAcknowledge
  <2>5. cached[m] = SubTiles => cached'[m] = SubTiles
    BY <2>1
  <2>6. /\ acksBar'[m] = acksBar[m]
        /\ atBar'[m] = atBar[m] \/ (atBar[m] = "busy" /\ atBar'[m] = "saved")
    BY <1>0, <1>1, <2>1, <2>4, <2>5, Mapped, MappedNext
  <2> QED
    BY <2>1, <2>6 DEF WorkMoves
<1>6. CASE FailTile(m, t) \/ Log(m, t) \/ RaiseTooMany(m, t)
  <2>1. UNCHANGED <<entry, acks, elapsed, cached>>
    BY <1>6 DEF FailTile, Log, RaiseTooMany
  <2>2. ~CanAcknowledge(m) => ~CanAcknowledge(m)'
    BY <1>0, <1>4, <2>1 DEF CanAcknowledge
  <2> QED
    BY <1>0, <1>1, <2>1, <2>2, QuietMoves
<1>7. CASE DeleteFromStore(m, t) \/ TileError(m, t)
  <2>1. /\ elapsed[m] \in Int /\ elapsed'[m] = elapsed[m] - 1 /\ cached' = cached
        /\ \/ UNCHANGED <<entry, acks>>
           \/ elapsed[m] = 1 /\ \E failed \in BOOLEAN : Acknowledge(m, failed)
    BY <1>0, <1>7 DEF DeleteFromStore, TileError, IsLast, HasError, Typed
  <2>2. CASE UNCHANGED <<entry, acks>>
    <3>1. ~CanAcknowledge(m) => ~CanAcknowledge(m)'
      BY <1>0, <1>4, <2>1 DEF CanAcknowledge
    <3> QED
      BY <1>0, <1>1, <2>1, <2>2, <3>1, QuietMoves
  <2>3. ASSUME NEW failed \in BOOLEAN, Acknowledge(m, failed), elapsed[m] = 1
        PROVE  WorkMoves(m)
    <3>1. CanAcknowledge(m)
      BY <1>0, <2>3 DEF CanAcknowledge
    <3>2. acks[m] \in Nat /\ acks[m] <= 1
      BY <2>3 DEF WorkInv, AckBound
    <3> QED
      BY <1>0, <1>1, <2>1, <2>3, <3>1, <3>2, AckMoves
  <2> QED
    BY <2>1, <2>2, <2>3
<1> QED
  BY <1>5, <1>6, <1>7 DEF SubStep

\* Every step concerns one meta tile at most.
LEMMA OneAtATime ==
  ASSUME Typed, NEW m \in MetaTiles, MetaStep(m) \/ \E t \in SubTiles : SubStep(m, t),
         acks \in [MetaTiles -> Nat], NEW n \in MetaTiles, n # m
  PROVE  UNCHANGED <<stage[n], sub[n], elapsed[n], cached[n], entry[n], acks[n]>>
<1>1. CASE MetaStep(m)
  BY <1>1 DEF MetaStep, TakeNext, Split, FindEmpty, DropMeta, FailGet, ReturnNone, Gathered,
              Succeed, Fail, GiveUp, GoStage, Acknowledge, Typed
<1>2. ASSUME NEW t \in SubTiles, SubStep(m, t)
      PROVE  UNCHANGED <<stage[n], sub[n], elapsed[n], cached[n], entry[n], acks[n]>>
  <2>1. UNCHANGED <<stage[n], sub[n], elapsed[n], entry[n]>>
    BY <1>2, SubStepEffect, GoSubEffect
  <2>2. UNCHANGED <<cached[n], acks[n]>>
    BY <1>2 DEF SubStep, Cache, FailTile, DeleteFromStore, Log, RaiseTooMany, TileError,
                Acknowledge, Typed
  <2> QED
    BY <2>1, <2>2
<1> QED
  BY <1>1, <1>2

\* The pipeline implements MetaTileWork, whatever fails: an entry is deleted once, after all
\* its sub-tiles are in the cache, or marked in error, once or twice.
THEOREM PipelineImplementsWork == Spec => ImplementsWork
<1>1. Init => Work!WorkInit
  <2> SUFFICES ASSUME Init PROVE Work!WorkInit
    OBVIOUS
  <2>1. /\ atBar = [m \in MetaTiles |-> "queued"]
        /\ entry = [m \in MetaTiles |-> "pending"]
        /\ acksBar = [m \in MetaTiles |-> 0]
    BY DEF Init, atBar, acksBar
  <2> QED
    BY <2>1 DEF Work!WorkInit
<1>2. WorkInv /\ WorkInv' /\ SuccessIsComplete' /\ [Next]_vars => [Work!WorkNext]_(Work!work)
  <2> SUFFICES ASSUME WorkInv, WorkInv', SuccessIsComplete', [Next]_vars
               PROVE  [Work!WorkNext]_(Work!work)
    OBVIOUS
  <2>1. /\ entry \in [MetaTiles -> {"pending", "deleted", "error"}]
        /\ entry' \in [MetaTiles -> {"pending", "deleted", "error"}]
        /\ Typed /\ acks \in [MetaTiles -> Nat]
    BY DEF WorkInv, Typed
  <2>2. ASSUME NEW m \in MetaTiles, MetaStep(m) \/ \E t \in SubTiles : SubStep(m, t)
        PROVE  [Work!WorkNext]_(Work!work)
    <3>1. WorkMoves(m)
      BY <2>2, MetaStepMoves, SubStepMoves
    <3>2. \A n \in MetaTiles : n # m => UNCHANGED <<atBar[n], entry[n], acksBar[n]>>
      BY <2>1, <2>2, OneAtATime, OthersStay
    <3> QED
      BY <2>1, <3>1, <3>2, MoveIsStep
  <2>3. CASE UNCHANGED vars
    <3>1. UNCHANGED <<stage, sub, elapsed, cached, entry, acks>>
      BY <2>3 DEF vars, pipeline
    <3>2. UNCHANGED <<atBar, entry, acksBar>>
      BY <3>1 DEF atBar, acksBar, Left, CanAcknowledge, Unfinished
    <3> QED
      BY <3>2 DEF Work!work
  <2> QED
    BY <2>2, <2>3 DEF Next
<1>3. CompleteInv => SuccessIsComplete
  BY DEF CompleteInv
<1> QED
  BY <1>1, <1>2, <1>3, InitWork, NextWork, CountIsRight, PTL
  DEF Spec, ImplementsWork, Work!WorkSpec
=============================================================================
