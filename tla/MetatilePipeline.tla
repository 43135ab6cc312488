-------------------------- MODULE MetatilePipeline --------------------------
(***************************************************************************)
(* The tile pipeline of a slave (generate-tiles --role=slave): how one     *)
(* process turns the meta tiles it takes from the queue into tiles of the  *)
(* cache, and acknowledges their entries.                                  *)
(*                                                                         *)
(* nb_tasks tasks each run the functions of the meta tiles; the last one,  *)
(* meta_get, splits the meta tile and runs the functions of the tiles for  *)
(* all its sub-tiles concurrently.  elapsed_togenerate counts the          *)
(* sub-tiles down, and who takes it to 0 calls delete_one.  One action is  *)
(* what a task does between two awaits.                                    *)
(***************************************************************************)
EXTENDS Integers, FiniteSets

CONSTANTS
  MetaTiles,
  SubTiles,   \* the sub-tiles of a meta tile, n * n of them
  NbTasks,    \* settings.nb_tasks
  MaxErrors,  \* generation.maxconsecutive_errors
  Troubles    \* what may fail, a subset of AllTroubles

AllTroubles == {"get", "none", "tile", "log", "delete"}

ASSUME PipelineAssumption ==
  /\ IsFiniteSet(SubTiles) /\ SubTiles # {}
  /\ NbTasks \in Nat \ {0} /\ MaxErrors \in Nat \ {0}

VARIABLES
  options,    \* the configuration: daemon mode, and a database logger
  stage,      \* how far the Run of the meta tiles is with a meta tile
  sub,        \* how far the Run of the tiles is with a sub-tile
  elapsed,    \* metatile.elapsed_togenerate
  metaError,  \* metatile.error is set
  cached,     \* sub-tiles whose cache content is final: stored, or empty and removed
  entry,      \* the queue entry of the meta tile
  acks,       \* calls of delete_one since the entry was taken
  inner, outer,  \* consecutive errors of the two Runs, up to MaxErrors + 1
  innerError, geneError, \* run.error of the tiles, and gene.error, are not 0
  tasks,      \* tasks that did not end
  alive       \* no exception left consume()

pipeline == <<stage, sub, elapsed, metaError, cached>>
counts == <<inner, outer, innerError, geneError>>
ending == <<tasks, alive>>
vars == <<options, pipeline, entry, acks, counts, ending>>

Stages == {"waiting", "get", "drop", "split", "check", "gone"}
SubStages == {"none", "run", "stored", "empty", "log", "error", "done", "raised"}

TypeOK ==
  /\ options \in [daemon : BOOLEAN, logging : BOOLEAN]
  /\ stage \in [MetaTiles -> Stages]
  /\ sub \in [MetaTiles -> [SubTiles -> SubStages]]
  /\ elapsed \in [MetaTiles -> Int]
  /\ metaError \in [MetaTiles -> BOOLEAN]
  /\ cached \in [MetaTiles -> SUBSET SubTiles]
  /\ entry \in [MetaTiles -> {"pending", "deleted", "error"}]
  /\ acks \in [MetaTiles -> 0 .. 2]
  /\ inner \in 0 .. MaxErrors + 1 /\ outer \in 0 .. MaxErrors + 1
  /\ innerError \in BOOLEAN /\ geneError \in BOOLEAN
  /\ tasks \in 0 .. NbTasks /\ alive \in BOOLEAN

Init ==
  /\ options \in [daemon : BOOLEAN, logging : BOOLEAN]
  /\ stage = [m \in MetaTiles |-> "waiting"]
  /\ sub = [m \in MetaTiles |-> [t \in SubTiles |-> "none"]]
  /\ elapsed = [m \in MetaTiles |-> 0]
  /\ metaError = [m \in MetaTiles |-> FALSE]
  /\ cached = [m \in MetaTiles |-> {}]
  /\ entry = [m \in MetaTiles |-> "pending"]
  /\ acks = [m \in MetaTiles |-> 0]
  /\ inner = 0 /\ outer = 0
  /\ innerError = FALSE /\ geneError = FALSE
  /\ tasks = NbTasks /\ alive = TRUE

-----------------------------------------------------------------------------
Active == {m \in MetaTiles : stage[m] \notin {"waiting", "gone"}}
GoStage(m, l) == stage' = [stage EXCEPT ![m] = l]
GoSub(m, t, l) == sub' = [sub EXCEPT ![m][t] = l]
Unfinished(m) == {t \in SubTiles : sub[m][t] \notin {"none", "done", "raised"}}

\* delete_one: the entry is deleted, or marked when the meta tile has an error; it
\* finds an entry that is pending only.
Acknowledge(m, failed) ==
  /\ entry' = [entry EXCEPT ![m] = IF @ # "pending" THEN @
                                   ELSE IF failed THEN "error" ELSE "deleted"]
  /\ acks' = [acks EXCEPT ![m] = @ + 1]

\* MaximumConsecutiveErrors: raises once the errors in a row exceed the maximum.
\* There is none in daemon mode.
OneMore(errors) ==
  IF options.daemon THEN 0 ELSE IF errors > MaxErrors THEN errors ELSE errors + 1
TooMany(errors) == OneMore(errors) > MaxErrors

-----------------------------------------------------------------------------
(* The Run of the meta tiles.                                              *)

TakeNext(m) ==
  /\ stage[m] = "waiting" /\ Cardinality(Active) < tasks
  /\ GoStage(m, "get")
  /\ UNCHANGED <<options, sub, elapsed, metaError, cached, entry, acks, counts, ending>>

\* The store answers, and the meta tile is split into its sub-tiles.
Split(m) ==
  /\ stage[m] = "get"
  /\ elapsed' = [elapsed EXCEPT ![m] = Cardinality(SubTiles)]
  /\ sub' = [sub EXCEPT ![m] = [t \in SubTiles |-> "run"]]
  /\ GoStage(m, "split")
  /\ UNCHANGED <<options, metaError, cached, entry, acks, counts, ending>>

\* HashDropper of the meta tiles: the meta tile is empty, its tiles are removed from
\* the cache.
FindEmpty(m) ==
  /\ stage[m] = "get"
  /\ cached' = [cached EXCEPT ![m] = SubTiles]
  /\ GoStage(m, "drop")
  /\ UNCHANGED <<options, sub, elapsed, metaError, entry, acks, counts, ending>>

DropMeta(m) ==
  /\ stage[m] = "drop"
  /\ \/ /\ Acknowledge(m, FALSE)
        /\ GoStage(m, "gone")
        /\ UNCHANGED metaError
     \/ /\ "delete" \in Troubles
        /\ metaError' = [metaError EXCEPT ![m] = TRUE]
        /\ GoStage(m, "check")
        /\ UNCHANGED <<entry, acks>>
  /\ UNCHANGED <<options, sub, elapsed, cached, counts, ending>>

FailGet(m) ==
  /\ "get" \in Troubles /\ stage[m] = "get"
  /\ metaError' = [metaError EXCEPT ![m] = TRUE]
  /\ GoStage(m, "check")
  /\ UNCHANGED <<options, sub, elapsed, cached, entry, acks, counts, ending>>

\* A function returned None: the meta tile leaves the pipeline without delete_one.
ReturnNone(m) ==
  /\ "none" \in Troubles /\ stage[m] = "get"
  /\ GoStage(m, "gone")
  /\ UNCHANGED <<options, sub, elapsed, metaError, cached, entry, acks, counts, ending>>

\* asyncio.gather returns when all the sub-tiles are done, and raises as soon as one
\* raised, while the others go on; the Run of the meta tiles catches what it raised.
Gathered(m) ==
  /\ stage[m] = "split"
  /\ \/ /\ \A t \in SubTiles : sub[m][t] = "done"
        /\ geneError' = (geneError \/ innerError)
        /\ UNCHANGED metaError
     \/ /\ \E t \in SubTiles : sub[m][t] = "raised"
        /\ metaError' = [metaError EXCEPT ![m] = TRUE]
        /\ UNCHANGED geneError
  /\ GoStage(m, "check")
  /\ UNCHANGED <<options, sub, elapsed, cached, entry, acks, inner, outer, innerError,
                 ending>>

\* What the meta tile's own Run does with it after its last function.
Succeed(m) ==
  /\ stage[m] = "check" /\ ~metaError[m]
  /\ outer' = 0
  /\ GoStage(m, "gone")
  /\ UNCHANGED <<options, sub, elapsed, metaError, cached, entry, acks, inner,
                 innerError, geneError, ending>>

\* Mutant: the failure of the meta tile is not counted.
FailUncounted(m) == UNCHANGED geneError
CountFailure(m) == geneError' = TRUE

Fail(m) ==
  /\ stage[m] = "check" /\ metaError[m] /\ ~TooMany(outer)
  /\ outer' = OneMore(outer)
  /\ \/ /\ Acknowledge(m, TRUE)
        /\ CountFailure(m)
        /\ GoStage(m, "gone")
        /\ UNCHANGED alive
     \/ /\ "delete" \in Troubles
        /\ alive' = FALSE
        /\ UNCHANGED <<stage, entry, acks, geneError>>
  /\ UNCHANGED <<options, sub, elapsed, metaError, cached, inner, innerError, tasks>>

\* TooManyError ends the task, before delete_one.
GiveUp(m) ==
  /\ stage[m] = "check" /\ metaError[m] /\ TooMany(outer)
  /\ outer' = OneMore(outer)
  /\ tasks' = tasks - 1
  /\ GoStage(m, "gone")
  /\ UNCHANGED <<options, sub, elapsed, metaError, cached, entry, acks, inner,
                 innerError, geneError, alive>>

-----------------------------------------------------------------------------
(* The Run of the tiles, once per sub-tile.                                *)

\* The tile is put in the cache, or the HashDropper found it empty and removed it.
Cache(m, t) ==
  /\ sub[m][t] = "run"
  /\ \E l \in {"stored", "empty"} : GoSub(m, t, l)
  /\ cached' = [cached EXCEPT ![m] = @ \cup {t}]
  /\ UNCHANGED <<options, stage, elapsed, metaError, entry, acks, counts, ending>>

FailTile(m, t) ==
  /\ "tile" \in Troubles /\ sub[m][t] = "run"
  /\ GoSub(m, t, "error")
  /\ UNCHANGED <<options, stage, elapsed, metaError, cached, entry, acks, counts, ending>>

\* The sub-tile that takes elapsed_togenerate to 0 acknowledges the entry.  Mutants:
\* the last two do; none does, since the count is read before it is decremented.
LastTwo(m) == elapsed[m] <= 2
ReadBefore(m) == elapsed[m] = 0
IsLast(m) == elapsed[m] = 1

\* tile.error in delete_one.  Mutant: it is not looked at.
ErrorIgnored(m) == FALSE
HasError(m) == metaError[m]

\* delete_from_store, or the end of the HashDropper.
DeleteFromStore(m, t) ==
  /\ sub[m][t] \in {"stored", "empty"}
  /\ elapsed' = [elapsed EXCEPT ![m] = @ - 1]
  /\ \/ /\ IF IsLast(m) THEN Acknowledge(m, HasError(m)) ELSE UNCHANGED <<entry, acks>>
        /\ GoSub(m, t, IF sub[m][t] = "stored" /\ options.logging THEN "log" ELSE "done")
        /\ inner' = IF sub[m][t] = "stored" /\ ~options.logging THEN 0 ELSE inner
     \/ /\ "delete" \in Troubles /\ IsLast(m)
        /\ GoSub(m, t, "error")
        /\ UNCHANGED <<entry, acks, inner>>
  /\ UNCHANGED <<options, stage, metaError, cached, outer, innerError, geneError, ending>>

\* The database logger comes after delete_from_store.
Log(m, t) ==
  /\ sub[m][t] = "log"
  /\ \/ GoSub(m, t, "done") /\ inner' = 0
     \/ "log" \in Troubles /\ GoSub(m, t, "error") /\ UNCHANGED inner
  /\ UNCHANGED <<options, stage, elapsed, metaError, cached, entry, acks, outer,
                 innerError, geneError, ending>>

\* The error path of Run: TooManyError leaves it at once.
RaiseTooMany(m, t) ==
  /\ sub[m][t] = "error" /\ TooMany(inner)
  /\ inner' = OneMore(inner)
  /\ GoSub(m, t, "raised")
  /\ UNCHANGED <<options, stage, elapsed, metaError, cached, entry, acks, outer,
                 innerError, geneError, ending>>

\* Mutant: the error of the sub-tile is not copied to the meta tile.
KeepError(m) == UNCHANGED metaError
CopyError(m) == metaError' = [metaError EXCEPT ![m] = TRUE]

TileError(m, t) ==
  /\ sub[m][t] = "error" /\ ~TooMany(inner)
  /\ inner' = OneMore(inner)
  /\ CopyError(m)
  /\ elapsed' = [elapsed EXCEPT ![m] = @ - 1]
  /\ \/ /\ IF IsLast(m) THEN Acknowledge(m, TRUE) ELSE UNCHANGED <<entry, acks>>
        /\ innerError' = TRUE
        /\ GoSub(m, t, "done")
     \/ /\ "delete" \in Troubles /\ IsLast(m)
        /\ GoSub(m, t, "raised")
        /\ UNCHANGED <<entry, acks, innerError>>
  /\ UNCHANGED <<options, stage, cached, outer, geneError, ending>>

-----------------------------------------------------------------------------
MetaStep(m) ==
  \/ TakeNext(m) \/ Split(m) \/ FindEmpty(m) \/ DropMeta(m) \/ FailGet(m)
  \/ ReturnNone(m) \/ Gathered(m) \/ Succeed(m) \/ Fail(m) \/ GiveUp(m)

SubStep(m, t) ==
  \/ Cache(m, t) \/ FailTile(m, t) \/ DeleteFromStore(m, t) \/ Log(m, t)
  \/ RaiseTooMany(m, t) \/ TileError(m, t)

Next == /\ alive
        /\ \E m \in MetaTiles : MetaStep(m) \/ \E t \in SubTiles : SubStep(m, t)

Spec == Init /\ [][Next]_vars

-----------------------------------------------------------------------------
(* What the pipeline must guarantee.                                       *)

\* An entry is deleted only when each of its tiles is in the cache, or empty and
\* removed from it: a failed sub-tile is never hidden by those that succeed after it.
SuccessIsComplete == \A m \in MetaTiles : entry[m] = "deleted" => cached[m] = SubTiles

\* The meta tiles that left with their entry still pending, and wait for a timeout.
Forgotten ==
  {m \in MetaTiles : /\ stage[m] = "gone" /\ entry[m] = "pending"
                     /\ \E t \in SubTiles : sub[m][t] # "none" \/ metaError[m]}

\* Unless a function returned None, a task forgets an entry only as it ends with
\* TooManyError, and then one at most; in daemon mode none is forgotten.
NothingForgotten ==
  /\ Cardinality(Forgotten) <= NbTasks - tasks
  /\ options.daemon => tasks = NbTasks

\* In daemon mode and without a database logger, the entry is acknowledged after the
\* last of its sub-tiles was stored or failed: nothing is written once another worker
\* may take the entry again.
QuietAfterAck ==
  \A m \in MetaTiles :
    options.daemon /\ ~options.logging /\ entry[m] # "pending"
    => \A t \in SubTiles : sub[m][t] # "run"

\* A meta tile that failed makes the exit status 1, whichever Run met the failure and
\* even when TooManyError cut its error path short.
FailureIsCounted ==
  \A m \in MetaTiles : stage[m] = "gone" /\ metaError[m] => geneError

-----------------------------------------------------------------------------
(* The pipeline does the work JobQueue expects of a worker.                *)

CanAcknowledge(m) == stage[m] # "gone" \/ (elapsed[m] >= 1 /\ Unfinished(m) # {})

acksBar == [m \in MetaTiles |-> IF entry[m] = "deleted" THEN 1 ELSE acks[m]]

Left(m) == entry[m] = "deleted" \/ acks[m] = 2 \/ ~CanAcknowledge(m)

atBar ==
  [m \in MetaTiles |-> IF stage[m] = "waiting" THEN "queued"
                       ELSE IF Left(m) THEN "gone"
                       ELSE IF entry[m] = "error" THEN "again"
                       ELSE IF cached[m] = SubTiles THEN "saved"
                       ELSE "busy"]

Work == INSTANCE MetaTileWork WITH at <- atBar, acks <- acksBar

\* Whatever fails, an entry is acknowledged as MetaTileWork says: deleted once, after
\* all its tiles are saved, or marked in error once or twice.
ImplementsWork == Work!WorkSpec
=============================================================================
