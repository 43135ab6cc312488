------------------------------ MODULE JobQueue ------------------------------
(***************************************************************************)
(* The PostgreSQL queue of TileCloud-chain: the tables job and queue, and  *)
(* every process that writes them.                                         *)
(*                                                                         *)
(*   - workers: the processes that iterate PostgresqlTileStore.list, run   *)
(*     _maintenance before each meta tile, create the queue of new jobs    *)
(*     (_start_job) and generate the meta tiles they take;                 *)
(*   - command lines: `generate-tiles --role=master`, which creates its    *)
(*     job by itself and fills its queue;                                  *)
(*   - administrators: the requests create, cancel and retry of the admin  *)
(*     page.                                                               *)
(*                                                                         *)
(* One action is one transaction, or one statement of a transaction whose  *)
(* reads other transactions can make stale: PostgreSQL runs them at READ   *)
(* COMMITTED.  `Troubles' names what the environment may do.               *)
(***************************************************************************)
EXTENDS Naturals, FiniteSets

CONSTANTS
  Jobs,        \* job.id, in the order of job.created_at
  MetaTiles,   \* the meta tiles a job can ask for
  Configs,     \* job.config_filename
  ConfigOf,    \* [Jobs -> Configs]
  KindOf,      \* [Jobs -> Kinds]: what _start_job does with job.command
  TilesOf,     \* [Jobs -> SUBSET MetaTiles]: what the command generates
  Workers, Clis, Admins,
  Requests,    \* the admin requests made, a subset of {"cancel", "retry"}
  Troubles,    \* a subset of AllTroubles
  NbTasks,     \* tasks of generate_consume that share one list() iterator
  MaxRuns,     \* bound: generations of the queue of one job
  MaxCrashes,  \* bound: crashes of processes
  MaxRequests, \* bound: cancel and retry requests
  None

Kinds == {"queue", "subprocess", "refused"}
AllTroubles == {"slow_tile", "slow_generation", "fail_tile", "fail_stored",
                "ack_twice", "fail_generation", "abandon"}
Process == Workers \cup Clis

ASSUME JobQueueAssumption ==
  /\ Jobs \subseteq Nat /\ IsFiniteSet(MetaTiles)
  /\ ConfigOf \in [Jobs -> Configs]
  /\ KindOf \in [Jobs -> Kinds]
  /\ TilesOf \in [Jobs -> SUBSET MetaTiles]
  /\ Workers \cap Clis = {}
  /\ NbTasks \in Nat /\ MaxRuns \in Nat
  /\ MaxCrashes \in Nat /\ MaxRequests \in Nat
  /\ None \notin Jobs

\* A queue entry is known by its job, the generation run that inserted it and
\* its meta tile: ids are never reused, and one run inserts a meta tile once.
Rows == [job : Jobs, run : 1 .. MaxRuns, tile : MetaTiles]

VARIABLES
  status,       \* job.status; "none" before the row exists
  startedAt,    \* job.started_at: NULL, recent, or older than max_pending
  tilesStarted, \* job.tiles_started_at is not NULL
  total,        \* job.meta_tiles_total
  queue,        \* queue.status; "absent" before the insert and after the delete
  late,         \* pending entries whose started_at is older than max_pending
  runs,         \* number of queue generations started for a job
  stored,       \* <<job, meta tile>> whose tiles are in the cache
  pc,           \* what a process is about to do
  cur,          \* the job a process is working on
  run,          \* the generation run of that job
  toPut,        \* meta tiles a generation run has still to insert
  cfgs,         \* config_filenames, config_filenames_gen, config_filenames of list()
  locked,       \* jobs a worker locked with FOR UPDATE to settle them
  todo,         \* locked jobs whose entries are not counted yet
  verdict,      \* <<job, status>> decided and not committed yet
  busy,         \* entries a worker is generating
  saved,        \* entries whose tiles are stored, still to acknowledge
  again,        \* failed entries whose failure is acknowledged a second time
  admin,        \* the request an administrator's handler is serving
  crashes, requests

job == <<status, startedAt, tilesStarted, total>>
tables == <<job, queue, late>>
history == <<runs, stored>>
process == <<pc, cur, run, toPut, cfgs>>
settling == <<locked, todo, verdict>>
work == <<busy, saved, again>>
bounds == <<crashes, requests>>
vars == <<tables, history, process, settling, work, admin, bounds>>

JobStatus == {"created", "pending", "started", "error", "done", "cancelled"}
RowStatus == {"absent", "created", "pending", "error"}
PC == {"restart", "configs", "new_configs", "claim", "start", "put", "finish",
       "count", "count_pending", "count_error", "reset", "select", "take", "off"}
\* The labels at which a process works on its current job.
Working == {"start", "put", "count_pending", "count_error"}
Idle == [op |-> "none", job |-> None]

TypeOK ==
  /\ status \in [Jobs -> JobStatus \cup {"none"}]
  /\ startedAt \in [Jobs -> {"null", "recent", "old"}]
  /\ tilesStarted \in [Jobs -> BOOLEAN]
  /\ total \in [Jobs -> Nat]
  /\ queue \in [Rows -> RowStatus]
  /\ late \subseteq Rows
  /\ runs \in [Jobs -> 0 .. MaxRuns]
  /\ stored \subseteq Jobs \X MetaTiles
  /\ pc \in [Process -> PC]
  /\ cur \in [Process -> Jobs \cup {None}]
  /\ run \in [Process -> 0 .. MaxRuns]
  /\ toPut \in [Process -> SUBSET MetaTiles]
  /\ cfgs \in [Workers -> SUBSET Configs]
  /\ locked \in [Workers -> SUBSET Jobs]
  /\ todo \in [Workers -> SUBSET Jobs]
  /\ verdict \in [Workers -> SUBSET (Jobs \X {"done", "error"})]
  /\ busy \in [Workers -> SUBSET Rows]
  /\ saved \in [Workers -> SUBSET Rows]
  /\ again \in [Workers -> SUBSET Rows]
  /\ admin \in [Admins -> [op : {"none", "cancel", "retry"},
                           job : Jobs \cup {None}]]
  /\ crashes \in 0 .. MaxCrashes
  /\ requests \in 0 .. MaxRequests
  /\ \A p \in Process : pc[p] \in Working => cur[p] \in Jobs

Init ==
  /\ status = [j \in Jobs |-> "none"]
  /\ startedAt = [j \in Jobs |-> "null"]
  /\ tilesStarted = [j \in Jobs |-> FALSE]
  /\ total = [j \in Jobs |-> 0]
  /\ queue = [r \in Rows |-> "absent"]
  /\ late = {}
  /\ runs = [j \in Jobs |-> 0]
  /\ stored = {}
  /\ pc = [p \in Process |-> IF p \in Workers THEN "restart" ELSE "off"]
  /\ cur = [p \in Process |-> None]
  /\ run = [p \in Process |-> 0]
  /\ toPut = [p \in Process |-> {}]
  /\ cfgs = [w \in Workers |-> {}]
  /\ locked = [w \in Workers |-> {}]
  /\ todo = [w \in Workers |-> {}]
  /\ verdict = [w \in Workers |-> {}]
  /\ busy = [w \in Workers |-> {}]
  /\ saved = [w \in Workers |-> {}]
  /\ again = [w \in Workers |-> {}]
  /\ admin = [a \in Admins |-> Idle]
  /\ crashes = 0
  /\ requests = 0

-----------------------------------------------------------------------------
(* The tables as the statements see them.                                  *)

RowsOf(j) == {r \in Rows : r.job = j /\ queue[r] # "absent"}
RowsIn(j, s) == {r \in Rows : r.job = j /\ queue[r] = s}
JobsIn(s) == {j \in Jobs : status[j] = s}
ConfigsIn(s) == {ConfigOf[j] : j \in JobsIn(s)}
IsLocked(j) == \E w \in Workers : j \in locked[w]
IsOldest(j, S) == j \in S /\ \A k \in S : j <= k
\* The id of the next row of the table job.
IsNextId(j) == IsOldest(j, JobsIn("none"))
Held(w) == busy[w] \cup saved[w]

\* UPDATE queue SET status = s for the entries of S.
SetRows(S, s) == queue' = [r \in Rows |-> IF r \in S THEN s ELSE queue[r]]
Goto(p, l) == pc' = [pc EXCEPT ![p] = l]

-----------------------------------------------------------------------------
(* The admin page.  cancel and retry read the job, then write it in a      *)
(* later statement that no longer looks at its status.                     *)

CreateJob ==
  \E j \in Jobs :
    /\ Admins # {} /\ IsNextId(j)
    /\ status' = [status EXCEPT ![j] = "created"]
    /\ UNCHANGED <<startedAt, tilesStarted, total, queue, late, history, process,
                   settling, work, admin, bounds>>

AdminCheck(a, op, j) ==
  /\ admin[a] = Idle /\ requests < MaxRequests
  /\ op \in Requests
  /\ status[j] = IF op = "retry" THEN "error" ELSE "started"
  /\ admin' = [admin EXCEPT ![a] = [op |-> op, job |-> j]]
  /\ requests' = requests + 1
  /\ UNCHANGED <<tables, history, process, settling, work, crashes>>

\* Entries a retry requeues.  Mutant: none.
RequeueNone(j) == {}
Requeued(j) == RowsIn(j, "error")

RetryApply(a) ==
  LET j == admin[a].job IN
  /\ admin[a].op = "retry" /\ ~IsLocked(j)
  /\ SetRows(Requeued(j), "created")
  /\ status' = [status EXCEPT ![j] = "started"]
  /\ tilesStarted' = [tilesStarted EXCEPT ![j] = FALSE]
  /\ total' = [total EXCEPT ![j] = Cardinality(RowsOf(j))]
  /\ admin' = [admin EXCEPT ![a] = Idle]
  /\ UNCHANGED <<startedAt, late, history, process, settling, work, bounds>>

CancelApply(a) ==
  LET j == admin[a].job IN
  /\ admin[a].op = "cancel" /\ ~IsLocked(j)
  /\ SetRows(RowsIn(j, "created"), "absent")
  /\ status' = [status EXCEPT ![j] = "cancelled"]
  /\ admin' = [admin EXCEPT ![a] = Idle]
  /\ UNCHANGED <<startedAt, tilesStarted, total, late, history, process, settling,
                 work, bounds>>

-----------------------------------------------------------------------------
(* The command line: _ensure_postgresql_job_id, the generation of the      *)
(* queue, then _activate_postgresql_job.  started_at stays NULL meanwhile. *)

CliCreate(c) ==
  \E j \in Jobs :
    /\ pc[c] = "off" /\ IsNextId(j) /\ MaxRuns > 0 /\ KindOf[j] = "queue"
    /\ status' = [status EXCEPT ![j] = "pending"]
    /\ runs' = [runs EXCEPT ![j] = 1]
    /\ cur' = [cur EXCEPT ![c] = j]
    /\ run' = [run EXCEPT ![c] = 1]
    /\ toPut' = [toPut EXCEPT ![c] = TilesOf[j]]
    /\ Goto(c, "put")
    /\ UNCHANGED <<startedAt, tilesStarted, total, queue, late, stored, cfgs,
                   settling, work, admin, bounds>>

\* The last batch is inserted: close() flushed it.  Mutant: it may still be buffered.
FlushedEarly(p) == TRUE
Flushed(p) == toPut[p] = {}

\* start_job: a job that is no longer pending is left as it is.
CliActivate(c) ==
  LET j == cur[c] IN
  /\ pc[c] = "put" /\ Flushed(c) /\ ~IsLocked(j)
  /\ IF status[j] = "pending"
     THEN /\ status' = [status EXCEPT ![j] = "started"]
          /\ startedAt' = [startedAt EXCEPT ![j] = "recent"]
          /\ total' = [total EXCEPT ![j] = Cardinality(RowsOf(j))]
     ELSE UNCHANGED <<status, startedAt, total>>
  /\ cur' = [cur EXCEPT ![c] = None]
  /\ Goto(c, "off")
  /\ UNCHANGED <<tilesStarted, queue, late, history, run, toPut, cfgs, settling,
                 work, admin, bounds>>

-----------------------------------------------------------------------------
(* _maintenance, run by a worker before each meta tile it takes.           *)

\* Restart the too long pending jobs; NULL is older than nothing.
\* Mutants: no job is too long pending; every pending job is.
NeverTooLong(j) == FALSE
AnyPending(j) == status[j] = "pending"
TooLongPending(j) == status[j] = "pending" /\ startedAt[j] = "old"

RestartJobs(w) ==
  /\ pc[w] = "restart" /\ Cardinality(Held(w)) + Cardinality(again[w]) < NbTasks
  /\ status' = [j \in Jobs |-> IF TooLongPending(j) THEN "created" ELSE status[j]]
  /\ Goto(w, "configs")
  /\ UNCHANGED <<startedAt, tilesStarted, total, queue, late, history, cur, run,
                 toPut, cfgs, settling, work, admin, bounds>>

\* Two statements: the configurations of the started jobs, then those of the created ones.
ReadConfigs(w) ==
  /\ \/ /\ pc[w] = "configs"
        /\ cfgs' = [cfgs EXCEPT ![w] = ConfigsIn("started")]
        /\ Goto(w, "new_configs")
     \/ /\ pc[w] = "new_configs"
        /\ cfgs' = [cfgs EXCEPT ![w] = ConfigsIn("created") \ @]
        /\ Goto(w, "claim")
  /\ UNCHANGED <<tables, history, cur, run, toPut, settling, work, admin, bounds>>

\* Job j becomes pending: the worker is to create its queue.
Claim(w, j) ==
  /\ status[j] = "created" /\ runs[j] < MaxRuns
  /\ status' = [status EXCEPT ![j] = "pending"]
  /\ startedAt' = [startedAt EXCEPT ![j] = "recent"]
  /\ tilesStarted' = [tilesStarted EXCEPT ![j] = FALSE]
  /\ total' = [total EXCEPT ![j] = 0]
  /\ runs' = [runs EXCEPT ![j] = @ + 1]
  /\ cur' = [cur EXCEPT ![w] = j]
  /\ run' = [run EXCEPT ![w] = runs[j] + 1]
  /\ Goto(w, "start")
  /\ UNCHANGED <<queue, late>>

\* The oldest created job of the configuration that is not locked is claimed.
ClaimJob(w, c) ==
  LET new == {j \in JobsIn("created") : ConfigOf[j] = c /\ ~IsLocked(j)} IN
  /\ pc[w] = "claim" /\ c \in cfgs[w]
  /\ cfgs' = [cfgs EXCEPT ![w] = @ \ {c}]
  /\ \/ new = {} /\ UNCHANGED <<tables, runs, pc, cur, run>>
     \/ \E j \in new : IsOldest(j, new) /\ Claim(w, j)
  /\ UNCHANGED <<stored, toPut, settling, work, admin, bounds>>

ClaimsDone(w) ==
  /\ pc[w] = "claim" /\ cfgs[w] = {}
  /\ Goto(w, "finish")
  /\ UNCHANGED <<tables, history, cur, run, toPut, cfgs, settling, work, admin,
                 bounds>>

\* _start_job of a command or an argument that is not allowed, and of a command
\* run as a subprocess: the job ends there.
StartWithoutQueue(w) ==
  LET j == cur[w] IN
  /\ pc[w] = "start" /\ KindOf[j] # "queue" /\ ~IsLocked(j)
  /\ \E s \in IF KindOf[j] = "refused" THEN {"error"} ELSE {"done", "error"} :
       status' = [status EXCEPT ![j] = s]
  /\ cur' = [cur EXCEPT ![w] = None]
  /\ Goto(w, "claim")
  /\ UNCHANGED <<startedAt, tilesStarted, total, queue, late, history, run, toPut,
                 cfgs, settling, work, admin, bounds>>

\* What an interrupted run left in the queue.  Mutant: it is not looked at.
NoLeftover(j) == {}
Leftover(j) == RowsOf(j)

ClearQueue(w) ==
  LET j == cur[w] IN
  /\ pc[w] = "start" /\ KindOf[j] = "queue"
  /\ SetRows(Leftover(j), "absent")
  /\ late' = late \ Leftover(j)
  /\ toPut' = [toPut EXCEPT ![w] = TilesOf[j]]
  /\ Goto(w, "put")
  /\ UNCHANGED <<job, history, cur, run, cfgs, settling, work, admin, bounds>>

\* A batch of the master process, worker or command line, is committed.
PutRows(p) ==
  /\ pc[p] = "put"
  /\ \E S \in SUBSET toPut[p] \ {{}} :
       /\ SetRows({r \in Rows : r.job = cur[p] /\ r.run = run[p] /\ r.tile \in S},
                  "created")
       /\ toPut' = [toPut EXCEPT ![p] = @ \ S]
  /\ UNCHANGED <<job, late, history, pc, cur, run, cfgs, settling, work, admin,
                 bounds>>

\* The last transaction of _start_job writes the job whatever its status is.
EndGeneration(w) ==
  LET j == cur[w] IN
  /\ pc[w] = "put" /\ ~IsLocked(j)
  /\ \/ /\ Flushed(w)
        /\ status' = [status EXCEPT ![j] = "started"]
        /\ UNCHANGED tilesStarted
     \/ /\ "fail_generation" \in Troubles
        /\ status' = [status EXCEPT ![j] = "error"]
        /\ tilesStarted' = [tilesStarted EXCEPT ![j] = FALSE]
  /\ total' = [total EXCEPT ![j] = Cardinality(RowsOf(j))]
  /\ toPut' = [toPut EXCEPT ![w] = {}]
  /\ cur' = [cur EXCEPT ![w] = None]
  /\ Goto(w, "claim")
  /\ UNCHANGED <<startedAt, queue, late, history, run, cfgs, settling, work, admin,
                 bounds>>

\* Update the job status on finish: one transaction locks the started jobs, then
\* counts the created, the pending and the failed entries of each.
LockStarted(w) ==
  LET jobs == {j \in JobsIn("started") : ~IsLocked(j)} IN
  /\ pc[w] = "finish"
  /\ locked' = [locked EXCEPT ![w] = jobs]
  /\ todo' = [todo EXCEPT ![w] = jobs]
  /\ Goto(w, "count")
  /\ UNCHANGED <<tables, history, cur, run, toPut, cfgs, verdict, work, admin,
                 bounds>>

\* No entry of the job has the status.  Mutant: one of the counts is forgotten.
NoneInButCreated(j, s) == s = "created" \/ RowsIn(j, s) = {}
NoneIn(j, s) == RowsIn(j, s) = {}

CountCreated(w, j) ==
  /\ pc[w] = "count" /\ IsOldest(j, todo[w])
  /\ todo' = [todo EXCEPT ![w] = @ \ {j}]
  /\ cur' = [cur EXCEPT ![w] = j]
  /\ Goto(w, IF NoneIn(j, "created") THEN "count_pending" ELSE "count")
  /\ UNCHANGED <<tables, history, run, toPut, cfgs, locked, verdict, work, admin,
                 bounds>>

CountPending(w) ==
  /\ pc[w] = "count_pending"
  /\ Goto(w, IF NoneIn(cur[w], "pending") THEN "count_error" ELSE "count")
  /\ UNCHANGED <<tables, history, cur, run, toPut, cfgs, settling, work, admin,
                 bounds>>

CountError(w) ==
  LET s == IF NoneIn(cur[w], "error") THEN "done" ELSE "error" IN
  /\ pc[w] = "count_error"
  /\ verdict' = [verdict EXCEPT ![w] = @ \cup {<<cur[w], s>>}]
  /\ Goto(w, "count")
  /\ UNCHANGED <<tables, history, cur, run, toPut, cfgs, locked, todo, work, admin,
                 bounds>>

CommitFinish(w) ==
  /\ pc[w] = "count" /\ todo[w] = {}
  /\ status' = [j \in Jobs |-> IF <<j, "error">> \in verdict[w] THEN "error"
                               ELSE IF <<j, "done">> \in verdict[w] THEN "done"
                               ELSE status[j]]
  /\ locked' = [locked EXCEPT ![w] = {}]
  /\ verdict' = [verdict EXCEPT ![w] = {}]
  /\ cur' = [cur EXCEPT ![w] = None]
  /\ Goto(w, "reset")
  /\ UNCHANGED <<startedAt, tilesStarted, total, queue, late, history, run, toPut,
                 cfgs, todo, work, admin, bounds>>

\* Restart the too long pending meta tiles, of any job.
TooLong == late

ResetRows(w) ==
  /\ pc[w] = "reset"
  /\ SetRows(TooLong, "created")
  /\ late' = {}
  /\ Goto(w, "select")
  /\ UNCHANGED <<job, history, cur, run, toPut, cfgs, settling, work, admin,
                 bounds>>

-----------------------------------------------------------------------------
(* list: choose a configuration that has started jobs, and take its first  *)
(* created entry.  TimedTileStoreWrapper opens a new list() for each meta  *)
(* tile, which begins with _maintenance.                                   *)

SelectConfigs(w) ==
  /\ pc[w] = "select"
  /\ cfgs' = [cfgs EXCEPT ![w] = ConfigsIn("started")]
  /\ Goto(w, IF cfgs'[w] = {} THEN "restart" ELSE "take")
  /\ UNCHANGED <<tables, history, cur, run, toPut, settling, work, admin, bounds>>

\* Mutant of Available: the status of the entry is not checked.
AvailableAnyStatus(c) ==
  {r \in Rows : /\ queue[r] \in {"created", "pending"}
                /\ status[r.job] = "started" /\ ConfigOf[r.job] = c}

\* Entries of the started jobs of c that can be taken.
Available(c) ==
  {r \in Rows : queue[r] = "created" /\ status[r.job] = "started" /\ ConfigOf[r.job] = c}

\* The order of the entries inside a job (queue.id) is left open.
Take(w, c) ==
  /\ pc[w] = "take" /\ c \in cfgs[w]
  /\ \E r \in Available(c) :
       /\ \A other \in Available(c) : r.job <= other.job
       /\ tilesStarted[r.job] \/ ~IsLocked(r.job)
       /\ queue' = [queue EXCEPT ![r] = "pending"]
       /\ tilesStarted' = [tilesStarted EXCEPT ![r.job] = TRUE]
       /\ busy' = [busy EXCEPT ![w] = @ \cup {r}]
  /\ cfgs' = [cfgs EXCEPT ![w] = {}]
  /\ Goto(w, "restart")
  /\ UNCHANGED <<status, startedAt, total, late, history, cur, run, toPut, settling,
                 saved, again, admin, bounds>>

NothingToTake(w, c) ==
  /\ pc[w] = "take" /\ c \in cfgs[w] /\ Available(c) = {}
  /\ cfgs' = [cfgs EXCEPT ![w] = @ \ {c}]
  /\ Goto(w, IF cfgs[w] = {c} THEN "restart" ELSE "take")
  /\ UNCHANGED <<tables, history, cur, run, toPut, settling, work, admin, bounds>>

-----------------------------------------------------------------------------
(* The generation of a meta tile by a worker, then delete_one, which knows *)
(* the entry only by its id and its status.                                *)

Save(w, r) ==
  /\ r \in busy[w]
  /\ stored' = stored \cup {<<r.job, r.tile>>}
  /\ busy' = [busy EXCEPT ![w] = @ \ {r}]
  /\ saved' = [saved EXCEPT ![w] = @ \cup {r}]
  /\ UNCHANGED <<tables, runs, process, settling, again, admin, bounds>>

\* Mutant of Acknowledge: a success is recorded as a status instead of a delete.
AcknowledgeAsDone(r, s) ==
  /\ queue' = [queue EXCEPT ![r] = IF @ # "pending" THEN @
                                   ELSE IF s = "absent" THEN "done" ELSE s]
  /\ late' = late \ {r}

\* Only a pending entry is updated or deleted.
Acknowledge(r, s) ==
  /\ queue' = [queue EXCEPT ![r] = IF @ = "pending" THEN s ELSE @]
  /\ late' = late \ {r}

\* The entry is deleted after its tiles are stored.  Mutant: or before.
DeletableEarly(w, r) == r \in Held(w)
Deletable(w, r) == r \in saved[w]

DeleteOne(w, r) ==
  /\ Deletable(w, r)
  /\ Acknowledge(r, "absent")
  /\ saved' = [saved EXCEPT ![w] = @ \ {r}]
  /\ UNCHANGED <<job, history, process, settling, busy, again, admin, bounds>>

\* A tile of the meta tile failed, or what follows the storage of its tiles did.  A
\* sub-tile's failure is acknowledged by the Run of the sub-tiles, and then a second
\* time by the Run of the meta tile.
DeleteOneError(w, r) ==
  /\ \/ "fail_tile" \in Troubles /\ r \in busy[w]
     \/ "fail_stored" \in Troubles /\ r \in saved[w]
  /\ Acknowledge(r, "error")
  /\ busy' = [busy EXCEPT ![w] = @ \ {r}]
  /\ saved' = [saved EXCEPT ![w] = @ \ {r}]
  /\ \/ UNCHANGED again
     \/ "ack_twice" \in Troubles /\ again' = [again EXCEPT ![w] = @ \cup {r}]
  /\ UNCHANGED <<job, history, process, settling, admin, bounds>>

DeleteOneAgain(w, r) ==
  /\ r \in again[w]
  /\ Acknowledge(r, "error")
  /\ again' = [again EXCEPT ![w] = @ \ {r}]
  /\ UNCHANGED <<job, history, process, settling, busy, saved, admin, bounds>>

\* The meta tile leaves the pipeline without delete_one: TooManyError is raised
\* before it, or a store returned None.
Abandon(w, r) ==
  /\ "abandon" \in Troubles /\ r \in Held(w) \cup again[w]
  /\ busy' = [busy EXCEPT ![w] = @ \ {r}]
  /\ saved' = [saved EXCEPT ![w] = @ \ {r}]
  /\ again' = [again EXCEPT ![w] = @ \ {r}]
  /\ UNCHANGED <<tables, history, process, settling, admin, bounds>>

-----------------------------------------------------------------------------
(* Time and crashes.                                                       *)

Generating(p, j) == pc[p] \in {"start", "put"} /\ cur[p] = j

\* max_pending_minutes is meant to be longer than any generation: entries and
\* jobs somebody works on get too old only as one of the troubles.
RowTimesOut(r) ==
  /\ queue[r] = "pending" /\ r \notin late
  /\ "slow_tile" \in Troubles \/ \A w \in Workers : r \notin Held(w)
  /\ late' = late \cup {r}
  /\ UNCHANGED <<job, queue, history, process, settling, work, admin, bounds>>

JobTimesOut(j) ==
  /\ status[j] = "pending" /\ startedAt[j] = "recent"
  /\ "slow_generation" \in Troubles \/ \A w \in Workers : ~Generating(w, j)
  /\ startedAt' = [startedAt EXCEPT ![j] = "old"]
  /\ UNCHANGED <<status, tilesStarted, total, queue, late, history, process,
                 settling, work, admin, bounds>>

\* A process dies; its open transaction is rolled back and a worker is restarted.
Crash(p) ==
  /\ crashes < MaxCrashes
  /\ crashes' = crashes + 1
  /\ Goto(p, IF p \in Workers THEN "restart" ELSE "off")
  /\ cur' = [cur EXCEPT ![p] = None]
  /\ toPut' = [toPut EXCEPT ![p] = {}]
  /\ cfgs' = [w \in Workers |-> IF w = p THEN {} ELSE cfgs[w]]
  /\ locked' = [w \in Workers |-> IF w = p THEN {} ELSE locked[w]]
  /\ todo' = [w \in Workers |-> IF w = p THEN {} ELSE todo[w]]
  /\ verdict' = [w \in Workers |-> IF w = p THEN {} ELSE verdict[w]]
  /\ busy' = [w \in Workers |-> IF w = p THEN {} ELSE busy[w]]
  /\ saved' = [w \in Workers |-> IF w = p THEN {} ELSE saved[w]]
  /\ again' = [w \in Workers |-> IF w = p THEN {} ELSE again[w]]
  /\ UNCHANGED <<tables, history, run, admin, requests>>

-----------------------------------------------------------------------------
Maintain(w) ==
  \/ RestartJobs(w) \/ ReadConfigs(w)
  \/ \E c \in Configs : ClaimJob(w, c)
  \/ ClaimsDone(w) \/ StartWithoutQueue(w) \/ ClearQueue(w) \/ EndGeneration(w)
  \/ LockStarted(w)
  \/ \E j \in Jobs : CountCreated(w, j)
  \/ CountPending(w) \/ CountError(w) \/ CommitFinish(w) \/ ResetRows(w)

List(w) ==
  \/ SelectConfigs(w)
  \/ \E c \in Configs : Take(w, c) \/ NothingToTake(w, c)

Generate(w, r) ==
  \/ Save(w, r) \/ DeleteOne(w, r) \/ DeleteOneError(w, r) \/ DeleteOneAgain(w, r)
  \/ Abandon(w, r)

Time == (\E r \in Rows : RowTimesOut(r)) \/ \E j \in Jobs : JobTimesOut(j)

Request(a) ==
  \/ \E op \in {"cancel", "retry"}, j \in Jobs : AdminCheck(a, op, j)
  \/ RetryApply(a) \/ CancelApply(a)

Next ==
  \/ CreateJob
  \/ \E a \in Admins : Request(a)
  \/ \E c \in Clis : CliCreate(c) \/ CliActivate(c)
  \/ \E p \in Process : PutRows(p) \/ Crash(p)
  \/ \E w \in Workers : Maintain(w) \/ List(w) \/ \E r \in Rows : Generate(w, r)
  \/ Time

Spec == Init /\ [][Next]_vars

-----------------------------------------------------------------------------
(* What the queue must guarantee.                                          *)

\* The queue of a job is never created by two processes at once: the claim is a
\* compare-and-set on job.status (holds unless a generation outlives max_pending).
OneGenerator ==
  \A p, q \in Process, j \in Jobs : Generating(p, j) /\ Generating(q, j) => p = q

\* An entry is never generated by two workers at once, and a worker that holds an
\* entry holds it as pending (holds unless a tile outlives max_pending).
OneHolder ==
  \A w \in Workers : \A r \in Held(w) :
    queue[r] = "pending" /\ \A v \in Workers : r \in Held(v) => v = w

\* A job has at most one entry for a meta tile, whatever crashed while its queue was
\* created: a new run first deletes what an earlier one left.
NoDuplicateEntry ==
  \A r, s \in Rows : /\ queue[r] # "absent" /\ queue[s] # "absent"
                     /\ r.job = s.job /\ r.tile = s.tile
                     => r = s

\* Each meta tile of a job that is started or done is in the cache or in the queue:
\* crashes, timeouts, retries and late acknowledgements lose none.
NoTileLost ==
  \A j \in JobsIn("started") \cup JobsIn("done") :
    \A t \in TilesOf[j] : <<j, t>> \in stored \/ \E r \in RowsOf(j) : r.tile = t

\* A job settled as done or in error has no entry left to generate: nobody would
\* take it, since workers only serve started jobs.
SettledIsEmpty ==
  \A j \in JobsIn("done") \cup JobsIn("error") :
    RowsIn(j, "created") = {} /\ RowsIn(j, "pending") = {}

\* When a job is done, all its meta tiles are in the cache.
DoneMeansGenerated ==
  \A j \in JobsIn("done") : \A t \in TilesOf[j] : <<j, t>> \in stored

\* A retry requeues no meta tile whose tiles are already in the cache.
RetryKeepsGenerated ==
  [][\A r \in Rows : queue[r] = "error" /\ queue'[r] = "created"
                     => <<r.job, r.tile>> \notin stored]_vars

-----------------------------------------------------------------------------
(* Liveness.  A worker keeps calling list() and finishes the meta tiles it *)
(* takes; a request that began ends; time passes for what nobody works on. *)

Fairness ==
  /\ \A w \in Workers : /\ WF_vars(Maintain(w) \/ List(w) \/ PutRows(w))
                        /\ \A r \in Rows : /\ WF_vars(Save(w, r) \/ DeleteOneError(w, r))
                                           /\ WF_vars(DeleteOne(w, r))
                                           /\ WF_vars(DeleteOneAgain(w, r))
  /\ \A c \in Clis : WF_vars(PutRows(c) \/ CliActivate(c))
  /\ \A a \in Admins : WF_vars(RetryApply(a) \/ CancelApply(a))
  /\ \A r \in Rows : WF_vars(RowTimesOut(r))
  /\ \A j \in Jobs : WF_vars(JobTimesOut(j))

FairSpec == Spec /\ Fairness

\* Every job is settled in the end, in spite of crashes.
EveryJobSettles ==
  \A j \in Jobs : status[j] \in {"created", "pending", "started"}
                  ~> status[j] \in {"error", "done", "cancelled"}

\* A job whose queue is being created does not stay so for ever.
PendingJobRestarts ==
  \A j \in Jobs : status[j] = "pending" ~> status[j] # "pending"
=============================================================================
