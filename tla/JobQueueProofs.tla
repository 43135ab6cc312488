--------------------------- MODULE JobQueueProofs ---------------------------
(***************************************************************************)
(* Proofs about JobQueue, for any number of jobs, meta tiles, workers,     *)
(* command lines, administrators and crashes: the types, OneGenerator and  *)
(* OneHolder.  Each invariant is inductive as the conjunction named Inv;   *)
(* a lemma per conjunct goes through the actions one by one.               *)
(*                                                                         *)
(* Then about the end of the jobs: a settled job has no entry left to      *)
(* generate, the meta tiles of a done job are all in the cache, and the    *)
(* tables are a board of jobs (JobBoard).  The three counts of a           *)
(* settlement are three statements.  Together they are right if the        *)
(* entries only move from created to pending and from pending to error or  *)
(* out of the queue while the job is locked.  A reset of a too old entry   *)
(* by another worker goes the other way, so that there is one worker, or   *)
(* no entry is ever too old.                                               *)
(***************************************************************************)
EXTENDS JobQueueRefinement, FiniteSetTheorems, TLAPS

\* The entries of a job are finitely many: meta_tiles_total counts them.
LEMMA RowCount == \A j : Cardinality(RowsOf(j)) \in Nat
<1> SUFFICES ASSUME NEW j PROVE Cardinality(RowsOf(j)) \in Nat
  OBVIOUS
<1> DEFINE P == (1 .. MaxRuns) \X MetaTiles
           f == [r \in RowsOf(j) |-> <<r.run, r.tile>>]
<1>1. IsFiniteSet(P)
  <2>1. IsFiniteSet(1 .. MaxRuns)
    BY JobQueueAssumption, FS_Interval
  <2> QED
    BY <2>1, JobQueueAssumption, FS_Product
<1>2. f \in Injection(RowsOf(j), P)
  BY DEF RowsOf, Rows, Injection, IsInjective
<1>3. IsFiniteSet(RowsOf(j))
  BY <1>1, <1>2, FS_Injection
<1> QED
  BY <1>3, FS_CardinalityType

\* Below, what OneGenerator rests on.  A job that does not exist was never claimed.
FreshIsNull == \A j \in Jobs : status[j] = "none" => startedAt[j] = "null"

\* A job somebody asked to cancel or retry has left the states of the generation.
RequestedIsOpen ==
  \A a \in Admins : admin[a].op # "none" =>
    /\ admin[a].job \in Jobs
    /\ status[admin[a].job] \in {"started", "error", "done", "cancelled"}

\* A job is locked by one worker at a time, stays started while it is, and what a
\* worker settles is what it locked.
LockedIsStarted ==
  \A w \in Workers :
    /\ \A j \in locked[w] : status[j] = "started"
    /\ \A v \in Workers : v # w => locked[v] \cap locked[w] = {}
    /\ todo[w] \subseteq locked[w]
    /\ \A d \in verdict[w] : d[1] \in locked[w]
    /\ pc[w] \in {"count_pending", "count_error"} => cur[w] \in locked[w]
    /\ pc[w] \notin {"count", "count_pending", "count_error"} => verdict[w] = {}

\* A job whose queue is being created is pending, and its start is recent (a worker)
\* or NULL (a command line): it is not restarted.
GeneratingIsPending ==
  \A p \in Process, j \in Jobs : Generating(p, j) =>
    /\ status[j] = "pending"
    /\ startedAt[j] = IF p \in Workers THEN "recent" ELSE "null"

GeneratorInv ==
  TypeOK /\ FreshIsNull /\ RequestedIsOpen /\ LockedIsStarted /\ GeneratingIsPending
         /\ OneGenerator

\* The empty database, with the workers about to call list(), is well typed.
LEMMA InitTypeOK == Init => TypeOK
BY JobQueueAssumption DEF Init, TypeOK, Idle, Process, JobStatus, RowStatus, PC, Working

\* Every step keeps the types, action by action.
LEMMA NextTypeOK == TypeOK /\ [Next]_vars => TypeOK'
<1> SUFFICES ASSUME TypeOK, [Next]_vars PROVE TypeOK'
  OBVIOUS
<1> USE DEF vars, tables, job, history, process, settling, work, bounds
<1>1. ASSUME CreateJob PROVE TypeOK'
  <2>1. status' \in [Jobs -> JobStatus \cup {"none"}]
    BY <1>1 DEF TypeOK, CreateJob, JobStatus
  <2>2. UNCHANGED <<startedAt, tilesStarted, total, queue, late, runs, stored, pc, cur, run,
       toPut, cfgs, locked, todo, verdict, busy, saved, again, admin, crashes, requests>>
    BY <1>1 DEF CreateJob
  <2> QED
    BY <2>1, <2>2 DEF TypeOK
<1>2. ASSUME NEW a \in Admins, NEW op \in {"cancel", "retry"}, NEW j \in Jobs, AdminCheck(a,
     op, j) PROVE TypeOK'
  <2>1. admin' \in [Admins -> [op : {"none", "cancel", "retry"}, job : Jobs \cup {None}]]
    BY <1>2 DEF TypeOK, AdminCheck
  <2>2. requests' \in 0 .. MaxRequests
    BY <1>2, JobQueueAssumption DEF TypeOK, AdminCheck
  <2>3. UNCHANGED <<status, startedAt, tilesStarted, total, queue, late, runs, stored, pc, cur,
       run, toPut, cfgs, locked, todo, verdict, busy, saved, again, crashes>>
    BY <1>2 DEF AdminCheck
  <2> QED
    BY <2>1, <2>2, <2>3 DEF TypeOK
<1>3. ASSUME NEW a \in Admins, RetryApply(a) PROVE TypeOK'
  <2>1. status' \in [Jobs -> JobStatus \cup {"none"}]
    BY <1>3 DEF TypeOK, RetryApply, JobStatus
  <2>2. tilesStarted' \in [Jobs -> BOOLEAN]
    BY <1>3 DEF TypeOK, RetryApply
  <2>3. total' \in [Jobs -> Nat]
    BY <1>3, RowCount DEF TypeOK, RetryApply
  <2>4. queue' \in [Rows -> RowStatus]
    BY <1>3 DEF TypeOK, RetryApply, SetRows, RowStatus
  <2>5. admin' \in [Admins -> [op : {"none", "cancel", "retry"}, job : Jobs \cup {None}]]
    BY <1>3 DEF TypeOK, RetryApply, Idle
  <2>6. UNCHANGED <<startedAt, late, runs, stored, pc, cur, run, toPut, cfgs, locked, todo,
       verdict, busy, saved, again, crashes, requests>>
    BY <1>3 DEF RetryApply
  <2> QED
    BY <2>1, <2>2, <2>3, <2>4, <2>5, <2>6 DEF TypeOK
<1>4. ASSUME NEW a \in Admins, CancelApply(a) PROVE TypeOK'
  <2>1. status' \in [Jobs -> JobStatus \cup {"none"}]
    BY <1>4 DEF TypeOK, CancelApply, JobStatus
  <2>2. queue' \in [Rows -> RowStatus]
    BY <1>4 DEF TypeOK, CancelApply, SetRows, RowStatus
  <2>3. admin' \in [Admins -> [op : {"none", "cancel", "retry"}, job : Jobs \cup {None}]]
    BY <1>4 DEF TypeOK, CancelApply, Idle
  <2>4. UNCHANGED <<startedAt, tilesStarted, total, late, runs, stored, pc, cur, run, toPut,
       cfgs, locked, todo, verdict, busy, saved, again, crashes, requests>>
    BY <1>4 DEF CancelApply
  <2> QED
    BY <2>1, <2>2, <2>3, <2>4 DEF TypeOK
<1>5. ASSUME NEW c \in Clis, CliCreate(c) PROVE TypeOK'
  <2>1. status' \in [Jobs -> JobStatus \cup {"none"}]
    BY <1>5 DEF TypeOK, CliCreate, JobStatus
  <2>2. runs' \in [Jobs -> 0 .. MaxRuns]
    BY <1>5, JobQueueAssumption DEF TypeOK, CliCreate
  <2>3. cur' \in [Process -> Jobs \cup {None}]
    BY <1>5 DEF TypeOK, CliCreate, Process
  <2>4. run' \in [Process -> 0 .. MaxRuns]
    BY <1>5, JobQueueAssumption DEF TypeOK, CliCreate, Process
  <2>5. toPut' \in [Process -> SUBSET MetaTiles]
    <3>1. PICK j \in Jobs : KindOf[j] = "queue" /\ toPut' = [toPut EXCEPT ![c] = TilesOf[j]]
      BY <1>5 DEF CliCreate
    <3>2. TilesOf[j] \in SUBSET MetaTiles
      BY JobQueueAssumption
    <3> QED
      BY <3>1, <3>2 DEF TypeOK, Process
  <2>6. pc' \in [Process -> PC]
    BY <1>5 DEF TypeOK, CliCreate, Goto, PC, Process
  <2>7. UNCHANGED <<startedAt, tilesStarted, total, queue, late, stored, cfgs, locked, todo,
       verdict, busy, saved, again, admin, crashes, requests>>
    BY <1>5 DEF CliCreate
  <2>8. \A q \in Process : pc'[q] \in Working => cur'[q] \in Jobs
    BY <1>5 DEF TypeOK, CliCreate, Goto, Working, Process
  <2> QED
    BY <2>1, <2>2, <2>3, <2>4, <2>5, <2>6, <2>7, <2>8 DEF TypeOK
<1>6. ASSUME NEW c \in Clis, CliActivate(c) PROVE TypeOK'
  <2>1. status' \in [Jobs -> JobStatus \cup {"none"}]
    BY <1>6 DEF TypeOK, CliActivate, JobStatus
  <2>2. startedAt' \in [Jobs -> {"null", "recent", "old"}]
    BY <1>6 DEF TypeOK, CliActivate
  <2>3. total' \in [Jobs -> Nat]
    BY SMTT(40), <1>6, RowCount DEF TypeOK, CliActivate
  <2>4. cur' \in [Process -> Jobs \cup {None}]
    BY <1>6 DEF TypeOK, CliActivate, Process
  <2>5. pc' \in [Process -> PC]
    BY <1>6 DEF TypeOK, CliActivate, Goto, PC, Process
  <2>6. UNCHANGED <<tilesStarted, queue, late, runs, stored, run, toPut, cfgs, locked, todo,
       verdict, busy, saved, again, admin, crashes, requests>>
    BY <1>6 DEF CliActivate
  <2>7. \A q \in Process : pc'[q] \in Working => cur'[q] \in Jobs
    BY <1>6 DEF TypeOK, CliActivate, Goto, Working, Process
  <2> QED
    BY <2>1, <2>2, <2>3, <2>4, <2>5, <2>6, <2>7 DEF TypeOK
<1>7. ASSUME NEW p \in Process, PutRows(p) PROVE TypeOK'
  <2>1. queue' \in [Rows -> RowStatus]
    BY <1>7 DEF TypeOK, PutRows, SetRows, RowStatus
  <2>2. toPut' \in [Process -> SUBSET MetaTiles]
    BY <1>7 DEF TypeOK, PutRows
  <2>3. UNCHANGED <<status, startedAt, tilesStarted, total, late, runs, stored, pc, cur, run,
       cfgs, locked, todo, verdict, busy, saved, again, admin, crashes, requests>>
    BY <1>7 DEF PutRows
  <2> QED
    BY <2>1, <2>2, <2>3 DEF TypeOK
<1>8. ASSUME NEW p \in Process, Crash(p) PROVE TypeOK'
  <2>1. crashes' \in 0 .. MaxCrashes
    BY <1>8, JobQueueAssumption DEF TypeOK, Crash
  <2>2. pc' \in [Process -> PC]
    BY <1>8 DEF TypeOK, Crash, Goto, PC, Process
  <2>3. cur' \in [Process -> Jobs \cup {None}]
    BY <1>8 DEF TypeOK, Crash
  <2>4. toPut' \in [Process -> SUBSET MetaTiles]
    BY <1>8 DEF TypeOK, Crash
  <2>5. cfgs' \in [Workers -> SUBSET Configs]
    BY <1>8 DEF TypeOK, Crash
  <2>6. locked' \in [Workers -> SUBSET Jobs]
    BY <1>8 DEF TypeOK, Crash
  <2>7. todo' \in [Workers -> SUBSET Jobs]
    BY <1>8 DEF TypeOK, Crash
  <2>8. verdict' \in [Workers -> SUBSET (Jobs \X {"done", "error"})]
    BY <1>8 DEF TypeOK, Crash
  <2>9. busy' \in [Workers -> SUBSET Rows]
    BY <1>8 DEF TypeOK, Crash
  <2>10. saved' \in [Workers -> SUBSET Rows]
    BY <1>8 DEF TypeOK, Crash
  <2>11. UNCHANGED <<status, startedAt, tilesStarted, total, queue, late, runs, stored, run,
       admin, requests>>
    BY <1>8 DEF Crash
  <2>13. again' \in [Workers -> SUBSET Rows]
    BY <1>8 DEF TypeOK, Crash
  <2>12. \A q \in Process : pc'[q] \in Working => cur'[q] \in Jobs
    BY <1>8 DEF TypeOK, Crash, Goto, Working, Process
  <2> QED
    BY <2>1, <2>2, <2>3, <2>4, <2>5, <2>6, <2>7, <2>8, <2>9, <2>10, <2>11, <2>12, <2>13
    DEF TypeOK
<1>9. ASSUME NEW w \in Workers, RestartJobs(w) PROVE TypeOK'
  <2>1. status' \in [Jobs -> JobStatus \cup {"none"}]
    BY <1>9 DEF TypeOK, RestartJobs, JobStatus
  <2>2. pc' \in [Process -> PC]
    BY <1>9 DEF TypeOK, RestartJobs, Goto, PC, Process
  <2>3. UNCHANGED <<startedAt, tilesStarted, total, queue, late, runs, stored, cur, run, toPut,
       cfgs, locked, todo, verdict, busy, saved, again, admin, crashes, requests>>
    BY <1>9 DEF RestartJobs
  <2>4. \A q \in Process : pc'[q] \in Working => cur'[q] \in Jobs
    BY <1>9 DEF TypeOK, RestartJobs, Goto, Working, Process
  <2> QED
    BY <2>1, <2>2, <2>3, <2>4 DEF TypeOK
<1>10. ASSUME NEW w \in Workers, ReadConfigs(w) PROVE TypeOK'
  <2>1. cfgs' \in [Workers -> SUBSET Configs]
    <3>1. ConfigsIn("started") \subseteq Configs /\ ConfigsIn("created") \subseteq Configs
      BY JobQueueAssumption DEF ConfigsIn, JobsIn
    <3>2. \E S \in SUBSET Configs : cfgs' = [cfgs EXCEPT ![w] = S]
      <4>1. CASE cfgs' = [cfgs EXCEPT ![w] = ConfigsIn("started")]
        BY <3>1, <4>1
      <4>2. CASE cfgs' = [cfgs EXCEPT ![w] = ConfigsIn("created") \ @]
        <5>1. cfgs' = [cfgs EXCEPT ![w] = ConfigsIn("created") \ cfgs[w]]
          BY <4>2
        <5> QED
          BY <3>1, <5>1
      <4> QED
        BY <1>10, <4>1, <4>2 DEF ReadConfigs
    <3> QED
      BY <3>2 DEF TypeOK
  <2>2. pc' \in [Process -> PC]
    BY SMTT(40), <1>10 DEF TypeOK, ReadConfigs, Goto, PC, Process
  <2>3. UNCHANGED <<status, startedAt, tilesStarted, total, queue, late, runs, stored, cur,
       run, toPut, locked, todo, verdict, busy, saved, again, admin, crashes, requests>>
    BY <1>10 DEF ReadConfigs
  <2>4. \A q \in Process : pc'[q] \in Working => cur'[q] \in Jobs
    BY <1>10 DEF TypeOK, ReadConfigs, Goto, Working, Process
  <2> QED
    BY <2>1, <2>2, <2>3, <2>4 DEF TypeOK
<1>11. ASSUME NEW w \in Workers, NEW c \in Configs, ClaimJob(w, c) PROVE TypeOK'
  <2>1. cfgs' \in [Workers -> SUBSET Configs]
    BY <1>11 DEF TypeOK, ClaimJob
  <2>2. UNCHANGED <<stored, toPut, locked, todo, verdict, busy, saved, again, admin, crashes,
       requests>>
    BY <1>11 DEF ClaimJob
  <2>3. CASE UNCHANGED <<tables, runs, pc, cur, run>>
    BY <2>1, <2>2, <2>3 DEF TypeOK
  <2>4. ASSUME NEW j \in Jobs, Claim(w, j) PROVE TypeOK'
    <3>1. status' \in [Jobs -> JobStatus \cup {"none"}]
      BY <2>4 DEF TypeOK, Claim, JobStatus
    <3>2. /\ startedAt' \in [Jobs -> {"null", "recent", "old"}]
          /\ tilesStarted' \in [Jobs -> BOOLEAN]
          /\ total' \in [Jobs -> Nat]
      BY <2>4 DEF TypeOK, Claim
    <3>3. runs' \in [Jobs -> 0 .. MaxRuns] /\ run' \in [Process -> 0 .. MaxRuns]
      BY <2>4, JobQueueAssumption DEF TypeOK, Claim, Process
    <3>4. cur' \in [Process -> Jobs \cup {None}] /\ pc' \in [Process -> PC]
      BY <2>4 DEF TypeOK, Claim, Goto, PC, Process
    <3>5. \A q \in Process : pc'[q] \in Working => cur'[q] \in Jobs
      BY <2>4 DEF TypeOK, Claim, Goto, Working, Process
    <3> QED
      BY <2>1, <2>2, <2>4, <3>1, <3>2, <3>3, <3>4, <3>5 DEF TypeOK, Claim
  <2> QED
    BY <1>11, <2>3, <2>4 DEF ClaimJob, JobsIn
<1>12. ASSUME NEW w \in Workers, ClaimsDone(w) PROVE TypeOK'
  <2>1. pc' \in [Process -> PC]
    BY <1>12 DEF TypeOK, ClaimsDone, Goto, PC, Process
  <2>2. UNCHANGED <<status, startedAt, tilesStarted, total, queue, late, runs, stored, cur,
       run, toPut, cfgs, locked, todo, verdict, busy, saved, again, admin, crashes, requests>>
    BY <1>12 DEF ClaimsDone
  <2>3. \A q \in Process : pc'[q] \in Working => cur'[q] \in Jobs
    BY <1>12 DEF TypeOK, ClaimsDone, Goto, Working, Process
  <2> QED
    BY <2>1, <2>2, <2>3 DEF TypeOK
<1>13. ASSUME NEW w \in Workers, StartWithoutQueue(w) PROVE TypeOK'
  <2>1. status' \in [Jobs -> JobStatus \cup {"none"}]
    BY <1>13 DEF TypeOK, StartWithoutQueue, JobStatus
  <2>2. cur' \in [Process -> Jobs \cup {None}]
    BY <1>13 DEF TypeOK, StartWithoutQueue, Process
  <2>3. pc' \in [Process -> PC]
    BY <1>13 DEF TypeOK, StartWithoutQueue, Goto, PC, Process
  <2>4. UNCHANGED <<startedAt, tilesStarted, total, queue, late, runs, stored, run, toPut,
       cfgs, locked, todo, verdict, busy, saved, again, admin, crashes, requests>>
    BY <1>13 DEF StartWithoutQueue
  <2>5. \A q \in Process : pc'[q] \in Working => cur'[q] \in Jobs
    BY <1>13 DEF TypeOK, StartWithoutQueue, Goto, Working, Process
  <2> QED
    BY <2>1, <2>2, <2>3, <2>4, <2>5 DEF TypeOK
<1>14. ASSUME NEW w \in Workers, ClearQueue(w) PROVE TypeOK'
  <2>1. queue' \in [Rows -> RowStatus]
    BY <1>14 DEF TypeOK, ClearQueue, SetRows, RowStatus
  <2>2. late' \subseteq Rows
    BY <1>14 DEF TypeOK, ClearQueue
  <2>3. toPut' \in [Process -> SUBSET MetaTiles]
    <3>1. cur[w] \in Jobs
      BY <1>14 DEF TypeOK, ClearQueue, Process, Working
    <3>2. TilesOf[cur[w]] \in SUBSET MetaTiles
      BY <3>1, JobQueueAssumption
    <3> QED
      BY <1>14, <3>2 DEF TypeOK, ClearQueue, Process
  <2>4. pc' \in [Process -> PC]
    BY <1>14 DEF TypeOK, ClearQueue, Goto, PC, Process
  <2>5. UNCHANGED <<status, startedAt, tilesStarted, total, runs, stored, cur, run, cfgs,
       locked, todo, verdict, busy, saved, again, admin, crashes, requests>>
    BY <1>14 DEF ClearQueue
  <2>6. \A q \in Process : pc'[q] \in Working => cur'[q] \in Jobs
    BY <1>14 DEF TypeOK, ClearQueue, Goto, Working, Process
  <2> QED
    BY <2>1, <2>2, <2>3, <2>4, <2>5, <2>6 DEF TypeOK
<1>15. ASSUME NEW w \in Workers, EndGeneration(w) PROVE TypeOK'
  <2>1. status' \in [Jobs -> JobStatus \cup {"none"}]
    BY <1>15 DEF TypeOK, EndGeneration, JobStatus
  <2>2. tilesStarted' \in [Jobs -> BOOLEAN]
    BY <1>15 DEF TypeOK, EndGeneration
  <2>3. total' \in [Jobs -> Nat]
    BY <1>15, RowCount DEF TypeOK, EndGeneration
  <2>4. toPut' \in [Process -> SUBSET MetaTiles]
    BY <1>15 DEF TypeOK, EndGeneration, Process
  <2>5. cur' \in [Process -> Jobs \cup {None}]
    BY <1>15 DEF TypeOK, EndGeneration, Process
  <2>6. pc' \in [Process -> PC]
    BY <1>15 DEF TypeOK, EndGeneration, Goto, PC, Process
  <2>7. UNCHANGED <<startedAt, queue, late, runs, stored, run, cfgs, locked, todo, verdict,
       busy, saved, again, admin, crashes, requests>>
    BY <1>15 DEF EndGeneration
  <2>8. \A q \in Process : pc'[q] \in Working => cur'[q] \in Jobs
    BY <1>15 DEF TypeOK, EndGeneration, Goto, Working, Process
  <2> QED
    BY <2>1, <2>2, <2>3, <2>4, <2>5, <2>6, <2>7, <2>8 DEF TypeOK
<1>16. ASSUME NEW w \in Workers, LockStarted(w) PROVE TypeOK'
  <2>1. locked' \in [Workers -> SUBSET Jobs]
    BY <1>16 DEF TypeOK, LockStarted, JobsIn
  <2>2. todo' \in [Workers -> SUBSET Jobs]
    BY <1>16 DEF TypeOK, LockStarted, JobsIn
  <2>3. pc' \in [Process -> PC]
    BY <1>16 DEF TypeOK, LockStarted, Goto, PC, Process
  <2>4. UNCHANGED <<status, startedAt, tilesStarted, total, queue, late, runs, stored, cur,
       run, toPut, cfgs, verdict, busy, saved, again, admin, crashes, requests>>
    BY <1>16 DEF LockStarted
  <2>5. \A q \in Process : pc'[q] \in Working => cur'[q] \in Jobs
    BY <1>16 DEF TypeOK, LockStarted, Goto, Working, Process
  <2> QED
    BY <2>1, <2>2, <2>3, <2>4, <2>5 DEF TypeOK
<1>17. ASSUME NEW w \in Workers, NEW j \in Jobs, CountCreated(w, j) PROVE TypeOK'
  <2>1. todo' \in [Workers -> SUBSET Jobs]
    BY <1>17 DEF TypeOK, CountCreated
  <2>2. cur' \in [Process -> Jobs \cup {None}]
    BY <1>17 DEF TypeOK, CountCreated, Process
  <2>3. pc' \in [Process -> PC]
    BY <1>17 DEF TypeOK, CountCreated, Goto, PC, Process
  <2>4. UNCHANGED <<status, startedAt, tilesStarted, total, queue, late, runs, stored, run,
       toPut, cfgs, locked, verdict, busy, saved, again, admin, crashes, requests>>
    BY <1>17 DEF CountCreated
  <2>5. \A q \in Process : pc'[q] \in Working => cur'[q] \in Jobs
    BY <1>17 DEF TypeOK, CountCreated, Goto, Working, Process
  <2> QED
    BY <2>1, <2>2, <2>3, <2>4, <2>5 DEF TypeOK
<1>18. ASSUME NEW w \in Workers, CountPending(w) PROVE TypeOK'
  <2>1. pc' \in [Process -> PC]
    BY <1>18 DEF TypeOK, CountPending, Goto, PC, Process
  <2>2. UNCHANGED <<status, startedAt, tilesStarted, total, queue, late, runs, stored, cur,
       run, toPut, cfgs, locked, todo, verdict, busy, saved, again, admin, crashes, requests>>
    BY <1>18 DEF CountPending
  <2>3. \A q \in Process : pc'[q] \in Working => cur'[q] \in Jobs
    BY <1>18 DEF TypeOK, CountPending, Goto, Working, Process
  <2> QED
    BY <2>1, <2>2, <2>3 DEF TypeOK
<1>19. ASSUME NEW w \in Workers, CountError(w) PROVE TypeOK'
  <2>1. verdict' \in [Workers -> SUBSET (Jobs \X {"done", "error"})]
    <3>1. cur[w] \in Jobs
      BY <1>19 DEF TypeOK, CountError, Process, Working
    <3>2. \A s \in {"done", "error"} : verdict[w] \cup {<<cur[w],
         s>>} \in SUBSET (Jobs \X {"done", "error"})
      BY <3>1 DEF TypeOK
    <3>3. PICK s \in {"done",
         "error"} : verdict' = [verdict EXCEPT ![w] = verdict[w] \cup {<<cur[w], s>>}]
      BY <1>19 DEF CountError
    <3> QED
      BY <3>2, <3>3 DEF TypeOK
  <2>2. pc' \in [Process -> PC]
    BY <1>19 DEF TypeOK, CountError, Goto, PC, Process
  <2>3. UNCHANGED <<status, startedAt, tilesStarted, total, queue, late, runs, stored, cur,
       run, toPut, cfgs, locked, todo, busy, saved, again, admin, crashes, requests>>
    BY <1>19 DEF CountError
  <2>4. \A q \in Process : pc'[q] \in Working => cur'[q] \in Jobs
    BY <1>19 DEF TypeOK, CountError, Goto, Working, Process
  <2> QED
    BY <2>1, <2>2, <2>3, <2>4 DEF TypeOK
<1>20. ASSUME NEW w \in Workers, CommitFinish(w) PROVE TypeOK'
  <2>1. status' \in [Jobs -> JobStatus \cup {"none"}]
    BY <1>20 DEF TypeOK, CommitFinish, JobStatus
  <2>2. locked' \in [Workers -> SUBSET Jobs]
    BY <1>20 DEF TypeOK, CommitFinish
  <2>3. verdict' \in [Workers -> SUBSET (Jobs \X {"done", "error"})]
    BY <1>20 DEF TypeOK, CommitFinish
  <2>4. cur' \in [Process -> Jobs \cup {None}]
    BY <1>20 DEF TypeOK, CommitFinish, Process
  <2>5. pc' \in [Process -> PC]
    BY <1>20 DEF TypeOK, CommitFinish, Goto, PC, Process
  <2>6. UNCHANGED <<startedAt, tilesStarted, total, queue, late, runs, stored, run, toPut,
       cfgs, todo, busy, saved, again, admin, crashes, requests>>
    BY <1>20 DEF CommitFinish
  <2>7. \A q \in Process : pc'[q] \in Working => cur'[q] \in Jobs
    BY <1>20 DEF TypeOK, CommitFinish, Goto, Working, Process
  <2> QED
    BY <2>1, <2>2, <2>3, <2>4, <2>5, <2>6, <2>7 DEF TypeOK
<1>21. ASSUME NEW w \in Workers, ResetRows(w) PROVE TypeOK'
  <2>1. queue' \in [Rows -> RowStatus]
    BY <1>21 DEF TypeOK, ResetRows, SetRows, RowStatus
  <2>2. late' \subseteq Rows
    BY <1>21 DEF TypeOK, ResetRows
  <2>3. pc' \in [Process -> PC]
    BY <1>21 DEF TypeOK, ResetRows, Goto, PC, Process
  <2>4. UNCHANGED <<status, startedAt, tilesStarted, total, runs, stored, cur, run, toPut,
       cfgs, locked, todo, verdict, busy, saved, again, admin, crashes, requests>>
    BY <1>21 DEF ResetRows
  <2>5. \A q \in Process : pc'[q] \in Working => cur'[q] \in Jobs
    BY <1>21 DEF TypeOK, ResetRows, Goto, Working, Process
  <2> QED
    BY <2>1, <2>2, <2>3, <2>4, <2>5 DEF TypeOK
<1>22. ASSUME NEW w \in Workers, SelectConfigs(w) PROVE TypeOK'
  <2>1. cfgs' \in [Workers -> SUBSET Configs]
    BY <1>22, JobQueueAssumption DEF TypeOK, SelectConfigs, ConfigsIn, JobsIn
  <2>2. pc' \in [Process -> PC]
    BY <1>22 DEF TypeOK, SelectConfigs, Goto, PC, Process
  <2>3. UNCHANGED <<status, startedAt, tilesStarted, total, queue, late, runs, stored, cur,
       run, toPut, locked, todo, verdict, busy, saved, again, admin, crashes, requests>>
    BY <1>22 DEF SelectConfigs
  <2>4. \A q \in Process : pc'[q] \in Working => cur'[q] \in Jobs
    BY <1>22 DEF TypeOK, SelectConfigs, Goto, Working, Process
  <2> QED
    BY <2>1, <2>2, <2>3, <2>4 DEF TypeOK
<1>23. ASSUME NEW w \in Workers, NEW c \in Configs, Take(w, c) PROVE TypeOK'
  <2>1. queue' \in [Rows -> RowStatus]
    BY <1>23 DEF TypeOK, Take, RowStatus
  <2>2. tilesStarted' \in [Jobs -> BOOLEAN]
    BY <1>23 DEF TypeOK, Take
  <2>3. busy' \in [Workers -> SUBSET Rows]
    BY <1>23 DEF TypeOK, Take, Available
  <2>4. cfgs' \in [Workers -> SUBSET Configs]
    BY <1>23 DEF TypeOK, Take
  <2>5. pc' \in [Process -> PC]
    BY <1>23 DEF TypeOK, Take, Goto, PC, Process
  <2>6. UNCHANGED <<status, startedAt, total, late, runs, stored, cur, run, toPut, locked,
       todo, verdict, saved, again, admin, crashes, requests>>
    BY <1>23 DEF Take
  <2>7. \A q \in Process : pc'[q] \in Working => cur'[q] \in Jobs
    BY <1>23 DEF TypeOK, Take, Goto, Working, Process
  <2> QED
    BY <2>1, <2>2, <2>3, <2>4, <2>5, <2>6, <2>7 DEF TypeOK
<1>24. ASSUME NEW w \in Workers, NEW c \in Configs, NothingToTake(w, c) PROVE TypeOK'
  <2>1. cfgs' \in [Workers -> SUBSET Configs]
    BY <1>24 DEF TypeOK, NothingToTake
  <2>2. pc' \in [Process -> PC]
    BY <1>24 DEF TypeOK, NothingToTake, Goto, PC, Process
  <2>3. UNCHANGED <<status, startedAt, tilesStarted, total, queue, late, runs, stored, cur,
       run, toPut, locked, todo, verdict, busy, saved, again, admin, crashes, requests>>
    BY <1>24 DEF NothingToTake
  <2>4. \A q \in Process : pc'[q] \in Working => cur'[q] \in Jobs
    BY <1>24 DEF TypeOK, NothingToTake, Goto, Working, Process
  <2> QED
    BY <2>1, <2>2, <2>3, <2>4 DEF TypeOK
<1>25. ASSUME NEW w \in Workers, NEW r \in Rows, Save(w, r) PROVE TypeOK'
  <2>1. stored' \subseteq (Jobs \X MetaTiles)
    BY <1>25 DEF TypeOK, Save, Rows
  <2>2. busy' \in [Workers -> SUBSET Rows]
    BY <1>25 DEF TypeOK, Save
  <2>3. saved' \in [Workers -> SUBSET Rows]
    BY <1>25 DEF TypeOK, Save
  <2>4. UNCHANGED <<status, startedAt, tilesStarted, total, queue, late, runs, pc, cur, run,
       toPut, cfgs, locked, todo, verdict, again, admin, crashes, requests>>
    BY <1>25 DEF Save
  <2> QED
    BY <2>1, <2>2, <2>3, <2>4 DEF TypeOK
<1>26. ASSUME NEW w \in Workers, NEW r \in Rows, DeleteOne(w, r) PROVE TypeOK'
  <2>1. queue' \in [Rows -> RowStatus]
    BY <1>26 DEF TypeOK, DeleteOne, Acknowledge, RowStatus
  <2>2. late' \subseteq Rows
    BY <1>26 DEF TypeOK, DeleteOne, Acknowledge
  <2>3. saved' \in [Workers -> SUBSET Rows]
    BY <1>26 DEF TypeOK, DeleteOne
  <2>4. UNCHANGED <<status, startedAt, tilesStarted, total, runs, stored, pc, cur, run, toPut,
       cfgs, locked, todo, verdict, busy, again, admin, crashes, requests>>
    BY <1>26 DEF DeleteOne
  <2> QED
    BY <2>1, <2>2, <2>3, <2>4 DEF TypeOK
<1>27. ASSUME NEW w \in Workers, NEW r \in Rows, DeleteOneError(w, r) PROVE TypeOK'
  <2>1. queue' \in [Rows -> RowStatus]
    BY <1>27 DEF TypeOK, DeleteOneError, Acknowledge, RowStatus
  <2>2. late' \subseteq Rows
    BY <1>27 DEF TypeOK, DeleteOneError, Acknowledge
  <2>3. busy' \in [Workers -> SUBSET Rows]
    BY <1>27 DEF TypeOK, DeleteOneError
  <2>4. saved' \in [Workers -> SUBSET Rows]
    BY <1>27 DEF TypeOK, DeleteOneError
  <2>5. again' \in [Workers -> SUBSET Rows]
    BY SMTT(40), <1>27 DEF TypeOK, DeleteOneError
  <2>6. UNCHANGED <<status, startedAt, tilesStarted, total, runs, stored, pc, cur, run, toPut,
       cfgs, locked, todo, verdict, admin, crashes, requests>>
    BY <1>27 DEF DeleteOneError
  <2> QED
    BY <2>1, <2>2, <2>3, <2>4, <2>5, <2>6 DEF TypeOK
<1>28. ASSUME NEW w \in Workers, NEW r \in Rows, Abandon(w, r) PROVE TypeOK'
  <2>1. busy' \in [Workers -> SUBSET Rows]
    BY <1>28 DEF TypeOK, Abandon
  <2>2. saved' \in [Workers -> SUBSET Rows]
    BY <1>28 DEF TypeOK, Abandon
  <2>3. again' \in [Workers -> SUBSET Rows]
    BY <1>28 DEF TypeOK, Abandon
  <2>4. UNCHANGED <<status, startedAt, tilesStarted, total, queue, late, runs, stored, pc, cur,
       run, toPut, cfgs, locked, todo, verdict, admin, crashes, requests>>
    BY <1>28 DEF Abandon
  <2> QED
    BY <2>1, <2>2, <2>3, <2>4 DEF TypeOK
<1>29. ASSUME NEW r \in Rows, RowTimesOut(r) PROVE TypeOK'
  <2>1. late' \subseteq Rows
    BY <1>29 DEF TypeOK, RowTimesOut
  <2>2. UNCHANGED <<status, startedAt, tilesStarted, total, queue, runs, stored, pc, cur, run,
       toPut, cfgs, locked, todo, verdict, busy, saved, again, admin, crashes, requests>>
    BY <1>29 DEF RowTimesOut
  <2> QED
    BY <2>1, <2>2 DEF TypeOK
<1>30. ASSUME NEW j \in Jobs, JobTimesOut(j) PROVE TypeOK'
  <2>1. startedAt' \in [Jobs -> {"null", "recent", "old"}]
    BY <1>30 DEF TypeOK, JobTimesOut
  <2>2. UNCHANGED <<status, tilesStarted, total, queue, late, runs, stored, pc, cur, run,
       toPut, cfgs, locked, todo, verdict, busy, saved, again, admin, crashes, requests>>
    BY <1>30 DEF JobTimesOut
  <2> QED
    BY <2>1, <2>2 DEF TypeOK
<1>32. ASSUME NEW w \in Workers, NEW r \in Rows, DeleteOneAgain(w, r) PROVE TypeOK'
  <2>1. queue' \in [Rows -> RowStatus]
    BY <1>32 DEF TypeOK, DeleteOneAgain, Acknowledge, RowStatus
  <2>2. late' \subseteq Rows
    BY <1>32 DEF TypeOK, DeleteOneAgain, Acknowledge
  <2>3. again' \in [Workers -> SUBSET Rows]
    BY <1>32 DEF TypeOK, DeleteOneAgain
  <2>4. UNCHANGED <<status, startedAt, tilesStarted, total, runs, stored, pc, cur, run, toPut,
       cfgs, locked, todo, verdict, busy, saved, admin, crashes, requests>>
    BY <1>32 DEF DeleteOneAgain
  <2> QED
    BY <2>1, <2>2, <2>3, <2>4 DEF TypeOK
<1>31. CASE UNCHANGED vars
  BY <1>31 DEF TypeOK, Working
<1> QED
  BY <1>1, <1>2, <1>3, <1>4, <1>5, <1>6, <1>7, <1>8, <1>9, <1>10, <1>11, <1>12, <1>13, <1>14,
       <1>15, <1>16, <1>17, <1>18, <1>19, <1>20, <1>21, <1>22, <1>23, <1>24, <1>25, <1>26,
       <1>27, <1>28, <1>29, <1>30, <1>31, <1>32
  DEF Next, Request, Maintain, List, Generate, Time

\* Every state of the system is well typed, and a process that works on a job has one.
THEOREM TypeCorrect == Spec => []TypeOK
<1>1. Init => TypeOK
  BY InitTypeOK
<1>2. TypeOK /\ [Next]_vars => TypeOK'
  BY NextTypeOK
<1> QED
  BY <1>1, <1>2, PTL DEF Spec

\* Only claims and activations write started_at, and both need a job that exists.
LEMMA NextFresh ==
  ASSUME TypeOK, FreshIsNull, [Next]_vars
  PROVE  FreshIsNull'
<1> USE DEF vars, tables, job, history, process, settling, work, bounds
<1>1. ASSUME CreateJob PROVE FreshIsNull'
  BY <1>1 DEF TypeOK, FreshIsNull, Goto, CreateJob, IsNextId, IsOldest, JobsIn
<1>2. ASSUME NEW a \in Admins, NEW op \in {"cancel", "retry"}, NEW j \in Jobs, AdminCheck(a,
     op, j) PROVE FreshIsNull'
  BY <1>2 DEF TypeOK, FreshIsNull, Goto, AdminCheck
<1>3. ASSUME NEW a \in Admins, RetryApply(a) PROVE FreshIsNull'
  BY <1>3 DEF TypeOK, FreshIsNull, Goto, RetryApply
<1>4. ASSUME NEW a \in Admins, CancelApply(a) PROVE FreshIsNull'
  BY <1>4 DEF TypeOK, FreshIsNull, Goto, CancelApply
<1>5. ASSUME NEW c \in Clis, CliCreate(c) PROVE FreshIsNull'
  BY <1>5 DEF TypeOK, FreshIsNull, Goto, CliCreate, IsNextId, IsOldest, JobsIn
<1>6. ASSUME NEW c \in Clis, CliActivate(c) PROVE FreshIsNull'
  BY <1>6 DEF TypeOK, FreshIsNull, Goto, CliActivate
<1>7. ASSUME NEW p \in Process, PutRows(p) PROVE FreshIsNull'
  BY <1>7 DEF TypeOK, FreshIsNull, Goto, PutRows
<1>8. ASSUME NEW p \in Process, Crash(p) PROVE FreshIsNull'
  BY <1>8 DEF TypeOK, FreshIsNull, Goto, Crash
<1>9. ASSUME NEW w \in Workers, RestartJobs(w) PROVE FreshIsNull'
  BY <1>9 DEF TypeOK, FreshIsNull, Goto, RestartJobs, TooLongPending
<1>10. ASSUME NEW w \in Workers, ReadConfigs(w) PROVE FreshIsNull'
  BY <1>10 DEF TypeOK, FreshIsNull, Goto, ReadConfigs
<1>11. ASSUME NEW w \in Workers, NEW c \in Configs, ClaimJob(w, c) PROVE FreshIsNull'
  <2>1. CASE UNCHANGED <<tables, runs, pc, cur, run>>
    BY <1>11, <2>1 DEF TypeOK, FreshIsNull, Goto, ClaimJob
  <2>2. ASSUME NEW j \in Jobs, Claim(w, j), ~IsLocked(j) PROVE FreshIsNull'
    <3>1. status'[j] = "pending"
      BY <2>2 DEF Claim, TypeOK
    <3>2. \A k \in Jobs : k # j => status'[k] = status[k] /\ startedAt'[k] = startedAt[k]
      BY <2>2 DEF Claim, TypeOK
    <3> QED
      BY <3>1, <3>2 DEF FreshIsNull
  <2> QED
    BY <1>11, <2>1, <2>2 DEF ClaimJob, JobsIn
<1>12. ASSUME NEW w \in Workers, ClaimsDone(w) PROVE FreshIsNull'
  BY <1>12 DEF TypeOK, FreshIsNull, Goto, ClaimsDone
<1>13. ASSUME NEW w \in Workers, StartWithoutQueue(w) PROVE FreshIsNull'
  BY <1>13 DEF TypeOK, FreshIsNull, Goto, StartWithoutQueue
<1>14. ASSUME NEW w \in Workers, ClearQueue(w) PROVE FreshIsNull'
  BY <1>14 DEF TypeOK, FreshIsNull, Goto, ClearQueue
<1>15. ASSUME NEW w \in Workers, EndGeneration(w) PROVE FreshIsNull'
  BY <1>15 DEF TypeOK, FreshIsNull, Goto, EndGeneration
<1>16. ASSUME NEW w \in Workers, LockStarted(w) PROVE FreshIsNull'
  BY <1>16 DEF TypeOK, FreshIsNull, Goto, LockStarted, JobsIn
<1>17. ASSUME NEW w \in Workers, NEW j \in Jobs, CountCreated(w, j) PROVE FreshIsNull'
  BY <1>17 DEF TypeOK, FreshIsNull, Goto, CountCreated, IsOldest
<1>18. ASSUME NEW w \in Workers, CountPending(w) PROVE FreshIsNull'
  BY <1>18 DEF TypeOK, FreshIsNull, Goto, CountPending
<1>19. ASSUME NEW w \in Workers, CountError(w) PROVE FreshIsNull'
  BY <1>19 DEF TypeOK, FreshIsNull, Goto, CountError
<1>20. ASSUME NEW w \in Workers, CommitFinish(w) PROVE FreshIsNull'
  BY <1>20 DEF TypeOK, FreshIsNull, Goto, CommitFinish
<1>21. ASSUME NEW w \in Workers, ResetRows(w) PROVE FreshIsNull'
  BY <1>21 DEF TypeOK, FreshIsNull, Goto, ResetRows
<1>22. ASSUME NEW w \in Workers, SelectConfigs(w) PROVE FreshIsNull'
  BY <1>22 DEF TypeOK, FreshIsNull, Goto, SelectConfigs
<1>23. ASSUME NEW w \in Workers, NEW c \in Configs, Take(w, c) PROVE FreshIsNull'
  BY <1>23 DEF TypeOK, FreshIsNull, Goto, Take
<1>24. ASSUME NEW w \in Workers, NEW c \in Configs, NothingToTake(w, c) PROVE FreshIsNull'
  BY <1>24 DEF TypeOK, FreshIsNull, Goto, NothingToTake
<1>25. ASSUME NEW w \in Workers, NEW r \in Rows, Save(w, r) PROVE FreshIsNull'
  BY <1>25 DEF TypeOK, FreshIsNull, Goto, Save
<1>26. ASSUME NEW w \in Workers, NEW r \in Rows, DeleteOne(w, r) PROVE FreshIsNull'
  BY <1>26 DEF TypeOK, FreshIsNull, Goto, DeleteOne
<1>27. ASSUME NEW w \in Workers, NEW r \in Rows, DeleteOneError(w, r) PROVE FreshIsNull'
  BY <1>27 DEF TypeOK, FreshIsNull, Goto, DeleteOneError
<1>28. ASSUME NEW w \in Workers, NEW r \in Rows, Abandon(w, r) PROVE FreshIsNull'
  BY <1>28 DEF TypeOK, FreshIsNull, Goto, Abandon
<1>29. ASSUME NEW r \in Rows, RowTimesOut(r) PROVE FreshIsNull'
  BY <1>29 DEF TypeOK, FreshIsNull, Goto, RowTimesOut
<1>30. ASSUME NEW j \in Jobs, JobTimesOut(j) PROVE FreshIsNull'
  BY <1>30 DEF TypeOK, FreshIsNull, Goto, JobTimesOut
<1>32. ASSUME NEW w \in Workers, NEW r \in Rows, DeleteOneAgain(w, r) PROVE FreshIsNull'
  BY <1>32 DEF TypeOK, FreshIsNull, Goto, DeleteOneAgain
<1>31. CASE UNCHANGED vars
  BY <1>31 DEF TypeOK, FreshIsNull, Goto
<1> QED
  BY <1>1, <1>2, <1>3, <1>4, <1>5, <1>6, <1>7, <1>8, <1>9, <1>10, <1>11, <1>12, <1>13, <1>14,
       <1>15, <1>16, <1>17, <1>18, <1>19, <1>20, <1>21, <1>22, <1>23, <1>24, <1>25, <1>26,
       <1>27, <1>28, <1>29, <1>30, <1>31, <1>32
  DEF Next, Request, Maintain, List, Generate, Time

\* No step takes a job back to created or pending once its queue was served.
LEMMA NextRequested ==
  ASSUME TypeOK, RequestedIsOpen, [Next]_vars
  PROVE  RequestedIsOpen'
<1> USE DEF vars, tables, job, history, process, settling, work, bounds
<1>1. ASSUME CreateJob PROVE RequestedIsOpen'
  BY <1>1 DEF TypeOK, RequestedIsOpen, Goto, Idle, CreateJob, IsNextId, IsOldest, JobsIn
<1>2. ASSUME NEW a \in Admins, NEW op \in {"cancel", "retry"}, NEW j \in Jobs, AdminCheck(a,
     op, j) PROVE RequestedIsOpen'
  BY <1>2 DEF TypeOK, RequestedIsOpen, Goto, Idle, AdminCheck
<1>3. ASSUME NEW a \in Admins, RetryApply(a) PROVE RequestedIsOpen'
  BY <1>3 DEF TypeOK, RequestedIsOpen, Goto, Idle, RetryApply
<1>4. ASSUME NEW a \in Admins, CancelApply(a) PROVE RequestedIsOpen'
  BY <1>4 DEF TypeOK, RequestedIsOpen, Goto, Idle, CancelApply
<1>5. ASSUME NEW c \in Clis, CliCreate(c) PROVE RequestedIsOpen'
  BY <1>5 DEF TypeOK, RequestedIsOpen, Goto, Idle, CliCreate, IsNextId, IsOldest, JobsIn
<1>6. ASSUME NEW c \in Clis, CliActivate(c) PROVE RequestedIsOpen'
  BY <1>6 DEF TypeOK, RequestedIsOpen, Goto, Idle, CliActivate
<1>7. ASSUME NEW p \in Process, PutRows(p) PROVE RequestedIsOpen'
  BY <1>7 DEF TypeOK, RequestedIsOpen, Goto, Idle, PutRows
<1>8. ASSUME NEW p \in Process, Crash(p) PROVE RequestedIsOpen'
  BY <1>8 DEF TypeOK, RequestedIsOpen, Goto, Idle, Crash
<1>9. ASSUME NEW w \in Workers, RestartJobs(w) PROVE RequestedIsOpen'
  BY <1>9 DEF TypeOK, RequestedIsOpen, Goto, Idle, RestartJobs, TooLongPending
<1>10. ASSUME NEW w \in Workers, ReadConfigs(w) PROVE RequestedIsOpen'
  BY <1>10 DEF TypeOK, RequestedIsOpen, Goto, Idle, ReadConfigs
<1>11. ASSUME NEW w \in Workers, NEW c \in Configs, ClaimJob(w, c) PROVE RequestedIsOpen'
  <2>1. CASE UNCHANGED <<tables, runs, pc, cur, run>>
    BY <1>11, <2>1 DEF TypeOK, RequestedIsOpen, Goto, Idle, ClaimJob
  <2>2. ASSUME NEW j \in Jobs, Claim(w, j), ~IsLocked(j) PROVE RequestedIsOpen'
    BY <1>11, <2>2 DEF TypeOK, RequestedIsOpen, Goto, Idle, ClaimJob, Claim
  <2> QED
    BY <1>11, <2>1, <2>2 DEF ClaimJob, JobsIn
<1>12. ASSUME NEW w \in Workers, ClaimsDone(w) PROVE RequestedIsOpen'
  BY <1>12 DEF TypeOK, RequestedIsOpen, Goto, Idle, ClaimsDone
<1>13. ASSUME NEW w \in Workers, StartWithoutQueue(w) PROVE RequestedIsOpen'
  BY <1>13 DEF TypeOK, RequestedIsOpen, Goto, Idle, StartWithoutQueue
<1>14. ASSUME NEW w \in Workers, ClearQueue(w) PROVE RequestedIsOpen'
  BY <1>14 DEF TypeOK, RequestedIsOpen, Goto, Idle, ClearQueue
<1>15. ASSUME NEW w \in Workers, EndGeneration(w) PROVE RequestedIsOpen'
  BY <1>15 DEF TypeOK, RequestedIsOpen, Goto, Idle, EndGeneration
<1>16. ASSUME NEW w \in Workers, LockStarted(w) PROVE RequestedIsOpen'
  BY <1>16 DEF TypeOK, RequestedIsOpen, Goto, Idle, LockStarted, JobsIn
<1>17. ASSUME NEW w \in Workers, NEW j \in Jobs, CountCreated(w, j) PROVE RequestedIsOpen'
  BY <1>17 DEF TypeOK, RequestedIsOpen, Goto, Idle, CountCreated, IsOldest
<1>18. ASSUME NEW w \in Workers, CountPending(w) PROVE RequestedIsOpen'
  BY <1>18 DEF TypeOK, RequestedIsOpen, Goto, Idle, CountPending
<1>19. ASSUME NEW w \in Workers, CountError(w) PROVE RequestedIsOpen'
  BY <1>19 DEF TypeOK, RequestedIsOpen, Goto, Idle, CountError
<1>20. ASSUME NEW w \in Workers, CommitFinish(w) PROVE RequestedIsOpen'
  BY <1>20 DEF TypeOK, RequestedIsOpen, Goto, Idle, CommitFinish
<1>21. ASSUME NEW w \in Workers, ResetRows(w) PROVE RequestedIsOpen'
  BY <1>21 DEF TypeOK, RequestedIsOpen, Goto, Idle, ResetRows
<1>22. ASSUME NEW w \in Workers, SelectConfigs(w) PROVE RequestedIsOpen'
  BY <1>22 DEF TypeOK, RequestedIsOpen, Goto, Idle, SelectConfigs
<1>23. ASSUME NEW w \in Workers, NEW c \in Configs, Take(w, c) PROVE RequestedIsOpen'
  BY <1>23 DEF TypeOK, RequestedIsOpen, Goto, Idle, Take
<1>24. ASSUME NEW w \in Workers, NEW c \in Configs, NothingToTake(w, c) PROVE RequestedIsOpen'
  BY <1>24 DEF TypeOK, RequestedIsOpen, Goto, Idle, NothingToTake
<1>25. ASSUME NEW w \in Workers, NEW r \in Rows, Save(w, r) PROVE RequestedIsOpen'
  BY <1>25 DEF TypeOK, RequestedIsOpen, Goto, Idle, Save
<1>26. ASSUME NEW w \in Workers, NEW r \in Rows, DeleteOne(w, r) PROVE RequestedIsOpen'
  BY <1>26 DEF TypeOK, RequestedIsOpen, Goto, Idle, DeleteOne
<1>27. ASSUME NEW w \in Workers, NEW r \in Rows, DeleteOneError(w, r) PROVE RequestedIsOpen'
  BY <1>27 DEF TypeOK, RequestedIsOpen, Goto, Idle, DeleteOneError
<1>28. ASSUME NEW w \in Workers, NEW r \in Rows, Abandon(w, r) PROVE RequestedIsOpen'
  BY <1>28 DEF TypeOK, RequestedIsOpen, Goto, Idle, Abandon
<1>29. ASSUME NEW r \in Rows, RowTimesOut(r) PROVE RequestedIsOpen'
  BY <1>29 DEF TypeOK, RequestedIsOpen, Goto, Idle, RowTimesOut
<1>30. ASSUME NEW j \in Jobs, JobTimesOut(j) PROVE RequestedIsOpen'
  BY <1>30 DEF TypeOK, RequestedIsOpen, Goto, Idle, JobTimesOut
<1>32. ASSUME NEW w \in Workers, NEW r \in Rows, DeleteOneAgain(w, r) PROVE RequestedIsOpen'
  BY <1>32 DEF TypeOK, RequestedIsOpen, Goto, Idle, DeleteOneAgain
<1>31. CASE UNCHANGED vars
  BY <1>31 DEF TypeOK, RequestedIsOpen, Goto, Idle
<1> QED
  BY <1>1, <1>2, <1>3, <1>4, <1>5, <1>6, <1>7, <1>8, <1>9, <1>10, <1>11, <1>12, <1>13, <1>14,
       <1>15, <1>16, <1>17, <1>18, <1>19, <1>20, <1>21, <1>22, <1>23, <1>24, <1>25, <1>26,
       <1>27, <1>28, <1>29, <1>30, <1>31, <1>32
  DEF Next, Request, Maintain, List, Generate, Time

\* Whoever writes the status of a job waits for its lock; the settling worker itself
\* writes its verdicts and lets go in one commit.
LEMMA NextLocked ==
  ASSUME TypeOK, LockedIsStarted, [Next]_vars
  PROVE  LockedIsStarted'
<1> USE DEF vars, tables, job, history, process, settling, work, bounds
<1>1. ASSUME CreateJob PROVE LockedIsStarted'
  BY <1>1 DEF TypeOK, LockedIsStarted, Goto, IsLocked, CreateJob, IsNextId, IsOldest, JobsIn
<1>2. ASSUME NEW a \in Admins, NEW op \in {"cancel", "retry"}, NEW j \in Jobs, AdminCheck(a,
     op, j) PROVE LockedIsStarted'
  <2>1. UNCHANGED <<status, settling, pc, cur>>
    BY <1>2 DEF AdminCheck
  <2> QED
    BY <2>1 DEF LockedIsStarted
<1>3. ASSUME NEW a \in Admins, RetryApply(a) PROVE LockedIsStarted'
  BY <1>3 DEF TypeOK, LockedIsStarted, Goto, IsLocked, RetryApply
<1>4. ASSUME NEW a \in Admins, CancelApply(a) PROVE LockedIsStarted'
  BY <1>4 DEF TypeOK, LockedIsStarted, Goto, IsLocked, CancelApply
<1>5. ASSUME NEW c \in Clis, CliCreate(c) PROVE LockedIsStarted'
  BY <1>5 DEF TypeOK, LockedIsStarted, Goto, IsLocked, CliCreate, IsNextId, IsOldest, JobsIn
<1>6. ASSUME NEW c \in Clis, CliActivate(c) PROVE LockedIsStarted'
  BY <1>6 DEF TypeOK, LockedIsStarted, Goto, IsLocked, CliActivate
<1>7. ASSUME NEW p \in Process, PutRows(p) PROVE LockedIsStarted'
  <2>1. UNCHANGED <<status, settling, pc, cur>>
    BY <1>7 DEF PutRows
  <2> QED
    BY <2>1 DEF LockedIsStarted
<1>8. ASSUME NEW p \in Process, Crash(p) PROVE LockedIsStarted'
  BY <1>8 DEF TypeOK, LockedIsStarted, Goto, IsLocked, Crash
<1>9. ASSUME NEW w \in Workers, RestartJobs(w) PROVE LockedIsStarted'
  BY <1>9 DEF TypeOK, LockedIsStarted, Goto, IsLocked, RestartJobs, TooLongPending
<1>10. ASSUME NEW w \in Workers, ReadConfigs(w) PROVE LockedIsStarted'
  <2>1. UNCHANGED <<status, settling, cur>>
    BY <1>10 DEF ReadConfigs
  <2>2. /\ pc[w] \notin {"count", "count_pending", "count_error"}
        /\ pc'[w] \notin {"count", "count_pending", "count_error"}
        /\ \A v \in Workers : v # w => pc'[v] = pc[v]
    BY <1>10 DEF TypeOK, Goto, Process, ReadConfigs
  <2> QED
    BY <2>1, <2>2 DEF LockedIsStarted
<1>11. ASSUME NEW w \in Workers, NEW c \in Configs, ClaimJob(w, c) PROVE LockedIsStarted'
  <2>1. CASE UNCHANGED <<tables, runs, pc, cur, run>>
    BY <1>11, <2>1 DEF TypeOK, LockedIsStarted, Goto, IsLocked, ClaimJob
  <2>2. ASSUME NEW j \in Jobs, Claim(w, j), ~IsLocked(j) PROVE LockedIsStarted'
    <3>1. \A v \in Workers : j \notin locked[v]
      BY <2>2 DEF IsLocked
    <3>2. \A k \in Jobs : k # j => status'[k] = status[k]
      BY <2>2 DEF Claim, TypeOK
    <3>3. pc'[w] = "start" /\ \A v \in Workers : v # w => pc'[v] = pc[v] /\ cur'[v] = cur[v]
      BY <2>2 DEF Claim, Goto, TypeOK, Process
    <3>4. UNCHANGED <<locked, todo, verdict>> /\ verdict[w] = {}
      BY <1>11 DEF ClaimJob, LockedIsStarted
    <3> QED
      BY <3>1, <3>2, <3>3, <3>4 DEF LockedIsStarted, TypeOK
  <2> QED
    BY <1>11, <2>1, <2>2 DEF ClaimJob, JobsIn
<1>12. ASSUME NEW w \in Workers, ClaimsDone(w) PROVE LockedIsStarted'
  <2>1. UNCHANGED <<status, settling, cur>>
    BY <1>12 DEF ClaimsDone
  <2>2. /\ pc[w] \notin {"count", "count_pending", "count_error"}
        /\ pc'[w] \notin {"count", "count_pending", "count_error"}
        /\ \A v \in Workers : v # w => pc'[v] = pc[v]
    BY <1>12 DEF TypeOK, Goto, Process, ClaimsDone
  <2> QED
    BY <2>1, <2>2 DEF LockedIsStarted
<1>13. ASSUME NEW w \in Workers, StartWithoutQueue(w) PROVE LockedIsStarted'
  BY <1>13 DEF TypeOK, LockedIsStarted, Goto, IsLocked, StartWithoutQueue
<1>14. ASSUME NEW w \in Workers, ClearQueue(w) PROVE LockedIsStarted'
  <2>1. UNCHANGED <<status, settling, cur>>
    BY <1>14 DEF ClearQueue
  <2>2. /\ pc[w] \notin {"count", "count_pending", "count_error"}
        /\ pc'[w] \notin {"count", "count_pending", "count_error"}
        /\ \A v \in Workers : v # w => pc'[v] = pc[v]
    BY <1>14 DEF TypeOK, Goto, Process, ClearQueue
  <2> QED
    BY <2>1, <2>2 DEF LockedIsStarted
<1>15. ASSUME NEW w \in Workers, EndGeneration(w) PROVE LockedIsStarted'
  BY <1>15 DEF TypeOK, LockedIsStarted, Goto, IsLocked, EndGeneration
<1>16. ASSUME NEW w \in Workers, LockStarted(w) PROVE LockedIsStarted'
  <2>1. /\ \A j \in locked'[w] : status[j] = "started" /\ \A v \in Workers : j \notin locked[v]
        /\ todo'[w] = locked'[w]
    <3>1. locked'[w] = {j \in JobsIn("started") : ~IsLocked(j)} /\ todo'[w] = locked'[w]
      BY <1>16 DEF TypeOK, LockStarted
    <3> QED
      BY <3>1 DEF JobsIn, IsLocked
  <2>4. verdict[w] = {} /\ pc'[w] = "count"
    BY <1>16 DEF TypeOK, LockedIsStarted, LockStarted, Goto, Process
  <2>2. \A v \in Workers : v # w =>
          locked'[v] = locked[v] /\ todo'[v] = todo[v] /\ pc'[v] = pc[v]
    BY <1>16 DEF TypeOK, LockStarted, Goto
  <2>3. UNCHANGED <<status, verdict, cur>>
    BY <1>16 DEF LockStarted
  <2> QED
    BY <2>1, <2>2, <2>3, <2>4 DEF LockedIsStarted
<1>17. ASSUME NEW w \in Workers, NEW j \in Jobs, CountCreated(w, j) PROVE LockedIsStarted'
  BY <1>17 DEF TypeOK, LockedIsStarted, Goto, IsLocked, CountCreated, IsOldest
<1>18. ASSUME NEW w \in Workers, CountPending(w) PROVE LockedIsStarted'
  BY <1>18 DEF TypeOK, LockedIsStarted, Goto, IsLocked, CountPending
<1>19. ASSUME NEW w \in Workers, CountError(w) PROVE LockedIsStarted'
  BY <1>19 DEF TypeOK, LockedIsStarted, Goto, IsLocked, CountError
<1>20. ASSUME NEW w \in Workers, CommitFinish(w) PROVE LockedIsStarted'
  BY <1>20 DEF TypeOK, LockedIsStarted, Goto, IsLocked, CommitFinish
<1>21. ASSUME NEW w \in Workers, ResetRows(w) PROVE LockedIsStarted'
  <2>1. UNCHANGED <<status, settling, cur>>
    BY <1>21 DEF ResetRows
  <2>2. /\ pc[w] \notin {"count", "count_pending", "count_error"}
        /\ pc'[w] \notin {"count", "count_pending", "count_error"}
        /\ \A v \in Workers : v # w => pc'[v] = pc[v]
    BY <1>21 DEF TypeOK, Goto, Process, ResetRows
  <2> QED
    BY <2>1, <2>2 DEF LockedIsStarted
<1>22. ASSUME NEW w \in Workers, SelectConfigs(w) PROVE LockedIsStarted'
  <2>1. UNCHANGED <<status, settling, cur>>
    BY <1>22 DEF SelectConfigs
  <2>2. /\ pc[w] \notin {"count", "count_pending", "count_error"}
        /\ pc'[w] \notin {"count", "count_pending", "count_error"}
        /\ \A v \in Workers : v # w => pc'[v] = pc[v]
    BY <1>22 DEF TypeOK, Goto, Process, SelectConfigs
  <2> QED
    BY <2>1, <2>2 DEF LockedIsStarted
<1>23. ASSUME NEW w \in Workers, NEW c \in Configs, Take(w, c) PROVE LockedIsStarted'
  <2>1. UNCHANGED <<status, settling, cur>>
    BY <1>23 DEF Take
  <2>2. /\ pc[w] \notin {"count", "count_pending", "count_error"}
        /\ pc'[w] \notin {"count", "count_pending", "count_error"}
        /\ \A v \in Workers : v # w => pc'[v] = pc[v]
    BY <1>23 DEF TypeOK, Goto, Process, Take
  <2> QED
    BY <2>1, <2>2 DEF LockedIsStarted
<1>24. ASSUME NEW w \in Workers, NEW c \in Configs, NothingToTake(w, c) PROVE LockedIsStarted'
  <2>1. UNCHANGED <<status, settling, cur>>
    BY <1>24 DEF NothingToTake
  <2>2. /\ pc[w] \notin {"count", "count_pending", "count_error"}
        /\ pc'[w] \notin {"count", "count_pending", "count_error"}
        /\ \A v \in Workers : v # w => pc'[v] = pc[v]
    BY <1>24 DEF TypeOK, Goto, Process, NothingToTake
  <2> QED
    BY <2>1, <2>2 DEF LockedIsStarted
<1>25. ASSUME NEW w \in Workers, NEW r \in Rows, Save(w, r) PROVE LockedIsStarted'
  <2>1. UNCHANGED <<status, settling, pc, cur>>
    BY <1>25 DEF Save
  <2> QED
    BY <2>1 DEF LockedIsStarted
<1>26. ASSUME NEW w \in Workers, NEW r \in Rows, DeleteOne(w, r) PROVE LockedIsStarted'
  <2>1. UNCHANGED <<status, settling, pc, cur>>
    BY <1>26 DEF DeleteOne
  <2> QED
    BY <2>1 DEF LockedIsStarted
<1>27. ASSUME NEW w \in Workers, NEW r \in Rows, DeleteOneError(w, r) PROVE LockedIsStarted'
  <2>1. UNCHANGED <<status, settling, pc, cur>>
    BY <1>27 DEF DeleteOneError
  <2> QED
    BY <2>1 DEF LockedIsStarted
<1>28. ASSUME NEW w \in Workers, NEW r \in Rows, Abandon(w, r) PROVE LockedIsStarted'
  <2>1. UNCHANGED <<status, settling, pc, cur>>
    BY <1>28 DEF Abandon
  <2> QED
    BY <2>1 DEF LockedIsStarted
<1>29. ASSUME NEW r \in Rows, RowTimesOut(r) PROVE LockedIsStarted'
  <2>1. UNCHANGED <<status, settling, pc, cur>>
    BY <1>29 DEF RowTimesOut
  <2> QED
    BY <2>1 DEF LockedIsStarted
<1>30. ASSUME NEW j \in Jobs, JobTimesOut(j) PROVE LockedIsStarted'
  <2>1. UNCHANGED <<status, settling, pc, cur>>
    BY <1>30 DEF JobTimesOut
  <2> QED
    BY <2>1 DEF LockedIsStarted
<1>32. ASSUME NEW w \in Workers, NEW r \in Rows, DeleteOneAgain(w, r) PROVE LockedIsStarted'
  <2>1. UNCHANGED <<status, settling, pc, cur>>
    BY <1>32 DEF DeleteOneAgain
  <2> QED
    BY <2>1 DEF LockedIsStarted
<1>31. CASE UNCHANGED vars
  BY <1>31 DEF TypeOK, LockedIsStarted, Goto, IsLocked
<1> QED
  BY <1>1, <1>2, <1>3, <1>4, <1>5, <1>6, <1>7, <1>8, <1>9, <1>10, <1>11, <1>12, <1>13, <1>14,
       <1>15, <1>16, <1>17, <1>18, <1>19, <1>20, <1>21, <1>22, <1>23, <1>24, <1>25, <1>26,
       <1>27, <1>28, <1>29, <1>30, <1>31, <1>32
  DEF Next, Request, Maintain, List, Generate, Time

\* The status of a job whose queue is being created is written by its generator alone:
\* the others need a job of another status, or a start that is too old.
LEMMA NextGenerating ==
  ASSUME "slow_generation" \notin Troubles, TypeOK, FreshIsNull,
         RequestedIsOpen, LockedIsStarted, GeneratingIsPending, OneGenerator, [Next]_vars
  PROVE  GeneratingIsPending'
<1> USE DEF vars, tables, job, history, process, settling, work, bounds
<1>1. ASSUME CreateJob PROVE GeneratingIsPending'
  <2>1. PICK j \in Jobs : status[j] = "none" /\ status' = [status EXCEPT ![j] = "created"]
    BY <1>1 DEF CreateJob, IsNextId, IsOldest, JobsIn
  <2>2. UNCHANGED <<pc, cur, startedAt>>
    BY <1>1 DEF CreateJob
  <2> QED
    BY <2>1, <2>2 DEF GeneratingIsPending, Generating, TypeOK
<1>2. ASSUME NEW a \in Admins, NEW op \in {"cancel", "retry"}, NEW j \in Jobs, AdminCheck(a,
     op, j) PROVE GeneratingIsPending'
  <2>1. UNCHANGED <<status, startedAt, pc, cur>>
    BY <1>2 DEF AdminCheck
  <2> QED
    BY <2>1 DEF GeneratingIsPending, Generating
<1>3. ASSUME NEW a \in Admins, RetryApply(a) PROVE GeneratingIsPending'
  <2> DEFINE j == admin[a].job
  <2>1. j \in Jobs /\ status[j] # "pending"
    BY <1>3 DEF RequestedIsOpen, RetryApply
  <2>2. UNCHANGED <<pc, cur, startedAt>> /\ \A k \in Jobs : k # j => status'[k] = status[k]
    BY <1>3 DEF RetryApply, TypeOK
  <2> QED
    BY <2>1, <2>2 DEF GeneratingIsPending, Generating
<1>4. ASSUME NEW a \in Admins, CancelApply(a) PROVE GeneratingIsPending'
  <2> DEFINE j == admin[a].job
  <2>1. j \in Jobs /\ status[j] # "pending"
    BY <1>4 DEF RequestedIsOpen, CancelApply
  <2>2. UNCHANGED <<pc, cur, startedAt>> /\ \A k \in Jobs : k # j => status'[k] = status[k]
    BY <1>4 DEF CancelApply, TypeOK
  <2> QED
    BY <2>1, <2>2 DEF GeneratingIsPending, Generating
<1>5. ASSUME NEW c \in Clis, CliCreate(c) PROVE GeneratingIsPending'
  <2>1. PICK j \in Jobs : /\ status[j] = "none" /\ status' = [status EXCEPT ![j] = "pending"]
                         /\ cur' = [cur EXCEPT ![c] = j] /\ Goto(c, "put")
    BY <1>5 DEF CliCreate, IsNextId, IsOldest, JobsIn
  <2>2. startedAt' = startedAt /\ startedAt[j] = "null"
    BY <1>5, <2>1 DEF CliCreate, FreshIsNull
  <2>3. c \notin Workers /\ cur'[c] = j
    BY <2>1, JobQueueAssumption DEF TypeOK, Process
  <2>4. \A p \in Process, k \in Jobs : p # c /\ Generating(p, k)' => Generating(p, k) /\ k # j
    BY <2>1 DEF GeneratingIsPending, Generating, Goto, TypeOK
  <2> QED
    BY <2>1, <2>2, <2>3, <2>4 DEF GeneratingIsPending, Generating, TypeOK
<1>6. ASSUME NEW c \in Clis, CliActivate(c) PROVE GeneratingIsPending'
  <2> DEFINE j == cur[c]
  <2>1. c \in Process /\ j \in Jobs /\ Generating(c, j)
    BY <1>6 DEF CliActivate, TypeOK, Working, Generating, Process
  <2>2. pc'[c] = "off" /\ \A p \in Process : p # c => pc'[p] = pc[p] /\ cur'[p] = cur[p]
    BY <1>6 DEF CliActivate, Goto, TypeOK, Process
  <2>3. \A k \in Jobs : k # j => status'[k] = status[k] /\ startedAt'[k] = startedAt[k]
    BY <1>6 DEF CliActivate, TypeOK
  <2>4. \A p \in Process, k \in Jobs : Generating(p, k)' => Generating(p, k) /\ k # j
    BY <2>1, <2>2 DEF OneGenerator, Generating
  <2> QED
    BY <2>3, <2>4 DEF GeneratingIsPending
<1>7. ASSUME NEW p \in Process, PutRows(p) PROVE GeneratingIsPending'
  <2>1. UNCHANGED <<status, startedAt, pc, cur>>
    BY <1>7 DEF PutRows
  <2> QED
    BY <2>1 DEF GeneratingIsPending, Generating
<1>8. ASSUME NEW p \in Process, Crash(p) PROVE GeneratingIsPending'
  <2>1. UNCHANGED <<status, startedAt>>
    BY <1>8 DEF Crash
  <2>2. \A q \in Process, k \in Jobs : Generating(q, k)' => Generating(q, k)
    BY <1>8 DEF TypeOK, Generating, Goto, Process, Crash
  <2> QED
    BY <2>1, <2>2 DEF GeneratingIsPending
<1>9. ASSUME NEW w \in Workers, RestartJobs(w) PROVE GeneratingIsPending'
  <2>1. startedAt' = startedAt
        /\ \A k \in Jobs : status[k] = "pending" /\ startedAt[k] # "old" => status'[k] = "pending"
    BY <1>9 DEF RestartJobs, TooLongPending
  <2>2. \A q \in Process, k \in Jobs : Generating(q, k)' => Generating(q, k)
    BY <1>9 DEF TypeOK, Generating, Goto, Process, RestartJobs
  <2> QED
    BY <2>1, <2>2 DEF GeneratingIsPending
<1>10. ASSUME NEW w \in Workers, ReadConfigs(w) PROVE GeneratingIsPending'
  <2>1. UNCHANGED <<status, startedAt>>
    BY <1>10 DEF ReadConfigs
  <2>2. \A p \in Process, k \in Jobs : Generating(p, k)' => Generating(p, k)
    BY <1>10 DEF TypeOK, Generating, Goto, Process, ReadConfigs
  <2> QED
    BY <2>1, <2>2 DEF GeneratingIsPending
<1>11. ASSUME NEW w \in Workers, NEW c \in Configs, ClaimJob(w, c) PROVE GeneratingIsPending'
  <2>1. CASE UNCHANGED <<tables, runs, pc, cur, run>>
    BY <1>11, <2>1 DEF TypeOK, LockedIsStarted, GeneratingIsPending, OneGenerator, Generating,
         Goto, IsLocked, Process, ClaimJob
  <2>2. ASSUME NEW j \in Jobs, Claim(w, j), ~IsLocked(j) PROVE GeneratingIsPending'
    <3>1. pc'[w] = "start" /\ cur'[w] = j /\ startedAt'[j] = "recent" /\ status'[j] = "pending"
      BY <2>2 DEF Claim, Goto, TypeOK, Process
    <3>2. \A k \in Jobs : k # j => status'[k] = status[k] /\ startedAt'[k] = startedAt[k]
      BY <2>2 DEF Claim, TypeOK
    <3>3. \A p \in Process, k \in Jobs : p # w /\ Generating(p, k)' => Generating(p, k) /\ k # j
      BY <2>2 DEF Claim, Goto, GeneratingIsPending, Generating, TypeOK
    <3> QED
      BY <3>1, <3>2, <3>3 DEF GeneratingIsPending, Generating
  <2> QED
    BY <1>11, <2>1, <2>2 DEF ClaimJob, JobsIn
<1>12. ASSUME NEW w \in Workers, ClaimsDone(w) PROVE GeneratingIsPending'
  <2>1. UNCHANGED <<status, startedAt>>
    BY <1>12 DEF ClaimsDone
  <2>2. \A p \in Process, k \in Jobs : Generating(p, k)' => Generating(p, k)
    BY <1>12 DEF TypeOK, Generating, Goto, Process, ClaimsDone
  <2> QED
    BY <2>1, <2>2 DEF GeneratingIsPending
<1>13. ASSUME NEW w \in Workers, StartWithoutQueue(w) PROVE GeneratingIsPending'
  <2> DEFINE j == cur[w]
  <2>1. w \in Process /\ j \in Jobs /\ Generating(w, j)
    BY <1>13 DEF StartWithoutQueue, TypeOK, Working, Generating, Process
  <2>2. pc'[w] = "claim" /\ \A p \in Process : p # w => pc'[p] = pc[p] /\ cur'[p] = cur[p]
    BY <1>13 DEF StartWithoutQueue, Goto, TypeOK, Process
  <2>3. startedAt' = startedAt /\ \A k \in Jobs : k # j => status'[k] = status[k]
    BY <1>13 DEF StartWithoutQueue, TypeOK
  <2>4. \A p \in Process, k \in Jobs : Generating(p, k)' => Generating(p, k) /\ k # j
    BY <2>1, <2>2 DEF OneGenerator, Generating
  <2> QED
    BY <2>3, <2>4 DEF GeneratingIsPending
<1>14. ASSUME NEW w \in Workers, ClearQueue(w) PROVE GeneratingIsPending'
  <2>1. \A p \in Process, j \in Jobs : Generating(p, j)' => Generating(p, j)
    BY <1>14 DEF ClearQueue, Goto, Generating, TypeOK, Process
  <2>2. UNCHANGED <<status, startedAt>>
    BY <1>14 DEF ClearQueue
  <2> QED
    BY <2>1, <2>2 DEF GeneratingIsPending
<1>15. ASSUME NEW w \in Workers, EndGeneration(w) PROVE GeneratingIsPending'
  <2> DEFINE j == cur[w]
  <2>1. w \in Process /\ j \in Jobs /\ Generating(w, j)
    BY <1>15 DEF EndGeneration, TypeOK, Working, Generating, Process
  <2>2. pc'[w] = "claim" /\ \A p \in Process : p # w => pc'[p] = pc[p] /\ cur'[p] = cur[p]
    BY <1>15 DEF EndGeneration, Goto, TypeOK, Process
  <2>3. startedAt' = startedAt /\ \A k \in Jobs : k # j => status'[k] = status[k]
    BY <1>15 DEF EndGeneration, TypeOK
  <2>4. \A p \in Process, k \in Jobs : Generating(p, k)' => Generating(p, k) /\ k # j
    BY <2>1, <2>2 DEF OneGenerator, Generating
  <2> QED
    BY <2>3, <2>4 DEF GeneratingIsPending
<1>16. ASSUME NEW w \in Workers, LockStarted(w) PROVE GeneratingIsPending'
  <2>1. UNCHANGED <<status, startedAt>>
    BY <1>16 DEF LockStarted
  <2>2. \A p \in Process, k \in Jobs : Generating(p, k)' => Generating(p, k)
    BY <1>16 DEF TypeOK, Generating, Goto, Process, LockStarted
  <2> QED
    BY <2>1, <2>2 DEF GeneratingIsPending
<1>17. ASSUME NEW w \in Workers, NEW j \in Jobs, CountCreated(w, j) PROVE GeneratingIsPending'
  <2>1. UNCHANGED <<status, startedAt>>
    BY <1>17 DEF CountCreated
  <2>2. \A p \in Process, k \in Jobs : Generating(p, k)' => Generating(p, k)
    BY <1>17 DEF TypeOK, Generating, Goto, Process, CountCreated
  <2> QED
    BY <2>1, <2>2 DEF GeneratingIsPending
<1>18. ASSUME NEW w \in Workers, CountPending(w) PROVE GeneratingIsPending'
  <2>1. UNCHANGED <<status, startedAt>>
    BY <1>18 DEF CountPending
  <2>2. \A p \in Process, k \in Jobs : Generating(p, k)' => Generating(p, k)
    BY <1>18 DEF TypeOK, Generating, Goto, Process, CountPending
  <2> QED
    BY <2>1, <2>2 DEF GeneratingIsPending
<1>19. ASSUME NEW w \in Workers, CountError(w) PROVE GeneratingIsPending'
  <2>1. UNCHANGED <<status, startedAt>>
    BY <1>19 DEF CountError
  <2>2. \A p \in Process, k \in Jobs : Generating(p, k)' => Generating(p, k)
    BY <1>19 DEF TypeOK, Generating, Goto, Process, CountError
  <2> QED
    BY <2>1, <2>2 DEF GeneratingIsPending
<1>20. ASSUME NEW w \in Workers, CommitFinish(w) PROVE GeneratingIsPending'
  <2>1. \A k \in Jobs : status[k] = "pending" => status'[k] = "pending"
    BY <1>20 DEF CommitFinish, LockedIsStarted
  <2>2. startedAt' = startedAt /\ pc'[w] = "reset"
        /\ \A p \in Process : p # w => pc'[p] = pc[p] /\ cur'[p] = cur[p]
    BY <1>20 DEF CommitFinish, Goto, TypeOK, Process
  <2> QED
    BY <2>1, <2>2 DEF GeneratingIsPending, Generating
<1>21. ASSUME NEW w \in Workers, ResetRows(w) PROVE GeneratingIsPending'
  <2>1. UNCHANGED <<status, startedAt>>
    BY <1>21 DEF ResetRows
  <2>2. \A p \in Process, k \in Jobs : Generating(p, k)' => Generating(p, k)
    BY <1>21 DEF TypeOK, Generating, Goto, Process, ResetRows
  <2> QED
    BY <2>1, <2>2 DEF GeneratingIsPending
<1>22. ASSUME NEW w \in Workers, SelectConfigs(w) PROVE GeneratingIsPending'
  <2>1. UNCHANGED <<status, startedAt>>
    BY <1>22 DEF SelectConfigs
  <2>2. \A p \in Process, k \in Jobs : Generating(p, k)' => Generating(p, k)
    BY <1>22 DEF TypeOK, Generating, Goto, Process, SelectConfigs
  <2> QED
    BY <2>1, <2>2 DEF GeneratingIsPending
<1>23. ASSUME NEW w \in Workers, NEW c \in Configs, Take(w, c) PROVE GeneratingIsPending'
  <2>1. UNCHANGED <<status, startedAt>>
    BY <1>23 DEF Take
  <2>2. \A q \in Process, k \in Jobs : Generating(q, k)' => Generating(q, k)
    BY <1>23 DEF TypeOK, Generating, Goto, Process, Take
  <2> QED
    BY <2>1, <2>2 DEF GeneratingIsPending
<1>24. ASSUME NEW w \in Workers, NEW c \in Configs, NothingToTake(w,
     c) PROVE GeneratingIsPending'
  <2>1. UNCHANGED <<status, startedAt>>
    BY <1>24 DEF NothingToTake
  <2>2. \A q \in Process, k \in Jobs : Generating(q, k)' => Generating(q, k)
    BY <1>24 DEF TypeOK, Generating, Goto, Process, NothingToTake
  <2> QED
    BY <2>1, <2>2 DEF GeneratingIsPending
<1>25. ASSUME NEW w \in Workers, NEW r \in Rows, Save(w, r) PROVE GeneratingIsPending'
  <2>1. UNCHANGED <<status, startedAt, pc, cur>>
    BY <1>25 DEF Save
  <2> QED
    BY <2>1 DEF GeneratingIsPending, Generating
<1>26. ASSUME NEW w \in Workers, NEW r \in Rows, DeleteOne(w, r) PROVE GeneratingIsPending'
  <2>1. UNCHANGED <<status, startedAt, pc, cur>>
    BY <1>26 DEF DeleteOne
  <2> QED
    BY <2>1 DEF GeneratingIsPending, Generating
<1>27. ASSUME NEW w \in Workers, NEW r \in Rows, DeleteOneError(w, r) PROVE GeneratingIsPending'
  <2>1. UNCHANGED <<status, startedAt, pc, cur>>
    BY <1>27 DEF DeleteOneError
  <2> QED
    BY <2>1 DEF GeneratingIsPending, Generating
<1>28. ASSUME NEW w \in Workers, NEW r \in Rows, Abandon(w, r) PROVE GeneratingIsPending'
  <2>1. UNCHANGED <<status, startedAt, pc, cur>>
    BY <1>28 DEF Abandon
  <2> QED
    BY <2>1 DEF GeneratingIsPending, Generating
<1>29. ASSUME NEW r \in Rows, RowTimesOut(r) PROVE GeneratingIsPending'
  <2>1. UNCHANGED <<status, startedAt, pc, cur>>
    BY <1>29 DEF RowTimesOut
  <2> QED
    BY <2>1 DEF GeneratingIsPending, Generating
<1>30. ASSUME NEW j \in Jobs, JobTimesOut(j) PROVE GeneratingIsPending'
  <2>1. \A w \in Workers : ~Generating(w, j)
    BY <1>30 DEF JobTimesOut
  <2>2. startedAt[j] # "null" /\ \A k \in Jobs : k # j => startedAt'[k] = startedAt[k]
    BY <1>30 DEF JobTimesOut, TypeOK
  <2>3. UNCHANGED <<status, pc, cur>>
    BY <1>30 DEF JobTimesOut
  <2> QED
    BY <2>1, <2>2, <2>3 DEF GeneratingIsPending, Generating
<1>32. ASSUME NEW w \in Workers, NEW r \in Rows, DeleteOneAgain(w, r) PROVE GeneratingIsPending'
  <2>1. UNCHANGED <<status, startedAt, pc, cur>>
    BY <1>32 DEF DeleteOneAgain
  <2> QED
    BY <2>1 DEF GeneratingIsPending, Generating
<1>31. CASE UNCHANGED vars
  BY <1>31 DEF TypeOK, LockedIsStarted, GeneratingIsPending, OneGenerator, Generating, Goto,
       IsLocked, Process
<1> QED
  BY <1>1, <1>2, <1>3, <1>4, <1>5, <1>6, <1>7, <1>8, <1>9, <1>10, <1>11, <1>12, <1>13, <1>14,
       <1>15, <1>16, <1>17, <1>18, <1>19, <1>20, <1>21, <1>22, <1>23, <1>24, <1>25, <1>26,
       <1>27, <1>28, <1>29, <1>30, <1>31, <1>32
  DEF Next, Request, Maintain, List, Generate, Time

\* A claim needs a created job and a command line takes a fresh id: nobody generates it.
LEMMA NextOneGenerator ==
  ASSUME TypeOK, GeneratingIsPending, OneGenerator, [Next]_vars
  PROVE  OneGenerator'
<1> USE DEF vars, tables, job, history, process, settling, work, bounds
<1>1. ASSUME CreateJob PROVE OneGenerator'
  BY <1>1 DEF TypeOK, GeneratingIsPending, OneGenerator, Generating, Goto, Process, CreateJob,
       IsNextId, IsOldest, JobsIn
<1>2. ASSUME NEW a \in Admins, NEW op \in {"cancel", "retry"}, NEW j \in Jobs, AdminCheck(a,
     op, j) PROVE OneGenerator'
  <2>1. UNCHANGED <<pc, cur>>
    BY <1>2 DEF AdminCheck
  <2> QED
    BY <2>1 DEF OneGenerator, Generating
<1>3. ASSUME NEW a \in Admins, RetryApply(a) PROVE OneGenerator'
  <2>1. UNCHANGED <<pc, cur>>
    BY <1>3 DEF RetryApply
  <2> QED
    BY <2>1 DEF OneGenerator, Generating
<1>4. ASSUME NEW a \in Admins, CancelApply(a) PROVE OneGenerator'
  <2>1. UNCHANGED <<pc, cur>>
    BY <1>4 DEF CancelApply
  <2> QED
    BY <2>1 DEF OneGenerator, Generating
<1>5. ASSUME NEW c \in Clis, CliCreate(c) PROVE OneGenerator'
  <2>1. PICK j \in Jobs : /\ status[j] = "none"
                         /\ cur' = [cur EXCEPT ![c] = j] /\ Goto(c, "put")
    BY <1>5 DEF CliCreate, IsNextId, IsOldest, JobsIn
  <2>2. \A p \in Process : ~Generating(p, j)
    BY <2>1 DEF GeneratingIsPending
  <2>3. \A p \in Process : p # c => pc'[p] = pc[p] /\ cur'[p] = cur[p]
    BY <2>1 DEF Goto, TypeOK
  <2>4. cur'[c] = j
    BY <2>1 DEF TypeOK, Process
  <2> QED
    BY <2>2, <2>3, <2>4 DEF OneGenerator, Generating
<1>6. ASSUME NEW c \in Clis, CliActivate(c) PROVE OneGenerator'
  <2>1. \A q \in Process, k \in Jobs : Generating(q, k)' => Generating(q, k)
    BY <1>6 DEF TypeOK, Generating, Goto, Process, CliActivate
  <2> QED
    BY <2>1 DEF OneGenerator
<1>7. ASSUME NEW p \in Process, PutRows(p) PROVE OneGenerator'
  <2>1. UNCHANGED <<pc, cur>>
    BY <1>7 DEF PutRows
  <2> QED
    BY <2>1 DEF OneGenerator, Generating
<1>8. ASSUME NEW p \in Process, Crash(p) PROVE OneGenerator'
  <2>1. \A q \in Process, k \in Jobs : Generating(q, k)' => Generating(q, k)
    BY <1>8 DEF TypeOK, Generating, Goto, Process, Crash
  <2> QED
    BY <2>1 DEF OneGenerator
<1>9. ASSUME NEW w \in Workers, RestartJobs(w) PROVE OneGenerator'
  <2>1. \A q \in Process, k \in Jobs : Generating(q, k)' => Generating(q, k)
    BY <1>9 DEF TypeOK, Generating, Goto, Process, RestartJobs
  <2> QED
    BY <2>1 DEF OneGenerator
<1>10. ASSUME NEW w \in Workers, ReadConfigs(w) PROVE OneGenerator'
  <2>1. \A q \in Process, k \in Jobs : Generating(q, k)' => Generating(q, k)
    BY <1>10 DEF TypeOK, Generating, Goto, Process, ReadConfigs
  <2> QED
    BY <2>1 DEF OneGenerator
<1>11. ASSUME NEW w \in Workers, NEW c \in Configs, ClaimJob(w, c) PROVE OneGenerator'
  <2>1. CASE UNCHANGED <<tables, runs, pc, cur, run>>
    BY <1>11, <2>1 DEF TypeOK, GeneratingIsPending, OneGenerator, Generating, Goto, Process,
         ClaimJob
  <2>2. ASSUME NEW j \in Jobs, Claim(w, j), ~IsLocked(j) PROVE OneGenerator'
    BY ZenonT(60), <1>11, <2>2
    DEF TypeOK, GeneratingIsPending, OneGenerator, Generating, Goto, Process, ClaimJob, Claim
  <2> QED
    BY <1>11, <2>1, <2>2 DEF ClaimJob, JobsIn
<1>12. ASSUME NEW w \in Workers, ClaimsDone(w) PROVE OneGenerator'
  <2>1. \A q \in Process, k \in Jobs : Generating(q, k)' => Generating(q, k)
    BY <1>12 DEF TypeOK, Generating, Goto, Process, ClaimsDone
  <2> QED
    BY <2>1 DEF OneGenerator
<1>13. ASSUME NEW w \in Workers, StartWithoutQueue(w) PROVE OneGenerator'
  <2>1. \A q \in Process, k \in Jobs : Generating(q, k)' => Generating(q, k)
    BY <1>13 DEF TypeOK, Generating, Goto, Process, StartWithoutQueue
  <2> QED
    BY <2>1 DEF OneGenerator
<1>14. ASSUME NEW w \in Workers, ClearQueue(w) PROVE OneGenerator'
  <2>1. \A q \in Process, k \in Jobs : Generating(q, k)' => Generating(q, k)
    BY <1>14 DEF TypeOK, Generating, Goto, Process, ClearQueue
  <2> QED
    BY <2>1 DEF OneGenerator
<1>15. ASSUME NEW w \in Workers, EndGeneration(w) PROVE OneGenerator'
  <2>1. \A q \in Process, k \in Jobs : Generating(q, k)' => Generating(q, k)
    BY <1>15 DEF TypeOK, Generating, Goto, Process, EndGeneration
  <2> QED
    BY <2>1 DEF OneGenerator
<1>16. ASSUME NEW w \in Workers, LockStarted(w) PROVE OneGenerator'
  <2>1. \A q \in Process, k \in Jobs : Generating(q, k)' => Generating(q, k)
    BY <1>16 DEF TypeOK, Generating, Goto, Process, LockStarted
  <2> QED
    BY <2>1 DEF OneGenerator
<1>17. ASSUME NEW w \in Workers, NEW j \in Jobs, CountCreated(w, j) PROVE OneGenerator'
  <2>1. \A q \in Process, k \in Jobs : Generating(q, k)' => Generating(q, k)
    BY <1>17 DEF TypeOK, Generating, Goto, Process, CountCreated
  <2> QED
    BY <2>1 DEF OneGenerator
<1>18. ASSUME NEW w \in Workers, CountPending(w) PROVE OneGenerator'
  <2>1. \A q \in Process, k \in Jobs : Generating(q, k)' => Generating(q, k)
    BY <1>18 DEF TypeOK, Generating, Goto, Process, CountPending
  <2> QED
    BY <2>1 DEF OneGenerator
<1>19. ASSUME NEW w \in Workers, CountError(w) PROVE OneGenerator'
  <2>1. \A q \in Process, k \in Jobs : Generating(q, k)' => Generating(q, k)
    BY <1>19 DEF TypeOK, Generating, Goto, Process, CountError
  <2> QED
    BY <2>1 DEF OneGenerator
<1>20. ASSUME NEW w \in Workers, CommitFinish(w) PROVE OneGenerator'
  <2>1. \A q \in Process, k \in Jobs : Generating(q, k)' => Generating(q, k)
    BY <1>20 DEF TypeOK, Generating, Goto, Process, CommitFinish
  <2> QED
    BY <2>1 DEF OneGenerator
<1>21. ASSUME NEW w \in Workers, ResetRows(w) PROVE OneGenerator'
  <2>1. \A q \in Process, k \in Jobs : Generating(q, k)' => Generating(q, k)
    BY <1>21 DEF TypeOK, Generating, Goto, Process, ResetRows
  <2> QED
    BY <2>1 DEF OneGenerator
<1>22. ASSUME NEW w \in Workers, SelectConfigs(w) PROVE OneGenerator'
  <2>1. \A q \in Process, k \in Jobs : Generating(q, k)' => Generating(q, k)
    BY <1>22 DEF TypeOK, Generating, Goto, Process, SelectConfigs
  <2> QED
    BY <2>1 DEF OneGenerator
<1>23. ASSUME NEW w \in Workers, NEW c \in Configs, Take(w, c) PROVE OneGenerator'
  <2>1. \A q \in Process, k \in Jobs : Generating(q, k)' => Generating(q, k)
    BY <1>23 DEF TypeOK, Generating, Goto, Process, Take
  <2> QED
    BY <2>1 DEF OneGenerator
<1>24. ASSUME NEW w \in Workers, NEW c \in Configs, NothingToTake(w, c) PROVE OneGenerator'
  <2>1. \A q \in Process, k \in Jobs : Generating(q, k)' => Generating(q, k)
    BY <1>24 DEF TypeOK, Generating, Goto, Process, NothingToTake
  <2> QED
    BY <2>1 DEF OneGenerator
<1>25. ASSUME NEW w \in Workers, NEW r \in Rows, Save(w, r) PROVE OneGenerator'
  <2>1. UNCHANGED <<pc, cur>>
    BY <1>25 DEF Save
  <2> QED
    BY <2>1 DEF OneGenerator, Generating
<1>26. ASSUME NEW w \in Workers, NEW r \in Rows, DeleteOne(w, r) PROVE OneGenerator'
  <2>1. UNCHANGED <<pc, cur>>
    BY <1>26 DEF DeleteOne
  <2> QED
    BY <2>1 DEF OneGenerator, Generating
<1>27. ASSUME NEW w \in Workers, NEW r \in Rows, DeleteOneError(w, r) PROVE OneGenerator'
  <2>1. UNCHANGED <<pc, cur>>
    BY <1>27 DEF DeleteOneError
  <2> QED
    BY <2>1 DEF OneGenerator, Generating
<1>28. ASSUME NEW w \in Workers, NEW r \in Rows, Abandon(w, r) PROVE OneGenerator'
  <2>1. UNCHANGED <<pc, cur>>
    BY <1>28 DEF Abandon
  <2> QED
    BY <2>1 DEF OneGenerator, Generating
<1>29. ASSUME NEW r \in Rows, RowTimesOut(r) PROVE OneGenerator'
  <2>1. UNCHANGED <<pc, cur>>
    BY <1>29 DEF RowTimesOut
  <2> QED
    BY <2>1 DEF OneGenerator, Generating
<1>30. ASSUME NEW j \in Jobs, JobTimesOut(j) PROVE OneGenerator'
  <2>1. UNCHANGED <<pc, cur>>
    BY <1>30 DEF JobTimesOut
  <2> QED
    BY <2>1 DEF OneGenerator, Generating
<1>32. ASSUME NEW w \in Workers, NEW r \in Rows, DeleteOneAgain(w, r) PROVE OneGenerator'
  <2>1. UNCHANGED <<pc, cur>>
    BY <1>32 DEF DeleteOneAgain
  <2> QED
    BY <2>1 DEF OneGenerator, Generating
<1>31. CASE UNCHANGED vars
  BY <1>31 DEF TypeOK, GeneratingIsPending, OneGenerator, Generating, Goto, Process
<1> QED
  BY <1>1, <1>2, <1>3, <1>4, <1>5, <1>6, <1>7, <1>8, <1>9, <1>10, <1>11, <1>12, <1>13, <1>14,
       <1>15, <1>16, <1>17, <1>18, <1>19, <1>20, <1>21, <1>22, <1>23, <1>24, <1>25, <1>26,
       <1>27, <1>28, <1>29, <1>30, <1>31, <1>32
  DEF Next, Request, Maintain, List, Generate, Time

\* At first nobody generates, locks or asks for anything.
LEMMA InitGenerator == Init => GeneratorInv
<1> SUFFICES ASSUME Init PROVE GeneratorInv
  OBVIOUS
<1>1. TypeOK
  BY InitTypeOK
<1>2. \A p \in Process : pc[p] \in {"restart", "off"}
  BY DEF Init
<1> QED
  BY <1>1, <1>2 DEF Init, GeneratorInv, FreshIsNull, RequestedIsOpen, LockedIsStarted,
     GeneratingIsPending, OneGenerator, Generating, Idle, Process

\* The invariant behind OneGenerator is inductive.
LEMMA NextGenerator ==
  ASSUME "slow_generation" \notin Troubles
  PROVE  GeneratorInv /\ [Next]_vars => GeneratorInv'
BY NextTypeOK, NextFresh, NextRequested, NextLocked, NextGenerating, NextOneGenerator
DEF GeneratorInv

\* The queue of a job is never created by two processes at once, in every behaviour in
\* which no generation of a queue outlives max_pending_minutes.
THEOREM GenerationIsExclusive ==
  ASSUME "slow_generation" \notin Troubles
  PROVE  Spec => []OneGenerator
<1>1. GeneratorInv => OneGenerator
  BY DEF GeneratorInv
<1> QED
  BY InitGenerator, NextGenerator, <1>1, PTL DEF Spec

\* Below, what OneHolder rests on.  An entry a worker holds is not too old, belongs to a
\* job that left the states of the generation, and is either generated or acknowledged.
HeldIsOpen ==
  \A w \in Workers :
    /\ busy[w] \cap saved[w] = {}
    /\ \A r \in Held(w) : /\ r \notin late
                          /\ status[r.job] \in {"started", "error", "done", "cancelled"}

\* Only pending entries are too old; a job that does not exist has no entry, and one whose
\* queue is being created has only created ones.
QueueIsClean ==
  /\ \A r \in late : queue[r] = "pending"
  /\ \A r \in Rows : status[r.job] = "none" => queue[r] = "absent"
  /\ \A p \in Process, r \in Rows :
       pc[p] = "put" /\ r.job = cur[p] => queue[r] \in {"absent", "created"}

\* Nothing is acknowledged a second time.
AgainIsEmpty == \A w \in Workers : again[w] = {}

HolderInv == GeneratorInv /\ QueueIsClean /\ AgainIsEmpty /\ HeldIsOpen /\ OneHolder

\* Entries become pending only for started jobs, whose queue nobody creates.
LEMMA NextClean ==
  ASSUME TypeOK, GeneratingIsPending, QueueIsClean, [Next]_vars
  PROVE  QueueIsClean'
<1> USE DEF vars, tables, job, history, process, settling, work, bounds
<1>1. ASSUME CreateJob PROVE QueueIsClean'
  BY <1>1 DEF TypeOK, QueueIsClean, Rows, Goto, Process, CreateJob, IsNextId, IsOldest, JobsIn
<1>2. ASSUME NEW a \in Admins, NEW op \in {"cancel", "retry"}, NEW j \in Jobs, AdminCheck(a,
     op, j) PROVE QueueIsClean'
  BY <1>2 DEF TypeOK, QueueIsClean, Rows, Goto, Process, AdminCheck
<1>3. ASSUME NEW a \in Admins, RetryApply(a) PROVE QueueIsClean'
  BY <1>3 DEF TypeOK, QueueIsClean, Rows, Goto, Process, RetryApply, SetRows, Requeued, RowsIn
<1>4. ASSUME NEW a \in Admins, CancelApply(a) PROVE QueueIsClean'
  BY <1>4 DEF TypeOK, QueueIsClean, Rows, Goto, Process, CancelApply, SetRows, RowsIn
<1>5. ASSUME NEW c \in Clis, CliCreate(c) PROVE QueueIsClean'
  BY <1>5 DEF TypeOK, QueueIsClean, Rows, Goto, Process, CliCreate, IsNextId, IsOldest, JobsIn
<1>6. ASSUME NEW c \in Clis, CliActivate(c) PROVE QueueIsClean'
  BY <1>6 DEF TypeOK, QueueIsClean, Rows, Goto, Process, CliActivate
<1>7. ASSUME NEW p \in Process, PutRows(p) PROVE QueueIsClean'
  <2>1. p \in Process /\ pc[p] = "put" /\ cur[p] \in Jobs /\ status[cur[p]] = "pending"
    BY <1>7 DEF PutRows, GeneratingIsPending, Generating, TypeOK, Working
  <2>2. \A r \in late : r \in Rows /\ r.job # cur[p]
    BY <2>1 DEF QueueIsClean, TypeOK
  <2>3. /\ \A r \in Rows : r.job # cur[p] => queue'[r] = queue[r]
        /\ \A r \in Rows : queue'[r] \in {queue[r], "created"}
    BY <1>7 DEF PutRows, SetRows
  <2>4. UNCHANGED <<status, late, pc, cur>>
    BY <1>7 DEF PutRows
  <2> QED
    BY <2>1, <2>2, <2>3, <2>4 DEF QueueIsClean
<1>8. ASSUME NEW p \in Process, Crash(p) PROVE QueueIsClean'
  BY <1>8 DEF TypeOK, QueueIsClean, Rows, Goto, Process, Crash
<1>9. ASSUME NEW w \in Workers, RestartJobs(w) PROVE QueueIsClean'
  BY <1>9 DEF TypeOK, QueueIsClean, Rows, Goto, Process, RestartJobs, TooLongPending
<1>10. ASSUME NEW w \in Workers, ReadConfigs(w) PROVE QueueIsClean'
  BY <1>10 DEF TypeOK, QueueIsClean, Rows, Goto, Process, ReadConfigs
<1>11. ASSUME NEW w \in Workers, NEW c \in Configs, ClaimJob(w, c) PROVE QueueIsClean'
  <2>1. CASE UNCHANGED <<tables, runs, pc, cur, run>>
    BY <1>11, <2>1 DEF TypeOK, QueueIsClean, Rows, Goto, Process, ClaimJob
  <2>2. ASSUME NEW j \in Jobs, Claim(w, j), ~IsLocked(j) PROVE QueueIsClean'
    <3>1. /\ \A k \in Jobs : status'[k] = "none" => status[k] = "none"
          /\ UNCHANGED <<queue, late>>
      BY <2>2 DEF Claim, TypeOK
    <3>2. \A p \in Process : pc'[p] = "put" => pc[p] = "put" /\ cur'[p] = cur[p]
      BY <2>2 DEF Claim, Goto, TypeOK, Process
    <3> QED
      BY <3>1, <3>2 DEF QueueIsClean, Rows
  <2> QED
    BY <1>11, <2>1, <2>2 DEF ClaimJob, JobsIn
<1>12. ASSUME NEW w \in Workers, ClaimsDone(w) PROVE QueueIsClean'
  BY <1>12 DEF TypeOK, QueueIsClean, Rows, Goto, Process, ClaimsDone
<1>13. ASSUME NEW w \in Workers, StartWithoutQueue(w) PROVE QueueIsClean'
  BY <1>13 DEF TypeOK, QueueIsClean, Rows, Goto, Process, StartWithoutQueue
<1>14. ASSUME NEW w \in Workers, ClearQueue(w) PROVE QueueIsClean'
  BY <1>14 DEF TypeOK, QueueIsClean, Rows, Goto, Process, ClearQueue, SetRows, Leftover, RowsOf
<1>15. ASSUME NEW w \in Workers, EndGeneration(w) PROVE QueueIsClean'
  BY <1>15 DEF TypeOK, QueueIsClean, Rows, Goto, Process, EndGeneration
<1>16. ASSUME NEW w \in Workers, LockStarted(w) PROVE QueueIsClean'
  BY <1>16 DEF TypeOK, QueueIsClean, Rows, Goto, Process, LockStarted, JobsIn
<1>17. ASSUME NEW w \in Workers, NEW j \in Jobs, CountCreated(w, j) PROVE QueueIsClean'
  BY <1>17 DEF TypeOK, QueueIsClean, Rows, Goto, Process, CountCreated, IsOldest
<1>18. ASSUME NEW w \in Workers, CountPending(w) PROVE QueueIsClean'
  BY <1>18 DEF TypeOK, QueueIsClean, Rows, Goto, Process, CountPending
<1>19. ASSUME NEW w \in Workers, CountError(w) PROVE QueueIsClean'
  BY <1>19 DEF TypeOK, QueueIsClean, Rows, Goto, Process, CountError
<1>20. ASSUME NEW w \in Workers, CommitFinish(w) PROVE QueueIsClean'
  BY <1>20 DEF TypeOK, QueueIsClean, Rows, Goto, Process, CommitFinish
<1>21. ASSUME NEW w \in Workers, ResetRows(w) PROVE QueueIsClean'
  BY <1>21 DEF TypeOK, QueueIsClean, Rows, Goto, Process, ResetRows, SetRows, TooLong
<1>22. ASSUME NEW w \in Workers, SelectConfigs(w) PROVE QueueIsClean'
  BY <1>22 DEF TypeOK, QueueIsClean, Rows, Goto, Process, SelectConfigs
<1>23. ASSUME NEW w \in Workers, NEW c \in Configs, Take(w, c) PROVE QueueIsClean'
  <2>1. PICK r \in Rows : /\ queue[r] = "created" /\ status[r.job] = "started"
                         /\ queue' = [queue EXCEPT ![r] = "pending"]
    BY <1>23 DEF Take, Available
  <2>2. \A p \in Process : pc[p] = "put" => r.job # cur[p]
    BY <2>1 DEF GeneratingIsPending, Generating, TypeOK, Working
  <2>3. UNCHANGED <<status, late, cur>> /\ \A p \in Process : pc'[p] = "put" => pc[p] = "put"
    BY <1>23 DEF Take, Goto, TypeOK
  <2>4. queue'[r] = "pending" /\ \A o \in Rows : o # r => queue'[o] = queue[o]
    BY <2>1 DEF TypeOK
  <2>5. r \notin late
    BY <2>1 DEF QueueIsClean
  <2> QED
    BY <2>1, <2>2, <2>3, <2>4, <2>5 DEF QueueIsClean, TypeOK
<1>24. ASSUME NEW w \in Workers, NEW c \in Configs, NothingToTake(w, c) PROVE QueueIsClean'
  BY <1>24 DEF TypeOK, QueueIsClean, Rows, Goto, Process, NothingToTake
<1>25. ASSUME NEW w \in Workers, NEW r \in Rows, Save(w, r) PROVE QueueIsClean'
  BY <1>25 DEF TypeOK, QueueIsClean, Rows, Goto, Process, Save
<1>26. ASSUME NEW w \in Workers, NEW r \in Rows, DeleteOne(w, r) PROVE QueueIsClean'
  BY <1>26 DEF TypeOK, QueueIsClean, Rows, Goto, Process, DeleteOne, Acknowledge, Deletable
<1>27. ASSUME NEW w \in Workers, NEW r \in Rows, DeleteOneError(w, r) PROVE QueueIsClean'
  BY <1>27 DEF TypeOK, QueueIsClean, Rows, Goto, Process, DeleteOneError, Acknowledge
<1>28. ASSUME NEW w \in Workers, NEW r \in Rows, Abandon(w, r) PROVE QueueIsClean'
  BY <1>28 DEF TypeOK, QueueIsClean, Rows, Goto, Process, Abandon
<1>29. ASSUME NEW r \in Rows, RowTimesOut(r) PROVE QueueIsClean'
  BY <1>29 DEF TypeOK, QueueIsClean, Rows, Goto, Process, RowTimesOut
<1>30. ASSUME NEW j \in Jobs, JobTimesOut(j) PROVE QueueIsClean'
  BY <1>30 DEF TypeOK, QueueIsClean, Rows, Goto, Process, JobTimesOut
<1>32. ASSUME NEW w \in Workers, NEW r \in Rows, DeleteOneAgain(w, r) PROVE QueueIsClean'
  BY <1>32 DEF TypeOK, QueueIsClean, Rows, Goto, Process, DeleteOneAgain, Acknowledge
<1>31. CASE UNCHANGED vars
  BY <1>31 DEF TypeOK, QueueIsClean, Rows, Goto, Process
<1> QED
  BY <1>1, <1>2, <1>3, <1>4, <1>5, <1>6, <1>7, <1>8, <1>9, <1>10, <1>11, <1>12, <1>13, <1>14,
       <1>15, <1>16, <1>17, <1>18, <1>19, <1>20, <1>21, <1>22, <1>23, <1>24, <1>25, <1>26,
       <1>27, <1>28, <1>29, <1>30, <1>31, <1>32
  DEF Next, Request, Maintain, List, Generate, Time

\* Only a failure of a sub-tile is acknowledged again.
LEMMA NextAgain ==
  ASSUME "ack_twice" \notin Troubles, TypeOK, AgainIsEmpty, [Next]_vars
  PROVE  AgainIsEmpty'
<1> USE DEF vars, work, AgainIsEmpty
<1>1. CASE CreateJob
  BY <1>1 DEF CreateJob
<1>2. ASSUME NEW a \in Admins, Request(a) PROVE AgainIsEmpty'
  BY <1>2 DEF Request, AdminCheck, RetryApply, CancelApply
<1>3. ASSUME NEW c \in Clis, CliCreate(c) \/ CliActivate(c) PROVE AgainIsEmpty'
  BY <1>3 DEF CliCreate, CliActivate
<1>4. ASSUME NEW p \in Process, PutRows(p) \/ Crash(p) PROVE AgainIsEmpty'
  BY <1>4 DEF PutRows, Crash
<1>5. ASSUME NEW w \in Workers, Maintain(w) PROVE UNCHANGED again
  <2>1. CASE RestartJobs(w) \/ ReadConfigs(w)
    BY <2>1 DEF RestartJobs, ReadConfigs
  <2>2. CASE \E c \in Configs : ClaimJob(w, c)
    BY <2>2 DEF ClaimJob
  <2>3. CASE ClaimsDone(w) \/ StartWithoutQueue(w)
    BY <2>3 DEF ClaimsDone, StartWithoutQueue
  <2>4. CASE ClearQueue(w) \/ EndGeneration(w)
    BY <2>4 DEF ClearQueue, EndGeneration
  <2>5. CASE LockStarted(w) \/ \E j \in Jobs : CountCreated(w, j)
    BY <2>5 DEF LockStarted, CountCreated
  <2>6. CASE CountPending(w) \/ CountError(w)
    BY <2>6 DEF CountPending, CountError
  <2>7. CASE CommitFinish(w) \/ ResetRows(w)
    BY <2>7 DEF CommitFinish, ResetRows
  <2> QED
    BY <1>5, <2>1, <2>2, <2>3, <2>4, <2>5, <2>6, <2>7 DEF Maintain
<1>6. ASSUME NEW w \in Workers, List(w) PROVE UNCHANGED again
  BY <1>6 DEF List, SelectConfigs, Take, NothingToTake
<1>7. ASSUME NEW w \in Workers, NEW r \in Rows, Generate(w, r) PROVE AgainIsEmpty'
  <2>1. CASE Save(w, r) \/ DeleteOne(w, r)
    BY <2>1 DEF Save, DeleteOne
  <2>2. CASE DeleteOneError(w, r)
    BY <2>2 DEF DeleteOneError
  <2>3. CASE DeleteOneAgain(w, r)
    BY <2>3 DEF DeleteOneAgain
  <2>4. CASE Abandon(w, r)
    BY <2>4 DEF Abandon, TypeOK
  <2> QED
    BY <1>7, <2>1, <2>2, <2>3, <2>4 DEF Generate
<1>8. CASE Time
  BY <1>8 DEF Time, RowTimesOut, JobTimesOut
<1> QED
  BY <1>1, <1>2, <1>3, <1>4, <1>5, <1>6, <1>7, <1>8 DEF Next

\* Whatever rewrites entries looks for created, failed or too old ones, or for those of a
\* job whose queue is being created: none that a worker holds.
LEMMA NextHeld ==
  ASSUME "slow_tile" \notin Troubles, TypeOK, RequestedIsOpen, GeneratingIsPending,
         HeldIsOpen, QueueIsClean, AgainIsEmpty, OneHolder, [Next]_vars
  PROVE  HeldIsOpen' /\ OneHolder'
<1> USE DEF vars, tables, job, history, process, settling, work, bounds
<1>1. ASSUME CreateJob PROVE HeldIsOpen' /\ OneHolder'
  BY <1>1 DEF TypeOK, HeldIsOpen, OneHolder, Held, Rows, CreateJob, IsNextId, IsOldest, JobsIn
<1>2. ASSUME NEW a \in Admins, NEW op \in {"cancel", "retry"}, NEW j \in Jobs, AdminCheck(a,
     op, j) PROVE HeldIsOpen' /\ OneHolder'
  BY <1>2 DEF TypeOK, HeldIsOpen, OneHolder, Held, Rows, AdminCheck
<1>3. ASSUME NEW a \in Admins, RetryApply(a) PROVE HeldIsOpen' /\ OneHolder'
  BY <1>3 DEF TypeOK, HeldIsOpen, OneHolder, Held, Rows, RetryApply, SetRows, Requeued, RowsIn
<1>4. ASSUME NEW a \in Admins, CancelApply(a) PROVE HeldIsOpen' /\ OneHolder'
  BY <1>4 DEF TypeOK, HeldIsOpen, OneHolder, Held, Rows, CancelApply, SetRows, RowsIn
<1>5. ASSUME NEW c \in Clis, CliCreate(c) PROVE HeldIsOpen' /\ OneHolder'
  BY <1>5 DEF TypeOK, HeldIsOpen, OneHolder, Held, Rows, CliCreate, IsNextId, IsOldest, JobsIn
<1>6. ASSUME NEW c \in Clis, CliActivate(c) PROVE HeldIsOpen' /\ OneHolder'
  BY <1>6 DEF TypeOK, HeldIsOpen, OneHolder, Held, Rows, CliActivate
<1>7. ASSUME NEW p \in Process, PutRows(p) PROVE HeldIsOpen' /\ OneHolder'
  <2>1. cur[p] \in Jobs /\ status[cur[p]] = "pending"
    BY <1>7 DEF PutRows, GeneratingIsPending, Generating, TypeOK, Working, Process
  <2>2. \A r \in Rows : r.job # cur[p] => queue'[r] = queue[r]
    BY <1>7 DEF PutRows, SetRows, TypeOK
  <2>3. UNCHANGED <<busy, saved, late, status>>
    BY <1>7 DEF PutRows
  <2>4. \A v \in Workers : \A r \in Held(v) : r \in Rows /\ r.job # cur[p]
    BY <2>1 DEF HeldIsOpen, Held, TypeOK
  <2> QED
    BY <2>2, <2>3, <2>4 DEF HeldIsOpen, OneHolder, Held
<1>8. ASSUME NEW p \in Process, Crash(p) PROVE HeldIsOpen' /\ OneHolder'
  BY <1>8 DEF TypeOK, HeldIsOpen, OneHolder, Held, Rows, Crash
<1>9. ASSUME NEW w \in Workers, RestartJobs(w) PROVE HeldIsOpen' /\ OneHolder'
  BY <1>9 DEF TypeOK, HeldIsOpen, OneHolder, Held, Rows, RestartJobs, TooLongPending
<1>10. ASSUME NEW w \in Workers, ReadConfigs(w) PROVE HeldIsOpen' /\ OneHolder'
  BY <1>10 DEF TypeOK, HeldIsOpen, OneHolder, Held, Rows, ReadConfigs
<1>11. ASSUME NEW w \in Workers, NEW c \in Configs, ClaimJob(w,
     c) PROVE HeldIsOpen' /\ OneHolder'
  <2>1. CASE UNCHANGED <<tables, runs, pc, cur, run>>
    BY <1>11, <2>1 DEF TypeOK, HeldIsOpen, OneHolder, Held, Rows, ClaimJob
  <2>2. ASSUME NEW j \in Jobs, Claim(w, j), ~IsLocked(j) PROVE HeldIsOpen' /\ OneHolder'
    <3>1. \A k \in Jobs : k # j => status'[k] = status[k]
      BY <2>2 DEF Claim, TypeOK
    <3>2. status[j] = "created" /\ UNCHANGED <<queue, late, busy, saved>>
      BY <1>11, <2>2 DEF Claim, ClaimJob
    <3>3. \A v \in Workers : \A r \in Held(v) : r \in Rows /\ r.job \in Jobs /\ r.job # j
      <4>1. \A v \in Workers : \A r \in Held(v) : r \in Rows
        BY DEF Held, TypeOK
      <4>2. \A r \in Rows : r.job \in Jobs
        BY DEF Rows
      <4> QED
        BY <3>2, <4>1, <4>2 DEF HeldIsOpen
    <3> QED
      BY <3>1, <3>2, <3>3 DEF HeldIsOpen, OneHolder, Held
  <2> QED
    BY <1>11, <2>1, <2>2 DEF ClaimJob, JobsIn
<1>12. ASSUME NEW w \in Workers, ClaimsDone(w) PROVE HeldIsOpen' /\ OneHolder'
  BY <1>12 DEF TypeOK, HeldIsOpen, OneHolder, Held, Rows, ClaimsDone
<1>13. ASSUME NEW w \in Workers, StartWithoutQueue(w) PROVE HeldIsOpen' /\ OneHolder'
  BY <1>13 DEF TypeOK, HeldIsOpen, OneHolder, Held, Rows, StartWithoutQueue
<1>14. ASSUME NEW w \in Workers, ClearQueue(w) PROVE HeldIsOpen' /\ OneHolder'
  <2>1. cur[w] \in Jobs /\ status[cur[w]] = "pending"
    BY <1>14 DEF ClearQueue, GeneratingIsPending, Generating, TypeOK, Working, Process
  <2>2. \A r \in Rows : r.job # cur[w] => queue'[r] = queue[r]
    BY <1>14 DEF ClearQueue, SetRows, Leftover, RowsOf, TypeOK
  <2>3. UNCHANGED <<busy, saved, status>> /\ late' \subseteq late
    BY <1>14 DEF ClearQueue
  <2>4. \A v \in Workers : \A r \in Held(v) : r \in Rows /\ r.job # cur[w]
    BY <2>1 DEF HeldIsOpen, Held, TypeOK
  <2> QED
    BY <2>2, <2>3, <2>4 DEF HeldIsOpen, OneHolder, Held
<1>15. ASSUME NEW w \in Workers, EndGeneration(w) PROVE HeldIsOpen' /\ OneHolder'
  <2>1. cur[w] \in Jobs /\ status[cur[w]] = "pending"
    BY <1>15 DEF EndGeneration, GeneratingIsPending, Generating, TypeOK, Working, Process
  <2>2. \A k \in Jobs : k # cur[w] => status'[k] = status[k]
    BY <1>15 DEF EndGeneration, TypeOK
  <2>3. UNCHANGED <<queue, late, busy, saved>>
    BY <1>15 DEF EndGeneration
  <2>4. \A v \in Workers : \A r \in Held(v) : r \in Rows /\ r.job \in Jobs /\ r.job # cur[w]
    <3>1. \A v \in Workers : \A r \in Held(v) : r \in Rows
      BY DEF Held, TypeOK
    <3>2. \A r \in Rows : r.job \in Jobs
      BY DEF Rows
    <3> QED
      BY <2>1, <3>1, <3>2 DEF HeldIsOpen
  <2> QED
    BY <2>2, <2>3, <2>4 DEF HeldIsOpen, OneHolder, Held
<1>16. ASSUME NEW w \in Workers, LockStarted(w) PROVE HeldIsOpen' /\ OneHolder'
  BY <1>16 DEF TypeOK, HeldIsOpen, OneHolder, Held, Rows, LockStarted, JobsIn
<1>17. ASSUME NEW w \in Workers, NEW j \in Jobs, CountCreated(w,
     j) PROVE HeldIsOpen' /\ OneHolder'
  BY <1>17 DEF TypeOK, HeldIsOpen, OneHolder, Held, Rows, CountCreated, IsOldest
<1>18. ASSUME NEW w \in Workers, CountPending(w) PROVE HeldIsOpen' /\ OneHolder'
  BY <1>18 DEF TypeOK, HeldIsOpen, OneHolder, Held, Rows, CountPending
<1>19. ASSUME NEW w \in Workers, CountError(w) PROVE HeldIsOpen' /\ OneHolder'
  BY <1>19 DEF TypeOK, HeldIsOpen, OneHolder, Held, Rows, CountError
<1>20. ASSUME NEW w \in Workers, CommitFinish(w) PROVE HeldIsOpen' /\ OneHolder'
  BY <1>20 DEF TypeOK, HeldIsOpen, OneHolder, Held, Rows, CommitFinish
<1>21. ASSUME NEW w \in Workers, ResetRows(w) PROVE HeldIsOpen' /\ OneHolder'
  BY <1>21 DEF TypeOK, HeldIsOpen, OneHolder, Held, Rows, ResetRows, SetRows, TooLong
<1>22. ASSUME NEW w \in Workers, SelectConfigs(w) PROVE HeldIsOpen' /\ OneHolder'
  BY <1>22 DEF TypeOK, HeldIsOpen, OneHolder, Held, Rows, SelectConfigs
<1>23. ASSUME NEW w \in Workers, NEW c \in Configs, Take(w, c) PROVE HeldIsOpen' /\ OneHolder'
  <2>1. PICK r \in Rows : /\ queue[r] = "created" /\ status[r.job] = "started"
                         /\ queue' = [queue EXCEPT ![r] = "pending"]
                         /\ busy' = [busy EXCEPT ![w] = @ \cup {r}]
    BY <1>23 DEF Take, Available
  <2>2. r \notin late /\ \A v \in Workers : r \notin Held(v)
    BY <2>1 DEF QueueIsClean, OneHolder
  <2>3. UNCHANGED <<status, late, saved>>
    BY <1>23 DEF Take
  <2>4. \A v \in Workers : v # w => busy'[v] = busy[v]
    BY <2>1 DEF TypeOK
  <2>5. busy'[w] = busy[w] \cup {r}
    BY <2>1 DEF TypeOK
  <2>6. queue'[r] = "pending" /\ \A o \in Rows : o # r => queue'[o] = queue[o]
    BY <2>1 DEF TypeOK
  <2>7. \A v \in Workers : \A o \in Held(v) : o \in Rows /\ o # r
    BY <2>2 DEF Held, TypeOK
  <2>8. HeldIsOpen'
    BY <2>1, <2>2, <2>3, <2>4, <2>5 DEF HeldIsOpen, Held
  <2>9. OneHolder'
    BY <2>2, <2>3, <2>4, <2>5, <2>6, <2>7 DEF OneHolder, Held
  <2> QED
    BY <2>8, <2>9
<1>24. ASSUME NEW w \in Workers, NEW c \in Configs, NothingToTake(w,
     c) PROVE HeldIsOpen' /\ OneHolder'
  BY <1>24 DEF TypeOK, HeldIsOpen, OneHolder, Held, Rows, NothingToTake
<1>25. ASSUME NEW w \in Workers, NEW r \in Rows, Save(w, r) PROVE HeldIsOpen' /\ OneHolder'
  BY <1>25 DEF TypeOK, HeldIsOpen, OneHolder, Held, Rows, Save
<1>26. ASSUME NEW w \in Workers, NEW r \in Rows, DeleteOne(w, r) PROVE HeldIsOpen' /\ OneHolder'
  BY <1>26 DEF TypeOK, HeldIsOpen, OneHolder, Held, Rows, DeleteOne, Acknowledge, Deletable
<1>27. ASSUME NEW w \in Workers, NEW r \in Rows, DeleteOneError(w,
     r) PROVE HeldIsOpen' /\ OneHolder'
  BY <1>27 DEF TypeOK, HeldIsOpen, OneHolder, Held, Rows, DeleteOneError, Acknowledge
<1>28. ASSUME NEW w \in Workers, NEW r \in Rows, Abandon(w, r) PROVE HeldIsOpen' /\ OneHolder'
  BY <1>28 DEF TypeOK, HeldIsOpen, OneHolder, Held, Rows, Abandon
<1>29. ASSUME NEW r \in Rows, RowTimesOut(r) PROVE HeldIsOpen' /\ OneHolder'
  BY <1>29 DEF TypeOK, HeldIsOpen, OneHolder, Held, Rows, RowTimesOut
<1>30. ASSUME NEW j \in Jobs, JobTimesOut(j) PROVE HeldIsOpen' /\ OneHolder'
  BY <1>30 DEF TypeOK, HeldIsOpen, OneHolder, Held, Rows, JobTimesOut
<1>32. ASSUME NEW w \in Workers, NEW r \in Rows, DeleteOneAgain(w,
     r) PROVE HeldIsOpen' /\ OneHolder'
  BY <1>32 DEF AgainIsEmpty, TypeOK, HeldIsOpen, OneHolder, Held, Rows, DeleteOneAgain, Acknowledge
<1>31. CASE UNCHANGED vars
  BY <1>31 DEF TypeOK, HeldIsOpen, OneHolder, Held, Rows
<1> QED
  BY <1>1, <1>2, <1>3, <1>4, <1>5, <1>6, <1>7, <1>8, <1>9, <1>10, <1>11, <1>12, <1>13, <1>14,
       <1>15, <1>16, <1>17, <1>18, <1>19, <1>20, <1>21, <1>22, <1>23, <1>24, <1>25, <1>26,
       <1>27, <1>28, <1>29, <1>30, <1>31, <1>32
  DEF Next, Request, Maintain, List, Generate, Time

\* An entry is never generated by two workers at once, and a worker that holds an entry
\* holds it as pending, in every behaviour in which neither the generation of a meta
\* tile nor that of a queue outlives max_pending_minutes, and no failure is acknowledged
\* a second time.
THEOREM HoldingIsExclusive ==
  ASSUME "slow_tile" \notin Troubles, "slow_generation" \notin Troubles,
         "ack_twice" \notin Troubles
  PROVE  Spec => []OneHolder
<1>1. Init => HolderInv
  BY InitGenerator DEF Init, HolderInv, QueueIsClean, AgainIsEmpty, Process, Rows,
     HeldIsOpen, OneHolder, Held
<1>2. HolderInv /\ [Next]_vars => HolderInv'
  BY NextGenerator, NextClean, NextAgain, NextHeld DEF HolderInv, GeneratorInv
<1>3. HolderInv => OneHolder
  BY DEF HolderInv
<1> QED
  BY <1>1, <1>2, <1>3, PTL DEF Spec

-----------------------------------------------------------------------------
(***************************************************************************)
(* Proofs about the entries of JobQueue, for any number of jobs, meta      *)
(* tiles, workers, command lines, administrators and crashes: a job has    *)
(* one entry for a meta tile, and none of its meta tiles is lost.          *)
(*                                                                         *)
(* Entries appear only while the queue of their job is created, by one     *)
(* process (GeneratorInv), which clears what an earlier run left.          *)
(***************************************************************************)

\* The job whose queue a process fills has only entries of this run, none of them for a
\* meta tile that is still to be inserted.
OneRun ==
  \A p \in Process, r \in Rows :
    pc[p] = "put" /\ r.job = cur[p] /\ queue[r] # "absent"
      => r.run = run[p] /\ r.tile \notin toPut[p]

EntryInv == GeneratorInv /\ QueueIsClean /\ OneRun /\ NoDuplicateEntry

\* A step that adds no entry, and begins or continues the creation of no queue.
Ordinary ==
  /\ \A r \in Rows : queue'[r] # "absent" => queue[r] # "absent"
  /\ \A p \in Process :
       pc'[p] = "put" => /\ pc[p] = "put" /\ cur'[p] = cur[p]
                         /\ run'[p] = run[p] /\ toPut'[p] = toPut[p]

\* Three actions are not ordinary.
LEMMA StepIsOrdinary ==
  ASSUME TypeOK, QueueIsClean, [Next]_vars
  PROVE  \/ Ordinary
         \/ \E p \in Process : PutRows(p)
         \/ \E w \in Workers : ClearQueue(w)
         \/ \E c \in Clis : CliCreate(c)
<1> USE DEF vars, tables, job, history, process
<1>1. CASE CreateJob
  BY <1>1 DEF CreateJob, Ordinary
<1>2. ASSUME NEW a \in Admins, Request(a) PROVE Ordinary
  <2>1. UNCHANGED <<pc, cur, run, toPut>>
    BY <1>2 DEF Request, AdminCheck, RetryApply, CancelApply
  <2>2. \A r \in Rows : queue'[r] # "absent" => queue[r] # "absent"
    BY <1>2 DEF Request, AdminCheck, RetryApply, CancelApply, SetRows, Requeued, RowsIn
  <2> QED
    BY <2>1, <2>2 DEF Ordinary
<1>3. ASSUME NEW c \in Clis, CliActivate(c) PROVE Ordinary
  BY <1>3 DEF CliActivate, Ordinary, Goto, Process, TypeOK
<1>4. ASSUME NEW p \in Process, Crash(p) PROVE Ordinary
  BY <1>4 DEF Crash, Ordinary, Goto, Process, TypeOK
<1>5. ASSUME NEW w \in Workers, RestartJobs(w) \/ ReadConfigs(w) PROVE Ordinary
  BY <1>5 DEF RestartJobs, ReadConfigs, Ordinary, Goto, Process, TypeOK
<1>6. ASSUME NEW w \in Workers, NEW c \in Configs, ClaimJob(w, c) PROVE Ordinary
  <2>1. UNCHANGED <<queue, toPut>>
    BY <1>6 DEF ClaimJob, Claim
  <2>2. \A p \in Process : pc'[p] = "put" => pc[p] = "put" /\ cur'[p] = cur[p] /\ run'[p] = run[p]
    <3>1. CASE UNCHANGED <<tables, runs, pc, cur, run>>
      BY <3>1
    <3>2. ASSUME NEW j \in Jobs, Claim(w, j)
          PROVE \A p \in Process :
                pc'[p] = "put" => pc[p] = "put" /\ cur'[p] = cur[p] /\ run'[p] = run[p]
      BY <3>2 DEF Claim, Goto, TypeOK, Process
    <3> QED
      BY <1>6, <3>1, <3>2 DEF ClaimJob, JobsIn
  <2> QED
    BY <2>1, <2>2 DEF Ordinary
<1>7. ASSUME NEW w \in Workers, ClaimsDone(w) \/ StartWithoutQueue(w) \/ EndGeneration(w)
      PROVE  Ordinary
  BY <1>7 DEF ClaimsDone, StartWithoutQueue, EndGeneration, Ordinary, Goto, Process, TypeOK
<1>8. ASSUME NEW w \in Workers, LockStarted(w) \/ \E j \in Jobs : CountCreated(w, j)
      PROVE  Ordinary
  BY <1>8 DEF LockStarted, CountCreated, Ordinary, Goto, Process, TypeOK
<1>9. ASSUME NEW w \in Workers, CountPending(w) \/ CountError(w) \/ CommitFinish(w)
      PROVE  Ordinary
  BY <1>9 DEF CountPending, CountError, CommitFinish, Ordinary, Goto, Process, TypeOK
<1>10. ASSUME NEW w \in Workers, ResetRows(w) PROVE Ordinary
  BY <1>10 DEF ResetRows, SetRows, TooLong, QueueIsClean, Ordinary, Goto, Process, TypeOK
<1>11. ASSUME NEW w \in Workers, SelectConfigs(w) PROVE Ordinary
  BY <1>11 DEF SelectConfigs, Ordinary, Goto, Process, TypeOK
<1>12. ASSUME NEW w \in Workers, NEW c \in Configs, Take(w, c) \/ NothingToTake(w, c)
       PROVE  Ordinary
  <2>1. UNCHANGED <<cur, run, toPut>> /\ \A p \in Process : pc'[p] = "put" => pc[p] = "put"
    BY <1>12 DEF Take, NothingToTake, Goto, Process, TypeOK
  <2>2. \A r \in Rows : queue'[r] # "absent" => queue[r] # "absent"
    BY <1>12 DEF Take, NothingToTake, Available, TypeOK
  <2> QED
    BY <2>1, <2>2 DEF Ordinary
<1>13. ASSUME NEW w \in Workers, NEW r \in Rows, Generate(w, r) PROVE Ordinary
  <2>1. UNCHANGED <<pc, cur, run, toPut>>
    BY <1>13 DEF Generate, Save, DeleteOne, DeleteOneError, DeleteOneAgain, Abandon
  <2>2. \A o \in Rows : queue'[o] # "absent" => queue[o] # "absent"
    BY <1>13 DEF Generate, Save, DeleteOne, DeleteOneError, DeleteOneAgain, Abandon,
                 Acknowledge, TypeOK
  <2> QED
    BY <2>1, <2>2 DEF Ordinary
<1>14. CASE Time
  BY <1>14 DEF Time, RowTimesOut, JobTimesOut, Ordinary
<1>15. CASE UNCHANGED vars
  BY <1>15 DEF Ordinary
<1> QED
  BY <1>1, <1>2, <1>3, <1>4, <1>5, <1>6, <1>7, <1>8, <1>9, <1>10, <1>11, <1>12, <1>13, <1>14,
     <1>15
  DEF Next, Maintain, List

\* A queue begins without entries, and a batch inserts meta tiles that it does not have.
LEMMA NextEntries ==
  ASSUME TypeOK, GeneratingIsPending, OneGenerator, QueueIsClean, OneRun, NoDuplicateEntry,
         [Next]_vars
  PROVE  OneRun' /\ NoDuplicateEntry'
<1>1. CASE Ordinary
  BY <1>1 DEF Ordinary, OneRun, NoDuplicateEntry
<1>2. ASSUME NEW p \in Process, PutRows(p) PROVE OneRun' /\ NoDuplicateEntry'
  <2>1. PICK S \in SUBSET toPut[p] :
          /\ queue' = [r \in Rows |-> IF r.job = cur[p] /\ r.run = run[p] /\ r.tile \in S
                                      THEN "created" ELSE queue[r]]
          /\ toPut' = [toPut EXCEPT ![p] = @ \ S]
    <3>1. PICK S \in SUBSET toPut[p] :
            /\ SetRows({r \in Rows : r.job = cur[p] /\ r.run = run[p] /\ r.tile \in S}, "created")
            /\ toPut' = [toPut EXCEPT ![p] = @ \ S]
      BY <1>2 DEF PutRows
    <3> QED
      BY <3>1 DEF SetRows
  <2>2. pc[p] = "put" /\ cur[p] \in Jobs /\ UNCHANGED <<pc, cur, run>>
    BY <1>2 DEF PutRows, TypeOK, Working
  <2>3. \A q \in Process : q # p /\ pc[q] = "put" => cur[q] # cur[p]
    BY <2>2 DEF OneGenerator, Generating
  <2>4. toPut'[p] = toPut[p] \ S /\ \A q \in Process : q # p => toPut'[q] = toPut[q]
    BY <2>1 DEF TypeOK
  <2>5. ASSUME NEW q \in Process, NEW r \in Rows, pc'[q] = "put", r.job = cur'[q],
               queue'[r] # "absent"
        PROVE  r.run = run'[q] /\ r.tile \notin toPut'[q]
    <3>1. CASE q = p
      BY <2>1, <2>2, <2>4, <2>5, <3>1 DEF OneRun
    <3>2. CASE q # p
      BY <2>1, <2>2, <2>3, <2>4, <2>5, <3>2 DEF OneRun
    <3> QED
      BY <3>1, <3>2
  <2>6. ASSUME NEW r \in Rows, NEW s \in Rows, queue'[r] # "absent", queue'[s] # "absent",
               r.job = s.job, r.tile = s.tile
        PROVE  r = s
    <3>1. CASE r.job # cur[p]
      BY <2>1, <2>6, <3>1 DEF NoDuplicateEntry
    <3>2. CASE r.job = cur[p]
      <4>1. r.run = run[p] /\ s.run = run[p]
        BY <2>1, <2>2, <2>6, <3>2 DEF OneRun
      <4> QED
        BY <4>1, <2>6 DEF Rows
    <3> QED
      BY <3>1, <3>2
  <2> QED
    BY <2>5, <2>6 DEF OneRun, NoDuplicateEntry
<1>3. ASSUME NEW w \in Workers, ClearQueue(w) PROVE OneRun' /\ NoDuplicateEntry'
  <2>1. queue' = [r \in Rows |-> IF r \in RowsOf(cur[w]) THEN "absent" ELSE queue[r]]
    BY <1>3 DEF ClearQueue, SetRows, Leftover
  <2>2. /\ \A r \in Rows : queue'[r] # "absent" => queue[r] # "absent"
        /\ \A r \in Rows : r.job = cur[w] => queue'[r] = "absent"
    BY <2>1 DEF RowsOf
  <2>3. /\ w \in Process /\ UNCHANGED <<cur, run>>
        /\ \A p \in Process : p # w => pc'[p] = pc[p] /\ toPut'[p] = toPut[p]
    BY <1>3 DEF ClearQueue, Goto, TypeOK, Process
  <2> QED
    BY <2>2, <2>3 DEF OneRun, NoDuplicateEntry
<1>4. ASSUME NEW c \in Clis, CliCreate(c) PROVE OneRun' /\ NoDuplicateEntry'
  <2>1. PICK j \in Jobs : status[j] = "none" /\ cur' = [cur EXCEPT ![c] = j]
    BY <1>4 DEF CliCreate, IsNextId, IsOldest, JobsIn
  <2>2. /\ c \in Process /\ queue' = queue
        /\ \A p \in Process : p # c => /\ pc'[p] = pc[p] /\ toPut'[p] = toPut[p]
                                       /\ run'[p] = run[p] /\ cur'[p] = cur[p]
    BY <1>4 DEF CliCreate, Goto, TypeOK, Process
  <2>3. cur'[c] = j /\ \A r \in Rows : r.job = j => queue[r] = "absent"
    BY <2>1, <2>2 DEF QueueIsClean, TypeOK
  <2> QED
    BY <2>2, <2>3 DEF OneRun, NoDuplicateEntry
<1> QED
  BY <1>1, <1>2, <1>3, <1>4, StepIsOrdinary

\* A job never has two entries for a meta tile, in every behaviour in which no generation
\* of a queue outlives max_pending_minutes, whatever is late, fails or crashes.
THEOREM EntriesAreUnique ==
  ASSUME "slow_generation" \notin Troubles
  PROVE  Spec => []NoDuplicateEntry
<1>1. Init => EntryInv
  BY InitGenerator DEF Init, EntryInv, QueueIsClean, OneRun, NoDuplicateEntry, Process, Rows
<1>2. EntryInv /\ [Next]_vars => EntryInv'
  BY NextGenerator, NextClean, NextEntries DEF EntryInv, GeneratorInv
<1>3. EntryInv => NoDuplicateEntry
  BY DEF EntryInv
<1> QED
  BY <1>1, <1>2, <1>3, PTL DEF Spec
-----------------------------------------------------------------------------
(* No meta tile is lost.                                                   *)

\* Meta tile t of job j is in the cache or in the queue.
Kept(j, t) ==
  <<j, t>> \in stored \/ \E r \in Rows : r.job = j /\ r.tile = t /\ queue[r] # "absent"

\* What a job still owes is in its queue; the run that fills it owes what it did not insert.
TilesKept ==
  /\ \A j \in Jobs : status[j] \in {"started", "error", "done"} =>
       \A t \in TilesOf[j] : Kept(j, t)
  /\ \A p \in Process, j \in Jobs : pc[p] = "put" /\ cur[p] = j =>
       \A t \in TilesOf[j] \ toPut[p] : Kept(j, t)

SavedIsStored == \A w \in Workers : \A r \in saved[w] : <<r.job, r.tile>> \in stored

\* A process that fills a queue has begun a run.
RunsBegan == \A p \in Process : pc[p] \in {"start", "put"} => run[p] \in 1 .. MaxRuns

\* No job is cancelled while a retry is served.
NoLateRetry ==
  /\ \A a \in Admins : admin[a].op \in Requests \cup {"none"}
  /\ "cancel" \notin Requests => \A j \in Jobs : status[j] # "cancelled"
  /\ requests = 0 => /\ \A a \in Admins : admin[a].op = "none"
                     /\ \A j \in Jobs : status[j] # "cancelled"
  /\ \A a \in Admins : admin[a].op = "retry" => /\ \A b \in Admins : admin[b].op # "cancel"
                                                /\ \A j \in Jobs : status[j] # "cancelled"

KeptInv ==
  GeneratorInv /\ QueueIsClean /\ SavedIsStored /\ RunsBegan /\ NoLateRetry /\ TilesKept

\* A step that takes no entry away but those of the meta tiles that are stored.
Retaining ==
  /\ stored \subseteq stored'
  /\ \A r \in Rows : queue[r] # "absent" =>
       queue'[r] # "absent" \/ <<r.job, r.tile>> \in stored

\* Two actions are not: a cancel, and the first step of a new run.
LEMMA StepIsRetaining ==
  ASSUME TypeOK, QueueIsClean, SavedIsStored, [Next]_vars
  PROVE  \/ Retaining
         \/ \E a \in Admins : CancelApply(a)
         \/ \E w \in Workers : ClearQueue(w)
<1> USE DEF vars, tables, job, history, process
<1>1. CASE CreateJob
  BY <1>1 DEF CreateJob, Retaining
<1>2. ASSUME NEW a \in Admins, Request(a) PROVE Retaining \/ CancelApply(a)
  BY <1>2 DEF Request, AdminCheck, RetryApply, SetRows, Requeued, RowsIn, Retaining
<1>3. ASSUME NEW c \in Clis, CliCreate(c) \/ CliActivate(c) PROVE Retaining
  BY <1>3 DEF CliCreate, CliActivate, Retaining
<1>4. ASSUME NEW p \in Process, PutRows(p) \/ Crash(p) PROVE Retaining
  BY <1>4 DEF PutRows, Crash, SetRows, Retaining
<1>5. ASSUME NEW w \in Workers, Maintain(w), ~ClearQueue(w) PROVE Retaining
  <2>1. CASE ResetRows(w)
    BY <2>1 DEF ResetRows, SetRows, TooLong, Retaining
  <2>2. CASE \E c \in Configs : ClaimJob(w, c)
    BY <2>2 DEF ClaimJob, Claim, Retaining
  <2>3. CASE RestartJobs(w) \/ ReadConfigs(w) \/ ClaimsDone(w) \/ StartWithoutQueue(w)
             \/ EndGeneration(w)
    BY <2>3 DEF RestartJobs, ReadConfigs, ClaimsDone, StartWithoutQueue, EndGeneration, Retaining
  <2>4. CASE LockStarted(w) \/ (\E j \in Jobs : CountCreated(w, j)) \/ CountPending(w)
             \/ CountError(w) \/ CommitFinish(w)
    BY <2>4 DEF LockStarted, CountCreated, CountPending, CountError, CommitFinish, Retaining
  <2> QED
    BY <1>5, <2>1, <2>2, <2>3, <2>4 DEF Maintain
<1>6. ASSUME NEW w \in Workers, List(w) PROVE Retaining
  BY <1>6 DEF List, SelectConfigs, Take, NothingToTake, Available, TypeOK, Retaining
<1>7. ASSUME NEW w \in Workers, NEW r \in Rows, Generate(w, r) PROVE Retaining
  <2>1. CASE Save(w, r) \/ Abandon(w, r)
    BY <2>1 DEF Save, Abandon, Retaining
  <2>2. CASE DeleteOne(w, r)
    BY <2>2 DEF DeleteOne, Deletable, Acknowledge, SavedIsStored, TypeOK, Retaining
  <2>3. CASE DeleteOneError(w, r) \/ DeleteOneAgain(w, r)
    BY <2>3 DEF DeleteOneError, DeleteOneAgain, Acknowledge, TypeOK, Retaining
  <2> QED
    BY <1>7, <2>1, <2>2, <2>3 DEF Generate
<1>8. CASE Time
  BY <1>8 DEF Time, RowTimesOut, JobTimesOut, Retaining
<1>9. CASE UNCHANGED vars
  BY <1>9 DEF Retaining
<1> QED
  BY <1>1, <1>2, <1>3, <1>4, <1>5, <1>6, <1>7, <1>8, <1>9 DEF Next

\* Who writes the status of job j, and from what.
Written(j) ==
  \/ status'[j] \in {status[j], "created", "pending"}
  \/ /\ status[j] = "started" /\ status'[j] \in {"error", "done"}
     /\ \E w \in Workers : <<j, status'[j]>> \in verdict[w]
  \/ /\ KindOf[j] # "queue" /\ status'[j] \in {"error", "done"}
     /\ \E w \in Workers : pc[w] = "start" /\ cur[w] = j
  \/ \E p \in Process : pc[p] = "put" /\ cur[p] = j /\ toPut[p] = {} /\ status'[j] = "started"
  \/ \E a \in Admins : /\ admin[a].op = "retry" /\ admin[a].job = j
                       /\ status'[j] = "started" /\ admin'[a] = Idle
  \/ \E a \in Admins : admin[a].op = "cancel" /\ admin[a].job = j /\ status'[j] = "cancelled"

LEMMA StepWrites ==
  ASSUME "fail_generation" \notin Troubles, TypeOK, LockedIsStarted, [Next]_vars
  PROVE  \A j \in Jobs : Written(j)
<1> SUFFICES ASSUME NEW j \in Jobs PROVE Written(j)
  OBVIOUS
<1> USE DEF vars, tables, job, history, process
<1>1. CASE CreateJob
  BY <1>1 DEF CreateJob, Written, TypeOK
<1>2. ASSUME NEW a \in Admins, Request(a) PROVE Written(j)
  BY <1>2 DEF Request, AdminCheck, RetryApply, CancelApply, Written, TypeOK
<1>3. ASSUME NEW c \in Clis, CliCreate(c) \/ CliActivate(c) PROVE Written(j)
  BY <1>3 DEF CliCreate, CliActivate, Flushed, Process, Written, TypeOK
<1>4. ASSUME NEW p \in Process, PutRows(p) \/ Crash(p) PROVE Written(j)
  BY <1>4 DEF PutRows, Crash, Written
<1>5. ASSUME NEW w \in Workers, Maintain(w) PROVE Written(j)
  <2>1. CASE CommitFinish(w)
    <3>1. status'[j] = IF <<j, "error">> \in verdict[w] THEN "error"
                       ELSE IF <<j, "done">> \in verdict[w] THEN "done" ELSE status[j]
      BY <2>1 DEF CommitFinish
    <3>2. <<j, "error">> \in verdict[w] \/ <<j, "done">> \in verdict[w] => status[j] = "started"
      BY DEF LockedIsStarted
    <3> QED
      BY <3>1, <3>2 DEF Written
  <2>2. CASE \E c \in Configs : ClaimJob(w, c)
    <3>1. CASE UNCHANGED status
      BY <3>1 DEF Written
    <3>2. ASSUME NEW k \in Jobs, Claim(w, k) PROVE Written(j)
      BY <3>2 DEF Claim, Written, TypeOK
    <3> QED
      BY <2>2, <3>1, <3>2 DEF ClaimJob, JobsIn
  <2>3. CASE StartWithoutQueue(w)
    BY <2>3 DEF StartWithoutQueue, Written, TypeOK
  <2>4. CASE EndGeneration(w)
    BY <2>4 DEF EndGeneration, Flushed, Process, Written, TypeOK
  <2>5. CASE RestartJobs(w) \/ ReadConfigs(w) \/ ClaimsDone(w) \/ ClearQueue(w)
    BY <2>5 DEF RestartJobs, ReadConfigs, ClaimsDone, ClearQueue, Written
  <2>6. CASE LockStarted(w) \/ (\E k \in Jobs : CountCreated(w, k)) \/ CountPending(w)
             \/ CountError(w) \/ ResetRows(w)
    BY <2>6 DEF LockStarted, CountCreated, CountPending, CountError, ResetRows, Written
  <2> QED
    BY <1>5, <2>1, <2>2, <2>3, <2>4, <2>5, <2>6 DEF Maintain
<1>6. ASSUME NEW w \in Workers, List(w) PROVE Written(j)
  BY <1>6 DEF List, SelectConfigs, Take, NothingToTake, Written
<1>7. ASSUME NEW w \in Workers, NEW r \in Rows, Generate(w, r) PROVE Written(j)
  BY <1>7 DEF Generate, Save, DeleteOne, DeleteOneError, DeleteOneAgain, Abandon, Written
<1>8. CASE Time
  BY <1>8 DEF Time, RowTimesOut, JobTimesOut, Written
<1>9. CASE UNCHANGED vars
  BY <1>9 DEF Written
<1> QED
  BY <1>1, <1>2, <1>3, <1>4, <1>5, <1>6, <1>7, <1>8, <1>9 DEF Next

\* An entry is saved after its tiles are stored.
LEMMA NextSaved ==
  ASSUME TypeOK, SavedIsStored, [Next]_vars
  PROVE  SavedIsStored'
<1> USE DEF vars, history, work, SavedIsStored
<1>1. ASSUME NEW w \in Workers, NEW r \in Rows, Generate(w, r) PROVE SavedIsStored'
  <2>1. CASE Save(w, r)
    <3>1. stored' = stored \cup {<<r.job, r.tile>>} /\ saved'[w] = saved[w] \cup {r}
      BY <2>1 DEF Save, TypeOK
    <3>2. \A v \in Workers : v # w => saved'[v] = saved[v]
      BY <2>1 DEF Save, TypeOK
    <3> QED
      BY <3>1, <3>2
  <2>2. CASE DeleteOne(w, r) \/ DeleteOneError(w, r) \/ Abandon(w, r)
    <3>1. UNCHANGED stored /\ saved' = [saved EXCEPT ![w] = @ \ {r}]
      BY <2>2 DEF DeleteOne, DeleteOneError, Abandon
    <3> QED
      BY <3>1 DEF TypeOK
  <2>3. CASE DeleteOneAgain(w, r)
    BY <2>3 DEF DeleteOneAgain
  <2> QED
    BY <1>1, <2>1, <2>2, <2>3 DEF Generate
<1>2. CASE \E p \in Process : Crash(p)
  BY <1>2 DEF Crash
<1>3. CASE CreateJob \/ (\E a \in Admins : Request(a)) \/ Time \/ UNCHANGED vars
  BY <1>3 DEF CreateJob, Request, AdminCheck, RetryApply, CancelApply, Time, RowTimesOut,
              JobTimesOut
<1>4. CASE (\E c \in Clis : CliCreate(c) \/ CliActivate(c)) \/ \E p \in Process : PutRows(p)
  BY <1>4 DEF CliCreate, CliActivate, PutRows
<1>5. ASSUME NEW w \in Workers, Maintain(w) PROVE UNCHANGED <<stored, saved>>
  <2>1. CASE RestartJobs(w) \/ ReadConfigs(w) \/ ClaimsDone(w) \/ ClearQueue(w)
    BY <2>1 DEF RestartJobs, ReadConfigs, ClaimsDone, ClearQueue
  <2>2. CASE StartWithoutQueue(w) \/ EndGeneration(w) \/ \E c \in Configs : ClaimJob(w, c)
    BY <2>2 DEF StartWithoutQueue, EndGeneration, ClaimJob
  <2>3. CASE LockStarted(w) \/ (\E k \in Jobs : CountCreated(w, k)) \/ CountPending(w)
    BY <2>3 DEF LockStarted, CountCreated, CountPending
  <2>4. CASE CountError(w) \/ CommitFinish(w) \/ ResetRows(w)
    BY <2>4 DEF CountError, CommitFinish, ResetRows
  <2> QED
    BY <1>5, <2>1, <2>2, <2>3, <2>4 DEF Maintain
<1>6. CASE \E w \in Workers : List(w)
  BY <1>6 DEF List, SelectConfigs, Take, NothingToTake
<1> QED
  BY <1>1, <1>2, <1>3, <1>4, <1>5, <1>6 DEF Next

\* A run is begun by a claim or by a command line.
LEMMA NextRuns ==
  ASSUME TypeOK, QueueIsClean, RunsBegan, [Next]_vars
  PROVE  RunsBegan'
<1> USE DEF vars, tables, job, history, process
<1>1. CASE CreateJob
  BY <1>1 DEF CreateJob, RunsBegan
<1>2. CASE (\E a \in Admins : Request(a)) \/ Time \/ UNCHANGED vars
  BY <1>2 DEF Request, AdminCheck, RetryApply, CancelApply, Time, RowTimesOut, JobTimesOut,
              RunsBegan
<1>3. ASSUME NEW c \in Clis, CliCreate(c) PROVE RunsBegan'
  BY <1>3, JobQueueAssumption DEF CliCreate, Goto, Process, TypeOK, RunsBegan
<1>4. ASSUME NEW p \in Process, PutRows(p) PROVE RunsBegan'
  BY <1>4 DEF PutRows, RunsBegan
<1>5. ASSUME NEW p \in Process, Crash(p) PROVE RunsBegan'
  BY <1>5 DEF Crash, Goto, TypeOK, RunsBegan
<1>6. ASSUME NEW w \in Workers, NEW c \in Configs, ClaimJob(w, c) PROVE RunsBegan'
  <2>1. CASE UNCHANGED <<pc, cur, run>>
    BY <2>1 DEF RunsBegan
  <2>2. ASSUME NEW j \in Jobs, Claim(w, j) PROVE RunsBegan'
    BY <2>2, JobQueueAssumption DEF Claim, Goto, Process, TypeOK, RunsBegan
  <2> QED
    BY <1>6, <2>1, <2>2 DEF ClaimJob, JobsIn
<1>7. ASSUME NEW w \in Workers, Maintain(w), \A c \in Configs : ~ClaimJob(w, c)
      PROVE  UNCHANGED run /\ \A p \in Process : pc'[p] \in {"start", "put"} =>
                                                 pc[p] \in {"start", "put"}
  <2>1. CASE RestartJobs(w) \/ ReadConfigs(w) \/ ClaimsDone(w) \/ ClearQueue(w)
    BY <2>1 DEF RestartJobs, ReadConfigs, ClaimsDone, ClearQueue, Goto, TypeOK, Process
  <2>2. CASE StartWithoutQueue(w) \/ EndGeneration(w)
    BY <2>2 DEF StartWithoutQueue, EndGeneration, Goto, TypeOK, Process
  <2>3. CASE LockStarted(w) \/ (\E k \in Jobs : CountCreated(w, k)) \/ CountPending(w)
    BY <2>3 DEF LockStarted, CountCreated, CountPending, Goto, TypeOK, Process
  <2>4. CASE CountError(w) \/ CommitFinish(w) \/ ResetRows(w)
    BY <2>4 DEF CountError, CommitFinish, ResetRows, Goto, TypeOK, Process
  <2> QED
    BY <1>7, <2>1, <2>2, <2>3, <2>4 DEF Maintain
<1>8. ASSUME NEW w \in Workers, List(w) PROVE RunsBegan'
  BY <1>8 DEF List, SelectConfigs, Take, NothingToTake, Goto, TypeOK, Process, RunsBegan
<1>9. ASSUME NEW w \in Workers, NEW r \in Rows, Generate(w, r) PROVE RunsBegan'
  BY <1>9 DEF Generate, Save, DeleteOne, DeleteOneError, DeleteOneAgain, Abandon, RunsBegan
<1>10. ASSUME NEW c \in Clis, CliActivate(c) PROVE RunsBegan'
  BY <1>10 DEF CliActivate, Goto, TypeOK, Process, RunsBegan
<1> QED
  BY <1>1, <1>2, <1>3, <1>4, <1>5, <1>6, <1>7, <1>8, <1>9, <1>10 DEF Next, RunsBegan

\* Only the handlers of the admin page change what is requested.
LEMMA StepRequests ==
  ASSUME [Next]_vars
  PROVE  UNCHANGED <<admin, requests>> \/ \E a \in Admins : Request(a)
<1> USE DEF vars, bounds
<1>1. CASE CreateJob \/ Time \/ UNCHANGED vars
  BY <1>1 DEF CreateJob, Time, RowTimesOut, JobTimesOut
<1>2. CASE \E c \in Clis : CliCreate(c) \/ CliActivate(c)
  BY <1>2 DEF CliCreate, CliActivate
<1>3. CASE \E p \in Process : PutRows(p) \/ Crash(p)
  BY <1>3 DEF PutRows, Crash
<1>4. ASSUME NEW w \in Workers, Maintain(w) PROVE UNCHANGED <<admin, requests>>
  <2>1. CASE RestartJobs(w) \/ ReadConfigs(w) \/ ClaimsDone(w) \/ ClearQueue(w)
    BY <2>1 DEF RestartJobs, ReadConfigs, ClaimsDone, ClearQueue
  <2>2. CASE StartWithoutQueue(w) \/ EndGeneration(w) \/ \E c \in Configs : ClaimJob(w, c)
    BY <2>2 DEF StartWithoutQueue, EndGeneration, ClaimJob
  <2>3. CASE LockStarted(w) \/ (\E k \in Jobs : CountCreated(w, k)) \/ CountPending(w)
    BY <2>3 DEF LockStarted, CountCreated, CountPending
  <2>4. CASE CountError(w) \/ CommitFinish(w) \/ ResetRows(w)
    BY <2>4 DEF CountError, CommitFinish, ResetRows
  <2> QED
    BY <1>4, <2>1, <2>2, <2>3, <2>4 DEF Maintain
<1>5. ASSUME NEW w \in Workers, List(w) PROVE UNCHANGED <<admin, requests>>
  BY <1>5 DEF List, SelectConfigs, Take, NothingToTake
<1>6. ASSUME NEW w \in Workers, NEW r \in Rows, Generate(w, r)
      PROVE  UNCHANGED <<admin, requests>>
  BY <1>6 DEF Generate, Save, DeleteOne, DeleteOneError, DeleteOneAgain, Abandon
<1> QED
  BY <1>1, <1>2, <1>3, <1>4, <1>5, <1>6 DEF Next

\* A retry that is served without another request before it leaves no job cancelled.
LEMMA NextRetry ==
  ASSUME "cancel" \notin Requests \/ "retry" \notin Requests \/ MaxRequests \leq 1,
         "fail_generation" \notin Troubles, TypeOK, LockedIsStarted, NoLateRetry, [Next]_vars
  PROVE  NoLateRetry'
<1> USE DEF vars
<1>1. \A j \in Jobs : Written(j)
  BY StepWrites
<1>2. ASSUME UNCHANGED <<admin, requests>> PROVE NoLateRetry'
  <2>1. \A j \in Jobs : status'[j] = "cancelled" =>
          status[j] = "cancelled" \/ \E a \in Admins : admin[a].op = "cancel"
    BY <1>1 DEF Written
  <2> QED
    BY <1>2, <2>1 DEF NoLateRetry
<1>3. ASSUME NEW a \in Admins, NEW op \in {"cancel", "retry"}, NEW j \in Jobs,
             AdminCheck(a, op, j)
      PROVE  NoLateRetry'
  <2>1. /\ op \in Requests /\ requests' = requests + 1 /\ requests < MaxRequests
        /\ UNCHANGED status /\ admin'[a].op = op
        /\ \A b \in Admins : b # a => admin'[b] = admin[b]
    BY <1>3 DEF AdminCheck, TypeOK, tables, job
  <2>2. requests' # 0 /\ requests \in Nat /\ (MaxRequests \leq 1 => requests = 0)
    BY <2>1, JobQueueAssumption DEF TypeOK
  <2>3. CASE op = "retry"
    BY <2>1, <2>2, <2>3 DEF NoLateRetry
  <2>4. CASE op = "cancel"
    BY <2>1, <2>2, <2>4 DEF NoLateRetry
  <2> QED
    BY <2>3, <2>4
<1>4. ASSUME NEW a \in Admins, RetryApply(a) PROVE NoLateRetry'
  <2>1. /\ admin'[a].op = "none" /\ \A b \in Admins : b # a => admin'[b] = admin[b]
        /\ requests' = requests /\ admin[a].op = "retry"
    BY <1>4 DEF RetryApply, Idle, TypeOK, bounds
  <2>2. \A j \in Jobs : status'[j] = "cancelled" => status[j] = "cancelled"
    BY <1>4 DEF RetryApply, TypeOK
  <2> QED
    BY <2>1, <2>2 DEF NoLateRetry
<1>5. ASSUME NEW a \in Admins, CancelApply(a) PROVE NoLateRetry'
  <2>1. /\ admin'[a].op = "none" /\ \A b \in Admins : b # a => admin'[b] = admin[b]
        /\ requests' = requests /\ admin[a].op = "cancel"
    BY <1>5 DEF CancelApply, Idle, TypeOK, bounds
  <2> QED
    BY <2>1 DEF NoLateRetry
<1> QED
  BY <1>2, <1>3, <1>4, <1>5, StepRequests DEF Request

\* What a job owes stays in its queue until it is stored, and the run that fills the queue
\* inserts the rest.
LEMMA NextKept ==
  ASSUME "fail_generation" \notin Troubles, \A j \in Jobs : KindOf[j] # "queue" => TilesOf[j] = {},
         GeneratorInv, QueueIsClean, SavedIsStored, RunsBegan, NoLateRetry, TilesKept, [Next]_vars
  PROVE  TilesKept'
<1> USE DEF vars, tables, job, history, process, GeneratorInv
<1>1. \A j \in Jobs : \A t : Retaining /\ Kept(j, t) => Kept(j, t)'
  BY DEF Retaining, Kept
<1>2. \A j \in Jobs : Written(j)
  BY StepWrites
<1>3. \A p \in Process : pc[p] = "put" => cur[p] \in Jobs
  BY DEF TypeOK, Working
<1>4. ASSUME NEW j \in Jobs, status'[j] \in {"started", "error", "done"}
      PROVE  \A t \in TilesOf[j] : Kept(j, t)
  <2>1. CASE status[j] \in {"started", "error", "done"}
    BY <2>1 DEF TilesKept
  <2>2. CASE KindOf[j] # "queue"
    BY <2>2
  <2>3. ASSUME NEW p \in Process, pc[p] = "put", cur[p] = j, toPut[p] = {}
        PROVE  \A t \in TilesOf[j] : Kept(j, t)
    BY <2>3 DEF TilesKept
  <2>4. ASSUME NEW a \in Admins, admin[a].op = "retry", admin[a].job = j
        PROVE  status[j] \in {"started", "error", "done"}
    BY <2>4 DEF RequestedIsOpen, NoLateRetry
  <2> QED
    BY <1>2, <1>4, <2>1, <2>2, <2>3, <2>4 DEF Written
<1>5. ASSUME NEW a \in Admins, CancelApply(a) PROVE TilesKept'
  <2>1. PICK k \in Jobs : /\ status[k] \in {"started", "error", "done", "cancelled"}
                          /\ status' = [status EXCEPT ![k] = "cancelled"]
                          /\ \A r \in Rows : r.job # k => queue'[r] = queue[r]
    <3>1. /\ admin[a].job \in Jobs
          /\ status[admin[a].job] \in {"started", "error", "done", "cancelled"}
      BY <1>5 DEF CancelApply, RequestedIsOpen
    <3> QED
      BY <1>5, <3>1 DEF CancelApply, SetRows, RowsIn
  <2>2. UNCHANGED <<stored, process>>
    BY <1>5 DEF CancelApply
  <2>3. \A p \in Process : pc[p] = "put" => cur[p] # k
    BY <2>1 DEF GeneratingIsPending, Generating
  <2>4. \A j \in Jobs : \A t : j # k /\ Kept(j, t) => Kept(j, t)'
    BY <2>1, <2>2 DEF Kept
  <2> QED
    BY <1>3, <2>1, <2>2, <2>3, <2>4 DEF TilesKept, TypeOK
<1>6. ASSUME NEW w \in Workers, ClearQueue(w) PROVE TilesKept'
  <2>1. /\ w \in Process /\ cur[w] \in Jobs /\ status[cur[w]] = "pending"
        /\ \A p \in Process : p # w /\ pc[p] = "put" => cur[p] # cur[w]
    BY <1>6 DEF ClearQueue, TypeOK, Working, Process, GeneratingIsPending, OneGenerator, Generating
  <2>2. /\ UNCHANGED <<status, stored, cur>> /\ toPut'[w] = TilesOf[cur[w]]
        /\ \A p \in Process : p # w => pc'[p] = pc[p] /\ toPut'[p] = toPut[p]
    BY <1>6 DEF ClearQueue, Goto, TypeOK, Process
  <2>3. \A r \in Rows : r.job # cur[w] => queue'[r] = queue[r]
    BY <1>6 DEF ClearQueue, SetRows, Leftover, RowsOf
  <2>4. \A j \in Jobs : \A t : j # cur[w] /\ Kept(j, t) => Kept(j, t)'
    BY <2>2, <2>3 DEF Kept
  <2>5. \A j \in Jobs : status'[j] \in {"started", "error", "done"} =>
          \A t \in TilesOf[j] : Kept(j, t)'
    BY <2>1, <2>2, <2>4 DEF TilesKept
  <2>6. \A p \in Process, j \in Jobs : pc'[p] = "put" /\ cur'[p] = j =>
          \A t \in TilesOf[j] \ toPut'[p] : Kept(j, t)'
    BY <1>3, <2>1, <2>2, <2>4 DEF TilesKept
  <2> QED
    BY <2>2, <2>5, <2>6 DEF TilesKept
<1>7. ASSUME Retaining, NEW p \in Process, PutRows(p) PROVE TilesKept'
  <2>1. PICK S \in SUBSET toPut[p] :
          /\ queue' = [r \in Rows |-> IF r.job = cur[p] /\ r.run = run[p] /\ r.tile \in S
                                      THEN "created" ELSE queue[r]]
          /\ toPut' = [toPut EXCEPT ![p] = @ \ S]
    BY <1>7 DEF PutRows, SetRows
  <2>2. pc[p] = "put" /\ cur[p] \in Jobs /\ UNCHANGED <<status, pc, cur>>
    BY <1>7 DEF PutRows, TypeOK, Working
  <2>3. S \subseteq MetaTiles /\ toPut'[p] = toPut[p] \ S
    BY <2>1 DEF TypeOK
  <2>4. ASSUME NEW j \in Jobs, j = cur[p], NEW t \in S PROVE Kept(j, t)'
    <3> DEFINE r == [job |-> j, run |-> run[p], tile |-> t]
    <3>1. r \in Rows
      BY <2>2, <2>3 DEF Rows, RunsBegan
    <3>2. queue'[r] = "created" /\ r.job = j /\ r.tile = t
      BY <2>1, <2>4, <3>1
    <3> QED
      BY <3>1, <3>2 DEF Kept
  <2>5. \A j \in Jobs : status'[j] \in {"started", "error", "done"} =>
          \A t \in TilesOf[j] : Kept(j, t)'
    BY <1>1, <1>7, <2>2 DEF TilesKept
  <2>6. ASSUME NEW q \in Process, NEW j \in Jobs, pc[q] = "put", cur[q] = j,
               NEW t \in TilesOf[j], t \notin toPut'[q]
        PROVE  Kept(j, t)'
    <3>1. CASE q = p /\ t \in S
      BY <2>4, <2>6, <3>1
    <3>2. CASE t \notin toPut[q]
      BY <1>1, <1>7, <2>6, <3>2 DEF TilesKept
    <3> QED
      BY <2>1, <2>3, <2>6, <3>1, <3>2 DEF TypeOK
  <2> QED
    BY <2>2, <2>5, <2>6 DEF TilesKept
<1>8. ASSUME Retaining, NEW c \in Clis, CliCreate(c) PROVE TilesKept'
  <2>1. PICK k \in Jobs : cur' = [cur EXCEPT ![c] = k] /\ toPut' = [toPut EXCEPT ![c] = TilesOf[k]]
    BY <1>8 DEF CliCreate
  <2>2. /\ c \in Process /\ cur'[c] = k /\ toPut'[c] = TilesOf[k]
        /\ \A p \in Process : p # c => pc'[p] = pc[p] /\ toPut'[p] = toPut[p] /\ cur'[p] = cur[p]
    BY <1>8, <2>1 DEF CliCreate, Goto, TypeOK, Process
  <2>3. \A p \in Process, j \in Jobs : pc'[p] = "put" /\ cur'[p] = j =>
          \A t \in TilesOf[j] \ toPut'[p] : Kept(j, t)'
    BY <1>1, <1>8, <2>2 DEF TilesKept
  <2>4. \A j \in Jobs : status'[j] \in {"started", "error", "done"} =>
          \A t \in TilesOf[j] : Kept(j, t)'
    BY <1>1, <1>4, <1>8
  <2> QED
    BY <2>3, <2>4 DEF TilesKept
<1>9. ASSUME Retaining, Ordinary PROVE TilesKept'
  <2>1. \A j \in Jobs : status'[j] \in {"started", "error", "done"} =>
          \A t \in TilesOf[j] : Kept(j, t)'
    BY <1>1, <1>4, <1>9
  <2>2. \A p \in Process, j \in Jobs : pc'[p] = "put" /\ cur'[p] = j =>
          \A t \in TilesOf[j] \ toPut'[p] : Kept(j, t)'
    BY <1>1, <1>9 DEF Ordinary, TilesKept
  <2> QED
    BY <2>1, <2>2 DEF TilesKept
<1> QED
  BY <1>5, <1>6, <1>7, <1>8, <1>9, StepIsOrdinary, StepIsRetaining

\* Each meta tile of a started or done job is in the cache or in the queue, in every
\* behaviour in which no generation of a queue fails or outlives max_pending_minutes and
\* no job is cancelled while its retry is served, whatever is late, fails or crashes.
THEOREM TilesAreKept ==
  ASSUME "slow_generation" \notin Troubles, "fail_generation" \notin Troubles,
         \A j \in Jobs : KindOf[j] # "queue" => TilesOf[j] = {},
         "cancel" \notin Requests \/ "retry" \notin Requests \/ MaxRequests \leq 1
  PROVE  Spec => []NoTileLost
<1>1. Init => KeptInv
  BY InitGenerator DEF Init, KeptInv, QueueIsClean, SavedIsStored, RunsBegan, NoLateRetry,
     TilesKept, Idle, Process, Rows
<1>2. KeptInv /\ [Next]_vars => KeptInv'
  BY NextGenerator, NextClean, NextSaved, NextRuns, NextRetry, NextKept
  DEF KeptInv, GeneratorInv
<1>3. KeptInv => NoTileLost
  <2> SUFFICES ASSUME KeptInv, NEW j \in JobsIn("started") \cup JobsIn("done"),
                      NEW t \in TilesOf[j]
               PROVE  <<j, t>> \in stored \/ \E r \in RowsOf(j) : r.tile = t
    BY DEF NoTileLost
  <2>1. Kept(j, t)
    BY DEF JobsIn, KeptInv, TilesKept
  <2> QED
    BY <2>1 DEF Kept, RowsOf
<1> QED
  BY <1>1, <1>2, <1>3, PTL DEF Spec

-----------------------------------------------------------------------------
OneWorker == \A v, w \in Workers : v = w
\* Nothing makes an entry older than max_pending_minutes.
Calm == "slow_tile" \notin Troubles /\ "abandon" \notin Troubles /\ MaxCrashes = 0

\* A pending entry is held by a worker, which has the time it needs.
NoOrphan ==
  OneWorker \/ /\ late = {}
               /\ \A r \in Rows : queue[r] = "pending" => \E w \in Workers : r \in Held(w)

\* Only commands that fill a queue have entries.
NoStrayEntry ==
  /\ \A r \in Rows : KindOf[r.job] # "queue" => queue[r] = "absent"
  /\ \A p \in Process : pc[p] = "put" => KindOf[cur[p]] = "queue"

NoneToGenerate(j) == \A r \in Rows : r.job = j => queue[r] \notin {"created", "pending"}
NoEntry(j) == \A r \in Rows : r.job = j => queue[r] = "absent"
NoneCreated(j) == \A r \in Rows : r.job = j => queue[r] # "created"

\* What a worker counted is still so when it counts the next status and when it commits.
CountsHold ==
  \A w \in Workers :
    /\ pc[w] \in {"count_pending", "count_error"} => NoneCreated(cur[w])
    /\ pc[w] = "count_error" => NoneToGenerate(cur[w])
    /\ \A d \in verdict[w] : NoneToGenerate(d[1]) /\ (d[2] = "done" => NoEntry(d[1]))

SettledHolds ==
  \A j \in Jobs : /\ status[j] \in {"done", "error"} => NoneToGenerate(j)
                  /\ status[j] = "done" => NoEntry(j)

SettleInv ==
  GeneratorInv /\ QueueIsClean /\ NoOrphan /\ NoStrayEntry /\ CountsHold /\ SettledHolds

\* How an entry moves in a step.
Moved(r) ==
  \/ queue'[r] = queue[r]
  \/ queue[r] = "created" /\ queue'[r] = "pending" /\ status[r.job] = "started"
  \/ queue[r] = "pending" /\ queue'[r] \in {"error", "absent"}
  \/ /\ queue'[r] = "absent"
     /\ \/ \E w \in Workers : pc[w] = "start" /\ cur[w] = r.job
        \/ \E a \in Admins : admin[a].op = "cancel" /\ queue[r] = "created"
  \/ /\ queue'[r] = "created"
     /\ \/ \E p \in Process : pc[p] = "put" /\ cur[p] = r.job
        \/ queue[r] = "error" /\ ~IsLocked(r.job) /\ status'[r.job] = "started"
        \/ r \in late /\ \E w \in Workers : pc[w] = "reset"

LEMMA StepMoves ==
  ASSUME TypeOK, RequestedIsOpen, [Next]_vars
  PROVE  \A r \in Rows : Moved(r)
<1> USE DEF vars, tables, job, history, process
<1>1. CASE CreateJob
  BY <1>1 DEF CreateJob, Moved
<1>2. ASSUME NEW a \in Admins, Request(a) PROVE \A r \in Rows : Moved(r)
  <2>1. CASE RetryApply(a)
    <3>1. admin[a].job \in Jobs /\ status'[admin[a].job] = "started" /\ ~IsLocked(admin[a].job)
      BY <2>1 DEF RetryApply, RequestedIsOpen, TypeOK
    <3> QED
      BY <2>1, <3>1 DEF RetryApply, SetRows, Requeued, RowsIn, Moved
  <2>2. CASE CancelApply(a)
    BY <2>2 DEF CancelApply, SetRows, RowsIn, Moved
  <2>3. CASE \E op \in {"cancel", "retry"}, j \in Jobs : AdminCheck(a, op, j)
    BY <2>3 DEF AdminCheck, Moved
  <2> QED
    BY <1>2, <2>1, <2>2, <2>3 DEF Request
<1>3. ASSUME NEW c \in Clis, CliCreate(c) \/ CliActivate(c) PROVE \A r \in Rows : Moved(r)
  BY <1>3 DEF CliCreate, CliActivate, Moved
<1>4. ASSUME NEW p \in Process, PutRows(p) \/ Crash(p) PROVE \A r \in Rows : Moved(r)
  BY <1>4 DEF PutRows, Crash, SetRows, Moved
<1>5. ASSUME NEW w \in Workers, Maintain(w) PROVE \A r \in Rows : Moved(r)
  <2>1. CASE ResetRows(w)
    BY <2>1 DEF ResetRows, SetRows, TooLong, Moved
  <2>2. CASE ClearQueue(w)
    BY <2>2 DEF ClearQueue, SetRows, Leftover, RowsOf, Moved
  <2>3. CASE \E c \in Configs : ClaimJob(w, c)
    BY <2>3 DEF ClaimJob, Claim, Moved
  <2>4. CASE RestartJobs(w) \/ ReadConfigs(w) \/ ClaimsDone(w) \/ StartWithoutQueue(w)
             \/ EndGeneration(w)
    BY <2>4 DEF RestartJobs, ReadConfigs, ClaimsDone, StartWithoutQueue, EndGeneration, Moved
  <2>5. CASE LockStarted(w) \/ (\E j \in Jobs : CountCreated(w, j)) \/ CountPending(w)
             \/ CountError(w) \/ CommitFinish(w)
    BY <2>5 DEF LockStarted, CountCreated, CountPending, CountError, CommitFinish, Moved
  <2> QED
    BY <1>5, <2>1, <2>2, <2>3, <2>4, <2>5 DEF Maintain
<1>6. ASSUME NEW w \in Workers, List(w) PROVE \A r \in Rows : Moved(r)
  BY <1>6 DEF List, SelectConfigs, Take, NothingToTake, Available, TypeOK, Moved
<1>7. ASSUME NEW w \in Workers, NEW r \in Rows, Generate(w, r) PROVE \A o \in Rows : Moved(o)
  BY <1>7 DEF Generate, Save, DeleteOne, DeleteOneError, DeleteOneAgain, Abandon, Acknowledge,
              TypeOK, Moved
<1>8. CASE Time
  BY <1>8 DEF Time, RowTimesOut, JobTimesOut, Moved
<1>9. CASE UNCHANGED vars
  BY <1>9 DEF Moved
<1> QED
  BY <1>1, <1>2, <1>3, <1>4, <1>5, <1>6, <1>7, <1>8, <1>9 DEF Next

\* What a step may do to the settlement of a worker.
LEMMA StepCounts ==
  ASSUME TypeOK, [Next]_vars, NEW w \in Workers
  PROVE  \/ /\ verdict'[w] \subseteq verdict[w]
            /\ \/ pc'[w] \notin {"count_pending", "count_error"}
               \/ pc'[w] = pc[w] /\ cur'[w] = cur[w]
         \/ (\E j \in Jobs : CountCreated(w, j)) \/ CountPending(w) \/ CountError(w)
<1> DEFINE Still == /\ verdict'[w] \subseteq verdict[w]
                    /\ \/ pc'[w] \notin {"count_pending", "count_error"}
                       \/ pc'[w] = pc[w] /\ cur'[w] = cur[w]
<1> USE DEF vars, process, settling
<1>1. CASE CreateJob \/ (\E a \in Admins : Request(a)) \/ Time \/ UNCHANGED vars
  BY <1>1 DEF CreateJob, Request, AdminCheck, RetryApply, CancelApply, Time, RowTimesOut,
              JobTimesOut
<1>2. ASSUME NEW c \in Clis, CliCreate(c) \/ CliActivate(c) PROVE Still
  BY <1>2 DEF CliCreate, CliActivate, Goto, Process, TypeOK
<1>3. ASSUME NEW p \in Process, PutRows(p) \/ Crash(p) PROVE Still
  BY SMTT(40), <1>3 DEF PutRows, Crash, Goto, Process, TypeOK
<1>4. ASSUME NEW v \in Workers, List(v) PROVE Still
  BY <1>4 DEF List, SelectConfigs, Take, NothingToTake, Goto, Process, TypeOK
<1>5. ASSUME NEW v \in Workers, NEW r \in Rows, Generate(v, r) PROVE Still
  BY <1>5 DEF Generate, Save, DeleteOne, DeleteOneError, DeleteOneAgain, Abandon
<1>6. ASSUME NEW v \in Workers, Maintain(v),
             ~ ((\E j \in Jobs : CountCreated(w, j)) \/ CountPending(w) \/ CountError(w))
      PROVE  Still
  <2>1. CASE RestartJobs(v) \/ ReadConfigs(v) \/ ClaimsDone(v) \/ ClearQueue(v)
    BY <2>1 DEF RestartJobs, ReadConfigs, ClaimsDone, ClearQueue, Goto, TypeOK, Process
  <2>2. CASE StartWithoutQueue(v) \/ EndGeneration(v)
    BY <2>2 DEF StartWithoutQueue, EndGeneration, Goto, TypeOK, Process
  <2>3. ASSUME NEW c \in Configs, ClaimJob(v, c) PROVE Still
    <3>1. UNCHANGED verdict
      BY <2>3 DEF ClaimJob
    <3>2. CASE UNCHANGED <<pc, cur>>
      BY <3>1, <3>2
    <3>3. ASSUME NEW j \in Jobs, Claim(v, j) PROVE Still
      BY <3>1, <3>3 DEF Claim, Goto, Process, TypeOK
    <3> QED
      BY <2>3, <3>2, <3>3 DEF ClaimJob, JobsIn
  <2>4. ASSUME NEW j \in Jobs, CountCreated(v, j) PROVE Still
    BY <1>6, <2>4 DEF CountCreated, Goto, TypeOK, Process
  <2>5. CASE CountPending(v) \/ CountError(v)
    BY <1>6, <2>5 DEF CountPending, CountError, Goto, TypeOK, Process
  <2>6. CASE LockStarted(v) \/ CommitFinish(v) \/ ResetRows(v)
    BY <2>6 DEF LockStarted, CommitFinish, ResetRows, Goto, TypeOK, Process
  <2> QED
    BY <1>6, <2>1, <2>2, <2>3, <2>4, <2>5, <2>6 DEF Maintain
<1> QED
  BY <1>1, <1>2, <1>3, <1>4, <1>5, <1>6 DEF Next

\* A worker lets go of an entry in the step that moves it out of pending.
LEMMA NextOrphan ==
  ASSUME OneWorker \/ Calm, TypeOK, QueueIsClean, NoOrphan, [Next]_vars
  PROVE  NoOrphan'
<1> USE DEF vars, tables, job, history, process, work, bounds
<1>1. CASE OneWorker
  BY <1>1 DEF NoOrphan, OneWorker
<1>2. CASE Calm /\ ~OneWorker
  <2>1. late = {} /\ \A r \in Rows : queue[r] = "pending" => \E w \in Workers : r \in Held(w)
    BY <1>2 DEF NoOrphan
  <2>2. CASE CreateJob \/ UNCHANGED vars
    BY <2>1, <2>2 DEF CreateJob, NoOrphan, Held
  <2>3. ASSUME NEW a \in Admins, Request(a) PROVE NoOrphan'
    BY <2>1, <2>3 DEF Request, AdminCheck, RetryApply, CancelApply, SetRows, Requeued, RowsIn,
                      NoOrphan, Held
  <2>4. ASSUME NEW c \in Clis, CliCreate(c) \/ CliActivate(c) PROVE NoOrphan'
    BY <2>1, <2>4 DEF CliCreate, CliActivate, NoOrphan, Held
  <2>5. ASSUME NEW p \in Process, PutRows(p) PROVE NoOrphan'
    BY <2>1, <2>5 DEF PutRows, SetRows, NoOrphan, Held
  <2>6. ASSUME NEW p \in Process, Crash(p) PROVE FALSE
    BY <1>2, <2>6 DEF Crash, Calm, TypeOK
  <2>7. ASSUME NEW w \in Workers, Maintain(w) PROVE NoOrphan'
    <3>1. CASE ResetRows(w) \/ ClearQueue(w)
      BY <2>1, <3>1 DEF ResetRows, ClearQueue, SetRows, TooLong, NoOrphan, Held
    <3>2. CASE \E c \in Configs : ClaimJob(w, c)
      BY <2>1, <3>2 DEF ClaimJob, Claim, NoOrphan, Held
    <3>3. CASE RestartJobs(w) \/ ReadConfigs(w) \/ ClaimsDone(w) \/ StartWithoutQueue(w)
               \/ EndGeneration(w)
      BY <2>1, <3>3 DEF RestartJobs, ReadConfigs, ClaimsDone, StartWithoutQueue, EndGeneration,
                        NoOrphan, Held
    <3>4. CASE LockStarted(w) \/ (\E j \in Jobs : CountCreated(w, j)) \/ CountPending(w)
               \/ CountError(w) \/ CommitFinish(w)
      BY <2>1, <3>4 DEF LockStarted, CountCreated, CountPending, CountError, CommitFinish,
                        NoOrphan, Held
    <3> QED
      BY <2>7, <3>1, <3>2, <3>3, <3>4 DEF Maintain
  <2>8. ASSUME NEW w \in Workers, List(w) PROVE NoOrphan'
    <3>1. CASE SelectConfigs(w) \/ \E c \in Configs : NothingToTake(w, c)
      BY <2>1, <3>1 DEF SelectConfigs, NothingToTake, NoOrphan, Held
    <3>2. ASSUME NEW c \in Configs, Take(w, c) PROVE NoOrphan'
      <4>1. PICK r \in Rows : /\ queue' = [queue EXCEPT ![r] = "pending"]
                              /\ busy' = [busy EXCEPT ![w] = @ \cup {r}]
                              /\ UNCHANGED <<late, saved>>
        BY <3>2 DEF Take, Available
      <4>2. \A v \in Workers : busy[v] \subseteq busy'[v]
        BY <4>1 DEF TypeOK
      <4>3. r \in busy'[w] /\ \A o \in Rows : o # r => queue'[o] = queue[o]
        BY <4>1 DEF TypeOK
      <4> QED
        BY <2>1, <4>1, <4>2, <4>3 DEF NoOrphan, Held
    <3> QED
      BY <2>8, <3>1, <3>2 DEF List
  <2>9. ASSUME NEW w \in Workers, NEW r \in Rows, Generate(w, r) PROVE NoOrphan'
    <3>1. CASE Save(w, r)
      <4>1. \A v \in Workers : Held(v) \subseteq Held(v)'
        BY <3>1 DEF Save, Held, TypeOK
      <4> QED
        BY <2>1, <3>1, <4>1 DEF Save, NoOrphan
    <3>2. CASE DeleteOne(w, r) \/ DeleteOneError(w, r) \/ DeleteOneAgain(w, r)
      <4>1. queue'[r] # "pending" /\ late' = {} /\ \A o \in Rows : o # r => queue'[o] = queue[o]
        BY <2>1, <3>2 DEF DeleteOne, DeleteOneError, DeleteOneAgain, Acknowledge, TypeOK
      <4>2. \A v \in Workers : Held(v) \ {r} \subseteq Held(v)'
        BY SMTT(40), <3>2 DEF DeleteOne, DeleteOneError, DeleteOneAgain, Held, TypeOK
      <4> QED
        BY <2>1, <4>1, <4>2 DEF NoOrphan
    <3> QED
      BY <1>2, <2>9, <3>1, <3>2 DEF Generate, Abandon, Calm
  <2>10. CASE Time
    BY <1>2, <2>1, <2>10 DEF Time, RowTimesOut, JobTimesOut, Calm, NoOrphan, Held
  <2> QED
    BY <2>2, <2>3, <2>4, <2>5, <2>6, <2>7, <2>8, <2>9, <2>10 DEF Next
<1> QED
  BY <1>1, <1>2

\* Entries are inserted for commands that fill a queue.
LEMMA NextStray ==
  ASSUME TypeOK, QueueIsClean, NoStrayEntry, RequestedIsOpen, [Next]_vars
  PROVE  NoStrayEntry'
<1>1. \A r \in Rows : KindOf[r.job] # "queue" => queue'[r] = "absent"
  BY StepMoves DEF Moved, NoStrayEntry, QueueIsClean
<1>2. \A p \in Process : pc'[p] = "put" => KindOf[cur'[p]] = "queue"
  <2>1. CASE Ordinary
    BY <2>1 DEF Ordinary, NoStrayEntry
  <2>2. CASE \E p \in Process : PutRows(p)
    BY <2>2 DEF PutRows, NoStrayEntry
  <2>3. CASE \E w \in Workers : ClearQueue(w)
    BY <2>3 DEF ClearQueue, Goto, TypeOK, NoStrayEntry
  <2>4. CASE \E c \in Clis : CliCreate(c)
    BY <2>4 DEF CliCreate, Goto, Process, TypeOK, NoStrayEntry
  <2> QED
    BY <2>1, <2>2, <2>3, <2>4, StepIsOrdinary
<1> QED
  BY <1>1, <1>2 DEF NoStrayEntry

\* The entries of a job that a worker settles only move forward.
LEMMA LockedMoves ==
  ASSUME OneWorker \/ Calm, TypeOK, RequestedIsOpen, LockedIsStarted, GeneratingIsPending,
         QueueIsClean, NoOrphan, [Next]_vars,
         NEW w \in Workers, pc[w] \in {"count", "count_pending", "count_error"},
         NEW j \in locked[w]
  PROVE  /\ NoneCreated(j) => NoneCreated(j)'
         /\ NoneToGenerate(j) => NoneToGenerate(j)'
         /\ NoEntry(j) => NoEntry(j)'
<1>1. j \in Jobs /\ status[j] = "started" /\ IsLocked(j)
  BY DEF LockedIsStarted, IsLocked, TypeOK
<1>2. \A p \in Process : pc[p] = "put" => cur[p] # j
  BY <1>1 DEF GeneratingIsPending, Generating
<1>3. ASSUME NEW v \in Workers, pc[v] = "reset" PROVE late = {}
  BY <1>3 DEF NoOrphan, OneWorker
<1>4. \A r \in Rows : r.job = j =>
        \/ queue'[r] \in {queue[r], "absent"}
        \/ queue[r] = "created" /\ queue'[r] = "pending"
        \/ queue[r] = "pending" /\ queue'[r] = "error"
  BY <1>1, <1>2, <1>3, StepMoves DEF Moved
<1> QED
  BY <1>4 DEF NoneCreated, NoneToGenerate, NoEntry

\* What was counted stays true until the commit.
LEMMA NextCounts ==
  ASSUME OneWorker \/ Calm, TypeOK, RequestedIsOpen, LockedIsStarted, GeneratingIsPending,
         QueueIsClean, NoOrphan, CountsHold, [Next]_vars
  PROVE  CountsHold'
<1> SUFFICES ASSUME NEW w \in Workers
             PROVE  /\ pc'[w] \in {"count_pending", "count_error"} => NoneCreated(cur[w])'
                    /\ pc'[w] = "count_error" => NoneToGenerate(cur[w])'
                    /\ \A d \in verdict'[w] :
                         NoneToGenerate(d[1])' /\ (d[2] = "done" => NoEntry(d[1])')
  BY DEF CountsHold
<1>1. \A d \in verdict[w] :
        d[1] \in locked[w] /\ pc[w] \in {"count", "count_pending", "count_error"}
  BY DEF LockedIsStarted
<1>2. ASSUME NEW d \in verdict[w]
      PROVE  NoneToGenerate(d[1])' /\ (d[2] = "done" => NoEntry(d[1])')
  BY <1>1, <1>2, LockedMoves DEF CountsHold
<1>3. ASSUME pc[w] \in {"count_pending", "count_error"}
      PROVE  /\ cur[w] \in locked[w] /\ NoneCreated(cur[w])
             /\ \A j : j = cur[w] => /\ NoneCreated(j)'
                                     /\ NoneToGenerate(j) => NoneToGenerate(j)'
  BY <1>3, LockedMoves DEF LockedIsStarted, CountsHold
<1>4. CASE /\ verdict'[w] \subseteq verdict[w]
           /\ \/ pc'[w] \notin {"count_pending", "count_error"}
              \/ pc'[w] = pc[w] /\ cur'[w] = cur[w]
  BY <1>2, <1>3, <1>4 DEF CountsHold, NoneCreated, NoneToGenerate
<1>5. ASSUME NEW j \in Jobs, CountCreated(w, j) PROVE CountsHold'
  BY <1>5 DEF CountCreated, CountsHold, NoneIn, RowsIn, NoneCreated, NoneToGenerate, NoEntry,
              Goto, Process, TypeOK, tables
<1>6. CASE CountPending(w)
  BY <1>2, <1>6 DEF CountPending, CountsHold, NoneIn, RowsIn, NoneCreated, NoneToGenerate, Goto,
                    Process, TypeOK, tables, settling
<1>7. CASE CountError(w)
  BY <1>7 DEF CountError, CountsHold, NoneIn, RowsIn, NoneCreated, NoneToGenerate, NoEntry, Goto,
              Process, TypeOK, tables, RowStatus
<1> QED
  BY <1>4, <1>5, <1>6, <1>7, StepCounts DEF CountsHold

\* A job is settled by a worker that counted its entries, or by its command, which has none;
\* a settled job is left alone until a retry, which starts it.
LEMMA NextSettled ==
  ASSUME OneWorker \/ Calm, "fail_generation" \notin Troubles, TypeOK, RequestedIsOpen,
         LockedIsStarted, GeneratingIsPending, QueueIsClean, NoOrphan, NoStrayEntry, CountsHold,
         SettledHolds, [Next]_vars
  PROVE  SettledHolds'
<1> SUFFICES ASSUME NEW j \in Jobs, status'[j] \in {"done", "error"}
             PROVE  NoneToGenerate(j)' /\ (status'[j] = "done" => NoEntry(j)')
  BY DEF SettledHolds
<1>1. Written(j)
  BY StepWrites
<1>2. CASE status'[j] = status[j]
  <2>1. NoneToGenerate(j) /\ (status[j] = "done" => NoEntry(j))
    BY <1>2 DEF SettledHolds
  <2>2. \A p \in Process : pc[p] = "put" => cur[p] # j
    BY <1>2 DEF GeneratingIsPending, Generating
  <2>3. \A r \in Rows : r.job = j => /\ r \notin late
                                     /\ \/ queue'[r] \in {queue[r], "absent"}
                                        \/ queue[r] = "pending" /\ queue'[r] = "error"
    BY <1>2, <2>1, <2>2, StepMoves DEF Moved, NoneToGenerate, QueueIsClean
  <2> QED
    BY <1>2, <2>1, <2>3 DEF NoneToGenerate, NoEntry
<1>3. ASSUME NEW w \in Workers, <<j, status'[j]>> \in verdict[w]
      PROVE  NoneToGenerate(j)' /\ (status'[j] = "done" => NoEntry(j)')
  <2>1. j \in locked[w] /\ pc[w] \in {"count", "count_pending", "count_error"}
    BY <1>3 DEF LockedIsStarted
  <2>2. NoneToGenerate(j) /\ (status'[j] = "done" => NoEntry(j))
    BY <1>3 DEF CountsHold
  <2> QED
    BY <2>1, <2>2, LockedMoves
<1>4. CASE KindOf[j] # "queue"
  BY <1>4, NextStray DEF NoStrayEntry, NoneToGenerate, NoEntry
<1> QED
  BY <1>1, <1>2, <1>3, <1>4 DEF Written

\* SettleInv is inductive as it stands.
LEMMA SettleInductive ==
  ASSUME OneWorker \/ Calm, "slow_generation" \notin Troubles, "fail_generation" \notin Troubles
  PROVE  (Init => SettleInv) /\ (SettleInv /\ [Next]_vars => SettleInv')
<1>1. Init => SettleInv
  BY InitGenerator DEF Init, SettleInv, QueueIsClean, NoOrphan, NoStrayEntry, CountsHold,
     SettledHolds, Process, Rows
<1>2. SettleInv /\ [Next]_vars => SettleInv'
  BY NextGenerator, NextClean, NextOrphan, NextStray, NextCounts, NextSettled
  DEF SettleInv, GeneratorInv
<1> QED
  BY <1>1, <1>2

\* A done job and a job in error have no entry left to generate, in every behaviour in which
\* no generation of a queue fails or outlives max_pending_minutes, with one worker or with
\* several that neither crash nor are late.
THEOREM SettledJobsAreEmpty ==
  ASSUME OneWorker \/ Calm, "slow_generation" \notin Troubles, "fail_generation" \notin Troubles
  PROVE  Spec => []SettledIsEmpty
<1>1. Init => SettleInv
  BY SettleInductive
<1>2. SettleInv /\ [Next]_vars => SettleInv'
  BY SettleInductive
<1>3. SettleInv => SettledIsEmpty
  BY DEF SettleInv, SettledHolds, NoneToGenerate, SettledIsEmpty, JobsIn, RowsIn
<1> QED
  BY <1>1, <1>2, <1>3, PTL DEF Spec

\* The meta tiles of a done job are all in the cache, under the same conditions and those of
\* TilesAreKept: what is neither in the cache nor in the queue would be lost.
THEOREM DoneJobsAreGenerated ==
  ASSUME OneWorker \/ Calm, "slow_generation" \notin Troubles, "fail_generation" \notin Troubles,
         \A j \in Jobs : KindOf[j] # "queue" => TilesOf[j] = {},
         "cancel" \notin Requests \/ "retry" \notin Requests \/ MaxRequests \leq 1
  PROVE  Spec => []DoneMeansGenerated
<1>1. Init => SettleInv
  BY SettleInductive
<1>2. SettleInv /\ [Next]_vars => SettleInv'
  BY SettleInductive
<1>3. Spec => []NoTileLost
  BY TilesAreKept
<1>4. SettleInv /\ NoTileLost => DoneMeansGenerated
  <2> SUFFICES ASSUME SettleInv, NoTileLost, NEW j \in JobsIn("done"), NEW t \in TilesOf[j]
               PROVE  <<j, t>> \in stored
    BY DEF DoneMeansGenerated
  <2>1. NoEntry(j)
    BY DEF JobsIn, SettleInv, SettledHolds
  <2> QED
    BY <2>1 DEF NoTileLost, NoEntry, RowsOf
<1> QED
  BY <1>1, <1>2, <1>3, <1>4, PTL DEF Spec

-----------------------------------------------------------------------------
(***************************************************************************)
(* JobQueue implements JobBoard, for any number of jobs, meta tiles,       *)
(* workers and command lines: the board is what is left of the queue when  *)
(* its entries, claims, locks and timeouts are hidden.                     *)
(*                                                                         *)
(* The assumptions are those of SettledJobsAreEmpty, without cancel and    *)
(* with one administrator: a cancel or a second retry writes the status of *)
(* a job that another request or a worker has changed since it was read.   *)
(***************************************************************************)

OneAdmin == \A a, b \in Admins : a = b

\* The run that fills a queue inserted what it has not still to insert, and nothing else.
Filled ==
  \A p \in Process, j \in Jobs : pc[p] = "put" /\ cur[p] = j =>
    /\ toPut[p] \subseteq TilesOf[j]
    /\ \A t \in TilesOf[j] \ toPut[p] :
         \E r \in Rows : r.job = j /\ r.tile = t /\ queue[r] # "absent"
    /\ \A r \in Rows : r.job = j /\ queue[r] # "absent" => r.tile \in TilesOf[j]

\* A job somebody is about to retry is still in error.
RetriedIsError ==
  \A a \in Admins : /\ admin[a].op \in {"none", "retry"}
                    /\ admin[a].op = "retry" => status[admin[a].job] = "error"

\* A job found in error keeps a failed entry until the commit.
ErrorCounted ==
  \A w \in Workers : \A d \in verdict[w] : d[2] = "error" =>
    \E r \in Rows : r.job = d[1] /\ queue[r] = "error"

NoneCancelled == \A j \in Jobs : status[j] # "cancelled"

BoardInv ==
  SettleInv /\ OneRun /\ NoDuplicateEntry /\ RunsBegan /\ Filled /\ RetriedIsError
            /\ ErrorCounted /\ NoneCancelled

\* A batch inserts what leaves toPut; nobody else touches the entries of a queue that is
\* being filled.
LEMMA NextFilled ==
  ASSUME GeneratorInv, QueueIsClean, RetriedIsError, RunsBegan, Filled, [Next]_vars
  PROVE  Filled'
<1> USE DEF GeneratorInv
<1>1. ASSUME Ordinary PROVE Filled'
  <2> SUFFICES ASSUME NEW p \in Process, NEW j \in Jobs, pc'[p] = "put", cur'[p] = j
               PROVE  /\ toPut'[p] \subseteq TilesOf[j]
                      /\ \A t \in TilesOf[j] \ toPut'[p] :
                           \E r \in Rows : r.job = j /\ r.tile = t /\ queue'[r] # "absent"
                      /\ \A r \in Rows : r.job = j /\ queue'[r] # "absent" => r.tile \in TilesOf[j]
    BY DEF Filled
  <2>1. pc[p] = "put" /\ cur[p] = j /\ toPut'[p] = toPut[p]
    BY <1>1 DEF Ordinary
  <2>2. \A w \in Workers : pc[w] = "start" => cur[w] # j
    BY <2>1 DEF OneGenerator, Generating, Process
  <2>3. \A r \in Rows : r.job = j /\ queue[r] # "absent" => queue'[r] # "absent"
    BY <2>1, <2>2, StepMoves DEF Moved, QueueIsClean, RetriedIsError
  <2> QED
    BY <1>1, <2>1, <2>3 DEF Filled, Ordinary
<1>2. ASSUME NEW p \in Process, PutRows(p) PROVE Filled'
  <2>1. PICK S \in SUBSET toPut[p] :
          /\ queue' = [r \in Rows |-> IF r.job = cur[p] /\ r.run = run[p] /\ r.tile \in S
                                      THEN "created" ELSE queue[r]]
          /\ toPut' = [toPut EXCEPT ![p] = @ \ S]
    BY <1>2 DEF PutRows, SetRows
  <2>2. pc[p] = "put" /\ cur[p] \in Jobs /\ UNCHANGED <<pc, cur, run>>
    BY <1>2 DEF PutRows, TypeOK, Working, process
  <2>3. S \subseteq MetaTiles /\ toPut'[p] = toPut[p] \ S
    BY <2>1 DEF TypeOK
  <2>4. \A q \in Process : q # p /\ pc[q] = "put" => cur[q] # cur[p] /\ toPut'[q] = toPut[q]
    BY <2>1, <2>2 DEF OneGenerator, Generating, TypeOK
  <2>5. ASSUME NEW q \in Process, NEW j \in Jobs, pc[q] = "put", cur[q] = j
        PROVE  /\ toPut'[q] \subseteq TilesOf[j]
               /\ \A t \in TilesOf[j] \ toPut'[q] :
                    \E r \in Rows : r.job = j /\ r.tile = t /\ queue'[r] # "absent"
               /\ \A r \in Rows : r.job = j /\ queue'[r] # "absent" => r.tile \in TilesOf[j]
    <3>1. CASE q # p
      <4>1. \A r \in Rows : r.job = j => queue'[r] = queue[r]
        BY <2>1, <2>4, <2>5, <3>1
      <4> QED
        BY <2>4, <2>5, <3>1, <4>1 DEF Filled
    <3>2. CASE q = p
      <4>1. ASSUME NEW t \in S
            PROVE  \E r \in Rows : r.job = j /\ r.tile = t /\ queue'[r] # "absent"
        <5> DEFINE r == [job |-> j, run |-> run[p], tile |-> t]
        <5>1. r \in Rows /\ r.job = j /\ r.tile = t /\ r.run = run[p]
          BY <2>2, <2>3 DEF Rows, RunsBegan
        <5>2. queue'[r] = "created"
          BY <2>1, <2>5, <3>2, <5>1
        <5> QED
          BY <5>1, <5>2
      <4>2. \A r \in Rows : queue[r] # "absent" => queue'[r] # "absent"
        BY <2>1
      <4>3. \A r \in Rows : r.job = j /\ queue'[r] # "absent" => r.tile \in S \/ queue[r] # "absent"
        BY <2>1
      <4> QED
        BY <2>3, <2>5, <3>2, <4>1, <4>2, <4>3 DEF Filled
    <3> QED
      BY <3>1, <3>2
  <2> QED
    BY <2>2, <2>5 DEF Filled
<1>3. ASSUME NEW w \in Workers, ClearQueue(w) PROVE Filled'
  <2>1. /\ w \in Process /\ cur[w] \in Jobs
        /\ \A p \in Process : p # w /\ pc[p] = "put" => cur[p] # cur[w]
    BY <1>3 DEF ClearQueue, TypeOK, Working, Process, OneGenerator, Generating
  <2>2. /\ UNCHANGED cur /\ toPut'[w] = TilesOf[cur[w]]
        /\ \A p \in Process : p # w => pc'[p] = pc[p] /\ toPut'[p] = toPut[p]
    BY <1>3 DEF ClearQueue, Goto, TypeOK, Process
  <2>3. \A r \in Rows : IF r.job = cur[w] THEN queue'[r] = "absent" ELSE queue'[r] = queue[r]
    BY <1>3 DEF ClearQueue, SetRows, Leftover, RowsOf
  <2> QED
    BY <2>1, <2>2, <2>3 DEF Filled
<1>4. ASSUME NEW c \in Clis, CliCreate(c) PROVE Filled'
  <2>1. PICK k \in Jobs : /\ status[k] = "none" /\ cur' = [cur EXCEPT ![c] = k]
                          /\ toPut' = [toPut EXCEPT ![c] = TilesOf[k]]
    BY <1>4 DEF CliCreate, IsNextId, IsOldest, JobsIn
  <2>2. /\ c \in Process /\ cur'[c] = k /\ toPut'[c] = TilesOf[k] /\ queue' = queue
        /\ \A p \in Process : p # c => pc'[p] = pc[p] /\ toPut'[p] = toPut[p] /\ cur'[p] = cur[p]
    BY <1>4, <2>1 DEF CliCreate, Goto, TypeOK, Process
  <2>3. \A r \in Rows : r.job = k => queue[r] = "absent"
    BY <2>1 DEF QueueIsClean
  <2> QED
    BY <2>1, <2>2, <2>3 DEF Filled
<1> QED
  BY <1>1, <1>2, <1>3, <1>4, StepIsOrdinary

\* A job in error is left alone by all but its retry.
LEMMA NextRetried ==
  ASSUME "fail_generation" \notin Troubles, "cancel" \notin Requests, OneAdmin, GeneratorInv,
         RetriedIsError, NoneCancelled, [Next]_vars
  PROVE  RetriedIsError' /\ NoneCancelled'
<1> USE DEF GeneratorInv
<1>1. \A j \in Jobs : Written(j)
  BY StepWrites
<1>2. RequestedIsOpen'
  BY NextRequested
<1>3. ASSUME NEW j \in Jobs PROVE status'[j] # "cancelled"
  <2>1. Written(j) /\ status[j] # "cancelled" /\ \A a \in Admins : admin[a].op # "cancel"
    BY <1>1 DEF RetriedIsError, NoneCancelled
  <2> QED
    BY <2>1 DEF Written
<1>4. ASSUME NEW a \in Admins, admin'[a] = admin[a], admin[a].op = "retry"
      PROVE  status'[admin[a].job] = "error"
  <2> DEFINE j == admin[a].job
  <2>1. j \in Jobs /\ status[j] = "error"
    BY <1>4 DEF RetriedIsError, RequestedIsOpen
  <2>2. status'[j] \in {"started", "error", "done", "cancelled"}
    BY <1>2, <1>4 DEF RequestedIsOpen
  <2>3. \A p \in Process : pc[p] \in {"start", "put"} => cur[p] # j
    BY <2>1 DEF GeneratingIsPending, Generating
  <2>4. \A b \in Admins : admin'[b] # Idle
    BY <1>4 DEF OneAdmin, Idle
  <2>5. Written(j)
    BY <1>1, <2>1
  <2> QED
    BY <2>1, <2>2, <2>3, <2>4, <2>5 DEF Written, RetriedIsError, Process
<1>5. ASSUME NEW a \in Admins
      PROVE  /\ admin'[a].op \in {"none", "retry"}
             /\ admin'[a].op = "retry" => status'[admin'[a].job] = "error"
  <2>1. CASE UNCHANGED <<admin, requests>>
    BY <1>4, <2>1 DEF RetriedIsError
  <2>2. CASE RetryApply(a) \/ CancelApply(a)
    BY <2>2 DEF RetryApply, CancelApply, Idle, TypeOK
  <2>3. ASSUME NEW op \in {"cancel", "retry"}, NEW j \in Jobs, AdminCheck(a, op, j)
        PROVE  /\ admin'[a].op \in {"none", "retry"}
               /\ admin'[a].op = "retry" => status'[admin'[a].job] = "error"
    BY <2>3 DEF AdminCheck, TypeOK, tables, job
  <2> QED
    BY <2>1, <2>2, <2>3, StepRequests DEF Request, OneAdmin
<1> QED
  BY <1>3, <1>5 DEF RetriedIsError, NoneCancelled

\* A failed entry of a locked job stays where it is.
LEMMA NextErrorCounted ==
  ASSUME TypeOK, RequestedIsOpen, LockedIsStarted, GeneratingIsPending, QueueIsClean,
         RetriedIsError, ErrorCounted, [Next]_vars
  PROVE  ErrorCounted'
<1> SUFFICES ASSUME NEW w \in Workers, NEW d \in verdict'[w], d[2] = "error"
             PROVE  \E r \in Rows : r.job = d[1] /\ queue'[r] = "error"
  BY DEF ErrorCounted
<1>1. CASE d \in verdict[w]
  <2>1. PICK r \in Rows : r.job = d[1] /\ queue[r] = "error"
    BY <1>1 DEF ErrorCounted
  <2>2. d[1] \in Jobs /\ status[d[1]] = "started" /\ IsLocked(d[1])
    BY <1>1 DEF LockedIsStarted, IsLocked, TypeOK
  <2>3. \A p \in Process : pc[p] \in {"start", "put"} => cur[p] # d[1]
    BY <2>2 DEF GeneratingIsPending, Generating
  <2>4. r \notin late
    BY <2>1 DEF QueueIsClean
  <2>5. queue'[r] = "error"
    BY <2>1, <2>2, <2>3, <2>4, StepMoves DEF Moved, Process
  <2> QED
    BY <2>1, <2>5
<1>2. CASE d \notin verdict[w]
  <2>1. CountError(w)
    BY <1>2, StepCounts DEF CountCreated, CountPending, settling
  <2>2. d = <<cur[w], "error">> /\ ~NoneIn(cur[w], "error") /\ UNCHANGED queue
    BY <1>2, <2>1 DEF CountError, TypeOK, tables
  <2> QED
    BY <2>2 DEF NoneIn, RowsIn
<1> QED
  BY <1>1, <1>2
-----------------------------------------------------------------------------
(* The mapping, job by job.                                                *)

Waiting(j) == status[j] \in {"created", "pending"}
IsOpen(r) == queue[r] \in {"created", "pending"}

\* The board as the tables show it.
Shown ==
  /\ phaseBar = [j \in Jobs |-> phaseBar[j]]
  /\ openBar = [j \in Jobs |-> openBar[j]]
  /\ failedBar = [j \in Jobs |-> failedBar[j]]
  /\ \A j \in Jobs :
       /\ phaseBar[j] = IF Waiting(j) THEN "waiting"
                        ELSE IF status[j] = "started" THEN "running" ELSE status[j]
       /\ Waiting(j) => openBar[j] = {} /\ failedBar[j] = {}
       /\ ~Waiting(j) =>
            /\ openBar[j] = {r.tile : r \in {o \in Rows : o.job = j /\ IsOpen(o)}}
            /\ failedBar[j] = {r.tile : r \in {o \in Rows : o.job = j /\ queue[o] = "error"}}

LEMMA ShownNow == TypeOK => Shown
<1> SUFFICES ASSUME TypeOK PROVE Shown
  OBVIOUS
<1>1. /\ phaseBar = [j \in Jobs |-> phaseBar[j]]
      /\ openBar = [j \in Jobs |-> openBar[j]]
      /\ failedBar = [j \in Jobs |-> failedBar[j]]
  BY Zenon DEF phaseBar, openBar, failedBar
<1>2. ASSUME NEW j \in Jobs
      PROVE  phaseBar[j] = IF Waiting(j) THEN "waiting"
                           ELSE IF status[j] = "started" THEN "running" ELSE status[j]
  BY DEF phaseBar, Waiting
<1>3. ASSUME NEW j \in Jobs, Waiting(j) PROVE openBar[j] = {} /\ failedBar[j] = {}
  BY <1>2, <1>3 DEF openBar, failedBar
<1>4. ASSUME NEW j \in Jobs, ~Waiting(j)
      PROVE  /\ openBar[j] = {r.tile : r \in {o \in Rows : o.job = j /\ IsOpen(o)}}
             /\ failedBar[j] = {r.tile : r \in {o \in Rows : o.job = j /\ queue[o] = "error"}}
  <2>1. status[j] \in {"none", "started", "error", "done", "cancelled"}
    BY <1>4 DEF Waiting, TypeOK, JobStatus
  <2>2. phaseBar[j] # "waiting"
    BY <1>2, <1>4, <2>1
  <2> QED
    BY <2>2 DEF openBar, failedBar, TilesIn, RowsIn, IsOpen
<1> QED
  BY <1>1, <1>2, <1>3, <1>4 DEF Shown

\* A job that looks the same before and after a step.
Same(j) == UNCHANGED <<phaseBar[j], openBar[j], failedBar[j]>>

\* An entry that is taken or reset stays open.
LEMMA UntouchedIsSame ==
  ASSUME Shown, Shown', NEW j \in Jobs, status'[j] = status[j],
         \A r \in Rows : r.job = j =>
           queue'[r] = queue[r] \/ {queue[r], queue'[r]} \subseteq {"created", "pending"}
  PROVE  Same(j)
<1>1. Waiting(j)' = Waiting(j) /\ phaseBar'[j] = phaseBar[j]
  BY DEF Shown, Waiting
<1>2. /\ {o \in Rows : o.job = j /\ IsOpen(o)}' = {o \in Rows : o.job = j /\ IsOpen(o)}
      /\ {o \in Rows : o.job = j /\ queue'[o] = "error"}
         = {o \in Rows : o.job = j /\ queue[o] = "error"}
  BY DEF IsOpen
<1> QED
  <2>1. CASE Waiting(j)
    BY <1>1, <2>1 DEF Shown, Same
  <2>2. CASE ~Waiting(j)
    <3>1. /\ openBar[j] = {r.tile : r \in {o \in Rows : o.job = j /\ IsOpen(o)}}
          /\ failedBar[j] = {r.tile : r \in {o \in Rows : o.job = j /\ queue[o] = "error"}}
      BY <2>2 DEF Shown
    <3>2. /\ openBar'[j] = {r.tile : r \in {o \in Rows : o.job = j /\ IsOpen(o)}'}
          /\ failedBar'[j] = {r.tile : r \in {o \in Rows : o.job = j /\ queue'[o] = "error"}}
      BY <1>1, <2>2 DEF Shown
    <3> QED
      BY <1>1, <1>2, <3>1, <3>2 DEF Same
  <2> QED
    BY <2>1, <2>2

\* The entries of a waiting job are not shown yet.
LEMMA WaitingIsSame ==
  ASSUME Shown, Shown', NEW j \in Jobs, Waiting(j), Waiting(j)'
  PROVE  Same(j)
BY DEF Shown, Same

LEMMA AllSame ==
  ASSUME Shown, Shown', \A j \in Jobs : Same(j)
  PROVE  UNCHANGED Board!board
<1>1. \A j \in Jobs : phaseBar'[j] = phaseBar[j] /\ openBar'[j] = openBar[j]
                      /\ failedBar'[j] = failedBar[j]
  BY DEF Same
<1>2. phaseBar' = phaseBar
  BY <1>1 DEF Shown
<1>3. openBar' = openBar
  BY <1>1 DEF Shown
<1>4. failedBar' = failedBar
  BY <1>1 DEF Shown
<1> QED
  BY <1>2, <1>3, <1>4 DEF Board!board

\* A function that differs from another one at one place only.
LEMMA OneChanged ==
  ASSUME NEW S, NEW f, NEW g, f = [x \in S |-> f[x]], g = [x \in S |-> g[x]], NEW k \in S,
         \A x \in S : x # k => g[x] = f[x]
  PROVE  g = [f EXCEPT ![k] = g[k]] /\ (g[k] = f[k] => g = f)
OBVIOUS

LEMMA OneJob ==
  ASSUME Shown, Shown', NEW k \in Jobs, \A j \in Jobs : j # k => Same(j)
  PROVE  /\ phaseBar' = [phaseBar EXCEPT ![k] = phaseBar'[k]]
         /\ openBar' = [openBar EXCEPT ![k] = openBar'[k]]
         /\ failedBar' = [failedBar EXCEPT ![k] = failedBar'[k]]
         /\ phaseBar'[k] = phaseBar[k] => phaseBar' = phaseBar
         /\ openBar'[k] = openBar[k] => openBar' = openBar
         /\ failedBar'[k] = failedBar[k] => failedBar' = failedBar
<1>1. \A j \in Jobs : j # k => phaseBar'[j] = phaseBar[j] /\ openBar'[j] = openBar[j]
                               /\ failedBar'[j] = failedBar[j]
  BY DEF Same
<1>2. phaseBar = [j \in Jobs |-> phaseBar[j]] /\ phaseBar' = [j \in Jobs |-> phaseBar'[j]]
  BY DEF Shown
<1>3. openBar = [j \in Jobs |-> openBar[j]] /\ openBar' = [j \in Jobs |-> openBar'[j]]
  BY DEF Shown
<1>4. failedBar = [j \in Jobs |-> failedBar[j]] /\ failedBar' = [j \in Jobs |-> failedBar'[j]]
  BY DEF Shown
<1>5. phaseBar' = [phaseBar EXCEPT ![k] = phaseBar'[k]]
      /\ (phaseBar'[k] = phaseBar[k] => phaseBar' = phaseBar)
  BY <1>1, <1>2, OneChanged
<1>6. openBar' = [openBar EXCEPT ![k] = openBar'[k]]
      /\ (openBar'[k] = openBar[k] => openBar' = openBar)
  BY <1>1, <1>3, OneChanged
<1>7. failedBar' = [failedBar EXCEPT ![k] = failedBar'[k]]
      /\ (failedBar'[k] = failedBar[k] => failedBar' = failedBar)
  BY <1>1, <1>4, OneChanged
<1> QED
  BY <1>5, <1>6, <1>7

-----------------------------------------------------------------------------
(* The steps of the queue are steps of the board, or none.                 *)

\* A created job waits.
LEMMA SubmitIsStep ==
  ASSUME Shown, Shown', QueueIsClean, NEW k \in Jobs, status[k] = "none", Waiting(k)',
         UNCHANGED queue, \A j \in Jobs : j # k => status'[j] = status[j]
  PROVE  Board!Submit(k)
<1>1. \A j \in Jobs : j # k => Same(j)
  BY UntouchedIsSame
<1>2. phaseBar[k] = "none" /\ phaseBar'[k] = "waiting" /\ openBar'[k] = {} /\ failedBar'[k] = {}
  BY DEF Shown, Waiting
<1>3. \A r \in Rows : r.job = k => queue[r] = "absent"
  BY DEF QueueIsClean
<1>4. openBar[k] = {} /\ failedBar[k] = {}
  BY <1>3 DEF Shown, Waiting, IsOpen
<1> QED
  BY <1>1, <1>2, <1>4, OneJob DEF Board!Submit

\* A job whose queue is complete starts, with all its meta tiles.
LEMMA PublishIsStep ==
  ASSUME Shown, Shown', TypeOK, QueueIsClean, Filled, NEW p \in Process, NEW k \in Jobs,
         pc[p] = "put", cur[p] = k, toPut[p] = {}, status[k] = "pending",
         status' = [status EXCEPT ![k] = "started"], UNCHANGED queue
  PROVE  Board!Publish(k)
<1>1. status'[k] = "started" /\ \A j \in Jobs : j # k => status'[j] = status[j]
  BY DEF TypeOK
<1>2. \A j \in Jobs : j # k => Same(j)
  BY <1>1, UntouchedIsSame
<1>3. phaseBar[k] = "waiting" /\ phaseBar'[k] = "running" /\ failedBar[k] = {}
  BY <1>1 DEF Shown, Waiting
<1>4. \A r \in Rows : r.job = k => queue[r] \in {"absent", "created"}
  BY DEF QueueIsClean
<1>5. openBar'[k] = TilesOf[k] /\ failedBar'[k] = {}
  <2>1. /\ openBar'[k] = {r.tile : r \in {o \in Rows : o.job = k /\ IsOpen(o)'}}
        /\ failedBar'[k] = {r.tile : r \in {o \in Rows : o.job = k /\ queue'[o] = "error"}}
    BY <1>1 DEF Shown, Waiting
  <2>2. \A r \in Rows : r.job = k => (IsOpen(r)' <=> queue[r] # "absent") /\ queue'[r] # "error"
    BY <1>4 DEF IsOpen
  <2>3. \A t : t \in TilesOf[k] <=> \E r \in Rows : r.job = k /\ r.tile = t /\ queue[r] # "absent"
    BY DEF Filled
  <2> QED
    BY <2>1, <2>2, <2>3
<1> QED
  BY <1>2, <1>3, <1>5, OneJob DEF Board!Publish

\* A command without a queue ends at once, without a meta tile.
LEMMA RunIsStep ==
  ASSUME Shown, Shown', NoStrayEntry, NEW k \in Jobs, status[k] = "pending",
         KindOf[k] # "queue", status'[k] \in {"done", "error"}, UNCHANGED queue,
         \A j \in Jobs : j # k => status'[j] = status[j]
  PROVE  Board!RunDirectly(k)
<1>1. \A j \in Jobs : j # k => Same(j)
  BY UntouchedIsSame
<1>2. /\ phaseBar[k] = "waiting" /\ phaseBar'[k] \in {"done", "error"}
      /\ openBar[k] = {} /\ failedBar[k] = {}
  BY DEF Shown, Waiting
<1>3. \A r \in Rows : r.job = k => queue'[r] = "absent"
  BY DEF NoStrayEntry
<1>4. openBar'[k] = {} /\ failedBar'[k] = {}
  BY <1>3 DEF Shown, Waiting, IsOpen
<1> QED
  BY <1>1, <1>2, <1>4, OneJob DEF Board!RunDirectly

\* A retry opens what failed.
LEMMA RetryIsStep ==
  ASSUME Shown, Shown', TypeOK, SettledHolds, NEW k \in Jobs, status[k] = "error",
         status' = [status EXCEPT ![k] = "started"], SetRows(Requeued(k), "created")
  PROVE  Board!Retry(k)
<1>1. status'[k] = "started" /\ \A j \in Jobs : j # k => status'[j] = status[j]
  BY DEF TypeOK
<1>2. /\ \A r \in Rows : r.job # k => queue'[r] = queue[r]
      /\ \A r \in Rows : r.job = k => queue'[r] = IF queue[r] = "error" THEN "created" ELSE queue[r]
  BY DEF SetRows, Requeued, RowsIn
<1>3. \A j \in Jobs : j # k => Same(j)
  BY <1>1, <1>2, UntouchedIsSame
<1>4. phaseBar[k] = "error" /\ phaseBar'[k] = "running"
  BY <1>1 DEF Shown, Waiting
<1>5. \A r \in Rows : r.job = k => ~IsOpen(r)
  BY DEF SettledHolds, NoneToGenerate, IsOpen
<1>6. openBar'[k] = failedBar[k] /\ failedBar'[k] = {}
  <2>1. /\ openBar'[k] = {r.tile : r \in {o \in Rows : o.job = k /\ IsOpen(o)'}}
        /\ failedBar'[k] = {r.tile : r \in {o \in Rows : o.job = k /\ queue'[o] = "error"}}
        /\ failedBar[k] = {r.tile : r \in {o \in Rows : o.job = k /\ queue[o] = "error"}}
    BY <1>1 DEF Shown, Waiting
  <2>2. \A r \in Rows : r.job = k => (IsOpen(r)' <=> queue[r] = "error") /\ queue'[r] # "error"
    BY <1>2, <1>5 DEF IsOpen
  <2> QED
    BY <2>1, <2>2
<1> QED
  BY <1>3, <1>4, <1>6, OneJob DEF Board!Retry

\* An acknowledgement of a pending entry completes its meta tile, or fails it.
LEMMA AcknowledgeIsStep ==
  ASSUME Shown, Shown', TypeOK, QueueIsClean, SettledHolds, NoDuplicateEntry, NoneCancelled,
         NEW r \in Rows, NEW s \in {"absent", "error"}, Acknowledge(r, s), UNCHANGED status
  PROVE  Board!Complete(r.job, r.tile) \/ Board!Fail(r.job, r.tile) \/ UNCHANGED Board!board
<1> DEFINE k == r.job
           t == r.tile
<1>1. k \in Jobs /\ \A o \in Rows : o # r => queue'[o] = queue[o]
  BY DEF Acknowledge, TypeOK, Rows
<1>2. CASE queue[r] # "pending"
  <2>1. \A o \in Rows : queue'[o] = queue[o]
    BY <1>1, <1>2 DEF Acknowledge, TypeOK
  <2> QED
    BY <2>1, UntouchedIsSame, AllSame
<1>3. CASE Waiting(k)
  <2>1. \A j \in Jobs : Same(j)
    <3>1. Same(k)
      BY <1>1, <1>3, WaitingIsSame DEF Waiting
    <3>2. ASSUME NEW j \in Jobs, j # k PROVE Same(j)
      BY <1>1, <3>2, UntouchedIsSame
    <3> QED
      BY <3>1, <3>2
  <2> QED
    BY <2>1, AllSame
<1>4. CASE queue[r] = "pending" /\ ~Waiting(k)
  <2>1. status[k] = "started"
    <3>1. ~NoneToGenerate(k) /\ status[k] # "none"
      BY <1>4 DEF NoneToGenerate, QueueIsClean
    <3>2. status[k] \notin {"none", "done", "error", "cancelled", "created", "pending"}
      BY <1>1, <1>4, <3>1 DEF SettledHolds, NoneCancelled, Waiting
    <3>3. status[k] \in JobStatus \cup {"none"}
      BY <1>1 DEF TypeOK
    <3> QED
      BY <3>2, <3>3 DEF JobStatus
  <2>2. \A j \in Jobs : j # k => Same(j)
    BY <1>1, UntouchedIsSame
  <2>3. queue'[r] = s
    BY <1>4 DEF Acknowledge, TypeOK
  <2>4. \A o \in Rows : o.job = k /\ o.tile = t /\ queue[o] # "absent" => o = r
    BY <1>4 DEF NoDuplicateEntry
  <2>5. /\ phaseBar[k] = "running" /\ phaseBar'[k] = "running"
        /\ openBar[k] = {o.tile : o \in {o \in Rows : o.job = k /\ IsOpen(o)}}
        /\ openBar'[k] = {o.tile : o \in {o \in Rows : o.job = k /\ IsOpen(o)'}}
        /\ failedBar[k] = {o.tile : o \in {o \in Rows : o.job = k /\ queue[o] = "error"}}
        /\ failedBar'[k] = {o.tile : o \in {o \in Rows : o.job = k /\ queue'[o] = "error"}}
    BY <1>1, <2>1 DEF Shown, Waiting
  <2>6. t \in openBar[k] /\ openBar'[k] = openBar[k] \ {t}
    <3>1. IsOpen(r) /\ ~IsOpen(r)' /\ \A o \in Rows : o # r => (IsOpen(o)' <=> IsOpen(o))
      BY <1>1, <1>4, <2>3 DEF IsOpen
    <3>2. \A o \in Rows : o.job = k /\ IsOpen(o) /\ o.tile = t => o = r
      BY <2>4 DEF IsOpen
    <3> QED
      BY <2>5, <3>1, <3>2
  <2>7. CASE s = "absent"
    <3>1. {o \in Rows : o.job = k /\ queue'[o] = "error"}
            = {o \in Rows : o.job = k /\ queue[o] = "error"}
      BY <1>1, <1>4, <2>3, <2>7
    <3>2. failedBar'[k] = failedBar[k]
      BY <2>5, <3>1
    <3>3. Board!Complete(k, t)
      BY <1>1, <2>2, <2>5, <2>6, <3>2, OneJob DEF Board!Complete
    <3> QED
      BY <3>3
  <2>8. CASE s = "error"
    <3>1. {o \in Rows : o.job = k /\ queue'[o] = "error"}
          = {o \in Rows : o.job = k /\ queue[o] = "error"} \cup {r}
      BY <1>1, <1>4, <2>3, <2>8
    <3>2. failedBar'[k] = failedBar[k] \cup {t}
      BY <2>5, <3>1
    <3>3. Board!Fail(k, t)
      BY <1>1, <2>2, <2>5, <2>6, <3>2, OneJob DEF Board!Fail
    <3> QED
      BY <3>3
  <2> QED
    BY <2>7, <2>8
<1> QED
  BY <1>2, <1>3, <1>4

\* A commit settles the jobs that have a verdict.
LEMMA CommitIsStep ==
  ASSUME Shown, Shown', TypeOK, LockedIsStarted, CountsHold, ErrorCounted,
         NEW w \in Workers, CommitFinish(w)
  PROVE  (\E S \in SUBSET Jobs : Board!Settle(S)) \/ UNCHANGED Board!board
<1> DEFINE S == {d[1] : d \in verdict[w]}
<1>1. /\ UNCHANGED queue
      /\ \A j \in Jobs : status'[j] = IF <<j, "error">> \in verdict[w] THEN "error"
                                      ELSE IF <<j, "done">> \in verdict[w] THEN "done"
                                      ELSE status[j]
  BY DEF CommitFinish
<1>2. \A d \in verdict[w] : \E j \in Jobs : d = <<j, "done">> \/ d = <<j, "error">>
  BY DEF TypeOK
<1>3. /\ S \in SUBSET Jobs
      /\ \A j \in S : <<j, "done">> \in verdict[w] \/ <<j, "error">> \in verdict[w]
  BY <1>2
<1>4. ASSUME NEW j \in Jobs, j \notin S PROVE Same(j)
  <2>1. <<j, "done">> \notin verdict[w] /\ <<j, "error">> \notin verdict[w]
    BY <1>4
  <2> QED
    BY <1>1, <2>1, UntouchedIsSame
<1>5. ASSUME NEW j \in S
      PROVE  /\ phaseBar[j] = "running" /\ openBar[j] = {}
             /\ phaseBar'[j] = IF failedBar[j] = {} THEN "done" ELSE "error"
             /\ openBar'[j] = openBar[j] /\ failedBar'[j] = failedBar[j]
  <2>1. j \in Jobs /\ status[j] = "started" /\ NoneToGenerate(j)
    BY <1>3 DEF LockedIsStarted, CountsHold
  <2>2. /\ openBar[j] = {o.tile : o \in {o \in Rows : o.job = j /\ IsOpen(o)}}
        /\ failedBar[j] = {o.tile : o \in {o \in Rows : o.job = j /\ queue[o] = "error"}}
    BY <2>1 DEF Shown, Waiting
  <2>3. status'[j] \in {"done", "error"}
    BY <1>1, <1>3, <2>1
  <2>4. /\ openBar'[j] = {o.tile : o \in {o \in Rows : o.job = j /\ IsOpen(o)'}}
        /\ failedBar'[j] = {o.tile : o \in {o \in Rows : o.job = j /\ queue'[o] = "error"}}
    BY <2>1, <2>3 DEF Shown, Waiting
  <2>5. openBar[j] = {}
    BY <2>1, <2>2 DEF NoneToGenerate, IsOpen
  <2>6. openBar'[j] = openBar[j] /\ failedBar'[j] = failedBar[j]
    BY <1>1, <2>2, <2>4 DEF IsOpen
  <2>7. CASE <<j, "error">> \in verdict[w]
    <3>1. failedBar[j] # {}
      BY <2>2, <2>7 DEF ErrorCounted
    <3> QED
      BY <1>1, <2>1, <2>5, <2>6, <2>7, <3>1 DEF Shown, Waiting
  <2>8. CASE <<j, "error">> \notin verdict[w]
    <3>1. <<j, "done">> \in verdict[w]
      BY <1>3, <2>8
    <3>2. NoEntry(j)
      BY <3>1 DEF CountsHold
    <3>3. failedBar[j] = {}
      BY <2>2, <3>2 DEF NoEntry
    <3> QED
      BY <1>1, <2>1, <2>5, <2>6, <2>8, <3>1, <3>3 DEF Shown, Waiting
  <2> QED
    BY <2>7, <2>8
<1>6. CASE S = {}
  BY <1>4, <1>6, AllSame
<1>7. CASE S # {}
  <2>1. phaseBar' = [j \in Jobs |-> IF j \notin S THEN phaseBar[j]
                                    ELSE IF failedBar[j] = {} THEN "done" ELSE "error"]
    <3> DEFINE g == [j \in Jobs |-> IF j \notin S THEN phaseBar[j]
                                    ELSE IF failedBar[j] = {} THEN "done" ELSE "error"]
    <3>1. phaseBar' = [j \in Jobs |-> phaseBar'[j]]
      BY DEF Shown
    <3>2. \A j \in Jobs : j \notin S => phaseBar'[j] = phaseBar[j]
      BY <1>4 DEF Same
    <3>3. \A j \in Jobs : phaseBar'[j] = g[j]
      BY <1>5, <3>2
    <3> QED
      BY <3>1, <3>3
  <2>2. \A j \in Jobs : openBar'[j] = openBar[j] /\ failedBar'[j] = failedBar[j]
    BY <1>4, <1>5 DEF Same
  <2>3. openBar' = openBar
    BY <2>2 DEF Shown
  <2>4. failedBar' = failedBar
    BY <2>2 DEF Shown
  <2>5. Board!Settle(S)
    BY <1>3, <1>5, <1>7, <2>1, <2>3, <2>4 DEF Board!Settle
  <2> QED
    BY <1>3, <2>5
<1> QED
  BY <1>6, <1>7

\* A step that writes neither the status of a job nor an entry is not seen on the board.
LEMMA HiddenIsStep ==
  ASSUME Shown, Shown', UNCHANGED <<status, queue>>
  PROVE  UNCHANGED Board!board
BY UntouchedIsSame, AllSame

BoardSteps == [Board!BoardNext]_(Board!board)

\* Every step of a worker in _maintenance.
LEMMA MaintainIsStep ==
  ASSUME "fail_generation" \notin Troubles, BoardInv, Shown, Shown', NEW w \in Workers,
         Maintain(w)
  PROVE  BoardSteps
<1> USE DEF BoardInv, SettleInv, GeneratorInv, BoardSteps, tables, job
<1>1. CASE RestartJobs(w)
  <2>1. \A j \in Jobs : status'[j] = IF TooLongPending(j) THEN "created" ELSE status[j]
    BY <1>1 DEF RestartJobs
  <2>2. UNCHANGED queue
    BY <1>1 DEF RestartJobs
  <2>3. ASSUME NEW j \in Jobs PROVE Same(j)
    <3>1. CASE TooLongPending(j)
      BY <2>1, <3>1, WaitingIsSame DEF TooLongPending, Waiting
    <3>2. CASE ~TooLongPending(j)
      BY <2>1, <2>2, <3>2, UntouchedIsSame
    <3> QED
      BY <3>1, <3>2
  <2> QED
    BY <2>3, AllSame
<1>2. ASSUME NEW c \in Configs, ClaimJob(w, c) PROVE BoardSteps
  <2>1. CASE UNCHANGED <<tables, runs, pc, cur, run>>
    BY <2>1, HiddenIsStep
  <2>2. ASSUME NEW k \in Jobs, Claim(w, k) PROVE BoardSteps
    <3>1. /\ Waiting(k) /\ Waiting(k)' /\ UNCHANGED queue
          /\ \A j \in Jobs : j # k => status'[j] = status[j]
      BY <2>2 DEF Claim, Waiting, TypeOK
    <3>2. \A j \in Jobs : Same(j)
      <4>1. Same(k)
        BY <3>1, WaitingIsSame
      <4>2. ASSUME NEW j \in Jobs, j # k PROVE Same(j)
        BY <3>1, <4>2, UntouchedIsSame
      <4> QED
        BY <4>1, <4>2
    <3> QED
      BY <3>2, AllSame
  <2> QED
    BY <1>2, <2>1, <2>2 DEF ClaimJob, JobsIn
<1>3. CASE StartWithoutQueue(w)
  <2> DEFINE k == cur[w]
  <2>1. k \in Jobs /\ status[k] = "pending" /\ KindOf[k] # "queue"
    BY <1>3 DEF StartWithoutQueue, GeneratingIsPending, Generating, TypeOK, Working, Process
  <2>2. /\ status'[k] \in {"done", "error"} /\ UNCHANGED queue
        /\ \A j \in Jobs : j # k => status'[j] = status[j]
    BY <1>3, <2>1 DEF StartWithoutQueue, TypeOK
  <2>3. Board!RunDirectly(k)
    BY <2>1, <2>2, RunIsStep
  <2> QED
    BY <2>1, <2>3 DEF Board!BoardNext
<1>4. CASE ClearQueue(w)
  <2>1. /\ cur[w] \in Jobs /\ status[cur[w]] = "pending" /\ UNCHANGED status
        /\ \A r \in Rows : r.job # cur[w] => queue'[r] = queue[r]
    BY <1>4 DEF ClearQueue, SetRows, Leftover, RowsOf, GeneratingIsPending, Generating, TypeOK,
                Working, Process
  <2>2. ASSUME NEW j \in Jobs PROVE Same(j)
    <3>1. CASE j = cur[w]
      BY <2>1, <3>1, WaitingIsSame DEF Waiting
    <3>2. CASE j # cur[w]
      BY <2>1, <3>2, UntouchedIsSame
    <3> QED
      BY <3>1, <3>2
  <2> QED
    BY <2>2, AllSame
<1>5. CASE EndGeneration(w)
  <2> DEFINE k == cur[w]
  <2>1. /\ w \in Process /\ k \in Jobs /\ status[k] = "pending" /\ pc[w] = "put"
        /\ toPut[w] = {} /\ status' = [status EXCEPT ![k] = "started"] /\ UNCHANGED queue
    BY <1>5 DEF EndGeneration, Flushed, GeneratingIsPending, Generating, TypeOK, Working, Process
  <2>2. Board!Publish(k)
    BY <2>1, PublishIsStep
  <2> QED
    BY <2>1, <2>2 DEF Board!BoardNext
<1>6. CASE CommitFinish(w)
  BY <1>6, CommitIsStep DEF Board!BoardNext
<1>7. CASE ResetRows(w)
  <2>1. UNCHANGED status /\ \A r \in Rows : queue'[r] = IF r \in late THEN "created" ELSE queue[r]
    BY <1>7 DEF ResetRows, SetRows, TooLong
  <2>2. \A j \in Jobs : Same(j)
    BY <2>1, UntouchedIsSame DEF QueueIsClean
  <2> QED
    BY <2>2, AllSame
<1>8. CASE ReadConfigs(w) \/ ClaimsDone(w) \/ LockStarted(w) \/ (\E j \in Jobs : CountCreated(w, j))
           \/ CountPending(w) \/ CountError(w)
  <2>1. UNCHANGED <<status, queue>>
    BY <1>8 DEF ReadConfigs, ClaimsDone, LockStarted, CountCreated, CountPending, CountError
  <2> QED
    BY <2>1, HiddenIsStep
<1> QED
  BY <1>1, <1>2, <1>3, <1>4, <1>5, <1>6, <1>7, <1>8 DEF Maintain

\* Every step, by whoever takes it.
LEMMA NextIsStep ==
  ASSUME "fail_generation" \notin Troubles, BoardInv, Shown, Shown', [Next]_vars
  PROVE  BoardSteps
<1> USE DEF BoardInv, SettleInv, GeneratorInv, BoardSteps, tables, job
<1>1. CASE CreateJob
  <2>1. PICK k \in Jobs : status[k] = "none" /\ status' = [status EXCEPT ![k] = "created"]
    BY <1>1 DEF CreateJob, IsNextId, IsOldest, JobsIn
  <2>2. /\ Waiting(k)' /\ UNCHANGED queue /\ \A j \in Jobs : j # k => status'[j] = status[j]
    BY <1>1, <2>1 DEF CreateJob, Waiting, TypeOK
  <2>3. Board!Submit(k)
    BY <2>1, <2>2, SubmitIsStep
  <2> QED
    BY <2>3 DEF Board!BoardNext
<1>2. ASSUME NEW a \in Admins, Request(a) PROVE BoardSteps
  <2>1. CASE RetryApply(a)
    <3> DEFINE k == admin[a].job
    <3>1. /\ k \in Jobs /\ status[k] = "error" /\ SetRows(Requeued(k), "created")
          /\ status' = [status EXCEPT ![k] = "started"]
      BY <2>1 DEF RetryApply, RetriedIsError, RequestedIsOpen
    <3>2. Board!Retry(k)
      BY <3>1, RetryIsStep
    <3> QED
      BY <3>1, <3>2 DEF Board!BoardNext
  <2>2. ~CancelApply(a)
    BY DEF CancelApply, RetriedIsError
  <2>3. CASE \E op \in {"cancel", "retry"}, j \in Jobs : AdminCheck(a, op, j)
    <3>1. UNCHANGED <<status, queue>>
      BY <2>3 DEF AdminCheck
    <3> QED
      BY <3>1, HiddenIsStep
  <2> QED
    BY <1>2, <2>1, <2>2, <2>3 DEF Request
<1>3. ASSUME NEW c \in Clis, CliCreate(c) PROVE BoardSteps
  <2>1. PICK k \in Jobs : status[k] = "none" /\ status' = [status EXCEPT ![k] = "pending"]
    BY <1>3 DEF CliCreate, IsNextId, IsOldest, JobsIn
  <2>2. /\ Waiting(k)' /\ UNCHANGED queue /\ \A j \in Jobs : j # k => status'[j] = status[j]
    BY <1>3, <2>1 DEF CliCreate, Waiting, TypeOK
  <2>3. Board!Submit(k)
    BY <2>1, <2>2, SubmitIsStep
  <2> QED
    BY <2>3 DEF Board!BoardNext
<1>4. ASSUME NEW c \in Clis, CliActivate(c) PROVE BoardSteps
  <2> DEFINE k == cur[c]
  <2>1. c \in Process /\ k \in Jobs /\ status[k] = "pending" /\ pc[c] = "put"
    BY <1>4 DEF CliActivate, GeneratingIsPending, Generating, TypeOK, Working, Process
  <2>2. toPut[c] = {} /\ status' = [status EXCEPT ![k] = "started"] /\ UNCHANGED queue
    BY <1>4, <2>1 DEF CliActivate, Flushed
  <2>3. Board!Publish(k)
    BY <2>1, <2>2, PublishIsStep
  <2> QED
    BY <2>1, <2>3 DEF Board!BoardNext
<1>5. ASSUME NEW p \in Process, PutRows(p) PROVE BoardSteps
  <2>1. /\ cur[p] \in Jobs /\ status[cur[p]] = "pending" /\ UNCHANGED status
        /\ \A r \in Rows : r.job # cur[p] => queue'[r] = queue[r]
    BY <1>5 DEF PutRows, SetRows, GeneratingIsPending, Generating, TypeOK, Working
  <2>2. ASSUME NEW j \in Jobs PROVE Same(j)
    <3>1. CASE j = cur[p]
      BY <2>1, <3>1, WaitingIsSame DEF Waiting
    <3>2. CASE j # cur[p]
      BY <2>1, <3>2, UntouchedIsSame
    <3> QED
      BY <3>1, <3>2
  <2> QED
    BY <2>2, AllSame
<1>6. ASSUME NEW w \in Workers, List(w) PROVE BoardSteps
  <2>1. CASE SelectConfigs(w) \/ \E c \in Configs : NothingToTake(w, c)
    <3>1. UNCHANGED <<status, queue>>
      BY <2>1 DEF SelectConfigs, NothingToTake
    <3> QED
      BY <3>1, HiddenIsStep
  <2>2. CASE \E c \in Configs : Take(w, c)
    <3>1. PICK r \in Rows : queue[r] = "created" /\ queue' = [queue EXCEPT ![r] = "pending"]
      BY <2>2 DEF Take, Available
    <3>2. UNCHANGED status /\ queue'[r] = "pending" /\ \A o \in Rows : o # r => queue'[o] = queue[o]
      BY <2>2, <3>1 DEF Take, TypeOK
    <3>3. \A j \in Jobs : Same(j)
      BY <3>1, <3>2, UntouchedIsSame
    <3> QED
      BY <3>3, AllSame
  <2> QED
    BY <1>6, <2>1, <2>2 DEF List
<1>7. ASSUME NEW w \in Workers, NEW r \in Rows, Generate(w, r) PROVE BoardSteps
  <2>1. CASE Save(w, r) \/ Abandon(w, r)
    <3>1. UNCHANGED <<status, queue>>
      BY <2>1 DEF Save, Abandon
    <3> QED
      BY <3>1, HiddenIsStep
  <2>2. CASE DeleteOne(w, r) \/ DeleteOneError(w, r) \/ DeleteOneAgain(w, r)
    <3>1. UNCHANGED status /\ \E s \in {"absent", "error"} : Acknowledge(r, s)
      BY <2>2 DEF DeleteOne, DeleteOneError, DeleteOneAgain
    <3>2. \/ Board!Complete(r.job, r.tile) \/ Board!Fail(r.job, r.tile)
          \/ UNCHANGED Board!board
      BY <3>1, AcknowledgeIsStep
    <3>3. r.job \in Jobs /\ r.tile \in MetaTiles
      BY DEF Rows
    <3> QED
      BY <3>2, <3>3 DEF Board!BoardNext
  <2> QED
    BY <1>7, <2>1, <2>2 DEF Generate
<1>8. CASE Time \/ (\E p \in Process : Crash(p)) \/ UNCHANGED vars
  <2>1. UNCHANGED <<status, queue>>
    BY <1>8 DEF Time, RowTimesOut, JobTimesOut, Crash, vars
  <2> QED
    BY <2>1, HiddenIsStep
<1>9. ASSUME NEW w \in Workers, Maintain(w) PROVE BoardSteps
  BY <1>9, MaintainIsStep
<1> QED
  BY <1>1, <1>2, <1>3, <1>4, <1>5, <1>6, <1>7, <1>8, <1>9 DEF Next

LEMMA InitBoard == Init => BoardInv /\ Board!BoardInit
<1> SUFFICES ASSUME Init PROVE BoardInv /\ Board!BoardInit
  OBVIOUS
<1>1. GeneratorInv
  BY InitGenerator
<1>2. BoardInv
  BY <1>1 DEF Init, BoardInv, SettleInv, QueueIsClean, NoOrphan, NoStrayEntry, CountsHold,
     SettledHolds, OneRun, NoDuplicateEntry, RunsBegan, Filled, RetriedIsError, ErrorCounted,
     NoneCancelled, Idle, Process, Rows
<1>3. \A j \in Jobs : status[j] = "none" /\ ~Waiting(j)
  BY DEF Init, Waiting
<1>4. \A r \in Rows : queue[r] = "absent"
  BY DEF Init
<1>5. Shown
  BY <1>1, ShownNow DEF GeneratorInv
<1>6. \A j \in Jobs : phaseBar[j] = "none" /\ openBar[j] = {} /\ failedBar[j] = {}
  BY <1>3, <1>4, <1>5 DEF Shown, IsOpen
<1>7. phaseBar = [j \in Jobs |-> "none"]
  BY <1>5, <1>6 DEF Shown
<1>8. openBar = [j \in Jobs |-> {}]
  BY <1>5, <1>6 DEF Shown
<1>9. failedBar = [j \in Jobs |-> {}]
  BY <1>5, <1>6 DEF Shown
<1> QED
  BY <1>2, <1>7, <1>8, <1>9 DEF Board!BoardInit

\* The queue implements the board: whatever the workers interleave, what one sees of the jobs
\* and of their meta tiles are steps of JobBoard, in every behaviour without cancel in which
\* no generation of a queue fails or outlives max_pending_minutes, with one administrator, and
\* with one worker or with several that neither crash nor are late.
THEOREM QueueImplementsBoard ==
  ASSUME OneWorker \/ Calm, "slow_generation" \notin Troubles, "fail_generation" \notin Troubles,
         "cancel" \notin Requests, OneAdmin
  PROVE  Spec => ImplementsBoard
<1>1. Init => BoardInv /\ Board!BoardInit
  BY InitBoard
<1>2. BoardInv /\ [Next]_vars => BoardInv'
  <2> SUFFICES ASSUME BoardInv, [Next]_vars PROVE BoardInv'
    OBVIOUS
  <2> USE DEF BoardInv, SettleInv, GeneratorInv
  <2>1. SettleInv'
    BY SettleInductive
  <2>2. OneRun' /\ NoDuplicateEntry' /\ RunsBegan'
    BY NextEntries, NextRuns
  <2>3. Filled' /\ RetriedIsError' /\ ErrorCounted' /\ NoneCancelled'
    BY NextFilled, NextRetried, NextErrorCounted
  <2> QED
    BY <2>1, <2>2, <2>3
<1>3. BoardInv => Shown
  BY ShownNow DEF BoardInv, SettleInv, GeneratorInv
<1>4. BoardInv /\ Shown /\ Shown' /\ [Next]_vars => [Board!BoardNext]_(Board!board)
  BY NextIsStep DEF BoardSteps
<1>5. [Board!BoardNext]_(Board!board) => [Board!BoardStep]_(Board!board)
  BY DEF Board!BoardStep
<1> QED
  BY <1>1, <1>2, <1>3, <1>4, <1>5, PTL DEF Spec, ImplementsBoard, Board!BoardSpec
=============================================================================
