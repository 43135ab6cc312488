----------------------------- MODULE MCJobQueue -----------------------------
(* Small instances of JobQueue for TLC. *)
EXTENDS JobQueueRefinement, TLC

MCConfigOf == [j \in Jobs |-> "config"]
\* Each job has a configuration of its own.
MCConfigs == {"config", "other"}
MCKindOf == [j \in Jobs |-> "queue"]
MCRefused == [j \in Jobs |-> "refused"]
\* Job 1 fills a queue, job 2 is run as a subprocess, job 3 is refused.
MCMixed == [j \in Jobs |-> IF j = 1 THEN "queue" ELSE IF j = 2 THEN "subprocess" ELSE "refused"]
MCTilesOf == [j \in Jobs |-> IF KindOf[j] = "subprocess" THEN {} ELSE MetaTiles]
Symmetry == Permutations(Workers) \cup Permutations(MetaTiles)
=============================================================================
