------------------------- MODULE JobQueueRefinement -------------------------
(***************************************************************************)
(* The tables of JobQueue read as the board of JobBoard.  A job waits      *)
(* until its status is started; a meta tile is open while it has an entry  *)
(* that is created or pending, and failed while it has one in error.       *)
(***************************************************************************)
EXTENDS JobQueue

phaseBar ==
  [j \in Jobs |-> CASE status[j] \in {"created", "pending"} -> "waiting"
                    [] status[j] = "started" -> "running"
                    [] OTHER -> status[j]]

TilesIn(j, s) == {r.tile : r \in RowsIn(j, s)}

openBar ==
  [j \in Jobs |-> IF phaseBar[j] = "waiting" THEN {}
                  ELSE TilesIn(j, "created") \cup TilesIn(j, "pending")]

failedBar == [j \in Jobs |-> IF phaseBar[j] = "waiting" THEN {} ELSE TilesIn(j, "error")]

Board == INSTANCE JobBoard WITH phase <- phaseBar, open <- openBar, failed <- failedBar

\* Every behaviour of the queue is one of the board: entries appear and are settled
\* as the jobs and meta tiles of the board do, whatever crashed in between.
ImplementsBoard == Board!BoardSpec
=============================================================================
