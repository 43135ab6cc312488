------------------------------ MODULE JobBoard ------------------------------
(***************************************************************************)
(* What the PostgreSQL queue promises about jobs and meta tiles, without   *)
(* workers, entries, claims, locks and timeouts: a job waits for its       *)
(* queue, runs until each meta tile it asked for is generated or failed,   *)
(* and is then settled; a job in error can be retried, which reopens its   *)
(* failed meta tiles and no other; a running job can be cancelled, which   *)
(* drops meta tiles nobody began.                                          *)
(***************************************************************************)
CONSTANTS Jobs, MetaTiles, TilesOf

VARIABLES phase,   \* where each job stands
          open,    \* meta tiles still to generate
          failed   \* meta tiles whose generation failed

board == <<phase, open, failed>>

BoardTypeOK ==
  /\ phase \in [Jobs -> {"none", "waiting", "running", "error", "done", "cancelled"}]
  /\ open \in [Jobs -> SUBSET MetaTiles]
  /\ failed \in [Jobs -> SUBSET MetaTiles]

BoardInit ==
  /\ phase = [j \in Jobs |-> "none"]
  /\ open = [j \in Jobs |-> {}]
  /\ failed = [j \in Jobs |-> {}]

Submit(j) ==
  /\ phase[j] = "none"
  /\ phase' = [phase EXCEPT ![j] = "waiting"]
  /\ UNCHANGED <<open, failed>>

\* The queue of the job is complete: its meta tiles open all at once.
Publish(j) ==
  /\ phase[j] = "waiting"
  /\ phase' = [phase EXCEPT ![j] = "running"]
  /\ open' = [open EXCEPT ![j] = TilesOf[j]]
  /\ UNCHANGED failed

\* A command without a queue succeeds, fails or is refused.
RunDirectly(j) ==
  /\ phase[j] = "waiting"
  /\ \E s \in {"done", "error"} : phase' = [phase EXCEPT ![j] = s]
  /\ UNCHANGED <<open, failed>>

Complete(j, t) ==
  /\ phase[j] \in {"running", "cancelled"} /\ t \in open[j]
  /\ open' = [open EXCEPT ![j] = @ \ {t}]
  /\ UNCHANGED <<phase, failed>>

Fail(j, t) ==
  /\ phase[j] \in {"running", "cancelled"} /\ t \in open[j]
  /\ open' = [open EXCEPT ![j] = @ \ {t}]
  /\ failed' = [failed EXCEPT ![j] = @ \cup {t}]
  /\ UNCHANGED phase

\* Several jobs may be settled in one step.
Settle(S) ==
  /\ S # {} /\ \A j \in S : phase[j] = "running" /\ open[j] = {}
  /\ phase' = [j \in Jobs |-> IF j \notin S THEN phase[j]
                              ELSE IF failed[j] = {} THEN "done" ELSE "error"]
  /\ UNCHANGED <<open, failed>>

Retry(j) ==
  /\ phase[j] = "error"
  /\ phase' = [phase EXCEPT ![j] = "running"]
  /\ open' = [open EXCEPT ![j] = failed[j]]
  /\ failed' = [failed EXCEPT ![j] = {}]

Cancel(j) ==
  /\ phase[j] = "running"
  /\ phase' = [phase EXCEPT ![j] = "cancelled"]
  /\ \E S \in SUBSET open[j] : open' = [open EXCEPT ![j] = S]
  /\ UNCHANGED failed

BoardNext ==
  \/ \E j \in Jobs : Submit(j) \/ Publish(j) \/ RunDirectly(j) \/ Retry(j) \/ Cancel(j)
  \/ \E j \in Jobs, t \in MetaTiles : Complete(j, t) \/ Fail(j, t)
  \/ \E S \in SUBSET Jobs : Settle(S)

\* A step of a job or of a meta tile, which the implementation seldom makes.
BoardStep == board' # board /\ BoardNext

BoardSpec == BoardInit /\ [][BoardStep]_board
=============================================================================
