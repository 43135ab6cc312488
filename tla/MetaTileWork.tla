---------------------------- MODULE MetaTileWork ----------------------------
(***************************************************************************)
(* What the queue relies on about the process that generates the meta      *)
(* tiles it takes: the part of the actions Save, DeleteOne, DeleteOneError,*)
(* DeleteOneAgain and Abandon of JobQueue that belongs to one worker.      *)
(* JobQueue composes it with the tables and the other processes;           *)
(* MetatilePipeline is shown to implement it.                              *)
(***************************************************************************)
EXTENDS Naturals

CONSTANT MetaTiles

VARIABLES at,    \* where the work on a meta tile stands
          entry, \* its queue entry
          acks   \* calls of delete_one that can still find the entry

work == <<at, entry, acks>>

WorkTypeOK ==
  /\ at \in [MetaTiles -> {"queued", "busy", "saved", "again", "gone"}]
  /\ entry \in [MetaTiles -> {"pending", "deleted", "error"}]
  /\ acks \in [MetaTiles -> 0 .. 2]

WorkInit ==
  /\ at = [m \in MetaTiles |-> "queued"]
  /\ entry = [m \in MetaTiles |-> "pending"]
  /\ acks = [m \in MetaTiles |-> 0]

Become(m, l) == at' = [at EXCEPT ![m] = l]

WorkTake(m) ==
  at[m] = "queued" /\ Become(m, "busy") /\ UNCHANGED <<entry, acks>>

\* All the tiles of the meta tile are in the cache.
WorkSave(m) ==
  at[m] = "busy" /\ Become(m, "saved") /\ UNCHANGED <<entry, acks>>

\* The entry is deleted once, after the tiles are stored.
WorkDelete(m) ==
  /\ at[m] = "saved" /\ acks[m] = 0
  /\ entry' = [entry EXCEPT ![m] = "deleted"]
  /\ acks' = [acks EXCEPT ![m] = 1]
  /\ Become(m, "gone")

\* A failure is acknowledged, for the first or for the only time.
WorkFail(m) ==
  /\ at[m] \in {"busy", "saved"} /\ acks[m] = 0
  /\ entry' = [entry EXCEPT ![m] = "error"]
  /\ acks' = [acks EXCEPT ![m] = 1]
  /\ \/ Become(m, "again")
     \/ Become(m, "gone")

WorkFailAgain(m) ==
  /\ at[m] = "again" /\ acks[m] = 1
  /\ acks' = [acks EXCEPT ![m] = 2]
  /\ Become(m, "gone")
  /\ UNCHANGED entry

WorkAbandon(m) ==
  /\ at[m] \in {"busy", "saved", "again"}
  /\ Become(m, "gone")
  /\ UNCHANGED <<entry, acks>>

WorkNext ==
  \E m \in MetaTiles :
    \/ WorkTake(m) \/ WorkSave(m) \/ WorkDelete(m)
    \/ WorkFail(m) \/ WorkFailAgain(m) \/ WorkAbandon(m)

WorkSpec == WorkInit /\ [][WorkNext]_work
=============================================================================
