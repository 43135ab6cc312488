--------------------------- MODULE MCJobQueueSafe ---------------------------
(***************************************************************************)
(* JobQueue for TLC in the two cases in which a job is settled rightly:    *)
(* several workers that neither die nor are late, and a worker by itself   *)
(* that may be both.                                                       *)
(***************************************************************************)
EXTENDS MCJobQueue

VARIABLE only  \* the worker that is by itself, or None

SafeInit == Init /\ only \in Workers \cup {None}

\* All the workers, with one task each, and the command lines; what is stored is deleted.
Together ==
  /\ only = None /\ Next
  /\ crashes' = 0 /\ \A j \in Jobs : runs'[j] <= 1
  /\ \A w \in Workers : busy'[w] \cup saved'[w] # {} => pc'[w] = "restart"
  /\ \A w \in Workers : \A r \in saved[w] : queue'[r] # "error"

\* One worker, with its tasks; the other processes do not begin.
ByItself ==
  /\ only \in Workers /\ Next
  /\ \A w \in Workers \ {only} : pc'[w] = "restart"
  /\ \A c \in Clis : pc'[c] = "off"

SafeSpec == SafeInit /\ [][(Together \/ ByItself) /\ UNCHANGED only]_<<vars, only>>
=============================================================================
