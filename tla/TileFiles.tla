----------------------------- MODULE TileFiles -----------------------------
(***************************************************************************)
(* The stores of the tiles: FilesystemTileStore and                        *)
(* AzureStorageBlobTileStore.  Workers put and delete a tile while servers *)
(* get it.  A file is truncated when it is opened and written later, a     *)
(* deleted file lives on for who has it open; a blob changes at once.      *)
(*                                                                         *)
(* One tile, several processes; a step is a system call or a request.      *)
(***************************************************************************)
EXTENDS Naturals, FiniteSets

CONSTANTS
  Kinds,      \* a subset of {"filesystem", "azure"}
  Writers,    \* processes that generate, or drop, the tile
  Readers,    \* processes that serve it
  Deletes,    \* BOOLEAN: some generations are dropped, and delete the tile
  Fails,      \* BOOLEAN: requests to the storage may fail
  MaxCrashes, \* bound: processes that die
  MaxFiles    \* bound: files created under the name of the tile

FilesAssumption ==
  /\ Kinds \subseteq {"filesystem", "azure"} /\ Kinds # {}
  /\ Deletes \in BOOLEAN /\ Fails \in BOOLEAN
  /\ Writers \cap Readers = {}
  /\ MaxCrashes \in Nat /\ MaxFiles \in Nat \ {0}

VARIABLES
  kind,     \* of the store
  name,     \* the file under the name of the tile, 0 if there is none
  data,     \* [files -> what they hold]
  last,     \* the last file created
  pc,
  handle,   \* [processes -> the file they opened]
  overlaps, \* readers that saw a write under way, or what a dead writer left (history)
  got,      \* what the readers returned
  crashes

vars == <<kind, name, data, last, pc, handle, overlaps, got, crashes>>

Processes == Writers \cup Readers
Files == 1 .. MaxFiles
Data == {"none", "empty", "tile"}
Answers == {"none", "missing", "error", "empty", "tile"}
PC == {"idle", "write", "upload", "exists", "unlink", "open", "read", "put_done",
       "delete_done", "failed", "got", "dead"}

TypeOK ==
  /\ kind \in Kinds
  /\ name \in {0} \cup Files /\ last \in {0} \cup Files
  /\ data \in [Files -> Data]
  /\ pc \in [Processes -> PC] /\ handle \in [Processes -> {0} \cup Files]
  /\ overlaps \subseteq Readers /\ got \in [Readers -> Answers]
  /\ crashes \in 0 .. MaxCrashes

Init ==
  /\ kind \in Kinds
  /\ name = 0 /\ last = 0 /\ data = [f \in Files |-> "none"]
  /\ pc = [p \in Processes |-> "idle"] /\ handle = [p \in Processes |-> 0]
  /\ overlaps = {} /\ got = [r \in Readers |-> "none"] /\ crashes = 0

Goto(p, l) == pc' = [pc EXCEPT ![p] = l]
Content == IF name = 0 THEN "none" ELSE data[name]
InWrite == {w \in Writers : pc[w] = "write"}
\* Readers that can see the write of a file that has begun.
Disturbed == {r \in Readers : pc[r] \in {"open", "read"}}

-----------------------------------------------------------------------------
(* put_one.                                                                *)

\* open("wb"): the file of that name, or a new one, is empty from now on.
OpenForWrite(w) ==
  /\ kind = "filesystem" /\ pc[w] = "idle"
  /\ IF name # 0
     THEN /\ handle' = [handle EXCEPT ![w] = name] /\ data' = [data EXCEPT ![name] = "empty"]
          /\ UNCHANGED <<name, last>>
     ELSE /\ last < MaxFiles /\ last' = last + 1 /\ name' = last'
          /\ handle' = [handle EXCEPT ![w] = last']
          /\ data' = [data EXCEPT ![last'] = "empty"]
  /\ overlaps' = overlaps \cup Disturbed
  /\ Goto(w, "write")
  /\ UNCHANGED <<kind, got, crashes>>

\* A plausible error: the file is closed before it is written.
NothingWritten(w) == data
Written(w) == [data EXCEPT ![handle[w]] = "tile"]

WriteAndClose(w) ==
  /\ pc[w] = "write"
  /\ data' = Written(w)
  /\ handle' = [handle EXCEPT ![w] = 0]
  /\ Goto(w, "put_done")
  /\ UNCHANGED <<kind, name, last, overlaps, got, crashes>>

\* upload_blob(overwrite=True): an error stays in the tile.
Upload(w) ==
  /\ kind = "azure" /\ pc[w] = "idle"
  /\ \/ /\ name' = 1 /\ last' = 1 /\ data' = [data EXCEPT ![1] = "tile"]
        /\ Goto(w, "put_done")
     \/ Fails /\ Goto(w, "failed") /\ UNCHANGED <<name, last, data>>
  /\ UNCHANGED <<kind, handle, overlaps, got, crashes>>

-----------------------------------------------------------------------------
(* delete_one, of a tile that is dropped.                                  *)

Exists(w) ==
  /\ kind = "filesystem" /\ Deletes /\ pc[w] = "idle"
  /\ Goto(w, IF name # 0 THEN "unlink" ELSE "delete_done")
  /\ UNCHANGED <<kind, name, data, last, handle, overlaps, got, crashes>>

\* Another one may have deleted the tile: FileNotFoundError.
Unlink(w) ==
  /\ pc[w] = "unlink"
  /\ name' = 0
  /\ Goto(w, IF name # 0 THEN "delete_done" ELSE "failed")
  /\ UNCHANGED <<kind, data, last, handle, overlaps, got, crashes>>

\* exists() and delete_blob() are coroutines nobody waits for: nothing is requested.
DeleteBlob(w) ==
  /\ kind = "azure" /\ Deletes /\ pc[w] = "idle"
  /\ Goto(w, "delete_done")
  /\ UNCHANGED <<kind, name, data, last, handle, overlaps, got, crashes>>

-----------------------------------------------------------------------------
(* get_one.                                                                *)

BeginGet(r) ==
  /\ pc[r] = "idle"
  /\ Goto(r, "open")
  /\ overlaps' = IF InWrite # {} \/ crashes > 0 THEN overlaps \cup {r} ELSE overlaps
  /\ UNCHANGED <<kind, name, data, last, handle, got, crashes>>

Answer(r, a) == Goto(r, "got") /\ got' = [got EXCEPT ![r] = a]

\* The open of a file, or exists() of a blob.
OpenForRead(r) ==
  /\ pc[r] = "open"
  /\ \/ /\ name = 0 /\ Answer(r, "missing") /\ UNCHANGED handle
     \/ /\ name # 0 /\ Goto(r, "read") /\ handle' = [handle EXCEPT ![r] = name]
        /\ UNCHANGED got
     \/ kind = "azure" /\ Fails /\ Answer(r, "error") /\ UNCHANGED handle
  /\ UNCHANGED <<kind, name, data, last, overlaps, crashes>>

\* The file is the one that was opened; a blob is the current one, with its properties.
Read(r) ==
  /\ pc[r] = "read"
  /\ \/ Answer(r, data[handle[r]])
     \/ kind = "azure" /\ Fails /\ Answer(r, "error")
  /\ handle' = [handle EXCEPT ![r] = 0]
  /\ UNCHANGED <<kind, name, data, last, overlaps, crashes>>

-----------------------------------------------------------------------------
\* The next tile, or the next request.
Again(p) ==
  /\ pc[p] \in {"put_done", "delete_done", "failed", "got"}
  /\ Goto(p, "idle")
  /\ IF p \in Readers THEN got' = [got EXCEPT ![p] = "none"] /\ overlaps' = overlaps \ {p}
                      ELSE UNCHANGED <<got, overlaps>>
  /\ UNCHANGED <<kind, name, data, last, handle, crashes>>

Crash(w) ==
  /\ crashes < MaxCrashes /\ crashes' = crashes + 1
  /\ pc[w] # "dead" /\ Goto(w, "dead")
  /\ handle' = [handle EXCEPT ![w] = 0]
  /\ UNCHANGED <<kind, name, data, last, overlaps, got>>

Put(w) == OpenForWrite(w) \/ WriteAndClose(w) \/ Upload(w)
Delete(w) == Exists(w) \/ Unlink(w) \/ DeleteBlob(w)
Get(r) == BeginGet(r) \/ OpenForRead(r) \/ Read(r)

Next ==
  \/ \E w \in Writers : Put(w) \/ Delete(w) \/ Again(w) \/ Crash(w)
  \/ \E r \in Readers : Get(r) \/ Again(r)

Spec == Init /\ [][Next]_vars

-----------------------------------------------------------------------------
(* What a store must guarantee.                                            *)

\* A tile without its data is only seen by who reads while it is written, or after its
\* writer died.
WholeOrMissing == \A r \in Readers : got[r] = "empty" => r \in overlaps

\* When no process writes and none has died, the store has the whole tile or nothing,
\* however the writes and deletes overlapped.
QuietIsWhole == InWrite = {} /\ crashes = 0 => Content \in {"none", "tile"}
=============================================================================
