------------------------------ MODULE LegendImages -----------------------------
(***************************************************************************)
(* The legends of a layer (tilecloud_chain/controller.py,                  *)
(* _generate_legend_images): from the finest resolution to the coarsest,   *)
(* ask the WMS server for the legend of each of its layers, put the images *)
(* one under the other, write the result when it is not the one of the     *)
(* resolution before, and write legend.yaml each time.  _send writes a     *)
(* file in place, emptied first; a blob it replaces at once.  To S3 it     *)
(* puts the object, and then writes a file of the folder as well, for the  *)
(* test for Azure is no elif: nothing reads that file, whose writing may   *)
(* fail.                                                                   *)
(*                                                                         *)
(* A resolution is its rank: the resolutions are taken to be the powers of *)
(* one number, so that the geometric mean of two of them is, in half       *)
(* ranks, the sum of their ranks.  An image stands for its hash and for    *)
(* its size.                                                               *)
(***************************************************************************)
EXTENDS Integers, Sequences

CONSTANTS
  N,          \* number of resolutions of the grids of the layer
  WmsLayers,  \* number of layers of the WMS server in the layer
  Images,     \* what the server may answer
  Storages,   \* a subset of {"filesystem", "s3", "azure"}
  MaxRuns     \* bound on the runs of generate-controller

VARIABLES
  cache,      \* its type, one of Storages
  pc,
  rank,       \* of the resolution of the loop
  previous,   \* previous_hash
  metadata,   \* the items so far
  files,      \* the image in the file of each resolution
  yaml,       \* what legend.yaml has
  seen,       \* what the server gave at each resolution (history)
  runs        \* number of runs begun

vars == <<cache, pc, rank, previous, metadata, files, yaml, seen, runs>>

NoImage == "none"
NoFile == <<"no file">>
Empty == <<"empty file">>
NoLimit == -1
Ranks == 1 .. N
Legends == {SelectSeq(a, LAMBDA i : i # NoImage) : a \in [1 .. WmsLayers -> Images \cup {NoImage}]}

\* What marks a missing or an empty file is not a legend.
ImagesAssumption ==
  /\ N \in Nat \ {0} /\ WmsLayers \in Nat \ {0} /\ MaxRuns \in Nat
  /\ Storages \subseteq {"filesystem", "s3", "azure"}
  /\ NoFile \notin Legends /\ Empty \notin Legends /\ Empty # NoFile

Items == [rank : Ranks, image : Legends, min : {NoLimit} \cup Nat, max : {NoLimit} \cup Nat]

PC == {"idle", "get", "image", "image_end", "yaml", "yaml_end", "done"}

TypeOK ==
  /\ cache \in Storages /\ pc \in PC
  /\ rank \in Ranks /\ runs \in 0 .. MaxRuns
  /\ previous \in Legends \cup {NoFile}
  /\ \A i \in DOMAIN metadata : metadata[i] \in Items
  /\ \A i \in DOMAIN yaml : yaml[i] \in Items
  /\ files \in [Ranks -> Legends \cup {NoFile, Empty}]
  /\ seen \in [Ranks -> Legends \cup {NoFile}]

Init ==
  /\ cache \in Storages
  /\ pc = "idle" /\ rank = 1 /\ runs = 0
  /\ previous = NoFile /\ metadata = <<>> /\ yaml = <<>>
  /\ files = [r \in Ranks |-> NoFile]
  /\ seen = [r \in Ranks |-> NoFile]

Start ==
  /\ pc \in {"idle", "done"} /\ runs < MaxRuns
  /\ pc' = "get" /\ rank' = 1 /\ runs' = runs + 1
  /\ previous' = NoFile /\ metadata' = <<>>
  /\ seen' = [r \in Ranks |-> NoFile]
  /\ UNCHANGED <<cache, files, yaml>>

\* The items with a new one at this resolution: the range of the item before
\* it ends, and its own begins, between the resolutions of the two.
WithItem(items, image) ==
  LET last == items[Len(items)] IN
  IF items = <<>> THEN <<[rank |-> rank, image |-> image, min |-> NoLimit, max |-> NoLimit]>>
  ELSE Append([items EXCEPT ![Len(items)].max = last.rank + rank],
         [rank |-> rank, image |-> image, min |-> last.rank + rank, max |-> NoLimit])

\* A plausible error: an image that any resolution had is not written again.
KnownImage(image) == \E i \in DOMAIN metadata : metadata[i].image = image

SameImage(image) == image = previous

\* The server answers for each of its layers, or not: what could not be had is
\* not in the image.
Get ==
  /\ pc = "get"
  /\ \E image \in Legends :
       /\ seen' = [seen EXCEPT ![rank] = image]
       /\ IF SameImage(image) THEN pc' = "yaml" /\ UNCHANGED <<previous, metadata>>
          ELSE /\ pc' = "image"
               /\ previous' = image
               /\ metadata' = WithItem(metadata, image)
  /\ UNCHANGED <<cache, rank, files, yaml, runs>>

\* What a first step of _send leaves of what it replaces, and whether it is the only one.
First(whole, emptied) == IF cache = "filesystem" THEN emptied ELSE whole
Ended == cache = "azure"

SendImage ==
  /\ pc = "image"
  /\ files' = [files EXCEPT ![rank] = First(previous, Empty)]
  /\ pc' = IF Ended THEN "yaml" ELSE "image_end"
  /\ UNCHANGED <<cache, rank, previous, metadata, yaml, seen, runs>>

EndImage ==
  /\ pc = "image_end"
  /\ files' = [files EXCEPT ![rank] = previous]
  /\ pc' = "yaml"
  /\ UNCHANGED <<cache, rank, previous, metadata, yaml, seen, runs>>

NextResolution ==
  IF rank = N THEN pc' = "done" /\ UNCHANGED rank
  ELSE pc' = "get" /\ rank' = rank + 1

\* legend.yaml is sent after each resolution: emptied, it names nothing.
SendYaml ==
  /\ pc = "yaml"
  /\ yaml' = First(metadata, <<>>)
  /\ IF Ended THEN NextResolution ELSE pc' = "yaml_end" /\ UNCHANGED rank
  /\ UNCHANGED <<cache, previous, metadata, files, seen, runs>>

EndYaml ==
  /\ pc = "yaml_end"
  /\ yaml' = metadata
  /\ NextResolution
  /\ UNCHANGED <<cache, previous, metadata, files, seen, runs>>

\* The storage refuses, or the process is killed.
Crash ==
  /\ pc \notin {"idle", "done"}
  /\ pc' = "idle"
  /\ UNCHANGED <<cache, rank, previous, metadata, files, yaml, seen, runs>>

Next ==
  \/ Start \/ Get \/ SendImage \/ EndImage \/ SendYaml \/ EndYaml \/ Crash

Spec == Init /\ [][Next]_vars

-----------------------------------------------------------------------------
\* Whatever runs were interrupted, an image that legend.yaml names is there, and whole: but
\* for the first one, which an interrupted run may leave empty in a file.
ListedIsWritten ==
  \A i \in DOMAIN yaml :
    files[yaml[i].rank] \in Legends
      \/ (files[yaml[i].rank] = Empty /\ i = 1 /\ cache = "filesystem")

\* A run that ends leaves, after any interrupted ones, a legend.yaml that
\* describes the files as they are, and at each resolution the last image
\* written up to it is what the server gave.
DoneIsCoherent ==
  pc = "done" =>
    /\ \A i \in DOMAIN yaml : files[yaml[i].rank] = yaml[i].image
    /\ \A r \in Ranks : \E i \in DOMAIN yaml :
         /\ yaml[i].rank <= r /\ (i = Len(yaml) \/ yaml[i + 1].rank > r)
         /\ files[yaml[i].rank] = seen[r]

\* The ranges of legend.yaml follow each other and leave nothing out, also
\* when its run was interrupted.
RangesMeet ==
  \A i \in DOMAIN yaml :
    /\ yaml[i].min = IF i = 1 THEN NoLimit ELSE yaml[i - 1].max
    /\ (yaml[i].max = NoLimit) <=> (i = Len(yaml))
    /\ yaml[i].max # NoLimit => yaml[i].min < yaml[i].max
===============================================================================
