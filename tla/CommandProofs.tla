---------------------------- MODULE CommandProofs ----------------------------
(***************************************************************************)
(* Proofs about Commands: the exit status and the tiles of generate-tiles, *)
(* the legends of generate-controller, the files of the tiles, the meta    *)
(* tiles of a master and the scales of the grids, for any configuration    *)
(* and any geometry, any command lines, any failures and any               *)
(* interruptions.                                                          *)
(*                                                                         *)
(* The files: a file without its data has a writer, or one has died.       *)
(* The legends: the items of a run have increasing resolutions, each range *)
(* ends where the next one begins, and what they name is written.          *)
(* The command: the layers still to do have no numbers, those of the layer *)
(* at work are its counters, and what is asked of a single layer is made,  *)
(* is to be made, or has failed.                                           *)
(* The pyramid: of the meta tiles of the ranges of the rows, those that    *)
(* are put are those the generator came to; a meta tile that has a part of *)
(* the geometry is one of them.                                            *)
(* The scales: the factors that are found are primes, they make the        *)
(* denominator with what is left of it, and the product of the greatest    *)
(* powers of them is the least common multiple of the denominators.        *)
(***************************************************************************)
EXTENDS Commands, SequenceTheorems, WellFoundedInduction, TLAPS

-----------------------------------------------------------------------------
(* The files of the tiles.                                                 *)

\* What is open is a file.
OpenIsFile ==
  /\ kind # "filesystem" => OneTile!InWrite = {}
  /\ \A p \in OneTile!Processes : filePc[p] \in {"write", "read"} => handle[p] \in OneTile!Files

\* A file without its data has a writer, or one has died.
EmptyIsWritten ==
  \A f \in OneTile!Files : data[f] = "empty" =>
    crashes > 0 \/ \E w \in Writers : filePc[w] = "write" /\ handle[w] = f

\* A reader during whose request no write was under way finds no such file.
FindsWhole ==
  \A r \in Readers \ overlaps : filePc[r] \in {"open", "read"} =>
    \A f \in OneTile!Files : data[f] # "empty"

FileInv ==
  OneTile!TypeOK /\ OneTile!WholeOrMissing /\ OpenIsFile /\ EmptyIsWritten /\ FindsWhole

\* At first no file is open.
LEMMA InitFiles == ASSUME OneTile!FilesAssumption PROVE OneTile!Init => FileInv
BY DEF OpenIsFile, EmptyIsWritten, FindsWhole, OneTile!FilesAssumption, OneTile!Init, FileInv,
   OneTile!TypeOK, OneTile!WholeOrMissing, OneTile!InWrite, OneTile!Processes, OneTile!Files,
   OneTile!Data, OneTile!Answers, OneTile!PC

LEMMA NextFiles ==
  ASSUME OneTile!FilesAssumption, FileInv, [OneTile!Next]_(OneTile!vars)
  PROVE  FileInv'
<1> USE DEF OneTile!FilesAssumption, FileInv, OneTile!TypeOK, OneTile!WholeOrMissing,
      OpenIsFile, EmptyIsWritten, FindsWhole,
      OneTile!InWrite, OneTile!Processes, OneTile!Files, OneTile!Data, OneTile!Answers,
      OneTile!PC, OneTile!Goto
<1>1. ASSUME NEW w \in Writers, OneTile!OpenForWrite(w) PROVE FileInv'
  <2>1. PICK f \in OneTile!Files :
          /\ name' = f /\ handle' = [handle EXCEPT ![w] = f]
          /\ data' = [data EXCEPT ![f] = "empty"] /\ lastFile' \in {0} \cup OneTile!Files
    BY <1>1 DEF OneTile!OpenForWrite
  <2>2. /\ kind = "filesystem" /\ filePc[w] = "idle"
        /\ filePc' = [filePc EXCEPT ![w] = "write"]
        /\ overlaps' = overlaps \cup {r \in Readers : filePc[r] \in {"open", "read"}}
        /\ UNCHANGED <<kind, got, crashes>>
    BY <1>1 DEF OneTile!OpenForWrite, OneTile!Disturbed
  <2>3. OneTile!TypeOK' /\ OneTile!WholeOrMissing' /\ OpenIsFile'
    BY <2>1, <2>2
  <2>4. EmptyIsWritten'
    BY <2>1, <2>2
  <2>5. FindsWhole'
    BY <2>2
  <2> QED BY <2>3, <2>4, <2>5
<1>2. ASSUME NEW w \in Writers, OneTile!WriteAndClose(w) PROVE FileInv'
  BY <1>2 DEF OneTile!WriteAndClose, OneTile!Written
<1>3. ASSUME NEW w \in Writers, OneTile!Upload(w) PROVE FileInv'
  <2>1. /\ filePc[w] = "idle" /\ kind = "azure" /\ filePc'[w] \in {"put_done", "failed"}
        /\ filePc' = [filePc EXCEPT ![w] = filePc'[w]]
        /\ UNCHANGED <<kind, handle, overlaps, got, crashes>>
    BY <1>3 DEF OneTile!Upload
  <2>2. \/ UNCHANGED <<name, lastFile, data>>
        \/ name' = 1 /\ lastFile' = 1 /\ data' = [data EXCEPT ![1] = "tile"]
    BY <1>3 DEF OneTile!Upload
  <2>3. OneTile!TypeOK' /\ OneTile!WholeOrMissing' /\ OpenIsFile'
    BY <2>1, <2>2
  <2>4. EmptyIsWritten' /\ FindsWhole'
    BY <2>1, <2>2
  <2> QED BY <2>3, <2>4
<1>4. ASSUME NEW w \in Writers, OneTile!Delete(w) PROVE FileInv'
  BY <1>4 DEF OneTile!Delete, OneTile!Exists, OneTile!Unlink, OneTile!DeleteBlob
<1>5. ASSUME NEW r \in Readers, OneTile!BeginGet(r) PROVE FileInv'
  BY <1>5 DEF OneTile!BeginGet
<1>6. ASSUME NEW r \in Readers, OneTile!OpenForRead(r) PROVE FileInv'
  <2>1. /\ filePc[r] = "open" /\ filePc'[r] \in {"got", "read"}
        /\ filePc' = [filePc EXCEPT ![r] = filePc'[r]]
        /\ handle' = [handle EXCEPT ![r] = handle'[r]]
        /\ filePc'[r] = "read" => handle'[r] \in OneTile!Files
        /\ handle'[r] \in {0} \cup OneTile!Files
        /\ got'[r] \in {got[r], "missing", "error"} /\ got' = [got EXCEPT ![r] = got'[r]]
        /\ UNCHANGED <<kind, name, data, lastFile, overlaps, crashes>>
    BY <1>6 DEF OneTile!OpenForRead, OneTile!Answer
  <2>2. OneTile!TypeOK' /\ OneTile!WholeOrMissing' /\ OpenIsFile'
    BY SMTT(40), <2>1
  <2>3. EmptyIsWritten' /\ FindsWhole'
    BY <2>1
  <2> QED BY <2>2, <2>3
<1>7. ASSUME NEW r \in Readers, OneTile!Read(r) PROVE FileInv'
  <2>1. /\ filePc[r] = "read" /\ filePc' = [filePc EXCEPT ![r] = "got"]
        /\ handle' = [handle EXCEPT ![r] = 0]
        /\ got' = [got EXCEPT ![r] = got'[r]] /\ got'[r] \in {data[handle[r]], "error"}
        /\ UNCHANGED <<kind, name, data, lastFile, overlaps, crashes>>
    BY <1>7 DEF OneTile!Read, OneTile!Answer
  <2>2. handle[r] \in OneTile!Files /\ (data[handle[r]] = "empty" => r \in overlaps)
    BY <2>1
  <2>3. OneTile!TypeOK' /\ OneTile!WholeOrMissing' /\ OpenIsFile'
    BY <2>1, <2>2
  <2>4. EmptyIsWritten' /\ FindsWhole'
    BY <2>1
  <2> QED BY <2>3, <2>4
<1>8. ASSUME NEW p \in OneTile!Processes, OneTile!Again(p) PROVE FileInv'
  BY <1>8 DEF OneTile!Again
<1>9. ASSUME NEW w \in Writers, OneTile!Crash(w) PROVE FileInv'
  BY <1>9 DEF OneTile!Crash
<1>10. CASE UNCHANGED OneTile!vars
  BY <1>10 DEF OneTile!vars
<1> QED
  BY <1>1, <1>2, <1>3, <1>4, <1>5, <1>6, <1>7, <1>8, <1>9, <1>10
  DEF OneTile!Next, OneTile!Put, OneTile!Get

\* A quiet store has whole tiles: EmptyIsWritten without a writer or a crash.
LEMMA QuietFiles ==
  ASSUME FileInv PROVE OneTile!QuietIsWhole
BY DEF FileInv, EmptyIsWritten, OneTile!QuietIsWhole, OneTile!InWrite, OneTile!Content,
   OneTile!TypeOK, OneTile!Files, OneTile!Data, OneTile!Processes

\* TilesAreWhole, the files of the tiles in the stores, for any number of writers, of
\* readers and of files.
THEOREM TilesStayWhole == CommandsSpec => []TilesAreWhole
<1>1. CommandsInit => FileInv
  BY InitFiles, TileAssumption DEF CommandsInit
<1>2. FileInv /\ [CommandsNext]_commandsVars => FileInv'
  <2>1. [CommandsNext]_commandsVars => [OneTile!Next]_(OneTile!vars)
    BY DEF CommandsNext, GenerationStep, ControllerStep, TileStep, PyramidStep, CheckStep,
       commandsVars, fileVars, OneTile!vars
  <2> QED BY <2>1, NextFiles, TileAssumption
<1>3. FileInv => TilesAreWhole
  BY QuietFiles DEF FileInv, TilesAreWhole
<1> QED
  BY <1>1, <1>2, <1>3, PTL DEF CommandsSpec

-----------------------------------------------------------------------------
(* The legends.                                                            *)

\* The ranges of a list of items follow each other, its resolutions increase, and its last
\* range is open.
Between(items, i) == items[i - 1].rank + items[i].rank
Chained(items) ==
  /\ items \in Seq(Controller!Items)
  /\ \A i, j \in 1 .. Len(items) : i < j => items[i].rank < items[j].rank
  /\ \A i \in 1 .. Len(items) :
       /\ items[i].min = IF i = 1 THEN Controller!NoLimit ELSE Between(items, i)
       /\ items[i].max = IF i = Len(items) THEN Controller!NoLimit ELSE Between(items, i + 1)

\* The last item before a resolution has what the server gave for it.
Covered(items, r) ==
  \E i \in 1 .. Len(items) :
    /\ items[i].rank <= r /\ (i = Len(items) \/ items[i + 1].rank > r)
    /\ items[i].image = seen[r]

\* While a run goes on: its items are of the resolutions until now, their images are
\* written, but for the last one when it is about to be, and they cover the resolutions;
\* an image that it is to write is the first one, or is not in legend.yaml.
Running == legendPc # "idle"
Sending == legendPc \in {"image", "image_end"}
RunFits ==
  Running =>
    /\ \A i \in 1 .. Len(metadata) : metadata[i].rank <= rank
    /\ legendPc = "get" => \A i \in 1 .. Len(metadata) : metadata[i].rank < rank
    /\ Sending => metadata # <<>> /\ metadata[Len(metadata)].rank = rank
    /\ previous = IF metadata = <<>> THEN Controller!NoFile ELSE metadata[Len(metadata)].image
    /\ \A i \in 1 .. Len(metadata) :
         (Sending /\ i = Len(metadata)) \/ files[metadata[i].rank] = metadata[i].image
    /\ legendPc = "get" \/ Sending =>
         rank = 1 \/ \A i \in 1 .. Len(yaml) : yaml[i].rank < rank
    /\ \A r \in Controller!Ranks :
         r < rank \/ (r = rank /\ legendPc # "get") => Covered(metadata, r)
    /\ legendPc = "done" => yaml = metadata /\ rank = Resolutions

\* What legend.yaml names is written, or the first one and emptied.
YamlFits ==
  \A i \in 1 .. Len(yaml) :
    files[yaml[i].rank] \in Controller!Legends
      \/ (files[yaml[i].rank] = Controller!Empty /\ i = 1 /\ legendCache = "filesystem")

ImageInv ==
  Controller!TypeOK /\ Chained(metadata) /\ Chained(yaml) /\ RunFits /\ YamlFits

\* No items follow each other.
LEMMA EmptyIsChained == Chained(<<>>) /\ Len(<<>>) = 0
BY DEF Chained

\* At first there are no items and no files.
LEMMA InitImages == ASSUME Controller!ImagesAssumption PROVE Controller!Init => ImageInv
BY EmptyIsChained DEF Controller!ImagesAssumption, Controller!Init, ImageInv, Controller!TypeOK,
   RunFits, Running, YamlFits, Controller!Ranks, Controller!PC

\* What the items of a run are.
LEMMA ItemsAreTyped ==
  ASSUME NEW items, Chained(items)
  PROVE  /\ Len(items) \in Nat /\ DOMAIN items = 1 .. Len(items)
         /\ \A i \in 1 .. Len(items) :
              /\ items[i] \in Controller!Items /\ items[i].rank \in Controller!Ranks
              /\ items[i].rank \in Nat /\ items[i].image \in Controller!Legends
<1>1. items \in Seq(Controller!Items)
  BY DEF Chained
<1>2. \A i \in 1 .. Len(items) : items[i] \in Controller!Items
  BY <1>1
<1>3. \A item \in Controller!Items :
        /\ item.rank \in Controller!Ranks /\ item.rank \in Nat
        /\ item.image \in Controller!Legends
  BY DEF Controller!Items, Controller!Ranks
<1> QED BY <1>1, <1>2, <1>3

\* The new item of a resolution is last, and ends the range of the one before it.
LEMMA WithItemChains ==
  ASSUME Controller!TypeOK, Chained(metadata), NEW image \in Controller!Legends,
         \A i \in 1 .. Len(metadata) : metadata[i].rank < rank,
         NEW items, items = Controller!WithItem(metadata, image),
         NEW n, n = Len(metadata)
  PROVE  /\ Chained(items) /\ Len(items) = n + 1 /\ items # <<>>
         /\ items[n + 1].rank = rank /\ items[n + 1].image = image
         /\ \A i \in 1 .. n : items[i].rank = metadata[i].rank
                              /\ items[i].image = metadata[i].image
<1> DEFINE new(low) == [rank |-> rank, image |-> image, min |-> low, max |-> Controller!NoLimit]
<1>1. n \in Nat /\ metadata \in Seq(Controller!Items) /\ rank \in Controller!Ranks /\ rank \in Nat
  BY DEF Chained, Controller!TypeOK, Controller!Ranks
<1>2. \A low \in {Controller!NoLimit} \cup Nat :
        /\ new(low) \in Controller!Items
        /\ new(low).rank = rank /\ new(low).image = image
        /\ new(low).min = low /\ new(low).max = Controller!NoLimit
  BY <1>1 DEF Controller!Items
<1>3. CASE metadata = <<>>
  <2> DEFINE e == new(Controller!NoLimit)
  <2>1. items = <<e>>
    BY <1>3 DEF Controller!WithItem
  <2>2. /\ e \in Controller!Items /\ e.rank = rank /\ e.image = image
        /\ e.min = Controller!NoLimit /\ e.max = Controller!NoLimit
    BY <1>2
  <2> HIDE DEF e
  <2>3. items \in Seq(Controller!Items) /\ Len(items) = 1 /\ items[1] = e
    BY <2>1, <2>2
  <2>4. n = 0
    BY <1>3
  <2>5. /\ items[1].rank = rank /\ items[1].image = image
        /\ items[1].min = Controller!NoLimit /\ items[1].max = Controller!NoLimit
    BY <2>2, <2>3
  <2>6. Chained(items)
    BY <2>3, <2>5 DEF Chained
  <2> QED BY <2>3, <2>4, <2>5, <2>6
<1>4. CASE metadata # <<>>
  <2> DEFINE low == metadata[n].rank + rank
             ended == [metadata[n] EXCEPT !.max = low]
             closed == [metadata EXCEPT ![n] = ended]
  <2>1. n \in 1 .. n /\ metadata[n] \in Controller!Items
    BY <1>1, <1>4
  <2>2. low \in Nat
    BY <1>1, <2>1 DEF Controller!Items, Controller!Ranks
  <2>3. /\ ended \in Controller!Items /\ ended.rank = metadata[n].rank
        /\ ended.image = metadata[n].image /\ ended.min = metadata[n].min /\ ended.max = low
    <3> HIDE DEF low
    <3> QED BY <2>1, <2>2 DEF Controller!Items
  <2>4. items = Append(closed, new(low))
    BY <1>4 DEF Controller!WithItem
  <2>5. new(low) \in Controller!Items
    BY <1>2, <2>2
  <2> HIDE DEF new, ended
  <2>6. /\ closed \in Seq(Controller!Items) /\ Len(closed) = n
        /\ \A i \in 1 .. n : closed[i] = IF i = n THEN ended ELSE metadata[i]
    BY <1>1, <2>1, <2>3, ExceptSeq
  <2> HIDE DEF closed
  <2>7. /\ items \in Seq(Controller!Items) /\ Len(items) = n + 1 /\ items[n + 1] = new(low)
        /\ \A i \in 1 .. n : items[i] = closed[i]
    BY <2>4, <2>5, <2>6, AppendProperties
  <2>8. /\ items[n + 1].rank = rank /\ items[n + 1].image = image
        /\ items[n + 1].min = low /\ items[n + 1].max = Controller!NoLimit
    BY <1>2, <2>2, <2>7
  <2>9. \A i \in 1 .. n :
          /\ items[i].rank = metadata[i].rank /\ items[i].image = metadata[i].image
          /\ items[i].min = metadata[i].min
          /\ items[i].max = IF i = n THEN low ELSE metadata[i].max
    BY <2>3, <2>6, <2>7
  <2>10. \A i \in 1 .. n : metadata[i].rank \in Nat
    BY ItemsAreTyped
  <2>11. \A i, j \in 1 .. n : i < j => metadata[i].rank < metadata[j].rank
    BY DEF Chained
  <2>12. \A i \in 1 .. n :
           /\ metadata[i].min = IF i = 1 THEN Controller!NoLimit ELSE Between(metadata, i)
           /\ metadata[i].max = IF i = n THEN Controller!NoLimit ELSE Between(metadata, i + 1)
    BY DEF Chained
  <2>13. \A i \in 2 .. n : Between(items, i) = Between(metadata, i)
    <3> SUFFICES ASSUME NEW i \in 2 .. n PROVE Between(items, i) = Between(metadata, i)
      OBVIOUS
    <3>1. i \in 1 .. n /\ i - 1 \in 1 .. n
      BY <1>1
    <3> QED BY <2>9, <3>1 DEF Between
  <2>14. Between(items, n + 1) = low
    BY <1>1, <2>1, <2>8, <2>9 DEF Between, low
  <2>15. \A i, j \in 1 .. n + 1 : i < j => items[i].rank < items[j].rank
    <3> SUFFICES ASSUME NEW i \in 1 .. n + 1, NEW j \in 1 .. n + 1, i < j
                 PROVE  items[i].rank < items[j].rank
      OBVIOUS
    <3>1. i \in 1 .. n
      BY <1>1
    <3>2. CASE j = n + 1
      BY <2>8, <2>9, <3>1, <3>2
    <3>3. CASE j # n + 1
      <4>1. j \in 1 .. n
        BY <1>1, <3>3
      <4> QED BY <2>9, <2>11, <3>1, <4>1
    <3> QED BY <3>2, <3>3
  <2>16. ASSUME NEW i \in 1 .. n
         PROVE  /\ items[i].min = IF i = 1 THEN Controller!NoLimit ELSE Between(items, i)
                /\ items[i].max = Between(items, i + 1)
    <3>1. i # 1 => i \in 2 .. n
      BY <1>1
    <3>2. items[i].min = IF i = 1 THEN Controller!NoLimit ELSE Between(items, i)
      BY <2>9, <2>12, <2>13, <3>1
    <3>3. i # n => i + 1 \in 2 .. n
      BY <1>1
    <3>4. items[i].max = Between(items, i + 1)
      BY <2>9, <2>12, <2>13, <2>14, <3>3
    <3> QED BY <3>2, <3>4
  <2>17. ASSUME NEW i \in 1 .. n + 1
         PROVE  /\ items[i].min = IF i = 1 THEN Controller!NoLimit ELSE Between(items, i)
                /\ items[i].max = IF i = n + 1 THEN Controller!NoLimit
                                  ELSE Between(items, i + 1)
    <3>1. CASE i = n + 1
      <4>1. i # 1
        BY <1>1, <2>1, <3>1
      <4> QED BY <2>8, <2>14, <3>1, <4>1
    <3>2. CASE i # n + 1
      <4>1. i \in 1 .. n
        BY <1>1, <3>2
      <4> QED BY <2>16, <3>2, <4>1
    <3> QED BY <3>1, <3>2
  <2>18. Chained(items)
    BY <2>7, <2>15, <2>17 DEF Chained
  <2> QED BY <2>1, <2>7, <2>8, <2>9, <2>18
<1> QED BY <1>3, <1>4

\* Every step of _generate_legend_images keeps it.
LEMMA NextImages ==
  ASSUME Controller!ImagesAssumption, ImageInv, [Controller!Next]_(Controller!vars)
  PROVE  ImageInv'
<1> DEFINE n == Len(metadata)
<1>1. /\ Controller!TypeOK /\ Chained(metadata) /\ Chained(yaml) /\ RunFits /\ YamlFits
  BY DEF ImageInv
<1>2. /\ rank \in Controller!Ranks /\ rank \in Nat /\ Resolutions \in Nat \ {0}
      /\ Controller!Ranks \subseteq Nat
  BY <1>1 DEF Controller!TypeOK, Controller!Ranks, Controller!ImagesAssumption
<1>3. /\ n \in Nat
      /\ \A i \in 1 .. n :
           /\ metadata[i].rank \in Controller!Ranks /\ metadata[i].rank \in Nat
           /\ metadata[i].image \in Controller!Legends
  BY <1>1, ItemsAreTyped
<1>4. /\ Len(yaml) \in Nat
      /\ \A i \in 1 .. Len(yaml) : yaml[i].rank \in Controller!Ranks
  BY <1>1, ItemsAreTyped
<1>5. metadata = <<>> <=> n = 0
  BY <1>1 DEF Chained
<1>6. /\ files \in [Controller!Ranks ->
                     Controller!Legends \cup {Controller!NoFile, Controller!Empty}]
      /\ legendCache \in Storages
      /\ seen \in [Controller!Ranks -> Controller!Legends \cup {Controller!NoFile}]
      /\ previous \in Controller!Legends \cup {Controller!NoFile} /\ runs \in 0 .. MaxRuns
      /\ legendPc \in Controller!PC
  BY <1>1 DEF Controller!TypeOK
<1> USE DEF ImageInv, Controller!PC, Sending
<1>7. CASE Controller!Start
  <2> USE <1>7 DEF Controller!Start
  <2>1. metadata' = <<>> /\ Len(metadata') = 0 /\ Chained(metadata') /\ Chained(yaml')
    BY <1>1, EmptyIsChained
  <2>2. rank' = 1 /\ 1 \in Controller!Ranks
    BY <1>2 DEF Controller!Ranks
  <2>3. Controller!TypeOK'
    <3>1. runs' \in 0 .. MaxRuns
      BY <1>6 DEF Controller!ImagesAssumption
    <3>2. \A i \in DOMAIN metadata' : metadata'[i] \in Controller!Items
      BY <2>1
    <3>3. \A i \in DOMAIN yaml' : yaml'[i] \in Controller!Items
      BY <1>1 DEF Controller!TypeOK
    <3> QED BY <1>6, <2>2, <3>1, <3>2, <3>3 DEF Controller!TypeOK
  <2>4. RunFits'
    <3>1. \A r \in Controller!Ranks : ~(r < 1)
      BY DEF Controller!Ranks
    <3>2. \A i \in 1 .. Len(metadata') : FALSE
      BY <2>1
    <3> QED BY <2>1, <2>2, <3>1, <3>2 DEF RunFits
  <2>5. YamlFits'
    BY <1>1 DEF YamlFits
  <2> QED BY <2>1, <2>3, <2>4, <2>5
<1>8. CASE Controller!Get
  <2>1. PICK image \in Controller!Legends :
          /\ seen' = [seen EXCEPT ![rank] = image]
          /\ \/ image = previous /\ legendPc' = "yaml" /\ UNCHANGED <<previous, metadata>>
             \/ /\ image # previous /\ legendPc' = "image" /\ previous' = image
                /\ metadata' = Controller!WithItem(metadata, image)
    BY <1>8 DEF Controller!Get, Controller!SameImage
  <2>2. legendPc = "get" /\ UNCHANGED <<legendCache, rank, files, yaml, runs>>
    BY <1>8 DEF Controller!Get
  <2>3. /\ \A i \in 1 .. n : metadata[i].rank < rank
        /\ previous = IF metadata = <<>> THEN Controller!NoFile ELSE metadata[n].image
        /\ \A i \in 1 .. n : files[metadata[i].rank] = metadata[i].image
        /\ \A r \in Controller!Ranks : r < rank => Covered(metadata, r)
        /\ rank = 1 \/ \A i \in 1 .. Len(yaml) : yaml[i].rank < rank
    BY <1>1, <2>2 DEF RunFits, Running
  <2>4. /\ seen'[rank] = image
        /\ \A r \in Controller!Ranks : r < rank => seen'[r] = seen[r]
        /\ seen' \in [Controller!Ranks -> Controller!Legends \cup {Controller!NoFile}]
    BY <1>2, <1>6, <2>1
  <2>5. YamlFits' /\ Chained(yaml')
    BY <1>1, <2>2 DEF YamlFits
  <2>6. \A r \in Controller!Ranks :
          r < rank \/ r = rank <=> r <= rank
    BY <1>2
  <2>7. CASE image = previous /\ legendPc' = "yaml" /\ UNCHANGED <<previous, metadata>>
    <3>1. metadata # <<>> /\ image = metadata[n].image
      BY <2>3, <2>7 DEF Controller!ImagesAssumption
    <3>2. n \in 1 .. n
      BY <1>3, <1>5, <3>1
    <3>3. \A r \in Controller!Ranks : r < rank => Covered(metadata, r)'
      BY <2>3, <2>4, <2>7 DEF Covered
    <3>4. Covered(metadata, rank)'
      <4>1. metadata[n].rank <= rank
        BY <1>2, <1>3, <2>3, <3>2
      <4>2. metadata[n].image = seen'[rank]
        BY <2>4, <3>1
      <4> QED BY <2>2, <2>7, <3>2, <4>1, <4>2 DEF Covered
    <3>5. RunFits'
      <4>1. \A i \in 1 .. n : metadata[i].rank <= rank
        BY <1>2, <1>3, <2>3
      <4>2. \A r \in Controller!Ranks : r < rank \/ r = rank => Covered(metadata, r)'
        BY <2>2, <3>3, <3>4
      <4> QED BY <2>2, <2>3, <2>7, <4>1, <4>2 DEF RunFits
    <3>6. Controller!TypeOK'
      BY <1>1, <2>2, <2>4, <2>7 DEF Controller!TypeOK
    <3>7. Chained(metadata')
      BY <1>1, <2>7
    <3> QED BY <2>5, <3>5, <3>6, <3>7
  <2>8. CASE /\ image # previous /\ legendPc' = "image" /\ previous' = image
             /\ metadata' = Controller!WithItem(metadata, image)
    <3>1. /\ Chained(metadata') /\ Len(metadata') = n + 1 /\ metadata' # <<>>
          /\ metadata'[n + 1].rank = rank /\ metadata'[n + 1].image = image
          /\ \A i \in 1 .. n : metadata'[i].rank = metadata[i].rank
                               /\ metadata'[i].image = metadata[i].image
      <4>1. Controller!TypeOK /\ Chained(metadata) /\ n = Len(metadata)
            /\ \A i \in 1 .. Len(metadata) : metadata[i].rank < rank
        BY <1>1, <2>3
      <4> HIDE DEF n
      <4> QED BY <2>8, <4>1, WithItemChains
    <3>2. \A i \in DOMAIN metadata' : metadata'[i] \in Controller!Items
      BY <3>1, ItemsAreTyped
    <3>3. Controller!TypeOK'
      BY <1>1, <2>1, <2>2, <2>4, <2>8, <3>2 DEF Controller!TypeOK
    <3>4. ASSUME NEW r \in Controller!Ranks, r < rank PROVE Covered(metadata, r)'
      <4>1. PICK i \in 1 .. n : /\ metadata[i].rank <= r
                                /\ (i = n \/ metadata[i + 1].rank > r)
                                /\ metadata[i].image = seen[r]
        BY <2>3, <3>4 DEF Covered
      <4>2. i \in 1 .. n + 1 /\ metadata'[i].rank <= r /\ metadata'[i].image = seen'[r]
        BY <1>3, <2>4, <3>1, <3>4, <4>1
      <4>3. metadata'[i + 1].rank > r
        <5>1. CASE i = n
          BY <1>2, <3>1, <3>4, <5>1
        <5>2. CASE i # n
          <6>1. i + 1 \in 1 .. n
            BY <1>3, <5>2
          <6> QED BY <3>1, <4>1, <5>2, <6>1
        <5> QED BY <5>1, <5>2
      <4> QED BY <3>1, <4>2, <4>3 DEF Covered
    <3>5. Covered(metadata, rank)'
      <4>1. n + 1 \in 1 .. Len(metadata') /\ n + 1 = Len(metadata')
        BY <1>3, <3>1
      <4>2. metadata'[n + 1].rank <= rank /\ metadata'[n + 1].image = seen'[rank]
        BY <1>2, <2>4, <3>1
      <4> QED BY <2>2, <4>1, <4>2 DEF Covered
    <3>6. RunFits'
      <4>1. \A i \in 1 .. n + 1 : i \in 1 .. n \/ i = n + 1
        BY <1>3
      <4>2. \A i \in 1 .. n + 1 : metadata'[i].rank <= rank
        BY <1>2, <1>3, <2>3, <3>1, <4>1
      <4>3. \A i \in 1 .. n + 1 : i = n + 1 \/ files[metadata'[i].rank] = metadata'[i].image
        BY <2>3, <3>1, <4>1
      <4>4. \A r \in Controller!Ranks : r < rank \/ r = rank => Covered(metadata, r)'
        BY <2>2, <3>4, <3>5
      <4>5. rank' = 1 \/ \A i \in 1 .. Len(yaml') : yaml'[i].rank < rank'
        BY <2>2, <2>3
      <4>6. /\ metadata' # <<>> /\ metadata'[Len(metadata')].rank = rank'
            /\ previous' = metadata'[Len(metadata')].image
        BY <2>2, <2>8, <3>1
      <4>7. legendPc' = "image" /\ Len(metadata') = n + 1 /\ UNCHANGED <<rank, files>>
        BY <2>2, <2>8, <3>1
      <4> QED BY <4>2, <4>3, <4>4, <4>5, <4>6, <4>7 DEF RunFits
    <3> QED BY <2>5, <3>1, <3>3, <3>6
  <2> QED BY <2>1, <2>7, <2>8
<1>n. ASSUME Sending
      PROVE  /\ n \in 1 .. n /\ previous = metadata[n].image /\ previous \in Controller!Legends
             /\ metadata[n].rank = rank
             /\ \A i \in 1 .. n : metadata[i].rank <= rank
             /\ \A i \in 1 .. n :
                  i = n \/ (files[metadata[i].rank] = metadata[i].image /\ metadata[i].rank # rank)
             /\ \A r \in Controller!Ranks : r < rank \/ r = rank => Covered(metadata, r)
             /\ \A i \in 1 .. Len(yaml) : yaml[i].rank = rank => i = 1
  <2>1. /\ metadata # <<>> /\ metadata[n].rank = rank
        /\ \A i \in 1 .. n : metadata[i].rank <= rank
        /\ previous = metadata[n].image
        /\ \A i \in 1 .. n : i = n \/ files[metadata[i].rank] = metadata[i].image
        /\ \A r \in Controller!Ranks : r < rank \/ r = rank => Covered(metadata, r)
        /\ rank = 1 \/ \A i \in 1 .. Len(yaml) : yaml[i].rank < rank
    BY <1>n, <1>1 DEF RunFits, Running
  <2>2. n \in 1 .. n /\ previous \in Controller!Legends
    BY <1>3, <1>5, <2>1
  <2>3. ASSUME NEW i \in 1 .. n, i # n PROVE metadata[i].rank # rank
    <3>1. metadata[i].rank < metadata[n].rank
      BY <1>1, <1>3, <2>2, <2>3 DEF Chained
    <3> QED BY <1>3, <2>1, <3>1
  <2>4. ASSUME NEW i \in 1 .. Len(yaml), yaml[i].rank = rank PROVE i = 1
    <3>1. rank = 1
      BY <1>2, <2>1, <2>4
    <3>2. i # 1 => 1 \in 1 .. Len(yaml) /\ 1 < i
      BY <1>4
    <3>3. i # 1 => yaml[1].rank < 1 /\ yaml[1].rank \in Controller!Ranks
      BY <1>1, <1>4, <2>4, <3>1, <3>2 DEF Chained
    <3> QED BY <3>3 DEF Controller!Ranks
  <2> QED BY <2>1, <2>2, <2>3, <2>4
<1>9. CASE Controller!SendImage \/ Controller!EndImage
  <2>1. /\ Sending /\ legendPc' \in {"image_end", "yaml"}
        /\ \/ files' = [files EXCEPT ![rank] = previous]
           \/ /\ files' = [files EXCEPT ![rank] = Controller!Empty] /\ legendPc' = "image_end"
              /\ legendCache = "filesystem"
        /\ UNCHANGED <<legendCache, rank, previous, metadata, yaml, seen, runs>>
    BY <1>9 DEF Controller!SendImage, Controller!EndImage, Controller!First, Controller!Ended
  <2>2. /\ n \in 1 .. n /\ previous = metadata[n].image /\ previous \in Controller!Legends
        /\ metadata[n].rank = rank
        /\ \A i \in 1 .. n : metadata[i].rank <= rank
        /\ \A i \in 1 .. n :
                  i = n \/ (files[metadata[i].rank] = metadata[i].image /\ metadata[i].rank # rank)
        /\ \A r \in Controller!Ranks : r < rank \/ r = rank => Covered(metadata, r)
        /\ \A i \in 1 .. Len(yaml) : yaml[i].rank = rank => i = 1
    BY <1>n, <2>1
  <2>4. /\ files'[rank] \in {previous, Controller!Empty}
        /\ files'[rank] = Controller!Empty /\ files'[rank] # previous =>
             legendPc' = "image_end" /\ legendCache = "filesystem"
        /\ legendPc' = "yaml" => files'[rank] = previous
        /\ \A r \in Controller!Ranks : r # rank => files'[r] = files[r]
        /\ files' \in [Controller!Ranks ->
                        Controller!Legends \cup {Controller!NoFile, Controller!Empty}]
    BY <1>2, <1>6, <2>1, <2>2
  <2>5. \A i \in 1 .. n :
          (legendPc' = "image_end" /\ i = n) \/ files'[metadata[i].rank] = metadata[i].image
    BY <1>3, <2>1, <2>2, <2>4
  <2>6. RunFits'
    <3>1. \A r \in Controller!Ranks : Covered(metadata, r)' <=> Covered(metadata, r)
      BY <2>1 DEF Covered
    <3>2. /\ metadata # <<>> /\ previous = metadata[n].image
          /\ rank = 1 \/ \A i \in 1 .. Len(yaml) : yaml[i].rank < rank
      BY <1>1, <2>1 DEF RunFits, Running
    <3> QED BY <2>1, <2>2, <2>5, <3>1, <3>2 DEF RunFits
  <2>7. YamlFits'
    <3> SUFFICES ASSUME NEW i \in 1 .. Len(yaml)
                 PROVE  \/ files'[yaml[i].rank] \in Controller!Legends
                        \/ /\ files'[yaml[i].rank] = Controller!Empty /\ i = 1
                           /\ legendCache = "filesystem"
      BY <2>1 DEF YamlFits
    <3>1. CASE yaml[i].rank = rank
      BY <2>2, <2>4, <3>1
    <3>2. CASE yaml[i].rank # rank
      BY <1>1, <1>4, <2>4, <3>2 DEF YamlFits
    <3> QED BY <3>1, <3>2
  <2>8. Controller!TypeOK' /\ Chained(metadata') /\ Chained(yaml')
    BY <1>1, <2>1, <2>4 DEF Controller!TypeOK
  <2> QED BY <2>6, <2>7, <2>8
<1>10. CASE Controller!SendYaml \/ Controller!EndYaml
  <2>1. /\ legendPc \in {"yaml", "yaml_end"}
        /\ \/ /\ yaml' = metadata
              /\ \/ rank = Resolutions /\ legendPc' = "done" /\ rank' = rank
                 \/ rank # Resolutions /\ legendPc' = "get" /\ rank' = rank + 1
           \/ yaml' \in {<<>>, metadata} /\ legendPc' = "yaml_end" /\ rank' = rank
        /\ UNCHANGED <<legendCache, previous, metadata, files, seen, runs>>
    BY <1>10 DEF Controller!SendYaml, Controller!EndYaml, Controller!NextResolution,
         Controller!First, Controller!Ended
  <2>2. /\ \A i \in 1 .. n : metadata[i].rank <= rank
        /\ previous = IF metadata = <<>> THEN Controller!NoFile ELSE metadata[n].image
        /\ \A i \in 1 .. n : files[metadata[i].rank] = metadata[i].image
        /\ \A r \in Controller!Ranks : r < rank \/ r = rank => Covered(metadata, r)
    BY <1>1, <2>1 DEF RunFits, Running
  <2>3. /\ rank' \in Controller!Ranks /\ rank <= rank' /\ (legendPc' = "get" => rank < rank')
        /\ legendPc' \in {"get", "done", "yaml_end"} /\ yaml' \in {<<>>, metadata}
    BY <1>2, <2>1 DEF Controller!Ranks
  <2>4. Controller!TypeOK'
    <3>1. \A i \in DOMAIN yaml' : yaml'[i] \in Controller!Items
      BY <1>1, <2>3 DEF Controller!TypeOK
    <3> QED BY <1>1, <2>1, <2>3, <3>1 DEF Controller!TypeOK
  <2>5. Chained(metadata') /\ Chained(yaml')
    BY <1>1, <2>1, <2>3, EmptyIsChained
  <2>6. YamlFits'
    <3>1. CASE yaml' = metadata
      BY <1>3, <2>1, <2>2, <3>1 DEF YamlFits
    <3>2. CASE yaml' = <<>>
      BY <3>2 DEF YamlFits
    <3> QED BY <2>3, <3>1, <3>2
  <2>7. RunFits'
    <3>1. \A r \in Controller!Ranks : Covered(metadata, r)' <=> Covered(metadata, r)
      BY <2>1 DEF Covered
    <3>2. \A r \in Controller!Ranks :
            r < rank' \/ (r = rank' /\ legendPc' # "get") => r < rank \/ r = rank
      BY <1>2, <2>1
    <3>3. \A i \in 1 .. n :
            metadata[i].rank <= rank' /\ (legendPc' = "get" => metadata[i].rank < rank')
      BY <1>2, <1>3, <2>1, <2>2, <2>3
    <3>4. legendPc' = "get" => \A i \in 1 .. Len(yaml') : yaml'[i].rank < rank'
      BY <2>1, <3>3
    <3>5. legendPc' = "done" => yaml' = metadata' /\ rank' = Resolutions
      BY <2>1
    <3> QED BY <2>1, <2>2, <2>3, <3>1, <3>2, <3>3, <3>4, <3>5 DEF RunFits
  <2> QED BY <2>4, <2>5, <2>6, <2>7
<1>11. CASE Controller!Crash
  <2> USE <1>11 DEF Controller!Crash
  <2>1. Controller!TypeOK' /\ Chained(metadata') /\ Chained(yaml')
    BY <1>1 DEF Controller!TypeOK
  <2>2. RunFits' /\ YamlFits'
    BY <1>1 DEF RunFits, Running, YamlFits
  <2> QED BY <2>1, <2>2
<1>12. CASE UNCHANGED Controller!vars
  BY <1>1, <1>12 DEF Controller!vars, Controller!TypeOK, Chained, Between, RunFits, Running,
     Covered, YamlFits
<1> HIDE DEF Controller!PC, Sending
<1> QED
  BY <1>7, <1>8, <1>9, <1>10, <1>11, <1>12 DEF Controller!Next

\* What a run that ends leaves is what the server gave.
LEMMA ImagesCohere ==
  ASSUME Controller!ImagesAssumption, ImageInv
  PROVE  /\ Controller!TypeOK /\ Controller!ListedIsWritten
         /\ Controller!DoneIsCoherent /\ Controller!RangesMeet
<1>1. /\ Controller!TypeOK /\ Chained(yaml) /\ RunFits /\ YamlFits
  BY DEF ImageInv
<1>2. /\ Len(yaml) \in Nat /\ DOMAIN yaml = 1 .. Len(yaml)
      /\ \A i \in 1 .. Len(yaml) : yaml[i].rank \in Nat
  BY <1>1, ItemsAreTyped
<1>3. Controller!ListedIsWritten
  BY <1>1, <1>2 DEF YamlFits, Controller!ListedIsWritten, Controller!ImagesAssumption
<1>4. Controller!DoneIsCoherent
  <2>1. SUFFICES ASSUME legendPc = "done"
        PROVE /\ \A i \in DOMAIN yaml : files[yaml[i].rank] = yaml[i].image
              /\ \A r \in Controller!Ranks : \E i \in DOMAIN yaml :
                   /\ yaml[i].rank <= r /\ (i = Len(yaml) \/ yaml[i + 1].rank > r)
                   /\ files[yaml[i].rank] = seen[r]
    BY DEF Controller!DoneIsCoherent
  <2>2. /\ yaml = metadata /\ rank = Resolutions
        /\ \A i \in 1 .. Len(yaml) : files[yaml[i].rank] = yaml[i].image
        /\ \A r \in Controller!Ranks : r < rank \/ r = rank => Covered(yaml, r)
    BY <1>1, <2>1 DEF RunFits, Running, Sending
  <2>3. \A r \in Controller!Ranks : Covered(yaml, r)
    <3>1. \A r \in Controller!Ranks : r < Resolutions \/ r = Resolutions
      BY DEF Controller!Ranks, Controller!ImagesAssumption
    <3> QED BY <2>2, <3>1
  <2>4. ASSUME NEW r \in Controller!Ranks
        PROVE \E i \in DOMAIN yaml :
                /\ yaml[i].rank <= r /\ (i = Len(yaml) \/ yaml[i + 1].rank > r)
                /\ files[yaml[i].rank] = seen[r]
    <3>1. PICK i \in 1 .. Len(yaml) :
            /\ yaml[i].rank <= r /\ (i = Len(yaml) \/ yaml[i + 1].rank > r)
            /\ yaml[i].image = seen[r]
      BY <2>3, <2>4 DEF Covered
    <3>2. files[yaml[i].rank] = seen[r] /\ i \in DOMAIN yaml
      BY <1>2, <2>2, <3>1
    <3> QED BY <3>1, <3>2
  <2> QED BY <1>2, <2>2, <2>4
<1>5. Controller!RangesMeet
  <2>1. SUFFICES ASSUME NEW i \in 1 .. Len(yaml)
        PROVE /\ yaml[i].min = IF i = 1 THEN Controller!NoLimit ELSE yaml[i - 1].max
              /\ (yaml[i].max = Controller!NoLimit) <=> (i = Len(yaml))
              /\ yaml[i].max # Controller!NoLimit => yaml[i].min < yaml[i].max
    BY <1>2 DEF Controller!RangesMeet
  <2>2. /\ yaml[i].min = IF i = 1 THEN Controller!NoLimit ELSE Between(yaml, i)
        /\ yaml[i].max = IF i = Len(yaml) THEN Controller!NoLimit ELSE Between(yaml, i + 1)
    BY <1>1 DEF Chained
  <2>3. i # 1 => /\ i - 1 \in 1 .. Len(yaml) /\ Between(yaml, i) \in Nat
                 /\ yaml[i - 1].max = Between(yaml, i)
    <3>1. SUFFICES ASSUME i # 1 PROVE /\ i - 1 \in 1 .. Len(yaml) /\ Between(yaml, i) \in Nat
                                      /\ yaml[i - 1].max = Between(yaml, i)
      OBVIOUS
    <3>2. i - 1 \in 1 .. Len(yaml) /\ i - 1 # Len(yaml) /\ (i - 1) + 1 = i
      BY <1>2, <3>1
    <3>3. yaml[i - 1].max = Between(yaml, (i - 1) + 1)
      BY <1>1, <3>2 DEF Chained
    <3>4. Between(yaml, i) \in Nat
      BY <1>2, <3>2 DEF Between
    <3> QED BY <3>2, <3>3, <3>4
  <2>4. i # Len(yaml) => i + 1 \in 1 .. Len(yaml) /\ Between(yaml, i + 1) \in Nat
    <3>1. SUFFICES ASSUME i # Len(yaml)
                   PROVE  i + 1 \in 1 .. Len(yaml) /\ Between(yaml, i + 1) \in Nat
      OBVIOUS
    <3>2. Len(yaml) \in Nat /\ \A j \in 1 .. Len(yaml) : yaml[j].rank \in Nat
      BY <1>2
    <3>3. i + 1 \in 1 .. Len(yaml) /\ (i + 1) - 1 = i
      BY <3>1, <3>2
    <3> QED BY <3>2, <3>3 DEF Between
  <2>5. i # 1 /\ i # Len(yaml) => Between(yaml, i) < Between(yaml, i + 1)
    <3>1. SUFFICES ASSUME i # 1, i # Len(yaml)
                   PROVE  Between(yaml, i) < Between(yaml, i + 1)
      OBVIOUS
    <3>2. /\ i - 1 \in 1 .. Len(yaml) /\ i + 1 \in 1 .. Len(yaml) /\ i - 1 < i + 1
          /\ (i + 1) - 1 = i
      <4>1. Len(yaml) \in Nat /\ i \in 1 .. Len(yaml)
        BY <1>2
      <4> QED BY <3>1, <4>1
    <3>3. yaml[i - 1].rank < yaml[i + 1].rank
      BY <1>1, <3>2 DEF Chained
    <3> QED BY <1>2, <3>2, <3>3 DEF Between
  <2> QED BY <2>2, <2>3, <2>4, <2>5 DEF Controller!NoLimit
<1> QED BY <1>1, <1>3, <1>4, <1>5

\* LegendsAreCoherent, the legends of generate-controller, for any number of resolutions, of
\* layers and of interrupted runs.
THEOREM LegendsStayCoherent == CommandsSpec => []LegendsAreCoherent
<1>1. CommandsInit => ImageInv
  BY InitImages, ControllerAssumption DEF CommandsInit
<1>2. ImageInv /\ [CommandsNext]_commandsVars => ImageInv'
  <2>1. [CommandsNext]_commandsVars => [Controller!Next]_(Controller!vars)
    BY DEF CommandsNext, GenerationStep, ControllerStep, TileStep, PyramidStep, CheckStep,
       commandsVars, legendVars, Controller!vars
  <2> QED BY <2>1, NextImages, ControllerAssumption
<1>3. ImageInv => LegendsAreCoherent
  BY ImagesCohere, ControllerAssumption DEF LegendsAreCoherent
<1> QED
  BY <1>1, <1>2, <1>3, PTL DEF CommandsSpec

-----------------------------------------------------------------------------
(* The command: what is kept.                                              *)

AllLayers == Generation!NameSet \cup {Generation!All}
AskedLayers == Generation!LayersOf(command)
LastAsked == AskedLayers[Len(AskedLayers)]

\* No layer is twice among the default ones, which the configuration may well say.
NoLayerTwice == \A i, j \in 1 .. Len(Layers) : Layers[i] = Layers[j] => i = j

GenTyped == Generation!TypeOK /\ todo \in Seq(AllLayers)

\* The layers still to do are the last ones of the command; what --tiles does is not of a
\* layer.
TodoFits ==
  /\ pc = "parse" =>
       /\ todo = <<>> /\ zoom = command.zoom /\ stream = {} /\ made = {}
       /\ \A l \in AllLayers : real[l] = Generation!Zero /\ told[l] = Generation!Zero
  /\ pc = "work" => todo # <<>>
  /\ pc \in {"next", "work"} =>
       /\ \A i, j \in 1 .. Len(todo) : todo[i] = todo[j] => i = j
       /\ todo # <<>> => todo[Len(todo)] = LastAsked /\ AskedLayers # <<>>
       /\ Generation!All \in {todo[i] : i \in 1 .. Len(todo)} => command.tiles
       /\ Len(todo) <= Len(AskedLayers)

\* The zooms of the option, or some of them.
ZoomFits(z) ==
  \/ z = Generation!NoZoom /\ command.zoom = Generation!NoZoom
  \/ z \in SUBSET Nat /\ (command.zoom # Generation!NoZoom => z \subseteq command.zoom)

\* What the command asks for.
Asked(m) ==
  \/ m \in FileTiles /\ command.tiles
  \/ command.tile
  \/ m[3] \in Generation!Wanted(m[1], m[2])
MadeFits == ZoomFits(zoom) /\ \A m \in made \cup stream : Asked(m)

\* Nothing is done of the layers to do, but for the first one when it is at work, whose
\* numbers are the counters.
NumbersFit ==
  /\ pc \in {"next", "work"} => \A i \in 1 .. Len(todo) :
       /\ told[todo[i]] = Generation!Zero
       /\ (pc = "work" /\ i = 1) \/ real[todo[i]] = Generation!Zero
  /\ pc = "work" =>
       /\ count.tiles = real[Generation!Layer].tiles
       /\ count.dropped = real[Generation!Layer].dropped
       /\ count.stored >= real[Generation!Layer].stored
       /\ role # "master" => count.meta = real[Generation!Layer].meta

\* The errors of the last layer are not forgotten.
ErrorsFit ==
  /\ pc = "work" => real[Generation!Layer].errors = 0 \/ error # 0 \/ runError # 0
  /\ pc = "next" /\ todo = <<>> /\ AskedLayers # <<>> =>
       real[LastAsked].errors = 0 \/ error # 0

\* With --test, what is left is what the layer has not taken.
TestFits ==
  (command.test > 0 /\ command.time = 0) =>
    /\ pc = "work" => left = command.test - real[Generation!Layer].meta /\ left \in Nat
    /\ \A l \in Generation!NameSet :
         \/ pc = "work" /\ l = Generation!Layer
         \/ exit = 1
         \/ real[l].meta \in {0, command.test}

\* A command for one layer and one grid: what is asked for is made, is to be made, or has
\* failed.
OneLayer ==
  /\ Generation!Ordinary /\ command.layer # Generation!None
  /\ Len(Generation!GridsFor(command.layer)) = 1
Target ==
  {<<command.layer, Generation!GridsFor(command.layer)[1], z>> :
     z \in Generation!Wanted(command.layer, Generation!GridsFor(command.layer)[1])}
DoneFits ==
  OneLayer =>
    /\ pc = "next" /\ todo # <<>> => zoom = command.zoom
    /\ pc = "next" /\ todo = <<>> /\ error = 0 => Target \subseteq made
    /\ pc = "work" => /\ left = -1
                      /\ error = 0 /\ runError = 0 => Target \subseteq made \cup stream
    /\ exit = 0 => Target \subseteq made

GenInv ==
  /\ GenTyped /\ TodoFits /\ MadeFits /\ NumbersFit /\ ErrorsFit /\ TestFits /\ DoneFits
  /\ Generation!NumbersAreOfTheLayer /\ Generation!ErrorsExitOne

-----------------------------------------------------------------------------

\* A set of numbers that has 0, and n + 1 with n, has them all.
LEMMA NatSetInduction ==
  ASSUME NEW S, 0 \in S, \A n \in Nat : n \in S => n + 1 \in S
  PROVE  Nat \subseteq S
<1> DEFINE T == Nat \ S
<1> SUFFICES ASSUME T # {} PROVE FALSE
  OBVIOUS
<1>1. PICK m \in T : \A k \in T : ~(<<k, m>> \in OpToRel(<, Nat))
  <2>1. IsWellFoundedOn(OpToRel(<, Nat), Nat)
    BY NatLessThanWellFounded
  <2>2. T \subseteq Nat
    OBVIOUS
  <2> QED BY <2>1, <2>2, WFMin, Zenon
<1>2. m \in Nat \ {0} /\ m - 1 \in Nat /\ m - 1 < m
  OBVIOUS
<1>3. m - 1 \notin T
  BY <1>1, <1>2 DEF OpToRel
<1> QED BY <1>2, <1>3

\* The grids of a layer are grids.
LEMMA GridsAreTyped ==
  ASSUME Generation!CommandAssumption, command \in CommandLines, NEW l \in Generation!LayerSet
  PROVE  Generation!GridsFor(l) \in Seq(Generation!GridSet)
<1>1. /\ GridsOf[l] \in Seq(Generation!GridSet)
      /\ command.grid \in Generation!GridSet \cup {Generation!None}
  BY DEF Generation!CommandAssumption
<1>2. CASE command.grid = Generation!None
  BY <1>1, <1>2 DEF Generation!GridsFor
<1>3. CASE command.grid # Generation!None
  BY <1>1, <1>3 DEF Generation!GridsFor
<1> QED BY <1>2, <1>3

\* options.zoom after each grid is what that grid makes of the one before.
LEMMA ZoomsFollow ==
  ASSUME NEW l, NEW grids, grids = Generation!GridsFor(l), Len(grids) \in Nat,
         NEW after, after = Generation!ZoomsAfter(l)
  PROVE  after = [i \in 0 .. Len(grids) |->
                    IF i = 0 THEN zoom ELSE Generation!ResolveZooms(l, grids[i], after[i - 1])]
<1> DEFINE L == Len(grids)
           R(i, z) == Generation!ResolveZooms(l, grids[i], z)
           Def(f, n) == \A i \in 0 .. n : f[i] = IF i = 0 THEN zoom ELSE R(i, f[i - 1])
           S == {n \in Nat : \E f : Def(f, n)}
           Is(k) == k = [i \in 0 .. L |-> IF i = 0 THEN zoom ELSE R(i, k[i - 1])]
<1>1. after = CHOOSE k : Is(k)
  BY DEF Generation!ZoomsAfter
<1> HIDE DEF R
<1>2. 0 \in S
  <2>1. Def([i \in {0} |-> zoom], 0)
    OBVIOUS
  <2> QED BY <2>1
<1>3. ASSUME NEW n \in Nat, n \in S PROVE n + 1 \in S
  <2>1. PICK f : Def(f, n)
    BY <1>3
  <2> DEFINE g == [i \in 0 .. n + 1 |-> IF i = n + 1 THEN R(i, f[n]) ELSE f[i]]
  <2>2. Def(g, n + 1)
    BY <2>1
  <2> HIDE DEF Def
  <2> QED BY <2>2
<1> HIDE DEF S
<1>4. L \in S
  BY <1>2, <1>3, NatSetInduction
<1>5. PICK f : Def(f, L)
  BY <1>4 DEF S
<1> DEFINE h == [i \in 0 .. L |-> f[i]]
<1>6. Is(h)
  BY <1>5
<1> HIDE DEF h, Is
<1>7. Is(after)
  BY <1>1, <1>6
<1> QED BY <1>7 DEF Is, R

\* What a grid makes of the zooms is wanted of it, and keeps to those of the option.
LEMMA ResolvedIsWanted ==
  ASSUME Generation!CommandAssumption, command \in CommandLines,
         NEW l \in Generation!LayerSet, NEW g \in Generation!GridSet, NEW z, ZoomFits(z),
         NEW resolved, resolved = Generation!ResolveZooms(l, g, z)
  PROVE  ZoomFits(resolved) /\ resolved \subseteq Generation!Wanted(l, g)
<1>1. LastZoom[g] \in Nat /\ SeedZoom[l] \in Nat \cup {Generation!NoSeed}
      /\ Generation!NoSeed = -1 /\ Generation!NoZoom = {-1}
  BY DEF Generation!CommandAssumption, Generation!NoSeed, Generation!NoZoom
<1> DEFINE timed == Generation!TimeZoom(l, g, z)
           some == Generation!InGrid(g, timed)
           all == IF some = Generation!NoZoom THEN 0 .. LastZoom[g] ELSE some
<1>2. ZoomFits(timed)
  BY <1>1 DEF ZoomFits, Generation!TimeZoom
<1> HIDE DEF timed
<1>3. /\ all \subseteq 0 .. LastZoom[g]
      /\ command.zoom # Generation!NoZoom => all \subseteq command.zoom
  <2>1. CASE timed = Generation!NoZoom
    BY <1>1, <1>2, <2>1 DEF ZoomFits, Generation!InGrid
  <2>2. CASE timed # Generation!NoZoom
    <3>1. /\ timed \subseteq Nat
          /\ command.zoom # Generation!NoZoom => timed \subseteq command.zoom
          /\ some = {n \in timed : n <= LastZoom[g]}
      BY <1>2, <2>2 DEF ZoomFits, Generation!InGrid
    <3>2. some # Generation!NoZoom
      BY <1>1, <3>1
    <3>3. all = some
      BY <3>2
    <3> HIDE DEF all, some
    <3>4. all \subseteq timed /\ \A n \in all : n \in Nat /\ n <= LastZoom[g]
      BY <3>1, <3>3
    <3>5. all \subseteq 0 .. LastZoom[g]
      BY <1>1, <3>4
    <3> QED BY <3>1, <3>4, <3>5
  <2> QED BY <2>1, <2>2
<1>4. resolved = Generation!ToSeed(l, all)
  BY DEF Generation!ResolveZooms, timed
<1> HIDE DEF all
<1>5. /\ resolved \subseteq all
      /\ SeedZoom[l] # Generation!NoSeed => \A n \in resolved : n <= SeedZoom[l]
  BY <1>4 DEF Generation!ToSeed
<1>6. resolved \subseteq Generation!Wanted(l, g)
  BY <1>3, <1>5 DEF Generation!Wanted
<1>7. \A n \in resolved : n \in Nat
  BY <1>1, <1>3, <1>5
<1> QED BY <1>3, <1>5, <1>6, <1>7 DEF ZoomFits

\* With the zooms of the option, and all the time there is, nothing is left out.
LEMMA WantedIsResolved ==
  ASSUME Generation!CommandAssumption, command \in CommandLines, command.time = 0,
         NEW l \in Generation!LayerSet, NEW g \in Generation!GridSet
  PROVE  Generation!Wanted(l, g) \subseteq Generation!ResolveZooms(l, g, command.zoom)
<1>1. LastZoom[g] \in Nat
  BY DEF Generation!CommandAssumption
<1> DEFINE some == Generation!InGrid(g, command.zoom)
           all == IF some = Generation!NoZoom THEN 0 .. LastZoom[g] ELSE some
<1>2. Generation!ResolveZooms(l, g, command.zoom) = Generation!ToSeed(l, all)
  BY DEF Generation!ResolveZooms, Generation!TimeZoom
<1>3. Generation!Wanted(l, g) \subseteq all
  BY <1>1 DEF Generation!Wanted, Generation!InGrid
<1> HIDE DEF all
<1> QED BY <1>2, <1>3 DEF Generation!ToSeed, Generation!Wanted

\* The zooms of the grids of a layer follow each other and are those asked for, or fewer.
LEMMA ZoomsAreWanted ==
  ASSUME Generation!CommandAssumption, command \in CommandLines, ZoomFits(zoom),
         NEW l \in Generation!LayerSet, NEW grids, grids = Generation!GridsFor(l),
         NEW after, after = Generation!ZoomsAfter(l)
  PROVE  /\ grids \in Seq(Generation!GridSet)
         /\ after[0] = zoom
         /\ \A i \in 0 .. Len(grids) : ZoomFits(after[i])
         /\ \A i \in 1 .. Len(grids) :
              /\ after[i] = Generation!ResolveZooms(l, grids[i], after[i - 1])
              /\ after[i] \subseteq Generation!Wanted(l, grids[i])
<1>1. grids \in Seq(Generation!GridSet) /\ Len(grids) \in Nat
      /\ \A i \in 1 .. Len(grids) : grids[i] \in Generation!GridSet
  BY GridsAreTyped
<1>2. after = [i \in 0 .. Len(grids) |->
                 IF i = 0 THEN zoom ELSE Generation!ResolveZooms(l, grids[i], after[i - 1])]
  BY <1>1, ZoomsFollow
<1>3. /\ after[0] = zoom
      /\ \A i \in 1 .. Len(grids) :
           after[i] = Generation!ResolveZooms(l, grids[i], after[i - 1])
  BY <1>1, <1>2
<1> DEFINE S == {n \in Nat : n <= Len(grids) => ZoomFits(after[n])}
<1>4. 0 \in S
  BY <1>3
<1>5. ASSUME NEW n \in Nat, n \in S PROVE n + 1 \in S
  <2>1. SUFFICES ASSUME n + 1 <= Len(grids) PROVE ZoomFits(after[n + 1])
    OBVIOUS
  <2>2. n + 1 \in 1 .. Len(grids) /\ n <= Len(grids) /\ (n + 1) - 1 = n
    BY <1>1, <2>1
  <2>3. after[n + 1] = Generation!ResolveZooms(l, grids[n + 1], after[n])
    BY <1>3, <2>2
  <2>4. ZoomFits(after[n]) /\ grids[n + 1] \in Generation!GridSet
    BY <1>1, <1>5, <2>2
  <2> QED BY <2>3, <2>4, ResolvedIsWanted
<1> HIDE DEF S
<1>6. Nat \subseteq S
  BY <1>4, <1>5, NatSetInduction
<1>7. \A i \in 0 .. Len(grids) : ZoomFits(after[i])
  BY <1>1, <1>6 DEF S
<1>8. ASSUME NEW i \in 1 .. Len(grids)
      PROVE  after[i] \subseteq Generation!Wanted(l, grids[i])
  <2>1. i - 1 \in 0 .. Len(grids)
    BY <1>1
  <2>2. ZoomFits(after[i - 1]) /\ grids[i] \in Generation!GridSet
    BY <1>1, <1>7, <2>1
  <2> QED BY <1>3, <2>2, ResolvedIsWanted
<1> QED BY <1>1, <1>3, <1>7, <1>8

-----------------------------------------------------------------------------
(* What the steps do.                                                      *)

\* The first layer to do is a layer, or what --tiles names.
LEMMA HeadIsLayer ==
  ASSUME GenTyped, todo # <<>>
  PROVE  /\ Len(todo) \in Nat \ {0} /\ 1 \in 1 .. Len(todo)
         /\ Generation!Layer = todo[1] /\ Generation!Layer \in AllLayers
         /\ Tail(todo) \in Seq(AllLayers) /\ Len(Tail(todo)) = Len(todo) - 1
         /\ \A i \in 1 .. Len(todo) - 1 : Tail(todo)[i] = todo[i + 1] /\ i + 1 \in 1 .. Len(todo)
BY HeadTailProperties DEF GenTyped, Generation!Layer

\* The layers of a command are layers, each once, and the one it names if it names one.
LEMMA AskedAreLayers ==
  ASSUME Generation!CommandAssumption, command \in CommandLines
  PROVE  /\ AskedLayers \in Seq(AllLayers)
         /\ Generation!All \in {AskedLayers[i] : i \in 1 .. Len(AskedLayers)} => command.tiles
         /\ NoLayerTwice =>
              \A i, j \in 1 .. Len(AskedLayers) : AskedLayers[i] = AskedLayers[j] => i = j
         /\ ~command.tiles /\ command.layer # Generation!None => AskedLayers = <<command.layer>>
<1>1. /\ Layers \in Seq(Generation!NameSet) /\ Generation!All \notin Generation!NameSet
      /\ command.layer \in Generation!NameSet \cup {Generation!None}
  BY DEF Generation!CommandAssumption, Generation!NameSet
<1>2. CASE command.tiles
  <2>1. AskedLayers = <<Generation!All>>
    BY <1>2 DEF AskedLayers, Generation!LayersOf
  <2> QED BY <1>2, <2>1 DEF AllLayers
<1>3. CASE ~command.tiles /\ command.layer # Generation!None
  <2>1. AskedLayers = <<command.layer>>
    BY <1>3 DEF AskedLayers, Generation!LayersOf
  <2> QED BY <1>1, <1>3, <2>1 DEF AllLayers
<1>4. CASE ~command.tiles /\ command.layer = Generation!None /\ command.config
  <2>1. AskedLayers = Layers
    BY <1>4 DEF AskedLayers, Generation!LayersOf
  <2>2. Layers \in Seq(AllLayers) /\ \A i \in 1 .. Len(Layers) : Layers[i] # Generation!All
    BY <1>1 DEF AllLayers
  <2> QED BY <1>4, <2>1, <2>2 DEF NoLayerTwice
<1>5. CASE ~command.tiles /\ command.layer = Generation!None /\ ~command.config
  <2>1. AskedLayers = <<>>
    BY <1>5 DEF AskedLayers, Generation!LayersOf
  <2> QED BY <1>5, <2>1
<1> QED BY <1>2, <1>3, <1>4, <1>5

\* A layer begins with what is asked of it, all of it when nothing limits it; or the
\* command ends.
LEMMA BeginIs ==
  ASSUME Generation!CommandAssumption, GenTyped, TodoFits, ZoomFits(zoom), DoneFits,
         Generation!BeginLayer
  PROVE  /\ pc = "next" /\ todo # <<>> /\ count' = Generation!Zero
         /\ error' = 0 /\ runError' = 0 /\ ZoomFits(zoom')
         /\ UNCHANGED <<command, role, todo, tileError, told, made, real>>
         /\ \/ /\ pc' = "end" /\ (exit' = 1 \/ (exit' = 0 /\ command.bbox))
               /\ UNCHANGED <<stream, left>>
            \/ /\ pc' = "work" /\ exit' = exit /\ left' = Generation!Taken
               /\ stream' \subseteq Generation!MetaTiles /\ \A m \in stream' : Asked(m)
               /\ OneLayer => Target \subseteq stream'
<1> DEFINE l == Head(todo)
<1>1. /\ pc = "next" /\ todo # <<>> /\ count' = Generation!Zero
      /\ error' = 0 /\ runError' = 0
      /\ UNCHANGED <<command, role, todo, tileError, told, made, real>>
  BY DEF Generation!BeginLayer, Generation!Fresh
<1>2. /\ command \in CommandLines /\ l \in AllLayers /\ l = todo[1]
      /\ l = Generation!All => command.tiles
  <2>1. l = todo[1] /\ l \in AllLayers /\ 1 \in 1 .. Len(todo)
    BY <1>1, HeadIsLayer DEF Generation!Layer
  <2>2. Generation!All \in {todo[i] : i \in 1 .. Len(todo)} => command.tiles
    BY <1>1 DEF TodoFits
  <2>3. command \in CommandLines
    BY DEF GenTyped, Generation!TypeOK
  <2> QED BY <2>1, <2>2, <2>3
<1>3. OneLayer => l = command.layer /\ ~command.tiles /\ ~command.tile /\ ~command.bbox
                  /\ command.time = 0 /\ zoom = command.zoom
  <2>1. SUFFICES ASSUME OneLayer PROVE l = command.layer /\ zoom = command.zoom
    BY DEF OneLayer, Generation!Ordinary
  <2>2. AskedLayers = <<command.layer>>
    BY <1>2, <2>1, AskedAreLayers DEF OneLayer, Generation!Ordinary
  <2>3. Len(todo) <= Len(AskedLayers) /\ todo[Len(todo)] = LastAsked
    BY <1>1 DEF TodoFits
  <2>4. Len(todo) = 1 /\ todo[1] = command.layer
    BY <1>1, <2>2, <2>3, HeadIsLayer DEF LastAsked
  <2>5. zoom = command.zoom
    BY <1>1, <2>1 DEF DoneFits
  <2> QED BY <1>2, <2>4, <2>5
<1>4. CASE l = Generation!All /\ Generation!BeginWork(FileTiles) /\ UNCHANGED zoom
  <2>1. /\ pc' = "work" /\ exit' = exit /\ left' = Generation!Taken /\ stream' = FileTiles
    BY <1>4 DEF Generation!BeginWork
  <2>2. \A m \in stream' : Asked(m)
    BY <1>2, <1>4, <2>1 DEF Asked
  <2>3. stream' \subseteq Generation!MetaTiles /\ ~OneLayer /\ ZoomFits(zoom')
    BY <1>2, <1>3, <1>4, <2>1 DEF Generation!MetaTiles
  <2> QED BY <1>1, <2>1, <2>2, <2>3
<1>5. CASE /\ l \in Generation!LayerSet /\ (command.bbox \/ command.tile) /\ UNCHANGED zoom
           /\ IF ~Generation!OneGrid(l) THEN Generation!Exit(1) /\ UNCHANGED <<stream, left>>
              ELSE IF command.bbox THEN Generation!Exit(0) /\ UNCHANGED <<stream, left>>
              ELSE Generation!BeginWork({<<l, Generation!TheGrid(l), 0>>})
  <2>1. ~OneLayer /\ ZoomFits(zoom')
    BY <1>3, <1>5
  <2>2. CASE ~Generation!OneGrid(l) \/ command.bbox
    BY <1>1, <1>5, <2>1, <2>2 DEF Generation!Exit
  <2>3. CASE Generation!OneGrid(l) /\ ~command.bbox
    <3>1. /\ pc' = "work" /\ exit' = exit /\ left' = Generation!Taken
          /\ stream' = {<<l, Generation!TheGrid(l), 0>>} /\ command.tile
      BY <1>5, <2>3 DEF Generation!BeginWork
    <3>2. l \in Generation!LayerSet
      BY <1>5
    <3>3. /\ GridsOf[l] \in Seq(Generation!GridSet)
          /\ command.grid \in Generation!GridSet \cup {Generation!None}
      BY <1>2, <3>2 DEF Generation!CommandAssumption
    <3>4. Generation!TheGrid(l) \in Generation!GridSet
      BY <2>3, <3>3 DEF Generation!TheGrid, Generation!OneGrid
    <3>5. LastZoom[Generation!TheGrid(l)] \in Nat
      BY <3>4 DEF Generation!CommandAssumption
    <3> HIDE DEF l
    <3>6. <<l, Generation!TheGrid(l), 0>> \in Generation!MetaTiles
      BY <3>2, <3>4, <3>5 DEF Generation!MetaTiles
    <3> QED BY <1>1, <2>1, <3>1, <3>6 DEF Asked
  <2> QED BY <2>2, <2>3
<1>6. CASE /\ l \in Generation!LayerSet /\ ~command.bbox /\ ~command.tile
           /\ LET grids == Generation!GridsFor(l)
                  zs == Generation!ZoomsAfter(l)
              IN IF command.grid # Generation!None /\ grids = <<>>
                 THEN Generation!Exit(1) /\ UNCHANGED <<zoom, stream, left>>
                 ELSE /\ zoom' = zs[Len(grids)]
                      /\ Generation!BeginWork(
                           UNION {{<<l, grids[i], z>> : z \in zs[i]} :
                                    i \in Generation!LastOnes(grids)})
  <2>1. PICK grids, zs : grids = Generation!GridsFor(l) /\ zs = Generation!ZoomsAfter(l)
    OBVIOUS
  <2>2. CASE command.grid # Generation!None /\ grids = <<>>
    BY <1>1, <1>6, <2>1, <2>2 DEF Generation!Exit
  <2>3. CASE ~(command.grid # Generation!None /\ grids = <<>>)
    <3>1. /\ pc' = "work" /\ exit' = exit /\ left' = Generation!Taken
          /\ zoom' = zs[Len(grids)]
          /\ stream' = UNION {{<<l, grids[i], z>> : z \in zs[i]} :
                                i \in Generation!LastOnes(grids)}
      BY <1>6, <2>1, <2>3 DEF Generation!BeginWork
    <3>2. l \in Generation!LayerSet
      BY <1>6
    <3>3. /\ grids \in Seq(Generation!GridSet) /\ zs[0] = zoom
          /\ \A i \in 0 .. Len(grids) : ZoomFits(zs[i])
          /\ \A i \in 1 .. Len(grids) :
               /\ zs[i] = Generation!ResolveZooms(l, grids[i], zs[i - 1])
               /\ zs[i] \subseteq Generation!Wanted(l, grids[i])
      BY <1>2, <2>1, <3>2, ZoomsAreWanted
    <3>4. ZoomFits(zoom')
      BY <3>1, <3>3
    <3> HIDE DEF l
    <3>5. Generation!LastOnes(grids) \subseteq 1 .. Len(grids)
      BY <3>3 DEF Generation!LastOnes
    <3>6. ASSUME NEW m \in stream' PROVE m \in Generation!MetaTiles /\ Asked(m)
      <4>1. PICK i \in 1 .. Len(grids) : \E z \in zs[i] : m = <<l, grids[i], z>>
        BY <3>1, <3>5
      <4>2. PICK z \in Generation!Wanted(l, grids[i]) : m = <<l, grids[i], z>>
        BY <3>3, <4>1
      <4>3. Asked(m)
        BY <4>2 DEF Asked
      <4>4. grids[i] \in Generation!GridSet /\ z \in 0 .. LastZoom[grids[i]]
        BY <3>3, <4>2 DEF Generation!Wanted
      <4>5. m \in Generation!MetaTiles
        BY <3>2, <4>2, <4>4 DEF Generation!MetaTiles
      <4> QED BY <4>3, <4>5
    <3>7. ASSUME OneLayer PROVE Target \subseteq stream'
      <4>1. l = command.layer /\ Len(grids) = 1 /\ zs[0] = command.zoom /\ command.time = 0
        BY <1>3, <2>1, <3>3, <3>7 DEF OneLayer, l
      <4>2. 1 \in Generation!LastOnes(grids) /\ grids[1] \in Generation!GridSet
        <5>1. DOMAIN grids = 1 .. 1 /\ 1 \in 1 .. Len(grids)
          BY <3>3, <4>1
        <5>2. 1 \in DOMAIN grids /\ \A j \in DOMAIN grids : j <= 1
          BY <5>1
        <5>3. 1 \in Generation!LastOnes(grids)
          BY <5>2, Zenon DEF Generation!LastOnes
        <5>4. grids[1] \in Generation!GridSet
          BY <3>3, <5>1
        <5> QED BY <5>3, <5>4
      <4>3. Generation!Wanted(l, grids[1]) \subseteq zs[1]
        BY <1>2, <3>2, <3>3, <4>1, <4>2, WantedIsResolved
      <4>4. Target = {<<l, grids[1], z>> : z \in Generation!Wanted(l, grids[1])}
        BY <2>1, <4>1 DEF Target, l
      <4> QED BY <3>1, <4>2, <4>3, <4>4
    <3> QED BY <1>1, <3>1, <3>4, <3>6, <3>7
  <2> QED BY <2>2, <2>3
<1>7. CASE /\ l \notin Generation!LayerSet \cup {Generation!All}
           /\ Generation!Exit(1) /\ UNCHANGED <<zoom, stream, left>>
  BY <1>1, <1>7 DEF Generation!Exit
<1>8. \/ l = Generation!All /\ Generation!BeginWork(FileTiles) /\ UNCHANGED zoom
      \/ /\ l \notin Generation!LayerSet \cup {Generation!All}
         /\ Generation!Exit(1) /\ UNCHANGED <<zoom, stream, left>>
      \/ /\ l \in Generation!LayerSet /\ (command.bbox \/ command.tile) /\ UNCHANGED zoom
         /\ IF ~Generation!OneGrid(l) THEN Generation!Exit(1) /\ UNCHANGED <<stream, left>>
            ELSE IF command.bbox THEN Generation!Exit(0) /\ UNCHANGED <<stream, left>>
            ELSE Generation!BeginWork({<<l, Generation!TheGrid(l), 0>>})
      \/ /\ l \in Generation!LayerSet /\ ~command.bbox /\ ~command.tile
         /\ LET grids == Generation!GridsFor(l)
                zs == Generation!ZoomsAfter(l)
            IN IF command.grid # Generation!None /\ grids = <<>>
               THEN Generation!Exit(1) /\ UNCHANGED <<zoom, stream, left>>
               ELSE /\ zoom' = zs[Len(grids)]
                    /\ Generation!BeginWork(
                         UNION {{<<l, grids[i], z>> : z \in zs[i]} :
                                  i \in Generation!LastOnes(grids)})
  BY Zenon DEF Generation!BeginLayer
<1> QED BY <1>4, <1>5, <1>6, <1>7, <1>8, Zenon

\* The counters and what happened to the tiles, before and after a meta tile.
Follows(c, d, r, s, m) ==
  /\ d \in Generation!Counts /\ s \in Generation!Counts
  /\ s.meta = r.meta + 1
  /\ c.tiles = r.tiles => d.tiles = s.tiles
  /\ c.dropped = r.dropped => d.dropped = s.dropped
  /\ c.stored >= r.stored => d.stored >= s.stored
  /\ m # "master" /\ c.meta = r.meta => d.meta = s.meta

\* How a meta tile changes the counts.
LEMMA OneMore ==
  ASSUME NEW c \in Generation!Counts
  PROVE  LET once == [c EXCEPT !.meta = @ + 1] IN
         /\ [once EXCEPT !.tiles = @ + 1] =
              [meta |-> c.meta + 1, tiles |-> c.tiles + 1, dropped |-> c.dropped,
               stored |-> c.stored, errors |-> c.errors]
         /\ [once EXCEPT !.errors = @ + 1] =
              [meta |-> c.meta + 1, tiles |-> c.tiles, dropped |-> c.dropped,
               stored |-> c.stored, errors |-> c.errors + 1]
<1> DEFINE once == [c EXCEPT !.meta = @ + 1]
<1>1. once = [meta |-> c.meta + 1, tiles |-> c.tiles, dropped |-> c.dropped,
              stored |-> c.stored, errors |-> c.errors]
  BY DEF Generation!Counts
<1> HIDE DEF once
<1>2. /\ [once EXCEPT !.tiles = @ + 1] =
           [meta |-> c.meta + 1, tiles |-> c.tiles + 1, dropped |-> c.dropped,
            stored |-> c.stored, errors |-> c.errors]
      /\ [once EXCEPT !.errors = @ + 1] =
           [meta |-> c.meta + 1, tiles |-> c.tiles, dropped |-> c.dropped,
            stored |-> c.stored, errors |-> c.errors + 1]
  BY <1>1
<1> QED BY <1>2 DEF once

\* The numbers of a meta tile that fails.
LEMMA FailureIs ==
  ASSUME Generation!CommandAssumption, GenTyped, TodoFits, pc = "work", Generation!MetaFails
  PROVE  /\ real' = [real EXCEPT ![Generation!Layer] = real'[Generation!Layer]]
         /\ Follows(count, count', real[Generation!Layer], real'[Generation!Layer], role)
         /\ UNCHANGED <<tileError, error, made>>
<1> DEFINE l == Generation!Layer
           after == [meta |-> real[l].meta + 1, tiles |-> real[l].tiles,
                     dropped |-> real[l].dropped, stored |-> real[l].stored,
                     errors |-> real[l].errors + 1]
<1>1. /\ l \in AllLayers /\ real \in [AllLayers -> Generation!Counts]
      /\ count \in Generation!Counts
  BY HeadIsLayer DEF TodoFits, GenTyped, Generation!TypeOK, AllLayers
<1>2. real[l] \in Generation!Counts
  BY <1>1
<1>3. real' = [real EXCEPT ![l] = after]
  <2> DEFINE once == [real[l] EXCEPT !.meta = @ + 1]
             first == [real EXCEPT ![l] = once]
  <2>1. real' = [first EXCEPT ![l].errors = @ + 1]
    BY DEF Generation!MetaFails
  <2>2. first[l] = once
    BY <1>1
  <2>3. [once EXCEPT !.errors = @ + 1] = after
    BY <1>2, OneMore
  <2> HIDE DEF once, after
  <2>4. real' = [first EXCEPT ![l] = after]
    BY <2>1, <2>2, <2>3
  <2> QED BY <1>1, <2>4
<1>4. real'[l] = after
  BY <1>1, <1>3
<1>5. /\ after \in Generation!Counts
      /\ after.meta = real[l].meta + 1 /\ after.tiles = real[l].tiles
      /\ after.dropped = real[l].dropped /\ after.stored = real[l].stored
  BY <1>2 DEF Generation!Counts
<1>6. /\ count' \in Generation!Counts /\ count'.tiles = count.tiles
      /\ count'.dropped = count.dropped /\ count'.stored = count.stored
      /\ role # "master" => count'.meta = count.meta + 1
      /\ UNCHANGED <<tileError, error, made>>
  BY <1>1 DEF Generation!MetaFails, Generation!Counts
<1> HIDE DEF after
<1>7. Follows(count, count', real[l], after, role)
  BY <1>1, <1>2, <1>5, <1>6 DEF Follows, Generation!Counts
<1> QED BY <1>3, <1>4, <1>6, <1>7

\* A meta tile is taken: it is made, or there is an error.
LEMMA DoIs ==
  ASSUME Generation!CommandAssumption, GenTyped, TodoFits, Generation!DoMetaTile
  PROVE  /\ pc = "work" /\ left # 0 /\ left' = IF left = -1 THEN -1 ELSE left - 1
         /\ UNCHANGED <<command, role, zoom, pc, todo, exit, told>>
         /\ \E m \in stream :
              /\ stream' = stream \ {m}
              /\ made' = made \/ made' = made \cup {m}
              /\ error' = 0 /\ runError' = 0 =>
                   /\ error = 0 /\ runError = 0 /\ made' = made \cup {m}
                   /\ real'[Generation!Layer].errors = real[Generation!Layer].errors
         /\ tileError' \in Nat /\ error' \in Nat /\ runError' \in Nat
         /\ real' = [real EXCEPT ![Generation!Layer] = real'[Generation!Layer]]
         /\ Follows(count, count', real[Generation!Layer], real'[Generation!Layer], role)
<1> DEFINE l == Generation!Layer
<1>1. /\ pc = "work" /\ left # 0 /\ left' = IF left = -1 THEN -1 ELSE left - 1
      /\ UNCHANGED <<command, role, zoom, pc, todo, exit, told>>
  BY DEF Generation!DoMetaTile, Generation!options
<1>2. PICK m \in stream :
        /\ stream' = stream \ {m}
        /\ (\E o \in Outcomes : Generation!Generate(m, o)) \/ Generation!Queue(m)
           \/ Generation!DropMeta(m) \/ Generation!FailMeta
  BY DEF Generation!DoMetaTile
<1>3. /\ l \in AllLayers /\ real \in [AllLayers -> Generation!Counts]
      /\ count \in Generation!Counts /\ error \in Nat /\ runError \in Nat /\ tileError \in Nat
  BY <1>1, HeadIsLayer DEF TodoFits, GenTyped, Generation!TypeOK, AllLayers
<1>4. real[l] \in Generation!Counts
  BY <1>3
<1> DEFINE Goal ==
             /\ made' = made \/ made' = made \cup {m}
             /\ error' = 0 /\ runError' = 0 =>
                  /\ error = 0 /\ runError = 0 /\ made' = made \cup {m}
                  /\ real'[l].errors = real[l].errors
             /\ tileError' \in Nat /\ error' \in Nat /\ runError' \in Nat
             /\ real' = [real EXCEPT ![l] = real'[l]]
             /\ Follows(count, count', real[l], real'[l], role)
<1>5. ASSUME NEW o \in Outcomes, Generation!Generate(m, o) PROVE Goal
  <2>1. /\ o.stored \in Nat /\ o.dropped \in Nat /\ o.bad \in Nat /\ o.badPut \in Nat
        /\ SubTiles \in Nat
    BY DEF Generation!CommandAssumption
  <2> DEFINE after ==
        [meta |-> real[l].meta + 1, tiles |-> real[l].tiles + SubTiles,
         dropped |-> real[l].dropped + o.dropped, stored |-> real[l].stored + o.stored,
         errors |-> real[l].errors + o.bad + o.badPut]
  <2>2. real' = [real EXCEPT ![l] = after]
    BY <1>5 DEF Generation!Generate
  <2>3. real'[l] = after
    BY <1>3, <2>2
  <2>4. /\ count'.tiles = count.tiles + SubTiles /\ count'.dropped = count.dropped + o.dropped
        /\ count'.stored = count.stored + o.stored + o.badPut /\ count'.meta = count.meta + 1
        /\ count' \in Generation!Counts
    <3>1. count' = [[count EXCEPT !.tiles = @ + SubTiles, !.dropped = @ + o.dropped,
                                  !.stored = @ + o.stored + o.badPut]
                     EXCEPT !.meta = @ + 1]
      BY <1>5 DEF Generation!Generate, Generation!More
    <3>2. count' = [meta |-> count.meta + 1, tiles |-> count.tiles + SubTiles,
                    dropped |-> count.dropped + o.dropped,
                    stored |-> count.stored + o.stored + o.badPut, errors |-> count.errors]
      BY <1>3, <3>1 DEF Generation!Counts
    <3>3. /\ count.meta \in Nat /\ count.tiles \in Nat /\ count.dropped \in Nat
          /\ count.stored \in Nat /\ count.errors \in Nat
      BY <1>3 DEF Generation!Counts
    <3> QED BY <2>1, <3>2, <3>3 DEF Generation!Counts
  <2>5. /\ tileError' = tileError + o.bad + o.badPut /\ error' = error + tileError'
        /\ runError' = runError
        /\ made' = IF o.bad + o.badPut = 0 THEN made \cup {m} ELSE made
    BY <1>3, <1>5, <2>1 DEF Generation!Generate
  <2>6. after \in Generation!Counts
    BY <1>4, <2>1 DEF Generation!Counts
  <2>7. Follows(count, count', real[l], after, role)
    BY <1>3, <1>4, <2>1, <2>4, <2>6 DEF Follows, Generation!Counts
  <2>8. real' = [real EXCEPT ![l] = real'[l]]
    BY <2>2, <2>3
  <2>9. tileError' \in Nat /\ error' \in Nat /\ runError' \in Nat
    BY <1>3, <2>1, <2>5
  <2>10. error' = 0 /\ runError' = 0 =>
           /\ error = 0 /\ runError = 0 /\ o.bad + o.badPut = 0
           /\ after.errors = real[l].errors
    <3>1. real[l].errors \in Nat /\ after.errors = real[l].errors + o.bad + o.badPut
      BY <1>4 DEF Generation!Counts
    <3> HIDE DEF after
    <3>2. error' = 0 /\ runError' = 0 => error = 0 /\ runError = 0 /\ tileError' = 0
      BY <1>3, <2>5, <2>9
    <3>3. tileError' = 0 => o.bad = 0 /\ o.badPut = 0
      BY <1>3, <2>1, <2>5
    <3> QED BY <1>3, <3>1, <3>2, <3>3
  <2> HIDE DEF after
  <2> QED BY <2>3, <2>5, <2>7, <2>8, <2>9, <2>10
<1>6. ASSUME Generation!Queue(m) PROVE Goal
  <2> DEFINE after ==
        [meta |-> real[l].meta + 1, tiles |-> real[l].tiles + 1, dropped |-> real[l].dropped,
         stored |-> real[l].stored, errors |-> real[l].errors]
  <2>1. real' = [real EXCEPT ![l] = after]
    <3> DEFINE once == [real[l] EXCEPT !.meta = @ + 1]
               first == [real EXCEPT ![l] = once]
    <3>1. real' = [first EXCEPT ![l].tiles = @ + 1]
      BY <1>6 DEF Generation!Queue
    <3>2. first[l] = once
      BY <1>3
    <3>3. [once EXCEPT !.tiles = @ + 1] = after
      BY <1>4, OneMore
    <3> HIDE DEF once, after
    <3>4. real' = [first EXCEPT ![l] = after]
      BY <3>1, <3>2, <3>3
    <3> QED BY <1>3, <3>4
  <2>2. real'[l] = after
    BY <1>3, <2>1
  <2>3. /\ after \in Generation!Counts
        /\ after.meta = real[l].meta + 1 /\ after.tiles = real[l].tiles + 1
        /\ after.dropped = real[l].dropped /\ after.stored = real[l].stored
        /\ after.errors = real[l].errors
    BY <1>4 DEF Generation!Counts
  <2>4. /\ count' \in Generation!Counts /\ count'.tiles = count.tiles + 1
        /\ count'.dropped = count.dropped /\ count'.stored = count.stored
        /\ role = "master" /\ made' = made \cup {m}
        /\ UNCHANGED <<runError, tileError, error>>
    BY <1>3, <1>6 DEF Generation!Queue, Generation!Counts, Generation!errors
  <2> HIDE DEF after
  <2>5. Follows(count, count', real[l], after, role)
    BY <1>3, <1>4, <2>3, <2>4 DEF Follows, Generation!Counts
  <2>6. real' = [real EXCEPT ![l] = real'[l]]
    BY <2>1, <2>2
  <2> QED BY <1>3, <2>2, <2>3, <2>4, <2>5, <2>6
<1>7. ASSUME Generation!DropMeta(m) PROVE Goal
  <2> DEFINE after == [real[l] EXCEPT !.meta = @ + 1]
  <2>1. real' = [real EXCEPT ![l] = after]
    BY <1>7 DEF Generation!DropMeta
  <2>2. real'[l] = after
    BY <1>3, <2>1
  <2>3. /\ after \in Generation!Counts
        /\ after.meta = real[l].meta + 1 /\ after.tiles = real[l].tiles
        /\ after.dropped = real[l].dropped /\ after.stored = real[l].stored
        /\ after.errors = real[l].errors
    BY <1>4 DEF Generation!Counts
  <2>4. /\ count' \in Generation!Counts /\ count'.tiles = count.tiles
        /\ count'.dropped = count.dropped /\ count'.stored = count.stored
        /\ count'.meta = count.meta + 1
        /\ made' = made \cup {m} /\ UNCHANGED <<runError, tileError, error>>
    BY <1>3, <1>7 DEF Generation!DropMeta, Generation!Counts, Generation!errors
  <2> HIDE DEF after
  <2>5. Follows(count, count', real[l], after, role)
    BY <1>3, <1>4, <2>3, <2>4 DEF Follows, Generation!Counts
  <2>6. real' = [real EXCEPT ![l] = real'[l]]
    BY <2>1, <2>2
  <2> QED BY <1>3, <2>2, <2>3, <2>4, <2>5, <2>6
<1>8. ASSUME Generation!FailMeta PROVE Goal
  <2>1. Generation!MetaFails /\ runError' = runError + 1
    BY <1>8 DEF Generation!FailMeta
  <2> QED BY <1>1, <1>3, <2>1, FailureIs
<1> QED BY <1>1, <1>2, <1>5, <1>6, <1>7, <1>8

-----------------------------------------------------------------------------
(* The steps keep what is kept.                                            *)

\* At first nothing is made and nothing is counted.
LEMMA GenInit ==
  ASSUME Generation!CommandAssumption, Generation!Init PROVE GenInv
<1>1. /\ command \in CommandLines /\ role = command.role /\ zoom = command.zoom
      /\ pc = "parse" /\ todo = <<>> /\ stream = {} /\ left = -1
      /\ count = Generation!Zero /\ runError = 0 /\ tileError = 0 /\ error = 0
      /\ exit = -1 /\ made = {}
      /\ told = [l \in AllLayers |-> Generation!Zero]
      /\ real = [l \in AllLayers |-> Generation!Zero]
  BY DEF Generation!Init, AllLayers
<1>2. Generation!Zero \in Generation!Counts /\ Generation!Zero.tiles = 0
      /\ Generation!Zero.meta = 0 /\ Generation!Zero.errors = 0
  BY DEF Generation!Zero, Generation!Counts
<1>3. \A l \in AllLayers : real[l] = Generation!Zero /\ told[l] = Generation!Zero
  BY <1>1
<1>4. command.role \in {"local", "master"}
      /\ (command.zoom = Generation!NoZoom \/ command.zoom \in SUBSET Nat)
  BY <1>1 DEF Generation!CommandAssumption
<1>5. GenTyped
  BY <1>1, <1>2, <1>4 DEF GenTyped, Generation!TypeOK, AllLayers
<1>6. TodoFits
  BY <1>1, <1>3 DEF TodoFits
<1>7. MadeFits
  BY <1>1, <1>4 DEF MadeFits, ZoomFits
<1>8. NumbersFit /\ ErrorsFit /\ Generation!ErrorsExitOne
  BY <1>1 DEF NumbersFit, ErrorsFit, Generation!ErrorsExitOne
<1>9. TestFits /\ DoneFits
  BY <1>1, <1>2, <1>3 DEF TestFits, DoneFits, AllLayers
<1>10. Generation!NumbersAreOfTheLayer
  BY <1>2, <1>3 DEF Generation!NumbersAreOfTheLayer, Generation!Told, AllLayers
<1> QED BY <1>5, <1>6, <1>7, <1>8, <1>9, <1>10 DEF GenInv

\* What is asked is of the command, which stays.
LEMMA SameCommand ==
  ASSUME command' = command
  PROVE  /\ AskedLayers' = AskedLayers /\ LastAsked' = LastAsked
         /\ OneLayer' = OneLayer /\ Target' = Target
         /\ \A m : Asked(m)' <=> Asked(m)
         /\ \A z : ZoomFits(z)' <=> ZoomFits(z)
         /\ Generation!LayersOf(command)' = AskedLayers
BY DEF AskedLayers, LastAsked, OneLayer, Target, Asked, ZoomFits, Generation!Ordinary,
   Generation!GridsFor, Generation!Wanted, Generation!LayersOf

\* Reading the options only says which layers are to do.
LEMMA ParseKeeps ==
  ASSUME Generation!CommandAssumption, NoLayerTwice, GenInv, Generation!Parse PROVE GenInv'
<1>1. /\ pc = "parse" /\ exit' \in {exit, 1} /\ role' \in {role, "slave"}
      /\ \/ pc' = "end" /\ exit' = 1 /\ todo' = todo
         \/ pc' = "next" /\ exit' = exit /\ todo' = AskedLayers
      /\ UNCHANGED <<command, zoom, stream, left, count, runError, tileError, error, told, made,
                     real>>
  BY DEF Generation!Parse, Generation!Exit, Generation!errors, AskedLayers
<1>2. GenTyped /\ TodoFits /\ MadeFits
  BY DEF GenInv
<1>3. /\ command \in CommandLines /\ exit = -1 /\ real \in [AllLayers -> Generation!Counts]
      /\ todo \in Seq(AllLayers)
  BY <1>1, <1>2 DEF GenTyped, Generation!TypeOK, AllLayers
<1>4. /\ zoom = command.zoom /\ made = {}
      /\ \A l \in AllLayers : real[l] = Generation!Zero /\ told[l] = Generation!Zero
  BY <1>1, <1>2 DEF TodoFits
<1>5. /\ AskedLayers' = AskedLayers /\ LastAsked' = LastAsked /\ OneLayer' = OneLayer
      /\ \A m : Asked(m)' <=> Asked(m)
      /\ ZoomFits(zoom)' <=> ZoomFits(zoom)
  BY <1>1, SameCommand DEF ZoomFits
<1>6. /\ AskedLayers \in Seq(AllLayers) /\ Len(AskedLayers) \in Nat
      /\ \A i \in 1 .. Len(AskedLayers) : AskedLayers[i] \in AllLayers
      /\ Generation!All \in {AskedLayers[i] : i \in 1 .. Len(AskedLayers)} => command.tiles
      /\ \A i, j \in 1 .. Len(AskedLayers) : AskedLayers[i] = AskedLayers[j] => i = j
  BY <1>3, AskedAreLayers
<1>7. OneLayer => AskedLayers # <<>>
  <2>1. OneLayer => AskedLayers = <<command.layer>>
    BY <1>3, AskedAreLayers DEF OneLayer, Generation!Ordinary
  <2> QED BY <2>1
<1>8. Generation!Zero.tiles = 0 /\ Generation!Zero.meta = 0
  BY DEF Generation!Zero
<1>9. GenTyped'
  <2>1. role' \in {"local", "master", "slave"} /\ exit' \in {-1, 0, 1}
        /\ pc' \in {"parse", "next", "work", "end"} /\ (exit' = -1 <=> pc' # "end")
    BY <1>1, <1>2 DEF GenTyped, Generation!TypeOK
  <2>2. Generation!TypeOK'
    BY <1>1, <1>2, <2>1 DEF GenTyped, Generation!TypeOK
  <2> QED BY <1>1, <1>2, <1>6, <2>2 DEF GenTyped, AllLayers
<1>10. TodoFits'
  BY <1>1, <1>5, <1>6 DEF TodoFits, LastAsked
<1>11. MadeFits'
  BY <1>1, <1>2, <1>5 DEF MadeFits
<1>12. NumbersFit'
  BY <1>1, <1>4, <1>6 DEF NumbersFit
<1>13. ErrorsFit' /\ Generation!ErrorsExitOne'
  BY <1>1, <1>3, <1>5 DEF ErrorsFit, Generation!ErrorsExitOne
<1>14. TestFits'
  BY <1>1, <1>4, <1>8 DEF TestFits, AllLayers
<1>15. DoneFits'
  BY <1>1, <1>3, <1>4, <1>5, <1>7 DEF DoneFits
<1>16. Generation!NumbersAreOfTheLayer'
  BY <1>1, <1>4, <1>8 DEF Generation!NumbersAreOfTheLayer, Generation!Told, AllLayers
<1> QED BY <1>9, <1>10, <1>11, <1>12, <1>13, <1>14, <1>15, <1>16 DEF GenInv

\* A command that ends.
LEMMA FinishKeeps ==
  ASSUME GenInv, Generation!Finish PROVE GenInv'
<1>1. /\ pc = "next" /\ todo = <<>> /\ pc' = "end" /\ exit' = IF error # 0 THEN 1 ELSE 0
      /\ UNCHANGED <<command, role, zoom, todo, stream, left, count, runError, tileError, error,
                     told, made, real>>
  BY DEF Generation!Finish, Generation!Exit, Generation!errors, Generation!options
<1>2. /\ GenTyped /\ MadeFits /\ ErrorsFit /\ TestFits /\ DoneFits
      /\ Generation!NumbersAreOfTheLayer
  BY DEF GenInv
<1>3. /\ AskedLayers' = AskedLayers /\ LastAsked' = LastAsked
      /\ OneLayer' = OneLayer /\ Target' = Target
      /\ \A m : Asked(m)' <=> Asked(m)
      /\ ZoomFits(zoom)' <=> ZoomFits(zoom)
      /\ Generation!LayersOf(command)' = AskedLayers
  BY <1>1, SameCommand DEF ZoomFits
<1>4. GenTyped' /\ exit = -1
  BY <1>1, <1>2 DEF GenTyped, Generation!TypeOK, AllLayers
<1>5. TodoFits' /\ NumbersFit' /\ ErrorsFit'
  BY <1>1 DEF TodoFits, NumbersFit, ErrorsFit
<1>6. MadeFits'
  BY <1>1, <1>2, <1>3 DEF MadeFits
<1>7. Generation!ErrorsExitOne'
  BY <1>1, <1>2, <1>3 DEF ErrorsFit, Generation!ErrorsExitOne, LastAsked, AskedLayers
<1>8. TestFits'
  BY <1>1, <1>2, <1>4 DEF TestFits
<1>9. DoneFits'
  BY <1>1, <1>2, <1>3 DEF DoneFits
<1>10. Generation!NumbersAreOfTheLayer'
  BY <1>1, <1>2 DEF Generation!NumbersAreOfTheLayer, Generation!Told
<1> QED BY <1>4, <1>5, <1>6, <1>7, <1>8, <1>9, <1>10 DEF GenInv

\* A test without enough tiles ends the command.
LEMMA TooFewKeeps ==
  ASSUME GenInv, Generation!TooFew PROVE GenInv'
<1>1. /\ pc = "work" /\ pc' = "end" /\ exit' = 1
      /\ UNCHANGED <<command, role, zoom, todo, stream, left, count, runError, tileError, error,
                     told, made, real>>
  BY DEF Generation!TooFew, Generation!Exit, Generation!errors, Generation!options
<1>2. GenTyped /\ MadeFits /\ Generation!NumbersAreOfTheLayer
  BY DEF GenInv
<1>3. (\A m : Asked(m)' <=> Asked(m)) /\ (ZoomFits(zoom)' <=> ZoomFits(zoom))
  BY <1>1, SameCommand DEF ZoomFits
<1>4. GenTyped'
  BY <1>1, <1>2 DEF GenTyped, Generation!TypeOK, AllLayers
<1>5. TodoFits' /\ NumbersFit' /\ ErrorsFit' /\ Generation!ErrorsExitOne'
  BY <1>1 DEF TodoFits, NumbersFit, ErrorsFit, Generation!ErrorsExitOne
<1>6. MadeFits'
  BY <1>1, <1>2, <1>3 DEF MadeFits
<1>7. TestFits' /\ DoneFits'
  BY <1>1 DEF TestFits, DoneFits
<1>8. Generation!NumbersAreOfTheLayer'
  BY <1>1, <1>2 DEF Generation!NumbersAreOfTheLayer, Generation!Told
<1> QED BY <1>4, <1>5, <1>6, <1>7, <1>8 DEF GenInv

\* The layer that begins has no number yet, and what is asked of it is to be made.
LEMMA BeginKeeps ==
  ASSUME Generation!CommandAssumption, GenInv, Generation!BeginLayer PROVE GenInv'
<1> DEFINE l == Generation!Layer
<1>1. /\ GenTyped /\ TodoFits /\ MadeFits /\ NumbersFit /\ TestFits /\ DoneFits
      /\ ZoomFits(zoom) /\ Generation!NumbersAreOfTheLayer
  BY DEF GenInv, MadeFits
<1>2. /\ pc = "next" /\ todo # <<>> /\ count' = Generation!Zero
      /\ error' = 0 /\ runError' = 0 /\ ZoomFits(zoom')
      /\ UNCHANGED <<command, role, todo, tileError, told, made, real>>
      /\ \/ /\ pc' = "end" /\ (exit' = 1 \/ (exit' = 0 /\ command.bbox))
            /\ UNCHANGED <<stream, left>>
         \/ /\ pc' = "work" /\ exit' = exit /\ left' = Generation!Taken
            /\ stream' \subseteq Generation!MetaTiles /\ \A m \in stream' : Asked(m)
            /\ OneLayer => Target \subseteq stream'
  BY <1>1, BeginIs
<1>3. /\ AskedLayers' = AskedLayers /\ LastAsked' = LastAsked
      /\ OneLayer' = OneLayer /\ Target' = Target
      /\ \A m : Asked(m)' <=> Asked(m)
      /\ Generation!LayersOf(command)' = AskedLayers
  BY <1>2, SameCommand DEF ZoomFits
<1>4. /\ Len(todo) \in Nat \ {0} /\ 1 \in 1 .. Len(todo) /\ l = todo[1] /\ l' = l
      /\ l \in AllLayers
  BY <1>1, <1>2, HeadIsLayer DEF Generation!Layer
<1>5. /\ Generation!Zero \in Generation!Counts
      /\ Generation!Zero.tiles = 0 /\ Generation!Zero.meta = 0 /\ Generation!Zero.errors = 0
      /\ Generation!Zero.dropped = 0 /\ Generation!Zero.stored = 0
  BY DEF Generation!Zero, Generation!Counts
<1>6. \A i \in 1 .. Len(todo) :
        told[todo[i]] = Generation!Zero /\ real[todo[i]] = Generation!Zero
  BY <1>1, <1>2 DEF NumbersFit
<1>7. command \in CommandLines /\ command.test \in Nat /\ command.time \in Nat /\ exit = -1
  BY <1>1, <1>2 DEF GenTyped, Generation!TypeOK, Generation!CommandAssumption
<1>8. left' \in Nat \cup {-1}
  BY <1>1, <1>2, <1>7 DEF Generation!Taken, GenTyped, Generation!TypeOK
<1>9. GenTyped'
  <2>1. (made \cup stream)' \subseteq Generation!MetaTiles
    BY <1>1, <1>2 DEF GenTyped, Generation!TypeOK
  <2>2. Generation!TypeOK'
    BY <1>1, <1>2, <1>5, <1>7, <1>8, <2>1 DEF GenTyped, Generation!TypeOK
  <2> QED BY <1>1, <1>2, <2>2 DEF GenTyped, AllLayers
<1>10. TodoFits'
  BY <1>1, <1>2, <1>3 DEF TodoFits
<1>11. MadeFits'
  <2>1. ZoomFits(zoom)'
    BY <1>2 DEF ZoomFits
  <2>2. \A m \in (made \cup stream)' : Asked(m)
    BY <1>1, <1>2 DEF MadeFits
  <2> QED BY <1>3, <2>1, <2>2 DEF MadeFits
<1>12. NumbersFit'
  BY <1>2, <1>4, <1>5, <1>6 DEF NumbersFit
<1>13. ErrorsFit'
  BY <1>2, <1>4, <1>5, <1>6 DEF ErrorsFit
<1>14. Generation!ErrorsExitOne'
  <2>1. LastAsked = todo[Len(todo)]
    BY <1>1, <1>2 DEF TodoFits
  <2>2. real[LastAsked].errors = 0
    BY <1>4, <1>5, <1>6, <2>1
  <2> QED BY <1>2, <1>3, <2>2 DEF Generation!ErrorsExitOne, LastAsked
<1>15. TestFits'
  <2>1. SUFFICES ASSUME command.test > 0, command.time = 0
        PROVE  /\ pc' = "work" => /\ left' = command.test - real[l].meta
                                  /\ left' \in Nat
               /\ \A k \in Generation!NameSet : real[k].meta \in {0, command.test}
    BY <1>2, <1>4 DEF TestFits
  <2>2. Generation!Taken = command.test
    BY <1>7, <2>1 DEF Generation!Taken
  <2>3. real[l].meta = 0
    BY <1>4, <1>5, <1>6
  <2>4. \A k \in Generation!NameSet : real[k].meta \in {0, command.test}
    BY <1>1, <1>2, <1>7, <2>1 DEF TestFits
  <2> QED BY <1>2, <1>7, <2>2, <2>3, <2>4
<1>16. DoneFits'
  <2>1. OneLayer => Generation!Taken = -1 /\ ~command.bbox
    BY <1>7 DEF OneLayer, Generation!Ordinary, Generation!Taken
  <2> QED BY <1>2, <1>3, <1>7, <2>1 DEF DoneFits
<1>17. Generation!NumbersAreOfTheLayer'
  BY <1>1, <1>2 DEF Generation!NumbersAreOfTheLayer, Generation!Told
<1> QED BY <1>9, <1>10, <1>11, <1>12, <1>13, <1>14, <1>15, <1>16, <1>17 DEF GenInv

\* The numbers of the layer at work follow what happens to its tiles; those of the others
\* stay.
LEMMA DoKeeps ==
  ASSUME Generation!CommandAssumption, GenInv, Generation!DoMetaTile PROVE GenInv'
<1> DEFINE l == Generation!Layer
<1>1. /\ GenTyped /\ TodoFits /\ MadeFits /\ NumbersFit /\ ErrorsFit /\ TestFits /\ DoneFits
      /\ Generation!NumbersAreOfTheLayer
  BY DEF GenInv
<1>2. /\ pc = "work" /\ left # 0 /\ left' = IF left = -1 THEN -1 ELSE left - 1
      /\ UNCHANGED <<command, role, zoom, pc, todo, exit, told>>
      /\ tileError' \in Nat /\ error' \in Nat /\ runError' \in Nat
      /\ real' = [real EXCEPT ![l] = real'[l]]
      /\ Follows(count, count', real[l], real'[l], role)
  BY <1>1, DoIs
<1>3. PICK m \in stream :
        /\ stream' = stream \ {m}
        /\ made' = made \/ made' = made \cup {m}
        /\ error' = 0 /\ runError' = 0 =>
             /\ error = 0 /\ runError = 0 /\ made' = made \cup {m}
             /\ real'[l].errors = real[l].errors
  BY <1>1, DoIs
<1>4. /\ AskedLayers' = AskedLayers /\ LastAsked' = LastAsked
      /\ OneLayer' = OneLayer /\ Target' = Target
      /\ \A n : Asked(n)' <=> Asked(n)
  BY <1>2, SameCommand
<1>5. /\ Len(todo) \in Nat \ {0} /\ 1 \in 1 .. Len(todo) /\ l = todo[1] /\ l' = l
      /\ l \in AllLayers /\ todo # <<>>
  BY <1>1, <1>2, HeadIsLayer DEF Generation!Layer, TodoFits
<1>6. /\ real \in [AllLayers -> Generation!Counts] /\ left \in Nat \cup {-1} /\ exit = -1
      /\ told[l] = Generation!Zero /\ real[l].meta \in Nat
      /\ \A i \in 1 .. Len(todo) : todo[i] \in AllLayers
  <2>1. real \in [AllLayers -> Generation!Counts] /\ left \in Nat \cup {-1} /\ exit = -1
    BY <1>1, <1>2 DEF GenTyped, Generation!TypeOK, AllLayers
  <2>2. told[l] = Generation!Zero
    BY <1>1, <1>2, <1>5 DEF NumbersFit
  <2>3. real[l].meta \in Nat
    BY <1>5, <2>1 DEF Generation!Counts
  <2>4. \A i \in 1 .. Len(todo) : todo[i] \in AllLayers
    BY <1>1, <1>5 DEF GenTyped
  <2> QED BY <2>1, <2>2, <2>3, <2>4
<1>7. /\ real' \in [AllLayers -> Generation!Counts]
      /\ \A k \in AllLayers : k # l => real'[k] = real[k]
      /\ real'[l].meta = real[l].meta + 1
  BY <1>2, <1>5, <1>6 DEF Follows
<1>8. GenTyped'
  <2>1. (made \cup stream)' \subseteq Generation!MetaTiles /\ left' \in Nat \cup {-1}
    BY <1>1, <1>2, <1>3, <1>6 DEF GenTyped, Generation!TypeOK
  <2>2. count' \in Generation!Counts
    BY <1>2 DEF Follows
  <2>3. Generation!TypeOK'
    BY <1>1, <1>2, <1>7, <2>1, <2>2 DEF GenTyped, Generation!TypeOK, AllLayers
  <2> QED BY <1>1, <1>2, <2>3 DEF GenTyped, AllLayers
<1>9. TodoFits'
  BY <1>1, <1>2, <1>4 DEF TodoFits
<1>10. MadeFits'
  <2>1. ZoomFits(zoom)'
    BY <1>1, <1>2 DEF MadeFits, ZoomFits
  <2>2. \A n \in (made \cup stream)' : Asked(n)
    BY <1>1, <1>3 DEF MadeFits
  <2> QED BY <1>4, <2>1, <2>2 DEF MadeFits
<1>11. NumbersFit'
  <2>1. \A i \in 1 .. Len(todo) : i = 1 \/ todo[i] # l
    BY <1>1, <1>2, <1>5 DEF TodoFits
  <2>2. \A i \in 1 .. Len(todo) :
          /\ told[todo[i]] = Generation!Zero
          /\ i = 1 \/ real[todo[i]] = Generation!Zero
    BY <1>1, <1>2 DEF NumbersFit
  <2>3. \A i \in 1 .. Len(todo) : i = 1 \/ real'[todo[i]] = Generation!Zero
    BY <1>6, <1>7, <2>1, <2>2
  <2>4. /\ count'.tiles = real'[l].tiles /\ count'.dropped = real'[l].dropped
        /\ count'.stored >= real'[l].stored
        /\ role # "master" => count'.meta = real'[l].meta
    BY <1>1, <1>2 DEF NumbersFit, Follows
  <2> QED BY <1>2, <1>5, <2>2, <2>3, <2>4 DEF NumbersFit
<1>12. ErrorsFit' /\ Generation!ErrorsExitOne'
  BY <1>1, <1>2, <1>3, <1>5, <1>6 DEF ErrorsFit, Generation!ErrorsExitOne
<1>13. TestFits'
  <2>1. SUFFICES ASSUME command.test > 0, command.time = 0
        PROVE  /\ left' = command.test - real'[l].meta /\ left' \in Nat
               /\ \A k \in Generation!NameSet :
                    k = l \/ exit = 1 \/ real'[k].meta \in {0, command.test}
    BY <1>2, <1>5 DEF TestFits
  <2>2. /\ left = command.test - real[l].meta /\ left \in Nat
        /\ \A k \in Generation!NameSet :
             k = l \/ exit = 1 \/ real[k].meta \in {0, command.test}
    BY <1>1, <1>2, <2>1 DEF TestFits
  <2>3. command.test \in Nat
    BY <1>1 DEF GenTyped, Generation!TypeOK, Generation!CommandAssumption
  <2>4. left' = command.test - real'[l].meta /\ left' \in Nat
    BY SMTT(40), <1>2, <1>6, <1>7, <2>2, <2>3
  <2>5. \A k \in Generation!NameSet :
          k = l \/ exit = 1 \/ real'[k].meta \in {0, command.test}
    BY <1>7, <2>2 DEF AllLayers
  <2> QED BY <2>4, <2>5
<1>14. DoneFits'
  BY <1>1, <1>2, <1>3, <1>4, <1>6 DEF DoneFits
<1>15. Generation!NumbersAreOfTheLayer'
  <2>1. l \notin Generation!Told
    BY <1>6 DEF Generation!Told, Generation!Zero
  <2>2. Generation!Told' = Generation!Told
    BY <1>2 DEF Generation!Told
  <2>3. \A k \in Generation!Told : k \in AllLayers /\ k # l
    BY <2>1 DEF Generation!Told, AllLayers
  <2> QED BY <1>1, <1>2, <1>7, <2>2, <2>3 DEF Generation!NumbersAreOfTheLayer
<1> QED BY <1>8, <1>9, <1>10, <1>11, <1>12, <1>13, <1>14, <1>15 DEF GenInv

\* One error too many: there were errors before it.
LEMMA GiveUpKeeps ==
  ASSUME Generation!CommandAssumption, GenInv, Generation!GiveUp PROVE GenInv'
<1> DEFINE l == Generation!Layer
<1>1. /\ GenTyped /\ TodoFits /\ MadeFits /\ NumbersFit /\ ErrorsFit /\ TestFits /\ DoneFits
      /\ Generation!NumbersAreOfTheLayer
  BY DEF GenInv
<1>2. /\ pc = "work" /\ runError > 0 /\ stream' \subseteq stream
      /\ \/ left = -1 /\ UNCHANGED <<pc, exit>>
         \/ pc' = "end" /\ exit' = 1
      /\ UNCHANGED <<command, role, zoom, todo, left, runError, tileError, error, told, made>>
      /\ real' = [real EXCEPT ![l] = real'[l]]
      /\ Follows(count, count', real[l], real'[l], role)
  <2>1. /\ pc = "work" /\ runError > 0 /\ Generation!MetaFails
        /\ \/ left = -1 /\ UNCHANGED <<pc, exit>>
           \/ pc' = "end" /\ exit' = 1
        /\ UNCHANGED <<command, role, zoom, todo, left, runError, told>>
    BY DEF Generation!GiveUp, Generation!Exit, Generation!options
  <2>2. stream' \subseteq stream
    BY DEF Generation!GiveUp
  <2> QED BY <1>1, <2>1, <2>2, FailureIs
<1>3. /\ AskedLayers' = AskedLayers /\ LastAsked' = LastAsked
      /\ OneLayer' = OneLayer /\ Target' = Target
      /\ \A n : Asked(n)' <=> Asked(n)
  BY <1>2, SameCommand
<1>4. /\ Len(todo) \in Nat \ {0} /\ 1 \in 1 .. Len(todo) /\ l = todo[1] /\ l' = l
      /\ l \in AllLayers /\ todo # <<>>
  BY <1>1, <1>2, HeadIsLayer DEF Generation!Layer, TodoFits
<1>5. /\ real \in [AllLayers -> Generation!Counts] /\ runError \in Nat /\ runError # 0
      /\ exit = -1 /\ told[l] = Generation!Zero
      /\ \A i \in 1 .. Len(todo) : todo[i] \in AllLayers
  <2>1. /\ real \in [AllLayers -> Generation!Counts] /\ runError \in Nat /\ exit = -1
        /\ \A i \in 1 .. Len(todo) : todo[i] \in AllLayers
    BY <1>1, <1>2 DEF GenTyped, Generation!TypeOK, AllLayers
  <2>2. told[l] = Generation!Zero
    BY <1>1, <1>2, <1>4 DEF NumbersFit
  <2> QED BY <1>2, <2>1, <2>2
<1>6. /\ real' \in [AllLayers -> Generation!Counts]
      /\ \A k \in AllLayers : k # l => real'[k] = real[k]
  BY <1>2, <1>4, <1>5 DEF Follows
<1>7. GenTyped'
  <2>1. (made \cup stream)' \subseteq Generation!MetaTiles /\ count' \in Generation!Counts
    BY <1>1, <1>2 DEF GenTyped, Generation!TypeOK, Follows
  <2>2. Generation!TypeOK'
    BY <1>1, <1>2, <1>6, <2>1 DEF GenTyped, Generation!TypeOK, AllLayers
  <2> QED BY <1>1, <1>2, <2>2 DEF GenTyped, AllLayers
<1>8. TodoFits'
  BY <1>1, <1>2, <1>3 DEF TodoFits
<1>9. MadeFits'
  <2>1. ZoomFits(zoom)'
    BY <1>1, <1>2 DEF MadeFits, ZoomFits
  <2>2. \A n \in (made \cup stream)' : Asked(n)
    BY <1>1, <1>2 DEF MadeFits
  <2> QED BY <1>3, <2>1, <2>2 DEF MadeFits
<1>10. NumbersFit'
  <2>1. \A i \in 1 .. Len(todo) : i = 1 \/ todo[i] # l
    BY <1>1, <1>2, <1>4 DEF TodoFits
  <2>2. \A i \in 1 .. Len(todo) :
          /\ told[todo[i]] = Generation!Zero
          /\ i = 1 \/ real[todo[i]] = Generation!Zero
    BY <1>1, <1>2 DEF NumbersFit
  <2>3. \A i \in 1 .. Len(todo) : i = 1 \/ real'[todo[i]] = Generation!Zero
    BY <1>5, <1>6, <2>1, <2>2
  <2>4. /\ count'.tiles = real'[l].tiles /\ count'.dropped = real'[l].dropped
        /\ count'.stored >= real'[l].stored
        /\ role # "master" => count'.meta = real'[l].meta
    BY <1>1, <1>2 DEF NumbersFit, Follows
  <2> QED BY <1>2, <1>4, <2>2, <2>3, <2>4 DEF NumbersFit
<1>11. ErrorsFit' /\ Generation!ErrorsExitOne'
  BY <1>2, <1>5 DEF ErrorsFit, Generation!ErrorsExitOne
<1>12. TestFits'
  BY <1>1, <1>2 DEF TestFits
<1>13. DoneFits'
  BY <1>2, <1>3, <1>5, <1>1 DEF DoneFits
<1>14. Generation!NumbersAreOfTheLayer'
  <2>1. l \notin Generation!Told
    BY <1>5 DEF Generation!Told, Generation!Zero
  <2>2. Generation!Told' = Generation!Told
    BY <1>2 DEF Generation!Told
  <2>3. \A k \in Generation!Told : k \in AllLayers /\ k # l
    BY <2>1 DEF Generation!Told, AllLayers
  <2> QED BY <1>1, <1>2, <1>6, <2>2, <2>3 DEF Generation!NumbersAreOfTheLayer
<1> QED BY <1>7, <1>8, <1>9, <1>10, <1>11, <1>12, <1>13, <1>14 DEF GenInv

\* What is told of a layer is what its counters are when it ends.
LEMMA EndKeeps ==
  ASSUME Generation!CommandAssumption, GenInv, Generation!EndLayer PROVE GenInv'
<1> DEFINE l == Generation!Layer
           all == [count EXCEPT !.errors = error']
<1>1. /\ GenTyped /\ TodoFits /\ MadeFits /\ NumbersFit /\ ErrorsFit /\ TestFits /\ DoneFits
      /\ Generation!NumbersAreOfTheLayer
  BY DEF GenInv
<1>2. /\ pc = "work" /\ (left = 0 \/ (left = -1 /\ stream = {}))
      /\ error' = error + runError
      /\ told' = IF command.time > 0 THEN told ELSE [told EXCEPT ![l] = all]
      /\ todo' = Tail(todo) /\ pc' = "next"
      /\ UNCHANGED <<command, role, zoom, stream, left, count, runError, tileError, exit, made,
                     real>>
  BY DEF Generation!EndLayer, Generation!WithRun, Generation!options
<1>3. /\ AskedLayers' = AskedLayers /\ LastAsked' = LastAsked
      /\ OneLayer' = OneLayer /\ Target' = Target
      /\ \A n : Asked(n)' <=> Asked(n)
  BY <1>2, SameCommand
<1>4. /\ Len(todo) \in Nat \ {0} /\ 1 \in 1 .. Len(todo) /\ l = todo[1]
      /\ l \in AllLayers /\ todo # <<>>
      /\ todo' \in Seq(AllLayers) /\ Len(todo') = Len(todo) - 1
      /\ \A i \in 1 .. Len(todo) - 1 : todo'[i] = todo[i + 1] /\ i + 1 \in 1 .. Len(todo)
  BY <1>1, <1>2, HeadIsLayer DEF TodoFits
<1>5. /\ count \in Generation!Counts /\ error \in Nat /\ runError \in Nat /\ exit = -1
      /\ told \in [AllLayers -> Generation!Counts]
      /\ command \in CommandLines
      /\ \A i \in 1 .. Len(todo) : todo[i] \in AllLayers
  BY <1>1, <1>2, <1>4 DEF GenTyped, Generation!TypeOK, AllLayers
<1>6. /\ error' \in Nat
      /\ error' = 0 => error = 0 /\ runError = 0
  BY <1>2, <1>5
<1>7. /\ all \in Generation!Counts /\ all.tiles = count.tiles /\ all.dropped = count.dropped
      /\ all.stored = count.stored /\ all.meta = count.meta
  BY <1>5, <1>6 DEF Generation!Counts
<1> HIDE DEF all
<1>8. /\ told' \in [AllLayers -> Generation!Counts]
      /\ \A k \in AllLayers : k # l => told'[k] = told[k]
      /\ told'[l] = told[l] \/ told'[l] = all
  BY <1>2, <1>4, <1>5, <1>7
<1>9. GenTyped'
  <2>1. Generation!TypeOK'
    BY <1>1, <1>2, <1>6, <1>8 DEF GenTyped, Generation!TypeOK, AllLayers
  <2> QED BY <1>4, <2>1 DEF GenTyped, AllLayers
<1>10. TodoFits'
  <2>1. /\ \A i, j \in 1 .. Len(todo) : todo[i] = todo[j] => i = j
        /\ todo[Len(todo)] = LastAsked /\ AskedLayers # <<>>
        /\ Generation!All \in {todo[i] : i \in 1 .. Len(todo)} => command.tiles
        /\ Len(todo) <= Len(AskedLayers)
    BY <1>1, <1>2, <1>4 DEF TodoFits
  <2>2. \A i, j \in 1 .. Len(todo') : todo'[i] = todo'[j] => i = j
    BY <1>4, <2>1
  <2>3. todo' # <<>> => todo'[Len(todo')] = LastAsked /\ AskedLayers # <<>>
    <3>1. SUFFICES ASSUME todo' # <<>> PROVE todo'[Len(todo')] = LastAsked
      BY <2>1
    <3>2. Len(todo') \in 1 .. Len(todo) - 1 /\ Len(todo') + 1 = Len(todo)
      BY <1>4, <3>1
    <3> QED BY <1>4, <2>1, <3>2
  <2>4. Generation!All \in {todo'[i] : i \in 1 .. Len(todo')} => command.tiles
    BY <1>4, <2>1
  <2>5. Len(todo') <= Len(AskedLayers)
    <3>1. Len(AskedLayers) \in Nat
      BY <1>5, AskedAreLayers
    <3> QED BY <1>4, <2>1, <3>1
  <2> QED BY <1>2, <1>3, <2>2, <2>3, <2>4, <2>5 DEF TodoFits
<1>11. MadeFits'
  <2>1. ZoomFits(zoom)'
    BY <1>1, <1>2 DEF MadeFits, ZoomFits
  <2> QED BY <1>1, <1>2, <1>3, <2>1 DEF MadeFits
<1>12. NumbersFit'
  <2>1. ASSUME NEW i \in 1 .. Len(todo')
        PROVE  told'[todo'[i]] = Generation!Zero /\ real[todo'[i]] = Generation!Zero
    <3>1. i \in 1 .. Len(todo) - 1 /\ i + 1 # 1
      BY <1>4
    <3>2. todo'[i] = todo[i + 1] /\ i + 1 \in 1 .. Len(todo)
      BY <1>4, <3>1
    <3>3. todo[i + 1] # l /\ todo[i + 1] \in AllLayers
      BY <1>1, <1>2, <1>4, <1>5, <3>1, <3>2 DEF TodoFits
    <3>4. told[todo[i + 1]] = Generation!Zero /\ real[todo[i + 1]] = Generation!Zero
      BY <1>1, <1>2, <3>1, <3>2 DEF NumbersFit
    <3> QED BY <1>8, <3>2, <3>3, <3>4
  <2> QED BY <1>2, <2>1 DEF NumbersFit
<1>13. ErrorsFit'
  <2>1. SUFFICES ASSUME todo' = <<>> PROVE real[LastAsked].errors = 0 \/ error' # 0
    BY <1>2, <1>3 DEF ErrorsFit
  <2>2. Len(todo') = 0
    BY <2>1
  <2>3. Len(todo) = 1
    BY <1>4, <2>2
  <2>4. l = LastAsked
    BY <1>1, <1>2, <1>4, <2>3 DEF TodoFits
  <2>5. real[l].errors = 0 \/ error # 0 \/ runError # 0
    BY <1>1, <1>2 DEF ErrorsFit
  <2> QED BY <1>6, <2>4, <2>5
<1>14. Generation!ErrorsExitOne'
  BY <1>2, <1>5 DEF Generation!ErrorsExitOne
<1>15. TestFits'
  <2>1. SUFFICES ASSUME command.test > 0, command.time = 0
        PROVE  \A k \in Generation!NameSet : real[k].meta \in {0, command.test}
    BY <1>2 DEF TestFits
  <2>2. /\ left = command.test - real[l].meta /\ left \in Nat
        /\ \A k \in Generation!NameSet : k = l \/ real[k].meta \in {0, command.test}
    BY <1>1, <1>2, <1>5, <2>1 DEF TestFits
  <2>3. real[l].meta = command.test
    <3>1. command.test \in Nat
      BY <1>5 DEF Generation!CommandAssumption
    <3>2. real[l].meta \in Nat
      BY <1>1, <1>4 DEF GenTyped, Generation!TypeOK, Generation!Counts, AllLayers
    <3>3. left = 0
      BY <1>2, <2>2
    <3> QED BY <2>2, <3>1, <3>2, <3>3
  <2> QED BY <2>2, <2>3
<1>16. DoneFits'
  <2>1. SUFFICES ASSUME OneLayer
        PROVE todo' = <<>> /\ (error' = 0 => Target \subseteq made)
    BY <1>2, <1>3, <1>5 DEF DoneFits
  <2>2. AskedLayers = <<command.layer>>
    BY <1>5, <2>1, AskedAreLayers DEF OneLayer, Generation!Ordinary
  <2>3. Len(AskedLayers) = 1 /\ Len(todo) <= Len(AskedLayers)
    BY <1>1, <1>2, <2>2 DEF TodoFits
  <2>4. Len(todo') = 0
    BY <1>4, <2>3
  <2>5. todo' = <<>>
    BY <1>4, <2>4
  <2>6. left = -1 /\ (error = 0 /\ runError = 0 => Target \subseteq made \cup stream)
    BY <1>1, <1>2, <2>1 DEF DoneFits
  <2> QED BY <1>2, <1>6, <2>5, <2>6
<1>17. Generation!NumbersAreOfTheLayer'
  <2>1. ASSUME NEW k \in AllLayers, told'[k].tiles > 0
        PROVE  /\ told'[k].tiles = real[k].tiles /\ told'[k].dropped = real[k].dropped
               /\ told'[k].stored >= real[k].stored
               /\ role # "master" => told'[k].meta = real[k].meta
    <3>1. CASE told'[k] = told[k]
      BY <1>1, <2>1, <3>1 DEF Generation!NumbersAreOfTheLayer, Generation!Told, AllLayers
    <3>2. CASE told'[k] # told[k]
      <4>1. k = l /\ told'[l] = all
        BY <1>8, <3>2
      <4> QED BY <1>1, <1>2, <1>7, <4>1 DEF NumbersFit
    <3> QED BY <3>1, <3>2
  <2> QED BY <1>2, <2>1 DEF Generation!NumbersAreOfTheLayer, Generation!Told, AllLayers
<1> QED BY <1>9, <1>10, <1>11, <1>12, <1>13, <1>14, <1>15, <1>16, <1>17 DEF GenInv

\* Every step keeps the invariant of the generation.
LEMMA NextGen ==
  ASSUME Generation!CommandAssumption, NoLayerTwice, GenInv, [Generation!Next]_(Generation!vars)
  PROVE  GenInv'
<1>1. CASE UNCHANGED Generation!vars
  <2>1. UNCHANGED <<command, role, zoom, pc, todo, stream, left, count, runError, tileError,
                    error, exit, told, made, real>>
    BY <1>1 DEF Generation!vars, Generation!options, Generation!errors
  <2>2. /\ AskedLayers' = AskedLayers /\ LastAsked' = LastAsked
        /\ OneLayer' = OneLayer /\ Target' = Target
        /\ \A m : Asked(m)' <=> Asked(m)
        /\ Generation!LayersOf(command)' = AskedLayers
    BY <2>1, SameCommand
  <2>3. GenTyped' /\ TodoFits' /\ ErrorsFit'
    BY <2>1, <2>2 DEF GenInv, GenTyped, Generation!TypeOK, TodoFits, ErrorsFit, AllLayers,
       Generation!Layer
  <2>4. MadeFits'
    BY <2>1, <2>2 DEF GenInv, MadeFits, ZoomFits
  <2>5. NumbersFit' /\ TestFits' /\ DoneFits'
    BY <2>1, <2>2 DEF GenInv, NumbersFit, TestFits, DoneFits, Generation!Layer
  <2>6. Generation!NumbersAreOfTheLayer' /\ Generation!ErrorsExitOne'
    BY <2>1, <2>2 DEF GenInv, Generation!NumbersAreOfTheLayer, Generation!Told,
       Generation!ErrorsExitOne, AskedLayers
  <2> QED BY <2>3, <2>4, <2>5, <2>6 DEF GenInv
<1> QED
  BY <1>1, ParseKeeps, FinishKeeps, BeginKeeps, DoKeeps, GiveUpKeeps, TooFewKeeps, EndKeeps
  DEF Generation!Next

\* What is kept is enough for what is promised.
LEMMA GenIsRight ==
  ASSUME Generation!CommandAssumption, GenInv PROVE ExitStatusIsRight /\ NothingElse
<1>1. Generation!TypeOK /\ Generation!ErrorsExitOne /\ Generation!NumbersAreOfTheLayer
  BY DEF GenInv, GenTyped
<1>2. Generation!ExitZeroIsDone
  BY DEF GenInv, DoneFits, OneLayer, Target, Generation!ExitZeroIsDone
<1>3. Generation!NothingElse
  BY DEF GenInv, MadeFits, Asked, Generation!NothingElse
<1>4. Generation!TestTakesAll
  <2>1. SUFFICES ASSUME NEW l \in Generation!NameSet, exit = 0,
                        command.test > 0, command.time = 0, real[l].meta > 0
                 PROVE  real[l].meta = command.test
    BY DEF Generation!TestTakesAll
  <2>2. pc = "end"
    BY <1>1, <2>1 DEF Generation!TypeOK
  <2> QED BY <2>1, <2>2 DEF GenInv, TestFits
<1> QED BY <1>1, <1>2, <1>3, <1>4 DEF ExitStatusIsRight, NothingElse

\* So it always holds.
LEMMA SpecGen == ASSUME NoLayerTwice PROVE CommandsSpec => []GenInv
<1>1. CommandsInit => GenInv
  BY GenInit, GenerationAssumption DEF CommandsInit
<1>2. GenInv /\ [CommandsNext]_commandsVars => GenInv'
  <2>1. [CommandsNext]_commandsVars => [Generation!Next]_(Generation!vars)
    BY DEF CommandsNext, GenerationStep, ControllerStep, TileStep, PyramidStep, CheckStep,
       commandsVars, commandVars, Generation!vars, Generation!options, Generation!errors
  <2> QED BY <2>1, NextGen, GenerationAssumption
<1> QED
  BY <1>1, <1>2, PTL DEF CommandsSpec

\* ExitStatusIsRight, the exit status of generate-tiles, for any configuration whose default
\* layers are different ones, any command line and any failures.
THEOREM ExitStatusStaysRight ==
  ASSUME NoLayerTwice PROVE CommandsSpec => []ExitStatusIsRight
<1>1. GenInv => ExitStatusIsRight
  BY GenIsRight, GenerationAssumption
<1> QED BY <1>1, SpecGen, PTL

\* NothingElse, what generate-tiles makes and tells, for the same.
THEOREM NothingElseIsMade ==
  ASSUME NoLayerTwice PROVE CommandsSpec => []NothingElse
<1>1. GenInv => NothingElse
  BY GenIsRight, GenerationAssumption
<1> QED BY <1>1, SpecGen, PTL

-----------------------------------------------------------------------------
(* The pyramid: numbers and boxes.                                         *)

\* The smallest and the greatest of two numbers, and the greatest of three.
LEMMA MinOfTwo ==
  ASSUME NEW a \in Int, NEW b \in Int
  PROVE  Pyramid!Min({a, b}) = IF a <= b THEN a ELSE b
BY DEF Pyramid!Min

\* The greatest of two numbers.
LEMMA MaxOfTwo ==
  ASSUME NEW a \in Int, NEW b \in Int
  PROVE  Pyramid!Max({a, b}) = IF a >= b THEN a ELSE b
BY DEF Pyramid!Max

\* The greatest of three numbers is one of them, and none is greater.
LEMMA MaxOfThree ==
  ASSUME NEW a \in Int, NEW b \in Int, NEW c \in Int
  PROVE  /\ Pyramid!Max({a, b, c}) \in {a, b, c}
         /\ Pyramid!Max({a, b, c}) >= a /\ Pyramid!Max({a, b, c}) >= b
         /\ Pyramid!Max({a, b, c}) >= c
<1> DEFINE m == IF a >= b /\ a >= c THEN a ELSE IF b >= c THEN b ELSE c
<1>1. m \in {a, b, c} /\ \A y \in {a, b, c} : m >= y
  OBVIOUS
<1> HIDE DEF m
<1> QED
  BY <1>1 DEF Pyramid!Max

\* A set of integers that is bounded has a smallest, or a greatest, member.
LEMMA BoundedHasMin ==
  ASSUME NEW S \in SUBSET Int, S # {}, NEW b \in Int, \A y \in S : b <= y
  PROVE  Pyramid!Min(S) \in S /\ \A y \in S : Pyramid!Min(S) <= y
<1> DEFINE T == {y - b : y \in S}
<1>1. T \subseteq Nat /\ T # {}
  <2>1. ASSUME NEW t \in T PROVE t \in Nat
    OBVIOUS
  <2> QED BY <2>1
<1>2. PICK m \in T : \A k \in T : ~(<<k, m>> \in OpToRel(<, Nat))
  <2>1. IsWellFoundedOn(OpToRel(<, Nat), Nat)
    BY NatLessThanWellFounded
  <2> QED BY <1>1, <2>1, WFMin, Zenon
<1>3. PICK x \in S : m = x - b
  OBVIOUS
<1>4. ASSUME NEW y \in S PROVE x <= y
  <2>1. y - b \in T /\ y - b \in Nat /\ m \in Nat
    BY <1>1
  <2>2. ~(y - b < m)
    BY <1>2, <2>1 DEF OpToRel
  <2> QED BY <1>3, <2>2
<1> QED
  BY <1>4 DEF Pyramid!Min

\* A set of integers with an upper bound has a greatest one, which Max gives.
LEMMA BoundedHasMax ==
  ASSUME NEW S \in SUBSET Int, S # {}, NEW b \in Int, \A y \in S : y <= b
  PROVE  Pyramid!Max(S) \in S /\ \A y \in S : Pyramid!Max(S) >= y
<1> DEFINE T == {b - y : y \in S}
<1>1. T \subseteq Nat /\ T # {}
  <2>1. ASSUME NEW t \in T PROVE t \in Nat
    OBVIOUS
  <2> QED BY <2>1
<1>2. PICK m \in T : \A k \in T : ~(<<k, m>> \in OpToRel(<, Nat))
  <2>1. IsWellFoundedOn(OpToRel(<, Nat), Nat)
    BY NatLessThanWellFounded
  <2> QED BY <1>1, <2>1, WFMin, Zenon
<1>3. PICK x \in S : m = b - x
  OBVIOUS
<1>4. ASSUME NEW y \in S PROVE x >= y
  <2>1. b - y \in T /\ b - y \in Nat /\ m \in Nat
    BY <1>1
  <2>2. ~(b - y < m)
    BY <1>2, <2>1 DEF OpToRel
  <2> QED BY <1>3, <2>2
<1> QED
  BY <1>4 DEF Pyramid!Max

\* Tiles of a span s, counted from 0: in which one a distance is.
LEMMA ProductGrows ==
  ASSUME NEW a \in Int, NEW b \in Int, NEW s \in Nat \ {0}
  PROVE  /\ a * s \in Int /\ (a + 1) * s = a * s + s
         /\ a <= b <=> a * s <= b * s
         /\ a < b <=> a * s < b * s
         /\ a < b => a * s + s <= b * s
<1>1. /\ a * s \in Int /\ b * s \in Int /\ (a + 1) * s = a * s + s
      /\ a <= b => a * s <= b * s
      /\ b <= a => b * s <= a * s
  OBVIOUS
<1>2. ASSUME a < b PROVE a * s + s <= b * s
  <2>1. a + 1 <= b
    BY <1>2
  <2>2. (a + 1) * s <= b * s
    BY <2>1
  <2> QED
    BY <1>1, <2>2
<1>3. ASSUME b < a PROVE b * s + s <= a * s
  <2>1. b + 1 <= a
    BY <1>3
  <2>2. (b + 1) * s <= a * s
    BY <2>1
  <2>3. (b + 1) * s = b * s + s
    OBVIOUS
  <2> QED
    BY <2>2, <2>3
<1> QED
  BY <1>1, <1>2, <1>3

\* math.floor: the greatest number of spans that is not above the distance.
LEMMA FloorIs ==
  ASSUME NEW a \in Int, NEW s \in Nat \ {0}
  PROVE  /\ Pyramid!Floor(a, s) \in Int
         /\ \A k \in Int : k <= Pyramid!Floor(a, s) <=> k * s <= a
<1> DEFINE q == a \div s
<1>1. q \in Int /\ q * s <= a /\ a < q * s + s
  OBVIOUS
<1>2. Pyramid!Floor(a, s) = q
  BY DEF Pyramid!Floor
<1> HIDE DEF q
<1>3. ASSUME NEW k \in Int PROVE k <= q <=> k * s <= a
  <2>1. k * s \in Int /\ q * s \in Int
    BY <1>1, ProductGrows
  <2>2. CASE k <= q
    BY <1>1, <2>1, <2>2, ProductGrows
  <2>3. CASE q < k
    <3>1. q * s + s <= k * s
      BY <1>1, <2>3, ProductGrows
    <3> QED
      BY <1>1, <2>1, <2>3, <3>1
  <2> QED
    BY <1>1, <2>2, <2>3
<1> QED
  BY <1>1, <1>2, <1>3

\* math.ceil: the number of spans that begin before the distance.
LEMMA CeilIs ==
  ASSUME NEW a \in Int, NEW s \in Nat \ {0}
  PROVE  /\ Pyramid!Ceil(a, s) \in Int
         /\ \A k \in Int : k < Pyramid!Ceil(a, s) <=> k * s < a
<1>1. /\ Pyramid!Floor(-a, s) \in Int
      /\ Pyramid!Ceil(a, s) = -Pyramid!Floor(-a, s)
      /\ -a \in Int
  BY FloorIs DEF Pyramid!Ceil, Pyramid!Floor
<1>2. ASSUME NEW k \in Int PROVE k < Pyramid!Ceil(a, s) <=> k * s < a
  <2>1. -k <= Pyramid!Floor(-a, s) <=> (-k) * s <= -a
    BY <1>1, FloorIs
  <2>2. (-k) * s = -(k * s) /\ k * s \in Int
    OBVIOUS
  <2> QED
    BY <1>1, <2>1, <2>2
<1> QED
  BY <1>1, <1>2

\* An index is taken to the first or to the last one when it is outside.
LEMMA ClampIs ==
  ASSUME NEW n \in Int, NEW last \in Nat
  PROVE  Pyramid!Clamp(n, last) = IF n < 0 THEN 0 ELSE IF n > last THEN last ELSE n
BY MinOfTwo, MaxOfTwo DEF Pyramid!Clamp

\* The tiles that have more than a border between two distances are in their range, and
\* those of the range touch what is between them, when there is something between them.
LEMMA IndexRangeIs ==
  ASSUME NEW low \in Int, NEW high \in Int, NEW s \in Nat \ {0}, NEW last \in Nat
  PROVE  LET r == Pyramid!IndexRange(low, high, s, last)
         IN /\ r # <<>> => /\ r = <<r[1], r[2]>> /\ r[1] \in 0 .. last /\ r[2] \in 0 .. last
                           /\ r[1] <= r[2]
            /\ \A i \in 0 .. last : low < i * s + s /\ i * s < high => i \in Pyramid!Indices(r)
            /\ \A i \in Pyramid!Indices(r) :
                 /\ i \in 0 .. last
                 /\ low < i * s + s \/ i = last
                 /\ i * s < high \/ i = 0
<1> DEFINE f == Pyramid!Floor(low, s)
           c == Pyramid!Ceil(high, s)
           first == Pyramid!Clamp(f, last)
           end == Pyramid!Clamp(c - 1, last)
           r == Pyramid!IndexRange(low, high, s, last)
<1>1. f \in Int /\ c \in Int
  BY FloorIs, CeilIs
<1>2. /\ first = IF f < 0 THEN 0 ELSE IF f > last THEN last ELSE f
      /\ end = IF c - 1 < 0 THEN 0 ELSE IF c - 1 > last THEN last ELSE c - 1
  BY <1>1, ClampIs
<1>3. r = IF first > end THEN <<>> ELSE <<first, end>>
  BY DEF Pyramid!IndexRange
<1>4. Pyramid!Indices(r) = first .. end
  BY <1>1, <1>2, <1>3 DEF Pyramid!Indices
<1>5. ASSUME NEW i \in 0 .. last
      PROVE  /\ i * s \in Int
             /\ i + 1 <= f <=> i * s + s <= low
             /\ i < c <=> i * s < high
  <2>1. i + 1 <= f <=> (i + 1) * s <= low
    BY FloorIs
  <2>2. i < c <=> i * s < high
    BY CeilIs
  <2>3. (i + 1) * s = i * s + s /\ i * s \in Int
    BY ProductGrows
  <2> QED
    BY <2>1, <2>2, <2>3
<1> HIDE DEF f, c, first, end, r
<1>6. r # <<>> => /\ r = <<r[1], r[2]>> /\ r[1] \in 0 .. last /\ r[2] \in 0 .. last
                  /\ r[1] <= r[2]
  BY <1>1, <1>2, <1>3
<1>7. ASSUME NEW i \in 0 .. last, low < i * s + s, i * s < high PROVE i \in first .. end
  BY <1>1, <1>2, <1>5, <1>7
<1>8. ASSUME NEW i \in first .. end
      PROVE  i \in 0 .. last /\ (low < i * s + s \/ i = last) /\ (i * s < high \/ i = 0)
  <2>1. i \in 0 .. last
    BY <1>1, <1>2
  <2> QED
    BY <1>1, <1>2, <1>5, <2>1
<1> QED
  BY <1>4, <1>6, <1>7, <1>8 DEF r

-----------------------------------------------------------------------------
(* The pyramid: what its definitions give.                                 *)

\* The corners of a box are in order.
LEMMA NormalizedIsBox ==
  ASSUME NEW b \in Pyramid!Corners
  PROVE  Pyramid!IsBox(Pyramid!NormalizeBox(b))
BY MinOfTwo, MaxOfTwo DEF Pyramid!IsBox, Pyramid!Corners, Pyramid!NormalizeBox

\* The corners of the grid are numbers, in order, and it has an area.
LEMMA GridIs ==
  ASSUME Pyramid!PyramidAssumption
  PROVE  /\ Pyramid!IsBox(Pyramid!GridBox)
         /\ \A k \in 1 .. 4 : Pyramid!GridBox[k] \in Int
         /\ Pyramid!GridBox[1] < Pyramid!GridBox[3] /\ Pyramid!GridBox[2] < Pyramid!GridBox[4]
<1>1. Pyramid!IsBox(Pyramid!GridBox) /\ Pyramid!HasArea(Pyramid!GridBox)
  BY NormalizedIsBox DEF Pyramid!PyramidAssumption, Pyramid!GridBox
<1> QED
  BY <1>1 DEF Pyramid!IsBox, Pyramid!Corners, Pyramid!HasArea

\* The sides of a tile and of a meta tile are positive numbers.
LEMMA SpansAre ==
  ASSUME Pyramid!PyramidAssumption, NEW z \in Pyramid!Zooms
  PROVE  /\ MetaSize \in Nat \ {0} /\ Grid.resolutions[z] \in Nat \ {0}
         /\ Pyramid!TileSpan(z) \in Nat \ {0} /\ Pyramid!MetaSpan(z) \in Nat \ {0}
         /\ Pyramid!MetaSpan(z) = MetaSize * Pyramid!TileSpan(z)
<1>1. /\ MetaSize \in Nat \ {0} /\ Grid.resolutions[z] \in Nat \ {0}
      /\ Grid.size \in Nat \ {0}
  BY DEF Pyramid!PyramidAssumption, Pyramid!Zooms
<1>2. \A a, b \in Nat \ {0} : a * b \in Nat \ {0}
  OBVIOUS
<1>3. Pyramid!TileSpan(z) \in Nat \ {0}
  BY <1>1, <1>2 DEF Pyramid!TileSpan
<1> QED
  BY <1>1, <1>2, <1>3 DEF Pyramid!MetaSpan

\* The buffer of the filter is at least that of the layer.
LEMMA BufferIs ==
  ASSUME Pyramid!PyramidAssumption, NEW l \in SeedLayers, NEW z \in Pyramid!Zooms
  PROVE  /\ Pyramid!Buffer(l, z) \in Nat
         /\ (l.pxBuffer + MetaBuffer) * Grid.resolutions[z] \in Nat
         /\ Pyramid!Buffer(l, z) <= (l.pxBuffer + MetaBuffer) * Grid.resolutions[z]
<1>1. l.pxBuffer \in Nat /\ MetaBuffer \in Nat /\ Grid.resolutions[z] \in Nat
  BY SpansAre DEF Pyramid!PyramidAssumption
<1>2. \A a, b, c \in Nat : a * c \in Nat /\ (a + b) * c = a * c + b * c
  OBVIOUS
<1> QED
  BY <1>1, <1>2 DEF Pyramid!Buffer

\* The matrix of a span has the tiles that begin in the grid.
LEMMA MatrixIs ==
  ASSUME Pyramid!PyramidAssumption, NEW s \in Nat \ {0}
  PROVE  /\ Pyramid!Width(s) - 1 \in Nat /\ Pyramid!Height(s) - 1 \in Nat
         /\ \A i \in 0 .. Pyramid!Width(s) - 1 :
              /\ i * s \in Nat
              /\ i * s < Pyramid!GridBox[3] - Pyramid!GridBox[1]
              /\ i = Pyramid!Width(s) - 1 => i * s + s >= Pyramid!GridBox[3] - Pyramid!GridBox[1]
         /\ \A j \in 0 .. Pyramid!Height(s) - 1 :
              /\ j * s \in Nat
              /\ j * s < Pyramid!GridBox[4] - Pyramid!GridBox[2]
              /\ j = Pyramid!Height(s) - 1 => j * s + s >= Pyramid!GridBox[4] - Pyramid!GridBox[2]
<1>1. ASSUME NEW a \in Nat \ {0}
      PROVE  /\ Pyramid!Ceil(a, s) - 1 \in Nat
             /\ \A i \in 0 .. Pyramid!Ceil(a, s) - 1 :
                  /\ i * s \in Nat /\ i * s < a
                  /\ i = Pyramid!Ceil(a, s) - 1 => i * s + s >= a
  <2>1. Pyramid!Ceil(a, s) \in Int /\ \A k \in Int : k < Pyramid!Ceil(a, s) <=> k * s < a
    BY CeilIs
  <2>2. 0 < Pyramid!Ceil(a, s)
    BY <2>1
  <2>3. ASSUME NEW i \in 0 .. Pyramid!Ceil(a, s) - 1
        PROVE  /\ i * s \in Nat /\ i * s < a
               /\ i = Pyramid!Ceil(a, s) - 1 => i * s + s >= a
    <3>1. i \in Nat /\ i * s \in Nat /\ (i + 1) * s = i * s + s /\ i < Pyramid!Ceil(a, s)
      BY <2>1
    <3>2. i * s < a /\ (i + 1 < Pyramid!Ceil(a, s) <=> (i + 1) * s < a)
      BY <2>1, <3>1
    <3> QED
      BY <2>1, <3>1, <3>2
  <2> QED
    BY <2>1, <2>2, <2>3
<1>2. /\ Pyramid!GridBox[3] - Pyramid!GridBox[1] \in Nat \ {0}
      /\ Pyramid!GridBox[4] - Pyramid!GridBox[2] \in Nat \ {0}
  BY GridIs
<1> QED
  BY <1>1, <1>2 DEF Pyramid!Width, Pyramid!Height

\* The extent of a layer is a box.
LEMMA ExtentIsBox ==
  ASSUME Pyramid!PyramidAssumption, NEW l \in SeedLayers
  PROVE  Pyramid!IsBox(Pyramid!Extent(l))
<1>1. /\ l.bbox = Pyramid!NoBox \/ l.bbox \in Pyramid!Corners
      /\ l.asked = Pyramid!NoBox \/ l.asked \in Pyramid!Corners
  BY DEF Pyramid!PyramidAssumption
<1> QED
  BY <1>1, NormalizedIsBox DEF Pyramid!Extent, Pyramid!PyramidAssumption

\* What two boxes have in common is a box in each of them.
LEMMA MeetIs ==
  ASSUME NEW a \in Pyramid!Corners, NEW b \in Pyramid!Corners, NEW c \in Pyramid!Meet(a, b)
  PROVE  /\ Pyramid!IsBox(c)
         /\ c[1] = IF a[1] >= b[1] THEN a[1] ELSE b[1]
         /\ c[2] = IF a[2] >= b[2] THEN a[2] ELSE b[2]
         /\ c[3] = IF a[3] <= b[3] THEN a[3] ELSE b[3]
         /\ c[4] = IF a[4] <= b[4] THEN a[4] ELSE b[4]
<1> DEFINE d == <<Pyramid!Max({a[1], b[1]}), Pyramid!Max({a[2], b[2]}),
                  Pyramid!Min({a[3], b[3]}), Pyramid!Min({a[4], b[4]})>>
<1>1. /\ d[1] = IF a[1] >= b[1] THEN a[1] ELSE b[1]
      /\ d[2] = IF a[2] >= b[2] THEN a[2] ELSE b[2]
      /\ d[3] = IF a[3] <= b[3] THEN a[3] ELSE b[3]
      /\ d[4] = IF a[4] <= b[4] THEN a[4] ELSE b[4]
  BY MinOfTwo, MaxOfTwo DEF Pyramid!Corners
<1>2. c = d /\ d[1] <= d[3] /\ d[2] <= d[4]
  BY DEF Pyramid!Meet
<1>3. d = <<d[1], d[2], d[3], d[4]>>
  OBVIOUS
<1>4. d[1] \in Int /\ d[2] \in Int /\ d[3] \in Int /\ d[4] \in Int
  BY <1>1 DEF Pyramid!Corners
<1> HIDE DEF d
<1>5. d \in Pyramid!Corners
  BY <1>3, <1>4 DEF Pyramid!Corners
<1> QED
  BY <1>1, <1>2, <1>5 DEF Pyramid!IsBox

\* The last source for a zoom is one of its sources.
LEMMA LastSourceIs ==
  ASSUME Pyramid!PyramidAssumption, NEW l \in SeedLayers, NEW z \in Pyramid!Zooms,
         Pyramid!SourcesFor(l, z) # {}
  PROVE  LET k == Pyramid!Max(Pyramid!SourcesFor(l, z))
         IN  k \in Pyramid!SourcesFor(l, z) /\ \A n \in Pyramid!SourcesFor(l, z) : k >= n
<1> DEFINE S == Pyramid!SourcesFor(l, z)
<1>1. l.sources \in Seq([rects : SUBSET Pyramid!Corners, from : Int, to : Int])
  BY DEF Pyramid!PyramidAssumption
<1>2. Len(l.sources) \in Int /\ DOMAIN l.sources = 1 .. Len(l.sources)
  BY <1>1
<1>3. S \in SUBSET Int /\ \A y \in S : y <= Len(l.sources)
  BY <1>2 DEF Pyramid!SourcesFor
<1> HIDE DEF S
<1> QED
  BY <1>2, <1>3, BoundedHasMax DEF S

\* A geometry is made of boxes in the extent.
LEMMA GeomsAre ==
  ASSUME Pyramid!PyramidAssumption, NEW l \in SeedLayers, NEW z \in Pyramid!Zooms,
         NEW r \in Pyramid!GetGeoms(l, z)
  PROVE  LET e == Pyramid!Extent(l)
         IN  /\ r[1] \in Int /\ r[2] \in Int /\ r[3] \in Int /\ r[4] \in Int
             /\ e[1] \in Int /\ e[2] \in Int /\ e[3] \in Int /\ e[4] \in Int
             /\ e[1] <= r[1] /\ r[1] <= r[3] /\ r[3] <= e[3]
             /\ e[2] <= r[2] /\ r[2] <= r[4] /\ r[4] <= e[4]
<1> DEFINE e == Pyramid!Extent(l)
<1>1. Pyramid!IsBox(e)
  BY ExtentIsBox
<1> HIDE DEF e
<1>2. CASE Pyramid!SourcesFor(l, z) = {}
  <2>1. r = e
    BY <1>2 DEF Pyramid!GetGeoms, e
  <2> QED
    BY <1>1, <2>1 DEF Pyramid!IsBox, Pyramid!Corners, e
<1>3. CASE Pyramid!SourcesFor(l, z) # {}
  <2> DEFINE k == Pyramid!Max(Pyramid!SourcesFor(l, z))
  <2>1. k \in DOMAIN l.sources
    BY <1>3, LastSourceIs DEF Pyramid!SourcesFor
  <2>2. r \in Pyramid!InExtent(l, l.sources[k])
    BY <1>3 DEF Pyramid!GetGeoms
  <2>3. PICK q \in l.sources[k].rects : r \in Pyramid!Meet(q, e)
    BY <2>2 DEF Pyramid!InExtent, e
  <2>4. Pyramid!IsBox(q)
    BY <2>1, <2>3 DEF Pyramid!PyramidAssumption
  <2>5. q \in Pyramid!Corners /\ e \in Pyramid!Corners
    BY <1>1, <2>4 DEF Pyramid!IsBox
  <2>6. /\ Pyramid!IsBox(r)
        /\ r[1] = IF q[1] >= e[1] THEN q[1] ELSE e[1]
        /\ r[2] = IF q[2] >= e[2] THEN q[2] ELSE e[2]
        /\ r[3] = IF q[3] <= e[3] THEN q[3] ELSE e[3]
        /\ r[4] = IF q[4] <= e[4] THEN q[4] ELSE e[4]
    BY <2>3, <2>5, MeetIs
  <2> QED
    BY <1>1, <2>4, <2>6 DEF Pyramid!IsBox, Pyramid!Corners, e
<1> QED
  BY <1>2, <1>3

\* The sides of the geometry of a zoom.
LEMMA SidesAre ==
  ASSUME Pyramid!PyramidAssumption, NEW l \in SeedLayers, NEW z \in Pyramid!Zooms,
         NEW r \in Pyramid!GetGeoms(l, z)
  PROVE  LET g == Pyramid!GetGeoms(l, z)
         IN  /\ Pyramid!Min({q[1] : q \in g}) \in Int /\ Pyramid!Min({q[1] : q \in g}) <= r[1]
             /\ Pyramid!Min({q[2] : q \in g}) \in Int /\ Pyramid!Min({q[2] : q \in g}) <= r[2]
             /\ Pyramid!Max({q[3] : q \in g}) \in Int /\ Pyramid!Max({q[3] : q \in g}) >= r[3]
             /\ Pyramid!Max({q[4] : q \in g}) \in Int /\ Pyramid!Max({q[4] : q \in g}) >= r[4]
<1> DEFINE g == Pyramid!GetGeoms(l, z)
           e == Pyramid!Extent(l)
<1>1. \A q \in g : /\ q[1] \in Int /\ q[2] \in Int /\ q[3] \in Int /\ q[4] \in Int
                   /\ e[1] \in Int /\ e[2] \in Int /\ e[3] \in Int /\ e[4] \in Int
                   /\ e[1] <= q[1] /\ e[2] <= q[2] /\ q[3] <= e[3] /\ q[4] <= e[4]
  BY GeomsAre
<1>2. r \in g
  OBVIOUS
<1> HIDE DEF g, e
<1>3. Pyramid!Min({q[1] : q \in g}) \in Int /\ Pyramid!Min({q[1] : q \in g}) <= r[1]
  <2> DEFINE S == {q[1] : q \in g}
  <2>1. S \in SUBSET Int /\ r[1] \in S /\ e[1] \in Int /\ \A y \in S : e[1] <= y
    BY <1>1, <1>2
  <2> HIDE DEF S
  <2>2. Pyramid!Min(S) \in S /\ \A y \in S : Pyramid!Min(S) <= y
    BY <2>1, BoundedHasMin
  <2> QED BY <2>1, <2>2 DEF S
<1>4. Pyramid!Min({q[2] : q \in g}) \in Int /\ Pyramid!Min({q[2] : q \in g}) <= r[2]
  <2> DEFINE S == {q[2] : q \in g}
  <2>1. S \in SUBSET Int /\ r[2] \in S /\ e[2] \in Int /\ \A y \in S : e[2] <= y
    BY <1>1, <1>2
  <2> HIDE DEF S
  <2>2. Pyramid!Min(S) \in S /\ \A y \in S : Pyramid!Min(S) <= y
    BY <2>1, BoundedHasMin
  <2> QED BY <2>1, <2>2 DEF S
<1>5. Pyramid!Max({q[3] : q \in g}) \in Int /\ Pyramid!Max({q[3] : q \in g}) >= r[3]
  <2> DEFINE S == {q[3] : q \in g}
  <2>1. S \in SUBSET Int /\ r[3] \in S /\ e[3] \in Int /\ \A y \in S : y <= e[3]
    BY <1>1, <1>2
  <2> HIDE DEF S
  <2>2. Pyramid!Max(S) \in S /\ \A y \in S : Pyramid!Max(S) >= y
    BY <2>1, BoundedHasMax
  <2> QED BY <2>1, <2>2 DEF S
<1>6. Pyramid!Max({q[4] : q \in g}) \in Int /\ Pyramid!Max({q[4] : q \in g}) >= r[4]
  <2> DEFINE S == {q[4] : q \in g}
  <2>1. S \in SUBSET Int /\ r[4] \in S /\ e[4] \in Int /\ \A y \in S : y <= e[4]
    BY <1>1, <1>2
  <2> HIDE DEF S
  <2>2. Pyramid!Max(S) \in S /\ \A y \in S : Pyramid!Max(S) >= y
    BY <2>1, BoundedHasMax
  <2> QED BY <2>1, <2>2 DEF S
<1> QED
  BY <1>3, <1>4, <1>5, <1>6 DEF g

\* The piece of a rectangle, with its buffer m, that is in the band of a row.
LEMMA BandPieceIs ==
  ASSUME Pyramid!PyramidAssumption, NEW r, NEW m \in Nat, NEW b1 \in Int, NEW b2 \in Int,
         \A k \in 1 .. 4 : r[k] \in Int, b1 < b2,
         NEW p \in Pyramid!BandPiece(r, m, b1, b2)
  PROVE  /\ p = <<p[1], p[2]>> /\ p[1] \in Int /\ p[2] \in Int
         /\ Pyramid!GridBox[1] <= p[1] /\ p[1] <= p[2] /\ p[2] <= Pyramid!GridBox[3]
         /\ r[1] - m <= p[1]
         /\ p[2] <= r[3] + m
         /\ b1 <= r[4] + m /\ r[2] - m <= b2
<1> DEFINE d == Pyramid!Max({0, b1 - r[4], r[2] - b2})
           low == Pyramid!Max({Pyramid!GridBox[1], r[1] - (m - d)})
           high == Pyramid!Min({Pyramid!GridBox[3], r[3] + (m - d)})
<1>1. /\ r[1] \in Int /\ r[2] \in Int /\ r[3] \in Int /\ r[4] \in Int
      /\ Pyramid!GridBox[1] \in Int /\ Pyramid!GridBox[3] \in Int
  BY GridIs
<1>2. d \in {0, b1 - r[4], r[2] - b2} /\ d >= 0 /\ d >= b1 - r[4] /\ d >= r[2] - b2
  <2>1. 0 \in Int /\ b1 - r[4] \in Int /\ r[2] - b2 \in Int
    BY <1>1
  <2> QED
    BY <2>1, MaxOfThree, Zenon
<1>3. p = <<low, high>> /\ d <= m /\ low <= high
  BY DEF Pyramid!BandPiece
<1> HIDE DEF d
<1>4. /\ d \in Int
      /\ low = IF Pyramid!GridBox[1] >= r[1] - (m - d) THEN Pyramid!GridBox[1] ELSE r[1] - (m - d)
      /\ high = IF Pyramid!GridBox[3] <= r[3] + (m - d) THEN Pyramid!GridBox[3] ELSE r[3] + (m - d)
  BY <1>1, <1>2, MinOfTwo, MaxOfTwo
<1> HIDE DEF low, high
<1> QED
  BY <1>1, <1>2, <1>3, <1>4

\* When a rectangle with its buffer shares an area with a box in the band and in the grid, the
\* piece has the columns of that box.
LEMMA SharedIsInBand ==
  ASSUME Pyramid!PyramidAssumption, NEW r, NEW m \in Nat, NEW b1 \in Int, NEW b2 \in Int,
         \A k \in 1 .. 4 : r[k] \in Int, r[1] <= r[3],
         NEW b, \A k \in 1 .. 4 : b[k] \in Int,
         Pyramid!GridBox[1] <= b[1], b[3] <= Pyramid!GridBox[3], b1 <= b[2], b[4] <= b2,
         b[1] < Pyramid!GridBox[3], Pyramid!GridBox[1] < b[3],
         Pyramid!ShareArea(r, m, b)
  PROVE  /\ b[2] < r[4] + m /\ r[2] - m < b[4]
         /\ \E p \in Pyramid!BandPiece(r, m, b1, b2) : p[1] < b[3] /\ b[1] < p[2]
<1> DEFINE d == Pyramid!Max({0, b1 - r[4], r[2] - b2})
           c == Pyramid!Max({0, b[2] - r[4], r[2] - b[4]})
           low == Pyramid!Max({Pyramid!GridBox[1], r[1] - (m - d)})
           high == Pyramid!Min({Pyramid!GridBox[3], r[3] + (m - d)})
<1>1. /\ r[1] \in Int /\ r[2] \in Int /\ r[3] \in Int /\ r[4] \in Int
      /\ b[1] \in Int /\ b[2] \in Int /\ b[3] \in Int /\ b[4] \in Int
      /\ Pyramid!GridBox[1] \in Int /\ Pyramid!GridBox[3] \in Int
      /\ Pyramid!GridBox[1] < Pyramid!GridBox[3]
  BY GridIs
<1>2. d \in {0, b1 - r[4], r[2] - b2} /\ d >= 0 /\ d >= b1 - r[4] /\ d >= r[2] - b2
  <2>1. 0 \in Int /\ b1 - r[4] \in Int /\ r[2] - b2 \in Int
    BY <1>1
  <2> QED
    BY <2>1, MaxOfThree, Zenon
<1>3. c \in {0, b[2] - r[4], r[2] - b[4]} /\ c >= 0 /\ c >= b[2] - r[4] /\ c >= r[2] - b[4]
  <2>1. 0 \in Int /\ b[2] - r[4] \in Int /\ r[2] - b[4] \in Int
    BY <1>1
  <2> QED
    BY <2>1, MaxOfThree, Zenon
<1>4. /\ b[2] < r[4] + m /\ r[2] - m < b[4]
      /\ b[1] < r[3] + (m - c) /\ r[1] - (m - c) < b[3]
  BY DEF Pyramid!ShareArea
<1> HIDE DEF d, c
<1>5. d \in Int /\ c \in Int /\ d <= c /\ d <= m
  BY <1>1, <1>2, <1>3, <1>4
<1>6. /\ low = IF Pyramid!GridBox[1] >= r[1] - (m - d) THEN Pyramid!GridBox[1] ELSE r[1] - (m - d)
      /\ high = IF Pyramid!GridBox[3] <= r[3] + (m - d) THEN Pyramid!GridBox[3] ELSE r[3] + (m - d)
  BY <1>1, <1>5, MinOfTwo, MaxOfTwo
<1>7. <<low, high>> \in Pyramid!BandPiece(r, m, b1, b2) <=> d <= m /\ low <= high
  BY DEF Pyramid!BandPiece, d
<1> HIDE DEF low, high
<1>8. low <= high /\ low < b[3] /\ b[1] < high
  BY <1>1, <1>4, <1>5, <1>6
<1> QED
  BY <1>4, <1>5, <1>7, <1>8

\* The side of n by n tiles.
Span(z, n) == n * Pyramid!TileSpan(z)

\* It is a positive number, and that of a tile or of a meta tile.
LEMMA SpanIs ==
  ASSUME Pyramid!PyramidAssumption, NEW z \in Pyramid!Zooms, NEW n \in Nat \ {0}
  PROVE  /\ Span(z, n) \in Nat \ {0}
         /\ Span(z, MetaSize) = Pyramid!MetaSpan(z) /\ Span(z, 1) = Pyramid!TileSpan(z)
<1>1. Pyramid!TileSpan(z) \in Nat \ {0}
  BY SpansAre
<1> QED
  BY <1>1, SpansAre DEF Span

\* The bounds of n by n tiles.
LEMMA TileBoxIs ==
  ASSUME Pyramid!PyramidAssumption, NEW z \in Pyramid!Zooms, NEW n \in Nat \ {0},
         NEW i \in Nat, NEW j \in Nat
  PROVE  LET t == Pyramid!TileBox(z, i * n, j * n, n, 0)
             g == Pyramid!GridBox
             s == Span(z, n)
         IN  /\ t[1] = g[1] + i * s /\ t[2] = g[4] - j * s - s
             /\ t[3] = g[1] + i * s + s /\ t[4] = g[4] - j * s
<1> DEFINE g == Pyramid!GridBox
           t == Pyramid!TileBox(z, i * n, j * n, n, 0)
           u == Pyramid!TileSpan(z)
           s == Span(z, n)
<1>1. u \in Nat \ {0} /\ g[1] \in Int /\ g[4] \in Int
  BY SpansAre, GridIs
<1>2. /\ (i * n) * u = i * s /\ (j * n) * u = j * s /\ i * s \in Int /\ j * s \in Int
      /\ (i * n + n) * u = i * s + s /\ (j * n + n) * u = j * s + s /\ s \in Int
  BY <1>1 DEF Span
<1>3. /\ t[1] = g[1] + (i * n) * u - 0 /\ t[2] = g[4] - (j * n + n) * u - 0
      /\ t[3] = g[1] + (i * n + n) * u + 0 /\ t[4] = g[4] - (j * n) * u + 0
  BY DEF Pyramid!TileBox
<1> HIDE DEF t, u, g, s
<1> QED
  BY <1>1, <1>2, <1>3 DEF t, g, s

\* The bounds of a meta tile.
LEMMA MetaBoxIs ==
  ASSUME Pyramid!PyramidAssumption, NEW z \in Pyramid!Zooms,
         NEW i \in Nat, NEW j \in Nat, NEW border \in Int
  PROVE  LET t == Pyramid!TileBox(z, i * MetaSize, j * MetaSize, MetaSize, border)
             g == Pyramid!GridBox
             s == Pyramid!MetaSpan(z)
         IN  /\ t[1] = g[1] + i * s - border /\ t[2] = g[4] - j * s - s - border
             /\ t[3] = g[1] + i * s + s + border /\ t[4] = g[4] - j * s + border
<1> DEFINE g == Pyramid!GridBox
           t == Pyramid!TileBox(z, i * MetaSize, j * MetaSize, MetaSize, border)
           u == Pyramid!TileSpan(z)
           s == Pyramid!MetaSpan(z)
<1>1. /\ u \in Nat \ {0} /\ MetaSize \in Nat \ {0} /\ s = MetaSize * u
      /\ g[1] \in Int /\ g[4] \in Int
  BY SpansAre, GridIs
<1>2. /\ t[1] = g[1] + (i * MetaSize) * u - border
      /\ t[2] = g[4] - (j * MetaSize + MetaSize) * u - border
      /\ t[3] = g[1] + (i * MetaSize + MetaSize) * u + border
      /\ t[4] = g[4] - (j * MetaSize) * u + border
  BY DEF Pyramid!TileBox
<1> HIDE DEF t, u, g, s
<1>3. /\ (i * MetaSize) * u = i * s /\ (j * MetaSize) * u = j * s /\ i * s \in Int
      /\ (i * MetaSize + MetaSize) * u = i * s + s /\ (j * MetaSize + MetaSize) * u = j * s + s
      /\ j * s \in Int /\ s \in Int
  BY <1>1
<1> QED
  BY <1>1, <1>2, <1>3 DEF t, g, s

\* The part of n by n tiles of the matrix that is in the grid.
LEMMA InsideIs ==
  ASSUME Pyramid!PyramidAssumption, NEW z \in Pyramid!Zooms, NEW n \in Nat \ {0},
         NEW i \in 0 .. Pyramid!Width(Span(z, n)) - 1,
         NEW j \in 0 .. Pyramid!Height(Span(z, n)) - 1
  PROVE  LET b == Pyramid!InsideOf(z, i * n, j * n, n)
             g == Pyramid!GridBox
             s == Span(z, n)
         IN  /\ b[1] = g[1] + i * s /\ b[4] = g[4] - j * s
             /\ b[2] = IF g[4] - j * s - s >= g[2] THEN g[4] - j * s - s ELSE g[2]
             /\ b[3] = IF g[1] + i * s + s <= g[3] THEN g[1] + i * s + s ELSE g[3]
<1> DEFINE g == Pyramid!GridBox
           t == Pyramid!TileBox(z, i * n, j * n, n, 0)
           s == Span(z, n)
<1>2. s \in Nat \ {0}
  BY SpanIs
<1>3. /\ i \in Nat /\ j \in Nat
      /\ i * s \in Nat /\ i * s < g[3] - g[1] /\ j * s \in Nat /\ j * s < g[4] - g[2]
      /\ g[1] \in Int /\ g[2] \in Int /\ g[3] \in Int /\ g[4] \in Int
  BY <1>2, MatrixIs, GridIs
<1> DEFINE c == <<Pyramid!Max({t[1], g[1]}), Pyramid!Max({t[2], g[2]}),
                  Pyramid!Min({t[3], g[3]}), Pyramid!Min({t[4], g[4]})>>
<1>6. /\ t[1] = g[1] + i * s /\ t[2] = g[4] - j * s - s
      /\ t[3] = g[1] + i * s + s /\ t[4] = g[4] - j * s
  BY <1>3, TileBoxIs
<1> HIDE DEF t, g, s
<1>7. /\ c[1] = g[1] + i * s /\ c[4] = g[4] - j * s
      /\ c[2] = IF g[4] - j * s - s >= g[2] THEN g[4] - j * s - s ELSE g[2]
      /\ c[3] = IF g[1] + i * s + s <= g[3] THEN g[1] + i * s + s ELSE g[3]
  BY <1>2, <1>3, <1>6, MinOfTwo, MaxOfTwo
<1>8. Pyramid!Meet(t, g) = IF c[1] <= c[3] /\ c[2] <= c[4] THEN {c} ELSE {}
  BY DEF Pyramid!Meet
<1> HIDE DEF c
<1>9. c[1] <= c[3] /\ c[2] <= c[4]
  BY <1>2, <1>3, <1>7
<1>10. Pyramid!InsideOf(z, i * n, j * n, n) = CHOOSE b \in {c} : TRUE
  BY <1>8, <1>9 DEF Pyramid!InsideOf, t, g, s
<1>11. (CHOOSE b \in {c} : TRUE) = c
  OBVIOUS
<1> QED
  BY <1>2, <1>7, <1>10, <1>11 DEF g, s

-----------------------------------------------------------------------------
(* The pyramid: what is in the rows.                                       *)

\* The rows of a zoom are of its matrix, and have those that a rectangle with its buffer is in.
LEMMA RowRangeIs ==
  ASSUME Pyramid!PyramidAssumption, NEW l \in SeedLayers, NEW z \in Pyramid!Zooms
  PROVE  LET s == Pyramid!MetaSpan(z)
             m == Pyramid!Buffer(l, z)
             h == Pyramid!Height(s) - 1
             top == Pyramid!GridBox[4]
         IN  /\ Pyramid!Indices(Pyramid!RowRange(l, z)) \subseteq 0 .. h
             /\ \A j \in 0 .. h : \A r \in Pyramid!GetGeoms(l, z) :
                  r[2] - m < top - j * s /\ top - j * s - s < r[4] + m
                    => j \in Pyramid!Indices(Pyramid!RowRange(l, z))
             /\ \A j \in Pyramid!Indices(Pyramid!RowRange(l, z)) :
                  /\ \/ top - (Pyramid!Max({r[4] : r \in Pyramid!GetGeoms(l, z)}) + m) < j * s + s
                     \/ j = h
                  /\ \/ j * s < top - (Pyramid!Min({r[2] : r \in Pyramid!GetGeoms(l, z)}) - m)
                     \/ j = 0
<1> DEFINE s == Pyramid!MetaSpan(z)
           m == Pyramid!Buffer(l, z)
           h == Pyramid!Height(s) - 1
           top == Pyramid!GridBox[4]
           geoms == Pyramid!GetGeoms(l, z)
           a == Pyramid!Min({r[2] : r \in geoms})
           b == Pyramid!Max({r[4] : r \in geoms})
<1>1. /\ s \in Nat \ {0} /\ m \in Nat /\ top \in Int
  BY SpansAre, BufferIs, GridIs
<1>2. h \in Nat /\ \A j \in 0 .. h : j * s \in Nat
  BY <1>1, MatrixIs
<1>3. CASE geoms = {}
  BY <1>3 DEF Pyramid!RowRange, Pyramid!Indices
<1>4. CASE geoms # {}
  <2>1. a \in Int /\ b \in Int /\ \A r \in geoms : a <= r[2] /\ r[4] <= b
    BY <1>4, SidesAre
  <2>2. \A r \in geoms : r[2] \in Int /\ r[4] \in Int
    BY GeomsAre
  <2>3. Pyramid!RowRange(l, z) = Pyramid!IndexRange(top - (b + m), top - (a - m), s, h)
    BY <1>4 DEF Pyramid!RowRange
  <2> HIDE DEF s, m, h, top, a, b, geoms
  <2>4. top - (b + m) \in Int /\ top - (a - m) \in Int
    BY <1>1, <2>1
  <2>5. /\ \A i \in 0 .. h : top - (b + m) < i * s + s /\ i * s < top - (a - m)
                => i \in Pyramid!Indices(Pyramid!RowRange(l, z))
        /\ \A i \in Pyramid!Indices(Pyramid!RowRange(l, z)) :
             /\ i \in 0 .. h
             /\ top - (b + m) < i * s + s \/ i = h
             /\ i * s < top - (a - m) \/ i = 0
    BY <1>1, <1>2, <2>3, <2>4, IndexRangeIs
  <2>6. ASSUME NEW j \in 0 .. h, NEW r \in geoms,
               r[2] - m < top - j * s, top - j * s - s < r[4] + m
        PROVE  j \in Pyramid!Indices(Pyramid!RowRange(l, z))
    <3>1. j * s \in Int /\ a <= r[2] /\ r[4] <= b /\ r[2] \in Int /\ r[4] \in Int
      BY <1>2, <2>1, <2>2
    <3>2. top - (b + m) < j * s + s /\ j * s < top - (a - m)
      BY <1>1, <2>1, <2>6, <3>1
    <3> QED
      BY <2>5, <3>2
  <2> QED
    BY <2>5, <2>6 DEF s, m, h, top, geoms, a, b
<1> QED
  BY <1>3, <1>4

\* The ranges of a row: of the matrix, each of the piece of a rectangle.
LEMMA RowRangesAre ==
  ASSUME Pyramid!PyramidAssumption, NEW l \in SeedLayers, NEW z \in Pyramid!Zooms,
         NEW n \in 0 .. Pyramid!Height(Pyramid!MetaSpan(z)) - 1
  PROVE  LET s == Pyramid!MetaSpan(z)
             m == Pyramid!Buffer(l, z)
             w == Pyramid!Width(s) - 1
             g == Pyramid!GridBox
         IN  /\ \A R \in Pyramid!RowRanges(l, z, n) :
                  /\ R = <<R[1], R[2]>> /\ R[1] \in 0 .. w /\ R[2] \in 0 .. w /\ R[1] <= R[2]
                  /\ \A i \in R[1] .. R[2] :
                       \E r \in Pyramid!GetGeoms(l, z) :
                         \E p \in Pyramid!BandPiece(r, m, g[4] - n * s - s, g[4] - n * s) :
                           /\ p[1] - g[1] < i * s + s \/ i = w
                           /\ i * s < p[2] - g[1] \/ i = 0
             /\ \A i \in 0 .. w, r \in Pyramid!GetGeoms(l, z) :
                  (\E p \in Pyramid!BandPiece(r, m, g[4] - n * s - s, g[4] - n * s) :
                     p[1] - g[1] < i * s + s /\ i * s < p[2] - g[1])
                    => \E R \in Pyramid!RowRanges(l, z, n) : i \in R[1] .. R[2]
<1> DEFINE s == Pyramid!MetaSpan(z)
           m == Pyramid!Buffer(l, z)
           w == Pyramid!Width(s) - 1
           g == Pyramid!GridBox
           geoms == Pyramid!GetGeoms(l, z)
           Piece(r) == Pyramid!BandPiece(r, m, g[4] - n * s - s, g[4] - n * s)
           RangeOf(p) == Pyramid!IndexRange(p[1] - g[1], p[2] - g[1], s, w)
<1>1. /\ s \in Nat \ {0} /\ m \in Nat /\ g[1] \in Int /\ g[4] \in Int
      /\ w \in Nat /\ n \in Nat /\ n * s \in Nat
  BY SpansAre, BufferIs, GridIs, MatrixIs
<1>2. Pyramid!BandTop(z, n) = g[4] - n * s /\ Pyramid!BandTop(z, n + 1) = g[4] - n * s - s
  <2>1. (n + 1) * s = n * s + s
    BY <1>1
  <2> HIDE DEF g, s
  <2> QED
    BY <1>1, <2>1 DEF Pyramid!BandTop, s, g
<1>3. Pyramid!RowRanges(l, z, n) = {RangeOf(p) : p \in UNION {Piece(r) : r \in geoms}} \ {<<>>}
  BY <1>2 DEF Pyramid!RowRanges, Pyramid!RowPieces
<1>4. ASSUME NEW r \in geoms, NEW p \in Piece(r)
      PROVE  /\ p[1] - g[1] \in Int /\ p[2] - g[1] \in Int
  <2>1. \A k \in 1 .. 4 : r[k] \in Int
    BY GeomsAre
  <2>2. g[4] - n * s - s \in Int /\ g[4] - n * s \in Int /\ g[4] - n * s - s < g[4] - n * s
    BY <1>1
  <2>3. p[1] \in Int /\ p[2] \in Int
    BY <1>1, <2>1, <2>2, BandPieceIs
  <2> QED
    BY <1>1, <2>3
<1> HIDE DEF s, m, w, g, geoms
<1>5. ASSUME NEW r \in geoms, NEW p \in Piece(r)
      PROVE  /\ RangeOf(p) # <<>> =>
                  /\ RangeOf(p) = <<RangeOf(p)[1], RangeOf(p)[2]>>
                  /\ RangeOf(p)[1] \in 0 .. w /\ RangeOf(p)[2] \in 0 .. w
                  /\ RangeOf(p)[1] <= RangeOf(p)[2]
             /\ \A i \in 0 .. w : p[1] - g[1] < i * s + s /\ i * s < p[2] - g[1]
                    => i \in Pyramid!Indices(RangeOf(p))
             /\ \A i \in Pyramid!Indices(RangeOf(p)) :
                  (p[1] - g[1] < i * s + s \/ i = w) /\ (i * s < p[2] - g[1] \/ i = 0)
  <2> DEFINE a == p[1] - g[1]
             b == p[2] - g[1]
             R == Pyramid!IndexRange(a, b, s, w)
  <2>1. a \in Int /\ b \in Int /\ s \in Nat \ {0} /\ w \in Nat
    BY <1>1, <1>4, <1>5
  <2> HIDE DEF a, b
  <2>2. /\ R # <<>> => /\ R = <<R[1], R[2]>> /\ R[1] \in 0 .. w /\ R[2] \in 0 .. w
                       /\ R[1] <= R[2]
        /\ \A i \in 0 .. w : a < i * s + s /\ i * s < b => i \in Pyramid!Indices(R)
        /\ \A i \in Pyramid!Indices(R) : (a < i * s + s \/ i = w) /\ (i * s < b \/ i = 0)
    BY <2>1, IndexRangeIs
  <2> QED
    BY <2>2 DEF a, b
<1> HIDE DEF Range, Piece
<1>6. ASSUME NEW R \in Pyramid!RowRanges(l, z, n)
      PROVE  /\ R = <<R[1], R[2]>> /\ R[1] \in 0 .. w /\ R[2] \in 0 .. w /\ R[1] <= R[2]
             /\ \A i \in R[1] .. R[2] :
                  \E r \in geoms : \E p \in Piece(r) :
                    /\ p[1] - g[1] < i * s + s \/ i = w
                    /\ i * s < p[2] - g[1] \/ i = 0
  <2>1. PICK r \in geoms : \E p \in Piece(r) : R = RangeOf(p) /\ R # <<>>
    BY <1>3
  <2>3. PICK p \in Piece(r) : R = RangeOf(p) /\ R # <<>>
    BY <2>1
  <2>2. Pyramid!Indices(R) = R[1] .. R[2]
    BY <2>3 DEF Pyramid!Indices
  <2> QED
    BY <1>5, <2>3, <2>2
<1>7. ASSUME NEW i \in 0 .. w, NEW r \in geoms, NEW p \in Piece(r),
             p[1] - g[1] < i * s + s, i * s < p[2] - g[1]
      PROVE  \E R \in Pyramid!RowRanges(l, z, n) : i \in R[1] .. R[2]
  <2>1. i \in Pyramid!Indices(RangeOf(p))
    BY <1>5, <1>7
  <2>2. RangeOf(p) # <<>> /\ i \in RangeOf(p)[1] .. RangeOf(p)[2]
    BY <2>1 DEF Pyramid!Indices
  <2>3. RangeOf(p) \in Pyramid!RowRanges(l, z, n)
    BY <1>3, <2>2
  <2> QED
    BY <2>2, <2>3
<1> QED
  BY <1>6, <1>7 DEF s, m, w, g, geoms, Piece

\* A meta tile that has a part of the geometry is in a range of a row of its zoom.
LEMMA SharedIsRanged ==
  ASSUME Pyramid!PyramidAssumption, NEW l \in SeedLayers, NEW z \in Pyramid!Zooms,
         NEW i \in 0 .. Pyramid!Width(Pyramid!MetaSpan(z)) - 1,
         NEW j \in 0 .. Pyramid!Height(Pyramid!MetaSpan(z)) - 1,
         Pyramid!Holds(Pyramid!GetGeoms(l, z), l, z, i * MetaSize, j * MetaSize, MetaSize)
  PROVE  /\ j \in Pyramid!Indices(Pyramid!RowRange(l, z))
         /\ \E R \in Pyramid!RowRanges(l, z, j) : i \in R[1] .. R[2]
<1> DEFINE s == Pyramid!MetaSpan(z)
           m == Pyramid!Buffer(l, z)
           g == Pyramid!GridBox
           b == Pyramid!InsideOf(z, i * MetaSize, j * MetaSize, MetaSize)
<1>1. PICK r \in Pyramid!GetGeoms(l, z) : Pyramid!ShareArea(r, m, b)
  BY DEF Pyramid!Holds
<1>2. /\ b[1] = g[1] + i * s /\ b[4] = g[4] - j * s
      /\ b[2] = IF g[4] - j * s - s >= g[2] THEN g[4] - j * s - s ELSE g[2]
      /\ b[3] = IF g[1] + i * s + s <= g[3] THEN g[1] + i * s + s ELSE g[3]
  <2>1. MetaSize \in Nat \ {0} /\ s = Span(z, MetaSize)
    BY SpansAre, SpanIs
  <2> QED
    BY <2>1, InsideIs
<1>3. /\ s \in Nat \ {0} /\ m \in Nat /\ \A k \in 1 .. 4 : g[k] \in Int
      /\ i * s \in Nat /\ i * s < g[3] - g[1] /\ j * s \in Nat /\ j * s < g[4] - g[2]
      /\ g[1] < g[3]
  BY SpansAre, BufferIs, GridIs, MatrixIs
<1>4. (\A k \in 1 .. 4 : r[k] \in Int) /\ r[1] <= r[3]
  BY GeomsAre
<1> HIDE DEF b
<1>5. \A k \in 1 .. 4 : b[k] \in Int
  BY <1>2, <1>3
<1>6. /\ g[1] <= b[1] /\ b[3] <= g[3] /\ g[4] - j * s - s <= b[2] /\ b[4] <= g[4] - j * s
      /\ b[1] < g[3] /\ g[1] < b[3]
      /\ g[4] - j * s - s \in Int /\ g[4] - j * s \in Int
  BY <1>2, <1>3
<1>7. /\ b[2] < r[4] + m /\ r[2] - m < b[4]
      /\ \E p \in Pyramid!BandPiece(r, m, g[4] - j * s - s, g[4] - j * s) :
           p[1] < b[3] /\ b[1] < p[2]
  BY <1>1, <1>3, <1>4, <1>5, <1>6, SharedIsInBand
<1>8. j \in Pyramid!Indices(Pyramid!RowRange(l, z))
  <2>1. r[2] - m < g[4] - j * s /\ g[4] - j * s - s < r[4] + m
    BY <1>2, <1>3, <1>4, <1>5, <1>6, <1>7
  <2> QED
    BY <2>1, RowRangeIs
<1>9. PICK p \in Pyramid!BandPiece(r, m, g[4] - j * s - s, g[4] - j * s) :
        p[1] < b[3] /\ b[1] < p[2]
  BY <1>7
<1>10. p[1] - g[1] < i * s + s /\ i * s < p[2] - g[1]
  <2>1. g[4] - j * s - s < g[4] - j * s
    BY <1>3
  <2>2. p[1] \in Int /\ p[2] \in Int
    BY <1>3, <1>4, <1>6, <2>1, BandPieceIs
  <2> QED
    BY <1>2, <1>3, <1>6, <1>9, <2>2
<1>11. \E R \in Pyramid!RowRanges(l, z, j) : i \in R[1] .. R[2]
  BY <1>10, RowRangesAre
<1> QED
  BY <1>8, <1>11

\* A meta tile of a range: the piece of a rectangle that it touches.
LEMMA RangedTouches ==
  ASSUME Pyramid!PyramidAssumption, NEW l \in SeedLayers, NEW z \in Pyramid!Zooms,
         NEW j \in 0 .. Pyramid!Height(Pyramid!MetaSpan(z)) - 1,
         NEW R \in Pyramid!RowRanges(l, z, j), NEW i \in R[1] .. R[2]
  PROVE  LET s == Pyramid!MetaSpan(z)
             m == Pyramid!Buffer(l, z)
             g == Pyramid!GridBox
             w == Pyramid!Width(s) - 1
         IN  /\ i \in 0 .. w
             /\ \E r \in Pyramid!GetGeoms(l, z), p \in Int \X Int :
                  /\ g[1] <= p[1] /\ p[1] <= p[2] /\ p[2] <= g[3]
                  /\ r[1] - m <= p[1] /\ p[2] <= r[3] + m
                  /\ g[4] - j * s - s <= r[4] + m /\ r[2] - m <= g[4] - j * s
                  /\ p[1] - g[1] < i * s + s \/ i = w
                  /\ i * s < p[2] - g[1] \/ i = 0
<1> DEFINE s == Pyramid!MetaSpan(z)
           m == Pyramid!Buffer(l, z)
           g == Pyramid!GridBox
           w == Pyramid!Width(s) - 1
<1>1. /\ s \in Nat \ {0} /\ m \in Nat /\ g[4] \in Int /\ j * s \in Nat
  BY SpansAre, BufferIs, GridIs, MatrixIs
<1>2. R[1] \in 0 .. w /\ R[2] \in 0 .. w
  BY RowRangesAre
<1>3. w \in Nat /\ i \in 0 .. w
  BY <1>1, <1>2, MatrixIs
<1>4. PICK r \in Pyramid!GetGeoms(l, z) :
        \E p \in Pyramid!BandPiece(r, m, g[4] - j * s - s, g[4] - j * s) :
          /\ p[1] - g[1] < i * s + s \/ i = w
          /\ i * s < p[2] - g[1] \/ i = 0
  BY RowRangesAre
<1>5. PICK p \in Pyramid!BandPiece(r, m, g[4] - j * s - s, g[4] - j * s) :
        /\ p[1] - g[1] < i * s + s \/ i = w
        /\ i * s < p[2] - g[1] \/ i = 0
  BY <1>4
<1>6. \A k \in 1 .. 4 : r[k] \in Int
  BY GeomsAre
<1> HIDE DEF s, m, w, g
<1>7. g[4] - j * s - s \in Int /\ g[4] - j * s \in Int /\ g[4] - j * s - s < g[4] - j * s
  BY <1>1
<1>8. /\ p = <<p[1], p[2]>> /\ p[1] \in Int /\ p[2] \in Int
      /\ g[1] <= p[1] /\ p[1] <= p[2] /\ p[2] <= g[3]
      /\ r[1] - m <= p[1]
      /\ p[2] <= r[3] + m
      /\ g[4] - j * s - s <= r[4] + m /\ r[2] - m <= g[4] - j * s
  BY <1>1, <1>6, <1>7, BandPieceIs DEF g
<1>9. p \in Int \X Int
  BY <1>8
<1> QED
  BY <1>3, <1>5, <1>8, <1>9 DEF s, m, w, g

\* The filter lets a meta tile of a range through.
LEMMA RangedIsFiltered ==
  ASSUME Pyramid!PyramidAssumption, NEW l \in SeedLayers, NEW z \in Pyramid!Zooms,
         NEW j \in 0 .. Pyramid!Height(Pyramid!MetaSpan(z)) - 1,
         NEW R \in Pyramid!RowRanges(l, z, j), NEW i \in R[1] .. R[2]
  PROVE  Pyramid!FilterTilecoord(l, Pyramid!MetaTile(z, i, j))
<1> DEFINE s == Pyramid!MetaSpan(z)
           m == Pyramid!Buffer(l, z)
           g == Pyramid!GridBox
           w == Pyramid!Width(s) - 1
           border == (l.pxBuffer + MetaBuffer) * Grid.resolutions[z]
           t == Pyramid!TileBox(z, i * MetaSize, j * MetaSize, MetaSize, border)
<1>1. i \in 0 .. w
  BY RangedTouches
<1>2. PICK r \in Pyramid!GetGeoms(l, z), p \in Int \X Int :
        /\ g[1] <= p[1] /\ p[1] <= p[2] /\ p[2] <= g[3]
        /\ r[1] - m <= p[1] /\ p[2] <= r[3] + m
        /\ g[4] - j * s - s <= r[4] + m /\ r[2] - m <= g[4] - j * s
        /\ p[1] - g[1] < i * s + s \/ i = w
        /\ i * s < p[2] - g[1] \/ i = 0
  BY RangedTouches
<1>3. /\ s \in Nat \ {0} /\ m \in Nat /\ \A k \in 1 .. 4 : g[k] \in Int
      /\ i \in Nat /\ j \in Nat /\ i * s \in Nat /\ j * s \in Nat
      /\ i = w => i * s + s >= g[3] - g[1]
  BY <1>1, SpansAre, BufferIs, GridIs, MatrixIs
<1>4. border \in Nat /\ m <= border
  BY BufferIs
<1>5. /\ t[1] = g[1] + i * s - border /\ t[2] = g[4] - j * s - s - border
      /\ t[3] = g[1] + i * s + s + border /\ t[4] = g[4] - j * s + border
  <2>1. i \in Nat /\ j \in Nat /\ border \in Int
    BY <1>3, <1>4
  <2> HIDE DEF border
  <2> QED
    BY <2>1, MetaBoxIs
<1>6. r[1] \in Int /\ r[2] \in Int /\ r[3] \in Int /\ r[4] \in Int
  BY GeomsAre
<1>7. Pyramid!FilterTilecoord(l, Pyramid!MetaTile(z, i, j)) <=>
        \E q \in Pyramid!GetGeoms(l, z) : Pyramid!Intersects(t, q)
  BY DEF Pyramid!FilterTilecoord, Pyramid!MetaTile
<1> HIDE DEF s, m, w, g, border, t
<1>8. i = 0 => i * s = 0
  BY <1>3
<1>9. t[1] <= r[3] /\ r[1] <= t[3] /\ t[2] <= r[4] /\ r[2] <= t[4]
  BY <1>2, <1>3, <1>4, <1>5, <1>6, <1>8
<1> QED
  BY <1>7, <1>9 DEF Pyramid!Intersects

\* A distance in meta tiles of ms tiles of a span ts.
LEMMA FloorOfFloor ==
  ASSUME NEW x \in Int, NEW ts \in Nat \ {0}, NEW ms \in Nat \ {0}, NEW k \in Int
  PROVE  /\ x \div ts \in Int
         /\ (k * ms <= x \div ts) <=> (k * (ms * ts) <= x)
<1>1. /\ x \div ts \in Int
      /\ (k * ms) * ts = k * (ms * ts) /\ k * ms \in Int
  OBVIOUS
<1>2. k * ms <= x \div ts <=> (k * ms) * ts <= x
  <2>1. \A n \in Int : n <= Pyramid!Floor(x, ts) <=> n * ts <= x
    BY FloorIs
  <2> QED
    BY <1>1, <2>1 DEF Pyramid!Floor
<1> QED
  BY <1>1, <1>2

\* The numbers between two of them, in meta tiles.
LEMMA BetweenMetaTiles ==
  ASSUME NEW a \in Int, NEW b \in Int, NEW ms \in Nat \ {0}, NEW k \in Int,
         ~((k + 1) * ms <= a), k * ms <= b
  PROVE  k \in Pyramid!Min({a, b}) \div ms .. Pyramid!Max({a, b}) \div ms
<1> DEFINE lo == Pyramid!Min({a, b})
           hi == Pyramid!Max({a, b})
<1>1. lo \in Int /\ hi \in Int /\ lo <= a /\ hi >= b
  BY MinOfTwo, MaxOfTwo
<1> HIDE DEF lo, hi
<1>2. /\ lo \div ms \in Int /\ hi \div ms \in Int
      /\ \A n \in Int : n <= lo \div ms <=> n * ms <= lo
      /\ \A n \in Int : n <= hi \div ms <=> n * ms <= hi
  BY <1>1, FloorIs DEF Pyramid!Floor
<1>3. k * ms \in Int /\ (k + 1) * ms \in Int /\ k + 1 \in Int
  OBVIOUS
<1>4. k <= hi \div ms
  BY <1>1, <1>2, <1>3
<1>5. ~(k + 1 <= lo \div ms)
  BY <1>1, <1>2, <1>3
<1>6. k \in lo \div ms .. hi \div ms
  BY <1>2, <1>4, <1>5
<1> QED
  BY <1>6 DEF lo, hi

\* A local generation goes through a meta tile of a range, but for a geometry that is after
\* the grid.
LEMMA RangedIsLocal ==
  ASSUME Pyramid!PyramidAssumption, layer \in SeedLayers, NEW z \in Pyramid!Zooms,
         NEW j \in Pyramid!Indices(Pyramid!RowRange(layer, z)),
         NEW R \in Pyramid!RowRanges(layer, z, j), NEW i \in R[1] .. R[2],
         ~Pyramid!IsAfterGrid(z)
  PROVE  Pyramid!MetaTile(z, i, j) \in Pyramid!LocalTiles(layer, z)
<1> DEFINE s == Pyramid!MetaSpan(z)
           u == Pyramid!TileSpan(z)
           m == Pyramid!Buffer(layer, z)
           g == Pyramid!GridBox
           w == Pyramid!Width(s) - 1
           h == Pyramid!Height(s) - 1
           geoms == Pyramid!GetGeoms(layer, z)
           x1 == Pyramid!Min({r[1] : r \in geoms}) - m
           y1 == Pyramid!Min({r[2] : r \in geoms}) - m
           x2 == Pyramid!Max({r[3] : r \in geoms}) + m
           y2 == Pyramid!Max({r[4] : r \in geoms}) + m
           a == Pyramid!TileAt(z, Pyramid!Max({x1, g[1]}), Pyramid!Min({y2, g[4]}))
           b == Pyramid!TileAt(z, Pyramid!Min({x2, g[3]}), Pyramid!Max({y1, g[2]}))
<1>1. /\ j \in 0 .. h
      /\ g[4] - y2 < j * s + s \/ j = h
      /\ j * s < g[4] - y1 \/ j = 0
  BY RowRangeIs
<1>2. i \in 0 .. w
  BY <1>1, RangedTouches
<1>3. PICK r \in geoms, p \in Int \X Int :
        /\ g[1] <= p[1] /\ p[1] <= p[2] /\ p[2] <= g[3]
        /\ r[1] - m <= p[1] /\ p[2] <= r[3] + m
        /\ g[4] - j * s - s <= r[4] + m /\ r[2] - m <= g[4] - j * s
        /\ p[1] - g[1] < i * s + s \/ i = w
        /\ i * s < p[2] - g[1] \/ i = 0
  BY <1>1, RangedTouches
<1>4. /\ s \in Nat \ {0} /\ u \in Nat \ {0} /\ MetaSize \in Nat \ {0} /\ s = MetaSize * u
      /\ m \in Nat /\ \A k \in 1 .. 4 : g[k] \in Int
  BY SpansAre, BufferIs, GridIs
<1>5. /\ i \in Nat /\ j \in Nat /\ i * s \in Nat /\ j * s \in Nat
      /\ i = w => i * s + s >= g[3] - g[1]
      /\ j = h => j * s + s >= g[4] - g[2]
      /\ i * s < g[3] - g[1] /\ j * s < g[4] - g[2]
  <2>1. /\ i * s \in Nat /\ i * s < g[3] - g[1]
        /\ i = w => i * s + s >= g[3] - g[1]
    BY <1>2, <1>4, MatrixIs
  <2>2. /\ j * s \in Nat /\ j * s < g[4] - g[2]
        /\ j = h => j * s + s >= g[4] - g[2]
    BY <1>1, <1>4, MatrixIs
  <2>3. i \in Nat /\ j \in Nat
    BY <1>1, <1>2
  <2> QED BY <2>1, <2>2, <2>3
<1>6. /\ x1 \in Int /\ y1 \in Int /\ x2 \in Int /\ y2 \in Int
      /\ x1 <= r[1] - m /\ y1 <= r[2] - m /\ x2 >= r[3] + m /\ y2 >= r[4] + m
      /\ \A k \in 1 .. 4 : r[k] \in Int
  <2> DEFINE a1 == Pyramid!Min({q[1] : q \in geoms})
             a2 == Pyramid!Min({q[2] : q \in geoms})
             a3 == Pyramid!Max({q[3] : q \in geoms})
             a4 == Pyramid!Max({q[4] : q \in geoms})
  <2>1. /\ a1 \in Int /\ a2 \in Int /\ a3 \in Int /\ a4 \in Int
        /\ a1 <= r[1] /\ a2 <= r[2] /\ a3 >= r[3] /\ a4 >= r[4]
    BY SidesAre
  <2>2. \A k \in 1 .. 4 : r[k] \in Int
    BY GeomsAre
  <2>3. x1 = a1 - m /\ y1 = a2 - m /\ x2 = a3 + m /\ y2 = a4 + m
    OBVIOUS
  <2>4. m \in Nat
    BY <1>4
  <2> HIDE DEF a1, a2, a3, a4, x1, x2, y1, y2, m, geoms
  <2>5. r[1] \in Int /\ r[2] \in Int /\ r[3] \in Int /\ r[4] \in Int
    BY <2>2
  <2> QED
    BY <2>1, <2>2, <2>3, <2>4, <2>5
<1>7. x1 < g[3] /\ y2 > g[2]
  BY <1>4, <1>6 DEF Pyramid!IsAfterGrid
<1>8. geoms # {} /\ Pyramid!LocalTiles(layer, z) =
        {Pyramid!MetaTile(z, c, d) :
           c \in Pyramid!Min({a[1], b[1]}) \div MetaSize .. Pyramid!Max({a[1], b[1]}) \div MetaSize,
           d \in Pyramid!Min({a[2], b[2]}) \div MetaSize .. Pyramid!Max({a[2], b[2]}) \div MetaSize}
  BY <1>3 DEF Pyramid!LocalTiles
<1> DEFINE ax == Pyramid!Max({x1, g[1]}) - g[1]
           ay == g[4] - Pyramid!Min({y2, g[4]})
           bx == Pyramid!Min({x2, g[3]}) - g[1]
           by == g[4] - Pyramid!Max({y1, g[2]})
<1>9. a = <<ax \div u, ay \div u>> /\ b = <<bx \div u, by \div u>>
  BY DEF Pyramid!TileAt
<1> HIDE DEF s, u, m, g, w, h, geoms, x1, y1, x2, y2, a, b
<1>10. /\ ax \in Int /\ ay \in Int /\ bx \in Int /\ by \in Int
       /\ ax < i * s + s /\ i * s <= bx /\ ay < j * s + s /\ j * s <= by
  <2>1. /\ Pyramid!Max({x1, g[1]}) = IF x1 >= g[1] THEN x1 ELSE g[1]
        /\ Pyramid!Min({y2, g[4]}) = IF y2 <= g[4] THEN y2 ELSE g[4]
        /\ Pyramid!Min({x2, g[3]}) = IF x2 <= g[3] THEN x2 ELSE g[3]
        /\ Pyramid!Max({y1, g[2]}) = IF y1 >= g[2] THEN y1 ELSE g[2]
    BY <1>4, <1>6, MinOfTwo, MaxOfTwo
  <2>2. (i = 0 => i * s = 0) /\ (j = 0 => j * s = 0)
    BY <1>4
  <2> QED
    BY <1>1, <1>3, <1>4, <1>5, <1>6, <1>7, <2>1, <2>2
<1> HIDE DEF ax, ay, bx, by
<1>11. /\ i + 1 \in Int /\ (i + 1) * s = i * s + s /\ j + 1 \in Int /\ (j + 1) * s = j * s + s
       /\ i \in Int /\ j \in Int
  BY <1>4, <1>5
<1>12. /\ ax \div u \in Int /\ bx \div u \in Int
       /\ ~((i + 1) * MetaSize <= ax \div u) /\ i * MetaSize <= bx \div u
  <2>1. /\ ax \div u \in Int /\ bx \div u \in Int
        /\ (i + 1) * MetaSize <= ax \div u <=> (i + 1) * (MetaSize * u) <= ax
        /\ i * MetaSize <= bx \div u <=> i * (MetaSize * u) <= bx
    BY <1>4, <1>10, <1>11, FloorOfFloor
  <2> QED
    BY <1>4, <1>10, <1>11, <2>1
<1>13. /\ ay \div u \in Int /\ by \div u \in Int
       /\ ~((j + 1) * MetaSize <= ay \div u) /\ j * MetaSize <= by \div u
  <2>1. /\ ay \div u \in Int /\ by \div u \in Int
        /\ (j + 1) * MetaSize <= ay \div u <=> (j + 1) * (MetaSize * u) <= ay
        /\ j * MetaSize <= by \div u <=> j * (MetaSize * u) <= by
    BY <1>4, <1>10, <1>11, FloorOfFloor
  <2> QED
    BY <1>4, <1>10, <1>11, <2>1
<1>14. /\ a[1] = ax \div u /\ a[2] = ay \div u /\ b[1] = bx \div u /\ b[2] = by \div u
  BY <1>9
<1>15. i \in Pyramid!Min({a[1], b[1]}) \div MetaSize .. Pyramid!Max({a[1], b[1]}) \div MetaSize
  BY <1>4, <1>11, <1>12, <1>14, BetweenMetaTiles
<1>16. j \in Pyramid!Min({a[2], b[2]}) \div MetaSize .. Pyramid!Max({a[2], b[2]}) \div MetaSize
  BY <1>4, <1>11, <1>13, <1>14, BetweenMetaTiles
<1> QED
  BY <1>8, <1>15, <1>16
-----------------------------------------------------------------------------
(* The pyramid: what is kept.                                              *)

\* The columns to put of a row of a zoom.
ColumnsOf(z, n) == UNION {R[1] .. R[2] : R \in Pyramid!RowRanges(layer, z, n)}
RowsOf(z) == Pyramid!Indices(Pyramid!RowRange(layer, z))

\* The columns of some intervals, and those left of the row.
ColumnsIn(ints) == UNION {ints[a][1] .. ints[a][2] : a \in DOMAIN ints}
Pending == (UNION {r[1] .. r[2] : r \in ranges}) \cup ColumnsIn(intervals)

\* A meta tile the generator did not come to.
Awaited(z, n, i) ==
  z \in zooms \/ (z = pyramidZoom /\ (n \in rows \/ (n = row /\ i \in Pending)))

IsRange(r) == r \in Nat \X Nat /\ r[1] <= r[2]

\* The intervals follow each other and do not touch.
AreApart(ints) ==
  /\ ints \in Seq(Nat \X Nat) /\ \A a \in DOMAIN ints : ints[a][1] <= ints[a][2]
  /\ \A a, b \in DOMAIN ints : a < b => ints[a][2] + 1 < ints[b][1]

Begin(ints, rs) == \A a \in DOMAIN ints, r \in rs : ints[a][1] <= r[1]

\* Of the meta tiles to put, those that are put are those the generator came to.
PyramidInv ==
  /\ layer \in SeedLayers
  /\ zooms \subseteq Pyramid!Zooms /\ pyramidZoom \in {0} \cup Pyramid!Zooms
  /\ pyramidZoom \notin zooms
  /\ rows # {} => pyramidZoom \in Pyramid!Zooms /\ rows \subseteq RowsOf(pyramidZoom)
  /\ \A r \in ranges : IsRange(r)
  /\ AreApart(intervals) /\ Begin(intervals, ranges)
  /\ Pending # {} => /\ pyramidZoom \in Pyramid!Zooms /\ row \in RowsOf(pyramidZoom)
                     /\ row \notin rows /\ Pending \subseteq ColumnsOf(pyramidZoom, row)
  /\ out \in Seq([z : Int, x : Int, y : Int]) /\ queue = out /\ Pyramid!EachOnce
  /\ \A a \in DOMAIN out : \E z \in Pyramid!Zooms : \E n \in RowsOf(z) : \E i \in ColumnsOf(z, n) :
       out[a] = Pyramid!MetaTile(z, i, n)
  /\ \A z \in Pyramid!Zooms : \A n \in RowsOf(z) : \A i \in ColumnsOf(z, n) :
       Pyramid!MetaTile(z, i, n) \in Pyramid!OutSet <=> ~Awaited(z, n, i)

\* The ends of the intervals are numbers.
LEMMA ApartAre ==
  ASSUME NEW ints, AreApart(ints)
  PROVE  /\ Len(ints) \in Nat /\ DOMAIN ints = 1 .. Len(ints)
         /\ \A a \in DOMAIN ints :
              /\ ints[a] = <<ints[a][1], ints[a][2]>>
              /\ ints[a][1] \in Nat /\ ints[a][2] \in Nat /\ ints[a][1] <= ints[a][2]
BY DEF AreApart

\* A range is merged into the last interval, or after it.
LEMMA MergedIs ==
  ASSUME NEW ints, AreApart(ints), NEW r, IsRange(r),
         \A a \in DOMAIN ints : ints[a][1] <= r[1]
  PROVE  LET M == Pyramid!Merged(ints, r)
         IN  /\ AreApart(M)
             /\ ColumnsIn(M) = ColumnsIn(ints) \cup (r[1] .. r[2])
             /\ \A a \in DOMAIN M : M[a][1] = r[1] \/ (a \in DOMAIN ints /\ M[a][1] = ints[a][1])
<1> DEFINE M == Pyramid!Merged(ints, r)
           n == Len(ints)
<1>1. /\ n \in Nat /\ DOMAIN ints = 1 .. n
      /\ \A a \in DOMAIN ints :
           /\ ints[a] = <<ints[a][1], ints[a][2]>>
           /\ ints[a][1] \in Nat /\ ints[a][2] \in Nat /\ ints[a][1] <= ints[a][2]
  BY ApartAre
<1>2. /\ r[1] \in Nat /\ r[2] \in Nat /\ r[1] <= r[2] /\ r \in Nat \X Nat
  BY DEF IsRange
<1>3. ints \in Seq(Nat \X Nat) /\ \A a, b \in DOMAIN ints : a < b => ints[a][2] + 1 < ints[b][1]
  BY DEF AreApart
<1>4. CASE ints # <<>> /\ r[1] <= ints[n][2] + 1
  <2> DEFINE top == Pyramid!Max({ints[n][2], r[2]})
  <2>1. n \in DOMAIN ints
    BY <1>1, <1>3, <1>4
  <2>2. top = IF ints[n][2] >= r[2] THEN ints[n][2] ELSE r[2]
    BY <1>1, <1>2, <2>1, MaxOfTwo
  <2>3. M = [ints EXCEPT ![n] = <<ints[n][1], top>>]
    BY <1>4 DEF Pyramid!Merged
  <2> HIDE DEF M, top, n
  <2>4. /\ top \in Nat /\ <<ints[n][1], top>> \in Nat \X Nat
        /\ ints[n][1] <= top /\ ints[n][2] <= top /\ r[2] <= top
        /\ ints[n][1] <= r[1] /\ top \in {ints[n][2], r[2]}
    BY <1>1, <1>2, <2>1, <2>2
  <2>5. /\ M \in Seq(Nat \X Nat) /\ DOMAIN M = DOMAIN ints
        /\ \A a \in DOMAIN ints : M[a] = IF a = n THEN <<ints[n][1], top>> ELSE ints[a]
    BY <1>3, <2>1, <2>3, <2>4
  <2>6. \A a \in DOMAIN ints : /\ M[a][1] = ints[a][1]
                               /\ M[a][2] = IF a = n THEN top ELSE ints[a][2]
    BY <2>5
  <2>7. \A a \in DOMAIN M : M[a][1] <= M[a][2]
    BY <1>1, <2>4, <2>5, <2>6
  <2>8. \A a, b \in DOMAIN M : a < b => M[a][2] + 1 < M[b][1]
    <3> SUFFICES ASSUME NEW a \in DOMAIN ints, NEW b \in DOMAIN ints, a < b
                 PROVE  M[a][2] + 1 < M[b][1]
      BY <2>5
    <3>1. a # n
      BY <1>1
    <3> QED
      BY <1>3, <2>6, <3>1
  <2>9. AreApart(M)
    BY <2>5, <2>7, <2>8 DEF AreApart
  <2>10. ints[n][1] .. top = (ints[n][1] .. ints[n][2]) \cup (r[1] .. r[2])
    BY <1>1, <1>2, <1>4, <2>1, <2>4 DEF n
  <2>11. \A a \in DOMAIN ints : M[a][1] .. M[a][2] =
           IF a = n THEN (ints[a][1] .. ints[a][2]) \cup (r[1] .. r[2])
           ELSE ints[a][1] .. ints[a][2]
    <3> SUFFICES ASSUME NEW a \in DOMAIN ints
                 PROVE  M[a][1] .. M[a][2] =
                          IF a = n THEN (ints[a][1] .. ints[a][2]) \cup (r[1] .. r[2])
                          ELSE ints[a][1] .. ints[a][2]
      OBVIOUS
    <3>1. M[a][1] = ints[a][1] /\ M[a][2] = IF a = n THEN top ELSE ints[a][2]
      BY <2>6
    <3>2. CASE a = n
      BY <3>1, <3>2, <2>10
    <3>3. CASE a # n
      BY <3>1, <3>3
    <3> QED
      BY <3>2, <3>3
  <2>12. ColumnsIn(M) = ColumnsIn(ints) \cup (r[1] .. r[2])
    <3>1. ASSUME NEW c \in ColumnsIn(M)
          PROVE  c \in ColumnsIn(ints) \cup (r[1] .. r[2])
      <4>1. PICK a \in DOMAIN ints : c \in M[a][1] .. M[a][2]
        BY <3>1, <2>5 DEF ColumnsIn
      <4> QED
        BY <4>1, <2>11 DEF ColumnsIn
    <3>2. ASSUME NEW c \in ColumnsIn(ints)
          PROVE  c \in ColumnsIn(M)
      <4>1. PICK a \in DOMAIN ints : c \in ints[a][1] .. ints[a][2]
        BY <3>2 DEF ColumnsIn
      <4>2. c \in M[a][1] .. M[a][2]
        BY <4>1, <2>11
      <4> QED
        BY <4>2, <2>5 DEF ColumnsIn
    <3>3. ASSUME NEW c \in r[1] .. r[2]
          PROVE  c \in ColumnsIn(M)
      <4>1. c \in M[n][1] .. M[n][2]
        BY <2>1, <2>11
      <4> QED
        BY <4>1, <2>1, <2>5 DEF ColumnsIn
    <3> QED
      BY <3>1, <3>2, <3>3
  <2> QED
    BY <2>5, <2>6, <2>9, <2>12 DEF M
<1>5. CASE ~(ints # <<>> /\ r[1] <= ints[n][2] + 1)
  <2>1. M = Append(ints, r)
    BY <1>5 DEF Pyramid!Merged
  <2> HIDE DEF M, n
  <2>2. /\ M \in Seq(Nat \X Nat) /\ DOMAIN M = 1 .. n + 1
        /\ M[n + 1] = r /\ \A a \in 1 .. n : M[a] = ints[a]
    BY <1>1, <1>2, <1>3, <2>1 DEF n
  <2>3. \A a \in 1 .. n : ints[a][2] + 1 < r[1]
    <3> SUFFICES ASSUME NEW a \in 1 .. n
                 PROVE  ints[a][2] + 1 < r[1]
      OBVIOUS
    <3>1. ints # <<>> /\ n \in DOMAIN ints /\ a \in DOMAIN ints
      BY <1>1, <1>3 DEF n
    <3>2. ints[n][2] + 1 < r[1] /\ ints[n][1] <= ints[n][2]
      BY <1>1, <1>2, <1>5, <3>1
    <3>3. CASE a = n
      BY <3>2, <3>3
    <3>4. CASE a # n
      <4>1. a < n
        BY <1>1, <3>4
      <4>2. ints[a][2] + 1 < ints[n][1]
        BY <1>3, <3>1, <4>1
      <4> QED
        BY <1>1, <1>2, <3>1, <3>2, <4>2
    <3> QED
      BY <3>3, <3>4
  <2>4. \A a \in DOMAIN M : M[a][1] <= M[a][2]
    BY <1>1, <1>2, <2>2
  <2>5. \A a, b \in DOMAIN M : a < b => M[a][2] + 1 < M[b][1]
    <3> SUFFICES ASSUME NEW a \in DOMAIN M, NEW b \in DOMAIN M, a < b
                 PROVE  M[a][2] + 1 < M[b][1]
      OBVIOUS
    <3>1. a \in 1 .. n /\ M[a] = ints[a] /\ a \in DOMAIN ints
      BY <1>1, <2>2
    <3>2. CASE b = n + 1
      BY <2>2, <2>3, <3>1, <3>2
    <3>3. CASE b # n + 1
      <4>1. b \in DOMAIN ints /\ M[b] = ints[b]
        BY <1>1, <2>2, <3>3
      <4> QED
        BY <1>3, <3>1, <4>1
    <3> QED
      BY <3>2, <3>3
  <2>6. AreApart(M)
    BY <2>2, <2>4, <2>5 DEF AreApart
  <2>7. ColumnsIn(M) = ColumnsIn(ints) \cup (r[1] .. r[2])
    <3>1. ASSUME NEW c \in ColumnsIn(M)
          PROVE  c \in ColumnsIn(ints) \cup (r[1] .. r[2])
      <4>1. PICK a \in DOMAIN M : c \in M[a][1] .. M[a][2]
        BY <3>1 DEF ColumnsIn
      <4>2. a = n + 1 \/ a \in DOMAIN ints
        BY <1>1, <2>2
      <4> QED
        BY <1>1, <2>2, <4>1, <4>2 DEF ColumnsIn
    <3>2. ASSUME NEW c \in ColumnsIn(ints)
          PROVE  c \in ColumnsIn(M)
      <4>1. PICK a \in DOMAIN ints : c \in ints[a][1] .. ints[a][2]
        BY <3>2 DEF ColumnsIn
      <4>2. a \in DOMAIN M /\ M[a] = ints[a]
        BY <1>1, <2>2
      <4> QED
        BY <4>1, <4>2 DEF ColumnsIn
    <3>3. ASSUME NEW c \in r[1] .. r[2]
          PROVE  c \in ColumnsIn(M)
      <4>1. n + 1 \in DOMAIN M /\ M[n + 1] = r
        BY <1>1, <2>2
      <4> QED
        BY <4>1 DEF ColumnsIn
    <3> QED
      BY <3>1, <3>2, <3>3
  <2>8. \A a \in DOMAIN M : M[a][1] = r[1] \/ (a \in DOMAIN ints /\ M[a][1] = ints[a][1])
    <3> SUFFICES ASSUME NEW a \in DOMAIN M
                 PROVE  M[a][1] = r[1] \/ (a \in DOMAIN ints /\ M[a][1] = ints[a][1])
      OBVIOUS
    <3>1. a = n + 1 \/ a \in 1 .. n
      BY <1>1, <2>2
    <3> QED
      BY <1>1, <2>2, <3>1
  <2> QED
    BY <2>6, <2>7, <2>8 DEF M
<1> QED
  BY <1>4, <1>5

\* The first column of the first interval is taken.
LEMMA YieldedIs ==
  ASSUME NEW ints, AreApart(ints), ints # <<>>
  PROVE  LET T == IF ints[1][1] = ints[1][2] THEN Tail(ints)
                  ELSE [ints EXCEPT ![1] = <<ints[1][1] + 1, ints[1][2]>>]
         IN  /\ AreApart(T)
             /\ ints[1][1] \in ColumnsIn(ints) /\ ColumnsIn(T) = ColumnsIn(ints) \ {ints[1][1]}
<1> DEFINE first == ints[1][1]
           T == IF first = ints[1][2] THEN Tail(ints)
                ELSE [ints EXCEPT ![1] = <<first + 1, ints[1][2]>>]
           n == Len(ints)
<1>1. /\ n \in Nat /\ DOMAIN ints = 1 .. n
      /\ \A a \in DOMAIN ints :
           /\ ints[a] = <<ints[a][1], ints[a][2]>>
           /\ ints[a][1] \in Nat /\ ints[a][2] \in Nat /\ ints[a][1] <= ints[a][2]
  BY ApartAre
<1>2. ints \in Seq(Nat \X Nat) /\ \A a, b \in DOMAIN ints : a < b => ints[a][2] + 1 < ints[b][1]
  BY DEF AreApart
<1>3. 1 \in DOMAIN ints /\ first \in Nat /\ first <= ints[1][2] /\ ints[1][2] \in Nat
  BY <1>1, <1>2
<1>4. first \in ColumnsIn(ints)
  BY <1>3 DEF ColumnsIn
<1>5. \A a \in DOMAIN ints : a # 1 => first < ints[a][1]
  <2> SUFFICES ASSUME NEW a \in DOMAIN ints, a # 1
               PROVE  first < ints[a][1]
    OBVIOUS
  <2>1. 1 < a
    BY <1>1
  <2>2. ints[1][2] + 1 < ints[a][1]
    BY <1>2, <1>3, <2>1
  <2> QED
    BY <1>1, <1>3, <2>2
<1>6. CASE first = ints[1][2]
  <2>1. T = Tail(ints)
    BY <1>6
  <2> HIDE DEF T, n, first
  <2>2. /\ T \in Seq(Nat \X Nat) /\ DOMAIN T = 1 .. n - 1
        /\ \A a \in DOMAIN T : a + 1 \in DOMAIN ints /\ a + 1 # 1 /\ T[a] = ints[a + 1]
    <3> DEFINE C == Nat \X Nat
    <3>1. ints \in Seq(C)
      BY <1>2
    <3> HIDE DEF C
    <3>2. /\ T \in Seq(C) /\ Len(T) = n - 1 /\ DOMAIN T = 1 .. Len(T)
          /\ \A a \in 1 .. Len(T) : T[a] = ints[a + 1]
      BY <2>1, <3>1, HeadTailProperties DEF n
    <3>3. \A a \in 1 .. n - 1 : a + 1 \in 1 .. n /\ a + 1 # 1
      BY <1>1 DEF n
    <3> QED BY <1>1, <3>2, <3>3 DEF C, n
  <2>3. /\ \A a \in DOMAIN T : T[a][1] <= T[a][2]
        /\ \A a, b \in DOMAIN T : a < b => T[a][2] + 1 < T[b][1]
    <3>1. \A a \in DOMAIN T : T[a][1] <= T[a][2]
      BY <1>1, <2>2
    <3>2. ASSUME NEW a \in DOMAIN T, NEW b \in DOMAIN T, a < b
          PROVE  T[a][2] + 1 < T[b][1]
      <4> DEFINE c == a + 1
                 d == b + 1
      <4>1. c \in DOMAIN ints /\ d \in DOMAIN ints /\ T[a] = ints[c] /\ T[b] = ints[d]
        BY <2>2
      <4>2. c < d
        BY <1>1, <2>2, <3>2
      <4> HIDE DEF c, d
      <4> QED
        BY <1>2, <4>1, <4>2
    <3> QED
      BY <3>1, <3>2
  <2>4. AreApart(T)
    BY <2>2, <2>3 DEF AreApart
  <2>5. ASSUME NEW c \in ColumnsIn(T)
        PROVE  c \in ColumnsIn(ints) \ {first}
    <3>1. PICK a \in DOMAIN T : c \in T[a][1] .. T[a][2]
      BY <2>5 DEF ColumnsIn
    <3>2. a + 1 \in DOMAIN ints /\ a + 1 # 1 /\ T[a] = ints[a + 1]
      BY <2>2
    <3> DEFINE b == a + 1
    <3>3. b \in DOMAIN ints /\ b # 1 /\ T[a] = ints[b]
      BY <3>2
    <3> HIDE DEF b
    <3>4. c # first
      BY <1>1, <1>3, <1>5, <3>1, <3>3
    <3> QED
      BY <3>1, <3>3, <3>4 DEF ColumnsIn
  <2>6. ASSUME NEW c \in ColumnsIn(ints) \ {first}
        PROVE  c \in ColumnsIn(T)
    <3>1. PICK a \in DOMAIN ints : c \in ints[a][1] .. ints[a][2]
      BY <2>6 DEF ColumnsIn
    <3>2. a # 1
      BY <1>3, <1>6, <2>6, <3>1 DEF first
    <3> DEFINE b == a - 1
    <3>3. b \in DOMAIN T /\ T[b] = ints[a]
      BY <1>1, <2>2, <3>2
    <3> HIDE DEF b
    <3> QED
      BY <3>1, <3>3 DEF ColumnsIn
  <2>7. ColumnsIn(T) = ColumnsIn(ints) \ {first}
    BY <2>5, <2>6
  <2> QED
    BY <1>4, <2>4, <2>7 DEF T, first
<1>7. CASE first # ints[1][2]
  <2>1. T = [ints EXCEPT ![1] = <<first + 1, ints[1][2]>>]
    BY <1>7
  <2> HIDE DEF T, n, first
  <2>2. first + 1 \in Nat /\ first + 1 <= ints[1][2] /\ <<first + 1, ints[1][2]>> \in Nat \X Nat
    BY <1>3, <1>7
  <2>3. /\ T \in Seq(Nat \X Nat) /\ DOMAIN T = DOMAIN ints
        /\ \A a \in DOMAIN ints : T[a] = IF a = 1 THEN <<first + 1, ints[1][2]>> ELSE ints[a]
    BY <1>2, <1>3, <2>1, <2>2
  <2>4. \A a \in DOMAIN ints : /\ T[a][1] = IF a = 1 THEN first + 1 ELSE ints[a][1]
                               /\ T[a][2] = ints[a][2]
    BY <2>3
  <2>5. \A a \in DOMAIN T : T[a][1] <= T[a][2]
    BY <1>1, <2>2, <2>3, <2>4
  <2>6. \A a, b \in DOMAIN T : a < b => T[a][2] + 1 < T[b][1]
    <3> SUFFICES ASSUME NEW a \in DOMAIN ints, NEW b \in DOMAIN ints, a < b
                 PROVE  T[a][2] + 1 < T[b][1]
      BY <2>3
    <3>1. b # 1
      BY <1>1
    <3> QED
      BY <1>2, <2>4, <3>1
  <2>7. AreApart(T)
    BY <2>3, <2>5, <2>6 DEF AreApart
  <2>8. ASSUME NEW c \in ColumnsIn(T)
        PROVE  c \in ColumnsIn(ints) \ {first}
    <3>1. PICK a \in DOMAIN ints : c \in T[a][1] .. T[a][2]
      BY <2>3, <2>8 DEF ColumnsIn
    <3>2. c \in ints[a][1] .. ints[a][2] /\ c # first
      <4>1. CASE a = 1
        BY <1>3, <2>4, <3>1, <4>1 DEF first
      <4>2. CASE a # 1
        BY <1>1, <1>3, <1>5, <2>4, <3>1, <4>2
      <4> QED
        BY <4>1, <4>2
    <3> QED
      BY <3>2 DEF ColumnsIn
  <2>9. ASSUME NEW c \in ColumnsIn(ints) \ {first}
        PROVE  c \in ColumnsIn(T)
    <3>1. PICK a \in DOMAIN ints : c \in ints[a][1] .. ints[a][2]
      BY <2>9 DEF ColumnsIn
    <3>2. c \in T[a][1] .. T[a][2]
      <4>1. CASE a = 1
        BY <1>3, <2>4, <2>9, <3>1, <4>1 DEF first
      <4>2. CASE a # 1
        BY <2>4, <3>1, <4>2
      <4> QED
        BY <4>1, <4>2
    <3> QED
      BY <2>3, <3>2 DEF ColumnsIn
  <2>10. ColumnsIn(T) = ColumnsIn(ints) \ {first}
    BY <2>8, <2>9
  <2> QED
    BY <1>4, <2>7, <2>10 DEF T, first
<1> QED
  BY <1>6, <1>7

\* The rows and the columns to put are in the matrix.
LEMMA ToPutAre ==
  ASSUME Pyramid!PyramidAssumption, layer \in SeedLayers,
         NEW z \in Pyramid!Zooms, NEW n \in RowsOf(z)
  PROVE  /\ n \in 0 .. Pyramid!Height(Pyramid!MetaSpan(z)) - 1
         /\ \A R \in Pyramid!RowRanges(layer, z, n) : IsRange(R)
         /\ ColumnsOf(z, n) \subseteq 0 .. Pyramid!Width(Pyramid!MetaSpan(z)) - 1
<1>1. n \in 0 .. Pyramid!Height(Pyramid!MetaSpan(z)) - 1
  BY RowRangeIs DEF RowsOf
<1> DEFINE w == Pyramid!Width(Pyramid!MetaSpan(z)) - 1
<1>2. w \in Nat
  BY MatrixIs, SpansAre
<1>3. \A R \in Pyramid!RowRanges(layer, z, n) :
        R = <<R[1], R[2]>> /\ R[1] \in 0 .. w /\ R[2] \in 0 .. w /\ R[1] <= R[2]
  BY <1>1, RowRangesAre
<1> HIDE DEF w
<1>4. \A R \in Pyramid!RowRanges(layer, z, n) : IsRange(R) /\ R[1] .. R[2] \subseteq 0 .. w
  BY <1>2, <1>3 DEF IsRange
<1>5. ColumnsOf(z, n) \subseteq 0 .. w
  BY <1>4 DEF ColumnsOf
<1> QED
  BY <1>1, <1>4, <1>5 DEF w

\* A meta tile has its zoom, its column and its row.
LEMMA MetaTileIs ==
  ASSUME Pyramid!PyramidAssumption, layer \in SeedLayers,
         NEW z \in Pyramid!Zooms, NEW n \in RowsOf(z), NEW i \in ColumnsOf(z, n)
  PROVE  LET t == Pyramid!MetaTile(z, i, n)
         IN  /\ t \in [z : Int, x : Int, y : Int]
             /\ i \in Nat /\ n \in Nat
             /\ t.z = z /\ t.x \div MetaSize = i /\ t.y \div MetaSize = n
<1> DEFINE t == Pyramid!MetaTile(z, i, n)
<1>1. i \in Nat /\ n \in Nat
  BY ToPutAre, MatrixIs, SpansAre
<1>2. MetaSize \in Nat \ {0} /\ z \in Int
  BY DEF Pyramid!PyramidAssumption, Pyramid!Zooms
<1>3. t.z = z /\ t.x = i * MetaSize /\ t.y = n * MetaSize /\ t \in [z : Int, x : Int, y : Int]
  BY <1>1, <1>2 DEF Pyramid!MetaTile
<1>4. \A k \in Nat : (k * MetaSize) \div MetaSize = k
  <2> SUFFICES ASSUME NEW k \in Nat
               PROVE  (k * MetaSize) \div MetaSize = k
    OBVIOUS
  <2> DEFINE q == Pyramid!Floor(k * MetaSize, MetaSize)
  <2>1. k * MetaSize \in Int /\ (k + 1) * MetaSize = k * MetaSize + MetaSize
    BY <1>2, ProductGrows
  <2>2. q \in Int /\ \A c \in Int : c <= q <=> c * MetaSize <= k * MetaSize
    BY <1>2, <2>1, FloorIs
  <2> HIDE DEF q
  <2>3. k <= q /\ ~(k + 1 <= q)
    BY <1>2, <2>1, <2>2
  <2>4. q = k
    BY <2>2, <2>3
  <2> QED
    BY <2>4 DEF q, Pyramid!Floor
<1> HIDE DEF t
<1>5. t.x \div MetaSize = i /\ t.y \div MetaSize = n
  BY <1>1, <1>3, <1>4
<1> QED
  BY <1>1, <1>3, <1>5 DEF t

\* Nothing is pending between two rows.
LEMMA NothingPending ==
  ASSUME ranges = {}, intervals = <<>>
  PROVE  Pending = {}
<1>1. DOMAIN intervals = {}
  OBVIOUS
<1> QED
  BY <1>1 DEF Pending, ColumnsIn

\* What depends on the layer only.
LEMMA SameToPut ==
  ASSUME layer' = layer
  PROVE  /\ \A z : RowsOf(z)' = RowsOf(z)
         /\ \A z, n : ColumnsOf(z, n)' = ColumnsOf(z, n)
BY DEF RowsOf, ColumnsOf

\* Nothing is put, and every zoom is awaited.
LEMMA PyramidStarts ==
  ASSUME Pyramid!PyramidAssumption, Pyramid!Init
  PROVE  PyramidInv
<1>1. /\ layer \in SeedLayers /\ zooms = Pyramid!Zooms /\ pyramidZoom = 0
      /\ rows = {} /\ ranges = {} /\ intervals = <<>> /\ out = <<>> /\ queue = <<>>
  BY DEF Pyramid!Init
<1>2. Pending = {}
  BY <1>1, NothingPending
<1>3. 0 \notin Pyramid!Zooms
  BY DEF Pyramid!PyramidAssumption, Pyramid!Zooms
<1>4. DOMAIN intervals = {} /\ DOMAIN out = {} /\ Pyramid!OutSet = {}
  BY <1>1 DEF Pyramid!OutSet
<1>5. AreApart(intervals) /\ Begin(intervals, ranges)
  BY <1>1, <1>4 DEF AreApart, Begin
<1>6. out \in Seq([z : Int, x : Int, y : Int]) /\ queue = out /\ Pyramid!EachOnce
  BY <1>1, <1>4 DEF Pyramid!EachOnce
<1>7. \A z \in Pyramid!Zooms : \A n \in RowsOf(z) : \A i \in ColumnsOf(z, n) :
        Pyramid!MetaTile(z, i, n) \in Pyramid!OutSet <=> ~Awaited(z, n, i)
  BY <1>1, <1>4 DEF Awaited
<1> QED
  BY <1>1, <1>2, <1>3, <1>4, <1>5, <1>6, <1>7 DEF PyramidInv

\* The next zoom: all of it was awaited.
LEMMA NextZoomKeeps ==
  ASSUME Pyramid!PyramidAssumption, PyramidInv, Pyramid!NextZoom
  PROVE  PyramidInv'
<1>1. PICK y \in zooms :
        /\ pyramidZoom' = y /\ zooms' = zooms \ {y}
        /\ rows' = Pyramid!Indices(Pyramid!RowRange(layer, y))
  BY DEF Pyramid!NextZoom
<1>2. /\ rows = {} /\ ranges = {} /\ intervals = <<>>
      /\ layer' = layer /\ row' = row /\ ranges' = ranges /\ intervals' = intervals
      /\ out' = out /\ queue' = queue
  BY DEF Pyramid!NextZoom
<1>3. /\ \A z : RowsOf(z)' = RowsOf(z)
      /\ \A z, n : ColumnsOf(z, n)' = ColumnsOf(z, n)
  BY <1>2, SameToPut
<1>4. Pending = {} /\ Pending' = {}
  <2>1. Pending = {}
    BY <1>2, NothingPending
  <2> QED
    BY <1>2, <2>1 DEF Pending
<1>5. rows' = RowsOf(y) /\ y \in Pyramid!Zooms
  BY <1>1 DEF RowsOf, PyramidInv
<1>6. Pyramid!OutSet' = Pyramid!OutSet /\ Pyramid!EachOnce' = Pyramid!EachOnce
  BY <1>2 DEF Pyramid!OutSet, Pyramid!EachOnce
<1>7. \A z \in Pyramid!Zooms : \A n \in RowsOf(z) : \A i \in ColumnsOf(z, n) :
        Awaited(z, n, i)' <=> Awaited(z, n, i)
  BY <1>1, <1>2, <1>4, <1>5 DEF Awaited
<1>8. \A z \in Pyramid!Zooms : \A n \in RowsOf(z)' : \A i \in ColumnsOf(z, n)' :
        Pyramid!MetaTile(z, i, n) \in Pyramid!OutSet' <=> ~Awaited(z, n, i)'
  BY <1>3, <1>6, <1>7 DEF PyramidInv
<1>9. \A a \in DOMAIN out' :
        \E z \in Pyramid!Zooms : \E n \in RowsOf(z)' : \E i \in ColumnsOf(z, n)' :
          out'[a] = Pyramid!MetaTile(z, i, n)
  BY <1>2, <1>3 DEF PyramidInv
<1>10. AreApart(intervals)' /\ Begin(intervals, ranges)' /\ (\A r \in ranges : IsRange(r))'
  BY <1>2 DEF PyramidInv
<1> QED
  BY <1>1, <1>2, <1>3, <1>4, <1>5, <1>6, <1>8, <1>9, <1>10 DEF PyramidInv

\* The next row: all of it was awaited.
LEMMA NextRowKeeps ==
  ASSUME Pyramid!PyramidAssumption, PyramidInv, Pyramid!NextRow
  PROVE  PyramidInv'
<1>1. PICK k \in rows :
        /\ row' = k /\ rows' = rows \ {k}
        /\ ranges' = Pyramid!RowRanges(layer, pyramidZoom, k)
  BY DEF Pyramid!NextRow
<1>2. /\ ranges = {} /\ intervals = <<>>
      /\ layer' = layer /\ zooms' = zooms /\ pyramidZoom' = pyramidZoom
      /\ intervals' = intervals /\ out' = out /\ queue' = queue
  BY DEF Pyramid!NextRow
<1>3. /\ \A z : RowsOf(z)' = RowsOf(z)
      /\ \A z, n : ColumnsOf(z, n)' = ColumnsOf(z, n)
  BY <1>2, SameToPut
<1>4. Pending = {}
  BY <1>2, NothingPending
<1>5. /\ layer \in SeedLayers /\ pyramidZoom \in Pyramid!Zooms /\ k \in RowsOf(pyramidZoom)
      /\ pyramidZoom \notin zooms /\ rows \subseteq RowsOf(pyramidZoom)
  BY <1>1 DEF PyramidInv
<1>6. DOMAIN intervals = {} /\ intervals' = <<>> /\ DOMAIN intervals' = {}
  BY <1>2
<1>7. Pending' = ColumnsOf(pyramidZoom, k)
  BY <1>1, <1>6 DEF Pending, ColumnsIn, ColumnsOf
<1>8. \A r \in ranges' : IsRange(r)
  BY <1>1, <1>5, ToPutAre
<1>9. Pyramid!OutSet' = Pyramid!OutSet /\ Pyramid!EachOnce' = Pyramid!EachOnce
  BY <1>2 DEF Pyramid!OutSet, Pyramid!EachOnce
<1>10. \A z \in Pyramid!Zooms : \A n \in RowsOf(z) : \A i \in ColumnsOf(z, n) :
         Awaited(z, n, i)' <=> Awaited(z, n, i)
  BY <1>1, <1>2, <1>4, <1>7 DEF Awaited
<1>11. \A z \in Pyramid!Zooms : \A n \in RowsOf(z)' : \A i \in ColumnsOf(z, n)' :
         Pyramid!MetaTile(z, i, n) \in Pyramid!OutSet' <=> ~Awaited(z, n, i)'
  BY <1>3, <1>9, <1>10 DEF PyramidInv
<1>12. \A a \in DOMAIN out' :
         \E z \in Pyramid!Zooms : \E n \in RowsOf(z)' : \E i \in ColumnsOf(z, n)' :
           out'[a] = Pyramid!MetaTile(z, i, n)
  BY <1>2, <1>3 DEF PyramidInv
<1>13. AreApart(intervals)' /\ Begin(intervals, ranges)'
  BY <1>6 DEF AreApart, Begin
<1>14. /\ row' \in RowsOf(pyramidZoom)' /\ row' \notin rows'
       /\ Pending' \subseteq ColumnsOf(pyramidZoom, row)' /\ rows' \subseteq RowsOf(pyramidZoom)'
  BY <1>1, <1>2, <1>5, <1>7 DEF ColumnsOf, RowsOf
<1> QED
  BY <1>2, <1>5, <1>8, <1>9, <1>11, <1>12, <1>13, <1>14 DEF PyramidInv

\* A range is merged: the same columns are pending.
LEMMA MergeRangeKeeps ==
  ASSUME Pyramid!PyramidAssumption, PyramidInv, Pyramid!MergeRange
  PROVE  PyramidInv'
<1>1. PICK r \in ranges :
        /\ \A o \in ranges : Pyramid!Before(r, o)
        /\ ranges' = ranges \ {r} /\ intervals' = Pyramid!Merged(intervals, r)
  BY DEF Pyramid!MergeRange
<1>2. /\ layer' = layer /\ zooms' = zooms /\ pyramidZoom' = pyramidZoom /\ rows' = rows
      /\ row' = row /\ out' = out /\ queue' = queue
  BY DEF Pyramid!MergeRange
<1>3. /\ \A z : RowsOf(z)' = RowsOf(z)
      /\ \A z, n : ColumnsOf(z, n)' = ColumnsOf(z, n)
  BY <1>2, SameToPut
<1>4. /\ AreApart(intervals) /\ (\A o \in ranges : IsRange(o))
      /\ \A a \in DOMAIN intervals : \A o \in ranges : intervals[a][1] <= o[1]
  BY DEF PyramidInv, Begin
<1>5. /\ AreApart(intervals')
      /\ ColumnsIn(intervals') = ColumnsIn(intervals) \cup (r[1] .. r[2])
      /\ \A a \in DOMAIN intervals' :
           \/ intervals'[a][1] = r[1]
           \/ a \in DOMAIN intervals /\ intervals'[a][1] = intervals[a][1]
  <2> DEFINE M == Pyramid!Merged(intervals, r)
  <2>1. /\ AreApart(M)
        /\ ColumnsIn(M) = ColumnsIn(intervals) \cup (r[1] .. r[2])
        /\ \A a \in DOMAIN M :
             \/ M[a][1] = r[1]
             \/ a \in DOMAIN intervals /\ M[a][1] = intervals[a][1]
    BY <1>4, MergedIs
  <2> QED
    BY <1>1, <2>1
<1>6. \A o \in ranges : r[1] <= o[1]
  <2> SUFFICES ASSUME NEW o \in ranges
               PROVE  r[1] <= o[1]
    OBVIOUS
  <2>1. Pyramid!Before(r, o) /\ IsRange(r) /\ IsRange(o)
    BY <1>1, <1>4
  <2> QED
    BY <2>1 DEF Pyramid!Before, IsRange
<1>7. Begin(intervals, ranges)'
  BY <1>1, <1>4, <1>5, <1>6 DEF Begin
<1>8. Pending' = Pending
  BY <1>1, <1>5 DEF Pending
<1>9. Pyramid!OutSet' = Pyramid!OutSet /\ Pyramid!EachOnce' = Pyramid!EachOnce
  BY <1>2 DEF Pyramid!OutSet, Pyramid!EachOnce
<1>10. \A z, n, i : Awaited(z, n, i)' <=> Awaited(z, n, i)
  BY <1>2, <1>8 DEF Awaited
<1>11. \A z \in Pyramid!Zooms : \A n \in RowsOf(z)' : \A i \in ColumnsOf(z, n)' :
         Pyramid!MetaTile(z, i, n) \in Pyramid!OutSet' <=> ~Awaited(z, n, i)'
  BY <1>3, <1>9, <1>10 DEF PyramidInv
<1>12. \A a \in DOMAIN out' :
         \E z \in Pyramid!Zooms : \E n \in RowsOf(z)' : \E i \in ColumnsOf(z, n)' :
           out'[a] = Pyramid!MetaTile(z, i, n)
  BY <1>2, <1>3 DEF PyramidInv
<1>13. \A o \in ranges' : IsRange(o)
  BY <1>1, <1>4
<1>14. rows' # {} => pyramidZoom' \in Pyramid!Zooms /\ rows' \subseteq RowsOf(pyramidZoom)'
  BY <1>2, <1>3 DEF PyramidInv, RowsOf
<1>15. Pending' # {} => /\ pyramidZoom' \in Pyramid!Zooms /\ row' \in RowsOf(pyramidZoom)'
                        /\ row' \notin rows' /\ Pending' \subseteq ColumnsOf(pyramidZoom, row)'
  BY <1>2, <1>8 DEF PyramidInv, RowsOf, ColumnsOf
<1> QED
  BY <1>2, <1>5, <1>7, <1>9, <1>11, <1>12, <1>13, <1>14, <1>15 DEF PyramidInv

\* A meta tile is put: it is the one that is not awaited any more.
LEMMA YieldKeeps ==
  ASSUME Pyramid!PyramidAssumption, PyramidInv, Pyramid!Yield
  PROVE  PyramidInv'
<1> DEFINE c == intervals[1][1]
           t == Pyramid!MetaTile(pyramidZoom, c, row)
           T == IF c = intervals[1][2] THEN Tail(intervals)
                ELSE [intervals EXCEPT ![1] = <<c + 1, intervals[1][2]>>]
<1>1. /\ ranges = {} /\ intervals # <<>> /\ out' = Append(out, t) /\ intervals' = T
      /\ queue' = IF Pyramid!FilterTilecoord(layer, t) THEN Append(queue, t) ELSE queue
  BY DEF Pyramid!Yield
<1>2. /\ layer' = layer /\ zooms' = zooms /\ pyramidZoom' = pyramidZoom /\ rows' = rows
      /\ row' = row /\ ranges' = ranges
  BY DEF Pyramid!Yield
<1>3. /\ \A z : RowsOf(z)' = RowsOf(z)
      /\ \A z, n : ColumnsOf(z, n)' = ColumnsOf(z, n)
  BY <1>2, SameToPut
<1>4. AreApart(T) /\ c \in ColumnsIn(intervals) /\ ColumnsIn(T) = ColumnsIn(intervals) \ {c}
  BY <1>1, YieldedIs DEF PyramidInv
<1> HIDE DEF T
<1>5. Pending = ColumnsIn(intervals) /\ Pending' = ColumnsIn(intervals')
  BY <1>1, <1>2 DEF Pending
<1>6. c \in Pending /\ Pending' = Pending \ {c}
  BY <1>1, <1>4, <1>5
<1>7. /\ pyramidZoom \in Pyramid!Zooms /\ row \in RowsOf(pyramidZoom) /\ row \notin rows
      /\ Pending \subseteq ColumnsOf(pyramidZoom, row) /\ c \in ColumnsOf(pyramidZoom, row)
      /\ layer \in SeedLayers /\ pyramidZoom \notin zooms
  BY <1>6 DEF PyramidInv
<1>8. t \in [z : Int, x : Int, y : Int]
  BY <1>7, MetaTileIs
<1>9. \A z \in Pyramid!Zooms : \A n \in RowsOf(z) : \A i \in ColumnsOf(z, n) :
        Pyramid!MetaTile(z, i, n) = t => z = pyramidZoom /\ n = row /\ i = c
  <2> SUFFICES ASSUME NEW z \in Pyramid!Zooms, NEW n \in RowsOf(z), NEW i \in ColumnsOf(z, n),
                      Pyramid!MetaTile(z, i, n) = t
               PROVE  z = pyramidZoom /\ n = row /\ i = c
    OBVIOUS
  <2>1. LET q == Pyramid!MetaTile(z, i, n)
        IN q.z = z /\ q.x \div MetaSize = i /\ q.y \div MetaSize = n
    BY <1>7, MetaTileIs
  <2>2. t.z = pyramidZoom /\ t.x \div MetaSize = c /\ t.y \div MetaSize = row
    BY <1>7, MetaTileIs
  <2> QED
    BY <2>1, <2>2
<1>10. Pyramid!FilterTilecoord(layer, t)
  <2>1. PICK R \in Pyramid!RowRanges(layer, pyramidZoom, row) : c \in R[1] .. R[2]
    BY <1>7 DEF ColumnsOf
  <2>2. row \in 0 .. Pyramid!Height(Pyramid!MetaSpan(pyramidZoom)) - 1
    BY <1>7, ToPutAre
  <2> QED
    BY <1>7, <2>1, <2>2, RangedIsFiltered
<1> HIDE DEF t, c
<1>11. out \in Seq([z : Int, x : Int, y : Int]) /\ queue = out /\ Pyramid!EachOnce
  BY DEF PyramidInv
<1>12. /\ out' \in Seq([z : Int, x : Int, y : Int]) /\ queue' = out'
       /\ DOMAIN out' = 1 .. Len(out) + 1 /\ DOMAIN out = 1 .. Len(out) /\ Len(out) \in Nat
       /\ out'[Len(out) + 1] = t /\ \A a \in DOMAIN out : out'[a] = out[a]
  BY <1>1, <1>8, <1>10, <1>11
<1>13. Pyramid!OutSet' = Pyramid!OutSet \cup {t}
  <2>1. \A a \in DOMAIN out' : a \in DOMAIN out \/ a = Len(out) + 1
    BY <1>12
  <2>2. DOMAIN out \subseteq DOMAIN out' /\ Len(out) + 1 \in DOMAIN out'
    BY <1>12
  <2> QED
    BY <1>12, <2>1, <2>2 DEF Pyramid!OutSet
<1>14. t \notin Pyramid!OutSet
  BY <1>6, <1>7 DEF PyramidInv, Awaited, t
<1>15. Pyramid!EachOnce'
  <2> SUFFICES ASSUME NEW a \in DOMAIN out', NEW b \in DOMAIN out', a # b, out'[a] = out'[b]
               PROVE  FALSE
    BY DEF Pyramid!EachOnce
  <2>1. a \in DOMAIN out \/ a = Len(out) + 1
    BY <1>12
  <2>2. b \in DOMAIN out \/ b = Len(out) + 1
    BY <1>12
  <2> QED
    BY <1>11, <1>12, <1>14, <2>1, <2>2 DEF Pyramid!EachOnce, Pyramid!OutSet
<1>16. \A z \in Pyramid!Zooms : \A n \in RowsOf(z) : \A i \in ColumnsOf(z, n) :
         Awaited(z, n, i)' <=> Awaited(z, n, i) /\ ~(z = pyramidZoom /\ n = row /\ i = c)
  BY <1>2, <1>6, <1>7 DEF Awaited
<1>17. \A z \in Pyramid!Zooms : \A n \in RowsOf(z)' : \A i \in ColumnsOf(z, n)' :
         Pyramid!MetaTile(z, i, n) \in Pyramid!OutSet' <=> ~Awaited(z, n, i)'
  <2> SUFFICES ASSUME NEW z \in Pyramid!Zooms, NEW n \in RowsOf(z), NEW i \in ColumnsOf(z, n)
               PROVE  Pyramid!MetaTile(z, i, n) \in Pyramid!OutSet' <=> ~Awaited(z, n, i)'
    BY <1>3
  <2>1. Pyramid!MetaTile(z, i, n) \in Pyramid!OutSet <=> ~Awaited(z, n, i)
    BY DEF PyramidInv
  <2>2. Pyramid!MetaTile(z, i, n) = t <=> z = pyramidZoom /\ n = row /\ i = c
    BY <1>9 DEF t
  <2> QED
    BY <1>13, <1>16, <2>1, <2>2
<1>18. \A a \in DOMAIN out' :
         \E z \in Pyramid!Zooms : \E n \in RowsOf(z)' : \E i \in ColumnsOf(z, n)' :
           out'[a] = Pyramid!MetaTile(z, i, n)
  <2> SUFFICES ASSUME NEW a \in DOMAIN out'
               PROVE  \E z \in Pyramid!Zooms : \E n \in RowsOf(z) : \E i \in ColumnsOf(z, n) :
                        out'[a] = Pyramid!MetaTile(z, i, n)
    BY <1>3
  <2>1. CASE a \in DOMAIN out
    BY <1>12, <2>1 DEF PyramidInv
  <2>2. CASE a = Len(out) + 1
    BY <1>7, <1>12, <2>2 DEF t
  <2> QED
    BY <1>12, <2>1, <2>2
<1>19. AreApart(intervals)' /\ Begin(intervals, ranges)' /\ (\A r \in ranges : IsRange(r))'
  BY <1>1, <1>2, <1>4 DEF Begin
<1>20. rows' # {} => pyramidZoom' \in Pyramid!Zooms /\ rows' \subseteq RowsOf(pyramidZoom)'
  BY <1>2, <1>7 DEF PyramidInv, RowsOf
<1>21. /\ row' \in RowsOf(pyramidZoom)' /\ row' \notin rows'
       /\ Pending' \subseteq ColumnsOf(pyramidZoom, row)'
  BY <1>2, <1>6, <1>7 DEF RowsOf, ColumnsOf
<1>22. zooms' \subseteq Pyramid!Zooms
  BY <1>2 DEF PyramidInv
<1> QED
  BY <1>2, <1>7, <1>12, <1>15, <1>17, <1>18, <1>19, <1>20, <1>21, <1>22 DEF PyramidInv

\* What was put is of the rows and the columns to put.
LEMMA PutIs ==
  ASSUME PyramidInv, NEW t \in Pyramid!OutSet
  PROVE  \E z \in Pyramid!Zooms : \E n \in RowsOf(z) : \E i \in ColumnsOf(z, n) :
           t = Pyramid!MetaTile(z, i, n)
BY DEF PyramidInv, Pyramid!OutSet

\* What is put is in the grid.
LEMMA PyramidIsTyped ==
  ASSUME Pyramid!PyramidAssumption, PyramidInv
  PROVE  Pyramid!TypeOK
<1>1. \A i \in DOMAIN intervals : intervals[i][1] <= intervals[i][2]
  BY DEF PyramidInv, AreApart
<1>2. ASSUME NEW t \in Pyramid!OutSet
      PROVE  /\ t.z \in Pyramid!Zooms
             /\ t.x \div MetaSize \in 0 .. Pyramid!Width(Pyramid!MetaSpan(t.z)) - 1
             /\ t.y \div MetaSize \in 0 .. Pyramid!Height(Pyramid!MetaSpan(t.z)) - 1
  <2>1. PICK z \in Pyramid!Zooms : \E n \in RowsOf(z) : \E i \in ColumnsOf(z, n) :
          t = Pyramid!MetaTile(z, i, n)
    BY <1>2, PutIs
  <2>2. PICK n \in RowsOf(z) : \E i \in ColumnsOf(z, n) : t = Pyramid!MetaTile(z, i, n)
    BY <2>1
  <2>3. PICK i \in ColumnsOf(z, n) : t = Pyramid!MetaTile(z, i, n)
    BY <2>2
  <2>4. layer \in SeedLayers
    BY DEF PyramidInv
  <2>5. t.z = z /\ t.x \div MetaSize = i /\ t.y \div MetaSize = n
    BY <2>3, <2>4, MetaTileIs
  <2>6. /\ i \in 0 .. Pyramid!Width(Pyramid!MetaSpan(z)) - 1
        /\ n \in 0 .. Pyramid!Height(Pyramid!MetaSpan(z)) - 1
    BY <2>4, ToPutAre
  <2> QED
    BY <2>5, <2>6
<1>3. pyramidZoom \in {0} \cup Pyramid!Zooms /\ zooms \subseteq Pyramid!Zooms
  BY DEF PyramidInv
<1> QED
  BY <1>1, <1>2, <1>3 DEF Pyramid!TypeOK

\* What is put is in a range of its row, so that a local generation goes through it.
LEMMA PutIsLocal ==
  ASSUME Pyramid!PyramidAssumption, PyramidInv
  PROVE  Pyramid!MasterIsLocal
<1> SUFFICES ASSUME NEW t \in Pyramid!OutSet, ~Pyramid!IsAfterGrid(t.z)
             PROVE  t \in Pyramid!LocalTiles(layer, t.z)
  BY DEF Pyramid!MasterIsLocal
<1>1. PICK z \in Pyramid!Zooms : \E n \in RowsOf(z) : \E i \in ColumnsOf(z, n) :
        t = Pyramid!MetaTile(z, i, n)
  BY PutIs
<1>2. PICK n \in RowsOf(z) : \E i \in ColumnsOf(z, n) : t = Pyramid!MetaTile(z, i, n)
  BY <1>1
<1>3. PICK i \in ColumnsOf(z, n) : t = Pyramid!MetaTile(z, i, n)
  BY <1>2
<1>4. layer \in SeedLayers
  BY DEF PyramidInv
<1>5. t.z = z
  BY <1>3, <1>4, MetaTileIs
<1>6. PICK R \in Pyramid!RowRanges(layer, z, n) : i \in R[1] .. R[2]
  BY <1>3 DEF ColumnsOf
<1>7. n \in Pyramid!Indices(Pyramid!RowRange(layer, z))
  BY DEF RowsOf
<1>8. ~Pyramid!IsAfterGrid(z)
  BY <1>5
<1>9. Pyramid!MetaTile(z, i, n) \in Pyramid!LocalTiles(layer, z)
  BY <1>4, <1>6, <1>7, <1>8, RangedIsLocal
<1> QED
  BY <1>3, <1>5, <1>9

\* At the end, all that there was to put is put.
LEMMA AllIsPut ==
  ASSUME Pyramid!PyramidAssumption, PyramidInv, Pyramid!Ended, NEW z \in Pyramid!Zooms
  PROVE  Pyramid!AllQueued(Pyramid!GetGeoms(layer, z), z)
<1> SUFFICES ASSUME NEW i \in 0 .. Pyramid!Width(Pyramid!MetaSpan(z)) - 1,
                    NEW j \in 0 .. Pyramid!Height(Pyramid!MetaSpan(z)) - 1,
                    Pyramid!Holds(Pyramid!GetGeoms(layer, z), layer, z,
                                  i * MetaSize, j * MetaSize, MetaSize)
             PROVE  Pyramid!MetaTile(z, i, j) \in Pyramid!QueueSet
  BY DEF Pyramid!AllQueued
<1>1. layer \in SeedLayers
  BY DEF PyramidInv
<1>2. j \in RowsOf(z)
  BY <1>1, SharedIsRanged DEF RowsOf
<1>3. PICK R \in Pyramid!RowRanges(layer, z, j) : i \in R[1] .. R[2]
  BY <1>1, SharedIsRanged
<1>4. i \in ColumnsOf(z, j)
  BY <1>3 DEF ColumnsOf
<1>5. zooms = {} /\ rows = {} /\ Pending = {}
  BY NothingPending DEF Pyramid!Ended
<1>6. ~Awaited(z, j, i)
  BY <1>5 DEF Awaited
<1>7. Pyramid!MetaTile(z, i, j) \in Pyramid!OutSet
  BY <1>2, <1>4, <1>6 DEF PyramidInv
<1>8. queue = out
  BY DEF PyramidInv
<1> QED
  BY <1>7, <1>8 DEF Pyramid!OutSet, Pyramid!QueueSet

\* The elements of a sequence, and their numbers.
LEMMA ElementsOf ==
  ASSUME NEW S, NEW q \in Seq(S)
  PROVE  \A n \in DOMAIN q : n \in Nat /\ q[n] \in S
OBVIOUS

\* The geometry of a zoom is that of the last source that is valid for it.
LEMMA LastSourceIsPut ==
  ASSUME Pyramid!PyramidAssumption, PyramidInv
  PROVE  Pyramid!LastSourceWins
<1> DEFINE valid(z, s) == Grid.resolutions[z] \in s.from .. s.to
<1> SUFFICES ASSUME Pyramid!Ended, NEW z \in Pyramid!Zooms, NEW k \in DOMAIN layer.sources,
                    valid(z, layer.sources[k]),
                    \A n \in DOMAIN layer.sources : n > k => ~valid(z, layer.sources[n])
             PROVE  Pyramid!AllQueued(Pyramid!InExtent(layer, layer.sources[k]), z)
  BY DEF Pyramid!LastSourceWins
<1>1. /\ layer \in SeedLayers /\ Grid.resolutions[z] \in Int
      /\ \A n \in DOMAIN layer.sources :
           n \in Nat /\ layer.sources[n].from \in Int /\ layer.sources[n].to \in Int
  <2>1. layer \in SeedLayers
    BY DEF PyramidInv
  <2>2. layer.sources \in Seq([rects : SUBSET Pyramid!Corners, from : Int, to : Int])
    BY <2>1 DEF Pyramid!PyramidAssumption
  <2>3. Grid.resolutions[z] \in Int
    BY SpansAre
  <2>4. \A n \in DOMAIN layer.sources :
          n \in Nat /\ layer.sources[n] \in [rects : SUBSET Pyramid!Corners, from : Int, to : Int]
    BY <2>2, ElementsOf
  <2>5. \A n \in DOMAIN layer.sources :
          n \in Nat /\ layer.sources[n].from \in Int /\ layer.sources[n].to \in Int
    BY <2>4
  <2> QED
    BY <2>1, <2>3, <2>5
<1>2. \A n \in DOMAIN layer.sources :
        n \in Pyramid!SourcesFor(layer, z) <=> valid(z, layer.sources[n])
  BY <1>1 DEF Pyramid!SourcesFor
<1>3. Pyramid!SourcesFor(layer, z) \subseteq DOMAIN layer.sources
  BY DEF Pyramid!SourcesFor
<1>4. k \in Pyramid!SourcesFor(layer, z) /\ \A n \in Pyramid!SourcesFor(layer, z) : ~(n > k)
  BY <1>2, <1>3
<1> DEFINE m == Pyramid!Max(Pyramid!SourcesFor(layer, z))
<1>5. m \in Pyramid!SourcesFor(layer, z) /\ m >= k
  BY <1>1, <1>4, LastSourceIs
<1> HIDE DEF m, valid
<1>6. m = k
  BY <1>1, <1>3, <1>4, <1>5
<1>7. Pyramid!GetGeoms(layer, z) = Pyramid!InExtent(layer, layer.sources[k])
  BY <1>4, <1>6 DEF Pyramid!GetGeoms, m
<1>8. Pyramid!AllQueued(Pyramid!GetGeoms(layer, z), z)
  BY AllIsPut
<1> QED
  BY <1>7, <1>8

\* The invariant gives what is checked of the queued geometry.
LEMMA PyramidIsRight ==
  ASSUME Pyramid!PyramidAssumption, PyramidInv
  PROVE  GeometryIsQueued
<1>1. Pyramid!TypeOK /\ Pyramid!MasterIsLocal /\ Pyramid!LastSourceWins
  BY PyramidIsTyped, PutIsLocal, LastSourceIsPut
<1>2. Pyramid!EachOnce /\ Pyramid!FilterDropsNothing
  BY DEF PyramidInv, Pyramid!FilterDropsNothing
<1>3. Pyramid!GeometryIsQueued
  BY AllIsPut DEF Pyramid!GeometryIsQueued
<1> QED
  BY <1>1, <1>2, <1>3 DEF GeometryIsQueued

-----------------------------------------------------------------------------
(* The pyramid: the limits of the capabilities.                            *)

\* The first and the last index of what is between two distances.
LEMMA LimitIs ==
  ASSUME NEW low \in Int, NEW high \in Int, NEW s \in Nat \ {0}, NEW last \in Nat
  PROVE  LET a == Pyramid!Clamp(Pyramid!Floor(low, s), last)
             b == Pyramid!Clamp(Pyramid!Ceil(high, s) - 1, last)
         IN  /\ a \in 0 .. last /\ b \in 0 .. last
             /\ \A i \in 0 .. last : /\ low < i * s + s => a <= i
                                     /\ i * s < high => i <= b
             /\ \A i \in 0 .. last : /\ a <= i => low < i * s + s \/ i = last
                                     /\ i <= b => i * s < high \/ i = 0
<1> DEFINE f == Pyramid!Floor(low, s)
           c == Pyramid!Ceil(high, s)
           a == Pyramid!Clamp(f, last)
           b == Pyramid!Clamp(c - 1, last)
<1>1. f \in Int /\ c \in Int
  BY FloorIs, CeilIs
<1>2. /\ a = IF f < 0 THEN 0 ELSE IF f > last THEN last ELSE f
      /\ b = IF c - 1 < 0 THEN 0 ELSE IF c - 1 > last THEN last ELSE c - 1
  BY <1>1, ClampIs
<1>3. ASSUME NEW i \in 0 .. last
      PROVE  /\ i * s \in Int
             /\ i + 1 <= f <=> i * s + s <= low
             /\ i < c <=> i * s < high
  <2>1. i + 1 <= f <=> (i + 1) * s <= low
    BY FloorIs
  <2>2. i < c <=> i * s < high
    BY CeilIs
  <2>3. (i + 1) * s = i * s + s /\ i * s \in Int
    BY ProductGrows
  <2> QED
    BY <2>1, <2>2, <2>3
<1> HIDE DEF f, c
<1> SUFFICES /\ a \in 0 .. last /\ b \in 0 .. last
             /\ \A i \in 0 .. last : /\ low < i * s + s => a <= i
                                     /\ i * s < high => i <= b
             /\ \A i \in 0 .. last : /\ a <= i => low < i * s + s \/ i = last
                                     /\ i <= b => i * s < high \/ i = 0
  BY DEF f, c
<1> HIDE DEF a, b
<1>4. a \in 0 .. last /\ b \in 0 .. last
  BY <1>1, <1>2
<1>5. ASSUME NEW i \in 0 .. last
      PROVE  /\ low < i * s + s => a <= i
             /\ i * s < high => i <= b
             /\ a <= i => low < i * s + s \/ i = last
             /\ i <= b => i * s < high \/ i = 0
  BY <1>1, <1>2, <1>3
<1> QED
  BY <1>4, <1>5

\* The part of a layer that is in the grid.
LEMMA InGridIs ==
  ASSUME Pyramid!PyramidAssumption, NEW l \in SeedLayers, NEW c \in Pyramid!InGrid(l),
         l.asked = Pyramid!NoBox
  PROVE  LET e == Pyramid!Extent(l)
             g == Pyramid!GridBox
         IN  /\ \A k \in 1 .. 4 : c[k] \in Int /\ e[k] \in Int /\ g[k] \in Int
             /\ c[1] = IF e[1] >= g[1] THEN e[1] ELSE g[1]
             /\ c[2] = IF e[2] >= g[2] THEN e[2] ELSE g[2]
             /\ c[3] = IF e[3] <= g[3] THEN e[3] ELSE g[3]
             /\ c[4] = IF e[4] <= g[4] THEN e[4] ELSE g[4]
             /\ c[1] < c[3] /\ c[2] < c[4]
<1> DEFINE e == Pyramid!Extent(l)
           g == Pyramid!GridBox
<1>1. l.bbox # Pyramid!NoBox
  BY DEF Pyramid!InGrid
<1>2. c \in Pyramid!Meet(e, g) /\ Pyramid!HasArea(c)
  BY <1>1 DEF Pyramid!InGrid, Pyramid!Extent
<1>3. Pyramid!IsBox(e) /\ Pyramid!IsBox(g)
  BY ExtentIsBox, GridIs
<1> HIDE DEF e, g
<1>4. e \in Pyramid!Corners /\ g \in Pyramid!Corners
  BY <1>3 DEF Pyramid!IsBox
<1>5. /\ Pyramid!IsBox(c)
      /\ c[1] = IF e[1] >= g[1] THEN e[1] ELSE g[1]
      /\ c[2] = IF e[2] >= g[2] THEN e[2] ELSE g[2]
      /\ c[3] = IF e[3] <= g[3] THEN e[3] ELSE g[3]
      /\ c[4] = IF e[4] <= g[4] THEN e[4] ELSE g[4]
  BY <1>2, <1>4, MeetIs
<1>6. \A k \in 1 .. 4 : c[k] \in Int /\ e[k] \in Int /\ g[k] \in Int
  BY <1>4, <1>5 DEF Pyramid!IsBox, Pyramid!Corners
<1> QED
  BY <1>2, <1>5, <1>6 DEF Pyramid!HasArea, e, g

\* The limits of a zoom.
LEMMA LimitsAre ==
  ASSUME Pyramid!PyramidAssumption, NEW l \in SeedLayers, NEW z \in Pyramid!Zooms,
         NEW q \in Pyramid!InGrid(l), l.asked = Pyramid!NoBox
  PROVE  LET g == Pyramid!GridBox
             u == Pyramid!TileSpan(z)
             m == Pyramid!Buffer(l, z)
             w == Pyramid!Width(u) - 1
             h == Pyramid!Height(u) - 1
             c == Pyramid!Limits(q, m, u)
         IN  /\ c[1] \in 0 .. w /\ c[2] \in 0 .. w /\ c[3] \in 0 .. h /\ c[4] \in 0 .. h
             /\ \A i \in 0 .. w :
                  /\ q[1] - m - g[1] < i * u + u => c[1] <= i
                  /\ i * u < q[3] + m - g[1] => i <= c[2]
                  /\ c[1] <= i => q[1] - m - g[1] < i * u + u \/ i = w
                  /\ i <= c[2] => i * u < q[3] + m - g[1] \/ i = 0
             /\ \A j \in 0 .. h :
                  /\ g[4] - (q[4] + m) < j * u + u => c[3] <= j
                  /\ j * u < g[4] - (q[2] - m) => j <= c[4]
                  /\ c[3] <= j => g[4] - (q[4] + m) < j * u + u \/ j = h
                  /\ j <= c[4] => j * u < g[4] - (q[2] - m) \/ j = 0
<1> DEFINE g == Pyramid!GridBox
           u == Pyramid!TileSpan(z)
           m == Pyramid!Buffer(l, z)
           w == Pyramid!Width(u) - 1
           h == Pyramid!Height(u) - 1
           c == Pyramid!Limits(q, m, u)
           x1 == q[1] - m - g[1]
           x2 == q[3] + m - g[1]
           y1 == g[4] - (q[4] + m)
           y2 == g[4] - (q[2] - m)
<1>1. u \in Nat \ {0} /\ m \in Nat /\ \A k \in 1 .. 4 : q[k] \in Int /\ g[k] \in Int
  BY SpansAre, BufferIs, InGridIs
<1>2. w \in Nat /\ h \in Nat
  BY <1>1, MatrixIs
<1>3. /\ c[1] = Pyramid!Clamp(Pyramid!Floor(x1, u), w)
      /\ c[2] = Pyramid!Clamp(Pyramid!Ceil(x2, u) - 1, w)
      /\ c[3] = Pyramid!Clamp(Pyramid!Floor(y1, u), h)
      /\ c[4] = Pyramid!Clamp(Pyramid!Ceil(y2, u) - 1, h)
  BY DEF Pyramid!Limits
<1> HIDE DEF g, u, m, w, h, c
<1>4. x1 \in Int /\ x2 \in Int /\ y1 \in Int /\ y2 \in Int
  BY <1>1
<1> HIDE DEF x1, x2, y1, y2
<1>5. /\ c[1] \in 0 .. w /\ c[2] \in 0 .. w
      /\ \A i \in 0 .. w : /\ x1 < i * u + u => c[1] <= i
                           /\ i * u < x2 => i <= c[2]
                           /\ c[1] <= i => x1 < i * u + u \/ i = w
                           /\ i <= c[2] => i * u < x2 \/ i = 0
  <2> DEFINE a == Pyramid!Clamp(Pyramid!Floor(x1, u), w)
             b == Pyramid!Clamp(Pyramid!Ceil(x2, u) - 1, w)
  <2>1. /\ a \in 0 .. w /\ b \in 0 .. w
        /\ \A i \in 0 .. w : /\ x1 < i * u + u => a <= i
                             /\ i * u < x2 => i <= b
        /\ \A i \in 0 .. w : /\ a <= i => x1 < i * u + u \/ i = w
                             /\ i <= b => i * u < x2 \/ i = 0
    <3>1. /\ u \in Nat \ {0} /\ w \in Nat /\ x1 \in Int /\ x2 \in Int
      BY <1>1, <1>2, <1>4
    <3> QED
      BY <3>1, LimitIs
  <2>2. c[1] = a /\ c[2] = b
    BY <1>3
  <2> HIDE DEF a, b
  <2> QED
    BY <2>1, <2>2
<1>6. /\ c[3] \in 0 .. h /\ c[4] \in 0 .. h
      /\ \A j \in 0 .. h : /\ y1 < j * u + u => c[3] <= j
                           /\ j * u < y2 => j <= c[4]
                           /\ c[3] <= j => y1 < j * u + u \/ j = h
                           /\ j <= c[4] => j * u < y2 \/ j = 0
  <2> DEFINE a == Pyramid!Clamp(Pyramid!Floor(y1, u), h)
             b == Pyramid!Clamp(Pyramid!Ceil(y2, u) - 1, h)
  <2>1. /\ a \in 0 .. h /\ b \in 0 .. h
        /\ \A j \in 0 .. h : /\ y1 < j * u + u => a <= j
                             /\ j * u < y2 => j <= b
        /\ \A j \in 0 .. h : /\ a <= j => y1 < j * u + u \/ j = h
                             /\ j <= b => j * u < y2 \/ j = 0
    <3>1. /\ u \in Nat \ {0} /\ h \in Nat /\ y1 \in Int /\ y2 \in Int
      BY <1>1, <1>2, <1>4
    <3> QED
      BY <3>1, LimitIs
  <2>2. c[3] = a /\ c[4] = b
    BY <1>3
  <2> HIDE DEF a, b
  <2> QED
    BY <2>1, <2>2
<1> QED
  BY <1>5, <1>6 DEF g, u, m, w, h, c, x1, x2, y1, y2

\* A tile that has a part of the geometry is in the limits.
LEMMA SharedIsAdvertised ==
  ASSUME Pyramid!PyramidAssumption, NEW l \in SeedLayers, NEW z \in Pyramid!Zooms,
         NEW q \in Pyramid!InGrid(l), l.asked = Pyramid!NoBox,
         NEW i \in 0 .. Pyramid!Width(Pyramid!TileSpan(z)) - 1,
         NEW j \in 0 .. Pyramid!Height(Pyramid!TileSpan(z)) - 1,
         Pyramid!Holds(Pyramid!GetGeoms(l, z), l, z, i, j, 1)
  PROVE  LET c == Pyramid!Limits(q, Pyramid!Buffer(l, z), Pyramid!TileSpan(z))
         IN  i \in c[1] .. c[2] /\ j \in c[3] .. c[4]
<1> DEFINE u == Pyramid!TileSpan(z)
           m == Pyramid!Buffer(l, z)
           g == Pyramid!GridBox
           e == Pyramid!Extent(l)
           b == Pyramid!InsideOf(z, i, j, 1)
           w == Pyramid!Width(u) - 1
           h == Pyramid!Height(u) - 1
           c == Pyramid!Limits(q, m, u)
<1>1. PICK r \in Pyramid!GetGeoms(l, z) : Pyramid!ShareArea(r, m, b)
  BY DEF Pyramid!Holds
<1>2. /\ u \in Nat \ {0} /\ m \in Nat /\ w \in Nat /\ h \in Nat /\ g[1] < g[3] /\ g[2] < g[4]
      /\ i \in Nat /\ j \in Nat
      /\ i * u \in Nat /\ i * u < g[3] - g[1] /\ j * u \in Nat /\ j * u < g[4] - g[2]
  BY SpansAre, BufferIs, GridIs, MatrixIs
<1>3. /\ b[1] = g[1] + i * u /\ b[4] = g[4] - j * u
      /\ b[2] = IF g[4] - j * u - u >= g[2] THEN g[4] - j * u - u ELSE g[2]
      /\ b[3] = IF g[1] + i * u + u <= g[3] THEN g[1] + i * u + u ELSE g[3]
  <2>1. u = Span(z, 1) /\ i * 1 = i /\ j * 1 = j
    BY <1>2, SpanIs
  <2>2. LET t == Pyramid!InsideOf(z, i * 1, j * 1, 1)
        IN  /\ t[1] = g[1] + i * u /\ t[4] = g[4] - j * u
            /\ t[2] = IF g[4] - j * u - u >= g[2] THEN g[4] - j * u - u ELSE g[2]
            /\ t[3] = IF g[1] + i * u + u <= g[3] THEN g[1] + i * u + u ELSE g[3]
    BY <2>1, InsideIs
  <2> QED
    BY <2>1, <2>2
<1>4. /\ r[1] \in Int /\ r[2] \in Int /\ r[3] \in Int /\ r[4] \in Int
      /\ e[1] <= r[1] /\ r[3] <= e[3] /\ e[2] <= r[2] /\ r[4] <= e[4]
  BY GeomsAre
<1>5. /\ q[1] \in Int /\ q[2] \in Int /\ q[3] \in Int /\ q[4] \in Int
      /\ e[1] \in Int /\ e[2] \in Int /\ e[3] \in Int /\ e[4] \in Int
      /\ g[1] \in Int /\ g[2] \in Int /\ g[3] \in Int /\ g[4] \in Int
      /\ q[1] = IF e[1] >= g[1] THEN e[1] ELSE g[1]
      /\ q[2] = IF e[2] >= g[2] THEN e[2] ELSE g[2]
      /\ q[3] = IF e[3] <= g[3] THEN e[3] ELSE g[3]
      /\ q[4] = IF e[4] <= g[4] THEN e[4] ELSE g[4]
  BY InGridIs
<1>6. /\ c[1] \in 0 .. w /\ c[2] \in 0 .. w /\ c[3] \in 0 .. h /\ c[4] \in 0 .. h
      /\ q[1] - m - g[1] < i * u + u => c[1] <= i
      /\ i * u < q[3] + m - g[1] => i <= c[2]
      /\ g[4] - (q[4] + m) < j * u + u => c[3] <= j
      /\ j * u < g[4] - (q[2] - m) => j <= c[4]
  BY LimitsAre
<1> HIDE DEF u, m, g, e, b, w, h, c
<1>7. b[1] \in Int /\ b[2] \in Int /\ b[3] \in Int /\ b[4] \in Int
  BY <1>2, <1>3, <1>5
<1>8. /\ b[2] < r[4] + m /\ r[2] - m < b[4]
      /\ b[1] < r[3] + m /\ r[1] - m < b[3]
  <2> DEFINE d == Pyramid!Max({0, b[2] - r[4], r[2] - b[4]})
  <2>1. /\ b[2] < r[4] + m /\ r[2] - m < b[4]
        /\ b[1] < r[3] + (m - d) /\ r[1] - (m - d) < b[3]
    BY <1>1 DEF Pyramid!ShareArea
  <2>2. 0 \in Int /\ b[2] - r[4] \in Int /\ r[2] - b[4] \in Int
    BY <1>4, <1>7
  <2>3. d \in {0, b[2] - r[4], r[2] - b[4]} /\ d >= 0
    BY <2>2, MaxOfThree, Zenon
  <2> HIDE DEF d
  <2> QED
    BY <1>2, <1>4, <1>7, <2>1, <2>2, <2>3
<1>9. /\ q[1] - m - g[1] < i * u + u /\ i * u < q[3] + m - g[1]
  BY <1>2, <1>3, <1>4, <1>5, <1>7, <1>8
<1>10. /\ g[4] - (q[4] + m) < j * u + u /\ j * u < g[4] - (q[2] - m)
  BY <1>2, <1>3, <1>4, <1>5, <1>7, <1>8
<1>11. i \in c[1] .. c[2] /\ j \in c[3] .. c[4]
  BY <1>2, <1>6, <1>9, <1>10
<1> QED
  BY <1>11 DEF c, m, u

\* The meta tile of a tile has it.
LEMMA MetaTileHas ==
  ASSUME Pyramid!PyramidAssumption, NEW z \in Pyramid!Zooms, NEW i \in Nat
  PROVE  LET k == i \div MetaSize
             s == Pyramid!MetaSpan(z)
             u == Pyramid!TileSpan(z)
         IN  /\ k \in Nat /\ k * s \in Nat /\ i * u \in Nat
             /\ k * s <= i * u /\ i * u + u <= k * s + s
<1> DEFINE k == i \div MetaSize
           s == Pyramid!MetaSpan(z)
           u == Pyramid!TileSpan(z)
<1>1. /\ MetaSize \in Nat \ {0} /\ s \in Nat \ {0} /\ u \in Nat \ {0} /\ s = MetaSize * u
  BY SpansAre
<1>2. k \in Int /\ \A c \in Int : c <= k <=> c * MetaSize <= i
  BY <1>1, FloorIs DEF Pyramid!Floor
<1> HIDE DEF k, s, u
<1>3. /\ k * MetaSize \in Int /\ (k + 1) * MetaSize = k * MetaSize + MetaSize
      /\ 0 * MetaSize = 0
  BY <1>1, <1>2, ProductGrows
<1>4. k * MetaSize <= i /\ i < k * MetaSize + MetaSize /\ k >= 0
  BY <1>1, <1>2, <1>3
<1> DEFINE a == k * MetaSize
<1>5. a \in Int /\ a + MetaSize \in Int
  BY <1>1, <1>3
<1>6. a * u = k * s /\ (a + MetaSize) * u = k * s + s /\ k * s \in Int
  BY <1>1, <1>2
<1> HIDE DEF a
<1>7. a <= i /\ i < a + MetaSize
  BY <1>4 DEF a
<1>8. a * u <= i * u /\ i * u \in Int
  BY <1>1, <1>5, <1>7, ProductGrows
<1>9. i * u + u <= (a + MetaSize) * u
  BY <1>1, <1>5, <1>7, ProductGrows
<1>10. k * s >= 0 /\ i * u >= 0
  BY <1>1, <1>2, <1>4
<1> QED
  BY <1>2, <1>4, <1>6, <1>8, <1>9, <1>10 DEF k, s, u

\* A meta tile that meets the part of the layer that is in the grid has a part of it.
LEMMA MeetingIsShared ==
  ASSUME Pyramid!PyramidAssumption, NEW l \in SeedLayers, NEW z \in Pyramid!Zooms,
         NEW q \in Pyramid!InGrid(l), l.asked = Pyramid!NoBox,
         NEW k \in 0 .. Pyramid!Width(Pyramid!MetaSpan(z)) - 1,
         NEW n \in 0 .. Pyramid!Height(Pyramid!MetaSpan(z)) - 1,
         q[1] - Pyramid!GridBox[1] < k * Pyramid!MetaSpan(z) + Pyramid!MetaSpan(z),
         k * Pyramid!MetaSpan(z) < q[3] - Pyramid!GridBox[1],
         Pyramid!GridBox[4] - q[4] < n * Pyramid!MetaSpan(z) + Pyramid!MetaSpan(z),
         n * Pyramid!MetaSpan(z) < Pyramid!GridBox[4] - q[2]
  PROVE  Pyramid!ShareArea(Pyramid!Extent(l), 0,
                           Pyramid!InsideOf(z, k * MetaSize, n * MetaSize, MetaSize))
<1> DEFINE s == Pyramid!MetaSpan(z)
           g == Pyramid!GridBox
           e == Pyramid!Extent(l)
           b == Pyramid!InsideOf(z, k * MetaSize, n * MetaSize, MetaSize)
<1>1. /\ s \in Nat \ {0} /\ k * s \in Nat /\ n * s \in Nat
      /\ q[1] - g[1] < k * s + s /\ k * s < q[3] - g[1]
      /\ g[4] - q[4] < n * s + s /\ n * s < g[4] - q[2]
  BY SpansAre, MatrixIs
<1>2. /\ q[1] \in Int /\ q[2] \in Int /\ q[3] \in Int /\ q[4] \in Int
      /\ e[1] \in Int /\ e[2] \in Int /\ e[3] \in Int /\ e[4] \in Int
      /\ g[1] \in Int /\ g[2] \in Int /\ g[3] \in Int /\ g[4] \in Int
      /\ q[1] = IF e[1] >= g[1] THEN e[1] ELSE g[1]
      /\ q[2] = IF e[2] >= g[2] THEN e[2] ELSE g[2]
      /\ q[3] = IF e[3] <= g[3] THEN e[3] ELSE g[3]
      /\ q[4] = IF e[4] <= g[4] THEN e[4] ELSE g[4]
      /\ q[1] < q[3] /\ q[2] < q[4]
  BY InGridIs
<1>3. /\ b[1] = g[1] + k * s /\ b[4] = g[4] - n * s
      /\ b[2] = IF g[4] - n * s - s >= g[2] THEN g[4] - n * s - s ELSE g[2]
      /\ b[3] = IF g[1] + k * s + s <= g[3] THEN g[1] + k * s + s ELSE g[3]
  <2>1. MetaSize \in Nat \ {0} /\ s = Span(z, MetaSize)
    BY SpansAre, SpanIs
  <2> QED
    BY <2>1, InsideIs
<1> HIDE DEF b, g, s, e
<1>4. b[1] \in Int /\ b[2] \in Int /\ b[3] \in Int /\ b[4] \in Int
  BY <1>1, <1>2, <1>3
<1>5. /\ b[1] < e[3] /\ e[1] < b[3] /\ b[2] < e[4] /\ e[2] < b[4]
  BY <1>1, <1>2, <1>3
<1> DEFINE d == Pyramid!Max({0, b[2] - e[4], e[2] - b[4]})
<1>6. 0 \in Int /\ b[2] - e[4] \in Int /\ e[2] - b[4] \in Int
  BY <1>2, <1>4
<1>7. d \in {0, b[2] - e[4], e[2] - b[4]} /\ d >= 0
  BY <1>6, MaxOfThree, Zenon
<1> HIDE DEF d
<1>8. d = 0
  BY <1>2, <1>4, <1>5, <1>6, <1>7
<1>9. /\ b[2] < e[4] + 0 /\ e[2] - 0 < b[4]
      /\ b[1] < e[3] + (0 - d) /\ e[1] - (0 - d) < b[3]
  BY <1>2, <1>4, <1>5, <1>8
<1> QED
  BY <1>9 DEF Pyramid!ShareArea, d, b, e

\* A tile that meets the part of the layer that is in the grid: its meta tile does.
LEMMA MetaTileMeets ==
  ASSUME Pyramid!PyramidAssumption, NEW l \in SeedLayers, NEW z \in Pyramid!Zooms,
         NEW q \in Pyramid!InGrid(l), l.asked = Pyramid!NoBox,
         NEW i \in Nat, NEW j \in Nat,
         q[1] - Pyramid!GridBox[1] < i * Pyramid!TileSpan(z) + Pyramid!TileSpan(z),
         i * Pyramid!TileSpan(z) < q[3] - Pyramid!GridBox[1],
         Pyramid!GridBox[4] - q[4] < j * Pyramid!TileSpan(z) + Pyramid!TileSpan(z),
         j * Pyramid!TileSpan(z) < Pyramid!GridBox[4] - q[2]
  PROVE  LET k == i \div MetaSize
             n == j \div MetaSize
         IN  /\ k \in 0 .. Pyramid!Width(Pyramid!MetaSpan(z)) - 1
             /\ n \in 0 .. Pyramid!Height(Pyramid!MetaSpan(z)) - 1
             /\ Pyramid!ShareArea(Pyramid!Extent(l), 0,
                                  Pyramid!InsideOf(z, k * MetaSize, n * MetaSize, MetaSize))
<1> DEFINE s == Pyramid!MetaSpan(z)
           u == Pyramid!TileSpan(z)
           g == Pyramid!GridBox
           k == i \div MetaSize
           n == j \div MetaSize
<1>1. /\ k \in Nat /\ k * s \in Nat /\ i * u \in Nat /\ k * s <= i * u /\ i * u + u <= k * s + s
      /\ n \in Nat /\ n * s \in Nat /\ j * u \in Nat /\ n * s <= j * u /\ j * u + u <= n * s + s
  BY MetaTileHas
<1>2. /\ q[1] \in Int /\ q[2] \in Int /\ q[3] \in Int /\ q[4] \in Int
      /\ g[1] \in Int /\ g[2] \in Int /\ g[3] \in Int /\ g[4] \in Int
      /\ g[2] <= q[2] /\ q[3] <= g[3]
  BY InGridIs
<1>3. /\ q[1] - g[1] < i * u + u /\ i * u < q[3] - g[1]
      /\ g[4] - q[4] < j * u + u /\ j * u < g[4] - q[2]
      /\ s \in Nat \ {0} /\ u \in Nat \ {0}
  BY SpansAre
<1>4. /\ Pyramid!Width(s) \in Int /\ Pyramid!Height(s) \in Int
      /\ \A a \in Int : a < Pyramid!Width(s) <=> a * s < g[3] - g[1]
      /\ \A a \in Int : a < Pyramid!Height(s) <=> a * s < g[4] - g[2]
  <2>1. g[3] - g[1] \in Int /\ g[4] - g[2] \in Int
    BY <1>2
  <2> QED
    BY <1>3, <2>1, CeilIs DEF Pyramid!Width, Pyramid!Height
<1> HIDE DEF s, u, g, k, n
<1>5. /\ q[1] - g[1] < k * s + s /\ k * s < q[3] - g[1] /\ k * s < g[3] - g[1]
      /\ g[4] - q[4] < n * s + s /\ n * s < g[4] - q[2] /\ n * s < g[4] - g[2]
  BY <1>1, <1>2, <1>3
<1>6. k < Pyramid!Width(s) /\ n < Pyramid!Height(s)
  BY <1>1, <1>4, <1>5
<1>7. k \in 0 .. Pyramid!Width(s) - 1 /\ n \in 0 .. Pyramid!Height(s) - 1
  BY <1>1, <1>4, <1>6
<1>8. Pyramid!ShareArea(Pyramid!Extent(l), 0,
                        Pyramid!InsideOf(z, k * MetaSize, n * MetaSize, MetaSize))
  BY <1>5, <1>7, MeetingIsShared DEF s, g
<1> QED
  BY <1>7, <1>8 DEF s, k, n

\* Without a buffer, a tile in the limits meets the part of the layer that is in the grid.
LEMMA AdvertisedMeets ==
  ASSUME Pyramid!PyramidAssumption, NEW l \in SeedLayers, NEW z \in Pyramid!Zooms,
         NEW q \in Pyramid!InGrid(l), l.asked = Pyramid!NoBox, Pyramid!Buffer(l, z) = 0,
         NEW i \in 0 .. Pyramid!Width(Pyramid!TileSpan(z)) - 1,
         NEW j \in 0 .. Pyramid!Height(Pyramid!TileSpan(z)) - 1,
         Pyramid!Limits(q, 0, Pyramid!TileSpan(z))[1] <= i,
         i <= Pyramid!Limits(q, 0, Pyramid!TileSpan(z))[2],
         Pyramid!Limits(q, 0, Pyramid!TileSpan(z))[3] <= j,
         j <= Pyramid!Limits(q, 0, Pyramid!TileSpan(z))[4]
  PROVE  /\ q[1] - Pyramid!GridBox[1] < i * Pyramid!TileSpan(z) + Pyramid!TileSpan(z)
         /\ i * Pyramid!TileSpan(z) < q[3] - Pyramid!GridBox[1]
         /\ Pyramid!GridBox[4] - q[4] < j * Pyramid!TileSpan(z) + Pyramid!TileSpan(z)
         /\ j * Pyramid!TileSpan(z) < Pyramid!GridBox[4] - q[2]
<1> DEFINE u == Pyramid!TileSpan(z)
           g == Pyramid!GridBox
           e == Pyramid!Extent(l)
           w == Pyramid!Width(u) - 1
           h == Pyramid!Height(u) - 1
<1>1. /\ q[1] \in Int /\ q[2] \in Int /\ q[3] \in Int /\ q[4] \in Int
      /\ g[1] \in Int /\ g[2] \in Int /\ g[3] \in Int /\ g[4] \in Int
      /\ g[1] <= q[1] /\ g[2] <= q[2] /\ q[3] <= g[3] /\ q[4] <= g[4]
      /\ q[1] < q[3] /\ q[2] < q[4]
  BY InGridIs
<1>2. /\ q[1] - 0 - g[1] < i * u + u \/ i = w
      /\ i * u < q[3] + 0 - g[1] \/ i = 0
      /\ g[4] - (q[4] + 0) < j * u + u \/ j = h
      /\ j * u < g[4] - (q[2] - 0) \/ j = 0
  BY LimitsAre
<1>3. u \in Nat \ {0}
  BY SpansAre
<1>4. /\ i * u \in Nat /\ j * u \in Nat
      /\ i = w => i * u + u >= g[3] - g[1]
      /\ j = h => j * u + u >= g[4] - g[2]
  BY <1>3, MatrixIs
<1>5. (i = 0 => i * u = 0) /\ (j = 0 => j * u = 0)
  BY <1>3
<1> HIDE DEF u, g, w, h
<1>6. /\ q[1] - g[1] < i * u + u /\ i * u < q[3] - g[1]
      /\ g[4] - q[4] < j * u + u /\ j * u < g[4] - q[2]
  BY <1>1, <1>2, <1>3, <1>4, <1>5
<1> QED
  BY <1>6 DEF u, g

\* The invariant gives what is checked of the limits.
LEMMA LimitsAreRight ==
  ASSUME Pyramid!PyramidAssumption, PyramidInv
  PROVE  LimitsAgree
<1>1. layer \in SeedLayers
  BY DEF PyramidInv
<1>2. Pyramid!AdvertisedHasAll
  <2> SUFFICES ASSUME layer.asked = Pyramid!NoBox,
                      NEW z \in Pyramid!Zooms, NEW c \in Pyramid!TileMatrixLimits(layer, z),
                      NEW i \in 0 .. Pyramid!Width(Pyramid!TileSpan(z)) - 1,
                      NEW j \in 0 .. Pyramid!Height(Pyramid!TileSpan(z)) - 1,
                      Pyramid!Holds(Pyramid!GetGeoms(layer, z), layer, z, i, j, 1)
               PROVE  i \in c[1] .. c[2] /\ j \in c[3] .. c[4]
    BY DEF Pyramid!AdvertisedHasAll
  <2>1. PICK q \in Pyramid!InGrid(layer) :
          c = Pyramid!Limits(q, Pyramid!Buffer(layer, z), Pyramid!TileSpan(z))
    BY DEF Pyramid!TileMatrixLimits
  <2> QED
    BY <1>1, <2>1, SharedIsAdvertised
<1>3. Pyramid!AdvertisedIsQueued
  <2> SUFFICES ASSUME Pyramid!Ended, layer.asked = Pyramid!NoBox, layer.pxBuffer = 0,
                      layer.sources = <<>>,
                      NEW z \in Pyramid!Zooms, NEW c \in Pyramid!TileMatrixLimits(layer, z),
                      NEW i \in c[1] .. c[2], NEW j \in c[3] .. c[4]
               PROVE  Pyramid!MetaTile(z, i \div MetaSize, j \div MetaSize) \in Pyramid!QueueSet
    BY DEF Pyramid!AdvertisedIsQueued
  <2>1. PICK q \in Pyramid!InGrid(layer) :
          c = Pyramid!Limits(q, Pyramid!Buffer(layer, z), Pyramid!TileSpan(z))
    BY DEF Pyramid!TileMatrixLimits
  <2> DEFINE k == i \div MetaSize
             n == j \div MetaSize
  <2>2. /\ k \in 0 .. Pyramid!Width(Pyramid!MetaSpan(z)) - 1
        /\ n \in 0 .. Pyramid!Height(Pyramid!MetaSpan(z)) - 1
        /\ Pyramid!Holds(Pyramid!GetGeoms(layer, z), layer, z, k * MetaSize, n * MetaSize, MetaSize)
    <3>1. Pyramid!Buffer(layer, z) = 0
      <4>1. Grid.resolutions[z] \in Nat
        BY SpansAre
      <4>2. 0 * Grid.resolutions[z] = 0
        BY <4>1
      <4> QED
        BY <4>2 DEF Pyramid!Buffer
    <3>2. Pyramid!GetGeoms(layer, z) = {Pyramid!Extent(layer)}
      <4>1. DOMAIN layer.sources = {}
        OBVIOUS
      <4>2. Pyramid!SourcesFor(layer, z) = {}
        BY <4>1 DEF Pyramid!SourcesFor
      <4> QED
        BY <4>2 DEF Pyramid!GetGeoms
    <3> DEFINE u == Pyramid!TileSpan(z)
               w == Pyramid!Width(u) - 1
               h == Pyramid!Height(u) - 1
    <3>3. /\ c[1] \in 0 .. w /\ c[2] \in 0 .. w /\ c[3] \in 0 .. h /\ c[4] \in 0 .. h
          /\ w \in Nat /\ h \in Nat
      BY <1>1, <2>1, LimitsAre, MatrixIs, SpansAre
    <3> HIDE DEF u, w, h
    <3>4. /\ i \in 0 .. w /\ j \in 0 .. h
          /\ c[1] <= i /\ i <= c[2] /\ c[3] <= j /\ j <= c[4]
      BY <3>3
    <3>5. i \in Nat /\ j \in Nat
      BY <3>3, <3>4
    <3>6. /\ q[1] - Pyramid!GridBox[1] < i * Pyramid!TileSpan(z) + Pyramid!TileSpan(z)
          /\ i * Pyramid!TileSpan(z) < q[3] - Pyramid!GridBox[1]
          /\ Pyramid!GridBox[4] - q[4] < j * Pyramid!TileSpan(z) + Pyramid!TileSpan(z)
          /\ j * Pyramid!TileSpan(z) < Pyramid!GridBox[4] - q[2]
      <4>1. c = Pyramid!Limits(q, 0, Pyramid!TileSpan(z))
        BY <2>1, <3>1
      <4> QED
        BY <1>1, <3>1, <3>4, <4>1, AdvertisedMeets DEF u, w, h
    <3>7. /\ k \in 0 .. Pyramid!Width(Pyramid!MetaSpan(z)) - 1
          /\ n \in 0 .. Pyramid!Height(Pyramid!MetaSpan(z)) - 1
          /\ Pyramid!ShareArea(Pyramid!Extent(layer), 0,
                               Pyramid!InsideOf(z, k * MetaSize, n * MetaSize, MetaSize))
      BY <1>1, <3>5, <3>6, MetaTileMeets
    <3> HIDE DEF k, n
    <3> QED
      BY <3>1, <3>2, <3>7 DEF Pyramid!Holds
  <2>3. Pyramid!AllQueued(Pyramid!GetGeoms(layer, z), z)
    BY AllIsPut
  <2> QED
    BY <2>2, <2>3 DEF Pyramid!AllQueued
<1> QED
  BY <1>2, <1>3 DEF LimitsAgree

\* No step of the commands disturbs it.
LEMMA PyramidStays ==
  ASSUME Pyramid!PyramidAssumption, PyramidInv, [CommandsNext]_commandsVars
  PROVE  PyramidInv'
<1>1. CASE Pyramid!Next
  <2>1. Pyramid!NextZoom \/ Pyramid!NextRow \/ Pyramid!MergeRange \/ Pyramid!Yield
    BY <1>1 DEF Pyramid!Next
  <2> QED
    BY <2>1, NextZoomKeeps, NextRowKeeps, MergeRangeKeeps, YieldKeeps
<1>2. CASE UNCHANGED pyramidVars
  <2>1. /\ layer' = layer /\ zooms' = zooms /\ pyramidZoom' = pyramidZoom /\ rows' = rows
        /\ row' = row /\ ranges' = ranges /\ intervals' = intervals /\ out' = out
        /\ queue' = queue
    BY <1>2 DEF pyramidVars
  <2>2. /\ \A z : RowsOf(z)' = RowsOf(z)
        /\ \A z, n : ColumnsOf(z, n)' = ColumnsOf(z, n)
    BY <2>1, SameToPut
  <2>3. /\ Pending' = Pending /\ Pyramid!OutSet' = Pyramid!OutSet
        /\ Pyramid!EachOnce' = Pyramid!EachOnce
    BY <2>1 DEF Pending, Pyramid!OutSet, Pyramid!EachOnce
  <2>4. \A z, n, i : Awaited(z, n, i)' <=> Awaited(z, n, i)
    BY <2>1, <2>3 DEF Awaited
  <2>5. \A z \in Pyramid!Zooms : \A n \in RowsOf(z)' : \A i \in ColumnsOf(z, n)' :
          Pyramid!MetaTile(z, i, n) \in Pyramid!OutSet' <=> ~Awaited(z, n, i)'
    BY <2>2, <2>3, <2>4 DEF PyramidInv
  <2>6. \A a \in DOMAIN out' :
          \E z \in Pyramid!Zooms : \E n \in RowsOf(z)' : \E i \in ColumnsOf(z, n)' :
            out'[a] = Pyramid!MetaTile(z, i, n)
    BY <2>1, <2>2 DEF PyramidInv
  <2>7. rows' # {} => pyramidZoom' \in Pyramid!Zooms /\ rows' \subseteq RowsOf(pyramidZoom)'
    BY <2>1 DEF PyramidInv, RowsOf
  <2>8. Pending' # {} => /\ pyramidZoom' \in Pyramid!Zooms /\ row' \in RowsOf(pyramidZoom)'
                         /\ row' \notin rows' /\ Pending' \subseteq ColumnsOf(pyramidZoom, row)'
    BY <2>1, <2>3 DEF PyramidInv, RowsOf, ColumnsOf
  <2>9. AreApart(intervals)' /\ Begin(intervals, ranges)' /\ (\A r \in ranges : IsRange(r))'
    BY <2>1 DEF PyramidInv
  <2> QED
    BY <2>1, <2>3, <2>5, <2>6, <2>7, <2>8, <2>9 DEF PyramidInv
<1> QED
  BY <1>1, <1>2 DEF CommandsNext, GenerationStep, ControllerStep, TileStep, PyramidStep, CheckStep,
     commandsVars

\* Whatever the geometry of a layer, its buffer and the grid, a master puts every meta tile
\* that has a part of them, once.
THEOREM GeometryStaysQueued == CommandsSpec => []GeometryIsQueued
<1>1. CommandsInit => PyramidInv
  BY PyramidStarts, PyramidsAssumption DEF CommandsInit
<1>2. PyramidInv /\ [CommandsNext]_commandsVars => PyramidInv'
  BY PyramidStays, PyramidsAssumption
<1>3. PyramidInv => GeometryIsQueued
  BY PyramidIsRight, PyramidsAssumption
<1> QED
  BY <1>1, <1>2, <1>3, PTL DEF CommandsSpec

\* The limits of the capabilities have all the tiles of a layer, and without a buffer all of
\* them is generated.
THEOREM LimitsStayRight == CommandsSpec => []LimitsAgree
<1>1. CommandsInit => PyramidInv
  BY PyramidStarts, PyramidsAssumption DEF CommandsInit
<1>2. PyramidInv /\ [CommandsNext]_commandsVars => PyramidInv'
  BY PyramidStays, PyramidsAssumption
<1>3. PyramidInv => LimitsAgree
  BY LimitsAreRight, PyramidsAssumption
<1> QED
  BY <1>1, <1>2, <1>3, PTL DEF CommandsSpec

-----------------------------------------------------------------------------
(* The scales: what divides what.                                          *)

Positive == Nat \ {0}

\* A number is so many times another one.
Divides(d, n) == \E k \in Nat : n = d * k

IsPrime(p) == p \in Positive /\ p # 1 /\ \A y \in Positive : Divides(y, p) => y = 1 \/ y = p

\* A product of naturals is one.
LEMMA TimesIs ==
  ASSUME NEW a \in Nat, NEW b \in Nat
  PROVE  /\ a * b \in Nat /\ a * b = b * a
         /\ a > 0 /\ b > 0 => a * b > 0 /\ a <= a * b /\ b <= a * b
<1>1. a * b \in Nat /\ a * b = b * a
  OBVIOUS
<1>2. ASSUME a > 0, b > 0 PROVE a <= a * b /\ b <= a * b
  BY <1>2
<1> QED
  BY <1>1, <1>2

LEMMA TimesArePositive ==
  ASSUME NEW a \in Positive, NEW b \in Positive
  PROVE  a * b \in Positive
BY TimesIs DEF Positive

\* What is multiplied three times can be multiplied in any order.
LEMMA TimesTimes ==
  ASSUME NEW a \in Int, NEW b \in Int, NEW c \in Int
  PROVE  a * (b * c) = (a * b) * c /\ a * (b * c) = b * (a * c)
OBVIOUS

\* A positive factor can be taken away.
LEMMA TimesCancels ==
  ASSUME NEW a \in Positive, NEW b \in Int, NEW c \in Int, a * b = a * c
  PROVE  b = c
<1>1. a * (b - c) = 0
  BY DEF Positive
<1>2. CASE b - c > 0
  BY <1>1, <1>2 DEF Positive
<1>3. CASE b - c < 0
  BY <1>1, <1>3 DEF Positive
<1> QED
  BY <1>2, <1>3

\* The remainder is 0 when it divides.
LEMMA DividesIs ==
  ASSUME NEW n \in Nat, NEW d \in Positive
  PROVE  n % d = 0 <=> Divides(d, n)
<1> DEFINE q == n \div d
<1>1. q \in Nat /\ n % d \in 0 .. d - 1 /\ n = d * q + (n % d)
  BY DEF Positive
<1> HIDE DEF q
<1>2. ASSUME n % d = 0 PROVE Divides(d, n)
  <2>1. n = d * q
    BY <1>1, <1>2 DEF Positive
  <2> QED BY <1>1, <2>1 DEF Divides
<1>3. ASSUME NEW k \in Nat, n = d * k PROVE n % d = 0
  <2>1. d * (k - q) = n % d
    BY <1>1, <1>3 DEF Positive
  <2>2. ~(k - q > 0)
    <3> SUFFICES ASSUME k - q >= 1 PROVE FALSE
      BY <1>1
    <3>1. d * (k - q) >= d
      BY <1>1 DEF Positive
    <3> QED BY <2>1, <3>1, <1>1 DEF Positive
  <2>3. ~(k - q < 0)
    <3> SUFFICES ASSUME k - q <= -1 PROVE FALSE
      BY <1>1
    <3>1. d * (k - q) <= -d
      BY <1>1 DEF Positive
    <3> QED BY <2>1, <3>1, <1>1 DEF Positive
  <2>4. k - q = 0
    BY <2>2, <2>3, <1>1
  <2> QED BY <2>1, <2>4 DEF Positive
<1> QED
  BY <1>2, <1>3 DEF Divides

\* What divides two numbers divides what is left of one by the other, and a product.
LEMMA DividesTimes ==
  ASSUME NEW d \in Nat, NEW n \in Nat, NEW k \in Nat, Divides(d, n)
  PROVE  Divides(d, n * k) /\ Divides(d, k * n)
<1>1. PICK c \in Nat : n = d * c
  BY DEF Divides
<1>2. n * k = d * (c * k) /\ c * k \in Nat /\ k * n = n * k
  BY <1>1
<1> QED
  BY <1>2 DEF Divides

\* One number divides another that divides a third one.
LEMMA DividesAll ==
  ASSUME NEW a \in Nat, NEW b \in Nat, NEW c \in Nat, Divides(a, b), Divides(b, c)
  PROVE  Divides(a, c)
<1>1. PICK k \in Nat : c = b * k
  BY DEF Divides
<1> QED
  BY <1>1, DividesTimes

\* A divisor of a positive number is positive and not greater.
LEMMA DivisorIs ==
  ASSUME NEW d \in Nat, NEW n \in Positive, Divides(d, n)
  PROVE  d \in Positive /\ d <= n
<1>1. PICK k \in Nat : n = d * k
  BY DEF Divides
<1>2. d # 0 /\ k # 0
  BY <1>1 DEF Positive
<1> QED
  BY <1>1, <1>2, TimesIs DEF Positive

\* Euclid and Gauss: what divides n * s, and has no divisor in common with n, divides s.
LEMMA CoprimeDivides ==
  ASSUME NEW n \in Positive, NEW d \in Positive, NEW s \in Positive, Divides(d, n * s),
         \A y \in Positive : Divides(y, n) /\ Divides(y, d) => y = 1
  PROVE  Divides(d, s)
<1> DEFINE S == {x \in Positive : Divides(d, n * x)}
<1>1. s \in S
  OBVIOUS
<1>2. d \in S
  <2>1. n * d = d * n
    BY DEF Positive
  <2> QED
    BY <2>1 DEF Divides, Positive
<1>3. PICK m \in S : \A x \in S : m <= x
  <2>1. PICK m \in S : \A x \in S : ~(<<x, m>> \in OpToRel(<, Nat))
    <3>1. IsWellFoundedOn(OpToRel(<, Nat), Nat)
      BY NatLessThanWellFounded
    <3>2. S \subseteq Nat
      BY DEF Positive
    <3> QED BY <1>1, <3>1, <3>2, WFMin, Zenon
  <2>2. \A x \in S : ~(x < m) /\ x \in Nat
    BY <2>1 DEF OpToRel, Positive
  <2>3. m \in Nat
    BY DEF Positive
  <2> HIDE DEF S
  <2> QED
    BY <2>2, <2>3
<1>4. m \in Positive /\ Divides(d, n * m)
  OBVIOUS
<1>5. ASSUME NEW x \in S PROVE Divides(m, x)
  <2> DEFINE q == x \div m
             r == x % m
  <2>1. q \in Nat /\ r \in 0 .. m - 1 /\ x = m * q + r
    BY <1>4 DEF Positive
  <2> HIDE DEF q, r
  <2>2. CASE r = 0
    <3>1. x = m * q
      BY <2>1, <2>2, <1>4 DEF Positive
    <3> QED BY <2>1, <3>1 DEF Divides
  <2>3. CASE r # 0
    <3>1. PICK a \in Nat : n * x = d * a
      BY DEF Divides
    <3>2. PICK b \in Nat : n * m = d * b
      BY <1>4 DEF Divides
    <3>3. n * x = n * (m * q) + n * r
      <4>1. n \in Int /\ m * q \in Int /\ r \in Int
        BY <2>1, <1>4 DEF Positive
      <4> QED BY <2>1, <4>1
    <3>4. n * (m * q) = d * (b * q)
      <4>1. n * (m * q) = (n * m) * q /\ d * (b * q) = (d * b) * q
        BY <2>1, <1>4, <3>2, TimesTimes DEF Positive
      <4> QED BY <4>1, <3>2
    <3>5. n * r = d * (a - b * q)
      <4>1. d * a \in Int /\ b * q \in Int /\ d * (b * q) \in Int /\ n * r \in Int
        BY <2>1, <3>1, <3>2 DEF Positive
      <4>2. d * (a - b * q) = d * a - d * (b * q)
        BY <4>1, <3>1 DEF Positive
      <4>3. n * r = d * a - d * (b * q)
        BY <3>1, <3>3, <3>4, <4>1
      <4> QED BY <4>2, <4>3
    <3>6. a - b * q \in Int /\ n * r \in Nat /\ n * r > 0
      BY <2>1, <2>3, <3>1, <3>2, TimesIs DEF Positive
    <3>7. a - b * q \in Nat
      <4> DEFINE c == a - b * q
      <4>1. c \in Int /\ d * c > 0
        BY <3>5, <3>6
      <4> HIDE DEF c
      <4>2. c \in Nat
        <5> SUFFICES ASSUME c <= -1 PROVE FALSE
          BY <4>1
        <5>1. d * c <= -d
          BY <4>1 DEF Positive
        <5> QED BY <4>1, <5>1 DEF Positive
      <4> QED BY <4>2 DEF c
    <3>8. r \in S
      BY <3>5, <3>7, <2>1, <2>3 DEF Divides, Positive
    <3>9. m <= r
      BY <3>8, <1>3
    <3> QED BY <3>9, <2>1, <1>4 DEF Positive
  <2> QED
    BY <2>2, <2>3
<1>6. PICK y \in Nat : d = m * y
  BY <1>2, <1>5 DEF Divides
<1>7. y \in Positive
  BY <1>4, <1>6 DEF Positive
<1>8. PICK b \in Nat : n * m = d * b
  BY <1>4 DEF Divides
<1>9. n = y * b
  <2>1. m * n = m * (y * b)
    <3>1. n * m = m * n /\ d * b = (m * y) * b /\ m * (y * b) = (m * y) * b
      BY <1>4, <1>6, <1>7, <1>8, TimesTimes DEF Positive
    <3> QED BY <3>1, <1>8
  <2>2. y * b \in Int
    BY <1>8
  <2> QED BY <2>1, <2>2, <1>4, TimesCancels DEF Positive
<1>10. Divides(y, n)
  BY <1>8, <1>9 DEF Divides
<1>11. Divides(y, d)
  <2>1. d = y * m
    BY <1>4, <1>6 DEF Positive
  <2> QED BY <2>1, <1>4 DEF Divides, Positive
<1>12. y = 1
  BY <1>7, <1>10, <1>11
<1>13. d = m
  BY <1>4, <1>6, <1>12 DEF Positive
<1> QED
  BY <1>1, <1>5, <1>13

\* A prime that divides a product divides one of the two.
LEMMA PrimeDivides ==
  ASSUME NEW p, IsPrime(p), NEW m \in Positive, NEW k \in Positive, Divides(p, m * k)
  PROVE  Divides(p, m) \/ Divides(p, k)
<1> SUFFICES ASSUME ~Divides(p, m) PROVE Divides(p, k)
  OBVIOUS
<1>1. ASSUME NEW y \in Positive, Divides(y, m), Divides(y, p) PROVE y = 1
  BY <1>1 DEF IsPrime
<1> QED
  BY <1>1, CoprimeDivides DEF IsPrime

-----------------------------------------------------------------------------
(* Powers and products.                                                    *)

\* The products of the first values of a function are what their definition says.
LEMMA MultipliedIs ==
  ASSUME NEW g \in [Nat -> Positive]
  PROVE  /\ Check!Multiplied(g) \in [Nat -> Positive]
         /\ Check!Multiplied(g)[0] = 1
         /\ \A i \in Nat : Check!Multiplied(g)[i + 1] = g[i + 1] * Check!Multiplied(g)[i]
<1> DEFINE Starts(f, n) ==
             /\ f \in [0 .. n -> Positive] /\ f[0] = 1
             /\ \A i \in 0 .. n - 1 : f[i + 1] = g[i + 1] * f[i]
           Is(p) == p = [i \in Nat |-> IF i = 0 THEN 1 ELSE g[i] * p[i - 1]]
           S == {n \in Nat : \E f : Starts(f, n)}
<1>1. 0 \in S
  <2>1. Starts([i \in 0 .. 0 |-> 1], 0)
    BY DEF Positive
  <2> QED BY <2>1
<1>2. ASSUME NEW n \in Nat, n \in S PROVE n + 1 \in S
  <2>1. PICK f : Starts(f, n)
    BY <1>2
  <2> DEFINE h == [i \in 0 .. n + 1 |-> IF i = n + 1 THEN g[n + 1] * f[n] ELSE f[i]]
  <2>2. g[n + 1] * f[n] \in Positive
    <3>1. g[n + 1] \in Positive /\ f[n] \in Positive
      BY <2>1
    <3> QED BY <3>1, TimesArePositive
  <2>3. h \in [0 .. n + 1 -> Positive] /\ h[0] = 1
    BY <2>1, <2>2
  <2>4. ASSUME NEW i \in 0 .. n PROVE h[i + 1] = g[i + 1] * h[i]
    <3>1. CASE i = n
      BY <3>1
    <3>2. CASE i # n
      <4>1. i \in 0 .. n - 1 /\ i + 1 \in 0 .. n + 1 /\ i + 1 # n + 1 /\ i # n + 1
        BY <3>2
      <4>2. h[i + 1] = f[i + 1] /\ h[i] = f[i]
        BY <4>1
      <4> QED BY <2>1, <4>1, <4>2
    <3> QED BY <3>1, <3>2
  <2> HIDE DEF h
  <2>5. Starts(h, n + 1)
    <3>1. 0 .. (n + 1) - 1 = 0 .. n
      OBVIOUS
    <3> QED BY <2>3, <2>4, <3>1
  <2> HIDE DEF Starts
  <2> QED BY <2>5
<1>3. \A n \in Nat : \E f : Starts(f, n)
  <2> HIDE DEF S
  <2>1. Nat \subseteq S
    BY <1>1, <1>2, NatSetInduction
  <2> QED BY <2>1 DEF S
<1>4. ASSUME NEW n \in Nat, NEW m \in Nat, NEW f, NEW h, Starts(f, n), Starts(h, m), n <= m
      PROVE  f[n] = h[n]
  <2> DEFINE U == {i \in Nat : i <= n => f[i] = h[i]}
  <2>1. 0 \in U
    BY <1>4
  <2>2. ASSUME NEW i \in Nat, i \in U PROVE i + 1 \in U
    <3> SUFFICES ASSUME i + 1 <= n PROVE f[i + 1] = h[i + 1]
      OBVIOUS
    <3>1. i \in 0 .. n - 1 /\ i \in 0 .. m - 1 /\ f[i] = h[i]
      BY <1>4, <2>2
    <3> QED BY <1>4, <3>1
  <2> HIDE DEF U
  <2>3. Nat \subseteq U
    BY <2>1, <2>2, NatSetInduction
  <2> QED BY <2>3 DEF U
<1> DEFINE F == [n \in Nat |-> CHOOSE f : Starts(f, n)]
           p == [n \in Nat |-> F[n][n]]
<1>5. \A n \in Nat : Starts(F[n], n)
  <2> HIDE DEF Starts
  <2> QED BY <1>3
<1> HIDE DEF F
<1>6. p \in [Nat -> Positive] /\ p[0] = 1
  BY <1>5
<1>7. ASSUME NEW i \in Nat PROVE p[i + 1] = g[i + 1] * p[i]
  <2>1. Starts(F[i], i) /\ Starts(F[i + 1], i + 1)
    BY <1>5
  <2>2. F[i][i] = F[i + 1][i]
    <3> HIDE DEF Starts
    <3> QED BY <1>4, <2>1
  <2>3. F[i + 1][i + 1] = g[i + 1] * F[i + 1][i]
    BY <2>1
  <2> QED BY <2>2, <2>3
<1> HIDE DEF p
<1>8. Is(p)
  <2>1. ASSUME NEW i \in Nat PROVE p[i] = IF i = 0 THEN 1 ELSE g[i] * p[i - 1]
    <3>1. CASE i = 0
      BY <1>6, <3>1
    <3>2. CASE i # 0
      <4>1. i - 1 \in Nat /\ (i - 1) + 1 = i
        BY <3>2
      <4> QED BY <1>7, <3>2, <4>1
    <3> QED BY <3>1, <3>2
  <2> QED BY <1>6, <2>1
<1>9. Check!Multiplied(g) = CHOOSE k : Is(k)
  BY DEF Check!Multiplied
<1> HIDE DEF Is
<1>10. Is(Check!Multiplied(g))
  BY <1>8, <1>9
<1> DEFINE k == Check!Multiplied(g)
<1> HIDE DEF k
<1>11. k = [i \in Nat |-> IF i = 0 THEN 1 ELSE g[i] * k[i - 1]]
  BY <1>10 DEF Is, k
<1>12. k[0] = 1 /\ \A i \in Nat : k[i + 1] = g[i + 1] * k[i]
  <2>1. k[0] = 1
    BY <1>11
  <2>2. ASSUME NEW i \in Nat PROVE k[i + 1] = g[i + 1] * k[i]
    <3>1. i + 1 \in Nat /\ i + 1 # 0 /\ (i + 1) - 1 = i
      OBVIOUS
    <3> QED BY <1>11, <3>1
  <2> QED BY <2>1, <2>2
<1>13. k \in [Nat -> Positive]
  <2> DEFINE V == {i \in Nat : k[i] \in Positive}
  <2>1. 0 \in V
    BY <1>12 DEF Positive
  <2>2. ASSUME NEW i \in Nat, i \in V PROVE i + 1 \in V
    <3>1. g[i + 1] \in Positive /\ k[i] \in Positive /\ k[i + 1] = g[i + 1] * k[i]
      BY <1>12, <2>2
    <3> QED BY <3>1, TimesArePositive
  <2> HIDE DEF V
  <2>3. Nat \subseteq V
    BY <2>1, <2>2, NatSetInduction
  <2> QED BY <1>11, <2>3 DEF V
<1> QED
  BY <1>12, <1>13 DEF k

\* What a power is.
LEMMA PowerIs ==
  ASSUME NEW f \in Positive
  PROVE  /\ Check!Power(f, 0) = 1
         /\ \A n \in Nat : /\ Check!Power(f, n) \in Positive
                           /\ Check!Power(f, n + 1) = f * Check!Power(f, n)
<1> DEFINE g == [i \in Nat |-> f]
<1>1. g \in [Nat -> Positive] /\ \A n \in Nat : g[n + 1] = f
  OBVIOUS
<1>2. \A n : Check!Power(f, n) = Check!Multiplied(g)[n]
  BY DEF Check!Power
<1> HIDE DEF g
<1> QED
  BY <1>1, <1>2, MultipliedIs

\* A lower power divides a higher one.
LEMMA PowersDivide ==
  ASSUME NEW f \in Positive, NEW a \in Nat, NEW b \in Nat, a <= b
  PROVE  Divides(Check!Power(f, a), Check!Power(f, b))
<1> DEFINE S == {k \in Nat : Divides(Check!Power(f, a), Check!Power(f, a + k))}
<1>1. 0 \in S
  <2>1. Check!Power(f, a) \in Nat /\ a + 0 = a
    BY PowerIs DEF Positive
  <2>2. Check!Power(f, a) = Check!Power(f, a) * 1
    BY <2>1
  <2> QED BY <2>1, <2>2 DEF Divides
<1>2. ASSUME NEW k \in Nat, k \in S PROVE k + 1 \in S
  <2>1. /\ Check!Power(f, a) \in Nat /\ Check!Power(f, a + k) \in Nat /\ f \in Nat
        /\ Check!Power(f, (a + k) + 1) = f * Check!Power(f, a + k)
        /\ a + (k + 1) = (a + k) + 1
    <3>1. a + k \in Nat /\ a + (k + 1) = (a + k) + 1
      OBVIOUS
    <3> QED BY <3>1, PowerIs DEF Positive
  <2>2. Divides(Check!Power(f, a), f * Check!Power(f, a + k))
    BY <1>2, <2>1, DividesTimes
  <2> QED BY <2>1, <2>2
<1> HIDE DEF S
<1>3. b - a \in S
  <2>1. Nat \subseteq S /\ b - a \in Nat
    BY <1>1, <1>2, NatSetInduction
  <2> QED BY <2>1
<1>4. a + (b - a) = b
  OBVIOUS
<1> QED
  BY <1>3, <1>4 DEF S

\* A prime divides no power of another one.
LEMMA PowersAreApart ==
  ASSUME NEW p, NEW q, IsPrime(p), IsPrime(q), p # q, NEW n \in Nat
  PROVE  ~Divides(p, Check!Power(q, n))
<1> DEFINE S == {k \in Nat : ~Divides(p, Check!Power(q, k))}
<1>1. /\ p \in Positive /\ q \in Positive /\ p # 1 /\ p \in Nat
      /\ ~Divides(p, q)
  BY DEF IsPrime, Positive
<1>2. 0 \in S
  <2>1. ~Divides(p, 1)
    BY <1>1, DivisorIs DEF Positive
  <2> QED BY <1>1, <2>1, PowerIs
<1>3. ASSUME NEW k \in Nat, k \in S PROVE k + 1 \in S
  <2>1. /\ Check!Power(q, k) \in Positive
        /\ Check!Power(q, k + 1) = q * Check!Power(q, k)
    BY <1>1, PowerIs
  <2>2. ~Divides(p, Check!Power(q, k))
    BY <1>3
  <2>3. ~Divides(p, q * Check!Power(q, k))
    BY <1>1, <2>1, <2>2, PrimeDivides
  <2> QED BY <2>1, <2>3
<1> HIDE DEF S
<1> QED
  BY <1>2, <1>3, NatSetInduction DEF S

\* A power of a prime divides what is left of a product when the prime does not divide the
\* other number.
LEMMA PowerDivides ==
  ASSUME NEW p, IsPrime(p), NEW m \in Positive, ~Divides(p, m), NEW n \in Nat,
         NEW k \in Positive, Divides(Check!Power(p, n), m * k)
  PROVE  Divides(Check!Power(p, n), k)
<1> DEFINE S == {a \in Nat : \A s \in Positive :
                   Divides(Check!Power(p, a), m * s) => Divides(Check!Power(p, a), s)}
<1>1. p \in Positive /\ p \in Nat /\ m \in Nat
  BY DEF IsPrime, Positive
<1>2. 0 \in S
  <2>1. ASSUME NEW s \in Positive PROVE Divides(1, s)
    BY DEF Divides, Positive
  <2> QED BY <1>1, <2>1, PowerIs
<1>3. ASSUME NEW a \in Nat, a \in S, NEW s \in Positive,
             Divides(Check!Power(p, a + 1), m * s)
      PROVE  Divides(Check!Power(p, a + 1), s)
  <2> DEFINE q == Check!Power(p, a)
  <2>1. q \in Positive /\ q \in Nat /\ Check!Power(p, a + 1) = p * q
    BY <1>1, PowerIs DEF Positive
  <2> HIDE DEF q
  <2>2. PICK c \in Nat : m * s = (p * q) * c
    BY <1>3, <2>1 DEF Divides
  <2>3. m * s = p * (q * c) /\ q * c \in Nat
    BY <1>1, <2>1, <2>2, TimesTimes
  <2>4. Divides(p, s)
    <3>1. Divides(p, m * s)
      BY <2>3 DEF Divides
    <3> QED BY <3>1, PrimeDivides
  <2>5. PICK t \in Nat : s = p * t
    BY <2>4 DEF Divides
  <2>6. t \in Positive
    BY <1>1, <2>5 DEF Positive
  <2>7. m * t = q * c
    <3>1. m * (p * t) = p * (m * t) /\ m * t \in Int
      BY <1>1, TimesTimes
    <3>2. p * (m * t) = p * (q * c)
      BY <2>3, <2>5, <3>1
    <3> QED BY <1>1, <2>3, <3>1, <3>2, TimesCancels
  <2>8. Divides(q, t)
    <3>1. Divides(q, m * t)
      BY <2>7 DEF Divides
    <3> QED BY <1>3, <2>6, <3>1 DEF q
  <2>9. PICK e \in Nat : t = q * e
    BY <2>8 DEF Divides
  <2>10. s = (p * q) * e
    <3>1. p * (q * e) = (p * q) * e
      BY <1>1, <2>1, TimesTimes
    <3> QED BY <2>5, <2>9, <3>1
  <2> QED BY <2>1, <2>10 DEF Divides
<1>4. \A a \in Nat : a \in S => a + 1 \in S
  BY <1>3
<1> HIDE DEF S
<1> QED
  BY <1>2, <1>4, NatSetInduction DEF S

\* The factors that are counted are primes.
CountsPrimes(c) ==
  c \in [Check!Factors -> Nat] /\ \A f \in Check!Factors : c[f] > 0 => IsPrime(f)

\* The product of the factors up to a number.
ProductTo(c, i) == Check!Multiplied(Check!Powers(c))[i]

\* The product, a factor more at a time.
LEMMA ProductIs ==
  ASSUME NEW c \in [Check!Factors -> Nat]
  PROVE  /\ ProductTo(c, 0) = 1
         /\ \A i \in Nat :
              /\ Check!Powers(c)[i] \in Positive /\ ProductTo(c, i) \in Positive
              /\ ProductTo(c, i + 1) = Check!Powers(c)[i + 1] * ProductTo(c, i)
         /\ \A f \in Check!Factors :
              Check!Powers(c)[f] = Check!Power(f, c[f]) /\ f \in Positive
         /\ \A i \in Nat : i \notin Check!Factors => Check!Powers(c)[i] = 1
<1> DEFINE g == Check!Powers(c)
<1>1. \A i \in Nat : g[i] = IF i \in Check!Factors THEN Check!Power(i, c[i]) ELSE 1
  BY DEF Check!Powers
<1>2. \A f \in Check!Factors : f \in Nat /\ f \in Positive /\ c[f] \in Nat
  BY DEF Check!Factors, Positive
<1>3. g \in [Nat -> Positive]
  <2>1. ASSUME NEW i \in Nat PROVE g[i] \in Positive
    <3>1. CASE i \in Check!Factors
      BY <1>1, <1>2, <3>1, PowerIs
    <3>2. CASE i \notin Check!Factors
      BY <1>1, <3>2 DEF Positive
    <3> QED BY <3>1, <3>2
  <2>2. g = [i \in Nat |-> g[i]]
    BY DEF Check!Powers
  <2> HIDE DEF g
  <2> QED BY <2>1, <2>2
<1> HIDE DEF g
<1>4. /\ Check!Multiplied(g) \in [Nat -> Positive] /\ Check!Multiplied(g)[0] = 1
      /\ \A i \in Nat : Check!Multiplied(g)[i + 1] = g[i + 1] * Check!Multiplied(g)[i]
  BY <1>3, MultipliedIs
<1>5. \A i : ProductTo(c, i) = Check!Multiplied(g)[i]
  BY DEF ProductTo, g
<1> QED
  BY <1>1, <1>2, <1>3, <1>4, <1>5 DEF g

\* A counted factor divides the product, as often as it is counted.
LEMMA FactorDivides ==
  ASSUME NEW c \in [Check!Factors -> Nat], NEW f \in Check!Factors, NEW n \in Nat, f <= n
  PROVE  Divides(Check!Power(f, c[f]), ProductTo(c, n))
<1> DEFINE q == Check!Powers(c)[f]
           S == {k \in Nat : Divides(q, ProductTo(c, f + k))}
<1>1. f \in Nat /\ f - 1 \in Nat /\ (f - 1) + 1 = f /\ f + 0 = f
  BY DEF Check!Factors
<1>2. q \in Positive /\ q \in Nat /\ q = Check!Power(f, c[f])
  BY <1>1, ProductIs DEF Positive
<1> HIDE DEF q
<1>3. 0 \in S
  <2>1. ProductTo(c, f) = q * ProductTo(c, f - 1) /\ ProductTo(c, f - 1) \in Nat
    BY <1>1, ProductIs DEF Positive, q
  <2> QED BY <1>1, <2>1 DEF Divides
<1>4. ASSUME NEW k \in Nat, k \in S PROVE k + 1 \in S
  <2>1. f + k \in Nat /\ f + (k + 1) = (f + k) + 1
    BY <1>1
  <2>2. /\ ProductTo(c, (f + k) + 1) = Check!Powers(c)[(f + k) + 1] * ProductTo(c, f + k)
        /\ ProductTo(c, f + k) \in Nat
    BY <2>1, ProductIs DEF Positive
  <2>3. Check!Powers(c)[(f + k) + 1] \in Nat
    <3>1. (f + k) + 1 \in Nat
      BY <2>1
    <3> QED BY <3>1, ProductIs DEF Positive
  <2> QED BY <1>2, <1>4, <2>1, <2>2, <2>3, DividesTimes
<1> HIDE DEF S
<1>5. n - f \in S
  <2>1. Nat \subseteq S /\ n - f \in Nat
    BY <1>1, <1>3, <1>4, NatSetInduction
  <2> QED BY <2>1
<1>6. f + (n - f) = n
  BY <1>1
<1> QED
  BY <1>2, <1>5, <1>6 DEF S

\* A prime that is not among the factors divides nothing of their product.
LEMMA ProductIsApart ==
  ASSUME NEW c, CountsPrimes(c), NEW p \in Nat, IsPrime(p), NEW n \in Nat, n < p
  PROVE  ~Divides(p, ProductTo(c, n))
<1> DEFINE S == {k \in Nat : k < p => ~Divides(p, ProductTo(c, k))}
<1>1. c \in [Check!Factors -> Nat] /\ p \in Positive /\ p # 1
  BY DEF CountsPrimes, IsPrime
<1>2. ~Divides(p, 1)
  BY <1>1, DivisorIs DEF Positive
<1>3. 0 \in S
  BY <1>1, <1>2, ProductIs
<1>4. ASSUME NEW k \in Nat, k \in S PROVE k + 1 \in S
  <2> SUFFICES ASSUME k + 1 < p PROVE ~Divides(p, ProductTo(c, k + 1))
    OBVIOUS
  <2>1. ~Divides(p, ProductTo(c, k)) /\ k + 1 \in Nat /\ k + 1 # p
    BY <1>4
  <2>2. /\ ProductTo(c, k) \in Positive /\ Check!Powers(c)[k + 1] \in Positive
        /\ ProductTo(c, k + 1) = Check!Powers(c)[k + 1] * ProductTo(c, k)
    BY <1>1, <2>1, ProductIs
  <2>3. ~Divides(p, Check!Powers(c)[k + 1])
    <3>1. CASE k + 1 \notin Check!Factors
      BY <1>1, <1>2, <2>1, <3>1, ProductIs
    <3>2. CASE k + 1 \in Check!Factors
      <4>1. Check!Powers(c)[k + 1] = Check!Power(k + 1, c[k + 1]) /\ k + 1 \in Positive
        BY <1>1, <3>2, ProductIs
      <4>2. CASE c[k + 1] > 0
        BY <2>1, <3>2, <4>1, <4>2, PowersAreApart DEF CountsPrimes
      <4>3. CASE ~(c[k + 1] > 0)
        <5>1. c[k + 1] = 0
          BY <1>1, <3>2, <4>3
        <5> QED BY <1>2, <4>1, <5>1, PowerIs
      <4> QED BY <4>2, <4>3
    <3> QED BY <3>1, <3>2
  <2>4. ~Divides(p, Check!Powers(c)[k + 1] * ProductTo(c, k))
    BY <2>1, <2>2, <2>3, PrimeDivides
  <2> QED BY <2>2, <2>4
<1> HIDE DEF S
<1> QED
  BY <1>3, <1>4, NatSetInduction DEF S

\* What every counted factor divides, as often as it is counted, their product divides.
LEMMA ProductIsLeast ==
  ASSUME NEW c, CountsPrimes(c), NEW s \in Positive, NEW n \in Nat,
         \A f \in Check!Factors : Divides(Check!Power(f, c[f]), s)
  PROVE  Divides(ProductTo(c, n), s)
<1> DEFINE S == {k \in Nat : Divides(ProductTo(c, k), s)}
<1>1. c \in [Check!Factors -> Nat]
  BY DEF CountsPrimes
<1>2. 0 \in S
  <2>1. Divides(1, s)
    BY DEF Divides, Positive
  <2> QED BY <1>1, <2>1, ProductIs
<1>3. ASSUME NEW k \in Nat, k \in S PROVE k + 1 \in S
  <2> DEFINE m == ProductTo(c, k)
             g == Check!Powers(c)[k + 1]
  <2>1. m \in Positive /\ g \in Positive /\ ProductTo(c, k + 1) = g * m
    BY <1>1, ProductIs
  <2> HIDE DEF m, g
  <2>2. PICK t \in Nat : s = m * t
    BY <1>3 DEF Divides, m
  <2>3. t \in Positive
    BY <2>1, <2>2 DEF Positive
  <2>4. Divides(g, t)
    <3>1. ASSUME g = 1 PROVE Divides(g, t)
      BY <3>1 DEF Divides
    <3>2. CASE k + 1 \notin Check!Factors
      BY <1>1, <3>1, <3>2, ProductIs DEF g
    <3>3. CASE k + 1 \in Check!Factors
      <4>1. g = Check!Power(k + 1, c[k + 1]) /\ k + 1 \in Positive /\ c[k + 1] \in Nat
        BY <1>1, <3>3, ProductIs DEF g
      <4>2. CASE c[k + 1] = 0
        BY <3>1, <4>1, <4>2, PowerIs
      <4>3. CASE c[k + 1] > 0
        <5>1. IsPrime(k + 1)
          BY <3>3, <4>3 DEF CountsPrimes
        <5>2. ~Divides(k + 1, m)
          BY <5>1, ProductIsApart DEF m
        <5>3. Divides(g, m * t)
          BY <2>2, <3>3, <4>1
        <5> QED BY <2>1, <2>3, <4>1, <5>1, <5>2, <5>3, PowerDivides
      <4> QED BY <4>1, <4>2, <4>3
    <3> QED BY <3>2, <3>3
  <2>5. PICK e \in Nat : t = g * e
    BY <2>4 DEF Divides
  <2>6. s = (g * m) * e
    <3>1. m * (g * e) = (g * m) * e
      BY <2>1, TimesTimes DEF Positive
    <3> QED BY <2>2, <2>5, <3>1
  <2>7. Divides(g * m, s)
    BY <2>6 DEF Divides
  <2> QED BY <2>1, <2>7
<1> HIDE DEF S
<1> QED
  BY <1>2, <1>3, NatSetInduction DEF S

\* More of the factors make a multiple.
LEMMA ProductsDivide ==
  ASSUME NEW c \in [Check!Factors -> Nat], NEW d \in [Check!Factors -> Nat], NEW n \in Nat,
         \A f \in Check!Factors : c[f] <= d[f]
  PROVE  Divides(ProductTo(c, n), ProductTo(d, n))
<1> DEFINE S == {k \in Nat : Divides(ProductTo(c, k), ProductTo(d, k))}
<1>1. 0 \in S
  <2>1. Divides(1, 1)
    BY DEF Divides
  <2> QED BY <2>1, ProductIs
<1>2. ASSUME NEW k \in Nat, k \in S PROVE k + 1 \in S
  <2> DEFINE m == ProductTo(c, k)
             o == ProductTo(d, k)
             g == Check!Powers(c)[k + 1]
             h == Check!Powers(d)[k + 1]
  <2>1. m \in Nat /\ g \in Nat /\ ProductTo(c, k + 1) = g * m
    BY ProductIs DEF Positive
  <2>2. o \in Nat /\ h \in Nat /\ ProductTo(d, k + 1) = h * o
    BY ProductIs DEF Positive
  <2>3. Divides(g, h)
    <3>1. CASE k + 1 \notin Check!Factors
      <4>1. g = 1 /\ h = 1
        BY <3>1, ProductIs
      <4> QED BY <4>1 DEF Divides
    <3>2. CASE k + 1 \in Check!Factors
      <4>1. /\ g = Check!Power(k + 1, c[k + 1]) /\ h = Check!Power(k + 1, d[k + 1])
            /\ k + 1 \in Positive
        BY <3>2, ProductIs
      <4> HIDE DEF g, h
      <4> QED BY <3>2, <4>1, PowersDivide
    <3> QED BY <3>1, <3>2
  <2> HIDE DEF m, o, g, h
  <2>4. PICK a \in Nat : h = g * a
    BY <2>3 DEF Divides
  <2>5. PICK b \in Nat : o = m * b
    BY <1>2 DEF Divides, m, o
  <2>6. h * o = (g * m) * (a * b)
    <3>1. (g * a) * (m * b) = g * (a * (m * b))
      BY <2>1, <2>4, <2>5, TimesTimes
    <3>2. a * (m * b) = m * (a * b)
      BY <2>1, <2>4, <2>5, TimesTimes
    <3>3. g * (m * (a * b)) = (g * m) * (a * b)
      BY <2>1, <2>4, <2>5, TimesTimes
    <3> QED BY <2>4, <2>5, <3>1, <3>2, <3>3
  <2>7. a * b \in Nat
    BY TimesIs
  <2>8. Divides(g * m, h * o)
    BY <2>6, <2>7 DEF Divides
  <2> QED BY <2>1, <2>2, <2>8
<1> HIDE DEF S
<1> QED
  BY <1>1, <1>2, NatSetInduction DEF S

\* No factors make 1.
LEMMA NoFactorsMakeOne ==
  ASSUME NEW n \in Nat
  PROVE  ProductTo(Check!NoFactors, n) = 1
<1> DEFINE c == Check!NoFactors
           S == {k \in Nat : ProductTo(c, k) = 1}
<1>1. c \in [Check!Factors -> Nat] /\ \A f \in Check!Factors : c[f] = 0
  BY DEF Check!NoFactors
<1> HIDE DEF c
<1>2. 0 \in S
  BY <1>1, ProductIs
<1>3. ASSUME NEW k \in Nat, k \in S PROVE k + 1 \in S
  <2>1. Check!Powers(c)[k + 1] = 1
    <3>1. CASE k + 1 \notin Check!Factors
      BY <1>1, <3>1, ProductIs
    <3>2. CASE k + 1 \in Check!Factors
      BY <1>1, <3>2, ProductIs, PowerIs
    <3> QED BY <3>1, <3>2
  <2>2. ProductTo(c, k + 1) = Check!Powers(c)[k + 1] * ProductTo(c, k)
    BY <1>1, ProductIs
  <2> QED BY <1>3, <2>1, <2>2
<1> HIDE DEF S
<1> QED
  BY <1>2, <1>3, NatSetInduction DEF S, c

\* One factor more multiplies the product.
LEMMA OneFactorMore ==
  ASSUME NEW c \in [Check!Factors -> Nat], NEW f \in Check!Factors, NEW n \in Nat,
         NEW d \in [Check!Factors -> Nat], d[f] = c[f] + 1,
         \A e \in Check!Factors : e # f => d[e] = c[e]
  PROVE  ProductTo(d, n) = IF n < f THEN ProductTo(c, n) ELSE f * ProductTo(c, n)
<1> DEFINE S == {k \in Nat :
                   ProductTo(d, k) = IF k < f THEN ProductTo(c, k) ELSE f * ProductTo(c, k)}
<1>1. /\ d \in [Check!Factors -> Nat] /\ d[f] = c[f] + 1
      /\ \A e \in Check!Factors : e # f => d[e] = c[e]
  OBVIOUS
<1>2. f \in Nat /\ f > 0 /\ f \in Positive /\ c[f] \in Nat
  BY DEF Check!Factors, Positive
<1>3. 0 \in S
  BY <1>1, <1>2, ProductIs
<1>4. ASSUME NEW k \in Nat, k \in S PROVE k + 1 \in S
  <2>1. /\ ProductTo(c, k + 1) = Check!Powers(c)[k + 1] * ProductTo(c, k)
        /\ ProductTo(c, k) \in Nat /\ Check!Powers(c)[k + 1] \in Nat
    BY ProductIs DEF Positive
  <2>2. ProductTo(d, k + 1) = Check!Powers(d)[k + 1] * ProductTo(d, k)
    BY <1>1, ProductIs
  <2>3. CASE k + 1 # f
    <3>1. Check!Powers(d)[k + 1] = Check!Powers(c)[k + 1]
      <4>1. CASE k + 1 \notin Check!Factors
        <5>1. k + 1 \in Nat
          OBVIOUS
        <5>2. Check!Powers(c)[k + 1] = 1
          BY <4>1, <5>1, ProductIs
        <5>3. Check!Powers(d)[k + 1] = 1
          BY <1>1, <4>1, <5>1, ProductIs
        <5> QED BY <5>2, <5>3
      <4>2. CASE k + 1 \in Check!Factors
        <5>1. d[k + 1] = c[k + 1]
          BY <1>1, <2>3, <4>2
        <5>2. /\ Check!Powers(d)[k + 1] = Check!Power(k + 1, d[k + 1])
              /\ Check!Powers(c)[k + 1] = Check!Power(k + 1, c[k + 1])
          BY <1>1, <4>2, ProductIs
        <5> QED BY <5>1, <5>2
      <4> QED BY <4>1, <4>2
    <3>2. CASE k < f
      <4>1. k + 1 < f /\ ProductTo(d, k) = ProductTo(c, k)
        BY <1>2, <1>4, <2>3, <3>2
      <4> QED BY <2>1, <2>2, <3>1, <4>1
    <3>3. CASE ~(k < f)
      <4>1. ~(k + 1 < f) /\ ProductTo(d, k) = f * ProductTo(c, k)
        BY <1>2, <1>4, <2>3, <3>3
      <4>2. Check!Powers(c)[k + 1] * (f * ProductTo(c, k)) =
              f * (Check!Powers(c)[k + 1] * ProductTo(c, k))
        BY <1>2, <2>1, TimesTimes
      <4> QED BY <2>1, <2>2, <3>1, <4>1, <4>2
    <3> QED BY <3>2, <3>3
  <2>4. CASE k + 1 = f
    <3>1. k < f /\ ~(k + 1 < f)
      BY <2>4
    <3>2. ProductTo(d, k) = ProductTo(c, k)
      BY <1>4, <3>1
    <3>3. /\ Check!Powers(d)[k + 1] = Check!Power(f, c[f] + 1)
          /\ Check!Powers(c)[k + 1] = Check!Power(f, c[f])
      BY <1>1, <2>4, ProductIs
    <3>4. Check!Power(f, c[f] + 1) = f * Check!Power(f, c[f])
      BY <1>2, PowerIs
    <3>5. f * (Check!Powers(c)[k + 1] * ProductTo(c, k)) =
            (f * Check!Powers(c)[k + 1]) * ProductTo(c, k)
      BY <1>2, <2>1, TimesTimes
    <3> QED BY <2>1, <2>2, <3>1, <3>2, <3>3, <3>4, <3>5
  <2> QED BY <2>3, <2>4
<1> HIDE DEF S
<1> QED
  BY <1>1, <1>3, <1>4, NatSetInduction DEF S

-----------------------------------------------------------------------------
(* The check of the configuration.                                         *)

\* A scale that is computed: what every denominator divides, and nothing smaller.
IsScaleOf(g, s) ==
  /\ s \in Positive
  /\ \A i \in DOMAIN g.resolutions : Divides(g.resolutions[i][2], s)
  /\ \A t \in Positive :
       (\A i \in DOMAIN g.resolutions : Divides(g.resolutions[i][2], t)) => Divides(s, t)

CheckTyped ==
  /\ config \in Configs /\ scales \in Seq(Nat) /\ Len(scales) <= Len(config)
  /\ index \in Positive /\ number \in Nat /\ loop \in Nat /\ loop >= 2
  /\ checkError \in BOOLEAN
  /\ checkPc = "done" => Len(scales) = Len(config)

\* A resolution is looked at only in a grid without a scale.
IsSearching ==
  index # 1 \/ number # 0 =>
    /\ checkPc = "grids" /\ Check!grid <= Len(config) /\ Check!Current.scale = 0
    /\ index <= Len(Check!Current.resolutions) + 1

\* What was found of a denominator are primes, which make it with what is left.
FactorsFit ==
  number > 0 =>
    /\ index <= Len(Check!Current.resolutions)
    /\ CountsPrimes(factors)
    /\ Check!Product(factors) * number = Check!Current.resolutions[index][2]
    /\ \A f \in 2 .. loop - 1 : ~Divides(f, number)

\* What was collected is in a denominator, and every denominator so far is in it.
PrimesFit ==
  /\ CountsPrimes(primeFact)
  /\ \A f \in Check!Factors : primeFact[f] > 0 =>
       \E i \in 1 .. index - 1 :
         Divides(Check!Power(f, primeFact[f]), Check!Current.resolutions[i][2])
  /\ \A i \in 1 .. index - 1 :
       Divides(Check!Current.resolutions[i][2], Check!Product(primeFact))

ScalesFit ==
  \A g \in DOMAIN scales :
    /\ config[g].scale = 0 => IsScaleOf(config[g], scales[g])
    /\ config[g].scale # 0 =>
         /\ scales[g] = config[g].scale
         /\ ~checkError => \A i \in DOMAIN config[g].resolutions :
              Check!ScaledIsInteger(config[g].resolutions[i], config[g].scale)

CheckInv == CheckTyped /\ IsSearching /\ FactorsFit /\ PrimesFit /\ ScalesFit

\* What a configuration has.
LEMMA GridsAre ==
  ASSUME Check!ConfigAssumption, NEW c \in Configs
  PROVE  /\ Len(c) \in Nat /\ DOMAIN c = 1 .. Len(c)
         /\ \A g \in DOMAIN c :
              /\ c[g].scale \in Nat /\ Len(c[g].resolutions) \in Nat
              /\ DOMAIN c[g].resolutions = 1 .. Len(c[g].resolutions)
              /\ \A i \in DOMAIN c[g].resolutions :
                   /\ c[g].resolutions[i][1] \in Positive
                   /\ c[g].resolutions[i][2] \in 1 .. LastFactor
<1> DEFINE R == Seq((Nat \ {0}) \X (1 .. LastFactor))
<1>1. c \in Seq([resolutions : R, scale : Nat])
  BY DEF Check!ConfigAssumption
<1>2. \A r \in R : /\ Len(r) \in Nat /\ DOMAIN r = 1 .. Len(r)
                   /\ \A i \in DOMAIN r : r[i] \in (Nat \ {0}) \X (1 .. LastFactor)
  OBVIOUS
<1>3. \A r \in R : \A i \in DOMAIN r : r[i][1] \in Positive /\ r[i][2] \in 1 .. LastFactor
  BY <1>2 DEF Positive
<1> HIDE DEF R
<1>4. /\ Len(c) \in Nat /\ DOMAIN c = 1 .. Len(c)
      /\ \A g \in DOMAIN c : c[g] \in [resolutions : R, scale : Nat]
  <2> DEFINE G == [resolutions : R, scale : Nat]
  <2>1. c \in Seq(G)
    BY <1>1
  <2> HIDE DEF G
  <2>2. Len(c) \in Nat /\ DOMAIN c = 1 .. Len(c) /\ \A g \in DOMAIN c : c[g] \in G
    BY <2>1
  <2> QED BY <2>2 DEF G
<1>5. \A g \in DOMAIN c : c[g].resolutions \in R /\ c[g].scale \in Nat
  BY <1>4
<1> QED
  BY <1>2, <1>3, <1>4, <1>5

\* A fraction is reduced: a scale makes it an integer when its denominator divides it.
LEMMA ExactIs ==
  ASSUME Check!ConfigAssumption, NEW c \in Configs, NEW g \in DOMAIN c,
         NEW i \in DOMAIN c[g].resolutions, NEW s \in Positive
  PROVE  (c[g].resolutions[i][1] * s) % c[g].resolutions[i][2] = 0
           <=> Divides(c[g].resolutions[i][2], s)
<1> DEFINE n == c[g].resolutions[i][1]
           d == c[g].resolutions[i][2]
<1>1. n \in Positive /\ d \in 1 .. LastFactor /\ LastFactor \in Nat
  BY GridsAre DEF Check!ConfigAssumption
<1>2. \A f \in 2 .. LastFactor : ~(n % f = 0 /\ d % f = 0)
  BY DEF Check!ConfigAssumption
<1> HIDE DEF n, d
<1>3. n \in Nat /\ d \in Nat /\ d \in Positive /\ n * s \in Nat /\ s \in Nat
  BY <1>1, TimesIs DEF Positive
<1>4. ASSUME NEW y \in Positive, Divides(y, n), Divides(y, d) PROVE y = 1
  <2>1. y \in Nat /\ y <= d
    BY <1>3, <1>4, DivisorIs DEF Positive
  <2>2. n % y = 0 /\ d % y = 0
    BY <1>3, <1>4, DividesIs
  <2>3. y \notin 2 .. LastFactor
    BY <1>2, <2>2
  <2> QED BY <1>1, <2>1, <2>3 DEF Positive
<1>5. Divides(d, n * s) => Divides(d, s)
  BY <1>1, <1>3, <1>4, CoprimeDivides
<1>6. Divides(d, s) => Divides(d, n * s)
  BY <1>3, DividesTimes
<1>7. (n * s) % d = 0 <=> Divides(d, n * s)
  BY <1>3, DividesIs
<1> QED
  BY <1>5, <1>6, <1>7 DEF n, d

\* The grid that is looked at is one of the configuration.
LEMMA CurrentIs ==
  ASSUME Check!ConfigAssumption, CheckTyped, Check!grid <= Len(config)
  PROVE  /\ Check!grid \in DOMAIN config /\ Check!Current = config[Check!grid]
         /\ Check!Current.scale \in Nat /\ Len(Check!Current.resolutions) \in Nat
         /\ DOMAIN Check!Current.resolutions = 1 .. Len(Check!Current.resolutions)
         /\ \A i \in DOMAIN Check!Current.resolutions :
              /\ Check!Current.resolutions[i][2] \in 1 .. LastFactor
              /\ Check!Current.resolutions[i][2] \in Positive
              /\ Check!Current.resolutions[i][2] \in Nat
<1>1. config \in Configs /\ Len(scales) \in Nat
  BY DEF CheckTyped
<1>2. Len(config) \in Nat /\ DOMAIN config = 1 .. Len(config)
  BY <1>1, GridsAre
<1>3. Check!grid \in DOMAIN config /\ Check!Current = config[Check!grid]
  BY <1>1, <1>2 DEF Check!grid, Check!Current
<1>4. LastFactor \in Nat
  BY DEF Check!ConfigAssumption
<1> QED
  BY <1>1, <1>3, <1>4, GridsAre DEF Positive

\* No factors are primes that make 1.
LEMMA NothingCounted ==
  ASSUME Check!ConfigAssumption
  PROVE  /\ CountsPrimes(Check!NoFactors) /\ \A f \in Check!Factors : Check!NoFactors[f] = 0
         /\ Check!Product(Check!NoFactors) = 1
<1>1. LastFactor \in Nat
  BY DEF Check!ConfigAssumption
<1>2. Check!Product(Check!NoFactors) = ProductTo(Check!NoFactors, LastFactor)
  BY DEF Check!Product, ProductTo
<1>3. CountsPrimes(Check!NoFactors) /\ \A f \in Check!Factors : Check!NoFactors[f] = 0
  BY DEF CountsPrimes, Check!NoFactors
<1> QED
  BY <1>1, <1>2, <1>3, NoFactorsMakeOne

\* At first nothing is looked at.
LEMMA CheckStarts ==
  ASSUME Check!ConfigAssumption, Check!Init
  PROVE  CheckInv
<1>1. /\ config \in Configs /\ scales = <<>> /\ index = 1 /\ number = 0 /\ loop = 2
      /\ primeFact = Check!NoFactors /\ checkError = FALSE /\ checkPc = "schema"
  BY DEF Check!Init
<1>2. CheckTyped
  <2>1. scales \in Seq(Nat) /\ Len(scales) = 0 /\ Len(config) \in Nat /\ 1 \in Positive
    BY <1>1, GridsAre DEF Positive
  <2>2. Len(scales) <= Len(config)
    BY <2>1
  <2>3. index \in Positive /\ number \in Nat /\ loop \in Nat /\ loop >= 2
    BY <1>1, <2>1
  <2>4. config \in Configs /\ checkError \in BOOLEAN /\ checkPc # "done"
    BY <1>1
  <2> QED BY <2>1, <2>2, <2>3, <2>4 DEF CheckTyped
<1>3. IsSearching /\ FactorsFit
  BY <1>1 DEF IsSearching, FactorsFit
<1>4. PrimesFit
  BY <1>1, NothingCounted DEF PrimesFit
<1>5. ScalesFit
  BY <1>1 DEF ScalesFit
<1> QED
  BY <1>2, <1>3, <1>4, <1>5 DEF CheckInv

\* The schema, and the end, change nothing of the scales.
LEMMA SchemaKeeps ==
  ASSUME Check!ConfigAssumption, CheckInv, Check!CheckSchema \/ Check!EndCheck
  PROVE  CheckInv'
<1>1. UNCHANGED <<config, scales, index, number, loop, factors, primeFact>>
  BY DEF Check!CheckSchema, Check!EndCheck, Check!case, Check!search
<1>2. CheckTyped /\ IsSearching /\ FactorsFit /\ PrimesFit /\ ScalesFit
  BY DEF CheckInv
<1>3. checkError' \in BOOLEAN /\ (~checkError' => ~checkError)
  BY <1>2 DEF Check!CheckSchema, Check!EndCheck, Check!AnyError, CheckTyped
<1>4. CheckTyped'
  <2>1. Len(config) \in Nat /\ Len(scales) \in Nat /\ Len(scales) <= Len(config)
    BY <1>2, GridsAre DEF CheckTyped
  <2>2. checkPc' = "done" => Len(scales) = Len(config)
    <3>1. CASE Check!CheckSchema
      BY <3>1 DEF Check!CheckSchema
    <3>2. CASE Check!EndCheck
      BY <2>1, <3>2 DEF Check!EndCheck, Check!grid
    <3> QED BY <3>1, <3>2
  <2> QED BY <1>1, <1>2, <1>3, <2>2 DEF CheckTyped
<1>5. index = 1 /\ number = 0
  <2>1. checkPc = "schema" \/ Check!grid > Len(config)
    BY DEF Check!CheckSchema, Check!EndCheck
  <2>2. Len(config) \in Nat /\ Len(scales) \in Nat
    BY <1>2, GridsAre DEF CheckTyped
  <2> QED BY <1>2, <2>1, <2>2 DEF IsSearching, Check!grid
<1>6. IsSearching' /\ FactorsFit'
  BY <1>1, <1>5 DEF IsSearching, FactorsFit
<1>7. PrimesFit'
  BY <1>1, <1>2 DEF PrimesFit, CountsPrimes, Check!Current, Check!grid
<1>8. ScalesFit'
  BY <1>1, <1>2, <1>3 DEF ScalesFit
<1> QED
  BY <1>4, <1>6, <1>7, <1>8 DEF CheckInv

\* A given scale is kept, and its errors too.
LEMMA GivenScaleKeeps ==
  ASSUME Check!ConfigAssumption, CheckInv, Check!CheckScale
  PROVE  CheckInv'
<1> DEFINE g == Check!grid
<1>1. /\ checkPc = "grids" /\ g <= Len(config) /\ number = 0 /\ index = 1
      /\ Check!Current.scale # 0
      /\ scales' = Append(scales, Check!Current.scale)
      /\ checkError' = (checkError \/ \E i \in DOMAIN Check!Current.resolutions :
                          ~Check!ScaledIsInteger(Check!Current.resolutions[i],
                                                 Check!Current.scale))
      /\ UNCHANGED <<config, index, number, loop, factors, primeFact, checkPc>>
  BY DEF Check!CheckScale, Check!case, Check!search
<1>2. CheckTyped /\ PrimesFit /\ ScalesFit
  BY DEF CheckInv
<1>3. /\ g \in DOMAIN config /\ Check!Current = config[g] /\ Check!Current.scale \in Nat
      /\ Len(scales) \in Nat /\ Len(config) \in Nat /\ g = Len(scales) + 1
      /\ scales \in Seq(Nat)
  BY <1>1, <1>2, CurrentIs, GridsAre DEF CheckTyped, Check!grid
<1> HIDE DEF g
<1>4. /\ scales' \in Seq(Nat) /\ Len(scales') = g /\ scales'[g] = config[g].scale
      /\ DOMAIN scales' = 1 .. g /\ DOMAIN scales = 1 .. g - 1
      /\ \A k \in 1 .. g - 1 : scales'[k] = scales[k]
  BY <1>1, <1>3
<1>5. CheckTyped'
  <2>1. checkError' \in BOOLEAN /\ checkPc' # "done"
    BY <1>1
  <2>2. /\ config' \in Configs /\ index' \in Positive /\ number' \in Nat /\ loop' \in Nat
        /\ loop' >= 2 /\ Len(scales') <= Len(config')
    BY <1>1, <1>2, <1>4 DEF CheckTyped
  <2> QED BY <1>4, <2>1, <2>2 DEF CheckTyped
<1>6. IsSearching' /\ FactorsFit'
  BY <1>1 DEF IsSearching, FactorsFit
<1>7. PrimesFit'
  <2>1. CountsPrimes(primeFact)' /\ 1 .. (index - 1) = {}
    BY <1>1, <1>2 DEF PrimesFit, CountsPrimes
  <2>2. \A f \in Check!Factors : primeFact[f] = 0
    BY <1>1, <1>2, <2>1 DEF PrimesFit, CountsPrimes
  <2>3. (1 .. (index - 1))' = {} /\ \A f \in Check!Factors : primeFact'[f] = 0
    BY <1>1, <2>1, <2>2
  <2> QED BY <2>1, <2>3 DEF PrimesFit
<1>8. ScalesFit'
  <2> SUFFICES ASSUME NEW k \in 1 .. g
               PROVE  /\ config[k].scale = 0 => IsScaleOf(config[k], scales'[k])
                      /\ config[k].scale # 0 =>
                           /\ scales'[k] = config[k].scale
                           /\ ~checkError' => \A i \in DOMAIN config[k].resolutions :
                                Check!ScaledIsInteger(config[k].resolutions[i], config[k].scale)
    BY <1>1, <1>4 DEF ScalesFit
  <2>1. CASE k \in 1 .. g - 1
    BY <1>1, <1>2, <1>4, <2>1 DEF ScalesFit
  <2>2. CASE k = g
    BY <1>1, <1>3, <1>4, <2>2
  <2> QED BY <1>3, <2>1, <2>2
<1> QED
  BY <1>5, <1>6, <1>7, <1>8 DEF CheckInv

\* The search of the factors of a denominator begins.
LEMMA NextResolutionKeeps ==
  ASSUME Check!ConfigAssumption, CheckInv, Check!NextResolution
  PROVE  CheckInv'
<1>1. /\ checkPc = "grids" /\ Check!grid <= Len(config) /\ Check!Current.scale = 0
      /\ index <= Len(Check!Current.resolutions)
      /\ number' = Check!Current.resolutions[index][2] /\ loop' = 2
      /\ factors' = Check!NoFactors
      /\ UNCHANGED <<config, scales, index, primeFact, checkError, checkPc>>
  BY DEF Check!NextResolution, Check!case
<1>2. CheckTyped /\ PrimesFit /\ ScalesFit
  BY DEF CheckInv
<1>3. /\ Check!Current.resolutions[index][2] \in Nat
      /\ Len(Check!Current.resolutions) \in Nat /\ index \in Nat
  <2>1. index \in DOMAIN Check!Current.resolutions
    BY <1>1, <1>2, CurrentIs DEF CheckTyped, Positive
  <2> QED BY <1>1, <1>2, <2>1, CurrentIs DEF CheckTyped, Positive
<1>4. Check!grid' = Check!grid /\ Check!Current' = Check!Current
  BY <1>1 DEF Check!grid, Check!Current
<1>5. CheckTyped'
  BY <1>1, <1>2, <1>3 DEF CheckTyped
<1>6. IsSearching'
  BY <1>1, <1>3, <1>4 DEF IsSearching
<1>7. FactorsFit'
  <2>1. Check!Product(factors)' = 1 /\ CountsPrimes(factors)'
    BY <1>1, NothingCounted
  <2>2. Check!Product(factors)' * number' = Check!Current'.resolutions[index'][2]
    BY <1>1, <1>3, <1>4, <2>1
  <2>3. (2 .. loop - 1)' = {}
    BY <1>1
  <2> QED BY <1>1, <1>4, <2>1, <2>2, <2>3 DEF FactorsFit
<1>8. PrimesFit'
  BY <1>1, <1>2, <1>4 DEF PrimesFit, CountsPrimes
<1>9. ScalesFit'
  BY <1>1, <1>2 DEF ScalesFit
<1> QED
  BY <1>5, <1>6, <1>7, <1>8, <1>9 DEF CheckInv

\* A number that divides what is left, when nothing smaller does, is a prime.
LEMMA FoundIsPrime ==
  ASSUME NEW n \in Positive, NEW p \in Nat, p >= 2, Divides(p, n),
         \A f \in 2 .. p - 1 : ~Divides(f, n)
  PROVE  IsPrime(p)
<1>1. p \in Positive /\ p # 1 /\ n \in Nat
  BY DEF Positive
<1>2. ASSUME NEW y \in Positive, Divides(y, p), y # 1 PROVE y = p
  <2>1. y \in Nat /\ y <= p /\ Divides(y, n)
    BY <1>1, <1>2, DivisorIs, DividesAll DEF Positive
  <2>2. y \notin 2 .. p - 1
    BY <2>1
  <2> QED BY <1>1, <1>2, <2>1, <2>2 DEF Positive
<1> QED
  BY <1>1, <1>2 DEF IsPrime

\* A factor is found, or the next one is tried.
LEMMA DivideKeeps ==
  ASSUME Check!ConfigAssumption, CheckInv, Check!Divide
  PROVE  CheckInv'
<1>1. /\ number > 0 /\ loop <= number
      /\ UNCHANGED <<config, scales, index, primeFact, checkError, checkPc>>
  BY DEF Check!Divide, Check!case
<1>2. CheckTyped /\ IsSearching /\ FactorsFit /\ PrimesFit /\ ScalesFit
  BY DEF CheckInv
<1>3. /\ number \in Positive /\ number \in Nat /\ loop \in Nat /\ loop >= 2
      /\ loop \in Positive /\ LastFactor \in Nat
  BY <1>1, <1>2 DEF CheckTyped, Positive, Check!ConfigAssumption
<1>4. /\ checkPc = "grids" /\ Check!grid <= Len(config) /\ Check!Current.scale = 0
      /\ index <= Len(Check!Current.resolutions) + 1
      /\ index <= Len(Check!Current.resolutions) /\ CountsPrimes(factors)
      /\ Check!Product(factors) * number = Check!Current.resolutions[index][2]
      /\ \A f \in 2 .. loop - 1 : ~Divides(f, number)
  BY <1>1, <1>2, <1>3 DEF IsSearching, FactorsFit
<1>5. /\ Check!Current.resolutions[index][2] \in Positive
      /\ Check!Current.resolutions[index][2] <= LastFactor
  <2>1. index \in DOMAIN Check!Current.resolutions
    BY <1>2, <1>4, CurrentIs DEF CheckTyped, Positive
  <2> QED BY <1>2, <1>3, <1>4, <2>1, CurrentIs
<1>6. Check!grid' = Check!grid /\ Check!Current' = Check!Current
  BY <1>1 DEF Check!grid, Check!Current
<1>7. /\ factors \in [Check!Factors -> Nat]
      /\ Check!Product(factors) = ProductTo(factors, LastFactor)
      /\ Check!Product(factors) \in Nat
  <2>1. factors \in [Check!Factors -> Nat]
    BY <1>4 DEF CountsPrimes
  <2>2. Check!Product(factors) = ProductTo(factors, LastFactor)
    BY DEF Check!Product, ProductTo
  <2> QED BY <1>3, <2>1, <2>2, ProductIs DEF Positive
<1>8. loop \in Check!Factors
  <2>1. Divides(number, Check!Current.resolutions[index][2])
    <3>1. Check!Current.resolutions[index][2] = number * Check!Product(factors)
      BY <1>3, <1>4, <1>7
    <3> QED BY <1>7, <3>1 DEF Divides
  <2>2. number <= Check!Current.resolutions[index][2]
    BY <1>3, <1>5, <2>1, DivisorIs
  <2> QED BY <1>1, <1>3, <1>5, <2>2 DEF Check!Factors, Positive
<1>9. PrimesFit' /\ ScalesFit'
  BY <1>1, <1>2, <1>6 DEF PrimesFit, CountsPrimes, ScalesFit
<1>10. CASE number % loop = 0
  <2> DEFINE q == number \div loop
  <2>1. /\ number' = q /\ loop' = loop
        /\ factors' = [factors EXCEPT ![loop] = @ + 1]
    BY <1>10 DEF Check!Divide, Check!Again
  <2>2. Divides(loop, number)
    BY <1>3, <1>10, DividesIs
  <2>3. number = loop * q /\ q \in Nat
    BY <1>3, <1>10 DEF Positive
  <2> HIDE DEF q
  <2>4. q \in Positive
    BY <1>3, <2>3 DEF Positive
  <2>5. IsPrime(loop)
    BY <1>3, <1>4, <2>2, FoundIsPrime
  <2>6. /\ factors' \in [Check!Factors -> Nat]
        /\ ProductTo(factors', LastFactor) = loop * ProductTo(factors, LastFactor)
    <3> DEFINE d == factors'
    <3>1. ~(LastFactor < loop)
      BY <1>3, <1>8 DEF Check!Factors
    <3>2. /\ d \in [Check!Factors -> Nat] /\ d[loop] = factors[loop] + 1
          /\ \A e \in Check!Factors : e # loop => d[e] = factors[e]
      BY <1>7, <1>8, <2>1
    <3> HIDE DEF d
    <3>3. ProductTo(d, LastFactor) = IF LastFactor < loop THEN ProductTo(factors, LastFactor)
            ELSE loop * ProductTo(factors, LastFactor)
      BY <1>3, <1>7, <1>8, <3>2, OneFactorMore
    <3>4. ProductTo(d, LastFactor) = loop * ProductTo(factors, LastFactor)
      BY <3>1, <3>3
    <3> QED BY <3>2, <3>4 DEF d
  <2>7. CountsPrimes(factors')
    <3>1. ASSUME NEW f \in Check!Factors, factors'[f] > 0 PROVE IsPrime(f)
      <4>1. CASE f = loop
        BY <2>5, <4>1
      <4>2. CASE f # loop
        <5>1. factors'[f] = factors[f]
          BY <1>7, <2>1, <4>2
        <5> QED BY <1>4, <3>1, <5>1 DEF CountsPrimes
      <4> QED BY <4>1, <4>2
    <3> QED BY <2>6, <3>1 DEF CountsPrimes
  <2>8. Check!Product(factors') * q = Check!Current.resolutions[index][2]
    <3> DEFINE m == ProductTo(factors, LastFactor)
    <3>1. m \in Nat /\ m * number = Check!Current.resolutions[index][2]
      BY <1>4, <1>7
    <3>2. Check!Product(factors') = loop * m
      BY <2>6 DEF Check!Product, ProductTo
    <3> HIDE DEF m
    <3>3. m * (loop * q) = loop * (m * q) /\ loop * (m * q) = (loop * m) * q
      BY <1>3, <2>3, <3>1, TimesTimes
    <3> QED BY <2>3, <3>1, <3>2, <3>3
  <2>9. ASSUME NEW f \in 2 .. loop - 1 PROVE ~Divides(f, q)
    <3>1. f \in Nat /\ (Divides(f, q) => Divides(f, loop * q))
      BY <1>3, <2>3, DividesTimes
    <3> QED BY <1>4, <2>3, <3>1
  <2>10. CheckTyped'
    BY <1>1, <1>2, <2>1, <2>3 DEF CheckTyped
  <2>11. IsSearching'
    BY <1>1, <1>4, <1>6 DEF IsSearching
  <2>12. FactorsFit'
    <3>1. index' <= Len(Check!Current'.resolutions) /\ (2 .. loop - 1)' = 2 .. loop - 1
      BY <1>1, <1>4, <1>6, <2>1
    <3>2. Check!Product(factors)' * number' = Check!Current'.resolutions[index'][2]
      BY <1>1, <1>6, <2>1, <2>8
    <3>3. \A f \in (2 .. loop - 1)' : ~Divides(f, number')
      BY <2>1, <2>9, <3>1
    <3>4. CountsPrimes(factors)'
      BY <2>7 DEF CountsPrimes
    <3> QED BY <3>1, <3>2, <3>3, <3>4 DEF FactorsFit, Divides
  <2> QED BY <1>9, <2>10, <2>11, <2>12 DEF CheckInv
<1>11. CASE number % loop # 0
  <2>1. loop' = loop + 1 /\ number' = number /\ factors' = factors
    BY <1>11 DEF Check!Divide
  <2>2. ~Divides(loop, number)
    BY <1>3, <1>11, DividesIs
  <2>3. CheckTyped'
    BY <1>1, <1>2, <1>3, <2>1 DEF CheckTyped
  <2>4. IsSearching'
    BY <1>1, <1>4, <1>6 DEF IsSearching
  <2>5. FactorsFit'
    <3>1. ASSUME NEW f \in (2 .. loop - 1)' PROVE ~Divides(f, number')
      <4>1. f \in 2 .. loop
        BY <1>3, <2>1
      <4>2. f = loop \/ f \in 2 .. loop - 1
        BY <1>3, <4>1
      <4> QED BY <1>4, <2>1, <2>2, <4>2
    <3>2. /\ index' <= Len(Check!Current'.resolutions) /\ CountsPrimes(factors')
          /\ Check!Product(factors') * number' = Check!Current'.resolutions[index'][2]
      BY <1>1, <1>4, <1>6, <2>1
    <3> QED BY <3>1, <3>2 DEF FactorsFit, Divides, CountsPrimes
  <2> QED BY <1>9, <2>3, <2>4, <2>5 DEF CheckInv
<1> QED
  BY <1>10, <1>11

\* The factors of a denominator are found: it is among those that were looked at.
LEMMA EndFactorsKeeps ==
  ASSUME Check!ConfigAssumption, CheckInv, Check!EndFactors
  PROVE  CheckInv'
<1> DEFINE d(i) == Check!Current.resolutions[i][2]
<1>1. /\ number > 0 /\ loop > number /\ number' = 0 /\ index' = index + 1
      /\ primeFact' = [f \in Check!Factors |-> Check!Most(primeFact[f], factors[f])]
      /\ UNCHANGED <<config, scales, checkError, checkPc, loop>>
  BY DEF Check!EndFactors, Check!case
<1>2. CheckTyped /\ IsSearching /\ FactorsFit /\ PrimesFit /\ ScalesFit
  BY DEF CheckInv
<1>3. /\ number \in Nat /\ loop \in Nat /\ index \in Nat /\ index >= 1 /\ LastFactor \in Nat
  BY <1>2 DEF CheckTyped, Positive, Check!ConfigAssumption
<1>4. /\ checkPc = "grids" /\ Check!grid <= Len(config) /\ Check!Current.scale = 0
      /\ index <= Len(Check!Current.resolutions) /\ CountsPrimes(factors)
      /\ Check!Product(factors) * number = d(index)
      /\ \A f \in 2 .. loop - 1 : ~Divides(f, number)
  BY <1>1, <1>2, <1>3 DEF IsSearching, FactorsFit
<1>5. /\ Len(Check!Current.resolutions) \in Nat
      /\ \A i \in 1 .. index : d(i) \in Nat /\ d(i) \in Positive
  <2>1. 1 .. index \subseteq DOMAIN Check!Current.resolutions
    BY <1>2, <1>3, <1>4, CurrentIs
  <2> QED BY <1>2, <1>4, <2>1, CurrentIs
<1>6. Check!grid' = Check!grid /\ Check!Current' = Check!Current
  BY <1>1 DEF Check!grid, Check!Current
<1>7. number = 1
  <2> SUFFICES ASSUME number # 1 PROVE FALSE
    OBVIOUS
  <2>1. number \in 2 .. loop - 1
    BY <1>1, <1>3
  <2>2. Divides(number, number)
    BY <1>3 DEF Divides
  <2> QED BY <1>4, <2>1, <2>2
<1>8. /\ factors \in [Check!Factors -> Nat] /\ primeFact \in [Check!Factors -> Nat]
      /\ CountsPrimes(primeFact)
  BY <1>2, <1>4 DEF CountsPrimes, PrimesFit
<1>9. ProductTo(factors, LastFactor) = d(index)
  <2>1. ProductTo(factors, LastFactor) \in Nat
    BY <1>3, <1>8, ProductIs DEF Positive
  <2>2. Check!Product(factors) = ProductTo(factors, LastFactor)
    BY DEF Check!Product, ProductTo
  <2> QED BY <1>4, <1>7, <2>1, <2>2
<1> DEFINE m == primeFact'
<1>10. /\ m \in [Check!Factors -> Nat]
       /\ \A f \in Check!Factors : /\ primeFact[f] <= m[f] /\ factors[f] <= m[f]
                                   /\ m[f] = primeFact[f] \/ m[f] = factors[f]
  <2>1. \A f \in Check!Factors : m[f] = Check!Most(primeFact[f], factors[f])
    BY <1>1
  <2>2. \A f \in Check!Factors : primeFact[f] \in Nat /\ factors[f] \in Nat
    BY <1>8
  <2>3. \A a, b \in Nat : /\ Check!Most(a, b) \in Nat /\ a <= Check!Most(a, b)
                          /\ b <= Check!Most(a, b)
                          /\ Check!Most(a, b) = a \/ Check!Most(a, b) = b
    BY DEF Check!Most
  <2>4. \A f \in Check!Factors : m[f] \in Nat
    BY <2>1, <2>2, <2>3
  <2>5. m \in [Check!Factors -> Nat]
    BY <1>1, <2>1, <2>4
  <2> QED BY <2>1, <2>2, <2>3, <2>5
<1>11. CountsPrimes(m)
  BY <1>4, <1>8, <1>10 DEF CountsPrimes
<1>12. \A i \in 1 .. index - 1 : Divides(d(i), ProductTo(primeFact, LastFactor))
  BY <1>2 DEF PrimesFit, Check!Product, ProductTo
<1>13. \A f \in Check!Factors : primeFact[f] > 0 =>
         \E i \in 1 .. index - 1 : Divides(Check!Power(f, primeFact[f]), d(i))
  BY <1>2 DEF PrimesFit
<1> HIDE DEF m, d
<1>14. ASSUME NEW f \in Check!Factors, m[f] > 0
       PROVE  \E i \in 1 .. index : Divides(Check!Power(f, m[f]), d(i))
  <2>1. CASE m[f] = primeFact[f]
    <3>1. PICK i \in 1 .. index - 1 : Divides(Check!Power(f, m[f]), d(i))
      BY <1>13, <1>14, <2>1
    <3>2. i \in 1 .. index
      BY <1>3
    <3> QED BY <3>1, <3>2
  <2>2. CASE m[f] = factors[f]
    <3>1. f <= LastFactor /\ index \in 1 .. index
      BY <1>3 DEF Check!Factors
    <3>2. Divides(Check!Power(f, factors[f]), ProductTo(factors, LastFactor))
      BY <1>3, <1>8, <3>1, FactorDivides
    <3> QED BY <1>9, <2>2, <3>1, <3>2
  <2> QED BY <1>10, <2>1, <2>2
<1>15. ASSUME NEW i \in 1 .. index PROVE Divides(d(i), ProductTo(m, LastFactor))
  <2>1. \A c \in {factors, primeFact} : /\ Divides(ProductTo(c, LastFactor), ProductTo(m, LastFactor))
                                        /\ ProductTo(c, LastFactor) \in Nat
    BY <1>3, <1>8, <1>10, ProductsDivide, ProductIs DEF Positive
  <2>2. ProductTo(m, LastFactor) \in Nat /\ d(i) \in Nat
    BY <1>3, <1>5, <1>10, ProductIs DEF Positive
  <2>3. CASE i = index
    BY <1>9, <2>1, <2>3
  <2>4. CASE i # index
    <3>1. i \in 1 .. index - 1
      BY <1>3, <2>4
    <3> QED BY <1>12, <2>1, <2>2, <3>1, DividesAll
  <2> QED BY <2>3, <2>4
<1>16. CheckTyped'
  BY <1>1, <1>2, <1>3 DEF CheckTyped, Positive
<1>17. IsSearching' /\ FactorsFit'
  BY <1>1, <1>3, <1>4, <1>5, <1>6 DEF IsSearching, FactorsFit
<1>18. PrimesFit'
  <2>1. (1 .. index - 1)' = 1 .. index
    BY <1>1, <1>3
  <2>2. CountsPrimes(primeFact)'
    BY <1>11 DEF CountsPrimes, m
  <2>3. \A i \in 1 .. index : Divides(Check!Current'.resolutions[i][2], Check!Product(primeFact'))
    BY <1>6, <1>15 DEF Check!Product, ProductTo, m, d
  <2>4. \A f \in Check!Factors : primeFact'[f] > 0 =>
          \E i \in 1 .. index :
            Divides(Check!Power(f, primeFact'[f]), Check!Current'.resolutions[i][2])
    BY <1>6, <1>14 DEF m, d
  <2> QED BY <2>1, <2>2, <2>3, <2>4 DEF PrimesFit, Divides
<1>19. ScalesFit'
  BY <1>1, <1>2 DEF ScalesFit
<1> QED
  BY <1>16, <1>17, <1>18, <1>19 DEF CheckInv

\* What was collected of all the denominators makes the scale of the grid.
LEMMA SetScaleKeeps ==
  ASSUME Check!ConfigAssumption, CheckInv, Check!SetScale
  PROVE  CheckInv'
<1> DEFINE g == Check!grid
           s == Check!Product(primeFact)
           d(i) == config[g].resolutions[i][2]
<1>1. /\ checkPc = "grids" /\ g <= Len(config) /\ number = 0
      /\ Check!Current.scale = 0 /\ index > Len(Check!Current.resolutions)
      /\ scales' = Append(scales, s) /\ index' = 1 /\ primeFact' = Check!NoFactors
      /\ UNCHANGED <<config, number, loop, factors, checkError, checkPc>>
  BY DEF Check!SetScale, Check!case
<1>2. CheckTyped /\ IsSearching /\ PrimesFit /\ ScalesFit
  BY DEF CheckInv
<1>3. /\ g \in DOMAIN config /\ Check!Current = config[g]
      /\ Len(scales) \in Nat /\ Len(config) \in Nat /\ g = Len(scales) + 1
      /\ scales \in Seq(Nat) /\ index \in Nat /\ index >= 1 /\ LastFactor \in Nat
  <2>1. g \in DOMAIN config /\ Check!Current = config[g]
    BY <1>1, <1>2, CurrentIs
  <2>2. scales \in Seq(Nat) /\ index \in Nat /\ index >= 1 /\ config \in Configs
    BY <1>2 DEF CheckTyped, Positive
  <2>3. Len(config) \in Nat /\ LastFactor \in Nat
    BY <2>2, GridsAre DEF Check!ConfigAssumption
  <2>4. Len(scales) \in Nat /\ g = Len(scales) + 1
    BY <2>2 DEF Check!grid
  <2> QED BY <2>1, <2>2, <2>3, <2>4
<1>4. /\ DOMAIN config[g].resolutions = 1 .. index - 1
      /\ \A i \in 1 .. index - 1 : d(i) \in Nat
  <2>1. /\ Len(config[g].resolutions) \in Nat
        /\ DOMAIN config[g].resolutions = 1 .. Len(config[g].resolutions)
        /\ \A i \in DOMAIN config[g].resolutions : d(i) \in Nat
    <3>1. /\ Len(Check!Current.resolutions) \in Nat
          /\ DOMAIN Check!Current.resolutions = 1 .. Len(Check!Current.resolutions)
          /\ \A i \in DOMAIN Check!Current.resolutions :
               Check!Current.resolutions[i][2] \in Nat
      BY <1>1, <1>2, CurrentIs
    <3> HIDE DEF g
    <3> QED BY <1>3, <3>1
  <2>2. index - 1 = Len(config[g].resolutions)
    <3>1. index > Len(config[g].resolutions)
      BY <1>1, <1>3
    <3>2. index # 1 => index <= Len(config[g].resolutions) + 1
      <4>1. index # 1 => index <= Len(Check!Current.resolutions) + 1
        BY <1>2 DEF IsSearching
      <4> QED BY <1>3, <4>1
    <3> HIDE DEF g
    <3> QED BY <1>3, <2>1, <3>1, <3>2
  <2> QED BY <2>1, <2>2
<1>5. /\ CountsPrimes(primeFact) /\ primeFact \in [Check!Factors -> Nat]
      /\ \A f \in Check!Factors : primeFact[f] > 0 =>
           \E i \in 1 .. index - 1 : Divides(Check!Power(f, primeFact[f]), d(i))
      /\ \A i \in 1 .. index - 1 : Divides(d(i), s)
  BY <1>2, <1>3 DEF PrimesFit, CountsPrimes
<1>6. s = ProductTo(primeFact, LastFactor) /\ s \in Positive /\ s \in Nat
  <2>1. s = ProductTo(primeFact, LastFactor)
    BY DEF Check!Product, ProductTo
  <2> QED BY <1>3, <1>5, <2>1, ProductIs DEF Positive
<1> HIDE DEF g, s, d
<1>7. ASSUME NEW t \in Positive, \A i \in 1 .. index - 1 : Divides(d(i), t)
      PROVE  Divides(s, t)
  <2>1. t \in Nat
    BY DEF Positive
  <2>2. ASSUME NEW f \in Check!Factors PROVE Divides(Check!Power(f, primeFact[f]), t)
    <3>1. f \in Positive /\ primeFact[f] \in Nat
      BY <1>5, ProductIs
    <3>2. Check!Power(f, primeFact[f]) \in Nat
      BY <3>1, PowerIs DEF Positive
    <3>3. CASE primeFact[f] > 0
      <4>1. PICK i \in 1 .. index - 1 : Divides(Check!Power(f, primeFact[f]), d(i))
        BY <1>5, <3>3
      <4> QED BY <1>4, <1>7, <2>1, <3>2, <4>1, DividesAll
    <3>4. CASE ~(primeFact[f] > 0)
      <4>1. primeFact[f] = 0
        BY <3>1, <3>4
      <4>2. Check!Power(f, primeFact[f]) = 1
        BY <3>1, <4>1, PowerIs
      <4> QED BY <2>1, <4>2 DEF Divides
    <3> QED BY <3>3, <3>4
  <2> QED BY <1>3, <1>5, <1>6, <2>2, ProductIsLeast
<1>8. IsScaleOf(config[g], s)
  BY <1>4, <1>5, <1>6, <1>7 DEF IsScaleOf, d
<1>9. /\ scales' \in Seq(Nat) /\ Len(scales') = g /\ scales'[g] = s
      /\ DOMAIN scales' = 1 .. g /\ DOMAIN scales = 1 .. g - 1
      /\ \A k \in 1 .. g - 1 : scales'[k] = scales[k]
  BY <1>1, <1>3, <1>6
<1>10. CheckTyped'
  <2>1. checkPc' # "done" /\ index' \in Positive
    BY <1>1 DEF Positive
  <2> QED BY <1>1, <1>2, <1>9, <2>1 DEF CheckTyped
<1>11. IsSearching' /\ FactorsFit'
  BY <1>1 DEF IsSearching, FactorsFit
<1>12. PrimesFit'
  BY <1>1, NothingCounted DEF PrimesFit, CountsPrimes
<1>13. ScalesFit'
  <2> SUFFICES ASSUME NEW k \in 1 .. g
               PROVE  /\ config[k].scale = 0 => IsScaleOf(config[k], scales'[k])
                      /\ config[k].scale # 0 =>
                           /\ scales'[k] = config[k].scale
                           /\ ~checkError => \A i \in DOMAIN config[k].resolutions :
                                Check!ScaledIsInteger(config[k].resolutions[i], config[k].scale)
    BY <1>1, <1>9 DEF ScalesFit
  <2>1. CASE k \in 1 .. g - 1
    BY <1>1, <1>2, <1>9, <2>1 DEF ScalesFit
  <2>2. CASE k = g
    BY <1>1, <1>3, <1>8, <1>9, <2>2
  <2> QED BY <1>3, <2>1, <2>2
<1> QED
  BY <1>10, <1>11, <1>12, <1>13 DEF CheckInv

\* Every step of the check, and none of it, keeps what is right in it.
LEMMA CheckStays ==
  ASSUME Check!ConfigAssumption, CheckInv, [Check!Next]_checkVars
  PROVE  CheckInv'
<1>1. CASE Check!Next
  BY <1>1, SchemaKeeps, GivenScaleKeeps, NextResolutionKeeps, DivideKeeps, EndFactorsKeeps,
     SetScaleKeeps DEF Check!Next
<1>2. CASE UNCHANGED checkVars
  BY <1>2 DEF checkVars, CheckInv, CheckTyped, IsSearching, FactorsFit, PrimesFit, ScalesFit,
     CountsPrimes, Check!Current, Check!grid
<1> QED
  BY <1>1, <1>2

\* A scale makes the resolutions of a grid integers when their denominators divide it.
LEMMA ExactGrid ==
  ASSUME Check!ConfigAssumption, config \in Configs, NEW g \in DOMAIN config,
         NEW s \in Positive
  PROVE  Check!Exact(config[g], s)
           <=> \A i \in DOMAIN config[g].resolutions : Divides(config[g].resolutions[i][2], s)
BY ExactIs DEF Check!Exact

\* What is right in the check makes the scales that are computed the least ones.
LEMMA ScalesAreLeast ==
  ASSUME Check!ConfigAssumption, CheckInv
  PROVE  Check!LoopInvariant /\ Check!ScaleIsLeast
<1>1. CheckTyped /\ FactorsFit /\ ScalesFit
  BY DEF CheckInv
<1>2. /\ config \in Configs /\ scales \in Seq(Nat)
      /\ DOMAIN config = 1 .. Len(config) /\ DOMAIN scales = 1 .. Len(scales)
      /\ Len(config) \in Nat /\ Len(scales) \in Nat /\ Len(scales) <= Len(config)
  BY <1>1, GridsAre DEF CheckTyped
<1>3. Check!LoopInvariant
  <2> SUFFICES ASSUME number > 0, NEW f \in 2 .. loop - 1 PROVE number % f # 0
    BY <1>1 DEF Check!LoopInvariant, FactorsFit
  <2>1. number \in Nat /\ f \in Positive /\ ~Divides(f, number)
    BY <1>1 DEF CheckTyped, FactorsFit, Positive
  <2> QED BY <2>1, DividesIs
<1>4. ASSUME NEW g \in DOMAIN scales, config[g].scale = 0
      PROVE  /\ Check!Exact(config[g], scales[g])
             /\ \A s \in 1 .. scales[g] - 1 : ~Check!Exact(config[g], s)
  <2>1. IsScaleOf(config[g], scales[g]) /\ g \in DOMAIN config
    BY <1>1, <1>2, <1>4 DEF ScalesFit
  <2>2. scales[g] \in Positive /\ scales[g] \in Nat
    BY <2>1 DEF IsScaleOf, Positive
  <2>3. ASSUME NEW s \in 1 .. scales[g] - 1, Check!Exact(config[g], s) PROVE FALSE
    <3>1. s \in Positive /\ s < scales[g]
      BY <2>2 DEF Positive
    <3>2. Divides(scales[g], s)
      BY <1>2, <2>1, <2>3, <3>1, ExactGrid DEF IsScaleOf
    <3>3. scales[g] <= s
      BY <2>2, <3>1, <3>2, DivisorIs
    <3> QED BY <2>2, <3>1, <3>3 DEF Positive
  <2> QED BY <1>2, <2>1, <2>2, <2>3, ExactGrid DEF IsScaleOf
<1> QED
  BY <1>3, <1>4 DEF Check!ScaleIsLeast

\* With floats that say what is true, the scales that are given are right as well.
LEMMA ScalesAreRight ==
  ASSUME Check!ConfigAssumption, Check!FloatsDecide, CheckInv
  PROVE  ScalesAreExact
<1>1. CheckTyped /\ ScalesFit
  BY DEF CheckInv
<1>2. /\ config \in Configs /\ DOMAIN config = 1 .. Len(config)
      /\ scales \in Seq(Nat) /\ DOMAIN scales = 1 .. Len(scales)
  BY <1>1, GridsAre DEF CheckTyped
<1>3. Check!LoopInvariant /\ Check!ScaleIsLeast
  BY ScalesAreLeast
<1>4. ASSUME Check!Accepted PROVE Len(scales) = Len(config) /\
                                  \A g \in DOMAIN config : Check!Exact(config[g], scales[g])
  <2>1. Len(scales) = Len(config) /\ ~checkError /\ DOMAIN scales = DOMAIN config
    BY <1>1, <1>2, <1>4 DEF Check!Accepted, CheckTyped
  <2>2. ASSUME NEW g \in DOMAIN config, config[g].scale # 0
        PROVE  Check!Exact(config[g], scales[g])
    <3>1. /\ scales[g] = config[g].scale
          /\ \A i \in DOMAIN config[g].resolutions :
               Check!ScaledIsInteger(config[g].resolutions[i], config[g].scale)
      BY <1>1, <2>1, <2>2 DEF ScalesFit
    <3>2. \A i \in DOMAIN config[g].resolutions :
            (config[g].resolutions[i][1] * config[g].scale) % config[g].resolutions[i][2] = 0
      BY <1>2, <2>2, <3>1 DEF Check!FloatsDecide
    <3> QED BY <3>1, <3>2 DEF Check!Exact
  <2> QED BY <1>3, <2>1, <2>2 DEF Check!ScaleIsLeast
<1>5. Check!AcceptedIsExact
  BY <1>4 DEF Check!AcceptedIsExact
<1> QED
  BY <1>3, <1>5 DEF ScalesAreExact

\* The check goes on from what is right in it, whatever step the commands make.
LEMMA SpecCheck == CommandsSpec => []CheckInv
<1>1. CommandsInit => CheckInv
  BY CheckStarts, ChecksAssumption DEF CommandsInit
<1>2. CheckInv /\ [CommandsNext]_commandsVars => CheckInv'
  <2>1. [CommandsNext]_commandsVars => [Check!Next]_checkVars
    BY DEF CommandsNext, GenerationStep, ControllerStep, TileStep, PyramidStep, CheckStep,
       commandsVars
  <2> QED BY <2>1, CheckStays, ChecksAssumption
<1> QED
  BY <1>1, <1>2, PTL DEF CommandsSpec

\* The scale that is computed for the resolutions of a grid, whatever these are, makes them
\* integers, and is the least that does.
THEOREM ScalesStayLeast == CommandsSpec => [](Check!LoopInvariant /\ Check!ScaleIsLeast)
<1>1. CheckInv => Check!LoopInvariant /\ Check!ScaleIsLeast
  BY ScalesAreLeast, ChecksAssumption
<1> QED
  BY <1>1, SpecCheck, PTL

\* In an accepted configuration every scale makes the resolutions of its grid integers, if
\* the floats of the check say nothing of a given one that is not true.
THEOREM ScalesStayExact ==
  ASSUME Check!FloatsDecide PROVE CommandsSpec => []ScalesAreExact
<1>1. CheckInv => ScalesAreExact
  BY ScalesAreRight, ChecksAssumption
<1> QED
  BY <1>1, SpecCheck, PTL
===============================================================================
