-------------------------- MODULE LegendCacheProofs --------------------------
(***************************************************************************)
(* Proofs about LegendCache, for any number of requests, hosts, layers and *)
(* changes of the legend files, and any length of a day.                   *)
(*                                                                         *)
(* An entry is dated with the time its request began, which is before the  *)
(* file was read: what it has was still in the file at its date, so that   *)
(* an entry less than a day old was replaced less than a day ago.          *)
(***************************************************************************)
EXTENDS LegendCache, TLAPS

FileType == [exists : BOOLEAN, has : 0 .. MaxVersion, last : 0 .. MaxVersion]
JobType == [host : Hosts, now : Nat]
LegendType == {NoLegend} \cup {Legend(h, v) : h \in Hosts, v \in 0 .. MaxVersion}
EntryType == {NoEntry} \cup [legend : LegendType, at : Nat]
TaskStates == {"none", "look", "read", "done", "failed"}

RequestsTyped ==
  /\ pc \in [Requests -> {"idle", "loading", "shown"}]
  /\ job \in [Requests -> JobType]
  /\ task \in [Requests -> [Layers -> TaskStates]]
  /\ result \in [Requests -> [Layers -> LegendType]]

FilesTyped ==
  /\ clock \in 0 .. MaxTime
  /\ file \in [Hosts -> [Layers -> FileType]]
  /\ until \in [Hosts -> [Layers -> [0 .. MaxVersion -> 0 .. Never]]]

KeptTyped ==
  /\ cache \in [Hosts -> [Layers -> EntryType]]
  /\ legends \in [Layers -> LegendType]

\* What a file has was never replaced, nor what it may have later.
FileIsDated(h, l) ==
  /\ until[h][l][file[h][l].has] = Never
  /\ \A v \in 0 .. MaxVersion : v > file[h][l].last => until[h][l][v] = Never
  /\ file[h][l].has <= file[h][l].last
  /\ ~file[h][l].exists => file[h][l].has = Nothing
  /\ file[h][l].exists /\ file[h][l].has = Nothing => file[h][l].last < MaxVersion

\* An entry is of the host, and what it has was in the file at its date.
EntryIsDated(h, l) ==
  cache[h][l] = NoEntry \/
    /\ cache[h][l].legend.host = h /\ cache[h][l].legend.version \in 0 .. MaxVersion
    /\ cache[h][l].legend = Legend(h, cache[h][l].legend.version)
    /\ cache[h][l].at \in 0 .. clock
    /\ until[h][l][cache[h][l].legend.version] >= cache[h][l].at

\* A result is of the host of its request, and was in the file less than a day before.
ResultIsDated(r, l) ==
  /\ job[r].now <= clock
  /\ result[r][l] # NoLegend =>
       /\ result[r][l].version \in 0 .. MaxVersion
       /\ result[r][l] = Legend(job[r].host, result[r][l].version)
       /\ l \in Files =>
            until[job[r].host][l][result[r][l].version] > job[r].now - Day
  /\ l \in Files /\ task[r][l] = "done" /\ result[r][l] = NoLegend =>
       until[job[r].host][l][Nothing] > job[r].now - Day

LegendInv ==
  /\ RequestsTyped /\ FilesTyped /\ KeptTyped
  /\ \A h \in Hosts, l \in Layers : FileIsDated(h, l) /\ EntryIsDated(h, l)
  /\ \A r \in Requests, l \in Layers : ResultIsDated(r, l)
-----------------------------------------------------------------------------
LEMMA ConstantFacts ==
  ASSUME LegendAssumption
  PROVE  /\ Day \in Nat \ {0} /\ MaxTime \in Nat /\ MaxVersion \in Nat
         /\ Never \in Nat /\ Never = MaxTime + 1 /\ Nothing \in 0 .. MaxVersion
         /\ NoLegend \in LegendType /\ NoEntry \in EntryType
         /\ \A h \in Hosts, v \in 0 .. MaxVersion : Legend(h, v) \in LegendType
         /\ Files \subseteq Layers
BY DEF LegendAssumption, Never, Nothing, LegendType, EntryType, Files

LEMMA LegendFields ==
  /\ NoLegend.version = 0
  /\ \A h, v : Legend(h, v).host = h /\ Legend(h, v).version = v
BY DEF NoLegend, Legend

LEMMA InitInv == ASSUME LegendAssumption PROVE Init => LegendInv
<1> SUFFICES ASSUME Init PROVE LegendInv
  OBVIOUS
<1>1. (CHOOSE h \in Hosts : TRUE) \in Hosts
  BY DEF LegendAssumption
<1>2. RequestsTyped
  BY <1>1, ConstantFacts DEF Init, RequestsTyped, JobType, TaskStates
<1>3. FilesTyped
  BY ConstantFacts DEF Init, FilesTyped, FileType, NoFile
<1>4. KeptTyped
  BY ConstantFacts DEF Init, KeptTyped
<1>5. ASSUME NEW h \in Hosts, NEW l \in Layers PROVE FileIsDated(h, l) /\ EntryIsDated(h, l)
  BY <1>5, ConstantFacts DEF Init, FileIsDated, EntryIsDated, NoFile, Nothing
<1>6. ASSUME NEW r \in Requests, NEW l \in Layers PROVE ResultIsDated(r, l)
  BY <1>6, ConstantFacts DEF Init, ResultIsDated
<1> QED
  BY <1>2, <1>3, <1>4, <1>5, <1>6 DEF LegendInv

-----------------------------------------------------------------------------
(* The requests.                                                           *)

LEMMA BeginKeeps ==
  ASSUME LegendAssumption, LegendInv, NEW r \in Requests, NEW h \in Hosts, Begin(r, h)
  PROVE  LegendInv'
<1> USE DEF LegendInv
<1>1. RequestsTyped'
  BY ConstantFacts DEF Begin, RequestsTyped, FilesTyped, JobType, TaskStates
<1>2. FilesTyped' /\ \A g \in Hosts, l \in Layers : FileIsDated(g, l)'
  BY DEF Begin, FilesTyped, FileIsDated
<1>3. ASSUME NEW g \in Hosts, NEW l \in Layers
      PROVE  cache'[g][l] \in {NoEntry, cache[g][l]}
  BY <1>3 DEF Begin, KeptTyped
<1>4. KeptTyped'
  <2>1. cache' \in [Hosts -> [Layers -> EntryType]]
    BY ConstantFacts DEF Begin, KeptTyped
  <2> QED BY <2>1 DEF Begin, KeptTyped
<1>5. ASSUME NEW g \in Hosts, NEW l \in Layers PROVE EntryIsDated(g, l)'
  BY <1>3, <1>5 DEF Begin, EntryIsDated
<1>6. ASSUME NEW q \in Requests, NEW l \in Layers PROVE ResultIsDated(q, l)'
  <2>1. CASE q = r
    <3>1. result'[q][l] = NoLegend /\ task'[q][l] \in {"none", "look"} /\ job'[q].now = clock
      BY <1>6, <2>1 DEF Begin, RequestsTyped
    <3>2. clock' = clock /\ clock \in Nat
      BY DEF Begin, FilesTyped
    <3>3. job'[q].now <= clock'
      BY <3>1, <3>2
    <3> QED BY <3>1, <3>3 DEF ResultIsDated
  <2>2. CASE q # r
    <3>1. job'[q] = job[q] /\ result'[q] = result[q] /\ task'[q] = task[q]
      BY <2>2 DEF Begin, RequestsTyped
    <3> QED BY <3>1 DEF Begin, ResultIsDated
  <2> QED BY <2>1, <2>2
<1> QED
  BY <1>1, <1>2, <1>4, <1>5, <1>6

\* A coroutine changes its own task and result only, and returns what is recent.
LEMMA CoroutineKeeps ==
  ASSUME LegendAssumption, LegendInv, NEW r \in Requests, NEW l \in Layers,
         LookUp(r, l) \/ ReadFile(r, l) \/ ReadFails(r, l)
  PROVE  LegendInv'
<1> USE DEF LegendInv
<1> DEFINE h == job[r].host
<1>a. /\ h \in Hosts /\ job[r].now \in Nat /\ job[r].now <= clock /\ clock \in Nat
      /\ clock <= MaxTime
  BY ConstantFacts DEF RequestsTyped, JobType, FilesTyped, ResultIsDated
<1>n. Never = MaxTime + 1 /\ MaxTime \in Nat /\ Day \in Nat \ {0}
  BY ConstantFacts
<1>b. UNCHANGED <<clock, file, until, legends, pc, job>>
  BY DEF LookUp, ReadFile, ReadFails
<1>f. FilesTyped' /\ \A g \in Hosts, k \in Layers : FileIsDated(g, k)'
  BY <1>b DEF FilesTyped, FileIsDated
<1>t. /\ file[h][l].has \in 0 .. MaxVersion /\ until[h][l] \in [0 .. MaxVersion -> 0 .. Never]
      /\ until[h][l][file[h][l].has] = Never
      /\ ~file[h][l].exists => file[h][l].has = Nothing
      /\ \A n \in 0 .. MaxVersion : until[h][l][n] \in Nat
  <2>1. file[h][l] \in FileType /\ FileIsDated(h, l)
    BY <1>a DEF FilesTyped
  <2>2. until[h][l] \in [0 .. MaxVersion -> 0 .. Never]
    BY <1>a DEF FilesTyped
  <2>3. ASSUME NEW n \in 0 .. MaxVersion PROVE until[h][l][n] \in Nat
    <3>1. until[h][l][n] \in 0 .. Never
      BY <2>2, <2>3
    <3> QED BY <3>1, ConstantFacts
  <2> QED BY <1>a, <2>1, <2>2, <2>3 DEF FileType, FileIsDated
\* What the coroutine may return.
<1> DEFINE IsRecent(v) == /\ v \in LegendType
                          /\ v # NoLegend => /\ v.version \in 0 .. MaxVersion
                                             /\ v = Legend(h, v.version)
                                             /\ l \in Files =>
                                                  until[h][l][v.version] > job[r].now - Day
                          /\ v = NoLegend /\ l \in Files => until[h][l][Nothing] > job[r].now - Day
<1>i. ASSUME NEW n \in 0 .. MaxVersion, until[h][l][n] > job[r].now - Day
      PROVE  IsRecent(Items(Legend(h, n)))
  BY <1>a, <1>i, ConstantFacts, LegendFields DEF Items, Nothing
<1>r. ASSUME NEW v, Return(r, l, v), IsRecent(v), UNCHANGED cache
             \/ \E e \in EntryType :
                  /\ cache' = [cache EXCEPT ![h][l] = e]
                  /\ e.legend.host = h /\ e.legend.version \in 0 .. MaxVersion
                  /\ e.legend = Legend(h, e.legend.version)
                  /\ e.at \in 0 .. clock /\ until[h][l][e.legend.version] >= e.at
      PROVE  LegendInv'
  <2>1. RequestsTyped'
    <3>1. v \in LegendType
      BY <1>r
    <3>2. result' = [result EXCEPT ![r][l] = v] /\ task' = [task EXCEPT ![r][l] = "done"]
      BY <1>r DEF Return
    <3> HIDE DEF IsRecent, h
    <3>3. result' \in [Requests -> [Layers -> LegendType]]
      BY <3>1, <3>2 DEF RequestsTyped
    <3>4. task' \in [Requests -> [Layers -> TaskStates]]
      BY <3>2 DEF RequestsTyped, TaskStates
    <3> QED BY <1>b, <3>3, <3>4 DEF RequestsTyped
  <2>2. KeptTyped'
    <3>1. \/ UNCHANGED cache
          \/ \E e \in EntryType : cache' = [cache EXCEPT ![h][l] = e]
      BY <1>r
    <3> HIDE DEF IsRecent, h
    <3>2. cache' \in [Hosts -> [Layers -> EntryType]]
      BY <1>a, <3>1 DEF KeptTyped
    <3> QED BY <1>b, <3>2 DEF KeptTyped
  <2>3. ASSUME NEW g \in Hosts, NEW k \in Layers PROVE EntryIsDated(g, k)'
    <3>1. CASE g = h /\ k = l /\ cache' # cache
      <4>1. PICK e \in EntryType :
              /\ cache' = [cache EXCEPT ![h][l] = e]
              /\ e.legend.host = h /\ e.legend.version \in 0 .. MaxVersion
              /\ e.legend = Legend(h, e.legend.version)
              /\ e.at \in 0 .. clock /\ until[h][l][e.legend.version] >= e.at
        BY <1>r, <3>1
      <4> HIDE DEF IsRecent, h
      <4>2. cache'[g][k] = e
        BY <1>a, <3>1, <4>1 DEF KeptTyped
      <4> QED BY <1>b, <3>1, <4>1, <4>2 DEF EntryIsDated
    <3>2. CASE ~(g = h /\ k = l /\ cache' # cache)
      <4>0. \/ UNCHANGED cache
            \/ \E e \in EntryType : cache' = [cache EXCEPT ![h][l] = e]
        BY <1>r
      <4> HIDE DEF IsRecent, h
      <4>1. cache'[g][k] = cache[g][k]
        BY <1>a, <3>2, <4>0 DEF KeptTyped
      <4> QED BY <1>b, <4>1 DEF EntryIsDated
    <3> QED BY <3>1, <3>2
  <2>4. ASSUME NEW q \in Requests, NEW k \in Layers PROVE ResultIsDated(q, k)'
    <3>1. CASE q = r /\ k = l
      <4>1. result'[q][k] = v
        BY <1>r, <3>1 DEF Return, RequestsTyped
      <4>2. IsRecent(v)
        BY <1>r
      <4> QED BY <1>a, <1>b, <3>1, <4>1, <4>2 DEF ResultIsDated
    <3>2. CASE ~(q = r /\ k = l)
      <4>1. result'[q][k] = result[q][k] /\ task'[q][k] = task[q][k]
        BY <1>r, <3>2 DEF Return, RequestsTyped
      <4> QED BY <1>b, <4>1 DEF ResultIsDated
    <3> QED BY <3>1, <3>2
  <2> QED BY <1>f, <2>1, <2>2, <2>3, <2>4
\* A coroutine that goes on or fails returns nothing.
<1>g. ASSUME NEW s \in {"read", "failed"}, task' = [task EXCEPT ![r][l] = s],
             task[r][l] \in {"look", "read"}, UNCHANGED <<cache, result>>
      PROVE  LegendInv'
  <2>1. RequestsTyped' /\ KeptTyped'
    <3>1. s \in TaskStates
      BY <1>g DEF TaskStates
    <3>2. task' \in [Requests -> [Layers -> TaskStates]]
      BY <1>g, <3>1 DEF RequestsTyped
    <3> QED BY <1>b, <1>g, <3>2 DEF RequestsTyped, KeptTyped
  <2>2. ASSUME NEW q \in Requests, NEW k \in Layers PROVE ResultIsDated(q, k)'
    <3>1. task'[q][k] = task[q][k] \/ task'[q][k] # "done"
      BY <1>g DEF RequestsTyped
    <3> QED BY <1>b, <1>g, <3>1 DEF ResultIsDated
  <2>3. ASSUME NEW g \in Hosts, NEW k \in Layers PROVE EntryIsDated(g, k)'
    BY <1>b, <1>g DEF EntryIsDated
  <2> QED BY <1>f, <2>1, <2>2, <2>3
<1>1. ASSUME LookUp(r, l) PROVE LegendInv'
  <2>1. CASE l \in Listed /\ Return(r, l, Legend(h, 0))
    <3>1. l \notin Files
      BY <2>1 DEF Files
    <3>2. IsRecent(Legend(h, 0))
      <4>1. 0 \in 0 .. MaxVersion /\ Legend(h, 0) \in LegendType
        BY <1>a, ConstantFacts DEF Nothing
      <4>2. Legend(h, 0).version = 0
        BY LegendFields
      <4> QED BY <3>1, <4>1, <4>2
    <3>3. UNCHANGED cache
      BY <1>1 DEF LookUp
    <3> HIDE DEF IsRecent
    <3> QED BY <1>r, <2>1, <3>2, <3>3
  <2>2. CASE Fresh(cache[h][l].at, job[r].now) /\ Return(r, l, Items(cache[h][l].legend))
    <3>1. EntryIsDated(h, l) /\ cache[h][l] # NoEntry
      BY <1>a, <2>2 DEF Fresh, NoEntry
    <3> DEFINE n == cache[h][l].legend.version
    <3>2. /\ n \in 0 .. MaxVersion /\ cache[h][l].legend = Legend(h, n)
          /\ until[h][l][n] >= cache[h][l].at /\ cache[h][l].at \in 0 .. clock
      BY <3>1 DEF EntryIsDated
    <3>3. until[h][l][n] > job[r].now - Day
      <4>1. job[r].now - cache[h][l].at < Day
        BY <2>2 DEF Fresh
      <4> HIDE DEF n, h
      <4>2. until[h][l][n] \in Nat
        BY <1>t, <3>2
      <4>3. cache[h][l].at \in Nat /\ Day \in Nat
        BY <1>a, <3>2, ConstantFacts
      <4> DEFINE at == cache[h][l].at
                 now == job[r].now
                 gone == until[h][l][n]
      <4>4. gone >= at /\ now - at < Day /\ gone \in Nat /\ at \in Nat /\ now \in Nat
        BY <1>a, <3>2, <4>1, <4>2, <4>3
      <4> HIDE DEF at, now, gone
      <4>5. gone > now - Day
        BY <4>3, <4>4
      <4> QED BY <4>5 DEF gone, now
    <3>4. IsRecent(Items(cache[h][l].legend))
      BY <1>i, <3>2, <3>3
    <3>5. UNCHANGED cache
      BY <1>1 DEF LookUp
    <3> HIDE DEF IsRecent
    <3> QED BY <1>r, <2>2, <3>4, <3>5
  <2>3. CASE task' = [task EXCEPT ![r][l] = "read"] /\ UNCHANGED result
    BY <1>1, <1>g, <2>3 DEF LookUp
  <2> QED BY <1>1, <2>1, <2>2, <2>3 DEF LookUp, Slot
<1>2. ASSUME ReadFile(r, l) PROVE LegendInv'
  <2>1. until[h][l][file[h][l].has] > job[r].now - Day
    <3>1. until[h][l][file[h][l].has] = Never
      BY <1>t
    <3> HIDE DEF h
    <3> QED BY SMTT(20), <1>a, <1>n, <3>1
  <2>2. CASE ~file[h][l].exists /\ Return(r, l, NoLegend) /\ UNCHANGED cache
    <3>1. IsRecent(NoLegend)
      <4>1. l \in Files => until[h][l][Nothing] > job[r].now - Day
        BY <1>t, <2>1, <2>2
      <4>2. NoLegend \in LegendType
        BY ConstantFacts
      <4> QED BY <4>1, <4>2
    <3> HIDE DEF IsRecent
    <3> QED BY <1>r, <2>2, <3>1
  <2>3. CASE /\ Return(r, l, Items(Legend(h, file[h][l].has)))
             /\ cache' = [cache EXCEPT ![h][l] = Kept(Legend(h, file[h][l].has), job[r].now)]
    <3> DEFINE e == Kept(Legend(h, file[h][l].has), job[r].now)
    <3>1. IsRecent(Items(Legend(h, file[h][l].has)))
      BY <1>i, <1>t, <2>1
    <3>2. /\ e.legend = Legend(h, file[h][l].has) /\ e.at = job[r].now
          /\ e.legend.host = h /\ e.legend.version = file[h][l].has
      BY LegendFields DEF Kept
    <3>3. e \in EntryType
      BY <1>a, <1>t, ConstantFacts DEF Kept, EntryType
    <3>4. until[h][l][e.legend.version] >= e.at /\ e.at \in 0 .. clock
      <4>1. until[h][l][e.legend.version] = Never /\ e.at = job[r].now
        BY <1>t, <3>2
      <4> HIDE DEF e, h
      <4> QED BY SMTT(20), <1>a, <1>n, <4>1
    <3>5. cache' = [cache EXCEPT ![h][l] = e]
      BY <2>3
    <3>6. e.legend.version \in 0 .. MaxVersion /\ e.legend = Legend(h, e.legend.version)
      BY <1>t, <3>2
    <3> HIDE DEF IsRecent, e
    <3> QED BY <1>r, <2>3, <3>1, <3>2, <3>3, <3>4, <3>5, <3>6
  <2> QED BY <1>2, <2>2, <2>3 DEF ReadFile, Slot
<1>3. ASSUME ReadFails(r, l) PROVE LegendInv'
  BY <1>3, <1>g DEF ReadFails
<1> QED
  BY <1>1, <1>2, <1>3

LEMMA AnswerKeeps ==
  ASSUME LegendAssumption, LegendInv, NEW r \in Requests, Show(r) \/ Leave(r)
  PROVE  LegendInv'
<1> USE DEF LegendInv
<1>1. RequestsTyped' /\ FilesTyped'
  BY DEF Show, Leave, RequestsTyped, FilesTyped
<1>2. KeptTyped'
  BY DEF Show, Leave, Take, RequestsTyped, KeptTyped
<1>3. UNCHANGED <<clock, file, until, cache, job, task, result>>
  BY DEF Show, Leave
<1>4. ASSUME NEW h \in Hosts, NEW l \in Layers PROVE FileIsDated(h, l)' /\ EntryIsDated(h, l)'
  BY <1>3, <1>4 DEF FileIsDated, EntryIsDated
<1>5. ASSUME NEW q \in Requests, NEW l \in Layers PROVE ResultIsDated(q, l)'
  BY <1>3, <1>5 DEF ResultIsDated
<1> QED
  BY <1>1, <1>2, <1>4, <1>5

-----------------------------------------------------------------------------
(* generate-controller and the clock.                                      *)

\* What was replaced now was there a moment ago.
LEMMA FileChangeKeeps ==
  ASSUME LegendAssumption, LegendInv, NEW h \in Hosts, NEW l \in Layers,
         LegendOpened(h, l) \/ LegendWritten(h, l)
  PROVE  LegendInv'
<1> USE DEF LegendInv
<1>a. /\ clock \in 0 .. MaxTime /\ file[h][l] \in FileType /\ FileIsDated(h, l)
      /\ file \in [Hosts -> [Layers -> FileType]]
      /\ until \in [Hosts -> [Layers -> [0 .. MaxVersion -> 0 .. Never]]]
      /\ UNCHANGED <<clock, cache, legends, pc, job, task, result>>
  BY DEF FilesTyped, LegendOpened, LegendWritten
<1>b. clock \in 0 .. Never /\ Never \in 0 .. Never /\ clock < Never
  BY <1>a, ConstantFacts
<1>1. /\ \A g \in Hosts, k \in Layers :
           ~(g = h /\ k = l) => file'[g][k] = file[g][k] /\ until'[g][k] = until[g][k]
      /\ file'[h][l] \in FileType /\ FileIsDated(h, l)'
      /\ \A v \in 0 .. MaxVersion : until'[h][l][v] \in {until[h][l][v], clock, Never}
      /\ FilesTyped'
  <2>1. CASE LegendOpened(h, l)
    <3>1. /\ file' = [file EXCEPT ![h][l].exists = TRUE, ![h][l].has = Nothing]
          /\ until' = [until EXCEPT ![h][l][file[h][l].has] = clock, ![h][l][Nothing] = Never]
          /\ file[h][l].last < MaxVersion
      BY <2>1 DEF LegendOpened
    <3>2. /\ file[h][l].has \in 0 .. MaxVersion /\ file[h][l].last \in 0 .. MaxVersion
          /\ file[h][l].has <= file[h][l].last /\ Nothing <= file[h][l].last
      BY <1>a DEF FileType, FileIsDated, Nothing
    <3>3. /\ file'[h][l].exists = TRUE /\ file'[h][l].has = Nothing
          /\ file'[h][l].last = file[h][l].last /\ file'[h][l] \in FileType
          /\ file' \in [Hosts -> [Layers -> FileType]]
      BY <1>a, <3>1, <3>2, ConstantFacts DEF FileType
    <3>4. /\ until' \in [Hosts -> [Layers -> [0 .. MaxVersion -> 0 .. Never]]]
          /\ until'[h][l] = [until[h][l] EXCEPT ![file[h][l].has] = clock, ![Nothing] = Never]
          /\ \A g \in Hosts, k \in Layers :
               ~(g = h /\ k = l) => file'[g][k] = file[g][k] /\ until'[g][k] = until[g][k]
      BY <1>a, <1>b, <3>1, <3>2, ConstantFacts
    <3>5. until'[h][l][Nothing] = Never
      BY <1>a, <3>2, <3>4, ConstantFacts
    <3>6. ASSUME NEW v \in 0 .. MaxVersion
          PROVE  /\ until'[h][l][v] \in {until[h][l][v], clock, Never}
                 /\ v > file[h][l].last => until'[h][l][v] = Never
      <4>0. until[h][l] \in [0 .. MaxVersion -> 0 .. Never]
        BY <1>a
      <4>1. until'[h][l][v] = IF v = Nothing THEN Never
                              ELSE IF v = file[h][l].has THEN clock ELSE until[h][l][v]
        BY <3>2, <3>4, <3>6, <4>0, ConstantFacts
      <4>2. v > file[h][l].last => v # file[h][l].has /\ v # Nothing /\ until[h][l][v] = Never
        BY <1>a, <3>2, <3>6 DEF FileIsDated
      <4> QED BY <4>1, <4>2
    <3>7. FileIsDated(h, l)'
      BY <3>1, <3>3, <3>5, <3>6, <3>2 DEF FileIsDated
    <3> QED BY <1>a, <3>3, <3>4, <3>6, <3>7 DEF FilesTyped
  <2>2. CASE LegendWritten(h, l)
    <3> DEFINE n == file[h][l].last + 1
    <3>1. /\ file' = [file EXCEPT ![h][l].has = n, ![h][l].last = n]
          /\ until' = [until EXCEPT ![h][l][Nothing] = clock]
          /\ file[h][l].exists /\ file[h][l].has = Nothing
      BY <2>2 DEF LegendWritten
    <3>2. file[h][l].last \in 0 .. MaxVersion /\ n \in 1 .. MaxVersion
      BY <1>a, <3>1, ConstantFacts DEF FileType, FileIsDated
    <3>3. /\ file'[h][l].has = n /\ file'[h][l].last = n /\ file'[h][l] \in FileType
          /\ file' \in [Hosts -> [Layers -> FileType]]
      <4>1. n \in 0 .. MaxVersion
        BY <3>2
      <4> HIDE DEF n
      <4>2. [file[h][l] EXCEPT !.has = n, !.last = n] \in FileType
        BY <1>a, <4>1 DEF FileType
      <4> QED BY <1>a, <3>1, <4>2 DEF FileType
    <3>4. /\ until' \in [Hosts -> [Layers -> [0 .. MaxVersion -> 0 .. Never]]]
          /\ until'[h][l] = [until[h][l] EXCEPT ![Nothing] = clock]
          /\ \A g \in Hosts, k \in Layers :
               ~(g = h /\ k = l) => file'[g][k] = file[g][k] /\ until'[g][k] = until[g][k]
      BY <1>a, <1>b, <3>1, ConstantFacts
    <3>5. \A v \in 0 .. MaxVersion : until'[h][l][v] = IF v = Nothing THEN clock ELSE until[h][l][v]
      BY <1>a, <3>4, ConstantFacts
    <3>6. ASSUME NEW v \in 0 .. MaxVersion, v >= n PROVE until'[h][l][v] = Never
      <4>1. v > file[h][l].last /\ v # Nothing
        BY <3>2, <3>6 DEF Nothing
      <4> QED BY <1>a, <3>5, <4>1 DEF FileIsDated
    <3>7. n # Nothing
      BY <3>2 DEF Nothing
    <3>8. FileIsDated(h, l)'
      <4>1. until'[h][l][n] = Never /\ \A v \in 0 .. MaxVersion : v > n => until'[h][l][v] = Never
        BY <3>2, <3>6
      <4>2. file'[h][l].exists
        BY <1>a, <3>1
      <4> QED BY <3>2, <3>3, <3>7, <4>1, <4>2 DEF FileIsDated
    <3> QED BY <1>a, <3>3, <3>4, <3>5, <3>8 DEF FilesTyped
  <2> QED BY <2>1, <2>2
<1>2. ASSUME NEW g \in Hosts, NEW k \in Layers PROVE FileIsDated(g, k)'
  <2>1. CASE ~(g = h /\ k = l)
    <3>1. file'[g][k] = file[g][k] /\ until'[g][k] = until[g][k] /\ FileIsDated(g, k)
      BY <1>1, <2>1
    <3> QED BY <3>1 DEF FileIsDated
  <2> QED BY <1>1, <2>1
\* What was dated with the past stays so.
<1>3. ASSUME NEW g \in Hosts, NEW k \in Layers, NEW v \in 0 .. MaxVersion
      PROVE  until'[g][k][v] \in {until[g][k][v], clock, Never}
  BY <1>1, <1>3
<1>4. ASSUME NEW g \in Hosts, NEW k \in Layers PROVE EntryIsDated(g, k)'
  <2> DEFINE e == cache[g][k]
  <2>1. EntryIsDated(g, k) /\ cache'[g][k] = e /\ clock' = clock
    BY <1>a
  <2>2. CASE e = NoEntry
    BY <2>1, <2>2 DEF EntryIsDated
  <2>3. CASE e # NoEntry
    <3> DEFINE n == e.legend.version
    <3>1. n \in 0 .. MaxVersion /\ e.at \in 0 .. clock /\ until[g][k][n] >= e.at
      BY <2>1, <2>3 DEF EntryIsDated
    <3>2. clock >= e.at /\ Never >= e.at
      BY SMTT(40), <1>a, <1>b, <3>1, ConstantFacts
    <3>3. until'[g][k][n] >= e.at
      BY <1>3, <3>1, <3>2
    <3> QED BY <2>1, <2>3, <3>3 DEF EntryIsDated
  <2> QED BY <2>2, <2>3
<1>5. ASSUME NEW q \in Requests, NEW k \in Layers PROVE ResultIsDated(q, k)'
  <2>1. ResultIsDated(q, k) /\ job[q].host \in Hosts /\ job[q].now \in Nat
    BY DEF RequestsTyped, JobType
  <2>2. clock > job[q].now - Day /\ Never > job[q].now - Day
    <3>1. job[q].now <= clock
      BY <2>1 DEF ResultIsDated
    <3>2. clock \in Nat /\ Never \in Nat /\ clock < Never /\ Day \in Nat \ {0}
      BY <1>a, <1>b, ConstantFacts
    <3> QED BY <2>1, <3>1, <3>2
  <2>3. UNCHANGED <<clock, job, task, result>>
    BY <1>a
  <2> DEFINE host == job[q].host
             then == job[q].now - Day
  <2>4. ASSUME NEW n \in 0 .. MaxVersion, until[host][k][n] > then
        PROVE  until'[host][k][n] > then
    BY <1>3, <2>1, <2>2, <2>4
  <2>5. CASE result[q][k] # NoLegend
    <3>1. result[q][k].version \in 0 .. MaxVersion
      BY <2>1, <2>5 DEF ResultIsDated
    <3> QED BY <2>1, <2>3, <2>4, <2>5, <3>1 DEF ResultIsDated
  <2>6. CASE result[q][k] = NoLegend
    BY <2>1, <2>3, <2>4, <2>6, ConstantFacts DEF ResultIsDated
  <2> QED BY <2>5, <2>6
<1>6. RequestsTyped' /\ KeptTyped'
  BY <1>a DEF RequestsTyped, KeptTyped
<1> QED
  BY <1>1, <1>2, <1>4, <1>5, <1>6

LEMMA TickKeeps ==
  ASSUME LegendAssumption, LegendInv, Tick \/ UNCHANGED vars
  PROVE  LegendInv'
<1> USE DEF LegendInv
<1>1. /\ clock' \in 0 .. MaxTime /\ clock' >= clock /\ clock \in Nat
      /\ UNCHANGED <<file, until, cache, legends, pc, job, task, result>>
  BY ConstantFacts DEF Tick, vars, FilesTyped
<1>2. RequestsTyped' /\ FilesTyped' /\ KeptTyped'
  BY <1>1 DEF RequestsTyped, FilesTyped, KeptTyped
<1>3. ASSUME NEW h \in Hosts, NEW l \in Layers PROVE FileIsDated(h, l)' /\ EntryIsDated(h, l)'
  <2>1. FileIsDated(h, l) /\ EntryIsDated(h, l)
    BY <1>3
  <2>2. FileIsDated(h, l)'
    BY <1>1, <2>1 DEF FileIsDated
  <2>3. 0 .. clock \subseteq 0 .. clock'
    BY <1>1
  <2>4. EntryIsDated(h, l)'
    BY <1>1, <2>1, <2>3 DEF EntryIsDated
  <2> QED BY <2>2, <2>4
<1>4. ASSUME NEW r \in Requests, NEW l \in Layers PROVE ResultIsDated(r, l)'
  <2>1. ResultIsDated(r, l) /\ job[r].now \in Nat
    BY <1>4 DEF RequestsTyped, JobType
  <2>2. job'[r].now <= clock'
    <3>1. job[r].now <= clock
      BY <2>1 DEF ResultIsDated
    <3> QED BY <1>1, <2>1, <3>1
  <2> QED BY <1>1, <2>1, <2>2 DEF ResultIsDated
<1> QED
  BY <1>2, <1>3, <1>4

LEMMA NextInv ==
  ASSUME LegendAssumption, LegendInv, [Next]_vars
  PROVE  LegendInv'
BY BeginKeeps, CoroutineKeeps, AnswerKeeps, FileChangeKeeps, TickKeeps DEF Next, Step

LEMMA LegendInvHolds == ASSUME LegendAssumption PROVE Spec => []LegendInv
<1>1. Init => LegendInv
  BY InitInv
<1>2. LegendInv /\ [Next]_vars => LegendInv'
  BY NextInv
<1> QED
  BY <1>1, <1>2, PTL DEF Spec

-----------------------------------------------------------------------------
LEMMA InvTyped == ASSUME LegendAssumption, LegendInv PROVE TypeOK
<1>1. ASSUME NEW h \in Hosts, NEW l \in Layers
      PROVE  cache[h][l] = NoEntry \/
               (cache[h][l].legend \in {Legend(g, v) : g \in Hosts, v \in 0 .. MaxVersion}
                  /\ cache[h][l].at \in 0 .. clock)
  BY <1>1 DEF LegendInv, EntryIsDated
<1> QED
  BY <1>1 DEF LegendInv, RequestsTyped, FilesTyped, KeptTyped, FileType, LegendType, TaskStates,
     TypeOK

\* The legends have their types, for any number of requests, hosts and layers.
THEOREM LegendsTyped == ASSUME LegendAssumption PROVE Spec => []TypeOK
<1>1. LegendInv => TypeOK
  BY InvTyped
<1> QED
  BY <1>1, LegendInvHolds, PTL

LEMMA InvResults ==
  ASSUME LegendAssumption, LegendInv
  PROVE  ResultIsRecent /\ MissIsRecent /\ ResultIsOfTheHost
<1>1. \A r \in Requests, l \in Layers : ResultIsDated(r, l)
  BY DEF LegendInv
<1> QED
  BY <1>1, ConstantFacts, LegendFields
  DEF ResultIsDated, ResultIsRecent, MissIsRecent, ResultIsOfTheHost, Recent

\* A legend that a coroutine returns was in its file less than a day before the request.
THEOREM ResultsAreRecent == ASSUME LegendAssumption PROVE Spec => []ResultIsRecent
<1>1. LegendInv => ResultIsRecent
  BY InvResults
<1> QED
  BY <1>1, LegendInvHolds, PTL

\* A legend that was written a day before the request is found by it.
THEOREM MissesAreRecent == ASSUME LegendAssumption PROVE Spec => []MissIsRecent
<1>1. LegendInv => MissIsRecent
  BY InvResults
<1> QED
  BY <1>1, LegendInvHolds, PTL

\* A legend is of the host of the request.
THEOREM ResultsAreOfTheHost == ASSUME LegendAssumption PROVE Spec => []ResultIsOfTheHost
<1>1. LegendInv => ResultIsOfTheHost
  BY InvResults
<1> QED
  BY <1>1, LegendInvHolds, PTL

\* No step takes the legend of a layer away.
LEMMA StepKeepsLegends == [Next]_vars => LegendStays
<1> SUFFICES ASSUME [Next]_vars PROVE LegendStays
  OBVIOUS
<1>1. UNCHANGED legends \/ \E r \in Requests : Show(r)
  BY ZenonT(40) DEF Next, Step, vars, Begin, LookUp, ReadFile, ReadFails, Leave, LegendOpened,
     LegendWritten, Tick
<1>2. ASSUME NEW r \in Requests, Show(r) PROVE LegendStays
  BY <1>2 DEF Show, Take, LegendStays
<1>3. CASE UNCHANGED legends
  BY <1>3 DEF LegendStays
<1> QED
  BY <1>1, <1>2, <1>3

\* Once the capabilities show a legend for a layer they always do.
THEOREM LegendsStay == Spec => LegendIsKept
BY StepKeepsLegends, PTL DEF Spec, LegendIsKept
==============================================================================
