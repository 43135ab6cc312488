-------------------------- MODULE DatedCachesProofs --------------------------
(***************************************************************************)
(* Proofs about DatedCaches, for any number of tasks, contents, removals   *)
(* and derived things, and any TTL.                                        *)
(*                                                                         *)
(* A configuration is read before its date, so that both are of one        *)
(* content only if nobody writes in between; the hosts and the actions are *)
(* dated before they are read, and are never older than their date says.   *)
(***************************************************************************)
EXTENDS DatedCaches, FiniteSetTheorems, TLAPS

InGetConfig == {"exists", "stat_cached", "read", "stat", "store"}

\* What a task does goes with where it is, and what it holds with what it does.
KindedTask(t) ==
  /\ pc[t] \in {"hosts", "hosts_read", "hosts_keep", "derive"} => kind[t] = "serve"
  /\ pc[t] \in InGetConfig => kind[t] \in {"serve", "main", "action"}
  /\ pc[t] = "answer" => kind[t] \in {"serve", "main"}
  /\ pc[t] \in {"act_exists", "act_stat", "act_store", "act_run"} => kind[t] = "action"
  /\ pc[t] = "stat_cached" => cached[t] \in Entry
  /\ pc[t] \in {"idle", "failed"} => cached[t] = None
  /\ pc[t] \in {"act_exists", "act_stat"} => cached[t] \in Entry \cup {None}
  /\ pc[t] # "hosts_keep" => got[t] \in Versions
  /\ pc[t] = "store" => seen[t] \in Versions
Kinded == \A t \in Tasks : KindedTask(t)

HostsTask(t) ==
  /\ pc[t] \in {"hosts_read", "hosts_keep"} => seen[t] \in 0 .. hostsVersion
  /\ pc[t] = "hosts_keep" => got[t] \in seen[t] .. hostsVersion

\* The hosts are not older than their date, neither the ones kept nor those of a task.
HostsAreDated ==
  /\ hostsCache # None =>
       hostsCache.mtime <= hostsCache.content /\ hostsCache.content <= hostsVersion
  /\ \A t \in Tasks : HostsTask(t)

\* Only what was replaced gets old.
CurrentIsNew == \A v \in Versions : v = 0 \/ v >= version => superseded[v] = 0

DatedTyped ==
  /\ TypeOK /\ Kinded /\ HostsAreDated /\ CurrentIsNew
  /\ \A t \in Tasks : floor[t] <= version

\* Of one content, which the file has or had.
Whole(e) == e.mtime = e.content /\ e.content <= version

\* A content that was replaced no longer than n ticks ago.
RecentFor(content, n) == \A v \in Versions : v >= content => superseded[v] <= n

KeptIsDated ==
  /\ configs # None => Whole(configs)
  /\ \A d \in Derived : derived[d] # None => Whole(derived[d])
  /\ action # None =>
       /\ action.mtime <= action.content /\ action.content \in 1 .. version
       /\ RecentFor(action.content, action.checked)

\* What a task read, and what it returns, is not older than it may expect.
ReadTask(t) ==
  /\ pc[t] \in {"stat", "store"} => got[t] \in floor[t] .. version
  /\ pc[t] = "stat" => got[t] = version
  /\ pc[t] = "store" => seen[t] = got[t]
  /\ pc[t] = "stat_cached" => Whole(cached[t])
  /\ pc[t] \in {"act_exists", "act_stat"} /\ cached[t] # None =>
       cached[t].mtime <= cached[t].content /\ cached[t].content <= version
  /\ pc[t] \in {"derive", "answer", "act_store"} /\ config[t] # Empty =>
       Whole(config[t]) /\ config[t].content >= floor[t]
  /\ pc[t] = "act_run" => config[t].content >= floor[t]
  /\ pc[t] = "answer" /\ kind[t] = "serve" => got[t] = config[t].content
ReadIsDated == \A t \in Tasks : ReadTask(t)

\* What the task of an action read was in the file since it asked for the time, and is not
\* older than the date it keeps the action with.
RecentTask(t) ==
  kind[t] = "action" =>
    /\ pc[t] \in InGetConfig \cup {"act_store"} => dated[t] <= version
    /\ pc[t] \in {"stat", "store"} => RecentFor(got[t], elapsed[t]) /\ dated[t] <= got[t]
    /\ pc[t] = "act_store" /\ config[t] # Empty =>
         RecentFor(config[t].content, elapsed[t]) /\ dated[t] <= config[t].content
ReadIsRecent == \A t \in Tasks : RecentTask(t)

CurrentInv == DatedTyped /\ KeptIsDated /\ ReadIsDated /\ ReadIsRecent
-----------------------------------------------------------------------------
LEMMA InitDated == ASSUME DatedAssumption PROVE Init => CurrentInv
BY DEF DatedAssumption, Init, CurrentInv, DatedTyped, TypeOK, Kinded, KindedTask, HostsTask,
       ReadTask, RecentTask, HostsAreDated,
       CurrentIsNew, KeptIsDated, ReadIsDated, ReadIsRecent, Versions, Entry, Empty, PC,
       InGetConfig, HostsEntry

\* The contents that were replaced TTL ago are older than one that is not.
LEMMA ExpectedBound ==
  ASSUME NEW n \in Nat \ {0}, \A v \in Versions : superseded[v] >= TTL => v \in 1 .. n - 1
  PROVE  Expected \in 1 .. n
<1> DEFINE S == {v \in Versions : superseded[v] >= TTL}
<1>1. IsFiniteSet(1 .. n - 1) /\ Cardinality(1 .. n - 1) = n - 1
  BY FS_Interval
<1>2. S \in SUBSET (1 .. n - 1)
  OBVIOUS
<1>3. Cardinality(S) <= n - 1 /\ Cardinality(S) \in Nat
  BY <1>1, <1>2, FS_Subset, FS_CardinalityType
<1> QED
  BY <1>3 DEF Expected

LEMMA ExpectedIsPast ==
  ASSUME DatedAssumption, TypeOK, CurrentIsNew
  PROVE  Expected \in 1 .. version
<1>1. version \in Nat \ {0} /\ TTL \in Nat \ {0}
  BY DEF DatedAssumption, TypeOK, Versions
<1>2. \A v \in Versions : superseded[v] >= TTL => v \in 1 .. version - 1
  BY <1>1 DEF CurrentIsNew, Versions, DatedAssumption
<1> QED
  BY <1>1, <1>2, ExpectedBound

-----------------------------------------------------------------------------
\* What get_config returns to.
LEMMA CallerIs ==
  ASSUME NEW t \in Tasks
  PROVE  /\ kind[t] = "serve" => Caller(t) = "derive"
         /\ kind[t] = "main" => Caller(t) = "answer"
         /\ kind[t] = "action" => Caller(t) = "act_store"
BY DEF Caller

\* A step of a task is one of its own, and leaves the files and what the others hold.
Stays(u) ==
  /\ pc'[u] = pc[u] /\ kind'[u] = kind[u] /\ floor'[u] = floor[u]
  /\ cached'[u] = cached[u] /\ got'[u] = got[u] /\ seen'[u] = seen[u]
  /\ elapsed'[u] = elapsed[u] /\ dated'[u] = dated[u] /\ config'[u] = config[u]

\* What a task holds, and what the tasks share.
LocalTyped ==
  /\ kind \in [Tasks -> Kinds \cup {None}]
  /\ floor \in [Tasks -> Versions]
  /\ cached \in [Tasks -> Entry \cup HostsEntry \cup {None}]
  /\ got \in [Tasks -> Versions \cup 1 .. MaxHosts]
  /\ seen \in [Tasks -> Versions \cup 1 .. MaxHosts]
  /\ elapsed \in [Tasks -> 0 .. TTL] /\ dated \in [Tasks -> Versions]
  /\ config \in [Tasks -> Entry]
FilesTyped ==
  /\ version \in Versions \ {0} /\ valid \subseteq Versions /\ present \in BOOLEAN
  /\ removals \in 0 .. MaxRemovals
  /\ superseded \in [Versions -> 0 .. TTL]
  /\ hostsVersion \in 1 .. MaxHosts /\ listed \subseteq 1 .. MaxHosts
KeptTyped ==
  /\ configs \in Entry \cup {None}
  /\ derived \in [Derived -> Entry \cup {None}]
  /\ hostsCache \in HostsEntry \cup {None}
  /\ action \in [mtime : Versions, content : Versions, checked : 0 .. TTL] \cup {None}
  /\ alive \in BOOLEAN

LEMMA ZeroTyped ==
  ASSUME DatedAssumption
  PROVE  /\ 0 \in Versions /\ 0 \in 0 .. TTL /\ Empty \in Entry
         /\ \A m, c \in Versions : [mtime |-> m, content |-> c] \in Entry
         /\ \A a, b \in 0 .. MaxHosts : [mtime |-> a, content |-> b] \in HostsEntry
BY DEF DatedAssumption, Versions, Empty, Entry, HostsEntry

LEMMA EmptyEntry ==
  ASSUME NEW e \in Entry, e.mtime = 0, e.content = 0
  PROVE  e = Empty
BY DEF Entry, Empty

LEMMA VersionsAreNat == Versions \subseteq Nat /\ (DatedAssumption => 0 \in Versions)
BY DEF Versions, DatedAssumption

LEMMA FinishTyped ==
  ASSUME DatedAssumption, LocalTyped, pc \in [Tasks -> PC], NEW t \in Tasks,
         NEW l \in PC, Finish(t, l)
  PROVE  LocalTyped' /\ pc' \in [Tasks -> PC]
BY ZeroTyped DEF LocalTyped, Finish, Goto

LEMMA GetConfigTyped ==
  ASSUME DatedAssumption, DatedTyped, NEW t \in Tasks, GetConfig(t)
  PROVE  TypeOK'
<1> USE DEF DatedTyped, At, Goto, file, hosts, local
<1>a. FilesTyped /\ KeptTyped /\ LocalTyped /\ pc \in [Tasks -> PC] /\ Kinded
  BY DEF TypeOK, FilesTyped, KeptTyped, LocalTyped
<1>b. FilesTyped'
  BY <1>a DEF FilesTyped, GetConfig, Exists, StatCached, ReadConfig, StatConfig, StoreConfig
<1>t. KeptTyped' /\ LocalTyped' /\ (pc \in [Tasks -> PC])' => TypeOK'
  BY <1>b DEF TypeOK, FilesTyped, KeptTyped, LocalTyped
<1>c. alive => Caller(t) \in PC
  BY <1>a, CallerIs DEF GetConfig, Exists, StatCached, ReadConfig, StatConfig, StoreConfig,
     Kinded, KindedTask, InGetConfig, PC
<1>1. ASSUME Exists(t) PROVE TypeOK'
  <2>1. KeptTyped'
    BY <1>a, <1>1 DEF Exists, KeptTyped, NoConfig, IgnoreError, Return
  <2>2. LocalTyped'
    BY ZenonT(60), <1>a, <1>1, ZeroTyped
    DEF Exists, KeptTyped, LocalTyped, NoConfig, IgnoreError, Return
  <2>3. (pc \in [Tasks -> PC])'
    BY <1>a, <1>1, <1>c DEF Exists, NoConfig, IgnoreError, Return, PC
  <2> QED BY <1>t, <2>1, <2>2, <2>3
<1>2. ASSUME StatCached(t) PROVE TypeOK'
  <2>1. KeptTyped'
    BY <1>a, <1>2 DEF StatCached, KeptTyped
  <2>2. LocalTyped'
    <3>1. CASE Finish(t, "failed")
      BY <1>a, <3>1, FinishTyped DEF PC
    <3>2. CASE ~Finish(t, "failed")
      <4>1. cached[t] \in Entry
        BY <1>a, <1>2 DEF StatCached, Kinded, KindedTask
      <4> QED
        BY <1>a, <1>2, <3>2, <4>1 DEF StatCached, LocalTyped, Return
    <3> QED BY <3>1, <3>2
  <2>3. (pc \in [Tasks -> PC])'
    BY <1>a, <1>2, <1>c DEF StatCached, Return, PC, Finish
  <2> QED BY <1>t, <2>1, <2>2, <2>3
<1>3. ASSUME ReadConfig(t) \/ StatConfig(t) PROVE TypeOK'
  <2>1. KeptTyped'
    BY <1>a, <1>3 DEF ReadConfig, StatConfig, KeptTyped
  <2>2. LocalTyped'
    <3>1. CASE Finish(t, "failed")
      BY <1>a, <3>1, FinishTyped DEF PC
    <3>2. CASE ~Finish(t, "failed")
      BY <1>a, <1>3, <3>2 DEF ReadConfig, StatConfig, FilesTyped, LocalTyped
    <3> QED BY <3>1, <3>2
  <2>3. (pc \in [Tasks -> PC])'
    BY <1>a, <1>3 DEF ReadConfig, StatConfig, PC, Finish
  <2> QED BY <1>t, <2>1, <2>2, <2>3
<1>4. ASSUME StoreConfig(t) PROVE TypeOK'
  <2>0. [mtime |-> seen[t], content |-> got[t]] \in Entry
    BY <1>a, <1>4, ZeroTyped DEF StoreConfig, Kinded, KindedTask
  <2>1. KeptTyped'
    BY <1>a, <1>4, <2>0, ZeroTyped DEF StoreConfig, KeptTyped, NoConfig, IgnoreError, Return
  <2>2. LocalTyped'
    BY ZenonT(60), <1>a, <1>4, <2>0, ZeroTyped
    DEF StoreConfig, KeptTyped, LocalTyped, NoConfig, IgnoreError, Return
  <2>3. (pc \in [Tasks -> PC])'
    BY <1>a, <1>4, <1>c DEF StoreConfig, NoConfig, IgnoreError, Return, PC
  <2> QED BY <1>t, <2>1, <2>2, <2>3
<1> QED
  BY <1>1, <1>2, <1>3, <1>4 DEF GetConfig

LEMMA RequestTyped ==
  ASSUME DatedAssumption, DatedTyped, NEW t \in Tasks, Request(t)
  PROVE  TypeOK'
<1> USE DEF DatedTyped, At, Goto, file, hosts, local
<1>a. FilesTyped /\ KeptTyped /\ LocalTyped /\ pc \in [Tasks -> PC] /\ Kinded
  BY DEF TypeOK, FilesTyped, KeptTyped, LocalTyped
<1>b. FilesTyped'
  BY <1>a DEF FilesTyped, Request, StartRequest, StartMain, StatHosts, ReadHosts,
     KeepHosts, Derive, UseHosts, EndRequest
<1>t. KeptTyped' /\ LocalTyped' /\ (pc \in [Tasks -> PC])' => TypeOK'
  BY <1>b DEF TypeOK, FilesTyped, KeptTyped, LocalTyped
<1>1. ASSUME StartRequest(t) \/ StartMain(t) PROVE TypeOK'
  <2>1. KeptTyped'
    BY <1>a, <1>1 DEF StartRequest, StartMain, KeptTyped
  <2>2. LocalTyped' /\ (pc \in [Tasks -> PC])'
    BY <1>a, <1>1 DEF StartRequest, StartMain, FilesTyped, LocalTyped, PC
  <2> QED BY <1>t, <2>1, <2>2
<1>2. ASSUME StatHosts(t) PROVE TypeOK'
  <2>1. KeptTyped'
    BY <1>a, <1>2 DEF StatHosts, UseHosts, KeptTyped
  <2>2. LocalTyped' /\ (pc \in [Tasks -> PC])'
    <3>1. CASE Finish(t, "idle")
      BY <1>a, <3>1, FinishTyped DEF PC
    <3>2. CASE ~Finish(t, "idle")
      BY <1>a, <1>2, <3>2, ZeroTyped DEF StatHosts, UseHosts, FilesTyped, LocalTyped, PC
    <3> QED BY <3>1, <3>2
  <2> QED BY <1>t, <2>1, <2>2
<1>3. ASSUME ReadHosts(t) PROVE TypeOK'
  <2>1. KeptTyped'
    BY <1>a, <1>3 DEF ReadHosts, KeptTyped
  <2>2. LocalTyped' /\ (pc \in [Tasks -> PC])'
    BY <1>a, <1>3 DEF ReadHosts, FilesTyped, LocalTyped, PC
  <2> QED BY <1>t, <2>1, <2>2
<1>4. ASSUME KeepHosts(t) PROVE TypeOK'
  <2>1. seen[t] \in 0 .. MaxHosts /\ got[t] \in 0 .. MaxHosts
    BY <1>a, <1>4 DEF KeepHosts, FilesTyped, HostsAreDated, HostsTask, DatedAssumption
  <2>2. KeptTyped'
    BY <1>a, <1>4, <2>1, ZeroTyped DEF KeepHosts, HostsDate, UseHosts, KeptTyped
  <2>3. LocalTyped' /\ (pc \in [Tasks -> PC])'
    <3>1. CASE Finish(t, "idle")
      BY <1>a, <3>1, FinishTyped DEF PC
    <3>2. CASE ~Finish(t, "idle")
      <4>1. /\ pc' = [pc EXCEPT ![t] = "exists"] /\ floor' = [floor EXCEPT ![t] = version]
            /\ seen' = [seen EXCEPT ![t] = 0] /\ got' = [got EXCEPT ![t] = 0]
            /\ UNCHANGED <<kind, cached, elapsed, dated, config>>
        BY <1>4, <3>2 DEF KeepHosts, UseHosts
      <4>2. version \in Versions /\ "exists" \in PC
        BY <1>a DEF FilesTyped, PC
      <4> QED
        BY <1>a, <4>1, <4>2, ZeroTyped DEF LocalTyped
    <3> QED BY <3>1, <3>2
  <2> QED BY <1>t, <2>2, <2>3
<1>5. ASSUME NEW d \in Derived, Derive(t, d) PROVE TypeOK'
  <2>1. config[t] \in Entry
    BY <1>a DEF LocalTyped
  <2>2. derived' \in [Derived -> Entry \cup {None}]
    BY <1>a, <1>5, <2>1 DEF Derive, KeptTyped
  <2>3. KeptTyped'
    BY <1>a, <1>5, <2>2 DEF Derive, KeptTyped
  <2>4. derived'[d] \in Entry
    BY <1>a, <1>5, <2>1 DEF Derive, UpToDate, KeptTyped
  <2>5. derived'[d].content \in Versions
    BY <2>4 DEF Entry
  <2>6. LocalTyped' /\ (pc \in [Tasks -> PC])'
    BY <1>a, <1>5, <2>5 DEF Derive, LocalTyped, PC
  <2> QED BY <1>t, <2>3, <2>6
<1>6. ASSUME EndRequest(t) PROVE TypeOK'
  <2>1. KeptTyped'
    BY <1>a, <1>6 DEF EndRequest, KeptTyped
  <2>2. LocalTyped' /\ (pc \in [Tasks -> PC])'
    BY <1>a, <1>6, FinishTyped DEF EndRequest, PC
  <2> QED BY <1>t, <2>1, <2>2
<1> QED
  BY <1>1, <1>2, <1>3, <1>4, <1>5, <1>6 DEF Request

LEMMA ActTyped ==
  ASSUME DatedAssumption, DatedTyped, NEW t \in Tasks, Act(t) \/ EndFailed(t)
  PROVE  TypeOK'
<1> USE DEF DatedTyped, At, Goto, file, hosts, local
<1>a. FilesTyped /\ KeptTyped /\ LocalTyped /\ pc \in [Tasks -> PC] /\ Kinded
  BY DEF TypeOK, FilesTyped, KeptTyped, LocalTyped
<1>b. FilesTyped'
  BY <1>a DEF FilesTyped, Act, StartAction, ActionExists, ActionStat, ActionStore, EndAction,
    EndFailed
<1>t. KeptTyped' /\ LocalTyped' /\ (pc \in [Tasks -> PC])' => TypeOK'
  BY <1>b DEF TypeOK, FilesTyped, KeptTyped, LocalTyped
<1>c. action # None =>
        /\ action.mtime \in Versions /\ action.content \in Versions
        /\ action.checked \in 0 .. TTL
  BY <1>a DEF KeptTyped
<1>1. ASSUME StartAction(t) PROVE TypeOK'
  <2>1. KeptTyped'
    BY <1>a, <1>1 DEF StartAction, KeptTyped
  <2>2. Expected \in Versions
    <3>1. Expected \in 1 .. version
      BY ExpectedIsPast
    <3> QED
      BY <1>a, <3>1 DEF FilesTyped, Versions, DatedAssumption
  <2>3. action # None => [mtime |-> action.mtime, content |-> action.content] \in Entry
    BY <1>c, ZeroTyped
  <2>4. LocalTyped' /\ (pc \in [Tasks -> PC])'
    BY <1>a, <1>1, <2>2, <2>3, ZeroTyped DEF StartAction, LocalTyped, PC
  <2> QED BY <1>t, <2>1, <2>4
<1>2. ASSUME ActionExists(t) PROVE TypeOK'
  <2>1. KeptTyped'
    BY <1>a, <1>2 DEF ActionExists, KeptTyped
  <2>2. LocalTyped' /\ (pc \in [Tasks -> PC])'
    <3>1. CASE Finish(t, "idle")
      BY <1>a, <3>1, FinishTyped DEF PC
    <3>2. CASE ~Finish(t, "idle")
      BY <1>a, <1>2, <3>2 DEF ActionExists, LocalTyped, PC
    <3> QED BY <3>1, <3>2
  <2> QED BY <1>t, <2>1, <2>2
<1>3. ASSUME ActionStat(t) PROVE TypeOK'
  <2>1. KeptTyped'
    <3>1. CASE UNCHANGED action
      BY <1>a, <1>3, <3>1 DEF ActionStat, KeptTyped
    <3>2. CASE SameAction(t) /\ action' = [action EXCEPT !.checked = elapsed[t]]
      <4>1. action \in [mtime : Versions, content : Versions, checked : 0 .. TTL]
        BY <1>a, <3>2 DEF SameAction, KeptTyped
      <4>2. elapsed[t] \in 0 .. TTL
        BY <1>a DEF LocalTyped
      <4>3. action' \in [mtime : Versions, content : Versions, checked : 0 .. TTL]
        BY <3>2, <4>1, <4>2
      <4> QED BY <1>a, <1>3, <4>3 DEF ActionStat, KeptTyped
    <3> QED BY <1>3, <3>1, <3>2 DEF ActionStat
  <2>2. LocalTyped' /\ (pc \in [Tasks -> PC])'
    <3>1. CASE Finish(t, "failed")
      BY <1>a, <3>1, FinishTyped DEF PC
    <3>2. CASE ~Finish(t, "failed")
      <4>1. cached[t] # None => cached[t] \in Entry
        BY <1>a, <1>3 DEF ActionStat, Kinded, KindedTask
      <4> QED
        BY <1>a, <1>3, <3>2, <4>1 DEF ActionStat, SameDate, FilesTyped, LocalTyped, PC
    <3> QED BY <3>1, <3>2
  <2> QED BY <1>t, <2>1, <2>2
<1>4. ASSUME ActionStore(t) PROVE TypeOK'
  <2>1. config[t].content \in Versions /\ dated[t] \in Versions /\ elapsed[t] \in 0 .. TTL
    BY <1>a DEF LocalTyped, Entry
  <2>2. action' = None
        \/ action' \in [mtime : Versions, content : Versions, checked : 0 .. TTL]
    BY <1>4, <2>1 DEF ActionStore, ActionDate
  <2>3. KeptTyped'
    BY <1>a, <1>4, <2>2 DEF ActionStore, KeptTyped
  <2>4. LocalTyped' /\ (pc \in [Tasks -> PC])'
    <3>1. CASE Finish(t, "idle")
      BY <1>a, <3>1, FinishTyped DEF PC
    <3>2. CASE ~Finish(t, "idle")
      BY <1>a, <1>4, <3>2 DEF ActionStore, LocalTyped, PC
    <3> QED BY <3>1, <3>2
  <2> QED BY <1>t, <2>3, <2>4
<1>5. ASSUME EndAction(t) \/ EndFailed(t) PROVE TypeOK'
  <2>1. KeptTyped'
    BY <1>a, <1>5 DEF EndAction, EndFailed, KeptTyped
  <2>2. LocalTyped' /\ (pc \in [Tasks -> PC])'
    <3>1. CASE Finish(t, "idle")
      BY <1>a, <3>1, FinishTyped DEF PC
    <3>2. CASE ~Finish(t, "idle")
      BY <1>a, <1>5, <3>2 DEF EndAction, EndFailed, LocalTyped, PC
    <3> QED BY <3>1, <3>2
  <2> QED BY <1>t, <2>1, <2>2
<1> QED
  BY <1>1, <1>2, <1>3, <1>4, <1>5 DEF Act

\* The files and the clock move, or nothing does.
Outside == Edit \/ EditHosts \/ RemoveOrRestore \/ Tick \/ UNCHANGED vars

LEMMA OutsideTyped ==
  ASSUME DatedAssumption, DatedTyped, Outside
  PROVE  TypeOK'
<1> USE DEF DatedTyped
<1>1. CASE Edit
  <2>1. version + 1 \in Versions \ {0}
    BY <1>1 DEF TypeOK, Edit, Versions, DatedAssumption
  <2>2. version' \in Versions \ {0} /\ valid' \subseteq Versions
    BY <1>1, <2>1 DEF TypeOK, Edit
  <2> QED BY <1>1, <2>2 DEF TypeOK, Edit, hosts, local
<1>2. CASE EditHosts
  <2>1. hostsVersion' \in 1 .. MaxHosts /\ listed' \subseteq 1 .. MaxHosts
    <3>1. /\ hostsVersion \in 1 .. MaxHosts /\ listed \subseteq 1 .. MaxHosts
          /\ MaxHosts \in Nat
      BY DEF TypeOK, DatedAssumption
    <3>2. /\ hostsVersion < MaxHosts /\ hostsVersion' = hostsVersion + 1
          /\ listed' = listed \cup {hostsVersion + 1} \/ listed' = listed
      BY <1>2 DEF EditHosts
    <3>3. hostsVersion + 1 \in 1 .. MaxHosts
      BY <3>1, <3>2
    <3> QED BY <3>1, <3>2, <3>3
  <2> QED BY <1>2, <2>1 DEF TypeOK, EditHosts, file, local
<1>3. CASE RemoveOrRestore
  BY <1>3 DEF TypeOK, RemoveOrRestore, hosts, local, DatedAssumption
<1>4. CASE Tick
  <2>1. \A n \in 0 .. TTL : Older(n) \in 0 .. TTL
    BY DEF Older, DatedAssumption
  <2>2. superseded' \in [Versions -> 0 .. TTL] /\ elapsed' \in [Tasks -> 0 .. TTL]
    BY <1>4, <2>1 DEF TypeOK, Tick, DatedAssumption
  <2>3. action' \in [mtime : Versions, content : Versions, checked : 0 .. TTL] \cup {None}
    BY <1>4, <2>1 DEF TypeOK, Tick
  <2> QED BY <1>4, <2>2, <2>3 DEF TypeOK, Tick, hosts
<1>5. CASE UNCHANGED vars
  BY <1>5 DEF TypeOK, vars, file, hosts, local
<1> QED
  BY <1>1, <1>2, <1>3, <1>4, <1>5 DEF Outside

LEMMA NextTyped ==
  ASSUME DatedAssumption, DatedTyped, [Next]_vars
  PROVE  TypeOK'
BY GetConfigTyped, RequestTyped, ActTyped, OutsideTyped DEF Next, Step, Outside

LEMMA OthersStay ==
  ASSUME TypeOK, NEW t \in Tasks, NEW u \in Tasks, u # t, Step(t)
  PROVE  Stays(u) /\ UNCHANGED <<file, hostsVersion, listed>>
<1> USE DEF TypeOK, Stays, At, Goto, Finish, Return, NoConfig, UseHosts, file, hosts, local
<1>1. ASSUME GetConfig(t) PROVE Stays(u) /\ UNCHANGED <<file, hostsVersion, listed>>
  BY <1>1 DEF GetConfig, Exists, StatCached, ReadConfig, StatConfig, StoreConfig
<1>2. ASSUME Request(t) PROVE Stays(u) /\ UNCHANGED <<file, hostsVersion, listed>>
  BY <1>2 DEF Request, StartRequest, StartMain, StatHosts, ReadHosts, KeepHosts, Derive, EndRequest
<1>3. ASSUME Act(t) PROVE Stays(u) /\ UNCHANGED <<file, hostsVersion, listed>>
  BY <1>3 DEF Act, StartAction, ActionExists, ActionStat, ActionStore, EndAction
<1>4. ASSUME EndFailed(t) PROVE Stays(u) /\ UNCHANGED <<file, hostsVersion, listed>>
  BY <1>4 DEF EndFailed
<1> QED
  BY <1>1, <1>2, <1>3, <1>4 DEF Step

LEMMA StepKinded ==
  ASSUME DatedAssumption, DatedTyped, NEW t \in Tasks, Step(t)
  PROVE  KindedTask(t)'
<1> USE DEF DatedTyped, At, Goto
<1>a. /\ kind \in [Tasks -> Kinds \cup {None}] /\ pc \in [Tasks -> PC]
      /\ cached \in [Tasks -> Entry \cup HostsEntry \cup {None}]
      /\ got \in [Tasks -> Versions \cup 1 .. MaxHosts]
      /\ seen \in [Tasks -> Versions \cup 1 .. MaxHosts]
      /\ config \in [Tasks -> Entry] /\ version \in Versions /\ 0 \in Versions
      /\ configs \in Entry \cup {None} /\ derived \in [Derived -> Entry \cup {None}]
  BY ZeroTyped DEF TypeOK
<1>b. KindedTask(t)
  BY DEF Kinded
<1>c. \A l : Finish(t, l) /\ l \in {"idle", "failed"} => KindedTask(t)'
  BY <1>a DEF Finish, KindedTask, InGetConfig
<1>d. \A c : Return(t, c) /\ pc[t] \in InGetConfig /\ UNCHANGED <<kind, cached, got, seen>>
               => KindedTask(t)'
  BY <1>a, <1>b, CallerIs DEF Return, KindedTask, InGetConfig
<1>1. ASSUME Exists(t) PROVE KindedTask(t)'
  <2>1. CASE present
    BY <1>1, <2>1, <1>a, <1>b DEF Exists, KindedTask, InGetConfig
  <2>2. CASE ~present
    BY <1>1, <2>2, <1>a, <1>b, <1>d DEF Exists, NoConfig, IgnoreError, KindedTask, InGetConfig
  <2> QED BY <2>1, <2>2
<1>2. ASSUME StatCached(t) PROVE KindedTask(t)'
  <2>1. CASE Return(t, cached[t]) /\ UNCHANGED <<kind, cached, got, seen>>
    BY <1>2, <2>1, <1>d DEF StatCached, InGetConfig
  <2>2. CASE Goto(t, "read") /\ UNCHANGED local
    <3>1. pc[t] = "stat_cached"
      BY <1>2 DEF StatCached
    <3> QED BY <3>1, <2>2, <1>a, <1>b DEF KindedTask, InGetConfig, local
  <2> QED BY <1>2, <1>c, <2>1, <2>2 DEF StatCached
<1>3. ASSUME ReadConfig(t) PROVE KindedTask(t)'
  BY <1>3, <1>a, <1>b, <1>c DEF ReadConfig, KindedTask, InGetConfig
<1>4. ASSUME StatConfig(t) PROVE KindedTask(t)'
  BY <1>4, <1>a, <1>b, <1>c DEF StatConfig, KindedTask, InGetConfig
<1>5. ASSUME StoreConfig(t) PROVE KindedTask(t)'
  BY <1>5, <1>a, <1>b, <1>d DEF StoreConfig, NoConfig, KindedTask, InGetConfig
<1>6. ASSUME StartRequest(t) \/ StartMain(t) PROVE KindedTask(t)'
  BY <1>6, <1>a, <1>b DEF StartRequest, StartMain, KindedTask, InGetConfig
<1>7. ASSUME StatHosts(t) \/ KeepHosts(t) PROVE KindedTask(t)'
  BY <1>7, <1>a, <1>b, <1>c DEF StatHosts, KeepHosts, UseHosts, KindedTask, InGetConfig
<1>8. ASSUME ReadHosts(t) PROVE KindedTask(t)'
  BY <1>8, <1>a, <1>b DEF ReadHosts, KindedTask, InGetConfig
<1>9. ASSUME NEW d \in Derived, Derive(t, d) PROVE KindedTask(t)'
  <2>1. derived'[d] \in Entry
    BY <1>a, <1>9 DEF Derive, UpToDate
  <2>2. derived'[d].content \in Versions
    BY <2>1 DEF Entry
  <2> QED BY <1>9, <1>a, <1>b, <2>2 DEF Derive, KindedTask, InGetConfig
<1>10. ASSUME EndRequest(t) \/ EndAction(t) PROVE KindedTask(t)'
  BY <1>10, <1>c DEF EndRequest, EndAction
<1>11. ASSUME StartAction(t) PROVE KindedTask(t)'
  <2>1. action # None => [mtime |-> action.mtime, content |-> action.content] \in Entry
    BY DEF TypeOK, Entry
  <2> QED BY <1>11, <1>a, <1>b, <2>1 DEF StartAction, KindedTask, InGetConfig
<1>12. ASSUME ActionExists(t) PROVE KindedTask(t)'
  BY <1>12, <1>a, <1>b, <1>c DEF ActionExists, KindedTask, InGetConfig, local
<1>13. ASSUME ActionStat(t) PROVE KindedTask(t)'
  BY <1>13, <1>a, <1>b, <1>c DEF ActionStat, KindedTask, InGetConfig
<1>14. ASSUME ActionStore(t) PROVE KindedTask(t)'
  BY <1>14, <1>a, <1>b, <1>c DEF ActionStore, KindedTask, InGetConfig, local
<1>15. ASSUME EndFailed(t) PROVE KindedTask(t)'
  BY <1>15, <1>a, <1>b DEF EndFailed, KindedTask, InGetConfig, local
<1> QED
  BY <1>1, <1>2, <1>3, <1>4, <1>5, <1>6, <1>7, <1>8, <1>9, <1>10, <1>11, <1>12, <1>13,
     <1>14, <1>15 DEF Step, Request, Act, GetConfig

LEMMA NextKinded ==
  ASSUME DatedAssumption, DatedTyped, [Next]_vars
  PROVE  Kinded'
<1> SUFFICES ASSUME NEW u \in Tasks PROVE KindedTask(u)'
  BY DEF Kinded
<1>1. ASSUME NEW t \in Tasks, Step(t) PROVE KindedTask(u)'
  <2>1. CASE u = t
    BY <1>1, <2>1, StepKinded
  <2>2. CASE u # t
    <3>1. Stays(u)
      BY <1>1, <2>2, OthersStay DEF DatedTyped
    <3> QED BY <3>1 DEF DatedTyped, Kinded, KindedTask, Stays
  <2> QED BY <2>1, <2>2
<1>2. ASSUME Outside PROVE KindedTask(u)'
  BY <1>2 DEF Outside, Edit, EditHosts, RemoveOrRestore, Tick, vars, local, DatedTyped,
     Kinded, KindedTask
<1> QED
  BY <1>1, <1>2 DEF Next, Outside

\* The date of the hosts was read before they were.
LEMMA NextHostsDated ==
  ASSUME DatedAssumption, DatedTyped, [Next]_vars
  PROVE  HostsAreDated'
<1> USE DEF DatedTyped, At, Goto
<1>a. /\ pc \in [Tasks -> PC] /\ hostsVersion \in Nat /\ hostsCache \in HostsEntry \cup {None}
      /\ got \in [Tasks -> Versions \cup 1 .. MaxHosts]
      /\ seen \in [Tasks -> Versions \cup 1 .. MaxHosts]
  BY DEF TypeOK, DatedAssumption
<1>1. ASSUME NEW t \in Tasks, Step(t) PROVE HostsAreDated'
  <2>1. HostsTask(t)'
    <3>1. CASE StatHosts(t)
      BY <1>a, <3>1 DEF StatHosts, UseHosts, Finish, HostsTask, hosts
    <3>2. CASE ReadHosts(t)
      BY <1>a, <3>2 DEF ReadHosts, HostsAreDated, HostsTask, hosts
    <3>3. CASE ~StatHosts(t) /\ ~ReadHosts(t)
      <4>1. pc'[t] \notin {"hosts_read", "hosts_keep"}
        <5>1. CASE GetConfig(t)
          <6>1. kind[t] \in {"serve", "main", "action"}
            BY <5>1 DEF GetConfig, Exists, StatCached, ReadConfig, StatConfig, StoreConfig,
              Kinded, KindedTask, InGetConfig
          <6> QED BY <1>a, <5>1, <6>1, CallerIs DEF GetConfig, Exists, StatCached, ReadConfig,
            StatConfig, StoreConfig,
             NoConfig, Return, Finish
        <5>2. CASE Request(t)
          BY <1>a, <3>3, <5>2 DEF Request, StartRequest, StartMain, KeepHosts, UseHosts, Derive,
            EndRequest, Finish
        <5>3. CASE Act(t) \/ EndFailed(t)
          BY <1>a, <5>3 DEF Act, StartAction, ActionExists, ActionStat, ActionStore, EndAction,
            EndFailed, Finish
        <5> QED BY <1>1, <5>1, <5>2, <5>3 DEF Step
      <4> QED BY <4>1 DEF HostsTask
    <3> QED BY <3>1, <3>2, <3>3
  <2>2. ASSUME NEW u \in Tasks, u # t PROVE HostsTask(u)'
    <3>1. Stays(u) /\ UNCHANGED hostsVersion
      BY <1>1, <2>2, OthersStay
    <3> QED BY <3>1 DEF HostsAreDated, HostsTask, Stays
  <2>3. hostsCache' # None => hostsCache'.mtime <= hostsCache'.content
                              /\ hostsCache'.content <= hostsVersion'
    <3>1. CASE KeepHosts(t)
      BY <1>a, <3>1 DEF KeepHosts, HostsDate, HostsAreDated, HostsTask
    <3>2. CASE ~KeepHosts(t)
      <4>1. UNCHANGED <<hostsCache, hostsVersion>>
        BY <1>1, <3>2 DEF Step, Request, StartRequest, StartMain, StatHosts, ReadHosts, Derive,
          EndRequest, Act, StartAction, ActionExists, ActionStat, ActionStore, EndAction, EndFailed,
          GetConfig, Exists, StatCached, ReadConfig, StatConfig, StoreConfig, hosts
      <4> QED BY <4>1 DEF HostsAreDated
    <3> QED BY <3>1, <3>2
  <2> QED BY <2>1, <2>2, <2>3 DEF HostsAreDated
<1>2. ASSUME Outside PROVE HostsAreDated'
  <2>1. UNCHANGED <<hostsCache, pc, got, seen>>
        /\ hostsVersion' \in {hostsVersion, hostsVersion + 1}
    BY <1>2 DEF Outside, Edit, EditHosts, RemoveOrRestore, Tick, vars, hosts, local
  <2> QED BY <1>a, <2>1 DEF HostsAreDated, HostsTask, HostsEntry
<1> QED
  BY <1>1, <1>2 DEF Next, Outside

\* Only a version that was replaced gets older, and a task expects no version to come.
LEMMA NextDated ==
  ASSUME DatedAssumption, DatedTyped, [Next]_vars
  PROVE  DatedTyped'
<1> USE DEF DatedTyped
<1>a. /\ version \in Nat \ {0} /\ superseded \in [Versions -> 0 .. TTL]
      /\ floor \in [Tasks -> Versions] /\ Versions \subseteq Nat
  BY DEF TypeOK, Versions, DatedAssumption
<1>1. CurrentIsNew' /\ \A u \in Tasks : floor'[u] <= version'
  <2>1. ASSUME NEW t \in Tasks, Step(t)
        PROVE  CurrentIsNew' /\ \A u \in Tasks : floor'[u] <= version'
    <3>1. UNCHANGED file
      BY <2>1 DEF Step, Request, StartRequest, StartMain, StatHosts, ReadHosts, KeepHosts, Derive,
        EndRequest, Act, StartAction, ActionExists, ActionStat, ActionStore, EndAction, EndFailed,
        GetConfig, Exists, StatCached, ReadConfig, StatConfig, StoreConfig
    <3>2. ASSUME NEW u \in Tasks PROVE floor'[u] <= version
      <4>1. CASE u # t
        BY <2>1, <4>1, OthersStay DEF Stays
      <4>2. CASE u = t
        <5>1. Expected <= version
          BY <1>a, ExpectedIsPast
        <5>2. floor'[t] \in {floor[t], 0, version, Expected}
          BY <1>a, <2>1 DEF Step, Request, StartRequest, StartMain, StatHosts, UseHosts, ReadHosts,
            KeepHosts, Derive, EndRequest, Act, StartAction, ActionExists, ActionStat, ActionStore,
            EndAction, EndFailed, GetConfig, Exists, StatCached, ReadConfig, StatConfig,
            StoreConfig,
            Finish, local
        <5> QED BY <1>a, <4>2, <5>1, <5>2
      <4> QED BY <4>1, <4>2
    <3> QED BY <3>1, <3>2 DEF file, CurrentIsNew
  <2>2. ASSUME Outside PROVE CurrentIsNew' /\ \A u \in Tasks : floor'[u] <= version'
    <3>1. floor' = floor /\ version' \in {version, version + 1}
      BY <2>2 DEF Outside, Edit, EditHosts, RemoveOrRestore, Tick, vars, file, local
    <3>2. \A v \in Versions : v = 0 \/ v >= version => superseded'[v] = superseded[v]
      BY <1>a, <2>2 DEF Outside, Edit, EditHosts, RemoveOrRestore, Tick, vars, file
    <3>3. ASSUME NEW v \in Versions, v = 0 \/ v >= version' PROVE superseded'[v] = 0
      <4>1. v = 0 \/ v >= version
        BY <1>a, <3>1, <3>3
      <4> QED BY <3>2, <4>1 DEF CurrentIsNew
    <3>4. ASSUME NEW u \in Tasks PROVE floor'[u] <= version'
      <4>1. floor[u] \in Nat /\ floor[u] <= version
        BY <1>a
      <4> QED BY <1>a, <3>1, <4>1
    <3> QED BY <3>3, <3>4 DEF CurrentIsNew
  <2> QED BY <2>1, <2>2 DEF Next, Outside
<1> QED
  BY <1>1, NextTyped, NextKinded, NextHostsDated

\* The caches have their types, for any number of tasks and contents.
THEOREM DatedCachesTyped == ASSUME DatedAssumption PROVE Spec => []TypeOK
<1>1. Init => DatedTyped
  BY InitDated DEF CurrentInv
<1>2. DatedTyped /\ [Next]_vars => DatedTyped'
  BY NextDated
<1>3. DatedTyped => TypeOK
  BY DEF DatedTyped
<1> QED
  BY <1>1, <1>2, <1>3, PTL DEF Spec

LEMMA DatedHosts == ASSUME DatedAssumption, DatedTyped PROVE HostsAreCurrent
BY DEF DatedTyped, TypeOK, HostsAreDated, HostsAreCurrent, HostsEntry, DatedAssumption

\* The hosts that are not read again are those of the file, also when it is written at the
\* very moment they are read.
THEOREM HostsStayCurrent == ASSUME DatedAssumption PROVE Spec => []HostsAreCurrent
<1>1. Init => DatedTyped
  BY InitDated DEF CurrentInv
<1>2. DatedTyped /\ [Next]_vars => DatedTyped'
  BY NextDated
<1>3. DatedTyped => HostsAreCurrent
  BY DatedHosts
<1> QED
  BY <1>1, <1>2, <1>3, PTL DEF Spec

-----------------------------------------------------------------------------
\* What a step of a task keeps for the others is of one content.
Undisturbed == "write_while_read" \notin Troubles

LEMMA StepKept ==
  ASSUME DatedAssumption, CurrentInv, NEW t \in Tasks, Step(t)
  PROVE  KeptIsDated'
<1> USE DEF CurrentInv, DatedTyped, At, Goto
<1>a. /\ version \in Nat \ {0} /\ Versions \subseteq Nat /\ 0 \in Versions
      /\ configs \in Entry \cup {None} /\ derived \in [Derived -> Entry \cup {None}]
      /\ config \in [Tasks -> Entry] /\ superseded \in [Versions -> 0 .. TTL]
      /\ elapsed \in [Tasks -> 0 .. TTL] /\ TTL \in Nat /\ version \in Versions
      /\ dated \in [Tasks -> Versions]
  BY DEF TypeOK, Versions, DatedAssumption
<1>b. UNCHANGED <<version, superseded>>
  BY Zenon DEF Step, Request, StartRequest, StartMain, StatHosts, ReadHosts, KeepHosts, Derive,
    EndRequest, Act, StartAction, ActionExists, ActionStat, ActionStore, EndAction, EndFailed,
    GetConfig, Exists, StatCached, ReadConfig, StatConfig, StoreConfig, file
<1>1. configs' # None => Whole(configs)'
  <2>1. CASE StoreConfig(t)
    <3>1. got[t] = seen[t] /\ got[t] <= version
      BY <2>1 DEF StoreConfig, ReadIsDated, ReadTask
    <3>2. CASE configs' = [mtime |-> seen[t], content |-> got[t]]
      BY <1>b, <3>1, <3>2 DEF Whole
    <3>3. CASE configs' = Empty
      BY <1>a, <1>b, <3>3 DEF Whole, Empty
    <3>4. CASE configs' = configs
      BY <1>b, <3>4 DEF KeptIsDated, Whole
    <3> QED BY <2>1, <3>2, <3>3, <3>4 DEF StoreConfig
  <2>2. CASE ~StoreConfig(t)
    <3>1. UNCHANGED configs
      BY <2>2 DEF Step, Request, StartRequest, StartMain, StatHosts, ReadHosts, KeepHosts, Derive,
        EndRequest, Act, StartAction, ActionExists, ActionStat, ActionStore, EndAction, EndFailed,
        GetConfig, Exists, StatCached, ReadConfig, StatConfig
    <3> QED BY <1>b, <3>1 DEF KeptIsDated, Whole
  <2> QED BY <2>1, <2>2
<1>2. ASSUME NEW d \in Derived, derived'[d] # None PROVE Whole(derived[d])'
  <2>1. CASE \E e \in Derived : Derive(t, e)
    BY <1>a, <1>b, <1>2, <2>1 DEF Derive, KeptIsDated, ReadIsDated, ReadTask, Whole
  <2>2. CASE ~\E e \in Derived : Derive(t, e)
    <3>1. UNCHANGED derived
      BY <2>2 DEF Step, Request, StartRequest, StartMain, StatHosts, ReadHosts, KeepHosts,
        EndRequest, Act, StartAction, ActionExists, ActionStat, ActionStore, EndAction, EndFailed,
        GetConfig, Exists, StatCached, ReadConfig, StatConfig, StoreConfig
    <3> QED BY <1>b, <1>2, <3>1 DEF KeptIsDated, Whole
  <2> QED BY <2>1, <2>2
<1>3. ASSUME action' # None
      PROVE  /\ action'.mtime <= action'.content /\ action'.content \in 1 .. version
             /\ RecentFor(action.content, action.checked)'
  <2>1. CASE ActionStat(t) /\ action' # action
    <3>1. /\ action # None /\ action' = [action EXCEPT !.checked = elapsed[t]]
          /\ action.mtime = version
      BY <2>1 DEF ActionStat, SameAction, SameDate
    <3>2. action \in [mtime : Versions, content : Versions, checked : 0 .. TTL]
      BY <3>1 DEF TypeOK
    <3>3. action.content = version
      BY <1>a, <3>1, <3>2 DEF KeptIsDated
    <3>4. action'.content = version /\ action'.mtime = version /\ action'.checked = elapsed[t]
      BY <3>1, <3>2, <3>3
    <3>5. \A v \in Versions : v >= version => superseded[v] <= elapsed[t]
      BY <1>a DEF CurrentIsNew
    <3> QED BY <1>a, <1>b, <3>4, <3>5 DEF RecentFor
  <2>2. CASE ActionStore(t)
    <3>1. kind[t] = "action" /\ pc[t] = "act_store" /\ config[t] # Empty
      BY <1>3, <2>2 DEF ActionStore, Kinded, KindedTask
    <3>2. /\ action'.mtime = dated[t] /\ action'.content = config[t].content
          /\ action'.checked = elapsed[t]
      BY <2>2, <3>1 DEF ActionStore, ActionDate
    <3>3. /\ RecentFor(config[t].content, elapsed[t]) /\ dated[t] <= config[t].content
          /\ Whole(config[t])
      BY <3>1 DEF ReadIsRecent, RecentTask, ReadIsDated, ReadTask
    <3>4. config[t].content \in 1 .. version
      <4>1. config[t] \in Entry
        BY <1>a
      <4>2. config[t].content # 0
        BY <3>1, <3>3, <4>1, EmptyEntry DEF Whole
      <4>3. config[t].content \in Nat
        BY <1>a, <4>1 DEF Entry
      <4> QED BY <1>a, <3>3, <4>2, <4>3 DEF Whole
    <3> QED BY <1>b, <3>2, <3>3, <3>4 DEF RecentFor
  <2>3. CASE action' = action
    BY <1>b, <1>3, <2>3 DEF KeptIsDated, RecentFor
  <2>4. CASE ActionExists(t) /\ action' # action
    BY <1>3, <2>4 DEF ActionExists
  <2> QED
    BY <2>1, <2>2, <2>3, <2>4 DEF Step, Request, StartRequest, StartMain, StatHosts, ReadHosts,
      KeepHosts, Derive, EndRequest, Act, StartAction, EndAction, EndFailed, GetConfig, Exists,
      StatCached, ReadConfig, StatConfig, StoreConfig
<1> QED
  BY <1>1, <1>2, <1>3, <1>b DEF KeptIsDated

\* What a step of a task reads and returns is current.
LEMMA StepRead ==
  ASSUME DatedAssumption, CurrentInv, NEW t \in Tasks, Step(t)
  PROVE  ReadTask(t)'
<1> USE DEF CurrentInv, DatedTyped, At, Goto
<1>a. /\ version \in Nat \ {0} /\ Versions \subseteq Nat /\ 0 \in Versions
      /\ kind \in [Tasks -> Kinds \cup {None}] /\ pc \in [Tasks -> PC]
      /\ cached \in [Tasks -> Entry \cup HostsEntry \cup {None}]
      /\ got \in [Tasks -> Versions \cup 1 .. MaxHosts]
      /\ seen \in [Tasks -> Versions \cup 1 .. MaxHosts]
      /\ config \in [Tasks -> Entry] /\ floor \in [Tasks -> Versions]
      /\ version \in Versions
      /\ configs \in Entry \cup {None} /\ derived \in [Derived -> Entry \cup {None}]
  BY SMTT(40) DEF TypeOK, Versions, DatedAssumption
<1>b. ReadTask(t) /\ KindedTask(t) /\ floor[t] <= version
  BY DEF Kinded, ReadIsDated
<1>v. UNCHANGED version
  BY Zenon DEF Step, Request, StartRequest, StartMain, StatHosts, ReadHosts, KeepHosts, Derive,
    EndRequest, Act, StartAction, ActionExists, ActionStat, ActionStore, EndAction, EndFailed,
    GetConfig, Exists, StatCached, ReadConfig, StatConfig, StoreConfig, file
<1>c. \A l : Finish(t, l) /\ l \in {"idle", "failed"} => ReadTask(t)'
  BY <1>a DEF Finish, ReadTask
<1>d. \A c \in Entry :
        /\ Return(t, c) /\ pc[t] \in InGetConfig /\ UNCHANGED <<kind, floor>>
        /\ c # Empty => Whole(c) /\ c.content >= floor[t]
        => ReadTask(t)'
  BY <1>a, <1>b, <1>v, CallerIs DEF Return, KindedTask, ReadTask, Whole
<1>1. ASSUME Exists(t) PROVE ReadTask(t)'
  <2>1. CASE present
    BY <1>1, <2>1, <1>a, <1>b, <1>v DEF Exists, ReadTask, KeptIsDated, Whole
  <2>2. CASE ~present
    BY <1>1, <2>2, <1>a, <1>b, <1>d, <1>v, ZeroTyped
    DEF Exists, NoConfig, IgnoreError, ReadTask, InGetConfig
  <2> QED BY <2>1, <2>2
<1>2. ASSUME StatCached(t) PROVE ReadTask(t)'
  <2>1. CASE IsCurrent(t) /\ Return(t, cached[t]) /\ UNCHANGED <<kind, floor>>
    <3>1. cached[t] \in Entry /\ Whole(cached[t]) /\ pc[t] = "stat_cached"
      BY <1>2, <1>b DEF StatCached, ReadTask, KindedTask
    <3>2. cached[t].content >= floor[t]
      BY <1>a, <1>b, <2>1, <3>1 DEF IsCurrent, Whole
    <3> QED BY <2>1, <3>1, <3>2, <1>d DEF InGetConfig
  <2>2. CASE Goto(t, "read")
    BY <2>2, <1>a DEF ReadTask
  <2> QED BY <1>2, <1>c, <2>1, <2>2 DEF StatCached
<1>3. ASSUME ReadConfig(t) PROVE ReadTask(t)'
  BY <1>3, <1>a, <1>b, <1>c, <1>v DEF ReadConfig, ReadTask
<1>4. ASSUME StatConfig(t) PROVE ReadTask(t)'
  BY <1>4, <1>a, <1>b, <1>c, <1>v DEF StatConfig, ReadTask
<1>5. ASSUME StoreConfig(t) PROVE ReadTask(t)'
  <2>1. /\ pc[t] = "store" /\ got[t] = seen[t] /\ got[t] \in floor[t] .. version
        /\ got[t] \in Versions /\ UNCHANGED <<kind, floor>>
    BY <1>5, <1>b DEF StoreConfig, ReadTask, KindedTask
  <2>2. CASE Return(t, [mtime |-> seen[t], content |-> got[t]])
    <3> DEFINE c == [mtime |-> seen[t], content |-> got[t]]
    <3>1. c \in Entry /\ Whole(c) /\ c.content >= floor[t]
      BY <1>a, <2>1, ZeroTyped DEF Whole
    <3>2. Return(t, c)
      BY <2>2
    <3> HIDE DEF c
    <3> QED BY <1>d, <2>1, <3>1, <3>2 DEF InGetConfig
  <2>3. CASE Return(t, Empty)
    BY <1>d, <2>1, <2>3, ZeroTyped DEF InGetConfig
  <2>4. CASE UNCHANGED pc
    BY <1>5, <1>b, <1>v, <2>1, <2>4 DEF StoreConfig, ReadTask
  <2> QED BY <1>5, <2>2, <2>3, <2>4 DEF StoreConfig, NoConfig
<1>6. ASSUME StartRequest(t) \/ StartMain(t) \/ StatHosts(t) \/ KeepHosts(t) \/ ReadHosts(t)
      PROVE  ReadTask(t)'
  BY <1>6, <1>a, <1>c DEF StartRequest, StartMain, StatHosts, KeepHosts, UseHosts, ReadHosts,
     ReadTask
<1>7. ASSUME NEW d \in Derived, Derive(t, d) PROVE ReadTask(t)'
  <2>1. /\ pc[t] = "derive" /\ config[t] # Empty /\ Whole(config[t])
        /\ config[t].content >= floor[t]
    BY <1>7, <1>b DEF Derive, ReadTask
  <2>2. derived'[d].content = config[t].content
    BY <1>7, <1>a, <2>1 DEF Derive, UpToDate, KeptIsDated, Whole
  <2>3. /\ pc'[t] = "answer" /\ got'[t] = config[t].content
        /\ UNCHANGED <<config, floor, kind>>
    BY <1>7, <1>a, <2>2 DEF Derive
  <2> QED BY <1>v, <2>1, <2>3 DEF ReadTask, Whole
<1>8. ASSUME EndRequest(t) \/ EndAction(t) PROVE ReadTask(t)'
  BY <1>8, <1>c DEF EndRequest, EndAction
<1>9. ASSUME StartAction(t) PROVE ReadTask(t)'
  <2>1. CASE pc'[t] = "act_exists"
    <3>1. cached[t] = None
      BY <1>9, <1>b DEF StartAction, KindedTask
    <3>2. cached'[t] # None =>
            action # None /\ cached'[t] = [mtime |-> action.mtime, content |-> action.content]
      BY <1>9, <1>a, <3>1 DEF StartAction
    <3>3. cached'[t] # None =>
            cached'[t].mtime <= cached'[t].content /\ cached'[t].content <= version
      BY <1>a, <3>2 DEF KeptIsDated
    <3> QED BY <1>v, <2>1, <3>3 DEF ReadTask
  <2>2. CASE pc'[t] # "act_exists"
    <3>1. /\ action # None /\ ~MustCheck /\ floor'[t] = Expected /\ pc'[t] = "act_run"
          /\ config'[t].content = action.content
      BY <1>9, <1>a, <2>2 DEF StartAction
    <3>2. /\ action.content \in 1 .. version /\ RecentFor(action.content, action.checked)
          /\ action.checked \in 0 .. TTL - 1
      <4>1. action.checked \in 0 .. TTL
        BY <3>1 DEF TypeOK
      <4> QED BY <3>1, <4>1 DEF KeptIsDated, MustCheck, DatedAssumption
    <3>3. \A v \in Versions : superseded[v] >= TTL => v \in 1 .. action.content - 1
      <4>1. ASSUME NEW v \in Versions, superseded[v] >= TTL PROVE v \in 1 .. action.content - 1
        <5>1. superseded[v] \in 0 .. TTL /\ v \in Nat /\ TTL \in Nat \ {0}
          BY <1>a DEF TypeOK, DatedAssumption
        <5>2. v # 0
          BY <4>1, <5>1 DEF CurrentIsNew
        <5>3. ~(v >= action.content)
          BY <3>2, <4>1, <5>1 DEF RecentFor
        <5> QED BY <3>2, <5>1, <5>2, <5>3
      <4> QED BY <4>1
    <3>4. Expected \in 1 .. action.content
      BY <3>2, <3>3, ExpectedBound
    <3> QED BY <3>1, <3>2, <3>4 DEF ReadTask
  <2> QED BY <2>1, <2>2
<1>10. ASSUME ActionExists(t) PROVE ReadTask(t)'
  BY <1>10, <1>a, <1>b, <1>c, <1>v DEF ActionExists, ReadTask, local
<1>11. ASSUME ActionStat(t) PROVE ReadTask(t)'
  <2>1. CASE SameDate(t) /\ Goto(t, "act_run") /\ config' = [config EXCEPT ![t] = cached[t]]
             /\ UNCHANGED floor
    <3>1. pc[t] = "act_stat" /\ cached[t] # None /\ cached[t].mtime = version
      BY <1>11, <2>1 DEF ActionStat, SameDate
    <3>2. cached[t] \in Entry /\ cached[t].content >= version
      BY <1>a, <1>b, <3>1 DEF ReadTask, KindedTask, Entry
    <3>3. cached[t].content >= floor[t]
      <4>1. cached[t].content \in Nat /\ floor[t] \in Nat
        BY <1>a, <3>2 DEF Entry
      <4> QED BY <1>a, <1>b, <3>2, <4>1
    <3> QED BY <1>a, <2>1, <3>3 DEF ReadTask
  <2>2. CASE Goto(t, "exists")
    BY <2>2, <1>a DEF ReadTask
  <2> QED BY <1>11, <1>c, <2>1, <2>2 DEF ActionStat
<1>12. ASSUME ActionStore(t) PROVE ReadTask(t)'
  BY <1>12, <1>a, <1>b, <1>c, <1>v DEF ActionStore, ReadTask, local
<1>13. ASSUME EndFailed(t) PROVE ReadTask(t)'
  BY <1>13, <1>a DEF EndFailed, ReadTask
<1> QED
  BY <1>1, <1>2, <1>3, <1>4, <1>5, <1>6, <1>7, <1>8, <1>9, <1>10, <1>11, <1>12, <1>13
  DEF Step, Request, Act, GetConfig

\* What an action reads is not older than when it asked for the time.
LEMMA StepRecent ==
  ASSUME DatedAssumption, CurrentInv, NEW t \in Tasks, Step(t)
  PROVE  RecentTask(t)'
<1> USE DEF CurrentInv, DatedTyped, At, Goto
<1>a. /\ version \in Nat \ {0} /\ Versions \subseteq Nat /\ 0 \in Versions
      /\ kind \in [Tasks -> Kinds \cup {None}] /\ pc \in [Tasks -> PC]
      /\ cached \in [Tasks -> Entry \cup HostsEntry \cup {None}]
      /\ got \in [Tasks -> Versions \cup 1 .. MaxHosts]
      /\ config \in [Tasks -> Entry] /\ dated \in [Tasks -> Versions]
      /\ elapsed \in [Tasks -> 0 .. TTL] /\ TTL \in Nat
      /\ version \in Versions /\ superseded \in [Versions -> 0 .. TTL]
  BY VersionsAreNat DEF TypeOK, DatedAssumption
<1>b. RecentTask(t) /\ ReadTask(t) /\ KindedTask(t)
  BY DEF Kinded, ReadIsDated, ReadIsRecent
<1>v. UNCHANGED <<version, superseded>>
  BY Zenon DEF Step, Request, StartRequest, StartMain, StatHosts, ReadHosts, KeepHosts, Derive,
    EndRequest, Act, StartAction, ActionExists, ActionStat, ActionStore, EndAction, EndFailed,
    GetConfig, Exists, StatCached, ReadConfig, StatConfig, StoreConfig, file
<1>c. \A l : Finish(t, l) /\ l \in {"idle", "failed"} => RecentTask(t)'
  BY <1>a DEF Finish, RecentTask, InGetConfig
<1>d. \A n \in 0 .. TTL : RecentFor(version, n)
  BY <1>a DEF CurrentIsNew, RecentFor
<1>e. \A c \in Entry :
        /\ Return(t, c) /\ pc[t] \in InGetConfig /\ UNCHANGED <<kind, dated, elapsed>>
        /\ c # Empty /\ kind[t] = "action" =>
             RecentFor(c.content, elapsed[t]) /\ dated[t] <= c.content
        => RecentTask(t)'
  BY <1>a, <1>b, <1>v, CallerIs DEF Return, RecentTask, RecentFor, InGetConfig
<1>1. ASSUME Exists(t) PROVE RecentTask(t)'
  <2>1. CASE present
    BY <1>1, <2>1, <1>a, <1>b, <1>v DEF Exists, RecentTask, InGetConfig
  <2>2. CASE ~present
    BY <1>1, <2>2, <1>b, <1>e, <1>v, ZeroTyped
    DEF Exists, NoConfig, IgnoreError, RecentTask, InGetConfig
  <2> QED BY <2>1, <2>2
<1>2. ASSUME StatCached(t) PROVE RecentTask(t)'
  <2>1. CASE IsCurrent(t) /\ Return(t, cached[t]) /\ UNCHANGED <<kind, dated, elapsed>>
    <3>1. cached[t] \in Entry /\ cached[t].content = version /\ pc[t] = "stat_cached"
      BY <1>2, <1>b, <2>1 DEF StatCached, IsCurrent, ReadTask, KindedTask, Whole
    <3>2. kind[t] = "action" =>
            RecentFor(cached[t].content, elapsed[t]) /\ dated[t] <= cached[t].content
      BY <1>a, <1>b, <1>d, <3>1 DEF RecentTask, InGetConfig
    <3> QED BY <2>1, <3>1, <3>2, <1>e DEF InGetConfig
  <2>2. CASE Goto(t, "read") /\ UNCHANGED local
    <3>1. pc[t] = "stat_cached"
      BY <1>2 DEF StatCached
    <3> QED BY <2>2, <3>1, <1>a, <1>b, <1>v DEF RecentTask, InGetConfig, local
  <2> QED BY <1>2, <1>c, <2>1, <2>2 DEF StatCached
<1>3. ASSUME ReadConfig(t) PROVE RecentTask(t)'
  <2>1. CASE got' = [got EXCEPT ![t] = version] /\ Goto(t, "stat")
             /\ UNCHANGED <<kind, elapsed, dated>>
    <3>1. /\ pc[t] = "read" /\ pc'[t] = "stat" /\ got'[t] = version
      BY <1>3, <2>1, <1>a DEF ReadConfig
    <3>2. kind[t] = "action" => RecentFor(version, elapsed[t]) /\ dated[t] <= version
      BY <1>a, <1>b, <1>d, <3>1 DEF RecentTask, InGetConfig
    <3> QED BY <1>v, <2>1, <3>1, <3>2 DEF RecentTask, RecentFor
  <2> QED BY <1>3, <1>c, <2>1 DEF ReadConfig
<1>4. ASSUME StatConfig(t) PROVE RecentTask(t)'
  <2>1. CASE Goto(t, "store") /\ UNCHANGED <<kind, elapsed, dated, got>>
    <3>1. pc[t] = "stat" /\ pc'[t] = "store"
      BY <1>4, <2>1, <1>a DEF StatConfig
    <3> QED BY <1>b, <1>v, <2>1, <3>1 DEF RecentTask, RecentFor, InGetConfig
  <2> QED BY <1>4, <1>c, <2>1 DEF StatConfig
<1>5. ASSUME StoreConfig(t) PROVE RecentTask(t)'
  <2>1. /\ pc[t] = "store" /\ got[t] \in Versions /\ seen[t] = got[t]
        /\ UNCHANGED <<kind, dated, elapsed, got>>
    BY <1>5, <1>b DEF StoreConfig, ReadTask, KindedTask
  <2>2. CASE Return(t, [mtime |-> seen[t], content |-> got[t]])
    <3> DEFINE c == [mtime |-> seen[t], content |-> got[t]]
    <3>1. c \in Entry /\ c.content = got[t]
      BY <2>1, ZeroTyped
    <3>2. kind[t] = "action" => RecentFor(c.content, elapsed[t]) /\ dated[t] <= c.content
      BY <1>b, <2>1, <3>1 DEF RecentTask
    <3>3. Return(t, c)
      BY <2>2
    <3> HIDE DEF c
    <3> QED BY <1>e, <2>1, <3>1, <3>2, <3>3 DEF InGetConfig
  <2>3. CASE Return(t, Empty)
    BY <1>e, <2>1, <2>3, ZeroTyped DEF InGetConfig
  <2>4. CASE UNCHANGED pc
    BY <1>b, <1>v, <2>1, <2>4 DEF RecentTask, RecentFor, InGetConfig
  <2> QED BY <1>5, <2>2, <2>3, <2>4 DEF StoreConfig, NoConfig
<1>6. ASSUME Request(t) PROVE RecentTask(t)'
  <2>1. kind'[t] # "action" \/ pc'[t] \notin InGetConfig \cup {"act_store"}
    BY <1>6, <1>a, <1>b
    DEF Request, StartRequest, StartMain, StatHosts, KeepHosts, UseHosts, ReadHosts, Derive,
        EndRequest, Finish, KindedTask, InGetConfig
  <2> QED BY <2>1 DEF RecentTask, InGetConfig
<1>7. ASSUME StartAction(t) \/ EndAction(t) PROVE RecentTask(t)'
  BY <1>7, <1>a, <1>c DEF StartAction, EndAction, RecentTask, InGetConfig
<1>8. ASSUME ActionExists(t) PROVE RecentTask(t)'
  BY <1>8, <1>a, <1>c DEF ActionExists, RecentTask, InGetConfig
<1>9. ASSUME ActionStat(t) PROVE RecentTask(t)'
  <2>1. CASE Goto(t, "act_run")
    BY <2>1, <1>a DEF RecentTask, InGetConfig
  <2>2. CASE Goto(t, "exists") /\ dated' = [dated EXCEPT ![t] = version]
    BY <2>2, <1>a, <1>v DEF RecentTask
  <2> QED BY <1>9, <1>c, <2>1, <2>2 DEF ActionStat
<1>10. ASSUME ActionStore(t) PROVE RecentTask(t)'
  BY <1>10, <1>a, <1>c DEF ActionStore, RecentTask, InGetConfig
<1>11. ASSUME EndFailed(t) PROVE RecentTask(t)'
  BY <1>11, <1>a DEF EndFailed, RecentTask, InGetConfig
<1> QED
  BY <1>1, <1>2, <1>3, <1>4, <1>5, <1>6, <1>7, <1>8, <1>9, <1>10, <1>11
  DEF Step, Act, GetConfig

\* A write between two steps makes nothing older than it is, and time makes what is kept
\* and what waits older alike.
LEMMA OutsideCurrent ==
  ASSUME DatedAssumption, Undisturbed, CurrentInv, Outside
  PROVE  KeptIsDated' /\ ReadIsDated' /\ ReadIsRecent'
<1> USE DEF CurrentInv, DatedTyped
<1>a. /\ version \in Nat \ {0} /\ Versions \subseteq Nat
      /\ configs \in Entry \cup {None} /\ derived \in [Derived -> Entry \cup {None}]
      /\ got \in [Tasks -> Versions \cup 1 .. MaxHosts]
      /\ cached \in [Tasks -> Entry \cup HostsEntry \cup {None}]
      /\ config \in [Tasks -> Entry] /\ dated \in [Tasks -> Versions]
      /\ action \in [mtime : Versions, content : Versions, checked : 0 .. TTL] \cup {None}
      /\ elapsed \in [Tasks -> 0 .. TTL] /\ TTL \in Nat \ {0}
      /\ superseded \in [Versions -> 0 .. TTL]
      /\ \A t \in Tasks : KindedTask(t) /\ floor[t] \in Nat
  BY DEF TypeOK, Versions, DatedAssumption, Kinded
<1>1. CASE Edit
  <2>1. /\ version' = version + 1 /\ \A t \in Tasks : pc[t] # "stat"
        /\ UNCHANGED <<superseded, configs, derived, action, pc, local>>
    BY <1>1 DEF Edit, Undisturbed
  <2>2. ASSUME NEW e \in Entry, Whole(e) PROVE Whole(e)'
    <3>1. e.content \in Nat
      BY <1>a DEF Entry
    <3> QED BY <1>a, <2>1, <2>2, <3>1 DEF Whole
  <2>3. KeptIsDated'
    <3>1. configs' # None => Whole(configs)'
      BY <1>a, <2>1, <2>2 DEF KeptIsDated, Whole
    <3>2. \A d \in Derived : derived'[d] # None => Whole(derived[d])'
      BY <1>a, <2>1, <2>2 DEF KeptIsDated, Whole
    <3> QED BY <1>a, <2>1, <3>1, <3>2 DEF KeptIsDated, RecentFor
  <2>4. ASSUME NEW t \in Tasks PROVE ReadTask(t)' /\ RecentTask(t)'
    <3>1. ReadTask(t) /\ RecentTask(t) /\ KindedTask(t)
      BY <1>a DEF ReadIsDated, ReadIsRecent
    <3>2. pc[t] \in {"act_exists", "act_stat"} /\ cached[t] # None =>
            cached[t].mtime <= cached[t].content /\ cached[t].content <= version + 1
      <4>1. cached[t] \in Entry => cached[t].content \in Nat
        BY <1>a DEF Entry
      <4> QED BY <1>a, <3>1, <4>1 DEF ReadTask, KindedTask
    <3>3. pc[t] = "stat_cached" => Whole(cached[t])'
      BY <2>1, <2>2, <3>1 DEF ReadTask, KindedTask, Whole, local
    <3>4. pc[t] \in {"derive", "answer", "act_store"} /\ config[t] # Empty => Whole(config[t])'
      BY <1>a, <2>1, <2>2, <3>1 DEF ReadTask, Whole, local
    <3>5. pc[t] = "store" => got[t] \in floor[t] .. version + 1
      BY <1>a, <3>1 DEF ReadTask
    <3>6. ReadTask(t)'
      BY <2>1, <3>1, <3>2, <3>3, <3>4, <3>5 DEF ReadTask, local
    <3>7. RecentTask(t)'
      <4>1. UNCHANGED <<pc, kind, superseded, got, elapsed, dated, config>>
        BY <2>1 DEF local
      <4>2. dated[t] <= version => dated[t] <= version'
        <5>1. dated[t] \in Nat /\ version \in Nat
          BY <1>a
        <5>2. version' = version + 1
          BY <2>1
        <5> QED BY <5>1, <5>2
      <4> QED BY <3>1, <4>1, <4>2 DEF RecentTask, RecentFor
    <3> QED BY <3>6, <3>7
  <2> QED BY <2>3, <2>4 DEF ReadIsDated, ReadIsRecent
<1>2. CASE EditHosts \/ RemoveOrRestore \/ UNCHANGED vars
  <2>1. UNCHANGED <<version, superseded, configs, derived, action, pc, local>>
    BY <1>2 DEF EditHosts, RemoveOrRestore, vars, file
  <2> QED
    BY <2>1 DEF KeptIsDated, ReadIsDated, ReadIsRecent, ReadTask, RecentTask, RecentFor, Whole,
       local
<1>3. CASE Tick
  <2>1. /\ superseded' = [v \in Versions |->
             IF v \in 1 .. (version - 1) THEN Older(superseded[v]) ELSE superseded[v]]
        /\ action' = IF action = None THEN None ELSE [action EXCEPT !.checked = Older(@)]
        /\ elapsed' = [t \in Tasks |-> IF kind[t] = "action" THEN Older(elapsed[t]) ELSE 0]
        /\ UNCHANGED <<version, configs, derived, pc, kind, floor, cached, got, seen, dated,
                       config>>
    BY <1>3 DEF Tick
  <2>2. ASSUME NEW n \in 0 .. TTL, NEW c, RecentFor(c, n)
        PROVE  \A v \in Versions : v >= c => superseded'[v] <= Older(n)
    BY <1>a, <2>1, <2>2 DEF RecentFor, Older
  <2>3. KeptIsDated'
    <3>1. action' # None =>
            /\ action'.mtime <= action'.content /\ action'.content \in 1 .. version
            /\ RecentFor(action.content, action.checked)'
      <4>1. CASE action # None
        <5>1. /\ action'.mtime = action.mtime /\ action'.content = action.content
              /\ action'.checked = Older(action.checked) /\ action.checked \in 0 .. TTL
          BY <1>a, <2>1, <4>1
        <5>2. RecentFor(action.content, action.checked)
          BY <4>1 DEF KeptIsDated
        <5>3. \A v \in Versions : v >= action.content => superseded'[v] <= Older(action.checked)
          BY <2>2, <5>1, <5>2
        <5> QED BY <2>1, <4>1, <5>1, <5>3 DEF KeptIsDated, RecentFor
      <4> QED BY <2>1, <4>1
    <3> QED BY <2>1, <3>1 DEF KeptIsDated, Whole
  <2>4. ASSUME NEW t \in Tasks PROVE ReadTask(t)'
    BY <2>1 DEF ReadIsDated, ReadTask, Whole
  <2>5. ASSUME NEW t \in Tasks, kind[t] = "action" PROVE RecentTask(t)'
    <3>1. RecentTask(t) /\ elapsed'[t] = Older(elapsed[t]) /\ elapsed[t] \in 0 .. TTL
      BY <1>a, <2>1, <2>5 DEF ReadIsRecent
    <3>2. pc[t] \in {"stat", "store"} =>
            \A v \in Versions : v >= got[t] => superseded'[v] <= Older(elapsed[t])
      BY <2>2, <2>5, <3>1 DEF RecentTask
    <3>3. pc[t] = "act_store" /\ config[t] # Empty =>
            \A v \in Versions : v >= config[t].content => superseded'[v] <= Older(elapsed[t])
      BY <2>2, <2>5, <3>1 DEF RecentTask
    <3> QED BY <2>1, <2>5, <3>1, <3>2, <3>3 DEF RecentTask, RecentFor
  <2>6. ASSUME NEW t \in Tasks PROVE RecentTask(t)'
    BY <2>1, <2>5 DEF RecentTask
  <2> QED BY <2>3, <2>4, <2>6 DEF ReadIsDated, ReadIsRecent
<1> QED
  BY <1>1, <1>2, <1>3 DEF Outside

\* Every step keeps the invariant, unless a file is written between the read and the stat
\* of a load.
LEMMA NextCurrent ==
  ASSUME DatedAssumption, Undisturbed, CurrentInv, [Next]_vars
  PROVE  CurrentInv'
<1>1. DatedTyped'
  BY NextDated DEF CurrentInv
<1>2. ASSUME NEW t \in Tasks, Step(t) PROVE KeptIsDated' /\ ReadIsDated' /\ ReadIsRecent'
  <2>1. ASSUME NEW u \in Tasks PROVE ReadTask(u)' /\ RecentTask(u)'
    <3>1. CASE u = t
      BY <1>2, <3>1, StepRead, StepRecent
    <3>2. CASE u # t
      <4>1. Stays(u) /\ UNCHANGED <<version, superseded>>
        BY <1>2, <3>2, OthersStay DEF CurrentInv, DatedTyped, file
      <4>2. ReadTask(u) /\ RecentTask(u)
        BY DEF CurrentInv, ReadIsDated, ReadIsRecent
      <4> QED BY <4>1, <4>2 DEF ReadTask, RecentTask, RecentFor, Whole, Stays
    <3> QED BY <3>1, <3>2
  <2> QED BY <1>2, <2>1, StepKept DEF ReadIsDated, ReadIsRecent
<1> QED
  BY <1>1, <1>2, OutsideCurrent DEF CurrentInv, Next, Outside

LEMMA CurrentInvHolds ==
  ASSUME DatedAssumption, Undisturbed
  PROVE  Spec => []CurrentInv
<1>1. Init => CurrentInv
  BY InitDated
<1>2. CurrentInv /\ [Next]_vars => CurrentInv'
  BY NextCurrent
<1> QED
  BY <1>1, <1>2, PTL DEF Spec

LEMMA InvCurrent ==
  ASSUME DatedAssumption, CurrentInv
  PROVE  /\ TypeOK /\ HostsAreCurrent
         /\ ConfigIsCurrent /\ DerivedMatches /\ ActionLagIsBounded
<1>1. TypeOK /\ HostsAreCurrent
  BY DatedHosts DEF CurrentInv, DatedTyped
<1>2. ConfigIsCurrent /\ DerivedMatches /\ ActionLagIsBounded
  BY DEF CurrentInv, ReadIsDated, ReadTask, ConfigIsCurrent, DerivedMatches,
     ActionLagIsBounded
<1> QED
  BY <1>1, <1>2

\* get_config never returns a content that was replaced before it was called.
THEOREM ConfigStaysCurrent ==
  ASSUME DatedAssumption, Undisturbed PROVE Spec => []ConfigIsCurrent
<1>1. CurrentInv => ConfigIsCurrent
  BY InvCurrent
<1> QED
  BY <1>1, CurrentInvHolds, PTL

\* A request never works with a grid, filter or geometry made from another configuration.
THEOREM DerivedAlwaysMatches ==
  ASSUME DatedAssumption, Undisturbed PROVE Spec => []DerivedMatches
<1>1. CurrentInv => DerivedMatches
  BY InvCurrent
<1> QED
  BY <1>1, CurrentInvHolds, PTL

\* An action is at most one TTL older than the file, however many tasks look at it at once.
THEOREM ActionLagStaysBounded ==
  ASSUME DatedAssumption, Undisturbed PROVE Spec => []ActionLagIsBounded
<1>1. CurrentInv => ActionLagIsBounded
  BY InvCurrent
<1> QED
  BY <1>1, CurrentInvHolds, PTL
==============================================================================
