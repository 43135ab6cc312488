---------------------------- MODULE DatedCaches ----------------------------
(***************************************************************************)
(* What a process keeps of files that may change under it, each thing with *)
(* the modification time it was made from (__init__.py): the configuration *)
(* of a file, the grids and filters made from it, the hosts, and the       *)
(* actions of MultiAction, which look at the file only once per TTL.       *)
(*                                                                         *)
(* Asynchronous tasks serve requests (hosts, configuration, grid) or run   *)
(* actions (MultiAction); each step is what a task does between two        *)
(* awaits.  A version stands for a content and for its modification time.  *)
(***************************************************************************)
EXTENDS Naturals, FiniteSets

CONSTANTS
  Tasks,
  Kinds,         \* what the tasks do: a subset of {"serve", "main", "action"}
  Derived,       \* things made from the configuration: a grid, a filter, geometries
  TTL,           \* _cache_ttl_seconds, in ticks
  Troubles,      \* a subset of AllTroubles
  MaxVersion,    \* bound: contents of the configuration file
  MaxHosts,      \* bound: contents of the hosts file
  MaxRemovals,   \* bound: times the configuration file disappears or comes back
  None

\* write_while_read: the file is written between the read and the stat of a load.
\* invalid: a content that the validation refuses.
AllTroubles == {"write_while_read", "invalid"}

DatedAssumption ==
  /\ Kinds \subseteq {"serve", "main", "action"} /\ TTL \in Nat \ {0}
  /\ Troubles \subseteq AllTroubles
  /\ MaxVersion \in Nat \ {0} /\ MaxHosts \in Nat \ {0} /\ MaxRemovals \in Nat

VARIABLES
  version,    \* content and modification time of the configuration file
  valid,      \* contents that the validation accepts
  present,    \* the configuration file is there
  removals,
  superseded, \* [versions -> 0 .. TTL]: ticks since the version was replaced
  hostsVersion,
  listed,     \* contents of the hosts file that name a configuration for the host
  configs,    \* self.configs[file]: content and mtime
  derived,    \* [Derived -> the mtime and content it was made from]
  hostsCache, \* self.hosts_cache
  action,     \* MultiAction.actions[key]: mtime, content, checked (ticks ago)
  alive,      \* sys.exit was not called
  kind, pc,
  floor,      \* [Tasks -> versions]: what the task may at least expect (history)
  cached,     \* the cache entry the task found
  got,        \* the content it read
  seen,       \* the modification time it read
  elapsed,    \* ticks since MultiAction read the clock
  dated,      \* the modification time MultiAction read
  config      \* what get_config returned

file == <<version, valid, present, removals, superseded>>
hosts == <<hostsVersion, listed, hostsCache>>
local == <<kind, floor, cached, got, seen, elapsed, dated, config>>
vars == <<file, hosts, configs, derived, action, alive, pc, local>>

Versions == 0 .. MaxVersion
Entry == [mtime : Versions, content : Versions]
\* DatedConfig({}, 0, Path()): no file, or an invalid one.
Empty == [mtime |-> 0, content |-> 0]
PC == {"idle", "hosts", "hosts_read", "hosts_keep", "exists", "stat_cached", "read",
       "stat", "store", "derive", "answer",
       "act_exists", "act_stat", "act_store", "act_run", "failed"}
HostsEntry == [mtime : 0 .. MaxHosts, content : 0 .. MaxHosts]

TypeOK ==
  /\ version \in Versions \ {0} /\ valid \subseteq Versions /\ present \in BOOLEAN
  /\ removals \in 0 .. MaxRemovals
  /\ superseded \in [Versions -> 0 .. TTL]
  /\ hostsVersion \in 1 .. MaxHosts /\ listed \subseteq 1 .. MaxHosts
  /\ configs \in Entry \cup {None}
  /\ derived \in [Derived -> Entry \cup {None}]
  /\ hostsCache \in HostsEntry \cup {None}
  /\ action \in [mtime : Versions, content : Versions, checked : 0 .. TTL] \cup {None}
  /\ alive \in BOOLEAN
  /\ kind \in [Tasks -> Kinds \cup {None}] /\ pc \in [Tasks -> PC]
  /\ floor \in [Tasks -> Versions]
  /\ cached \in [Tasks -> Entry \cup HostsEntry \cup {None}]
  /\ got \in [Tasks -> Versions \cup 1 .. MaxHosts]
  /\ seen \in [Tasks -> Versions \cup 1 .. MaxHosts]
  /\ elapsed \in [Tasks -> 0 .. TTL] /\ dated \in [Tasks -> Versions]
  /\ config \in [Tasks -> Entry]

Init ==
  /\ version = 1 /\ valid = {1} /\ present = TRUE /\ removals = 0
  /\ superseded = [v \in Versions |-> 0]
  /\ hostsVersion = 1 /\ listed = {1} /\ hostsCache = None
  /\ configs = None /\ derived = [d \in Derived |-> None] /\ action = None
  /\ alive = TRUE
  /\ kind = [t \in Tasks |-> None] /\ pc = [t \in Tasks |-> "idle"]
  /\ floor = [t \in Tasks |-> 0] /\ cached = [t \in Tasks |-> None]
  /\ got = [t \in Tasks |-> 0] /\ seen = [t \in Tasks |-> 0]
  /\ elapsed = [t \in Tasks |-> 0] /\ dated = [t \in Tasks |-> 0]
  /\ config = [t \in Tasks |-> Empty]

\* The next step of a task in get_config, and what it returns to.
At(t, l) == alive /\ pc[t] = l
Goto(t, l) == pc' = [pc EXCEPT ![t] = l]
Caller(t) == CASE kind[t] = "serve" -> "derive"
               [] kind[t] = "main" -> "answer"
               [] kind[t] = "action" -> "act_store"
Return(t, c) == Goto(t, Caller(t)) /\ config' = [config EXCEPT ![t] = c]
\* A finished task forgets what it held.
Finish(t, l) ==
  /\ Goto(t, l)
  /\ kind' = [kind EXCEPT ![t] = None] /\ floor' = [floor EXCEPT ![t] = 0]
  /\ cached' = [cached EXCEPT ![t] = None] /\ got' = [got EXCEPT ![t] = 0]
  /\ seen' = [seen EXCEPT ![t] = 0] /\ elapsed' = [elapsed EXCEPT ![t] = 0]
  /\ dated' = [dated EXCEPT ![t] = 0] /\ config' = [config EXCEPT ![t] = Empty]

-----------------------------------------------------------------------------
(* get_config and _get_config.                                             *)

\* Without ignore_error, as for the main configuration, there is no way on: sys.exit.
IgnoreError(t) == kind[t] # "main"

NoConfig(t) ==
  \/ IgnoreError(t) /\ Return(t, Empty) /\ UNCHANGED alive
  \/ ~IgnoreError(t) /\ alive' = FALSE /\ UNCHANGED <<pc, config>>

\* exists() and is_file(), then the entry of self.configs is kept.
Exists(t) ==
  /\ At(t, "exists")
  /\ IF present
     THEN /\ cached' = [cached EXCEPT ![t] = configs]
          /\ Goto(t, IF configs = None THEN "read" ELSE "stat_cached")
          /\ UNCHANGED <<alive, config>>
     ELSE NoConfig(t) /\ UNCHANGED cached
  /\ UNCHANGED <<file, hosts, configs, derived, action, kind, floor, got, seen, elapsed,
                 dated>>

IsCurrent(t) == cached[t].mtime = version

\* stat() of the file, or FileNotFoundError when it is gone.
StatCached(t) ==
  /\ At(t, "stat_cached")
  /\ \/ /\ present /\ IsCurrent(t)
        /\ Return(t, cached[t]) /\ UNCHANGED <<kind, floor, cached, got, seen, elapsed, dated>>
     \/ present /\ ~IsCurrent(t) /\ Goto(t, "read") /\ UNCHANGED local
     \/ ~present /\ Finish(t, "failed")
  /\ UNCHANGED <<file, hosts, configs, derived, action, alive>>

\* A content that is not YAML raises as well.
ReadConfig(t) ==
  /\ At(t, "read")
  /\ \/ /\ present
        /\ got' = [got EXCEPT ![t] = version] /\ Goto(t, "stat")
        /\ UNCHANGED <<kind, floor, cached, seen, elapsed, dated, config>>
     \/ ~(present /\ version \in valid) /\ Finish(t, "failed")
  /\ UNCHANGED <<file, hosts, configs, derived, action, alive>>

\* The modification time is asked for after the content was read.
StatConfig(t) ==
  /\ At(t, "stat")
  /\ IF present
     THEN /\ seen' = [seen EXCEPT ![t] = version] /\ Goto(t, "store")
          /\ UNCHANGED <<kind, floor, cached, got, elapsed, dated, config>>
     ELSE Finish(t, "failed")
  /\ UNCHANGED <<file, hosts, configs, derived, action, alive>>

\* validate_config, and what get_config keeps and returns.
StoreConfig(t) ==
  /\ At(t, "store")
  /\ \/ LET c == [mtime |-> seen[t], content |-> got[t]] IN
        got[t] \in valid /\ configs' = c /\ Return(t, c) /\ UNCHANGED alive
     \/ /\ got[t] \notin valid /\ NoConfig(t)
        /\ configs' = IF IgnoreError(t) THEN Empty ELSE configs
  /\ UNCHANGED <<file, hosts, derived, action, kind, floor, cached, got, seen, elapsed,
                 dated>>

-----------------------------------------------------------------------------
(* A request: get_host_config, then a grid, a filter or geometries.        *)

StartRequest(t) ==
  /\ At(t, "idle") /\ "serve" \in Kinds
  /\ kind' = [kind EXCEPT ![t] = "serve"]
  /\ Goto(t, "hosts")
  /\ UNCHANGED <<file, hosts, configs, derived, action, alive, floor, cached, got, seen,
                 elapsed, dated, config>>

\* The hosts in use decide whether the host has a configuration.
UseHosts(t, content) ==
  IF content \in listed
  THEN /\ Goto(t, "exists") /\ floor' = [floor EXCEPT ![t] = version]
       /\ seen' = [seen EXCEPT ![t] = 0] /\ got' = [got EXCEPT ![t] = 0]
       /\ UNCHANGED <<kind, cached, elapsed, dated, config>>
  ELSE Finish(t, "idle")

\* get_main_config of a server has a file of its own and no host.
StartMain(t) ==
  /\ At(t, "idle") /\ "main" \in Kinds
  /\ kind' = [kind EXCEPT ![t] = "main"] /\ floor' = [floor EXCEPT ![t] = version]
  /\ Goto(t, "exists")
  /\ UNCHANGED <<file, hosts, configs, derived, action, alive, cached, got, seen, elapsed,
                 dated, config>>

StatHosts(t) ==
  /\ At(t, "hosts")
  /\ IF hostsCache # None /\ hostsCache.mtime = hostsVersion
     THEN UseHosts(t, hostsCache.content)
     ELSE /\ seen' = [seen EXCEPT ![t] = hostsVersion] /\ Goto(t, "hosts_read")
          /\ UNCHANGED <<kind, floor, cached, got, elapsed, dated, config>>
  /\ UNCHANGED <<file, hosts, configs, derived, action, alive>>

ReadHosts(t) ==
  /\ At(t, "hosts_read")
  /\ got' = [got EXCEPT ![t] = hostsVersion] /\ Goto(t, "hosts_keep")
  /\ UNCHANGED <<file, hosts, configs, derived, action, alive, kind, floor, cached, seen,
                 elapsed, dated, config>>

\* The date the hosts are kept with: the one before the read.
HostsDate(t) == seen[t]

KeepHosts(t) ==
  /\ At(t, "hosts_keep")
  /\ hostsCache' = [mtime |-> HostsDate(t), content |-> got[t]]
  /\ UseHosts(t, got[t])
  /\ UNCHANGED <<file, hostsVersion, listed, configs, derived, action, alive>>

\* get_grid, get_filter, get_geoms: made again when the configuration has another date.
\* Mutant: made once.
MadeOnce(d, c) == derived[d] # None
UpToDate(d, c) == derived[d] # None /\ derived[d].mtime = c.mtime

Derive(t, d) ==
  /\ At(t, "derive") /\ config[t] # Empty
  /\ derived' = IF UpToDate(d, config[t]) THEN derived
                                          ELSE [derived EXCEPT ![d] = config[t]]
  /\ got' = [got EXCEPT ![t] = derived'[d].content] /\ Goto(t, "answer")
  /\ UNCHANGED <<file, hosts, configs, action, alive, kind, floor, cached, seen, elapsed,
                 dated, config>>

EndRequest(t) ==
  /\ \/ At(t, "answer")
     \/ At(t, "derive") /\ config[t] = Empty
  /\ Finish(t, "idle")
  /\ UNCHANGED <<file, hosts, configs, derived, action, alive>>

-----------------------------------------------------------------------------
(* MultiAction.                                                            *)

\* The versions that were replaced at least TTL ago may not act any more.
Expected == Cardinality({v \in Versions : superseded[v] >= TTL}) + 1

\* Mutant: an action is looked at once only.
NeverChecked == FALSE
MustCheck == action.checked >= TTL

StartAction(t) ==
  /\ At(t, "idle") /\ "action" \in Kinds
  /\ kind' = [kind EXCEPT ![t] = "action"]
  /\ floor' = [floor EXCEPT ![t] = Expected]
  /\ elapsed' = [elapsed EXCEPT ![t] = 0]
  /\ IF action = None
     THEN Goto(t, "act_exists") /\ UNCHANGED <<cached, config>>
     ELSE LET a == [mtime |-> action.mtime, content |-> action.content] IN
          /\ cached' = [cached EXCEPT ![t] = a]
          /\ IF MustCheck THEN Goto(t, "act_exists") /\ UNCHANGED config
                          ELSE Goto(t, "act_run") /\ config' = [config EXCEPT ![t] = a]
  /\ UNCHANGED <<file, hosts, configs, derived, action, alive, got, seen, dated>>

ActionExists(t) ==
  /\ At(t, "act_exists")
  /\ IF present THEN Goto(t, "act_stat") /\ UNCHANGED <<action, local>>
                ELSE action' = None /\ Finish(t, "idle")
  /\ UNCHANGED <<file, hosts, configs, derived, alive>>

\* The same object may since have been replaced in the dictionary.
SameAction(t) ==
  action # None /\ cached[t] = [mtime |-> action.mtime, content |-> action.content]

SameDate(t) == cached[t] # None /\ cached[t].mtime = version

ActionStat(t) ==
  /\ At(t, "act_stat")
  /\ \/ ~present /\ Finish(t, "failed") /\ UNCHANGED action
     \/ /\ present /\ SameDate(t)
        /\ action' = IF SameAction(t) THEN [action EXCEPT !.checked = elapsed[t]]
                                      ELSE action
        /\ Goto(t, "act_run") /\ config' = [config EXCEPT ![t] = cached[t]]
        /\ UNCHANGED <<kind, floor, cached, got, seen, elapsed, dated>>
     \/ /\ present /\ ~SameDate(t)
        /\ dated' = [dated EXCEPT ![t] = version]
        /\ Goto(t, "exists")
        /\ UNCHANGED <<action, kind, floor, cached, got, seen, elapsed, config>>
  /\ UNCHANGED <<file, hosts, configs, derived, alive>>

\* A plausible error: the action is dated when it is ready.
DateWhenReady(t) == version

\* The date an action is kept with.
ActionDate(t) == dated[t]

\* get_action returned: without the layer there is no action.
ActionStore(t) ==
  /\ At(t, "act_store")
  /\ IF config[t] = Empty
     THEN action' = None /\ Finish(t, "idle")
     ELSE /\ action' = [mtime |-> ActionDate(t), content |-> config[t].content,
                        checked |-> elapsed[t]]
          /\ Goto(t, "act_run") /\ UNCHANGED local
  /\ UNCHANGED <<file, hosts, configs, derived, alive>>

EndAction(t) ==
  /\ At(t, "act_run") /\ Finish(t, "idle")
  /\ UNCHANGED <<file, hosts, configs, derived, action, alive>>

\* The exception of a file that is gone ends the request or the tile only.
EndFailed(t) ==
  /\ At(t, "failed") /\ Goto(t, "idle")
  /\ UNCHANGED <<file, hosts, configs, derived, action, alive, local>>

-----------------------------------------------------------------------------
(* The files and the clock.                                                *)

Edit ==
  /\ version < MaxVersion
  /\ "write_while_read" \in Troubles \/ \A t \in Tasks : pc[t] # "stat"
  /\ version' = version + 1
  /\ \/ valid' = valid \cup {version + 1}
     \/ "invalid" \in Troubles /\ version + 1 < MaxVersion /\ UNCHANGED valid
  /\ UNCHANGED <<present, removals, superseded, hosts, configs, derived, action, alive, pc,
                 local>>

EditHosts ==
  /\ hostsVersion < MaxHosts
  /\ hostsVersion' = hostsVersion + 1
  /\ \/ listed' = listed \cup {hostsVersion + 1}
     \/ UNCHANGED listed
  /\ UNCHANGED <<file, hostsCache, configs, derived, action, alive, pc, local>>

RemoveOrRestore ==
  /\ removals < MaxRemovals /\ removals' = removals + 1 /\ present' = ~present
  /\ UNCHANGED <<version, valid, superseded, hosts, configs, derived, action, alive, pc,
                 local>>

Older(n) == IF n < TTL THEN n + 1 ELSE TTL

Tick ==
  /\ superseded' = [v \in Versions |->
                      IF v \in 1 .. (version - 1) THEN Older(superseded[v]) ELSE superseded[v]]
  /\ action' = IF action = None THEN None ELSE [action EXCEPT !.checked = Older(@)]
  /\ elapsed' = [t \in Tasks |-> IF kind[t] = "action" THEN Older(elapsed[t]) ELSE 0]
  /\ UNCHANGED <<version, valid, present, removals, hosts, configs, derived, alive, pc,
                 kind, floor, cached, got, seen, dated, config>>

-----------------------------------------------------------------------------
GetConfig(t) ==
  Exists(t) \/ StatCached(t) \/ ReadConfig(t) \/ StatConfig(t) \/ StoreConfig(t)
Request(t) ==
  \/ StartRequest(t) \/ StartMain(t) \/ StatHosts(t) \/ ReadHosts(t) \/ KeepHosts(t)
  \/ \E d \in Derived : Derive(t, d)
  \/ EndRequest(t)
Act(t) == StartAction(t) \/ ActionExists(t) \/ ActionStat(t) \/ ActionStore(t) \/ EndAction(t)
Step(t) == Request(t) \/ Act(t) \/ GetConfig(t) \/ EndFailed(t)

Next ==
  \/ \E t \in Tasks : Step(t)
  \/ Edit \/ EditHosts \/ RemoveOrRestore \/ Tick

Spec == Init /\ [][Next]_vars

\* Requests and tiles keep coming, what is under way goes on, and time passes.
Fairness == WF_vars(Tick) /\ \A t \in Tasks : WF_vars(Step(t))

FairSpec == Spec /\ Fairness

-----------------------------------------------------------------------------
(* What the caches must guarantee.                                         *)

\* get_config never returns a content that was replaced before it was called (holds
\* unless the file is written between the read and the stat of a load).
ConfigIsCurrent ==
  \A t \in Tasks : pc[t] \in {"derive", "answer"} /\ config[t] # Empty
                     => config[t].content >= floor[t]

\* A grid, filter or geometry that a request uses is made from its own configuration.
DerivedMatches ==
  \A t \in Tasks : pc[t] = "answer" /\ kind[t] = "serve" => got[t] = config[t].content

\* The hosts that are served without being read again are those of the file, whatever
\* happened to it while they were read.
HostsAreCurrent ==
  hostsCache # None /\ hostsCache.mtime = hostsVersion
    => hostsCache.content = hostsVersion

\* An action is at most TTL older than the file, also when it is looked at while others
\* replace it.
ActionLagIsBounded ==
  \A t \in Tasks : pc[t] = "act_run" => config[t].content >= floor[t]

\* Once nobody changes the file any more, everything works with its last content.
EventuallyCurrent ==
  <>[](\A t \in Tasks : pc[t] \in {"answer", "act_run"} => config[t].content = version)
=============================================================================
