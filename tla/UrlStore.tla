------------------------------ MODULE UrlStore ------------------------------
(***************************************************************************)
(* URLTileStore: the requests to the servers the tiles come from.  The     *)
(* requests to a host go through a semaphore, made on the first one with   *)
(* the limit of the hosts file or a default one, and never made again.     *)
(* One host, several tasks; a step is what a task does between two awaits, *)
(* but the file is looked at, opened and read in one.                      *)
(***************************************************************************)
EXTENDS Naturals, Sequences, FiniteSets

CONSTANTS
  Tasks,
  HostLimit,    \* the limit of the host in the hosts file
  FileDefault,  \* the default limit of the hosts file
  DefaultLimit, \* settings.host_concurrent
  MaxHostEdits  \* bound: edits of the hosts file

\* A limit of 0 lets nothing through.
UrlAssumption ==
  /\ {HostLimit, FileDefault, DefaultLimit} \subseteq Nat \ {0}
  /\ MaxHostEdits \in Nat

VARIABLES
  hostsFile,  \* its content
  hostsDate,  \* its mtime
  hostsLimit, \* _hosts_limit.config: a content, or "nothing" for {}
  hostsLimitDate, \* _hosts_limit.mtime
  semaphores, \* sequence of those made: their limit, holders and waiting tasks
  current,    \* the one in _hosts_semaphore, or 0
  pc,
  found,      \* [Tasks -> the limit of the host the first call found, or 0]
  faulty,     \* [Tasks -> BOOLEAN]: the content read breaks the schema
  sem,        \* [Tasks -> the semaphore the task uses]
  result

file == <<hostsFile, hostsDate>>
limits == <<hostsLimit, hostsLimitDate>>
look == <<found, faulty>>
vars == <<file, limits, semaphores, current, pc, look, sem, result>>

\* No file; a limit for the host, or for all; not as the schema says; no YAML.
Contents == {"absent", "host", "default", "invalid", "malformed"}
\* 404 or 204; any other answer or an aiohttp.ClientError; the timeout of the session.
Responses == {"gone", "answer", "timeout"}
\* None, an exception, or a tile with its data or an error.
Results == {"none", "missing", "raised", "tile"}
\* The two calls of _get_hosts_limit, each with the closing of the file it read.
Calls == {"host", "default"}
Closing == [host |-> "host_close", default |-> "default_close"]
PC == {"idle", "host", "host_close", "default", "default_close", "wait", "fetch", "done"}
Semaphore == [limit : Nat, holders : SUBSET Tasks, waiting : Seq(Tasks)]

TypeOK ==
  /\ hostsFile \in Contents /\ hostsDate \in 1 .. MaxHostEdits + 1
  /\ hostsLimit \in {"nothing", "host", "default", "invalid"}
  /\ hostsLimitDate \in 0 .. MaxHostEdits + 1
  /\ semaphores \in Seq(Semaphore) /\ current \in 0 .. Len(semaphores)
  /\ pc \in [Tasks -> PC] /\ sem \in [Tasks -> 0 .. Len(semaphores)]
  /\ found \in [Tasks -> {0, HostLimit}] /\ faulty \in [Tasks -> BOOLEAN]
  /\ result \in [Tasks -> Results]

Init ==
  /\ hostsFile \in Contents /\ hostsDate = 1
  /\ hostsLimit = "nothing" /\ hostsLimitDate = 0
  /\ semaphores = <<>> /\ current = 0
  /\ pc = [t \in Tasks |-> "idle"] /\ sem = [t \in Tasks |-> 0]
  /\ found = [t \in Tasks |-> 0] /\ faulty = [t \in Tasks |-> FALSE]
  /\ result = [t \in Tasks |-> "none"]

-----------------------------------------------------------------------------
\* asyncio.Semaphore: who finds it taken waits in line.
Free(s) == Cardinality(s.holders) < s.limit /\ s.waiting = <<>>
Queued(s, t) == IF Free(s) THEN [s EXCEPT !.holders = @ \cup {t}]
                           ELSE [s EXCEPT !.waiting = Append(@, t)]
\* Mutant: nobody is woken.
LeaveOnly(s, t) == [s EXCEPT !.holders = @ \ {t}]
PassOn(s, t) ==
  IF s.waiting = <<>> THEN [s EXCEPT !.holders = @ \ {t}]
  ELSE [s EXCEPT !.holders = (@ \ {t}) \cup {Head(s.waiting)}, !.waiting = Tail(@)]
\* Mutant: an exception leaves the semaphore taken.
TakenByError(s, t, r) == IF r = "raised" THEN s ELSE PassOn(s, t)
Released(s, t, r) == PassOn(s, t)

End(t, r) ==
  /\ result' = [result EXCEPT ![t] = r]
  /\ sem' = [sem EXCEPT ![t] = 0] /\ pc' = [pc EXCEPT ![t] = "done"]

Acquire(t, id, s) ==
  /\ semaphores' = [semaphores EXCEPT ![id] = Queued(s, t)]
  /\ sem' = [sem EXCEPT ![t] = id]
  /\ pc' = [pc EXCEPT ![t] = "wait"]

\* get_one, up to the semaphore of the host: the tile is out of the bounding pyramid, or
\* has no URL or one without a host, or the semaphore is there or must be made.
BeginGet(t) ==
  /\ pc[t] = "idle"
  /\ \/ /\ \E r \in {"missing", "tile", "raised"} : End(t, r)
        /\ UNCHANGED semaphores
     \/ current # 0 /\ Acquire(t, current, semaphores[current]) /\ UNCHANGED result
     \/ /\ current = 0 /\ pc' = [pc EXCEPT ![t] = "host"]
        /\ UNCHANGED <<semaphores, sem, result>>
  /\ UNCHANGED <<file, limits, current, look>>

-----------------------------------------------------------------------------
(* _get_hosts_limit, which get_one calls twice: for the limit of the host, *)
(* and, whatever that is, for the default.                                 *)

\* The semaphore is made, whether there is one by now or not.
MakeSemaphore(t, n) ==
  /\ semaphores' = Append(semaphores, [limit |-> n, holders |-> {t}, waiting |-> <<>>])
  /\ current' = Len(semaphores')
  /\ sem' = [sem EXCEPT ![t] = current']
  /\ pc' = [pc EXCEPT ![t] = "wait"]
  /\ found' = [found EXCEPT ![t] = 0]

HostOf(c) == IF c = "host" THEN HostLimit ELSE 0
DefaultOf(c) == IF c = "default" THEN FileDefault ELSE DefaultLimit

\* A call returns: what an invalid content has may be of a type that raises an exception.
Returns(t, call, c) ==
  \/ /\ c = "invalid" /\ End(t, "raised")
     /\ found' = [found EXCEPT ![t] = 0] /\ UNCHANGED <<semaphores, current>>
  \/ /\ call = "host"
     /\ pc' = [pc EXCEPT ![t] = "default"] /\ found' = [found EXCEPT ![t] = HostOf(c)]
     /\ UNCHANGED <<semaphores, current, sem, result>>
  \/ /\ call = "default"
     /\ MakeSemaphore(t, IF found[t] # 0 THEN found[t] ELSE DefaultOf(c)) /\ UNCHANGED result

\* The limits are still those of the file, or there is none any more.
ReturnKept(t, call) ==
  /\ pc[t] = call
  /\ hostsFile = "absent" \/ hostsLimitDate = hostsDate
  /\ Returns(t, call, hostsLimit)
  /\ UNCHANGED <<file, limits, faulty>>

\* They are read: kept before the file is closed, and only then dropped if they are faulty.
ReadLimits(t, call) ==
  /\ pc[t] = call
  /\ hostsFile # "absent" /\ hostsLimitDate # hostsDate
  /\ \/ /\ hostsFile = "malformed" /\ End(t, "raised")
        /\ found' = [found EXCEPT ![t] = 0] /\ UNCHANGED <<limits, faulty>>
     \/ /\ hostsFile # "malformed"
        /\ hostsLimit' = hostsFile /\ hostsLimitDate' = hostsDate
        /\ faulty' = [faulty EXCEPT ![t] = (hostsFile = "invalid")]
        /\ pc' = [pc EXCEPT ![t] = Closing[call]] /\ UNCHANGED <<found, sem, result>>
  /\ UNCHANGED <<file, semaphores, current>>

CloseFile(t, call) ==
  /\ pc[t] = Closing[call]
  /\ hostsLimit' = IF faulty[t] THEN "nothing" ELSE hostsLimit
  /\ faulty' = [faulty EXCEPT ![t] = FALSE]
  /\ Returns(t, call, hostsLimit')
  /\ UNCHANGED <<file, hostsLimitDate>>

GetHostsLimit(t) ==
  \E call \in Calls : ReturnKept(t, call) \/ ReadLimits(t, call) \/ CloseFile(t, call)

-----------------------------------------------------------------------------
Enter(t) ==
  /\ pc[t] = "wait" /\ t \in semaphores[sem[t]].holders
  /\ pc' = [pc EXCEPT ![t] = "fetch"]
  /\ UNCHANGED <<file, limits, semaphores, current, look, sem, result>>

\* What get_one makes of a response.  A timeout of the session is no ClientError.
Outcome(r) ==
  CASE r = "gone" -> "missing" [] r = "answer" -> "tile" [] r = "timeout" -> "raised"

EndFetch(t, r) ==
  /\ pc[t] = "fetch"
  /\ semaphores' = [semaphores EXCEPT ![sem[t]] = Released(@, t, Outcome(r))]
  /\ End(t, Outcome(r))
  /\ UNCHANGED <<file, limits, current, look>>

NextTile(t) ==
  /\ pc[t] = "done"
  /\ pc' = [pc EXCEPT ![t] = "idle"] /\ result' = [result EXCEPT ![t] = "none"]
  /\ UNCHANGED <<file, limits, semaphores, current, look, sem>>

EditHostsFile ==
  /\ hostsDate <= MaxHostEdits
  /\ hostsDate' = hostsDate + 1 /\ hostsFile' \in Contents
  /\ UNCHANGED <<limits, semaphores, current, pc, look, sem, result>>

GetOne(t) ==
  BeginGet(t) \/ GetHostsLimit(t) \/ Enter(t) \/ \E r \in Responses : EndFetch(t, r)

Next == EditHostsFile \/ \E t \in Tasks : GetOne(t) \/ NextTile(t)

Spec == Init /\ [][Next]_vars

\* The event loop runs every task, and every request ends, by the timeout if need be.
FairSpec == Spec /\ \A t \in Tasks : WF_vars(GetOne(t))

-----------------------------------------------------------------------------
(* What the store must guarantee.                                          *)

\* No permit of a semaphore is lost or given twice, whatever becomes of the requests and
\* however many semaphores are made: who holds one waits to enter or fetches, and nobody
\* waits in line while one is free.
PermitsAreKept ==
  \A i \in DOMAIN semaphores :
    LET s == semaphores[i] IN
    /\ Cardinality(s.holders) <= s.limit
    /\ \A t \in s.holders : sem[t] = i /\ pc[t] \in {"wait", "fetch"}
    /\ s.waiting # <<>> => Cardinality(s.holders) = s.limit
    /\ \A k \in DOMAIN s.waiting : sem[s.waiting[k]] = i /\ pc[s.waiting[k]] = "wait"

\* HOST_LIMIT.md:11 calls the limit of the file a "Limit of concurrent request on the
\* host".  Not so: tasks that look for the first semaphore together make one each.
AtMostLimit ==
  (hostsFile = "host" /\ hostsDate = 1)
    => Cardinality({t \in Tasks : pc[t] = "fetch"}) <= HostLimit

\* Who waits for the semaphore gets it, whatever becomes of the others.
EveryGetEnds ==
  \A t \in Tasks : pc[t] \notin {"idle", "done"} ~> pc[t] = "done"
=============================================================================
