---------------------------- MODULE DeviceStore ----------------------------
(***************************************************************************)
(* The device store of the hub: devstore.CacheStore under                  *)
(* devstore.AwakeStore and devstore.StoreAliveMonitor, the goroutine that  *)
(* polls each device (syssched.AsyncTaskRunner over                        *)
(* syssched.TaskAliveNotifier), the database of registered devices, and    *)
(* the goroutines that call the store: HTTP handlers, the mDNS browser and *)
(* the runner of the inactivity monitor.                                   *)
(*                                                                         *)
(* Two mutexes matter.  mmu is StoreAliveMonitor.mu: Add and Remove hold   *)
(* it across the whole call into the store below, Run holds it across the  *)
(* whole scan, and a poller takes it to report that its device is alive.   *)
(* smu is CacheStore.mu: every operation of CacheStore holds it, Remove    *)
(* even while it waits for the device's poller to exit.                    *)
(*                                                                         *)
(* Abstractions.  A device is its URI; type, description, creation time    *)
(* and ID are left out.  The resolve store, the poll itself and the        *)
(* generic runner have modules of their own.  Start-up (construct,         *)
(* restore, wire the monitor, start) is one step here.                     *)
(***************************************************************************)
EXTENDS Naturals

CONSTANTS
    Uris,            \* device URIs
    BadUris,         \* those makeNode rejects: no HTTP scheme, or no port
    Handlers,        \* goroutines that serve HTTP requests
    Browser,         \* the goroutine of the mDNS browser's runner
    Monitor,         \* the goroutine of the inactivity monitor's runner
    None,            \* no thread holds a mutex; no URI
    MaxInactive,     \* maxInactiveInterval, in ticks of the clock
    MonitorEnabled   \* FALSE: --device-monitor-inactive-disable

ASSUME UrisAssumption == BadUris \subseteq Uris /\ None \notin Uris
ASSUME ThreadsAssumption ==
    /\ None \notin Handlers \union {Browser, Monitor}
    /\ Browser \notin Handlers /\ Monitor \notin Handlers /\ Browser # Monitor
ASSUME MaxInactiveAssumption == MaxInactive \in Nat \ {0}
ASSUME MonitorAssumption == MonitorEnabled \in BOOLEAN

Clients == Handlers \union {Browser}
Threads == Clients \union {Monitor}

VARIABLES
    mmu, smu,        \* who holds StoreAliveMonitor.mu, CacheStore.mu
    pc,              \* where each thread is
    op, arg,         \* the store operation a thread runs, and its URI
    res, listed,     \* what the operation returns
    nodes,           \* CacheStore.nodes
    notified,        \* nodes whose task reports to the monitor
    cancelled,       \* nodes whose context is cancelled
    runner,          \* the goroutine that polls each device
    db,              \* the device bucket: URIs with a record
    corrupt,         \* records that no node can be made from
    devices,         \* StoreAliveMonitor.devices
    age,             \* clock.Now() - devices[u], up to MaxInactive
    scan,            \* devices Run still has to look at
    awake,           \* a token in awakeCh of the browser's runner
    browsing,        \* the browser's task is running
    sinceOk          \* history: time since u was added or polled successfully

callVars == <<op, arg, res, listed>>
nodeVars == <<nodes, notified, cancelled, runner>>
dbVars   == <<db, corrupt>>
monVars  == <<devices, age, scan>>
mdnsVars == <<awake, browsing>>

vars == <<mmu, smu, pc, callVars, nodeVars, dbVars, monVars, mdnsVars, sinceOk>>

Goto(t, l) == pc' = [pc EXCEPT ![t] = l]
Result(t, r) == res' = [res EXCEPT ![t] = r]

-----------------------------------------------------------------------------
(* Start-up.                                                               *)

\* NewCacheStore restores a node from every record it can read.
\* SetAliveMonitor comes after, so no restored task reports to the monitor.
Restored(d, c) ==
    /\ nodes = d \ c
    /\ notified = {}
    /\ cancelled = {}

\* The monitor takes every restored device for alive now.
RestoreDevices(restored) ==
    /\ devices = IF MonitorEnabled THEN restored ELSE {}
    /\ age = [u \in Uris |-> 0]

Init ==
    /\ \E d \in SUBSET Uris, c \in SUBSET Uris :
          /\ c \subseteq d /\ d \intersect BadUris \subseteq c
          /\ db = d /\ corrupt = c
          /\ Restored(d, c)
          /\ RestoreDevices(d \ c)
          /\ runner = [u \in Uris |-> IF u \in d \ c THEN "poll" ELSE "none"]
    /\ mmu = None /\ smu = None
    /\ pc = [t \in Threads |-> "idle"]
    /\ op = [t \in Threads |-> "none"]
    /\ arg = [t \in Threads |-> None]
    /\ res = [t \in Threads |-> "none"]
    /\ listed = [t \in Threads |-> {}]
    /\ scan = {}
    /\ awake = FALSE /\ browsing = FALSE
    /\ sinceOk = [u \in Uris |-> 0]

\* The process dies at any moment and starts again.  Records that cannot be
\* restored are deleted; a deletion that fails leaves the record (kept).
RestoreNodes(kept) ==
    /\ kept \subseteq corrupt
    /\ corrupt' = kept
    /\ db' = (db \ corrupt) \union kept
    /\ nodes' = db \ corrupt
    /\ notified' = {}
    /\ cancelled' = {}
    /\ runner' = [u \in Uris |-> IF u \in db \ corrupt THEN "poll" ELSE "none"]

Restart ==
    /\ \E kept \in SUBSET corrupt : RestoreNodes(kept)
    /\ devices' = IF MonitorEnabled THEN db \ corrupt ELSE {}
    /\ age' = [u \in Uris |-> 0]
    /\ mmu' = None /\ smu' = None
    /\ pc' = [t \in Threads |-> "idle"]
    /\ op' = [t \in Threads |-> "none"]
    /\ arg' = [t \in Threads |-> None]
    /\ res' = [t \in Threads |-> "none"]
    /\ listed' = [t \in Threads |-> {}]
    /\ scan' = {}
    /\ awake' = FALSE /\ browsing' = FALSE
    /\ sinceOk' = [u \in Uris |-> 0]

-----------------------------------------------------------------------------
(* Calls of the store.                                                     *)

\* The outermost store is StoreAliveMonitor, or AwakeStore when monitoring is
\* disabled.  Only Add and Remove of the monitor take its mutex.
Call(c, o, u) ==
    /\ pc[c] = "idle"
    /\ op' = [op EXCEPT ![c] = o]
    /\ arg' = [arg EXCEPT ![c] = u]
    /\ Goto(c, IF MonitorEnabled /\ o # "list" THEN "monlock" ELSE "storelock")
    /\ UNCHANGED <<mmu, smu, res, listed, nodeVars, dbVars, monVars, mdnsVars, sinceOk>>

HandleAdd(h, u)    == Call(h, "add", u)
HandleRemove(h, u) == Call(h, "remove", u)
HandleList(h)      == Call(h, "list", None)

\* The browser handles an entry it received while browsing.
HandleService(u) == browsing /\ Call(Browser, "add", u)

\* The mutex of StoreAliveMonitor.Add and StoreAliveMonitor.Remove.
MonLock(c) ==
    /\ pc[c] = "monlock"
    /\ mmu = None
    /\ mmu' = c
    /\ Goto(c, "storelock")
    /\ UNCHANGED <<smu, callVars, nodeVars, dbVars, monVars, mdnsVars, sinceOk>>

\* The mutex of every CacheStore operation.
StoreLock(t) ==
    /\ pc[t] = "storelock"
    /\ smu = None
    /\ smu' = t
    /\ Goto(t, "check")
    /\ UNCHANGED <<mmu, callVars, nodeVars, dbVars, monVars, mdnsVars, sinceOk>>

\* Mutant: the bucket is asked instead of the cache.
ExistsInDb(u) == u \in db

Exists(u) == u \in nodes

\* Mutant: every URI gets a node.
AnySupported(u) == u \in Uris

\* makeNode accepts an HTTP URI with a port.
Supported(u) == u \notin BadUris

\* CacheStore.Add: the device must be new and of a supported kind.
AddCheck(t) ==
    /\ pc[t] = "check" /\ op[t] = "add"
    /\ \/ /\ Exists(arg[t])
          /\ Result(t, "exists")
          /\ Goto(t, "storeunlock")
       \/ /\ ~Exists(arg[t]) /\ ~Supported(arg[t])
          /\ Result(t, "error")
          /\ Goto(t, "storeunlock")
       \/ /\ ~Exists(arg[t]) /\ Supported(arg[t])
          /\ Goto(t, "write")
          /\ UNCHANGED res
    /\ UNCHANGED <<mmu, smu, op, arg, listed, nodeVars, dbVars, monVars, mdnsVars, sinceOk>>

\* Mutant: the error of the database is logged, and the operation goes on.
IgnoreDbError(t) ==
    /\ Result(t, "ok")
    /\ Goto(t, IF op[t] = "add" THEN "start" ELSE "wait")

\* An error of the database ends Add and Remove before they touch the cache.
OnDbError(t) ==
    /\ Result(t, "error")
    /\ Goto(t, "storeunlock")

\* db.Write commits the record, or fails and leaves the bucket alone.
AddWrite(t) ==
    /\ pc[t] = "write"
    /\ \/ /\ db' = db \union {arg[t]}
          /\ corrupt' = corrupt \ {arg[t]}
          /\ Result(t, "ok")
          /\ Goto(t, "start")
       \/ /\ OnDbError(t)
          /\ UNCHANGED dbVars
    /\ UNCHANGED <<mmu, smu, op, arg, listed, nodeVars, monVars, mdnsVars, sinceOk>>

\* newHTTPDevice wraps the task of a node that is made while a monitor is set.
Wrapped(u) == notified' = IF MonitorEnabled THEN notified \union {u} ELSE notified

\* node.start, then the node is cached: its goroutine polls at once.
AddStart(t) ==
    /\ pc[t] = "start"
    /\ nodes' = nodes \union {arg[t]}
    /\ Wrapped(arg[t])
    /\ cancelled' = cancelled \ {arg[t]}
    /\ runner' = [runner EXCEPT ![arg[t]] = "poll"]
    /\ sinceOk' = [sinceOk EXCEPT ![arg[t]] = 0]
    /\ Goto(t, "storeunlock")
    /\ UNCHANGED <<mmu, smu, callVars, dbVars, monVars, mdnsVars>>

\* CacheStore.Remove: the device must be cached.
RemoveCheck(t) ==
    /\ pc[t] = "check" /\ op[t] = "remove"
    /\ \/ /\ ~Exists(arg[t])
          /\ Result(t, "nodata")
          /\ Goto(t, "storeunlock")
       \/ /\ Exists(arg[t])
          /\ Goto(t, "dbremove")
          /\ UNCHANGED res
    /\ UNCHANGED <<mmu, smu, op, arg, listed, nodeVars, dbVars, monVars, mdnsVars, sinceOk>>

\* Mutant: the poller is not told to stop.
CancelNothing(u) == cancelled' = cancelled

Cancel(u) == cancelled' = cancelled \union {u}

\* db.Remove deletes the record or fails; node.stop then cancels the context.
RemoveDb(t) ==
    /\ pc[t] = "dbremove"
    /\ \/ /\ db' = db \ {arg[t]}
          /\ Cancel(arg[t])
          /\ Result(t, "ok")
          /\ Goto(t, "wait")
       \/ /\ OnDbError(t)
          /\ UNCHANGED <<db, cancelled>>
    /\ UNCHANGED <<mmu, smu, op, arg, listed, nodes, notified, runner, corrupt, monVars,
                   mdnsVars, sinceOk>>

\* Mutants: Stop does not wait, or only for the poll under way.
StoppedAtOnce(u) == u \in Uris
StoppedPolling(u) == runner[u] # "poll"

\* AsyncTaskRunner.Stop returns when the goroutine has closed doneCh.
Stopped(u) == runner[u] = "none"

\* node.stop waits for the poller, under both mutexes.
RemoveWait(t) ==
    /\ pc[t] = "wait"
    /\ Stopped(arg[t])
    /\ nodes' = nodes \ {arg[t]}
    /\ notified' = notified \ {arg[t]}
    /\ cancelled' = cancelled \ {arg[t]}
    /\ sinceOk' = [sinceOk EXCEPT ![arg[t]] = 0]
    /\ Goto(t, "storeunlock")
    /\ UNCHANGED <<mmu, smu, callVars, runner, dbVars, monVars, mdnsVars>>

\* CacheStore.GetDesc copies what is cached.
GetDesc(t) ==
    /\ pc[t] = "check" /\ op[t] = "list"
    /\ listed' = [listed EXCEPT ![t] = nodes]
    /\ Result(t, "ok")
    /\ Goto(t, "storeunlock")
    /\ UNCHANGED <<mmu, smu, op, arg, nodeVars, dbVars, monVars, mdnsVars, sinceOk>>

Added(t) == op[t] = "add" /\ res[t] = "ok"

\* CacheStore releases its mutex; AwakeStore wakes the browser after an Add.
StoreUnlock(t) ==
    /\ pc[t] = "storeunlock"
    /\ smu' = None
    /\ awake' = (awake \/ Added(t))
    /\ Goto(t, IF MonitorEnabled /\ op[t] # "list" THEN "monupdate" ELSE "return")
    /\ UNCHANGED <<mmu, callVars, nodeVars, dbVars, monVars, browsing, sinceOk>>

\* StoreAliveMonitor stamps an added device and forgets a removed one.
Stamp(u) ==
    /\ devices' = devices \union {u}
    /\ age' = [age EXCEPT ![u] = 0]

Forget(u) ==
    /\ devices' = devices \ {u}
    /\ age' = [age EXCEPT ![u] = 0]

MonUpdate(c) ==
    /\ pc[c] = "monupdate" /\ c \in Clients
    /\ \/ op[c] = "add" /\ res[c] = "ok" /\ Stamp(arg[c])
       \/ op[c] = "remove" /\ res[c] = "ok" /\ Forget(arg[c])
       \/ res[c] # "ok" /\ UNCHANGED <<devices, age>>
    /\ mmu' = None
    /\ Goto(c, "return")
    /\ UNCHANGED <<smu, callVars, nodeVars, dbVars, scan, mdnsVars, sinceOk>>

Return(c) ==
    /\ pc[c] = "return"
    /\ Goto(c, "idle")
    /\ op' = [op EXCEPT ![c] = "none"]
    /\ arg' = [arg EXCEPT ![c] = None]
    /\ Result(c, "none")
    /\ listed' = [listed EXCEPT ![c] = {}]
    /\ UNCHANGED <<mmu, smu, nodeVars, dbVars, monVars, mdnsVars, sinceOk>>

-----------------------------------------------------------------------------
(* StoreAliveMonitor.Run, called by its runner at every tick.              *)

RunBegin ==
    /\ MonitorEnabled
    /\ pc[Monitor] = "idle"
    /\ mmu = None
    /\ mmu' = Monitor
    /\ scan' = devices
    /\ Goto(Monitor, "scan")
    /\ UNCHANGED <<smu, callVars, nodeVars, dbVars, devices, age, mdnsVars, sinceOk>>

\* Mutant: off by one tick.
InactiveEarly(u) == age[u] + 1 >= MaxInactive

Inactive(u) == age[u] >= MaxInactive

\* One iteration of the range over the map, in an order Go leaves open.
Scan(u) ==
    /\ pc[Monitor] = "scan"
    /\ u \in scan
    /\ scan' = scan \ {u}
    /\ IF Inactive(u)
       THEN /\ op' = [op EXCEPT ![Monitor] = "remove"]
            /\ arg' = [arg EXCEPT ![Monitor] = u]
            /\ Goto(Monitor, "storelock")
       ELSE UNCHANGED <<pc, op, arg>>
    /\ UNCHANGED <<mmu, smu, res, listed, nodeVars, dbVars, devices, age, mdnsVars, sinceOk>>

\* Back from store.Remove: an error ends Run before the rest of the map.
ScanResult ==
    /\ pc[Monitor] = "monupdate"
    /\ \/ /\ res[Monitor] = "ok"
          /\ Forget(arg[Monitor])
          /\ UNCHANGED scan
       \/ /\ res[Monitor] # "ok"
          /\ scan' = {}
          /\ UNCHANGED <<devices, age>>
    /\ op' = [op EXCEPT ![Monitor] = "none"]
    /\ arg' = [arg EXCEPT ![Monitor] = None]
    /\ Result(Monitor, "none")
    /\ Goto(Monitor, "scan")
    /\ UNCHANGED <<mmu, smu, listed, nodeVars, dbVars, mdnsVars, sinceOk>>

RunEnd ==
    /\ pc[Monitor] = "scan"
    /\ scan = {}
    /\ mmu' = None
    /\ Goto(Monitor, "idle")
    /\ UNCHANGED <<smu, callVars, nodeVars, dbVars, monVars, mdnsVars, sinceOk>>

-----------------------------------------------------------------------------
(* The goroutine that polls a device.                                      *)

Runner(u, s) == runner' = [runner EXCEPT ![u] = s]

restOfPoll == <<mmu, smu, pc, callVars, nodes, notified, cancelled, dbVars, scan, mdnsVars>>

\* The ticker fires: select may pick it even when the context is cancelled.
PollBegin(u) ==
    /\ runner[u] = "select"
    /\ Runner(u, "poll")
    /\ UNCHANGED <<restOfPoll, devices, age, sinceOk>>

\* The task succeeds; the node of an added device then reports to the monitor.
PollOk(u) ==
    /\ runner[u] = "poll"
    /\ Runner(u, IF u \in notified THEN "notify" ELSE "select")
    /\ sinceOk' = [sinceOk EXCEPT ![u] = 0]
    /\ UNCHANGED <<restOfPoll, devices, age>>

\* The task fails, or panics and CrashTask recovers: no report.
PollFail(u) ==
    /\ runner[u] = "poll"
    /\ Runner(u, "select")
    /\ UNCHANGED <<restOfPoll, devices, age, sinceOk>>

\* StoreAliveMonitor.notifyAlive: takes the monitor's mutex for one update.
NotifyAlive(u) ==
    /\ runner[u] = "notify"
    /\ mmu = None
    /\ Stamp(u)
    /\ Runner(u, "select")
    /\ UNCHANGED <<restOfPoll, sinceOk>>

\* ctx.Done() is picked: the goroutine closes doneCh and ends.
Exit(u) ==
    /\ runner[u] = "select"
    /\ u \in cancelled
    /\ Runner(u, "none")
    /\ UNCHANGED <<restOfPoll, devices, age, sinceOk>>

-----------------------------------------------------------------------------
(* The runner of the mDNS browser, and time.                               *)

\* The runner's select picks the ticker, or the token in awakeCh.
BrowseBegin ==
    /\ ~browsing
    /\ browsing' = TRUE
    /\ awake' \in {awake, FALSE}
    /\ UNCHANGED <<mmu, smu, pc, callVars, nodeVars, dbVars, monVars, sinceOk>>

\* The browse timeout.
BrowseEnd ==
    /\ browsing
    /\ pc[Browser] = "idle"
    /\ browsing' = FALSE
    /\ UNCHANGED <<mmu, smu, pc, callVars, nodeVars, dbVars, monVars, awake, sinceOk>>

\* Mutant: the clock of a device is not bounded.
OlderForever(f, S) == [u \in Uris |-> IF u \in S THEN f[u] + 1 ELSE f[u]]

Older(f, S) == [u \in Uris |-> IF u \in S /\ f[u] < MaxInactive THEN f[u] + 1 ELSE f[u]]

\* Time passes.  Both clocks stop at MaxInactive: no code tells later apart.
Tick ==
    /\ age' = Older(age, devices)
    /\ sinceOk' = Older(sinceOk, nodes)
    /\ UNCHANGED <<mmu, smu, pc, callVars, nodeVars, dbVars, devices, scan, mdnsVars>>

-----------------------------------------------------------------------------
(* The specification.                                                      *)

StoreStep(t) ==
    \/ AddCheck(t) \/ AddWrite(t) \/ AddStart(t)
    \/ RemoveCheck(t) \/ RemoveDb(t) \/ RemoveWait(t)
    \/ GetDesc(t) \/ StoreUnlock(t)

ClientStep(c) == StoreStep(c) \/ MonUpdate(c) \/ Return(c)

MonitorStep ==
    \/ StoreStep(Monitor) \/ ScanResult \/ RunEnd
    \/ \E u \in Uris : Scan(u)

PollEnd(u) == PollOk(u) \/ PollFail(u)

Next ==
    \/ \E h \in Handlers :
          \/ \E u \in Uris : HandleAdd(h, u) \/ HandleRemove(h, u)
          \/ HandleList(h)
    \/ \E u \in Uris : HandleService(u)
    \/ \E c \in Clients : MonLock(c) \/ ClientStep(c)
    \/ \E t \in Threads : StoreLock(t)
    \/ RunBegin \/ MonitorStep
    \/ \E u \in Uris : PollBegin(u) \/ PollEnd(u) \/ NotifyAlive(u) \/ Exit(u)
    \/ BrowseBegin \/ BrowseEnd
    \/ Tick
    \/ Restart

Spec == Init /\ [][Next]_vars

\* Goroutines run; a poll ends by its fetch timeout.  sync.Mutex hands the
\* lock to a waiter that starves, and select picks among ready cases at
\* random: both are strong fairness.  No call, tick or restart must happen.
Fairness ==
    /\ \A c \in Clients : SF_vars(MonLock(c)) /\ WF_vars(ClientStep(c))
    /\ \A t \in Threads : SF_vars(StoreLock(t))
    /\ SF_vars(RunBegin) /\ WF_vars(MonitorStep)
    /\ \A u \in Uris :
          /\ WF_vars(PollBegin(u)) /\ WF_vars(PollEnd(u))
          /\ SF_vars(NotifyAlive(u)) /\ SF_vars(Exit(u))

FairSpec == Spec /\ Fairness

-----------------------------------------------------------------------------
(* Properties.                                                             *)

Locations ==
    {"idle", "monlock", "storelock", "check", "write", "start", "dbremove",
     "wait", "storeunlock", "monupdate", "return", "scan"}

TypeOK ==
    /\ mmu \in Threads \union {None}
    /\ smu \in Threads \union {None}
    /\ pc \in [Threads -> Locations]
    /\ op \in [Threads -> {"none", "add", "remove", "list"}]
    /\ arg \in [Threads -> Uris \union {None}]
    /\ res \in [Threads -> {"none", "ok", "exists", "nodata", "error"}]
    /\ listed \in [Threads -> SUBSET Uris]
    /\ nodes \in SUBSET Uris
    /\ notified \in SUBSET Uris
    /\ cancelled \in SUBSET Uris
    /\ runner \in [Uris -> {"none", "select", "poll", "notify"}]
    /\ db \in SUBSET Uris
    /\ corrupt \in SUBSET Uris
    /\ devices \in SUBSET Uris
    /\ age \in [Uris -> 0 .. MaxInactive]
    /\ scan \in SUBSET Uris
    /\ awake \in BOOLEAN
    /\ browsing \in BOOLEAN
    /\ sinceOk \in [Uris -> 0 .. MaxInactive]

\* What is cached is what a restart would restore: between two operations of
\* CacheStore its nodes are exactly the readable records of the bucket, so
\* neither a failed write nor a failed delete leaves one without the other.
StoreConsistent == smu = None => nodes = db \ corrupt

\* The monitor watches exactly the cached devices whenever its mutex is free:
\* no device escapes it, and none that is gone is left in its map, where it
\* would make Run fail at that entry on every tick.
MonitorConsistent == MonitorEnabled /\ mmu = None => devices = nodes

\* A removed device has no goroutine that still polls it, and a cached one
\* that nobody is removing has one.
PolledIffCached ==
    /\ \A u \in Uris \ nodes : runner[u] = "none"
    /\ smu = None => \A u \in nodes : runner[u] # "none"

\* Run has found u inactive and removes it: from the look to the end of
\* CacheStore.Remove.
Expiring(u) ==
    /\ pc[Monitor] \in {"storelock", "check", "dbremove", "wait"}
    /\ arg[Monitor] = u

\* Run never removes a device added at run time on an age that is stale, or on
\* that of an earlier addition: as long as the removal goes on, the polls of
\* the device have failed for the whole of MaxInactive, or one has succeeded
\* too late and its report waits for the mutex Run holds.  Such a report does
\* not save the record, but the removal then waits for the poller, which waits
\* for Run: no removal of Run ends for a device that has answered.
AddedExpireSilent ==
    \A u \in notified :
        Expiring(u) => sinceOk[u] = MaxInactive \/ runner[u] = "notify"

\* As docs/features.md says, and of every device: when Run comes to an entry of
\* its map and finds it inactive, the polls of the device have failed for the
\* whole of MaxInactive.
KeptWhileAlive ==
    \A u \in scan :
        pc[Monitor] = "scan" /\ Inactive(u) => sinceOk[u] = MaxInactive

\* Remove waits for a poller that reports to the monitor, under the monitor's
\* mutex that the report needs.
AwaitsReport(t) == pc[t] = "wait" /\ runner[arg[t]] = "notify" /\ mmu = t

\* Nobody waits in a circle, except in one way.  A thread that waits for the
\* monitor's mutex waits for one that is past it, a thread that waits for
\* CacheStore.mu for one that is inside CacheStore, and a Remove that waits for
\* a poller has cancelled it, so that its next select may pick ctx.Done().  The
\* exception is a poller whose report waits for that very Remove, and it takes
\* the monitor.
OnlyReportsBlock ==
    \A t \in Threads :
        /\ pc[t] = "monlock" /\ mmu # None => pc[mmu] \notin {"idle", "monlock", "return"}
        /\ pc[t] = "storelock" /\ smu # None =>
              pc[smu] \in {"check", "write", "start", "dbremove", "wait", "storeunlock"}
        /\ pc[t] = "wait" /\ ~Stopped(arg[t]) =>
              /\ arg[t] \in cancelled
              /\ runner[arg[t]] = "notify" => MonitorEnabled /\ AwaitsReport(t)

\* A call of Remove that has deleted the record returns: AsyncTaskRunner.Stop
\* "ends asynchronous task processing", it does not wait for ever.
RemoveReturns == \A c \in Clients : (pc[c] = "wait") ~> (pc[c] = "idle")

\* Every call of the store returns (or the process restarts).
CallsReturn == \A c \in Clients : (pc[c] # "idle") ~> (pc[c] = "idle")

\* What the callers of the store see.
callMap ==
    [c \in Clients |->
        [st |-> IF pc[c] = "idle" THEN "idle"
                ELSE IF pc[c] \in {"monlock", "storelock", "check", "write", "dbremove"}
                THEN "called" ELSE "done",
         op |-> op[c], uri |-> arg[c], res |-> res[c], seen |-> listed[c]]]

Registry == INSTANCE DeviceRegistry WITH registered <- db \ corrupt, call <- callMap

\* Concurrent calls, crashes and expiry together behave as the abstract
\* registry: each call takes effect once, at one instant, and survives restarts.
ImplementsRegistry == Registry!Spec

=============================================================================
