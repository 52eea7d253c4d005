----------------------------- MODULE Lifecycle -----------------------------
(***************************************************************************)
(* The life of the process: main.go starts its parts in the order in which *)
(* it made them, waits for a signal, and stops them in another order,      *)
(* while the mDNS browser, the inactivity monitor, HTTP handlers and the   *)
(* goroutines that poll devices go on.                                     *)
(*                                                                         *)
(* Abstractions.  A call of the store that takes CacheStore.mu (smu) and   *)
(* does not wait under it is one step: DeviceStore has its inner steps and *)
(* shows that they do not interfere.  The monitor removes any device it    *)
(* likes: DeviceStore has its ages.  A goroutine of an AsyncTaskRunner is     *)
(* running, whether it is in its task or in its select (AsyncTaskRunner has *)
(* the loop): what matters here is what its task waits for.                *)
(***************************************************************************)
EXTENDS Naturals

CONSTANTS
    Uris,           \* device URIs
    Handlers,       \* goroutines that serve HTTP requests
    Browser,        \* the goroutine of the mDNS browser's runner
    Monitor,        \* the goroutine of the inactivity monitor's runner
    Main,           \* the goroutine of main
    None            \* no thread holds a mutex

ASSUME ThreadsAssumption ==
    /\ Browser \notin Handlers /\ Monitor \notin Handlers /\ Main \notin Handlers
    /\ Browser # Monitor /\ Browser # Main /\ Monitor # Main
    /\ None \notin Handlers \union {Browser, Monitor, Main}

Threads == Handlers \union {Browser, Monitor}
Runners == {"browser", "restorer", "monitor"}

\* A device has a second goroutine when it is started twice.
Slots == {1, 2}

VARIABLES
    opts,           \* command line: monitor, autodiscovery, cacheDir given or not
    phase,          \* main: "start", "stop", or how the process ended
    step,           \* the next starter or stopper of main's list
    signalled,      \* appContext is done
    runner,         \* the goroutines of the three AsyncTaskRunners of main
    server,         \* HTTP server: "new", "serving", "closed" by Stop, "done"
    store,          \* CacheStore: "new", "running", "stopped" (nodes is nil)
    dbOpen,         \* the bbolt database is not closed
    nodes,          \* CacheStore.nodes
    wrapped,        \* nodes whose task reports to the monitor
    cancelled,      \* nodes whose context is cancelled
    doneCh,         \* nodes whose runner has closed doneCh
    poll,           \* the goroutines that poll each device
    orphans,        \* removed devices that still have a second goroutine
    leaked,         \* devices polled by the node of an Add that panicked
    mmu, smu,       \* who holds StoreAliveMonitor.mu, CacheStore.mu
    pc, op, arg,    \* where each thread is, the operation it runs and its URI
    early           \* history: the browser added a device before CacheStore.Start

mainVars  == <<phase, step>>
nodeVars  == <<nodes, wrapped, cancelled, doneCh>>
pollVars  == <<poll, orphans, leaked>>
callVars  == <<mmu, smu, pc, op, arg>>
vars == <<opts, mainVars, signalled, runner, server, store, dbOpen, nodeVars, pollVars,
          callVars, early>>

NoGoroutine == [s \in Slots |-> "none"]

\* NewCacheStore has restored a node from every record, if records are kept.
Init ==
    /\ opts \in [monitor : BOOLEAN, autodiscovery : BOOLEAN, cacheDir : BOOLEAN]
    /\ phase = "start" /\ step = 1
    /\ signalled = FALSE
    /\ runner = [r \in Runners |-> "new"]
    /\ server = "new" /\ store = "new" /\ dbOpen = TRUE
    /\ nodes \in IF opts.cacheDir THEN SUBSET Uris ELSE {{}}
    /\ wrapped = {} /\ cancelled = {} /\ doneCh = {}
    /\ poll = [u \in Uris |-> NoGoroutine]
    /\ orphans = {} /\ leaked = {}
    /\ mmu = None /\ smu = None
    /\ pc = [t \in Threads |-> "idle"]
    /\ op = [t \in Threads |-> "none"]
    /\ arg = [t \in Threads |-> None]
    /\ early = FALSE

-----------------------------------------------------------------------------
(* Main: FanoutStarter.Start and FanoutStopper.Stop.                       *)

\* Mutant: the HTTP server is started before the store it serves.
ServerFirst ==
    <<"browser", "restorer", "server", "store", "monitor", "mdns", "end">>

\* Mutant: the monitor's runner is given to the stopper only.
MonitorNotStarted ==
    <<"browser", "restorer", "store", "server", "mdns", "end">>

\* The order of the calls of p.starter.Add.
StartOrder ==
    <<"browser", "restorer", "store", "monitor", "server", "mdns", "end">>

\* The order of the calls of p.stopper.Add; Stop of the mDNS browser is empty.
StopOrder ==
    <<"browser", "database", "restorer", "store", "monitor", "server", "mdns", "end">>

Starting(p) == phase = "start" /\ StartOrder[step] = p
Stopping(p) == phase = "stop" /\ StopOrder[step] = p

NextPart == step' = step + 1 /\ UNCHANGED phase

restOfMain == <<opts, signalled, nodeVars, pollVars, callVars, early>>

InUse(r) == r # "monitor" \/ opts.monitor

\* AsyncTaskRunner.Start, of the runners that the options ask for.
StartRunner(r) ==
    /\ Starting(r)
    /\ runner' = IF InUse(r) THEN [runner EXCEPT ![r] = "running"] ELSE runner
    /\ NextPart
    /\ UNCHANGED <<restOfMain, server, store, dbOpen>>

\* node.start.
Spawned(u) ==
    LET s == IF poll[u][1] = "none" THEN 1 ELSE 2
    IN  [poll[u] EXCEPT ![s] = "running"]

\* CacheStore.Start starts every node it finds, started or not.
StartStore ==
    /\ Starting("store") /\ smu = None
    /\ store' = "running"
    /\ poll' = [u \in Uris |-> IF u \in nodes THEN Spawned(u) ELSE poll[u]]
    /\ NextPart
    /\ UNCHANGED <<opts, signalled, runner, server, dbOpen, nodeVars, orphans, leaked,
                   callVars, early>>

StartServer ==
    /\ Starting("server")
    /\ server' = "serving"
    /\ NextPart
    /\ UNCHANGED <<restOfMain, runner, store, dbOpen>>

\* The mDNS server registers its services, or fails: start then returns the
\* error and main exits, with everything else running.
StartMdns ==
    /\ Starting("mdns")
    /\ \/ NextPart
       \/ phase' = "failed" /\ UNCHANGED step
    /\ UNCHANGED <<restOfMain, runner, server, store, dbOpen>>

\* A signal before start has returned cancels the context of the process.
Signal ==
    /\ phase = "start" /\ ~signalled
    /\ signalled' = TRUE
    /\ UNCHANGED <<opts, mainVars, runner, server, store, dbOpen, nodeVars, pollVars, callVars,
                   early>>

\* start waits for the signal and returns; stop begins.
BeginStop ==
    /\ Starting("end") /\ signalled
    /\ phase' = "stop" /\ step' = 1
    /\ UNCHANGED <<restOfMain, runner, server, store, dbOpen>>

\* Once start has returned, its deferred call has given signals back to the
\* runtime: another one kills the process.
Kill ==
    /\ phase = "stop"
    /\ phase' = "killed"
    /\ UNCHANGED <<restOfMain, step, runner, server, store, dbOpen>>

\* AsyncTaskRunner.Stop waits for doneCh.
StopRunner(r) ==
    /\ Stopping(r)
    /\ InUse(r) => runner[r] = "exited"
    /\ NextPart
    /\ UNCHANGED <<restOfMain, runner, server, store, dbOpen>>

\* The database exists with --cache-dir only.
CloseDatabase ==
    /\ Stopping("database")
    /\ dbOpen' = ~opts.cacheDir
    /\ NextPart
    /\ UNCHANGED <<restOfMain, runner, server, store>>

\* CacheStore.Stop takes its mutex.  Every node's context is done by now, as
\* that of the process is.
LockStop ==
    /\ Stopping("store") /\ smu = None /\ store = "running"
    /\ smu' = Main
    /\ UNCHANGED <<opts, mainVars, signalled, runner, server, store, dbOpen, nodeVars, pollVars,
                   mmu, pc, op, arg, early>>

\* Mutant: the nodes are told to stop and not waited for.
NoneAwaited == nodes \subseteq Uris

AllDone == nodes \subseteq doneCh

\* It stops the nodes, each of which waits for its doneCh, and drops them all.
StopStore ==
    /\ Stopping("store") /\ smu = Main
    /\ AllDone
    /\ store' = "stopped"
    /\ nodes' = {} /\ wrapped' = {} /\ cancelled' = {} /\ doneCh' = {}
    /\ smu' = None
    /\ NextPart
    /\ UNCHANGED <<opts, signalled, runner, server, dbOpen, pollVars, mmu, pc, op, arg, early>>

\* Mutant: Stop waits for the server and leaves its listener open.
LeaveListener == Stopping("server") /\ server = "serving" /\ UNCHANGED server

\* htcore.Server.Stop closes the listener and the connections.
CloseListener == Stopping("server") /\ server = "serving" /\ server' = "closed"

CloseServer ==
    /\ CloseListener
    /\ UNCHANGED <<restOfMain, mainVars, runner, store, dbOpen>>

\* Then it waits for the goroutine that serves, not for the handlers.
StopServer ==
    /\ Stopping("server") /\ server = "done"
    /\ NextPart
    /\ UNCHANGED <<restOfMain, runner, server, store, dbOpen>>

StopMdns ==
    /\ Stopping("mdns")
    /\ NextPart
    /\ UNCHANGED <<restOfMain, runner, server, store, dbOpen>>

\* main returns, and every goroutine left ends with it.
Exit ==
    /\ Stopping("end")
    /\ phase' = "exited" /\ UNCHANGED step
    /\ UNCHANGED <<restOfMain, runner, server, store, dbOpen>>

-----------------------------------------------------------------------------
(* The goroutines of the runners and of the server.                        *)

restOfRunner == <<opts, mainVars, signalled, server, store, dbOpen, nodeVars, pollVars,
                  callVars, early>>

\* SystemClockRestorer.Run succeeds, and its runner exits.
RestoreOk ==
    /\ runner["restorer"] = "running"
    /\ runner' = [runner EXCEPT !["restorer"] = "exited"]
    /\ UNCHANGED restOfRunner

\* What the task of a runner is doing: the browser is handling an entry, the
\* monitor is scanning.
Busy(r) ==
    \/ r = "browser" /\ pc[Browser] # "idle"
    \/ r = "monitor" /\ pc[Monitor] # "idle"

\* Between two tasks ctx.Done() is picked.  A browse ends because its context
\* is done, or because the library closes the channel of entries: nil is then
\* received, and CrashTask recovers the panic.
RunnerExit(r) ==
    /\ runner[r] = "running" /\ signalled /\ ~Busy(r)
    /\ runner' = [runner EXCEPT ![r] = "exited"]
    /\ UNCHANGED restOfRunner

\* http.Server.Serve returns: the server is closed, or its listener fails.
ServeEnd ==
    /\ server \in {"serving", "closed"}
    /\ server' = "done"
    /\ UNCHANGED <<opts, mainVars, signalled, runner, store, dbOpen, nodeVars, pollVars, callVars,
                   early>>

-----------------------------------------------------------------------------
(* Calls of the store.                                                     *)

Goto(t, l) == pc' = [pc EXCEPT ![t] = l]

Call(t, o, u, l) ==
    /\ op' = [op EXCEPT ![t] = o]
    /\ arg' = [arg EXCEPT ![t] = u]
    /\ Goto(t, l)

restOfCall == <<opts, mainVars, signalled, runner, server, store, dbOpen, nodeVars, pollVars,
                early>>

\* The outermost store is the monitor, if there is one.
Outer == IF opts.monitor THEN "monlock" ELSE "store"

\* A request is accepted; its handler goes on when the server is closed.
Handle(h, o, u) ==
    /\ server = "serving" /\ pc[h] = "idle"
    /\ Call(h, o, u, Outer)
    /\ UNCHANGED <<restOfCall, mmu, smu>>

\* StoreMdnsHandler, registered with autodiscovery only, adds what is found.
HandleService(u) ==
    /\ opts.autodiscovery
    /\ runner["browser"] = "running" /\ pc[Browser] = "idle"
    /\ Call(Browser, "add", u, Outer)
    /\ UNCHANGED <<restOfCall, mmu, smu>>

\* StoreAliveMonitor.Run starts, and holds its mutex to the end.
ScanBegin ==
    /\ runner["monitor"] = "running" /\ pc[Monitor] = "idle"
    /\ mmu = None /\ mmu' = Monitor
    /\ Goto(Monitor, "scan")
    /\ UNCHANGED <<restOfCall, smu, op, arg>>

\* The scan goes on after a removal that succeeds, and ends after one that
\* fails: the next scan may then begin at once, so both may go on here.
ScanRemove(u) ==
    /\ pc[Monitor] = "scan"
    /\ Call(Monitor, "remove", u, "store")
    /\ UNCHANGED <<restOfCall, mmu, smu>>

ScanEnd ==
    /\ pc[Monitor] = "scan"
    /\ mmu' = None
    /\ Goto(Monitor, "idle")
    /\ UNCHANGED <<restOfCall, smu, op, arg>>

\* StoreAliveMonitor.Add and Remove take its mutex.
MonLock(t) ==
    /\ pc[t] = "monlock"
    /\ mmu = None /\ mmu' = t
    /\ Goto(t, "store")
    /\ UNCHANGED <<restOfCall, smu, op, arg>>

\* The operation returns, to the monitor's scan or through it to the caller;
\* the deferred unlocks run also when it panics.
Return(t) ==
    /\ op' = [op EXCEPT ![t] = "none"]
    /\ arg' = [arg EXCEPT ![t] = None]
    /\ Goto(t, IF t = Monitor THEN "scan" ELSE "idle")
    /\ mmu' = IF t # Monitor /\ mmu = t THEN None ELSE mmu

\* A write needs the database, and may fail for other reasons.
AddOk(t) ==
    /\ store # "stopped" /\ arg[t] \notin nodes /\ dbOpen
    /\ nodes' = nodes \union {arg[t]}
    /\ wrapped' = IF opts.monitor THEN wrapped \union {arg[t]} ELSE wrapped
    /\ poll' = [poll EXCEPT ![arg[t]] = Spawned(arg[t])]
    /\ early' = (early \/ (t = Browser /\ store = "new"))
    /\ UNCHANGED <<cancelled, doneCh, orphans, leaked>>

\* The device exists, or the write fails, always once the database is closed.
AddFails(t) == UNCHANGED <<nodeVars, pollVars, early>>

\* Without --cache-dir the write succeeds also after CacheStore.Stop: the
\* goroutine is started, and the assignment to the nil map panics.
AddPanics(t) ==
    /\ store = "stopped" /\ dbOpen
    /\ leaked' = leaked \union {arg[t]}
    /\ UNCHANGED <<nodeVars, poll, orphans, early>>

StoreAdd(t) ==
    /\ pc[t] = "store" /\ op[t] = "add" /\ smu = None
    /\ AddOk(t) \/ AddFails(t) \/ AddPanics(t)
    /\ Return(t)
    /\ UNCHANGED <<opts, mainVars, signalled, runner, server, store, dbOpen, smu>>

\* The device is not cached, or the deletion of its record fails.
RemoveFails(t) ==
    /\ pc[t] = "store" /\ op[t] = "remove" /\ smu = None
    /\ Return(t)
    /\ UNCHANGED <<restOfCall, smu>>

\* The record is deleted, the node's context is cancelled, and CacheStore.Remove
\* waits for doneCh under its mutex.
RemoveBegin(t) ==
    /\ pc[t] = "store" /\ op[t] = "remove" /\ smu = None
    /\ arg[t] \in nodes /\ dbOpen
    /\ smu' = t
    /\ cancelled' = cancelled \union {arg[t]}
    /\ Goto(t, "wait")
    /\ UNCHANGED <<opts, mainVars, signalled, runner, server, store, dbOpen, nodes, wrapped,
                   doneCh, pollVars, mmu, op, arg, early>>

RemoveEnd(t) ==
    /\ pc[t] = "wait" /\ arg[t] \in doneCh
    /\ smu' = None
    /\ nodes' = nodes \ {arg[t]}
    /\ wrapped' = wrapped \ {arg[t]}
    /\ cancelled' = cancelled \ {arg[t]}
    /\ doneCh' = doneCh \ {arg[t]}
    /\ poll' = [poll EXCEPT ![arg[t]] = NoGoroutine]
    /\ orphans' = IF poll[arg[t]] = NoGoroutine THEN orphans ELSE orphans \union {arg[t]}
    /\ Return(t)
    /\ UNCHANGED <<opts, mainVars, signalled, runner, server, store, dbOpen, leaked, early>>

-----------------------------------------------------------------------------
(* The goroutines that poll devices.                                       *)

Poll(u, s, st) == poll' = [poll EXCEPT ![u][s] = st]

restOfPoll == <<opts, step, signalled, runner, server, store, dbOpen, nodes, wrapped,
                cancelled, orphans, leaked, callVars, early>>

\* A poll of a wrapped node succeeds; that needs the context of the process.
PollOk(u, s) ==
    /\ poll[u][s] = "running" /\ u \in wrapped /\ ~signalled
    /\ Poll(u, s, "notify")
    /\ UNCHANGED <<restOfPoll, phase, doneCh>>

\* StoreAliveMonitor.notifyAlive takes the monitor's mutex for one update.
NotifyAlive(u, s) ==
    /\ poll[u][s] = "notify" /\ mmu = None
    /\ Poll(u, s, "running")
    /\ UNCHANGED <<restOfPoll, phase, doneCh>>

\* ctx.Done() is picked; the deferred close of doneCh is the first, or panics
\* where nothing recovers and ends the process.
PollExit(u, s) ==
    /\ poll[u][s] = "running" /\ (signalled \/ u \in cancelled)
    /\ Poll(u, s, "none")
    /\ IF u \in doneCh
       THEN phase' = "crashed" /\ UNCHANGED doneCh
       ELSE doneCh' = doneCh \union {u} /\ UNCHANGED phase
    /\ UNCHANGED restOfPoll

\* The second goroutine of a removed device closes doneCh again.
OrphanExit(u) ==
    /\ u \in orphans
    /\ orphans' = orphans \ {u}
    /\ phase' = "crashed"
    /\ UNCHANGED <<opts, step, signalled, runner, server, store, dbOpen, nodeVars, poll, leaked,
                   callVars, early>>

\* A goroutine nobody can stop ends by the context of the process.
LeakedExit(u) ==
    /\ u \in leaked
    /\ leaked' = leaked \ {u}
    /\ UNCHANGED <<opts, mainVars, signalled, runner, server, store, dbOpen, nodeVars, poll,
                   orphans, callVars, early>>

-----------------------------------------------------------------------------
(* The specification.                                                      *)

Ended == phase \notin {"start", "stop"}

MainStep ==
    \/ \E r \in Runners : StartRunner(r) \/ StopRunner(r)
    \/ StartStore \/ StartServer \/ StartMdns
    \/ BeginStop
    \/ CloseDatabase \/ LockStop \/ StopStore \/ CloseServer \/ StopServer \/ StopMdns
    \/ Exit

RunnerStep ==
    \/ RestoreOk
    \/ \E r \in Runners : RunnerExit(r)
    \/ ServeEnd

\* The steps of a call that is under way.
Proceed(t) ==
    MonLock(t) \/ StoreAdd(t) \/ RemoveFails(t) \/ RemoveBegin(t) \/ RemoveEnd(t)

CallStep ==
    \/ \E u \in Uris :
          \/ \E h \in Handlers, o \in {"add", "remove"} : Handle(h, o, u)
          \/ HandleService(u) \/ ScanRemove(u)
    \/ ScanBegin \/ ScanEnd
    \/ \E t \in Threads : Proceed(t)

PollStep ==
    \E u \in Uris :
        \/ \E s \in Slots : PollOk(u, s) \/ NotifyAlive(u, s) \/ PollExit(u, s)
        \/ OrphanExit(u) \/ LeakedExit(u)

\* A process that has ended does nothing.
Next ==
    \/ ~Ended /\ (MainStep \/ Signal \/ Kill \/ RunnerStep \/ CallStep \/ PollStep)
    \/ Ended /\ UNCHANGED vars

Spec == Init /\ [][Next]_vars

Live(A) == ~Ended /\ A

\* Goroutines run, and tasks end: by the browse timeout or the fetch timeout.
\* sync.Mutex does not starve a waiter, and select picks among ready cases at
\* random, also in ZeroconfBrowser.Run: strong fairness.  Nothing makes a
\* signal, a request, an entry or a tick happen, nor the monitor run.
Fairness ==
    /\ SF_vars(Live(MainStep))
    /\ \A r \in {"browser", "restorer"} : SF_vars(Live(RunnerExit(r)))
    /\ WF_vars(Live(server = "closed" /\ ServeEnd))
    /\ \A c \in Handlers \union {Browser} : SF_vars(Live(Proceed(c)))
    /\ \A u \in Uris, s \in Slots :
          SF_vars(Live(NotifyAlive(u, s) \/ PollExit(u, s)))

FairSpec == Spec /\ Fairness

-----------------------------------------------------------------------------
(* Properties.                                                             *)

TypeOK ==
    /\ opts \in [monitor : BOOLEAN, autodiscovery : BOOLEAN, cacheDir : BOOLEAN]
    /\ phase \in {"start", "stop", "exited", "failed", "killed", "crashed"}
    /\ step \in 1 .. 8
    /\ signalled \in BOOLEAN
    /\ runner \in [Runners -> {"new", "running", "exited"}]
    /\ server \in {"new", "serving", "closed", "done"}
    /\ store \in {"new", "running", "stopped"}
    /\ dbOpen \in BOOLEAN
    /\ nodes \in SUBSET Uris /\ wrapped \in SUBSET Uris
    /\ cancelled \in SUBSET Uris /\ doneCh \in SUBSET Uris
    /\ poll \in [Uris -> [Slots -> {"none", "running", "notify"}]]
    /\ orphans \in SUBSET Uris /\ leaked \in SUBSET Uris
    /\ mmu \in Threads \union {None}
    /\ smu \in Threads \union {None, Main}
    /\ pc \in [Threads -> {"idle", "monlock", "store", "wait", "scan"}]
    /\ op \in [Threads -> {"none", "add", "remove"}]
    /\ arg \in [Threads -> Uris \union {None}]
    /\ early \in BOOLEAN

\* No goroutine polls u.
Unpolled(u) == poll[u] = NoGoroutine /\ u \notin orphans /\ u \notin leaked

\* u has a goroutine of its own and no second one.
Single(u) == poll[u][2] = "none" /\ u \notin orphans

\* Unless the browser adds a device before CacheStore.Start, the order of
\* start-up gives every device of a running store exactly one goroutine,
\* however requests, removals and signals fall into it: restored devices and
\* added ones, none twice and none missed, and the process does not crash.
PolledByOne ==
    ~early =>
        /\ phase # "crashed"
        /\ \A u \in Uris : Single(u)
        /\ store = "running" /\ smu = None /\ ~signalled =>
              \A u \in nodes : poll[u][1] # "none"

\* With --cache-dir, and without such an early addition, nothing polls after
\* CacheStore.Stop, though the HTTP server goes on serving after it, and no
\* part of main runs when the process exits.
NothingAfterStop ==
    opts.cacheDir /\ ~early =>
        /\ store = "stopped" => \A u \in Uris : Unpolled(u)
        /\ phase = "exited" =>
              /\ store = "stopped" /\ server = "done"
              /\ \A r \in Runners : runner[r] \in {"new", "exited"}

\* Nothing is awaited that cannot come.  What main stops it has started, also
\* when the signal came early; a node whose goroutine CacheStore.Remove or
\* CacheStore.Stop waits for has one, which has been told to end; whoever
\* holds CacheStore.mu waits for goroutines only, and whoever holds the
\* monitor's mutex has passed it for good.  A goroutine that polls waits for a
\* mutex only with the monitor, so that alone can close a circle.
NothingAwaitedInVain ==
    ~Ended =>
        /\ \A r \in Runners : Stopping(r) /\ InUse(r) => runner[r] # "new"
        /\ Stopping("server") => server # "new"
        /\ smu = Main => Stopping("store") /\ signalled
        /\ Stopping("store") => \A u \in nodes \ doneCh : poll[u] # NoGoroutine
        /\ \A t \in Threads :
              /\ smu = t =>
                    /\ pc[t] = "wait" /\ arg[t] \in cancelled
                    /\ arg[t] \notin doneCh => poll[arg[t]] # NoGoroutine
              /\ mmu = t => pc[t] \in {"store", "wait", "scan"}
        /\ \A u \in Uris, s \in Slots : poll[u][s] = "notify" => opts.monitor

\* Without the monitor every signal ends the process, whatever requests,
\* browsing and removals are under way and whichever part is being started
\* when it comes.
ShutdownEnds == (signalled /\ ~opts.monitor) ~> Ended

\* At most one goroutine ever polls a device: HandleRegistration of IDHolder
\* "Should be used by a single goroutine".
OneGoroutine == \A u \in Uris : Single(u)

=============================================================================
