-------------------------- MODULE LifecycleProofs --------------------------
(***************************************************************************)
(* Theorems about Lifecycle, for any devices and handlers.  The invariant  *)
(* ties each part to the place main has reached in its lists, and, as long *)
(* as no device was added before CacheStore.Start, each cached device to   *)
(* one goroutine or to a closed doneCh.                                    *)
(***************************************************************************)
EXTENDS Lifecycle, TLAPS

\* What FanoutStarter has started so far.
StartInv ==
    phase = "start" =>
        /\ step \in 1 .. 7
        /\ store = IF step <= 3 THEN "new" ELSE "running"
        /\ step <= 4 => runner["monitor"] = "new"
        /\ step <= 5 => server = "new"
        /\ dbOpen

\* What FanoutStopper has stopped so far.
StopInv ==
    phase \in {"stop", "exited"} =>
        /\ signalled
        /\ step > 1 => runner["browser"] = "exited"
        /\ step > 2 => dbOpen = ~opts.cacheDir
        /\ step > 3 => runner["restorer"] = "exited"
        /\ store = IF step > 4 THEN "stopped" ELSE "running"
        /\ step > 5 => runner["monitor"] \in {"new", "exited"}
        /\ step > 6 => server = "done"
        /\ phase = "exited" => step = 8

\* Whatever the phase, even after the process has died.
PartsInv ==
    /\ ~opts.monitor => runner["monitor"] = "new"
    /\ store = "new" =>
          server = "new" /\ runner["monitor"] = "new" /\ phase \notin {"stop", "exited"}
    /\ store = "stopped" => signalled /\ nodes = {} /\ (opts.cacheDir => ~dbOpen)
    /\ opts.cacheDir => leaked = {}

\* Who can be inside the store, and with which operation.
CallInv ==
    /\ server = "new" => \A h \in Handlers : pc[h] = "idle"
    /\ runner["monitor"] = "new" => pc[Monitor] = "idle"
    /\ \A t \in Threads :
          /\ pc[t] \in {"monlock", "store", "wait"} => arg[t] \in Uris
          /\ pc[t] = "wait" => smu = t
    /\ op[Browser] # "remove" /\ pc[Browser] # "wait"

\* Only the device that somebody removes has a cancelled context.
CancelInv ==
    /\ smu \in Threads =>
          /\ pc[smu] = "wait" /\ store = "running"
          /\ arg[smu] \in nodes /\ cancelled = {arg[smu]}
    /\ smu \notin Threads => cancelled = {}

\* A cached device of a running store has a goroutine or a closed doneCh, and
\* the latter for a reason; there is no other goroutine.
NodeInv ==
    /\ phase # "crashed"
    /\ orphans = {}
    /\ \A u \in Uris : poll[u][2] = "none"
    /\ store = "running" => \A u \in Uris : poll[u][1] # "none" <=> u \in nodes \ doneCh
    /\ store # "running" => doneCh = {} /\ \A u \in Uris : poll[u][1] = "none"
    /\ doneCh \subseteq nodes
    /\ \A u \in doneCh : signalled \/ u \in cancelled

IInv ==
    /\ TypeOK
    /\ StartInv /\ StopInv /\ PartsInv
    /\ CallInv /\ CancelInv
    /\ ~early => NodeInv

-----------------------------------------------------------------------------
(* Each invariant is preserved.                                            *)

\* The steps of main, in the order of the lists.
LEMMA StartPlaces ==
    ASSUME step \in 1 .. 7
    PROVE  /\ Starting("browser") => step = 1
           /\ Starting("restorer") => step = 2
           /\ Starting("store") => step = 3
           /\ Starting("monitor") => step = 4
           /\ Starting("server") => step = 5
           /\ Starting("mdns") => step = 6
           /\ Starting("end") => step = 7
BY DEF Starting, StartOrder

LEMMA StopPlaces ==
    ASSUME step \in 1 .. 8
    PROVE  /\ Stopping("browser") => step = 1
           /\ Stopping("database") => step = 2
           /\ Stopping("restorer") => step = 3
           /\ Stopping("store") => step = 4
           /\ Stopping("monitor") => step = 5
           /\ Stopping("server") => step = 6
           /\ Stopping("mdns") => step = 7
           /\ Stopping("end") => step = 8
BY DEF Stopping, StopOrder

\* A second goroutine is started only where the first one is.
LEMMA SpawnedType ==
    ASSUME TypeOK, NEW u \in Uris
    PROVE  /\ Spawned(u) \in [Slots -> {"none", "running", "notify"}]
           /\ poll[u][1] = "none" =>
                 Spawned(u)[1] = "running" /\ Spawned(u)[2] = poll[u][2]
BY DEF TypeOK, Spawned, Slots

LEMMA InitInv == Init => IInv
<1> SUFFICES ASSUME Init PROVE IInv
  OBVIOUS
<1>1. TypeOK
  <2>1. NoGoroutine \in [Slots -> {"none", "running", "notify"}]
    BY DEF NoGoroutine
  <2>2. nodes \in SUBSET Uris
    BY DEF Init
  <2>3. /\ opts \in [monitor : BOOLEAN, autodiscovery : BOOLEAN, cacheDir : BOOLEAN]
        /\ runner \in [Runners -> {"new", "running", "exited"}]
        /\ poll \in [Uris -> [Slots -> {"none", "running", "notify"}]]
    BY <2>1 DEF Init
  <2>4. /\ pc \in [Threads -> {"idle", "monlock", "store", "wait", "scan"}]
        /\ op \in [Threads -> {"none", "add", "remove"}]
        /\ arg \in [Threads -> Uris \union {None}]
    BY DEF Init
  <2>5. /\ mmu \in Threads \union {None} /\ smu \in Threads \union {None, Main}
        /\ step \in 1 .. 8
    BY DEF Init
  <2> QED
    BY <2>2, <2>3, <2>4, <2>5 DEF Init, TypeOK
<1>2. StartInv /\ StopInv /\ PartsInv
  BY DEF Init, StartInv, StopInv, PartsInv, Runners
<1>3. CallInv /\ CancelInv
  BY ThreadsAssumption DEF Init, CallInv, CancelInv, Threads
<1>4. NodeInv
  BY DEF Init, NodeInv, NoGoroutine, Slots
<1> QED
  BY <1>1, <1>2, <1>3, <1>4 DEF IInv

\* The types of the variables that the steps of main and of its parts change.
LEMMA TypeMain == TypeOK /\ StartInv /\ (MainStep \/ Signal \/ Kill \/ RunnerStep) => TypeOK'
<1> SUFFICES ASSUME TypeOK, StartInv, MainStep \/ Signal \/ Kill \/ RunnerStep PROVE TypeOK'
  OBVIOUS
<1> USE DEF TypeOK, mainVars, restOfMain, nodeVars, pollVars, callVars
<1>1. ASSUME NEW p, Starting(p), NextPart, p # "end" PROVE step' \in 1 .. 8
  BY <1>1 DEF NextPart, Starting, StartOrder, StartInv
<1>2. ASSUME NEW p, Stopping(p), NextPart, p # "end" PROVE step' \in 1 .. 8
  BY <1>2 DEF NextPart, Stopping, StopOrder
<1>3. ASSUME NEW r \in Runners, StartRunner(r) PROVE TypeOK'
  BY <1>1, <1>3 DEF StartRunner, NextPart, Runners
<1>4. ASSUME NEW r \in Runners, StopRunner(r) PROVE TypeOK'
  BY <1>2, <1>4 DEF StopRunner, NextPart, Runners
<1>5. CASE StartStore
  <2>1. \A u \in Uris : Spawned(u) \in [Slots -> {"none", "running", "notify"}]
    BY SpawnedType
  <2> QED
    BY <1>1, <1>5, <2>1 DEF StartStore, NextPart
<1>6. CASE StartServer \/ StartMdns
  BY <1>1, <1>6 DEF StartServer, StartMdns, NextPart
<1>10. CASE BeginStop
  BY <1>10 DEF BeginStop
<1>12. CASE Signal
  BY <1>12 DEF Signal
<1>11. CASE Kill \/ Exit
  BY <1>11 DEF Kill, Exit
<1>7. CASE CloseDatabase \/ LockStop \/ StopStore
  <2>1. CASE CloseDatabase
    BY <1>2, <2>1 DEF CloseDatabase, NextPart
  <2>2. CASE LockStop
    BY <2>2 DEF LockStop
  <2>3. CASE StopStore
    BY <1>2, <2>3 DEF StopStore, NextPart
  <2> QED
    BY <1>7, <2>1, <2>2, <2>3
<1>8. CASE CloseServer \/ StopServer \/ StopMdns
  BY <1>2, <1>8 DEF CloseServer, CloseListener, StopServer, StopMdns, NextPart
<1>9. CASE RunnerStep
  BY <1>9 DEF RunnerStep, RestoreOk, RunnerExit, ServeEnd, restOfRunner
<1> QED
  BY <1>3, <1>4, <1>5, <1>6, <1>7, <1>8, <1>9, <1>10, <1>11, <1>12 DEF MainStep

\* The types of what calls and pollers change.
LEMMA TypeCalls == TypeOK /\ CallInv /\ (CallStep \/ PollStep) => TypeOK'
<1> SUFFICES ASSUME TypeOK, CallInv, CallStep \/ PollStep PROVE TypeOK'
  OBVIOUS
<1> USE ThreadsAssumption DEF TypeOK, mainVars, nodeVars, pollVars, callVars, restOfCall, Goto
<1>1. ASSUME NEW u \in Uris, NEW h \in Handlers, NEW o \in {"add", "remove"}, Handle(h, o, u)
      PROVE  TypeOK'
  BY <1>1 DEF Handle, Call, Outer, Threads
<1>2. ASSUME NEW u \in Uris, HandleService(u) \/ ScanRemove(u) PROVE TypeOK'
  BY <1>2 DEF HandleService, ScanRemove, Call, Outer, Threads
<1>3. CASE ScanBegin \/ ScanEnd
  BY <1>3 DEF ScanBegin, ScanEnd, Threads
<1>4. ASSUME NEW t \in Threads, MonLock(t) PROVE TypeOK'
  BY <1>4 DEF MonLock
<1>5. ASSUME NEW t \in Threads, StoreAdd(t) PROVE TypeOK'
  <2>1. arg[t] \in Uris
    BY <1>5 DEF StoreAdd, CallInv
  <2>2. /\ pc' \in [Threads -> {"idle", "monlock", "store", "wait", "scan"}]
        /\ op' \in [Threads -> {"none", "add", "remove"}]
        /\ arg' \in [Threads -> Uris \union {None}]
        /\ mmu' \in Threads \union {None}
    BY <1>5 DEF StoreAdd, Return
  <2>3. CASE AddOk(t)
    BY <1>5, <2>1, <2>2, <2>3, SpawnedType DEF StoreAdd, AddOk
  <2>4. CASE AddFails(t) \/ AddPanics(t)
    BY <1>5, <2>1, <2>2, <2>4 DEF StoreAdd, AddFails, AddPanics
  <2> QED
    BY <1>5, <2>3, <2>4 DEF StoreAdd
<1>6. ASSUME NEW t \in Threads, RemoveFails(t) \/ RemoveBegin(t) PROVE TypeOK'
  BY <1>6 DEF RemoveFails, RemoveBegin, Return
<1>7. ASSUME NEW t \in Threads, RemoveEnd(t) PROVE TypeOK'
  <2>1. arg[t] \in Uris
    BY <1>7 DEF RemoveEnd, CallInv
  <2>2. NoGoroutine \in [Slots -> {"none", "running", "notify"}]
    BY DEF NoGoroutine
  <2>3. /\ pc' \in [Threads -> {"idle", "monlock", "store", "wait", "scan"}]
        /\ op' \in [Threads -> {"none", "add", "remove"}]
        /\ arg' \in [Threads -> Uris \union {None}]
        /\ mmu' \in Threads \union {None}
    BY <1>7 DEF RemoveEnd, Return
  <2> QED
    BY <1>7, <2>1, <2>2, <2>3 DEF RemoveEnd
<1>8. ASSUME NEW u \in Uris, NEW s \in Slots,
             PollOk(u, s) \/ NotifyAlive(u, s) \/ PollExit(u, s)
      PROVE  TypeOK'
  BY <1>8 DEF PollOk, NotifyAlive, PollExit, Poll, restOfPoll
<1>9. ASSUME NEW u \in Uris, OrphanExit(u) \/ LeakedExit(u) PROVE TypeOK'
  BY <1>9 DEF OrphanExit, LeakedExit
<1> QED
  BY <1>1, <1>2, <1>3, <1>4, <1>5, <1>6, <1>7, <1>8, <1>9 DEF CallStep, Proceed, PollStep

OrderInv == StartInv /\ StopInv /\ PartsInv

\* main moves along its lists.
LEMMA OrderMain ==
    ASSUME TypeOK, OrderInv, MainStep \/ Signal \/ Kill
    PROVE  OrderInv'
<1> USE DEF TypeOK, OrderInv, StartInv, StopInv, PartsInv, mainVars, restOfMain,
            nodeVars, pollVars, callVars
<1>1. ASSUME NEW r \in Runners, StartRunner(r) PROVE OrderInv'
  <2>1. /\ r = "browser" => step = 1
        /\ r = "restorer" => step = 2
        /\ r = "monitor" => step = 4
    BY <1>1, StartPlaces DEF StartRunner, Starting
  <2> QED
    BY <1>1, <2>1 DEF StartRunner, Starting, NextPart, InUse, Runners
<1>2. ASSUME NEW r \in Runners, StopRunner(r) PROVE OrderInv'
  <2>1. /\ r = "browser" => step = 1
        /\ r = "restorer" => step = 3
        /\ r = "monitor" => step = 5
    BY <1>2, StopPlaces DEF StopRunner
  <2> QED
    BY <1>2, <2>1 DEF StopRunner, Stopping, NextPart, InUse, Runners
<1>3. CASE StartStore
  BY <1>3, StartPlaces DEF StartStore, Starting, NextPart
<1>4. CASE StartServer
  BY <1>4, StartPlaces DEF StartServer, Starting, NextPart
<1>5. CASE StartMdns
  <2>1. step = 6
    BY <1>5, StartPlaces DEF StartMdns, Starting
  <2>2. CASE NextPart
    BY <1>5, <2>1, <2>2 DEF StartMdns, Starting, NextPart
  <2>3. CASE phase' = "failed" /\ UNCHANGED step
    BY <1>5, <2>1, <2>3 DEF StartMdns, Starting
  <2> QED
    BY <1>5, <2>2, <2>3 DEF StartMdns
<1>6. CASE BeginStop
  BY <1>6, StartPlaces DEF BeginStop, Starting
<1>7. CASE Signal \/ Kill
  BY <1>7 DEF Signal, Kill
<1>8. CASE CloseDatabase
  BY <1>8, StopPlaces DEF CloseDatabase, Stopping, NextPart
<1>9. CASE LockStop
  BY <1>9 DEF LockStop
<1>10. CASE StopStore
  BY <1>10, StopPlaces DEF StopStore, Stopping, NextPart
<1>11. CASE CloseServer
  BY <1>11, StopPlaces DEF CloseServer, CloseListener, Stopping
<1>12. CASE StopServer \/ StopMdns
  BY <1>12, StopPlaces DEF StopServer, StopMdns, Stopping, NextPart
<1>13. CASE Exit
  BY <1>13, StopPlaces DEF Exit, Stopping
<1> QED
  BY <1>1, <1>2, <1>3, <1>4, <1>5, <1>6, <1>7, <1>8, <1>9, <1>10, <1>11, <1>12, <1>13
  DEF MainStep

\* Nothing else moves main, and parts only end while main has started them.
LEMMA OrderOthers ==
    ASSUME TypeOK, OrderInv, CallInv, CancelInv, ~Ended, RunnerStep \/ CallStep \/ PollStep
    PROVE  OrderInv'
<1> USE DEF TypeOK, OrderInv, StartInv, StopInv, PartsInv, mainVars, nodeVars, pollVars,
            callVars, restOfCall
<1>1. CASE RunnerStep
  BY <1>1 DEF RunnerStep, RestoreOk, RunnerExit, ServeEnd, restOfRunner, Runners
<1>2. ASSUME NEW u \in Uris, NEW h \in Handlers, NEW o \in {"add", "remove"}, Handle(h, o, u)
      PROVE  OrderInv'
  BY <1>2 DEF Handle
<1>3. ASSUME NEW u \in Uris, HandleService(u) \/ ScanRemove(u) PROVE OrderInv'
  BY <1>3 DEF HandleService, ScanRemove
<1>4. CASE ScanBegin \/ ScanEnd
  BY <1>4 DEF ScanBegin, ScanEnd
<1>5. ASSUME NEW t \in Threads, Proceed(t) PROVE OrderInv'
  <2>1. CASE MonLock(t) \/ RemoveFails(t) \/ RemoveBegin(t)
    BY <2>1 DEF MonLock, RemoveFails, RemoveBegin
  <2>2. CASE StoreAdd(t)
    BY <2>2 DEF StoreAdd, AddOk, AddFails, AddPanics
  <2>3. CASE RemoveEnd(t)
    BY <2>3 DEF RemoveEnd
  <2> QED
    BY <1>5, <2>1, <2>2, <2>3 DEF Proceed
<1>6. ASSUME NEW u \in Uris, NEW s \in Slots,
             PollOk(u, s) \/ NotifyAlive(u, s) \/ PollExit(u, s)
      PROVE  OrderInv'
  BY <1>6 DEF PollOk, NotifyAlive, PollExit, restOfPoll
<1>7. ASSUME NEW u \in Uris, OrphanExit(u) \/ LeakedExit(u) PROVE OrderInv'
  BY <1>7 DEF OrphanExit, LeakedExit
<1> QED
  BY <1>1, <1>2, <1>3, <1>4, <1>5, <1>6, <1>7 DEF CallStep, PollStep

\* Main does not touch the calls; requests come only while the server is up.
LEMMA CallMain ==
    ASSUME TypeOK, OrderInv, CallInv, CancelInv, MainStep \/ Signal \/ Kill \/ RunnerStep
    PROVE  CallInv' /\ CancelInv'
<1> USE ThreadsAssumption DEF TypeOK, CallInv, CancelInv, mainVars, restOfMain,
            nodeVars, pollVars, callVars, Threads
<1>1. ASSUME NEW r \in Runners, StartRunner(r) \/ StopRunner(r) PROVE CallInv' /\ CancelInv'
  BY <1>1 DEF StartRunner, StopRunner, NextPart, Runners
<1>2. CASE StartStore
  BY <1>2 DEF StartStore
<1>3. CASE StartServer \/ StartMdns \/ BeginStop \/ Signal \/ Kill \/ Exit
  BY <1>3 DEF StartServer, StartMdns, BeginStop, Signal, Kill, Exit
<1>4. CASE CloseDatabase \/ LockStop
  BY <1>4 DEF CloseDatabase, LockStop
<1>5. CASE StopStore
  BY <1>5 DEF StopStore
<1>6. CASE CloseServer \/ StopServer \/ StopMdns
  BY <1>6 DEF CloseServer, CloseListener, StopServer, StopMdns
<1>7. CASE RunnerStep
  BY <1>7 DEF RunnerStep, RestoreOk, RunnerExit, ServeEnd, restOfRunner, Runners
<1> QED
  BY <1>1, <1>2, <1>3, <1>4, <1>5, <1>6, <1>7 DEF MainStep

\* A thread waits only with CacheStore.mu, for the device it has cancelled.
LEMMA CallCalls ==
    ASSUME TypeOK, OrderInv, CallInv, CancelInv, CallStep \/ PollStep
    PROVE  CallInv' /\ CancelInv'
<1> USE ThreadsAssumption DEF TypeOK, CallInv, CancelInv, mainVars, nodeVars, pollVars, callVars,
            restOfCall, Goto, Threads
<1>1. ASSUME NEW u \in Uris, NEW h \in Handlers, NEW o \in {"add", "remove"}, Handle(h, o, u)
      PROVE  CallInv' /\ CancelInv'
  BY <1>1 DEF Handle, Call, Outer
<1>2. ASSUME NEW u \in Uris, HandleService(u) PROVE CallInv' /\ CancelInv'
  BY <1>2 DEF HandleService, Call, Outer
<1>3. ASSUME NEW u \in Uris, ScanRemove(u) PROVE CallInv' /\ CancelInv'
  BY <1>3 DEF ScanRemove, Call
<1>4. CASE ScanBegin \/ ScanEnd
  BY <1>4 DEF ScanBegin, ScanEnd
<1>5. ASSUME NEW t \in Threads, MonLock(t) PROVE CallInv' /\ CancelInv'
  BY <1>5 DEF MonLock
<1>6. ASSUME NEW t \in Threads, StoreAdd(t) PROVE CallInv' /\ CancelInv'
  <2>1. cancelled' = cancelled /\ nodes \subseteq nodes'
    BY <1>6 DEF StoreAdd, AddOk, AddFails, AddPanics
  <2> QED
    BY <1>6, <2>1 DEF StoreAdd, Return
<1>7. ASSUME NEW t \in Threads, RemoveFails(t) PROVE CallInv' /\ CancelInv'
  BY <1>7 DEF RemoveFails, Return
<1>8. ASSUME NEW t \in Threads, RemoveBegin(t) PROVE CallInv' /\ CancelInv'
  <2>1. store = "running"
    BY <1>8 DEF RemoveBegin, OrderInv, PartsInv
  <2> QED
    BY <1>8, <2>1 DEF RemoveBegin
<1>9. ASSUME NEW t \in Threads, RemoveEnd(t) PROVE CallInv' /\ CancelInv'
  BY <1>9 DEF RemoveEnd, Return
<1>10. CASE PollStep
  BY <1>10 DEF PollStep, PollOk, NotifyAlive, PollExit, OrphanExit, LeakedExit, restOfPoll
<1> QED
  BY <1>1, <1>2, <1>3, <1>4, <1>5, <1>6, <1>7, <1>8, <1>9, <1>10 DEF CallStep, Proceed

\* Main: CacheStore.Start and Stop take the nodes as a whole.
LEMMA NodeMain ==
    ASSUME TypeOK, OrderInv, CallInv, CancelInv, NodeInv,
           MainStep \/ Signal \/ Kill \/ RunnerStep
    PROVE  NodeInv'
<1> USE DEF TypeOK, NodeInv, mainVars, restOfMain, nodeVars, pollVars, callVars
<1>1. ASSUME NEW r \in Runners, StartRunner(r) \/ StopRunner(r) PROVE NodeInv'
  BY <1>1 DEF StartRunner, StopRunner, NextPart
<1>2. CASE StartStore
  <2>1. store = "new" /\ phase' = phase
    BY <1>2, StartPlaces DEF StartStore, Starting, NextPart, OrderInv, StartInv
  <2>2. \A u \in Uris : Spawned(u)[1] = "running" /\ Spawned(u)[2] = "none"
    BY <2>1, SpawnedType
  <2> QED
    BY <1>2, <2>1, <2>2 DEF StartStore
<1>3. CASE StartServer \/ StartMdns \/ BeginStop \/ Signal \/ Kill \/ Exit
  BY <1>3 DEF StartServer, StartMdns, BeginStop, Signal, Kill, Exit, NextPart
<1>4. CASE CloseDatabase \/ LockStop
  BY <1>4 DEF CloseDatabase, LockStop, NextPart
<1>5. CASE StopStore
  <2>1. store = "running"
    BY <1>5, StopPlaces DEF StopStore, Stopping, OrderInv, StopInv
  <2> QED
    BY <1>5, <2>1 DEF StopStore, AllDone, NextPart
<1>6. CASE CloseServer \/ StopServer \/ StopMdns
  BY <1>6 DEF CloseServer, CloseListener, StopServer, StopMdns, NextPart
<1>7. CASE RunnerStep
  BY <1>7 DEF RunnerStep, RestoreOk, RunnerExit, ServeEnd, restOfRunner
<1> QED
  BY <1>1, <1>2, <1>3, <1>4, <1>5, <1>6, <1>7 DEF MainStep

\* Calls: Add makes one goroutine and Remove waits for it.  An addition while
\* the store is new is the browser's, and early is then set.
LEMMA NodeCalls ==
    ASSUME TypeOK, OrderInv, CallInv, CancelInv, NodeInv, CallStep, ~early'
    PROVE  NodeInv'
<1> USE ThreadsAssumption DEF TypeOK, NodeInv, mainVars, nodeVars, pollVars, restOfCall, Threads
<1>1. ASSUME NEW u \in Uris, NEW h \in Handlers, NEW o \in {"add", "remove"}, Handle(h, o, u)
      PROVE  NodeInv'
  BY <1>1 DEF Handle
<1>2. ASSUME NEW u \in Uris, HandleService(u) \/ ScanRemove(u) PROVE NodeInv'
  BY <1>2 DEF HandleService, ScanRemove
<1>3. CASE ScanBegin \/ ScanEnd
  BY <1>3 DEF ScanBegin, ScanEnd
<1>4. ASSUME NEW t \in Threads, StoreAdd(t) PROVE NodeInv'
  <2>1. arg[t] \in Uris
    BY <1>4 DEF StoreAdd, CallInv
  <2>2. CASE AddOk(t)
    <3>1. store = "running"
      <4>1. t = Browser => store # "new"
        BY <2>2 DEF AddOk
      <4>2. t \in Handlers \union {Monitor} => store # "new"
        BY <1>4 DEF StoreAdd, OrderInv, PartsInv, CallInv
      <4> QED
        BY <2>2, <4>1, <4>2 DEF AddOk
    <3>2. poll[arg[t]][1] = "none" /\ arg[t] \notin doneCh
      BY <2>1, <2>2, <3>1 DEF AddOk
    <3>3. Spawned(arg[t])[1] = "running" /\ Spawned(arg[t])[2] = "none"
      BY <2>1, <3>2, SpawnedType
    <3>4. poll' = [poll EXCEPT ![arg[t]] = Spawned(arg[t])] /\ nodes' = nodes \union {arg[t]}
      BY <2>2 DEF AddOk
    <3>5. UNCHANGED <<phase, orphans, store, doneCh, cancelled, signalled>>
      BY <1>4, <2>2 DEF StoreAdd, AddOk
    <3>6. \A u \in Uris :
              /\ poll'[u][2] = "none"
              /\ poll'[u][1] # "none" <=> u \in nodes' \ doneCh'
      <4> SUFFICES ASSUME NEW u \in Uris
                   PROVE  /\ poll'[u][2] = "none"
                          /\ poll'[u][1] # "none" <=> u \in nodes' \ doneCh'
        OBVIOUS
      <4>1. CASE u = arg[t]
        BY <2>1, <3>2, <3>3, <3>4, <3>5, <4>1
      <4>2. CASE u # arg[t]
        BY <2>1, <3>1, <3>4, <3>5, <4>2
      <4> QED
        BY <4>1, <4>2
    <3> QED
      BY <2>1, <3>1, <3>4, <3>5, <3>6
  <2>3. CASE AddFails(t) \/ AddPanics(t)
    BY <1>4, <2>3 DEF StoreAdd, AddFails, AddPanics
  <2> QED
    BY <1>4, <2>2, <2>3 DEF StoreAdd
<1>5. ASSUME NEW t \in Threads, MonLock(t) \/ RemoveFails(t) PROVE NodeInv'
  BY <1>5 DEF MonLock, RemoveFails
<1>6. ASSUME NEW t \in Threads, RemoveBegin(t) PROVE NodeInv'
  BY <1>6 DEF RemoveBegin
<1>7. ASSUME NEW t \in Threads, RemoveEnd(t) PROVE NodeInv'
  <2>1. arg[t] \in Uris /\ store = "running" /\ cancelled = {arg[t]}
    BY <1>7 DEF RemoveEnd, CallInv, CancelInv
  <2>2. poll[arg[t]] = NoGoroutine
    <3>1. poll[arg[t]][1] = "none" /\ poll[arg[t]][2] = "none"
      BY <1>7, <2>1 DEF RemoveEnd
    <3> QED
      BY <2>1, <3>1 DEF NoGoroutine, Slots
  <2>3. poll' = poll /\ orphans' = orphans
    BY <1>7, <2>1, <2>2 DEF RemoveEnd
  <2>4. /\ nodes' = nodes \ {arg[t]} /\ doneCh' = doneCh \ {arg[t]}
        /\ cancelled' = cancelled \ {arg[t]}
        /\ UNCHANGED <<phase, store, signalled>>
    BY <1>7 DEF RemoveEnd
  <2> QED
    BY <1>7, <2>1, <2>3, <2>4 DEF RemoveEnd
<1> QED
  BY <1>1, <1>2, <1>3, <1>4, <1>5, <1>6, <1>7 DEF CallStep, Proceed

\* Pollers: a goroutine ends once, and nobody has closed its doneCh before.
LEMMA NodePolls ==
    ASSUME TypeOK, OrderInv, NodeInv, PollStep
    PROVE  NodeInv'
<1> USE DEF TypeOK, NodeInv, mainVars, nodeVars, restOfPoll
<1>1. ASSUME NEW u \in Uris, NEW s \in Slots, PollOk(u, s) \/ NotifyAlive(u, s) PROVE NodeInv'
  BY <1>1 DEF PollOk, NotifyAlive, Poll, Slots
<1>2. ASSUME NEW u \in Uris, NEW s \in Slots, PollExit(u, s) PROVE NodeInv'
  <2>1. s = 1
    BY <1>2 DEF PollExit, Slots
  <2>2. u \in nodes \ doneCh
    BY <1>2, <2>1 DEF PollExit
  <2> QED
    BY <1>2, <2>1, <2>2 DEF PollExit, Poll, Slots
<1>3. ASSUME NEW u \in Uris, OrphanExit(u) \/ LeakedExit(u) PROVE NodeInv'
  BY <1>3 DEF OrphanExit, LeakedExit
<1> QED
  BY <1>1, <1>2, <1>3 DEF PollStep

-----------------------------------------------------------------------------
(* The theorems.                                                           *)

LEMMA StepInv == IInv /\ [Next]_vars => IInv'
<1> SUFFICES ASSUME IInv, [Next]_vars PROVE IInv'
  OBVIOUS
<1>1. CASE UNCHANGED vars
  <2>1. TypeOK'
    BY <1>1 DEF IInv, TypeOK, vars, mainVars, nodeVars, pollVars, callVars
  <2>2. OrderInv'
    BY <1>1 DEF IInv, OrderInv, StartInv, StopInv, PartsInv, vars, mainVars, nodeVars, pollVars,
                callVars
  <2>3. CallInv' /\ CancelInv'
    BY <1>1 DEF IInv, CallInv, CancelInv, vars, mainVars, nodeVars, pollVars, callVars
  <2>4. ~early' => NodeInv'
    BY <1>1 DEF IInv, NodeInv, vars, mainVars, nodeVars, pollVars, callVars
  <2> QED
    BY <2>1, <2>2, <2>3, <2>4 DEF IInv, OrderInv
<1>2. CASE ~Ended /\ (MainStep \/ Signal \/ Kill \/ RunnerStep \/ CallStep \/ PollStep)
  <2>1. TypeOK'
    BY <1>2, TypeMain, TypeCalls DEF IInv
  <2>2. OrderInv'
    BY <1>2, OrderMain, OrderOthers DEF IInv, OrderInv
  <2>3. CallInv' /\ CancelInv'
    BY <1>2, CallMain, CallCalls DEF IInv, OrderInv
  <2>4. ASSUME ~early' PROVE NodeInv'
    <3>1. CASE CallStep
      <4>1. ~early
        BY <2>4, <3>1 DEF CallStep, Proceed, Handle, HandleService, ScanRemove, ScanBegin, ScanEnd,
              MonLock, StoreAdd, AddOk, AddFails, AddPanics, RemoveFails, RemoveBegin, RemoveEnd,
              restOfCall
      <4> QED
        BY <2>4, <3>1, <4>1, NodeCalls DEF IInv, OrderInv
    <3>2. CASE PollStep
      BY <2>4, <3>2, NodePolls DEF IInv, OrderInv, PollStep, PollOk, NotifyAlive, PollExit,
            OrphanExit, LeakedExit, restOfPoll
    <3>3. CASE MainStep \/ Signal \/ Kill \/ RunnerStep
      <4>1. ~early
        BY <2>4, <3>3 DEF MainStep, StartRunner, StopRunner, StartStore, StartServer, StartMdns,
              BeginStop, CloseDatabase, LockStop, StopStore, CloseServer, StopServer, StopMdns,
              Exit, Signal, Kill, RunnerStep, RestoreOk, RunnerExit, ServeEnd, restOfRunner,
              restOfMain
      <4> QED
        BY <2>4, <3>3, <4>1, NodeMain DEF IInv, OrderInv
    <3> QED
      BY <1>2, <3>1, <3>2, <3>3
  <2> QED
    BY <2>1, <2>2, <2>3, <2>4 DEF IInv, OrderInv
<1> QED
  BY <1>1, <1>2 DEF Next

LEMMA Invariant == Spec => []IInv
BY InitInv, StepInv, PTL DEF Spec

\* Every variable keeps its type, for any devices and handlers.
THEOREM TypeCorrect == Spec => []TypeOK
<1>1. IInv => TypeOK
  BY DEF IInv
<1> QED
  BY Invariant, <1>1, PTL

\* Without an addition before CacheStore.Start, a device of a running store
\* has one goroutine and no other (main.go, createCacheStore; cache_store.go,
\* Start, Add and Remove), and no doneCh is closed twice.
THEOREM EachIsPolledByOne == Spec => []PolledByOne
<1>1. IInv => PolledByOne
  <2> SUFFICES ASSUME IInv, ~early
               PROVE  /\ phase # "crashed"
                      /\ \A u \in Uris : Single(u)
                      /\ store = "running" /\ smu = None /\ ~signalled =>
                            \A u \in nodes : poll[u][1] # "none"
    BY DEF PolledByOne
  <2> USE ThreadsAssumption DEF IInv, NodeInv, TypeOK
  <2>1. \A u \in Uris : Single(u)
    BY DEF Single
  <2>2. smu = None => cancelled = {}
    BY DEF CancelInv, Threads
  <2> QED
    BY <2>1, <2>2
<1> QED
  BY Invariant, <1>1, PTL

\* Under the same condition, and with a database, CacheStore.Stop is the end of
\* polling and FanoutStopper.Stop that of the parts of main.
THEOREM StopIsComplete == Spec => []NothingAfterStop
<1>1. IInv => NothingAfterStop
  <2> SUFFICES ASSUME IInv, opts.cacheDir, ~early
               PROVE  /\ store = "stopped" => \A u \in Uris : Unpolled(u)
                      /\ phase = "exited" =>
                            /\ store = "stopped" /\ server = "done"
                            /\ \A r \in Runners : runner[r] \in {"new", "exited"}
    BY DEF NothingAfterStop
  <2>1. ASSUME store = "stopped", NEW u \in Uris PROVE Unpolled(u)
    <3>1. poll[u][1] = "none" /\ poll[u][2] = "none" /\ orphans = {} /\ leaked = {}
      BY <2>1 DEF IInv, NodeInv, PartsInv
    <3>2. poll[u] = NoGoroutine
      BY <3>1 DEF IInv, TypeOK, NoGoroutine, Slots
    <3> QED
      BY <3>1, <3>2 DEF Unpolled
  <2>2. ASSUME phase = "exited"
        PROVE  /\ store = "stopped" /\ server = "done"
               /\ \A r \in Runners : runner[r] \in {"new", "exited"}
    BY <2>2 DEF IInv, StopInv, Runners
  <2> QED
    BY <2>1, <2>2
<1> QED
  BY Invariant, <1>1, PTL

-----------------------------------------------------------------------------
(* What is awaited.                                                        *)

\* What is started stays so, and main stops nothing before all is started.
StartedInv ==
    /\ phase = "start" =>
          /\ step > 1 => runner["browser"] # "new"
          /\ step > 2 => runner["restorer"] # "new"
          /\ step > 4 /\ opts.monitor => runner["monitor"] # "new"
          /\ step > 5 => server # "new"
    /\ phase = "stop" =>
          /\ \A r \in Runners : InUse(r) => runner[r] # "new"
          /\ server # "new"

\* Main holds CacheStore.mu while it stops the store, and only then.
StopLockInv == smu = Main /\ ~Ended => phase = "stop" /\ step = 4

\* A node of a running store has a goroutine, or one has closed its doneCh;
\* two may have been started for it.
LivingInv ==
    store = "running" => \A u \in nodes \ doneCh : \E s \in Slots : poll[u][s] # "none"

\* Who holds the monitor's mutex, and that there is a monitor to report to.
MonitorInv ==
    /\ pc[Monitor] # "monlock"
    /\ pc[Monitor] # "idle" => mmu = Monitor
    /\ \A t \in Threads : mmu = t => pc[t] \in {"store", "wait", "scan"}
    /\ wrapped # {} => opts.monitor
    /\ \A u \in Uris, s \in Slots : poll[u][s] = "notify" => opts.monitor

AwaitInv == StartedInv /\ StopLockInv /\ LivingInv /\ MonitorInv

\* A node that is started has a goroutine afterwards.
LEMMA SpawnedLives ==
    ASSUME TypeOK, NEW u \in Uris
    PROVE  /\ \E s \in Slots : Spawned(u)[s] # "none"
           /\ \A s \in Slots : Spawned(u)[s] = "notify" => poll[u][s] = "notify"
BY DEF TypeOK, Spawned, Slots

LEMMA AwaitMain ==
    ASSUME IInv, AwaitInv, ~Ended, MainStep \/ Signal \/ Kill \/ RunnerStep
    PROVE  AwaitInv'
<1> USE ThreadsAssumption
    DEF IInv, TypeOK, AwaitInv, StartedInv, StopLockInv, LivingInv, MonitorInv,
            mainVars, restOfMain, nodeVars, pollVars, callVars, Ended, InUse, Threads
<1>1. ASSUME NEW r \in Runners, StartRunner(r) PROVE AwaitInv'
  <2>1. /\ r = "browser" => step = 1
        /\ r = "restorer" => step = 2
        /\ r = "monitor" => step = 4
    BY <1>1, StartPlaces DEF StartRunner, Starting, StartInv
  <2> QED
    BY <1>1, <2>1 DEF StartRunner, Starting, NextPart, Runners
<1>2. ASSUME NEW r \in Runners, StopRunner(r) PROVE AwaitInv'
  <2>1. step # 4
    BY <1>2, StopPlaces DEF StopRunner, Runners
  <2> QED
    BY <1>2, <2>1 DEF StopRunner, Stopping, NextPart
<1>3. CASE StartStore
  <2>1. step = 3 /\ smu = None
    BY <1>3, StartPlaces DEF StartStore, Starting, StartInv
  <2>2. \A u \in nodes : \E s \in Slots : poll'[u][s] # "none"
    BY <1>3, SpawnedLives DEF StartStore
  <2>3. \A u \in Uris, s \in Slots : poll'[u][s] = "notify" => opts.monitor
    BY <1>3, SpawnedLives DEF StartStore
  <2> QED
    BY <1>3, <2>1, <2>2, <2>3 DEF StartStore, Starting, NextPart
<1>4. CASE StartServer
  BY <1>4, StartPlaces DEF StartServer, Starting, NextPart, StartInv
<1>5. CASE StartMdns
  BY <1>5, StartPlaces DEF StartMdns, Starting, NextPart, StartInv
<1>6. CASE BeginStop
  BY <1>6, StartPlaces DEF BeginStop, Starting, Runners, StartInv
<1>7. CASE Signal \/ Kill \/ Exit
  BY <1>7 DEF Signal, Kill, Exit
<1>8. CASE CloseDatabase
  BY <1>8, StopPlaces DEF CloseDatabase, Stopping, NextPart
<1>9. CASE LockStop
  BY <1>9, StopPlaces DEF LockStop, Stopping
<1>10. CASE StopStore
  BY <1>10 DEF StopStore, Stopping, NextPart
<1>11. CASE CloseServer
  BY <1>11 DEF CloseServer, CloseListener
<1>12. CASE StopServer \/ StopMdns
  BY <1>12, StopPlaces DEF StopServer, StopMdns, Stopping, NextPart
<1>13. CASE RunnerStep
  BY <1>13 DEF RunnerStep, RestoreOk, RunnerExit, ServeEnd, restOfRunner, Runners
<1> QED
  BY <1>1, <1>2, <1>3, <1>4, <1>5, <1>6, <1>7, <1>8, <1>9, <1>10, <1>11, <1>12, <1>13
  DEF MainStep

\* Calls: the mutex of the monitor is given back by the thread that took it.
LEMMA AwaitCalls ==
    ASSUME IInv, AwaitInv, CallStep
    PROVE  AwaitInv'
<1> USE ThreadsAssumption
    DEF IInv, TypeOK, AwaitInv, StartedInv, StopLockInv, LivingInv, MonitorInv,
            mainVars, nodeVars, pollVars, restOfCall, Goto, Ended, InUse, Threads
<1>1. ASSUME NEW u \in Uris, NEW h \in Handlers, NEW o \in {"add", "remove"}, Handle(h, o, u)
      PROVE  AwaitInv'
  BY <1>1 DEF Handle, Call, Outer
<1>2. ASSUME NEW u \in Uris, HandleService(u) \/ ScanRemove(u) PROVE AwaitInv'
  BY <1>2 DEF HandleService, ScanRemove, Call, Outer
<1>3. CASE ScanBegin \/ ScanEnd
  BY <1>3 DEF ScanBegin, ScanEnd
<1>4. ASSUME NEW t \in Threads, MonLock(t) PROVE AwaitInv'
  BY <1>4 DEF MonLock
<1>5. ASSUME NEW t \in Threads, StoreAdd(t) PROVE AwaitInv'
  <2>1. arg[t] \in Uris
    BY <1>5 DEF StoreAdd, CallInv
  <2>2. /\ UNCHANGED <<opts, phase, step, runner, server, store, smu>>
        /\ pc' = [pc EXCEPT ![t] = IF t = Monitor THEN "scan" ELSE "idle"]
        /\ mmu' = IF t # Monitor /\ mmu = t THEN None ELSE mmu
    BY <1>5 DEF StoreAdd, Return
  <2>3. CASE AddOk(t)
    <3>1. wrapped' # {} => opts.monitor
      BY <2>3 DEF AddOk
    <3>2. LivingInv'
      BY <2>1, <2>2, <2>3, SpawnedLives DEF AddOk
    <3>3. \A u \in Uris, s \in Slots : poll'[u][s] = "notify" => opts.monitor
      BY <2>1, <2>3, SpawnedLives DEF AddOk
    <3> QED
      BY <2>2, <3>1, <3>2, <3>3, <1>5 DEF StoreAdd
  <2>4. CASE AddFails(t) \/ AddPanics(t)
    BY <1>5, <2>2, <2>4 DEF StoreAdd, AddFails, AddPanics
  <2> QED
    BY <1>5, <2>3, <2>4 DEF StoreAdd
<1>6. ASSUME NEW t \in Threads, RemoveFails(t) PROVE AwaitInv'
  BY <1>6 DEF RemoveFails, Return
<1>7. ASSUME NEW t \in Threads, RemoveBegin(t) PROVE AwaitInv'
  BY <1>7 DEF RemoveBegin
<1>8. ASSUME NEW t \in Threads, RemoveEnd(t) PROVE AwaitInv'
  <2>1. arg[t] \in Uris
    BY <1>8 DEF RemoveEnd, CallInv
  <2>2. /\ UNCHANGED <<opts, phase, step, runner, server, store>>
        /\ smu' = None
        /\ pc' = [pc EXCEPT ![t] = IF t = Monitor THEN "scan" ELSE "idle"]
        /\ mmu' = IF t # Monitor /\ mmu = t THEN None ELSE mmu
        /\ nodes' = nodes \ {arg[t]} /\ wrapped' = wrapped \ {arg[t]}
        /\ doneCh' = doneCh \ {arg[t]}
        /\ poll' = [poll EXCEPT ![arg[t]] = NoGoroutine]
    BY <1>8 DEF RemoveEnd, Return
  <2>3. \A u \in Uris : u # arg[t] => poll'[u] = poll[u]
    BY <2>1, <2>2
  <2>4. LivingInv'
    BY <2>2, <2>3
  <2>5. \A u \in Uris, s \in Slots : poll'[u][s] = "notify" => opts.monitor
    BY <2>1, <2>2 DEF NoGoroutine
  <2> QED
    BY <1>8, <2>2, <2>4, <2>5 DEF RemoveEnd
<1> QED
  BY <1>1, <1>2, <1>3, <1>4, <1>5, <1>6, <1>7, <1>8 DEF CallStep, Proceed

\* Pollers: the goroutine that ends closes doneCh, or the process crashes.
LEMMA AwaitPolls ==
    ASSUME IInv, AwaitInv, PollStep
    PROVE  AwaitInv'
<1> USE DEF IInv, TypeOK, AwaitInv, StartedInv, StopLockInv, LivingInv, MonitorInv,
            mainVars, nodeVars, callVars, restOfPoll, Ended, InUse
<1>1. ASSUME NEW u \in Uris, NEW s \in Slots, PollOk(u, s) \/ NotifyAlive(u, s) PROVE AwaitInv'
  <2>1. \A v \in Uris, x \in Slots :
           /\ poll[v][x] # "none" => poll'[v][x] # "none"
           /\ poll'[v][x] = "notify" => poll[v][x] = "notify" \/ wrapped # {}
    BY <1>1 DEF PollOk, NotifyAlive, Poll
  <2> QED
    BY <1>1, <2>1 DEF PollOk, NotifyAlive
<1>2. ASSUME NEW u \in Uris, NEW s \in Slots, PollExit(u, s) PROVE AwaitInv'
  <2>1. \A v \in Uris, x \in Slots :
           /\ v # u => poll'[v] = poll[v]
           /\ poll'[v][x] = "notify" => poll[v][x] = "notify"
    BY <1>2 DEF PollExit, Poll
  <2>2. u \in doneCh' /\ doneCh \subseteq doneCh' /\ phase' \in {phase, "crashed"}
    BY <1>2 DEF PollExit
  <2> QED
    BY <1>2, <2>1, <2>2 DEF PollExit
<1>3. ASSUME NEW u \in Uris, OrphanExit(u) \/ LeakedExit(u) PROVE AwaitInv'
  BY <1>3 DEF OrphanExit, LeakedExit
<1> QED
  BY <1>1, <1>2, <1>3 DEF PollStep

LEMMA AwaitInvariant == Spec => []AwaitInv
<1>1. Init => AwaitInv
  BY ThreadsAssumption DEF Init, AwaitInv, StartedInv, StopLockInv, LivingInv, MonitorInv,
     NoGoroutine, Threads
<1>2. IInv /\ AwaitInv /\ [Next]_vars => AwaitInv'
  <2>1. ASSUME IInv, AwaitInv, UNCHANGED vars PROVE AwaitInv'
    BY <2>1 DEF AwaitInv, StartedInv, StopLockInv, LivingInv, MonitorInv, InUse, Ended, vars,
       mainVars, nodeVars, pollVars, callVars
  <2> QED
    BY <2>1, AwaitMain, AwaitCalls, AwaitPolls DEF Next
<1> QED
  BY Invariant, <1>1, <1>2, PTL DEF Spec

\* Whatever main or a call waits for has been started, told to end, and can
\* come, unless a poller reports to the monitor (main.go, start and stop;
\* cache_store.go, Start, Stop, Remove; async_task_runner.go, Stop).
THEOREM AwaitedCanCome == Spec => []NothingAwaitedInVain
<1>1. IInv /\ AwaitInv => NothingAwaitedInVain
  <2> SUFFICES ASSUME IInv, AwaitInv, ~Ended PROVE NothingAwaitedInVain
    BY DEF NothingAwaitedInVain
  <2> USE DEF IInv, AwaitInv
  <2>1. \A u \in Uris : (\E s \in Slots : poll[u][s] # "none") => poll[u] # NoGoroutine
    BY DEF NoGoroutine
  <2>2. ASSUME NEW r \in Runners, Stopping(r), InUse(r) PROVE runner[r] # "new"
    BY <2>2 DEF Stopping, StartedInv
  <2>3. Stopping("server") => server # "new"
    BY DEF Stopping, StartedInv
  <2>4. smu = Main => Stopping("store") /\ signalled
    BY DEF StopLockInv, StopInv, Stopping, StopOrder
  <2>5. ASSUME Stopping("store"), NEW u \in nodes \ doneCh PROVE poll[u] # NoGoroutine
    <3>1. store = "running"
      BY <2>5, StopPlaces DEF Stopping, StopInv, TypeOK
    <3> QED
      BY <2>1, <2>5, <3>1 DEF LivingInv, TypeOK
  <2>6. ASSUME NEW t \in Threads, smu = t
        PROVE  /\ pc[t] = "wait" /\ arg[t] \in cancelled
               /\ arg[t] \notin doneCh => poll[arg[t]] # NoGoroutine
    <3>1. pc[t] = "wait" /\ store = "running" /\ arg[t] \in nodes /\ cancelled = {arg[t]}
      BY <2>6 DEF CancelInv
    <3> QED
      BY <2>1, <3>1 DEF LivingInv, TypeOK
  <2>7. /\ \A t \in Threads : mmu = t => pc[t] \in {"store", "wait", "scan"}
        /\ \A u \in Uris, s \in Slots : poll[u][s] = "notify" => opts.monitor
    BY DEF MonitorInv
  <2> QED
    BY <2>2, <2>3, <2>4, <2>5, <2>6, <2>7 DEF NothingAwaitedInVain
<1> QED
  BY Invariant, AwaitInvariant, <1>1, PTL

-----------------------------------------------------------------------------
(* The findings, for every value of the constants.                         *)

\* The browser never calls the store.
BrowserIdle == op[Browser] = "none" /\ ~early

LEMMA OptsFixed == [Next]_vars => opts' = opts
BY DEF Next, vars, MainStep, StartRunner, StopRunner, StartStore, StartServer, StartMdns,
       BeginStop, CloseDatabase, LockStop, StopStore, CloseServer, StopServer, StopMdns,
       Exit, Signal, Kill, restOfMain, RunnerStep, RestoreOk, RunnerExit, ServeEnd, restOfRunner,
       CallStep, Handle, HandleService, ScanRemove, ScanBegin, ScanEnd, Proceed, MonLock,
       StoreAdd, RemoveFails, RemoveBegin, RemoveEnd, restOfCall,
       PollStep, PollOk, NotifyAlive, PollExit, OrphanExit, LeakedExit, restOfPoll

\* Only the browser adds a device before CacheStore.Start.
LEMMA BrowserIdleStep ==
    ASSUME IInv, BrowserIdle, ~opts.autodiscovery, [Next]_vars
    PROVE  BrowserIdle'
<1> USE ThreadsAssumption DEF IInv, TypeOK, BrowserIdle, mainVars, nodeVars, pollVars, callVars,
        Threads
<1>1. CASE UNCHANGED vars
  BY <1>1 DEF vars
<1>2. CASE MainStep \/ Signal \/ Kill
  BY <1>2 DEF MainStep, StartRunner, StopRunner, StartStore, StartServer, StartMdns,
        BeginStop, CloseDatabase, LockStop, StopStore, CloseServer, StopServer, StopMdns,
        Exit, Signal, Kill, restOfMain
<1>3. CASE RunnerStep
  BY <1>3 DEF RunnerStep, RestoreOk, RunnerExit, ServeEnd, restOfRunner
<1>4. CASE PollStep
  BY <1>4 DEF PollStep, PollOk, NotifyAlive, PollExit, OrphanExit, LeakedExit, restOfPoll
<1>5. CASE CallStep
  <2>1. ASSUME NEW u \in Uris, NEW h \in Handlers, NEW o \in {"add", "remove"}, Handle(h, o, u)
        PROVE  BrowserIdle'
    BY <2>1 DEF Handle, Call, restOfCall
  <2>2. ASSUME NEW u \in Uris, HandleService(u) \/ ScanRemove(u) PROVE BrowserIdle'
    BY <2>2 DEF HandleService, ScanRemove, Call, restOfCall
  <2>3. CASE ScanBegin \/ ScanEnd
    BY <2>3 DEF ScanBegin, ScanEnd, restOfCall
  <2>4. ASSUME NEW t \in Threads, StoreAdd(t) PROVE BrowserIdle'
    <3>1. t # Browser
      BY <2>4 DEF StoreAdd
    <3> QED
      BY <2>4, <3>1 DEF StoreAdd, AddOk, AddFails, AddPanics, Return
  <2>5. ASSUME NEW t \in Threads, MonLock(t) \/ RemoveFails(t) \/ RemoveBegin(t)
        PROVE  BrowserIdle'
    BY <2>5 DEF MonLock, RemoveFails, RemoveBegin, Return, restOfCall
  <2>6. ASSUME NEW t \in Threads, RemoveEnd(t) PROVE BrowserIdle'
    BY <2>6 DEF RemoveEnd, Return
  <2>7. ASSUME NEW t \in Threads, Proceed(t) PROVE BrowserIdle'
    BY <2>4, <2>5, <2>6, <2>7 DEF Proceed
  <2> QED
    BY <1>5, <2>1, <2>2, <2>3, <2>7 DEF CallStep
<1> QED
  BY <1>1, <1>2, <1>3, <1>4, <1>5 DEF Next

\* double_start needs autodiscovery: without it no device is ever polled by
\* two goroutines (main.go, the order of p.starter.Add).
THEOREM OneGoroutineWithoutDiscovery == Spec => [](~opts.autodiscovery => OneGoroutine)
<1>1. Init => BrowserIdle
  BY DEF Init, BrowserIdle, Threads
<1>2. ASSUME IInv, ~opts.autodiscovery => BrowserIdle, [Next]_vars
      PROVE  (~opts.autodiscovery => BrowserIdle)'
  BY <1>2, OptsFixed, BrowserIdleStep
<1>3. IInv /\ BrowserIdle => OneGoroutine
  <2>1. IInv /\ BrowserIdle => NodeInv
    BY DEF IInv, BrowserIdle
  <2> QED
    BY <2>1 DEF NodeInv, OneGoroutine, Single
<1> QED
  BY Invariant, <1>1, <1>2, <1>3, PTL DEF Spec

\* CacheStore.Stop waits for a goroutine that reports to the monitor, whose
\* mutex is held by an operation that waits for CacheStore.mu.
StopAwaitsReport(t, u) ==
    /\ smu = Main /\ mmu = t /\ pc[t] = "store"
    /\ u \in nodes \ doneCh /\ poll[u][1] = "notify"

\* Then the process ends by a second signal only: no step of another goroutine
\* leads out of it.
ShutdownNeedsKill ==
    [][\A t \in Threads, u \in Uris :
          ~early /\ ~Ended /\ StopAwaitsReport(t, u) => StopAwaitsReport(t, u)' \/ Kill]_vars

LEMMA ShutdownNeedsKillStep ==
    ASSUME IInv, AwaitInv, [Next]_vars, NEW t \in Threads, NEW u \in Uris,
           ~early, ~Ended, StopAwaitsReport(t, u), ~Kill
    PROVE  StopAwaitsReport(t, u)'
<1> USE ThreadsAssumption DEF IInv, TypeOK, StopAwaitsReport, mainVars, nodeVars, pollVars,
        callVars, Threads
<1>1. /\ phase = "stop" /\ step = 4 /\ signalled /\ NodeInv
      /\ \A x \in Threads : pc[x] # "wait"
      /\ \A x \in Threads : mmu = x <=> x = t
      /\ t # None /\ mmu # None /\ smu # None
  BY DEF AwaitInv, StopLockInv, StopInv, CallInv
<1>2. CASE UNCHANGED vars
  BY <1>2 DEF vars
<1>3. CASE MainStep \/ Signal
  <2>1. ASSUME MainStep PROVE FALSE
    <3>1. \A r \in Runners : ~StartRunner(r) /\ ~StopRunner(r)
      BY <1>1, StopPlaces DEF StartRunner, Starting, StopRunner, Runners
    <3>2. ~StopStore
      BY DEF StopStore, AllDone
    <3>3. ~StartStore /\ ~StartServer /\ ~StartMdns /\ ~BeginStop /\ ~LockStop
      BY <1>1 DEF StartStore, StartServer, StartMdns, BeginStop, Starting, LockStop
    <3>4. ~CloseDatabase /\ ~CloseServer /\ ~StopServer /\ ~StopMdns /\ ~Exit
      BY <1>1, StopPlaces DEF CloseDatabase, CloseServer, CloseListener, StopServer, StopMdns, Exit
    <3> QED
      BY <2>1, <3>1, <3>2, <3>3, <3>4 DEF MainStep
  <2> QED
    BY <1>1, <1>3, <2>1 DEF Signal
<1>4. CASE RunnerStep
  BY <1>4 DEF RunnerStep, RestoreOk, RunnerExit, ServeEnd, restOfRunner
<1>5. CASE PollStep
  <2>1. ASSUME NEW v \in Uris, NEW s \in Slots,
               PollOk(v, s) \/ NotifyAlive(v, s) \/ PollExit(v, s)
        PROVE  StopAwaitsReport(t, u)'
    <3>1. PollExit(v, s) /\ v # u
      BY <1>1, <2>1 DEF PollOk, NotifyAlive, PollExit, NodeInv, Slots
    <3> QED
      BY <3>1 DEF PollExit, Poll, restOfPoll
  <2>2. ASSUME NEW v \in Uris, OrphanExit(v) \/ LeakedExit(v) PROVE StopAwaitsReport(t, u)'
    BY <2>2 DEF OrphanExit, LeakedExit
  <2> QED
    BY <1>5, <2>1, <2>2 DEF PollStep
<1>6. CASE CallStep
  <2> USE DEF restOfCall, Goto
  <2>1. ASSUME NEW v \in Uris, NEW h \in Handlers, NEW o \in {"add", "remove"}, Handle(h, o, v)
        PROVE  StopAwaitsReport(t, u)'
    BY <2>1 DEF Handle, Call
  <2>2. ASSUME NEW v \in Uris, HandleService(v) \/ ScanRemove(v)
        PROVE  StopAwaitsReport(t, u)'
    BY <2>2 DEF HandleService, ScanRemove, Call
  <2>3. ~ScanBegin
    BY <1>1 DEF ScanBegin
  <2>4. ~ScanEnd
    BY <1>1 DEF ScanEnd, AwaitInv, MonitorInv
  <2>5. \A x \in Threads : ~Proceed(x)
    BY <1>1 DEF Proceed, MonLock, StoreAdd, RemoveFails, RemoveBegin, RemoveEnd
  <2> QED
    BY <1>6, <2>1, <2>2, <2>3, <2>4, <2>5 DEF CallStep
<1> QED
  BY <1>2, <1>3, <1>4, <1>5, <1>6 DEF Next

\* With the monitor a shutdown may wait for ever, as a Remove may
\* (cache_store.go, Stop; store_alive_monitor.go, Add, Remove, notifyAlive).
THEOREM ShutdownIsStuck == Spec => ShutdownNeedsKill
<1>1. IInv /\ AwaitInv /\ [Next]_vars =>
         [\A t \in Threads, u \in Uris :
             ~early /\ ~Ended /\ StopAwaitsReport(t, u) => StopAwaitsReport(t, u)' \/ Kill]_vars
  BY ShutdownNeedsKillStep
<1> QED
  BY Invariant, AwaitInvariant, <1>1, PTL DEF Spec, ShutdownNeedsKill

=============================================================================
