------------------------- MODULE DeviceStoreProofs -------------------------
(***************************************************************************)
(* Theorems about DeviceStore, for any sets of devices and handlers, any   *)
(* MaxInactive, and with or without the monitor.                           *)
(*                                                                         *)
(* The safety properties are not inductive: what the cache, the bucket and *)
(* the monitor's map hold in the middle of an operation depends on where   *)
(* the holder of each mutex is.  IInv says what that is, place by place.   *)
(***************************************************************************)
EXTENDS DeviceStore, TLAPS

-----------------------------------------------------------------------------
(* The inductive invariant.                                                *)

\* The places where a thread holds CacheStore.mu.
StoreHeld == {"check", "write", "start", "dbremove", "wait", "storeunlock"}

\* The places where it holds StoreAliveMonitor.mu.
HoldsMonitor(t) ==
    \/ pc[t] \in {"monupdate", "scan"}
    \/ MonitorEnabled /\ op[t] # "list" /\ pc[t] \in StoreHeld \union {"storelock"}

SmuInv == \A t \in Threads : smu = t <=> pc[t] \in StoreHeld

MmuInv == \A t \in Threads : mmu = t <=> HoldsMonitor(t)

\* What a thread at a place is doing.
OpInv ==
    /\ \A t \in Threads :
          /\ pc[t] \in {"monlock", "monupdate"} => MonitorEnabled /\ op[t] \in {"add", "remove"}
          /\ pc[t] \in {"write", "start"} => op[t] = "add"
          /\ pc[t] \in {"dbremove", "wait"} => op[t] = "remove"
          /\ pc[t] \in StoreHeld \union {"storelock"} => op[t] \in {"add", "remove", "list"}
          /\ op[t] \in {"add", "remove"} => arg[t] \in Uris
          /\ pc[t] = "scan" => t = Monitor /\ MonitorEnabled
          /\ pc[t] \in {"storeunlock", "monupdate"} => res[t] # "none"
          /\ pc[t] \in {"start", "wait"} => res[t] = "ok"
    /\ pc[Monitor] \notin {"idle", "scan"} => op[Monitor] = "remove" /\ MonitorEnabled
    /\ pc[Monitor] \notin {"monlock", "return"}

\* The cache against the bucket.
CacheInv ==
    /\ corrupt \subseteq db
    /\ (\A t \in Threads : pc[t] \notin {"start", "wait"}) => nodes = db \ corrupt
    /\ \A t \in Threads :
          /\ pc[t] = "write" => arg[t] \notin nodes /\ Supported(arg[t])
          /\ pc[t] = "dbremove" => arg[t] \in nodes
          /\ pc[t] = "start" => arg[t] \notin nodes /\ db \ corrupt = nodes \union {arg[t]}
          /\ pc[t] = "wait" => arg[t] \in nodes /\ db \ corrupt = nodes \ {arg[t]}

\* The operation of t has changed the cache and not yet the monitor's map.
Unseen(t, o) ==
    op[t] = o /\ res[t] = "ok" /\ pc[t] \in {"storeunlock", "monupdate"}

\* The monitor's map against the cache.
DeviceInv ==
    MonitorEnabled =>
        /\ (\A t \in Threads : ~Unseen(t, "add") /\ ~Unseen(t, "remove")) => devices = nodes
        /\ \A t \in Threads :
              /\ Unseen(t, "add") => nodes = devices \union {arg[t]}
              /\ Unseen(t, "remove") => nodes = devices \ {arg[t]}

\* The pollers against the cache.
RunnerInv ==
    /\ \A u \in Uris \ nodes : runner[u] = "none"
    /\ \A u \in nodes \ cancelled : runner[u] # "none"
    /\ \A u \in cancelled : \E t \in Threads : pc[t] = "wait" /\ arg[t] = u
    /\ notified \subseteq nodes

\* The monitor's clock of a device against the time since its last good poll.
ClockInv ==
    /\ \A u \in Uris \ devices : age[u] = 0
    /\ \A u \in notified : runner[u] = "notify" \/ age[u] <= sinceOk[u]
    /\ pc[Monitor] \in {"storelock", "check", "dbremove", "wait"} =>
          age[arg[Monitor]] = MaxInactive

IInv == TypeOK /\ SmuInv /\ MmuInv /\ OpInv /\ CacheInv /\ DeviceInv /\ RunnerInv /\ ClockInv


-----------------------------------------------------------------------------
(* Definitions every step needs.                                           *)

USE DEF Goto, Result, callVars, nodeVars, dbVars, monVars, mdnsVars, restOfPoll

\* The monitor's runner is a thread and no client; None is no thread.
LEMMA ThreadSets ==
    /\ Clients \subseteq Threads
    /\ Monitor \in Threads
    /\ Monitor \notin Clients
    /\ None \notin Threads
BY ThreadsAssumption DEF Threads, Clients

\* Add and Remove are called with a URI.
LEMMA ArgTyped ==
    ASSUME TypeOK, OpInv, NEW t \in Threads, op[t] \in {"add", "remove"}
    PROVE  arg[t] \in Uris
BY DEF OpInv

\* Every step preserves the types.
LEMMA TypeStep ==
    ASSUME TypeOK, OpInv, [Next]_vars
    PROVE  TypeOK'
<1>1. ASSUME NEW c \in Clients, NEW u \in Uris, Call(c, "add", u) PROVE TypeOK'
  BY <1>1 DEF Call, TypeOK, Locations
<1>2. ASSUME NEW c \in Clients, NEW u \in Uris, Call(c, "remove", u) PROVE TypeOK'
  BY <1>2 DEF Call, TypeOK, Locations
<1>3. ASSUME NEW c \in Clients, Call(c, "list", None) PROVE TypeOK'
  BY <1>3 DEF Call, TypeOK, Locations
<1>4. ASSUME NEW c \in Clients, MonLock(c) PROVE TypeOK'
  BY <1>4, ThreadSets DEF MonLock, TypeOK, Locations
<1>5. ASSUME NEW t \in Threads, StoreLock(t) PROVE TypeOK'
  BY <1>5 DEF StoreLock, TypeOK, Locations
<1>6. ASSUME NEW t \in Threads, AddCheck(t) PROVE TypeOK'
  BY <1>6 DEF AddCheck, TypeOK, Locations
<1>7. ASSUME NEW t \in Threads, AddWrite(t) PROVE TypeOK'
  BY <1>7 DEF AddWrite, OnDbError, TypeOK, Locations, OpInv
<1>8. ASSUME NEW t \in Threads, AddStart(t) PROVE TypeOK'
  BY <1>8, MaxInactiveAssumption DEF AddStart, Wrapped, TypeOK, Locations, OpInv
<1>9. ASSUME NEW t \in Threads, RemoveCheck(t) PROVE TypeOK'
  BY <1>9 DEF RemoveCheck, TypeOK, Locations
<1>10. ASSUME NEW t \in Threads, RemoveDb(t) PROVE TypeOK'
  BY <1>10 DEF RemoveDb, OnDbError, Cancel, TypeOK, Locations, OpInv
<1>11. ASSUME NEW t \in Threads, RemoveWait(t) PROVE TypeOK'
  BY <1>11, MaxInactiveAssumption DEF RemoveWait, TypeOK, Locations, OpInv
<1>12. ASSUME NEW t \in Threads, GetDesc(t) PROVE TypeOK'
  BY <1>12 DEF GetDesc, TypeOK, Locations
<1>13. ASSUME NEW t \in Threads, StoreUnlock(t) PROVE TypeOK'
  BY <1>13 DEF StoreUnlock, TypeOK, Locations
<1>14. ASSUME NEW c \in Clients, MonUpdate(c) PROVE TypeOK'
  BY <1>14, ThreadSets, MaxInactiveAssumption DEF MonUpdate, Stamp, Forget, TypeOK, Locations, OpInv
<1>15. ASSUME NEW c \in Clients, Return(c) PROVE TypeOK'
  BY <1>15 DEF Return, TypeOK, Locations
<1>16. ASSUME RunBegin PROVE TypeOK'
  BY <1>16, ThreadSets DEF RunBegin, TypeOK, Locations
<1>17. ASSUME NEW u \in Uris, Scan(u) PROVE TypeOK'
  BY <1>17 DEF Scan, TypeOK, Locations
<1>18. ASSUME ScanResult PROVE TypeOK'
  BY <1>18, ThreadSets, MaxInactiveAssumption DEF ScanResult, Forget, TypeOK, Locations
<1>19. ASSUME RunEnd PROVE TypeOK'
  BY <1>19 DEF RunEnd, TypeOK, Locations
<1>20. ASSUME NEW u \in Uris, PollBegin(u) PROVE TypeOK'
  BY <1>20 DEF PollBegin, Runner, TypeOK
<1>21. ASSUME NEW u \in Uris, PollOk(u) PROVE TypeOK'
  BY <1>21, MaxInactiveAssumption DEF PollOk, Runner, TypeOK
<1>22. ASSUME NEW u \in Uris, PollFail(u) PROVE TypeOK'
  BY <1>22 DEF PollFail, Runner, TypeOK
<1>23. ASSUME NEW u \in Uris, NotifyAlive(u) PROVE TypeOK'
  BY <1>23, MaxInactiveAssumption DEF NotifyAlive, Runner, Stamp, TypeOK
<1>24. ASSUME NEW u \in Uris, Exit(u) PROVE TypeOK'
  BY <1>24 DEF Exit, Runner, TypeOK
<1>25. ASSUME BrowseBegin PROVE TypeOK'
  BY <1>25 DEF BrowseBegin, TypeOK
<1>26. ASSUME BrowseEnd PROVE TypeOK'
  BY <1>26 DEF BrowseEnd, TypeOK
<1>27. ASSUME Tick PROVE TypeOK'
  BY <1>27, MaxInactiveAssumption DEF Tick, Older, TypeOK
<1>28. ASSUME Restart PROVE TypeOK'
  <2>1. PICK kept \in SUBSET corrupt : RestoreNodes(kept)
    BY <1>28 DEF Restart
  <2>2. /\ db' \subseteq Uris /\ corrupt' \subseteq Uris /\ nodes' \subseteq Uris
        /\ notified' \subseteq Uris /\ cancelled' \subseteq Uris
        /\ runner' \in [Uris -> {"none", "select", "poll", "notify"}]
    BY <2>1 DEF RestoreNodes, TypeOK
  <2>3. /\ age' \in [Uris -> 0 .. MaxInactive] /\ sinceOk' \in [Uris -> 0 .. MaxInactive]
        /\ devices' \subseteq Uris
    BY <1>28, MaxInactiveAssumption DEF Restart, TypeOK
  <2>4. /\ pc' \in [Threads -> Locations]
        /\ op' \in [Threads -> {"none", "add", "remove", "list"}]
        /\ arg' \in [Threads -> Uris \union {None}]
        /\ res' \in [Threads -> {"none", "ok", "exists", "nodata", "error"}]
        /\ listed' \in [Threads -> SUBSET Uris]
    BY <1>28 DEF Restart, Locations
  <2> QED
    BY <1>28, <2>2, <2>3, <2>4 DEF Restart, TypeOK
<1>29. CASE UNCHANGED vars
  BY <1>29 DEF vars, TypeOK
<1> QED
  BY <1>1, <1>2, <1>3, <1>4, <1>5, <1>6, <1>7, <1>8, <1>9, <1>10, <1>11, <1>12, <1>13, <1>14,
     <1>15, <1>16, <1>17, <1>18, <1>19, <1>20, <1>21, <1>22, <1>23, <1>24, <1>25, <1>26, <1>27,
     <1>28, <1>29
  DEF Next, HandleAdd, HandleRemove, HandleList, HandleService, ClientStep, MonitorStep,
      StoreStep, PollEnd, Threads, Clients

\* Every step leaves a thread at a place of its own operation.
LEMMA OpStep ==
    ASSUME TypeOK, OpInv, [Next]_vars
    PROVE  OpInv'
<1>1. ASSUME NEW c \in Clients, NEW u \in Uris, Call(c, "add", u) PROVE OpInv'
  BY <1>1, ThreadSets DEF Call, TypeOK, OpInv
<1>2. ASSUME NEW c \in Clients, NEW u \in Uris, Call(c, "remove", u) PROVE OpInv'
  BY <1>2, ThreadSets DEF Call, TypeOK, OpInv
<1>3. ASSUME NEW c \in Clients, Call(c, "list", None) PROVE OpInv'
  BY <1>3, ThreadSets DEF Call, TypeOK, OpInv
<1>4. ASSUME NEW c \in Clients, MonLock(c) PROVE OpInv'
  BY <1>4 DEF MonLock, OpInv
<1>5. ASSUME NEW t \in Threads, StoreLock(t) PROVE OpInv'
  BY <1>5 DEF StoreLock, OpInv
<1>6. ASSUME NEW t \in Threads, AddCheck(t) PROVE OpInv'
  BY <1>6, ThreadSets DEF AddCheck, TypeOK, OpInv
<1>7. ASSUME NEW t \in Threads, AddWrite(t) PROVE OpInv'
  BY <1>7, ThreadSets DEF AddWrite, OnDbError, TypeOK, OpInv
<1>8. ASSUME NEW t \in Threads, AddStart(t) PROVE OpInv'
  BY <1>8 DEF AddStart, Wrapped, OpInv
<1>9. ASSUME NEW t \in Threads, RemoveCheck(t) PROVE OpInv'
  BY <1>9, ThreadSets DEF RemoveCheck, TypeOK, OpInv
<1>10. ASSUME NEW t \in Threads, RemoveDb(t) PROVE OpInv'
  BY <1>10, ThreadSets DEF RemoveDb, OnDbError, TypeOK, OpInv
<1>11. ASSUME NEW t \in Threads, RemoveWait(t) PROVE OpInv'
  BY <1>11 DEF RemoveWait, OpInv
<1>12. ASSUME NEW t \in Threads, GetDesc(t) PROVE OpInv'
  BY <1>12 DEF GetDesc, TypeOK, OpInv
<1>13. ASSUME NEW t \in Threads, StoreUnlock(t) PROVE OpInv'
  BY <1>13 DEF StoreUnlock, OpInv, StoreHeld
<1>14. ASSUME NEW c \in Clients, MonUpdate(c) PROVE OpInv'
  BY <1>14, ThreadSets DEF MonUpdate, OpInv
<1>15. ASSUME NEW c \in Clients, Return(c) PROVE OpInv'
  BY <1>15 DEF Return, TypeOK, OpInv, StoreHeld
<1>16. ASSUME RunBegin PROVE OpInv'
  BY <1>16 DEF RunBegin, OpInv, StoreHeld
<1>17. ASSUME NEW u \in Uris, Scan(u) PROVE OpInv'
  BY <1>17 DEF Scan, TypeOK, OpInv
<1>18. ASSUME ScanResult PROVE OpInv'
  BY <1>18 DEF ScanResult, TypeOK, OpInv, StoreHeld
<1>19. ASSUME RunEnd PROVE OpInv'
  BY <1>19 DEF RunEnd, OpInv, StoreHeld
<1>20. ASSUME NEW u \in Uris, PollBegin(u) PROVE OpInv'
  BY <1>20 DEF PollBegin, OpInv
<1>21. ASSUME NEW u \in Uris, PollOk(u) PROVE OpInv'
  BY <1>21 DEF PollOk, OpInv
<1>22. ASSUME NEW u \in Uris, PollFail(u) PROVE OpInv'
  BY <1>22 DEF PollFail, OpInv
<1>23. ASSUME NEW u \in Uris, NotifyAlive(u) PROVE OpInv'
  BY <1>23 DEF NotifyAlive, OpInv
<1>24. ASSUME NEW u \in Uris, Exit(u) PROVE OpInv'
  BY <1>24 DEF Exit, OpInv
<1>25. ASSUME BrowseBegin PROVE OpInv'
  BY <1>25 DEF BrowseBegin, OpInv
<1>26. ASSUME BrowseEnd PROVE OpInv'
  BY <1>26 DEF BrowseEnd, OpInv
<1>27. ASSUME Tick PROVE OpInv'
  BY <1>27 DEF Tick, OpInv
<1>28. ASSUME Restart PROVE OpInv'
  BY <1>28, ThreadSets DEF Restart, RestoreNodes, OpInv, StoreHeld
<1>29. CASE UNCHANGED vars
  BY <1>29 DEF vars, OpInv
<1> QED
  BY <1>1, <1>2, <1>3, <1>4, <1>5, <1>6, <1>7, <1>8, <1>9, <1>10, <1>11, <1>12, <1>13, <1>14,
     <1>15, <1>16, <1>17, <1>18, <1>19, <1>20, <1>21, <1>22, <1>23, <1>24, <1>25, <1>26, <1>27,
     <1>28, <1>29
  DEF Next, HandleAdd, HandleRemove, HandleList, HandleService, ClientStep, MonitorStep,
      StoreStep, PollEnd, Threads, Clients

\* Every step preserves who holds CacheStore.mu, and where.
LEMMA SmuStep ==
    ASSUME TypeOK, OpInv, SmuInv, [Next]_vars
    PROVE  SmuInv'
<1>1. ASSUME NEW c \in Clients, NEW u \in Uris, Call(c, "add", u) PROVE SmuInv'
  BY <1>1 DEF Call, SmuInv, StoreHeld
<1>2. ASSUME NEW c \in Clients, NEW u \in Uris, Call(c, "remove", u) PROVE SmuInv'
  BY <1>2 DEF Call, SmuInv, StoreHeld
<1>3. ASSUME NEW c \in Clients, Call(c, "list", None) PROVE SmuInv'
  BY <1>3 DEF Call, SmuInv, StoreHeld
<1>4. ASSUME NEW c \in Clients, MonLock(c) PROVE SmuInv'
  BY <1>4 DEF MonLock, SmuInv, StoreHeld
<1>5. ASSUME NEW t \in Threads, StoreLock(t) PROVE SmuInv'
  BY <1>5, ThreadSets DEF StoreLock, TypeOK, SmuInv, StoreHeld
<1>6. ASSUME NEW t \in Threads, AddCheck(t) PROVE SmuInv'
  BY <1>6 DEF AddCheck, TypeOK, SmuInv, StoreHeld
<1>7. ASSUME NEW t \in Threads, AddWrite(t) PROVE SmuInv'
  BY <1>7 DEF AddWrite, OnDbError, TypeOK, SmuInv, StoreHeld
<1>8. ASSUME NEW t \in Threads, AddStart(t) PROVE SmuInv'
  BY <1>8 DEF AddStart, Wrapped, SmuInv, StoreHeld
<1>9. ASSUME NEW t \in Threads, RemoveCheck(t) PROVE SmuInv'
  BY <1>9 DEF RemoveCheck, TypeOK, SmuInv, StoreHeld
<1>10. ASSUME NEW t \in Threads, RemoveDb(t) PROVE SmuInv'
  BY <1>10 DEF RemoveDb, OnDbError, TypeOK, SmuInv, StoreHeld
<1>11. ASSUME NEW t \in Threads, RemoveWait(t) PROVE SmuInv'
  BY <1>11 DEF RemoveWait, SmuInv, StoreHeld
<1>12. ASSUME NEW t \in Threads, GetDesc(t) PROVE SmuInv'
  BY <1>12 DEF GetDesc, SmuInv, StoreHeld
<1>13. ASSUME NEW t \in Threads, StoreUnlock(t) PROVE SmuInv'
  BY <1>13, ThreadSets DEF StoreUnlock, TypeOK, SmuInv, StoreHeld
<1>14. ASSUME NEW c \in Clients, MonUpdate(c) PROVE SmuInv'
  BY <1>14 DEF MonUpdate, SmuInv, StoreHeld
<1>15. ASSUME NEW c \in Clients, Return(c) PROVE SmuInv'
  BY <1>15 DEF Return, SmuInv, StoreHeld
<1>16. ASSUME RunBegin PROVE SmuInv'
  BY <1>16 DEF RunBegin, SmuInv, StoreHeld
<1>17. ASSUME NEW u \in Uris, Scan(u) PROVE SmuInv'
  BY <1>17 DEF Scan, TypeOK, SmuInv, StoreHeld
<1>18. ASSUME ScanResult PROVE SmuInv'
  BY <1>18 DEF ScanResult, SmuInv, StoreHeld
<1>19. ASSUME RunEnd PROVE SmuInv'
  BY <1>19 DEF RunEnd, SmuInv, StoreHeld
<1>20. ASSUME NEW u \in Uris, PollBegin(u) PROVE SmuInv'
  BY <1>20 DEF PollBegin, SmuInv
<1>21. ASSUME NEW u \in Uris, PollOk(u) PROVE SmuInv'
  BY <1>21 DEF PollOk, SmuInv
<1>22. ASSUME NEW u \in Uris, PollFail(u) PROVE SmuInv'
  BY <1>22 DEF PollFail, SmuInv
<1>23. ASSUME NEW u \in Uris, NotifyAlive(u) PROVE SmuInv'
  BY <1>23 DEF NotifyAlive, SmuInv
<1>24. ASSUME NEW u \in Uris, Exit(u) PROVE SmuInv'
  BY <1>24 DEF Exit, SmuInv
<1>25. ASSUME BrowseBegin PROVE SmuInv'
  BY <1>25 DEF BrowseBegin, SmuInv
<1>26. ASSUME BrowseEnd PROVE SmuInv'
  BY <1>26 DEF BrowseEnd, SmuInv
<1>27. ASSUME Tick PROVE SmuInv'
  BY <1>27 DEF Tick, SmuInv
<1>28. ASSUME Restart PROVE SmuInv'
  BY <1>28, ThreadSets DEF Restart, RestoreNodes, SmuInv, StoreHeld
<1>29. CASE UNCHANGED vars
  BY <1>29 DEF vars, SmuInv
<1> QED
  BY <1>1, <1>2, <1>3, <1>4, <1>5, <1>6, <1>7, <1>8, <1>9, <1>10, <1>11, <1>12, <1>13, <1>14,
     <1>15, <1>16, <1>17, <1>18, <1>19, <1>20, <1>21, <1>22, <1>23, <1>24, <1>25, <1>26, <1>27,
     <1>28, <1>29
  DEF Next, HandleAdd, HandleRemove, HandleList, HandleService, ClientStep, MonitorStep,
      StoreStep, PollEnd, Threads, Clients

\* Every step preserves who holds StoreAliveMonitor.mu, and where.
LEMMA MmuStep ==
    ASSUME TypeOK, OpInv, MmuInv, [Next]_vars
    PROVE  MmuInv'
<1>1. ASSUME NEW c \in Clients, NEW u \in Uris, Call(c, "add", u) PROVE MmuInv'
  BY <1>1 DEF Call, MmuInv, HoldsMonitor, StoreHeld
<1>2. ASSUME NEW c \in Clients, NEW u \in Uris, Call(c, "remove", u) PROVE MmuInv'
  BY <1>2 DEF Call, MmuInv, HoldsMonitor, StoreHeld
<1>3. ASSUME NEW c \in Clients, Call(c, "list", None) PROVE MmuInv'
  BY <1>3 DEF Call, TypeOK, MmuInv, HoldsMonitor, StoreHeld
<1>4. ASSUME NEW c \in Clients, MonLock(c) PROVE MmuInv'
  BY <1>4, ThreadSets DEF MonLock, TypeOK, OpInv, MmuInv, HoldsMonitor
<1>5. ASSUME NEW t \in Threads, StoreLock(t) PROVE MmuInv'
  BY <1>5 DEF StoreLock, MmuInv, HoldsMonitor, StoreHeld
<1>6. ASSUME NEW t \in Threads, AddCheck(t) PROVE MmuInv'
  BY <1>6 DEF AddCheck, TypeOK, MmuInv, HoldsMonitor, StoreHeld
<1>7. ASSUME NEW t \in Threads, AddWrite(t) PROVE MmuInv'
  BY <1>7 DEF AddWrite, OnDbError, TypeOK, MmuInv, HoldsMonitor, StoreHeld
<1>8. ASSUME NEW t \in Threads, AddStart(t) PROVE MmuInv'
  BY <1>8 DEF AddStart, Wrapped, MmuInv, HoldsMonitor, StoreHeld
<1>9. ASSUME NEW t \in Threads, RemoveCheck(t) PROVE MmuInv'
  BY <1>9 DEF RemoveCheck, TypeOK, MmuInv, HoldsMonitor, StoreHeld
<1>10. ASSUME NEW t \in Threads, RemoveDb(t) PROVE MmuInv'
  BY <1>10 DEF RemoveDb, OnDbError, TypeOK, MmuInv, HoldsMonitor, StoreHeld
<1>11. ASSUME NEW t \in Threads, RemoveWait(t) PROVE MmuInv'
  BY <1>11 DEF RemoveWait, MmuInv, HoldsMonitor, StoreHeld
<1>12. ASSUME NEW t \in Threads, GetDesc(t) PROVE MmuInv'
  BY <1>12 DEF GetDesc, MmuInv, HoldsMonitor
<1>13. ASSUME NEW t \in Threads, StoreUnlock(t) PROVE MmuInv'
  BY <1>13 DEF StoreUnlock, MmuInv, HoldsMonitor, StoreHeld
<1>14. ASSUME NEW c \in Clients, MonUpdate(c) PROVE MmuInv'
  BY <1>14, ThreadSets DEF MonUpdate, TypeOK, MmuInv, HoldsMonitor, StoreHeld
<1>15. ASSUME NEW c \in Clients, Return(c) PROVE MmuInv'
  BY <1>15 DEF Return, MmuInv, HoldsMonitor, StoreHeld
<1>16. ASSUME RunBegin PROVE MmuInv'
  BY <1>16, ThreadSets DEF RunBegin, TypeOK, MmuInv, HoldsMonitor
<1>17. ASSUME NEW u \in Uris, Scan(u) PROVE MmuInv'
  BY <1>17 DEF Scan, TypeOK, OpInv, MmuInv, HoldsMonitor
<1>18. ASSUME ScanResult PROVE MmuInv'
  BY <1>18 DEF ScanResult, MmuInv, HoldsMonitor
<1>19. ASSUME RunEnd PROVE MmuInv'
  BY <1>19, ThreadSets DEF RunEnd, TypeOK, MmuInv, HoldsMonitor, StoreHeld
<1>20. ASSUME NEW u \in Uris, PollBegin(u) PROVE MmuInv'
  BY <1>20 DEF PollBegin, MmuInv, HoldsMonitor
<1>21. ASSUME NEW u \in Uris, PollOk(u) PROVE MmuInv'
  BY <1>21 DEF PollOk, MmuInv, HoldsMonitor
<1>22. ASSUME NEW u \in Uris, PollFail(u) PROVE MmuInv'
  BY <1>22 DEF PollFail, MmuInv, HoldsMonitor
<1>23. ASSUME NEW u \in Uris, NotifyAlive(u) PROVE MmuInv'
  BY <1>23 DEF NotifyAlive, MmuInv, HoldsMonitor
<1>24. ASSUME NEW u \in Uris, Exit(u) PROVE MmuInv'
  BY <1>24 DEF Exit, MmuInv, HoldsMonitor
<1>25. ASSUME BrowseBegin PROVE MmuInv'
  BY <1>25 DEF BrowseBegin, MmuInv, HoldsMonitor
<1>26. ASSUME BrowseEnd PROVE MmuInv'
  BY <1>26 DEF BrowseEnd, MmuInv, HoldsMonitor
<1>27. ASSUME Tick PROVE MmuInv'
  BY <1>27 DEF Tick, MmuInv, HoldsMonitor
<1>28. ASSUME Restart PROVE MmuInv'
  BY <1>28, ThreadSets DEF Restart, RestoreNodes, MmuInv, HoldsMonitor, StoreHeld
<1>29. CASE UNCHANGED vars
  BY <1>29 DEF vars, MmuInv, HoldsMonitor
<1> QED
  BY <1>1, <1>2, <1>3, <1>4, <1>5, <1>6, <1>7, <1>8, <1>9, <1>10, <1>11, <1>12, <1>13, <1>14,
     <1>15, <1>16, <1>17, <1>18, <1>19, <1>20, <1>21, <1>22, <1>23, <1>24, <1>25, <1>26, <1>27,
     <1>28, <1>29
  DEF Next, HandleAdd, HandleRemove, HandleList, HandleService, ClientStep, MonitorStep,
      StoreStep, PollEnd, Threads, Clients

\* Every step preserves what cache and bucket hold at each place.
LEMMA CacheStep ==
    ASSUME TypeOK, OpInv, SmuInv, CacheInv, [Next]_vars
    PROVE  CacheInv'
<1>1. ASSUME NEW c \in Clients, NEW u \in Uris, Call(c, "add", u) PROVE CacheInv'
  BY <1>1 DEF Call, CacheInv
<1>2. ASSUME NEW c \in Clients, NEW u \in Uris, Call(c, "remove", u) PROVE CacheInv'
  BY <1>2 DEF Call, CacheInv
<1>3. ASSUME NEW c \in Clients, Call(c, "list", None) PROVE CacheInv'
  BY <1>3 DEF Call, CacheInv
<1>4. ASSUME NEW c \in Clients, MonLock(c) PROVE CacheInv'
  BY <1>4 DEF MonLock, CacheInv
<1>5. ASSUME NEW t \in Threads, StoreLock(t) PROVE CacheInv'
  BY <1>5 DEF StoreLock, CacheInv
<1>6. ASSUME NEW t \in Threads, AddCheck(t) PROVE CacheInv'
  BY <1>6 DEF AddCheck, Exists, TypeOK, CacheInv
<1>7. ASSUME NEW t \in Threads, AddWrite(t) PROVE CacheInv'
  BY <1>7 DEF AddWrite, OnDbError, TypeOK, SmuInv, CacheInv, StoreHeld
<1>8. ASSUME NEW t \in Threads, AddStart(t) PROVE CacheInv'
  BY <1>8 DEF AddStart, Wrapped, TypeOK, SmuInv, CacheInv, StoreHeld
<1>9. ASSUME NEW t \in Threads, RemoveCheck(t) PROVE CacheInv'
  BY <1>9 DEF RemoveCheck, Exists, TypeOK, CacheInv
<1>10. ASSUME NEW t \in Threads, RemoveDb(t) PROVE CacheInv'
  BY <1>10 DEF RemoveDb, OnDbError, TypeOK, SmuInv, CacheInv, StoreHeld
<1>11. ASSUME NEW t \in Threads, RemoveWait(t) PROVE CacheInv'
  BY <1>11 DEF RemoveWait, TypeOK, SmuInv, CacheInv, StoreHeld
<1>12. ASSUME NEW t \in Threads, GetDesc(t) PROVE CacheInv'
  BY <1>12 DEF GetDesc, CacheInv
<1>13. ASSUME NEW t \in Threads, StoreUnlock(t) PROVE CacheInv'
  BY <1>13 DEF StoreUnlock, CacheInv
<1>14. ASSUME NEW c \in Clients, MonUpdate(c) PROVE CacheInv'
  BY <1>14 DEF MonUpdate, CacheInv
<1>15. ASSUME NEW c \in Clients, Return(c) PROVE CacheInv'
  BY <1>15 DEF Return, CacheInv
<1>16. ASSUME RunBegin PROVE CacheInv'
  BY <1>16 DEF RunBegin, CacheInv
<1>17. ASSUME NEW u \in Uris, Scan(u) PROVE CacheInv'
  BY <1>17 DEF Scan, TypeOK, CacheInv
<1>18. ASSUME ScanResult PROVE CacheInv'
  BY <1>18 DEF ScanResult, CacheInv
<1>19. ASSUME RunEnd PROVE CacheInv'
  BY <1>19 DEF RunEnd, CacheInv
<1>20. ASSUME NEW u \in Uris, PollBegin(u) PROVE CacheInv'
  BY <1>20 DEF PollBegin, CacheInv
<1>21. ASSUME NEW u \in Uris, PollOk(u) PROVE CacheInv'
  BY <1>21 DEF PollOk, CacheInv
<1>22. ASSUME NEW u \in Uris, PollFail(u) PROVE CacheInv'
  BY <1>22 DEF PollFail, CacheInv
<1>23. ASSUME NEW u \in Uris, NotifyAlive(u) PROVE CacheInv'
  BY <1>23 DEF NotifyAlive, CacheInv
<1>24. ASSUME NEW u \in Uris, Exit(u) PROVE CacheInv'
  BY <1>24 DEF Exit, CacheInv
<1>25. ASSUME BrowseBegin PROVE CacheInv'
  BY <1>25 DEF BrowseBegin, CacheInv
<1>26. ASSUME BrowseEnd PROVE CacheInv'
  BY <1>26 DEF BrowseEnd, CacheInv
<1>27. ASSUME Tick PROVE CacheInv'
  BY <1>27 DEF Tick, CacheInv
<1>28. ASSUME Restart PROVE CacheInv'
  BY <1>28 DEF Restart, RestoreNodes, CacheInv
<1>29. CASE UNCHANGED vars
  BY <1>29 DEF vars, CacheInv
<1> QED
  BY <1>1, <1>2, <1>3, <1>4, <1>5, <1>6, <1>7, <1>8, <1>9, <1>10, <1>11, <1>12, <1>13, <1>14,
     <1>15, <1>16, <1>17, <1>18, <1>19, <1>20, <1>21, <1>22, <1>23, <1>24, <1>25, <1>26, <1>27,
     <1>28, <1>29
  DEF Next, HandleAdd, HandleRemove, HandleList, HandleService, ClientStep, MonitorStep,
      StoreStep, PollEnd, Threads, Clients

\* Whoever has an update to make to the monitor's map holds its mutex.
LEMMA UnseenHolds ==
    ASSUME MmuInv, MonitorEnabled, NEW t \in Threads, NEW o \in {"add", "remove"}, Unseen(t, o)
    PROVE  mmu = t
BY DEF MmuInv, HoldsMonitor, StoreHeld, Unseen

\* So when the mutex is free, or its holder has none, the map is up to date.
LEMMA SeenAll ==
    ASSUME MmuInv, DeviceInv, MonitorEnabled,
           \A t \in Threads : mmu = t => ~Unseen(t, "add") /\ ~Unseen(t, "remove")
    PROVE  devices = nodes
BY UnseenHolds DEF DeviceInv

\* Run, and the removal it makes, hold the mutex of the monitor.
LEMMA ScanHolds ==
    ASSUME OpInv, MmuInv, pc[Monitor] \in {"scan", "storelock", "check", "dbremove", "wait",
                              "monupdate"}
    PROVE  mmu = Monitor
BY ThreadSets DEF OpInv, MmuInv, HoldsMonitor, StoreHeld

\* Every step preserves what the monitor's map lacks of the cache, and why.
LEMMA DeviceStep ==
    ASSUME TypeOK, OpInv, SmuInv, MmuInv, CacheInv, RunnerInv, DeviceInv, [Next]_vars
    PROVE  DeviceInv'
<1>1. ASSUME NEW c \in Clients, NEW u \in Uris, Call(c, "add", u) PROVE DeviceInv'
  BY <1>1 DEF Call, DeviceInv, Unseen
<1>2. ASSUME NEW c \in Clients, NEW u \in Uris, Call(c, "remove", u) PROVE DeviceInv'
  BY <1>2 DEF Call, DeviceInv, Unseen
<1>3. ASSUME NEW c \in Clients, Call(c, "list", None) PROVE DeviceInv'
  BY <1>3 DEF Call, DeviceInv, Unseen
<1>4. ASSUME NEW c \in Clients, MonLock(c) PROVE DeviceInv'
  BY <1>4 DEF MonLock, DeviceInv, Unseen
<1>5. ASSUME NEW t \in Threads, StoreLock(t) PROVE DeviceInv'
  BY <1>5 DEF StoreLock, DeviceInv, Unseen
<1>6. ASSUME NEW t \in Threads, AddCheck(t) PROVE DeviceInv'
  BY <1>6 DEF AddCheck, TypeOK, DeviceInv, Unseen
<1>7. ASSUME NEW t \in Threads, AddWrite(t) PROVE DeviceInv'
  BY <1>7 DEF AddWrite, OnDbError, TypeOK, DeviceInv, Unseen
<1>8. ASSUME NEW t \in Threads, AddStart(t) PROVE DeviceInv'
  BY <1>8 DEF AddStart, Wrapped, TypeOK, OpInv, MmuInv, HoldsMonitor, StoreHeld, DeviceInv, Unseen
<1>9. ASSUME NEW t \in Threads, RemoveCheck(t) PROVE DeviceInv'
  BY <1>9 DEF RemoveCheck, TypeOK, DeviceInv, Unseen
<1>10. ASSUME NEW t \in Threads, RemoveDb(t) PROVE DeviceInv'
  BY <1>10 DEF RemoveDb, OnDbError, TypeOK, DeviceInv, Unseen
<1>11. ASSUME NEW t \in Threads, RemoveWait(t) PROVE DeviceInv'
  BY <1>11 DEF RemoveWait, TypeOK, OpInv, MmuInv, HoldsMonitor, StoreHeld, DeviceInv, Unseen
<1>12. ASSUME NEW t \in Threads, GetDesc(t) PROVE DeviceInv'
  BY <1>12 DEF GetDesc, DeviceInv, Unseen
<1>13. ASSUME NEW t \in Threads, StoreUnlock(t) PROVE DeviceInv'
  BY <1>13 DEF StoreUnlock, DeviceInv, Unseen
<1>14. ASSUME NEW c \in Clients, MonUpdate(c) PROVE DeviceInv'
  <2> SUFFICES ASSUME MonitorEnabled PROVE DeviceInv'
    BY DEF DeviceInv
  <2>1. mmu = c
    BY <1>14, ThreadSets DEF MonUpdate, MmuInv, HoldsMonitor
  <2>2. devices' = nodes
    <3>1. CASE res[c] = "ok" /\ op[c] = "add"
      BY <1>14, <3>1, ThreadSets DEF MonUpdate, DeviceInv, Unseen, Stamp
    <3>2. CASE res[c] = "ok" /\ op[c] = "remove"
      BY <1>14, <3>2, ThreadSets DEF MonUpdate, DeviceInv, Unseen, Forget
    <3>3. CASE res[c] # "ok"
      BY <1>14, <2>1, <3>3, SeenAll DEF MonUpdate, Unseen
    <3> QED
      BY <1>14, <3>1, <3>2, <3>3 DEF MonUpdate
  <2>3. \A t \in Threads : ~Unseen(t, "add")' /\ ~Unseen(t, "remove")'
    BY <1>14, <2>1, UnseenHolds DEF MonUpdate, Unseen, TypeOK
  <2> QED
    BY <1>14, <2>2, <2>3 DEF MonUpdate, DeviceInv
<1>15. ASSUME NEW c \in Clients, Return(c) PROVE DeviceInv'
  BY <1>15 DEF Return, DeviceInv, Unseen
<1>16. ASSUME RunBegin PROVE DeviceInv'
  BY <1>16 DEF RunBegin, DeviceInv, Unseen
<1>17. ASSUME NEW u \in Uris, Scan(u) PROVE DeviceInv'
  BY <1>17 DEF Scan, TypeOK, DeviceInv, Unseen
<1>18. ASSUME ScanResult PROVE DeviceInv'
  <2> SUFFICES ASSUME MonitorEnabled PROVE DeviceInv'
    BY DEF DeviceInv
  <2>1. mmu = Monitor
    BY <1>18, ScanHolds DEF ScanResult
  <2>2. devices' = nodes
    <3>1. CASE res[Monitor] = "ok"
      BY <1>18, <3>1, ThreadSets DEF ScanResult, OpInv, DeviceInv, Unseen, Forget
    <3>2. CASE res[Monitor] # "ok"
      BY <1>18, <2>1, <3>2, SeenAll DEF ScanResult, Unseen
    <3> QED
      BY <3>1, <3>2
  <2>3. \A t \in Threads : ~Unseen(t, "add")' /\ ~Unseen(t, "remove")'
    BY <1>18, <2>1, UnseenHolds DEF ScanResult, Unseen, TypeOK
  <2> QED
    BY <1>18, <2>2, <2>3 DEF ScanResult, DeviceInv
<1>19. ASSUME RunEnd PROVE DeviceInv'
  BY <1>19 DEF RunEnd, DeviceInv, Unseen
<1>20. ASSUME NEW u \in Uris, PollBegin(u) PROVE DeviceInv'
  BY <1>20 DEF PollBegin, DeviceInv, Unseen
<1>21. ASSUME NEW u \in Uris, PollOk(u) PROVE DeviceInv'
  BY <1>21 DEF PollOk, DeviceInv, Unseen
<1>22. ASSUME NEW u \in Uris, PollFail(u) PROVE DeviceInv'
  BY <1>22 DEF PollFail, DeviceInv, Unseen
<1>23. ASSUME NEW u \in Uris, NotifyAlive(u) PROVE DeviceInv'
  <2> SUFFICES ASSUME MonitorEnabled PROVE DeviceInv'
    BY DEF DeviceInv
  <2>1. devices = nodes
    BY <1>23, ThreadSets, SeenAll DEF NotifyAlive
  <2>2. u \in nodes
    BY <1>23 DEF NotifyAlive, RunnerInv
  <2>3. \A t \in Threads : ~Unseen(t, "add")' /\ ~Unseen(t, "remove")'
    BY <1>23, ThreadSets, UnseenHolds DEF NotifyAlive, Unseen
  <2> QED
    BY <1>23, <2>1, <2>2, <2>3 DEF NotifyAlive, Stamp, DeviceInv
<1>24. ASSUME NEW u \in Uris, Exit(u) PROVE DeviceInv'
  BY <1>24 DEF Exit, DeviceInv, Unseen
<1>25. ASSUME BrowseBegin PROVE DeviceInv'
  BY <1>25 DEF BrowseBegin, DeviceInv, Unseen
<1>26. ASSUME BrowseEnd PROVE DeviceInv'
  BY <1>26 DEF BrowseEnd, DeviceInv, Unseen
<1>27. ASSUME Tick PROVE DeviceInv'
  BY <1>27 DEF Tick, DeviceInv, Unseen
<1>28. ASSUME Restart PROVE DeviceInv'
  BY <1>28 DEF Restart, RestoreNodes, DeviceInv, Unseen
<1>29. CASE UNCHANGED vars
  BY <1>29 DEF vars, DeviceInv, Unseen
<1> QED
  BY <1>1, <1>2, <1>3, <1>4, <1>5, <1>6, <1>7, <1>8, <1>9, <1>10, <1>11, <1>12, <1>13, <1>14,
     <1>15, <1>16, <1>17, <1>18, <1>19, <1>20, <1>21, <1>22, <1>23, <1>24, <1>25, <1>26, <1>27,
     <1>28, <1>29
  DEF Next, HandleAdd, HandleRemove, HandleList, HandleService, ClientStep, MonitorStep,
      StoreStep, PollEnd, Threads, Clients

\* Every step preserves what the pollers are to the cache.
LEMMA RunnerStep ==
    ASSUME TypeOK, OpInv, SmuInv, CacheInv, RunnerInv, [Next]_vars
    PROVE  RunnerInv'
<1>1. ASSUME NEW c \in Clients, NEW u \in Uris, Call(c, "add", u) PROVE RunnerInv'
  BY <1>1 DEF Call, RunnerInv
<1>2. ASSUME NEW c \in Clients, NEW u \in Uris, Call(c, "remove", u) PROVE RunnerInv'
  BY <1>2 DEF Call, RunnerInv
<1>3. ASSUME NEW c \in Clients, Call(c, "list", None) PROVE RunnerInv'
  BY <1>3 DEF Call, RunnerInv
<1>4. ASSUME NEW c \in Clients, MonLock(c) PROVE RunnerInv'
  BY <1>4 DEF MonLock, RunnerInv
<1>5. ASSUME NEW t \in Threads, StoreLock(t) PROVE RunnerInv'
  BY <1>5 DEF StoreLock, RunnerInv
<1>6. ASSUME NEW t \in Threads, AddCheck(t) PROVE RunnerInv'
  BY <1>6 DEF AddCheck, SmuInv, StoreHeld, RunnerInv
<1>7. ASSUME NEW t \in Threads, AddWrite(t) PROVE RunnerInv'
  BY <1>7 DEF AddWrite, SmuInv, StoreHeld, RunnerInv
<1>8. ASSUME NEW t \in Threads, AddStart(t) PROVE RunnerInv'
  BY <1>8 DEF AddStart, Wrapped, TypeOK, OpInv, RunnerInv
<1>9. ASSUME NEW t \in Threads, RemoveCheck(t) PROVE RunnerInv'
  BY <1>9 DEF RemoveCheck, SmuInv, StoreHeld, RunnerInv
<1>10. ASSUME NEW t \in Threads, RemoveDb(t) PROVE RunnerInv'
  BY <1>10 DEF RemoveDb, OnDbError, Cancel, TypeOK, RunnerInv
<1>11. ASSUME NEW t \in Threads, RemoveWait(t) PROVE RunnerInv'
  BY <1>11 DEF RemoveWait, Stopped, RunnerInv
<1>12. ASSUME NEW t \in Threads, GetDesc(t) PROVE RunnerInv'
  BY <1>12 DEF GetDesc, RunnerInv
<1>13. ASSUME NEW t \in Threads, StoreUnlock(t) PROVE RunnerInv'
  BY <1>13 DEF StoreUnlock, RunnerInv
<1>14. ASSUME NEW c \in Clients, MonUpdate(c) PROVE RunnerInv'
  BY <1>14 DEF MonUpdate, RunnerInv
<1>15. ASSUME NEW c \in Clients, Return(c) PROVE RunnerInv'
  BY <1>15 DEF Return, RunnerInv
<1>16. ASSUME RunBegin PROVE RunnerInv'
  BY <1>16 DEF RunBegin, RunnerInv
<1>17. ASSUME NEW u \in Uris, Scan(u) PROVE RunnerInv'
  BY <1>17 DEF Scan, TypeOK, RunnerInv
<1>18. ASSUME ScanResult PROVE RunnerInv'
  BY <1>18 DEF ScanResult, RunnerInv
<1>19. ASSUME RunEnd PROVE RunnerInv'
  BY <1>19 DEF RunEnd, RunnerInv
<1>20. ASSUME NEW u \in Uris, PollBegin(u) PROVE RunnerInv'
  BY <1>20 DEF PollBegin, Runner, RunnerInv
<1>21. ASSUME NEW u \in Uris, PollOk(u) PROVE RunnerInv'
  BY <1>21 DEF PollOk, Runner, RunnerInv
<1>22. ASSUME NEW u \in Uris, PollFail(u) PROVE RunnerInv'
  BY <1>22 DEF PollFail, Runner, RunnerInv
<1>23. ASSUME NEW u \in Uris, NotifyAlive(u) PROVE RunnerInv'
  BY <1>23 DEF NotifyAlive, Runner, RunnerInv
<1>24. ASSUME NEW u \in Uris, Exit(u) PROVE RunnerInv'
  BY <1>24 DEF Exit, Runner, RunnerInv
<1>25. ASSUME BrowseBegin PROVE RunnerInv'
  BY <1>25 DEF BrowseBegin, RunnerInv
<1>26. ASSUME BrowseEnd PROVE RunnerInv'
  BY <1>26 DEF BrowseEnd, RunnerInv
<1>27. ASSUME Tick PROVE RunnerInv'
  BY <1>27 DEF Tick, RunnerInv
<1>28. ASSUME Restart PROVE RunnerInv'
  BY <1>28 DEF Restart, RestoreNodes, TypeOK, RunnerInv
<1>29. CASE UNCHANGED vars
  BY <1>29 DEF vars, RunnerInv
<1> QED
  BY <1>1, <1>2, <1>3, <1>4, <1>5, <1>6, <1>7, <1>8, <1>9, <1>10, <1>11, <1>12, <1>13, <1>14,
     <1>15, <1>16, <1>17, <1>18, <1>19, <1>20, <1>21, <1>22, <1>23, <1>24, <1>25, <1>26, <1>27,
     <1>28, <1>29
  DEF Next, HandleAdd, HandleRemove, HandleList, HandleService, ClientStep, MonitorStep,
      StoreStep, PollEnd, Threads, Clients

\* Every step preserves what the monitor's clocks are to the polls.
LEMMA ClockStep ==
    ASSUME TypeOK, OpInv, SmuInv, MmuInv, CacheInv, DeviceInv, RunnerInv, ClockInv, [Next]_vars
    PROVE  ClockInv'
<1>1. ASSUME NEW c \in Clients, NEW u \in Uris, Call(c, "add", u) PROVE ClockInv'
  BY <1>1, ThreadSets DEF Call, ClockInv
<1>2. ASSUME NEW c \in Clients, NEW u \in Uris, Call(c, "remove", u) PROVE ClockInv'
  BY <1>2, ThreadSets DEF Call, ClockInv
<1>3. ASSUME NEW c \in Clients, Call(c, "list", None) PROVE ClockInv'
  BY <1>3, ThreadSets DEF Call, ClockInv
<1>4. ASSUME NEW c \in Clients, MonLock(c) PROVE ClockInv'
  BY <1>4 DEF MonLock, OpInv, ClockInv
<1>5. ASSUME NEW t \in Threads, StoreLock(t) PROVE ClockInv'
  BY <1>5 DEF StoreLock, ClockInv
<1>6. ASSUME NEW t \in Threads, AddCheck(t) PROVE ClockInv'
  BY <1>6, ThreadSets DEF AddCheck, TypeOK, ClockInv
<1>7. ASSUME NEW t \in Threads, AddWrite(t) PROVE ClockInv'
  BY <1>7, ThreadSets DEF AddWrite, OnDbError, TypeOK, ClockInv
<1>8. ASSUME NEW t \in Threads, AddStart(t) PROVE ClockInv'
  <2>1. arg[t] \in Uris /\ arg[t] \notin nodes
    BY <1>8, ArgTyped DEF AddStart, Wrapped, OpInv, CacheInv
  <2>2. MonitorEnabled => age[arg[t]] = 0
    <3> SUFFICES ASSUME MonitorEnabled PROVE age[arg[t]] = 0
      OBVIOUS
    <3>1. mmu = t
      BY <1>8 DEF AddStart, Wrapped, OpInv, MmuInv, HoldsMonitor, StoreHeld
    <3>2. devices = nodes
      BY <1>8, <3>1, SeenAll DEF AddStart, Wrapped, Unseen
    <3> QED
      BY <2>1, <3>2 DEF ClockInv
  <2>3. \A v \in notified' : runner'[v] = "notify" \/ age'[v] <= sinceOk'[v]
    <3> SUFFICES ASSUME NEW v \in notified' PROVE runner'[v] = "notify" \/ age'[v] <= sinceOk'[v]
      OBVIOUS
    <3>1. CASE v = arg[t] /\ MonitorEnabled
      BY <1>8, <2>1, <2>2, <3>1 DEF AddStart, Wrapped, TypeOK
    <3>2. CASE v # arg[t]
      BY <1>8, <2>1, <3>2 DEF AddStart, Wrapped, TypeOK, ClockInv
    <3>3. CASE v = arg[t] /\ ~MonitorEnabled
      BY <1>8, <2>1, <3>3 DEF AddStart, Wrapped, RunnerInv
    <3> QED
      BY <3>1, <3>2, <3>3
  <2>4. pc'[Monitor] \in {"storelock", "check", "dbremove", "wait"} => pc'[Monitor] = pc[Monitor]
    BY <1>8 DEF AddStart, Wrapped
  <2> QED
    BY <1>8, <2>3, <2>4 DEF AddStart, Wrapped, ClockInv
<1>9. ASSUME NEW t \in Threads, RemoveCheck(t) PROVE ClockInv'
  BY <1>9, ThreadSets DEF RemoveCheck, TypeOK, ClockInv
<1>10. ASSUME NEW t \in Threads, RemoveDb(t) PROVE ClockInv'
  BY <1>10, ThreadSets DEF RemoveDb, OnDbError, TypeOK, ClockInv
<1>11. ASSUME NEW t \in Threads, RemoveWait(t) PROVE ClockInv'
  BY <1>11 DEF RemoveWait, ClockInv
<1>12. ASSUME NEW t \in Threads, GetDesc(t) PROVE ClockInv'
  BY <1>12 DEF GetDesc, ClockInv
<1>13. ASSUME NEW t \in Threads, StoreUnlock(t) PROVE ClockInv'
  BY <1>13 DEF StoreUnlock, ClockInv
<1>14. ASSUME NEW c \in Clients, MonUpdate(c) PROVE ClockInv'
  <2>1. mmu = c /\ c # Monitor
    BY <1>14, ThreadSets DEF MonUpdate, MmuInv, HoldsMonitor
  <2>2. pc'[Monitor] = pc[Monitor] /\ pc[Monitor] \notin {"storelock", "check", "dbremove", "wait"}
    BY <1>14, <2>1, ScanHolds DEF MonUpdate
  <2>3. res[c] = "ok" => arg[c] \in Uris
    BY <1>14, ThreadSets, ArgTyped DEF MonUpdate
  <2> QED
    BY <1>14, <2>2, <2>3 DEF MonUpdate, Stamp, Forget, TypeOK, ClockInv
<1>15. ASSUME NEW c \in Clients, Return(c) PROVE ClockInv'
  BY <1>15 DEF Return, ClockInv
<1>16. ASSUME RunBegin PROVE ClockInv'
  BY <1>16 DEF RunBegin, ClockInv
<1>17. ASSUME NEW u \in Uris, Scan(u) PROVE ClockInv'
  BY <1>17, MaxInactiveAssumption DEF Scan, Inactive, TypeOK, ClockInv
<1>18. ASSUME ScanResult PROVE ClockInv'
  BY <1>18 DEF ScanResult, Forget, TypeOK, ClockInv
<1>19. ASSUME RunEnd PROVE ClockInv'
  BY <1>19 DEF RunEnd, ClockInv
<1>20. ASSUME NEW u \in Uris, PollBegin(u) PROVE ClockInv'
  BY <1>20 DEF PollBegin, Runner, ClockInv
<1>21. ASSUME NEW u \in Uris, PollOk(u) PROVE ClockInv'
  BY <1>21 DEF PollOk, Runner, TypeOK, ClockInv
<1>22. ASSUME NEW u \in Uris, PollFail(u) PROVE ClockInv'
  BY <1>22 DEF PollFail, Runner, ClockInv
<1>23. ASSUME NEW u \in Uris, NotifyAlive(u) PROVE ClockInv'
  <2>1. pc[Monitor] \notin {"storelock", "check", "dbremove", "wait"}
    BY <1>23, ThreadSets, ScanHolds DEF NotifyAlive
  <2> QED
    BY <1>23, <2>1 DEF NotifyAlive, Runner, Stamp, TypeOK, ClockInv
<1>24. ASSUME NEW u \in Uris, Exit(u) PROVE ClockInv'
  BY <1>24 DEF Exit, Runner, ClockInv
<1>25. ASSUME BrowseBegin PROVE ClockInv'
  BY <1>25 DEF BrowseBegin, ClockInv
<1>26. ASSUME BrowseEnd PROVE ClockInv'
  BY <1>26 DEF BrowseEnd, ClockInv
<1>27. ASSUME Tick PROVE ClockInv'
  <2>1. \A u \in Uris : age[u] \in 0 .. MaxInactive /\ sinceOk[u] \in 0 .. MaxInactive
    BY DEF TypeOK
  <2>2. \A u \in Uris \ devices : age'[u] = age[u]
    BY <1>27 DEF Tick, Older
  <2>3. \A u \in nodes : age[u] <= sinceOk[u] => age'[u] <= sinceOk'[u]
    BY <1>27, <2>1 DEF Tick, Older, TypeOK
  <2>4. \A u \in Uris : age[u] = MaxInactive => age'[u] = MaxInactive
    BY <1>27, MaxInactiveAssumption DEF Tick, Older
  <2>5. pc[Monitor] \in {"storelock", "check", "dbremove", "wait"} => arg[Monitor] \in Uris
    BY ArgTyped, ThreadSets DEF OpInv
  <2> QED
    BY <1>27, <2>2, <2>3, <2>4, <2>5 DEF Tick, ClockInv, RunnerInv
<1>28. ASSUME Restart PROVE ClockInv'
  BY <1>28, ThreadSets DEF Restart, RestoreNodes, ClockInv
<1>29. CASE UNCHANGED vars
  BY <1>29 DEF vars, ClockInv
<1> QED
  BY <1>1, <1>2, <1>3, <1>4, <1>5, <1>6, <1>7, <1>8, <1>9, <1>10, <1>11, <1>12, <1>13, <1>14,
     <1>15, <1>16, <1>17, <1>18, <1>19, <1>20, <1>21, <1>22, <1>23, <1>24, <1>25, <1>26, <1>27,
     <1>28, <1>29
  DEF Next, HandleAdd, HandleRemove, HandleList, HandleService, ClientStep, MonitorStep,
      StoreStep, PollEnd, Threads, Clients

-----------------------------------------------------------------------------
(* The theorems.                                                           *)

\* The invariant holds when the hub starts.
LEMMA InitInv == Init => IInv
<1> SUFFICES ASSUME Init PROVE IInv
  OBVIOUS
<1>1. PICK d \in SUBSET Uris, c \in SUBSET Uris :
         /\ c \subseteq d
         /\ db = d /\ corrupt = c
         /\ Restored(d, c)
         /\ RestoreDevices(d \ c)
         /\ runner = [u \in Uris |-> IF u \in d \ c THEN "poll" ELSE "none"]
  BY DEF Init
<1>2. TypeOK
  <2>1. /\ nodes \subseteq Uris /\ devices \subseteq Uris
        /\ age \in [Uris -> 0 .. MaxInactive] /\ sinceOk \in [Uris -> 0 .. MaxInactive]
        /\ runner \in [Uris -> {"none", "select", "poll", "notify"}]
    BY <1>1, MaxInactiveAssumption DEF Init, Restored, RestoreDevices
  <2>2. /\ pc \in [Threads -> Locations]
        /\ op \in [Threads -> {"none", "add", "remove", "list"}]
        /\ arg \in [Threads -> Uris \union {None}]
        /\ res \in [Threads -> {"none", "ok", "exists", "nodata", "error"}]
        /\ listed \in [Threads -> SUBSET Uris]
    BY DEF Init, Locations
  <2> QED
    BY <1>1, <2>1, <2>2 DEF Init, Restored, TypeOK
<1>3. SmuInv /\ MmuInv /\ OpInv
  BY ThreadSets DEF Init, SmuInv, MmuInv, OpInv, HoldsMonitor, StoreHeld
<1>4. CacheInv /\ DeviceInv
  BY <1>1 DEF Init, Restored, RestoreDevices, CacheInv, DeviceInv, Unseen
<1>5. RunnerInv /\ ClockInv
  BY <1>1, ThreadSets DEF Init, Restored, RestoreDevices, RunnerInv, ClockInv
<1> QED
  BY <1>2, <1>3, <1>4, <1>5 DEF IInv

\* IInv is inductive: it holds in every state the store reaches.
THEOREM Invariant == Spec => []IInv
<1>1. IInv /\ [Next]_vars => IInv'
  BY TypeStep, OpStep, SmuStep, MmuStep, CacheStep, DeviceStep, RunnerStep, ClockStep DEF IInv
<1> QED
  BY InitInv, <1>1, PTL DEF Spec

\* Every variable keeps its type, in particular every thread is at a place
\* of the program and no clock of the monitor passes MaxInactive.
THEOREM TypeCorrect == Spec => []TypeOK
BY Invariant, PTL DEF IInv

\* Cache and bucket agree between any two operations of CacheStore, whatever
\* fails and whenever the process is restarted (cache_store.go, Add, Remove).
THEOREM StoreIsConsistent == Spec => []StoreConsistent
<1>1. IInv => StoreConsistent
  <2> SUFFICES ASSUME IInv, smu = None PROVE nodes = db \ corrupt
    BY DEF StoreConsistent
  <2>1. \A t \in Threads : pc[t] \notin {"start", "wait"}
    BY ThreadSets DEF IInv, SmuInv, StoreHeld
  <2> QED
    BY <2>1 DEF IInv, CacheInv
<1> QED
  BY Invariant, <1>1, PTL

\* The monitor's map is the set of cached devices whenever its mutex is free
\* (store_alive_monitor.go, Add, Remove, Run, notifyAlive).
THEOREM MonitorIsConsistent == Spec => []MonitorConsistent
<1>1. IInv => MonitorConsistent
  BY SeenAll, ThreadSets DEF IInv, MonitorConsistent
<1> QED
  BY Invariant, <1>1, PTL

\* Removing a device ends its goroutine, and only that does: Stop waits for
\* doneCh before the node is dropped (cache_store.go, storeNode.stop).
THEOREM PollersFollowCache == Spec => []PolledIffCached
<1>1. IInv => PolledIffCached
  <2> SUFFICES ASSUME IInv PROVE PolledIffCached
    OBVIOUS
  <2>1. smu = None => cancelled = {}
    BY ThreadSets DEF IInv, SmuInv, StoreHeld, RunnerInv
  <2> QED
    BY <2>1 DEF IInv, RunnerInv, PolledIffCached
<1> QED
  BY Invariant, <1>1, PTL

\* Run removes an added device only after MaxInactive without a successful
\* poll, but for one whose report waits for the mutex that Run holds from the
\* look at the map to the end of the removal (store_alive_monitor.go, Run and
\* notifyAlive).
THEOREM OnlySilentExpire == Spec => []AddedExpireSilent
<1>1. IInv => AddedExpireSilent
  <2> SUFFICES ASSUME IInv, NEW u \in notified, Expiring(u), runner[u] # "notify"
               PROVE  sinceOk[u] = MaxInactive
    BY DEF AddedExpireSilent
  <2>1. age[u] = MaxInactive /\ age[u] <= sinceOk[u]
    BY DEF IInv, ClockInv, Expiring
  <2>2. sinceOk[u] \in 0 .. MaxInactive
    BY DEF IInv, TypeOK
  <2> QED
    BY <2>1, <2>2, MaxInactiveAssumption
<1> QED
  BY Invariant, <1>1, PTL

\* Without exception, the removals of added devices that Run completes are of
\* devices that have not answered for MaxInactive, up to the end of the removal.
RemovedWereSilent ==
    \A u \in notified :
        Expiring(u) /\ pc[Monitor] = "wait" /\ Stopped(u) => sinceOk[u] = MaxInactive

THEOREM OnlySilentAreRemoved == Spec => []RemovedWereSilent
<1>1. AddedExpireSilent => RemovedWereSilent
  BY DEF AddedExpireSilent, RemovedWereSilent, Stopped
<1> QED
  BY OnlySilentExpire, <1>1, PTL

-----------------------------------------------------------------------------
(* Who waits for whom.                                                     *)

\* Remove has cancelled what it waits for, and only the monitor is reported to.
BlockInv ==
    /\ \A t \in Threads : pc[t] = "wait" => arg[t] \in cancelled
    /\ notified # {} => MonitorEnabled
    /\ \A u \in Uris : runner[u] = "notify" => MonitorEnabled

\* Every step preserves it: cancelled loses a device only when it is started
\* or dropped, and CacheStore.mu keeps both away from a Remove that waits.
LEMMA BlockStep ==
    ASSUME TypeOK, OpInv, SmuInv, BlockInv, [Next]_vars
    PROVE  BlockInv'
<1> USE DEF BlockInv, TypeOK
<1>1. ASSUME NEW c \in Clients, NEW u \in Uris, Call(c, "add", u) \/ Call(c, "remove", u)
      PROVE  BlockInv'
  BY <1>1, ThreadSets DEF Call
<1>2. ASSUME NEW c \in Clients, Call(c, "list", None) PROVE BlockInv'
  BY <1>2, ThreadSets DEF Call
<1>3. ASSUME NEW c \in Clients, MonLock(c) PROVE BlockInv'
  BY <1>3 DEF MonLock
<1>4. ASSUME NEW t \in Threads, StoreLock(t) PROVE BlockInv'
  BY <1>4 DEF StoreLock
<1>5. ASSUME NEW t \in Threads, AddCheck(t) PROVE BlockInv'
  BY <1>5 DEF AddCheck
<1>6. ASSUME NEW t \in Threads, AddWrite(t) PROVE BlockInv'
  BY <1>6 DEF AddWrite, OnDbError
<1>7. ASSUME NEW t \in Threads, AddStart(t) PROVE BlockInv'
  <2>1. \A x \in Threads : pc'[x] = "wait" => x = t
    BY <1>7 DEF AddStart, SmuInv, StoreHeld
  <2>2. pc'[t] = "storeunlock"
    BY <1>7 DEF AddStart
  <2> QED
    BY <1>7, <2>1, <2>2 DEF AddStart, Wrapped
<1>8. ASSUME NEW t \in Threads, RemoveCheck(t) PROVE BlockInv'
  BY <1>8 DEF RemoveCheck
<1>9. ASSUME NEW t \in Threads, RemoveDb(t) PROVE BlockInv'
  BY <1>9 DEF RemoveDb, OnDbError, Cancel
<1>10. ASSUME NEW t \in Threads, RemoveWait(t) PROVE BlockInv'
  <2>1. \A x \in Threads : pc[x] = "wait" => x = t
    BY <1>10 DEF RemoveWait, SmuInv, StoreHeld
  <2>2. pc' = [pc EXCEPT ![t] = "storeunlock"]
    BY <1>10 DEF RemoveWait
  <2> QED
    BY <1>10, <2>1, <2>2 DEF RemoveWait
<1>11. ASSUME NEW t \in Threads, GetDesc(t) PROVE BlockInv'
  BY <1>11 DEF GetDesc
<1>12. ASSUME NEW t \in Threads, StoreUnlock(t) PROVE BlockInv'
  BY <1>12 DEF StoreUnlock
<1>13. ASSUME NEW c \in Clients, MonUpdate(c) PROVE BlockInv'
  BY <1>13 DEF MonUpdate
<1>14. ASSUME NEW c \in Clients, Return(c) PROVE BlockInv'
  BY <1>14, ThreadSets DEF Return
<1>15. CASE RunBegin
  BY <1>15 DEF RunBegin
<1>16. ASSUME NEW u \in Uris, Scan(u) PROVE BlockInv'
  BY <1>16, ThreadSets DEF Scan
<1>17. CASE ScanResult
  BY <1>17, ThreadSets DEF ScanResult
<1>18. CASE RunEnd
  BY <1>18 DEF RunEnd
<1>19. ASSUME NEW u \in Uris, PollBegin(u) \/ PollFail(u) PROVE BlockInv'
  BY <1>19 DEF PollBegin, PollFail, Runner
<1>20. ASSUME NEW u \in Uris, PollOk(u) PROVE BlockInv'
  BY <1>20 DEF PollOk, Runner
<1>21. ASSUME NEW u \in Uris, NotifyAlive(u) \/ Exit(u) PROVE BlockInv'
  BY <1>21 DEF NotifyAlive, Exit, Runner
<1>22. CASE BrowseBegin \/ BrowseEnd \/ Tick
  BY <1>22 DEF BrowseBegin, BrowseEnd, Tick
<1>23. CASE Restart
  BY <1>23 DEF Restart, RestoreNodes
<1>24. CASE UNCHANGED vars
  BY <1>24 DEF vars
<1> QED
  BY <1>1, <1>2, <1>3, <1>4, <1>5, <1>6, <1>7, <1>8, <1>9, <1>10, <1>11, <1>12, <1>13, <1>14,
     <1>15, <1>16, <1>17, <1>18, <1>19, <1>20, <1>21, <1>22, <1>23, <1>24
  DEF Next, HandleAdd, HandleRemove, HandleList, HandleService, ClientStep, MonitorStep,
      StoreStep, PollEnd, Threads, Clients

\* No circle of waiting threads, except the one through a report: what a call
\* needs to return, said without fairness (store_alive_monitor.go, Add, Remove,
\* Run, notifyAlive, and cache_store.go, Add, Remove, GetDesc).
THEOREM OnlyReportsBlockCalls == Spec => []OnlyReportsBlock
<1>1. Init => BlockInv
  BY DEF Init, Restored, BlockInv
<1>2. IInv /\ BlockInv /\ [Next]_vars => BlockInv'
  BY BlockStep DEF IInv
<1>3. IInv /\ BlockInv => OnlyReportsBlock
  <2> SUFFICES ASSUME IInv, BlockInv, NEW t \in Threads
               PROVE  /\ pc[t] = "monlock" /\ mmu # None =>
                            pc[mmu] \notin {"idle", "monlock", "return"}
                      /\ pc[t] = "storelock" /\ smu # None => pc[smu] \in StoreHeld
                      /\ pc[t] = "wait" =>
                            /\ arg[t] \in cancelled
                            /\ runner[arg[t]] = "notify" => MonitorEnabled /\ AwaitsReport(t)
    BY DEF OnlyReportsBlock, StoreHeld
  <2>1. mmu # None => mmu \in Threads /\ HoldsMonitor(mmu)
    BY DEF IInv, TypeOK, MmuInv
  <2>2. smu # None => smu \in Threads /\ pc[smu] \in StoreHeld
    BY DEF IInv, TypeOK, SmuInv
  <2>3. ASSUME pc[t] = "wait" PROVE arg[t] \in cancelled /\ arg[t] \in Uris
    BY <2>3 DEF IInv, OpInv, BlockInv
  <2>4. ASSUME pc[t] = "wait", runner[arg[t]] = "notify" PROVE MonitorEnabled /\ AwaitsReport(t)
    <3>1. MonitorEnabled /\ op[t] = "remove"
      BY <2>3, <2>4 DEF BlockInv, IInv, OpInv
    <3>2. mmu = t
      BY <2>4, <3>1 DEF IInv, MmuInv, HoldsMonitor, StoreHeld
    <3> QED
      BY <2>4, <3>1, <3>2 DEF AwaitsReport
  <2> QED
    BY <2>1, <2>2, <2>3, <2>4 DEF HoldsMonitor, StoreHeld
<1> QED
  BY Invariant, <1>1, <1>2, <1>3, PTL DEF Spec

\* That circle is never left: whatever the other goroutines do, the Remove
\* waits on, under both mutexes, until the process is restarted.
ReportBlocksForEver ==
    [][\A t \in Threads : AwaitsReport(t) => AwaitsReport(t)' \/ Restart]_vars

LEMMA ReportBlocksStep ==
    ASSUME IInv, [Next]_vars, NEW t \in Threads, AwaitsReport(t), ~Restart
    PROVE  AwaitsReport(t)'
<1> USE DEF AwaitsReport, TypeOK, IInv
<1>1. /\ t # None /\ smu = t /\ mmu = t
      /\ arg[t] \in Uris
      /\ \A x \in Threads : HoldsMonitor(x) \/ pc[x] \in StoreHeld => x = t
  BY ThreadSets DEF SmuInv, MmuInv, OpInv, StoreHeld
<1>2. ASSUME NEW c \in Clients, NEW u \in Uris, Call(c, "add", u) \/ Call(c, "remove", u)
      PROVE  AwaitsReport(t)'
  BY <1>2, ThreadSets DEF Call
<1>3. ASSUME NEW c \in Clients, Call(c, "list", None) \/ Return(c) PROVE AwaitsReport(t)'
  BY <1>3, ThreadSets DEF Call, Return
<1>4. ASSUME NEW x \in Threads,
             MonLock(x) \/ StoreLock(x) \/ AddCheck(x) \/ AddWrite(x) \/ AddStart(x)
      PROVE  AwaitsReport(t)'
  <2>1. FALSE
    BY <1>1, <1>4 DEF MonLock, StoreLock, AddCheck, AddWrite, AddStart, StoreHeld
  <2> QED
    BY <2>1
<1>5. ASSUME NEW x \in Threads,
             RemoveCheck(x) \/ RemoveDb(x) \/ RemoveWait(x) \/ GetDesc(x) \/ StoreUnlock(x)
      PROVE  AwaitsReport(t)'
  <2>1. FALSE
    BY <1>1, <1>5 DEF RemoveCheck, RemoveDb, RemoveWait, Stopped, GetDesc, StoreUnlock, StoreHeld
  <2> QED
    BY <2>1
<1>6. ASSUME NEW c \in Clients, MonUpdate(c) PROVE AwaitsReport(t)'
  <2>1. c = t
    BY <1>1, <1>6, ThreadSets DEF MonUpdate, HoldsMonitor
  <2> QED
    BY <1>6, <2>1 DEF MonUpdate
<1>7. CASE RunBegin \/ ScanResult \/ RunEnd \/ \E u \in Uris : Scan(u)
  <2>1. t # Monitor
    BY <1>1, <1>7, ThreadSets DEF Scan, RunBegin, ScanResult, RunEnd
  <2>2. HoldsMonitor(Monitor) \/ mmu = None
    BY <1>7 DEF Scan, RunBegin, ScanResult, RunEnd, HoldsMonitor
  <2> QED
    BY <1>1, <2>1, <2>2, ThreadSets
<1>8. ASSUME NEW u \in Uris, PollBegin(u) \/ PollEnd(u) \/ NotifyAlive(u) \/ Exit(u)
      PROVE  AwaitsReport(t)'
  <2>1. u # arg[t]
    BY <1>1, <1>8 DEF PollBegin, PollEnd, PollOk, PollFail, NotifyAlive, Exit
  <2> QED
    BY <1>1, <1>8, <2>1 DEF PollBegin, PollEnd, PollOk, PollFail, NotifyAlive, Exit, Runner
<1>9. CASE BrowseBegin \/ BrowseEnd \/ Tick
  BY <1>9 DEF BrowseBegin, BrowseEnd, Tick
<1>10. CASE UNCHANGED vars
  BY <1>10 DEF vars
<1> QED
  BY <1>2, <1>3, <1>4, <1>5, <1>6, <1>7, <1>8, <1>9, <1>10
  DEF Next, HandleAdd, HandleRemove, HandleList, HandleService, ClientStep, MonitorStep,
      StoreStep, Threads, Clients

\* A Remove that waits for a report ends with the process only
\* (cache_store.go, storeNode.stop under StoreAliveMonitor.mu).
THEOREM RemoveIsStuck == Spec => ReportBlocksForEver
<1>1. IInv /\ [Next]_vars =>
         [\A t \in Threads : AwaitsReport(t) => AwaitsReport(t)' \/ Restart]_vars
  BY ReportBlocksStep
<1> QED
  BY Invariant, <1>1, PTL DEF Spec, ReportBlocksForEver

=============================================================================
