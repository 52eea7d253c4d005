----------------------- MODULE DeviceStoreRefinement -----------------------
(***************************************************************************)
(* DeviceStore implements DeviceRegistry, for any sets of devices and      *)
(* handlers: every step of the goroutines, the pollers, the monitor and a  *)
(* restart is a step of the registry or leaves it alone.                   *)
(*                                                                         *)
(* An Add or Remove takes effect where its outcome is decided: at the look *)
(* into the cache when that settles it, else when the bucket accepts or    *)
(* refuses the change.  The monitor's own removal is Expire.               *)
(***************************************************************************)
EXTENDS DeviceStoreProofs

USE DEF Goto, Result, callVars, nodeVars, dbVars, monVars, mdnsVars, restOfPoll

-----------------------------------------------------------------------------
(* The refinement mapping, call by call.                                   *)

\* The places of a call that has had no effect yet.
Called == {"monlock", "storelock", "check", "write", "dbremove"}

\* The stage of the call of c, as callMap has it.
Stage(c) ==
    IF pc[c] = "idle" THEN "idle" ELSE IF pc[c] \in Called THEN "called" ELSE "done"

\* A call has no result before its effect, and nothing is left of it after.
CallInv ==
    \A c \in Clients :
        /\ pc[c] = "idle" => op[c] = "none" /\ arg[c] = None
        /\ pc[c] \in Called \union {"idle"} => res[c] = "none" /\ listed[c] = {}

\* The step changes nothing the registry sees of the call of c.
Same(c) ==
    /\ Stage(c)' = Stage(c)
    /\ op'[c] = op[c] /\ arg'[c] = arg[c]
    /\ res'[c] = res[c] /\ listed'[c] = listed[c]

\* The record of one client's call.
LEMMA CallMapAt ==
    ASSUME NEW c \in Clients
    PROVE  /\ callMap[c] = [st |-> Stage(c), op |-> op[c], uri |-> arg[c],
                            res |-> res[c], seen |-> listed[c]]
           /\ callMap'[c] = [st |-> Stage(c)', op |-> op'[c], uri |-> arg'[c],
                             res |-> res'[c], seen |-> listed'[c]]
BY DEF callMap, Stage, Called

\* A step of the call of one client leaves the other calls alone.
LEMMA OneCall ==
    ASSUME NEW c \in Clients, NEW r, callMap'[c] = r,
           \A d \in Clients \ {c} : Same(d)
    PROVE  callMap' = [callMap EXCEPT ![c] = r]
<1>1. ASSUME NEW d \in Clients \ {c} PROVE callMap'[d] = callMap[d]
  <2>1. /\ callMap[d] = [st |-> Stage(d), op |-> op[d], uri |-> arg[d],
                         res |-> res[d], seen |-> listed[d]]
        /\ callMap'[d] = [st |-> Stage(d)', op |-> op'[d], uri |-> arg'[d],
                          res |-> res'[d], seen |-> listed'[d]]
    BY CallMapAt
  <2>2. /\ Stage(d)' = Stage(d)
        /\ op'[d] = op[d] /\ arg'[d] = arg[d]
        /\ res'[d] = res[d] /\ listed'[d] = listed[d]
    BY DEF Same
  <2> QED
    BY <2>1, <2>2, Zenon
<1>2. /\ callMap = [d \in Clients |-> callMap[d]]
      /\ callMap' = [d \in Clients |-> callMap'[d]]
  BY DEF callMap
<1> QED
  BY <1>1, <1>2, Zenon

\* A step in which the call of c has its effect.
Effect(c, r, s) ==
    /\ pc[c] \in Called /\ pc'[c] \notin Called \union {"idle"}
    /\ op'[c] = op[c] /\ arg'[c] = arg[c] /\ res'[c] = r /\ listed'[c] = s
    /\ \A d \in Clients \ {c} : Same(d)

\* A step that decides the result of a call is the abstract step Done.
LEMMA EffectIsDone ==
    ASSUME NEW c \in Clients, NEW r, NEW s, Effect(c, r, s)
    PROVE  /\ Registry!Done(c, r, s)
           /\ callMap[c].st = "called" /\ callMap[c].op = op[c] /\ callMap[c].uri = arg[c]
<1>1. callMap[c] = [st |-> "called", op |-> op[c], uri |-> arg[c],
                    res |-> res[c], seen |-> listed[c]]
  BY CallMapAt DEF Effect, Stage, Called
<1>2. callMap'[c] = [st |-> "done", op |-> op[c], uri |-> arg[c], res |-> r, seen |-> s]
  BY CallMapAt DEF Effect, Stage, Called
<1>3. callMap' = [callMap EXCEPT ![c] = [st |-> "done", op |-> op[c], uri |-> arg[c],
                                         res |-> r, seen |-> s]]
  BY <1>2, OneCall DEF Effect
<1>4. Registry!Done(c, r, s)
  BY <1>1, <1>3 DEF Registry!Done, callMap
<1> QED
  BY <1>1, <1>4

\* A step that leaves every call and the registered devices alone.
LEMMA Stutter ==
    ASSUME \A c \in Clients : Same(c), (db \ corrupt)' = db \ corrupt
    PROVE  UNCHANGED Registry!vars
<1>1. \A c \in Clients : callMap'[c] = callMap[c]
  BY CallMapAt DEF Same
<1>2. callMap' = callMap
  BY <1>1 DEF callMap
<1> QED
  BY <1>2 DEF Registry!vars

\* Where a thread reads the cache, the cache is the set of registered devices.
LEMMA CacheRead ==
    ASSUME IInv, NEW t \in Threads, pc[t] \in {"check", "write", "dbremove"}
    PROVE  nodes = db \ corrupt
<1>1. \A v \in Threads : pc[v] \notin {"start", "wait"}
  BY DEF IInv, SmuInv, StoreHeld
<1> QED
  BY <1>1 DEF IInv, CacheInv

\* The monitor's runner makes no call but removals.
LEMMA MonitorRemoves ==
    ASSUME IInv, NEW t \in Threads, op[t] # "remove", pc[t] \notin {"idle", "scan"}
    PROVE  t \in Clients
BY DEF IInv, OpInv, Threads

\* Every step preserves what the record of a call leaves out.
LEMMA CallStep ==
    ASSUME TypeOK, OpInv, CallInv, [Next]_vars
    PROVE  CallInv'
<1>1. ASSUME NEW c \in Clients, NEW u \in Uris, Call(c, "add", u) PROVE CallInv'
  BY <1>1 DEF Call, TypeOK, CallInv
<1>2. ASSUME NEW c \in Clients, NEW u \in Uris, Call(c, "remove", u) PROVE CallInv'
  BY <1>2 DEF Call, TypeOK, CallInv
<1>3. ASSUME NEW c \in Clients, Call(c, "list", None) PROVE CallInv'
  BY <1>3 DEF Call, TypeOK, CallInv
<1>4. ASSUME NEW c \in Clients, MonLock(c) PROVE CallInv'
  BY <1>4 DEF MonLock, CallInv, Called
<1>5. ASSUME NEW t \in Threads, StoreLock(t) PROVE CallInv'
  BY <1>5 DEF StoreLock, CallInv, Called
<1>6. ASSUME NEW t \in Threads, AddCheck(t) PROVE CallInv'
  BY <1>6, ThreadSets DEF AddCheck, TypeOK, CallInv, Called
<1>7. ASSUME NEW t \in Threads, AddWrite(t) PROVE CallInv'
  BY <1>7, ThreadSets DEF AddWrite, OnDbError, TypeOK, CallInv, Called
<1>8. ASSUME NEW t \in Threads, AddStart(t) PROVE CallInv'
  BY <1>8 DEF AddStart, Wrapped, CallInv, Called
<1>9. ASSUME NEW t \in Threads, RemoveCheck(t) PROVE CallInv'
  BY <1>9, ThreadSets DEF RemoveCheck, TypeOK, CallInv, Called
<1>10. ASSUME NEW t \in Threads, RemoveDb(t) PROVE CallInv'
  BY <1>10, ThreadSets DEF RemoveDb, OnDbError, TypeOK, CallInv, Called
<1>11. ASSUME NEW t \in Threads, RemoveWait(t) PROVE CallInv'
  BY <1>11 DEF RemoveWait, CallInv, Called
<1>12. ASSUME NEW t \in Threads, GetDesc(t) PROVE CallInv'
  BY <1>12 DEF GetDesc, TypeOK, CallInv, Called
<1>13. ASSUME NEW t \in Threads, StoreUnlock(t) PROVE CallInv'
  BY <1>13 DEF StoreUnlock, CallInv, Called
<1>14. ASSUME NEW c \in Clients, MonUpdate(c) PROVE CallInv'
  BY <1>14 DEF MonUpdate, CallInv, Called
<1>15. ASSUME NEW c \in Clients, Return(c) PROVE CallInv'
  BY <1>15 DEF Return, TypeOK, CallInv
<1>16. ASSUME RunBegin PROVE CallInv'
  BY <1>16 DEF RunBegin, CallInv
<1>17. ASSUME NEW u \in Uris, Scan(u) PROVE CallInv'
  BY <1>17, ThreadSets DEF Scan, TypeOK, CallInv
<1>18. ASSUME ScanResult PROVE CallInv'
  BY <1>18 DEF ScanResult, CallInv, Called
<1>19. ASSUME RunEnd PROVE CallInv'
  BY <1>19, ThreadSets DEF RunEnd, CallInv
<1>20. ASSUME NEW u \in Uris, PollBegin(u) PROVE CallInv'
  BY <1>20 DEF PollBegin, CallInv
<1>21. ASSUME NEW u \in Uris, PollOk(u) PROVE CallInv'
  BY <1>21 DEF PollOk, CallInv
<1>22. ASSUME NEW u \in Uris, PollFail(u) PROVE CallInv'
  BY <1>22 DEF PollFail, CallInv
<1>23. ASSUME NEW u \in Uris, NotifyAlive(u) PROVE CallInv'
  BY <1>23 DEF NotifyAlive, CallInv
<1>24. ASSUME NEW u \in Uris, Exit(u) PROVE CallInv'
  BY <1>24 DEF Exit, CallInv
<1>25. ASSUME BrowseBegin PROVE CallInv'
  BY <1>25 DEF BrowseBegin, CallInv
<1>26. ASSUME BrowseEnd PROVE CallInv'
  BY <1>26 DEF BrowseEnd, CallInv
<1>27. ASSUME Tick PROVE CallInv'
  BY <1>27 DEF Tick, CallInv
<1>28. ASSUME Restart PROVE CallInv'
  BY <1>28, ThreadSets DEF Restart, CallInv
<1>29. CASE UNCHANGED vars
  BY <1>29 DEF vars, CallInv
<1> QED
  BY <1>1, <1>2, <1>3, <1>4, <1>5, <1>6, <1>7, <1>8, <1>9, <1>10, <1>11, <1>12, <1>13, <1>14,
     <1>15, <1>16, <1>17, <1>18, <1>19, <1>20, <1>21, <1>22, <1>23, <1>24, <1>25, <1>26, <1>27,
     <1>28, <1>29
  DEF Next, HandleAdd, HandleRemove, HandleList, HandleService, ClientStep, MonitorStep,
      StoreStep, PollEnd, Threads, Clients

-----------------------------------------------------------------------------
(* The operations.                                                         *)

\* A call by a handler or the browser is an abstract call.
LEMMA CallMaps ==
    ASSUME IInv, CallInv, NEW c \in Clients, NEW o \in {"add", "remove", "list"},
           NEW u \in Uris \union {None}, o = "list" <=> u = None, Call(c, o, u)
    PROVE  Registry!Call(c, o, u)
<1>1. callMap[c].st = "idle"
  <2>1. Stage(c) = "idle"
    BY DEF Call, Stage
  <2>2. callMap[c] = [st |-> "idle", op |-> op[c], uri |-> arg[c],
                      res |-> res[c], seen |-> listed[c]]
    BY <2>1, CallMapAt
  <2> QED
    BY <2>2
<1>2. /\ Stage(c)' = "called" /\ op'[c] = o /\ arg'[c] = u /\ res'[c] = "none" /\ listed'[c] = {}
      /\ \A d \in Clients \ {c} : Same(d)
  BY ThreadSets DEF Call, IInv, TypeOK, CallInv, Same, Stage, Called
<1>3. callMap' = [callMap EXCEPT ![c] =
                    [st |-> "called", op |-> o, uri |-> u, res |-> "none", seen |-> {}]]
  BY <1>2, CallMapAt, OneCall
<1> QED
  BY <1>1, <1>3 DEF Call, Registry!Call

\* The look of Add: a known or rejected device ends the call, or nothing happens.
LEMMA AddCheckMaps ==
    ASSUME IInv, CallInv, NEW t \in Threads, AddCheck(t)
    PROVE  t \in Clients /\ (Registry!AddEffect(t) \/ UNCHANGED Registry!vars)
<1>1. t \in Clients
  BY MonitorRemoves DEF AddCheck
<1>2. nodes = db \ corrupt /\ (db \ corrupt)' = db \ corrupt
  BY CacheRead DEF AddCheck
<1>3. CASE pc'[t] = "write"
  <2>1. \A c \in Clients : Same(c)
    BY <1>3, ThreadSets DEF AddCheck, IInv, TypeOK, Same, Stage, Called
  <2> QED
    BY <1>1, <1>2, <2>1, Stutter
<1>4. CASE Exists(arg[t])
  <2>1. Effect(t, "exists", {})
    BY <1>1, <1>4, ThreadSets DEF AddCheck, IInv, TypeOK, CallInv, Called, Effect, Same, Stage
  <2> QED
    BY <1>1, <1>2, <1>4, <2>1, EffectIsDone DEF AddCheck, Exists, Registry!AddEffect
<1>5. CASE ~Exists(arg[t]) /\ ~Supported(arg[t])
  <2>1. Effect(t, "error", {})
    BY <1>1, <1>5, ThreadSets DEF AddCheck, IInv, TypeOK, CallInv, Called, Effect, Same, Stage
  <2> QED
    BY <1>1, <1>2, <1>5, <2>1, EffectIsDone DEF AddCheck, Exists, Registry!AddEffect
<1> QED
  BY <1>3, <1>4, <1>5 DEF AddCheck, IInv, TypeOK

\* Add takes effect when its record is committed.
LEMMA AddWriteMaps ==
    ASSUME IInv, CallInv, NEW t \in Threads, AddWrite(t)
    PROVE  t \in Clients /\ Registry!AddEffect(t)
<1>1. op[t] = "add" /\ t \in Clients
  BY MonitorRemoves DEF AddWrite, IInv, OpInv
<1>2. arg[t] \notin db \ corrupt /\ arg[t] \notin BadUris
  BY CacheRead DEF AddWrite, IInv, CacheInv, Supported
<1>3. CASE pc'[t] = "start"
  <2>1. Effect(t, "ok", {})
    BY <1>1, <1>3, ThreadSets DEF AddWrite, OnDbError, IInv, TypeOK, CallInv, Called, Effect,
                                  Same, Stage
  <2>2. (db \ corrupt)' = (db \ corrupt) \union {arg[t]}
    BY <1>3 DEF AddWrite, OnDbError, IInv, TypeOK
  <2> QED
    BY <1>1, <1>2, <2>1, <2>2, EffectIsDone DEF Registry!AddEffect
<1>4. CASE OnDbError(t) /\ UNCHANGED <<db, corrupt>>
  <2>1. Effect(t, "error", {})
    BY <1>1, <1>4, ThreadSets DEF AddWrite, OnDbError, IInv, TypeOK, CallInv, Called, Effect,
                                  Same, Stage
  <2> QED
    BY <1>1, <1>2, <1>4, <2>1, EffectIsDone DEF Registry!AddEffect
<1> QED
  BY <1>1, <1>3, <1>4 DEF AddWrite, IInv, TypeOK

\* The look of Remove: an unknown device ends the call.
LEMMA RemoveCheckMaps ==
    ASSUME IInv, CallInv, NEW t \in Threads, RemoveCheck(t)
    PROVE  (t \in Clients /\ Registry!RemoveEffect(t)) \/ UNCHANGED Registry!vars
<1>1. nodes = db \ corrupt /\ (db \ corrupt)' = db \ corrupt
  BY CacheRead DEF RemoveCheck
<1>2. CASE pc'[t] = "dbremove" \/ t \notin Clients
  <2>1. \A c \in Clients : Same(c)
    BY <1>2, ThreadSets DEF RemoveCheck, IInv, TypeOK, Same, Stage, Called
  <2> QED
    BY <1>1, <2>1, Stutter
<1>3. CASE t \in Clients /\ ~Exists(arg[t])
  <2>1. Effect(t, "nodata", {})
    BY <1>3, ThreadSets DEF RemoveCheck, IInv, TypeOK, CallInv, Called, Effect, Same, Stage
  <2> QED
    BY <1>1, <1>3, <2>1, EffectIsDone DEF RemoveCheck, Exists, Registry!RemoveEffect
<1> QED
  BY <1>2, <1>3 DEF RemoveCheck, IInv, TypeOK

\* Remove takes effect when its record is deleted; for the monitor it expires.
LEMMA RemoveDbMaps ==
    ASSUME IInv, CallInv, NEW t \in Threads, RemoveDb(t)
    PROVE  \/ t \in Clients /\ Registry!RemoveEffect(t)
           \/ \E u \in Uris : Registry!Expire(u)
           \/ UNCHANGED Registry!vars
<1>1. op[t] = "remove" /\ arg[t] \in Uris /\ arg[t] \in db \ corrupt
  BY CacheRead DEF RemoveDb, IInv, OpInv, CacheInv
<1>2. CASE pc'[t] = "wait" /\ t \in Clients
  <2>1. Effect(t, "ok", {})
    BY <1>2, ThreadSets DEF RemoveDb, OnDbError, IInv, TypeOK, CallInv, Called, Effect, Same, Stage
  <2>2. (db \ corrupt)' = (db \ corrupt) \ {arg[t]}
    BY <1>2 DEF RemoveDb, OnDbError, IInv, TypeOK
  <2> QED
    BY <1>1, <1>2, <2>1, <2>2, EffectIsDone DEF Registry!RemoveEffect
<1>3. CASE OnDbError(t) /\ db' = db /\ t \in Clients
  <2>1. Effect(t, "error", {})
    BY <1>3 DEF RemoveDb, OnDbError, IInv, TypeOK, CallInv, Called, Effect, Same, Stage
  <2>2. (db \ corrupt)' = db \ corrupt
    BY <1>3 DEF RemoveDb
  <2> QED
    BY <1>1, <1>3, <2>1, <2>2, EffectIsDone DEF Registry!RemoveEffect
<1>4. CASE t \notin Clients
  <2>1. \A c \in Clients : Same(c)
    BY <1>4, ThreadSets DEF RemoveDb, OnDbError, IInv, TypeOK, Same, Stage
  <2>2. callMap' = callMap
    BY <2>1, CallMapAt DEF callMap, Same
  <2>3. (db \ corrupt)' = (db \ corrupt) \ {arg[t]} \/ (db \ corrupt)' = db \ corrupt
    BY DEF RemoveDb
  <2> QED
    BY <1>1, <2>1, <2>2, <2>3, Stutter DEF Registry!Expire
<1> QED
  BY <1>2, <1>3, <1>4 DEF RemoveDb, IInv, TypeOK

\* GetDesc takes effect when it copies the cache.
LEMMA GetDescMaps ==
    ASSUME IInv, CallInv, NEW t \in Threads, GetDesc(t)
    PROVE  t \in Clients /\ Registry!ListEffect(t)
<1>1. op[t] = "list" /\ t \in Clients
  BY MonitorRemoves DEF GetDesc
<1>2. Effect(t, "ok", db \ corrupt)
  BY <1>1, CacheRead, ThreadSets DEF GetDesc, IInv, TypeOK, Called, Effect, Same, Stage
<1>3. (db \ corrupt)' = db \ corrupt
  BY DEF GetDesc
<1> QED
  BY <1>1, <1>2, <1>3, EffectIsDone DEF Registry!ListEffect

\* The return of a call is the abstract return.
LEMMA ReturnMaps ==
    ASSUME IInv, CallInv, NEW c \in Clients, Return(c)
    PROVE  Registry!Return(c)
<1>1. callMap[c].st = "done"
  <2>1. Stage(c) = "done"
    BY DEF Return, Stage, Called
  <2>2. callMap[c] = [st |-> "done", op |-> op[c], uri |-> arg[c],
                      res |-> res[c], seen |-> listed[c]]
    BY <2>1, CallMapAt
  <2> QED
    BY <2>2
<1>2. /\ Stage(c)' = "idle" /\ op'[c] = "none" /\ arg'[c] = None
      /\ res'[c] = "none" /\ listed'[c] = {}
      /\ \A d \in Clients \ {c} : Same(d)
  BY ThreadSets DEF Return, IInv, TypeOK, Same, Stage, Called
<1>3. callMap' = [callMap EXCEPT ![c] = Registry!NoCall]
  BY <1>2, CallMapAt, OneCall DEF Registry!NoCall
<1> QED
  BY <1>1, <1>3 DEF Return, Registry!Return

\* A crash and the start-up after it are the abstract restart.
LEMMA RestartMaps ==
    ASSUME IInv, Restart
    PROVE  Registry!Restart
<1>1. callMap' = [c \in Clients |-> Registry!NoCall]
  BY ThreadSets DEF Restart, callMap, Registry!NoCall
<1>2. (db \ corrupt)' = db \ corrupt
  BY DEF Restart, RestoreNodes
<1> QED
  BY <1>1, <1>2 DEF Registry!Restart

\* Every step is a step of the registry, or a stutter of it.
LEMMA RefinementStep ==
    ASSUME IInv, CallInv, [Next]_vars
    PROVE  [Registry!Next]_(Registry!vars)
<1>1. ASSUME NEW c \in Clients, NEW u \in Uris, Call(c, "add", u) PROVE [Registry!Next]_(Registry!vars)
  BY <1>1, CallMaps, UrisAssumption DEF Registry!Next
<1>2. ASSUME NEW c \in Clients, NEW u \in Uris, Call(c, "remove", u) PROVE [Registry!Next]_(Registry!vars)
  BY <1>2, CallMaps, UrisAssumption DEF Registry!Next
<1>3. ASSUME NEW c \in Clients, Call(c, "list", None) PROVE [Registry!Next]_(Registry!vars)
  BY <1>3, CallMaps DEF Registry!Next
<1>4. ASSUME NEW c \in Clients, MonLock(c) PROVE [Registry!Next]_(Registry!vars)
  <2>1. (db \ corrupt)' = db \ corrupt
    BY <1>4 DEF MonLock
  <2>2. \A v \in Clients : Same(v)
    BY <1>4 DEF MonLock, Same, Stage, Called
  <2> QED
    BY <2>1, <2>2, Stutter
<1>5. ASSUME NEW t \in Threads, StoreLock(t) PROVE [Registry!Next]_(Registry!vars)
  <2>1. (db \ corrupt)' = db \ corrupt
    BY <1>5 DEF StoreLock
  <2>2. \A v \in Clients : Same(v)
    BY <1>5 DEF StoreLock, Same, Stage, Called
  <2> QED
    BY <2>1, <2>2, Stutter
<1>6. ASSUME NEW t \in Threads, AddCheck(t) PROVE [Registry!Next]_(Registry!vars)
  BY <1>6, AddCheckMaps DEF Registry!Next
<1>7. ASSUME NEW t \in Threads, AddWrite(t) PROVE [Registry!Next]_(Registry!vars)
  BY <1>7, AddWriteMaps DEF Registry!Next
<1>8. ASSUME NEW t \in Threads, AddStart(t) PROVE [Registry!Next]_(Registry!vars)
  <2>1. (db \ corrupt)' = db \ corrupt
    BY <1>8 DEF AddStart, Wrapped
  <2>2. \A v \in Clients : Same(v)
    BY <1>8 DEF AddStart, Wrapped, Same, Stage, Called
  <2> QED
    BY <2>1, <2>2, Stutter
<1>9. ASSUME NEW t \in Threads, RemoveCheck(t) PROVE [Registry!Next]_(Registry!vars)
  BY <1>9, RemoveCheckMaps DEF Registry!Next
<1>10. ASSUME NEW t \in Threads, RemoveDb(t) PROVE [Registry!Next]_(Registry!vars)
  BY <1>10, RemoveDbMaps DEF Registry!Next
<1>11. ASSUME NEW t \in Threads, RemoveWait(t) PROVE [Registry!Next]_(Registry!vars)
  <2>1. (db \ corrupt)' = db \ corrupt
    BY <1>11 DEF RemoveWait
  <2>2. \A v \in Clients : Same(v)
    BY <1>11 DEF RemoveWait, Same, Stage, Called
  <2> QED
    BY <2>1, <2>2, Stutter
<1>12. ASSUME NEW t \in Threads, GetDesc(t) PROVE [Registry!Next]_(Registry!vars)
  BY <1>12, GetDescMaps DEF Registry!Next
<1>13. ASSUME NEW t \in Threads, StoreUnlock(t) PROVE [Registry!Next]_(Registry!vars)
  <2>1. (db \ corrupt)' = db \ corrupt
    BY <1>13 DEF StoreUnlock
  <2>2. \A v \in Clients : Same(v)
    BY <1>13 DEF StoreUnlock, Same, Stage, Called
  <2> QED
    BY <2>1, <2>2, Stutter
<1>14. ASSUME NEW c \in Clients, MonUpdate(c) PROVE [Registry!Next]_(Registry!vars)
  <2>1. (db \ corrupt)' = db \ corrupt
    BY <1>14 DEF MonUpdate
  <2>2. \A v \in Clients : Same(v)
    BY <1>14 DEF MonUpdate, Same, Stage, Called
  <2> QED
    BY <2>1, <2>2, Stutter
<1>15. ASSUME NEW c \in Clients, Return(c) PROVE [Registry!Next]_(Registry!vars)
  BY <1>15, ReturnMaps DEF Registry!Next
<1>16. ASSUME RunBegin PROVE [Registry!Next]_(Registry!vars)
  <2>1. (db \ corrupt)' = db \ corrupt
    BY <1>16 DEF RunBegin
  <2>2. \A v \in Clients : Same(v)
    BY <1>16, ThreadSets DEF RunBegin, Same, Stage
  <2> QED
    BY <2>1, <2>2, Stutter
<1>17. ASSUME NEW u \in Uris, Scan(u) PROVE [Registry!Next]_(Registry!vars)
  <2>1. (db \ corrupt)' = db \ corrupt
    BY <1>17 DEF Scan
  <2>2. \A v \in Clients : Same(v)
    BY <1>17, ThreadSets DEF Scan, IInv, TypeOK, Same, Stage
  <2> QED
    BY <2>1, <2>2, Stutter
<1>18. ASSUME ScanResult PROVE [Registry!Next]_(Registry!vars)
  <2>1. (db \ corrupt)' = db \ corrupt
    BY <1>18 DEF ScanResult
  <2>2. \A v \in Clients : Same(v)
    BY <1>18, ThreadSets DEF ScanResult, Same, Stage
  <2> QED
    BY <2>1, <2>2, Stutter
<1>19. ASSUME RunEnd PROVE [Registry!Next]_(Registry!vars)
  <2>1. (db \ corrupt)' = db \ corrupt
    BY <1>19 DEF RunEnd
  <2>2. \A v \in Clients : Same(v)
    BY <1>19, ThreadSets DEF RunEnd, Same, Stage
  <2> QED
    BY <2>1, <2>2, Stutter
<1>20. ASSUME NEW u \in Uris, PollBegin(u) PROVE [Registry!Next]_(Registry!vars)
  <2>1. (db \ corrupt)' = db \ corrupt
    BY <1>20 DEF PollBegin
  <2>2. \A v \in Clients : Same(v)
    BY <1>20 DEF PollBegin, Same, Stage
  <2> QED
    BY <2>1, <2>2, Stutter
<1>21. ASSUME NEW u \in Uris, PollOk(u) PROVE [Registry!Next]_(Registry!vars)
  <2>1. (db \ corrupt)' = db \ corrupt
    BY <1>21 DEF PollOk
  <2>2. \A v \in Clients : Same(v)
    BY <1>21 DEF PollOk, Same, Stage
  <2> QED
    BY <2>1, <2>2, Stutter
<1>22. ASSUME NEW u \in Uris, PollFail(u) PROVE [Registry!Next]_(Registry!vars)
  <2>1. (db \ corrupt)' = db \ corrupt
    BY <1>22 DEF PollFail
  <2>2. \A v \in Clients : Same(v)
    BY <1>22 DEF PollFail, Same, Stage
  <2> QED
    BY <2>1, <2>2, Stutter
<1>23. ASSUME NEW u \in Uris, NotifyAlive(u) PROVE [Registry!Next]_(Registry!vars)
  <2>1. (db \ corrupt)' = db \ corrupt
    BY <1>23 DEF NotifyAlive
  <2>2. \A v \in Clients : Same(v)
    BY <1>23 DEF NotifyAlive, Same, Stage
  <2> QED
    BY <2>1, <2>2, Stutter
<1>24. ASSUME NEW u \in Uris, Exit(u) PROVE [Registry!Next]_(Registry!vars)
  <2>1. (db \ corrupt)' = db \ corrupt
    BY <1>24 DEF Exit
  <2>2. \A v \in Clients : Same(v)
    BY <1>24 DEF Exit, Same, Stage
  <2> QED
    BY <2>1, <2>2, Stutter
<1>25. ASSUME BrowseBegin PROVE [Registry!Next]_(Registry!vars)
  <2>1. (db \ corrupt)' = db \ corrupt
    BY <1>25 DEF BrowseBegin
  <2>2. \A v \in Clients : Same(v)
    BY <1>25 DEF BrowseBegin, Same, Stage
  <2> QED
    BY <2>1, <2>2, Stutter
<1>26. ASSUME BrowseEnd PROVE [Registry!Next]_(Registry!vars)
  <2>1. (db \ corrupt)' = db \ corrupt
    BY <1>26 DEF BrowseEnd
  <2>2. \A v \in Clients : Same(v)
    BY <1>26 DEF BrowseEnd, Same, Stage
  <2> QED
    BY <2>1, <2>2, Stutter
<1>27. ASSUME Tick PROVE [Registry!Next]_(Registry!vars)
  <2>1. (db \ corrupt)' = db \ corrupt
    BY <1>27 DEF Tick
  <2>2. \A v \in Clients : Same(v)
    BY <1>27 DEF Tick, Same, Stage
  <2> QED
    BY <2>1, <2>2, Stutter
<1>28. ASSUME Restart PROVE [Registry!Next]_(Registry!vars)
  BY <1>28, RestartMaps DEF Registry!Next
<1>29. CASE UNCHANGED vars
  <2>1. \A c \in Clients : Same(c)
    BY <1>29 DEF vars, Same, Stage
  <2> QED
    BY <1>29, <2>1, Stutter DEF vars
<1> QED
  BY <1>1, <1>2, <1>3, <1>4, <1>5, <1>6, <1>7, <1>8, <1>9, <1>10, <1>11, <1>12, <1>13, <1>14,
     <1>15, <1>16, <1>17, <1>18, <1>19, <1>20, <1>21, <1>22, <1>23, <1>24, <1>25, <1>26, <1>27,
     <1>28, <1>29
  DEF Next, HandleAdd, HandleRemove, HandleList, HandleService, ClientStep, MonitorStep,
      StoreStep, PollEnd, Threads, Clients

\* The store starts where a registry may start.
LEMMA InitMaps == Init => Registry!Init /\ CallInv
<1> SUFFICES ASSUME Init PROVE Registry!Init /\ CallInv
  OBVIOUS
<1>1. callMap = [c \in Clients |-> Registry!NoCall]
  BY ThreadSets DEF Init, callMap, Registry!NoCall
<1>2. db \ corrupt \in SUBSET (Uris \ BadUris)
  BY DEF Init
<1>3. CallInv
  BY ThreadSets DEF Init, CallInv
<1> QED
  BY <1>1, <1>2, <1>3 DEF Registry!Init

\* The store is a linearizable, durable registry: what any number of
\* concurrent callers see is what they would see of a set of URIs on which
\* each Add, Remove and GetDesc is one atomic step, and which a restart keeps.
THEOREM Refinement == Spec => ImplementsRegistry
<1>1. IInv /\ CallInv /\ [Next]_vars => CallInv'
  BY CallStep DEF IInv
<1>2. IInv /\ CallInv /\ [Next]_vars => [Registry!Next]_(Registry!vars)
  BY RefinementStep
<1> QED
  BY Invariant, InitMaps, <1>1, <1>2, PTL DEF Spec, ImplementsRegistry, Registry!Spec

=============================================================================
