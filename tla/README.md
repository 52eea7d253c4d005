# A TLA+ model of device-hub

device-hub is a Go daemon that polls IoT devices over HTTP, stores their
telemetry in influxdb, sets their clocks, remembers them in a bbolt database,
finds them with mDNS and forgets them when they stay silent. This directory
holds TLA+ modules of its core, the TLC runs that check them on small
instances, and TLAPS proofs of the safety properties for every instance.

    tlc -workers 2 -config store_safety.cfg MCDeviceStore   # a run
    tlapm DeviceStoreProofs.tla                             # a proof

`PROJECT.json` maps each definition to the lines it models and lists the runs,
the hazards, the findings and the theorems.

## 1. Inventory

All paths are below `src/components/`, except `src/projects/main/main.go`.

| component | state | operations | hard behaviour |
|---|---|---|---|
| `devstore.CacheStore` | `nodes`, its mutex, one poller per node, the bucket | `Add`, `Remove`, `GetDesc`, restore, `Start`, `Stop` | the mutex is held while `Remove` waits for a poller; bucket and cache are updated one after the other; crashes between the two |
| `devstore.AwakeStore` | none | the same, and wakes the browser after `Add` | wake-ups that merge |
| `devstore.StoreAliveMonitor` | `devices` (last report of each), its mutex | `Add`, `Remove`, `Run`, the pollers' `notifyAlive` | the mutex is held across calls of the store below; reports that come late; ages that are read long before they are acted on |
| bbolt bucket | records | `Write`, `Remove`, `ForEach` | failing transactions, unreadable records |
| `StoreHTTPHandler`, `StoreMdnsHandler` | none | calls of the store | run concurrently with everything else |
| `syssched.AsyncTaskRunner` (`CrashTask`, `TaskAliveNotifier`) | `awakeCh`, `doneCh`, context, ticker | `Start`, `Awake`, `Stop`, the select loop | a token dropped when the channel is full; `Stop` against a run under way; panics |
| `FanoutStarter`, `FanoutStopper` | lists | `Start`, `Stop` | order of start and stop; a starter that fails after others were started |
| `sysnet.ResolveStore`, `httransport.ResolveRoundTripper`, `ResolveServiceHandler` | `knownHosts`, `resolvedAddrs`, `updateCh` | `Add`, `Remove`, `HandleResolve`, `Resolve` | one channel with one token for all waiters; hosts removed and registered again; two devices on one host |
| `sysmdns.ZeroconfBrowser`, `FanoutServiceHandler` | none | `Run`, `handleEntry` | entries that arrive while devices are added; a report dropped because its host is not yet known; answers that come after the browse |
| `devcore.PollDevice`, `IDHolder` | `deviceID`, `id` | `Run`: fetch, validate, fetch, validate, write, write | two requests that do not belong together; an address that passes to another device; every step may fail |
| time verifiers, `syscore.SystemClockSynchronizer` | none | `VerifyTime`, `SyncTime` | three clocks read at three moments; a request executed after the hub has given up on it |
| `stcore.SystemClockRestorer`, `stinfluxdb` | `restored`, `timestamp` | `Run`, `GetTimestamp`, `SetTimestamp` | a query outside the mutex against records that are written meanwhile |
| HTTP time handler | the local clock | set | the clock goes back |
| `htcore.Server`, mDNS server | listener, `doneCh` | `Start`, `Stop` | handlers that go on when the server is closed |
| `main.go` | lists of starters and stoppers | wiring, start, stop | the order of all of the above; a signal at any moment |

How they interact. A request or an mDNS entry calls
`StoreAliveMonitor -> AwakeStore -> CacheStore -> bucket` (without the monitor
when it is disabled). `CacheStore` starts an `AsyncTaskRunner` per device, whose
task is `TaskAliveNotifier(PollDevice)`; a successful poll calls back up into
`StoreAliveMonitor.notifyAlive`. The monitor's own runner calls `Run`, which calls
`Remove` of the store below, which waits for the poller. `PollDevice` sends its
requests through the resolve store, which the mDNS browser feeds, and may call
`SystemClockSynchronizer`, which reads the local clock, the restorer and the
device's clock, and writes the latter.

What makes each part correct:

- store: cache, bucket, monitor and pollers agree; each call takes effect once,
  at one instant; what is registered survives a crash; only a device that
  does not answer is removed as inactive; every call returns.
- runner: no wake-up is lost, nothing runs after `Stop`, `Stop` returns.
- resolve store: an address belongs to the current registration of its host, and
  the host of a live device is listened for.
- time: no device is set to before its acknowledged records, a clock is set back by no
  more than a synchronization takes, the restorer never goes back; what a late
  request spoils lasts no longer than to the next one.
- discovery: a device that is added gets its address from the first browse that
  hears it, and that browse does not wait for the ticker.
- identity: records are stored under the ID of the device they come from, and
  that ID does not change while the device is registered.
- process: one goroutine polls a device; nothing polls when the store is
  stopped; a signal ends the process.

## 2. Modules

| module | models | composed with |
|---|---|---|
| `DeviceRegistry` | abstract: what a caller of `devstore.Store` may rely on, crashes and expiry included | |
| `DeviceStore` | `StoreAliveMonitor`, `AwakeStore`, `CacheStore`, the bucket, pollers, HTTP handlers, browser and monitor runner | implements `DeviceRegistry` |
| `AsyncTaskRunner` | the generic runner and `CrashTask` | `DeviceStore` and `Lifecycle` use its Stop, select and wake-up protocol |
| `Discovery` | the mDNS browser, its two service handlers, the wake-up of `AwakeStore` | extends `AsyncTaskRunner`: every step of the runner is a step of it |
| `ResolveStore` | the resolve store, the nodes that register hosts and their clients | |
| `DeviceIdentity` | `PollDevice` and `IDHolder`: whose data is stored under which ID | extends `ResolveStore`: every request of a poll is a `Resolve` of it |
| `TimeSync` | `PollDevice`'s handling of timestamps, verifiers, synchronizer, restorer, influxdb | |
| `Lifecycle` | `main.go`, `FanoutStarter`, `FanoutStopper`, `CacheStore.Start` and `Stop`, the HTTP and mDNS servers | runners, monitor and store in the grain that start and stop need |
| `MC*` | constants of the runs | |
| `*Proofs`, `DeviceStoreRefinement` | theorems | |

### DeviceStore

`mmu` and `smu` are the two mutexes and hold their owner. A call of the store is
a thread (`Handlers`, `Browser`, `Monitor`) that walks the locations of `pc`; one
location is one place where another goroutine can run in between:

| location | code |
|---|---|
| `monlock`, `storelock` | waiting for `StoreAliveMonitor.mu`, `CacheStore.mu` |
| `check` | the look at `nodes`, and `makeNode` |
| `write`, `dbremove` | the bbolt transaction, which may fail |
| `start` | `node.start`, then the node is cached |
| `wait` | `node.stop`: `AsyncTaskRunner.Stop` waits for `doneCh` |
| `storeunlock` | return from `CacheStore` (and the `Awake` of `AwakeStore`) |
| `monupdate` | back in the monitor, which updates `devices` |
| `scan` | the loop of `StoreAliveMonitor.Run` |

`runner[u]` is the poller of `u`: none, in its select, in a poll, or waiting
to report (`notify`). `notified` are the nodes whose task was wrapped in
`TaskAliveNotifier`: those made after `SetAliveMonitor`. `Restart` is a crash at
any moment and the start-up that follows. A device is its URI; `age` is what
`clock.Now()` minus the stored time would be, up to `MaxInactive`, after which no
code tells two ages apart. `sinceOk` is a history variable: what the monitor
should know. `corrupt` are the records no node can be made from, which start-up
deletes if it can.

### AsyncTaskRunner

`pc` is where the goroutine is (`new`, `task`, `select`, `exited`). `tick` and
`awakeCh` are the two channels a run can be woken by; `Awake` is a non-blocking
send. An awaker first changes something the task looks at and then calls
`Awake`; `unseen` remembers the changes no run has started after.

### ResolveStore

`Resolve` is up to three steps: the first look, the wait for the token or the
timeout, and, some time after the token is taken (`woken`), the second look. `heard` is a history variable: what was reported for a host
since it was registered. `Register` and `Unregister` are what `CacheStore` does
with the host of a `.local` device when its node is made and stopped. The two or
three clients of a node register the same host, once each, under the same lock,
and are one registration here; `stopping` is a node whose first stopper has run.

### TimeSync

Each poller is a sequence of steps, one per call on the network, and the local
clock, the devices' clocks and the restorer move between any two of them.
`SetLocal` sets the local clock to anything. `elapsed` measures how long a
synchronization has been under way since it read the device's clock. `WindowEnd`
is what influxdb's aggregateWindow answers with. Of the records only their times
are kept (`records`). Influxdb answers by a clock of its own, of which the hub
knows nothing: `ReadTimestamp` picks any `now`, and the query sees only the records
before it and not older than `Range` (`Seen`), since `range(start: -30d)` stops at
the server's now. It may thus answer with an older record, or with nothing, though
later records exist. `found` is a history variable: the last record the query saw.
`reader` ends in `restored` or, when a poll was first, in `skipped`.

A request to set a clock may reach the device after the hub has given up on it
(`--device-http-fetch-timeout`, or a restart of the hub): `pending` is such a
request, and `SetLate` executes it at any later moment, however many
synchronizations and records have come in between. `overtaken` is a history
variable: the last request the device executed was a late one. After such a
request a comparison made before says nothing about the clock, so `RewindBounded`
is about requests executed in time, and `ClockKeepsUp` says how long the harm lasts.

### Discovery

The task of `AsyncTaskRunner` is here `ZeroconfBrowser.Run`. `Browse` begins it,
`HandleEntry` is one entry passing through `FanoutServiceHandler` (the resolve
handler first, which drops it when the host is not registered or the entry has
not exactly one address; then, with autodiscovery, the store handler), and
`BrowseEnd` ends it, by the timeout, by an error, or by the panic that
`CrashTask` recovers when the library has closed the channel. Adding a device is
the `Change` of an awaker of the runner, the browser itself being one of them:
when it adds the device it has just failed to resolve, only its own token brings
the next browse. `missed` is a history variable: devices without an address that
a browse has ended without hearing, which nothing but the ticker can help.

### DeviceIdentity

`at` says which physical device (`Units`, each with its `device_id`) is at an
address; `Move` gives addresses to units and `Report` is a report of a host.
`stage` is where a poll is; each fetch is a `Resolve` of `ResolveStore` and the
answer of whichever unit is then at the address. `regFrom` and `telFrom` remember
where the two answers of a poll came from, `moved` whether an address has changed
since it began. An ID is kept before the timestamp that came with it is looked
at, and stays when the poll then ends in a synchronization, which sends requests
of its own. Devices not in `Polled` make requests whose answers are not followed.

### Lifecycle

`opts` are the options that add or leave out a part: inactivity monitor,
autodiscovery, `--cache-dir`. `phase` and `step` are where `main` is in
`FanoutStarter.Start` (`StartOrder`) or `FanoutStopper.Stop` (`StopOrder`: the
order in which the stoppers were added, which is neither that of the starters nor
its reverse). A signal may come at any moment of `start`; once `start` has
returned, another one kills the process. `poll[u]` has two slots, since nothing
in the code keeps a node from being started twice, and `doneCh` is the set of
nodes whose channel is closed: closing it again panics outside `CrashTask` and
ends the process (`phase = "crashed"`). A call of the store is one step, except
where it waits: for a mutex, in `Remove` for the poller, in `CacheStore.Stop` for
all of them. `early` is a history variable: the browser has added a device before
`CacheStore.Start`. A failing mDNS server makes `start` return an error
after everything else was started; `stop` is then not called.

## 3. Runs

| run | instance | states | shows |
|---|---|---|---|
| `store_safety` | 2 devices, 1 handler, browser, monitor, `MaxInactive` 1 | 650 k | cache, bucket, monitor and pollers agree; an added device is found inactive only when its polls have failed for the interval, or its report comes too late; the store implements `DeviceRegistry`; a call that is blocked waits for the report of a poll, nothing else |
| `store_live` | 1 device, 1 rejected URI, no monitor | 6 k | every call returns, and none is ever blocked; a rejected URI is never registered |
| `remove_deadlock` | 1 device, monitor | finding | `Remove` may never return |
| `restored_alive` | 1 device, monitor | finding | a restored device is removed while it answers |
| `runner` (`Discovery`) | 2 awakers, one of them the browser, 2 stoppers, 2 services | 53 k | no wake-up is lost, every change is seen, `Stop` is final and returns; a device without an address waits for no tick |
| `runner_panic` (`AsyncTaskRunner`) | 2 awakers, 2 stoppers | finding | a panic ends a runner that should exit on success |
| `resolve` (`DeviceIdentity`) | 2 devices on 2 hosts, 2 addresses, 2 units, the polls of one device | 278 k | addresses are of the current registration, live hosts are known; records are stored under the ID of the unit they come from, and that ID is stable |
| `resolve_shared` | 2 devices on 1 host | finding | removing one makes the hub deaf to the other |
| `timesync` | 1 device, clocks 0..3, drift 2, window 2, range 3, 1 late request | 7.5 M | no rewind of stored records nor of what the query of a restart found, bounded rewind, a late request harms only to the next one, the restorer never goes back and is never ahead of the records by more than the window |
| `timesync_skip` | 1 device | finding | after a record handled early the restorer stays behind the record its query found |
| `lifecycle` | 1 device, 1 handler, every set of options | 111 k | one goroutine per device, nothing polls after stop, what is waited for can come, a signal ends the process |
| `double_start` | same | finding | a device added before `CacheStore.Start` gets two goroutines |

Bounds, and why they are enough:

- Two devices: `Run` removes one while the other ages, is added or reports. The
  monitor's loop order is a choice, so a third device adds no new order of two.
  One handler and the browser give two concurrent callers besides the monitor;
  both mutexes serialize the rest. The two URIs are symmetric (`UriSymmetry`);
  it is used only in the safety run.
- `MaxInactive = 1` makes ages 0 ("reported since the last tick") and 1 ("silent
  long enough"); `InactiveEarly`, off by one tick, is still told apart. Ages
  saturate, so nothing is cut off.
- `MaxTime = 3` leaves room for a record, a later local clock, a clock set back
  and a drift of less than 2 (`MaxDrift`), at once. `Range = 3` is more than the
  window, as 30 days are, and less than the clocks' span, so that the clock of
  influxdb can be before the records, among them, and so far ahead that some or
  all are too old. The clocks stop at
  `MaxTime`; `elapsed` is bounded by it, since a device's clock is. The proofs
  need no particular value.
- One late request at a time (`pending`): a second replaces the first. The device
  executes the newest of those that are late, or, since `SetRemote` may leave
  `pending` alone, the older one.
- `runner`: two services are enough for one that is being resolved and one that is
  being added; both awakers, the browser and an HTTP handler, may be between
  their change and their `Awake` at once. `ExitOnSuccess` takes both values,
  as in `AsyncTaskRunner`; `main.go` gives the browser FALSE.
- `resolve`: two units and two addresses let a unit move, two units change places,
  and an address pass from one to the other during a poll. One followed device
  (`Polled`) is enough for identity, since polls share nothing but the resolve
  store, which the requests of the other keep busy. Units are interchangeable
  (`UnitSymmetry`), and the run checks no liveness.
- `lifecycle`: parts are started once, so one device shows every order of
  its addition, restore and removal against them; the handler, the
  browser and the monitor are three concurrent callers. The inductive invariant of
  the proofs was checked with two devices, too (4.6 million states).
- Nothing else is bounded: there are no message queues, and both channels of the
  code hold one token.

Deadlock is checked in every run. A process that has ended stutters in `Lifecycle`.

### Fairness

`DeviceStore` (`Fairness`): goroutines run, so each step of a call is weakly fair.
`sync.Mutex` hands a lock to a waiter that starves (its starvation mode), and
`select` picks among ready cases at random, so locking and the exit of a poller are
strongly fair. A poll ends because `--device-http-fetch-timeout` bounds every
request. Nothing forces a call, a tick, a success, a browse or a restart.
`AsyncTaskRunner`: the goroutine runs, tasks end, the select that is ready for
`ctx.Done()` again and again takes it, an awaker that has changed something
calls `Awake`. `Discovery` (`DiscFairness`): the same, with a browse that ends
by its timeout (`--mdns-browse-timeout`); no tick, no answer and no entry is
promised. `Lifecycle` (`Fairness`): `main`, accepted calls, pollers and the
browser's and the restorer's runners go on, with strong fairness where they
compete for a mutex or in a select; nothing makes a signal, a request, an entry or a
scan happen. `DeviceIdentity` and `TimeSync` state safety only.

### What the violation runs show

1. `remove_deadlock`. `StoreAliveMonitor.Remove` (and `Run`) holds its mutex while
   `CacheStore.Remove` waits for the poller of the device; a poll that has just
   succeeded waits for that mutex in `notifyAlive`. Neither goes on, and both
   mutexes are lost to everybody. Without the monitor (`store_live`) the same
   property, and more, holds.
2. `restored_alive`. `NewCacheStore` makes the nodes of restored devices before
   `main.go` calls `SetAliveMonitor`, so their tasks do not report; the monitor
   watches them all the same and removes them after the interval. The run
   `store_safety` shows that a device added at run time is found inactive only when
   its polls fail, or when its report comes too late (section 4).
3. `runner_panic`. `CrashTask` recovers a panic and returns nil, which
   `ExitOnSuccess` takes for the first success.
4. `resolve_shared`. `ResolveStore.Remove` forgets a host whoever else registered
   it.
5. `timesync_skip`. A record handled before the restorer has read the bucket makes
   it discard what it reads, even if that is later: in the trace a record of time 1
   is persisted and found, and "remote last" stays at the 0 of the poll.
6. `double_start`. The runner of the mDNS browser is the first that `main.go` starts.
   With autodiscovery, a device it adds before `CacheStore.Start` is started by
   `Add` and again by `Start`, which starts every node: two goroutines share one
   `PollDevice` and one `IDHolder`, and when the device is removed or the process
   stops, the second closes `doneCh` again and the process ends in a panic.
   `PolledByOne` shows that this is the only way to it.

## 4. Theorems

Each proof module EXTENDS its component. The assumptions are the named ASSUMEs of
the components: sets that do not overlap and bounds that are natural numbers. No
set has to be finite.

| module | proves | by |
|---|---|---|
| `DeviceStoreProofs` | `TypeOK`, `StoreConsistent`, `MonitorConsistent`, `PolledIffCached`, `AddedExpireSilent`, `OnlyReportsBlock`; `RemovedWereSilent`, `ReportBlocksForEver` | `IInv`, `BlockInv` |
| `DeviceStoreRefinement` | `ImplementsRegistry` | `IInv` and the mapping |
| `AsyncTaskRunnerProofs` | `TypeOK`, `NoLostAwake`, `StopIsFinal`; `RunsUntilCancelled`, `NoRunAfterStop`; `ExitsOnSuccessOnly` without panics | its `IInv`, `ExitInv` |
| `DiscoveryProofs` | `DiscSpec => Spec` of the runner, types, `UnresolvedIsAwaited` | `DiscInv` |
| `ResolveStoreProofs` | `TypeOK`, `CachedWasHeard`, `OwnHostIsKnown`, `OwnAnswerWasHeard`; `LiveIsKnown`, `AnswerWasHeard` | the first two are inductive together, `CallInv`; the last two need hosts of their own |
| `DeviceIdentityProofs` | `IdSpec => Spec` of the resolve store, types, `OwnRecordsOfOwner`, `IdIsStable`; `RecordsOfOwner` | `PollInv`, `HolderInv`; the last needs hosts of their own |
| `TimeSyncProofs` | `TypeOK`, `NoRewindOfStored`, `RewindBounded`, `ClockKeepsUp`, `LastIsMonotone`, `NoRewindOfFound`, `NotAheadOfRecords` | what the restorer knows, what a synchronization has checked, `FoundInv`, `BoundInv` |
| `LifecycleProofs` | `TypeOK`, `PolledByOne`, `NothingAfterStop`, `NothingAwaitedInVain`; `OneGoroutine` without autodiscovery; `ShutdownNeedsKill` | its `IInv`, `AwaitInv` |

The inductive invariant of `DeviceStore`. `StoreConsistent` says something only
while nobody is inside `CacheStore`, so it is not inductive: `IInv` says place by
place how far the owner of each mutex has come. `SmuInv` and `MmuInv` say at which
locations a thread owns which mutex, `OpInv` which operation it then runs and with
which result. With that, `CacheInv` says what cache and bucket look like at each
location between lock and unlock, `DeviceInv` the same of the monitor's map and
the cache, and `RunnerInv` that a poller is being cancelled only for a thread that
waits for it. Only then is the release of a mutex seen to restore the agreement.
`AddedExpireSilent` follows from `ClockInv`: a wrapped poller that has just succeeded is in
`notify` until it has told the monitor, and the monitor's age of any other wrapped
device is not above `sinceOk`, while the device `Run` has picked keeps the age that
made it pick it: nobody else can stamp it without `mmu`. The property does not say
that an answering device is kept, which is false: a poll that succeeds after the
look of `Run`, or before it but whose report is still waiting for `mmu`, does not
save the record. `RemovedWereSilent` says what is true of such a device: its removal
never ends, because it waits for the poller, which waits for `Run`. That is the
circle of `remove_deadlock`; after a crash the device is gone.

The refinement maps `registered` to `db \ corrupt`: a call takes effect when its
transaction commits, or, if it changes nothing, at the look at the cache. `IInv`
is needed there because the cache decides, and the abstract registry knows only
the bucket. A crash maps to the abstract `Restart`, and a removal by the monitor
to `Expire`.

`NoLostAwake` is inductive in the strengthened form that every unseen change has a
token in `awakeCh` or an awaker that has yet to call `Awake`.

`UnresolvedIsAwaited` is inductive with the types: a token is taken only by a
browse, which asks every device again, and an entry is spent only by a report,
which resolves the device or makes it missed. Since discovery refines the runner,
`NoLostAwake` and `StopIsFinal` hold of the browser without a further proof.

`RecordsOfOwner` relates two requests, so `PollInv` follows a poll through them. The
first answer fixes a unit; `ResolvesTo` says that as long as nothing has moved,
the host resolves to an address of that unit, or it has no address and is not
registered any more, so that no report can give it one. Without the second case
the invariant is not inductive: the host is unregistered under a poll that is
still under way (the first stopper of the node runs before the poller has ended). `HolderInv` makes `IdIsStable` follow: `IDHolder` has
no ID or that of `PollDevice`, and a poll that holds registration data has an ID.

`ClockKeepsUp` needs that a synchronization about to set a clock has compared its
time with the records (`SyncInv`, which also gives `NoRewindOfStored`), and
that a clock not set late is behind none of the timestamps read from it that are,
or are yet to be, acknowledged (`KeepInv`).

The inductive invariant of `Lifecycle` says what each of the two lists has done up
to `step` (`StartInv`, `StopInv`), what a part that is not started, or is stopped,
implies for the rest (`PartsInv`: no handler without a server, no scan without
its runner), where calls are and which mutex they hold (`CallInv`, `CancelInv`),
and, unless the browser was early, that a cached device of a running store has
either its goroutine or a closed `doneCh`, never both (`NodeInv`). That "either"
is what a removal, a signal and `CacheStore.Stop` all wait for, and what a second
start breaks.

Who waits for whom. `CallsReturn` and `ShutdownEnds` are liveness, but what makes
them true is a safety property, and that is proved. `OnlyReportsBlock` needs of
`IInv` who may own which mutex at which location, and of `BlockInv` that the
poller a `Remove` waits for is and stays cancelled, which is so because only the
owner of `CacheStore.mu` un-cancels a device. The order of the mutexes and of the
waits then has no circle but the one through `notifyAlive`, which exists only
with the monitor. `NothingAwaitedInVain` says the same of the process:
`AwaitInv` adds to the invariant of `Lifecycle` that `main` stops only what it has
started (`StartedInv`), that `CacheStore.Stop` owns the mutex at one step of
`main` only (`StopLockInv`), that a node without a closed `doneCh` has a goroutine
to close it (`LivingInv`, also after an early `Add`), and that the monitor's mutex
is waited for only with a monitor (`MonitorInv`). The mutant that loses the start
of the monitor's runner, so that `main` waits for it for ever, breaks it.

What the restorer promises. `FoundInv` follows the last record the query saw to the
restorer and to each synchronization past its comparison: one that began before
`Run` had restored anything cannot have passed it, since `restored` is false. It
covers the records in the range of the query, wherever the server's clock stands
(`AnswerBound`), and no others: records stamped after the server's now, or more
than 30 days before it, bound nothing after a restart until a poll writes new ones.
`BoundInv` is the other direction. Both rest on the only arithmetic of the project,
that `WindowEnd` is not before its argument and at most a window after it for any
window (`Division`, `WindowEndBound`). The bounds in `TypeOK` follow from it.

The findings have theorems too, which say how far each of them reaches, for every
value of the constants:

- `remove_deadlock`: by `OnlyReportsBlock` no other circle exists, and by
  `RemoveIsStuck` no step but a restart leads out of this one. `ShutdownIsStuck` is
  its form at shutdown: only a second signal ends the process.
- `restored_alive`: `OnlySilentExpire` and `OnlySilentAreRemoved` hold of every device
  added at run time.
- `runner_panic`: `OnlyPanicsExitEarly` assumes that every step of a panic is one
  a success could have taken, and has the property the run refutes; by
  `LivesUntilCancelled` runners without `ExitOnSuccess` are not touched.
- `resolve_shared`: `OwnHostsAreKnown`, `OwnAnswersWereHeard` and
  `OwnRecordsAreOfOwner` assume nothing of the other devices: what the run finds
  reaches only those that share a hostname. `LiveIsKnown`, `AnswerWasHeard` and
  `RecordsOfOwner`, as the runs check them, follow when nobody does (`OwnHosts`).
- `timesync_skip`: `FoundIsNotRewound` holds where `Run` comes first.
- `double_start`: `EachIsPolledByOne` needs that the browser was not early,
  `OneGoroutineWithoutDiscovery` that there is no browser to be early.

`ReportBlocksForEver`, `ShutdownNeedsKill` and the other properties that no run
lists are defined beside their theorems. The first two were checked with TLC on
the instances of `remove_deadlock` and `lifecycle` before they were proved, as was
that their premises are reachable.

Only model-checked: liveness (`CallsReturn`, `ChangeIsSeen`, `CancelEndsStop`,
`AddedIsResolved`, `ShutdownEnds`), which this prover cannot reach, and the six
violations, which are traces.

## 5. What is not modelled

- Type, description and creation time of a device; what a TXT record looks like (an
  entry asks for an Add or not); URLs beyond "supported or not"; HTTP and mDNS
  I/O; contents of influxdb records.
- `--device-time-sync-disable`: every synchronization then fails and changes
  nothing.
- `DisableRecoverOnPanic`, which no program sets: a panic then ends the process.
- An empty `device_id`: `PollDevice` takes it for none yet.
- The checks of options in `main.go`, which fail before anything is started.
- `bboltDB.Read`, which nobody calls; `Colfer.go` (generated), the simulator, logging.
- In `Lifecycle`: the ages of the monitor (it removes any device), the second
  grain of `Add` (both in `DeviceStore`), and the loop of the runners (in
  `AsyncTaskRunner`). In `Discovery`: hosts that several devices share, and hosts
  that a failed `Add` leaves registered (both in `ResolveStore`); the latter only
  make an address known earlier.
- One hazard has no property: nothing in the code promises that the two records of
  a poll are stored together. That influxdb may apply a write whose call fails is
  modelled (`WriteTelemetry`); the code promises nothing of such a record, and
  `NotAheadOfRecords` says what the hub may make of it after a restart. Two more are
  covered in part: a deletion that fails on every tick and holds up the removal of
  other devices, and records out of the range of the restorer's query; the code
  promises nothing of either.

With the inactivity monitor a signal does not always end the process: pollers in
`notifyAlive`, the monitor and `CacheStore.Stop` can wait for each other as in
`remove_deadlock`. `ShutdownEnds` is therefore stated without the monitor, and no
run of its own repeats the finding; a second signal ends the process.

## 6. Plan

Done: `DeviceRegistry` and `DeviceStore`, `AsyncTaskRunner`, `ResolveStore`,
`TimeSync` and their proofs; then `Lifecycle`, `DeviceIdentity` on top of
`ResolveStore`, late requests in `TimeSync`, `Discovery` on top of
`AsyncTaskRunner`, and their proofs; then the safety cores of the liveness
properties, what a restart of the restorer promises, and the reach of each
finding, as theorems. What could still be added:

1. A proof that the pollers of `DeviceStore` (`runner`, `cancelled`) and the runners of
   `Lifecycle` are runs of `AsyncTaskRunner`, by refinement mappings. A poller is
   started anew with its node, so the mapping is of one life of it.
2. A refinement of `Lifecycle`'s one-step `Add` by `DeviceStore`.
3. What a second start does to the ID and the records of a device (`DeviceIdentity`
   with two polls of one node).
