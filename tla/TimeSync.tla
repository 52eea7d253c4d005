------------------------------ MODULE TimeSync ------------------------------
(***************************************************************************)
(* Time in the hub: what devcore.PollDevice does with the timestamps of    *)
(* the data it fetches, syscore.SystemClockSynchronizer, and               *)
(* stcore.SystemClockRestorer, which knows the last timestamp persisted in *)
(* influxdb ("remote last"), or what its query finds of it.                *)
(*                                                                         *)
(* Each device is polled by a goroutine of its own; all share the restorer *)
(* and the clock of the machine, which the HTTP API, NTP or an operator    *)
(* may set to anything at any time.  A request takes time: every call on   *)
(* the network is a step, and both clocks move between steps.  Influxdb    *)
(* has a clock of its own, of which nothing is known: it bounds the records *)
(* that a query sees.                                                      *)
(*                                                                         *)
(* Abstractions.  Of the data only the timestamps are kept; the device ID  *)
(* and malformed responses are left out (they end a poll like any other    *)
(* failed fetch, which leaves the state alone and is not written down).    *)
(* Of the requests to set its clock that the hub has given up on, a device *)
(* may still execute the last one, at any time.                            *)
(***************************************************************************)
EXTENDS Integers

CONSTANTS
    Devices,        \* the devices the hub polls
    MaxTime,        \* bound of every clock
    MaxDrift,       \* maxDriftInterval in seconds; 0: BasicTimeVerifier
    Window,         \* the window the influxdb query aggregates records in
    Range           \* how far back the query looks: 30 days

ASSUME TimeAssumption ==
    /\ MaxTime \in Nat
    /\ MaxDrift \in Nat
    /\ Window \in Nat \ {0}
    /\ Range \in Nat

Time    == 0 .. MaxTime
Unknown == -1       \* a clock that was never set; no record

VARIABLES
    local,          \* LocalSystemClock
    clock,          \* the clock of each device
    records,        \* timestamps of the telemetry records in influxdb
    restored, timestamp,    \* SystemClockRestorer
    reader, readTs, \* its Run, which ends in "restored" or "skipped", and what it has read
    pc,             \* where the goroutine of each device is
    registrationTs, \* timestamp in the registration data it has fetched
    telemetryTs,    \* timestamp in the telemetry data it has fetched
    localTs,        \* SyncTime: the local time it has read
    pending,        \* time in a request the device may yet execute, given up or repeated
    acked,          \* history: last timestamp of a record influxdb acknowledged
    elapsed,        \* history: time since SyncTime has read the device's clock
    overtaken,      \* history: the last request a device executed came late
    found           \* history: the last record that the query of Run saw

restorerVars == <<restored, timestamp, reader, readTs, found>>
pollVars     == <<registrationTs, telemetryTs, localTs>>
lateVars     == <<pending, overtaken>>
vars == <<local, clock, records, restorerVars, pc, pollVars, lateVars, acked, elapsed>>

Init ==
    /\ local \in Time
    /\ clock \in [Devices -> Time \union {Unknown}]
    /\ records \in SUBSET Time
    /\ restored = FALSE /\ timestamp = Unknown
    /\ reader = "idle" /\ readTs = Unknown /\ found = Unknown
    /\ pc = [d \in Devices |-> "idle"]
    /\ registrationTs = [d \in Devices |-> Unknown]
    /\ telemetryTs = [d \in Devices |-> Unknown]
    /\ localTs = [d \in Devices |-> Unknown]
    /\ pending = [d \in Devices |-> Unknown]
    /\ acked = [d \in Devices |-> Unknown]
    /\ elapsed = [d \in Devices |-> 0]
    /\ overtaken = [d \in Devices |-> FALSE]

Later(s, t) == IF s < t THEN t ELSE s
Earlier(s, t) == IF s < t THEN s ELSE t

-----------------------------------------------------------------------------
(* SystemClockRestorer.                                                    *)

\* Mutant: the restorer takes whatever record it is told of last.
SetTimestampLast(t) ==
    /\ timestamp' = t
    /\ restored' = TRUE

\* A time before the one it knows is ignored.
SetTimestamp(t) ==
    /\ timestamp' = Later(timestamp, t)
    /\ restored' = TRUE

\* Mutant: the end of the window after it.
NextWindowEnd(t) == (t \div Window + 2) * Window

\* The end of the window that holds the record: aggregateWindow stamps it so.
WindowEnd(t) == (t \div Window + 1) * Window

\* The records in range(start: -30d), which stops at the server's now: records
\* from then on are not in it, nor those that are older.
Seen(now) == {t \in records : now - Range <= t /\ t < now}

\* The query answers with the end of the last window that holds a record it
\* sees, cut off at the server's now (a fraction of a second is dropped), or
\* with nothing.  One that fails is tried again at the next tick.
ReadTimestamp ==
    /\ reader = "idle"
    /\ \E now \in 0 .. MaxTime + Range + 1 :
          \/ Seen(now) = {} /\ readTs' = Unknown /\ found' = Unknown
          \/ \E last \in Seen(now) :
                /\ \A t \in Seen(now) : t <= last
                /\ found' = last
                /\ readTs' \in {Earlier(WindowEnd(last), n) : n \in {now - 1, now}}
    /\ reader' = "read"
    /\ UNCHANGED <<lateVars, local, clock, records, restored, timestamp, pc, pollVars, acked,
                   elapsed>>

\* Mutant: what was read replaces what has been set meanwhile.
RestoreAnyway ==
    /\ reader = "read"
    /\ reader' = "restored" /\ readTs' = Unknown
    /\ restored' = TRUE /\ timestamp' = readTs
    /\ UNCHANGED <<lateVars, local, clock, records, found, pc, pollVars, acked, elapsed>>

\* Run takes the mutex after the query, and then succeeds for good; what it
\* has read is forgotten.
Restore ==
    /\ reader = "read"
    /\ \/ restored /\ reader' = "skipped" /\ UNCHANGED <<restored, timestamp>>
       \/ ~restored /\ reader' = "restored" /\ restored' = TRUE /\ timestamp' = readTs
    /\ readTs' = Unknown
    /\ UNCHANGED <<lateVars, local, clock, records, found, pc, pollVars, acked, elapsed>>

-----------------------------------------------------------------------------
(* PollDevice.                                                             *)

Goto(d, l) == pc' = [pc EXCEPT ![d] = l]

\* What is fetched is not used any more.
Forget(d) ==
    /\ registrationTs' = [registrationTs EXCEPT ![d] = Unknown]
    /\ telemetryTs' = [telemetryTs EXCEPT ![d] = Unknown]

\* A poll that ends, with nil or an error, forgets what it fetched.
EndPoll(d) ==
    /\ Goto(d, "idle")
    /\ Forget(d)
    /\ localTs' = [localTs EXCEPT ![d] = Unknown]
    /\ elapsed' = [elapsed EXCEPT ![d] = 0]

FetchRegistration(d) ==
    /\ pc[d] = "idle"
    /\ registrationTs' = [registrationTs EXCEPT ![d] = clock[d]]
    /\ Goto(d, "registration")
    /\ UNCHANGED <<lateVars, local, clock, records, restorerVars, telemetryTs, localTs, acked,
                   elapsed>>

FetchTelemetry(d) ==
    /\ pc[d] = "fetch"
    /\ \/ /\ telemetryTs' = [telemetryTs EXCEPT ![d] = clock[d]]
          /\ Goto(d, "telemetry")
          /\ UNCHANGED <<registrationTs, localTs, elapsed>>
       \/ EndPoll(d)
    /\ UNCHANGED <<lateVars, local, clock, records, restorerVars, acked>>

\* DriftTimeVerifier accepts every time from the future, BasicTimeVerifier
\* every time that is set.
VerifyTime(t) ==
    IF MaxDrift = 0 THEN t > 0
    ELSE t >= 0 /\ (t < local => local - t < MaxDrift)

\* validateTimestamp: data that is not verified is of no use to the poll any
\* more, and starts a synchronization.
Validate(d) ==
    /\ \E t \in Time \union {Unknown} :
          /\ \/ pc[d] = "registration" /\ t = registrationTs[d]
             \/ pc[d] = "telemetry" /\ t = telemetryTs[d]
          /\ \/ /\ VerifyTime(t)
                /\ Goto(d, IF pc[d] = "registration" THEN "fetch" ELSE "write")
                /\ UNCHANGED <<registrationTs, telemetryTs>>
             \/ ~VerifyTime(t) /\ Goto(d, "local") /\ Forget(d)
    /\ UNCHANGED <<lateVars, local, clock, records, restorerVars, localTs, acked, elapsed>>

\* HandleRegistration: the point is written, then the restorer is told.  A
\* write that returns an error ends the poll.
WriteRegistration(d) ==
    /\ pc[d] = "write"
    /\ \/ /\ acked' = [acked EXCEPT ![d] = Later(@, registrationTs[d])]
          /\ Goto(d, "written")
          /\ UNCHANGED <<pollVars, elapsed>>
       \/ EndPoll(d) /\ UNCHANGED acked
    /\ UNCHANGED <<lateVars, local, clock, records, restorerVars>>

RegistrationWritten(d) ==
    /\ pc[d] = "written"
    /\ SetTimestamp(registrationTs[d])
    /\ Goto(d, "writeTelemetry")
    /\ UNCHANGED <<lateVars, local, clock, records, reader, readTs, found, pollVars, acked,
                   elapsed>>

\* HandleTelemetry, the same; an error may come after the point was stored.
WriteTelemetry(d) ==
    /\ pc[d] = "writeTelemetry"
    /\ \/ /\ records' = records \union {telemetryTs[d]}
          /\ acked' = [acked EXCEPT ![d] = Later(@, telemetryTs[d])]
          /\ Goto(d, "telemetryWritten")
          /\ UNCHANGED <<pollVars, elapsed>>
       \/ /\ records' \in {records, records \union {telemetryTs[d]}}
          /\ EndPoll(d)
          /\ UNCHANGED acked
    /\ UNCHANGED <<lateVars, local, clock, restorerVars>>

TelemetryWritten(d) ==
    /\ pc[d] = "telemetryWritten"
    /\ SetTimestamp(telemetryTs[d])
    /\ EndPoll(d)
    /\ UNCHANGED <<lateVars, local, clock, records, reader, readTs, found, acked>>

-----------------------------------------------------------------------------
(* SystemClockSynchronizer.SyncTime; the poll fails whatever it returns.   *)

GetLocal(d) ==
    /\ pc[d] = "local"
    /\ localTs' = [localTs EXCEPT ![d] = local]
    /\ Goto(d, "remoteLast")
    /\ UNCHANGED <<lateVars, local, clock, records, restorerVars, registrationTs, telemetryTs,
                   acked, elapsed>>

\* Mutant: what is persisted does not matter.
IgnoreLast(t) == t >= Unknown

\* Not before the restorer is restored, nor behind what is persisted.
NotBehindLast(t) == restored /\ t >= timestamp

GetRemoteLast(d) ==
    /\ pc[d] = "remoteLast"
    /\ \/ NotBehindLast(localTs[d]) /\ Goto(d, "remoteCurr") /\ UNCHANGED <<pollVars, elapsed>>
       \/ ~NotBehindLast(localTs[d]) /\ EndPoll(d)
    /\ UNCHANGED <<lateVars, local, clock, records, restorerVars, acked>>

\* Mutant: the comparison is the wrong way round.
BehindCurr(d, t) == t <= clock[d]

NotBehindCurr(d, t) == t >= clock[d]

\* The device answers with its time, or the request fails.
GetRemoteCurr(d) ==
    /\ pc[d] = "remoteCurr"
    /\ \/ /\ NotBehindCurr(d, localTs[d])
          /\ Goto(d, "set")
          /\ elapsed' = [elapsed EXCEPT ![d] = 0]
          /\ UNCHANGED pollVars
       \/ EndPoll(d)
    /\ UNCHANGED <<lateVars, local, clock, records, restorerVars, acked>>

\* The device sets its clock, or the request is lost.  When the answer does not
\* come in time the device may yet do it, and do it again when the transport
\* has repeated the request.
SetRemote(d) ==
    /\ pc[d] = "set"
    /\ \/ /\ clock' = [clock EXCEPT ![d] = localTs[d]]
          /\ overtaken' = [overtaken EXCEPT ![d] = FALSE]
       \/ UNCHANGED <<clock, overtaken>>
    /\ \/ pending' = [pending EXCEPT ![d] = localTs[d]]
       \/ UNCHANGED pending
    /\ EndPoll(d)
    /\ UNCHANGED <<local, records, restorerVars, acked>>

-----------------------------------------------------------------------------
(* The environment.                                                        *)

\* GET /api/v1/system/time?value=v, NTP, or an operator.
SetLocal(v) ==
    /\ v # local
    /\ local' = v
    /\ UNCHANGED <<lateVars, clock, records, restorerVars, pc, pollVars, acked, elapsed>>

\* A second passes on every clock that runs.  Clocks stop at MaxTime, and so
\* does elapsed: no two clocks differ by more.
Tick ==
    /\ local < MaxTime
    /\ \A d \in Devices : clock[d] < MaxTime
    /\ local' = local + 1
    /\ clock' = [d \in Devices |-> IF clock[d] = Unknown THEN Unknown ELSE clock[d] + 1]
    /\ elapsed' = [d \in Devices |-> IF pc[d] = "set" /\ elapsed[d] < MaxTime
                                      THEN elapsed[d] + 1 ELSE elapsed[d]]
    /\ UNCHANGED <<lateVars, records, restorerVars, pc, pollVars, acked>>

\* The device executes a request late.  A comparison made before says nothing
\* about its clock any more.
SetLate(d) ==
    /\ pending[d] # Unknown
    /\ clock' = [clock EXCEPT ![d] = pending[d]]
    /\ pending' = [pending EXCEPT ![d] = Unknown]
    /\ overtaken' = [overtaken EXCEPT ![d] = TRUE]
    /\ elapsed' = [elapsed EXCEPT ![d] = IF pc[d] = "set" THEN MaxTime ELSE @]
    /\ UNCHANGED <<local, records, restorerVars, pc, pollVars, acked>>

\* A device restarts with no idea of the time.
Reboot(d) ==
    /\ clock[d] # Unknown
    /\ clock' = [clock EXCEPT ![d] = Unknown]
    /\ UNCHANGED <<lateVars, local, records, restorerVars, pc, pollVars, acked, elapsed>>

\* The hub restarts; influxdb, its machine and the devices do not, nor the
\* requests that are on their way.
Restart ==
    /\ restored' = FALSE /\ timestamp' = Unknown
    /\ reader' = "idle" /\ readTs' = Unknown /\ found' = Unknown
    /\ pc' = [d \in Devices |-> "idle"]
    /\ registrationTs' = [d \in Devices |-> Unknown]
    /\ telemetryTs' = [d \in Devices |-> Unknown]
    /\ localTs' = [d \in Devices |-> Unknown]
    /\ acked' = [d \in Devices |-> Unknown]
    /\ elapsed' = [d \in Devices |-> 0]
    /\ \/ pending' = [d \in Devices |-> IF pc[d] = "set" THEN localTs[d] ELSE pending[d]]
       \/ UNCHANGED pending
    /\ UNCHANGED <<local, clock, records, overtaken>>

SyncTime(d) == GetLocal(d) \/ GetRemoteLast(d) \/ GetRemoteCurr(d) \/ SetRemote(d)

HandleData(d) ==
    \/ WriteRegistration(d) \/ RegistrationWritten(d)
    \/ WriteTelemetry(d) \/ TelemetryWritten(d)

Next ==
    \/ \E d \in Devices :
          \/ FetchRegistration(d) \/ FetchTelemetry(d) \/ Validate(d)
          \/ SyncTime(d) \/ HandleData(d) \/ SetLate(d) \/ Reboot(d)
    \/ ReadTimestamp \/ Restore
    \/ \E v \in Time : SetLocal(v)
    \/ Tick \/ Restart

Spec == Init /\ [][Next]_vars

-----------------------------------------------------------------------------
(* Properties.                                                             *)

Stages == {"idle", "registration", "fetch", "telemetry", "write", "written", "writeTelemetry",
           "telemetryWritten", "local", "remoteLast", "remoteCurr", "set"}

TypeOK ==
    /\ local \in Time
    /\ clock \in [Devices -> Time \union {Unknown}]
    /\ records \subseteq Time
    /\ restored \in BOOLEAN
    /\ timestamp \in 0 .. MaxTime + Window \union {Unknown}
    /\ reader \in {"idle", "read", "restored", "skipped"}
    /\ readTs \in 0 .. MaxTime + Window \union {Unknown}
    /\ pc \in [Devices -> Stages]
    /\ registrationTs \in [Devices -> Time \union {Unknown}]
    /\ telemetryTs \in [Devices -> Time \union {Unknown}]
    /\ localTs \in [Devices -> Time \union {Unknown}]
    /\ acked \in [Devices -> Time \union {Unknown}]
    /\ pending \in [Devices -> Time \union {Unknown}]
    /\ elapsed \in [Devices -> Time]
    /\ overtaken \in [Devices -> BOOLEAN]
    /\ found \in Time \union {Unknown}

\* The clock the synchronizer compares with never goes back while the hub
\* runs, whichever of Run and SetTimestamp comes first, and however stale the
\* answer of the query is by then.
LastIsMonotone == [][restored /\ restored' => timestamp' >= timestamp]_vars

\* A device is never told a time before that of a record of it which influxdb
\* has acknowledged in this run, even when the local clock was set back:
\* otherwise its next records would overwrite those.
NoRewindOfStored == \A d \in Devices : pc[d] = "set" => localTs[d] >= acked[d]

\* The comparison of the local time with the device's is stale by the time
\* the device is told.  Its clock goes back by no more than that delay.
RewindBounded == \A d \in Devices : pc[d] = "set" => clock[d] - localTs[d] <= elapsed[d]

\* The clock of a device falls behind a record of it that influxdb has
\* acknowledged in this run only when a request to set it is executed late, and
\* stays behind no longer than to the next one executed in time.
ClockKeepsUp ==
    \A d \in Devices :
        clock[d] # Unknown /\ ~overtaken[d] => clock[d] >= acked[d]

\* When Run has restored the answer of its query, no device is told a time
\* before the last record in the range of the query, not even by a
\* synchronization that began during the query.  Records that the range leaves
\* out, because the server's clock was behind them or 30 days ahead, bound
\* nothing, and neither do those whose answer was skipped.
NoRewindOfFound ==
    \A d \in Devices : reader = "restored" /\ pc[d] = "set" => localTs[d] >= found

\* What the restorer knows is the time of a record, or that of one rounded up
\* within its window, also after records that were stored with an error: it
\* never refuses a local time that is ahead of every record by the window.
NotAheadOfRecords ==
    timestamp # Unknown =>
        \/ \E t \in records : timestamp <= t + Window
        \/ \E d \in Devices : timestamp <= acked[d]

\* Run "restores the UNIX timestamp from the persistent storage": once it has
\* succeeded, what the restorer knows is not before the last record that its
\* query has found there.
RestoredIsKnown == reader \in {"restored", "skipped"} => timestamp >= found

=============================================================================
