--------------------------- MODULE TimeSyncProofs ---------------------------
(***************************************************************************)
(* Theorems about TimeSync, for any number of devices, any bound of the    *)
(* clocks, both time verifiers and any aggregation window.                 *)
(***************************************************************************)
EXTENDS TimeSync, TLAPS

-----------------------------------------------------------------------------
(* The inductive invariant.                                                *)

\* TypeOK without the upper bounds of what the query returns; what a poll
\* writes as telemetry has been verified.
TypeInv ==
    /\ local \in Time
    /\ clock \in [Devices -> Time \union {Unknown}]
    /\ records \subseteq Time
    /\ restored \in BOOLEAN
    /\ timestamp \in Int /\ timestamp >= Unknown
    /\ reader \in {"idle", "read", "restored", "skipped"}
    /\ readTs \in Int /\ readTs >= Unknown
    /\ pc \in [Devices -> Stages]
    /\ registrationTs \in [Devices -> Time \union {Unknown}]
    /\ telemetryTs \in [Devices -> Time \union {Unknown}]
    /\ localTs \in [Devices -> Time \union {Unknown}]
    /\ acked \in [Devices -> Time \union {Unknown}]
    /\ pending \in [Devices -> Time \union {Unknown}]
    /\ elapsed \in [Devices -> Time]
    /\ overtaken \in [Devices -> BOOLEAN]
    /\ found \in Time \union {Unknown}
    /\ \A d \in Devices : pc[d] \in {"write", "written", "writeTelemetry"} => telemetryTs[d] \in Time

\* The timestamp of the record that d has written and the restorer has not
\* been told of.
Untold(d) ==
    CASE pc[d] = "written" -> registrationTs[d]
      [] pc[d] = "telemetryWritten" -> telemetryTs[d]
      [] OTHER -> Unknown

\* The restorer knows every acknowledged record but the last one, and knows
\* none before it is restored.
KnownInv ==
    /\ ~restored => timestamp = Unknown
    /\ \A d \in Devices : acked[d] <= timestamp \/ acked[d] = Untold(d)

\* A synchronization under way has read a time that is set, and past the
\* comparison with remote last it is not behind the records of the device.
SyncInv ==
    \A d \in Devices :
        /\ pc[d] \in {"remoteLast", "remoteCurr", "set"} => localTs[d] \in Time
        /\ pc[d] \in {"remoteCurr", "set"} => localTs[d] >= acked[d]

\* Unless set late, a clock that is set is behind none of the timestamps that
\* were read from it and are or may be acknowledged.
KeepInv ==
    \A d \in Devices :
        clock[d] # Unknown /\ ~overtaken[d] =>
            /\ clock[d] >= acked[d]
            /\ clock[d] >= registrationTs[d]
            /\ clock[d] >= telemetryTs[d]

IInv == TypeInv /\ KnownInv /\ SyncInv /\ RewindBounded /\ KeepInv

-----------------------------------------------------------------------------

\* What the hub starts from, the first time and after a restart, is typed.
LEMMA StartTyped ==
    /\ 0 \in Time /\ Unknown \in Int
    /\ [d \in Devices |-> "idle"] \in [Devices -> Stages]
    /\ [d \in Devices |-> Unknown] \in [Devices -> Time \union {Unknown}]
    /\ [d \in Devices |-> 0] \in [Devices -> Time]
    /\ [d \in Devices |-> FALSE] \in [Devices -> BOOLEAN]
<1>1. 0 \in Time /\ Unknown \in Int
  BY TimeAssumption DEF Time, Unknown
<1>2. [d \in Devices |-> "idle"] \in [Devices -> Stages]
  BY DEF Stages
<1>3. Unknown \in Time \union {Unknown}
  OBVIOUS
<1>4. [d \in Devices |-> Unknown] \in [Devices -> Time \union {Unknown}]
  BY <1>3
<1>5. /\ [d \in Devices |-> 0] \in [Devices -> Time]
      /\ [d \in Devices |-> FALSE] \in [Devices -> BOOLEAN]
  BY <1>1
<1> QED
  BY <1>1, <1>2, <1>4, <1>5

\* The invariant holds when the hub starts.
LEMMA InitInv == Init => IInv
<1> SUFFICES ASSUME Init PROVE IInv
  OBVIOUS
<1>1. TypeInv
  <2>1. timestamp \in Int /\ timestamp >= Unknown /\ readTs \in Int /\ readTs >= Unknown
    BY DEF Init, Unknown
  <2> QED
    BY <2>1, StartTyped DEF Init, TypeInv
<1>2. KnownInv
  BY Zenon DEF Init, KnownInv, Untold
<1>3. SyncInv /\ RewindBounded
  BY DEF Init, SyncInv, RewindBounded
<1>4. KeepInv
  BY TimeAssumption DEF Init, KeepInv, Time, Unknown
<1> QED
  BY <1>1, <1>2, <1>3, <1>4 DEF IInv

\* Division with a remainder.
LEMMA Division ==
    ASSUME NEW t \in Nat, NEW w \in Nat \ {0}
    PROVE  /\ t \div w \in Int
           /\ t = w * (t \div w) + (t % w)
           /\ t % w \in 0 .. w - 1
<1>1. t \div w \in Int
  OBVIOUS
<1>2. t = w * (t \div w) + (t % w)
  OBVIOUS
<1>3. t % w \in 0 .. w - 1
  OBVIOUS
<1> QED
  BY <1>1, <1>2, <1>3

\* The end of a window is not before what is in it, and no window beyond it.
LEMMA WindowEndBound ==
    ASSUME NEW t \in Time
    PROVE  WindowEnd(t) \in Int /\ t <= WindowEnd(t) /\ WindowEnd(t) <= t + Window
<1> DEFINE q == t \div Window
           r == t % Window
<1>1. t \in Nat /\ Window \in Nat \ {0}
  BY TimeAssumption DEF Time
<1>2. q \in Int /\ t = Window * q + r /\ r \in 0 .. Window - 1
  BY <1>1, Division
<1>3. WindowEnd(t) = (q + 1) * Window
  BY DEF WindowEnd
<1> HIDE DEF q, r
<1>4. (q + 1) * Window = Window * q + Window /\ Window * q \in Int
  BY <1>1, <1>2
<1> QED
  BY <1>1, <1>2, <1>3, <1>4

\* The answer of the query is not before the last record it sees, and within
\* the window of a record, wherever the server's clock is.
LEMMA AnswerBound ==
    ASSUME TypeInv, ReadTimestamp
    PROVE  /\ readTs' \in Int /\ readTs' >= Unknown /\ found' \in Time \union {Unknown}
           /\ found' <= readTs'
           /\ readTs' # Unknown => \E t \in records : readTs' <= t + Window
<1>1. CASE readTs' = Unknown /\ found' = Unknown
  BY <1>1 DEF Unknown
<1>2. ASSUME NEW now \in 0 .. MaxTime + Range + 1, NEW last \in Seen(now),
             found' = last, readTs' \in {Earlier(WindowEnd(last), n) : n \in {now - 1, now}}
      PROVE  /\ readTs' \in Int /\ last <= readTs' /\ readTs' <= last + Window
             /\ last \in records /\ last \in Time /\ last >= 0
  <2>1. now \in Int /\ last \in records /\ last \in Time /\ last \in Nat /\ last < now
    BY <1>2, TimeAssumption DEF Seen, TypeInv, Time
  <2>2. WindowEnd(last) \in Int /\ last <= WindowEnd(last) /\ WindowEnd(last) <= last + Window
    BY <2>1, WindowEndBound
  <2>3. PICK n \in {now - 1, now} : readTs' = Earlier(WindowEnd(last), n)
    BY <1>2
  <2> HIDE DEF WindowEnd
  <2> QED
    BY <2>1, <2>2, <2>3, TimeAssumption DEF Earlier
<1>3. PICK now \in 0 .. MaxTime + Range + 1 :
         \/ readTs' = Unknown /\ found' = Unknown
         \/ \E last \in Seen(now) :
               /\ found' = last
               /\ readTs' \in {Earlier(WindowEnd(last), n) : n \in {now - 1, now}}
  BY DEF ReadTimestamp
<1>4. CASE \E last \in Seen(now) :
             /\ found' = last
             /\ readTs' \in {Earlier(WindowEnd(last), n) : n \in {now - 1, now}}
  <2>1. PICK last \in Seen(now) :
           /\ found' = last
           /\ readTs' \in {Earlier(WindowEnd(last), n) : n \in {now - 1, now}}
    BY <1>4
  <2>2. /\ readTs' \in Int /\ last <= readTs' /\ readTs' <= last + Window
        /\ last \in records /\ last \in Time /\ last >= 0
    BY <1>2, <2>1
  <2>3. readTs' >= Unknown
    BY <2>2 DEF Unknown, Time
  <2> QED
    BY <2>1, <2>2, <2>3
<1> QED
  BY <1>1, <1>3, <1>4

\* Every step preserves the types.
LEMMA TypeStep == TypeInv /\ [Next]_vars => TypeInv'
<1> SUFFICES ASSUME TypeInv, [Next]_vars PROVE TypeInv'
  OBVIOUS
<1> USE TimeAssumption DEF TypeInv
<1>0. CASE Restart
  <2>1. /\ registrationTs' \in [Devices -> Time \union {Unknown}]
        /\ telemetryTs' \in [Devices -> Time \union {Unknown}]
        /\ localTs' \in [Devices -> Time \union {Unknown}]
        /\ acked' \in [Devices -> Time \union {Unknown}]
    BY <1>0, StartTyped DEF Restart
  <2>2. pc' \in [Devices -> Stages] /\ elapsed' \in [Devices -> Time]
    BY <1>0, StartTyped DEF Restart
  <2>3. timestamp' \in Int /\ timestamp' >= Unknown /\ readTs' \in Int /\ readTs' >= Unknown
    BY <1>0 DEF Restart, Unknown
  <2>4. pending' \in [Devices -> Time \union {Unknown}]
    BY <1>0 DEF Restart
  <2> QED
    BY <1>0, <2>1, <2>2, <2>3, <2>4 DEF Restart
<1> USE DEF Stages, Time, Unknown, Goto, EndPoll, Forget, Later, restorerVars, pollVars, lateVars
<1>1. ASSUME NEW d \in Devices, FetchRegistration(d) PROVE TypeInv'
  BY <1>1 DEF FetchRegistration
<1>2. ASSUME NEW d \in Devices, FetchTelemetry(d) PROVE TypeInv'
  BY <1>2 DEF FetchTelemetry
<1>3. ASSUME NEW d \in Devices, Validate(d) PROVE TypeInv'
  BY <1>3 DEF Validate, VerifyTime
<1>4. ASSUME NEW d \in Devices, GetLocal(d) PROVE TypeInv'
  BY <1>4 DEF GetLocal
<1>5. ASSUME NEW d \in Devices, GetRemoteLast(d) PROVE TypeInv'
  BY <1>5 DEF GetRemoteLast
<1>6. ASSUME NEW d \in Devices, GetRemoteCurr(d) PROVE TypeInv'
  BY <1>6 DEF GetRemoteCurr
<1>7. ASSUME NEW d \in Devices, SetRemote(d) PROVE TypeInv'
  <2>1. clock' \in [Devices -> Time \union {Unknown}] /\ overtaken' \in [Devices -> BOOLEAN]
    BY <1>7 DEF SetRemote
  <2>2. pending' \in [Devices -> Time \union {Unknown}]
    BY <1>7 DEF SetRemote
  <2>3. pc' \in [Devices -> Stages] /\ elapsed' \in [Devices -> Time]
    BY <1>7 DEF SetRemote
  <2> QED
    BY <1>7, <2>1, <2>2, <2>3 DEF SetRemote
<1>8. ASSUME NEW d \in Devices, WriteRegistration(d) PROVE TypeInv'
  BY <1>8 DEF WriteRegistration
<1>9. ASSUME NEW d \in Devices, RegistrationWritten(d) PROVE TypeInv'
  BY <1>9 DEF RegistrationWritten, SetTimestamp
<1>10. ASSUME NEW d \in Devices, WriteTelemetry(d) PROVE TypeInv'
  <2>1. telemetryTs[d] \in Time
    BY <1>10 DEF WriteTelemetry
  <2>2. records' \subseteq Time
    BY <1>10, <2>1 DEF WriteTelemetry
  <2>3. acked' \in [Devices -> Time \union {Unknown}]
    BY <1>10, <2>1 DEF WriteTelemetry
  <2>4. pc' \in [Devices -> Stages] /\ elapsed' \in [Devices -> Time]
    BY <1>10 DEF WriteTelemetry
  <2>5. /\ registrationTs' \in [Devices -> Time \union {Unknown}]
        /\ telemetryTs' \in [Devices -> Time \union {Unknown}]
        /\ localTs' \in [Devices -> Time \union {Unknown}]
        /\ \A e \in Devices \ {d} : pc'[e] = pc[e] /\ telemetryTs'[e] = telemetryTs[e]
        /\ pc'[d] \in {"idle", "telemetryWritten"}
    BY <1>10 DEF WriteTelemetry
  <2> QED
    BY <1>10, <2>2, <2>3, <2>4, <2>5 DEF WriteTelemetry
<1>11. ASSUME NEW d \in Devices, TelemetryWritten(d) PROVE TypeInv'
  BY <1>11 DEF TelemetryWritten, SetTimestamp
<1>12. ASSUME NEW d \in Devices, Reboot(d) PROVE TypeInv'
  BY <1>12 DEF Reboot
<1>13. CASE ReadTimestamp
  BY <1>13, AnswerBound DEF ReadTimestamp
<1>14. CASE Restore
  <2>1. timestamp' \in Int /\ timestamp' >= Unknown /\ readTs' \in Int /\ readTs' >= Unknown
    BY <1>14 DEF Restore
  <2>2. reader' \in {"idle", "read", "restored", "skipped"} /\ restored' \in BOOLEAN
    BY <1>14 DEF Restore
  <2> QED
    BY <1>14, <2>1, <2>2 DEF Restore
<1>15. ASSUME NEW v \in Time, SetLocal(v) PROVE TypeInv'
  BY <1>15 DEF SetLocal
<1>16. CASE Tick
  BY <1>16 DEF Tick
<1>17. ASSUME NEW d \in Devices, SetLate(d) PROVE TypeInv'
  BY <1>17 DEF SetLate
<1>18. CASE UNCHANGED vars
  BY <1>18 DEF vars
<1> QED
  BY <1>1, <1>2, <1>3, <1>4, <1>5, <1>6, <1>7, <1>8, <1>9, <1>10, <1>11, <1>12, <1>13, <1>14,
     <1>15, <1>16, <1>17, <1>0, <1>18
  DEF Next, SyncTime, HandleData

\* Every step preserves what the restorer knows.
LEMMA KnownStep == TypeInv /\ KnownInv /\ [Next]_vars => KnownInv'
<1> SUFFICES ASSUME TypeInv, KnownInv, [Next]_vars PROVE KnownInv'
  OBVIOUS
<1> USE DEF TypeInv, KnownInv, Untold, Time, Unknown, Goto, EndPoll, Forget, Later, restorerVars, pollVars, lateVars
<1>1. ASSUME NEW d \in Devices, FetchRegistration(d) PROVE KnownInv'
  BY <1>1 DEF FetchRegistration
<1>2. ASSUME NEW d \in Devices, FetchTelemetry(d) PROVE KnownInv'
  BY <1>2 DEF FetchTelemetry
<1>3. ASSUME NEW d \in Devices, Validate(d) PROVE KnownInv'
  BY <1>3 DEF Validate
<1>4. ASSUME NEW d \in Devices, SyncTime(d) PROVE KnownInv'
  BY <1>4 DEF SyncTime, GetLocal, GetRemoteLast, GetRemoteCurr, SetRemote
<1>5. ASSUME NEW d \in Devices, WriteRegistration(d) PROVE KnownInv'
  BY <1>5 DEF WriteRegistration
<1>6. ASSUME NEW d \in Devices, RegistrationWritten(d) PROVE KnownInv'
  BY <1>6 DEF RegistrationWritten, SetTimestamp
<1>7. ASSUME NEW d \in Devices, WriteTelemetry(d) PROVE KnownInv'
  BY <1>7 DEF WriteTelemetry
<1>8. ASSUME NEW d \in Devices, TelemetryWritten(d) PROVE KnownInv'
  BY <1>8 DEF TelemetryWritten, SetTimestamp
<1>9. CASE Restore
  BY <1>9 DEF Restore
<1>10. CASE Restart
  BY <1>10 DEF Restart
<1>11. CASE ReadTimestamp \/ Tick \/ (\E v \in Time : SetLocal(v))
             \/ (\E d \in Devices : SetLate(d) \/ Reboot(d))
  BY <1>11 DEF ReadTimestamp, Tick, SetLocal, SetLate, Reboot
<1>12. CASE UNCHANGED vars
  BY <1>12 DEF vars
<1> QED
  BY <1>1, <1>2, <1>3, <1>4, <1>5, <1>6, <1>7, <1>8, <1>9, <1>10, <1>11, <1>12
  DEF Next, HandleData

\* Every step preserves what a synchronization under way has established.
LEMMA SyncStep == TypeInv /\ KnownInv /\ SyncInv /\ [Next]_vars => SyncInv'
<1> SUFFICES ASSUME TypeInv, KnownInv, SyncInv, [Next]_vars PROVE SyncInv'
  OBVIOUS
<1> USE DEF TypeInv, SyncInv, Time, Unknown, Goto, EndPoll, Forget, Later, restorerVars, pollVars, lateVars
<1>1. ASSUME NEW d \in Devices, FetchRegistration(d) \/ FetchTelemetry(d) \/ Validate(d) PROVE SyncInv'
  BY <1>1 DEF FetchRegistration, FetchTelemetry, Validate
<1>2. ASSUME NEW d \in Devices, GetLocal(d) PROVE SyncInv'
  BY <1>2 DEF GetLocal
<1>3. ASSUME NEW d \in Devices, GetRemoteLast(d) PROVE SyncInv'
  BY <1>3 DEF GetRemoteLast, NotBehindLast, KnownInv, Untold
<1>4. ASSUME NEW d \in Devices, GetRemoteCurr(d) PROVE SyncInv'
  BY <1>4 DEF GetRemoteCurr
<1>5. ASSUME NEW d \in Devices, SetRemote(d) PROVE SyncInv'
  BY <1>5 DEF SetRemote
<1>6. ASSUME NEW d \in Devices, HandleData(d) PROVE SyncInv'
  BY <1>6
  DEF HandleData, WriteRegistration, RegistrationWritten, WriteTelemetry, TelemetryWritten
<1>7. CASE ReadTimestamp \/ Restore \/ Tick \/ Restart
  BY <1>7 DEF ReadTimestamp, Restore, Tick, Restart
<1>8. CASE (\E v \in Time : SetLocal(v)) \/ (\E d \in Devices : SetLate(d) \/ Reboot(d))
  BY <1>8 DEF SetLocal, SetLate, Reboot
<1>9. CASE UNCHANGED vars
  BY <1>9 DEF vars
<1> QED
  BY <1>1, <1>2, <1>3, <1>4, <1>5, <1>6, <1>7, <1>8, <1>9 DEF Next, SyncTime

\* Every step keeps the device's clock within the delay of the local time.
LEMMA RewindStep == TypeInv /\ SyncInv /\ RewindBounded /\ [Next]_vars => RewindBounded'
<1> SUFFICES ASSUME TypeInv, SyncInv, RewindBounded, [Next]_vars PROVE RewindBounded'
  OBVIOUS
<1> USE DEF TypeInv, RewindBounded, Time, Unknown, Goto, EndPoll, Forget, restorerVars, pollVars, lateVars
<1>1. ASSUME NEW d \in Devices, FetchRegistration(d) \/ FetchTelemetry(d) \/ Validate(d)
      PROVE  RewindBounded'
  BY <1>1 DEF FetchRegistration, FetchTelemetry, Validate
<1>2. ASSUME NEW d \in Devices, GetLocal(d) \/ GetRemoteLast(d) PROVE RewindBounded'
  BY <1>2 DEF GetLocal, GetRemoteLast
<1>3. ASSUME NEW d \in Devices, GetRemoteCurr(d) PROVE RewindBounded'
  BY <1>3 DEF GetRemoteCurr, NotBehindCurr
<1>4. ASSUME NEW d \in Devices, SetRemote(d) PROVE RewindBounded'
  BY <1>4 DEF SetRemote
<1>5. ASSUME NEW d \in Devices, HandleData(d) PROVE RewindBounded'
  BY <1>5
  DEF HandleData, WriteRegistration, RegistrationWritten, WriteTelemetry, TelemetryWritten
<1>6. CASE ReadTimestamp \/ Restore \/ Restart \/ (\E v \in Time : SetLocal(v))
  BY <1>6 DEF ReadTimestamp, Restore, Restart, SetLocal
<1>7. CASE Tick
  BY <1>7, TimeAssumption DEF Tick, SyncInv
<1>8. ASSUME NEW d \in Devices, Reboot(d) PROVE RewindBounded'
  BY <1>8, TimeAssumption DEF Reboot, SyncInv
<1>9. ASSUME NEW d \in Devices, SetLate(d) PROVE RewindBounded'
  BY <1>9, TimeAssumption DEF SetLate, SyncInv
<1>10. CASE UNCHANGED vars
  BY <1>10 DEF vars
<1> QED
  BY <1>1, <1>2, <1>3, <1>4, <1>5, <1>6, <1>7, <1>8, <1>9, <1>10 DEF Next, SyncTime

\* Every step keeps a clock that was not set late up with its records.
LEMMA KeepStep == TypeInv /\ SyncInv /\ KeepInv /\ [Next]_vars => KeepInv'
<1> SUFFICES ASSUME TypeInv, SyncInv, KeepInv, [Next]_vars PROVE KeepInv'
  OBVIOUS
<1> USE DEF TypeInv, KeepInv, Time, Unknown, Goto, EndPoll, Forget, Later, restorerVars, pollVars, lateVars
<1>1. ASSUME NEW d \in Devices, FetchRegistration(d) PROVE KeepInv'
  BY <1>1 DEF FetchRegistration
<1>2. ASSUME NEW d \in Devices, FetchTelemetry(d) PROVE KeepInv'
  BY <1>2 DEF FetchTelemetry
<1>3. ASSUME NEW d \in Devices, Validate(d) PROVE KeepInv'
  BY <1>3 DEF Validate
<1>4. ASSUME NEW d \in Devices, GetLocal(d) \/ GetRemoteLast(d) \/ GetRemoteCurr(d) PROVE KeepInv'
  BY <1>4 DEF GetLocal, GetRemoteLast, GetRemoteCurr
<1>5. ASSUME NEW d \in Devices, SetRemote(d) PROVE KeepInv'
  BY <1>5 DEF SetRemote, SyncInv
<1>6. ASSUME NEW d \in Devices, WriteRegistration(d) \/ RegistrationWritten(d) PROVE KeepInv'
  BY <1>6 DEF WriteRegistration, RegistrationWritten
<1>7. ASSUME NEW d \in Devices, WriteTelemetry(d) \/ TelemetryWritten(d) PROVE KeepInv'
  BY <1>7 DEF WriteTelemetry, TelemetryWritten
<1>8. ASSUME NEW d \in Devices, SetLate(d) \/ Reboot(d) PROVE KeepInv'
  BY <1>8 DEF SetLate, Reboot
<1>9. CASE ReadTimestamp \/ Restore \/ (\E v \in Time : SetLocal(v))
  BY <1>9 DEF ReadTimestamp, Restore, SetLocal
<1>10. CASE Tick
  BY <1>10, TimeAssumption DEF Tick
<1>11. CASE Restart
  BY <1>11, TimeAssumption DEF Restart
<1>12. CASE UNCHANGED vars
  BY <1>12 DEF vars
<1> QED
  BY <1>1, <1>2, <1>3, <1>4, <1>5, <1>6, <1>7, <1>8, <1>9, <1>10, <1>11, <1>12
  DEF Next, SyncTime, HandleData

\* The inductive invariant holds in every reachable state.
LEMMA Invariant == Spec => []IInv
BY InitInv, TypeStep, KnownStep, SyncStep, RewindStep, KeepStep, PTL DEF Spec, IInv

\* A device is never set behind its own acknowledged records
\* (system_clock_synchronizer.go, SyncTime; system_clock_restorer.go).
THEOREM StoredIsNotRewound == Spec => []NoRewindOfStored
<1>1. IInv => NoRewindOfStored
  BY DEF IInv, SyncInv, NoRewindOfStored
<1> QED
  BY Invariant, <1>1, PTL

\* A synchronization sets a clock back by at most the delay between the two
\* requests (system_clock_synchronizer.go, SyncTime).
THEOREM RewindIsBounded == Spec => []RewindBounded
BY Invariant, PTL DEF IInv

\* A clock is behind the acknowledged records of its device only after a late
\* request (system_clock.go, SetTimestamp, given up by its timeout).
THEOREM ClocksKeepUp == Spec => []ClockKeepsUp
<1>1. IInv => ClockKeepsUp
  BY DEF IInv, KeepInv, ClockKeepsUp
<1> QED
  BY Invariant, <1>1, PTL

\* Remote last is monotone from its first value to the end of the run
\* (system_clock_restorer.go, SetTimestamp and Run).
THEOREM LastNeverGoesBack == Spec => LastIsMonotone
<1>1. IInv /\ [Next]_vars => [restored /\ restored' => timestamp' >= timestamp]_vars
  <2> SUFFICES ASSUME IInv, Next, restored, restored' PROVE timestamp' >= timestamp
    BY DEF vars, IInv, TypeInv
  <2> USE DEF IInv, TypeInv, restorerVars
  <2>1. ASSUME NEW d \in Devices, RegistrationWritten(d) \/ TelemetryWritten(d)
        PROVE  timestamp' >= timestamp
    BY <2>1 DEF RegistrationWritten, TelemetryWritten, SetTimestamp, Later, Time, Unknown
  <2>2. CASE Restore
    BY <2>2 DEF Restore
  <2>3. CASE Restart
    BY <2>3 DEF Restart
  <2>4. CASE timestamp' = timestamp
    BY <2>4
  <2> QED
    BY <2>1, <2>2, <2>3, <2>4
    DEF Next, SyncTime, HandleData, FetchRegistration, FetchTelemetry, Validate, GetLocal,
        GetRemoteLast, GetRemoteCurr, SetRemote, WriteRegistration, WriteTelemetry, SetLate,
        Reboot, ReadTimestamp, SetLocal, Tick
<1> QED
  BY Invariant, <1>1, PTL DEF Spec, LastIsMonotone

-----------------------------------------------------------------------------
(* What the query finds, and how far beyond it the restorer goes.          *)

\* An answer that is used is known to the restorer, and to every
\* synchronization that is past the comparison with it: before the restorer is
\* restored there is none.
FoundInv ==
    /\ reader = "read" => found <= readTs
    /\ reader = "restored" => timestamp >= found
    /\ ~restored => \A d \in Devices : pc[d] \notin {"remoteCurr", "set"}
    /\ reader = "restored" =>
          \A d \in Devices : pc[d] \in {"remoteCurr", "set"} => localTs[d] >= found

LEMMA FoundStep == TypeInv /\ FoundInv /\ [Next]_vars => FoundInv'
<1> SUFFICES ASSUME TypeInv, FoundInv, [Next]_vars PROVE FoundInv'
  OBVIOUS
<1> USE DEF TypeInv, FoundInv, Time, Unknown, Goto, EndPoll, Forget, Later, restorerVars, pollVars,
            lateVars
<1>1. ASSUME NEW d \in Devices, FetchRegistration(d) \/ FetchTelemetry(d) \/ Validate(d)
      PROVE  FoundInv'
  BY <1>1, TimeAssumption DEF FetchRegistration, FetchTelemetry, Validate
<1>2. ASSUME NEW d \in Devices, GetLocal(d) PROVE FoundInv'
  BY <1>2, TimeAssumption DEF GetLocal
<1>3. ASSUME NEW d \in Devices, GetRemoteLast(d) PROVE FoundInv'
  BY <1>3, TimeAssumption DEF GetRemoteLast, NotBehindLast
<1>4. ASSUME NEW d \in Devices, GetRemoteCurr(d) PROVE FoundInv'
  BY <1>4, TimeAssumption DEF GetRemoteCurr
<1>5. ASSUME NEW d \in Devices, SetRemote(d) PROVE FoundInv'
  BY <1>5, TimeAssumption DEF SetRemote
<1>6. ASSUME NEW d \in Devices, WriteRegistration(d) \/ WriteTelemetry(d) PROVE FoundInv'
  BY <1>6, TimeAssumption DEF WriteRegistration, WriteTelemetry
<1>7. ASSUME NEW d \in Devices, RegistrationWritten(d) \/ TelemetryWritten(d) PROVE FoundInv'
  BY <1>7, TimeAssumption DEF RegistrationWritten, TelemetryWritten, SetTimestamp
<1>8. CASE ReadTimestamp
  <2>1. found' <= readTs'
    BY <1>8, AnswerBound
  <2> QED
    BY <1>8, <2>1 DEF ReadTimestamp
<1>9. CASE Restore
  BY <1>9, TimeAssumption DEF Restore
<1>10. CASE Restart
  BY <1>10 DEF Restart
<1>11. CASE Tick \/ (\E v \in Time : SetLocal(v)) \/ (\E d \in Devices : SetLate(d) \/ Reboot(d))
  BY <1>11 DEF Tick, SetLocal, SetLate, Reboot
<1>12. CASE UNCHANGED vars
  BY <1>12 DEF vars
<1> QED
  BY <1>1, <1>2, <1>3, <1>4, <1>5, <1>6, <1>7, <1>8, <1>9, <1>10, <1>11, <1>12
  DEF Next, SyncTime, HandleData

\* What Run has read is within the window of a record, and what
\* HandleRegistration and HandleTelemetry report has been acknowledged.
BoundInv ==
    /\ readTs # Unknown => \E t \in records : readTs <= t + Window
    /\ \A d \in Devices :
          /\ pc[d] = "written" => registrationTs[d] <= acked[d]
          /\ pc[d] = "telemetryWritten" => telemetryTs[d] <= acked[d]
    /\ NotAheadOfRecords

LEMMA BoundStep == TypeInv /\ BoundInv /\ [Next]_vars => BoundInv'
<1> SUFFICES ASSUME TypeInv, BoundInv, [Next]_vars PROVE BoundInv'
  OBVIOUS
<1> USE DEF TypeInv, BoundInv, NotAheadOfRecords, Time, Unknown, Goto, EndPoll, Forget, Later,
            restorerVars, pollVars, lateVars
<1>1. ASSUME NEW d \in Devices, FetchRegistration(d) \/ FetchTelemetry(d) \/ Validate(d)
      PROVE  BoundInv'
  BY <1>1, TimeAssumption DEF FetchRegistration, FetchTelemetry, Validate
<1>2. ASSUME NEW d \in Devices, SyncTime(d) PROVE BoundInv'
  BY <1>2, TimeAssumption DEF SyncTime, GetLocal, GetRemoteLast, GetRemoteCurr, SetRemote
<1>3. ASSUME NEW d \in Devices, WriteRegistration(d) PROVE BoundInv'
  <2>1. \A e \in Devices : acked[e] <= acked'[e]
    BY <1>3 DEF WriteRegistration
  <2> QED
    BY <1>3, <2>1, TimeAssumption DEF WriteRegistration
<1>4. ASSUME NEW d \in Devices, WriteTelemetry(d) PROVE BoundInv'
  <2>1. /\ \A e \in Devices : acked[e] <= acked'[e]
        /\ records \subseteq records'
    BY <1>4 DEF WriteTelemetry
  <2> QED
    BY <1>4, <2>1, TimeAssumption DEF WriteTelemetry
<1>5. ASSUME NEW d \in Devices, RegistrationWritten(d) PROVE BoundInv'
  BY <1>5, TimeAssumption DEF RegistrationWritten, SetTimestamp
<1>6. ASSUME NEW d \in Devices, TelemetryWritten(d) PROVE BoundInv'
  BY <1>6, TimeAssumption DEF TelemetryWritten, SetTimestamp
<1>7. CASE ReadTimestamp
  <2>1. readTs' # Unknown => \E t \in records : readTs' <= t + Window
    BY <1>7, AnswerBound
  <2> QED
    BY <1>7, <2>1 DEF ReadTimestamp
<1>8. CASE Restore
  BY <1>8, TimeAssumption DEF Restore
<1>9. CASE Restart
  BY <1>9 DEF Restart
<1>10. CASE Tick \/ (\E v \in Time : SetLocal(v)) \/ (\E d \in Devices : SetLate(d) \/ Reboot(d))
  BY <1>10 DEF Tick, SetLocal, SetLate, Reboot
<1>11. CASE UNCHANGED vars
  BY <1>11 DEF vars
<1> QED
  BY <1>1, <1>2, <1>3, <1>4, <1>5, <1>6, <1>7, <1>8, <1>9, <1>10, <1>11
  DEF Next, HandleData

\* The last record in the range of the query bounds what a device may be told,
\* from the moment Run has restored the answer, whatever influxdb's clock is
\* (system_clock_restorer.go, Run; system_clock_reader.go, ReadTimestamp).
THEOREM FoundIsNotRewound == Spec => []NoRewindOfFound
<1>1. Init => FoundInv
  BY DEF Init, FoundInv, Unknown
<1>2. IInv /\ FoundInv /\ [Next]_vars => FoundInv'
  BY FoundStep DEF IInv
<1>3. FoundInv => NoRewindOfFound
  BY DEF FoundInv, NoRewindOfFound
<1> QED
  BY Invariant, <1>1, <1>2, <1>3, PTL DEF Spec

LEMMA BoundInvariant == Spec => []BoundInv
<1>1. Init => BoundInv
  BY DEF Init, BoundInv, NotAheadOfRecords, Unknown
<1>2. IInv /\ BoundInv /\ [Next]_vars => BoundInv'
  BY BoundStep DEF IInv
<1> QED
  BY Invariant, <1>1, <1>2, PTL DEF Spec

\* The restorer never knows a time beyond the records by more than a window
\* (system_clock_reader.go, the query of ReadTimestamp).
THEOREM RestorerIsNotAhead == Spec => []NotAheadOfRecords
<1>1. BoundInv => NotAheadOfRecords
  BY DEF BoundInv
<1> QED
  BY BoundInvariant, <1>1, PTL

\* Every variable keeps its type; that the restorer's stays within a window of
\* the bound of the clocks takes both invariants.
THEOREM TypeCorrect == Spec => []TypeOK
<1>1. IInv /\ BoundInv => TypeOK
  <2> SUFFICES ASSUME IInv, BoundInv PROVE TypeOK
    OBVIOUS
  <2> USE TimeAssumption DEF IInv, TypeInv, BoundInv, NotAheadOfRecords, Time, Unknown
  <2>1. readTs \in 0 .. MaxTime + Window \union {Unknown}
    OBVIOUS
  <2>2. timestamp \in 0 .. MaxTime + Window \union {Unknown}
    OBVIOUS
  <2> QED
    BY <2>1, <2>2 DEF TypeOK
<1> QED
  BY Invariant, BoundInvariant, <1>1, PTL

=============================================================================
