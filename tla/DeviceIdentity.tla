--------------------------- MODULE DeviceIdentity ---------------------------
(***************************************************************************)
(* Whose data the hub stores.  A poll (devcore.PollDevice) is two requests *)
(* to a host whose address may change in between, and an address may pass  *)
(* to another device.  PollDevice takes the first ID it reads for its own, *)
(* refuses registration data with another one, and stores both answers     *)
(* under its own; telemetry carries no ID.  devcore.IDHolder keeps the ID  *)
(* that GetDesc lists.  Every step that resolves a host or returns is the  *)
(* step of ResolveStore, together with what the poll makes of it.          *)
(***************************************************************************)
EXTENDS ResolveStore

CONSTANTS
    Units,          \* physical devices, each with its device_id
    Polled          \* the devices whose polls are followed

ASSUME PolledAssumption == Polled \subseteq Devices
ASSUME UnitsAssumption == None \notin Units

VARIABLES
    at,             \* the unit at each address
    stage,          \* where each poll is
    deviceID,       \* PollDevice.deviceID, None when it is empty
    holderID,       \* IDHolder.id
    regFrom,        \* the unit whose registration data the poll holds
    telFrom,        \* the unit whose telemetry it holds
    moved           \* history: during the poll, the host or a unit changed address

pollVars == <<stage, deviceID, holderID, regFrom, telFrom, moved>>
idVars == <<vars, at, pollVars>>

IdInit ==
    /\ Init
    /\ at \in [Addrs -> Units \union {None}]
    /\ stage = [d \in Devices |-> "idle"]
    /\ deviceID = [d \in Devices |-> None]
    /\ holderID = [d \in Devices |-> None]
    /\ regFrom = [d \in Devices |-> None]
    /\ telFrom = [d \in Devices |-> None]
    /\ moved = [d \in Devices |-> FALSE]

-----------------------------------------------------------------------------
(* The network.                                                            *)

\* An address is given to a unit, or taken from it.
Move(a, u) ==
    /\ at[a] # u
    /\ at' = [at EXCEPT ![a] = u]
    /\ moved' = [d \in Devices |-> moved[d] \/ stage[d] # "idle"]
    /\ UNCHANGED <<vars, stage, deviceID, holderID, regFrom, telFrom>>

\* A host is reported, and it has another address than before.
Report(h, a) ==
    /\ HandleResolve(h, a)
    /\ moved' = [d \in Devices |->
                    \/ moved[d]
                    \/ stage[d] # "idle" /\ HostOf[d] = h /\ resolvedAddrs[h] \notin {None, a}]
    /\ UNCHANGED <<at, stage, deviceID, holderID, regFrom, telFrom>>

-----------------------------------------------------------------------------
(* The device store.                                                       *)

\* A new node has a new PollDevice and a new IDHolder.
MakeNode(d) ==
    /\ Register(d)
    /\ deviceID' = [deviceID EXCEPT ![d] = None]
    /\ holderID' = [holderID EXCEPT ![d] = None]
    /\ UNCHANGED <<at, stage, regFrom, telFrom, moved>>

\* The goroutine of a removed device ends between two polls.
NodeStopped(d) ==
    /\ stage[d] = "idle"
    /\ Unregistered(d)
    /\ UNCHANGED <<at, pollVars>>

-----------------------------------------------------------------------------
(* PollDevice.Run.                                                         *)

Enter(d, s) == stage' = [stage EXCEPT ![d] = s]

\* The poll is over, with an error unless its last record was stored.
End(d) ==
    /\ Enter(d, "idle")
    /\ regFrom' = [regFrom EXCEPT ![d] = None]
    /\ telFrom' = [telFrom EXCEPT ![d] = None]
    /\ moved' = [moved EXCEPT ![d] = FALSE]

PollBegin(d) ==
    /\ stage[d] = "idle" /\ Resolve(d)
    /\ Enter(d, "registration")
    /\ UNCHANGED <<at, deviceID, holderID, regFrom, telFrom, moved>>

\* The unit at the address the request goes to answers it.
Responds(d, u) == answer[d] \in Addrs /\ at[answer[d]] = u

\* The host is not resolved, nobody answers, or not as expected.
FetchFails(d) ==
    /\ stage[d] \in {"registration", "telemetry"} /\ Return(d)
    /\ End(d)
    /\ UNCHANGED <<at, deviceID, holderID>>

\* Mutant: the first ID is kept, and never compared with.
KeepFirstID(d, u) ==
    deviceID' = [deviceID EXCEPT ![d] = IF @ = None THEN u ELSE @]

\* Mutant: the last ID is taken.
TakeLastID(d, u) == deviceID' = [deviceID EXCEPT ![d] = u]

\* The first ID is taken, any other is refused.
ParseDeviceID(d, u) ==
    /\ deviceID[d] \in {None, u}
    /\ deviceID' = [deviceID EXCEPT ![d] = u]

\* The ID is taken before the timestamp is looked at: it stays when that is
\* invalid and the clock is to be synchronized.
FetchRegistration(d, u) ==
    /\ stage[d] = "registration" /\ Return(d)
    /\ Responds(d, u)
    /\ ParseDeviceID(d, u)
    /\ \/ Enter(d, "registered") /\ regFrom' = [regFrom EXCEPT ![d] = u]
       \/ Enter(d, "sync") /\ UNCHANGED regFrom
    /\ UNCHANGED <<at, holderID, telFrom, moved>>

\* The second request resolves the host again.
TelemetryBegin(d) ==
    /\ stage[d] = "registered" /\ Resolve(d)
    /\ Enter(d, "telemetry")
    /\ UNCHANGED <<at, deviceID, holderID, regFrom, telFrom, moved>>

FetchTelemetry(d, u) ==
    /\ stage[d] = "telemetry" /\ Return(d)
    /\ Responds(d, u)
    /\ \/ Enter(d, "fetched") /\ telFrom' = [telFrom EXCEPT ![d] = u]
       \/ Enter(d, "sync") /\ UNCHANGED telFrom
    /\ UNCHANGED <<at, deviceID, holderID, regFrom, moved>>

\* SyncTime sends requests of its own, to wherever the host is then.
SyncBegin(d) ==
    /\ stage[d] = "sync" /\ Resolve(d)
    /\ UNCHANGED <<at, pollVars>>

SyncReturn(d) ==
    /\ stage[d] = "sync" /\ Return(d)
    /\ UNCHANGED <<at, pollVars>>

\* Synchronized or not, the poll has failed.
SyncEnd(d) ==
    /\ stage[d] = "sync" /\ call[d] = "idle"
    /\ End(d)
    /\ UNCHANGED <<vars, at, deviceID, holderID>>

\* IDHolder keeps the ID and passes the data on; influxdb may refuse it.
HandleRegistration(d) ==
    /\ stage[d] = "fetched"
    /\ holderID' = [holderID EXCEPT ![d] = deviceID[d]]
    /\ \/ Enter(d, "stored") /\ UNCHANGED <<regFrom, telFrom, moved>>
       \/ End(d)
    /\ UNCHANGED <<vars, at, deviceID>>

HandleTelemetry(d) ==
    /\ stage[d] = "stored"
    /\ End(d)
    /\ UNCHANGED <<vars, at, deviceID, holderID>>

-----------------------------------------------------------------------------
(* The specification.                                                      *)

PollStep(d) ==
    \/ PollBegin(d) \/ FetchFails(d) \/ TelemetryBegin(d)
    \/ \E u \in Units : FetchRegistration(d, u) \/ FetchTelemetry(d, u)
    \/ SyncBegin(d) \/ SyncReturn(d) \/ SyncEnd(d)
    \/ HandleRegistration(d) \/ HandleTelemetry(d)

\* Steps of the store and of Resolve calls that change nothing of a poll.
Unfollowed(d) ==
    /\ \/ Unregister(d) \/ Look(d) \/ WaitToken(d) \/ LookAgain(d) \/ WaitTimeout(d)
       \/ d \notin Polled /\ (Resolve(d) \/ Return(d))
    /\ UNCHANGED <<at, pollVars>>

IdNext ==
    \/ \E a \in Addrs, u \in Units \union {None} : Move(a, u)
    \/ \E h \in Hosts, a \in Addrs : Report(h, a)
    \/ \E d \in Devices : MakeNode(d) \/ NodeStopped(d) \/ Unfollowed(d)
    \/ \E d \in Polled : PollStep(d)

IdSpec == IdInit /\ [][IdNext]_idVars

-----------------------------------------------------------------------------
(* Properties.                                                             *)

Stages == {"idle", "registration", "registered", "telemetry", "fetched", "stored", "sync"}

IdTypeOK ==
    /\ at \in [Addrs -> Units \union {None}]
    /\ stage \in [Devices -> Stages]
    /\ deviceID \in [Devices -> Units \union {None}]
    /\ holderID \in [Devices -> Units \union {None}]
    /\ regFrom \in [Devices -> Units \union {None}]
    /\ telFrom \in [Devices -> Units \union {None}]
    /\ moved \in [Devices -> BOOLEAN]

\* Whatever is resolved, removed and registered meanwhile, the registration
\* data to be stored is that of the unit whose ID it is stored under, and so is
\* the telemetry, unless the host or a unit has changed its address between
\* the beginning of the poll and its second request: nothing compares then.
RecordsOfOwner ==
    \A d \in Devices :
        stage[d] \in {"fetched", "stored"} =>
            /\ regFrom[d] = deviceID[d]
            /\ telFrom[d] # deviceID[d] => moved[d]

\* While a device is registered its ID does not change, neither the one its
\* records are stored under nor the one GetDesc lists, and they do not differ,
\* whichever units answer at its address.
IdIsStable ==
    [][\A d \in Devices :
          node[d] # "none" =>
              /\ deviceID[d] # None => deviceID'[d] = deviceID[d]
              /\ holderID'[d] \in {holderID[d], deviceID'[d]}
              /\ holderID[d] # None => holderID'[d] = holderID[d]]_idVars

=============================================================================
