------------------------ MODULE DeviceIdentityProofs ------------------------
(***************************************************************************)
(* Theorems about DeviceIdentity, for any hosts, addresses, devices and    *)
(* units.  What is stored belongs to the unit it is stored under only when *)
(* every device has a hostname of its own (OwnHosts): the removal of       *)
(* another device on the host would let the host be registered again, with *)
(* another address, in the middle of a poll.                               *)
(***************************************************************************)
EXTENDS DeviceIdentity, ResolveStoreProofs

-----------------------------------------------------------------------------
(* Polls on top of the resolve store.                                      *)

\* A step of DeviceIdentity is one of ResolveStore, or leaves its variables.
LEMMA IdStepRefines == [IdNext]_idVars => [Next]_vars
<1> SUFFICES ASSUME [IdNext]_idVars PROVE [Next]_vars
  OBVIOUS
<1> USE PolledAssumption DEF Next
<1>1. ASSUME NEW a \in Addrs, NEW u \in Units \union {None}, Move(a, u) PROVE [Next]_vars
  BY <1>1 DEF Move
<1>2. ASSUME NEW h \in Hosts, NEW a \in Addrs, Report(h, a) PROVE [Next]_vars
  BY <1>2 DEF Report
<1>3. ASSUME NEW d \in Devices, MakeNode(d) \/ NodeStopped(d) \/ Unfollowed(d)
      PROVE  [Next]_vars
  BY <1>3 DEF MakeNode, NodeStopped, Unfollowed
<1>4. ASSUME NEW d \in Polled, PollStep(d) PROVE [Next]_vars
  BY <1>4 DEF PollStep, PollBegin, FetchFails, TelemetryBegin, FetchRegistration,
              FetchTelemetry, SyncBegin, SyncReturn, SyncEnd, HandleRegistration, HandleTelemetry
<1>5. CASE UNCHANGED idVars
  BY <1>5 DEF idVars
<1> QED
  BY <1>1, <1>2, <1>3, <1>4, <1>5 DEF IdNext

\* Followed or not, polls use the resolve store as ResolveStore says: what is
\* proved of ResolveStore holds of DeviceIdentity.
THEOREM PollsUseResolveStore == IdSpec => Spec
<1>1. IdInit => Init
  BY DEF IdInit
<1> QED
  BY <1>1, IdStepRefines, PTL DEF IdSpec, Spec

-----------------------------------------------------------------------------
(* Types.                                                                  *)

\* The types hold when the hub starts.
LEMMA IdTypeInit == IdInit => IdTypeOK
BY DEF IdInit, IdTypeOK, Stages

\* Every step preserves the types.
LEMMA IdTypeStep == IdTypeOK /\ [IdNext]_idVars => IdTypeOK'
<1> SUFFICES ASSUME IdTypeOK, [IdNext]_idVars PROVE IdTypeOK'
  OBVIOUS
<1> USE PolledAssumption DEF IdTypeOK, Stages, pollVars
<1>1. ASSUME NEW a \in Addrs, NEW u \in Units \union {None}, Move(a, u) PROVE IdTypeOK'
  BY <1>1 DEF Move
<1>2. ASSUME NEW h \in Hosts, NEW a \in Addrs, Report(h, a) PROVE IdTypeOK'
  BY <1>2 DEF Report
<1>3. ASSUME NEW d \in Devices, MakeNode(d) \/ NodeStopped(d) \/ Unfollowed(d) PROVE IdTypeOK'
  BY <1>3 DEF MakeNode, NodeStopped, Unfollowed
<1>4. ASSUME NEW d \in Polled, PollStep(d) PROVE IdTypeOK'
  <2>1. CASE PollBegin(d) \/ TelemetryBegin(d)
    BY <2>1 DEF PollBegin, TelemetryBegin, Enter
  <2>2. CASE FetchFails(d) \/ SyncEnd(d)
    BY <2>2 DEF FetchFails, SyncEnd, End, Enter
  <2>3. ASSUME NEW u \in Units, FetchRegistration(d, u) PROVE IdTypeOK'
    BY <2>3 DEF FetchRegistration, ParseDeviceID, Enter
  <2>4. ASSUME NEW u \in Units, FetchTelemetry(d, u) PROVE IdTypeOK'
    BY <2>4 DEF FetchTelemetry, Enter
  <2>5. CASE SyncBegin(d) \/ SyncReturn(d)
    BY <2>5 DEF SyncBegin, SyncReturn
  <2>6. CASE HandleRegistration(d)
    BY <2>6 DEF HandleRegistration, End, Enter
  <2>7. CASE HandleTelemetry(d)
    BY <2>7 DEF HandleTelemetry, End, Enter
  <2> QED
    BY <1>4, <2>1, <2>2, <2>3, <2>4, <2>5, <2>6, <2>7 DEF PollStep
<1>5. CASE UNCHANGED idVars
  BY <1>5 DEF idVars
<1> QED
  BY <1>1, <1>2, <1>3, <1>4, <1>5 DEF IdNext

-----------------------------------------------------------------------------
(* The inductive invariants.                                               *)

\* The host of d resolves to the unit u, or to nothing and is not known: then
\* nothing but a new registration of d lets it resolve again.
ResolvesTo(d, u) ==
    IF resolvedAddrs[HostOf[d]] = None
    THEN HostOf[d] \notin knownHosts
    ELSE at[resolvedAddrs[HostOf[d]]] = u

\* Only a node polls, and it keeps registration data of its own ID only; when
\* nobody shares its host, an answered request of a poll in which nothing has
\* moved goes to the unit at the host's address, which is the unit whose
\* registration data the poll holds from then on.
PollInv ==
    \A d \in Devices :
        /\ stage[d] # "idle" => node[d] # "none"
        /\ stage[d] \in {"registered", "telemetry", "fetched", "stored"} =>
              regFrom[d] = deviceID[d]
        /\ ~moved[d] /\ OwnHost(d) =>
              /\ stage[d] = "registration" /\ call[d] = "answered" /\ answer[d] \in Addrs =>
                    ResolvesTo(d, at[answer[d]])
              /\ stage[d] \in {"registered", "telemetry"} => ResolvesTo(d, regFrom[d])
              /\ stage[d] = "telemetry" /\ call[d] = "answered" /\ answer[d] \in Addrs =>
                    at[answer[d]] = regFrom[d]
              /\ stage[d] \in {"fetched", "stored"} => telFrom[d] = deviceID[d]

\* What polls rely on while a host resolves.
IInv == TypeOK /\ IdTypeOK /\ PollInv

\* It holds when the hub starts.
LEMMA IInvInit == IdInit => IInv
BY TypeInit, IdTypeInit DEF IdInit, IInv, PollInv

\* A unit that moves, or a host that is reported elsewhere, marks every poll
\* under way.
LEMMA NetworkStep ==
    ASSUME IInv, NEW a \in Addrs,
           \/ \E u \in Units \union {None} : Move(a, u)
           \/ \E h \in Hosts : Report(h, a)
    PROVE  PollInv'
<1> USE HostOfAssumption, AddrsAssumption DEF IInv, TypeOK, IdTypeOK, PollInv, ResolvesTo
<1>1. ASSUME NEW u \in Units \union {None}, Move(a, u) PROVE PollInv'
  BY <1>1 DEF Move, vars, storeVars, callVars
<1>2. ASSUME NEW h \in Hosts, Report(h, a) PROVE PollInv'
  BY <1>2 DEF Report, HandleResolve, callVars
<1> QED
  BY <1>1, <1>2

\* Registering and removing devices leaves the hosts of the others alone.
LEMMA StoreStep ==
    ASSUME IInv, NEW e \in Devices,
           MakeNode(e) \/ NodeStopped(e) \/ Unfollowed(e)
    PROVE  PollInv'
<1> USE HostOfAssumption, AddrsAssumption
    DEF IInv, TypeOK, IdTypeOK, PollInv, ResolvesTo, storeVars, callVars, pollVars
<1>1. CASE MakeNode(e)
  BY <1>1 DEF MakeNode, Register, Add, OwnHost
<1>2. CASE NodeStopped(e)
  BY <1>2 DEF NodeStopped, Unregistered
<1>3. CASE Unregister(e) /\ UNCHANGED <<at, pollVars>>
  BY <1>3 DEF Unregister, Remove, OwnHost
<1>4. CASE Look(e) /\ UNCHANGED <<at, pollVars>>
  BY <1>4 DEF Look, Found, Answer
<1>5. CASE (WaitToken(e) \/ LookAgain(e)) /\ UNCHANGED <<at, pollVars>>
  BY <1>5 DEF WaitToken, LookAgain, Found, Answer
<1>6. CASE WaitTimeout(e) /\ UNCHANGED <<at, pollVars>>
  BY <1>6 DEF WaitTimeout, Answer
<1>7. CASE (Resolve(e) \/ Return(e)) /\ UNCHANGED <<at, pollVars>>
  BY <1>7 DEF Resolve, Return
<1> QED
  BY <1>1, <1>2, <1>3, <1>4, <1>5, <1>6, <1>7 DEF Unfollowed

\* A poll proceeds by what the hosts resolve to.
LEMMA PollsStep ==
    ASSUME IInv, NEW d \in Polled, PollStep(d)
    PROVE  PollInv'
<1> USE HostOfAssumption, AddrsAssumption, PolledAssumption
    DEF IInv, TypeOK, IdTypeOK, PollInv, ResolvesTo, Enter, pollVars, storeVars, callVars
<1>1. CASE PollBegin(d)
  BY <1>1 DEF PollBegin, Resolve
<1>2. CASE FetchFails(d)
  BY <1>2 DEF FetchFails, End, Return
<1>3. CASE TelemetryBegin(d)
  BY <1>3 DEF TelemetryBegin, Resolve
<1>4. ASSUME NEW u \in Units, FetchRegistration(d, u) PROVE PollInv'
  BY <1>4 DEF FetchRegistration, Responds, ParseDeviceID, Return
<1>5. ASSUME NEW u \in Units, FetchTelemetry(d, u) PROVE PollInv'
  BY <1>5 DEF FetchTelemetry, Responds, Return
<1>6. CASE SyncBegin(d) \/ SyncReturn(d)
  BY <1>6 DEF SyncBegin, SyncReturn, Resolve, Return
<1>7. CASE SyncEnd(d)
  BY <1>7 DEF SyncEnd, End, vars
<1>8. CASE HandleRegistration(d)
  BY <1>8 DEF HandleRegistration, End, vars
<1>9. CASE HandleTelemetry(d)
  BY <1>9 DEF HandleTelemetry, End, vars
<1> QED
  BY <1>1, <1>2, <1>3, <1>4, <1>5, <1>6, <1>7, <1>8, <1>9 DEF PollStep

\* Every step preserves it.
LEMMA IInvStep == IInv /\ [IdNext]_idVars => IInv'
<1> SUFFICES ASSUME IInv, [IdNext]_idVars PROVE IInv'
  OBVIOUS
<1>1. TypeOK' /\ IdTypeOK'
  BY TypeStep, IdTypeStep, IdStepRefines DEF IInv
<1>2. PollInv'
  <2>1. CASE UNCHANGED idVars
    BY <2>1 DEF IInv, PollInv, ResolvesTo, idVars, pollVars, vars, storeVars, callVars
  <2> QED
    BY <2>1, NetworkStep, StoreStep, PollsStep DEF IdNext
<1> QED
  BY <1>1, <1>2 DEF IInv

-----------------------------------------------------------------------------
(* The theorems.                                                           *)

\* Every variable of the polls keeps its type.
THEOREM IdTypeCorrect == IdSpec => []IdTypeOK
BY IdTypeInit, IdTypeStep, PTL DEF IdSpec

\* Registration data is stored under the ID of the unit it is from, whoever
\* shares hosts; and so is telemetry when nothing moved during the poll and
\* nobody else has the host of the device (poll_device.go, Run).
OwnRecordsOfOwner ==
    \A d \in Devices :
        stage[d] \in {"fetched", "stored"} =>
            /\ regFrom[d] = deviceID[d]
            /\ telFrom[d] # deviceID[d] => moved[d] \/ ~OwnHost(d)

THEOREM OwnRecordsAreOfOwner == IdSpec => []OwnRecordsOfOwner
<1>1. IInv => OwnRecordsOfOwner
  BY DEF IInv, IdTypeOK, PollInv, OwnRecordsOfOwner
<1> QED
  BY <1>1, IInvInit, IInvStep, PTL DEF IdSpec

\* Without sharing, that holds of every device.
THEOREM RecordsAreOfOwner ==
    ASSUME OwnHosts
    PROVE  IdSpec => []RecordsOfOwner
<1>1. OwnRecordsOfOwner => RecordsOfOwner
  BY OwnHosts DEF OwnHosts, OwnRecordsOfOwner, RecordsOfOwner
<1> QED
  BY OwnRecordsAreOfOwner, <1>1, PTL

\* A listed ID is the one records are stored under, and a device without a
\* node does not poll.
HolderInv ==
    \A d \in Devices :
        /\ holderID[d] \in {None, deviceID[d]}
        /\ stage[d] # "idle" => node[d] # "none"
        /\ stage[d] \in {"registered", "telemetry", "fetched", "stored"} => deviceID[d] # None

\* It holds when the hub starts.
LEMMA HolderInit == IdInit => HolderInv
BY DEF IdInit, HolderInv

\* One step of the poll of d, or of its node, changes IDs as IdIsStable says.
StableStep ==
    \A d \in Devices :
        node[d] # "none" =>
            /\ deviceID[d] # None => deviceID'[d] = deviceID[d]
            /\ holderID'[d] \in {holderID[d], deviceID'[d]}
            /\ holderID[d] # None => holderID'[d] = holderID[d]

\* Every step preserves the invariant, and changes no ID that is set.
LEMMA HolderStep ==
    TypeOK /\ IdTypeOK /\ HolderInv /\ [IdNext]_idVars => HolderInv' /\ StableStep
<1> SUFFICES ASSUME TypeOK, IdTypeOK, HolderInv, [IdNext]_idVars
             PROVE  HolderInv' /\ StableStep
  OBVIOUS
<1> USE UnitsAssumption, PolledAssumption
    DEF TypeOK, IdTypeOK, Stages, HolderInv, StableStep, Enter, pollVars, storeVars, callVars
<1>1. ASSUME NEW a \in Addrs, NEW u \in Units \union {None}, Move(a, u)
      PROVE  HolderInv' /\ StableStep
  BY <1>1 DEF Move, vars
<1>2. ASSUME NEW h \in Hosts, NEW a \in Addrs, Report(h, a) PROVE HolderInv' /\ StableStep
  BY <1>2 DEF Report, HandleResolve
<1>3. ASSUME NEW d \in Devices, MakeNode(d) PROVE HolderInv' /\ StableStep
  BY <1>3 DEF MakeNode, Register
<1>4. ASSUME NEW d \in Devices, NodeStopped(d) \/ Unfollowed(d) PROVE HolderInv' /\ StableStep
  BY <1>4 DEF NodeStopped, Unregistered, Unfollowed, Unregister, Look, WaitToken, LookAgain,
              WaitTimeout, Resolve, Return
<1>5. ASSUME NEW d \in Polled, PollStep(d) PROVE HolderInv' /\ StableStep
  <2>1. CASE PollBegin(d) \/ TelemetryBegin(d) \/ SyncBegin(d)
    BY <2>1 DEF PollBegin, TelemetryBegin, SyncBegin, Resolve
  <2>2. CASE FetchFails(d) \/ SyncReturn(d)
    BY <2>2 DEF FetchFails, SyncReturn, End, Return
  <2>3. ASSUME NEW u \in Units, FetchRegistration(d, u) PROVE HolderInv' /\ StableStep
    BY <2>3 DEF FetchRegistration, ParseDeviceID, Return
  <2>4. ASSUME NEW u \in Units, FetchTelemetry(d, u) PROVE HolderInv' /\ StableStep
    BY <2>4 DEF FetchTelemetry, Return
  <2>5. CASE SyncEnd(d) \/ HandleTelemetry(d)
    BY <2>5 DEF SyncEnd, HandleTelemetry, End, vars
  <2>6. CASE HandleRegistration(d)
    BY <2>6 DEF HandleRegistration, End, vars
  <2> QED
    BY <1>5, <2>1, <2>2, <2>3, <2>4, <2>5, <2>6 DEF PollStep
<1>6. CASE UNCHANGED idVars
  BY <1>6 DEF idVars, vars
<1> QED
  BY <1>1, <1>2, <1>3, <1>4, <1>5, <1>6 DEF IdNext

\* While a device is registered, neither the ID its records are stored under
\* nor the one GetDesc lists ever changes, whoever shares its hostname
\* (poll_device.go, parseDeviceID, and id_holder.go).
THEOREM IDsAreStable == IdSpec => IdIsStable
<1>1. IdInit => TypeOK /\ IdTypeOK /\ HolderInv
  BY TypeInit, IdTypeInit, HolderInit DEF IdInit
<1>2. TypeOK /\ IdTypeOK /\ HolderInv /\ [IdNext]_idVars =>
          (TypeOK /\ IdTypeOK /\ HolderInv)' /\ StableStep
  BY TypeStep, IdTypeStep, IdStepRefines, HolderStep
<1>3. IdSpec => [][StableStep]_idVars
  BY <1>1, <1>2, PTL DEF IdSpec
<1> QED
  BY <1>3 DEF IdIsStable, StableStep

=============================================================================
