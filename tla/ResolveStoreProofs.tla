------------------------- MODULE ResolveStoreProofs -------------------------
(***************************************************************************)
(* Theorems about ResolveStore, for any hosts, addresses and devices.      *)
(* LiveHostsAreKnown and AnswersWereHeard need every device to have a      *)
(* hostname of its own: the store does not count how many devices a        *)
(* hostname was added for, and the run resolve_shared shows what happens   *)
(* when two share one.                                                     *)
(***************************************************************************)
EXTENDS ResolveStore, TLAPS

\* The types hold when the hub starts.
LEMMA TypeInit == Init => TypeOK
BY DEF Init, TypeOK

\* Every step preserves the types.
LEMMA TypeStep == TypeOK /\ [Next]_vars => TypeOK'
<1> SUFFICES ASSUME TypeOK, [Next]_vars PROVE TypeOK'
  OBVIOUS
<1> USE HostOfAssumption DEF TypeOK, storeVars, callVars
<1>1. ASSUME NEW h \in Hosts, NEW a \in Addrs, HandleResolve(h, a) PROVE TypeOK'
  BY <1>1 DEF HandleResolve
<1>2. ASSUME NEW d \in Devices, Register(d) PROVE TypeOK'
  BY <1>2 DEF Register, Add
<1>3. ASSUME NEW d \in Devices, Unregister(d) PROVE TypeOK'
  BY <1>3 DEF Unregister, Remove
<1>4. ASSUME NEW d \in Devices, Unregistered(d) PROVE TypeOK'
  BY <1>4 DEF Unregistered
<1>5. ASSUME NEW d \in Devices, Resolve(d) PROVE TypeOK'
  BY <1>5 DEF Resolve
<1>6. ASSUME NEW d \in Devices, Look(d) PROVE TypeOK'
  BY <1>6 DEF Look, Found, Answer
<1>7. ASSUME NEW d \in Devices, WaitToken(d) \/ LookAgain(d) PROVE TypeOK'
  BY <1>7 DEF WaitToken, LookAgain, Found, Answer
<1>8. ASSUME NEW d \in Devices, WaitTimeout(d) PROVE TypeOK'
  BY <1>8 DEF WaitTimeout, Answer
<1>9. ASSUME NEW d \in Devices, Return(d) PROVE TypeOK'
  BY <1>9 DEF Return
<1>10. CASE UNCHANGED vars
  BY <1>10 DEF vars
<1> QED
  BY <1>1, <1>2, <1>3, <1>4, <1>5, <1>6, <1>7, <1>8, <1>9, <1>10 DEF Next

\* Every step keeps the cached addresses among those heard since registration.
LEMMA CachedStep == TypeOK /\ CachedWasHeard /\ [Next]_vars => CachedWasHeard'
<1> SUFFICES ASSUME TypeOK, CachedWasHeard, [Next]_vars PROVE CachedWasHeard'
  OBVIOUS
<1> USE HostOfAssumption DEF TypeOK, CachedWasHeard, storeVars, callVars
<1>1. ASSUME NEW h \in Hosts, NEW a \in Addrs, HandleResolve(h, a) PROVE CachedWasHeard'
  BY <1>1 DEF HandleResolve
<1>2. ASSUME NEW d \in Devices, Register(d) PROVE CachedWasHeard'
  BY <1>2 DEF Register, Add
<1>3. ASSUME NEW d \in Devices, Unregister(d) PROVE CachedWasHeard'
  BY <1>3 DEF Unregister, Remove
<1>4. ASSUME NEW d \in Devices,
             Unregistered(d) \/ Resolve(d) \/ Look(d) \/ WaitToken(d) \/ LookAgain(d)
             \/ WaitTimeout(d) \/ Return(d)
      PROVE  CachedWasHeard'
  BY <1>4 DEF Unregistered, Resolve, Look, WaitToken, LookAgain, WaitTimeout, Return
<1>5. CASE UNCHANGED vars
  BY <1>5 DEF vars
<1> QED
  BY <1>1, <1>2, <1>3, <1>4, <1>5 DEF Next

\* Both hold in every reachable state: CachedWasHeard is inductive with the types.
LEMMA CachedInvariant == Spec => [](TypeOK /\ CachedWasHeard)
<1>1. Init => CachedWasHeard
  BY DEF Init, CachedWasHeard
<1> QED
  BY TypeInit, TypeStep, <1>1, CachedStep, PTL DEF Spec

\* No address outlives the registration it was heard in (resolve_store.go,
\* Add, Remove and HandleResolve), even when devices share hostnames.
THEOREM CacheIsFresh == Spec => []CachedWasHeard
BY CachedInvariant, PTL

\* No other device has the hostname of d.
OwnHost(d) == \A e \in Devices : HostOf[e] = HostOf[d] => e = d

\* What others share does not matter to a device whose own hostname nobody
\* shares: it is listened for as long as it lives (cache_store.go,
\* makeHTTPClient).
OwnHostIsKnown ==
    \A d \in Devices : OwnHost(d) /\ node[d] = "live" => HostOf[d] \in knownHosts

THEOREM OwnHostsAreKnown == Spec => []OwnHostIsKnown
<1>1. Init => OwnHostIsKnown
  BY DEF Init, OwnHostIsKnown
<1>2. TypeOK /\ OwnHostIsKnown /\ [Next]_vars => OwnHostIsKnown'
  <2> SUFFICES ASSUME TypeOK, OwnHostIsKnown, [Next]_vars,
                      NEW d \in Devices, OwnHost(d), node'[d] = "live"
               PROVE  HostOf[d] \in knownHosts'
    BY DEF OwnHostIsKnown, OwnHost
  <2>0. node[d] = "live" => HostOf[d] \in knownHosts
    BY DEF OwnHostIsKnown
  <2> USE <2>0, HostOfAssumption DEF TypeOK, storeVars, callVars
  <2>1. ASSUME NEW h \in Hosts, NEW a \in Addrs, HandleResolve(h, a)
        PROVE  HostOf[d] \in knownHosts'
    BY <2>1 DEF HandleResolve
  <2>2. ASSUME NEW e \in Devices, Register(e) PROVE HostOf[d] \in knownHosts'
    BY <2>2 DEF Register, Add
  <2>3. ASSUME NEW e \in Devices, Unregister(e) PROVE HostOf[d] \in knownHosts'
    BY <2>3 DEF Unregister, Remove, OwnHost
  <2>4. ASSUME NEW e \in Devices,
               \/ Unregistered(e) \/ Resolve(e) \/ Look(e)
               \/ WaitToken(e) \/ LookAgain(e) \/ WaitTimeout(e) \/ Return(e)
        PROVE  HostOf[d] \in knownHosts'
    BY <2>4 DEF Unregistered, Resolve, Look, WaitToken, LookAgain, WaitTimeout, Return
  <2>5. CASE UNCHANGED vars
    BY <2>5 DEF vars
  <2> QED
    BY <2>1, <2>2, <2>3, <2>4, <2>5 DEF Next
<1> QED
  BY TypeInit, TypeStep, <1>1, <1>2, PTL DEF Spec

\* No two devices have the same hostname.
OwnHosts == \A d \in Devices : OwnHost(d)

\* Without sharing, a device is listened for from its registration to its
\* removal (cache_store.go, makeHTTPClient).
THEOREM LiveHostsAreKnown ==
    ASSUME OwnHosts
    PROVE  Spec => []LiveIsKnown
<1>1. OwnHostIsKnown => LiveIsKnown
  BY OwnHosts DEF OwnHosts, OwnHostIsKnown, LiveIsKnown
<1> QED
  BY OwnHostsAreKnown, <1>1, PTL

\* A call has an answer only when it has ended, and only a node makes calls.
CallInv ==
    \A d \in Devices :
        /\ node[d] = "none" => call[d] = "idle"
        /\ call[d] # "answered" => answer[d] = "none"

\* What others share does not matter here either: no request of a device that
\* stays registered goes to an address that was not reported for its host, if
\* nobody else has that host (resolve_store.go, Resolve, getAddr, waitAddr).
OwnAnswerWasHeard ==
    \A d \in Devices :
        OwnHost(d) /\ node[d] = "live" /\ HostOf[d] \in knownHosts /\ answer[d] \in Addrs
            => answer[d] \in heard[HostOf[d]]

THEOREM OwnAnswersWereHeard == Spec => []OwnAnswerWasHeard
<1> DEFINE Inv == TypeOK /\ CachedWasHeard /\ CallInv /\ OwnAnswerWasHeard
<1>1. Init => CallInv /\ OwnAnswerWasHeard
  BY AddrsAssumption DEF Init, CallInv, OwnAnswerWasHeard
<1>2. Inv /\ [Next]_vars => CallInv' /\ OwnAnswerWasHeard'
  <2> SUFFICES ASSUME Inv, [Next]_vars PROVE CallInv' /\ OwnAnswerWasHeard'
    OBVIOUS
  <2> USE HostOfAssumption, AddrsAssumption DEF TypeOK, CallInv, OwnAnswerWasHeard, storeVars, callVars
  <2>1. ASSUME NEW h \in Hosts, NEW a \in Addrs, HandleResolve(h, a)
        PROVE  CallInv' /\ OwnAnswerWasHeard'
    BY <2>1 DEF HandleResolve
  <2>2. ASSUME NEW d \in Devices, Register(d) PROVE CallInv' /\ OwnAnswerWasHeard'
    BY <2>2 DEF Register, Add, OwnHost
  <2>3. ASSUME NEW d \in Devices, Unregister(d) PROVE CallInv' /\ OwnAnswerWasHeard'
    BY <2>3 DEF Unregister, Remove, OwnHost
  <2>4. ASSUME NEW d \in Devices, Unregistered(d) PROVE CallInv' /\ OwnAnswerWasHeard'
    BY <2>4 DEF Unregistered
  <2>5. ASSUME NEW d \in Devices, Resolve(d) PROVE CallInv' /\ OwnAnswerWasHeard'
    BY <2>5 DEF Resolve
  <2>6. ASSUME NEW d \in Devices, Look(d) PROVE CallInv' /\ OwnAnswerWasHeard'
    BY <2>6 DEF Look, Found, Answer, CachedWasHeard
  <2>7. ASSUME NEW d \in Devices, WaitToken(d) \/ LookAgain(d) PROVE CallInv' /\ OwnAnswerWasHeard'
    BY <2>7 DEF WaitToken, LookAgain, Found, Answer, CachedWasHeard
  <2>8. ASSUME NEW d \in Devices, WaitTimeout(d) PROVE CallInv' /\ OwnAnswerWasHeard'
    BY <2>8 DEF WaitTimeout, Answer
  <2>9. ASSUME NEW d \in Devices, Return(d) PROVE CallInv' /\ OwnAnswerWasHeard'
    BY <2>9 DEF Return
  <2>10. CASE UNCHANGED vars
    BY <2>10 DEF vars
  <2> QED
    BY <2>1, <2>2, <2>3, <2>4, <2>5, <2>6, <2>7, <2>8, <2>9, <2>10 DEF Next
<1>3. Inv /\ [Next]_vars => Inv'
  BY <1>2, TypeStep, CachedStep
<1>4. Init => Inv
  BY <1>1, TypeInit DEF Init, CachedWasHeard
<1> QED
  BY <1>3, <1>4, PTL DEF Spec

\* Without sharing, no request of a live device goes to an address that was
\* not reported for its host.
THEOREM AnswersWereHeard ==
    ASSUME OwnHosts
    PROVE  Spec => []AnswerWasHeard
<1>1. OwnAnswerWasHeard => AnswerWasHeard
  BY OwnHosts DEF OwnHosts, OwnAnswerWasHeard, AnswerWasHeard
<1> QED
  BY OwnAnswersWereHeard, <1>1, PTL

\* Every variable of the resolve store, of its devices and of the calls of
\* Resolve keeps its type (resolve_store.go).
THEOREM TypeCorrect == Spec => []TypeOK
BY CachedInvariant, PTL

=============================================================================
