-------------------------- MODULE DiscoveryProofs --------------------------
(***************************************************************************)
(* Theorems about Discovery, for any number of services, awakers and       *)
(* stoppers.                                                               *)
(***************************************************************************)
EXTENDS Discovery, AsyncTaskRunnerProofs

\* A step of Discovery is one of the runner and its users, or leaves them.
LEMMA DiscStepRefines == [DiscNext]_discVars => [Next]_vars
<1> SUFFICES ASSUME [DiscNext]_discVars PROVE [Next]_vars
  OBVIOUS
<1> USE BrowserAssumption DEF Next
<1>1. CASE Browse
  BY <1>1 DEF Browse, Select
<1>2. CASE BrowseEnd
  BY <1>2 DEF BrowseEnd
<1>3. CASE Other
  BY <1>3 DEF Other, Select
<1>4. ASSUME NEW s \in Services, HandleEntry(s) PROVE [Next]_vars
  BY <1>4 DEF HandleEntry, AddFound, Added
<1>5. ASSUME NEW s \in Services, Remove(s) PROVE [Next]_vars
  BY <1>5 DEF Remove
<1>6. ASSUME NEW s \in Services, NEW a \in Awakers, Add(a, s) PROVE [Next]_vars
  BY <1>6 DEF Add, Added
<1>7. CASE UNCHANGED discVars
  BY <1>7 DEF discVars
<1> QED
  BY <1>1, <1>2, <1>3, <1>4, <1>5, <1>6, <1>7 DEF DiscNext

\* The browser and the store use the runner as AsyncTaskRunner says: what is
\* proved of AsyncTaskRunner holds of Discovery.
THEOREM DiscoveryUsesRunner == DiscSpec => Spec
<1>1. DiscInit => Init
  BY DEF DiscInit
<1> QED
  BY <1>1, DiscStepRefines, PTL DEF DiscSpec, Spec

\* Awaited as in UnresolvedIsAwaited, with what is known of the runner.
DiscInv == IInv /\ DiscTypeOK /\ UnresolvedIsAwaited

\* It holds before the browser is started.
LEMMA DiscInitInv == DiscInit => DiscInv
BY InitInv DEF DiscInit, Init, DiscInv, DiscTypeOK, UnresolvedIsAwaited

\* Every step keeps the devices without an address awaited.
LEMMA AwaitedStep == DiscInv /\ [DiscNext]_discVars => DiscTypeOK' /\ UnresolvedIsAwaited'
<1> SUFFICES ASSUME DiscInv, [DiscNext]_discVars PROVE DiscTypeOK' /\ UnresolvedIsAwaited'
  OBVIOUS
<1> USE BrowserAssumption DEF DiscInv, IInv, TypeOK, DiscTypeOK, UnresolvedIsAwaited
<1>1. CASE Browse
  BY <1>1 DEF Browse, Start, SelectTick, SelectAwake, BeginTask
<1>2. CASE BrowseEnd
  BY <1>2 DEF BrowseEnd, EndTask, TaskOk, TaskError, TaskPanic, AfterNil, ReturnDone
<1>3. CASE (SelectDone \/ Tick \/ Cancel) /\ UNCHANGED netVars
  BY <1>3 DEF SelectDone, ReturnDone, Tick, Cancel, netVars
<1>4. ASSUME NEW a \in Awakers, Awake(a), UNCHANGED netVars
      PROVE  DiscTypeOK' /\ UnresolvedIsAwaited'
  BY <1>4 DEF Awake, Send, netVars
<1>5. ASSUME NEW s \in Stoppers, StopCall(s) \/ StopReturn(s), UNCHANGED netVars
      PROVE  DiscTypeOK' /\ UnresolvedIsAwaited'
  BY <1>5 DEF StopCall, StopReturn, netVars
<1>6. ASSUME NEW s \in Services, HandleEntry(s) PROVE DiscTypeOK' /\ UnresolvedIsAwaited'
  <2>1. DiscTypeOK'
    BY <1>6 DEF HandleEntry, HandleResolve, AddFound, Added
  <2>2. CASE AddFound(s)
    <3>1. awaker'[Browser] = "changed"
      BY <2>2 DEF AddFound, Added, Change
    <3> QED
      BY <2>1, <3>1
  <2>3. CASE UNCHANGED <<registered, vars>>
    BY <1>6, <2>1, <2>3 DEF HandleEntry, HandleResolve, vars
  <2> QED
    BY <1>6, <2>2, <2>3 DEF HandleEntry
<1>7. ASSUME NEW s \in Services, Remove(s) PROVE DiscTypeOK' /\ UnresolvedIsAwaited'
  BY <1>7 DEF Remove, vars
<1>8. ASSUME NEW s \in Services, NEW a \in Awakers, Add(a, s)
      PROVE  DiscTypeOK' /\ UnresolvedIsAwaited'
  BY <1>8 DEF Add, Added, Change
<1>9. CASE UNCHANGED discVars
  BY <1>9 DEF discVars, netVars, vars
<1> QED
  BY <1>1, <1>2, <1>3, <1>4, <1>5, <1>6, <1>7, <1>8, <1>9 DEF DiscNext, Other

\* The invariant holds in every reachable state.
LEMMA DiscInvariant == DiscSpec => []DiscInv
<1>1. DiscInv /\ [DiscNext]_discVars => DiscInv'
  BY StepInv, DiscStepRefines, AwaitedStep DEF DiscInv
<1> QED
  BY DiscInitInv, <1>1, PTL DEF DiscSpec

\* No registered device depends on the ticker for its address
\* (awake_store.go, Add; fanout_service_handler.go; zeroconf_browser.go, Run).
THEOREM AddedAreAwaited == DiscSpec => []UnresolvedIsAwaited
BY DiscInvariant, PTL DEF DiscInv

\* Every variable of the browser, its runner and its devices keeps its type
\* (zeroconf_browser.go, awake_store.go).
THEOREM DiscTypeCorrect == DiscSpec => [](TypeOK /\ DiscTypeOK)
BY DiscInvariant, PTL DEF DiscInv, IInv

=============================================================================
