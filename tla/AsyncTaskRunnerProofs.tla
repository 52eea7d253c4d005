----------------------- MODULE AsyncTaskRunnerProofs -----------------------
(***************************************************************************)
(* Theorems about AsyncTaskRunner, for any number of goroutines that       *)
(* awaken it or stop it.                                                   *)
(***************************************************************************)
EXTENDS AsyncTaskRunner, TLAPS

\* doneCh is closed by the goroutine as it returns, and lets Stop return.
DoneInv ==
    /\ doneCh => pc = "exited"
    /\ \A s \in Stoppers : stopper[s] = "returned" => doneCh

IInv == TypeOK /\ DoneInv /\ NoLostAwake

\* The invariant holds before Start.
LEMMA InitInv == Init => IInv
BY DEF Init, IInv, TypeOK, DoneInv, NoLostAwake

\* Every step of the goroutine, its awakers and its stoppers preserves it.
LEMMA StepInv == IInv /\ [Next]_vars => IInv'
<1> SUFFICES ASSUME IInv, [Next]_vars PROVE IInv'
  OBVIOUS
<1> USE DEF IInv, TypeOK, DoneInv, NoLostAwake
<1>1. CASE Start
  BY <1>1 DEF Start, BeginTask
<1>2. CASE TaskOk
  BY <1>2 DEF TaskOk, AfterNil, ReturnDone
<1>3. CASE TaskError
  BY <1>3 DEF TaskError
<1>4. CASE TaskPanic
  BY <1>4 DEF TaskPanic, AfterNil, ReturnDone
<1>5. CASE SelectTick
  BY <1>5 DEF SelectTick, BeginTask
<1>6. CASE SelectAwake
  BY <1>6 DEF SelectAwake, BeginTask
<1>7. CASE SelectDone
  BY <1>7 DEF SelectDone, ReturnDone
<1>8. CASE Tick
  BY <1>8 DEF Tick
<1>9. CASE Cancel
  BY <1>9 DEF Cancel
<1>10. ASSUME NEW a \in Awakers, Change(a) PROVE IInv'
  BY <1>10 DEF Change
<1>11. ASSUME NEW a \in Awakers, Awake(a) PROVE IInv'
  BY <1>11 DEF Awake, Send
<1>12. ASSUME NEW s \in Stoppers, StopCall(s) PROVE IInv'
  BY <1>12 DEF StopCall
<1>13. ASSUME NEW s \in Stoppers, StopReturn(s) PROVE IInv'
  BY <1>13 DEF StopReturn, Done
<1>14. CASE UNCHANGED vars
  BY <1>14 DEF vars
<1> QED
  BY <1>1, <1>2, <1>3, <1>4, <1>5, <1>6, <1>7, <1>8, <1>9, <1>10, <1>11, <1>12, <1>13, <1>14
  DEF Next, EndTask, Select

\* The inductive invariant holds in every reachable state.
LEMMA Invariant == Spec => []IInv
BY InitInv, StepInv, PTL DEF Spec

\* Every variable of the runner and of the goroutines that use it keeps its
\* type (async_task_runner.go).
THEOREM TypeCorrect == Spec => []TypeOK
BY Invariant, PTL DEF IInv

\* The token in awakeCh stands for every change no run has started after,
\* whatever sends were dropped (async_task_runner.go, Awake and run).
THEOREM NoAwakeIsLost == Spec => []NoLostAwake
BY Invariant, PTL DEF IInv

\* When Stop returns the goroutine has returned (async_task_runner.go, Stop
\* and the deferred close of doneCh in run).
THEOREM StopIsTheEnd == Spec => []StopIsFinal
<1>1. IInv => StopIsFinal
  BY DEF IInv, DoneInv, StopIsFinal
<1> QED
  BY Invariant, <1>1, PTL

\* The goroutine of a context that is not cancelled returns only from runTask
\* with ExitOnSuccess, and closes doneCh whenever it returns: no call of Stop
\* waits for a goroutine that is gone.
ExitInv ==
    /\ pc = "exited" => doneCh
    /\ pc = "exited" /\ ~cancelled => exitOnSuccess

LEMMA InitExit == Init => ExitInv
BY DEF Init, ExitInv

LEMMA StepExit == IInv /\ ExitInv /\ [Next]_vars => ExitInv'
<1> SUFFICES ASSUME IInv, ExitInv, [Next]_vars PROVE ExitInv'
  OBVIOUS
<1> USE DEF IInv, TypeOK, ExitInv
<1>1. CASE Start \/ SelectTick \/ SelectAwake
  BY <1>1 DEF Start, SelectTick, SelectAwake, BeginTask
<1>2. CASE TaskOk \/ TaskPanic
  BY <1>2 DEF TaskOk, TaskPanic, AfterNil, ReturnDone
<1>3. CASE TaskError
  BY <1>3 DEF TaskError
<1>4. CASE SelectDone
  BY <1>4 DEF SelectDone, ReturnDone
<1>5. CASE Tick \/ Cancel
  BY <1>5 DEF Tick, Cancel
<1>6. ASSUME NEW a \in Awakers, Change(a) \/ Awake(a) PROVE ExitInv'
  BY <1>6 DEF Change, Awake
<1>7. ASSUME NEW s \in Stoppers, StopCall(s) \/ StopReturn(s) PROVE ExitInv'
  BY <1>7 DEF StopCall, StopReturn
<1>8. CASE UNCHANGED vars
  BY <1>8 DEF vars
<1> QED
  BY <1>1, <1>2, <1>3, <1>4, <1>5, <1>6, <1>7, <1>8 DEF Next, EndTask, Select

\* Without ExitOnSuccess the goroutine lives until its context is cancelled,
\* whatever errors and panics its runs end with, and when it is gone Stop
\* returns at once (async_task_runner.go, run and runTask).
RunsUntilCancelled ==
    pc = "exited" => doneCh /\ (exitOnSuccess \/ cancelled)

THEOREM LivesUntilCancelled == Spec => []RunsUntilCancelled
<1>1. ExitInv => RunsUntilCancelled
  BY DEF ExitInv, RunsUntilCancelled
<1> QED
  BY Invariant, InitExit, StepExit, <1>1, PTL DEF Spec

\* No run of the task starts once any Stop has returned, whoever still wakes
\* the runner: what the owner tears down after Stop is not used any more
\* (async_task_runner.go, Stop).
NoRunAfterStop == [][(\E s \in Stoppers : stopper[s] = "returned") => ~BeginTask]_vars

THEOREM NothingRunsAfterStop == Spec => NoRunAfterStop
<1>1. IInv /\ [Next]_vars => [(\E s \in Stoppers : stopper[s] = "returned") => ~BeginTask]_vars
  <2> SUFFICES ASSUME IInv, Next, NEW s \in Stoppers, stopper[s] = "returned" PROVE ~BeginTask
    OBVIOUS
  <2>1. pc = "exited"
    BY DEF IInv, DoneInv
  <2>2. pc' = "exited"
    BY <2>1 DEF Next, EndTask, Select, Start, TaskOk, TaskError, TaskPanic, SelectTick,
                SelectAwake, SelectDone, Tick, Cancel, Change, Awake, StopCall, StopReturn
  <2> QED
    BY <2>2 DEF BeginTask
<1> QED
  BY Invariant, <1>1, PTL DEF Spec, NoRunAfterStop

\* A recovered panic is the only way to the wrong exit: as long as every
\* panic comes in a step that a success could take as well, a runner with
\* ExitOnSuccess ends only after a run that succeeded (crash_task.go, Run).
THEOREM OnlyPanicsExitEarly ==
    Spec /\ [][TaskPanic => TaskOk]_vars => []ExitsOnSuccessOnly
<1>1. Init => ExitsOnSuccessOnly
  BY DEF Init, ExitsOnSuccessOnly
<1>2. IInv /\ ExitsOnSuccessOnly /\ [Next]_vars /\ [TaskPanic => TaskOk]_vars
        => ExitsOnSuccessOnly'
  <2> SUFFICES ASSUME IInv, ExitsOnSuccessOnly, [Next]_vars, [TaskPanic => TaskOk]_vars
               PROVE  ExitsOnSuccessOnly'
    OBVIOUS
  <2> USE DEF IInv, TypeOK, ExitsOnSuccessOnly
  <2>1. CASE Start \/ SelectTick \/ SelectAwake
    BY <2>1 DEF Start, SelectTick, SelectAwake, BeginTask
  <2>2. CASE TaskOk
    BY <2>2 DEF TaskOk
  <2>3. CASE UNCHANGED vars
    BY <2>3 DEF vars
  <2>4. CASE TaskPanic
    BY <2>2, <2>3, <2>4
  <2>5. CASE TaskError \/ Tick \/ Cancel
    BY <2>5 DEF TaskError, Tick, Cancel
  <2>6. CASE SelectDone
    BY <2>6 DEF SelectDone
  <2>7. ASSUME NEW a \in Awakers, Change(a) \/ Awake(a) PROVE ExitsOnSuccessOnly'
    BY <2>7 DEF Change, Awake
  <2>8. ASSUME NEW s \in Stoppers, StopCall(s) \/ StopReturn(s) PROVE ExitsOnSuccessOnly'
    BY <2>8 DEF StopCall, StopReturn
  <2> QED
    BY <2>1, <2>2, <2>3, <2>4, <2>5, <2>6, <2>7, <2>8 DEF Next, EndTask, Select
<1> QED
  BY Invariant, <1>1, <1>2, PTL DEF Spec

=============================================================================
