--------------------------- MODULE AsyncTaskRunner ---------------------------
(***************************************************************************)
(* syssched.AsyncTaskRunner: one goroutine that runs a task at once, then  *)
(* at every tick and whenever it is awakened, until its context is         *)
(* cancelled or, with ExitOnSuccess, until a run succeeds.                 *)
(*                                                                         *)
(* Awakers are goroutines that change something the task looks at and then *)
(* call Awake (AwakeStore.Add: a new device, for the mDNS browser).        *)
(* Stoppers call Stop.  The task is opaque: a run ends with nil, with an   *)
(* error, or with a panic that CrashTask recovers.                         *)
(***************************************************************************)
CONSTANTS
    Awakers,        \* goroutines that call Awake
    Stoppers        \* goroutines that call Stop

VARIABLES
    exitOnSuccess,  \* params.ExitOnSuccess
    pc,             \* where the goroutine is
    tick,           \* a tick waits in ticker.C
    awakeCh,        \* a token waits in awakeCh, which holds one
    cancelled,      \* ctx is done
    doneCh,         \* doneCh is closed
    awaker,         \* each awaker: "idle", or "changed" before its Awake
    stopper,        \* each stopper: "idle", "waiting" in Stop, "returned"
    unseen,         \* history: awakers whose last change no run has started after
    succeeded       \* history: a run of the task itself returned nil

vars == <<exitOnSuccess, pc, tick, awakeCh, cancelled, doneCh, awaker, stopper, unseen,
          succeeded>>

Init ==
    /\ exitOnSuccess \in BOOLEAN
    /\ pc = "new"
    /\ tick = FALSE /\ awakeCh = FALSE /\ cancelled = FALSE /\ doneCh = FALSE
    /\ awaker = [a \in Awakers |-> "idle"]
    /\ stopper = [s \in Stoppers |-> "idle"]
    /\ unseen = {} /\ succeeded = FALSE

\* A run of the task starts: it sees every change made so far.
BeginTask == pc' = "task" /\ unseen' = {}

\* Start creates the goroutine, whose first act is to run the task.
Start ==
    /\ pc = "new"
    /\ BeginTask
    /\ UNCHANGED <<exitOnSuccess, tick, awakeCh, cancelled, doneCh, awaker, stopper, succeeded>>

\* The goroutine returns: the deferred close of doneCh runs.
ReturnDone == pc' = "exited" /\ doneCh' = TRUE

\* runTask after a nil result: true, and run returns, with ExitOnSuccess.
AfterNil ==
    IF exitOnSuccess THEN ReturnDone ELSE pc' = "select" /\ UNCHANGED doneCh

TaskOk ==
    /\ pc = "task"
    /\ AfterNil
    /\ succeeded' = TRUE
    /\ UNCHANGED <<exitOnSuccess, tick, awakeCh, cancelled, awaker, stopper, unseen>>

\* The error goes to the handler, and the goroutine goes on.
TaskError ==
    /\ pc = "task"
    /\ pc' = "select"
    /\ UNCHANGED <<exitOnSuccess, tick, awakeCh, cancelled, doneCh, awaker, stopper, unseen,
                   succeeded>>

\* CrashTask.Run recovers and returns its zero result: nil.
TaskPanic ==
    /\ pc = "task"
    /\ AfterNil
    /\ UNCHANGED <<exitOnSuccess, tick, awakeCh, cancelled, awaker, stopper, unseen, succeeded>>

\* The three cases of select: Go picks any that is ready.
SelectTick ==
    /\ pc = "select" /\ tick
    /\ tick' = FALSE
    /\ BeginTask
    /\ UNCHANGED <<exitOnSuccess, awakeCh, cancelled, doneCh, awaker, stopper, succeeded>>

SelectAwake ==
    /\ pc = "select" /\ awakeCh
    /\ awakeCh' = FALSE
    /\ BeginTask
    /\ UNCHANGED <<exitOnSuccess, tick, cancelled, doneCh, awaker, stopper, succeeded>>

\* Mutant: a tick or a token is preferred to ctx.Done().
SelectDoneIdle ==
    /\ pc = "select" /\ cancelled /\ ~tick /\ ~awakeCh
    /\ ReturnDone
    /\ UNCHANGED <<exitOnSuccess, tick, awakeCh, cancelled, awaker, stopper, unseen, succeeded>>

SelectDone ==
    /\ pc = "select" /\ cancelled
    /\ ReturnDone
    /\ UNCHANGED <<exitOnSuccess, tick, awakeCh, cancelled, awaker, stopper, unseen, succeeded>>

\* The ticker drops a tick nobody has taken.  It runs from Start to the return.
Tick ==
    /\ pc \in {"task", "select"}
    /\ tick' = TRUE
    /\ UNCHANGED <<exitOnSuccess, pc, awakeCh, cancelled, doneCh, awaker, stopper, unseen,
                   succeeded>>

\* An awaker makes its change (AwakeStore.Add: the inner store's Add returns).
Change(a) ==
    /\ awaker[a] = "idle"
    /\ awaker' = [awaker EXCEPT ![a] = "changed"]
    /\ unseen' = unseen \union {a}
    /\ UNCHANGED <<exitOnSuccess, pc, tick, awakeCh, cancelled, doneCh, stopper, succeeded>>

\* Mutant: the channel has no buffer, so a busy goroutine misses the token.
SendUnbuffered == awakeCh' = (pc = "select" \/ awakeCh)

\* A send that finds a token in the channel is dropped.
Send == awakeCh' = TRUE

Awake(a) ==
    /\ awaker[a] = "changed"
    /\ awaker' = [awaker EXCEPT ![a] = "idle"]
    /\ Send
    /\ UNCHANGED <<exitOnSuccess, pc, tick, cancelled, doneCh, stopper, unseen, succeeded>>

\* The owner cancels the context, before it calls Stop or not at all.
Cancel ==
    /\ ~cancelled
    /\ cancelled' = TRUE
    /\ UNCHANGED <<exitOnSuccess, pc, tick, awakeCh, doneCh, awaker, stopper, unseen, succeeded>>

StopCall(s) ==
    /\ stopper[s] = "idle"
    /\ stopper' = [stopper EXCEPT ![s] = "waiting"]
    /\ UNCHANGED <<exitOnSuccess, pc, tick, awakeCh, cancelled, doneCh, awaker, unseen,
                   succeeded>>

\* Mutant: Stop returns as soon as the context is done.
DoneOrCancelled == doneCh \/ cancelled

\* The receive from doneCh.
Done == doneCh

StopReturn(s) ==
    /\ stopper[s] = "waiting"
    /\ Done
    /\ stopper' = [stopper EXCEPT ![s] = "returned"]
    /\ UNCHANGED <<exitOnSuccess, pc, tick, awakeCh, cancelled, doneCh, awaker, unseen,
                   succeeded>>

EndTask == TaskOk \/ TaskError \/ TaskPanic
Select  == SelectTick \/ SelectAwake \/ SelectDone

Next ==
    \/ Start \/ EndTask \/ Select \/ Tick \/ Cancel
    \/ \E a \in Awakers : Change(a) \/ Awake(a)
    \/ \E s \in Stoppers : StopCall(s) \/ StopReturn(s)

Spec == Init /\ [][Next]_vars

\* Goroutines run and a run of the task ends.  select picks among its ready
\* cases at random, so it does not pass over ctx.Done() for ever.  Nothing
\* makes the ticker, Start, Cancel or a call happen.
Fairness ==
    /\ WF_vars(EndTask) /\ WF_vars(Select) /\ SF_vars(SelectDone)
    /\ \A a \in Awakers : WF_vars(Awake(a))
    /\ \A s \in Stoppers : WF_vars(StopReturn(s))

FairSpec == Spec /\ Fairness

-----------------------------------------------------------------------------
(* Properties.                                                             *)

TypeOK ==
    /\ exitOnSuccess \in BOOLEAN
    /\ pc \in {"new", "task", "select", "exited"}
    /\ tick \in BOOLEAN /\ awakeCh \in BOOLEAN
    /\ cancelled \in BOOLEAN /\ doneCh \in BOOLEAN
    /\ awaker \in [Awakers -> {"idle", "changed"}]
    /\ stopper \in [Stoppers -> {"idle", "waiting", "returned"}]
    /\ unseen \in SUBSET Awakers
    /\ succeeded \in BOOLEAN

\* No wake-up is lost although tokens are merged and dropped: while there is a
\* change that no run has started after, its awaker is still about to call
\* Awake, or the token that will start a run is in the channel.
NoLostAwake ==
    pc # "exited" => \A a \in unseen : awaker[a] = "changed" \/ awakeCh

\* Once any Stop has returned the goroutine is gone: no run of the task is
\* under way, and none can start.
StopIsFinal == (\E s \in Stoppers : stopper[s] = "returned") => pc = "exited"

\* A change made while the runner lives is followed by a run, without the
\* help of the ticker, unless the runner is told or allowed to end first.
ChangeIsSeen ==
    \A a \in Awakers :
        (a \in unseen /\ pc \in {"task", "select"}) ~> (a \notin unseen \/ pc = "exited")

\* Cancelling the context of a started runner makes every Stop return, however
\* many ticks and wake-ups compete with ctx.Done() in select.
CancelEndsStop ==
    \A s \in Stoppers :
        (stopper[s] = "waiting" /\ cancelled /\ pc # "new") ~> (stopper[s] = "returned")

\* With ExitOnSuccess the goroutine of a context that is not cancelled ends
\* only after a run that succeeded.
ExitsOnSuccessOnly == pc = "exited" /\ ~cancelled => succeeded

=============================================================================
