----------------------------- MODULE Discovery -----------------------------
(***************************************************************************)
(* How the hub learns the address of a device: the task of the runner is   *)
(* ZeroconfBrowser.Run, which asks the network and hands what it hears to  *)
(* sysmdns.FanoutServiceHandler, first to ResolveServiceHandler and then,  *)
(* with autodiscovery, to StoreMdnsHandler.  The address of a host nobody  *)
(* has registered is dropped, so a device added while, or because, it is   *)
(* reported would stay without one to the next tick: AwakeStore awakens    *)
(* the runner after every Add.                                             *)
(*                                                                         *)
(* The awakers of AsyncTaskRunner are the goroutines that add devices, one *)
(* of them the browser's own.  Every step of the runner is a step of       *)
(* AsyncTaskRunner.  A call of the store is one step (DeviceStore has its  *)
(* inner ones), as is HandleResolve (ResolveStore); every device has a     *)
(* hostname of its own.                                                    *)
(***************************************************************************)
EXTENDS AsyncTaskRunner

CONSTANTS
    Services,       \* devices that announce themselves
    Browser         \* the goroutine of the runner, as an awaker

ASSUME BrowserAssumption == Browser \in Awakers

VARIABLES
    registered,     \* devices in the store: their hosts are known
    resolved,       \* devices whose address is cached
    entries,        \* devices the browse under way has yet to report
    missed          \* history: unresolved devices that a browse did not report

netVars  == <<registered, resolved, entries, missed>>
discVars == <<vars, netVars>>

\* Restored devices are registered before the browser is started.
DiscInit ==
    /\ Init
    /\ registered \in SUBSET Services
    /\ resolved = {} /\ entries = {} /\ missed = {}

-----------------------------------------------------------------------------
(* ZeroconfBrowser.Run.                                                    *)

\* The runner calls Run, which asks every service to answer.
Browse ==
    /\ Start \/ SelectTick \/ SelectAwake
    /\ entries' = Services
    /\ UNCHANGED <<registered, resolved, missed>>

\* Run returns: after the browse timeout, because asking fails, or because the
\* library closes the channel.  Answers that have not come by then are lost.
BrowseEnd ==
    /\ awaker[Browser] = "idle"
    /\ EndTask
    /\ entries' = {}
    /\ missed' = missed \union ((entries \intersect registered) \ resolved)
    /\ UNCHANGED <<registered, resolved>>

\* ResolveServiceHandler wants exactly one address, and the host to be known.
HandleResolve(s, hasAddr) ==
    IF hasAddr /\ s \in registered
    THEN resolved' = resolved \union {s} /\ missed' = missed \ {s}
    ELSE UNCHANGED resolved /\ missed' = missed \union ({s} \intersect (registered \ resolved))

\* AwakeStore.Add: the device is in the store, Awake comes next.
Added(a, s) ==
    /\ registered' = registered \union {s}
    /\ Change(a)

\* Mutant: the mDNS handler adds to the store below AwakeStore.
AddUnnoticed(s) ==
    /\ registered' = registered \union {s}
    /\ UNCHANGED vars

\* StoreMdnsHandler adds to the same store as everybody else.
AddFound(s) == Added(Browser, s)

\* An entry is handled by one handler after the other.  The second adds the
\* device if the entry says so, the device is new, and the Add succeeds.
HandleEntry(s) ==
    /\ pc = "task" /\ awaker[Browser] = "idle"
    /\ s \in entries
    /\ entries' = entries \ {s}
    /\ \E hasAddr \in BOOLEAN : HandleResolve(s, hasAddr)
    /\ \/ s \notin registered /\ AddFound(s)
       \/ UNCHANGED <<registered, vars>>

-----------------------------------------------------------------------------
(* Everybody else.                                                         *)

\* An HTTP handler adds a device.
Add(a, s) ==
    /\ a # Browser
    /\ s \notin registered
    /\ Added(a, s)
    /\ UNCHANGED <<resolved, entries, missed>>

\* A device is removed, by a request or by the monitor, and its host with it.
Remove(s) ==
    /\ s \in registered
    /\ registered' = registered \ {s}
    /\ resolved' = resolved \ {s}
    /\ missed' = missed \ {s}
    /\ UNCHANGED <<entries, vars>>

\* What the runner and its users do besides.
Other ==
    /\ \/ SelectDone \/ Tick \/ Cancel
       \/ \E a \in Awakers : Awake(a)
       \/ \E s \in Stoppers : StopCall(s) \/ StopReturn(s)
    /\ UNCHANGED netVars

DiscNext ==
    \/ Browse \/ BrowseEnd \/ Other
    \/ \E s \in Services :
          \/ HandleEntry(s) \/ Remove(s)
          \/ \E a \in Awakers : Add(a, s)

DiscSpec == DiscInit /\ [][DiscNext]_discVars

\* As in AsyncTaskRunner: a browse ends by its timeout, goroutines run, and
\* select does not pass over ctx.Done() for ever.  Nothing makes the ticker
\* tick, or an answer come.
DiscFairness ==
    /\ WF_discVars(BrowseEnd)
    /\ WF_discVars(Browse \/ (SelectDone /\ UNCHANGED netVars))
    /\ SF_discVars(SelectDone /\ UNCHANGED netVars)
    /\ \A a \in Awakers : WF_discVars(Awake(a) /\ UNCHANGED netVars)
    /\ \A s \in Stoppers : WF_discVars(StopReturn(s) /\ UNCHANGED netVars)

DiscFairSpec == DiscSpec /\ DiscFairness

-----------------------------------------------------------------------------
(* Properties.                                                             *)

DiscTypeOK ==
    /\ registered \in SUBSET Services
    /\ resolved \in SUBSET Services
    /\ entries \in SUBSET Services
    /\ missed \in SUBSET Services

\* A registered device without an address waits for no tick: the browse under
\* way has yet to report it, or another one is certain to follow, because a
\* token waits or whoever added it is about to call Awake; unless a browse
\* has been without its report since it was registered.
UnresolvedIsAwaited ==
    pc \in {"task", "select"} =>
        \A s \in registered \ (resolved \union missed) :
            \/ pc = "task" /\ s \in entries
            \/ awakeCh
            \/ \E a \in Awakers : awaker[a] = "changed"

\* So every registered device gets its address from the browses that hear it,
\* without the help of the ticker.
AddedIsResolved ==
    \A s \in Services :
        (s \in registered /\ pc \in {"task", "select"})
            ~> (s \in resolved \union missed \/ s \notin registered \/ pc = "exited")

=============================================================================
