---------------------------- MODULE ResolveStore ----------------------------
(***************************************************************************)
(* sysnet.ResolveStore and its users: the device store registers the mDNS  *)
(* hostname of every ".local" device it makes a client for and removes it  *)
(* when the device's node stops (CacheStore.makeHTTPClient); the device's  *)
(* HTTP client resolves the hostname before each request                   *)
(* (httransport.ResolveRoundTripper); the mDNS browser reports the         *)
(* addresses it hears (sysmdns.ResolveServiceHandler).                     *)
(*                                                                         *)
(* Each method of the store is one step under its mutex, except Resolve:   *)
(* it looks, and when it finds nothing it waits for a token in updateCh    *)
(* and looks once more.  The channel holds one token for all waiters.      *)
(***************************************************************************)
EXTENDS Naturals

CONSTANTS
    Hosts,          \* mDNS hostnames
    Addrs,          \* network addresses
    Devices,        \* URIs of devices
    HostOf,         \* the hostname in each URI
    None            \* no address

ASSUME HostOfAssumption == HostOf \in [Devices -> Hosts]
ASSUME AddrsAssumption == Addrs \intersect {None, "none", "nodata", "timeout"} = {}

VARIABLES
    knownHosts,     \* hostnames the store listens for
    resolvedAddrs,  \* the last address heard of each host
    updateCh,       \* a token waits in updateCh
    node,           \* each device: "none", "live", or "stopping" (see Unregister)
    call,           \* its client's Resolve call: "idle", "look", "wait", "woken", "answered"
    answer,         \* what the call returns: an address, "nodata" or "timeout"
    heard           \* history: addresses of each host reported since it is known

storeVars == <<knownHosts, resolvedAddrs, updateCh>>
callVars  == <<call, answer>>
vars == <<storeVars, node, callVars, heard>>

Init ==
    /\ knownHosts = {}
    /\ resolvedAddrs = [h \in Hosts |-> None]
    /\ updateCh = FALSE
    /\ node = [d \in Devices |-> "none"]
    /\ call = [d \in Devices |-> "idle"]
    /\ answer = [d \in Devices |-> "none"]
    /\ heard = [h \in Hosts |-> {}]

-----------------------------------------------------------------------------
(* ResolveStore.                                                           *)

Add(h) ==
    /\ knownHosts' = knownHosts \union {h}
    /\ UNCHANGED <<resolvedAddrs, updateCh>>
    /\ heard' = IF h \in knownHosts THEN heard ELSE [heard EXCEPT ![h] = {}]

\* Mutant: the cached address survives the host.
RemoveHostOnly(h) ==
    /\ knownHosts' = knownHosts \ {h}
    /\ UNCHANGED <<resolvedAddrs, updateCh>>
    /\ heard' = [heard EXCEPT ![h] = {}]

Remove(h) ==
    /\ knownHosts' = knownHosts \ {h}
    /\ resolvedAddrs' = [resolvedAddrs EXCEPT ![h] = None]
    /\ UNCHANGED updateCh
    /\ heard' = [heard EXCEPT ![h] = {}]

\* Mutant: a host is forgotten as soon as it is resolved.
HandleResolveOnce(h, a) ==
    /\ h \in knownHosts
    /\ resolvedAddrs' = [resolvedAddrs EXCEPT ![h] = a]
    /\ updateCh' = TRUE
    /\ heard' = [heard EXCEPT ![h] = @ \union {a}]
    /\ knownHosts' = knownHosts \ {h}
    /\ UNCHANGED <<node, callVars>>

\* Reports of hosts nobody asked for are dropped, and leave no token.
HandleResolve(h, a) ==
    /\ h \in knownHosts
    /\ resolvedAddrs' = [resolvedAddrs EXCEPT ![h] = a]
    /\ updateCh' = TRUE
    /\ heard' = [heard EXCEPT ![h] = @ \union {a}]
    /\ UNCHANGED <<knownHosts, node, callVars>>

-----------------------------------------------------------------------------
(* The device store.                                                       *)

\* CacheStore.mu is held until the goroutine of a removed device has ended.
StoreFree == \A d \in Devices : node[d] # "stopping"

\* makeNode registers the host; the node goes live, or the write of its
\* record fails: Add then returns with the hostname still registered.
Register(d) ==
    /\ StoreFree
    /\ node[d] = "none"
    /\ Add(HostOf[d])
    /\ \/ node' = [node EXCEPT ![d] = "live"]
       \/ UNCHANGED node
    /\ UNCHANGED callVars

\* storeNode.stop cancels the context and runs the stoppers in the order they
\* were added: the hostname goes first, the goroutine that polls is waited for
\* after, so a poll under way outlives its hostname.
Unregister(d) ==
    /\ StoreFree
    /\ node[d] = "live"
    /\ Remove(HostOf[d])
    /\ node' = [node EXCEPT ![d] = "stopping"]
    /\ UNCHANGED callVars

Unregistered(d) ==
    /\ node[d] = "stopping"
    /\ call[d] = "idle"
    /\ node' = [node EXCEPT ![d] = "none"]
    /\ UNCHANGED <<storeVars, callVars, heard>>

-----------------------------------------------------------------------------
(* Resolve, called by the HTTP client of a device.                         *)

Resolve(d) ==
    /\ node[d] # "none"
    /\ call[d] = "idle"
    /\ call' = [call EXCEPT ![d] = "look"]
    /\ UNCHANGED <<storeVars, node, answer, heard>>

Found(d) == resolvedAddrs[HostOf[d]] # None

Answer(d, r) ==
    /\ answer' = [answer EXCEPT ![d] = r]
    /\ call' = [call EXCEPT ![d] = "answered"]

\* The first look.
Look(d) ==
    /\ call[d] = "look"
    /\ \/ Found(d) /\ Answer(d, resolvedAddrs[HostOf[d]])
       \/ ~Found(d) /\ call' = [call EXCEPT ![d] = "wait"] /\ UNCHANGED answer
    /\ UNCHANGED <<storeVars, node, heard>>

\* The token is taken, whoever it was meant for; the look that follows takes
\* the mutex, so hosts may come and go in between.
WaitToken(d) ==
    /\ call[d] = "wait"
    /\ updateCh
    /\ updateCh' = FALSE
    /\ call' = [call EXCEPT ![d] = "woken"]
    /\ UNCHANGED <<knownHosts, resolvedAddrs, node, answer, heard>>

\* Mutant: the waiter takes the token for the address it waits for.
TrustToken(d) ==
    /\ call[d] = "woken"
    /\ Answer(d, CHOOSE a \in Addrs : TRUE)
    /\ UNCHANGED <<storeVars, node, heard>>

\* The second and last look.
LookAgain(d) ==
    /\ call[d] = "woken"
    /\ Answer(d, IF Found(d) THEN resolvedAddrs[HostOf[d]] ELSE "nodata")
    /\ UNCHANGED <<storeVars, node, heard>>

\* The fetch timeout passes, or the node's context is cancelled.
WaitTimeout(d) ==
    /\ call[d] = "wait"
    /\ Answer(d, "timeout")
    /\ UNCHANGED <<storeVars, node, heard>>

\* The request is sent to the address, or fails.
Return(d) ==
    /\ call[d] = "answered"
    /\ call' = [call EXCEPT ![d] = "idle"]
    /\ answer' = [answer EXCEPT ![d] = "none"]
    /\ UNCHANGED <<storeVars, node, heard>>

Next ==
    \/ \E h \in Hosts, a \in Addrs : HandleResolve(h, a)
    \/ \E d \in Devices :
          \/ Register(d) \/ Unregister(d) \/ Unregistered(d)
          \/ Resolve(d) \/ Look(d) \/ WaitToken(d) \/ LookAgain(d) \/ WaitTimeout(d)
          \/ Return(d)

Spec == Init /\ [][Next]_vars

-----------------------------------------------------------------------------
(* Properties.                                                             *)

TypeOK ==
    /\ knownHosts \in SUBSET Hosts
    /\ resolvedAddrs \in [Hosts -> Addrs \union {None}]
    /\ updateCh \in BOOLEAN
    /\ node \in [Devices -> {"none", "live", "stopping"}]
    /\ call \in [Devices -> {"idle", "look", "wait", "woken", "answered"}]
    /\ answer \in [Devices -> Addrs \union {"none", "nodata", "timeout"}]
    /\ heard \in [Hosts -> SUBSET Addrs]

\* Every cached address was reported since its host was registered: a host
\* that is unknown has none, and one registered again starts from nothing, so
\* no request goes to the address a device had in an earlier registration.
CachedWasHeard == \A h \in Hosts :
    /\ resolvedAddrs[h] # None => h \in knownHosts /\ resolvedAddrs[h] \in heard[h]
    /\ h \notin knownHosts => heard[h] = {}

\* A device that stays registered is sent no request to an address that was
\* never reported for its host: a token left by the report of another host, or
\* by a removed one, does not pass for an answer.
AnswerWasHeard ==
    \A d \in Devices :
        node[d] = "live" /\ HostOf[d] \in knownHosts /\ answer[d] \in Addrs
            => answer[d] \in heard[HostOf[d]]

\* The store listens for the host of every live device, so that its address
\* is found however often it changes.
LiveIsKnown == \A d \in Devices : node[d] = "live" => HostOf[d] \in knownHosts

=============================================================================
