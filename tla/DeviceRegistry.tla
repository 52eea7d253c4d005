--------------------------- MODULE DeviceRegistry ---------------------------
(***************************************************************************)
(* What the device store promises to its callers: the interface            *)
(* devstore.Store (components/device/devstore/store.go), as a linearizable *)
(* and durable set of device URIs.                                         *)
(*                                                                         *)
(* Every Add, Remove and GetDesc call takes effect at one instant between  *)
(* its call and its return.  Registered devices survive a restart of the   *)
(* process; calls in progress do not.  The hub may forget an inactive      *)
(* device on its own (Expire), and that is the only change no call asks    *)
(* for.  DeviceStore implements this module.                               *)
(***************************************************************************)
EXTENDS Naturals

CONSTANTS
    Uris,          \* the device URIs calls are made with
    BadUris,       \* those the store rejects: no HTTP scheme, or no port
    Clients,       \* the callers: HTTP requests and the mDNS browser
    None           \* no URI: the argument of GetDesc

VARIABLES
    registered,    \* the set of registered devices
    call           \* the call each client has in progress

vars == <<registered, call>>

NoCall == [st |-> "idle", op |-> "none", uri |-> None, res |-> "none", seen |-> {}]

Init ==
    /\ registered \in SUBSET (Uris \ BadUris)
    /\ call = [c \in Clients |-> NoCall]

\* A client calls Add(u), Remove(u) or GetDesc().
Call(c, o, u) ==
    /\ call[c].st = "idle"
    /\ o = "list" <=> u = None
    /\ call' = [call EXCEPT ![c] =
                   [st |-> "called", op |-> o, uri |-> u, res |-> "none", seen |-> {}]]
    /\ UNCHANGED registered

\* The call of c has its effect, with result r: seen is what GetDesc returns.
Done(c, r, seen) ==
    call' = [call EXCEPT ![c] =
                [st |-> "done", op |-> @.op, uri |-> @.uri, res |-> r, seen |-> seen]]

AddEffect(c) ==
    /\ call[c].st = "called" /\ call[c].op = "add"
    /\ \/ /\ call[c].uri \notin registered \union BadUris
          /\ registered' = registered \union {call[c].uri}
          /\ Done(c, "ok", {})
       \/ /\ call[c].uri \in registered
          /\ Done(c, "exists", {})
          /\ UNCHANGED registered
       \/ \* not supported, or not persisted
          /\ call[c].uri \notin registered
          /\ Done(c, "error", {})
          /\ UNCHANGED registered

RemoveEffect(c) ==
    /\ call[c].st = "called" /\ call[c].op = "remove"
    /\ \/ /\ call[c].uri \in registered
          /\ registered' = registered \ {call[c].uri}
          /\ Done(c, "ok", {})
       \/ /\ call[c].uri \notin registered
          /\ Done(c, "nodata", {})
          /\ UNCHANGED registered
       \/ \* the record could not be deleted
          /\ call[c].uri \in registered
          /\ Done(c, "error", {})
          /\ UNCHANGED registered

ListEffect(c) ==
    /\ call[c].st = "called" /\ call[c].op = "list"
    /\ Done(c, "ok", registered)
    /\ UNCHANGED registered

Return(c) ==
    /\ call[c].st = "done"
    /\ call' = [call EXCEPT ![c] = NoCall]
    /\ UNCHANGED registered

\* The hub removes a device it holds for inactive.
Expire(u) ==
    /\ u \in registered
    /\ registered' = registered \ {u}
    /\ UNCHANGED call

\* The process dies and is started again.
Restart ==
    /\ call' = [c \in Clients |-> NoCall]
    /\ UNCHANGED registered

Next ==
    \/ \E c \in Clients :
          \/ \E o \in {"add", "remove", "list"}, u \in Uris \union {None} : Call(c, o, u)
          \/ AddEffect(c) \/ RemoveEffect(c) \/ ListEffect(c)
          \/ Return(c)
    \/ \E u \in Uris : Expire(u)
    \/ Restart

Spec == Init /\ [][Next]_vars

=============================================================================
