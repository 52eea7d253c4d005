--------------------------- MODULE MCResolveStore ---------------------------
(* ResolveStore with two devices, on hosts of their own or on one host.    *)
EXTENDS ResolveStore, TLC

CONSTANTS d1, d2, hostA, hostB, x, y

TwoDevices == {d1, d2}
TwoHosts   == {hostA, hostB}
TwoAddrs   == {x, y}

OwnHost    == d1 :> hostA @@ d2 :> hostB
SharedHost == d1 :> hostA @@ d2 :> hostA
=============================================================================
