-------------------------- MODULE MCDeviceIdentity --------------------------
(* DeviceIdentity with two devices on hosts of their own, one of them       *)
(* followed, and two units that change addresses.                          *)
EXTENDS DeviceIdentity, TLC

CONSTANTS d1, d2, hostA, hostB, x, y, unitA, unitB

TwoDevices == {d1, d2}
TwoHosts   == {hostA, hostB}
TwoAddrs   == {x, y}
TwoUnits   == {unitA, unitB}
OnePolled  == {d1}

OwnHost == d1 :> hostA @@ d2 :> hostB

UnitSymmetry == Permutations(TwoUnits)
=============================================================================
