--------------------------- MODULE MCDeviceStore ---------------------------
(* DeviceStore on small sets of devices and request goroutines.            *)
EXTENDS DeviceStore, TLC

CONSTANTS h1, u1, u2, bad

OneHandler == {h1}
OneUri      == {u1}
TwoUris     == {u1, u2}
BadToo      == {u1, bad}
OnlyBad     == {bad}

\* Safety runs only: the two devices are interchangeable.
UriSymmetry == Permutations(TwoUris)
=============================================================================
