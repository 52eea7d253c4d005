---------------------------- MODULE MCDiscovery ----------------------------
(* Discovery with two devices, added by the browser and by a handler, and  *)
(* two goroutines that stop the runner.                                    *)
EXTENDS Discovery, TLC

CONSTANTS a1, a2, s1, s2, dev1, dev2

TwoAwakers  == {a1, a2}
TwoStoppers == {s1, s2}
TwoServices == {dev1, dev2}
=============================================================================
