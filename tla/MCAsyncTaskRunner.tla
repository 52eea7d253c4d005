-------------------------- MODULE MCAsyncTaskRunner --------------------------
(* AsyncTaskRunner with two goroutines that awaken it and two that stop it. *)
EXTENDS AsyncTaskRunner, TLC

CONSTANTS a1, a2, s1, s2

TwoAwakers  == {a1, a2}
TwoStoppers == {s1, s2}
=============================================================================
