---------------------------- MODULE MCLifecycle ----------------------------
(* Lifecycle with a few devices and one HTTP handler.                      *)
EXTENDS Lifecycle, TLC

CONSTANTS u1, u2, h1

OneUri     == {u1}
TwoUris    == {u1, u2}
OneHandler == {h1}
=============================================================================
