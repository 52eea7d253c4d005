----------------------------- MODULE MCTimeSync -----------------------------
(* TimeSync with one device.                                               *)
EXTENDS TimeSync

CONSTANT d1

OneDevice == {d1}
=============================================================================
