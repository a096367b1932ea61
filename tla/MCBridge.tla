------------------------------ MODULE MCBridge ------------------------------
(***************************************************************************)
(* An instance of Bridge for TLC.                                          *)
(***************************************************************************)
EXTENDS Bridge

CONSTANTS r, w

TwoConsumers == {r, w}
ShortAndLong == {0, 1, 3}
=============================================================================
