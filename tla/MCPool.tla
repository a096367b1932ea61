------------------------------- MODULE MCPool -------------------------------
(***************************************************************************)
(* An instance of Pool for TLC.                                            *)
(***************************************************************************)
EXTENDS Pool

CONSTANTS k1, k2, s1, s2, s3

TwoTargets == {k1, k2}
ThreeStreams == {s1, s2, s3}
=============================================================================
