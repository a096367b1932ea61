---------------------------- MODULE MCRateLimiter ----------------------------
(***************************************************************************)
(* An instance of RateLimiter for TLC: one task.                           *)
(***************************************************************************)
EXTENDS RateLimiter

CONSTANT a

OneConsumer == {a}
=============================================================================
