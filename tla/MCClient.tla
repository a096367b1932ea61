------------------------------ MODULE MCClient ------------------------------
(***************************************************************************)
(* Instances of ClientSession for TLC.                                     *)
(***************************************************************************)
EXTENDS ClientSession

FewRequests == {"tcp", "bind", "resolve", "close"}
=============================================================================
