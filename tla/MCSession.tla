------------------------------ MODULE MCSession ------------------------------
(***************************************************************************)
(* Instances of Session for TLC.  Which requests a client issues decides   *)
(* which tasks can meet, so each run names its own set.                    *)
(***************************************************************************)
EXTENDS Session

EveryRequest == AllOps
OnlyTcp == {"tcp"}
TcpAndClose == {"tcp", "close"}
UdpAndClose == {"udp", "close"}
=============================================================================
