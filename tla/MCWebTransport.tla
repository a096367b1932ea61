--------------------------- MODULE MCWebTransport ---------------------------
(***************************************************************************)
(* An instance of WebTransport for TLC.                                    *)
(***************************************************************************)
EXTENDS WebTransport

\* Requests of every form, and the ones the widths do not hold: a port that wraps, an
\* address a byte longer than its length can say (its frame has exactly MaxFrame bytes),
\* and a frame one byte above MaxFrame.
Some(n) == [k \in 1 .. n |-> 7]
MCRequests ==
  { Message("connect", 1, 13, <<5, 3>>, << >>), Message("connect_udp", 1, 442, <<5>>, << >>),
    Message("listen", 2, 60, << >>, << >>), Message("send", 1, 0, << >>, <<20>>),
    Message("close", 1, 0, << >>, << >>), Message("resolve", 3, 0, <<4, 4>>, << >>),
    Message("send_to", 1, 9, <<5>>, <<20, 1>>), Message("send_to", 1, 9, Some(22), <<2>>),
    Message("send", 1, 0, << >>, Some(27)) }

MCEvents ==
  { Message("connected", 1, 0, << >>, << >>), Message("data", 1, 0, << >>, <<20, 0>>),
    Message("listening", 2, 440, << >>, << >>), Message("accepted", 2, 16, <<6>>, << >>),
    Message("resolved", 3, 0, <<4>>, << >>), Message("data_from", 1, 9, <<5>>, <<20, 1>>) }

\* No id, an unknown type, a port cut short, an address cut short, an address that is not
\* UTF-8; and nothing at all.
MCOtherFrames ==
  { <<1>>, <<10, 1>>, <<2, 1, 0>>, <<7, 1, 0, 9, 2, 5>>, <<1, 1, 0, 9, 20>>, << >> }
=============================================================================
