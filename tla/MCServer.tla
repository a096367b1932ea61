------------------------------ MODULE MCServer ------------------------------
(***************************************************************************)
(* An instance of Server for TLC.                                          *)
(***************************************************************************)
EXTENDS Server

\* A part that does not parse, port 0, and a range written backwards.
Narrow == [ports |-> {Span(1, 2), Span(BadPort, 3)}, mbps |-> 4]
Odd == [ports |-> {One(0), Span(3, 1)}, mbps |-> 0]
MCPolicies == {Narrow, Odd}
MCEmbedded == {Odd}
=============================================================================
