------------------------------ MODULE MCEgress ------------------------------
(***************************************************************************)
(* Instances of Egress for TLC.                                            *)
(***************************************************************************)
EXTENDS Egress, FiniteSetsExt

CONSTANTS pub, priv   \* a public address and a private one

TwoAddresses == {pub, priv}
TwoPorts == {22, 443}

Site == Name(<<"site", "com">>)
Api == Name(<<"api", "site", "com">>)
Lookalike == Name(<<"notsite", "com">>)
Everyone == Name(<<"*">>)

EveryTarget ==
  {Literal(pub), Literal(priv), Site, Spelled(Site, TRUE, FALSE), Spelled(Api, TRUE, TRUE), Api,
   Lookalike}

\* Each form of rule, with and without a port, a port that does not parse included.
Rules ==
  {Star, Net({priv}, AnyPort), Net({priv, pub}, 22), Net({pub}, BadPort),
   Domain(Site, AnyPort), WildDomain(Spelled(Site, TRUE, FALSE), 443), Domain(Api, 22),
   Domain(Site, BadPort), Domain(Everyone, 443)}

UpToTwoRules == UNION {kSubset(n, Rules) : n \in 0 .. 2}
UpToOneRule == UNION {kSubset(n, Rules) : n \in 0 .. 1}
=============================================================================
