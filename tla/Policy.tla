------------------------------- MODULE Policy -------------------------------
(***************************************************************************)
(* The policy engine (src/src/policy.rs): rule lists as written, what the  *)
(* parser makes of them, and the decisions.                                *)
(*                                                                         *)
(* A network is a set of addresses.  A name is a sequence of labels with   *)
(* its spelling (a trailing dot, upper case), so "ends with .host" is "has *)
(* host's labels as a suffix".  A rule list is a set: every decision looks *)
(* for some matching rule, in any order.                                   *)
(***************************************************************************)
EXTENDS Integers, SequencesExt

AnyPort == -1   \* a rule with no port
BadPort == -2   \* a port that is no u16, or none after a bracketed address

\* An entry as written: "*", a network, or a domain with or without "*.".
Star == [form |-> "star"]
Net(n, p) == [form |-> "net", net |-> n, port |-> p]
Domain(h, p) == [form |-> "domain", host |-> h, port |-> p]
WildDomain(h, p) == [form |-> "wild", host |-> h, port |-> p]

\* A target as the caller spells it.
Literal(ip) == [form |-> "ip", ip |-> ip]
Name(ls) == [form |-> "name", labels |-> ls, dot |-> FALSE, upper |-> FALSE]
Spelled(n, d, u) == [n EXCEPT !.dot = d, !.upper = u]

\* normalize_domain: case-folded, without one trailing dot.
Normalize_KeepsDot(n) == IF n.dot THEN Append(n.labels, "") ELSE n.labels
Normalize(n) == n.labels

\* NetRule::parse.  A port that does not parse is left on the host, which then is
\* no network; DomainPattern::parse keeps such text as a host no name has.
NetRules(entries) ==
  {[net |-> e.net, port |-> e.port] : e \in {f \in entries : f.form = "net" /\ f.port # BadPort}}

\* DomainPattern::parse.  "*." is stripped; "*" with a port, or nothing, is no rule.
Unnamed == {<<"*">>, << >>}
Garbled == <<":">>
DomainRules(entries) ==
  LET named == {e \in entries : e.form \in {"domain", "wild"} /\ Normalize(e.host) \notin Unnamed}
      garbled == {e \in entries : e.form # "star" /\ e.port = BadPort}
  IN {[host |-> Normalize(e.host), port |-> e.port] : e \in named \ garbled}
       \cup {[host |-> Garbled, port |-> AnyPort] : e \in garbled}

\* parse_rules: a list sorted into networks, domains and the catch-all.
ParseRules(entries) ==
  [nets |-> NetRules(entries), domains |-> DomainRules(entries), all |-> Star \in entries]

\* rule.port.is_none_or(|p| p == port)
PortFits_Ignored(r, port) == TRUE
PortFits(r, port) == r.port \in {AnyPort, port}

NetMatches(r, ip, port) == ip \in r.net /\ PortFits(r, port)
DomainMatches_ApexOnly(r, n, port) == PortFits(r, port) /\ Normalize(n) = r.host
DomainMatches(r, n, port) == PortFits(r, port) /\ IsSuffix(r.host, Normalize(n))

\* check_resolved: the deny networks, and nothing else.
CheckResolved(deny, ip, port) ==
  \A r \in ParseRules(deny).nets : ~NetMatches(r, ip, port)

\* deny_all || !allow_all: only what is listed gets through.
NeedsListing_Either(deny, allow) == ~ParseRules(deny).all /\ ~ParseRules(allow).all
NeedsListing(deny, allow) == ParseRules(deny).all \/ ~ParseRules(allow).all

CheckIp(deny, allow, ip, port) ==
  /\ \A r \in ParseRules(deny).nets : ~NetMatches(r, ip, port)
  /\ NeedsListing(deny, allow) => \E r \in ParseRules(allow).nets : NetMatches(r, ip, port)

CheckDomain(deny, allow, n, port) ==
  /\ \A r \in ParseRules(deny).domains : ~DomainMatches(r, n, port)
  /\ NeedsListing(deny, allow) => \E r \in ParseRules(allow).domains : DomainMatches(r, n, port)

CheckConnect(deny, allow, addr, port) ==
  IF addr.form = "ip" THEN CheckIp(deny, allow, addr.ip, port)
  ELSE CheckDomain(deny, allow, addr, port)

\* bind_ports, part by part: a port or two with "-" between.  A part in which something is
\* no u16 is left out; a range whose ends are swapped has no ports.
Span(lo, hi) == [lo |-> lo, hi |-> hi]
One(p) == Span(p, p)
ParsePortRanges_Clamped(parts) ==
  {Span(IF r.lo = BadPort THEN 0 ELSE r.lo, r.hi) : r \in {q \in parts : q.hi # BadPort}}
ParsePortRanges(parts) == {r \in parts : BadPort \notin {r.lo, r.hi}}

CheckBind(ranges, port) == \E r \in ranges : port \in r.lo .. r.hi
=============================================================================
