------------------------------- MODULE Egress -------------------------------
(***************************************************************************)
(* The way out (approved_target and resolve_and_check in src/src/proxy.rs, *)
(* dns.rs, then the connect): the policy decides on the target as written, *)
(* the name is looked up, every answer is checked, and the first is dialled. *)
(* What DNS answers is free, and may differ from one lookup to the next.   *)
(* connect, connect_tls, connect_udp and send_to all take this way.        *)
(***************************************************************************)
EXTENDS Policy, FiniteSets

CONSTANTS
  Addresses,    \* IP addresses
  NoAddress,    \* none
  Ports,
  Targets,      \* targets as clients spell them
  DenyLists, AllowLists,   \* the rule lists a policy may have
  MaxAnswers    \* bound: addresses in one DNS answer

\* No name a client can look up has a colon.
IpTargets == [form : {"ip"}, ip : Addresses]
NameTargets ==
  {n \in [form : {"name"}, labels : Seq(STRING), dot : BOOLEAN, upper : BOOLEAN] :
     ~IsSuffix(Garbled, n.labels)}

ASSUME EgressAssumption ==
  /\ NoAddress \notin Addresses /\ Ports \subseteq Nat /\ MaxAnswers \in Nat
  /\ Targets \subseteq IpTargets \cup NameTargets

VARIABLES
  deny, allow,   \* the session's policy
  addr, port,    \* the request's target
  pc,            \* idle, resolving, approved, done
  target,        \* the address resolve_and_check returned
  reached,       \* the peer address of the open connection, NoAddress without one
  told           \* the event that answers the request

vars == <<deny, allow, addr, port, pc, target, reached, told>>

Answers == UNION {[1 .. n -> Addresses] : n \in 1 .. MaxAnswers}

Init ==
  /\ deny \in DenyLists /\ allow \in AllowLists
  /\ addr \in Targets /\ port \in Ports
  /\ pc = "idle" /\ target = NoAddress /\ reached = NoAddress /\ told = "none"

\* approved_target: any Err of resolve_and_check is a `denied` event.
Deny ==
  /\ pc' = "done" /\ told' = "denied"
  /\ UNCHANGED <<deny, allow, addr, port, target, reached>>
Approve(ip) ==
  /\ pc' = "approved" /\ target' = ip
  /\ UNCHANGED <<deny, allow, addr, port, reached, told>>

Checked == CheckConnect(deny, allow, addr, port)

AskRefused == pc = "idle" /\ ~Checked /\ Deny
AskLiteral == pc = "idle" /\ Checked /\ addr.form = "ip" /\ Approve(addr.ip)
AskName ==
  /\ pc = "idle" /\ Checked /\ addr.form = "name"
  /\ pc' = "resolving"
  /\ UNCHANGED <<deny, allow, addr, port, target, reached, told>>

\* dns::resolve fails or finds nothing.
LookupFails == pc = "resolving" /\ Deny

\* Every address of the answer has to clear the deny list.
Clears(answer) == \A i \in DOMAIN answer : CheckResolved(deny, answer[i], port)
LookupRefused(answer) == pc = "resolving" /\ ~Clears(answer) /\ Deny
LookupApproved(answer) == pc = "resolving" /\ Clears(answer) /\ Approve(answer[1])

\* tcp_connect(target), or a pooled stream kept under target's own key.  (A dial by
\* name would look it up again.)
Dialled_ByName == IF addr.form = "ip" THEN {target} ELSE Addresses
Dialled == {target}
Dial ==
  /\ pc = "approved"
  /\ \E ip \in Dialled : reached' = ip
  /\ pc' = "done" /\ told' = "connected"
  /\ UNCHANGED <<deny, allow, addr, port, target>>
DialFails ==
  /\ pc = "approved"
  /\ pc' = "done" /\ told' = "error"
  /\ UNCHANGED <<deny, allow, addr, port, target, reached>>

\* The session's next request.
NextRequest(a, p) ==
  /\ pc = "done"
  /\ addr' = a /\ port' = p
  /\ pc' = "idle" /\ target' = NoAddress /\ reached' = NoAddress /\ told' = "none"
  /\ UNCHANGED <<deny, allow>>

Next ==
  \/ AskRefused \/ AskLiteral \/ AskName
  \/ LookupFails
  \/ \E answer \in Answers : LookupRefused(answer) \/ LookupApproved(answer)
  \/ Dial \/ DialFails
  \/ \E a \in Targets, p \in Ports : NextRequest(a, p)

Spec == Init /\ [][Next]_vars

-----------------------------------------------------------------------------
\* The types of a request's state; what resolve_and_check returns is an address, never
\* the name again.
TypeOK ==
  /\ deny \in DenyLists /\ allow \in AllowLists
  /\ addr \in Targets /\ port \in Ports
  /\ pc \in {"idle", "resolving", "approved", "done"}
  /\ target \in Addresses \cup {NoAddress} /\ reached \in Addresses \cup {NoAddress}
  /\ told \in {"none", "denied", "connected", "error"}

\* The README's reading of one rule, with no parser in between: a network covers its
\* addresses, a domain the name and every subdomain, on the rule's port or on any.
OnPort(e) == e.port \in {AnyPort, port}
CoversIp(e, ip) == e.form = "net" /\ ip \in e.net /\ OnPort(e)
CoversName(e) ==
  /\ e.form \in {"domain", "wild"} /\ addr.form = "name" /\ OnPort(e)
  /\ e.host.labels \notin Unnamed /\ IsSuffix(e.host.labels, addr.labels)

\* "Deny wins": an open connection goes to an address, and was asked for under a name,
\* that no deny rule covers, whatever the allow list and whatever DNS answered when.
DenyWins ==
  reached # NoAddress => \A e \in deny : ~CoversIp(e, reached) /\ ~CoversName(e)

\* With a deny-all or no allow-all, what is open was listed: the address of a literal,
\* the name otherwise.
OnlyListed ==
  reached # NoAddress /\ (Star \in deny \/ Star \notin allow) =>
    \E e \in allow : IF addr.form = "ip" THEN CoversIp(e, addr.ip) ELSE CoversName(e)

\* Editing a policy does what it says: one more deny entry never lets a target through,
\* one more allow entry never stops one.
Monotone ==
  /\ \A e \in UNION DenyLists :
       CheckConnect(deny \cup {e}, allow, addr, port) => Checked
  /\ \A e \in UNION AllowLists :
       Checked => CheckConnect(deny, allow \cup {e}, addr, port)

\* "Names are normalized": how a name is spelled makes no difference to the decision.
SpellingBlind ==
  addr.form = "name" =>
    \A d, u \in BOOLEAN : CheckConnect(deny, allow, Spelled(addr, d, u), port) <=> Checked
=============================================================================
