---------------------------- MODULE EgressProofs ----------------------------
(***************************************************************************)
(* Proofs about Policy and Egress, for every policy, every target and      *)
(* whatever DNS answers.                                                   *)
(***************************************************************************)
EXTENDS Egress, TLAPS

\* Parsing a longer list finds at least the same rules.
LEMMA RulesGrow ==
  ASSUME NEW D, NEW E, D \subseteq E
  PROVE  /\ ParseRules(D).nets \subseteq ParseRules(E).nets
         /\ ParseRules(D).domains \subseteq ParseRules(E).domains
         /\ ParseRules(D).all => ParseRules(E).all
<1>1. NetRules(D) \subseteq NetRules(E)
  BY DEF NetRules
<1>2. DomainRules(D) \subseteq DomainRules(E)
  BY DEF DomainRules
<1>. QED  BY <1>1, <1>2 DEF ParseRules

\* A longer deny list refuses more, a longer allow list admits more, for any target.
LEMMA ListsMonotone ==
  ASSUME NEW D, NEW E, D \subseteq E, NEW L, NEW a, NEW p
  PROVE  /\ CheckConnect(E, L, a, p) => CheckConnect(D, L, a, p)
         /\ CheckConnect(L, D, a, p) => CheckConnect(L, E, a, p)
<1>. USE RulesGrow
<1>1. NeedsListing(D, L) => NeedsListing(E, L)
  BY DEF NeedsListing
<1>2. NeedsListing(L, E) => NeedsListing(L, D)
  BY DEF NeedsListing
<1>. QED  BY <1>1, <1>2 DEF CheckConnect, CheckIp, CheckDomain

\* One more deny entry never lets a target through, one more allow entry never stops
\* one, whichever policy the session has and whatever it asks for.
THEOREM PolicyMonotone == Spec => []Monotone
<1>1. Monotone
  BY ListsMonotone DEF Monotone, Checked
<1>. QED  BY <1>1, PTL

-----------------------------------------------------------------------------
\* What is known once the name is being looked up, once the target is approved, and
\* while the connection is open.
Cleared(ip) ==
  /\ Checked /\ ip \in Addresses /\ CheckResolved(deny, ip, port)
  /\ addr.form = "ip" => ip = addr.ip

IndInv ==
  /\ TypeOK
  /\ pc = "resolving" => Checked /\ addr.form = "name"
  /\ pc = "approved" => Cleared(target)
  /\ reached # NoAddress => pc = "done" /\ Cleared(reached)

\* Every step of a request keeps IndInv.
LEMMA IndInvStep == IndInv /\ [Next]_vars => IndInv'
<1>. SUFFICES ASSUME IndInv, [Next]_vars PROVE IndInv'
  OBVIOUS
<1>. USE EgressAssumption DEF IndInv, TypeOK
<1>1. CASE AskRefused \/ LookupFails
  BY <1>1 DEF AskRefused, LookupFails, Deny
<1>2. CASE AskLiteral
  <2>0. addr.ip \in Addresses
    BY <1>2 DEF AskLiteral, IpTargets, NameTargets
  <2>1. Cleared(addr.ip)
    BY <1>2, <2>0 DEF AskLiteral, Cleared, Checked, CheckConnect, CheckIp, CheckResolved
  <2>. QED  BY <1>2, <2>1 DEF AskLiteral, Approve, Cleared, Checked
<1>3. CASE AskName
  BY <1>3 DEF AskName, Checked
<1>4. ASSUME NEW answer \in Answers, LookupRefused(answer) PROVE IndInv'
  BY <1>4 DEF LookupRefused, Deny
<1>5. ASSUME NEW answer \in Answers, LookupApproved(answer) PROVE IndInv'
  <2>1. 1 \in DOMAIN answer /\ answer[1] \in Addresses
    BY DEF Answers
  <2>2. Cleared(answer[1])
    BY <1>5, <2>1 DEF LookupApproved, Clears, Cleared
  <2>. QED  BY <1>5, <2>2 DEF LookupApproved, Approve, Cleared, Checked
<1>6. CASE Dial
  BY <1>6 DEF Dial, Dialled, Cleared, Checked
<1>7. CASE DialFails
  BY <1>7 DEF DialFails, Cleared, Checked
<1>8. ASSUME NEW a \in Targets, NEW p \in Ports, NextRequest(a, p) PROVE IndInv'
  BY <1>8 DEF NextRequest
<1>9. CASE UNCHANGED vars
  BY <1>9 DEF vars, Cleared, Checked
<1>. QED  BY <1>1, <1>2, <1>3, <1>4, <1>5, <1>6, <1>7, <1>8, <1>9 DEF Next

\* So it holds in every reachable state.
LEMMA IndInvHolds == Spec => []IndInv
<1>1. Init => IndInv
  BY EgressAssumption DEF Init, IndInv, TypeOK
<1>. QED  BY <1>1, IndInvStep, PTL DEF Spec

\* The parser keeps every rule that covers something: what the README's reading of a
\* deny entry covers, the decisions refuse.
LEMMA DenyEntryRefuses ==
  ASSUME TypeOK, NEW e \in deny
  PROVE  /\ \A ip : CoversIp(e, ip) => ~CheckResolved(deny, ip, port)
         /\ CoversName(e) => ~CheckDomain(deny, allow, addr, port)
<1>. USE EgressAssumption DEF TypeOK, OnPort
<1>1. ASSUME NEW ip, CoversIp(e, ip) PROVE ~CheckResolved(deny, ip, port)
  <2>1. [net |-> e.net, port |-> e.port] \in NetRules(deny)
    BY <1>1 DEF CoversIp, NetRules, AnyPort, BadPort
  <2>2. NetMatches([net |-> e.net, port |-> e.port], ip, port)
    BY <1>1 DEF CoversIp, NetMatches, PortFits
  <2>. QED  BY <2>1, <2>2 DEF CheckResolved, ParseRules
<1>2. ASSUME CoversName(e) PROVE ~CheckDomain(deny, allow, addr, port)
  <2>1. [host |-> e.host.labels, port |-> e.port] \in DomainRules(deny)
    <3>1. e.port # BadPort
      BY <1>2 DEF CoversName, AnyPort, BadPort
    <3>. QED  BY <1>2, <3>1 DEF CoversName, DomainRules, Normalize
  <2>2. DomainMatches([host |-> e.host.labels, port |-> e.port], addr, port)
    BY <1>2 DEF CoversName, DomainMatches, PortFits, Normalize
  <2>. QED  BY <2>1, <2>2 DEF CheckDomain, ParseRules
<1>. QED  BY <1>1, <1>2

\* "Deny wins", for any policy and any DNS: no open connection is to an address, or was
\* asked for under a name, that a deny rule covers.
THEOREM DenyAlwaysWins == Spec => []DenyWins
<1>1. IndInv => DenyWins
  <2>. SUFFICES ASSUME IndInv, reached # NoAddress, NEW e \in deny
                PROVE  ~CoversIp(e, reached) /\ ~CoversName(e)
    BY DEF DenyWins
  <2>1. Cleared(reached) /\ TypeOK
    BY DEF IndInv
  <2>2. ~CoversIp(e, reached)
    BY <2>1, DenyEntryRefuses DEF Cleared
  <2>3. ~CoversName(e)
    BY <2>1, DenyEntryRefuses DEF Cleared, Checked, CheckConnect, CoversName
  <2>. QED  BY <2>2, <2>3
<1>. QED  BY <1>1, IndInvHolds, PTL

\* Every reachable state is well typed: resolve_and_check returns addresses only.
THEOREM TypeCorrect == Spec => []TypeOK
<1>1. IndInv => TypeOK
  BY DEF IndInv
<1>. QED  BY <1>1, IndInvHolds, PTL

\* The parser adds no rule: what an allow list lets through, the README's reading of one of
\* its entries covers.
LEMMA AllowedIsListed ==
  ASSUME TypeOK, Checked, Star \in deny \/ Star \notin allow
  PROVE  \E e \in allow : IF addr.form = "ip" THEN CoversIp(e, addr.ip) ELSE CoversName(e)
<1>1. NeedsListing(deny, allow)
  BY DEF NeedsListing, ParseRules
<1>2. CASE addr.form = "ip"
  <2>1. PICK r \in NetRules(allow) : NetMatches(r, addr.ip, port)
    BY <1>1, <1>2 DEF Checked, CheckConnect, CheckIp, ParseRules
  <2>2. PICK e \in allow : e.form = "net" /\ r = [net |-> e.net, port |-> e.port]
    BY <2>1 DEF NetRules
  <2>3. CoversIp(e, addr.ip)
    BY <2>1, <2>2 DEF CoversIp, OnPort, NetMatches, PortFits
  <2>. QED  BY <1>2, <2>3
<1>3. CASE addr.form # "ip"
  <2>1. addr.form = "name" /\ ~IsSuffix(Garbled, addr.labels)
    BY <1>3, EgressAssumption DEF TypeOK, IpTargets, NameTargets
  <2>2. PICK r \in DomainRules(allow) : DomainMatches(r, addr, port)
    BY <1>1, <1>3 DEF Checked, CheckConnect, CheckDomain, ParseRules
  <2>3. r.host # Garbled
    BY <2>1, <2>2 DEF DomainMatches, Normalize
  <2>4. PICK e \in allow : /\ e.form \in {"domain", "wild"} /\ e.host.labels \notin Unnamed
                           /\ r = [host |-> e.host.labels, port |-> e.port]
    BY <2>2, <2>3 DEF DomainRules, Normalize
  <2>5. CoversName(e)
    BY <2>1, <2>2, <2>4 DEF CoversName, OnPort, DomainMatches, PortFits, Normalize
  <2>. QED  BY <1>3, <2>5
<1>. QED  BY <1>2, <1>3

\* For any policy that denies all or does not allow all: what is open was listed.
THEOREM OnlyListedIsOpen == Spec => []OnlyListed
<1>1. IndInv => OnlyListed
  BY AllowedIsListed DEF IndInv, Cleared, OnlyListed
<1>. QED  BY <1>1, IndInvHolds, PTL

\* A trailing dot or upper case never changes a decision.
THEOREM SpellingNeverMatters == Spec => []SpellingBlind
<1>1. TypeOK => SpellingBlind
  <2>. SUFFICES ASSUME TypeOK, addr.form = "name", NEW d \in BOOLEAN, NEW u \in BOOLEAN
                PROVE  CheckConnect(deny, allow, Spelled(addr, d, u), port) <=> Checked
    BY DEF SpellingBlind
  <2>1. /\ Spelled(addr, d, u).form = "name"
        /\ Spelled(addr, d, u).labels = addr.labels
    BY EgressAssumption DEF TypeOK, IpTargets, NameTargets, Spelled
  <2>2. \A r : DomainMatches(r, Spelled(addr, d, u), port) <=> DomainMatches(r, addr, port)
    BY <2>1 DEF DomainMatches, Normalize
  <2>. QED  BY <2>1, <2>2 DEF Checked, CheckConnect, CheckDomain
<1>. QED  BY <1>1, TypeCorrect, PTL
=============================================================================
