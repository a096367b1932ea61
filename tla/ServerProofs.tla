---------------------------- MODULE ServerProofs ----------------------------
(***************************************************************************)
(* Proofs about Server, for any number of connections, any policies and    *)
(* any order of the builder's calls.                                       *)
(***************************************************************************)
EXTENDS Server, TLAPS

\* What a bind to port p has to satisfy, and what BandwidthInForce says of a bandwidth.
Listed(p) ==
  IF builder.noPolicy THEN p # 0
  ELSE \E np \in Offered : \E r \in np.ports :
         BadPort \notin {r.lo, r.hi} /\ r.lo <= p /\ p <= r.hi
Given(mbps) ==
  /\ builder.mbps # Unset => mbps = builder.mbps
  /\ builder.mbps = Unset /\ builder.noPolicy => mbps = 0
  /\ builder.mbps = Unset /\ ~builder.noPolicy => \E np \in Offered : mbps = np.mbps
Sound(cfg) ==
  /\ \A p \in 0 .. MaxPort : CheckBind(cfg.ranges, p) => Listed(p)
  /\ Given(cfg.mbps)

Builders ==
  [policy : Policies \cup {Unset}, config : Policies \cup {Unset}, noPolicy : BOOLEAN,
   mbps : Speeds \cup {Unset}]

\* A server exists from build() on and is what the builder says; connections come from a
\* listener of a running server, and keep the server's configuration.
IndInv ==
  /\ TypeOK /\ builder \in Builders /\ config = [c \in Conns |-> config[c]]
  /\ stage \notin {"building", "failed"} => Sound(server)
  /\ \A l \in {"ws", "wt"} : listener[l] # "off" => stage = "serving"
  /\ \A c \in Conns :
       /\ conn[c] = "queued" => stage = "serving" /\ via[c] # "app"
       /\ Ours(c) => stage \notin {"building", "failed"} /\ Sound(config[c])
       /\ conn[c] # "session" => bound[c] = {}
       /\ Ours(c) => \A b \in bound[c] : (b.got = b.asked \/ b.asked = 0) /\ Listed(b.asked)

\* What Ranges makes of the policy a builder settles on, or of the one New is given.
LEMMA RangesListed ==
  ASSUME builder \in Builders, NEW np, NEW p \in 0 .. MaxPort,
         CheckBind(Ranges(np), p),
         IF builder.noPolicy THEN np = Unset ELSE np \in Offered
  PROVE  Listed(p)
<1>. USE ServerAssumption
<1>1. PICK r \in Ranges(np) : p \in r.lo .. r.hi
  BY DEF CheckBind
<1>2. CASE builder.noPolicy
  <2>1. r = Span(1, MaxPort)
    BY <1>1, <1>2 DEF Ranges, EveryPort
  <2>. QED  BY <1>1, <1>2, <2>1 DEF Listed, Span
<1>3. CASE ~builder.noPolicy
  <2>1. np \in Offered /\ np # Unset
    BY <1>3 DEF Offered, Builders
  <2>2. r \in np.ports /\ BadPort \notin {r.lo, r.hi}
    BY <1>1, <2>1 DEF Ranges, ParsePortRanges
  <2>3. r.lo <= p /\ p <= r.hi
    BY <1>1
  <2>. QED  BY <1>3, <2>1, <2>2, <2>3 DEF Listed
<1>. QED  BY <1>2, <1>3 DEF Builders

\* build() makes a server that keeps to what the builder was told.
LEMMA BuiltSound ==
  ASSUME builder \in Builders
  PROVE  Sound(Config(Ranges(NetPolicy), Bandwidth(NetPolicy)))
<1>. USE ServerAssumption
<1>1. IF builder.noPolicy THEN NetPolicy = Unset ELSE NetPolicy \in Offered /\ NetPolicy # Unset
  BY DEF NetPolicy, Or, Offered, Builders
<1>2. \A p \in 0 .. MaxPort : CheckBind(Ranges(NetPolicy), p) => Listed(p)
  BY <1>1, RangesListed
<1>3. Given(Bandwidth(NetPolicy))
  BY <1>1 DEF Given, Bandwidth, Or, Builders
<1>. QED  BY <1>2, <1>3 DEF Sound, Config

\* A step that leaves the builder alone leaves what it says alone.
LEMMA SaysTheSame ==
  ASSUME UNCHANGED builder
  PROVE  /\ \A p : Listed(p)' = Listed(p)
         /\ \A cfg : Sound(cfg)' = Sound(cfg)
BY DEF Listed, Given, Sound, Offered

\* While there is no server yet, no connection is the server's.
LEMMA NoneWhileBuilding ==
  ASSUME IndInv, stage = "building"
  PROVE  \A c \in Conns : conn[c] # "queued" /\ ~Ours(c)
BY DEF IndInv

\* A call of the builder keeps IndInv.
LEMMA BuilderSteps == IndInv /\ BuilderStep => IndInv'
<1>. SUFFICES ASSUME IndInv, BuilderStep PROVE IndInv'
  OBVIOUS
<1>. USE ServerAssumption
<1>0. TypeOK /\ builder \in Builders
  BY DEF IndInv
<1>1. stage = "building"
  BY DEF BuilderStep, PolicyCall, PolicyConfigCall, NoPolicyCall, BandwidthCall, Set, Build,
         BuildFails, New
<1>2. /\ UNCHANGED <<how, listener, shutdown, connVars>>
      /\ stage' \in {"building", "failed", "built"}
  BY <1>1 DEF BuilderStep, PolicyCall, PolicyConfigCall, NoPolicyCall, BandwidthCall, Set, Build,
              BuildFails, New, servingVars
<1>3. TypeOK'
  BY <1>0, <1>2 DEF TypeOK, connVars
<1>4. builder' \in Builders
  <2>. USE <1>0 DEF Builders
  <2>1. ASSUME NEW p \in Policies, PolicyCall(p) \/ PolicyConfigCall(p) PROVE builder' \in Builders
    BY <2>1 DEF PolicyCall, PolicyConfigCall, Set
  <2>2. ASSUME NEW n \in Speeds, BandwidthCall(n) PROVE builder' \in Builders
    BY <2>2 DEF BandwidthCall, Set
  <2>3. CASE NoPolicyCall
    BY <2>3 DEF NoPolicyCall, Set
  <2>4. ASSUME NEW np \in Policies \cup {Unset}, New(np) PROVE builder' \in Builders
    BY <2>4 DEF New
  <2>5. CASE Build \/ BuildFails
    BY <2>5 DEF Build, BuildFails
  <2>. QED  BY <2>1, <2>2, <2>3, <2>4, <2>5 DEF BuilderStep
<1>5. \A l \in {"ws", "wt"} : listener'[l] = "off"
  BY <1>1, <1>2 DEF IndInv
<1>6. \A c \in Conns : conn'[c] # "queued" /\ ~Ours(c)'
  BY <1>1, <1>2, NoneWhileBuilding DEF Ours, connVars
<1>7. \A c \in Conns : conn'[c] # "session" => bound'[c] = {}
  BY <1>2 DEF connVars, IndInv
<1>8. stage' = "built" => Sound(server)'
  <2>1. CASE Build
    <3>1. server' = Config(Ranges(NetPolicy), Bandwidth(NetPolicy)) /\ UNCHANGED builder
      BY <2>1 DEF Build
    <3>. QED  BY <1>0, <3>1, BuiltSound, SaysTheSame
  <2>2. ASSUME NEW np \in Policies \cup {Unset}, New(np) PROVE Sound(server)'
    <3>1. /\ builder' = [policy |-> np, config |-> Unset, noPolicy |-> (np = Unset), mbps |-> Unset]
          /\ server' = Config(Ranges(np), IF np = Unset THEN 0 ELSE np.mbps)
      BY <2>2 DEF New, NewBuilder
    <3>2. builder'.noPolicy <=> np = Unset
      BY <3>1
    <3>3. ~builder'.noPolicy => Offered' = {np}
      BY <3>1 DEF Offered
    <3>4. \A p \in 0 .. MaxPort : CheckBind(Ranges(np), p) => Listed(p)'
      <4>. SUFFICES ASSUME NEW p \in 0 .. MaxPort, NEW r \in Ranges(np), p \in r.lo .. r.hi
                    PROVE  Listed(p)'
        BY DEF CheckBind
      <4>1. CASE np = Unset
        BY <3>2, <4>1 DEF Ranges, EveryPort, Span, Listed
      <4>2. CASE np # Unset
        <5>1. r \in np.ports /\ BadPort \notin {r.lo, r.hi}
          BY <4>2 DEF Ranges, ParsePortRanges
        <5>2. r.lo <= p /\ p <= r.hi
          OBVIOUS
        <5>. QED  BY <3>2, <3>3, <4>2, <5>1, <5>2 DEF Listed
      <4>. QED  BY <4>1, <4>2
    <3>5. Given(IF np = Unset THEN 0 ELSE np.mbps)'
      BY <3>1, <3>2, <3>3 DEF Given
    <3>. QED  BY <3>1, <3>4, <3>5 DEF Sound, Config
  <2>. QED  BY <1>1, <2>1, <2>2 DEF BuilderStep, PolicyCall, PolicyConfigCall, NoPolicyCall,
                           BandwidthCall, Set, BuildFails, servingVars
<1>9. config' = [c \in Conns |-> config'[c]]
  BY <1>2 DEF connVars, IndInv
<1>. QED  BY <1>2, <1>3, <1>4, <1>5, <1>6, <1>7, <1>8, <1>9 DEF IndInv

\* Starting, failing and shutting down keep it: sessions go on as they were.
LEMMA ListenerSteps == IndInv /\ ListenerStep => IndInv'
<1>. SUFFICES ASSUME IndInv, ListenerStep PROVE IndInv'
  OBVIOUS
<1>0. TypeOK /\ builder \in Builders
  BY DEF IndInv
<1>1. UNCHANGED <<builder, server, via, config>>
  BY DEF ListenerStep, Start, ListenerUp, ListenerFails, ShutdownCall, ShutdownTaken, Return,
         connVars
<1>. USE SaysTheSame
<1>2. ASSUME NEW h \in {"listen", "with_shutdown", "main", "main_wt"}, Start(h) PROVE IndInv'
  <2>1. TypeOK'
    BY <1>0, <1>2 DEF Start, TypeOK, connVars
  <2>. QED  BY <1>0, <1>1, <1>2, <2>1 DEF Start, IndInv, Ours, connVars
<1>3. ASSUME NEW l \in {"ws", "wt"}, ListenerUp(l) PROVE IndInv'
  <2>1. TypeOK'
    BY <1>0, <1>3 DEF ListenerUp, TypeOK, connVars
  <2>2. stage = "serving"
    BY <1>0, <1>3 DEF ListenerUp, IndInv
  <2>. QED  BY <1>0, <1>1, <1>3, <2>1, <2>2 DEF ListenerUp, IndInv, Ours, connVars
<1>4. ASSUME Return, stage = "serving" PROVE IndInv'
  <2>1. TypeOK'
    BY <1>0, <1>4 DEF Return, TypeOK
  <2>2. \A c \in Conns : conn'[c] # "queued" /\ (Ours(c)' => conn'[c] = conn[c] /\ bound'[c] = bound[c])
    BY <1>4 DEF Return, CutOff, Ours, Running
  <2>3. \A c \in Conns : conn'[c] # "session" => bound'[c] = {}
    BY <1>4 DEF Return, CutOff, IndInv
  <2>4. \A l \in {"ws", "wt"} : listener'[l] = "off"
    BY <1>4 DEF Return
  <2>5. stage' \in {"returned", "exited"}
    BY <1>4 DEF Return
  <2>6. \A c \in Conns : Ours(c)' => Ours(c)
    BY <1>1, <2>2 DEF Ours
  <2>. QED  BY <1>0, <1>1, <1>4, <2>1, <2>2, <2>3, <2>4, <2>5, <2>6 DEF IndInv
<1>5. ASSUME NEW l \in {"ws", "wt"}, ListenerFails(l) PROVE IndInv'
  BY <1>4, <1>5 DEF ListenerFails, IndInv
<1>6. CASE ShutdownTaken
  BY <1>4, <1>6 DEF ShutdownTaken, IndInv
<1>7. CASE ShutdownCall
  <2>1. TypeOK'
    BY <1>0, <1>7 DEF ShutdownCall, TypeOK, connVars
  <2>. QED  BY <1>0, <1>1, <1>7, <2>1 DEF ShutdownCall, IndInv, Ours, connVars
<1>. QED  BY <1>2, <1>3, <1>5, <1>6, <1>7 DEF ListenerStep

\* So do the steps of a connection.
LEMMA ConnSteps ==
  ASSUME IndInv, NEW c \in Conns, ConnStep(c)
  PROVE  IndInv'
<1>0. TypeOK /\ builder \in Builders
  BY DEF IndInv
<1>1. UNCHANGED <<builder, server, servingVars>>
  BY DEF ConnStep, Arrive, Accept, HandshakeDone, End, Upgrade, Bind
<1>. USE SaysTheSame
<1>. DEFINE Mine == /\ conn'[c] = "queued" => stage = "serving" /\ via'[c] # "app"
                    /\ Ours(c)' => stage \notin {"building", "failed"} /\ Sound(config'[c])
                    /\ conn'[c] # "session" => bound'[c] = {}
                    /\ Ours(c)' => \A b \in bound'[c] :
                                     (b.got = b.asked \/ b.asked = 0) /\ Listed(b.asked)
<1>2. ASSUME TypeOK', Mine PROVE IndInv'
  <2>1. \A d \in Conns \ {c} : /\ conn'[d] = conn[d] /\ via'[d] = via[d]
                               /\ config'[d] = config[d] /\ bound'[d] = bound[d]
    BY <1>0 DEF ConnStep, Arrive, Accept, HandshakeDone, End, Upgrade, Bind, TypeOK, IndInv
  <2>2. config' = [d \in Conns |-> config'[d]]
    BY <1>0 DEF ConnStep, Arrive, Accept, HandshakeDone, End, Upgrade, Bind, IndInv
  <2>3. \A d \in Conns \ {c} : Ours(d)' = Ours(d)
    BY <2>1 DEF Ours
  <2>4. \A l \in {"ws", "wt"} : listener'[l] # "off" => stage' = "serving"
    BY <1>1 DEF IndInv, servingVars
  <2>5. stage' \notin {"building", "failed"} => Sound(server)'
    BY <1>1 DEF IndInv, servingVars
  <2>6. ASSUME NEW d \in Conns
        PROVE  /\ conn'[d] = "queued" => stage' = "serving" /\ via'[d] # "app"
               /\ Ours(d)' => stage' \notin {"building", "failed"} /\ Sound(config[d])'
               /\ conn'[d] # "session" => bound'[d] = {}
               /\ Ours(d)' => \A b \in bound'[d] :
                                (b.got = b.asked \/ b.asked = 0) /\ Listed(b.asked)'
    <3>1. CASE d = c
      BY <1>1, <1>2, <3>1 DEF servingVars
    <3>2. CASE d # c
      BY <1>1, <2>1, <2>3, <3>2 DEF servingVars, IndInv
    <3>. QED  BY <3>1, <3>2
  <2>. QED  BY <1>0, <1>1, <1>2, <2>2, <2>4, <2>5, <2>6 DEF IndInv
<1>3. /\ conn \in [Conns -> {"none", "queued", "handshaking", "session", "over"}]
      /\ via \in [Conns -> {"ws", "wt", "app"}]
      /\ bound \in [Conns -> SUBSET Binds] /\ DOMAIN config = Conns
  BY <1>0 DEF TypeOK, IndInv
<1>4. /\ conn[c] = "queued" => stage = "serving" /\ via[c] # "app" /\ Sound(server)
      /\ Ours(c) => stage \notin {"building", "failed"} /\ Sound(config[c])
      /\ conn[c] # "session" => bound[c] = {}
      /\ Ours(c) => \A b \in bound[c] : (b.got = b.asked \/ b.asked = 0) /\ Listed(b.asked)
  BY DEF IndInv
<1>. DEFINE Types == /\ conn' \in [Conns -> {"none", "queued", "handshaking", "session", "over"}]
                     /\ via' \in [Conns -> {"ws", "wt", "app"}]
                     /\ bound' \in [Conns -> SUBSET Binds]
<1>5. ASSUME Types PROVE TypeOK'
  BY <1>0, <1>1, <1>5 DEF TypeOK, servingVars
<1>. USE DEF Ours, Running
<1>6. ASSUME NEW l \in {"ws", "wt"}, Arrive(c, l) PROVE Types /\ Mine
  <2>1. stage = "serving"
    BY <1>6 DEF Arrive, IndInv
  <2>. QED  BY <1>3, <1>4, <1>6, <2>1 DEF Arrive
<1>7. ASSUME Accept(c) PROVE Types /\ Mine
  BY <1>3, <1>4, <1>7 DEF Accept
<1>8. ASSUME HandshakeDone(c) PROVE Types /\ Mine
  BY <1>3, <1>4, <1>8 DEF HandshakeDone
<1>9. ASSUME End(c) PROVE Types /\ Mine
  BY <1>3, <1>4, <1>9 DEF End
<1>10. ASSUME NEW np \in Embedded, Upgrade(c, np) PROVE Types /\ Mine
  BY <1>3, <1>4, <1>10 DEF Upgrade
<1>11. ASSUME NEW p \in 0 .. MaxPort, Bind(c, p) PROVE Types /\ Mine
  <2>1. PICK got \in Granted(p) : bound' = [bound EXCEPT ![c] = @ \cup {[asked |-> p, got |-> got]}]
    BY <1>11 DEF Bind
  <2>2. got \in 1 .. MaxPort /\ (got = p \/ p = 0)
    BY ServerAssumption DEF Granted
  <2>3. Types
    BY <1>3, <1>11, <2>1, <2>2 DEF Bind, Binds
  <2>4. Ours(c) => Listed(p)
    BY <1>4, <1>11 DEF Bind, Sound
  <2>. QED  BY <1>3, <1>4, <1>11, <2>1, <2>2, <2>3, <2>4 DEF Bind
<1>12. Types /\ Mine
  BY <1>6, <1>7, <1>8, <1>9, <1>10, <1>11 DEF ConnStep
<1>. QED  BY <1>2, <1>5, <1>12

\* So it holds in every reachable state.
LEMMA IndInvHolds == Spec => []IndInv
<1>. USE ServerAssumption
<1>1. ASSUME Init PROVE IndInv
  <2>0. listener \in [{"ws", "wt"} -> {"off", "starting", "accepting"}]
    BY <1>1 DEF Init
  <2>1. TypeOK
    BY <1>1, <2>0 DEF Init, TypeOK
  <2>2. builder \in Builders /\ stage = "building"
    BY <1>1 DEF Init, NewBuilder, Builders
  <2>3. /\ \A l \in {"ws", "wt"} : listener[l] = "off"
        /\ \A c \in Conns : conn[c] = "none" /\ bound[c] = {} /\ ~Ours(c)
        /\ config = [c \in Conns |-> config[c]]
    BY <1>1 DEF Init, Ours, Running
  <2>. QED  BY <2>1, <2>2, <2>3 DEF IndInv
<1>2. IndInv /\ [Next]_vars => IndInv'
  <2>. SUFFICES ASSUME IndInv, [Next]_vars PROVE IndInv'
    OBVIOUS
  <2>1. CASE UNCHANGED vars
    BY <2>1, SaysTheSame DEF vars, servingVars, connVars, IndInv, TypeOK, Ours
  <2>. QED  BY <2>1, BuilderSteps, ListenerSteps, ConnSteps DEF Next
<1>. QED  BY <1>1, <1>2, PTL DEF Spec

\* Every reachable state of the server is well typed.
THEOREM TypeCorrect == Spec => []TypeOK
<1>1. IndInv => TypeOK
  BY DEF IndInv
<1>. QED  BY <1>1, IndInvHolds, PTL

\* Whatever the builder was told and in which order, and however the server runs: a
\* listener of one of its sessions is on a port the operator's policy lists.
THEOREM BindsAlwaysListed == Spec => []BindsListed
<1>1. IndInv => BindsListed
  BY DEF IndInv, BindsListed, Listed
<1>. QED  BY <1>1, IndInvHolds, PTL

\* And its sessions go as fast as the operator last said.
THEOREM BandwidthAlwaysInForce == Spec => []BandwidthInForce
<1>1. IndInv => BandwidthInForce
  BY DEF IndInv, BandwidthInForce, Sound, Given
<1>. QED  BY <1>1, IndInvHolds, PTL

\* No step but a connection's own, or main's return, ends its handshake or session.
THEOREM SessionsAlwaysOutlive == Spec => SessionsOutlive
<1>. DEFINE Outlive == \A c \in Conns :
       conn[c] \in Running /\ conn'[c] = "over" /\ stage' # "exited" =>
         conn' = [conn EXCEPT ![c] = "over"] /\ UNCHANGED servingVars
<1>1. TypeOK /\ [Next]_vars => [Outlive]_vars
  <2>. SUFFICES ASSUME TypeOK, Next, NEW c \in Conns, conn[c] \in Running, conn'[c] = "over",
                       stage' # "exited"
                PROVE  conn' = [conn EXCEPT ![c] = "over"] /\ UNCHANGED servingVars
    OBVIOUS
  <2>. USE DEF Running
  <2>1. ~BuilderStep
    BY DEF BuilderStep, PolicyCall, PolicyConfigCall, NoPolicyCall, BandwidthCall, Set, Build,
           BuildFails, New, connVars
  <2>2. ~Return
    BY DEF Return, CutOff
  <2>3. ~ListenerStep
    BY <2>2 DEF ListenerStep, Start, ListenerUp, ListenerFails, ShutdownCall, ShutdownTaken, connVars
  <2>4. ASSUME NEW d \in Conns, ConnStep(d)
        PROVE  conn' = [conn EXCEPT ![c] = "over"] /\ UNCHANGED servingVars
    BY <2>4 DEF ConnStep, Arrive, Accept, HandshakeDone, End, Upgrade, Bind, TypeOK
  <2>. QED  BY <2>1, <2>3, <2>4 DEF Next
<1>. QED  BY <1>1, TypeCorrect, PTL DEF Spec, SessionsOutlive
=============================================================================
