------------------------------- MODULE Server -------------------------------
(***************************************************************************)
(* The server (src/src/lib.rs, main.rs and serve in webtransport.rs): the  *)
(* builder, the listeners, the connections they accept, and shutdown.      *)
(*                                                                         *)
(* Of a policy the model keeps bind_ports and max_bandwidth_mbps; what the *)
(* rest of it decides is Egress's, the pool is Pool's, and what a session  *)
(* does is Session's: here it binds ports and ends.  A kernel holds the    *)
(* connections that are not yet accepted, and finds a free port for a bind *)
(* to port 0.                                                              *)
(***************************************************************************)
EXTENDS Policy, FiniteSets

CONSTANTS
  Conns,            \* bound: connections
  MaxBinds,         \* bound: listeners of a session
  Policies,         \* NetworkPolicy values
  Embedded,         \* the policies an embedding application has, Unset for allow_all
  DefaultPolicy,
  Speeds,           \* values for max_bandwidth_mbps
  MaxPort,          \* 65535
  Unset             \* None

ASSUME ServerAssumption ==
  /\ MaxPort \in Nat \ {0} /\ Speeds \subseteq Nat
  /\ DefaultPolicy \in Policies /\ Unset \notin Policies /\ Unset \notin Speeds
  /\ Embedded \subseteq Policies \cup {Unset}
  /\ \A p \in Policies : p.mbps \in Nat

VARIABLES
  builder,    \* ServerBuilder
  server,     \* Server: the ports to bind and the bandwidth, 0 for unlimited; or Unset
  stage,      \* building, failed, built, serving, returned, exited
  how,        \* listen, with_shutdown, or from main without or with WebTransport
  listener,   \* of ws and wt: off, starting, accepting
  shutdown,   \* the sender has sent, or is gone
  conn,       \* none, queued, handshaking, session, over
  via,        \* ws, wt, or app for one the embedding application accepted
  config,     \* SessionConfig of a connection
  bound       \* listeners of a session: the port it asked for and the port it got

servingVars == <<stage, how, listener, shutdown>>
connVars == <<conn, via, config, bound>>
vars == <<builder, server, servingVars, connVars>>

Config(ranges, mbps) == [ranges |-> ranges, mbps |-> mbps]
EveryPort == {Span(1, MaxPort)}

NewBuilder == [policy |-> Unset, config |-> Unset, noPolicy |-> FALSE, mbps |-> Unset]

Init ==
  /\ builder = NewBuilder
  /\ server = Unset /\ stage = "building" /\ how = "listen"
  /\ listener = [ws |-> "off", wt |-> "off"] /\ shutdown = FALSE
  /\ conn = [c \in Conns |-> "none"] /\ via = [c \in Conns |-> "ws"]
  /\ config = [c \in Conns |-> Unset] /\ bound = [c \in Conns |-> {}]

(***************************************************************************)
(* The builder, called in any order                                        *)
(***************************************************************************)
Set(b) ==
  /\ stage = "building" /\ builder' = b
  /\ UNCHANGED <<server, servingVars, connVars>>
PolicyCall(p) == Set([builder EXCEPT !.policy = p])
PolicyConfigCall(p) == Set([builder EXCEPT !.config = p])   \* policy_file too
NoPolicyCall == Set([builder EXCEPT !.noPolicy = TRUE])
BandwidthCall(n) == Set([builder EXCEPT !.mbps = n])

\* Option::or
Or(a, b) == IF a # Unset THEN a ELSE b
NetPolicy ==
  IF builder.noPolicy THEN Unset ELSE Or(builder.policy, Or(builder.config, DefaultPolicy))

\* Policy::new and Policy::allow_all
Ranges(np) == IF np = Unset THEN EveryPort ELSE ParsePortRanges(np.ports)

Bandwidth_PolicyFirst(np) == IF np = Unset THEN Or(builder.mbps, 0) ELSE np.mbps
Bandwidth(np) == Or(builder.mbps, IF np = Unset THEN 0 ELSE np.mbps)

Build ==
  /\ stage = "building" /\ stage' = "built"
  /\ server' = Config(Ranges(NetPolicy), Bandwidth(NetPolicy))
  /\ UNCHANGED <<builder, how, listener, shutdown, connVars>>

\* Server::new, from_config and, for Unset, allow_all: a server without a builder.  What
\* they are given is noted as if a builder had been.
New(np) ==
  /\ stage = "building" /\ builder = NewBuilder /\ stage' = "built"
  /\ builder' = [builder EXCEPT !.policy = np, !.noPolicy = (np = Unset)]
  /\ server' = Config(Ranges(np), IF np = Unset THEN 0 ELSE np.mbps)
  /\ UNCHANGED <<how, listener, shutdown, connVars>>

\* policy_file cannot read or parse its file, or build its address.
BuildFails ==
  /\ stage = "building" /\ stage' = "failed"
  /\ UNCHANGED <<builder, server, how, listener, shutdown, connVars>>

(***************************************************************************)
(* Listening                                                               *)
(***************************************************************************)
\* listen, listen_with_shutdown, or main, which serves WebTransport beside if asked to.
Start(h) ==
  /\ stage = "built" /\ stage' = "serving" /\ how' = h
  /\ listener' = [ws |-> "starting", wt |-> IF h = "main_wt" THEN "starting" ELSE "off"]
  /\ UNCHANGED <<builder, server, shutdown, connVars>>

\* TcpListener::bind; build_identity and Endpoint::server.
ListenerUp(l) ==
  /\ listener[l] = "starting" /\ listener' = [listener EXCEPT ![l] = "accepting"]
  /\ UNCHANGED <<builder, server, stage, how, shutdown, connVars>>

\* The call returns: the listeners are dropped, and with them the connections that were not
\* accepted.  A session goes on in its own task, until main has returned.
Running == {"handshaking", "session"}
CutOff_Everyone == {c \in Conns : conn[c] \in Running \cup {"queued"}}
CutOff ==
  {c \in Conns : \/ conn[c] = "queued"
                 \/ how \in {"main", "main_wt"} /\ conn[c] \in Running}
Return ==
  /\ stage' = IF how \in {"main", "main_wt"} THEN "exited" ELSE "returned"
  /\ listener' = [ws |-> "off", wt |-> "off"]
  /\ conn' = [c \in Conns |-> IF c \in CutOff THEN "over" ELSE conn[c]]
  /\ bound' = [c \in Conns |-> IF c \in CutOff THEN {} ELSE bound[c]]
  /\ UNCHANGED <<builder, server, how, shutdown, via, config>>

\* A listener cannot start, or accept() fails on the WebSocket's: the call returns that.
ListenerFails(l) ==
  /\ listener[l] = "starting" \/ (l = "ws" /\ listener[l] = "accepting")
  /\ Return

\* The application sends on the oneshot channel, or drops the sender.
ShutdownCall ==
  /\ stage # "failed" /\ ~shutdown /\ shutdown' = TRUE
  /\ UNCHANGED <<builder, server, stage, how, listener, connVars>>

\* The other branch of the select, polled once the listener is bound.
ShutdownTaken_WhenIdle ==
  /\ how = "with_shutdown" /\ listener.ws = "accepting" /\ shutdown
  /\ \A c \in Conns : conn[c] \notin Running
  /\ Return
ShutdownTaken ==
  /\ how = "with_shutdown" /\ listener.ws = "accepting" /\ shutdown
  /\ Return

(***************************************************************************)
(* Connections                                                             *)
(***************************************************************************)
\* The kernel, or the QUIC endpoint, queues a client's connection (external).
Arrive(c, l) ==
  /\ conn[c] = "none" /\ listener[l] = "accepting"
  /\ conn' = [conn EXCEPT ![c] = "queued"] /\ via' = [via EXCEPT ![c] = l]
  /\ UNCHANGED <<builder, server, servingVars, config, bound>>

\* accept(), session_config, and a task that does the handshake.
MayAccept_OneByOne(c) == \A d \in Conns : conn[d] # "handshaking"
MayAccept(c) == TRUE
Accept(c) ==
  /\ conn[c] = "queued" /\ MayAccept(c)
  /\ conn' = [conn EXCEPT ![c] = "handshaking"] /\ config' = [config EXCEPT ![c] = server]
  /\ UNCHANGED <<builder, server, servingVars, via, bound>>

\* handle_ws_upgrade: the application's own stream and policy; no limiter.
Upgrade(c, np) ==
  /\ conn[c] = "none" /\ stage # "exited"
  /\ conn' = [conn EXCEPT ![c] = "handshaking"] /\ via' = [via EXCEPT ![c] = "app"]
  /\ config' = [config EXCEPT ![c] = Config(Ranges(np), 0)]
  /\ UNCHANGED <<builder, server, servingVars, bound>>

\* accept_async, or the three awaits of accept_session; none has a timeout.
HandshakeDone(c) ==
  /\ conn[c] = "handshaking" /\ conn' = [conn EXCEPT ![c] = "session"]
  /\ UNCHANGED <<builder, server, servingVars, via, config, bound>>

\* The handshake fails, or the session ends and its cleanup closes its listeners.
End(c) ==
  /\ conn[c] \in Running
  /\ conn' = [conn EXCEPT ![c] = "over"] /\ bound' = [bound EXCEPT ![c] = {}]
  /\ UNCHANGED <<builder, server, servingVars, via, config>>

\* handle_bind: check_bind, the bind, and the port it got.  (A refused or failing one leaves
\* all of this as it is.)
Granted_AsAsked(p) == {p}
Granted(p) == IF p = 0 THEN 1 .. MaxPort ELSE {p}
Bind(c, p) ==
  /\ conn[c] = "session" /\ Cardinality(bound[c]) < MaxBinds
  /\ CheckBind(config[c].ranges, p)
  /\ \E got \in Granted(p) :
       bound' = [bound EXCEPT ![c] = @ \cup {[asked |-> p, got |-> got]}]
  /\ UNCHANGED <<builder, server, servingVars, conn, via, config>>

BuilderStep ==
  \/ \E p \in Policies : PolicyCall(p) \/ PolicyConfigCall(p)
  \/ NoPolicyCall \/ \E n \in Speeds : BandwidthCall(n)
  \/ Build \/ BuildFails \/ \E np \in Policies \cup {Unset} : New(np)
ListenerStep ==
  \/ \E h \in {"listen", "with_shutdown", "main", "main_wt"} : Start(h)
  \/ \E l \in {"ws", "wt"} : ListenerUp(l) \/ ListenerFails(l)
  \/ ShutdownCall \/ ShutdownTaken
ConnStep(c) ==
  \/ \E l \in {"ws", "wt"} : Arrive(c, l)
  \/ Accept(c) \/ HandshakeDone(c) \/ End(c)
  \/ \E np \in Embedded : Upgrade(c, np)
  \/ \E p \in 0 .. MaxPort : Bind(c, p)

Next == BuilderStep \/ ListenerStep \/ \E c \in Conns : ConnStep(c)

\* The runtime polls the accept loops and the shutdown branch: select! picks at random
\* among its ready branches, so neither starves.  Handshakes and sessions may take for ever.
Fairness ==
  /\ \A c \in Conns : WF_vars(Accept(c))
  /\ WF_vars(ShutdownTaken) /\ \A l \in {"ws", "wt"} : WF_vars(ListenerUp(l))

Spec == Init /\ [][Next]_vars
FairSpec == Spec /\ Fairness

-----------------------------------------------------------------------------
\* The types of the state; the port a session is told is never 0.
Binds == [asked : 0 .. MaxPort, got : 1 .. MaxPort]
TypeOK ==
  /\ stage \in {"building", "failed", "built", "serving", "returned", "exited"}
  /\ how \in {"listen", "with_shutdown", "main", "main_wt"} /\ shutdown \in BOOLEAN
  /\ listener \in [{"ws", "wt"} -> {"off", "starting", "accepting"}]
  /\ conn \in [Conns -> {"none", "queued", "handshaking", "session", "over"}]
  /\ via \in [Conns -> {"ws", "wt", "app"}]
  /\ bound \in [Conns -> SUBSET Binds]

Ours(c) == conn[c] \in Running /\ via[c] # "app"

\* The policies the operator gave the builder, the default one if none.
Offered ==
  IF {builder.policy, builder.config} = {Unset} THEN {DefaultPolicy}
  ELSE {builder.policy, builder.config} \ {Unset}

\* bind_ports, as the README reads it: a listener of a session the server accepted is on a
\* port that a well-formed part of an offered policy names, or on one the kernel picked
\* where such a part names 0; without a policy it is on a port the session asked for.
BindsListed ==
  \A c \in Conns : Ours(c) =>
    \A b \in bound[c] :
      /\ b.got = b.asked \/ b.asked = 0
      /\ IF builder.noPolicy THEN b.asked # 0
         ELSE \E np \in Offered : \E r \in np.ports :
                BadPort \notin {r.lo, r.hi} /\ r.lo <= b.asked /\ b.asked <= r.hi

\* Sessions are limited to what the operator last said: max_bandwidth_mbps, "overrides
\* policy file", whichever was called first; without it that of an offered policy; and
\* with no policy either, nothing.
BandwidthInForce ==
  \A c \in Conns : Ours(c) =>
    /\ builder.mbps # Unset => config[c].mbps = builder.mbps
    /\ builder.mbps = Unset /\ builder.noPolicy => config[c].mbps = 0
    /\ builder.mbps = Unset /\ ~builder.noPolicy =>
         \E np \in Offered : config[c].mbps = np.mbps

\* Graceful shutdown: neither shutdown nor a failing listener ends a session or a handshake
\* that is under way; only main's return does.
SessionsOutlive ==
  [][\A c \in Conns :
       conn[c] \in Running /\ conn'[c] = "over" /\ stage' # "exited" =>
         conn' = [conn EXCEPT ![c] = "over"] /\ UNCHANGED servingVars]_vars

\* However many clients never finish their handshake, the others are accepted, while
\* there is a listener.
AcceptsGoOn == []<>(\A c \in Conns : conn[c] # "queued")

\* listen_with_shutdown returns once it is told to, though clients keep coming and sessions
\* go on.
ShutdownReturns == []<>~(how = "with_shutdown" /\ stage = "serving" /\ shutdown)
=============================================================================
