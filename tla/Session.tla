------------------------------- MODULE Session -------------------------------
(***************************************************************************)
(* One proxy session (src/src/proxy.rs): the request loop, the socket map, *)
(* the connection counter, and the tasks the handlers spawn.               *)
(*                                                                         *)
(* Every socket incarnation occupies one task slot, taken in spawn order   *)
(* and never reused: a connect task (tcp, tls), a UDP receive task, an     *)
(* accept loop (listener), an accepted connection, or a DNS lookup.  A     *)
(* request refused at once uses a slot too, with pc "done".  The socket    *)
(* map holds the only owner of a task's write channel, cancel handle or    *)
(* shutdown handle, so "the handle was dropped or fired" is "the map no    *)
(* longer points at the task" (see Held).                                  *)
(*                                                                         *)
(* Policy and name resolution are a free choice here, payloads are a count *)
(* of queued writes, and of the event channel each task keeps the last     *)
(* event that told the client about its socket.  Data and data_from events *)
(* and writes on a missing or UDP socket change nothing here.              *)
(***************************************************************************)
EXTENDS Integers, FiniteSets

CONSTANTS
  MaxTasks,         \* bound: socket incarnations in one behaviour
  ClientIds,        \* ids the client picks for its requests
  ClientOps,        \* kinds of request the client issues
  ReuseIds,         \* may the client pick an id twice?  (the JS client never does)
  MaxConnections,   \* policy.max_connections
  UsizeMod,         \* 2^64 for the AtomicUsize `active`
  IdMod,            \* 2^64 for socket ids
  IdStride,         \* the 1_000_000 of run_listener
  MaxQueued         \* bound: writes waiting in one write channel

AllOps == {"tcp", "tls", "udp", "bind", "resolve", "send", "send_to", "close", "listen"}

ASSUME SessionAssumption ==
  /\ MaxTasks \in Nat /\ MaxConnections \in Nat /\ MaxQueued \in Nat
  /\ UsizeMod \in Nat \ {0} /\ IdMod \in Nat \ {0} /\ IdStride \in Nat
  /\ ClientIds \subseteq 0 .. IdMod - 1
  /\ ClientOps \subseteq AllOps
  /\ ReuseIds \in BOOLEAN

Tasks == 1 .. MaxTasks
NoTask == 0
Ids == 0 .. IdMod - 1

VARIABLES
  wsLoop,     \* handle_session's read loop: reading, draining (after cleanup), ended
  sendTask,   \* the task that owns event_rx: running or stopped
  handler,    \* the request the loop is suspended in, if any
  active,     \* Ctx::active
  sockets,    \* Ctx::sockets: id -> task, NoTask when absent
  kind, sid, pc,            \* per task: what it is, its socket id, where it stands
  reader, writer, queued,   \* per bridge: its two halves, and the write channel
  child, accepted,          \* per listener: connection being registered, count so far
  told,       \* per task: the last status event sent about its socket
  closeReq    \* history: a close request named the socket (early: it had no entry yet)

loopVars == <<wsLoop, sendTask, handler>>
bridgeVars == <<reader, writer, queued>>
listenVars == <<child, accepted>>
taskVars == <<kind, sid, pc, bridgeVars, listenVars, told, closeReq>>
vars == <<loopVars, active, sockets, taskVars>>

Idle == [op |-> "none", task |-> NoTask]

Init ==
  /\ wsLoop = "reading" /\ sendTask = "running" /\ handler = Idle
  /\ active = 0
  /\ sockets = [i \in Ids |-> NoTask]
  /\ kind = [t \in Tasks |-> "none"] /\ sid = [t \in Tasks |-> 0] /\ pc = [t \in Tasks |-> "idle"]
  /\ reader = [t \in Tasks |-> "off"] /\ writer = [t \in Tasks |-> "off"]
  /\ queued = [t \in Tasks |-> 0]
  /\ child = [t \in Tasks |-> NoTask] /\ accepted = [t \in Tasks |-> 0]
  /\ told = [t \in Tasks |-> "none"]
  /\ closeReq = [t \in Tasks |-> "none"]

(***************************************************************************)
(* Helpers.  A definition named X_Y is a faulty variant of X: the bug that *)
(* the property it is paired with would catch.                             *)
(***************************************************************************)
\* AtomicUsize::fetch_add and fetch_sub wrap.
Inc(n) == IF n = UsizeMod - 1 THEN 0 ELSE n + 1
Dec_NoWrap(n) == n - 1
Dec(n) == IF n = 0 THEN UsizeMod - 1 ELSE n - 1

AtLimit == active >= MaxConnections

\* The map after insert(id, entry of t), after remove(&id), and after drain().
With_Forgotten(t) == sockets
With(t) == [sockets EXCEPT ![sid[t]] = t]
Without_Peeks(i) == sockets
Without(i) == [sockets EXCEPT ![i] = NoTask]
Drained_ListenersOnly ==
  [i \in Ids |-> IF sockets[i] # NoTask /\ kind[sockets[i]] = "listener"
                 THEN NoTask ELSE sockets[i]]
Drained == [i \in Ids |-> NoTask]

\* The map still owns the task's write_tx, _cancel or shutdown handle.
Held(t) == sockets[sid[t]] = t

Live(t) == pc[t] \notin {"idle", "done"}

\* The id run_listener gives the next connection it accepts.
ConnId(l) == (sid[l] * IdStride + 1 + accepted[l]) % IdMod

IsFresh(t) == pc[t] = "idle" /\ \A u \in Tasks : u < t => pc[u] # "idle"

\* The loop is waiting for the next message, and the client issues such a request.
Ready(op) == wsLoop = "reading" /\ handler = Idle /\ op \in ClientOps

\* Slot t starts at p as a socket of kind k under id i, with answer e.
Occupy(t, k, i, p, e) ==
  /\ IsFresh(t)
  /\ kind' = [kind EXCEPT ![t] = k] /\ sid' = [sid EXCEPT ![t] = i]
  /\ pc' = [pc EXCEPT ![t] = p] /\ told' = [told EXCEPT ![t] = e]
  /\ UNCHANGED <<bridgeVars, closeReq>>

\* The same for a request of the client's, under an id it may pick.
OccupyForClient(t, k, i, p, e) ==
  /\ ReuseIds \/ \A u \in Tasks : pc[u] # "idle" => sid[u] # i
  /\ Occupy(t, k, i, p, e)
  /\ UNCHANGED listenVars

\* Task t moves on to p, telling the client e.
GotoAndTell(t, p, e) ==
  /\ pc' = [pc EXCEPT ![t] = p] /\ told' = [told EXCEPT ![t] = e]
  /\ UNCHANGED <<kind, sid, bridgeVars, listenVars, closeReq>>
Goto(t, p) == GotoAndTell(t, p, told[t])

(***************************************************************************)
(* Requests that open something: dispatch, then the handler up to its      *)
(* first await or spawn                                                    *)
(***************************************************************************)
\* at_connection_limit: tcp, tls and udp requests are refused at the limit.
ConnectRefused(t, k, i) ==
  /\ Ready(k) /\ AtLimit
  /\ OccupyForClient(t, k, i, "done", "error")
  /\ UNCHANGED <<loopVars, active, sockets>>

\* handle_connect, handle_connect_tls: below the limit, spawn the connect task.
ConnectSpawned(t, k, i) ==
  /\ k # "udp" /\ Ready(k) /\ ~AtLimit
  /\ OccupyForClient(t, k, i, "resolving", "none")
  /\ UNCHANGED <<loopVars, active, sockets>>

\* handle_connect_udp runs inside the loop, which waits for it.
Awaited_Spawned(op, t) == Idle
Awaited(op, t) == [op |-> op, task |-> t]
ConnectUdpStarted(t, i) ==
  /\ Ready("udp") /\ ~AtLimit
  /\ OccupyForClient(t, "udp", i, "resolving", "none")
  /\ handler' = Awaited("connect_udp", t)
  /\ UNCHANGED <<wsLoop, sendTask, active, sockets>>

\* handle_bind when check_bind or TcpListener::bind says no.
BindRefused(t, i) ==
  /\ Ready("bind")
  /\ \E e \in {"denied", "error"} : OccupyForClient(t, "listener", i, "done", e)
  /\ UNCHANGED <<loopVars, active, sockets>>

\* handle_bind: Listening, insert, spawn run_listener.
Bound(t, i) ==
  /\ Ready("bind")
  /\ OccupyForClient(t, "listener", i, "accepting", "listening")
  /\ sockets' = [sockets EXCEPT ![i] = t]
  /\ UNCHANGED <<loopVars, active>>

\* handle_resolve: spawn the lookup.
ResolveSpawned(t, i) ==
  /\ Ready("resolve")
  /\ OccupyForClient(t, "resolve", i, "resolving", "none")
  /\ UNCHANGED <<loopVars, active, sockets>>

(***************************************************************************)
(* The connect tasks                                                       *)
(***************************************************************************)
\* The handler after a step of task t that settles its request.
Resumed(t) == IF handler.task = t THEN Idle ELSE handler

\* approved_target says no (policy, or a failed lookup): `denied`, and over.
TargetDenied(t) ==
  /\ pc[t] = "resolving" /\ kind[t] # "resolve"
  /\ GotoAndTell(t, "done", "denied")
  /\ handler' = Resumed(t)
  /\ UNCHANGED <<wsLoop, sendTask, active, sockets>>

TargetApproved(t) ==
  /\ pc[t] = "resolving" /\ kind[t] \in {"tcp", "tls"}
  /\ Goto(t, "connecting")
  /\ UNCHANGED <<loopVars, active, sockets>>

\* try_pool_or_connect, tcp_connect or tls_handshake fails.
ConnectFailed_Silent(t) ==
  /\ pc[t] \in {"connecting", "handshaking"}
  /\ Goto(t, "done")
  /\ UNCHANGED <<loopVars, active, sockets>>
ConnectFailed(t) ==
  /\ pc[t] \in {"connecting", "handshaking"}
  /\ GotoAndTell(t, "done", "error")
  /\ UNCHANGED <<loopVars, active, sockets>>

\* handle_connect_tls: tcp_connect is up, tls_handshake starts.
HandshakeStarted(t) ==
  /\ pc[t] = "connecting" /\ kind[t] = "tls"
  /\ Goto(t, "handshaking")
  /\ UNCHANGED <<loopVars, active, sockets>>

\* The stream is up: fetch_add, then Connected.  The map knows nothing of it yet.
Announce(t) ==
  /\ \/ pc[t] = "connecting" /\ kind[t] = "tcp"
     \/ pc[t] = "handshaking"
  /\ GotoAndTell(t, "announced", "connected")
  /\ active' = Inc(active)
  /\ UNCHANGED <<loopVars, sockets>>

\* The entry goes into the map (an older one under the id is dropped), then
\* run_bridge starts its two halves.
StartBridge(t) ==
  /\ sockets' = With(t)
  /\ pc' = [pc EXCEPT ![t] = "bridging"]
  /\ reader' = [reader EXCEPT ![t] = "open"] /\ writer' = [writer EXCEPT ![t] = "open"]
  /\ UNCHANGED <<loopVars, active, kind, sid, queued, told, closeReq>>

Register(t) ==
  /\ pc[t] = "announced" /\ kind[t] # "accepted"
  /\ StartBridge(t)
  /\ UNCHANGED listenVars

\* handle_connect_udp after approval: no socket.
UdpFailed(t) ==
  /\ pc[t] = "resolving" /\ kind[t] = "udp"
  /\ GotoAndTell(t, "done", "error")
  /\ handler' = Resumed(t)
  /\ UNCHANGED <<wsLoop, sendTask, active, sockets>>

\* handle_connect_udp: fetch_add, insert, UdpBound, spawn the receive task.
UdpOpened(t) ==
  /\ pc[t] = "resolving" /\ kind[t] = "udp"
  /\ active' = Inc(active)
  /\ sockets' = With(t)
  /\ GotoAndTell(t, "receiving", "udp_bound")
  /\ handler' = Resumed(t)
  /\ UNCHANGED <<wsLoop, sendTask>>

ResolveSettled(t) ==
  /\ pc[t] = "resolving" /\ kind[t] = "resolve"
  /\ \E e \in {"resolved", "error"} : GotoAndTell(t, "done", e)
  /\ UNCHANGED <<loopVars, active, sockets>>

(***************************************************************************)
(* run_bridge: a read task and a write task, joined                        *)
(***************************************************************************)
\* What the halves of a bridge leave alone.
onlyBridge == <<loopVars, active, sockets, kind, sid, pc, listenVars, closeReq>>

\* The peer's end of file (Closed) or a read error (Error) ends the read task.
ReaderEnds(t) ==
  /\ pc[t] = "bridging" /\ reader[t] = "open"
  /\ reader' = [reader EXCEPT ![t] = "ended"]
  /\ \E e \in {"closed", "error"} : told' = [told EXCEPT ![t] = e]
  /\ UNCHANGED <<writer, queued, onlyBridge>>

\* One queued message is written.
WriterWrites(t) ==
  /\ writer[t] = "open" /\ queued[t] > 0
  /\ queued' = [queued EXCEPT ![t] = @ - 1]
  /\ UNCHANGED <<reader, writer, told, onlyBridge>>

\* A failed write_all ends the write task and drops what is queued.
WriterFails(t) ==
  /\ writer[t] = "open" /\ queued[t] > 0
  /\ writer' = [writer EXCEPT ![t] = "ended"] /\ queued' = [queued EXCEPT ![t] = 0]
  /\ UNCHANGED <<reader, told, onlyBridge>>

\* write_rx.recv() is None: the queue is empty and write_tx was dropped.
WriterCloses(t) ==
  /\ writer[t] = "open" /\ queued[t] = 0 /\ ~Held(t)
  /\ writer' = [writer EXCEPT ![t] = "ended"]
  /\ UNCHANGED <<reader, queued, told, onlyBridge>>

\* Both halves joined.  A connect task gives its count back; an accepted
\* connection never took one.
GivenBack_Always(t) == Dec(active)
GivenBack(t) == IF kind[t] = "accepted" THEN active ELSE Dec(active)
BridgeEnds(t) ==
  /\ pc[t] = "bridging" /\ reader[t] = "ended" /\ writer[t] = "ended"
  /\ active' = GivenBack(t)
  /\ Goto(t, "removing")
  /\ UNCHANGED <<loopVars, sockets>>

\* sockets.remove(&id): whatever entry the id has now.  A UDP task then sends Closed.
Unregister(t) ==
  /\ pc[t] = "removing"
  /\ sockets' = Without(sid[t])
  /\ GotoAndTell(t, "done", IF kind[t] = "udp" THEN "closed" ELSE told[t])
  /\ UNCHANGED <<loopVars, active>>

(***************************************************************************)
(* The UDP receive task and run_listener                                   *)
(***************************************************************************)
\* Leaving the receive loop gives the count back.
UdpStops(t) ==
  /\ pc[t] = "receiving"
  /\ active' = Dec(active)
  /\ Goto(t, "removing")
  /\ UNCHANGED <<loopVars, sockets>>

UdpCancelled(t) == ~Held(t) /\ UdpStops(t)
UdpRecvFails(t) == UdpStops(t)

\* A connection arrives at l: it gets the next id and is announced.
Accept(l, t) ==
  /\ pc[l] = "accepting" /\ child[l] = NoTask
  /\ Occupy(t, "accepted", ConnId(l), "announced", "accepted")
  /\ child' = [child EXCEPT ![l] = t] /\ accepted' = [accepted EXCEPT ![l] = @ + 1]
  /\ UNCHANGED <<loopVars, active, sockets>>

\* The accepted connection t is inserted, uncounted, and its bridge spawned.
RegisterAccepted(l, t) ==
  /\ child[l] = t
  /\ StartBridge(t)
  /\ child' = [child EXCEPT ![l] = NoTask]
  /\ UNCHANGED accepted

\* accept() fails: Error, break, Closed.  The map entry stays.
AcceptFails(l) ==
  /\ pc[l] = "accepting" /\ child[l] = NoTask
  /\ GotoAndTell(l, "done", "closed")
  /\ UNCHANGED <<loopVars, active, sockets>>

\* shutdown_rx resolves: break, Closed.
ListenerStops(l) ==
  /\ pc[l] = "accepting" /\ child[l] = NoTask /\ ~Held(l)
  /\ GotoAndTell(l, "done", "closed")
  /\ UNCHANGED <<loopVars, active, sockets>>

(***************************************************************************)
(* Requests on an existing socket t, found under its id                    *)
(***************************************************************************)
\* handle_send on a Tcp entry.  A write channel whose receiver is gone swallows
\* the message.
SendQueued(t) ==
  /\ Ready("send") /\ Held(t)
  /\ writer[t] = "open" /\ queued[t] < MaxQueued
  /\ queued' = [queued EXCEPT ![t] = @ + 1]
  /\ UNCHANGED <<reader, writer, told, onlyBridge>>

\* handle_send_to clones the socket out of the map, then awaits approved_target.
SendToStarted(t) ==
  /\ Ready("send_to") /\ Held(t) /\ kind[t] = "udp"
  /\ handler' = Awaited("send_to", t)
  /\ UNCHANGED <<wsLoop, sendTask, active, sockets, taskVars>>

\* The destination is refused (Denied) or the datagram goes out.
SendToSettled ==
  /\ handler.op = "send_to"
  /\ \E e \in {"denied", told[handler.task]} : told' = [told EXCEPT ![handler.task] = e]
  /\ handler' = Idle
  /\ UNCHANGED <<wsLoop, sendTask, active, sockets, kind, sid, pc, bridgeVars, listenVars,
                 closeReq>>

\* handle_close on a present entry, under the lock: remove it; a Tcp or Udp
\* entry takes one off the counter, a Listener gets its shutdown signal.
CloseTaken(t) ==
  /\ Ready("close") /\ Held(t)
  /\ sockets' = Without(sid[t])
  /\ active' = IF kind[t] = "listener" THEN active ELSE Dec(active)
  /\ closeReq' = [closeReq EXCEPT ![t] = "taken"]
  /\ UNCHANGED <<loopVars, kind, sid, pc, bridgeVars, listenVars, told>>

\* handle_close with no entry under the id does nothing, even for a socket t
\* still being opened.
CloseMissed(t) ==
  /\ Ready("close") /\ Live(t) /\ closeReq[t] = "none"
  /\ sockets[sid[t]] = NoTask
  /\ closeReq' = [closeReq EXCEPT ![t] = "early"]
  /\ UNCHANGED <<loopVars, active, sockets, kind, sid, pc, bridgeVars, listenVars, told>>

\* dispatch, Request::Listen: a Listening event, whatever the id, and nothing else.
Listen(t) ==
  /\ Ready("listen") /\ pc[t] # "idle"
  /\ told' = [told EXCEPT ![t] = "listening"]
  /\ UNCHANGED <<loopVars, active, sockets, kind, sid, pc, bridgeVars, listenVars, closeReq>>

(***************************************************************************)
(* The end of the session                                                  *)
(***************************************************************************)
\* The read loop is over (close frame, error, end of stream): cleanup drains
\* the map, and the loop's Ctx is dropped.
LoopEnds ==
  /\ wsLoop = "reading" /\ handler = Idle
  /\ wsLoop' = "draining"
  /\ sockets' = Drained
  /\ UNCHANGED <<sendTask, handler, active, taskVars>>

\* ws_sink.send fails: the send task is gone, event_rx with it.
SinkFails ==
  /\ sendTask = "running" /\ \E t \in Tasks : told[t] # "none"
  /\ sendTask' = "stopped"
  /\ UNCHANGED <<wsLoop, handler, active, sockets, taskVars>>

\* event_rx.recv() is None: the loop and every task dropped its sender (that of
\* an accepted connection goes with its bridge).
ChannelCloses ==
  /\ sendTask = "running" /\ wsLoop = "draining"
  /\ \A t \in Tasks : Live(t) => pc[t] = "removing" /\ kind[t] = "accepted"
  /\ sendTask' = "stopped"
  /\ UNCHANGED <<wsLoop, handler, active, sockets, taskVars>>

\* send_task.await returns.
SessionEnds ==
  /\ wsLoop = "draining" /\ sendTask = "stopped"
  /\ wsLoop' = "ended"
  /\ UNCHANGED <<sendTask, handler, active, sockets, taskVars>>

(***************************************************************************)
(* The specification                                                       *)
(***************************************************************************)
OpenRequest(t, i) ==
  \/ \E k \in {"tcp", "tls", "udp"} : ConnectRefused(t, k, i) \/ ConnectSpawned(t, k, i)
  \/ ConnectUdpStarted(t, i)
  \/ BindRefused(t, i) \/ Bound(t, i)
  \/ ResolveSpawned(t, i)

SocketRequest(t) ==
  \/ SendQueued(t) \/ SendToStarted(t)
  \/ CloseTaken(t) \/ CloseMissed(t)
  \/ Listen(t)

ConnectStep(t) ==
  \/ TargetDenied(t) \/ TargetApproved(t) \/ ConnectFailed(t) \/ HandshakeStarted(t)
  \/ Announce(t) \/ Register(t)
  \/ UdpFailed(t) \/ UdpOpened(t)
  \/ ResolveSettled(t)

BridgeStep(t) ==
  \/ ReaderEnds(t)
  \/ WriterWrites(t) \/ WriterFails(t) \/ WriterCloses(t)
  \/ BridgeEnds(t) \/ Unregister(t)

UdpStep(t) == UdpCancelled(t) \/ UdpRecvFails(t)

ListenerStep(l) ==
  \/ \E t \in Tasks : Accept(l, t) \/ RegisterAccepted(l, t)
  \/ AcceptFails(l) \/ ListenerStops(l)

SessionStep == SendToSettled \/ LoopEnds \/ SinkFails \/ ChannelCloses \/ SessionEnds

Next ==
  \/ \E t \in Tasks :
       \/ \E i \in ClientIds : OpenRequest(t, i)
       \/ SocketRequest(t)
       \/ ConnectStep(t) \/ BridgeStep(t) \/ UdpStep(t) \/ ListenerStep(t)
  \/ SessionStep

\* What the runtime and the code keep going: lookups return, connects succeed,
\* fail or time out, and a ready task is polled.  Nothing bounds a TLS handshake.
Settles(t) ==
  \/ TargetDenied(t) \/ TargetApproved(t) \/ ResolveSettled(t) \/ UdpFailed(t) \/ UdpOpened(t)
  \/ pc[t] = "connecting" /\ (ConnectFailed(t) \/ Announce(t) \/ HandshakeStarted(t))

\* A plain TCP peer answers our FIN (sent when the write half is dropped) with
\* its own.  A dropped TLS write half sends nothing.
PeerAnswersFin(t) ==
  kind[t] # "tls" /\ writer[t] = "ended" /\ ReaderEnds(t)

Writer(t) == WriterWrites(t) \/ WriterFails(t) \/ WriterCloses(t)

Fairness ==
  /\ \A t \in Tasks :
       /\ WF_vars(Settles(t)) /\ WF_vars(Register(t))
       /\ WF_vars(Writer(t)) /\ WF_vars(PeerAnswersFin(t))
       /\ WF_vars(BridgeEnds(t)) /\ WF_vars(Unregister(t))
       /\ WF_vars(UdpCancelled(t))
       /\ WF_vars(\E u \in Tasks : RegisterAccepted(t, u)) /\ WF_vars(ListenerStops(t))
  /\ WF_vars(SendToSettled)
  /\ WF_vars(ChannelCloses) /\ WF_vars(SessionEnds)

Spec == Init /\ [][Next]_vars
FairSpec == Spec /\ Fairness

-----------------------------------------------------------------------------
(***************************************************************************)
(* What the session guarantees                                             *)
(***************************************************************************)
Kinds == {"none", "tcp", "tls", "udp", "listener", "accepted", "resolve"}
Pcs == {"idle", "resolving", "connecting", "handshaking", "announced", "bridging",
        "receiving", "accepting", "removing", "done"}
Told == {"none", "connected", "udp_bound", "listening", "accepted", "resolved", "closed",
         "error", "denied"}
Halves == {"off", "open", "ended"}

\* The types of the session's state; `active` stays a machine word.
TypeOK ==
  /\ wsLoop \in {"reading", "draining", "ended"}
  /\ sendTask \in {"running", "stopped"}
  /\ handler \in [op : {"none", "connect_udp", "send_to"}, task : Tasks \cup {NoTask}]
  /\ active \in 0 .. UsizeMod - 1
  /\ sockets \in [Ids -> Tasks \cup {NoTask}]
  /\ kind \in [Tasks -> Kinds] /\ sid \in [Tasks -> Ids] /\ pc \in [Tasks -> Pcs]
  /\ reader \in [Tasks -> Halves] /\ writer \in [Tasks -> Halves]
  /\ queued \in [Tasks -> Nat]
  /\ child \in [Tasks -> Tasks \cup {NoTask}] /\ accepted \in [Tasks -> Nat]
  /\ told \in [Tasks -> Told]
  /\ closeReq \in [Tasks -> {"none", "early", "taken"}]

\* No stale entries.  Every entry of the socket map belongs to a task that runs
\* under that id and has not finished: the trailing remove(&id) of each task
\* takes its entry out in time, whatever ids the client reuses.  A listener
\* whose accept() failed is the one exception, run_listener leaves its entry.
TableSound ==
  \A i \in Ids : sockets[i] # NoTask =>
    /\ sid[sockets[i]] = i
    /\ \/ pc[sockets[i]] \in {"bridging", "receiving", "accepting", "removing"}
       \/ kind[sockets[i]] = "listener" /\ pc[sockets[i]] = "done"

\* No other socket has had t's id.
SoleOwner(t) == \A u \in Tasks \ {t} : pc[u] # "idle" => sid[u] # sid[t]

\* No lost sockets.  While the loop is reading, a running bridge, UDP task or
\* listener that the client has not closed is in the map, so Send and Close
\* reach it, unless another socket was given the same id.
OpenIsReachable ==
  \A t \in Tasks :
    ( /\ wsLoop = "reading"
      /\ pc[t] \in {"bridging", "receiving", "accepting"}
      /\ closeReq[t] # "taken" /\ SoleOwner(t) )
    => Held(t)

\* Tasks that did their fetch_add and not yet their fetch_sub.
Counted ==
  {t \in Tasks : /\ kind[t] \in {"tcp", "tls", "udp"}
                 /\ pc[t] \in {"announced", "bridging", "receiving"}}

\* Tasks whose Tcp or Udp entry a close request took out.
ClosedByClient ==
  {t \in Tasks : closeReq[t] = "taken" /\ kind[t] # "listener"}

\* The exact value of `active`: the open connections, less one for every Tcp or
\* Udp socket the client ever closed (handle_close and the task's own end both
\* subtract; an accepted connection is never added), wrapping at the word size.
CounterExact ==
  active = (Cardinality(Counted) - Cardinality(ClosedByClient)) % UsizeMod

\* Teardown is complete for what the loop itself opens.  handle_bind and
\* handle_connect_udp are awaited by the loop, so once it has ended no listener
\* and no UDP socket is, or will be, in the map to keep a port open.
NoPortAfterTeardown ==
  wsLoop # "reading" =>
    \A t \in Tasks : kind[t] \in {"listener", "udp"} => ~Held(t)

\* A task that can outlive the session: a connection registered after cleanup
\* drained the map (its own entry keeps its writer waiting), or a TLS peer that
\* never finishes the handshake or never closes.
Stranded(t) ==
  \/ pc[t] = "bridging" /\ Held(t)
  \/ kind[t] = "tls" /\ (pc[t] = "handshaking" \/ reader[t] = "open")

\* After the read loop ends, handle_session returns; only a stranded task can
\* keep it waiting for its send task.
TeardownCompletes ==
  []<>(wsLoop # "draining") \/ \E t \in Tasks : <>[]Stranded(t)

\* A close request that finds the socket's entry ends its task, TLS aside.
CloseEndsTask ==
  []<>(\A t \in Tasks : closeReq[t] = "taken" /\ kind[t] # "tls" => pc[t] = "done")

\* Every connect, bind and resolve request is answered, a TLS handshake that
\* never finishes aside.
RequestsAnswered ==
  []<>(\A t \in Tasks : pc[t] # "idle" => told[t] # "none" \/ pc[t] = "handshaking")

(***************************************************************************)
(* What the documentation says of a session                                *)
(***************************************************************************)
\* README.md, Policy: "Connection limits - `max_connections` per session".
LimitRespected == Cardinality(Counted) <= MaxConnections

\* proxy.rs at_connection_limit: "max connections reached" is answered only when
\* that many connections are open.
RefusalJustified ==
  [][\A t \in Tasks, i \in ClientIds, k \in {"tcp", "tls", "udp"} :
       ConnectRefused(t, k, i) => Cardinality(Counted) >= MaxConnections]_vars

\* README.md, events: "closed: Socket closed".  A connection reported closed gives
\* its slot back.
ClosedFreesSlot ==
  \A t \in Tasks :
    wsLoop = "reading" /\ t \in Counted /\ told[t] = "closed" ~> t \notin Counted

\* README.md, requests: "close: Close a socket or listener", whenever it comes.
CloseIsFinal == \A t \in Tasks : closeReq[t] # "none" ~> pc[t] = "done"
=============================================================================
