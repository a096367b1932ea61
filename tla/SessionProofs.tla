---------------------------- MODULE SessionProofs ----------------------------
(***************************************************************************)
(* Proofs about Session, for every value of its constants: any number of   *)
(* tasks, any client, any word sizes.                                      *)
(***************************************************************************)
EXTENDS Session, FiniteSetTheorems, TLAPS

-----------------------------------------------------------------------------
(* Types *)

\* ConnId wraps into the id space.
LEMMA ConnIdType ==
  ASSUME TypeOK, NEW l \in Tasks
  PROVE  ConnId(l) \in Ids
<1>1. sid[l] \in Nat /\ accepted[l] \in Nat
  BY SessionAssumption DEF TypeOK, Ids
<1>2. sid[l] * IdStride + 1 + accepted[l] \in Nat
  BY <1>1, SessionAssumption
<1>. QED  BY <1>2, SessionAssumption DEF ConnId, Ids

\* No slot is the absent one.
LEMMA NoTaskIsNoTask == NoTask \notin Tasks
BY DEF Tasks, NoTask

\* The wrapping counter stays a word.
LEMMA CounterType ==
  ASSUME NEW n \in 0 .. UsizeMod - 1
  PROVE  Inc(n) \in 0 .. UsizeMod - 1 /\ Dec(n) \in 0 .. UsizeMod - 1
BY SessionAssumption DEF Inc, Dec

\* One step of the session keeps the type invariant.
LEMMA TypeStep == TypeOK /\ [Next]_vars => TypeOK'
<1>. SUFFICES ASSUME TypeOK, [Next]_vars PROVE TypeOK'
  OBVIOUS
<1>. USE SessionAssumption DEF TypeOK, loopVars, bridgeVars, listenVars, taskVars
<1>1. ASSUME NEW t \in Tasks, NEW i \in ClientIds, OpenRequest(t, i) PROVE TypeOK'
  <2>1. i \in Ids
    BY DEF Ids
  <2>. USE DEF OccupyForClient, Occupy, Kinds, Pcs, Told
  <2>3. ASSUME NEW k \in {"tcp", "tls", "udp"}, ConnectRefused(t, k, i) \/ ConnectSpawned(t, k, i)
        PROVE  TypeOK'
    BY <2>1, <2>3 DEF ConnectRefused, ConnectSpawned
  <2>4. CASE ConnectUdpStarted(t, i)
    BY <2>1, <2>4 DEF ConnectUdpStarted, Awaited
  <2>5. CASE BindRefused(t, i)
    BY <2>1, <2>5 DEF BindRefused
  <2>6. CASE Bound(t, i)
    BY <2>1, <2>6 DEF Bound
  <2>7. CASE ResolveSpawned(t, i)
    BY <2>1, <2>7 DEF ResolveSpawned
  <2>. QED  BY <1>1, <2>3, <2>4, <2>5, <2>6, <2>7 DEF OpenRequest
<1>2. ASSUME NEW t \in Tasks, SocketRequest(t) PROVE TypeOK'
  <2>1. CASE SendQueued(t) \/ SendToStarted(t)
    BY <2>1 DEF SendQueued, SendToStarted, Awaited, onlyBridge
  <2>2. CASE CloseTaken(t)
    BY <2>2, CounterType DEF CloseTaken, Without, NoTask
  <2>3. CASE CloseMissed(t) \/ Listen(t)
    BY <2>3 DEF CloseMissed, Listen, Told
  <2>. QED  BY <1>2, <2>1, <2>2, <2>3 DEF SocketRequest
<1>3. ASSUME NEW t \in Tasks, ConnectStep(t) PROVE TypeOK'
  <2>. USE DEF Goto, GotoAndTell, Pcs, Told
  <2>1. CASE TargetDenied(t) \/ UdpFailed(t)
    BY <2>1 DEF TargetDenied, UdpFailed, Resumed, Idle
  <2>2. CASE TargetApproved(t) \/ ConnectFailed(t) \/ HandshakeStarted(t)
    BY <2>2 DEF TargetApproved, ConnectFailed, HandshakeStarted
  <2>3. CASE Announce(t)
    BY <2>3, CounterType DEF Announce
  <2>4. CASE Register(t)
    BY <2>4 DEF Register, StartBridge, With, Halves
  <2>5. CASE UdpOpened(t)
    BY <2>5, CounterType DEF UdpOpened, Resumed, Idle, With
  <2>6. CASE ResolveSettled(t)
    BY <2>6 DEF ResolveSettled
  <2>. QED  BY <1>3, <2>1, <2>2, <2>3, <2>4, <2>5, <2>6 DEF ConnectStep
<1>4. ASSUME NEW t \in Tasks, BridgeStep(t) \/ UdpStep(t) PROVE TypeOK'
  <2>. USE DEF Goto, GotoAndTell, Pcs, Told
  <2>1. CASE ReaderEnds(t) \/ WriterWrites(t) \/ WriterFails(t) \/ WriterCloses(t)
    BY <2>1 DEF ReaderEnds, WriterWrites, WriterFails, WriterCloses, onlyBridge, Halves
  <2>2. CASE BridgeEnds(t) \/ UdpStep(t)
    BY <2>2, CounterType DEF BridgeEnds, GivenBack, UdpStep, UdpCancelled, UdpRecvFails, UdpStops
  <2>3. CASE Unregister(t)
    BY <2>3 DEF Unregister, Without, NoTask
  <2>. QED  BY <1>4, <2>1, <2>2, <2>3 DEF BridgeStep
<1>5. ASSUME NEW l \in Tasks, ListenerStep(l) PROVE TypeOK'
  <2>. USE DEF GotoAndTell, Kinds, Pcs, Told
  <2>1. ASSUME NEW t \in Tasks, Accept(l, t) PROVE TypeOK'
    BY <2>1, ConnIdType DEF Accept, Occupy
  <2>2. ASSUME NEW t \in Tasks, RegisterAccepted(l, t) PROVE TypeOK'
    BY <2>2 DEF RegisterAccepted, StartBridge, With, Halves, NoTask
  <2>3. CASE AcceptFails(l) \/ ListenerStops(l)
    BY <2>3 DEF AcceptFails, ListenerStops
  <2>. QED  BY <1>5, <2>1, <2>2, <2>3 DEF ListenerStep
<1>6. CASE SessionStep
  <2>1. CASE SendToSettled
    <3>1. PICK e \in {"denied", told[handler.task]} : told' = [told EXCEPT ![handler.task] = e]
      BY <2>1 DEF SendToSettled
    <3>2. CASE handler.task \in Tasks
      <4>1. e \in Told /\ told' \in [Tasks -> Told]
        BY <3>1, <3>2 DEF Told
      <4>. QED  BY <2>1, <4>1 DEF SendToSettled, Idle
    <3>3. CASE handler.task \notin Tasks
      <4>1. told' = told
        BY <3>1, <3>3
      <4>. QED  BY <2>1, <4>1 DEF SendToSettled, Idle
    <3>. QED  BY <3>2, <3>3
  <2>2. CASE LoopEnds \/ SinkFails \/ ChannelCloses \/ SessionEnds
    BY <2>2 DEF LoopEnds, SinkFails, ChannelCloses, SessionEnds, Drained, NoTask
  <2>. QED  BY <1>6, <2>1, <2>2 DEF SessionStep
<1>7. CASE UNCHANGED vars
  BY <1>7 DEF vars
<1>. QED  BY <1>1, <1>2, <1>3, <1>4, <1>5, <1>6, <1>7 DEF Next

\* The session's state keeps its types, the counter its width and every socket id
\* (those run_listener computes included) its range.
THEOREM TypeCorrect == Spec => []TypeOK
<1>1. Init => TypeOK
  BY SessionAssumption
  DEF Init, TypeOK, Idle, NoTask, Kinds, Ids, Pcs, Told, Halves
<1>. QED  BY <1>1, TypeStep, PTL DEF Spec

-----------------------------------------------------------------------------
(* The inductive invariant *)

\* The types that matter to the invariants below.
CoreTypes ==
  /\ sockets \in [Ids -> Tasks \cup {NoTask}]
  /\ kind \in [Tasks -> Kinds] /\ sid \in [Tasks -> Ids] /\ pc \in [Tasks -> Pcs]
  /\ child \in [Tasks -> Tasks \cup {NoTask}]
  /\ closeReq \in [Tasks -> {"none", "early", "taken"}]

\* They are part of the type invariant.
LEMMA CoreTypesHold == TypeOK => CoreTypes
BY DEF TypeOK, CoreTypes

\* Which kinds of task stand where.
KindFitsPc ==
  \A t \in Tasks :
    /\ pc[t] = "connecting" => kind[t] \in {"tcp", "tls"}
    /\ pc[t] = "handshaking" => kind[t] = "tls"
    /\ pc[t] \in {"announced", "bridging"} => kind[t] \in {"tcp", "tls", "accepted"}
    /\ pc[t] = "receiving" => kind[t] = "udp"
    /\ pc[t] = "accepting" => kind[t] = "listener"
    /\ pc[t] = "removing" => kind[t] \in {"tcp", "tls", "udp", "accepted"}

\* A close request takes the entry of a registered task, once: the task never
\* gets back into the map.
CloseIsOnce ==
  \A t \in Tasks : closeReq[t] = "taken" =>
    /\ pc[t] \in {"bridging", "receiving", "accepting", "removing", "done"}
    /\ ~Held(t)

\* The connection a listener is registering is its own, announced and no more.
ChildFits ==
  \A l \in Tasks : child[l] # NoTask =>
    /\ kind[child[l]] = "accepted" /\ pc[child[l]] = "announced"
    /\ \A m \in Tasks : child[m] = child[l] => m = l

\* The loop waits for the one UDP connect under way, and does not end meanwhile.
LoopAwaitsUdp ==
  /\ wsLoop # "reading" => handler = Idle
  /\ \A t \in Tasks :
       kind[t] = "udp" /\ pc[t] = "resolving" => handler = Awaited("connect_udp", t)

IndInv ==
  /\ TypeOK /\ KindFitsPc /\ ChildFits /\ LoopAwaitsUdp
  /\ TableSound /\ CloseIsOnce

\* Each of the first three conjuncts of IndInv needs only the types and itself.
LEMMA KindFitsPcStep == TypeOK /\ KindFitsPc /\ ChildFits /\ [Next]_vars => KindFitsPc'
<1>. SUFFICES ASSUME TypeOK, KindFitsPc, ChildFits, [Next]_vars PROVE KindFitsPc'
  OBVIOUS
<1>. USE CoreTypesHold DEF CoreTypes, KindFitsPc, loopVars, bridgeVars, listenVars, taskVars
<1>1. ASSUME NEW t \in Tasks, NEW i \in ClientIds, OpenRequest(t, i) PROVE KindFitsPc'
  BY <1>1
  DEF OpenRequest, ConnectRefused, ConnectSpawned, ConnectUdpStarted, BindRefused, Bound,
      ResolveSpawned, OccupyForClient, Occupy
<1>2. ASSUME NEW t \in Tasks, SocketRequest(t) PROVE KindFitsPc'
  BY <1>2
  DEF SocketRequest, SendQueued, SendToStarted, CloseTaken, CloseMissed, Listen, onlyBridge
<1>3. ASSUME NEW t \in Tasks, ConnectStep(t) PROVE KindFitsPc'
  BY <1>3
  DEF ConnectStep, TargetDenied, TargetApproved, ConnectFailed, HandshakeStarted, Announce,
      Register, UdpFailed, UdpOpened, ResolveSettled, Goto, GotoAndTell, StartBridge
<1>4. ASSUME NEW t \in Tasks, BridgeStep(t) \/ UdpStep(t) PROVE KindFitsPc'
  BY <1>4
  DEF BridgeStep, ReaderEnds, WriterWrites, WriterFails, WriterCloses, BridgeEnds, Unregister,
      UdpStep, UdpCancelled, UdpRecvFails, UdpStops, Goto, GotoAndTell, onlyBridge
<1>5. ASSUME NEW l \in Tasks, ListenerStep(l) PROVE KindFitsPc'
  <2>1. ASSUME NEW t \in Tasks, Accept(l, t) PROVE KindFitsPc'
    BY <2>1 DEF Accept, Occupy
  <2>2. ASSUME NEW t \in Tasks, RegisterAccepted(l, t) PROVE KindFitsPc'
    <3>1. kind[t] = "accepted"
      BY <2>2, NoTaskIsNoTask DEF RegisterAccepted, ChildFits
    <3>. QED  BY <2>2, <3>1 DEF RegisterAccepted, StartBridge
  <2>3. CASE AcceptFails(l) \/ ListenerStops(l)
    BY <2>3 DEF AcceptFails, ListenerStops, GotoAndTell
  <2>. QED  BY <1>5, <2>1, <2>2, <2>3 DEF ListenerStep
<1>6. CASE SessionStep
  BY <1>6 DEF SessionStep, SendToSettled, LoopEnds, SinkFails, ChannelCloses, SessionEnds
<1>7. CASE UNCHANGED vars
  BY <1>7 DEF vars
<1>. QED  BY <1>1, <1>2, <1>3, <1>4, <1>5, <1>6, <1>7 DEF Next

\* What a request that opens something does: it takes a slot nobody had, only a bound
\* listener gets an entry at once, and only a UDP connect suspends the loop.
LEMMA OpenRequestEffect ==
  ASSUME TypeOK, NEW t \in Tasks, NEW i \in ClientIds, OpenRequest(t, i)
  PROVE  /\ pc[t] = "idle" /\ wsLoop = "reading" /\ handler = Idle
         /\ UNCHANGED <<wsLoop, active, closeReq, child>>
         /\ sid' = [sid EXCEPT ![t] = i]
         /\ kind' = [kind EXCEPT ![t] = kind'[t]]
         /\ pc' = [pc EXCEPT ![t] = pc'[t]]
         /\ \/ sockets' = sockets /\ pc'[t] \in {"resolving", "done"}
            \/ /\ sockets' = [sockets EXCEPT ![i] = t]
               /\ kind'[t] = "listener" /\ pc'[t] = "accepting"
         /\ \/ handler' = handler /\ ~(kind'[t] = "udp" /\ pc'[t] = "resolving")
            \/ handler' = Awaited("connect_udp", t)
<1>. USE CoreTypesHold DEF CoreTypes, loopVars, listenVars, Ready, OccupyForClient, Occupy, IsFresh
<1>1. CASE \E k \in {"tcp", "tls", "udp"} : ConnectRefused(t, k, i)
  BY <1>1 DEF ConnectRefused
<1>2. CASE \E k \in {"tcp", "tls", "udp"} : ConnectSpawned(t, k, i)
  BY <1>2 DEF ConnectSpawned
<1>3. CASE ConnectUdpStarted(t, i)
  BY <1>3 DEF ConnectUdpStarted
<1>4. CASE BindRefused(t, i)
  BY <1>4 DEF BindRefused
<1>5. CASE Bound(t, i)
  BY <1>5 DEF Bound
<1>6. CASE ResolveSpawned(t, i)
  BY <1>6 DEF ResolveSpawned
<1>. QED  BY <1>1, <1>2, <1>3, <1>4, <1>5, <1>6 DEF OpenRequest

\* A listener registers one announced connection at a time.
LEMMA ChildFitsStep == TypeOK /\ KindFitsPc /\ ChildFits /\ [Next]_vars => ChildFits'
<1>. SUFFICES ASSUME TypeOK, KindFitsPc, ChildFits, [Next]_vars PROVE ChildFits'
  OBVIOUS
<1>. USE CoreTypesHold DEF CoreTypes, ChildFits, loopVars, bridgeVars, listenVars, taskVars
<1>1. ASSUME NEW t \in Tasks, NEW i \in ClientIds, OpenRequest(t, i) PROVE ChildFits'
  BY <1>1, OpenRequestEffect
<1>2. ASSUME NEW t \in Tasks, SocketRequest(t) PROVE ChildFits'
  BY <1>2
  DEF SocketRequest, SendQueued, SendToStarted, CloseTaken, CloseMissed, Listen, onlyBridge
<1>3. ASSUME NEW t \in Tasks, ConnectStep(t) PROVE ChildFits'
  BY <1>3
  DEF ConnectStep, TargetDenied, TargetApproved, ConnectFailed, HandshakeStarted, Announce,
      Register, UdpFailed, UdpOpened, ResolveSettled, Goto, GotoAndTell, StartBridge
<1>4. ASSUME NEW t \in Tasks, BridgeStep(t) \/ UdpStep(t) PROVE ChildFits'
  BY <1>4
  DEF BridgeStep, ReaderEnds, WriterWrites, WriterFails, WriterCloses, BridgeEnds, Unregister,
      UdpStep, UdpCancelled, UdpRecvFails, UdpStops, Goto, GotoAndTell, onlyBridge
<1>5. ASSUME NEW l \in Tasks, ListenerStep(l) PROVE ChildFits'
  <2>1. ASSUME NEW t \in Tasks, Accept(l, t) PROVE ChildFits'
    BY <2>1 DEF Accept, Occupy, IsFresh
  <2>2. ASSUME NEW t \in Tasks, RegisterAccepted(l, t) PROVE ChildFits'
    BY <2>2 DEF RegisterAccepted, StartBridge
  <2>3. CASE AcceptFails(l) \/ ListenerStops(l)
    BY <2>3 DEF AcceptFails, ListenerStops, GotoAndTell
  <2>. QED  BY <1>5, <2>1, <2>2, <2>3 DEF ListenerStep
<1>6. CASE SessionStep
  BY <1>6 DEF SessionStep, SendToSettled, LoopEnds, SinkFails, ChannelCloses, SessionEnds
<1>7. CASE UNCHANGED vars
  BY <1>7 DEF vars
<1>. QED  BY <1>1, <1>2, <1>3, <1>4, <1>5, <1>6, <1>7 DEF Next

\* The loop stays suspended exactly while the UDP connect is under way.
LEMMA LoopAwaitsUdpStep == TypeOK /\ KindFitsPc /\ LoopAwaitsUdp /\ [Next]_vars => LoopAwaitsUdp'
<1>. SUFFICES ASSUME TypeOK, KindFitsPc, LoopAwaitsUdp, [Next]_vars PROVE LoopAwaitsUdp'
  OBVIOUS
<1>. USE CoreTypesHold, NoTaskIsNoTask DEF CoreTypes, LoopAwaitsUdp, Idle, Awaited, Ready, Resumed, loopVars, bridgeVars, listenVars, taskVars
<1>1. ASSUME NEW t \in Tasks, NEW i \in ClientIds, OpenRequest(t, i) PROVE LoopAwaitsUdp'
  BY <1>1, OpenRequestEffect
<1>2. ASSUME NEW t \in Tasks, SocketRequest(t) PROVE LoopAwaitsUdp'
  BY <1>2
  DEF SocketRequest, SendQueued, SendToStarted, CloseTaken, CloseMissed, Listen, onlyBridge
<1>3. ASSUME NEW t \in Tasks, ConnectStep(t) PROVE LoopAwaitsUdp'
  BY <1>3
  DEF ConnectStep, TargetDenied, TargetApproved, ConnectFailed, HandshakeStarted, Announce,
      Register, UdpFailed, UdpOpened, ResolveSettled, Goto, GotoAndTell, StartBridge
<1>4. ASSUME NEW t \in Tasks, BridgeStep(t) \/ UdpStep(t) PROVE LoopAwaitsUdp'
  BY <1>4
  DEF BridgeStep, ReaderEnds, WriterWrites, WriterFails, WriterCloses, BridgeEnds, Unregister,
      UdpStep, UdpCancelled, UdpRecvFails, UdpStops, Goto, GotoAndTell, onlyBridge
<1>5. ASSUME NEW l \in Tasks, ListenerStep(l) PROVE LoopAwaitsUdp'
  <2>1. ASSUME NEW t \in Tasks, Accept(l, t) PROVE LoopAwaitsUdp'
    BY <2>1 DEF Accept, Occupy, IsFresh
  <2>2. ASSUME NEW t \in Tasks, RegisterAccepted(l, t) PROVE LoopAwaitsUdp'
    BY <2>2 DEF RegisterAccepted, StartBridge
  <2>3. CASE AcceptFails(l) \/ ListenerStops(l)
    BY <2>3 DEF AcceptFails, ListenerStops, GotoAndTell
  <2>. QED  BY <1>5, <2>1, <2>2, <2>3 DEF ListenerStep
<1>6. CASE SessionStep
  BY <1>6
  DEF SessionStep, SendToSettled, LoopEnds, SinkFails, ChannelCloses, SessionEnds
<1>7. CASE UNCHANGED vars
  BY <1>7 DEF vars
<1>. QED  BY <1>1, <1>2, <1>3, <1>4, <1>5, <1>6, <1>7 DEF Next

\* A task's entry goes in once it runs and out before it is done.
LEMMA TableSoundStep == TypeOK /\ KindFitsPc /\ ChildFits /\ TableSound /\ [Next]_vars => TableSound'
<1>. SUFFICES ASSUME TypeOK, KindFitsPc, ChildFits, TableSound, [Next]_vars PROVE TableSound'
  OBVIOUS
<1>. USE CoreTypesHold, NoTaskIsNoTask, SessionAssumption DEF CoreTypes, TableSound, loopVars, bridgeVars, listenVars, taskVars
<1>1. ASSUME NEW t \in Tasks, NEW i \in ClientIds, OpenRequest(t, i) PROVE TableSound'
  <2>. SUFFICES ASSUME NEW j \in Ids, sockets'[j] # NoTask
                PROVE  /\ sid'[sockets'[j]] = j
                       /\ \/ pc'[sockets'[j]] \in {"bridging", "receiving", "accepting", "removing"}
                          \/ kind'[sockets'[j]] = "listener" /\ pc'[sockets'[j]] = "done"
    BY DEF TableSound
  <2>1. i \in Ids
    BY DEF Ids
  <2>2. CASE sockets'[j] = sockets[j]
    <3>1. sockets[j] \in Tasks /\ sockets[j] # t
      BY <1>1, <2>2, OpenRequestEffect
    <3>. QED  BY <1>1, <2>2, <3>1, OpenRequestEffect
  <2>3. CASE j = i /\ sockets' = [sockets EXCEPT ![i] = t] /\ pc'[t] = "accepting"
    BY <1>1, <2>1, <2>3, OpenRequestEffect
  <2>. QED  BY <1>1, <2>1, <2>2, <2>3, OpenRequestEffect
<1>2. ASSUME NEW t \in Tasks, SocketRequest(t) PROVE TableSound'
  BY <1>2
  DEF SocketRequest, SendQueued, SendToStarted, CloseTaken, CloseMissed, Listen, onlyBridge, Held, Without
<1>3. ASSUME NEW t \in Tasks, ConnectStep(t) PROVE TableSound'
  <2>. USE DEF Goto, GotoAndTell
  <2>1. CASE TargetDenied(t) \/ UdpFailed(t)
    BY <2>1 DEF TargetDenied, UdpFailed, KindFitsPc
  <2>2. CASE TargetApproved(t) \/ ConnectFailed(t)
    BY <2>2 DEF TargetApproved, ConnectFailed, KindFitsPc
  <2>3. CASE HandshakeStarted(t) \/ Announce(t)
    BY <2>3 DEF HandshakeStarted, Announce, KindFitsPc
  <2>4. CASE Register(t)
    BY <2>4 DEF Register, StartBridge, KindFitsPc, With
  <2>5. CASE UdpOpened(t)
    BY <2>5 DEF UdpOpened, KindFitsPc, With
  <2>6. CASE ResolveSettled(t)
    BY <2>6 DEF ResolveSettled, KindFitsPc
  <2>. QED  BY <1>3, <2>1, <2>2, <2>3, <2>4, <2>5, <2>6 DEF ConnectStep
<1>4. ASSUME NEW t \in Tasks, BridgeStep(t) \/ UdpStep(t) PROVE TableSound'
  <2>. USE DEF Goto, GotoAndTell
  <2>1. CASE ReaderEnds(t) \/ WriterWrites(t)
    BY <2>1 DEF ReaderEnds, WriterWrites, onlyBridge
  <2>2. CASE WriterFails(t) \/ WriterCloses(t)
    BY <2>2 DEF WriterFails, WriterCloses, onlyBridge
  <2>3. CASE BridgeEnds(t)
    BY <2>3 DEF BridgeEnds
  <2>4. CASE Unregister(t)
    BY <2>4 DEF Unregister, Without
  <2>5. CASE UdpStep(t)
    BY <2>5 DEF UdpStep, UdpCancelled, UdpRecvFails, UdpStops
  <2>. QED  BY <1>4, <2>1, <2>2, <2>3, <2>4, <2>5 DEF BridgeStep
<1>5. ASSUME NEW l \in Tasks, ListenerStep(l) PROVE TableSound'
  <2>1. ASSUME NEW t \in Tasks, Accept(l, t) PROVE TableSound'
    BY <2>1, ConnIdType DEF Accept, Occupy, IsFresh, KindFitsPc, ChildFits
  <2>2. ASSUME NEW t \in Tasks, RegisterAccepted(l, t) PROVE TableSound'
    BY <2>2 DEF RegisterAccepted, StartBridge, KindFitsPc, ChildFits, With
  <2>3. CASE AcceptFails(l) \/ ListenerStops(l)
    BY <2>3 DEF AcceptFails, ListenerStops, GotoAndTell, KindFitsPc, ChildFits
  <2>. QED  BY <1>5, <2>1, <2>2, <2>3 DEF ListenerStep
<1>6. CASE SessionStep
  BY <1>6
  DEF SessionStep, SendToSettled, LoopEnds, SinkFails, ChannelCloses, SessionEnds, Drained
<1>7. CASE UNCHANGED vars
  BY <1>7 DEF vars
<1>. QED  BY <1>1, <1>2, <1>3, <1>4, <1>5, <1>6, <1>7 DEF Next

\* No step puts a closed task back into the map.
LEMMA CloseIsOnceStep == TypeOK /\ ChildFits /\ TableSound /\ CloseIsOnce /\ [Next]_vars => CloseIsOnce'
<1>. SUFFICES ASSUME TypeOK, ChildFits, TableSound, CloseIsOnce, [Next]_vars PROVE CloseIsOnce'
  OBVIOUS
<1>. USE CoreTypesHold, NoTaskIsNoTask, SessionAssumption DEF CoreTypes, CloseIsOnce, Held, loopVars, bridgeVars, listenVars, taskVars
<1>1. ASSUME NEW t \in Tasks, NEW i \in ClientIds, OpenRequest(t, i) PROVE CloseIsOnce'
  BY <1>1, OpenRequestEffect
<1>2. ASSUME NEW t \in Tasks, SocketRequest(t) PROVE CloseIsOnce'
  <2>1. CASE SendQueued(t) \/ SendToStarted(t)
    BY <2>1 DEF SendQueued, SendToStarted, onlyBridge
  <2>2. CASE CloseTaken(t)
    BY <2>2 DEF CloseTaken, TableSound, Without
  <2>3. CASE CloseMissed(t)
    BY <2>3 DEF CloseMissed
  <2>4. CASE Listen(t)
    BY <2>4 DEF Listen
  <2>. QED  BY <1>2, <2>1, <2>2, <2>3, <2>4 DEF SocketRequest
<1>3. ASSUME NEW t \in Tasks, ConnectStep(t) PROVE CloseIsOnce'
  <2>. USE DEF Goto, GotoAndTell
  <2>1. CASE TargetDenied(t) \/ UdpFailed(t)
    BY <2>1 DEF TargetDenied, UdpFailed
  <2>2. CASE TargetApproved(t) \/ ConnectFailed(t)
    BY <2>2 DEF TargetApproved, ConnectFailed
  <2>3. CASE HandshakeStarted(t) \/ Announce(t)
    BY <2>3 DEF HandshakeStarted, Announce
  <2>4. CASE Register(t)
    BY <2>4 DEF Register, StartBridge, With
  <2>5. CASE UdpOpened(t)
    BY <2>5 DEF UdpOpened, With
  <2>6. CASE ResolveSettled(t)
    BY <2>6 DEF ResolveSettled
  <2>. QED  BY <1>3, <2>1, <2>2, <2>3, <2>4, <2>5, <2>6 DEF ConnectStep
<1>4. ASSUME NEW t \in Tasks, BridgeStep(t) \/ UdpStep(t) PROVE CloseIsOnce'
  <2>. USE DEF Goto, GotoAndTell
  <2>1. CASE ReaderEnds(t) \/ WriterWrites(t)
    BY <2>1 DEF ReaderEnds, WriterWrites, onlyBridge
  <2>2. CASE WriterFails(t) \/ WriterCloses(t)
    BY <2>2 DEF WriterFails, WriterCloses, onlyBridge
  <2>3. CASE BridgeEnds(t)
    BY <2>3 DEF BridgeEnds
  <2>4. CASE Unregister(t)
    BY <2>4 DEF Unregister, Without
  <2>5. CASE UdpStep(t)
    BY <2>5 DEF UdpStep, UdpCancelled, UdpRecvFails, UdpStops
  <2>. QED  BY <1>4, <2>1, <2>2, <2>3, <2>4, <2>5 DEF BridgeStep
<1>5. ASSUME NEW l \in Tasks, ListenerStep(l) PROVE CloseIsOnce'
  BY <1>5, ConnIdType
  DEF ListenerStep, Accept, Occupy, IsFresh, RegisterAccepted, StartBridge, AcceptFails,
      ListenerStops, GotoAndTell, ChildFits, With
<1>6. CASE SessionStep
  BY <1>6
  DEF SessionStep, SendToSettled, LoopEnds, SinkFails, ChannelCloses, SessionEnds, Drained
<1>7. CASE UNCHANGED vars
  BY <1>7 DEF vars
<1>. QED  BY <1>1, <1>2, <1>3, <1>4, <1>5, <1>6, <1>7 DEF Next

\* IndInv is inductive.
LEMMA IndInvHolds == Spec => []IndInv
<1>1. Init => IndInv
  BY SessionAssumption
  DEF Init, IndInv, TypeOK, Idle, NoTask, Kinds, Ids, Pcs, Told, Halves, KindFitsPc, ChildFits,
      LoopAwaitsUdp, TableSound, CloseIsOnce
<1>2. IndInv /\ [Next]_vars => IndInv'
  BY TypeStep, KindFitsPcStep, ChildFitsStep, LoopAwaitsUdpStep, TableSoundStep, CloseIsOnceStep
  DEF IndInv
<1>. QED  BY <1>1, <1>2, PTL DEF Spec

\* Every entry of the socket map belongs to a task that runs under that id and has
\* not finished, for any client: whatever ids it reuses, and whatever ids
\* run_listener's wrapping arithmetic produces.
THEOREM TableAlwaysSound == Spec => []TableSound
<1>1. IndInv => TableSound
  BY DEF IndInv
<1>. QED  BY <1>1, IndInvHolds, PTL

-----------------------------------------------------------------------------
(* Reachability and teardown *)

\* After the loop has ended nothing inserts a listener or a UDP socket.
LEMMA NoPortStep == IndInv /\ NoPortAfterTeardown /\ [Next]_vars => NoPortAfterTeardown'
<1>. SUFFICES ASSUME IndInv, NoPortAfterTeardown, [Next]_vars PROVE NoPortAfterTeardown'
  OBVIOUS
<1>. USE CoreTypesHold, NoTaskIsNoTask, SessionAssumption DEF IndInv, CoreTypes, NoPortAfterTeardown, Held, loopVars, bridgeVars, listenVars, taskVars
<1>1. ASSUME NEW t \in Tasks, NEW i \in ClientIds, OpenRequest(t, i) PROVE NoPortAfterTeardown'
  BY <1>1
  DEF OpenRequest, ConnectRefused, ConnectSpawned, ConnectUdpStarted, BindRefused, Bound,
      ResolveSpawned, OccupyForClient, Occupy, IsFresh, TableSound, Ready, Ids
<1>2. ASSUME NEW t \in Tasks, SocketRequest(t) PROVE NoPortAfterTeardown'
  BY <1>2
  DEF SocketRequest, SendQueued, SendToStarted, CloseTaken, CloseMissed, Listen, onlyBridge, Without, Ready
<1>3. ASSUME NEW t \in Tasks, ConnectStep(t) PROVE NoPortAfterTeardown'
  <2>. USE DEF Goto, GotoAndTell
  <2>1. CASE TargetDenied(t) \/ UdpFailed(t)
    BY <2>1 DEF TargetDenied, UdpFailed, KindFitsPc, LoopAwaitsUdp, Awaited, Idle
  <2>2. CASE TargetApproved(t) \/ ConnectFailed(t)
    BY <2>2 DEF TargetApproved, ConnectFailed, KindFitsPc, LoopAwaitsUdp, Awaited, Idle
  <2>3. CASE HandshakeStarted(t) \/ Announce(t)
    BY <2>3 DEF HandshakeStarted, Announce, KindFitsPc, LoopAwaitsUdp, Awaited, Idle
  <2>4. CASE Register(t)
    BY <2>4 DEF Register, StartBridge, KindFitsPc, LoopAwaitsUdp, Awaited, Idle, With
  <2>5. CASE UdpOpened(t)
    BY <2>5 DEF UdpOpened, KindFitsPc, LoopAwaitsUdp, Awaited, Idle, With
  <2>6. CASE ResolveSettled(t)
    BY <2>6 DEF ResolveSettled, KindFitsPc, LoopAwaitsUdp, Awaited, Idle
  <2>. QED  BY <1>3, <2>1, <2>2, <2>3, <2>4, <2>5, <2>6 DEF ConnectStep
<1>4. ASSUME NEW t \in Tasks, BridgeStep(t) \/ UdpStep(t) PROVE NoPortAfterTeardown'
  <2>. USE DEF Goto, GotoAndTell
  <2>1. CASE ReaderEnds(t) \/ WriterWrites(t)
    BY <2>1 DEF ReaderEnds, WriterWrites, onlyBridge
  <2>2. CASE WriterFails(t) \/ WriterCloses(t)
    BY <2>2 DEF WriterFails, WriterCloses, onlyBridge
  <2>3. CASE BridgeEnds(t)
    BY <2>3 DEF BridgeEnds
  <2>4. CASE Unregister(t)
    BY <2>4 DEF Unregister, Without
  <2>5. CASE UdpStep(t)
    BY <2>5 DEF UdpStep, UdpCancelled, UdpRecvFails, UdpStops
  <2>. QED  BY <1>4, <2>1, <2>2, <2>3, <2>4, <2>5 DEF BridgeStep
<1>5. ASSUME NEW l \in Tasks, ListenerStep(l) PROVE NoPortAfterTeardown'
  <2>1. ASSUME NEW t \in Tasks, Accept(l, t) PROVE NoPortAfterTeardown'
    BY <2>1, ConnIdType DEF Accept, Occupy, IsFresh, KindFitsPc, ChildFits, TableSound
  <2>2. ASSUME NEW t \in Tasks, RegisterAccepted(l, t) PROVE NoPortAfterTeardown'
    BY <2>2 DEF RegisterAccepted, StartBridge, KindFitsPc, ChildFits, TableSound, With
  <2>3. CASE AcceptFails(l) \/ ListenerStops(l)
    BY <2>3 DEF AcceptFails, ListenerStops, GotoAndTell
  <2>. QED  BY <1>5, <2>1, <2>2, <2>3 DEF ListenerStep
<1>6. CASE SessionStep
  BY <1>6
  DEF SessionStep, SendToSettled, LoopEnds, SinkFails, ChannelCloses, SessionEnds, Drained
<1>7. CASE UNCHANGED vars
  BY <1>7 DEF vars
<1>. QED  BY <1>1, <1>2, <1>3, <1>4, <1>5, <1>6, <1>7 DEF Next

\* Once the read loop has ended, no listener and no UDP socket is in the map: cleanup
\* drained those that were, and the loop awaits whatever would insert another.
THEOREM NoPortStaysOpen == Spec => []NoPortAfterTeardown
<1>1. Init => NoPortAfterTeardown
  BY DEF Init, NoPortAfterTeardown
<1>2. IndInv /\ NoPortAfterTeardown /\ [Next]_vars => NoPortAfterTeardown'
  BY NoPortStep
<1>. QED  BY <1>1, <1>2, IndInvHolds, PTL DEF Spec

\* Only the owner of an id, or a close request for it, takes its entry out.
LEMMA ReachableStep == IndInv /\ OpenIsReachable /\ [Next]_vars => OpenIsReachable'
<1>. SUFFICES ASSUME IndInv, OpenIsReachable, [Next]_vars PROVE OpenIsReachable'
  OBVIOUS
<1>. USE CoreTypesHold, NoTaskIsNoTask, SessionAssumption DEF IndInv, CoreTypes, OpenIsReachable, SoleOwner, Held, loopVars, bridgeVars, listenVars, taskVars
<1>1. ASSUME NEW t \in Tasks, NEW i \in ClientIds, OpenRequest(t, i) PROVE OpenIsReachable'
  <2>. SUFFICES ASSUME NEW u \in Tasks, wsLoop' = "reading",
                       pc'[u] \in {"bridging", "receiving", "accepting"},
                       closeReq'[u] # "taken", SoleOwner(u)'
                PROVE  sockets'[sid'[u]] = u
    BY DEF OpenIsReachable, Held
  <2>1. i \in Ids
    BY DEF Ids
  <2>2. CASE u = t
    BY <1>1, <2>1, <2>2, OpenRequestEffect
  <2>3. CASE u # t
    <3>1. sid'[u] = sid[u] /\ pc'[u] = pc[u] /\ closeReq'[u] = closeReq[u] /\ wsLoop = "reading"
      BY <1>1, <2>3, OpenRequestEffect
    <3>2. pc'[t] \in {"resolving", "done", "accepting"} /\ sid'[t] = i
      BY <1>1, OpenRequestEffect
    <3>3. sid[u] # i
      BY <2>3, <3>1, <3>2 DEF SoleOwner
    <3>4. SoleOwner(u)
      BY <1>1, <2>3, <3>1, OpenRequestEffect DEF SoleOwner
    <3>5. sockets[sid[u]] = u
      BY <3>1, <3>4 DEF OpenIsReachable, Held
    <3>6. sockets' = sockets \/ sockets' = [sockets EXCEPT ![i] = t]
      BY <1>1, OpenRequestEffect
    <3>7. sid[u] \in Ids /\ sockets'[sid[u]] = sockets[sid[u]]
      BY <2>1, <3>3, <3>6
    <3>. QED  BY <3>1, <3>5, <3>7
  <2>. QED  BY <2>2, <2>3
<1>2. ASSUME NEW t \in Tasks, SocketRequest(t) PROVE OpenIsReachable'
  <2>1. CASE SendQueued(t) \/ SendToStarted(t)
    <3>1. UNCHANGED <<wsLoop, sockets, pc, sid, closeReq>>
      BY <2>1 DEF SendQueued, SendToStarted, onlyBridge
    <3>. QED  BY <3>1
  <2>2. CASE CloseTaken(t)
    BY <2>2 DEF CloseTaken, TableSound, Without
  <2>3. CASE CloseMissed(t)
    BY <2>3 DEF CloseMissed
  <2>4. CASE Listen(t)
    <3>1. UNCHANGED <<wsLoop, sockets, pc, sid, closeReq>>
      BY <2>4 DEF Listen
    <3>. QED  BY <3>1
  <2>. QED  BY <1>2, <2>1, <2>2, <2>3, <2>4 DEF SocketRequest
<1>3. ASSUME NEW t \in Tasks, ConnectStep(t) PROVE OpenIsReachable'
  <2>. USE DEF Goto, GotoAndTell
  <2>1. CASE TargetDenied(t) \/ UdpFailed(t)
    BY <2>1 DEF TargetDenied, UdpFailed
  <2>2. CASE TargetApproved(t) \/ ConnectFailed(t)
    BY <2>2 DEF TargetApproved, ConnectFailed
  <2>3. CASE HandshakeStarted(t) \/ Announce(t)
    BY <2>3 DEF HandshakeStarted, Announce
  <2>4. CASE Register(t)
    BY <2>4 DEF Register, StartBridge, With
  <2>5. CASE UdpOpened(t)
    BY <2>5 DEF UdpOpened, With
  <2>6. CASE ResolveSettled(t)
    BY <2>6 DEF ResolveSettled
  <2>. QED  BY <1>3, <2>1, <2>2, <2>3, <2>4, <2>5, <2>6 DEF ConnectStep
<1>4. ASSUME NEW t \in Tasks, BridgeStep(t) \/ UdpStep(t) PROVE OpenIsReachable'
  <2>. USE DEF Goto, GotoAndTell
  <2>1. CASE ReaderEnds(t) \/ WriterWrites(t)
    BY <2>1 DEF ReaderEnds, WriterWrites, onlyBridge
  <2>2. CASE WriterFails(t) \/ WriterCloses(t)
    BY <2>2 DEF WriterFails, WriterCloses, onlyBridge
  <2>3. CASE BridgeEnds(t)
    BY <2>3 DEF BridgeEnds
  <2>4. CASE Unregister(t)
    BY <2>4 DEF Unregister, Without
  <2>5. CASE UdpStep(t)
    BY <2>5 DEF UdpStep, UdpCancelled, UdpRecvFails, UdpStops
  <2>. QED  BY <1>4, <2>1, <2>2, <2>3, <2>4, <2>5 DEF BridgeStep
<1>5. ASSUME NEW l \in Tasks, ListenerStep(l) PROVE OpenIsReachable'
  <2>1. ASSUME NEW t \in Tasks, Accept(l, t) PROVE OpenIsReachable'
    BY <2>1, ConnIdType DEF Accept, Occupy, IsFresh
  <2>2. ASSUME NEW t \in Tasks, RegisterAccepted(l, t) PROVE OpenIsReachable'
    BY <2>2 DEF RegisterAccepted, StartBridge, ChildFits, With
  <2>3. CASE AcceptFails(l) \/ ListenerStops(l)
    BY <2>3 DEF AcceptFails, ListenerStops, GotoAndTell
  <2>. QED  BY <1>5, <2>1, <2>2, <2>3 DEF ListenerStep
<1>6. CASE SessionStep
  BY <1>6
  DEF SessionStep, SendToSettled, LoopEnds, SinkFails, ChannelCloses, SessionEnds, Drained
<1>7. CASE UNCHANGED vars
  BY <1>7 DEF vars
<1>. QED  BY <1>1, <1>2, <1>3, <1>4, <1>5, <1>6, <1>7 DEF Next

\* While the loop is reading, a running socket the client has not closed, and whose id
\* no other socket was given, is in the map.
THEOREM OpenStaysReachable == Spec => []OpenIsReachable
<1>1. Init => OpenIsReachable
  BY DEF Init, OpenIsReachable
<1>2. IndInv /\ OpenIsReachable /\ [Next]_vars => OpenIsReachable'
  BY ReachableStep
<1>. QED  BY <1>1, <1>2, IndInvHolds, PTL DEF Spec

-----------------------------------------------------------------------------
(* The connection counter *)

\* A remainder is the only one in its range.
LEMMA ModUnique ==
  ASSUME NEW n \in Nat \ {0}, NEW a \in Int, NEW q \in Int, NEW r \in 0 .. n - 1, a = n * q + r
  PROVE  a % n = r
<1>1. a = n * (a \div n) + (a % n) /\ a % n \in 0 .. n-1 /\ a \div n \in Int
  OBVIOUS
<1>2. n * (q - (a \div n)) = (a % n) - r
  BY <1>1
<1>. DEFINE d == q - (a \div n)
<1>3. d \in Int
  BY <1>1
<1>. HIDE DEF d
<1>4. n * d = (a % n) - r
  BY <1>2 DEF d
<1>5. CASE d >= 1
  <2>1. n * d >= n
    BY <1>5, <1>3
  <2>. QED  BY <2>1, <1>4, <1>1
<1>6. CASE d <= -1
  <2>1. n * d <= -n
    BY <1>6, <1>3
  <2>. QED  BY <2>1, <1>4, <1>1
<1>7. CASE d = 0
  BY <1>7, <1>4, <1>1
<1>. QED  BY <1>5, <1>6, <1>7, <1>3

\* The wrapping fetch_add and fetch_sub are addition and subtraction modulo the word.
LEMMA CounterArithmetic ==
  ASSUME NEW a \in Int
  PROVE  /\ Inc(a % UsizeMod) = (a + 1) % UsizeMod
         /\ Dec(a % UsizeMod) = (a - 1) % UsizeMod
<1>. DEFINE n == UsizeMod
            q == a \div n
            r == a % n
<1>1. n \in Nat \ {0}
  BY SessionAssumption
<1>2. a = n * q + r /\ q \in Int /\ r \in 0 .. n - 1
  BY <1>1
<1>. HIDE DEF q, r
<1>3. Inc(r) = (a + 1) % n
  <2>1. CASE r = n - 1
    <3>1. a + 1 = n * (q + 1) + 0
      BY <1>1, <1>2, <2>1
    <3>2. (a + 1) % n = 0
      <4>. HIDE DEF n
      <4>. QED  BY <1>1, <1>2, <3>1, ModUnique
    <3>. QED  BY <2>1, <3>2 DEF Inc
  <2>2. CASE r # n - 1
    <3>1. a + 1 = n * q + (r + 1) /\ r + 1 \in 0 .. n - 1
      BY <1>1, <1>2, <2>2
    <3>2. (a + 1) % n = r + 1
      <4>. HIDE DEF n
      <4>. QED  BY <1>1, <1>2, <3>1, ModUnique
    <3>. QED  BY <2>2, <3>2 DEF Inc
  <2>. QED  BY <2>1, <2>2
<1>4. Dec(r) = (a - 1) % n
  <2>1. CASE r = 0
    <3>1. a - 1 = n * (q - 1) + (n - 1)
      BY <1>1, <1>2, <2>1
    <3>2. (a - 1) % n = n - 1
      <4>. HIDE DEF n
      <4>. QED  BY <1>1, <1>2, <3>1, ModUnique
    <3>. QED  BY <2>1, <3>2 DEF Dec
  <2>2. CASE r # 0
    <3>1. a - 1 = n * q + (r - 1) /\ r - 1 \in 0 .. n - 1
      BY <1>1, <1>2, <2>2
    <3>2. (a - 1) % n = r - 1
      <4>. HIDE DEF n
      <4>. QED  BY <1>1, <1>2, <3>1, ModUnique
    <3>. QED  BY <2>2, <3>2 DEF Dec
  <2>. QED  BY <2>1, <2>2
<1>. QED  BY <1>3, <1>4 DEF r

\* What one step does to the counter and to the two sets it stands for.
CounterSame == active' = active /\ Counted' = Counted /\ ClosedByClient' = ClosedByClient
CounterTakes(t) ==
  /\ active' = Inc(active)
  /\ t \notin Counted /\ Counted' = Counted \cup {t} /\ ClosedByClient' = ClosedByClient
CounterGives(t) ==
  /\ active' = Dec(active)
  /\ t \in Counted /\ Counted' = Counted \ {t} /\ ClosedByClient' = ClosedByClient
CounterCloses(t) ==
  /\ active' = Dec(active)
  /\ Counted' = Counted
  /\ t \notin ClosedByClient /\ ClosedByClient' = ClosedByClient \cup {t}
CounterMove ==
  CounterSame \/ \E t \in Tasks : CounterTakes(t) \/ CounterGives(t) \/ CounterCloses(t)

\* Every step is one of those.
LEMMA CounterMoves == IndInv /\ [Next]_vars => CounterMove
<1>. SUFFICES ASSUME IndInv, [Next]_vars PROVE CounterMove
  OBVIOUS
<1>. USE CoreTypesHold DEF IndInv, CoreTypes, Counted, ClosedByClient, loopVars, bridgeVars, listenVars, taskVars
<1>1. ASSUME NEW t \in Tasks, NEW i \in ClientIds, OpenRequest(t, i) PROVE CounterSame
  <2>1. /\ pc[t] = "idle" /\ pc'[t] \in {"resolving", "done", "accepting"}
        /\ active' = active /\ closeReq' = closeReq
        /\ \A u \in Tasks : u # t => kind'[u] = kind[u] /\ pc'[u] = pc[u]
    BY <1>1, OpenRequestEffect
  <2>2. closeReq[t] # "taken"
    BY <2>1 DEF CloseIsOnce
  <2>3. Counted' = Counted
    BY <2>1
  <2>4. ClosedByClient' = ClosedByClient
    BY <2>1, <2>2
  <2>. QED  BY <2>1, <2>3, <2>4 DEF CounterSame
<1>2. ASSUME NEW t \in Tasks, SocketRequest(t) PROVE CounterSame \/ CounterCloses(t)
  <2>1. CASE CloseTaken(t) /\ kind[t] # "listener"
    BY <2>1 DEF CloseTaken, CloseIsOnce, CounterCloses
  <2>2. CASE CloseTaken(t) /\ kind[t] = "listener"
    BY <2>2 DEF CloseTaken, CounterSame
  <2>3. CASE SendQueued(t) \/ SendToStarted(t) \/ CloseMissed(t) \/ Listen(t)
    BY <2>3, SessionAssumption
    DEF SendQueued, SendToStarted, CloseMissed, Listen, onlyBridge, CounterSame, CloseIsOnce,
        Live
  <2>. QED  BY <1>2, <2>1, <2>2, <2>3 DEF SocketRequest
<1>3. ASSUME NEW t \in Tasks, ConnectStep(t) PROVE CounterSame \/ CounterTakes(t)
  <2>. USE DEF Goto, GotoAndTell
  <2>1. CASE Announce(t) \/ UdpOpened(t)
    BY <2>1 DEF Announce, UdpOpened, KindFitsPc, CounterTakes
  <2>2. CASE TargetDenied(t) \/ UdpFailed(t)
    BY <2>2 DEF TargetDenied, UdpFailed, CounterSame
  <2>3. CASE TargetApproved(t) \/ ConnectFailed(t)
    BY <2>3 DEF TargetApproved, ConnectFailed, CounterSame
  <2>4. CASE HandshakeStarted(t) \/ ResolveSettled(t)
    BY <2>4 DEF HandshakeStarted, ResolveSettled, CounterSame
  <2>5. CASE Register(t)
    BY <2>5 DEF Register, StartBridge, CounterSame
  <2>. QED  BY <1>3, <2>1, <2>2, <2>3, <2>4, <2>5 DEF ConnectStep
<1>4. ASSUME NEW t \in Tasks, BridgeStep(t) \/ UdpStep(t) PROVE CounterSame \/ CounterGives(t)
  <2>. USE DEF Goto, GotoAndTell
  <2>1. CASE (BridgeEnds(t) /\ kind[t] # "accepted") \/ UdpStep(t)
    BY <2>1
    DEF BridgeEnds, GivenBack, UdpStep, UdpCancelled, UdpRecvFails, UdpStops, KindFitsPc,
        CounterGives
  <2>2. CASE BridgeEnds(t) /\ kind[t] = "accepted"
    BY <2>2 DEF BridgeEnds, GivenBack, CounterSame
  <2>3. CASE ReaderEnds(t) \/ WriterWrites(t) \/ WriterFails(t) \/ WriterCloses(t) \/ Unregister(t)
    BY <2>3
    DEF ReaderEnds, WriterWrites, WriterFails, WriterCloses, Unregister, onlyBridge, CounterSame
  <2>. QED  BY <1>4, <2>1, <2>2, <2>3 DEF BridgeStep
<1>5. ASSUME NEW l \in Tasks, ListenerStep(l) PROVE CounterSame
  <2>1. ASSUME NEW t \in Tasks, Accept(l, t) PROVE CounterSame
    BY <2>1, NoTaskIsNoTask DEF Accept, Occupy, IsFresh, ChildFits, CloseIsOnce, CounterSame
  <2>2. ASSUME NEW t \in Tasks, RegisterAccepted(l, t) PROVE CounterSame
    BY <2>2, NoTaskIsNoTask DEF RegisterAccepted, StartBridge, ChildFits, CloseIsOnce,
                                CounterSame
  <2>3. CASE AcceptFails(l) \/ ListenerStops(l)
    BY <2>3, NoTaskIsNoTask DEF AcceptFails, ListenerStops, GotoAndTell, ChildFits,
                                CloseIsOnce, CounterSame
  <2>. QED  BY <1>5, <2>1, <2>2, <2>3 DEF ListenerStep
<1>6. CASE SessionStep
  BY <1>6
  DEF SessionStep, SendToSettled, LoopEnds, SinkFails, ChannelCloses, SessionEnds, CounterMove,
      CounterSame
<1>7. CASE UNCHANGED vars
  BY <1>7 DEF vars, CounterMove, CounterSame
<1>. QED  BY <1>1, <1>2, <1>3, <1>4, <1>5, <1>6, <1>7 DEF Next, CounterMove

\* The counter keeps pace with the sets.
LEMMA CounterStep == IndInv /\ CounterExact /\ [Next]_vars => CounterExact'
<1>. SUFFICES ASSUME IndInv, CounterExact, [Next]_vars PROVE CounterExact'
  OBVIOUS
<1>1. IsFiniteSet(Counted) /\ IsFiniteSet(ClosedByClient)
  <2>1. IsFiniteSet(Tasks)
    BY FS_Interval, SessionAssumption DEF Tasks
  <2>. QED  BY <2>1, FS_Subset DEF Counted, ClosedByClient
<1>. DEFINE n == Cardinality(Counted)
            m == Cardinality(ClosedByClient)
<1>2. n \in Nat /\ m \in Nat
  BY <1>1, FS_CardinalityType
<1>3. /\ Inc((n - m) % UsizeMod) = ((n + 1) - m) % UsizeMod
      /\ Dec((n - m) % UsizeMod) = ((n - 1) - m) % UsizeMod
      /\ Dec((n - m) % UsizeMod) = (n - (m + 1)) % UsizeMod
  <2>. HIDE DEF n, m
  <2>1. /\ n - m \in Int /\ (n - m) + 1 = (n + 1) - m
        /\ (n - m) - 1 = (n - 1) - m /\ (n - m) - 1 = n - (m + 1)
    BY <1>2
  <2>. QED  BY <2>1, CounterArithmetic
<1>4. CASE CounterSame
  BY <1>4 DEF CounterSame, CounterExact
<1>5. ASSUME NEW t \in Tasks, CounterTakes(t) PROVE CounterExact'
  <2>1. Cardinality(Counted') = n + 1
    BY <1>1, <1>5, FS_AddElement DEF CounterTakes
  <2>. QED  BY <1>3, <1>5, <2>1 DEF CounterTakes, CounterExact
<1>6. ASSUME NEW t \in Tasks, CounterGives(t) PROVE CounterExact'
  <2>1. Cardinality(Counted') = n - 1
    BY <1>1, <1>6, FS_RemoveElement DEF CounterGives
  <2>. QED  BY <1>3, <1>6, <2>1 DEF CounterGives, CounterExact
<1>7. ASSUME NEW t \in Tasks, CounterCloses(t) PROVE CounterExact'
  <2>1. Cardinality(ClosedByClient') = m + 1
    BY <1>1, <1>7, FS_AddElement DEF CounterCloses
  <2>. QED  BY <1>3, <1>7, <2>1 DEF CounterCloses, CounterExact
<1>. QED  BY <1>4, <1>5, <1>6, <1>7, CounterMoves DEF CounterMove

\* At any time `active` is the number of open counted connections less the number of
\* sockets the client ever closed, modulo the word: what the limit is compared with.
THEOREM CounterAlwaysExact == Spec => []CounterExact
<1>1. Init => CounterExact
  <2>. SUFFICES ASSUME Init PROVE CounterExact
    OBVIOUS
  <2>1. Counted = {} /\ ClosedByClient = {}
    BY DEF Init, Counted, ClosedByClient
  <2>2. Cardinality(Counted) - Cardinality(ClosedByClient) = 0
    BY <2>1, FS_EmptySet
  <2>. QED  BY <2>2, SessionAssumption DEF Init, CounterExact
<1>2. IndInv /\ CounterExact /\ [Next]_vars => CounterExact'
  BY CounterStep
<1>. QED  BY <1>1, <1>2, IndInvHolds, PTL DEF Spec
=============================================================================
