---------------------------- MODULE ClientSession ----------------------------
(***************************************************************************)
(* A client and its session over one transport.  The session takes the     *)
(* client's requests in order and every event its tasks send reaches the   *)
(* client in order.  A step of Session that sends an event shows it in     *)
(* `told`; data events, which Session leaves out, are added here and       *)
(* numbered.  The requests are connect (tcp or tls), bind, resolve and     *)
(* close.                                                                  *)
(***************************************************************************)
EXTENDS Client, FiniteSets, SequencesExt

CONSTANTS
  MaxTasks, ClientIds, ClientOps, ReuseIds, MaxConnections, UsizeMod, IdMod, IdStride,
  MaxQueued,    \* Session's
  MaxData       \* bound: data events per connection

VARIABLES
  wsLoop, sendTask, handler, active, sockets, kind, sid, pc, reader, writer, queued, child,
  accepted, told, closeReq,   \* Session's
  sent        \* history: data events sent for each task

S == INSTANCE Session

sessionVars ==
  <<wsLoop, sendTask, handler, active, sockets, kind, sid, pc, reader, writer, queued, child,
    accepted, told, closeReq>>
vars == <<clientVars, sessionVars, sent>>

SystemInit == Init /\ S!Init /\ sent = [t \in S!Tasks |-> 0]

(***************************************************************************)
(* The server's side of the transport                                      *)
(***************************************************************************)
\* The events a session step sends.  A failing listener sends two.
AsEvents(t) ==
  IF kind'[t] = "accepted" /\ told'[t] = "accepted"
  THEN LET l == CHOOSE l \in S!Tasks : child'[l] = t
       IN <<Event("accepted", sid'[l], sid'[t])>>
  ELSE (IF S!AcceptFails(t) THEN <<Event("error", sid[t], 0)>> ELSE << >>)
         \o <<Event(told'[t], sid'[t], 0)>>
News ==
  LET changed == {t \in S!Tasks : told'[t] # told[t]}
  IN IF changed = {} THEN << >> ELSE AsEvents(CHOOSE t \in changed : TRUE)

\* The send task forwards them while it runs.
Sends(events) == down' = IF sendTask = "running" THEN down \o events ELSE down

\* What a step of the session leaves of the client.
clientOnly == <<nextId, tableVars, promise, appVars, link>>

Opens(op, t, i) ==
  \/ op = "bind" /\ (S!BindRefused(t, i) \/ S!Bound(t, i))
  \/ op = "resolve" /\ S!ResolveSpawned(t, i)
  \/ op \in {"tcp", "tls"} /\ (S!ConnectRefused(t, op, i) \/ S!ConnectSpawned(t, op, i))

\* The session's loop takes the next request.
TakeOpen ==
  /\ up # << >> /\ up' = Tail(up)
  /\ \E t \in S!Tasks : Opens(Head(up).op, t, Head(up).id)
  /\ Sends(News)
  /\ UNCHANGED <<clientOnly, sent>>

Under(i) == {t \in S!Tasks : S!Live(t) /\ sid[t] = i}
TakeClose ==
  /\ up # << >> /\ Head(up).op = "close" /\ up' = Tail(up)
  /\ S!Ready("close")
  /\ LET i == Head(up).id
     IN \/ \E t \in S!Tasks : sid[t] = i /\ (S!CloseTaken(t) \/ S!CloseMissed(t))
        \/ /\ sockets[i] = S!NoTask /\ \A t \in Under(i) : closeReq[t] # "none"
           /\ UNCHANGED sessionVars
  /\ UNCHANGED <<clientOnly, down, sent>>

\* A read task got bytes: a data event.
SendData(t) ==
  /\ pc[t] = "bridging" /\ reader[t] = "open" /\ sent[t] < MaxData
  /\ sent' = [sent EXCEPT ![t] = @ + 1]
  /\ Sends(<<Event("data", sid[t], sent[t] + 1)>>)
  /\ UNCHANGED <<clientOnly, up, sessionVars>>

\* A step of one of the session's tasks, with the events it sends.
Does(step) == step /\ Sends(News) /\ UNCHANGED <<clientOnly, up, sent>>

\* Bound: accepted connections leave the slots the client's calls will need.
RoomToAccept ==
  Cardinality({t \in S!Tasks : pc[t] = "idle"})
    > MaxCalls + 1 - nextId + Len(SelectSeq(up, LAMBDA r : r.op # "close"))
ServerStep ==
  \E t \in S!Tasks :
    \/ Does(S!ConnectStep(t)) \/ Does(S!BridgeStep(t))
    \/ Does(S!AcceptFails(t)) \/ Does(S!ListenerStops(t))
    \/ \E u \in S!Tasks :
         Does(S!RegisterAccepted(t, u)) \/ (RoomToAccept /\ Does(S!Accept(t, u)))
    \/ SendData(t)

\* The loop ends once the transport is closing and its requests are read, or when it
\* fails; so does the send task.
EndStep == Does(S!LoopEnds) \/ Does(S!SinkFails) \/ Does(S!ChannelCloses) \/ Does(S!SessionEnds)

ClientMoves ==
  /\ Calls(ClientOps \cap {"tcp", "tls", "bind"}) \/ Deliver \/ TransportCloses
  /\ UNCHANGED <<sessionVars, sent>>

SystemNext == ClientMoves \/ TakeOpen \/ TakeClose \/ ServerStep \/ EndStep

\* Session's fairness, with the requests and the events moving.
SystemFairness ==
  /\ \A t \in S!Tasks :
       /\ WF_vars(Does(S!Settles(t))) /\ WF_vars(Does(S!Register(t)))
       /\ WF_vars(Does(S!BridgeEnds(t))) /\ WF_vars(Does(S!Unregister(t)))
       /\ WF_vars(\E u \in S!Tasks : Does(S!RegisterAccepted(t, u)))
  /\ WF_vars(TakeOpen) /\ WF_vars(TakeClose)
  /\ WF_vars(Deliver /\ UNCHANGED <<sessionVars, sent>>)

SystemSpec == SystemInit /\ [][SystemNext]_vars
FairSystemSpec == SystemSpec /\ SystemFairness

-----------------------------------------------------------------------------
Connected == link = "open" /\ sendTask = "running"
InFlight(i, evs) == SelectSeq(down, LAMBDA e : e.id = i /\ e.ev \in evs)
Numbers(events) == [n \in DOMAIN events |-> events[n].arg]

\* Data is neither lost, doubled nor reordered between the read task and the callback:
\* what a socket's callback was given, what waits in its buffer and what is on its way
\* is what the task sent.  A socket the client has given up got the beginning of it.
DataInOrder ==
  \A t \in S!Tasks : pc[t] # "idle" =>
    LET i == sid[t]
        all == [n \in 1 .. sent[t] |-> n]
    IN /\ IsPrefix(got[i], all)
       /\ Connected /\ entry[i] # "none" =>
            got[i] \o buffer[i] \o Numbers(InFlight(i, {"data"})) = all

\* No ghosts: when a socket is over on the server while the client still has it, the
\* event that says so is on its way.
NoGhosts ==
  \A t \in S!Tasks :
    Connected /\ pc[t] = "done" /\ entry[sid[t]] # "none" =>
      InFlight(sid[t], {"closed", "error", "denied"}) # << >>

\* A promise the client will not settle: the transport is going or gone on either side
\* (_handleClose rejects lookups only), or the promise is a lookup's and it failed (the
\* error event finds no socket).
Abandoned(i) ==
  \/ link # "open" \/ sendTask # "running" \/ wsLoop # "reading"
  \/ \E t \in S!Tasks : sid[t] = i /\ kind[t] = "resolve" /\ told[t] = "error"

\* Otherwise every promise of connect, bind and resolve is settled.
PromisesSettle ==
  []<>(\A i \in SocketIds : promise[i] = "pending" => Abandoned(i))
=============================================================================
