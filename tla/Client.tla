------------------------------- MODULE Client -------------------------------
(***************************************************************************)
(* The JavaScript client (src/client/wasmnet-client.js): its socket table, *)
(* the promises it hands out, the data it buffers, and what each event     *)
(* does.  JavaScript runs one callback at a time, so every method and      *)
(* every event handler is one step.                                        *)
(*                                                                         *)
(* The transport is two FIFO channels, requests `up` and events `down`.    *)
(* _handleEvent (JSON) and _handleBinaryEvent with _dispatch (binary) have *)
(* the same effect here.  An application knows the ids it was given: those *)
(* its promises resolved to and those onAccept told it.  It calls nothing  *)
(* before ready() resolves and sets onClose for every socket it is given.  *)
(***************************************************************************)
EXTENDS Integers, Sequences

CONSTANTS
  SocketIds,
  MaxCalls      \* bound: connect, bind and resolve calls

ASSUME ClientAssumption == MaxCalls \in Nat /\ 1 .. MaxCalls \subseteq SocketIds

VARIABLES
  nextId,
  entry,      \* this.sockets: none, call (with resolve and reject) or accepted
  lookups,    \* this._resolves
  promise,    \* none, pending, resolved or rejected
  hasOnData,  \* sockets whose entry has an onData callback
  buffer,     \* data that waits for one
  got,        \* history: data the application's callbacks were given
  closes,     \* how often onClose was called
  known,      \* ids the application has been given
  appClosed,  \* history: ids it called close() for
  link,       \* the transport: open, closing (after disconnect), closed
  up, down

tableVars == <<entry, lookups, hasOnData, buffer>>
appVars == <<got, closes, known, appClosed>>
channels == <<up, down>>
clientVars == <<nextId, tableVars, promise, appVars, link, channels>>

Init ==
  /\ nextId = 1
  /\ entry = [i \in SocketIds |-> "none"] /\ lookups = {}
  /\ promise = [i \in SocketIds |-> "none"]
  /\ hasOnData = {} /\ buffer = [i \in SocketIds |-> << >>]
  /\ got = [i \in SocketIds |-> << >>] /\ closes = [i \in SocketIds |-> 0]
  /\ known = {} /\ appClosed = {}
  /\ link = "open" /\ up = << >> /\ down = << >>

Request(op, i) == [op |-> op, id |-> i]
\* arg is the number of a data event, or the new id of an accepted one.
Event(ev, i, arg) == [ev |-> ev, id |-> i, arg |-> arg]

(***************************************************************************)
(* Calls of the application                                                *)
(***************************************************************************)
\* WebSocket.send: what is sent on a closing or closed socket is discarded.
Post(r) == up' = IF link = "open" THEN Append(up, r) ELSE up

\* connect, connectTls, connectUdp, bind: a fresh id, an entry, a promise.
OpenCall(op) ==
  /\ nextId <= MaxCalls /\ nextId' = nextId + 1
  /\ entry' = [entry EXCEPT ![nextId] = "call"]
  /\ promise' = [promise EXCEPT ![nextId] = "pending"]
  /\ Post(Request(op, nextId))
  /\ UNCHANGED <<lookups, hasOnData, buffer, appVars, link, down>>

ResolveCall ==
  /\ nextId <= MaxCalls /\ nextId' = nextId + 1
  /\ lookups' = lookups \cup {nextId}
  /\ promise' = [promise EXCEPT ![nextId] = "pending"]
  /\ Post(Request("resolve", nextId))
  /\ UNCHANGED <<entry, hasOnData, buffer, appVars, link, down>>

\* this.sockets.delete(id); callbacks and buffered data go with the entry.
Delete_Nothing(i) == UNCHANGED <<entry, hasOnData, buffer>>
Delete(i) ==
  /\ entry' = [entry EXCEPT ![i] = "none"]
  /\ hasOnData' = hasOnData \ {i} /\ buffer' = [buffer EXCEPT ![i] = << >>]

\* close(id)
CloseCall(i) ==
  /\ i \in known \ appClosed /\ appClosed' = appClosed \cup {i}
  /\ Post(Request("close", i))
  /\ Delete(i)
  /\ UNCHANGED <<nextId, lookups, promise, got, closes, known, link, down>>

\* onData(id, callback): what is buffered is handed over at once.  (For a bound socket,
\* which is never sent data and has no buffer, the call throws once the callback is set.)
Flushed_Dropped(i) == << >>
Flushed(i) == buffer[i]
OnData(i) ==
  /\ i \in known \ hasOnData /\ entry[i] # "none"
  /\ hasOnData' = hasOnData \cup {i}
  /\ got' = [got EXCEPT ![i] = @ \o Flushed(i)]
  /\ buffer' = [buffer EXCEPT ![i] = << >>]
  /\ UNCHANGED <<nextId, entry, lookups, promise, closes, known, appClosed, link, channels>>

\* disconnect(): the transport starts to close; no more events are dispatched.
Disconnect ==
  /\ link = "open" /\ link' = "closing"
  /\ UNCHANGED <<nextId, tableVars, promise, appVars, channels>>

(***************************************************************************)
(* Events of the server, and of the transport                              *)
(***************************************************************************)
Arrives(evs) == link = "open" /\ down # << >> /\ Head(down).ev \in evs /\ down' = Tail(down)
It == Head(down).id

\* An event about a socket the table does not have is dropped.
EventDropped ==
  /\ Arrives({"connected", "listening", "udp_bound", "data", "accepted", "closed", "error",
              "denied"})
  /\ entry[It] = "none"
  /\ UNCHANGED <<nextId, tableVars, promise, appVars, link, up>>

\* connected, listening, udp_bound: resolve.  It settles a pending promise only, and an
\* accepted entry has none.
Settled(i, how) ==
  IF entry[i] = "call" /\ promise[i] = "pending" THEN [promise EXCEPT ![i] = how] ELSE promise
OpenedArrives ==
  /\ Arrives({"connected", "listening", "udp_bound"}) /\ entry[It] # "none"
  /\ promise' = Settled(It, "resolved")
  /\ known' = known \cup {It}
  /\ UNCHANGED <<nextId, tableVars, got, closes, appClosed, link, up>>

\* data: to the callback, or into the buffer until there is one.
DataArrives ==
  /\ Arrives({"data"}) /\ entry[It] # "none"
  /\ IF It \in hasOnData
     THEN got' = [got EXCEPT ![It] = Append(@, Head(down).arg)] /\ UNCHANGED buffer
     ELSE buffer' = [buffer EXCEPT ![It] = Append(@, Head(down).arg)] /\ UNCHANGED got
  /\ UNCHANGED <<nextId, entry, lookups, hasOnData, promise, closes, known, appClosed>>
  /\ UNCHANGED <<link, up>>

\* accepted: a fresh entry for the connection, then onAccept.
AcceptedArrives ==
  /\ Arrives({"accepted"}) /\ entry[It] # "none"
  /\ entry' = [entry EXCEPT ![Head(down).arg] = "accepted"]
  /\ hasOnData' = hasOnData \ {Head(down).arg}
  /\ buffer' = [buffer EXCEPT ![Head(down).arg] = << >>]
  /\ known' = known \cup {Head(down).arg}
  /\ UNCHANGED <<nextId, lookups, promise, got, closes, appClosed, link, up>>

\* closed: onClose, and the entry goes.
ClosedArrives ==
  /\ Arrives({"closed"}) /\ entry[It] # "none"
  /\ closes' = [closes EXCEPT ![It] = @ + 1]
  /\ Delete(It)
  /\ UNCHANGED <<nextId, lookups, promise, got, known, appClosed, link, up>>

\* error, denied: reject, and the entry goes.  onClose is not called.
FailureArrives_Unreported ==
  /\ Arrives({"error", "denied"}) /\ entry[It] # "none"
  /\ Delete(It)
  /\ UNCHANGED <<nextId, lookups, promise, appVars, link, up>>
FailureArrives ==
  /\ Arrives({"error", "denied"}) /\ entry[It] # "none"
  /\ promise' = Settled(It, "rejected")
  /\ Delete(It)
  /\ UNCHANGED <<nextId, lookups, appVars, link, up>>

\* resolved: _dispatchResolve.
ResolvedArrives ==
  /\ Arrives({"resolved"})
  /\ promise' = IF It \in lookups THEN [promise EXCEPT ![It] = "resolved"] ELSE promise
  /\ lookups' = lookups \ {It}
  /\ UNCHANGED <<nextId, entry, hasOnData, buffer, appVars, link, up>>

\* _handleClose: onClose for every entry, the table cleared, lookups rejected.  The
\* promises of pending connects and binds are left as they are.
TransportCloses ==
  /\ link # "closed" /\ link' = "closed"
  /\ closes' = [i \in SocketIds |-> IF entry[i] # "none" THEN closes[i] + 1 ELSE closes[i]]
  /\ entry' = [i \in SocketIds |-> "none"]
  /\ hasOnData' = {} /\ buffer' = [i \in SocketIds |-> << >>]
  /\ promise' = [i \in SocketIds |-> IF i \in lookups THEN "rejected" ELSE promise[i]]
  /\ lookups' = {}
  /\ UNCHANGED <<nextId, got, known, appClosed, channels>>

Calls(ops) ==
  \/ \E op \in ops : OpenCall(op)
  \/ ResolveCall
  \/ \E i \in SocketIds : CloseCall(i) \/ OnData(i)
  \/ Disconnect

Deliver ==
  \/ EventDropped \/ OpenedArrives \/ DataArrives \/ AcceptedArrives
  \/ ClosedArrives \/ FailureArrives \/ ResolvedArrives

-----------------------------------------------------------------------------
\* The types of the client's state.  Across events, close() and the end of the
\* transport, onClose is called at most once for a socket.
ClientTypeOK ==
  /\ nextId \in 1 .. MaxCalls + 1
  /\ entry \in [SocketIds -> {"none", "call", "accepted"}]
  /\ lookups \subseteq SocketIds /\ hasOnData \subseteq SocketIds
  /\ promise \in [SocketIds -> {"none", "pending", "resolved", "rejected"}]
  /\ buffer \in [SocketIds -> Seq(Nat)] /\ got \in [SocketIds -> Seq(Nat)]
  /\ closes \in [SocketIds -> 0 .. 1]
  /\ known \subseteq SocketIds /\ appClosed \subseteq known
  /\ link \in {"open", "closing", "closed"}

\* What close() promises: once it returns, no callback of the socket runs any more,
\* whatever is still on its way from the server or happens to the transport.
SilentAfterClose ==
  [][\A i \in appClosed : got'[i] = got[i] /\ closes'[i] = closes[i]]_clientVars
=============================================================================
