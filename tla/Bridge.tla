------------------------------- MODULE Bridge -------------------------------
(***************************************************************************)
(* The bytes of one connection: run_bridge's read task and write task      *)
(* (src/src/proxy.rs) and handle_send, on the limiter the two share.       *)
(* Session has the life of a connection and counts what waits to be        *)
(* written; here is what becomes of it.                                    *)
(*                                                                         *)
(* The peer's bytes are numbered as it sends them, and so are the          *)
(* client's.  A task that has got something to forward calls consume() at  *)
(* once: nothing another task sees lies between.                           *)
(***************************************************************************)
EXTENDS RateLimiter, SequencesExt

CONSTANTS
  Reader, Writer,   \* the two tasks, as consumers
  BufSize,          \* the most one read returns
  Lengths,          \* of the data of a send request
  MaxIn, MaxOut     \* bound: bytes the peer and the client send

ASSUME BridgeAssumption ==
  /\ Reader # Writer /\ {Reader, Writer} \subseteq Consumers
  /\ BufSize \in 1 .. MaxBytes /\ Lengths \subseteq 0 .. MaxBytes
  /\ MaxIn \in Nat /\ MaxOut \in Nat

VARIABLES
  peer,       \* open, finished (EOF after its bytes) or gone (reset)
  peerSent,   \* history: bytes it sent
  incoming,   \* bytes of it not yet read
  read,       \* the read task: reading, sleeping (in consume) or over
  buf,        \* what it has read and not forwarded
  events,     \* history: bytes of the data events
  told,       \* none, or the last event: closed or error
  held,       \* the socket map has the sender of the write channel
  sent,       \* history: bytes put into the write channel
  channel,    \* write_tx to write_rx: the data of requests
  write,      \* the write task: waiting, sleeping (in consume), writing, drained or failed
  data,       \* what is left to write of the request it took
  written     \* bytes the peer's connection has accepted

limiterVars == vars
readVars == <<incoming, read, buf, events, told>>
sendVars == <<held, sent, channel>>
writeVars == <<write, data, written>>
bridgeVars == <<limiterVars, peer, peerSent, readVars, sendVars, writeVars>>

BridgeInit ==
  /\ Init
  /\ peer = "open" /\ peerSent = 0
  /\ incoming = << >> /\ read = "reading" /\ buf = << >> /\ events = << >> /\ told = "none"
  /\ held = TRUE /\ sent = 0 /\ channel = << >>
  /\ write = "waiting" /\ data = << >> /\ written = << >>

Numbered(from, n) == [k \in 1 .. n |-> from + k]

(***************************************************************************)
(* The peer and time                                                       *)
(***************************************************************************)
PeerSends ==
  /\ peer = "open"
  /\ \E n \in 1 .. MaxIn - peerSent :
       peerSent' = peerSent + n /\ incoming' = incoming \o Numbered(peerSent, n)
  /\ UNCHANGED <<limiterVars, peer, read, buf, events, told, sendVars, writeVars>>
PeerEnds ==
  /\ \/ peer = "open" /\ peer' = "finished"
     \/ peer # "gone" /\ peer' = "gone"
  /\ UNCHANGED <<limiterVars, peerSent, readVars, sendVars, writeVars>>
TimePasses ==
  /\ Tick
  /\ UNCHANGED <<peer, peerSent, readVars, sendVars, writeVars>>

(***************************************************************************)
(* The read task                                                           *)
(***************************************************************************)
\* Ok(n), consume(n), and the data event once that returns.
ReadSome ==
  /\ read = "reading"
  /\ \E n \in 1 .. Len(incoming) :
       /\ n <= BufSize
       /\ incoming' = SubSeq(incoming, n + 1, Len(incoming))
       /\ \/ ConsumeNow(Reader, n) /\ events' = events \o SubSeq(incoming, 1, n)
             /\ UNCHANGED <<read, buf>>
          \/ ConsumeLater(Reader, n) /\ buf' = SubSeq(incoming, 1, n) /\ read' = "sleeping"
             /\ UNCHANGED events
  /\ UNCHANGED <<peer, peerSent, told, sendVars, writeVars>>
ReadPaid_Unsent == Wake(Reader) /\ read' = "reading" /\ buf' = << >> /\ UNCHANGED events
ReadPaid == Wake(Reader) /\ read' = "reading" /\ buf' = << >> /\ events' = events \o buf
ReadWakes ==
  /\ read = "sleeping" /\ ReadPaid
  /\ UNCHANGED <<peer, peerSent, incoming, told, sendVars, writeVars>>

\* Ok(0), or an error: the last event.  A reset discards what was not read.
ReadEnds ==
  /\ read = "reading" /\ read' = "over"
  /\ \/ peer = "finished" /\ incoming = << >> /\ told' = "closed"
     \/ peer = "gone" /\ told' = "error"
  /\ incoming' = << >>
  /\ UNCHANGED <<limiterVars, peer, peerSent, buf, events, sendVars, writeVars>>

(***************************************************************************)
(* Requests, and the write task                                            *)
(***************************************************************************)
\* handle_send: into the channel, unless its receiver is gone with the task.
Send(n) ==
  /\ held /\ write \notin {"drained", "failed"} /\ sent + n <= MaxOut
  /\ n = 0 => << >> \notin Range(channel)   \* bound
  /\ channel' = Append(channel, Numbered(sent, n)) /\ sent' = sent + n
  /\ UNCHANGED <<limiterVars, peer, peerSent, readVars, held, writeVars>>

\* handle_close, cleanup, a later socket under the id, or the bridge's own end: the entry
\* leaves the map, and with it goes the only sender.
Unlisted ==
  /\ held /\ held' = FALSE
  /\ UNCHANGED <<limiterVars, peer, peerSent, readVars, sent, channel, writeVars>>

\* write_rx.recv() has data; consume.
WriteTakes ==
  /\ write = "waiting" /\ channel # << >>
  /\ channel' = Tail(channel) /\ data' = Head(channel)
  /\ \/ ConsumeNow(Writer, Len(Head(channel))) /\ write' = "writing"
     \/ ConsumeLater(Writer, Len(Head(channel))) /\ write' = "sleeping"
  /\ UNCHANGED <<peer, peerSent, readVars, held, sent, written>>
WriteWakes ==
  /\ write = "sleeping" /\ Wake(Writer) /\ write' = "writing"
  /\ UNCHANGED <<peer, peerSent, readVars, sendVars, data, written>>

\* write_all: some of it at a time, as the peer takes it.
MayWrite_Unpaid == write \in {"writing", "sleeping"}
MayWrite == write = "writing"
WriteSome ==
  /\ MayWrite
  /\ \E n \in 0 .. Len(data) :
       /\ n > 0 \/ data = << >>
       /\ written' = written \o SubSeq(data, 1, n) /\ data' = SubSeq(data, n + 1, Len(data))
       /\ write' = IF n = Len(data) THEN "waiting" ELSE write
  /\ UNCHANGED <<limiterVars, peer, peerSent, readVars, sendVars>>
WriteFails ==
  /\ write = "writing" /\ peer = "gone" /\ write' = "failed"
  /\ UNCHANGED <<limiterVars, peer, peerSent, readVars, sendVars, data, written>>

\* write_rx.recv() is None: no sender, and nothing left in the channel.
MayEnd_Unlisted == ~held
MayEnd == ~held /\ channel = << >>
WriteEnds ==
  /\ write = "waiting" /\ MayEnd /\ write' = "drained"
  /\ UNCHANGED <<limiterVars, peer, peerSent, readVars, sendVars, data, written>>

BridgeNext ==
  \/ PeerSends \/ PeerEnds \/ TimePasses
  \/ ReadSome \/ ReadWakes \/ ReadEnds
  \/ (\E n \in Lengths : Send(n)) \/ Unlisted
  \/ WriteTakes \/ WriteWakes \/ WriteSome \/ WriteFails \/ WriteEnds

BridgeSpec == BridgeInit /\ [][BridgeNext]_bridgeVars

-----------------------------------------------------------------------------
\* What a client sends reaches the peer whole and in order, in whatever pieces write_all
\* writes it and however long the limiter holds it up: a write task that was not broken
\* off has written all that was in the channel when the socket was closed.
SentIsWritten ==
  /\ written \o data \o FlattenSeq(channel) = Numbered(0, sent)
  /\ write = "drained" => Len(written) = sent

\* What a peer sends reaches the client in order; a closed event says that all of it has,
\* bytes that waited for the limiter included.
ReadIsTold ==
  /\ IsPrefix(events \o buf \o incoming, Numbered(0, peerSent))
  /\ told = "closed" => Len(events) = peerSent

\* However its two directions take turns, what the server has passed on of a connection is
\* a burst and three times the rate at most: the bucket's and, for each direction, what it
\* slept off.  No byte is passed on before it is paid for.
ForwardedBound == Len(events) + Len(written) <= Capacity + 3 * Rate * now
=============================================================================
