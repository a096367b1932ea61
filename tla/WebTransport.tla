---------------------------- MODULE WebTransport ----------------------------
(***************************************************************************)
(* A session over WebTransport: one bidirectional stream of bytes, on      *)
(* which either side puts a length before each binary frame.  The server's *)
(* half is run_session in src/src/webtransport.rs, the client's is         *)
(* WebTransportTransport in src/client/wasmnet-client.js.                  *)
(*                                                                         *)
(* The stream delivers bytes in order, cut into chunks anywhere.  When the *)
(* connection closes each side may still get some of what was under way,   *)
(* until its next read fails (QUIC, external).  What dispatch does with a  *)
(* request is Session's: here it is noted in `taken`, and the session's    *)
(* tasks send what events they like.                                       *)
(***************************************************************************)
EXTENDS Codec

CONSTANTS
  PrefixWidth, MaxFrame,   \* bytes of a length (4), the longest frame the server takes
  Requests, Events,        \* messages the application and the session's tasks send
  OtherFrames,             \* frames some other client sends that decode_request refuses
  MaxMessages              \* bound: requests and events sent

ASSUME WebTransportAssumption ==
  /\ PrefixWidth \in Nat \ {0} /\ MaxFrame \in 1 .. Base ^ PrefixWidth - 1
  /\ \A f \in OtherFrames : Malformed(f)

VARIABLES
  link,        \* the connection: up or closed
  asked,       \* history: what the client sent, as the server should see it
  upWire,      \* bytes under way to the server
  serverLoop,  \* run_session's loop: reading or over
  need,        \* 0 while it reads a length, else the length of the frame it reads
  taken,       \* history: requests decoded, Invalid for an error
  told,        \* history: events given to the event channel
  eventQueue,  \* event_tx to event_rx
  tasksOver,   \* every task of the session has dropped its event_tx
  sendTask,    \* idle, writing (the length is out, the frame is not) or finished
  downWire,    \* bytes under way to the client
  buf,         \* _readLoop's
  handled,     \* history: events handed to _handleBinaryEvent, decoded
  clientLoop   \* _readLoop: reading or over

upVars == <<asked, upWire, serverLoop, need, taken>>
tellVars == <<told, eventQueue, tasksOver, sendTask>>
clientVars == <<buf, handled, clientLoop>>
vars == <<link, upVars, tellVars, downWire, clientVars>>

Init ==
  /\ link = "up"
  /\ asked = << >> /\ upWire = << >> /\ serverLoop = "reading" /\ need = 0 /\ taken = << >>
  /\ told = << >> /\ eventQueue = << >> /\ tasksOver = FALSE /\ sendTask = "idle"
  /\ downWire = << >> /\ buf = << >> /\ handled = << >> /\ clientLoop = "reading"

\* What is written on a closed connection goes nowhere.
Written(wire, bytes) == IF link = "up" THEN wire \o bytes ELSE wire
Prefix(frame) == ToBytes(Len(frame), PrefixWidth)
MayAdd == Len(asked) + Len(told) < MaxMessages

(***************************************************************************)
(* Requests                                                                *)
(***************************************************************************)
\* What the fields of a frame keep of a request: a port wraps at its width, and so does
\* the length of sendTo's address, whose rest the server then takes for data.
Kept(m) ==
  LET n == IF m.type = "send_to" THEN Len(m.text) % Base ^ LengthWidth ELSE Len(m.text)
      w == IF m.type = "listen" THEN BacklogWidth ELSE PortWidth
  IN Message(m.type, m.id, m.num % Base ^ w, First(m.text, n), Past(m.text, n) \o m.data)

\* A frame the server will not read.
Unreadable == Message("unreadable", 0, 0, << >>, << >>)

\* sendBinaryFrame: length and frame in one write.  On a closed connection it is lost.
Write(frame, meaning) ==
  /\ link = "up" /\ MayAdd
  /\ asked' = Append(asked, IF Len(frame) \in 1 .. MaxFrame THEN meaning ELSE Unreadable)
  /\ upWire' = upWire \o Prefix(frame) \o frame
  /\ UNCHANGED <<link, serverLoop, need, taken, tellVars, downWire, clientVars>>
Ask == \E m \in Requests : Write(EncodeRequest(m), Kept(m))
AskOtherwise == \E f \in OtherFrames : Write(f, Invalid)

\* recv.read_exact(&mut len_buf); 0 and more than MAX_FRAME end the loop.
Acceptable_Below(len) == len # 0 /\ len < MaxFrame
Acceptable_Any(len) == len # 0
Acceptable(len) == len # 0 /\ len <= MaxFrame
ReadLength ==
  /\ serverLoop = "reading" /\ need = 0 /\ Len(upWire) >= PrefixWidth
  /\ upWire' = Past(upWire, PrefixWidth)
  /\ LET len == FromBytes(First(upWire, PrefixWidth))
     IN IF Acceptable(len) THEN need' = len /\ UNCHANGED serverLoop
        ELSE serverLoop' = "over" /\ UNCHANGED need
  /\ UNCHANGED <<link, asked, taken, tellVars, downWire, clientVars>>

\* ctx.notify and the tasks' event_tx.send; nobody listens once the send task is gone.
Tell(events) ==
  /\ told' = told \o events
  /\ eventQueue' = IF sendTask = "finished" THEN eventQueue ELSE eventQueue \o events
  /\ UNCHANGED <<tasksOver, sendTask>>
InvalidFrame == Message("error", 0, 0, << >>, << >>)

\* recv.read_exact(&mut frame), decode_request, then dispatch or an error event.
ReadFrame ==
  /\ serverLoop = "reading" /\ need > 0 /\ Len(upWire) >= need
  /\ upWire' = Past(upWire, need) /\ need' = 0
  /\ LET request == DecodeRequest(First(upWire, need))
     IN /\ taken' = Append(taken, request)
        /\ Tell(IF request = Invalid THEN <<InvalidFrame>> ELSE << >>)
  /\ UNCHANGED <<link, asked, serverLoop, downWire, clientVars>>

\* read_exact fails: the connection is gone, and what is left of its bytes lost.
ReadFails ==
  /\ serverLoop = "reading" /\ link = "closed"
  /\ serverLoop' = "over" /\ upWire' = << >>
  /\ UNCHANGED <<link, asked, need, taken, tellVars, downWire, clientVars>>

(***************************************************************************)
(* Events                                                                  *)
(***************************************************************************)
\* A task of the session sends an event.
TaskTells ==
  /\ ~tasksOver /\ MayAdd
  /\ \E m \in Events : Tell(<<m>>)
  /\ UNCHANGED <<link, upVars, downWire, clientVars>>

\* After the loop: cleanup, drop(ctx), and the tasks end in their own time.
TasksEnd ==
  /\ serverLoop = "over" /\ ~tasksOver /\ tasksOver' = TRUE
  /\ UNCHANGED <<link, upVars, told, eventQueue, sendTask, downWire, clientVars>>

\* The send task takes an event and writes its length, then its frame.
SendLength ==
  /\ sendTask = "idle" /\ eventQueue # << >>
  /\ downWire' = Written(downWire, Prefix(EncodeEvent(Head(eventQueue))))
  /\ sendTask' = "writing"
  /\ UNCHANGED <<link, upVars, told, eventQueue, tasksOver, clientVars>>
SendFrame ==
  /\ sendTask = "writing"
  /\ downWire' = Written(downWire, EncodeEvent(Head(eventQueue)))
  /\ eventQueue' = Tail(eventQueue) /\ sendTask' = "idle"
  /\ UNCHANGED <<link, upVars, told, tasksOver, clientVars>>

\* One of the two writes fails: break, and finish.
SendFails ==
  /\ link = "closed" /\ sendTask # "finished" /\ eventQueue # << >>
  /\ sendTask' = "finished" /\ eventQueue' = << >>
  /\ UNCHANGED <<link, upVars, told, tasksOver, downWire, clientVars>>

\* event_rx.recv() is None: finish.
SendEnds ==
  /\ sendTask = "idle" /\ eventQueue = << >> /\ tasksOver
  /\ sendTask' = "finished"
  /\ UNCHANGED <<link, upVars, told, eventQueue, tasksOver, downWire, clientVars>>

\* The bytes hold a length and a frame of it.
Whole_Exceeds(bytes, len) == Len(bytes) - PrefixWidth > len
Whole(bytes, len) == Len(bytes) - PrefixWidth >= len

\* _readLoop's inner loop: the frames that bytes begins with, and what is left.
RECURSIVE Split(_)
Split(bytes) ==
  LET len == FromBytes(First(bytes, PrefixWidth))
      after == Split(Past(bytes, PrefixWidth + len))
  IN IF Len(bytes) < PrefixWidth \/ ~Whole(bytes, len)
     THEN [frames |-> << >>, rest |-> bytes]
     ELSE [frames |-> <<SubSeq(bytes, PrefixWidth + 1, PrefixWidth + len)>> \o after.frames,
           rest |-> after.rest]

\* reader.read() has a chunk: merged with what is left of earlier ones.
Merged_ChunkOnly(chunk) == chunk
Merged(chunk) == buf \o chunk
ChunkArrives ==
  /\ clientLoop = "reading"
  /\ \E n \in 1 .. Len(downWire) :
       LET parts == Split(Merged(First(downWire, n)))
       IN /\ handled' = handled \o [k \in DOMAIN parts.frames |-> DecodeEvent(parts.frames[k])]
          /\ buf' = parts.rest
          /\ downWire' = Past(downWire, n)
  /\ UNCHANGED <<link, upVars, tellVars, clientLoop>>

\* reader.read() is done, or throws because the connection is gone; _handleClose.
ClientLoopEnds_OnThrow ==
  /\ clientLoop = "reading" /\ link = "closed"
  /\ clientLoop' = "over" /\ downWire' = << >> /\ buf' = << >>
  /\ UNCHANGED <<link, upVars, tellVars, handled>>
ClientLoopEnds ==
  /\ clientLoop = "reading"
  /\ link = "closed" \/ (sendTask = "finished" /\ downWire = << >>)
  /\ clientLoop' = "over" /\ downWire' = << >> /\ buf' = << >>
  /\ UNCHANGED <<link, upVars, tellVars, handled>>

\* close() of the client, the end of the server's session, or the network.
LinkCloses ==
  /\ link = "up" /\ link' = "closed"
  /\ UNCHANGED <<upVars, tellVars, downWire, clientVars>>

Next ==
  \/ Ask \/ AskOtherwise \/ ReadLength \/ ReadFrame \/ ReadFails
  \/ TaskTells \/ TasksEnd
  \/ SendLength \/ SendFrame \/ SendFails \/ SendEnds
  \/ ChunkArrives \/ ClientLoopEnds \/ LinkCloses

\* Each loop is polled when it can go on, and bytes arrive.  When tasks end is not fair.
Fairness ==
  /\ WF_vars(ReadLength) /\ WF_vars(ReadFrame) /\ WF_vars(ReadFails)
  /\ WF_vars(SendLength) /\ WF_vars(SendFrame) /\ WF_vars(SendEnds)
  /\ WF_vars(ChunkArrives) /\ WF_vars(ClientLoopEnds)

Spec == Init /\ [][Next]_vars /\ Fairness

-----------------------------------------------------------------------------
\* The types of the state; what a length announces is never more than MAX_FRAME.
TypeOK ==
  /\ link \in {"up", "closed"} /\ tasksOver \in BOOLEAN
  /\ serverLoop \in {"reading", "over"} /\ clientLoop \in {"reading", "over"}
  /\ need \in 0 .. MaxFrame /\ sendTask \in {"idle", "writing", "finished"}
  /\ \A s \in {upWire, downWire, buf} : \A n \in DOMAIN s : s[n] \in 0 .. Base - 1

\* Requests still to be read: those whose frames are whole.
StillUp ==
  IF serverLoop = "over" THEN 0
  ELSE Len(Split((IF need = 0 THEN << >> ELSE ToBytes(need, PrefixWidth)) \o upWire).frames)
Up == INSTANCE Channel WITH
        Messages <- {Kept(m) : m \in Requests} \cup {Invalid, Unreadable},
        queue <- SubSeq(asked, Len(taken) + 1, Len(taken) + StillUp),
        got <- taken,
        open <- link = "up" /\ serverLoop = "reading"

\* The server takes the client's requests whole, once and in order, whatever their lengths
\* and wherever the connection breaks; one that is refused, or whose port or address length
\* wrapped, does not disturb the next.
RequestsArriveInOrder == Up!Spec

StillDown ==
  IF clientLoop = "over" THEN 0
  ELSE Len(Split(buf \o downWire).frames) + (IF link = "up" THEN Len(eventQueue) ELSE 0)
Down == INSTANCE Channel WITH
          Messages <- Events \cup {InvalidFrame},
          queue <- SubSeq(told, Len(handled) + 1, Len(handled) + StillDown),
          got <- handled,
          open <- link = "up"

\* So does the client the events of the session, in whatever chunks they come and though
\* the server writes length and frame apart.
EventsArriveInOrder == Down!Spec

\* While the connection is up every request is taken, until one is empty or exceeds
\* MAX_FRAME, which ends the session.
RequestsTaken ==
  []<>(\/ link = "closed"
       \/ taken = asked
       \/ \E n \in DOMAIN asked : asked[n] = Unreadable /\ taken = First(asked, n - 1))

\* While the connection is up every event gets to its handler.
EventsHandled == []<>(handled = told \/ link = "closed")

\* The client learns of the end: when the server's loop is over and its tasks are too, or
\* the connection is gone, _handleClose runs.
EndIsSeen == []<>(clientLoop = "over" \/ (link = "up" /\ ~(serverLoop = "over" /\ tasksOver)))
=============================================================================
