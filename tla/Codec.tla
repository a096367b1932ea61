------------------------------- MODULE Codec -------------------------------
(***************************************************************************)
(* Binary frames: a type byte, the socket id, a payload.  Each direction   *)
(* has an encoder and a decoder, one in src/src/binary.rs and one in       *)
(* src/client/wasmnet-client.js.                                           *)
(*                                                                         *)
(* A message is a request or an event: its type, its id, one number (port, *)
(* backlog or conn_id), one text as UTF-8 (addr, name, remote, msg or the  *)
(* JSON of addrs) and raw data.  Base64, in which the server keeps data,   *)
(* is undone wherever it is done and left out.                             *)
(***************************************************************************)
EXTENDS Integers, Sequences

CONSTANTS
  Base,           \* a byte is 0 .. Base - 1 (256)
  EventBit,       \* what the type byte of an event has on top (0x80)
  IdWidth, PortWidth, LengthWidth, BacklogWidth,   \* in bytes (8, 2, 2, 4)
  DefaultBacklog

ASSUME CodecAssumption ==
  /\ Base \in Nat /\ EventBit \in 9 .. Base - 11
  /\ {IdWidth, PortWidth, LengthWidth, BacklogWidth} \subseteq Nat \ {0}

\* msg_type, MSG: the position in the list is the code.
RequestTypes ==
  <<"connect", "bind", "listen", "send", "close", "connect_udp", "send_to", "resolve",
    "connect_tls">>
EventTypes ==
  <<"connected", "data", "listening", "accepted", "closed", "error", "denied", "data_from",
    "resolved", "udp_bound">>
Code(types, type) == CHOOSE n \in DOMAIN types : types[n] = type

Message(type, id, num, text, data) ==
  [type |-> type, id |-> id, num |-> num, text |-> text, data |-> data]
Invalid == Message("invalid", 0, 0, << >>, << >>)

\* to_be_bytes and setUint16, setUint32, setBigUint64: the low w bytes, big end first.
ToBytes(n, w) == [k \in 1 .. w |-> (n \div Base ^ (w - k)) % Base]
FromBytes(bytes) ==
  LET upTo[n \in 0 .. Len(bytes)] == IF n = 0 THEN 0 ELSE upTo[n - 1] * Base + bytes[n]
  IN upTo[Len(bytes)]

First(s, n) == SubSeq(s, 1, n)
Past(s, n) == SubSeq(s, n + 1, Len(s))

Header == 1 + IdWidth
Frame(code, id, payload) == <<code>> \o ToBytes(id, IdWidth) \o payload
IdOf_FromStart(frame) == FromBytes(First(frame, IdWidth))
IdOf(frame) == FromBytes(SubSeq(frame, 2, Header))
Payload(frame) == Past(frame, Header)

(***************************************************************************)
(* An address after its port, with its length in between when data follows *)
(***************************************************************************)
AddrPort(m) == ToBytes(m.num, PortWidth) \o m.text
AddrStart == PortWidth + LengthWidth
AddrData(m) ==
  ToBytes(m.num, PortWidth) \o ToBytes(Len(m.text), LengthWidth) \o m.text \o m.data
PortOf(payload) == FromBytes(First(payload, PortWidth))
AddrEnd(payload) == AddrStart + FromBytes(SubSeq(payload, PortWidth + 1, AddrStart))

(***************************************************************************)
(* Requests                                                                *)
(***************************************************************************)
AddrRequests == {"connect", "bind", "connect_udp", "connect_tls"}

\* The client's methods, _addrPortPayload and _sendBinary.
EncodeRequest(m) ==
  Frame(Code(RequestTypes, m.type), m.id,
        CASE m.type \in AddrRequests -> AddrPort(m)
          [] m.type = "listen" -> ToBytes(m.num, BacklogWidth)
          [] m.type = "send_to" -> AddrData(m)
          [] m.type = "resolve" -> m.text
          [] m.type = "send" -> m.data
          [] m.type = "close" -> << >>)

\* String::from_utf8.  The largest byte stands for what no UTF-8 text has.
IsUtf8(bytes) == \A n \in DOMAIN bytes : bytes[n] # Base - 1

\* What decode_request answers with an error.
Malformed(frame) ==
  LET payload == Payload(frame)
      type == RequestTypes[frame[1]]
  IN \/ Len(frame) < Header
     \/ frame[1] \notin DOMAIN RequestTypes
     \/ type \in AddrRequests
          /\ (Len(payload) < PortWidth \/ ~IsUtf8(Past(payload, PortWidth)))
     \/ type = "send_to"
          /\ \/ Len(payload) < AddrStart
             \/ Len(payload) < AddrEnd(payload)
             \/ ~IsUtf8(SubSeq(payload, AddrStart + 1, AddrEnd(payload)))
     \/ type = "resolve" /\ ~IsUtf8(payload)

Backlog(payload) ==
  IF Len(payload) >= BacklogWidth THEN FromBytes(First(payload, BacklogWidth))
  ELSE DefaultBacklog

DecodeRequest(frame) ==
  LET type == RequestTypes[frame[1]]
      payload == Payload(frame)
      Read(num, text, data) == Message(type, IdOf(frame), num, text, data)
  IN IF Malformed(frame) THEN Invalid
     ELSE CASE type \in AddrRequests -> Read(PortOf(payload), Past(payload, PortWidth), << >>)
            [] type = "listen" -> Read(Backlog(payload), << >>, << >>)
            [] type = "send" -> Read(0, << >>, payload)
            [] type = "close" -> Read(0, << >>, << >>)
            [] type = "send_to" ->
                 Read(PortOf(payload), SubSeq(payload, AddrStart + 1, AddrEnd(payload)),
                      Past(payload, AddrEnd(payload)))
            [] type = "resolve" -> Read(0, payload, << >>)

(***************************************************************************)
(* Events                                                                  *)
(***************************************************************************)
EncodeEvent(m) ==
  Frame(EventBit + Code(EventTypes, m.type), m.id,
        CASE m.type \in {"connected", "closed"} -> << >>
          [] m.type = "data" -> m.data
          [] m.type \in {"listening", "udp_bound"} -> ToBytes(m.num, PortWidth)
          [] m.type = "accepted" -> ToBytes(m.num, IdWidth) \o m.text
          [] m.type \in {"error", "denied", "resolved"} -> m.text
          [] m.type = "data_from" -> AddrData(m))

\* _handleBinaryEvent, up to _dispatch.  A short frame or an unknown type is ignored.
DecodeEvent(frame) ==
  LET known == Len(frame) >= Header /\ frame[1] - EventBit \in DOMAIN EventTypes
      type == EventTypes[frame[1] - EventBit]
      payload == Payload(frame)
      Read(num, text, data) == Message(type, IdOf(frame), num, text, data)
  IN IF ~known THEN Invalid
     ELSE CASE type \in {"connected", "closed"} -> Read(0, << >>, << >>)
            [] type = "data" -> Read(0, << >>, payload)
            [] type \in {"listening", "udp_bound"} -> Read(PortOf(payload), << >>, << >>)
            [] type = "accepted" ->
                 Read(FromBytes(First(payload, IdWidth)), Past(payload, IdWidth), << >>)
            [] type \in {"error", "denied", "resolved"} -> Read(0, payload, << >>)
            [] type = "data_from" ->
                 Read(PortOf(payload), SubSeq(payload, AddrStart + 1, AddrEnd(payload)),
                      Past(payload, AddrEnd(payload)))
=============================================================================
