---------------------------- MODULE BridgeProofs ----------------------------
(***************************************************************************)
(* Proofs about Bridge, for every rate, bucket, buffer and length of       *)
(* messages: its tasks use the limiter as RateLimiter says, and so the     *)
(* bytes they pass on are bounded.                                         *)
(***************************************************************************)
EXTENDS Bridge, RateLimiterProofs

\* The types of the bytes: sequences, and nothing to send is longer than MaxBytes.
Bytes == Seq(Nat)
Message == {m \in Bytes : Len(m) <= MaxBytes}
BridgeTypes ==
  /\ peerSent \in Nat /\ sent \in Nat
  /\ incoming \in Bytes /\ buf \in Bytes /\ events \in Bytes
  /\ data \in Bytes /\ written \in Bytes
  /\ channel \in Seq(Message)

\* A task is in consume() exactly while it sleeps, and owes no more than what it holds.
Asleep ==
  /\ read = "sleeping" <=> wakeAt[Reader] # Awake
  /\ write = "sleeping" <=> wakeAt[Writer] # Awake
  /\ owed[Reader] <= Len(buf) /\ owed[Writer] <= Len(data)
  /\ read # "sleeping" => buf = << >> /\ owed[Reader] = 0
  /\ write # "sleeping" => owed[Writer] = 0
  /\ write \in {"waiting", "drained"} => data = << >>

\* What was taken from the bucket, slept off or is being slept off is what the tasks hold
\* and have passed on.
PassedOn == Len(events) + Len(written)
Holding == Len(buf) + Len(data)
SleptOff == slept[Reader] + slept[Writer]
Owed == owed[Reader] + owed[Writer]
Paid == PassedOn + Holding = drawn + SleptOff + Owed

\* A sleep that is over was slept.
SleptInTime == \A c \in {Reader, Writer} : slept[c] <= Rate * now

BridgeInv == IndInv /\ BridgeTypes /\ Asleep /\ Paid /\ SleptInTime

\* Lengths of the sequences that the tasks make.
LEMMA Joined ==
  ASSUME NEW s \in Bytes, NEW t \in Bytes
  PROVE  s \o t \in Bytes /\ Len(s) \in Nat /\ Len(t) \in Nat
         /\ Len(s \o t) = Len(s) + Len(t)
BY DEF Bytes

\* The two pieces of a sequence cut after its nth byte.
LEMMA Pieces ==
  ASSUME NEW s \in Bytes, NEW n \in Nat, n <= Len(s)
  PROVE  /\ SubSeq(s, 1, n) \in Bytes /\ Len(SubSeq(s, 1, n)) = n
         /\ SubSeq(s, n + 1, Len(s)) \in Bytes
         /\ Len(SubSeq(s, n + 1, Len(s))) = Len(s) - n /\ Len(s) \in Nat
BY DEF Bytes

\* The next n bytes of a sender.
LEMMA NumberedBytes ==
  ASSUME NEW k \in Nat, NEW n \in Nat
  PROVE  Numbered(k, n) \in Bytes /\ Len(Numbered(k, n)) = n
BY DEF Bytes, Numbered

\* Whatever a bridge does, the limiter sees a call of consume(), its return, time, or nothing.
LEMMA LimiterStep == BridgeTypes /\ [BridgeNext]_bridgeVars => [Next]_vars
<1>. SUFFICES ASSUME BridgeTypes, [BridgeNext]_bridgeVars PROVE [Next]_vars
  OBVIOUS
<1>. USE BridgeAssumption, RateLimiterAssumption
<1>1. CASE ReadSome
  <2>1. PICK n \in 1 .. Len(incoming) :
          n <= BufSize /\ (ConsumeNow(Reader, n) \/ ConsumeLater(Reader, n))
    BY <1>1 DEF ReadSome
  <2>2. n \in Nat /\ n <= MaxBytes
    BY <2>1
  <2>. QED  BY <2>1, <2>2 DEF Next
<1>2. CASE WriteTakes
  <2>1. Head(channel) \in Message
    BY <1>2 DEF WriteTakes, BridgeTypes
  <2>2. Head(channel) \in Bytes /\ Len(Head(channel)) <= MaxBytes
    BY <2>1 DEF Message
  <2>3. Len(Head(channel)) \in 0 .. MaxBytes
    BY <2>2 DEF Bytes
  <2>. QED  BY <1>2, <2>3 DEF WriteTakes, Next
<1>3. CASE ReadWakes \/ WriteWakes
  BY <1>3 DEF ReadWakes, ReadPaid, WriteWakes, Next
<1>4. CASE TimePasses
  BY <1>4 DEF TimePasses, Next
<1>5. CASE PeerSends \/ PeerEnds \/ ReadEnds \/ Unlisted \/ (\E n \in Lengths : Send(n))
  BY <1>5 DEF PeerSends, PeerEnds, ReadEnds, Unlisted, Send, limiterVars
<1>6. CASE WriteSome \/ WriteFails \/ WriteEnds
  BY <1>6 DEF WriteSome, WriteFails, WriteEnds, limiterVars
<1>7. CASE UNCHANGED bridgeVars
  BY <1>7 DEF bridgeVars, limiterVars
<1>. QED  BY <1>1, <1>2, <1>3, <1>4, <1>5, <1>6, <1>7 DEF BridgeNext

\* The bytes stay sequences of the lengths they have.
LEMMA TypesStep == BridgeTypes /\ [BridgeNext]_bridgeVars => BridgeTypes'
<1>. SUFFICES ASSUME BridgeTypes, [BridgeNext]_bridgeVars PROVE BridgeTypes'
  OBVIOUS
<1>. USE DEF BridgeTypes, readVars, sendVars, writeVars
<1>0. << >> \in Bytes
  BY DEF Bytes
<1>1. CASE PeerSends
  <2>1. PICK n \in 1 .. MaxIn - peerSent :
          peerSent' = peerSent + n /\ incoming' = incoming \o Numbered(peerSent, n)
    BY <1>1 DEF PeerSends
  <2>2. n \in Nat
    BY <2>1, BridgeAssumption
  <2>3. Numbered(peerSent, n) \in Bytes
    BY <2>2, NumberedBytes
  <2>4. incoming' \in Bytes
    BY <2>1, <2>3, Joined
  <2>. QED  BY <1>1, <2>1, <2>2, <2>4 DEF PeerSends
<1>2. CASE ReadSome
  <2>1. PICK n \in 1 .. Len(incoming) :
          /\ incoming' = SubSeq(incoming, n + 1, Len(incoming))
          /\ \/ events' = events \o SubSeq(incoming, 1, n) /\ buf' = buf
             \/ buf' = SubSeq(incoming, 1, n) /\ events' = events
    BY <1>2 DEF ReadSome
  <2>2. n \in Nat /\ n <= Len(incoming)
    BY DEF Bytes
  <2>3. SubSeq(incoming, 1, n) \in Bytes /\ incoming' \in Bytes
    BY <2>1, <2>2, Pieces
  <2>4. events \o SubSeq(incoming, 1, n) \in Bytes
    BY <2>3, Joined
  <2>5. events' \in Bytes /\ buf' \in Bytes
    BY <2>1, <2>3, <2>4
  <2>. QED  BY <1>2, <2>3, <2>5 DEF ReadSome
<1>3. CASE ReadWakes
  <2>1. events \o buf \in Bytes
    BY Joined
  <2>. QED  BY <1>0, <1>3, <2>1 DEF ReadWakes, ReadPaid
<1>4. CASE ReadEnds
  BY <1>0, <1>4 DEF ReadEnds
<1>5. ASSUME NEW n \in Lengths, Send(n) PROVE BridgeTypes'
  <2>1. n \in Nat /\ n <= MaxBytes
    BY BridgeAssumption, RateLimiterAssumption
  <2>2. Numbered(sent, n) \in Message
    BY <2>1, NumberedBytes DEF Message
  <2>. QED  BY <1>5, <2>1, <2>2 DEF Send
<1>6. CASE WriteTakes
  <2>1. Head(channel) \in Message /\ Tail(channel) \in Seq(Message)
    BY <1>6 DEF WriteTakes
  <2>. QED  BY <1>6, <2>1 DEF WriteTakes, Message
<1>7. CASE WriteSome
  <2>1. PICK n \in 0 .. Len(data) :
          written' = written \o SubSeq(data, 1, n) /\ data' = SubSeq(data, n + 1, Len(data))
    BY <1>7 DEF WriteSome
  <2>2. n \in Nat /\ n <= Len(data)
    BY DEF Bytes
  <2>3. SubSeq(data, 1, n) \in Bytes /\ data' \in Bytes
    BY <2>1, <2>2, Pieces
  <2>4. written' \in Bytes
    BY <2>1, <2>3, Joined
  <2>. QED  BY <1>7, <2>3, <2>4 DEF WriteSome
<1>8. CASE PeerEnds \/ TimePasses \/ Unlisted
  BY <1>8 DEF PeerEnds, TimePasses, Unlisted
<1>9. CASE WriteWakes \/ WriteFails \/ WriteEnds
  BY <1>9 DEF WriteWakes, WriteFails, WriteEnds
<1>10. CASE UNCHANGED bridgeVars
  BY <1>10 DEF bridgeVars
<1>. QED
  BY <1>1, <1>2, <1>3, <1>4, <1>5, <1>6, <1>7, <1>8, <1>9, <1>10 DEF BridgeNext

\* What consume() does for one of the two tasks, and what it leaves alone.
LEMMA Consumed ==
  ASSUME IndInv, NEW c \in Consumers, NEW n \in 0 .. MaxBytes
  PROVE  /\ ConsumeNow(c, n) =>
              /\ drawn' = drawn + n /\ wakeAt[c] = Awake
              /\ UNCHANGED <<now, wakeAt, owed, slept>>
         /\ ConsumeLater(c, n) =>
              \E d \in 1 .. n, t \in Nat :
                /\ drawn' = drawn + n - d /\ wakeAt[c] = Awake
                /\ wakeAt' = [wakeAt EXCEPT ![c] = t] /\ owed' = [owed EXCEPT ![c] = d]
                /\ UNCHANGED <<now, slept>>
<1>1. n \in Nat /\ drawn \in Nat /\ now \in Nat
  BY RateLimiterAssumption DEF IndInv, TypeOK
<1>2. ConsumeNow(c, n) =>
        drawn' = drawn + n /\ wakeAt[c] = Awake /\ UNCHANGED <<now, wakeAt, owed, slept>>
  BY DEF ConsumeNow
<1>3. ASSUME ConsumeLater(c, n)
      PROVE  \E d \in 1 .. n, t \in Nat :
               /\ drawn' = drawn + n - d /\ wakeAt[c] = Awake
               /\ wakeAt' = [wakeAt EXCEPT ![c] = t] /\ owed' = [owed EXCEPT ![c] = d]
               /\ UNCHANGED <<now, slept>>
  <2>. DEFINE d == n - Refilled
              t == now + Wait(d)
  <2>1. Refilled \in Nat
    BY RefillFits DEF IndInv
  <2>2. d \in 1 .. n /\ d \in Nat /\ drawn + Refilled = drawn + n - d
    BY <1>1, <1>3, <2>1 DEF ConsumeLater
  <2>3. t \in Nat
    BY <1>1, <2>2, WaitPays
  <2>4. /\ drawn' = drawn + Refilled /\ wakeAt[c] = Awake
        /\ wakeAt' = [wakeAt EXCEPT ![c] = t] /\ owed' = [owed EXCEPT ![c] = d]
        /\ UNCHANGED <<now, slept>>
    BY <1>3 DEF ConsumeLater
  <2>. HIDE DEF d, t
  <2>. QED  BY <2>2, <2>3, <2>4
<1>. QED  BY <1>2, <1>3

\* At the end of a sleep, what was slept off was slept.
LEMMA SleepOver ==
  ASSUME IndInv, NEW c \in Consumers, wakeAt[c] \in Nat, wakeAt[c] <= now
  PROVE  slept[c] + owed[c] <= Rate * now
<1>1. slept[c] \in Nat /\ owed[c] \in Nat /\ now \in Nat /\ wakeAt[c] # Awake
  BY DEF IndInv, TypeOK, Awake
<1>2. slept[c] + owed[c] <= Rate * wakeAt[c]
  BY <1>1 DEF IndInv, SleepBound
<1>3. Rate * wakeAt[c] <= Rate * now /\ Rate * wakeAt[c] \in Nat /\ Rate * now \in Nat
  BY <1>1, RateLimiterAssumption
<1>. QED  BY <1>1, <1>2, <1>3

\* The four sums are numbers.
LEMMA Books ==
  ASSUME BridgeInv
  PROVE  PassedOn \in Nat /\ Holding \in Nat /\ SleptOff \in Nat /\ Owed \in Nat
<1>1. /\ Len(buf) \in Nat /\ Len(events) \in Nat /\ Len(data) \in Nat
      /\ Len(written) \in Nat
  BY DEF BridgeInv, BridgeTypes, Bytes
<1>2. /\ slept[Reader] \in Nat /\ slept[Writer] \in Nat
      /\ owed[Reader] \in Nat /\ owed[Writer] \in Nat
  BY BridgeAssumption DEF BridgeInv, IndInv, TypeOK
<1>3. PassedOn \in Nat
  BY <1>1 DEF PassedOn
<1>4. Holding \in Nat
  BY <1>1 DEF Holding
<1>5. SleptOff \in Nat
  BY <1>2 DEF SleptOff
<1>6. Owed \in Nat
  BY <1>2 DEF Owed
<1>. QED  BY <1>3, <1>4, <1>5, <1>6

\* Every step keeps the books: bytes read or taken are charged, bytes passed on were paid.
LEMMA PaidStep ==
  BridgeInv /\ [BridgeNext]_bridgeVars => Asleep' /\ Paid' /\ SleptInTime'
<1>. SUFFICES ASSUME BridgeInv, [BridgeNext]_bridgeVars
              PROVE  Asleep' /\ Paid' /\ SleptInTime'
  OBVIOUS
<1>. DEFINE Goal == Asleep' /\ Paid' /\ SleptInTime'
<1>0. /\ Reader # Writer /\ Reader \in Consumers /\ Writer \in Consumers
      /\ owed \in [Consumers -> Nat] /\ slept \in [Consumers -> Nat] /\ drawn \in Nat
      /\ wakeAt \in [Consumers -> Nat \cup {Awake}] /\ now \in Nat /\ Awake \notin Nat
      /\ Rate * now \in Nat
  BY BridgeAssumption, RateLimiterAssumption DEF BridgeInv, IndInv, TypeOK, Awake
<1>1. /\ Len(buf) \in Nat /\ Len(events) \in Nat /\ Len(data) \in Nat
      /\ Len(written) \in Nat /\ Len(incoming) \in Nat
      /\ Len(<< >>) = 0 /\ << >> \in Bytes
  BY DEF BridgeInv, BridgeTypes, Bytes
<1>p. /\ PassedOn \in Nat /\ Holding \in Nat /\ SleptOff \in Nat /\ Owed \in Nat
      /\ PassedOn + Holding = drawn + SleptOff + Owed
  BY Books DEF BridgeInv, Paid
<1>2. ASSUME ReadSome PROVE Goal
  <2>1. PICK n \in 1 .. Len(incoming) :
          /\ n <= BufSize
          /\ \/ ConsumeNow(Reader, n) /\ events' = events \o SubSeq(incoming, 1, n)
                /\ UNCHANGED <<read, buf>>
             \/ ConsumeLater(Reader, n) /\ buf' = SubSeq(incoming, 1, n)
                /\ read' = "sleeping" /\ UNCHANGED events
    BY <1>2, Zenon DEF ReadSome
  <2>2. n \in Nat /\ n <= Len(incoming) /\ n \in 0 .. MaxBytes
    <3>1. BufSize \in Nat /\ BufSize <= MaxBytes /\ MaxBytes \in Nat
      BY BridgeAssumption, RateLimiterAssumption
    <3>. QED  BY <1>1, <2>1, <3>1
  <2>3. /\ SubSeq(incoming, 1, n) \in Bytes /\ Len(SubSeq(incoming, 1, n)) = n
    BY <2>2, Pieces DEF BridgeInv, BridgeTypes
  <2>4. /\ read = "reading" /\ UNCHANGED <<write, data, written>>
        /\ buf = << >> /\ owed[Reader] = 0 /\ Len(buf) = 0
    BY <1>1, <1>2 DEF ReadSome, writeVars, BridgeInv, Asleep
  <2>5. CASE ConsumeNow(Reader, n) /\ events' = events \o SubSeq(incoming, 1, n)
             /\ UNCHANGED <<read, buf>>
    <3>1. Len(events') = Len(events) + n
      BY <2>3, <2>5, Joined DEF BridgeInv, BridgeTypes
    <3>2. drawn' = drawn + n /\ UNCHANGED <<now, wakeAt, owed, slept>>
      BY <1>0, <2>2, <2>5, Consumed DEF BridgeInv
    <3>3. Asleep' /\ SleptInTime'
      BY <2>4, <2>5, <3>2 DEF BridgeInv, Asleep, SleptInTime
    <3>4. PassedOn' = PassedOn + n /\ UNCHANGED <<Holding, SleptOff, Owed>>
      BY <1>1, <2>2, <2>4, <2>5, <3>1, <3>2 DEF PassedOn, Holding, SleptOff, Owed
    <3>5. Paid'
      BY <1>0, <1>p, <2>2, <3>2, <3>4 DEF Paid
    <3>. QED  BY <3>3, <3>5
  <2>6. CASE ConsumeLater(Reader, n) /\ buf' = SubSeq(incoming, 1, n)
             /\ read' = "sleeping" /\ UNCHANGED events
    <3>1. PICK d \in 1 .. n, t \in Nat :
            /\ drawn' = drawn + n - d
            /\ wakeAt' = [wakeAt EXCEPT ![Reader] = t]
            /\ owed' = [owed EXCEPT ![Reader] = d] /\ UNCHANGED <<now, slept>>
      BY <1>0, <2>2, <2>6, Consumed DEF BridgeInv
    <3>2. Len(buf') = n /\ d \in Nat /\ d <= n
      BY <2>2, <2>3, <2>6, <3>1
    <3>3. Asleep'
      BY <1>0, <1>1, <2>4, <2>6, <3>1, <3>2 DEF BridgeInv, Asleep
    <3>4. Holding' = Holding + n /\ UNCHANGED PassedOn
      BY <1>1, <2>2, <2>4, <2>6, <3>2 DEF PassedOn, Holding
    <3>5. Owed' = Owed + d /\ UNCHANGED SleptOff
      BY <1>0, <2>4, <3>1, <3>2 DEF SleptOff, Owed
    <3>6. Paid'
      BY <1>0, <1>p, <2>2, <3>1, <3>2, <3>4, <3>5 DEF Paid
    <3>. QED  BY <1>0, <3>1, <3>3, <3>6 DEF BridgeInv, SleptInTime
  <2>. QED  BY <2>1, <2>5, <2>6
<1>3. ASSUME ReadWakes PROVE Goal
  <2>1. /\ read = "sleeping" /\ read' = "reading" /\ buf' = << >> /\ events' = events \o buf
        /\ Wake(Reader) /\ UNCHANGED <<write, data, written>>
    BY <1>3 DEF ReadWakes, ReadPaid, writeVars
  <2>2. /\ wakeAt[Reader] \in Nat /\ wakeAt[Reader] <= now
        /\ wakeAt' = [wakeAt EXCEPT ![Reader] = Awake]
        /\ slept' = [slept EXCEPT ![Reader] = @ + owed[Reader]]
        /\ owed' = [owed EXCEPT ![Reader] = 0] /\ UNCHANGED <<now, drawn>>
    BY <1>0, <2>1 DEF Wake
  <2>3. Len(events') = Len(events) + Len(buf)
    BY <2>1, Joined DEF BridgeInv, BridgeTypes
  <2>4. Asleep'
    BY <1>0, <1>1, <2>1, <2>2 DEF BridgeInv, Asleep
  <2>. DEFINE n == Len(buf)
              d == owed[Reader]
  <2>5. PassedOn' = PassedOn + n /\ Holding' = Holding - n
    BY <1>1, <2>1, <2>3 DEF PassedOn, Holding
  <2>6. SleptOff' = SleptOff + d /\ Owed' = Owed - d
    BY <1>0, <2>2 DEF SleptOff, Owed
  <2>7. n \in Nat /\ d \in Nat
    BY <1>0, <1>1
  <2>. HIDE DEF n, d
  <2>8. Paid'
    BY <1>0, <1>p, <2>2, <2>5, <2>6, <2>7 DEF Paid
  <2>. QED  BY <2>4, <2>8, <1>0, <2>2, SleepOver DEF BridgeInv, SleptInTime
<1>4. ASSUME WriteTakes PROVE Goal
  <2>. DEFINE n == Len(Head(channel))
  <2>1. Head(channel) \in Message
    BY <1>4 DEF WriteTakes, BridgeInv, BridgeTypes
  <2>2. n \in Nat /\ n \in 0 .. MaxBytes
    BY <2>1, RateLimiterAssumption DEF Message, Bytes
  <2>3. /\ write = "waiting" /\ data' = Head(channel) /\ UNCHANGED <<read, buf, events, written>>
        /\ data = << >> /\ owed[Writer] = 0 /\ Len(data') = n /\ Len(data) = 0
    BY <1>1, <1>4 DEF WriteTakes, readVars, BridgeInv, Asleep
  <2>. HIDE DEF n
  <2>4. CASE ConsumeNow(Writer, n) /\ write' = "writing"
    <3>1. drawn' = drawn + n /\ UNCHANGED <<now, wakeAt, owed, slept>>
      BY <1>0, <2>2, <2>4, Consumed DEF BridgeInv
    <3>2. Asleep' /\ SleptInTime'
      BY <2>2, <2>3, <2>4, <3>1 DEF BridgeInv, Asleep, SleptInTime
    <3>3. Holding' = Holding + n /\ UNCHANGED <<PassedOn, SleptOff, Owed>>
      BY <1>1, <2>2, <2>3, <3>1 DEF PassedOn, Holding, SleptOff, Owed
    <3>4. Paid'
      BY <1>0, <1>p, <2>2, <3>1, <3>3 DEF Paid
    <3>. QED  BY <3>2, <3>4
  <2>5. CASE ConsumeLater(Writer, n) /\ write' = "sleeping"
    <3>1. PICK d \in 1 .. n, t \in Nat :
            /\ drawn' = drawn + n - d
            /\ wakeAt' = [wakeAt EXCEPT ![Writer] = t]
            /\ owed' = [owed EXCEPT ![Writer] = d] /\ UNCHANGED <<now, slept>>
      BY <1>0, <2>2, <2>5, Consumed DEF BridgeInv
    <3>2. d \in Nat /\ d <= n
      BY <2>2, <3>1
    <3>3. Asleep'
      BY <1>0, <1>1, <2>2, <2>3, <2>5, <3>1, <3>2 DEF BridgeInv, Asleep
    <3>4. Holding' = Holding + n /\ UNCHANGED PassedOn
      BY <1>1, <2>2, <2>3 DEF PassedOn, Holding
    <3>5. Owed' = Owed + d /\ UNCHANGED SleptOff
      BY <1>0, <2>3, <3>1, <3>2 DEF SleptOff, Owed
    <3>6. Paid'
      BY <1>0, <1>p, <2>2, <3>1, <3>2, <3>4, <3>5 DEF Paid
    <3>. QED  BY <1>0, <3>1, <3>3, <3>6 DEF BridgeInv, SleptInTime
  <2>6. \/ ConsumeNow(Writer, n) /\ write' = "writing"
        \/ ConsumeLater(Writer, n) /\ write' = "sleeping"
    BY <1>4 DEF WriteTakes, n
  <2>. QED  BY <2>4, <2>5, <2>6
<1>5. ASSUME WriteWakes PROVE Goal
  <2>1. /\ write = "sleeping" /\ write' = "writing" /\ Wake(Writer)
        /\ UNCHANGED <<read, buf, events, data, written>>
    BY <1>5 DEF WriteWakes, readVars
  <2>2. /\ wakeAt[Writer] \in Nat /\ wakeAt[Writer] <= now
        /\ wakeAt' = [wakeAt EXCEPT ![Writer] = Awake]
        /\ slept' = [slept EXCEPT ![Writer] = @ + owed[Writer]]
        /\ owed' = [owed EXCEPT ![Writer] = 0] /\ UNCHANGED <<now, drawn>>
    BY <1>0, <2>1 DEF Wake
  <2>3. Asleep'
    BY <1>0, <1>1, <2>1, <2>2 DEF BridgeInv, Asleep
  <2>4. UNCHANGED <<PassedOn, Holding>>
    BY <2>1 DEF PassedOn, Holding
  <2>5. SleptOff' = SleptOff + owed[Writer] /\ Owed' = Owed - owed[Writer]
    BY <1>0, <2>2 DEF SleptOff, Owed
  <2>6. owed[Writer] \in Nat
    BY <1>0
  <2>7. Paid'
    BY <1>0, <1>p, <2>2, <2>4, <2>5, <2>6 DEF Paid
  <2>. QED  BY <2>3, <2>7, <1>0, <2>2, SleepOver DEF BridgeInv, SleptInTime
<1>6. ASSUME WriteSome PROVE Goal
  <2>1. PICK n \in 0 .. Len(data) :
          /\ written' = written \o SubSeq(data, 1, n)
          /\ data' = SubSeq(data, n + 1, Len(data))
          /\ write' = IF n = Len(data) THEN "waiting" ELSE write
    BY <1>6 DEF WriteSome
  <2>2. n \in Nat /\ n <= Len(data)
    BY <1>1, <2>1
  <2>3. /\ SubSeq(data, 1, n) \in Bytes /\ Len(SubSeq(data, 1, n)) = n
        /\ data' \in Bytes /\ Len(data') = Len(data) - n
    BY <2>1, <2>2, Pieces DEF BridgeInv, BridgeTypes
  <2>4. Len(written') = Len(written) + n
    BY <2>1, <2>3, Joined DEF BridgeInv, BridgeTypes
  <2>5. n = Len(data) => data' = << >>
    BY <1>1, <2>3 DEF Bytes
  <2>6. write = "writing" /\ UNCHANGED <<vars, read, buf, events>>
    BY <1>6 DEF WriteSome, MayWrite, readVars, limiterVars
  <2>7. Asleep'
    BY <1>0, <1>1, <2>1, <2>2, <2>3, <2>5, <2>6 DEF BridgeInv, Asleep, vars
  <2>8. PassedOn' = PassedOn + n /\ Holding' = Holding - n
    BY <1>1, <2>2, <2>3, <2>4, <2>6 DEF PassedOn, Holding
  <2>9. UNCHANGED <<drawn, SleptOff, Owed>>
    BY <2>6 DEF SleptOff, Owed, vars
  <2>10. Paid'
    BY <1>0, <1>p, <2>2, <2>8, <2>9 DEF Paid
  <2>. QED  BY <2>6, <2>7, <2>10 DEF BridgeInv, SleptInTime, vars
<1>7. ASSUME TimePasses PROVE Goal
  <2>1. /\ now' = now + 1 /\ UNCHANGED <<wakeAt, owed, drawn, slept>>
        /\ UNCHANGED <<read, buf, events, write, data, written>>
    BY <1>7 DEF TimePasses, Tick, readVars, writeVars
  <2>2. Rate * now' = Rate * now + Rate /\ Rate \in Nat
    BY <1>0, <2>1, RateLimiterAssumption
  <2>3. Asleep' /\ Paid'
    BY <2>1 DEF BridgeInv, Asleep, Paid, PassedOn, Holding, SleptOff, Owed
  <2>4. slept[Reader] \in Nat /\ slept[Writer] \in Nat
    BY <1>0
  <2>5. SleptInTime'
    BY <1>0, <2>1, <2>2, <2>4 DEF BridgeInv, SleptInTime
  <2>. QED  BY <2>3, <2>5
<1>8. ASSUME ReadEnds \/ WriteFails \/ WriteEnds PROVE Goal
  <2>1. /\ UNCHANGED <<vars, buf, events, data, written>>
        /\ \/ read = "reading" /\ read' = "over" /\ write' = write
           \/ write = "writing" /\ write' = "failed" /\ read' = read
           \/ write = "waiting" /\ write' = "drained" /\ read' = read
    BY <1>8 DEF ReadEnds, WriteFails, WriteEnds, readVars, writeVars, limiterVars
  <2>. QED
    BY <2>1
    DEF BridgeInv, Asleep, Paid, PassedOn, Holding, SleptOff, Owed, SleptInTime, vars
<1>9. ASSUME UNCHANGED <<vars, read, buf, events, write, data, written>> PROVE Goal
  BY <1>9 DEF BridgeInv, Asleep, Paid, PassedOn, Holding, SleptOff, Owed, SleptInTime, vars
<1>10. CASE PeerSends \/ PeerEnds \/ Unlisted \/ (\E n \in Lengths : Send(n))
  BY <1>9, <1>10 DEF PeerSends, PeerEnds, Unlisted, Send, readVars, writeVars, limiterVars
<1>11. CASE UNCHANGED bridgeVars
  BY <1>9, <1>11 DEF bridgeVars, readVars, writeVars, limiterVars
<1>. QED
  BY <1>2, <1>3, <1>4, <1>5, <1>6, <1>7, <1>8, <1>10, <1>11 DEF BridgeNext

\* So the books are right in every reachable state.
LEMMA BridgeInvHolds == BridgeSpec => []BridgeInv
<1>1. BridgeInit => BridgeInv
  <2>. SUFFICES ASSUME BridgeInit PROVE BridgeInv
    OBVIOUS
  <2>1. IndInv
    BY RateLimiterAssumption
    DEF BridgeInit, Init, IndInv, TypeOK, BucketBound, SleepBound, Capacity, Awake
  <2>2. BridgeTypes
    BY DEF BridgeInit, BridgeTypes, Bytes, Message
  <2>3. /\ Len(<< >>) = 0 /\ Reader \in Consumers /\ Writer \in Consumers /\ now = 0
        /\ Rate * 0 = 0
    BY BridgeAssumption, RateLimiterAssumption DEF BridgeInit, Init
  <2>4. Asleep /\ Paid /\ SleptInTime
    BY <2>3 DEF BridgeInit, Init, Asleep, Paid, PassedOn, Holding, SleptOff, Owed, SleptInTime
  <2>. QED  BY <2>1, <2>2, <2>4 DEF BridgeInv
<1>2. BridgeInv /\ [BridgeNext]_bridgeVars => BridgeInv'
  BY LimiterStep, TypesStep, PaidStep, IndInvStep DEF BridgeInv
<1>. QED  BY <1>1, <1>2, PTL DEF BridgeSpec

\* A bridge uses the limiter as RateLimiter describes: whatever is proved of the limiter holds
\* for it.
THEOREM BridgeUsesLimiter == BridgeSpec => Spec
<1>1. BridgeInit => Init
  BY DEF BridgeInit
<1>2. BridgeInv /\ [BridgeNext]_bridgeVars => [Next]_vars
  BY LimiterStep DEF BridgeInv
<1>. QED  BY <1>1, <1>2, BridgeInvHolds, PTL DEF BridgeSpec, Spec

\* What a bridge has passed on, in both directions, is a burst and three times the rate.
THEOREM ForwardedAlwaysBounded == BridgeSpec => []ForwardedBound
<1>1. BridgeInv => ForwardedBound
  <2>. SUFFICES ASSUME BridgeInv PROVE ForwardedBound
    OBVIOUS
  <2>1. /\ drawn \in Nat /\ tokens \in Nat /\ now \in Nat /\ lastRefill \in Nat
        /\ lastRefill <= now /\ Capacity \in Nat
        /\ Rate * now \in Nat /\ Rate * lastRefill \in Nat
    BY RefillFits, RateLimiterAssumption DEF BridgeInv, IndInv, TypeOK, Capacity
  <2>2. Rate * lastRefill <= Rate * now
    BY <2>1, RateLimiterAssumption
  <2>3. drawn <= Capacity + Rate * now
    BY <2>1, <2>2 DEF BridgeInv, IndInv, BucketBound
  <2>4. /\ Reader \in Consumers /\ Writer \in Consumers
        /\ slept[Reader] <= Rate * now /\ slept[Writer] <= Rate * now
    BY BridgeAssumption DEF BridgeInv, SleptInTime
  <2>5. /\ slept[Reader] \in Nat /\ slept[Writer] \in Nat
        /\ owed[Reader] \in Nat /\ owed[Writer] \in Nat
    BY <2>4 DEF BridgeInv, IndInv, TypeOK
  <2>6. /\ Len(buf) \in Nat /\ Len(events) \in Nat /\ Len(data) \in Nat
        /\ Len(written) \in Nat
    BY DEF BridgeInv, BridgeTypes, Bytes
  <2>7. owed[Reader] <= Len(buf) /\ owed[Writer] <= Len(data)
    BY DEF BridgeInv, Asleep
  <2>a. /\ Owed \in Nat /\ Holding \in Nat /\ SleptOff \in Nat /\ PassedOn \in Nat
    BY Books
  <2>b. Owed <= Holding
    BY <2>5, <2>6, <2>7 DEF Owed, Holding
  <2>8. SleptOff <= Rate * now + Rate * now
    BY <2>1, <2>4, <2>5 DEF SleptOff
  <2>9. PassedOn <= drawn + SleptOff
    BY <2>1, <2>a, <2>b DEF BridgeInv, Paid
  <2>10. 3 * Rate * now = Rate * now + Rate * now + Rate * now
    BY <2>1, RateLimiterAssumption
  <2>11. PassedOn <= Capacity + 3 * Rate * now
    BY <2>1, <2>3, <2>8, <2>9, <2>10, <2>a
  <2>. QED  BY <2>11 DEF ForwardedBound, PassedOn
<1>. QED  BY <1>1, BridgeInvHolds, PTL
=============================================================================
