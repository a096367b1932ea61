-------------------------------- MODULE Pool --------------------------------
(***************************************************************************)
(* The connection pool (src/src/pool.rs): a deque of idle streams for each *)
(* target, every method under one lock, and the cleanup task.  Time is in  *)
(* seconds.  What callers do with the streams they hold is external.       *)
(***************************************************************************)
EXTENDS Integers, Sequences, SequencesExt, FiniteSets

CONSTANTS
  Targets,
  Streams,
  MaxIdle,      \* max_idle_time
  MaxPerKey,    \* max_per_key
  MaxTime       \* bound: seconds in one behaviour

ASSUME PoolAssumption ==
  /\ MaxIdle \in Nat /\ MaxPerKey \in Nat /\ MaxTime \in Nat

VARIABLES
  now,
  owner,      \* stream -> new, user (a caller has it), pool or closed
  keys,       \* the keys of the map
  entries,    \* target -> its deque of [stream, since], << >> off the map
  warming,    \* target -> connections warm() still has to make
  nextTick    \* when the cleanup task's ticker fires next

vars == <<now, owner, keys, entries, warming, nextTick>>

Init ==
  /\ now = 0
  /\ owner = [s \in Streams |-> "new"]
  /\ keys = {} /\ entries = [k \in Targets |-> << >>]
  /\ warming = [k \in Targets |-> 0]
  /\ nextTick = 0

\* idle_since.elapsed() < max_idle_time
Fresh_OrEqual(e) == now - e.since <= MaxIdle
Fresh(e) == now - e.since < MaxIdle

\* The ticker's period: half the idle time, at least a second.
Interval == IF MaxIdle \div 2 > 1 THEN MaxIdle \div 2 ELSE 1

\* The streams that an operation throws away.
Dropped(D, then) == [s \in Streams |-> IF s \in D THEN "closed" ELSE then[s]]
StreamsIn(q) == {q[i].stream : i \in DOMAIN q}

\* put: the entry goes to the back of its deque, or the stream is dropped.
Room_Unchecked(k) == TRUE
Room(k) == Len(entries[k]) < MaxPerKey
Enqueue_Front(k, s) == <<[stream |-> s, since |-> now]>> \o entries[k]
Enqueue(k, s) == Append(entries[k], [stream |-> s, since |-> now])
Put(k, s) ==
  /\ keys' = keys \cup {k}
  /\ entries' = IF Room(k) THEN [entries EXCEPT ![k] = Enqueue(k, s)] ELSE entries
  /\ owner' = [owner EXCEPT ![s] = IF Room(k) THEN "pool" ELSE "closed"]

PutByUser(k, s) ==
  /\ owner[s] = "user"
  /\ Put(k, s)
  /\ UNCHANGED <<now, warming, nextTick>>

\* get: pop from the front up to the first fresh entry; a map key goes with its
\* last entry.
After_Peeked(q, j) == SubSeq(q, j, Len(q))
After(q, j) == SubSeq(q, j + 1, Len(q))
FirstFresh(k) == SelectInSeq(entries[k], Fresh)
GetHit(k) ==
  /\ FirstFresh(k) # 0
  /\ LET j == FirstFresh(k)
         s == entries[k][j].stream
     IN /\ entries' = [entries EXCEPT ![k] = After(@, j)]
        /\ keys' = IF j = Len(entries[k]) THEN keys \ {k} ELSE keys
        /\ owner' = Dropped(StreamsIn(SubSeq(entries[k], 1, j - 1)), [owner EXCEPT ![s] = "user"])
  /\ UNCHANGED <<now, warming, nextTick>>
GetMiss(k) ==
  /\ FirstFresh(k) = 0
  /\ entries' = [entries EXCEPT ![k] = << >>] /\ keys' = keys \ {k}
  /\ owner' = Dropped(StreamsIn(entries[k]), owner)
  /\ UNCHANGED <<now, warming, nextTick>>

\* warm: connect and put, one after the other; the first failure ends it.
WarmStart(k, n) ==
  /\ warming[k] = 0
  /\ warming' = [warming EXCEPT ![k] = n]
  /\ UNCHANGED <<now, owner, keys, entries, nextTick>>
WarmConnected(k, s) ==
  /\ warming[k] > 0 /\ owner[s] = "new"
  /\ Put(k, s)
  /\ warming' = [warming EXCEPT ![k] = @ - 1]
  /\ UNCHANGED <<now, nextTick>>
WarmFailed(k) ==
  /\ warming[k] > 0
  /\ warming' = [warming EXCEPT ![k] = 0]
  /\ UNCHANGED <<now, owner, keys, entries, nextTick>>

\* cleanup, when the ticker fires: both retains.
Kept(k) == SelectSeq(entries[k], Fresh)
Cleanup ==
  /\ now = nextTick
  /\ entries' = [k \in Targets |-> Kept(k)]
  /\ keys' = {k \in keys : Kept(k) # << >>}
  /\ owner' = Dropped({s \in Streams : \E k \in Targets :
                         s \in StreamsIn(entries[k]) \ StreamsIn(Kept(k))}, owner)
  /\ nextTick' = now + Interval
  /\ UNCHANGED <<now, warming>>

\* Callers: a fresh connection of their own, and a stream they are done with.
UserConnects(s) ==
  /\ owner[s] = "new" /\ owner' = [owner EXCEPT ![s] = "user"]
  /\ UNCHANGED <<now, keys, entries, warming, nextTick>>
UserCloses(s) ==
  /\ owner[s] = "user" /\ owner' = [owner EXCEPT ![s] = "closed"]
  /\ UNCHANGED <<now, keys, entries, warming, nextTick>>

\* Time passes; the ticker is not late.
Tick ==
  /\ now < MaxTime /\ now < nextTick
  /\ now' = now + 1
  /\ UNCHANGED <<owner, keys, entries, warming, nextTick>>

Next ==
  \/ \E k \in Targets :
       \/ GetHit(k) \/ GetMiss(k)
       \/ WarmFailed(k) \/ \E n \in 1 .. Cardinality(Streams) : WarmStart(k, n)
       \/ \E s \in Streams : PutByUser(k, s) \/ WarmConnected(k, s)
  \/ \E s \in Streams : UserConnects(s) \/ UserCloses(s)
  \/ Cleanup
  \/ Tick

Spec == Init /\ [][Next]_vars

-----------------------------------------------------------------------------
\* Pooled streams, with where they are.
Places == {<<k, i>> \in Targets \X (1 .. Cardinality(Streams)) : i \in DOMAIN entries[k]}

\* A stream is never lent twice: a pooled stream is in one place of one deque and no
\* caller has it; put, get, warm and cleanup hand it over whole.
OneOwner ==
  /\ \A p, q \in Places :
       entries[p[1]][p[2]].stream = entries[q[1]][q[2]].stream => p = q
  /\ \A s \in Streams :
       owner[s] = "pool" <=> \E k \in Targets : s \in StreamsIn(entries[k])

\* The cleanup task bounds how long a dead stream holds its socket: less than the
\* idle time plus one period of the ticker.
StaleBounded ==
  \A k \in Targets : \A i \in DOMAIN entries[k] : now - entries[k][i].since < MaxIdle + Interval

\* The map never grows with dead keys or past its bound: no deque is empty (a pool
\* of no connections aside, where put leaves one) and none is over max_per_key.
MapTidy ==
  \A k \in Targets :
    /\ Len(entries[k]) <= MaxPerKey
    /\ MaxPerKey > 0 => (k \in keys <=> entries[k] # << >>)

\* The pool behaves as IdlePool says.
Abstract ==
  INSTANCE IdlePool WITH clock <- now,
    idle <- {[target |-> p[1], stream |-> entries[p[1]][p[2]].stream,
              since |-> entries[p[1]][p[2]].since] : p \in Places}
ImplementsIdlePool == Abstract!Spec
=============================================================================
