------------------------------ MODULE IdlePool ------------------------------
(***************************************************************************)
(* What a pool of idle connections promises.  A stream has one owner at a  *)
(* time.  A taker gets the stream of its own target that has been idle     *)
(* longest among those not yet expired, and goes without only when there   *)
(* is none.  A stream that expired is never seen again; it may be dropped  *)
(* at any moment.  One that is not is dropped only when offered to a full  *)
(* pool.                                                                   *)
(***************************************************************************)
EXTENDS Integers, FiniteSets

CONSTANTS Targets, Streams, MaxIdle, MaxPerKey

VARIABLES
  clock,
  owner,    \* stream -> new, user, pool or closed
  idle      \* the pooled streams: [target, stream, since]

vars == <<clock, owner, idle>>

Entries == [target : Targets, stream : Streams, since : Nat]

Live(e) == clock - e.since < MaxIdle
Of(k) == {e \in idle : e.target = k}
StreamsOf(E) == {e.stream : e \in E}

Init == clock = 0 /\ owner = [s \in Streams |-> "new"] /\ idle = {}

\* A user connects a stream.
Open(s) ==
  /\ owner[s] = "new" /\ owner' = [owner EXCEPT ![s] = "user"]
  /\ UNCHANGED <<clock, idle>>

\* A user is done with a stream and closes it.
Close(s) ==
  /\ owner[s] = "user" /\ owner' = [owner EXCEPT ![s] = "closed"]
  /\ UNCHANGED <<clock, idle>>

\* A user, or a connect of the pool's own, offers a stream for target k.
Offer(k, s) ==
  /\ owner[s] \in {"new", "user"}
  /\ IF Cardinality(Of(k)) < MaxPerKey
     THEN /\ idle' = idle \cup {[target |-> k, stream |-> s, since |-> clock]}
          /\ owner' = [owner EXCEPT ![s] = "pool"]
     ELSE /\ idle' = idle
          /\ owner' = [owner EXCEPT ![s] = "closed"]
  /\ UNCHANGED clock

\* Expired streams go, E of them.
Evict(E) ==
  /\ \A e \in E : ~Live(e)
  /\ idle' = idle \ E
  /\ owner' = [s \in Streams |-> IF s \in StreamsOf(E) THEN "closed" ELSE owner[s]]
  /\ UNCHANGED clock

\* The longest idle of the live streams for k is handed over; E go on the way.
Take(k, e, E) ==
  /\ e \in Of(k) /\ Live(e)
  /\ \A f \in Of(k) : Live(f) => e.since <= f.since
  /\ \A f \in E : ~Live(f)
  /\ idle' = idle \ (E \cup {e})
  /\ owner' = [s \in Streams |->
                IF s = e.stream THEN "user" ELSE IF s \in StreamsOf(E) THEN "closed" ELSE owner[s]]
  /\ UNCHANGED clock

\* Nothing live for k.
Miss(k, E) == (\A e \in Of(k) : ~Live(e)) /\ Evict(E)

Tick == clock' = clock + 1 /\ UNCHANGED <<owner, idle>>

Next ==
  \/ \E s \in Streams : Open(s) \/ Close(s) \/ \E k \in Targets : Offer(k, s)
  \/ \E E \in SUBSET idle :
       \/ Evict(E)
       \/ \E k \in Targets : Miss(k, E) \/ \E e \in idle : Take(k, e, E)
  \/ Tick

Spec == Init /\ [][Next]_vars
=============================================================================
