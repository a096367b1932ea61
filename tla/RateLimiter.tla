----------------------------- MODULE RateLimiter -----------------------------
(***************************************************************************)
(* The token bucket (src/src/rate_limit.rs) that every bridge half and     *)
(* every UDP receive task of the server shares.                            *)
(*                                                                         *)
(* A byte is a token.  Time is in ticks, Rate tokens each; new() makes     *)
(* capacity and refill_rate the same number, one second's worth, so the    *)
(* bucket holds TicksPerSecond * Rate.  The f64 arithmetic is exact here.  *)
(* With max_bandwidth_mbps = 0 there is no bucket and consume() returns at *)
(* once.                                                                   *)
(***************************************************************************)
EXTENDS Integers, FiniteSetsExt

CONSTANTS
  Rate,             \* Bucket::refill_rate, per tick
  TicksPerSecond,
  Consumers,        \* the tasks that call consume()
  MaxBytes,         \* the longest message one call is for
  MaxTime           \* bound: ticks in one behaviour

ASSUME RateLimiterAssumption ==
  /\ Rate \in Nat \ {0} /\ TicksPerSecond \in Nat \ {0}
  /\ MaxBytes \in Nat /\ MaxTime \in Nat

Capacity == TicksPerSecond * Rate

VARIABLES
  now,
  tokens, lastRefill,   \* Bucket::tokens, Bucket::last_refill
  wakeAt,               \* per consumer: the end of its sleep, Awake when not sleeping
  owed,                 \* per consumer: the deficit it is sleeping off
  drawn,                \* history: tokens taken out of the bucket so far
  slept                 \* history, per consumer: deficits slept off so far

vars == <<now, tokens, lastRefill, wakeAt, owed, drawn, slept>>

Awake == -1

Init ==
  /\ now = 0
  /\ tokens = Capacity /\ lastRefill = 0
  /\ wakeAt = [c \in Consumers |-> Awake]
  /\ owed = [c \in Consumers |-> 0]
  /\ drawn = 0 /\ slept = [c \in Consumers |-> 0]

\* The bucket as consume() finds it: credited for the time since last_refill.
Refilled_Unclamped == tokens + (now - lastRefill) * Rate
Refilled_FromStart ==
  IF tokens + now * Rate <= Capacity THEN tokens + now * Rate ELSE Capacity
Refilled ==
  IF tokens + (now - lastRefill) * Rate <= Capacity
  THEN tokens + (now - lastRefill) * Rate ELSE Capacity

\* The sleep for a deficit; the timer may fire late, never early.
Wait_RoundedDown(deficit) == deficit \div Rate
Wait(deficit) == (deficit + Rate - 1) \div Rate

\* consume(n) with enough tokens.
ConsumeNow(c, n) ==
  /\ wakeAt[c] = Awake /\ Refilled >= n
  /\ tokens' = Refilled - n /\ lastRefill' = now
  /\ drawn' = drawn + n
  /\ UNCHANGED <<now, wakeAt, owed, slept>>

\* consume(n) without: the bucket is emptied, the lock dropped, the rest slept off.
\* The sleep itself is not charged to the bucket.
ConsumeLater(c, n) ==
  /\ wakeAt[c] = Awake /\ Refilled < n
  /\ tokens' = 0 /\ lastRefill' = now
  /\ drawn' = drawn + Refilled
  /\ wakeAt' = [wakeAt EXCEPT ![c] = now + Wait(n - Refilled)]
  /\ owed' = [owed EXCEPT ![c] = n - Refilled]
  /\ UNCHANGED <<now, slept>>

\* The sleep is over and consume() returns.
Wake(c) ==
  /\ wakeAt[c] # Awake /\ now >= wakeAt[c]
  /\ wakeAt' = [wakeAt EXCEPT ![c] = Awake]
  /\ slept' = [slept EXCEPT ![c] = @ + owed[c]]
  /\ owed' = [owed EXCEPT ![c] = 0]
  /\ UNCHANGED <<now, tokens, lastRefill, drawn>>

Tick ==
  /\ now < MaxTime /\ now' = now + 1
  /\ UNCHANGED <<tokens, lastRefill, wakeAt, owed, drawn, slept>>

Next ==
  \/ \E c \in Consumers :
       \/ \E n \in 0 .. MaxBytes : ConsumeNow(c, n) \/ ConsumeLater(c, n)
       \/ Wake(c)
  \/ Tick

Spec == Init /\ [][Next]_vars

-----------------------------------------------------------------------------
\* The types of the limiter's state: a refill never lifts the bucket over its capacity
\* (`.min(b.capacity)`), and the bucket never goes into debt.
TypeOK ==
  /\ now \in Nat /\ lastRefill \in 0 .. now
  /\ tokens \in 0 .. Capacity
  /\ wakeAt \in [Consumers -> Nat \cup {Awake}]
  /\ owed \in [Consumers -> Nat] /\ slept \in [Consumers -> Nat]
  /\ drawn \in Nat

\* The bucket never gives out more than it started with plus what time put in.
BucketBound == drawn + tokens <= Capacity + Rate * lastRefill

\* Nobody sleeps off bytes faster than the rate, calls overlapping or not.
SleepBound ==
  \A c \in Consumers :
    slept[c] + owed[c] <= Rate * (IF wakeAt[c] = Awake THEN now ELSE wakeAt[c])

\* Bytes whose consume() has returned.
Released == drawn + MapThenSumSet(LAMBDA c : slept[c], Consumers)

\* What the limiter enforces: a burst of Capacity, then at most (k + 1) times the
\* rate when k tasks share it.  A sleeper pays with its own time, and the bucket is
\* credited for that same time (`b.last_refill = now` before the sleep).
SharedBound ==
  Released <= Capacity + (Cardinality(Consumers) + 1) * Rate * now

\* README.md, Policy: "`max_bandwidth_mbps` enforced via token-bucket rate limiter".
\* A token bucket lets through its capacity and then its rate.
RateEnforced == Released <= Capacity + Rate * now
=============================================================================
