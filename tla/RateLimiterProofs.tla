-------------------------- MODULE RateLimiterProofs --------------------------
(***************************************************************************)
(* Proofs about RateLimiter, for every rate, bucket, message length and    *)
(* set of consumers.                                                       *)
(***************************************************************************)
EXTENDS RateLimiter, TLAPS

\* A refill lands in the bucket and is no more than the time that passed is worth.
LEMMA RefillFits ==
  ASSUME TypeOK
  PROVE  /\ Capacity \in Nat /\ Rate * now \in Nat /\ Rate * lastRefill \in Nat
         /\ Refilled \in 0 .. Capacity
         /\ Refilled - tokens <= Rate * now - Rate * lastRefill
<1>1. Capacity \in Nat
  BY RateLimiterAssumption DEF Capacity
<1>2. Rate \in Nat /\ now \in Nat /\ lastRefill \in Nat /\ now - lastRefill \in Nat
  BY RateLimiterAssumption DEF TypeOK
<1>3. (now - lastRefill) * Rate = Rate * now - Rate * lastRefill
  BY <1>2
<1>4. (now - lastRefill) * Rate \in Nat /\ Rate * now \in Nat /\ Rate * lastRefill \in Nat
  BY <1>2
<1>. QED  BY <1>1, <1>3, <1>4 DEF TypeOK, Refilled

\* The sleep for a deficit is long enough to earn it at the rate.
LEMMA WaitPays ==
  ASSUME NEW d \in Nat
  PROVE  Wait(d) \in Nat /\ d <= Rate * Wait(d)
<1>. DEFINE x == d + Rate - 1
            q == x \div Rate
            r == x % Rate
<1>1. Rate \in Nat \ {0} /\ x \in Nat
  BY RateLimiterAssumption
<1>2. x = Rate * q + r /\ r \in 0 .. Rate - 1 /\ q \in Nat
  BY <1>1
<1>3. Wait(d) = q
  BY DEF Wait
<1>. HIDE DEF q, r
<1>4. Rate * q \in Nat
  BY <1>1, <1>2
<1>. QED  BY <1>1, <1>2, <1>3, <1>4

\* The three invariants together are inductive.
IndInv == TypeOK /\ BucketBound /\ SleepBound

\* Every call, wake-up and tick keeps IndInv.
LEMMA IndInvStep == IndInv /\ [Next]_vars => IndInv'
<1>. SUFFICES ASSUME IndInv, [Next]_vars PROVE IndInv'
  OBVIOUS
<1>. USE DEF IndInv, BucketBound, SleepBound
<1>0. /\ Capacity \in Nat /\ Rate * now \in Nat /\ Rate * lastRefill \in Nat
      /\ Refilled \in 0 .. Capacity
      /\ Refilled - tokens <= Rate * now - Rate * lastRefill
  BY RefillFits
<1>1. ASSUME NEW c \in Consumers, NEW n \in 0 .. MaxBytes, ConsumeNow(c, n) PROVE IndInv'
  <2>1. n \in Nat /\ Refilled - n \in 0 .. Capacity
    BY <1>0, <1>1, RateLimiterAssumption DEF ConsumeNow
  <2>2. TypeOK'
    BY <1>1, <2>1 DEF ConsumeNow, TypeOK, Capacity
  <2>3. BucketBound'
    BY <1>0, <1>1, <2>1 DEF ConsumeNow, TypeOK, Capacity
  <2>4. SleepBound'
    BY <1>1 DEF ConsumeNow
  <2>. QED  BY <2>2, <2>3, <2>4
<1>2. ASSUME NEW c \in Consumers, NEW n \in 0 .. MaxBytes, ConsumeLater(c, n) PROVE IndInv'
  <2>. DEFINE d == n - Refilled
              w == Wait(d)
  <2>1. d \in Nat
    BY <1>0, <1>2, RateLimiterAssumption DEF ConsumeLater
  <2>2. w \in Nat /\ d <= Rate * w
    BY <2>1, WaitPays
  <2>3. /\ wakeAt' = [wakeAt EXCEPT ![c] = now + w] /\ owed' = [owed EXCEPT ![c] = d]
        /\ tokens' = 0 /\ lastRefill' = now /\ drawn' = drawn + Refilled
        /\ UNCHANGED <<now, slept>> /\ wakeAt[c] = Awake
    BY <1>2 DEF ConsumeLater
  <2>. HIDE DEF d, w
  <2>4. now + w \in Nat /\ now + w # Awake /\ Rate * (now + w) = Rate * now + Rate * w
    BY <2>2, RateLimiterAssumption DEF TypeOK, Awake
  <2>5. TypeOK'
    BY <1>0, <2>1, <2>3, <2>4 DEF TypeOK, Capacity
  <2>6. BucketBound'
    BY <1>0, <2>3 DEF TypeOK, Capacity
  <2>7. SleepBound'
    <3>1. slept[c] + owed[c] <= Rate * now /\ slept[c] \in Nat /\ owed[c] \in Nat
      BY <2>3 DEF TypeOK
    <3>2. Rate * w \in Nat /\ Rate * now \in Nat
      BY <2>2, RateLimiterAssumption DEF TypeOK
    <3>3. slept[c] + d <= Rate * (now + w)
      BY <2>1, <2>2, <2>4, <3>1, <3>2
    <3>. QED  BY <2>3, <2>4, <3>3 DEF TypeOK
  <2>. QED  BY <2>5, <2>6, <2>7
<1>3. ASSUME NEW c \in Consumers, Wake(c) PROVE IndInv'
  <2>1. TypeOK'
    BY <1>3 DEF Wake, TypeOK
  <2>2. BucketBound'
    BY <1>3 DEF Wake, Capacity
  <2>3. SleepBound'
    <3>1. wakeAt[c] \in Nat /\ wakeAt[c] # Awake /\ wakeAt[c] <= now /\ now \in Nat
      BY <1>3 DEF Wake, TypeOK
    <3>2. slept[c] + owed[c] <= Rate * wakeAt[c] /\ slept[c] \in Nat /\ owed[c] \in Nat
      BY <3>1 DEF TypeOK
    <3>3. Rate * wakeAt[c] <= Rate * now /\ Rate * wakeAt[c] \in Nat /\ Rate * now \in Nat
      BY <3>1, RateLimiterAssumption
    <3>4. slept[c] + owed[c] <= Rate * now
      BY <3>2, <3>3
    <3>. QED  BY <1>3, <3>2, <3>4 DEF Wake, TypeOK
  <2>. QED  BY <2>1, <2>2, <2>3
<1>4. CASE Tick
  <2>1. TypeOK'
    BY <1>4 DEF Tick, TypeOK
  <2>2. BucketBound'
    BY <1>4 DEF Tick, Capacity
  <2>3. SleepBound'
    <3>1. Rate * (now + 1) = Rate * now + Rate /\ Rate * now \in Nat /\ Rate \in Nat
      BY RateLimiterAssumption DEF TypeOK
    <3>. QED  BY <1>4, <3>1 DEF Tick, TypeOK
  <2>. QED  BY <2>1, <2>2, <2>3
<1>5. CASE UNCHANGED vars
  BY <1>5 DEF vars, TypeOK, Capacity
<1>. QED  BY <1>1, <1>2, <1>3, <1>4, <1>5 DEF Next

\* So it holds in every reachable state.
LEMMA IndInvHolds == Spec => []IndInv
<1>1. Init => IndInv
  BY RateLimiterAssumption
  DEF Init, IndInv, TypeOK, BucketBound, SleepBound, Capacity, Awake
<1>. QED  BY <1>1, IndInvStep, PTL DEF Spec

\* Every reachable state is well typed: the bucket is never over its capacity nor in debt.
THEOREM TypeCorrect == Spec => []TypeOK
<1>1. IndInv => TypeOK
  BY DEF IndInv
<1>. QED  BY <1>1, IndInvHolds, PTL

\* The bucket never gives out more than its capacity and what the time since the
\* start is worth, however many tasks draw from it and however they interleave.
THEOREM BucketNeverOverdrawn == Spec => []BucketBound
<1>1. IndInv => BucketBound
  BY DEF IndInv
<1>. QED  BY <1>1, IndInvHolds, PTL

\* Each task sleeps off its deficits no faster than the rate.
THEOREM SleepersPay == Spec => []SleepBound
<1>1. IndInv => SleepBound
  BY DEF IndInv
<1>. QED  BY <1>1, IndInvHolds, PTL
=============================================================================
