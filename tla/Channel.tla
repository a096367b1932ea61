------------------------------ MODULE Channel ------------------------------
(***************************************************************************)
(* What a transport promises of one direction: messages arrive whole, once *)
(* and in order; when it breaks, the last of those under way are lost.     *)
(***************************************************************************)
EXTENDS Integers, Sequences

CONSTANT Messages

VARIABLES
  queue,   \* sent and still to arrive
  got,     \* arrived
  open

vars == <<queue, got, open>>

Init == queue = << >> /\ got = << >> /\ open = TRUE

Send ==
  /\ open
  /\ \E m \in Messages : queue' = Append(queue, m)
  /\ UNCHANGED <<got, open>>

\* One or more messages arrive.
Arrive ==
  \E n \in 1 .. Len(queue) :
    /\ got' = got \o SubSeq(queue, 1, n)
    /\ queue' = SubSeq(queue, n + 1, Len(queue))
    /\ UNCHANGED open

Break ==
  /\ open' = FALSE
  /\ \E n \in 0 .. Len(queue) : queue' = SubSeq(queue, 1, n)
  /\ UNCHANGED got

Next == Send \/ Arrive \/ Break
Spec == Init /\ [][Next]_vars
=============================================================================
