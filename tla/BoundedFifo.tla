---------------------------- MODULE BoundedFifo ----------------------------
(***************************************************************************)
(* What an lx::SpscQueue promises the threads at its two ends: a FIFO of   *)
(* at most Capacity values.  The producer offers a value and later it is   *)
(* in the queue; the consumer takes the oldest one.                        *)
(***************************************************************************)
EXTENDS Naturals, Sequences

CONSTANTS Values, Capacity

VARIABLES offered,  \* the value the producer's push was last called with
          queue,
          taken     \* the value the consumer's last successful pop returned

vars == <<offered, queue, taken>>

Init == offered \in Values /\ queue = <<>> /\ taken = offered

Offer(v) == offered' = v /\ UNCHANGED <<queue, taken>>

Put ==
  /\ Len(queue) < Capacity
  /\ queue' = Append(queue, offered)
  /\ UNCHANGED <<offered, taken>>

Take ==
  /\ queue # <<>>
  /\ taken' = Head(queue)
  /\ queue' = Tail(queue)
  /\ UNCHANGED offered

Next == (\E v \in Values : Offer(v)) \/ Put \/ Take

Spec == Init /\ [][Next]_vars
=============================================================================
