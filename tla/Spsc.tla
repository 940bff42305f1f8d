-------------------------------- MODULE Spsc --------------------------------
(***************************************************************************)
(* lx::SpscQueue: one producer thread in push, one consumer thread in pop, *)
(* two free-running atomic counters and a ring of plain slots.             *)
(*                                                                         *)
(* A load of the other thread's counter may return an older value than the *)
(* latest one stored.  tail_seen is what the producer's next acquire load  *)
(* of tail_ returns and head_seen what the consumer's of head_ returns;    *)
(* each only moves forward, and only through values that were stored.  The *)
(* stores are releases, so what a thread did to a slot before its store is *)
(* visible to the thread that has seen the store; a slot access that is    *)
(* not ordered in this way would be a data race, which NoSlotRace excludes.*)
(***************************************************************************)
EXTENDS Integers, Sequences

CONSTANTS N,       \* capacity, a power of two
          SIZE_MOD, \* stands for 2^64: the width of the counters
          Values

ASSUME RingAssumption ==
  /\ N \in Nat \ {0} /\ SIZE_MOD \in Nat
  /\ SIZE_MOD > N + 1 /\ SIZE_MOD % N = 0
  /\ Values # {}

VARIABLES head_, tail_,          \* the counters, as last stored
          head_seen, tail_seen,  \* the counters, as the other thread sees them
          slots_,
          push_pc, val_in,       \* producer: where it is in push, and its argument
          pop_pc, val_read, val_out  \* consumer: where it is in pop, the slot it
                                     \* read, and the value it last returned

producerVars == <<head_, push_pc, val_in>>
consumerVars == <<tail_, pop_pc, val_read, val_out>>
vars == <<head_, tail_, head_seen, tail_seen, slots_, push_pc, val_in, pop_pc,
          val_read, val_out>>

\* size_t arithmetic
Inc(c) == (c + 1) % SIZE_MOD
Minus(a, b) == (a - b) % SIZE_MOD

SlotOf(c) == c % N

AnyValue == CHOOSE v \in Values : TRUE

Init ==
  /\ head_ = 0 /\ tail_ = 0 /\ head_seen = 0 /\ tail_seen = 0
  /\ slots_ = [i \in 0 .. N - 1 |-> AnyValue]
  /\ push_pc = "idle" /\ val_in = AnyValue
  /\ pop_pc = "idle" /\ val_read = AnyValue /\ val_out = AnyValue

-----------------------------------------------------------------------------
(* The producer                                                             *)

\* Mutant: the capacity test is off by one.
FullByOne == Minus(Inc(head_), tail_seen) > N + 1

Full == Minus(Inc(head_), tail_seen) > N

\* push returns false and leaves everything as it was; the caller still has its
\* value and may call again.
push_full ==
  /\ push_pc = "idle"
  /\ Full
  /\ UNCHANGED vars

\* push passes the capacity test.
push_test(v) ==
  /\ push_pc = "idle"
  /\ ~Full
  /\ val_in' = v
  /\ push_pc' = "write"
  /\ UNCHANGED <<head_, consumerVars, head_seen, tail_seen, slots_>>

\* Mutant: the slot of next is written.
push_write_next ==
  /\ push_pc = "write"
  /\ slots_' = [slots_ EXCEPT ![SlotOf(Inc(head_))] = val_in]
  /\ push_pc' = "store"
  /\ UNCHANGED <<head_, val_in, consumerVars, head_seen, tail_seen>>

\* slots_[head & kMask] = val
push_write ==
  /\ push_pc = "write"
  /\ slots_' = [slots_ EXCEPT ![SlotOf(head_)] = val_in]
  /\ push_pc' = "store"
  /\ UNCHANGED <<head_, val_in, consumerVars, head_seen, tail_seen>>

\* head_.store(next, release)
push_store ==
  /\ push_pc = "store"
  /\ head_' = Inc(head_)
  /\ push_pc' = "idle"
  /\ UNCHANGED <<val_in, consumerVars, head_seen, tail_seen, slots_>>

-----------------------------------------------------------------------------
(* The consumer                                                             *)

\* Mutant: the last value is left in the ring.
EmptyByOne == Minus(head_seen, tail_) <= 1

Empty == head_seen = tail_

pop_empty ==
  /\ pop_pc = "idle"
  /\ Empty
  /\ UNCHANGED vars

pop_test ==
  /\ pop_pc = "idle"
  /\ ~Empty
  /\ pop_pc' = "read"
  /\ UNCHANGED <<producerVars, tail_, val_read, val_out, head_seen, tail_seen, slots_>>

\* val = slots_[tail & kMask]
pop_read ==
  /\ pop_pc = "read"
  /\ val_read' = slots_[SlotOf(tail_)]
  /\ pop_pc' = "store"
  /\ UNCHANGED <<producerVars, tail_, val_out, head_seen, tail_seen, slots_>>

\* Mutant: the value is returned and its slot never given back.
pop_store_lost ==
  /\ pop_pc = "store"
  /\ val_out' = val_read
  /\ pop_pc' = "idle"
  /\ UNCHANGED <<producerVars, tail_, val_read, head_seen, tail_seen, slots_>>

\* tail_.store(tail + 1, release); pop returns the value read.
pop_store ==
  /\ pop_pc = "store"
  /\ tail_' = Inc(tail_)
  /\ val_out' = val_read
  /\ pop_pc' = "idle"
  /\ UNCHANGED <<producerVars, val_read, head_seen, tail_seen, slots_>>

-----------------------------------------------------------------------------
(* The memory system: stores become visible, each no later than the next    *)

see_head ==
  /\ head_seen # head_
  /\ head_seen' = Inc(head_seen)
  /\ UNCHANGED <<producerVars, consumerVars, tail_seen, slots_>>

see_tail ==
  /\ tail_seen # tail_
  /\ tail_seen' = Inc(tail_seen)
  /\ UNCHANGED <<producerVars, consumerVars, head_seen, slots_>>

push == push_full \/ (\E v \in Values : push_test(v)) \/ push_write \/ push_store
pop == pop_empty \/ pop_test \/ pop_read \/ pop_store

Next == push \/ pop \/ see_head \/ see_tail

\* Both threads are busy-polling loops, and an atomic store becomes visible in
\* finite time ([atomics.order]).  The producer owes no new push, only the end
\* of the one it is in.
Fairness ==
  /\ WF_vars(push_write \/ push_store)
  /\ WF_vars(pop)
  /\ WF_vars(see_head)
  /\ WF_vars(see_tail)

Spec == Init /\ [][Next]_vars /\ Fairness

-----------------------------------------------------------------------------
\* Type invariant of the counters, the ring and the two threads.
TypeOK ==
  /\ {head_, tail_, head_seen, tail_seen} \subseteq 0 .. SIZE_MOD - 1
  /\ slots_ \in [0 .. N - 1 -> Values]
  /\ push_pc \in {"idle", "write", "store"}
  /\ pop_pc \in {"idle", "read", "store"}
  /\ {val_in, val_read, val_out} \subseteq Values

\* The producer and the consumer are never at work on the same plain slot,
\* across the wrap of the ring and of the counters and however late each sees
\* the other's counter: the accesses outside the atomics do not race.
NoSlotRace ==
  ~(push_pc = "write" /\ pop_pc = "read" /\ SlotOf(head_) = SlotOf(tail_))

\* Each thread's picture is a safe one: the producer never believes there is
\* more room, nor the consumer more to read, than there is, and the counters
\* never part by more than the capacity.
CountersInStep ==
  /\ Minus(head_, tail_) <= N
  /\ Minus(head_, tail_seen) = Minus(head_, tail_) + Minus(tail_, tail_seen)
  /\ Minus(head_, tail_seen) <= N
  /\ Minus(head_, tail_) = Minus(head_, head_seen) + Minus(head_seen, tail_)

\* What a call in progress relies on: the test it has passed still holds, and
\* the slot it is about to publish or to give back holds its value.
CallsHold ==
  /\ push_pc # "idle" => Minus(head_, tail_seen) < N
  /\ push_pc = "store" => slots_[SlotOf(head_)] = val_in
  /\ pop_pc # "idle" => head_seen # tail_
  /\ pop_pc = "store" => slots_[SlotOf(tail_)] = val_read

\* The inductive invariant behind NoSlotRace and IsBoundedFifo: once a push or a
\* pop has passed its test, no step of the other thread invalidates it.
IInv == TypeOK /\ CountersInStep /\ CallsHold

\* The values between the counters, oldest first.
Contents ==
  [k \in 1 .. Minus(head_, tail_) |-> slots_[SlotOf(tail_ + k - 1)]]

Fifo == INSTANCE BoundedFifo WITH
          Capacity <- N, offered <- val_in, queue <- Contents, taken <- val_out

\* The ring implements a bounded FIFO: nothing lost, duplicated, reordered or
\* torn, and a push that reports success has room.
IsBoundedFifo == Fifo!Spec

\* With a polling consumer, what is in the queue is popped.
EveryValuePopped == \A t \in 0 .. SIZE_MOD - 1 : (tail_ = t /\ head_ # t) ~> tail_ # t

\* With a polling consumer, a producer that finds the ring full does not spin
\* forever: Shard::push_out returns.
FullClears == Full ~> ~Full
=============================================================================
