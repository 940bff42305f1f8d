----------------------------- MODULE SpscProofs -----------------------------
(***************************************************************************)
(* Proofs about Spsc, for every capacity N and every counter width that is *)
(* a multiple of it.                                                       *)
(***************************************************************************)
EXTENDS Spsc, TLAPS

Counter == 0 .. SIZE_MOD - 1

-----------------------------------------------------------------------------
(* Arithmetic of the counters and of kMask                                  *)

\* The remainder is the only one of its size.
LEMMA ModUnique ==
  ASSUME NEW m \in Nat \ {0}, NEW q \in Int, NEW r \in 0 .. m - 1
  PROVE  (q * m + r) % m = r
OBVIOUS

\* Division with remainder.
LEMMA DivMod ==
  ASSUME NEW x \in Int, NEW m \in Nat \ {0}
  PROVE  \E q \in Int, r \in 0 .. m - 1 : x = q * m + r /\ x % m = r
<1>1. x % m \in 0 .. m - 1 /\ x \div m \in Int /\ x = (x \div m) * m + (x % m)
  OBVIOUS
<1> QED BY <1>1

\* Inc, the size_t increment, case by case.
LEMMA IncCases ==
  ASSUME NEW c \in Counter
  PROVE  Inc(c) \in Counter /\ Inc(c) = IF c = SIZE_MOD - 1 THEN 0 ELSE c + 1
<1>1. CASE c = SIZE_MOD - 1
  <2>1. (1 * SIZE_MOD + 0) % SIZE_MOD = 0
    BY ModUnique, RingAssumption
  <2>2. c + 1 = 1 * SIZE_MOD + 0
    BY <1>1, RingAssumption
  <2> QED BY <1>1, <2>1, <2>2, RingAssumption DEF Inc, Counter
<1>2. CASE c # SIZE_MOD - 1
  <2>1. c + 1 \in 0 .. SIZE_MOD - 1 /\ 0 * SIZE_MOD + (c + 1) = c + 1
    BY <1>2, RingAssumption DEF Counter
  <2>2. (0 * SIZE_MOD + (c + 1)) % SIZE_MOD = c + 1
    BY <2>1, ModUnique, RingAssumption
  <2> QED BY <1>2, <2>1, <2>2 DEF Inc, Counter
<1> QED BY <1>1, <1>2

\* Minus, the size_t difference, case by case.
LEMMA MinusCases ==
  ASSUME NEW a \in Counter, NEW b \in Counter
  PROVE  Minus(a, b) \in Counter
         /\ Minus(a, b) = IF a >= b THEN a - b ELSE a - b + SIZE_MOD
<1>1. CASE a >= b
  <2>1. a - b \in 0 .. SIZE_MOD - 1 /\ 0 * SIZE_MOD + (a - b) = a - b
    BY <1>1, RingAssumption DEF Counter
  <2>2. (0 * SIZE_MOD + (a - b)) % SIZE_MOD = a - b
    BY <2>1, ModUnique, RingAssumption
  <2> QED BY <1>1, <2>1, <2>2 DEF Minus, Counter
<1>2. CASE a < b
  <2>1. /\ a - b + SIZE_MOD \in 0 .. SIZE_MOD - 1
        /\ (-1) * SIZE_MOD + (a - b + SIZE_MOD) = a - b
    BY <1>2, RingAssumption DEF Counter
  <2>2. ((-1) * SIZE_MOD + (a - b + SIZE_MOD)) % SIZE_MOD = a - b + SIZE_MOD
    BY <2>1, ModUnique, RingAssumption
  <2> QED BY <1>2, <2>1, <2>2 DEF Minus, Counter
<1> QED BY <1>1, <1>2 DEF Counter

\* Equal counters, and only they, are 0 apart.
LEMMA MinusZero ==
  ASSUME NEW a \in Counter, NEW b \in Counter
  PROVE  Minus(a, b) = 0 <=> a = b
<1>1. Minus(a, b) = IF a >= b THEN a - b ELSE a - b + SIZE_MOD
  BY MinusCases, Zenon
<1> QED BY <1>1, RingAssumption DEF Counter

\* The counter ahead advances.
LEMMA MinusIncAhead ==
  ASSUME NEW a \in Counter, NEW b \in Counter, Minus(a, b) < SIZE_MOD - 1
  PROVE  Minus(Inc(a), b) = Minus(a, b) + 1
<1>1. Inc(a) \in Counter /\ Inc(a) = IF a = SIZE_MOD - 1 THEN 0 ELSE a + 1
  BY IncCases, Zenon
<1>2. Minus(a, b) = IF a >= b THEN a - b ELSE a - b + SIZE_MOD
  BY MinusCases, Zenon
<1>3. Minus(Inc(a), b) = IF Inc(a) >= b THEN Inc(a) - b ELSE Inc(a) - b + SIZE_MOD
  BY <1>1, MinusCases, Zenon
<1> QED BY <1>1, <1>2, <1>3, RingAssumption DEF Counter

\* The counter behind catches up.
LEMMA MinusIncBehind ==
  ASSUME NEW a \in Counter, NEW b \in Counter, a # b
  PROVE  Minus(a, Inc(b)) = Minus(a, b) - 1
<1>1. Inc(b) \in Counter /\ Inc(b) = IF b = SIZE_MOD - 1 THEN 0 ELSE b + 1
  BY IncCases, Zenon
<1>2. Minus(a, b) = IF a >= b THEN a - b ELSE a - b + SIZE_MOD
  BY MinusCases, Zenon
<1>3. Minus(a, Inc(b)) = IF a >= Inc(b) THEN a - Inc(b) ELSE a - Inc(b) + SIZE_MOD
  BY <1>1, MinusCases, Zenon
<1> QED BY <1>1, <1>2, <1>3, RingAssumption DEF Counter

\* A slot index is one of the ring.
LEMMA SlotType ==
  ASSUME NEW x \in Nat
  PROVE  SlotOf(x) \in 0 .. N - 1
BY RingAssumption DEF SlotOf

\* The counters wrap at a multiple of the capacity.
LEMMA SlotWraps ==
  ASSUME NEW x \in Nat
  PROVE  SlotOf(x + SIZE_MOD) = SlotOf(x)
<1>1. PICK k \in Int : SIZE_MOD = k * N
  <2>1. PICK q \in Int, r \in 0 .. N - 1 : SIZE_MOD = q * N + r /\ SIZE_MOD % N = r
    BY DivMod, RingAssumption
  <2> QED BY <2>1, RingAssumption
<1>0. x \in Int /\ N \in Nat \ {0}
  BY RingAssumption
<1>2. PICK q \in Int, r \in 0 .. N - 1 : x = q * N + r /\ x % N = r
  BY <1>0, DivMod, Zenon
<1>3. x + SIZE_MOD = (q + k) * N + r
  BY <1>1, <1>2, RingAssumption
<1>4. ((q + k) * N + r) % N = r
  BY ModUnique, RingAssumption
<1> QED BY <1>2, <1>3, <1>4 DEF SlotOf

\* Counts less than a capacity apart have different slots.
LEMMA SlotsDiffer ==
  ASSUME NEW x \in Nat, NEW d \in 1 .. N - 1
  PROVE  SlotOf(x + d) # SlotOf(x)
<1>0. x \in Int /\ N \in Nat \ {0}
  BY RingAssumption
<1>1. PICK q \in Int, r \in 0 .. N - 1 : x = q * N + r /\ x % N = r
  BY <1>0, DivMod, Zenon
<1>2. CASE r + d < N
  <2>1. x + d = q * N + (r + d) /\ r + d \in 0 .. N - 1
    BY <1>1, <1>2, RingAssumption
  <2>2. (q * N + (r + d)) % N = r + d
    BY <1>0, <2>1, ModUnique, Zenon
  <2>3. r + d # r
    BY RingAssumption
  <2> QED BY <1>1, <2>1, <2>2, <2>3, Zenon DEF SlotOf
<1>3. CASE r + d >= N
  <2>1. x + d = (q + 1) * N + (r + d - N) /\ r + d - N \in 0 .. N - 1
    BY <1>1, <1>3, RingAssumption
  <2>2. ((q + 1) * N + (r + d - N)) % N = r + d - N
    <3>1. q + 1 \in Int
      OBVIOUS
    <3> QED BY <1>0, <2>1, <3>1, ModUnique, Zenon
  <2>3. r + d - N # r
    BY RingAssumption
  <2> QED BY <1>1, <2>1, <2>2, <2>3, Zenon DEF SlotOf
<1> QED BY <1>2, <1>3, RingAssumption

\* The slot of a counter, reached from an older counter.
LEMMA SlotAhead ==
  ASSUME NEW a \in Counter, NEW b \in Counter
  PROVE  SlotOf(b + Minus(a, b)) = SlotOf(a)
<1>1. CASE a >= b
  BY <1>1, MinusCases, RingAssumption DEF Counter
<1>2. CASE a < b
  <2>1. b + Minus(a, b) = a + SIZE_MOD /\ a \in Nat
    BY <1>2, MinusCases, RingAssumption DEF Counter
  <2> QED BY <2>1, SlotWraps
<1> QED BY <1>1, <1>2 DEF Counter

\* Counting on from an incremented counter gives the same slots.
LEMMA SlotAfterInc ==
  ASSUME NEW c \in Counter, NEW k \in Nat
  PROVE  SlotOf(Inc(c) + k) = SlotOf(c + k + 1)
<1>1. CASE c = SIZE_MOD - 1
  <2>1. Inc(c) + k = k /\ c + k + 1 = k + SIZE_MOD
    BY <1>1, IncCases, RingAssumption DEF Counter
  <2> QED BY <2>1, SlotWraps
<1>2. CASE c # SIZE_MOD - 1
  BY <1>2, IncCases, RingAssumption DEF Counter
<1> QED BY <1>1, <1>2
-----------------------------------------------------------------------------
(* The inductive invariant                                                  *)

LEMMA InitIInv == Init => IInv
<1> SUFFICES ASSUME Init PROVE IInv
  OBVIOUS
<1>1. AnyValue \in Values
  BY RingAssumption DEF AnyValue
<1>2. TypeOK
  BY <1>1, RingAssumption DEF Init, TypeOK
<1>3. 0 \in Counter /\ Minus(0, 0) = 0
  BY MinusCases, RingAssumption DEF Counter
<1>4. CountersInStep /\ CallsHold
  BY <1>3, RingAssumption DEF Init, CountersInStep, CallsHold
<1> QED BY <1>2, <1>4 DEF IInv

\* What the counters of a state with the invariant are.
LEMMA CounterTypes ==
  ASSUME TypeOK
  PROVE  /\ head_ \in Counter /\ tail_ \in Counter
         /\ head_seen \in Counter /\ tail_seen \in Counter
BY DEF TypeOK, Counter

\* The slot the producer writes is not the oldest one, while the ring is neither
\* empty nor full.
LEMMA HeadTailSlots ==
  ASSUME head_ \in Counter, tail_ \in Counter, Minus(head_, tail_) \in 1 .. N - 1
  PROVE  SlotOf(head_) # SlotOf(tail_)
<1>1. tail_ \in Nat
  BY DEF Counter
<1> QED BY <1>1, SlotsDiffer, SlotAhead, Zenon

\* Where the counters are: tail_seen, tail_, head_seen, head_ in this order, within
\* one capacity.
Near ==
  /\ head_ \in Counter /\ tail_ \in Counter
  /\ head_seen \in Counter /\ tail_seen \in Counter
  /\ Minus(head_, tail_) \in 0 .. N /\ Minus(head_, tail_seen) \in 0 .. N
  /\ Minus(tail_, tail_seen) \in 0 .. N
  /\ Minus(head_, head_seen) \in 0 .. N /\ Minus(head_seen, tail_) \in 0 .. N
  /\ Minus(head_, tail_seen) = Minus(head_, tail_) + Minus(tail_, tail_seen)
  /\ Minus(head_, tail_) = Minus(head_, head_seen) + Minus(head_seen, tail_)

\* What the steps of a state with the invariant can use.
LEMMA Distances == IInv => Near
<1> SUFFICES ASSUME IInv PROVE Near
  OBVIOUS
<1>1. TypeOK /\ CountersInStep
  BY DEF IInv
<1>2. /\ head_ \in Counter /\ tail_ \in Counter
      /\ head_seen \in Counter /\ tail_seen \in Counter
  BY <1>1, CounterTypes, Zenon
<1>3. /\ Minus(head_, tail_) \in Counter /\ Minus(tail_, tail_seen) \in Counter
      /\ Minus(head_, head_seen) \in Counter /\ Minus(head_seen, tail_) \in Counter
      /\ Minus(head_, tail_seen) \in Counter
  BY <1>2, MinusCases, Zenon
<1> QED BY <1>1, <1>2, <1>3, RingAssumption DEF CountersInStep, Counter, Near

\* The tests that were passed, in terms of the counters.
LEMMA Room ==
  ASSUME IInv
  PROVE  /\ push_pc # "idle" => Minus(head_, tail_) < N
         /\ pop_pc # "idle" => Minus(head_, tail_) >= 1
<1>1. Near /\ CallsHold
  BY Distances DEF IInv
<1>2. push_pc # "idle" => Minus(head_, tail_) < N
  BY <1>1, RingAssumption DEF CallsHold, Near
<1>3. head_seen # tail_ => Minus(head_seen, tail_) >= 1
  BY <1>1, MinusZero, RingAssumption DEF Near
<1>4. pop_pc # "idle" => Minus(head_, tail_) >= 1
  BY <1>1, <1>3, RingAssumption DEF CallsHold, Near
<1> QED BY <1>2, <1>4

\* The steps of push.
LEMMA PushStep ==
  ASSUME IInv, push
  PROVE  IInv'
<1> USE DEF IInv, Near
<1>d. Near
  BY Distances
<1>1. CASE push_full
  BY <1>1 DEF push_full, vars, TypeOK, CountersInStep, CallsHold
<1>2. ASSUME NEW v \in Values, push_test(v) PROVE IInv'
  <2>1. Minus(Inc(head_), tail_seen) = Minus(head_, tail_seen) + 1
    BY <1>d, MinusIncAhead, RingAssumption
  <2>2. Inc(head_) \in Counter /\ Minus(head_, tail_seen) < N
    BY <1>2, <1>d, <2>1, IncCases, RingAssumption DEF push_test, Full
  <2>3. TypeOK'
    BY <1>2 DEF push_test, TypeOK, consumerVars
  <2>4. CountersInStep'
    BY <1>2 DEF push_test, CountersInStep, consumerVars
  <2>5. CallsHold'
    BY <1>2, <2>2 DEF push_test, CallsHold, consumerVars
  <2> QED BY <2>3, <2>4, <2>5
<1>3. CASE push_write
  <2>1. SlotOf(head_) \in 0 .. N - 1 /\ SlotOf(tail_) \in 0 .. N - 1
    BY <1>d, SlotType DEF Counter
  <2>2. TypeOK'
    BY <1>3, <2>1 DEF push_write, TypeOK, consumerVars
  <2>3. CountersInStep'
    BY <1>3 DEF push_write, CountersInStep, consumerVars
  <2>4. pop_pc # "idle" => SlotOf(head_) # SlotOf(tail_)
    BY <1>3, <1>d, Room, HeadTailSlots, RingAssumption DEF push_write
  <2>5. slots_'[SlotOf(head_)] = val_in
        /\ (SlotOf(head_) # SlotOf(tail_) => slots_'[SlotOf(tail_)] = slots_[SlotOf(tail_)])
    BY <1>3, <2>1 DEF push_write, TypeOK
  <2>6. CallsHold'
    BY <1>3, <2>4, <2>5 DEF push_write, CallsHold, consumerVars
  <2> QED BY <2>2, <2>3, <2>6
<1>4. CASE push_store
  <2>1. /\ Minus(Inc(head_), tail_seen) = Minus(head_, tail_seen) + 1
        /\ Minus(Inc(head_), tail_) = Minus(head_, tail_) + 1
        /\ Minus(Inc(head_), head_seen) = Minus(head_, head_seen) + 1
    BY <1>d, MinusIncAhead, RingAssumption
  <2>2. Minus(head_, tail_seen) < N
    BY <1>4 DEF push_store, CallsHold
  <2>3. TypeOK'
    BY <1>4, <1>d, IncCases DEF push_store, TypeOK, consumerVars, Counter
  <2>4. CountersInStep'
    BY <1>4, <1>d, <2>1, <2>2, RingAssumption DEF push_store, CountersInStep, consumerVars
  <2>5. CallsHold'
    BY <1>4 DEF push_store, CallsHold, consumerVars
  <2> QED BY <2>3, <2>4, <2>5
<1> QED BY <1>1, <1>2, <1>3, <1>4 DEF push

\* The steps of pop.
LEMMA PopStep ==
  ASSUME IInv, pop
  PROVE  IInv'
<1> USE DEF IInv, Near
<1>d. Near
  BY Distances
<1>1. CASE pop_empty
  BY <1>1 DEF pop_empty, vars, TypeOK, CountersInStep, CallsHold
<1>2. CASE pop_test
  BY <1>2 DEF pop_test, Empty, TypeOK, CountersInStep, CallsHold, producerVars
<1>3. CASE pop_read
  <2>1. slots_[SlotOf(tail_)] \in Values
    BY <1>d, SlotType DEF Counter, TypeOK
  <2> QED BY <1>3, <2>1 DEF pop_read, TypeOK, CountersInStep, CallsHold, producerVars
<1>4. CASE pop_store
  <2>1. head_seen # tail_ /\ head_ # tail_
    BY <1>4, <1>d, Room, MinusZero, RingAssumption DEF pop_store, CallsHold
  <2>2. /\ Minus(head_, Inc(tail_)) = Minus(head_, tail_) - 1
        /\ Minus(head_seen, Inc(tail_)) = Minus(head_seen, tail_) - 1
        /\ Minus(Inc(tail_), tail_seen) = Minus(tail_, tail_seen) + 1
    BY <1>d, <2>1, MinusIncBehind, MinusIncAhead, RingAssumption
  <2>3. TypeOK'
    BY <1>4, <1>d, IncCases DEF pop_store, TypeOK, producerVars, Counter
  <2>4. CountersInStep'
    <3>1. tail_' = Inc(tail_) /\ UNCHANGED <<head_, head_seen, tail_seen>>
      BY <1>4 DEF pop_store, producerVars
    <3>2. /\ Minus(head_, Inc(tail_)) <= N
          /\ Minus(head_, tail_seen) = Minus(head_, Inc(tail_)) + Minus(Inc(tail_), tail_seen)
          /\ Minus(head_, Inc(tail_)) = Minus(head_, head_seen) + Minus(head_seen, Inc(tail_))
      BY <1>d, <2>2, RingAssumption
    <3> QED BY <1>d, <3>1, <3>2 DEF CountersInStep
  <2>5. CallsHold'
    BY <1>4 DEF pop_store, CallsHold, producerVars
  <2> QED BY <2>3, <2>4, <2>5
<1> QED BY <1>1, <1>2, <1>3, <1>4 DEF pop

\* The steps of the memory system.
LEMMA SeeStep ==
  ASSUME IInv, see_head \/ see_tail
  PROVE  IInv'
<1> USE DEF IInv, Near
<1>d. Near
  BY Distances
<1>1. CASE see_head
  <2>1. /\ Minus(head_, Inc(head_seen)) = Minus(head_, head_seen) - 1
        /\ Minus(Inc(head_seen), tail_) = Minus(head_seen, tail_) + 1
    BY <1>1, <1>d, MinusIncBehind, MinusIncAhead, RingAssumption DEF see_head
  <2>2. Inc(head_seen) \in Counter /\ Inc(head_seen) # tail_
    BY <1>d, <2>1, IncCases, MinusZero, RingAssumption
  <2>3. TypeOK'
    BY <1>1, <2>2 DEF see_head, TypeOK, producerVars, consumerVars, Counter
  <2>4. CountersInStep'
    BY <1>1, <1>d, <2>1, RingAssumption DEF see_head, CountersInStep, producerVars, consumerVars
  <2>5. CallsHold'
    BY <1>1, <2>2 DEF see_head, CallsHold, producerVars, consumerVars
  <2> QED BY <2>3, <2>4, <2>5
<1>2. CASE see_tail
  <2>1. tail_ # tail_seen /\ head_ # tail_seen
    BY <1>2, <1>d, MinusZero, RingAssumption DEF see_tail
  <2>2. /\ Minus(head_, Inc(tail_seen)) = Minus(head_, tail_seen) - 1
        /\ Minus(tail_, Inc(tail_seen)) = Minus(tail_, tail_seen) - 1
    BY <1>d, <2>1, MinusIncBehind, Zenon
  <2>3. TypeOK'
    BY <1>2, <1>d, IncCases DEF see_tail, TypeOK, producerVars, consumerVars, Counter
  <2>4. CountersInStep'
    BY <1>2, <1>d, <2>2, RingAssumption DEF see_tail, CountersInStep, producerVars, consumerVars
  <2>5. CallsHold'
    BY <1>2, <1>d, <2>2, RingAssumption DEF see_tail, CallsHold, producerVars, consumerVars
  <2> QED BY <2>3, <2>4, <2>5
<1> QED BY <1>1, <1>2

LEMMA NextIInv == IInv /\ [Next]_vars => IInv'
<1>1. IInv /\ UNCHANGED vars => IInv'
  BY DEF vars, IInv, TypeOK, CountersInStep, CallsHold
<1> QED BY <1>1, PushStep, PopStep, SeeStep DEF Next
-----------------------------------------------------------------------------
(* The theorems                                                             *)

\* The inductive invariant holds for every capacity.
THEOREM SpscInvariant == Spec => []IInv
BY InitIInv, NextIInv, PTL DEF Spec

\* The two threads never work on the same plain slot (slots_[head & kMask] in push
\* and slots_[tail & kMask] in pop), for every capacity and counter width.
THEOREM SpscNoSlotRace == Spec => []NoSlotRace
<1>1. IInv => NoSlotRace
  <2> SUFFICES ASSUME IInv, push_pc = "write", pop_pc = "read"
               PROVE  SlotOf(head_) # SlotOf(tail_)
    BY DEF NoSlotRace
  <2>1. head_ \in Counter /\ tail_ \in Counter /\ Minus(head_, tail_) \in 1 .. N - 1
    BY Room, Distances, RingAssumption DEF Near
  <2> QED BY <2>1, HeadTailSlots
<1> QED BY <1>1, SpscInvariant, PTL

\* The views that push and pop have of each other's counter are safe ones, for every
\* capacity and counter width.
THEOREM SpscCountersInStep == Spec => []CountersInStep
<1>1. IInv => CountersInStep
  BY DEF IInv
<1> QED BY <1>1, SpscInvariant, PTL

-----------------------------------------------------------------------------
(* The ring is a bounded FIFO                                               *)

\* The values between the counters, as a sequence.
LEMMA ContentsSeq ==
  ASSUME IInv
  PROVE  /\ Contents \in Seq(Values)
         /\ Len(Contents) = Minus(head_, tail_)
         /\ \A k \in 1 .. Minus(head_, tail_) : Contents[k] = slots_[SlotOf(tail_ + k - 1)]
<1> DEFINE d == Minus(head_, tail_)
<1>1. d \in Nat /\ tail_ \in Nat /\ slots_ \in [0 .. N - 1 -> Values]
  BY Distances, RingAssumption DEF Near, Counter, IInv, TypeOK
<1>2. \A k \in 1 .. d : tail_ + k - 1 \in Nat
  BY <1>1
<1>3. \A k \in 1 .. d : slots_[SlotOf(tail_ + k - 1)] \in Values
  BY <1>1, <1>2, SlotType, Zenon
<1>4. Contents = [k \in 1 .. d |-> slots_[SlotOf(tail_ + k - 1)]]
  BY DEF Contents
<1> HIDE DEF d
<1>5. Contents \in [1 .. d -> Values]
  BY <1>3, <1>4
<1>6. Contents \in Seq(Values) /\ Len(Contents) = d
  BY <1>1, <1>5
<1> QED BY <1>4, <1>6, Zenon DEF d

\* A sequence is the function from its indices to its elements.
LEMMA SeqAsFunction ==
  ASSUME NEW S, NEW q \in Seq(S)
  PROVE  q = [k \in 1 .. Len(q) |-> q[k]]
OBVIOUS

\* The initial ring is empty.
LEMMA InitFifo == Init => Fifo!Init
<1> SUFFICES ASSUME Init PROVE Fifo!Init
  OBVIOUS
<1>1. IInv
  BY InitIInv
<1>2. Len(Contents) = 0 /\ Contents \in Seq(Values)
  <2>1. Minus(head_, tail_) = 0
    BY <1>1, Distances, MinusZero DEF Init, Near
  <2> QED BY <1>1, <2>1, ContentsSeq
<1>3. Contents = <<>>
  BY <1>2
<1> QED BY <1>1, <1>3 DEF Fifo!Init, Init, IInv, TypeOK

\* A step that leaves the counters and the slots between them alone.
LEMMA ContentsKept ==
  ASSUME IInv, IInv', head_' = head_, tail_' = tail_,
         \A k \in 1 .. Minus(head_, tail_) :
           slots_'[SlotOf(tail_ + k - 1)] = slots_[SlotOf(tail_ + k - 1)]
  PROVE  Contents' = Contents
<1>1. Minus(head_', tail_') = Minus(head_, tail_)
  OBVIOUS
<1> QED BY <1>1 DEF Contents
\* The producer's write is outside the part of the ring that is in use.
LEMMA WriteKeeps ==
  ASSUME IInv, IInv', push_write
  PROVE  Contents' = Contents
<1> DEFINE d == Minus(head_, tail_)
<1>1. d \in 0 .. N - 1 /\ head_ \in Counter /\ tail_ \in Counter /\ tail_ \in Nat
  BY Room, Distances, RingAssumption DEF push_write, Near, Counter
<1>2. SlotOf(tail_ + d) = SlotOf(head_)
  BY <1>1, SlotAhead, Zenon
<1> HIDE DEF d
<1>3. ASSUME NEW k \in 1 .. d
      PROVE  slots_'[SlotOf(tail_ + k - 1)] = slots_[SlotOf(tail_ + k - 1)]
  <2>1. /\ tail_ + k - 1 \in Nat /\ d - k + 1 \in 1 .. N - 1
        /\ (tail_ + k - 1) + (d - k + 1) = tail_ + d
    BY <1>1, <1>3, RingAssumption
  <2>2. SlotOf(tail_ + k - 1) # SlotOf(head_)
    BY <1>2, <2>1, SlotsDiffer, Zenon
  <2>3. SlotOf(tail_ + k - 1) \in 0 .. N - 1
    BY <2>1, SlotType, Zenon
  <2> QED BY <2>2, <2>3 DEF push_write, IInv, TypeOK
<1>4. head_' = head_ /\ tail_' = tail_
  BY DEF push_write, consumerVars
<1> QED BY <1>3, <1>4, ContentsKept, Zenon DEF d

\* head_.store puts the value at the end.
LEMMA StorePuts ==
  ASSUME IInv, IInv', push_store
  PROVE  Contents' = Append(Contents, val_in)
<1> DEFINE d == Minus(head_, tail_)
<1>1. /\ d \in 0 .. N - 1 /\ d \in Nat /\ head_ \in Counter /\ tail_ \in Counter /\ tail_ \in Nat
      /\ d < SIZE_MOD - 1
  BY Room, Distances, RingAssumption DEF push_store, Near, Counter
<1>2. slots_[SlotOf(tail_ + d)] = val_in /\ val_in \in Values
  <2>1. SlotOf(tail_ + d) = SlotOf(head_)
    BY <1>1, SlotAhead, Zenon
  <2> QED BY <2>1 DEF push_store, IInv, CallsHold, TypeOK
<1>3. head_' = Inc(head_) /\ UNCHANGED <<tail_, slots_>>
  BY DEF push_store, consumerVars
<1>4. Minus(head_', tail_') = d + 1
  BY <1>1, <1>3, MinusIncAhead
<1>5. /\ Contents \in Seq(Values) /\ Len(Contents) = d
      /\ \A k \in 1 .. d : Contents[k] = slots_[SlotOf(tail_ + k - 1)]
  BY ContentsSeq, Zenon
<1>6. Contents' = [k \in 1 .. d + 1 |-> slots_[SlotOf(tail_ + k - 1)]]
  BY <1>3, <1>4 DEF Contents
<1> HIDE DEF d
<1>7. \A k \in 1 .. d + 1 : slots_[SlotOf(tail_ + k - 1)] = Append(Contents, val_in)[k]
  <2> SUFFICES ASSUME NEW k \in 1 .. d + 1
               PROVE  slots_[SlotOf(tail_ + k - 1)] = Append(Contents, val_in)[k]
    BY Zenon
  <2>1. CASE k = d + 1
    <3>1. tail_ + k - 1 = tail_ + d
      BY <1>1, <2>1
    <3>2. Append(Contents, val_in)[d + 1] = val_in
      BY <1>1, <1>2, <1>5
    <3> QED BY <1>2, <2>1, <3>1, <3>2
  <2>2. CASE k # d + 1
    <3>1. k \in 1 .. d
      BY <1>1, <2>2
    <3>2. Append(Contents, val_in)[k] = Contents[k]
      BY <1>1, <1>2, <1>5, <3>1
    <3> QED BY <1>5, <3>1, <3>2
  <2> QED BY <2>1, <2>2, Zenon
<1>8. Append(Contents, val_in) = [k \in 1 .. d + 1 |-> Append(Contents, val_in)[k]]
  <2>1. Append(Contents, val_in) \in Seq(Values) /\ Len(Append(Contents, val_in)) = d + 1
    BY <1>2, <1>5
  <2> QED BY <2>1, SeqAsFunction, Zenon
<1> QED BY <1>6, <1>7, <1>8, Zenon

\* tail_.store takes the first value.
LEMMA StoreTakes ==
  ASSUME IInv, IInv', pop_store
  PROVE  Contents # <<>> /\ val_read = Head(Contents) /\ Contents' = Tail(Contents)
<1> DEFINE d == Minus(head_, tail_)
<1>1. /\ d \in 1 .. N /\ d \in Nat /\ head_ \in Counter /\ tail_ \in Counter /\ tail_ \in Nat
      /\ head_ # tail_
  BY Room, Distances, MinusZero, RingAssumption DEF pop_store, Near, Counter
<1>2. slots_[SlotOf(tail_)] = val_read
  BY DEF pop_store, IInv, CallsHold
<1>3. tail_' = Inc(tail_) /\ UNCHANGED <<head_, slots_>>
  BY DEF pop_store, producerVars
<1>4. Minus(head_', tail_') = d - 1
  BY <1>1, <1>3, MinusIncBehind
<1>5. /\ Contents \in Seq(Values) /\ Len(Contents) = d
      /\ \A k \in 1 .. d : Contents[k] = slots_[SlotOf(tail_ + k - 1)]
  BY ContentsSeq, Zenon
<1>6. Contents' = [k \in 1 .. d - 1 |-> slots_[SlotOf(Inc(tail_) + k - 1)]]
  BY <1>3, <1>4 DEF Contents
<1> HIDE DEF d
<1>7. Contents # <<>> /\ Head(Contents) = Contents[1] /\ Contents[1] = slots_[SlotOf(tail_ + 1 - 1)]
  BY <1>1, <1>5
<1>8. tail_ + 1 - 1 = tail_
  BY <1>1
<1>9. \A k \in 1 .. d - 1 : slots_[SlotOf(Inc(tail_) + k - 1)] = Tail(Contents)[k]
  <2> SUFFICES ASSUME NEW k \in 1 .. d - 1
               PROVE  slots_[SlotOf(Inc(tail_) + k - 1)] = Tail(Contents)[k]
    BY Zenon
  <2>1. Inc(tail_) \in Counter
    BY <1>1, IncCases, Zenon
  <2>2. /\ k - 1 \in Nat /\ k + 1 \in 1 .. d /\ Inc(tail_) + (k - 1) = Inc(tail_) + k - 1
        /\ tail_ + (k - 1) + 1 = tail_ + (k + 1) - 1
    BY <1>1, <2>1 DEF Counter
  <2>3. SlotOf(Inc(tail_) + k - 1) = SlotOf(tail_ + (k + 1) - 1)
    BY <1>1, <2>2, SlotAfterInc, Zenon
  <2>4. Tail(Contents)[k] = Contents[k + 1]
    BY <1>1, <1>5
  <2> QED BY <1>5, <2>2, <2>3, <2>4, Zenon
<1>10. Tail(Contents) = [k \in 1 .. d - 1 |-> Tail(Contents)[k]]
  <2>1. Tail(Contents) \in Seq(Values) /\ Len(Tail(Contents)) = d - 1
    BY <1>1, <1>5, <1>7
  <2> QED BY <2>1, SeqAsFunction, Zenon
<1> QED BY <1>2, <1>6, <1>7, <1>8, <1>9, <1>10, Zenon

\* Every step of the ring is a step of the FIFO or leaves it alone.
LEMMA NextFifo == IInv /\ IInv' /\ [Next]_vars => [Fifo!Next]_(Fifo!vars)
<1> SUFFICES ASSUME IInv, IInv', [Next]_vars PROVE [Fifo!Next]_(Fifo!vars)
  OBVIOUS
<1> USE DEF Fifo!vars
<1>1. CASE UNCHANGED vars
  BY <1>1 DEF vars, Contents
<1>2. ASSUME NEW v \in Values, push_test(v) PROVE Fifo!Offer(v)
  BY <1>2 DEF push_test, consumerVars, Contents, Fifo!Offer
<1>3. CASE push_write
  BY <1>3, WriteKeeps DEF push_write, consumerVars
<1>4. CASE push_store
  <2>1. Contents' = Append(Contents, val_in) /\ UNCHANGED <<val_in, val_out>>
    BY <1>4, StorePuts DEF push_store, consumerVars
  <2>2. Len(Contents) < N
    BY <1>4, ContentsSeq, Room DEF push_store
  <2> QED BY <2>1, <2>2 DEF Fifo!Next, Fifo!Put
<1>5. CASE pop_test \/ pop_read \/ see_head \/ see_tail
  BY <1>5 DEF pop_test, pop_read, see_head, see_tail, producerVars, consumerVars, Contents
<1>6. CASE pop_store
  <2>1. Contents # <<>> /\ val_read = Head(Contents) /\ Contents' = Tail(Contents)
    BY <1>6, StoreTakes
  <2>2. val_out' = val_read /\ val_in' = val_in
    BY <1>6 DEF pop_store, producerVars
  <2> QED BY <2>1, <2>2 DEF Fifo!Next, Fifo!Take
<1> QED
  BY <1>1, <1>2, <1>3, <1>4, <1>5, <1>6
     DEF Next, push, pop, push_full, pop_empty, Fifo!Next

\* For every capacity and counter width, SpscQueue implements a bounded FIFO: what
\* pop returns are the values of the successful pushes, in order and each once.
THEOREM SpscIsBoundedFifo == Spec => IsBoundedFifo
BY InitFifo, NextFifo, SpscInvariant, PTL DEF Spec, IsBoundedFifo, Fifo!Spec
=============================================================================
