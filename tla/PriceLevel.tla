----------------------------- MODULE PriceLevel -----------------------------
(***************************************************************************)
(* lx::book::PriceLevel: intrusive doubly linked lists of pool slots, with *)
(* an order count and a total quantity.  Several levels (any side, any     *)
(* book) thread their lists through the links of one arena.  fifo is a     *)
(* history variable: the queue each level stands for, kept with the        *)
(* operators that OrderBook is specified over.                             *)
(***************************************************************************)
EXTENDS BookOps

CONSTANTS Levels,      \* the levels sharing the arena
          Quantities,  \* quantities of resting orders
          QTY_MOD      \* stands for 2^32: the width of total_qty

ASSUME LevelAssumption == Quantities \subseteq Nat \ {0} /\ QTY_MOD \in Nat \ {0}

VARIABLES head_idx, tail_idx,    \* per level
          order_count, total_qty,
          next_idx, prev_idx,    \* per slot: the links inside the Order
          qty,                   \* per slot
          fifo                   \* history: the queue of each level

levelVars == <<head_idx, tail_idx, order_count, total_qty>>
vars == <<head_idx, tail_idx, order_count, total_qty, next_idx, prev_idx, qty, fifo>>

SlotOrNull == Slots \cup {NULL_IDX}

\* A queued slot, in whichever level.
InSomeLevel(s) == \E l \in Levels : s \in Range(fifo[l])

Init ==
  /\ head_idx = [l \in Levels |-> NULL_IDX]
  /\ tail_idx = [l \in Levels |-> NULL_IDX]
  /\ order_count = [l \in Levels |-> 0]
  /\ total_qty = [l \in Levels |-> 0]
  /\ next_idx = [s \in Slots |-> 0]
  /\ prev_idx = [s \in Slots |-> 0]
  /\ qty = [s \in Slots |-> 0]
  /\ fifo = [l \in Levels |-> <<>>]

\* uint32_t arithmetic
Wrap(n) == n % QTY_MOD

\* Mutant: the level's total is left alone.
NothingTaken(l, q) == total_qty

Taken(l, q) == [total_qty EXCEPT ![l] = Wrap(@ - q)]

\* Mutant: the new head still points back at the old one.
HeadKeepsPrev(n) == prev_idx

\* base[head_idx].prev_idx = NULL_IDX, when there is a new head n
DetachHead(n) == [x \in Slots |-> IF x = n THEN NULL_IDX ELSE prev_idx[x]]

\* add_order stores an order in a slot that is in no level and pushes it.
push_back(l, s, q) ==
  LET t == tail_idx[l] IN
  /\ ~InSomeLevel(s)
  /\ qty' = [qty EXCEPT ![s] = q]
  /\ prev_idx' = [prev_idx EXCEPT ![s] = t]
  /\ next_idx' = [x \in Slots |-> IF x = s THEN NULL_IDX
                                  ELSE IF x = t THEN s ELSE next_idx[x]]
  /\ head_idx' = IF t = NULL_IDX THEN [head_idx EXCEPT ![l] = s] ELSE head_idx
  /\ tail_idx' = [tail_idx EXCEPT ![l] = s]
  /\ order_count' = [order_count EXCEPT ![l] = @ + 1]
  /\ total_qty' = [total_qty EXCEPT ![l] = Wrap(@ + q)]
  /\ fifo' = [fifo EXCEPT ![l] = PushBack(@, s)]

\* match() takes part of the oldest order ...
fill_part(l, q) ==
  LET s == head_idx[l] IN
  /\ s # NULL_IDX
  /\ q < qty[s]
  /\ total_qty' = Taken(l, q)
  /\ qty' = [qty EXCEPT ![s] = @ - q]
  /\ UNCHANGED <<head_idx, tail_idx, order_count, next_idx, prev_idx, fifo>>

\* ... or all of it, and pops it: pop_front runs when its quantity is already 0.
\* The popped order keeps its own links.
pop_front(l) ==
  LET s == head_idx[l]
      n == next_idx[s]
  IN
  /\ s # NULL_IDX
  /\ total_qty' = Taken(l, qty[s])
  /\ qty' = [qty EXCEPT ![s] = 0]
  /\ head_idx' = [head_idx EXCEPT ![l] = n]
  /\ tail_idx' = IF n = NULL_IDX THEN [tail_idx EXCEPT ![l] = NULL_IDX] ELSE tail_idx
  /\ prev_idx' = DetachHead(n)
  /\ order_count' = [order_count EXCEPT ![l] = @ - 1]
  /\ fifo' = [fifo EXCEPT ![l] = PopFront(@)]
  /\ UNCHANGED next_idx

\* cancel_order unlinks a slot of the level from wherever it is in the list.
\* The removed order keeps its quantity and its own links.
remove(l, s) ==
  LET p == prev_idx[s]
      n == next_idx[s]
  IN
  /\ s \in Range(fifo[l])
  /\ next_idx' = [x \in Slots |-> IF x = p THEN n ELSE next_idx[x]]
  /\ prev_idx' = [x \in Slots |-> IF x = n THEN p ELSE prev_idx[x]]
  /\ head_idx' = IF p = NULL_IDX THEN [head_idx EXCEPT ![l] = n] ELSE head_idx
  /\ tail_idx' = IF n = NULL_IDX THEN [tail_idx EXCEPT ![l] = p] ELSE tail_idx
  /\ order_count' = [order_count EXCEPT ![l] = @ - 1]
  /\ total_qty' = Taken(l, qty[s])
  /\ fifo' = [fifo EXCEPT ![l] = RemoveSlot(@, s)]
  /\ UNCHANGED qty

Next ==
  \E l \in Levels :
    \/ \E s \in Slots, q \in Quantities : push_back(l, s, q)
    \/ \E q \in Quantities : fill_part(l, q)
    \/ pop_front(l)
    \/ \E s \in Slots : remove(l, s)

Spec == Init /\ [][Next]_vars

-----------------------------------------------------------------------------
\* Type invariant of the levels and of the arena's links.
TypeOK ==
  /\ head_idx \in [Levels -> SlotOrNull]
  /\ tail_idx \in [Levels -> SlotOrNull]
  /\ order_count \in [Levels -> Int]
  /\ total_qty \in [Levels -> 0 .. QTY_MOD - 1]
  /\ next_idx \in [Slots -> SlotOrNull]
  /\ prev_idx \in [Slots -> SlotOrNull]
  /\ qty \in [Slots -> Nat]
  /\ fifo \in [Levels -> Seq(Slots)]

\* From head h to tail t, the links nx and pv spell the queue q forwards and
\* backwards.
Chained(q, h, t, nx, pv) ==
  LET n == Len(q) IN
  /\ h = IF n = 0 THEN NULL_IDX ELSE q[1]
  /\ t = IF n = 0 THEN NULL_IDX ELSE q[n]
  /\ \A k \in 1 .. n :
       /\ nx[q[k]] = IF k = n THEN NULL_IDX ELSE q[k + 1]
       /\ pv[q[k]] = IF k = 1 THEN NULL_IDX ELSE q[k - 1]

\* No slot is twice in a level or in two levels.
Disjoint ==
  /\ \A l \in Levels : IsInjective(fifo[l])
  /\ \A l, m \in Levels : l # m => Range(fifo[l]) \cap Range(fifo[m]) = {}

\* Whatever is pushed, filled and cancelled, in whatever order, head_idx,
\* tail_idx, the links of the queued orders and order_count are those of a FIFO
\* queue, although all levels share the links of one arena and an order leaves
\* its stale links behind in a slot that the next order takes.
LinksSpellQueue ==
  /\ Disjoint
  /\ \A l \in Levels :
       /\ Chained(fifo[l], head_idx[l], tail_idx[l], next_idx, prev_idx)
       /\ order_count[l] = Len(fifo[l])

\* total_qty is the quantity queued at the level (modulo its width), after
\* partial fills, pops and cancels of partly filled orders.
TotalIsQueued ==
  \A l \in Levels :
    total_qty[l] = MapThenSumSet(LAMBDA s : qty[s], Range(fifo[l])) % QTY_MOD
=============================================================================
