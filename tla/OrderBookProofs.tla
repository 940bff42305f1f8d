-------------------------- MODULE OrderBookProofs --------------------------
(***************************************************************************)
(* Machine-checked proofs about OrderBook.                                 *)
(***************************************************************************)
EXTENDS OrderBookPriority, BookOpsProofs

\* Every number up to k is below the next one.
LEMMA BelowNext ==
  ASSUME NEW k \in Nat, NEW n, n = k + 1
  PROVE  \A a \in Nat : a <= k => a < n
OBVIOUS

-----------------------------------------------------------------------------
(* The ladder: find_best returns the best occupied level.                   *)

\* When level i was the best of a side and is gone, find_best started next to
\* it returns the best of what is left, or NULL_IDX when nothing is.
LEMMA FindBestCorrect ==
  ASSUME NatWellOrdered, NEW side \in Sides, NEW S \in SUBSET Idx, NEW i \in Idx,
         \A j \in S : Better(side, i, j)
  PROVE  LET r == find_best(side, S, PastLevel(side, i))
         IN  r \in Idx \cup {NULL_IDX} /\ IsBest(side, S, r)
<1> DEFINE r == find_best(side, S, PastLevel(side, i))
<1>1. /\ i \in Int /\ i >= 0 /\ i < LADDER_SIZE
      /\ \A j \in S : j \in Int /\ j >= 0 /\ j < LADDER_SIZE
      /\ LADDER_SIZE \in Nat /\ NULL_IDX \in Nat /\ NULL_IDX > LADDER_SIZE
  BY SizesAssumption DEF Idx
<1>2. CASE side = "SELL"
  <2>1. \A j \in S : j >= i + 1
    BY <1>1, <1>2 DEF Better
  <2>2. {j \in S : j >= i + 1} = S
    BY <2>1, Zenon
  <2>3. r = NextUp(S, i + 1)
    BY <1>2, Zenon DEF find_best, PastLevel
  <2>4. CASE S = {}
    BY <2>2, <2>3, <2>4, Zenon DEF NextUp, IsBest
  <2>5. CASE S # {}
    <3>1. PICK m \in S : m = Min(S) /\ \A j \in S : m <= j
      BY <2>5, LeastExists, Zenon
    <3>2. m \in Int /\ ~(i + 1 >= LADDER_SIZE)
      BY <1>1, <2>1, <3>1
    <3>3. r = Min(S)
      BY <2>2, <2>3, <2>5, <3>2, Zenon DEF NextUp
    <3>4. r \in S /\ \A j \in S : ~(j < r)
      BY <1>1, <3>1, <3>2, <3>3
    <3>5. r # NULL_IDX
      BY <1>1, <3>4
    <3>6. QED
      BY <1>2, <3>4, <3>5, Zenon DEF Better, IsBest
  <2>6. QED
    BY <2>4, <2>5, Zenon
<1>3. CASE side = "BUY"
  <2>1. \A j \in S : j <= i - 1
    BY <1>1, <1>3 DEF Better
  <2>2. {j \in S : j <= i - 1} = S
    BY <2>1, Zenon
  <2>3. CASE S = {}
    <3>1. {j \in S : j <= NULL_IDX} = {}
      BY <2>3, Zenon
    <3>2. QED
      BY <1>3, <2>2, <2>3, <3>1, Zenon DEF find_best, PastLevel, NextDown, IsBest
  <2>4. CASE S # {}
    <3>1. PICK m \in S : m = Max(S) /\ \A j \in S : m >= j
      BY <2>4, GreatestExists, Zenon
    <3>2. m \in Int /\ i > 0 /\ ~(i - 1 >= LADDER_SIZE)
      BY <1>1, <2>1, <3>1
    <3>3. r = NextDown(S, i - 1)
      BY <1>3, <3>2, Zenon DEF find_best, PastLevel
    <3>4. r = Max(S)
      BY <2>2, <2>4, <3>2, <3>3, Zenon DEF NextDown
    <3>5. r \in S /\ \A j \in S : ~(j > r)
      BY <1>1, <3>1, <3>2, <3>4
    <3>6. r # NULL_IDX
      BY <1>1, <3>5
    <3>7. QED
      BY <1>3, <3>5, <3>6, Zenon DEF Better, IsBest
  <2>5. QED
    BY <2>3, <2>4, Zenon
<1>4. QED
  BY <1>2, <1>3, Zenon DEF Sides

\* Wherever it starts, find_best returns a level it was given, or NULL_IDX.
LEMMA FindBestType ==
  ASSUME NatWellOrdered, NEW side, NEW S \in SUBSET Idx, NEW from
  PROVE  find_best(side, S, from) \in Idx \cup {NULL_IDX}
<1>1. NextUp(S, from) \in Idx \cup {NULL_IDX}
  <2> DEFINE T == {i \in S : i >= from}
  <2>1. T \in SUBSET Idx
    BY Zenon
  <2>2. T # {} => Min(T) \in Idx
    BY <2>1, LeastExists, Zenon
  <2>3. QED
    BY <2>2, Zenon DEF NextUp
<1>2. NextDown(S, from) \in Idx \cup {NULL_IDX}
  <2> DEFINE T == {i \in S : i <= from}
  <2>1. T \in SUBSET Idx
    BY Zenon
  <2>2. T # {} => Max(T) \in Idx
    BY <2>1, GreatestExists, Zenon
  <2>3. QED
    BY <2>2, Zenon DEF NextDown
<1>3. QED
  BY <1>1, <1>2, Zenon DEF find_best

\* Levels hold slots of the arena.
LEMMA QueuedAreSlots ==
  ASSUME TypeOK
  PROVE  /\ \A b \in Books, side \in Sides, i \in Idx : Queued(b, side, i) \subseteq Slots
         /\ FreeSlots \subseteq Slots
<1>1. ASSUME NEW q \in Seq(Slots) PROVE Range(q) \subseteq Slots
  <2> SUFFICES ASSUME NEW k \in DOMAIN q PROVE q[k] \in Slots
    BY Zenon DEF Range
  <2>1. k \in 1 .. Len(q)
    BY SeqLen, Zenon
  <2>2. QED
    BY <2>1, SeqLen, Zenon
<1>2. free_list \in Seq(Slots)
  BY Zenon DEF TypeOK
<1>3. ASSUME NEW b \in Books, NEW side \in Sides, NEW i \in Idx
      PROVE  levels[b][side][i] \in Seq(Slots)
  BY DEF TypeOK
<1>4. QED
  BY <1>1, <1>2, <1>3, Zenon DEF Queued, FreeSlots

-----------------------------------------------------------------------------
(* A level loses one slot: the common part of a fill and of a cancel.       *)

\* What replacing one level by q does, level by level.
LevelSet(b, side, i, q) ==
  /\ levels' \in [Books -> [Sides -> [Idx -> Seq(Slots)]]]
  /\ levels'[b][side][i] = q
  /\ \A c \in Books, sd \in Sides, j \in Idx :
       ~(c = b /\ sd = side /\ j = i) => levels'[c][sd][j] = levels[c][sd][j]

\* A step that touches no ladder keeps the cached best levels right.
LEMMA BestKeeps ==
  ASSUME BestExact, UNCHANGED <<levels, occ, best>>
  PROVE  BestExact'
BY Zenon DEF BestExact, SideOK

\* A step that touches no resting order keeps what is known of them.
LEMMA RestingKeeps ==
  ASSUME RestingIsLive, Uncrossed, Resting' = Resting, cut' = cut,
         \A s \in Resting : slots'[s] = slots[s]
  PROVE  RestingIsLive' /\ Uncrossed'
<1>1. \A s \in Resting : LevelOf(s)' = LevelOf(s)
  BY Zenon DEF LevelOf
<1>2. RestingIsLive'
  BY Zenon DEF RestingIsLive
<1>3. Uncrossed'
  <2> SUFFICES ASSUME NEW x \in Resting, NEW y \in Resting,
                      slots[x].symbol = slots[y].symbol,
                      slots[x].side = "BUY", slots[y].side = "SELL",
                      Crosses("BUY", LevelOf(x), LevelOf(y))
               PROVE  IF slots[x].order_id > slots[y].order_id
                      THEN x \in cut ELSE y \in cut
    BY <1>1 DEF Uncrossed
  <2> QED
    BY Zenon DEF Uncrossed
<1>4. QED
  BY <1>2, <1>3, Zenon

\* A level whose queue and whose orders a step does not touch stays in place.
LEMMA LevelKeeps ==
  ASSUME NEW c, NEW sd, NEW j, Placed(c, sd, j),
         slots' = slots, levels'[c][sd][j] = levels[c][sd][j]
  PROVE  Placed(c, sd, j)' /\ Queued(c, sd, j)' = Queued(c, sd, j)
<1>1. Queued(c, sd, j)' = Queued(c, sd, j)
  BY Zenon DEF Queued
<1>2. \A s : LevelOf(s)' = LevelOf(s)
  BY Zenon DEF LevelOf
<1>3. QED
  BY <1>1, <1>2, Zenon DEF Placed

\* An update of one level, read at each book, side and level.
LEMMA LevelPointwise ==
  ASSUME TypeOK, NEW b \in Books, NEW side \in Sides, NEW i \in Idx,
         NEW q \in Seq(Slots), levels' = [levels EXCEPT ![b][side][i] = q]
  PROVE  LevelSet(b, side, i, q)
<1>1. levels \in [Books -> [Sides -> [Idx -> Seq(Slots)]]]
  BY Zenon DEF TypeOK
<1>2. QED
  BY <1>1 DEF LevelSet

\* What LevelShrunk does, level by level and side by side.
ShrinkEffect(b, side, i, q) ==
  /\ LevelSet(b, side, i, q)
  /\ occ'[b][side] = IF q = <<>> THEN occ[b][side] \ {i} ELSE occ[b][side]
  /\ best'[b][side] = IF q = <<>> /\ best[b][side] = i
                      THEN find_best(side, occ[b][side] \ {i}, PastLevel(side, i))
                      ELSE best[b][side]
  /\ \A c \in Books, sd \in Sides :
       ~(c = b /\ sd = side) =>
         occ'[c][sd] = occ[c][sd] /\ best'[c][sd] = best[c][sd]

\* LevelShrunk, read at each book, side and level.
LEMMA ShrinkPointwise ==
  ASSUME TypeOK, NEW b \in Books, NEW side \in Sides, NEW i \in Idx,
         NEW q \in Seq(Slots), LevelShrunk(b, side, i, q)
  PROVE  ShrinkEffect(b, side, i, q)
<1>1. levels' = [levels EXCEPT ![b][side][i] = q]
  BY Zenon DEF LevelShrunk
<1>2. /\ occ \in [Books -> [Sides -> SUBSET Idx]]
      /\ best \in [Books -> [Sides -> Idx \cup {NULL_IDX}]]
  BY Zenon DEF TypeOK
<1>3. LevelSet(b, side, i, q)
  BY <1>1, LevelPointwise, Zenon
<1>4. /\ occ'[b][side] = IF q = <<>> THEN occ[b][side] \ {i} ELSE occ[b][side]
      /\ \A c \in Books, sd \in Sides : ~(c = b /\ sd = side) => occ'[c][sd] = occ[c][sd]
  BY <1>2, Zenon DEF LevelShrunk
<1>5. /\ best'[b][side] = IF q = <<>> /\ best[b][side] = i
                          THEN find_best(side, occ[b][side] \ {i}, PastLevel(side, i))
                          ELSE best[b][side]
      /\ \A c \in Books, sd \in Sides : ~(c = b /\ sd = side) => best'[c][sd] = best[c][sd]
  BY <1>2, Zenon DEF LevelShrunk
<1>6. QED
  BY <1>3, <1>4, <1>5, Zenon DEF ShrinkEffect

\* A level that shrinks keeps the bitmap and the cached best index right, on
\* its own side and on every other.
LEMMA ShrinkKeepsBest ==
  ASSUME NatWellOrdered, TypeOK, BestExact, NEW b \in Books, NEW side \in Sides, NEW i \in Idx,
         levels[b][side][i] # <<>>,
         NEW q \in Seq(Slots), LevelShrunk(b, side, i, q)
  PROVE  BestExact'
<1>0. ShrinkEffect(b, side, i, q)
  BY ShrinkPointwise, Zenon
<1>1. ASSUME NEW c \in Books, NEW sd \in Sides, ~(c = b /\ sd = side)
      PROVE  SideOK(c, sd)'
  <2>1. SideOK(c, sd)
    BY Zenon DEF BestExact
  <2>2. occ'[c][sd] = occ[c][sd] /\ best'[c][sd] = best[c][sd]
    BY <1>0, <1>1, Zenon DEF ShrinkEffect, LevelSet
  <2>3. \A j \in Idx : levels'[c][sd][j] = levels[c][sd][j]
    BY <1>0, <1>1, Zenon DEF ShrinkEffect, LevelSet
  <2>4. QED
    BY <2>1, <2>2, <2>3, Zenon DEF SideOK
<1>2. SideOK(b, side)'
  <2> DEFINE o == occ[b][side]
             p == best[b][side]
  <2>1. o = {j \in Idx : levels[b][side][j] # <<>>} /\ IsBest(side, o, p)
    BY Zenon DEF BestExact, SideOK
  <2>2. i \in o /\ p # NULL_IDX
    BY <2>1, Zenon DEF IsBest
  <2>3. \A j \in Idx : j # i => levels'[b][side][j] = levels[b][side][j]
    BY <1>0, Zenon DEF ShrinkEffect, LevelSet
  <2>4. levels'[b][side][i] = q
    BY <1>0, Zenon DEF ShrinkEffect, LevelSet
  <2>5. CASE q # <<>>
    <3>1. occ'[b][side] = o /\ best'[b][side] = p
      BY <1>0, <2>5, Zenon DEF ShrinkEffect, LevelSet
    <3>2. o = {j \in Idx : levels'[b][side][j] # <<>>}
      BY <2>1, <2>2, <2>3, <2>4, <2>5, Zenon
    <3>3. QED
      BY <2>1, <3>1, <3>2, Zenon DEF SideOK
  <2>6. CASE q = <<>>
    <3>1. occ'[b][side] = o \ {i}
      BY <1>0, <2>6, Zenon DEF ShrinkEffect, LevelSet
    <3>2. o \ {i} = {j \in Idx : levels'[b][side][j] # <<>>}
      BY <2>1, <2>3, <2>4, <2>6, Zenon
    <3>3. CASE p # i
      <4>1. best'[b][side] = p
        BY <1>0, <2>6, <3>3, Zenon DEF ShrinkEffect, LevelSet
      <4>2. IsBest(side, o \ {i}, p)
        BY <2>1, <2>2, <3>3, Zenon DEF IsBest
      <4>3. QED
        BY <3>1, <3>2, <4>1, <4>2, Zenon DEF SideOK
    <3>4. CASE p = i
      <4> DEFINE r == find_best(side, o \ {i}, PastLevel(side, i))
      <4>1. best'[b][side] = r
        BY <1>0, <2>6, <3>4, Zenon DEF ShrinkEffect, LevelSet
      <4>2. \A j \in o \ {i} : Better(side, i, j)
        <5> TAKE j \in o \ {i}
        <5>1. i \in Int /\ j \in Int /\ j # i /\ ~Better(side, j, i)
          BY <2>1, <2>2, <3>4, SizesAssumption DEF Idx, IsBest
        <5>2. QED
          BY <5>1 DEF Better
      <4>3. o \ {i} \in SUBSET Idx
        BY <2>1, Zenon
      <4>4. IsBest(side, o \ {i}, r)
        BY <4>2, <4>3, FindBestCorrect, Zenon
      <4>5. QED
        BY <3>1, <3>2, <4>1, <4>4, Zenon DEF SideOK
    <3>5. QED
      BY <3>3, <3>4, Zenon
  <2>7. QED
    BY <2>5, <2>6, Zenon
<1>3. QED
  BY <1>1, <1>2, Zenon DEF BestExact

\* A level that shrinks keeps the types of the ladder.
LEMMA ShrinkTypes ==
  ASSUME NatWellOrdered, TypeOK, NEW b \in Books, NEW side \in Sides, NEW i \in Idx,
         NEW q \in Seq(Slots), LevelShrunk(b, side, i, q)
  PROVE  /\ levels' \in [Books -> [Sides -> [Idx -> Seq(Slots)]]]
         /\ occ' \in [Books -> [Sides -> SUBSET Idx]]
         /\ best' \in [Books -> [Sides -> Idx \cup {NULL_IDX}]]
<1>1. levels' \in [Books -> [Sides -> [Idx -> Seq(Slots)]]]
  BY ShrinkPointwise, Zenon DEF ShrinkEffect, LevelSet
<1>2. occ' \in [Books -> [Sides -> SUBSET Idx]]
  BY Zenon DEF TypeOK, LevelShrunk
<1>3. find_best(side, occ[b][side] \ {i}, PastLevel(side, i)) \in Idx \cup {NULL_IDX}
  BY FindBestType DEF TypeOK
<1>4. best' \in [Books -> [Sides -> Idx \cup {NULL_IDX}]]
  BY <1>3, Zenon DEF TypeOK, LevelShrunk
<1>5. QED
  BY <1>1, <1>2, <1>4, Zenon

\* No order changes its book, side or price.
SamePlaces ==
  \A t \in Slots : /\ slots'[t].symbol = slots[t].symbol
                   /\ slots'[t].side = slots[t].side
                   /\ slots'[t].price = slots[t].price

\* s, a slot of level i, leaves its level, which becomes q, and is freed.
SlotLeaves(b, side, i, q, s) ==
  /\ s \in Queued(b, side, i)
  /\ q \in Seq(Slots)
  /\ IsInjective(q)
  /\ Range(q) = Queued(b, side, i) \ {s}
  /\ LevelShrunk(b, side, i, q)
  /\ free(s)
  /\ SamePlaces
  /\ agg' = agg

\* A slot that leaves its level is no longer resting and is free, and nothing
\* else changes owner.
LEMMA ShrinkKeepsOwnership ==
  ASSUME TypeOK, OneOwner, NEW b \in Books, NEW side \in Sides, NEW i \in Idx,
         NEW q, NEW s, SlotLeaves(b, side, i, q, s)
  PROVE  /\ s \in Slots
         /\ Resting' = Resting \ {s}
         /\ FreeSlots' = FreeSlots \cup {s}
         /\ free_list' \in Seq(Slots)
         /\ OneOwner'
<1>0. ShrinkEffect(b, side, i, q)
  BY ShrinkPointwise, Zenon DEF SlotLeaves
<1>1. levels[b][side][i] \in Seq(Slots) /\ free_list \in Seq(Slots)
  BY DEF TypeOK
<1>2. s \in Slots
  BY QueuedAreSlots, Zenon DEF SlotLeaves
<1>3. s \in Resting
  BY <1>2, Zenon DEF SlotLeaves, Resting
<1>4. s \notin FreeSlots /\ s # agg
  BY <1>3, Zenon DEF OneOwner
<1>5. free_list' = Append(free_list, s)
  BY Zenon DEF SlotLeaves, free
<1>6. /\ free_list' \in Seq(Slots)
      /\ IsInjective(free_list')
      /\ FreeSlots' = FreeSlots \cup {s}
  BY <1>1, <1>2, <1>4, <1>5, AppendSlot, Zenon DEF OneOwner, FreeSlots
<1>7. ASSUME NEW c \in Books, NEW sd \in Sides, NEW j \in Idx
      PROVE  /\ Queued(c, sd, j)' = Queued(c, sd, j) \ {s}
             /\ Placed(c, sd, j)'
  <2>1. Placed(c, sd, j)
    BY Zenon DEF OneOwner
  <2>2. /\ slots[s].symbol = b /\ slots[s].side = side /\ LevelOf(s) = i
    BY DEF OneOwner, Placed, SlotLeaves
  <2>3. CASE c = b /\ sd = side /\ j = i
    <3>1. levels'[c][sd][j] = q
      BY <1>0, <2>3, Zenon DEF ShrinkEffect, LevelSet
    <3>2. Queued(c, sd, j)' = Queued(c, sd, j) \ {s}
      BY <2>3, <3>1, Zenon DEF Queued, SlotLeaves
    <3>3. IsInjective(levels'[c][sd][j])
      BY <3>1, Zenon DEF SlotLeaves
    <3>4. QED
      BY <2>1, <3>2, <3>3, QueuedAreSlots, SMTT(20) DEF Placed, SlotLeaves, SamePlaces, LevelOf
  <2>4. CASE ~(c = b /\ sd = side /\ j = i)
    <3>1. levels'[c][sd][j] = levels[c][sd][j]
      BY <1>0, <2>4, Zenon DEF ShrinkEffect, LevelSet
    <3>2. s \notin Queued(c, sd, j)
      BY <2>1, <2>2, <2>4, Zenon DEF Placed
    <3>3. Queued(c, sd, j)' = Queued(c, sd, j)
      BY <3>1, Zenon DEF Queued
    <3>4. QED
      BY <2>1, <3>1, <3>2, <3>3, QueuedAreSlots, SMTT(20) DEF Placed, SlotLeaves, SamePlaces, LevelOf
  <2>5. QED
    BY <2>3, <2>4, Zenon
<1>8. Resting' = Resting \ {s}
  BY <1>7 DEF Resting
<1>9. agg' = agg
  BY Zenon DEF SlotLeaves
<1>10. OneOwner'
  <2>1. /\ \A t \in Slots : t \in FreeSlots \/ t \in Resting \/ t = agg
        /\ \A t \in FreeSlots : t \notin Resting
        /\ agg \notin FreeSlots /\ agg \notin Resting
    BY Zenon DEF OneOwner
  <2>2. /\ \A t \in Slots : t \in FreeSlots' \/ t \in Resting' \/ t = agg'
        /\ \A t \in FreeSlots' : t \notin Resting'
        /\ agg' \notin FreeSlots' /\ agg' \notin Resting'
    BY <1>4, <1>6, <1>8, <1>9, <2>1, Zenon
  <2>3. QED
    BY <1>6, <1>7, <2>2, Zenon DEF OneOwner
<1>11. QED
  BY <1>2, <1>6, <1>8, <1>10, Zenon

-----------------------------------------------------------------------------
(* A slot is freed: its generation moves past every handle for it.          *)

\* Pool::free of a slot that was not free keeps generations in range and
\* handles exact: the slot's own handles become stale, the others are untouched.
LEMMA FreeKeepsHandles ==
  ASSUME NoGenWrap, TypeOK, GenBound, HandlesExact, ArrivalOrder,
         NEW s \in Slots, s \notin FreeSlots, free(s),
         Resting' = Resting \ {s}, FreeSlots' = FreeSlots \cup {s},
         issued' = issued, next_id' = next_id,
         \A t \in Slots : slots'[t].order_id = slots[t].order_id
  PROVE  /\ gen' \in [Slots -> 0 .. GEN_MOD - 1]
         /\ GenBound'
         /\ HandlesExact'
<1>1. /\ gen \in [Slots -> 0 .. GEN_MOD - 1]
      /\ next_id \in Nat
      /\ issued \subseteq [slot : Slots, gen : 0 .. GEN_MOD - 1, id : Nat]
      /\ GEN_MOD \in Nat /\ MAX_ADDS \in Nat
  BY BookAssumption, Zenon DEF TypeOK
<1>2. gen[s] \in 0 .. GEN_MOD - 1 /\ gen[s] + 1 <= next_id /\ next_id < GEN_MOD
  BY <1>1 DEF GenBound, ArrivalOrder, NoGenWrap
<1>3. (gen[s] + 1) % GEN_MOD = gen[s] + 1
  BY <1>1, <1>2
<1>4. gen' = [gen EXCEPT ![s] = gen[s] + 1]
  BY <1>1, <1>3, Zenon DEF free
<1>5. gen' \in [Slots -> 0 .. GEN_MOD - 1]
  BY <1>1, <1>2, <1>4
<1>6. gen'[s] = gen[s] + 1 /\ \A t \in Slots \ {s} : gen'[t] = gen[t]
  BY <1>1, <1>4, Zenon
<1>7. GenBound'
  <2>1. ASSUME NEW t \in Slots
        PROVE  gen'[t] <= next_id' /\ (t \notin FreeSlots' => gen'[t] < next_id')
    <3>1. gen[t] <= next_id /\ (t \notin FreeSlots => gen[t] < next_id)
      BY Zenon DEF GenBound
    <3>2. CASE t = s
      BY <1>1, <1>2, <1>6, <3>2, Zenon
    <3>3. CASE t # s
      BY <1>6, <3>1, <3>3, Zenon
    <3>4. QED
      BY <3>2, <3>3, Zenon
  <2>2. ASSUME NEW h \in issued PROVE h.gen <= gen'[h.slot]
    <3>1. h.slot \in Slots /\ h.gen \in Int /\ h.gen <= gen[h.slot] /\ gen[h.slot] \in Int
      BY <1>1 DEF GenBound
    <3>2. QED
      BY <1>6, <3>1
  <2>3. QED
    BY <2>1, <2>2, Zenon DEF GenBound
<1>8. HandlesExact'
  <2>1. SUFFICES ASSUME NEW h \in issued, gen'[h.slot] = h.gen
                 PROVE  h.slot \in Resting' /\ slots'[h.slot].order_id = h.id
    BY Zenon DEF HandlesExact
  <2>2. h.slot \in Slots /\ h.gen \in Int /\ h.gen <= gen[h.slot] /\ gen[h.slot] \in Int
    BY <1>1 DEF GenBound
  <2>3. h.slot # s
    BY <1>6, <2>1, <2>2
  <2>4. gen[h.slot] = h.gen
    BY <1>6, <2>1, <2>2, <2>3, Zenon
  <2>5. QED
    BY <2>2, <2>3, <2>4, Zenon DEF HandlesExact
<1>9. QED
  BY <1>5, <1>7, <1>8, Zenon

\* Orders keep everything but their quantity.
SameOrders ==
  /\ slots' \in [Slots -> Order]
  /\ SamePlaces
  /\ \A t \in Slots : /\ slots'[t].order_id = slots[t].order_id
                      /\ slots'[t].tif = slots[t].tif

\* When orders keep all but their quantity and no new one rests, arrival order
\* and the absence of crossed orders are kept.
LEMMA FewerResting ==
  ASSUME TypeOK, ArrivalOrder, Uncrossed, SameOrders,
         Resting' \subseteq Resting, Resting' \cap cut \subseteq cut',
         next_id' = next_id, agg' = agg
  PROVE  ArrivalOrder' /\ Uncrossed'
<1>1. Resting \subseteq Slots /\ agg \in Slots \cup {NULL_IDX}
  BY Zenon DEF Resting, TypeOK
<1>2. ArrivalOrder'
  BY <1>1, Zenon DEF ArrivalOrder, SameOrders, SamePlaces, Idle, InLadder
<1>3. Uncrossed'
  BY <1>1 DEF Uncrossed, SameOrders, SamePlaces, LevelOf
<1>4. QED
  BY <1>2, <1>3, Zenon

-----------------------------------------------------------------------------
(* One lemma per action: each preserves the inductive invariant.            *)

\* A resting order is queued at its own level, and the best level of its side
\* is at least as good.
LEMMA RestingPlace ==
  ASSUME BookInv, NEW y \in Resting
  PROVE  LET c == slots[y].symbol
             sd == slots[y].side
         IN  /\ c \in Books /\ sd \in Sides /\ LevelOf(y) \in Idx
             /\ y \in Queued(c, sd, LevelOf(y))
             /\ best[c][sd] \in Idx
             /\ best[c][sd] # NULL_IDX
             /\ ~Better(sd, LevelOf(y), best[c][sd])
<1>1. PICK c \in Books, sd \in Sides, j \in Idx : y \in Queued(c, sd, j)
  BY Zenon DEF Resting
<1>2. slots[y].symbol = c /\ slots[y].side = sd /\ LevelOf(y) = j
  BY <1>1 DEF BookInv, OneOwner, Placed
<1>3. levels[c][sd][j] # <<>>
  <2>1. levels[c][sd][j] \in Seq(Slots)
    BY DEF BookInv, TypeOK
  <2>2. PICK k \in DOMAIN levels[c][sd][j] : levels[c][sd][j][k] = y
    BY <1>1, Zenon DEF Queued, Range
  <2>3. k \in 1 .. Len(levels[c][sd][j]) /\ Len(<<>>) = 0
    BY <2>1, <2>2, SeqLen, Zenon
  <2>4. QED
    BY <2>3
<1>4. SideOK(c, sd)
  BY Zenon DEF BookInv, BestExact
<1>5. j \in occ[c][sd] /\ occ[c][sd] \subseteq Idx
  BY <1>3, <1>4, Zenon DEF SideOK
<1>6. best[c][sd] # NULL_IDX /\ best[c][sd] \in Idx /\ ~Better(sd, j, best[c][sd])
  BY <1>4, <1>5, Zenon DEF SideOK, IsBest
<1>7. QED
  BY <1>1, <1>2, <1>6, Zenon

\* While a resting order is within the aggressor's limit, matching goes on.
LEMMA CrossingIsMarketable ==
  ASSUME BookInv, agg \in Slots, slots[agg].qty > 0, LevelOf(agg) \in Idx,
         NEW y \in Resting, slots[y].symbol = slots[agg].symbol,
         slots[y].side = Opposite(slots[agg].side),
         Crosses(slots[agg].side, LevelOf(agg), LevelOf(y))
  PROVE  Marketable
<1> DEFINE side == slots[agg].side
           p == best[slots[agg].symbol][Opposite(side)]
<1>1. /\ LevelOf(y) \in Idx /\ p \in Idx /\ p # NULL_IDX
      /\ ~Better(Opposite(side), LevelOf(y), p)
  BY RestingPlace, Zenon
<1> HIDE DEF p
<1>2. LevelOf(y) \in Int /\ p \in Int /\ LevelOf(agg) \in Int
  BY <1>1, SizesAssumption DEF Idx
<1>3. side \in Sides
  BY Zenon DEF BookInv, TypeOK, Order
<1> HIDE DEF p
<1>4. Crosses(side, LevelOf(agg), p)
  BY <1>1, <1>2, <1>3 DEF Crosses, Better, Opposite, Sides
<1>5. QED
  BY <1>1, <1>4, Zenon DEF Marketable, p

\* match() fills qty of the resting order in slot s, at the head of the best level
\* i of the other side.
Fills(b, other, i, s, qty) ==
  LET o == slots[agg]
      r == slots[s]
      level == levels[b][other][i]
  IN
  /\ agg \in Slots /\ o \in Order /\ b = o.symbol /\ b \in Books
  /\ other = Opposite(o.side) /\ other \in Sides
  /\ i = best[b][other] /\ i \in Idx /\ level # <<>> /\ level \in Seq(Slots)
  /\ s = Head(level) /\ s \in Slots /\ s \in Queued(b, other, i)
  /\ PopFront(level) \in Seq(Slots) /\ IsInjective(PopFront(level))
  /\ Range(PopFront(level)) = Queued(b, other, i) \ {s}
  /\ s \in Resting /\ s # agg /\ r \in Order /\ r.qty > 0
  /\ qty = (IF o.qty < r.qty THEN o.qty ELSE r.qty)
  /\ qty \in Nat /\ o.qty \in Nat /\ r.qty \in Nat /\ qty <= o.qty /\ qty <= r.qty
  /\ fills' = Append(fills, [aggressor_id |-> o.order_id, resting_id |-> r.order_id,
                             price |-> r.price, qty |-> qty, session |-> order_session[s]])
  /\ SameOrders
  /\ slots'[s].qty = r.qty - qty /\ slots'[agg].qty = o.qty - qty
  /\ \A t \in Slots : t # agg /\ t # s => slots'[t].qty = slots[t].qty
  /\ IF r.qty = qty
     THEN LevelShrunk(b, other, i, PopFront(level)) /\ free(s) /\ cut' = cut \ {s}
     ELSE UNCHANGED <<bookVars, poolVars, cut>>
  /\ UNCHANGED <<order_session, agg, ret, next_id, issued, astray>>

\* A match of the aggressor fills the order at the head of the best opposite level.
LEMMA MatchOneFills ==
  ASSUME BookInv, MatchOne
  PROVE  \E b, other, i, s, qty : Fills(b, other, i, s, qty)
<1> DEFINE o     == slots[agg]
           b     == o.symbol
           other == Opposite(o.side)
           i     == best[b][other]
           level == levels[b][other][i]
           rslot == Head(level)
           r     == slots[rslot]
           qty   == IF o.qty < r.qty THEN o.qty ELSE r.qty
<1>1. /\ TypeOK /\ BestExact /\ OneOwner /\ RestingIsLive /\ ArrivalOrder
      /\ GenBound /\ HandlesExact /\ Uncrossed
  BY Zenon DEF BookInv
<1>2. agg \in Slots /\ o \in Order /\ b \in Books /\ other \in Sides
  <2>1. agg \in Slots
    BY <1>1, Zenon DEF MatchOne, Idle, TypeOK
  <2>2. o \in Order
    BY <1>1, <2>1, Zenon DEF TypeOK
  <2>3. QED
    BY <1>1, <2>1, <2>2, Zenon DEF MatchOne, ArrivalOrder, Order, Opposite, Sides
<1>3. i \in Idx /\ level # <<>> /\ level \in Seq(Slots)
  <2>1. i # NULL_IDX
    BY Zenon DEF MatchOne, Marketable
  <2>2. SideOK(b, other)
    BY <1>1, <1>2, Zenon DEF BestExact
  <2>3. i \in Idx /\ level # <<>>
    BY <2>1, <2>2, Zenon DEF SideOK, IsBest
  <2>4. \A c \in Books, sd \in Sides, j \in Idx : levels[c][sd][j] \in Seq(Slots)
    BY <1>1 DEF TypeOK
  <2>5. QED
    BY <1>2, <2>3, <2>4, Zenon
<1>4. IsInjective(level)
  <2>1. \A c \in Books, sd \in Sides, j \in Idx : IsInjective(levels[c][sd][j])
    BY <1>1, Zenon DEF OneOwner, Placed
  <2>2. QED
    BY <1>2, <1>3, <2>1, Zenon
<1>5. /\ rslot \in Slots /\ rslot \in Queued(b, other, i)
      /\ PopFront(level) \in Seq(Slots) /\ IsInjective(PopFront(level))
      /\ Range(PopFront(level)) = Queued(b, other, i) \ {rslot}
  BY <1>3, <1>4, PopFrontSlot, Zenon DEF Queued
<1>6. rslot \in Resting /\ rslot # agg /\ r \in Order /\ r.qty > 0
  <2>1. rslot \in Resting
    BY <1>2, <1>3, <1>5, Zenon DEF Resting
  <2>2. QED
    BY <1>1, <1>5, <2>1, Zenon DEF OneOwner, RestingIsLive, TypeOK
<1> HIDE DEF rslot
<1>7. /\ qty \in Nat /\ o.qty \in Nat /\ r.qty \in Nat
      /\ qty <= o.qty /\ qty <= r.qty
  BY <1>2, <1>6 DEF Order
<1> HIDE DEF qty
<1>8. /\ fills' = Append(fills, [aggressor_id |-> o.order_id,
                                 resting_id |-> r.order_id,
                                 price |-> r.price, qty |-> qty,
                                 session |-> order_session[rslot]])
      /\ slots' = [slots EXCEPT ![agg].qty = @ - qty, ![rslot].qty = @ - qty]
      /\ IF r.qty = qty
         THEN /\ LevelShrunk(b, other, i, PopFront(level))
              /\ free(rslot)
              /\ cut' = cut \ {rslot}
         ELSE UNCHANGED <<bookVars, poolVars, cut>>
      /\ UNCHANGED <<order_session, agg, ret, next_id, issued, astray>>
  BY Zenon DEF MatchOne, rslot, qty
<1>9. /\ SameOrders
      /\ slots'[rslot].qty = r.qty - qty /\ slots'[agg].qty = o.qty - qty
      /\ \A t \in Slots : t # agg /\ t # rslot => slots'[t].qty = slots[t].qty
  <2>1. slots \in [Slots -> Order]
    BY <1>1, Zenon DEF TypeOK
  <2>2. slots' = [slots EXCEPT ![agg] = [o EXCEPT !.qty = o.qty - qty],
                               ![rslot] = [r EXCEPT !.qty = r.qty - qty]]
    BY <1>2, <1>5, <1>6, <1>8, <2>1, Zenon
  <2>3. [o EXCEPT !.qty = o.qty - qty] \in Order /\ [r EXCEPT !.qty = r.qty - qty] \in Order
    BY <1>2, <1>6, <1>7 DEF Order
  <2>4. QED
    BY <1>2, <1>5, <1>6, <2>1, <2>2, <2>3, Zenon DEF SameOrders, SamePlaces, Order
<1>10. Fills(b, other, i, rslot, qty)
  <2>1. rslot = Head(level) /\ qty = (IF o.qty < r.qty THEN o.qty ELSE r.qty)
    BY Zenon DEF rslot, qty
  <2>2. QED
    BY <1>2, <1>3, <1>5, <1>6, <1>7, <1>8, <1>9, <2>1, Zenon DEF Fills
<1>11. QED
  BY <1>10, Zenon

\* One fill of match() keeps the invariant.
LEMMA MatchOneInv ==
  ASSUME NatWellOrdered, NoGenWrap, BookInv, MatchOne
  PROVE  BookInv'
<1>1. /\ TypeOK /\ BestExact /\ OneOwner /\ RestingIsLive /\ ArrivalOrder
      /\ GenBound /\ HandlesExact /\ Uncrossed
  BY Zenon DEF BookInv
<1>0. PICK b, other, i, rslot, qty : Fills(b, other, i, rslot, qty)
  BY MatchOneFills, Zenon
<1> DEFINE o     == slots[agg]
           level == levels[b][other][i]
           r     == slots[rslot]
<1>2. agg \in Slots /\ o \in Order /\ b \in Books /\ other \in Sides
  BY <1>0, Zenon DEF Fills
<1>3. i \in Idx /\ level # <<>> /\ level \in Seq(Slots)
  BY <1>0, Zenon DEF Fills
<1>5. /\ rslot \in Slots /\ rslot \in Queued(b, other, i)
      /\ PopFront(level) \in Seq(Slots) /\ IsInjective(PopFront(level))
      /\ Range(PopFront(level)) = Queued(b, other, i) \ {rslot}
  BY <1>0, Zenon DEF Fills
<1>6. rslot \in Resting /\ rslot # agg /\ r \in Order /\ r.qty > 0
  BY <1>0, Zenon DEF Fills
<1>7. /\ qty \in Nat /\ o.qty \in Nat /\ r.qty \in Nat
      /\ qty <= o.qty /\ qty <= r.qty
  BY <1>0, Zenon DEF Fills
<1>8. /\ fills' = Append(fills, [aggressor_id |-> o.order_id,
                                 resting_id |-> r.order_id,
                                 price |-> r.price, qty |-> qty,
                                 session |-> order_session[rslot]])
      /\ IF r.qty = qty
         THEN /\ LevelShrunk(b, other, i, PopFront(level))
              /\ free(rslot)
              /\ cut' = cut \ {rslot}
         ELSE UNCHANGED <<bookVars, poolVars, cut>>
      /\ UNCHANGED <<order_session, agg, ret, next_id, issued, astray>>
  BY <1>0, Zenon DEF Fills
<1>9. /\ SameOrders
      /\ slots'[rslot].qty = r.qty - qty
      /\ \A t \in Slots : t # agg /\ t # rslot => slots'[t].qty = slots[t].qty
  BY <1>0, Zenon DEF Fills
<1>10. fills' \in Seq(Fill)
  <2>1. [aggressor_id |-> o.order_id, resting_id |-> r.order_id, price |-> r.price,
         qty |-> qty, session |-> order_session[rslot]] \in Fill
    BY <1>1, <1>2, <1>5, <1>6, <1>7, Zenon DEF Fill, Order, TypeOK
  <2>2. fills \in Seq(Fill)
    BY <1>1, Zenon DEF TypeOK
  <2>3. QED
    BY <1>8, <2>1, <2>2, SeqAppend, Zenon
<1>11. CASE r.qty = qty
  <2>1. SlotLeaves(b, other, i, PopFront(level), rslot)
    BY <1>5, <1>8, <1>9, <1>11, Zenon DEF SlotLeaves, SameOrders
  <2>2. /\ Resting' = Resting \ {rslot}
        /\ FreeSlots' = FreeSlots \cup {rslot}
        /\ free_list' \in Seq(Slots)
        /\ OneOwner'
    BY <1>1, <1>2, <1>3, <2>1, ShrinkKeepsOwnership, Zenon
  <2>3. BestExact'
    BY <1>1, <1>2, <1>3, <1>5, <1>8, <1>11, ShrinkKeepsBest, Zenon
  <2>4. /\ gen' \in [Slots -> 0 .. GEN_MOD - 1] /\ GenBound' /\ HandlesExact'
    <3>1. rslot \notin FreeSlots
      BY <1>1, <1>6, Zenon DEF OneOwner
    <3>2. QED
      BY <1>1, <1>5, <1>8, <1>9, <1>11, <2>2, <3>1, FreeKeepsHandles, Zenon DEF SameOrders
  <2>5. ArrivalOrder' /\ Uncrossed'
    BY <1>1, <1>8, <1>9, <1>11, <2>2, FewerResting, Zenon
  <2>6. RestingIsLive'
    <3>1. \A t \in Resting' : t \in Slots /\ t \in Resting /\ t # rslot /\ t # agg
      BY <1>1, <2>2, Zenon DEF OneOwner, Resting
    <3>2. QED
      BY <1>1, <1>9, <3>1, Zenon DEF RestingIsLive, SameOrders
  <2>7. TypeOK'
    BY <1>1, <1>2, <1>3, <1>5, <1>8, <1>9, <1>10, <1>11, <2>2, <2>4, ShrinkTypes, Zenon
       DEF TypeOK, SameOrders
  <2>8. QED
    BY <2>2, <2>3, <2>4, <2>5, <2>6, <2>7, Zenon DEF BookInv
<1>12. CASE r.qty # qty
  <2>1. UNCHANGED <<levels, occ, best, free_list, gen, cut>>
    BY <1>8, <1>12, Zenon DEF bookVars, poolVars
  <2>2. Resting' = Resting /\ FreeSlots' = FreeSlots
    BY <2>1, Zenon DEF Resting, FreeSlots, Queued
  <2>3. TypeOK'
    BY <1>1, <1>8, <1>9, <1>10, <2>1, Zenon DEF TypeOK, SameOrders
  <2>4. BestExact'
    BY <1>1, <2>1, ZenonT(40) DEF BestExact, SideOK
  <2>5. OneOwner'
    <3>1. ASSUME NEW c \in Books, NEW sd \in Sides, NEW j \in Idx
          PROVE  Placed(c, sd, j)'
      <4>1. Placed(c, sd, j) /\ Queued(c, sd, j) \subseteq Slots
        BY <1>1, QueuedAreSlots, Zenon DEF OneOwner
      <4>2. levels' = levels /\ Queued(c, sd, j)' = Queued(c, sd, j)
        BY <2>1, Zenon DEF Queued
      <4>3. \A s \in Slots : /\ slots'[s].symbol = slots[s].symbol
                             /\ slots'[s].side = slots[s].side
                             /\ LevelOf(s)' = LevelOf(s)
        BY <1>9, Zenon DEF SameOrders, SamePlaces, LevelOf
      <4>4. QED
        BY <4>1, <4>2, <4>3, Zenon DEF Placed
    <3>2. QED
      BY <1>1, <1>8, <2>1, <2>2, <3>1, Zenon DEF OneOwner
  <2>6. RestingIsLive'
    <3>1. r.qty - qty > 0
      BY <1>7, <1>12
    <3>2. \A t \in Resting : t \in Slots /\ t # agg
      BY <1>1, Zenon DEF OneOwner, Resting
    <3>3. QED
      BY <1>1, <1>9, <2>2, <3>1, <3>2, Zenon DEF RestingIsLive, SameOrders
  <2>7. ArrivalOrder' /\ Uncrossed'
    BY <1>1, <1>8, <1>9, <2>1, <2>2, FewerResting, Zenon
  <2>8. GenBound'
    BY <1>1, <1>8, <2>1, <2>2, Zenon DEF GenBound
  <2>9. HandlesExact'
    <3>1. \A x \in issued : x.slot \in Slots
      BY <1>1, Zenon DEF TypeOK
    <3>2. \A s \in Slots : slots'[s].order_id = slots[s].order_id
      BY <1>9, Zenon DEF SameOrders
    <3>3. issued' = issued /\ gen' = gen
      BY <1>8, <2>1, Zenon
    <3>4. QED
      BY <1>1, <2>2, <3>1, <3>2, <3>3, Zenon DEF HandlesExact
  <2>10. QED
    BY <2>3, <2>4, <2>5, <2>6, <2>7, <2>8, <2>9, Zenon DEF BookInv
<1>13. QED
  BY <1>11, <1>12, Zenon

\* cancel_order takes the slot s out of its level.
Leaves(b, side, i, s) ==
  /\ b \in Books /\ side \in Sides /\ i \in Idx /\ s \in Slots /\ s \in Resting
  /\ levels[b][side][i] \in Seq(Slots) /\ levels[b][side][i] # <<>>
  /\ SlotLeaves(b, side, i, RemoveSlot(levels[b][side][i], s), s)
  /\ SameOrders

\* A cancel with a live handle takes its order out of the level it rests in.
LEMMA CancelLeaves ==
  ASSUME BookInv, NEW h, CancelLive(h)
  PROVE  \E b, side, i : Leaves(b, side, i, h.slot)
<1> DEFINE s     == h.slot
           o     == slots[s]
           b     == o.symbol
           side  == o.side
           i     == LevelOf(s)
           level == levels[b][side][i]
           q     == RemoveSlot(level, s)
<1>1. /\ TypeOK /\ BestExact /\ OneOwner /\ RestingIsLive /\ ArrivalOrder
      /\ GenBound /\ HandlesExact /\ Uncrossed
  BY Zenon DEF BookInv
<1>2. /\ LevelShrunk(b, side, i, q)
      /\ free(s)
      /\ cut' = cut \ {s}
      /\ UNCHANGED <<slots, order_session, agg, fills, ret, next_id, issued, astray>>
  BY Zenon DEF CancelLive
<1>3. s \in Slots /\ s \in Resting
  BY Zenon DEF CancelLive, Resting
<1>4. /\ b \in Books /\ side \in Sides /\ i \in Idx
      /\ s \in Queued(b, side, i)
      /\ level \in Seq(Slots) /\ IsInjective(level)
  <2>1. PICK c \in Books, sd \in Sides, j \in Idx : s \in Queued(c, sd, j)
    BY <1>3, Zenon DEF Resting
  <2>2. Placed(c, sd, j)
    BY <1>1, Zenon DEF OneOwner
  <2>3. c = b /\ sd = side /\ j = i
    BY <2>1, <2>2, Zenon DEF Placed
  <2>4. levels[c][sd][j] \in Seq(Slots)
    BY <1>1 DEF TypeOK
  <2>5. QED
    BY <2>1, <2>2, <2>3, <2>4, Zenon DEF Placed
<1>5. level # <<>>
  <2>1. PICK k \in DOMAIN level : level[k] = s
    BY <1>4, Zenon DEF Queued, Range
  <2>2. k \in 1 .. Len(level) /\ Len(<<>>) = 0
    BY <1>4, <2>1, SeqLen, Zenon
  <2> HIDE DEF level
  <2>3. QED
    BY <2>2
<1>6. q \in Seq(Slots) /\ IsInjective(q) /\ Range(q) = Queued(b, side, i) \ {s}
  BY <1>4, RemoveSlotFromLevel, Zenon DEF Queued
<1> HIDE DEF q
<1>7. SameOrders
  BY <1>1, <1>2, Zenon DEF SameOrders, SamePlaces, TypeOK
<1>8. SlotLeaves(b, side, i, q, s)
  BY <1>2, <1>4, <1>6, <1>7, Zenon DEF SlotLeaves, SameOrders
<1>9. Leaves(b, side, i, s)
  BY <1>3, <1>4, <1>5, <1>7, <1>8, Zenon DEF Leaves, q
<1>10. QED
  BY <1>9, Zenon

\* cancel_order of a live handle keeps the invariant.
LEMMA CancelLiveInv ==
  ASSUME NatWellOrdered, NoGenWrap, BookInv, NEW h, CancelLive(h)
  PROVE  BookInv'
<1> DEFINE s == h.slot
<1>1. /\ TypeOK /\ BestExact /\ OneOwner /\ RestingIsLive /\ ArrivalOrder
      /\ GenBound /\ HandlesExact /\ Uncrossed
  BY Zenon DEF BookInv
<1>2. /\ cut' = cut \ {s}
      /\ UNCHANGED <<slots, order_session, agg, fills, ret, next_id, issued, astray>>
  BY Zenon DEF CancelLive
<1>3. PICK b, side, i : Leaves(b, side, i, s)
  BY CancelLeaves, Zenon
<1> DEFINE level == levels[b][side][i]
           q == RemoveSlot(level, s)
<1>4. /\ b \in Books /\ side \in Sides /\ i \in Idx /\ s \in Slots /\ s \in Resting
      /\ level \in Seq(Slots) /\ level # <<>> /\ SameOrders
      /\ SlotLeaves(b, side, i, q, s)
  BY <1>3, Zenon DEF Leaves
<1> HIDE DEF q
<1>5. q \in Seq(Slots) /\ LevelShrunk(b, side, i, q) /\ free(s)
  BY <1>4, Zenon DEF SlotLeaves
<1>9. /\ Resting' = Resting \ {s}
      /\ FreeSlots' = FreeSlots \cup {s}
      /\ free_list' \in Seq(Slots)
      /\ OneOwner'
  BY <1>1, <1>4, ShrinkKeepsOwnership, Zenon
<1>10. BestExact'
  BY <1>1, <1>4, <1>5, ShrinkKeepsBest, Zenon
<1>11. s \notin FreeSlots
  BY <1>1, <1>4, Zenon DEF OneOwner
<1>12. gen' \in [Slots -> 0 .. GEN_MOD - 1] /\ GenBound' /\ HandlesExact'
  BY <1>1, <1>2, <1>4, <1>5, <1>9, <1>11, FreeKeepsHandles, Zenon DEF SameOrders
<1>13. ArrivalOrder' /\ Uncrossed'
  BY <1>1, <1>2, <1>4, <1>9, FewerResting, Zenon
<1>14. RestingIsLive'
  BY <1>1, <1>2, <1>9, Zenon DEF RestingIsLive
<1>15. /\ levels' \in [Books -> [Sides -> [Idx -> Seq(Slots)]]]
       /\ occ' \in [Books -> [Sides -> SUBSET Idx]]
       /\ best' \in [Books -> [Sides -> Idx \cup {NULL_IDX}]]
  BY <1>1, <1>4, <1>5, ShrinkTypes, Zenon
<1>16. TypeOK'
  BY <1>1, <1>2, <1>9, <1>12, <1>15, Zenon DEF TypeOK
<1>17. QED
  BY <1>9, <1>10, <1>12, <1>13, <1>14, <1>16, Zenon DEF BookInv

\* add_order giving back the slot of a filled or IOC order keeps the invariant.
LEMMA DiscardInv ==
  ASSUME NoGenWrap, BookInv, Discard
  PROVE  BookInv'
<1>1. /\ TypeOK /\ BestExact /\ OneOwner /\ RestingIsLive /\ ArrivalOrder
      /\ GenBound /\ HandlesExact /\ Uncrossed
  BY Zenon DEF BookInv
<1>2. /\ agg # NULL_IDX /\ free(agg) /\ agg' = NULL_IDX /\ ret' = InvalidHandle
      /\ UNCHANGED <<slots, order_session, levels, occ, best, fills, next_id, issued, cut, astray>>
  BY Zenon DEF Discard, Idle, bookVars
<1>3. agg \in Slots /\ agg \notin FreeSlots /\ agg \notin Resting
  BY <1>1, <1>2, Zenon DEF TypeOK, OneOwner
<1>4. Resting' = Resting
  BY <1>2, Zenon DEF Resting, Queued
<1>5. /\ free_list' \in Seq(Slots)
      /\ IsInjective(free_list')
      /\ FreeSlots' = FreeSlots \cup {agg}
  <2>1. free_list \in Seq(Slots) /\ IsInjective(free_list)
    BY <1>1, Zenon DEF TypeOK, OneOwner
  <2>2. QED
    BY <1>2, <1>3, <2>1, AppendSlot, Zenon DEF FreeSlots, free
<1>6. gen' \in [Slots -> 0 .. GEN_MOD - 1] /\ GenBound' /\ HandlesExact'
  <2>1. Resting' = Resting \ {agg}
    BY <1>3, <1>4, Zenon
  <2>2. QED
    BY <1>1, <1>2, <1>3, <1>5, <2>1, FreeKeepsHandles, Zenon
<1>7. OneOwner'
  <2>1. NULL_IDX \notin Slots
    BY SizesAssumption DEF Slots
  <2>2. \A c \in Books, sd \in Sides, j \in Idx : Placed(c, sd, j)'
    BY <1>1, <1>2, LevelKeeps, Zenon DEF OneOwner
  <2>3. FreeSlots' \subseteq Slots /\ Resting' \subseteq Slots
    BY <1>1, <1>3, <1>4, <1>5, QueuedAreSlots, Zenon DEF Resting
  <2>4. /\ \A t \in Slots : t \in FreeSlots' \/ t \in Resting' \/ t = agg'
        /\ \A t \in FreeSlots' : t \notin Resting'
    BY <1>1, <1>3, <1>4, <1>5, Zenon DEF OneOwner
  <2>5. agg' \notin FreeSlots' /\ agg' \notin Resting'
    BY <1>2, <2>1, <2>3, Zenon
  <2>6. QED
    BY <1>5, <2>2, <2>4, <2>5, Zenon DEF OneOwner
<1>8. TypeOK'
  <2>1. ret' \in OrderHandle
    BY <1>2, BookAssumption DEF InvalidHandle, OrderHandle
  <2>2. QED
    BY <1>1, <1>2, <1>5, <1>6, <2>1, Zenon DEF TypeOK
<1>9. BestExact' /\ RestingIsLive' /\ Uncrossed'
  BY <1>1, <1>2, <1>4, BestKeeps, RestingKeeps, Zenon
<1>10. ArrivalOrder'
  BY <1>1, <1>2, <1>4, Zenon DEF ArrivalOrder, Idle
<1>11. QED
  BY <1>6, <1>7, <1>8, <1>9, <1>10, Zenon DEF BookInv

\* add_order refusing an order keeps the invariant.
LEMMA AddRefusedInv ==
  ASSUME BookInv, NEW price \in Prices, AddRefused(price)
  PROVE  BookInv'
<1>1. /\ TypeOK /\ BestExact /\ OneOwner /\ RestingIsLive /\ ArrivalOrder
      /\ GenBound /\ HandlesExact /\ Uncrossed
  BY Zenon DEF BookInv
<1>2. /\ Idle /\ next_id < MAX_ADDS /\ next_id' = next_id + 1
      /\ fills' = <<>> /\ ret' = InvalidHandle
      /\ UNCHANGED <<free_list, gen, slots, order_session, levels, occ, best, agg, issued, cut, astray>>
  BY Zenon DEF AddRefused, poolVars, bookVars
<1>3. Resting' = Resting /\ FreeSlots' = FreeSlots
  BY <1>2, Zenon DEF Resting, Queued, FreeSlots
<1>4. TypeOK'
  <2>1. ret' \in OrderHandle /\ fills' \in Seq(Fill)
    BY <1>2, BookAssumption DEF InvalidHandle, OrderHandle
  <2>2. QED
    BY <1>1, <1>2, <2>1 DEF TypeOK
<1>5. BestExact' /\ RestingIsLive' /\ Uncrossed' /\ HandlesExact'
  <2>1. BestExact' /\ RestingIsLive' /\ Uncrossed'
    BY <1>1, <1>2, <1>3, BestKeeps, RestingKeeps, Zenon
  <2>2. HandlesExact'
    BY <1>1, <1>2, <1>3, Zenon DEF HandlesExact
  <2>3. QED
    BY <2>1, <2>2, Zenon
<1>6. OneOwner'
  <2>1. \A c \in Books, sd \in Sides, j \in Idx : Placed(c, sd, j)'
    BY <1>1, <1>2, LevelKeeps, Zenon DEF OneOwner
  <2>2. QED
    BY <1>1, <1>2, <1>3, <2>1, Zenon DEF OneOwner
<1>7. next_id \in Nat /\ MAX_ADDS \in Nat
  BY <1>1, BookAssumption, Zenon DEF TypeOK
<1>8. ArrivalOrder'
  <2>1. \A s \in Resting : slots[s].order_id \in Nat
    BY <1>1, Zenon DEF Resting, TypeOK, Order
  <2>2. QED
    BY <1>1, <1>2, <1>3, <1>7, <2>1 DEF ArrivalOrder, Idle
<1>9. GenBound'
  <2>1. \A s \in Slots : gen[s] \in Int
    BY <1>1 DEF TypeOK
  <2>2. QED
    BY <1>1, <1>2, <1>3, <1>7, <2>1 DEF GenBound
<1>10. QED
  BY <1>4, <1>5, <1>6, <1>8, <1>9, Zenon DEF BookInv

\* add_order taking a slot for a new order keeps the invariant.
LEMMA AddAcceptedInv ==
  ASSUME BookInv, NEW b \in Books, NEW side \in Sides, NEW price \in Prices,
         NEW qty \in Quantities, NEW tif \in TimeInForce, NEW session \in Sessions,
         AddAccepted(b, side, price, qty, tif, session)
  PROVE  BookInv'
<1> DEFINE slot == Top(free_list)
           o == [order_id |-> next_id + 1, price |-> price, qty |-> qty,
                 symbol |-> b, side |-> side, tif |-> tif]
<1>1. /\ TypeOK /\ BestExact /\ OneOwner /\ RestingIsLive /\ ArrivalOrder
      /\ GenBound /\ HandlesExact /\ Uncrossed
  BY Zenon DEF BookInv
<1>2. /\ agg = NULL_IDX /\ next_id < MAX_ADDS /\ InLadder(price) /\ free_list # <<>>
      /\ free_list' = Below(free_list)
      /\ slots' = [slots EXCEPT ![slot] = o]
      /\ order_session' = [order_session EXCEPT ![slot] = session]
      /\ agg' = slot
      /\ next_id' = next_id + 1
      /\ fills' = <<>>
      /\ UNCHANGED <<gen, levels, occ, best, ret, issued, cut, astray>>
  BY Zenon DEF AddAccepted, Idle, bookVars
<1>3. next_id \in Nat /\ MAX_ADDS \in Nat /\ o \in Order
  <2>1. next_id \in Nat /\ MAX_ADDS \in Nat
    BY <1>1, BookAssumption, Zenon DEF TypeOK
  <2>2. next_id + 1 \in Nat /\ price \in Int /\ qty \in Nat
    BY <2>1, BookAssumption
  <2>3. QED
    BY <2>1, <2>2, Zenon DEF Order
<1>4. /\ slot \in Slots /\ slot \in FreeSlots
      /\ free_list' \in Seq(Slots) /\ IsInjective(free_list')
      /\ FreeSlots' = FreeSlots \ {slot}
  <2>1. free_list \in Seq(Slots) /\ IsInjective(free_list)
    BY <1>1, Zenon DEF TypeOK, OneOwner
  <2>2. QED
    BY <1>2, <2>1, TakeTop, Zenon DEF FreeSlots
<1> HIDE DEF slot
<1>5. slot \notin Resting
  BY <1>1, <1>4, Zenon DEF OneOwner
<1>6. Resting' = Resting
  BY <1>2, Zenon DEF Resting, Queued
<1>7. /\ slots' \in [Slots -> Order]
      /\ slots'[slot] = o
      /\ \A t \in Resting : slots'[t] = slots[t]
  BY <1>1, <1>2, <1>3, <1>4, <1>5, Zenon DEF TypeOK, Resting
<1>8. TypeOK'
  <2>1. fills' \in Seq(Fill)
    BY <1>2
  <2>2. order_session' \in [Slots -> Sessions]
    BY <1>1, <1>2, Zenon DEF TypeOK
  <2>3. agg' \in Slots \cup {NULL_IDX} /\ next_id' \in Nat
    BY <1>2, <1>3, <1>4, SMTT(20)
  <2>4. QED
    BY <1>1, <1>2, <1>4, <1>7, <2>1, <2>2, <2>3, Zenon DEF TypeOK
<1>9. BestExact'
  BY <1>1, <1>2, BestKeeps, Zenon
<1>10. OneOwner'
  <2>1. ASSUME NEW c \in Books, NEW sd \in Sides, NEW j \in Idx
        PROVE  Placed(c, sd, j)'
    <3>1. Placed(c, sd, j) /\ Queued(c, sd, j)' = Queued(c, sd, j)
      BY <1>1, <1>2, Zenon DEF OneOwner, Queued
    <3>2. Queued(c, sd, j) \subseteq Resting
      BY <1>1, QueuedAreSlots, Zenon DEF Resting
    <3>3. QED
      BY <1>2, <1>7, <3>1, <3>2, Zenon DEF Placed, LevelOf
  <2>2. /\ \A t \in Slots : t \in FreeSlots' \/ t \in Resting' \/ t = agg'
        /\ \A t \in FreeSlots' : t \notin Resting'
        /\ agg' \notin FreeSlots' /\ agg' \notin Resting'
    <3>1. /\ \A t \in Slots : t \in FreeSlots \/ t \in Resting
          /\ \A t \in FreeSlots : t \notin Resting
      <4>1. NULL_IDX \notin Slots
        BY SizesAssumption DEF Slots
      <4>2. QED
        BY <1>1, <1>2, <4>1, Zenon DEF OneOwner
    <3>2. QED
      BY <1>2, <1>4, <1>5, <1>6, <3>1, Zenon
  <2>3. QED
    BY <1>4, <2>1, <2>2, Zenon DEF OneOwner
<1>11. RestingIsLive' /\ Uncrossed'
  BY <1>1, <1>2, <1>6, <1>7, RestingKeeps, Zenon
<1>12. ArrivalOrder'
  <2>1. \A s \in Resting : slots[s].order_id \in Nat /\ slots[s].order_id <= next_id
    BY <1>1, Zenon DEF Resting, TypeOK, Order, ArrivalOrder
  <2>2. next_id' = next_id + 1 /\ next_id < MAX_ADDS /\ next_id \in Nat /\ MAX_ADDS \in Nat
    BY <1>2, <1>3, Zenon
  <2>3. next_id' <= MAX_ADDS
    BY <2>2
  <2>4. \A s \in Resting : slots[s].order_id < next_id' /\ slots[s].order_id <= next_id'
    BY <2>1, <2>2
  <2>5. \A s \in Resting' : slots'[s].order_id < next_id' /\ slots'[s].order_id <= next_id'
    BY <1>6, <1>7, <2>4, Zenon
  <2>6. slots'[agg'].order_id = next_id' /\ slots'[agg'].price = price /\ slots'[agg'].symbol = b
    BY <1>2, <1>7, SMTT(20)
  <2>7. QED
    BY <1>2, <2>3, <2>5, <2>6, Zenon DEF ArrivalOrder, InLadder
<1>13. GenBound'
  <2>1. \A s \in Slots : gen[s] \in Int /\ gen[s] <= next_id
    BY <1>1 DEF TypeOK, GenBound
  <2>2. \A s \in Slots : gen[s] <= next_id + 1 /\ gen[s] < next_id + 1
    BY <1>3, <2>1, SMTT(20)
  <2>3. QED
    BY <1>1, <1>2, <2>2, Zenon DEF GenBound
<1>14. HandlesExact'
  BY <1>1, <1>2, <1>6, <1>7, Zenon DEF HandlesExact
<1>15. QED
  BY <1>8, <1>9, <1>10, <1>11, <1>12, <1>13, <1>14, Zenon DEF BookInv

\* add_order resting the remainder keeps the invariant: it becomes the best of
\* its side or not, and crosses a resting order only if matching was cut.
LEMMA RestInv ==
  ASSUME BookInv, Rest
  PROVE  BookInv'
<1> DEFINE o    == slots[agg]
           b    == o.symbol
           side == o.side
           i    == LevelOf(agg)
           p    == best[b][side]
           h    == [slot |-> agg, gen |-> gen[agg], id |-> o.order_id]
<1>1. /\ TypeOK /\ BestExact /\ OneOwner /\ RestingIsLive /\ ArrivalOrder
      /\ GenBound /\ HandlesExact /\ Uncrossed
  BY Zenon DEF BookInv
<1>2. /\ agg # NULL_IDX /\ MatchDone /\ o.qty > 0 /\ o.tif # "IOC"
      /\ levels' = [levels EXCEPT ![b][side][i] = PushBack(@, agg)]
      /\ occ' = [occ EXCEPT ![b][side] = @ \cup {i}]
      /\ best' = [best EXCEPT ![b][side] =
                    IF @ = NULL_IDX \/ Better(side, i, @) THEN i ELSE @]
      /\ ret' = [slot |-> agg, gen |-> gen[agg]]
      /\ issued' = issued \cup {h}
      /\ cut' = IF Marketable THEN cut \cup {agg} ELSE cut
      /\ agg' = NULL_IDX
      /\ UNCHANGED <<free_list, gen, slots, order_session, fills, next_id, astray>>
  BY Zenon DEF Rest, Idle, poolVars
<1>3. /\ agg \in Slots /\ o \in Order /\ b \in Books /\ side \in Sides /\ i \in Idx
      /\ o.tif = "GTC" /\ agg \notin FreeSlots /\ agg \notin Resting
  <2>1. agg \in Slots /\ agg \notin FreeSlots /\ agg \notin Resting
    BY <1>1, <1>2, Zenon DEF TypeOK, OneOwner
  <2>2. o \in Order
    BY <1>1, <2>1, Zenon DEF TypeOK
  <2>3. i \in Idx /\ b \in Books
    BY <1>1, <1>2, Zenon DEF ArrivalOrder, Idle, InLadder, LevelOf
  <2>4. QED
    BY <1>2, <2>1, <2>2, <2>3, Zenon DEF Order, TimeInForce
<1> HIDE DEF i
<1>4. levels[b][side][i] \in Seq(Slots) /\ IsInjective(levels[b][side][i])
  <2>1. \A c \in Books, sd \in Sides, j \in Idx :
          levels[c][sd][j] \in Seq(Slots) /\ Placed(c, sd, j)
    BY <1>1 DEF TypeOK, OneOwner
  <2>2. QED
    BY <1>3, <2>1, Zenon DEF Placed
<1>5. agg \notin Queued(b, side, i)
  BY <1>3, Zenon DEF Resting
<1> DEFINE q == Append(levels[b][side][i], agg)
<1>6. /\ q \in Seq(Slots) /\ q # <<>> /\ IsInjective(q)
      /\ Range(q) = Queued(b, side, i) \cup {agg}
  BY <1>3, <1>4, <1>5, AppendSlot, Zenon DEF Queued
<1> HIDE DEF q
<1>7. LevelSet(b, side, i, q)
  <2>1. levels' = [levels EXCEPT ![b][side][i] = q]
    BY <1>1, <1>2, <1>3, Zenon DEF q, PushBack, TypeOK
  <2> HIDE DEF b, side
  <2>2. QED
    BY <1>1, <1>3, <1>6, <2>1, LevelPointwise, Zenon
<1>8. /\ occ' \in [Books -> [Sides -> SUBSET Idx]]
      /\ occ'[b][side] = occ[b][side] \cup {i}
      /\ \A c \in Books, sd \in Sides : ~(c = b /\ sd = side) => occ'[c][sd] = occ[c][sd]
  <2>1. occ \in [Books -> [Sides -> SUBSET Idx]]
    BY <1>1, Zenon DEF TypeOK
  <2> HIDE DEF b, side
  <2>2. QED
    BY <1>2, <1>3, <2>1, Zenon
<1>9. /\ best' \in [Books -> [Sides -> Idx \cup {NULL_IDX}]]
      /\ best'[b][side] = IF p = NULL_IDX \/ Better(side, i, p) THEN i ELSE p
      /\ \A c \in Books, sd \in Sides : ~(c = b /\ sd = side) => best'[c][sd] = best[c][sd]
  <2>1. best \in [Books -> [Sides -> Idx \cup {NULL_IDX}]]
    BY <1>1, Zenon DEF TypeOK
  <2> HIDE DEF b, side
  <2>2. QED
    BY <1>2, <1>3, <2>1, Zenon
<1> HIDE DEF b, side
<1>10. ASSUME NEW c \in Books, NEW sd \in Sides, NEW j \in Idx
       PROVE  /\ Queued(c, sd, j)' = IF c = b /\ sd = side /\ j = i
                                     THEN Queued(c, sd, j) \cup {agg}
                                     ELSE Queued(c, sd, j)
              /\ Placed(c, sd, j)'
  <2>1. Placed(c, sd, j)
    BY <1>1, Zenon DEF OneOwner
  <2>2. slots' = slots
    BY <1>2, Zenon
  <2>3. CASE c = b /\ sd = side /\ j = i
    <3>1. Queued(c, sd, j)' = Queued(c, sd, j) \cup {agg} /\ IsInjective(levels'[c][sd][j])
      BY <1>6, <1>7, <2>3, Zenon DEF Queued, LevelSet
    <3>2. slots[agg].symbol = c /\ slots[agg].side = sd /\ LevelOf(agg) = j
      BY <2>3, Zenon DEF b, side, i
    <3>3. QED
      BY <2>1, <2>2, <2>3, <3>1, <3>2, Zenon DEF Placed, LevelOf
  <2>4. CASE ~(c = b /\ sd = side /\ j = i)
    <3>1. levels'[c][sd][j] = levels[c][sd][j]
      BY <1>7, <2>4, Zenon DEF LevelSet
    <3>2. QED
      BY <2>1, <2>2, <2>4, <3>1, LevelKeeps, Zenon
  <2>5. QED
    BY <2>3, <2>4, Zenon
<1>11. Resting' = Resting \cup {agg} /\ FreeSlots' = FreeSlots
  <2>1. Resting' = Resting \cup {agg}
    <3>1. \A c \in Books, sd \in Sides, j \in Idx, s \in Slots :
            s \in Queued(c, sd, j)'
              <=> s \in Queued(c, sd, j) \/ (s = agg /\ c = b /\ sd = side /\ j = i)
      BY <1>10
    <3>2. ASSUME NEW s \in Slots
          PROVE  s \in Resting' <=> s \in Resting \/ s = agg
      <4>1. s \in Resting' => s \in Resting \/ s = agg
        BY <3>1, Zenon DEF Resting
      <4>2. s \in Resting => s \in Resting'
        BY <3>1, Zenon DEF Resting
      <4>3. agg \in Resting'
        BY <1>3, <3>1, Zenon DEF Resting
      <4>4. QED
        BY <4>1, <4>2, <4>3, Zenon
    <3>3. Resting \subseteq Slots /\ Resting' \subseteq Slots
      BY Zenon DEF Resting
    <3>4. QED
      BY <1>3, <3>2, <3>3, Zenon
  <2>2. QED
    BY <1>2, <2>1, Zenon DEF FreeSlots
<1>12. OneOwner'
  <2>1. agg' \notin FreeSlots' /\ agg' \notin Resting'
    <3>1. NULL_IDX \notin Slots
      BY SizesAssumption DEF Slots
    <3>2. FreeSlots' \subseteq Slots /\ Resting' \subseteq Slots
      BY <1>1, <1>3, <1>11, QueuedAreSlots, Zenon DEF Resting
    <3>3. QED
      BY <1>2, <3>1, <3>2, Zenon
  <2>2. /\ \A t \in Slots : t \in FreeSlots' \/ t \in Resting' \/ t = agg'
        /\ \A t \in FreeSlots' : t \notin Resting'
    BY <1>1, <1>3, <1>11, Zenon DEF OneOwner
  <2>3. IsInjective(free_list')
    BY <1>1, <1>2, Zenon DEF OneOwner
  <2>4. QED
    BY <1>10, <2>1, <2>2, <2>3, Zenon DEF OneOwner
<1>13. BestExact'
  <2>1. ASSUME NEW c \in Books, NEW sd \in Sides, ~(c = b /\ sd = side)
        PROVE  SideOK(c, sd)'
    <3>1. SideOK(c, sd) /\ \A j \in Idx : levels'[c][sd][j] = levels[c][sd][j]
      BY <1>1, <1>7, <2>1, Zenon DEF BestExact, LevelSet
    <3>2. occ'[c][sd] = occ[c][sd] /\ best'[c][sd] = best[c][sd]
      BY <1>8, <1>9, <2>1, Zenon
    <3>3. QED
      BY <3>1, <3>2, Zenon DEF SideOK
  <2>2. ASSUME NEW c \in Books, NEW sd \in Sides, c = b /\ sd = side
        PROVE  SideOK(c, sd)'
    <3>1. /\ occ[b][side] = {j \in Idx : levels[b][side][j] # <<>>}
          /\ IsBest(side, occ[b][side], p)
      BY <1>1, <1>3, Zenon DEF BestExact, SideOK
    <3>2. occ'[b][side] = {j \in Idx : levels'[b][side][j] # <<>>}
      <4>1. \A j \in Idx : j # i => levels'[b][side][j] = levels[b][side][j]
        BY <1>3, <1>7, Zenon DEF LevelSet
      <4>2. levels'[b][side][i] # <<>>
        BY <1>6, <1>7, Zenon DEF LevelSet
      <4>3. QED
        BY <1>3, <1>8, <3>1, <4>1, <4>2, Zenon
    <3>3. IsBest(side, occ[b][side] \cup {i}, best'[b][side])
      <4>1. i \in Int /\ i # NULL_IDX /\ \A j \in occ[b][side] : j \in Int
        BY <1>3, <3>1, SizesAssumption DEF Idx
      <4>2. p # NULL_IDX => p \in Int
        BY <3>1, <4>1, Zenon DEF IsBest
      <4> HIDE DEF p
      <4>3. CASE p = NULL_IDX \/ Better(side, i, p)
        <5>1. best'[b][side] = i
          BY <1>9, <4>3, Zenon
        <5>2. \A j \in occ[b][side] \cup {i} : ~Better(side, j, i)
          <6>1. CASE p = NULL_IDX
            BY <3>1, <4>1, <6>1 DEF IsBest, Better
          <6>2. CASE p # NULL_IDX
            <7>1. p \in Int /\ Better(side, i, p)
                  /\ \A j \in occ[b][side] : ~Better(side, j, p)
              BY <3>1, <4>2, <4>3, <6>2, Zenon DEF IsBest
            <7>2. QED
              BY <4>1, <7>1 DEF Better
          <6>3. QED
            BY <6>1, <6>2, Zenon
        <5>3. QED
          BY <4>1, <5>1, <5>2, Zenon DEF IsBest
      <4>4. CASE ~(p = NULL_IDX \/ Better(side, i, p))
        <5>1. best'[b][side] = p
          BY <1>9, <4>4, Zenon
        <5>2. QED
          BY <3>1, <4>4, <5>1, Zenon DEF IsBest
      <4>5. QED
        BY <4>3, <4>4, Zenon
    <3>4. QED
      BY <1>8, <2>2, <3>2, <3>3, Zenon DEF SideOK
  <2>3. QED
    BY <2>1, <2>2, Zenon DEF BestExact
<1>14. TypeOK'
  <2>1. gen[agg] \in 0 .. GEN_MOD - 1 /\ o.order_id \in Nat
    <3>1. gen[agg] \in 0 .. GEN_MOD - 1 /\ o \in Order
      BY <1>1, <1>3, Zenon DEF TypeOK
    <3> HIDE DEF o
    <3>2. o.order_id \in Nat
      BY <3>1, Zenon DEF Order
    <3>3. QED
      BY <3>1, <3>2, Zenon
  <2>2. ret' \in OrderHandle
    BY <1>2, <1>3, <2>1, Zenon DEF OrderHandle
  <2>3. issued' \subseteq [slot : Slots, gen : 0 .. GEN_MOD - 1, id : Nat]
    <3>1. h \in [slot : Slots, gen : 0 .. GEN_MOD - 1, id : Nat]
      BY <1>3, <2>1, Zenon
    <3> HIDE DEF h
    <3>2. QED
      BY <1>1, <1>2, <3>1, Zenon DEF TypeOK
  <2>4. cut' \subseteq Slots
    BY <1>1, <1>2, <1>3, Zenon DEF TypeOK
  <2>5. levels' \in [Books -> [Sides -> [Idx -> Seq(Slots)]]]
    BY <1>7, Zenon DEF LevelSet
  <2>6. QED
    BY <1>1, <1>2, <1>8, <1>9, <2>2, <2>3, <2>4, <2>5, Zenon DEF TypeOK
<1>15. RestingIsLive'
  BY <1>1, <1>2, <1>3, <1>11, Zenon DEF RestingIsLive
<1>16. ArrivalOrder'
  <2>1. /\ next_id <= MAX_ADDS /\ o.order_id = next_id
        /\ \A s \in Resting : slots[s].order_id <= next_id
    BY <1>1, <1>2, Zenon DEF ArrivalOrder, Idle
  <2>2. next_id \in Nat
    BY <1>1, Zenon DEF TypeOK
  <2>3. \A s \in Resting \cup {agg} : slots[s].order_id <= next_id
    BY <2>1, <2>2, SMTT(20)
  <2>4. QED
    BY <1>2, <1>11, <2>1, <2>3, Zenon DEF ArrivalOrder, Idle
<1> h.slot = agg /\ h.gen = gen[agg] /\ h.id = slots[agg].order_id
  BY Zenon
<1> HIDE DEF h
<1>17. GenBound'
  <2>1. gen[agg] <= gen[agg]
    <3>1. gen[agg] \in 0 .. GEN_MOD - 1
      BY <1>1, <1>3, Zenon DEF TypeOK
    <3>2. QED
      BY <3>1
  <2>2. QED
    BY <1>1, <1>2, <1>11, <2>1, Zenon DEF GenBound
<1>18. HandlesExact'
  BY <1>1, <1>2, <1>11, Zenon DEF HandlesExact
<1>19. Uncrossed'
  <2>1. ASSUME NEW y \in Resting, slots[y].symbol = b, slots[y].side = Opposite(side),
               Crosses(side, i, LevelOf(y))
        PROVE  agg \in cut'
    <3>1. Marketable
      BY <1>1, <1>2, <1>3, <2>1, CrossingIsMarketable, Zenon DEF b, side, i
    <3>2. QED
      BY <1>2, <3>1, Zenon
  <2>2. \A y \in Resting : slots[y].order_id < slots[agg].order_id
    BY <1>1, <1>2, Zenon DEF ArrivalOrder, Idle
  <2>3. \A y \in Resting \cup {agg} : slots[y].order_id \in Int
    BY <1>1, <1>3, SMTT(30) DEF TypeOK, Order, Resting
  <2>4. \A y \in Slots : slots[y].side \in Sides
    BY <1>1, Zenon DEF TypeOK, Order
  <2>5. SUFFICES ASSUME NEW x \in Resting \cup {agg}, NEW y \in Resting \cup {agg},
                        slots[x].symbol = slots[y].symbol,
                        slots[x].side = "BUY", slots[y].side = "SELL",
                        Crosses("BUY", LevelOf(x), LevelOf(y))
                 PROVE  IF slots[x].order_id > slots[y].order_id
                        THEN x \in cut' ELSE y \in cut'
    BY <1>2, <1>11, SMTT(20) DEF Uncrossed, LevelOf
  <2>6. CASE x \in Resting /\ y \in Resting
    BY <1>1, <1>2, <2>5, <2>6, Zenon DEF Uncrossed
  <2>7. CASE x = agg
    <3>1. y \in Resting /\ slots[y].symbol = b /\ side = "BUY"
      BY <2>5, <2>7, Zenon DEF b, side
    <3>2. slots[y].side = Opposite(side) /\ Crosses(side, i, LevelOf(y))
      BY <2>5, <2>7, <3>1, Zenon DEF Opposite, i
    <3>3. agg \in cut'
      BY <2>1, <3>1, <3>2, Zenon
    <3>4. slots[x].order_id > slots[y].order_id
      BY <2>2, <2>3, <2>7, <3>1, Zenon
    <3>5. QED
      BY <2>7, <3>3, <3>4, Zenon
  <2>8. CASE y = agg
    <3>1. x \in Resting /\ slots[x].symbol = b /\ side = "SELL"
      BY <2>5, <2>8, Zenon DEF b, side
    <3>2. LevelOf(x) \in Int /\ i \in Int
      <4>1. LevelOf(x) \in Idx /\ i \in Idx
        BY <1>1, <1>3, <3>1, RestingPlace, Zenon
      <4>2. QED
        BY <4>1, SizesAssumption DEF Idx
    <3>3. slots[x].side = Opposite(side) /\ Crosses(side, i, LevelOf(x))
      BY <2>5, <2>8, <3>1, <3>2, Zenon DEF Opposite, Crosses, i
    <3>4. agg \in cut'
      BY <2>1, <3>1, <3>3, Zenon
    <3>5. ~(slots[x].order_id > slots[y].order_id)
      BY <2>2, <2>3, <2>8, <3>1
    <3>6. QED
      BY <2>8, <3>4, <3>5, Zenon
  <2>9. QED
    BY <2>6, <2>7, <2>8, Zenon
<1>20. QED
  BY <1>12, <1>13, <1>14, <1>15, <1>16, <1>17, <1>18, <1>19, Zenon DEF BookInv

-----------------------------------------------------------------------------
(* The initial state, and every step                                        *)

\* A newly built shard satisfies the invariant.
LEMMA InitInv == Init => BookInv
<1> SUFFICES ASSUME Init PROVE BookInv
  BY Zenon
<1> USE SizesAssumption, BookAssumption
<1>1. Resting = {}
  BY DEF Init, Resting, Queued, Range
<1>2. /\ free_list \in Seq(Slots) /\ IsInjective(free_list)
      /\ FreeSlots = Slots
  <2>1. free_list = [k \in 1 .. MAX_ORDERS |-> k - 1]
    BY Zenon DEF Init
  <2>2. \A k \in 1 .. MAX_ORDERS : k - 1 \in Slots
    BY DEF Slots
  <2>3. free_list \in Seq(Slots)
    BY <2>1, <2>2
  <2>4. IsInjective(free_list)
    BY <2>1 DEF IsInjective
  <2>5. \A s \in Slots : s + 1 \in 1 .. MAX_ORDERS /\ (s + 1) - 1 = s
    BY DEF Slots
  <2>6. FreeSlots = Slots
    BY <2>1, <2>2, <2>5, Zenon DEF FreeSlots, Range
  <2>7. QED
    BY <2>3, <2>4, <2>6, Zenon
<1>3. TypeOK
  <2>1. ZeroOrder \in Order
    BY SMTT(20) DEF ZeroOrder, Order, Sides, TimeInForce
  <2>2. (CHOOSE x \in Sessions : TRUE) \in Sessions
    BY Zenon
  <2>3. 0 \in 0 .. GEN_MOD - 1 /\ InvalidHandle \in OrderHandle
    BY DEF InvalidHandle, OrderHandle
  <2>4. <<>> \in Seq(Fill) /\ <<>> \in Seq(Slots)
    BY SeqLen
  <2>5. QED
    BY <1>2, <2>1, <2>2, <2>3, <2>4, Zenon DEF Init, TypeOK
<1>4. BestExact
  BY Zenon DEF Init, BestExact, SideOK, IsBest
<1>5. OneOwner
  <2>1. \A b \in Books, side \in Sides, i \in Idx : Placed(b, side, i)
    BY SMTT(20) DEF Init, Placed, Queued, Range, IsInjective
  <2>2. agg \notin Slots
    BY DEF Init, Slots
  <2>3. QED
    BY <1>1, <1>2, <2>1, <2>2, Zenon DEF OneOwner
<1>6. RestingIsLive /\ ArrivalOrder /\ Uncrossed
  <2>1. RestingIsLive /\ Uncrossed
    BY <1>1, Zenon DEF RestingIsLive, Uncrossed
  <2>2. ArrivalOrder
    BY <1>1 DEF ArrivalOrder, Init, Idle
  <2>3. QED
    BY <2>1, <2>2, Zenon
<1>7. GenBound /\ HandlesExact
  <2>1. gen = [s \in Slots |-> 0] /\ next_id = 0 /\ issued = {}
    BY Zenon DEF Init
  <2>2. QED
    BY <1>2, <2>1 DEF GenBound, HandlesExact
<1>8. QED
  BY <1>3, <1>4, <1>5, <1>6, <1>7, Zenon DEF BookInv

\* A step that changes nothing keeps the invariant.
LEMMA StutterInv ==
  ASSUME BookInv, UNCHANGED vars
  PROVE  BookInv'
<1>1. /\ TypeOK /\ BestExact /\ OneOwner /\ RestingIsLive /\ ArrivalOrder
      /\ GenBound /\ HandlesExact /\ Uncrossed
  BY Zenon DEF BookInv
<1>2. UNCHANGED <<free_list, gen, slots, order_session, levels, occ, best, agg, fills,
                  ret, next_id, issued, cut, astray>>
  BY Zenon DEF vars
<1>3. Resting' = Resting /\ FreeSlots' = FreeSlots
  BY <1>2, Zenon DEF Resting, Queued, FreeSlots
<1>4. TypeOK' /\ BestExact'
  <2>1. TypeOK'
    BY <1>1, <1>2, Zenon DEF TypeOK
  <2>2. QED
    BY <1>1, <1>2, <2>1, BestKeeps, Zenon
<1>5. OneOwner'
  <2>1. \A c \in Books, sd \in Sides, j \in Idx : Placed(c, sd, j)'
    BY <1>1, <1>2, LevelKeeps, Zenon DEF OneOwner
  <2>2. QED
    BY <1>1, <1>2, <1>3, <2>1, Zenon DEF OneOwner
<1>6. RestingIsLive' /\ ArrivalOrder'
  BY <1>1, <1>2, <1>3, Zenon DEF RestingIsLive, ArrivalOrder, Idle
<1>7. GenBound' /\ HandlesExact'
  BY <1>1, <1>2, <1>3, Zenon DEF GenBound, HandlesExact
<1>8. Uncrossed'
  BY <1>1, <1>2, <1>3, Zenon DEF Uncrossed, LevelOf
<1>9. QED
  BY <1>4, <1>5, <1>6, <1>7, <1>8, Zenon DEF BookInv

\* A cancel that goes astray keeps the types.
LEMMA AstrayTypes ==
  ASSUME TypeOK, NEW h, CancelAstray(h)
  PROVE  TypeOK'
<1> DEFINE s == h.slot
<1>1. /\ s \in Slots
      /\ gen' = [gen EXCEPT ![s] = (@ + 1) % GEN_MOD]
      /\ free_list' = Append(free_list, s)
      /\ astray' = TRUE
      /\ UNCHANGED <<slots, order_session, levels, occ, best, agg, fills, ret, next_id,
                     issued, cut>>
  BY Zenon DEF CancelAstray, Known, free, bookVars
<1>2. gen' \in [Slots -> 0 .. GEN_MOD - 1]
  <2>1. \A n \in 0 .. GEN_MOD - 1 : (n + 1) % GEN_MOD \in 0 .. GEN_MOD - 1
    BY BookAssumption
  <2>2. gen \in [Slots -> 0 .. GEN_MOD - 1]
    BY Zenon DEF TypeOK
  <2>3. QED
    BY <1>1, <2>1, <2>2, Zenon
<1>3. free_list' \in Seq(Slots)
  BY <1>1 DEF TypeOK
<1>4. QED
  BY <1>1, <1>2, <1>3, Zenon DEF TypeOK

\* Every step of add_order and cancel_order keeps the inductive invariant, up to
\* a cancel that goes astray.
LEMMA NextInv ==
  ASSUME NatWellOrdered, NoGenWrap, BookInv, [Next]_vars
  PROVE  IInv'
<1>0. ASSUME BookInv' PROVE IInv'
  BY <1>0, Zenon DEF IInv, BookInv
<1>1. CASE AddOrder
  <2>1. PICK b \in Books, side \in Sides, price \in Prices, qty \in Quantities,
             tif \in TimeInForce, session \in Sessions :
          \/ AddRefused(price)
          \/ AddAccepted(b, side, price, qty, tif, session)
    BY <1>1, Zenon DEF AddOrder
  <2>2. CASE AddRefused(price)
    BY <2>2, AddRefusedInv, <1>0, Zenon
  <2>3. CASE AddAccepted(b, side, price, qty, tif, session)
    BY <2>3, AddAcceptedInv, <1>0, Zenon
  <2>4. QED
    BY <2>1, <2>2, <2>3, Zenon
<1>2. CASE MatchOne
  BY <1>2, MatchOneInv, <1>0, Zenon
<1>3. CASE Rest
  BY <1>3, RestInv, <1>0, Zenon
<1>4. CASE Discard
  BY <1>4, DiscardInv, <1>0, Zenon
<1>5. CASE CancelOrder
  <2>1. PICK h \in Tokens : CancelRefused(h) \/ CancelLive(h) \/ CancelAstray(h)
    BY <1>5, Zenon DEF CancelOrder
  <2>2. CASE CancelRefused(h)
    BY <2>2, StutterInv, <1>0, Zenon DEF CancelRefused
  <2>3. CASE CancelLive(h)
    BY <2>3, CancelLiveInv, <1>0, Zenon
  <2>4. CASE CancelAstray(h)
    <3>1. TypeOK'
      BY <2>4, AstrayTypes, Zenon DEF BookInv
    <3>2. QED
      BY <2>4, <3>1, Zenon DEF CancelAstray, IInv
  <2>5. QED
    BY <2>1, <2>2, <2>3, <2>4, Zenon
<1>6. CASE UNCHANGED vars
  BY <1>6, StutterInv, <1>0, Zenon
<1>7. QED
  BY <1>1, <1>2, <1>3, <1>4, <1>5, <1>6, Zenon DEF Next

\* After a cancel that went astray the model takes no step.
LEMMA AstrayEnds ==
  ASSUME TypeOK, astray, [Next]_vars
  PROVE  astray' /\ TypeOK'
<1>1. UNCHANGED vars
  BY Zenon DEF Next
<1>2. UNCHANGED <<free_list, gen, slots, order_session, levels, occ, best, agg, fills,
                  ret, next_id, issued, cut, astray>>
  BY <1>1, Zenon DEF vars
<1>3. QED
  BY <1>2, Zenon DEF TypeOK

-----------------------------------------------------------------------------
(* OrderBook implements PriceTimeBook                                       *)

\* The order being added joins the back of its level.
Joins(b, side, i, a) ==
  /\ a \in Slots /\ slots[a] \in Order /\ b = slots[a].symbol /\ b \in Books
  /\ side = slots[a].side /\ side \in Sides /\ i = LevelOf(a) /\ i \in Idx
  /\ slots[a].tif = "GTC" /\ a \notin Resting
  /\ levels[b][side][i] \in Seq(Slots)
  /\ LevelSet(b, side, i, Append(levels[b][side][i], a))
  /\ Resting' = Resting \cup {a}

\* An aggressor that rests joins the level of its price.
LEMMA RestJoins ==
  ASSUME BookInv, Rest, NEW a, a = agg
  PROVE  \E b, side, i : Joins(b, side, i, a)
<1>1. PICK b, side, i : b = slots[a].symbol /\ side = slots[a].side /\ i = LevelOf(a)
  BY Zenon
<1>2. TypeOK /\ OneOwner /\ ArrivalOrder
  BY Zenon DEF BookInv
<1>3. /\ a # NULL_IDX /\ slots[a].tif # "IOC"
      /\ levels' = [levels EXCEPT ![b][side][i] = PushBack(@, a)]
  BY <1>1, Zenon DEF Rest, Idle
<1>4. /\ a \in Slots /\ slots[a] \in Order /\ b \in Books /\ side \in Sides /\ i \in Idx
      /\ slots[a].tif = "GTC" /\ a \notin Resting
  <2>1. a \in Slots /\ a \notin Resting
    BY <1>2, <1>3, Zenon DEF TypeOK, OneOwner
  <2>2. slots[a] \in Order
    BY <1>2, <2>1, Zenon DEF TypeOK
  <2>3. i \in Idx /\ b \in Books
    BY <1>1, <1>2, <1>3, Zenon DEF ArrivalOrder, Idle, InLadder, LevelOf
  <2>4. QED
    BY <1>1, <1>3, <2>1, <2>2, <2>3, Zenon DEF Order, TimeInForce
<1>5. levels[b][side][i] \in Seq(Slots) /\ IsInjective(levels[b][side][i])
  <2>1. \A c \in Books, sd \in Sides, j \in Idx :
          levels[c][sd][j] \in Seq(Slots) /\ Placed(c, sd, j)
    BY <1>2 DEF TypeOK, OneOwner
  <2>2. QED
    BY <1>4, <2>1, Zenon DEF Placed
<1>6. a \notin Queued(b, side, i)
  BY <1>4, Zenon DEF Resting
<1>7. PICK q : q = Append(levels[b][side][i], a)
  BY Zenon
<1>8. q \in Seq(Slots) /\ Range(q) = Queued(b, side, i) \cup {a}
  BY <1>4, <1>5, <1>6, <1>7, AppendSlot, Zenon DEF Queued
<1>9. LevelSet(b, side, i, q)
  <2>1. levels' = [levels EXCEPT ![b][side][i] = q]
    BY <1>2, <1>3, <1>4, <1>7, Zenon DEF PushBack, TypeOK
  <2>2. QED
    BY <1>2, <1>4, <1>8, <2>1, LevelPointwise, Zenon
<1>10. \A c \in Books, sd \in Sides, j \in Idx, s \in Slots :
         s \in Queued(c, sd, j)'
           <=> s \in Queued(c, sd, j) \/ (s = a /\ c = b /\ sd = side /\ j = i)
  BY <1>8, <1>9 DEF Queued, LevelSet
<1>11. Resting' = Resting \cup {a}
  <2>1. ASSUME NEW s \in Slots
        PROVE  s \in Resting' <=> s \in Resting \/ s = a
    <3>1. s \in Resting' => s \in Resting \/ s = a
      BY <1>10, Zenon DEF Resting
    <3>2. s \in Resting => s \in Resting'
      BY <1>10, Zenon DEF Resting
    <3>3. a \in Resting'
      BY <1>4, <1>10, Zenon DEF Resting
    <3>4. QED
      BY <3>1, <3>2, <3>3, Zenon
  <2>2. Resting \subseteq Slots /\ Resting' \subseteq Slots
    BY Zenon DEF Resting
  <2>3. QED
    BY <1>4, <2>1, <2>2, Zenon
<1>12. Joins(b, side, i, a)
  BY <1>1, <1>4, <1>5, <1>7, <1>9, <1>11, Zenon DEF Joins
<1>13. QED
  BY <1>12, Zenon

-----------------------------------------------------------------------------
(* Levels are queued by arrival                                             *)

\* A queue from which one position is dropped is still by arrival.
LEMMA DropsByArrival ==
  ASSUME NEW q \in Seq(Slots), NEW d \in Seq(Slots), NEW k \in 1 .. Len(q), Drops(d, q, k),
         ByArrival(q)
  PROVE  ByArrival(d)
<1> DEFINE n == Len(q)
           up(i) == IF i < k THEN i ELSE i + 1
<1>1. n \in Nat /\ DOMAIN q = 1 .. n /\ DOMAIN d = 1 .. n - 1
  BY SeqLen, Zenon DEF Drops
<1>2. \A i \in 1 .. n - 1 : up(i) \in 1 .. n /\ d[i] = q[up(i)]
  BY <1>1 DEF Drops
<1>3. \A i, j \in 1 .. n - 1 : i < j => up(i) < up(j)
  BY <1>1
<1> HIDE DEF up
<1>4. QED
  BY <1>1, <1>2, <1>3, SMTT(30) DEF ByArrival

\* A queue by arrival stays so when an order later than all of it joins its end.
LEMMA AppendByArrival ==
  ASSUME NEW q \in Seq(Slots), NEW s \in Slots, ByArrival(q),
         \A t \in Range(q) : slots[t].order_id < slots[s].order_id
  PROVE  ByArrival(Append(q, s))
<1> DEFINE n == Len(q)
           a == Append(q, s)
<1>1. n \in Nat /\ DOMAIN q = 1 .. n
  BY SeqLen, Zenon
<1>2. a \in Seq(Slots) /\ Len(a) = n + 1 /\ (\A i \in 1 .. n : a[i] = q[i]) /\ a[n + 1] = s
  BY SeqAppend
<1>3. DOMAIN a = 1 .. n + 1
  BY <1>2, SeqLen, Zenon
<1>4. ASSUME NEW i \in 1 .. n + 1, NEW j \in 1 .. n + 1, i < j
      PROVE  slots[a[i]].order_id < slots[a[j]].order_id
  <2>1. i \in 1 .. n /\ a[i] = q[i]
    BY <1>1, <1>2, <1>4
  <2>2. CASE j \in 1 .. n
    BY <1>1, <1>2, <1>4, <2>1, <2>2, Zenon DEF ByArrival
  <2>3. CASE j = n + 1
    <3>1. q[i] \in Range(q)
      BY <1>1, <2>1, Zenon DEF Range
    <3>2. QED
      BY <1>2, <2>1, <2>3, <3>1, Zenon
  <2>4. QED
    BY <1>1, <2>2, <2>3
<1> HIDE DEF a
<1>5. ByArrival(a)
  BY <1>3, <1>4, Zenon DEF ByArrival
<1>6. QED
  BY <1>5, Zenon DEF a

\* The levels of a ladder are integers.
LEMMA IdxInt == \A i \in Idx : i \in Int
BY SizesAssumption DEF Idx

\* Queues are by arrival after a step when they are by the orders before it and no
\* order that rests changes its id.
LEMMA StillByArrival ==
  ASSUME TypeOK',
         \A t \in Resting' : slots'[t].order_id = slots[t].order_id,
         \A x, y \in Resting' : slots[x].order_id = slots[y].order_id => x = y,
         \A b \in Books, side \in Sides, i \in Idx, q \in Seq(Slots) :
           q = levels'[b][side][i] => ByArrival(q),
         Len(fills') <= MAX_FILLS
  PROVE  QueuedByArrival'
<1>1. ASSUME NEW x \in Resting', NEW y \in Resting', slots'[x].order_id = slots'[y].order_id
      PROVE  x = y
  BY <1>1, Zenon
<1>2. ASSUME NEW b \in Books, NEW side \in Sides, NEW i \in Idx
      PROVE  ByArrival(levels[b][side][i])'
  <2>1. levels'[b][side][i] \in Seq(Slots)
    <3>1. levels' \in [Books -> [Sides -> [Idx -> Seq(Slots)]]]
      BY Zenon DEF TypeOK
    <3>2. QED
      BY <3>1
  <2>2. PICK q \in Seq(Slots) : q = levels'[b][side][i]
    BY <2>1, Zenon
  <2>3. ByArrival(q)
    BY <2>2, Zenon
  <2>4. \A k \in DOMAIN q : q[k] \in Slots
    <3>1. DOMAIN q = 1 .. Len(q)
      BY SeqLen, Zenon
    <3>2. QED
      BY <3>1, SeqLen, Zenon
  <2>5. \A k \in DOMAIN q : q[k] \in Resting'
    <3>1. \A k \in DOMAIN q : q[k] \in Queued(b, side, i)'
      BY <2>2, Zenon DEF Queued, Range
    <3>2. QED
      BY <2>4, <3>1, Zenon DEF Resting
  <2>6. \A k \in DOMAIN q : slots'[q[k]].order_id = slots[q[k]].order_id
    BY <2>5, Zenon
  <2>7. \A j, k \in DOMAIN q : j < k => slots'[q[j]].order_id < slots'[q[k]].order_id
    BY <2>3, <2>6, Zenon DEF ByArrival
  <2>8. QED
    BY <2>2, <2>7, Zenon DEF ByArrival
<1>3. QED
  BY <1>1, <1>2, Zenon DEF QueuedByArrival

\* The order of a free slot may change, and fills be cleared.
LEMMA AddByArrival ==
  ASSUME TypeOK', QueuedByArrival, levels' = levels, fills' = <<>>,
         \A t \in Resting : slots'[t] = slots[t]
  PROVE  QueuedByArrival'
<1>1. Resting' = Resting
  BY Zenon DEF Resting, Queued
<1>2. Len(fills') <= MAX_FILLS
  <2>1. Len(<<>>) = 0 /\ MAX_FILLS \in Nat
    BY SeqLen, BookAssumption, Zenon
  <2>2. QED
    BY <2>1
<1>3. QED
  BY <1>1, <1>2, StillByArrival, Zenon DEF QueuedByArrival

\* Replacing one level by a queue by arrival.
LEMMA LevelByArrival ==
  ASSUME QueuedByArrival, NEW b, NEW side, NEW i, NEW q, LevelSet(b, side, i, q), ByArrival(q)
  PROVE  \A c \in Books, sd \in Sides, j \in Idx, p \in Seq(Slots) :
           p = levels'[c][sd][j] => ByArrival(p)
<1> SUFFICES ASSUME NEW c \in Books, NEW sd \in Sides, NEW j \in Idx, NEW p,
                    p = levels'[c][sd][j]
             PROVE  ByArrival(p)
  BY Zenon
<1>1. CASE c = b /\ sd = side /\ j = i
  <2>1. p = q
    BY <1>1, Zenon DEF LevelSet
  <2>2. QED
    BY <2>1, Zenon
<1>2. CASE ~(c = b /\ sd = side /\ j = i)
  <2>1. p = levels[c][sd][j]
    BY <1>2, Zenon DEF LevelSet
  <2>2. ByArrival(levels[c][sd][j])
    BY Zenon DEF QueuedByArrival
  <2>3. QED
    BY <2>1, <2>2, Zenon
<1>3. QED
  BY <1>1, <1>2, Zenon

\* A slot leaves its level.
LEMMA LeaveByArrival ==
  ASSUME TypeOK', QueuedByArrival, SameOrders, Len(fills') <= MAX_FILLS,
         Resting' \subseteq Resting, NEW b, NEW side, NEW i, NEW q \in Seq(Slots),
         LevelSet(b, side, i, q), ByArrival(q)
  PROVE  QueuedByArrival'
<1>1. \A t \in Resting' : t \in Slots /\ slots'[t].order_id = slots[t].order_id
  BY Zenon DEF Resting, SameOrders
<1>2. \A x, y \in Resting' : slots[x].order_id = slots[y].order_id => x = y
  BY Zenon DEF QueuedByArrival
<1>3. \A c \in Books, sd \in Sides, j \in Idx, p \in Seq(Slots) :
        p = levels'[c][sd][j] => ByArrival(p)
  BY LevelByArrival, Zenon
<1>4. QED
  BY <1>1, <1>2, <1>3, StillByArrival, Zenon

\* A match leaves every queue by arrival: only the head of one of them may go.
LEMMA FillByArrival ==
  ASSUME BookInv, BookInv', QueuedByArrival, MatchOne
  PROVE  QueuedByArrival'
<1>1. PICK b, other, i, s, qty : Fills(b, other, i, s, qty)
  BY MatchOneFills, Zenon
<1>2. PICK level : level = levels[b][other][i]
  BY Zenon
<1>3. /\ b \in Books /\ other \in Sides /\ i \in Idx /\ level # <<>> /\ level \in Seq(Slots)
      /\ PopFront(level) \in Seq(Slots) /\ IsInjective(PopFront(level))
      /\ Range(PopFront(level)) = Queued(b, other, i) \ {s}
      /\ s \in Queued(b, other, i) /\ SameOrders /\ agg' = agg
  BY <1>1, <1>2, Zenon DEF Fills
<1>4. TypeOK /\ OneOwner /\ TypeOK'
  BY Zenon DEF BookInv
<1>5. Len(fills') <= MAX_FILLS
  <2>1. PICK f : fills' = Append(fills, f)
    BY <1>1, Zenon DEF Fills
  <2>2. fills \in Seq(Fill) /\ fills' \in Seq(Fill)
    BY <1>4, Zenon DEF TypeOK
  <2>3. Len(fills') = Len(fills) + 1 /\ Len(fills) \in Nat
    BY <2>1, <2>2, SeqLen
  <2>4. Len(fills) < MAX_FILLS /\ MAX_FILLS \in Nat
    BY BookAssumption, Zenon DEF MatchOne
  <2>5. QED
    BY <2>3, <2>4
<1>6. ByArrival(level)
  BY <1>2, <1>3, Zenon DEF QueuedByArrival
<1>7. CASE slots[s].qty = qty
  <2>1. LevelShrunk(b, other, i, PopFront(level)) /\ free(s)
    BY <1>1, <1>2, <1>7, Zenon DEF Fills
  <2>2. SlotLeaves(b, other, i, PopFront(level), s)
    BY <1>3, <2>1, Zenon DEF SlotLeaves, SameOrders
  <2>3. Resting' = Resting \ {s}
    BY <1>3, <1>4, <2>2, ShrinkKeepsOwnership, Zenon
  <2>4. LevelSet(b, other, i, PopFront(level))
    BY <1>3, <1>4, <2>1, ShrinkPointwise, Zenon DEF ShrinkEffect
  <2>5. ByArrival(PopFront(level))
    <3>1. Len(level) \in Nat /\ Len(level) >= 1 /\ 1 \in 1 .. Len(level)
      BY <1>3, SeqLen
    <3>2. /\ Len(PopFront(level)) = Len(level) - 1
          /\ \A k \in 1 .. Len(level) - 1 : PopFront(level)[k] = level[k + 1]
      BY <1>3, SeqHeadTail, Zenon DEF PopFront
    <3>3. Drops(PopFront(level), level, 1)
      BY <3>1, <3>2 DEF Drops
    <3>4. QED
      BY <1>3, <1>6, <3>1, <3>3, DropsByArrival, Zenon
  <2>6. QED
    BY <1>3, <1>4, <1>5, <2>3, <2>4, <2>5, LeaveByArrival, Zenon
<1>8. CASE slots[s].qty # qty
  <2>1. levels' = levels
    BY <1>1, <1>8, Zenon DEF Fills, bookVars
  <2>2. Resting' = Resting
    BY <2>1, Zenon DEF Resting, Queued
  <2>3. LevelSet(b, other, i, level)
    BY <1>2, <1>4, <2>1, Zenon DEF LevelSet, TypeOK
  <2>4. QED
    BY <1>3, <1>4, <1>5, <1>6, <2>2, <2>3, LeaveByArrival, Zenon
<1>9. QED
  BY <1>7, <1>8, Zenon

\* A cancel leaves every queue by arrival: one order goes from one of them.
LEMMA CancelByArrival ==
  ASSUME BookInv, BookInv', QueuedByArrival, NEW h, CancelLive(h)
  PROVE  QueuedByArrival'
<1>0. PICK s : s = h.slot
  BY Zenon
<1>1. PICK b, side, i : Leaves(b, side, i, s)
  BY <1>0, CancelLeaves, Zenon
<1>2. PICK level : level = levels[b][side][i]
  BY Zenon
<1>3. PICK q : q = RemoveSlot(level, s)
  BY Zenon
<1>4. /\ b \in Books /\ side \in Sides /\ i \in Idx /\ level \in Seq(Slots)
      /\ SlotLeaves(b, side, i, q, s) /\ SameOrders
  BY <1>1, <1>2, <1>3, Zenon DEF Leaves
<1>5. /\ q \in Seq(Slots) /\ LevelShrunk(b, side, i, q) /\ s \in Range(level)
  BY <1>2, <1>4, Zenon DEF SlotLeaves, Queued
<1>6. TypeOK /\ OneOwner /\ TypeOK'
  BY Zenon DEF BookInv
<1>7. Resting' = Resting \ {s}
  BY <1>4, <1>6, ShrinkKeepsOwnership, Zenon
<1>8. LevelSet(b, side, i, q)
  BY <1>4, <1>5, <1>6, ShrinkPointwise, Zenon DEF ShrinkEffect
<1>9. ByArrival(q)
  <2>1. ByArrival(level)
    BY <1>2, <1>4, Zenon DEF QueuedByArrival
  <2>2. PICK k \in 1 .. Len(level) : Drops(q, level, k)
    BY <1>3, <1>4, <1>5, RemoveSlotDrops, Zenon
  <2>3. QED
    BY <1>4, <1>5, <2>1, <2>2, DropsByArrival, Zenon
<1>10. Len(fills') <= MAX_FILLS
  BY Zenon DEF CancelLive, QueuedByArrival
<1>11. QED
  BY <1>4, <1>5, <1>6, <1>7, <1>8, <1>9, <1>10, LeaveByArrival, Zenon

\* An order that rests leaves every queue by arrival: it is the latest of all.
LEMMA RestByArrival ==
  ASSUME BookInv, BookInv', QueuedByArrival, Rest
  PROVE  QueuedByArrival'
<1>0. PICK a : a = agg
  BY Zenon
<1>1. PICK b, side, i : Joins(b, side, i, a)
  BY <1>0, RestJoins, Zenon
<1>2. PICK level : level = levels[b][side][i]
  BY Zenon
<1>3. PICK q : q = Append(level, a)
  BY Zenon
<1>4. /\ b \in Books /\ side \in Sides /\ i \in Idx /\ level \in Seq(Slots) /\ a \in Slots
      /\ LevelSet(b, side, i, q) /\ Resting' = Resting \cup {a}
  BY <1>1, <1>2, <1>3, Zenon DEF Joins
<1>5. TypeOK /\ ArrivalOrder /\ TypeOK'
  BY Zenon DEF BookInv
<1>6. slots' = slots /\ fills' = fills /\ ~Idle
  BY Zenon DEF Rest
<1>7. \A t \in Resting : /\ t \in Slots /\ slots[t].order_id \in Int
                         /\ slots[t].order_id < slots[a].order_id
  <2>1. \A t \in Resting : t \in Slots
    BY Zenon DEF Resting
  <2>2. \A t \in Slots : slots[t].order_id \in Int
    BY <1>5 DEF TypeOK, Order
  <2>3. QED
    BY <1>0, <1>5, <1>6, <2>1, <2>2, Zenon DEF ArrivalOrder
<1>8. \A x, y \in Resting' : slots[x].order_id = slots[y].order_id => x = y
  <2> SUFFICES ASSUME NEW x \in Resting', NEW y \in Resting',
                      slots[x].order_id = slots[y].order_id, x # y
               PROVE  FALSE
    BY Zenon
  <2>1. x \in Resting \/ x = a
    BY <1>4, Zenon
  <2>2. y \in Resting \/ y = a
    BY <1>4, Zenon
  <2>3. ~(x \in Resting /\ y \in Resting)
    BY Zenon DEF QueuedByArrival
  <2>4. QED
    BY <1>7, <2>1, <2>2, <2>3
<1>9. ByArrival(q)
  <2>1. ByArrival(level)
    BY <1>2, <1>4, Zenon DEF QueuedByArrival
  <2>2. \A t \in Range(level) : t \in Resting
    <3>1. Range(level) = Queued(b, side, i)
      BY <1>2, Zenon DEF Queued
    <3>2. Queued(b, side, i) \subseteq Slots
      BY <1>4, <1>5, QueuedAreSlots, Zenon
    <3>3. QED
      BY <1>4, <3>1, <3>2, Zenon DEF Resting
  <2>3. QED
    BY <1>3, <1>4, <1>7, <2>1, <2>2, AppendByArrival, Zenon
<1>10. \A c \in Books, sd \in Sides, j \in Idx, p \in Seq(Slots) :
        p = levels'[c][sd][j] => ByArrival(p)
  BY <1>4, <1>9, LevelByArrival, Zenon
<1>11. Len(fills') <= MAX_FILLS
  BY <1>6, Zenon DEF QueuedByArrival
<1>12. QED
  BY <1>5, <1>6, <1>8, <1>10, <1>11, StillByArrival, Zenon

\* add_order takes the free slot s for its order; no resting order is touched.
Takes(s, o) ==
  /\ s \in Slots /\ agg' = s /\ s # NULL_IDX
  /\ slots'[s] = o /\ levels' = levels /\ fills' = <<>>
  /\ \A t \in Resting : slots'[t] = slots[t]

\* An add_order that is accepted takes a free slot for the order it brings.
LEMMA AddTakes ==
  ASSUME BookInv, NEW b \in Books, NEW side \in Sides, NEW price \in Prices,
         NEW qty \in Quantities, NEW tif \in TimeInForce, NEW session \in Sessions,
         AddAccepted(b, side, price, qty, tif, session)
  PROVE  \E s : Takes(s, [order_id |-> next_id + 1, price |-> price, qty |-> qty,
                          symbol |-> b, side |-> side, tif |-> tif])
<1>1. PICK s : s = Top(free_list)
  BY Zenon
<1>2. PICK o : o = [order_id |-> next_id + 1, price |-> price, qty |-> qty,
                    symbol |-> b, side |-> side, tif |-> tif]
  BY Zenon
<1>3. /\ free_list # <<>> /\ slots' = [slots EXCEPT ![s] = o]
      /\ agg' = s /\ levels' = levels /\ fills' = <<>>
  BY <1>1, <1>2, Zenon DEF AddAccepted, bookVars
<1>4. TypeOK /\ OneOwner
  BY Zenon DEF BookInv
<1>5. s \in Slots /\ s \in FreeSlots
  <2>1. free_list \in Seq(Slots) /\ IsInjective(free_list)
    BY <1>4, Zenon DEF TypeOK, OneOwner
  <2>2. QED
    BY <1>1, <1>3, <2>1, TakeTop, Zenon DEF FreeSlots
<1>6. s \notin Resting /\ s # NULL_IDX
  BY <1>4, <1>5, SizesAssumption DEF OneOwner, Slots
<1>7. slots'[s] = o /\ \A t \in Resting : slots'[t] = slots[t]
  BY <1>3, <1>4, <1>5, <1>6, Zenon DEF TypeOK, Resting
<1>8. Takes(s, o)
  BY <1>3, <1>5, <1>6, <1>7, Zenon DEF Takes
<1>9. QED
  BY <1>2, <1>8, Zenon

\* The queues of the empty book are by arrival.
LEMMA InitByArrival == Init => QueuedByArrival
<1> SUFFICES ASSUME Init PROVE QueuedByArrival
  BY Zenon
<1>1. \A b \in Books, side \in Sides, i \in Idx : levels[b][side][i] = <<>>
  BY Zenon DEF Init
<1>2. DOMAIN <<>> = {} /\ Len(<<>>) = 0
  OBVIOUS
<1>3. Resting = {}
  BY <1>1, <1>2, Zenon DEF Resting, Queued, Range
<1>4. ByArrival(<<>>)
  BY <1>2, Zenon DEF ByArrival
<1>5. Len(fills) <= MAX_FILLS
  BY <1>2, BookAssumption DEF Init
<1>6. QED
  BY <1>1, <1>3, <1>4, <1>5, Zenon DEF QueuedByArrival

\* Every step keeps the queues by arrival.
LEMMA NextByArrival ==
  ASSUME BookInv, BookInv', QueuedByArrival, [Next]_vars
  PROVE  QueuedByArrival'
<1>0. TypeOK'
  BY Zenon DEF BookInv
<1>1. ASSUME levels' = levels, slots' = slots, fills' = fills PROVE QueuedByArrival'
  <2>1. Resting' = Resting
    BY <1>1, Zenon DEF Resting, Queued
  <2>2. QED
    BY <1>1, <2>1, ZenonT(40) DEF QueuedByArrival, ByArrival
<1>2. CASE AddOrder
  <2>1. PICK b \in Books, side \in Sides, price \in Prices, qty \in Quantities,
             tif \in TimeInForce, session \in Sessions :
          \/ AddRefused(price)
          \/ AddAccepted(b, side, price, qty, tif, session)
    BY <1>2, Zenon DEF AddOrder
  <2>2. CASE AddRefused(price)
    <3>1. levels' = levels /\ slots' = slots /\ fills' = <<>>
      BY <2>2, Zenon DEF AddRefused, bookVars
    <3>2. QED
      BY <1>0, <3>1, AddByArrival, Zenon
  <2>3. CASE AddAccepted(b, side, price, qty, tif, session)
    <3>1. PICK s, o : Takes(s, o)
      BY <2>3, AddTakes, Zenon
    <3>2. QED
      BY <1>0, <3>1, AddByArrival, Zenon DEF Takes
  <2>4. QED
    BY <2>1, <2>2, <2>3, Zenon
<1>3. CASE MatchOne
  BY <1>3, FillByArrival, Zenon
<1>4. CASE Rest
  BY <1>4, RestByArrival, Zenon
<1>5. CASE Discard
  BY <1>1, <1>5, Zenon DEF Discard, bookVars
<1>6. CASE CancelOrder
  <2>1. PICK h \in Tokens : CancelRefused(h) \/ CancelLive(h) \/ CancelAstray(h)
    BY <1>6, Zenon DEF CancelOrder
  <2>2. CASE CancelRefused(h)
    BY <1>1, <2>2, Zenon DEF CancelRefused, vars
  <2>3. CASE CancelLive(h)
    BY <2>3, CancelByArrival, Zenon
  <2>4. CASE CancelAstray(h)
    BY <1>1, <2>4, Zenon DEF CancelAstray, bookVars
  <2>5. QED
    BY <2>1, <2>2, <2>3, <2>4, Zenon
<1>7. CASE UNCHANGED vars
  BY <1>1, <1>7, Zenon DEF vars
<1>8. QED
  BY <1>2, <1>3, <1>4, <1>5, <1>6, <1>7, Zenon DEF Next

-----------------------------------------------------------------------------
(* The refinement mapping                                                   *)

\* The trades are numbered as the fills are.
LEMMA TradesOfFills ==
  ASSUME NEW n \in Nat, Len(fills) = n
  PROVE  /\ Len(AbsTrades) = n /\ DOMAIN AbsTrades = 1 .. n
         /\ \A k \in 1 .. n : AbsTrades[k] = AbsTrade(fills[k])
BY DEF AbsTrades

\* Without fills there are no abstract trades.
LEMMA NoTrades ==
  ASSUME fills' = <<>>
  PROVE  AbsTrades' = <<>>
<1>1. Len(fills') = 0
  BY Zenon
<1>2. QED
  BY <1>1 DEF AbsTrades

\* One more fill is one more trade.
LEMMA TradeAppended ==
  ASSUME fills \in Seq(Fill), NEW f \in Fill, fills' = Append(fills, f)
  PROVE  AbsTrades' = Append(AbsTrades, AbsTrade(f))
<1>1. PICK n \in Nat : n = Len(fills)
  BY SeqLen, Zenon
<1>2. /\ Len(fills') = n + 1 /\ \A k \in 1 .. n : fills'[k] = fills[k]
      /\ fills'[n + 1] = f
  BY <1>1, SeqAppend
<1>3. AbsTrades' = [k \in 1 .. n + 1 |-> AbsTrade(fills'[k])]
  BY <1>2, Zenon DEF AbsTrades, AbsTrade
<1>4. PICK T : T = {AbsTrade(g) : g \in Fill}
  BY Zenon
<1>5. \A k \in 1 .. n : fills[k] \in Fill
  BY <1>1, SeqLen, Zenon
<1>6. AbsTrades \in Seq(T) /\ Len(AbsTrades) = n /\ \A k \in 1 .. n : AbsTrades[k] = AbsTrade(fills[k])
  <2>1. AbsTrades = [k \in 1 .. n |-> AbsTrade(fills[k])]
    BY <1>1, Zenon DEF AbsTrades
  <2>2. \A k \in 1 .. n : AbsTrade(fills[k]) \in T
    BY <1>4, <1>5, Zenon
  <2>3. AbsTrades \in [1 .. n -> T]
    BY <2>1, <2>2, Zenon
  <2>4. QED
    BY <2>1, <2>3
<1>7. AbsTrade(f) \in T
  BY <1>4, Zenon
<1>8. /\ Append(AbsTrades, AbsTrade(f)) \in Seq(T)
      /\ Len(Append(AbsTrades, AbsTrade(f))) = n + 1
      /\ \A k \in 1 .. n : Append(AbsTrades, AbsTrade(f))[k] = AbsTrades[k]
      /\ Append(AbsTrades, AbsTrade(f))[n + 1] = AbsTrade(f)
  BY <1>6, <1>7, SeqAppend
<1>9. PICK q : q = Append(AbsTrades, AbsTrade(f))
  BY Zenon
<1>10. \A k \in 1 .. n + 1 : q[k] = AbsTrade(fills'[k])
  <2> SUFFICES ASSUME NEW k \in 1 .. n + 1 PROVE q[k] = AbsTrade(fills'[k])
    BY Zenon
  <2>1. CASE k \in 1 .. n
    BY <1>2, <1>6, <1>8, <1>9, <2>1, Zenon
  <2>2. CASE k = n + 1
    BY <1>2, <1>8, <1>9, <2>2, Zenon
  <2>3. QED
    BY <1>1, <2>1, <2>2
<1>11. q = [k \in 1 .. n + 1 |-> q[k]]
  <2>1. q \in Seq(T) /\ Len(q) = n + 1
    BY <1>8, <1>9, Zenon
  <2>2. QED
    BY <2>1
<1>12. QED
  BY <1>3, <1>9, <1>10, <1>11, Zenon

\* The abstract order of a slot changes only with the slot's order.
LEMMA SameAbsOrder ==
  ASSUME NEW t, slots'[t] = slots[t]
  PROVE  AbsOrder(t)' = AbsOrder(t)
BY Zenon DEF AbsOrder, LevelOf

\* The orders of the resting slots.
OrdersOfSlots == {AbsOrder(s) : s \in Resting}

\* The abstract resting orders, collected level by level, are those of the resting
\* slots.
LEMMA AbsRestingIs == AbsResting = OrdersOfSlots /\ AbsResting' = OrdersOfSlots'
<1>1. AbsResting = OrdersOfSlots
  <2>1. ASSUME NEW o \in AbsResting PROVE o \in OrdersOfSlots
    <3>1. PICK b \in Books, side \in Sides, i \in Idx :
            o \in {AbsOrder(s) : s \in Slots \cap Queued(b, side, i)}
      BY <2>1 DEF AbsResting
    <3>2. PICK s \in Slots \cap Queued(b, side, i) : o = AbsOrder(s)
      BY <3>1, Zenon
    <3> QED
      BY <3>2, Zenon DEF OrdersOfSlots, Resting
  <2>2. ASSUME NEW o \in OrdersOfSlots PROVE o \in AbsResting
    <3>1. PICK s \in Resting : o = AbsOrder(s)
      BY <2>2, Zenon DEF OrdersOfSlots
    <3>2. PICK b \in Books, side \in Sides, i \in Idx : s \in Slots \cap Queued(b, side, i)
      BY Zenon DEF Resting
    <3>3. PICK T : T = {AbsOrder(t) : t \in Slots \cap Queued(b, side, i)}
      BY Zenon
    <3>4. o \in T
      BY <3>1, <3>2, <3>3, Zenon
    <3>5. T \in {{AbsOrder(t) : t \in Slots \cap Queued(c, sd, j)} :
                   c \in Books, sd \in Sides, j \in Idx}
      BY <3>3
    <3> QED
      BY <3>4, <3>5 DEF AbsResting
  <2> QED
    BY <2>1, <2>2, Zenon
<1>2. AbsResting' = OrdersOfSlots'
  <2>1. ASSUME NEW o \in AbsResting' PROVE o \in OrdersOfSlots'
    <3>1. PICK b \in Books, side \in Sides, i \in Idx :
            o \in {AbsOrder(s)' : s \in Slots \cap Queued(b, side, i)'}
      BY <2>1 DEF AbsResting
    <3>2. PICK s \in Slots \cap Queued(b, side, i)' : o = AbsOrder(s)'
      BY <3>1, Zenon
    <3> QED
      BY <3>2, Zenon DEF OrdersOfSlots, Resting
  <2>2. ASSUME NEW o \in OrdersOfSlots' PROVE o \in AbsResting'
    <3>1. PICK s \in Resting' : o = AbsOrder(s)'
      BY <2>2, Zenon DEF OrdersOfSlots
    <3>2. PICK b \in Books, side \in Sides, i \in Idx : s \in Slots \cap Queued(b, side, i)'
      BY Zenon DEF Resting
    <3>3. PICK T : T = {AbsOrder(t)' : t \in Slots \cap Queued(b, side, i)'}
      BY Zenon
    <3>4. o \in T
      BY <3>1, <3>2, <3>3, Zenon
    <3>5. T \in {{AbsOrder(t)' : t \in Slots \cap Queued(c, sd, j)'} :
                   c \in Books, sd \in Sides, j \in Idx}
      BY <3>3
    <3> QED
      BY <3>4, <3>5 DEF AbsResting
  <2> QED
    BY <2>1, <2>2, Zenon
<1>3. QED
  BY <1>1, <1>2, Zenon

\* The abstract resting orders change only with the resting slots and their orders.
LEMMA SameAbsResting ==
  ASSUME Resting' = Resting, \A t \in Resting : slots'[t] = slots[t]
  PROVE  AbsResting' = AbsResting
<1>1. \A t \in Resting : AbsOrder(t)' = AbsOrder(t)
  BY SameAbsOrder, Zenon
<1>2. QED
  BY <1>1, AbsRestingIs, Zenon DEF OrdersOfSlots

\* The abstract trades depend on the fills alone.
LEMMA SameAbsTrades ==
  ASSUME fills' = fills
  PROVE  AbsTrades' = AbsTrades
BY Zenon DEF AbsTrades, AbsTrade

\* No two resting slots stand for the same order.
LEMMA DistinctOrders ==
  ASSUME QueuedByArrival, NEW x \in Resting, NEW y \in Resting, x # y
  PROVE  AbsOrder(x) # AbsOrder(y)
<1>1. slots[x].order_id # slots[y].order_id
  BY Zenon DEF QueuedByArrival
<1>2. AbsOrder(x).id = slots[x].order_id /\ AbsOrder(y).id = slots[y].order_id
  BY Zenon DEF AbsOrder
<1>3. QED
  BY <1>1, <1>2, Zenon

\* One order leaves the resting set.
LEMMA AbsRestingLess ==
  ASSUME QueuedByArrival, NEW s \in Resting, Resting' = Resting \ {s},
         \A t \in Resting : t # s => AbsOrder(t)' = AbsOrder(t)
  PROVE  AbsResting' = AbsResting \ {AbsOrder(s)}
<1>1. \A t \in Resting : t # s => AbsOrder(t) # AbsOrder(s)
  BY DistinctOrders, Zenon
<1>2. AbsResting' = {AbsOrder(t) : t \in Resting \ {s}}
  <2>1. \A t \in Resting \ {s} : AbsOrder(t)' = AbsOrder(t)
    BY Zenon
  <2>2. QED
    BY <2>1, AbsRestingIs, Zenon DEF OrdersOfSlots
<1>3. QED
  BY <1>1, <1>2, AbsRestingIs, Zenon DEF OrdersOfSlots

-----------------------------------------------------------------------------
(* Step simulation                                                          *)

\* The empty book maps to an initial state of PriceTime.
LEMMA InitPriceTime == Init => PriceTime!Init
<1> SUFFICES ASSUME Init PROVE PriceTime!Init
  BY Zenon
<1>1. \A b \in Books, side \in Sides, i \in Idx : levels[b][side][i] = <<>>
  BY Zenon DEF Init
<1>2. DOMAIN <<>> = {} /\ Len(<<>>) = 0
  OBVIOUS
<1>3. Resting = {}
  BY <1>1, <1>2, Zenon DEF Resting, Queued, Range
<1>4. AbsResting = {} /\ AbsIncoming = {}
  BY <1>3, AbsRestingIs, Zenon DEF OrdersOfSlots, AbsIncoming, Idle, Init
<1>5. AbsTrades = <<>>
  BY <1>2 DEF AbsTrades, Init
<1>6. QED
  BY <1>4, <1>5, Zenon DEF PriceTime!Init

\* A refused add_order is Refuse.
LEMMA AddRefusedRefuses ==
  ASSUME NEW price, AddRefused(price)
  PROVE  PriceTime!Refuse
<1>1. /\ Idle /\ fills' = <<>> /\ agg' = agg /\ slots' = slots /\ levels' = levels
  BY Zenon DEF AddRefused, bookVars
<1>2. AbsIncoming = {} /\ AbsIncoming' = {}
  BY <1>1, Zenon DEF AbsIncoming, Idle
<1>3. Resting' = Resting
  BY <1>1, Zenon DEF Resting, Queued
<1>4. AbsResting' = AbsResting
  BY <1>1, <1>3, SameAbsResting, Zenon
<1>5. AbsTrades' = <<>>
  BY <1>1, NoTrades, Zenon
<1>6. QED
  BY <1>2, <1>4, <1>5, Zenon DEF PriceTime!Refuse

\* An add_order that takes a slot is Accept: the order it brings is the latest.
LEMMA AddAcceptedAccepts ==
  ASSUME BookInv, NEW b \in Books, NEW side \in Sides, NEW price \in Prices,
         NEW qty \in Quantities, NEW tif \in TimeInForce, NEW session \in Sessions,
         AddAccepted(b, side, price, qty, tif, session)
  PROVE  PriceTime!Accept
<1>0. PICK n : n = next_id + 1
  BY Zenon
<1>1. PICK s : Takes(s, [order_id |-> n, price |-> price, qty |-> qty,
                         symbol |-> b, side |-> side, tif |-> tif])
  BY <1>0, AddTakes, Zenon
<1>2. /\ agg' = s /\ s # NULL_IDX /\ levels' = levels /\ fills' = <<>>
      /\ slots'[s] = [order_id |-> n, price |-> price, qty |-> qty,
                      symbol |-> b, side |-> side, tif |-> tif]
      /\ \A t \in Resting : slots'[t] = slots[t]
  BY <1>1, Zenon DEF Takes
<1>3. PICK o : o = AbsOrder(s)'
  BY Zenon
<1>4. o = [id |-> n, symbol |-> b, side |-> side, level |-> price_to_idx(price),
           price |-> price, qty |-> qty, tif |-> tif]
  <2> DEFINE r == [order_id |-> n, price |-> price, qty |-> qty,
                   symbol |-> b, side |-> side, tif |-> tif]
  <2>1. o = [id |-> slots'[s].order_id, symbol |-> slots'[s].symbol, side |-> slots'[s].side,
             level |-> price_to_idx(slots'[s].price), price |-> slots'[s].price,
             qty |-> slots'[s].qty, tif |-> slots'[s].tif]
    BY <1>3, Zenon DEF AbsOrder, LevelOf
  <2>2. slots'[s] = r
    BY <1>2, Zenon
  <2>3. /\ slots'[s].order_id = n /\ slots'[s].symbol = b /\ slots'[s].side = side
        /\ slots'[s].price = price /\ slots'[s].qty = qty /\ slots'[s].tif = tif
    <3>1. /\ r.order_id = n /\ r.symbol = b /\ r.side = side
          /\ r.price = price /\ r.qty = qty /\ r.tif = tif
      BY Zenon
    <3> HIDE DEF r
    <3> QED
      BY <2>2, <3>1, Zenon
  <2>4. QED
    BY <2>1, <2>3, Zenon
<1>5. next_id \in Nat /\ MAX_ADDS \in Nat /\ next_id < MAX_ADDS /\ InLadder(price) /\ Idle
  BY BookAssumption, Zenon DEF BookInv, TypeOK, AddAccepted
<1>6. o \in AbsOrders
  <2>1. n \in 1 .. MAX_ADDS /\ price_to_idx(price) \in Idx
    BY <1>0, <1>5 DEF InLadder
  <2>2. QED
    BY <1>4, <2>1, Zenon DEF AbsOrders
<1>7. AbsIncoming = {} /\ AbsIncoming' = {o}
  <2>1. AbsIncoming = {}
    BY <1>5, Zenon DEF AbsIncoming
  <2>2. AbsIncoming' = {AbsOrder(agg)'}
    BY <1>2, Zenon DEF AbsIncoming, Idle
  <2>3. AbsOrder(agg)' = AbsOrder(s)'
    BY <1>2, Zenon DEF AbsOrder, LevelOf
  <2>4. QED
    BY <1>3, <2>1, <2>2, <2>3, Zenon
<1>8. Resting' = Resting
  BY <1>2, Zenon DEF Resting, Queued
<1>9. AbsResting' = AbsResting
  BY <1>2, <1>8, SameAbsResting, Zenon
<1>10. AbsTrades' = <<>>
  BY <1>2, NoTrades, Zenon
<1>11. \A r \in AbsResting : r.id < o.id
  <2>1. ASSUME NEW t \in Resting PROVE AbsOrder(t).id < o.id
    <3>1. t \in Slots /\ slots[t].order_id <= next_id
      BY Zenon DEF Resting, BookInv, ArrivalOrder
    <3>2. slots[t].order_id \in Nat
      BY <3>1, Zenon DEF BookInv, TypeOK, Order
    <3>3. AbsOrder(t).id = slots[t].order_id /\ o.id = n
      BY <1>4, Zenon DEF AbsOrder
    <3>4. QED
      BY <1>0, <1>5, <3>1, <3>2, <3>3, BelowNext, Zenon
  <2>2. QED
    BY <2>1, AbsRestingIs, Zenon DEF OrdersOfSlots
<1>12. QED
  BY <1>6, <1>7, <1>9, <1>10, <1>11, Zenon DEF PriceTime!Accept

\* cancel_order of a live handle is Cancel of the one order it was returned for.
LEMMA CancelLiveCancels ==
  ASSUME BookInv, QueuedByArrival, NEW h, CancelLive(h)
  PROVE  AbsIncoming = {} /\ \E r \in AbsResting : PriceTime!Cancel(r)
<1>0. PICK s : s = h.slot
  BY Zenon
<1>1. PICK b, side, i : Leaves(b, side, i, s)
  BY <1>0, CancelLeaves, Zenon
<1>2. PICK q : q = RemoveSlot(levels[b][side][i], s)
  BY Zenon
<1>3. /\ b \in Books /\ side \in Sides /\ i \in Idx /\ s \in Resting
      /\ SlotLeaves(b, side, i, q, s)
  BY <1>1, <1>2, Zenon DEF Leaves
<1>4. TypeOK /\ OneOwner
  BY Zenon DEF BookInv
<1>5. Resting' = Resting \ {s}
  BY <1>3, <1>4, ShrinkKeepsOwnership, Zenon
<1>6. Idle /\ UNCHANGED <<slots, agg, fills>>
  BY Zenon DEF CancelLive
<1>7. \A t \in Resting : AbsOrder(t)' = AbsOrder(t)
  BY <1>6, SameAbsOrder, Zenon
<1>8. AbsResting' = AbsResting \ {AbsOrder(s)}
  BY <1>3, <1>5, <1>7, AbsRestingLess, Zenon
<1>9. AbsIncoming = {} /\ AbsIncoming' = {}
  BY <1>6, Zenon DEF AbsIncoming, Idle
<1>10. AbsTrades' = AbsTrades
  BY <1>6, SameAbsTrades, Zenon
<1>11. AbsOrder(s) \in AbsResting
  BY <1>3, AbsRestingIs, Zenon DEF OrdersOfSlots
<1>12. QED
  BY <1>8, <1>9, <1>10, <1>11, Zenon DEF PriceTime!Cancel

\* The order being added, its level, and what rests, as the abstract book sees them.
LEMMA AggregateOrder ==
  ASSUME BookInv, ~Idle, NEW a, a = agg
  PROVE  /\ a \in Slots /\ slots[a] \in Order /\ LevelOf(a) \in Idx /\ a \notin Resting
         /\ AbsIncoming = {AbsOrder(a)}
<1>1. TypeOK /\ OneOwner /\ ArrivalOrder
  BY Zenon DEF BookInv
<1>2. a \in Slots /\ a \notin Resting
  BY <1>1, Zenon DEF TypeOK, OneOwner, Idle
<1>3. slots[a] \in Order
  BY <1>1, <1>2, Zenon DEF TypeOK
<1>4. LevelOf(a) \in Idx
  BY <1>1, Zenon DEF ArrivalOrder, InLadder, LevelOf
<1>5. AbsIncoming = {AbsOrder(a)}
  BY Zenon DEF AbsIncoming
<1>6. QED
  BY <1>2, <1>3, <1>4, <1>5, Zenon

\* Within is Crosses, between two orders of one book and opposite sides.
LEMMA WithinIsCrosses ==
  ASSUME NEW a, NEW t, slots[a].side \in Sides, slots[t].side \in Sides
  PROVE  PriceTime!Within(AbsOrder(a), AbsOrder(t))
           <=> /\ slots[t].symbol = slots[a].symbol
               /\ slots[t].side = Opposite(slots[a].side)
               /\ Crosses(slots[a].side, LevelOf(a), LevelOf(t))
<1>1. /\ AbsOrder(a).symbol = slots[a].symbol /\ AbsOrder(t).symbol = slots[t].symbol
      /\ AbsOrder(a).side = slots[a].side /\ AbsOrder(t).side = slots[t].side
      /\ AbsOrder(a).level = LevelOf(a) /\ AbsOrder(t).level = LevelOf(t)
  BY Zenon DEF AbsOrder
<1>2. slots[t].side # slots[a].side <=> slots[t].side = Opposite(slots[a].side)
  BY Zenon DEF Opposite, Sides
<1>3. QED
  BY <1>1, <1>2, Zenon DEF PriceTime!Within, Crosses

\* match() ends only when the abstract book has stopped matching.
LEMMA DoneIsStopped ==
  ASSUME BookInv, QueuedByArrival, ~Idle, MatchDone, NEW a, a = agg
  PROVE  PriceTime!Stopped(AbsOrder(a))
<1>1. /\ a \in Slots /\ slots[a] \in Order /\ LevelOf(a) \in Idx
  BY AggregateOrder, Zenon
<1>2. AbsOrder(a).qty = slots[a].qty /\ slots[a].qty \in Nat /\ slots[a].side \in Sides
  BY <1>1, Zenon DEF AbsOrder, Order
<1>3. PICK n \in Nat : n = Len(fills)
  <2>1. fills \in Seq(Fill)
    BY Zenon DEF BookInv, TypeOK
  <2>2. QED
    BY <2>1, SeqLen, Zenon
<1>4. Len(AbsTrades) = n /\ n <= MAX_FILLS /\ MAX_FILLS \in Nat
  BY <1>3, TradesOfFills, BookAssumption, Zenon DEF QueuedByArrival
<1>5. ASSUME slots[a].qty # 0, NEW r \in PriceTime!Candidates(AbsOrder(a))
      PROVE  n = MAX_FILLS
  <2>1. r \in AbsResting /\ PriceTime!Within(AbsOrder(a), r)
    BY <1>5, Zenon DEF PriceTime!Candidates
  <2>2. PICK t \in Resting : r = AbsOrder(t)
    BY <2>1, AbsRestingIs, Zenon DEF OrdersOfSlots
  <2>3. slots[t].side \in Sides
    BY RestingPlace, Zenon
  <2>4. /\ slots[t].symbol = slots[a].symbol
        /\ slots[t].side = Opposite(slots[a].side)
        /\ Crosses(slots[a].side, LevelOf(a), LevelOf(t))
    BY <1>2, <2>1, <2>2, <2>3, WithinIsCrosses, Zenon
  <2>5. slots[a].qty > 0
    BY <1>2, <1>5, SMTT(30)
  <2>6. Marketable
    BY <1>1, <2>4, <2>5, CrossingIsMarketable, Zenon
  <2>7. n >= MAX_FILLS
    BY <1>3, <2>6, Zenon DEF MatchDone
  <2>8. QED
    BY <1>4, <2>7
<1>6. QED
  BY <1>2, <1>4, <1>5, Zenon DEF PriceTime!Stopped

\* A remainder that joins its level is Rest.
LEMMA RestRests ==
  ASSUME BookInv, QueuedByArrival, Rest
  PROVE  \E o \in AbsIncoming : PriceTime!Rest(o)
<1>0. PICK a : a = agg
  BY Zenon
<1>1. PICK b, side, i : Joins(b, side, i, a)
  BY <1>0, RestJoins, Zenon
<1>2. a \in Slots /\ slots[a].tif = "GTC" /\ Resting' = Resting \cup {a}
  BY <1>1, Zenon DEF Joins
<1>3. /\ ~Idle /\ MatchDone /\ slots[a].qty > 0 /\ agg' = NULL_IDX
      /\ slots' = slots /\ fills' = fills
  BY <1>0, Zenon DEF Rest
<1>4. AbsIncoming = {AbsOrder(a)} /\ AbsIncoming' = {}
  BY <1>0, <1>3, AggregateOrder, Zenon DEF AbsIncoming, Idle
<1>5. PriceTime!Stopped(AbsOrder(a))
  BY <1>0, <1>3, DoneIsStopped, Zenon
<1>6. AbsOrder(a).qty > 0 /\ AbsOrder(a).tif = "GTC"
  BY <1>2, <1>3, Zenon DEF AbsOrder
<1>7. AbsResting' = AbsResting \cup {AbsOrder(a)}
  <2>1. \A t : AbsOrder(t)' = AbsOrder(t)
    BY <1>3, Zenon DEF AbsOrder, LevelOf
  <2>2. AbsResting' = {AbsOrder(t) : t \in Resting \cup {a}}
    BY <1>2, <2>1, AbsRestingIs, Zenon DEF OrdersOfSlots
  <2>3. QED
    BY <2>2, AbsRestingIs, Zenon DEF OrdersOfSlots
<1>8. AbsTrades' = AbsTrades
  BY <1>3, SameAbsTrades, Zenon
<1>9. PriceTime!Rest(AbsOrder(a))
  BY <1>4, <1>5, <1>6, <1>7, <1>8, Zenon DEF PriceTime!Rest
<1>10. QED
  BY <1>4, <1>9, Zenon

\* An order whose slot goes back at once is Drop.
LEMMA DiscardDrops ==
  ASSUME BookInv, QueuedByArrival, Discard
  PROVE  \E o \in AbsIncoming : PriceTime!Drop(o)
<1>0. PICK a : a = agg
  BY Zenon
<1>1. /\ ~Idle /\ MatchDone /\ (slots[a].qty = 0 \/ slots[a].tif = "IOC") /\ agg' = NULL_IDX
      /\ slots' = slots /\ fills' = fills /\ levels' = levels
  BY <1>0, Zenon DEF Discard, bookVars
<1>2. AbsIncoming = {AbsOrder(a)} /\ AbsIncoming' = {}
  BY <1>0, <1>1, AggregateOrder, Zenon DEF AbsIncoming, Idle
<1>3. PriceTime!Stopped(AbsOrder(a))
  BY <1>0, <1>1, DoneIsStopped, Zenon
<1>4. AbsOrder(a).qty = 0 \/ AbsOrder(a).tif = "IOC"
  BY <1>1, Zenon DEF AbsOrder
<1>5. Resting' = Resting
  BY <1>1, Zenon DEF Resting, Queued
<1>6. AbsResting' = AbsResting /\ AbsTrades' = AbsTrades
  BY <1>1, <1>5, SameAbsResting, SameAbsTrades, Zenon
<1>7. PriceTime!Drop(AbsOrder(a))
  BY <1>2, <1>3, <1>4, <1>6, Zenon DEF PriceTime!Drop
<1>8. QED
  BY <1>2, <1>7, Zenon

\* The head of the best level comes before every other candidate of the aggressor.
LEMMA HeadPrecedes ==
  ASSUME BookInv, QueuedByArrival, NEW b, NEW other, NEW i, NEW s, NEW qty,
         Fills(b, other, i, s, qty), NEW t \in Resting, t # s,
         slots[t].symbol = b, slots[t].side = other
  PROVE  PriceTime!Precedes(AbsOrder(s), AbsOrder(t))
<1>1. /\ b \in Books /\ other \in Sides /\ i = best[b][other] /\ i \in Idx
      /\ s = Head(levels[b][other][i]) /\ levels[b][other][i] # <<>>
      /\ levels[b][other][i] \in Seq(Slots) /\ s \in Slots /\ s \in Queued(b, other, i)
  BY Zenon DEF Fills
<1>2. slots[s].side = other /\ LevelOf(s) = i
  <2>1. Placed(b, other, i)
    BY <1>1, Zenon DEF BookInv, OneOwner
  <2>2. QED
    BY <1>1, <2>1, Zenon DEF Placed
<1>3. /\ LevelOf(t) \in Idx /\ t \in Queued(b, other, LevelOf(t))
      /\ ~Better(other, LevelOf(t), i)
  BY <1>1, RestingPlace, Zenon
<1>4. /\ AbsOrder(s).side = other /\ AbsOrder(s).level = i /\ AbsOrder(t).level = LevelOf(t)
      /\ AbsOrder(s).id = slots[s].order_id /\ AbsOrder(t).id = slots[t].order_id
  BY <1>2, Zenon DEF AbsOrder
<1>5. CASE LevelOf(t) = i
  <2>1. PICK q : q = levels[b][other][i]
    BY Zenon
  <2>2. PICK k \in DOMAIN q : q[k] = t
    BY <1>3, <1>5, <2>1, Zenon DEF Queued, Range
  <2>3. Len(q) \in Nat /\ DOMAIN q = 1 .. Len(q) /\ q[1] = s
    <3>1. q \in Seq(Slots) /\ q # <<>> /\ Head(q) = s
      BY <1>1, <2>1, Zenon
    <3>2. QED
      BY <3>1, SeqLen
  <2>4. k # 1
    BY <2>2, <2>3, Zenon
  <2>5. 1 \in DOMAIN q /\ 1 < k
    BY <2>2, <2>3, <2>4
  <2>6. ByArrival(q)
    BY <1>1, <2>1, Zenon DEF QueuedByArrival
  <2>7. slots[s].order_id < slots[t].order_id
    BY <2>2, <2>3, <2>5, <2>6, Zenon DEF ByArrival
  <2>8. QED
    BY <1>4, <1>5, <2>7, Zenon DEF PriceTime!Precedes
<1>6. CASE LevelOf(t) # i
  <2>1. IF other = "BUY" THEN i > LevelOf(t) ELSE i < LevelOf(t)
    <3>1. i \in Int /\ LevelOf(t) \in Int
      BY <1>1, <1>3, IdxInt, Zenon
    <3>2. QED
      BY <1>3, <1>6, <3>1 DEF Better
  <2>2. QED
    BY <1>4, <2>1, Zenon DEF PriceTime!Precedes
<1>7. QED
  BY <1>5, <1>6, Zenon

\* What a fill does to the orders, as the abstract book sees them.
LEMMA FilledOrders ==
  ASSUME BookInv, NEW b, NEW other, NEW i, NEW s, NEW qty, Fills(b, other, i, s, qty),
         NEW a, a = agg
  PROVE  /\ AbsOrder(a)' = [AbsOrder(a) EXCEPT !.qty = @ - qty]
         /\ AbsOrder(s)' = [AbsOrder(s) EXCEPT !.qty = @ - qty]
         /\ \A t \in Resting : t # s => AbsOrder(t)' = AbsOrder(t)
<1>1. /\ a \in Slots /\ s \in Slots /\ SameOrders
      /\ slots'[s].qty = slots[s].qty - qty /\ slots'[a].qty = slots[a].qty - qty
      /\ \A t \in Slots : t # a /\ t # s => slots'[t].qty = slots[t].qty
  BY Zenon DEF Fills
<1>2. ASSUME NEW t \in Slots
      PROVE  AbsOrder(t)' = [AbsOrder(t) EXCEPT !.qty = slots'[t].qty]
  <2>1. /\ slots'[t].symbol = slots[t].symbol /\ slots'[t].side = slots[t].side
        /\ slots'[t].price = slots[t].price
        /\ slots'[t].order_id = slots[t].order_id /\ slots'[t].tif = slots[t].tif
    BY <1>1, Zenon DEF SameOrders, SamePlaces
  <2>2. LevelOf(t)' = LevelOf(t)
    BY <2>1, Zenon DEF LevelOf
  <2>3. QED
    BY <2>1, <2>2 DEF AbsOrder
<1>3. \A t \in Slots : AbsOrder(t).qty = slots[t].qty
  BY Zenon DEF AbsOrder
<1>4. ASSUME NEW t \in Resting, t # s PROVE AbsOrder(t)' = AbsOrder(t)
  <2>1. t \in Slots /\ t # a
    BY <1>4, Zenon DEF Resting, BookInv, OneOwner
  <2>2. slots'[t].qty = slots[t].qty
    BY <1>1, <1>4, <2>1, Zenon
  <2>3. AbsOrder(t)' = [AbsOrder(t) EXCEPT !.qty = slots[t].qty]
    BY <1>2, <2>1, <2>2, Zenon
  <2>4. QED
    BY <2>3, Zenon DEF AbsOrder
<1>5. AbsOrder(a)' = [AbsOrder(a) EXCEPT !.qty = @ - qty]
  BY <1>1, <1>2, <1>3, Zenon
<1>6. AbsOrder(s)' = [AbsOrder(s) EXCEPT !.qty = @ - qty]
  BY <1>1, <1>2, <1>3, Zenon
<1>7. QED
  BY <1>4, <1>5, <1>6, Zenon

\* One iteration of match() is Trade with the first of the candidates.
LEMMA MatchOneTrades ==
  ASSUME BookInv, QueuedByArrival, MatchOne
  PROVE  \E o \in AbsIncoming : \E r \in PriceTime!Candidates(o) : PriceTime!Trade(o, r)
<1>0. PICK a : a = agg
  BY Zenon
<1>1. PICK b, other, i, s, qty : Fills(b, other, i, s, qty)
  BY MatchOneFills, Zenon
<1>2. PICK o, r : o = AbsOrder(a) /\ r = AbsOrder(s)
  BY Zenon
<1>3. /\ b \in Books /\ other \in Sides /\ b = slots[a].symbol /\ other = Opposite(slots[a].side)
      /\ i = best[b][other] /\ i \in Idx /\ s \in Slots /\ s \in Resting
      /\ s \in Queued(b, other, i) /\ slots[a] \in Order /\ slots[s] \in Order
      /\ qty = (IF slots[a].qty < slots[s].qty THEN slots[a].qty ELSE slots[s].qty)
      /\ qty \in Nat /\ agg' = agg
  BY <1>0, <1>1, Zenon DEF Fills
<1>4. /\ ~Idle /\ Len(fills) < MAX_FILLS /\ slots[a].qty > 0
      /\ Crosses(slots[a].side, LevelOf(a), i)
  BY <1>0, <1>3, Zenon DEF MatchOne, Marketable
<1>5. /\ o.qty = slots[a].qty /\ r.qty = slots[s].qty /\ r.id = slots[s].order_id
      /\ r.price = slots[s].price
  BY <1>2, Zenon DEF AbsOrder
<1>6. slots[s].symbol = b /\ slots[s].side = other /\ LevelOf(s) = i
  <2>1. Placed(b, other, i)
    BY <1>3, Zenon DEF BookInv, OneOwner
  <2>2. QED
    BY <1>3, <2>1, Zenon DEF Placed
<1>7. AbsIncoming = {o}
  BY <1>0, <1>2, <1>4, AggregateOrder, Zenon
<1>8. /\ AbsOrder(a)' = [o EXCEPT !.qty = @ - qty]
      /\ AbsOrder(s)' = [r EXCEPT !.qty = @ - qty]
      /\ \A t \in Resting : t # s => AbsOrder(t)' = AbsOrder(t)
  <2>1. /\ AbsOrder(a)' = [AbsOrder(a) EXCEPT !.qty = @ - qty]
        /\ AbsOrder(s)' = [AbsOrder(s) EXCEPT !.qty = @ - qty]
        /\ \A t \in Resting : t # s => AbsOrder(t)' = AbsOrder(t)
    BY <1>0, <1>1, FilledOrders
  <2>2. QED
    BY <1>2, <2>1, Zenon
<1>9. AbsIncoming' = {[o EXCEPT !.qty = @ - qty]}
  <2>1. AbsIncoming' = {AbsOrder(a)'}
    <3>1. ~Idle' /\ agg' = a
      BY <1>0, <1>3, <1>4, Zenon DEF Idle
    <3>2. AbsOrder(agg)' = AbsOrder(a)'
      BY <3>1, Zenon DEF AbsOrder, LevelOf
    <3>3. QED
      BY <3>1, <3>2, Zenon DEF AbsIncoming
  <2>2. QED
    BY <1>8, <2>1, Zenon
<1>10. r \in PriceTime!Candidates(o)
  <2>1. slots[a].side \in Sides /\ slots[s].side \in Sides
    BY <1>3, <1>6, Zenon DEF Order
  <2>2. PriceTime!Within(o, r)
    BY <1>2, <1>3, <1>4, <1>6, <2>1, WithinIsCrosses, Zenon
  <2>3. r \in AbsResting
    BY <1>2, <1>3, AbsRestingIs, Zenon DEF OrdersOfSlots
  <2>4. QED
    BY <2>2, <2>3, Zenon DEF PriceTime!Candidates
<1>11. \A c \in PriceTime!Candidates(o) \ {r} : PriceTime!Precedes(r, c)
  <2> SUFFICES ASSUME NEW c \in PriceTime!Candidates(o), c # r PROVE PriceTime!Precedes(r, c)
    BY Zenon
  <2>1. c \in AbsResting /\ PriceTime!Within(o, c)
    BY Zenon DEF PriceTime!Candidates
  <2>2. PICK t \in Resting : c = AbsOrder(t)
    BY <2>1, AbsRestingIs, Zenon DEF OrdersOfSlots
  <2>3. slots[a].side \in Sides /\ slots[t].side \in Sides
    BY <1>3, RestingPlace, Zenon DEF Order
  <2>4. slots[t].symbol = b /\ slots[t].side = other
    BY <1>2, <1>3, <2>1, <2>2, <2>3, WithinIsCrosses, Zenon
  <2>5. t # s
    BY <1>2, <2>2, Zenon
  <2>6. QED
    BY <1>1, <1>2, <2>2, <2>4, <2>5, HeadPrecedes, Zenon
<1>12. AbsTrades' = Append(AbsTrades, [id |-> r.id, price |-> r.price, qty |-> qty])
  <2>1. PICK f : f = [aggressor_id |-> slots[agg].order_id, resting_id |-> slots[s].order_id,
                      price |-> slots[s].price, qty |-> qty, session |-> order_session[s]]
    BY Zenon
  <2>2. fills' = Append(fills, f)
    BY <1>1, <2>1, Zenon DEF Fills
  <2>3. fills \in Seq(Fill) /\ order_session[s] \in Sessions
    BY <1>3, Zenon DEF BookInv, TypeOK
  <2>4. f \in Fill
    BY <1>0, <1>3, <2>1, <2>3, Zenon DEF Fill, Order
  <2>5. AbsTrade(f) = [id |-> r.id, price |-> r.price, qty |-> qty]
    BY <1>5, <2>1, Zenon DEF AbsTrade
  <2>6. QED
    BY <2>2, <2>3, <2>4, <2>5, TradeAppended, Zenon
<1>13. Len(AbsTrades) < MAX_FILLS
  <2>1. fills \in Seq(Fill)
    BY Zenon DEF BookInv, TypeOK
  <2>2. PICK n \in Nat : n = Len(fills)
    BY <2>1, SeqLen, Zenon
  <2>3. QED
    BY <1>4, <2>2, TradesOfFills, Zenon
<1>14. AbsResting' = (AbsResting \ {r})
                       \cup (IF r.qty = qty THEN {} ELSE {[r EXCEPT !.qty = @ - qty]})
  <2>1. CASE slots[s].qty = qty
    <3>1. Resting' = Resting \ {s}
      <4>1. PICK q : q = PopFront(levels[b][other][i])
        BY Zenon
      <4>2. SlotLeaves(b, other, i, q, s)
        BY <1>1, <2>1, <4>1, Zenon DEF Fills, SlotLeaves, SameOrders
      <4>3. QED
        BY <1>3, <4>2, ShrinkKeepsOwnership, Zenon DEF BookInv
    <3>2. AbsResting' = AbsResting \ {r}
      BY <1>2, <1>3, <1>8, <3>1, AbsRestingLess, Zenon
    <3>3. QED
      BY <1>5, <2>1, <3>2, Zenon
  <2>2. CASE slots[s].qty # qty
    <3>1. levels' = levels
      BY <1>1, <2>2, Zenon DEF Fills, bookVars
    <3>2. Resting' = Resting
      BY <3>1, Zenon DEF Resting, Queued
    <3>3. PICK v : v = AbsOrder(s)'
      BY Zenon
    <3>4. \A t \in Resting : AbsOrder(t)' = IF t = s THEN v ELSE AbsOrder(t)
      BY <1>8, <3>3, Zenon
    <3>5. AbsResting' = {IF t = s THEN v ELSE AbsOrder(t) : t \in Resting}
      BY <3>2, <3>4, AbsRestingIs, Zenon DEF OrdersOfSlots
    <3>6. \A t \in Resting : t # s => AbsOrder(t) # r
      BY <1>2, <1>3, DistinctOrders, Zenon
    <3>7. AbsResting' = (AbsResting \ {r}) \cup {v}
      BY <1>2, <1>3, <3>5, <3>6, AbsRestingIs, Zenon DEF OrdersOfSlots
    <3>8. QED
      BY <1>5, <1>8, <2>2, <3>3, <3>7, Zenon
  <2>3. QED
    BY <2>1, <2>2, Zenon
<1>15. PriceTime!Trade(o, r)
  <2>1. qty = (IF o.qty < r.qty THEN o.qty ELSE r.qty) /\ o.qty > 0
    BY <1>3, <1>4, <1>5, Zenon
  <2>2. QED
    BY <1>9, <1>11, <1>12, <1>13, <1>14, <2>1, Zenon DEF PriceTime!Trade
<1>16. QED
  BY <1>7, <1>10, <1>15, Zenon

\* A step that leaves the orders, the levels and the fills alone is a stutter of
\* the abstract book.
LEMMA StutterPriceTime ==
  ASSUME UNCHANGED <<slots, levels, agg, fills>>
  PROVE  UNCHANGED PriceTime!vars
<1>1. Resting' = Resting
  BY Zenon DEF Resting, Queued
<1>2. AbsResting' = AbsResting /\ AbsTrades' = AbsTrades
  BY <1>1, SameAbsResting, SameAbsTrades, Zenon
<1>3. AbsIncoming' = AbsIncoming
  BY Zenon DEF AbsIncoming, Idle, AbsOrder, LevelOf
<1>4. QED
  BY <1>2, <1>3, Zenon DEF PriceTime!vars

\* Every step of the book is a step of the abstract book or leaves it alone.
LEMMA NextPriceTime ==
  ASSUME BookInv, QueuedByArrival, [Next]_vars
  PROVE  [PriceTime!Next]_(PriceTime!vars)
<1>2. CASE AddOrder
  <2>1. PICK b \in Books, side \in Sides, price \in Prices, qty \in Quantities,
             tif \in TimeInForce, session \in Sessions :
          \/ AddRefused(price)
          \/ AddAccepted(b, side, price, qty, tif, session)
    BY <1>2, Zenon DEF AddOrder
  <2>2. PriceTime!Refuse \/ PriceTime!Accept
    BY <2>1, AddRefusedRefuses, AddAcceptedAccepts, Zenon
  <2>3. QED
    BY <2>2, Zenon DEF PriceTime!Next
<1>3. CASE MatchOne
  BY <1>3, MatchOneTrades, Zenon DEF PriceTime!Next
<1>4. CASE Rest
  BY <1>4, RestRests, Zenon DEF PriceTime!Next
<1>5. CASE Discard
  BY <1>5, DiscardDrops, Zenon DEF PriceTime!Next
<1>6. CASE CancelOrder
  <2>1. PICK h \in Tokens : CancelRefused(h) \/ CancelLive(h) \/ CancelAstray(h)
    BY <1>6, Zenon DEF CancelOrder
  <2>2. CASE CancelRefused(h)
    BY StutterPriceTime, <2>2, Zenon DEF CancelRefused, vars
  <2>3. CASE CancelLive(h)
    BY <2>3, CancelLiveCancels, Zenon DEF PriceTime!Next
  <2>4. CASE CancelAstray(h)
    BY StutterPriceTime, <2>4, Zenon DEF CancelAstray, bookVars
  <2>5. QED
    BY <2>1, <2>2, <2>3, <2>4, Zenon
<1>7. CASE UNCHANGED vars
  BY StutterPriceTime, <1>7, Zenon DEF vars
<1>8. QED
  BY <1>2, <1>3, <1>4, <1>5, <1>6, <1>7, Zenon DEF Next

-----------------------------------------------------------------------------
(* The theorems                                                             *)

INSTANCE WellFoundedInduction

\* The natural numbers are well-ordered.
LEMMA NatWellOrderedHolds == NatWellOrdered
<1> SUFFICES ASSUME NEW S \in SUBSET Nat, S # {}
             PROVE  \E m \in S : \A i \in S : m <= i
  BY Zenon DEF NatWellOrdered
<1>1. PICK m \in S : \A i \in S : ~(<<i, m>> \in OpToRel(<, Nat))
  BY NatLessThanWellFounded, WFMin, Zenon
<1>2. \A i \in S : ~(i < m)
  <2>1. OpToRel(<, Nat) = {ss \in Nat \X Nat : ss[1] < ss[2]}
    BY Zenon DEF OpToRel
  <2>2. QED
    BY <1>1, <2>1, Zenon
<1>3. QED
  BY <1>2

\* The inductive invariant: as long as no generation wraps, every step of
\* add_order and cancel_order, in any order and over any books, keeps it.
THEOREM InductiveInvariant == NoGenWrap => (Spec => []IInv)
<1> SUFFICES ASSUME NoGenWrap PROVE Spec => []IInv
  BY Zenon
<1>1. Init => IInv
  BY InitInv, Zenon DEF IInv, BookInv
<1>2. IInv /\ [Next]_vars => IInv'
  <2> SUFFICES ASSUME IInv, [Next]_vars PROVE IInv'
    BY Zenon
  <2>1. CASE astray
    BY <2>1, AstrayEnds, Zenon DEF IInv
  <2>2. CASE BookInv
    BY <2>2, NatWellOrderedHolds, NextInv, Zenon
  <2>3. QED
    BY <2>1, <2>2, Zenon DEF IInv
<1>3. QED
  BY <1>1, <1>2, PTL DEF Spec

\* The arena, the ladder and the call in progress keep their types.
THEOREM TypeCorrectness == NoGenWrap => (Spec => []TypeOK)
<1>1. IInv => TypeOK
  BY Zenon DEF IInv
<1>2. QED
  BY <1>1, InductiveInvariant, PTL

\* best_bid_idx_, best_ask_idx_ and the occupancy bitmaps are right after every
\* step of add_order, match() and cancel_order, whatever the ladder size.
THEOREM BestLevelIsBest == NoGenWrap => (Spec => []BestInv)
<1>1. IInv => BestInv
  BY Zenon DEF IInv, BookInv, BestInv
<1>2. QED
  BY <1>1, InductiveInvariant, PTL

\* Each slot of the arena is free, resting or being added, exactly one of them,
\* for any number of books over the arena and cancels with any handles, up to a
\* cancel that goes astray: no leak and no double free before it.
THEOREM ArenaOwnership == NoGenWrap => (Spec => []SlotOwnership)
<1>1. IInv => SlotOwnership
  BY Zenon DEF IInv, BookInv, SlotOwnership
<1>2. QED
  BY <1>1, InductiveInvariant, PTL

\* match() never leaves an exhausted order in a level, and an IOC order never
\* rests.
THEOREM RestingOrdersAreLive == NoGenWrap => (Spec => [](astray \/ RestingIsLive))
<1>1. IInv => astray \/ RestingIsLive
  BY Zenon DEF IInv, BookInv
<1>2. QED
  BY <1>1, InductiveInvariant, PTL

\* A returned handle passes the generation check of cancel_order only while the
\* very order it was returned for rests.
THEOREM HandlesAreExact == NoGenWrap => (Spec => []HandleNamesItsOrder)
<1>1. IInv => HandleNamesItsOrder
  BY Zenon DEF IInv, BookInv, HandleNamesItsOrder
<1>2. QED
  BY <1>1, InductiveInvariant, PTL

\* A cancel goes astray only with a handle that was never returned: free has moved
\* the generation of the slot past every handle that was.
THEOREM OnlyStrangersGoAstray ==
  NoGenWrap => (Spec => [][\A h \in issued : ~CancelAstray(h)]_vars)
<1> SUFFICES ASSUME NoGenWrap
             PROVE  Spec => [][\A h \in issued : ~CancelAstray(h)]_vars
  BY Zenon
<1>1. Spec => []IInv
  BY InductiveInvariant, Zenon
<1>2. IInv /\ [Next]_vars => [\A h \in issued : ~CancelAstray(h)]_vars
  <2> SUFFICES ASSUME IInv, [Next]_vars, ~(UNCHANGED vars), NEW h \in issued,
                      CancelAstray(h)
               PROVE  FALSE
    BY Zenon
  <2>1. ~astray
    BY Zenon DEF Next
  <2>2. h.slot \in Resting
    BY <2>1, Zenon DEF IInv, BookInv, HandlesExact, CancelAstray, Known
  <2>3. QED
    BY <2>2, Zenon DEF CancelAstray
<1>3. QED
  BY <1>1, <1>2, PTL DEF Spec

\* A crossed pair of resting orders is always the doing of the fill limit.
THEOREM UncrossedBook == NoGenWrap => (Spec => []NoCrossUnlessCut)
<1>1. IInv => NoCrossUnlessCut
  BY Zenon DEF IInv, BookInv, NoCrossUnlessCut
<1>2. QED
  BY <1>1, InductiveInvariant, PTL

\* Every level is queued by arrival, whatever is filled and cancelled from it.
THEOREM LevelsByArrival == NoGenWrap => (Spec => [](astray \/ QueuedByArrival))
<1> SUFFICES ASSUME NoGenWrap PROVE Spec => [](astray \/ QueuedByArrival)
  BY Zenon
<1> DEFINE J == astray \/ QueuedByArrival
<1>1. Spec => []IInv
  BY InductiveInvariant, Zenon
<1>2. Init => J
  BY InitByArrival, Zenon
<1>3. IInv /\ IInv' /\ J /\ [Next]_vars => J'
  <2> SUFFICES ASSUME IInv, IInv', J, [Next]_vars, ~astray' PROVE QueuedByArrival'
    BY Zenon
  <2>1. ~astray
    BY AstrayEnds, Zenon DEF IInv
  <2>2. BookInv /\ BookInv'
    BY <2>1, Zenon DEF IInv
  <2>3. QED
    BY <2>1, <2>2, NextByArrival, Zenon
<1>4. QED
  <2> HIDE DEF J
  <2>1. Spec => []J
    BY <1>1, <1>2, <1>3, PTL DEF Spec
  <2>2. QED
    BY <2>1 DEF J

\* The order book with its ladders, bitmaps, cached best levels and recycled slots
\* implements price-time priority, for every ladder, arena and fill limit, up to a
\* cancel that goes astray.
THEOREM BookIsPriceTime == NoGenWrap => (Spec => PriceTimePriority)
<1> SUFFICES ASSUME NoGenWrap PROVE Spec => PriceTimePriority
  BY Zenon
<1>1. Spec => []IInv /\ [](astray \/ QueuedByArrival)
  BY InductiveInvariant, LevelsByArrival, PTL
<1>2. /\ IInv /\ (astray \/ QueuedByArrival) /\ [Next]_vars
      => [PriceTime!Next]_(PriceTime!vars)
  <2> SUFFICES ASSUME IInv, astray \/ QueuedByArrival, [Next]_vars
               PROVE  [PriceTime!Next]_(PriceTime!vars)
    BY Zenon
  <2>1. CASE astray
    <3>1. UNCHANGED vars
      BY <2>1, Zenon DEF Next
    <3>2. QED
      BY <3>1, StutterPriceTime, Zenon DEF vars
  <2>2. CASE ~astray
    BY <2>2, NextPriceTime, Zenon DEF IInv
  <2>3. QED
    BY <2>1, <2>2, Zenon
<1>3. QED
  BY <1>1, <1>2, InitPriceTime, PTL DEF Spec, PriceTimePriority, PriceTime!Spec
=============================================================================
