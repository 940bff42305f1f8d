---------------------------- MODULE LadderProofs ----------------------------
(***************************************************************************)
(* The two data structures a side of a book is made of.                    *)
(* LevelBitmap: the scans find the nearest marked level, for any ladder    *)
(* and word size.                                                          *)
(* PriceLevel: the intrusive lists are FIFO queues, for any number of      *)
(* levels over an arena of any size.  TypeOK /\ LinksSpellQueue is         *)
(* inductive: that no slot is in two lists is what keeps the writes of one *)
(* level's operation to its neighbours' links off the lists of the others. *)
(***************************************************************************)
EXTENDS LevelBitmap, PriceLevel, BookOpsProofs

-----------------------------------------------------------------------------
(* PriceLevel                                                               *)

\* NULL_IDX is no slot.
LEMMA NullIsNoSlot == NULL_IDX \notin Slots
BY SizesAssumption DEF Slots

\* A queue's elements are slots, in its set of slots, and different at different
\* positions.
LEMMA QueuePositions ==
  ASSUME NEW q \in Seq(Slots), IsInjective(q)
  PROVE  /\ Len(q) \in Nat /\ (Len(q) = 0 <=> q = <<>>)
         /\ \A k \in 1 .. Len(q) : q[k] \in Slots /\ q[k] \in Range(q)
         /\ \A j, k \in 1 .. Len(q) : q[j] = q[k] => j = k
         /\ \A x \in Range(q) : \E k \in 1 .. Len(q) : q[k] = x
<1>1. Len(q) \in Nat /\ DOMAIN q = 1 .. Len(q)
  BY SeqLen
<1>2. Len(q) = 0 <=> q = <<>>
  BY SeqLen
<1>3. \A k \in 1 .. Len(q) : q[k] \in Slots
  BY SeqLen
<1>4. QED
  BY <1>1, <1>2, <1>3 DEF IsInjective, Range

\* Links that agree on the slots of a queue spell it as well.
LEMMA ChainFrame ==
  ASSUME NEW q \in Seq(Slots), NEW h, NEW t, NEW nx, NEW pv, NEW nx2, NEW pv2,
         Chained(q, h, t, nx, pv),
         \A x \in Range(q) : nx2[x] = nx[x] /\ pv2[x] = pv[x]
  PROVE  Chained(q, h, t, nx2, pv2)
<1>1. DOMAIN q = 1 .. Len(q)
  BY SeqLen
<1>2. \A k \in 1 .. Len(q) : q[k] \in Range(q)
  BY <1>1 DEF Range
<1>3. QED
  BY <1>2 DEF Chained

\* push_back: the links written for a slot that is not in the queue spell the
\* queue with the slot appended.
LEMMA ChainAppend ==
  ASSUME NEW q \in Seq(Slots), IsInjective(q), NEW s \in Slots, s \notin Range(q),
         NEW h, NEW t, NEW nx, NEW pv, NEW nx2, NEW pv2,
         Chained(q, h, t, nx, pv),
         \A x \in Slots : nx2[x] = IF x = s THEN NULL_IDX ELSE IF x = t THEN s ELSE nx[x],
         \A x \in Slots : pv2[x] = IF x = s THEN t ELSE pv[x]
  PROVE  Chained(Append(q, s), IF t = NULL_IDX THEN s ELSE h, s, nx2, pv2)
<1> DEFINE n == Len(q)
           a == Append(q, s)
<1>1. /\ n \in Nat
      /\ \A k \in 1 .. n : q[k] \in Slots /\ q[k] # s
      /\ \A j, k \in 1 .. n : q[j] = q[k] => j = k
  BY QueuePositions
<1>2. Len(a) = n + 1 /\ (\A k \in 1 .. n : a[k] = q[k]) /\ a[n + 1] = s
  BY SeqAppend
<1>3. /\ h = IF n = 0 THEN NULL_IDX ELSE q[1]
      /\ t = IF n = 0 THEN NULL_IDX ELSE q[n]
      /\ \A k \in 1 .. n : /\ nx[q[k]] = IF k = n THEN NULL_IDX ELSE q[k + 1]
                           /\ pv[q[k]] = IF k = 1 THEN NULL_IDX ELSE q[k - 1]
  BY DEF Chained
<1> HIDE DEF n, a
<1>4. t = NULL_IDX <=> n = 0
  BY <1>1, <1>3, NullIsNoSlot
<1>5. (IF t = NULL_IDX THEN s ELSE h) = a[1]
  BY <1>1, <1>2, <1>3, <1>4
<1>6. ASSUME NEW k \in 1 .. n + 1
      PROVE  /\ nx2[a[k]] = IF k = n + 1 THEN NULL_IDX ELSE a[k + 1]
             /\ pv2[a[k]] = IF k = 1 THEN NULL_IDX ELSE a[k - 1]
  <2>1. CASE k = n + 1
    <3>1. a[k] = s /\ nx2[a[k]] = NULL_IDX /\ pv2[a[k]] = t
      BY <1>2, <2>1
    <3>2. n # 0 => a[k - 1] = t
      BY <1>1, <1>2, <1>3, <2>1
    <3>3. QED
      BY <1>1, <1>3, <2>1, <3>1, <3>2
  <2>2. CASE k \in 1 .. n
    <3>1. a[k] = q[k] /\ q[k] \in Slots /\ q[k] # s
      BY <1>1, <1>2, <2>2
    <3>2. pv2[a[k]] = IF k = 1 THEN NULL_IDX ELSE a[k - 1]
      BY <1>1, <1>2, <1>3, <2>2, <3>1
    <3>3. CASE k = n
      BY <1>1, <1>2, <1>3, <2>2, <3>1, <3>2, <3>3
    <3>4. CASE k # n
      <4>1. k + 1 \in 1 .. n /\ n \in 1 .. n /\ q[k] # q[n]
        BY <1>1, <2>2, <3>4
      <4>2. QED
        BY <1>1, <1>2, <1>3, <2>2, <3>1, <3>2, <3>4, <4>1
    <3>5. QED
      BY <3>3, <3>4
  <2>3. QED
    BY <1>1, <2>1, <2>2
<1>7. Len(a) # 0 /\ a[Len(a)] = s
  BY <1>1, <1>2
<1>8. QED
  BY <1>2, <1>5, <1>6, <1>7 DEF Chained, a

\* remove, and pop_front as its case k = 1: bridging the neighbours of position k
\* leaves links that spell the queue without it.
LEMMA ChainDrop ==
  ASSUME NEW q \in Seq(Slots), IsInjective(q), NEW k \in 1 .. Len(q),
         NEW d \in Seq(Slots), Drops(d, q, k),
         NEW h, NEW t, NEW nx, NEW pv, NEW nx2, NEW pv2, NEW p, NEW m,
         Chained(q, h, t, nx, pv),
         p = pv[q[k]], m = nx[q[k]],
         \A x \in Slots : nx2[x] = IF x = p THEN m ELSE nx[x],
         \A x \in Slots : pv2[x] = IF x = m THEN p ELSE pv[x]
  PROVE  Chained(d, IF p = NULL_IDX THEN m ELSE h, IF m = NULL_IDX THEN p ELSE t, nx2, pv2)
<1> DEFINE n == Len(q)
<1>1. /\ n \in Nat
      /\ \A i \in 1 .. n : q[i] \in Slots /\ q[i] # NULL_IDX
      /\ \A i, j \in 1 .. n : q[i] = q[j] => i = j
  <2>1. /\ n \in Nat
        /\ \A i \in 1 .. n : q[i] \in Slots
        /\ \A i, j \in 1 .. n : q[i] = q[j] => i = j
    BY QueuePositions
  <2>2. QED
    BY <2>1, NullIsNoSlot
<1>2. /\ Len(d) = n - 1
      /\ \A i \in 1 .. n - 1 : (i < k => d[i] = q[i]) /\ (i >= k => d[i] = q[i + 1])
  BY DEF Drops
<1>3. /\ h = IF n = 0 THEN NULL_IDX ELSE q[1]
      /\ t = IF n = 0 THEN NULL_IDX ELSE q[n]
      /\ \A i \in 1 .. n : /\ nx[q[i]] = IF i = n THEN NULL_IDX ELSE q[i + 1]
                           /\ pv[q[i]] = IF i = 1 THEN NULL_IDX ELSE q[i - 1]
  BY DEF Chained
<1>4. k \in 1 .. n
  OBVIOUS
<1> HIDE DEF n
<1>5. /\ p = IF k = 1 THEN NULL_IDX ELSE q[k - 1]
      /\ m = IF k = n THEN NULL_IDX ELSE q[k + 1]
  BY <1>3, <1>4
<1>6. /\ k # 1 => k - 1 \in 1 .. n
      /\ k # n => k + 1 \in 1 .. n
  BY <1>1, <1>4
<1>7. (IF p = NULL_IDX THEN m ELSE h) = IF n - 1 = 0 THEN NULL_IDX ELSE d[1]
  <2>1. CASE k = 1
    BY <1>1, <1>2, <1>4, <1>5, <1>6, <2>1
  <2>2. CASE k # 1
    BY <1>1, <1>2, <1>3, <1>4, <1>5, <1>6, <2>2
  <2>3. QED
    BY <2>1, <2>2
<1>8. (IF m = NULL_IDX THEN p ELSE t) = IF n - 1 = 0 THEN NULL_IDX ELSE d[n - 1]
  <2>1. CASE k = n
    BY <1>1, <1>2, <1>4, <1>5, <1>6, <2>1
  <2>2. CASE k # n
    BY <1>1, <1>2, <1>3, <1>4, <1>5, <1>6, <2>2
  <2>3. QED
    BY <2>1, <2>2
<1>9. ASSUME NEW i \in 1 .. n - 1
      PROVE  /\ nx2[d[i]] = IF i = n - 1 THEN NULL_IDX ELSE d[i + 1]
             /\ pv2[d[i]] = IF i = 1 THEN NULL_IDX ELSE d[i - 1]
  <2> DEFINE j == IF i < k THEN i ELSE i + 1
  <2>1. j \in 1 .. n /\ j # k /\ d[i] = q[j] /\ q[j] \in Slots
    BY <1>1, <1>2, <1>4
  <2>2. /\ nx2[d[i]] = IF q[j] = p THEN m ELSE IF j = n THEN NULL_IDX ELSE q[j + 1]
        /\ pv2[d[i]] = IF q[j] = m THEN p ELSE IF j = 1 THEN NULL_IDX ELSE q[j - 1]
    <3> HIDE DEF j
    <3>1. QED
      BY <1>3, <2>1, SMTT(20)
  <2>3. (q[j] = p <=> j = k - 1) /\ (q[j] = m <=> j = k + 1)
    <3> HIDE DEF j
    <3>1. QED
      BY <1>1, <1>4, <1>5, <1>6, <2>1, SMTT(20)
  <2>4. i # n - 1 => d[i + 1] = IF i + 1 < k THEN q[i + 1] ELSE q[i + 2]
    <3>1. i # n - 1 => i + 1 \in 1 .. n - 1
      BY <1>1
    <3>2. QED
      BY <1>1, <1>2, <1>4, <3>1
  <2>5. i # 1 => d[i - 1] = IF i - 1 < k THEN q[i - 1] ELSE q[i]
    <3>1. i # 1 => i - 1 \in 1 .. n - 1 /\ i - 1 + 1 = i
      BY <1>1
    <3>2. QED
      BY <1>1, <1>2, <1>4, <3>1
  <2>6. nx2[d[i]] = IF i = n - 1 THEN NULL_IDX ELSE d[i + 1]
    BY <1>1, <1>4, <1>5, <2>1, <2>2, <2>3, <2>4
  <2>7. pv2[d[i]] = IF i = 1 THEN NULL_IDX ELSE d[i - 1]
    BY <1>1, <1>4, <1>5, <2>1, <2>2, <2>3, <2>5
  <2>8. QED
    BY <2>6, <2>7
<1>10. QED
  BY <1>2, <1>7, <1>8, <1>9 DEF Chained

-----------------------------------------------------------------------------
LInv == TypeOK /\ LinksSpellQueue

\* A total reduced to its width is in range.
LEMMA WrapType == ASSUME NEW n \in Int PROVE Wrap(n) \in 0 .. QTY_MOD - 1
BY LevelAssumption DEF Wrap

\* Every level whose queue does not hold the slots that a step relinks keeps its
\* chain.  d is the new queue of level l.
LEMMA OtherLevelsKept ==
  ASSUME LInv, NEW l \in Levels, NEW d \in Seq(Slots), NEW s,
         fifo' = [fifo EXCEPT ![l] = d],
         IsInjective(d), Range(d) \subseteq Range(fifo[l]) \cup {s},
         \A m \in Levels \ {l} : s \notin Range(fifo[m]),
         \A m \in Levels \ {l} : /\ head_idx'[m] = head_idx[m]
                                 /\ tail_idx'[m] = tail_idx[m]
                                 /\ order_count'[m] = order_count[m],
         \A m \in Levels \ {l} : \A x \in Range(fifo[m]) :
            next_idx'[x] = next_idx[x] /\ prev_idx'[x] = prev_idx[x],
         Chained(d, head_idx'[l], tail_idx'[l], next_idx', prev_idx'),
         order_count'[l] = Len(d)
  PROVE  LinksSpellQueue' /\ fifo' \in [Levels -> Seq(Slots)]
<1>1. /\ fifo \in [Levels -> Seq(Slots)]
      /\ \A m \in Levels : IsInjective(fifo[m])
      /\ \A m, o \in Levels : m # o => Range(fifo[m]) \cap Range(fifo[o]) = {}
      /\ \A m \in Levels :
           /\ Chained(fifo[m], head_idx[m], tail_idx[m], next_idx, prev_idx)
           /\ order_count[m] = Len(fifo[m])
  BY DEF LInv, TypeOK, LinksSpellQueue, Disjoint
<1>2. /\ fifo' \in [Levels -> Seq(Slots)] /\ fifo'[l] = d
      /\ \A m \in Levels \ {l} : fifo'[m] = fifo[m]
  BY <1>1
<1>3. \A m \in Levels : IsInjective(fifo'[m])
  BY <1>1, <1>2
<1>4. ASSUME NEW m \in Levels, NEW o \in Levels, m # o
      PROVE  Range(fifo'[m]) \cap Range(fifo'[o]) = {}
  BY <1>1, <1>2, <1>4
<1>5. ASSUME NEW m \in Levels
      PROVE  /\ Chained(fifo'[m], head_idx'[m], tail_idx'[m], next_idx', prev_idx')
             /\ order_count'[m] = Len(fifo'[m])
  <2>1. CASE m = l
    BY <1>2, <2>1
  <2>2. CASE m # l
    <3>1. Chained(fifo[m], head_idx[m], tail_idx[m], next_idx', prev_idx')
      BY <1>1, <2>2, ChainFrame
    <3>2. QED
      BY <1>1, <1>2, <2>2, <3>1
  <2>3. QED
    BY <2>1, <2>2
<1>6. QED
  BY <1>2, <1>3, <1>4, <1>5, Zenon DEF LinksSpellQueue, Disjoint

\* The slots at the ends of a level, and next to one of its slots, are in it.
LEMMA NeighboursAreQueued ==
  ASSUME NEW q \in Seq(Slots), IsInjective(q), NEW h, NEW t, NEW nx, NEW pv,
         Chained(q, h, t, nx, pv)
  PROVE  /\ h # NULL_IDX => h \in Range(q) /\ q # <<>> /\ h = q[1] /\ 1 \in 1 .. Len(q)
         /\ t # NULL_IDX => t \in Range(q)
         /\ \A x \in Range(q) : /\ nx[x] # NULL_IDX => nx[x] \in Range(q)
                                /\ pv[x] # NULL_IDX => pv[x] \in Range(q)
<1> DEFINE n == Len(q)
<1>1. /\ n \in Nat /\ (n = 0 <=> q = <<>>)
      /\ \A k \in 1 .. n : q[k] \in Range(q)
      /\ \A x \in Range(q) : \E k \in 1 .. n : q[k] = x
  BY QueuePositions
<1>2. /\ h = IF n = 0 THEN NULL_IDX ELSE q[1]
      /\ t = IF n = 0 THEN NULL_IDX ELSE q[n]
      /\ \A i \in 1 .. n : /\ nx[q[i]] = IF i = n THEN NULL_IDX ELSE q[i + 1]
                           /\ pv[q[i]] = IF i = 1 THEN NULL_IDX ELSE q[i - 1]
  BY DEF Chained
<1>3. n # 0 => 1 \in 1 .. n /\ n \in 1 .. n
  BY <1>1
<1> HIDE DEF n
<1>4. ASSUME NEW x \in Range(q)
      PROVE  /\ nx[x] # NULL_IDX => nx[x] \in Range(q)
             /\ pv[x] # NULL_IDX => pv[x] \in Range(q)
  <2>1. PICK k \in 1 .. n : q[k] = x
    BY <1>1
  <2>2. (k # n => k + 1 \in 1 .. n) /\ (k # 1 => k - 1 \in 1 .. n)
    BY <1>1
  <2>3. QED
    BY <1>1, <1>2, <2>1, <2>2, Zenon
<1>5. QED
  BY <1>1, <1>2, <1>3, <1>4 DEF n

\* push_back keeps the invariant.
LEMMA PushBackInv ==
  ASSUME LInv, NEW l \in Levels, NEW s \in Slots, NEW q \in Quantities, push_back(l, s, q)
  PROVE  LInv'
<1> DEFINE f == fifo[l]
           t == tail_idx[l]
<1>1. /\ TypeOK /\ f \in Seq(Slots) /\ IsInjective(f) /\ t \in SlotOrNull
      /\ Chained(f, head_idx[l], t, next_idx, prev_idx)
      /\ order_count[l] = Len(f)
      /\ \A m \in Levels \ {l} : Range(fifo[m]) \cap Range(f) = {}
  BY DEF LInv, TypeOK, LinksSpellQueue, Disjoint
<1>2. \A m \in Levels : s \notin Range(fifo[m])
  BY DEF push_back, InSomeLevel
<1>3. /\ fifo' = [fifo EXCEPT ![l] = Append(f, s)]
      /\ \A x \in Slots : next_idx'[x] = IF x = s THEN NULL_IDX ELSE IF x = t THEN s ELSE next_idx[x]
      /\ \A x \in Slots : prev_idx'[x] = IF x = s THEN t ELSE prev_idx[x]
      /\ head_idx'[l] = IF t = NULL_IDX THEN s ELSE head_idx[l]
      /\ tail_idx'[l] = s /\ order_count'[l] = Len(f) + 1
      /\ \A m \in Levels \ {l} : /\ head_idx'[m] = head_idx[m]
                                 /\ tail_idx'[m] = tail_idx[m]
                                 /\ order_count'[m] = order_count[m]
  BY <1>1 DEF push_back, PushBack, TypeOK
<1>4. /\ Append(f, s) \in Seq(Slots) /\ IsInjective(Append(f, s))
      /\ Range(Append(f, s)) = Range(f) \cup {s}
      /\ Len(Append(f, s)) = Len(f) + 1
  BY <1>1, <1>2, AppendSlot, SeqAppend
<1>5. Chained(Append(f, s), head_idx'[l], tail_idx'[l], next_idx', prev_idx')
  <2>1. Chained(Append(f, s), IF t = NULL_IDX THEN s ELSE head_idx[l], s, next_idx', prev_idx')
    BY <1>1, <1>2, <1>3, ChainAppend
  <2>2. QED
    BY <1>3, <2>1
<1>6. ASSUME NEW m \in Levels \ {l}, NEW x \in Range(fifo[m])
      PROVE  next_idx'[x] = next_idx[x] /\ prev_idx'[x] = prev_idx[x]
  <2>1. x \in Slots /\ x # s
    <3>1. fifo[m] \in Seq(Slots) /\ IsInjective(fifo[m])
      BY DEF LInv, TypeOK, LinksSpellQueue, Disjoint
    <3>2. QED
      BY <1>2, <3>1, QueuePositions
  <2>2. t # NULL_IDX => t \in Range(f)
    BY <1>1, NeighboursAreQueued
  <2>3. x # t
    BY <1>1, <2>1, <2>2, NullIsNoSlot
  <2>4. QED
    BY <1>3, <2>1, <2>3
<1>7. LinksSpellQueue' /\ fifo' \in [Levels -> Seq(Slots)]
  <2> DEFINE d == Append(f, s)
  <2> HIDE DEF d
  <2>1. /\ d \in Seq(Slots) /\ IsInjective(d) /\ Range(d) \subseteq Range(fifo[l]) \cup {s}
        /\ order_count'[l] = Len(d) /\ fifo' = [fifo EXCEPT ![l] = d]
        /\ Chained(d, head_idx'[l], tail_idx'[l], next_idx', prev_idx')
    BY <1>3, <1>4, <1>5 DEF d
  <2>2. QED
    BY <1>2, <1>3, <1>6, <2>1, OtherLevelsKept, Zenon
<1>8. TypeOK'
  <2>1. Wrap(total_qty[l] + q) \in 0 .. QTY_MOD - 1
    <3>1. total_qty[l] \in Int /\ q \in Int
      BY <1>1, LevelAssumption DEF TypeOK
    <3>2. QED
      BY <3>1, WrapType
  <2>2. q \in Nat /\ NULL_IDX \in SlotOrNull /\ s \in SlotOrNull
    BY LevelAssumption DEF SlotOrNull
  <2>3. QED
    BY <1>1, <1>7, <2>1, <2>2 DEF TypeOK, push_back
<1>9. QED
  BY <1>7, <1>8 DEF LInv

\* Level l loses the slot at position k: its neighbours p and m are bridged.
Unlinks(l, k, p, m) ==
  /\ p = prev_idx[fifo[l][k]] /\ m = next_idx[fifo[l][k]]
  /\ \A x \in Slots : next_idx'[x] = IF x = p THEN m ELSE next_idx[x]
  /\ \A x \in Slots : prev_idx'[x] = IF x = m THEN p ELSE prev_idx[x]
  /\ head_idx'[l] = IF p = NULL_IDX THEN m ELSE head_idx[l]
  /\ tail_idx'[l] = IF m = NULL_IDX THEN p ELSE tail_idx[l]
  /\ order_count'[l] = order_count[l] - 1
  /\ \A o \in Levels \ {l} : /\ head_idx'[o] = head_idx[o]
                             /\ tail_idx'[o] = tail_idx[o]
                             /\ order_count'[o] = order_count[o]

\* Unlinking a slot keeps all chains.
LEMMA UnlinkKeepsChains ==
  ASSUME LInv, NEW l \in Levels, NEW k \in 1 .. Len(fifo[l]),
         NEW d \in Seq(Slots), Drops(d, fifo[l], k), fifo' = [fifo EXCEPT ![l] = d],
         NEW p, NEW m, Unlinks(l, k, p, m)
  PROVE  LinksSpellQueue' /\ fifo' \in [Levels -> Seq(Slots)]
<1> DEFINE f == fifo[l]
<1>1. /\ f \in Seq(Slots) /\ IsInjective(f)
      /\ Chained(f, head_idx[l], tail_idx[l], next_idx, prev_idx)
      /\ order_count[l] = Len(f)
      /\ \A o \in Levels \ {l} : Range(fifo[o]) \cap Range(f) = {}
  BY DEF LInv, TypeOK, LinksSpellQueue, Disjoint
<1>2. f[k] \in Range(f)
  BY <1>1, QueuePositions
<1>3. (p # NULL_IDX => p \in Range(f)) /\ (m # NULL_IDX => m \in Range(f))
  BY <1>1, <1>2, NeighboursAreQueued DEF Unlinks
<1>4. Chained(d, head_idx'[l], tail_idx'[l], next_idx', prev_idx')
  <2>1. Chained(d, IF p = NULL_IDX THEN m ELSE head_idx[l],
                IF m = NULL_IDX THEN p ELSE tail_idx[l], next_idx', prev_idx')
    BY <1>1, ChainDrop, SMTT(20) DEF Unlinks
  <2>2. QED
    BY <2>1 DEF Unlinks
<1>5. ASSUME NEW o \in Levels \ {l}, NEW x \in Range(fifo[o])
      PROVE  next_idx'[x] = next_idx[x] /\ prev_idx'[x] = prev_idx[x]
  <2>1. x \in Slots
    <3>1. fifo[o] \in Seq(Slots) /\ IsInjective(fifo[o])
      BY DEF LInv, TypeOK, LinksSpellQueue, Disjoint
    <3>2. QED
      BY <3>1, QueuePositions
  <2>2. x # p /\ x # m
    BY <1>1, <1>3, <2>1, NullIsNoSlot
  <2>3. QED
    BY <2>1, <2>2 DEF Unlinks
<1>6. IsInjective(d) /\ Range(d) \subseteq Range(f) \cup {f[k]}
  BY <1>1, DropPosition
<1>7. order_count'[l] = Len(d)
  BY <1>1 DEF Unlinks, Drops
<1>8. \A o \in Levels \ {l} : f[k] \notin Range(fifo[o])
  BY <1>1, <1>2
<1>9. \A o \in Levels \ {l} : /\ head_idx'[o] = head_idx[o]
                              /\ tail_idx'[o] = tail_idx[o]
                              /\ order_count'[o] = order_count[o]
  BY DEF Unlinks
<1>10. QED
  BY <1>4, <1>5, <1>6, <1>7, <1>8, <1>9, OtherLevelsKept, Zenon

\* cancel_order's remove keeps the invariant.
LEMMA RemoveInv ==
  ASSUME LInv, NEW l \in Levels, NEW s \in Slots, remove(l, s)
  PROVE  LInv'
<1> DEFINE d == RemoveSlot(fifo[l], s)
<1>1. TypeOK /\ fifo[l] \in Seq(Slots) /\ s \in Range(fifo[l])
  BY DEF LInv, TypeOK, remove
<1>2. d \in Seq(Slots) /\ \E k \in 1 .. Len(fifo[l]) : fifo[l][k] = s /\ Drops(d, fifo[l], k)
  BY <1>1, RemoveSlotDrops
<1>3. fifo' = [fifo EXCEPT ![l] = d]
  BY DEF remove
<1> HIDE DEF d
<1>4. PICK k \in 1 .. Len(fifo[l]) : fifo[l][k] = s /\ Drops(d, fifo[l], k)
  BY <1>2
<1>5. Unlinks(l, k, prev_idx[s], next_idx[s])
  BY <1>1, <1>4 DEF Unlinks, remove, TypeOK
<1>6. LinksSpellQueue' /\ fifo' \in [Levels -> Seq(Slots)]
  BY <1>2, <1>3, <1>4, <1>5, UnlinkKeepsChains, Zenon
<1>7. TypeOK'
  <2>1. total_qty[l] \in Int /\ qty[s] \in Int
    BY <1>1 DEF TypeOK
  <2>2. Wrap(total_qty[l] - qty[s]) \in 0 .. QTY_MOD - 1
    <3>1. total_qty[l] - qty[s] \in Int
      BY <2>1
    <3>2. QED
      BY <3>1, WrapType
  <2>3. QED
    BY <1>1, <1>6, <2>2 DEF TypeOK, remove, Taken
<1>8. QED
  BY <1>6, <1>7 DEF LInv

\* match()'s pop_front of a filled order keeps the invariant.
LEMMA PopFrontInv ==
  ASSUME LInv, NEW l \in Levels, pop_front(l)
  PROVE  LInv'
<1> DEFINE f == fifo[l]
           d == Tail(f)
           s == head_idx[l]
<1>1. /\ TypeOK /\ f \in Seq(Slots) /\ IsInjective(f)
      /\ Chained(f, s, tail_idx[l], next_idx, prev_idx)
  BY DEF LInv, TypeOK, LinksSpellQueue, Disjoint
<1>2. s # NULL_IDX /\ fifo' = [fifo EXCEPT ![l] = d]
  BY DEF pop_front, PopFront
<1>3. s \in Slots
  BY <1>1, <1>2 DEF TypeOK, SlotOrNull
<1>4. f # <<>> /\ s = f[1] /\ 1 \in 1 .. Len(f)
  BY <1>1, <1>2, NeighboursAreQueued
<1>5. d \in Seq(Slots) /\ Drops(d, f, 1)
  <2>1. /\ d \in Seq(Slots) /\ Len(d) = Len(f) - 1
        /\ \A i \in 1 .. Len(f) - 1 : d[i] = f[i + 1]
    BY <1>1, <1>4, SeqHeadTail
  <2> HIDE DEF d
  <2>2. QED
    BY <2>1 DEF Drops
<1>6. prev_idx[s] = NULL_IDX
  BY <1>1, <1>4 DEF Chained
<1>7. Unlinks(l, 1, prev_idx[s], next_idx[s])
  <2>1. \A x \in Slots : x # NULL_IDX
    BY NullIsNoSlot
  <2>2. QED
    BY <1>1, <1>3, <1>4, <1>6, <2>1 DEF Unlinks, pop_front, DetachHead, TypeOK
<1> HIDE DEF d
<1>8. LinksSpellQueue' /\ fifo' \in [Levels -> Seq(Slots)]
  BY <1>2, <1>4, <1>5, <1>7, UnlinkKeepsChains, Zenon
<1>9. TypeOK'
  <2>1. total_qty[l] \in Int /\ qty[s] \in Int
    BY <1>1, <1>3 DEF TypeOK
  <2>2. Wrap(total_qty[l] - qty[s]) \in 0 .. QTY_MOD - 1
    <3>1. total_qty[l] - qty[s] \in Int
      BY <2>1
    <3>2. QED
      BY <3>1, WrapType
  <2>3. NULL_IDX \in SlotOrNull /\ next_idx[s] \in SlotOrNull
    BY <1>1, <1>3 DEF TypeOK, SlotOrNull
  <2>4. QED
    BY <1>1, <1>3, <1>8, <2>2, <2>3 DEF TypeOK, pop_front, Taken, DetachHead
<1>10. QED
  BY <1>8, <1>9 DEF LInv

\* A partial fill of the oldest order keeps the invariant: the links stay.
LEMMA FillPartInv ==
  ASSUME LInv, NEW l \in Levels, NEW q \in Quantities, fill_part(l, q)
  PROVE  LInv'
<1> DEFINE s == head_idx[l]
<1>1. TypeOK /\ LinksSpellQueue
  BY DEF LInv
<1>2. s \in Slots /\ q \in Nat
  BY <1>1, LevelAssumption DEF fill_part, TypeOK, SlotOrNull
<1>3. total_qty[l] \in Int /\ qty[s] - q \in Nat
  BY <1>1, <1>2 DEF TypeOK, fill_part
<1>4. Wrap(total_qty[l] - q) \in 0 .. QTY_MOD - 1
  <2>1. total_qty[l] - q \in Int
    BY <1>2, <1>3
  <2>2. QED
    BY <2>1, WrapType
<1>5. TypeOK'
  BY <1>1, <1>2, <1>3, <1>4 DEF TypeOK, fill_part, Taken
<1>6. LinksSpellQueue'
  BY <1>1 DEF fill_part, LinksSpellQueue, Disjoint
<1>7. QED
  BY <1>5, <1>6 DEF LInv

\* Empty levels satisfy the invariant.
LEMMA LevelInitInv == Init => LInv
<1> SUFFICES ASSUME Init PROVE LInv
  OBVIOUS
<1>1. \A l \in Levels : fifo[l] = <<>>
  BY DEF Init
<1>2. <<>> \in Seq(Slots) /\ Len(<<>>) = 0 /\ IsInjective(<<>>) /\ Range(<<>>) = {}
  BY DEF IsInjective, Range
<1>3. 0 \in Slots /\ NULL_IDX \in SlotOrNull
  BY SizesAssumption DEF Slots, SlotOrNull
<1>4. TypeOK
  BY <1>1, <1>2, <1>3, LevelAssumption DEF Init, TypeOK, SlotOrNull
<1>5. \A l \in Levels : Chained(fifo[l], NULL_IDX, NULL_IDX, next_idx, prev_idx)
  BY <1>1, <1>2 DEF Chained
<1>6. LinksSpellQueue
  BY <1>1, <1>2, <1>5 DEF Init, LinksSpellQueue, Disjoint
<1>7. QED
  BY <1>4, <1>6 DEF LInv

\* In every reachable state the links are those of FIFO queues and in range.
THEOREM LevelInvariant == Spec => []LInv
<1>1. LInv /\ [Next]_vars => LInv'
  <2> SUFFICES ASSUME LInv, [Next]_vars PROVE LInv'
    OBVIOUS
  <2>1. CASE Next
    <3>1. PICK l \in Levels :
             \/ \E s \in Slots, q \in Quantities : push_back(l, s, q)
             \/ \E q \in Quantities : fill_part(l, q)
             \/ pop_front(l)
             \/ \E s \in Slots : remove(l, s)
      BY <2>1 DEF Next
    <3>2. ASSUME NEW s \in Slots, NEW q \in Quantities, push_back(l, s, q) PROVE LInv'
      BY <3>2, PushBackInv
    <3>3. ASSUME NEW q \in Quantities, fill_part(l, q) PROVE LInv'
      BY <3>3, FillPartInv
    <3>4. CASE pop_front(l)
      BY <3>4, PopFrontInv
    <3>5. ASSUME NEW s \in Slots, remove(l, s) PROVE LInv'
      BY <3>5, RemoveInv
    <3>6. QED
      BY <3>1, <3>2, <3>3, <3>4, <3>5
  <2>2. CASE UNCHANGED vars
    BY <2>2 DEF vars, LInv, TypeOK, LinksSpellQueue, Disjoint
  <2>3. QED
    BY <2>1, <2>2
<1>2. QED
  BY <1>1, LevelInitInv, PTL DEF Spec

\* Indices, totals and quantities of the levels never leave their ranges.
THEOREM LevelTypes == Spec => []TypeOK
<1>1. LInv => TypeOK
  BY DEF LInv
<1>2. QED
  BY <1>1, LevelInvariant, PTL

\* push_back, pop_front and remove of any number of PriceLevels over one arena
\* implement FIFO queues of slots, order_count included.
THEOREM LinksAreAQueue == Spec => []LinksSpellQueue
<1>1. LInv => LinksSpellQueue
  BY DEF LInv
<1>2. QED
  BY <1>1, LevelInvariant, PTL

-----------------------------------------------------------------------------
(* LevelBitmap                                                              *)

Words == 0 .. NUM_WORDS - 1

-----------------------------------------------------------------------------
(* Arithmetic of words and bits                                             *)

\* Words follow each other without a gap.
LEMMA BaseStep ==
  ASSUME NEW k \in Nat
  PROVE  Base(k) \in Nat /\ Base(k + 1) = Base(k) + WORD_BITS
BY WordAssumption DEF Base

\* Later words have greater indices.
LEMMA BaseMonotone ==
  ASSUME NEW j \in Nat, NEW k \in Nat, j < k
  PROVE  Base(j) + WORD_BITS <= Base(k)
<1>1. PICK d \in Nat : k = j + 1 + d
  <2>1. k - j - 1 \in Nat /\ k = j + 1 + (k - j - 1)
    OBVIOUS
  <2> QED BY <2>1
<1>2. (j + 1 + d) * WORD_BITS = j * WORD_BITS + WORD_BITS + d * WORD_BITS
  BY WordAssumption
<1>3. d * WORD_BITS \in Nat /\ j * WORD_BITS \in Nat
  BY WordAssumption
<1> QED BY <1>1, <1>2, <1>3, WordAssumption DEF Base

\* An index is its word and its bit.
LEMMA IndexSplit ==
  ASSUME NEW idx \in Nat
  PROVE  /\ WordOf(idx) \in Nat /\ BitOf(idx) \in Bit
         /\ idx = Base(WordOf(idx)) + BitOf(idx)
BY WordAssumption DEF WordOf, BitOf, Base, Bit

\* The word and the bit are determined by the index.
LEMMA SplitUnique ==
  ASSUME NEW j \in Nat, NEW k \in Nat, NEW a \in Bit, NEW b \in Bit,
         Base(j) + a = Base(k) + b
  PROVE  j = k /\ a = b
<1>1. Base(j) \in Nat /\ Base(k) \in Nat
  BY BaseStep
<1>2. ~(j < k)
  <2>1. j < k => Base(j) + WORD_BITS <= Base(k)
    BY BaseMonotone
  <2> QED BY <1>1, <2>1, WordAssumption DEF Bit
<1>3. ~(k < j)
  <2>1. k < j => Base(k) + WORD_BITS <= Base(j)
    BY BaseMonotone
  <2> QED BY <1>1, <2>1, WordAssumption DEF Bit
<1>4. j = k
  BY <1>2, <1>3
<1> QED BY <1>1, <1>4, WordAssumption DEF Bit

\* words_ covers the ladder.
LEMMA WordsCover ==
  /\ NUM_WORDS \in Nat \ {0} /\ LADDER_SIZE <= Base(NUM_WORDS)
  /\ \A idx \in Idx : WordOf(idx) \in Words
<1> DEFINE n == LADDER_SIZE + WORD_BITS - 1
<1>1. n \in Nat /\ n >= WORD_BITS
  BY SizesAssumption, WordAssumption
<1>2. NUM_WORDS = WordOf(n)
  BY DEF NUM_WORDS, WordOf
<1> HIDE DEF n
<1>3. WordOf(n) \in Nat /\ BitOf(n) \in Bit /\ n = Base(WordOf(n)) + BitOf(n)
  BY <1>1, IndexSplit
<1>4. Base(WordOf(n)) \in Nat
  BY <1>3, BaseStep
<1>5. LADDER_SIZE <= Base(NUM_WORDS)
  BY <1>1, <1>2, <1>3, <1>4, SizesAssumption, WordAssumption DEF Bit, n
<1>6. NUM_WORDS # 0
  <2>1. Base(0) = 0
    BY WordAssumption DEF Base
  <2> QED BY <1>5, <2>1, SizesAssumption
<1>7. ASSUME NEW idx \in Idx PROVE WordOf(idx) \in Words
  <2>1. idx \in Nat /\ idx < LADDER_SIZE
    BY SizesAssumption DEF Idx
  <2>2. WordOf(idx) \in Nat /\ BitOf(idx) \in Bit /\ idx = Base(WordOf(idx)) + BitOf(idx)
    BY <2>1, IndexSplit
  <2>3. Base(WordOf(idx)) \in Nat
    BY <2>2, BaseStep
  <2>4. NUM_WORDS < WordOf(idx) => Base(NUM_WORDS) + WORD_BITS <= Base(WordOf(idx))
    BY <1>2, <1>3, <2>2, BaseMonotone
  <2>5. NUM_WORDS \in Nat /\ Base(NUM_WORDS) \in Nat
    BY <1>2, <1>3, <1>4
  <2>6. ~(NUM_WORDS <= WordOf(idx))
    BY <1>5, <2>1, <2>2, <2>3, <2>4, <2>5, SizesAssumption, WordAssumption DEF Bit
  <2> QED BY <2>2, <2>5, <2>6 DEF Words
<1> QED BY <1>2, <1>3, <1>5, <1>6, <1>7
-----------------------------------------------------------------------------
(* The inductive invariant                                                  *)

LEMMA InitIInv == BitmapInit => IInv
<1> SUFFICES ASSUME BitmapInit PROVE IInv
  OBVIOUS
<1>1. BitmapTypeOK
  BY WordsCover, SizesAssumption DEF BitmapInit, BitmapTypeOK, Starts
<1>2. WordsExact /\ ScanHolds
  BY DEF BitmapInit, WordsExact, ScanHolds
<1> QED BY <1>1, <1>2 DEF IInv

\* set and clear change the bit of one index.
LEMMA MarkStep ==
  ASSUME IInv, NEW idx \in Idx, set(idx) \/ clear(idx)
  PROVE  IInv'
<1>1. idx \in Nat /\ WordOf(idx) \in Words
  BY WordsCover, SizesAssumption DEF Idx
<1>2. WordOf(idx) \in Nat /\ BitOf(idx) \in Bit /\ idx = Base(WordOf(idx)) + BitOf(idx)
  BY <1>1, IndexSplit
<1>3. words \in [Words -> SUBSET Bit] /\ marked \subseteq Idx
  BY DEF IInv, BitmapTypeOK, Words
<1>4. BitmapTypeOK'
  <2>1. words' \in [Words -> SUBSET Bit] /\ marked' \subseteq Idx
    BY <1>1, <1>2, <1>3, Zenon DEF set, clear
  <2> QED BY <2>1 DEF set, clear, scanVars, IInv, BitmapTypeOK, Words
<1>5. ASSUME NEW k \in Words, NEW b \in Bit
      PROVE  b \in words'[k] <=> Base(k) + b \in marked'
  <2>1. k \in Nat /\ (b \in words[k] <=> Base(k) + b \in marked)
    BY WordsCover DEF IInv, WordsExact, Words
  <2>2. Base(k) + b = idx <=> k = WordOf(idx) /\ b = BitOf(idx)
    BY <1>2, <2>1, SplitUnique, Zenon
  <2>3. CASE set(idx)
    <3>1. b \in words'[k] <=> b \in words[k] \/ (k = WordOf(idx) /\ b = BitOf(idx))
      BY <1>1, <1>3, <2>3 DEF set
    <3> QED BY <2>1, <2>2, <2>3, <3>1, Zenon DEF set
  <2>4. CASE clear(idx)
    <3>1. b \in words'[k] <=> b \in words[k] /\ ~(k = WordOf(idx) /\ b = BitOf(idx))
      BY <1>1, <1>3, <2>4 DEF clear
    <3> QED BY <2>1, <2>2, <2>4, <3>1, Zenon DEF clear
  <2> QED BY <2>3, <2>4
<1>6. WordsExact'
  BY <1>5, Zenon DEF WordsExact, Words
<1>7. ScanHolds'
  BY DEF set, clear, scanVars, ScanHolds
<1> QED BY <1>4, <1>6, <1>7 DEF IInv

\* A step that leaves the words alone.
LEMMA WordsKept ==
  ASSUME WordsExact, UNCHANGED <<words, marked>>
  PROVE  WordsExact'
BY DEF WordsExact

\* The masks select the bits on one side of f.
LEMMA Masks ==
  ASSUME NEW f \in Nat, NEW b \in Bit
  PROVE  /\ b >= BitOf(f) <=> Base(WordOf(f)) + b >= f
         /\ b <= BitOf(f) <=> Base(WordOf(f)) + b <= f
         /\ Base(WordOf(f)) <= f /\ f < Base(WordOf(f) + 1)
<1>1. WordOf(f) \in Nat /\ BitOf(f) \in Bit /\ f = Base(WordOf(f)) + BitOf(f)
  BY IndexSplit
<1>2. Base(WordOf(f)) \in Nat /\ Base(WordOf(f) + 1) = Base(WordOf(f)) + WORD_BITS
  BY <1>1, BaseStep
<1> QED BY <1>1, <1>2, WordAssumption DEF Bit

\* The beginning of a query.
LEMMA QueryStep ==
  ASSUME IInv, NEW f \in Starts, out_of_range(f) \/ next_up(f) \/ next_down(f)
  PROVE  IInv'
<1> USE DEF IInv
<1>1. WordsExact'
  BY WordsKept DEF out_of_range, next_up, next_down
<1>2. CASE out_of_range(f)
  <2>1. BitmapTypeOK'
    BY <1>2, WordsCover DEF out_of_range, Return, BitmapTypeOK
  <2>2. ScanHolds'
    BY <1>2 DEF out_of_range, Return, ScanHolds
  <2> QED BY <1>1, <2>1, <2>2
<1>3. CASE next_up(f) \/ next_down(f)
  <2>1. f \in Idx /\ f \in Nat
    BY <1>3, SizesAssumption DEF next_up, next_down, Starts, Idx
  <2>2. WordOf(f) \in Words
    BY <2>1, WordsCover
  <2>3. words[WordOf(f)] \subseteq Bit
        /\ \A b \in Bit : b \in words[WordOf(f)] <=> Base(WordOf(f)) + b \in marked
    BY <2>2 DEF BitmapTypeOK, WordsExact, Words
  <2>4. BitmapTypeOK'
    BY <1>3, <2>2, <2>3 DEF next_up, next_down, AtOrAbove, AtOrBelow, BitmapTypeOK, Words
  <2>5. /\ \A b \in Bit : b >= BitOf(f) <=> Base(WordOf(f)) + b >= f
        /\ \A b \in Bit : b <= BitOf(f) <=> Base(WordOf(f)) + b <= f
    BY <2>1, Masks
  <2>6. Base(WordOf(f)) <= f /\ f < Base(WordOf(f) + 1) /\ Base(WordOf(f)) \in Nat /\ Base(WordOf(f) + 1) \in Nat
    <3>1. BitOf(f) \in Bit /\ WordOf(f) \in Nat /\ WordOf(f) + 1 \in Nat
      BY <2>1, IndexSplit
    <3> QED BY <2>1, <3>1, Masks, BaseStep
  <2>7. \A i \in marked : i \in Nat
    BY SizesAssumption DEF BitmapTypeOK, Idx
  <2>8. ASSUME next_up(f) PROVE ScanHolds'
    <3>1. /\ scan' = "up" /\ from' = f /\ w' = WordOf(f) /\ marked' = marked
          /\ \A b \in Bit : b \in bits' <=> b \in words[WordOf(f)] /\ b >= BitOf(f)
      BY <2>8 DEF next_up, AtOrAbove
    <3>2. \A b \in Bit : b \in bits' <=> Base(WordOf(f)) + b \in marked /\ Base(WordOf(f)) + b >= f
      BY <2>3, <2>5, <3>1, Zenon
    <3>3. \A i \in marked : i >= f => i >= Base(WordOf(f))
      BY <2>1, <2>6, <2>7
    <3> QED BY <2>1, <2>6, <3>1, <3>2, <3>3 DEF ScanHolds
  <2>9. ASSUME next_down(f) PROVE ScanHolds'
    <3>1. /\ scan' = "down" /\ from' = f /\ w' = WordOf(f) /\ marked' = marked
          /\ \A b \in Bit : b \in bits' <=> b \in words[WordOf(f)] /\ b <= BitOf(f)
      BY <2>9 DEF next_down, AtOrBelow
    <3>2. \A b \in Bit : b \in bits' <=> Base(WordOf(f)) + b \in marked /\ Base(WordOf(f)) + b <= f
      BY <2>3, <2>5, <3>1, Zenon
    <3>3. \A i \in marked : i <= f => i < Base(WordOf(f) + 1)
      BY <2>1, <2>6, <2>7
    <3> QED BY <2>1, <2>6, <3>1, <3>2, <3>3 DEF ScanHolds
  <2> QED BY <1>1, <1>3, <2>4, <2>8, <2>9
<1> QED BY <1>2, <1>3
-----------------------------------------------------------------------------
(* What the loops find                                                      *)

\* NextUp is the least element at or above f, NextDown the greatest at or below.
LEMMA NextUpIs ==
  ASSUME NatWellOrdered, NEW S \in SUBSET Idx, NEW f \in Idx, NEW m \in S, m >= f,
         \A i \in S : i >= f => m <= i
  PROVE  NextUp(S, f) = m
<1> DEFINE above == {i \in S : i >= f}
<1>0. ~(f >= LADDER_SIZE)
  BY SizesAssumption DEF Idx
<1>1. above \in SUBSET Idx /\ m \in above /\ above # {}
  BY Zenon
<1>2. \A i \in above : m <= i
  OBVIOUS
<1>3. NextUp(S, f) = Min(above)
  BY <1>0, <1>1 DEF NextUp
<1> HIDE DEF above
<1>4. Min(above) \in above /\ \A i \in above : Min(above) <= i
  BY <1>1, LeastExists, Zenon
<1>5. Min(above) <= m /\ m <= Min(above) /\ m \in Idx /\ Min(above) \in Idx
  BY <1>1, <1>2, <1>4, Zenon
<1>6. Min(above) = m
  BY <1>5, SizesAssumption DEF Idx
<1> QED BY <1>3, <1>6

LEMMA NextDownIs ==
  ASSUME NatWellOrdered, NEW S \in SUBSET Idx, NEW f \in Idx, NEW m \in S, m <= f,
         \A i \in S : i <= f => m >= i
  PROVE  NextDown(S, f) = m
<1> DEFINE below == {i \in S : i <= f}
<1>0. ~(f >= LADDER_SIZE)
  BY SizesAssumption DEF Idx
<1>1. below \in SUBSET Idx /\ m \in below /\ below # {}
  BY Zenon
<1>2. \A i \in below : m >= i
  OBVIOUS
<1>3. NextDown(S, f) = Max(below)
  BY <1>0, <1>1 DEF NextDown
<1> HIDE DEF below
<1>4. Max(below) \in below /\ \A i \in below : Max(below) >= i
  BY <1>1, GreatestExists, Zenon
<1>5. Max(below) >= m /\ m >= Max(below) /\ m \in Idx /\ Max(below) \in Idx
  BY <1>1, <1>2, <1>4, Zenon
<1>6. Max(below) = m
  BY <1>5, SizesAssumption DEF Idx
<1> QED BY <1>3, <1>6

\* An index between the bases of two neighbouring words is a bit of the first.
LEMMA BitOfWord ==
  ASSUME NEW k \in Nat, NEW i \in Nat, i >= Base(k), i < Base(k + 1)
  PROVE  i - Base(k) \in Bit /\ i = Base(k) + (i - Base(k))
<1>1. Base(k) \in Nat /\ Base(k + 1) = Base(k) + WORD_BITS
  BY BaseStep
<1> QED BY <1>1, WordAssumption DEF Bit

\* What the loops know of their locals.
LEMMA Locals ==
  ASSUME IInv
  PROVE  /\ w \in Nat /\ w + 1 \in Nat /\ w < NUM_WORDS /\ bits \subseteq Bit /\ marked \subseteq Idx
         /\ Base(w) \in Nat /\ Base(w + 1) = Base(w) + WORD_BITS
         /\ \A i \in marked : i \in Nat /\ i < Base(NUM_WORDS)
<1>1. /\ w \in Nat /\ w + 1 \in Nat /\ w < NUM_WORDS /\ bits \subseteq Bit /\ marked \subseteq Idx
      /\ NUM_WORDS \in Nat
  BY WordsCover DEF IInv, BitmapTypeOK
<1>2. Base(w) \in Nat /\ Base(w + 1) = Base(w) + WORD_BITS /\ Base(NUM_WORDS) \in Nat
  BY <1>1, BaseStep
<1>3. \A i \in marked : i \in Nat /\ i < Base(NUM_WORDS)
  BY <1>1, <1>2, WordsCover, SizesAssumption DEF Idx
<1> QED BY <1>1, <1>2, <1>3

\* A word with a bit ends the query upwards at the lowest one.
LEMMA UpFound ==
  ASSUME NatWellOrdered, IInv, scan = "up", bits # {}
  PROVE  /\ Base(w) + Min(bits) \in marked
         /\ Base(w) + Min(bits) = NextUp(marked, from)
<1> DEFINE m == Min(bits)
<1>1. bits \in SUBSET Nat
  BY Locals, WordAssumption DEF Bit
<1>2. m \in bits /\ \A b \in bits : m <= b
  BY <1>1, LeastNat
<1> HIDE DEF m
<1>3. m \in Bit /\ m \in Nat
  BY <1>1, <1>2, Locals
<1>4. /\ from \in Idx
      /\ \A b \in Bit : b \in bits <=> Base(w) + b \in marked /\ Base(w) + b >= from
      /\ \A i \in marked : i >= from => i >= Base(w)
  BY DEF IInv, ScanHolds
<1>5. Base(w) + m \in marked /\ Base(w) + m >= from
  BY <1>2, <1>3, <1>4
<1>6. ASSUME NEW i \in marked, i >= from PROVE Base(w) + m <= i
  <2>1. i >= Base(w) /\ i \in Nat
    BY <1>4, <1>6, Locals
  <2>2. CASE i < Base(w + 1)
    <3>1. i - Base(w) \in Bit /\ i = Base(w) + (i - Base(w))
      BY <2>1, <2>2, BitOfWord, Locals
    <3>2. i - Base(w) \in bits
      BY <1>4, <1>6, <3>1, Zenon
    <3>3. m <= i - Base(w)
      BY <1>2, <3>2
    <3> QED BY <1>3, <2>1, <3>3, Locals
  <2>3. CASE i >= Base(w + 1)
    BY <1>3, <2>1, <2>3, Locals, WordAssumption DEF Bit
  <2>4. Base(w + 1) \in Nat
    BY Locals, BaseStep
  <2> QED BY <2>1, <2>2, <2>3, <2>4
<1>7. NextUp(marked, from) = Base(w) + m
  BY <1>4, <1>5, <1>6, NextUpIs, Locals
<1> QED BY <1>5, <1>7 DEF m

\* A word without one has none of the indices looked for.
LEMMA UpPassed ==
  ASSUME IInv, scan = "up", bits = {}
  PROVE  \A i \in marked : i >= from => i >= Base(w + 1)
<1> SUFFICES ASSUME NEW i \in marked, i >= from, ~(i >= Base(w + 1)) PROVE FALSE
  OBVIOUS
<1>1. /\ \A b \in Bit : b \in bits <=> Base(w) + b \in marked /\ Base(w) + b >= from
      /\ i >= Base(w)
  BY DEF IInv, ScanHolds
<1>2. i \in Nat /\ i < Base(w + 1)
  BY Locals, BaseStep
<1>3. i - Base(w) \in Bit /\ i = Base(w) + (i - Base(w))
  BY <1>1, <1>2, BitOfWord, Locals
<1> QED BY <1>1, <1>3, Zenon

\* count-leading-zeros of a word finds its highest bit.
LEMMA HighestBit ==
  ASSUME NatWellOrdered, NEW B \in SUBSET Bit, B # {}
  PROVE  LET h == WORD_BITS - 1 - Min({WORD_BITS - 1 - b : b \in B})
         IN  h \in B /\ \A b \in B : b <= h
<1> DEFINE Mirror == {WORD_BITS - 1 - b : b \in B}
<1>1. \A b \in B : b \in Nat /\ WORD_BITS - 1 - b \in Nat
  BY WordAssumption DEF Bit
<1>2. Mirror \in SUBSET Nat /\ Mirror # {}
  BY <1>1
<1>3. Min(Mirror) \in Mirror /\ \A c \in Mirror : Min(Mirror) <= c
  BY <1>2, LeastNat, Zenon
<1>4. PICK h \in B : Min(Mirror) = WORD_BITS - 1 - h
  BY <1>3
<1>5. WORD_BITS - 1 - Min(Mirror) = h
  BY <1>1, <1>4, WordAssumption
<1>6. ASSUME NEW b \in B PROVE b <= h
  <2>1. Min(Mirror) <= WORD_BITS - 1 - b
    BY <1>3
  <2> QED BY <1>1, <1>4, <2>1, WordAssumption
<1> QED BY <1>5, <1>6, Zenon

\* The same downwards.
LEMMA DownFound ==
  ASSUME NatWellOrdered, IInv, scan = "down", bits # {}
  PROVE  LET m == WORD_BITS - 1 - Min({WORD_BITS - 1 - b : b \in bits})
         IN  Base(w) + m \in marked /\ Base(w) + m = NextDown(marked, from)
<1> DEFINE m == WORD_BITS - 1 - Min({WORD_BITS - 1 - b : b \in bits})
<1>1. bits \in SUBSET Bit
  BY Locals
<1>2. m \in bits /\ \A b \in bits : b <= m
  BY <1>1, HighestBit
<1> HIDE DEF m
<1>3. m \in Bit /\ m \in Nat
  BY <1>1, <1>2, WordAssumption DEF Bit
<1>4. /\ from \in Idx
      /\ \A b \in Bit : b \in bits <=> Base(w) + b \in marked /\ Base(w) + b <= from
      /\ \A i \in marked : i <= from => i < Base(w + 1)
  BY DEF IInv, ScanHolds
<1>5. Base(w) + m \in marked /\ Base(w) + m <= from
  BY <1>2, <1>3, <1>4
<1>6. ASSUME NEW i \in marked, i <= from PROVE Base(w) + m >= i
  <2>1. i < Base(w + 1) /\ i \in Nat
    BY <1>4, <1>6, Locals
  <2>2. CASE i >= Base(w)
    <3>1. i - Base(w) \in Bit /\ i = Base(w) + (i - Base(w))
      BY <2>1, <2>2, BitOfWord, Locals
    <3>2. i - Base(w) \in bits
      BY <1>4, <1>6, <3>1, Zenon
    <3>3. i - Base(w) <= m
      BY <1>2, <3>2
    <3> QED BY <1>3, <2>1, <3>3, Locals
  <2>3. CASE i < Base(w)
    BY <1>3, <2>1, <2>3, Locals
  <2>4. Base(w) \in Nat
    BY Locals
  <2> QED BY <2>1, <2>2, <2>3, <2>4
<1>7. NextDown(marked, from) = Base(w) + m
  BY <1>4, <1>5, <1>6, NextDownIs, Locals
<1> QED BY <1>5, <1>7 DEF m

LEMMA DownPassed ==
  ASSUME IInv, scan = "down", bits = {}
  PROVE  \A i \in marked : i <= from => i < Base(w)
<1> SUFFICES ASSUME NEW i \in marked, i <= from, ~(i < Base(w)) PROVE FALSE
  OBVIOUS
<1>1. /\ \A b \in Bit : b \in bits <=> Base(w) + b \in marked /\ Base(w) + b <= from
      /\ i < Base(w + 1)
  BY DEF IInv, ScanHolds
<1>2. i \in Nat /\ i >= Base(w)
  BY Locals
<1>3. i - Base(w) \in Bit /\ i = Base(w) + (i - Base(w))
  BY <1>1, <1>2, BitOfWord, Locals
<1> QED BY <1>1, <1>3, Zenon

-----------------------------------------------------------------------------
(* The steps of the loops                                                   *)

\* A step that finishes a query.
LEMMA ReturnStep ==
  ASSUME IInv, NEW r \in Idx \cup {NULL_IDX}, Return(r), UNCHANGED <<words, from, marked>>
  PROVE  IInv'
<1>1. BitmapTypeOK'
  BY WordsCover DEF IInv, BitmapTypeOK, Return
<1>2. WordsExact'
  BY WordsKept DEF IInv
<1>3. ScanHolds'
  BY DEF ScanHolds, Return
<1> QED BY <1>1, <1>2, <1>3 DEF IInv

\* One iteration of the loop of next_up.
LEMMA ScanUpStep ==
  ASSUME NatWellOrdered, IInv, scan_up
  PROVE  IInv' /\ (scan' = "none" => result' = NextUp(marked, from))
<1>1. scan = "up" /\ UNCHANGED <<words, from, marked>> /\ from \in Idx
  BY DEF scan_up, IInv, ScanHolds
<1>2. CASE bits # {}
  <2>1. Return(Base(w) + Min(bits))
    BY <1>2 DEF scan_up
  <2>2. Base(w) + Min(bits) \in Idx /\ Base(w) + Min(bits) = NextUp(marked, from)
    BY <1>1, <1>2, UpFound, Locals
  <2>3. IInv'
    BY <1>1, <2>1, <2>2, ReturnStep
  <2> QED BY <2>1, <2>2, <2>3 DEF Return
<1>3. CASE bits = {} /\ w + 1 >= NUM_WORDS
  <2>1. Return(NULL_IDX)
    BY <1>3 DEF scan_up
  <2>2. w + 1 = NUM_WORDS
    BY <1>3, Locals, WordsCover
  <2>3. \A i \in marked : ~(i >= from)
    <3>1. \A i \in marked : i >= from => i >= Base(NUM_WORDS)
      BY <1>1, <1>3, <2>2, UpPassed
    <3>2. Base(NUM_WORDS) \in Nat
      BY WordsCover, BaseStep
    <3> QED BY <3>1, <3>2, Locals
  <2>4. NextUp(marked, from) = NULL_IDX
    BY <2>3 DEF NextUp
  <2>5. IInv'
    BY <1>1, <2>1, ReturnStep
  <2> QED BY <2>1, <2>4, <2>5 DEF Return
<1>4. CASE bits = {} /\ ~(w + 1 >= NUM_WORDS)
  <2>1. w' = w + 1 /\ bits' = words[w + 1] /\ UNCHANGED <<scan, result>>
    BY <1>4 DEF scan_up
  <2>2. w + 1 \in Words /\ w + 1 \in Nat /\ (w + 1) + 1 \in Nat
    BY <1>4, Locals, WordsCover DEF Words
  <2>3. /\ words[w + 1] \subseteq Bit
        /\ \A b \in Bit : b \in words[w + 1] <=> Base(w + 1) + b \in marked
    BY <2>2 DEF IInv, BitmapTypeOK, WordsExact, Words
  <2>4. BitmapTypeOK'
    BY <1>1, <2>1, <2>2, <2>3 DEF IInv, BitmapTypeOK, Words
  <2>5. WordsExact'
    BY <1>1, WordsKept DEF IInv
  <2>6. Base(w + 1) \in Nat /\ Base((w + 1) + 1) = Base(w + 1) + WORD_BITS
    BY <2>2, BaseStep
  <2>7. from \in Nat /\ from < Base(w + 1)
    BY <1>1, SizesAssumption DEF IInv, ScanHolds, Idx
  <2>8. \A b \in Bit : Base(w + 1) + b >= from
    BY <2>6, <2>7, WordAssumption DEF Bit
  <2>9. from < Base((w + 1) + 1)
    BY <2>6, <2>7, WordAssumption
  <2>10. \A i \in marked : i >= from => i >= Base(w + 1)
    BY <1>1, <1>4, UpPassed
  <2>11. ScanHolds'
    BY <1>1, <2>1, <2>3, <2>8, <2>9, <2>10 DEF ScanHolds
  <2> QED BY <1>1, <2>1, <2>4, <2>5, <2>11 DEF IInv
<1> QED BY <1>2, <1>3, <1>4

\* One iteration of the loop of next_down.
LEMMA ScanDownStep ==
  ASSUME NatWellOrdered, IInv, scan_down
  PROVE  IInv' /\ (scan' = "none" => result' = NextDown(marked, from))
<1> DEFINE m == WORD_BITS - 1 - Min({WORD_BITS - 1 - b : b \in bits})
<1>1. scan = "down" /\ UNCHANGED <<words, from, marked>> /\ from \in Idx
  BY DEF scan_down, IInv, ScanHolds
<1>2. CASE bits # {}
  <2>1. Return(Base(w) + m)
    BY <1>2 DEF scan_down
  <2>2. Base(w) + m \in marked /\ Base(w) + m = NextDown(marked, from)
    BY <1>1, <1>2, DownFound
  <2> HIDE DEF m
  <2>3. IInv'
    BY <1>1, <2>1, <2>2, ReturnStep, Locals
  <2> QED BY <2>1, <2>2, <2>3 DEF Return
<1>3. CASE bits = {} /\ w = 0
  <2>1. Return(NULL_IDX)
    BY <1>3 DEF scan_down
  <2>2. \A i \in marked : ~(i <= from)
    <3>1. \A i \in marked : i <= from => i < Base(0)
      BY <1>1, <1>3, DownPassed
    <3>2. Base(0) = 0
      BY WordAssumption DEF Base
    <3> QED BY <3>1, <3>2, Locals
  <2>3. NextDown(marked, from) = NULL_IDX
    BY <2>2 DEF NextDown
  <2>4. IInv'
    BY <1>1, <2>1, ReturnStep
  <2> QED BY <2>1, <2>3, <2>4 DEF Return
<1>4. CASE bits = {} /\ w # 0
  <2>1. w' = w - 1 /\ bits' = words[w - 1] /\ UNCHANGED <<scan, result>>
    BY <1>4 DEF scan_down
  <2>2. w - 1 \in Words /\ w - 1 \in Nat /\ (w - 1) + 1 = w
    BY <1>4, Locals, WordsCover DEF Words
  <2>3. /\ words[w - 1] \subseteq Bit
        /\ \A b \in Bit : b \in words[w - 1] <=> Base(w - 1) + b \in marked
    BY <2>2 DEF IInv, BitmapTypeOK, WordsExact, Words
  <2>4. BitmapTypeOK'
    BY <1>1, <2>1, <2>2, <2>3 DEF IInv, BitmapTypeOK, Words
  <2>5. WordsExact'
    BY <1>1, WordsKept DEF IInv
  <2>6. Base(w - 1) \in Nat /\ Base(w) = Base(w - 1) + WORD_BITS
    BY <2>2, BaseStep
  <2>7. from \in Nat /\ from >= Base(w)
    BY <1>1, SizesAssumption DEF IInv, ScanHolds, Idx
  <2>8. \A b \in Bit : Base(w - 1) + b <= from
    BY <2>6, <2>7, WordAssumption DEF Bit
  <2>9. from >= Base(w - 1)
    BY <2>6, <2>7, WordAssumption
  <2>10. \A i \in marked : i <= from => i < Base((w - 1) + 1)
    BY <1>1, <1>4, <2>2, DownPassed
  <2>11. ScanHolds'
    BY <1>1, <2>1, <2>3, <2>8, <2>9, <2>10 DEF ScanHolds
  <2> QED BY <1>1, <2>1, <2>4, <2>5, <2>11 DEF IInv
<1> QED BY <1>2, <1>3, <1>4

LEMMA NextIInv ==
  ASSUME NatWellOrdered, IInv, [BitmapNext]_bitmapVars
  PROVE  IInv'
<1>1. CASE UNCHANGED bitmapVars
  BY <1>1 DEF bitmapVars, IInv, BitmapTypeOK, WordsExact, ScanHolds
<1> QED BY <1>1, MarkStep, QueryStep, ScanUpStep, ScanDownStep DEF BitmapNext

-----------------------------------------------------------------------------
(* The theorems                                                             *)

INSTANCE WellFoundedInduction

\* The natural numbers are well-ordered.
LEMMA NatWellOrderedHolds == NatWellOrdered
<1> SUFFICES ASSUME NEW S \in SUBSET Nat, S # {}
             PROVE  \E m \in S : \A i \in S : m <= i
  BY DEF NatWellOrdered
<1>1. PICK m \in S : \A i \in S : ~(<<i, m>> \in OpToRel(<, Nat))
  BY NatLessThanWellFounded, WFMin
<1>2. \A i \in S : ~(i < m)
  <2>1. OpToRel(<, Nat) = {ss \in Nat \X Nat : ss[1] < ss[2]}
    BY DEF OpToRel
  <2>2. QED
    BY <1>1, <2>1
<1>3. QED
  BY <1>2

\* The inductive invariant holds for every ladder and word size.
THEOREM BitmapInvariant == BitmapSpec => []IInv
<1>1. IInv /\ [BitmapNext]_bitmapVars => IInv'
  BY NatWellOrderedHolds, NextIInv
<1> QED BY <1>1, InitIInv, PTL DEF BitmapSpec

\* For every ladder and word size, test(i) is membership in the set of the indices
\* set and not cleared.
THEOREM BitmapWordsAreMarked == BitmapSpec => []WordsAreMarked
<1>1. IInv => WordsAreMarked
  <2> SUFFICES ASSUME IInv, NEW idx \in Idx
               PROVE  BitOf(idx) \in words[WordOf(idx)] <=> idx \in marked
    BY DEF WordsAreMarked
  <2>1. idx \in Nat /\ WordOf(idx) \in Words
    BY WordsCover, SizesAssumption DEF Idx
  <2>2. BitOf(idx) \in Bit /\ idx = Base(WordOf(idx)) + BitOf(idx)
    BY <2>1, IndexSplit
  <2> QED BY <2>1, <2>2, Zenon DEF IInv, WordsExact, Words
<1> QED BY <1>1, BitmapInvariant, PTL

\* For every ladder and word size, next_up and next_down return the nearest marked
\* index, the meaning that the order book's find_best is specified over.
THEOREM BitmapQueryIsNearest == BitmapSpec => QueryIsNearest
<1>1. IInv /\ [BitmapNext]_bitmapVars =>
        [/\ scan = "up" /\ scan' = "none" => result' = NextUp(marked, from)
         /\ scan = "down" /\ scan' = "none" => result' = NextDown(marked, from)]_bitmapVars
  <2> SUFFICES ASSUME IInv, BitmapNext
               PROVE  /\ scan = "up" /\ scan' = "none" => result' = NextUp(marked, from)
                      /\ scan = "down" /\ scan' = "none" => result' = NextDown(marked, from)
    OBVIOUS
  <2>1. CASE scan_up
    BY <2>1, NatWellOrderedHolds, ScanUpStep DEF scan_up
  <2>2. CASE scan_down
    BY <2>2, NatWellOrderedHolds, ScanDownStep DEF scan_down
  <2>3. CASE scan = "none"
    BY <2>3
  <2> QED
    BY <2>1, <2>2, <2>3 DEF BitmapNext, set, clear, out_of_range, next_up, next_down
<1> QED BY <1>1, BitmapInvariant, PTL DEF BitmapSpec, QueryIsNearest
=============================================================================
