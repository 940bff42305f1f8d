--------------------------- MODULE BookOpsProofs ---------------------------
(***************************************************************************)
(* Lemmas about the operators of BookOps: least and greatest ladder        *)
(* indices, and what the operations on a duplicate-free sequence of slots  *)
(* (a price level, or the free list) do to its set of slots.               *)
(***************************************************************************)
EXTENDS BookOps, TLAPS

-----------------------------------------------------------------------------
(* Sequences                                                                *)

\* The length, domain and elements of a sequence.
LEMMA SeqLen ==
  ASSUME NEW S, NEW q \in Seq(S)
  PROVE  /\ Len(q) \in Nat /\ DOMAIN q = 1 .. Len(q) /\ (q = <<>> <=> Len(q) = 0)
         /\ \A i \in 1 .. Len(q) : q[i] \in S
OBVIOUS

\* Append adds its element at the end.
LEMMA SeqAppend ==
  ASSUME NEW S, NEW q \in Seq(S), NEW x \in S
  PROVE  /\ Append(q, x) \in Seq(S) /\ Append(q, x) # <<>>
         /\ Len(Append(q, x)) = Len(q) + 1 /\ Append(q, x)[Len(q) + 1] = x
         /\ \A i \in 1 .. Len(q) : Append(q, x)[i] = q[i]
OBVIOUS

\* Head and Tail take a sequence apart.
LEMMA SeqHeadTail ==
  ASSUME NEW S, NEW q \in Seq(S), q # <<>>
  PROVE  /\ Head(q) \in S /\ Tail(q) \in Seq(S) /\ Len(Tail(q)) = Len(q) - 1
         /\ \A i \in 1 .. Len(q) - 1 : Tail(q)[i] = q[i + 1]
OBVIOUS

\* The elements of a part of a sequence.
LEMMA SeqSub ==
  ASSUME NEW S, NEW q \in Seq(S), NEW m \in 1 .. Len(q) + 1, NEW n \in m - 1 .. Len(q)
  PROVE  /\ SubSeq(q, m, n) \in Seq(S) /\ Len(SubSeq(q, m, n)) = n - m + 1
         /\ \A i \in 1 .. n - m + 1 : SubSeq(q, m, n)[i] = q[m + i - 1]
OBVIOUS

\* The elements of a concatenation.
LEMMA SeqJoin ==
  ASSUME NEW S, NEW q \in Seq(S), NEW r \in Seq(S)
  PROVE  /\ q \o r \in Seq(S) /\ Len(q \o r) = Len(q) + Len(r)
         /\ \A i \in 1 .. Len(q) + Len(r) :
              (q \o r)[i] = IF i <= Len(q) THEN q[i] ELSE r[i - Len(q)]
OBVIOUS

-----------------------------------------------------------------------------
(* Duplicate-free sequences of slots                                        *)

\* Append adds its element and keeps a sequence without it duplicate-free.
LEMMA AppendSlot ==
  ASSUME NEW q \in Seq(Slots), NEW s \in Slots, IsInjective(q), s \notin Range(q)
  PROVE  /\ Append(q, s) \in Seq(Slots)
         /\ Append(q, s) # <<>>
         /\ IsInjective(Append(q, s))
         /\ Range(Append(q, s)) = Range(q) \cup {s}
<1> DEFINE n == Len(q)
           a == Append(q, s)
<1>1. n \in Nat /\ DOMAIN q = 1 .. n
  BY SeqLen
<1>2. /\ a \in Seq(Slots) /\ a # <<>> /\ Len(a) = n + 1
      /\ \A i \in 1 .. n : a[i] = q[i]
      /\ a[n + 1] = s
  BY SeqAppend
<1>3. DOMAIN a = 1 .. n + 1
  BY <1>2, SeqLen
<1>4. \A i \in 1 .. n : q[i] # s
  BY <1>1 DEF Range
<1>5. IsInjective(a)
  <2>1. SUFFICES ASSUME NEW i \in 1 .. n + 1, NEW j \in 1 .. n + 1, a[i] = a[j]
                 PROVE  i = j
    BY <1>3 DEF IsInjective
  <2>2. CASE i \in 1 .. n /\ j \in 1 .. n
    BY <1>1, <1>2, <2>1, <2>2 DEF IsInjective
  <2>3. CASE i = n + 1 \/ j = n + 1
    BY <1>1, <1>2, <1>4, <2>1, <2>3
  <2>4. QED
    BY <1>1, <2>2, <2>3
<1>6. Range(a) = Range(q) \cup {s}
  <2>1. ASSUME NEW x \in Range(a) PROVE x \in Range(q) \cup {s}
    <3>1. PICK i \in 1 .. n + 1 : x = a[i]
      BY <1>3 DEF Range
    <3>2. CASE i \in 1 .. n
      BY <1>1, <1>2, <3>1, <3>2 DEF Range
    <3>3. CASE i = n + 1
      BY <1>2, <3>1, <3>3
    <3>4. QED
      BY <1>1, <3>2, <3>3
  <2>2. ASSUME NEW x \in Range(q) PROVE x \in Range(a)
    <3>1. PICK i \in 1 .. n : x = q[i]
      BY <1>1 DEF Range
    <3>2. i \in 1 .. n + 1 /\ a[i] = x
      BY <1>1, <1>2, <3>1
    <3>3. QED
      BY <1>3, <3>2 DEF Range
  <2>3. s \in Range(a)
    <3>1. n + 1 \in 1 .. n + 1
      BY <1>1
    <3>2. QED
      BY <1>2, <1>3, <3>1 DEF Range
  <2>4. QED
    BY <2>1, <2>2, <2>3
<1>7. QED
  BY <1>2, <1>5, <1>6

\* d is q without its position k.
Drops(d, q, k) ==
  /\ Len(d) = Len(q) - 1
  /\ \A i \in 1 .. Len(q) - 1 : (i < k => d[i] = q[i]) /\ (i >= k => d[i] = q[i + 1])

\* Taking out position k of a duplicate-free sequence, however the rest is
\* renumbered, takes out exactly the element there.
LEMMA DropPosition ==
  ASSUME NEW q \in Seq(Slots), IsInjective(q), NEW k \in 1 .. Len(q),
         NEW d \in Seq(Slots), Drops(d, q, k)
  PROVE  IsInjective(d) /\ Range(d) = Range(q) \ {q[k]}
<1> DEFINE n == Len(q)
           up(i) == IF i < k THEN i ELSE i + 1
<1>1. n \in Nat /\ DOMAIN q = 1 .. n /\ DOMAIN d = 1 .. n - 1
  BY SeqLen DEF Drops
<1>2. \A i \in 1 .. n - 1 : up(i) \in 1 .. n /\ up(i) # k /\ d[i] = q[up(i)]
  BY <1>1 DEF Drops
<1>3. IsInjective(d)
  <2>1. SUFFICES ASSUME NEW i \in 1 .. n - 1, NEW j \in 1 .. n - 1, d[i] = d[j]
                 PROVE  i = j
    BY <1>1 DEF IsInjective
  <2>2. up(i) = up(j)
    <3> HIDE DEF up
    <3>1. QED
      BY <1>1, <1>2, <2>1 DEF IsInjective
  <2>3. QED
    BY <1>1, <2>2
<1>4. ASSUME NEW x \in Range(d) PROVE x \in Range(q) \ {q[k]}
  <2>1. PICK i \in 1 .. n - 1 : x = d[i]
    BY <1>1 DEF Range
  <2>2. x = q[up(i)] /\ up(i) \in DOMAIN q /\ up(i) # k
    BY <1>1, <1>2, <2>1
  <2>3. QED
    BY <1>1, <2>2 DEF Range, IsInjective
<1>5. ASSUME NEW x \in Range(q) \ {q[k]} PROVE x \in Range(d)
  <2>1. PICK i \in 1 .. n : x = q[i] /\ i # k
    BY <1>1 DEF Range
  <2>2. PICK j \in 1 .. n - 1 : up(j) = i
    <3>1. CASE i < k
      <4>1. i \in 1 .. n - 1 /\ up(i) = i
        BY <1>1, <3>1
      <4>2. QED
        BY <4>1
    <3>2. CASE i > k
      <4>1. i - 1 \in 1 .. n - 1 /\ up(i - 1) = i
        BY <1>1, <3>2
      <4>2. QED
        BY <4>1
    <3>3. QED
      BY <1>1, <2>1, <3>1, <3>2
  <2>3. d[j] = x /\ j \in DOMAIN d
    BY <1>1, <1>2, <2>1, <2>2
  <2>4. QED
    BY <2>3 DEF Range
<1>6. QED
  BY <1>3, <1>4, <1>5

\* PopFront drops the oldest slot of a level.
LEMMA PopFrontSlot ==
  ASSUME NEW q \in Seq(Slots), q # <<>>, IsInjective(q)
  PROVE  /\ Head(q) \in Slots /\ Head(q) \in Range(q)
         /\ PopFront(q) \in Seq(Slots)
         /\ IsInjective(PopFront(q))
         /\ Range(PopFront(q)) = Range(q) \ {Head(q)}
<1>1. Len(q) \in Nat /\ Len(q) >= 1 /\ DOMAIN q = 1 .. Len(q)
  BY SeqLen
<1>2. Head(q) = q[1] /\ 1 \in 1 .. Len(q)
  BY <1>1
<1> DEFINE d == Tail(q)
<1>3. /\ Head(q) \in Slots /\ d \in Seq(Slots)
      /\ Len(d) = Len(q) - 1
      /\ \A i \in 1 .. Len(q) - 1 : d[i] = q[i + 1]
  BY SeqHeadTail
<1>4. Drops(d, q, 1)
  BY <1>1, <1>3 DEF Drops
<1> HIDE DEF d
<1>5. IsInjective(d) /\ Range(d) = Range(q) \ {q[1]}
  BY <1>2, <1>3, <1>4, DropPosition
<1>6. QED
  BY <1>1, <1>2, <1>3, <1>5 DEF PopFront, Range, d

\* Pool::alloc takes the top of the free list.
LEMMA TakeTop ==
  ASSUME NEW q \in Seq(Slots), q # <<>>, IsInjective(q)
  PROVE  /\ Top(q) \in Slots /\ Top(q) \in Range(q)
         /\ Below(q) \in Seq(Slots)
         /\ IsInjective(Below(q))
         /\ Range(Below(q)) = Range(q) \ {Top(q)}
<1> DEFINE n == Len(q)
           d == SubSeq(q, 1, n - 1)
<1>1. n \in Nat /\ n >= 1 /\ DOMAIN q = 1 .. n /\ n \in 1 .. n
  BY SeqLen
<1>2. \A i \in 1 .. n : q[i] \in Slots
  BY SeqLen
<1>3. /\ d \in Seq(Slots)
      /\ Len(d) = n - 1
      /\ \A i \in 1 .. n - 1 : d[i] = q[i]
  <2>1. 1 \in 1 .. n + 1 /\ n - 1 \in 1 - 1 .. n
    BY <1>1
  <2>2. /\ d \in Seq(Slots) /\ Len(d) = (n - 1) - 1 + 1
        /\ \A i \in 1 .. (n - 1) - 1 + 1 : d[i] = q[1 + i - 1]
    BY <2>1, SeqSub
  <2>3. QED
    BY <1>1, <2>2
<1>4. Drops(d, q, n)
  BY <1>1, <1>3 DEF Drops
<1> HIDE DEF d
<1>5. /\ IsInjective(d)
      /\ Range(d) = Range(q) \ {q[n]}
  BY <1>1, <1>3, <1>4, DropPosition
<1>6. QED
  BY <1>1, <1>2, <1>3, <1>5 DEF Below, Top, Range, d

\* RemoveSlot drops one position of the queue, where the slot is.
LEMMA RemoveSlotDrops ==
  ASSUME NEW q \in Seq(Slots), NEW s \in Range(q)
  PROVE  /\ RemoveSlot(q, s) \in Seq(Slots)
         /\ \E k \in 1 .. Len(q) : q[k] = s /\ Drops(RemoveSlot(q, s), q, k)
<1> DEFINE n == Len(q)
           k == CHOOSE i \in DOMAIN q : q[i] = s
           a == SubSeq(q, 1, k - 1)
           b == SubSeq(q, k + 1, n)
           d == a \o b
<1>1. n \in Nat /\ DOMAIN q = 1 .. n /\ \A i \in 1 .. n : q[i] \in Slots
  BY SeqLen
<1>2. k \in 1 .. n /\ q[k] = s
  BY <1>1 DEF Range
<1> HIDE DEF k
<1>3. /\ a \in Seq(Slots) /\ Len(a) = k - 1
      /\ \A i \in 1 .. k - 1 : a[i] = q[i]
  <2>1. 1 \in 1 .. n + 1 /\ k - 1 \in 1 - 1 .. n
    BY <1>1, <1>2
  <2>2. /\ a \in Seq(Slots) /\ Len(a) = (k - 1) - 1 + 1
        /\ \A i \in 1 .. (k - 1) - 1 + 1 : a[i] = q[1 + i - 1]
    BY <2>1, SeqSub
  <2>3. QED
    BY <1>1, <1>2, <2>2
<1>4. /\ b \in Seq(Slots) /\ Len(b) = n - k
      /\ \A i \in 1 .. n - k : b[i] = q[k + i]
  <2>1. k + 1 \in 1 .. n + 1 /\ n \in (k + 1) - 1 .. n
    BY <1>1, <1>2
  <2>3. /\ b \in Seq(Slots) /\ Len(b) = n - (k + 1) + 1
        /\ \A i \in 1 .. n - (k + 1) + 1 : b[i] = q[(k + 1) + i - 1]
    BY <2>1, SeqSub
  <2>4. Len(b) = n - k
    <3> HIDE DEF b, n
    <3>1. QED
      BY <1>1, <1>2, <2>3
  <2>5. ASSUME NEW i \in 1 .. n - k PROVE b[i] = q[k + i]
    <3>1. i \in 1 .. n - (k + 1) + 1 /\ (k + 1) + i - 1 = k + i
      BY <1>1, <1>2
    <3>2. QED
      BY <2>3, <3>1
  <2>6. QED
    BY <2>3, <2>4, <2>5
<1> HIDE DEF a, b
<1>5. /\ d \in Seq(Slots) /\ Len(d) = Len(a) + Len(b)
      /\ \A i \in 1 .. Len(a) + Len(b) :
           d[i] = IF i <= Len(a) THEN a[i] ELSE b[i - Len(a)]
  BY <1>3, <1>4, SeqJoin
<1>6. Len(d) = n - 1
  BY <1>1, <1>2, <1>3, <1>4, <1>5
<1>7. \A i \in 1 .. n - 1 : (i < k => d[i] = q[i]) /\ (i >= k => d[i] = q[i + 1])
  <2> TAKE i \in 1 .. n - 1
  <2>1. d[i] = IF i <= k - 1 THEN a[i] ELSE b[i - (k - 1)]
    BY <1>1, <1>2, <1>3, <1>4, <1>5
  <2>2. ASSUME i < k PROVE d[i] = q[i]
    BY <1>1, <1>2, <1>3, <2>1, <2>2
  <2>3. ASSUME i >= k PROVE d[i] = q[i + 1]
    <3>1. i - (k - 1) \in 1 .. n - k /\ k + (i - (k - 1)) = i + 1
      BY <1>1, <1>2, <2>3
    <3>2. b[i - (k - 1)] = q[i + 1]
      BY <1>4, <3>1
    <3>3. ~(i <= k - 1)
      BY <1>1, <1>2, <2>3
    <3>4. QED
      BY <2>1, <3>2, <3>3
  <2>4. QED
    BY <2>2, <2>3
<1> HIDE DEF d
<1>8. Drops(d, q, k)
  BY <1>6, <1>7 DEF Drops
<1>9. RemoveSlot(q, s) = d
  BY DEF RemoveSlot, a, b, d, k
<1>10. QED
  BY <1>2, <1>5, <1>8, <1>9

\* RemoveSlot takes one slot out of a level, wherever in the queue it is.
LEMMA RemoveSlotFromLevel ==
  ASSUME NEW q \in Seq(Slots), IsInjective(q), NEW s \in Range(q)
  PROVE  /\ RemoveSlot(q, s) \in Seq(Slots)
         /\ IsInjective(RemoveSlot(q, s))
         /\ Range(RemoveSlot(q, s)) = Range(q) \ {s}
<1> DEFINE d == RemoveSlot(q, s)
<1>1. d \in Seq(Slots) /\ \E k \in 1 .. Len(q) : q[k] = s /\ Drops(d, q, k)
  BY RemoveSlotDrops
<1> HIDE DEF d
<1>2. PICK k \in 1 .. Len(q) : q[k] = s /\ Drops(d, q, k)
  BY <1>1
<1>3. IsInjective(d) /\ Range(d) = Range(q) \ {s}
  BY <1>1, <1>2, DropPosition
<1>4. QED
  BY <1>1, <1>3 DEF d

-----------------------------------------------------------------------------
(* Least and greatest elements.  That the natural numbers are well-ordered  *)
(* is an assumption of these lemmas and of what rests on them; the modules  *)
(* that use them prove it last (NatWellOrderedHolds), so that the library's *)
(* induction theorems are in the context of no other step.                  *)

NatWellOrdered == \A S \in SUBSET Nat : S # {} => \E m \in S : \A i \in S : m <= i

\* A non-empty set of natural numbers has a least element.
LEMMA LeastNat ==
  ASSUME NatWellOrdered, NEW S \in SUBSET Nat, S # {}
  PROVE  Min(S) \in S /\ \A i \in S : Min(S) <= i
<1>1. \E m \in S : \A i \in S : m <= i
  BY DEF NatWellOrdered
<1>2. QED
  BY <1>1 DEF Min

\* A non-empty set of ladder indices has a least element.
LEMMA LeastExists ==
  ASSUME NatWellOrdered, NEW S \in SUBSET Idx, S # {}
  PROVE  Min(S) \in S /\ \A i \in S : Min(S) <= i
<1>1. S \in SUBSET Nat
  BY SizesAssumption DEF Idx
<1>2. QED
  BY <1>1, LeastNat

\* A non-empty set of ladder indices has a greatest element.
LEMMA GreatestExists ==
  ASSUME NatWellOrdered, NEW S \in SUBSET Idx, S # {}
  PROVE  Max(S) \in S /\ \A i \in S : Max(S) >= i
<1> DEFINE Mirror == {LADDER_SIZE - 1 - i : i \in S}
<1>1. S \subseteq 0 .. LADDER_SIZE - 1 /\ LADDER_SIZE \in Nat
  BY SizesAssumption DEF Idx
<1>2. Mirror \in SUBSET Idx /\ Mirror # {}
  <2>1. \A i \in S : LADDER_SIZE - 1 - i \in Idx
    BY <1>1 DEF Idx
  <2>2. QED
    BY <2>1
<1>3. Min(Mirror) \in Mirror /\ \A i \in Mirror : Min(Mirror) <= i
  BY <1>2, LeastExists
<1>4. PICK m \in S : \A i \in Mirror : LADDER_SIZE - 1 - m <= i
  BY <1>3
<1>5. \A i \in S : m >= i
  BY <1>1, <1>4
<1>6. QED
  BY <1>1, <1>5 DEF Max
=============================================================================
