------------------------- MODULE UringKernelProofs --------------------------
(***************************************************************************)
(* The io_uring gateway, first part: what each kind of step does to the    *)
(* counts of entries and completions between get_sqe and handle_cqe, for   *)
(* any number of descriptors and send slots, and the steps of the clients  *)
(* and of the kernel.                                                      *)
(***************************************************************************)
EXTENDS UringGateway, TLAPS

-----------------------------------------------------------------------------
(* Finite sets.  What the argument needs of them is one formula, which the  *)
(* lemmas assume and UringGatewayProofs proves at its end, so that no step  *)
(* before it has the library's theorems in its context.                     *)

FiniteSetFacts ==
  /\ IsFiniteSet({}) /\ Cardinality({}) = 0
  /\ \A n \in Nat : IsFiniteSet(1 .. n)
  /\ \A S : IsFiniteSet(S) =>
       /\ Cardinality(S) \in Nat /\ (Cardinality(S) = 0 <=> S = {})
       /\ \A T \in SUBSET S : IsFiniteSet(T)
       /\ \A x : /\ IsFiniteSet(S \cup {x}) /\ IsFiniteSet(S \ {x})
                 /\ Cardinality(S \cup {x}) = IF x \in S THEN Cardinality(S) ELSE Cardinality(S) + 1
                 /\ Cardinality(S \ {x}) = IF x \in S THEN Cardinality(S) - 1 ELSE Cardinality(S)
  /\ \A S, T : \A f \in [S -> T] :
       /\ IsFiniteSet(S)
       /\ \A a, b \in S : f[a] = f[b] => a = b
       /\ \A t \in T : \E a \in S : f[a] = t
       => Cardinality(T) = Cardinality(S)

\* The sets with cardinality zero are those with no member.
EmptyCounted ==
  /\ IsFiniteSet({}) /\ Cardinality({}) = 0
  /\ \A S : IsFiniteSet(S) => Cardinality(S) \in Nat /\ (Cardinality(S) = 0 <=> S = {})

\* The empty set, and the sets with no member, have cardinality zero.
LEMMA FinEmpty ==
  ASSUME FiniteSetFacts
  PROVE  EmptyCounted
BY Zenon DEF FiniteSetFacts, EmptyCounted

\* A subset of a finite set is finite.
LEMMA FinSubset ==
  ASSUME FiniteSetFacts, NEW S, IsFiniteSet(S), NEW T \in SUBSET S
  PROVE  IsFiniteSet(T)
BY Zenon DEF FiniteSetFacts

\* The cardinality of a set with one more element.
OneMore(S, x) ==
  /\ IsFiniteSet(S \cup {x})
  /\ Cardinality(S \cup {x}) = IF x \in S THEN Cardinality(S) ELSE Cardinality(S) + 1

\* One more element counts one more if it is new.
LEMMA FinAdd ==
  ASSUME FiniteSetFacts, NEW S, IsFiniteSet(S), NEW x
  PROVE  OneMore(S, x)
BY Zenon DEF FiniteSetFacts, OneMore

\* The cardinality of a set with one element less.
OneLess(S, x) ==
  /\ IsFiniteSet(S \ {x})
  /\ Cardinality(S \ {x}) = IF x \in S THEN Cardinality(S) - 1 ELSE Cardinality(S)

\* One element less counts one less if it was there.
LEMMA FinRemove ==
  ASSUME FiniteSetFacts, NEW S, IsFiniteSet(S), NEW x
  PROVE  OneLess(S, x)
BY Zenon DEF FiniteSetFacts, OneLess

\* A bijection keeps the cardinality.
LEMMA FinBijection ==
  ASSUME FiniteSetFacts, NEW S, NEW T, IsFiniteSet(S), NEW f \in [S -> T],
         \A a, b \in S : f[a] = f[b] => a = b, \A t \in T : \E a \in S : f[a] = t
  PROVE  Cardinality(T) = Cardinality(S)
BY SMT DEF FiniteSetFacts

-----------------------------------------------------------------------------
(* Sequences                                                                *)

\* A function on 1 .. n is a sequence.
LEMMA SeqFun ==
  ASSUME NEW S, NEW n \in Nat, NEW f \in [1 .. n -> S]
  PROVE  f \in Seq(S) /\ Len(f) = n
OBVIOUS

\* Sequences of one length with the same elements are equal.
LEMMA SeqSame ==
  ASSUME NEW S, NEW s \in Seq(S), NEW t \in Seq(S), Len(s) = Len(t),
         \A i \in 1 .. Len(s) : s[i] = t[i]
  PROVE  s = t
OBVIOUS

\* The elements of a concatenation.
Joined(S, s, t) ==
  /\ s \o t \in Seq(S) /\ Len(s \o t) = Len(s) + Len(t)
  /\ \A i \in 1 .. Len(s) + Len(t) : (s \o t)[i] = IF i <= Len(s) THEN s[i] ELSE t[i - Len(s)]

\* The elements of a concatenation.
LEMMA SeqJoin ==
  ASSUME NEW S, NEW s \in Seq(S), NEW t \in Seq(S)
  PROVE  Joined(S, s, t)
BY DEF Joined

-----------------------------------------------------------------------------
(* Counting in sequences and sets                                           *)

\* A count is a natural number, and positive as soon as a member is met.
Counted(s, X) ==
  /\ IsFiniteSet({i \in DOMAIN s : s[i] \in X})
  /\ Count(s, X) \in Nat
  /\ \A i \in DOMAIN s : s[i] \in X => Count(s, X) >= 1

\* A count is a natural number, and positive as soon as a member is met.
LEMMA CountType ==
  ASSUME FiniteSetFacts, NEW S, NEW s \in Seq(S), NEW X
  PROVE  Counted(s, X)
<1> DEFINE D == {i \in DOMAIN s : s[i] \in X}
<1>1. IsFiniteSet(1 .. Len(s))
  BY DEF FiniteSetFacts
<1>2. D \in SUBSET (1 .. Len(s))
  OBVIOUS
<1>3. IsFiniteSet(D)
  BY <1>1, <1>2, FinSubset, Zenon
<1>4. Cardinality(D) \in Nat /\ (Cardinality(D) = 0 <=> D = {})
  BY <1>3, FinEmpty, Zenon DEF EmptyCounted
<1>5. ASSUME NEW i \in DOMAIN s, s[i] \in X
      PROVE  Cardinality(D) >= 1
  BY <1>4, <1>5
<1> QED
  BY <1>3, <1>4, <1>5, Zenon DEF Count, Counted

\* Nothing is counted in the empty sequence.
LEMMA CountEmpty ==
  ASSUME FiniteSetFacts, NEW X
  PROVE  Count(<<>>, X) = 0
<1>1. {i \in DOMAIN <<>> : <<>>[i] \in X} = {}
  OBVIOUS
<1> QED
  BY <1>1, FinEmpty, Zenon DEF Count, EmptyCounted

\* Appending an element counts it.
LEMMA CountAppend ==
  ASSUME FiniteSetFacts, NEW S, NEW s \in Seq(S), NEW x, NEW X
  PROVE  Count(Append(s, x), X) = Count(s, X) + (IF x \in X THEN 1 ELSE 0)
<1> DEFINE D == {i \in DOMAIN s : s[i] \in X}
           E == {i \in DOMAIN Append(s, x) : Append(s, x)[i] \in X}
           n == Len(s) + 1
<1>1. /\ DOMAIN s = 1 .. Len(s) /\ DOMAIN Append(s, x) = 1 .. n /\ Len(s) \in Nat
      /\ Append(s, x)[n] = x /\ \A i \in 1 .. Len(s) : Append(s, x)[i] = s[i]
  OBVIOUS
<1>2. n \notin D
  BY <1>1
<1>5. Count(Append(s, x), X) = Cardinality(E) /\ Count(s, X) = Cardinality(D)
  BY Zenon DEF Count
<1>6. IsFiniteSet(D) /\ Count(s, X) \in Nat
  BY CountType, Zenon DEF Counted
<1>3. CASE x \in X
  <2>1. E = D \cup {n}
    BY <1>1, <1>3
  <2> QED
    <3>1. Cardinality(E) = IF n \in D THEN Cardinality(D) ELSE Cardinality(D) + 1
      BY <1>6, <2>1, FinAdd, Zenon DEF OneMore
    <3> QED
      BY <1>2, <1>3, <1>5, <3>1, Zenon
<1>4. CASE x \notin X
  <2>1. E = D
    BY <1>1, <1>4
  <2> HIDE DEF D, E
  <2> QED
    BY <1>4, <1>5, <1>6, <2>1
<1> QED
  BY <1>3, <1>4, Zenon

\* Removing the first element no longer counts it.
LEMMA CountTail ==
  ASSUME FiniteSetFacts, NEW S, NEW s \in Seq(S), s # <<>>, NEW X
  PROVE  Count(Tail(s), X) = Count(s, X) - (IF Head(s) \in X THEN 1 ELSE 0)
<1> DEFINE D == {i \in DOMAIN s : s[i] \in X}
           E == {i \in DOMAIN Tail(s) : Tail(s)[i] \in X}
           f == [i \in D \ {1} |-> i - 1]
<1>1. /\ DOMAIN s = 1 .. Len(s) /\ Len(s) \in Nat \ {0}
      /\ DOMAIN Tail(s) = 1 .. Len(s) - 1 /\ Head(s) = s[1]
      /\ \A i \in 1 .. Len(s) - 1 : Tail(s)[i] = s[i + 1]
  OBVIOUS
<1>2. 1 \in D <=> Head(s) \in X
  BY <1>1
<1>6. Count(Tail(s), X) = Cardinality(E) /\ Count(s, X) = Cardinality(D)
  BY Zenon DEF Count
<1>7. IsFiniteSet(D) /\ Count(s, X) \in Nat
  BY CountType, Zenon DEF Counted
<1>3. /\ IsFiniteSet(D \ {1})
      /\ Cardinality(D \ {1}) = Cardinality(D) - (IF Head(s) \in X THEN 1 ELSE 0)
  <2>1. /\ IsFiniteSet(D \ {1})
        /\ Cardinality(D \ {1}) = IF 1 \in D THEN Cardinality(D) - 1 ELSE Cardinality(D)
    BY <1>7, FinRemove, Zenon DEF OneLess
  <2> HIDE DEF D
  <2> QED
    BY <1>2, <1>6, <1>7, <2>1
<1>4. /\ f \in [D \ {1} -> E]
      /\ \A i, j \in D \ {1} : f[i] = f[j] => i = j
      /\ \A j \in E : \E i \in D \ {1} : f[i] = j
  <2>1. \A i \in D \ {1} : i - 1 \in E
    BY <1>1
  <2>2. \A j \in E : j + 1 \in D \ {1} /\ f[j + 1] = j
    BY <1>1
  <2>3. \A i, j \in D \ {1} : f[i] = f[j] => i = j
    BY <1>1
  <2> HIDE DEF D, E
  <2>4. f \in [D \ {1} -> E]
    BY <2>1, Zenon
  <2> HIDE DEF f
  <2> QED
    BY <2>2, <2>3, <2>4, Zenon
<1>5. Cardinality(E) = Cardinality(D \ {1})
  <2> HIDE DEF D, E, f
  <2> QED
    BY <1>3, <1>4, FinBijection, SMT
<1> HIDE DEF D, E
<1> QED
  BY <1>3, <1>5, <1>6, Zenon

\* A count without the last element.
FrontCounted(S, s, X) ==
  /\ SubSeq(s, 1, Len(s) - 1) \in Seq(S)
  /\ Count(SubSeq(s, 1, Len(s) - 1), X) = Count(s, X) - (IF s[Len(s)] \in X THEN 1 ELSE 0)

\* Removing the last element no longer counts it.
LEMMA CountFront ==
  ASSUME FiniteSetFacts, NEW S, NEW s \in Seq(S), s # <<>>, NEW X
  PROVE  FrontCounted(S, s, X)
<1> DEFINE t == SubSeq(s, 1, Len(s) - 1)
<1>1. t \in Seq(S) /\ Append(t, s[Len(s)]) = s
  OBVIOUS
<1>2. Count(s, X) = Count(t, X) + (IF s[Len(s)] \in X THEN 1 ELSE 0)
  <2>1. ASSUME NEW u \in Seq(S), NEW y
        PROVE  Count(Append(u, y), X) = Count(u, X) + (IF y \in X THEN 1 ELSE 0)
    BY CountAppend
  <2> HIDE DEF t
  <2> QED
    BY <1>1, <2>1, Zenon
<1>3. Count(t, X) \in Nat
  BY <1>1, CountType, Zenon DEF Counted
<1> QED
  BY <1>1, <1>2, <1>3 DEF FrontCounted

\* The entries in flight of a kind.
InFlight(X) == Cardinality({op \in inflight : op.sqe \in X})

\* The count of operations in flight is a number, and positive if there is one.
LEMMA InFlightType ==
  ASSUME FiniteSetFacts, IsFiniteSet(inflight), NEW X
  PROVE  /\ InFlight(X) \in Nat
         /\ \A op \in inflight : op.sqe \in X => InFlight(X) >= 1
<1> DEFINE D == {op \in inflight : op.sqe \in X}
<1>1. IsFiniteSet(D)
  BY FinSubset, Zenon
<1>2. Cardinality(D) \in Nat /\ (Cardinality(D) = 0 <=> D = {})
  BY <1>1, FinEmpty, Zenon DEF EmptyCounted
<1>3. ASSUME NEW op \in inflight, op.sqe \in X
      PROVE  Cardinality(D) >= 1
  BY <1>2, <1>3
<1> QED
  BY <1>2, <1>3, Zenon DEF InFlight

\* The set of operations in flight counts op.
OneMoreInFlight(op, X) ==
  /\ IsFiniteSet(inflight')
  /\ InFlight(X)' = InFlight(X) + (IF op.sqe \in X THEN 1 ELSE 0)

\* An operation that the kernel takes up is counted once.
LEMMA InFlightAdd ==
  ASSUME FiniteSetFacts, IsFiniteSet(inflight), NEW op, op \notin inflight, inflight' = inflight \cup {op}, NEW X
  PROVE  OneMoreInFlight(op, X)
<1> DEFINE D == {o \in inflight : o.sqe \in X}
           E == {o \in inflight' : o.sqe \in X}
<1>1. IsFiniteSet(D) /\ IsFiniteSet(inflight') /\ Cardinality(D) \in Nat
  BY FinSubset, FinAdd, FinEmpty, Zenon DEF OneMore, EmptyCounted
<1>2. CASE op.sqe \in X
  <2>1. E = D \cup {op} /\ op \notin D
    BY <1>2, Zenon
  <2> QED
    BY <1>1, <1>2, <2>1, FinAdd, Zenon DEF InFlight, OneMore, OneMoreInFlight
<1>3. CASE op.sqe \notin X
  <2>1. E = D
    BY <1>3, Zenon
  <2>2. InFlight(X)' = Cardinality(E) /\ InFlight(X) = Cardinality(D)
    BY Zenon DEF InFlight
  <2> HIDE DEF D, E
  <2> QED
    BY <1>1, <1>3, <2>1, <2>2 DEF OneMoreInFlight
<1> QED
  BY <1>2, <1>3, Zenon

\* The set of operations in flight no longer counts op.
OneLessInFlight(op, X) ==
  /\ IsFiniteSet(inflight')
  /\ InFlight(X)' = InFlight(X) - (IF op.sqe \in X THEN 1 ELSE 0)

\* An operation that ends is no longer counted.
LEMMA InFlightRemove ==
  ASSUME FiniteSetFacts, IsFiniteSet(inflight), NEW op \in inflight, inflight' = inflight \ {op}, NEW X
  PROVE  OneLessInFlight(op, X)
<1> DEFINE D == {o \in inflight : o.sqe \in X}
           E == {o \in inflight' : o.sqe \in X}
<1>1. IsFiniteSet(D) /\ IsFiniteSet(inflight') /\ Cardinality(D) \in Nat
  BY FinSubset, FinRemove, FinEmpty, Zenon DEF OneLess, EmptyCounted
<1>2. E = D \ {op}
  BY Zenon
<1>3. op \in D <=> op.sqe \in X
  BY Zenon
<1>4. InFlight(X)' = Cardinality(E) /\ InFlight(X) = Cardinality(D)
  BY Zenon DEF InFlight
<1> HIDE DEF D, E
<1> QED
  <2>1. Cardinality(D \ {op}) = IF op \in D THEN Cardinality(D) - 1 ELSE Cardinality(D)
    BY <1>1, FinRemove, Zenon DEF OneLess
  <2> QED
    BY <1>1, <1>2, <1>3, <1>4, <2>1 DEF OneLessInFlight

-----------------------------------------------------------------------------
(* The submission queue and what is on its way                              *)

One(x, X) == IF x \in X THEN 1 ELSE 0

\* What is on its way is counted by natural numbers, place by place.
PlacesCounted ==
  /\ Queue \in Seq(Sqe)
  /\ \A X : Count(Queue, X) \in Nat /\ InFlight(X) \in Nat /\ Count(cq, X) \in Nat
  /\ \A X : OnTheirWay(X) = Count(Queue, X) + InFlight(X) + Count(cq, X)
  /\ \A X : \A i \in DOMAIN Queue : Queue[i] \in X => Count(Queue, X) >= 1
  /\ \A X : \A op \in inflight : op.sqe \in X => InFlight(X) >= 1
  /\ \A X : \A i \in DOMAIN cq : cq[i] \in X => Count(cq, X) >= 1

\* The counts at all places of the ring are numbers.
LEMMA PlacesType ==
  ASSUME FiniteSetFacts, TypeOK
  PROVE  PlacesCounted
<1>1. /\ published \in Seq(Sqe) /\ prepared \in Seq(Sqe) /\ cq \in Seq(Completion)
      /\ IsFiniteSet(inflight)
  BY Zenon DEF TypeOK
<1>2. Queue \in Seq(Sqe)
  BY <1>1, SeqJoin, Zenon DEF Queue, Joined
<1>3. ASSUME NEW X
      PROVE  /\ Count(Queue, X) \in Nat /\ InFlight(X) \in Nat /\ Count(cq, X) \in Nat
             /\ OnTheirWay(X) = Count(Queue, X) + InFlight(X) + Count(cq, X)
             /\ \A i \in DOMAIN Queue : Queue[i] \in X => Count(Queue, X) >= 1
             /\ \A op \in inflight : op.sqe \in X => InFlight(X) >= 1
             /\ \A i \in DOMAIN cq : cq[i] \in X => Count(cq, X) >= 1
  <2>1. Count(Queue, X) \in Nat /\ \A i \in DOMAIN Queue : Queue[i] \in X => Count(Queue, X) >= 1
    BY <1>2, CountType, Zenon DEF Counted
  <2>2. Count(cq, X) \in Nat /\ \A i \in DOMAIN cq : cq[i] \in X => Count(cq, X) >= 1
    BY <1>1, CountType, Zenon DEF Counted
  <2>3. InFlight(X) \in Nat /\ \A op \in inflight : op.sqe \in X => InFlight(X) >= 1
    BY <1>1, InFlightType, Zenon
  <2>4. OnTheirWay(X) = Count(Queue, X) + InFlight(X) + Count(cq, X)
    BY Zenon DEF OnTheirWay, InFlight
  <2> QED
    BY <2>1, <2>2, <2>3, <2>4, Zenon
<1> QED
  BY <1>2, <1>3, Zenon DEF PlacesCounted

\* io_uring_submit moves no entry in the queue, get_sqe adds one at its end, and
\* the kernel issues the first.
LEMMA QueueSubmit ==
  ASSUME TypeOK, published' = published \o prepared, prepared' = <<>>
  PROVE  Queue' = Queue
BY DEF Queue, TypeOK

\* An element appended to the second of two sequences is appended to both.
LEMMA JoinAppend ==
  ASSUME NEW S, NEW p \in Seq(S), NEW q \in Seq(S), NEW x \in S
  PROVE  p \o Append(q, x) = Append(p \o q, x)
OBVIOUS

\* Three sequences joined, in either order, and the empty one.
LEMMA JoinAssoc ==
  ASSUME NEW S, NEW p \in Seq(S), NEW q \in Seq(S), NEW r \in Seq(S)
  PROVE  (p \o q) \o r = p \o (q \o r) /\ <<>> \o r = r
BY SMTT(30)

\* get_sqe puts its entry at the end of the submission queue.
LEMMA QueueAppend ==
  ASSUME TypeOK, NEW x, published' = published, prepared' = Append(prepared, x)
  PROVE  Queue' = Append(Queue, x)
<1>1. published \o Append(prepared, x) = Append(published \o prepared, x)
  BY DEF TypeOK
<1> QED
  BY <1>1, Zenon DEF Queue

\* The first element of a concatenation, and the rest of it.
FirstOfFirst(S, p, q) ==
  /\ p \o q # <<>> /\ Head(p \o q) = Head(p) /\ (p \o q)[1] = Head(p)
  /\ Tail(p) \o q = Tail(p \o q) /\ 1 \in DOMAIN (p \o q) /\ Head(p) \in S

\* The first entry published is the first of the submission queue.
LEMMA ConcatTail ==
  ASSUME NEW S, NEW p \in Seq(S), NEW q \in Seq(S), p # <<>>
  PROVE  FirstOfFirst(S, p, q)
<1> DEFINE a == Tail(p) \o q
           b == Tail(p \o q)
<1>1. /\ p \o q \in Seq(S) /\ Len(p \o q) = Len(p) + Len(q) /\ Len(p) \in Nat \ {0}
      /\ Len(q) \in Nat /\ p \o q # <<>> /\ p[1] = Head(p) /\ (p \o q)[1] = p[1]
      /\ Head(p) \in S /\ DOMAIN (p \o q) = 1 .. Len(p) + Len(q)
  OBVIOUS
<1>2. a \in Seq(S) /\ b \in Seq(S)
  BY <1>1
<1>3. Len(a) = Len(p) + Len(q) - 1 /\ Len(b) = Len(p) + Len(q) - 1
  BY <1>1
<1>4. \A i \in 1 .. Len(p) + Len(q) - 1 : a[i] = b[i]
  BY <1>1
<1>5. a = b
  BY <1>2, <1>3, <1>4, SeqSame, Zenon
<1> QED
  BY <1>1, <1>5 DEF FirstOfFirst

\* The entry that the kernel issues is the first of the queue.
FirstIssued ==
  /\ Queue # <<>> /\ Head(Queue) = Head(published) /\ Queue[1] = Head(published)
  /\ Queue' = Tail(Queue) /\ 1 \in DOMAIN Queue /\ Head(published) \in Sqe

\* Issuing an entry takes the first one off the submission queue.
LEMMA QueueIssue ==
  ASSUME TypeOK, published # <<>>, published' = Tail(published), prepared' = prepared
  PROVE  FirstIssued
<1>1. /\ Tail(published) \o prepared = Tail(published \o prepared)
      /\ published \o prepared # <<>> /\ Head(published \o prepared) = Head(published)
      /\ (published \o prepared)[1] = Head(published) /\ 1 \in DOMAIN (published \o prepared)
      /\ Head(published) \in Sqe
  BY ConcatTail, ZenonT(40) DEF TypeOK, FirstOfFirst
<1> QED
  BY <1>1, Zenon DEF Queue, FirstIssued

\* The submission queue depends on its two parts only.
LEMMA QueueSame ==
  ASSUME published' = published, prepared' = prepared
  PROVE  Queue' = Queue
BY Zenon DEF Queue

\* Which entries and completions belong to a slot, to a descriptor or to the accept.
KindsApart ==
  /\ \A x \in Sqe :
       /\ \/ x = Accept
          \/ (x.op = "RECV" /\ x.fd \in Fds)
          \/ (x.op = "SEND" /\ x.fd \in Fds /\ x.slot \in Slots)
       /\ \A slot \in Slots : x \in SendsOf(slot) <=> x.op = "SEND" /\ x.slot = slot
       /\ \A fd \in Fds : x \in RecvsOf(fd) <=> x.op = "RECV" /\ x.fd = fd
       /\ \A fd \in Fds : x \notin Accepted(fd)
       /\ x \in Accepts <=> x.op = "ACCEPT"
  /\ \A y \in Completion :
       /\ \/ (y.op = "ACCEPT" /\ y.res \in Fds \cup {NONE} /\ y.more \in BOOLEAN)
          \/ (y.op = "RECV" /\ y.fd \in Fds /\ y.res \in Results)
          \/ (y.op = "SEND" /\ y.slot \in Slots)
       /\ \A slot \in Slots : y \in SendsOf(slot) <=> y.op = "SEND" /\ y.slot = slot
       /\ \A fd \in Fds : y \in RecvsOf(fd) <=> y.op = "RECV" /\ y.fd = fd
       /\ \A fd \in Fds : y \in Accepted(fd) <=> y.op = "ACCEPT" /\ y.res = fd
       /\ y \in Accepts <=> y.op = "ACCEPT" /\ ~y.more

\* The kinds of entries and completions.
LEMMA Kinds ==
  KindsApart
<1>1. ASSUME NEW x \in Sqe, NEW slot, NEW fd
      PROVE  /\ x \in SendsOf(slot) <=> x.op = "SEND" /\ x.slot = slot
             /\ x \in RecvsOf(fd) <=> x.op = "RECV" /\ x.fd = fd
             /\ x \notin Accepted(fd)
  <2>1. CASE x \in [op : {"ACCEPT"}]
    BY <2>1 DEF SendsOf, RecvsOf, Accepted, Send, Recv
  <2>2. CASE x \in [op : {"RECV"}, fd : Fds]
    BY <2>2 DEF SendsOf, RecvsOf, Accepted, Send, Recv
  <2>3. CASE x \in [op : {"SEND"}, fd : Fds, slot : Slots]
    <3>1. x = Send(x.fd, x.slot) /\ x.op = "SEND" /\ x.fd \in Fds
      BY <2>3, Zenon DEF Send
    <3>2. x \in SendsOf(slot) <=> x.slot = slot
      BY <2>3, <3>1 DEF SendsOf, Send
    <3> QED
      BY <2>3, <3>1, <3>2 DEF RecvsOf, Accepted, Recv
  <2> QED
    BY <2>1, <2>2, <2>3, Zenon DEF Sqe
<1>2. ASSUME NEW x \in Sqe
      PROVE  /\ \/ x = Accept
                \/ (x.op = "RECV" /\ x.fd \in Fds)
                \/ (x.op = "SEND" /\ x.fd \in Fds /\ x.slot \in Slots)
             /\ x \in Accepts <=> x.op = "ACCEPT"
  BY DEF Sqe, Accept, Accepts
<1>3. ASSUME NEW y \in Completion, NEW slot, NEW fd
      PROVE  /\ y \in SendsOf(slot) <=> y.op = "SEND" /\ y.slot = slot
             /\ y \in RecvsOf(fd) <=> y.op = "RECV" /\ y.fd = fd
             /\ y \in Accepted(fd) <=> y.op = "ACCEPT" /\ y.res = fd
  <2>1. CASE y \in [op : {"ACCEPT"}, res : Fds \cup {NONE}, more : BOOLEAN]
    BY <2>1 DEF SendsOf, RecvsOf, Accepted, Send, Recv
  <2>2. CASE y \in [op : {"RECV"}, fd : Fds, res : Results]
    BY <2>2 DEF SendsOf, RecvsOf, Accepted, Send, Recv
  <2>3. CASE y \in [op : {"SEND"}, slot : Slots]
    BY <2>3 DEF SendsOf, RecvsOf, Accepted, Send, Recv
  <2> QED
    BY <2>1, <2>2, <2>3, Zenon DEF Completion
<1>4. ASSUME NEW y \in Completion
      PROVE  /\ \/ (y.op = "ACCEPT" /\ y.res \in Fds \cup {NONE} /\ y.more \in BOOLEAN)
                \/ (y.op = "RECV" /\ y.fd \in Fds /\ y.res \in Results)
                \/ (y.op = "SEND" /\ y.slot \in Slots)
             /\ y \in Accepts <=> y.op = "ACCEPT" /\ ~y.more
  BY DEF Completion, Accept, Accepts
<1> QED
  BY <1>1, <1>2, <1>3, <1>4, Zenon DEF KindsApart

\* The fields of an entry.
LEMMA EntryFields ==
  ASSUME NEW x \in Sqe
  PROVE  /\ x.op = "RECV" => x.fd \in Fds
         /\ x.op = "SEND" => x.fd \in Fds /\ x.slot \in Slots
BY Kinds DEF Accept, KindsApart

\* An entry that arms the accept.
LEMMA AcceptOp == Accept.op = "ACCEPT"
BY DEF Accept

\* The sizes that writing a reply depends on.
LEMMA FrameType == FRAME \in Nat \ {0} /\ SOCKET_BUF \in Int /\ 0 \in Int
BY UringAssumption

\* The fields of a reply.
LEMMA ReplyFields ==
  ASSUME NEW m \in Reply
  PROVE  m.sid \in Sids /\ m.n \in Nat \ {0} /\ m.n \in Int
BY DEF Reply

\* The submission queue holds entries.
LEMMA QueueEntries ==
  ASSUME FiniteSetFacts, TypeOK
  PROVE  \A i \in DOMAIN Queue : Queue[i] \in Sqe
BY PlacesType DEF PlacesCounted

\* What is on its way is counted by a number, and a queued entry is on its way.
LEMMA OnTheirWayType ==
  ASSUME FiniteSetFacts, TypeOK, NEW X
  PROVE  /\ OnTheirWay(X) \in Nat
         /\ \A i \in DOMAIN Queue : Queue[i] \in X => OnTheirWay(X) >= 1
BY PlacesType DEF PlacesCounted

\* A kind that counts nothing is on no place.
LEMMA NoneOnTheirWay ==
  ASSUME FiniteSetFacts, TypeOK, NEW X
  PROVE  /\ Count(Queue, X) = 0 => \A i \in DOMAIN Queue : Queue[i] \notin X
         /\ InFlight(X) = 0 => \A op \in inflight : op.sqe \notin X
<1>1. PlacesCounted
  BY PlacesType
<1>2. ASSUME NEW i \in DOMAIN Queue, Queue[i] \in X
      PROVE  Count(Queue, X) # 0
  <2>1. Count(Queue, X) >= 1
    BY <1>1, <1>2, Zenon DEF PlacesCounted
  <2> QED
    BY <2>1
<1>3. ASSUME NEW op \in inflight, op.sqe \in X
      PROVE  InFlight(X) # 0
  <2>1. InFlight(X) >= 1
    BY <1>1, <1>3, Zenon DEF PlacesCounted
  <2> QED
    BY <2>1
<1> QED
  BY <1>2, <1>3, Zenon

\* An operation in flight, with its connection.
LEMMA OperationType ==
  ASSUME NEW x \in Sqe, NEW c \in Conns \cup {NONE}
  PROVE  [sqe |-> x, conn |-> c] \in [sqe : Sqe, conn : Conns \cup {NONE}]
OBVIOUS

\* A completion appended to completions.
LEMMA AppendType ==
  ASSUME NEW S, NEW s \in Seq(S), NEW x \in S
  PROVE  Append(s, x) \in Seq(S)
OBVIOUS

\* Room for one more reply among the units received.
LEMMA OneMoreReply ==
  ASSUME NEW l \in Nat, NEW r \in 0 .. l, l = r * FRAME, NEW k, k = (r + 1) * FRAME
  PROVE  r + 1 \in 0 .. k
<1>1. FRAME \in Nat \ {0}
  BY UringAssumption
<1>2. (r + 1) * FRAME = r * FRAME + FRAME
  BY <1>1
<1> QED
  BY <1>1, <1>2

-----------------------------------------------------------------------------
(* Slots, receives, accepts and descriptors are accounted for               *)


Accounts == SlotInOnePlace /\ OneRecvPerConn /\ OneAccept /\ FdsAccounted

\* A descriptor with a receive on its way has a session.
LEMMA ReceivedFrom ==
  ASSUME Accounts, NEW fd \in Fds, OnTheirWay(RecvsOf(fd)) >= 1
  PROVE  conns_[fd] # NONE
BY DEF Accounts, OneRecvPerConn

\* An entry that is queued is not in flight as well.
LEMMA IssuedOnce ==
  ASSUME FiniteSetFacts, TypeOK, Accounts, NEW i \in DOMAIN Queue, NEW op \in inflight
  PROVE  op.sqe # Queue[i]
<1> SUFFICES ASSUME op.sqe = Queue[i] PROVE FALSE
  BY Zenon
<1> DEFINE x == Queue[i]
<1>1. x \in Sqe
  BY PlacesType DEF PlacesCounted
<1>2. ASSUME NEW X, x \in X
      PROVE  OnTheirWay(X) >= 2
  <2>1. Count(Queue, X) >= 1 /\ InFlight(X) >= 1
    BY <1>2, PlacesType, Zenon DEF PlacesCounted
  <2> QED
    BY <2>1, PlacesType DEF PlacesCounted
<1>3. CASE x = Accept
  BY <1>1, <1>2, <1>3, Kinds DEF Accounts, OneAccept, Accept, KindsApart
<1>4. CASE x.op = "RECV" /\ x.fd \in Fds
  <2>1. OnTheirWay(RecvsOf(x.fd)) >= 2
    BY <1>1, <1>2, <1>4, Kinds, Zenon DEF KindsApart
  <2> QED
    BY <1>4, <2>1 DEF Accounts, OneRecvPerConn
<1>5. CASE x.op = "SEND" /\ x.slot \in Slots
  <2>1. OnTheirWay(SendsOf(x.slot)) >= 2
    BY <1>1, <1>2, <1>5, Kinds, Zenon DEF KindsApart
  <2>2. Count(free_slots_, {x.slot}) \in Nat
    BY CountType, Zenon DEF TypeOK, Counted
  <2>3. Count(free_slots_, {x.slot}) + OnTheirWay(SendsOf(x.slot)) = 1
    BY <1>5, Zenon DEF Accounts, SlotInOnePlace
  <2>4. OnTheirWay(SendsOf(x.slot)) \in Nat
    BY PlacesType DEF PlacesCounted
  <2> QED
    BY <2>1, <2>2, <2>3, <2>4
<1> QED
  BY <1>1, <1>3, <1>4, <1>5, Kinds, Zenon DEF KindsApart

\* Steps that leave the queue and the completions alone.
LEMMA AccountsKept ==
  ASSUME Accounts, Queue' = Queue, UNCHANGED <<free_slots_, inflight, cq, conns_, file>>
  PROVE  Accounts'
<1>1. ASSUME NEW X PROVE OnTheirWay(X)' = OnTheirWay(X)
  BY Zenon DEF OnTheirWay
<1>3. SlotInOnePlace'
  BY <1>1, Zenon DEF Accounts, SlotInOnePlace
<1>4. OneRecvPerConn'
  BY <1>1, Zenon DEF Accounts, OneRecvPerConn
<1>5. OneAccept'
  BY <1>1, Zenon DEF Accounts, OneAccept
<1>6. FdsAccounted'
  BY <1>1, Zenon DEF Accounts, FdsAccounted
<1> QED
  BY <1>3, <1>4, <1>5, <1>6, Zenon DEF Accounts

\* y takes the place of x on the way, and is of its kind.
SameKind(x, y) ==
  /\ UNCHANGED <<free_slots_, conns_, file>>
  /\ \A X : OnTheirWay(X)' = OnTheirWay(X) - One(x, X) + One(y, X)
  /\ \A slot \in Slots : x \in SendsOf(slot) <=> y \in SendsOf(slot)
  /\ \A fd \in Fds : x \in RecvsOf(fd) <=> y \in RecvsOf(fd)
  /\ x \in Accepts <=> y \in Accepts
  /\ \A fd \in Fds : x \in Accepted(fd) <=> y \in Accepted(fd)

\* Steps in which an entry or a completion takes the place of another one of the
\* same kind.
LEMMA AccountsMoved ==
  ASSUME FiniteSetFacts, TypeOK, Accounts, NEW x \in Sqe \cup Completion,
         NEW y \in Sqe \cup Completion, SameKind(x, y)
  PROVE  Accounts'
<1> USE DEF SameKind
<1>1. ASSUME NEW X, x \in X <=> y \in X
      PROVE  OnTheirWay(X)' = OnTheirWay(X)
  <2>1. OnTheirWay(X) \in Int
    BY PlacesType DEF PlacesCounted
  <2> QED
    BY <1>1, <2>1 DEF One
<1>2. SlotInOnePlace'
  BY <1>1, Zenon DEF Accounts, SlotInOnePlace
<1>3. OneRecvPerConn'
  BY <1>1, Zenon DEF Accounts, OneRecvPerConn
<1>4. OneAccept'
  BY <1>1, Zenon DEF Accounts, OneAccept
<1>5. FdsAccounted'
  BY <1>1, Zenon DEF Accounts, FdsAccounted
<1> QED
  BY <1>2, <1>3, <1>4, <1>5, Zenon DEF Accounts

\* The three places after a step.
LEMMA PlacesNext ==
  ASSUME NEW X
  PROVE  OnTheirWay(X)' = Count(Queue, X)' + InFlight(X)' + Count(cq, X)'
BY Zenon DEF OnTheirWay, InFlight

\* The kernel issues an entry and keeps it.
IssuedLater(c) ==
  /\ published # <<>>
  /\ published' = Tail(published)
  /\ prepared' = prepared
  /\ inflight' = inflight \cup {[sqe |-> Head(published), conn |-> c]}
  /\ cq' = cq
  /\ UNCHANGED <<free_slots_, conns_, file>>

\* The kernel takes an entry off the queue and keeps it.
LEMMA AccountsLater ==
  ASSUME FiniteSetFacts, TypeOK, Accounts, NEW c, IssuedLater(c)
  PROVE  Accounts' /\ IsFiniteSet(inflight')
<1> USE DEF IssuedLater
<1> DEFINE x == Head(published)
           op == [sqe |-> x, conn |-> c]
<1>1. /\ Queue # <<>> /\ Head(Queue) = x /\ Queue[1] = x
      /\ Queue' = Tail(Queue) /\ 1 \in DOMAIN Queue /\ x \in Sqe /\ Queue \in Seq(Sqe)
  BY QueueIssue, PlacesType, Zenon DEF PlacesCounted, FirstIssued
<1>2. op \notin inflight
  BY <1>1, IssuedOnce, Zenon
<1>3. IsFiniteSet(inflight)
  BY Zenon DEF TypeOK
<1>4. IsFiniteSet(inflight')
  BY <1>3, FinAdd, Zenon DEF OneMore
<1>5. ASSUME NEW X
      PROVE  OnTheirWay(X)' = OnTheirWay(X)
  <2>1. Count(Queue', X) = Count(Queue, X) - One(x, X)
    BY <1>1, CountTail, Zenon DEF One
  <2>2. InFlight(X)' = InFlight(X) + One(x, X)
    BY <1>2, <1>3, InFlightAdd DEF One, OneMoreInFlight
  <2>3. One(x, X) \in Int
    BY DEF One
  <2> QED
    BY <2>1, <2>2, <2>3, PlacesNext, PlacesType DEF PlacesCounted
<1>6. Accounts'
  <2>1. \A X : OnTheirWay(X)' = OnTheirWay(X) - One(x, X) + One(x, X)
    BY <1>5, PlacesType DEF One, PlacesCounted
  <2> QED
    BY <1>1, <2>1, AccountsMoved, Zenon DEF SameKind
<1> QED
  BY <1>4, <1>6, Zenon

\* The kernel issues a send and completes it.
IssuedAndSent ==
  /\ published # <<>>
  /\ published' = Tail(published)
  /\ prepared' = prepared
  /\ Head(published).op = "SEND"
  /\ inflight' = inflight
  /\ cq' = Append(cq, [op |-> "SEND", slot |-> Head(published).slot])
  /\ UNCHANGED <<free_slots_, conns_, file>>

\* The kernel completes a send when it issues it.
LEMMA AccountsSentNow ==
  ASSUME FiniteSetFacts, TypeOK, Accounts, IssuedAndSent
  PROVE  Accounts'
<1> USE DEF IssuedAndSent
<1> DEFINE x == Head(published)
           y == [op |-> "SEND", slot |-> x.slot]
<1>1. /\ Queue # <<>> /\ Head(Queue) = x
      /\ Queue' = Tail(Queue) /\ x \in Sqe /\ Queue \in Seq(Sqe)
  BY QueueIssue, PlacesType, Zenon DEF PlacesCounted, FirstIssued
<1>2. x.slot \in Slots /\ y \in Completion /\ cq \in Seq(Completion)
  <2>1. x.slot \in Slots
    BY <1>1, Kinds, Zenon DEF Accept, KindsApart
  <2>2. y \in Completion
    BY <2>1, Zenon DEF Completion
  <2> QED
    BY <2>1, <2>2, Zenon DEF TypeOK
<1>3. ASSUME NEW X
      PROVE  OnTheirWay(X)' = OnTheirWay(X) - One(x, X) + One(y, X)
  <2>1. Count(Queue', X) = Count(Queue, X) - One(x, X)
    BY <1>1, CountTail, Zenon DEF One
  <2>2. InFlight(X)' = InFlight(X)
    BY Zenon DEF InFlight
  <2>3. Count(cq', X) = Count(cq, X) + One(y, X)
    BY <1>2, CountAppend DEF One
  <2>4. One(x, X) \in Int /\ One(y, X) \in Int
    BY DEF One
  <2> QED
    BY <2>1, <2>2, <2>3, <2>4, PlacesNext, PlacesType, SMTT(30) DEF PlacesCounted
<1>4. /\ \A slot \in Slots : x \in SendsOf(slot) <=> y \in SendsOf(slot)
      /\ \A fd \in Fds : x \in RecvsOf(fd) <=> y \in RecvsOf(fd)
      /\ x \in Accepts <=> y \in Accepts
      /\ \A fd \in Fds : x \in Accepted(fd) <=> y \in Accepted(fd)
  BY <1>1, <1>2, Kinds, Zenon DEF KindsApart
<1> QED
  BY <1>1, <1>2, <1>3, <1>4, AccountsMoved, Zenon DEF SameKind

\* The operation op completes with y.
Done(op, y) ==
  /\ Queue' = Queue
  /\ inflight' = inflight \ {op}
  /\ cq' = Append(cq, y)
  /\ UNCHANGED <<free_slots_, conns_, file>>
  /\ \/ (op.sqe.op = "RECV" /\ y.op = "RECV" /\ y.fd = op.sqe.fd)
     \/ (op.sqe.op = "SEND" /\ y.op = "SEND" /\ y.slot = op.sqe.slot)
     \/ (op.sqe.op = "ACCEPT" /\ y.op = "ACCEPT" /\ ~y.more /\ y.res \notin Fds)

\* An entry in flight completes, with a completion of its kind.
LEMMA AccountsDone ==
  ASSUME FiniteSetFacts, TypeOK, Accounts, NEW op \in inflight, NEW y \in Completion, Done(op, y)
  PROVE  Accounts' /\ IsFiniteSet(inflight')
<1> USE DEF Done
<1> DEFINE x == op.sqe
<1>1. x \in Sqe /\ IsFiniteSet(inflight) /\ cq \in Seq(Completion)
  BY Zenon DEF TypeOK
<1>2. ASSUME NEW X
      PROVE  OnTheirWay(X)' = OnTheirWay(X) - One(x, X) + One(y, X)
  <2>1. InFlight(X)' = InFlight(X) - One(x, X)
    BY <1>1, InFlightRemove, Zenon DEF One, OneLessInFlight
  <2>2. Count(cq', X) = Count(cq, X) + One(y, X)
    BY <1>1, CountAppend, Zenon DEF One
  <2>3. One(x, X) \in Int /\ One(y, X) \in Int
    BY DEF One
  <2> QED
    BY <2>1, <2>2, <2>3, PlacesNext, PlacesType DEF PlacesCounted
<1>3. /\ \A slot \in Slots : x \in SendsOf(slot) <=> y \in SendsOf(slot)
      /\ \A fd \in Fds : x \in RecvsOf(fd) <=> y \in RecvsOf(fd)
      /\ x \in Accepts <=> y \in Accepts
      /\ \A fd \in Fds : x \in Accepted(fd) <=> y \in Accepted(fd)
  BY <1>1, Kinds DEF KindsApart
<1>4. IsFiniteSet(inflight')
  BY <1>1, FinRemove, Zenon DEF OneLess
<1> QED
  BY <1>1, <1>2, <1>3, <1>4, AccountsMoved, Zenon DEF SameKind

\* The kernel accepts the connection c with the descriptor fd.
AcceptedConn(fd, c, more, op) ==
  /\ Queue' = Queue
  /\ UNCHANGED <<free_slots_, conns_>>
  /\ file[fd] = NONE
  /\ file' = [file EXCEPT ![fd] = c]
  /\ cq' = Append(cq, [op |-> "ACCEPT", res |-> fd, more |-> more])
  /\ op.sqe = Accept
  /\ inflight' = IF more THEN inflight ELSE inflight \ {op}

\* A connection is accepted: its descriptor is open and its completion is to be
\* handled.
LEMMA AccountsAccepted ==
  ASSUME FiniteSetFacts, TypeOK, Accounts, NEW fd \in Fds, NEW c \in Conns, NEW more \in BOOLEAN,
         NEW op \in inflight, AcceptedConn(fd, c, more, op)
  PROVE  Accounts' /\ IsFiniteSet(inflight')
<1> USE DEF AcceptedConn
<1> DEFINE y == [op |-> "ACCEPT", res |-> fd, more |-> more]
           x == Accept
<1>1. x \in Sqe /\ IsFiniteSet(inflight) /\ cq \in Seq(Completion) /\ y \in Completion
  BY Zenon DEF TypeOK, Accept, Sqe, Completion
<1>2. ASSUME NEW X
      PROVE  OnTheirWay(X)' = OnTheirWay(X) - (IF more THEN 0 ELSE One(x, X)) + One(y, X)
  <2>1. InFlight(X)' = InFlight(X) - (IF more THEN 0 ELSE One(x, X))
    <3>1. CASE more
      <4>1. InFlight(X)' = InFlight(X) /\ InFlight(X) \in Int
        BY <3>1, PlacesType DEF InFlight, PlacesCounted
      <4> QED
        BY <3>1, <4>1
    <3>2. CASE ~more
      BY <1>1, <3>2, InFlightRemove, Zenon DEF One, OneLessInFlight
    <3> QED
      BY <3>1, <3>2, Zenon
  <2>2. Count(cq', X) = Count(cq, X) + One(y, X)
    BY <1>1, CountAppend DEF One
  <2>3. One(x, X) \in Int /\ One(y, X) \in Int
    BY DEF One
  <2> QED
    BY <2>1, <2>2, <2>3, PlacesNext, PlacesType DEF PlacesCounted
<1>3. /\ \A slot \in Slots : x \notin SendsOf(slot) /\ y \notin SendsOf(slot)
      /\ \A g \in Fds : x \notin RecvsOf(g) /\ y \notin RecvsOf(g)
      /\ \A g \in Fds : x \notin Accepted(g) /\ (y \in Accepted(g) <=> g = fd)
      /\ x \in Accepts /\ (y \in Accepts <=> ~more)
  BY <1>1, Kinds, Zenon DEF Accept, KindsApart
<1>4. ASSUME NEW X
      PROVE  OnTheirWay(X) \in Int
  BY PlacesType DEF PlacesCounted
<1>5. SlotInOnePlace'
  <2>1. ASSUME NEW slot \in Slots
        PROVE  OnTheirWay(SendsOf(slot))' = OnTheirWay(SendsOf(slot))
    BY <1>2, <1>3, <1>4 DEF One
  <2> QED
    BY <2>1, Zenon DEF Accounts, SlotInOnePlace
<1>6. OneRecvPerConn'
  <2>1. ASSUME NEW g \in Fds
        PROVE  OnTheirWay(RecvsOf(g))' = OnTheirWay(RecvsOf(g))
    BY <1>2, <1>3, <1>4 DEF One
  <2> QED
    BY <2>1, Zenon DEF Accounts, OneRecvPerConn
<1>7. OneAccept'
  BY <1>2, <1>3, <1>4 DEF One, Accounts, OneAccept
<1>8. FdsAccounted'
  <2>1. ASSUME NEW g \in Fds
        PROVE  OnTheirWay(Accepted(g))' = OnTheirWay(Accepted(g)) + (IF g = fd THEN 1 ELSE 0)
    BY <1>2, <1>3, <1>4 DEF One
  <2>2. ASSUME NEW g \in Fds
        PROVE  /\ OnTheirWay(Accepted(g)) + (IF conns_[g] = NONE THEN 0 ELSE 1)
                   = (IF file[g] = NONE THEN 0 ELSE 1)
               /\ file'[g] = (IF g = fd THEN c ELSE file[g])
    BY Zenon DEF Accounts, FdsAccounted, TypeOK
  <2>3. c # NONE
    BY UringAssumption, Zenon
  <2> QED
    BY <1>4, <2>1, <2>2, <2>3 DEF FdsAccounted
<1>9. IsFiniteSet(inflight')
  BY <1>1, FinRemove, Zenon DEF OneLess
<1> QED
  BY <1>5, <1>6, <1>7, <1>8, <1>9, Zenon DEF Accounts

\* The last free slot goes into a send to fd.
SlotTaken(fd) ==
  /\ free_slots_ # <<>>
  /\ free_slots_' = SubSeq(free_slots_, 1, Len(free_slots_) - 1)
  /\ Queue' = Append(Queue, Send(fd, free_slots_[Len(free_slots_)]))
  /\ UNCHANGED <<inflight, cq, conns_, file>>

\* A slot moves from the free list to a send that is prepared.
LEMMA AccountsTaken ==
  ASSUME FiniteSetFacts, TypeOK, Accounts, NEW fd \in Fds, SlotTaken(fd)
  PROVE  Accounts' /\ free_slots_' \in Seq(Slots)
<1> USE DEF SlotTaken
<1> DEFINE t == free_slots_[Len(free_slots_)]
           x == Send(fd, t)
<1>1. t \in Slots /\ free_slots_ \in Seq(Slots)
  BY DEF TypeOK
<1>2. x \in Sqe
  BY <1>1, Zenon DEF Sqe, Send
<1>3. /\ \A slot \in Slots : x \in SendsOf(slot) <=> slot = t
      /\ \A g \in Fds : x \notin RecvsOf(g) /\ x \notin Accepted(g)
      /\ x \notin Accepts
  BY <1>1, <1>2, Kinds, Zenon DEF Send, KindsApart
<1>4. ASSUME NEW X
      PROVE  OnTheirWay(X)' = OnTheirWay(X) + One(x, X) /\ OnTheirWay(X) \in Int
  <2>1. Count(Queue', X) = Count(Queue, X) + One(x, X)
    <3>1. Queue \in Seq(Sqe)
      BY PlacesType, Zenon DEF PlacesCounted
    <3> QED
      BY <3>1, CountAppend DEF One
  <2>2. InFlight(X)' = InFlight(X)
    BY Zenon DEF InFlight
  <2>3. One(x, X) \in Int
    BY DEF One
  <2> QED
    BY <2>1, <2>2, <2>3, PlacesNext, PlacesType DEF PlacesCounted
<1>5. ASSUME NEW slot \in Slots
      PROVE  /\ Count(free_slots_', {slot}) = Count(free_slots_, {slot}) - (IF slot = t THEN 1 ELSE 0)
             /\ Count(free_slots_, {slot}) \in Int
  <2>1. Count(free_slots_, {slot}) \in Nat
    BY <1>1, CountType, Zenon DEF Counted
  <2>2. Count(free_slots_', {slot}) = Count(free_slots_, {slot}) - (IF t \in {slot} THEN 1 ELSE 0)
    BY <1>1, CountFront, Zenon DEF FrontCounted
  <2> QED
    BY <2>1, <2>2
<1>6. SlotInOnePlace'
  <2>1. ASSUME NEW slot \in Slots
        PROVE  OnTheirWay(SendsOf(slot))' = OnTheirWay(SendsOf(slot)) + (IF slot = t THEN 1 ELSE 0)
    BY <1>3, <1>4, Zenon DEF One
  <2>2. ASSUME NEW slot \in Slots
        PROVE  Count(free_slots_', {slot}) + OnTheirWay(SendsOf(slot))' = 1
    <3>1. Count(free_slots_, {slot}) + OnTheirWay(SendsOf(slot)) = 1
      BY Zenon DEF Accounts, SlotInOnePlace
    <3>2. OnTheirWay(SendsOf(slot)) \in Int
      BY <1>4, Zenon
    <3> HIDE DEF t
    <3> QED
      BY <1>5, <2>1, <3>1, <3>2
  <2> QED
    BY <2>2, Zenon DEF SlotInOnePlace
<1>7. OneRecvPerConn'
  <2>1. ASSUME NEW g \in Fds
        PROVE  OnTheirWay(RecvsOf(g))' = OnTheirWay(RecvsOf(g))
    BY <1>3, <1>4 DEF One
  <2> QED
    BY <2>1, Zenon DEF Accounts, OneRecvPerConn
<1>8. OneAccept'
  BY <1>3, <1>4 DEF One, Accounts, OneAccept
<1>9. FdsAccounted'
  <2>1. ASSUME NEW g \in Fds
        PROVE  OnTheirWay(Accepted(g))' = OnTheirWay(Accepted(g))
    BY <1>3, <1>4 DEF One
  <2> QED
    BY <2>1, Zenon DEF Accounts, FdsAccounted
<1>10. free_slots_' \in Seq(Slots)
  BY <1>1, CountFront, Zenon DEF FrontCounted
<1> QED
  BY <1>6, <1>7, <1>8, <1>9, <1>10, Zenon DEF Accounts

\* What taking the first completion off the ring does to the counts.
HeadHandled ==
  /\ Head(cq) \in Completion /\ cq' \in Seq(Completion)
  /\ \A X : Head(cq) \in X => Count(cq, X) >= 1
  /\ \A X : OnTheirWay(X) \in Nat /\ (Head(cq) \in X => OnTheirWay(X) >= 1)
  /\ \A X : \A d \in Int : Count(Queue, X)' = Count(Queue, X) + d =>
       OnTheirWay(X)' = OnTheirWay(X) - One(Head(cq), X) + d

\* The completion that is handled, and what it says of the descriptor it names.
LEMMA Handled ==
  ASSUME FiniteSetFacts, TypeOK, Accounts, cq # <<>>, cq' = Tail(cq), inflight' = inflight
  PROVE  HeadHandled
<1>1. /\ cq \in Seq(Completion) /\ 1 \in DOMAIN cq /\ cq[1] = Head(cq)
      /\ Head(cq) \in Completion /\ cq' \in Seq(Completion)
  BY DEF TypeOK
<1>2. ASSUME NEW X, Head(cq) \in X
      PROVE  Count(cq, X) >= 1
  BY <1>1, <1>2, PlacesType, Zenon DEF PlacesCounted
<1>3. ASSUME NEW X
      PROVE  /\ OnTheirWay(X) \in Nat /\ (Head(cq) \in X => OnTheirWay(X) >= 1)
  BY <1>2, PlacesType DEF PlacesCounted
<1>4. ASSUME NEW X, NEW d \in Int, Count(Queue, X)' = Count(Queue, X) + d
      PROVE  OnTheirWay(X)' = OnTheirWay(X) - One(Head(cq), X) + d
  <2>1. Count(cq', X) = Count(cq, X) - One(Head(cq), X)
    BY <1>1, CountTail, Zenon DEF One
  <2>2. InFlight(X)' = InFlight(X)
    BY Zenon DEF InFlight
  <2>3. One(Head(cq), X) \in Int
    BY DEF One
  <2> QED
    BY <1>4, <2>1, <2>2, <2>3, PlacesNext, PlacesType DEF PlacesCounted
<1> QED
  BY <1>1, <1>2, <1>3, <1>4, Zenon DEF HeadHandled

\* The completion of a send is handled.
SendHandled ==
  /\ cq # <<>>
  /\ cq' = Tail(cq)
  /\ inflight' = inflight
  /\ Queue' = Queue
  /\ Head(cq).op = "SEND"
  /\ free_slots_' = Append(free_slots_, Head(cq).slot)
  /\ UNCHANGED <<conns_, file>>

\* free_send_slot gives back the slot of a send that has completed.
LEMMA AccountsGivenBack ==
  ASSUME FiniteSetFacts, TypeOK, Accounts, SendHandled
  PROVE  Accounts' /\ free_slots_' \in Seq(Slots)
<1> USE DEF SendHandled
<1> DEFINE y == Head(cq)
<1>1. y \in Completion /\ y.slot \in Slots /\ free_slots_ \in Seq(Slots)
  BY Handled, Kinds, Zenon DEF TypeOK, KindsApart, HeadHandled
<1>2. /\ \A slot \in Slots : y \in SendsOf(slot) <=> slot = y.slot
      /\ \A g \in Fds : y \notin RecvsOf(g) /\ y \notin Accepted(g)
      /\ y \notin Accepts
  BY <1>1, Kinds, Zenon DEF KindsApart
<1>3. ASSUME NEW X
      PROVE  OnTheirWay(X)' = OnTheirWay(X) - One(y, X) /\ OnTheirWay(X) \in Int
  <2>1. Count(Queue, X)' = Count(Queue, X) + 0 /\ 0 \in Int
    BY PlacesType DEF PlacesCounted
  <2>2. OnTheirWay(X)' = OnTheirWay(X) - One(y, X) + 0 /\ OnTheirWay(X) \in Nat
    BY <2>1, Handled, Zenon DEF HeadHandled
  <2> QED
    BY <2>2 DEF One
<1>4. SlotInOnePlace'
  <2>1. ASSUME NEW slot \in Slots
        PROVE  Count(free_slots_', {slot}) + OnTheirWay(SendsOf(slot))' = 1
    <3>1. OnTheirWay(SendsOf(slot))' = OnTheirWay(SendsOf(slot)) - (IF slot = y.slot THEN 1 ELSE 0)
      BY <1>2, <1>3, Zenon DEF One
    <3>2. Count(free_slots_', {slot}) = Count(free_slots_, {slot}) + (IF y.slot \in {slot} THEN 1 ELSE 0)
      BY <1>1, CountAppend
    <3>3. Count(free_slots_, {slot}) + OnTheirWay(SendsOf(slot)) = 1
      BY Zenon DEF Accounts, SlotInOnePlace
    <3>4. Count(free_slots_, {slot}) \in Nat
      BY <1>1, CountType, Zenon DEF Counted
    <3>5. OnTheirWay(SendsOf(slot)) \in Int
      BY <1>3, Zenon
    <3> HIDE DEF y
    <3> QED
      BY <3>1, <3>2, <3>3, <3>4, <3>5
  <2> QED
    BY <2>1, Zenon DEF SlotInOnePlace
<1>5. OneRecvPerConn'
  <2>1. ASSUME NEW g \in Fds
        PROVE  OnTheirWay(RecvsOf(g))' = OnTheirWay(RecvsOf(g))
    BY <1>2, <1>3 DEF One
  <2> QED
    BY <2>1, Zenon DEF Accounts, OneRecvPerConn
<1>6. OneAccept'
  BY <1>2, <1>3 DEF One, Accounts, OneAccept
<1>7. FdsAccounted'
  <2>1. ASSUME NEW g \in Fds
        PROVE  OnTheirWay(Accepted(g))' = OnTheirWay(Accepted(g))
    BY <1>2, <1>3 DEF One
  <2> QED
    BY <2>1, Zenon DEF Accounts, FdsAccounted
<1> QED
  BY <1>1, <1>4, <1>5, <1>6, <1>7 DEF Accounts

\* A receive that completes belongs to a descriptor with a session.
LEMMA RecvHasSession ==
  ASSUME FiniteSetFacts, TypeOK, Accounts, cq # <<>>, Head(cq).op = "RECV"
  PROVE  Head(cq).fd \in Fds /\ Head(cq).res \in Results /\ conns_[Head(cq).fd] # NONE
<1> DEFINE fd == Head(cq).fd
<1>1. Head(cq) \in Completion /\ 1 \in DOMAIN cq /\ cq[1] = Head(cq)
  BY DEF TypeOK
<1>2. fd \in Fds /\ Head(cq).res \in Results /\ Head(cq) \in RecvsOf(fd)
  BY <1>1, Kinds, Zenon DEF KindsApart
<1>3. OnTheirWay(RecvsOf(fd)) >= 1
  BY <1>1, <1>2, PlacesType DEF PlacesCounted
<1> QED
  BY <1>2, <1>3 DEF Accounts, OneRecvPerConn

\* The completion of a receive is handled and the connection closed.
RecvClosed ==
  /\ cq # <<>>
  /\ cq' = Tail(cq)
  /\ inflight' = inflight
  /\ Queue' = Queue
  /\ Head(cq).op = "RECV"
  /\ file' = [file EXCEPT ![Head(cq).fd] = NONE]
  /\ conns_' = [conns_ EXCEPT ![Head(cq).fd] = NONE]
  /\ free_slots_' = free_slots_

\* After a receive the connection is closed, or it is received from again.
LEMMA AccountsClosed ==
  ASSUME FiniteSetFacts, TypeOK, Accounts, RecvClosed
  PROVE  Accounts'
<1> USE DEF RecvClosed
<1> DEFINE y == Head(cq)
           fd == y.fd
<1>1. y \in Completion /\ fd \in Fds /\ conns_[fd] # NONE
  BY Handled, RecvHasSession, Zenon DEF HeadHandled
<1>2. /\ \A slot \in Slots : y \notin SendsOf(slot)
      /\ \A g \in Fds : (y \in RecvsOf(g) <=> g = fd) /\ y \notin Accepted(g)
      /\ y \notin Accepts
  BY <1>1, Kinds, Zenon DEF KindsApart
<1>3. ASSUME NEW X
      PROVE  OnTheirWay(X)' = OnTheirWay(X) - One(y, X) /\ OnTheirWay(X) \in Nat
  <2>1. Count(Queue, X)' = Count(Queue, X) + 0 /\ 0 \in Int
    BY PlacesType DEF PlacesCounted
  <2>2. OnTheirWay(X)' = OnTheirWay(X) - One(y, X) + 0 /\ OnTheirWay(X) \in Nat
    BY <2>1, Handled, Zenon DEF HeadHandled
  <2> QED
    BY <2>2 DEF One
<1>4. SlotInOnePlace'
  <2>1. ASSUME NEW slot \in Slots
        PROVE  OnTheirWay(SendsOf(slot))' = OnTheirWay(SendsOf(slot))
    BY <1>2, <1>3 DEF One
  <2> QED
    BY <2>1, Zenon DEF Accounts, SlotInOnePlace
<1>5. ASSUME NEW g \in Fds
      PROVE  /\ conns_'[g] = (IF g = fd THEN NONE ELSE conns_[g])
             /\ file'[g] = (IF g = fd THEN NONE ELSE file[g])
  BY <1>1, Zenon DEF TypeOK
<1>6. OneRecvPerConn'
  <2>1. ASSUME NEW g \in Fds
        PROVE  OnTheirWay(RecvsOf(g))' = OnTheirWay(RecvsOf(g)) - (IF g = fd THEN 1 ELSE 0)
    BY <1>2, <1>3, Zenon DEF One
  <2>2. ASSUME NEW g \in Fds
        PROVE  OnTheirWay(RecvsOf(g))' = IF conns_'[g] = NONE THEN 0 ELSE 1
    <3>1. OnTheirWay(RecvsOf(g)) = IF conns_[g] = NONE THEN 0 ELSE 1
      BY Zenon DEF Accounts, OneRecvPerConn
    <3> HIDE DEF y, fd
    <3> QED
      BY <1>1, <1>5, <2>1, <3>1
  <2> QED
    BY <2>2, Zenon DEF OneRecvPerConn
<1>7. OneAccept'
  BY <1>2, <1>3 DEF One, Accounts, OneAccept
<1>8. FdsAccounted'
  <2>1. ASSUME NEW g \in Fds
        PROVE  OnTheirWay(Accepted(g))' = OnTheirWay(Accepted(g)) /\ OnTheirWay(Accepted(g)) \in Nat
    BY <1>2, <1>3 DEF One
  <2>2. ASSUME NEW g \in Fds
        PROVE  OnTheirWay(Accepted(g))' + (IF conns_'[g] = NONE THEN 0 ELSE 1)
                 = IF file'[g] = NONE THEN 0 ELSE 1
    <3>1. OnTheirWay(Accepted(g)) + (IF conns_[g] = NONE THEN 0 ELSE 1)
            = IF file[g] = NONE THEN 0 ELSE 1
      BY Zenon DEF Accounts, FdsAccounted
    <3> HIDE DEF y, fd
    <3> QED
      BY <1>1, <1>5, <2>1, <3>1
  <2> QED
    BY <2>2, Zenon DEF FdsAccounted
<1> QED
  BY <1>4, <1>6, <1>7, <1>8, Zenon DEF Accounts

\* The completion of a receive is handled and another receive prepared.
RecvArmed ==
  /\ cq # <<>>
  /\ cq' = Tail(cq)
  /\ inflight' = inflight
  /\ Head(cq).op = "RECV"
  /\ Queue' = Append(Queue, Recv(Head(cq).fd))
  /\ UNCHANGED <<free_slots_, conns_, file>>

\* A receive completion followed by the next receive keeps the accounts.
LEMMA AccountsArmed ==
  ASSUME FiniteSetFacts, TypeOK, Accounts, RecvArmed
  PROVE  Accounts'
<1> USE DEF RecvArmed
<1> DEFINE y == Head(cq)
           x == Recv(y.fd)
<1>1. y \in Completion /\ y.fd \in Fds /\ Queue \in Seq(Sqe)
  BY Handled, RecvHasSession, PlacesType, Zenon DEF PlacesCounted, HeadHandled
<1>2. x \in Sqe
  BY <1>1, Zenon DEF Sqe, Recv
<1>3. ASSUME NEW X
      PROVE  OnTheirWay(X)' = OnTheirWay(X) - One(y, X) + One(x, X)
  <2>1. Count(Queue', X) = Count(Queue, X) + One(x, X)
    BY <1>1, CountAppend DEF One
  <2>2. One(x, X) \in Int
    BY DEF One
  <2> QED
    BY <2>1, <2>2, Handled, Zenon DEF HeadHandled
<1>4. /\ \A slot \in Slots : y \in SendsOf(slot) <=> x \in SendsOf(slot)
      /\ \A g \in Fds : y \in RecvsOf(g) <=> x \in RecvsOf(g)
      /\ y \in Accepts <=> x \in Accepts
      /\ \A g \in Fds : y \in Accepted(g) <=> x \in Accepted(g)
  BY <1>1, <1>2, Kinds, Zenon DEF Recv, KindsApart
<1> QED
  BY <1>1, <1>2, <1>3, <1>4, AccountsMoved, Zenon DEF SameKind

\* The descriptor of an accept that is handled is open and has no session yet.
LEMMA AcceptHasNoSession ==
  ASSUME FiniteSetFacts, TypeOK, Accounts, cq # <<>>, Head(cq).op = "ACCEPT", Head(cq).res # NONE
  PROVE  /\ Head(cq).res \in Fds /\ conns_[Head(cq).res] = NONE /\ file[Head(cq).res] \in Conns
<1> DEFINE fd == Head(cq).res
<1>1. Head(cq) \in Completion /\ 1 \in DOMAIN cq /\ cq[1] = Head(cq)
  BY DEF TypeOK
<1>2. fd \in Fds /\ Head(cq) \in Accepted(fd)
  BY <1>1, Kinds, Zenon DEF KindsApart
<1>3. OnTheirWay(Accepted(fd)) >= 1 /\ OnTheirWay(Accepted(fd)) \in Nat
  BY <1>1, <1>2, PlacesType DEF PlacesCounted
<1>4. OnTheirWay(Accepted(fd)) + (IF conns_[fd] = NONE THEN 0 ELSE 1)
        = IF file[fd] = NONE THEN 0 ELSE 1
  BY <1>2, Zenon DEF Accounts, FdsAccounted
<1>5. file[fd] \in Conns \cup {NONE}
  BY <1>2, Zenon DEF TypeOK
<1> HIDE DEF fd
<1>6. conns_[fd] = NONE /\ file[fd] # NONE
  BY <1>3, <1>4
<1> QED
  BY <1>2, <1>5, <1>6, Zenon DEF fd

\* The entries that on_accept prepares.
Armed(cqe) == (IF cqe.res = NONE THEN <<>> ELSE <<Recv(cqe.res)>>)
              \o (IF cqe.more THEN <<>> ELSE <<Accept>>)

\* What the handling of the accept y prepares.
Arming(y) ==
  /\ y.op = "ACCEPT"
  /\ published' = published
  /\ prepared' = prepared \o Armed(y)

\* The queue counts what the handling of the accept y prepares.
ArmedCounted(y, X) ==
  /\ prepared' \in Seq(Sqe)
  /\ Count(Queue, X)' = Count(Queue, X) + ((IF y.res = NONE THEN 0 ELSE One(Recv(y.res), X))
                                          + (IF y.more THEN 0 ELSE One(Accept, X)))

\* What handling an accept completion does to the count of a kind.
LEMMA CountArmed ==
  ASSUME FiniteSetFacts, TypeOK, NEW y \in Completion, NEW X, Arming(y)
  PROVE  ArmedCounted(y, X)
<1> USE DEF Arming
<1>1. y.res \in Fds \cup {NONE} /\ y.more \in BOOLEAN /\ Accept \in Sqe
      /\ (y.res # NONE => Recv(y.res) \in Sqe)
  BY Kinds, Zenon DEF Sqe, Accept, Recv, KindsApart
<1>2. prepared \in Seq(Sqe) /\ Queue \in Seq(Sqe) /\ Count(Queue, X) \in Nat
  BY PlacesType, Zenon DEF TypeOK, PlacesCounted
<1>3. One(Accept, X) \in Int /\ One(Recv(y.res), X) \in Int
  BY DEF One
<1>4. CASE y.res = NONE /\ y.more
  <2>1. prepared' = prepared
    BY <1>2, <1>4 DEF Armed
  <2>2. Queue' = Queue
    BY <2>1, Zenon DEF Queue
  <2> QED
    BY <1>2, <1>4, <2>1, <2>2 DEF ArmedCounted
<1>5. CASE y.res = NONE /\ ~y.more
  <2>1. prepared' = Append(prepared, Accept)
    BY <1>2, <1>5 DEF Armed
  <2>2. Queue' = Append(Queue, Accept)
    BY <2>1, QueueAppend, Zenon
  <2>3. Count(Queue', X) = Count(Queue, X) + One(Accept, X)
    BY <1>2, <2>2, CountAppend DEF One
  <2> QED
    BY <1>1, <1>2, <1>3, <1>5, <2>1, <2>3 DEF ArmedCounted
<1>6. CASE y.res # NONE /\ y.more
  <2>1. prepared' = Append(prepared, Recv(y.res))
    BY <1>2, <1>6 DEF Armed
  <2>2. Queue' = Append(Queue, Recv(y.res))
    BY <2>1, QueueAppend, Zenon
  <2>3. Count(Queue', X) = Count(Queue, X) + One(Recv(y.res), X)
    BY <1>2, <2>2, CountAppend DEF One
  <2> QED
    BY <1>1, <1>2, <1>3, <1>6, <2>1, <2>3 DEF ArmedCounted
<1>7. CASE y.res # NONE /\ ~y.more
  <2> DEFINE r == Recv(y.res)
             q == Append(Queue, r)
  <2>1. prepared' = Append(Append(prepared, r), Accept)
    BY <1>2, <1>7 DEF Armed
  <2>2. Queue' = Append(q, Accept)
    <3>1. r \in Sqe /\ Accept \in Sqe /\ published \in Seq(Sqe)
      BY <1>1, <1>7, Zenon DEF TypeOK
    <3>2. Append(prepared, r) \in Seq(Sqe)
      BY <1>2, <3>1
    <3> HIDE DEF r
    <3>3. \A u \in Seq(Sqe), x \in Sqe : published \o Append(u, x) = Append(published \o u, x)
      BY <3>1, JoinAppend
    <3>4. published \o Append(prepared, r) = Append(published \o prepared, r)
      BY <1>2, <3>1, <3>3, Zenon
    <3>5. published \o Append(Append(prepared, r), Accept) = Append(published \o Append(prepared, r), Accept)
      BY <3>1, <3>2, <3>3, Zenon
    <3> QED
      BY <2>1, <3>4, <3>5, Zenon DEF Queue
  <2>3. q \in Seq(Sqe) /\ Count(q, X) = Count(Queue, X) + One(r, X)
    BY <1>1, <1>2, <1>7, CountAppend DEF One
  <2>4. Count(Append(q, Accept), X) = Count(q, X) + One(Accept, X)
    <3>1. ASSUME NEW u \in Seq(Sqe)
          PROVE  Count(Append(u, Accept), X) = Count(u, X) + One(Accept, X)
      BY CountAppend DEF One
    <3> HIDE DEF q
    <3> QED
      BY <2>3, <3>1, Zenon
  <2>5. prepared' \in Seq(Sqe)
    BY <1>1, <1>2, <1>7, <2>1
  <2> HIDE DEF r, q
  <2>6. Count(Queue', X) = Count(Queue, X) + (One(r, X) + One(Accept, X))
    BY <1>2, <1>3, <2>2, <2>3, <2>4 DEF r
  <2> QED
    BY <1>7, <2>5, <2>6, Zenon DEF r, ArmedCounted
<1> QED
  BY <1>1, <1>4, <1>5, <1>6, <1>7, Zenon

\* The completion of an accept is handled.
AcceptHandled ==
  /\ cq # <<>>
  /\ cq' = Tail(cq)
  /\ inflight' = inflight
  /\ Head(cq).op = "ACCEPT"
  /\ published' = published
  /\ prepared' = prepared \o Armed(Head(cq))
  /\ UNCHANGED <<free_slots_, file>>
  /\ IF Head(cq).res = NONE THEN conns_' = conns_
     ELSE next_session_id_ # NONE /\ conns_' = [conns_ EXCEPT ![Head(cq).res] = next_session_id_]

\* An accept is handled: a session with a receive, and accept armed if it ended.
LEMMA AccountsOpened ==
  ASSUME FiniteSetFacts, TypeOK, Accounts, AcceptHandled
  PROVE  Accounts'
<1> USE DEF AcceptHandled
<1> DEFINE y == Head(cq)
           fd == y.res
           r == Recv(fd)
<1>1. y \in Completion /\ fd \in Fds \cup {NONE} /\ y.more \in BOOLEAN
  BY Handled, Kinds, Zenon DEF KindsApart, HeadHandled
<1>2. fd # NONE => fd \in Fds /\ conns_[fd] = NONE /\ file[fd] \in Conns
  BY AcceptHasNoSession, Zenon
<1>3. Accept \in Sqe /\ (fd # NONE => r \in Sqe)
  BY <1>1, Zenon DEF Sqe, Accept, Recv
<1>4. NONE \notin Fds /\ NONE \notin Conns
  BY UringAssumption, Zenon
<1>5. ASSUME NEW X
      PROVE  /\ OnTheirWay(X) \in Nat
             /\ OnTheirWay(X)' = OnTheirWay(X) - One(y, X)
                  + ((IF fd = NONE THEN 0 ELSE One(r, X)) + (IF y.more THEN 0 ELSE One(Accept, X)))
  <2> DEFINE d == (IF fd = NONE THEN 0 ELSE One(r, X)) + (IF y.more THEN 0 ELSE One(Accept, X))
  <2>1. d \in Int
    BY DEF One
  <2>2. Count(Queue, X)' = Count(Queue, X) + d
    BY <1>1, CountArmed, Zenon DEF Arming, ArmedCounted
  <2> HIDE DEF d
  <2>3. OnTheirWay(X)' = OnTheirWay(X) - One(y, X) + d /\ OnTheirWay(X) \in Nat
    BY <2>1, <2>2, Handled, Zenon DEF HeadHandled
  <2> QED
    BY <2>3, Zenon DEF d
<1>6. ASSUME NEW slot \in Slots
      PROVE  /\ y \notin SendsOf(slot) /\ Accept \notin SendsOf(slot) /\ (fd # NONE => r \notin SendsOf(slot))
  BY <1>1, <1>3, Kinds, Zenon DEF Accept, Recv, KindsApart
<1>7. ASSUME NEW g \in Fds
      PROVE  /\ y \notin RecvsOf(g) /\ Accept \notin RecvsOf(g) /\ (fd # NONE => (r \in RecvsOf(g) <=> g = fd))
             /\ (y \in Accepted(g) <=> g = fd) /\ Accept \notin Accepted(g) /\ (fd # NONE => r \notin Accepted(g))
  BY <1>1, <1>3, Kinds, Zenon DEF Accept, Recv, KindsApart
<1>8. (y \in Accepts <=> ~y.more) /\ Accept \in Accepts /\ (fd # NONE => r \notin Accepts)
  BY <1>1, <1>3, Kinds, Zenon DEF Accept, Recv, KindsApart
<1> HIDE DEF y, fd, r
<1>9. ASSUME NEW g \in Fds
      PROVE  conns_'[g] = IF g = fd THEN next_session_id_ ELSE conns_[g]
  BY <1>2, <1>4, Zenon DEF TypeOK, y, fd
<1>10. SlotInOnePlace'
  <2>1. ASSUME NEW slot \in Slots
        PROVE  OnTheirWay(SendsOf(slot))' = OnTheirWay(SendsOf(slot))
    BY <1>5, <1>6 DEF One
  <2> QED
    BY <2>1, Zenon DEF Accounts, SlotInOnePlace
<1>11. OneRecvPerConn'
  <2>1. ASSUME NEW g \in Fds
        PROVE  OnTheirWay(RecvsOf(g))' = IF conns_'[g] = NONE THEN 0 ELSE 1
    <3>1. OnTheirWay(RecvsOf(g))' = OnTheirWay(RecvsOf(g)) + (IF g = fd THEN 1 ELSE 0)
      BY <1>4, <1>5, <1>7 DEF One
    <3>2. OnTheirWay(RecvsOf(g)) = IF conns_[g] = NONE THEN 0 ELSE 1
      BY Zenon DEF Accounts, OneRecvPerConn
    <3>3. g = fd => next_session_id_ # NONE
      BY <1>4, Zenon DEF fd, y
    <3> QED
      BY <1>2, <1>4, <1>9, <3>1, <3>2, <3>3
  <2> QED
    BY <2>1, Zenon DEF OneRecvPerConn
<1>12. OneAccept'
  BY <1>1, <1>5, <1>8 DEF One, Accounts, OneAccept
<1>13. FdsAccounted'
  <2>1. ASSUME NEW g \in Fds
        PROVE  OnTheirWay(Accepted(g))' + (IF conns_'[g] = NONE THEN 0 ELSE 1)
                 = IF file'[g] = NONE THEN 0 ELSE 1
    <3>1. /\ OnTheirWay(Accepted(g))' = OnTheirWay(Accepted(g)) - (IF g = fd THEN 1 ELSE 0)
          /\ OnTheirWay(Accepted(g)) \in Nat
      BY <1>4, <1>5, <1>7 DEF One
    <3>2. OnTheirWay(Accepted(g)) + (IF conns_[g] = NONE THEN 0 ELSE 1)
            = IF file[g] = NONE THEN 0 ELSE 1
      BY Zenon DEF Accounts, FdsAccounted
    <3>3. g = fd => next_session_id_ # NONE
      BY <1>4, Zenon DEF fd, y
    <3>4. CASE g = fd
      BY <1>2, <1>4, <1>9, <3>1, <3>2, <3>3, <3>4
    <3>5. CASE g # fd
      BY <1>9, <3>1, <3>2, <3>5
    <3> QED
      BY <3>4, <3>5, Zenon
  <2> QED
    BY <2>1, Zenon DEF FdsAccounted
<1> QED
  BY <1>10, <1>11, <1>12, <1>13, Zenon DEF Accounts
-----------------------------------------------------------------------------
(* What a step that leaves their variables alone does not disturb           *)

\* MapsOK depends on the maps, the files and the shards' history.
LEMMA MapsKept ==
  ASSUME MapsOK,
         UNCHANGED <<conns_, sid_to_fd_, next_session_id_, owner, file, asked, emitted>>
  PROVE  MapsOK'
BY Zenon DEF MapsOK

\* ConnsOK depends on files, owners, clients, the backlog and conns_.
LEMMA ConnsKept ==
  ASSUME ConnsOK, UNCHANGED <<file, owner, client, backlog, conns_>>
  PROVE  ConnsOK'
BY Zenon DEF ConnsOK

\* No send is added, and the gateway has no new reply to write itself.
SendsSame ==
  /\ Queue' = Queue
  /\ UNCHANGED <<send_pool_, sid_to_fd_, owner>>
  /\ inflight' \subseteq inflight
  /\ waited \subseteq waited'
  /\ pc' # "fallback" \/ (pc' = pc /\ out' = out)

\* SendsOK is kept when no send appears and no send slot is rewritten.
LEMMA SendsKept ==
  ASSUME SendsOK, SendsSame
  PROVE  SendsOK'
BY Zenon DEF SendsOK, SendsSame

\* Sorted depends on the submission queue, the send slots and the outbound ring.
LEMMA SortedKept ==
  ASSUME Sorted, Queue' = Queue, UNCHANGED <<send_pool_, outbound, emitted>>
  PROVE  Sorted'
<1>1. ASSUME NEW i, NEW sid
      PROVE  (QueuedFor(i, sid)' <=> QueuedFor(i, sid)) /\ Number(i)' = Number(i)
  BY Zenon DEF QueuedFor, Number
<1> QED
  BY <1>1, Zenon DEF Sorted

\* No send is added, and those prepared are gone, or none is handled.
BoundSame ==
  /\ Queue' = Queue
  /\ UNCHANGED <<send_pool_, sid_to_fd_, owner>>
  /\ inflight' \subseteq inflight
  /\ prepared' = <<>> \/ (prepared' = prepared /\ pc' = pc) \/ pc' # "reap"

\* SendsBound is kept when no send appears and no session changes hands.
LEMMA BoundKept ==
  ASSUME SendsBound, BoundSame
  PROVE  SendsBound'
BY DEF SendsBound, BoundSame

\* What is still to be sent depends on the queue and the outbound ring.
LEMMA StillKept ==
  ASSUME Queue' = Queue, UNCHANGED <<send_pool_, outbound, emitted>>,
         NEW sid, NEW r, StillToSend(sid, r)
  PROVE  StillToSend(sid, r)'
<1>1. ASSUME NEW i
      PROVE  (QueuedFor(i, sid)' <=> QueuedFor(i, sid)) /\ Number(i)' = Number(i)
  BY Zenon DEF QueuedFor, Number
<1> QED
  BY <1>1, Zenon DEF StillToSend

\* Nothing is written to c, and its sessions have as much left to send.
NotWritten(c) ==
  /\ got'[c] = got[c]
  /\ \A sid \in Sids : owner'[sid] = c /\ sid_to_fd_'[sid] # NONE
       => /\ owner[sid] = c /\ sid_to_fd_[sid] # NONE
          /\ \A r \in Nat : StillToSend(sid, r) => StillToSend(sid, r)'

\* A connection on which nothing is written.
LEMMA WholeKept ==
  ASSUME NEW c \in Conns, WholeReplies(c), NotWritten(c)
  PROVE  WholeReplies(c)'
<1> USE DEF NotWritten
<1>1. PICK r \in 0 .. Len(got[c]) :
        /\ Len(got[c]) = r * FRAME
        /\ \A k \in DOMAIN got[c] : UnitInOrder(c, k)
        /\ \A sid \in Sids : owner[sid] = c /\ sid_to_fd_[sid] # NONE => StillToSend(sid, r)
  BY ZenonT(40) DEF WholeReplies
<1>2. ASSUME NEW sid \in Sids, owner'[sid] = c, sid_to_fd_'[sid] # NONE
      PROVE  StillToSend(sid, r)'
  BY <1>1, <1>2
<1>3. \A k \in DOMAIN got'[c] : UnitInOrder(c, k)'
  BY <1>1, Zenon DEF UnitInOrder
<1> QED
  BY <1>1, <1>2, <1>3, Zenon DEF WholeReplies

\* InOrder is kept when nothing is written and more connections are excepted.
LEMMA OrderKept ==
  ASSUME InOrder, Queue' = Queue,
         UNCHANGED <<send_pool_, outbound, emitted, got, owner, sid_to_fd_>>,
         cut \subseteq cut', waited \subseteq waited'
  PROVE  InOrder'
<1>1. ASSUME NEW c \in Conns \ (cut' \cup waited')
      PROVE  WholeReplies(c)'
  BY StillKept, WholeKept, Zenon DEF InOrder, NotWritten
<1> QED
  BY <1>1, Zenon DEF InOrder

\* RepliesToOwner depends on what is written and on the owners.
LEMMA OwnerKept ==
  ASSUME RepliesToOwner, UNCHANGED <<got, owner>>
  PROVE  RepliesToOwner'
BY Zenon DEF RepliesToOwner

-----------------------------------------------------------------------------
(* The initial states and the steps                                         *)

\* The send slots are numbered from 0.
LEMMA SlotsNumbered == SEND_SLOTS \in Nat /\ \A i \in 1 .. SEND_SLOTS : i - 1 \in Slots
BY UringAssumption DEF Slots

\* The gateway starts in the invariant.
LEMMA InitIInv ==
  ASSUME FiniteSetFacts, Init
  PROVE  IInv
<1> USE UringAssumption DEF Init
<1>1. Queue = <<Accept>> /\ Accept \in Sqe
  BY DEF Queue, Sqe, Accept
<1>2. free_slots_ \in Seq(Slots)
  <2>1. SEND_SLOTS \in Nat /\ \A i \in 1 .. SEND_SLOTS : i - 1 \in Slots
    BY SlotsNumbered, Zenon
  <2>2. free_slots_ \in [1 .. SEND_SLOTS -> Slots]
    BY <2>1, Zenon
  <2> QED
    BY <2>1, <2>2, SeqFun, ZenonT(40)
<1>3. TypeOK
  <2>1. IsFiniteSet(inflight)
    BY FinEmpty, Zenon DEF EmptyCounted
  <2> QED
    BY <1>1, <1>2, <2>1 DEF TypeOK, Results, Sids
<1>4. ASSUME NEW X
      PROVE  OnTheirWay(X) = One(Accept, X)
  <2>1. Count(Queue, X) = Count(<<>>, X) + One(Accept, X)
    <3>1. Append(<<>>, Accept) = Queue /\ <<>> \in Seq(Sqe)
      BY <1>1
    <3>2. ASSUME NEW u \in Seq(Sqe)
          PROVE  Count(Append(u, Accept), X) = Count(u, X) + One(Accept, X)
      BY CountAppend DEF One
    <3> QED
      BY <3>1, <3>2, Zenon
  <2>2. Count(cq, X) = 0 /\ Count(<<>>, X) = 0
    BY CountEmpty, Zenon
  <2>3. InFlight(X) = 0
    BY FinEmpty, Zenon DEF InFlight, EmptyCounted
  <2>4. One(Accept, X) \in Int
    BY DEF One
  <2>5. OnTheirWay(X) = Count(Queue, X) + InFlight(X) + Count(cq, X)
    BY <1>3, PlacesType, Zenon DEF PlacesCounted
  <2> QED
    BY <2>1, <2>2, <2>3, <2>4, <2>5
<1>5. /\ \A slot \in Slots : Accept \notin SendsOf(slot)
      /\ \A fd \in Fds : Accept \notin RecvsOf(fd) /\ Accept \notin Accepted(fd)
      /\ Accept \in Accepts
  BY <1>1, Kinds, Zenon DEF Accept, KindsApart
<1>6. SlotInOnePlace
  <2>1. ASSUME NEW slot \in Slots
        PROVE  Count(free_slots_, {slot}) = 1 /\ OnTheirWay(SendsOf(slot)) = 0
    <3>1. {i \in DOMAIN free_slots_ : free_slots_[i] \in {slot}} = {slot + 1}
      BY DEF Slots
    <3>2. Cardinality({slot + 1}) = 1
      <4>1. Cardinality({} \cup {slot + 1}) = 0 + 1
        BY FinAdd, FinEmpty, ZenonT(40) DEF OneMore, EmptyCounted
      <4> QED
        BY <4>1
    <3> QED
      BY <1>4, <1>5, <3>1, <3>2, Zenon DEF Count, One
  <2> QED
    BY <2>1 DEF SlotInOnePlace
<1>7. OneRecvPerConn
  BY <1>4, <1>5, Zenon DEF OneRecvPerConn, One
<1>8. OneAccept
  BY <1>4, <1>5, Zenon DEF OneAccept, One
<1>9. FdsAccounted
  BY <1>4, <1>5 DEF FdsAccounted, One
<1>10. MapsOK /\ ConnsOK
  BY DEF MapsOK, ConnsOK, Sids
<1>11. SendsOK /\ Sorted /\ SendsBound
  BY <1>1 DEF SendsOK, Sorted, SendsBound, Accept, QueuedFor
<1>12. RepliesToOwner
  BY DEF RepliesToOwner
<1>13. InOrder
  <2>1. ASSUME NEW c \in Conns
        PROVE  WholeReplies(c)
    BY DEF WholeReplies, UnitInOrder
  <2> QED
    BY <2>1, Zenon DEF InOrder
<1> QED
  BY <1>3, <1>6, <1>7, <1>8, <1>9, <1>10, <1>11, <1>12, <1>13, ZenonT(40) DEF IInv

\* The conjuncts of the invariant, those that hold only without SQPOLL apart.
Conjuncts ==
  /\ TypeOK /\ Accounts /\ MapsOK /\ ConnsOK /\ SendsOK /\ Sorted
  /\ (~SQPOLL => SendsBound /\ RepliesToOwner /\ InOrder)

\* The invariant is the conjunction of these.
LEMMA Parts == (IInv => Conjuncts) /\ (Conjuncts' => IInv')
BY Zenon DEF IInv, Accounts, Conjuncts

\* Clients that connect, send or leave keep the invariant.
LEMMA ClientStep ==
  ASSUME IInv, NEW c \in Conns, Client(c)
  PROVE  IInv'
<1> /\ TypeOK /\ Accounts /\ MapsOK /\ ConnsOK /\ SendsOK /\ Sorted
    /\ (~SQPOLL => SendsBound /\ RepliesToOwner /\ InOrder)
  BY Parts, Zenon DEF Conjuncts
<1>1. UNCHANGED <<conns_, sid_to_fd_, next_session_id_, owner, free_slots_, send_pool_, pc,
                  out, prepared, published, inflight, cq, got, cut, waited, outbound, asked, emitted,
                  file>>
  BY Zenon DEF Client, Connect, Disconnect, ReadReplies, Write, socket, maps, slots, rings, shard
<1> USE <1>1
<1>2. TypeOK'
  <2>1. client' \in [Conns -> {"idle", "open", "gone"}] /\ backlog' \subseteq Conns
    BY Zenon DEF TypeOK, Client, Connect, Disconnect, ReadReplies, Write, socket
  <2>2. unread' \in [Conns -> Results]
    BY Zenon DEF TypeOK, Client, Connect, Disconnect, ReadReplies, Write, socket, Results
  <2>3. lag' \in [Conns -> Int]
    BY DEF TypeOK, Client, Connect, Disconnect, ReadReplies, Write
  <2> QED
    BY <2>1, <2>2, <2>3, Zenon DEF TypeOK
<1>3. ConnsOK'
  <2>1. ASSUME NEW d \in Conns
        PROVE  /\ (client'[d] = "idle" => client[d] = "idle")
               /\ (d \in backlog' => d \in backlog \/ (client[d] = "idle" /\ client'[d] # "idle"))
               /\ (client[d] # "idle" => client'[d] # "idle")
    BY Zenon DEF TypeOK, Client, Connect, Disconnect, ReadReplies, Write, socket
  <2>2. backlog' \subseteq Conns /\ backlog \subseteq Conns
    BY <1>2, Zenon DEF TypeOK
  <2> QED
    BY <2>1, <2>2, Zenon DEF ConnsOK
<1>4. Queue' = Queue
  BY QueueSame, Zenon
<1>5. Accounts'
  BY <1>4, AccountsKept, Zenon
<1>6. MapsOK' /\ SendsOK' /\ Sorted'
  BY <1>4, MapsKept, SendsKept, SortedKept, Zenon DEF SendsSame
<1>7. ~SQPOLL => (SendsBound /\ RepliesToOwner /\ InOrder)'
  BY <1>4, BoundKept, OwnerKept, OrderKept, Zenon DEF BoundSame
<1> QED
  BY <1>2, <1>3, <1>5, <1>6, <1>7, Parts, Zenon DEF Conjuncts

\* The end of a pass over the completions, and of run.
LEMMA PassStep ==
  ASSUME IInv, reap_end \/ run_exit
  PROVE  IInv'
<1> /\ TypeOK /\ Accounts /\ MapsOK /\ ConnsOK /\ SendsOK /\ Sorted
    /\ (~SQPOLL => SendsBound /\ RepliesToOwner /\ InOrder)
  BY Parts, Zenon DEF Conjuncts
<1>1. /\ UNCHANGED <<conns_, sid_to_fd_, next_session_id_, owner, free_slots_, send_pool_, out,
                     prepared, published, inflight, cq, client, backlog, file, unread, lag, got, cut,
                     waited, outbound, asked, emitted>>
      /\ pc' \in {"drain", "exited"}
  BY Zenon DEF reap_end, run_exit, Reaped, maps, slots, rings, socket, wire, shard
<1> USE <1>1
<1>2. TypeOK'
  BY Zenon DEF TypeOK
<1>3. Queue' = Queue
  BY QueueSame, Zenon
<1>4. Accounts'
  BY <1>3, AccountsKept, Zenon
<1>5. MapsOK' /\ ConnsOK' /\ SendsOK' /\ Sorted'
  BY <1>3, MapsKept, ConnsKept, SendsKept, SortedKept, Zenon DEF SendsSame
<1>6. ~SQPOLL => (SendsBound /\ RepliesToOwner /\ InOrder)'
  BY <1>3, BoundKept, OwnerKept, OrderKept, Zenon DEF BoundSame
<1> QED
  BY <1>2, <1>4, <1>5, <1>6, Parts, Zenon DEF Conjuncts

\* io_uring_submit, called by poll_once or by get_sqe, keeps the invariant.
LEMMA SubmitStep ==
  ASSUME IInv, submit \/ get_sqe_full
  PROVE  IInv'
<1> /\ TypeOK /\ Accounts /\ MapsOK /\ ConnsOK /\ SendsOK /\ Sorted
    /\ (~SQPOLL => SendsBound /\ RepliesToOwner /\ InOrder)
  BY Parts, Zenon DEF Conjuncts
<1>1. /\ published' = published \o prepared /\ prepared' = <<>>
      /\ UNCHANGED <<conns_, sid_to_fd_, next_session_id_, owner, free_slots_, send_pool_,
                     out, inflight, cq, client, backlog, file, unread, lag, got, cut, waited,
                     outbound, asked, emitted>>
      /\ pc' = pc \/ pc' = "reap"
  BY Zenon DEF submit, get_sqe_full, maps, slots, socket, wire, shard
<1> USE <1>1
<1>2. TypeOK'
  <2>1. published' \in Seq(Sqe) /\ prepared' \in Seq(Sqe)
    BY SeqJoin DEF TypeOK, Joined
  <2> QED
    BY <2>1, ZenonT(40) DEF TypeOK
<1>3. Queue' = Queue
  BY QueueSubmit, Zenon
<1>4. Accounts'
  BY <1>3, AccountsKept, Zenon
<1>5. MapsOK' /\ ConnsOK' /\ SendsOK' /\ Sorted'
  BY <1>3, MapsKept, ConnsKept, SendsKept, SortedKept, Zenon DEF SendsSame
<1>6. ~SQPOLL => (SendsBound /\ RepliesToOwner /\ InOrder)'
  BY <1>3, BoundKept, OwnerKept, OrderKept, Zenon DEF BoundSame
<1> QED
  BY <1>2, <1>4, <1>5, <1>6, Parts, Zenon DEF Conjuncts

\* A receive that completes keeps the invariant.
LEMMA CompleteRecvStep ==
  ASSUME FiniteSetFacts, IInv, complete_recv
  PROVE  IInv'
<1> /\ TypeOK /\ Accounts /\ MapsOK /\ ConnsOK /\ SendsOK /\ Sorted
    /\ (~SQPOLL => SendsBound /\ RepliesToOwner /\ InOrder)
  BY Parts, Zenon DEF Conjuncts
<1>1. PICK op \in inflight :
        /\ op.sqe.op = "RECV"
        /\ Complete([op |-> "RECV", fd |-> op.sqe.fd, res |-> unread[op.conn]])
        /\ unread' = [unread EXCEPT ![op.conn] = "none"]
        /\ inflight' = inflight \ {op}
  BY Zenon DEF complete_recv
<1>2. UNCHANGED <<conns_, sid_to_fd_, next_session_id_, owner, free_slots_, send_pool_, pc,
                  out, prepared, published, client, backlog, file, lag, got, cut, waited, outbound,
                  asked, emitted>>
  BY Zenon DEF complete_recv, maps, slots, wire, shard
<1> USE <1>2
<1> DEFINE y == [op |-> "RECV", fd |-> op.sqe.fd, res |-> unread[op.conn]]
<1>3. op.sqe \in Sqe /\ op.conn \in Conns
  BY <1>1, Zenon DEF TypeOK, SendsOK
<1>4. y \in Completion
  <2>1. op.sqe.fd \in Fds
    BY <1>1, <1>3, EntryFields, Zenon
  <2>2. unread[op.conn] \in Results
    BY <1>3, Zenon DEF TypeOK
  <2> QED
    BY <2>1, <2>2, Zenon DEF Completion
<1>5. Queue' = Queue
  BY QueueSame, Zenon
<1>6. Accounts' /\ IsFiniteSet(inflight')
  BY <1>1, <1>4, <1>5, AccountsDone, Zenon DEF Complete, Done
<1>7. TypeOK'
  <2>1. cq' \in Seq(Completion)
    BY <1>1, <1>4, AppendType, ZenonT(40) DEF TypeOK, Complete
  <2>2. unread' \in [Conns -> Results] /\ inflight' \subseteq inflight
    BY <1>1, <1>3 DEF TypeOK, Results
  <2> QED
    BY <1>6, <2>1, <2>2, Zenon DEF TypeOK
<1>8. MapsOK' /\ ConnsOK' /\ SendsOK' /\ Sorted'
  BY <1>1, <1>5, MapsKept, ConnsKept, SendsKept, SortedKept, Zenon DEF SendsSame
<1>9. ~SQPOLL => (SendsBound /\ RepliesToOwner /\ InOrder)'
  BY <1>1, <1>5, BoundKept, OwnerKept, OrderKept, Zenon DEF BoundSame
<1> QED
  BY <1>6, <1>7, <1>8, <1>9, Parts, Zenon DEF Conjuncts

\* An accept that completes with a new descriptor keeps the invariant.
LEMMA CompleteAcceptStep ==
  ASSUME FiniteSetFacts, IInv, complete_accept
  PROVE  IInv'
<1> /\ TypeOK /\ Accounts /\ MapsOK /\ ConnsOK /\ SendsOK /\ Sorted
    /\ (~SQPOLL => SendsBound /\ RepliesToOwner /\ InOrder)
  BY Parts, Zenon DEF Conjuncts
<1>1. PICK op \in inflight, more \in BOOLEAN :
        /\ op.sqe = Accept /\ backlog # {}
        /\ \/ \E c \in backlog, fd \in Fds :
                /\ file[fd] = NONE
                /\ file' = [file EXCEPT ![fd] = c] /\ backlog' = backlog \ {c}
                /\ Complete([op |-> "ACCEPT", res |-> fd, more |-> more])
           \/ /\ ~more /\ \A fd \in Fds : file[fd] # NONE
              /\ Complete([op |-> "ACCEPT", res |-> NONE, more |-> more])
              /\ UNCHANGED <<file, backlog>>
        /\ inflight' = IF more THEN inflight ELSE inflight \ {op}
  BY Zenon DEF complete_accept
<1>2. UNCHANGED <<conns_, sid_to_fd_, next_session_id_, owner, free_slots_, send_pool_, pc,
                  out, prepared, published, client, unread, lag, got, cut, waited, outbound, asked,
                  emitted>>
  BY Zenon DEF complete_accept, maps, slots, wire, shard
<1> USE <1>2
<1>3. Queue' = Queue /\ inflight' \subseteq inflight
  BY <1>1, QueueSame, Zenon
<1>4. SendsOK' /\ Sorted'
  BY <1>3, SendsKept, SortedKept, Zenon DEF SendsSame
<1>5. ~SQPOLL => (SendsBound /\ RepliesToOwner /\ InOrder)'
  BY <1>3, BoundKept, OwnerKept, OrderKept, Zenon DEF BoundSame
<1>6. CASE \E c \in backlog, fd \in Fds :
             /\ file[fd] = NONE
             /\ file' = [file EXCEPT ![fd] = c] /\ backlog' = backlog \ {c}
             /\ Complete([op |-> "ACCEPT", res |-> fd, more |-> more])
  <2>1. PICK c \in backlog, fd \in Fds :
             /\ file[fd] = NONE
             /\ file' = [file EXCEPT ![fd] = c] /\ backlog' = backlog \ {c}
             /\ cq' = Append(cq, [op |-> "ACCEPT", res |-> fd, more |-> more])
    BY <1>6, Zenon DEF Complete
  <2>2. c \in Conns /\ c # NONE
    BY UringAssumption, Zenon DEF TypeOK
  <2>3. Accounts' /\ IsFiniteSet(inflight')
    BY <1>1, <1>3, <2>1, <2>2, AccountsAccepted, Zenon DEF AcceptedConn
  <2>4. TypeOK'
    <3>1. [op |-> "ACCEPT", res |-> fd, more |-> more] \in Completion
      BY Zenon DEF Completion
    <3>2. cq' \in Seq(Completion) /\ file' \in [Fds -> Conns \cup {NONE}] /\ backlog' \subseteq Conns
      BY <2>1, <2>2, <3>1 DEF TypeOK
    <3> QED
      BY <1>3, <2>3, <3>2, Zenon DEF TypeOK
  <2>5. ASSUME NEW g \in Fds
        PROVE  file'[g] = IF g = fd THEN c ELSE file[g]
    BY <2>1, Zenon DEF TypeOK
  <2>6. conns_[fd] = NONE
    <3>1. OnTheirWay(Accepted(fd)) \in Nat
      BY OnTheirWayType, Zenon
    <3>2. OnTheirWay(Accepted(fd)) + (IF conns_[fd] = NONE THEN 0 ELSE 1) = 0
      BY <2>1, Zenon DEF Accounts, FdsAccounted
    <3> QED
      BY <3>1, <3>2
  <2>7. MapsOK'
    <3>1. ASSUME NEW sid \in Sids, sid_to_fd_[sid] # NONE
          PROVE  owner[sid] = file'[sid_to_fd_[sid]]
      <4>1. sid_to_fd_[sid] \in Fds /\ conns_[sid_to_fd_[sid]] = sid /\ sid # NONE
        <5>1. sid_to_fd_[sid] \in Fds
          BY <3>1, Zenon DEF TypeOK
        <5>2. conns_[sid_to_fd_[sid]] = sid
          BY <3>1, Zenon DEF MapsOK
        <5> QED
          BY <5>1, <5>2, UringAssumption, Zenon
      <4> QED
        BY <2>5, <2>6, <3>1, <4>1, Zenon DEF MapsOK
    <3> QED
      BY <3>1, Zenon DEF MapsOK
  <2>8. ConnsOK'
    <3>1. /\ \A g \in Fds : file[g] # c
          /\ \A sid \in Sids : owner[sid] # c
          /\ client[c] # "idle"
      BY <2>1, <2>2, Zenon DEF ConnsOK
    <3>2. \A f, g \in Fds : file'[f] # NONE /\ file'[f] = file'[g] => f = g
      BY <2>5, <3>1, Zenon DEF ConnsOK
    <3>3. ASSUME NEW d \in Conns, client[d] = "idle" \/ d \in backlog'
          PROVE  (\A g \in Fds : file'[g] # d) /\ (\A sid \in Sids : owner[sid] # d)
      <4>1. d # c /\ (client[d] = "idle" \/ d \in backlog)
        BY <2>1, <3>1, <3>3, Zenon
      <4>2. (\A g \in Fds : file[g] # d) /\ (\A sid \in Sids : owner[sid] # d)
        BY <4>1, Zenon DEF ConnsOK
      <4> QED
        BY <2>5, <4>1, <4>2, Zenon
    <3>4. \A g \in Fds : file'[g] # NONE /\ conns_[g] = NONE => \A sid \in Sids : owner[sid] # file'[g]
      BY <2>5, <3>1, Zenon DEF ConnsOK
    <3> QED
      BY <2>1, <3>2, <3>3, <3>4, Zenon DEF ConnsOK
  <2> QED
    BY <1>4, <1>5, <2>3, <2>4, <2>7, <2>8, Parts, Zenon DEF Conjuncts
<1>7. CASE /\ ~more /\ Complete([op |-> "ACCEPT", res |-> NONE, more |-> more])
           /\ UNCHANGED <<file, backlog>>
  <2> DEFINE y == [op |-> "ACCEPT", res |-> NONE, more |-> more]
  <2>1. y \in Completion /\ y.res \notin Fds
    BY UringAssumption, Zenon DEF Completion
  <2>2. Accounts' /\ IsFiniteSet(inflight')
    <3>1. inflight' = inflight \ {op} /\ cq' = Append(cq, y) /\ op.sqe.op = "ACCEPT"
      BY <1>1, <1>7, AcceptOp, Zenon DEF Complete
    <3> QED
      BY <1>3, <1>7, <2>1, <3>1, AccountsDone, Zenon DEF Done
  <2>3. TypeOK'
    <3>1. cq' \in Seq(Completion)
      BY <1>7, <2>1 DEF TypeOK, Complete
    <3> QED
      BY <1>3, <1>7, <2>2, <3>1, ZenonT(40) DEF TypeOK
  <2>4. MapsOK' /\ ConnsOK'
    BY <1>7, MapsKept, ConnsKept, Zenon
  <2> QED
    BY <1>4, <1>5, <2>2, <2>3, <2>4, Parts, Zenon DEF Conjuncts
<1> QED
  BY <1>1, <1>6, <1>7, Zenon

-----------------------------------------------------------------------------
(* The replies still to be sent, when the queue and the outbound ring move  *)

\* The queue without its first entry, position by position.
MovedUp ==
  /\ Len(Queue) \in Nat \ {0} /\ DOMAIN Queue = 1 .. Len(Queue)
  /\ DOMAIN Queue' = 1 .. Len(Queue) - 1
  /\ \A i \in DOMAIN Queue' : Queue'[i] = Queue[i + 1]
  /\ \A i \in DOMAIN Queue', sid \in Sids : QueuedFor(i, sid)' <=> QueuedFor(i + 1, sid)
  /\ \A i \in DOMAIN Queue' : Number(i)' = Number(i + 1)

\* The first entry is issued: the others move up.
LEMMA QueueMovesUp ==
  ASSUME FiniteSetFacts, TypeOK, Queue # <<>>, Queue' = Tail(Queue), send_pool_' = send_pool_
  PROVE  MovedUp
<1>1. Queue \in Seq(Sqe)
  BY PlacesType, Zenon DEF PlacesCounted
<1>2. /\ Len(Queue) \in Nat \ {0} /\ DOMAIN Queue = 1 .. Len(Queue)
      /\ DOMAIN Queue' = 1 .. Len(Queue) - 1
      /\ \A i \in DOMAIN Queue' : Queue'[i] = Queue[i + 1]
  BY <1>1
<1> QED
  BY <1>2, Zenon DEF QueuedFor, Number, MovedUp

\* Issuing the first entry of the queue leaves the rest sorted.
LEMMA SortedIssued ==
  ASSUME FiniteSetFacts, TypeOK, Sorted, Queue # <<>>, Queue' = Tail(Queue), UNCHANGED <<send_pool_, outbound, emitted>>
  PROVE  Sorted'
<1> DEFINE n == Len(Queue)
<1>1. /\ n \in Nat \ {0} /\ DOMAIN Queue = 1 .. n
      /\ DOMAIN Queue' = 1 .. n - 1
      /\ \A i \in DOMAIN Queue', sid \in Sids : QueuedFor(i, sid)' <=> QueuedFor(i + 1, sid)
      /\ \A i \in DOMAIN Queue' : Number(i)' = Number(i + 1)
  BY QueueMovesUp, Zenon DEF MovedUp
<1> HIDE DEF n
<1> SUFFICES ASSUME NEW sid \in Sids
             PROVE  /\ \A i, j \in DOMAIN Queue' :
                         i < j /\ QueuedFor(i, sid)' /\ QueuedFor(j, sid)' => Number(i)' < Number(j)'
                    /\ \A i \in DOMAIN Queue', j \in DOMAIN outbound :
                         QueuedFor(i, sid)' /\ outbound[j].sid = sid => Number(i)' < outbound[j].n
                    /\ \A i \in DOMAIN Queue' : QueuedFor(i, sid)' => Number(i)' <= emitted[sid]
  BY Zenon DEF Sorted
<1>2. ASSUME NEW i \in DOMAIN Queue', NEW j \in DOMAIN Queue', i < j,
             QueuedFor(i, sid)', QueuedFor(j, sid)'
      PROVE  Number(i)' < Number(j)'
  <2>1. i + 1 \in DOMAIN Queue /\ j + 1 \in DOMAIN Queue /\ i + 1 < j + 1
    BY <1>1, <1>2
  <2> QED
    BY <1>1, <1>2, <2>1, Zenon DEF Sorted
<1>3. ASSUME NEW i \in DOMAIN Queue', QueuedFor(i, sid)'
      PROVE  /\ \A j \in DOMAIN outbound : outbound[j].sid = sid => Number(i)' < outbound[j].n
             /\ Number(i)' <= emitted[sid]
  <2>1. i + 1 \in DOMAIN Queue
    BY <1>1
  <2> QED
    BY <1>1, <1>3, <2>1, Zenon DEF Sorted
<1> QED
  BY <1>2, <1>3, Zenon

\* The first entry of the queue is issued, and it is not for the session.
FirstIssuedNotFor(sid) ==
  /\ Queue # <<>>
  /\ Queue' = Tail(Queue)
  /\ UNCHANGED <<send_pool_, outbound, emitted>>
  /\ ~QueuedFor(1, sid)

\* The entry that is issued is not for this session.
LEMMA StillOthers ==
  ASSUME FiniteSetFacts, TypeOK, NEW sid \in Sids, NEW r \in Nat, StillToSend(sid, r),
         FirstIssuedNotFor(sid)
  PROVE  StillToSend(sid, r)'
<1> USE DEF FirstIssuedNotFor
<1> DEFINE n == Len(Queue)
<1>1. /\ n \in Nat \ {0} /\ DOMAIN Queue = 1 .. n
      /\ DOMAIN Queue' = 1 .. n - 1
      /\ \A i \in DOMAIN Queue' : QueuedFor(i, sid)' <=> QueuedFor(i + 1, sid)
      /\ \A i \in DOMAIN Queue' : Number(i)' = Number(i + 1)
  BY QueueMovesUp, Zenon DEF MovedUp
<1> HIDE DEF n
<1>2. ASSUME NEW i \in DOMAIN Queue', QueuedFor(i, sid)'
      PROVE  Number(i)' > r
  <2>1. i + 1 \in DOMAIN Queue
    BY <1>1
  <2> QED
    BY <1>1, <1>2, <2>1, Zenon DEF StillToSend
<1>3. ASSUME NEW m \in r + 1 .. emitted[sid], NEW i \in DOMAIN Queue, QueuedFor(i, sid), Number(i) = m
      PROVE  \E j \in DOMAIN Queue' : QueuedFor(j, sid)' /\ Number(j)' = m
  <2>1. i # 1
    BY <1>3, Zenon
  <2>2. i - 1 \in DOMAIN Queue' /\ (i - 1) + 1 = i
    BY <1>1, <2>1
  <2> QED
    BY <1>1, <1>3, <2>2, Zenon
<1> QED
  BY <1>2, <1>3, Zenon DEF StillToSend

\* The first entry of the queue is issued, and it is for the session.
FirstIssuedFor(sid) ==
  /\ Queue # <<>>
  /\ Queue' = Tail(Queue)
  /\ UNCHANGED <<send_pool_, outbound, emitted>>
  /\ QueuedFor(1, sid)

\* The first entry that is for a session holds the next reply to it.
LEMMA StillIssued ==
  ASSUME FiniteSetFacts, TypeOK, Sorted, SendsOK, NEW sid \in Sids, NEW r \in Nat, StillToSend(sid, r),
         FirstIssuedFor(sid)
  PROVE  Number(1) = r + 1 /\ StillToSend(sid, r + 1)'
<1> USE DEF FirstIssuedFor
<1> DEFINE n == Len(Queue)
<1>1. /\ n \in Nat \ {0} /\ DOMAIN Queue = 1 .. n
      /\ DOMAIN Queue' = 1 .. n - 1
      /\ \A i \in DOMAIN Queue' : QueuedFor(i, sid)' <=> QueuedFor(i + 1, sid)
      /\ \A i \in DOMAIN Queue' : Number(i)' = Number(i + 1)
  BY QueueMovesUp, Zenon DEF MovedUp
<1> HIDE DEF n
<1>2. 1 \in DOMAIN Queue
  BY <1>1
<1>3. /\ \A i \in DOMAIN Queue : QueuedFor(i, sid) => Number(i) \in Nat
      /\ \A i \in DOMAIN outbound : outbound[i].n \in Nat
      /\ emitted[sid] \in Nat
  <2>1. ASSUME NEW i \in DOMAIN Queue, QueuedFor(i, sid)
        PROVE  Number(i) \in Nat
    BY <2>1, Zenon DEF SendsOK, QueuedFor, Number, Reply
  <2>2. outbound \in Seq(Reply) /\ emitted[sid] \in Nat
    BY Zenon DEF TypeOK
  <2>3. ASSUME NEW i \in DOMAIN outbound
        PROVE  outbound[i].n \in Nat
    <3>1. outbound[i] \in Reply
      BY <2>2
    <3> QED
      BY <3>1, Zenon DEF Reply
  <2> QED
    BY <2>1, <2>2, <2>3, Zenon
<1>4. Number(1) > r /\ Number(1) <= emitted[sid]
  BY <1>2, Zenon DEF StillToSend, Sorted
<1>5. /\ \A i \in DOMAIN Queue : i # 1 /\ QueuedFor(i, sid) => Number(i) > Number(1)
      /\ \A i \in DOMAIN outbound : outbound[i].sid = sid => outbound[i].n > Number(1)
  <2>1. \A i \in DOMAIN Queue : i # 1 => 1 < i
    BY <1>1
  <2> QED
    BY <1>2, <1>3, <2>1, Zenon DEF Sorted
<1>6. Number(1) = r + 1
  <2>1. r + 1 \in r + 1 .. emitted[sid]
    BY <1>2, <1>3, <1>4
  <2>2. CASE \E i \in DOMAIN Queue : QueuedFor(i, sid) /\ Number(i) = r + 1
    BY <1>2, <1>3, <1>4, <1>5, <2>2
  <2>3. CASE \E i \in DOMAIN outbound : outbound[i].sid = sid /\ outbound[i].n = r + 1
    BY <1>2, <1>3, <1>4, <1>5, <2>3
  <2> QED
    BY <2>1, <2>2, <2>3, Zenon DEF StillToSend
<1>7. ASSUME NEW i \in DOMAIN Queue', QueuedFor(i, sid)'
      PROVE  Number(i)' > r + 1
  <2>1. i + 1 \in DOMAIN Queue /\ i + 1 # 1
    BY <1>1
  <2> QED
    BY <1>1, <1>5, <1>6, <1>7, <2>1, Zenon
<1>8. ASSUME NEW m \in (r + 1) + 1 .. emitted[sid]
      PROVE  \/ \E j \in DOMAIN Queue' : QueuedFor(j, sid)' /\ Number(j)' = m
             \/ \E j \in DOMAIN outbound : outbound[j].sid = sid /\ outbound[j].n = m
  <2>1. m \in r + 1 .. emitted[sid] /\ m # r + 1
    BY <1>3
  <2>2. ASSUME NEW i \in DOMAIN Queue, QueuedFor(i, sid), Number(i) = m
        PROVE  \E j \in DOMAIN Queue' : QueuedFor(j, sid)' /\ Number(j)' = m
    <3>1. i # 1
      BY <1>6, <2>1, <2>2, Zenon
    <3>2. i - 1 \in DOMAIN Queue' /\ (i - 1) + 1 = i
      BY <1>1, <3>1
    <3> QED
      BY <1>1, <2>2, <3>2, Zenon
  <2> QED
    BY <2>1, <2>2, Zenon DEF StillToSend
<1>9. r + 1 <= emitted[sid]
  BY <1>4, <1>6, Zenon
<1> QED
  BY <1>5, <1>6, <1>7, <1>8, <1>9, Zenon DEF StillToSend

\* A number written in base m gives its digits back.
LEMMA Digits ==
  ASSUME NEW m \in Nat \ {0}, NEW a \in Nat, NEW b \in 0 .. m - 1
  PROVE  (a * m + b) \div m = a /\ (a * m + b) % m = b
<1>1. a * m \in Nat /\ a * m + b \in Nat
  OBVIOUS
<1> DEFINE q == (a * m + b) \div m
           r == (a * m + b) % m
<1>2. q \in Int /\ r \in 0 .. m - 1 /\ a * m + b = m * q + r
  OBVIOUS
<1> HIDE DEF q, r
<1>3. (a - q) * m = r - b
  BY <1>2
<1>4. a = q
  <2>1. CASE a > q
    BY <1>2, <1>3, <2>1
  <2>2. CASE a < q
    BY <1>2, <1>3, <2>2
  <2> QED
    BY <1>2, <2>1, <2>2
<1> QED
  BY <1>2, <1>4 DEF q, r

\* The units h are the units g and then w units of the reply m after its k-th.
Extended(h, g, m, k, w) ==
  \E u \in Seq(Sids \X Int \X Int) :
    Len(u) = w /\ h = g \o u /\ \A j \in 1 .. w : u[j] = <<m.sid, m.n, k + j>>

\* A whole reply after r whole replies.
Numbered(g) ==
  \A k \in DOMAIN g : g[k][2] = ((k - 1) \div FRAME) + 1 /\ g[k][3] = ((k - 1) % FRAME) + 1

\* A whole reply written behind whole replies makes one more.
LEMMA WholeAdded ==
  ASSUME NEW g \in Seq(Sids \X Int \X Int), NEW h, NEW m, NEW r \in Nat, m.n = r + 1,
         Len(g) = r * FRAME, Numbered(g), Extended(h, g, m, 0, FRAME)
  PROVE  Len(h) = (r + 1) * FRAME /\ Numbered(h)
<1> DEFINE S == Sids \X Int \X Int
           sid == m.sid
<1>6. PICK u \in Seq(S) :
        Len(u) = FRAME /\ h = g \o u /\ \A j \in 1 .. FRAME : u[j] = <<sid, r + 1, 0 + j>>
  BY Zenon DEF Extended
<1> HIDE DEF S, sid
<1>7. g \in Seq(S)
  BY Zenon DEF S
<1>1. FRAME \in Nat \ {0}
  BY UringAssumption, Zenon
<1>2. /\ Len(h) = Len(g) + FRAME /\ DOMAIN h = 1 .. Len(g) + FRAME /\ DOMAIN g = 1 .. Len(g)
      /\ Len(g) \in Nat
      /\ \A k \in 1 .. Len(g) : h[k] = g[k]
      /\ \A j \in 1 .. FRAME : h[Len(g) + j] = u[j]
  <2>1. /\ h \in Seq(S) /\ Len(h) = Len(g) + FRAME /\ Len(g) \in Nat
        /\ \A k \in 1 .. Len(g) + FRAME : h[k] = IF k <= Len(g) THEN g[k] ELSE u[k - Len(g)]
    <3>1. /\ g \o u \in Seq(S) /\ Len(g \o u) = Len(g) + Len(u)
          /\ \A k \in 1 .. Len(g) + Len(u) : (g \o u)[k] = IF k <= Len(g) THEN g[k] ELSE u[k - Len(g)]
      BY <1>6, <1>7, SeqJoin, Zenon DEF Joined
    <3> QED
      BY <1>6, <3>1
  <2>2. DOMAIN h = 1 .. Len(h) /\ DOMAIN g = 1 .. Len(g)
    BY <2>1
  <2>3. ASSUME NEW j \in 1 .. FRAME
        PROVE  h[Len(g) + j] = u[j]
    <3>1. /\ Len(g) + j \in 1 .. Len(g) + FRAME /\ ~(Len(g) + j <= Len(g))
          /\ (Len(g) + j) - Len(g) = j
      BY <1>1, <2>1
    <3> QED
      BY <2>1, <3>1, ZenonT(40)
  <2>4. ASSUME NEW k \in 1 .. Len(g)
        PROVE  h[k] = g[k]
    <3>1. k \in 1 .. Len(g) + FRAME /\ k <= Len(g)
      BY <1>1, <2>1
    <3> QED
      BY <2>1, <3>1, Zenon
  <2> QED
    BY <2>1, <2>2, <2>3, <2>4, Zenon
<1>3. Len(h) = (r + 1) * FRAME
  BY <1>1, <1>2
<1>4. ASSUME NEW j \in 1 .. FRAME, NEW k \in DOMAIN h, k = Len(g) + j
      PROVE  /\ h[k][2] = ((k - 1) \div FRAME) + 1
             /\ h[k][3] = ((k - 1) % FRAME) + 1
  <2> DEFINE b == j - 1
  <2>1. b \in 0 .. FRAME - 1 /\ k - 1 = r * FRAME + b
    BY <1>1, <1>2, <1>4
  <2>2. (r * FRAME + b) \div FRAME = r /\ (r * FRAME + b) % FRAME = b
    <3> HIDE DEF b
    <3> QED
      BY <1>1, <2>1, Digits, Zenon
  <2>3. h[k] = <<sid, r + 1, j>>
    <3>1. h[k] = u[j]
      BY <1>2, <1>4, Zenon
    <3>2. u[j] = <<sid, r + 1, 0 + j>> /\ 0 + j = j
      BY <1>6
    <3> QED
      BY <3>1, <3>2, Zenon
  <2>4. b + 1 = j
    BY <1>1
  <2>5. h[k][2] = r + 1 /\ h[k][3] = j
    BY <2>3
  <2> HIDE DEF b
  <2>6. (k - 1) \div FRAME = r /\ (k - 1) % FRAME = b
    BY <2>1, <2>2, Zenon
  <2> QED
    BY <2>4, <2>5, <2>6, Zenon
<1>5. ASSUME NEW k \in DOMAIN h
      PROVE  h[k][2] = ((k - 1) \div FRAME) + 1 /\ h[k][3] = ((k - 1) % FRAME) + 1
  <2>1. CASE k \in 1 .. Len(g)
    BY <1>2, <2>1, Zenon DEF Numbered
  <2>2. CASE k \notin 1 .. Len(g)
    <3>1. k - Len(g) \in 1 .. FRAME /\ Len(g) + (k - Len(g)) = k
      BY <1>1, <1>2, <2>2
    <3> QED
      BY <1>4, <3>1, Zenon
  <2> QED
    BY <2>1, <2>2, Zenon
<1> QED
  BY <1>3, <1>5, Zenon DEF Numbered

-----------------------------------------------------------------------------
(* Writing replies                                                          *)

\* A descriptor with a session is open.
LEMMA FdOpen ==
  ASSUME FiniteSetFacts, TypeOK, Accounts, NEW fd \in Fds, conns_[fd] # NONE
  PROVE  file[fd] \in Conns
<1>1. OnTheirWay(Accepted(fd)) \in Nat
  BY PlacesType DEF PlacesCounted
<1>2. OnTheirWay(Accepted(fd)) + 1 = IF file[fd] = NONE THEN 0 ELSE 1
  BY Zenon DEF Accounts, FdsAccounted
<1>3. file[fd] # NONE
  BY <1>1, <1>2
<1> QED
  BY <1>3, Zenon DEF TypeOK

\* The session sid owns the connection that its descriptor names.
HasConn(sid) ==
  /\ sid_to_fd_[sid] \in Fds /\ conns_[sid_to_fd_[sid]] = sid
  /\ owner[sid] = file[sid_to_fd_[sid]] /\ owner[sid] \in Conns

\* A session with a descriptor owns the connection that this names.
LEMMA SessionOpen ==
  ASSUME FiniteSetFacts, TypeOK, Accounts, MapsOK, NEW sid \in Sids, sid_to_fd_[sid] # NONE
  PROVE  HasConn(sid)
<1>1. sid_to_fd_[sid] \in Fds /\ conns_[sid_to_fd_[sid]] = sid /\ owner[sid] = file[sid_to_fd_[sid]]
  BY DEF TypeOK, MapsOK
<1>2. sid # NONE
  BY UringAssumption, Zenon
<1> QED
  BY <1>1, <1>2, FdOpen, Zenon DEF HasConn

\* What writing w units of the reply m to the connection c changes.
BytesWritten(c, m, k, w) ==
  /\ got' \in [Conns -> Seq(Sids \X Int \X Int)] /\ lag' \in [Conns -> Int]
  /\ \A d \in Conns : d # c => got'[d] = got[d]
  /\ Extended(got'[c], got[c], m, k, w)

\* What writing w units of a reply does to the connection.
LEMMA WrittenFacts ==
  ASSUME TypeOK, NEW c \in Conns, NEW m, m.sid \in Sids, m.n \in Int, NEW k \in Int,
         NEW w \in Nat, Written(c, m, k, w)
  PROVE  BytesWritten(c, m, k, w)
<1> DEFINE U == Sids \X Int \X Int
           u == [j \in 1 .. w |-> <<m.sid, m.n, k + j>>]
<1>1. u \in [1 .. w -> U]
  OBVIOUS
<1>2. u \in Seq(U)
  BY <1>1, SeqFun, Zenon
<1>3. Len(u) = w
  BY <1>1, <1>2
<1>4. \A j \in 1 .. w : u[j] = <<m.sid, m.n, k + j>>
  BY Zenon
<1>5. got' = [got EXCEPT ![c] = got[c] \o u] /\ lag' = [lag EXCEPT ![c] = @ + w]
  BY Zenon DEF Written, TypeOK
<1> HIDE DEF u
<1>6. got[c] \in Seq(U) /\ got \in [Conns -> Seq(U)] /\ lag \in [Conns -> Int]
  BY Zenon DEF TypeOK
<1>7. got[c] \o u \in Seq(U)
  BY <1>2, <1>6, SeqJoin, Zenon DEF Joined
<1> HIDE DEF U
<1>8. got' \in [Conns -> Seq(U)] /\ lag' \in [Conns -> Int]
      /\ got'[c] = got[c] \o u /\ \A d \in Conns : d # c => got'[d] = got[d]
  BY <1>5, <1>6, <1>7
<1>9. Extended(got'[c], got[c], m, k, w)
  BY <1>2, <1>3, <1>4, <1>8, Zenon DEF U, Extended
<1> QED
  BY <1>8, <1>9, Zenon DEF U, BytesWritten

\* Writing to the connection of the reply's session keeps RepliesToOwner.
LEMMA WrittenToOwner ==
  ASSUME TypeOK, RepliesToOwner, owner' = owner, NEW c \in Conns, NEW m, m.sid \in Sids, m.n \in Int,
         NEW k \in Int, NEW w \in Nat, Written(c, m, k, w), owner[m.sid] = c
  PROVE  RepliesToOwner'
<1>1. \A d \in Conns : d # c => got'[d] = got[d]
  BY WrittenFacts, Zenon DEF BytesWritten
<1>2. PICK u \in Seq(Sids \X Int \X Int) :
        Len(u) = w /\ got'[c] = got[c] \o u /\ \A j \in 1 .. w : u[j] = <<m.sid, m.n, k + j>>
  <2>1. Extended(got'[c], got[c], m, k, w)
    BY WrittenFacts, Zenon DEF BytesWritten
  <2> QED
    BY <2>1, Zenon DEF Extended
<1>3. got[c] \in Seq(Sids \X Int \X Int)
  BY Zenon DEF TypeOK
<1>4. ASSUME NEW i \in DOMAIN got'[c]
      PROVE  owner[got'[c][i][1]] = c
  <2>1. i \in 1 .. Len(got[c]) + w /\ got'[c][i] = IF i <= Len(got[c]) THEN got[c][i] ELSE u[i - Len(got[c])]
    BY <1>2, <1>3
  <2>2. CASE i <= Len(got[c])
    <3>1. i \in DOMAIN got[c] /\ got'[c][i] = got[c][i]
      BY <1>3, <2>1, <2>2
    <3> QED
      BY <3>1, Zenon DEF RepliesToOwner
  <2>3. CASE ~(i <= Len(got[c]))
    <3>1. i - Len(got[c]) \in 1 .. w /\ got'[c][i] = u[i - Len(got[c])]
      <4> DEFINE n == Len(got[c])
      <4>1. n \in Nat
        BY <1>3
      <4> HIDE DEF n
      <4>2. i \in 1 .. n + w /\ ~(i <= n) => i - n \in 1 .. w
        BY <4>1
      <4> QED
        BY <2>1, <2>3, <4>2, Zenon DEF n
    <3>2. got'[c][i] = <<m.sid, m.n, k + (i - Len(got[c]))>>
      BY <1>2, <3>1, Zenon
    <3> QED
      BY <3>2
  <2> QED
    BY <2>2, <2>3, Zenon
<1> QED
  BY <1>1, <1>4, ZenonT(40) DEF RepliesToOwner

\* Only the connection c is written to, and c is cut or waited on.
WrittenAway(c, sid) ==
  /\ Queue' = Queue
  /\ UNCHANGED <<send_pool_, outbound, emitted, owner, sid_to_fd_>>
  /\ cut \subseteq cut'
  /\ waited \subseteq waited'
  /\ c \in cut' \cup waited'
  /\ owner[sid] = c
  /\ \A d \in Conns : d # c => got'[d] = got[d]

\* Writing to a connection that is cut or waited on.
LEMMA OrderWaited ==
  ASSUME InOrder, NEW c \in Conns, NEW sid \in Sids, WrittenAway(c, sid)
  PROVE  InOrder'
<1> USE DEF WrittenAway
<1>1. ASSUME NEW d \in Conns \ (cut' \cup waited')
      PROVE  WholeReplies(d)'
  <2>1. got'[d] = got[d] /\ WholeReplies(d)
    BY Zenon DEF InOrder
  <2> QED
    BY <2>1, StillKept, WholeKept, Zenon DEF NotWritten
<1>2. ASSUME NEW d \in Conns, \A s \in Sids : owner'[s] # d
      PROVE  got'[d] = <<>>
  BY <1>2, Zenon DEF InOrder
<1> QED
  BY <1>1, <1>2, Zenon DEF InOrder

-----------------------------------------------------------------------------
(* The kernel's sends                                                       *)

\* What issuing or completing the send x to the connection c changes.
SendDone(c, x) ==
  /\ got' \in [Conns -> Seq(Sids \X Int \X Int)] /\ lag' \in [Conns -> Int]
  /\ cq' = Append(cq, [op |-> "SEND", slot |-> x.slot]) /\ cut \subseteq cut'
  /\ \A d \in Conns : d # c => got'[d] = got[d]
  /\ c \in cut' \/ Written(c, send_pool_[x.slot], 0, FRAME)
  /\ RepliesToOwner /\ owner' = owner /\ owner[send_pool_[x.slot].sid] = c => RepliesToOwner'

\* What a send does to the connection, issued or in flight.
LEMMA SentFacts ==
  ASSUME TypeOK, NEW c \in Conns, NEW x, Sent(c, x), x.slot \in Slots, send_pool_[x.slot] \in Reply
  PROVE  SendDone(c, x)
<1> DEFINE m == send_pool_[x.slot]
           w == Least(Space(c), FRAME)
<1>1. m.sid \in Sids /\ m.n \in Int /\ 0 \in Int
  BY ReplyFields, FrameType, Zenon
<1>2. FRAME \in Nat \ {0} /\ SOCKET_BUF \in Int /\ lag[c] \in Int
  BY FrameType, Zenon DEF TypeOK
<1>3. w \in Int /\ w <= FRAME /\ (w > 0 => w \in Nat)
  BY <1>2 DEF Least, Space
<1>4. cq' = Append(cq, [op |-> "SEND", slot |-> x.slot])
  BY Zenon DEF Sent, Complete
<1>5. CASE w > 0 /\ Written(c, m, 0, w) /\ cut' = IF w < FRAME THEN cut \cup {c} ELSE cut
  <2>1. w \in Nat
    BY <1>3, <1>5, Zenon
  <2>2. /\ got' \in [Conns -> Seq(Sids \X Int \X Int)] /\ lag' \in [Conns -> Int]
        /\ \A d \in Conns : d # c => got'[d] = got[d]
    <3> HIDE DEF w
    <3> QED
      BY <1>1, <1>5, <2>1, WrittenFacts, Zenon DEF BytesWritten
  <2>3. c \in cut' \/ Written(c, m, 0, FRAME)
    <3>1. w < FRAME \/ w = FRAME
      BY <1>2, <1>3
    <3> HIDE DEF w
    <3> QED
      BY <1>5, <3>1, Zenon
  <2>4. ASSUME RepliesToOwner, owner' = owner, owner[m.sid] = c
        PROVE  RepliesToOwner'
    <3> HIDE DEF w
    <3> QED
      BY <1>1, <1>5, <2>1, <2>4, WrittenToOwner, Zenon
  <2> QED
    BY <1>4, <1>5, <2>2, <2>3, <2>4, Zenon DEF SendDone
<1>6. CASE cut' = cut \cup {c} /\ UNCHANGED <<got, lag>>
  <2>1. got' \in [Conns -> Seq(Sids \X Int \X Int)] /\ lag' \in [Conns -> Int]
    BY <1>6, Zenon DEF TypeOK
  <2>2. RepliesToOwner /\ owner' = owner => RepliesToOwner'
    BY <1>6, OwnerKept, Zenon
  <2> QED
    BY <1>4, <1>6, <2>1, <2>2, Zenon DEF SendDone
<1> QED
  BY <1>5, <1>6, Zenon DEF Sent, SendDone

\* A send in flight that completes keeps the invariant.
LEMMA CompleteSendStep ==
  ASSUME FiniteSetFacts, IInv, complete_send
  PROVE  IInv'
<1> /\ TypeOK /\ Accounts /\ MapsOK /\ ConnsOK /\ SendsOK /\ Sorted
    /\ (~SQPOLL => SendsBound /\ RepliesToOwner /\ InOrder)
  BY Parts, Zenon DEF Conjuncts
<1>1. PICK op \in inflight :
        op.sqe.op = "SEND" /\ Sent(op.conn, op.sqe) /\ inflight' = inflight \ {op}
  BY Zenon DEF complete_send
<1>2. UNCHANGED <<conns_, sid_to_fd_, next_session_id_, owner, free_slots_, send_pool_, pc,
                  out, prepared, published, client, backlog, file, unread, waited, outbound, asked,
                  emitted>>
  BY Zenon DEF complete_send, maps, slots, socket, shard
<1> USE <1>2
<1> DEFINE x == op.sqe
           c == op.conn
           y == [op |-> "SEND", slot |-> x.slot]
<1>3. x \in Sqe /\ c \in Conns /\ send_pool_[x.slot] \in Reply /\ c \in waited
  BY <1>1, Zenon DEF TypeOK, SendsOK
<1>4. x.slot \in Slots
  BY <1>1, <1>3, EntryFields, Zenon
<1>5. y \in Completion
  BY <1>4, Zenon DEF Completion
<1>6. /\ got' \in [Conns -> Seq(Sids \X Int \X Int)] /\ lag' \in [Conns -> Int]
      /\ cq' = Append(cq, y) /\ cut \subseteq cut'
      /\ \A d \in Conns : d # c => got'[d] = got[d]
      /\ RepliesToOwner /\ owner' = owner /\ owner[send_pool_[x.slot].sid] = c => RepliesToOwner'
  BY <1>1, <1>3, <1>4, SentFacts, Zenon DEF SendDone
<1>7. Queue' = Queue
  BY QueueSame, Zenon
<1>8. Accounts' /\ IsFiniteSet(inflight')
  BY <1>1, <1>5, <1>6, <1>7, AccountsDone, Zenon DEF Done
<1>9. TypeOK'
  <2>1. cq' \in Seq(Completion) /\ inflight' \subseteq inflight
    BY <1>1, <1>5, <1>6, AppendType, ZenonT(40) DEF TypeOK
  <2> QED
    BY <1>6, <1>8, <2>1, Zenon DEF TypeOK
<1>10. MapsOK' /\ ConnsOK' /\ SendsOK' /\ Sorted'
  BY <1>1, <1>7, MapsKept, ConnsKept, SendsKept, SortedKept, Zenon DEF SendsSame
<1>11. ASSUME ~SQPOLL
       PROVE  (SendsBound /\ RepliesToOwner /\ InOrder)'
  <2> DEFINE sid == send_pool_[x.slot].sid
  <2>1. sid \in Sids /\ owner[sid] = c
    BY <1>1, <1>3, <1>11, Zenon DEF SendsBound, Reply
  <2>2. SendsBound'
    BY <1>1, <1>7, <1>11, BoundKept, Zenon DEF BoundSame
  <2>3. InOrder'
    BY <1>3, <1>6, <1>7, <1>11, <2>1, OrderWaited, Zenon DEF WrittenAway
  <2> QED
    BY <1>6, <1>11, <2>1, <2>2, <2>3, Zenon
<1> QED
  BY <1>8, <1>9, <1>10, <1>11, Parts, Zenon DEF Conjuncts

\* The kernel issues the first entry, a send to the connection c.
FirstSent(c) ==
  /\ Queue # <<>>
  /\ Queue[1].op = "SEND"
  /\ 1 \in DOMAIN Queue
  /\ Queue' = Tail(Queue)
  /\ UNCHANGED <<send_pool_, outbound, emitted, owner, sid_to_fd_>>
  /\ cut \subseteq cut'
  /\ waited \subseteq waited'
  /\ c = file[Queue[1].fd]
  /\ \A d \in Conns : d # c => got'[d] = got[d]
  /\ c \in cut' \cup waited' \/ Written(c, send_pool_[Queue[1].slot], 0, FRAME)

\* The first send to a session that is unharmed, written whole.
LEMMA OrderIssued ==
  ASSUME FiniteSetFacts, TypeOK, Accounts, MapsOK, ConnsOK, SendsOK, Sorted, SendsBound, InOrder,
         NEW c, FirstSent(c)
  PROVE  InOrder'
<1> USE DEF FirstSent
<1>0. PICK m \in Reply : m = send_pool_[Queue[1].slot]
  BY Zenon DEF SendsOK
<1> DEFINE s == m.sid
<1>1. s \in Sids /\ m.n \in Int
  BY ReplyFields, Zenon
<1>2. sid_to_fd_[s] = Queue[1].fd /\ Queue[1].fd \in Fds
  <2>1. Queue[1].fd \in Fds
    BY QueueEntries, EntryFields, Zenon
  <2> QED
    BY <1>0, <2>1, Zenon DEF SendsBound
<1>3. owner[s] = c /\ c \in Conns
  <2>1. sid_to_fd_[s] # NONE
    BY <1>2, UringAssumption, Zenon
  <2> HIDE DEF s
  <2> QED
    BY <1>1, <1>2, <2>1, SessionOpen, Zenon DEF HasConn
<1>4. QueuedFor(1, s) /\ Number(1) = m.n
  BY <1>0, Zenon DEF QueuedFor, Number
<1>5. FRAME \in Nat \ {0} /\ NONE \notin Conns
  BY UringAssumption, Zenon
<1>6. ASSUME NEW d \in Conns \ (cut' \cup waited'), d # c
      PROVE  WholeReplies(d)'
  <2>1. got'[d] = got[d] /\ WholeReplies(d)
    BY <1>6, Zenon DEF InOrder
  <2>2. ASSUME NEW sid \in Sids, owner[sid] = d, NEW r \in Nat, StillToSend(sid, r)
        PROVE  StillToSend(sid, r)'
    <3>1. ~QueuedFor(1, sid)
      BY <1>0, <1>3, <1>6, <2>2, Zenon DEF QueuedFor
    <3> QED
      BY <2>2, <3>1, StillOthers, Zenon DEF FirstIssuedNotFor
  <2> QED
    BY <2>1, <2>2, WholeKept, Zenon DEF NotWritten
<1>7. ASSUME c \notin cut' \cup waited'
      PROVE  WholeReplies(c)'
  <2>1. Written(c, m, 0, FRAME) /\ c \in Conns \ (cut \cup waited)
    BY <1>0, <1>3, <1>7, Zenon
  <2>2. PICK r \in 0 .. Len(got[c]) :
          /\ Len(got[c]) = r * FRAME
          /\ \A k \in DOMAIN got[c] : UnitInOrder(c, k)
          /\ \A sid \in Sids : owner[sid] = c /\ sid_to_fd_[sid] # NONE => StillToSend(sid, r)
    BY <2>1, ZenonT(40) DEF InOrder, WholeReplies
  <2>3. got[c] \in Seq(Sids \X Int \X Int) /\ Len(got[c]) \in Nat /\ r \in Nat
    BY <1>3, <2>2, SMTT(30) DEF TypeOK
  <2>4. StillToSend(s, r)
    BY <1>1, <1>2, <1>3, <2>2, UringAssumption, Zenon
  <2>5. m.n = r + 1 /\ StillToSend(s, r + 1)'
    <3>1. Number(1) = r + 1 /\ StillToSend(s, r + 1)'
      <4> HIDE DEF s
      <4> QED
        BY <1>1, <1>4, <2>3, <2>4, StillIssued, Zenon DEF FirstIssuedFor
    <3> QED
      BY <1>4, <3>1, Zenon
  <2>6. Extended(got'[c], got[c], m, 0, FRAME)
    <3>1. BytesWritten(c, m, 0, FRAME)
      BY <1>1, <1>3, <1>5, <2>1, FrameType, WrittenFacts, Zenon
    <3> QED
      BY <3>1, Zenon DEF BytesWritten
  <2>9. Numbered(got[c])
    BY <2>2, Zenon DEF UnitInOrder, Numbered
  <2>10. Len(got'[c]) = (r + 1) * FRAME /\ Numbered(got'[c])
    BY <2>2, <2>3, <2>5, <2>6, <2>9, WholeAdded, Zenon
  <2>11. ASSUME NEW sid \in Sids, owner[sid] = c
         PROVE  StillToSend(sid, r + 1)'
    <3>1. sid = s
      <4>1. owner[sid] = owner[s] /\ owner[sid] # NONE
        BY <1>3, <1>5, <2>11, Zenon
      <4> HIDE DEF s
      <4> QED
        BY <1>1, <4>1, Zenon DEF ConnsOK
    <3> QED
      BY <2>5, <3>1, Zenon
  <2>12. r + 1 \in 0 .. Len(got'[c])
    BY <2>2, <2>3, <2>10, OneMoreReply, Zenon
  <2> QED
    BY <2>10, <2>11, <2>12, Zenon DEF WholeReplies, UnitInOrder, Numbered
<1>8. ASSUME NEW d \in Conns, \A sid \in Sids : owner'[sid] # d
      PROVE  got'[d] = <<>>
  BY <1>1, <1>3, <1>8, Zenon DEF InOrder
<1> QED
  BY <1>6, <1>7, <1>8, Zenon DEF InOrder

\* The first entry of the queue is issued, and it is not a send.
FirstNoSend ==
  /\ Queue # <<>>
  /\ Queue[1].op # "SEND"
  /\ Queue' = Tail(Queue)
  /\ UNCHANGED <<send_pool_, outbound, emitted, owner, sid_to_fd_, got, cut, waited>>

\* An entry that is not a send is issued.
LEMMA OrderOther ==
  ASSUME FiniteSetFacts, TypeOK, InOrder, FirstNoSend
  PROVE  InOrder'
<1> USE DEF FirstNoSend
<1>1. ASSUME NEW sid \in Sids, NEW r \in Nat, StillToSend(sid, r)
      PROVE  StillToSend(sid, r)'
  <2>1. ~QueuedFor(1, sid)
    BY Zenon DEF QueuedFor
  <2> QED
    BY <1>1, <2>1, StillOthers, Zenon DEF FirstIssuedNotFor
<1>2. ASSUME NEW c \in Conns \ (cut' \cup waited')
      PROVE  WholeReplies(c)'
  <2>1. WholeReplies(c)
    BY Zenon DEF InOrder
  <2> QED
    BY <1>1, <2>1, WholeKept, Zenon DEF NotWritten
<1> QED
  BY <1>2, Zenon DEF InOrder

\* Issuing an entry keeps the invariant.
LEMMA IssueStep ==
  ASSUME FiniteSetFacts, IInv, issue
  PROVE  IInv'
<1> /\ TypeOK /\ Accounts /\ MapsOK /\ ConnsOK /\ SendsOK /\ Sorted
    /\ (~SQPOLL => SendsBound /\ RepliesToOwner /\ InOrder)
  BY Parts, Zenon DEF Conjuncts
<1> DEFINE x == Head(published)
           c == IF x.op = "ACCEPT" THEN NONE ELSE file[x.fd]
           later == [sqe |-> x, conn |-> c]
           y == [op |-> "SEND", slot |-> x.slot]
<1>1. /\ published # <<>> /\ published' = Tail(published)
      /\ UNCHANGED <<conns_, sid_to_fd_, next_session_id_, owner, free_slots_, send_pool_,
                     pc, out, prepared, client, backlog, file, unread, outbound, asked, emitted>>
  BY ZenonT(40) DEF issue, maps, slots, socket, shard
<1> USE <1>1
<1>2. /\ Queue # <<>> /\ Queue[1] = x /\ Queue' = Tail(Queue) /\ 1 \in DOMAIN Queue /\ x \in Sqe
      /\ published' \in Seq(Sqe)
  BY QueueIssue DEF TypeOK, FirstIssued
<1>3. Sorted'
  BY <1>2, SortedIssued, Zenon
<1>4. MapsOK' /\ ConnsOK'
  BY MapsKept, ConnsKept, Zenon
<1>5. /\ \A i \in DOMAIN Queue' : i + 1 \in DOMAIN Queue /\ Queue'[i] = Queue[i + 1]
  BY <1>2, QueueMovesUp DEF MovedUp
<1>6. ASSUME x.op = "RECV"
      PROVE  c \in Conns
  <2>1. x.fd \in Fds
    BY <1>2, <1>6, EntryFields, Zenon
  <2>2. x \in RecvsOf(x.fd)
    BY <1>2, <1>6, <2>1, Kinds, Zenon DEF KindsApart
  <2>3. OnTheirWay(RecvsOf(x.fd)) >= 1
    BY <1>2, <2>2, OnTheirWayType, Zenon
  <2>4. conns_[x.fd] # NONE
    BY <2>1, <2>3, ReceivedFrom, Zenon
  <2> QED
    BY <1>6, <2>1, <2>4, FdOpen, Zenon
<1>7. ASSUME x.op = "SEND"
      PROVE  /\ x.fd \in Fds /\ x.slot \in Slots /\ send_pool_[x.slot] \in Reply /\ y \in Completion
             /\ c = file[x.fd] /\ (c # NONE => c \in Conns)
             /\ ~SQPOLL => /\ owner[send_pool_[x.slot].sid] = c
                           /\ c \in Conns
  <2>1. x.fd \in Fds /\ x.slot \in Slots
    BY <1>2, <1>7, EntryFields, Zenon
  <2>2. send_pool_[x.slot] \in Reply
    BY <1>2, <1>7, Zenon DEF SendsOK
  <2>3. c = file[x.fd] /\ (c # NONE => c \in Conns)
    BY <1>7, <2>1, Zenon DEF TypeOK
  <2>4. y \in Completion
    BY <2>1, Zenon DEF Completion
  <2>5. ASSUME ~SQPOLL
        PROVE  owner[send_pool_[x.slot].sid] = c /\ c \in Conns
    <3> DEFINE sid == send_pool_[x.slot].sid
    <3>1. sid \in Sids /\ sid_to_fd_[sid] = x.fd
      BY <1>2, <1>7, <2>2, <2>5, Zenon DEF SendsBound, Reply
    <3>2. sid_to_fd_[sid] # NONE
      BY <2>1, <3>1, UringAssumption, Zenon
    <3> HIDE DEF sid
    <3>3. owner[sid] = c /\ c \in Conns
      BY <2>3, <3>1, <3>2, SessionOpen, Zenon DEF HasConn
    <3> QED
      BY <3>3, Zenon DEF sid
  <2> QED
    BY <2>1, <2>2, <2>3, <2>4, <2>5, Zenon
<1> HIDE DEF c
<1>8. /\ \A i \in DOMAIN Queue' : Queue'[i].op = "SEND" => send_pool_[Queue'[i].slot] \in Reply
      /\ ~SQPOLL => \A i \in DOMAIN Queue' : Queue'[i].op = "SEND" =>
           sid_to_fd_[send_pool_[Queue'[i].slot].sid] = Queue'[i].fd
  <2>1. ASSUME NEW i \in DOMAIN Queue', Queue'[i].op = "SEND"
        PROVE  send_pool_[Queue'[i].slot] \in Reply
    BY <1>5, <2>1, Zenon DEF SendsOK
  <2>2. ASSUME ~SQPOLL, NEW i \in DOMAIN Queue', Queue'[i].op = "SEND"
        PROVE  sid_to_fd_[send_pool_[Queue'[i].slot].sid] = Queue'[i].fd
    BY <1>5, <2>2, Zenon DEF SendsBound
  <2> QED
    BY <2>1, <2>2, Zenon
<1>9. CASE x.op \in {"ACCEPT", "RECV"} /\ inflight' = inflight \cup {later} /\ UNCHANGED <<cq, wire>>
  <2>1. Accounts' /\ IsFiniteSet(inflight')
    BY <1>9, AccountsLater, Zenon DEF IssuedLater
  <2>2. c \in Conns \cup {NONE}
    BY <1>6, <1>9, Zenon DEF c
  <2>3. TypeOK'
    <3>1. inflight' \subseteq [sqe : Sqe, conn : Conns \cup {NONE}]
      BY <1>2, <1>9, <2>2, OperationType, ZenonT(40) DEF TypeOK
    <3> QED
      BY <1>2, <1>9, <2>1, <3>1, ZenonT(40) DEF TypeOK, wire
  <2>6. /\ \A op \in inflight' : op \in inflight \/ op = later
        /\ later.sqe = x /\ later.conn = c /\ x.op # "SEND" /\ waited' = waited
    BY <1>9, Zenon DEF wire
  <2>4. SendsOK'
    <3>1. \A op \in inflight' :
            /\ op.sqe.op \in {"RECV", "SEND"} => op.conn \in Conns
            /\ op.sqe.op = "SEND" => send_pool_[op.sqe.slot] \in Reply /\ op.conn \in waited
      BY <1>6, <2>6, Zenon DEF SendsOK
    <3> QED
      BY <1>8, <2>6, <3>1, Zenon DEF SendsOK
  <2>5. ASSUME ~SQPOLL
        PROVE  (SendsBound /\ RepliesToOwner /\ InOrder)'
    <3>1. SendsBound'
      <4>1. \A op \in inflight' : op.sqe.op = "SEND" => owner[send_pool_[op.sqe.slot].sid] = op.conn
        BY <2>5, <2>6, Zenon DEF SendsBound
      <4> QED
        BY <1>8, <2>5, <4>1, Zenon DEF SendsBound
    <3>2. RepliesToOwner'
      BY <1>9, <2>5, OwnerKept, Zenon DEF wire
    <3>3. InOrder'
      BY <1>2, <1>9, <2>5, OrderOther, Zenon DEF wire, FirstNoSend
    <3> QED
      BY <3>1, <3>2, <3>3, Zenon
  <2> QED
    BY <1>3, <1>4, <2>1, <2>3, <2>4, <2>5, Parts, Zenon DEF Conjuncts
<1>10. CASE x.op = "SEND" /\ c = NONE /\ Complete(y) /\ UNCHANGED <<inflight, wire>>
  <2>1. Accounts'
    BY <1>10, AccountsSentNow, Zenon DEF Complete, IssuedAndSent
  <2>2. TypeOK'
    <3>1. cq' \in Seq(Completion)
      BY <1>7, <1>10, AppendType, Zenon DEF Complete, TypeOK
    <3> QED
      BY <1>2, <1>10, <3>1, Zenon DEF TypeOK, wire
  <2>3. SendsOK'
    BY <1>8, <1>10, Zenon DEF SendsOK, wire
  <2>4. SQPOLL
    BY <1>7, <1>10, UringAssumption, Zenon
  <2> QED
    BY <1>3, <1>4, <2>1, <2>2, <2>3, <2>4, Parts, Zenon DEF Conjuncts
<1>11. CASE x.op = "SEND" /\ c # NONE /\ Sent(c, x) /\ UNCHANGED <<inflight, waited>>
  <2>1. /\ got' \in [Conns -> Seq(Sids \X Int \X Int)] /\ lag' \in [Conns -> Int]
        /\ cq' = Append(cq, y) /\ cut \subseteq cut'
        /\ \A d \in Conns : d # c => got'[d] = got[d]
        /\ c \in cut' \/ Written(c, send_pool_[x.slot], 0, FRAME)
        /\ RepliesToOwner /\ owner' = owner /\ owner[send_pool_[x.slot].sid] = c => RepliesToOwner'
    BY <1>7, <1>11, SentFacts, Zenon DEF SendDone
  <2>2. Accounts'
    BY <1>11, <2>1, AccountsSentNow, Zenon DEF IssuedAndSent
  <2>3. TypeOK'
    <3>1. cq' \in Seq(Completion)
      <4>1. cq \in Seq(Completion) /\ y \in Completion
        BY <1>7, <1>11, Zenon DEF TypeOK
      <4> HIDE DEF y
      <4> QED
        BY <2>1, <4>1, AppendType, Zenon
    <3> QED
      BY <1>2, <1>11, <2>1, <3>1, ZenonT(40) DEF TypeOK
  <2>4. SendsOK'
    BY <1>8, <1>11, Zenon DEF SendsOK
  <2>5. ASSUME ~SQPOLL
        PROVE  (SendsBound /\ RepliesToOwner /\ InOrder)'
    <3>1. SendsBound'
      BY <1>8, <1>11, <2>5, Zenon DEF SendsBound
    <3>2. RepliesToOwner'
      BY <1>7, <1>11, <2>1, <2>5, Zenon
    <3>3. InOrder'
      BY <1>2, <1>7, <1>11, <2>1, <2>5, OrderIssued, ZenonT(40) DEF FirstSent
    <3> QED
      BY <3>1, <3>2, <3>3, Zenon
  <2> QED
    BY <1>3, <1>4, <2>2, <2>3, <2>4, <2>5, Parts, Zenon DEF Conjuncts
<1>12. CASE /\ x.op = "SEND" /\ c # NONE /\ inflight' = inflight \cup {later}
            /\ waited' = waited \cup {c} /\ UNCHANGED <<cq, lag, got, cut>>
  <2>1. Accounts' /\ IsFiniteSet(inflight')
    BY <1>12, AccountsLater, Zenon DEF IssuedLater
  <2>2. TypeOK'
    <3>1. inflight' \subseteq [sqe : Sqe, conn : Conns \cup {NONE}]
      BY <1>2, <1>7, <1>12, OperationType, ZenonT(40) DEF TypeOK
    <3> QED
      BY <1>2, <1>12, <2>1, <3>1, ZenonT(40) DEF TypeOK
  <2>3. SendsOK'
    <3>1. later.sqe = x /\ later.conn = c
      BY ZenonT(40)
    <3> QED
      BY <1>7, <1>8, <1>12, <3>1, ZenonT(40) DEF SendsOK
  <2>4. ASSUME ~SQPOLL
        PROVE  (SendsBound /\ RepliesToOwner /\ InOrder)'
    <3>1. SendsBound'
      <4>1. /\ \A op \in inflight' : op \in inflight \/ op = later
            /\ later.sqe = x /\ later.conn = c /\ owner[send_pool_[x.slot].sid] = c
        BY <1>7, <1>12, <2>4, Zenon
      <4>2. \A op \in inflight' : op.sqe.op = "SEND" => owner[send_pool_[op.sqe.slot].sid] = op.conn
        BY <2>4, <4>1, Zenon DEF SendsBound
      <4> QED
        BY <1>8, <2>4, <4>2, Zenon DEF SendsBound
    <3>2. RepliesToOwner'
      BY <1>12, <2>4, OwnerKept, Zenon
    <3>3. InOrder'
      BY <1>2, <1>7, <1>12, <2>4, OrderIssued, Zenon DEF FirstSent
    <3> QED
      BY <3>1, <3>2, <3>3, Zenon
  <2> QED
    BY <1>3, <1>4, <2>1, <2>2, <2>3, <2>4, Parts, Zenon DEF Conjuncts
<1> QED
  BY <1>9, <1>10, <1>11, <1>12, Zenon DEF issue, c, wire

=============================================================================
