---------------------------- MODULE RouterProofs ----------------------------
(***************************************************************************)
(* Requests keep their order, cancels find their order and books do not    *)
(* mix symbols, for any number of shards, symbols, sessions and slots.     *)
(***************************************************************************)
EXTENDS Router, FiniteSetTheorems, TLAPS

-----------------------------------------------------------------------------
(* Tokens                                                                   *)

\* A number written in base m gives its digits back.
LEMMA Digits ==
  ASSUME NEW m \in Nat \ {0}, NEW a \in Nat, NEW b \in 0 .. m - 1
  PROVE  (a * m + b) \div m = a /\ (a * m + b) % m = b
<1>1. a * m \in Nat /\ a * m + b \in Nat
  OBVIOUS
<1> DEFINE q == (a * m + b) \div m
           r == (a * m + b) % m
<1>2. q \in Int /\ r \in 0 .. m - 1 /\ a * m + b = m * q + r
  OBVIOUS
<1> HIDE DEF q, r
<1>3. (a - q) * m = r - b
  BY <1>2
<1>4. a = q
  <2>1. CASE a > q
    BY <1>2, <1>3, <2>1
  <2>2. CASE a < q
    BY <1>2, <1>3, <2>2
  <2> QED
    BY <1>2, <2>1, <2>2
<1> QED
  BY <1>2, <1>4 DEF q, r

\* The remainder of a number below the modulus.
LEMMA ModSmall ==
  ASSUME NEW m \in Nat \ {0}, NEW b \in 0 .. m - 1
  PROVE  b % m = b
OBVIOUS

\* A handle comes back out of the token it was packed into, and so does the shard.
LEMMA TokenRoundTrip ==
  ASSUME NEW s \in Shards, NEW i \in Slots, NEW g \in 0 .. GEN_MOD - 1
  PROVE  LET t == to_token([slot |-> i, gen |-> g], s)
         IN  /\ t \in Nat
             /\ token_shard(t) = s
             /\ from_token(t) = [slot |-> i, gen |-> g]
<1> DEFINE G == GEN_MOD
           S == SLOT_MOD
           t == to_token([slot |-> i, gen |-> g], s)
<1>1. /\ G \in Nat \ {0} /\ S \in Nat \ {0} /\ SHARD_MOD \in Nat \ {0}
      /\ s \in Nat /\ s < SHARD_MOD /\ i \in 0 .. S - 1 /\ g \in 0 .. G - 1
  BY RouterAssumption DEF Shards, Slots
<1> HIDE DEF G, S
<1>2. i % S = i /\ s % SHARD_MOD = s
  BY <1>1
<1>3. t = s * (G * S) + g * S + i
  BY <1>2 DEF to_token, G, S
<1> HIDE DEF t
<1>4. t = (s * G + g) * S + i /\ s * G + g \in Nat
  BY <1>1, <1>3
<1>5. t % S = i /\ t \div S = s * G + g
  BY <1>1, <1>4, Digits, Zenon
<1>6. (s * G + g) % G = g
  BY <1>1, Digits, Zenon
<1>7. G * S \in Nat \ {0} /\ g * S + i \in 0 .. (G * S) - 1
  <2>1. (G - 1 - g) * S >= 0
    BY <1>1
  <2>2. G * S = (G - 1 - g) * S + g * S + S
    BY <1>1
  <2>3. g * S \in Nat /\ G * S \in Nat /\ G * S # 0
    BY <1>1
  <2> QED
    BY <1>1, <2>1, <2>2, <2>3
<1>8. t = s * (G * S) + (g * S + i)
  BY <1>1, <1>3
<1>9. t \div (G * S) = s
  <2> DEFINE GS == G * S
             low == g * S + i
  <2>1. GS \in Nat \ {0} /\ low \in 0 .. GS - 1 /\ t = s * GS + low
    BY <1>7, <1>8, Zenon
  <2> HIDE DEF GS, low
  <2>2. t \div GS = s
    BY <1>1, <2>1, Digits, Zenon
  <2> QED
    BY <2>2 DEF GS
<1>10. t \in Nat
  BY <1>1, <1>4
<1> QED
  BY <1>2, <1>5, <1>6, <1>9, <1>10 DEF token_shard, from_token, t, G, S

-----------------------------------------------------------------------------
(* The symbol table                                                         *)

\* A non-empty set of positions of a list has a last one.
LEMMA LastPosition ==
  ASSUME NEW n \in Nat, NEW S \in SUBSET (1 .. n), S # {}
  PROVE  \E m \in S : \A j \in S : j <= m
<1> DEFINE Mirror == {n - j : j \in S}
<1>1. Mirror \subseteq Nat /\ Mirror # {}
  <2>1. \A j \in S : n - j \in Nat
    OBVIOUS
  <2> QED
    BY <2>1, Zenon
<1>2. PICK x \in Mirror : \A y \in Mirror : ~(<<y, x>> \in OpToRel(<, Nat))
  BY <1>1, NatLessThanWellFounded, WFMin, Zenon
<1>3. OpToRel(<, Nat) = {ss \in Nat \X Nat : ss[1] < ss[2]}
  BY DEF OpToRel
<1>4. \A y \in Mirror : ~(y < x)
  <2> TAKE y \in Mirror
  <2>1. <<y, x>> \in Nat \X Nat /\ <<y, x>>[1] = y /\ <<y, x>>[2] = x
    BY <1>1
  <2> QED
    BY <1>2, <1>3, <2>1, Zenon
<1>5. PICK m \in S : x = n - m
  BY <1>2, Zenon
<1>6. \A j \in S : j <= m
  BY <1>4, <1>5
<1> QED
  BY <1>6

\* A listed symbol has the book of one of its places in the list.
LEMMA LocalPlace ==
  ASSUME NEW s \in Shards, NEW y \in Symbols
  PROVE  /\ local_of_(s, y) \in Nat
         /\ Assigned[s] # <<>> /\ local_of_(s, y) # NO_BOOK => Assigned[s][local_of_(s, y) + 1] = y
<1> DEFINE L == Assigned[s]
           at == {k \in DOMAIN L : L[k] = y}
<1>1. L \in Seq(Symbols) /\ Symbols \subseteq Nat /\ max_symbols \in Nat
  BY RouterAssumption
<1>2. CASE L = <<>>
  BY <1>1, <1>2 DEF local_of_, NO_BOOK
<1>3. CASE L # <<>> /\ at = {}
  BY <1>1, <1>3 DEF local_of_, NO_BOOK
<1>4. CASE L # <<>> /\ at # {}
  <2> DEFINE last == CHOOSE k \in at : \A j \in at : j <= k
  <2>1. local_of_(s, y) = last - 1
    BY <1>4 DEF local_of_
  <2>2. at \in SUBSET (1 .. Len(L)) /\ Len(L) \in Nat
    BY <1>1
  <2>3. \E k \in at : \A j \in at : j <= k
    <3> HIDE DEF at
    <3> QED
      BY <1>4, <2>2, LastPosition, Zenon
  <2>4. last \in at
    BY <2>3
  <2> HIDE DEF last
  <2>5. last \in 1 .. Len(L) /\ L[last] = y
    BY <2>2, <2>4
  <2>6. last - 1 \in Nat /\ (last - 1) + 1 = last
    BY <2>2, <2>5
  <2> QED
    BY <2>1, <2>5, <2>6
<1> QED
  BY <1>2, <1>3, <1>4

\* Two symbols of a shard do not share a book.
LEMMA LocalInjective ==
  ASSUME NEW s \in Shards, NEW y \in Symbols, NEW z \in Symbols,
         local_of_(s, y) = local_of_(s, z), local_of_(s, y) # NO_BOOK
  PROVE  y = z
<1>1. CASE Assigned[s] = <<>>
  BY <1>1 DEF local_of_, NO_BOOK
<1>2. CASE Assigned[s] # <<>>
  BY <1>2, LocalPlace
<1> QED
  BY <1>1, <1>2

-----------------------------------------------------------------------------
(* Generations                                                              *)

\* The size of an interval.
LEMMA IntervalSize ==
  ASSUME NEW n \in Nat
  PROVE  IsFiniteSet(1 .. n) /\ Cardinality(1 .. n) = n
<1>1. 1 \in Int /\ n \in Int
  OBVIOUS
<1>2. IsFiniteSet(1 .. n) /\ Cardinality(1 .. n) = IF 1 > n THEN 0 ELSE n - 1 + 1
  BY <1>1, FS_Interval, Zenon
<1> QED
  BY <1>2

\* A shard has been sent at most one entry for each request there may be, so
\* fewer than a generation has values.
LEMMA LogBound ==
  ASSUME IInv, NoGenWrap, NEW s \in Shards
  PROVE  Len(log[s]) \in Nat /\ Len(log[s]) < GEN_MOD
<1> DEFINE L == log[s]
           Dom == 1 .. Len(L)
           Rng == Sessions \X (1 .. MAX_REQUESTS)
           f == [k \in Dom |-> <<L[k].session, L[k].n>>]
<1>1. L \in Seq(Entry) /\ Len(L) \in Nat /\ MAX_REQUESTS \in Nat /\ GEN_MOD \in Nat
  BY RouterAssumption DEF IInv, TypeOK
<1>2. \A k \in Dom : L[k].session \in Sessions /\ L[k].n \in Nat
  <2>1. \A k \in Dom : L[k] \in Entry
    BY <1>1
  <2> QED
    BY <2>1, Zenon DEF Entry
<1>3. \A k \in Dom : L[k].n \in 1 .. MAX_REQUESTS
  <2> TAKE k \in Dom
  <2>1. L[k].n \in Pushed(L[k].session)
    BY <1>1 DEF Pushed
  <2>2. Pushed(L[k].session) \subseteq 1 .. reqs[L[k].session]
    BY <1>2 DEF IInv, BufferedInOrder
  <2>3. reqs[L[k].session] \in 0 .. MAX_REQUESTS
    BY <1>2 DEF IInv, TypeOK
  <2> QED
    BY <1>1, <2>1, <2>2, <2>3
<1>4. f \in [Dom -> Rng]
  BY <1>2, <1>3
<1>5. \A j, k \in Dom : j < k /\ L[j].session = L[k].session => L[j].n < L[k].n
  BY <1>1 DEF IInv, SessionOrder
<1>6. \A j, k \in Dom : f[j] = f[k] => j = k
  <2> SUFFICES ASSUME NEW j \in Dom, NEW k \in Dom, f[j] = f[k] PROVE j = k
    BY Zenon
  <2>1. L[j].session = L[k].session /\ L[j].n = L[k].n
    OBVIOUS
  <2> QED
    BY <1>2, <1>5, <2>1
<1>7. f \in Injection(Dom, Rng)
  BY <1>4, <1>6, Zenon DEF Injection, IsInjective
<1> HIDE DEF f, Rng
<1>8. IsFiniteSet(1 .. MAX_REQUESTS) /\ Cardinality(1 .. MAX_REQUESTS) = MAX_REQUESTS
  BY <1>1, IntervalSize
<1>9. IsFiniteSet(Rng) /\ Cardinality(Rng) = Cardinality(Sessions) * MAX_REQUESTS
  BY <1>8, FS_Product, Zenon DEF NoGenWrap, Rng
<1>10. Cardinality(Dom) = Len(L)
  BY <1>1, IntervalSize
<1>11. Cardinality(Dom) <= Cardinality(Rng)
  BY <1>7, <1>9, FS_Injection
<1> QED
  BY <1>1, <1>9, <1>10, <1>11, FS_CardinalityType DEF NoGenWrap

-----------------------------------------------------------------------------
(* The gateway thread                                                       *)

\* The initial state.
LEMMA InitIInv == Init => IInv
<1> SUFFICES ASSUME Init PROVE IInv
  OBVIOUS
<1>1. \A s \in Shards : log[s] = <<>> /\ inbound[s] = <<>>
  BY DEF Init
<1>2. \A c \in Sessions : buffered[c] = <<>> /\ reqs[c] = 0
  BY DEF Init
<1>3. \A c \in Sessions : Pushed(c) = {} /\ WaitingAt(c) = {}
  BY <1>1, <1>2 DEF Pushed, WaitingAt
<1>4. TypeOK
  <2>1. GEN_MOD \in Nat \ {0} /\ MAX_REQUESTS \in Nat
    BY RouterAssumption
  <2> QED
    BY <2>1 DEF Init, TypeOK, Free
<1>5. SessionOrder /\ BufferedInOrder
  <2>1. \A c \in Sessions : Intact(c) = 0
    BY <1>2 DEF Init, Intact
  <2> QED
    BY <1>1, <1>2, <1>3, <2>1 DEF SessionOrder, BufferedInOrder
<1>6. CancelsOK
  BY <1>1, <1>2 DEF CancelsOK
<1>7. \A s \in Shards : Live(s) = {}
  <2>1. \A s \in Shards : \A i \in Slots : pool[s][i].order = NONE
    BY DEF Init, Free
  <2> QED
    BY <2>1 DEF Live
<1>8. HandlesOK /\ InItsBook
  <2>1. GenBound
    BY <1>1, <1>7 DEF Init, GenBound, Popped, Free
  <2> QED
    BY <1>7, <2>1 DEF Init, HandlesOK, CancelRemovesItsOrder, InItsBook
<1> QED
  BY <1>4, <1>5, <1>6, <1>8 DEF IInv

\* A message that is no Logon is a request.
LEMMA MsgKinds ==
  ASSUME NEW m \in InboundMsg \cup LogonMsg
  PROVE  /\ m.type # "LOGON" => m \in InboundMsg
         /\ m.session \in Sessions /\ m.n \in Nat
BY DEF InboundMsg, NewMsg, CancelMsg, LogonMsg

\* The parts that follow from the shards alone stay when the shards do.
LEMMA ShardsKept ==
  ASSUME IInv, UNCHANGED <<inbound, pool, log, tokens, hits>>
  PROVE  /\ HandlesOK' /\ InItsBook'
         /\ \A c : Pushed(c)' = Pushed(c)
         /\ \A s \in Shards : \A k \in DOMAIN inbound'[s] :
              CancelOK(inbound[s][k])' /\ Target(inbound[s][k])' = s
<1>1. \A c : Pushed(c)' = Pushed(c)
  BY DEF Pushed
<1>2. \A s : Live(s)' = Live(s) /\ Popped(s)' = Popped(s)
  BY DEF Live, Popped
<1>3. InItsBook' /\ (GenBound => GenBound')
  BY <1>2 DEF IInv, GenBound, InItsBook
<1>4. ASSUME NoGenWrap PROVE CancelRemovesItsOrder' /\ \A t \in tokens' : TokenOK(t)'
  BY <1>4 DEF IInv, HandlesOK, CancelRemovesItsOrder, TokenOK
<1>5. \A s \in Shards : \A k \in DOMAIN inbound'[s] :
        CancelOK(inbound[s][k])' /\ Target(inbound[s][k])' = s
  BY DEF IInv, CancelsOK, CancelOK, Target
<1>6. HandlesOK'
  BY <1>3, <1>4 DEF IInv, HandlesOK
<1> QED
  BY <1>1, <1>3, <1>5, <1>6

\* A frame of a session arrives: the next request, or a Logon.
LEMMA ArriveStep ==
  ASSUME IInv, NEW c \in Sessions, NEW m \in InboundMsg \cup LogonMsg,
         m.session = c, CancelOK(m), Arrive(c, m),
         \/ /\ m.type # "LOGON" /\ m.n = reqs[c] + 1
            /\ reqs[c] < MAX_REQUESTS /\ reqs' = [reqs EXCEPT ![c] = @ + 1]
         \/ m.type = "LOGON" /\ m.n = 0 /\ reqs' = reqs
  PROVE  IInv'
<1> DEFINE B == buffered[c]
<1>1. /\ buffered \in [Sessions -> Seq(InboundMsg \cup LogonMsg)]
      /\ B \in Seq(InboundMsg \cup LogonMsg) /\ Len(B) \in Nat /\ DOMAIN B = 1 .. Len(B)
      /\ reqs \in [Sessions -> 0 .. MAX_REQUESTS] /\ reqs[c] \in Nat /\ MAX_REQUESTS \in Nat
      /\ cut \in [Sessions -> (0 .. MAX_REQUESTS) \cup {NONE}] /\ NONE \notin Nat
  <2>1. TypeOK /\ MAX_REQUESTS \in Nat /\ NONE \notin Nat
    BY RouterAssumption DEF IInv
  <2> QED
    BY <2>1 DEF TypeOK
<1>mn. m.n \in Nat
  BY MsgKinds, Zenon
<1>2. UNCHANGED <<inbound, pool, log, tokens, hits>> /\ turn' = c
  BY DEF Arrive
<1>3. /\ HandlesOK' /\ InItsBook'
      /\ \A d : Pushed(d)' = Pushed(d)
      /\ \A s \in Shards : \A k \in DOMAIN inbound'[s] :
           CancelOK(inbound[s][k])' /\ Target(inbound[s][k])' = s
  BY <1>2, ShardsKept
<1>4. reqs' \in [Sessions -> 0 .. MAX_REQUESTS] /\ \A d \in Sessions : reqs[d] <= reqs'[d]
  <2>1. CASE reqs' = reqs
    BY <1>1, <2>1
  <2>2. CASE reqs[c] < MAX_REQUESTS /\ reqs' = [reqs EXCEPT ![c] = @ + 1]
    <3>1. reqs[c] + 1 \in 0 .. MAX_REQUESTS
      BY <1>1, <2>2
    <3>2. \A d \in Sessions : reqs'[d] = IF d = c THEN reqs[c] + 1 ELSE reqs[d]
      BY <1>1, <2>2
    <3> QED
      BY <1>1, <2>2, <3>1, <3>2
  <2> QED
    BY <2>1, <2>2
<1>5. \A d \in Sessions \ {c} : reqs'[d] = reqs[d]
  BY <1>1
<1>6. \A d \in Sessions : Pushed(d) \subseteq 1 .. reqs'[d]
  BY <1>1, <1>4 DEF IInv, BufferedInOrder
<1>7. \A n \in Pushed(c) : n <= reqs[c]
  BY <1>1 DEF IInv, BufferedInOrder
<1>8. CASE buffered' = [buffered EXCEPT ![c] = Append(B, m)] /\ cut' = cut
  <2>1. buffered' = [buffered EXCEPT ![c] = Append(B, m)] /\ cut' = cut
    BY <1>8
  <2>2. buffered'[c] = Append(B, m) /\ \A d \in Sessions \ {c} : buffered'[d] = buffered[d]
    BY <1>1, <2>1
  <2>3. /\ DOMAIN buffered'[c] = 1 .. Len(B) + 1 /\ buffered'[c][Len(B) + 1] = m
        /\ \A k \in 1 .. Len(B) : buffered'[c][k] = B[k]
    BY <1>1, <2>2
  <2>4. buffered' \in [Sessions -> Seq(InboundMsg \cup LogonMsg)]
    BY <1>1, <2>1
  <2>5. \A d \in Sessions \ {c} : WaitingAt(d)' = WaitingAt(d) /\ Waiting(d)' = Waiting(d)
    BY <2>2 DEF WaitingAt, Waiting
  <2>6. WaitingAt(c)' = WaitingAt(c) \cup (IF m.type = "LOGON" THEN {} ELSE {Len(B) + 1})
    <3>1. WaitingAt(c)' = {k \in 1 .. Len(B) + 1 : buffered'[c][k].type # "LOGON"}
      BY <2>3 DEF WaitingAt
    <3>2. WaitingAt(c) = {k \in 1 .. Len(B) : B[k].type # "LOGON"}
      BY <1>1 DEF WaitingAt
    <3>3. 1 .. Len(B) + 1 = (1 .. Len(B)) \cup {Len(B) + 1}
      BY <1>1
    <3> QED
      BY <2>3, <3>1, <3>2, <3>3
  <2>7. WaitingAt(c) \subseteq 1 .. Len(B)
    BY <1>1 DEF WaitingAt
  <2>8. Waiting(c)' = Waiting(c) \cup (IF m.type = "LOGON" THEN {} ELSE {m.n})
    BY <2>3, <2>6, <2>7 DEF Waiting
  <2>9. TypeOK'
    BY <1>2, <1>4, <2>1, <2>4 DEF IInv, TypeOK
  <2>10. SessionOrder'
    <3>1. \A d \in Sessions \ {c} : Intact(d)' = Intact(d) /\ Waiting(d)' = Waiting(d)
      BY <1>5, <2>1, <2>5 DEF Intact
    <3>2. Intact(c)' = Intact(c) \/ (m.type # "LOGON" /\ Intact(c) = reqs[c] /\ Intact(c)' = m.n)
      BY <1>1, <2>1 DEF Intact
    <3>3. \A x \in 1 .. Intact(c)' : x \in 1 .. Intact(c) \/ (m.type # "LOGON" /\ x = m.n)
      BY <1>1, <3>2
    <3>4. \A n \in Pushed(c) : n < m.n \/ m.type = "LOGON"
      BY <1>1, <1>6, <1>7
    <3>5. /\ \A d \in Sessions : 1 .. Intact(d) \subseteq Pushed(d) \cup Waiting(d)
          /\ \A d \in Sessions : \A n \in Pushed(d) :
               \A x \in 1 .. Intact(d) : x < n => x \in Pushed(d)
      BY DEF IInv, SessionOrder
    <3>6. \A d \in Sessions : 1 .. Intact(d)' \subseteq Pushed(d)' \cup Waiting(d)'
      BY <1>3, <2>8, <3>1, <3>3, <3>5
    <3>7. \A n \in Pushed(c) : \A x \in 1 .. Intact(c)' : x < n => x \in Pushed(c)
      <4>1. \A n \in Pushed(c) : n \in Int
        BY <1>1 DEF IInv, BufferedInOrder
      <4> QED
        BY <1>mn, <3>3, <3>4, <3>5, <4>1
    <3>8. \A d \in Sessions : \A n \in Pushed(d)' :
               \A x \in 1 .. Intact(d)' : x < n => x \in Pushed(d)'
      BY <1>3, <3>1, <3>5, <3>7, Zenon
    <3>9. log' = log
      BY <1>2
    <3> QED
      BY <3>6, <3>8, <3>9, Zenon DEF IInv, SessionOrder
  <2>11. \A d \in Sessions : \A k \in DOMAIN buffered'[d] :
           buffered'[d][k].session = d /\ CancelOK(buffered'[d][k])
    <3>1. \A d \in Sessions : \A k \in DOMAIN buffered[d] :
            buffered[d][k].session = d /\ CancelOK(buffered[d][k])
      BY DEF IInv, BufferedInOrder, CancelsOK
    <3>2. \A k \in DOMAIN buffered'[c] : k \in DOMAIN B \/ k = Len(B) + 1
      BY <1>1, <2>3
    <3>3. \A k \in DOMAIN buffered'[c] : buffered'[c][k].session = c /\ CancelOK(buffered'[c][k])
      <4> TAKE k \in DOMAIN buffered'[c]
      <4>1. CASE k \in DOMAIN B
        <5>1. buffered'[c][k] = B[k]
          BY <1>1, <2>3, <4>1
        <5> QED
          BY <3>1, <4>1, <5>1, Zenon
      <4>2. CASE k = Len(B) + 1
        BY <2>3, <4>2, Zenon
      <4> QED
        BY <3>2, <4>1, <4>2
    <3> QED
      BY <2>2, <3>1, <3>3, Zenon
  <2>12. ASSUME NEW d \in Sessions, NEW k \in WaitingAt(d)'
         PROVE  /\ buffered'[d][k].n \in 1 .. reqs'[d]
                /\ \A i \in WaitingAt(d)' : i < k => buffered'[d][i].n < buffered'[d][k].n
                /\ \A n \in Pushed(d)' : n < buffered'[d][k].n
    <3>1. CASE d # c
      BY <1>3, <1>5, <2>2, <2>5, <2>12, <3>1 DEF IInv, BufferedInOrder
    <3>2. \A i \in WaitingAt(c) : /\ B[i].n \in 1 .. reqs[c] /\ buffered'[c][i] = B[i]
                                  /\ i \in 1 .. Len(B)
      BY <2>3, <2>7 DEF IInv, BufferedInOrder
    <3>3. CASE d = c /\ k \in WaitingAt(c)
      <4>1. \A i \in WaitingAt(c)' : i < k => i \in WaitingAt(c)
        BY <1>1, <2>6, <3>2, <3>3
      <4>2. \A i \in WaitingAt(c) : i < k => B[i].n < B[k].n
        BY <3>3 DEF IInv, BufferedInOrder
      <4>3. \A n \in Pushed(c) : n < B[k].n
        BY <3>3 DEF IInv, BufferedInOrder
      <4>4. B[k].n \in 1 .. reqs'[c]
        BY <1>1, <1>4, <3>2, <3>3
      <4> QED
        BY <1>3, <3>2, <3>3, <4>1, <4>2, <4>3, <4>4
    <3>4. CASE d = c /\ k \notin WaitingAt(c)
      <4>1. m.type # "LOGON" /\ k = Len(B) + 1
        BY <2>6, <2>12, <3>4
      <4>2. buffered'[c][k].n = reqs[c] + 1 /\ reqs'[c] = reqs[c] + 1
        BY <1>1, <2>3, <4>1
      <4>3. \A i \in WaitingAt(c)' : i < k => i \in WaitingAt(c)
        BY <1>1, <2>6, <4>1
      <4>4. buffered'[c][k].n \in 1 .. reqs'[c]
        BY <1>1, <4>2
      <4>5. \A i \in WaitingAt(c)' : i < k => buffered'[c][i].n < buffered'[c][k].n
        BY <1>1, <3>2, <4>2, <4>3
      <4>6. \A n \in Pushed(c)' : n < buffered'[c][k].n
        <5>1. \A n \in Pushed(c) : n \in Nat
          BY <1>1 DEF IInv, BufferedInOrder
        <5> QED
          BY <1>1, <1>3, <1>7, <4>2, <5>1
      <4> QED
        BY <3>4, <4>4, <4>5, <4>6
    <3> QED
      BY <3>1, <3>3, <3>4
  <2>14. BufferedInOrder'
    BY <1>3, <1>6, <2>11, <2>12 DEF BufferedInOrder
  <2>15. CancelsOK'
    BY <1>2, <1>3, <2>11 DEF CancelsOK, CancelOK
  <2> QED
    BY <1>3, <2>9, <2>10, <2>14, <2>15 DEF IInv
<1>9. CASE buffered' = buffered /\ cut' = [cut EXCEPT ![c] = Intact(c)]
  <2>1. Intact(c) \in 0 .. MAX_REQUESTS
    BY <1>1 DEF Intact
  <2>2. /\ cut' \in [Sessions -> (0 .. MAX_REQUESTS) \cup {NONE}] /\ cut'[c] = Intact(c)
        /\ \A d \in Sessions \ {c} : cut'[d] = cut[d]
    BY <1>1, <1>9, <2>1
  <2>3. \A d : WaitingAt(d)' = WaitingAt(d) /\ Waiting(d)' = Waiting(d)
    BY <1>9 DEF WaitingAt, Waiting
  <2>4. TypeOK'
    BY <1>2, <1>4, <1>9, <2>2 DEF IInv, TypeOK
  <2>5. SessionOrder'
    <3>1. \A d \in Sessions : Intact(d)' = Intact(d)
      <4>1. Intact(c) # NONE
        BY <1>1, <2>1
      <4>2. Intact(c)' = cut'[c]
        BY <2>2, <4>1 DEF Intact
      <4>3. \A d \in Sessions \ {c} : Intact(d)' = Intact(d)
        BY <1>5, <2>2 DEF Intact
      <4> QED
        BY <2>2, <4>2, <4>3
    <3>2. log' = log
      BY <1>2
    <3> QED
      BY <1>3, <2>3, <3>1, <3>2, Zenon DEF IInv, SessionOrder
  <2>6. \A d \in Sessions : \A k \in WaitingAt(d) : buffered[d][k].n \in 1 .. reqs'[d]
    BY <1>1, <1>4 DEF IInv, BufferedInOrder
  <2>7. BufferedInOrder'
    BY <1>3, <1>6, <1>9, <2>3, <2>6, Zenon DEF IInv, BufferedInOrder
  <2>8. CancelsOK'
    BY <1>2, <1>3, <1>9 DEF IInv, CancelsOK, CancelOK
  <2> QED
    BY <1>3, <2>4, <2>5, <2>7, <2>8 DEF IInv
<1> QED
  BY <1>8, <1>9 DEF Arrive

\* Clients: a request or a Logon.
LEMMA ClientStep ==
  ASSUME IInv, NEW c \in Sessions, Request(c) \/ Chatter(c)
  PROVE  IInv'
<1>1. reqs[c] \in Nat
  BY RouterAssumption DEF IInv, TypeOK
<1>2. CASE Request(c)
  <2>1. PICK m \in Requests(c) : Arrive(c, m)
    BY <1>2 DEF Request
  <2>2. m \in InboundMsg /\ m.session = c /\ m.n = reqs[c] + 1 /\ m.type # "LOGON" /\ CancelOK(m)
    <3>1. CASE m \in {NewOrder(c, symbol) : symbol \in Symbols}
      BY <1>1, <3>1 DEF NewOrder, InboundMsg, NewMsg, CancelOK
    <3>2. CASE m \in {CancelOrder(c, t) : t \in {t \in tokens : t.order.session = c}}
      <4>1. PICK t \in tokens : m = CancelOrder(c, t)
        BY <3>2
      <4>2. t \in [order : Order, token : Nat] /\ [order |-> t.order, token |-> t.token] = t
        BY DEF IInv, TypeOK
      <4> QED
        BY <1>1, <4>1, <4>2 DEF CancelOrder, InboundMsg, CancelMsg, CancelOK
    <3> QED
      BY <2>1, <3>1, <3>2 DEF Requests
  <2> QED
    BY <1>2, <2>1, <2>2, ArriveStep, Zenon DEF Request
<1>3. CASE Chatter(c)
  <2>1. Logon(c) \in LogonMsg /\ Logon(c).session = c /\ Logon(c).n = 0 /\ Logon(c).type = "LOGON"
    BY DEF Logon, LogonMsg
  <2>2. CancelOK(Logon(c))
    BY <2>1 DEF CancelOK
  <2> QED
    BY <1>3, <2>1, <2>2, ArriveStep DEF Chatter
<1> QED
  BY <1>2, <1>3

\* consume stops, with the buffer empty or the ring full.
LEMMA ConsumeEndStep == IInv /\ (consume_end \/ push_full) => IInv'
<1> SUFFICES ASSUME IInv, consume_end \/ push_full PROVE IInv'
  OBVIOUS
<1>1. /\ turn' = NONE
      /\ UNCHANGED <<buffered, inbound, pool, reqs, log, cut, tokens, hits>>
  BY Zenon DEF consume_end, push_full
<1>2. TypeOK'
  BY <1>1 DEF IInv, TypeOK
<1>3. HandlesOK' /\ InItsBook' /\ \A c : Pushed(c)' = Pushed(c)
  BY <1>1, ShardsKept
<1>4. \A c : WaitingAt(c)' = WaitingAt(c) /\ Waiting(c)' = Waiting(c)
  BY <1>1 DEF WaitingAt, Waiting
<1>5. SessionOrder' /\ BufferedInOrder'
  BY <1>1, <1>3, <1>4 DEF IInv, SessionOrder, BufferedInOrder, Intact
<1>6. CancelsOK'
  BY <1>1 DEF IInv, CancelsOK, CancelOK, Target
<1> QED
  BY <1>2, <1>3, <1>5, <1>6 DEF IInv

\* A message goes to one of the shards.
LEMMA TargetType ==
  ASSUME NEW m \in InboundMsg
  PROVE  Target(m) \in Shards
<1>1. N \in Nat \ {0} /\ Symbols \subseteq Nat
      /\ SHARD_MOD \in Nat \ {0} /\ GEN_MOD * SLOT_MOD \in Nat \ {0}
  BY RouterAssumption
<1>2. CASE m \in NewMsg
  <2>1. m.symbol \in Nat /\ m.type = "NEW_ORDER"
    BY <1>1, <1>2, Zenon DEF NewMsg
  <2> QED
    BY <1>1, <2>1 DEF Target, Shards
<1>3. CASE m \in CancelMsg
  <2>1. m.token \in Nat /\ m.type = "CANCEL_ORDER"
    BY <1>3 DEF CancelMsg
  <2> DEFINE q == m.token \div (GEN_MOD * SLOT_MOD)
  <2>2. q \in Int
    BY <1>1, <2>1
  <2> HIDE DEF q
  <2>3. q % SHARD_MOD \in Nat
    BY <1>1, <2>2
  <2>4. token_shard(m.token) \in Nat
    BY <2>3 DEF token_shard, q
  <2> HIDE DEF token_shard
  <2> QED
    BY <1>1, <2>1, <2>4 DEF Target, Shards
<1> QED
  BY <1>2, <1>3 DEF InboundMsg

\* The first frame leaves the buffer of the session inside consume.
LEMMA AdvanceFacts ==
  ASSUME IInv, NEW c \in Sessions, c = turn, buffered[c] # <<>>, Advance
  PROVE  /\ Frame \in InboundMsg \cup LogonMsg /\ Frame.session = c /\ CancelOK(Frame)
         /\ buffered' \in [Sessions -> Seq(InboundMsg \cup LogonMsg)]
         /\ \A d \in Sessions : \A k \in DOMAIN buffered'[d] :
              buffered'[d][k].session = d /\ CancelOK(buffered'[d][k])
         /\ \A d \in Sessions \ {c} : WaitingAt(d)' = WaitingAt(d) /\ buffered'[d] = buffered[d]
         /\ \A k \in WaitingAt(c)' : /\ k \in Nat \ {0} /\ k + 1 \in WaitingAt(c)
                                     /\ buffered'[c][k] = buffered[c][k + 1]
         /\ Frame.type # "LOGON" => 1 \in WaitingAt(c) /\ Frame = buffered[c][1]
         /\ \A n \in Waiting(c) : n \in Waiting(c)' \/ (Frame.type # "LOGON" /\ n = Frame.n)
<1> DEFINE B == buffered[c]
           M == InboundMsg \cup LogonMsg
<1>1. buffered \in [Sessions -> Seq(M)] /\ B \in Seq(M) /\ B # <<>>
  BY DEF IInv, TypeOK
<1> HIDE DEF M
<1>2. /\ Len(B) \in Nat \ {0} /\ DOMAIN B = 1 .. Len(B) /\ Head(B) = B[1] /\ Head(B) \in M
      /\ Tail(B) \in Seq(M) /\ Len(Tail(B)) = Len(B) - 1
      /\ \A k \in 1 .. Len(B) - 1 : Tail(B)[k] = B[k + 1]
  BY <1>1
<1>3. Frame = B[1] /\ buffered' = [buffered EXCEPT ![c] = Tail(B)]
  BY <1>2 DEF Frame, Advance
<1>4. buffered' \in [Sessions -> Seq(M)] /\ buffered'[c] = Tail(B)
  BY <1>1, <1>2, <1>3
<1>5. \A d \in Sessions \ {c} : buffered'[d] = buffered[d]
  BY <1>1, <1>3
<1>6. \A d \in Sessions : \A k \in DOMAIN buffered[d] :
        buffered[d][k].session = d /\ CancelOK(buffered[d][k])
  BY DEF IInv, BufferedInOrder, CancelsOK
<1>7. DOMAIN buffered'[c] = 1 .. Len(B) - 1
  BY <1>2, <1>4
<1>8. \A k \in 1 .. Len(B) - 1 : k + 1 \in DOMAIN B /\ buffered'[c][k] = B[k + 1]
  BY <1>2, <1>4
<1>9. \A d \in Sessions : \A k \in DOMAIN buffered'[d] :
        buffered'[d][k].session = d /\ CancelOK(buffered'[d][k])
  <2>1. \A k \in DOMAIN buffered'[c] : buffered'[c][k].session = c /\ CancelOK(buffered'[c][k])
    <3> TAKE k \in DOMAIN buffered'[c]
    <3>1. k + 1 \in DOMAIN B /\ buffered'[c][k] = B[k + 1]
      BY <1>7, <1>8
    <3> QED
      BY <1>6, <3>1
  <2>2. \A d \in Sessions \ {c} : \A k \in DOMAIN buffered'[d] :
          buffered'[d][k].session = d /\ CancelOK(buffered'[d][k])
    BY <1>5, <1>6
  <2> QED
    BY <2>1, <2>2
<1>10. \A d \in Sessions \ {c} : WaitingAt(d)' = WaitingAt(d)
  BY <1>5 DEF WaitingAt
<1>11. 1 \in DOMAIN B
  BY <1>2
<1>12. \A k \in WaitingAt(c)' : /\ k \in Nat \ {0} /\ k + 1 \in WaitingAt(c)
                                /\ buffered'[c][k] = buffered[c][k + 1]
  BY <1>2, <1>7, <1>8 DEF WaitingAt
<1>13. \A n \in Waiting(c) : n \in Waiting(c)' \/ (Frame.type # "LOGON" /\ n = Frame.n)
  <2> TAKE n \in Waiting(c)
  <2>1. PICK k \in DOMAIN B : B[k].type # "LOGON" /\ n = B[k].n
    BY DEF Waiting, WaitingAt
  <2>2. CASE k = 1
    BY <1>3, <2>1, <2>2
  <2>3. CASE k # 1
    <3>1. k - 1 \in 1 .. Len(B) - 1 /\ (k - 1) + 1 = k
      BY <1>2, <2>3
    <3>2. buffered'[c][k - 1] = B[k]
      BY <1>8, <3>1
    <3>3. k - 1 \in WaitingAt(c)'
      BY <1>7, <2>1, <3>1, <3>2 DEF WaitingAt
    <3>4. Waiting(c)' = {buffered'[c][j].n : j \in WaitingAt(c)'}
      BY DEF Waiting
    <3>5. \E j \in WaitingAt(c)' : n = buffered'[c][j].n
      BY <2>1, <3>2, <3>3, Zenon
    <3> QED
      BY <3>4, <3>5
  <2> QED
    BY <2>2, <2>3
<1>14. Frame.type # "LOGON" => 1 \in WaitingAt(c)
  BY <1>3, <1>11 DEF WaitingAt
<1>15. Frame \in M /\ Frame.session = c /\ CancelOK(Frame)
  BY <1>2, <1>3, <1>6, <1>11, Zenon
<1> QED
  BY <1>3, <1>4, <1>5, <1>9, <1>10, <1>12, <1>13, <1>14, <1>15, Zenon DEF M

\* consume skips a frame that is no request.
LEMMA SkipStep == IInv /\ consume_skip => IInv'
<1> SUFFICES ASSUME IInv, consume_skip PROVE IInv'
  OBVIOUS
<1> DEFINE c == turn
<1>1. /\ c \in Sessions /\ buffered[c] # <<>> /\ Advance /\ Frame.type = "LOGON"
      /\ UNCHANGED <<turn, inbound, pool, reqs, log, cut, tokens, hits>>
  BY DEF IInv, TypeOK, consume_skip
<1>2. PICK d \in Sessions : d = turn
  BY <1>1
<1>3. /\ buffered' \in [Sessions -> Seq(InboundMsg \cup LogonMsg)]
      /\ \A e \in Sessions : \A k \in DOMAIN buffered'[e] :
           buffered'[e][k].session = e /\ CancelOK(buffered'[e][k])
      /\ \A e \in Sessions \ {d} : WaitingAt(e)' = WaitingAt(e) /\ buffered'[e] = buffered[e]
      /\ \A k \in WaitingAt(d)' : /\ k \in Nat \ {0} /\ k + 1 \in WaitingAt(d)
                                  /\ buffered'[d][k] = buffered[d][k + 1]
      /\ \A n \in Waiting(d) : n \in Waiting(d)'
  BY <1>1, <1>2, AdvanceFacts
<1>4. HandlesOK' /\ InItsBook' /\ \A e : Pushed(e)' = Pushed(e)
  BY <1>1, ShardsKept
<1>5. TypeOK'
  BY <1>1, <1>3 DEF IInv, TypeOK
<1>6. \A e \in Sessions : Waiting(e) \subseteq Waiting(e)' /\ Intact(e)' = Intact(e)
  <2>1. \A e \in Sessions \ {d} : Waiting(e)' = Waiting(e)
    BY <1>3 DEF Waiting
  <2>2. \A e \in Sessions : Intact(e)' = Intact(e)
    BY <1>1 DEF Intact
  <2> QED
    BY <1>3, <2>1, <2>2
<1>7. SessionOrder'
  <2>1. \A e \in Sessions : 1 .. Intact(e)' \subseteq Pushed(e)' \cup Waiting(e)'
    BY <1>4, <1>6 DEF IInv, SessionOrder
  <2>2. log' = log
    BY <1>1
  <2> QED
    BY <1>4, <1>6, <2>1, <2>2, Zenon DEF IInv, SessionOrder
<1>8. \A e \in Sessions : \A k \in WaitingAt(e)' :
        /\ buffered'[e][k].n \in 1 .. reqs[e]
        /\ \A i \in WaitingAt(e)' : i < k => buffered'[e][i].n < buffered'[e][k].n
        /\ \A n \in Pushed(e) : n < buffered'[e][k].n
  <2>1. \A e \in Sessions : \A k \in WaitingAt(e) :
          /\ buffered[e][k].n \in 1 .. reqs[e]
          /\ \A i \in WaitingAt(e) : i < k => buffered[e][i].n < buffered[e][k].n
          /\ \A n \in Pushed(e) : n < buffered[e][k].n
    BY DEF IInv, BufferedInOrder
  <2>2. \A k \in WaitingAt(d)' :
        /\ buffered'[d][k].n \in 1 .. reqs[d]
        /\ \A i \in WaitingAt(d)' : i < k => buffered'[d][i].n < buffered'[d][k].n
        /\ \A n \in Pushed(d) : n < buffered'[d][k].n
    <3> TAKE k \in WaitingAt(d)'
    <3>1. k + 1 \in WaitingAt(d) /\ buffered'[d][k] = buffered[d][k + 1] /\ k \in Nat
      BY <1>3
    <3>2. \A i \in WaitingAt(d)' :
            i < k => /\ i + 1 \in WaitingAt(d) /\ i + 1 < k + 1
                     /\ buffered'[d][i] = buffered[d][i + 1]
      BY <1>3, <3>1
    <3> QED
      BY <2>1, <3>1, <3>2
  <2> QED
    <3>1. \A e \in Sessions \ {d} : \A k \in WaitingAt(e)' :
          /\ buffered'[e][k].n \in 1 .. reqs[e]
          /\ \A i \in WaitingAt(e)' : i < k => buffered'[e][i].n < buffered'[e][k].n
          /\ \A n \in Pushed(e) : n < buffered'[e][k].n
      BY <1>3, <2>1, Zenon
    <3> QED
      BY <2>2, <3>1, Zenon
<1>9. BufferedInOrder'
  <2>1. \A e \in Sessions : Pushed(e) \subseteq 1 .. reqs[e]
    BY DEF IInv, BufferedInOrder
  <2> QED
    BY <1>1, <1>3, <1>4, <1>8, <2>1 DEF BufferedInOrder
<1>10. CancelsOK'
  BY <1>1, <1>3, Zenon DEF IInv, CancelsOK, CancelOK, Target
<1> QED
  BY <1>4, <1>5, <1>7, <1>9, <1>10 DEF IInv

\* A request is pushed.
LEMMA PushStep == IInv /\ push => IInv'
<1> SUFFICES ASSUME IInv, push PROVE IInv'
  OBVIOUS
<1>1. PICK c \in Sessions : c = turn
  BY DEF IInv, TypeOK, push, Pushing
<1> DEFINE F == Frame
           t == Target(F)
           E == [session |-> c, n |-> F.n]
<1>2. /\ buffered[c] # <<>> /\ Advance /\ F.type # "LOGON"
      /\ inbound' = [inbound EXCEPT ![t] = Append(@, F)]
      /\ log' = [log EXCEPT ![t] = Append(@, E)]
      /\ UNCHANGED <<turn, pool, reqs, cut, tokens, hits>>
  BY <1>1 DEF push, Pushing
<1>3. /\ F \in InboundMsg \cup LogonMsg /\ F.session = c /\ CancelOK(F)
      /\ buffered' \in [Sessions -> Seq(InboundMsg \cup LogonMsg)]
      /\ \A e \in Sessions : \A k \in DOMAIN buffered'[e] :
           buffered'[e][k].session = e /\ CancelOK(buffered'[e][k])
      /\ \A e \in Sessions \ {c} : WaitingAt(e)' = WaitingAt(e) /\ buffered'[e] = buffered[e]
      /\ \A k \in WaitingAt(c)' : /\ k \in Nat \ {0} /\ k + 1 \in WaitingAt(c)
                                  /\ buffered'[c][k] = buffered[c][k + 1]
      /\ 1 \in WaitingAt(c) /\ F = buffered[c][1]
      /\ \A n \in Waiting(c) : n \in Waiting(c)' \/ n = F.n
  BY <1>1, <1>2, AdvanceFacts
<1> HIDE DEF F
<1>4. F \in InboundMsg /\ F.n \in Nat
  BY <1>2, <1>3, MsgKinds
<1>e. E \in Entry /\ E.session = c /\ E.n = F.n
  BY <1>4 DEF Entry
<1> HIDE DEF E
<1>5. t \in Shards
  BY <1>4, TargetType
<1> HIDE DEF t
<1>6. /\ log \in [Shards -> Seq(Entry)] /\ inbound \in [Shards -> Seq(InboundMsg)]
      /\ log[t] \in Seq(Entry) /\ inbound[t] \in Seq(InboundMsg)
  BY <1>5 DEF IInv, TypeOK
<1> DEFINE l == Len(log[t])
           q == Len(inbound[t])
<1>7. /\ log' \in [Shards -> Seq(Entry)] /\ log'[t] = Append(log[t], E)
      /\ \A s \in Shards \ {t} : log'[s] = log[s]
  BY <1>2, <1>e, <1>5, <1>6
<1>8. /\ inbound' \in [Shards -> Seq(InboundMsg)] /\ inbound'[t] = Append(inbound[t], F)
      /\ \A s \in Shards \ {t} : inbound'[s] = inbound[s]
  BY <1>2, <1>4, <1>5, <1>6
<1>9. /\ l \in Nat /\ DOMAIN log[t] = 1 .. l /\ DOMAIN log'[t] = 1 .. l + 1
      /\ log'[t][l + 1] = E /\ \A k \in 1 .. l : log'[t][k] = log[t][k]
  BY <1>e, <1>6, <1>7
<1>10. /\ q \in Nat /\ DOMAIN inbound[t] = 1 .. q /\ DOMAIN inbound'[t] = 1 .. q + 1
       /\ inbound'[t][q + 1] = F /\ \A k \in 1 .. q : inbound'[t][k] = inbound[t][k]
       /\ Len(inbound'[t]) = q + 1 /\ Len(log'[t]) = l + 1
  BY <1>4, <1>e, <1>6, <1>7, <1>8
<1> HIDE DEF l, q
<1>11. \A s \in Shards : \A k \in DOMAIN log[s] : k \in DOMAIN log'[s] /\ log'[s][k] = log[s][k]
  <2>1. \A k \in 1 .. l : k \in 1 .. l + 1
    BY <1>9
  <2> QED
    BY <1>7, <1>9, <2>1
<1>12. \A s \in Shards : \A k \in DOMAIN log'[s] : k \in DOMAIN log[s] \/ (s = t /\ k = l + 1)
  <2>1. \A k \in 1 .. l + 1 : k \in 1 .. l \/ k = l + 1
    BY <1>9
  <2>2. \A k \in DOMAIN log'[t] : k \in DOMAIN log[t] \/ k = l + 1
    BY <1>9, <2>1
  <2> QED
    BY <1>7, <2>2
<1>13. Pushed(c)' = Pushed(c) \cup {F.n} /\ \A e \in Sessions \ {c} : Pushed(e)' = Pushed(e)
  <2>1. \A e, n : n \in Pushed(e) <=> \E s \in Shards : \E k \in DOMAIN log[s] :
                                        log[s][k].session = e /\ n = log[s][k].n
    BY DEF Pushed
  <2>2. \A e, n : n \in Pushed(e)' <=> \E s \in Shards : \E k \in DOMAIN log'[s] :
                                        log'[s][k].session = e /\ n = log'[s][k].n
    BY DEF Pushed
  <2>3. l + 1 \in DOMAIN log'[t]
    BY <1>9
  <2>4. F.n \in Pushed(c)'
    BY <1>e, <1>5, <1>9, <2>2, <2>3
  <2>5. \A e : Pushed(e) \subseteq Pushed(e)'
    BY <1>11, <2>1, <2>2
  <2>6. ASSUME NEW e, NEW n \in Pushed(e)'
        PROVE  n \in Pushed(e) \/ (e = c /\ n = F.n)
    <3>1. PICK s \in Shards : \E k \in DOMAIN log'[s] : log'[s][k].session = e /\ n = log'[s][k].n
      BY <2>2, <2>6
    <3>2. PICK k \in DOMAIN log'[s] : log'[s][k].session = e /\ n = log'[s][k].n
      BY <3>1
    <3>3. CASE k \in DOMAIN log[s]
      BY <1>11, <2>1, <3>2, <3>3
    <3>4. CASE s = t /\ k = l + 1
      BY <1>e, <1>9, <3>2, <3>4
    <3> QED
      BY <1>12, <3>3, <3>4
  <2> QED
    BY <2>4, <2>5, <2>6
<1>14. \A e \in Sessions : \A k \in WaitingAt(e) :
         /\ buffered[e][k].n \in 1 .. reqs[e]
         /\ \A i \in WaitingAt(e) : i < k => buffered[e][i].n < buffered[e][k].n
         /\ \A n \in Pushed(e) : n < buffered[e][k].n
  BY DEF IInv, BufferedInOrder
<1>15. F.n \in 1 .. reqs[c] /\ \A n \in Pushed(c) : n < F.n
  BY <1>3, <1>14, Zenon
<1>16. TypeOK'
  BY <1>2, <1>3, <1>7, <1>8, Zenon DEF IInv, TypeOK
<1>17. reqs[c] \in Nat
  BY RouterAssumption DEF IInv, TypeOK
<1>18. \A k \in WaitingAt(c) : k \in Nat \ {0} /\ (k = 1 \/ F.n < buffered[c][k].n)
  <2>1. \A k \in WaitingAt(c) : k \in Nat \ {0}
    <3>1. buffered[c] \in Seq(InboundMsg \cup LogonMsg)
      BY DEF IInv, TypeOK
    <3> QED
      BY <3>1 DEF WaitingAt
  <2> QED
    BY <1>3, <1>14, <2>1
<1>19. SessionOrder'
  <2>0. /\ \A e \in Sessions : Intact(e)' = Intact(e) /\ Pushed(e) \subseteq Pushed(e)'
        /\ \A e \in Sessions : 1 .. Intact(e) \subseteq Pushed(e) \cup Waiting(e)
        /\ \A e \in Sessions : \A n \in Pushed(e) :
             \A x \in 1 .. Intact(e) : x < n => x \in Pushed(e)
    <3>1. \A e \in Sessions : Intact(e)' = Intact(e)
      BY <1>2 DEF Intact
    <3>2. \A e \in Sessions : Pushed(e) \subseteq Pushed(e)'
      BY <1>13
    <3> QED
      BY <3>1, <3>2 DEF IInv, SessionOrder
  <2>1. /\ \A e \in Sessions : 1 .. Intact(e)' \subseteq Pushed(e)' \cup Waiting(e)'
        /\ \A e \in Sessions : \A n \in Pushed(e)' :
             \A x \in 1 .. Intact(e)' : x < n => x \in Pushed(e)'
    <3>1. \A e \in Sessions \ {c} : Waiting(e)' = Waiting(e)
      BY <1>3 DEF Waiting
    <3>2. F.n \in Pushed(c)'
      BY <1>13
    <3>3. \A e \in Sessions : 1 .. Intact(e)' \subseteq Pushed(e)' \cup Waiting(e)'
      BY <1>3, <2>0, <3>1, <3>2
    <3>4. \A x \in Waiting(c) : ~(x < F.n)
      BY <1>3, <1>14, <1>15, <1>17, <1>18 DEF Waiting
    <3>5. \A x \in 1 .. Intact(c) : x < F.n => x \in Pushed(c)
      BY <2>0, <3>4
    <3>6. \A e \in Sessions : \A n \in Pushed(e)' : n \in Pushed(e) \/ (e = c /\ n = F.n)
      BY <1>13
    <3>7. \A e \in Sessions : \A n \in Pushed(e)' :
            \A x \in 1 .. Intact(e) : x < n => x \in Pushed(e)
      BY <2>0, <3>5, <3>6, Zenon
    <3> QED
      BY <2>0, <3>3, <3>7, Zenon
  <2>2. \A s \in Shards : \A k \in DOMAIN log[s] : log[s][k].n \in Pushed(log[s][k].session)
    BY DEF Pushed
  <2>3. ASSUME NEW s \in Shards, NEW j \in DOMAIN log'[s], NEW i \in 1 .. j - 1,
               log'[s][i].session = log'[s][j].session
        PROVE  log'[s][i].n < log'[s][j].n
    <3>1. CASE j \in DOMAIN log[s]
      <4>1. log[s] \in Seq(Entry)
        BY <1>6
      <4>2. i \in DOMAIN log[s]
        BY <3>1, <4>1
      <4>3. log'[s][i] = log[s][i] /\ log'[s][j] = log[s][j]
        BY <1>11, <3>1, <4>2
      <4> QED
        BY <2>3, <3>1, <4>3 DEF IInv, SessionOrder
    <3>2. CASE s = t /\ j = l + 1
      <4>1. i \in DOMAIN log[t]
        BY <1>9, <3>2
      <4>2. log'[t][i] = log[t][i] /\ log'[t][j] = E
        BY <1>9, <3>2, <4>1
      <4>3. log[t][i].n \in Pushed(c)
        BY <1>e, <1>5, <2>2, <2>3, <3>2, <4>1, <4>2
      <4> QED
        BY <1>e, <1>15, <3>2, <4>2, <4>3
    <3> QED
      BY <1>12, <2>3, <3>1, <3>2
  <2>4. ASSUME NEW s \in Shards, NEW u \in Shards, NEW i \in DOMAIN log'[s], NEW j \in DOMAIN log'[u],
               log'[s][i].session = log'[u][j].session, log'[s][i].n = log'[u][j].n
        PROVE  s = u
    <3>1. ~(F.n < F.n)
      BY <1>4
    <3>2. \A v \in Shards : \A k \in DOMAIN log[v] : ~(log[v][k].session = c /\ log[v][k].n = F.n)
      BY <1>3, <1>15, <2>2, <3>1, Zenon
    <3>3. CASE i \in DOMAIN log[s] /\ j \in DOMAIN log[u]
      BY <1>11, <2>4, <3>3 DEF IInv, SessionOrder
    <3>4. CASE i \in DOMAIN log[s] /\ u = t /\ j = l + 1
      BY <1>e, <1>9, <1>11, <2>4, <3>2, <3>4
    <3>5. CASE s = t /\ i = l + 1 /\ j \in DOMAIN log[u]
      BY <1>e, <1>9, <1>11, <2>4, <3>2, <3>5
    <3> QED
      BY <1>12, <2>4, <3>3, <3>4, <3>5
  <2> QED
    BY <2>1, <2>3, <2>4 DEF SessionOrder
<1>20. ASSUME NEW e \in Sessions, NEW k \in WaitingAt(e)'
       PROVE  /\ buffered'[e][k].n \in 1 .. reqs[e]
              /\ \A i \in WaitingAt(e)' : i < k => buffered'[e][i].n < buffered'[e][k].n
              /\ \A n \in Pushed(e)' : n < buffered'[e][k].n
  <2>1. CASE e # c
    BY <1>3, <1>13, <1>14, <1>20, <2>1
  <2>2. CASE e = c
    <3>1. k + 1 \in WaitingAt(c) /\ buffered'[c][k] = buffered[c][k + 1] /\ k \in Nat \ {0}
      BY <1>3, <1>20, <2>2
    <3>2. \A i \in WaitingAt(c)' :
            i < k => /\ i + 1 \in WaitingAt(c) /\ i + 1 < k + 1
                     /\ buffered'[c][i] = buffered[c][i + 1]
      BY <1>3, <3>1
    <3>3. F.n < buffered[c][k + 1].n
      BY <1>18, <3>1
    <3> QED
      BY <1>13, <1>14, <2>2, <3>1, <3>2, <3>3
  <2> QED
    BY <2>1, <2>2
<1>21. BufferedInOrder'
  <2>1. \A e \in Sessions : Pushed(e) \subseteq 1 .. reqs[e]
    BY DEF IInv, BufferedInOrder
  <2>2. \A e \in Sessions : Pushed(e)' \subseteq 1 .. reqs[e]
    BY <1>13, <1>15, <2>1
  <2> QED
    BY <1>2, <1>3, <1>20, <2>2, Zenon DEF BufferedInOrder
<1>22. CancelsOK'
  <2>1. \A s \in Shards : \A k \in DOMAIN inbound'[s] :
          CancelOK(inbound'[s][k]) /\ Target(inbound'[s][k]) = s
    <3>1. \A s \in Shards : \A k \in DOMAIN inbound[s] :
            CancelOK(inbound[s][k]) /\ Target(inbound[s][k]) = s
      BY DEF IInv, CancelsOK
    <3>2. \A k \in DOMAIN inbound'[t] : CancelOK(inbound'[t][k]) /\ Target(inbound'[t][k]) = t
      <4> TAKE k \in DOMAIN inbound'[t]
      <4>1. CASE k \in 1 .. q
        BY <1>5, <1>10, <3>1, <4>1
      <4>2. CASE k = q + 1
        BY <1>3, <1>10, <4>2 DEF t
      <4> QED
        BY <1>10, <4>1, <4>2
    <3> QED
      BY <1>8, <3>1, <3>2
  <2>3. tokens' = tokens
    BY <1>2
  <2>4. \A e \in Sessions : \A k \in DOMAIN buffered'[e] : CancelOK(buffered[e][k])'
    BY <1>3, <2>3 DEF CancelOK
  <2>5. \A s \in Shards : \A k \in DOMAIN inbound'[s] :
          CancelOK(inbound[s][k])' /\ Target(inbound[s][k])' = s
    <3>1. \A s \in Shards : \A k \in DOMAIN inbound'[s] : CancelOK(inbound[s][k])'
      BY <2>1, <2>3 DEF CancelOK
    <3>2. \A s \in Shards : \A k \in DOMAIN inbound'[s] : Target(inbound[s][k])' = s
      BY <2>1 DEF Target
    <3> QED
      BY <3>1, <3>2
  <2> QED
    BY <2>4, <2>5 DEF CancelsOK
<1>23. HandlesOK' /\ InItsBook'
  <2>1. \A s : Live(s)' = Live(s)
    BY <1>2 DEF Live
  <2>2. \A s \in Shards : Popped(s)' = Popped(s)
    <3>1. Len(log'[t]) - Len(inbound'[t]) = Len(log[t]) - Len(inbound[t])
      <4>1. (l + 1) - (q + 1) = l - q
        BY <1>9, <1>10
      <4> QED
        BY <1>10, <4>1 DEF l, q
    <3>2. \A s \in Shards : Len(log'[s]) - Len(inbound'[s]) = Len(log[s]) - Len(inbound[s])
      BY <1>7, <1>8, <3>1, Zenon
    <3> QED
      BY <3>2, Zenon DEF Popped
  <2>3. InItsBook' /\ (GenBound => GenBound')
    BY <1>2, <2>1, <2>2 DEF IInv, GenBound, InItsBook
  <2>4. ASSUME NoGenWrap PROVE CancelRemovesItsOrder' /\ \A x \in tokens' : TokenOK(x)'
    BY <1>2, <2>4 DEF IInv, HandlesOK, CancelRemovesItsOrder, TokenOK
  <2> QED
    BY <2>3, <2>4 DEF IInv, HandlesOK
<1> QED
  BY <1>16, <1>19, <1>21, <1>22, <1>23 DEF IInv

-----------------------------------------------------------------------------
(* The shards                                                               *)

\* What a shard pops, and what that leaves.
LEMMA PopFacts ==
  ASSUME IInv, NEW s \in Shards, Pop(s)
  PROVE  /\ Head(inbound[s]) \in InboundMsg
         /\ CancelOK(Head(inbound[s])) /\ Target(Head(inbound[s])) = s
         /\ inbound' \in [Shards -> Seq(InboundMsg)]
         /\ \A t \in Shards : \A k \in DOMAIN inbound'[t] :
              CancelOK(inbound'[t][k]) /\ Target(inbound'[t][k]) = t
         /\ Popped(s) \in Int /\ Popped(s)' = Popped(s) + 1 /\ Popped(s) + 1 <= Len(log[s])
         /\ \A t \in Shards \ {s} : Popped(t)' = Popped(t)
<1> DEFINE Q == inbound[s]
<1>1. /\ inbound \in [Shards -> Seq(InboundMsg)] /\ Q \in Seq(InboundMsg) /\ Q # <<>>
      /\ inbound' = [inbound EXCEPT ![s] = Tail(Q)] /\ log' = log /\ Len(log[s]) \in Nat
  BY DEF IInv, TypeOK, Pop
<1>2. /\ Len(Q) \in Nat \ {0} /\ DOMAIN Q = 1 .. Len(Q) /\ Head(Q) = Q[1] /\ Head(Q) \in InboundMsg
      /\ Tail(Q) \in Seq(InboundMsg) /\ Len(Tail(Q)) = Len(Q) - 1
      /\ \A k \in 1 .. Len(Q) - 1 : Tail(Q)[k] = Q[k + 1]
  BY <1>1
<1>3. /\ inbound' \in [Shards -> Seq(InboundMsg)] /\ inbound'[s] = Tail(Q)
      /\ \A t \in Shards \ {s} : inbound'[t] = inbound[t]
  BY <1>1, <1>2
<1>4. \A t \in Shards : \A k \in DOMAIN inbound[t] :
        CancelOK(inbound[t][k]) /\ Target(inbound[t][k]) = t
  BY DEF IInv, CancelsOK
<1>5. 1 \in DOMAIN Q /\ DOMAIN inbound'[s] = 1 .. Len(Q) - 1
  BY <1>2, <1>3
<1>6. \A k \in DOMAIN inbound'[s] : CancelOK(inbound'[s][k]) /\ Target(inbound'[s][k]) = s
  <2> TAKE k \in DOMAIN inbound'[s]
  <2>1. k + 1 \in DOMAIN Q /\ inbound'[s][k] = Q[k + 1]
    BY <1>2, <1>3, <1>5
  <2> QED
    BY <1>4, <2>1
<1>7. \A t \in Shards : \A k \in DOMAIN inbound'[t] :
        CancelOK(inbound'[t][k]) /\ Target(inbound'[t][k]) = t
  BY <1>3, <1>4, <1>6, Zenon
<1>8. Popped(s) = Len(log[s]) - Len(Q) /\ Popped(s)' = Len(log[s]) - (Len(Q) - 1)
  BY <1>1, <1>2, <1>3 DEF Popped
<1>9. \A t \in Shards \ {s} : Popped(t)' = Popped(t)
  BY <1>1, <1>3 DEF Popped
<1>10. CancelOK(Head(Q)) /\ Target(Head(Q)) = s
  BY <1>2, <1>4, <1>5
<1> QED
  BY <1>1, <1>2, <1>3, <1>7, <1>8, <1>9, <1>10

Cell == [gen : 0 .. GEN_MOD - 1, order : Order \cup {NONE}]

\* A step of a shard leaves a slot alone, frees it, or puts a new order into it.
SlotMoves(s, a, b) ==
  \/ b = a
  \/ b.order = NONE /\ (NoGenWrap => b.gen = a.gen + 1)
  \/ /\ a.order = NONE /\ b.gen = a.gen
     /\ b.order.book = local_of_(s, b.order.symbol) /\ b.order.book # NO_BOOK

\* A slot that is given back is free, with the next generation.
LEMMA FreedAt ==
  ASSUME IInv, NEW s \in Shards, Pop(s), NEW gone \in SUBSET Slots
  PROVE  /\ Freed(s, gone) \in [Shards -> [Slots -> Cell]]
         /\ \A t \in Shards \ {s} : Freed(s, gone)[t] = pool[t]
         /\ \A i \in Slots : i \notin gone => Freed(s, gone)[s][i] = pool[s][i]
         /\ \A i \in Slots : SlotMoves(s, pool[s][i], Freed(s, gone)[s][i])
<1> DEFINE up(i) == (pool[s][i].gen + 1) % GEN_MOD
           row == [i \in Slots |-> IF i \in gone THEN [gen |-> up(i), order |-> NONE] ELSE pool[s][i]]
<1>1. pool \in [Shards -> [Slots -> Cell]] /\ GEN_MOD \in Nat \ {0}
  BY RouterAssumption, Zenon DEF IInv, TypeOK, Cell
<1>2. \A i \in Slots : pool[s][i] \in Cell /\ pool[s][i].gen \in 0 .. GEN_MOD - 1
  BY <1>1 DEF Cell
<1>3. \A i \in Slots : up(i) \in 0 .. GEN_MOD - 1
  BY <1>1, <1>2
<1>4. ASSUME NoGenWrap, NEW i \in Slots PROVE up(i) = pool[s][i].gen + 1
  <2>1. /\ Popped(s) \in Int /\ Popped(s) + 1 <= Len(log[s])
        /\ Len(log[s]) \in Nat /\ Len(log[s]) < GEN_MOD
    BY <1>4, PopFacts, LogBound, Zenon
  <2>2. pool[s][i].gen + (IF i \in Live(s) THEN 1 ELSE 0) <= Popped(s)
    BY <1>4, Zenon DEF IInv, HandlesOK, GenBound
  <2>3. pool[s][i].gen + 1 \in 0 .. GEN_MOD - 1
    BY <1>1, <1>2, <2>1, <2>2
  <2> QED
    BY <1>1, <2>3, ModSmall
<1>5. Freed(s, gone) = [pool EXCEPT ![s] = row]
  BY <1>1 DEF Freed
<1> HIDE DEF up
<1>6. row \in [Slots -> Cell]
  BY <1>2, <1>3 DEF Cell
<1>7. \A i \in Slots : SlotMoves(s, pool[s][i], row[i])
  BY <1>4 DEF SlotMoves
<1> HIDE DEF row
<1>8. Freed(s, gone)[s] = row /\ \A t \in Shards \ {s} : Freed(s, gone)[t] = pool[t]
  BY <1>1, <1>5
<1>9. Freed(s, gone) \in [Shards -> [Slots -> Cell]]
  BY <1>1, <1>5, <1>6
<1> QED
  BY <1>7, <1>8, <1>9 DEF row

PoolMoves(s) ==
  /\ pool' \in [Shards -> [Slots -> Cell]]
  /\ \A t \in Shards \ {s} : pool'[t] = pool[t]
  /\ \A i \in Slots : SlotMoves(s, pool[s][i], pool'[s][i])

\* The tokens given out name orders where they rest.
TokensGrow ==
  /\ tokens \subseteq tokens' /\ tokens' \subseteq [order : Order, token : Nat]
  /\ NoGenWrap => \A x \in tokens' \ tokens : TokenOK(x)'

\* What a token says of a slot stays true of it.
LEMMA TokenKept ==
  ASSUME NEW s, NEW a \in Cell, NEW b \in Cell, SlotMoves(s, a, b), NoGenWrap,
         NEW g \in Nat, NEW o \in Order, g <= a.gen, g = a.gen => a.order = o
  PROVE  g <= b.gen /\ (g = b.gen => b.order = o)
<1>1. a.gen \in Nat /\ b.gen \in Nat
  BY RouterAssumption DEF Cell
<1>2. NONE \notin Order
  BY RouterAssumption
<1> QED
  BY <1>1, <1>2 DEF SlotMoves

\* A request popped pays for a slot freed, and for an order put into one.
LEMMA BoundKept ==
  ASSUME NEW s, NEW a \in Cell, NEW b \in Cell, SlotMoves(s, a, b), NoGenWrap, NEW n \in Int,
         a.gen + (IF a.order # NONE THEN 1 ELSE 0) <= n
  PROVE  b.gen + (IF b.order # NONE THEN 1 ELSE 0) <= n + 1
<1>1. a.gen \in Nat /\ b.gen \in Nat
  BY RouterAssumption DEF Cell
<1> QED
  BY <1>1 DEF SlotMoves

\* A shard's step keeps the invariant if it treats its slots and tokens so.
LEMMA PoolStep ==
  ASSUME IInv, NEW s \in Shards, Pop(s), NoGenWrap => CancelRemovesItsOrder',
         PoolMoves(s), TokensGrow
  PROVE  IInv'
<1>1. /\ inbound' \in [Shards -> Seq(InboundMsg)]
      /\ \A t \in Shards : \A k \in DOMAIN inbound'[t] :
           CancelOK(inbound'[t][k]) /\ Target(inbound'[t][k]) = t
      /\ Popped(s) \in Int /\ Popped(s)' = Popped(s) + 1
      /\ \A t \in Shards \ {s} : Popped(t)' = Popped(t)
  BY PopFacts, Zenon
<1>2. UNCHANGED <<buffered, turn, reqs, log, cut>>
  BY DEF Pop
<1>3. TypeOK'
  <2>1. TypeOK
    BY DEF IInv
  <2>2. tokens' \subseteq [order : Order, token : Nat] /\ pool' \in [Shards -> [Slots -> Cell]]
    BY DEF TokensGrow, PoolMoves
  <2> QED
    BY <1>1, <1>2, <2>1, <2>2, Zenon DEF TypeOK, Cell
<1>4. SessionOrder' /\ BufferedInOrder'
  <2>1. \A c : Pushed(c)' = Pushed(c) /\ WaitingAt(c)' = WaitingAt(c) /\ Waiting(c)' = Waiting(c)
    BY <1>2 DEF Pushed, WaitingAt, Waiting
  <2>2. SessionOrder /\ BufferedInOrder
    BY DEF IInv
  <2> QED
    BY <1>2, <2>1, <2>2, Zenon DEF SessionOrder, BufferedInOrder, Intact
<1>5. /\ pool \in [Shards -> [Slots -> Cell]] /\ pool' \in [Shards -> [Slots -> Cell]]
      /\ tokens \subseteq [order : Order, token : Nat]
  BY DEF IInv, TypeOK, PoolMoves, Cell
<1>6. \A t \in Shards : \A i \in Slots : pool[t][i] \in Cell /\ pool'[t][i] \in Cell
  BY <1>5
<1>7. ASSUME NoGenWrap PROVE \A x \in tokens : TokenOK(x)'
  <2> TAKE x \in tokens
  <2> DEFINE t == token_shard(x.token)
             i == from_token(x.token).slot
             g == from_token(x.token).gen
  <2>1. /\ t \in Shards /\ i \in Slots /\ g <= pool[t][i].gen
        /\ g = pool[t][i].gen => pool[t][i].order = x.order
    BY <1>7, Zenon DEF IInv, HandlesOK, TokenOK
  <2>2. g \in Nat /\ x.order \in Order
    <3>1. x.order \in Order /\ x.token \in Nat
      BY <1>5
    <3> DEFINE y == x.token \div SLOT_MOD
    <3>2. y \in Int /\ GEN_MOD \in Nat \ {0}
      BY <3>1, RouterAssumption
    <3> HIDE DEF y
    <3>3. y % GEN_MOD \in Nat
      BY <3>2
    <3> QED
      BY <3>1, <3>3 DEF from_token, y
  <2>3. /\ g <= pool'[t][i].gen
        /\ g = pool'[t][i].gen => pool'[t][i].order = x.order
    <3> HIDE DEF t, i, g
    <3>1. CASE t # s
      BY <2>1, <3>1 DEF PoolMoves
    <3>2. CASE t = s
      <4>1. SlotMoves(s, pool[s][i], pool'[s][i])
        BY <2>1, Zenon DEF PoolMoves
      <4>2. pool[s][i] \in Cell /\ pool'[s][i] \in Cell
        BY <1>6, <2>1, Zenon
      <4>3. g <= pool[s][i].gen /\ (g = pool[s][i].gen => pool[s][i].order = x.order)
        BY <2>1, <3>2, Zenon
      <4>4. g <= pool'[s][i].gen /\ (g = pool'[s][i].gen => pool'[s][i].order = x.order)
        BY <1>7, <2>2, <4>1, <4>2, <4>3, TokenKept
      <4> QED
        BY <3>2, <4>4, Zenon
    <3> QED
      BY <3>1, <3>2
  <2> QED
    BY <2>1, <2>3, Zenon DEF TokenOK
<1>8. \A e \in Sessions : \A k \in DOMAIN buffered'[e] : CancelOK(buffered[e][k])'
  BY <1>2, Zenon DEF IInv, CancelsOK, CancelOK, TokensGrow
<1>9. \A t \in Shards : \A k \in DOMAIN inbound'[t] :
        CancelOK(inbound[t][k])' /\ Target(inbound[t][k])' = t
  <2>1. \A t \in Shards : \A k \in DOMAIN inbound'[t] : CancelOK(inbound[t][k])'
    BY <1>1 DEF CancelOK, TokensGrow
  <2>2. \A t \in Shards : \A k \in DOMAIN inbound'[t] : Target(inbound[t][k])' = t
    BY <1>1 DEF Target
  <2> QED
    BY <2>1, <2>2
<1>10. CancelsOK'
  BY <1>8, <1>9 DEF CancelsOK
<1>11. ASSUME NoGenWrap, NEW t \in Shards, NEW i \in Slots
       PROVE  pool'[t][i].gen + (IF pool'[t][i].order # NONE THEN 1 ELSE 0) <= Popped(t)'
  <2>1. pool[t][i].gen + (IF pool[t][i].order # NONE THEN 1 ELSE 0) <= Popped(t)
    BY <1>11 DEF IInv, HandlesOK, GenBound, Live
  <2>2. CASE t # s
    BY <1>1, <2>1, <2>2 DEF PoolMoves
  <2>3. CASE t = s
    <3>1. SlotMoves(s, pool[s][i], pool'[s][i])
      BY Zenon DEF PoolMoves
    <3>2. pool[s][i] \in Cell /\ pool'[s][i] \in Cell
      BY <1>6, Zenon
    <3>3. pool'[s][i].gen + (IF pool'[s][i].order # NONE THEN 1 ELSE 0) <= Popped(s) + 1
      BY <1>1, <1>11, <2>1, <2>3, <3>1, <3>2, BoundKept, Zenon
    <3> QED
      BY <1>1, <2>3, <3>3, Zenon
  <2> QED
    BY <2>2, <2>3
<1>12. HandlesOK'
  <2>1. NoGenWrap => GenBound'
    BY <1>11 DEF GenBound, Live
  <2>2. NoGenWrap => \A x \in tokens' : TokenOK(x)'
    BY <1>7, Zenon DEF TokensGrow
  <2> QED
    BY <2>1, <2>2 DEF HandlesOK
<1>13. ASSUME NEW t \in Shards, NEW i \in Slots, pool'[t][i].order # NONE
       PROVE  /\ pool'[t][i].order.book = local_of_(t, pool'[t][i].order.symbol)
              /\ pool'[t][i].order.book # NO_BOOK
  <2>1. pool[t][i].order # NONE =>
          /\ pool[t][i].order.book = local_of_(t, pool[t][i].order.symbol)
          /\ pool[t][i].order.book # NO_BOOK
    BY DEF IInv, InItsBook, Live
  <2>2. CASE t # s
    BY <1>13, <2>1, <2>2 DEF PoolMoves
  <2>3. CASE t = s
    <3>1. SlotMoves(s, pool[s][i], pool'[s][i])
      BY Zenon DEF PoolMoves
    <3> QED
      BY <1>13, <2>1, <2>3, <3>1, Zenon DEF SlotMoves
  <2> QED
    BY <2>2, <2>3
<1>14. InItsBook'
  BY <1>13 DEF InItsBook, Live
<1> QED
  BY <1>3, <1>4, <1>10, <1>12, <1>14 DEF IInv

\* Slots are given back, and no token is given out.
LEMMA FreeStep ==
  ASSUME IInv, NEW s \in Shards, Pop(s), NoGenWrap => CancelRemovesItsOrder',
         NEW gone \in SUBSET Slots, pool' = Freed(s, gone), tokens' = tokens
  PROVE  IInv'
<1>1. PoolMoves(s)
  BY FreedAt, Zenon DEF PoolMoves
<1>2. TokensGrow
  BY DEF TokensGrow, IInv, TypeOK
<1> QED
  BY <1>1, <1>2, PoolStep, Zenon

\* An order takes the free slot i, and its client gets the token.
LEMMA RestStep ==
  ASSUME IInv, NEW s \in Shards, Pop(s), NoGenWrap => CancelRemovesItsOrder',
         NEW i \in Slots, pool[s][i].order = NONE, NEW filled \in SUBSET Slots, i \notin filled,
         NEW o \in Order, o.book = local_of_(s, o.symbol), o.book # NO_BOOK,
         pool' = [Freed(s, filled) EXCEPT ![s][i].order = o],
         NEW g, g = pool[s][i].gen, NEW y, y = [order |-> o, token |-> to_token([slot |-> i, gen |-> g], s)],
         tokens' = tokens \cup {y}
  PROVE  IInv'
<1> DEFINE P == Freed(s, filled)
<1>1. /\ P \in [Shards -> [Slots -> Cell]]
      /\ \A t \in Shards \ {s} : P[t] = pool[t]
      /\ P[s][i] = pool[s][i]
      /\ \A j \in Slots : SlotMoves(s, pool[s][j], P[s][j])
  BY FreedAt, Zenon
<1>2. pool' = [P EXCEPT ![s][i].order = o]
  OBVIOUS
<1> HIDE DEF P
<1>3. P[s] \in [Slots -> Cell] /\ P[s][i] \in Cell /\ P[s][i].gen = g /\ g \in 0 .. GEN_MOD - 1
  BY <1>1 DEF Cell
<1>4. [P[s][i] EXCEPT !.order = o] \in Cell
  BY <1>3 DEF Cell
<1>5. /\ pool' \in [Shards -> [Slots -> Cell]]
      /\ \A t \in Shards \ {s} : pool'[t] = P[t]
      /\ \A j \in Slots \ {i} : pool'[s][j] = P[s][j]
      /\ pool'[s][i] = [P[s][i] EXCEPT !.order = o]
  <2> DEFINE c == [P[s][i] EXCEPT !.order = o]
             row == [P[s] EXCEPT ![i] = c]
  <2>1. pool' = [P EXCEPT ![s] = row]
    BY <1>2, Zenon
  <2> HIDE DEF c
  <2>2. row \in [Slots -> Cell] /\ row[i] = c /\ \A j \in Slots \ {i} : row[j] = P[s][j]
    BY <1>3, <1>4 DEF c
  <2> HIDE DEF row
  <2>3. pool' \in [Shards -> [Slots -> Cell]] /\ pool'[s] = row
        /\ \A t \in Shards \ {s} : pool'[t] = P[t]
    BY <1>1, <2>1, <2>2, Zenon
  <2> QED
    BY <2>2, <2>3 DEF c
<1>6. pool'[s][i].gen = g /\ pool'[s][i].order = o
  BY <1>3, <1>5 DEF Cell
<1>7. PoolMoves(s)
  <2>1. SlotMoves(s, pool[s][i], pool'[s][i])
    BY <1>6, Zenon DEF SlotMoves
  <2> QED
    BY <1>1, <1>5, <2>1, Zenon DEF PoolMoves
<1>8. y.order = o /\ y.token = to_token([slot |-> i, gen |-> g], s)
  OBVIOUS
<1>9. /\ y.token \in Nat /\ token_shard(y.token) = s
      /\ from_token(y.token).slot = i /\ from_token(y.token).gen = g
  <2>1. /\ y.token \in Nat /\ token_shard(y.token) = s
        /\ from_token(y.token) = [slot |-> i, gen |-> g]
    BY <1>3, <1>8, TokenRoundTrip, Zenon
  <2> QED
    BY <2>1
<1>10. TokenOK(y)'
  <2>1. g <= g
    BY <1>3, RouterAssumption
  <2> QED
    BY <1>6, <1>8, <1>9, <2>1, Zenon DEF TokenOK
<1>11. TokensGrow
  <2>1. tokens \subseteq [order : Order, token : Nat]
    BY DEF IInv, TypeOK
  <2>2. y \in [order : Order, token : Nat]
    BY <1>8, <1>9
  <2> QED
    BY <1>10, <2>1, <2>2, Zenon DEF TokensGrow
<1> QED
  BY <1>7, <1>11, PoolStep, Zenon

\* handle_new: refused, taken and given back, or resting with a token.
LEMMA NewStep ==
  ASSUME IInv, NEW s \in Shards, handle_new(s)
  PROVE  IInv'
<1> DEFINE m == Head(inbound[s])
           book == local_of_(s, m.symbol)
           order == [session |-> m.session, n |-> m.n, book |-> book, symbol |-> m.symbol]
<1>1. Pop(s) /\ hits' = hits /\ m.type = "NEW_ORDER"
  BY DEF handle_new
<1>2. m \in InboundMsg
  BY <1>1, PopFacts, Zenon
<1>3. NoGenWrap => CancelRemovesItsOrder'
  BY <1>1 DEF IInv, HandlesOK, CancelRemovesItsOrder
<1>4. order \in Order /\ order.book = book /\ order.symbol = m.symbol
  <2>1. m.session \in Sessions /\ m.n \in Nat /\ m.symbol \in Symbols
    BY <1>1, <1>2 DEF InboundMsg, NewMsg, CancelMsg
  <2>2. book \in Nat
    BY <2>1, LocalPlace
  <2> QED
    BY <2>1, <2>2 DEF Order
<1>5. CASE UNCHANGED <<pool, tokens>>
  <2>1. PoolMoves(s)
    BY <1>5 DEF PoolMoves, SlotMoves, IInv, TypeOK, Cell
  <2>2. TokensGrow
    BY <1>5 DEF TokensGrow, IInv, TypeOK
  <2> QED
    BY <1>1, <1>3, <2>1, <2>2, PoolStep, Zenon
<1>6. ASSUME NEW i \in Slots \ Live(s),
             NEW filled \in SUBSET {j \in Live(s) : pool[s][j].order.book = book},
             pool' = Freed(s, filled \cup {i}), tokens' = tokens
      PROVE  IInv'
  <2>1. PICK gone \in SUBSET Slots : pool' = Freed(s, gone)
    BY <1>6 DEF Live
  <2> QED
    BY <1>1, <1>3, <1>6, <2>1, FreeStep, Zenon
<1>7. ASSUME book # NO_BOOK, NEW i \in Slots \ Live(s),
             NEW filled \in SUBSET {j \in Live(s) : pool[s][j].order.book = book},
             pool' = [Freed(s, filled) EXCEPT ![s][i].order = order],
             tokens' = tokens \cup
               {[order |-> order, token |-> to_token([slot |-> i, gen |-> pool[s][i].gen], s)]}
      PROVE  IInv'
  <2>1. filled \in SUBSET Slots /\ i \notin filled /\ pool[s][i].order = NONE /\ i \in Slots
    BY DEF Live
  <2>2. PICK o \in Order : o = order
    BY <1>4
  <2>3. PICK g : g = pool[s][i].gen
    OBVIOUS
  <2>4. PICK y : y = [order |-> o, token |-> to_token([slot |-> i, gen |-> g], s)]
    BY Zenon
  <2>5. o.book = local_of_(s, o.symbol) /\ o.book # NO_BOOK
    BY <1>4, <1>7, <2>2
  <2>6. pool' = [Freed(s, filled) EXCEPT ![s][i].order = o] /\ tokens' = tokens \cup {y}
    BY <1>7, <2>2, <2>3, <2>4, Zenon
  <2> QED
    BY <1>1, <1>3, <2>1, <2>3, <2>4, <2>5, <2>6, RestStep, Zenon
<1> QED
  BY <1>5, <1>6, <1>7, Zenon DEF handle_new

\* handle_cancel: the slot with the token's generation is freed, and holds the
\* order that the token was given for.
LEMMA CancelStep ==
  ASSUME IInv, NEW s \in Shards, handle_cancel(s)
  PROVE  IInv'
<1>1. PICK m : m = Head(inbound[s])
  OBVIOUS
<1>2. PICK i : i = from_token(m.token).slot
  OBVIOUS
<1>3. PICK g : g = from_token(m.token).gen
  OBVIOUS
<1> DEFINE ok == i < MAX_ORDERS /\ pool[s][i].gen = g
<1>4. Pop(s) /\ tokens' = tokens /\ m.type = "CANCEL_ORDER"
  BY <1>1, Zenon DEF handle_cancel
<1>5. /\ pool' = IF ok THEN Freed(s, {i}) ELSE pool
      /\ hits' = IF ok THEN hits \cup {[named |-> m.target, removed |-> pool[s][i].order]} ELSE hits
  BY <1>1, <1>2, <1>3, Zenon DEF handle_cancel
<1>6. m \in InboundMsg /\ CancelOK(m) /\ Target(m) = s
  BY <1>1, <1>4, PopFacts, Zenon
<1>7. CASE ~ok
  <2>1. pool' = pool /\ hits' = hits
    BY <1>5, <1>7
  <2>2. NoGenWrap => CancelRemovesItsOrder'
    BY <2>1 DEF IInv, HandlesOK, CancelRemovesItsOrder
  <2>3. PoolMoves(s)
    BY <2>1 DEF PoolMoves, SlotMoves, IInv, TypeOK, Cell
  <2>4. TokensGrow
    BY <1>4 DEF TokensGrow, IInv, TypeOK
  <2> QED
    BY <1>4, <2>2, <2>3, <2>4, PoolStep, Zenon
<1>8. CASE ok
  <2>1. [order |-> m.target, token |-> m.token] \in tokens
    BY <1>4, <1>6 DEF CancelOK
  <2>2. i \in Slots
    <3>1. m.token \in Nat /\ SLOT_MOD \in Nat \ {0} /\ MAX_ORDERS \in Nat
      BY <1>4, <1>6, RouterAssumption DEF InboundMsg, NewMsg, CancelMsg
    <3>2. i = m.token % SLOT_MOD
      BY <1>2 DEF from_token
    <3>3. i \in Nat
      BY <3>1, <3>2
    <3> QED
      BY <1>8, <3>1, <3>3 DEF Slots
  <2>3. ASSUME NoGenWrap PROVE pool[s][i].order = m.target
    <3>1. /\ token_shard(m.token) \in Shards
          /\ g = pool[token_shard(m.token)][i].gen =>
               pool[token_shard(m.token)][i].order = m.target
      BY <1>2, <1>3, <2>1, <2>3, Zenon DEF IInv, HandlesOK, TokenOK
    <3>2. token_shard(m.token) % N = s
      BY <1>4, <1>6 DEF Target
    <3>3. \A x \in 0 .. N - 1 : x % N = x
      <4>1. N \in Nat \ {0}
        BY RouterAssumption
      <4> QED
        BY <4>1, ModSmall
    <3>4. token_shard(m.token) = s
      BY <3>1, <3>2, <3>3, Zenon DEF Shards
    <3> QED
      BY <1>8, <3>1, <3>4
  <2>4. NoGenWrap => CancelRemovesItsOrder'
    <3> SUFFICES ASSUME NoGenWrap PROVE CancelRemovesItsOrder'
      OBVIOUS
    <3>1. hits' = hits \cup {[named |-> m.target, removed |-> m.target]}
      BY <1>5, <1>8, <2>3
    <3> QED
      BY <3>1 DEF IInv, HandlesOK, CancelRemovesItsOrder
  <2>5. PICK gone \in SUBSET Slots : pool' = Freed(s, gone)
    BY <1>5, <1>8, <2>2
  <2> QED
    BY <1>4, <2>4, <2>5, FreeStep, Zenon
<1> QED
  BY <1>7, <1>8

-----------------------------------------------------------------------------
(* The theorems                                                             *)

\* Every step keeps the inductive invariant.
LEMMA NextIInv == IInv /\ [Next]_vars => IInv'
<1> SUFFICES ASSUME IInv, [Next]_vars PROVE IInv'
  OBVIOUS
<1>1. CASE UNCHANGED vars
  <2>1. UNCHANGED <<buffered, turn, inbound, pool, reqs, log, cut, tokens, hits>>
    BY <1>1 DEF vars
  <2>2. /\ HandlesOK' /\ InItsBook'
        /\ \A c : Pushed(c)' = Pushed(c) /\ WaitingAt(c)' = WaitingAt(c) /\ Waiting(c)' = Waiting(c)
    BY <2>1, ShardsKept, Zenon DEF WaitingAt, Waiting
  <2>3. TypeOK'
    BY <2>1 DEF IInv, TypeOK
  <2>4. SessionOrder' /\ BufferedInOrder'
    BY <2>1, <2>2, Zenon DEF IInv, SessionOrder, BufferedInOrder, Intact
  <2>5. CancelsOK'
    BY <2>1, Zenon DEF IInv, CancelsOK, CancelOK, Target
  <2> QED
    BY <2>2, <2>3, <2>4, <2>5 DEF IInv
<1>2. CASE \E c \in Sessions : Request(c) \/ Chatter(c)
  BY <1>2, ClientStep
<1>3. CASE consume
  BY <1>3, ConsumeEndStep, SkipStep, PushStep DEF consume
<1>4. CASE \E s \in Shards : tick(s)
  BY <1>4, NewStep, CancelStep DEF tick
<1> QED
  BY <1>1, <1>2, <1>3, <1>4 DEF Next

\* The inductive invariant holds throughout.
THEOREM RouterInvariant == Spec => []IInv
<1>1. Init => IInv
  BY InitIInv
<1>2. IInv /\ [Next]_vars => IInv'
  BY NextIInv
<1> QED
  BY <1>1, <1>2, PTL DEF Spec

\* Session and ShardRouter: whatever rings fill up on the way, the requests that a
\* session sends before append first drops bytes are pushed in the order in which
\* they were sent and none is skipped; and what is pushed at all is pushed once.
THEOREM RouterSessionOrder == Spec => []SessionOrder
<1>1. IInv => SessionOrder
  BY DEF IInv
<1> QED
  BY <1>1, RouterInvariant, PTL

\* OrderHandle and handle_cancel: as long as the generations do not come round, a
\* cancel that succeeds removes the order that its token was given for, whatever
\* slots were reused.
THEOREM RouterCancelRemovesItsOrder == NoGenWrap => (Spec => []CancelRemovesItsOrder)
<1> SUFFICES ASSUME NoGenWrap PROVE Spec => []CancelRemovesItsOrder
  OBVIOUS
<1>1. IInv => CancelRemovesItsOrder
  BY DEF IInv, HandlesOK
<1> QED
  BY <1>1, RouterInvariant, PTL

\* Shard's symbol table: no two symbols share a book, so the orders of one book are
\* for one symbol.
THEOREM RouterBooksAreIsolated == Spec => []BooksAreIsolated
<1>1. IInv => BooksAreIsolated
  <2> SUFFICES ASSUME IInv, NEW s \in Shards, NEW i \in Live(s), NEW j \in Live(s),
                      pool[s][i].order.book = pool[s][j].order.book
               PROVE  pool[s][i].order.symbol = pool[s][j].order.symbol
    BY DEF BooksAreIsolated
  <2>1. pool[s][i].order \in Order /\ pool[s][j].order \in Order
    BY DEF IInv, TypeOK, Live
  <2>2. pool[s][i].order.symbol \in Symbols /\ pool[s][j].order.symbol \in Symbols
    BY <2>1 DEF Order
  <2>3. \A k \in {i, j} : /\ pool[s][k].order.book = local_of_(s, pool[s][k].order.symbol)
                          /\ pool[s][k].order.book # NO_BOOK
    BY DEF IInv, InItsBook
  <2> QED
    BY <2>2, <2>3, LocalInjective
<1> QED
  BY <1>1, RouterInvariant, PTL
=============================================================================
