------------------------ MODULE UringGatewayProofs --------------------------
(***************************************************************************)
(* The io_uring gateway, second part: the steps of the shards and of the   *)
(* gateway thread, and the theorems.  What is between get_sqe and          *)
(* handle_cqe is accounted for, and without SQPOLL replies go to their     *)
(* owner and in order.                                                     *)
(***************************************************************************)
EXTENDS UringKernelProofs

-----------------------------------------------------------------------------
(* The shard's ring                                                         *)

\* Joining sequences of entries is associative.
LEMMA JoinEntries == \A p, q, r \in Seq(Sqe) : (p \o q) \o r = p \o (q \o r)
BY JoinAssoc, SMTT(30)

\* The positions of a sequence that is one longer.
LEMMA OneFurther ==
  ASSUME NEW n \in Nat, NEW i \in 1 .. n + 1
  PROVE  i \in 1 .. n \/ i = n + 1
OBVIOUS

\* The replies in the outbound ring are numbered from 1.
LEMMA OutboundType ==
  ASSUME TypeOK
  PROVE  /\ \A i \in DOMAIN outbound : outbound[i] \in Reply /\ outbound[i].n \in Nat \ {0}
         /\ \A sid \in Sids : emitted[sid] \in Nat
<1>1. outbound \in Seq(Reply) /\ emitted \in [Sids -> Nat]
  BY Zenon DEF TypeOK
<1>2. \A i \in DOMAIN outbound : outbound[i] \in Reply
  BY <1>1
<1> QED
  BY <1>1, <1>2, Zenon DEF Reply

\* A queued reply has a number from 1.
LEMMA NumberType ==
  ASSUME SendsOK, NEW sid, NEW i \in DOMAIN Queue, QueuedFor(i, sid)
  PROVE  Number(i) \in Nat \ {0}
BY Zenon DEF SendsOK, QueuedFor, Number, Reply

\* A shard that emits a reply keeps the invariant.
LEMMA PushOutStep ==
  ASSUME IInv, NEW s \in Sids, push_out(s)
  PROVE  IInv'
<1> /\ TypeOK /\ Accounts /\ MapsOK /\ ConnsOK /\ SendsOK /\ Sorted
    /\ (~SQPOLL => SendsBound /\ RepliesToOwner /\ InOrder)
  BY Parts, Zenon DEF Conjuncts
<1> DEFINE e == emitted[s] + 1
           m == [sid |-> s, n |-> e]
           l == Len(outbound)
<1>1. /\ s \in asked /\ emitted' = [emitted EXCEPT ![s] = @ + 1] /\ outbound' = Append(outbound, m)
      /\ UNCHANGED <<conns_, sid_to_fd_, next_session_id_, owner, free_slots_, send_pool_,
                     pc, out, prepared, published, inflight, cq, client, backlog, file, unread, lag,
                     got, cut, waited, asked>>
  BY Zenon DEF push_out, maps, slots, rings, socket, wire
<1> USE <1>1
<1>2. /\ l \in Nat /\ DOMAIN outbound = 1 .. l /\ DOMAIN outbound' = 1 .. l + 1
      /\ outbound'[l + 1] = m /\ \A i \in 1 .. l : outbound'[i] = outbound[i]
  <2>1. outbound \in Seq(Reply)
    BY Zenon DEF TypeOK
  <2> HIDE DEF m
  <2> QED
    BY <2>1
<1>3. /\ e \in Nat \ {0} /\ \A t \in Sids : emitted'[t] = (IF t = s THEN e ELSE emitted[t])
      /\ emitted' \in [Sids -> Nat] /\ emitted[s] = e - 1
  <2>1. emitted \in [Sids -> Nat]
    BY Zenon DEF TypeOK
  <2>2. emitted[s] \in Nat
    BY <2>1, Zenon
  <2> QED
    BY <2>1, <2>2
<1>4. TypeOK'
  <2>1. m \in Reply /\ outbound \in Seq(Reply)
    BY <1>3, Zenon DEF Reply, TypeOK
  <2>2. outbound' \in Seq(Reply)
    BY <2>1
  <2> QED
    BY <1>3, <2>2, Zenon DEF TypeOK
<1>5. Queue' = Queue
  BY QueueSame, Zenon
<1>6. Accounts' /\ ConnsOK' /\ SendsOK'
  BY <1>5, AccountsKept, ConnsKept, SendsKept, Zenon DEF SendsSame
<1>7. MapsOK'
  BY <1>3, ZenonT(40) DEF MapsOK
<1>8. ASSUME NEW i, NEW t
      PROVE  (QueuedFor(i, t)' <=> QueuedFor(i, t)) /\ Number(i)' = Number(i)
  BY <1>5, Zenon DEF QueuedFor, Number
<1> HIDE DEF l, e
<1>9. Sorted'
  <2> SUFFICES ASSUME NEW t \in Sids
               PROVE  /\ \A i \in DOMAIN Queue, j \in DOMAIN outbound' :
                           QueuedFor(i, t) /\ outbound'[j].sid = t => Number(i) < outbound'[j].n
                      /\ \A i, j \in DOMAIN outbound' :
                           i < j /\ outbound'[i].sid = t /\ outbound'[j].sid = t
                             => outbound'[i].n < outbound'[j].n
                      /\ \A i \in DOMAIN Queue : QueuedFor(i, t) => Number(i) <= emitted'[t]
                      /\ \A i \in DOMAIN outbound' : outbound'[i].sid = t => outbound'[i].n <= emitted'[t]
    BY <1>5, <1>8, ZenonT(40) DEF Sorted
  <2>1. ASSUME NEW i \in DOMAIN Queue, QueuedFor(i, t)
        PROVE  Number(i) \in Nat /\ Number(i) <= emitted[t] /\ Number(i) <= emitted'[t]
    <3>1. Number(i) \in Nat /\ Number(i) <= emitted[t]
      BY <2>1, NumberType, Zenon DEF Sorted
    <3> QED
      BY <1>3, <3>1, OutboundType
  <2>2. ASSUME NEW i \in 1 .. l, outbound[i].sid = t
        PROVE  outbound[i].n \in Nat /\ outbound[i].n <= emitted[t] /\ outbound[i].n <= emitted'[t]
    <3>1. outbound[i].n \in Nat /\ outbound[i].n <= emitted[t]
      BY <1>2, <2>2, OutboundType, Zenon DEF Sorted
    <3> QED
      BY <1>3, <3>1, OutboundType
  <2>3. ASSUME NEW i \in DOMAIN Queue, NEW j \in DOMAIN outbound', QueuedFor(i, t), outbound'[j].sid = t
        PROVE  Number(i) < outbound'[j].n
    <3>1. CASE j \in 1 .. l
      BY <1>2, <2>3, <3>1, Zenon DEF Sorted
    <3>2. CASE j = l + 1
      BY <1>2, <1>3, <2>1, <2>3, <3>2
    <3> QED
      BY <1>2, <3>1, <3>2
  <2>4. ASSUME NEW i \in DOMAIN outbound', NEW j \in DOMAIN outbound', i < j,
               outbound'[i].sid = t, outbound'[j].sid = t
        PROVE  outbound'[i].n < outbound'[j].n
    <3>1. i \in 1 .. l
      BY <1>2, <2>4
    <3>2. CASE j \in 1 .. l
      BY <1>2, <2>4, <3>1, <3>2, Zenon DEF Sorted
    <3>3. CASE j = l + 1
      BY <1>2, <1>3, <2>2, <2>4, <3>1, <3>3
    <3> QED
      BY <1>2, <3>2, <3>3
  <2>5. ASSUME NEW i \in DOMAIN outbound', outbound'[i].sid = t
        PROVE  outbound'[i].n <= emitted'[t]
    <3>1. CASE i \in 1 .. l
      BY <1>2, <2>2, <2>5, <3>1, Zenon
    <3>2. CASE i = l + 1
      BY <1>2, <1>3, <2>5, <3>2
    <3> QED
      BY <1>2, <3>1, <3>2
  <2> QED
    BY <2>1, <2>3, <2>4, <2>5, Zenon
<1>10. ASSUME NEW t \in Sids, NEW r \in Nat, StillToSend(t, r)
       PROVE  StillToSend(t, r)'
  <2>1. emitted[t] \in Nat /\ r <= emitted[t]
    BY <1>10, OutboundType, Zenon DEF StillToSend
  <2>2. r <= emitted'[t]
    BY <1>3, <2>1
  <2>3. ASSUME NEW i \in DOMAIN outbound', outbound'[i].sid = t
        PROVE  outbound'[i].n > r
    <3>1. CASE i \in 1 .. l
      BY <1>2, <1>10, <2>3, <3>1, Zenon DEF StillToSend
    <3>2. CASE i = l + 1
      BY <1>2, <1>3, <2>1, <2>3, <3>2
    <3> QED
      BY <1>2, <3>1, <3>2
  <2>4. ASSUME NEW n \in r + 1 .. emitted'[t]
        PROVE  \/ \E i \in DOMAIN Queue : QueuedFor(i, t) /\ Number(i) = n
               \/ \E i \in DOMAIN outbound' : outbound'[i].sid = t /\ outbound'[i].n = n
    <3>1. CASE n \in r + 1 .. emitted[t]
      <4>1. \/ \E i \in DOMAIN Queue : QueuedFor(i, t) /\ Number(i) = n
            \/ \E i \in DOMAIN outbound : outbound[i].sid = t /\ outbound[i].n = n
        BY <1>10, <3>1, Zenon DEF StillToSend
      <4>2. \A i \in DOMAIN outbound : i \in DOMAIN outbound' /\ outbound'[i] = outbound[i]
        BY <1>2
      <4> QED
        BY <4>1, <4>2, Zenon
    <3>2. CASE n \notin r + 1 .. emitted[t]
      <4>1. t = s /\ n = e
        BY <1>3, <2>1, <3>2
      <4>2. l + 1 \in DOMAIN outbound'
        BY <1>2
      <4> QED
        BY <1>2, <4>1, <4>2
    <3> QED
      BY <3>1, <3>2, Zenon
  <2> QED
    BY <1>5, <1>8, <1>10, <2>2, <2>3, <2>4 DEF StillToSend
<1>11. ASSUME ~SQPOLL
       PROVE  (SendsBound /\ RepliesToOwner /\ InOrder)'
  <2>1. (SendsBound /\ RepliesToOwner)'
    BY <1>5, <1>11, BoundKept, OwnerKept, Zenon DEF BoundSame
  <2>2. ASSUME NEW c \in Conns \ (cut' \cup waited')
        PROVE  WholeReplies(c)'
    <3>1. WholeReplies(c)
      BY <1>11, Zenon DEF InOrder
    <3> QED
      BY <1>10, <3>1, WholeKept, Zenon DEF NotWritten
  <2> QED
    BY <1>11, <2>1, <2>2, Zenon DEF InOrder
<1> QED
  BY <1>4, <1>6, <1>7, <1>9, <1>11, Parts, Zenon DEF Conjuncts

\* The outbound ring without its first message, position by position.
Popped ==
  /\ outbound' \in Seq(Reply) /\ outbound[1] = Msg /\ Msg \in Reply
  /\ Len(outbound) \in Nat \ {0} /\ DOMAIN outbound = 1 .. Len(outbound)
  /\ DOMAIN outbound' = 1 .. Len(outbound) - 1
  /\ \A i \in DOMAIN outbound' : outbound'[i] = outbound[i + 1]

\* A reply is popped: the others move up.
LEMMA PoppedOut ==
  ASSUME TypeOK, outbound # <<>>, outbound' = Tail(outbound)
  PROVE  Popped
<1>1. outbound \in Seq(Reply)
  BY Zenon DEF TypeOK
<1> QED
  BY <1>1 DEF Msg, Popped

\* The reply that is popped is not sent.
LEMMA SortedDropped ==
  ASSUME TypeOK, Sorted, outbound # <<>>, outbound' = Tail(outbound), Queue' = Queue,
         UNCHANGED <<send_pool_, emitted>>
  PROVE  Sorted'
<1> DEFINE l == Len(outbound)
<1>1. /\ l \in Nat \ {0} /\ DOMAIN outbound = 1 .. l /\ DOMAIN outbound' = 1 .. l - 1
      /\ \A i \in DOMAIN outbound' : outbound'[i] = outbound[i + 1]
  BY PoppedOut, Zenon DEF Popped
<1> HIDE DEF l
<1>2. ASSUME NEW i, NEW t
      PROVE  (QueuedFor(i, t)' <=> QueuedFor(i, t)) /\ Number(i)' = Number(i)
  BY Zenon DEF QueuedFor, Number
<1>3. \A i \in DOMAIN outbound' : i + 1 \in DOMAIN outbound
  BY <1>1
<1>4. \A i, j \in DOMAIN outbound' : i < j => i + 1 < j + 1
  BY <1>1
<1> QED
  BY <1>1, <1>2, <1>3, <1>4 DEF Sorted

\* A reply is popped, and it is not for the session.
PoppedNotFor(sid) ==
  /\ outbound # <<>>
  /\ outbound' = Tail(outbound)
  /\ Queue' = Queue
  /\ UNCHANGED <<send_pool_, emitted>>
  /\ Msg.sid # sid

\* Popping a reply of another session changes nothing for a session.
LEMMA StillDropped ==
  ASSUME TypeOK, NEW sid \in Sids, NEW r \in Nat, StillToSend(sid, r), PoppedNotFor(sid)
  PROVE  StillToSend(sid, r)'
<1> USE DEF PoppedNotFor
<1> DEFINE l == Len(outbound)
<1>1. /\ l \in Nat \ {0} /\ DOMAIN outbound = 1 .. l /\ DOMAIN outbound' = 1 .. l - 1
      /\ \A i \in DOMAIN outbound' : outbound'[i] = outbound[i + 1]
      /\ outbound[1] = Msg
  BY PoppedOut, Zenon DEF Popped
<1> HIDE DEF l
<1>2. ASSUME NEW i
      PROVE  (QueuedFor(i, sid)' <=> QueuedFor(i, sid)) /\ Number(i)' = Number(i)
  BY Zenon DEF QueuedFor, Number
<1>3. \A i \in DOMAIN outbound' : i + 1 \in DOMAIN outbound
  BY <1>1
<1>4. ASSUME NEW i \in DOMAIN outbound, outbound[i].sid = sid
      PROVE  \E j \in DOMAIN outbound' : outbound'[j] = outbound[i]
  <2>1. i # 1
    BY <1>1, <1>4, Zenon
  <2>2. i - 1 \in DOMAIN outbound' /\ (i - 1) + 1 = i
    BY <1>1, <2>1
  <2> QED
    BY <1>1, <2>2, Zenon
<1>5. \A i \in DOMAIN outbound' : outbound'[i].sid = sid => outbound'[i].n > r
  BY <1>1, <1>3 DEF StillToSend
<1>6. ASSUME NEW n \in r + 1 .. emitted[sid]
      PROVE  \/ \E i \in DOMAIN Queue' : QueuedFor(i, sid)' /\ Number(i)' = n
             \/ \E i \in DOMAIN outbound' : outbound'[i].sid = sid /\ outbound'[i].n = n
  BY <1>2, <1>4 DEF StillToSend
<1> QED
  BY <1>2, <1>5, <1>6 DEF StillToSend

\* Popping a reply whose session is over keeps the invariant.
LEMMA DrainDropStep ==
  ASSUME IInv, drain_drop
  PROVE  IInv'
<1> /\ TypeOK /\ Accounts /\ MapsOK /\ ConnsOK /\ SendsOK /\ Sorted
    /\ (~SQPOLL => SendsBound /\ RepliesToOwner /\ InOrder)
  BY Parts, Zenon DEF Conjuncts
<1>1. /\ outbound # <<>> /\ outbound' = Tail(outbound) /\ sid_to_fd_[Msg.sid] = NONE
      /\ UNCHANGED <<conns_, sid_to_fd_, next_session_id_, owner, published, inflight, cq,
                     client, backlog, file, unread, asked, emitted, free_slots_, send_pool_, pc, out,
                     prepared, lag, got, cut, waited>>
  BY Zenon DEF drain_drop, Pop, maps, slots, socket, wire
<1> USE <1>1
<1>2. TypeOK'
  <2>1. outbound' \in Seq(Reply)
    BY PoppedOut, Zenon DEF Popped
  <2> QED
    BY <2>1, Zenon DEF TypeOK
<1>3. Queue' = Queue
  BY QueueSame, Zenon
<1>4. Accounts' /\ MapsOK' /\ ConnsOK' /\ SendsOK' /\ Sorted'
  BY <1>3, AccountsKept, MapsKept, ConnsKept, SendsKept, SortedDropped, Zenon DEF SendsSame
<1>5. ASSUME ~SQPOLL
      PROVE  (SendsBound /\ RepliesToOwner /\ InOrder)'
  <2>1. (SendsBound /\ RepliesToOwner)'
    BY <1>3, <1>5, BoundKept, OwnerKept, Zenon DEF BoundSame
  <2>2. ASSUME NEW sid \in Sids, sid_to_fd_[sid] # NONE, NEW r \in Nat, StillToSend(sid, r)
        PROVE  StillToSend(sid, r)'
    <3>1. Msg.sid # sid
      BY <2>2, Zenon
    <3> QED
      BY <1>3, <2>2, <3>1, StillDropped, Zenon DEF PoppedNotFor
  <2>3. ASSUME NEW c \in Conns \ (cut' \cup waited')
        PROVE  WholeReplies(c)'
    <3>1. WholeReplies(c)
      BY <1>5, Zenon DEF InOrder
    <3> QED
      BY <2>2, <3>1, WholeKept, Zenon DEF NotWritten
  <2> QED
    BY <1>5, <2>1, <2>3, Zenon DEF InOrder
<1> QED
  BY <1>2, <1>4, <1>5, Parts, Zenon DEF Conjuncts

\* Popping a reply for a blocking send keeps the invariant.
LEMMA DrainFallbackStep ==
  ASSUME FiniteSetFacts, IInv, drain_fallback
  PROVE  IInv'
<1> /\ TypeOK /\ Accounts /\ MapsOK /\ ConnsOK /\ SendsOK /\ Sorted
    /\ (~SQPOLL => SendsBound /\ RepliesToOwner /\ InOrder)
  BY Parts, Zenon DEF Conjuncts
<1>1. PICK s : s = Msg.sid
  BY Zenon
<1>2. PICK fd : fd = sid_to_fd_[s]
  BY Zenon
<1>3. /\ outbound # <<>> /\ outbound' = Tail(outbound) /\ fd # NONE
      /\ pc' = "fallback" /\ out' = [fd |-> fd, sid |-> s, n |-> Msg.n, sent |-> 0]
      /\ waited' = waited \cup {file[fd]}
      /\ UNCHANGED <<conns_, sid_to_fd_, next_session_id_, owner, published, inflight, cq,
                     client, backlog, file, unread, asked, emitted, free_slots_, send_pool_,
                     prepared, lag, got, cut>>
  BY <1>1, <1>2, Zenon DEF drain_fallback, Pop, maps, slots, socket
<1> USE <1>3
<1>4. outbound' \in Seq(Reply) /\ s \in Sids /\ Msg.n \in Nat \ {0}
  BY <1>1, PoppedOut, Zenon DEF Reply, Popped
<1>5. fd \in Fds /\ owner[s] = file[fd] /\ owner[s] \in Conns
  BY <1>2, <1>4, SessionOpen, Zenon DEF HasConn
<1>6. TypeOK'
  BY <1>4, Zenon DEF TypeOK
<1>7. Queue' = Queue
  BY QueueSame, Zenon
<1>8. SendsOK'
  <2>1. out' \in [fd : Fds, sid : Sids, n : Nat \ {0}, sent : Nat] /\ out'.sid = s /\ out'.fd = fd
    BY <1>4, <1>5, Zenon
  <2>2. sid_to_fd_'[out'.sid] = out'.fd /\ owner'[out'.sid] \in waited'
    BY <1>2, <1>5, <2>1, Zenon
  <2> QED
    BY <1>7, <2>1, <2>2, Zenon DEF SendsOK
<1>9. Accounts' /\ MapsOK' /\ ConnsOK' /\ Sorted'
  BY <1>7, AccountsKept, MapsKept, ConnsKept, SortedDropped, Zenon
<1>10. ASSUME ~SQPOLL
       PROVE  (SendsBound /\ RepliesToOwner /\ InOrder)'
  <2>1. (SendsBound /\ RepliesToOwner)'
    BY <1>7, <1>10, BoundKept, OwnerKept, Zenon DEF BoundSame
  <2>2. ASSUME NEW c \in Conns \ (cut' \cup waited')
        PROVE  WholeReplies(c)'
    <3>1. WholeReplies(c) /\ c # owner[s]
      BY <1>5, <1>10, Zenon DEF InOrder
    <3>2. ASSUME NEW sid \in Sids, owner[sid] = c, NEW r \in Nat, StillToSend(sid, r)
          PROVE  StillToSend(sid, r)'
      <4>1. Msg.sid # sid
        BY <1>1, <3>1, <3>2, Zenon
      <4> QED
        BY <1>7, <3>2, <4>1, StillDropped, Zenon DEF PoppedNotFor
    <3> QED
      BY <3>1, <3>2, WholeKept, Zenon DEF NotWritten
  <2> QED
    BY <1>10, <2>1, <2>2, Zenon DEF InOrder
<1> QED
  BY <1>6, <1>8, <1>9, <1>10, Parts, Zenon DEF Conjuncts

\* One call of the blocking send keeps the invariant.
LEMMA FallbackSendStep ==
  ASSUME FiniteSetFacts, IInv, fallback_send
  PROVE  IInv'
<1> /\ TypeOK /\ Accounts /\ MapsOK /\ ConnsOK /\ SendsOK /\ Sorted
    /\ (~SQPOLL => SendsBound /\ RepliesToOwner /\ InOrder)
  BY Parts, Zenon DEF Conjuncts
<1>1. pc = "fallback" /\ UNCHANGED <<conns_, sid_to_fd_, next_session_id_, owner,
                                     free_slots_, send_pool_, prepared, published, inflight, cq,
                                     client, backlog, file, unread, waited, outbound, asked, emitted>>
  BY Zenon DEF fallback_send, At, maps, slots, rings, socket, shard
<1> USE <1>1
<1>2. PICK o : o = out
  BY Zenon
<1>3. PICK c : c = file[o.fd]
  BY Zenon
<1>4. /\ o.fd \in Fds /\ o.sid \in Sids /\ o.n \in Nat \ {0} /\ o.sent \in Nat
      /\ o \in [fd : Fds, sid : Sids, n : Nat \ {0}, sent : Nat]
      /\ sid_to_fd_[o.sid] = o.fd /\ owner[o.sid] \in waited
  BY <1>1, <1>2, Zenon DEF SendsOK
<1>5. owner[o.sid] = c /\ c \in Conns /\ c \in waited
  BY <1>3, <1>4, UringAssumption, SessionOpen, ZenonT(40) DEF HasConn
<1>6. PICK w \in Int : w = Least(Space(c), FRAME - o.sent)
  <2>1. FRAME \in Int /\ SOCKET_BUF \in Int /\ lag[c] \in Int
    BY <1>5, UringAssumption DEF TypeOK
  <2> QED
    BY <1>4, <2>1 DEF Least, Space
<1>7. Queue' = Queue
  BY QueueSame, Zenon
<1>8. Accounts' /\ MapsOK' /\ ConnsOK' /\ Sorted'
  BY <1>7, AccountsKept, MapsKept, ConnsKept, SortedKept, Zenon
<1>9. /\ got' \in [Conns -> Seq(Sids \X Int \X Int)] /\ lag' \in [Conns -> Int]
      /\ pc' \in {"drain", "fallback"}
      /\ \A d \in Conns : d # c => got'[d] = got[d]
      /\ cut \subseteq cut'
      /\ (pc' = "fallback" => out' \in [fd : Fds, sid : Sids, n : Nat \ {0}, sent : Nat]
                              /\ out'.sid = o.sid /\ out'.fd = o.fd)
      /\ RepliesToOwner => RepliesToOwner'
  <2>1. CASE /\ w > 0 /\ Written(c, o, o.sent, w) /\ cut' = cut
             /\ IF o.sent + w = FRAME THEN pc' = "drain" /\ out' = NONE
                ELSE out' = [out EXCEPT !.sent = @ + w] /\ pc' = pc
    <3>1. w \in Nat /\ o.sent \in Int /\ o.n \in Int
      BY <1>4, <2>1
    <3>2. /\ got' \in [Conns -> Seq(Sids \X Int \X Int)] /\ lag' \in [Conns -> Int]
          /\ \A d \in Conns : d # c => got'[d] = got[d]
      BY <1>4, <1>5, <2>1, <3>1, WrittenFacts, Zenon DEF BytesWritten
    <3>3. RepliesToOwner => RepliesToOwner'
      BY <1>4, <1>5, <2>1, <3>1, WrittenToOwner, Zenon
    <3>4. pc' = "fallback" => out' \in [fd : Fds, sid : Sids, n : Nat \ {0}, sent : Nat]
                              /\ out'.sid = o.sid /\ out'.fd = o.fd
      BY <1>2, <1>4, <2>1, <3>1
    <3> QED
      BY <1>1, <2>1, <3>2, <3>3, <3>4, Zenon
  <2>2. CASE cut' = cut \cup {c} /\ pc' = "drain" /\ UNCHANGED <<lag, got>>
    <3>1. got \in [Conns -> Seq(Sids \X Int \X Int)] /\ lag \in [Conns -> Int]
      BY Zenon DEF TypeOK
    <3> QED
      BY <2>2, <3>1, OwnerKept, Zenon
  <2> QED
    BY <1>2, <1>3, <1>6, <2>1, <2>2, Zenon DEF fallback_send
<1>10. TypeOK'
  BY <1>9, Zenon DEF TypeOK
<1>11. SendsOK'
  BY <1>4, <1>7, <1>9, Zenon DEF SendsOK
<1>12. ASSUME ~SQPOLL
       PROVE  (SendsBound /\ RepliesToOwner /\ InOrder)'
  <2>1. SendsBound'
    BY <1>7, <1>9, <1>12, BoundKept, Zenon DEF BoundSame
  <2>2. InOrder'
    BY <1>4, <1>5, <1>7, <1>9, <1>12, OrderWaited, Zenon DEF WrittenAway
  <2> QED
    BY <1>9, <1>12, <2>1, <2>2, Zenon
<1> QED
  BY <1>8, <1>10, <1>11, <1>12, Parts, Zenon DEF Conjuncts

\* The slot t is in no send that is queued or in flight.
InNoSend(t) ==
  /\ \A i \in DOMAIN Queue : Queue[i].op = "SEND" => Queue[i].slot # t
  /\ \A op \in inflight : op.sqe.op = "SEND" => op.sqe.slot # t

\* A free slot is in no send on its way.
LEMMA SlotFree ==
  ASSUME FiniteSetFacts, TypeOK, Accounts, NEW k \in DOMAIN free_slots_, NEW t \in Slots, free_slots_[k] = t
  PROVE  InNoSend(t)
<1>1. free_slots_ \in Seq(Slots) /\ Queue \in Seq(Sqe) /\ inflight \subseteq [sqe : Sqe, conn : Conns \cup {NONE}]
  BY PlacesType, Zenon DEF TypeOK, PlacesCounted
<1>2. Count(free_slots_, {t}) \in Nat /\ Count(free_slots_, {t}) >= 1
  BY <1>1, CountType, Zenon DEF Counted
<1>3. Count(free_slots_, {t}) + OnTheirWay(SendsOf(t)) = 1
  BY Zenon DEF Accounts, SlotInOnePlace
<1>4. /\ Count(Queue, SendsOf(t)) \in Nat /\ InFlight(SendsOf(t)) \in Nat /\ Count(cq, SendsOf(t)) \in Nat
      /\ OnTheirWay(SendsOf(t)) = Count(Queue, SendsOf(t)) + InFlight(SendsOf(t)) + Count(cq, SendsOf(t))
  BY PlacesType, Zenon DEF PlacesCounted
<1>5. Count(Queue, SendsOf(t)) = 0 /\ InFlight(SendsOf(t)) = 0
  BY <1>2, <1>3, <1>4
<1>6. ASSUME NEW i \in DOMAIN Queue, Queue[i].op = "SEND"
      PROVE  Queue[i].slot # t
  <2>1. Queue[i] \in Sqe /\ Queue[i] \notin SendsOf(t)
    BY <1>5, QueueEntries, NoneOnTheirWay, Zenon
  <2> QED
    BY <1>6, <2>1, Kinds, Zenon DEF KindsApart
<1>7. ASSUME NEW op \in inflight, op.sqe.op = "SEND"
      PROVE  op.sqe.slot # t
  <2>1. op.sqe \in Sqe /\ op.sqe \notin SendsOf(t)
    BY <1>1, <1>5, NoneOnTheirWay, Zenon
  <2> QED
    BY <1>7, <2>1, Kinds, Zenon DEF KindsApart
<1> QED
  BY <1>6, <1>7, Zenon DEF InNoSend

\* A send of m with slot t is the (n + 1)-st of the queue, and the others are as
\* they were.
Grown(n, fd, t, m) ==
  /\ n \in Nat /\ DOMAIN Queue = 1 .. n /\ DOMAIN Queue' = 1 .. n + 1
  /\ Queue'[n + 1] = Send(fd, t) /\ send_pool_'[t] = m
  /\ \A i \in DOMAIN Queue : /\ Queue'[i] = Queue[i]
                             /\ Queue[i].op = "SEND" =>
                                  send_pool_'[Queue[i].slot] = send_pool_[Queue[i].slot]
  /\ \A op \in inflight : op.sqe.op = "SEND" =>
       send_pool_'[op.sqe.slot] = send_pool_[op.sqe.slot]
  /\ \A i \in DOMAIN Queue : \A sid \in Sids :
       (QueuedFor(i, sid)' <=> QueuedFor(i, sid)) /\ (QueuedFor(i, sid) => Number(i)' = Number(i))
  /\ \A sid \in Sids : QueuedFor(n + 1, sid)' <=> sid = m.sid
  /\ Number(n + 1)' = m.n

\* A send of m with the free slot t is prepared.
SendPrepared(k, t, fd, m, n) ==
  /\ free_slots_[k] = t
  /\ n = Len(Queue)
  /\ Queue' = Append(Queue, Send(fd, t))
  /\ send_pool_' = [send_pool_ EXCEPT ![t] = m]

\* A send with a free slot is prepared.
LEMMA QueueGrows ==
  ASSUME FiniteSetFacts, TypeOK, Accounts, NEW k \in DOMAIN free_slots_, NEW t \in Slots,
         NEW fd \in Fds, NEW m \in Reply, NEW n, SendPrepared(k, t, fd, m, n)
  PROVE  Grown(n, fd, t, m)
<1> USE DEF SendPrepared
<1>1. Queue \in Seq(Sqe) /\ DOMAIN send_pool_ = Slots
      /\ inflight \subseteq [sqe : Sqe, conn : Conns \cup {NONE}]
  BY PlacesType, Zenon DEF TypeOK, PlacesCounted
<1>2. PICK x : x = Send(fd, t)
  BY Zenon
<1>4. /\ n \in Nat /\ DOMAIN Queue = 1 .. n /\ DOMAIN Queue' = 1 .. n + 1
      /\ Queue'[n + 1] = x /\ \A i \in DOMAIN Queue : Queue'[i] = Queue[i]
  BY <1>1, <1>2
<1>5. x.op = "SEND" /\ x.slot = t
  BY <1>2, Zenon DEF Send
<1>6. send_pool_'[t] = m /\ \A s \in Slots : s # t => send_pool_'[s] = send_pool_[s]
  BY <1>1, Zenon
<1>7. ASSUME NEW i \in DOMAIN Queue, Queue[i].op = "SEND"
      PROVE  send_pool_'[Queue[i].slot] = send_pool_[Queue[i].slot]
  <2>1. Queue[i] \in Sqe
    BY <1>1
  <2>2. Queue[i].slot \in Slots /\ Queue[i].slot # t
    BY <1>7, <2>1, Kinds, SlotFree DEF Accept, KindsApart, InNoSend
  <2> QED
    BY <1>6, <2>2, Zenon
<1>8. ASSUME NEW op \in inflight, op.sqe.op = "SEND"
      PROVE  send_pool_'[op.sqe.slot] = send_pool_[op.sqe.slot]
  <2>1. op.sqe \in Sqe
    BY <1>1, Zenon
  <2>2. op.sqe.slot \in Slots /\ op.sqe.slot # t
    BY <1>8, <2>1, Kinds, SlotFree DEF Accept, KindsApart, InNoSend
  <2> QED
    BY <1>6, <2>2, Zenon
<1>9. ASSUME NEW i \in DOMAIN Queue, NEW sid \in Sids
      PROVE  (QueuedFor(i, sid)' <=> QueuedFor(i, sid)) /\ (QueuedFor(i, sid) => Number(i)' = Number(i))
  BY <1>4, <1>7, Zenon DEF QueuedFor, Number
<1>10. (\A sid \in Sids : QueuedFor(n + 1, sid)' <=> sid = m.sid) /\ Number(n + 1)' = m.n
  BY <1>4, <1>5, <1>6, Zenon DEF QueuedFor, Number
<1> QED
  BY <1>2, <1>4, <1>6, <1>7, <1>8, <1>9, <1>10, Zenon DEF Grown

\* The next reply m is popped and becomes a send with the free slot t.
PoppedInto(k, t, fd, m) ==
  /\ free_slots_[k] = t
  /\ m = Msg
  /\ emitted' = emitted
  /\ Queue' = Append(Queue, Send(fd, t))
  /\ send_pool_' = [send_pool_ EXCEPT ![t] = m]
  /\ outbound # <<>>
  /\ outbound' = Tail(outbound)

\* The reply that is popped becomes the last of the queue.
LEMMA SortedMoved ==
  ASSUME FiniteSetFacts, TypeOK, Accounts, NEW k \in DOMAIN free_slots_, NEW t \in Slots,
         NEW fd \in Fds, NEW m, NEW sid \in Sids, PoppedInto(k, t, fd, m)
  PROVE  /\ Sorted => Sorted'
         /\ \A r \in Nat : StillToSend(sid, r) => StillToSend(sid, r)'
<1> USE DEF PoppedInto
<1>1. PICK n : n = Len(Queue)
  BY Zenon
<1>2. PICK l : l = Len(outbound)
  BY Zenon
<1>3. /\ l \in Nat \ {0} /\ DOMAIN outbound = 1 .. l /\ DOMAIN outbound' = 1 .. l - 1
      /\ \A i \in DOMAIN outbound' : outbound'[i] = outbound[i + 1]
      /\ outbound[1] = m /\ m \in Reply
  BY <1>2, PoppedOut, Zenon DEF Popped
<1>4. /\ n \in Nat /\ DOMAIN Queue = 1 .. n /\ DOMAIN Queue' = 1 .. n + 1
      /\ \A i \in DOMAIN Queue : \A s \in Sids :
           (QueuedFor(i, s)' <=> QueuedFor(i, s)) /\ (QueuedFor(i, s) => Number(i)' = Number(i))
      /\ \A s \in Sids : QueuedFor(n + 1, s)' <=> s = m.sid
      /\ Number(n + 1)' = m.n
  <2>1. Grown(n, fd, t, m)
    BY <1>1, <1>3, QueueGrows, Zenon DEF SendPrepared
  <2> QED
    BY <2>1, Zenon DEF Grown
<1>5. /\ \A i \in DOMAIN outbound' : i + 1 \in DOMAIN outbound /\ 1 < i + 1
      /\ 1 \in DOMAIN outbound
      /\ \A i \in DOMAIN Queue' : i \in DOMAIN Queue \/ i = n + 1
      /\ \A i \in DOMAIN Queue' : ~(n + 1 < i)
      /\ DOMAIN Queue \subseteq DOMAIN Queue' /\ n + 1 \in DOMAIN Queue'
  BY <1>3, <1>4
<1>6. ASSUME Sorted, NEW s \in Sids
      PROVE  /\ \A i, j \in DOMAIN Queue' :
                  i < j /\ QueuedFor(i, s)' /\ QueuedFor(j, s)' => Number(i)' < Number(j)'
             /\ \A i \in DOMAIN Queue', j \in DOMAIN outbound' :
                  QueuedFor(i, s)' /\ outbound'[j].sid = s => Number(i)' < outbound'[j].n
             /\ \A i, j \in DOMAIN outbound' :
                  i < j /\ outbound'[i].sid = s /\ outbound'[j].sid = s => outbound'[i].n < outbound'[j].n
             /\ \A i \in DOMAIN Queue' : QueuedFor(i, s)' => Number(i)' <= emitted[s]
             /\ \A i \in DOMAIN outbound' : outbound'[i].sid = s => outbound'[i].n <= emitted[s]
  <2>1. ASSUME NEW i \in DOMAIN Queue', NEW j \in DOMAIN Queue', i < j, QueuedFor(i, s)', QueuedFor(j, s)'
        PROVE  Number(i)' < Number(j)'
    <3>1. i \in DOMAIN Queue
      BY <1>4, <1>5, <2>1, Zenon
    <3>2. CASE j \in DOMAIN Queue
      BY <1>4, <1>6, <2>1, <3>1, <3>2, Zenon DEF Sorted
    <3>3. CASE j = n + 1
      <4>1. s = m.sid /\ Number(j)' = m.n
        BY <1>4, <2>1, <3>3, Zenon
      <4>2. QueuedFor(i, s) /\ Number(i)' = Number(i)
        BY <1>4, <2>1, <3>1, Zenon
      <4>3. Number(i) < outbound[1].n
        BY <1>3, <1>5, <1>6, <3>1, <4>1, <4>2, ZenonT(40) DEF Sorted
      <4> QED
        BY <1>3, <4>1, <4>2, <4>3, Zenon
    <3> QED
      BY <1>5, <3>2, <3>3, Zenon
  <2>2. ASSUME NEW i \in DOMAIN Queue', NEW j \in DOMAIN outbound', QueuedFor(i, s)', outbound'[j].sid = s
        PROVE  Number(i)' < outbound'[j].n
    <3>1. CASE i \in DOMAIN Queue
      BY <1>3, <1>4, <1>5, <1>6, <2>2, <3>1 DEF Sorted
    <3>2. CASE i = n + 1
      <4>1. outbound[1].n < outbound[j + 1].n
        BY <1>3, <1>4, <1>5, <1>6, <2>2, <3>2, ZenonT(40) DEF Sorted
      <4> QED
        BY <1>3, <1>4, <3>2, <4>1, Zenon
    <3> QED
      BY <1>5, <3>1, <3>2, Zenon
  <2>3. ASSUME NEW i \in DOMAIN outbound', NEW j \in DOMAIN outbound', i < j,
               outbound'[i].sid = s, outbound'[j].sid = s
        PROVE  outbound'[i].n < outbound'[j].n
    <3>1. i + 1 < j + 1
      BY <1>3, <2>3
    <3> QED
      BY <1>3, <1>5, <1>6, <2>3, <3>1, ZenonT(40) DEF Sorted
  <2>4. ASSUME NEW i \in DOMAIN Queue', QueuedFor(i, s)'
        PROVE  Number(i)' <= emitted[s]
    BY <1>3, <1>4, <1>5, <1>6, <2>4, SMTT(30) DEF Sorted
  <2>5. \A i \in DOMAIN outbound' : outbound'[i].sid = s => outbound'[i].n <= emitted[s]
    BY <1>3, <1>5, <1>6, Zenon DEF Sorted
  <2> QED
    BY <2>1, <2>2, <2>3, <2>4, <2>5, Zenon
<1>7. ASSUME NEW r \in Nat, StillToSend(sid, r)
      PROVE  StillToSend(sid, r)'
  <2>1. ASSUME NEW i \in DOMAIN Queue', QueuedFor(i, sid)'
        PROVE  Number(i)' > r
    BY <1>3, <1>4, <1>5, <1>7, <2>1, SMTT(30) DEF StillToSend
  <2>2. \A i \in DOMAIN outbound' : outbound'[i].sid = sid => outbound'[i].n > r
    BY <1>3, <1>5, <1>7 DEF StillToSend
  <2>3. ASSUME NEW i \in DOMAIN outbound, outbound[i].sid = sid
        PROVE  \/ QueuedFor(n + 1, sid)' /\ Number(n + 1)' = outbound[i].n
               \/ \E j \in DOMAIN outbound' : outbound'[j] = outbound[i]
    <3>1. CASE i = 1
      BY <1>3, <1>4, <2>3, <3>1, Zenon
    <3>2. CASE i # 1
      <4>1. i - 1 \in DOMAIN outbound' /\ (i - 1) + 1 = i
        BY <1>3, <3>2
      <4> QED
        BY <1>3, <4>1, Zenon
    <3> QED
      BY <3>1, <3>2, Zenon
  <2>4. ASSUME NEW q \in r + 1 .. emitted[sid]
        PROVE  \/ \E i \in DOMAIN Queue' : QueuedFor(i, sid)' /\ Number(i)' = q
               \/ \E i \in DOMAIN outbound' : outbound'[i].sid = sid /\ outbound'[i].n = q
    <3>1. CASE \E i \in DOMAIN Queue : QueuedFor(i, sid) /\ Number(i) = q
      BY <1>4, <1>5, <3>1, Zenon
    <3>2. CASE \E i \in DOMAIN outbound : outbound[i].sid = sid /\ outbound[i].n = q
      <4>1. PICK i \in DOMAIN outbound : outbound[i].sid = sid /\ outbound[i].n = q
        BY <3>2, Zenon
      <4>2. CASE QueuedFor(n + 1, sid)' /\ Number(n + 1)' = outbound[i].n
        BY <1>5, <4>1, <4>2, Zenon
      <4>3. CASE \E j \in DOMAIN outbound' : outbound'[j] = outbound[i]
        BY <4>1, <4>3, Zenon
      <4> QED
        BY <2>3, <4>1, <4>2, <4>3, Zenon
    <3> QED
      BY <1>7, <3>1, <3>2, Zenon DEF StillToSend
  <2> QED
    BY <1>7, <2>1, <2>2, <2>4, ZenonT(40) DEF StillToSend
<1> QED
  BY <1>6, <1>7, Zenon DEF Sorted

\* Popping a reply into a send slot keeps the invariant.
LEMMA DrainSendStep ==
  ASSUME FiniteSetFacts, IInv, drain_send
  PROVE  IInv'
<1> /\ TypeOK /\ Accounts /\ MapsOK /\ ConnsOK /\ SendsOK /\ Sorted
    /\ (~SQPOLL => SendsBound /\ RepliesToOwner /\ InOrder)
  BY Parts, Zenon DEF Conjuncts
<1>1. PICK m : m = Msg
  BY Zenon
<1>2. PICK fd : fd = sid_to_fd_[m.sid]
  BY Zenon
<1>3. PICK t : t = free_slots_[Len(free_slots_)]
  BY Zenon
<1>4. /\ outbound # <<>> /\ outbound' = Tail(outbound) /\ fd # NONE /\ free_slots_ # <<>>
      /\ free_slots_' = SubSeq(free_slots_, 1, Len(free_slots_) - 1)
      /\ send_pool_' = [send_pool_ EXCEPT ![t] = m]
      /\ prepared' = Append(prepared, Send(fd, t)) /\ pc = "drain"
      /\ UNCHANGED <<conns_, sid_to_fd_, next_session_id_, owner, published, inflight, cq,
                     client, backlog, file, unread, asked, emitted, pc, out, lag, got, cut, waited>>
  BY <1>1, <1>2, <1>3, Zenon DEF drain_send, Pop, At, maps, socket, wire
<1> USE <1>4
<1>5. outbound' \in Seq(Reply) /\ m \in Reply /\ m.sid \in Sids /\ m.n \in Nat \ {0}
  BY <1>1, PoppedOut, Zenon DEF Reply, Popped
<1>6. fd \in Fds /\ owner[m.sid] = file[fd] /\ owner[m.sid] \in Conns
  BY <1>2, <1>5, SessionOpen, Zenon DEF HasConn
<1>7. PICK k \in DOMAIN free_slots_ : free_slots_[k] = t /\ t \in Slots
  <2>1. free_slots_ \in Seq(Slots)
    BY Zenon DEF TypeOK
  <2>2. Len(free_slots_) \in DOMAIN free_slots_ /\ t \in Slots
    BY <1>3, <2>1
  <2> QED
    BY <1>3, <2>2, Zenon
<1>8. Send(fd, t) \in Sqe
  BY <1>6, <1>7, Zenon DEF Sqe, Send
<1>9. Queue' = Append(Queue, Send(fd, t))
  BY QueueAppend, Zenon
<1>10. Accounts' /\ free_slots_' \in Seq(Slots)
  BY <1>3, <1>6, <1>9, AccountsTaken, Zenon DEF SlotTaken
<1>11. TypeOK'
  <2>1. prepared' \in Seq(Sqe) /\ DOMAIN send_pool_' = Slots
    BY <1>8 DEF TypeOK
  <2> QED
    BY <1>5, <1>10, <2>1, ZenonT(40) DEF TypeOK
<1>12. MapsOK' /\ ConnsOK'
  BY MapsKept, ConnsKept, Zenon
<1>13. PICK n : n = Len(Queue)
  BY Zenon
<1>14. /\ n \in Nat /\ DOMAIN Queue = 1 .. n /\ DOMAIN Queue' = 1 .. n + 1
       /\ Queue'[n + 1] = Send(fd, t) /\ send_pool_'[t] = m
       /\ \A i \in DOMAIN Queue : /\ Queue'[i] = Queue[i]
                                  /\ Queue[i].op = "SEND" =>
                                       send_pool_'[Queue[i].slot] = send_pool_[Queue[i].slot]
       /\ \A op \in inflight : op.sqe.op = "SEND" =>
            send_pool_'[op.sqe.slot] = send_pool_[op.sqe.slot]
  <2>1. Grown(n, fd, t, m)
    BY <1>5, <1>6, <1>7, <1>9, <1>13, QueueGrows, Zenon DEF SendPrepared
  <2> QED
    BY <2>1, Zenon DEF Grown
<1>15. \A i \in DOMAIN Queue' : i \in DOMAIN Queue \/ i = n + 1
  BY <1>14, OneFurther, Zenon
<1>16. /\ Send(fd, t).slot = t /\ Send(fd, t).fd = fd
  BY Zenon DEF Send
<1>17. SendsOK'
  <2>1. ASSUME NEW i \in DOMAIN Queue', Queue'[i].op = "SEND"
        PROVE  send_pool_'[Queue'[i].slot] \in Reply
    <3>1. CASE i \in DOMAIN Queue
      <4>1. Queue[i].op = "SEND" /\ send_pool_'[Queue'[i].slot] = send_pool_[Queue[i].slot]
        BY <1>14, <2>1, <3>1, Zenon
      <4> QED
        BY <3>1, <4>1, Zenon DEF SendsOK
    <3>2. CASE i = n + 1
      BY <1>5, <1>14, <1>16, <3>2, ZenonT(40)
    <3> QED
      BY <1>15, <3>1, <3>2, Zenon
  <2>2. \A op \in inflight : op.sqe.op = "SEND" => send_pool_'[op.sqe.slot] \in Reply /\ op.conn \in waited
    BY <1>14, Zenon DEF SendsOK
  <2> QED
    BY <2>1, <2>2, Zenon DEF SendsOK
<1>18. Sorted' /\ \A sid \in Sids : \A r \in Nat : StillToSend(sid, r) => StillToSend(sid, r)'
  <2>1. ASSUME NEW sid \in Sids
        PROVE  Sorted' /\ \A r \in Nat : StillToSend(sid, r) => StillToSend(sid, r)'
    BY <1>1, <1>6, <1>7, <1>9, SortedMoved, Zenon DEF PoppedInto
  <2> QED
    BY <1>5, <2>1, Zenon
<1>19. ASSUME ~SQPOLL
       PROVE  (SendsBound /\ RepliesToOwner /\ InOrder)'
  <2>1. SendsBound'
    <3>1. \A i \in DOMAIN Queue' : Queue'[i].op = "SEND" =>
            sid_to_fd_[send_pool_'[Queue'[i].slot].sid] = Queue'[i].fd
      <4>1. ASSUME NEW i \in DOMAIN Queue', Queue'[i].op = "SEND"
            PROVE  sid_to_fd_[send_pool_'[Queue'[i].slot].sid] = Queue'[i].fd
        <5>1. CASE i \in DOMAIN Queue
          <6>1. /\ Queue[i].op = "SEND" /\ Queue'[i].fd = Queue[i].fd
                /\ send_pool_'[Queue'[i].slot] = send_pool_[Queue[i].slot]
            BY <1>14, <4>1, <5>1, Zenon
          <6> QED
            BY <1>19, <5>1, <6>1, ZenonT(40) DEF SendsBound
        <5>2. CASE i = n + 1
          BY <1>2, <1>14, <1>16, <5>2, ZenonT(40)
        <5> QED
          BY <1>15, <4>1, <5>1, <5>2, Zenon
      <4> QED
        BY <4>1, Zenon
    <3>2. \A op \in inflight : op.sqe.op = "SEND" => owner[send_pool_'[op.sqe.slot].sid] = op.conn
      BY <1>14, <1>19, Zenon DEF SendsBound
    <3> QED
      BY <3>1, <3>2, ZenonT(40) DEF SendsBound
  <2>2. RepliesToOwner'
    BY <1>19, OwnerKept, Zenon
  <2>3. ASSUME NEW c \in Conns \ (cut' \cup waited')
        PROVE  WholeReplies(c)'
    <3>1. WholeReplies(c)
      BY <1>19, Zenon DEF InOrder
    <3> QED
      BY <1>18, <3>1, WholeKept, Zenon DEF NotWritten
  <2> QED
    BY <1>19, <2>1, <2>2, <2>3, Zenon DEF InOrder
<1> QED
  BY <1>10, <1>11, <1>12, <1>17, <1>18, <1>19, Parts, ZenonT(40) DEF Conjuncts

-----------------------------------------------------------------------------
(* Handling completions                                                     *)

\* Handling a send completion keeps the invariant.
LEMMA OnSendStep ==
  ASSUME FiniteSetFacts, IInv, on_send
  PROVE  IInv'
<1> /\ TypeOK /\ Accounts /\ MapsOK /\ ConnsOK /\ SendsOK /\ Sorted
    /\ (~SQPOLL => SendsBound /\ RepliesToOwner /\ InOrder)
  BY Parts, Zenon DEF Conjuncts
<1>1. /\ cq # <<>> /\ Head(cq).op = "SEND" /\ cq' = Tail(cq)
      /\ free_slots_' = Append(free_slots_, Head(cq).slot)
      /\ UNCHANGED <<pc, out, published, inflight, client, backlog, unread, lag, got, cut, waited,
                     outbound, emitted, conns_, sid_to_fd_, next_session_id_, owner,
                     send_pool_, file, prepared, asked>>
  BY Zenon DEF on_send, Cqe, maps, wire
<1> USE <1>1
<1>2. Queue' = Queue
  BY QueueSame, Zenon
<1>3. Accounts' /\ free_slots_' \in Seq(Slots) /\ cq' \in Seq(Completion)
  BY <1>2, AccountsGivenBack, Handled, Zenon DEF HeadHandled, SendHandled
<1>4. TypeOK'
  BY <1>3, Zenon DEF TypeOK
<1>5. MapsOK' /\ ConnsOK' /\ SendsOK' /\ Sorted'
  BY <1>2, MapsKept, ConnsKept, SendsKept, SortedKept, Zenon DEF SendsSame
<1>6. ~SQPOLL => (SendsBound /\ RepliesToOwner /\ InOrder)'
  BY <1>2, BoundKept, OwnerKept, OrderKept, Zenon DEF BoundSame
<1> QED
  BY <1>3, <1>4, <1>5, <1>6, Parts, Zenon DEF Conjuncts

\* Only receives and accepts are added to the queue.
OnlyArmed ==
  /\ DOMAIN Queue \subseteq DOMAIN Queue'
  /\ \A i \in DOMAIN Queue' : IF i \in DOMAIN Queue THEN Queue'[i] = Queue[i] ELSE Queue'[i].op # "SEND"

\* Entries that are no sends, put at the end of the queue, leave its sends alone.
LEMMA QueueArmed ==
  ASSUME FiniteSetFacts, TypeOK, NEW s \in Seq(Sqe), \A j \in 1 .. Len(s) : s[j].op # "SEND",
         published' = published, prepared' = prepared \o s
  PROVE  OnlyArmed /\ prepared' \in Seq(Sqe)
<1>1. published \in Seq(Sqe) /\ prepared \in Seq(Sqe) /\ Queue \in Seq(Sqe)
  BY PlacesType, Zenon DEF TypeOK, PlacesCounted
<1>2. Queue' = Queue \o s
  BY <1>1, SMTT(30) DEF Queue
<1>3. prepared' \in Seq(Sqe)
  BY <1>1, SeqJoin, Zenon DEF Joined
<1>4. PICK n : n = Len(Queue)
  BY Zenon
<1>5. /\ n \in Nat /\ Len(s) \in Nat /\ DOMAIN Queue = 1 .. n /\ DOMAIN (Queue \o s) = 1 .. n + Len(s)
      /\ \A i \in 1 .. n + Len(s) : (Queue \o s)[i] = IF i <= n THEN Queue[i] ELSE s[i - n]
  BY <1>1, <1>4, SeqJoin DEF Joined
<1>6. DOMAIN Queue \subseteq DOMAIN Queue'
  BY <1>2, <1>5
<1>7. ASSUME NEW i \in DOMAIN Queue'
      PROVE  IF i \in DOMAIN Queue THEN Queue'[i] = Queue[i] ELSE Queue'[i].op # "SEND"
  <2>1. CASE i <= n
    BY <1>2, <1>5, <1>7, <2>1
  <2>2. CASE ~(i <= n)
    <3>1. i - n \in 1 .. Len(s) /\ Queue'[i] = s[i - n] /\ i \notin DOMAIN Queue
      BY <1>2, <1>5, <1>7, <2>2
    <3> QED
      BY <3>1, Zenon
  <2> QED
    BY <2>1, <2>2, Zenon
<1> QED
  BY <1>3, <1>6, <1>7, Zenon DEF OnlyArmed

\* Then what is sorted or still to be sent remains so.
LEMMA SortedArmed ==
  ASSUME OnlyArmed, UNCHANGED <<send_pool_, outbound, emitted>>
  PROVE  /\ Sorted => Sorted'
         /\ \A sid \in Sids : \A r \in Nat : StillToSend(sid, r) => StillToSend(sid, r)'
<1>1. /\ DOMAIN Queue \subseteq DOMAIN Queue'
      /\ \A i \in DOMAIN Queue' : \A sid : QueuedFor(i, sid)' <=> i \in DOMAIN Queue /\ QueuedFor(i, sid)
      /\ \A i \in DOMAIN Queue : Number(i)' = Number(i)
  BY Zenon DEF OnlyArmed, QueuedFor, Number
<1>2. ASSUME NEW sid \in Sids, NEW r \in Nat, StillToSend(sid, r)
      PROVE  StillToSend(sid, r)'
  <2>1. \A i \in DOMAIN Queue' : QueuedFor(i, sid)' => Number(i)' > r
    BY <1>1, <1>2, Zenon DEF StillToSend
  <2>2. ASSUME NEW n \in r + 1 .. emitted[sid]
        PROVE  \/ \E i \in DOMAIN Queue' : QueuedFor(i, sid)' /\ Number(i)' = n
               \/ \E i \in DOMAIN outbound : outbound[i].sid = sid /\ outbound[i].n = n
    BY <1>1, <1>2, Zenon DEF StillToSend
  <2> QED
    BY <1>2, <2>1, <2>2, Zenon DEF StillToSend
<1>3. Sorted => Sorted'
  BY <1>1, Zenon DEF Sorted
<1> QED
  BY <1>2, <1>3, Zenon

\* Then the sends still hold replies.
LEMMA SendsArmed ==
  ASSUME SendsOK, OnlyArmed, UNCHANGED <<send_pool_, inflight, waited>>, pc' # "fallback"
  PROVE  SendsOK'
<1>1. \A i \in DOMAIN Queue' : Queue'[i].op = "SEND" => send_pool_[Queue'[i].slot] \in Reply
  BY Zenon DEF SendsOK, OnlyArmed
<1> QED
  BY <1>1, Zenon DEF SendsOK

\* At most receives and accepts are prepared, while completions are handled.
ArmedOnly ==
  /\ At("reap")
  /\ OnlyArmed
  /\ UNCHANGED <<send_pool_, inflight, published>>
  /\ \A sid \in Sids : owner[sid] # NONE => owner'[sid] = owner[sid]

\* Without SQPOLL the sends of this poll_once are issued before a completion is
\* handled.
LEMMA BoundArmed ==
  ASSUME TypeOK, ~SQPOLL, SendsBound, TypeOK', SendsOK, ArmedOnly
  PROVE  SendsBound'
<1> USE DEF ArmedOnly
<1>1. published = <<>> /\ pc = "reap"
  BY Zenon DEF At, Running
<1>2. Queue = prepared /\ Queue' = prepared'
  BY <1>1 DEF Queue, TypeOK
<1>3. \A i \in DOMAIN Queue' : Queue'[i].op # "SEND"
  BY <1>1, <1>2, ZenonT(40) DEF SendsBound, OnlyArmed
<1>4. ASSUME NEW op \in inflight, op.sqe.op = "SEND"
      PROVE  owner'[send_pool_[op.sqe.slot].sid] = op.conn
  <2>1. send_pool_[op.sqe.slot].sid \in Sids /\ op.conn \in Conns
    BY <1>4, Zenon DEF SendsOK, Reply
  <2>2. owner[send_pool_[op.sqe.slot].sid] = op.conn /\ op.conn # NONE
    BY <1>4, <2>1, UringAssumption, Zenon DEF SendsBound
  <2> QED
    BY <2>1, <2>2, Zenon
<1> QED
  BY <1>2, <1>3, <1>4, Zenon DEF SendsBound

\* close_conn with nothing else of the clients and the shards changed.
Closing(fd) ==
  /\ conns_[fd] # NONE
  /\ close_conn(fd)
  /\ asked' = asked \/ asked' = asked \cup {conns_[fd]}
  /\ UNCHANGED <<emitted, client, backlog>>

\* The invariants of the maps hold, and no session gains a descriptor.
Closed ==
  /\ MapsOK' /\ ConnsOK'
  /\ conns_' \in [Fds -> Sids \cup {NONE}] /\ sid_to_fd_' \in [Sids -> Fds \cup {NONE}]
  /\ file' \in [Fds -> Conns \cup {NONE}] /\ asked' \subseteq Sids
  /\ \A sid \in Sids : sid_to_fd_'[sid] # NONE => sid_to_fd_[sid] # NONE

\* close_conn leaves the maps consistent and the session without descriptor.
LEMMA MapsClosed ==
  ASSUME TypeOK, MapsOK, ConnsOK, NEW fd \in Fds, Closing(fd)
  PROVE  Closed
<1> USE DEF Closing
<1>1. PICK s : s = conns_[fd]
  BY Zenon
<1>2. /\ conns_ \in [Fds -> Sids \cup {NONE}] /\ sid_to_fd_ \in [Sids -> Fds \cup {NONE}]
      /\ file \in [Fds -> Conns \cup {NONE}] /\ s \in Sids
  BY <1>1, Zenon DEF TypeOK
<1>3. /\ sid_to_fd_' = [sid_to_fd_ EXCEPT ![s] = NONE] /\ file' = [file EXCEPT ![fd] = NONE]
      /\ conns_' = [conns_ EXCEPT ![fd] = NONE] /\ UNCHANGED <<next_session_id_, owner>>
  BY <1>1, Zenon DEF close_conn
<1>4. /\ conns_' \in [Fds -> Sids \cup {NONE}] /\ sid_to_fd_' \in [Sids -> Fds \cup {NONE}]
      /\ file' \in [Fds -> Conns \cup {NONE}]
  BY <1>2, <1>3, Zenon
<1>5. /\ \A g \in Fds : /\ conns_'[g] = IF g = fd THEN NONE ELSE conns_[g]
                        /\ file'[g] = IF g = fd THEN NONE ELSE file[g]
      /\ \A sid \in Sids : sid_to_fd_'[sid] = IF sid = s THEN NONE ELSE sid_to_fd_[sid]
  BY <1>2, <1>3, Zenon
<1>a. asked \subseteq Sids /\ asked \subseteq asked' /\ \A sid \in asked' : sid \in asked \/ sid = s
  BY <1>1, Zenon DEF TypeOK
<1>6. MapsOK'
  <2>1. ASSUME NEW g \in Fds, conns_'[g] # NONE
        PROVE  conns_'[g] < next_session_id_ /\ sid_to_fd_'[conns_'[g]] = g
    <3>1. g # fd /\ conns_'[g] = conns_[g] /\ conns_[g] \in Sids
      BY <1>2, <1>5, <2>1, Zenon
    <3>2. conns_[g] < next_session_id_ /\ sid_to_fd_[conns_[g]] = g /\ sid_to_fd_[s] = fd
      BY <1>1, <1>2, <2>1, <3>1, ZenonT(40) DEF MapsOK
    <3> QED
      BY <1>5, <3>1, <3>2, Zenon
  <2>2. ASSUME NEW sid \in Sids, sid_to_fd_'[sid] # NONE
        PROVE  conns_'[sid_to_fd_'[sid]] = sid /\ owner[sid] = file'[sid_to_fd_'[sid]]
    <3>1. sid # s /\ sid_to_fd_'[sid] = sid_to_fd_[sid] /\ sid_to_fd_[sid] \in Fds
      BY <1>2, <1>5, <2>2, Zenon
    <3>2. conns_[sid_to_fd_[sid]] = sid /\ owner[sid] = file[sid_to_fd_[sid]]
      BY <2>2, <3>1, Zenon DEF MapsOK
    <3>3. sid_to_fd_[sid] # fd
      BY <1>1, <3>1, <3>2, Zenon
    <3> QED
      BY <1>5, <3>1, <3>2, <3>3, Zenon
  <2>3. \A sid \in asked' : sid < next_session_id_
    BY <1>1, <1>2, <1>a, Zenon DEF MapsOK
  <2>4. \A sid \in Sids : emitted[sid] > 0 => sid \in asked'
    BY <1>a, Zenon DEF MapsOK
  <2> QED
    BY <1>3, <2>1, <2>2, <2>3, <2>4 DEF MapsOK
<1>7. ConnsOK'
  <2>1. \A f, g \in Fds : file'[f] # NONE /\ file'[f] = file'[g] => f = g
    BY <1>5 DEF ConnsOK
  <2>2. ASSUME NEW c \in Conns, client[c] = "idle" \/ c \in backlog
        PROVE  (\A g \in Fds : file'[g] # c) /\ (\A sid \in Sids : owner[sid] # c)
    <3>1. NONE # c
      BY UringAssumption, Zenon
    <3> QED
      BY <1>5, <2>2, <3>1 DEF ConnsOK
  <2>3. \A g \in Fds : file'[g] # NONE /\ conns_'[g] = NONE => \A sid \in Sids : owner[sid] # file'[g]
    BY <1>5, ZenonT(40) DEF ConnsOK
  <2> QED
    BY <1>3, <2>1, <2>2, <2>3, ZenonT(40) DEF ConnsOK
<1> QED
  BY <1>2, <1>4, <1>5, <1>a, <1>6, <1>7, Zenon DEF Closed

\* Handling a receive completion, with or without close_conn, keeps the invariant.
LEMMA OnRecvStep ==
  ASSUME FiniteSetFacts, IInv, on_recv
  PROVE  IInv'
<1> /\ TypeOK /\ Accounts /\ MapsOK /\ ConnsOK /\ SendsOK /\ Sorted
    /\ (~SQPOLL => SendsBound /\ RepliesToOwner /\ InOrder)
  BY Parts, Zenon DEF Conjuncts
<1>1. PICK fd : fd = Head(cq).fd
  BY Zenon
<1>2. /\ cq # <<>> /\ Head(cq).op = "RECV" /\ cq' = Tail(cq) /\ At("reap")
      /\ UNCHANGED <<pc, out, published, inflight, client, backlog, unread, lag, got, cut, waited,
                     outbound, emitted, free_slots_, send_pool_>>
  BY Zenon DEF on_recv, Cqe, wire, slots
<1>3. fd \in Fds /\ conns_[fd] # NONE /\ cq' \in Seq(Completion)
  BY <1>1, <1>2, RecvHasSession, Handled, Zenon DEF HeadHandled
<1>4. pc' # "fallback"
  BY <1>2, Zenon DEF At
<1> USE <1>2
<1>5. CASE /\ close_conn(fd) /\ UNCHANGED prepared
           /\ asked' = asked \/ asked' = asked \cup {conns_[fd]}
  <2>1. /\ MapsOK' /\ ConnsOK'
        /\ conns_' \in [Fds -> Sids \cup {NONE}] /\ sid_to_fd_' \in [Sids -> Fds \cup {NONE}]
        /\ file' \in [Fds -> Conns \cup {NONE}] /\ asked' \subseteq Sids
        /\ \A sid \in Sids : sid_to_fd_'[sid] # NONE => sid_to_fd_[sid] # NONE
    BY <1>3, <1>5, MapsClosed, Zenon DEF Closing, Closed
  <2>2. UNCHANGED <<next_session_id_, owner>>
    BY <1>5, Zenon DEF close_conn
  <2>3. TypeOK'
    BY <1>3, <1>5, <2>1, <2>2, ZenonT(40) DEF TypeOK
  <2>4. Queue' = Queue
    BY <1>5, QueueSame, Zenon
  <2>5. OnlyArmed
    BY <2>4, Zenon DEF OnlyArmed
  <2>6. Accounts'
    <3>1. file' = [file EXCEPT ![Head(cq).fd] = NONE] /\ conns_' = [conns_ EXCEPT ![Head(cq).fd] = NONE]
      BY <1>1, <1>5, Zenon DEF close_conn
    <3> QED
      BY <2>4, <3>1, AccountsClosed, Zenon DEF RecvClosed
  <2>7. SendsOK' /\ Sorted'
    BY <1>4, <2>4, <2>5, SendsArmed, SortedKept, Zenon
  <2>8. ASSUME ~SQPOLL
        PROVE  (SendsBound /\ RepliesToOwner /\ InOrder)'
    <3>1. SendsBound'
      BY <2>2, <2>3, <2>5, <2>8, BoundArmed, Zenon DEF ArmedOnly
    <3>2. RepliesToOwner'
      BY <2>2, <2>8, OwnerKept, Zenon
    <3>3. ASSUME NEW c \in Conns \ (cut' \cup waited')
          PROVE  WholeReplies(c)'
      <4>1. WholeReplies(c)
        BY <2>8, Zenon DEF InOrder
      <4> QED
        BY <2>1, <2>2, <2>4, <4>1, StillKept, WholeKept, ZenonT(40) DEF NotWritten
    <3> QED
      BY <2>2, <2>8, <3>1, <3>2, <3>3, Zenon DEF InOrder
  <2> QED
    BY <2>1, <2>3, <2>6, <2>7, <2>8, Parts, Zenon DEF Conjuncts
<1>6. CASE /\ asked' = asked \cup {conns_[fd]} /\ prepared' = Append(prepared, Recv(fd))
           /\ UNCHANGED <<maps, file>>
  <2> USE <1>6 DEF maps
  <2>1. conns_[fd] \in Sids /\ Recv(fd) \in Sqe /\ Recv(fd).op = "RECV"
    BY <1>3, Zenon DEF TypeOK, Sqe, Recv
  <2>2. Queue' = Append(Queue, Recv(fd))
    BY QueueAppend, Zenon
  <2>3. prepared' = prepared \o <<Recv(fd)>> /\ <<Recv(fd)>> \in Seq(Sqe)
    BY <2>1 DEF TypeOK
  <2>4. OnlyArmed /\ prepared' \in Seq(Sqe)
    <3>1. PICK s : s = <<Recv(fd)>>
      BY Zenon
    <3>2. s \in Seq(Sqe) /\ \A j \in 1 .. Len(s) : s[j].op # "SEND"
      BY <2>1, <2>3, <3>1
    <3> QED
      BY <2>3, <3>1, <3>2, QueueArmed, Zenon
  <2>5. TypeOK'
    BY <1>3, <2>1, <2>4, ZenonT(40) DEF TypeOK
  <2>6. Accounts'
    BY <1>1, <2>2, AccountsArmed, Zenon DEF RecvArmed
  <2>7. MapsOK'
    BY <1>3, <2>1, Zenon DEF MapsOK
  <2>8. ConnsOK' /\ SendsOK' /\ Sorted'
    BY <1>4, <2>4, ConnsKept, SendsArmed, SortedArmed, Zenon
  <2>9. ASSUME ~SQPOLL
        PROVE  (SendsBound /\ RepliesToOwner /\ InOrder)'
    <3>1. SendsBound'
      BY <2>4, <2>5, <2>9, BoundArmed, Zenon DEF ArmedOnly
    <3>2. RepliesToOwner'
      BY <2>9, OwnerKept, Zenon
    <3>3. ASSUME NEW c \in Conns \ (cut' \cup waited')
          PROVE  WholeReplies(c)'
      <4>1. WholeReplies(c)
        BY <2>9, Zenon DEF InOrder
      <4> QED
        BY <2>4, <4>1, SortedArmed, WholeKept, Zenon DEF NotWritten
    <3> QED
      BY <2>9, <3>1, <3>2, <3>3, Zenon DEF InOrder
  <2> QED
    BY <2>5, <2>6, <2>7, <2>8, <2>9, Parts, ZenonT(40) DEF Conjuncts
<1> QED
  BY <1>1, <1>3, <1>5, <1>6, Zenon DEF on_recv

\* What on_accept prepares are no sends.
LEMMA ArmedNoSends ==
  ASSUME NEW y \in Completion, y.op = "ACCEPT"
  PROVE  Armed(y) \in Seq(Sqe) /\ \A j \in 1 .. Len(Armed(y)) : Armed(y)[j].op # "SEND"
<1>1. /\ y.res \in Fds \cup {NONE} /\ y.more \in BOOLEAN
      /\ Accept \in Sqe /\ Accept.op = "ACCEPT"
      /\ (y.res # NONE => Recv(y.res) \in Sqe) /\ Recv(y.res).op = "RECV"
  BY Kinds, Zenon DEF Sqe, Accept, Recv, KindsApart
<1>2. PICK a, b : a = Recv(y.res) /\ b = Accept
  BY Zenon
<1>3. CASE y.res = NONE /\ y.more
  BY <1>3 DEF Armed
<1>4. CASE y.res = NONE /\ ~y.more
  <2>1. Armed(y) = <<b>>
    BY <1>2, <1>4 DEF Armed
  <2> QED
    BY <1>1, <1>2, <2>1
<1>5. CASE y.res # NONE /\ y.more
  <2>1. Armed(y) = <<a>>
    BY <1>2, <1>5 DEF Armed
  <2> QED
    BY <1>1, <1>2, <1>5, <2>1
<1>6. CASE y.res # NONE /\ ~y.more
  <2>1. Armed(y) = <<a>> \o <<b>>
    BY <1>2, <1>6, Zenon DEF Armed
  <2>2. /\ a \in Sqe /\ b \in Sqe /\ a.op # "SEND" /\ b.op # "SEND"
        /\ <<a>> \in Seq(Sqe) /\ <<b>> \in Seq(Sqe)
    BY <1>1, <1>2, <1>6
  <2>3. /\ <<a>> \o <<b>> \in Seq(Sqe) /\ Len(<<a>> \o <<b>>) = 2
        /\ \A i \in 1 .. 2 : (<<a>> \o <<b>>)[i] = IF i <= 1 THEN a ELSE b
    BY <2>2, SeqJoin DEF Joined
  <2> QED
    BY <2>1, <2>2, <2>3, Zenon
<1> QED
  BY <1>1, <1>3, <1>4, <1>5, <1>6, Zenon

\* The session s is new, and owns the connection of the descriptor.
Opened(s, fd) ==
  /\ MapsOK' /\ ConnsOK' /\ s \in Sids
  /\ conns_' \in [Fds -> Sids \cup {NONE}] /\ sid_to_fd_' \in [Sids -> Fds \cup {NONE}]
  /\ owner' \in [Sids -> Conns \cup {NONE}] /\ next_session_id_' \in 1 .. MAX_SESSIONS + 1
  /\ owner'[s] = file[fd] /\ emitted[s] = 0 /\ \A sid \in Sids : owner[sid] # file[fd]
  /\ \A sid \in Sids : owner[sid] # NONE => sid # s
  /\ \A sid \in Sids : sid # s => owner'[sid] = owner[sid] /\ sid_to_fd_'[sid] = sid_to_fd_[sid]

\* on_accept opens the session s for the descriptor fd.
Opening(fd, s) ==
  /\ s = next_session_id_
  /\ s <= MAX_SESSIONS
  /\ conns_[fd] = NONE
  /\ file[fd] \in Conns
  /\ next_session_id_' = s + 1
  /\ conns_' = [conns_ EXCEPT ![fd] = s]
  /\ sid_to_fd_' = [sid_to_fd_ EXCEPT ![s] = fd]
  /\ owner' = [owner EXCEPT ![s] = file[fd]]
  /\ UNCHANGED <<file, asked, emitted, client, backlog>>

\* A new session: what on_accept does to the maps.
LEMMA MapsOpened ==
  ASSUME TypeOK, MapsOK, ConnsOK, NEW fd \in Fds, NEW s, Opening(fd, s)
  PROVE  Opened(s, fd)
<1> USE DEF Opening
<1>1. /\ conns_ \in [Fds -> Sids \cup {NONE}] /\ sid_to_fd_ \in [Sids -> Fds \cup {NONE}]
      /\ owner \in [Sids -> Conns \cup {NONE}] /\ emitted \in [Sids -> Nat] /\ asked \subseteq Sids
      /\ s \in 1 .. MAX_SESSIONS + 1
  BY Zenon DEF TypeOK
<1>2. s \in Sids /\ s + 1 \in 1 .. MAX_SESSIONS + 1 /\ s \in Nat /\ \A sid \in Sids : sid \in Nat
  BY <1>1, UringAssumption DEF Sids
<1>3. NONE \notin Sids /\ NONE \notin Conns /\ NONE \notin Fds
  BY UringAssumption, Zenon
<1>4. /\ conns_' \in [Fds -> Sids \cup {NONE}] /\ sid_to_fd_' \in [Sids -> Fds \cup {NONE}]
      /\ owner' \in [Sids -> Conns \cup {NONE}]
  BY <1>1, <1>2, Zenon
<1>5. /\ \A g \in Fds : conns_'[g] = IF g = fd THEN s ELSE conns_[g]
      /\ \A sid \in Sids : /\ sid_to_fd_'[sid] = IF sid = s THEN fd ELSE sid_to_fd_[sid]
                           /\ owner'[sid] = IF sid = s THEN file[fd] ELSE owner[sid]
  BY <1>1, <1>2, Zenon
<1>6. \A sid \in Sids : owner[sid] # NONE <=> sid < s
  BY Zenon DEF MapsOK
<1>7. owner[s] = NONE /\ \A sid \in Sids : owner[sid] # NONE => sid # s
  BY <1>2, <1>6
<1>8. emitted[s] = 0
  <2>1. s \notin asked /\ emitted[s] \in Nat
    BY <1>1, <1>2 DEF MapsOK
  <2> QED
    BY <1>2, <2>1 DEF MapsOK
<1>9. \A sid \in Sids : owner[sid] # file[fd]
  BY <1>3, Zenon DEF ConnsOK
<1>10. MapsOK'
  <2>1. ASSUME NEW g \in Fds, conns_'[g] # NONE
        PROVE  conns_'[g] < s + 1 /\ sid_to_fd_'[conns_'[g]] = g
    <3>1. CASE g = fd
      BY <1>2, <1>5, <3>1
    <3>2. CASE g # fd
      <4>1. conns_'[g] = conns_[g] /\ conns_[g] \in Sids /\ conns_[g] < s /\ sid_to_fd_[conns_[g]] = g
        BY <1>1, <1>5, <2>1, <3>2 DEF MapsOK
      <4>2. \A q \in Nat : q < s => q # s /\ q < s + 1
        BY <1>2
      <4>3. conns_[g] # s /\ conns_[g] < s + 1
        BY <1>2, <4>1, <4>2, Zenon
      <4> QED
        BY <1>5, <4>1, <4>3, ZenonT(40)
    <3> QED
      BY <3>1, <3>2, Zenon
  <2>2. ASSUME NEW sid \in Sids, sid_to_fd_'[sid] # NONE
        PROVE  conns_'[sid_to_fd_'[sid]] = sid /\ owner'[sid] = file[sid_to_fd_'[sid]]
    <3>1. CASE sid = s
      BY <1>2, <1>5, <3>1
    <3>2. CASE sid # s
      <4>1. sid_to_fd_'[sid] = sid_to_fd_[sid] /\ sid_to_fd_[sid] \in Fds /\ owner'[sid] = owner[sid]
        BY <1>1, <1>5, <2>2, <3>2, Zenon
      <4>2. conns_[sid_to_fd_[sid]] = sid /\ owner[sid] = file[sid_to_fd_[sid]]
        BY <2>2, <4>1, Zenon DEF MapsOK
      <4>3. sid_to_fd_[sid] # fd
        BY <1>3, <4>2, Zenon
      <4> QED
        BY <1>5, <4>1, <4>2, <4>3, Zenon
    <3> QED
      BY <3>1, <3>2, Zenon
  <2>3. ASSUME NEW sid \in Sids
        PROVE  owner'[sid] # NONE <=> sid < s + 1
    <3>1. CASE sid = s
      BY <1>2, <1>3, <1>5, <3>1
    <3>2. CASE sid # s
      <4>1. sid < s + 1 <=> sid < s
        BY <1>2, <3>2
      <4> QED
        BY <1>5, <1>6, <3>2, <4>1, Zenon
    <3> QED
      BY <3>1, <3>2, Zenon
  <2>4. \A sid \in asked : sid < s + 1
    BY <1>1, <1>2 DEF MapsOK
  <2> QED
    BY <2>1, <2>2, <2>3, <2>4 DEF MapsOK
<1>11. ConnsOK'
  <2>1. ASSUME NEW p \in Sids, NEW q \in Sids, owner'[p] # NONE, owner'[p] = owner'[q]
        PROVE  p = q
    <3>1. CASE p # s /\ q # s
      BY <1>5, <2>1, <3>1 DEF ConnsOK
    <3> QED
      BY <1>5, <1>9, <2>1, <3>1
  <2>2. ASSUME NEW c \in Conns, client[c] = "idle" \/ c \in backlog
        PROVE  (\A g \in Fds : file[g] # c) /\ (\A sid \in Sids : owner'[sid] # c)
    BY <1>5, <2>2 DEF ConnsOK
  <2>3. ASSUME NEW g \in Fds, file[g] # NONE, conns_'[g] = NONE, NEW sid \in Sids
        PROVE  owner'[sid] # file[g]
    <3>1. g # fd /\ conns_[g] = NONE
      BY <1>2, <1>3, <1>5, <2>3
    <3>2. file[fd] # file[g] /\ owner[sid] # file[g]
      BY <1>3, <2>3, <3>1, Zenon DEF ConnsOK
    <3> QED
      BY <1>5, <3>2, Zenon
  <2> QED
    BY <2>1, <2>2, <2>3, Zenon DEF ConnsOK
<1> QED
  BY <1>2, <1>4, <1>5, <1>7, <1>8, <1>9, <1>10, <1>11, ZenonT(40) DEF Opened

\* Replies are numbered from 1.
LEMMA NumbersPositive == \A r \in Reply : r.n > 0
  BY DEF Reply

\* Nothing received is no reply, and no part of one.
LEMMA NothingReceived ==
  0 \in 0 .. Len(<<>>) /\ Len(<<>>) = 0 * FRAME /\ DOMAIN <<>> = {}
  BY FrameType

\* Handling an accept completion, with or without a new session, keeps the invariant.
LEMMA OnAcceptStep ==
  ASSUME FiniteSetFacts, IInv, on_accept
  PROVE  IInv'
<1> /\ TypeOK /\ Accounts /\ MapsOK /\ ConnsOK /\ SendsOK /\ Sorted
    /\ (~SQPOLL => SendsBound /\ RepliesToOwner /\ InOrder)
  BY Parts, Zenon DEF Conjuncts
<1>1. PICK y : y = Head(cq)
  BY Zenon
<1>2. PICK fd : fd = y.res
  BY Zenon
<1>3. PICK s : s = next_session_id_
  BY Zenon
<1>4. /\ cq # <<>> /\ y.op = "ACCEPT" /\ cq' = Tail(cq) /\ At("reap")
      /\ UNCHANGED <<pc, out, published, inflight, client, backlog, unread, lag, got, cut, waited,
                     outbound, emitted, free_slots_, send_pool_, file, asked>>
  BY <1>1, Zenon DEF on_accept, Cqe, wire, slots
<1>5. y \in Completion /\ cq' \in Seq(Completion) /\ fd \in Fds \cup {NONE} /\ y.more \in BOOLEAN
  BY <1>1, <1>2, <1>4, Handled, Kinds, ZenonT(40) DEF KindsApart, HeadHandled
<1>6. pc' # "fallback"
  BY <1>4, Zenon DEF At
<1> USE <1>4
<1>7. prepared' = prepared \o Armed(y)
  <2>1. PICK a, b : a = (IF y.more THEN <<>> ELSE <<Accept>>) /\ b = <<Recv(fd)>>
    BY Zenon
  <2>2. a \in Seq(Sqe) /\ prepared \in Seq(Sqe) /\ (fd # NONE => b \in Seq(Sqe))
    <3>1. Accept \in Sqe /\ (fd # NONE => Recv(fd) \in Sqe)
      BY <1>5, Zenon DEF Sqe, Accept, Recv
    <3> QED
      BY <2>1, <3>1 DEF TypeOK
  <2>3. CASE fd = NONE
    <3>1. prepared' = prepared \o a
      BY <1>1, <1>2, <2>1, <2>3, Zenon DEF on_accept
    <3>2. Armed(y) = <<>> \o a
      BY <1>2, <2>1, <2>3, Zenon DEF Armed
    <3> QED
      BY <2>2, <3>1, <3>2, JoinAssoc, Zenon
  <2>4. CASE fd # NONE
    <3>1. prepared' = (prepared \o b) \o a
      BY <1>1, <1>2, <2>1, <2>4, Zenon DEF on_accept
    <3>2. Armed(y) = b \o a
      BY <1>2, <2>1, <2>4, Zenon DEF Armed
    <3>3. (prepared \o b) \o a = prepared \o (b \o a)
      BY <2>2, <2>4, JoinEntries, Zenon
    <3> QED
      BY <3>1, <3>2, <3>3, Zenon
  <2> QED
    BY <2>3, <2>4, Zenon
<1>8. OnlyArmed /\ prepared' \in Seq(Sqe)
  <2>1. PICK a : a = Armed(y)
    BY Zenon
  <2>2. a \in Seq(Sqe) /\ \A j \in 1 .. Len(a) : a[j].op # "SEND"
    BY <1>5, <2>1, ArmedNoSends, Zenon
  <2> QED
    BY <1>7, <2>1, <2>2, QueueArmed, Zenon
<1>9. SendsOK' /\ Sorted' /\ \A sid \in Sids : \A r \in Nat : StillToSend(sid, r) => StillToSend(sid, r)'
  BY <1>6, <1>8, SendsArmed, SortedArmed, Zenon
<1>10. CASE fd = NONE
  <2>1. UNCHANGED maps
    BY <1>1, <1>2, <1>10, Zenon DEF on_accept
  <2> USE <2>1 DEF maps
  <2>2. TypeOK'
    BY <1>5, <1>8, Zenon DEF TypeOK
  <2>3. Accounts'
    BY <1>1, <1>2, <1>7, <1>10, AccountsOpened, Zenon DEF AcceptHandled
  <2>4. MapsOK' /\ ConnsOK'
    BY MapsKept, ConnsKept, Zenon
  <2>5. ASSUME ~SQPOLL
        PROVE  (SendsBound /\ RepliesToOwner /\ InOrder)'
    <3>1. SendsBound'
      BY <1>8, <2>2, <2>5, BoundArmed, ZenonT(40) DEF ArmedOnly
    <3>2. RepliesToOwner'
      BY <2>5, OwnerKept, Zenon
    <3>3. ASSUME NEW c \in Conns \ (cut' \cup waited')
          PROVE  WholeReplies(c)'
      <4>1. WholeReplies(c)
        BY <2>5, Zenon DEF InOrder
      <4> QED
        BY <1>9, <4>1, WholeKept, Zenon DEF NotWritten
    <3> QED
      BY <2>5, <3>1, <3>2, <3>3, Zenon DEF InOrder
  <2> QED
    BY <1>9, <2>2, <2>3, <2>4, <2>5, Parts, Zenon DEF Conjuncts
<1>11. CASE fd # NONE
  <2>1. /\ s <= MAX_SESSIONS /\ next_session_id_' = s + 1 /\ conns_' = [conns_ EXCEPT ![fd] = s]
        /\ sid_to_fd_' = [sid_to_fd_ EXCEPT ![s] = fd]
        /\ owner' = [owner EXCEPT ![s] = file[fd]]
    BY <1>1, <1>2, <1>3, <1>11, ZenonT(40) DEF on_accept
  <2>2. fd \in Fds /\ conns_[fd] = NONE /\ file[fd] \in Conns
    BY <1>1, <1>2, <1>11, AcceptHasNoSession, Zenon
  <2>3. PICK d : d = file[fd] /\ d \in Conns
    BY <2>2, Zenon
  <2>4. /\ MapsOK' /\ ConnsOK' /\ s \in Sids
        /\ conns_' \in [Fds -> Sids \cup {NONE}] /\ sid_to_fd_' \in [Sids -> Fds \cup {NONE}]
        /\ owner' \in [Sids -> Conns \cup {NONE}] /\ next_session_id_' \in 1 .. MAX_SESSIONS + 1
        /\ owner'[s] = d /\ emitted[s] = 0 /\ \A sid \in Sids : owner[sid] # d
        /\ \A sid \in Sids : owner[sid] # NONE => sid # s
        /\ \A sid \in Sids : sid # s => owner'[sid] = owner[sid] /\ sid_to_fd_'[sid] = sid_to_fd_[sid]
    <3>1. UNCHANGED <<file, asked, emitted, client, backlog>>
      BY Zenon
    <3>2. Opened(s, fd)
      BY <1>3, <2>1, <2>2, <3>1, MapsOpened, ZenonT(40) DEF Opening
    <3> QED
      BY <2>3, <3>2, Zenon DEF Opened
  <2>5. TypeOK'
    BY <1>5, <1>8, <2>1, <2>4, ZenonT(40) DEF TypeOK
  <2>6. Accounts'
    <3>1. next_session_id_ # NONE /\ conns_' = [conns_ EXCEPT ![Head(cq).res] = next_session_id_]
      BY <1>1, <1>2, <1>3, <2>1, <2>4, UringAssumption, ZenonT(40)
    <3> QED
      BY <1>1, <1>2, <1>7, <1>11, <3>1, AccountsOpened, ZenonT(40) DEF AcceptHandled
  <2>7. ASSUME ~SQPOLL
        PROVE  (SendsBound /\ RepliesToOwner /\ InOrder)'
    <3>1. SendsBound'
      BY <1>8, <2>4, <2>5, <2>7, BoundArmed, ZenonT(40) DEF ArmedOnly
    <3>2. RepliesToOwner'
      <4>1. ASSUME NEW c \in Conns, NEW k \in DOMAIN got[c]
            PROVE  owner'[got[c][k][1]] = c
        <5>1. got[c] \in Seq(Sids \X Int \X Int)
          BY ZenonT(40) DEF TypeOK
        <5>2. got[c][k][1] \in Sids
          BY <5>1
        <5>3. owner[got[c][k][1]] = c /\ c # NONE
          BY <2>7, UringAssumption, Zenon DEF RepliesToOwner
        <5> QED
          BY <2>4, <5>2, <5>3, ZenonT(40)
      <4> QED
        BY <4>1, Zenon DEF RepliesToOwner
    <3>3. ASSUME NEW c \in Conns \ (cut' \cup waited')
          PROVE  WholeReplies(c)'
      <4>1. CASE c # d
        <5>1. WholeReplies(c)
          BY <2>7, Zenon DEF InOrder
        <5>2. \A sid \in Sids : owner'[sid] = c /\ sid_to_fd_'[sid] # NONE
                => owner[sid] = c /\ sid_to_fd_[sid] # NONE
          BY <2>4, <4>1, Zenon
        <5> QED
          BY <1>9, <5>1, <5>2, WholeKept, Zenon DEF NotWritten
      <4>2. CASE c = d
        <5>1. got[c] = <<>>
          BY <2>4, <2>7, <4>2, Zenon DEF InOrder
        <5>2. StillToSend(s, 0)'
          <6>1. emitted[s] = 0 /\ 1 .. 0 = {} /\ 0 + 1 = 1 /\ 0 <= 0
            BY <2>4, SMTT(30)
          <6>2. ASSUME NEW i \in DOMAIN Queue', QueuedFor(i, s)'
                PROVE  Number(i)' > 0
            <7>1. send_pool_'[Queue'[i].slot] \in Reply
              BY <1>9, <6>2, Zenon DEF SendsOK, QueuedFor
            <7> QED
              BY <7>1, NumbersPositive, Zenon DEF Number
          <6>3. ASSUME NEW i \in DOMAIN outbound
                PROVE  outbound[i].n > 0
            <7>1. outbound \in Seq(Reply)
              BY Zenon DEF TypeOK
            <7>2. outbound[i] \in Reply
              BY <7>1
            <7> QED
              BY <7>2, NumbersPositive, Zenon
          <6> QED
            BY <6>1, <6>2, <6>3, ZenonT(40) DEF StillToSend
        <5>3. \A sid \in Sids : owner'[sid] = c => sid = s
          BY <2>4, <4>2, ZenonT(40)
        <5>4. 0 \in 0 .. Len(got'[c]) /\ Len(got'[c]) = 0 * FRAME /\ DOMAIN got'[c] = {}
          <6>1. got'[c] = <<>>
            BY <1>9, <5>1, Zenon DEF NotWritten
          <6> QED
            BY <6>1, NothingReceived, Zenon
        <5> QED
          BY <5>2, <5>3, <5>4, ZenonT(40) DEF WholeReplies
      <4> QED
        BY <4>1, <4>2, Zenon
    <3>4. ASSUME NEW c \in Conns, \A sid \in Sids : owner'[sid] # c
          PROVE  got[c] = <<>>
      <4>1. \A sid \in Sids : owner[sid] # c
        BY <2>4, <3>4, UringAssumption, Zenon
      <4> QED
        BY <2>7, <4>1, Zenon DEF InOrder
    <3> QED
      BY <3>1, <3>2, <3>3, <3>4, Zenon DEF InOrder
  <2> QED
    BY <1>9, <2>4, <2>5, <2>6, <2>7, Parts, ZenonT(40) DEF Conjuncts
<1> QED
  BY <1>10, <1>11, Zenon

-----------------------------------------------------------------------------
(* The theorems                                                             *)

\* Every step keeps the invariant.
LEMMA NextIInv ==
  ASSUME FiniteSetFacts, IInv, [Next]_vars
  PROVE  IInv'
<1>1. CASE drain_drop
  BY <1>1, DrainDropStep, Zenon
<1>2. CASE drain_send
  BY <1>2, DrainSendStep, Zenon
<1>3. CASE drain_fallback
  BY <1>3, DrainFallbackStep, Zenon
<1>4. CASE fallback_send
  BY <1>4, FallbackSendStep, Zenon
<1>5. CASE submit \/ get_sqe_full
  BY <1>5, SubmitStep, ZenonT(40)
<1>6. CASE on_accept
  BY <1>6, OnAcceptStep, Zenon
<1>7. CASE on_recv
  BY <1>7, OnRecvStep, Zenon
<1>8. CASE on_send
  BY <1>8, OnSendStep, Zenon
<1>9. CASE reap_end \/ run_exit
  BY <1>9, PassStep, ZenonT(40)
<1>10. CASE issue
  BY <1>10, IssueStep, Zenon
<1>11. CASE complete_accept
  BY <1>11, CompleteAcceptStep, Zenon
<1>12. CASE complete_recv
  BY <1>12, CompleteRecvStep, Zenon
<1>13. CASE complete_send
  BY <1>13, CompleteSendStep, Zenon
<1>14. CASE \E c \in Conns : Client(c)
  BY <1>14, ClientStep, Zenon
<1>15. CASE \E sid \in Sids : push_out(sid)
  BY <1>15, PushOutStep, Zenon
<1>16. CASE UNCHANGED vars
  <2> /\ TypeOK /\ Accounts /\ MapsOK /\ ConnsOK /\ SendsOK /\ Sorted
      /\ (~SQPOLL => SendsBound /\ RepliesToOwner /\ InOrder)
    BY Parts, Zenon DEF Conjuncts
  <2> USE <1>16 DEF vars
  <2>1. Queue' = Queue
    BY QueueSame, Zenon
  <2>2. TypeOK'
    BY Zenon DEF TypeOK
  <2>3. Accounts' /\ MapsOK' /\ ConnsOK' /\ SendsOK' /\ Sorted'
    BY <2>1, AccountsKept, MapsKept, ConnsKept, SendsKept, SortedKept, ZenonT(40) DEF SendsSame
  <2>4. ~SQPOLL => (SendsBound /\ RepliesToOwner /\ InOrder)'
    BY <2>1, BoundKept, OwnerKept, OrderKept, ZenonT(40) DEF BoundSame
  <2> QED
    BY <2>2, <2>3, <2>4, Parts, Zenon DEF Conjuncts
<1> QED
  BY <1>1, <1>2, <1>3, <1>4, <1>5, <1>6, <1>7, <1>8, <1>9, <1>10, <1>11, <1>12, <1>13, <1>14, <1>15, <1>16, ZenonT(40)
     DEF Next, poll_once, handle_cqe, Kernel

INSTANCE FiniteSetTheorems

\* The facts about finite sets that the lemmas assume.
LEMMA FiniteSetFactsHold == FiniteSetFacts
<1>1. ASSUME NEW S, IsFiniteSet(S)
      PROVE  /\ Cardinality(S) \in Nat /\ (Cardinality(S) = 0 <=> S = {})
             /\ \A T \in SUBSET S : IsFiniteSet(T)
             /\ \A x : /\ IsFiniteSet(S \cup {x}) /\ IsFiniteSet(S \ {x})
                       /\ Cardinality(S \cup {x}) =
                            IF x \in S THEN Cardinality(S) ELSE Cardinality(S) + 1
                       /\ Cardinality(S \ {x}) =
                            IF x \in S THEN Cardinality(S) - 1 ELSE Cardinality(S)
  <2>1. Cardinality(S) \in Nat /\ (Cardinality(S) = 0 <=> S = {})
    BY <1>1, FS_CardinalityType, FS_EmptySet, ZenonT(40)
  <2>2. \A T \in SUBSET S : IsFiniteSet(T)
    BY <1>1, FS_Subset, ZenonT(40)
  <2>3. ASSUME NEW x
        PROVE  /\ IsFiniteSet(S \cup {x}) /\ IsFiniteSet(S \ {x})
               /\ Cardinality(S \cup {x}) = IF x \in S THEN Cardinality(S) ELSE Cardinality(S) + 1
               /\ Cardinality(S \ {x}) = IF x \in S THEN Cardinality(S) - 1 ELSE Cardinality(S)
    BY <1>1, FS_AddElement, FS_RemoveElement, ZenonT(40)
  <2> QED
    BY <2>1, <2>2, <2>3, ZenonT(40)
<1>2. \A n \in Nat : IsFiniteSet(1 .. n)
  BY FS_Interval
<1>3. ASSUME NEW S, NEW T, NEW f \in [S -> T], IsFiniteSet(S),
             \A a, b \in S : f[a] = f[b] => a = b, \A t \in T : \E a \in S : f[a] = t
      PROVE  Cardinality(T) = Cardinality(S)
  <2>1. f \in Bijection(S, T)
    BY <1>3, Zenon DEF Bijection, Injection, Surjection, IsInjective
  <2> QED
    BY <1>3, <2>1, FS_Bijection, ZenonT(40) DEF ExistsBijection
<1>4. IsFiniteSet({}) /\ Cardinality({}) = 0
  BY FS_EmptySet, ZenonT(40)
<1>5. \A S : IsFiniteSet(S) =>
        /\ Cardinality(S) \in Nat /\ (Cardinality(S) = 0 <=> S = {})
        /\ \A T \in SUBSET S : IsFiniteSet(T)
        /\ \A x : /\ IsFiniteSet(S \cup {x}) /\ IsFiniteSet(S \ {x})
                  /\ Cardinality(S \cup {x}) = IF x \in S THEN Cardinality(S) ELSE Cardinality(S) + 1
                  /\ Cardinality(S \ {x}) = IF x \in S THEN Cardinality(S) - 1 ELSE Cardinality(S)
  BY <1>1, ZenonT(40)
<1>6. \A S, T : \A f \in [S -> T] :
        /\ IsFiniteSet(S)
        /\ \A a, b \in S : f[a] = f[b] => a = b
        /\ \A t \in T : \E a \in S : f[a] = t
        => Cardinality(T) = Cardinality(S)
  BY <1>3, ZenonT(40)
<1> QED
  BY <1>2, <1>4, <1>5, <1>6, ZenonT(40) DEF FiniteSetFacts

\* The inductive invariant holds in every state of the gateway: get_sqe, the
\* kernel and handle_cqe account for every slot, receive, accept and descriptor,
\* the two session maps are inverse to each other, and (without SQPOLL) the
\* replies a client has not received are queued in order.
THEOREM UringInvariant == Spec => []IInv
<1>1. Init => IInv
  BY FiniteSetFactsHold, InitIInv, ZenonT(40)
<1>2. IInv /\ [Next]_vars => IInv'
  BY FiniteSetFactsHold, NextIInv, ZenonT(40)
<1> QED
  BY <1>1, <1>2, PTL DEF Spec

\* Every slot of send_pool_ is on the free list or in one send on its way, for
\* any number of slots and connections, in both modes of the ring:
\* alloc_send_slot never hands out a slot that the kernel may still read, and
\* free_send_slot gives every slot back once.
THEOREM UringSlots == Spec => []SlotInOnePlace
<1>1. IInv => SlotInOnePlace
  BY ZenonT(40) DEF IInv
<1> QED
  BY <1>1, UringInvariant, PTL

\* submit_recv keeps exactly one receive on its way for every connection with a
\* session, and none for a descriptor that is closed.
THEOREM UringReceives == Spec => []OneRecvPerConn
<1>1. IInv => OneRecvPerConn
  BY ZenonT(40) DEF IInv
<1> QED
  BY <1>1, UringInvariant, PTL

\* submit_accept is called again exactly when the multishot accept has ended.
THEOREM UringAccepts == Spec => []OneAccept
<1>1. IInv => OneAccept
  BY Zenon DEF IInv
<1> QED
  BY <1>1, UringInvariant, PTL

\* Without SQPOLL a send goes to the connection of the session that its reply is
\* stamped with, although the ring holds a descriptor number that close_conn
\* frees for the next client: poll_once has issued the sends it has prepared
\* before it handles a completion that may close the descriptor.
THEOREM UringOwner == ~SQPOLL => (Spec => []RepliesToOwner)
<1> SUFFICES ASSUME ~SQPOLL
             PROVE  Spec => []RepliesToOwner
  BY Zenon
<1>1. IInv => RepliesToOwner
  BY ZenonT(40) DEF IInv
<1> QED
  BY <1>1, UringInvariant, PTL

\* Without SQPOLL a connection on which no send had to wait, none fell back to a
\* blocking ::send and none was short has received whole replies, in the order
\* in which the shards have emitted them, each once.
THEOREM UringOrder == ~SQPOLL => (Spec => []RepliesInOrder)
<1> SUFFICES ASSUME ~SQPOLL
             PROVE  Spec => []RepliesInOrder
  BY Zenon
<1>1. IInv => RepliesInOrder
  BY Zenon DEF IInv, InOrder, WholeReplies, RepliesInOrder
<1> QED
  BY <1>1, UringInvariant, PTL
=============================================================================
