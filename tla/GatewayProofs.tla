--------------------------- MODULE GatewayProofs ----------------------------
(***************************************************************************)
(* The maps of Gateway, its batches of events and its routing of replies   *)
(* are right for any number of connections, descriptors, shards and        *)
(* sessions.                                                               *)
(***************************************************************************)
EXTENDS Gateway, TLAPS

\* The gateway starts with empty maps.
LEMMA InitIInv == Init => IInv
BY GatewayAssumption
   DEF Init, IInv, TypeOK, MapsAgree, NoStaleEvent, RepliesToOwner, FreshIds, Handover, Shards, Sids

\* The first element and the rest of a ring.
LEMMA HeadTail ==
  ASSUME NEW S, NEW q \in Seq(S), q # <<>>
  PROVE  Head(q) \in S /\ Tail(q) \in Seq(S)
OBVIOUS

\* A ring with another element.
LEMMA AppendType ==
  ASSUME NEW S, NEW q \in Seq(S), NEW e \in S
  PROVE  Append(q, e) \in Seq(S)
OBVIOUS

\* What a connection has received, with the units of another send.
LEMMA ConcatAt ==
  ASSUME NEW S, NEW a \in Seq(S), NEW b \in Seq(S), NEW k \in 1 .. Len(a) + Len(b)
  PROVE  (a \o b)[k] = IF k <= Len(a) THEN a[k] ELSE b[k - Len(a)]
OBVIOUS

\* What fits into a buffer.
LEMMA LeastFits ==
  ASSUME NEW a \in Nat, NEW b \in Nat
  PROVE  Least(a, b) \in Nat /\ Least(a, b) <= a /\ Least(a, b) <= b
BY DEF Least

\* A step that touches neither the maps nor the descriptors nor what clients have
\* received keeps what is said about them.
LEMMA QuietStep ==
  ASSUME MapsAgree, RepliesToOwner, FreshIds,
         UNCHANGED <<sessions_, sid_to_fd_, next_session_id_, owner, file, got>>
  PROVE  MapsAgree' /\ RepliesToOwner' /\ FreshIds'
BY DEF MapsAgree, RepliesToOwner, FreshIds

\* close_session of an open descriptor that is not in the rest of the batch.
LEMMA CloseSession ==
  ASSUME IInv, NEW fd \in Fds, file[fd] # NONE, fd \notin events, close_session(fd),
         UNCHANGED <<events, got>>
  PROVE  /\ sessions_' \in [Fds -> Sids \cup {NONE}] /\ closed_' \subseteq Fds
         /\ sid_to_fd_' \in [Sids -> Fds \cup {NONE}]
         /\ file' \in [Fds -> Conns \cup {NONE}]
         /\ next_session_id_' = next_session_id_ /\ owner' = owner
         /\ MapsAgree' /\ RepliesToOwner' /\ FreshIds'
         /\ \A e \in events \ {LISTEN} : file'[e] # NONE
<1> USE GatewayAssumption
<1>1. sessions_[fd] \in Sids
  BY DEF IInv, TypeOK, MapsAgree
<1>2. /\ sessions_' \in [Fds -> Sids \cup {NONE}] /\ closed_' \subseteq Fds
      /\ sid_to_fd_' \in [Sids -> Fds \cup {NONE}]
      /\ file' \in [Fds -> Conns \cup {NONE}]
      /\ next_session_id_' = next_session_id_ /\ owner' = owner
  BY <1>1 DEF IInv, TypeOK, close_session
<1>3. MapsAgree'
  BY <1>1 DEF IInv, TypeOK, MapsAgree, close_session
<1>4. RepliesToOwner'
  BY DEF IInv, RepliesToOwner, close_session
<1>5. FreshIds'
  BY <1>1 DEF IInv, TypeOK, FreshIds, close_session
<1>6. \A e \in events \ {LISTEN} : file'[e] # NONE
  BY DEF IInv, TypeOK, NoStaleEvent, close_session
<1> QED
  BY <1>2, <1>3, <1>4, <1>5, <1>6

\* accept gives a fresh session id to a free descriptor.
LEMMA AcceptStep == IInv /\ accept => IInv'
<1> SUFFICES ASSUME IInv, accept PROVE IInv'
  OBVIOUS
<1> USE GatewayAssumption
<1>1. PICK c \in backlog, fd \in Fds :
        /\ file[fd] = NONE
        /\ file' = [file EXCEPT ![fd] = c]
        /\ backlog' = backlog \ {c}
        /\ sessions_' = [sessions_ EXCEPT ![fd] = next_session_id_]
        /\ sid_to_fd_' = [sid_to_fd_ EXCEPT ![next_session_id_] = fd]
        /\ owner' = [owner EXCEPT ![next_session_id_] = c]
  BY Zenon DEF accept
<1>2. c \in Conns /\ next_session_id_ \in Sids
  BY DEF IInv, TypeOK, accept, Sids
<1>3. /\ next_session_id_' = next_session_id_ + 1
      /\ UNCHANGED <<closed_, client, unread, lag, pc, events, cur, out, outbound, asked, emitted, got, cut>>
  BY DEF accept, replies
<1>4. /\ sessions_' \in [Fds -> Sids \cup {NONE}] /\ file' \in [Fds -> Conns \cup {NONE}]
      /\ sid_to_fd_' \in [Sids -> Fds \cup {NONE}] /\ owner' \in [Sids -> Conns \cup {NONE}]
  BY <1>1, <1>2 DEF IInv, TypeOK
<1>5. next_session_id_' \in 1 .. MAX_SESSIONS + 1 /\ backlog' \subseteq Conns
  BY <1>1, <1>2, <1>3 DEF IInv, TypeOK, Sids
<1>6. TypeOK'
  BY <1>3, <1>4, <1>5, Zenon DEF IInv, TypeOK
<1>7. MapsAgree'
  BY <1>1, <1>2 DEF IInv, TypeOK, MapsAgree, FreshIds
<1>8. NoStaleEvent'
  BY <1>1, <1>2, <1>3 DEF IInv, TypeOK, NoStaleEvent
<1>9. RepliesToOwner'
  <2> SUFFICES ASSUME NEW d \in Conns, NEW k \in DOMAIN got[d]
               PROVE  owner'[got[d][k].sid] = d
    BY <1>3 DEF RepliesToOwner
  <2> DEFINE sid == got[d][k].sid
  <2>1. owner[sid] = d
    BY DEF IInv, RepliesToOwner
  <2>2. sid # next_session_id_
    <3>1. owner[next_session_id_] = NONE
      BY <1>2 DEF IInv, FreshIds, Sids
    <3> QED
      BY <2>1, <3>1
  <2> HIDE DEF sid
  <2>3. owner'[sid] = owner[sid]
    BY <2>2, <1>1 DEF IInv, TypeOK
  <2> QED
    BY <2>1, <2>3 DEF sid
<1>10. FreshIds'
  BY <1>1, <1>2, <1>3 DEF IInv, TypeOK, FreshIds, Sids
<1>11. Handover'
  BY <1>1, <1>2, <1>3 DEF IInv, TypeOK, Handover, FreshIds
<1> QED
  BY <1>6, <1>7, <1>8, <1>9, <1>10, <1>11 DEF IInv

\* The ends of read_session: with or without close_session.
LEMMA RecvEndStep == IInv /\ (recv_eof \/ recv_again \/ recv_error) => IInv'
<1> SUFFICES ASSUME IInv, recv_eof \/ recv_again \/ recv_error PROVE IInv'
  OBVIOUS
<1>1. /\ pc = "recv" /\ pc' = "events"
      /\ UNCHANGED <<events, cur, backlog, unread, lag, out, outbound, asked, emitted, got, cut>>
      /\ close_session(cur) \/ UNCHANGED <<file, sessions_, closed_, sid_to_fd_, next_session_id_, owner>>
  BY DEF recv_eof, recv_again, recv_error, At, replies, maps
<1>2. cur \in Fds /\ file[cur] # NONE /\ cur \notin events
  BY <1>1 DEF IInv, NoStaleEvent, Handover
<1>3. CASE close_session(cur)
  <2>1. /\ sessions_' \in [Fds -> Sids \cup {NONE}] /\ closed_' \subseteq Fds
        /\ sid_to_fd_' \in [Sids -> Fds \cup {NONE}]
        /\ file' \in [Fds -> Conns \cup {NONE}]
        /\ next_session_id_' = next_session_id_ /\ owner' = owner
        /\ MapsAgree' /\ RepliesToOwner' /\ FreshIds'
        /\ \A e \in events \ {LISTEN} : file'[e] # NONE
    BY <1>1, <1>2, <1>3, CloseSession
  <2>2. TypeOK'
    BY <1>1, <2>1, Zenon DEF IInv, TypeOK
  <2>3. NoStaleEvent' /\ Handover'
    BY <1>1, <2>1 DEF NoStaleEvent, Handover
  <2> QED
    BY <2>1, <2>2, <2>3 DEF IInv
<1>4. CASE UNCHANGED <<file, sessions_, closed_, sid_to_fd_, next_session_id_, owner>>
  <2>1. MapsAgree' /\ RepliesToOwner' /\ FreshIds'
    BY <1>1, <1>4, QuietStep DEF IInv
  <2>2. TypeOK'
    BY <1>1, <1>4, Zenon DEF IInv, TypeOK
  <2>3. NoStaleEvent' /\ Handover'
    BY <1>1, <1>4 DEF IInv, NoStaleEvent, Handover
  <2> QED
    BY <2>1, <2>2, <2>3 DEF IInv
<1> QED
  BY <1>1, <1>3, <1>4

\* The other steps before the replies are drained.
LEMMA EventStep ==
  IInv /\ (epoll_wait \/ run_exit \/ next_event \/ events_done \/ accept_stop \/ recv_bytes) => IInv'
<1> SUFFICES ASSUME IInv,
                    epoll_wait \/ run_exit \/ next_event \/ events_done \/ accept_stop \/ recv_bytes
             PROVE  IInv'
  OBVIOUS
<1> USE GatewayAssumption
<1>1. UNCHANGED <<sessions_, sid_to_fd_, next_session_id_, owner, client, backlog, file, lag,
                  out, outbound, emitted, got, cut>>
  BY DEF epoll_wait, run_exit, next_event, events_done, accept_stop, recv_bytes, kernel, maps, replies
<1>2. MapsAgree' /\ RepliesToOwner' /\ FreshIds'
  BY <1>1, QuietStep DEF IInv
<1>3. CASE epoll_wait
  <2>1. pc' = "events" /\ events' = Ready /\ UNCHANGED <<asked, closed_>>
    BY <1>3 DEF epoll_wait, At, replies, maps
  <2>2. \A fd \in Ready \ {LISTEN} : fd \in Fds /\ file[fd] # NONE
    BY DEF Ready, Readable
  <2>3. TypeOK'
    BY <1>1, <2>1, <2>2, Zenon DEF IInv, TypeOK
  <2>4. NoStaleEvent' /\ Handover'
    BY <1>1, <2>1, <2>2 DEF NoStaleEvent, Handover
  <2> QED
    BY <1>2, <2>3, <2>4 DEF IInv
<1>4. CASE next_event
  <2>1. PICK e \in events :
          /\ events' = events \ {e} /\ cur' = e
          /\ pc' = IF e = LISTEN THEN "accept" ELSE IF sessions_[e] # NONE THEN "recv" ELSE "events"
    BY <1>4 DEF next_event
  <2>2. UNCHANGED <<asked, closed_>>
    BY <1>4 DEF next_event, replies, maps
  <2>3. TypeOK'
    BY <1>1, <2>1, <2>2, Zenon DEF IInv, TypeOK
  <2>4. NoStaleEvent' /\ Handover'
    BY <1>1, <2>1 DEF IInv, TypeOK, NoStaleEvent, Handover
  <2> QED
    BY <1>2, <2>3, <2>4 DEF IInv
<1>5. CASE events_done
  <2>1. TypeOK'
    BY <1>1, <1>5, Zenon DEF IInv, TypeOK, events_done, At, maps, replies
  <2>2. NoStaleEvent' /\ Handover'
    BY <1>1, <1>5 DEF IInv, NoStaleEvent, Handover, events_done, At, Shards
  <2> QED
    BY <1>2, <2>1, <2>2 DEF IInv
<1>6. CASE accept_stop
  <2>1. TypeOK'
    BY <1>1, <1>6, Zenon DEF IInv, TypeOK, accept_stop, At, maps, replies
  <2>2. NoStaleEvent' /\ Handover'
    BY <1>1, <1>6 DEF IInv, NoStaleEvent, Handover, accept_stop, At
  <2> QED
    BY <1>2, <2>1, <2>2 DEF IInv
<1>7. CASE run_exit
  <2>1. TypeOK'
    BY <1>1, <1>7, Zenon DEF IInv, TypeOK, run_exit, At, maps, replies
  <2>2. NoStaleEvent' /\ Handover'
    BY <1>1, <1>7 DEF IInv, NoStaleEvent, Handover, run_exit, At
  <2> QED
    BY <1>2, <2>1, <2>2 DEF IInv
<1>8. CASE recv_bytes
  <2>1. cur \in Fds /\ sessions_[cur] \in Sids
    BY <1>8 DEF IInv, TypeOK, MapsAgree, NoStaleEvent, recv_bytes
  <2>2. closed_' \subseteq Fds /\ asked' \subseteq Sids
    BY <1>8, <2>1 DEF IInv, TypeOK, recv_bytes
  <2>3. UNCHANGED <<pc, events, cur>>
    BY <1>8 DEF recv_bytes
  <2>4. TypeOK'
    BY <1>1, <2>2, <2>3, Zenon DEF IInv, TypeOK
  <2>5. NoStaleEvent' /\ Handover'
    BY <1>1, <2>3 DEF IInv, NoStaleEvent, Handover
  <2> QED
    BY <1>2, <2>4, <2>5 DEF IInv
<1> QED
  BY <1>3, <1>4, <1>5, <1>6, <1>7, <1>8

\* drain_outbound: the reply taken from the ring is handed to send_all with the
\* descriptor of its session.
LEMMA DrainStep == IInv /\ (drain_pop \/ drain_next \/ send_fails \/ send_done) => IInv'
<1> SUFFICES ASSUME IInv, drain_pop \/ drain_next \/ send_fails \/ send_done PROVE IInv'
  OBVIOUS
<1> USE GatewayAssumption
<1>1. UNCHANGED <<sessions_, closed_, sid_to_fd_, next_session_id_, owner, client, backlog, file, lag,
                  events, asked, emitted, got>>
  BY Zenon DEF drain_pop, drain_next, send_fails, send_done, kernel, maps, replies
<1>2. MapsAgree' /\ RepliesToOwner' /\ FreshIds'
  BY <1>1, QuietStep DEF IInv
<1>3. CASE drain_pop
  <2> DEFINE m == Head(outbound[cur])
  <2>1. cur \in Shards /\ outbound[cur] \in Seq([sid : Sids, n : Nat]) /\ outbound[cur] # <<>>
    BY <1>3, Zenon DEF IInv, TypeOK, Handover, drain_pop
  <2>2. m \in [sid : Sids, n : Nat] /\ Tail(outbound[cur]) \in Seq([sid : Sids, n : Nat])
    BY <2>1, HeadTail, Zenon
  <2>3. outbound' \in [Shards -> Seq([sid : Sids, n : Nat])]
    BY <1>3, <2>1, <2>2, Zenon DEF IInv, TypeOK, drain_pop
  <2>4. cur' = cur /\ pc = "drain"
    BY <1>3, Zenon DEF drain_pop
  <2>5. \/ pc' = pc
        \/ /\ pc' = "send" /\ sid_to_fd_[m.sid] # NONE
           /\ out' = [fd |-> sid_to_fd_[m.sid], shard |-> cur, sid |-> m.sid, n |-> m.n, sent |-> 0]
    BY <1>3 DEF drain_pop
  <2>6. TypeOK'
    BY <1>1, <2>3, <2>4, <2>5, Zenon DEF IInv, TypeOK
  <2>7. NoStaleEvent'
    BY <1>1, <2>4, <2>5, Zenon DEF IInv, NoStaleEvent
  <2> HIDE DEF m
  <2>8. m.sid \in Sids /\ m.n \in Nat
    BY <2>2
  <2>9. pc' = "send" => sid_to_fd_[m.sid] \in Fds
    BY <2>4, <2>5, <2>8 DEF IInv, TypeOK
  <2>10. Handover'
    BY <1>1, <2>1, <2>4, <2>5, <2>8, <2>9 DEF Handover
  <2> QED
    BY <1>2, <2>6, <2>7, <2>10 DEF IInv
<1>4. CASE drain_next
  <2>1. TypeOK'
    BY <1>1, <1>4, Zenon DEF IInv, TypeOK, drain_next, replies
  <2>2. NoStaleEvent'
    BY <1>1, <1>4 DEF IInv, NoStaleEvent, drain_next
  <2>3. Handover'
    BY <1>1, <1>4 DEF IInv, Handover, drain_next, Shards
  <2> QED
    BY <1>2, <2>1, <2>2, <2>3 DEF IInv
<1>5. CASE send_fails \/ send_done
  <2>1. pc = "send" /\ pc' = "drain" /\ cur' = cur /\ outbound' = outbound
    BY <1>5 DEF send_fails, send_done, At, replies
  <2>2. TypeOK'
    BY <1>1, <2>1, Zenon DEF IInv, TypeOK
  <2>3. NoStaleEvent' /\ Handover'
    BY <1>1, <2>1 DEF IInv, NoStaleEvent, Handover
  <2> QED
    BY <1>2, <2>2, <2>3 DEF IInv
<1> QED
  BY <1>3, <1>4, <1>5

\* send_all writes to the connection that owns the session of the reply: its
\* descriptor is still the one that the map had, and no other connection's.
LEMMA SendStep == IInv /\ send_bytes => IInv'
<1> SUFFICES ASSUME IInv, send_bytes PROVE IInv'
  OBVIOUS
<1> USE GatewayAssumption
<1> DEFINE c == file[out.fd]
           w == Least(Space(c), FRAME - out.sent)
           more == [k \in 1 .. w |-> Unit(out.sent + k)]
           U == [shard : Shards, sid : Sids, n : Nat, part : Nat]
<1>1. /\ pc = "send" /\ out.sent < FRAME /\ w > 0
      /\ got' = [got EXCEPT ![c] = @ \o more]
      /\ lag' = [lag EXCEPT ![c] = @ + w]
      /\ out' = [out EXCEPT !.sent = @ + w]
  BY DEF send_bytes
<1>2. UNCHANGED <<sessions_, closed_, sid_to_fd_, next_session_id_, owner, pc, events, cur, backlog,
                  file, outbound, asked, emitted>>
  BY DEF send_bytes, maps
<1>3. /\ out \in [fd : Fds, shard : Shards, sid : Sids, n : Nat, sent : 0 .. FRAME]
      /\ sid_to_fd_[out.sid] = out.fd
  BY <1>1 DEF IInv, Handover
<1>4. out.fd \in Fds /\ out.shard \in Shards /\ out.sid \in Sids /\ out.n \in Nat /\ out.sent \in 0 .. FRAME
  BY <1>3
<1>5. sessions_[out.fd] = out.sid /\ owner[out.sid] = c /\ c \in Conns
  BY <1>3, <1>4 DEF IInv, TypeOK, MapsAgree
<1>6. lag[c] \in 0 .. SOCKET_BUF
  BY <1>5 DEF IInv, TypeOK
<1>7. w \in Nat /\ lag[c] + w \in 0 .. SOCKET_BUF /\ out.sent + w \in 0 .. FRAME
  <2>1. Space(c) \in Nat /\ FRAME - out.sent \in Nat /\ lag[c] + Space(c) = SOCKET_BUF
    BY <1>4, <1>6 DEF Space
  <2>2. w \in Nat /\ w <= Space(c) /\ w <= FRAME - out.sent
    BY <2>1, LeastFits, Zenon
  <2> HIDE DEF w
  <2> QED
    BY <2>1, <2>2, <1>4, <1>6
<1> HIDE DEF c, w
<1>8. more \in Seq(U) /\ Len(more) = w /\ \A k \in 1 .. w : more[k].sid = out.sid
  <2>1. ASSUME NEW k \in 1 .. w PROVE Unit(out.sent + k) \in U /\ Unit(out.sent + k).sid = out.sid
    <3>1. out.sent + k \in Nat
      BY <1>4, <1>7
    <3>2. \A j \in Nat : Unit(j) \in U /\ Unit(j).sid = out.sid
      BY <1>4 DEF Unit
    <3> QED
      BY <3>1, <3>2
  <2> HIDE DEF U
  <2>2. more \in [1 .. w -> U] /\ \A k \in 1 .. w : more[k].sid = out.sid
    BY <2>1
  <2> HIDE DEF more
  <2>3. more \in Seq(U) /\ Len(more) = w
    BY <2>2, <1>7
  <2> QED
    BY <2>2, <2>3
<1>9. got[c] \in Seq(U)
  BY <1>5, Zenon DEF IInv, TypeOK
<1> HIDE DEF more, U
<1>10. got[c] \o more \in Seq(U)
  BY <1>8, <1>9
<1>11. TypeOK'
  <2>1. got' \in [Conns -> Seq(U)]
    BY <1>1, <1>5, <1>10, Zenon DEF IInv, TypeOK, U
  <2>2. lag' \in [Conns -> 0 .. SOCKET_BUF]
    BY <1>1, <1>5, <1>7 DEF IInv, TypeOK
  <2> QED
    BY <1>2, <2>1, <2>2, Zenon DEF IInv, TypeOK, U
<1>12. MapsAgree' /\ FreshIds'
  BY <1>2 DEF IInv, MapsAgree, FreshIds
<1>13. NoStaleEvent'
  BY <1>2 DEF IInv, NoStaleEvent
<1>14. RepliesToOwner'
  <2> SUFFICES ASSUME NEW d \in Conns, NEW k \in DOMAIN got'[d]
               PROVE  owner[got'[d][k].sid] = d
    BY <1>2 DEF RepliesToOwner
  <2>1. CASE d # c
    BY <1>1, <2>1 DEF IInv, TypeOK, RepliesToOwner
  <2>2. CASE d = c
    <3>1. got'[c] = got[c] \o more
      BY <1>1, <1>5 DEF IInv, TypeOK
    <3>2. CASE k \in DOMAIN got[c]
      <4>1. k \in 1 .. Len(got[c]) + Len(more) /\ k <= Len(got[c])
        BY <3>2, <1>7, <1>8, <1>9
      <4>2. got'[c][k] = got[c][k]
        BY <3>1, <4>1, <1>8, <1>9, ConcatAt
      <4> QED
        BY <4>2, <3>2, <2>2 DEF IInv, RepliesToOwner
    <3>3. CASE k \notin DOMAIN got[c]
      <4>1. k \in 1 .. Len(got[c]) + w /\ k > Len(got[c])
        BY <3>1, <3>3, <2>2, <1>7, <1>8, <1>9
      <4>2. k - Len(got[c]) \in 1 .. w
        BY <4>1, <1>7, <1>9
      <4>3. got'[c][k] = more[k - Len(got[c])]
        <5>1. k \in 1 .. Len(got[c]) + Len(more) /\ ~(k <= Len(got[c]))
          BY <4>1, <1>8, <1>9
        <5> QED
          BY <3>1, <5>1, <1>8, <1>9, ConcatAt
      <4>4. more[k - Len(got[c])].sid = out.sid
        BY <4>2, <1>8
      <4> QED
        BY <4>3, <4>4, <1>5, <2>2
    <3> QED
      BY <3>2, <3>3
  <2> QED
    BY <2>1, <2>2
<1>15. Handover'
  <2>1. out' \in [fd : Fds, shard : Shards, sid : Sids, n : Nat, sent : 0 .. FRAME]
        /\ out'.sid = out.sid /\ out'.fd = out.fd
    BY <1>1, <1>3, <1>7
  <2> QED
    BY <1>1, <1>2, <1>3, <2>1 DEF IInv, Handover
<1> QED
  BY <1>11, <1>12, <1>13, <1>14, <1>15 DEF IInv

\* Clients and shards change nothing that the gateway's thread relies on.
LEMMA OthersStep ==
  IInv /\ ((\E c \in Conns : Client(c)) \/ \E s \in Shards, sid \in Sids : push_out(s, sid)) => IInv'
<1> SUFFICES ASSUME IInv,
                    (\E c \in Conns : Client(c)) \/ \E s \in Shards, sid \in Sids : push_out(s, sid)
             PROVE  IInv'
  OBVIOUS
<1> USE GatewayAssumption
<1>1. ASSUME NEW c \in Conns, Client(c) PROVE IInv'
  <2>1. UNCHANGED <<sessions_, closed_, sid_to_fd_, next_session_id_, owner, pc, events, cur, out, file,
                    outbound, asked, emitted, got, cut>>
    BY <1>1 DEF Client, Connect, Disconnect, ReadReplies, Send, maps, replies
  <2>2. backlog' \subseteq Conns
    BY <1>1 DEF Client, Connect, Disconnect, ReadReplies, Send, IInv, TypeOK
  <2>3. lag' = lag \/ lag' = [lag EXCEPT ![c] = 0]
    BY <1>1 DEF Client, Connect, Disconnect, ReadReplies, Send
  <2>4. lag' \in [Conns -> 0 .. SOCKET_BUF]
    <3>1. lag \in [Conns -> 0 .. SOCKET_BUF] /\ 0 \in 0 .. SOCKET_BUF
      BY DEF IInv, TypeOK
    <3> QED
      BY <2>3, <3>1
  <2>5. TypeOK'
    BY <2>1, <2>2, <2>4, Zenon DEF IInv, TypeOK
  <2>6. MapsAgree' /\ RepliesToOwner' /\ FreshIds'
    BY <2>1, QuietStep, Zenon DEF IInv
  <2>7. NoStaleEvent' /\ Handover'
    BY <2>1 DEF IInv, NoStaleEvent, Handover
  <2> QED
    BY <2>5, <2>6, <2>7 DEF IInv
<1>2. ASSUME NEW s \in Shards, NEW sid \in Sids, push_out(s, sid) PROVE IInv'
  <2>1. UNCHANGED <<sessions_, closed_, sid_to_fd_, next_session_id_, owner, pc, events, cur, out, file,
                    backlog, lag, asked, got, cut>>
    BY <1>2 DEF push_out, maps, kernel
  <2>2. emitted[s][sid] \in Nat /\ outbound[s] \in Seq([sid : Sids, n : Nat])
    <3>1. emitted \in [Shards -> [Sids -> Nat]] /\ outbound \in [Shards -> Seq([sid : Sids, n : Nat])]
      BY Zenon DEF IInv, TypeOK
    <3> QED
      BY <3>1, Zenon
  <2>3. Append(outbound[s], [sid |-> sid, n |-> emitted[s][sid] + 1]) \in Seq([sid : Sids, n : Nat])
    <3>1. [sid |-> sid, n |-> emitted[s][sid] + 1] \in [sid : Sids, n : Nat]
      BY <2>2
    <3> QED
      BY <2>2, <3>1, AppendType
  <2>4. outbound' \in [Shards -> Seq([sid : Sids, n : Nat])]
    BY <1>2, <2>3, Zenon DEF push_out, IInv, TypeOK
  <2>5. emitted' \in [Shards -> [Sids -> Nat]]
    BY <1>2, <2>2 DEF push_out, IInv, TypeOK
  <2>6. TypeOK'
    BY <2>1, <2>4, <2>5, Zenon DEF IInv, TypeOK
  <2>7. MapsAgree' /\ RepliesToOwner' /\ FreshIds'
    BY <2>1, QuietStep, Zenon DEF IInv
  <2>8. NoStaleEvent' /\ Handover'
    BY <2>1 DEF IInv, NoStaleEvent, Handover
  <2> QED
    BY <2>6, <2>7, <2>8 DEF IInv
<1> QED
  BY <1>1, <1>2

\* The invariant is inductive.
LEMMA NextIInv == IInv /\ [Next]_vars => IInv'
<1> SUFFICES ASSUME IInv, [Next]_vars PROVE IInv'
  OBVIOUS
<1>1. CASE poll_once
  BY <1>1, EventStep, AcceptStep, RecvEndStep, DrainStep, SendStep DEF poll_once
<1>2. CASE stop
  <2>1. UNCHANGED <<sessions_, closed_, sid_to_fd_, next_session_id_, owner, pc, events, cur, out, file,
                    backlog, lag, outbound, asked, emitted, got, cut>>
    BY <1>2, Zenon DEF stop, kernel, replies
  <2> QED
    BY <2>1, Zenon DEF IInv, TypeOK, MapsAgree, NoStaleEvent, RepliesToOwner, FreshIds, Handover
<1>3. CASE UNCHANGED vars
  BY <1>3, Zenon DEF vars, IInv, TypeOK, MapsAgree, NoStaleEvent, RepliesToOwner, FreshIds, Handover
<1> QED
  BY <1>1, <1>2, <1>3, OthersStep DEF Next

\* The invariant holds in every reachable state of the gateway.
THEOREM GatewayInvariant == Spec => []IInv
<1>1. Init => IInv
  BY InitIInv
<1>2. IInv /\ [Next]_vars => IInv'
  BY NextIInv
<1> QED
  BY <1>1, <1>2, PTL DEF Spec

\* sessions_, sid_to_fd_ and the kernel's descriptors agree after any sequence of
\* accept_all and close_session.
THEOREM GatewayMapsAgree == Spec => []MapsAgree
<1>1. IInv => MapsAgree
  BY DEF IInv
<1> QED
  BY <1>1, GatewayInvariant, PTL

\* poll_once never handles an event of a descriptor that has been closed since
\* epoll_wait returned.
THEOREM GatewayNoStaleEvent == Spec => []NoStaleEvent
<1>1. IInv => NoStaleEvent
  BY DEF IInv
<1> QED
  BY <1>1, GatewayInvariant, PTL

\* drain_outbound writes a reply only to the connection whose session id it is
\* stamped with.
THEOREM GatewayRepliesToOwner == Spec => []RepliesToOwner
<1>1. IInv => RepliesToOwner
  BY DEF IInv
<1> QED
  BY <1>1, GatewayInvariant, PTL
=============================================================================
