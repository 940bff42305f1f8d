---------------------------- MODULE UringGateway ----------------------------
(***************************************************************************)
(* lx::net::UringGateway: the gateway over io_uring, for one shard.  The   *)
(* thread prepares submission entries and reaps completions; the kernel,   *)
(* modelled from how the code uses it, issues the entries in order,        *)
(* resolves their descriptors when it issues them, and completes them in   *)
(* any order.  Without SQPOLL io_uring_submit returns when every entry has *)
(* been issued; with SQPOLL a kernel thread issues them at any later time. *)
(* Requests and replies are abstracted as in Gateway.                      *)
(***************************************************************************)
EXTENDS Integers, Sequences, FiniteSets

CONSTANTS Conns, Fds, NONE,
          SQPOLL,        \* the constructor's sqpoll
          RING_DEPTH, SEND_SLOTS,
          QUEUE_DEPTH, FRAME, SOCKET_BUF,
          MAX_SESSIONS, MAX_REPLIES  \* bounds, as in Gateway

Sids == 1 .. MAX_SESSIONS
Slots == 0 .. SEND_SLOTS - 1

ASSUME UringAssumption ==
  /\ {SEND_SLOTS, QUEUE_DEPTH, FRAME, SOCKET_BUF} \subseteq Nat \ {0}
  /\ RING_DEPTH \in Nat /\ RING_DEPTH >= 2 /\ SQPOLL \in BOOLEAN
  /\ {MAX_SESSIONS, MAX_REPLIES} \subseteq Nat
  /\ NONE \notin Conns \cup Fds \cup Sids

VARIABLES conns_, sid_to_fd_, next_session_id_,
          free_slots_,  \* the stack free_slots_[0 .. free_top_ - 1]
          send_pool_,
          pc, out,      \* where poll_once is; the reply of the blocking fallback
          prepared,     \* entries not yet submitted
          published,    \* entries submitted and not yet issued
          inflight,     \* issued entries and the connections they resolved to
          cq,           \* completions
          client, backlog, file, unread, lag,
          outbound, asked, emitted,  \* emitted: history
          owner, got, cut,           \* history, as in Gateway
          waited        \* history: connections whose sends may overtake each other

maps == <<conns_, sid_to_fd_, next_session_id_, owner>>
slots == <<free_slots_, send_pool_>>
socket == <<client, backlog, file, unread>>
wire == <<lag, got, cut, waited>>
rings == <<prepared, published, inflight, cq>>
shard == <<outbound, asked, emitted>>
vars == <<conns_, sid_to_fd_, next_session_id_, free_slots_, send_pool_, pc, out,
          prepared, published, inflight, cq, client, backlog, file, unread, lag, outbound, asked, emitted,
          owner, got, cut, waited>>

Accept == [op |-> "ACCEPT"]
Recv(fd) == [op |-> "RECV", fd |-> fd]
Send(fd, slot) == [op |-> "SEND", fd |-> fd, slot |-> slot]

\* The constructor fills the free list, arms accept and submits.
Init ==
  /\ conns_ = [fd \in Fds |-> NONE] /\ sid_to_fd_ = [sid \in Sids |-> NONE]
  /\ next_session_id_ = 1
  /\ free_slots_ = [i \in 1 .. SEND_SLOTS |-> i - 1] /\ send_pool_ = [i \in Slots |-> NONE]
  /\ pc = "drain" /\ out = NONE
  /\ prepared = <<>> /\ published = <<Accept>> /\ inflight = {} /\ cq = <<>>
  /\ client = [c \in Conns |-> "idle"] /\ backlog = {}
  /\ file = [fd \in Fds |-> NONE] /\ unread = [c \in Conns |-> "none"]
  /\ lag = [c \in Conns |-> 0]
  /\ outbound = <<>> /\ asked = {} /\ emitted = [sid \in Sids |-> 0]
  /\ owner = [sid \in Sids |-> NONE]
  /\ got = [c \in Conns |-> <<>>] /\ cut = {} /\ waited = {}

-----------------------------------------------------------------------------
(* Clients and the shard                                                    *)

Connect(c) ==
  /\ client[c] = "idle"
  /\ client' = [client EXCEPT ![c] = "open"]
  /\ backlog' = backlog \cup {c}
  /\ UNCHANGED <<file, unread, lag>>

\* A connection is used once it is accepted (the gateway cannot tell what a client
\* did before from what it does right afterwards), and no bytes reach the gateway
\* on a descriptor that it has closed.
Write(c, bytes) ==
  /\ client[c] = "open" /\ \E fd \in Fds : file[fd] = c
  /\ unread' = [unread EXCEPT ![c] = IF @ = "bad" THEN @ ELSE bytes]
  /\ UNCHANGED <<client, backlog, file, lag>>

Disconnect(c) ==
  /\ client[c] = "open" /\ c \notin backlog
  /\ client' = [client EXCEPT ![c] = "gone"]
  /\ UNCHANGED <<backlog, file, unread, lag>>

ReadReplies(c) ==
  /\ client[c] = "open" /\ lag[c] > 0
  /\ lag' = [lag EXCEPT ![c] = 0]
  /\ UNCHANGED socket

Client(c) ==
  /\ \/ Connect(c) \/ Disconnect(c) \/ ReadReplies(c)
     \/ \E bytes \in {"requests", "bad"} : Write(c, bytes)
  /\ UNCHANGED <<maps, slots, pc, out, rings, got, cut, waited, shard>>

push_out(sid) ==
  /\ sid \in asked /\ emitted[sid] < MAX_REPLIES
  /\ Len(outbound) < QUEUE_DEPTH
  /\ emitted' = [emitted EXCEPT ![sid] = @ + 1]
  /\ outbound' = Append(outbound, [sid |-> sid, n |-> emitted[sid] + 1])
  /\ UNCHANGED <<maps, slots, pc, out, rings, socket, wire, asked>>

-----------------------------------------------------------------------------
(* The kernel                                                               *)

Space(c) == SOCKET_BUF - lag[c]
Least(a, b) == IF a < b THEN a ELSE b

\* Units k + 1 .. k + w of the reply m on the connection.
Written(c, m, k, w) ==
  /\ got' = [got EXCEPT ![c] = @ \o [j \in 1 .. w |-> <<m.sid, m.n, k + j>>]]
  /\ lag' = [lag EXCEPT ![c] = @ + w]

Complete(cqe) == cq' = Append(cq, cqe)

\* A send writes what fits, at least one unit, and its result is not looked at;
\* or the peer is gone.
Sent(c, sqe) ==
  /\ \/ LET w == Least(Space(c), FRAME) IN
        /\ w > 0
        /\ Written(c, send_pool_[sqe.slot], 0, w)
        /\ cut' = IF w < FRAME THEN cut \cup {c} ELSE cut
     \/ client[c] = "gone" /\ cut' = cut \cup {c} /\ UNCHANGED <<got, lag>>
  /\ Complete([op |-> "SEND", slot |-> sqe.slot])

\* The next entry is issued: its descriptor is looked up now.
issue ==
  /\ published # <<>>
  /\ published' = Tail(published)
  /\ LET sqe == Head(published)
         c == IF sqe.op = "ACCEPT" THEN NONE ELSE file[sqe.fd]
         later == inflight' = inflight \cup {[sqe |-> sqe, conn |-> c]}
     IN
     \/ /\ sqe.op \in {"ACCEPT", "RECV"}
        /\ later /\ UNCHANGED <<cq, wire>>
     \/ /\ sqe.op = "SEND" /\ c = NONE  \* EBADF
        /\ Complete([op |-> "SEND", slot |-> sqe.slot])
        /\ UNCHANGED <<inflight, wire>>
     \/ /\ sqe.op = "SEND" /\ c # NONE /\ Sent(c, sqe)
        /\ UNCHANGED <<inflight, waited>>
     \/ /\ sqe.op = "SEND" /\ c # NONE /\ Space(c) = 0
        /\ later /\ waited' = waited \cup {c}
        /\ UNCHANGED <<cq, lag, got, cut>>
  /\ UNCHANGED <<maps, slots, pc, out, prepared, socket, shard>>

\* The multishot accept: a descriptor per connection.  The kernel may end it at
\* any time, and does so when there is no descriptor left.
complete_accept ==
  /\ \E op \in inflight : \E more \in BOOLEAN :
       /\ op.sqe = Accept /\ backlog # {}
       /\ \/ \E c \in backlog, fd \in Fds :
               /\ file[fd] = NONE
               /\ file' = [file EXCEPT ![fd] = c] /\ backlog' = backlog \ {c}
               /\ Complete([op |-> "ACCEPT", res |-> fd, more |-> more])
          \/ /\ ~more /\ \A fd \in Fds : file[fd] # NONE
             /\ Complete([op |-> "ACCEPT", res |-> NONE, more |-> more])
             /\ UNCHANGED <<file, backlog>>
       /\ inflight' = IF more THEN inflight ELSE inflight \ {op}
  /\ UNCHANGED <<maps, slots, pc, out, prepared, published, client, unread, wire, shard>>

complete_recv ==
  /\ \E op \in inflight :
       /\ op.sqe.op = "RECV"
       /\ unread[op.conn] # "none" \/ client[op.conn] = "gone"
       /\ Complete([op |-> "RECV", fd |-> op.sqe.fd, res |-> unread[op.conn]])
       /\ unread' = [unread EXCEPT ![op.conn] = "none"]
       /\ inflight' = inflight \ {op}
  /\ UNCHANGED <<maps, slots, pc, out, prepared, published, client, backlog, file, wire, shard>>

complete_send ==
  /\ \E op \in inflight :
       /\ op.sqe.op = "SEND"
       /\ Sent(op.conn, op.sqe)
       /\ inflight' = inflight \ {op}
  /\ UNCHANGED <<maps, slots, pc, out, prepared, published, socket, waited, shard>>

Kernel == issue \/ complete_accept \/ complete_recv \/ complete_send

-----------------------------------------------------------------------------
(* poll_once                                                                *)

\* io_uring_submit waits for the entries to be issued, except with SQPOLL.
Running == SQPOLL \/ published = <<>>

At(p) == pc = p /\ Running

Room(k) == Len(prepared) + Len(published) + k <= RING_DEPTH

Msg == Head(outbound)

\* The entries that the next reply or the next completion needs.
Wanted ==
  LET cqe == Head(cq)
      one(P) == IF P THEN 1 ELSE 0
  IN CASE pc = "drain" ->
            one(outbound # <<>> /\ sid_to_fd_[Msg.sid] # NONE /\ free_slots_ # <<>>)
       [] pc = "reap" /\ cq # <<>> /\ cqe.op = "ACCEPT" -> one(cqe.res # NONE) + one(~cqe.more)
       [] pc = "reap" /\ cq # <<>> /\ cqe.op = "RECV" ->
            one(conns_[cqe.fd] # NONE /\ cqe.res = "requests")
       [] OTHER -> 0

\* get_sqe on a full ring submits, and again, until there is room.
get_sqe_full ==
  /\ Running /\ ~Room(Wanted) /\ prepared # <<>>
  /\ published' = published \o prepared /\ prepared' = <<>>
  /\ UNCHANGED <<maps, slots, pc, out, inflight, cq, socket, wire, shard>>

Pop ==
  /\ At("drain") /\ outbound # <<>>
  /\ outbound' = Tail(outbound)
  /\ Room(Wanted)
  /\ UNCHANGED <<maps, published, inflight, cq, socket, asked, emitted>>

\* The client is gone.
drain_drop ==
  /\ Pop /\ sid_to_fd_[Msg.sid] = NONE
  /\ UNCHANGED <<slots, pc, out, prepared, wire>>

\* Mutant: the slot is read and not taken off the free list.
drain_send_no_alloc ==
  /\ Pop /\ sid_to_fd_[Msg.sid] # NONE /\ free_slots_ # <<>>
  /\ LET slot == free_slots_[Len(free_slots_)] IN
     /\ send_pool_' = [send_pool_ EXCEPT ![slot] = Msg]
     /\ prepared' = Append(prepared, Send(sid_to_fd_[Msg.sid], slot))
  /\ UNCHANGED <<free_slots_, pc, out, wire>>

drain_send ==
  /\ Pop /\ sid_to_fd_[Msg.sid] # NONE /\ free_slots_ # <<>>
  /\ LET slot == free_slots_[Len(free_slots_)] IN
     /\ free_slots_' = SubSeq(free_slots_, 1, Len(free_slots_) - 1)
     /\ send_pool_' = [send_pool_ EXCEPT ![slot] = Msg]
     /\ prepared' = Append(prepared, Send(sid_to_fd_[Msg.sid], slot))
  /\ UNCHANGED <<pc, out, wire>>

\* No slot: a ::send on a blocking socket, ahead of the entries in the ring.
drain_fallback ==
  /\ Pop /\ sid_to_fd_[Msg.sid] # NONE /\ free_slots_ = <<>>
  /\ pc' = "fallback"
  /\ LET fd == sid_to_fd_[Msg.sid] IN
     /\ out' = [fd |-> fd, sid |-> Msg.sid, n |-> Msg.n, sent |-> 0]
     /\ waited' = waited \cup {file[fd]}
  /\ UNCHANGED <<slots, prepared, lag, got, cut>>

fallback_send ==
  /\ At("fallback")
  /\ LET c == file[out.fd]
         w == Least(Space(c), FRAME - out.sent)
     IN
     \/ /\ w > 0 /\ Written(c, out, out.sent, w) /\ UNCHANGED cut
        /\ IF out.sent + w = FRAME THEN pc' = "drain" /\ out' = NONE
           ELSE out' = [out EXCEPT !.sent = @ + w] /\ UNCHANGED pc
     \/ /\ client[c] = "gone" /\ cut' = cut \cup {c}
        /\ pc' = "drain" /\ out' = NONE /\ UNCHANGED <<lag, got>>
  /\ UNCHANGED <<maps, slots, rings, socket, waited, shard>>

\* The ring is drained: io_uring_submit, then wait for a completion or the
\* timeout.
submit ==
  /\ At("drain") /\ outbound = <<>>
  /\ pc' = "reap"
  /\ published' = published \o prepared /\ prepared' = <<>>
  /\ UNCHANGED <<maps, slots, out, inflight, cq, socket, wire, shard>>

Reaped(next) ==
  /\ At("reap") /\ cq = <<>>
  /\ pc' = next
  /\ UNCHANGED <<maps, slots, out, rings, socket, wire, shard>>

\* The next poll_once.
reap_end == Reaped("drain")

\* run finds running_ false: another thread has called stop, at any time before.
run_exit == Reaped("exited")

Cqe(op) ==
  /\ At("reap") /\ cq # <<>> /\ Head(cq).op = op /\ Room(Wanted)
  /\ cq' = Tail(cq)
  /\ UNCHANGED <<pc, out, published, inflight, client, backlog, unread, wire, outbound, emitted>>

\* Mutant: an accept that the kernel has ended is not armed again.
on_accept_no_rearm ==
  /\ Cqe("ACCEPT")
  /\ LET cfd == Head(cq).res IN
     IF cfd = NONE THEN UNCHANGED <<maps, prepared>>
     ELSE /\ next_session_id_ <= MAX_SESSIONS
          /\ next_session_id_' = next_session_id_ + 1
          /\ conns_' = [conns_ EXCEPT ![cfd] = next_session_id_]
          /\ sid_to_fd_' = [sid_to_fd_ EXCEPT ![next_session_id_] = cfd]
          /\ owner' = [owner EXCEPT ![next_session_id_] = file[cfd]]
          /\ prepared' = Append(prepared, Recv(cfd))
  /\ UNCHANGED <<slots, file, asked>>

\* Mutant: the session id is not advanced.
on_accept_same_sid ==
  /\ Cqe("ACCEPT")
  /\ LET cfd == Head(cq).res
         rearm == IF Head(cq).more THEN <<>> ELSE <<Accept>>
     IN
     IF cfd = NONE THEN prepared' = prepared \o rearm /\ UNCHANGED maps
     ELSE /\ conns_' = [conns_ EXCEPT ![cfd] = next_session_id_]
          /\ sid_to_fd_' = [sid_to_fd_ EXCEPT ![next_session_id_] = cfd]
          /\ owner' = [owner EXCEPT ![next_session_id_] = file[cfd]]
          /\ UNCHANGED next_session_id_
          /\ prepared' = prepared \o <<Recv(cfd)>> \o rearm
  /\ UNCHANGED <<slots, file, asked>>

on_accept ==
  /\ Cqe("ACCEPT")
  /\ LET cfd == Head(cq).res
         rearm == IF Head(cq).more THEN <<>> ELSE <<Accept>>
     IN
     IF cfd = NONE THEN prepared' = prepared \o rearm /\ UNCHANGED maps
     ELSE /\ next_session_id_ <= MAX_SESSIONS
          /\ next_session_id_' = next_session_id_ + 1
          /\ conns_' = [conns_ EXCEPT ![cfd] = next_session_id_]
          /\ sid_to_fd_' = [sid_to_fd_ EXCEPT ![next_session_id_] = cfd]
          /\ owner' = [owner EXCEPT ![next_session_id_] = file[cfd]]
          /\ prepared' = prepared \o <<Recv(cfd)>> \o rearm
  /\ UNCHANGED <<slots, file, asked>>

close_conn(fd) ==
  /\ sid_to_fd_' = [sid_to_fd_ EXCEPT ![conns_[fd]] = NONE]
  /\ file' = [file EXCEPT ![fd] = NONE]
  /\ conns_' = [conns_ EXCEPT ![fd] = NONE]
  /\ UNCHANGED <<next_session_id_, owner>>

\* Mutant: recv is armed before the frames are looked at.
on_recv_armed_early ==
  /\ Cqe("RECV")
  /\ LET fd == Head(cq).fd
         res == Head(cq).res
     IN
     \/ /\ conns_[fd] = NONE
        /\ UNCHANGED <<maps, file, prepared, asked>>
     \/ /\ conns_[fd] # NONE /\ res \in {"none", "bad"}
        /\ close_conn(fd)
        /\ prepared' = IF res = "bad" THEN Append(prepared, Recv(fd)) ELSE prepared
        /\ asked' = IF res = "bad" THEN asked \cup {conns_[fd]} ELSE asked
     \/ /\ conns_[fd] # NONE /\ res = "requests"
        /\ asked' = asked \cup {conns_[fd]}
        /\ prepared' = Append(prepared, Recv(fd))
        /\ UNCHANGED <<maps, file>>
  /\ UNCHANGED slots

\* The end of the stream or an error; bytes with an invalid frame, behind requests
\* that have been pushed; or requests.
on_recv ==
  /\ Cqe("RECV")
  /\ LET fd == Head(cq).fd
         res == Head(cq).res
     IN
     \/ /\ conns_[fd] = NONE
        /\ UNCHANGED <<maps, file, prepared, asked>>
     \/ /\ conns_[fd] # NONE /\ res \in {"none", "bad"}
        /\ close_conn(fd)
        /\ asked' = IF res = "bad" THEN asked \cup {conns_[fd]} ELSE asked
        /\ UNCHANGED prepared
     \/ /\ conns_[fd] # NONE /\ res = "requests"
        /\ asked' = asked \cup {conns_[fd]}
        /\ prepared' = Append(prepared, Recv(fd))
        /\ UNCHANGED <<maps, file>>
  /\ UNCHANGED slots

\* Mutant: the slot of a completed send is not given back.
on_send_leak ==
  /\ Cqe("SEND")
  /\ UNCHANGED <<maps, slots, file, prepared, asked>>

\* free_send_slot, whatever the result of the send.
on_send ==
  /\ Cqe("SEND")
  /\ free_slots_' = Append(free_slots_, Head(cq).slot)
  /\ UNCHANGED <<maps, send_pool_, file, prepared, asked>>

handle_cqe == on_accept \/ on_recv \/ on_send

poll_once ==
  \/ drain_drop \/ drain_send \/ drain_fallback \/ fallback_send
  \/ get_sqe_full \/ submit
  \/ handle_cqe \/ reap_end \/ run_exit

Next ==
  \/ poll_once \/ Kernel
  \/ \E c \in Conns : Client(c)
  \/ \E sid \in Sids : push_out(sid)

Spec == Init /\ [][Next]_vars

-----------------------------------------------------------------------------
\* The submission queue: the entries that the kernel has not issued.
Queue == published \o prepared

Count(s, X) == Cardinality({i \in DOMAIN s : s[i] \in X})

\* How many entries and completions of a kind X are between get_sqe and handle_cqe.
OnTheirWay(X) == Count(Queue, X) + Cardinality({op \in inflight : op.sqe \in X}) + Count(cq, X)

Results == {"none", "requests", "bad"}  \* of a recv
SendsOf(slot) == {Send(fd, slot) : fd \in Fds} \cup {[op |-> "SEND", slot |-> slot]}
RecvsOf(fd) == {Recv(fd)} \cup {[op |-> "RECV", fd |-> fd, res |-> r] : r \in Results}
Accepts == {Accept} \cup {[op |-> "ACCEPT", res |-> r, more |-> FALSE] : r \in Fds \cup {NONE}}

\* Every slot of the send pool is in exactly one place: on the free list, or in
\* one send that is prepared, submitted, in flight or completed.  So an entry of
\* the pool is not overwritten while the kernel may still read it, no slot is
\* lost, and the free list does not overflow.
SlotInOnePlace ==
  \A slot \in Slots : Count(free_slots_, {slot}) + OnTheirWay(SendsOf(slot)) = 1

\* A connection with a session has exactly one receive on its way, so its bytes
\* are never read into one buffer twice at once and never left unread; a closed
\* descriptor has none, so no completion is taken for the next client's.
OneRecvPerConn ==
  \A fd \in Fds : OnTheirWay(RecvsOf(fd)) = (IF conns_[fd] = NONE THEN 0 ELSE 1)

\* Exactly one accept is armed, or its last completion is still to be handled.
OneAccept == OnTheirWay(Accepts) = 1

\* Bytes of a reply are written only to the connection whose session the reply
\* is stamped with.
RepliesToOwner ==
  \A c \in Conns : \A k \in DOMAIN got[c] : owner[got[c][k][1]] = c

\* The k-th unit on a connection is the unit it is in a stream of whole replies
\* numbered from 1.
UnitInOrder(c, k) ==
  got[c][k][2] = ((k - 1) \div FRAME) + 1 /\ got[c][k][3] = ((k - 1) % FRAME) + 1

\* A connection on which no send had to wait, none fell back to a blocking send
\* and none was short has received whole replies, in order, each once.
RepliesInOrder ==
  \A c \in Conns \ (cut \cup waited) : \A k \in DOMAIN got[c] :
    owner[got[c][k][1]] = c => UnitInOrder(c, k)

-----------------------------------------------------------------------------
(* The inductive invariant                                                  *)

Reply == [sid : Sids, n : Nat \ {0}]
Sqe == [op : {"ACCEPT"}] \cup [op : {"RECV"}, fd : Fds]
       \cup [op : {"SEND"}, fd : Fds, slot : Slots]
Completion == [op : {"ACCEPT"}, res : Fds \cup {NONE}, more : BOOLEAN]
              \cup [op : {"RECV"}, fd : Fds, res : Results] \cup [op : {"SEND"}, slot : Slots]

TypeOK ==
  /\ conns_ \in [Fds -> Sids \cup {NONE}] /\ sid_to_fd_ \in [Sids -> Fds \cup {NONE}]
  /\ next_session_id_ \in 1 .. MAX_SESSIONS + 1
  /\ free_slots_ \in Seq(Slots) /\ DOMAIN send_pool_ = Slots
  /\ pc \in {"drain", "fallback", "reap", "exited"}
  /\ prepared \in Seq(Sqe) /\ published \in Seq(Sqe) /\ cq \in Seq(Completion)
  /\ inflight \subseteq [sqe : Sqe, conn : Conns \cup {NONE}] /\ IsFiniteSet(inflight)
  /\ client \in [Conns -> {"idle", "open", "gone"}] /\ backlog \subseteq Conns
  /\ file \in [Fds -> Conns \cup {NONE}] /\ unread \in [Conns -> Results]
  /\ lag \in [Conns -> Int]
  /\ outbound \in Seq(Reply) /\ asked \subseteq Sids /\ emitted \in [Sids -> Nat]
  /\ owner \in [Sids -> Conns \cup {NONE}]
  /\ got \in [Conns -> Seq(Sids \X Int \X Int)]

Accepted(fd) == {[op |-> "ACCEPT", res |-> fd, more |-> more] : more \in BOOLEAN}

\* An open descriptor belongs to a session or to one accept that is not handled.
FdsAccounted ==
  \A fd \in Fds :
    OnTheirWay(Accepted(fd)) + (IF conns_[fd] = NONE THEN 0 ELSE 1)
      = (IF file[fd] = NONE THEN 0 ELSE 1)

\* The two maps are inverse to each other; ids not given out have done nothing.
MapsOK ==
  /\ \A fd \in Fds : conns_[fd] # NONE =>
       conns_[fd] < next_session_id_ /\ sid_to_fd_[conns_[fd]] = fd
  /\ \A sid \in Sids : sid_to_fd_[sid] # NONE =>
       conns_[sid_to_fd_[sid]] = sid /\ owner[sid] = file[sid_to_fd_[sid]]
  /\ \A sid \in Sids : owner[sid] # NONE <=> sid < next_session_id_
  /\ \A sid \in asked : sid < next_session_id_
  /\ \A sid \in Sids : emitted[sid] > 0 => sid \in asked

\* A connection has at most one descriptor and at most one session, and these
\* in turn.
ConnsOK ==
  /\ \A f, g \in Fds : file[f] # NONE /\ file[f] = file[g] => f = g
  /\ \A r, s \in Sids : owner[r] # NONE /\ owner[r] = owner[s] => r = s
  /\ \A c \in Conns : client[c] = "idle" \/ c \in backlog =>
       (\A fd \in Fds : file[fd] # c) /\ (\A sid \in Sids : owner[sid] # c)
  /\ \A c \in backlog : client[c] # "idle"
  /\ \A fd \in Fds : file[fd] # NONE /\ conns_[fd] = NONE => \A sid \in Sids : owner[sid] # file[fd]

\* What the sends on their way hold; the connection of one in flight, or of a
\* blocking one, is waited on.
SendsOK ==
  /\ \A i \in DOMAIN Queue : Queue[i].op = "SEND" => send_pool_[Queue[i].slot] \in Reply
  /\ \A op \in inflight :
       /\ op.sqe.op \in {"RECV", "SEND"} => op.conn \in Conns
       /\ op.sqe.op = "SEND" => send_pool_[op.sqe.slot] \in Reply /\ op.conn \in waited
  /\ pc = "fallback" =>
       /\ out \in [fd : Fds, sid : Sids, n : Nat \ {0}, sent : Nat]
       /\ sid_to_fd_[out.sid] = out.fd /\ owner[out.sid] \in waited

\* A send that is not issued yet names the descriptor that its session still
\* has, one in flight the connection of its session; when completions are
\* handled no send is waiting to be issued.
SendsBound ==
  /\ \A i \in DOMAIN Queue : Queue[i].op = "SEND" =>
       sid_to_fd_[send_pool_[Queue[i].slot].sid] = Queue[i].fd
  /\ \A op \in inflight : op.sqe.op = "SEND" => owner[send_pool_[op.sqe.slot].sid] = op.conn
  /\ pc = "reap" => \A i \in DOMAIN prepared : prepared[i].op # "SEND"

\* The i-th entry of the queue sends a reply to the session.
QueuedFor(i, sid) == Queue[i].op = "SEND" /\ send_pool_[Queue[i].slot].sid = sid
Number(i) == send_pool_[Queue[i].slot].n

\* The replies to a session that are queued, then those that are not popped yet,
\* are in the order in which the shard has emitted them.
Sorted ==
  \A sid \in Sids :
    /\ \A i, j \in DOMAIN Queue :
         i < j /\ QueuedFor(i, sid) /\ QueuedFor(j, sid) => Number(i) < Number(j)
    /\ \A i \in DOMAIN Queue, j \in DOMAIN outbound :
         QueuedFor(i, sid) /\ outbound[j].sid = sid => Number(i) < outbound[j].n
    /\ \A i, j \in DOMAIN outbound :
         i < j /\ outbound[i].sid = sid /\ outbound[j].sid = sid => outbound[i].n < outbound[j].n
    /\ \A i \in DOMAIN Queue : QueuedFor(i, sid) => Number(i) <= emitted[sid]
    /\ \A i \in DOMAIN outbound : outbound[i].sid = sid => outbound[i].n <= emitted[sid]

\* The replies to a session after its r-th are the ones still to be sent.
StillToSend(sid, r) ==
  /\ r <= emitted[sid]
  /\ \A i \in DOMAIN Queue : QueuedFor(i, sid) => Number(i) > r
  /\ \A i \in DOMAIN outbound : outbound[i].sid = sid => outbound[i].n > r
  /\ \A n \in r + 1 .. emitted[sid] :
       \/ \E i \in DOMAIN Queue : QueuedFor(i, sid) /\ Number(i) = n
       \/ \E i \in DOMAIN outbound : outbound[i].sid = sid /\ outbound[i].n = n

\* A connection that is neither cut nor waited on has received r whole replies,
\* and the others are still to be sent unless its session is over.
WholeReplies(c) ==
  \E r \in 0 .. Len(got[c]) :
    /\ Len(got[c]) = r * FRAME
    /\ \A k \in DOMAIN got[c] : UnitInOrder(c, k)
    /\ \A sid \in Sids : owner[sid] = c /\ sid_to_fd_[sid] # NONE => StillToSend(sid, r)

InOrder ==
  /\ \A c \in Conns : (\A sid \in Sids : owner[sid] # c) => got[c] = <<>>
  /\ \A c \in Conns \ (cut \cup waited) : WholeReplies(c)

IInv ==
  /\ TypeOK /\ SlotInOnePlace /\ OneRecvPerConn /\ OneAccept /\ FdsAccounted
  /\ MapsOK /\ ConnsOK /\ SendsOK /\ Sorted
  /\ ~SQPOLL => SendsBound /\ RepliesToOwner /\ InOrder
=============================================================================
