------------------------------ MODULE Gateway -------------------------------
(***************************************************************************)
(* lx::net::Gateway: one thread that owns every socket (epoll), the maps   *)
(* between descriptors and session ids, and the way of a reply from a      *)
(* shard's outbound ring to the client.  Framing and backpressure of       *)
(* requests are in Session and Router: here received bytes are requests    *)
(* that shards may answer, or a frame that closes the session.  A reply is *)
(* FRAME units of bytes, so that it can be written in part.                *)
(***************************************************************************)
EXTENDS Integers, Sequences

CONSTANTS Conns,         \* TCP connections; a client that comes back is another one
          Fds,           \* descriptor numbers the process may use
          LISTEN,        \* listen_fd_
          NONE,
          SHARDS,
          QUEUE_DEPTH,   \* capacity of an outbound ring
          STOPS,         \* whether some thread ever calls stop
          FRAME,         \* units of a reply
          SOCKET_BUF,    \* units the kernel buffers for a client that does not read
          MAX_SESSIONS,  \* bound: accepted connections (session ids have 32 bits)
          MAX_REPLIES    \* bound: replies of one shard to one session

Shards == 1 .. SHARDS
Sids == 1 .. MAX_SESSIONS

ASSUME GatewayAssumption ==
  /\ {SHARDS, QUEUE_DEPTH, FRAME, SOCKET_BUF} \subseteq Nat \ {0}
  /\ MAX_SESSIONS \in Nat /\ MAX_REPLIES \in Nat /\ STOPS \in BOOLEAN
  /\ NONE \notin Conns \cup Fds \cup Sids /\ LISTEN \notin Fds

VARIABLES sessions_,         \* session id of a descriptor
          closed_,           \* descriptors whose session met an invalid frame
          sid_to_fd_,        \* descriptor of a session id
          next_session_id_, running_,
          pc, events, cur,   \* where poll_once is, its batch, its descriptor or shard
          out,               \* the reply in send_all: [fd, shard, sid, n, sent]
          client,            \* the client's end: idle, open, gone or reset
          backlog,           \* connections not yet accepted
          file,              \* the connection behind an open descriptor
          unread,            \* bytes the gateway has not received
          lag,               \* units the client has not read
          outbound,          \* rings of replies [sid, n]
          asked,             \* history: sessions with a request in some shard
          emitted,           \* history: number of replies, by shard and session
          owner,             \* history: the connection a session id was given to
          got,               \* history: units written to a connection
          cut                \* history: the replies that send_all gave up, as they were then

kernel == <<client, backlog, file, unread, lag>>
maps == <<sessions_, closed_, sid_to_fd_, next_session_id_, running_, owner>>
replies == <<outbound, asked, emitted, got, cut>>
vars == <<sessions_, closed_, sid_to_fd_, next_session_id_, running_, pc, events, cur, out, client,
          backlog, file, unread, lag, outbound, asked, emitted, owner, got, cut>>

Init ==
  /\ sessions_ = [fd \in Fds |-> NONE] /\ closed_ = {}
  /\ sid_to_fd_ = [sid \in Sids |-> NONE] /\ next_session_id_ = 1 /\ running_ = TRUE
  /\ pc = "wait" /\ events = {} /\ cur = NONE /\ out = NONE
  /\ client = [c \in Conns |-> "idle"] /\ backlog = {}
  /\ file = [fd \in Fds |-> NONE]
  /\ unread = [c \in Conns |-> "none"] /\ lag = [c \in Conns |-> 0]
  /\ outbound = [s \in Shards |-> <<>>]
  /\ asked = {} /\ emitted = [s \in Shards |-> [sid \in Sids |-> 0]]
  /\ owner = [sid \in Sids |-> NONE]
  /\ got = [c \in Conns |-> <<>>] /\ cut = {}

-----------------------------------------------------------------------------
(* Clients                                                                  *)

Connect(c) ==
  /\ client[c] = "idle"
  /\ client' = [client EXCEPT ![c] = "open"]
  /\ backlog' = backlog \cup {c}
  /\ UNCHANGED <<file, unread, lag, maps, pc, events, cur, out, replies>>

\* A connection is used once it is accepted (the gateway cannot tell what a client
\* did before from what it does right afterwards), and no bytes reach the gateway
\* on a descriptor that it has closed.
Send(c, bytes) ==
  /\ client[c] = "open" /\ \E fd \in Fds : file[fd] = c
  /\ unread' = [unread EXCEPT ![c] = IF @ = "bad" THEN @ ELSE bytes]
  /\ UNCHANGED <<client, backlog, file, lag, maps, pc, events, cur, out, replies>>

\* The client closes its end, or its host resets the connection.
Disconnect(c, how) ==
  /\ client[c] = "open" /\ c \notin backlog
  /\ client' = [client EXCEPT ![c] = how]
  /\ UNCHANGED <<backlog, file, unread, lag, maps, pc, events, cur, out, replies>>

ReadReplies(c) ==
  /\ client[c] = "open" /\ lag[c] > 0
  /\ lag' = [lag EXCEPT ![c] = 0]
  /\ UNCHANGED <<client, backlog, file, unread, maps, pc, events, cur, out, replies>>

Client(c) ==
  \/ Connect(c) \/ ReadReplies(c)
  \/ \E how \in {"gone", "reset"} : Disconnect(c, how)
  \/ \E bytes \in {"requests", "bad"} : Send(c, bytes)

-----------------------------------------------------------------------------
(* Shards: a session with a request in a shard is answered at any later     *)
(* time, a resting order being filled long after its client has left.       *)

push_out(s, sid) ==
  /\ sid \in asked /\ emitted[s][sid] < MAX_REPLIES
  /\ Len(outbound[s]) < QUEUE_DEPTH
  /\ emitted' = [emitted EXCEPT ![s][sid] = @ + 1]
  /\ outbound' = [outbound EXCEPT ![s] = Append(@, [sid |-> sid, n |-> emitted[s][sid] + 1])]
  /\ UNCHANGED <<kernel, maps, pc, events, cur, out, asked, got, cut>>

-----------------------------------------------------------------------------
(* poll_once                                                                *)

At(from, to) == pc = from /\ pc' = to

\* EPOLLIN, level-triggered.
Readable(fd) ==
  file[fd] # NONE /\ (unread[file[fd]] # "none" \/ client[file[fd]] # "open")

Ready == {fd \in Fds : Readable(fd)} \cup (IF backlog = {} THEN {} ELSE {LISTEN})

epoll_wait ==
  /\ running_ /\ At("wait", "events")
  /\ events' = Ready
  /\ UNCHANGED <<kernel, maps, cur, out, replies>>

\* The loop of run ends; stop is called by another thread.
run_exit ==
  /\ ~running_ /\ At("wait", "exited")
  /\ UNCHANGED <<events, kernel, maps, cur, out, replies>>

stop ==
  /\ STOPS
  /\ running_' = FALSE
  /\ UNCHANGED <<sessions_, closed_, sid_to_fd_, next_session_id_, owner, kernel, pc, events, cur, out,
                 replies>>

\* The next event of the batch, in any order.
next_event ==
  /\ pc = "events"
  /\ \E e \in events :
       /\ events' = events \ {e}
       /\ cur' = e
       /\ pc' = IF e = LISTEN THEN "accept"
                ELSE IF sessions_[e] # NONE THEN "recv" ELSE "events"
  /\ UNCHANGED <<kernel, maps, out, replies>>

events_done ==
  /\ At("events", "drain")
  /\ events = {}
  /\ cur' = 1
  /\ UNCHANGED <<events, kernel, maps, out, replies>>

\* Mutant: the maps are keyed by a session id that is not advanced.
accept_same_sid ==
  /\ pc = "accept"
  /\ \E c \in backlog, fd \in Fds :
       /\ file[fd] = NONE
       /\ file' = [file EXCEPT ![fd] = c]
       /\ backlog' = backlog \ {c}
       /\ sessions_' = [sessions_ EXCEPT ![fd] = next_session_id_]
       /\ sid_to_fd_' = [sid_to_fd_ EXCEPT ![next_session_id_] = fd]
       /\ owner' = [owner EXCEPT ![next_session_id_] = c]
  /\ UNCHANGED <<next_session_id_, running_, closed_, client, unread, lag, pc, events, cur, out, replies>>

\* One round of accept_all; the kernel picks a free descriptor.
accept ==
  /\ pc = "accept" /\ next_session_id_ <= MAX_SESSIONS
  /\ \E c \in backlog, fd \in Fds :
       /\ file[fd] = NONE
       /\ file' = [file EXCEPT ![fd] = c]
       /\ backlog' = backlog \ {c}
       /\ sessions_' = [sessions_ EXCEPT ![fd] = next_session_id_]
       /\ sid_to_fd_' = [sid_to_fd_ EXCEPT ![next_session_id_] = fd]
       /\ owner' = [owner EXCEPT ![next_session_id_] = c]
  /\ next_session_id_' = next_session_id_ + 1
  /\ UNCHANGED <<running_, closed_, client, unread, lag, pc, events, cur, out, replies>>

\* accept returns -1: nothing pending, or no descriptor left.
accept_stop ==
  /\ At("accept", "events")
  /\ backlog = {} \/ \A fd \in Fds : file[fd] # NONE
  /\ UNCHANGED <<events, cur, kernel, maps, out, replies>>

-----------------------------------------------------------------------------
(* read_session and close_session                                           *)

close_session(fd) ==
  /\ sid_to_fd_' = [sid_to_fd_ EXCEPT ![sessions_[fd]] = NONE]
  /\ file' = [file EXCEPT ![fd] = NONE]
  /\ sessions_' = [sessions_ EXCEPT ![fd] = NONE]
  /\ closed_' = closed_ \ {fd}
  /\ UNCHANGED <<next_session_id_, running_, owner>>

\* recv returns bytes: append and consume.
recv_bytes ==
  /\ pc = "recv" /\ unread[file[cur]] # "none"
  /\ unread' = [unread EXCEPT ![file[cur]] = "none"]
  /\ asked' = IF cur \in closed_ THEN asked ELSE asked \cup {sessions_[cur]}
  /\ closed_' = IF unread[file[cur]] = "bad" THEN closed_ \cup {cur} ELSE closed_
  /\ UNCHANGED <<sessions_, sid_to_fd_, next_session_id_, running_, owner, client, backlog, file, lag,
                 pc, events, cur, out, outbound, emitted, got, cut>>

\* Mutant: the end of the stream is taken for "no more bytes yet".
recv_eof_ignored ==
  /\ At("recv", "events")
  /\ unread[file[cur]] = "none" /\ client[file[cur]] = "gone"
  /\ UNCHANGED <<events, cur, kernel, maps, out, replies>>

\* Mutant: the return after close_session is missing.
recv_eof_no_return ==
  /\ pc = "recv"
  /\ unread[file[cur]] = "none" /\ client[file[cur]] = "gone"
  /\ close_session(cur)
  /\ UNCHANGED <<pc, events, cur, client, backlog, unread, lag, out, replies>>

\* recv returns 0.
recv_eof ==
  /\ At("recv", "events")
  /\ unread[file[cur]] = "none" /\ client[file[cur]] = "gone"
  /\ close_session(cur)
  /\ UNCHANGED <<events, cur, client, backlog, unread, lag, out, replies>>

\* recv would block: leave the loop, and close a session that met a bad frame.
recv_again ==
  /\ At("recv", "events")
  /\ unread[file[cur]] = "none" /\ client[file[cur]] = "open"
  /\ IF cur \in closed_ THEN close_session(cur) ELSE UNCHANGED <<file, maps>>
  /\ UNCHANGED <<events, cur, client, backlog, unread, lag, out, replies>>

\* recv returns the error of a reset connection, once, and read_session treats it
\* as nothing to read; the next recv returns 0.
recv_error ==
  /\ At("recv", "events")
  /\ unread[file[cur]] = "none" /\ client[file[cur]] = "reset"
  /\ client' = [client EXCEPT ![file[cur]] = "gone"]
  /\ IF cur \in closed_ THEN close_session(cur) ELSE UNCHANGED <<file, maps>>
  /\ UNCHANGED <<events, cur, backlog, unread, lag, out, replies>>

-----------------------------------------------------------------------------
(* drain_outbound and send_all                                              *)

\* Mutant: a reply whose client is gone ends the loop and stays in the ring.
drain_pop_stops ==
  /\ pc = "drain" /\ outbound[cur] # <<>>
  /\ LET m == Head(outbound[cur])
         fd == sid_to_fd_[m.sid]
     IN IF fd = NONE THEN pc' = "wait" /\ cur' = NONE /\ UNCHANGED <<outbound, out>>
        ELSE /\ outbound' = [outbound EXCEPT ![cur] = Tail(@)]
             /\ pc' = "send" /\ UNCHANGED cur
             /\ out' = [fd |-> fd, shard |-> cur, sid |-> m.sid, n |-> m.n, sent |-> 0]
  /\ UNCHANGED <<events, kernel, maps, asked, emitted, got, cut>>

drain_pop ==
  /\ pc = "drain" /\ outbound[cur] # <<>>
  /\ outbound' = [outbound EXCEPT ![cur] = Tail(@)]
  /\ LET m == Head(outbound[cur])
         fd == sid_to_fd_[m.sid]
     IN IF fd = NONE THEN UNCHANGED <<pc, out>>
        ELSE /\ pc' = "send"
             /\ out' = [fd |-> fd, shard |-> cur, sid |-> m.sid, n |-> m.n, sent |-> 0]
  /\ UNCHANGED <<events, cur, kernel, maps, asked, emitted, got, cut>>

drain_next ==
  /\ pc = "drain" /\ outbound[cur] = <<>>
  /\ IF cur < SHARDS THEN cur' = cur + 1 /\ UNCHANGED pc
     ELSE cur' = NONE /\ pc' = "wait"
  /\ UNCHANGED <<events, out, kernel, maps, replies>>

Unit(k) == [shard |-> out.shard, sid |-> out.sid, n |-> out.n, part |-> k]
Space(c) == SOCKET_BUF - lag[c]
Least(a, b) == IF a < b THEN a ELSE b

\* Mutant: after a short write, send_all starts again with the first bytes.
send_bytes_restart ==
  /\ pc = "send" /\ out.sent < FRAME
  /\ LET c == file[out.fd]
         w == Least(Space(c), FRAME - out.sent)
     IN
     /\ w > 0
     /\ got' = [got EXCEPT ![c] = @ \o [k \in 1 .. w |-> Unit(k)]]
     /\ lag' = [lag EXCEPT ![c] = @ + w]
     /\ out' = [out EXCEPT !.sent = @ + w]
  /\ UNCHANGED <<pc, events, cur, client, backlog, file, unread, maps, outbound, asked, emitted, cut>>

\* One ::send that writes what fits.
send_bytes ==
  /\ pc = "send" /\ out.sent < FRAME
  /\ LET c == file[out.fd]
         w == Least(Space(c), FRAME - out.sent)
     IN
     /\ w > 0
     /\ got' = [got EXCEPT ![c] = @ \o [k \in 1 .. w |-> Unit(out.sent + k)]]
     /\ lag' = [lag EXCEPT ![c] = @ + w]
     /\ out' = [out EXCEPT !.sent = @ + w]
  /\ UNCHANGED <<pc, events, cur, client, backlog, file, unread, maps, outbound, asked, emitted, cut>>

\* Mutant: send_all tries again until the rest fits.
send_retried ==
  /\ pc = "send" /\ out.sent < FRAME /\ Space(file[out.fd]) = 0
  /\ UNCHANGED vars

\* ::send fails: the buffer is full or the peer is gone; the rest of the reply
\* is given up.
send_fails ==
  /\ At("send", "drain")
  /\ out.sent < FRAME
  /\ Space(file[out.fd]) = 0 \/ client[file[out.fd]] # "open"
  /\ cut' = cut \cup {out}
  /\ out' = NONE
  /\ UNCHANGED <<events, cur, kernel, maps, outbound, asked, emitted, got>>

send_done ==
  /\ At("send", "drain")
  /\ out.sent = FRAME
  /\ out' = NONE
  /\ UNCHANGED <<events, cur, kernel, maps, replies>>

-----------------------------------------------------------------------------
poll_once ==
  \/ epoll_wait \/ run_exit \/ next_event \/ events_done
  \/ accept \/ accept_stop
  \/ recv_bytes \/ recv_eof \/ recv_again \/ recv_error
  \/ drain_pop \/ drain_next
  \/ send_bytes \/ send_fails \/ send_done

Next ==
  \/ poll_once \/ stop
  \/ \E c \in Conns : Client(c)
  \/ \E s \in Shards, sid \in Sids : push_out(s, sid)

\* The gateway thread runs.  Nothing is assumed of clients, shards or stop.
Spec == Init /\ [][Next]_vars /\ WF_vars(poll_once)

-----------------------------------------------------------------------------
\* Type invariant.
TypeOK ==
  /\ sessions_ \in [Fds -> Sids \cup {NONE}] /\ closed_ \subseteq Fds
  /\ sid_to_fd_ \in [Sids -> Fds \cup {NONE}]
  /\ next_session_id_ \in 1 .. MAX_SESSIONS + 1
  /\ pc \in {"wait", "events", "accept", "recv", "drain", "send", "exited"}
  /\ events \subseteq Fds \cup {LISTEN}
  /\ backlog \subseteq Conns /\ file \in [Fds -> Conns \cup {NONE}]
  /\ lag \in [Conns -> 0 .. SOCKET_BUF]
  /\ outbound \in [Shards -> Seq([sid : Sids, n : Nat])]
  /\ asked \subseteq Sids /\ emitted \in [Shards -> [Sids -> Nat]]
  /\ owner \in [Sids -> Conns \cup {NONE}]
  /\ got \in [Conns -> Seq([shard : Shards, sid : Sids, n : Nat, part : Nat])]

\* sessions_, sid_to_fd_ and the kernel's descriptors agree after any sequence
\* of accepts, closes and reuses of descriptor numbers: both maps are inverse to
\* each other, exactly the open descriptors have a session, and the connection
\* behind a descriptor is the one that its session id was given to.
MapsAgree ==
  /\ \A fd \in Fds : sessions_[fd] = NONE <=> file[fd] = NONE
  /\ \A fd \in Fds : sessions_[fd] # NONE =>
       sid_to_fd_[sessions_[fd]] = fd /\ owner[sessions_[fd]] = file[fd]
  /\ \A sid \in Sids : sid_to_fd_[sid] # NONE => sessions_[sid_to_fd_[sid]] = sid

\* An event of a batch is for a descriptor that is still open when its turn
\* comes, although earlier events of the batch have closed and accepted others.
NoStaleEvent ==
  /\ \A fd \in events \ {LISTEN} : file[fd] # NONE
  /\ pc = "recv" => cur \in Fds /\ file[cur] # NONE

\* Bytes of a reply are written only to the connection whose session the reply
\* is stamped with, even when the client has left and its descriptor number
\* belongs to another client.
RepliesToOwner ==
  \A c \in Conns : \A k \in DOMAIN got[c] : owner[got[c][k].sid] = c

\* Session ids are given out in order: one that is still to come has no traces.
FreshIds ==
  \A sid \in Sids : sid >= next_session_id_ => owner[sid] = NONE /\ sid_to_fd_[sid] = NONE

\* What the steps of poll_once hand on to each other: the descriptor being read
\* is not in the rest of the batch, and send_all writes to the descriptor of the
\* session that the reply is for.
Handover ==
  /\ pc = "recv" => cur \notin events
  /\ pc \in {"drain", "send"} => cur \in Shards
  /\ pc = "send" =>
       /\ out \in [fd : Fds, shard : Shards, sid : Sids, n : Nat, sent : 0 .. FRAME]
       /\ sid_to_fd_[out.sid] = out.fd

\* The inductive invariant behind MapsAgree, NoStaleEvent and RepliesToOwner.
IInv == TypeOK /\ MapsAgree /\ NoStaleEvent /\ RepliesToOwner /\ FreshIds /\ Handover

UnitsUpTo(s, sid, n) ==
  [k \in 1 .. n * FRAME |-> [shard |-> s, sid |-> sid, n |-> ((k - 1) \div FRAME) + 1,
                              part |-> ((k - 1) % FRAME) + 1]]

\* The stream of a connected client is, for each shard, the replies that left the
\* shard's ring, in the order in which it emitted them: each is there once, whole,
\* except for the end of the one in send_all and of those that send_all gave up
\* when the socket was full.  A short write neither repeats nor skips bytes, and
\* what follows a reply that was given up is the beginning of a later one.
RepliesInOrder ==
  \A fd \in Fds, s \in Shards :
    LET c == file[fd]
        sid == sessions_[fd]
        queued == Len(SelectSeq(outbound[s], LAMBDA m : m.sid = sid))
        partial == IF pc = "send" THEN cut \cup {out} ELSE cut
        Reached(u) ==
          \A r \in partial : r.shard = s /\ r.sid = sid /\ r.n = u.n => u.part <= r.sent
    IN c # NONE =>
         SelectSeq(got[c], LAMBDA u : u.shard = s)
           = SelectSeq(UnitsUpTo(s, sid, emitted[s][sid] - queued), Reached)

\* A connected client sends so fast that recv finds bytes every time and the loop
\* of read_session never ends: while (true) has no other way out for it.
Flooded ==
  \E fd \in Fds : <>[](pc = "recv" /\ cur = fd /\ client[file[fd]] = "open")

\* The descriptor and the session of a client that left are released, unless the
\* gateway is stopped or flooded.
SessionReleased ==
  Flooded \/ \A fd \in Fds, c \in Conns :
    (file[fd] = c /\ client[c] \in {"gone", "reset"}) ~> (file[fd] # c \/ ~running_)

\* A shard that finds its outbound ring full is not left spinning in push_out,
\* unless the gateway is stopped or flooded: neither a client that does not read
\* its replies nor one that has left keeps the others' replies in the ring.
RingDrained ==
  Flooded \/ \A s \in Shards :
    (Len(outbound[s]) = QUEUE_DEPTH) ~> (Len(outbound[s]) < QUEUE_DEPTH \/ ~running_)

\* A gateway that is stopped leaves run, unless it is flooded: a full socket or a
\* connection that is reset or closed does not hold it in one of the loops of
\* poll_once.  (The loop of drain_outbound ends because shards get no requests
\* meanwhile, so that the replies still to come are bounded, as by MAX_REPLIES.)
StopEndsRun == Flooded \/ (~running_ ~> pc = "exited")
=============================================================================
