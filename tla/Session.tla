------------------------------ MODULE Session ------------------------------
(***************************************************************************)
(* lx::net::Session and proto::tryDecode: the bytes of one connection cut  *)
(* into frames and pushed into the queue of a shard, between the gateway's *)
(* recv calls on one side and the shard thread's pops on the other.        *)
(*                                                                         *)
(* The wire format is scaled down: the header is the three bytes len, type *)
(* and session_id, so that bytes read at a wrong offset are decoded like   *)
(* any others.                                                             *)
(***************************************************************************)
EXTENDS Integers, SequencesExt

CONSTANTS RECV_BUF_SIZE, RECV_CHUNK,      \* Session's buffer, the gateway's recv buffer
          MAX_FRAME_LEN, SizeofNewOrder, SizeofCancelOrder,
          QUEUE_DEPTH,
          session_id,
          Frames,      \* the byte sequences that clients send as one frame
          MAX_FRAMES   \* bound: frames sent

MIN_FRAME_LEN == 3

ASSUME SessionAssumption ==
  /\ {RECV_BUF_SIZE, RECV_CHUNK, QUEUE_DEPTH, MAX_FRAMES} \subseteq Nat \ {0}
  /\ MAX_FRAME_LEN <= RECV_BUF_SIZE
  /\ {SizeofNewOrder, SizeofCancelOrder} \subseteq MIN_FRAME_LEN .. MAX_FRAME_LEN
  /\ \A f \in Frames : Len(f) >= MIN_FRAME_LEN

VARIABLES wire,       \* bytes sent and not yet received
          recv_buf_,  \* the first recv_len_ bytes of the buffer
          closed_,
          consumed,   \* progress of the consume call in progress
          calling,    \* whether the gateway thread is inside consume
          queue,      \* the ring
          sent,       \* history: the frames sent
          pushed,     \* history: the messages pushed
          stalled,    \* history: the last consume ended at a full ring
          truncated   \* history: append has dropped bytes

vars == <<wire, recv_buf_, closed_, consumed, calling, queue, sent, pushed, stalled, truncated>>

Drop(s, n) == SubSeq(s, n + 1, Len(s))

LOGON == 1
NEW_ORDER == 2
CANCEL_ORDER == 3
MsgType == {LOGON, NEW_ORDER, CANCEL_ORDER, 129, 130, 131}

\* tryDecode: on OK the frame is the first buf[1] bytes and its type buf[2].
tryDecode(buf) ==
  IF Len(buf) < MIN_FRAME_LEN THEN "NEED_MORE"
  ELSE IF buf[1] \notin MIN_FRAME_LEN .. MAX_FRAME_LEN \/ buf[2] \notin MsgType THEN "INVALID"
  ELSE IF Len(buf) < buf[1] THEN "NEED_MORE"
  ELSE "OK"

\* The frames that consume pushes; it skips every other valid one.
Dispatched(f) ==
  \/ f[2] = NEW_ORDER /\ f[1] = SizeofNewOrder
  \/ f[2] = CANCEL_ORDER /\ f[1] = SizeofCancelOrder

\* Mutant: the client's session id is kept.
UnstampedMsg(f) == f

\* The message made of a frame: the client's session id is overwritten.
InboundMsg(f) == [f EXCEPT ![3] = session_id]

Init ==
  /\ wire = <<>> /\ recv_buf_ = <<>> /\ closed_ = FALSE
  /\ consumed = 0 /\ calling = FALSE
  /\ queue = <<>> /\ sent = <<>> /\ pushed = <<>>
  /\ stalled = FALSE /\ truncated = FALSE

-----------------------------------------------------------------------------
(* The client and the network                                               *)

Send(f) ==
  /\ Len(sent) < MAX_FRAMES
  /\ sent' = Append(sent, f)
  /\ wire' = wire \o f
  /\ UNCHANGED <<recv_buf_, closed_, consumed, calling, queue, pushed, stalled, truncated>>

-----------------------------------------------------------------------------
(* The gateway thread                                                       *)

\* The bytes that append copies.
Fitting(data) == SubSeq(data, 1, Min({Len(data), RECV_BUF_SIZE - Len(recv_buf_)}))

\* recv returns some of the bytes sent, append takes them and consume is called.
\* The bytes of a closed session are taken and never looked at.
recv_append(n) ==
  /\ ~calling
  /\ LET data == SubSeq(wire, 1, n) IN
       /\ recv_buf_' = recv_buf_ \o Fitting(data)
       /\ truncated' = (truncated \/ Fitting(data) # data)
  /\ wire' = Drop(wire, n)
  /\ calling' = ~closed_
  /\ consumed' = 0
  /\ UNCHANGED <<closed_, queue, sent, pushed, stalled>>

Pending == Drop(recv_buf_, consumed)
Frame == SubSeq(Pending, 1, Pending[1])

\* The loop ends, and the bytes consumed are moved out of the buffer.
Return(full) ==
  /\ calling' = FALSE
  /\ recv_buf_' = Pending
  /\ consumed' = 0
  /\ stalled' = full
  /\ UNCHANGED <<wire, queue, sent, pushed, truncated>>

consume_need_more ==
  /\ calling
  /\ tryDecode(Pending) = "NEED_MORE"
  /\ Return(FALSE)
  /\ UNCHANGED closed_

consume_invalid ==
  /\ calling
  /\ tryDecode(Pending) = "INVALID"
  /\ closed_' = TRUE
  /\ Return(FALSE)

\* The queue is full: the frame stays buffered.
consume_full ==
  /\ calling
  /\ tryDecode(Pending) = "OK"
  /\ Dispatched(Frame)
  /\ Len(queue) = QUEUE_DEPTH
  /\ Return(TRUE)
  /\ UNCHANGED closed_

\* Mutant: consume returns after one frame.
consume_push_one ==
  /\ calling
  /\ tryDecode(Pending) = "OK"
  /\ Dispatched(Frame)
  /\ Len(queue) < QUEUE_DEPTH
  /\ queue' = Append(queue, InboundMsg(Frame))
  /\ pushed' = Append(pushed, InboundMsg(Frame))
  /\ calling' = FALSE
  /\ recv_buf_' = Drop(Pending, Len(Frame))
  /\ consumed' = 0
  /\ UNCHANGED <<wire, closed_, sent, stalled, truncated>>

consume_push ==
  /\ calling
  /\ tryDecode(Pending) = "OK"
  /\ Dispatched(Frame)
  /\ Len(queue) < QUEUE_DEPTH
  /\ queue' = Append(queue, InboundMsg(Frame))
  /\ pushed' = Append(pushed, InboundMsg(Frame))
  /\ consumed' = consumed + Len(Frame)
  /\ UNCHANGED <<wire, recv_buf_, closed_, calling, sent, stalled, truncated>>

\* Mutant: a frame that is not for the shard ends the session.
consume_skip_closes ==
  /\ calling
  /\ tryDecode(Pending) = "OK"
  /\ ~Dispatched(Frame)
  /\ closed_' = TRUE
  /\ Return(FALSE)

\* Another type, or the wrong length for its type.
consume_skip ==
  /\ calling
  /\ tryDecode(Pending) = "OK"
  /\ ~Dispatched(Frame)
  /\ consumed' = consumed + Len(Frame)
  /\ UNCHANGED <<wire, recv_buf_, closed_, calling, queue, sent, pushed, stalled, truncated>>

consume ==
  consume_need_more \/ consume_invalid \/ consume_full \/ consume_push \/ consume_skip

-----------------------------------------------------------------------------
\* The shard thread pops one message.
pop ==
  /\ queue # <<>>
  /\ queue' = Tail(queue)
  /\ UNCHANGED <<wire, recv_buf_, closed_, consumed, calling, sent, pushed, stalled, truncated>>

read_session == \E n \in 1 .. Min({Len(wire), RECV_CHUNK}) : recv_append(n)

Next == (\E f \in Frames : Send(f)) \/ read_session \/ consume \/ pop

\* The gateway polls and finishes its calls, and the shard pops; clients need
\* not send.
Spec ==
  Init /\ [][Next]_vars /\ WF_vars(read_session) /\ WF_vars(consume) /\ WF_vars(pop)

-----------------------------------------------------------------------------
\* The frames among the first n that end the session.
Invalid(n) == {k \in 1 .. n : tryDecode(sent[k]) = "INVALID"}

\* The messages due for the first n frames sent.
Due(n) ==
  LET last == IF Invalid(n) = {} THEN n ELSE Min(Invalid(n)) - 1
      due == SelectSeq(SubSeq(sent, 1, last), Dispatched)
  IN [k \in DOMAIN due |-> [due[k] EXCEPT ![3] = session_id]]

\* Whatever way the network cuts the stream, and wherever a full queue
\* interrupts consume, the messages pushed are the client's frames, whole, in
\* order, each once, with the server's session id, and none after an invalid
\* frame, as long as append has not had to drop bytes.
PushedInOrder == ~truncated => IsPrefix(pushed, Due(Len(sent)))

\* The number of whole frames that the gateway has received.
Received ==
  LET got == Len(FlattenSeq(sent)) - Len(wire)
  IN Max({k \in 0 .. Len(sent) : Len(FlattenSeq(SubSeq(sent, 1, k))) <= got})

\* When consume returns, only a full queue can have kept back a frame that was
\* received whole.
NothingKeptBack ==
  ~calling /\ ~stalled /\ ~truncated => pushed = Due(Received)

\* A session is closed only by a client that sent an invalid frame, and pushes
\* nothing from then on: a well-behaved client is never cut off.
ClosedByInvalid == closed_ /\ ~truncated => Invalid(Received) # {}

\* With a gateway that polls, a frame for the shard is pushed, unless the last
\* consume met a full queue or append has dropped bytes.
PushedUnlessStalled ==
  \A n \in 1 .. MAX_FRAMES :
    (Len(Due(Len(sent))) >= n) ~> (Len(pushed) >= n \/ stalled \/ truncated)

\* The session reassembles the stream: the messages pushed are the client's
\* frames, in order, whatever the network and the queue do.
StreamReassembled == IsPrefix(pushed, Due(Len(sent)))
=============================================================================
