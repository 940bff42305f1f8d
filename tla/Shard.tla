------------------------------- MODULE Shard -------------------------------
(***************************************************************************)
(* lx::engine::Shard between its two rings.  The gateway thread pushes     *)
(* requests into inbound and drains outbound; the shard thread pops one    *)
(* request per tick, runs it on the books and emits the replies one by     *)
(* one, spinning in push_out while outbound is full.  The rings are the    *)
(* bounded FIFOs that Spsc implements; the books are those of OrderBook.   *)
(*                                                                         *)
(* The n-th order sent for a symbol of this shard has order_id n, and      *)
(* orders for other symbols have order_id 0: ids are the client's choice   *)
(* and the shard only copies them.                                         *)
(***************************************************************************)
EXTENDS OrderBook, SequencesExt

CONSTANTS QUEUE_DEPTH,  \* slots of each ring
          ForeignSymbols, \* symbol ids sent here that local_book maps to NO_BOOK
          NewOrders,    \* the new orders clients send
          Guessers,     \* the sessions that cancel with tokens they were not given
          MAX_OTHERS,   \* bound: requests that add no order to a book
          Nothing       \* no request

ASSUME ShardAssumption ==
  /\ QUEUE_DEPTH \in Nat \ {0}
  /\ ForeignSymbols \cap Books = {}
  /\ NewOrders \subseteq [symbol : Books \cup ForeignSymbols, side : Sides,
                          price : Prices, qty : Quantities, tif : TimeInForce,
                          session : Sessions]
  /\ Guessers \subseteq Sessions
  /\ MAX_OTHERS \in Nat

VARIABLES inbound, outbound,  \* the rings
          cur,      \* the NEW_ORDER whose add_order is in progress, or Nothing
          pending,  \* replies of the current request still to be pushed
          sent,     \* history: the orders sent to books of this shard, by order_id
          others,   \* history: number of other requests sent
          tokens,   \* history: the Acks that clients have received
          told,     \* history: quantity reported to the owner of each order
          closed    \* history: the orders whose cancel was acknowledged to its owner

shardVars == <<inbound, outbound, cur, pending>>
clientVars == <<sent, others, tokens, told, closed>>
allVars == <<vars, shardVars, clientVars>>

-----------------------------------------------------------------------------
(* Messages.  about is history: the order that the reply to a cancel is      *)
(* about (the wire only has the token, and 0 as order_id).                   *)

Ack(id, h, session, about) ==
  [type |-> "ACK", order_id |-> id, slot |-> h.slot, gen |-> h.gen,
   session |-> session, about |-> about]

Reject(id, reason, session, about) ==
  [type |-> "REJECT", order_id |-> id, reason |-> reason, session |-> session,
   about |-> about]

FillMsg(f, session) ==
  [type |-> "FILL", aggressor_id |-> f.aggressor_id, resting_id |-> f.resting_id,
   price |-> f.price, qty |-> f.qty, session |-> session]

\* Mutant: a self-trade is reported twice.
emit_fill_twice(f, aggressor_session) ==
  <<FillMsg(f, f.session), FillMsg(f, aggressor_session)>>

\* emit_fill: the passive owner's copy first, then the aggressor's, unless both
\* are the same session.
emit_fill(f, aggressor_session) ==
  IF aggressor_session = f.session THEN <<FillMsg(f, f.session)>>
  ELSE <<FillMsg(f, f.session), FillMsg(f, aggressor_session)>>

\* Mutant: an order that traded is not acknowledged when its remainder rests.
NewRepliesNoAck(h) ==
  IF h.slot # NULL_IDX /\ fills = <<>>
  THEN <<Ack(cur.order_id, h, cur.body.session, cur.order_id)>>
  ELSE FlattenSeq([k \in DOMAIN fills |-> emit_fill(fills[k], cur.body.session)])

\* The replies of handle_new: the fills in order, then the Ack with the cancel
\* token if the order rests.
NewReplies(h) ==
  LET session == cur.body.session IN
  FlattenSeq([k \in DOMAIN fills |-> emit_fill(fills[k], session)])
  \o IF h.slot # NULL_IDX THEN <<Ack(cur.order_id, h, session, cur.order_id)>> ELSE <<>>

\* The order whose handle was returned with this slot and generation, 0 if none.
About(m) ==
  Max({0} \cup {h.id : h \in {g \in issued : g.slot = m.slot /\ g.gen = m.gen}})

\* Mutant: a cancel is always acknowledged.
CancelReplyAck(m, done) == <<Ack(0, m, m.session, About(m))>>


\* The reply of handle_cancel: the Ack carries the token of the request.
CancelReply(m, done) ==
  IF done THEN <<Ack(0, m, m.session, About(m))>>
  ELSE <<Reject(0, "UNKNOWN_ORDER", m.session, About(m))>>

\* SpscQueue::push succeeds.
HasRoom(ring) == Len(ring) < QUEUE_DEPTH

InitShard ==
  /\ Init
  /\ inbound = <<>> /\ outbound = <<>> /\ cur = Nothing /\ pending = <<>>
  /\ sent = <<>> /\ others = 0 /\ tokens = {} /\ closed = {}
  /\ told = [id \in 1 .. MAX_ADDS |-> 0]

-----------------------------------------------------------------------------
(* The gateway thread                                                       *)

Receive(m) ==
  /\ HasRoom(inbound)
  /\ inbound' = Append(inbound, m)
  /\ UNCHANGED <<vars, outbound, cur, pending, tokens, told, closed>>

SendNew(n) ==
  /\ n.symbol \in Books
  /\ Len(sent) < MAX_ADDS
  /\ Receive([type |-> "NEW_ORDER", order_id |-> Len(sent) + 1, body |-> n])
  /\ sent' = Append(sent, n)
  /\ UNCHANGED others

SendForeign(n) ==
  /\ n.symbol \in ForeignSymbols
  /\ others < MAX_OTHERS
  /\ Receive([type |-> "NEW_ORDER", order_id |-> 0, body |-> n])
  /\ others' = others + 1
  /\ UNCHANGED sent

\* A client cancels with a token it was given, whatever happened to the order
\* in the meantime and as often as it likes, or with any other (Tokens).
SendCancel(h, session) ==
  /\ others < MAX_OTHERS
  /\ Receive([type |-> "CANCEL_ORDER", slot |-> h.slot, gen |-> h.gen,
              session |-> session])
  /\ others' = others + 1
  /\ UNCHANGED sent

\* Any holder of inbound() may push another type; Session and ShardRouter
\* filter them out.
SendUnknownType ==
  /\ others < MAX_OTHERS
  /\ Receive([type |-> "OTHER"])
  /\ others' = others + 1
  /\ UNCHANGED sent

OwnerOf(id) == sent[id].session

\* The orders of this session that a fill report names.
NamedTo(m) ==
  {id \in {m.aggressor_id, m.resting_id} : OwnerOf(id) = m.session}

\* The gateway pops one reply and its client gets it.
drain_outbound ==
  /\ outbound # <<>>
  /\ outbound' = Tail(outbound)
  /\ LET m == Head(outbound) IN
       /\ told' = IF m.type = "FILL"
                  THEN [id \in DOMAIN told |->
                          IF id \in NamedTo(m) THEN told[id] + m.qty ELSE told[id]]
                  ELSE told
       /\ tokens' = IF m.type = "ACK" /\ m.order_id # 0
                    THEN tokens \cup {[slot |-> m.slot, gen |-> m.gen,
                                       session |-> m.session, id |-> m.order_id]}
                    ELSE tokens
       /\ closed' = IF m.type = "ACK" /\ m.order_id = 0
                    THEN closed \cup {m.about} ELSE closed
  /\ UNCHANGED <<vars, inbound, cur, pending, sent, others>>

-----------------------------------------------------------------------------
(* The shard thread                                                         *)

\* The shard is between two requests: tick may pop.
AtTick == cur = Nothing /\ pending = <<>>

Pop(type) ==
  /\ AtTick
  /\ inbound # <<>>
  /\ Head(inbound).type = type
  /\ inbound' = Tail(inbound)
  /\ UNCHANGED <<outbound, clientVars>>

\* tick on an empty ring
tick_empty == AtTick /\ inbound = <<>> /\ UNCHANGED allVars

\* Mutant: the message stays in the ring.
tick_unknown_stays ==
  AtTick /\ inbound # <<>> /\ Head(inbound).type = "OTHER" /\ UNCHANGED allVars

\* tick: a message of another type is dropped.
tick_unknown == Pop("OTHER") /\ UNCHANGED <<vars, cur, pending>>

handle_new_unknown_symbol ==
  /\ Pop("NEW_ORDER")
  /\ LET m == Head(inbound) IN
       /\ m.body.symbol \notin Books
       /\ pending' = <<Reject(m.order_id, "UNKNOWN_SYMBOL", m.body.session, 0)>>
  /\ UNCHANGED <<vars, cur>>

\* handle_new where add_order returns at once: no fill, no handle, no reply.
handle_new_refused ==
  /\ Pop("NEW_ORDER")
  /\ LET n == Head(inbound).body IN n.symbol \in Books /\ AddRefused(n.price)
  /\ UNCHANGED <<cur, pending>>

handle_new ==
  /\ Pop("NEW_ORDER")
  /\ LET n == Head(inbound).body IN
       /\ n.symbol \in Books
       /\ AddAccepted(n.symbol, n.side, n.price, n.qty, n.tif, n.session)
  /\ cur' = Head(inbound)
  /\ UNCHANGED pending

match_step == MatchOne /\ UNCHANGED <<shardVars, clientVars>>

\* add_order returns to handle_new.
finish_new ==
  /\ Rest \/ Discard
  /\ pending' = NewReplies(ret')
  /\ cur' = Nothing
  /\ UNCHANGED <<inbound, outbound, clientVars>>

\* handle_cancel: both its checks and cancel_order's own are in CancelRefused.
handle_cancel ==
  /\ Pop("CANCEL_ORDER")
  /\ LET m == Head(inbound) IN
       \/ CancelRefused(m) /\ pending' = CancelReply(m, FALSE)
       \/ CancelLive(m) /\ pending' = CancelReply(m, TRUE)
       \/ CancelAstray(m) /\ pending' = CancelReply(m, TRUE)
  /\ UNCHANGED cur

\* push_out of one reply; while the ring is full it spins.
push_out ==
  /\ pending # <<>>
  /\ HasRoom(outbound)
  /\ outbound' = Append(outbound, Head(pending))
  /\ pending' = Tail(pending)
  /\ UNCHANGED <<vars, inbound, cur, clientVars>>

ShardStep ==
  \/ tick_empty \/ tick_unknown
  \/ handle_new_unknown_symbol \/ handle_new_refused \/ handle_new
  \/ match_step \/ finish_new
  \/ handle_cancel
  \/ push_out

GatewayStep ==
  \/ \E n \in NewOrders : SendNew(n) \/ SendForeign(n)
  \/ \E t \in tokens : SendCancel(t, t.session)
  \/ \E h \in Tokens, session \in Guessers : SendCancel(h, session)
  \/ SendUnknownType
  \/ drain_outbound

\* As in OrderBook, nothing is modelled after a cancel that went astray.
Ended == astray /\ UNCHANGED allVars

NextShard ==
  \/ ~astray /\ ShardStep
  \/ ~astray /\ GatewayStep
  \/ Ended

\* The shard runs on its own core, and every round of the gateway's loop drains
\* the outbound rings.
SpecShard ==
  /\ InitShard /\ [][NextShard]_allVars
  /\ WF_allVars(~astray /\ ShardStep) /\ WF_allVars(~astray /\ drain_outbound)

-----------------------------------------------------------------------------
\* The replies on their way to clients, in the order in which they arrive.
Stream == outbound \o pending

\* Quantity of order id that its owner was told of by the delivered replies and
\* the first k replies on their way.
ToldBy(id, k) ==
  told[id] +
  FoldFunction(+, 0, [j \in 1 .. k |->
    IF Stream[j].type = "FILL" /\ id \in NamedTo(Stream[j]) THEN Stream[j].qty ELSE 0])

\* Every trade is reported to each side exactly once: what the owner of an order
\* has been and is being told is what the order lost, for an order resting in a
\* book exactly its original minus its remaining quantity, and all of it for a
\* GTC order that left the book without a cancel.  Of a GTC order that never
\* rested it is all (filled on arrival) or nothing (refused).
ReportsMatchTrades ==
  Idle /\ ~astray =>
    \A id \in 1 .. next_id :
      LET all == ToldBy(id, Len(Stream))
          at  == {s \in Resting : slots[s].order_id = id}
      IN
      /\ all <= sent[id].qty
      /\ \A s \in at : all = sent[id].qty - slots[s].qty
      /\ sent[id].tif = "GTC" /\ (\A h \in issued : h.id # id) =>
           all \in {0, sent[id].qty}
      /\ (\E h \in issued : h.id = id) /\ at = {} =>
           \/ all = sent[id].qty
           \/ id \in closed
           \/ \E k \in DOMAIN Stream : Stream[k].type = "ACK" /\ Stream[k].order_id = 0
                                        /\ Stream[k].about = id

\* A client holds the token of an order before it hears that the order, resting,
\* was hit: the Ack is ahead of every passive fill.
AckBeforePassiveFill ==
  ~astray => \A k \in DOMAIN Stream :
    LET m == Stream[k] IN
    m.type = "FILL" =>
      \/ \E t \in tokens : t.id = m.resting_id
      \/ \E j \in 1 .. k - 1 : Stream[j].type = "ACK" /\ Stream[j].order_id = m.resting_id

\* A cancel acknowledgement is final: no fill of the order comes after it, and
\* the order is in no book.
CancelAckIsFinal ==
  ~astray => \A id \in 1 .. Len(sent) :
    LET acks == {k \in DOMAIN Stream : /\ Stream[k].type = "ACK"
                                       /\ Stream[k].order_id = 0
                                       /\ Stream[k].about = id}
        first == IF id \in closed THEN 0 ELSE Min(acks)
    IN
    id \in closed \/ acks # {} =>
      /\ \A k \in first + 1 .. Len(Stream) :
           Stream[k].type = "FILL" => id \notin NamedTo(Stream[k])
      /\ \A s \in Resting : slots[s].order_id # id
      /\ Cardinality(acks) + (IF id \in closed THEN 1 ELSE 0) = 1


\* Requests sent, and those of them that the shard has popped.
Requested == Len(sent) + others
Popped == Requested - Len(inbound)

\* The shard works off every request, whatever backpressure the rings exert, and
\* its replies leave: push_out does not spin forever.
EveryRequestHandled ==
  /\ \A k \in 1 .. MAX_ADDS + MAX_OTHERS : (Requested >= k) ~> (Popped >= k \/ astray)
  /\ (cur # Nothing \/ pending # <<>> \/ outbound # <<>>) ~>
       (astray \/ (AtTick /\ outbound = <<>>))
=============================================================================
