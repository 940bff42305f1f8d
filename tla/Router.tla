------------------------------- MODULE Router -------------------------------
(***************************************************************************)
(* lx::engine::ShardRouter and ShardSet: the sessions of one gateway       *)
(* thread push their requests into the rings of N shards, new orders by    *)
(* symbol and cancels by the shard packed into their token.  Each shard is *)
(* its symbol table and its arena of slots and generations; prices and     *)
(* quantities are left to OrderBook, so an order rests or trades with any  *)
(* resting order of its book.                                              *)
(***************************************************************************)
EXTENDS Integers, Sequences, FiniteSets

CONSTANTS N,            \* number of shards
          Symbols,      \* the global symbol ids
          max_symbols,  \* books per shard
          Assigned,     \* the list of symbols given to each shard's constructor
          MAX_ORDERS,   \* slots of a shard's arena
          SLOT_MOD, GEN_MOD, SHARD_MOD,  \* 2 to the width of the fields of a token
          QUEUE_DEPTH,
          BUF_FRAMES,   \* frames that fit into the receive buffer of a session
          Sessions,
          NONE,
          MAX_REQUESTS  \* bound: requests of one session

Shards == 0 .. N - 1
Slots == 0 .. MAX_ORDERS - 1
NO_BOOK == max_symbols

\* An order as its client and its shard know it.
Order == [session : Sessions, n : Nat, book : Nat, symbol : Symbols]

ASSUME RouterAssumption ==
  /\ {N, max_symbols, MAX_ORDERS, QUEUE_DEPTH, BUF_FRAMES} \subseteq Nat \ {0}
  /\ {SLOT_MOD, GEN_MOD, SHARD_MOD} \subseteq Nat \ {0}
  /\ MAX_ORDERS <= SLOT_MOD /\ N <= SHARD_MOD
  /\ Symbols \subseteq Nat /\ MAX_REQUESTS \in Nat
  /\ Assigned \in [Shards -> Seq(Symbols)]
  /\ \A s \in Shards : Len(Assigned[s]) <= max_symbols  \* asserted by the constructor
  /\ NONE \notin Sessions \cup Order \cup Nat

VARIABLES buffered,  \* the frames in the receive buffer, by session
          turn,      \* the session inside consume, or NONE
          inbound,   \* the rings
          pool,      \* the arena of each shard: generation and resting order of a slot
          reqs,      \* history: number of requests sent by each session
          log,       \* history: the requests pushed to each shard, by session and number
          cut,       \* history: the requests sent before append first dropped bytes, or NONE
          tokens,    \* history: the Acks that clients have received
          hits       \* history: the order each successful cancel named and removed

vars == <<buffered, turn, inbound, pool, reqs, log, cut, tokens, hits>>

-----------------------------------------------------------------------------
(* OrderHandle                                                              *)

\* [shard | gen | slot]
to_token(h, shard) ==
  shard * (GEN_MOD * SLOT_MOD) + h.gen * SLOT_MOD + (h.slot % SLOT_MOD)

from_token(t) == [slot |-> t % SLOT_MOD, gen |-> (t \div SLOT_MOD) % GEN_MOD]

token_shard(t) == (t \div (GEN_MOD * SLOT_MOD)) % SHARD_MOD

-----------------------------------------------------------------------------
(* Shard's symbol table                                                     *)

\* Mutant: all assigned symbols share the first book.
local_of_first(s, symbol) ==
  IF \E k \in DOMAIN Assigned[s] : Assigned[s][k] = symbol THEN 0 ELSE NO_BOOK

\* The table built by the constructor: the position in the list (the last one,
\* should a symbol be listed twice), or the identity when the list is empty.
local_of_(s, symbol) ==
  LET at == {k \in DOMAIN Assigned[s] : Assigned[s][k] = symbol} IN
  IF Assigned[s] = <<>> THEN (IF symbol < max_symbols THEN symbol ELSE NO_BOOK)
  ELSE IF at = {} THEN NO_BOOK
  ELSE (CHOOSE k \in at : \A j \in at : j <= k) - 1

-----------------------------------------------------------------------------
Free == [gen |-> 0, order |-> NONE]

Init ==
  /\ buffered = [c \in Sessions |-> <<>>] /\ turn = NONE
  /\ inbound = [s \in Shards |-> <<>>]
  /\ pool = [s \in Shards |-> [i \in Slots |-> Free]]
  /\ reqs = [c \in Sessions |-> 0] /\ cut = [c \in Sessions |-> NONE]
  /\ log = [s \in Shards |-> <<>>]
  /\ tokens = {} /\ hits = {}

\* The requests of a client: orders, cancels with the tokens it was given, and
\* frames that consume skips.
NewOrder(c, symbol) ==
  [type |-> "NEW_ORDER", session |-> c, n |-> reqs[c] + 1, symbol |-> symbol]
CancelOrder(c, t) ==
  [type |-> "CANCEL_ORDER", session |-> c, n |-> reqs[c] + 1, token |-> t.token, target |-> t.order]
Requests(c) ==
  {NewOrder(c, symbol) : symbol \in Symbols}
  \cup {CancelOrder(c, t) : t \in {t \in tokens : t.order.session = c}}
Logon(c) == [type |-> "LOGON", session |-> c, n |-> 0]

-----------------------------------------------------------------------------
(* The gateway thread: bytes arrive, append, then consume                   *)

\* The requests of a session that were sent while append had kept all its bytes.
Intact(c) == IF cut[c] = NONE THEN reqs[c] ELSE cut[c]

\* append keeps the bytes there is room for.  Once it has dropped some, the frame
\* boundaries are lost: what arrives later is decoded at whatever offset it comes
\* to lie (as in Session), so that each arrival may turn into some request of the
\* client, or into nothing that is pushed.
Arrive(c, m) ==
  /\ turn = NONE
  /\ \/ /\ Len(buffered[c]) < BUF_FRAMES
        /\ cut[c] = NONE \/ m.type # "LOGON"
        /\ buffered' = [buffered EXCEPT ![c] = Append(@, m)]
        /\ UNCHANGED cut
     \/ /\ cut[c] # NONE \/ ~(Len(buffered[c]) < BUF_FRAMES)
        /\ cut' = [cut EXCEPT ![c] = Intact(c)]
        /\ UNCHANGED buffered
  /\ turn' = c
  /\ UNCHANGED <<inbound, pool, log, tokens, hits>>

Request(c) ==
  /\ reqs[c] < MAX_REQUESTS
  /\ \E m \in Requests(c) : Arrive(c, m)
  /\ reqs' = [reqs EXCEPT ![c] = @ + 1]

Chatter(c) == Arrive(c, Logon(c)) /\ UNCHANGED reqs

Frame == Head(buffered[turn])
Advance == buffered' = [buffered EXCEPT ![turn] = Tail(@)]

\* The shard that ShardRouter::push picks.
Target(m) ==
  IF m.type = "NEW_ORDER" THEN m.symbol % N ELSE token_shard(m.token) % N

consume_end ==
  /\ turn # NONE /\ buffered[turn] = <<>>
  /\ turn' = NONE
  /\ UNCHANGED <<buffered, inbound, pool, reqs, log, cut, tokens, hits>>

consume_skip ==
  /\ turn # NONE /\ buffered[turn] # <<>> /\ Frame.type = "LOGON"
  /\ Advance
  /\ UNCHANGED <<turn, inbound, pool, reqs, log, cut, tokens, hits>>

Pushing(room) ==
  /\ turn # NONE /\ buffered[turn] # <<>> /\ Frame.type # "LOGON"
  /\ room = (Len(inbound[Target(Frame)]) < QUEUE_DEPTH)

push ==
  /\ Pushing(TRUE)
  /\ inbound' = [inbound EXCEPT ![Target(Frame)] = Append(@, Frame)]
  /\ log' = [log EXCEPT ![Target(Frame)] = Append(@, [session |-> turn, n |-> Frame.n])]
  /\ Advance
  /\ UNCHANGED <<turn, pool, reqs, cut, tokens, hits>>

\* Mutant: a full ring counts as pushed.
push_full_skips ==
  /\ Pushing(FALSE)
  /\ Advance
  /\ UNCHANGED <<turn, inbound, pool, reqs, log, cut, tokens, hits>>

\* push returns false, and consume leaves this and every later frame buffered.
push_full ==
  /\ Pushing(FALSE)
  /\ turn' = NONE
  /\ UNCHANGED <<buffered, inbound, pool, reqs, log, cut, tokens, hits>>

consume == consume_end \/ consume_skip \/ push \/ push_full

-----------------------------------------------------------------------------
(* A shard's thread                                                         *)

Pop(s) ==
  /\ inbound[s] # <<>>
  /\ inbound' = [inbound EXCEPT ![s] = Tail(@)]
  /\ UNCHANGED <<buffered, turn, reqs, log, cut>>

\* Mutant: a slot that is given back keeps its generation.
Freed_same_gen(s, gone) ==
  [pool EXCEPT ![s] = [i \in Slots |-> IF i \in gone THEN [@[i] EXCEPT !.order = NONE] ELSE @[i]]]

\* Slots given back to the arena.
Freed(s, gone) ==
  [pool EXCEPT ![s] = [i \in Slots |->
     IF i \in gone THEN [gen |-> (@[i].gen + 1) % GEN_MOD, order |-> NONE] ELSE @[i]]]

Live(s) == {i \in Slots : pool[s][i].order # NONE}

\* handle_new: an unknown symbol, or an order that add_order refuses for its
\* price or for want of a slot; otherwise the order takes a slot, fills some
\* resting orders of its book, and rests, acknowledged with its token, or gives
\* the slot back.
handle_new(s) ==
  /\ Pop(s)
  /\ UNCHANGED hits
  /\ LET m == Head(inbound[s])
         book == local_of_(s, m.symbol)
         order == [session |-> m.session, n |-> m.n, book |-> book, symbol |-> m.symbol]
     IN
     /\ m.type = "NEW_ORDER"
     /\ \/ UNCHANGED <<pool, tokens>>
        \/ /\ book # NO_BOOK
           /\ \E i \in Slots \ Live(s), filled \in SUBSET {j \in Live(s) : pool[s][j].order.book = book} :
                \/ /\ pool' = Freed(s, filled \cup {i})
                   /\ UNCHANGED tokens
                \/ LET h == [slot |-> i, gen |-> pool[s][i].gen] IN
                   /\ pool' = [Freed(s, filled) EXCEPT ![s][i].order = order]
                   /\ tokens' = tokens \cup {[order |-> order, token |-> to_token(h, s)]}

\* handle_cancel: stale tokens are rejected by the generation.
handle_cancel(s) ==
  /\ Pop(s)
  /\ UNCHANGED tokens
  /\ LET m == Head(inbound[s])
         h == from_token(m.token)
         ok == h.slot < MAX_ORDERS /\ pool[s][h.slot].gen = h.gen
     IN
     /\ m.type = "CANCEL_ORDER"
     /\ pool' = IF ok THEN Freed(s, {h.slot}) ELSE pool
     /\ hits' = IF ok THEN hits \cup {[named |-> m.target, removed |-> pool[s][h.slot].order]}
                ELSE hits

tick(s) == handle_new(s) \/ handle_cancel(s)

-----------------------------------------------------------------------------
Next ==
  \/ \E c \in Sessions : Request(c) \/ Chatter(c)
  \/ consume
  \/ \E s \in Shards : tick(s)

Spec == Init /\ [][Next]_vars

-----------------------------------------------------------------------------
Pushed(c) ==
  UNION {{log[s][k].n : k \in {k \in DOMAIN log[s] : log[s][k].session = c}} : s \in Shards}

\* The requests that wait in the buffer of a session, and their numbers.
WaitingAt(c) == {k \in DOMAIN buffered[c] : buffered[c][k].type # "LOGON"}
Waiting(c) == {buffered[c][k].n : k \in WaitingAt(c)}

\* Up to the first byte that append drops, every request of a session is pushed or
\* waits in its buffer, and none is pushed before an earlier one: a request behind
\* a full ring waits, and so do all later ones.  Dropped bytes or not, what is
\* pushed reaches the shards in the order of its arrival, each request once.
SessionOrder ==
  /\ \A c \in Sessions : 1 .. Intact(c) \subseteq Pushed(c) \cup Waiting(c)
  /\ \A c \in Sessions : \A n \in Pushed(c) :
       \A x \in 1 .. Intact(c) : x < n => x \in Pushed(c)
  /\ \A s \in Shards : \A j \in DOMAIN log[s] : \A i \in 1 .. j - 1 :
       log[s][i].session = log[s][j].session => log[s][i].n < log[s][j].n
  /\ \A s, t \in Shards : \A i \in DOMAIN log[s], j \in DOMAIN log[t] :
       log[s][i].session = log[t][j].session /\ log[s][i].n = log[t][j].n => s = t

\* A cancel that succeeds removes the very order that its token was given for,
\* although shards reuse each other's slot and generation numbers and slots are
\* recycled: the token finds its shard, its slot and its generation.
CancelRemovesItsOrder == \A x \in hits : x.named = x.removed

\* The orders in one book of a shard are for one symbol.
BooksAreIsolated ==
  \A s \in Shards : \A i, j \in Live(s) :
    pool[s][i].order.book = pool[s][j].order.book => pool[s][i].order.symbol = pool[s][j].order.symbol

-----------------------------------------------------------------------------
(* The inductive invariant                                                  *)

\* Fewer requests are sent than a generation has values.
NoGenWrap ==
  IsFiniteSet(Sessions) /\ Cardinality(Sessions) * MAX_REQUESTS < GEN_MOD

NewMsg == [type : {"NEW_ORDER"}, session : Sessions, n : Nat, symbol : Symbols]
CancelMsg ==
  [type : {"CANCEL_ORDER"}, session : Sessions, n : Nat, token : Nat, target : Order]
LogonMsg == [type : {"LOGON"}, session : Sessions, n : Nat]
InboundMsg == NewMsg \cup CancelMsg
Entry == [session : Sessions, n : Nat]

\* Type invariant of the sessions, the rings and the arenas.
TypeOK ==
  /\ buffered \in [Sessions -> Seq(InboundMsg \cup LogonMsg)]
  /\ turn \in Sessions \cup {NONE}
  /\ inbound \in [Shards -> Seq(InboundMsg)]
  /\ log \in [Shards -> Seq(Entry)]
  /\ pool \in [Shards -> [Slots -> [gen : 0 .. GEN_MOD - 1, order : Order \cup {NONE}]]]
  /\ reqs \in [Sessions -> 0 .. MAX_REQUESTS]
  /\ cut \in [Sessions -> (0 .. MAX_REQUESTS) \cup {NONE}]
  /\ tokens \subseteq [order : Order, token : Nat]

\* What is buffered is the session's own, in order, and later than all that it has
\* pushed.
BufferedInOrder ==
  /\ \A c \in Sessions : \A k \in DOMAIN buffered[c] : buffered[c][k].session = c
  /\ \A c \in Sessions : \A k \in WaitingAt(c) :
       /\ buffered[c][k].n \in 1 .. reqs[c]
       /\ \A i \in WaitingAt(c) : i < k => buffered[c][i].n < buffered[c][k].n
       /\ \A n \in Pushed(c) : n < buffered[c][k].n
  /\ \A c \in Sessions : Pushed(c) \subseteq 1 .. reqs[c]

\* A token names the shard and the slot that its order rested in, and as long as
\* the generation there is the token's, the order still rests there.
TokenOK(t) ==
  LET s == token_shard(t.token)
      h == from_token(t.token)
  IN  /\ s \in Shards /\ h.slot \in Slots
      /\ h.gen <= pool[s][h.slot].gen
      /\ h.gen = pool[s][h.slot].gen => pool[s][h.slot].order = t.order

\* A cancel on its way carries a token that its client was given for the order.
CancelOK(m) == m.type = "CANCEL_ORDER" => [order |-> m.target, token |-> m.token] \in tokens

CancelsOK ==
  /\ \A c \in Sessions : \A k \in DOMAIN buffered[c] : CancelOK(buffered[c][k])
  /\ \A s \in Shards : \A k \in DOMAIN inbound[s] :
       CancelOK(inbound[s][k]) /\ Target(inbound[s][k]) = s

\* A slot has been freed at most once for each request that its shard has popped,
\* counting the order in it as not yet freed.
Popped(s) == Len(log[s]) - Len(inbound[s])
GenBound ==
  \A s \in Shards : \A i \in Slots :
    pool[s][i].gen + (IF i \in Live(s) THEN 1 ELSE 0) <= Popped(s)

\* As long as no generation can come round again, tokens find their orders.
HandlesOK ==
  NoGenWrap => CancelRemovesItsOrder /\ GenBound /\ \A t \in tokens : TokenOK(t)

\* An order rests in the book of its symbol.
InItsBook ==
  \A s \in Shards : \A i \in Live(s) :
    LET o == pool[s][i].order IN o.book = local_of_(s, o.symbol) /\ o.book # NO_BOOK

IInv ==
  /\ TypeOK /\ SessionOrder /\ BufferedInOrder /\ CancelsOK /\ HandlesOK /\ InItsBook
=============================================================================
