----------------------------- MODULE OrderBook -----------------------------
(***************************************************************************)
(* lx::book::OrderBook over the arena of one shard: all the symbol books   *)
(* that borrow one Pool and one order_session table.  A call of add_order  *)
(* is split into its steps (allocation, one iteration of the matching      *)
(* loop, rest or free); cancel_order is one step.  One thread runs all of  *)
(* it, so a new call starts only when no add_order is in progress.         *)
(***************************************************************************)
EXTENDS BookOps

CONSTANTS Books,       \* the symbols whose books share the arena
          Sessions,    \* client sessions
          Prices,      \* limit prices clients send
          Quantities,  \* order quantities clients send (0 included)
          Tokens,      \* the handles that the tokens of cancels decode to
          BASE_PRICE, TICK_SIZE,
          INT_HALF,    \* stands for 2^31: the narrowing to int32_t of price_to_idx
          MAX_FILLS,   \* MAX_FILLS_PER_ORDER
          GEN_MOD,     \* stands for 2^32: the width of a slot's generation
          ZERO_SYMBOL, \* the symbol with id 0, hosted here or not
          MAX_ADDS     \* bound: calls of add_order in one behaviour

ASSUME BookAssumption ==
  /\ Prices \subseteq Int /\ Quantities \subseteq Nat
  /\ BASE_PRICE \in Int /\ TICK_SIZE \in Nat \ {0}
  /\ INT_HALF \in Nat \ {0} /\ LADDER_SIZE <= INT_HALF
  /\ MAX_FILLS \in Nat \ {0}
  /\ GEN_MOD \in Nat \ {0}
  /\ MAX_ADDS \in Nat
  /\ Books # {} /\ Sessions # {}
  /\ Tokens \subseteq [slot : Nat, gen : 0 .. GEN_MOD - 1]

VARIABLES
  free_list,      \* Pool: the free slots, a stack whose top is the last
  gen,            \* Pool: generation of each slot
  slots,          \* Pool: the Order stored in each slot
  order_session,  \* owner session of each slot
  levels,         \* bid_levels_ / ask_levels_ of every book
  occ,            \* bid_occ_ / ask_occ_ of every book
  best,           \* best_bid_idx_ / best_ask_idx_ of every book
  agg,            \* slot of the order add_order is working on, NULL_IDX if none
  fills,          \* the fills array and fill_count of that call
  ret,            \* OrderHandle returned by the last add_order
  next_id,        \* history: order_id given to the latest order, by arrival
  issued,         \* history: the handles returned so far and their order ids
  cut,            \* history: resting slots whose matching hit MAX_FILLS
  astray          \* history: a cancel was carried out on a slot that holds no order

poolVars == <<free_list, gen>>
bookVars == <<levels, occ, best>>
vars == <<free_list, gen, slots, order_session, levels, occ, best, agg, fills,
          ret, next_id, issued, cut, astray>>

-----------------------------------------------------------------------------
Order == [order_id : Nat, price : Int, qty : Nat, symbol : Books \cup {ZERO_SYMBOL},
          side : Sides, tif : TimeInForce]

OrderHandle == [slot : Slots \cup {NULL_IDX}, gen : 0 .. GEN_MOD - 1]
InvalidHandle == [slot |-> NULL_IDX, gen |-> 0]

Fill == [aggressor_id : Nat, resting_id : Nat, price : Int, qty : Nat,
         session : Sessions]

\* C++ integer division rounds toward zero.
TruncDiv(a, b) == IF a >= 0 THEN a \div b ELSE -((-a) \div b)

\* Two's complement narrowing to int32_t.
ToInt32(n) == ((n + INT_HALF) % (2 * INT_HALF)) - INT_HALF

price_to_idx(price) == ToInt32(TruncDiv(price - BASE_PRICE, TICK_SIZE))

InLadder(price) == price_to_idx(price) \in Idx

LevelOf(slot) == price_to_idx(slots[slot].price)

\* Mutant: the slot is not pushed back on the free list.
free_leaks(slot) ==
  /\ gen' = [gen EXCEPT ![slot] = (@ + 1) % GEN_MOD]
  /\ UNCHANGED free_list

\* Mutant: the generation stays.
free_keeps_gen(slot) ==
  /\ UNCHANGED gen
  /\ free_list' = Append(free_list, slot)

\* Pool::free advances the slot's generation and pushes the slot.
free(slot) ==
  /\ gen' = [gen EXCEPT ![slot] = (@ + 1) % GEN_MOD]
  /\ free_list' = Append(free_list, slot)

\* Mutant: level 0 of the bids is never reached.
PastLevelAboveZero(side, i) ==
  IF side = "SELL" THEN i + 1 ELSE IF i > 1 THEN i - 1 ELSE NULL_IDX

\* The first level to look at once level i of a side is exhausted.
PastLevel(side, i) ==
  IF side = "SELL" THEN i + 1 ELSE IF i > 0 THEN i - 1 ELSE NULL_IDX

find_best(side, bits, from) ==
  IF side = "BUY" THEN NextDown(bits, from) ELSE NextUp(bits, from)

\* Mutant: the emptied level keeps its order.
LevelKept(b, side, i, newLevel) ==
  /\ levels' = IF newLevel = <<>> THEN levels ELSE [levels EXCEPT ![b][side][i] = newLevel]
  /\ UNCHANGED <<occ, best>>

\* occ and best of one side of a book after its level i became newLevel.
LevelShrunk(b, side, i, newLevel) ==
  LET left == occ[b][side] \ {i} IN
  /\ levels' = [levels EXCEPT ![b][side][i] = newLevel]
  /\ occ' = IF newLevel = <<>> THEN [occ EXCEPT ![b][side] = left] ELSE occ
  /\ best' = IF newLevel = <<>> /\ best[b][side] = i
             THEN [best EXCEPT ![b][side] = find_best(side, left, PastLevel(side, i))]
             ELSE best

-----------------------------------------------------------------------------
\* The arena's memory starts zeroed.
ZeroOrder == [order_id |-> 0, price |-> 0, qty |-> 0,
              symbol |-> ZERO_SYMBOL, side |-> "BUY", tif |-> "GTC"]

Init ==
  /\ free_list = [i \in 1 .. MAX_ORDERS |-> i - 1]
  /\ gen = [s \in Slots |-> 0]
  /\ slots = [s \in Slots |-> ZeroOrder]
  /\ order_session = [s \in Slots |-> CHOOSE x \in Sessions : TRUE]
  /\ levels = [b \in Books |-> [side \in Sides |-> [i \in Idx |-> <<>>]]]
  /\ occ = [b \in Books |-> [side \in Sides |-> {}]]
  /\ best = [b \in Books |-> [side \in Sides |-> NULL_IDX]]
  /\ agg = NULL_IDX
  /\ fills = <<>>
  /\ ret = InvalidHandle
  /\ next_id = 0
  /\ issued = {}
  /\ cut = {}
  /\ astray = FALSE

Idle == agg = NULL_IDX

\* add_order: a price outside the ladder, or an exhausted arena, returns an
\* invalid handle with nothing done.
AddRefused(price) ==
  /\ Idle
  /\ next_id < MAX_ADDS
  /\ ~InLadder(price) \/ free_list = <<>>
  /\ next_id' = next_id + 1
  /\ fills' = <<>>
  /\ ret' = InvalidHandle
  /\ UNCHANGED <<poolVars, slots, order_session, bookVars, agg, issued, cut, astray>>

\* add_order up to match(): take a slot and fill in the order and its owner.
AddAccepted(b, side, price, qty, tif, session) ==
  /\ Idle
  /\ next_id < MAX_ADDS
  /\ InLadder(price)
  /\ free_list # <<>>
  /\ LET slot == Top(free_list) IN
       /\ free_list' = Below(free_list)
       /\ slots' = [slots EXCEPT ![slot] =
                      [order_id |-> next_id + 1, price |-> price, qty |-> qty,
                       symbol |-> b, side |-> side, tif |-> tif]]
       /\ order_session' = [order_session EXCEPT ![slot] = session]
       /\ agg' = slot
  /\ next_id' = next_id + 1
  /\ fills' = <<>>
  /\ UNCHANGED <<gen, bookVars, ret, issued, cut, astray>>

\* Level best of the other side is within the limit of an order of this side.
Crosses(side, limit, other) ==
  IF side = "BUY" THEN other <= limit ELSE other >= limit

\* Mutant: a level at the limit itself does not trade.
MarketableInside ==
  LET o == slots[agg]
      other == best[o.symbol][Opposite(o.side)]
  IN  o.qty > 0 /\ other # NULL_IDX /\ Better(o.side, LevelOf(agg), other)

\* The loop conditions of match(): quantity is left, and the best level of the
\* other side is within the aggressor's limit.
Marketable ==
  LET o == slots[agg]
      other == best[o.symbol][Opposite(o.side)]
  IN  o.qty > 0 /\ other # NULL_IDX /\ Crosses(o.side, LevelOf(agg), other)

\* One iteration of match() against the oldest order of the best level (that
\* level is never empty: BestInv).  A level it empties is left in the same step,
\* since the inner loop falls through to the clearing of its occupancy bit.
MatchOne ==
  /\ ~Idle
  /\ Marketable
  /\ Len(fills) < MAX_FILLS
  /\ LET o     == slots[agg]
         other == Opposite(o.side)
         i     == best[o.symbol][other]
         level == levels[o.symbol][other][i]
         rslot == Head(level)
         r     == slots[rslot]
         qty   == IF o.qty < r.qty THEN o.qty ELSE r.qty
     IN  /\ fills' = Append(fills, [aggressor_id |-> o.order_id,
                                    resting_id |-> r.order_id,
                                    price |-> r.price, qty |-> qty,
                                    session |-> order_session[rslot]])
         /\ slots' = [slots EXCEPT ![agg].qty = @ - qty, ![rslot].qty = @ - qty]
         /\ IF r.qty = qty
            THEN /\ LevelShrunk(o.symbol, other, i, PopFront(level))
                 /\ free(rslot)
                 /\ cut' = cut \ {rslot}
            ELSE UNCHANGED <<bookVars, poolVars, cut>>
  /\ UNCHANGED <<order_session, agg, ret, next_id, issued, astray>>

MatchDone == Marketable => Len(fills) >= MAX_FILLS

\* add_order after match(): a GTC remainder joins the back of its level and its
\* handle is returned.
Rest ==
  LET o == slots[agg]
      i == LevelOf(agg)
  IN
  /\ ~Idle
  /\ MatchDone
  /\ o.qty > 0 /\ o.tif # "IOC"
  /\ levels' = [levels EXCEPT ![o.symbol][o.side][i] = PushBack(@, agg)]
  /\ occ' = [occ EXCEPT ![o.symbol][o.side] = @ \cup {i}]
  /\ best' = [best EXCEPT ![o.symbol][o.side] =
                IF @ = NULL_IDX \/ Better(o.side, i, @) THEN i ELSE @]
  /\ ret' = [slot |-> agg, gen |-> gen[agg]]
  /\ issued' = issued \cup {[slot |-> agg, gen |-> gen[agg], id |-> o.order_id]}
  /\ cut' = IF Marketable THEN cut \cup {agg} ELSE cut
  /\ agg' = NULL_IDX
  /\ UNCHANGED <<poolVars, slots, order_session, fills, next_id, astray>>

\* add_order after match(): nothing left, or IOC; the slot goes back.
Discard ==
  /\ ~Idle
  /\ MatchDone
  /\ slots[agg].qty = 0 \/ slots[agg].tif = "IOC"
  /\ free(agg)
  /\ ret' = InvalidHandle
  /\ agg' = NULL_IDX
  /\ UNCHANGED <<slots, order_session, bookVars, fills, next_id, issued, cut,
                 astray>>

\* The slots of a level, and all resting slots.
Queued(b, side, i) == Range(levels[b][side][i])
Resting == {s \in Slots : \E b \in Books, side \in Sides, i \in Idx :
                            s \in Queued(b, side, i)}

\* The checks of Shard::handle_cancel and cancel_order: the handle names a slot,
\* in its present generation, whose order's symbol has a book here.
Known(h) ==
  h.slot \in Slots /\ gen[h.slot] = h.gen /\ slots[h.slot].symbol \in Books

CancelRefused(h) == Idle /\ ~Known(h) /\ UNCHANGED vars

\* cancel_order of an order that rests.
CancelLive(h) ==
  LET o == slots[h.slot]
      i == LevelOf(h.slot)
  IN
  /\ Idle
  /\ Known(h)
  /\ h.slot \in Resting
  /\ LevelShrunk(o.symbol, o.side, i, RemoveSlot(levels[o.symbol][o.side][i], h.slot))
  /\ free(h.slot)
  /\ cut' = cut \ {h.slot}
  /\ UNCHANGED <<slots, order_session, agg, fills, ret, next_id, issued, astray>>

\* cancel_order of a handle that passes the checks although its slot is free: it
\* was never returned, since free moves the generation on.  The slot is freed
\* once more.  PriceLevel::remove follows the links the slot was left with, into
\* other orders or none; what it makes of the levels is not modelled, and the
\* behaviour ends here.
CancelAstray(h) ==
  /\ Idle
  /\ Known(h)
  /\ h.slot \notin Resting
  /\ free(h.slot)
  /\ astray' = TRUE
  /\ UNCHANGED <<slots, order_session, bookVars, agg, fills, ret, next_id, issued, cut>>

AddOrder ==
  \E b \in Books, side \in Sides, price \in Prices, qty \in Quantities,
     tif \in TimeInForce, session \in Sessions :
    \/ AddRefused(price)
    \/ AddAccepted(b, side, price, qty, tif, session)

\* A cancel may carry any token: that of an order that rests, of one long gone,
\* or one that was never returned (OrderHandle::from_token decodes whatever it
\* is given).
CancelOrder ==
  \E h \in Tokens : CancelRefused(h) \/ CancelLive(h) \/ CancelAstray(h)

Next ==
  /\ ~astray
  /\ AddOrder \/ MatchOne \/ Rest \/ Discard \/ CancelOrder

Spec == Init /\ [][Next]_vars

-----------------------------------------------------------------------------
(* Properties                                                               *)

FreeSlots == Range(free_list)

\* Type invariant of the arena, the books and the call in progress.
TypeOK ==
  /\ free_list \in Seq(Slots)
  /\ gen \in [Slots -> 0 .. GEN_MOD - 1]
  /\ slots \in [Slots -> Order]
  /\ order_session \in [Slots -> Sessions]
  /\ levels \in [Books -> [Sides -> [Idx -> Seq(Slots)]]]
  /\ occ \in [Books -> [Sides -> SUBSET Idx]]
  /\ best \in [Books -> [Sides -> Idx \cup {NULL_IDX}]]
  /\ agg \in Slots \cup {NULL_IDX}
  /\ fills \in Seq(Fill)
  /\ ret \in OrderHandle
  /\ next_id \in Nat
  /\ issued \subseteq [slot : Slots, gen : 0 .. GEN_MOD - 1, id : Nat]
  /\ cut \subseteq Slots
  /\ astray \in BOOLEAN

\* r is the best of a side's levels S, NULL_IDX when there are none.
IsBest(side, S, r) ==
  /\ r = NULL_IDX => S = {}
  /\ r # NULL_IDX => r \in S /\ \A i \in S : ~Better(side, i, r)

\* One side of one book: its bitmap marks the non-empty levels, and its cached
\* best index is the best of them.
SideOK(b, side) ==
  /\ occ[b][side] = {i \in Idx : levels[b][side][i] # <<>>}
  /\ IsBest(side, occ[b][side], best[b][side])

\* Every cached best index is exact.
BestExact == \A b \in Books, side \in Sides : SideOK(b, side)

\* The cached best index of a side, moved by add_order, match() and
\* cancel_order, always is the best non-empty level, and the occupancy bitmap
\* marks exactly the non-empty levels, also between two fills of a sweep.
BestInv == astray \/ BestExact

\* One level: no slot is queued twice, and each belongs where it is queued.
Placed(b, side, i) ==
  /\ IsInjective(levels[b][side][i])
  /\ \A s \in Queued(b, side, i) :
       slots[s].symbol = b /\ slots[s].side = side /\ LevelOf(s) = i

\* Every slot is free once, or rests once, or is the order being added.
OneOwner ==
  /\ IsInjective(free_list)
  /\ \A b \in Books, side \in Sides, i \in Idx : Placed(b, side, i)
  /\ \A s \in Slots : s \in FreeSlots \/ s \in Resting \/ s = agg
  /\ \A s \in FreeSlots : s \notin Resting
  /\ agg \notin FreeSlots /\ agg \notin Resting

\* Every slot of the shared arena has exactly one owner: it is free once, or
\* rests once in the one level that its own symbol, side and price name, or is
\* the order being added.  No slot leaks and none is freed twice, although
\* add_order, match() and cancel_order of every book free into one pool and
\* cancels carry any handle.  The one exception is a cancel with a handle that
\* was never returned and yet has the present generation of a free slot
\* (astray): the checks of handle_cancel let it through, and it frees the slot
\* a second time.
SlotOwnership == astray \/ OneOwner

\* What rests is real: a positive quantity of a GTC order.
RestingIsLive == \A s \in Resting : slots[s].qty > 0 /\ slots[s].tif = "GTC"

\* Crossed resting orders are due to the limit of fills.
Uncrossed ==
  \A x, y \in Resting :
    /\ slots[x].symbol = slots[y].symbol
    /\ slots[x].side = "BUY" /\ slots[y].side = "SELL"
    /\ Crosses("BUY", LevelOf(x), LevelOf(y))
    => IF slots[x].order_id > slots[y].order_id THEN x \in cut ELSE y \in cut

\* Two resting orders of a book that could trade with each other are there only
\* because the matching of the later one was stopped by MAX_FILLS_PER_ORDER.
NoCrossUnlessCut == astray \/ Uncrossed

\* A returned handle in its slot's present generation names its order.
HandlesExact ==
  \A h \in issued :
    gen[h.slot] = h.gen => h.slot \in Resting /\ slots[h.slot].order_id = h.id

\* A returned handle whose generation still matches names the very order it was
\* returned for, and that order rests: a late or repeated cancel of an order
\* that is gone can never reach the order now in its slot.
HandleNamesItsOrder == astray \/ HandlesExact

-----------------------------------------------------------------------------
(* The inductive invariant                                                  *)

\* Fewer orders are added in the arena's lifetime than a generation has values.
\* Without it a generation can come round to the one of an old handle.
NoGenWrap == MAX_ADDS < GEN_MOD

\* Order ids follow arrival, and the order being added is the latest.
ArrivalOrder ==
  /\ next_id <= MAX_ADDS
  /\ \A s \in Resting : slots[s].order_id <= next_id
  /\ ~Idle => /\ slots[agg].order_id = next_id
              /\ InLadder(slots[agg].price) /\ slots[agg].symbol \in Books
              /\ \A s \in Resting : slots[s].order_id < next_id

\* A slot has been freed at most once for each order that was added, counting
\* the one it holds as not yet freed; handles never run ahead of their slot.
GenBound ==
  /\ \A s \in Slots : gen[s] <= next_id /\ (s \notin FreeSlots => gen[s] < next_id)
  /\ \A h \in issued : h.gen <= gen[h.slot]

BookInv ==
  /\ TypeOK /\ BestExact /\ OneOwner /\ RestingIsLive /\ ArrivalOrder
  /\ GenBound /\ HandlesExact /\ Uncrossed

IInv == TypeOK /\ (astray \/ BookInv)

=============================================================================
