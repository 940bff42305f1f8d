------------------------- MODULE OrderBookPriority --------------------------
(***************************************************************************)
(* OrderBook implements PriceTimeBook: the refinement mapping from slots,  *)
(* levels and cached indices to a set of resting orders.                   *)
(***************************************************************************)
EXTENDS OrderBook

\* The order in a slot, as the abstract book sees it.
AbsOrder(s) ==
  [id |-> slots[s].order_id, symbol |-> slots[s].symbol, side |-> slots[s].side,
   level |-> LevelOf(s), price |-> slots[s].price, qty |-> slots[s].qty,
   tif |-> slots[s].tif]

AbsOrders ==
  {o \in [id : 1 .. MAX_ADDS, symbol : Books, side : Sides, level : Idx,
          price : Prices, qty : Quantities, tif : TimeInForce] :
     o.level = price_to_idx(o.price)}

AbsResting ==
  UNION {{AbsOrder(s) : s \in Slots \cap Queued(b, side, i)} :
           b \in Books, side \in Sides, i \in Idx}
AbsIncoming == IF Idle THEN {} ELSE {AbsOrder(agg)}
AbsTrade(f) == [id |-> f.resting_id, price |-> f.price, qty |-> f.qty]
AbsTrades == [k \in 1 .. Len(fills) |-> AbsTrade(fills[k])]

PriceTime ==
  INSTANCE PriceTimeBook WITH
    Orders <- AbsOrders, MaxFills <- MAX_FILLS,
    resting <- AbsResting, incoming <- AbsIncoming, trades <- AbsTrades

\* The ladder with its cached best levels, bitmaps, FIFO levels and recycled
\* slots implements price-time priority: every fill is with the best-priced,
\* then earliest, order there is, matching stops only for want of quantity or
\* of a counter-order or at MAX_FILLS, and a cancel removes one order only.
PriceTimePriority == PriceTime!Spec

-----------------------------------------------------------------------------
(* What the refinement needs besides OrderBook's inductive invariant        *)

\* The queue q holds its orders by arrival.
ByArrival(q) ==
  \A j, k \in DOMAIN q : j < k => slots[q[j]].order_id < slots[q[k]].order_id

\* An order id rests once, every level is queued by arrival, and the fills array
\* is never longer than MAX_FILLS_PER_ORDER.
QueuedByArrival ==
  /\ \A x, y \in Resting : slots[x].order_id = slots[y].order_id => x = y
  /\ \A b \in Books, side \in Sides, i \in Idx : ByArrival(levels[b][side][i])
  /\ Len(fills) <= MAX_FILLS
=============================================================================
