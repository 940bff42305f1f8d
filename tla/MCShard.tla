------------------------------ MODULE MCShard ------------------------------
EXTENDS Shard

CONSTANTS Buyer, Seller

\* GTC orders at the one price inside the ladder that trade with each other, one
\* that trades with the buyer's own, an IOC order, an order for a symbol of
\* another shard, and one with a price outside the ladder.
MCNewOrders ==
  [symbol : Books, side : {"BUY"}, price : {0}, qty : Quantities,
   tif : {"GTC"}, session : {Buyer}]
  \cup [symbol : Books, side : {"SELL"}, price : {0}, qty : Quantities,
        tif : {"GTC"}, session : {Seller}]
  \cup [symbol : Books, side : {"SELL"}, price : {0}, qty : {1},
        tif : {"GTC"}, session : {Buyer}]
  \cup [symbol : Books, side : {"BUY"}, price : {0}, qty : {2},
        tif : {"IOC"}, session : {Buyer}]
  \cup [symbol : ForeignSymbols, side : {"BUY"}, price : {0}, qty : {1},
        tif : {"GTC"}, session : {Buyer}]
  \cup [symbol : Books, side : {"SELL"}, price : {LADDER_SIZE}, qty : {1},
        tif : {"GTC"}, session : {Seller}]

\* Tokens that clients send without having been given them: one that names no
\* slot, the first of the slot that is used last, and the second of the slot that
\* is used first.
MCTokens == {[slot |-> MAX_ORDERS, gen |-> 0], [slot |-> 0, gen |-> 0],
             [slot |-> MAX_ORDERS - 1, gen |-> 1]}

MCShardPrices == {0, LADDER_SIZE}
=============================================================================
