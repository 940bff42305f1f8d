--------------------------- MODULE PriceTimeBook ---------------------------
(***************************************************************************)
(* What the matching engine promises, with no data structures: resting     *)
(* orders are a set, an incoming order trades with the opposite order of   *)
(* best price and, at one price, of earliest arrival, for at most MaxFills *)
(* fills; the remainder of a GTC order then rests.                         *)
(***************************************************************************)
EXTENDS Integers, Sequences

CONSTANTS Orders,    \* the orders that can arrive
          MaxFills

VARIABLES resting,   \* the set of resting orders
          incoming,  \* the order being matched, as a set of at most one
          trades     \* what the latest incoming order has traded so far

vars == <<incoming, trades, resting>>

\* r, of the other side, is within the limit of o.
Within(o, r) ==
  /\ r.symbol = o.symbol
  /\ r.side # o.side
  /\ IF o.side = "BUY" THEN r.level <= o.level ELSE r.level >= o.level

\* Price-time priority between two resting orders of one side of a book.
Precedes(r, q) ==
  \/ IF r.side = "BUY" THEN r.level > q.level ELSE r.level < q.level
  \/ r.level = q.level /\ r.id < q.id

Candidates(o) == {r \in resting : Within(o, r)}

Stopped(o) == o.qty = 0 \/ Candidates(o) = {} \/ Len(trades) = MaxFills

Init == resting = {} /\ incoming = {} /\ trades = <<>>

\* An order no book takes leaves no trace but an empty report.
Refuse ==
  /\ incoming = {}
  /\ trades' = <<>>
  /\ UNCHANGED <<incoming, resting>>

Accept ==
  /\ incoming = {}
  /\ \E o \in incoming' : /\ o \in Orders
                          /\ incoming' = {o}
                          /\ \A r \in resting : r.id < o.id
  /\ trades' = <<>>
  /\ UNCHANGED resting

\* o trades with r, the first of its candidates.
Trade(o, r) ==
  /\ o.qty > 0 /\ Len(trades) < MaxFills
  /\ LET qty == IF o.qty < r.qty THEN o.qty ELSE r.qty
         left == IF r.qty = qty THEN {} ELSE {[r EXCEPT !.qty = @ - qty]}
     IN  /\ trades' = Append(trades, [id |-> r.id, price |-> r.price, qty |-> qty])
         /\ incoming' = {[o EXCEPT !.qty = @ - qty]}
         /\ resting' = (resting \ {r}) \cup left
  /\ \A q \in Candidates(o) \ {r} : Precedes(r, q)

Rest(o) ==
  /\ o.qty > 0 /\ o.tif = "GTC"
  /\ incoming' = {}
  /\ Stopped(o)
  /\ resting' = resting \cup {o}
  /\ UNCHANGED trades

Drop(o) ==
  /\ o.qty = 0 \/ o.tif = "IOC"
  /\ incoming' = {}
  /\ Stopped(o)
  /\ UNCHANGED <<resting, trades>>

Cancel(r) ==
  /\ resting' = resting \ {r}
  /\ UNCHANGED <<incoming, trades>>

Next ==
  \/ Refuse
  \/ Accept
  \/ \E o \in incoming : Rest(o) \/ Drop(o) \/ \E r \in Candidates(o) : Trade(o, r)
  \/ incoming = {} /\ \E r \in resting : Cancel(r)

Spec == Init /\ [][Next]_vars
=============================================================================
