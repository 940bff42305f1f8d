------------------------------ MODULE BookOps ------------------------------
(***************************************************************************)
(* The vocabulary that the book's data structures share: sides, ladder     *)
(* indices, the reference meaning of the occupancy bitmap (a set of        *)
(* indices) and of a price level (a FIFO sequence of pool slots).  The     *)
(* order book is specified over these; LevelBitmap and PriceLevel show     *)
(* that the 64-bit words and the intrusive links of the code compute them. *)
(***************************************************************************)
EXTENDS Integers, Sequences, FiniteSetsExt

CONSTANTS LADDER_SIZE,  \* price levels per side of a book
          MAX_ORDERS,   \* slots of the shard's order arena
          NULL_IDX      \* the code's UINT32_MAX: beyond every slot and level

ASSUME SizesAssumption ==
  /\ LADDER_SIZE \in Nat \ {0}
  /\ MAX_ORDERS \in Nat \ {0}
  /\ NULL_IDX \in Nat
  /\ NULL_IDX > LADDER_SIZE /\ NULL_IDX > MAX_ORDERS

Sides == {"BUY", "SELL"}
TimeInForce == {"GTC", "IOC"}

Idx == 0 .. LADDER_SIZE - 1
Slots == 0 .. MAX_ORDERS - 1

Opposite(side) == IF side = "BUY" THEN "SELL" ELSE "BUY"

\* Level i of this side has a strictly better price than level j.
Better(side, i, j) == IF side = "BUY" THEN i > j ELSE i < j

-----------------------------------------------------------------------------
(* LevelBitmap: a set of occupied level indices.                            *)

\* lowest set bit >= from, else NULL_IDX
NextUp(bits, from) ==
  LET above == {i \in bits : i >= from}
  IN  IF from >= LADDER_SIZE \/ above = {} THEN NULL_IDX ELSE Min(above)

\* highest set bit <= from, else NULL_IDX; from = NULL_IDX gives NULL_IDX
NextDown(bits, from) ==
  LET below == {i \in bits : i <= from}
  IN  IF from >= LADDER_SIZE \/ below = {} THEN NULL_IDX ELSE Max(below)

-----------------------------------------------------------------------------
(* PriceLevel: a FIFO of slots, oldest order first.                         *)

\* Mutant: a new order goes to the front.
PushFront(level, slot) == <<slot>> \o level

PushBack(level, slot) == Append(level, slot)

PopFront(level) == Tail(level)

\* Unlinking one slot from anywhere in the list.  The slot is in the list:
\* nothing in the code looks for it, it follows the slot's own links.
RemoveSlot(level, slot) ==
  LET i == CHOOSE k \in DOMAIN level : level[k] = slot
  IN  SubSeq(level, 1, i - 1) \o SubSeq(level, i + 1, Len(level))

-----------------------------------------------------------------------------
(* Pool: the free slots, a stack whose top is the last.                     *)

Top(stack) == stack[Len(stack)]
Below(stack) == SubSeq(stack, 1, Len(stack) - 1)
=============================================================================
