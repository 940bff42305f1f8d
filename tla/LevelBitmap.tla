---------------------------- MODULE LevelBitmap ----------------------------
(***************************************************************************)
(* lx::book::LevelBitmap: occupancy bits packed in words, scanned upwards  *)
(* or downwards a word at a time.  A word is the set of its bit positions. *)
(* marked is a history variable: the set of indices the bitmap stands for. *)
(* The scan is checked against NextUp and NextDown, the operators that     *)
(* OrderBook is specified over.                                            *)
(***************************************************************************)
EXTENDS BookOps

CONSTANT WORD_BITS  \* 64

ASSUME WordAssumption == WORD_BITS \in Nat \ {0}

VARIABLES words,   \* words_
          scan,    \* "none", "up" or "down": the query in progress
          from,    \* its argument
          w, bits, \* its locals
          result,  \* what the last finished query returned
          marked

scanVars == <<scan, from, w, bits, result>>
bitmapVars == <<words, scan, from, w, bits, result, marked>>

NUM_WORDS == (LADDER_SIZE + WORD_BITS - 1) \div WORD_BITS
Bit == 0 .. WORD_BITS - 1

WordOf(idx) == idx \div WORD_BITS
BitOf(idx) == idx % WORD_BITS

\* The first index of a word.
Base(k) == k * WORD_BITS

BitmapInit ==
  /\ words = [k \in 0 .. NUM_WORDS - 1 |-> {}]
  /\ scan = "none" /\ from = 0 /\ w = 0 /\ bits = {} /\ result = NULL_IDX
  /\ marked = {}

set(idx) ==
  /\ scan = "none"
  /\ words' = [words EXCEPT ![WordOf(idx)] = @ \cup {BitOf(idx)}]
  /\ marked' = marked \cup {idx}
  /\ UNCHANGED scanVars

clear(idx) ==
  /\ scan = "none"
  /\ words' = [words EXCEPT ![WordOf(idx)] = @ \ {BitOf(idx)}]
  /\ marked' = marked \ {idx}
  /\ UNCHANGED scanVars

Return(idx) ==
  /\ result' = idx
  /\ scan' = "none"
  /\ w' = 0 /\ bits' = {}

\* The early return of both queries.
out_of_range(f) ==
  /\ scan = "none"
  /\ f >= LADDER_SIZE
  /\ from' = f
  /\ Return(NULL_IDX)
  /\ UNCHANGED <<words, marked>>

\* Mutant: the mask drops from itself too.
AboveFrom(f) == {b \in words[WordOf(f)] : b > BitOf(f)}

\* The bits of f's word from f upwards, and from f downwards.
AtOrAbove(f) == {b \in words[WordOf(f)] : b >= BitOf(f)}
AtOrBelow(f) == {b \in words[WordOf(f)] : b <= BitOf(f)}

\* next_up masks the bits below f in f's word and scans on from there ...
next_up(f) ==
  /\ scan = "none"
  /\ f < LADDER_SIZE
  /\ scan' = "up"
  /\ from' = f
  /\ w' = WordOf(f)
  /\ bits' = AtOrAbove(f)
  /\ UNCHANGED <<words, result, marked>>

\* ... one iteration of its loop: count trailing zeros, or the next word.
scan_up ==
  /\ scan = "up"
  /\ IF bits # {} THEN Return(Base(w) + Min(bits))
     ELSE IF w + 1 >= NUM_WORDS THEN Return(NULL_IDX)
     ELSE w' = w + 1 /\ bits' = words[w + 1] /\ UNCHANGED <<scan, result>>
  /\ UNCHANGED <<words, from, marked>>

\* next_down masks the bits above f ...
next_down(f) ==
  /\ scan = "none"
  /\ f < LADDER_SIZE
  /\ scan' = "down"
  /\ from' = f
  /\ w' = WordOf(f)
  /\ bits' = AtOrBelow(f)
  /\ UNCHANGED <<words, result, marked>>

\* Mutant: the word index is not decremented.
scan_down_stuck ==
  /\ scan = "down"
  /\ IF bits # {} THEN Return(Base(w) + Max(bits))
     ELSE IF w = 0 THEN Return(NULL_IDX)
     ELSE UNCHANGED <<w, bits, scan, result>>
  /\ UNCHANGED <<words, from, marked>>

\* ... one iteration of its loop: count leading zeros, or the word below.
scan_down ==
  /\ scan = "down"
  /\ IF bits # {}
     THEN Return(Base(w) + (WORD_BITS - 1 - Min({WORD_BITS - 1 - b : b \in bits})))
     ELSE IF w = 0 THEN Return(NULL_IDX)
     ELSE w' = w - 1 /\ bits' = words[w - 1] /\ UNCHANGED <<scan, result>>
  /\ UNCHANGED <<words, from, marked>>

\* Queries start anywhere, one past the end and NULL_IDX included.
Starts == 0 .. LADDER_SIZE \cup {NULL_IDX}

BitmapNext ==
  \/ \E idx \in Idx : set(idx) \/ clear(idx)
  \/ \E f \in Starts : out_of_range(f) \/ next_up(f) \/ next_down(f)
  \/ scan_up
  \/ scan_down

\* The loop of a query runs to its end.
BitmapSpec == BitmapInit /\ [][BitmapNext]_bitmapVars /\ WF_bitmapVars(scan_up) /\ WF_bitmapVars(scan_down)

-----------------------------------------------------------------------------
\* Type invariant; the scan never leaves the array of words.
BitmapTypeOK ==
  /\ words \in [0 .. NUM_WORDS - 1 -> SUBSET Bit]
  /\ scan \in {"none", "up", "down"}
  /\ from \in Starts
  /\ w \in 0 .. NUM_WORDS - 1
  /\ bits \subseteq Bit
  /\ result \in Idx \cup {NULL_IDX}
  /\ marked \subseteq Idx

\* set and clear of one index leave every other index as it was, in its own
\* word and in the others: test(i) is membership.
WordsAreMarked ==
  \A idx \in Idx : BitOf(idx) \in words[WordOf(idx)] <=> idx \in marked

\* The words hold the marked indices and, past the end of the ladder, nothing.
WordsExact ==
  \A k \in 0 .. NUM_WORDS - 1, b \in Bit : b \in words[k] <=> Base(k) + b \in marked

\* Halfway through a query: bits are the marked indices of word w on the right side
\* of from, and no word passed so far held one.
ScanHolds ==
  /\ scan = "up" =>
       /\ from \in Idx /\ from < Base(w + 1)
       /\ \A b \in Bit : b \in bits <=> Base(w) + b \in marked /\ Base(w) + b >= from
       /\ \A i \in marked : i >= from => i >= Base(w)
  /\ scan = "down" =>
       /\ from \in Idx /\ from >= Base(w)
       /\ \A b \in Bit : b \in bits <=> Base(w) + b \in marked /\ Base(w) + b <= from
       /\ \A i \in marked : i <= from => i < Base(w + 1)

\* The inductive invariant behind QueryIsNearest.
IInv == BitmapTypeOK /\ WordsExact /\ ScanHolds

\* A query that finishes returns what the reference definition gives for the
\* indices marked: the nearest one at or beyond from, in from's word or several
\* words away, and NULL_IDX when there is none.
QueryIsNearest ==
  [][/\ scan = "up" /\ scan' = "none" => result' = NextUp(marked, from)
     /\ scan = "down" /\ scan' = "none" => result' = NextDown(marked, from)]_bitmapVars

\* The unbounded loops of next_up and next_down finish.
QueryReturns == scan # "none" ~> scan = "none"
=============================================================================
