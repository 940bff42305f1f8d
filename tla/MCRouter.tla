------------------------------ MODULE MCRouter ------------------------------
EXTENDS Router, SequencesExt, TLC

\* Sessions are interchangeable.
Symmetry == Permutations(Sessions)

\* Shard i hosts the symbols that the router sends to it.
MCAssigned == [s \in Shards |-> SetToSeq({y \in Symbols : y % N = s})]
=============================================================================
