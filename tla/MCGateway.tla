----------------------------- MODULE MCGateway ------------------------------
EXTENDS Gateway, TLC

\* Connections and descriptors are interchangeable.
Symmetry == Permutations(Conns) \cup Permutations(Fds)
=============================================================================
