--------------------------- MODULE MCUringGateway ---------------------------
EXTENDS UringGateway, TLC

\* Connections and descriptors are interchangeable.
Symmetry == Permutations(Conns) \cup Permutations(Fds)
=============================================================================
