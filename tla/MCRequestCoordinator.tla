------------------------- MODULE MCRequestCoordinator -------------------------
\* RequestCoordinator for TLC: sessions and requests are interchangeable.
EXTENDS RequestCoordinator, TLC

Symmetry == Permutations(Session) \cup Permutations(Request)
=============================================================================
