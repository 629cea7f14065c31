------------------------- MODULE MCClientTransport --------------------------
EXTENDS ClientTransport, TLC

\* Callers are interchangeable.
ThreadPermutations == Permutations(Threads)
=============================================================================
