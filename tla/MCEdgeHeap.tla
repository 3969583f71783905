----------------------------- MODULE MCEdgeHeap -----------------------------
EXTENDS EdgeHeap, TLC

AnyEdge == Permutations(Edges)
=============================================================================
