----------------------------- MODULE MCRegistry -----------------------------
EXTENDS Registry, TLC

\* Group ids and requests are interchangeable.
Symmetry == Permutations(Groups) \cup Permutations(Requests)
=============================================================================
