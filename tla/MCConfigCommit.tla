---------------------------- MODULE MCConfigCommit ----------------------------
EXTENDS ConfigCommit, TLC
CONSTANTS u1, u2, u3, p1

\* Requests are alike.
Requests == Permutations(Update)
=============================================================================
