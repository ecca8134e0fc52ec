----------------------------- MODULE MCGtoSolve -----------------------------
\* Three requests of two sources; two small spots fit the cache side by side,
\* and a wide one, whose key collides with the first, fills it alone.
EXTENDS GtoSolve, TLC
CONSTANTS r1, r2, r3, here, there

Collide == [s \in Spots |-> IF s = "b" THEN 2 ELSE 1]
Sizes == [s \in Spots |-> IF s = "wide" THEN 2 ELSE 1]
Symmetry == Permutations(Requests) \cup Permutations(Ips)
=============================================================================
