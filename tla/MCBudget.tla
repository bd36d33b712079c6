------------------------------ MODULE MCBudget ------------------------------
EXTENDS Budget, TLC

CONSTANTS r1, r2, o1, o2

\* References are interchangeable, and so are native objects.
Interchangeable == Permutations({r1, r2}) \cup Permutations({o1, o2})
=============================================================================
