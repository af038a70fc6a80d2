--------------------------- MODULE MCJobLifecycle ---------------------------
EXTENDS JobLifecycle, TLC

CONSTANTS r1, r2, r3, a1, a2

Symmetry == Permutations(Runs) \cup Permutations(Admins)
=============================================================================
