----------------------------- MODULE MCFactStore -----------------------------
EXTENDS FactStoreRefinement, TLC

CONSTANTS w1, w2, r1, r2, k1, k2

\* Well-typed values of boolean attributes.
Bools     == {Bool(0), Bool(1)}
BoolTypes == [k \in Keys |-> "bool"]

\* True and a word.  k1 stores both as True: the first is found again, the
\* second supersedes.  k2 stores the first as 1.0, which never equals it, and
\* cannot read the second.
TrueOrWord == {Bool(1), Word(2)}
MixedTypes == [k \in Keys |-> IF k = k1 THEN "bool" ELSE "numeric"]

NumTypes   == [k \in Keys |-> "numeric"]

Symmetry == Permutations(Workers) \cup Permutations(Reviewers)
              \cup Permutations(Keys)
=============================================================================
