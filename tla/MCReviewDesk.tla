---------------------------- MODULE MCReviewDesk ----------------------------
EXTENDS ReviewDesk, TLC

CONSTANTS w1, r1, r2, k1, i1, i2

\* A number, and a word where a number is expected.
Unreadable == {Num(10), Num(20), Word(2)}
NumTypes   == [k \in Keys |-> "numeric"]

Symmetry == Permutations(Reviewers) \cup Permutations(Items)
=============================================================================
