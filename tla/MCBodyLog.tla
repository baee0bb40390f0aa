------------------------------ MODULE MCBodyLog ------------------------------
\* A response of up to four bytes of which three are kept, flushed by two, and two
\* deletions of its entry.
EXTENDS BodyLog, TLC

CONSTANTS d1, d2

TwoRemovers == {d1, d2}
SymRemovers == Permutations(TwoRemovers)
=============================================================================
