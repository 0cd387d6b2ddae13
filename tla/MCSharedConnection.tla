------------------------- MODULE MCSharedConnection -------------------------
EXTENDS SharedConnection, TLC

\* Operations do not differ, and neither do sessions.
MCSymmetry == Permutations(Ops) \cup Permutations(Sessions)
=============================================================================
