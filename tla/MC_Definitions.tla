--------------------------- MODULE MC_Definitions ---------------------------
\* Instance of Definitions for TLC: three calls race over two names.
EXTENDS Definitions, TLC

CONSTANTS c1, c2, c3     \* calls

Alike == Permutations(Caller)
=============================================================================
