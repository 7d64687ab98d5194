---------------------------- MODULE MC_TabStream ----------------------------
\* Instances of TabStream for TLC.
EXTENDS TabStream

CONSTANTS t1, t2, t3
=============================================================================
