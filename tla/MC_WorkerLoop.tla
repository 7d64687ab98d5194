--------------------------- MODULE MC_WorkerLoop ---------------------------
\* Instances of WorkerLoop for TLC, with an idle sleep of 5 s: one unit of time
\* is 10 s, and the code's 60, 20 and 30 s are 6, 2 and 3.
EXTENDS WorkerLoop

CONSTANTS loop, caller, poison, plain, busy
=============================================================================
