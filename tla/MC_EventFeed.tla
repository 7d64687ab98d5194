---------------------------- MODULE MC_EventFeed ----------------------------
\* Instance of EventFeed for TLC: two writers.
EXTENDS EventFeed

CONSTANTS w1, w2

\* One of them is the run of the instance that is watched.
Watched == {{w1}}
=============================================================================
