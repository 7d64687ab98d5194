---------------------------- MODULE MC_Registry ----------------------------
\* Instances of Registry for TLC: a server and a worker process, one service,
\* two calls in flight.
EXTENDS Registry

CONSTANTS serve, work,   \* processes
          chat,          \* services
          c1, c2         \* calls
=============================================================================
