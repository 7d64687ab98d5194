---------------------------- MODULE MC_Scheduler ----------------------------
(***************************************************************************)
(* Small instances of Scheduler.  In the runs with one tick per worker the *)
(* worker ids are the ticks themselves; in the run of `struna serve`       *)
(* the loop and the Tick RPC share one Worker, and so one id (server.ts).  *)
(***************************************************************************)
EXTENDS Scheduler, TLC

CONSTANTS w1

OwnWorker   == [t \in Tick |-> t]
SharedWorker == [t \in Tick |-> w1]

\* Ticks, and callers, differ in name only.
Symmetry == Permutations(Tick) \cup Permutations(Client)
=============================================================================
