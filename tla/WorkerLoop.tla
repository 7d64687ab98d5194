----------------------------- MODULE WorkerLoop -----------------------------
(***************************************************************************)
(* One server process: the worker loop and the ticks that schedulers call, *)
(* their budgets, back-off, and the shutdown.  What a run does to its      *)
(* instance is Scheduler's; here a run takes time and saves, comes due     *)
(* again, or cannot be saved.                                              *)
(*                                                                         *)
(* Time is counted in units of twice the idle sleep, which is rounded up   *)
(* to one.  It passes only while everybody sleeps, runs or is done.        *)
(***************************************************************************)
EXTENDS Naturals, FiniteSets, SequencesExt, FiniteSetsExt

CONSTANTS Instance,   \* instances, due or not
          Poison,     \* those whose release the database refuses, every time
          Caller,     \* Tick calls that can be open at once
          Loop,       \* runWorker
          Lease, Beat, RunTimeout, MaxBackoff,  \* the code's times
          LoopBudget, LoopItems,                \* tick's defaults
          AskedBudget, DefaultBudget, MaxBudget,  \* budgets of calls, and their clamp
          AskedItems, DefaultItems, MaxItems,     \* and their items
          MaxOutages  \* bound: times the database goes away

Actor == Caller \cup {Loop}

ASSUME Times == /\ {Lease, Beat, RunTimeout, MaxBackoff, LoopBudget, LoopItems} \subseteq Nat \ {0}
                /\ AskedBudget \cup AskedItems \subseteq Nat
                /\ MaxBudget \in Nat /\ {LoopBudget, DefaultBudget} \subseteq 1..MaxBudget
                /\ MaxItems \in Nat /\ {LoopItems, DefaultItems} \subseteq 1..MaxItems
                /\ IsFiniteSet(Poison) /\ Poison \subseteq Instance
                /\ MaxOutages \in Nat /\ Loop \notin Caller

VARIABLES
  queue,   \* due instances by runnable_at, held ones too
  lease,   \* time until locked_until lapses; 0 when it has, or is null
  st,      \* of each actor: off, ticking, running, sleeping or stopped
  tick,    \* its tick: budget and max (items), and the time spent and items done
  run,     \* its run: the instance and the time since the claim
  fresh,   \* callers that may call in this unit of time, instances not due yet
  backoff, delay,  \* of runWorker: what its next failure makes it sleep, and the sleep
  db, outages,      \* the database: up or not, and how often it went away
  server,  \* "up", "closing" or "exited"
  unsaved  \* ghost: instances whose last run was not saved, or was cut by the exit

vars == <<queue, lease, st, tick, run, fresh, backoff, delay, db, outages, server, unsaved>>

----------------------------------------------------------------------------
Ticking(budget, max) == [budget |-> budget, max |-> max, spent |-> 0, items |-> 0]
NoTick == Ticking(0, 0)
NoRun  == [of |-> Loop, elapsed |-> 0]

Running(i) == \E a \in Actor : st[a] = "running" /\ run[a].of = i
InQueue(i) == \E n \in DOMAIN queue : queue[n] = i
Without(i) == RemoveFirst(queue, i)
Free(i)    == lease[i] = 0

\* The instances that cannot be saved are the oldest, which is the worst case.
Init ==
  /\ queue = SetToSeq(Poison) /\ lease = [i \in Instance |-> 0]
  /\ st = [a \in Actor |-> IF a = Loop THEN "ticking" ELSE "off"]
  /\ tick = [a \in Actor |-> IF a = Loop THEN Ticking(LoopBudget, LoopItems) ELSE NoTick]
  /\ run = [a \in Actor |-> NoRun]
  /\ fresh = Caller \cup (Instance \ Poison) /\ backoff = 1 /\ delay = 0
  /\ db = TRUE /\ outages = 0 /\ server = "up" /\ unsaved = {}

\* An instance comes due, once: started, signalled, retried, or its timer is.
Arrive(i) ==
  /\ ~InQueue(i) /\ db /\ i \in fresh /\ server # "exited"
  /\ queue' = Append(queue, i)
  /\ fresh' = fresh \ {i}
  /\ UNCHANGED <<lease, st, tick, run, backoff, delay, db, outages, server, unsaved>>

----------------------------------------------------------------------------
(***************************************************************************)
(* tick.                                                                   *)
(***************************************************************************)

\* Mutant: a tick goes on while it has time or items left.
EitherLeft(a) == tick[a].items < tick[a].max \/ tick[a].spent < tick[a].budget

\* The tick may take one more.
HasBudget(a) == tick[a].items < tick[a].max /\ tick[a].spent < tick[a].budget

\* Mutant: the loop does not look at its signal.
Deaf == FALSE

\* Its signal has been aborted.
Aborted == server # "up"

\* runWorker: what it sleeps after a tick.
Sleep(more, failed) == IF failed THEN backoff ELSE IF more THEN 0 ELSE 1

\* It doubles with each failure in a row, up to MAX_BACKOFF_MS.
Doubled == Min({MaxBackoff, 2 * backoff})

\* The tick returns or throws: a caller is answered, the loop sleeps, starts
\* the next one, or stops if it was told to.
EndTick(a, more, failed) ==
  /\ tick' = [tick EXCEPT ![a] = IF a = Loop THEN Ticking(LoopBudget, LoopItems) ELSE NoTick]
  /\ run' = [run EXCEPT ![a] = NoRun]
  /\ IF a # Loop
     THEN st' = [st EXCEPT ![a] = "off"] /\ UNCHANGED <<backoff, delay>>
     ELSE /\ backoff' = IF failed THEN Doubled ELSE 1
          /\ delay' = IF Aborted THEN 0 ELSE Sleep(more, failed)
          /\ st' = [st EXCEPT ![a] = IF Aborted THEN "stopped"
                                     ELSE IF Sleep(more, failed) > 0 THEN "sleeping" ELSE "ticking"]

\* #claim: the oldest due instance nobody holds.
Oldest(i) == \E n \in DOMAIN queue : /\ queue[n] = i /\ Free(i)
                                     /\ \A m \in 1..(n - 1) : ~Free(queue[m])

Claim(a) ==
  /\ st[a] = "ticking" /\ HasBudget(a) /\ db
  /\ \E i \in Instance :
       /\ Oldest(i)
       /\ lease' = [lease EXCEPT ![i] = Lease]
       /\ run' = [run EXCEPT ![a] = [of |-> i, elapsed |-> 0]]
       /\ unsaved' = unsaved \ {i}
  /\ st' = [st EXCEPT ![a] = "running"]
  /\ UNCHANGED <<queue, tick, fresh, backoff, delay, db, outages, server>>

\* Nothing to claim, or the budget is spent.
TickReturns(a) ==
  /\ st[a] = "ticking"
  /\ \/ HasBudget(a) /\ db /\ (\A i \in Instance : ~Oldest(i)) /\ EndTick(a, FALSE, FALSE)
     \/ ~HasBudget(a) /\ EndTick(a, TRUE, FALSE)
  /\ UNCHANGED <<queue, lease, fresh, db, outages, server, unsaved>>

ClaimThrows(a) ==
  /\ st[a] = "ticking" /\ HasBudget(a) /\ ~db
  /\ EndTick(a, FALSE, TRUE)
  /\ UNCHANGED <<queue, lease, fresh, db, outages, server, unsaved>>

\* Mutant: an instance that was out of time keeps its place.
KeepPlace(i) == queue

\* Mutant: it is queued again without leaving its place.
Twice(i) == Append(queue, i)

\* wakeAt is the time of the release: it goes behind those already due.
ComesDueAgain(i) == Append(Without(i), i)

\* The run is saved and its lease dropped; the tick goes on.  One that was out
\* of time is due at once.
Saved(a) ==
  /\ st[a] = "running" /\ db /\ run[a].of \notin Poison
  /\ queue' = IF run[a].elapsed < RunTimeout THEN Without(run[a].of)
              ELSE ComesDueAgain(run[a].of)
  /\ lease' = [lease EXCEPT ![run[a].of] = 0]
  /\ st' = [st EXCEPT ![a] = "ticking"]
  /\ run' = [run EXCEPT ![a] = NoRun]
  /\ tick' = [tick EXCEPT ![a].items = @ + 1]
  /\ UNCHANGED <<fresh, backoff, delay, db, outages, server, unsaved>>

\* It cannot be saved: the tick throws and the instance stays locked, in its
\* place, until the lease lapses.
SaveThrows(a) ==
  /\ st[a] = "running" /\ (~db \/ run[a].of \in Poison)
  /\ EndTick(a, FALSE, TRUE)
  /\ unsaved' = unsaved \cup {run[a].of}
  /\ UNCHANGED <<queue, lease, fresh, db, outages, server>>

\* clamp, of workerRoutes.
Clamp(value, fallback, max) == IF value > 0 THEN Min({value, max}) ELSE fallback

\* A scheduler calls Tick, with a budget and a number of items.
TickCalled(a) ==
  /\ server # "exited" /\ st[a] = "off" /\ a \in fresh
  /\ \E budget \in AskedBudget, items \in AskedItems :
       tick' = [tick EXCEPT ![a] = Ticking(Clamp(budget, DefaultBudget, MaxBudget),
                                           Clamp(items, DefaultItems, MaxItems))]
  /\ st' = [st EXCEPT ![a] = "ticking"]
  /\ fresh' = fresh \ {a}
  /\ UNCHANGED <<queue, lease, run, backoff, delay, db, outages, server, unsaved>>

----------------------------------------------------------------------------
(***************************************************************************)
(* Time, outages, and the shutdown.                                        *)
(***************************************************************************)

Less(n) == IF n = 0 THEN 0 ELSE n - 1

\* The heartbeat of a run renews its lease.
Beats(i) == db /\ \E a \in Actor :
  st[a] = "running" /\ run[a].of = i /\ (run[a].elapsed + 1) % Beat = 0

Pass ==
  /\ server # "exited"
  /\ \A a \in Actor : /\ st[a] # "ticking"
                      /\ st[a] = "running" => run[a].elapsed < RunTimeout
  /\ st[Loop] = "sleeping" => delay > 0
  /\ delay' = Less(delay)
  /\ lease' = [i \in Instance |-> IF Beats(i) THEN Lease ELSE Less(lease[i])]
  /\ run' = [a \in Actor |-> IF st[a] = "running" THEN [run[a] EXCEPT !.elapsed = @ + 1] ELSE run[a]]
  /\ tick' = [a \in Actor |-> IF st[a] = "running" THEN [tick[a] EXCEPT !.spent = @ + 1] ELSE tick[a]]
  /\ fresh' = fresh \cup Caller
  /\ UNCHANGED <<queue, st, backoff, db, outages, server, unsaved>>

\* The sleep is over, or was aborted.
Wake ==
  /\ st[Loop] = "sleeping" /\ (delay = 0 \/ Aborted)
  /\ st' = [st EXCEPT ![Loop] = IF Aborted THEN "stopped" ELSE "ticking"]
  /\ delay' = 0
  /\ UNCHANGED <<queue, lease, tick, run, fresh, backoff, db, outages, server, unsaved>>

Down ==
  /\ db /\ outages < MaxOutages
  /\ db' = FALSE /\ outages' = outages + 1
  /\ UNCHANGED <<queue, lease, st, tick, run, fresh, backoff, delay, server, unsaved>>

Up ==
  /\ ~db /\ db' = TRUE
  /\ UNCHANGED <<queue, lease, st, tick, run, fresh, backoff, delay, outages, server, unsaved>>

\* SIGTERM: close aborts the loop's signal ...
Close ==
  /\ server = "up" /\ server' = "closing"
  /\ UNCHANGED <<queue, lease, st, tick, run, fresh, backoff, delay, db, outages, unsaved>>

\* Mutant: close does not wait for the loop.
Unawaited == TRUE

\* ... and waits for it.
Awaited == st[Loop] = "stopped"

\* Then the connections are closed and the process exits, whatever a Tick call
\* was doing.
Exit ==
  /\ server = "closing" /\ Awaited
  /\ server' = "exited"
  /\ st' = [a \in Actor |-> IF a = Loop THEN st[a] ELSE "off"]
  /\ unsaved' = unsaved \cup {run[a].of : a \in {c \in Caller : st[c] = "running"}}
  /\ run' = [a \in Actor |-> IF a = Loop THEN run[a] ELSE NoRun]
  /\ tick' = [a \in Actor |-> IF a = Loop THEN tick[a] ELSE NoTick]
  /\ UNCHANGED <<queue, lease, fresh, backoff, delay, db, outages>>

Acts(a) == Claim(a) \/ TickReturns(a) \/ ClaimThrows(a) \/ Saved(a) \/ SaveThrows(a)

Next == \/ Pass \/ Wake \/ Down \/ Up \/ Close \/ Exit
        \/ \E i \in Instance : Arrive(i)
        \/ \E a \in Actor : server # "exited" /\ Acts(a)
        \/ \E a \in Caller : TickCalled(a)

\* Time passes, timers fire, every actor is scheduled, runs end by their time
\* limit, and an outage is over some day.  Nobody has to call, or to close.
Fairness == /\ WF_vars(Pass) /\ WF_vars(Wake) /\ WF_vars(Up) /\ WF_vars(Exit)
            /\ \A a \in Actor : WF_vars(server # "exited" /\ Acts(a))

Spec == Init /\ [][Next]_vars /\ Fairness

----------------------------------------------------------------------------
(***************************************************************************)
(* Properties.                                                             *)
(***************************************************************************)

Ticks == [budget : 0..MaxBudget, max : 0..MaxItems, spent : Nat, items : 0..MaxItems]
Runs  == [of : Instance \cup {Loop}, elapsed : 0..RunTimeout]

\* Every variable stays in its set, and an instance is queued once.
TypeOK ==
  /\ queue \in Seq(Instance) /\ IsInjective(queue)
  /\ lease \in [Instance -> 0..Lease]
  /\ st \in [Actor -> {"off", "ticking", "running", "sleeping", "stopped"}]
  /\ tick \in [Actor -> Ticks] /\ run \in [Actor -> Runs]
  /\ fresh \subseteq Caller \cup Instance /\ backoff \in 1..MaxBackoff /\ delay \in 0..MaxBackoff
  /\ db \in BOOLEAN /\ outages \in 0..MaxOutages
  /\ server \in {"up", "closing", "exited"} /\ unsaved \subseteq Instance

\* No tick, the loop's or a caller's, runs longer than its own budget and one
\* run beyond, nor takes more items than its own, however many instances come
\* due meanwhile ("budgetMs / maxItems bound the call", README.md:66).
TickBounded ==
  \A a \in Actor : /\ tick[a].spent < tick[a].budget + RunTimeout
                   /\ tick[a].items <= tick[a].max

\* An instance that is due is run while the server is up: neither one whose
\* saves always fail, nor those that come due again and again, nor an outage
\* keep the loop from it.
EveryoneRuns ==
  \A i \in Instance \ Poison : InQueue(i) ~> (Running(i) \/ server # "up")

\* When the process is gone no run of the loop was cut short: what is still
\* locked could not be saved, or belonged to a Tick call ("the current tick
\* always finishes, so its instances are saved, not dropped", worker.ts:907).
NothingDropped ==
  server = "exited" =>
    \A i \in Instance : lease[i] > 0 => i \in unsaved

\* Asked to stop, the process ends, whatever is due.
StopsWhenAsked == server = "closing" ~> server = "exited"
=============================================================================
