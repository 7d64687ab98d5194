-------------------------- MODULE SchedulerProofs --------------------------
(***************************************************************************)
(* Scheduler, for every set of instances, ticks, workers and callers: its  *)
(* types; that no wake-up is lost, whatever faults happen and even when    *)
(* ticks share a worker id; and that signals are applied once and in       *)
(* order and saved progress never goes back, when every tick claims under  *)
(* an id of its own and no checkpoint write is refused.                    *)
(***************************************************************************)
EXTENDS Scheduler, SequenceTheorems, TLAPS

----------------------------------------------------------------------------
(* The invariant behind the wake-ups. *)

\* A row is locked exactly while it has a lease.
LeaseInv == \A i \in Instance : lockedBy[i] = NoWorker <=> lease[i] = "null"

\* A run that parks on a timer knows when to wake.
ParkInv == \A t \in Tick :
             /\ outcome[t] = "parked" /\ mem[t].timer => wake[t] # "null"
             /\ pc[t] # "closing" => outcome[t] = "none"

WakeInv == LockedStaysDue /\ NoLostWakeup /\ LeaseInv /\ ParkInv

----------------------------------------------------------------------------
(* Types. *)

\* A state with a field replaced is a state.
LEMMA StateFields ==
  ASSUME NEW m \in State
  PROVE  /\ Fresh \in State
         /\ [m EXCEPT !.fresh = FALSE] \in State
         /\ \A s \in SigId : [m EXCEPT !.applied = m.applied \cup {s}] \in State
         /\ m.calls < MaxCalls => [m EXCEPT !.calls = m.calls + 1] \in State
         /\ \A timer \in BOOLEAN : [m EXCEPT !.timer = timer] \in State
<1>0. m.calls \in Nat /\ m.calls <= MaxCalls /\ m.applied \subseteq SigId
  BY BoundsNat DEF State
<1>1. Fresh \in State
  BY BoundsNat DEF State, Fresh
<1>2. [m EXCEPT !.fresh = FALSE] \in State
  BY DEF State
<1>3. \A s \in SigId : [m EXCEPT !.applied = m.applied \cup {s}] \in State
  BY DEF State
<1>4. m.calls < MaxCalls => [m EXCEPT !.calls = m.calls + 1] \in State
  <2> SUFFICES ASSUME m.calls < MaxCalls PROVE m.calls + 1 \in 0..MaxCalls
    BY DEF State
  <2> QED BY <1>0, BoundsNat
<1>5. \A timer \in BOOLEAN : [m EXCEPT !.timer = timer] \in State
  BY DEF State
<1> QED BY <1>1, <1>2, <1>3, <1>4, <1>5

\* The bound on the faults is kept.
LEMMA FaultCounted ==
  ASSUME faults \in 0..MaxFaults, NEW kind, Fault(kind)
  PROVE  faults' \in 0..MaxFaults
  BY BoundsNat DEF Fault

\* The oldest snapshot and the rest, and one more behind them.
LEMMA SaveQueue ==
  ASSUME NEW q \in Seq(Save), NEW sv \in Save
  PROVE  /\ Append(q, sv) \in Seq(Save)
         /\ q # << >> => Tail(q) \in Seq(Save) /\ Head(q).state \in State
                          /\ Head(q).consumed \in SUBSET SigId
<1>1. Append(q, sv) \in Seq(Save)
  BY AppendProperties
<1>2. ASSUME q # << >> PROVE Tail(q) \in Seq(Save) /\ Head(q) \in Save
  BY <1>2, HeadTailProperties
<1> QED BY <1>1, <1>2 DEF Save

\* Every variable stays in its set, whatever faults happen.
THEOREM TypeCorrect == Spec => []TypeOK
<1> USE WorkerOfType
<1>1. Init => TypeOK
  <2> SUFFICES ASSUME Init PROVE TypeOK
    OBVIOUS
  <2>1. Fresh \in State
    BY BoundsNat DEF Fresh, State
  <2>2. << >> \in Seq(Save) /\ nextId \in 1..(MaxSignals + 1) /\ faults \in 0..MaxFaults
    BY BoundsNat DEF Init
  <2>3. RowTypeOK
    BY <2>1 DEF Init, RowTypeOK, Statuses, Active, Due
  <2>4. ClientTypeOK
    BY <2>2 DEF Init, ClientTypeOK, NoSignal
  <2>5. TickTypeOK
    BY <2>1, <2>2 DEF Init, TickTypeOK, Due
  <2> QED BY <2>3, <2>4, <2>5 DEF TypeOK
<1>2. TypeOK /\ [Next]_vars => TypeOK'
  <2> SUFFICES ASSUME TypeOK, [Next]_vars PROVE TypeOK'
    OBVIOUS
  <2> USE DEF TypeOK, RowTypeOK, ClientTypeOK, TickTypeOK, Statuses, Active, Due,
          rowVars, clientVars, engineVars, tickVars
  <2>1. ASSUME NEW i \in Instance, Start(i) PROVE TypeOK'
    BY <2>1 DEF Start, StoreDue
  <2>2. ASSUME NEW i \in Instance, Cancel(i) PROVE TypeOK'
    BY <2>2 DEF Cancel
  <2>3. ASSUME NEW i \in Instance, TimerDue(i) PROVE TypeOK'
    BY <2>3 DEF TimerDue
  <2>4. ASSUME NEW i \in Instance, Expire(i) PROVE TypeOK'
    BY <2>4 DEF Expire, Attended, Holds
  <2>5. ASSUME NEW i \in Instance, Overrun(i) PROVE TypeOK'
    <3>1. faults' \in 0..MaxFaults
      BY <2>5, FaultCounted DEF Overrun
    <3> QED BY <2>5, <3>1 DEF Overrun
  <2>6. ASSUME NEW c \in Client, NEW i \in Instance, SignalCheck(c, i) PROVE TypeOK'
    BY <2>6 DEF SignalCheck
  <2>7. ASSUME NEW c \in Client, NEW i \in Instance, RetryCheck(c, i) PROVE TypeOK'
    BY <2>7 DEF RetryCheck, State
  <2>8. ASSUME NEW c \in Client, SignalInsert(c) PROVE TypeOK'
    <3>1. nextId \in SigId /\ nextId' \in 1..(MaxSignals + 1)
      BY <2>8, BoundsNat DEF SignalInsert, SigId
    <3> QED BY <2>8, <3>1 DEF SignalInsert
  <2>9. ASSUME NEW c \in Client, SignalCommit(c) PROVE TypeOK'
    BY <2>9 DEF SignalCommit, NoSignal
  <2>10. ASSUME NEW c \in Client, RetryCommit(c) PROVE TypeOK'
    <3>1. CASE status[cinst[c]] = "failed"
      <4>1. PICK to \in {"pending", "running"} :
               /\ status' = [status EXCEPT ![cinst[c]] = to]
               /\ runnableAt' = [runnableAt EXCEPT ![cinst[c]] = "due"]
        BY ONLY <2>10, <3>1 DEF RetryCommit, StoreDue
      <4>2. status' \in [Instance -> Statuses] /\ runnableAt' \in [Instance -> Due]
        BY <4>1
      <4> QED BY <2>10, <4>2 DEF RetryCommit
    <3>2. CASE status[cinst[c]] # "failed"
      BY <2>10, <3>2 DEF RetryCommit
    <3> QED BY <3>1, <3>2
  <2>11. ASSUME NEW t \in Tick, NEW i \in Instance, Claim(t, i) PROVE TypeOK'
    BY <2>11 DEF Claim, Unlocked, Lock
  <2>12. ASSUME NEW t \in Tick, Heartbeat(t) PROVE TypeOK'
    BY <2>12 DEF Heartbeat, Holds
  <2>13. ASSUME NEW t \in Tick, LoadRow(t) PROVE TypeOK'
    <3>1. \/ mem' = mem
          \/ mem' = [mem EXCEPT ![t] = saved[inst[t]]]
      BY ONLY <2>13 DEF LoadRow, Restored
    <3>2. \/ outcome' = outcome
          \/ outcome' = [outcome EXCEPT ![t] = "canceled"]
      BY ONLY <2>13 DEF LoadRow
    <3>3. pc' = [pc EXCEPT ![t] = "closing"] \/ pc' = [pc EXCEPT ![t] = "loaded"]
      BY ONLY <2>13 DEF LoadRow
    <3>4. mem' \in [Tick -> State]
      <4>1. saved[inst[t]] \in State /\ mem \in [Tick -> State]
        OBVIOUS
      <4> QED BY ONLY <3>1, <4>1
    <3>5. outcome' \in [Tick -> {"none", "parked", "completed", "failed", "canceled"}]
      <4>1. outcome \in [Tick -> {"none", "parked", "completed", "failed", "canceled"}]
        OBVIOUS
      <4> QED BY ONLY <3>2, <4>1
    <3>6. pc' \in [Tick -> {"idle", "claimed", "loaded", "run", "closing"}]
      <4>1. pc \in [Tick -> {"idle", "claimed", "loaded", "run", "closing"}]
        OBVIOUS
      <4> QED BY ONLY <3>3, <4>1
    <3>7. UNCHANGED <<rowVars, inbox, clientVars, inst, busy, batch, consumed, saveQueued, saves,
                      finished, wake, faults>>
      BY ONLY <2>13 DEF LoadRow
    <3> QED BY <3>4, <3>5, <3>6, <3>7
  <2>14. ASSUME NEW t \in Tick, LoadSignals(t) PROVE TypeOK'
    BY <2>14 DEF LoadSignals, Queued
  <2>15. ASSUME NEW t \in Tick, CallReturns(t) PROVE TypeOK'
    BY <2>15, StateFields DEF CallReturns, Running
  <2>16. ASSUME NEW t \in Tick, TakeSnapshot(t) PROVE TypeOK'
    <3>1. CASE finished[t] = "none"
      <4> DEFINE sv == [state |-> Snapshot(t), consumed |-> consumed[t]]
      <4>1. sv \in Save
        BY <2>16, StateFields DEF Snapshot, Save
      <4>2. Append(saves[t], sv) \in Seq(Save)
        BY <2>16, <4>1, SaveQueue
      <4> HIDE DEF sv
      <4>3. saves' = [saves EXCEPT ![t] = Append(saves[t], sv)]
        BY <2>16, <3>1 DEF TakeSnapshot, sv
      <4> QED BY <2>16, <3>1, <4>2, <4>3 DEF TakeSnapshot
    <3>2. CASE finished[t] # "none"
      BY <2>16, <3>2 DEF TakeSnapshot
    <3> QED BY <3>1, <3>2
  <2>17. ASSUME NEW t \in Tick, WriteCheckpoint(t) PROVE TypeOK'
    <3>1. /\ Tail(saves[t]) \in Seq(Save)
          /\ Head(saves[t]).state \in State /\ Head(saves[t]).consumed \in SUBSET SigId
      <4>1. saves[t] \in Seq(Save) /\ saves[t] # << >>
        BY <2>17 DEF WriteCheckpoint
      <4>2. Tail(saves[t]) \in Seq(Save) /\ Head(saves[t]) \in Save
        BY <4>1, HeadTailProperties
      <4> QED BY <4>2 DEF Save
    <3>2. CASE Holds(t)
      <4>1. /\ status' = [status EXCEPT ![inst[t]] = "running"]
            /\ saved' = [saved EXCEPT ![inst[t]] = Head(saves[t]).state]
            /\ inbox' = [inbox EXCEPT ![inst[t]] = @ \ Head(saves[t]).consumed]
            /\ finished' = finished
            /\ saves' = [saves EXCEPT ![t] = Tail(@)]
        BY <2>17, <3>2 DEF WriteCheckpoint, NotIn
      <4> QED BY <2>17, <3>1, <4>1 DEF WriteCheckpoint
    <3>3. CASE ~Holds(t)
      <4>1. /\ finished' = [finished EXCEPT ![t] = IF @ = "none" THEN "failed" ELSE @]
            /\ saves' = [saves EXCEPT ![t] = Tail(@)]
            /\ UNCHANGED <<rowVars, inbox, clientVars, pc, inst, outcome, mem, busy, batch,
                           consumed, saveQueued, wake, faults>>
        BY ONLY <2>17, <3>3 DEF WriteCheckpoint, rowVars
      <4> QED BY <3>1, <4>1
    <3> QED BY <3>2, <3>3
  <2>18. ASSUME NEW t \in Tick, Settle(t) PROVE TypeOK'
    BY <2>18 DEF Settle, Running
  <2>19. ASSUME NEW t \in Tick, Deliver(t) PROVE TypeOK'
    <3>1. PICK s \in batch[t] : /\ mem' = [mem EXCEPT ![t].applied = @ \cup {s}]
                                /\ consumed' = [consumed EXCEPT ![t] = @ \cup {s}]
                                /\ batch' = [batch EXCEPT ![t] = @ \ {s}]
      BY <2>19 DEF Deliver, NextOf
    <3>2. [mem[t] EXCEPT !.applied = mem[t].applied \cup {s}] \in State
      BY <3>1, StateFields
    <3>3. mem' \in [Tick -> State]
      BY <3>1, <3>2
    <3> QED BY <2>19, <3>1, <3>3 DEF Deliver
  <2>20. ASSUME NEW t \in Tick, EngineEnds(t) PROVE TypeOK'
    <3>1. PICK result \in {"completed", "failed"} : finished' = [finished EXCEPT ![t] = result]
      BY <2>20 DEF EngineEnds
    <3> QED BY <2>20, <3>1 DEF EngineEnds
  <2>21. ASSUME NEW t \in Tick, ReturnFinished(t) PROVE TypeOK'
    BY <2>21, StateFields DEF ReturnFinished, Return
  <2>22. ASSUME NEW t \in Tick, ReturnParked(t) PROVE TypeOK'
    <3>1. PICK timer \in BOOLEAN :
             /\ mem' = [mem EXCEPT ![t].timer = timer]
             /\ wake' = [wake EXCEPT ![t] = IF timer THEN "later" ELSE "null"]
      BY <2>22 DEF ReturnParked
    <3>2. [mem[t] EXCEPT !.timer = timer] \in State
      BY <3>1, StateFields
    <3>3. mem' \in [Tick -> State] /\ wake' \in [Tick -> Due]
      BY <3>1, <3>2
    <3> QED BY <2>22, <3>3 DEF ReturnParked, Return
  <2>23. ASSUME NEW t \in Tick, ReleaseCompleted(t) PROVE TypeOK'
    BY <2>23, StateFields DEF ReleaseCompleted, MayRelease, Unlock, LetGo, Holds
  <2>24. ASSUME NEW t \in Tick, ReleaseCanceled(t) PROVE TypeOK'
    BY <2>24, StateFields DEF ReleaseCanceled, MayRelease, Unlock, LetGo, Holds
  <2>25. ASSUME NEW t \in Tick, ReleaseFailed(t) PROVE TypeOK'
    BY <2>25, StateFields DEF ReleaseFailed, MayRelease, Unlock, LetGo, Holds
  <2>26. ASSUME NEW t \in Tick, ReleaseParked(t) PROVE TypeOK'
    BY <2>26, StateFields DEF ReleaseParked, MayRelease, Unlock, LetGo, Holds, Snapshot, Left, NextWake
  <2>27. ASSUME NEW t \in Tick, ReleaseLeaseLost(t) PROVE TypeOK'
    BY <2>27, StateFields DEF ReleaseLeaseLost, LetGo, Holds
  <2>28. ASSUME NEW t \in Tick, CheckpointFails(t) PROVE TypeOK'
    <3>1. Tail(saves[t]) \in Seq(Save)
      BY <2>28, HeadTailProperties DEF CheckpointFails
    <3>2. faults' \in 0..MaxFaults
      BY <2>28, FaultCounted DEF CheckpointFails
    <3> QED BY <2>28, <3>1, <3>2 DEF CheckpointFails
  <2>29. ASSUME NEW t \in Tick, ReturnTimedOut(t) PROVE TypeOK'
    <3>1. faults' \in 0..MaxFaults
      BY <2>29, FaultCounted DEF ReturnTimedOut
    <3> QED BY <2>29, <3>1 DEF ReturnTimedOut, Return
  <2>30. ASSUME NEW t \in Tick, Abandon(t) PROVE TypeOK'
    <3>1. faults' \in 0..MaxFaults
      BY <2>30, FaultCounted DEF Abandon
    <3>2. Fresh \in State
      BY StateFields
    <3> QED BY <2>30, <3>1, <3>2 DEF Abandon, LetGo
  <2>31. CASE UNCHANGED vars
    BY <2>31 DEF vars
  <2>q. QED
    BY <2>1, <2>2, <2>3, <2>4, <2>5, <2>6, <2>7, <2>8, <2>9, <2>10, <2>11, <2>12, <2>13,
       <2>14, <2>15, <2>16, <2>17, <2>18, <2>19, <2>20, <2>21, <2>22, <2>23, <2>24, <2>25,
       <2>26, <2>27, <2>28, <2>29, <2>30, <2>31
    DEF Next, Api, Process, Release, TickFault
<1>3. QED
  BY <1>1, <1>2, PTL DEF Spec

----------------------------------------------------------------------------
(* Wake-ups. *)

\* The wake-up invariant is inductive.
LEMMA WakeStep == TypeOK /\ WakeInv /\ [Next]_vars => WakeInv'
<1> SUFFICES ASSUME TypeOK, WakeInv, [Next]_vars PROVE WakeInv'
  OBVIOUS
<1> USE WorkerOfType, NoWorkerOutside
<1> USE DEF TypeOK, RowTypeOK, ClientTypeOK, TickTypeOK, WakeInv, LockedStaysDue, NoLostWakeup, HasWork, LeaseInv,
        ParkInv, Active, rowVars, clientVars, engineVars, tickVars
<1>1. ASSUME NEW i \in Instance, Start(i) PROVE WakeInv'
  BY <1>1 DEF Start, StoreDue
<1>2. ASSUME NEW i \in Instance, Cancel(i) PROVE WakeInv'
  BY <1>2 DEF Cancel
<1>3. ASSUME NEW i \in Instance, TimerDue(i) PROVE WakeInv'
  BY <1>3 DEF TimerDue
<1>4. ASSUME NEW i \in Instance, Expire(i) PROVE WakeInv'
  BY <1>4 DEF Expire, Attended, Holds
<1>5. ASSUME NEW i \in Instance, Overrun(i) PROVE WakeInv'
  BY <1>5 DEF Overrun, Fault, Attended, Holds
<1>6. ASSUME NEW c \in Client, NEW i \in Instance, SignalCheck(c, i) PROVE WakeInv'
  BY <1>6 DEF SignalCheck
<1>7. ASSUME NEW c \in Client, NEW i \in Instance, RetryCheck(c, i) PROVE WakeInv'
  BY <1>7 DEF RetryCheck
<1>8. ASSUME NEW c \in Client, SignalInsert(c) PROVE WakeInv'
  BY <1>8 DEF SignalInsert
<1>9. ASSUME NEW c \in Client, SignalCommit(c) PROVE WakeInv'
  BY <1>9 DEF SignalCommit
<1>10. ASSUME NEW c \in Client, RetryCommit(c) PROVE WakeInv'
  <2>1. /\ \/ UNCHANGED <<status, runnableAt>>
           \/ \E to \in {"pending", "running"} :
                /\ status' = [status EXCEPT ![cinst[c]] = to]
                /\ runnableAt' = [runnableAt EXCEPT ![cinst[c]] = "due"]
        /\ UNCHANGED <<lockedBy, lease, cancelRequested, saved, inbox, tickVars, faults>>
    BY ONLY <1>10 DEF RetryCommit, StoreDue
  <2> QED BY <2>1
<1>11. ASSUME NEW t \in Tick, NEW i \in Instance, Claim(t, i) PROVE WakeInv'
  BY <1>11 DEF Claim, Unlocked, Lock
<1>12. ASSUME NEW t \in Tick, Heartbeat(t) PROVE WakeInv'
  BY <1>12 DEF Heartbeat, Holds
<1>13. ASSUME NEW t \in Tick, LoadRow(t) PROVE WakeInv'
  <2>1. /\ UNCHANGED <<rowVars, inbox, wake>>
        /\ pc[t] = "claimed" /\ outcome[t] = "none"
        /\ \/ /\ mem' = mem /\ pc' = [pc EXCEPT ![t] = "closing"]
              /\ outcome' = [outcome EXCEPT ![t] = "canceled"]
           \/ /\ mem' = [mem EXCEPT ![t] = saved[inst[t]]] /\ pc' = [pc EXCEPT ![t] = "loaded"]
              /\ outcome' = outcome
    BY <1>13 DEF LoadRow, Restored
  <2>2. LockedStaysDue' /\ NoLostWakeup' /\ LeaseInv'
    BY <2>1
  <2>3. ParkInv'
    <3> SUFFICES ASSUME NEW u \in Tick
                 PROVE  /\ outcome'[u] = "parked" /\ mem'[u].timer => wake'[u] # "null"
                        /\ pc'[u] # "closing" => outcome'[u] = "none"
      OBVIOUS
    <3>1. CASE u = t
      BY <2>1, <3>1
    <3>2. CASE u # t
      BY <2>1, <3>2
    <3> QED BY <3>1, <3>2
  <2> QED BY <2>2, <2>3
<1>14. ASSUME NEW t \in Tick, LoadSignals(t) PROVE WakeInv'
  BY <1>14 DEF LoadSignals, Queued
<1>15. ASSUME NEW t \in Tick, CallReturns(t) PROVE WakeInv'
  BY <1>15 DEF CallReturns, Running
<1>16. ASSUME NEW t \in Tick, TakeSnapshot(t) PROVE WakeInv'
  BY <1>16 DEF TakeSnapshot, Snapshot
<1>17. ASSUME NEW t \in Tick, WriteCheckpoint(t) PROVE WakeInv'
  BY <1>17 DEF WriteCheckpoint, Holds, NotIn
<1>18. ASSUME NEW t \in Tick, Settle(t) PROVE WakeInv'
  BY <1>18 DEF Settle, Running
<1>19. ASSUME NEW t \in Tick, Deliver(t) PROVE WakeInv'
  BY <1>19 DEF Deliver, Running, NextOf
<1>20. ASSUME NEW t \in Tick, EngineEnds(t) PROVE WakeInv'
  BY <1>20 DEF EngineEnds, Running
<1>21. ASSUME NEW t \in Tick, ReturnFinished(t) PROVE WakeInv'
  BY <1>21 DEF ReturnFinished, Return, Fresh
<1>22. ASSUME NEW t \in Tick, ReturnParked(t) PROVE WakeInv'
  BY <1>22 DEF ReturnParked, Running, Return
<1>23. ASSUME NEW t \in Tick, ReleaseCompleted(t) PROVE WakeInv'
  BY <1>23 DEF ReleaseCompleted, MayRelease, Unlock, LetGo, Fresh, Holds
<1>24. ASSUME NEW t \in Tick, ReleaseCanceled(t) PROVE WakeInv'
  BY <1>24 DEF ReleaseCanceled, MayRelease, Unlock, LetGo, Fresh, Holds
<1>25. ASSUME NEW t \in Tick, ReleaseFailed(t) PROVE WakeInv'
  BY <1>25 DEF ReleaseFailed, MayRelease, Unlock, LetGo, Fresh, Holds
<1>26. ASSUME NEW t \in Tick, ReleaseParked(t) PROVE WakeInv'
  BY <1>26 DEF ReleaseParked, MayRelease, Unlock, LetGo, Fresh, Holds, Snapshot, Left, NextWake
<1>27. ASSUME NEW t \in Tick, ReleaseLeaseLost(t) PROVE WakeInv'
  BY <1>27 DEF ReleaseLeaseLost, LetGo, Fresh, Holds
<1>28. ASSUME NEW t \in Tick, CheckpointFails(t) PROVE WakeInv'
  BY <1>28 DEF CheckpointFails, Fault
<1>29. ASSUME NEW t \in Tick, ReturnTimedOut(t) PROVE WakeInv'
  BY <1>29 DEF ReturnTimedOut, Running, Return, Fault
<1>30. ASSUME NEW t \in Tick, Abandon(t) PROVE WakeInv'
  BY <1>30 DEF Abandon, Fault, LetGo, Fresh
<1>31. CASE UNCHANGED vars
  BY <1>31 DEF vars
<1>q. QED
  BY <1>1, <1>2, <1>3, <1>4, <1>5, <1>6, <1>7, <1>8, <1>9, <1>10, <1>11, <1>12, <1>13,
     <1>14, <1>15, <1>16, <1>17, <1>18, <1>19, <1>20, <1>21, <1>22, <1>23, <1>24, <1>25,
     <1>26, <1>27, <1>28, <1>29, <1>30, <1>31
  DEF Next, Api, Process, Release, TickFault

\* No wake-up is lost, and a locked row stays due.
THEOREM NoWakeupLost == Spec => [](LockedStaysDue /\ NoLostWakeup)
<1>1. Init => WakeInv
  BY DEF Init, WakeInv, LockedStaysDue, NoLostWakeup, HasWork, LeaseInv, ParkInv, Active
<1>2. TypeOK /\ WakeInv /\ [Next]_vars => WakeInv'
  BY WakeStep
<1>3. WakeInv => LockedStaysDue /\ NoLostWakeup
  BY DEF WakeInv
<1>4. QED
  BY <1>1, <1>2, <1>3, TypeCorrect, PTL DEF Spec
----------------------------------------------------------------------------
(* The invariant behind the order of signals and the progress saved. *)

\* Each tick claims under an id of its own.
OwnIds == \A t, u \in Tick : WorkerOf[t] = WorkerOf[u] => t = u

\* t works on a row that is locked by its worker.
Owner(t) == pc[t] # "idle" /\ Holds(t)

\* q may not be queued any more once s is applied.
Before(q, s) == q = s \/ q \in earlier[s]

\* b has got at least as far as a.
Le(a, b) == a.applied \subseteq b.applied /\ a.calls <= b.calls

\* mem[t] is the state t would save.
Live(t) == pc[t] \in {"loaded", "run"} \/ (pc[t] = "closing" /\ outcome[t] = "parked")

\* One of the first k snapshots not yet written takes q out of the inbox.
InSaves(t, q, k) == \E j \in 1..k : q \in saves[t][j].consumed

\* Ids are drawn once, and signals know only earlier ones.
IdInv ==
  /\ \A s \in committed : s < nextId
  /\ \A s \in SigId : \A q \in earlier[s] : q \in committed /\ q < s
  /\ \A c \in Client : cpc[c] = "inserted" => cid[c] < nextId /\ cid[c] \notin committed
  /\ \A c, d \in Client : cpc[c] = "inserted" /\ cpc[d] = "inserted" /\ cid[c] = cid[d] => c = d

\* Only committed signals are queued, or applied by a saved state, ...
RowKnown == \A i \in Instance : saved[i].applied \subseteq committed /\ inbox[i] \subseteq committed

\* ... by an engine, or a snapshot.
KnownOf(t) ==
  /\ mem[t].applied \subseteq committed
  /\ batch[t] \subseteq committed
  /\ \A k \in 1..Len(saves[t]) : saves[t][k].state.applied \subseteq committed

\* A tick starts, and a run that is over ends, with nothing in hand.
CleanOf(t) ==
  /\ pc[t] \in {"idle", "claimed", "loaded"} => consumed[t] = {} /\ saves[t] = << >>
  /\ ~Live(t) => mem[t] = Fresh /\ consumed[t] = {}
  /\ pc[t] # "closing" => outcome[t] = "none"

\* What takes a signal out of the inbox has applied it.
ConsumedOf(t) ==
  /\ consumed[t] \subseteq mem[t].applied
  /\ \A k \in 1..Len(saves[t]) : saves[t][k].consumed \subseteq saves[t][k].state.applied

\* The snapshots waiting and the engine, each further than the one before.
ChainOf(t) ==
  /\ \A j, k \in 1..Len(saves[t]) : j <= k => Le(saves[t][j].state, saves[t][k].state)
  /\ Live(t) => \A k \in 1..Len(saves[t]) : Le(saves[t][k].state, mem[t])

\* While t owns the row, they are all further than the saved state ...
AheadOf(t) ==
  /\ \A k \in 1..Len(saves[t]) : Le(saved[inst[t]], saves[t][k].state)
  /\ Live(t) => Le(saved[inst[t]], mem[t])

\* ... and what they have applied, or are about to, leaves no earlier signal
\* queued that they do not take out as well.
OrderOf(t) ==
  /\ \A k \in 1..Len(saves[t]) : \A s \in saves[t][k].state.applied, q \in inbox[inst[t]] :
       Before(q, s) => InSaves(t, q, k)
  /\ \A s \in mem[t].applied, q \in inbox[inst[t]] :
       Before(q, s) => q \in consumed[t] \/ InSaves(t, q, Len(saves[t]))
  /\ pc[t] = "run" => \A s \in batch[t], q \in inbox[inst[t]] :
       Before(q, s) => q \in batch[t] \/ q \in consumed[t] \/ InSaves(t, q, Len(saves[t]))

TickInv(t) ==
  /\ KnownOf(t) /\ CleanOf(t) /\ ConsumedOf(t) /\ ChainOf(t)
  /\ Owner(t) => AheadOf(t) /\ OrderOf(t)

FlowInv == IdInv /\ RowKnown /\ AppliedOnceInOrder /\ \A t \in Tick : TickInv(t)

----------------------------------------------------------------------------
(* Signals: what any step does to the ids and the inboxes. *)

\* Signals only come in as newly committed ones, and what is committed keeps
\* the signals it knows.
Grown == /\ committed \subseteq committed'
         /\ \A s \in committed : earlier'[s] = earlier[s]
         /\ \A i \in Instance : \A q \in inbox'[i] : q \in inbox[i] \/ q \notin committed

\* The steps of one tick, heartbeats included.
TickStep(t) == (\E i \in Instance : Claim(t, i)) \/ Heartbeat(t) \/ Process(t) \/ TickFault(t)

\* The steps of everything else.
Outside == \/ Api
           \/ \E i \in Instance : TimerDue(i) \/ Expire(i) \/ Overrun(i)
           \/ UNCHANGED vars

\* A step is one tick's own or leaves every tick to itself.
LEMMA TickSteps == [Next]_vars => Outside \/ \E t \in Tick : TickStep(t)
  BY DEF Next, Outside, TickStep, vars

\* A tick takes signals out of an inbox, and leaves the ids alone.
LEMMA TickTakes ==
  ASSUME TypeOK, NEW t \in Tick, TickStep(t)
  PROVE  UNCHANGED clientVars /\ \A i \in Instance : inbox'[i] \subseteq inbox[i]
<1> USE DEF TypeOK, RowTypeOK, TickTypeOK
<1>1. ASSUME NEW i \in Instance, Claim(t, i) PROVE UNCHANGED <<clientVars, inbox>>
  BY <1>1 DEF Claim
<1>2. CASE Heartbeat(t)
  BY <1>2 DEF Heartbeat
<1>3. CASE LoadRow(t) \/ LoadSignals(t) \/ CallReturns(t) \/ TakeSnapshot(t) \/ Settle(t) \/ Deliver(t)
  BY <1>3 DEF LoadRow, LoadSignals, CallReturns, TakeSnapshot, Settle, Deliver
<1>4. CASE EngineEnds(t) \/ ReturnFinished(t) \/ ReturnParked(t)
  BY <1>4 DEF EngineEnds, ReturnFinished, ReturnParked, Return
<1>5. CASE TickFault(t)
  BY <1>5 DEF TickFault, CheckpointFails, ReturnTimedOut, Return, Abandon
<1>6. CASE WriteCheckpoint(t)
  <2>1. \/ inbox' = inbox
        \/ inbox' = [inbox EXCEPT ![inst[t]] = @ \ Head(saves[t]).consumed]
    BY <1>6 DEF WriteCheckpoint, NotIn
  <2>2. UNCHANGED clientVars
    BY <1>6 DEF WriteCheckpoint
  <2> QED BY <2>1, <2>2
<1>7. CASE ReleaseCompleted(t) \/ ReleaseCanceled(t)
  BY <1>7 DEF ReleaseCompleted, ReleaseCanceled
<1>8. CASE ReleaseFailed(t) \/ ReleaseLeaseLost(t)
  BY <1>8 DEF ReleaseFailed, ReleaseLeaseLost
<1>9. CASE ReleaseParked(t)
  BY <1>9 DEF ReleaseParked, Left
<1>q. QED
  BY <1>1, <1>2, <1>3, <1>4, <1>5, <1>6, <1>7, <1>8, <1>9 DEF TickStep, Process, Release

\* Signal ids are drawn in order, and every committed or held one is known.
LEMMA SignalsStep == TypeOK /\ IdInv /\ [Next]_vars => Grown /\ IdInv'
<1> SUFFICES ASSUME TypeOK, IdInv, [Next]_vars PROVE Grown /\ IdInv'
  OBVIOUS
<1>1. ASSUME NEW t \in Tick, TickStep(t) PROVE Grown /\ IdInv'
  BY <1>1, TickTakes DEF Grown, IdInv, clientVars
<1>2. ASSUME NEW c \in Client, SignalInsert(c) PROVE Grown /\ IdInv'
  <2> USE DEF TypeOK, RowTypeOK, ClientTypeOK
  <2>1. /\ nextId \in SigId /\ nextId' = nextId + 1 /\ nextId \notin committed
        /\ cpc' = [cpc EXCEPT ![c] = "inserted"] /\ cid' = [cid EXCEPT ![c] = nextId]
        /\ earlier' = [earlier EXCEPT ![nextId] = committed]
        /\ committed' = committed /\ inbox' = inbox
    BY <1>2, BoundsNat DEF SignalInsert, SigId, IdInv
  <2>2. \A s \in SigId : s \in Nat
    BY BoundsNat DEF SigId
  <2>3. Grown
    BY <2>1 DEF Grown
  <2>4. \A s \in committed' : s < nextId'
    BY <2>1, <2>2 DEF IdInv
  <2>5. \A s \in SigId : \A q \in earlier'[s] : q \in committed' /\ q < s
    BY <2>1 DEF IdInv
  <2>6. \A d \in Client : cpc'[d] = "inserted" => cid'[d] < nextId' /\ cid'[d] \notin committed'
    <3> SUFFICES ASSUME NEW d \in Client, cpc'[d] = "inserted"
                 PROVE  cid'[d] < nextId' /\ cid'[d] \notin committed'
      OBVIOUS
    <3>1. CASE d = c
      BY <2>1, <2>2, <3>1
    <3>2. CASE d # c
      <4>1. cpc[d] = "inserted" /\ cid'[d] = cid[d]
        BY <2>1, <3>2
      <4>2. cid[d] \in SigId /\ cid[d] < nextId /\ cid[d] \notin committed
        BY <4>1 DEF IdInv
      <4>3. cid[d] \in Nat /\ nextId \in Nat
        BY <2>1, <2>2, <4>2
      <4> QED BY ONLY <2>1, <4>1, <4>2, <4>3
    <3> QED BY <3>1, <3>2
  <2>7. \A d, e \in Client : cpc'[d] = "inserted" /\ cpc'[e] = "inserted" /\ cid'[d] = cid'[e] => d = e
    BY <2>1, <2>2 DEF IdInv
  <2> QED BY <2>3, <2>4, <2>5, <2>6, <2>7 DEF IdInv
<1>3. ASSUME NEW c \in Client, SignalCommit(c) PROVE Grown /\ IdInv'
  <2> USE DEF TypeOK, RowTypeOK, ClientTypeOK
  <2>1. /\ cid[c] < nextId /\ cid[c] \notin committed /\ cid[c] \in SigId
        /\ committed' = committed \cup {cid[c]}
        /\ inbox' = [inbox EXCEPT ![cinst[c]] = @ \cup {cid[c]}]
        /\ earlier' = earlier /\ nextId' = nextId
    BY <1>3 DEF SignalCommit, IdInv
  <2>2. /\ cpc' = [cpc EXCEPT ![c] = "idle"] /\ cid' = [cid EXCEPT ![c] = NoSignal]
    BY <1>3 DEF SignalCommit
  <2>3. Grown
    BY <2>1 DEF Grown
  <2>4. \A d \in Client : cpc'[d] = "inserted" => /\ d # c /\ cpc[d] = "inserted" /\ cid'[d] = cid[d]
                                                  /\ cid[d] # cid[c]
    BY <1>3, <2>2 DEF IdInv, SignalCommit
  <2>5. (\A s \in committed' : s < nextId') /\ \A s \in SigId : \A q \in earlier'[s] : q \in committed' /\ q < s
    BY <2>1 DEF IdInv
  <2>6. \A d \in Client : cpc'[d] = "inserted" => cid'[d] < nextId' /\ cid'[d] \notin committed'
    BY <2>1, <2>4 DEF IdInv
  <2>7. \A d, e \in Client : cpc'[d] = "inserted" /\ cpc'[e] = "inserted" /\ cid'[d] = cid'[e] => d = e
    BY <2>4 DEF IdInv
  <2> QED BY <2>3, <2>5, <2>6, <2>7 DEF IdInv
<1>4. ASSUME NEW c \in Client, NEW i \in Instance, SignalCheck(c, i) \/ RetryCheck(c, i)
      PROVE  Grown /\ IdInv'
  BY <1>4 DEF SignalCheck, RetryCheck, Grown, IdInv, TypeOK, ClientTypeOK
<1>5. ASSUME NEW c \in Client, RetryCommit(c) PROVE Grown /\ IdInv'
  BY <1>5 DEF RetryCommit, Grown, IdInv, TypeOK, ClientTypeOK
<1>6. ASSUME NEW i \in Instance, Start(i) \/ Cancel(i) \/ TimerDue(i) \/ Expire(i) \/ Overrun(i)
      PROVE  Grown /\ IdInv'
  BY <1>6 DEF Start, Cancel, TimerDue, Expire, Overrun, clientVars, Grown, IdInv
<1>7. CASE UNCHANGED vars
  BY <1>7 DEF vars, clientVars, Grown, IdInv
<1>q. QED
  BY <1>1, <1>2, <1>3, <1>4, <1>5, <1>6, <1>7, TickSteps DEF Outside, Api

\* So no step makes a signal that is queued earlier than one already applied.
LEMMA NoNewBefore ==
  ASSUME TypeOK, IdInv, Grown, NEW s \in committed, NEW i \in Instance, NEW q \in inbox'[i],
         Before(q, s)'
  PROVE  q \in inbox[i] /\ Before(q, s)
  BY DEF TypeOK, ClientTypeOK, Grown, Before, IdInv

----------------------------------------------------------------------------
(* Ticks: what a step leaves alone. *)

\* The run of u is where it was ...
Same(u) == /\ pc'[u] = pc[u] /\ inst'[u] = inst[u] /\ outcome'[u] = outcome[u]
           /\ mem'[u] = mem[u] /\ batch'[u] = batch[u]
           /\ consumed'[u] = consumed[u] /\ saves'[u] = saves[u]

\* ... and if it owns its row now, it did before, and the row's state too is
\* as it was.
Undisturbed(u) == Same(u) /\ (Owner(u)' => Owner(u) /\ saved'[inst[u]] = saved[inst[u]])

\* What the API and time do leaves every tick and what it was restored from
\* alone.
LEMMA OutsideUndisturbed ==
  ASSUME TypeOK, Outside
  PROVE  /\ UNCHANGED saved
         /\ \A i \in Instance : cancelRequested[i] => cancelRequested'[i]
         /\ \A u \in Tick : Undisturbed(u)
<1> DEFINE Quiet == /\ UNCHANGED <<saved, lockedBy, tickVars>>
                    /\ \A i \in Instance : cancelRequested[i] => cancelRequested'[i]
<1>1. ASSUME NEW i \in Instance, Start(i) \/ Cancel(i) PROVE Quiet
  BY <1>1 DEF Start, Cancel, TypeOK, RowTypeOK
<1>2. ASSUME NEW c \in Client, NEW i \in Instance, SignalCheck(c, i) \/ RetryCheck(c, i) PROVE Quiet
  BY <1>2 DEF SignalCheck, RetryCheck, rowVars
<1>3. ASSUME NEW c \in Client, SignalInsert(c) \/ SignalCommit(c) PROVE Quiet
  BY <1>3 DEF SignalInsert, SignalCommit, rowVars
<1>4. ASSUME NEW c \in Client, RetryCommit(c) PROVE Quiet
  BY <1>4 DEF RetryCommit
<1>5. ASSUME NEW i \in Instance, TimerDue(i) \/ Expire(i) \/ Overrun(i) PROVE Quiet
  BY <1>5 DEF TimerDue, Expire, Overrun
<1>6. ASSUME UNCHANGED vars PROVE Quiet
  <2>1. UNCHANGED <<saved, lockedBy, tickVars>> /\ cancelRequested' = cancelRequested
    BY <1>6 DEF vars, rowVars
  <2> QED BY <2>1
<1>7. Quiet
  <2> HIDE DEF Quiet
  <2> QED BY <1>1, <1>2, <1>3, <1>4, <1>5, <1>6 DEF Outside, Api
<1> QED
  BY <1>7 DEF tickVars, engineVars, Undisturbed, Same, Owner, Holds

\* A tick changes the lock and the state of its own row only, the state only
\* under its lock, and nothing of another tick's run.
LEMMA TickShape ==
  ASSUME TypeOK, NEW t \in Tick, TickStep(t)
  PROVE  /\ \A u \in Tick : u # t => Same(u)
         /\ UNCHANGED cancelRequested
         /\ \/ /\ \E i \in Instance : lockedBy' = [lockedBy EXCEPT ![i] = WorkerOf[t]]
               /\ saved' = saved
            \/ lockedBy' = lockedBy /\ saved' = saved
            \/ /\ Holds(t) /\ lockedBy' \in {lockedBy, [lockedBy EXCEPT ![inst[t]] = NoWorker]}
               /\ \A j \in Instance : j # inst[t] => saved'[j] = saved[j]
<1> USE DEF TypeOK, RowTypeOK, TickTypeOK, Same, rowVars, engineVars, tickVars
<1> DEFINE Shape == /\ \A u \in Tick : u # t => Same(u)
                    /\ UNCHANGED cancelRequested
                    /\ \/ /\ \E i \in Instance : lockedBy' = [lockedBy EXCEPT ![i] = WorkerOf[t]]
                          /\ saved' = saved
                       \/ lockedBy' = lockedBy /\ saved' = saved
                       \/ /\ Holds(t) /\ lockedBy' \in {lockedBy, [lockedBy EXCEPT ![inst[t]] = NoWorker]}
                          /\ \A j \in Instance : j # inst[t] => saved'[j] = saved[j]
<1>1. ASSUME NEW i \in Instance, Claim(t, i) PROVE Shape
  BY <1>1 DEF Claim, Lock
<1>2. CASE Heartbeat(t)
  BY <1>2 DEF Heartbeat
<1>3. CASE LoadRow(t)
  BY <1>3 DEF LoadRow
<1>4. CASE LoadSignals(t) \/ CallReturns(t) \/ Settle(t) \/ EngineEnds(t)
  BY <1>4 DEF LoadSignals, CallReturns, Settle, EngineEnds
<1>5. CASE TakeSnapshot(t)
  BY <1>5 DEF TakeSnapshot
<1>6. CASE Deliver(t)
  BY <1>6 DEF Deliver
<1>7. CASE WriteCheckpoint(t)
  BY <1>7 DEF WriteCheckpoint
<1>8. CASE ReturnFinished(t) \/ ReturnTimedOut(t)
  BY <1>8 DEF ReturnFinished, ReturnTimedOut, Return
<1>9. CASE ReturnParked(t)
  BY <1>9 DEF ReturnParked, Return
<1>10. CASE ReleaseCompleted(t) \/ ReleaseParked(t)
  BY <1>10 DEF ReleaseCompleted, ReleaseParked, MayRelease, Unlock, LetGo
<1>11. CASE ReleaseCanceled(t) \/ ReleaseFailed(t)
  BY <1>11 DEF ReleaseCanceled, ReleaseFailed, MayRelease, Unlock, LetGo
<1>12. CASE ReleaseLeaseLost(t) \/ Abandon(t)
  BY <1>12 DEF ReleaseLeaseLost, Abandon, LetGo
<1>13. CASE CheckpointFails(t)
  BY <1>13 DEF CheckpointFails
<1> QED
  BY <1>1, <1>2, <1>3, <1>4, <1>5, <1>6, <1>7, <1>8, <1>9, <1>10, <1>11, <1>12, <1>13
  DEF TickStep, Process, Release, TickFault

\* With an id of its own, a tick disturbs no other.
LEMMA OthersUndisturbed ==
  ASSUME TypeOK, OwnIds, NEW t \in Tick, TickStep(t), NEW u \in Tick, u # t
  PROVE  Undisturbed(u)
<1>1. Same(u) /\ WorkerOf[u] # WorkerOf[t] /\ WorkerOf[u] # NoWorker /\ inst[u] \in Instance
  BY TickShape, WorkerOfType, NoWorkerOutside DEF OwnIds, TypeOK, TickTypeOK
<1>2. ASSUME Owner(u)' PROVE Owner(u) /\ saved'[inst[u]] = saved[inst[u]]
  BY <1>1, <1>2, TickShape DEF Owner, Holds, Same, TypeOK, RowTypeOK
<1> QED BY <1>1, <1>2 DEF Undisturbed

\* And a tick that is not disturbed keeps its invariant, whatever is signalled.
LEMMA UndisturbedKeeps ==
  ASSUME TypeOK, IdInv, Grown, NEW u \in Tick, TickInv(u), Undisturbed(u)
  PROVE  TickInv(u)'
<1> USE DEF Undisturbed, Same
<1>1. KnownOf(u)'
  BY DEF TickInv, KnownOf, Grown
<1>2. CleanOf(u)' /\ ConsumedOf(u)'
  BY DEF TickInv, CleanOf, ConsumedOf, Live
<1>3. ChainOf(u)'
  BY DEF TickInv, ChainOf, Live, Le
<1>4. ASSUME Owner(u)' PROVE AheadOf(u)'
  BY <1>4 DEF TickInv, AheadOf, Live, Le
<1>5. ASSUME Owner(u)' PROVE OrderOf(u)'
  <2>1. Owner(u) /\ OrderOf(u) /\ KnownOf(u) /\ inst[u] \in Instance
    BY <1>5 DEF TickInv, TypeOK, TickTypeOK
  <2>2. \A q, k : InSaves(u, q, k)' <=> InSaves(u, q, k)
    BY DEF InSaves
  <2>3. \A s \in committed, q \in inbox'[inst[u]] : Before(q, s)' => q \in inbox[inst[u]] /\ Before(q, s)
    BY <2>1, NoNewBefore
  <2>4. \A k \in 1..Len(saves[u]) : \A s \in saves[u][k].state.applied, q \in inbox'[inst[u]] :
          Before(q, s)' => InSaves(u, q, k)
    BY <2>1, <2>3 DEF OrderOf, KnownOf
  <2>5. \A s \in mem[u].applied, q \in inbox'[inst[u]] :
          Before(q, s)' => q \in consumed[u] \/ InSaves(u, q, Len(saves[u]))
    BY <2>1, <2>3 DEF OrderOf, KnownOf
  <2>6. pc[u] = "run" => \A s \in batch[u], q \in inbox'[inst[u]] :
          Before(q, s)' => q \in batch[u] \/ q \in consumed[u] \/ InSaves(u, q, Len(saves[u]))
    BY <2>1, <2>3 DEF OrderOf, KnownOf
  <2> QED BY <2>2, <2>4, <2>5, <2>6 DEF OrderOf
<1> QED BY <1>1, <1>2, <1>3, <1>4, <1>5 DEF TickInv

----------------------------------------------------------------------------
(* Ticks: what a tick's own step does to it. *)

\* Progress is a preorder on states.
LEMMA LeProperties ==
  /\ \A a \in State : Le(a, a)
  /\ \A a, b, c \in State : Le(a, b) /\ Le(b, c) => Le(a, c)
  BY BoundsNat DEF Le, State

\* Nothing is asked of an engine that has nothing.
LEMMA EmptyHanded ==
  ASSUME TypeOK', NEW t \in Tick, mem'[t] = Fresh, consumed'[t] = {}, saves'[t] = << >>,
         batch'[t] \subseteq committed', pc'[t] \in {"idle", "claimed", "closing"}, ~Live(t)',
         pc'[t] # "closing" => outcome'[t] = "none"
  PROVE  TickInv(t)'
<1>1. Len(saves'[t]) = 0 /\ mem'[t].applied = {}
  BY DEF Fresh
<1>2. KnownOf(t)' /\ CleanOf(t)' /\ ConsumedOf(t)' /\ ChainOf(t)'
  BY <1>1 DEF KnownOf, CleanOf, ConsumedOf, ChainOf
<1>3. AheadOf(t)' /\ OrderOf(t)'
  BY <1>1 DEF AheadOf, OrderOf
<1> QED BY <1>2, <1>3 DEF TickInv

\* A tick that lets go, or that claims, starts anew.
LEMMA IdleKeeps ==
  ASSUME TypeOK, TypeOK', NEW t \in Tick, TickInv(t), LetGo(t)
  PROVE  TickInv(t)'
  BY EmptyHanded DEF LetGo, TypeOK, TickTypeOK, Live

\* What the snapshots on their way are made of.
LEMMA SaveElements ==
  ASSUME TypeOK, NEW t \in Tick
  PROVE  /\ saves[t] \in Seq(Save) /\ Len(saves[t]) \in Nat
         /\ \A k \in 1..Len(saves[t]) : saves[t][k].state \in State
<1>1. saves[t] \in Seq(Save)
  BY DEF TypeOK, TickTypeOK
<1>2. Len(saves[t]) \in Nat /\ \A k \in 1..Len(saves[t]) : saves[t][k] \in Save
  BY <1>1, LenProperties
<1> QED BY <1>1, <1>2 DEF Save

\* A run that goes on, or returns to park, with nothing new in hand.
LEMMA GoesOn ==
  ASSUME TypeOK, TypeOK', NEW t \in Tick, TickInv(t),
         UNCHANGED <<committed, earlier, inbox, saved, lockedBy>>,
         inst'[t] = inst[t], saves'[t] = saves[t], consumed'[t] = consumed[t],
         mem'[t].applied = mem[t].applied, mem[t].calls <= mem'[t].calls,
         Live(t), Live(t)', pc[t] = "run", pc'[t] \in {"run", "closing"},
         pc'[t] = "run" => outcome'[t] = "none", batch'[t] \subseteq batch[t],
         pc'[t] = "run" => batch'[t] = batch[t]
  PROVE  TickInv(t)'
<1>1. KnownOf(t)' /\ CleanOf(t)' /\ ConsumedOf(t)'
  BY DEF TickInv, KnownOf, CleanOf, ConsumedOf
<1>2. /\ \A k \in 1..Len(saves[t]) : saves[t][k].state \in State
      /\ mem[t] \in State /\ mem'[t] \in State
      /\ inst[t] \in Instance /\ saved[inst[t]] \in State
  BY SaveElements DEF TypeOK, RowTypeOK, TickTypeOK
<1>3. Le(mem[t], mem'[t])
  BY DEF Le
<1>4. ChainOf(t)'
  <2>1. \A j, k \in 1..Len(saves[t]) : j <= k => Le(saves[t][j].state, saves[t][k].state)
    BY DEF TickInv, ChainOf
  <2>2. \A k \in 1..Len(saves[t]) : Le(saves[t][k].state, mem[t])
    BY DEF TickInv, ChainOf
  <2>3. \A k \in 1..Len(saves[t]) : Le(saves[t][k].state, mem'[t])
    BY <1>2, <1>3, <2>2, LeProperties
  <2> QED BY <2>1, <2>3 DEF ChainOf, Le
<1>5. ASSUME Owner(t)' PROVE AheadOf(t)' /\ OrderOf(t)'
  <2>1. AheadOf(t) /\ OrderOf(t)
    BY <1>5 DEF TickInv, Owner, Holds
  <2>2. Le(saved[inst[t]], mem'[t])
    BY <1>2, <1>3, <2>1, LeProperties DEF AheadOf
  <2>3. AheadOf(t)'
    BY <2>1, <2>2 DEF AheadOf, Le
  <2>4. OrderOf(t)'
    BY <2>1 DEF OrderOf, Before, InSaves
  <2> QED BY <2>3, <2>4
<1> QED BY <1>1, <1>4, <1>5 DEF TickInv

\* A tick reads its row, and then its inbox.
LEMMA LoadKeeps ==
  ASSUME TypeOK, TypeOK', RowKnown, AppliedOnceInOrder, NEW t \in Tick, TickInv(t),
         LoadRow(t) \/ LoadSignals(t)
  PROVE  TickInv(t)'
<1> USE DEF TypeOK, RowTypeOK, TickTypeOK
<1>1. /\ consumed[t] = {} /\ saves[t] = << >> /\ outcome[t] = "none" /\ inst[t] \in Instance
      /\ pc[t] = "claimed" => mem[t] = Fresh
      /\ KnownOf(t)
  BY DEF LoadRow, LoadSignals, TickInv, CleanOf, Live
<1>2. UNCHANGED <<committed, earlier, inbox, saved, lockedBy, inst, consumed, saves>>
  BY DEF LoadRow, LoadSignals, rowVars, clientVars
<1>3. CASE LoadRow(t) /\ cancelRequested[inst[t]]
  <2>1. pc'[t] = "closing" /\ outcome'[t] = "canceled" /\ mem'[t] = Fresh /\ batch'[t] = batch[t]
    BY <1>1, <1>3 DEF LoadRow
  <2>2. ~Live(t)'
    BY <2>1 DEF Live
  <2> QED BY <1>1, <1>2, <2>1, <2>2, EmptyHanded DEF KnownOf
<1>4. CASE LoadRow(t) /\ ~cancelRequested[inst[t]]
  <2>1. pc'[t] = "loaded" /\ outcome'[t] = "none" /\ mem'[t] = saved[inst[t]] /\ batch'[t] = batch[t]
    BY <1>1, <1>4 DEF LoadRow, Restored
  <2>2. Len(saves'[t]) = 0
    BY <1>1, <1>2
  <2>3. KnownOf(t)' /\ CleanOf(t)' /\ ConsumedOf(t)' /\ ChainOf(t)'
    BY <1>1, <1>2, <2>1, <2>2 DEF KnownOf, CleanOf, ConsumedOf, ChainOf, RowKnown, Live
  <2>4. AheadOf(t)'
    BY <1>1, <1>2, <2>1, <2>2, LeProperties DEF AheadOf, Le
  <2>5. \A s \in saved[inst[t]].applied, q \in inbox[inst[t]] : ~Before(q, s)
    BY <1>1, <1>4 DEF AppliedOnceInOrder, Before
  <2>6. OrderOf(t)'
    BY <1>2, <2>1, <2>2, <2>5 DEF OrderOf, Before
  <2> QED BY <2>3, <2>4, <2>6 DEF TickInv
<1>5. CASE LoadSignals(t)
  <2>1. /\ pc[t] = "loaded" /\ pc'[t] = "run" /\ outcome'[t] = "none" /\ mem'[t] = mem[t]
        /\ batch'[t] = inbox[inst[t]]
    BY <1>1, <1>5 DEF LoadSignals, Queued
  <2>2. Len(saves'[t]) = 0 /\ Live(t)
    BY <1>1, <1>2, <2>1 DEF Live
  <2>3. KnownOf(t)' /\ CleanOf(t)' /\ ConsumedOf(t)' /\ ChainOf(t)'
    BY <1>1, <1>2, <2>1, <2>2 DEF KnownOf, CleanOf, ConsumedOf, ChainOf, RowKnown, Live
  <2>4. ASSUME Owner(t)' PROVE AheadOf(t)' /\ OrderOf(t)'
    <3>1. AheadOf(t) /\ OrderOf(t)
      BY <1>2, <2>1, <2>4 DEF TickInv, Owner, Holds
    <3>2. AheadOf(t)'
      BY <1>2, <2>1, <2>2, <3>1 DEF AheadOf, Le
    <3>3. OrderOf(t)'
      BY <1>1, <1>2, <2>1, <2>2, <3>1 DEF OrderOf, Before, InSaves
    <3> QED BY <3>2, <3>3
  <2> QED BY <2>3, <2>4 DEF TickInv
<1> QED BY <1>3, <1>4, <1>5

\* The engine goes on, or the run returns to park.
LEMMA EngineKeeps ==
  ASSUME TypeOK, TypeOK', NEW t \in Tick, TickInv(t),
         \/ CallReturns(t) \/ Settle(t) \/ EngineEnds(t)
         \/ ReturnParked(t) \/ ReturnTimedOut(t)
  PROVE  TickInv(t)'
<1> USE DEF TypeOK, RowTypeOK, TickTypeOK
<1>1. pc[t] = "run" /\ outcome[t] = "none" /\ Live(t) /\ mem[t].calls \in Nat
  BY BoundsNat DEF CallReturns, Settle, EngineEnds, ReturnParked, ReturnTimedOut, Running, TickInv,
     CleanOf, Live, State
<1>2. /\ UNCHANGED <<committed, earlier, inbox, saved, lockedBy>>
      /\ UNCHANGED <<inst, saves, consumed>>
  BY DEF CallReturns, Settle, EngineEnds, ReturnParked, ReturnTimedOut, Return, rowVars, clientVars
<1>3. CASE CallReturns(t) \/ Settle(t) \/ EngineEnds(t)
  <2>1. pc' = pc /\ outcome' = outcome /\ batch' = batch
    BY <1>3 DEF CallReturns, Settle, EngineEnds
  <2>2. mem'[t].applied = mem[t].applied /\ mem[t].calls <= mem'[t].calls
    <3>1. CASE CallReturns(t)
      BY <1>1, <3>1 DEF CallReturns, State
    <3>2. CASE Settle(t) \/ EngineEnds(t)
      BY <1>1, <3>2 DEF Settle, EngineEnds
    <3> QED BY <1>3, <3>1, <3>2
  <2> QED BY <1>1, <1>2, <2>1, <2>2, GoesOn DEF Live
<1>4. CASE ReturnParked(t) \/ ReturnTimedOut(t)
  <2>1. pc'[t] = "closing" /\ outcome'[t] = "parked" /\ batch'[t] = {}
    BY <1>4 DEF ReturnParked, ReturnTimedOut, Return
  <2>2. mem'[t].applied = mem[t].applied /\ mem'[t].calls = mem[t].calls
    BY <1>4 DEF ReturnParked, ReturnTimedOut, State
  <2>3. mem[t].calls <= mem'[t].calls
    BY ONLY <1>1, <2>2
  <2>4. Live(t)'
    BY <2>1 DEF Live
  <2> QED BY <1>1, <1>2, <2>1, <2>2, <2>3, <2>4, GoesOn
<1> QED BY <1>3, <1>4

\* A run that is over keeps the snapshots on their way, and nothing else.
LEMMA FinishKeeps ==
  ASSUME TypeOK, TypeOK', NEW t \in Tick, TickInv(t), ReturnFinished(t)
  PROVE  TickInv(t)'
<1> USE DEF TypeOK, RowTypeOK, TickTypeOK
<1>1. /\ UNCHANGED <<committed, earlier, inbox, saved, lockedBy, inst, saves>>
      /\ pc[t] = "run" /\ pc'[t] = "closing" /\ outcome'[t] \in {"completed", "failed"}
      /\ mem'[t] = Fresh /\ consumed'[t] = {} /\ batch'[t] = {}
  BY DEF ReturnFinished, Return, rowVars, clientVars
<1>2. ~Live(t)' /\ mem'[t].applied = {}
  BY <1>1 DEF Live, Fresh
<1>3. KnownOf(t)' /\ CleanOf(t)' /\ ConsumedOf(t)' /\ ChainOf(t)'
  BY <1>1, <1>2 DEF TickInv, KnownOf, CleanOf, ConsumedOf, ChainOf, Le
<1>4. ASSUME Owner(t)' PROVE AheadOf(t)' /\ OrderOf(t)'
  <2>1. AheadOf(t) /\ OrderOf(t)
    BY <1>1, <1>4 DEF TickInv, Owner, Holds
  <2> QED BY <1>1, <1>2, <2>1 DEF AheadOf, OrderOf, Le, Before, InSaves
<1> QED BY <1>3, <1>4 DEF TickInv

\* The first signal of the batch is applied: those queued before it have been.
LEMMA DeliverKeeps ==
  ASSUME TypeOK, TypeOK', IdInv, NEW t \in Tick, TickInv(t), Deliver(t)
  PROVE  TickInv(t)'
<1>1. PICK s \in batch[t] :
         /\ \A q \in batch[t] : s <= q
         /\ mem' = [mem EXCEPT ![t].applied = @ \cup {s}]
         /\ consumed' = [consumed EXCEPT ![t] = @ \cup {s}]
         /\ batch' = [batch EXCEPT ![t] = @ \ {s}]
  BY DEF Deliver, NextOf
<1>2. /\ mem[t] \in State /\ mem'[t] \in State /\ mem'[t].applied = mem[t].applied \cup {s}
      /\ mem'[t].calls = mem[t].calls /\ mem[t].calls \in Nat
      /\ consumed'[t] = consumed[t] \cup {s} /\ batch'[t] = batch[t] \ {s}
  BY <1>1, BoundsNat DEF TypeOK, TickTypeOK, State
<1>3. /\ UNCHANGED <<committed, earlier, inbox, saved, lockedBy, pc, inst, outcome, saves>>
      /\ pc[t] = "run"
  BY DEF Deliver, Running, rowVars, clientVars
<1>4. Live(t) /\ Live(t)'
  BY <1>3 DEF Live
<1>5. KnownOf(t)' /\ CleanOf(t)' /\ ConsumedOf(t)'
  BY <1>1, <1>2, <1>3, <1>4 DEF TickInv, KnownOf, CleanOf, ConsumedOf
<1>6. \A k \in 1..Len(saves[t]) : saves[t][k].state \in State
  BY SaveElements
<1>7. Le(mem[t], mem'[t])
  BY <1>2 DEF Le
<1>8. ChainOf(t)'
  <2>1. \A j, k \in 1..Len(saves[t]) : j <= k => Le(saves[t][j].state, saves[t][k].state)
    BY DEF TickInv, ChainOf
  <2>2. \A k \in 1..Len(saves[t]) : Le(saves[t][k].state, mem[t])
    BY <1>4 DEF TickInv, ChainOf
  <2>3. \A k \in 1..Len(saves[t]) : Le(saves[t][k].state, mem'[t])
    BY <1>2, <1>6, <1>7, <2>2, LeProperties
  <2> QED BY <1>3, <2>1, <2>3 DEF ChainOf, Le
<1>9. ASSUME Owner(t)' PROVE AheadOf(t)' /\ OrderOf(t)'
  <2>1. AheadOf(t) /\ OrderOf(t)
    BY <1>3, <1>9 DEF TickInv, Owner, Holds
  <2>2. saved[inst[t]] \in State /\ inst[t] \in Instance
    BY DEF TypeOK, RowTypeOK, TickTypeOK
  <2>3. Le(saved[inst[t]], mem'[t])
    BY <1>2, <1>4, <1>7, <2>1, <2>2, LeProperties DEF AheadOf
  <2>4. AheadOf(t)'
    BY <1>3, <2>1, <2>3 DEF AheadOf, Le
  <2>5. \A q \in inbox[inst[t]] : Before(q, s) =>
          q \in consumed'[t] \/ InSaves(t, q, Len(saves[t]))
    <3> SUFFICES ASSUME NEW q \in inbox[inst[t]], Before(q, s), q # s
                 PROVE  q \in consumed[t] \/ InSaves(t, q, Len(saves[t]))
      BY <1>2
    <3>1. q \in earlier[s] /\ s \in SigId
      BY <1>1 DEF Before, TypeOK, TickTypeOK
    <3>2. q < s /\ q \in Nat /\ s \in Nat
      BY <3>1, BoundsNat DEF IdInv, TypeOK, ClientTypeOK, SigId
    <3>3. q \notin batch[t]
      BY <1>1, <3>2
    <3> QED BY <1>1, <1>3, <2>1, <3>3 DEF OrderOf
  <2>6. OrderOf(t)'
    <3>1. \A q, k : InSaves(t, q, k)' <=> InSaves(t, q, k)
      BY <1>3 DEF InSaves
    <3>2. \A q, r : Before(q, r)' <=> Before(q, r)
      BY <1>3 DEF Before
    <3>3. \A k \in 1..Len(saves[t]) : \A r \in saves[t][k].state.applied, q \in inbox[inst[t]] :
            Before(q, r) => InSaves(t, q, k)
      BY <2>1 DEF OrderOf
    <3>4. \A r \in mem'[t].applied, q \in inbox[inst[t]] :
            Before(q, r) => q \in consumed'[t] \/ InSaves(t, q, Len(saves[t]))
      BY <1>2, <2>1, <2>5 DEF OrderOf
    <3>5. \A r \in batch'[t], q \in inbox[inst[t]] :
            Before(q, r) => q \in batch'[t] \/ q \in consumed'[t] \/ InSaves(t, q, Len(saves[t]))
      BY <1>2, <1>3, <2>1 DEF OrderOf
    <3> QED BY <1>3, <3>1, <3>2, <3>3, <3>4, <3>5 DEF OrderOf
  <2> QED BY <2>4, <2>6
<1> QED BY <1>5, <1>8, <1>9 DEF TickInv

\* A snapshot takes over the signals consumed since the last one.
LEMMA SnapshotKeeps ==
  ASSUME TypeOK, TypeOK', NEW t \in Tick, TickInv(t), TakeSnapshot(t)
  PROVE  TickInv(t)'
<1>1. /\ UNCHANGED <<committed, earlier, inbox, saved, lockedBy, pc, inst, outcome, mem, batch>>
      /\ pc[t] = "run"
  BY DEF TakeSnapshot, rowVars, clientVars
<1>2. Live(t) /\ Live(t)'
  BY <1>1 DEF Live
<1>3. CASE finished[t] # "none"
  <2>1. UNCHANGED <<saves, consumed>>
    BY <1>3 DEF TakeSnapshot
  <2>2. outcome[t] = "none"
    BY <1>1 DEF TickInv, CleanOf
  <2> QED
    BY <1>1, <1>2, <2>1, <2>2 DEF TickInv, KnownOf, CleanOf, ConsumedOf, ChainOf, AheadOf, OrderOf,
       Owner, Holds, Le, Before, InSaves
<1>4. CASE finished[t] = "none"
  <2> DEFINE sv == [state |-> Snapshot(t), consumed |-> consumed[t]]
             n == Len(saves[t])
  <2>1. /\ mem[t] \in State /\ Snapshot(t) \in State /\ sv \in Save
        /\ Snapshot(t).applied = mem[t].applied /\ Snapshot(t).calls = mem[t].calls
        /\ saved[inst[t]] \in State
    <3>1. mem[t] \in State /\ consumed[t] \in SUBSET SigId /\ saved[inst[t]] \in State
      BY DEF TypeOK, TickTypeOK, RowTypeOK
    <3> QED BY <3>1, StateFields DEF Snapshot, Save, State
  <2>2. sv.state = Snapshot(t) /\ sv.consumed = consumed[t]
    OBVIOUS
  <2> HIDE DEF sv
  <2>3. saves'[t] = Append(saves[t], sv) /\ consumed'[t] = {}
    BY <1>4 DEF TakeSnapshot, TypeOK, TickTypeOK, sv
  <2>4. /\ n \in Nat /\ Len(saves'[t]) = n + 1
        /\ \A k \in 1..n : saves'[t][k] = saves[t][k]
        /\ saves'[t][n + 1] = sv
    <3>1. saves[t] \in Seq(Save) /\ Len(saves[t]) \in Nat
      BY SaveElements
    <3> QED BY <2>1, <2>3, <3>1, AppendProperties
  <2> HIDE DEF n
  <2>5. \A k \in 1..(n + 1) : k \in 1..n \/ k = n + 1
    BY <2>4
  <2>6. /\ KnownOf(t) /\ ConsumedOf(t) /\ ChainOf(t)
        /\ \A k \in 1..n : saves[t][k].state \in State
    BY SaveElements DEF TickInv, n
  <2>7. KnownOf(t)' /\ CleanOf(t)' /\ ConsumedOf(t)'
    <3>1. KnownOf(t)'
      BY <1>1, <2>1, <2>2, <2>4, <2>5, <2>6 DEF KnownOf, n
    <3>2. ConsumedOf(t)'
      BY <1>1, <2>1, <2>2, <2>3, <2>4, <2>5, <2>6 DEF ConsumedOf, n
    <3>3. CleanOf(t)'
      BY <1>1, <1>2 DEF CleanOf, TickInv
    <3> QED BY <3>1, <3>2, <3>3
  <2>8. \A a : Le(a, Snapshot(t)) <=> Le(a, mem[t])
    BY <2>1 DEF Le
  <2>9. ChainOf(t)'
    <3>1. \A k \in 1..n : Le(saves[t][k].state, mem[t])
      BY <1>2, <2>6 DEF ChainOf, n
    <3>2. Le(Snapshot(t), mem[t]) /\ Le(Snapshot(t), Snapshot(t))
      <4>1. mem[t].calls \in Nat
        BY <2>1, BoundsNat DEF State
      <4> QED BY <2>1, <4>1 DEF Le
    <3>3. \A k \in 1..(n + 1) : Le(saves'[t][k].state, mem[t])
      BY <2>2, <2>4, <2>5, <3>1, <3>2
    <3>4. \A j, k \in 1..(n + 1) : j <= k => Le(saves'[t][j].state, saves'[t][k].state)
      <4> SUFFICES ASSUME NEW j \in 1..(n + 1), NEW k \in 1..(n + 1), j <= k
                   PROVE  Le(saves'[t][j].state, saves'[t][k].state)
        OBVIOUS
      <4>1. CASE k = n + 1
        BY <2>2, <2>4, <2>8, <3>3, <4>1
      <4>2. CASE k \in 1..n
        <5>1. j \in 1..n
          BY <2>4, <4>2
        <5> QED BY <2>4, <2>6, <4>2, <5>1 DEF ChainOf, n
      <4> QED BY <2>5, <4>1, <4>2
    <3> QED BY <1>1, <2>4, <3>3, <3>4 DEF ChainOf, Le
  <2>10. ASSUME Owner(t)' PROVE AheadOf(t)' /\ OrderOf(t)'
    <3>1. AheadOf(t) /\ OrderOf(t)
      BY <1>1, <2>10 DEF TickInv, Owner, Holds
    <3>2. AheadOf(t)'
      <4>1. Le(saved[inst[t]], mem[t]) /\ \A k \in 1..n : Le(saved[inst[t]], saves[t][k].state)
        BY <1>2, <3>1 DEF AheadOf, n
      <4>2. \A k \in 1..(n + 1) : Le(saved[inst[t]], saves'[t][k].state)
        BY <2>2, <2>4, <2>5, <2>8, <4>1
      <4> QED BY <1>1, <2>4, <4>1, <4>2 DEF AheadOf, Le
    <3> DEFINE InNext(q, k) == \E j \in 1..k : q \in saves'[t][j].consumed
    <3>3. \A q, r : Before(q, r)' <=> Before(q, r)
      BY <1>1 DEF Before
    <3>4. \A k \in 1..n : \A q : InSaves(t, q, k) => InNext(q, k)
      BY <2>4 DEF InSaves
    <3>5. \A q : q \in consumed[t] \/ InSaves(t, q, n) => InNext(q, n + 1)
      <4>1. \A q \in consumed[t] : InNext(q, n + 1)
        <5>1. n + 1 \in 1..(n + 1)
          BY <2>4
        <5> QED BY <2>2, <2>4, <5>1
      <4>2. \A q : InSaves(t, q, n) => InNext(q, n + 1)
        BY <2>4 DEF InSaves
      <4> QED BY <4>1, <4>2
    <3>6. \A k \in 1..(n + 1) : \A r \in saves'[t][k].state.applied, q \in inbox[inst[t]] :
            Before(q, r) => InNext(q, k)
      <4> SUFFICES ASSUME NEW k \in 1..(n + 1), NEW r \in saves'[t][k].state.applied,
                          NEW q \in inbox[inst[t]], Before(q, r)
                   PROVE  InNext(q, k)
        OBVIOUS
      <4>1. CASE k \in 1..n
        <5>1. InSaves(t, q, k)
          BY <2>4, <3>1, <4>1 DEF OrderOf, n
        <5> QED BY <3>4, <4>1, <5>1
      <4>2. CASE k = n + 1
        <5>1. r \in mem[t].applied
          BY <2>1, <2>2, <2>4, <4>2
        <5>2. q \in consumed[t] \/ InSaves(t, q, n)
          BY <3>1, <5>1 DEF OrderOf, n
        <5> HIDE DEF InNext
        <5> QED BY <3>5, <4>2, <5>2
      <4> QED BY <2>5, <4>1, <4>2
    <3> HIDE DEF InNext
    <3>7. \A r \in mem[t].applied, q \in inbox[inst[t]] : Before(q, r) => InNext(q, n + 1)
      BY <3>1, <3>5 DEF OrderOf, n
    <3>8. \A r \in batch[t], q \in inbox[inst[t]] :
            Before(q, r) => q \in batch[t] \/ InNext(q, n + 1)
      BY <1>1, <3>1, <3>5 DEF OrderOf, n
    <3>9. \A q, k : InSaves(t, q, k)' <=> InNext(q, k)
      BY DEF InSaves, InNext
    <3>10. OrderOf(t)'
      BY <1>1, <2>3, <2>4, <3>3, <3>6, <3>7, <3>8, <3>9 DEF OrderOf, n
    <3> QED BY <3>2, <3>10
  <2> QED BY <2>7, <2>9, <2>10 DEF TickInv
<1> QED BY <1>3, <1>4

\* The oldest snapshot becomes the saved state, its signals leave the inbox;
\* what is behind it is further, and takes out the rest.
LEMMA WriteKeeps ==
  ASSUME TypeOK, TypeOK', NEW t \in Tick, TickInv(t), WriteCheckpoint(t)
  PROVE  TickInv(t)'
<1> DEFINE n == Len(saves[t])
           h == saves[t][1]
<1>1. /\ UNCHANGED <<committed, earlier, lockedBy, pc, inst, outcome, mem, batch, consumed>>
      /\ pc[t] \in {"run", "closing"}
      /\ saves'[t] = Tail(saves[t]) /\ saves[t] # << >>
  BY DEF WriteCheckpoint, TypeOK, TickTypeOK, clientVars
<1>2. /\ n \in Nat /\ n >= 1 /\ Len(saves'[t]) = n - 1 /\ Head(saves[t]) = h
      /\ \A k \in 1..(n - 1) : saves'[t][k] = saves[t][k + 1]
  <2>1. saves[t] \in Seq(Save) /\ n \in Nat
    BY SaveElements
  <2>2. n >= 1
    BY <1>1, <2>1, EmptySeq
  <2> QED BY <1>1, <2>1, <2>2, HeadTailProperties
<1>3. /\ 1 \in 1..n /\ \A k \in 1..(n - 1) : k + 1 \in 1..n /\ 1 <= k + 1
      /\ \A j, k \in 1..(n - 1) : j <= k => j + 1 <= k + 1
  BY <1>2
<1> HIDE DEF n
<1>4. KnownOf(t) /\ CleanOf(t) /\ ConsumedOf(t) /\ ChainOf(t)
  BY DEF TickInv
<1>5. KnownOf(t)' /\ CleanOf(t)' /\ ConsumedOf(t)'
  <2>1. KnownOf(t)'
    BY <1>1, <1>2, <1>3, <1>4 DEF KnownOf, n
  <2>2. ConsumedOf(t)'
    BY <1>1, <1>2, <1>3, <1>4 DEF ConsumedOf, n
  <2>3. CleanOf(t)'
    BY <1>1, <1>4 DEF CleanOf, Live
  <2> QED BY <2>1, <2>2, <2>3
<1>6. ChainOf(t)'
  <2>1. \A j, k \in 1..(n - 1) : j <= k => Le(saves'[t][j].state, saves'[t][k].state)
    BY <1>2, <1>3, <1>4 DEF ChainOf, n
  <2>2. Live(t) => \A k \in 1..(n - 1) : Le(saves'[t][k].state, mem[t])
    BY <1>2, <1>3, <1>4 DEF ChainOf, n
  <2> QED BY <1>1, <1>2, <2>1, <2>2 DEF ChainOf, Le, Live
<1>7. ASSUME Owner(t)' PROVE AheadOf(t)' /\ OrderOf(t)'
  <2>1. Holds(t) /\ OrderOf(t)
    BY <1>1, <1>7 DEF TickInv, Owner, Holds
  <2>2. inst[t] \in Instance
    BY DEF TypeOK, TickTypeOK
  <2>3. saved'[inst[t]] = h.state /\ inbox'[inst[t]] = inbox[inst[t]] \ h.consumed
    <3>1. /\ saved' = [saved EXCEPT ![inst[t]] = Head(saves[t]).state]
          /\ inbox' = [inbox EXCEPT ![inst[t]] = inbox[inst[t]] \ Head(saves[t]).consumed]
      BY <2>1 DEF WriteCheckpoint, NotIn
    <3>2. saved \in [Instance -> State] /\ inbox \in [Instance -> SUBSET SigId]
      BY DEF TypeOK, RowTypeOK
    <3> QED BY <1>2, <2>2, <3>1, <3>2
  <2>4. AheadOf(t)'
    <3>1. \A k \in 1..(n - 1) : Le(h.state, saves'[t][k].state)
      BY <1>2, <1>3, <1>4 DEF ChainOf, n
    <3>2. Live(t) => Le(h.state, mem[t])
      BY <1>3, <1>4 DEF ChainOf, n
    <3> QED BY <1>1, <1>2, <2>3, <3>1, <3>2 DEF AheadOf, Le, Live
  <2> DEFINE InNext(q, k) == \E j \in 1..k : q \in saves'[t][j].consumed
  <2>5. ASSUME NEW k \in 0..(n - 1), NEW q, q \notin h.consumed, InSaves(t, q, k + 1)
        PROVE  InNext(q, k)
    <3>1. PICK j \in 1..(k + 1) : q \in saves[t][j].consumed
      BY <2>5 DEF InSaves
    <3>2. j # 1
      BY <2>5, <3>1
    <3>3. j - 1 \in 1..k /\ j - 1 \in 1..(n - 1) /\ (j - 1) + 1 = j
      BY <1>2, <3>2
    <3>4. saves'[t][j - 1] = saves[t][j]
      BY <1>2, <3>3
    <3> QED BY <3>1, <3>3, <3>4
  <2>6. /\ n - 1 \in 0..(n - 1) /\ (n - 1) + 1 = n
        /\ \A k \in 1..(n - 1) : k \in 0..(n - 1)
    BY <1>2
  <2> HIDE DEF InNext, h
  <2>7. \A q, r : Before(q, r)' <=> Before(q, r)
    BY <1>1 DEF Before
  <2>8. \A k \in 1..(n - 1) : \A r \in saves'[t][k].state.applied, q \in inbox'[inst[t]] :
          Before(q, r) => InNext(q, k)
    <3> SUFFICES ASSUME NEW k \in 1..(n - 1), NEW r \in saves[t][k + 1].state.applied,
                        NEW q \in inbox[inst[t]], q \notin h.consumed, Before(q, r)
                 PROVE  InNext(q, k)
      BY <1>2, <2>3
    <3>1. InSaves(t, q, k + 1)
      BY <1>3, <2>1 DEF OrderOf, n
    <3> QED BY <2>5, <2>6, <3>1
  <2>9. \A q : q \notin h.consumed /\ InSaves(t, q, n) => InNext(q, n - 1)
    BY <2>5, <2>6
  <2>10. \A r \in mem[t].applied, q \in inbox'[inst[t]] :
          Before(q, r) => q \in consumed[t] \/ InNext(q, n - 1)
    BY <2>1, <2>3, <2>9 DEF OrderOf, n
  <2>11. pc[t] = "run" => \A r \in batch[t], q \in inbox'[inst[t]] :
          Before(q, r) => q \in batch[t] \/ q \in consumed[t] \/ InNext(q, n - 1)
    BY <2>1, <2>3, <2>9 DEF OrderOf, n
  <2>12. \A q, k : InSaves(t, q, k)' <=> InNext(q, k)
    BY DEF InSaves, InNext
  <2>13. OrderOf(t)'
    BY <1>1, <1>2, <2>7, <2>8, <2>10, <2>11, <2>12 DEF OrderOf
  <2> QED BY <2>4, <2>13
<1> QED BY <1>5, <1>6, <1>7 DEF TickInv

\* No checkpoint is refused by the database.
NoSaveFaults == "save" \notin Faults

\* A tick's own step keeps the tick's invariant: its saves ascend from the
\* state of its row, for as long as it holds the row.
LEMMA OwnStepKeeps ==
  ASSUME TypeOK, TypeOK', NoSaveFaults, IdInv, RowKnown, AppliedOnceInOrder, Grown,
         NEW t \in Tick, TickInv(t), TickStep(t)
  PROVE  TickInv(t)'
<1>1. ASSUME NEW i \in Instance, Claim(t, i) PROVE TickInv(t)'
  <2>1. /\ pc[t] = "idle" /\ pc'[t] = "claimed"
        /\ UNCHANGED <<outcome, mem, batch, consumed, saves, committed>>
    BY <1>1 DEF Claim, TypeOK, TickTypeOK, engineVars, clientVars
  <2>2. mem[t] = Fresh /\ consumed[t] = {} /\ saves[t] = << >> /\ batch[t] \subseteq committed
    BY <2>1 DEF TickInv, CleanOf, KnownOf, Live
  <2>3. ~Live(t)' /\ outcome'[t] = "none"
    BY <2>1 DEF Live, TickInv, CleanOf
  <2> QED BY <2>1, <2>2, <2>3, EmptyHanded
<1>2. CASE Heartbeat(t)
  BY <1>2, UndisturbedKeeps DEF Heartbeat, Undisturbed, Same, Owner, Holds, tickVars, engineVars
<1>3. CASE LoadRow(t) \/ LoadSignals(t)
  BY <1>3, LoadKeeps
<1>4. CASE CallReturns(t) \/ Settle(t) \/ EngineEnds(t) \/ ReturnParked(t) \/ ReturnTimedOut(t)
  BY <1>4, EngineKeeps
<1>5. CASE TakeSnapshot(t)
  BY <1>5, SnapshotKeeps
<1>6. CASE WriteCheckpoint(t)
  BY <1>6, WriteKeeps
<1>7. CASE Deliver(t)
  BY <1>7, DeliverKeeps
<1>8. CASE ReturnFinished(t)
  BY <1>8, FinishKeeps
<1>9. CASE Release(t) \/ Abandon(t)
  <2>1. LetGo(t)
    BY <1>9 DEF Release, ReleaseCompleted, ReleaseCanceled, ReleaseFailed, ReleaseParked,
       ReleaseLeaseLost, Abandon
  <2> QED BY <2>1, IdleKeeps
<1>10. CASE CheckpointFails(t)
  BY <1>10 DEF CheckpointFails, Fault, NoSaveFaults
<1> QED
  BY <1>1, <1>2, <1>3, <1>4, <1>5, <1>6, <1>7, <1>8, <1>9, <1>10 DEF TickStep, Process, TickFault

----------------------------------------------------------------------------
(* Rows: what is written to them. *)

\* What a tick's step can make of the saved state of an instance.
LEMMA SavedStep ==
  ASSUME TypeOK, NEW t \in Tick, TickStep(t), NEW i \in Instance
  PROVE  \/ saved'[i] = saved[i]
         \/ WriteCheckpoint(t) /\ Holds(t) /\ i = inst[t] /\ saved'[i] = Head(saves[t]).state
                               /\ inbox'[i] = inbox[i] \ Head(saves[t]).consumed
         \/ ReleaseParked(t) /\ i = inst[t] /\ saved'[i] = Snapshot(t)
         \/ ReleaseCompleted(t) /\ i = inst[t] /\ saved'[i] = Fresh
<1> USE DEF TypeOK, RowTypeOK, TickTypeOK
<1>1. ASSUME NEW j \in Instance, Claim(t, j) PROVE saved' = saved
  BY <1>1 DEF Claim
<1>2. CASE Heartbeat(t)
  BY <1>2 DEF Heartbeat
<1>3. CASE LoadRow(t) \/ LoadSignals(t) \/ CallReturns(t) \/ TakeSnapshot(t) \/ Settle(t) \/ Deliver(t)
  BY <1>3 DEF LoadRow, LoadSignals, CallReturns, TakeSnapshot, Settle, Deliver, rowVars
<1>4. CASE EngineEnds(t) \/ ReturnFinished(t) \/ ReturnParked(t)
  BY <1>4 DEF EngineEnds, ReturnFinished, ReturnParked, Return, rowVars
<1>5. CASE TickFault(t)
  BY <1>5 DEF TickFault, CheckpointFails, ReturnTimedOut, Return, Abandon, rowVars
<1>6. CASE WriteCheckpoint(t)
  <2>1. CASE ~Holds(t)
    BY <1>6, <2>1 DEF WriteCheckpoint
  <2>2. CASE Holds(t)
    <3>1. /\ saved' = [saved EXCEPT ![inst[t]] = Head(saves[t]).state]
          /\ inbox' = [inbox EXCEPT ![inst[t]] = inbox[inst[t]] \ Head(saves[t]).consumed]
      BY <1>6, <2>2 DEF WriteCheckpoint, NotIn
    <3> QED BY <1>6, <2>2, <3>1
  <2> QED BY <2>1, <2>2
<1>7. CASE ReleaseCanceled(t) \/ ReleaseFailed(t) \/ ReleaseLeaseLost(t)
  BY <1>7 DEF ReleaseCanceled, ReleaseFailed, ReleaseLeaseLost, rowVars
<1>8. CASE ReleaseParked(t)
  BY <1>8 DEF ReleaseParked
<1>9. CASE ReleaseCompleted(t)
  BY <1>9 DEF ReleaseCompleted
<1> QED
  BY <1>1, <1>2, <1>3, <1>4, <1>5, <1>6, <1>7, <1>8, <1>9 DEF TickStep, Process, Release

\* The head of a queue of snapshots is its first.
LEMMA FirstSave ==
  ASSUME TypeOK, NEW t \in Tick, saves[t] # << >>
  PROVE  1 \in 1..Len(saves[t]) /\ Head(saves[t]) = saves[t][1]
<1>1. saves[t] \in Seq(Save) /\ Len(saves[t]) \in Nat
  BY SaveElements
<1>2. Len(saves[t]) >= 1
  BY <1>1, EmptySeq
<1> QED BY <1>1, <1>2

\* No step puts a signal behind one that is already part of the saved state.
LEMMA RowsStep ==
  ASSUME TypeOK, TypeOK', IdInv, Grown, RowKnown, AppliedOnceInOrder,
         \A t \in Tick : TickInv(t), [Next]_vars
  PROVE  RowKnown' /\ AppliedOnceInOrder'
<1>1. ASSUME NEW i \in Instance, saved'[i] = saved[i], cancelRequested[i] => cancelRequested'[i]
      PROVE  /\ saved'[i].applied \subseteq committed'
             /\ ~cancelRequested'[i] =>
                  \A s \in saved'[i].applied, q \in inbox'[i] : ~Before(q, s)'
  <2>1. saved[i].applied \subseteq committed /\ committed \subseteq committed'
    BY DEF RowKnown, Grown
  <2>2. ~cancelRequested[i] => \A s \in saved[i].applied, q \in inbox[i] : ~Before(q, s)
    BY DEF AppliedOnceInOrder, Before
  <2>3. \A s \in committed, q \in inbox'[i] : Before(q, s)' => q \in inbox[i] /\ Before(q, s)
    BY NoNewBefore
  <2> QED BY <1>1, <2>1, <2>2, <2>3
<1>2. ASSUME NEW t \in Tick, TickStep(t), NEW i \in Instance
      PROVE  /\ saved'[i].applied \subseteq committed'
             /\ ~cancelRequested'[i] =>
                  \A s \in saved'[i].applied, q \in inbox'[i] : ~Before(q, s)'
  <2>1. UNCHANGED <<committed, earlier, cancelRequested>>
    BY <1>2, TickTakes, TickShape DEF clientVars
  <2>2. TickInv(t)
    OBVIOUS
  <2>3. CASE saved'[i] = saved[i]
    BY <1>1, <2>1, <2>3
  <2>4. CASE /\ WriteCheckpoint(t) /\ Holds(t) /\ i = inst[t] /\ saved'[i] = Head(saves[t]).state
             /\ inbox'[i] = inbox[i] \ Head(saves[t]).consumed
    <3>1. /\ 1 \in 1..Len(saves[t]) /\ saved'[i] = saves[t][1].state
          /\ inbox'[i] = inbox[i] \ saves[t][1].consumed /\ Owner(t)
      BY <2>4, FirstSave DEF WriteCheckpoint, Owner
    <3>2. saved'[i].applied \subseteq committed'
      BY <2>1, <2>2, <3>1 DEF TickInv, KnownOf
    <3>3. \A s \in saved'[i].applied, q \in inbox[i] : Before(q, s) => InSaves(t, q, 1)
      BY <2>2, <2>4, <3>1 DEF TickInv, OrderOf
    <3>4. \A q : InSaves(t, q, 1) => q \in saves[t][1].consumed
      BY DEF InSaves
    <3> QED BY <2>1, <3>1, <3>2, <3>3, <3>4 DEF Before
  <2>5. CASE ReleaseParked(t) /\ i = inst[t] /\ saved'[i] = Snapshot(t)
    <3>1. Snapshot(t).applied = mem[t].applied
      BY DEF Snapshot, TypeOK, TickTypeOK, State
    <3>2. saved'[i].applied \subseteq committed'
      BY <2>1, <2>2, <2>5, <3>1 DEF TickInv, KnownOf
    <3>3. ASSUME ~cancelRequested'[i] PROVE inbox'[i] = inbox[i] \ consumed[t]
      BY <2>1, <2>5, <3>3 DEF ReleaseParked, Left, TypeOK, RowTypeOK
    <3>4. Owner(t) /\ Len(saves[t]) = 0
      BY <2>5 DEF ReleaseParked, MayRelease, Owner
    <3>5. \A s \in mem[t].applied, q \in inbox[i] : Before(q, s) => q \in consumed[t]
      BY <2>2, <2>5, <3>4 DEF TickInv, OrderOf, InSaves
    <3> QED BY <2>1, <2>5, <3>1, <3>2, <3>3, <3>5 DEF Before
  <2>6. CASE ReleaseCompleted(t) /\ i = inst[t] /\ saved'[i] = Fresh
    BY <2>6 DEF Fresh
  <2> QED BY <1>2, <2>3, <2>4, <2>5, <2>6, SavedStep
<1>3. ASSUME Outside, NEW i \in Instance
      PROVE  /\ saved'[i].applied \subseteq committed'
             /\ ~cancelRequested'[i] =>
                  \A s \in saved'[i].applied, q \in inbox'[i] : ~Before(q, s)'
  BY <1>1, <1>3, OutsideUndisturbed
<1>4. \A i \in Instance :
        /\ saved'[i].applied \subseteq committed'
        /\ ~cancelRequested'[i] => \A s \in saved'[i].applied, q \in inbox'[i] : ~Before(q, s)'
  BY <1>2, <1>3, TickSteps
<1>5. AppliedOnceInOrder'
  BY <1>4 DEF AppliedOnceInOrder, Before
<1>6. \A i \in Instance : inbox'[i] \subseteq committed'
  <2>1. ASSUME NEW t \in Tick, TickStep(t) PROVE \A i \in Instance : inbox'[i] \subseteq committed'
    BY <2>1, TickTakes DEF RowKnown, clientVars
  <2>2. ASSUME NEW c \in Client, SignalCommit(c) PROVE \A i \in Instance : inbox'[i] \subseteq committed'
    BY <2>2 DEF SignalCommit, RowKnown, TypeOK, RowTypeOK, ClientTypeOK
  <2>3. ASSUME NEW c \in Client, NEW i \in Instance,
               \/ SignalCheck(c, i) \/ RetryCheck(c, i) \/ SignalInsert(c) \/ RetryCommit(c)
        PROVE  UNCHANGED <<inbox, committed>>
    BY <2>3 DEF SignalCheck, RetryCheck, SignalInsert, RetryCommit
  <2>4. ASSUME NEW i \in Instance, Start(i) \/ Cancel(i) \/ TimerDue(i) \/ Expire(i) \/ Overrun(i)
        PROVE  UNCHANGED <<inbox, committed>>
    BY <2>4 DEF Start, Cancel, TimerDue, Expire, Overrun, clientVars
  <2>5. ASSUME UNCHANGED vars PROVE UNCHANGED <<inbox, committed>>
    BY <2>5 DEF vars, clientVars
  <2>6. ASSUME UNCHANGED <<inbox, committed>> PROVE \A i \in Instance : inbox'[i] \subseteq committed'
    BY <2>6 DEF RowKnown
  <2>7. CASE Api
    <3>1. ASSUME NEW c \in Client, SignalInsert(c) \/ RetryCommit(c)
          PROVE  UNCHANGED <<inbox, committed>>
      BY <3>1 DEF SignalInsert, RetryCommit
    <3> QED BY <2>2, <2>3, <2>4, <2>6, <2>7, <3>1 DEF Api
  <2> QED BY <2>1, <2>4, <2>5, <2>6, <2>7, TickSteps DEF Outside
<1> QED BY <1>4, <1>5, <1>6 DEF RowKnown

----------------------------------------------------------------------------
(* The theorems. *)

\* The flow invariant is inductive when each tick has an id of its own and
\* checkpoints do not fail.
LEMMA FlowStep ==
  ASSUME OwnIds, NoSaveFaults
  PROVE  TypeOK /\ TypeOK' /\ FlowInv /\ [Next]_vars => FlowInv'
<1> SUFFICES ASSUME TypeOK, TypeOK', FlowInv, [Next]_vars PROVE FlowInv'
  OBVIOUS
<1> USE DEF FlowInv
<1>1. Grown /\ IdInv'
  BY SignalsStep
<1>2. RowKnown' /\ AppliedOnceInOrder'
  BY <1>1, RowsStep
<1>3. ASSUME NEW u \in Tick PROVE TickInv(u)'
  <2>1. CASE Outside
    BY <1>1, <2>1, OutsideUndisturbed, UndisturbedKeeps
  <2>2. ASSUME NEW t \in Tick, TickStep(t), t # u PROVE TickInv(u)'
    BY <1>1, <2>2, OthersUndisturbed, UndisturbedKeeps
  <2>3. ASSUME TickStep(u) PROVE TickInv(u)'
    BY <1>1, <2>3, OwnStepKeeps
  <2> QED BY <2>1, <2>2, <2>3, TickSteps
<1> QED BY <1>1, <1>2, <1>3

\* It holds at first: nothing is queued and nothing runs.
LEMMA FlowInit == Init => FlowInv
<1> SUFFICES ASSUME Init PROVE FlowInv
  OBVIOUS
<1>1. IdInv /\ RowKnown /\ AppliedOnceInOrder
  BY DEF Init, IdInv, RowKnown, AppliedOnceInOrder, Fresh, SigId
<1>2. ASSUME NEW t \in Tick PROVE TickInv(t)
  <2>1. /\ mem[t] = Fresh /\ mem[t].applied = {} /\ Len(saves[t]) = 0 /\ consumed[t] = {}
        /\ batch[t] = {} /\ pc[t] = "idle" /\ outcome[t] = "none" /\ saves[t] = << >>
    BY DEF Init, Fresh
  <2> QED
    BY <2>1 DEF TickInv, KnownOf, CleanOf, ConsumedOf, ChainOf, Live, Owner
<1> QED BY <1>1, <1>2 DEF FlowInv

\* With an id per tick and every checkpoint written, the invariant holds ...
THEOREM Flow ==
  ASSUME OwnIds, NoSaveFaults
  PROVE  Spec => []FlowInv
<1>1. Init => FlowInv
  BY FlowInit
<1>2. TypeOK /\ TypeOK' /\ FlowInv /\ [Next]_vars => FlowInv'
  BY FlowStep
<1> QED BY <1>1, <1>2, TypeCorrect, PTL DEF Spec

\* ... so every signal is applied once, and after those acknowledged before it
\* was sent.
THEOREM SignalOrder ==
  ASSUME OwnIds, NoSaveFaults
  PROVE  Spec => []AppliedOnceInOrder
<1>1. FlowInv => AppliedOnceInOrder
  BY DEF FlowInv
<1> QED BY <1>1, Flow, PTL

\* ... and no write takes back what another run has saved.
THEOREM Progress ==
  ASSUME OwnIds, NoSaveFaults
  PROVE  Spec => ProgressKept
<1> DEFINE Kept == \A i \in Instance :
        \/ saved[i].applied \subseteq saved'[i].applied /\ saved[i].calls <= saved'[i].calls
        \/ status'[i] = "completed"
<1>1. TypeOK /\ FlowInv /\ [Next]_vars => Kept
  <2> SUFFICES ASSUME TypeOK, FlowInv, [Next]_vars, NEW i \in Instance
               PROVE  Le(saved[i], saved'[i]) \/ status'[i] = "completed"
    BY DEF Le
  <2>1. saved[i] \in State /\ Le(saved[i], saved[i])
    BY LeProperties DEF TypeOK, RowTypeOK
  <2>2. CASE Outside
    BY <2>1, <2>2, OutsideUndisturbed
  <2>3. ASSUME NEW t \in Tick, TickStep(t)
        PROVE  Le(saved[i], saved'[i]) \/ status'[i] = "completed"
    <3>1. TickInv(t)
      BY DEF FlowInv
    <3>2. CASE saved'[i] = saved[i]
      BY <2>1, <3>2
    <3>3. CASE WriteCheckpoint(t) /\ Holds(t) /\ i = inst[t] /\ saved'[i] = Head(saves[t]).state
      <4>1. 1 \in 1..Len(saves[t]) /\ saved'[i] = saves[t][1].state /\ Owner(t)
        BY <3>3, FirstSave DEF WriteCheckpoint, Owner
      <4> QED BY <3>1, <3>3, <4>1 DEF TickInv, AheadOf
    <3>4. CASE ReleaseParked(t) /\ i = inst[t] /\ saved'[i] = Snapshot(t)
      <4>1. Owner(t) /\ Live(t)
        BY <3>4 DEF ReleaseParked, MayRelease, Owner, Live
      <4>2. Le(saved[i], mem[t])
        BY <3>1, <3>4, <4>1 DEF TickInv, AheadOf
      <4>3. Snapshot(t).applied = mem[t].applied /\ Snapshot(t).calls = mem[t].calls
        BY DEF Snapshot, TypeOK, TickTypeOK, State
      <4> QED BY <3>4, <4>2, <4>3 DEF Le
    <3>5. CASE ReleaseCompleted(t) /\ i = inst[t]
      BY <3>5 DEF ReleaseCompleted, TypeOK, RowTypeOK
    <3> QED BY <2>3, <3>2, <3>3, <3>4, <3>5, SavedStep
  <2> QED BY <2>2, <2>3, TickSteps
<1>2. Kept => [Kept]_vars
  OBVIOUS
<1> QED BY <1>1, Flow, TypeCorrect, PTL DEF Spec, ProgressKept

\* A signal leaves the inbox only with a state that has applied it, or with an
\* instance that is over: whoever writes.
THEOREM SignalsStay ==
  ASSUME OwnIds, NoSaveFaults
  PROVE  Spec => SignalsKept
<1> DEFINE Kept == \A i \in Instance : \A s \in inbox[i] \ inbox'[i] :
        s \in saved'[i].applied \/ status'[i] \in {"completed", "canceled"}
<1>1. TypeOK /\ FlowInv /\ [Next]_vars => Kept
  <2> SUFFICES ASSUME TypeOK, FlowInv, [Next]_vars PROVE Kept
    OBVIOUS
  <2> USE DEF TypeOK, RowTypeOK
  <2>1. CASE \A i \in Instance : inbox[i] \subseteq inbox'[i]
    BY <2>1
  <2>2. ASSUME NEW t \in Tick, WriteCheckpoint(t) PROVE Kept
    <3>1. CASE ~Holds(t)
      BY <2>2, <3>1 DEF WriteCheckpoint
    <3>2. CASE Holds(t)
      <4>1. /\ saved' = [saved EXCEPT ![inst[t]] = saves[t][1].state]
            /\ inbox' = [inbox EXCEPT ![inst[t]] = inbox[inst[t]] \ saves[t][1].consumed]
            /\ 1 \in 1..Len(saves[t])
        BY <2>2, <3>2, FirstSave DEF WriteCheckpoint, NotIn
      <4>2. saves[t][1].consumed \subseteq saves[t][1].state.applied
        BY <4>1 DEF FlowInv, TickInv, ConsumedOf
      <4> QED BY <4>1, <4>2
    <3> QED BY <3>1, <3>2
  <2>3. ASSUME NEW t \in Tick, ReleaseParked(t) PROVE Kept
    <3>1. /\ saved' = [saved EXCEPT ![inst[t]] = Snapshot(t)]
          /\ inbox' = inbox \/ inbox' = [inbox EXCEPT ![inst[t]] = inbox[inst[t]] \ consumed[t]]
      BY <2>3 DEF ReleaseParked, Left
    <3>2. consumed[t] \subseteq Snapshot(t).applied
      BY DEF FlowInv, TickInv, ConsumedOf, Snapshot, TickTypeOK, State
    <3> QED BY <3>1, <3>2
  <2>4. ASSUME NEW t \in Tick, ReleaseCompleted(t) \/ ReleaseCanceled(t) PROVE Kept
    BY <2>4 DEF ReleaseCompleted, ReleaseCanceled
  <2>5. CASE UNCHANGED inbox
    BY <2>5
  <2>6. ASSUME NEW c \in Client, SignalCommit(c) PROVE Kept
    BY <2>6 DEF SignalCommit
  <2>7. ASSUME NEW t \in Tick, TickStep(t),
               ~WriteCheckpoint(t), ~ReleaseParked(t), ~ReleaseCompleted(t), ~ReleaseCanceled(t)
        PROVE  UNCHANGED inbox
    <3>1. ASSUME NEW j \in Instance, Claim(t, j) PROVE UNCHANGED inbox
      BY <3>1 DEF Claim
    <3>2. CASE Heartbeat(t)
      BY <3>2 DEF Heartbeat
    <3>3. CASE LoadRow(t) \/ LoadSignals(t) \/ CallReturns(t) \/ TakeSnapshot(t) \/ Settle(t) \/ Deliver(t)
      BY <3>3 DEF LoadRow, LoadSignals, CallReturns, TakeSnapshot, Settle, Deliver
    <3>4. CASE EngineEnds(t) \/ ReturnFinished(t) \/ ReturnParked(t)
      BY <3>4 DEF EngineEnds, ReturnFinished, ReturnParked, Return
    <3>5. CASE TickFault(t)
      BY <3>5 DEF TickFault, CheckpointFails, ReturnTimedOut, Return, Abandon
    <3>6. CASE ReleaseFailed(t) \/ ReleaseLeaseLost(t)
      BY <3>6 DEF ReleaseFailed, ReleaseLeaseLost
    <3> QED BY <2>7, <3>1, <3>2, <3>3, <3>4, <3>5, <3>6 DEF TickStep, Process, Release
  <2>8. CASE Outside
    <3>1. ASSUME NEW c \in Client, NEW i \in Instance,
                 \/ SignalCheck(c, i) \/ RetryCheck(c, i)
          PROVE  UNCHANGED inbox
      BY <3>1 DEF SignalCheck, RetryCheck
    <3>2. ASSUME NEW c \in Client, SignalInsert(c) \/ RetryCommit(c) PROVE UNCHANGED inbox
      BY <3>2 DEF SignalInsert, RetryCommit
    <3>3. ASSUME NEW i \in Instance, Start(i) \/ Cancel(i) \/ TimerDue(i) \/ Expire(i) \/ Overrun(i)
          PROVE  UNCHANGED inbox
      BY <3>3 DEF Start, Cancel, TimerDue, Expire, Overrun
    <3>4. ASSUME UNCHANGED vars PROVE UNCHANGED inbox
      BY <3>4 DEF vars
    <3> HIDE DEF Kept
    <3> QED BY <2>5, <2>6, <2>8, <3>1, <3>2, <3>3, <3>4 DEF Outside, Api
  <2> HIDE DEF Kept
  <2> QED BY <2>2, <2>3, <2>4, <2>5, <2>7, <2>8, TickSteps
<1> QED BY <1>1, Flow, TypeCorrect, PTL DEF Spec, SignalsKept
=============================================================================
