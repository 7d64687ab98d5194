----------------------------- MODULE Scheduler -----------------------------
(***************************************************************************)
(* How struna schedules process instances: the row of each instance, its   *)
(* inbox of signals, the API calls that write both, and the ticks of the   *)
(* workers that claim a row under a lease, run it and save it.             *)
(*                                                                         *)
(* One step is one database statement or transaction, or one step of a     *)
(* run between two of its awaits.  Time is abstract: a timestamp in the    *)
(* past is "due", one in the future "later", a lease is "live" until its   *)
(* lockedUntil has passed and "lapsed" after.  Of the engine's state only  *)
(* what the scheduling must preserve is kept: which signals it has         *)
(* applied, how many service calls it has made and whether it waits on a   *)
(* timer.                                                                  *)
(***************************************************************************)
EXTENDS Naturals, Sequences

CONSTANTS Instance,     \* process instances
          Tick,         \* executions of Worker.tick, each a loop of its own
          Worker,       \* the worker ids, what locked_by holds
          WorkerOf,     \* the id a tick claims under
          NoWorker,     \* locked_by IS NULL
          Client,       \* concurrent callers of the API
          MaxSignals,   \* bound: signals ever queued
          MaxCalls,     \* bound: service calls of one engine state
          MaxFaults,    \* bound: faults of all kinds
          Faults        \* the kinds of fault that may happen

ASSUME WorkerOfType == WorkerOf \in [Tick -> Worker]
ASSUME NoWorkerOutside == NoWorker \notin Worker
ASSUME BoundsNat == MaxSignals \in Nat /\ MaxCalls \in Nat /\ MaxFaults \in Nat

VARIABLES
  \* process_instances
  status, runnableAt, lockedBy, lease, cancelRequested, saved,
  \* process_signals: the committed rows of each instance; the id sequence
  inbox, nextId,
  \* the API's callers
  cpc, cinst, cid, cfresh,
  \* ghosts: the signals committed, and for each id those committed before it
  committed, earlier,
  \* Worker.tick / Worker.#process
  pc, inst, outcome,
  \* InstanceRun
  mem, busy, batch, consumed, saveQueued, saves, finished, wake,
  faults

rowVars    == <<status, runnableAt, lockedBy, lease, cancelRequested, saved>>
clientVars == <<nextId, cpc, cinst, cid, cfresh, committed, earlier>>
engineVars == <<mem, busy, batch, consumed, saveQueued, saves, finished, wake>>
tickVars   == <<pc, inst, outcome, engineVars>>
vars       == <<rowVars, inbox, clientVars, tickVars, faults>>

----------------------------------------------------------------------------
Active   == {"pending", "running"}
Statuses == Active \cup {"none", "completed", "failed", "canceled"}
Due      == {"null", "later", "due"}
SigId    == 1..MaxSignals
NoSignal == 0

\* The state column (fresh: NULL) or a running engine's state.
State == [fresh: BOOLEAN, applied: SUBSET SigId, calls: 0..MaxCalls, timer: BOOLEAN]
\* A checkpoint on its way: the state, and the signals that leave the inbox.
Save  == [state: State, consumed: SUBSET SigId]
Fresh == [fresh |-> TRUE, applied |-> {}, calls |-> 0, timer |-> FALSE]

\* What engine.getState() serializes.
Snapshot(t) == [mem[t] EXCEPT !.fresh = FALSE]

\* Mutant: a run writes by id alone.
Unfenced(t) == TRUE

\* The fence of every write a run makes: WHERE id = inst AND locked_by = this.id
Holds(t) == lockedBy[inst[t]] = WorkerOf[t]

Running(t) == pc[t] = "run" /\ finished[t] = "none"

Fault(kind) == /\ kind \in Faults /\ faults < MaxFaults
               /\ faults' = faults + 1

Init ==
  /\ status = [i \in Instance |-> "none"]
  /\ runnableAt = [i \in Instance |-> "null"]
  /\ lockedBy = [i \in Instance |-> NoWorker]
  /\ lease = [i \in Instance |-> "null"]
  /\ cancelRequested = [i \in Instance |-> FALSE]
  /\ saved = [i \in Instance |-> Fresh]
  /\ inbox = [i \in Instance |-> {}]
  /\ nextId = 1
  /\ cpc = [c \in Client |-> "idle"]
  /\ cinst \in [Client -> Instance]
  /\ cid = [c \in Client |-> NoSignal]
  /\ cfresh = [c \in Client |-> TRUE]
  /\ committed = {}
  /\ earlier = [s \in SigId |-> {}]
  /\ pc = [t \in Tick |-> "idle"]
  /\ inst \in [Tick -> Instance]
  /\ outcome = [t \in Tick |-> "none"]
  /\ mem = [t \in Tick |-> Fresh]
  /\ busy = [t \in Tick |-> FALSE]
  /\ batch = [t \in Tick |-> {}]
  /\ consumed = [t \in Tick |-> {}]
  /\ saveQueued = [t \in Tick |-> FALSE]
  /\ saves = [t \in Tick |-> << >>]
  /\ finished = [t \in Tick |-> "none"]
  /\ wake = [t \in Tick |-> "null"]
  /\ faults = 0

----------------------------------------------------------------------------
(***************************************************************************)
(* The API.  A call reads the instance first and writes in a later         *)
(* statement; nothing holds the row in between.                            *)
(***************************************************************************)

\* Mutant: the row is written without a runnable_at.
StoreIdle(i, to) == status' = [status EXCEPT ![i] = to] /\ UNCHANGED runnableAt

\* An instance is made pending, or running again, and due.
StoreDue(i, to) == /\ status' = [status EXCEPT ![i] = to]
                   /\ runnableAt' = [runnableAt EXCEPT ![i] = "due"]

\* ProcessEngine.start: a pending instance, due at once.
Start(i) ==
  /\ status[i] = "none"
  /\ StoreDue(i, "pending")
  /\ UNCHANGED <<lockedBy, lease, cancelRequested, saved, inbox, clientVars, tickVars, faults>>

\* ProcessEngine.signal: the read that lets the call through.
SignalCheck(c, i) ==
  /\ cpc[c] = "idle"
  /\ nextId <= MaxSignals
  /\ status[i] \in Active /\ ~cancelRequested[i]
  /\ cpc' = [cpc EXCEPT ![c] = "checked"]
  /\ cinst' = [cinst EXCEPT ![c] = i]
  /\ UNCHANGED <<rowVars, inbox, nextId, cid, cfresh, committed, earlier, tickVars, faults>>

\* Its transaction inserts the row, which draws the id ...
SignalInsert(c) ==
  /\ cpc[c] = "checked"
  /\ nextId <= MaxSignals
  /\ cpc' = [cpc EXCEPT ![c] = "inserted"]
  /\ cid' = [cid EXCEPT ![c] = nextId]
  /\ nextId' = nextId + 1
  /\ earlier' = [earlier EXCEPT ![nextId] = committed]
  /\ UNCHANGED <<rowVars, inbox, cinst, cfresh, committed, tickVars, faults>>

\* ... and updates the instance, whose row lock orders the commits.
SignalCommit(c) ==
  /\ cpc[c] = "inserted"
  /\ cpc' = [cpc EXCEPT ![c] = "idle"]
  /\ cid' = [cid EXCEPT ![c] = NoSignal]
  /\ inbox' = [inbox EXCEPT ![cinst[c]] = @ \cup {cid[c]}]
  /\ runnableAt' = [runnableAt EXCEPT ![cinst[c]] = "due"]
  /\ committed' = committed \cup {cid[c]}
  /\ UNCHANGED <<status, lockedBy, lease, cancelRequested, saved,
                 nextId, cinst, cfresh, earlier, tickVars, faults>>

\* ProcessEngine.cancel: its update repeats the guard of its read, so the two
\* are one step.
Cancel(i) ==
  /\ status[i] \in Active /\ ~cancelRequested[i]
  /\ cancelRequested' = [cancelRequested EXCEPT ![i] = TRUE]
  /\ runnableAt' = [runnableAt EXCEPT ![i] = "due"]
  /\ UNCHANGED <<status, lockedBy, lease, saved, inbox, clientVars, tickVars, faults>>

\* ProcessEngine.retry: the read, which also decides the status to go back to.
RetryCheck(c, i) ==
  /\ cpc[c] = "idle"
  /\ status[i] = "failed"
  /\ cpc' = [cpc EXCEPT ![c] = "retrying"]
  /\ cinst' = [cinst EXCEPT ![c] = i]
  /\ cfresh' = [cfresh EXCEPT ![c] = saved[i].fresh]
  /\ UNCHANGED <<rowVars, inbox, nextId, cid, committed, earlier, tickVars, faults>>

\* The update only takes effect on an instance that is still failed.
RetryCommit(c) ==
  /\ cpc[c] = "retrying"
  /\ cpc' = [cpc EXCEPT ![c] = "idle"]
  /\ cfresh' = [cfresh EXCEPT ![c] = TRUE]
  /\ LET i == cinst[c] IN
       IF status[i] = "failed"
         THEN StoreDue(i, IF cfresh[c] THEN "pending" ELSE "running")
         ELSE UNCHANGED <<status, runnableAt>>
  /\ UNCHANGED <<lockedBy, lease, cancelRequested, saved, inbox,
                 nextId, cinst, cid, committed, earlier, tickVars, faults>>

----------------------------------------------------------------------------
(***************************************************************************)
(* Time.                                                                   *)
(***************************************************************************)

\* A parked instance's timer comes due.
TimerDue(i) ==
  /\ runnableAt[i] = "later"
  /\ runnableAt' = [runnableAt EXCEPT ![i] = "due"]
  /\ UNCHANGED <<status, lockedBy, lease, cancelRequested, saved, inbox, clientVars, tickVars, faults>>

\* Some tick is still processing i under the id its row is locked by.
Attended(i) == \E t \in Tick : pc[t] # "idle" /\ inst[t] = i /\ Holds(t)

\* The lease of a tick that died, or whose database calls failed, runs out.
Expire(i) ==
  /\ lease[i] = "live" /\ ~Attended(i)
  /\ lease' = [lease EXCEPT ![i] = "lapsed"]
  /\ UNCHANGED <<status, runnableAt, lockedBy, cancelRequested, saved, inbox, clientVars, tickVars, faults>>

\* The heartbeats of a tick that is still at work come too late.
Overrun(i) ==
  /\ lease[i] = "live" /\ Attended(i)
  /\ Fault("overrun")
  /\ lease' = [lease EXCEPT ![i] = "lapsed"]
  /\ UNCHANGED <<status, runnableAt, lockedBy, cancelRequested, saved, inbox, clientVars, tickVars>>

----------------------------------------------------------------------------
(***************************************************************************)
(* Worker.tick and Worker.#process.                                        *)
(***************************************************************************)

\* locked_until IS NULL OR locked_until < now
Unlocked(i) == lease[i] # "live"

\* SET locked_by, locked_until: runnable_at stays as it is.
Lock(t, i) == /\ lockedBy' = [lockedBy EXCEPT ![i] = WorkerOf[t]]
              /\ lease' = [lease EXCEPT ![i] = "live"]
              /\ UNCHANGED runnableAt

\* Worker.#claim: any due row whose lease is free or over; its status does
\* not matter.
Claim(t, i) ==
  /\ pc[t] = "idle"
  /\ runnableAt[i] = "due" /\ Unlocked(i)
  /\ Lock(t, i)
  /\ pc' = [pc EXCEPT ![t] = "claimed"]
  /\ inst' = [inst EXCEPT ![t] = i]
  /\ UNCHANGED <<status, cancelRequested, saved, inbox, clientVars, outcome, engineVars, faults>>

\* The heartbeat: extends the lease while the row still names this worker.
Heartbeat(t) ==
  /\ pc[t] # "idle" /\ Holds(t)
  /\ lease[inst[t]] = "lapsed"
  /\ lease' = [lease EXCEPT ![inst[t]] = "live"]
  /\ UNCHANGED <<status, runnableAt, lockedBy, cancelRequested, saved, inbox, clientVars, tickVars, faults>>

\* The state an engine is restored from.
Restored(t) == saved[inst[t]]

\* Read the row: carry out a cancel, or restore its state.
LoadRow(t) ==
  /\ pc[t] = "claimed"
  /\ IF cancelRequested[inst[t]]
       THEN /\ outcome' = [outcome EXCEPT ![t] = "canceled"]
            /\ pc' = [pc EXCEPT ![t] = "closing"]
            /\ mem' = mem
       ELSE /\ mem' = [mem EXCEPT ![t] = Restored(t)]
            /\ pc' = [pc EXCEPT ![t] = "loaded"]
            /\ outcome' = outcome
  /\ UNCHANGED <<rowVars, inbox, clientVars, inst, busy, batch, consumed, saveQueued, saves,
                 finished, wake, faults>>

\* Mutant: every id the sequence has come to, one too many.
UpToSequence(t) == 1..nextId

\* The signals queued for the tick's instance.
Queued(t) == inbox[inst[t]]

\* Read the inbox and start, or resume, the engine.
LoadSignals(t) ==
  /\ pc[t] = "loaded"
  /\ batch' = [batch EXCEPT ![t] = Queued(t)]
  /\ busy' = [busy EXCEPT ![t] = TRUE]
  /\ pc' = [pc EXCEPT ![t] = "run"]
  /\ UNCHANGED <<rowVars, inbox, clientVars, inst, outcome, mem, consumed, saveQueued, saves,
                 finished, wake, faults>>

----------------------------------------------------------------------------
(***************************************************************************)
(* InstanceRun: the engine, the signals of the batch one by one in id      *)
(* order, and a checkpoint after each service call, written in the         *)
(* background one after another.                                           *)
(***************************************************************************)

\* A service call succeeds: its result is in, a checkpoint is due.
CallReturns(t) ==
  /\ Running(t) /\ busy[t]
  /\ mem[t].calls < MaxCalls
  /\ mem' = [mem EXCEPT ![t].calls = @ + 1]
  /\ saveQueued' = [saveQueued EXCEPT ![t] = TRUE]
  /\ UNCHANGED <<rowVars, inbox, clientVars, pc, inst, outcome, busy, batch, consumed, saves,
                 finished, wake, faults>>

\* The checkpoint's snapshot, taken once the cascade is over: the signals
\* applied so far go with it.
TakeSnapshot(t) ==
  /\ pc[t] = "run" /\ saveQueued[t]
  /\ saveQueued' = [saveQueued EXCEPT ![t] = FALSE]
  /\ IF finished[t] = "none"
       THEN /\ saves' = [saves EXCEPT ![t] = Append(@, [state |-> Snapshot(t), consumed |-> consumed[t]])]
            /\ consumed' = [consumed EXCEPT ![t] = {}]
       ELSE UNCHANGED <<saves, consumed>>
  /\ UNCHANGED <<rowVars, inbox, clientVars, pc, inst, outcome, mem, busy, batch, finished, wake, faults>>

\* Mutant: the state is saved, the inbox left as it is.
AllOf(i, save) == inbox[i]

\* What a checkpoint leaves of the inbox.
NotIn(i, save) == inbox[i] \ save.consumed

\* Worker.#checkpoint: the oldest snapshot is written, if the lease still is
\* this worker's; if not, the run fails with LeaseLost.
WriteCheckpoint(t) ==
  /\ pc[t] \in {"run", "closing"} /\ saves[t] # << >>
  /\ LET i == inst[t]
         save == Head(saves[t]) IN
       IF Holds(t)
         THEN /\ status' = [status EXCEPT ![i] = "running"]
              /\ saved' = [saved EXCEPT ![i] = save.state]
              /\ inbox' = [inbox EXCEPT ![i] = NotIn(i, save)]
              /\ finished' = finished
         ELSE /\ finished' = [finished EXCEPT ![t] = IF @ = "none" THEN "failed" ELSE @]
              /\ UNCHANGED <<status, saved, inbox>>
  /\ saves' = [saves EXCEPT ![t] = Tail(@)]
  /\ UNCHANGED <<runnableAt, lockedBy, lease, cancelRequested, clientVars, pc, inst, outcome, mem,
                 busy, batch, consumed, saveQueued, wake, faults>>

\* The database refuses it: the run fails too, but the snapshots behind it
\* are still written.
CheckpointFails(t) ==
  /\ pc[t] \in {"run", "closing"} /\ saves[t] # << >>
  /\ Fault("save")
  /\ finished' = [finished EXCEPT ![t] = IF @ = "none" THEN "failed" ELSE @]
  /\ saves' = [saves EXCEPT ![t] = Tail(@)]
  /\ UNCHANGED <<rowVars, inbox, clientVars, pc, inst, outcome, mem, busy, batch, consumed,
                 saveQueued, wake>>

\* The engine comes to rest: every token waits on a signal or a timer.
Settle(t) ==
  /\ Running(t) /\ busy[t]
  /\ busy' = [busy EXCEPT ![t] = FALSE]
  /\ UNCHANGED <<rowVars, inbox, clientVars, pc, inst, outcome, mem, batch, consumed, saveQueued,
                 saves, finished, wake, faults>>

\* ORDER BY id: the first of those left.
NextOf(t) == {s \in batch[t] : \A q \in batch[t] : s <= q}

\* At rest, the next signal of the batch is applied.
Deliver(t) ==
  /\ Running(t) /\ ~busy[t]
  /\ \E s \in NextOf(t) :
       /\ mem' = [mem EXCEPT ![t].applied = @ \cup {s}]
       /\ consumed' = [consumed EXCEPT ![t] = @ \cup {s}]
       /\ batch' = [batch EXCEPT ![t] = @ \ {s}]
  /\ busy' = [busy EXCEPT ![t] = TRUE]
  /\ UNCHANGED <<rowVars, inbox, clientVars, pc, inst, outcome, saveQueued, saves, finished, wake, faults>>

\* The engine's "end" and "error" events.
EngineEnds(t) ==
  /\ Running(t) /\ busy[t]
  /\ \E result \in {"completed", "failed"} : finished' = [finished EXCEPT ![t] = result]
  /\ UNCHANGED <<rowVars, inbox, clientVars, pc, inst, outcome, mem, busy, batch, consumed,
                 saveQueued, saves, wake, faults>>

\* The run returns; from here on no snapshot is taken and the rest of the
\* batch is forgotten.
Return(t, result) ==
  /\ outcome' = [outcome EXCEPT ![t] = result]
  /\ pc' = [pc EXCEPT ![t] = "closing"]
  /\ saveQueued' = [saveQueued EXCEPT ![t] = FALSE]
  /\ busy' = [busy EXCEPT ![t] = FALSE]
  /\ batch' = [batch EXCEPT ![t] = {}]
  /\ UNCHANGED <<rowVars, inbox, clientVars, inst, saves, finished>>

\* Over: of the engine's state nothing is saved any more.
ReturnFinished(t) ==
  /\ pc[t] = "run" /\ finished[t] # "none"
  /\ Return(t, finished[t])
  /\ mem' = [mem EXCEPT ![t] = Fresh]
  /\ consumed' = [consumed EXCEPT ![t] = {}]
  /\ UNCHANGED <<wake, faults>>

\* At rest with the batch applied: park until the next timer, if there is one.
ReturnParked(t) ==
  /\ Running(t) /\ ~busy[t] /\ batch[t] = {}
  /\ \E timer \in BOOLEAN :
       /\ mem' = [mem EXCEPT ![t].timer = timer]
       /\ wake' = [wake EXCEPT ![t] = IF timer THEN "later" ELSE "null"]
  /\ Return(t, "parked")
  /\ UNCHANGED <<consumed, faults>>

\* Out of time: park what there is and run again at once.
ReturnTimedOut(t) ==
  /\ Running(t) /\ busy[t]
  /\ Fault("timeout")
  /\ wake' = [wake EXCEPT ![t] = "due"]
  /\ Return(t, "parked")
  /\ UNCHANGED <<mem, consumed>>

----------------------------------------------------------------------------
(***************************************************************************)
(* Worker.#release, and the ends of a tick's work on an instance.          *)
(***************************************************************************)

\* The tick forgets the run.
LetGo(t) ==
  /\ pc' = [pc EXCEPT ![t] = "idle"]
  /\ outcome' = [outcome EXCEPT ![t] = "none"]
  /\ mem' = [mem EXCEPT ![t] = Fresh]
  /\ busy' = [busy EXCEPT ![t] = FALSE]
  /\ batch' = [batch EXCEPT ![t] = {}]
  /\ consumed' = [consumed EXCEPT ![t] = {}]
  /\ saveQueued' = [saveQueued EXCEPT ![t] = FALSE]
  /\ saves' = [saves EXCEPT ![t] = << >>]
  /\ finished' = [finished EXCEPT ![t] = "none"]
  /\ wake' = [wake EXCEPT ![t] = "null"]
  /\ inst' = inst

\* Every outcome drops the lease in the statement that writes it.
Unlock(i) ==
  /\ lockedBy' = [lockedBy EXCEPT ![i] = NoWorker]
  /\ lease' = [lease EXCEPT ![i] = "null"]

\* Once every checkpoint is written the outcome is saved, lease permitting.
MayRelease(t) == pc[t] = "closing" /\ saves[t] = << >> /\ Holds(t)

\* Completed: nothing is left to resume, and nothing to signal.
ReleaseCompleted(t) ==
  /\ MayRelease(t) /\ outcome[t] = "completed"
  /\ LET i == inst[t] IN
       /\ status' = [status EXCEPT ![i] = "completed"]
       /\ runnableAt' = [runnableAt EXCEPT ![i] = "null"]
       /\ saved' = [saved EXCEPT ![i] = Fresh]
       /\ inbox' = [inbox EXCEPT ![i] = {}]
       /\ Unlock(i)
  /\ LetGo(t)
  /\ UNCHANGED <<cancelRequested, clientVars, faults>>

\* Canceled: the state stays, the signals go.
ReleaseCanceled(t) ==
  /\ MayRelease(t) /\ outcome[t] = "canceled"
  /\ LET i == inst[t] IN
       /\ status' = [status EXCEPT ![i] = "canceled"]
       /\ runnableAt' = [runnableAt EXCEPT ![i] = "null"]
       /\ inbox' = [inbox EXCEPT ![i] = {}]
       /\ Unlock(i)
  /\ LetGo(t)
  /\ UNCHANGED <<cancelRequested, saved, clientVars, faults>>

\* Failed: the last checkpoint stays, and so do the signals it has not seen.
ReleaseFailed(t) ==
  /\ MayRelease(t) /\ outcome[t] = "failed"
  /\ LET i == inst[t] IN
       /\ status' = [status EXCEPT ![i] = "failed"]
       /\ runnableAt' = [runnableAt EXCEPT ![i] = "null"]
       /\ Unlock(i)
  /\ LetGo(t)
  /\ UNCHANGED <<cancelRequested, saved, inbox, clientVars, faults>>

\* Mutant: the inbox is emptied, as for a finished instance.
NothingLeft(t) == {}

\* What a parking run leaves of the inbox.
Left(t) == inbox[inst[t]] \ consumed[t]

\* Mutants: one of the two re-checks is missing.
WakeForCancel(t) == IF cancelRequested[inst[t]] THEN "due" ELSE wake[t]
WakeForSignal(t) == IF Left(t) # {} THEN "due" ELSE wake[t]

\* When the instance is next due: a cancel or a signal that came while the
\* run was in flight wakes it at once.
NextWake(t) == IF cancelRequested[inst[t]] \/ Left(t) # {} THEN "due" ELSE wake[t]

\* Parked: the state is saved.  When a cancel is to follow, the applied signals
\* are left for the cancel to delete.
ReleaseParked(t) ==
  /\ MayRelease(t) /\ outcome[t] = "parked"
  /\ LET i == inst[t] IN
       /\ status' = [status EXCEPT ![i] = "running"]
       /\ saved' = [saved EXCEPT ![i] = Snapshot(t)]
       /\ inbox' = IF cancelRequested[i] THEN inbox ELSE [inbox EXCEPT ![i] = Left(t)]
       /\ runnableAt' = [runnableAt EXCEPT ![i] = NextWake(t)]
       /\ Unlock(i)
  /\ LetGo(t)
  /\ UNCHANGED <<cancelRequested, clientVars, faults>>

\* The lease went to another worker: its run wins, this one is dropped.
ReleaseLeaseLost(t) ==
  /\ pc[t] = "closing" /\ saves[t] = << >> /\ ~Holds(t)
  /\ LetGo(t)
  /\ UNCHANGED <<rowVars, inbox, clientVars, faults>>

\* The process dies, or a database call of #process throws: the row stays
\* locked until the lease runs out.
Abandon(t) ==
  /\ pc[t] # "idle"
  /\ Fault("abandon")
  /\ LetGo(t)
  /\ UNCHANGED <<rowVars, inbox, clientVars>>

----------------------------------------------------------------------------
Api == \/ \E i \in Instance : Start(i) \/ Cancel(i)
       \/ \E c \in Client, i \in Instance : SignalCheck(c, i) \/ RetryCheck(c, i)
       \/ \E c \in Client : SignalInsert(c) \/ SignalCommit(c) \/ RetryCommit(c)

Release(t) == \/ ReleaseCompleted(t) \/ ReleaseCanceled(t) \/ ReleaseFailed(t)
              \/ ReleaseParked(t) \/ ReleaseLeaseLost(t)

\* What a tick does by itself once it has claimed a row.
Process(t) == \/ LoadRow(t) \/ LoadSignals(t)
              \/ CallReturns(t) \/ TakeSnapshot(t) \/ WriteCheckpoint(t)
              \/ Settle(t) \/ Deliver(t) \/ EngineEnds(t)
              \/ ReturnFinished(t) \/ ReturnParked(t) \/ Release(t)

TickFault(t) == CheckpointFails(t) \/ ReturnTimedOut(t) \/ Abandon(t)

Next == \/ Api
        \/ \E i \in Instance : TimerDue(i) \/ Expire(i) \/ Overrun(i)
        \/ \E t \in Tick, i \in Instance : Claim(t, i)
        \/ \E t \in Tick : Heartbeat(t) \/ Process(t) \/ TickFault(t)

Spec == Init /\ [][Next]_vars

(***************************************************************************)
(* runWorker ticks again and again, a claimed instance is worked on to its *)
(* release, and time passes.  Nothing is assumed of the API's callers.     *)
(***************************************************************************)
Fairness == /\ \A t \in Tick : WF_vars(Process(t))
            /\ \A i \in Instance : /\ WF_vars(\E t \in Tick : Claim(t, i))
                                   /\ WF_vars(Expire(i))
                                   /\ WF_vars(TimerDue(i))

FairSpec == Spec /\ Fairness

----------------------------------------------------------------------------
(***************************************************************************)
(* Properties.                                                             *)
(***************************************************************************)

\* TypeOK of the database ...
RowTypeOK ==
  /\ status \in [Instance -> Statuses]
  /\ runnableAt \in [Instance -> Due]
  /\ lockedBy \in [Instance -> Worker \cup {NoWorker}]
  /\ lease \in [Instance -> {"null", "live", "lapsed"}]
  /\ cancelRequested \in [Instance -> BOOLEAN]
  /\ saved \in [Instance -> State]
  /\ inbox \in [Instance -> SUBSET SigId]

\* ... of the API's callers and the ghosts ...
ClientTypeOK ==
  /\ nextId \in 1..(MaxSignals + 1)
  /\ cpc \in [Client -> {"idle", "checked", "inserted", "retrying"}]
  /\ cinst \in [Client -> Instance]
  /\ cid \in [Client -> SigId \cup {NoSignal}]
  /\ cfresh \in [Client -> BOOLEAN]
  /\ committed \in SUBSET SigId
  /\ earlier \in [SigId -> SUBSET SigId]
  /\ \A c \in Client : cpc[c] = "inserted" => cid[c] \in SigId

\* ... and of the ticks and their runs.
TickTypeOK ==
  /\ pc \in [Tick -> {"idle", "claimed", "loaded", "run", "closing"}]
  /\ inst \in [Tick -> Instance]
  /\ outcome \in [Tick -> {"none", "parked", "completed", "failed", "canceled"}]
  /\ mem \in [Tick -> State]
  /\ busy \in [Tick -> BOOLEAN]
  /\ batch \in [Tick -> SUBSET SigId]
  /\ consumed \in [Tick -> SUBSET SigId]
  /\ saveQueued \in [Tick -> BOOLEAN]
  /\ saves \in [Tick -> Seq(Save)]
  /\ finished \in [Tick -> {"none", "completed", "failed"}]
  /\ wake \in [Tick -> Due]
  /\ faults \in 0..MaxFaults

\* Every variable stays in its set.
TypeOK == RowTypeOK /\ ClientTypeOK /\ TickTypeOK

\* A locked row stays due for as long as it is locked, whatever happens to the
\* run: so a worker that dies never takes its instance with it, the row can be
\* claimed again once the lease is over (Worker.#claim leaves runnable_at).
LockedStaysDue ==
  \A i \in Instance : lockedBy[i] # NoWorker => runnableAt[i] = "due" /\ lease[i] # "null"

\* Something an active instance still has to react to.
HasWork(i) == inbox[i] # {} \/ cancelRequested[i]

\* No wake-up is lost: an active instance nobody holds that has a signal
\* queued or a cancel to carry out is due, however the API's writes fell
\* between the steps of the run that let it go; one that waits on a timer has
\* at least that timer to wake it.
NoLostWakeup ==
  \A i \in Instance : status[i] \in Active /\ lockedBy[i] = NoWorker =>
     /\ HasWork(i) => runnableAt[i] = "due"
     /\ saved[i].timer => runnableAt[i] # "null"

\* A signal is applied once, and never before one that was acknowledged when
\* it was sent: neither it nor such an earlier one can still be queued when it
\* is part of the saved state.  (An instance about to be canceled applies
\* nothing any more.)
AppliedOnceInOrder ==
  \A i \in Instance : ~cancelRequested[i] =>
     \A s \in saved[i].applied, q \in inbox[i] : q # s /\ q \notin earlier[s]

\* A signal leaves the inbox only for the saved state, or with an instance
\* that is over: no crash, lapse or lost lease makes it disappear.
SignalsKept ==
  [][\A i \in Instance : \A s \in inbox[i] \ inbox'[i] :
        s \in saved'[i].applied \/ status'[i] \in {"completed", "canceled"}]_vars

\* What is saved never goes back: no write of a run that lost its lease takes
\* away a signal applied or a service call made by another run.
ProgressKept ==
  [][\A i \in Instance :
        \/ saved[i].applied \subseteq saved'[i].applied /\ saved[i].calls <= saved'[i].calls
        \/ status'[i] = "completed"]_vars

\* An instance that is over is not runnable: prisma/schema.prisma:43-45,
\* runnableAt is "null when it is parked or finished".
FinishedNotRunnable ==
  \A i \in Instance : status[i] \in {"completed", "canceled"} => runnableAt[i] = "null"

\* A started instance is picked up, whatever dies on the way.
PendingPickedUp == \A i \in Instance : status[i] = "pending" ~> status[i] # "pending"

\* A cancel is carried out, unless the run in progress ends the instance first.
CancelCarriedOut ==
  \A i \in Instance : status[i] \in Active /\ cancelRequested[i] ~> status[i] \notin Active

\* A queued signal is applied or discarded, unless the instance fails.
SignalAnswered ==
  \A i \in Instance, s \in SigId : s \in inbox[i] ~> s \notin inbox[i] \/ status[i] = "failed"
=============================================================================
