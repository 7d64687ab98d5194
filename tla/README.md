# TLA+ models of struna

struna runs BPMN processes: definitions are deployed and versioned, an instance of one is a row
in Postgres, workers claim due rows under a lease and run them with bpmn-engine, service tasks
call gRPC/Connect services found in a registry, and everything that happens is appended to an
event log that clients and browsers tail.  There is no broker and no leader: every coordination
goes through rows that several processes read and write, often in separate statements.  That is
what these modules are about.

All paths below are relative to the repository; `worker.ts`, `process-engine.ts`, `event-feed.ts`,
`registry.ts` are in `src/engine`, `dashboard.ts`, `server.ts` in `src/server`.

## 1. Inventory

| Component | State | Operations | Talks to | What is hard |
|---|---|---|---|---|
| ProcessEngine, instances (`process-engine.ts` 505-616) | `process_instances`, `process_signals` | start, signal, cancel, retry | the workers, through the row and the inbox | read in one statement, write in a later one; an id drawn at insert, visible at commit |
| ProcessEngine, definitions (`process-engine.ts` 144-263, 490-526) | `process_definitions` | deploy, latestDefinition, startByIdOrName | registry (checks of a deploy) | deploys of one name race for a version |
| ProcessEngine, read side (`process-engine.ts` 104-121, 330-477; `element-definition.ts`) | none: folds of the event log | elementRuns, elementProgress, variableChanges, describe | event log | logs with seams (retries, takeovers), loops, sub-processes |
| Worker (`worker.ts` 376-612) | lease, heartbeat | tick, claim, process, checkpoint, release | the rows | crashes, lapsed leases, two ticks under one id |
| InstanceRun (`worker.ts` 614-904) | the engine, the batch of signals, consumed signals, chained checkpoints | run, deliver signals, snapshot, watch, record | bpmn-engine by callbacks, services, database | snapshots written in the background, outcomes decided before they are written, time budget |
| runWorker, Tick RPC (`worker.ts` 402-419, 909-933; `worker-routes.ts`) | back-off, budget | loop, tick on request, shutdown | Worker | a worker shared by a loop and by requests |
| EventFeed (`event-feed.ts` 27-105) | floor, cursor, recent | subscribe, latestSeq | `process_events` | ids out of commit order, two queries in flight together |
| Event stream and tabs (`dashboard.ts` 466-503; `layout.eta` 252-303) | last event id per tab, lock and channel | stream, resume, take over | EventFeed | reconnects, hand-over between tabs |
| ServiceRegistry (`registry.ts`) | `services`, `descriptor_sets`; per process `#rows`, `#sets` | add, remove, list, resolve, describe | deploy, service calls | caches with a time to live, reads in flight across an invalidation |
| Service calls (`service-call.ts`) | none | call | registry, HTTP | at-least-once after a crash |
| Mappings, FEEL, payload policy (`bpmn-extensions.ts`, `feel-scripts.ts`, `payload.ts`) | none | applyResult, setPath, resultRules, redact, mask | InstanceRun | nesting, defaults, prototype-safe paths |
| Templates, icons, diagram, views, routes, command line | none | generation, rendering, routing | the parts above | - |

What makes each one correct:

* **instances** - nothing acknowledged is lost: an instance that has something to do is always
  due or held by somebody, a signal is applied once and in the order its senders could observe,
  saved progress is never taken back, and a pending instance, a cancel and a signal are attended to.
* **definitions** - versions of a name are contiguous and follow real time; a deploy fails for
  contention only under the contention the code allows for.
* **event feed** - a subscription delivers every row once, also rows that commit late, and the
  rows of one instance in order.
* **registry** - a descriptor set lives exactly as long as a service points at it; "not
  registered" is only said when true; stale copies end.
* **read side** - what the log is read to say happened, happened: the waits shown are those the
  saved state is parked on, and each run of an element has the end, the wait and the changes it
  really had, whichever processes ran it and whatever was resumed or retried in between.
* **mappings and masking** - a result changes the variables its mappings name and no others, an
  output reads what its author meant, a deploy refuses what could only fail later, and the log
  shows neither more nor less than the variables do.
* **worker loop** - a tick stays within its own budget and items, whoever asked for them, every due
  instance gets its turn whatever the others do, and a shutdown cuts no run of the loop short.
* **tabs** - every tab shows each event once, whichever tab holds the stream.

## 2. Modules

```
Scheduler ----------- MC_Scheduler        LogDelivery
  |                                          |  INSTANCE (refinement)
  SchedulerProofs                         EventFeed ------ MC_EventFeed
                                             |
                                          EventFeedProofs

Registry ------------ MC_Registry         Definitions ---- MC_Definitions
  |                                          |
  RegistryProofs                          DefinitionsProofs

ElementLog ---------- MC_ElementLog       WorkerLoop ----- MC_WorkerLoop
  |                                          |
  ElementLogProofs                        WorkerLoopProofs

TabStream ----------- MC_TabStream        StepData ------- MC_StepData
  |                                          |
  TabStreamProofs                         StepDataProofs
```

The modules meet at the rows.  Scheduler says what may happen to one instance at the hands of all
who touch it; ElementLog takes one such life (run, park, crash, fail, retry) and says what it
writes down; EventFeed carries the rows to readers; TabStream hands a reader's stream from tab to
tab; WorkerLoop says when a worker comes to claim at all; StepData is what one step does to the
variables that Scheduler and ElementLog treat as a number.

**Scheduler** composes the API's writers, the rows and the workers, because the guarantees are
about all three.  A step is one database statement or transaction, or one step of a run
between two of its awaits.

| Model | Code |
|---|---|
| `status, runnableAt, lockedBy, lease, cancelRequested, saved` | columns of `process_instances`; a timestamp is `null`, `later` or `due`, a lease `live` or `lapsed` |
| `inbox`, `nextId` | `process_signals` and its sequence |
| `Start`, `SignalCheck/Insert/Commit`, `Cancel`, `RetryCheck/Commit` | the API, split where the code awaits between a read and a write; a signal's transaction is split at the insert, which draws the id |
| `Claim`, `Heartbeat`, `Expire`, `Overrun` | the claim of `Worker.#claim`, the heartbeat, a lease that ends with or without its holder |
| `LoadRow`, `LoadSignals` | `#process`: the row (a cancel is found here), then the inbox |
| `CallReturns`, `Settle`, `Deliver`, `EngineEnds` | what the engine does, seen from `InstanceRun`: a service call succeeds, all tokens wait, the next signal by id is applied, "end" and "error" |
| `TakeSnapshot`, `WriteCheckpoint`, `CheckpointFails` | a checkpoint: queued by a call, taken when the cascade is over, written behind the earlier ones under `WHERE locked_by = this.id` |
| `Return...`, `Release...` | the outcome is computed, and written once every checkpoint is |
| `Abandon` | the process dies, or a database call of `#process` throws |

Of the engine's state (`State`) only what scheduling has to preserve is kept: the signals it has
applied, the number of service calls it has made, whether it waits on a timer, and whether the
column is still NULL.

**EventFeed** has the id sequence and the fate of each row (`open`, `committed`, `lost`), the
chain of writes of each run, the look-back window (`stale`: outside the window), and the loop of
`subscribe`: `Poll` fixes `since`, `AnswerLate` and `AnswerFresh` are its two concurrent queries
in either order, `Yield` delivers the page in id order, `EndPoll` forgets what left the window.
A reader is `Watch` (one instance, from the beginning, `routes.ts`) or `Stream` (all of them, from
now, `dashboard.ts`); both go through `Open`.  `Resume` is the reader of a stream that reconnects
with the id of the last row it got.  **LogDelivery** is
what a subscription promises, in two variables; EventFeed implements it with the refinement
mapping `visible <- Visible, delivered <- sent`.

**Registry** has the two tables, and per process the copy `#rows` and the parsed sets.  Every
call in flight is a record that says where it stands; the steps of `add` (transaction, orphan
sets, invalidation, `list`) and of `resolve` (copy or read, store, set) lie between its awaits.

**Definitions** has the versions stored of each name, and deploys and starts in flight.  `deploy`
reads the latest version and creates the next one; the unique index refuses a duplicate
(`Lose`), and the deploy reads again, up to `DEPLOY_ATTEMPTS` times.  A listing (`List`) reads a
page at a time (`Page`) by name, latest version first, and its token is the number of rows to skip,
while deploys go on between two pages.

**ElementLog** is one instance, its log and its engine seen as a set of tasks.

| Model | Code |
|---|---|
| `log`, `flushed` | `process_events` of the instance in id order; the first `flushed` rows are written for sure, the rest are in the chain of `#record`; a row whose insert is refused is a `Hole`, which no reader sees |
| `at`, `data` | bpmn-engine's elements and its variables |
| `saved` | columns `state` and `variables` |
| `logged`, `replayed`, `called` | `#loggedVariables`, `#replayedWaits`, and a call that has asked for a checkpoint |
| `Begin`, `Resume`, `Settle` | `run` without and with a saved state, and its first rest |
| `Start`, `Wait`, `End`, `CutShort`, `ElementFails` | the cases of `#listener`, with the snapshots that `taskResults` adds |
| `Checkpoint`, `Park`, `Complete`, `RunFails`, `Crash` | a checkpoint and the ways a run ends |
| `Record` | `#record`: each row of an event is written or refused (`Insert`), and the run goes on either way |
| `LateRow`, `late` | rows that a run which lost its lease and is still alive goes on to write: `#record` asks for no lease.  What that run does is left open, so its rows are of any type and element |
| `Cancel`, `RetryCheck`, `RetryCommit` | the rows that the API and the release log beside their update |
| `Waits`, `ElementRuns`, `Progress`, `VariableChanges` | `waitingActivities`, `elementRuns`, `elementProgress`, `variableChanges` |

The ghosts `truth` and `began` keep each run as it really was; the properties compare what is read
with them.  A log is written by several runs, a crash keeps any prefix of what was not flushed, and
`Crash` is also the claim of another worker after the lease has lapsed: then nothing the first run
saves counts any more, while its rows do.  Three more ghosts say what a refused row spoils:
`missed`, the elements that rows of this life were refused of; `gap`, that the last snapshot was;
and `stray`, the elements whose waits are no longer known from the log.

**StepData** is the steps of one process.  A JSON value is the function from the paths of its leaves
to those leaves (`{"a": {"b": x}, "c": {}}` is `<<"a","b">> :> x @@ <<"c">> :> NoFields`), so that objects
of any depth are flat functions and no operator has to recur on them; a FEEL expression is the path
it reads.  A tree (`IsTree`) has finitely many leaves, none above another.  `Deploy` is what `deploy`
checks of mappings (`#checkFeel`, `#checkServiceTasks`), `Begin` and `Call` read the inputs (leniently, and strictly
for a service, whose request is then built and coerced), `End` is `applyResult` and the masked rows
it logs, `Park` and `Resume` a run that ends with steps open.  Values are not copied: the objects a
call keeps in `locals` are those its request is built of, so an input with a dotted target may be
written inside another (`Sent`, `AsLeft`), and the rows that are logged hold the objects the
variables hold (`LeftRows`).  `Arrives` is the payload of a signal as the engine gets it, with the
id it was routed by (`RouteId`), and `Payload` takes that id off again where the code does, for a
message.  `SetPath`, `BuildRequest`,
`Outputs` and `Redact` are the code's functions, their order of writes included: `Writing`, `Scopes`
and `Building` are the loops, one function of the number of passes each.

**WorkerLoop** is one server: `runWorker` and the Tick calls, each a tick with a budget and a
number of items, which a caller asks for and the server clamps (`Clamp`, of both),
claims in the order of `runnable_at`, runs that take time and heartbeats, a back-off that doubles
while ticks throw (`Doubled`), outages of the database, and `close`.  Time is a step `Pass` that is possible
only while nobody can act at once.
**TabStream** is the script of `layout.eta` in each tab, with the Web Lock, the channel and the
EventSource as the browser provides them.

`PROJECT.json` maps each definition to its lines.  The operators commented "Mutant" next to a
definition are plausible bugs in it; no behaviour uses them.

## 3. What the runs check

| Run | Instance | Shows |
|---|---|---|
| `Scheduler_workers` | 1 instance, 2 workers with their own ids, 2 signals, 1 call, 1 fault (crash, late heartbeat or time-out) | `NoLostWakeup`, `AppliedOnceInOrder`, `SignalsKept`, `ProgressKept`: no interleaving of API calls, two runs and a fault loses a wake-up, a signal or a saved step |
| `Scheduler_liveness` | 2 workers, 2 signals, 2 faults (crash, refused checkpoint, time-out), fair | `PendingPickedUp`, `CancelCarriedOut`, `SignalAnswered` |
| `EventFeed_feed` | 2 writers, the instance of one or the stream of both, 3 rows, batch 1, 1 reconnect, rows stamped long before their insert, fair | `NothingSkipped`, `InOrder`, `DeliversOnce`, `RowsArrive`, also when a burst exceeds the batch |
| `Registry_calls` | a server and a worker process, 1 service, 2 calls, 2 registrations, fair | `SetsFollowServices`, `NotRegisteredIsTrue`, `EventuallyCurrent` |
| `Definitions_races` | 2 names, 3 calls, 2 attempts, pages of one row | `NumberedWithoutGaps`, `GivesUpOnlyWhenBeaten`, `VersionsFollowTime`, `ListMissesNothing` |
| `ElementLog_reads` | a service call, a waiting task and a script, 2 lost lives (crash, failure, lapsed lease), 1 late row at a time, refused rows, 2 retries at once | `WaitsAreTrue`, `RunsAreTrue`, `ChangesAreOwn`, `SeamMarked` |
| `StepData_steps` | 2 steps open at once, one with every combination of a menu of mappings | `DeployCatches`, `OnlyTargetsChange`, `OutputsRead`, `LogMatchesShown` |
| `WorkerLoop_server` | the loop and one scheduler, calls that ask for the default or for more than is allowed, an instance that cannot be saved, one that always times out, a plain one, 1 outage, fair | `TickBounded`, `EveryoneRuns`, `NothingDropped`, `StopsWhenAsked` |
| `TabStream_tabs` | 2 tabs that load, hide, are cached and come back, 3 events, 1 lost connection, fair | `ShownOnce`, `NothingMissed` |

Each module's `TypeOK` is an invariant of one of its runs.

Three more runs end in a violation on purpose: each checks a sentence of a document, a comment or
the schema, and the counterexample shows how the code departs from it.

| Run | The code | The text |
|---|---|---|
| `Scheduler_late_signal` | `signal` checks the instance in one statement and queues the signal in a later transaction that does not check again; the instance completes in between and is made runnable, then claimed and run again from its empty state (`worker.ts` 427-443 does not look at the status) | `schema.prisma` 43-45: `runnableAt` is "null when it is parked or finished" |
| `Scheduler_shared_overrun` | the serve loop and the Tick RPC have one worker id; after a late heartbeat both own the row, and the older run overwrites the newer | `worker.ts` 376, 412 |
| `StepData_parked` | the inputs of a step are remembered by the run (`locals`); a step that waits is ended by a later run, and its outputs read null or a process variable of that name | `README.md` 89: an output's source sees "the task's inputs" |

Disagreements that the models show but that are not kept as runs:

* A checkpoint that is refused after the run's outcome was computed does not fail the run
  (`worker.ts` 648-655: the outcome is awaited before the chain of checkpoints; 661-662 says it does).
* The retry of a failed instance whose cancel was still pending carries out the cancel instead of
  running it (`process-engine.ts` 596-605 leaves `cancel_requested`).
* An event is stamped when it is captured and inserted after the writes before it
  (`worker.ts` 878-893).  When those are slow the row is outside the look-back from the start and
  is skipped if it also commits late.  The run `EventFeed_feed` lets this happen (`Backlog`), and
  `NothingSkipped` excepts these rows (`slow`) and only these; `RowsArrive` is checked without them.
* After a service has moved, another process's copy of the row names the dropped set for up to
  five seconds; `resolve` then fails though the service was registered all the time
  (`registry.ts` 182, 301-316; `README.md` 180-181 says moving never needs a redeploy).  In
  Registry this is the answer `noRecord`.
* With two writers in scope a row may be delivered after the next row of the same run: the late
  query ran before it committed and the other one after.  `InOrder` is therefore about the
  subscription to one instance, the case the instance page relies on.
* A refused checkpoint does not stop those behind it: the state they save has applied signals
  whose deletion was in the refused one, and a retry applies these again (`worker.ts` 674-682
  against 583-586).  One tick, two calls and a fault "save" show it.
* The floor of a stream that resumes hides lower ids that were not committed when its reader
  left (`dashboard.ts` 474-476, `event-feed.ts` 61, 70), where `README.md` 523-524 says a late
  row arrives "rather than never".  In EventFeed `Resume` raises the floor over them.
* A read of the services begun before an `add` stores its answer over the invalidation that `add`
  made (`registry.ts` 295-296), so a server may miss its own registration until the copy
  expires; `server.ts` 42 says it sees it.
* A row whose insert is refused is dropped while the run goes on (`worker.ts` 896-897).  Its element
  is then shown to wait when it does not, or the other way round, until the instance comes to it
  again; a start or an end that is missing is never told; and behind a snapshot that is missing the
  next run to end is shown its change as well.  `WaitsAreTrue`, `RunsAreTrue` and `ChangesAreOwn`
  leave out exactly these (`stray`, `missed`, `unsure`) and say that nothing else is misled.
* A run that lost its lease while it was alive goes on to write rows (`worker.ts` 880-898 asks for no
  lease), between those of the run that took the instance over: `stray` has their elements, and
  `SeamMarked` leaves these rows out.
* A service, a signal or a waiting task that was in flight when a life was lost leaves rows behind:
  a wait that only that life logged stays shown until the instance comes to the element again
  (`stray` in ElementLog), and the first changes after it are measured against its last snapshot
  (`process-engine.ts` 461).
* A script that sets a variable itself and also has a result takes two snapshots; the first is
  taken for the run's own (`process-engine.ts` 455), which thus misses the result (`unsure`).
  What a script sets before it ends may be pinned on an element that ends beside it.
* The row `process.retry` of the second of two retries at once comes in the middle of the
  attempt the first one started.  `SeamMarked` is what remains true.
* An output that writes inside an object of the process lets a later output of the same step see
  what it wrote, one that writes at the top level does not; an input with a dotted target is one
  flat key that outputs cannot read (`Unmixed`, `Means` in StepData).
* With two or more instances that cannot be saved, and an outage that lets their leases lapse
  together, the loop claims them first at every wake (`runnable_at` is never moved by a failed
  save) and newer rows starve.  `WorkerLoop_server` has one such instance, with which
  `EveryoneRuns` holds.
* A tab that comes back from the browser's cache while another leads never catches up on what
  it missed (`dashboard.ts` 470 has it resume); a stream opened with `?after=` asks from that old
  position again when its connection is lost, which shows events twice once more than the tab
  remembers have passed.  `ShownOnce` is about the last `SeenCap` events of a tab, and `NothingMissed`
  names the first case.
* A signal's payload gets the id it was routed by, of the message or of the element (`worker.ts`
  753-756), and only the id of a message is taken off again (243-248: it "is routing, not data").  A
  user task without mappings merges it into the variables, where `README.md` 87 says "the result's
  fields, merged by name".  `OnlyTargetsChange` excepts this id and nothing else (`Routing`).
* A call keeps its inputs and builds its request of the same objects (`worker.ts` 298-302).  An input
  with a dotted target is written inside one of them (`service-call.ts` 72-76), and an output then
  reads it there, where `worker.ts` 192 says "A service step's input values: its local variables,
  for its output mappings".  `OutputsRead` is about the inputs no other is written inside (`Apart`).
* A definition that is deployed between two pages of a listing may be on both; none is missed.

## 4. Bounds, and why they are enough

* *Scheduler.*  Instances share nothing but the ticks and the sequence of signal ids, so one
  instance shows what the rows and runs of it can do to one another.  Two ticks are a stale
  holder and its successor.  Two signals are the least for order.  One call gives a checkpoint
  before the release.  `MaxFaults` bounds faults of all kinds together, one or two in a run; two
  crash, or a crash and a refused checkpoint, in the liveness run.  The proofs lift these bounds.
* *EventFeed.*  A gap needs a row that commits late and one that overtakes it; the third is more
  than the batch of one.  One reconnect is the least for `Resume`.
* *Registry.*  Two registrations are the least for a moved service; of two calls, one changes the
  table under the other.  Two processes: one that takes registrations, one that only resolves.
  Time is one step `Expire` that may come at any moment, so the five seconds are any length.
* *Definitions.*  A deploy with two attempts loses both only to two rivals; three calls have room
  for them and for starts and listings.  Two names and pages of one row put a page's end
  between names and within one.  `MaxVersion` is a guard on new deploys only.
* *ElementLog.*  A task of each kind and variables of two values.  `MaxEvents` counts starts, lost
  lives and times that rows are refused together, three: two runs of one element and a branch
  beside it, one of their rows refused; or two lives that are lost with a wait, or one with a
  refused row before or after it.  Rows of a run without its lease count as well (`LateCounted`, the
  state constraint of the run; `MaxLate` is what one lost lease leaves), and `MaxRetriers` two race
  for one failure, or for the next one.
* *StepData.*  The first step has each of four kinds, six lists of inputs, five of outputs (nested
  and overlapping targets, one written inside the object another has placed, sensitive
  names, text that is JSON, sources that cannot be parsed) and both result properties; the second
  writes into the same objects while the first is open.
  Of the two start data one has an object where the other has text.  `IsDesign` has single names for
  the targets of result properties: dotted ones would write inside the result itself, which is not modelled.
* *WorkerLoop.*  A unit of time is 10 seconds with the idle sleep rounded up; leases, heartbeats,
  time limit and back-off keep the code's order (beat < time limit < lease), and the budgets are
  short so that a tick meets each limit.  The idle sleep is set to 5 seconds
  (`STRUNA_IDLE_MS`; the default is 1, with which the loop only looks and backs off in smaller steps).
  Callers ask for 0, which is the default, and for more than the clamp lets through.
  One outage is the least to let a lease lapse.
* *TabStream.*  A leader and one that takes over; a tab remembers two of the three events, so that it
  forgets, and one connection is lost.  Three tabs, with two events, an inbox of one and no lost connection, were
  checked as well.

`CHECK_DEADLOCK FALSE` is given where the system may stop: a Scheduler in which every instance is
parked without a timer, failed or over waits for a caller, and callers stop at the bound on
signals; an instance of ElementLog and the steps of StepData end; a WorkerLoop's process exits; in
TabStream the events and the connections to lose run out.  Registry, EventFeed and Definitions
are checked for deadlock: they can always make a step.

## 5. Fairness

* *Scheduler.* `WF(Process(t))`: a tick works on what it has claimed until the release, an
  await after another; a run can always end or park, and the time budget bounds it.
  `WF(\E t : Claim(t, i))`: `runWorker` ticks again and again whatever the last tick threw
  (`worker.ts` 909-933), and the claim takes the oldest due row, so every due row has its turn
  with some worker.  `WF(Expire)`, `WF(TimerDue)`: time passes.  Nothing is assumed of the API's
  callers, heartbeats or faults; faults are bounded, since an instance whose workers die for
  ever makes no progress.  Late heartbeats (`overrun`) are left out of the liveness run.
* *EventFeed.* `WF(Subscription)`: the loop polls as long as its reader stays.  No fairness for
  writers: a row may stay uncommitted for ever, and only committed rows have to arrive.
* *WorkerLoop.* Weak fairness of every actor's steps while the process lives, of `Pass` and `Wake`
  (timers), `Up` (an outage ends) and `Exit`.  Nobody has to call, no instance has to come due,
  and nobody has to close.
* *TabStream.* Weak fairness of each tab's `Lead`, `Hello`, `Event` and `Receive`: browser and server
  go on serving a page that stays.  No page has to stay, and connections are lost finitely often.
* *Registry.* `WF(GoesOn(c))`: an event loop carries on a call that has begun; `WF(Expire(p))`:
  five seconds pass.  Nobody has to call.

The feed counts on one fact about time: a row stays in the look-back window until a poll has seen
it committed (`Age`).  The code's window is many polls long; a row that breaks this by being stamped
early is the `Backlog` case above.

## 6. What is proved

With TLAPS, for every value of the constants:

* `SchedulerProofs`: `TypeCorrect` and `NoWakeupLost` (`[](LockedStaysDue /\ NoLostWakeup)`) with
  every fault, any number of instances, ticks and callers, and any sharing of worker ids.
  `NoLostWakeup` is not inductive: it says nothing of a locked row, and a release is right only
  because the row was due all along and the outcome in hand agrees with the engine's timer.
  `WakeInv` adds that a row without a holder has no lease (`LeaseInv`) and that a parking run
  with a timer has a wake-up for it (`ParkInv`).
* `SchedulerProofs` also: `SignalOrder` (`[]AppliedOnceInOrder`), `Progress` (`ProgressKept`) and
  `SignalsStay` (`SignalsKept`), assuming `OwnIds` (each tick has a worker id of its own) and
  `NoSaveFaults` (the database refuses no checkpoint).  Both are needed: without the first
  `Scheduler_shared_overrun` is a counterexample, without the second the refused checkpoint of
  section 3.  The invariant
  `FlowInv` says where a signal is on its way from the inbox to the saved state: ids are drawn
  before they are committed (`IdInv`), rows hold only committed ones (`RowKnown`), and for each
  tick that still holds its row the saved state, the chain of snapshots and the engine are one
  growing line of states, each carrying exactly the signals the one before has not (`TickInv`).
  A tick that lost its row is free to hold anything: `OwnIds` makes the fence refuse its writes.
* `EventFeedProofs`: `FeedTypeCorrect`, and `FeedDelivers`: `Spec => DeliversOnce`, the refinement
  of LogDelivery, with reconnects, slow writers and any batch.  `OnceInv` explains why a row that
  was delivered and has been forgotten is not read again: it is outside the window of this and
  every later poll, and below the cursor.

* `RegistryProofs`: `RegistryTypeCorrect`, `SetsFollow` (`SetsFollowServices`) and `NotRegisteredTrue`
  (`NotRegisteredIsTrue`), with any processes and calls.  For the first it is enough that a call
  which added or removed goes on to its drop, and that a drop sees the table as it is, whoever
  made the orphans.  For the second, `Resolved` says that a call holding rows without its service
  has seen it missing; the copy of the process is not mentioned, since a first look never ends the call.
* `DefinitionsProofs`: `DefinitionsTypeCorrect`, `Numbered`, `GivesUpBeaten`, `FollowTime` and
  `ListingComplete`.  `NumberInv` says that the versions of a name are a prefix of the numbers, that a
  deploy about to create has read one of them (`Seen`), and that every attempt but the one under
  way was lost to a rival of its own (`Beaten`).  `ListInv` says that what a listing still owes is
  behind the pages it has read: deploys only push rows back.

* `EventFeedProofs` also: `FeedSkipsNothing` (`NothingSkipped`) and `FeedInOrder` (`InOrder`).  For the
  first, `SkipInv` follows a row that a poll has met and the cursor has passed (`Passed`): it is
  delivered, or in the page in hand, or the first query is still to read it (`Held`), because a row
  leaves the window only after a poll.  The page has every such row up to its last (`PageHas`), which
  is what lets the cursor stop in the middle of a burst.  For the second, `OrderInv` says that the
  rows of one writer are settled in the order of their ids (`Settled`: the chain of `#record`), so
  that of one writer every visible row up to the cursor is delivered, and what comes next is higher.
* `WorkerLoopProofs`: `WorkerLoopTypeCorrect`, `TicksBounded` (`TickBounded`) and `ShutdownDropsNothing`
  (`NothingDropped`), for any number of instances, calls, budgets and items asked for, and time limits.
  `TickBounded` holds each tick to its own budget and items.  It is not inductive: `BudgetInv` adds
  that a tick which runs an instance had budget left, and an item, when it claimed it, and
  `ClampTaken` that whatever is asked for is clamped.  `HeldInv` says before the exit what
  `NothingDropped` says after it: whoever has
  a lease is run by somebody or could not be saved.
* `TabStreamProofs`: `TabStreamTypeCorrect` and `ShownOnceAlways` (`ShownOnce`), for any tabs, events,
  inboxes and lost connections.  The types include that exactly the pages that are shown ask for the
  lock, once, and that no position or message is ahead of the log.  `SeenInv` says that what a tab
  remembers is the end of the list it has shown, all of it or `SeenCap` of it (`Remembers`), so that an
  event may come back only once `SeenCap` others have passed it.  Who leads, what the leader posts
  and from where a stream is resumed is not in it: the guard is each tab's own.
* `ElementLogProofs`: `ElementLogTypeCorrect`, `SeamsAreMarked` (`SeamMarked`) and `WaitsAreTrueAlways`
  (`WaitsAreTrue`), for any number of elements, runs, lost lives, refused and late rows and retries.  A
  seam is behind its failed life with nothing but late rows between, or only those are there and the
  instance is still failed with all of its rows written (`SeamAt`); a crash cuts only rows that were
  not flushed.  `Recorded` says once what any `Record` leaves behind (`Written`): the rows in their
  order, holes for those refused, and the ghosts that name them; `WaitsRecorded` that for an element
  which is not stray they tell the same as if all had been written.  `WaitsInv` says of a running instance
  that the log waits where the engine does, and of one between two runs that the log waits on no
  more than the next run begins with (`Expected`), in both cases but for `stray`.  The lemmas
  `WaitsBehind`, `TwoParts`, `Prefix` and `Sewn` say what a row added, cut or inserted does to the waits.
* `ElementLogProofs` also: `RunsAreTrueAlways` (`RunsAreTrue`) and `ChangesAreOwnAlways`
  (`ChangesAreOwn`), for as long as no life is lost and for the elements that no row was refused of,
  which both properties ask for.  `RunsOf(l, e, t)`
  says of any log that it tells of the runs `t` of `e`: its starts are numbered like `t` (`Numbered`,
  `Rank`), and the rows between a start and the next say what that run was (`Agrees`).  One lemma per
  kind of row carries it over (`RowOfStart`, `WaitRow`, `DiscardRow`, `EndRow`, `EndSnapshotRow`,
  `SnapshotRow`; `OtherRows` for rows of other elements and holes), and `RunsRead` shows that `ElementRuns` and
  `Progress` then return `t`.  Two things are needed beside it.  `RunsInv` adds that an element which
  is not idle is in its last run, still open, and that its variable has not changed since that run
  began: no other branch writes it.  `CleanInv` adds that the last snapshot in the log has the data of
  the run, or those saved while it is parked (`Behind`), unless it was refused (`gap`), so that the next
  snapshot differs from it by one element's result; and that a run that resumes repeats only waits
  of elements that are missed (`ResumedClean`).

* `StepDataProofs`: `StepDataTypeCorrect`, `DeployCatchesAlways` (`DeployCatches`), `OnlyTargets`
  (`OnlyTargetsChange`), `OutputsReadAlways` (`OutputsRead`) and `LogMatches` (`LogMatchesShown`), for
  any steps, mappings, objects of any depth and any set of sensitive keys.  They stand on what the
  code's helpers do to a tree.  `TreeSetPath`, `LookupWritten` and `LookupBeside` say of `setPath` that it
  leaves a tree, in which the path reads what was written and a path beside it reads as before;
  `LookupSpread` is the same for the spread of scopes.  `RedactSetPath` says that to mask what
  `setPath` made is to write the masked value at the masked path (`Shown`, `Cut`) of what was masked
  before, hidden paths included.  Each loop is then a bounded induction on its counter (`UpTo`):
  `WriteBeside` and `WriteLast` for rows, `ScopesBeside` for outputs that see earlier ones,
  `RequestFilled` for the entries of a request, `LoggedWriting` for the rows as they are logged.
  `RowsAt` says that what leaves a step is aimed at its targets, whichever of the four forms of
  result it has, and `Arrived` that the id a signal was routed by is among them only for a user task
  without mappings (`Routing`), which `OnlyTargetsChange` excepts.  `SentAt` says that an input nothing is
  written inside (`Apart`) is kept as it was read, which `OutputsRead` asks for, and `LeftWriting` that
  rows logged after the last was written show what they would have shown before it.  None of the five is
  inductive: `StepInv` adds that whatever has been deployed has been checked (`Checked`), that a step
  remembers only its own inputs, and those it began with unless it was parked or they were written
  inside (`Held`, `Kept`), and
  that the step a result was applied for is left (`Ended`), so that the next result is another's.

The theorems of `RegistryProofs` assume that there is a process, those of `DefinitionsProofs` that
there is a name, those of `EventFeedProofs` that there is a writer.  ElementLog assumes finitely many
elements, as a BPMN file has: a run announces all its waits in one sequence of rows.  It also assumes
that `NoElement` is none of them: the rows of the process itself have no element id.  StepData
assumes that its leaves, designs, start data and results are such (`Leaves`, `Inputs`): targets and
FEEL paths have at least one name, the targets of result properties exactly one, the text that parses
as JSON parses to a tree (`Texts`), and the empty object is none of the other leaves, the routing id
included.  Which keys are sensitive, which fields a request has and
how many mappings name one target is left open.

The assumptions on constants are the named `ASSUME`s of each module; TLC evaluates them in every run.

All liveness (`PendingPickedUp`, `CancelCarriedOut`, `SignalAnswered`, `RowsArrive`,
`EventuallyCurrent`, `EveryoneRuns`, `StopsWhenAsked`, `NothingMissed`) is only model-checked, since
the prover does not reason about fairness with `ENABLED`.  Everything else a passing run checks is
also a theorem.

## 7. Not modelled

* bpmn-engine is external: what a run relies on is modelled from its use in `worker.ts`.  Its token
  game is not, so `CallReturns` and `Settle`, and the starts and ends of ElementLog, come in any
  order while the engine is busy.
* feelin and protobuf are external: an expression reads a path and yields a value of its own, and `fromJson`
  takes what has the shape of the message.  Conditions and arithmetic are not modelled.
* The browser is external to TabStream: it grants locks in order and delivers a page's messages
  before it gives that page's lock to the next.  The stream of each tab of a browser without Web Locks
  (`layout.eta` 298) is not modelled.
* A drop of orphan sets that the database refuses (`registry.ts` 182, 249): it ends the call and leaves
  the orphan to the next add or remove, so `SetsFollowServices` is about drops that succeed.
* Postgres is taken as read-committed statements and transactions with row locks.  Connections,
  pools and migrations are not modelled.
* The parse of a deploy, the schema of services, descriptor validation, `describe`, `setAppearance`,
  transports and deadlines of service calls, the size cap of `sanitize`, and the token of the
  Tick RPC: checks and encodings without state beyond the parts above.
* Element templates, icons, layout, `element-definition.ts`, the views and the command line:
  generation and formatting only.
* The event log written inside the API's transactions is not part of Scheduler; `process.retry` and
  the row of a cancel are in ElementLog, and EventFeed has rows without content.
* The queries of the read side that select and format (`recentTaskRuns`, `listInstances`, counts of
  flows, signals and mapping rows of a run).

## 8. Plan

*Done*: Scheduler, EventFeed with LogDelivery, Registry, Definitions, ElementLog, StepData,
WorkerLoop, TabStream; the proofs of section 6.  Left, in order:

1. **SignalDelivery** - an abstract inbox that Scheduler implements under `OwnIds` and `NoSaveFaults`;
   beyond the invariants of `SchedulerProofs` its refinement needs that the signals consumed by the
   saves one tick has in hand are disjoint and still in the inbox.  What it would say of a single
   signal is proved already, as `SignalOrder`, `Progress` and `SignalsStay`.

The number of runs stays small: a new module takes one run for what holds, and violations are kept
only where a text of the repository says otherwise.

## 9. Running

```
tlc -workers 2 -config Scheduler_workers.cfg MC_Scheduler.tla
tlapm StepDataProofs.tla
```

`PROJECT.json` names the module and the configuration of each run, and for each property a change
of the code's model that must break it.
